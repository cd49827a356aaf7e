--------------------------- MODULE ProtocolProofs ---------------------------
(***************************************************************************)
(* The sequencer and the device keep step.  Proofs of the invariants that  *)
(* rest on the whole conversation: which FISs the device still has to send *)
(* in each state of the FSM, when the register FIS may leave, when an      *)
(* engine may run.                                                         *)
(*                                                                         *)
(* The hypothesis is Calm: what goes wrong are bus errors of the two       *)
(* engines, refused commands and an impatient host, not the link, and no   *)
(* PIO read is issued.  After a drop or a damaged FIS the device may still *)
(* answer the command before; a PIO read returns to idle without waiting   *)
(* for its engine.  The runs early_interrupt and engine_still_busy show    *)
(* what is lost there.                                                     *)
(***************************************************************************)
EXTENDS TransportProofs

Calm == /\ Faults \subseteq {"write_err", "read_err"}
        /\ Ops \subseteq CmdTypes \ {"PIO_READ"}
        /\ ~Signature

FisItems == {"ACT", "PIO", "PIO_MORE", "REG"}

\* The sequencer has taken the first word of the FIS the device is sending.
Started == dev_words > 0 /\ dev_script # <<>> /\ Head(dev_script) \in FisItems

\* What the device has still to begin.
Unseen == IF Started THEN Tail(dev_script) ELSE dev_script

\* The register FIS is announced, or some of its words have not left.
Announced == o_tran_req /\ o_tran_src = "REGS"
FisGoing  == Announced \/ m_valid \/ ~m_last

-----------------------------------------------------------------------------
(* The inductive invariant.                                                *)

LinkInv ==
  /\ ~reset_hold /\ (link_up => ~o_phy_reset)
  /\ fsm_state # "IDLE" \/ known_cmd \/ dev_script # <<>> => link_up

\* Host and device agree on where a FIS begins.
FrameInv ==
  /\ s_sop <=> ~Started
  /\ dev_script = <<>> => dev_words = 0
  /\ dev_script # <<>> => IF Head(dev_script) \in {"OUT", "PIO_OUT"} THEN dev_words = 0
                          ELSE dev_words < FisWords(Head(dev_script))

\* The register FIS, from the command's decoding to the opcode's leaving.
FisInv ==
  /\ known_cmd => r_command = cmd_type
  /\ Announced <=> fsm_state = "COMMAND"
  /\ Announced => ~m_valid
  /\ FisGoing => fsm_state \in {"COMMAND", "WAIT_REG", "PIO_OUT_SETUP", "DMA_IN",
                                "DMA_OUT_SETUP"}
  /\ FisGoing /\ ~m_valid => r_command = cmd_type
  /\ m_valid => m_data = cmd_type
  /\ IF m_valid THEN m_last <=> m_count = 0 ELSE m_count = 0

PioRest == <<"PIO_OUT", "REG">>
PioAll  == <<"PIO", "PIO_OUT", "REG">>
DmaRest == <<"OUT", "REG">>
DmaAll  == <<"ACT", "OUT", "REG">>
ReadAll == <<"DATA", "REG">>
Reg     == <<"REG">>

\* What the device can have left to begin, by the state of the FSM.
Answer ==
  CASE fsm_state = "WAIT_REG" -> {Reg}
    [] fsm_state = "PIO_OUT_SETUP" -> {PioAll, PioRest, Reg}
    [] fsm_state = "PIO_TXDATA" -> {PioRest}
    [] fsm_state = "DMA_OUT_SETUP" -> {DmaAll, DmaRest, Reg}
    [] fsm_state = "DMA_TXDATA" -> {DmaRest}
    [] fsm_state = "DMA_IN" -> {ReadAll, Reg}
    [] OTHER -> {<<>>}

\* The states on a command's path, once it is announced.
OpState(op) ==
  CASE op = "NONDATA" -> {"WAIT_REG"}
    [] op = "PIO_WRITE" -> {"PIO_OUT_SETUP", "PIO_TXDATA"}
    [] op = "DMA_WRITE" -> {"DMA_OUT_SETUP", "DMA_TXDATA"}
    [] op = "DMA_READ" -> {"DMA_IN", "DMA_IN_FINAL"}
    [] OTHER -> {}

PhaseInv ==
  /\ Unseen \in IF FisGoing THEN {<<>>} ELSE Answer
  /\ fsm_state \in {"IDLE", "COMMAND"} \cup OpState(cmd_type)
  /\ cmd_type # "PIO_READ"
  /\ fsm_state = "DMA_IN_FINAL" => last_fis = "REG_TO_HOST"

EngineInv ==
  /\ o_s2mm_request \/ s2mm.busy \/ rxq # <<>> => fsm_state \in {"DMA_IN", "DMA_IN_FINAL"}
  /\ o_s2mm_request => FisGoing /\ ~m_valid /\ ~s2mm.busy
  /\ o_mm2s_request \/ mm2s.busy => fsm_state \in {"PIO_TXDATA", "DMA_TXDATA"}
  /\ o_mm2s_request => ~mm2s.busy
  /\ o_tran_req => Announced \/ o_mm2s_request
  /\ mm2s.err => mm2s.busy
  /\ outq # <<>> => /\ ~o_mm2s_request /\ ~mm2s.busy /\ Len(outq) = 1
                    /\ Unseen \in {PioRest, DmaRest}

CalmInv == LinkInv /\ FrameInv /\ FisInv /\ PhaseInv /\ EngineInv /\ PulseHasStatus
Inv == TypeOK /\ BusyInv /\ CalmInv

-----------------------------------------------------------------------------
(* The device's scripts, taken apart.                                      *)

LEMMA ScriptParts ==
  /\ Head(PioAll) = "PIO" /\ Tail(PioAll) = PioRest
  /\ Head(PioRest) = "PIO_OUT" /\ Tail(PioRest) = Reg
  /\ Head(DmaAll) = "ACT" /\ Tail(DmaAll) = DmaRest
  /\ Head(DmaRest) = "OUT" /\ Tail(DmaRest) = Reg
  /\ Head(ReadAll) = "DATA" /\ Tail(ReadAll) = Reg
  /\ Head(Reg) = "REG" /\ Tail(Reg) = <<>>
  /\ PioAll # <<>> /\ PioRest # <<>> /\ DmaAll # <<>> /\ DmaRest # <<>>
  /\ ReadAll # <<>> /\ Reg # <<>>
BY DEF PioAll, PioRest, DmaAll, DmaRest, ReadAll, Reg

LEMMA ThreeItems ==
  ASSUME NEW S, NEW a \in S, NEW b \in S, NEW c \in S
  PROVE  <<a, b>> \o <<c>> = <<a, b, c>> /\ <<>> \o <<c>> = <<c>>
<1>1. <<a, b>> \in Seq(S) /\ <<c>> \in Seq(S) /\ <<a, b, c>> \in Seq(S)
  OBVIOUS
<1>2. Len(<<a, b>>) = 2 /\ Len(<<c>>) = 1 /\ Len(<<a, b, c>>) = 3
  OBVIOUS
<1>3. /\ <<a, b>> \o <<c>> \in Seq(S) /\ Len(<<a, b>> \o <<c>>) = 3
      /\ \A i \in 1 .. 3 : (<<a, b>> \o <<c>>)[i] = IF i <= 2 THEN <<a, b>>[i] ELSE <<c>>[i - 2]
  BY <1>1, <1>2, ConcatProperties
<1>4. \A i \in 1 .. 3 : (<<a, b>> \o <<c>>)[i] = <<a, b, c>>[i]
  BY <1>3
<1>5. \A s, t \in Seq(S) : Len(s) = Len(t) /\ (\A i \in 1 .. Len(s) : s[i] = t[i]) => s = t
  BY SeqEqual
<1>6. <<a, b>> \o <<c>> = <<a, b, c>>
  BY <1>1, <1>2, <1>3, <1>4, <1>5
<1>7. <<>> \o <<c>> = <<c>>
  BY <1>1, ConcatEmptySeq
<1> QED BY <1>6, <1>7

LEMMA ScriptAgain ==
  /\ <<"PIO", "PIO_OUT">> \o Reg = PioAll
  /\ <<"ACT", "OUT">> \o Reg = DmaAll
  /\ <<>> \o Reg = Reg
<1>1. {"PIO", "PIO_OUT", "ACT", "OUT", "REG"} \subseteq Items
  BY DEF Items
<1> QED BY <1>1, ThreeItems DEF PioAll, DmaAll, Reg

LEMMA ScriptNames ==
  /\ Script("NONDATA") = Reg
  /\ Script("PIO_WRITE") = PioAll
  /\ Script("DMA_WRITE") = DmaAll
  /\ Script("DMA_READ") = ReadAll
BY DEF Script, PioAll, DmaAll, ReadAll, Reg

\* An item put before a script is its head.
LEMMA PutBefore ==
  ASSUME NEW S, NEW h \in S, NEW s \in Seq(S)
  PROVE  <<h>> \o s # <<>> /\ Head(<<h>> \o s) = h /\ Tail(<<h>> \o s) = s
<1>1. <<h>> \in Seq(S) /\ Len(<<h>>) = 1 /\ <<h>>[1] = h
  OBVIOUS
<1>2. /\ <<h>> \o s \in Seq(S) /\ Len(<<h>> \o s) = 1 + Len(s) /\ Len(s) \in Nat
      /\ \A i \in 1 .. 1 + Len(s) : (<<h>> \o s)[i] = IF i <= 1 THEN h ELSE s[i - 1]
  BY <1>1, ConcatProperties, LenProperties
<1>3. <<h>> \o s # <<>>
  BY <1>2
<1>4. Head(<<h>> \o s) = h
  BY <1>2, <1>3
<1>5. Tail(<<h>> \o s) = s
  <2>1. /\ Tail(<<h>> \o s) \in Seq(S) /\ Len(Tail(<<h>> \o s)) = Len(s)
        /\ \A i \in 1 .. Len(s) : Tail(<<h>> \o s)[i] = (<<h>> \o s)[i + 1]
    BY <1>2, <1>3, HeadTailProperties
  <2>2. \A i \in 1 .. Len(s) : Tail(<<h>> \o s)[i] = s[i]
    BY <1>2, <2>1
  <2> QED BY <2>1, <2>2, SeqEqual
<1> QED BY <1>3, <1>4, <1>5

-----------------------------------------------------------------------------
(* What a cycle of the device looks like to the sequencer.                 *)

\* The first word of a FIS of type f is on the wires.
Arrives(go, f) == Packet(go).valid /\ s_sop /\ Packet(go).fis = f
Silent(go) == \A f : ~Arrives(go, f)

Quiet(go) == Silent(go) /\ ~TakesData(go) /\ Unseen' = Unseen

Lands(go) ==
  /\ Unseen # <<>> /\ Head(Unseen) \in FisItems
  /\ \A f : Arrives(go, f) <=> f = FisName(Head(Unseen))
  /\ ~TakesData(go) /\ Unseen' = Tail(Unseen)

DataEnds(go) ==
  /\ Unseen # <<>> /\ Head(Unseen) = "DATA"
  /\ Silent(go) /\ ~TakesData(go) /\ Unseen' = Tail(Unseen)

Takes(go) ==
  /\ Unseen # <<>> /\ Head(Unseen) \in {"OUT", "PIO_OUT"} /\ Head(Unseen) = Head(dev_script)
  /\ outq # <<>>
  /\ Silent(go) /\ TakesData(go)
  /\ Unseen' = (IF Settled < dev_left THEN Again ELSE <<>>) \o Tail(Unseen)

Called(go) ==
  /\ FisLeaves(go) /\ Unseen = <<>>
  /\ Silent(go) /\ ~TakesData(go)
  /\ Unseen' \in {Script(m_data), Reg} /\ (~Started' => dev_words' = 0)

DevMove(go) == Quiet(go) \/ Lands(go) \/ DataEnds(go) \/ Takes(go)

\* The words of a FIS that the sequencer sees.
LEMMA PacketFacts ==
  ASSUME NEW go, "dev" \in go => dev_script # <<>>
  PROVE  /\ Packet(go).valid <=> "dev" \in go /\ Head(dev_script) \in FisItems
         /\ Packet(go).valid =>
              /\ Packet(go).last = LastWord
              /\ Packet(go).fis = IF dev_words = 0 THEN FisName(Head(dev_script)) ELSE "PAYLOAD"
<1>1. CASE "dev" \in go /\ Head(dev_script) \in FisItems
  <2>1. \E item \in {"ACT", "PIO", "PIO_MORE", "REG"} : DevSends(go, item)
    BY <1>1 DEF DevSends, FisItems
  <2> QED BY <1>1, <2>1 DEF Packet
<1>2. CASE ~("dev" \in go /\ Head(dev_script) \in FisItems)
  <2>1. ~\E item \in {"ACT", "PIO", "PIO_MORE", "REG"} : DevSends(go, item)
    BY <1>2 DEF DevSends, FisItems
  <2> QED BY <1>2, <2>1 DEF Packet, NoPkt
<1> QED BY <1>1, <1>2

\* How the device's registers move while the link stays up.
LEMMA DeviceRegs ==
  ASSUME NEW go, NEW fault, fault # "abort", link_up, link_up', Device(go, fault)
  PROVE  /\ dev_words' = IF "dev" \notin go \/ TakesData(go) THEN dev_words
                         ELSE IF LastWord THEN 0 ELSE dev_words + 1
         /\ ~FisLeaves(go) => dev_script' = ScriptAfter(go)
         /\ FisLeaves(go) => \/ dev_script' = Begun(go) \o Script(m_data)
                             \/ dev_script' = Begun(go) \o Reg
<1>1. dev_words' = IF "dev" \notin go \/ TakesData(go) THEN dev_words
                   ELSE IF LastWord THEN 0 ELSE dev_words + 1
  BY DEF Device
<1>2. ~FisLeaves(go) => dev_script' = ScriptAfter(go)
  BY DEF Device
<1>3. FisLeaves(go) => \/ dev_script' = Begun(go) \o Script(m_data)
                       \/ dev_script' = Begun(go) \o Reg
  <2>1. PICK answer \in IF ~FisLeaves(go) THEN {<<>>}
                        ELSE {Script(m_data)} \cup (IF DevAborts THEN {<<"REG">>} ELSE {}) :
            dev_script' = IF FisLeaves(go) THEN Begun(go) \o answer ELSE ScriptAfter(go)
    BY DEF Device
  <2>2. FisLeaves(go) => answer = Script(m_data) \/ answer = Reg
    BY <2>1 DEF Reg
  <2> QED BY <2>1, <2>2
<1> QED BY <1>1, <1>2, <1>3

LEMMA WordsPositive == \A item \in Items : FisWords(item) \in Nat /\ FisWords(item) > 0
BY DeviceAssumption DEF FisWords, Items

\* With no word on its way the frame holds of any script.
LEMMA FreshFrame ==
  ASSUME dev_script' \in Seq(Items), dev_words' = 0, s_sop' = TRUE
  PROVE  FrameInv' /\ Unseen' = dev_script'
<1>1. ~Started'
  BY DEF Started
<1>2. dev_script' # <<>> => Head(dev_script') \in Items
  BY HeadTailProperties
<1>3. dev_script' # <<>> => 0 < FisWords(Head(dev_script'))
  BY <1>2, WordsPositive
<1>4. Unseen' = dev_script'
  BY <1>1 DEF Unseen
<1> QED BY <1>1, <1>3, <1>4 DEF FrameInv

\* While no register FIS ends, the device's move is one of the four.
LEMMA DeviceWaits ==
  ASSUME NEW go, NEW fault, fault # "abort", link_up, link_up',
         EnvTypeOK, FrameInv, \A p \in go : CanMove(p),
         Device(go, fault), ~FisLeaves(go), dev_script' \in Seq(Items),
         s_sop' = IF Packet(go).valid THEN Packet(go).last ELSE s_sop
  PROVE  FrameInv' /\ DevMove(go)
<1> DEFINE h == Head(dev_script)
<1>1. "dev" \in go => dev_script # <<>> /\ h \in Items /\ (h \in {"OUT", "PIO_OUT"} => outq # <<>>)
  <2>1. "dev" \in go => dev_script # <<>> /\ (h \in {"OUT", "PIO_OUT"} => outq # <<>>)
    BY MoversCan DEF DevCanMove
  <2> QED BY <2>1, HeadTailProperties DEF EnvTypeOK
<1>2. /\ dev_words' = IF "dev" \notin go \/ TakesData(go) THEN dev_words
                      ELSE IF LastWord THEN 0 ELSE dev_words + 1
      /\ dev_script' = ScriptAfter(go)
  BY DeviceRegs
<1>3. /\ Packet(go).valid <=> "dev" \in go /\ h \in FisItems
      /\ Packet(go).valid => /\ Packet(go).last = LastWord
                             /\ Packet(go).fis = IF dev_words = 0 THEN FisName(h) ELSE "PAYLOAD"
  BY <1>1, PacketFacts
<1>4. dev_words \in Nat
  BY DEF EnvTypeOK
<1>5. ~Packet(go).valid => Silent(go)
  BY DEF Silent, Arrives
<1>6. CASE "dev" \notin go
  <2>1. ~TakesData(go) /\ dev_script' = dev_script /\ dev_words' = dev_words
    BY <1>2, <1>6 DEF TakesData, ScriptAfter
  <2>2. s_sop' = s_sop /\ Silent(go)
    BY <1>3, <1>5, <1>6
  <2>3. Started' <=> Started
    BY <2>1 DEF Started
  <2>4. Unseen' = Unseen
    BY <2>1, <2>3 DEF Unseen
  <2>5. FrameInv'
    BY <2>1, <2>2, <2>3 DEF FrameInv
  <2> QED BY <2>1, <2>2, <2>4, <2>5 DEF DevMove, Quiet
<1>7. CASE "dev" \in go /\ h \in FisItems
  <2>1. ~TakesData(go)
    BY <1>7 DEF TakesData, FisItems
  <2>2. Packet(go).valid /\ s_sop' = LastWord
    BY <1>3, <1>7
  <2>3. CASE Started
    <3>1. ~s_sop
      BY <2>3 DEF FrameInv
    <3>2. Silent(go)
      BY <3>1 DEF Silent, Arrives
    <3>3. Unseen = Tail(dev_script)
      BY <2>3 DEF Unseen
    <3>4. CASE LastWord
      <4>1. dev_script' = Tail(dev_script) /\ dev_words' = 0
        BY <1>2, <1>7, <2>1, <3>4 DEF ScriptAfter
      <4>2. FrameInv' /\ Unseen' = dev_script'
        BY <2>2, <3>4, <4>1, FreshFrame
      <4> QED BY <2>1, <3>2, <3>3, <4>1, <4>2 DEF DevMove, Quiet
    <3>5. CASE ~LastWord
      <4>1. dev_script' = dev_script /\ dev_words' = dev_words + 1
        BY <1>2, <1>7, <2>1, <3>5 DEF ScriptAfter
      <4>2. Started' /\ ~s_sop'
        BY <1>1, <1>4, <1>7, <2>2, <3>5, <4>1 DEF Started
      <4>3. Unseen' = Tail(dev_script)
        BY <4>1, <4>2 DEF Unseen
      <4>4. FisWords(h) \in Nat /\ dev_words < FisWords(h)
        BY <1>1, <1>7, WordsPositive DEF FrameInv, FisItems
      <4>5. dev_words + 1 < FisWords(h)
        BY <1>4, <3>5, <4>4 DEF LastWord
      <4>6. FrameInv'
        BY <1>1, <1>7, <4>1, <4>2, <4>5 DEF FrameInv, FisItems
      <4> QED BY <2>1, <3>2, <3>3, <4>3, <4>6 DEF DevMove, Quiet
    <3> QED BY <3>4, <3>5
  <2>4. CASE ~Started
    <3>1. s_sop /\ dev_words = 0
      BY <1>1, <1>4, <1>7, <2>4 DEF FrameInv, Started
    <3>2. \A f : Arrives(go, f) <=> f = FisName(h)
      BY <1>3, <2>2, <3>1 DEF Arrives
    <3>3. Unseen = dev_script
      BY <2>4 DEF Unseen
    <3>4. CASE LastWord
      <4>1. dev_script' = Tail(dev_script) /\ dev_words' = 0
        BY <1>2, <1>7, <2>1, <3>4 DEF ScriptAfter
      <4>2. FrameInv' /\ Unseen' = dev_script'
        BY <2>2, <3>4, <4>1, FreshFrame
      <4> QED BY <1>1, <1>7, <2>1, <3>2, <3>3, <4>1, <4>2 DEF DevMove, Lands
    <3>5. CASE ~LastWord
      <4>1. dev_script' = dev_script /\ dev_words' = 1
        BY <1>2, <1>7, <2>1, <3>1, <3>5 DEF ScriptAfter
      <4>2. Started' /\ ~s_sop'
        BY <1>1, <1>7, <2>2, <3>5, <4>1 DEF Started
      <4>3. Unseen' = Tail(dev_script)
        BY <4>1, <4>2 DEF Unseen
      <4>4. FisWords(h) \in Nat /\ 0 < FisWords(h)
        BY <1>1, <1>7, WordsPositive
      <4>5. 1 < FisWords(h)
        BY <3>1, <3>5, <4>4 DEF LastWord
      <4>6. FrameInv'
        BY <1>1, <1>7, <4>1, <4>2, <4>5 DEF FrameInv, FisItems
      <4> QED BY <1>1, <1>7, <2>1, <3>2, <3>3, <4>3, <4>6 DEF DevMove, Lands
    <3> QED BY <3>4, <3>5
  <2> QED BY <2>3, <2>4
<1>8. CASE "dev" \in go /\ h = "DATA"
  <2>1. ~TakesData(go)
    BY <1>8 DEF TakesData
  <2>2. s_sop' = s_sop /\ Silent(go) /\ ~Started
    BY <1>3, <1>5, <1>8 DEF FisItems, Started
  <2>3. Unseen = dev_script /\ s_sop
    BY <2>2 DEF Unseen, FrameInv
  <2>4. CASE LastWord
    <3>1. dev_script' = Tail(dev_script) /\ dev_words' = 0
      BY <1>2, <1>8, <2>1, <2>4 DEF ScriptAfter
    <3>2. s_sop' = TRUE
      BY <2>2, <2>3 DEF FrameInv
    <3>3. FrameInv' /\ Unseen' = dev_script'
      BY <3>1, <3>2, FreshFrame
    <3> QED BY <1>1, <1>8, <2>1, <2>2, <2>3, <3>1, <3>3 DEF DevMove, DataEnds
  <2>5. CASE ~LastWord
    <3>1. dev_script' = dev_script /\ dev_words' = dev_words + 1
      BY <1>2, <1>8, <2>1, <2>5 DEF ScriptAfter
    <3>2. ~Started'
      BY <1>8, <3>1 DEF Started, FisItems
    <3>3. Unseen' = Unseen
      BY <2>3, <3>1, <3>2 DEF Unseen
    <3>4. FisWords(h) \in Nat /\ dev_words < FisWords(h)
      BY <1>1, <1>8, WordsPositive DEF FrameInv
    <3>5. dev_words + 1 < FisWords(h)
      BY <1>4, <2>5, <3>4 DEF LastWord
    <3>6. FrameInv'
      BY <1>1, <1>8, <2>2, <2>3, <3>1, <3>2, <3>5 DEF FrameInv
    <3> QED BY <2>1, <2>2, <3>3, <3>6 DEF DevMove, Quiet
  <2> QED BY <2>4, <2>5
<1>9. CASE "dev" \in go /\ h \in {"OUT", "PIO_OUT"}
  <2>1. TakesData(go) /\ dev_words = 0 /\ dev_words' = dev_words
    BY <1>1, <1>2, <1>9 DEF TakesData, FrameInv
  <2>2. s_sop' = s_sop /\ Silent(go) /\ ~Started
    BY <1>3, <1>5, <1>9 DEF FisItems, Started
  <2>3. Unseen = dev_script /\ s_sop
    BY <2>2 DEF Unseen, FrameInv
  <2>4. dev_script' = (IF Settled < dev_left THEN Again ELSE <<>>) \o Tail(dev_script)
    BY <1>2, <2>1 DEF ScriptAfter
  <2>5. s_sop' = TRUE
    BY <2>2, <2>3 DEF FrameInv
  <2>6. FrameInv' /\ Unseen' = dev_script'
    BY <2>1, <2>5, FreshFrame
  <2> QED BY <1>1, <1>9, <2>1, <2>2, <2>3, <2>4, <2>6 DEF DevMove, Takes
<1>10. dev_script # <<>> /\ h \in Items => h \in FisItems \cup {"DATA", "OUT", "PIO_OUT"}
  BY DEF Items, FisItems
<1> QED BY <1>1, <1>6, <1>7, <1>8, <1>9, <1>10

\* A command is handed over to a device that has nothing left to begin.
LEMMA DeviceCalled ==
  ASSUME NEW go, NEW fault, fault # "abort", link_up, link_up',
         EnvTypeOK, FrameInv, \A p \in go : CanMove(p),
         Device(go, fault), FisLeaves(go), Unseen = <<>>, dev_script' \in Seq(Items),
         s_sop' = IF Packet(go).valid THEN Packet(go).last ELSE s_sop
  PROVE  FrameInv' /\ Called(go)
<1> DEFINE h == Head(dev_script)
<1>1. "dev" \in go => dev_script # <<>>
  BY MoversCan DEF DevCanMove
<1>2. dev_words' = IF "dev" \notin go \/ TakesData(go) THEN dev_words
                   ELSE IF LastWord THEN 0 ELSE dev_words + 1
  BY DeviceRegs
<1>3. PICK answer \in {Script(m_data), Reg} : dev_script' = Begun(go) \o answer
  BY DeviceRegs
<1>4. answer \in Seq(Items)
  <2>1. Reg \in Seq(Items)
    BY DEF Reg, Items
  <2> QED BY <1>3, <2>1, ScriptTypes
<1>5. /\ Packet(go).valid <=> "dev" \in go /\ h \in FisItems
      /\ Packet(go).valid => /\ Packet(go).last = LastWord
                             /\ Packet(go).fis = IF dev_words = 0 THEN FisName(h) ELSE "PAYLOAD"
  BY <1>1, PacketFacts
<1>6. dev_words \in Nat
  BY DEF EnvTypeOK
<1>7. CASE dev_script = <<>>
  <2>1. "dev" \notin go /\ ~TakesData(go) /\ Begun(go) = <<>> /\ ~Started
    BY <1>1, <1>7 DEF TakesData, Begun, ScriptAfter, Started
  <2>2. dev_script' = answer
    BY <1>3, <1>4, <2>1, ConcatEmptySeq
  <2>3. dev_words' = 0 /\ s_sop' = s_sop /\ s_sop
    BY <1>2, <1>5, <1>7, <2>1 DEF FrameInv
  <2>4. s_sop' = TRUE
    BY <2>3 DEF FrameInv
  <2>5. FrameInv' /\ Unseen' = dev_script'
    BY <2>3, <2>4, FreshFrame
  <2>6. Silent(go)
    BY <1>5, <2>1 DEF Silent, Arrives
  <2> QED BY <1>3, <2>1, <2>2, <2>3, <2>5, <2>6 DEF Called
<1>8. CASE dev_script # <<>>
  <2>1. Started /\ Tail(dev_script) = <<>>
    BY <1>8 DEF Unseen
  <2>2. h \in FisItems /\ ~TakesData(go) /\ ~s_sop /\ dev_words > 0
    BY <2>1 DEF Started, TakesData, FisItems, FrameInv
  <2>3. Silent(go)
    BY <2>2 DEF Silent, Arrives
  <2>4. CASE "dev" \in go /\ LastWord
    <3>1. ScriptAfter(go) = <<>> /\ Begun(go) = <<>> /\ dev_words' = 0
      BY <1>2, <2>1, <2>2, <2>4 DEF ScriptAfter, Begun
    <3>2. dev_script' = answer
      BY <1>3, <1>4, <3>1, ConcatEmptySeq
    <3>3. s_sop' = TRUE
      BY <1>5, <2>2, <2>4
    <3>4. FrameInv' /\ Unseen' = dev_script'
      BY <3>1, <3>3, FreshFrame
    <3> QED BY <1>3, <2>2, <2>3, <3>1, <3>2, <3>4 DEF Called
  <2>5. CASE ~("dev" \in go /\ LastWord)
    <3>1. ScriptAfter(go) = dev_script /\ Begun(go) = <<h>>
      BY <1>8, <2>2, <2>5 DEF ScriptAfter, Begun, FisItems
    <3>2. /\ dev_script' = <<h>> \o answer
          /\ dev_script' # <<>> /\ Head(dev_script') = h /\ Tail(dev_script') = answer
      <4>1. h \in Items
        BY <2>2 DEF FisItems, Items
      <4> QED BY <1>3, <1>4, <3>1, <4>1, PutBefore
    <3>3. /\ dev_words' = IF "dev" \in go THEN dev_words + 1 ELSE dev_words
          /\ dev_words' > 0
      BY <1>2, <1>6, <2>2, <2>5
    <3>4. Started' /\ Unseen' = answer
      BY <2>2, <3>2, <3>3 DEF Started, Unseen
    <3>5. ~s_sop'
      BY <1>5, <2>2, <2>5
    <3>6. FisWords(h) \in Nat /\ dev_words < FisWords(h)
      <4>1. h \in Items /\ h \notin {"OUT", "PIO_OUT"}
        BY <2>2 DEF FisItems, Items
      <4> QED BY <1>8, <4>1, WordsPositive DEF FrameInv
    <3>7. dev_words' < FisWords(h)
      BY <1>6, <2>5, <3>3, <3>6 DEF LastWord
    <3>8. FrameInv'
      BY <2>2, <3>2, <3>4, <3>5, <3>7 DEF FrameInv, FisItems
    <3> QED BY <1>3, <2>2, <2>3, <3>4, <3>8 DEF Called
  <2> QED BY <2>4, <2>5
<1> QED BY <1>7, <1>8

-----------------------------------------------------------------------------
(* A calm cycle.                                                           *)

\* The host writes only as the driver does, and no PIO read.
CalmWrite(wb) ==
  /\ wb.a \in {"NONE", "COUNT", "ADDR", "CMD"}
  /\ wb.a # "NONE" => link_up
  /\ wb.a = "CMD" => wb.op \in CmdTypes \ {"PIO_READ"} /\ wb.sel = 0 .. 3 /\ wb.reg_to_dev

CalmCycle(go, wb, fault) ==
  /\ Cycle(go, wb, FALSE, fault)
  /\ fault \in {"none", "write_err", "read_err"}
  /\ CalmWrite(wb) /\ WbTypeOK(wb)
  /\ wb = NoWrite \/ wb \in DriverWrites

LEMMA CalmSteps ==
  ASSUME Calm, Next PROVE \E go, wb, fault : CalmCycle(go, wb, fault)
<1>1. PICK go \in SUBSET Parties : Step(go)
  BY DEF Next
<1>2. PICK fault \in AllFaults \cup {"none"} :
          \/ Cycle(go, NoWrite, FALSE, fault)
          \/ \E wb \in DriverWrites : Cycle(go, wb, FALSE, fault)
          \/ fault = "none" /\ \E wb \in StrayWrites : Cycle(go, wb, TRUE, fault)
  BY <1>1 DEF Step
<1>3. StrayWrites = {}
  BY DEF StrayWrites, Calm
<1>4. CalmWrite(NoWrite)
  BY DEF CalmWrite, NoWrite
<1>5. \A wb \in DriverWrites : CalmWrite(wb)
  <2> SUFFICES ASSUME NEW wb \in DriverWrites PROVE CalmWrite(wb)
    OBVIOUS
  <2>1. link_up
    BY DEF DriverWrites
  <2>2. \/ wb \in {[a |-> "COUNT", count |-> n] : n \in Counts}
        \/ wb \in {[a |-> "ADDR", addr |-> b] : b \in Bases}
        \/ wb \in {CmdWrite(op, 0 .. 3, TRUE) : op \in Ops}
    BY DEF DriverWrites
  <2>3. CASE wb \in {[a |-> "COUNT", count |-> n] : n \in Counts}
    BY <2>1, <2>3 DEF CalmWrite
  <2>4. CASE wb \in {[a |-> "ADDR", addr |-> b] : b \in Bases}
    BY <2>1, <2>4 DEF CalmWrite
  <2>5. CASE wb \in {CmdWrite(op, 0 .. 3, TRUE) : op \in Ops}
    BY <2>1, <2>5 DEF CalmWrite, CmdWrite, Calm
  <2> QED BY <2>2, <2>3, <2>4, <2>5
<1>6. PICK wb : /\ CalmWrite(wb) /\ WbTypeOK(wb) /\ Cycle(go, wb, FALSE, fault)
                /\ wb = NoWrite \/ wb \in DriverWrites
  BY <1>2, <1>3, <1>4, <1>5, WritesTypes
<1>7. fault \in {"none", "write_err", "read_err"}
  BY <1>6 DEF Cycle, Strikes, Calm
<1> QED BY <1>6, <1>7 DEF CalmCycle

\* The wires of a calm cycle.
Wired(in, go, wb) ==
  /\ in.wb = wb /\ in.pkt = Packet(go)
  /\ in.link_up = link_up /\ in.tran_err = FALSE
  /\ in.m_ready = ("tx" \in go)
  /\ in.s2mm_busy = s2mm.busy /\ in.s2mm_err = s2mm.err /\ in.s2mm_beat = Beat(go)
  /\ in.mm2s_busy = mm2s.busy /\ in.mm2s_err = mm2s.err

LEMMA CalmWires ==
  ASSUME NEW go, NEW wb, NEW fault, CalmCycle(go, wb, fault)
  PROVE  \E in : Tick(in) /\ Wired(in, go, wb)
<1>1. fault # "abort"
  BY DEF CalmCycle
<1>2. Wired(Wires(go, wb, fault), go, wb)
  BY <1>1 DEF Wired, Wires
<1> QED BY <1>2 DEF CalmCycle, Cycle

LEMMA Hears ==
  ASSUME NEW in, NEW go, NEW wb, Wired(in, go, wb)
  PROVE  \A f : Fis(in, f) <=> Arrives(go, f)
BY DEF Wired, Fis, Arrives

\* The link does not fall; until it is up nothing moves.
LEMMA LinkStep ==
  ASSUME NEW in, NEW go, NEW wb, NEW fault, CalmCycle(go, wb, fault),
         Wired(in, go, wb), Tick(in), LinkInv
  PROVE  /\ link_up => link_up'
         /\ ~reset_hold' /\ ~o_phy_reset'
         /\ Abort(in) <=> ~link_up
<1>1. link_up' = (~o_phy_reset /\ (link_up \/ "link" \in go))
  BY DEF CalmCycle, Cycle, Link
<1>2. ~Write(in, "PHY")
  BY DEF CalmCycle, CalmWrite, Wired, Write
<1>3. ~reset_hold' /\ ~o_phy_reset'
  BY <1>2 DEF Tick, PhyControl, LinkInv
<1>4. Abort(in) <=> ~link_up
  BY DEF Abort, Wired, LinkInv
<1> QED BY <1>1, <1>3, <1>4 DEF LinkInv

\* The words of the register FIS.
LEMMA StreamStep ==
  ASSUME NEW in, NEW go, NEW wb, Wired(in, go, wb), "tx" \in go => m_valid,
         FsmTypeOK, FisInv, RegFisStream(in)
  PROVE  /\ (m_valid' \/ ~m_last') <=> FisGoing /\ ~FisLeaves(go)
         /\ IF m_valid' THEN m_last' <=> m_count' = 0 ELSE m_count' = 0
         /\ m_valid' => m_data' = IF m_valid THEN m_data ELSE r_command
         /\ m_valid /\ ~FisLeaves(go) => m_valid'
         /\ Announced => ~m_valid'
<1>1. m_valid \in BOOLEAN /\ m_last \in BOOLEAN /\ m_count \in 0 .. 3
  BY DEF FsmTypeOK
<1>2. in.m_ready = ("tx" \in go)
  BY DEF Wired
<1>3. CASE Announced
  BY <1>1, <1>3 DEF RegFisStream, Announced, FisGoing, FisLeaves, FisInv
<1>4. CASE ~Announced /\ m_valid /\ "tx" \notin go
  BY <1>1, <1>2, <1>4 DEF RegFisStream, Announced, FisGoing, FisLeaves, FisInv, LoadsOpcode
<1>5. CASE ~Announced /\ (~m_valid \/ "tx" \in go) /\ m_last
  BY <1>1, <1>2, <1>5 DEF RegFisStream, Announced, FisGoing, FisLeaves, FisInv, LoadsOpcode
<1>6. CASE ~Announced /\ (~m_valid \/ "tx" \in go) /\ ~m_last
  <2>1. m_valid' /\ m_last' = (m_count = 3) /\ m_count' = (m_count + 1) % 4
    BY <1>2, <1>6 DEF RegFisStream, Announced
  <2>2. m_last' <=> m_count' = 0
    <3>1. m_count = 0 \/ m_count = 1 \/ m_count = 2 \/ m_count = 3
      BY <1>1
    <3>2. (m_count + 1) % 4 = 0 <=> m_count = 3
      BY <3>1
    <3> QED BY <2>1, <3>2
  <2>3. m_data' = IF m_valid THEN m_data ELSE r_command
    BY <1>2, <1>6 DEF RegFisStream, LoadsOpcode, FisInv
  <2> QED BY <1>6, <2>1, <2>2, <2>3 DEF FisGoing, FisLeaves
<1> QED BY <1>3, <1>4, <1>5, <1>6

\* What the engines can do in a calm cycle, whatever state the FSM is in.
EnginesMove(go) ==
  /\ s2mm.busy' => s2mm.busy \/ o_s2mm_request
  /\ rxq' # <<>> => o_s2mm_request \/ s2mm.busy
  /\ mm2s.busy' => mm2s.busy \/ o_mm2s_request
  /\ mm2s.err' => mm2s.busy'
  /\ outq' # <<>> => /\ Len(outq') = 1
                     /\ \/ mm2s.busy /\ ~mm2s.busy'
                        \/ outq' = outq /\ ~TakesData(go)

LEMMA EnginesStep ==
  ASSUME NEW go, NEW wb, NEW fault, CalmCycle(go, wb, fault), TypeOK, EngineInv
  PROVE  EnginesMove(go)
<1>1. /\ S2mm(go, fault) /\ Mm2s(go, fault) /\ (\A p \in go : CanMove(p))
      /\ fault \notin {"abort", "drop"}
  BY DEF CalmCycle, Cycle
<1>2. s2mm \in Writer /\ mm2s \in Reader /\ outq \in Seq(0 .. MaxDataFis)
  BY DEF TypeOK, EnvTypeOK, Writer, Reader
<1>3. s2mm.busy' => s2mm.busy \/ o_s2mm_request
  <2>1. SUFFICES ASSUME ~s2mm.busy, ~o_s2mm_request PROVE ~s2mm'.busy
    OBVIOUS
  <2>2. s2mm' = [EngineIdle(o_s2mm_addr) EXCEPT !.busy = o_s2mm_request /\ ~s2mm.busy]
    BY <1>1, <2>1 DEF S2mm
  <2> QED BY <2>1, <2>2 DEF EngineIdle
<1>4. rxq' # <<>> => o_s2mm_request \/ s2mm.busy
  BY <1>1 DEF S2mm, RxDmaReset
<1>5. CASE mm2s.err
  <2>1. mm2s' = ReaderIdle
    BY <1>1, <1>5 DEF Mm2s
  <2>2. ~mm2s'.busy /\ ~mm2s'.err
    BY <2>1 DEF ReaderIdle
  <2>3. ~ChunkDone(go, fault)
    BY <1>1, <1>5 DEF ChunkDone, CanMove
  <2>4. outq = <<>>
    BY <1>5 DEF EngineInv
  <2>5. outq' = <<>>
    <3>1. ~TakesData(go)
      BY <1>1, <2>4, MoversCan DEF TakesData, DevCanMove
    <3> QED BY <1>1, <1>2, <2>3, <2>4, <3>1, ConcatEmptySeq DEF Mm2s
  <2> QED BY <1>3, <1>4, <2>2, <2>5 DEF EnginesMove
<1>6. CASE ~mm2s.err
  <2>1. mm2s'.busy => mm2s.busy \/ o_mm2s_request
    <3> SUFFICES ASSUME ~mm2s.busy, ~o_mm2s_request PROVE ~mm2s'.busy
      OBVIOUS
    <3>1. mm2s' = [busy |-> o_mm2s_request, err |-> FALSE, addr |-> o_mm2s_addr, len |-> o_tran_len]
      BY <1>1, <1>6 DEF Mm2s
    <3> QED BY <3>1
  <2>2. mm2s'.err => mm2s'.busy
    <3>1. CASE ~mm2s.busy
      <4>1. mm2s' = [busy |-> o_mm2s_request, err |-> FALSE, addr |-> o_mm2s_addr, len |-> o_tran_len]
        BY <1>1, <1>6, <3>1 DEF Mm2s
      <4> QED BY <4>1
    <3>2. CASE mm2s.busy /\ (fault = "read_err" \/ ("mm2s" \in go /\ PastEnd))
      <4>1. mm2s' = [mm2s EXCEPT !.err = TRUE]
        BY <1>1, <1>6, <3>2 DEF Mm2s
      <4> QED BY <1>2, <3>2, <4>1 DEF Reader
    <3>3. CASE mm2s.busy /\ ~(fault = "read_err" \/ ("mm2s" \in go /\ PastEnd))
      <4>1. mm2s' = [mm2s EXCEPT !.busy = "mm2s" \notin go]
        BY <1>1, <1>6, <3>3 DEF Mm2s
      <4> QED BY <1>2, <1>6, <4>1 DEF Reader
    <3> QED BY <3>1, <3>2, <3>3
  <2>3. CASE ChunkDone(go, fault)
    <3>1. mm2s.busy
      BY <1>1, <2>3 DEF ChunkDone, CanMove
    <3>2. mm2s' = [mm2s EXCEPT !.busy = "mm2s" \notin go]
      BY <1>1, <1>6, <2>3, <3>1 DEF Mm2s, ChunkDone
    <3>3. ~mm2s'.busy
      BY <1>2, <2>3, <3>2 DEF Reader, ChunkDone
    <3>4. outq = <<>>
      BY <3>1 DEF EngineInv
    <3>5. ~TakesData(go)
      BY <1>1, <3>4, MoversCan DEF TakesData, DevCanMove
    <3>6. <<mm2s.len>> \in Seq(0 .. MaxDataFis)
      BY <1>2, ShortSeqs DEF Reader
    <3>7. outq' = <<mm2s.len>>
      BY <1>1, <2>3, <3>4, <3>5, <3>6, ConcatEmptySeq DEF Mm2s
    <3>8. Len(outq') = 1
      BY <3>7
    <3> QED BY <1>3, <1>4, <2>1, <2>2, <3>1, <3>3, <3>8 DEF EnginesMove
  <2>4. CASE ~ChunkDone(go, fault)
    <3>1. CASE TakesData(go)
      <4>1. outq # <<>> /\ Len(outq) = 1
        BY <1>1, <3>1, MoversCan DEF TakesData, DevCanMove, EngineInv
      <4>2. Tail(outq) \in Seq(0 .. MaxDataFis) /\ Len(Tail(outq)) = 0
        BY <1>2, <4>1, HeadTailProperties
      <4>3. Tail(outq) = <<>>
        BY <4>2, EmptySeq
      <4>4. outq' = <<>>
        BY <1>1, <2>4, <3>1, <4>3, ConcatEmptySeq DEF Mm2s
      <4> QED BY <1>3, <1>4, <2>1, <2>2, <4>4 DEF EnginesMove
    <3>2. CASE ~TakesData(go)
      <4>1. outq' = outq
        BY <1>1, <1>2, <2>4, <3>2, ConcatEmptySeq DEF Mm2s
      <4>2. outq # <<>> => Len(outq) = 1
        BY DEF EngineInv
      <4> QED BY <1>3, <1>4, <2>1, <2>2, <3>2, <4>1, <4>2 DEF EnginesMove
    <3> QED BY <3>1, <3>2
  <2> QED BY <2>3, <2>4
<1> QED BY <1>5, <1>6

-----------------------------------------------------------------------------
(* What every state of the FSM finds.                                      *)

Common(in, go) ==
  /\ FisGoing' <=> Announced' \/ (FisGoing /\ ~FisLeaves(go))
  /\ IF m_valid' THEN m_last' <=> m_count' = 0 ELSE m_count' = 0
  /\ m_valid' => FisGoing /\ ~FisLeaves(go) /\ m_data' = IF m_valid THEN m_data ELSE r_command
  /\ m_valid /\ ~FisLeaves(go) => m_valid'
  /\ Announced => ~m_valid'
  /\ FisLeaves(go) => m_valid
  /\ Called(go) \/ (~FisLeaves(go) /\ DevMove(go))
  /\ \A f : Fis(in, f) <=> Arrives(go, f)
  /\ EnginesMove(go)
  /\ cmd_type' # "PIO_READ"
  /\ known_cmd \/ fsm_state # "IDLE" => cmd_type' = cmd_type /\ ~known_cmd'
  /\ known_cmd' => in.wb.a = "CMD" /\ in.wb.op = cmd_type' /\ 2 \in in.wb.sel
  /\ in.s2mm_busy = s2mm.busy /\ in.mm2s_busy = mm2s.busy

LEMMA CommonStep ==
  ASSUME NEW in, NEW go, NEW wb, NEW fault, CalmCycle(go, wb, fault), link_up,
         Wired(in, go, wb), Tick(in), Inv, TypeOK'
  PROVE  FrameInv' /\ Common(in, go)
<1>1. link_up'
  BY LinkStep DEF Inv, CalmInv
<1>2. /\ FsmTypeOK /\ EnvTypeOK /\ FrameInv /\ FisInv /\ PhaseInv /\ EngineInv /\ BusyInv
  BY DEF Inv, CalmInv, TypeOK
<1>3. /\ \A p \in go : CanMove(p)
      /\ Device(go, fault) /\ fault # "abort"
  BY DEF CalmCycle, Cycle
<1>4. "tx" \in go => m_valid
  BY <1>3 DEF CanMove
<1>5. FisLeaves(go) => m_valid
  BY <1>4 DEF FisLeaves
<1>6. s_sop' = IF Packet(go).valid THEN Packet(go).last ELSE s_sop
  BY DEF Tick, RxFraming, Wired
<1>7. FrameInv' /\ (Called(go) \/ (~FisLeaves(go) /\ DevMove(go)))
  <2>1. dev_script' \in Seq(Items)
    BY DEF TypeOK, EnvTypeOK
  <2>2. FisLeaves(go) => Unseen = <<>>
    BY <1>2, <1>5 DEF PhaseInv, FisGoing
  <2> QED BY <1>1, <1>2, <1>3, <1>6, <2>1, <2>2, DeviceWaits, DeviceCalled
<1>8. /\ (m_valid' \/ ~m_last') <=> FisGoing /\ ~FisLeaves(go)
      /\ IF m_valid' THEN m_last' <=> m_count' = 0 ELSE m_count' = 0
      /\ m_valid' => m_data' = IF m_valid THEN m_data ELSE r_command
      /\ m_valid /\ ~FisLeaves(go) => m_valid'
      /\ Announced => ~m_valid'
  BY <1>2, <1>4, StreamStep DEF Tick
<1>9. FisGoing' <=> Announced' \/ (FisGoing /\ ~FisLeaves(go))
  BY <1>8 DEF FisGoing
<1>10. /\ cmd_type' # "PIO_READ"
       /\ known_cmd \/ fsm_state # "IDLE" => cmd_type' = cmd_type /\ ~known_cmd'
       /\ known_cmd' => in.wb.a = "CMD" /\ in.wb.op = cmd_type' /\ 2 \in in.wb.sel
  <2>1. known_cmd \/ fsm_state # "IDLE" => ~Decodes(in)
    BY <1>2 DEF BusyInv, Decodes, Write
  <2>2. DecodeCmd(in) /\ cmd_type # "PIO_READ"
    BY <1>2 DEF Tick, PhaseInv
  <2>3. Decodes(in) => in.wb.a = "CMD" /\ in.wb.sel = 0 .. 3 /\ in.wb.op \in CmdTypes \ {"PIO_READ"}
    BY DEF Decodes, Write, CalmCycle, CalmWrite, Wired
  <2>4. cmd_type' # "PIO_READ"
    BY <2>2, <2>3 DEF DecodeCmd
  <2>5. known_cmd \/ fsm_state # "IDLE" => cmd_type' = cmd_type /\ ~known_cmd'
    BY <2>1, <2>2 DEF DecodeCmd
  <2>6. known_cmd' => Decodes(in) /\ cmd_type' = in.wb.op
    BY <2>2 DEF DecodeCmd
  <2> QED BY <2>3, <2>4, <2>5, <2>6
<1>11. \A f : Fis(in, f) <=> Arrives(go, f)
  BY Hears
<1>12. EnginesMove(go)
  BY <1>2, EnginesStep DEF Inv
<1>13. in.s2mm_busy = s2mm.busy /\ in.mm2s_busy = mm2s.busy
  BY DEF Wired
<1> QED BY <1>5, <1>7, <1>8, <1>9, <1>10, <1>11, <1>12, <1>13 DEF Common

\* A device that has nothing left to begin says nothing.
LEMMA NothingUnseen ==
  ASSUME NEW in, NEW go, Common(in, go), Unseen = <<>>
  PROVE  /\ Silent(go) /\ ~TakesData(go)
         /\ IF FisLeaves(go) THEN Unseen' \in {Script(m_data), Reg} ELSE Unseen' = <<>>
BY DEF Common, Called, DevMove, Quiet, Lands, DataEnds, Takes

\* What can happen next to each script, while no register FIS ends.
Only(go, name) == \A f : Arrives(go, f) <=> f = name

LEMMA ScriptMoves ==
  ASSUME NEW in, NEW go, Common(in, go), ~FisLeaves(go)
  PROVE  /\ Unseen = Reg /\ ~Silent(go) => Only(go, "REG_TO_HOST") /\ Unseen' = <<>>
         /\ Unseen = Reg => ~TakesData(go) /\ (Silent(go) => Unseen' = Reg)
         /\ Unseen = PioAll /\ ~Silent(go) => Only(go, "PIO_SETUP") /\ Unseen' = PioRest
         /\ Unseen = PioAll => ~TakesData(go) /\ (Silent(go) => Unseen' = PioAll)
         /\ Unseen = DmaAll /\ ~Silent(go) => Only(go, "DMA_ACTIVATE") /\ Unseen' = DmaRest
         /\ Unseen = DmaAll => ~TakesData(go) /\ (Silent(go) => Unseen' = DmaAll)
         /\ Unseen = ReadAll => Silent(go) /\ ~TakesData(go) /\ Unseen' \in {ReadAll, Reg}
         /\ Unseen = PioRest => /\ Silent(go)
                                /\ TakesData(go) => outq # <<>> /\ Unseen' \in {PioAll, Reg}
                                /\ ~TakesData(go) => Unseen' = PioRest
         /\ Unseen = DmaRest => /\ Silent(go)
                                /\ TakesData(go) => outq # <<>> /\ Unseen' \in {DmaAll, Reg}
                                /\ ~TakesData(go) => Unseen' = DmaRest
<1>1. DevMove(go)
  BY DEF Common, Called
<1>2. Lands(go) => ~Silent(go)
  BY DEF Lands, Silent
<1>3. Quiet(go) \/ DataEnds(go) \/ Takes(go) => Silent(go)
  BY DEF Quiet, DataEnds, Takes
<1>4. Takes(go) => /\ Unseen = PioRest => Unseen' \in {PioAll, Reg}
                   /\ Unseen = DmaRest => Unseen' \in {DmaAll, Reg}
  BY ScriptParts, ScriptAgain DEF Takes, Again
<1> QED BY <1>1, <1>2, <1>3, <1>4, ScriptParts
        DEF DevMove, Quiet, Lands, DataEnds, Takes, Only, FisName, FisItems

\* What a received FIS, or none, makes of the shadow registers.
LEMMA Received ==
  ASSUME NEW in, NEW go, Common(in, go)
  PROVE  /\ Silent(go) => RxCommand(in) = r_command /\ RxLastFis(in) = last_fis
         /\ Arrives(go, "REG_TO_HOST") => RxLastFis(in) = "REG_TO_HOST"
<1>1. \A f : Fis(in, f) <=> Arrives(go, f)
  BY DEF Common
<1>2. Silent(go) => ~StatusFis(in)
  BY <1>1 DEF Silent, StatusFis
<1>3. Arrives(go, "REG_TO_HOST") => StatusFis(in) /\ in.pkt.fis = "REG_TO_HOST"
  BY <1>1 DEF StatusFis, Fis
<1> QED BY <1>2, <1>3 DEF RxCommand, RxLastFis

\* The invariant of the register FIS, from what the FSM's step does.
LEMMA FisStep ==
  ASSUME NEW in, NEW go, Common(in, go), FisInv,
         known_cmd' => r_command' = cmd_type',
         Announced' <=> fsm_state' = "COMMAND",
         Announced' => ~FisGoing /\ r_command' = cmd_type',
         FisGoing => /\ r_command' = r_command /\ cmd_type' = cmd_type
                     /\ fsm_state' \in {"WAIT_REG", "PIO_OUT_SETUP", "DMA_IN", "DMA_OUT_SETUP"}
  PROVE  FisInv'
<1>1. Announced' => ~m_valid'
  BY DEF Common
<1>2. FisGoing' => fsm_state' \in {"COMMAND", "WAIT_REG", "PIO_OUT_SETUP", "DMA_IN", "DMA_OUT_SETUP"}
  BY DEF Common
<1>3. FisGoing' /\ ~m_valid' => r_command' = cmd_type'
  BY DEF Common, FisInv
<1>4. m_valid' => m_data' = cmd_type'
  BY DEF Common, FisInv
<1>5. IF m_valid' THEN m_last' <=> m_count' = 0 ELSE m_count' = 0
  BY DEF Common
<1> QED BY <1>1, <1>2, <1>3, <1>4, <1>5 DEF FisInv

\* The invariant of the engines, from what the FSM's step does.
LEMMA EngineStep ==
  ASSUME NEW in, NEW go, Common(in, go), EngineInv,
         o_s2mm_request' => fsm_state' = "DMA_IN" /\ FisGoing' /\ ~m_valid' /\ ~s2mm.busy',
         o_s2mm_request \/ s2mm.busy => fsm_state' \in {"DMA_IN", "DMA_IN_FINAL"},
         o_mm2s_request' => fsm_state' \in {"PIO_TXDATA", "DMA_TXDATA"} /\ ~mm2s.busy',
         mm2s.busy' => fsm_state' \in {"PIO_TXDATA", "DMA_TXDATA"},
         o_tran_req' => Announced' \/ o_mm2s_request',
         mm2s.busy /\ ~mm2s.busy' => ~o_mm2s_request' /\ Unseen' \in {PioRest, DmaRest},
         outq # <<>> /\ ~TakesData(go) => /\ ~o_mm2s_request' /\ ~mm2s.busy'
                                          /\ Unseen' \in {PioRest, DmaRest}
  PROVE  EngineInv'
<1>1. EnginesMove(go)
  BY DEF Common
<1>2. o_s2mm_request' \/ s2mm.busy' \/ rxq' # <<>> => fsm_state' \in {"DMA_IN", "DMA_IN_FINAL"}
  BY <1>1 DEF EnginesMove
<1>3. outq' # <<>> => /\ ~o_mm2s_request' /\ ~mm2s.busy' /\ Len(outq') = 1
                      /\ Unseen' \in {PioRest, DmaRest}
  BY <1>1 DEF EnginesMove
<1>4. mm2s.err' => mm2s.busy'
  BY <1>1 DEF EnginesMove
<1> QED BY <1>2, <1>3, <1>4 DEF EngineInv

-----------------------------------------------------------------------------
(* The states of the FSM, one by one.                                      *)

Kept == FisInv' /\ PhaseInv' /\ EngineInv' /\ PulseHasStatus'
Parts == FisInv /\ PhaseInv /\ EngineInv /\ BusyInv

\* In idle nothing is under way.
LEMMA IdleFacts ==
  ASSUME Parts, fsm_state = "IDLE"
  PROVE  /\ ~FisGoing /\ ~Announced /\ ~m_valid /\ Unseen = <<>> /\ ~o_tran_req
         /\ ~o_s2mm_request /\ ~s2mm.busy /\ ~o_mm2s_request /\ ~mm2s.busy /\ outq = <<>>
<1>1. ~FisGoing
  BY DEF Parts, FisInv
<1>2. Unseen = <<>>
  BY <1>1 DEF Parts, PhaseInv, Answer
<1>3. /\ ~o_s2mm_request /\ ~s2mm.busy /\ ~o_mm2s_request /\ ~mm2s.busy
  BY DEF Parts, EngineInv
<1>4. ~o_tran_req
  BY <1>1, <1>3 DEF Parts, EngineInv, FisGoing
<1>5. outq = <<>>
  BY <1>2, ScriptParts DEF Parts, EngineInv
<1> QED BY <1>1, <1>2, <1>3, <1>4, <1>5 DEF FisGoing

LEMMA StartCase ==
  ASSUME NEW in, NEW go, Common(in, go), Parts, StartCommand(in)
  PROVE  Kept
<1>1. fsm_state = "IDLE" /\ known_cmd /\ r_command = cmd_type /\ cmd_type # "PIO_READ"
  BY DEF StartCommand, Parts, FisInv, PhaseInv
<1>2. /\ ~FisGoing /\ ~Announced /\ ~m_valid /\ Unseen = <<>> /\ ~o_tran_req
      /\ ~o_s2mm_request /\ ~s2mm.busy /\ ~o_mm2s_request /\ ~mm2s.busy /\ outq = <<>>
  BY <1>1, IdleFacts
<1>3. Silent(go) /\ ~TakesData(go) /\ ~FisLeaves(go) /\ Unseen' = <<>>
  BY <1>2, NothingUnseen DEF Common
<1>4. cmd_type' = cmd_type /\ ~known_cmd'
  BY <1>1 DEF Common
<1>5. /\ fsm_state' = "COMMAND" /\ Announced' /\ ~return_to_idle'
      /\ ~o_s2mm_request' /\ ~o_mm2s_request'
  BY <1>2 DEF StartCommand, Announced, dmaVars
<1>6. r_command' = r_command
  BY <1>3, Received DEF StartCommand
<1>7. FisInv'
  BY <1>1, <1>2, <1>4, <1>5, <1>6, FisStep DEF Parts
<1>8. PhaseInv'
  <2>1. FisGoing'
    BY <1>5 DEF FisGoing
  <2>2. Unseen' \in IF FisGoing' THEN {<<>>} ELSE Answer'
    BY <1>3, <2>1
  <2> QED BY <1>1, <1>4, <1>5, <2>2 DEF PhaseInv
<1>9. EngineInv'
  <2>1. ~mm2s.busy'
    BY <1>2 DEF Common, EnginesMove
  <2> QED BY <1>2, <1>5, <2>1, EngineStep DEF Parts
<1>10. PulseHasStatus'
  BY <1>5 DEF PulseHasStatus
<1> QED BY <1>7, <1>8, <1>9, <1>10 DEF Kept

LEMMA IdleCase ==
  ASSUME NEW in, NEW go, Common(in, go), Parts, IdleCycle(in)
  PROVE  Kept
<1>1. fsm_state = "IDLE" /\ ~known_cmd
  BY DEF IdleCycle
<1>2. /\ ~FisGoing /\ ~Announced /\ ~m_valid /\ Unseen = <<>> /\ ~o_tran_req
      /\ ~o_s2mm_request /\ ~s2mm.busy /\ ~o_mm2s_request /\ ~mm2s.busy /\ outq = <<>>
  BY <1>1, IdleFacts
<1>3. Silent(go) /\ ~TakesData(go) /\ ~FisLeaves(go) /\ Unseen' = <<>>
  BY <1>2, NothingUnseen DEF Common
<1>4. /\ fsm_state' = "IDLE" /\ ~o_tran_req' /\ ~Announced' /\ ~return_to_idle'
      /\ ~o_s2mm_request' /\ ~o_mm2s_request'
  BY <1>1, <1>2 DEF IdleCycle, Announced, tranVars
<1>5. known_cmd' => r_command' = cmd_type'
  <2>1. known_cmd' => Write(in, "CMD") /\ 2 \in in.wb.sel /\ in.wb.op = cmd_type'
    BY <1>1 DEF Common, Write
  <2> QED BY <1>2, <2>1 DEF IdleCycle
<1>6. FisInv'
  BY <1>2, <1>4, <1>5, FisStep DEF Parts
<1>7. PhaseInv'
  <2>1. Unseen' \in IF FisGoing' THEN {<<>>} ELSE Answer'
    BY <1>3, <1>4 DEF Answer
  <2>2. cmd_type' # "PIO_READ"
    BY DEF Common
  <2> QED BY <1>4, <2>1, <2>2 DEF PhaseInv
<1>8. EngineInv'
  <2>1. ~mm2s.busy'
    BY <1>2 DEF Common, EnginesMove
  <2> QED BY <1>2, <1>4, <2>1, EngineStep DEF Parts
<1>9. PulseHasStatus'
  BY <1>4 DEF PulseHasStatus
<1> QED BY <1>6, <1>7, <1>8, <1>9 DEF Kept

\* In a running state no command is decoded, and the class is kept.
LEMMA RunningFacts ==
  ASSUME NEW in, NEW go, Common(in, go), Parts, fsm_state # "IDLE"
  PROVE  cmd_type' = cmd_type /\ ~known_cmd' /\ cmd_type # "PIO_READ"
BY DEF Common, Parts, PhaseInv

LEMMA CommandCase ==
  ASSUME NEW in, NEW go, Common(in, go), Parts, Command(in), RxStatus(in), cmd_type \in CmdTypes
  PROVE  Kept
<1>1. fsm_state = "COMMAND" /\ Announced /\ FisGoing /\ ~m_valid /\ r_command = cmd_type
  BY DEF Command, Parts, FisInv, FisGoing
<1>2. /\ Unseen = <<>> /\ ~o_s2mm_request /\ ~s2mm.busy /\ ~o_mm2s_request /\ ~mm2s.busy
      /\ ~FisLeaves(go)
  BY <1>1 DEF Parts, PhaseInv, EngineInv, Common
<1>3. outq = <<>>
  BY <1>2, ScriptParts DEF Parts, EngineInv
<1>4. Silent(go) /\ Unseen' = <<>>
  BY <1>2, NothingUnseen
<1>5. cmd_type' = cmd_type /\ ~known_cmd' /\ cmd_type # "PIO_READ"
  BY <1>1, RunningFacts
<1>6. o_tran_req
  BY <1>1 DEF Announced
<1>7. /\ cmd_type = "NONDATA" => fsm_state' = "WAIT_REG"
      /\ cmd_type = "PIO_WRITE" => fsm_state' = "PIO_OUT_SETUP"
      /\ cmd_type = "DMA_READ" => fsm_state' = "DMA_IN"
      /\ cmd_type = "DMA_WRITE" => fsm_state' = "DMA_OUT_SETUP"
  BY <1>6 DEF Command, Goto
<1>8. cmd_type \in {"NONDATA", "PIO_WRITE", "DMA_READ", "DMA_WRITE"}
  BY <1>5 DEF CmdTypes
<1>9. fsm_state' \in {"WAIT_REG", "PIO_OUT_SETUP", "DMA_IN", "DMA_OUT_SETUP"}
  BY <1>7, <1>8
<1>10. /\ ~o_tran_req' /\ ~Announced' /\ ~o_mm2s_request'
       /\ o_s2mm_request' => cmd_type = "DMA_READ"
       /\ return_to_idle' => fsm_state' = "IDLE"
  BY <1>2, <1>6 DEF Command, Announced, Goto
<1>11. r_command' = r_command
  BY <1>4, Received DEF RxStatus
<1>12. FisInv'
  BY <1>1, <1>5, <1>9, <1>10, <1>11, FisStep DEF Parts
<1>13. FisGoing' /\ ~m_valid'
  <2>1. FisGoing'
    BY <1>1, <1>2 DEF Common
  <2>2. ~m_valid'
    BY <1>1 DEF Common, FisInv, Parts
  <2> QED BY <2>1, <2>2
<1>14. PhaseInv'
  <2>1. fsm_state' \in {"IDLE", "COMMAND"} \cup OpState(cmd_type')
    BY <1>5, <1>7, <1>8 DEF OpState
  <2> QED BY <1>4, <1>5, <1>9, <1>13, <2>1 DEF PhaseInv
<1>15. EngineInv'
  <2>1. ~s2mm.busy' /\ ~mm2s.busy'
    BY <1>2 DEF Common, EnginesMove
  <2> QED BY <1>2, <1>3, <1>7, <1>10, <1>13, <2>1, EngineStep DEF Parts
<1>16. PulseHasStatus'
  BY <1>9, <1>10 DEF PulseHasStatus
<1> QED BY <1>12, <1>14, <1>15, <1>16 DEF Kept

LEMMA WaitRegCase ==
  ASSUME NEW in, NEW go, Common(in, go), Parts, WaitReg(in), RxStatus(in)
  PROVE  Kept
<1>1. fsm_state = "WAIT_REG" /\ ~Announced /\ cmd_type = "NONDATA"
  BY DEF WaitReg, Parts, FisInv, PhaseInv, OpState
<1>2. /\ ~o_s2mm_request /\ ~s2mm.busy /\ ~o_mm2s_request /\ ~mm2s.busy /\ ~o_tran_req
      /\ Unseen \in IF FisGoing THEN {<<>>} ELSE {Reg}
  BY <1>1 DEF Parts, PhaseInv, EngineInv, Answer
<1>3. outq = <<>>
  BY <1>2, ScriptParts DEF Parts, EngineInv
<1>4. cmd_type' = cmd_type /\ ~known_cmd'
  BY <1>1, RunningFacts
<1>5. /\ ~o_tran_req' /\ ~Announced' /\ ~o_s2mm_request' /\ ~o_mm2s_request'
      /\ IF Arrives(go, "REG_TO_HOST") THEN fsm_state' = "IDLE"
         ELSE fsm_state' = "WAIT_REG" /\ ~return_to_idle'
  BY <1>1, <1>2 DEF WaitReg, Announced, dmaVars, Goto, Stay, Common
<1>6. EngineInv'
  <2>1. ~mm2s.busy'
    BY <1>2 DEF Common, EnginesMove
  <2> QED BY <1>2, <1>3, <1>5, <2>1, EngineStep DEF Parts
<1>7. FisGoing' <=> FisGoing /\ ~FisLeaves(go)
  BY <1>5 DEF Common
<1>8. CASE FisGoing
  <2>1. Silent(go)
    BY <1>2, <1>8, NothingUnseen
  <2>2. fsm_state' = "WAIT_REG" /\ ~return_to_idle' /\ r_command' = r_command
    BY <1>5, <2>1, Received DEF Silent, RxStatus
  <2>3. FisInv'
    BY <1>4, <1>5, <1>8, <2>2, FisStep DEF Parts
  <2>4. FisLeaves(go) => Unseen' = Reg
    BY <1>1, <1>2, <1>8, NothingUnseen, ScriptNames DEF Parts, FisInv, Common
  <2>5. ~FisLeaves(go) => Unseen' = <<>>
    BY <1>2, <1>8, NothingUnseen
  <2>6. PhaseInv'
    BY <1>1, <1>4, <1>7, <1>8, <2>2, <2>4, <2>5 DEF PhaseInv, Answer, OpState
  <2>7. PulseHasStatus'
    BY <2>2 DEF PulseHasStatus
  <2> QED BY <1>6, <2>3, <2>6, <2>7 DEF Kept
<1>9. CASE ~FisGoing
  <2>1. Unseen = Reg /\ ~FisLeaves(go) /\ ~FisGoing'
    BY <1>2, <1>7, <1>9 DEF Common, FisGoing
  <2>2. FisInv'
    BY <1>4, <1>5, <1>9, FisStep DEF Parts
  <2>3. \/ Silent(go) /\ Unseen' = Reg
        \/ Arrives(go, "REG_TO_HOST") /\ Unseen' = <<>>
    BY <2>1, ScriptMoves DEF Only
  <2>4. CASE Silent(go) /\ Unseen' = Reg
    <3>1. fsm_state' = "WAIT_REG" /\ ~return_to_idle'
      BY <1>5, <2>4 DEF Silent
    <3>2. PhaseInv'
      BY <1>1, <1>4, <2>1, <2>4, <3>1 DEF PhaseInv, Answer, OpState
    <3>3. PulseHasStatus'
      BY <3>1 DEF PulseHasStatus
    <3> QED BY <1>6, <2>2, <3>2, <3>3 DEF Kept
  <2>5. CASE Arrives(go, "REG_TO_HOST") /\ Unseen' = <<>>
    <3>1. fsm_state' = "IDLE" /\ last_fis' = "REG_TO_HOST"
      BY <1>5, <2>5, Received DEF RxStatus
    <3>2. PhaseInv'
      BY <1>1, <1>4, <2>1, <2>5, <3>1 DEF PhaseInv, Answer
    <3>3. PulseHasStatus'
      BY <3>1 DEF PulseHasStatus
    <3> QED BY <1>6, <2>2, <3>2, <3>3 DEF Kept
  <2> QED BY <2>3, <2>4, <2>5
<1> QED BY <1>8, <1>9

LEMMA DmaInCase ==
  ASSUME NEW in, NEW go, Common(in, go), Parts, DmaIn(in), RxStatus(in)
  PROVE  Kept
<1>1. fsm_state = "DMA_IN" /\ ~Announced /\ cmd_type = "DMA_READ"
  BY DEF DmaIn, Parts, FisInv, PhaseInv, OpState
<1>2. /\ ~o_mm2s_request /\ ~mm2s.busy /\ ~o_tran_req
      /\ o_s2mm_request => ~s2mm.busy
      /\ Unseen \in IF FisGoing THEN {<<>>} ELSE {ReadAll, Reg}
  BY <1>1 DEF Parts, PhaseInv, EngineInv, Answer
<1>3. outq = <<>>
  BY <1>2, ScriptParts DEF Parts, EngineInv
<1>4. cmd_type' = cmd_type /\ ~known_cmd'
  BY <1>1, RunningFacts
<1>5. /\ ~o_tran_req' /\ ~Announced' /\ ~o_s2mm_request' /\ ~o_mm2s_request' /\ ~return_to_idle'
      /\ fsm_state' = IF Arrives(go, "REG_TO_HOST") THEN "DMA_IN_FINAL" ELSE "DMA_IN"
  <2>1. ~o_s2mm_request'
    BY <1>2 DEF DmaIn, DropS2mm, Common
  <2>2. ~o_tran_req' /\ ~Announced' /\ ~o_mm2s_request'
    BY <1>2 DEF DmaIn, tranVars, Announced
  <2>3. /\ ~return_to_idle'
        /\ fsm_state' = IF Arrives(go, "REG_TO_HOST") THEN "DMA_IN_FINAL" ELSE "DMA_IN"
    BY <1>1 DEF DmaIn, Goto, Stay, Common
  <2> QED BY <2>1, <2>2, <2>3
<1>6. EngineInv'
  <2>1. ~mm2s.busy'
    BY <1>2 DEF Common, EnginesMove
  <2> QED BY <1>2, <1>3, <1>5, <2>1, EngineStep DEF Parts
<1>7. FisGoing' <=> FisGoing /\ ~FisLeaves(go)
  BY <1>5 DEF Common
<1>8. PulseHasStatus'
  BY <1>5 DEF PulseHasStatus
<1>9. CASE FisGoing
  <2>1. Silent(go)
    BY <1>2, <1>9, NothingUnseen
  <2>2. fsm_state' = "DMA_IN" /\ r_command' = r_command
    BY <1>5, <2>1, Received DEF Silent, RxStatus
  <2>3. FisInv'
    BY <1>4, <1>5, <1>9, <2>2, FisStep DEF Parts
  <2>4. FisLeaves(go) => Unseen' \in {ReadAll, Reg}
    BY <1>1, <1>2, <1>9, NothingUnseen, ScriptNames DEF Parts, FisInv, Common
  <2>5. ~FisLeaves(go) => Unseen' = <<>>
    BY <1>2, <1>9, NothingUnseen
  <2>6. PhaseInv'
    BY <1>1, <1>4, <1>7, <1>9, <2>2, <2>4, <2>5 DEF PhaseInv, Answer, OpState
  <2> QED BY <1>6, <1>8, <2>3, <2>6 DEF Kept
<1>10. CASE ~FisGoing
  <2>1. Unseen \in {ReadAll, Reg} /\ ~FisLeaves(go) /\ ~FisGoing'
    BY <1>2, <1>7, <1>10 DEF Common, FisGoing
  <2>2. FisInv'
    BY <1>4, <1>5, <1>10, FisStep DEF Parts
  <2>3. \/ Silent(go) /\ Unseen' \in {ReadAll, Reg}
        \/ Arrives(go, "REG_TO_HOST") /\ Unseen' = <<>>
    BY <2>1, ScriptMoves DEF Only
  <2>4. CASE Silent(go) /\ Unseen' \in {ReadAll, Reg}
    <3>1. fsm_state' = "DMA_IN"
      BY <1>5, <2>4 DEF Silent
    <3>2. PhaseInv'
      BY <1>1, <1>4, <2>1, <2>4, <3>1 DEF PhaseInv, Answer, OpState
    <3> QED BY <1>6, <1>8, <2>2, <3>2 DEF Kept
  <2>5. CASE Arrives(go, "REG_TO_HOST") /\ Unseen' = <<>>
    <3>1. fsm_state' = "DMA_IN_FINAL" /\ last_fis' = "REG_TO_HOST"
      BY <1>5, <2>5, Received DEF RxStatus
    <3>2. PhaseInv'
      BY <1>1, <1>4, <2>1, <2>5, <3>1 DEF PhaseInv, Answer, OpState
    <3> QED BY <1>6, <1>8, <2>2, <3>2 DEF Kept
  <2> QED BY <2>3, <2>4, <2>5
<1> QED BY <1>9, <1>10

LEMMA DmaInFinalCase ==
  ASSUME NEW in, NEW go, Common(in, go), Parts, DmaInFinal(in), RxStatus(in)
  PROVE  Kept
<1>1. /\ fsm_state = "DMA_IN_FINAL" /\ ~FisGoing /\ ~Announced
      /\ cmd_type = "DMA_READ" /\ last_fis = "REG_TO_HOST"
  BY DEF DmaInFinal, Parts, FisInv, PhaseInv, OpState
<1>2. /\ ~o_s2mm_request /\ ~o_mm2s_request /\ ~mm2s.busy /\ ~o_tran_req /\ Unseen = <<>>
  BY <1>1 DEF Parts, PhaseInv, EngineInv, Answer
<1>3. outq = <<>>
  BY <1>2, ScriptParts DEF Parts, EngineInv
<1>4. cmd_type' = cmd_type /\ ~known_cmd'
  BY <1>1, RunningFacts
<1>5. Silent(go) /\ ~FisLeaves(go) /\ Unseen' = <<>>
  BY <1>1, <1>2, NothingUnseen DEF Common, FisGoing
<1>6. /\ ~o_tran_req' /\ ~Announced' /\ ~o_s2mm_request' /\ ~o_mm2s_request'
      /\ fsm_state' = IF s2mm.busy THEN "DMA_IN_FINAL" ELSE "IDLE"
  BY <1>1, <1>2 DEF DmaInFinal, Announced, dmaVars, tranVars, Goto, Stay, Common
<1>7. last_fis' = "REG_TO_HOST"
  BY <1>1, <1>5, Received DEF RxStatus
<1>8. EngineInv'
  <2>1. ~mm2s.busy'
    BY <1>2 DEF Common, EnginesMove
  <2> QED BY <1>2, <1>3, <1>6, <2>1, EngineStep DEF Parts
<1>9. FisInv'
  BY <1>1, <1>4, <1>6, FisStep DEF Parts
<1>10. ~FisGoing'
  BY <1>1, <1>6 DEF Common
<1>11. PhaseInv'
  BY <1>1, <1>4, <1>5, <1>6, <1>7, <1>10 DEF PhaseInv, Answer, OpState
<1>12. PulseHasStatus'
  BY <1>7 DEF PulseHasStatus
<1> QED BY <1>8, <1>9, <1>11, <1>12 DEF Kept

LEMMA PioOutSetupCase ==
  ASSUME NEW in, NEW go, Common(in, go), Parts, PioOutSetup(in), RxStatus(in)
  PROVE  Kept
<1>1. fsm_state = "PIO_OUT_SETUP" /\ ~Announced /\ cmd_type = "PIO_WRITE"
  BY DEF PioOutSetup, Parts, FisInv, PhaseInv, OpState
<1>2. /\ ~o_s2mm_request /\ ~s2mm.busy /\ ~o_mm2s_request /\ ~mm2s.busy /\ ~o_tran_req
      /\ Unseen \in IF FisGoing THEN {<<>>} ELSE {PioAll, PioRest, Reg}
  BY <1>1 DEF Parts, PhaseInv, EngineInv, Answer
<1>3. outq # <<>> => Unseen = PioRest /\ ~FisGoing
  BY <1>2, ScriptParts DEF Parts, EngineInv
<1>4. cmd_type' = cmd_type /\ ~known_cmd'
  BY <1>1, RunningFacts
<1>5. /\ ~Announced' /\ ~o_s2mm_request'
      /\ o_mm2s_request' => Arrives(go, "PIO_SETUP")
      /\ o_tran_req' => o_mm2s_request'
  BY <1>2 DEF PioOutSetup, Announced, Common
<1>6. /\ Silent(go) => fsm_state' = "PIO_OUT_SETUP" /\ ~return_to_idle'
      /\ Only(go, "REG_TO_HOST") => fsm_state' = "IDLE"
      /\ Only(go, "PIO_SETUP") => fsm_state' = "PIO_TXDATA" /\ ~return_to_idle'
  <2>1. /\ \/ Arrives(go, "REG_TO_HOST") /\ Goto("IDLE")
           \/ Arrives(go, "PIO_SETUP") /\ Goto("PIO_TXDATA")
           \/ ~Arrives(go, "REG_TO_HOST") /\ ~Arrives(go, "PIO_SETUP") /\ Goto("PIO_OUT_SETUP")
    BY <1>1 DEF PioOutSetup, Stay, Common
  <2> QED BY <2>1 DEF Goto, Silent, Only
<1>7. ~mm2s.busy' /\ EngineInv'
  <2>1. ~mm2s.busy'
    BY <1>2 DEF Common, EnginesMove
  <2>2. o_mm2s_request' => ~FisGoing /\ Unseen \notin {PioRest, <<>>} /\ ~FisLeaves(go)
    <3>1. o_mm2s_request' => ~Silent(go)
      BY <1>5 DEF Silent
    <3>2. FisGoing => Silent(go)
      BY <1>2, NothingUnseen
    <3>3. Unseen = PioRest /\ ~FisLeaves(go) => Silent(go)
      BY ScriptMoves
    <3>4. ~FisGoing => ~FisLeaves(go) /\ Unseen # <<>>
      BY <1>2, ScriptParts DEF Common, FisGoing
    <3> QED BY <3>1, <3>2, <3>3, <3>4
  <2>3. o_mm2s_request' => fsm_state' = "PIO_TXDATA"
    <3> SUFFICES ASSUME o_mm2s_request' PROVE Only(go, "PIO_SETUP")
      BY <1>6
    <3>1. Unseen = PioAll \/ Unseen = Reg
      BY <1>2, <2>2
    <3>2. Arrives(go, "PIO_SETUP") /\ ~Silent(go) /\ ~FisLeaves(go)
      BY <1>5, <2>2 DEF Silent
    <3>3. ~Only(go, "REG_TO_HOST")
      BY <3>2 DEF Only
    <3> QED BY <3>1, <3>2, <3>3, ScriptMoves
  <2>4. outq # <<>> /\ ~TakesData(go) => ~o_mm2s_request' /\ Unseen' = PioRest
    <3>1. outq # <<>> => ~FisLeaves(go)
      BY <1>3 DEF Common, FisGoing
    <3> QED BY <1>3, <2>2, <3>1, ScriptMoves
  <2> QED BY <1>2, <1>5, <2>1, <2>3, <2>4, EngineStep DEF Parts
<1>8. FisGoing' <=> FisGoing /\ ~FisLeaves(go)
  BY <1>5 DEF Common
<1>9. CASE FisGoing
  <2>1. Silent(go)
    BY <1>2, <1>9, NothingUnseen
  <2>2. fsm_state' = "PIO_OUT_SETUP" /\ ~return_to_idle' /\ r_command' = r_command
    BY <1>6, <2>1, Received DEF RxStatus
  <2>3. FisInv'
    BY <1>4, <1>5, <1>9, <2>2, FisStep DEF Parts
  <2>4. FisLeaves(go) => Unseen' \in {PioAll, Reg}
    BY <1>1, <1>2, <1>9, NothingUnseen, ScriptNames DEF Parts, FisInv, Common
  <2>5. ~FisLeaves(go) => Unseen' = <<>>
    BY <1>2, <1>9, NothingUnseen
  <2>6. PhaseInv'
    BY <1>1, <1>4, <1>8, <1>9, <2>2, <2>4, <2>5 DEF PhaseInv, Answer, OpState
  <2>7. PulseHasStatus'
    BY <2>2 DEF PulseHasStatus
  <2> QED BY <1>7, <2>3, <2>6, <2>7 DEF Kept
<1>10. CASE ~FisGoing
  <2>1. Unseen \in {PioAll, PioRest, Reg} /\ ~FisLeaves(go) /\ ~FisGoing'
    BY <1>2, <1>8, <1>10 DEF Common, FisGoing
  <2>2. \/ Silent(go) /\ Unseen' \in {PioAll, PioRest, Reg}
        \/ Only(go, "REG_TO_HOST") /\ Unseen' = <<>>
        \/ Only(go, "PIO_SETUP") /\ Unseen' = PioRest
    BY <2>1, ScriptMoves
  <2>3. CASE Silent(go) /\ Unseen' \in {PioAll, PioRest, Reg}
    <3>1. fsm_state' = "PIO_OUT_SETUP" /\ ~return_to_idle'
      BY <1>6, <2>3
    <3>2. FisInv'
      BY <1>4, <1>5, <1>10, <3>1, FisStep DEF Parts
    <3>3. PhaseInv'
      BY <1>1, <1>4, <2>1, <2>3, <3>1 DEF PhaseInv, Answer, OpState
    <3> QED BY <1>7, <3>1, <3>2, <3>3 DEF Kept, PulseHasStatus
  <2>4. CASE Only(go, "REG_TO_HOST") /\ Unseen' = <<>>
    <3>1. fsm_state' = "IDLE" /\ last_fis' = "REG_TO_HOST"
      BY <1>6, <2>4, Received DEF RxStatus, Only
    <3>2. FisInv'
      BY <1>4, <1>5, <1>10, <3>1, FisStep DEF Parts
    <3>3. PhaseInv'
      BY <1>1, <1>4, <2>1, <2>4, <3>1 DEF PhaseInv, Answer
    <3> QED BY <1>7, <3>1, <3>2, <3>3 DEF Kept, PulseHasStatus
  <2>5. CASE Only(go, "PIO_SETUP") /\ Unseen' = PioRest
    <3>1. fsm_state' = "PIO_TXDATA" /\ ~return_to_idle'
      BY <1>6, <2>5
    <3>2. FisInv'
      BY <1>4, <1>5, <1>10, <3>1, FisStep DEF Parts
    <3>3. PhaseInv'
      BY <1>1, <1>4, <2>1, <2>5, <3>1 DEF PhaseInv, Answer, OpState
    <3> QED BY <1>7, <3>1, <3>2, <3>3 DEF Kept, PulseHasStatus
  <2> QED BY <2>2, <2>3, <2>4, <2>5
<1> QED BY <1>9, <1>10

LEMMA PioTxCase ==
  ASSUME NEW in, NEW go, Common(in, go), Parts, PioTxData(in), RxStatus(in)
  PROVE  Kept
<1>1. fsm_state = "PIO_TXDATA" /\ ~Announced /\ ~FisGoing /\ cmd_type = "PIO_WRITE"
  BY DEF PioTxData, Parts, FisInv, PhaseInv, OpState
<1>2. /\ ~o_s2mm_request /\ ~s2mm.busy /\ Unseen = PioRest
      /\ o_tran_req => o_mm2s_request
      /\ o_mm2s_request => ~mm2s.busy
  BY <1>1 DEF Parts, PhaseInv, EngineInv, Answer
<1>3. outq # <<>> => ~o_mm2s_request /\ ~mm2s.busy
  BY DEF Parts, EngineInv
<1>4. cmd_type' = cmd_type /\ ~known_cmd'
  BY <1>1, RunningFacts
<1>5. ~FisLeaves(go) /\ Silent(go)
  BY <1>1, <1>2, ScriptMoves DEF Common, FisGoing
<1>6. /\ TakesData(go) => outq # <<>> /\ Unseen' \in {PioAll, Reg}
      /\ ~TakesData(go) => Unseen' = PioRest
  BY <1>2, <1>5, ScriptMoves
<1>7. /\ ~o_tran_req' /\ ~Announced' /\ ~o_s2mm_request' /\ ~o_mm2s_request' /\ ~return_to_idle'
      /\ fsm_state' = IF o_mm2s_request \/ mm2s.busy THEN "PIO_TXDATA" ELSE "PIO_OUT_SETUP"
  <2>1. ~o_mm2s_request' /\ ~o_tran_req' /\ ~o_s2mm_request'
    BY <1>2 DEF PioTxData, DropTran, DropMm2s, Common
  <2>2. /\ ~return_to_idle'
        /\ fsm_state' = IF o_mm2s_request \/ mm2s.busy THEN "PIO_TXDATA" ELSE "PIO_OUT_SETUP"
    BY <1>1, <1>2 DEF PioTxData, Goto, Stay, Common
  <2> QED BY <2>1, <2>2 DEF Announced
<1>8. FisInv'
  BY <1>1, <1>4, <1>7, FisStep DEF Parts
<1>9. ~FisGoing'
  BY <1>1, <1>7 DEF Common
<1>10. PhaseInv'
  <2>1. TakesData(go) => fsm_state' = "PIO_OUT_SETUP"
    BY <1>3, <1>6, <1>7
  <2> QED BY <1>1, <1>4, <1>6, <1>7, <1>9, <2>1 DEF PhaseInv, Answer, OpState
<1>11. EngineInv'
  <2>1. mm2s.busy' => fsm_state' = "PIO_TXDATA"
    BY <1>7 DEF Common, EnginesMove
  <2>2. outq # <<>> => ~mm2s.busy'
    BY <1>3 DEF Common, EnginesMove
  <2>3. mm2s.busy => ~TakesData(go)
    BY <1>3, <1>6
  <2> QED BY <1>2, <1>6, <1>7, <2>1, <2>2, <2>3, EngineStep DEF Parts
<1>12. PulseHasStatus'
  BY <1>7 DEF PulseHasStatus
<1> QED BY <1>8, <1>10, <1>11, <1>12 DEF Kept

LEMMA DmaOutSetupCase ==
  ASSUME NEW in, NEW go, Common(in, go), Parts, DmaOutSetup(in), RxStatus(in)
  PROVE  Kept
<1>1. fsm_state = "DMA_OUT_SETUP" /\ ~Announced /\ cmd_type = "DMA_WRITE"
  BY DEF DmaOutSetup, Parts, FisInv, PhaseInv, OpState
<1>2. /\ ~o_s2mm_request /\ ~s2mm.busy /\ ~o_mm2s_request /\ ~mm2s.busy /\ ~o_tran_req
      /\ Unseen \in IF FisGoing THEN {<<>>} ELSE {DmaAll, DmaRest, Reg}
  BY <1>1 DEF Parts, PhaseInv, EngineInv, Answer
<1>3. outq # <<>> => Unseen = DmaRest /\ ~FisGoing
  BY <1>2, ScriptParts DEF Parts, EngineInv
<1>4. cmd_type' = cmd_type /\ ~known_cmd'
  BY <1>1, RunningFacts
<1>5. /\ ~Announced' /\ ~o_s2mm_request'
      /\ o_mm2s_request' => Arrives(go, "DMA_ACTIVATE")
      /\ o_tran_req' => o_mm2s_request'
  BY <1>2 DEF DmaOutSetup, Announced, Common
<1>6. /\ Silent(go) => fsm_state' = "DMA_OUT_SETUP" /\ ~return_to_idle'
      /\ Only(go, "REG_TO_HOST") => fsm_state' = "IDLE"
      /\ Only(go, "DMA_ACTIVATE") => fsm_state' = "DMA_TXDATA" /\ ~return_to_idle'
  <2>1. /\ \/ Arrives(go, "REG_TO_HOST") /\ Goto("IDLE")
           \/ Arrives(go, "DMA_ACTIVATE") /\ Goto("DMA_TXDATA")
           \/ ~Arrives(go, "REG_TO_HOST") /\ ~Arrives(go, "DMA_ACTIVATE") /\ Goto("DMA_OUT_SETUP")
    BY <1>1 DEF DmaOutSetup, Stay, Common
  <2> QED BY <2>1 DEF Goto, Silent, Only
<1>7. ~mm2s.busy' /\ EngineInv'
  <2>1. ~mm2s.busy'
    BY <1>2 DEF Common, EnginesMove
  <2>2. o_mm2s_request' => ~FisGoing /\ Unseen \notin {DmaRest, <<>>} /\ ~FisLeaves(go)
    <3>1. o_mm2s_request' => ~Silent(go)
      BY <1>5 DEF Silent
    <3>2. FisGoing => Silent(go)
      BY <1>2, NothingUnseen
    <3>3. Unseen = DmaRest /\ ~FisLeaves(go) => Silent(go)
      BY ScriptMoves
    <3>4. ~FisGoing => ~FisLeaves(go) /\ Unseen # <<>>
      BY <1>2, ScriptParts DEF Common, FisGoing
    <3> QED BY <3>1, <3>2, <3>3, <3>4
  <2>3. o_mm2s_request' => fsm_state' = "DMA_TXDATA"
    <3> SUFFICES ASSUME o_mm2s_request' PROVE Only(go, "DMA_ACTIVATE")
      BY <1>6
    <3>1. Unseen = DmaAll \/ Unseen = Reg
      BY <1>2, <2>2
    <3>2. Arrives(go, "DMA_ACTIVATE") /\ ~Silent(go) /\ ~FisLeaves(go)
      BY <1>5, <2>2 DEF Silent
    <3>3. ~Only(go, "REG_TO_HOST")
      BY <3>2 DEF Only
    <3> QED BY <3>1, <3>2, <3>3, ScriptMoves
  <2>4. outq # <<>> /\ ~TakesData(go) => ~o_mm2s_request' /\ Unseen' = DmaRest
    <3>1. outq # <<>> => ~FisLeaves(go)
      BY <1>3 DEF Common, FisGoing
    <3> QED BY <1>3, <2>2, <3>1, ScriptMoves
  <2> QED BY <1>2, <1>5, <2>1, <2>3, <2>4, EngineStep DEF Parts
<1>8. FisGoing' <=> FisGoing /\ ~FisLeaves(go)
  BY <1>5 DEF Common
<1>9. CASE FisGoing
  <2>1. Silent(go)
    BY <1>2, <1>9, NothingUnseen
  <2>2. fsm_state' = "DMA_OUT_SETUP" /\ ~return_to_idle' /\ r_command' = r_command
    BY <1>6, <2>1, Received DEF RxStatus
  <2>3. FisInv'
    BY <1>4, <1>5, <1>9, <2>2, FisStep DEF Parts
  <2>4. FisLeaves(go) => Unseen' \in {DmaAll, Reg}
    BY <1>1, <1>2, <1>9, NothingUnseen, ScriptNames DEF Parts, FisInv, Common
  <2>5. ~FisLeaves(go) => Unseen' = <<>>
    BY <1>2, <1>9, NothingUnseen
  <2>6. PhaseInv'
    BY <1>1, <1>4, <1>8, <1>9, <2>2, <2>4, <2>5 DEF PhaseInv, Answer, OpState
  <2>7. PulseHasStatus'
    BY <2>2 DEF PulseHasStatus
  <2> QED BY <1>7, <2>3, <2>6, <2>7 DEF Kept
<1>10. CASE ~FisGoing
  <2>1. Unseen \in {DmaAll, DmaRest, Reg} /\ ~FisLeaves(go) /\ ~FisGoing'
    BY <1>2, <1>8, <1>10 DEF Common, FisGoing
  <2>2. \/ Silent(go) /\ Unseen' \in {DmaAll, DmaRest, Reg}
        \/ Only(go, "REG_TO_HOST") /\ Unseen' = <<>>
        \/ Only(go, "DMA_ACTIVATE") /\ Unseen' = DmaRest
    BY <2>1, ScriptMoves
  <2>3. CASE Silent(go) /\ Unseen' \in {DmaAll, DmaRest, Reg}
    <3>1. fsm_state' = "DMA_OUT_SETUP" /\ ~return_to_idle'
      BY <1>6, <2>3
    <3>2. FisInv'
      BY <1>4, <1>5, <1>10, <3>1, FisStep DEF Parts
    <3>3. PhaseInv'
      BY <1>1, <1>4, <2>1, <2>3, <3>1 DEF PhaseInv, Answer, OpState
    <3> QED BY <1>7, <3>1, <3>2, <3>3 DEF Kept, PulseHasStatus
  <2>4. CASE Only(go, "REG_TO_HOST") /\ Unseen' = <<>>
    <3>1. fsm_state' = "IDLE" /\ last_fis' = "REG_TO_HOST"
      BY <1>6, <2>4, Received DEF RxStatus, Only
    <3>2. FisInv'
      BY <1>4, <1>5, <1>10, <3>1, FisStep DEF Parts
    <3>3. PhaseInv'
      BY <1>1, <1>4, <2>1, <2>4, <3>1 DEF PhaseInv, Answer
    <3> QED BY <1>7, <3>1, <3>2, <3>3 DEF Kept, PulseHasStatus
  <2>5. CASE Only(go, "DMA_ACTIVATE") /\ Unseen' = DmaRest
    <3>1. fsm_state' = "DMA_TXDATA" /\ ~return_to_idle'
      BY <1>6, <2>5
    <3>2. FisInv'
      BY <1>4, <1>5, <1>10, <3>1, FisStep DEF Parts
    <3>3. PhaseInv'
      BY <1>1, <1>4, <2>1, <2>5, <3>1 DEF PhaseInv, Answer, OpState
    <3> QED BY <1>7, <3>1, <3>2, <3>3 DEF Kept, PulseHasStatus
  <2> QED BY <2>2, <2>3, <2>4, <2>5
<1> QED BY <1>9, <1>10

LEMMA DmaTxCase ==
  ASSUME NEW in, NEW go, Common(in, go), Parts, DmaTxData(in), RxStatus(in)
  PROVE  Kept
<1>1. fsm_state = "DMA_TXDATA" /\ ~Announced /\ ~FisGoing /\ cmd_type = "DMA_WRITE"
  BY DEF DmaTxData, Parts, FisInv, PhaseInv, OpState
<1>2. /\ ~o_s2mm_request /\ ~s2mm.busy /\ Unseen = DmaRest
      /\ o_tran_req => o_mm2s_request
      /\ o_mm2s_request => ~mm2s.busy
  BY <1>1 DEF Parts, PhaseInv, EngineInv, Answer
<1>3. outq # <<>> => ~o_mm2s_request /\ ~mm2s.busy
  BY DEF Parts, EngineInv
<1>4. cmd_type' = cmd_type /\ ~known_cmd'
  BY <1>1, RunningFacts
<1>5. ~FisLeaves(go) /\ Silent(go)
  BY <1>1, <1>2, ScriptMoves DEF Common, FisGoing
<1>6. /\ TakesData(go) => outq # <<>> /\ Unseen' \in {DmaAll, Reg}
      /\ ~TakesData(go) => Unseen' = DmaRest
  BY <1>2, <1>5, ScriptMoves
<1>7. /\ ~o_tran_req' /\ ~Announced' /\ ~o_s2mm_request' /\ ~o_mm2s_request' /\ ~return_to_idle'
      /\ fsm_state' = IF o_mm2s_request \/ mm2s.busy THEN "DMA_TXDATA" ELSE "DMA_OUT_SETUP"
  <2>1. ~o_mm2s_request' /\ ~o_tran_req' /\ ~o_s2mm_request'
    BY <1>2 DEF DmaTxData, DropTran, DropMm2s, Common
  <2>2. /\ ~return_to_idle'
        /\ fsm_state' = IF o_mm2s_request \/ mm2s.busy THEN "DMA_TXDATA" ELSE "DMA_OUT_SETUP"
    BY <1>1, <1>2 DEF DmaTxData, Goto, Stay, Common
  <2> QED BY <2>1, <2>2 DEF Announced
<1>8. FisInv'
  BY <1>1, <1>4, <1>7, FisStep DEF Parts
<1>9. ~FisGoing'
  BY <1>1, <1>7 DEF Common
<1>10. PhaseInv'
  <2>1. TakesData(go) => fsm_state' = "DMA_OUT_SETUP"
    BY <1>3, <1>6, <1>7
  <2> QED BY <1>1, <1>4, <1>6, <1>7, <1>9, <2>1 DEF PhaseInv, Answer, OpState
<1>11. EngineInv'
  <2>1. mm2s.busy' => fsm_state' = "DMA_TXDATA"
    BY <1>7 DEF Common, EnginesMove
  <2>2. outq # <<>> => ~mm2s.busy'
    BY <1>3 DEF Common, EnginesMove
  <2>3. mm2s.busy => ~TakesData(go)
    BY <1>3, <1>6
  <2> QED BY <1>2, <1>6, <1>7, <2>1, <2>2, <2>3, EngineStep DEF Parts
<1>12. PulseHasStatus'
  BY <1>7 DEF PulseHasStatus
<1> QED BY <1>8, <1>10, <1>11, <1>12 DEF Kept

-----------------------------------------------------------------------------
(* The whole step.                                                         *)

\* With the link down host, sequencer and device are silent.
LEMMA DownStep ==
  ASSUME NEW in, NEW go, NEW wb, NEW fault, CalmCycle(go, wb, fault), ~link_up,
         Wired(in, go, wb), Tick(in), Inv, TypeOK', Calm
  PROVE  CalmInv'
<1>1. /\ FsmTypeOK /\ LinkInv /\ FrameInv /\ FisInv /\ PhaseInv /\ EngineInv /\ BusyInv
  BY DEF Inv, CalmInv, TypeOK
<1>2. /\ fsm_state = "IDLE" /\ ~known_cmd /\ dev_script = <<>>
  BY <1>1 DEF LinkInv
<1>3. /\ ~FisGoing /\ ~Announced /\ ~m_valid /\ Unseen = <<>> /\ ~o_tran_req
      /\ ~o_s2mm_request /\ ~s2mm.busy /\ ~o_mm2s_request /\ ~mm2s.busy /\ outq = <<>>
  BY <1>1, <1>2, IdleFacts DEF Parts
<1>4. ~reset_hold' /\ ~o_phy_reset' /\ Abort(in)
  BY <1>1, LinkStep
<1>5. ~Decodes(in)
  BY DEF Decodes, Write, CalmCycle, CalmWrite, Wired
<1>6. ~known_cmd' /\ cmd_type' = cmd_type
  BY <1>5 DEF Tick, DecodeCmd
<1>7. AbortCommand(in)
  BY <1>4 DEF Tick, MasterFsm
<1>8. /\ fsm_state' = "IDLE" /\ ~o_s2mm_request' /\ ~o_mm2s_request' /\ ~return_to_idle'
      /\ ~o_tran_req' /\ ~Announced'
  BY <1>2, <1>3, <1>7 DEF AbortCommand, AbortPulse, tranVars, Announced
<1>9. /\ \A p \in go : CanMove(p)
      /\ Device(go, fault)
  BY DEF CalmCycle, Cycle
<1>10. dev_script' = <<>> /\ dev_words' = 0
  BY <1>9 DEF Device, Calm
<1>11. "dev" \notin go /\ "tx" \notin go
  BY <1>2, <1>3, <1>9 DEF CanMove, DevCanMove
<1>12. s_sop' = TRUE
  <2>1. ~Packet(go).valid
    BY <1>11, PacketFacts
  <2>2. ~Started /\ s_sop' = s_sop
    BY <1>2, <2>1 DEF Started, Tick, RxFraming, Wired
  <2>3. s_sop
    BY <1>1, <2>2 DEF FrameInv
  <2>4. s_sop \in BOOLEAN
    BY <1>1 DEF FsmTypeOK
  <2> QED BY <2>2, <2>3, <2>4
<1>13. FrameInv' /\ Unseen' = <<>>
  BY <1>10, <1>12, FreshFrame DEF TypeOK, EnvTypeOK
<1>14. LinkInv'
  BY <1>4, <1>6, <1>8, <1>10 DEF LinkInv
<1>15. ~m_valid' /\ m_last' /\ m_count' = 0 /\ ~FisGoing'
  <2>1. ~FisLeaves(go)
    BY <1>11 DEF FisLeaves
  <2> QED BY <1>1, <1>3, <1>8, <1>11, <2>1, StreamStep DEF Tick, FisGoing
<1>16. FisInv'
  BY <1>6, <1>8, <1>15 DEF FisInv
<1>17. PhaseInv'
  BY <1>1, <1>6, <1>8, <1>13, <1>15 DEF PhaseInv, Answer
<1>18. EngineInv'
  <2>1. EnginesMove(go)
    BY <1>1, EnginesStep DEF Inv
  <2> QED BY <1>3, <1>8, <2>1 DEF EngineInv, EnginesMove
<1>19. PulseHasStatus'
  BY <1>8 DEF PulseHasStatus
<1> QED BY <1>13, <1>14, <1>16, <1>17, <1>18, <1>19 DEF CalmInv

LEMMA UpStep ==
  ASSUME NEW in, NEW go, NEW wb, NEW fault, CalmCycle(go, wb, fault), link_up,
         Wired(in, go, wb), Tick(in), Inv, TypeOK'
  PROVE  CalmInv'
<1>1. /\ FsmTypeOK /\ LinkInv /\ Parts
  BY DEF Inv, CalmInv, TypeOK, Parts
<1>2. FrameInv' /\ Common(in, go)
  BY CommonStep
<1>3. LinkInv'
  BY <1>1, LinkStep DEF LinkInv
<1>4. StartCommand(in) \/ IdleCycle(in) \/ RunCommand(in)
  BY <1>1, LinkStep DEF Tick, MasterFsm, AbortCommand
<1>5. CASE StartCommand(in)
  BY <1>1, <1>2, <1>3, <1>5, StartCase DEF CalmInv, Kept
<1>6. CASE IdleCycle(in)
  BY <1>1, <1>2, <1>3, <1>6, IdleCase DEF CalmInv, Kept
<1>7. CASE RunCommand(in)
  <2>1. RxStatus(in) /\ cmd_type \in CmdTypes
    BY <1>1, <1>7 DEF RunCommand, FsmTypeOK
  <2>2. ~PioInSetup(in) /\ ~PioRxData(in)
    BY <1>1 DEF Parts, PhaseInv, OpState, PioInSetup, PioRxData
  <2>3. Kept
    BY <1>1, <1>2, <1>7, <2>1, <2>2, CommandCase, WaitRegCase, PioOutSetupCase, PioTxCase,
       DmaInCase, DmaInFinalCase, DmaOutSetupCase, DmaTxCase DEF RunCommand
  <2> QED BY <1>2, <1>3, <2>3 DEF CalmInv, Kept
<1> QED BY <1>4, <1>5, <1>6, <1>7

LEMMA CalmInit == Init => CalmInv
<1> SUFFICES ASSUME Init PROVE CalmInv
  OBVIOUS
<1>1. FsmInit /\ EnvInit
  BY DEF Init
<1>2. ~Started /\ Unseen = <<>> /\ ~Announced /\ ~FisGoing
  BY <1>1 DEF FsmInit, EnvInit, Started, Unseen, Announced, FisGoing
<1>3. LinkInv
  BY <1>1 DEF FsmInit, EnvInit, LinkInv
<1>4. FrameInv
  BY <1>1, <1>2 DEF FsmInit, EnvInit, FrameInv
<1>5. FisInv
  BY <1>1, <1>2 DEF FsmInit, FisInv
<1>6. PhaseInv
  BY <1>1, <1>2 DEF FsmInit, PhaseInv, Answer
<1>7. EngineInv
  BY <1>1 DEF FsmInit, EnvInit, EngineInv, EngineIdle, ReaderIdle
<1>8. PulseHasStatus
  BY <1>1 DEF FsmInit, PulseHasStatus
<1> QED BY <1>3, <1>4, <1>5, <1>6, <1>7, <1>8 DEF CalmInv

LEMMA CalmStep == ASSUME Calm PROVE Inv /\ [Next]_vars => Inv'
<1> SUFFICES ASSUME Inv, [Next]_vars PROVE Inv'
  OBVIOUS
<1>1. TypeOK' /\ BusyInv'
  BY TypeStep, BusyStep DEF Inv
<1>2. CASE Next
  <2>1. PICK go, wb, fault : CalmCycle(go, wb, fault)
    BY <1>2, CalmSteps
  <2>2. PICK in : Tick(in) /\ Wired(in, go, wb)
    BY <2>1, CalmWires
  <2> QED BY <1>1, <2>1, <2>2, UpStep, DownStep DEF Inv
<1>3. CASE UNCHANGED vars
  <2>1. /\ UNCHANGED fsmVars /\ UNCHANGED envVars
    BY <1>3 DEF vars
  <2>2. Started' = Started /\ Unseen' = Unseen /\ Announced' = Announced /\ FisGoing' = FisGoing
    BY <2>1 DEF fsmVars, envVars, tranVars, Started, Unseen, Announced, FisGoing
  <2>3. LinkInv' /\ FrameInv' /\ FisInv'
    BY <2>1, <2>2 DEF Inv, CalmInv, fsmVars, envVars, regVars, LinkInv, FrameInv, FisInv
  <2>4. PhaseInv' /\ EngineInv' /\ PulseHasStatus'
    BY <2>1, <2>2 DEF Inv, CalmInv, fsmVars, envVars, regVars, tranVars, dmaVars,
                      PhaseInv, Answer, EngineInv, PulseHasStatus
  <2> QED BY <1>1, <2>3, <2>4 DEF Inv, CalmInv
<1> QED BY <1>2, <1>3

LEMMA InvAlways == ASSUME Calm PROVE Spec => []Inv
<1>1. Init => Inv
  BY TypeInit, BusyInit, CalmInit DEF Inv
<1> QED BY <1>1, CalmStep, PTL DEF Spec

\* The register FIS on its way out carries the opcode of the command that is
\* being run: no status FIS gets between decoding and sending.
THEOREM FisCarries == ASSUME Calm PROVE Spec => []FisCarriesCommand
<1>1. Inv => FisCarriesCommand
  BY DEF Inv, CalmInv, FisInv, FisGoing, FisCarriesCommand
<1> QED BY <1>1, InvAlways, PTL

\* Neither engine is asked for while it runs, whatever the bus answers.
THEOREM RequestsMeetFree == ASSUME Calm PROVE Spec => []RequestOnlyWhenFree
<1>1. Inv => RequestOnlyWhenFree
  BY DEF Inv, CalmInv, EngineInv, RequestOnlyWhenFree
<1> QED BY <1>1, InvAlways, PTL

\* Between commands both engines are still and no received word is left.
THEOREM IdleMeansRest == ASSUME Calm PROVE Spec => []EnginesRest
<1>1. Inv => EnginesRest
  BY DEF Inv, CalmInv, EngineInv, EnginesRest
<1> QED BY <1>1, InvAlways, PTL

\* An interrupt finds the device's status in the shadow registers.
THEOREM InterruptHasStatus == ASSUME Calm PROVE Spec => []PulseHasStatus
<1>1. Inv => PulseHasStatus
  BY DEF Inv, CalmInv
<1> QED BY <1>1, InvAlways, PTL
=============================================================================
