--------------------------- MODULE TransferProofs ---------------------------
(***************************************************************************)
(* DMA transfers are exact: a read reported good is in memory, a write     *)
(* that has ended moved what was announced.  Both follow one command's     *)
(* data word by word, on top of the protocol's invariant of ProtocolProofs *)
(* and of what the driver may write when (HostInv).                        *)
(*                                                                         *)
(* Besides Calm they need a device whose status FIS does not set the I     *)
(* bit: with it the host is told before the command is over, and programs  *)
(* the next address into a sequencer that does not listen.                 *)
(***************************************************************************)
EXTENDS ProtocolProofs

\* The driver goes on when a command is over, and the two address registers
\* are the same until the engine moves one of them.
HostInv ==
  /\ ~r_int
  /\ return_to_idle => fsm_state = "IDLE" /\ ~known_cmd
  /\ host # "wait" => fsm_state = "IDLE" /\ ~known_cmd
  /\ host = "cmd" \/ known_cmd \/ fsm_state = "COMMAND" => o_s2mm_addr = o_mm2s_addr

\* What a driver's write says of the driver.
LEMMA DriverFacts ==
  ASSUME NEW go, NEW wb, NEW fault, CalmCycle(go, wb, fault)
  PROVE  /\ wb = NoWrite <=> wb.a = "NONE"
         /\ wb.a = "COUNT" => host = "count" /\ wb.count \in Counts
         /\ wb.a = "ADDR" => host = "addr"
         /\ wb.a = "CMD" => host = "cmd"
         /\ wb # NoWrite => link_up /\ (s_sop \/ Impatient)
<1>1. CASE wb = NoWrite
  BY <1>1 DEF NoWrite
<1>2. CASE wb \in DriverWrites
  <2>1. link_up /\ (s_sop \/ Impatient)
    BY <1>2 DEF DriverWrites
  <2>2. CASE host = "count"
    <3>1. wb \in {[a |-> "COUNT", count |-> n] : n \in Counts}
      BY <1>2, <2>1, <2>2 DEF DriverWrites
    <3>2. wb.a = "COUNT" /\ wb.count \in Counts
      BY <3>1
    <3> QED BY <2>1, <2>2, <3>2 DEF NoWrite
  <2>3. CASE host = "addr"
    <3>1. wb \in {[a |-> "ADDR", addr |-> b] : b \in Bases}
      BY <1>2, <2>1, <2>3 DEF DriverWrites
    <3>2. wb.a = "ADDR"
      BY <3>1
    <3> QED BY <2>1, <2>3, <3>2 DEF NoWrite
  <2>4. CASE host = "cmd"
    <3>1. wb \in {CmdWrite(op, 0 .. 3, TRUE) : op \in Ops}
      BY <1>2, <2>1, <2>4 DEF DriverWrites
    <3>2. wb.a = "CMD"
      BY <3>1 DEF CmdWrite
    <3> QED BY <2>1, <2>4, <3>2 DEF NoWrite
  <2>5. CASE host \notin {"count", "addr", "cmd"}
    BY <1>2, <2>1, <2>5 DEF DriverWrites
  <2> QED BY <2>2, <2>3, <2>4, <2>5
<1> QED BY <1>1, <1>2 DEF CalmCycle

\* From an idle sequencer with no command decoded it stays idle, and only an
\* address written moves the address registers.
LEMMA IdleStays ==
  ASSUME NEW in, NEW go, NEW wb, Wired(in, go, wb), Tick(in),
         fsm_state = "IDLE", ~known_cmd
  PROVE  /\ fsm_state' = "IDLE"
         /\ wb.a # "ADDR" => o_s2mm_addr' = o_s2mm_addr /\ o_mm2s_addr' = o_mm2s_addr
         /\ wb.a = "ADDR" /\ ~m_valid /\ ~Abort(in)
              => o_s2mm_addr' = wb.addr /\ o_mm2s_addr' = wb.addr
<1>1. AbortCommand(in) \/ (~Abort(in) /\ IdleCycle(in))
  <2>1. ~StartCommand(in)
    BY DEF StartCommand
  <2>2. ~RunCommand(in)
    BY DEF RunCommand, Command, WaitReg, PioInSetup, PioRxData, PioOutSetup,
           PioTxData, DmaIn, DmaInFinal, DmaOutSetup, DmaTxData
  <2> QED BY <2>1, <2>2 DEF Tick, MasterFsm
<1>2. CASE AbortCommand(in)
  BY <1>2 DEF AbortCommand
<1>3. CASE ~Abort(in) /\ IdleCycle(in)
  BY <1>3 DEF IdleCycle, Write, Wired
<1> QED BY <1>1, <1>2, <1>3

\* The I bit never comes.
LEMMA NoIBit ==
  ASSUME NEW in, NEW go, NEW wb, Wired(in, go, wb), "dev" \in go => dev_script # <<>>, ~RegInt
  PROVE  \A f : Fis(in, f) => ~in.pkt.int
<1> SUFFICES ASSUME NEW f, Fis(in, f) PROVE ~in.pkt.int
  OBVIOUS
<1>1. in.pkt = Packet(go) /\ Packet(go).valid
  BY DEF Fis, Wired
<1>2. \E item \in {"ACT", "PIO", "PIO_MORE", "REG"} : DevSends(go, item)
  BY <1>1 DEF Packet, NoPkt
<1>3. Packet(go).int = (dev_words = 0 /\ Head(dev_script) = "REG" /\ RegInt)
  BY <1>2 DEF Packet
<1> QED BY <1>1, <1>3

LEMMA IntStep ==
  ASSUME NEW in, NEW go, NEW wb, Wired(in, go, wb), Tick(in),
         "dev" \in go => dev_script # <<>>, ~RegInt, ~r_int
  PROVE  ~r_int'
<1>1. ~RxInt(in)
  BY NoIBit DEF RxInt, StatusFis
<1>2. CASE AbortCommand(in)
  BY <1>2 DEF AbortCommand, regVars
<1>3. CASE StartCommand(in) \/ IdleCycle(in)
  BY <1>1, <1>3 DEF StartCommand, IdleCycle
<1>4. CASE RunCommand(in)
  BY <1>1, <1>4 DEF RunCommand, RxStatus
<1> QED BY <1>2, <1>3, <1>4 DEF Tick, MasterFsm

\* Where a state of the FSM can have been entered from.
LEMMA CameFrom ==
  ASSUME NEW in, Tick(in), cmd_type \in CmdTypes
  PROVE  /\ fsm_state' = "COMMAND" => StartCommand(in) \/ Command(in)
         /\ fsm_state' = "DMA_IN" => Command(in) \/ DmaIn(in)
         /\ fsm_state' = "DMA_IN_FINAL" => DmaIn(in) \/ DmaInFinal(in)
         /\ fsm_state' = "DMA_OUT_SETUP" => Command(in) \/ DmaOutSetup(in) \/ DmaTxData(in)
         /\ fsm_state' = "DMA_TXDATA" => DmaOutSetup(in) \/ DmaTxData(in)
<1>1. CASE AbortCommand(in)
  BY <1>1 DEF AbortCommand
<1>2. CASE StartCommand(in)
  BY <1>2 DEF StartCommand
<1>3. CASE IdleCycle(in)
  BY <1>3 DEF IdleCycle
<1>4. CASE RunCommand(in)
  <2>1. WaitReg(in) \/ PioInSetup(in) \/ PioRxData(in)
          => fsm_state' \in {"IDLE", "WAIT_REG", "PIO_IN_SETUP", "PIO_RXDATA"}
    BY DEF WaitReg, PioInSetup, PioRxData, Goto, Stay
  <2>2. PioOutSetup(in) \/ PioTxData(in)
          => fsm_state' \in {"IDLE", "PIO_OUT_SETUP", "PIO_TXDATA"}
    BY DEF PioOutSetup, PioTxData, Goto, Stay
  <2>3. DmaOutSetup(in) \/ DmaTxData(in)
          => fsm_state' \in {"IDLE", "DMA_OUT_SETUP", "DMA_TXDATA"}
    BY DEF DmaOutSetup, DmaTxData, Goto, Stay
  <2>4. DmaIn(in) => fsm_state' \in {"DMA_IN", "DMA_IN_FINAL"}
    BY DEF DmaIn, Goto, Stay
  <2>5. DmaInFinal(in) => fsm_state' \in {"IDLE", "DMA_IN_FINAL"}
    BY DEF DmaInFinal, Goto, Stay
  <2>6. Command(in) => fsm_state' \in {"COMMAND", "WAIT_REG", "PIO_IN_SETUP", "PIO_OUT_SETUP",
                                        "DMA_IN", "DMA_OUT_SETUP"}
    BY DEF Command, Goto, Stay, CmdTypes
  <2> QED BY <1>4, <2>1, <2>2, <2>3, <2>4, <2>5, <2>6 DEF RunCommand
<1> QED BY <1>1, <1>2, <1>3, <1>4 DEF Tick, MasterFsm

\* A pulse means a command has just ended; while one runs none is decoded.
LEMMA PulseFacts ==
  ASSUME NEW in, Tick(in), BusyInv
  PROVE  /\ return_to_idle' => fsm_state # "IDLE" /\ fsm_state' = "IDLE"
         /\ known_cmd' => ~known_cmd /\ in.wb.a = "CMD" /\ fsm_state = "IDLE"
<1>1. return_to_idle' => fsm_state # "IDLE" /\ fsm_state' = "IDLE"
  <2>1. CASE AbortCommand(in)
    BY <2>1 DEF AbortCommand, AbortPulse
  <2>2. CASE StartCommand(in)
    BY <2>2 DEF StartCommand
  <2>3. CASE IdleCycle(in)
    BY <2>3 DEF IdleCycle
  <2>4. CASE RunCommand(in)
    BY <2>4, RunPulses
  <2> QED BY <2>1, <2>2, <2>3, <2>4 DEF Tick, MasterFsm
<1>2. known_cmd' => ~known_cmd /\ in.wb.a = "CMD" /\ fsm_state = "IDLE"
  <2>1. known_cmd' => Decodes(in)
    BY DEF Tick, DecodeCmd
  <2> QED BY <2>1 DEF Decodes, Write, BusyInv
<1> QED BY <1>1, <1>2

LEMMA HostStep ==
  ASSUME NEW in, NEW go, NEW wb, NEW fault, CalmCycle(go, wb, fault),
         Wired(in, go, wb), Tick(in), ~RegInt, Inv, HostInv
  PROVE  HostInv'
<1>1. /\ FsmTypeOK /\ BusyInv /\ LinkInv /\ Parts /\ cmd_type \in CmdTypes
  BY DEF Inv, CalmInv, TypeOK, Parts, FsmTypeOK
<1>2. /\ Host(wb, FALSE) /\ (\A p \in go : CanMove(p)) /\ in.wb = wb
  BY DEF CalmCycle, Cycle, Wired
<1>3. ~r_int'
  <2>1. "dev" \in go => dev_script # <<>>
    BY <1>2, MoversCan DEF DevCanMove
  <2> QED BY <2>1, IntStep DEF HostInv
<1>4. /\ return_to_idle' => fsm_state # "IDLE" /\ fsm_state' = "IDLE"
      /\ known_cmd' => ~known_cmd /\ wb.a = "CMD" /\ fsm_state = "IDLE"
  BY <1>1, <1>2, PulseFacts
<1>5. /\ wb = NoWrite <=> wb.a = "NONE"
      /\ wb.a = "COUNT" => host = "count"
      /\ wb.a = "ADDR" => host = "addr"
      /\ wb.a = "CMD" => host = "cmd"
      /\ wb # NoWrite => link_up
  BY DriverFacts
<1>6. wb.a \in {"NONE", "COUNT", "ADDR", "CMD"}
  BY DEF CalmCycle, CalmWrite
<1>7. OInt => fsm_state = "IDLE" /\ ~known_cmd
  BY DEF OInt, HostInv
<1>8. fsm_state = "IDLE" /\ ~known_cmd =>
         /\ fsm_state' = "IDLE"
         /\ wb.a # "ADDR" => o_s2mm_addr' = o_s2mm_addr /\ o_mm2s_addr' = o_mm2s_addr
         /\ wb.a = "ADDR" => o_s2mm_addr' = o_mm2s_addr'
  <2> SUFFICES ASSUME fsm_state = "IDLE", ~known_cmd
               PROVE  /\ fsm_state' = "IDLE"
                      /\ wb.a # "ADDR" => o_s2mm_addr' = o_s2mm_addr /\ o_mm2s_addr' = o_mm2s_addr
                      /\ wb.a = "ADDR" => o_s2mm_addr' = o_mm2s_addr'
    OBVIOUS
  <2>1. ~m_valid
    BY <1>1, IdleFacts
  <2>2. wb.a = "ADDR" => ~Abort(in)
    BY <1>1, <1>5, LinkStep DEF NoWrite
  <2> QED BY <2>1, <2>2, IdleStays
<1>9. return_to_idle' => fsm_state' = "IDLE" /\ ~known_cmd'
  BY <1>4
<1>10. CASE wb # NoWrite /\ ~known_cmd
  <2>1. host' = CASE host = "count" -> "addr" [] host = "addr" -> "cmd" [] OTHER -> "wait"
    BY <1>2, <1>10 DEF Host
  <2>2. host \in {"count", "addr", "cmd"}
    BY <1>5, <1>6, <1>10
  <2>3. fsm_state = "IDLE" /\ fsm_state' = "IDLE"
    BY <1>8, <1>10, <2>2 DEF HostInv
  <2>4. host' # "wait" => host \in {"count", "addr"}
    BY <2>1, <2>2
  <2>5. host' # "wait" => ~known_cmd'
    BY <1>4, <1>5, <2>4
  <2>6. host' = "cmd" => host = "addr"
    BY <2>1, <2>2
  <2>7. host' = "cmd" => o_s2mm_addr' = o_mm2s_addr'
    BY <1>5, <1>6, <1>8, <1>10, <2>3, <2>6
  <2>8. known_cmd' => o_s2mm_addr' = o_mm2s_addr'
    BY <1>4, <1>5, <1>8, <1>10 DEF HostInv
  <2> QED BY <1>3, <1>9, <2>3, <2>5, <2>7, <2>8 DEF HostInv
<1>11. CASE ~(wb # NoWrite /\ ~known_cmd)
  <2>1. host' = IF host = "wait" /\ OInt THEN "count" ELSE host
    BY <1>2, <1>11 DEF Host
  <2>2. ~known_cmd'
    BY <1>4, <1>5, <1>11
  <2>3. host' # "wait" => fsm_state = "IDLE" /\ ~known_cmd
    BY <1>7, <2>1 DEF HostInv
  <2>4. host' = "cmd" => o_s2mm_addr' = o_mm2s_addr'
    <3>1. host' = "cmd" => host = "cmd"
      BY <2>1
    <3> QED BY <1>8, <2>3, <3>1 DEF HostInv
  <2>5. fsm_state' = "COMMAND" => o_s2mm_addr' = o_mm2s_addr'
    <3>1. fsm_state' = "COMMAND" => StartCommand(in) \/ Command(in)
      BY <1>1, CameFrom
    <3>2. StartCommand(in) => known_cmd /\ o_s2mm_addr' = o_s2mm_addr /\ o_mm2s_addr' = o_mm2s_addr
      BY DEF StartCommand, dmaVars
    <3>3. Command(in) => /\ fsm_state = "COMMAND"
                         /\ o_s2mm_addr' = o_s2mm_addr /\ o_mm2s_addr' = o_mm2s_addr
      BY DEF Command
    <3> QED BY <3>1, <3>2, <3>3 DEF HostInv
  <2> QED BY <1>3, <1>8, <1>9, <2>2, <2>3, <2>4, <2>5 DEF HostInv
<1> QED BY <1>10, <1>11

-----------------------------------------------------------------------------
(* The data FIS of a read, word by word.                                   *)

\* The words of it that the device has sent.
Sent == IF Started THEN 0 ELSE dev_words

\* The device sends data only as its answer to a DMA read, and the words of
\* one data FIS after another.
LEMMA DataMoves ==
  ASSUME NEW in, NEW go, NEW wb, NEW fault, CalmCycle(go, wb, fault), link_up, link_up',
         Common(in, go), FrameInv, PhaseInv, EnvTypeOK
  PROVE  /\ DevSends(go, "DATA") => /\ Unseen = ReadAll /\ ~FisGoing /\ Sent < ReadWords
                                    /\ LastWord <=> Sent + 1 = ReadWords
                                    /\ Unseen' = ReadAll => Sent' = Sent + 1
         /\ ~DevSends(go, "DATA") /\ Unseen' = ReadAll
              => (FisGoing /\ Sent' = 0) \/ (Unseen = ReadAll /\ Sent' = Sent)
<1>1. /\ Device(go, fault) /\ (\A p \in go : CanMove(p)) /\ fault # "abort"
      /\ dev_words \in Nat
  BY DEF CalmCycle, Cycle, EnvTypeOK
<1>2. /\ dev_words' = IF "dev" \notin go \/ TakesData(go) THEN dev_words
                      ELSE IF LastWord THEN 0 ELSE dev_words + 1
      /\ ~FisLeaves(go) => dev_script' = ScriptAfter(go)
  BY <1>1, DeviceRegs
<1>3. FisGoing => Unseen = <<>>
  BY DEF PhaseInv
<1>4. FisLeaves(go) => FisGoing
  BY DEF Common, FisGoing
<1>5. Unseen = <<>> \/ Unseen \in {Reg, PioAll, PioRest, DmaAll, DmaRest, ReadAll}
  BY DEF PhaseInv, Answer
<1>6. "dev" \in go => dev_script # <<>>
  BY <1>1, MoversCan DEF DevCanMove
<1>7. ASSUME DevSends(go, "DATA")
      PROVE  /\ Unseen = ReadAll /\ ~FisGoing /\ Sent < ReadWords
             /\ LastWord <=> Sent + 1 = ReadWords
             /\ Unseen' = ReadAll => Sent' = Sent + 1
  <2>1. "dev" \in go /\ dev_script # <<>> /\ Head(dev_script) = "DATA"
    BY <1>6, <1>7 DEF DevSends
  <2>2. ~Started /\ ~TakesData(go)
    BY <2>1 DEF Started, FisItems, TakesData
  <2>3. Unseen = dev_script /\ Sent = dev_words
    BY <2>2 DEF Unseen, Sent
  <2>4. Unseen = ReadAll
    BY <1>5, <2>1, <2>3, ScriptParts
  <2>5. ~FisGoing
    BY <1>3, <2>4, ScriptParts
  <2>6. FisWords(Head(dev_script)) = ReadWords
    BY <2>1 DEF FisWords
  <2>7. Sent < ReadWords /\ (LastWord <=> Sent + 1 = ReadWords)
    BY <2>1, <2>3, <2>6 DEF FrameInv, LastWord
  <2>8. Unseen' = ReadAll => Sent' = Sent + 1
    <3>1. CASE LastWord
      <4>1. dev_script' = Reg /\ dev_words' = 0
        BY <1>2, <1>4, <2>1, <2>2, <2>3, <2>4, <2>5, <3>1, ScriptParts DEF ScriptAfter
      <4>2. ~Started'
        BY <4>1 DEF Started
      <4>3. Unseen' = Reg
        BY <4>1, <4>2 DEF Unseen
      <4> QED BY <4>3, ScriptParts
    <3>2. CASE ~LastWord
      <4>1. dev_script' = dev_script /\ dev_words' = dev_words + 1
        BY <1>2, <1>4, <2>1, <2>2, <2>5, <3>2 DEF ScriptAfter
      <4>2. ~Started'
        BY <2>1, <4>1 DEF Started, FisItems
      <4> QED BY <2>3, <4>1, <4>2 DEF Sent
    <3> QED BY <3>1, <3>2
  <2> QED BY <2>4, <2>5, <2>7, <2>8
<1>8. ASSUME ~DevSends(go, "DATA"), Unseen' = ReadAll
      PROVE  (FisGoing /\ Sent' = 0) \/ (Unseen = ReadAll /\ Sent' = Sent)
  <2>1. CASE Called(go)
    BY <1>4, <2>1 DEF Called, Sent
  <2>2. CASE ~FisLeaves(go) /\ DevMove(go)
    <3>1. Unseen = ReadAll
      <4>1. Lands(go) \/ DataEnds(go) => Unseen' = Tail(Unseen) /\ Unseen # <<>>
        BY DEF Lands, DataEnds
      <4>2. ~Lands(go) /\ ~DataEnds(go)
        BY <1>5, <1>8, <4>1, ScriptParts
      <4>3. ~Takes(go)
        <5>1. Takes(go) => Unseen \in {PioRest, DmaRest}
          BY <1>5, ScriptParts DEF Takes
        <5>2. Unseen \in {PioRest, DmaRest} => Unseen' # ReadAll
          BY <2>2, ScriptMoves, ScriptParts
        <5> QED BY <1>8, <5>1, <5>2
      <4> QED BY <1>8, <2>2, <4>2, <4>3 DEF DevMove, Quiet
    <3>2. CASE Started
      <4>1. Head(dev_script) \in FisItems /\ ~TakesData(go) /\ dev_words > 0
        BY <3>2 DEF Started, TakesData, FisItems
      <4>2. CASE "dev" \in go /\ LastWord
        BY <1>2, <3>1, <3>2, <4>1, <4>2 DEF Sent
      <4>3. CASE ~("dev" \in go /\ LastWord)
        <5>1. dev_script' = dev_script /\ dev_words' > 0
          BY <1>1, <1>2, <2>2, <4>1, <4>3 DEF ScriptAfter
        <5>2. Started'
          BY <3>2, <5>1 DEF Started
        <5> QED BY <3>1, <3>2, <5>2 DEF Sent
      <4> QED BY <3>1, <4>2, <4>3 DEF Sent
    <3>3. CASE ~Started
      <4>1. dev_script = ReadAll
        BY <3>1, <3>3 DEF Unseen
      <4>2. "dev" \notin go
        BY <1>8, <4>1, ScriptParts DEF DevSends
      <4>3. dev_script' = dev_script /\ dev_words' = dev_words
        BY <1>2, <2>2, <4>2 DEF ScriptAfter, TakesData
      <4>4. Started' = Started
        BY <4>3 DEF Started
      <4> QED BY <3>1, <4>3, <4>4 DEF Sent
    <3> QED BY <3>2, <3>3
  <2> QED BY <2>1, <2>2 DEF Common
<1> QED BY <1>7, <1>8

\* The words between the device and the engine: the one that completes the
\* FIS, and no other, is marked.
Marked(q, k) == \A j \in 1 .. Len(q) : q[j] <=> k + j = ReadWords

LEMMA MarkedTail ==
  ASSUME NEW q \in Seq(BOOLEAN), NEW k \in Nat, Marked(q, k), q # <<>>
  PROVE  /\ Head(q) <=> k + 1 = ReadWords
         /\ Tail(q) \in Seq(BOOLEAN) /\ Len(Tail(q)) = Len(q) - 1 /\ Len(q) >= 1
         /\ Marked(Tail(q), k + 1)
<1>1. /\ Len(q) \in Nat /\ Len(q) # 0 /\ Head(q) = q[1]
      /\ Tail(q) \in Seq(BOOLEAN) /\ Len(Tail(q)) = Len(q) - 1
      /\ \A j \in 1 .. Len(Tail(q)) : Tail(q)[j] = q[j + 1]
  BY HeadTailProperties, LenProperties, EmptySeq
<1>2. 1 \in 1 .. Len(q) /\ Len(q) >= 1
  BY <1>1
<1>3. Head(q) <=> k + 1 = ReadWords
  <2>1. q[1] <=> k + 1 = ReadWords
    BY <1>2 DEF Marked
  <2> QED BY <1>1, <2>1, Zenon
<1>4. ASSUME NEW j \in 1 .. Len(Tail(q)) PROVE Tail(q)[j] <=> (k + 1) + j = ReadWords
  <2>1. j + 1 \in 1 .. Len(q) /\ k + (j + 1) = (k + 1) + j
    BY <1>1
  <2>2. q[j + 1] <=> k + (j + 1) = ReadWords
    BY <2>1 DEF Marked
  <2> QED BY <1>1, <2>1, <2>2
<1> QED BY <1>1, <1>2, <1>3, <1>4, Zenon DEF Marked

LEMMA MarkedAppend ==
  ASSUME NEW q \in Seq(BOOLEAN), NEW k \in Nat, Marked(q, k),
         NEW b \in BOOLEAN, b <=> k + Len(q) + 1 = ReadWords
  PROVE  /\ Marked(q \o <<b>>, k) /\ Len(q \o <<b>>) = Len(q) + 1
         /\ Len(q) \in Nat
<1>1. <<b>> \in Seq(BOOLEAN) /\ Len(<<b>>) = 1 /\ <<b>>[1] = b
  OBVIOUS
<1>2. /\ Len(q) \in Nat /\ Len(q \o <<b>>) = Len(q) + 1
      /\ \A j \in 1 .. Len(q) + 1 : (q \o <<b>>)[j] = IF j <= Len(q) THEN q[j] ELSE <<b>>[j - Len(q)]
  BY <1>1, ConcatProperties, LenProperties
<1>3. ASSUME NEW j \in 1 .. Len(q) + 1 PROVE (q \o <<b>>)[j] <=> k + j = ReadWords
  <2>1. CASE j <= Len(q)
    <3>1. j \in 1 .. Len(q) /\ (q \o <<b>>)[j] = q[j]
      BY <1>2, <2>1
    <3> QED BY <3>1 DEF Marked
  <2>2. CASE ~(j <= Len(q))
    <3>1. j = Len(q) + 1
      BY <1>2, <2>2
    <3>2. (q \o <<b>>)[j] = b
      <4>1. (q \o <<b>>)[j] = <<b>>[j - Len(q)] /\ j - Len(q) = 1
        BY <1>2, <2>2, <3>1
      <4> QED BY <1>1, <4>1
    <3>3. k + j = k + Len(q) + 1
      BY <1>2, <3>1
    <3> QED BY <3>2, <3>3
  <2> QED BY <2>1, <2>2
<1> QED BY <1>2, <1>3 DEF Marked

LEMMA OneMore ==
  ASSUME NEW n \in Nat, NEW l \in Nat, NEW k \in Nat, NEW m \in Nat, n + l = k + m
  PROVE  l + 1 \in Nat /\ n + (l + 1) = k + m + 1
OBVIOUS

-----------------------------------------------------------------------------
(* Where the words go.                                                     *)

LEMMA ModUnique ==
  ASSUME NEW d \in Nat \ {0}, NEW m \in Int, NEW r \in 0 .. d - 1, NEW p \in Int, NEW t \in 0 .. d - 1,
         d * m + r = d * p + t
  PROVE  r = t
<1>1. d * (m - p) = t - r
  OBVIOUS
<1>2. PICK z \in Int : z = m - p
  OBVIOUS
<1>3. d * z < d /\ d * z > 0 - d
  BY <1>1, <1>2
<1>4. z >= 1 => d * z >= d
  OBVIOUS
<1>5. z <= 0 - 1 => d * z <= 0 - d
  OBVIOUS
<1>6. z = 0
  BY <1>2, <1>3, <1>4, <1>5
<1> QED BY <1>1, <1>2, <1>6

LEMMA ModAdd ==
  ASSUME NEW a \in Nat, NEW b \in Nat, NEW d \in Nat \ {0}
  PROVE  ((a % d) + b) % d = (a + b) % d
<1>1. \A x \in Nat : /\ x \div d \in Int /\ (x % d) \in 0 .. d - 1
                     /\ x = d * (x \div d) + (x % d)
  OBVIOUS
<1>2. PICK p \in Int, r \in 0 .. d - 1 : a = d * p + r /\ r = (a % d)
  BY <1>1
<1>3. PICK s \in Int, t \in 0 .. d - 1 : r + b = d * s + t /\ t = ((r + b) % d)
  <2>1. r + b \in Nat
    BY <1>2
  <2> QED BY <1>1, <2>1
<1>4. PICK e \in Int, u \in 0 .. d - 1 : a + b = d * e + u /\ u = ((a + b) % d)
  <2>1. a + b \in Nat
    OBVIOUS
  <2> QED BY <1>1, <2>1
<1>5. d * (p + s) + t = d * e + u
  <2>1. d * (p + s) = d * p + d * s
    BY <1>2, <1>3
  <2>2. PICK x \in Int, y \in Int, z \in Int : x = d * p /\ y = d * s /\ z = d * e
    BY <1>2, <1>3, <1>4
  <2>3. a = x + r /\ r + b = y + t /\ a + b = z + u /\ r \in Int /\ t \in Int /\ u \in Int
    BY <1>2, <1>3, <1>4, <2>2
  <2>4. x + y + t = z + u
    BY <2>2, <2>3
  <2> QED BY <2>1, <2>2, <2>4
<1>6. t = u
  <2>1. PICK m \in Int : m = p + s
    BY <1>2, <1>3
  <2>2. d * m + t = d * e + u
    BY <1>5, <2>1
  <2> QED BY <1>3, <1>4, <2>1, <2>2, ModUnique
<1> QED BY <1>2, <1>3, <1>4, <1>6

\* The addresses of the first k words.
Reached(k) == {(o_mm2s_addr + i * BusBytes) % AddrSpace : i \in 0 .. k - 1}

LEMMA ReachedStep ==
  ASSUME NEW k \in Nat
  PROVE  Reached(k + 1) = Reached(k) \cup {(o_mm2s_addr + k * BusBytes) % AddrSpace}
<1>1. 0 .. (k + 1) - 1 = (0 .. k - 1) \cup {k}
  OBVIOUS
<1> QED BY <1>1 DEF Reached

-----------------------------------------------------------------------------
(* The writing engine.                                                     *)

LEMMA BeatFacts ==
  ASSUME NEW go, NEW wb, NEW fault, CalmCycle(go, wb, fault)
  PROVE  /\ Beat(go) => s2mm.busy /\ ~s2mm.err /\ ~s2mm.last /\ rxq # <<>>
         /\ "s2mm" \in go => s2mm.busy /\ ~s2mm.err
BY DEF CalmCycle, Cycle, CanMove, Beat

\* What a cycle makes of its registers.
LEMMA S2mmMoves ==
  ASSUME NEW go, NEW wb, NEW fault, CalmCycle(go, wb, fault), s2mm \in Writer,
         o_s2mm_request \in BOOLEAN
  PROVE  /\ ~s2mm.busy =>
              /\ s2mm'.busy = o_s2mm_request /\ ~s2mm'.last /\ s2mm'.addr = o_s2mm_addr
         /\ s2mm.busy /\ ~s2mm.err /\ fault = "write_err" => s2mm'.err
         /\ s2mm.busy /\ ~s2mm.err /\ fault # "write_err" /\ Beat(go) =>
              /\ s2mm'.busy /\ s2mm'.last = Head(rxq)
              /\ s2mm'.addr = (s2mm.addr + BusBytes) % AddrSpace
         /\ s2mm.busy /\ ~s2mm.err /\ fault # "write_err" /\ ~Beat(go) =>
              \/ s2mm.last /\ ~s2mm'.busy
              \/ s2mm' = s2mm
<1>1. S2mm(go, fault) /\ fault # "abort"
  BY DEF CalmCycle, Cycle
<1>2. ASSUME ~s2mm.busy
      PROVE  s2mm'.busy = o_s2mm_request /\ ~s2mm'.last /\ s2mm'.addr = o_s2mm_addr
  <2>1. s2mm' = [EngineIdle(o_s2mm_addr) EXCEPT !.busy = o_s2mm_request /\ ~s2mm.busy]
    BY <1>1, <1>2 DEF S2mm
  <2>2. (o_s2mm_request /\ ~s2mm.busy) = o_s2mm_request
    <3>1. s2mm.busy \in BOOLEAN
      BY DEF Writer
    <3> QED BY <1>2, <3>1
  <2> QED BY <2>1, <2>2 DEF EngineIdle
<1>3. ASSUME s2mm.busy, ~s2mm.err, fault = "write_err" PROVE s2mm'.err
  <2>1. s2mm' = [EngineIdle(o_s2mm_addr) EXCEPT !.err = TRUE]
    BY <1>1, <1>3 DEF S2mm
  <2> QED BY <2>1 DEF EngineIdle
<1>4. ASSUME s2mm.busy, ~s2mm.err, fault # "write_err", Beat(go)
      PROVE  /\ s2mm'.busy /\ s2mm'.last = Head(rxq)
             /\ s2mm'.addr = (s2mm.addr + BusBytes) % AddrSpace
  <2>1. s2mm' = [s2mm EXCEPT !.last = Head(rxq), !.err = ReachesEnd,
                             !.addr = (@ + BusBytes) % AddrSpace]
    BY <1>1, <1>4 DEF S2mm
  <2> QED BY <1>4, <2>1 DEF Writer
<1>5. ASSUME s2mm.busy, ~s2mm.err, fault # "write_err", ~Beat(go)
      PROVE  (s2mm.last /\ ~s2mm'.busy) \/ s2mm' = s2mm
  <2>1. CASE "s2mm" \in go
    <3>1. s2mm.last
      BY <1>5, <2>1 DEF Beat
    <3>2. s2mm' = [s2mm EXCEPT !.busy = FALSE]
      BY <1>1, <1>5, <2>1 DEF S2mm
    <3> QED BY <3>1, <3>2 DEF Writer
  <2>2. CASE "s2mm" \notin go
    BY <1>1, <1>5, <2>2 DEF S2mm
  <2> QED BY <2>1, <2>2
<1> QED BY <1>2, <1>3, <1>4, <1>5

\* What it has stored by then.
LEMMA StoredMoves ==
  ASSUME NEW go, NEW wb, NEW fault, CalmCycle(go, wb, fault)
  PROVE  /\ known_cmd => stored' = {}
         /\ ~known_cmd /\ ~Beat(go) => stored' = stored
         /\ ~known_cmd /\ Beat(go) /\ fault # "write_err" => stored' = stored \cup {s2mm.addr}
BY DEF CalmCycle, Cycle, Moved

\* While it runs, or is about to, nothing is flushed.
LEMMA QueueMoves ==
  ASSUME NEW go, NEW wb, NEW fault, CalmCycle(go, wb, fault)
  PROVE  /\ RxDmaReset => rxq' = <<>>
         /\ ~RxDmaReset => rxq' = (IF Beat(go) THEN Tail(rxq) ELSE rxq)
                                  \o (IF DevSends(go, "DATA") THEN <<LastWord>> ELSE <<>>)
BY DEF CalmCycle, Cycle, S2mm

-----------------------------------------------------------------------------
(* A read, from the request to the signal.                                 *)

\* k words are in memory, in order, from the address asked for; the words of
\* the FIS between engine and device are the next ones.
Running(k) ==
  /\ stored = Reached(k) /\ s2mm.addr = (o_mm2s_addr + k * BusBytes) % AddrSpace
  /\ s2mm.last <=> k = ReadWords
  /\ k + Len(rxq) <= ReadWords
  /\ Marked(rxq, k)
  /\ FisGoing => k + Len(rxq) = 0
  /\ Unseen = ReadAll => k + Len(rxq) = Sent

\* An engine asked for has not begun; one that runs has stored a part; one at
\* rest has stored all.
ReadPhase ==
  \/ r_dma_fail \/ s2mm.err
  \/ o_s2mm_request /\ stored = {} /\ o_s2mm_addr = o_mm2s_addr /\ rxq = <<>>
  \/ s2mm.busy /\ \E k \in 0 .. ReadWords : Running(k)
  \/ ~o_s2mm_request /\ ~s2mm.busy /\ ReadLanded

ReadInv ==
  /\ fsm_state = "COMMAND" => stored = {}
  /\ fsm_state \in {"DMA_IN", "DMA_IN_FINAL"} => ReadPhase
  /\ NoSilentLoss

\* What a step inside a read keeps.
InRead(in, go, wb, fault) ==
  /\ CalmCycle(go, wb, fault) /\ Common(in, go) /\ link_up /\ link_up'
  /\ TypeOK /\ FrameInv /\ PhaseInv /\ EngineInv
  /\ ~known_cmd /\ (FisGoing' => FisGoing) /\ o_mm2s_addr' = o_mm2s_addr

\* The engine takes up its request.
LEMMA ReadBegins ==
  ASSUME NEW in, NEW go, NEW wb, NEW fault, InRead(in, go, wb, fault),
         o_s2mm_request, stored = {}, o_s2mm_addr = o_mm2s_addr, rxq = <<>>
  PROVE  s2mm'.busy /\ \E k \in 0 .. ReadWords : Running(k)'
<1>1. /\ CalmCycle(go, wb, fault) /\ Common(in, go) /\ link_up /\ link_up'
      /\ TypeOK /\ FrameInv /\ PhaseInv /\ EngineInv /\ EnvTypeOK
      /\ ~known_cmd /\ o_mm2s_addr' = o_mm2s_addr
  BY DEF InRead, TypeOK
<1>2. FisGoing /\ ~s2mm.busy
  BY <1>1 DEF EngineInv
<1>3. s2mm'.busy /\ ~s2mm'.last /\ s2mm'.addr = o_mm2s_addr
  <2>1. s2mm \in Writer /\ o_s2mm_request \in BOOLEAN
    BY <1>1 DEF EnvTypeOK, Writer, TypeOK, FsmTypeOK
  <2> QED BY <1>1, <1>2, <2>1, S2mmMoves
<1>4. ~Beat(go) /\ ~DevSends(go, "DATA")
  BY <1>1, <1>2, BeatFacts, DataMoves
<1>5. stored' = {}
  BY <1>1, <1>4, StoredMoves
<1>6. rxq' = <<>>
  <2>1. rxq' = <<>> \o <<>>
    BY <1>1, <1>4, QueueMoves DEF RxDmaReset
  <2>2. <<>> \in Seq(BOOLEAN)
    OBVIOUS
  <2> QED BY <2>1, <2>2, ConcatEmptySeq
<1>7. Unseen' = ReadAll => Sent' = 0
  <2>1. Unseen # ReadAll
    BY <1>1, <1>2, ScriptParts DEF PhaseInv
  <2> QED BY <1>1, <1>4, <2>1, DataMoves
<1>8. ReadWords \in Nat \ {0} /\ AddrSpace \in Nat \ {0} /\ BusBytes \in Nat
      /\ o_mm2s_addr \in 0 .. AddrSpace - 1
  BY <1>1, DeviceAssumption, AddrSpaceAssumption, BusBytesAssumption DEF TypeOK, FsmTypeOK
<1>9. Running(0)'
  <2>1. stored' = Reached(0)'
    <3>1. 0 .. 0 - 1 = {}
      OBVIOUS
    <3> QED BY <1>5, <3>1 DEF Reached
  <2>2. s2mm'.addr = (o_mm2s_addr' + 0 * BusBytes) % AddrSpace
    <3>1. o_mm2s_addr + 0 * BusBytes = o_mm2s_addr
      BY <1>8
    <3>2. (o_mm2s_addr % AddrSpace) = o_mm2s_addr
      BY <1>8
    <3> QED BY <1>1, <1>3, <3>1, <3>2
  <2>3. s2mm'.last <=> 0 = ReadWords
    BY <1>3, <1>8
  <2>4. Len(rxq') = 0
    BY <1>6
  <2>5. 0 + Len(rxq') <= ReadWords /\ 0 + Len(rxq') = 0
    BY <1>8, <2>4
  <2>6. Marked(rxq', 0)
    BY <2>4 DEF Marked
  <2> QED BY <1>7, <2>1, <2>2, <2>3, <2>5, <2>6 DEF Running
<1> QED BY <1>3, <1>8, <1>9

\* A cycle of a running engine: it meets an error, ends with all stored, or
\* is one word further or none.
LEMMA ReadRuns ==
  ASSUME NEW in, NEW go, NEW wb, NEW fault, InRead(in, go, wb, fault),
         s2mm.busy, ~s2mm.err, NEW k \in 0 .. ReadWords, Running(k)
  PROVE  \/ s2mm'.err
         \/ s2mm'.busy /\ \E n \in 0 .. ReadWords : Running(n)'
         \/ ~s2mm'.busy /\ ReadLanded'
<1>1. /\ CalmCycle(go, wb, fault) /\ Common(in, go) /\ link_up /\ link_up'
      /\ TypeOK /\ FrameInv /\ PhaseInv /\ EngineInv /\ EnvTypeOK
      /\ ~known_cmd /\ (FisGoing' => FisGoing) /\ o_mm2s_addr' = o_mm2s_addr
  BY DEF InRead, TypeOK
<1>2. /\ s2mm \in Writer /\ rxq \in Seq(BOOLEAN) /\ dev_words \in Nat
      /\ o_s2mm_request \in BOOLEAN
      /\ ReadWords \in Nat \ {0} /\ AddrSpace \in Nat \ {0} /\ BusBytes \in Nat
      /\ o_mm2s_addr \in 0 .. AddrSpace - 1
  BY <1>1, DeviceAssumption, AddrSpaceAssumption, BusBytesAssumption
     DEF EnvTypeOK, Writer, TypeOK, FsmTypeOK
<1>3. CASE fault = "write_err"
  BY <1>1, <1>2, <1>3, S2mmMoves
<1>4. CASE fault # "write_err" /\ ~Beat(go) /\ s2mm' # s2mm
  <2>1. s2mm.last /\ ~s2mm'.busy
    BY <1>1, <1>2, <1>4, S2mmMoves
  <2>2. stored' = stored
    BY <1>1, <1>4, StoredMoves
  <2>3. k = ReadWords /\ stored = Reached(k)
    BY <2>1 DEF Running
  <2>4. ReadLanded'
    BY <1>1, <2>2, <2>3 DEF ReadLanded, Reached
  <2> QED BY <2>1, <2>4
<1>5. CASE fault # "write_err" /\ (Beat(go) \/ s2mm' = s2mm)
  <2> PICK n : n \in Nat /\ n = IF Beat(go) THEN k + 1 ELSE k
    BY <1>2
  <2>1. Sent \in Nat /\ Len(rxq) \in Nat
    BY <1>2, LenProperties DEF Sent
  <2>2. DevSends(go, "DATA") => /\ Unseen = ReadAll /\ ~FisGoing /\ k + Len(rxq) = Sent
                                /\ Sent < ReadWords /\ (LastWord <=> Sent + 1 = ReadWords)
                                /\ Unseen' = ReadAll => Sent' = Sent + 1
    BY <1>1, DataMoves DEF Running
  <2>3. /\ Beat(go) \in BOOLEAN /\ (Beat(go) => rxq # <<>>)
        /\ DevSends(go, "DATA") \in BOOLEAN
        /\ LastWord \in BOOLEAN
    BY <1>1, BeatFacts DEF Beat, DevSends, LastWord
  <2>4. ~RxDmaReset
    BY DEF RxDmaReset
  <2>5. rxq' = (IF Beat(go) THEN Tail(rxq) ELSE rxq)
               \o (IF DevSends(go, "DATA") THEN <<LastWord>> ELSE <<>>)
    BY <1>1, <2>4, QueueMoves
  <2>6. /\ Marked(rxq', n) /\ n \in Nat /\ Len(rxq') \in Nat
        /\ n + Len(rxq') = k + Len(rxq) + IF DevSends(go, "DATA") THEN 1 ELSE 0
    <3>1. PICK t : t = IF Beat(go) THEN Tail(rxq) ELSE rxq
      OBVIOUS
    <3>2. /\ t \in Seq(BOOLEAN) /\ Marked(t, n)
          /\ Len(t) \in Nat /\ n + Len(t) = k + Len(rxq)
      <4>1. k \in Nat /\ Marked(rxq, k)
        BY <1>2 DEF Running
      <4>2. CASE Beat(go)
        <5>1. /\ Len(Tail(rxq)) = Len(rxq) - 1 /\ Len(rxq) >= 1
              /\ Marked(Tail(rxq), k + 1) /\ Tail(rxq) \in Seq(BOOLEAN)
          BY <1>2, <2>3, <4>1, <4>2, MarkedTail
        <5>2. t = Tail(rxq) /\ n = k + 1
          BY <3>1, <4>2
        <5> QED BY <2>1, <4>1, <5>1, <5>2
      <4>3. CASE ~Beat(go)
        BY <1>2, <2>1, <3>1, <4>1, <4>3
      <4> QED BY <4>2, <4>3
    <3>3. CASE DevSends(go, "DATA")
      <4>1. rxq' = t \o <<LastWord>>
        BY <2>5, <3>1, <3>3
      <4>2. LastWord <=> n + Len(t) + 1 = ReadWords
        BY <2>2, <3>2, <3>3
      <4>3. Marked(rxq', n) /\ Len(rxq') = Len(t) + 1
        BY <2>3, <3>2, <4>1, <4>2, MarkedAppend
      <4>4. Len(t) + 1 \in Nat /\ n + (Len(t) + 1) = k + Len(rxq) + 1
        BY <1>2, <2>1, <3>2, OneMore
      <4> QED BY <3>3, <4>3, <4>4
    <3>4. CASE ~DevSends(go, "DATA")
      <4>1. rxq' = t
        BY <2>5, <3>1, <3>2, <3>4, ConcatEmptySeq
      <4>2. k + Len(rxq) + 0 = k + Len(rxq)
        BY <1>2, <2>1
      <4> QED BY <3>2, <3>4, <4>1, <4>2
    <3> QED BY <3>3, <3>4
  <2>7. n + Len(rxq') <= ReadWords /\ n \in 0 .. ReadWords
    <3>1. k + Len(rxq) + (IF DevSends(go, "DATA") THEN 1 ELSE 0) <= ReadWords
      <4>1. k + Len(rxq) <= ReadWords
        BY DEF Running
      <4> QED BY <1>2, <2>1, <2>2, <4>1
    <3> QED BY <1>2, <2>6, <3>1
  <2>8. FisGoing' => n + Len(rxq') = 0
    <3> SUFFICES ASSUME FisGoing' PROVE n + Len(rxq') = 0
      OBVIOUS
    <3>1. FisGoing /\ k + Len(rxq) = 0 /\ ~DevSends(go, "DATA")
      BY <1>1, <2>2 DEF Running
    <3> QED BY <2>1, <2>6, <3>1
  <2>9. Unseen' = ReadAll => n + Len(rxq') = Sent'
    <3> SUFFICES ASSUME Unseen' = ReadAll PROVE n + Len(rxq') = Sent'
      OBVIOUS
    <3>1. CASE DevSends(go, "DATA")
      <4> QED BY <2>2, <2>6, <3>1
    <3>2. CASE ~DevSends(go, "DATA")
      <4>1. (FisGoing /\ Sent' = 0) \/ (Unseen = ReadAll /\ Sent' = Sent)
        BY <1>1, <3>2, DataMoves
      <4>2. k + Len(rxq) = Sent'
        BY <4>1 DEF Running
      <4> QED BY <2>1, <2>6, <3>2, <4>2
    <3> QED BY <3>1, <3>2
  <2>10. stored' = Reached(n)' /\ s2mm'.addr = (o_mm2s_addr' + n * BusBytes) % AddrSpace
    <3>1. stored = Reached(k) /\ s2mm.addr = (o_mm2s_addr + k * BusBytes) % AddrSpace
      BY DEF Running
    <3>2. \A i \in Nat : Reached(i)' = Reached(i)
      BY <1>1 DEF Reached
    <3>3. CASE Beat(go)
      <4>1. stored' = Reached(k + 1)
        <5>1. stored' = stored \cup {s2mm.addr}
          BY <1>1, <1>5, <3>3, StoredMoves
        <5>2. k \in Nat
          BY <1>2
        <5> QED BY <3>1, <5>1, <5>2, ReachedStep
      <4>2. s2mm'.addr = (s2mm.addr + BusBytes) % AddrSpace
        BY <1>1, <1>2, <1>5, <3>3, S2mmMoves
      <4>3. PICK x \in Nat : x = o_mm2s_addr + k * BusBytes
        BY <1>2
      <4>4. ((x % AddrSpace) + BusBytes) % AddrSpace = (x + BusBytes) % AddrSpace
        BY <1>2, <4>3, ModAdd
      <4>5. x + BusBytes = o_mm2s_addr + (k + 1) * BusBytes
        <5>1. (k + 1) * BusBytes = k * BusBytes + BusBytes
          BY <1>2
        <5>2. PICK y \in Nat : y = k * BusBytes
          BY <1>2
        <5> QED BY <1>2, <4>3, <5>1, <5>2
      <4>6. s2mm'.addr = (o_mm2s_addr' + (k + 1) * BusBytes) % AddrSpace
        BY <1>1, <3>1, <4>2, <4>3, <4>4, <4>5
      <4> QED BY <3>2, <3>3, <4>1, <4>6
    <3>4. CASE ~Beat(go)
      <4>1. stored' = stored
        BY <1>1, <3>4, StoredMoves
      <4>2. s2mm' = s2mm
        BY <1>5, <3>4
      <4> QED BY <1>1, <3>1, <3>2, <3>4, <4>1, <4>2
    <3> QED BY <3>3, <3>4
  <2>11. s2mm'.busy /\ (s2mm'.last <=> n = ReadWords)
    <3>1. CASE Beat(go)
      <4>1. s2mm'.busy /\ s2mm'.last = Head(rxq)
        BY <1>1, <1>2, <1>5, <3>1, S2mmMoves
      <4>2. Head(rxq) <=> k + 1 = ReadWords
        <5>1. k \in Nat /\ Marked(rxq, k)
          BY <1>2 DEF Running
        <5> QED BY <1>2, <2>3, <3>1, <5>1, MarkedTail
      <4>3. n = k + 1
        BY <3>1
      <4> QED BY <4>1, <4>2, <4>3, Zenon
    <3>2. CASE ~Beat(go)
      BY <1>5, <3>2 DEF Running
    <3> QED BY <3>1, <3>2
  <2>12. Running(n)'
    <3> QED BY <2>6, <2>7, <2>8, <2>9, <2>10, <2>11 DEF Running
  <2> QED BY <2>7, <2>11, <2>12
<1> QED BY <1>3, <1>4, <1>5

\* A cycle of the two states in which a read waits for its data.
LEMMA ReadPhaseStep ==
  ASSUME NEW in, NEW go, NEW wb, NEW fault, InRead(in, go, wb, fault), Wired(in, go, wb),
         DmaIn(in) \/ DmaInFinal(in), DmaFail(in), ReadPhase
  PROVE  ReadPhase'
<1>1. /\ CalmCycle(go, wb, fault) /\ Common(in, go) /\ EngineInv /\ ~known_cmd
      /\ o_mm2s_addr' = o_mm2s_addr
  BY DEF InRead
<1>2. ~o_s2mm_request => ~o_s2mm_request'
  BY DEF DmaIn, DmaInFinal, DropS2mm, dmaVars
<1>3. r_dma_fail \/ s2mm.err => r_dma_fail'
  BY DEF DmaFail, Wired
<1>4. CASE r_dma_fail \/ s2mm.err
  BY <1>3, <1>4 DEF ReadPhase
<1>5. CASE o_s2mm_request /\ stored = {} /\ o_s2mm_addr = o_mm2s_addr /\ rxq = <<>>
  BY <1>5, ReadBegins DEF ReadPhase
<1>6. CASE ~s2mm.err /\ s2mm.busy /\ \E k \in 0 .. ReadWords : Running(k)
  <2>1. PICK k \in 0 .. ReadWords : Running(k)
    BY <1>6
  <2>2. \/ s2mm'.err
        \/ s2mm'.busy /\ \E n \in 0 .. ReadWords : Running(n)'
        \/ ~s2mm'.busy /\ ReadLanded'
    BY <1>6, <2>1, ReadRuns
  <2>3. ~o_s2mm_request'
    BY <1>1, <1>2, <1>6 DEF EngineInv
  <2> QED BY <2>2, <2>3 DEF ReadPhase
<1>7. CASE ~o_s2mm_request /\ ~s2mm.busy /\ ReadLanded
  <2>1. ~o_s2mm_request' /\ ~s2mm'.busy
    BY <1>1, <1>2, <1>7 DEF Common, EnginesMove
  <2>2. stored' = stored
    BY <1>1, <1>7, BeatFacts, StoredMoves
  <2>3. ReadLanded'
    BY <1>1, <1>7, <2>2 DEF ReadLanded
  <2> QED BY <2>1, <2>3 DEF ReadPhase
<1> QED BY <1>4, <1>5, <1>6, <1>7 DEF ReadPhase

LEMMA ReadStep ==
  ASSUME NEW in, NEW go, NEW wb, NEW fault, CalmCycle(go, wb, fault),
         Wired(in, go, wb), Tick(in), Inv, HostInv, ReadInv, link_up, TypeOK'
  PROVE  ReadInv'
<1>1. /\ TypeOK /\ BusyInv /\ LinkInv /\ FrameInv /\ FisInv /\ PhaseInv /\ EngineInv
      /\ cmd_type \in CmdTypes /\ Common(in, go) /\ link_up' /\ ~Abort(in)
  BY CommonStep, LinkStep DEF Inv, CalmInv, TypeOK, FsmTypeOK
<1>2. /\ fsm_state' = "COMMAND" => StartCommand(in) \/ Command(in)
      /\ fsm_state' = "DMA_IN" => Command(in) \/ DmaIn(in)
      /\ fsm_state' = "DMA_IN_FINAL" => DmaIn(in) \/ DmaInFinal(in)
  BY <1>1, CameFrom
<1>3. /\ known_cmd => fsm_state = "IDLE"
      /\ return_to_idle' => fsm_state # "IDLE" /\ fsm_state' = "IDLE"
  BY <1>1, PulseFacts DEF BusyInv
<1>4. RunCommand(in) => DmaFail(in)
  BY DEF RunCommand
<1>5. fsm_state # "IDLE" => RunCommand(in)
  BY <1>1 DEF Tick, MasterFsm, AbortCommand, StartCommand, IdleCycle
<1>6. ASSUME fsm_state \in {"DMA_IN", "DMA_IN_FINAL"}
      PROVE  /\ DmaIn(in) \/ DmaInFinal(in)
             /\ InRead(in, go, wb, fault)
             /\ ReadPhase'
  <2>1. DmaIn(in) \/ DmaInFinal(in)
    BY <1>5, <1>6 DEF RunCommand, Command, WaitReg, PioInSetup, PioRxData, PioOutSetup,
                      PioTxData, DmaOutSetup, DmaTxData
  <2>2. o_mm2s_addr' = o_mm2s_addr /\ Announced' = Announced
    BY <2>1 DEF DmaIn, DmaInFinal, dmaVars, tranVars, Announced
  <2>3. FisGoing' => FisGoing
    BY <1>1, <1>6, <2>2 DEF Common, FisInv
  <2>4. InRead(in, go, wb, fault)
    BY <1>1, <1>3, <1>6, <2>2, <2>3 DEF InRead
  <2>5. ReadPhase'
    BY <1>4, <1>5, <1>6, <2>1, <2>4, ReadPhaseStep DEF ReadInv
  <2> QED BY <2>1, <2>4, <2>5
<1>7. fsm_state' = "COMMAND" => stored' = {}
  <2>1. StartCommand(in) => stored' = {}
    BY StoredMoves DEF StartCommand
  <2>2. Command(in) => stored' = {}
    <3> SUFFICES ASSUME Command(in) PROVE stored' = {}
      OBVIOUS
    <3>1. fsm_state = "COMMAND" /\ stored = {}
      BY DEF Command, ReadInv
    <3>2. ~known_cmd /\ ~Beat(go)
      BY <1>1, <1>3, <3>1, BeatFacts DEF EngineInv
    <3> QED BY <3>1, <3>2, StoredMoves
  <2> QED BY <1>2, <2>1, <2>2
<1>8. fsm_state' \in {"DMA_IN", "DMA_IN_FINAL"} => ReadPhase'
  <2>1. fsm_state' = "DMA_IN" /\ Command(in) => ReadPhase'
    <3> SUFFICES ASSUME fsm_state' = "DMA_IN", Command(in) PROVE ReadPhase'
      OBVIOUS
    <3>1. fsm_state = "COMMAND" /\ stored = {}
      BY DEF Command, ReadInv
    <3>2. o_tran_req
      BY <1>1, <3>1 DEF FisInv, Announced
    <3>3. ~known_cmd /\ ~Beat(go) /\ ~s2mm.busy /\ ~o_s2mm_request
      BY <1>1, <1>3, <3>1, BeatFacts DEF EngineInv
    <3>4. stored' = {} /\ rxq' = <<>>
      BY <3>1, <3>3, StoredMoves, QueueMoves DEF RxDmaReset
    <3>5. cmd_type = "DMA_READ"
      BY <1>1, <3>2 DEF Command, Goto, CmdTypes
    <3>6. o_s2mm_request' /\ o_s2mm_addr' = o_mm2s_addr'
      BY <3>1, <3>2, <3>5 DEF Command, HostInv
    <3> QED BY <3>4, <3>6 DEF ReadPhase
  <2>2. DmaIn(in) \/ DmaInFinal(in) => fsm_state \in {"DMA_IN", "DMA_IN_FINAL"}
    BY DEF DmaIn, DmaInFinal
  <2> QED BY <1>2, <1>6, <2>1, <2>2
<1>9. NoSilentLoss'
  <2> SUFFICES ASSUME return_to_idle', cmd_type' = "DMA_READ", ~r_dma_fail' PROVE ReadLanded'
    BY DEF NoSilentLoss
  <2>1. fsm_state # "IDLE" /\ fsm_state' = "IDLE" /\ cmd_type = "DMA_READ"
    BY <1>1, <1>3 DEF Common
  <2>2. fsm_state \in {"COMMAND", "DMA_IN", "DMA_IN_FINAL"}
    BY <1>1, <2>1 DEF PhaseInv, OpState
  <2>3. fsm_state # "COMMAND"
    <3> SUFFICES ASSUME fsm_state = "COMMAND" PROVE FALSE
      OBVIOUS
    <3>1. o_tran_req /\ Command(in)
      BY <1>1, <1>5 DEF FisInv, Announced, RunCommand, WaitReg, PioInSetup, PioRxData, PioOutSetup,
                        PioTxData, DmaIn, DmaInFinal, DmaOutSetup, DmaTxData
    <3> QED BY <2>1, <3>1 DEF Command, Goto
  <2>4. DmaInFinal(in) /\ ~s2mm.busy
    BY <1>6, <2>1, <2>2, <2>3 DEF DmaIn, DmaInFinal, Goto, Stay, Wired
  <2>5. ReadPhase
    BY <2>2, <2>3 DEF ReadInv
  <2>6. ~r_dma_fail /\ ~s2mm.err
    BY <1>4, <1>5, <2>1 DEF DmaFail, Wired
  <2>7. ~o_s2mm_request
    <3>1. fsm_state = "DMA_IN_FINAL"
      BY <2>4 DEF DmaInFinal
    <3> QED BY <1>1, <3>1 DEF EngineInv, FisInv
  <2>8. ReadLanded
    BY <2>4, <2>5, <2>6, <2>7 DEF ReadPhase
  <2>9. stored' = stored /\ o_mm2s_addr' = o_mm2s_addr
    <3>1. ~known_cmd /\ ~Beat(go)
      BY <1>3, <2>1, <2>4, BeatFacts
    <3> QED BY <2>4, <3>1, StoredMoves DEF DmaInFinal, dmaVars
  <2> QED BY <2>8, <2>9 DEF ReadLanded
<1> QED BY <1>7, <1>8, <1>9 DEF ReadInv

-----------------------------------------------------------------------------
(* The bytes of a write: what the sequencer has still to announce, what is *)
(* on its way, and what the device is owed.                                *)

\* A driver that waits for the end of the status FIS, and counts whose bytes
\* fit in the 16 bits of dma_length.
Orderly == ~DevAborts /\ ~Impatient /\ \A n \in Counts : n < 128

OutInv ==
  /\ Unseen = DmaAll => dev_left = dma_length /\ outq = <<>>
  /\ Unseen = DmaRest /\ outq # <<>> => dev_left = dma_length + Head(outq)
  /\ Unseen = Reg => dma_length = 0 /\ dev_left = 0 /\ outq = <<>>

TxInv ==
  /\ dev_left = dma_length + o_tran_len
  /\ mm2s.busy => mm2s.len = o_tran_len
  /\ outq # <<>> => Head(outq) = o_tran_len

WriteInv ==
  /\ r_count < 128
  /\ known_cmd \/ FisGoing => dev_script = <<>>
  /\ FisGoing => dma_length = r_count * SectorBytes
  /\ fsm_state = "DMA_OUT_SETUP" => OutInv
  /\ fsm_state = "DMA_TXDATA" => TxInv
  /\ DmaWriteExact

\* What the device is owed after a cycle.
LEMMA OwedMoves ==
  ASSUME NEW go, NEW wb, NEW fault, CalmCycle(go, wb, fault), link_up, link_up'
  PROVE  dev_left' = IF FisLeaves(go) THEN r_count * SectorBytes
                     ELSE IF TakesData(go) THEN dev_left - Settled ELSE dev_left
BY DEF CalmCycle, Cycle, Device

\* The reading engine takes the announced length when it starts, keeps it
\* while it runs and leaves a data FIS of that length.
LEMMA Mm2sMoves ==
  ASSUME NEW go, NEW wb, NEW fault, CalmCycle(go, wb, fault), TypeOK, EngineInv
  PROVE  /\ ~mm2s.busy /\ mm2s'.busy => mm2s'.len = o_tran_len
         /\ mm2s.busy /\ mm2s'.busy => mm2s'.len = mm2s.len
         /\ outq' # <<>> => \/ outq' = outq /\ ~TakesData(go)
                            \/ mm2s.busy /\ ~mm2s'.busy /\ Head(outq') = mm2s.len
<1>1. /\ Mm2s(go, fault) /\ fault # "abort" /\ (\A p \in go : CanMove(p))
      /\ mm2s \in Reader /\ outq \in Seq(0 .. MaxDataFis)
  BY DEF CalmCycle, Cycle, TypeOK, EnvTypeOK, Reader
<1>2. ~mm2s.busy /\ mm2s'.busy => mm2s'.len = o_tran_len
  <2> SUFFICES ASSUME ~mm2s.busy, mm2s'.busy PROVE mm2s'.len = o_tran_len
    OBVIOUS
  <2>1. ~mm2s.err
    BY DEF EngineInv
  <2>2. mm2s' = [busy |-> o_mm2s_request, err |-> FALSE, addr |-> o_mm2s_addr, len |-> o_tran_len]
    BY <1>1, <2>1 DEF Mm2s
  <2> QED BY <2>2
<1>3. mm2s.busy /\ mm2s'.busy => mm2s'.len = mm2s.len
  <2> SUFFICES ASSUME mm2s.busy, mm2s'.busy PROVE mm2s'.len = mm2s.len
    OBVIOUS
  <2>1. ~mm2s.err
    <3>1. mm2s.err => mm2s' = ReaderIdle
      BY <1>1 DEF Mm2s
    <3> QED BY <3>1 DEF ReaderIdle
  <2>2. \/ mm2s' = [mm2s EXCEPT !.err = TRUE]
        \/ mm2s' = [mm2s EXCEPT !.busy = "mm2s" \notin go]
    BY <1>1, <2>1 DEF Mm2s
  <2> QED BY <1>1, <2>2 DEF Reader
<1>4. outq' # <<>> => \/ outq' = outq /\ ~TakesData(go)
                      \/ mm2s.busy /\ ~mm2s'.busy /\ Head(outq') = mm2s.len
  <2> SUFFICES ASSUME outq' # <<>>, ~(outq' = outq /\ ~TakesData(go))
               PROVE  mm2s.busy /\ ~mm2s'.busy /\ Head(outq') = mm2s.len
    OBVIOUS
  <2>1. mm2s.busy /\ ~mm2s'.busy
    BY EnginesStep DEF EnginesMove
  <2>2. outq = <<>>
    BY <2>1 DEF EngineInv
  <2>3. ~TakesData(go)
    BY <1>1, <2>2, MoversCan DEF TakesData, DevCanMove
  <2>4. ChunkDone(go, fault)
    <3> SUFFICES ASSUME ~ChunkDone(go, fault) PROVE outq' = <<>>
      OBVIOUS
    <3> QED BY <1>1, <2>2, <2>3, ConcatEmptySeq DEF Mm2s
  <2>5. <<mm2s.len>> \in Seq(0 .. MaxDataFis)
    BY <1>1, ShortSeqs DEF Reader
  <2>6. outq' = <<mm2s.len>>
    BY <1>1, <2>2, <2>3, <2>4, <2>5, ConcatEmptySeq DEF Mm2s
  <2> QED BY <2>1, <2>6
<1> QED BY <1>2, <1>3, <1>4

\* While a device holds no script nothing is received, and what it is to
\* answer comes from the register FIS alone.
LEMMA EmptyScript ==
  ASSUME NEW in, NEW go, NEW wb, NEW fault, CalmCycle(go, wb, fault), link_up, link_up',
         Wired(in, go, wb), EnvTypeOK, dev_script = <<>>, dev_words = 0, ~DevAborts
  PROVE  /\ ~in.pkt.valid
         /\ ~FisLeaves(go) => dev_script' = <<>>
         /\ FisLeaves(go) => Unseen' = Script(m_data)
<1>1. Device(go, fault) /\ (\A p \in go : CanMove(p)) /\ fault # "abort"
  BY DEF CalmCycle, Cycle
<1>2. "dev" \notin go
  BY <1>1, MoversCan DEF DevCanMove
<1>3. ~in.pkt.valid
  BY <1>2, PacketFacts DEF Wired
<1>4. ScriptAfter(go) = <<>> /\ Begun(go) = <<>> /\ dev_words' = 0
  BY <1>1, <1>2, DeviceRegs DEF ScriptAfter, Begun, TakesData
<1>5. FisLeaves(go) => Unseen' = Script(m_data)
  <2> SUFFICES ASSUME FisLeaves(go) PROVE Unseen' = Script(m_data)
    OBVIOUS
  <2>1. dev_script' = Begun(go) \o Script(m_data)
    BY <1>1 DEF Device
  <2>2. dev_script' = Script(m_data)
    BY <1>4, <2>1, ScriptTypes, ConcatEmptySeq
  <2>3. ~Started'
    BY <1>4 DEF Started
  <2> QED BY <2>2, <2>3 DEF Unseen
<1> QED BY <1>1, <1>3, <1>4, <1>5, DeviceRegs

\* The count is the host's, or zero from a FIS.
LEMMA CountMoves ==
  ASSUME NEW in, NEW go, NEW wb, NEW fault, CalmCycle(go, wb, fault), Wired(in, go, wb),
         Tick(in), Orderly, r_count < 128
  PROVE  /\ r_count' < 128
         /\ ~in.pkt.valid => RxCount(in) = r_count
         /\ StartCommand(in) \/ RunCommand(in) => r_count' = RxCount(in)
<1>1. in.pkt.valid => in.pkt.count = 0
  BY DEF Wired, Packet, NoPkt
<1>2. RxCount(in) < 128
  BY <1>1 DEF RxCount
<1>3. ~in.pkt.valid => RxCount(in) = r_count
  BY DEF RxCount
<1>4. StartCommand(in) \/ RunCommand(in) => r_count' = RxCount(in)
  BY DEF StartCommand, RunCommand, RxStatus
<1>5. r_count' < 128
  <2>1. CASE AbortCommand(in)
    BY <2>1 DEF AbortCommand, regVars
  <2>2. CASE StartCommand(in) \/ RunCommand(in)
    BY <1>2, <1>4, <2>2
  <2>3. CASE IdleCycle(in)
    <3>1. in.wb.a = "COUNT" => in.wb.count < 128
      BY DriverFacts DEF Orderly, Wired
    <3> QED BY <1>2, <2>3, <3>1 DEF IdleCycle, Write
  <2> QED BY <2>1, <2>2, <2>3 DEF Tick, MasterFsm
<1> QED BY <1>3, <1>4, <1>5

\* The bytes to send are fixed when the command is announced, and the device
\* hears of the same count when it is called.
LEMMA LengthStep ==
  ASSUME NEW in, NEW go, NEW wb, NEW fault, CalmCycle(go, wb, fault), Wired(in, go, wb),
         Tick(in), Inv, WriteInv, Orderly, link_up
  PROVE  /\ known_cmd' \/ FisGoing' => dev_script' = <<>>
         /\ FisGoing' => dma_length' = r_count' * SectorBytes
<1>1. /\ TypeOK /\ EnvTypeOK /\ FsmTypeOK /\ BusyInv /\ LinkInv /\ FrameInv /\ FisInv /\ PhaseInv
      /\ Parts /\ link_up' /\ ~Abort(in)
  BY LinkStep DEF Inv, CalmInv, TypeOK, Parts
<1>2. dev_script = <<>> => /\ ~in.pkt.valid /\ RxCount(in) = r_count
                           /\ ~FisLeaves(go) => dev_script' = <<>>
  BY <1>1, EmptyScript, CountMoves DEF Orderly, FrameInv, WriteInv
<1>3. /\ (m_valid' \/ ~m_last') <=> FisGoing /\ ~FisLeaves(go)
      /\ FisLeaves(go) => m_valid
  <2>1. "tx" \in go => m_valid
    BY DEF CalmCycle, Cycle, CanMove
  <2> QED BY <1>1, <2>1, StreamStep DEF Tick, FisLeaves
<1>4. known_cmd' => dev_script' = <<>>
  <2> SUFFICES ASSUME known_cmd' PROVE dev_script' = <<>>
    OBVIOUS
  <2>1. fsm_state = "IDLE" /\ wb.a = "CMD"
    BY <1>1, PulseFacts DEF Wired
  <2>2. s_sop
    BY <2>1, DriverFacts DEF Orderly
  <2>3. ~FisGoing /\ Unseen = <<>>
    BY <1>1, <2>1, IdleFacts
  <2>4. dev_script = <<>>
    BY <1>1, <2>2, <2>3 DEF FrameInv, Unseen
  <2> QED BY <1>2, <1>3, <2>3, <2>4 DEF FisGoing
<1>5. Announced' => /\ StartCommand(in) \/ (FisGoing /\ ~m_valid)
                    /\ ~FisLeaves(go)
                    /\ dev_script = <<>>
  <2> SUFFICES ASSUME Announced' PROVE /\ StartCommand(in) \/ (FisGoing /\ ~m_valid)
                                       /\ ~FisLeaves(go)
                                       /\ dev_script = <<>>
    OBVIOUS
  <2>1. CASE StartCommand(in)
    <3>1. fsm_state = "IDLE" /\ known_cmd
      BY <2>1 DEF StartCommand
    <3>2. ~m_valid
      BY <1>1, <3>1, IdleFacts
    <3> QED BY <1>3, <2>1, <3>1, <3>2 DEF WriteInv
  <2>2. CASE ~StartCommand(in)
    <3>1. Announced
      <4>1. CASE IdleCycle(in)
        BY <4>1 DEF IdleCycle, tranVars, Announced
      <4>2. CASE RunCommand(in)
        <5>1. Command(in) => ~o_tran_req'
          BY DEF Command
        <5>2. WaitReg(in) \/ PioOutSetup(in) => Announced
          BY <1>1 DEF WaitReg, PioOutSetup, Announced
        <5>3. PioTxData(in) \/ DmaIn(in) \/ DmaInFinal(in) \/ DmaTxData(in)
                \/ PioInSetup(in) \/ PioRxData(in) => Announced
          BY <1>1 DEF PioTxData, DmaIn, DmaInFinal, DmaTxData, PioInSetup, PioRxData,
                      DropTran, tranVars, Announced, FsmTypeOK
        <5>4. DmaOutSetup(in) => ~Announced'
          BY DEF DmaOutSetup, Announced
        <5> QED BY <4>2, <5>1, <5>2, <5>3, <5>4 DEF RunCommand, Announced
      <4> QED BY <1>1, <2>2, <4>1, <4>2 DEF Tick, MasterFsm, AbortCommand
    <3>2. FisGoing /\ ~m_valid
      BY <1>1, <3>1 DEF FisInv, FisGoing
    <3> QED BY <1>3, <3>2 DEF WriteInv
  <2> QED BY <2>1, <2>2
<1>6. FisGoing' => ~FisLeaves(go) /\ dev_script = <<>> /\ (FisGoing \/ StartCommand(in))
  <2>1. FisGoing' => Announced' \/ (FisGoing /\ ~FisLeaves(go))
    BY <1>3 DEF FisGoing
  <2> QED BY <1>5, <2>1 DEF WriteInv
<1>7. FisGoing' => dma_length' = r_count' * SectorBytes
  <2> SUFFICES ASSUME FisGoing' PROVE dma_length' = r_count' * SectorBytes
    OBVIOUS
  <2>1. CASE StartCommand(in)
    <3>1. r_count' = r_count /\ r_count \in Nat /\ r_count < 128
      BY <1>1, <1>2, <1>6, <2>1, CountMoves DEF WriteInv, FsmTypeOK
    <3>2. dma_length' = (r_count * SectorBytes) % LenSpace
      BY <2>1 DEF StartCommand
    <3> QED BY <3>1, <3>2 DEF SectorBytes, LenSpace
  <2>2. CASE ~StartCommand(in)
    <3>1. FisGoing /\ dma_length = r_count * SectorBytes /\ fsm_state # "IDLE"
      BY <1>1, <1>6, <2>2 DEF WriteInv, FisInv
    <3>2. RunCommand(in)
      BY <1>1, <2>2, <3>1 DEF Tick, MasterFsm, AbortCommand, IdleCycle
    <3>3. r_count' = r_count
      BY <1>2, <1>6, <3>2, CountMoves DEF WriteInv
    <3>4. dma_length' = dma_length
      <4>1. ~Fis(in, "DMA_ACTIVATE")
        BY <1>2, <1>6 DEF Fis
      <4> QED BY <3>2, <4>1 DEF RunCommand, Command, WaitReg, PioInSetup, PioRxData, PioOutSetup,
               PioTxData, DmaIn, DmaInFinal, DmaOutSetup, DmaTxData, LeftAfter, tranVars
    <3> QED BY <3>1, <3>3, <3>4
  <2> QED BY <2>1, <2>2
<1> QED BY <1>2, <1>4, <1>6, <1>7

\* What a cycle of a write finds, besides its state.
InWrite(in, go, wb, fault) ==
  /\ CalmCycle(go, wb, fault) /\ Common(in, go) /\ link_up /\ link_up'
  /\ TypeOK /\ Parts /\ FrameInv /\ Wired(in, go, wb) /\ WriteInv /\ Orderly

\* The device settles a data FIS: what it is still owed is what has not been
\* announced, and it asks again or ends by that.
LEMMA Settles ==
  ASSUME NEW in, NEW go, NEW wb, NEW fault, InWrite(in, go, wb, fault),
         ~FisGoing, ~mm2s.busy, Unseen = DmaRest, TakesData(go),
         outq # <<>> => dev_left = dma_length + Head(outq),
         dma_length' = dma_length
  PROVE  OutInv'
<1>1. /\ CalmCycle(go, wb, fault) /\ Common(in, go) /\ link_up /\ link_up'
      /\ TypeOK /\ EngineInv /\ dma_length \in Nat /\ outq \in Seq(0 .. MaxDataFis)
  BY DEF InWrite, Parts, TypeOK, FsmTypeOK, EnvTypeOK
<1>2. ~FisLeaves(go)
  BY <1>1 DEF Common, FisGoing
<1>3. Takes(go)
  BY <1>1, <1>2 DEF Common, Called, DevMove, Quiet, Lands, DataEnds
<1>4. outq # <<>> /\ Head(dev_script) = "OUT"
  BY <1>3, ScriptParts DEF Takes
<1>5. Settled = Head(outq) /\ Again = <<"ACT", "OUT">>
  BY <1>4 DEF Settled, Again
<1>6. dev_left' = dev_left - Head(outq)
  BY <1>1, <1>2, <1>5, OwedMoves
<1>7. dev_left' = dma_length /\ (Head(outq) < dev_left <=> dma_length > 0)
  <2>1. Head(outq) \in 0 .. MaxDataFis
    BY <1>1, <1>4, HeadTailProperties
  <2>2. dev_left = dma_length + Head(outq)
    BY <1>4
  <2>3. PICK h \in 0 .. MaxDataFis : h = Head(outq)
    BY <2>1
  <2>4. h \in Int /\ dma_length \in Nat
    BY <1>1, <2>3 DEF MaxDataFis
  <2>5. dev_left = dma_length + h /\ dev_left' = dev_left - h
    BY <1>6, <2>2, <2>3
  <2>6. dev_left' = dma_length /\ (h < dev_left <=> dma_length > 0)
    BY <2>4, <2>5
  <2> QED BY <2>3, <2>6
<1>8. Unseen' = IF Head(outq) < dev_left THEN DmaAll ELSE Reg
  BY <1>3, <1>5, ScriptParts, ScriptAgain DEF Takes
<1>9. outq' = <<>>
  BY <1>1, Mm2sMoves
<1> QED BY <1>1, <1>7, <1>8, <1>9, ScriptParts DEF OutInv

LEMMA OutStep ==
  ASSUME NEW in, NEW go, NEW wb, NEW fault, InWrite(in, go, wb, fault), DmaOutSetup(in)
  PROVE  /\ fsm_state' = "DMA_OUT_SETUP" => OutInv'
         /\ fsm_state' = "DMA_TXDATA" => TxInv'
         /\ fsm_state' = "IDLE" => dma_length' = 0 /\ dev_left' = 0 /\ outq' = <<>>
<1>1. /\ CalmCycle(go, wb, fault) /\ Common(in, go) /\ link_up /\ link_up' /\ Wired(in, go, wb)
      /\ TypeOK /\ EnvTypeOK /\ FisInv /\ EngineInv /\ dma_length \in Nat /\ Orderly /\ FrameInv
      /\ fsm_state = "DMA_OUT_SETUP" /\ cmd_type = "DMA_WRITE" /\ OutInv
  BY DEF InWrite, Parts, TypeOK, FsmTypeOK, DmaOutSetup, PhaseInv, OpState, WriteInv
<1>2. /\ ~mm2s.busy /\ ~mm2s'.busy
      /\ Unseen \in IF FisGoing THEN {<<>>} ELSE {DmaAll, DmaRest, Reg}
  BY <1>1 DEF InWrite, Parts, PhaseInv, EngineInv, Answer, Common, EnginesMove
<1>3. outq # <<>> => Unseen = DmaRest
  BY <1>2, ScriptParts, <1>1 DEF EngineInv
<1>4. outq' # <<>> => outq' = outq /\ ~TakesData(go)
  BY <1>1, <1>2, Mm2sMoves
<1>5. FisLeaves(go) => FisGoing
  BY <1>1 DEF Common, FisGoing
<1>6. /\ Silent(go) => dma_length' = dma_length /\ fsm_state' = "DMA_OUT_SETUP"
      /\ Only(go, "REG_TO_HOST") => dma_length' = dma_length /\ fsm_state' = "IDLE"
      /\ Only(go, "DMA_ACTIVATE") => /\ o_tran_len' = OneFis(dma_length)
                                     /\ dma_length' = dma_length - OneFis(dma_length)
                                     /\ fsm_state' = "DMA_TXDATA"
  <2>1. \A f : Fis(in, f) <=> Arrives(go, f)
    BY <1>1 DEF Common
  <2>2. /\ \/ Arrives(go, "REG_TO_HOST") /\ Goto("IDLE")
           \/ Arrives(go, "DMA_ACTIVATE") /\ Goto("DMA_TXDATA")
           \/ ~Arrives(go, "REG_TO_HOST") /\ ~Arrives(go, "DMA_ACTIVATE") /\ Goto("DMA_OUT_SETUP")
        /\ o_tran_len' = OneFis(dma_length)
        /\ dma_length' = IF Arrives(go, "DMA_ACTIVATE")
                         THEN dma_length - OneFis(dma_length) ELSE dma_length
    BY <1>1, <2>1 DEF DmaOutSetup, Stay, LeftAfter
  <2> QED BY <2>2 DEF Goto, Silent, Only
<1>7. dev_left' = IF FisLeaves(go) THEN r_count * SectorBytes
                  ELSE IF TakesData(go) THEN dev_left - Settled ELSE dev_left
  BY <1>1, OwedMoves
<1>8. CASE FisGoing
  <2>1. Silent(go) /\ outq' = <<>> /\ (~FisLeaves(go) => Unseen' = <<>>)
    BY <1>1, <1>2, <1>3, <1>4, <1>8, NothingUnseen, ScriptParts
  <2>2. dev_script = <<>> /\ dev_words = 0 /\ dma_length = r_count * SectorBytes
    BY <1>1, <1>8 DEF InWrite, WriteInv, FrameInv
  <2>3. FisLeaves(go) => Unseen' = DmaAll
    <3>1. FisLeaves(go) => m_data = "DMA_WRITE"
      BY <1>1 DEF Common, FisInv
    <3> QED BY <1>1, <2>2, <3>1, EmptyScript, ScriptNames DEF Orderly
  <2>4. OutInv'
    BY <1>6, <1>7, <2>1, <2>2, <2>3, ScriptParts DEF OutInv
  <2> QED BY <1>6, <2>1, <2>4
<1>9. CASE ~FisGoing /\ Unseen = DmaAll
  <2>1. ~TakesData(go) /\ outq' = <<>> /\ dev_left' = dev_left /\ dev_left = dma_length
    BY <1>1, <1>4, <1>5, <1>7, <1>9, ScriptMoves DEF OutInv
  <2>2. CASE Silent(go)
    <3>1. Unseen' = DmaAll
      BY <1>1, <1>5, <1>9, <2>2, ScriptMoves
    <3>2. OutInv'
      BY <1>6, <2>1, <2>2, <3>1, ScriptParts DEF OutInv
    <3> QED BY <1>6, <2>2, <3>2
  <2>3. CASE ~Silent(go)
    <3>1. Only(go, "DMA_ACTIVATE")
      BY <1>1, <1>5, <1>9, <2>3, ScriptMoves
    <3>2. OneFis(dma_length) \in Int
      BY <1>1 DEF OneFis, MaxDataFis
    <3>3. dev_left' = dma_length' + o_tran_len'
      BY <1>1, <1>6, <2>1, <3>1, <3>2
    <3>4. TxInv'
      BY <1>2, <2>1, <3>3 DEF TxInv
    <3> QED BY <1>6, <3>1, <3>4
  <2> QED BY <2>2, <2>3
<1>10. CASE ~FisGoing /\ Unseen = DmaRest
  <2>1. Silent(go) /\ ~FisLeaves(go)
    BY <1>1, <1>5, <1>10, ScriptMoves
  <2>2. CASE TakesData(go)
    <3>1. OutInv'
      BY <1>1, <1>2, <1>6, <1>10, <2>1, <2>2, Settles DEF OutInv
    <3> QED BY <1>6, <2>1, <3>1
  <2>3. CASE ~TakesData(go)
    <3>1. Unseen' = DmaRest /\ dev_left' = dev_left
      BY <1>1, <1>7, <1>10, <2>1, <2>3, ScriptMoves
    <3>2. OutInv'
      BY <1>1, <1>4, <1>6, <1>10, <2>1, <3>1, ScriptParts DEF OutInv
    <3> QED BY <1>6, <2>1, <3>2
  <2> QED BY <2>2, <2>3
<1>11. CASE ~FisGoing /\ Unseen = Reg
  <2>1. /\ ~TakesData(go) /\ outq' = <<>> /\ dev_left' = dev_left
        /\ dma_length = 0 /\ dev_left = 0
    BY <1>1, <1>4, <1>5, <1>7, <1>11, ScriptMoves DEF OutInv
  <2>2. CASE Silent(go)
    <3>1. OutInv'
      BY <1>1, <1>5, <1>6, <1>11, <2>1, <2>2, ScriptMoves, ScriptParts DEF OutInv
    <3> QED BY <1>6, <2>2, <3>1
  <2>3. CASE ~Silent(go)
    BY <1>1, <1>5, <1>6, <1>11, <2>1, <2>3, ScriptMoves
  <2> QED BY <2>2, <2>3
<1> QED BY <1>2, <1>8, <1>9, <1>10, <1>11

LEMMA TxStep ==
  ASSUME NEW in, NEW go, NEW wb, NEW fault, InWrite(in, go, wb, fault), DmaTxData(in)
  PROVE  /\ fsm_state' = "DMA_OUT_SETUP" => OutInv'
         /\ fsm_state' = "DMA_TXDATA" => TxInv'
         /\ fsm_state' # "IDLE"
<1>1. /\ CalmCycle(go, wb, fault) /\ Common(in, go) /\ link_up /\ link_up' /\ Wired(in, go, wb)
      /\ TypeOK /\ FisInv /\ EngineInv /\ PhaseInv
      /\ fsm_state = "DMA_TXDATA" /\ TxInv
  BY DEF InWrite, Parts, DmaTxData, WriteInv
<1>2. ~FisGoing /\ ~Announced /\ Unseen = DmaRest /\ ~FisLeaves(go)
  BY <1>1 DEF FisInv, FisGoing, PhaseInv, Answer, Common
<1>3. dma_length' = dma_length /\ o_tran_len' = o_tran_len
  BY DEF DmaTxData
<1>4. /\ ~s2mm.busy /\ (o_tran_req => o_mm2s_request) /\ (o_mm2s_request => ~mm2s.busy)
      /\ outq # <<>> => ~o_mm2s_request /\ ~mm2s.busy
  BY <1>1, <1>2 DEF EngineInv
<1>5. IF o_tran_req \/ o_mm2s_request \/ mm2s.busy
      THEN fsm_state' = "DMA_TXDATA" ELSE fsm_state' = "DMA_OUT_SETUP"
  BY <1>1, <1>4 DEF DmaTxData, Stay, Goto, Wired
<1>6. TakesData(go) => outq # <<>>
  BY <1>1, <1>2, ScriptMoves
<1>7. ~TakesData(go) => dev_left' = dev_left /\ Unseen' = DmaRest
  BY <1>1, <1>2, OwedMoves, ScriptMoves
<1>8. ASSUME fsm_state' = "DMA_TXDATA" PROVE TxInv'
  <2>1. ~TakesData(go)
    BY <1>4, <1>5, <1>6, <1>8
  <2>2. mm2s'.busy => mm2s'.len = o_tran_len
    BY <1>1, Mm2sMoves DEF TxInv
  <2>3. outq' # <<>> => Head(outq') = o_tran_len
    BY <1>1, Mm2sMoves DEF TxInv
  <2> QED BY <1>1, <1>3, <1>7, <2>1, <2>2, <2>3 DEF TxInv
<1>9. ASSUME fsm_state' = "DMA_OUT_SETUP" PROVE OutInv'
  <2>1. ~mm2s.busy
    BY <1>5, <1>9
  <2>2. outq # <<>> => dev_left = dma_length + Head(outq)
    BY <1>1 DEF TxInv
  <2>3. CASE TakesData(go)
    BY <1>2, <1>3, <2>1, <2>2, <2>3, Settles
  <2>4. CASE ~TakesData(go)
    <3>1. outq' # <<>> => outq' = outq
      BY <1>1, <2>1, Mm2sMoves
    <3>2. outq' # <<>> => dev_left' = dma_length' + Head(outq')
      BY <1>3, <1>7, <2>2, <2>4, <3>1
    <3> QED BY <1>7, <2>4, <3>2, ScriptParts DEF OutInv
  <2> QED BY <2>3, <2>4
<1> QED BY <1>5, <1>8, <1>9

LEMMA WriteStep ==
  ASSUME NEW in, NEW go, NEW wb, NEW fault, CalmCycle(go, wb, fault), Wired(in, go, wb),
         Tick(in), Inv, WriteInv, Orderly, link_up, TypeOK'
  PROVE  WriteInv'
<1>1. InWrite(in, go, wb, fault)
  BY CommonStep, LinkStep DEF InWrite, Inv, CalmInv, Parts
<1>2. /\ BusyInv /\ FisInv /\ PhaseInv /\ cmd_type \in CmdTypes /\ Common(in, go)
  BY <1>1 DEF InWrite, Parts, TypeOK, FsmTypeOK
<1>3. r_count' < 128
  BY CountMoves DEF WriteInv
<1>4. /\ known_cmd' \/ FisGoing' => dev_script' = <<>>
      /\ FisGoing' => dma_length' = r_count' * SectorBytes
  BY LengthStep
<1>5. /\ fsm_state' = "DMA_OUT_SETUP" => Command(in) \/ DmaOutSetup(in) \/ DmaTxData(in)
      /\ fsm_state' = "DMA_TXDATA" => DmaOutSetup(in) \/ DmaTxData(in)
  BY <1>2, CameFrom
<1>6. Command(in) => OutInv'
  <2> SUFFICES ASSUME Command(in) PROVE OutInv'
    OBVIOUS
  <2>1. Announced /\ FisGoing /\ ~FisLeaves(go) /\ Unseen = <<>>
    BY <1>2 DEF Command, FisInv, FisGoing, Common, PhaseInv
  <2>2. Unseen' = <<>>
    BY <1>2, <2>1, NothingUnseen
  <2> QED BY <2>2, ScriptParts DEF OutInv
<1>7. fsm_state' = "DMA_OUT_SETUP" => OutInv'
  BY <1>1, <1>5, <1>6, OutStep, TxStep
<1>8. fsm_state' = "DMA_TXDATA" => TxInv'
  BY <1>1, <1>5, OutStep, TxStep
<1>9. DmaWriteExact'
  <2> SUFFICES ASSUME return_to_idle', cmd_type' = "DMA_WRITE"
               PROVE  dma_length' = 0 /\ dev_left' = 0 /\ outq' = <<>>
    BY DEF DmaWriteExact
  <2>1. fsm_state # "IDLE" /\ fsm_state' = "IDLE"
    BY <1>2, PulseFacts
  <2>2. cmd_type = "DMA_WRITE"
    BY <1>2, <2>1 DEF Common
  <2>3. fsm_state \in {"COMMAND", "DMA_OUT_SETUP", "DMA_TXDATA"}
    BY <1>2, <2>1, <2>2 DEF PhaseInv, OpState
  <2>4. RunCommand(in)
    <3>1. ~Abort(in)
      BY LinkStep DEF Inv, CalmInv
    <3> QED BY <2>1, <3>1 DEF Tick, MasterFsm, AbortCommand, StartCommand, IdleCycle
  <2>5. Command(in) \/ DmaOutSetup(in) \/ DmaTxData(in)
    BY <2>3, <2>4 DEF RunCommand, WaitReg, PioInSetup, PioRxData, PioOutSetup,
                      PioTxData, DmaIn, DmaInFinal
  <2>6. ~Command(in)
    BY <2>1, <2>2 DEF Command, Goto, Stay
  <2> QED BY <1>1, <2>1, <2>5, <2>6, OutStep, TxStep
<1> QED BY <1>3, <1>4, <1>7, <1>8, <1>9 DEF WriteInv

\* Until the link is up the sequencer rests, and is kept where it is.
LEMMA LinkDown ==
  ASSUME NEW in, NEW go, NEW wb, NEW fault, CalmCycle(go, wb, fault), Wired(in, go, wb),
         Tick(in), Inv, Inv', ~link_up
  PROVE  /\ fsm_state' = "IDLE" /\ ~return_to_idle' /\ ~known_cmd' /\ r_count' = r_count
         /\ ~FisGoing'
<1>1. BusyInv /\ LinkInv /\ fsm_state = "IDLE"
  BY DEF Inv, CalmInv, LinkInv
<1>2. AbortCommand(in)
  BY <1>1, LinkStep DEF Tick, MasterFsm, AbortCommand
<1>3. fsm_state' = "IDLE" /\ ~return_to_idle' /\ r_count' = r_count
  BY <1>1, <1>2 DEF AbortCommand, AbortPulse, regVars
<1>4. ~known_cmd'
  <2>1. wb.a = "NONE"
    BY DriverFacts
  <2> QED BY <1>1, <2>1, PulseFacts DEF Wired
<1>5. ~FisGoing'
  BY <1>3 DEF Inv, CalmInv, FisInv
<1> QED BY <1>3, <1>4, <1>5

-----------------------------------------------------------------------------
(* The invariants and what they imply.                                     *)

LEMMA Standing ==
  ASSUME UNCHANGED vars
  PROVE  /\ Started' = Started /\ Unseen' = Unseen /\ Announced' = Announced
         /\ FisGoing' = FisGoing
         /\ UNCHANGED fsmVars /\ UNCHANGED envVars
BY DEF vars, fsmVars, envVars, tranVars, Started, Unseen, Announced, FisGoing

LEMMA ReadInit == Init => HostInv /\ ReadInv
BY DEF Init, FsmInit, EnvInit, HostInv, ReadInv, NoSilentLoss

LEMMA ReadNext ==
  ASSUME Calm, ~RegInt
  PROVE  Inv /\ Inv' /\ HostInv /\ ReadInv /\ [Next]_vars => HostInv' /\ ReadInv'
<1> SUFFICES ASSUME Inv, Inv', HostInv, ReadInv, [Next]_vars PROVE HostInv' /\ ReadInv'
  OBVIOUS
<1>1. TypeOK'
  BY DEF Inv
<1>2. CASE Next
  <2>1. PICK go, wb, fault : CalmCycle(go, wb, fault)
    BY <1>2, CalmSteps
  <2>2. PICK in : Tick(in) /\ Wired(in, go, wb)
    BY <2>1, CalmWires
  <2>3. HostInv'
    BY <2>1, <2>2, HostStep
  <2>4. CASE link_up
    BY <1>1, <2>1, <2>2, <2>3, <2>4, ReadStep
  <2>5. CASE ~link_up
    <3>1. fsm_state' = "IDLE" /\ ~return_to_idle'
      BY <2>1, <2>2, <2>5, LinkDown
    <3> QED BY <2>3, <3>1 DEF ReadInv, NoSilentLoss
  <2> QED BY <2>4, <2>5
<1>3. CASE UNCHANGED vars
  <2>1. /\ Started' = Started /\ Unseen' = Unseen /\ FisGoing' = FisGoing
        /\ UNCHANGED fsmVars /\ UNCHANGED envVars
    BY <1>3, Standing
  <2>2. HostInv'
    BY <2>1 DEF HostInv, fsmVars, envVars, regVars, dmaVars
  <2>3. ReadLanded' = ReadLanded /\ Sent' = Sent
    BY <2>1 DEF ReadLanded, Sent, fsmVars, envVars, dmaVars
  <2>4. ASSUME NEW k, Running(k) PROVE Running(k)'
    <3>1. Reached(k)' = Reached(k)
      BY <2>1 DEF Reached, fsmVars, dmaVars
    <3> QED BY <2>1, <2>3, <2>4, <3>1 DEF Running, Marked, fsmVars, envVars, dmaVars
  <2>5. ReadPhase => ReadPhase'
    BY <2>1, <2>3, <2>4 DEF ReadPhase, fsmVars, envVars, dmaVars
  <2>6. NoSilentLoss'
    BY <2>1, <2>3 DEF ReadInv, NoSilentLoss, fsmVars
  <2>7. ReadInv'
    BY <2>1, <2>5, <2>6 DEF ReadInv, fsmVars, envVars
  <2> QED BY <2>2, <2>7
<1> QED BY <1>2, <1>3

\* A DMA read signalled without the failure flag has every word of its data
\* in memory, at the addresses the host asked for, whatever the bus answers
\* and whatever the host and the device do meanwhile.
THEOREM ReadsLand == ASSUME Calm, ~RegInt PROVE Spec => []NoSilentLoss
<1>1. HostInv /\ ReadInv => NoSilentLoss
  BY DEF ReadInv
<1> QED BY <1>1, InvAlways, ReadInit, ReadNext, PTL DEF Spec

LEMMA WriteInit == Init => WriteInv
<1> SUFFICES ASSUME Init PROVE WriteInv
  OBVIOUS
<1>1. FsmInit /\ EnvInit
  BY DEF Init
<1>2. ~FisGoing
  BY <1>1 DEF FsmInit, FisGoing, Announced
<1> QED BY <1>1, <1>2 DEF FsmInit, WriteInv, DmaWriteExact

LEMMA WriteNext ==
  ASSUME Calm, Orderly
  PROVE  Inv /\ Inv' /\ WriteInv /\ [Next]_vars => WriteInv'
<1> SUFFICES ASSUME Inv, Inv', WriteInv, [Next]_vars PROVE WriteInv'
  OBVIOUS
<1>1. TypeOK'
  BY DEF Inv
<1>2. CASE Next
  <2>1. PICK go, wb, fault : CalmCycle(go, wb, fault)
    BY <1>2, CalmSteps
  <2>2. PICK in : Tick(in) /\ Wired(in, go, wb)
    BY <2>1, CalmWires
  <2>3. CASE link_up
    BY <1>1, <2>1, <2>2, <2>3, WriteStep
  <2>4. CASE ~link_up
    <3>1. /\ fsm_state' = "IDLE" /\ ~return_to_idle' /\ ~known_cmd' /\ r_count' = r_count
          /\ ~FisGoing'
      BY <2>1, <2>2, <2>4, LinkDown
    <3> QED BY <3>1 DEF WriteInv, DmaWriteExact
  <2> QED BY <2>3, <2>4
<1>3. CASE UNCHANGED vars
  <2>1. /\ Unseen' = Unseen /\ FisGoing' = FisGoing
        /\ UNCHANGED fsmVars /\ UNCHANGED envVars
    BY <1>3, Standing
  <2>2. (OutInv => OutInv') /\ (TxInv => TxInv')
    BY <2>1 DEF OutInv, TxInv, fsmVars, envVars, tranVars
  <2>3. DmaWriteExact'
    BY <2>1 DEF WriteInv, DmaWriteExact, fsmVars, envVars, tranVars
  <2> QED BY <2>1, <2>2, <2>3 DEF WriteInv, fsmVars, envVars, regVars, tranVars
<1> QED BY <1>2, <1>3

\* When a DMA write has ended, everything announced has moved and nothing
\* besides: the sequencer has nothing left to send, the device is owed
\* nothing, no data FIS is between them.
THEOREM WritesExact == ASSUME Calm, Orderly PROVE Spec => []DmaWriteExact
<1>1. WriteInv => DmaWriteExact
  BY DEF WriteInv
<1> QED BY <1>1, InvAlways, WriteInit, WriteNext, PTL DEF Spec
=============================================================================
