------------------------------ MODULE Transport ------------------------------
(***************************************************************************)
(* The transport layer, rtl/sata_transport.v: the sequencer of TranFsm     *)
(* wired to its two DMA engines and to the FIFO of received data, with a   *)
(* host, a link and a device closing the loop.                             *)
(*                                                                         *)
(* One step is one cycle of i_clk.  What takes a data-dependent time (bus  *)
(* stalls, FIFO and clock-crossing latency, the link, the device) is the   *)
(* set go of the parties that move in that cycle: any subset of those that *)
(* can.  A party that can move is never refused for ever (see Fairness).   *)
(*                                                                         *)
(* The device is external; it follows bench/verilog/mdl_satacmd.v, which   *)
(* answers a command with a fixed script of FISs.                          *)
(***************************************************************************)
EXTENDS TranFsm, Sequences

CONSTANTS
  Ops,          \* command classes the host issues
  StrayOps,     \* command classes written out of turn
  Counts,       \* sector counts it programs
  Bases,        \* DMA addresses it programs
  MaxCmds,      \* bound on the commands it issues
  ReadWords,    \* bus words in one data FIS from the device
  Faults,       \* subset of AllFaults
  MaxFaults,    \* bound on the faults of a behaviour
  Signature,    \* whether the device sends its signature when the link rises
  DevAborts,    \* whether it may answer a command with an error status alone
  RegInt,       \* the I bit of its status FISs
  Impatient     \* whether the host goes on before the status FIS is over

\* The link drops, a FIS is received in error, a DMA write or read meets a bus
\* error, the host resets the PHY, or writes a command out of turn.
AllFaults == {"drop", "abort", "write_err", "read_err", "phy", "cmd"}

ASSUME HostAssumption ==
  /\ Ops \subseteq CmdTypes /\ StrayOps \subseteq CmdTypes
  /\ Counts \subseteq 0 .. LenSpace - 1 /\ Bases \subseteq 0 .. AddrSpace - 1

ASSUME DeviceAssumption ==
  /\ ReadWords \in Nat \ {0}
  /\ {Signature, DevAborts, RegInt} \subseteq BOOLEAN

ASSUME FaultsAssumption == /\ Faults \subseteq AllFaults /\ MaxFaults \in Nat
                            /\ MaxCmds \in Nat

VARIABLES
  link_up, faults,
  dev_script, dev_words, dev_left,   \* FISs to come, words sent, bytes owed
  rxq,                               \* received data on its way to s2mm
  s2mm, mm2s,                        \* the DMA engines
  outq,                              \* data FISs on their way to the device
  host, issued,                      \* the driver's next step, its commands
  stored, chunks                     \* ghosts: what this command moved

envVars == <<link_up, faults, dev_script, dev_words, dev_left, rxq,
             s2mm, mm2s, outq, host, issued, stored, chunks>>
vars == <<fsmVars, envVars>>

BusBytes == 2^BusShift

ASSUME BusBytesAssumption == BusBytes \in Nat \ {0}

EngineIdle(addr) == [busy |-> FALSE, err |-> FALSE, last |-> FALSE, addr |-> addr]
ReaderIdle == [busy |-> FALSE, err |-> FALSE, addr |-> 0, len |-> 0]

\* Data is flushed on its way to the engine while nothing asks for it.
RxDmaReset == ~(o_s2mm_request \/ s2mm.busy)

-----------------------------------------------------------------------------
(* The device.                                                             *)

Items == {"ACT", "PIO", "PIO_MORE", "REG", "DATA", "OUT", "PIO_OUT"}

Script(op) ==
  CASE op = "DMA_READ"  -> <<"DATA", "REG">>
    [] op = "DMA_WRITE" -> <<"ACT", "OUT", "REG">>
    [] op = "PIO_READ"  -> IF r_count < 2 THEN <<"PIO", "DATA", "REG">>
                           ELSE <<"PIO_MORE", "DATA", "REG", "PIO", "DATA", "REG">>
    [] op = "PIO_WRITE" -> <<"PIO", "PIO_OUT", "REG">>
    [] OTHER            -> <<"REG">>

FisWords(item) == CASE item = "DATA" -> ReadWords
                    [] item = "ACT"  -> 1
                    [] OTHER         -> 5
FisName(item) == CASE item = "ACT" -> "DMA_ACTIVATE"
                   [] item \in {"PIO", "PIO_MORE"} -> "PIO_SETUP"
                   [] item = "REG" -> "REG_TO_HOST"

DevCanMove ==
  /\ link_up /\ dev_script # <<>>
  /\ Head(dev_script) \in {"OUT", "PIO_OUT"} => outq # <<>>

DevSends(go, item) == "dev" \in go /\ Head(dev_script) = item
LastWord == dev_words + 1 = FisWords(Head(dev_script))

\* The word of a non-data FIS that the sequencer sees in this cycle.
Packet(go) ==
  IF \E item \in {"ACT", "PIO", "PIO_MORE", "REG"} : DevSends(go, item)
  THEN [valid |-> TRUE, last |-> LastWord, count |-> 0,
        fis |-> IF dev_words = 0 THEN FisName(Head(dev_script)) ELSE "PAYLOAD",
        bsy |-> Head(dev_script) = "PIO_MORE",
        int |-> dev_words = 0 /\ Head(dev_script) = "REG" /\ RegInt]
  ELSE NoPkt

\* A data FIS from the host reaches the device.  It settles the bytes it
\* holds under DMA, one sector under PIO, and the device asks again until it
\* is owed nothing.
TakesData(go) == "dev" \in go /\ Head(dev_script) \in {"OUT", "PIO_OUT"}
Settled == IF Head(dev_script) = "OUT" THEN Head(outq) ELSE SectorBytes
Again   == IF Head(dev_script) = "OUT" THEN <<"ACT", "OUT">> ELSE <<"PIO", "PIO_OUT">>

\* The last word of the register FIS leaves the sequencer.
FisLeaves(go) == "tx" \in go /\ m_last

\* What is left to send after this cycle's move.
ScriptAfter(go) ==
  IF TakesData(go)
  THEN (IF Settled < dev_left THEN Again ELSE <<>>) \o Tail(dev_script)
  ELSE IF "dev" \in go /\ LastWord THEN Tail(dev_script) ELSE dev_script

\* Of an old script, a new command leaves the FIS next to be sent.
Begun(go) == LET old == ScriptAfter(go) IN
  IF old # <<>> /\ Head(old) \notin {"OUT", "PIO_OUT"} THEN <<Head(old)>> ELSE <<>>

\* A device with the link up takes a command at any time; without it, or when
\* it loses it, it forgets what it was doing.  A FIS cut short by a transfer
\* error is sent again from its first word.
Device(go, fault) ==
  IF link_up /\ link_up'
  THEN /\ \E answer \in IF ~FisLeaves(go) THEN {<<>>}
                        ELSE {Script(m_data)} \cup (IF DevAborts THEN {<<"REG">>} ELSE {}) :
            dev_script' = IF FisLeaves(go) THEN Begun(go) \o answer ELSE ScriptAfter(go)
       /\ dev_words' = IF fault = "abort" THEN 0
                       ELSE IF "dev" \notin go \/ TakesData(go) THEN dev_words
                       ELSE IF LastWord THEN 0 ELSE dev_words + 1
       /\ dev_left' = IF FisLeaves(go) THEN r_count * SectorBytes
                      ELSE IF TakesData(go) THEN dev_left - Settled ELSE dev_left
  ELSE /\ dev_script' = IF link_up' /\ Signature THEN <<"REG">> ELSE <<>>
       /\ dev_words' = 0
       /\ dev_left' = 0

-----------------------------------------------------------------------------
(* The engines.  Neither notices that the link is gone.                    *)

\* s2mm takes a bus word from the FIFO and writes it.
Beat(go) == "s2mm" \in go /\ ~s2mm.last

\* satadma_s2mm.v: the address is captured while idle, the run ends with the
\* word marked last, a bus error ends it at once, and so does a word that
\* reaches the end of the address space, after it is written.
ReachesEnd == s2mm.addr + BusBytes >= AddrSpace

S2mm(go, fault) ==
  /\ s2mm' = IF fault = "abort" THEN EngineIdle(0)
             ELSE IF ~s2mm.busy \/ s2mm.err
             THEN [EngineIdle(o_s2mm_addr) EXCEPT !.busy = o_s2mm_request /\ ~s2mm.busy]
             ELSE IF fault = "write_err"
             THEN [EngineIdle(o_s2mm_addr) EXCEPT !.err = TRUE]
             ELSE IF Beat(go)
             THEN [s2mm EXCEPT !.last = Head(rxq), !.err = ReachesEnd,
                               !.addr = (@ + BusBytes) % AddrSpace]
             ELSE IF "s2mm" \in go THEN [s2mm EXCEPT !.busy = FALSE]
             ELSE s2mm
  /\ rxq' = IF fault = "abort" \/ RxDmaReset THEN <<>>
            ELSE (IF Beat(go) THEN Tail(rxq) ELSE rxq)
                 \o (IF DevSends(go, "DATA") THEN <<LastWord>> ELSE <<>>)

\* satadma_mm2s.v: address and length are captured while idle; a bus error,
\* or a run past the end of the address space, stops the engine and leaves
\* the packet without its last word.
PastEnd == mm2s.addr + mm2s.len > AddrSpace
ChunkDone(go, fault) ==
  "mm2s" \in go /\ ~PastEnd /\ fault \notin {"abort", "read_err"}

Mm2s(go, fault) ==
  /\ mm2s' = IF fault = "abort" \/ mm2s.err THEN ReaderIdle
             ELSE IF ~mm2s.busy
             THEN [busy |-> o_mm2s_request, err |-> FALSE,
                   addr |-> o_mm2s_addr, len |-> o_tran_len]
             ELSE IF fault = "read_err" \/ ("mm2s" \in go /\ PastEnd)
             THEN [mm2s EXCEPT !.err = TRUE]
             ELSE [mm2s EXCEPT !.busy = "mm2s" \notin go]
  /\ outq' = (IF TakesData(go) THEN Tail(outq) ELSE outq)
             \o (IF ChunkDone(go, fault) THEN <<mm2s.len>> ELSE <<>>)

\* What the command now running has moved.
Moved(go, fault) ==
  IF known_cmd
  THEN stored' = {} /\ chunks' = <<>>
  ELSE /\ stored' = IF Beat(go) /\ fault \notin {"abort", "write_err"} THEN stored \cup {s2mm.addr} ELSE stored
       /\ chunks' = IF ChunkDone(go, fault)
                    THEN Append(chunks, <<mm2s.addr, mm2s.len>>) ELSE chunks

-----------------------------------------------------------------------------
(* The host's driver, with the link up, programs count and address, writes *)
(* the command and waits for the interrupt (satalib.v, satadrv.c).  It is  *)
(* slower than the tail of the status FIS that interrupted it, unless it   *)
(* is impatient.                                                           *)

CmdWrite(op, sel, is_reg) ==
  [a |-> "CMD", op |-> op, sel |-> sel, reg_to_dev |-> is_reg, ack_int |-> TRUE]
PhyReset == [a |-> "PHY", reset |-> TRUE, hold |-> FALSE, clear |-> TRUE]

DriverWrites ==
  IF ~link_up \/ (~s_sop /\ ~Impatient) THEN {}
  ELSE CASE host = "count" /\ issued < MaxCmds -> {[a |-> "COUNT", count |-> n] : n \in Counts}
         [] host = "addr"  -> {[a |-> "ADDR", addr |-> b] : b \in Bases}
         [] host = "cmd"   -> {CmdWrite(op, 0 .. 3, TRUE) : op \in Ops}
         [] OTHER -> {}

\* Writes outside the driver's protocol, taken from the budget of faults.
StrayWrites ==
  IF faults = MaxFaults THEN {}
  ELSE (IF "cmd" \in Faults
        THEN {CmdWrite(op, 0 .. 3, TRUE) : op \in StrayOps}
             \cup {CmdWrite("NONDATA", 0 .. 3, FALSE), CmdWrite("NONDATA", {1, 2}, TRUE)}
        ELSE {})
       \cup (IF "phy" \in Faults THEN {PhyReset} ELSE {})

\* The driver moves on when its write is taken; the interrupt ends its wait.
Host(wb, stray) ==
  IF wb # NoWrite /\ ~stray /\ ~known_cmd
  THEN /\ host' = CASE host = "count" -> "addr" [] host = "addr" -> "cmd" [] OTHER -> "wait"
       /\ issued' = IF host = "cmd" THEN issued + 1 ELSE issued
  ELSE /\ host' = IF host = "wait" /\ OInt THEN "count" ELSE host
       /\ UNCHANGED issued

-----------------------------------------------------------------------------
Parties == {"dev", "tx", "s2mm", "mm2s", "link"}

CanMove(p) ==
  CASE p = "dev"  -> DevCanMove
    [] p = "tx"   -> m_valid
    [] p = "s2mm" -> s2mm.busy /\ ~s2mm.err /\ (s2mm.last \/ rxq # <<>>)
    [] p = "mm2s" -> mm2s.busy /\ ~mm2s.err
    [] p = "link" -> ~link_up /\ ~o_phy_reset

\* i_phy_reset takes the link down; a fault of the cable may.
Link(go, fault) ==
  link_up' = (~o_phy_reset /\ fault # "drop" /\ (link_up \/ "link" \in go))

\* A fault strikes where it can: a bus error answers an access.
Strikes(fault, go) ==
  \/ fault = "none"
  \/ /\ fault \in Faults \ {"phy", "cmd"} /\ faults < MaxFaults
     /\ CASE fault = "drop"      -> link_up
          [] fault = "abort"     -> "dev" \notin go
          [] fault = "write_err" -> Beat(go)
          [] fault = "read_err"  -> "mm2s" \in go

\* The sequencer's input wires in a cycle.
Wires(go, wb, fault) ==
  [wb |-> wb, link_up |-> link_up, tran_err |-> fault = "abort",
   pkt |-> Packet(go), m_ready |-> "tx" \in go,
   s2mm_busy |-> s2mm.busy, s2mm_err |-> s2mm.err, s2mm_beat |-> Beat(go),
   mm2s_busy |-> mm2s.busy, mm2s_err |-> mm2s.err]

Cycle(go, wb, stray, fault) ==
  /\ \A p \in go : CanMove(p)
  /\ Strikes(fault, go)
  /\ faults' = IF fault # "none" \/ stray THEN faults + 1 ELSE faults
  /\ Tick(Wires(go, wb, fault))
  /\ Link(go, fault)
  /\ Device(go, fault)
  /\ S2mm(go, fault)
  /\ Mm2s(go, fault)
  /\ Moved(go, fault)
  /\ Host(wb, stray)

Step(go) ==
  \E fault \in AllFaults \cup {"none"} :
    \/ Cycle(go, NoWrite, FALSE, fault)
    \/ \E wb \in DriverWrites : Cycle(go, wb, FALSE, fault)
    \/ fault = "none" /\ \E wb \in StrayWrites : Cycle(go, wb, TRUE, fault)

Next == \E go \in SUBSET Parties : Step(go)

EnvInit ==
  /\ link_up = FALSE /\ faults = 0
  /\ dev_script = <<>> /\ dev_words = 0 /\ dev_left = 0
  /\ rxq = <<>> /\ outq = <<>>
  /\ s2mm = EngineIdle(0) /\ mm2s = ReaderIdle
  /\ host = "count" /\ issued = 0
  /\ stored = {} /\ chunks = <<>>

Init == FsmInit /\ EnvInit

Spec == Init /\ [][Next]_vars

\* The clock runs; the bus, the FIFOs, the link and the device each serve
\* what waits for them sooner or later.
Moves(p) == \E go \in SUBSET Parties : p \in go /\ Step(go)
Fairness ==
  /\ WF_vars(Next)
  /\ \A p \in Parties : WF_vars(Moves(p))
FairSpec == Spec /\ Fairness

-----------------------------------------------------------------------------
(* Properties.                                                             *)

\* Every register holds what it can hold.
EnvTypeOK ==
  /\ link_up \in BOOLEAN
  /\ faults \in Nat /\ issued \in Nat
  /\ dev_script \in Seq(Items) /\ dev_words \in Nat /\ dev_left \in Int
  /\ rxq \in Seq(BOOLEAN) /\ outq \in Seq(0 .. MaxDataFis)
  /\ s2mm \in [busy : BOOLEAN, err : BOOLEAN, last : BOOLEAN, addr : 0 .. AddrSpace - 1]
  /\ mm2s \in [busy : BOOLEAN, err : BOOLEAN, addr : 0 .. AddrSpace - 1, len : 0 .. MaxDataFis]
  /\ host \in {"count", "addr", "cmd", "wait"}
TypeOK == FsmTypeOK /\ EnvTypeOK

\* A decoded command finds the sequencer idle and r_busy low, whenever the
\* host writes; so a command is never started over another, and the stall of
\* the cycle after decoding never blocks a busy sequencer (the assertion of
\* satatrn_fsm.v:950-952).
KnownCmdOnlyWhenIdle == known_cmd => fsm_state = "IDLE" /\ ~r_busy

\* The class that selected a command's FSM path does not change under it.
CmdTypeStable ==
  [][known_cmd \/ fsm_state # "IDLE" => cmd_type' = cmd_type]_vars

\* The interrupt pulses exactly when the sequencer returns to idle, however
\* it returns: by status, link loss, transfer error or PHY reset.
EveryReturnInterrupts ==
  [][return_to_idle' <=> fsm_state # "IDLE" /\ fsm_state' = "IDLE"]_vars

\* When it pulses the host can tell how the command ended: the device's
\* register FIS is what the shadow registers hold, or the failure flag is up.
PulseHasStatus == return_to_idle => last_fis = "REG_TO_HOST" \/ r_dma_fail

\* The register FIS on its way out carries the command being run.
FisCarriesCommand == m_valid => m_data = cmd_type /\ fsm_state # "IDLE"

\* A DMA read whose end is signalled without the failure flag has put every
\* word the device sent in memory, at the addresses asked for, before the
\* signal (o_mm2s_addr keeps the address the host programmed).
ReadLanded == stored = {(o_mm2s_addr + i * BusBytes) % AddrSpace : i \in 0 .. ReadWords - 1}
NoSilentLoss == return_to_idle /\ cmd_type = "DMA_READ" /\ ~r_dma_fail => ReadLanded

\* The driver takes the interrupt for the completion of its read (satalib.v:
\* 156-159 for DMA, tb_sata.cpp:517 for PIO), and then reads the buffer.
InterruptMeansLanded ==
  /\ host = "wait" /\ OInt
  /\ cmd_type \in {"DMA_READ", "PIO_READ"} /\ ~r_dma_fail
  => ReadLanded

\* When a DMA write ends, host and device agree that every byte announced has
\* moved and none besides: the sequencer counts down what is left to send, the
\* device what it is owed, and no data FIS is left behind between them.
DmaWriteExact ==
  return_to_idle /\ cmd_type = "DMA_WRITE"
    => dma_length = 0 /\ dev_left = 0 /\ outq = <<>>

\* Between commands the engines rest: nothing is requested, nothing runs, no
\* received word waits to be taken for the next command's data.
EnginesRest ==
  fsm_state = "IDLE" => /\ ~o_s2mm_request /\ ~o_mm2s_request
                        /\ ~s2mm.busy /\ ~mm2s.busy /\ rxq = <<>>

\* The sequencer asks for an engine only when that engine is free
\* (the assertions of satatrn_fsm.v:1016-1018 and 1054-1056).
RequestOnlyWhenFree == /\ o_s2mm_request => ~s2mm.busy
                       /\ o_mm2s_request => ~mm2s.busy

\* Every command the driver issues is answered by an interrupt.
CommandAnswered == host = "wait" ~> host = "count"

\* The sequencer is not stuck in any state (satatrn_fsm.v:348-356).
NeverStuck == fsm_state # "IDLE" ~> fsm_state = "IDLE"

\* A chunk of a DMA write starts where the last one ended, so that the device
\* gets the buffer the host filled.
ChunksCoverBuffer ==
  \A i \in 1 .. Len(chunks) - 1 : chunks[i+1][1] = chunks[i][1] + chunks[i][2]
=============================================================================
