--------------------------- MODULE TransportProofs ---------------------------
(***************************************************************************)
(* Proofs about Transport for every value of its constants: any number of  *)
(* faults, any command mix, any device answers.                            *)
(*                                                                         *)
(* First the sequencer's own safety, which does not rest on its            *)
(* environment: every proof goes through StepIsTick, a step of the system  *)
(* is a clock edge of the sequencer under some input.                      *)
(*                                                                         *)
(* Then type correctness of the whole transport layer, with TypeOK itself  *)
(* as the inductive invariant.  A clock of the sequencer, of its register  *)
(* FIS transmitter and of its wires keeps every register typed, whatever   *)
(* typed input it meets; the environment drives typed wires (WiresTypes)   *)
(* and stays typed.                                                        *)
(***************************************************************************)
EXTENDS Transport, SequenceTheorems, TLAPS

\* A step of the system clocks the sequencer once.
LEMMA StepIsTick == ASSUME Next PROVE \E in : Tick(in)
<1>1. PICK go \in SUBSET Parties : Step(go)
  BY DEF Next
<1>2. PICK fault, wb, stray : Cycle(go, wb, stray, fault)
  BY <1>1 DEF Step
<1>3. Tick(Wires(go, wb, fault))
  BY <1>2 DEF Cycle
<1> QED BY <1>3

-----------------------------------------------------------------------------
(* Commands exclude one another.                                           *)

\* r_busy covers every state but idle, and bars the decoder while it is high.
BusyInv == /\ fsm_state # "IDLE" => r_busy
           /\ known_cmd => ~r_busy

LEMMA BusyInit == Init => BusyInv
BY DEF Init, FsmInit, BusyInv

\* What a clock edge does to the sequencer, by the four cases of its FSM.
LEMMA BusyTick == ASSUME NEW in, BusyInv, Tick(in) PROVE BusyInv'
<1>1. known_cmd' => ~known_cmd /\ ~r_busy
  BY DEF Tick, DecodeCmd, Decodes, Write
<1>2. CASE AbortCommand(in)
  BY <1>2 DEF AbortCommand, BusyInv
<1>3. CASE StartCommand(in)
  BY <1>1, <1>3 DEF StartCommand, BusyInv
<1>4. CASE IdleCycle(in)
  BY <1>4 DEF IdleCycle, BusyInv
<1>5. CASE RunCommand(in)
  <2>1. fsm_state # "IDLE" /\ r_busy' = r_busy
    BY <1>5 DEF RunCommand, Command, WaitReg, PioInSetup, PioRxData, PioOutSetup,
                PioTxData, DmaIn, DmaInFinal, DmaOutSetup, DmaTxData
  <2> QED BY <1>1, <2>1 DEF BusyInv
<1> QED BY <1>2, <1>3, <1>4, <1>5 DEF Tick, MasterFsm

LEMMA BusyStep == BusyInv /\ [Next]_vars => BusyInv'
<1> SUFFICES ASSUME BusyInv, [Next]_vars PROVE BusyInv'
  OBVIOUS
<1>1. CASE Next
  BY <1>1, StepIsTick, BusyTick
<1>2. CASE UNCHANGED vars
  BY <1>2 DEF vars, fsmVars, BusyInv
<1> QED BY <1>1, <1>2

LEMMA BusyAlways == Spec => []BusyInv
BY BusyInit, BusyStep, PTL DEF Spec

\* A command is decoded only over an idle sequencer: no write of the host, and
\* no fault, starts one command over another.
THEOREM CommandsExclude == Spec => []KnownCmdOnlyWhenIdle
<1>1. BusyInv => KnownCmdOnlyWhenIdle
  BY DEF BusyInv, KnownCmdOnlyWhenIdle
<1> QED BY <1>1, BusyAlways, PTL

\* The class that chose a command's path is kept until the command is over.
THEOREM CmdTypeKept == Spec => CmdTypeStable
<1>1. BusyInv /\ [Next]_vars
        => [known_cmd \/ fsm_state # "IDLE" => cmd_type' = cmd_type]_vars
  <2> SUFFICES ASSUME BusyInv, Next, known_cmd \/ fsm_state # "IDLE"
               PROVE  cmd_type' = cmd_type
    OBVIOUS
  <2>1. PICK in : Tick(in)
    BY StepIsTick
  <2>2. ~Decodes(in)
    BY DEF BusyInv, Decodes, Write
  <2> QED BY <2>1, <2>2 DEF Tick, DecodeCmd
<1> QED BY <1>1, BusyAlways, PTL DEF Spec, CmdTypeStable

-----------------------------------------------------------------------------
(* Interrupts.                                                             *)

\* Each state's step moves by Goto, so it pulses exactly when it goes idle.
LEMMA GotoPulses ==
  ASSUME NEW s, Goto(s) PROVE return_to_idle' <=> fsm_state' = "IDLE"
BY DEF Goto

LEMMA RunPulses ==
  ASSUME NEW in, RunCommand(in)
  PROVE  /\ fsm_state # "IDLE"
         /\ return_to_idle' <=> fsm_state' = "IDLE"
<1>1. fsm_state # "IDLE"
  BY DEF RunCommand, Command, WaitReg, PioInSetup, PioRxData, PioOutSetup,
         PioTxData, DmaIn, DmaInFinal, DmaOutSetup, DmaTxData
<1>2. \E s : Goto(s)
  <2>1. CASE Command(in) \/ WaitReg(in)
    BY <2>1, Zenon DEF Command, WaitReg, Stay
  <2>2. CASE PioInSetup(in) \/ PioRxData(in) \/ PioOutSetup(in) \/ PioTxData(in)
    BY <2>2, Zenon DEF PioInSetup, PioRxData, PioOutSetup, PioTxData, Stay
  <2>3. CASE DmaIn(in) \/ DmaInFinal(in) \/ DmaOutSetup(in) \/ DmaTxData(in)
    BY <2>3, Zenon DEF DmaIn, DmaInFinal, DmaOutSetup, DmaTxData, Stay
  <2> QED BY <2>1, <2>2, <2>3 DEF RunCommand
<1> QED BY <1>1, <1>2, GotoPulses

\* No way back to idle is silent, and nothing else pulses.
THEOREM ReturnsInterrupt == Spec => EveryReturnInterrupts
<1>1. [Next]_vars
        => [return_to_idle' <=> fsm_state # "IDLE" /\ fsm_state' = "IDLE"]_vars
  <2> SUFFICES ASSUME Next
               PROVE  return_to_idle' <=> fsm_state # "IDLE" /\ fsm_state' = "IDLE"
    OBVIOUS
  <2>1. PICK in : Tick(in)
    BY StepIsTick
  <2>2. CASE AbortCommand(in)
    BY <2>2 DEF AbortCommand, AbortPulse
  <2>3. CASE StartCommand(in)
    BY <2>3 DEF StartCommand
  <2>4. CASE IdleCycle(in)
    BY <2>4 DEF IdleCycle
  <2>5. CASE RunCommand(in)
    BY <2>5, RunPulses
  <2> QED BY <2>1, <2>2, <2>3, <2>4, <2>5 DEF Tick, MasterFsm
<1> QED BY <1>1, PTL DEF Spec, EveryReturnInterrupts

-----------------------------------------------------------------------------
(* The sequencer, whatever it is told.                                     *)

\* A received word has typed fields, and a FIS that is matched has its name.
LEMMA PktFields ==
  ASSUME NEW in, InputOK(in), in.pkt.valid
  PROVE  /\ in.pkt.fis \in FisTypes \cup {"PAYLOAD"}
         /\ in.pkt.last \in BOOLEAN /\ in.pkt.int \in BOOLEAN
         /\ in.pkt.bsy \in BOOLEAN /\ in.pkt.count \in 0 .. LenSpace - 1
<1>1. in.pkt # NoPkt
  <2> SUFFICES ASSUME in.pkt = NoPkt PROVE ~in.pkt.valid
    OBVIOUS
  <2>1. NoPkt.valid = FALSE
    BY DEF NoPkt
  <2> QED BY <2>1
<1>2. in.pkt \in [valid : {TRUE}, fis : FisTypes \cup {"PAYLOAD"}, last : BOOLEAN,
                  int : BOOLEAN, bsy : BOOLEAN, count : 0 .. LenSpace - 1]
  BY <1>1 DEF InputOK, PktTypeOK
<1> QED BY <1>2

\* A write carries the fields of its register.
LEMMA WbFields ==
  ASSUME NEW in, InputOK(in)
  PROVE  /\ in.wb.a = "CMD" => /\ in.wb.op \in CmdTypes /\ in.wb.ack_int \in BOOLEAN
                               /\ in.wb.reg_to_dev \in BOOLEAN
         /\ in.wb.a = "COUNT" => in.wb.count \in 0 .. LenSpace - 1
         /\ in.wb.a = "ADDR" => in.wb.addr \in 0 .. AddrSpace - 1
         /\ in.wb.a = "PHY" => /\ in.wb.reset \in BOOLEAN /\ in.wb.hold \in BOOLEAN
                               /\ in.wb.clear \in BOOLEAN
BY DEF InputOK, WbTypeOK, NoWrite

\* What a received FIS leaves in the shadow registers.
LEMMA RxTypes ==
  ASSUME NEW in, InputOK(in), FsmTypeOK
  PROVE  /\ RxCommand(in) \in CmdTypes \cup {"STATUS"}
         /\ RxLastFis(in) \in FisTypes \cup {"NONE"}
         /\ RxInt(in) \in BOOLEAN
         /\ RxCount(in) \in 0 .. LenSpace - 1
<1>1. RxCommand(in) \in CmdTypes \cup {"STATUS"}
  BY DEF RxCommand, FsmTypeOK
<1>2. RxLastFis(in) \in FisTypes \cup {"NONE"}
  BY PktFields DEF RxLastFis, StatusFis, Fis, FsmTypeOK, FisTypes
<1>3. RxInt(in) \in BOOLEAN
  BY PktFields DEF RxInt, StatusFis, Fis, FsmTypeOK
<1>4. RxCount(in) \in 0 .. LenSpace - 1
  BY PktFields DEF RxCount, FsmTypeOK
<1> QED BY <1>1, <1>2, <1>3, <1>4

-----------------------------------------------------------------------------
(* The registers outside the master FSM.                                   *)

LEMMA DecodeTypes ==
  ASSUME NEW in, InputOK(in), FsmTypeOK, DecodeCmd(in)
  PROVE  known_cmd' \in BOOLEAN /\ cmd_type' \in CmdTypes
<1>1. known_cmd' \in BOOLEAN
  BY DEF DecodeCmd
<1>2. cmd_type' \in CmdTypes
  BY DEF DecodeCmd, FsmTypeOK, CmdTypes
<1> QED BY <1>1, <1>2

LEMMA FramingTypes ==
  ASSUME NEW in, InputOK(in), FsmTypeOK, RxFraming(in)
  PROVE  s_sop' \in BOOLEAN /\ s_active' \in BOOLEAN /\ s_posn' \in 0 .. 4
<1>1. CASE in.pkt.valid
  <2>1. s_sop' \in BOOLEAN /\ s_active' \in BOOLEAN
    BY <1>1, PktFields DEF RxFraming, FsmTypeOK
  <2>2. s_posn' \in 0 .. 4
    BY <1>1 DEF RxFraming, FsmTypeOK
  <2> QED BY <2>1, <2>2
<1>2. CASE ~in.pkt.valid
  BY <1>2 DEF RxFraming, FsmTypeOK
<1> QED BY <1>1, <1>2

LEMMA PhyTypes ==
  ASSUME NEW in, InputOK(in), FsmTypeOK, PhyControl(in)
  PROVE  /\ o_phy_reset' \in BOOLEAN /\ reset_hold' \in BOOLEAN
         /\ link_dropped' \in BOOLEAN /\ tran_failed' \in BOOLEAN
<1>1. o_phy_reset' \in BOOLEAN
  BY WbFields DEF PhyControl, Write, FsmTypeOK
<1>2. reset_hold' \in BOOLEAN
  BY WbFields DEF PhyControl, Write, FsmTypeOK
<1>3. link_dropped' \in BOOLEAN /\ tran_failed' \in BOOLEAN
  BY DEF PhyControl
<1> QED BY <1>1, <1>2, <1>3

LEMMA StreamTypes ==
  ASSUME NEW in, InputOK(in), FsmTypeOK, RegFisStream(in)
  PROVE  /\ m_valid' \in BOOLEAN /\ m_last' \in BOOLEAN /\ m_count' \in 0 .. 3
         /\ m_data' \in CmdTypes \cup {"STATUS"}
<1>1. m_valid' \in BOOLEAN
  BY DEF RegFisStream, FsmTypeOK
<1>2. m_last' \in BOOLEAN
  BY DEF RegFisStream, FsmTypeOK
<1>3. m_count' \in 0 .. 3
  BY DEF RegFisStream, FsmTypeOK
<1>4. m_data' \in CmdTypes \cup {"STATUS"}
  BY DEF RegFisStream, FsmTypeOK
<1> QED BY <1>1, <1>2, <1>3, <1>4

-----------------------------------------------------------------------------
(* The registers of the master FSM, by groups.                             *)

ControlOK == /\ fsm_state \in FsmStates
             /\ r_busy \in BOOLEAN /\ return_to_idle \in BOOLEAN
             /\ r_dma_fail \in BOOLEAN /\ last_rx_fis \in BOOLEAN
ShadowOK  == /\ r_command \in CmdTypes \cup {"STATUS"}
             /\ r_count \in 0 .. LenSpace - 1 /\ r_int \in BOOLEAN
             /\ last_fis \in FisTypes \cup {"NONE"}
TranOK    == /\ o_tran_req \in BOOLEAN /\ o_tran_src \in {"REGS", "MM2S"}
             /\ o_tran_len \in 0 .. MaxDataFis /\ dma_length \in 0 .. LenSpace - 1
DmaOK     == /\ o_s2mm_request \in BOOLEAN /\ o_mm2s_request \in BOOLEAN
             /\ o_s2mm_addr \in 0 .. AddrSpace - 1 /\ o_mm2s_addr \in 0 .. AddrSpace - 1
MasterOK  == ControlOK /\ ShadowOK /\ TranOK /\ DmaOK

LEMMA LenSpaceRange ==
  /\ LenSpace \in Nat \ {0} /\ LenSpace - 1 \in Nat
  /\ \A n \in 0 .. LenSpace - 1 : n \in Nat
<1>1. LenSpace \in Nat \ {0}
  BY DEF LenSpace
<1> QED BY <1>1

LEMMA TypeParts == FsmTypeOK => MasterOK
BY DEF FsmTypeOK, MasterOK, ControlOK, ShadowOK, TranOK, DmaOK

LEMMA AbortTypes ==
  ASSUME NEW in, FsmTypeOK, AbortCommand(in) PROVE MasterOK'
BY DEF AbortCommand, AbortPulse, FsmTypeOK, MasterOK, ControlOK, ShadowOK,
       TranOK, DmaOK, FsmStates, regVars, tranVars

LEMMA StartTypes ==
  ASSUME NEW in, InputOK(in), FsmTypeOK, StartCommand(in) PROVE MasterOK'
<1>1. ControlOK'
  BY DEF StartCommand, ControlOK, FsmTypeOK, FsmStates
<1>2. ShadowOK'
  BY RxTypes DEF StartCommand, ShadowOK, FisTypes
<1>3. TranOK'
  <2>1. r_count * SectorBytes \in Nat
    <3>1. r_count \in 0 .. LenSpace - 1
      BY DEF FsmTypeOK
    <3>2. r_count \in Nat
      BY <3>1, LenSpaceRange
    <3>3. \A n \in Nat : n * SectorBytes \in Nat
      BY DEF SectorBytes
    <3> QED BY <3>2, <3>3, Zenon
  <2>2. \A n \in Nat : n % LenSpace \in 0 .. LenSpace - 1
    BY LenSpaceRange
  <2>3. dma_length' \in 0 .. LenSpace - 1
    BY <2>1, <2>2 DEF StartCommand
  <2> QED BY <2>3 DEF StartCommand, TranOK, MaxDataFis
<1>4. DmaOK'
  BY DEF StartCommand, DmaOK, FsmTypeOK, dmaVars
<1> QED BY <1>1, <1>2, <1>3, <1>4 DEF MasterOK

LEMMA FailTypes ==
  ASSUME NEW in, InputOK(in), FsmTypeOK, DmaFail(in) PROVE r_dma_fail' \in BOOLEAN
BY DEF DmaFail

LEMMA IdleTypes ==
  ASSUME NEW in, InputOK(in), FsmTypeOK, IdleCycle(in) PROVE MasterOK'
<1>1. ControlOK'
  BY FailTypes DEF IdleCycle, ControlOK, FsmTypeOK
<1>2. ShadowOK'
  <2>1. r_command' \in CmdTypes \cup {"STATUS"}
    BY RxTypes, WbFields DEF IdleCycle, Write
  <2>2. r_int' \in BOOLEAN
    BY RxTypes DEF IdleCycle, Write, FsmTypeOK
  <2>3. r_count' \in 0 .. LenSpace - 1 /\ last_fis' \in FisTypes \cup {"NONE"}
    BY RxTypes, WbFields DEF IdleCycle, Write
  <2> QED BY <2>1, <2>2, <2>3 DEF ShadowOK
<1>3. TranOK'
  BY DEF IdleCycle, TranOK, FsmTypeOK, tranVars
<1>4. DmaOK'
  BY WbFields DEF IdleCycle, DmaOK, FsmTypeOK, Write
<1> QED BY <1>1, <1>2, <1>3, <1>4 DEF MasterOK

\* Leaving and staying both land in a state of the FSM.
LEMMA GotoTypes ==
  ASSUME FsmTypeOK
  PROVE  /\ \A s \in FsmStates : Goto(s)
              => fsm_state' \in FsmStates /\ return_to_idle' \in BOOLEAN
         /\ Stay => fsm_state' \in FsmStates /\ return_to_idle' \in BOOLEAN
BY DEF Goto, Stay, FsmTypeOK

\* The engines' handshakes and the address counters.
LEMMA DropTypes ==
  ASSUME NEW in, InputOK(in), FsmTypeOK
  PROVE  /\ DropS2mm(in) => o_s2mm_request' \in BOOLEAN
         /\ DropMm2s(in) => o_mm2s_request' \in BOOLEAN
         /\ DropTran(in) => o_tran_req' \in BOOLEAN
BY DEF DropS2mm, DropMm2s, DropTran

LEMMA BeatTypes ==
  ASSUME NEW in, NEW bytes \in Nat, FsmTypeOK, S2mmBeat(in, bytes)
  PROVE  o_s2mm_addr' \in 0 .. AddrSpace - 1
<1>1. \A n \in Nat : n % AddrSpace \in 0 .. AddrSpace - 1
  BY AddrSpaceAssumption
<1>2. o_s2mm_addr + bytes \in Nat
  BY DEF FsmTypeOK
<1> QED BY <1>1, <1>2 DEF S2mmBeat, FsmTypeOK

\* Taking part of a length away leaves a length.
LEMMA PartTypes ==
  ASSUME NEW top \in Nat, NEW len \in 0 .. top, NEW n \in Nat, n <= len
  PROVE  len - n \in 0 .. top
OBVIOUS

LEMMA LeftTypes ==
  ASSUME NEW len \in 0 .. LenSpace - 1, NEW n \in Nat, n <= len
  PROVE  len - n \in 0 .. LenSpace - 1
<1>1. LenSpace - 1 \in Nat
  BY LenSpaceRange
<1> QED BY <1>1, PartTypes

\* One data FIS is never longer than the engine can count, nor than what is left.
LEMMA OneFisTypes ==
  ASSUME NEW len \in 0 .. LenSpace - 1
  PROVE  OneFis(len) \in 0 .. MaxDataFis /\ len - OneFis(len) \in 0 .. LenSpace - 1
<1>1. len \in Nat
  BY LenSpaceRange
<1>2. OneFis(len) \in 0 .. MaxDataFis /\ OneFis(len) \in Nat /\ OneFis(len) <= len
  BY <1>1 DEF OneFis, MaxDataFis
<1> QED BY <1>2, LeftTypes

\* What each state's cycle does to the registers it drives: control, requests
\* and lengths.
StateOK == /\ fsm_state \in FsmStates /\ return_to_idle \in BOOLEAN
           /\ last_rx_fis \in BOOLEAN
           /\ TranOK /\ DmaOK

LEMMA CommandTypes ==
  ASSUME NEW in, InputOK(in), FsmTypeOK, Command(in) PROVE StateOK'
<1>1. \E s \in FsmStates : Goto(s)
  BY Zenon DEF Command, FsmTypeOK, CmdTypes, FsmStates, Stay
<1>2. fsm_state' \in FsmStates /\ return_to_idle' \in BOOLEAN
  BY <1>1, GotoTypes
<1>3. TranOK'
  BY DEF Command, TranOK, FsmTypeOK
<1>4. DmaOK'
  BY DEF Command, DmaOK, FsmTypeOK
<1> QED BY <1>2, <1>3, <1>4 DEF StateOK, Command, FsmTypeOK

LEMMA WaitRegTypes ==
  ASSUME NEW in, InputOK(in), FsmTypeOK, WaitReg(in) PROVE StateOK'
<1>1. fsm_state' \in FsmStates /\ return_to_idle' \in BOOLEAN
  BY GotoTypes DEF WaitReg, FsmStates
<1>2. TranOK' /\ DmaOK'
  BY DEF WaitReg, TranOK, DmaOK, FsmTypeOK, dmaVars
<1> QED BY <1>1, <1>2 DEF StateOK, WaitReg, FsmTypeOK

LEMMA PioInTypes ==
  ASSUME NEW in, InputOK(in), FsmTypeOK, PioInSetup(in) \/ PioRxData(in) PROVE StateOK'
<1>1. CASE PioInSetup(in)
  <2>1. fsm_state' \in FsmStates /\ return_to_idle' \in BOOLEAN
    BY <1>1, GotoTypes DEF PioInSetup, FsmStates
  <2>2. TranOK' /\ DmaOK'
    BY <1>1 DEF PioInSetup, TranOK, DmaOK, FsmTypeOK, tranVars
  <2>3. last_rx_fis' \in BOOLEAN
    BY <1>1 DEF PioInSetup
  <2> QED BY <2>1, <2>2, <2>3 DEF StateOK
<1>2. CASE PioRxData(in)
  <2>1. fsm_state' \in FsmStates /\ return_to_idle' \in BOOLEAN
    BY <1>2, GotoTypes DEF PioRxData, FsmStates
  <2>2. DmaOK'
    BY <1>2, DropTypes, BeatTypes, BusShiftAssumption DEF PioRxData, DmaOK, FsmTypeOK
  <2>3. TranOK' /\ last_rx_fis' \in BOOLEAN
    BY <1>2 DEF PioRxData, TranOK, FsmTypeOK, tranVars
  <2> QED BY <2>1, <2>2, <2>3 DEF StateOK
<1> QED BY <1>1, <1>2

LEMMA PioOutTypes ==
  ASSUME NEW in, InputOK(in), FsmTypeOK, PioOutSetup(in) \/ PioTxData(in) PROVE StateOK'
<1>1. CASE PioOutSetup(in)
  <2>1. fsm_state' \in FsmStates /\ return_to_idle' \in BOOLEAN
    BY <1>1, GotoTypes DEF PioOutSetup, FsmStates
  <2>2. TranOK'
    BY <1>1, OneFisTypes DEF PioOutSetup, TranOK, FsmTypeOK
  <2>3. DmaOK' /\ last_rx_fis' \in BOOLEAN
    BY <1>1 DEF PioOutSetup, DmaOK, FsmTypeOK, Fis
  <2> QED BY <2>1, <2>2, <2>3 DEF StateOK
<1>2. CASE PioTxData(in)
  <2>1. fsm_state' \in FsmStates /\ return_to_idle' \in BOOLEAN
    BY <1>2, GotoTypes DEF PioTxData, FsmStates
  <2>2. TranOK' /\ DmaOK' /\ last_rx_fis' \in BOOLEAN
    BY <1>2, DropTypes DEF PioTxData, TranOK, DmaOK, FsmTypeOK
  <2> QED BY <2>1, <2>2 DEF StateOK
<1> QED BY <1>1, <1>2

LEMMA DmaInTypes ==
  ASSUME NEW in, InputOK(in), FsmTypeOK, DmaIn(in) \/ DmaInFinal(in) PROVE StateOK'
<1>1. CASE DmaIn(in)
  <2>1. fsm_state' \in FsmStates /\ return_to_idle' \in BOOLEAN
    BY <1>1, GotoTypes DEF DmaIn, FsmStates
  <2>2. DmaOK'
    BY <1>1, DropTypes, BeatTypes DEF DmaIn, DmaOK, FsmTypeOK
  <2>3. TranOK' /\ last_rx_fis' \in BOOLEAN
    BY <1>1 DEF DmaIn, TranOK, FsmTypeOK, tranVars
  <2> QED BY <2>1, <2>2, <2>3 DEF StateOK
<1>2. CASE DmaInFinal(in)
  <2>1. fsm_state' \in FsmStates /\ return_to_idle' \in BOOLEAN
    BY <1>2, GotoTypes DEF DmaInFinal, FsmStates
  <2>2. TranOK' /\ DmaOK' /\ last_rx_fis' \in BOOLEAN
    BY <1>2 DEF DmaInFinal, TranOK, DmaOK, FsmTypeOK, tranVars, dmaVars
  <2> QED BY <2>1, <2>2 DEF StateOK
<1> QED BY <1>1, <1>2

LEMMA DmaOutTypes ==
  ASSUME NEW in, InputOK(in), FsmTypeOK, DmaOutSetup(in) \/ DmaTxData(in) PROVE StateOK'
<1>1. CASE DmaOutSetup(in)
  <2>1. fsm_state' \in FsmStates /\ return_to_idle' \in BOOLEAN
    BY <1>1, GotoTypes DEF DmaOutSetup, FsmStates
  <2>2. dma_length' \in 0 .. LenSpace - 1 /\ o_tran_len' \in 0 .. MaxDataFis
    BY <1>1, OneFisTypes DEF DmaOutSetup, LeftAfter, FsmTypeOK
  <2>3. TranOK' /\ DmaOK' /\ last_rx_fis' \in BOOLEAN
    BY <1>1, <2>2 DEF DmaOutSetup, TranOK, DmaOK, FsmTypeOK, Fis
  <2> QED BY <2>1, <2>3 DEF StateOK
<1>2. CASE DmaTxData(in)
  <2>1. fsm_state' \in FsmStates /\ return_to_idle' \in BOOLEAN
    BY <1>2, GotoTypes DEF DmaTxData, FsmStates
  <2>2. TranOK' /\ DmaOK' /\ last_rx_fis' \in BOOLEAN
    BY <1>2, DropTypes DEF DmaTxData, TranOK, DmaOK, FsmTypeOK
  <2> QED BY <2>1, <2>2 DEF StateOK
<1> QED BY <1>1, <1>2

LEMMA RunTypes ==
  ASSUME NEW in, InputOK(in), FsmTypeOK, RunCommand(in) PROVE MasterOK'
<1>1. StateOK'
  BY CommandTypes, WaitRegTypes, PioInTypes, PioOutTypes, DmaInTypes, DmaOutTypes
     DEF RunCommand
<1>2. ShadowOK'
  BY RxTypes DEF RunCommand, RxStatus, ShadowOK
<1>3. r_busy' \in BOOLEAN /\ r_dma_fail' \in BOOLEAN
  BY FailTypes DEF RunCommand, FsmTypeOK
<1> QED BY <1>1, <1>2, <1>3 DEF StateOK, MasterOK, ControlOK

\* A clock edge under typed inputs keeps the registers typed.
LEMMA TickTypes ==
  ASSUME NEW in, InputOK(in), FsmTypeOK, Tick(in) PROVE FsmTypeOK'
<1>1. MasterOK'
  BY AbortTypes, StartTypes, IdleTypes, RunTypes DEF Tick, MasterFsm
<1>2. known_cmd' \in BOOLEAN /\ cmd_type' \in CmdTypes
  BY DecodeTypes DEF Tick
<1>3. s_sop' \in BOOLEAN /\ s_active' \in BOOLEAN /\ s_posn' \in 0 .. 4
  BY FramingTypes DEF Tick
<1>4. /\ o_phy_reset' \in BOOLEAN /\ reset_hold' \in BOOLEAN
      /\ link_dropped' \in BOOLEAN /\ tran_failed' \in BOOLEAN
  BY PhyTypes DEF Tick
<1>5. /\ m_valid' \in BOOLEAN /\ m_last' \in BOOLEAN /\ m_count' \in 0 .. 3
      /\ m_data' \in CmdTypes \cup {"STATUS"}
  BY StreamTypes DEF Tick
<1> QED BY <1>1, <1>2, <1>3, <1>4, <1>5
        DEF FsmTypeOK, MasterOK, ControlOK, ShadowOK, TranOK, DmaOK

-----------------------------------------------------------------------------
(* Its environment.                                                        *)

\* A party that moves can: the device holds a script, and data if it is to
\* take some; the reading engine's FIFO is not empty when a word is taken.
LEMMA MoversCan ==
  ASSUME NEW go, \A p \in go : CanMove(p)
  PROVE  /\ "dev" \in go => DevCanMove
         /\ "s2mm" \in go => s2mm.busy /\ (s2mm.last \/ rxq # <<>>)
BY DEF CanMove

LEMMA PacketTypes ==
  ASSUME NEW go PROVE PktTypeOK(Packet(go))
<1>1. CASE ~\E item \in {"ACT", "PIO", "PIO_MORE", "REG"} : DevSends(go, item)
  BY <1>1 DEF Packet, PktTypeOK
<1>2. CASE \E item \in {"ACT", "PIO", "PIO_MORE", "REG"} : DevSends(go, item)
  <2> DEFINE h == Head(dev_script)
             name == IF dev_words = 0 THEN FisName(h) ELSE "PAYLOAD"
             int == dev_words = 0 /\ h = "REG" /\ RegInt
  <2>1. name \in FisTypes \cup {"PAYLOAD"}
    BY <1>2 DEF DevSends, FisName, FisTypes
  <2>2. LastWord \in BOOLEAN /\ (h = "PIO_MORE") \in BOOLEAN /\ int \in BOOLEAN
    BY DEF LastWord
  <2>3. 0 \in 0 .. LenSpace - 1
    BY DEF LenSpace
  <2>4. Packet(go) = [valid |-> TRUE, last |-> LastWord, count |-> 0, fis |-> name,
                      bsy |-> h = "PIO_MORE", int |-> int]
    BY <1>2 DEF Packet
  <2> HIDE DEF name, int, h
  <2> QED BY <2>1, <2>2, <2>3, <2>4 DEF PktTypeOK
<1> QED BY <1>1, <1>2

\* What the host writes is a write of one of the registers.
LEMMA WritesTypes ==
  /\ WbTypeOK(NoWrite)
  /\ \A wb \in DriverWrites : WbTypeOK(wb)
  /\ \A wb \in StrayWrites : WbTypeOK(wb)
<1>1. \A op \in CmdTypes, sel \in SUBSET (0 .. 3), r \in BOOLEAN :
        WbTypeOK(CmdWrite(op, sel, r))
  BY DEF WbTypeOK, CmdWrite
<1>2. WbTypeOK(PhyReset)
  BY DEF WbTypeOK, PhyReset
<1>3. \A wb \in DriverWrites : WbTypeOK(wb)
  <2> SUFFICES ASSUME NEW wb \in DriverWrites PROVE WbTypeOK(wb)
    OBVIOUS
  <2>1. \/ wb \in {[a |-> "COUNT", count |-> n] : n \in Counts}
        \/ wb \in {[a |-> "ADDR", addr |-> b] : b \in Bases}
        \/ wb \in {CmdWrite(op, 0 .. 3, TRUE) : op \in Ops}
    BY DEF DriverWrites
  <2>2. CASE wb \in {[a |-> "COUNT", count |-> n] : n \in Counts}
    BY <2>2, HostAssumption DEF WbTypeOK
  <2>3. CASE wb \in {[a |-> "ADDR", addr |-> b] : b \in Bases}
    BY <2>3, HostAssumption DEF WbTypeOK
  <2>4. CASE wb \in {CmdWrite(op, 0 .. 3, TRUE) : op \in Ops}
    BY <1>1, <2>4, HostAssumption
  <2> QED BY <2>1, <2>2, <2>3, <2>4
<1>4. \A wb \in StrayWrites : WbTypeOK(wb)
  <2> SUFFICES ASSUME NEW wb \in StrayWrites PROVE WbTypeOK(wb)
    OBVIOUS
  <2>1. \/ wb \in {CmdWrite(op, 0 .. 3, TRUE) : op \in StrayOps}
        \/ wb = CmdWrite("NONDATA", 0 .. 3, FALSE)
        \/ wb = CmdWrite("NONDATA", {1, 2}, TRUE)
        \/ wb = PhyReset
    BY DEF StrayWrites
  <2>2. "NONDATA" \in CmdTypes /\ {1, 2} \in SUBSET (0 .. 3)
    BY DEF CmdTypes
  <2> QED BY <1>1, <1>2, <2>1, <2>2, HostAssumption
<1>5. WbTypeOK(NoWrite)
  BY DEF WbTypeOK
<1> QED BY <1>3, <1>4, <1>5

LEMMA WiresTypes ==
  ASSUME TypeOK, NEW go, NEW wb, WbTypeOK(wb), NEW fault
  PROVE  InputOK(Wires(go, wb, fault))
<1>1. Beat(go) \in BOOLEAN
  BY DEF Beat
<1>2. link_up \in BOOLEAN /\ s2mm.busy \in BOOLEAN /\ s2mm.err \in BOOLEAN
      /\ mm2s.busy \in BOOLEAN /\ mm2s.err \in BOOLEAN
  BY DEF TypeOK, EnvTypeOK
<1> QED BY <1>1, <1>2, PacketTypes DEF InputOK, Wires

-----------------------------------------------------------------------------
(* The device.                                                             *)

\* A device's script, written out, is a sequence of items.
LEMMA ShortSeqs ==
  ASSUME NEW S, NEW a \in S, NEW b \in S, NEW c \in S
  PROVE  <<a>> \in Seq(S) /\ <<a, b>> \in Seq(S) /\ <<a, b, c>> \in Seq(S)
OBVIOUS

LEMMA ScriptTypes == \A op : Script(op) \in Seq(Items)
<1>1. {"ACT", "OUT", "PIO", "PIO_MORE", "PIO_OUT", "DATA", "REG"} \subseteq Items
  BY DEF Items
<1>2. /\ <<"DATA", "REG">> \in Seq(Items) /\ <<"ACT", "OUT", "REG">> \in Seq(Items)
      /\ <<"PIO", "DATA", "REG">> \in Seq(Items) /\ <<"REG">> \in Seq(Items)
      /\ <<"PIO", "PIO_OUT", "REG">> \in Seq(Items)
  BY <1>1, ShortSeqs
<1>3. <<"PIO_MORE", "DATA", "REG", "PIO", "DATA", "REG">> \in Seq(Items)
  BY <1>1
<1> QED BY <1>2, <1>3 DEF Script

LEMMA ScriptAfterTypes ==
  ASSUME EnvTypeOK, NEW go, \A p \in go : CanMove(p)
  PROVE  ScriptAfter(go) \in Seq(Items)
<1>1. "dev" \in go => dev_script # <<>>
  BY MoversCan DEF DevCanMove
<1>2. "dev" \in go => Tail(dev_script) \in Seq(Items)
  BY <1>1, HeadTailProperties DEF EnvTypeOK
<1>3. Again \in Seq(Items) /\ <<>> \in Seq(Items)
  <2>1. {"ACT", "OUT", "PIO", "PIO_OUT"} \subseteq Items
    BY DEF Items
  <2>2. <<"ACT", "OUT">> \in Seq(Items) /\ <<"PIO", "PIO_OUT">> \in Seq(Items)
    BY <2>1, ShortSeqs
  <2> QED BY <2>2 DEF Again
<1>4. TakesData(go) => (IF Settled < dev_left THEN Again ELSE <<>>) \o Tail(dev_script) \in Seq(Items)
  BY <1>2, <1>3, ConcatProperties DEF TakesData
<1> QED BY <1>2, <1>4 DEF ScriptAfter, EnvTypeOK

LEMMA BegunTypes ==
  ASSUME EnvTypeOK, NEW go, \A p \in go : CanMove(p)
  PROVE  Begun(go) \in Seq(Items)
<1>1. ScriptAfter(go) \in Seq(Items)
  BY ScriptAfterTypes
<1>2. ScriptAfter(go) # <<>> => Head(ScriptAfter(go)) \in Items
  BY <1>1, HeadTailProperties
<1> QED BY <1>2 DEF Begun

LEMMA SettledTypes ==
  ASSUME EnvTypeOK, NEW go, \A p \in go : CanMove(p), TakesData(go)
  PROVE  Settled \in Int
<1>1. outq # <<>>
  BY MoversCan DEF TakesData, DevCanMove
<1>2. Head(outq) \in 0 .. MaxDataFis
  BY <1>1, HeadTailProperties DEF EnvTypeOK
<1>3. Head(outq) \in Int /\ SectorBytes \in Int
  BY <1>2 DEF SectorBytes
<1> QED BY <1>3 DEF Settled

LEMMA DeviceTypes ==
  ASSUME TypeOK, NEW go, NEW fault, \A p \in go : CanMove(p), Device(go, fault)
  PROVE  dev_script' \in Seq(Items) /\ dev_words' \in Nat /\ dev_left' \in Int
<1>1. EnvTypeOK /\ FsmTypeOK
  BY DEF TypeOK
<1>2. <<"REG">> \in Seq(Items) /\ <<>> \in Seq(Items)
  BY DEF Items
<1>3. dev_script' \in Seq(Items)
  <2>1. CASE link_up /\ link_up'
    <3>1. PICK answer \in IF ~FisLeaves(go) THEN {<<>>}
                    ELSE {Script(m_data)} \cup (IF DevAborts THEN {<<"REG">>} ELSE {}) :
            dev_script' = IF FisLeaves(go) THEN Begun(go) \o answer ELSE ScriptAfter(go)
      BY <2>1 DEF Device
    <3>2. answer \in Seq(Items)
      BY <1>2, ScriptTypes
    <3>3. Begun(go) \o answer \in Seq(Items)
      BY <1>1, <3>2, BegunTypes, ConcatProperties
    <3> QED BY <1>1, <3>1, <3>3, ScriptAfterTypes
  <2>2. CASE ~(link_up /\ link_up')
    BY <1>2, <2>2 DEF Device
  <2> QED BY <2>1, <2>2
<1>4. dev_words' \in Nat
  BY <1>1 DEF Device, EnvTypeOK
<1>5. dev_left' \in Int
  <2>1. r_count * SectorBytes \in Int
    BY <1>1 DEF FsmTypeOK, SectorBytes
  <2>2. TakesData(go) => dev_left - Settled \in Int
    BY <1>1, SettledTypes DEF EnvTypeOK
  <2> QED BY <1>1, <2>1, <2>2 DEF Device, EnvTypeOK
<1> QED BY <1>3, <1>4, <1>5

-----------------------------------------------------------------------------
(* The engines.                                                            *)

Writer == [busy : BOOLEAN, err : BOOLEAN, last : BOOLEAN, addr : 0 .. AddrSpace - 1]
Reader == [busy : BOOLEAN, err : BOOLEAN, addr : 0 .. AddrSpace - 1, len : 0 .. MaxDataFis]

LEMMA S2mmTypes ==
  ASSUME TypeOK, NEW go, NEW fault, \A p \in go : CanMove(p), S2mm(go, fault)
  PROVE  s2mm' \in Writer /\ rxq' \in Seq(BOOLEAN)
<1>1. s2mm \in Writer /\ rxq \in Seq(BOOLEAN)
  BY DEF TypeOK, EnvTypeOK, Writer
<1>2. \A a \in 0 .. AddrSpace - 1 : EngineIdle(a) \in Writer
  BY DEF EngineIdle, Writer
<1>3. Beat(go) => rxq # <<>>
  BY MoversCan DEF Beat
<1>4. Beat(go) => Head(rxq) \in BOOLEAN /\ Tail(rxq) \in Seq(BOOLEAN)
  BY <1>1, <1>3, HeadTailProperties
<1>5. (s2mm.addr + BusBytes) % AddrSpace \in 0 .. AddrSpace - 1
  <2>1. \A n \in Nat : n % AddrSpace \in 0 .. AddrSpace - 1
    BY AddrSpaceAssumption
  <2>2. s2mm.addr + BusBytes \in Nat
    BY <1>1, BusBytesAssumption DEF Writer
  <2> QED BY <2>1, <2>2
<1>6. 0 \in 0 .. AddrSpace - 1 /\ o_s2mm_addr \in 0 .. AddrSpace - 1
      /\ o_s2mm_request \in BOOLEAN
  BY AddrSpaceAssumption DEF TypeOK, FsmTypeOK
<1>7. s2mm' \in Writer
  <2>1. [EngineIdle(o_s2mm_addr) EXCEPT !.busy = o_s2mm_request /\ ~s2mm.busy] \in Writer
    BY <1>1, <1>6 DEF EngineIdle, Writer
  <2>2. [EngineIdle(o_s2mm_addr) EXCEPT !.err = TRUE] \in Writer
    BY <1>6 DEF EngineIdle, Writer
  <2>3. Beat(go) => [s2mm EXCEPT !.last = Head(rxq), !.err = ReachesEnd,
                                    !.addr = (@ + BusBytes) % AddrSpace] \in Writer
    <3>1. ReachesEnd \in BOOLEAN
      BY DEF ReachesEnd
    <3> QED BY <1>1, <1>4, <1>5, <3>1 DEF Writer
  <2>4. [s2mm EXCEPT !.busy = FALSE] \in Writer
    BY <1>1 DEF Writer
  <2> QED BY <1>1, <1>2, <1>6, <2>1, <2>2, <2>3, <2>4 DEF S2mm
<1>8. rxq' \in Seq(BOOLEAN)
  <2> DEFINE kept == IF Beat(go) THEN Tail(rxq) ELSE rxq
             come == IF DevSends(go, "DATA") THEN <<LastWord>> ELSE <<>>
  <2>1. kept \in Seq(BOOLEAN)
    BY <1>1, <1>4
  <2>2. come \in Seq(BOOLEAN)
    <3>1. LastWord \in BOOLEAN
      BY DEF LastWord
    <3>2. <<LastWord>> \in Seq(BOOLEAN) /\ <<>> \in Seq(BOOLEAN)
      BY <3>1, ShortSeqs
    <3> QED BY <3>2
  <2>3. kept \o come \in Seq(BOOLEAN)
    BY <2>1, <2>2, ConcatProperties
  <2>4. rxq' = <<>> \/ rxq' = kept \o come
    BY DEF S2mm
  <2>5. <<>> \in Seq(BOOLEAN)
    OBVIOUS
  <2> QED BY <2>3, <2>4, <2>5
<1> QED BY <1>7, <1>8

LEMMA Mm2sTypes ==
  ASSUME TypeOK, NEW go, NEW fault, \A p \in go : CanMove(p), Mm2s(go, fault)
  PROVE  mm2s' \in Reader /\ outq' \in Seq(0 .. MaxDataFis)
<1>1. mm2s \in Reader /\ outq \in Seq(0 .. MaxDataFis)
  BY DEF TypeOK, EnvTypeOK, Reader
<1>2. 0 \in 0 .. AddrSpace - 1 /\ o_mm2s_addr \in 0 .. AddrSpace - 1
      /\ o_mm2s_request \in BOOLEAN /\ o_tran_len \in 0 .. MaxDataFis
  BY AddrSpaceAssumption DEF TypeOK, FsmTypeOK
<1>3. mm2s' \in Reader
  <2>1. ReaderIdle \in Reader
    BY <1>2 DEF ReaderIdle, Reader, MaxDataFis
  <2>2. [busy |-> o_mm2s_request, err |-> FALSE, addr |-> o_mm2s_addr, len |-> o_tran_len] \in Reader
    BY <1>2 DEF Reader
  <2>3. [mm2s EXCEPT !.err = TRUE] \in Reader
    BY <1>1 DEF Reader
  <2>4. [mm2s EXCEPT !.busy = "mm2s" \notin go] \in Reader
    BY <1>1 DEF Reader
  <2> QED BY <2>1, <2>2, <2>3, <2>4 DEF Mm2s
<1>4. outq' \in Seq(0 .. MaxDataFis)
  <2> DEFINE kept == IF TakesData(go) THEN Tail(outq) ELSE outq
             sent == IF ChunkDone(go, fault) THEN <<mm2s.len>> ELSE <<>>
  <2>1. TakesData(go) => outq # <<>>
    BY MoversCan DEF TakesData, DevCanMove
  <2>2. kept \in Seq(0 .. MaxDataFis)
    BY <1>1, <2>1, HeadTailProperties
  <2>3. sent \in Seq(0 .. MaxDataFis)
    <3>1. mm2s.len \in 0 .. MaxDataFis
      BY <1>1 DEF Reader
    <3>2. <<mm2s.len>> \in Seq(0 .. MaxDataFis) /\ <<>> \in Seq(0 .. MaxDataFis)
      BY <3>1, ShortSeqs
    <3> QED BY <3>2
  <2>4. kept \o sent \in Seq(0 .. MaxDataFis)
    BY <2>2, <2>3, ConcatProperties
  <2>5. outq' = kept \o sent
    BY DEF Mm2s
  <2> QED BY <2>4, <2>5
<1> QED BY <1>3, <1>4

-----------------------------------------------------------------------------
LEMMA HostTypes ==
  ASSUME EnvTypeOK, NEW wb, NEW stray, Host(wb, stray)
  PROVE  host' \in {"count", "addr", "cmd", "wait"} /\ issued' \in Nat
BY DEF EnvTypeOK, Host

LEMMA CycleTypes ==
  ASSUME TypeOK, NEW go, NEW wb, WbTypeOK(wb), NEW stray, NEW fault,
         Cycle(go, wb, stray, fault)
  PROVE  TypeOK'
<1>0. EnvTypeOK /\ FsmTypeOK /\ (\A p \in go : CanMove(p))
  BY DEF TypeOK, Cycle
<1>1. FsmTypeOK'
  BY <1>0, WiresTypes, TickTypes DEF Cycle
<1>2. link_up' \in BOOLEAN
  BY DEF Cycle, Link
<1>3. faults' \in Nat
  BY <1>0 DEF Cycle, EnvTypeOK
<1>4. dev_script' \in Seq(Items) /\ dev_words' \in Nat /\ dev_left' \in Int
  BY <1>0, DeviceTypes DEF Cycle
<1>5. s2mm' \in Writer /\ rxq' \in Seq(BOOLEAN)
  BY <1>0, S2mmTypes DEF Cycle
<1>6. mm2s' \in Reader /\ outq' \in Seq(0 .. MaxDataFis)
  BY <1>0, Mm2sTypes DEF Cycle
<1>7. host' \in {"count", "addr", "cmd", "wait"} /\ issued' \in Nat
  BY <1>0, HostTypes DEF Cycle
<1> QED BY <1>1, <1>2, <1>3, <1>4, <1>5, <1>6, <1>7 DEF TypeOK, EnvTypeOK, Writer, Reader

LEMMA TypeInit == Init => TypeOK
<1> SUFFICES ASSUME Init PROVE TypeOK
  OBVIOUS
<1>1. 0 \in 0 .. AddrSpace - 1
  BY AddrSpaceAssumption
<1>2. FsmTypeOK
  <2>1. 0 \in 0 .. LenSpace - 1 /\ 0 \in 0 .. MaxDataFis /\ 0 \in 0 .. 3 /\ 0 \in 0 .. 4
    BY DEF LenSpace, MaxDataFis
  <2>2. "IDLE" \in FsmStates /\ "NONDATA" \in CmdTypes
    BY DEF FsmStates, CmdTypes
  <2> QED BY <1>1, <2>1, <2>2 DEF Init, FsmInit, FsmTypeOK
<1>3. s2mm \in Writer /\ mm2s \in Reader
  BY <1>1 DEF Init, EnvInit, EngineIdle, ReaderIdle, Writer, Reader, MaxDataFis
<1>4. <<>> \in Seq(Items) /\ <<>> \in Seq(BOOLEAN) /\ <<>> \in Seq(0 .. MaxDataFis)
  OBVIOUS
<1>5. EnvTypeOK
  <2>1. /\ dev_script = <<>> /\ rxq = <<>> /\ outq = <<>>
        /\ link_up = FALSE /\ faults = 0 /\ issued = 0
        /\ dev_words = 0 /\ dev_left = 0 /\ host = "count"
    BY DEF Init, EnvInit
  <2>2. link_up \in BOOLEAN /\ host \in {"count", "addr", "cmd", "wait"}
    BY <2>1, Zenon
  <2>4. faults \in Nat /\ issued \in Nat /\ dev_words \in Nat /\ dev_left \in Int
    BY <2>1
  <2>3. dev_script \in Seq(Items) /\ rxq \in Seq(BOOLEAN) /\ outq \in Seq(0 .. MaxDataFis)
    BY <1>4, <2>1
  <2> QED BY <1>3, <2>2, <2>3, <2>4 DEF EnvTypeOK, Writer, Reader
<1> QED BY <1>2, <1>5 DEF TypeOK

LEMMA TypeStep == TypeOK /\ [Next]_vars => TypeOK'
<1> SUFFICES ASSUME TypeOK, [Next]_vars PROVE TypeOK'
  OBVIOUS
<1>1. CASE Next
  <2>1. PICK go \in SUBSET Parties : Step(go)
    BY <1>1 DEF Next
  <2>2. PICK fault \in AllFaults \cup {"none"} :
          \/ Cycle(go, NoWrite, FALSE, fault)
          \/ \E wb \in DriverWrites : Cycle(go, wb, FALSE, fault)
          \/ fault = "none" /\ \E wb \in StrayWrites : Cycle(go, wb, TRUE, fault)
    BY <2>1 DEF Step
  <2>3. PICK wb, stray : WbTypeOK(wb) /\ Cycle(go, wb, stray, fault)
    BY <2>2, WritesTypes
  <2> QED BY <2>3, CycleTypes
<1>2. CASE UNCHANGED vars
  BY <1>2 DEF vars, envVars, fsmVars, regVars, tranVars, dmaVars, TypeOK, FsmTypeOK, EnvTypeOK
<1> QED BY <1>1, <1>2

\* Every register of the transport layer holds what it can hold: the byte
\* count never leaves its 16 bits, no data FIS exceeds 2048 bytes, and an
\* engine's address stays in the address space, whatever the device, the link
\* and the host do.
THEOREM TypeCorrect == Spec => []TypeOK
BY TypeInit, TypeStep, PTL DEF Spec

=============================================================================
