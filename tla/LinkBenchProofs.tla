--------------------------- MODULE LinkBenchProofs ---------------------------
(***************************************************************************)
(* The bench for all of its constants: sizes, delays, time-outs, sets of   *)
(* departures and damaged words.  Registers, counters and the receive FIFO *)
(* keep their ranges, the host is told of a link only when the device has  *)
(* gone through its bring-up, and a link that is up stays up.              *)
(***************************************************************************)
EXTENDS LinkBench, SequenceTheorems, TLAPS

-----------------------------------------------------------------------------
(* Types, component by component *)

\* Counters that stop before zero, and the marks of the receive pipeline.
ResetCounters == ~check_alignment => min_alignment_counter >= 1
AlignCounters == ~al_trigger => al_counter >= 1
BeatsOK ==
  /\ df.last \in BOOLEAN /\ ds.last \in BOOLEAN /\ m_out.last \in BOOLEAN
  /\ DOMAIN m_out = {"valid", "data", "last", "abort"}

\* The received words on their way to memory.
RxWords(V) == [data : V, last : BOOLEAN, wait : 0 .. Cross]
RxPathOK == \E V : rx_path \in Seq(RxWords(V))

TxResetOK ==
  /\ fsm_state \in ResetStates
  /\ o_tx_cominit \in BOOLEAN /\ o_tx_comwake \in BOOLEAN /\ o_link_up \in BOOLEAN
  /\ retry_timeout \in BOOLEAN /\ check_alignment \in BOOLEAN
  /\ watchdog_counter \in 0 .. Watchdog
  /\ min_alignment_counter \in 0 .. MinAlignment
  /\ ResetCounters

RxResetOK ==
  /\ rx_linkup_xpipe \in BOOLEAN /\ rx_linkup \in BOOLEAN
  /\ ext \in [Signals -> 0 .. Extend]

\* A count-down stays within its range.
LEMMA CountsDown ==
  \A top \in Nat : \A n \in 0 .. top : (IF n = 0 THEN 0 ELSE n - 1) \in 0 .. top
OBVIOUS

LEMMA StepsBack ==
  \A top \in Nat : \A n \in 0 .. top : ~(n <= 1) => n - 1 >= 1
OBVIOUS

LEMMA ResetTypes ==
  ASSUME TxResetOK, NEW i_phy_ready, NEW i_tx_comfinish, NEW word,
         ResetStep(i_phy_ready, i_tx_comfinish, word)
  PROVE  TxResetOK'
<1>1. fsm_state' \in ResetStates
  BY DEF TxResetOK, ResetStep, NextState, ResetStates
<1>2. o_tx_cominit' \in BOOLEAN /\ o_tx_comwake' \in BOOLEAN /\ o_link_up' \in BOOLEAN
  BY DEF ResetStep
<1>3. watchdog_counter' \in 0 .. Watchdog
  <2>1. CASE WatchdogRests
    <3>1. watchdog_counter' = Watchdog
      BY <2>1, Zenon DEF ResetStep
    <3> QED BY <3>1, ResetAssumption
  <2>2. CASE ~WatchdogRests
    <3>1. watchdog_counter' = Ticked
      BY <2>2, Zenon DEF ResetStep
    <3> QED BY <3>1, CountsDown, ResetAssumption DEF Ticked, TxResetOK
  <2> QED BY <2>1, <2>2
<1>4. retry_timeout' \in BOOLEAN /\ check_alignment' \in BOOLEAN
  <2>1. (watchdog_counter <= 1) \in BOOLEAN /\ (min_alignment_counter <= 1) \in BOOLEAN
    OBVIOUS
  <2> QED BY <2>1, Zenon DEF TxResetOK, ResetStep
<1>5. min_alignment_counter' \in 0 .. MinAlignment /\ ResetCounters'
  <2>1. CASE fsm_state # "AWAIT_ALIGN"
    <3>1. min_alignment_counter' = MinAlignment
      BY <2>1, Zenon DEF ResetStep
    <3> QED BY <3>1, ResetAssumption DEF ResetCounters
  <2>2. CASE fsm_state = "AWAIT_ALIGN" /\ check_alignment
    <3>1. UNCHANGED <<min_alignment_counter, check_alignment>>
      BY <2>2, Zenon DEF ResetStep
    <3> QED BY <3>1 DEF TxResetOK, ResetCounters
  <2>3. CASE fsm_state = "AWAIT_ALIGN" /\ ~check_alignment
    <3>1. /\ min_alignment_counter' = min_alignment_counter - 1
          /\ check_alignment' = (min_alignment_counter <= 1)
      BY <2>3, Zenon DEF ResetStep
    <3>2. min_alignment_counter \in 0 .. MinAlignment /\ min_alignment_counter >= 1
      BY <2>3 DEF TxResetOK, ResetCounters
    <3>3. min_alignment_counter' \in 0 .. MinAlignment
      BY <3>1, <3>2, ResetAssumption
    <3>6. MinAlignment \in Nat
      BY ResetAssumption
    <3>5. check_alignment' <=> min_alignment_counter <= 1
      BY <3>1, Zenon
    <3>4. ~check_alignment' => min_alignment_counter' >= 1
      BY <3>1, <3>2, <3>5, <3>6, StepsBack, Zenon
    <3> QED BY <3>3, <3>4 DEF ResetCounters
  <2> QED BY <2>1, <2>2, <2>3
<1> QED BY <1>1, <1>2, <1>3, <1>4, <1>5 DEF TxResetOK

LEMMA SampleTypes ==
  ASSUME RxResetOK, TxResetOK, NEW sig, RxSample(sig)
  PROVE  RxResetOK'
<1>1. ASSUME NEW s \in Signals PROVE ext'[s] \in 0 .. Extend
  BY ResetAssumption DEF RxResetOK, RxSample
<1>2. ext' = [s \in Signals |-> ext'[s]]
  BY DEF RxSample
<1> QED BY <1>1, <1>2 DEF RxResetOK, TxResetOK, RxSample

LEMMA LinkTypes ==
  ASSUME LinkTypeOK, NEW in, LinkStep(in)
  PROVE  LinkTypeOK'
<1>1. link_state' \in LinkStates
  <2>1. CASE Reset(in) \/ NoCommErr(in) \/ NoComm(in) \/ SendAlign(in) \/ Idle(in)
    BY <2>1 DEF Reset, NoCommErr, NoComm, SendAlign, Idle, IdleNext, Goto, LinkTypeOK, LinkStates
  <2>2. CASE SendChkRdy(in) \/ SendData(in) \/ RcvRHold(in) \/ Wait(in)
    BY <2>2 DEF SendChkRdy, SendData, RcvRHold, Wait, ChkRdyNext, Goto, LinkTypeOK, LinkStates
  <2>3. CASE \/ RcvWaitFifo(in) \/ RcvChkRdy(in) \/ RcvData(in) \/ Hold(in) \/ RcvHold(in)
             \/ RcvEof(in) \/ GoodEnd(in) \/ BadEnd(in) \/ PmDeny(in)
    BY <2>3 DEF RcvWaitFifo, RcvChkRdy, RcvChkRdyNext, RcvData, Hold, RcvHold, RcvEof, RcvVerdict,
       GoodEnd, BadEnd, PmDeny, Receives, Goto, LinkTypeOK, LinkStates
  <2> QED BY <2>1, <2>2, <2>3 DEF LinkStep
<1>2. r_ready' \in BOOLEAN /\ o_link_ready' \in BOOLEAN
  BY DEF LinkStep, Reset, NoCommErr, NoComm, SendAlign, Idle, SendChkRdy, SendData, RcvRHold, Wait,
     RcvWaitFifo, RcvChkRdy, RcvData, Hold, RcvHold, RcvEof, GoodEnd, BadEnd, PmDeny, Receives,
     NotSending, Down, KeepReady
<1>3. s_success' \in BOOLEAN /\ s_failed' \in BOOLEAN
  BY DEF LinkStep, Reset, NoCommErr, NoComm, SendAlign, Idle, SendChkRdy, SendData, RcvRHold, Wait,
     RcvWaitFifo, RcvChkRdy, RcvData, Hold, RcvHold, RcvEof, GoodEnd, BadEnd, PmDeny, Receives,
     NoAnswer, Answered, FrameAccepted, FrameRefused
<1>4. o_link_error' \in BOOLEAN
  BY DEF LinkStep, Lost
<1> QED BY <1>1, <1>2, <1>3, <1>4 DEF LinkTypeOK

LEMMA AlignTypes ==
  ASSUME AlignTypeOK, AlignCounters, NEW w, AlignStep(w)
  PROVE  AlignTypeOK' /\ AlignCounters'
<1>1. al_state' \in AlignStates
  <2>1. AlignNext(w).state \in AlignStates
    BY DEF AlignNext, AlignTypeOK, AlignStates, AfterAlign, Pass, Out, AfterWord
  <2> QED BY <2>1 DEF AlignStep
<1>2. need_repeat' \in BOOLEAN
  BY DEF AlignStep
<1>3. al_trigger' \in BOOLEAN
  <2>1. (al_counter <= 1) \in BOOLEAN
    OBVIOUS
  <2> QED BY <2>1, Zenon DEF AlignStep
<1>4. al_counter' \in 0 .. AlignTimeout /\ AlignCounters'
  <2>1. CASE al_trigger
    <3>1. al_trigger' = FALSE /\ al_counter' = AlignTimeout
      BY <2>1, Zenon DEF AlignStep
    <3>2. al_counter' \in 0 .. AlignTimeout /\ al_counter' >= 1
      BY <3>1, AlignTimeoutAssumption
    <3> QED BY <3>2 DEF AlignCounters
  <2>2. CASE ~al_trigger
    <3>1. al_trigger' = (al_counter <= 1) /\ al_counter' = al_counter - 1
      BY <2>2, Zenon DEF AlignStep
    <3>2. al_counter \in 0 .. AlignTimeout /\ al_counter >= 1
      BY <2>2 DEF AlignTypeOK, AlignCounters
    <3>3. al_counter' \in 0 .. AlignTimeout
      BY <3>1, <3>2, AlignTimeoutAssumption
    <3>6. AlignTimeout \in Nat
      BY AlignTimeoutAssumption
    <3>5. al_trigger' <=> al_counter <= 1
      BY <3>1, Zenon
    <3>4. ~al_trigger' => al_counter' >= 1
      BY <3>1, <3>2, <3>5, <3>6, StepsBack, Zenon
    <3> QED BY <3>3, <3>4 DEF AlignCounters
  <2> QED BY <2>1, <2>2
<1> QED BY <1>1, <1>2, <1>3, <1>4 DEF AlignTypeOK

LEMMA OobTypes ==
  ASSUME OobTypeOK, m_oob_done \in BOOLEAN, TxResetOK', NEW word, SimTxTick(word)
  PROVE  OobTypeOK' /\ m_oob_done' \in BOOLEAN
<1>1. /\ m_txphy_cominit' \in BOOLEAN /\ m_txphy_comwake' \in BOOLEAN
      /\ m_phy_ready' \in BOOLEAN
  BY DEF TxResetOK, SimTxTick, OobSignals
<1>2. /\ m_txphy_comfinish' \in BOOLEAN
      /\ m_rxphy_cominit' \in BOOLEAN /\ m_rxphy_comwake' \in BOOLEAN
      /\ cominit_sent' \in BOOLEAN /\ comwake_sent' \in BOOLEAN
  BY DEF OobTypeOK, SimTxTick, OobAside, ProcessOob, DetectComs, SendComs, SendsCominit,
     SendsComwake
<1>3. m_rxphy_elecidle' \in BOOLEAN /\ m_oob_done' \in BOOLEAN
  BY <1>2 DEF OobTypeOK, SimTxTick, OobAside, ProcessOob, ComsDone
<1> QED BY <1>1, <1>2, <1>3 DEF OobTypeOK

LEMMA TxTypes ==
  ASSUME PacketsTypeOK, NEW ready, NEW arrives, NEW more, TxStep(ready, arrives, more)
  PROVE  /\ tx_state' \in {"IDLE", "DATA", "EOF"}
         /\ tx_valid' \in BOOLEAN /\ tx_last' \in BOOLEAN
BY DEF PacketsTypeOK, TxStep

LEMMA RxTypes ==
  ASSUME PacketsTypeOK, BeatsOK, NEW rx, NEW i_phy_ready, RxStep(rx, i_phy_ready)
  PROVE  /\ rx_state' \in {"IDLE", "DATA"} /\ mid_packet' \in BOOLEAN
         /\ rx_active' \in BOOLEAN /\ rx_fill' \in Nat
         /\ BeatsOK'
<1>1. rx_state' \in {"IDLE", "DATA"}
  BY DEF PacketsTypeOK, RxStep, Deframe, DropFrame
<1>2. df'.last \in BOOLEAN
  <2>1. \/ \E valid, data, abort : \E last \in BOOLEAN : df' = Beat(valid, data, last, abort)
        \/ df' = [NoBeat EXCEPT !.last = TRUE]
        \/ \E abort : df' = [NoBeat EXCEPT !.abort = abort]
    BY Zenon DEF RxStep, Deframe, DropFrame, NoBeat
  <2>2. ASSUME NEW valid, NEW data, NEW abort, NEW last \in BOOLEAN,
               df' = Beat(valid, data, last, abort)
        PROVE  df'.last \in BOOLEAN
    BY <2>2 DEF Beat
  <2>3. CASE df' = [NoBeat EXCEPT !.last = TRUE]
    BY <2>3 DEF NoBeat, Beat
  <2>4. ASSUME NEW abort, df' = [NoBeat EXCEPT !.abort = abort] PROVE df'.last \in BOOLEAN
    BY <2>4 DEF NoBeat, Beat
  <2> QED BY <2>1, <2>2, <2>3, <2>4, Zenon
<1>3. mid_packet' \in BOOLEAN /\ rx_active' \in BOOLEAN
  BY DEF PacketsTypeOK, BeatsOK, RxStep, Unscramble
<1>4. rx_fill' \in Nat
  BY DEF PacketsTypeOK, RxStep, Unscramble
<1>5. ds'.last \in BOOLEAN
  BY DEF BeatsOK, RxStep, Unscramble, NoBeat, Beat
<1>6. m_out'.last \in BOOLEAN /\ DOMAIN m_out' = {"valid", "data", "last", "abort"}
  <2> DEFINE passes == ds.valid /\ crc_held.valid
  <2>1. StaysLast(passes) \in BOOLEAN
    BY DEF StaysLast, BeatsOK
  <2>2. \E valid, data, abort : m_out' = Beat(valid, data, StaysLast(passes), abort)
    BY Zenon DEF RxStep, CheckCrc
  <2> HIDE DEF passes
  <2>3. ASSUME NEW valid, NEW data, NEW abort,
               m_out' = Beat(valid, data, StaysLast(passes), abort)
        PROVE  m_out'.last \in BOOLEAN /\ DOMAIN m_out' = {"valid", "data", "last", "abort"}
    BY <2>1, <2>3 DEF Beat
  <2> QED BY <2>2, <2>3, Zenon
<1> QED BY <1>1, <1>2, <1>3, <1>4, <1>5, <1>6 DEF BeatsOK

LEMMA SeqGrows ==
  ASSUME NEW A, NEW B, A \subseteq B, NEW q \in Seq(A)
  PROVE  q \in Seq(B)
OBVIOUS

LEMMA OneInSeq ==
  ASSUME NEW A, NEW a \in A
  PROVE  << a >> \in Seq(A) /\ << >> \in Seq(A)
OBVIOUS

LEMMA MovedTypes ==
  ASSUME NEW V, NEW path \in Seq(RxWords(V))
  PROVE  Moved(path) \in Seq(RxWords(V))
<1>1. DOMAIN path = 1 .. Len(path) /\ Len(path) \in Nat
  OBVIOUS
<1>2. ASSUME NEW i \in 1 .. Len(path)
      PROVE  [path[i] EXCEPT !.wait = IF @ > 0 THEN @ - 1 ELSE 0] \in RxWords(V)
  <2>1. path[i] \in RxWords(V)
    OBVIOUS
  <2>2. \A n \in 0 .. Cross : (IF n > 0 THEN n - 1 ELSE 0) \in 0 .. Cross
    BY HostAssumption
  <2> QED BY <2>1, <2>2 DEF RxWords
<1> HIDE DEF RxWords
<1>3. Moved(path) \in [1 .. Len(path) -> RxWords(V)]
  BY <1>1, <1>2, Zenon DEF Moved
<1> QED BY <1>1, <1>3

LEMMA RxPathTypes ==
  ASSUME RxPathOK, NEW m, NEW e, e.last \in BOOLEAN, NEW stalled, StoreWord(m, e, stalled)
  PROVE  RxPathOK'
<1>1. PICK V : rx_path \in Seq(RxWords(V))
  BY DEF RxPathOK
<1> DEFINE T == V \cup {e.data}
           rest == IF Writes(m, stalled) THEN Tail(rx_path) ELSE rx_path
<1>2. RxWords(V) \subseteq RxWords(T)
  BY DEF RxWords
<1>3. rest \in Seq(RxWords(T))
  <2>1. rx_path \in Seq(RxWords(T))
    BY <1>1, <1>2, SeqGrows
  <2>2. Writes(m, stalled) => Tail(rx_path) \in Seq(RxWords(T))
    BY <2>1, HeadTailProperties DEF Writes
  <2> QED BY <2>1, <2>2
<1>4. Enters(e) \in Seq(RxWords(T))
  <2>1. [data |-> e.data, last |-> e.last, wait |-> Cross] \in RxWords(T)
    BY HostAssumption DEF RxWords
  <2> HIDE DEF T
  <2> QED BY <2>1, OneInSeq, Zenon DEF Enters
<1> HIDE DEF T, rest
<1>5. Moved(rest) \o Enters(e) \in Seq(RxWords(T))
  BY <1>3, <1>4, MovedTypes, ConcatProperties
<1>6. rx_path' = << >> \/ rx_path' = Moved(rest) \o Enters(e)
  BY Zenon DEF StoreWord, rest
<1>7. << >> \in Seq(RxWords(T))
  OBVIOUS
<1> QED BY <1>5, <1>6, <1>7 DEF RxPathOK

LEMMA HostTypes ==
  ASSUME HostTypeOK, RxPathOK, NEW m, m.last \in BOOLEAN, NEW queued, NEW up, NEW i_link_err,
         NEW stalled, HostStep(m, queued, up, i_link_err, stalled),
         DOMAIN m = {"valid", "data", "last", "abort"}
  PROVE  HostTypeOK' /\ RxPathOK'
<1> DEFINE e == [m EXCEPT !.abort = m.abort \/ i_link_err]
<1>1. e.last \in BOOLEAN
  OBVIOUS
<1> HIDE DEF e
<1>2. s_sop' \in BOOLEAN
  BY <1>1 DEF HostTypeOK, HostStep, SortFis, e
<1>3. /\ mid_packet_phy' \in BOOLEAN /\ is_regpacket_phy' \in BOOLEAN
      /\ is_datapacket_phy' \in BOOLEAN
  BY DEF HostStep, SortFis
<1>4. DOMAIN r_mem' = 1 .. HostWords /\ r_posn' \in 0 .. HostWords
  BY HostAssumption DEF HostTypeOK, HostStep, StoreWord
<1>5. tran_state' \in TranStates
  BY DEF HostTypeOK, HostStep, Sequence, Move, TranStates
<1>6. o_int' \in BOOLEAN /\ s2mm_run' \in BOOLEAN
  BY DEF HostTypeOK, HostStep, Sequence, Move, TranStates
<1>7. RxPathOK'
  <2>1. StoreWord(m, e, stalled)
    BY DEF HostStep, e
  <2> QED BY <1>1, <2>1, RxPathTypes
<1>8. \A i \in DOMAIN rx_path' : rx_path'[i].wait \in 0 .. Cross
  <2>1. PICK V : rx_path' \in Seq(RxWords(V))
    BY <1>7 DEF RxPathOK
  <2>2. \A i \in DOMAIN rx_path' : rx_path'[i] \in RxWords(V)
    BY <2>1
  <2> QED BY <2>2 DEF RxWords
<1> QED BY <1>2, <1>3, <1>4, <1>5, <1>6, <1>7, <1>8 DEF HostTypeOK

\* The device's flags, and what it has counted and received.
FlagsOK == /\ m_dma_act \in BOOLEAN /\ m_dma_read \in BOOLEAN /\ m_pio_setup \in BOOLEAN
           /\ m_pio_read \in BOOLEAN /\ m_data_response \in BOOLEAN
BufOK == /\ m_data_count \in Nat /\ m_scrambler_fill \in Nat /\ m_crc_matched \in BOOLEAN
         /\ DOMAIN m_received_data = 1 .. MaxDataWords

LEMMA ReceiveTypes ==
  ASSUME FlagsOK, BufOK, DeviceLinkReceives
  PROVE  FlagsOK' /\ BufOK'
<1>1. CASE UNCHANGED <<flagVars, bufVars, m_received_data>>
  BY <1>1 DEF FlagsOK, BufOK, flagVars, bufVars
<1>2. CASE FirstWord
  <2>1. FlagsOK'
    BY <1>2 DEF FlagsOK, FirstWord, SetFlags, IsReg
  <2>2. BufOK'
    BY <1>2 DEF BufOK, FirstWord
  <2> QED BY <2>1, <2>2
<1>3. CASE LaterWord
  <2>1. FlagsOK'
    BY <1>3 DEF FlagsOK, LaterWord, flagVars
  <2>2. m_data_count' \in Nat /\ m_scrambler_fill' \in Nat
    BY <1>3 DEF BufOK, LaterWord
  <2>3. m_crc_matched' \in BOOLEAN
    BY <1>3 DEF LaterWord, CrcMatches
  <2>4. DOMAIN m_received_data' = 1 .. MaxDataWords
    BY <1>3 DEF BufOK, LaterWord
  <2> QED BY <2>2, <2>1, <2>3, <2>4 DEF BufOK
<1> QED BY <1>1, <1>2, <1>3 DEF DeviceLinkReceives

LEMMA SendTypes ==
  ASSUME FlagsOK, BufOK, SimSendData
  PROVE  /\ FlagsOK' /\ BufOK' /\ m_link_state' \in {"SEND_DATA", "SEND_EOF"}
         /\ align_cnt' = align_cnt
<1>1. BufOK' /\ align_cnt' = align_cnt
  BY DEF BufOK, SimSendData, SendFrame, DmaActivate, PioSetupResponse, DataSend, D2hResponse
<1>2. FlagsOK'
  BY DEF FlagsOK, SimSendData, SendFrame, DmaActivate, PioSetupResponse, DataSend, D2hResponse,
     flagVars
<1>3. m_link_state' \in {"SEND_DATA", "SEND_EOF"}
  BY DEF SimSendData, SendFrame, DmaActivate, PioSetupResponse, DataSend, D2hResponse, SimGoto
<1> QED BY <1>1, <1>2, <1>3

LEMMA DeviceTypes ==
  ASSUME SimTypeOK, LinkLayer
  PROVE  SimTypeOK'
<1>1. FlagsOK /\ BufOK
  BY DEF SimTypeOK, FlagsOK, BufOK
<1>2. ASSUME FlagsOK', BufOK', m_link_state' \in SimStates, align_cnt' \in 0 .. MaxAlign
      PROVE  SimTypeOK'
  BY <1>2 DEF SimTypeOK, FlagsOK, BufOK, LinkLayer
<1>3. CASE ~m_oob_done
  BY <1>1, <1>2, <1>3 DEF SimTypeOK, FlagsOK, BufOK, LinkLayer, flagVars, bufVars
<1>4. CASE SimAlign
  <2>1. FlagsOK' /\ BufOK'
    BY <1>1, <1>4 DEF SimAlign, FlagsOK, BufOK, flagVars, bufVars
  <2>2. align_cnt' \in 0 .. MaxAlign
    BY <1>4, MaxAlignAssumption DEF SimAlign, SimTypeOK
  <2>3. m_link_state' \in SimStates
    BY <1>4 DEF SimAlign, SimGoto, SimStates
  <2> QED BY <1>2, <2>1, <2>2, <2>3
<1>5. CASE SimIdle
  <2>1. FlagsOK' /\ BufOK'
    BY <1>1, <1>5 DEF SimIdle, ResetDataBuffer, FlagsOK, BufOK, flagVars
  <2>2. m_link_state' \in SimStates /\ align_cnt' \in 0 .. MaxAlign
    BY <1>5 DEF SimIdle, SimGoto, SimStates, SimTypeOK
  <2> QED BY <1>2, <2>1, <2>2
<1>6. CASE \/ SimSendChkRdy \/ SimSendEof \/ SimWait \/ SimRcvChkRdy \/ SimRcvEof \/ SimGoodEnd
           \/ SimBadEnd
  <2>1. FlagsOK' /\ BufOK' /\ align_cnt' \in 0 .. MaxAlign
    BY <1>1, <1>6 DEF SimSendChkRdy, SimSendEof, SimWait, SimRcvChkRdy, SimRcvEof, SimGoodEnd,
       SimBadEnd, Listens, FlagsOK, BufOK, flagVars, bufVars, SimTypeOK
  <2>2. m_link_state' \in SimStates
    BY <1>6 DEF SimSendChkRdy, SimSendEof, SimWait, SimRcvChkRdy, SimRcvEof, SimGoodEnd,
       SimBadEnd, Listens, SimGoto, SimStates, SimChkRdyNext
  <2> QED BY <1>2, <2>1, <2>2
<1>7. CASE SimSendData
  BY <1>1, <1>2, <1>7, SendTypes DEF SimTypeOK, SimStates
<1>8. CASE SimRcvData
  <2>1. FlagsOK' /\ BufOK'
    BY <1>1, <1>8, ReceiveTypes DEF SimRcvData
  <2>2. m_link_state' \in SimStates /\ align_cnt' \in 0 .. MaxAlign
    BY <1>8 DEF SimRcvData, SimGoto, SimStates, SimTypeOK
  <2> QED BY <1>2, <2>1, <2>2
<1> QED BY <1>3, <1>4, <1>5, <1>6, <1>7, <1>8 DEF LinkLayer

-----------------------------------------------------------------------------
(* The inductive invariant of types.  The receive FIFO holds what the      *)
(* state machine lags behind, a word more while the host's clock is next,  *)
(* and another once the device's clock has slipped ahead; ticks ends with  *)
(* the wait it counts.                                                     *)

HostInv == /\ TxResetOK /\ LinkTypeOK /\ AlignTypeOK /\ AlignCounters /\ PacketsTypeOK /\ BeatsOK
           /\ HostTypeOK /\ RxPathOK

DeviceInv == RxResetOK /\ OobTypeOK /\ SimTypeOK

Slack == (IF turn = "tx" THEN 1 ELSE 0) + (IF "slip" \in faults THEN 1 ELSE 0)

PathInv ==
  /\ turn \in {"tx", "rx"} /\ full \in 0 .. FullFor
  /\ busy \in 0 .. DmaStall \cup 0 .. PioStall
  /\ faults \in Departures \cup {{}}
  /\ \E S : d2h \in Seq(S)
  /\ Len(d2h) <= Lag + Slack

Waits == {"start", "gap", "last"}

ProgramInv ==
  /\ pc \in {"link", "start", "wait_write", "gap", "wait_read", "last", "done"}
  /\ ticks \in 0 .. IntTimeout
  /\ pc \in Waits => ticks <= GapTicks
  /\ verdict \in {"none", "pass", "fail"}

BenchInv == HostInv /\ DeviceInv /\ PathInv /\ ProgramInv

LEMMA HostKeeps ==
  ASSUME HostInv, UNCHANGED <<txResetVars, linkVars, alignVars, txVars, rxVars, hostVars>>
  PROVE  HostInv'
<1>1. TxResetOK' /\ LinkTypeOK'
  BY DEF HostInv, TxResetOK, ResetCounters, txResetVars, LinkTypeOK, linkVars
<1>2. AlignTypeOK' /\ AlignCounters'
  BY DEF HostInv, AlignTypeOK, AlignCounters, alignVars
<1>3. PacketsTypeOK' /\ BeatsOK'
  BY DEF HostInv, PacketsTypeOK, BeatsOK, txVars, rxVars
<1>4. HostTypeOK' /\ RxPathOK'
  BY DEF HostInv, HostTypeOK, RxPathOK, hostVars, rxregVars
<1> QED BY <1>1, <1>2, <1>3, <1>4 DEF HostInv

LEMMA DeviceKeeps ==
  ASSUME DeviceInv,
         UNCHANGED <<rxResetVars, oobVars, m_link_state, align_cnt, m_oob_done, flagVars, bufVars,
                     m_received_data>>
  PROVE  DeviceInv'
<1>1. RxResetOK' /\ OobTypeOK'
  BY DEF DeviceInv, RxResetOK, rxResetVars, OobTypeOK, oobVars
<1>2. SimTypeOK'
  BY DEF DeviceInv, SimTypeOK, flagVars, bufVars
<1> QED BY <1>1, <1>2 DEF DeviceInv

LEMMA HostEdgeTypes ==
  ASSUME HostInv, NEW arrives, NEW stalled, HostEdge(arrives, stalled)
  PROVE  HostInv'
<1>1. TxResetOK'
  BY ResetTypes DEF HostInv, HostEdge
<1>2. LinkTypeOK'
  BY LinkTypes DEF HostInv, HostEdge
<1>3. AlignTypeOK' /\ AlignCounters'
  BY AlignTypes DEF HostInv, HostEdge
<1>4. PacketsTypeOK' /\ BeatsOK'
  <2>1. tx_state' \in {"IDLE", "DATA", "EOF"} /\ tx_valid' \in BOOLEAN /\ tx_last' \in BOOLEAN
    <3> DEFINE more == IF BeginsData(m_out, i_link_up)
                       THEN Packet(<< <<"DATA">> >> \o Pattern) ELSE << >>
    <3>1. PacketsTypeOK /\ TxStep(SReady(LinkReady), arrives, more)
      BY DEF HostInv, HostEdge
    <3> HIDE DEF more
    <3> QED BY <3>1, TxTypes
  <2>2. /\ rx_state' \in {"IDLE", "DATA"} /\ mid_packet' \in BOOLEAN
        /\ rx_active' \in BOOLEAN /\ rx_fill' \in Nat
        /\ BeatsOK'
    BY RxTypes DEF HostInv, HostEdge
  <2> QED BY <2>1, <2>2 DEF PacketsTypeOK
<1>5. HostTypeOK' /\ RxPathOK'
  <2>1. /\ HostTypeOK /\ RxPathOK
        /\ HostStep(m_out, tx_queue # << >>, i_link_up, o_link_error, stalled)
    BY DEF HostInv, HostEdge
  <2>2. m_out.last \in BOOLEAN /\ DOMAIN m_out = {"valid", "data", "last", "abort"}
    BY DEF HostInv, BeatsOK
  <2> QED BY <2>1, <2>2, HostTypes
<1> QED BY <1>1, <1>2, <1>3, <1>4, <1>5 DEF HostInv

LEMMA IssueTypes ==
  ASSUME HostInv, NEW op \in Ops, Issue(op)
  PROVE  HostInv'
<1>1. CASE ~Accepts(i_link_up)
  <2>1. UNCHANGED <<hostVars, tx_queue>>
    BY <1>1, Zenon DEF Issue
  <2> QED BY <2>1, HostKeeps DEF Issue, phyVars, resetVars, txVars
<1>2. CASE Accepts(i_link_up)
  <2>1. StartHost(op)
    BY <1>2, Zenon DEF Issue
  <2>2. TxResetOK' /\ LinkTypeOK'
    BY DEF HostInv, TxResetOK, ResetCounters, txResetVars, LinkTypeOK, linkVars, Issue, phyVars,
       resetVars
  <2>3. AlignTypeOK' /\ AlignCounters'
    BY DEF HostInv, AlignTypeOK, AlignCounters, alignVars, Issue
  <2>4. PacketsTypeOK' /\ BeatsOK'
    BY DEF HostInv, PacketsTypeOK, BeatsOK, rxVars, Issue
  <2>5. HostTypeOK' /\ RxPathOK'
    <3>1. tran_state' \in TranStates
      BY <2>1 DEF StartHost, AfterCommand, Ops, TranStates
    <3>2. o_int' \in BOOLEAN /\ s2mm_run' \in BOOLEAN
      BY <2>1 DEF StartHost
    <3>3. r_posn' \in 0 .. HostWords /\ DOMAIN r_mem' = 1 .. HostWords
      BY <2>1 DEF StartHost, HostInv, HostTypeOK
    <3>4. /\ s_sop' \in BOOLEAN /\ mid_packet_phy' \in BOOLEAN /\ is_regpacket_phy' \in BOOLEAN
          /\ is_datapacket_phy' \in BOOLEAN
      BY <2>1 DEF StartHost, rxregVars, HostInv, HostTypeOK
    <3>5. RxPathOK' /\ \A i \in DOMAIN rx_path' : rx_path'[i].wait \in 0 .. Cross
      BY <2>1 DEF StartHost, HostInv, HostTypeOK, RxPathOK
    <3> QED BY <3>1, <3>2, <3>3, <3>4, <3>5 DEF HostTypeOK
  <2> QED BY <2>2, <2>3, <2>4, <2>5 DEF HostInv
<1> QED BY <1>1, <1>2

-----------------------------------------------------------------------------
(* The steps *)

\* No step of the program touches the path.
LEMMA PathKeeps ==
  ASSUME PathInv, UNCHANGED <<turn, d2h, full, busy>>, UNCHANGED faults \/ \E kind : Departs(kind)
  PROVE  PathInv'
<1>1. faults \subseteq faults' /\ faults' \in Departures \cup {{}}
  BY DEF PathInv, Departs
<1>2. Slack <= Slack' /\ Slack \in Nat /\ Slack' \in Nat
  BY <1>1 DEF Slack
<1>3. Len(d2h) \in Nat /\ Lag \in Nat
  BY BenchAssumption DEF PathInv
<1>4. Len(d2h) <= Lag + Slack'
  BY <1>2, <1>3 DEF PathInv
<1> QED BY <1>1, <1>4 DEF PathInv

LEMMA ProgramTypes ==
  ASSUME BenchInv, Program
  PROVE  BenchInv'
<1>1. WriteOp \in Ops /\ ReadOp \in Ops
  BY DEF WriteOp, ReadOp, Ops
<1>2. /\ 0 \in 0 .. IntTimeout /\ 0 <= GapTicks
      /\ \A n \in Phases : n \in 0 .. IntTimeout /\ n <= GapTicks
  BY BenchAssumption
<1>3. ASSUME UNCHANGED <<phyVars, linkVars, alignVars, txVars, rxVars, hostVars, simVars>>
      PROVE  HostInv' /\ DeviceInv'
  <2>1. HostInv'
    BY <1>3, HostKeeps DEF BenchInv, phyVars, resetVars
  <2>2. DeviceInv'
    BY <1>3, DeviceKeeps DEF BenchInv, phyVars, resetVars, simVars
  <2> QED BY <2>1, <2>2
<1>4. ASSUME NEW op \in Ops, Issue(op)
      PROVE  HostInv' /\ DeviceInv' /\ PathInv' /\ ticks' = 0
  <2>1. HostInv'
    BY <1>4, IssueTypes DEF BenchInv
  <2>2. DeviceInv'
    BY <1>4, DeviceKeeps DEF BenchInv, Issue, phyVars, resetVars
  <2>3. PathInv'
    BY <1>4, PathKeeps DEF BenchInv, Issue, pathVars
  <2> QED BY <1>4, <2>1, <2>2, <2>3 DEF Issue
<1>5. CASE LinkComesUp
  <2>1. HostInv' /\ DeviceInv'
    BY <1>3, <1>5 DEF LinkComesUp, AllAside
  <2>2. PathInv'
    BY <1>5, PathKeeps DEF LinkComesUp, AllAside, NoDeparture, BenchInv
  <2>3. ProgramInv'
    BY <1>2, <1>5 DEF LinkComesUp, BenchInv, ProgramInv, Waits
  <2> QED BY <2>1, <2>2, <2>3 DEF BenchInv
<1>6. CASE WriteReturns \/ ReadReturns \/ MainReturns
  <2>1. HostInv' /\ DeviceInv'
    BY <1>3, <1>6 DEF WriteReturns, ReadReturns, MainReturns, DeviceAside, AllAside
  <2>2. PathInv'
    BY <1>6, PathKeeps DEF WriteReturns, ReadReturns, MainReturns, DeviceAside, AllAside, BenchInv
  <2>3. ProgramInv'
    BY <1>2, <1>6 DEF WriteReturns, ReadReturns, MainReturns, BenchInv, ProgramInv, Waits
  <2> QED BY <2>1, <2>2, <2>3 DEF BenchInv
<1>7. CASE WriteCommand
  <2>1. ProgramInv'
    BY <1>1, <1>2, <1>4, <1>7 DEF WriteCommand, BenchInv, ProgramInv, Waits
  <2> QED BY <1>1, <1>4, <1>7, <2>1 DEF WriteCommand, BenchInv
<1>8. CASE ReadCommand
  <2>1. ProgramInv'
    BY <1>1, <1>2, <1>4, <1>8 DEF ReadCommand, BenchInv, ProgramInv, Waits
  <2> QED BY <1>1, <1>4, <1>8, <2>1 DEF ReadCommand, BenchInv
<1>9. CASE NextTest
  <2>1. HostTypeOK'
    BY <1>9 DEF NextTest, rxregVars, BenchInv, HostInv, HostTypeOK
  <2>2. RxPathOK'
    BY <1>9 DEF NextTest, BenchInv, HostInv, RxPathOK
  <2>3. TxResetOK' /\ LinkTypeOK'
    BY <1>9 DEF NextTest, phyVars, resetVars, txResetVars, linkVars, BenchInv, HostInv, TxResetOK,
       ResetCounters, LinkTypeOK
  <2>4. AlignTypeOK' /\ AlignCounters' /\ PacketsTypeOK' /\ BeatsOK'
    BY <1>9 DEF NextTest, alignVars, txVars, rxVars, BenchInv, HostInv, AlignTypeOK, AlignCounters,
       PacketsTypeOK, BeatsOK
  <2>5. DeviceInv'
    BY <1>9, DeviceKeeps DEF BenchInv, NextTest, phyVars, resetVars, simVars
  <2>6. PathInv'
    BY <1>9, PathKeeps DEF BenchInv, NextTest, pathVars
  <2>7. ProgramInv'
    BY <1>9 DEF NextTest, BenchInv, ProgramInv, Waits
  <2> QED BY <2>1, <2>2, <2>3, <2>4, <2>5, <2>6, <2>7 DEF BenchInv, HostInv
<1> QED BY <1>5, <1>6, <1>7, <1>8, <1>9 DEF Program

LEMMA TxEdgeTypes ==
  ASSUME BenchInv, TxEdge
  PROVE  BenchInv'
<1>1. HostInv'
  <2>1. CASE HostInReset
    BY <2>1, HostKeeps DEF BenchInv, HostInReset
  <2>2. CASE \E arrives, stalled : HostEdge(arrives, stalled)
    BY <2>2, HostEdgeTypes DEF BenchInv
  <2> QED BY <2>1, <2>2, Zenon DEF TxEdge
<1>2. \E word : SimTxTick(word)
  BY Zenon DEF TxEdge
<1>3. OobTypeOK' /\ m_oob_done' \in BOOLEAN
  BY <1>1, <1>2, OobTypes DEF HostInv, BenchInv, DeviceInv, SimTypeOK
<1>4. RxResetOK' /\ SimTypeOK'
  BY <1>3 DEF TxEdge, BenchInv, DeviceInv, RxResetOK, rxResetVars, SimTypeOK, flagVars, bufVars
<1>5. PathInv'
  <2>1. faults \subseteq faults' /\ faults' \in Departures \cup {{}}
    BY DEF TxEdge, NoDeparture, Departs, BenchInv, PathInv
  <2>2. full' \in 0 .. FullFor /\ busy' \in 0 .. DmaStall \cup 0 .. PioStall
    <3>1. /\ full' = Drain(full) \/ full' = FullFor
          /\ busy' = Drain(busy) \/ busy' = StallFor
      BY Zenon DEF TxEdge
    <3>2. Drain(full) \in 0 .. FullFor /\ FullFor \in 0 .. FullFor
      BY BenchAssumption DEF Drain, BenchInv, PathInv
    <3>3. Drain(busy) \in 0 .. DmaStall \cup 0 .. PioStall
      BY BenchAssumption DEF Drain, BenchInv, PathInv
    <3>4. StallFor \in 0 .. DmaStall \cup 0 .. PioStall
      BY BenchAssumption DEF StallFor
    <3> QED BY <3>1, <3>2, <3>3, <3>4, Zenon
  <2>3. turn = "tx" /\ turn' = "rx" /\ Slack' + 1 >= Slack /\ Slack' \in Nat /\ Slack \in Nat
    BY <2>1 DEF TxEdge, Slack
  <2>4. PICK S : d2h \in Seq(S)
    BY DEF BenchInv, PathInv
  <2>5. CASE Len(d2h) > Lag
    <3>1. d2h' = Tail(d2h)
      BY <2>5 DEF TxEdge, ReceivedWord, Got
    <3>2. d2h # << >>
      BY <2>4, <2>5, BenchAssumption
    <3>3. d2h' \in Seq(S) /\ Len(d2h') = Len(d2h) - 1
      BY <2>4, <3>1, <3>2, HeadTailProperties
    <3>4. Len(d2h) <= Lag + Slack /\ Len(d2h) \in Nat /\ Lag \in Nat
      BY <2>4, BenchAssumption DEF BenchInv, PathInv
    <3>5. Len(d2h') <= Lag + Slack'
      <4>1. \A n, l, s, t \in Nat : n <= l + s /\ t + 1 >= s => n - 1 <= l + t
        OBVIOUS
      <4>2. Len(d2h) - 1 <= Lag + Slack'
        BY <2>3, <3>4, <4>1, Zenon
      <4> QED BY <3>3, <4>2, Zenon
    <3> QED BY <2>1, <2>2, <2>3, <3>3, <3>5 DEF PathInv
  <2>6. CASE ~(Len(d2h) > Lag)
    <3>1. d2h' = d2h
      BY <2>6 DEF TxEdge, ReceivedWord, NoWord
    <3>2. Len(d2h) \in Nat /\ Lag \in Nat
      BY <2>4, BenchAssumption
    <3>3. Len(d2h') <= Lag + Slack'
      BY <2>3, <2>6, <3>1, <3>2
    <3> QED BY <2>1, <2>2, <2>3, <2>4, <3>1, <3>3 DEF PathInv
  <2> QED BY <2>5, <2>6
<1>6. ProgramInv'
  <2>1. pc' = pc /\ verdict' = verdict /\ ticks' = ticks + 1 /\ pc # "done" /\ ~ProgramReady
    BY DEF TxEdge
  <2>2. ticks # IntTimeout /\ (pc \in Waits => ticks # GapTicks)
    BY <2>1, BenchAssumption DEF ProgramReady, LinkOrTimeout, IntOrTimeout, Waits, BenchInv,
       ProgramInv
  <2>3. ticks' \in 0 .. IntTimeout /\ (pc \in Waits => ticks' <= GapTicks)
    BY <2>1, <2>2, BenchAssumption DEF BenchInv, ProgramInv
  <2> QED BY <2>1, <2>3 DEF BenchInv, ProgramInv
<1> QED BY <1>1, <1>3, <1>4, <1>5, <1>6 DEF BenchInv, DeviceInv

LEMMA RxEdgeTypes ==
  ASSUME BenchInv, RxEdge
  PROVE  BenchInv'
<1>1. HostInv'
  BY HostKeeps DEF RxEdge, BenchInv
<1>2. DeviceInv'
  <2>1. \E sig : RxSample(sig)
    BY Zenon DEF RxEdge
  <2>2. RxResetOK'
    BY <2>1, SampleTypes DEF BenchInv, HostInv, DeviceInv
  <2>3. OobTypeOK'
    BY DEF RxEdge, BenchInv, DeviceInv, OobTypeOK, oobVars
  <2>4. SimTypeOK'
    BY DeviceTypes DEF RxEdge, BenchInv, DeviceInv
  <2> QED BY <2>2, <2>3, <2>4 DEF DeviceInv
<1>3. PathInv'
  <2>1. faults \subseteq faults' /\ faults' \in Departures \cup {{}} /\ full' = full
        /\ busy' = busy
    BY DEF RxEdge, NoDeparture, Departs, BenchInv, PathInv
  <2>2. /\ turn = "rx" /\ turn' \in {"tx", "rx"}
        /\ turn' = "tx" \/ (turn' = "rx" /\ "slip" \notin faults /\ "slip" \in faults')
    BY DEF RxEdge, Departs
  <2>3. Slack \in Nat /\ Slack' \in Nat /\ Slack + 1 <= Slack'
    BY <2>1, <2>2 DEF Slack
  <2>4. \E w : Arrives(w)
    BY Zenon DEF RxEdge
  <2>5. PICK S : d2h \in Seq(S)
    BY DEF BenchInv, PathInv
  <2>6. d2h' = d2h \/ \E w : d2h' = Append(d2h, w)
    BY <2>4, Zenon DEF Arrives
  <2>7. (\E T : d2h' \in Seq(T)) /\ (Len(d2h') = Len(d2h) \/ Len(d2h') = Len(d2h) + 1)
    <3>1. ASSUME NEW w, d2h' = Append(d2h, w)
          PROVE  d2h' \in Seq(S \cup {w}) /\ Len(d2h') = Len(d2h) + 1
      <4>1. d2h \in Seq(S \cup {w})
        BY <2>5
      <4> QED BY <3>1, <4>1, AppendProperties
    <3> QED BY <2>5, <2>6, <3>1
  <2>8. Len(d2h') <= Lag + Slack'
    <3>1. \A n, m, l, s, t \in Nat :
             n <= l + s /\ s + 1 <= t /\ (m = n \/ m = n + 1) => m <= l + t
      OBVIOUS
    <3>2. Len(d2h) <= Lag + Slack /\ Len(d2h) \in Nat /\ Lag \in Nat
      BY <2>5, BenchAssumption DEF BenchInv, PathInv
    <3>3. Len(d2h') \in Nat
      BY <2>7
    <3> QED BY <2>3, <2>7, <3>1, <3>2, <3>3, Zenon
  <2> QED BY <2>1, <2>2, <2>7, <2>8 DEF BenchInv, PathInv
<1>4. ProgramInv'
  BY DEF RxEdge, benchVars, BenchInv, ProgramInv
<1> QED BY <1>1, <1>2, <1>3, <1>4 DEF BenchInv

LEMMA BenchStarts ==
  ASSUME Init
  PROVE  BenchInv
<1>1. TxResetOK /\ RxResetOK
  <2>1. /\ watchdog_counter \in 0 .. Watchdog /\ min_alignment_counter \in 0 .. MinAlignment
        /\ min_alignment_counter >= 1
    BY ResetAssumption DEF Init, ResetInit
  <2>2. ext \in [Signals -> 0 .. Extend]
    BY ResetAssumption DEF Init, ResetInit
  <2>3. fsm_state \in ResetStates
    BY DEF Init, ResetInit, ResetStates
  <2> QED BY <2>1, <2>2, <2>3 DEF Init, ResetInit, TxResetOK, RxResetOK, ResetCounters
<1>2. LinkTypeOK
  BY DEF Init, LinkInReset, LinkTypeOK, LinkStates
<1>3. AlignTypeOK /\ AlignCounters
  <2>1. al_counter \in 0 .. AlignTimeout
    BY AlignTimeoutAssumption DEF Init, AlignInReset
  <2> QED BY <2>1 DEF Init, AlignInReset, AlignTypeOK, AlignCounters, AlignStates
<1>4. PacketsTypeOK /\ BeatsOK
  BY DEF Init, PacketsInit, PacketsTypeOK, BeatsOK, NoBeat, Beat
<1>5. HostTypeOK /\ RxPathOK
  <2>1. r_posn \in 0 .. HostWords /\ DOMAIN r_mem = 1 .. HostWords
    BY HostAssumption DEF Init, HostInit
  <2>2. rx_path = << >>
    BY DEF Init, HostInit
  <2>3. rx_path \in Seq(RxWords({})) /\ DOMAIN rx_path = {}
    BY <2>2
  <2>4. RxPathOK /\ \A i \in DOMAIN rx_path : rx_path[i].wait \in 0 .. Cross
    BY <2>3, Zenon DEF RxPathOK
  <2> QED BY <2>1, <2>4 DEF Init, HostInit, HostTypeOK, TranStates
<1>6. OobTypeOK
  BY DEF Init, OobInit, OobTypeOK
<1>7. SimTypeOK
  <2>1. align_cnt \in 0 .. MaxAlign
    BY MaxAlignAssumption DEF Init, SimInit
  <2> QED BY <2>1 DEF Init, SimInit, SimTypeOK, SimStates
<1>8. PathInv
  <2>1. d2h \in Seq({}) /\ Len(d2h) = 0
    BY DEF Init
  <2>2. Slack = 1 /\ turn = "tx" /\ full = 0 /\ busy = 0 /\ faults = {}
    BY DEF Init, Slack
  <2> QED BY <2>1, <2>2, BenchAssumption DEF PathInv
<1>9. ProgramInv
  BY BenchAssumption DEF Init, ProgramInv, Waits
<1> QED BY <1>1, <1>2, <1>3, <1>4, <1>5, <1>6, <1>7, <1>8, <1>9 DEF BenchInv, HostInv, DeviceInv

LEMMA BenchTypes == Spec => []BenchInv
<1>1. BenchInv /\ [Next]_vars => BenchInv'
  <2> SUFFICES ASSUME BenchInv, [Next]_vars PROVE BenchInv'
    OBVIOUS
  <2>1. CASE Program \/ TxEdge \/ RxEdge
    BY <2>1, ProgramTypes, TxEdgeTypes, RxEdgeTypes
  <2>2. CASE UNCHANGED vars
    <3>1. HostInv'
      BY <2>2, HostKeeps DEF BenchInv, vars, phyVars, resetVars
    <3>2. DeviceInv'
      BY <2>2, DeviceKeeps DEF BenchInv, vars, phyVars, resetVars, simVars
    <3>3. PathInv'
      BY <2>2, PathKeeps DEF BenchInv, vars, pathVars
    <3>4. ProgramInv'
      BY <2>2 DEF BenchInv, ProgramInv, vars, benchVars
    <3> QED BY <3>1, <3>2, <3>3, <3>4 DEF BenchInv
  <2> QED BY <2>1, <2>2 DEF Next, Done
<1> QED BY <1>1, BenchStarts, PTL DEF Spec

\* Every register, counter and buffer of the bench keeps its range for every
\* size, delay and time-out: the watchdog and the alignment counter of
\* sata_reset.v and the ALIGN counter of satalnk_align.v do not wrap, r_posn
\* stays in the memory region, and the receive FIFO never holds more than
\* two words above its lag.
THEOREM BenchTypeCorrect == Spec => []TypeOK
<1>1. BenchInv => TypeOK
  <2> SUFFICES ASSUME BenchInv PROVE TypeOK
    OBVIOUS
  <2>1. ResetTypeOK
    BY DEF BenchInv, HostInv, DeviceInv, TxResetOK, RxResetOK, ResetTypeOK
  <2>2. Len(d2h) <= Lag + 2
    <3>1. Slack \in 0 .. 2
      BY DEF Slack
    <3>2. Len(d2h) \in Nat /\ Lag \in Nat
      BY BenchAssumption DEF BenchInv, PathInv
    <3> QED BY <3>1, <3>2 DEF BenchInv, PathInv
  <2> QED BY <2>1, <2>2 DEF BenchInv, HostInv, DeviceInv, PathInv, ProgramInv, TypeOK
<1> QED BY <1>1, BenchTypes, PTL

-----------------------------------------------------------------------------
(* Coming up together.  What the host has seen of the device it has been   *)
(* sent: a signal of ALIGNs, so that there is a word on the wire at all,   *)
(* and then SYNC or X_RDY, which the device sends only after its last      *)
(* ALIGN.  A word damaged on its way may be taken for either.              *)

Aligned == m_oob_done /\ align_cnt = MaxAlign

Tells(w) == w = Prim("SYNC") \/ w = Prim("X_RDY")

\* No damaged word has been taken for the device's SYNC or X_RDY.
Truthful == "d2h" \notin faults \/ Bad \cap {"SYNC", "X_RDY"} = {}

\* Both answers of send_coms() before the link layer runs, all ALIGNs before
\* another word.
DeviceUp ==
  /\ m_oob_done => cominit_sent /\ comwake_sent
  /\ IF m_link_state = "SEND_ALIGN" THEN align_cnt < MaxAlign ELSE Aligned
  /\ m_rxphy.valid /\ m_rxphy.word # Prim("ALIGN") => Aligned

\* ALIGN's way from the wire through sata_pextend, the synchronisers and the
\* state machine of sata_reset.v to o_link_up and back to the receive clock.
Heard ==
  \/ ext["align"] > 0
  \/ pipe["align"][1] \/ pipe["align"][2] \/ pipe["align"][3]
  \/ fsm_state = "READY" \/ o_link_up \/ rx_linkup_xpipe \/ rx_linkup

HostUp == o_link_ready \/ (\E i \in 1 .. Len(d2h) : Tells(d2h[i]))

UpInv ==
  /\ DeviceUp
  /\ Heard => m_rxphy.valid
  /\ Truthful => (HostUp => Aligned)

LEMMA TruthStays ==
  ASSUME faults \subseteq faults', Truthful'
  PROVE  Truthful
BY DEF Truthful

\* A step of the host's reset controller hears nothing new.
LEMMA ResetHears ==
  ASSUME TxResetOK, NEW i_phy_ready, NEW i_tx_comfinish, NEW word,
         ResetStep(i_phy_ready, i_tx_comfinish, word), UNCHANGED rxResetVars, Heard'
  PROVE  Heard
<1> DEFINE positive == ext["align"] > 0
<1>1. pipe'["align"] = <<positive, pipe["align"][1], pipe["align"][2]>>
  BY DEF ResetStep, Signals
<1> HIDE DEF positive
<1>2. /\ pipe'["align"][1] = positive
      /\ pipe'["align"][2] = pipe["align"][1] /\ pipe'["align"][3] = pipe["align"][2]
  BY <1>1
<1>3. fsm_state' = "READY" => fsm_state = "READY" \/ ck("align")
  <2>1. CASE fsm_state = "AWAIT_ALIGN"
    <3>1. fsm_state' = IF ck("cominit") THEN "AWAIT_RXCLRINIT"
                       ELSE IF retry_timeout THEN "RESET"
                       ELSE IF ck("align") /\ ~ck("elecidle") /\ check_alignment THEN "READY"
                       ELSE fsm_state
      BY <2>1 DEF ResetStep, NextState
    <3> QED BY <2>1, <3>1, Zenon
  <2>2. CASE fsm_state # "AWAIT_ALIGN"
    BY <2>2 DEF ResetStep, NextState, TxResetOK, ResetStates
  <2> QED BY <2>1, <2>2
<1>4. o_link_up' => fsm_state = "READY"
  BY DEF ResetStep
<1>5. UNCHANGED <<ext, rx_linkup_xpipe, rx_linkup>>
  BY DEF rxResetVars
<1> QED BY <1>2, <1>3, <1>4, <1>5, Zenon DEF Heard, ck, positive

\* The link is told ready by what it receives.
LEMMA ReadyHears ==
  ASSUME NEW in, LinkStep(in), o_link_ready'
  PROVE  o_link_ready \/ SeesDevice(in)
BY DEF LinkStep, Reset, NoCommErr, NoComm, SendAlign, Idle, SendChkRdy, SendData, RcvRHold, Wait,
   RcvWaitFifo, RcvChkRdy, RcvData, Hold, RcvHold, RcvEof, GoodEnd, BadEnd, PmDeny, Receives,
   Down, KeepReady

\* A step of the device keeps its bring-up in order.
LEMMA DeviceComesUp ==
  ASSUME BenchInv, DeviceUp, LinkLayer, UNCHANGED <<cominit_sent, comwake_sent>>
  PROVE  /\ DeviceUp' /\ (Aligned => Aligned')
         /\ m_rxphy.valid => m_rxphy'.valid
<1>1. m_oob_done' = m_oob_done
  BY DEF LinkLayer
<1>2. CASE ~m_oob_done
  BY <1>2 DEF LinkLayer, DeviceUp, Aligned
<1>3. CASE m_oob_done /\ SimAlign
  <2>1. m_rxphy' = Got(Prim("ALIGN"))
    BY <1>3 DEF SimAlign, Sends, DevicePhySends
  <2>2. m_rxphy'.valid /\ m_rxphy'.word = Prim("ALIGN")
    BY <2>1 DEF Got
  <2>3. m_link_state = "SEND_ALIGN" /\ align_cnt < MaxAlign
    BY <1>3 DEF SimAlign, Sends, DeviceUp
  <2>4. align_cnt \in Nat /\ MaxAlign \in Nat
    BY MaxAlignAssumption DEF BenchInv, DeviceInv, SimTypeOK
  <2>5. align_cnt' = align_cnt + 1
    BY <1>3, <2>3, Zenon DEF SimAlign
  <2>6. m_link_state' = IF align_cnt' = MaxAlign THEN "IDLE" ELSE "SEND_ALIGN"
    BY <1>3, <2>5, Zenon DEF SimAlign, SimGoto
  <2>7. align_cnt' <= MaxAlign /\ align_cnt' \in Nat /\ ~(align_cnt = MaxAlign)
    BY <2>3, <2>4, <2>5
  <2>8. IF m_link_state' = "SEND_ALIGN" THEN align_cnt' < MaxAlign ELSE align_cnt' = MaxAlign
    BY <2>4, <2>6, <2>7
  <2> QED BY <1>1, <1>3, <2>2, <2>7, <2>8 DEF DeviceUp, Aligned
<1>4. CASE m_oob_done /\ ~SimAlign
  <2>1. m_link_state # "SEND_ALIGN" /\ m_link_state' # "SEND_ALIGN" /\ align_cnt' = align_cnt
    <3>1. CASE SimSendData
      BY <1>4, <3>1, SendTypes DEF BenchInv, DeviceInv, SimTypeOK, FlagsOK, BufOK, SimSendData
    <3>2. CASE ~SimSendData
      BY <1>4, <3>2 DEF LinkLayer, SimIdle, SimSendChkRdy, SimSendEof, SimWait, SimRcvChkRdy,
         SimRcvData, SimRcvEof, SimGoodEnd, SimBadEnd, Listens, Sends, SimGoto, SimChkRdyNext
    <3> QED BY <3>1, <3>2
  <2>2. m_rxphy'.valid
    <3>1. \E w : m_rxphy' = Got(w)
      BY <1>4, Zenon DEF LinkLayer, SimIdle, SimSendChkRdy, SimSendEof, SimWait, SimRcvChkRdy,
         SimRcvData, SimRcvEof, SimGoodEnd, SimBadEnd, Listens, Sends, DevicePhySends, SimSendData,
         SendFrame, DmaActivate, PioSetupResponse, DataSend, D2hResponse
    <3> QED BY <3>1 DEF Got
  <2>3. Aligned /\ Aligned'
    BY <1>1, <2>1 DEF DeviceUp, Aligned
  <2> QED BY <1>1, <2>1, <2>2, <2>3 DEF DeviceUp
<1> QED BY <1>2, <1>3, <1>4

LEMMA UpKeeps ==
  ASSUME UpInv, faults \subseteq faults',
         UNCHANGED <<phyVars, linkVars, m_link_state, align_cnt, m_oob_done, m_rxphy, d2h>>
  PROVE  UpInv'
<1>1. DeviceUp' /\ (Aligned' <=> Aligned)
  BY DEF UpInv, DeviceUp, Aligned, phyVars, oobVars
<1>2. Heard' <=> Heard
  BY DEF Heard, phyVars, resetVars, txResetVars, rxResetVars
<1>3. HostUp' <=> HostUp
  BY DEF HostUp, linkVars
<1>4. Truthful' => Truthful
  BY TruthStays
<1>5. m_rxphy' = m_rxphy
  OBVIOUS
<1> QED BY <1>1, <1>2, <1>3, <1>4, <1>5 DEF UpInv

LEMMA ProgramUp ==
  ASSUME UpInv, Program
  PROVE  UpInv'
<1>1. faults \subseteq faults'
  BY DEF Program, LinkComesUp, WriteReturns, ReadReturns, NextTest, MainReturns, DeviceAside,
     AllAside, WriteCommand, ReadCommand, Issue, pathVars, NoDeparture, Departs
<1>2. UNCHANGED <<phyVars, linkVars, m_link_state, align_cnt, m_oob_done, m_rxphy, d2h>>
  BY Zenon DEF Program, LinkComesUp, WriteReturns, ReadReturns, NextTest, MainReturns, DeviceAside,
     AllAside, WriteCommand, ReadCommand, Issue, pathVars, simVars
<1> QED BY <1>1, <1>2, UpKeeps

LEMMA TxEdgeUp ==
  ASSUME BenchInv, UpInv, TxEdge
  PROVE  UpInv'
<1>1. faults \subseteq faults'
  BY DEF TxEdge, NoDeparture, Departs
<1>2. UNCHANGED <<rxResetVars, m_link_state, align_cnt, m_rxphy>>
  BY DEF TxEdge
<1>3. PICK word : SimTxTick(word)
  BY Zenon DEF TxEdge
<1>4. /\ cominit_sent => cominit_sent'
      /\ comwake_sent => comwake_sent'
      /\ m_oob_done' => m_oob_done \/ (cominit_sent' /\ comwake_sent')
      /\ m_oob_done /\ cominit_sent /\ comwake_sent => m_oob_done'
  BY <1>3 DEF SimTxTick, OobAside, ProcessOob, SendComs, ComsDone
<1>5. DeviceUp' /\ (Aligned => Aligned')
  BY <1>2, <1>4 DEF UpInv, DeviceUp, Aligned
<1>6. Heard' => Heard
  <2>1. CASE HostInReset
    BY <1>2, <2>1 DEF HostInReset, Heard, txResetVars, rxResetVars
  <2>2. ASSUME NEW arrives, NEW stalled, HostEdge(arrives, stalled) PROVE Heard' => Heard
    BY <1>2, <2>2, ResetHears DEF HostEdge, BenchInv, HostInv
  <2> QED BY <2>1, <2>2, Zenon DEF TxEdge
<1>7. PICK S : d2h \in Seq(S)
  BY DEF BenchInv, PathInv
<1>8. (\E i \in 1 .. Len(d2h') : Tells(d2h'[i])) => \E i \in 1 .. Len(d2h) : Tells(d2h[i])
  <2>1. CASE Len(d2h) > Lag
    <3>1. d2h' = Tail(d2h) /\ d2h # << >>
      BY <1>7, <2>1, BenchAssumption DEF TxEdge, ReceivedWord, Got
    <3>2. Len(d2h') = Len(d2h) - 1 /\ \A i \in 1 .. Len(d2h') : d2h'[i] = d2h[i + 1]
      BY <1>7, <3>1, HeadTailProperties
    <3>3. Len(d2h) \in Nat
      BY <1>7
    <3>4. \A i \in 1 .. Len(d2h') : i + 1 \in 1 .. Len(d2h)
      BY <3>2, <3>3
    <3> QED BY <3>2, <3>4, Zenon
  <2>2. CASE ~(Len(d2h) > Lag)
    BY <2>2 DEF TxEdge, ReceivedWord, NoWord
  <2> QED BY <2>1, <2>2
<1>9. o_link_ready' => HostUp
  <2>1. CASE HostInReset
    BY <2>1 DEF HostInReset, linkVars, HostUp
  <2>2. ASSUME NEW arrives, NEW stalled, HostEdge(arrives, stalled), o_link_ready' PROVE HostUp
    <3>1. o_link_ready \/ SeesDevice(LinkInput)
      BY <2>2, ReadyHears DEF HostEdge
    <3>2. SeesDevice(LinkInput) => Len(d2h) > Lag /\ Tells(Head(d2h))
      BY DEF SeesDevice, LinkInput, ReceivedWord, Is, NoWord, Got, Tells
    <3>3. Len(d2h) > Lag => 1 \in 1 .. Len(d2h) /\ Head(d2h) = d2h[1]
      BY <1>7, BenchAssumption
    <3> QED BY <3>1, <3>2, <3>3 DEF HostUp
  <2> QED BY <2>1, <2>2, Zenon DEF TxEdge
<1>10. HostUp' => HostUp
  BY <1>8, <1>9, Zenon DEF HostUp
<1>11. m_rxphy' = m_rxphy
  BY <1>2
<1> QED BY <1>1, <1>5, <1>6, <1>10, <1>11, TruthStays, Zenon DEF UpInv

LEMMA RxEdgeUp ==
  ASSUME BenchInv, UpInv, RxEdge
  PROVE  UpInv'
<1>1. faults \subseteq faults'
  BY DEF RxEdge, NoDeparture, Departs
<1>2. UNCHANGED <<txResetVars, linkVars, oobVars>> /\ LinkLayer
  BY DEF RxEdge
<1>3. DeviceUp' /\ (Aligned => Aligned') /\ (m_rxphy.valid => m_rxphy'.valid)
  BY <1>2, DeviceComesUp DEF UpInv, oobVars
<1>4. Heard' => m_rxphy.valid
  <2>1. PICK idle \in BOOLEAN : RxSample(Signalled(idle))
    BY Zenon DEF RxEdge
  <2>2. ext'["align"] > 0 => ext["align"] > 0 \/ Is(m_rxphy, "ALIGN")
    <3>1. Signalled(idle)["align"] = Is(m_rxphy, "ALIGN")
      BY DEF Signalled, Signals
    <3>2. CASE ext["align"] = 0
      <4>1. ext'["align"] = IF Signalled(idle)["align"] THEN Extend ELSE 0
        BY <2>1, <3>2 DEF RxSample, Signals
      <4> QED BY <3>1, <4>1
    <3>3. CASE ext["align"] # 0
      <4>1. ext["align"] \in Nat
        BY ResetAssumption DEF BenchInv, DeviceInv, RxResetOK, Signals
      <4> QED BY <3>3, <4>1
    <3> QED BY <3>2, <3>3
  <2>3. /\ rx_linkup_xpipe' = o_link_up /\ rx_linkup' = rx_linkup_xpipe
        /\ UNCHANGED <<pipe, fsm_state, o_link_up>>
    BY <1>2, <2>1 DEF RxSample, txResetVars
  <2>4. Is(m_rxphy, "ALIGN") => m_rxphy.valid
    BY DEF Is
  <2> QED BY <2>2, <2>3, <2>4, Zenon DEF Heard, UpInv
<1>5. ASSUME Truthful', HostUp' PROVE Aligned
  <2>1. HostUp => Aligned
    BY <1>1, <1>5, TruthStays DEF UpInv
  <2>2. o_link_ready' = o_link_ready
    BY <1>2 DEF linkVars
  <2>3. PICK S : d2h \in Seq(S)
    BY DEF BenchInv, PathInv
  <2>4. ASSUME NEW w, d2h' = Append(d2h, w), ~Tells(w) PROVE HostUp
    <3>1. /\ Len(d2h) \in Nat /\ d2h \in Seq(S \cup {w})
          /\ Len(d2h') = Len(d2h) + 1 /\ d2h'[Len(d2h) + 1] = w
          /\ \A i \in 1 .. Len(d2h) : d2h'[i] = d2h[i]
      BY <2>3, <2>4, AppendProperties
    <3>2. \A i \in 1 .. Len(d2h') : i \in 1 .. Len(d2h) \/ i = Len(d2h) + 1
      BY <3>1
    <3> QED BY <1>5, <2>2, <2>4, <3>1, <3>2, Zenon DEF HostUp
  <2>5. CASE d2h' = d2h
    BY <1>5, <2>1, <2>2, <2>5 DEF HostUp
  <2>6. CASE rx_linkup /\ d2h' = Append(d2h, m_rxphy.word)
    <3>1. CASE ~Tells(m_rxphy.word)
      BY <2>1, <2>4, <2>6, <3>1
    <3>2. CASE Tells(m_rxphy.word)
      <4>1. m_rxphy.valid
        BY <2>6 DEF UpInv, Heard
      <4>2. m_rxphy.word # Prim("ALIGN")
        BY <3>2 DEF Tells, Prim
      <4> QED BY <4>1, <4>2 DEF UpInv, DeviceUp
    <3> QED BY <3>1, <3>2
  <2>7. ASSUME NEW w \in {Prim(p) : p \in Bad} \cup {Damaged}, Departs("d2h"),
               d2h' = Append(d2h, w)
        PROVE  Aligned
    <3>1. Bad \cap {"SYNC", "X_RDY"} = {}
      BY <1>5, <2>7 DEF Departs, Truthful
    <3>2. ~Tells(w)
      BY <3>1 DEF Tells, Prim, Damaged, Scramble
    <3> QED BY <2>1, <2>4, <2>7, <3>2
  <2>8. \A w : Got(w).word = w
    BY DEF Got
  <2>9. \/ Arrives(m_rxphy)
        \/ Departs("d2h") /\ \E w \in {Prim(p) : p \in Bad} \cup {Damaged} : Arrives(Got(w))
    BY Zenon DEF RxEdge
  <2> QED BY <2>5, <2>6, <2>7, <2>8, <2>9, Zenon DEF Arrives
<1> QED BY <1>3, <1>4, <1>5, Zenon DEF UpInv

LEMMA UpStarts ==
  ASSUME Init
  PROVE  UpInv
<1>1. DeviceUp
  <2>1. align_cnt < MaxAlign
    BY MaxAlignAssumption DEF Init, SimInit
  <2> QED BY <2>1 DEF Init, SimInit, NoWord, DeviceUp
<1>2. ~Heard
  <2>1. ext["align"] = 0 /\ ~(0 > 0)
    BY DEF Init, ResetInit, Signals
  <2> QED BY <2>1 DEF Init, ResetInit, Signals, Heard
<1>3. ~HostUp
  BY DEF Init, LinkInReset, HostUp
<1> QED BY <1>1, <1>2, <1>3 DEF UpInv

LEMMA ComesUp == Spec => []UpInv
<1>1. BenchInv /\ UpInv /\ [Next]_vars => UpInv'
  <2> SUFFICES ASSUME BenchInv, UpInv, [Next]_vars PROVE UpInv'
    OBVIOUS
  <2>1. CASE Program \/ TxEdge \/ RxEdge
    BY <2>1, ProgramUp, TxEdgeUp, RxEdgeUp
  <2>2. CASE UNCHANGED vars
    BY <2>2, UpKeeps DEF vars, pathVars, simVars
  <2> QED BY <2>1, <2>2 DEF Next, Done
<1> QED BY <1>1, UpStarts, BenchTypes, PTL DEF Spec

\* The bring-up of sata_reset.v, satalnk_fsm.v and process_oob(), for any
\* delays, time-outs and number of ALIGNs, and however the program times out:
\* the host's transport layer is told of a link only when the device has been
\* through out-of-band signalling and has sent all its ALIGNs, unless a word
\* damaged on its way was taken for the device's SYNC or X_RDY.
THEOREM LinkComesUpTogether == Spec => [](Truthful => UpTogether)
<1>1. UpInv => (Truthful => UpTogether)
  BY DEF UpInv, HostUp, Aligned, UpTogether, i_link_up
<1> QED BY <1>1, ComesUp, PTL

\* So it is in every behaviour if no damaged word can look like either.
THEOREM LinkAlwaysComesUpTogether ==
  ASSUME Bad \cap {"SYNC", "X_RDY"} = {}
  PROVE  Spec => []UpTogether
<1>1. Truthful
  BY DEF Truthful
<1>2. UpInv => UpTogether
  BY <1>1 DEF UpInv, HostUp, Aligned, UpTogether, i_link_up
<1> QED BY <1>2, ComesUp, PTL


-----------------------------------------------------------------------------
(* The link stays up.  The device sends COMINIT once and goes quiet once    *)
(* (cominit_sent and m_rxphy_elecidle change for good), so that the states  *)
(* of sata_reset.v that have waited for the end of either never see it      *)
(* again: only an idle line reported on a live link takes READY away.       *)

\* A signal between the device and the state machine, newest stage first:
\* what has passed a stage has passed those before it, or is behind it.
Rises(now, s) ==
  /\ pipe[s][3] => pipe[s][2]
  /\ pipe[s][2] => pipe[s][1]
  /\ pipe[s][1] => ext[s] > 0
  /\ ext[s] > 0 => now
Ebbs(now, s) ==
  /\ now => ext[s] > 0
  /\ ext[s] > 0 => pipe[s][1]
  /\ pipe[s][1] => pipe[s][2]
  /\ pipe[s][2] => pipe[s][3]
Gone(now, s) == ~now /\ ~(ext[s] > 0) /\ ~pipe[s][1] /\ ~pipe[s][2] /\ ~pipe[s][3]

\* The states that have seen the end of the device's COMINIT.
PastInit == {"CALIBRATE", "COMWAKE", "AWAIT_RXCOMWAKE", "AWAIT_RXCLRWAKE", "AWAIT_ALIGN", "READY"}

\* COMINIT is one pulse on its way, without a gap.
InitOnce ==
  /\ cominit_sent => ~m_rxphy_cominit
  /\ ~cominit_sent => Rises(m_rxphy_cominit, "cominit")
  /\ pipe["cominit"][1] /\ ~pipe["cominit"][2] => ~pipe["cominit"][3]
  /\ ext["cominit"] > 0 /\ ~pipe["cominit"][1] => ~pipe["cominit"][2] /\ ~pipe["cominit"][3]
  /\ m_rxphy_cominit /\ ~(ext["cominit"] > 0)
       => ~pipe["cominit"][1] /\ ~pipe["cominit"][2] /\ ~pipe["cominit"][3]

InitSeen ==
  /\ fsm_state = "AWAIT_ENDOFINIT" =>
       Ebbs(m_rxphy_cominit, "cominit") /\ (cominit_sent \/ m_rxphy_cominit)
  /\ fsm_state \in PastInit => cominit_sent /\ Gone(m_rxphy_cominit, "cominit")

\* The idle line of the start reaches the state machine before m_phy_ready
\* does, and leaves it for good.
IdleSeen ==
  /\ turn = "tx" /\ m_phy_ready => (m_rxphy_elecidle => ext["elecidle"] > 0)
  /\ phy_pipe[1] => m_phy_ready /\ (m_rxphy_elecidle => ext["elecidle"] > 0)
                     /\ (ext["elecidle"] > 0 => pipe["elecidle"][1])
  /\ phy_pipe[2] => phy_pipe[1] /\ (pipe["elecidle"][1] => pipe["elecidle"][2])
  /\ phy_pipe[3] => phy_pipe[2] /\ (pipe["elecidle"][2] => pipe["elecidle"][3])
  /\ fsm_state # "RESET" => phy_pipe[3]
  /\ fsm_state = "READY" => Gone(m_rxphy_elecidle, "elecidle")

StaysUp == "idle" \notin faults => InitOnce /\ InitSeen /\ IdleSeen

\* A period of the transmit clock hands the signals one stage on, or holds
\* them while the host is in reset.
LEMMA TxEdgeShifts ==
  ASSUME TxEdge
  PROVE  /\ UNCHANGED ext /\ m_phy_ready' /\ turn = "tx" /\ turn' = "rx"
         /\ \/ UNCHANGED <<pipe, phy_pipe, fsm_state>>
            \/ /\ phy_pipe' = <<m_phy_ready, phy_pipe[1], phy_pipe[2]>>
               /\ \E fin : fsm_state' = NextState(fin)
               /\ \A s \in Signals : pipe'[s] = <<ext[s] > 0, pipe[s][1], pipe[s][2]>>
<1>1. UNCHANGED ext /\ turn = "tx" /\ turn' = "rx"
  BY DEF TxEdge, rxResetVars
<1>2. m_phy_ready'
  BY DEF TxEdge, SimTxTick, OobSignals
<1>3. CASE HostInReset
  BY <1>1, <1>2, <1>3 DEF HostInReset, txResetVars
<1>4. ASSUME NEW arrives, NEW stalled, HostEdge(arrives, stalled)
      PROVE  /\ phy_pipe' = <<m_phy_ready, phy_pipe[1], phy_pipe[2]>>
             /\ \E fin : fsm_state' = NextState(fin)
             /\ \A s \in Signals : pipe'[s] = <<ext[s] > 0, pipe[s][1], pipe[s][2]>>
  <2>1. ResetStep(m_phy_ready, m_txphy_comfinish, al_out)
    BY <1>4 DEF HostEdge
  <2> QED BY <2>1, Zenon DEF ResetStep
<1> QED BY <1>1, <1>2, <1>3, <1>4, Zenon DEF TxEdge

\* send_coms() and process_oob() on that edge.
LEMMA TxEdgeAnswers ==
  ASSUME TxEdge, cominit_sent => ~m_rxphy_cominit
  PROVE  /\ m_rxphy_elecidle' => m_rxphy_elecidle
         /\ cominit_sent => cominit_sent' /\ ~m_rxphy_cominit'
         /\ m_rxphy_cominit /\ ~m_rxphy_cominit' => cominit_sent'
         /\ cominit_sent' => ~m_rxphy_cominit'
<1>1. PICK word : SimTxTick(word)
  BY Zenon DEF TxEdge
<1>2. CASE UNCHANGED <<m_rxphy_elecidle, m_rxphy_cominit, cominit_sent>>
  BY <1>2
<1>3. CASE ProcessOob
  BY <1>3 DEF ProcessOob, SendComs, SendsCominit
<1> QED BY <1>1, <1>2, <1>3 DEF SimTxTick, OobAside

LEMMA TxEdgeInit ==
  ASSUME BenchInv, InitOnce, InitSeen, TxEdge
  PROVE  InitOnce' /\ InitSeen'
<1> DEFINE p == pipe["cominit"]
           e == ext["cominit"] > 0
<1>1. /\ m_rxphy_elecidle' => m_rxphy_elecidle
      /\ cominit_sent => cominit_sent' /\ ~m_rxphy_cominit'
      /\ m_rxphy_cominit /\ ~m_rxphy_cominit' => cominit_sent'
      /\ cominit_sent' => ~m_rxphy_cominit'
  BY TxEdgeAnswers DEF InitOnce
<1>2. (ext'["cominit"] > 0) <=> e
  BY TxEdgeShifts
<1>3. CASE UNCHANGED <<pipe, phy_pipe, fsm_state>>
  <2>1. pipe'["cominit"] = p
    BY <1>3
  <2>2. InitOnce'
    BY <1>1, <1>2, <2>1, Zenon DEF InitOnce, Rises
  <2>3. InitSeen'
    BY <1>1, <1>2, <1>3, <2>1, Zenon DEF InitOnce, InitSeen, Rises, Ebbs, Gone
  <2> QED BY <2>2, <2>3
<1>4. ASSUME NEW fin, fsm_state' = NextState(fin),
             pipe'["cominit"] = <<e, p[1], p[2]>>
      PROVE  InitOnce' /\ InitSeen'
  <2>1. (pipe'["cominit"][1] <=> e) /\ pipe'["cominit"][2] = p[1] /\ pipe'["cominit"][3] = p[2]
    <3> HIDE DEF p, e
    <3> QED BY <1>4
  <2>2. InitOnce'
    BY <1>1, <1>2, <2>1, Zenon DEF InitOnce, Rises
  <2>3. fsm_state' = "AWAIT_ENDOFINIT" =>
           (fsm_state = "AWAIT_ENDOFINIT" \/ fsm_state = "AWAIT_RXCOMINIT") /\ p[3]
    BY <1>4 DEF NextState, BenchInv, HostInv, TxResetOK, ResetStates, ck
  <2>4. fsm_state' \in PastInit =>
           fsm_state \in PastInit \/ (fsm_state = "AWAIT_ENDOFINIT" /\ ~p[3])
    BY <1>4 DEF NextState, BenchInv, HostInv, TxResetOK, ResetStates, ck, PastInit
  <2>5. ASSUME fsm_state' = "AWAIT_ENDOFINIT"
        PROVE  Ebbs(m_rxphy_cominit, "cominit")' /\ (cominit_sent \/ m_rxphy_cominit)'
    BY <1>1, <1>2, <2>1, <2>3, <2>5, Zenon DEF InitOnce, InitSeen, Rises, Ebbs
  <2>6. ASSUME fsm_state' \in PastInit
        PROVE  cominit_sent' /\ Gone(m_rxphy_cominit, "cominit")'
    BY <1>1, <1>2, <2>1, <2>4, <2>6, Zenon DEF InitOnce, InitSeen, Rises, Ebbs, Gone
  <2> QED BY <2>2, <2>5, <2>6 DEF InitSeen
<1>5. "cominit" \in Signals
  BY DEF Signals
<1> HIDE DEF p, e
<1>6. \/ UNCHANGED <<pipe, phy_pipe, fsm_state>>
      \/ (\E fin : fsm_state' = NextState(fin)) /\ pipe'["cominit"] = <<e, p[1], p[2]>>
  BY TxEdgeShifts, <1>5, Zenon DEF p, e
<1> QED BY <1>3, <1>4, <1>6, Zenon

LEMMA TxEdgeIdle ==
  ASSUME BenchInv, InitOnce, InitSeen, IdleSeen, TxEdge
  PROVE  IdleSeen'
<1> DEFINE p == pipe["elecidle"]
           e == ext["elecidle"] > 0
<1>1. m_rxphy_elecidle' => m_rxphy_elecidle
  BY TxEdgeAnswers DEF InitOnce
<1>2. /\ (ext'["elecidle"] > 0) <=> e
      /\ turn = "tx" /\ turn' = "rx" /\ m_phy_ready'
  BY TxEdgeShifts
<1>3. CASE UNCHANGED <<pipe, phy_pipe, fsm_state>>
  <2>1. pipe'["elecidle"] = p
    BY <1>3
  <2> QED BY <1>1, <1>2, <1>3, <2>1, Zenon DEF IdleSeen, Gone
<1>4. ASSUME NEW fin, fsm_state' = NextState(fin), phy_pipe' = <<m_phy_ready, phy_pipe[1], phy_pipe[2]>>,
             pipe'["elecidle"] = <<e, p[1], p[2]>>
      PROVE  IdleSeen'
  <2>1. (pipe'["elecidle"][1] <=> e) /\ pipe'["elecidle"][2] = p[1] /\ pipe'["elecidle"][3] = p[2]
    <3> HIDE DEF p, e
    <3> QED BY <1>4
  <2>2. phy_pipe'[1] = m_phy_ready /\ phy_pipe'[2] = phy_pipe[1] /\ phy_pipe'[3] = phy_pipe[2]
    BY <1>4
  <2>3. fsm_state' # "RESET" => fsm_state # "RESET" \/ phy_pipe[3]
    BY <1>4 DEF NextState, ck_phy_ready
  <2>4. fsm_state' = "READY" =>
           fsm_state = "READY" \/ (fsm_state = "AWAIT_ALIGN" /\ ~p[3])
    BY <1>4 DEF NextState, BenchInv, HostInv, TxResetOK, ResetStates, ck
  <2>5. fsm_state = "AWAIT_ALIGN" => phy_pipe[3]
    BY DEF IdleSeen
  <2>6. phy_pipe'[1] => m_phy_ready' /\ (m_rxphy_elecidle' => ext'["elecidle"] > 0)
                         /\ (ext'["elecidle"] > 0 => pipe'["elecidle"][1])
    BY <1>1, <1>2, <2>1, <2>2, Zenon DEF IdleSeen
  <2>7. phy_pipe'[2] => phy_pipe'[1] /\ (pipe'["elecidle"][1] => pipe'["elecidle"][2])
    BY <1>1, <1>2, <2>1, <2>2, Zenon DEF IdleSeen
  <2>8. phy_pipe'[3] => phy_pipe'[2] /\ (pipe'["elecidle"][2] => pipe'["elecidle"][3])
    BY <1>1, <1>2, <2>1, <2>2, Zenon DEF IdleSeen
  <2>9. fsm_state' # "RESET" => phy_pipe'[3]
    BY <2>2, <2>3, Zenon DEF IdleSeen
  <2>10. fsm_state' = "READY" => Gone(m_rxphy_elecidle, "elecidle")'
    BY <1>1, <1>2, <2>1, <2>4, <2>5, Zenon DEF IdleSeen, Gone
  <2> QED BY <1>2, <2>6, <2>7, <2>8, <2>9, <2>10 DEF IdleSeen
<1>5. "elecidle" \in Signals
  BY DEF Signals
<1> HIDE DEF p, e
<1>6. \/ UNCHANGED <<pipe, phy_pipe, fsm_state>>
      \/ /\ phy_pipe' = <<m_phy_ready, phy_pipe[1], phy_pipe[2]>>
         /\ \E fin : fsm_state' = NextState(fin)
         /\ pipe'["elecidle"] = <<e, p[1], p[2]>>
  BY TxEdgeShifts, <1>5, Zenon DEF p, e
<1> QED BY <1>3, <1>4, <1>6, Zenon

\* A signal stays in its counter while it lasts, and comes from nowhere else.
LEMMA Extended ==
  ASSUME BenchInv, NEW sig, RxSample(sig), NEW s \in Signals
  PROVE  /\ sig[s] => ext'[s] > 0
         /\ ext'[s] > 0 => sig[s] \/ ext[s] > 0
<1>1. ext[s] \in Nat /\ Extend \in Nat /\ Extend > 0
  BY ResetAssumption DEF BenchInv, DeviceInv, RxResetOK
<1>2. ext'[s] = CASE ext[s] = 0 -> IF sig[s] THEN Extend ELSE 0
                  [] ext[s] = 1 -> IF sig[s] THEN 1 ELSE 0
                  [] OTHER      -> ext[s] - 1
  BY DEF RxSample
<1> QED BY <1>1, <1>2

LEMMA RxEdgeStaysUp ==
  ASSUME BenchInv, StaysUp, RxEdge
  PROVE  StaysUp'
<1> SUFFICES ASSUME "idle" \notin faults' PROVE (InitOnce /\ InitSeen /\ IdleSeen)'
  BY DEF StaysUp
<1>1. "idle" \notin faults
  BY DEF RxEdge, NoDeparture, Departs
<1>2. InitOnce /\ InitSeen /\ IdleSeen
  BY <1>1 DEF StaysUp
<1>3. RxSample(Signalled(FALSE))
  BY DEF RxEdge, Departs
<1>4. UNCHANGED <<pipe, phy_pipe, fsm_state, m_rxphy_cominit, m_rxphy_elecidle, cominit_sent,
                  m_phy_ready>>
  BY DEF RxEdge, txResetVars, oobVars
<1>5. /\ m_rxphy_cominit => ext'["cominit"] > 0
      /\ ext'["cominit"] > 0 => m_rxphy_cominit \/ ext["cominit"] > 0
  <2>1. "cominit" \in Signals /\ Signalled(FALSE)["cominit"] = m_rxphy_cominit
    BY DEF Signals, Signalled
  <2> QED BY <1>3, <2>1, Extended
<1>6. /\ m_rxphy_elecidle => ext'["elecidle"] > 0
      /\ ext'["elecidle"] > 0 => m_rxphy_elecidle \/ ext["elecidle"] > 0
  <2>1. "elecidle" \in Signals /\ (Signalled(FALSE)["elecidle"] <=> m_rxphy_elecidle)
    BY DEF Signals, Signalled
  <2> QED BY <1>3, <2>1, Extended
<1>7. InitOnce'
  BY <1>2, <1>4, <1>5, Zenon DEF InitOnce, Rises
<1>8. InitSeen'
  BY <1>2, <1>4, <1>5, Zenon DEF InitSeen, Ebbs, Gone
<1>9. IdleSeen'
  BY <1>2, <1>4, <1>6, Zenon DEF IdleSeen, Gone
<1> QED BY <1>7, <1>8, <1>9

LEMMA UpStaysAside ==
  ASSUME StaysUp, faults \subseteq faults', UNCHANGED <<phyVars, turn>>
  PROVE  StaysUp'
<1>1. UNCHANGED <<pipe, phy_pipe, fsm_state, m_rxphy_cominit, m_rxphy_elecidle, cominit_sent,
                  m_phy_ready, ext, turn>>
  BY DEF phyVars, resetVars, txResetVars, rxResetVars, oobVars
<1> QED BY <1>1 DEF StaysUp, InitOnce, InitSeen, IdleSeen, Rises, Ebbs, Gone

LEMMA StaysUpStarts ==
  ASSUME Init
  PROVE  StaysUp
<1>1. /\ ~m_rxphy_cominit /\ ~cominit_sent /\ ~m_phy_ready /\ fsm_state = "RESET"
      /\ ~phy_pipe[1] /\ ~phy_pipe[2] /\ ~phy_pipe[3]
  BY DEF Init, ResetInit, OobInit
<1>2. ~(ext["cominit"] > 0) /\ ~pipe["cominit"][1] /\ ~pipe["cominit"][2] /\ ~pipe["cominit"][3]
  BY DEF Init, ResetInit, Signals
<1> QED BY <1>1, <1>2 DEF StaysUp, InitOnce, InitSeen, IdleSeen, Rises, PastInit

LEMMA UpStays == Spec => []StaysUp
<1>1. BenchInv /\ StaysUp /\ [Next]_vars => StaysUp'
  <2> SUFFICES ASSUME BenchInv, StaysUp, [Next]_vars PROVE StaysUp'
    OBVIOUS
  <2>1. CASE Program
    <3>1. faults \subseteq faults'
      BY <2>1 DEF Program, LinkComesUp, WriteReturns, ReadReturns, NextTest, MainReturns,
         DeviceAside, AllAside, WriteCommand, ReadCommand, Issue, pathVars, NoDeparture, Departs
    <3>2. UNCHANGED <<phyVars, turn>>
      BY <2>1, Zenon DEF Program, LinkComesUp, WriteReturns, ReadReturns, NextTest, MainReturns,
         DeviceAside, AllAside, WriteCommand, ReadCommand, Issue, pathVars
    <3> QED BY <3>1, <3>2, UpStaysAside
  <2>2. CASE TxEdge
    <3> SUFFICES ASSUME "idle" \notin faults' PROVE (InitOnce /\ InitSeen /\ IdleSeen)'
      BY DEF StaysUp
    <3>1. "idle" \notin faults
      BY <2>2 DEF TxEdge, NoDeparture, Departs
    <3> QED BY <2>2, <3>1, TxEdgeInit, TxEdgeIdle DEF StaysUp
  <2>3. CASE RxEdge
    BY <2>3, RxEdgeStaysUp
  <2>4. CASE UNCHANGED vars
    BY <2>4, UpStaysAside DEF vars, pathVars
  <2> QED BY <2>1, <2>2, <2>3, <2>4 DEF Next, Done
<1> QED BY <1>1, StaysUpStarts, BenchTypes, PTL DEF Spec

=============================================================================
