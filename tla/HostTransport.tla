---------------------------- MODULE HostTransport -----------------------------
(***************************************************************************)
(* What the link layer talks to in the host: the sequencer of rtl/         *)
(* satatrn_fsm.v, reduced to the four commands of the bench and to the     *)
(* steps the link can tell apart, and the sorting of received FISs of      *)
(* satatrn_rxregfis.v.  TranFsm.tla and Transport.tla hold the sequencer   *)
(* cycle by cycle, with its engines.  HostStep is one rising edge of the   *)
(* transmit clock with m the beat out of the link's receive pipeline.      *)
(*                                                                         *)
(* A received data word is Cross periods on its way through the gears and  *)
(* the FIFOs (rx_path) before the engine can write it, and the engine      *)
(* writes one word a period unless the bus stalls it.                      *)
(*                                                                         *)
(* Abstracted: the registers of those FIFOs (AsyncFifo.tla), and the       *)
(* crossing of register FISs, which are short and meet no bus: they reach  *)
(* the sequencer in the period they leave the link.                        *)
(***************************************************************************)
EXTENDS SataWords

CONSTANTS
  HostWords,     \* words of the memory region a read command fills
  Cross          \* periods of a data word from the link to the engine

ASSUME HostAssumption == HostWords \in Nat /\ Cross \in Nat

VARIABLES
  tran_state,                        \* fsm_state of satatrn_fsm.v
  s_sop,                             \* the next register word starts a FIS
  mid_packet_phy, is_regpacket_phy, is_datapacket_phy,
  s2mm_run,                          \* o_s2mm_request or i_s2mm_busy
  rx_path,                           \* received words the engine has yet to write
  r_mem, r_posn,                     \* the memory read into, words stored
  o_int                              \* return_to_idle: no FIS here sets r_int

rxregVars == <<mid_packet_phy, is_regpacket_phy, is_datapacket_phy>>
hostVars  == <<tran_state, s_sop, rxregVars, s2mm_run, rx_path, r_mem, r_posn, o_int>>

TranStates == {"IDLE", "PIO_IN_SETUP", "PIO_RXDATA", "PIO_OUT_SETUP",
               "PIO_TXDATA", "DMA_IN", "DMA_IN_FINAL", "DMA_OUT_SETUP",
               "DMA_TXDATA"}

Zero == <<"ZERO">>
RegFis(op) == << <<"REG", op>>, <<"REG", "LBA">>, <<"REG", "FEATURES">>, <<"REG", "COUNT">> >>

-----------------------------------------------------------------------------
\* A command written while the sequencer is idle; at any other time the
\* write is lost, and so it is while the link is down.
AfterCommand(op) == CASE op = "READ_DMA"     -> "DMA_IN"
                      [] op = "WRITE_DMA"    -> "DMA_OUT_SETUP"
                      [] op = "READ_BUFFER"  -> "PIO_IN_SETUP"
                      [] op = "WRITE_BUFFER" -> "PIO_OUT_SETUP"

Accepts(i_link_up) == tran_state = "IDLE" /\ i_link_up

StartHost(op) ==
  /\ tran_state' = AfterCommand(op)
  /\ s2mm_run' = (s2mm_run \/ op = "READ_DMA")
  /\ o_int' = FALSE
  /\ UNCHANGED <<s_sop, rxregVars, rx_path, r_mem, r_posn>>

-----------------------------------------------------------------------------
(* satatrn_rxregfis.v: m.abort is its i_link_err, the link's abort or error *)

RegWord(m) ==
  /\ m.valid /\ ~m.abort
  /\ is_regpacket_phy \/ (~mid_packet_phy /\ m.data # <<"DATA">>)
DataWord(m) == m.valid /\ ~m.abort /\ is_datapacket_phy

\* A first word of a register FIS of type t.
Sop(m, t) == RegWord(m) /\ s_sop /\ m.data = t

SortFis(m) ==
  /\ mid_packet_phy' = (~m.abort /\ IF m.valid THEN ~m.last ELSE mid_packet_phy)
  /\ is_regpacket_phy' =
       (~m.abort /\ IF m.valid
                    THEN ~m.last /\ (IF mid_packet_phy THEN is_regpacket_phy
                                     ELSE m.data # <<"DATA">>)
                    ELSE is_regpacket_phy)
  /\ is_datapacket_phy' =
       (~m.abort /\ IF m.valid
                    THEN ~m.last /\ (IF mid_packet_phy THEN is_datapacket_phy
                                     ELSE m.data = <<"DATA">>)
                    ELSE is_datapacket_phy)
  /\ s_sop' = IF RegWord(m) THEN m.last ELSE s_sop

-----------------------------------------------------------------------------
(* sata_transport.v and satadma_s2mm.v, from the link to memory *)

\* The word a received one becomes on the way, and one period of the way.
Enters(m) == IF DataWord(m)
             THEN << [data |-> m.data, last |-> m.last, wait |-> Cross] >> ELSE << >>
Moved(path) == [i \in DOMAIN path |-> [path[i] EXCEPT !.wait = IF @ > 0 THEN @ - 1 ELSE 0]]

Writes(m, stalled) ==
  s2mm_run /\ ~stalled /\ ~m.abort /\ rx_path # << >> /\ rx_path[1].wait = 0
WritesLast(m, stalled) == Writes(m, stalled) /\ rx_path[1].last

\* The FIFOs are held in reset while the engine neither runs nor is asked
\* for, and the engine takes its address while it does not run.  e is m with
\* the link's error, which stops words from entering.
StoreWord(m, e, stalled) ==
  /\ rx_path' = IF m.abort \/ ~s2mm_run THEN << >>
                ELSE Moved(IF Writes(m, stalled) THEN Tail(rx_path) ELSE rx_path) \o Enters(e)
  /\ r_mem' = IF Writes(m, stalled) /\ r_posn < HostWords
              THEN [r_mem EXCEPT ![r_posn + 1] = rx_path[1].data] ELSE r_mem
  /\ r_posn' = IF ~s2mm_run THEN 0
               ELSE IF Writes(m, stalled) /\ r_posn < HostWords THEN r_posn + 1 ELSE r_posn

D2hSop(m) == Sop(m, <<"D2H", 1>>)

\* Seeded fault of InFinalDone: the engine is not waited for.
InFinalDone_Always == TRUE

InFinalDone == ~s2mm_run

\* The next state, and whether the sequencer returns to idle by it.  A
\* transmission lasts until the packet has left; queued says it has not.
Move(m, queued) ==
  LET to(s, done) == [state |-> s, done |-> done]
      stay == to(tran_state, FALSE)
      setup(act, tx) == IF D2hSop(m) THEN to("IDLE", TRUE)
                        ELSE IF Sop(m, act) THEN to(tx, FALSE) ELSE stay
  IN CASE tran_state = "IDLE" -> stay
       [] tran_state = "PIO_IN_SETUP"  -> setup(<<"PIO_SETUP", 1>>, "PIO_RXDATA")
       [] tran_state = "PIO_RXDATA"    -> IF D2hSop(m) THEN to("IDLE", TRUE) ELSE stay
       [] tran_state = "PIO_OUT_SETUP" -> setup(<<"PIO_SETUP", 1>>, "PIO_TXDATA")
       [] tran_state = "PIO_TXDATA"    -> IF queued THEN stay ELSE to("PIO_OUT_SETUP", FALSE)
       [] tran_state = "DMA_IN"        -> IF D2hSop(m) THEN to("DMA_IN_FINAL", FALSE) ELSE stay
       [] tran_state = "DMA_IN_FINAL"  -> IF InFinalDone THEN to("IDLE", TRUE) ELSE stay
       [] tran_state = "DMA_OUT_SETUP" -> setup(<<"DMA_ACT">>, "DMA_TXDATA")
       [] tran_state = "DMA_TXDATA"    -> IF queued THEN stay ELSE to("DMA_OUT_SETUP", FALSE)

\* The link's abort, or its loss, sends the sequencer home, and says so to
\* the host.  The engine is stopped by the abort alone.
Sequence(m, queued, i_link_up, stalled) ==
  IF m.abort \/ ~i_link_up
  THEN /\ tran_state' = "IDLE"
       /\ o_int' = (tran_state # "IDLE")
       /\ s2mm_run' = (s2mm_run /\ ~m.abort)
  ELSE LET move == Move(m, queued) IN
       /\ tran_state' = move.state
       /\ o_int' = move.done
       /\ s2mm_run' = ((s2mm_run /\ ~WritesLast(m, stalled))
                        \/ (tran_state = "PIO_IN_SETUP" /\ move.state = "PIO_RXDATA"))

\* A data frame goes to the link with the step into a transmitting state.
BeginsData(m, i_link_up) ==
  /\ ~m.abort /\ i_link_up
  /\ tran_state \in {"PIO_OUT_SETUP", "DMA_OUT_SETUP"}
  /\ Move(m, FALSE).state \in {"PIO_TXDATA", "DMA_TXDATA"}

\* stalled: the bus does not take the engine's word in this period.
HostStep(m, queued, i_link_up, i_link_err, stalled) ==
  LET e == [m EXCEPT !.abort = m.abort \/ i_link_err]
  IN  SortFis(e) /\ StoreWord(m, e, stalled) /\ Sequence(m, queued, i_link_up, stalled)

HostInit ==
  /\ tran_state = "IDLE" /\ s_sop = TRUE
  /\ mid_packet_phy = FALSE /\ is_regpacket_phy = FALSE /\ is_datapacket_phy = FALSE
  /\ s2mm_run = FALSE /\ o_int = FALSE
  /\ rx_path = << >>
  /\ r_mem = [i \in 1 .. HostWords |-> Zero] /\ r_posn = 0

HostTypeOK ==
  /\ tran_state \in TranStates
  /\ {s_sop, mid_packet_phy, is_regpacket_phy, is_datapacket_phy, s2mm_run,
      o_int} \subseteq BOOLEAN
  /\ \A i \in DOMAIN rx_path : rx_path[i].wait \in 0 .. Cross
  /\ DOMAIN r_mem = 1 .. HostWords
  /\ r_posn \in 0 .. HostWords

=============================================================================
