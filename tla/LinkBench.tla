------------------------------ MODULE LinkBench -------------------------------
(***************************************************************************)
(* The bench of bench/cpp/tb_sata.cpp: the host's reset controller         *)
(* (PhyReset), link layer (LinkFsm, LinkAlign, LinkPackets) and transport  *)
(* layer (HostTransport) against the simulated disk (SataSim, SataSimOob), *)
(* driven by main(), with dma_test() and then pio_test().                  *)
(*                                                                         *)
(*   TxEdge   a period of the host's transmit clock: its rising edge in    *)
(*            the Verilog, sim_tx_clk_tick() on the falling one            *)
(*   RxEdge   a period of the device's clock: sim_rx_clk_tick() on the     *)
(*            falling edge, then the rising edge in the Verilog            *)
(*                                                                         *)
(* The two alternate.  A behaviour may depart from that, each way once     *)
(* (faults): the receive clock is the faster of the two and slips ahead by  *)
(* a period, the transmit pipeline has no word ready, the receiving side   *)
(* is full for a while, the memory bus stalls the engine for a while       *)
(* (bus), a word is damaged on its way, the program starts at another      *)
(* moment between two ALIGNs (phase), or the host's receiver reports an    *)
(* idle line for a period of a live link (idle).                           *)
(***************************************************************************)
EXTENDS PhyReset, LinkFsm, LinkAlign, LinkPackets, HostTransport, SataSimOob,
        SataSim

CONSTANTS
  Lag,          \* periods from the device to the host's state machine
  FullFor,      \* periods the receiving side stays full
  DmaStall, PioStall,   \* periods the bus stalls, in each of the two tests
  Departures,   \* the sets of departures a behaviour may have
  Phases,       \* periods the program may start early
  Bad,          \* the primitives a damaged word may turn into
  IntTimeout,   \* 10000 ticks of wait_for_int(), in transmit periods
  GapTicks      \* 1000 ticks of wait(), in transmit periods

AllKinds == {"slip", "stall", "full", "bus", "phase", "d2h", "h2d", "idle"}
ASSUME DeparturesAssumption == Departures \subseteq SUBSET AllKinds
ASSUME BenchAssumption == /\ Lag \in Nat /\ FullFor \in Nat
                          /\ DmaStall \in Nat /\ PioStall \in Nat
                          /\ IntTimeout \in Nat /\ GapTicks \in 0 .. IntTimeout
                          /\ Phases \subseteq 0 .. GapTicks

VARIABLES
  turn,           \* the clock whose period is next
  d2h,            \* receive FIFO: the words on their way to the host
  full,           \* periods the receiving side is still full
  busy,           \* periods the bus still stalls
  faults,         \* the departures so far
  test, pc, ticks, disk, verdict,   \* the bench's program
  sent, refused, aborted, lost      \* history: see History

pathVars  == <<turn, d2h, full, busy, faults>>
phyVars   == <<resetVars, oobVars>>
benchVars == <<test, pc, ticks, disk, verdict>>
ghosts    == <<sent, refused, aborted, lost>>
vars == <<phyVars, linkVars, alignVars, txVars, rxVars, hostVars, simVars, pathVars,
          benchVars, ghosts>>

\* test_data of dma_test() and pio_test().
Pattern == [i \in 1 .. SectorWords |-> <<test, i>>]
WriteOp == IF test = "DMA" THEN "WRITE_DMA" ELSE "WRITE_BUFFER"
ReadOp  == IF test = "DMA" THEN "READ_DMA" ELSE "READ_BUFFER"

-----------------------------------------------------------------------------
(* The program.  Its steps take no time: they run before the next edge.    *)

IntOrTimeout == o_int \/ ticks = IntTimeout

LinkOrTimeout == o_link_ready \/ ticks = IntTimeout

i_link_up == o_link_ready /\ ~o_link_error

ProgramReady == \/ pc = "link" /\ LinkOrTimeout
                \/ pc \in {"wait_write", "wait_read"} /\ IntOrTimeout
                \/ pc \in {"start", "gap", "last"} /\ ticks = GapTicks

Issue(op) ==
  /\ IF Accepts(i_link_up)
     THEN StartHost(op) /\ tx_queue' = tx_queue \o Packet(RegFis(op))
     ELSE UNCHANGED <<hostVars, tx_queue>>
  /\ ticks' = 0 /\ refused' = FALSE /\ aborted' = FALSE
  /\ UNCHANGED <<phyVars, linkVars, alignVars, tx_state, tx_valid, tx_word, tx_last,
                 rxVars, m_link_state, align_cnt, m_oob_done, m_txphy, m_rxphy,
                 flagVars, bufVars, m_received_data, pathVars, test, sent, lost>>

AllAside == UNCHANGED <<phyVars, linkVars, alignVars, txVars, rxVars, hostVars,
                        simVars, turn, d2h, full, busy, test, ghosts>>
DeviceAside == AllAside /\ UNCHANGED faults

Departs(kind) ==
  /\ kind \notin faults /\ faults \cup {kind} \in Departures
  /\ faults' = faults \cup {kind}
NoDeparture == UNCHANGED faults

\* wait_while_link_ready() returns, and wait(1000) begins
LinkComesUp ==
  /\ pc = "link" /\ LinkOrTimeout
  /\ pc' = "start"
  /\ \/ ticks' = 0 /\ NoDeparture
     \/ ticks' \in Phases /\ Departs("phase")
  /\ UNCHANGED <<disk, verdict>> /\ AllAside

\* dma_write(), pio_write(): the command
WriteCommand ==
  /\ pc = "start" /\ ticks = GapTicks
  /\ Issue(WriteOp)
  /\ pc' = "wait_write"
  /\ UNCHANGED <<m_sent_data, disk, verdict>>

\* wait_for_int() returns: write_to_disk(), then wait(1000)
WriteReturns ==
  /\ pc = "wait_write" /\ IntOrTimeout
  /\ disk' = [i \in 1 .. SectorWords |-> m_received_data[i]]
  /\ pc' = "gap" /\ ticks' = 0
  /\ UNCHANGED verdict /\ DeviceAside

\* read_from_disk()
ReadData == disk

\* dma_read(), pio_read(): the command, then read_from_disk() and
\* set_sent_data() before the clocks move
ReadCommand ==
  /\ pc = "gap" /\ ticks = GapTicks
  /\ Issue(ReadOp)
  /\ m_sent_data' = ReadData
  /\ pc' = "wait_read"
  /\ UNCHANGED <<disk, verdict>>

\* wait_for_int() returns: verify_data()
ReadReturns ==
  /\ pc = "wait_read" /\ IntOrTimeout
  /\ verdict' = IF r_mem = Pattern THEN "pass" ELSE "fail"
  /\ pc' = "last" /\ ticks' = 0
  /\ UNCHANGED disk /\ DeviceAside

\* wait(1000) between the tests, and pio_test() with another region of memory
NextTest ==
  /\ pc = "last" /\ ticks = GapTicks /\ test = "DMA" /\ verdict = "pass"
  /\ test' = "PIO" /\ pc' = "start" /\ verdict' = "none"
  /\ r_mem' = [i \in 1 .. HostWords |-> Zero]
  /\ UNCHANGED <<phyVars, linkVars, alignVars, txVars, rxVars, tran_state, s_sop, rxregVars,
                 s2mm_run, rx_path, r_posn, o_int, simVars, pathVars, ticks, disk, ghosts>>

\* wait(1000), and main() returns: the clocks stop.  After a failed dma_test()
\* main() exits; here it waits before that as well.
MainReturns ==
  /\ pc = "last" /\ ticks = GapTicks
  /\ test = "DMA" => verdict = "fail"
  /\ pc' = "done"
  /\ UNCHANGED <<disk, verdict, ticks>> /\ DeviceAside

Program ==
  /\ turn = "tx"
  /\ \/ LinkComesUp \/ WriteCommand \/ WriteReturns \/ ReadCommand \/ ReadReturns
     \/ NextTest \/ MainReturns

-----------------------------------------------------------------------------
(* Edges *)

\* A data word that fails the CRC wherever it lands.
Damaged == Scramble(Noise, 0)

ReceivedWord == IF Len(d2h) > Lag THEN Got(Head(d2h)) ELSE NoWord

\* The wires into the link's state machine.
LinkInput ==
  [rx |-> ReceivedWord, s_valid |-> tx_valid, s_data |-> tx_word, s_last |-> tx_last,
   m_full |-> full > 0, m_empty |-> full = 0,
   m_last |-> m_out.last, m_abort |-> m_out.abort,
   m_phy_ready |-> LinkReady, i_phy_ready |-> o_link_up]

(***************************************************************************)
(* History: sent, what the framer has taken since its SOF left; refused,   *)
(* whether the device has refused a frame since the command; aborted,      *)
(* whether the link has aborted one or gone down.                          *)
(***************************************************************************)
History(arrives) ==
  /\ LET taken == IF Takes(SReady(LinkReady), arrives)
                  THEN << Head(tx_queue).word.val >> ELSE << >>
     IN  sent' = IF SReady(LinkReady) /\ tx_word = Prim("SOF") THEN taken
                 ELSE sent \o taken
  /\ refused' = (refused \/ s_failed)
  /\ aborted' = (aborted \/ m_out.abort \/ ~i_link_up)
  /\ UNCHANGED lost

\* The rising edge in the host.
HostEdge(arrives, stalled) ==
  /\ ResetStep(m_phy_ready, m_txphy_comfinish, al_out)
  /\ LinkStep(LinkInput)
  /\ AlignStep(m_phy_data)
  /\ TxStep(SReady(LinkReady), arrives,
            IF BeginsData(m_out, i_link_up) THEN Packet(<< <<"DATA">> >> \o Pattern) ELSE << >>)
  /\ RxStep(ReceivedWord, o_link_up)
  /\ HostStep(m_out, tx_queue # << >>, i_link_up, o_link_error, stalled)
  /\ History(arrives)

\* The host is held in reset until process_tx_signals() has set m_phy_ready.
HostInReset ==
  /\ ~m_phy_ready
  /\ UNCHANGED <<txResetVars, linkVars, alignVars, txVars, rxVars, hostVars, ghosts>>

\* sim_tx_clk_tick(): the host sends word.
SimTxTick(word) ==
  /\ IF o_link_ready' THEN OobAside /\ UNCHANGED m_oob_done
     ELSE ProcessOob /\ m_oob_done' = ComsDone
  /\ OobSignals(o_tx_cominit', o_tx_comwake')
  /\ ProcessTxSignals(word)

Drain(n) == IF n > 0 THEN n - 1 ELSE 0

\* rand() of memsim.cpp, and the test it is compared in
StallFor == IF test = "DMA" THEN DmaStall ELSE PioStall

TxEdge ==
  /\ turn = "tx" /\ pc # "done" /\ ~ProgramReady
  /\ turn' = "rx"
  /\ d2h' = IF ReceivedWord.valid THEN Tail(d2h) ELSE d2h
  /\ ticks' = ticks + 1
  /\ \/ /\ HostInReset \/ (m_phy_ready /\ HostEdge(TRUE, busy > 0))
        /\ full' = Drain(full) /\ busy' = Drain(busy)
        /\ \/ SimTxTick(phy_reg') /\ NoDeparture
           \/ ~phy_reg'.prim /\ tx_queue # << >> /\ SimTxTick(Damaged) /\ Departs("h2d")
     \/ /\ tx_queue # << >> /\ Departs("stall")
        /\ HostEdge(FALSE, busy > 0)
        /\ SimTxTick(phy_reg') /\ full' = Drain(full) /\ busy' = Drain(busy)
     \/ /\ link_state \in {"RCVWAITFIFO", "RCVCHKRDY", "RCVDATA"} /\ Departs("full")
        /\ HostEdge(TRUE, busy > 0)
        /\ SimTxTick(phy_reg') /\ full' = FullFor /\ busy' = Drain(busy)
     \/ /\ rx_path # << >> /\ Departs("bus")
        /\ HostEdge(TRUE, TRUE)
        /\ SimTxTick(phy_reg') /\ full' = Drain(full) /\ busy' = StallFor
  /\ UNCHANGED <<rxResetVars, m_link_state, align_cnt, m_rxphy, flagVars, bufVars,
                 m_received_data, m_sent_data, test, pc, disk, verdict>>

\* The device's word; satalnk_rmcont.v drops it when it is an ALIGN.
Arrives(w) == d2h' = IF rx_linkup /\ w # Got(Prim("ALIGN")) THEN Append(d2h, w.word) ELSE d2h

Signalled(idle) ==
  [s \in Signals |-> CASE s = "elecidle" -> m_rxphy_elecidle \/ idle
                       [] s = "cominit"  -> m_rxphy_cominit
                       [] s = "comwake"  -> m_rxphy_comwake
                       [] s = "align"    -> Is(m_rxphy, "ALIGN")]

\* One period of the device's clock; it may be followed by another.
RxEdge ==
  /\ turn = "rx"
  /\ LinkLayer
  /\ \/ Arrives(m_rxphy) /\ RxSample(Signalled(FALSE)) /\ turn' = "tx" /\ NoDeparture
     \/ /\ pc # "link" /\ Departs("slip")
        /\ Arrives(m_rxphy) /\ RxSample(Signalled(FALSE)) /\ UNCHANGED turn
     \/ /\ pc # "link" /\ Departs("d2h") /\ turn' = "tx"
        /\ \E w \in {Prim(p) : p \in Bad} \cup {Damaged} : Arrives(Got(w))
        /\ RxSample(Signalled(FALSE))
     \/ /\ tran_state # "IDLE" /\ Departs("idle") /\ turn' = "tx"
        /\ Arrives(m_rxphy) /\ RxSample(Signalled(TRUE))
  /\ lost' = (lost \/ (m_link_state = "WAIT" /\ m_link_state' = "IDLE" /\ ~Hears("R_OK")))
  /\ UNCHANGED <<txResetVars, oobVars, linkVars, alignVars, txVars, rxVars,
                 hostVars, full, busy, benchVars, sent, refused, aborted>>

Done == pc = "done" /\ UNCHANGED vars

Next == Program \/ TxEdge \/ RxEdge \/ Done

Init ==
  /\ test = "DMA"
  /\ ResetInit /\ LinkInReset /\ AlignInReset /\ PacketsInit /\ HostInit
  /\ SimInit /\ OobInit
  /\ turn = "tx" /\ full = 0 /\ busy = 0 /\ d2h = << >> /\ faults = {}
  /\ pc = "link" /\ ticks = 0 /\ verdict = "none"
  /\ disk = [i \in 1 .. SectorWords |-> Zero]
  /\ sent = << >> /\ refused = FALSE /\ aborted = FALSE /\ lost = FALSE

Spec == Init /\ [][Next]_vars /\ WF_vars(Next)

-----------------------------------------------------------------------------
\* Type and range of every variable; the watchdog and the receive FIFO stay
\* within theirs.
TypeOK ==
  /\ ResetTypeOK /\ OobTypeOK /\ LinkTypeOK /\ AlignTypeOK /\ PacketsTypeOK /\ HostTypeOK /\ SimTypeOK
  /\ turn \in {"tx", "rx"} /\ full \in 0 .. FullFor
  /\ busy \in 0 .. DmaStall \cup 0 .. PioStall
  /\ faults \in Departures \cup {{}}
  /\ Len(d2h) <= Lag + 2
  /\ pc \in {"link", "start", "wait_write", "gap", "wait_read", "last", "done"}
  /\ ticks \in 0 .. IntTimeout /\ verdict \in {"none", "pass", "fail"}

\* Collision handling of satalnk_fsm.v against link_layer_model(): while one
\* side sends the words of a frame, the other is receiving.  A frame is never
\* sent into a state that drops it, whoever asked first, however X_RDY and
\* R_RDY cross, and however many periods they take.  A damaged word may send
\* the host out of a reception the device goes on with.
Listened ==
  /\ link_state \in {"SENDDATA", "RCVRHOLD"} => m_link_state \in {"RCV_CHKRDY", "RCV_DATA"}
  /\ m_link_state \in {"SEND_DATA", "SEND_EOF"} =>
       \/ link_state \in {"RCVCHKRDY", "RCVDATA", "HOLD", "RCVHOLD"}
       \/ faults \cap {"d2h", "idle"} # {}

\* The bring-up of sata_reset.v, satalnk_fsm.v and process_oob(): the host's
\* transport layer is told of a link only when the device has been through
\* out-of-band signalling and has sent all its ALIGNs.
UpTogether == i_link_up => m_oob_done /\ align_cnt = MaxAlign

\* A frame the device accepts (s_success, satalnk_fsm.v) is word for word the
\* frame the framer took: ALIGNs, CONTs, HOLDs, repeated, slipped or damaged
\* words between the two leave no trace in it.
AcceptedExact == s_success => m_crc = sent

\* The interrupt that ends a read (satatrn_fsm.v) comes with the device's data
\* in memory, unless the link has aborted a frame or gone down since the
\* command.  PIO does not wait for the engine: it fails once the device's PIO
\* setup FIS is lost (lost), the status FIS being taken for the end, and once
\* the bus stalls for longer (PioStall) than the link takes for that FIS;
\* InterruptMeansLanded of Transport.tla is about that.
IntMeansData ==
  /\ pc = "wait_read" /\ o_int /\ ~aborted
  /\ test = "PIO" => ~lost
  => r_mem = m_sent_data

\* The interrupt that ends a write comes with the host's words in
\* m_received_data, unless a frame was refused or aborted: main() copies that
\* buffer to the disk as soon as wait_for_int() returns.
IntMeansStored ==
  pc = "wait_write" /\ o_int /\ ~aborted /\ ~refused
    => \A i \in 1 .. SectorWords : m_received_data[i] = Pattern[i]

\* With stalls and a full receiver only, at any starting point between two
\* ALIGNs, dma_test() and pio_test() pass: what is read is what was written.
CleanPass == pc = "last" /\ faults \subseteq {"stall", "full", "bus", "phase"} => verdict = "pass"

\* satarx_framer.v, at WTRM and SYNC: "If we never saw the EOF, then we need to
\* abort anything that was ongoing."  With nothing left in the receive
\* pipeline, the transport layer is not in the middle of a frame.  The code
\* does not keep this: framing_abort.
AbortHeard ==
  /\ rx_state = "IDLE" /\ ~rx_held.valid
  /\ df = NoBeat /\ ds = NoBeat /\ ~m_out.valid /\ ~m_out.abort
  => ~mid_packet_phy

\* satarx_crc.v leaves M_AXIS_TLAST set after a frame, and satalnk_fsm.v tests
\* it in RCVEOF without its valid: the flag found there is always that of the
\* frame just received, whose CRC has been checked with it.  It takes a frame
\* of three words, so that its first beat has cleared the flag before EOF is
\* seen; a damaged word makes the status FIS of the bench as short as that.
OwnVerdict ==
  link_state = "RCVEOF" /\ m_out.last /\ ~m_out.abort => m_out.valid

Settled == pc = "done" /\ link_state = "IDLE" /\ m_link_state = "IDLE"
\* When main() returns, both state machines are idle: no departure other than
\* a damaged word or an idle line on the way to the host leaves the link in a
\* handshake that never ends.
LinkSettles == <>[](Settled \/ faults \cap {"d2h", "idle"} # {})

=============================================================================
