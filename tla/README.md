# Verification of the SATA host controller

TLA+ models, TLC runs and TLAPS proofs for the Verilog SATA host controller in
`src/rtl` and for its C++ bench in `src/bench/cpp`, which simulates a disk, a memory
and the clocks around it. Paths below are relative to `src/`.

## 1. The system

A Wishbone host programs shadow registers and writes an ATA command; the
controller sends it to a SATA device as a register FIS, moves the data by DMA and
interrupts the host. There is no CPU in the controller: every component is a set of
registers clocked by one of three clocks (`i_clk` of the bus, the transmit clock and
the recovered receive clock of the transceiver), and components interact by wires,
by streams with a valid/ready handshake, and across clocks by asynchronous FIFOs and
two-flip-flop synchronisers.

| Component | Source | State it keeps | Operations | Hard because |
|---|---|---|---|---|
| Command sequencer | `rtl/satatrn_fsm.v` | shadow registers, FSM of 11 states, byte count, requests to engines, the outgoing register FIS | register writes, command decoding, received FISs, engine handshakes, link loss, PHY reset | host, device and two engines all act on it in the same cycle |
| Transport wiring | `rtl/sata_transport.v` | synchronised link and abort bits, `tx_gate` | connects sequencer, engines, FIFOs, arbiters | receive FIFO is flushed by a condition of the engine |
| Stream to memory | `rtl/satadma_s2mm.v` | busy, error, address, words outstanding | one run per request, to the last word | bus errors, end of the address space |
| Memory to stream | `rtl/satadma_mm2s.v` | busy, error, address, length left | one run per data FIS | the same, and a packet cut short |
| Received FIS split | `rtl/satatrn_rxregfis.v` | position in the packet | data words to the data path, others to a FIFO | full FIFO in the middle of a FIS |
| Transmit arbiter | `rtl/satatrn_txarb.v` | whose packet is under way | register FIS or data FIS, never mixed | two sources, two clocks |
| Engine bus arbiter | `rtl/satatrn_wbarbiter.v` | owner of the bus | grants | starvation, acknowledgements of the other master |
| Gearboxes | `rtl/satadma_rxgears.v`, `rtl/satadma_txgears.v` | partial words | width changes | partial last words |
| Link FSM | `rtl/satalnk_fsm.v`, `rtl/sata_link.v` | one of 19 states (18 reachable) | exchange of primitives with the device | collisions, holds, aborts, a peer that says nothing |
| Link packets | `rtl/satalnk_txpacket.v`, `rtl/satalnk_rxpacket.v`, framers, CRC, scramblers | position in the packet, CRC, LFSR | SOF, payload, CRC, EOF | abort in any word |
| ALIGN and CONT | `rtl/satalnk_align.v`, `rtl/satalnk_rmcont.v` | counter; last primitive | insert two ALIGNs in 256 words; undo CONT | the stream may not be delayed |
| Bring-up | `rtl/sata_reset.v`, `rtl/sata_pextend.v` | one of 11 states, a watchdog | out-of-band handshake | a silent device, signals in the same cycle |
| Transceiver | `rtl/sata_phy.v`, `rtl/sata_phyinit.v` | reset sequence | wraps a Xilinx primitive | vendor hardware |
| Asynchronous FIFO | `rtl/sata_afifo.v` | memory, two pointers, synchronisers | write, read, resets | pointers of the other clock are old, and sampled as they change |
| Synchronous FIFO, skid buffer | `rtl/sata_sfifo.v`, `rtl/sata_skid.v` | memory, fill | write and read in one cycle | bypass when empty |
| Host software | `bench/verilog/testscript/satalib.v`, `sw/satadrv.c` | where it is in a command | program, command, wait, check | the controller is ahead of it |
| Simulated disk | `bench/cpp/satasim.cpp`, `satasim.h` | one of 11 link states, two flags, CRC, buffers; out-of-band flags | link state machine, answers to commands, out-of-band answers | acts on words before their CRC is known; its clock is not the host's |
| Test program | `bench/cpp/tb_sata.cpp` | where main() is, time-outs, disk image | `dma_test()`, `pio_test()`, callbacks | time-outs and interrupts decide what it takes for done |
| Bench clocks | `bench/cpp/tbclock.h`, `testb.h` | phase and level of three clocks | `tick()`, `tick_clk()` | three unrelated periods |
| Bench bus functions | `bench/cpp/wb_tb.h` | counters of one call, `m_bomb` | four kinds of access | may be called at any level of the clock |
| Simulated memory | `bench/cpp/memsim.cpp` | words, a ring of answers under way | `apply()` | answers outlive the cycle that asked |

What makes each correct: the sequencer runs one command at a time and ends every one
with an interrupt that tells the truth; the engines move exactly what was asked; the
FIFOs neither lose, repeat nor reorder; the arbiters never mix two packets or two bus
cycles; the link delivers a frame exactly as it was sent or reports it and returns to
idle; the bring-up reports a link only when there is one; the bench's clocks meet every
edge, its bus functions lose no access without a word, and its memory answers who asked.

`PROJECT.json` lists the hazards behind these, line by line.

## 2. Modules

### Transport (the core)

`TranFsm.tla` models `satatrn_fsm.v`. One step, `Tick(in)`, is one edge of `i_clk`;
`in` is the record of the input wires of the cycle. Each `always` block is a
conjunct: `DecodeCmd` (known_cmd, cmd_type), `RxFraming` (s_sop, s_active, s_posn),
`MasterFsm` (the big case statement), `PhyControl` (o_phy_reset and the sticky bits),
`RegFisStream` (m_valid, m_count, m_last, m_data). The master FSM has one action per
state, `StartCommand`/`IdleCycle` for the two halves of FSM_IDLE, and `AbortCommand`
for the branch `!i_link_up || i_tran_err || o_phy_reset`, which outranks all of them.
Variables have the registers' names. An opcode is its class, since nothing but the
class steers the FSM; registers that only travel inside the register FIS (LBA,
features, device, port, ICC, control) are left out, as are register reads.

`Transport.tla` closes the loop, after `sata_transport.v`: the handshakes of the two
engines, the receive FIFO with its `rxdma_reset`, the link bit, the driver of
`satalib.v` and a device that follows `mdl_satacmd.v`. In each cycle any subset `go`
of the parties that can move does (the device sends or takes a FIS word, the register
FIS loses a word, an engine moves a word or finishes, the link rises), so every
relative speed of bus, link and device is covered. Faults come from a budget: the link
drops, a FIS is damaged, a DMA access meets a bus error, the host resets the PHY, or
writes a command when it should not. `stored` and `chunks` are ghosts that record what
the running command moved.

`MCTransport.tla` is the instance the runs use; it adds only the assumption that the
buffers do not overlap.

### Asynchronous FIFO

`AsyncFifo.tla` models `sata_afifo.v` bit by bit: a Gray code is the set of its one
bits, a step is an edge of the write clock, the read clock or both. When both fall
together, the synchroniser takes each bit of the other pointer from before or after
its change; that is the reason for the Gray code, and the model would be pointless
without it. `BoundedFifo.tla` is the abstract FIFO; the property `FifoSpec` says that
`AsyncFifo` implements it, with the output register and the words between the pointers
as the abstract queue (capacity 2^LGFIFO + 1).

### Link, bring-up and disk

`LinkBench.tla` composes the bench of `tb_sata.cpp` from modules that each model one
source file by one operator per state, with a step that stands for a clock edge:

| Module | Source | Step |
|---|---|---|
| `LinkFsm` | `rtl/satalnk_fsm.v` | `LinkStep(in)`, an operator for each `L_` state; `Lost` is the override by a lost physical layer at the end of the block |
| `LinkAlign` | `rtl/satalnk_align.v` | `AlignStep(w)`: ALIGN insertion, CONT generation and the skid buffer |
| `LinkPackets` | framers, CRC, descrambler, `satalnk_txpacket.v`, `satalnk_rxpacket.v` | `TxStep`, `RxStep`, one conjunct per pipeline stage |
| `PhyReset` | `rtl/sata_reset.v`, `sata_pextend.v` | `ResetStep` on the transmit clock, `RxSample` on the receive clock |
| `HostTransport` | `satatrn_fsm.v`, `satatrn_rxregfis.v`, the receive path of `sata_transport.v`, `satadma_s2mm.v` | `HostStep`: the sequencer reduced to what a link can tell apart, and received data on its way to memory |
| `SataSim`, `SataSimOob` | `bench/cpp/satasim.cpp` | `LinkLayer` (link_layer_model), `ProcessTxSignals`, `ProcessOob` |
| `SataWords` | primitives, CRC, scramblers | values only |

A word on the link is a primitive or a data value. A scrambled word is the value with
its position, so that it comes out right only at the same position; a CRC is the
sequence it was computed over, so that two CRCs are equal only for equal data. `TxEdge`
is a period of the transmit clock and `RxEdge` one of the device's; they alternate.
Each behaviour may depart from that in ways named in `Departures`: one clock slips a
period ahead of the other, the packet stalls, the receiver fills up, the memory bus
stalls, the program starts at another moment between two ALIGNs, a word is damaged in
one direction or the other, or the line goes idle for a period. `sent`, `refused`,
`aborted` and `lost` are history. The program is `main()`: `dma_test()`, and if it
passes, `NextTest` and `pio_test()`. After a failure `main()` exits at once; the model
lets the last wait go by first.

`HostTransport` is a second, coarser model of the sequencer: `TranFsm` has every
register and both engines, but a device without a link; here the link is the point.
A received data word is `Cross` periods on its way through gears and FIFOs (`rx_path`),
and then the engine writes one word a period unless the bus stalls, so that a status
FIS can overtake the data before it. Register FISs, which are short and meet no bus,
reach the sequencer in the period they leave the link.

`LinkPackets` keeps one detail that is easily taken for a slip: `satarx_crc.v` changes
`M_AXIS_TLAST` with a beat only, so it stays set between frames, and `satalnk_fsm.v`
tests it in RCVEOF without its valid. `OwnVerdict` says that the flag found there is
always that of the frame just received. It depends on the frame having three words or
more, as every frame of the bench has but one, damaged ones included. The exception is the DMA
activate: `main()` makes one DMA write, and its activate is the first frame the host
receives. A second write would have its activate judged by the flag of the frame before.

### The bench's clocks, bus functions and memory

`BenchClock.tla` models `tbclock.h` and `tick()`; `phase[c]` is the time since the last
rising edge of clock `c`. `WbTb.tla` adds the four bus functions of `wb_tb.h` against
the register slave of `satatrn_fsm.v`. A TICK is several steps (`Ticking`), one for
each `tick()`, and `Wait` moves time between the calls, so that a call can begin at any
phase of the bus clock. `MCWbTb.tla` gives the periods.

`MemSim.tla` models `memsim.cpp`. `DmaBus.tla` puts the bus sides of the two engines and
`satatrn_wbarbiter.v` on it: `RisingEdge` is the Verilog, `FallingEdge` the call of
`apply()`, `AbortedEdge` a rising edge with `wb_tran_abort`. `expected` and `taken`
record what a read is owed and what a write was given.

### Proofs

| Module | What it proves of |
|---|---|
| `TransportProofs` | the sequencer alone, under any input; types of the sequencer, its engines, device and host |
| `ProtocolProofs` | sequencer and device keep step: register FIS, engines, interrupt |
| `TransferProofs` | the data of DMA reads and writes, on top of `ProtocolProofs` |
| `AsyncFifoProofs` | the FIFO, to the refinement of `BoundedFifo` |
| `WbTbProofs` | the bench's clocks and its bus functions |
| `DmaBusProofs` | the DMA bus |
| `LinkBenchProofs` | the link's bench: types and ranges, the bring-up, and that a link stays up |
| `FrameProofs` | frames between host and device, both ways, on top of `LinkBenchProofs` |

## 3. Runs

| Run | What it asks |
|---|---|
| `transport_clean` | With no faults: every command is answered (liveness), the register FIS carries the right opcode, a DMA write moves exactly what was announced, the engines rest between commands. |
| `transport_buserr` | With bus errors, a buffer past the end of memory and commands the device refuses: no DMA read is reported good with data missing, every end of a command has a status or the failure flag, an engine is asked for only when free. |
| `transport_faults` | With a lost link, a damaged FIS, a PHY reset, or a stray command at any point: commands exclude one another, the class of a command is stable, every return to idle interrupts. |
| `async_fifo` | The FIFO implements the abstract one, neither side runs ahead, room returns and words arrive, across a reset. |
| `link_bench` | From power-up to the end of `main()`, through `dma_test()` and `pio_test()`, for each departure and six pairs of them: no words are sent to a side that is not receiving; accepted frames are exact; interrupts are true, also with a bus that stalls; a received frame is judged by its own CRC; the tests pass; both link machines end idle. |
| `bench_bus` | The bus functions called at any phase of the clock: no access is lost without `m_bomb`, which only a call made with the clock high can set; the bus is left idle; no edge is skipped; each call returns. |
| `dma_bus` | Both engines, aborts at any clock, a memory that stalls: answers go to who asked, the owner keeps its cycle, transfers end whole, nobody starves. |
| `framing_abort` | *Violated.* A frame cut by a stray WTRM vanishes without an abort to the transport layer. |
| `engine_still_busy` | *Violated.* After a lost link the next DMA read asks for an engine that is still running. |
| `write_buffer` | *Violated.* The second data FIS of a DMA write is read from where the first was. |
| `refused_read` | *Violated.* A refused DMA read leaves the sequencer in DMA_IN_FINAL for ever. |
| `early_interrupt` | *Violated.* With the I bit set in the status FIS, the driver is interrupted before the data of a DMA read is in memory; after a PIO read, which does not wait for the engine, it is so with or without the bit. |

The five violations disagree with an assertion, a comment or a test of the repository;
`PROJECT.json` quotes the lines. `RequestOnlyWhenFree` holds under bus errors and
refusals and fails only after a lost link, because the engines are not told of it.

### Bounds, and why they are enough

* Commands: two or three in a row. Everything the sequencer remembers of a command is
  overwritten when the next one starts, so a fault of one command can reach the next,
  and a third shows that nothing lingers.
* Sectors: 1, 5 and 9. One data FIS, two and three, the last one short; the boundary of
  2048 bytes is what the byte count distinguishes. One and two sectors separate the
  single from the repeated PIO block.
* `ReadWords` 1 to 3: first, middle and last word of a received data FIS.
* Faults: one, at any point (two bus errors). Two independent link losses behave as
  one after the other, with the sequencer idle between them.
* Addresses: an ordinary buffer, and one whose second word lies past the end.
* `link_bench`: a sector is three words and a data FIS four, so that first, middle and
  last word, CRC and EOF are different places, and a data FIS that loses a word keeps
  three, as `OwnVerdict` needs. Each of the two tests writes once and reads once, as in
  `main()`. A data word crosses in six periods (`Cross`). In `dma_test()` the bus stalls
  for 40 periods, in `pio_test()` for 10: the status FIS comes between 20 and 30 periods
  after the data, so the first is longer than that, as DMA must stand, and the second
  shorter, since PIO does not stand more: with `PioStall` = 40 its interrupt comes
  before the data and `IntMeansData` is violated, which is what `early_interrupt` says
  of PIO. `MaxAlign` (100 in `satasim.cpp`), the watchdog, the 116 ns of alignment and
  the pulse extenders are cut in proportion, keeping their order: the device's ALIGNs
  outlast `MinAlignment`, and the watchdog outlasts a handshake. `AlignTimeout` is 17
  words instead of 257, so ALIGNs fall into every frame. `IntTimeout` and `GapTicks`
  outlast any exchange. Each departure happens once; the pairs are those that meet in
  one pipeline. A damaged word turns into `SYNC`, `PMREQ`, `HOLD` or a data word that
  fails the CRC, at any word of the run.
* `bench_bus`: periods of 8, 22 and 28 ps do not divide each other, and the 22 is not a
  multiple of four, which `set_interval_ps()` rounds. Bursts of one and three words are
  the shortest and one with a middle; `BOMBCOUNT` 4 instead of 32 is more than the
  slave ever stalls.
* `dma_bus`: delays 1 and 3 (10 in the bench) give a ring with no room and one with a
  slot to spare. Two words and two values tell order and place. `PipeFull` is the
  code's 1022 and is not reached; see the hazards.
* FIFO: four words (the least for which the top two bits and the rest of a code are
  both there), two kinds of word, one reset.

### Fairness

`Transport!Fairness`: the clock runs, and each party that can move eventually does: a
bus that acknowledges, a FIFO that drains, a device that answers, a link that comes
up. Nothing is assumed of the host, which can stop at any point. These
are properties of the clocked hardware around the sequencer, not of its code: no
counter in it would otherwise bound them. `AsyncFifo!Fairness`: both clocks run, the
resets end, and the reader takes what it is offered, as all readers in the
controller do (`i_rd = !empty` or `!full` of what follows).

`LinkBench`: the clocks run (`WF` of `Next`, which main()'s end stops); each departure
happens at most once by construction, so no fairness on the faults is needed. `WbTb`:
`InCall` goes on, as a call in C++ does; nothing obliges the bench to make one.
`DmaBus`: the clock runs, and `rand()` does not stall the memory for ever (strong
fairness of an unstalled `FallingEdge`). Streams and requests may stop for good.

## 4. Proofs

Proved with TLAPS for every value of the constants (any number of commands and faults,
any address space and bus width):

* `CommandsExclude`: `Spec => []KnownCmdOnlyWhenIdle`. The invariant alone is not
  inductive; `BusyInv` adds that `r_busy` covers every state but idle, which is why a
  decoded command always finds the FSM idle. It is preserved by any clock edge, under
  any input whatever, so the proof does not depend on the model of device or host.
* `CmdTypeKept` and `ReturnsInterrupt`: the action properties, from the same
  invariant and the form of `Goto` and `AbortCommand`.
* `TypeCorrect`: `Spec => []TypeOK`. `TypeOK` is inductive. The module shows first
  that a clock edge under typed inputs keeps the registers typed (the only arithmetic:
  the 16 bits of the byte count and the 2048 bytes of a data FIS), then that the wires
  are typed and that FIFO, device and engines stay so, which needs that a party only
  moves when it can (no word is taken from an empty FIFO).

* `FisCarries`, `RequestsMeetFree`, `IdleMeansRest`, `InterruptHasStatus` (`ProtocolProofs`):
  the register FIS carries the running command, no engine is asked for while it runs,
  between commands everything rests, and an interrupt finds the device's status. One
  inductive invariant, `Inv`, gives all four; none of them is inductive alone, because
  each depends on what the device may still send. `PhaseInv` says so for each state
  of the FSM (`Answer`: the FISs not yet begun, a suffix of the script of the command
  class); `FrameInv`, that sequencer and device agree on where a FIS begins, so that the
  payload of one is never taken for the head of another; `FisInv` follows the register
  FIS from decoding to its last word; `EngineInv` ties requests, busy flags and queues
  to the states that wait for them. The proof has a lemma for each FSM state and each
  FIS that can arrive in it.
* The four hold under `Calm`: the link stays up and no FIS is damaged, no PIO read is
  issued, the device sends no signature on its own. Bus errors of both engines in any number, refused commands and a host that
  writes a command too early are within it, so it covers the runs `transport_clean` and
  `transport_buserr` for all constants. Each part is needed. After a lost link
  or a damaged FIS the device may still answer the command before, and the engines are
  not told (run `engine_still_busy`); a PIO read returns to idle without waiting for its
  engine (`satatrn_fsm.v:621`); a signature FIS arrives when no command waits for it.
* `ReadsLand`: `Spec => []NoSilentLoss` under `Calm` and `~RegInt`. `ReadInv` counts the words of
  a read: with `k` of `ReadWords` sent by the device (`Running(k)`), those sent and not in
  the queue are in memory, at consecutive addresses from the one the host asked for; an
  error sets a flag that lasts until the failure is reported. `HostInv` says when the host
  may write which register: the address the engine was given is still that in the
  register when the data is judged. With `RegInt` that fails, since the host is told of
  the end early and programs the next address while the sequencer does not listen (run
  `early_interrupt`).
* `WritesExact`: `Spec => []DmaWriteExact` under `Calm` and `Orderly`. The quantity kept is the
  number of bytes the device is still owed: what the sequencer has yet to announce, plus
  the data FIS under way, if any, wherever it is (with the engine, or queued at the
  link). `Orderly` is `~DevAborts`, `~Impatient` and counts below 128: a device that ends a
  write early, and a host that writes a command while one runs, each violate the
  property (TLC shows a behaviour for either), and from 128 sectors on the 16
  bits of `dma_length` wrap.

* `FifoTypeCorrect`, `FifoNeverAhead`, `FifoImplements`: the last is `Spec => FifoSpec`, the refinement of
  `BoundedFifo` with a capacity of `2^LGFIFO + 1`. The argument is the chain of
  pointers: each flip-flop of a synchroniser holds the code of a pointer its side has
  had, the chain reader, first flip-flop, second flip-flop being ordered by age, and
  the writer never gets more than `Depth` ahead of the oldest (`CopiesInv`). It is
  inductive because two codes that follow each other differ in one bit, so a flip-flop
  that samples each bit before or after the change holds the old code or the new one
  and nothing else. That fact is proved of the model's definition of the code: the bits of
  `n + 1` are found by induction on the least zero bit, stated over sets
  so that no operator is a parameter. Then the full and empty flags, computed from codes,
  are those of the pointers, and each step of the FIFO is a step of the abstract queue or
  stutters.

* `ClockInvariant`, `ClockAsserts`, `EdgesMet`, for all three periods of 8 ps and more:
  no assertion of `tick()` fails and every edge ends a tick. The assertion `mintime > 1`
  is not inductive. `ClockInv` adds that after the first tick every phase is even, which
  is what the rounding of `set_interval_ps()` is for: two edges that differ then differ by
  2 ps at least. `BusKeepsClocks` (`Spec => ClockSpec` of `WbTb`) carries it to the bench.
* `BusEndsIdle`: `Spec => []BusLeftIdle`, the assertions at the end of the bus functions.
  `BusInv` ties TICK to the clock (it waits for a rising edge exactly while the clock is
  low) and says that the strobe is down in a call's last TICK: its edge finds no request,
  so that at the falling edge nothing is answered and nothing stalls.
* `BombsOnlyFromHigh`: `BOMBCOUNT >= 2` implies `Spec => BombOnlyFromHigh`. `LowInv`
  follows a call begun with the clock low, in which every TICK has its rising edge:
  each word is answered by the TICK that sends it, so the acknowledgements keep step with
  the words and no counter reaches its limit. The hypothesis is needed: with
  `BOMBCOUNT = 1` the burst read gives up on an idle slave. The bench has 32.
* `NothingLost` and `CallsTypeCorrect`: `Spec => []NoSilentLoss` and `Spec => []TypeOK` of
  `WbTb`, for calls begun at either level of the clock. `DataInv` compares three numbers:
  the words the slave has accepted, those it has answered, and those the function takes for
  sent. The first two differ by the one acknowledgement a TICK has brought and the code has
  not yet counted. A call begun with the clock low misses none; a burst begun with the
  clock high is one word short from its first TICK to its end (`MissedInv`), so the loop
  that collects the acknowledgements runs into its limit and sets `m_bomb`; a single access
  begun high is never accepted (`OneInv`).
* `OwnerKeeps`: `Spec => []OwnerKeepsCycle` of `DmaBus`, for every memory, delay,
  pipeline depth and pattern of aborts. `OwnerInv` adds only
  the ranges of the engines' registers: a request is counted only by an engine whose
  cycle is up and that is not stalled, hence by the owner, and while its cycle is up the
  arbiter does not move.
* `BusTypeCorrect` and `AnswersOwed`: `Spec => []TypeOK` and `Spec => []AnswersAreOwed` of
  `DmaBus`. Neither is inductive: whether an answer is owed was decided when its request
  entered the memory's ring, up to `Delays` clocks ago. `RingInv` reads the ring as
  a queue of ages (`RingHolds`): its slots that will answer are exactly the
  owner's requests in flight, oldest first, and for reads carry the
  words that were there when they were accepted (`Due`). A request is accepted at the falling edge
  and counted by its engine at the next rising one, so the queue is one
  longer in between; outside of a cycle the ring is clear, since `apply()` with `cyc`
  low clears it, and so the owner can change.
* `TransfersEndWhole`: `Spec => []TransfersWhole` under `Room`, by which the memory answers
  before s2mm has filled its pipeline (the bench answers after 10 clocks, the pipeline holds
  1022). `Stored` says that the words s2mm has had accepted are in memory, each at its place.
  Without `Room` the property is false of the code: a last word that comes with a
  full pipeline is lost (`satadma_s2mm.v:327`, listed as a hazard).

* `BenchTypeCorrect`: `Spec => []TypeOK` of `LinkBench`. `BenchInv` adds what the bounds rest
  on: the alignment counter and the ALIGN counter are above zero until they raise their
  flag, a beat of the receive pipeline says whether it is the last, and so does a word on its
  way to memory, which waits `Cross` periods at most; the receive FIFO holds the
  words its reader lags behind, one more while the host's clock is next and one more once
  the clocks have slipped, and a count of ticks ends with the wait it belongs to.
* `LinkComesUpTogether`: `Spec => [](Truthful => UpTogether)`, for any number of ALIGNs,
  delays and time-outs. `UpInv` follows the bring-up in both directions. What the host
  takes for ALIGN has been on the wire (`Heard`: through `sata_pextend`, three
  flip-flops, the FSM and back to the receive clock), so no word is taken from the wire
  before the device drives it; a SYNC or X_RDY anywhere between the device and
  `o_link_ready` was sent after the last ALIGN (`DeviceUp`, `HostUp`). `Truthful` says that
  no damaged word was taken for one of the two. It is needed: a program that times out
  before the link is up goes on, and a word damaged then may be taken for SYNC.
  `LinkAlwaysComesUpTogether` is the case of damaged words that look like neither.
* `OnlyIdleTakesLink`: once `o_link_up` is set, nothing clears it but an idle line reported on
  the live link, for all delays, pulse extensions and time-outs. `StaysUp` (`LinkBenchProofs`)
  follows the device's two signals through the extenders and the three flip-flops: COMINIT is
  one pulse without a gap, so a state that waits for its end has seen all of it, and the
  idle line of the start reaches the state machine before `m_phy_ready` does.
* `AcceptedFramesExact`: `Spec => [](Undisturbed => AcceptedExact)`, for every length of a
  frame, lag of the receive path, stall, clock slip and damaged word to the device.
  `FrameInv` relates the two state machines to the words on their way. The packets in the
  queue are described from the back (`FrameEnds`: the last word of a packet is the CRC of those
  before it, whether they are still queued or already taken), so that words can leave the
  front and whole packets join the end. `SentInv` orders the stages between the link and the
  device (register, skid buffer, repeated primitive, output, wire): no word of the frame is
  behind its end, and none of the last frame's is in front of its SOF; with it the CRC the
  device finds is that of this frame (`SentCrc`). `Answers` and `SilentInv` say of the way back that
  an R_RDY or a verdict in the receive FIFO belongs to the state the device is still in; this
  is what makes the verdict, heard `Lag` periods late, one on this frame. `Undisturbed` excludes a
  damaged word to the host, which may be taken for the device's R_OK, and an idle line
  reported on a live link, after which the link starts anew in the middle of a frame.
* `FramesAreHeard`: `Spec => [](Undisturbed => Listened)`. The half about the host's frames is in
  `FrameInv`; `HeardInv` adds the half about the device's, which two calls that cross make
  hard: the host answers an X_RDY with R_RDY, the device meanwhile gives up its call for the
  host's X_RDY, and the R_RDY is still in the pipeline, or kept by the ALIGN inserter as the
  primitive to repeat, when the host sends its own frame. `StaleInv` says that it leaves the
  inserter in front of the frame's SOF, so that it is gone (`NoCall`) when the device calls
  again, and `CalledInv` that an R_RDY in the pipeline while the device calls is the answer of
  a host that has nothing but X_RDY to come and so stays in RCVCHKRDY. `ComesInv` then keeps
  the host there until SOF: `CallLast` and `SofFirst` order the receive FIFO. `RxUp` is needed
  because the receive clock drops words until it has been told of the link.

Assumptions: the named ASSUMEs of the modules (bus width, address space, the host's
commands, counts and addresses in range, periods of at least 8 ps, a memory with a word,
bounded addresses and lengths of the bus functions, the bench's `wait()` no longer than the
time-out of `wait_for_int()`,
`PowersAssumption` of `AsyncFifo` and `MemSim`: a power of two is twice the one before, which
the provers do not know of `^`); TLC evaluates them in every run.

Only model-checked: the first half of `Listened` with words to the host damaged, the data
of frames to the host (`IntMeansData`) and whose CRC they are judged by (`OwnVerdict`),
the outcome of the bench's tests (`IntMeansStored`, `CleanPass`), the sequencer under a
lost link, a damaged FIS or a PHY reset beyond `TransportProofs`, and every liveness
property: liveness under fairness and ENABLED are out of this prover's reach. So is
induction with an operator as parameter; where a proof needs induction over data it goes
through the least element of a set (`AsyncFifoProofs`, `DmaBusProofs`).

## 5. Not modelled

* Transmit FIFOs and gearboxes between engine and link: a data FIS is handed to the link
  whole and its words leave one by one, so `tx_gate` is left out; the underrun it should
  prevent is covered as the departure `stall`.
* Several data FISs for one DMA read: both devices of the repository send one. The
  code flushes what follows the first (`sata_transport.v:205-208`); see the hazards.
* The crossings between the bus clock and the link clocks inside `LinkBench`, register by
  register: data words take `Cross` periods, register FISs none; `AsyncFifo` has the FIFO
  bit by bit.
* The `!m_valid` guard against the decoder, and a driver faster than the status FIS:
  met while modelling; the first is listed as a hazard.
* Removal of CONT in the receiver: `SATASIM` sends none.
* Bus errors, partial words and unaligned transfers on the pipelined bus: the bench
  drives no error and transfers whole words. `Transport` has the errors.
* A full write pipeline, 1022 requests unanswered (`satadma_s2mm.v:327`): modelled, out
  of the bounds.
* A second out-of-band handshake: `main()` makes one.
* CRC and scrambler arithmetic: bit-level, and the repository has formal benches for it.
* The transceiver: vendor hardware. `satadrv.c`: a draft that does not build. The
  general synchronous FIFO and skid buffer: formal properties in their own source.

## 6. What could follow

1. `KnownCmdOnlyWhenIdle` is proved under any input; of the four results of
   `ProtocolProofs`, the register FIS's opcode could be proved under a lost link too.
2. What the host's framer makes of a frame of the device, for all lengths: with
   `FramesAreHeard` it is the way of `AcceptedFramesExact` mirrored, and the step to `IntMeansData`.
3. `sata_sfifo.v` and `sata_skid.v` as implementations of `BoundedFifo`.
