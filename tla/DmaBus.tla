-------------------------------- MODULE DmaBus --------------------------------
(***************************************************************************)
(* The memory bus of the design, clock by clock: the bus sides of the two  *)
(* engines rtl/satadma_mm2s.v (a, which reads) and rtl/satadma_s2mm.v (b,  *)
(* which writes), the arbiter rtl/satatrn_wbarbiter.v between them, and    *)
(* the memory MemSim, which the bench calls at the falling edge            *)
(* (deploy_test_data() in bench/cpp/tb_sata.cpp).                          *)
(*                                                                         *)
(*   RisingEdge    the engines and the arbiter                             *)
(*   FallingEdge   the memory                                              *)
(*                                                                         *)
(* The engines are asked for transfers at any time, and reset at any time  *)
(* by wb_tran_abort.  Aligned transfers of whole words, no bus error (the  *)
(* bench drives none), no address past the end.  A word of a write's       *)
(* stream comes at any clock; the engine's packing and that of the reads   *)
(* is not modelled.                                                        *)
(***************************************************************************)
EXTENDS MemSim, Sequences

CONSTANTS
  Starts,         \* the addresses transfers start at
  PipeFull        \* with 2^LGPIPE - 2 writes unanswered, s2mm sends no more

ASSUME BusAssumption == Starts \subseteq Addresses /\ PipeFull \in Nat \ {0}

VARIABLES
  clk,                        \* the level of the bus clock
  r_a_owner, last_owner,      \* the arbiter: whether a owns, or owned, the bus
  a,                          \* mm2s: o_busy, o_rd_cyc, o_rd_stb, o_rd_addr,
                              \* rdstb_len in words, wb_outstanding
  b,                          \* s2mm: the same; o_wr_data, r_last
  expected,                   \* history: the data of the reads not answered yet
  taken                       \* history: the words of the stream of b's transfer

busVars == <<clk, r_a_owner, last_owner, a, b, expected, taken>>
vars == <<memVars, busVars>>

-----------------------------------------------------------------------------
(* rtl/satatrn_wbarbiter.v *)

o_cyc == IF r_a_owner THEN a.cyc ELSE b.cyc
o_stb == IF r_a_owner THEN a.stb ELSE b.stb
o_adr == IF r_a_owner THEN a.addr ELSE b.addr

o_a_ack == r_a_owner /\ o_ack
o_b_ack == ~r_a_owner /\ o_ack
o_a_stall == r_a_owner => o_stall

\* Seeded fault of o_b_stall: b is not stalled while it waits for the bus.
o_b_stall_Owner == ~r_a_owner /\ o_stall

o_b_stall == ~r_a_owner => o_stall

LastOwner ==
  last_owner' = IF a.cyc /\ r_a_owner THEN TRUE
                ELSE IF b.cyc /\ ~r_a_owner THEN FALSE ELSE last_owner

\* Seeded fault of Arbitrate: a strobe takes the bus from an owner in a cycle.
Arbitrate_Preempts ==
  r_a_owner' = IF ~a.cyc /\ ~b.cyc THEN ~last_owner
               ELSE IF r_a_owner THEN ~b.stb ELSE a.stb

\* The ALTERNATING scheme.
Arbitrate ==
  r_a_owner' = IF ~a.cyc /\ ~b.cyc THEN ~last_owner
               ELSE IF r_a_owner /\ ~a.cyc THEN ~b.stb
               ELSE IF ~r_a_owner /\ ~b.cyc THEN a.stb
               ELSE r_a_owner

-----------------------------------------------------------------------------
(* rtl/satadma_mm2s.v *)

ReaderIdle == [busy |-> FALSE, cyc |-> FALSE, stb |-> FALSE, addr |-> 0, len |-> 0, out |-> 0]

aSent == a.stb /\ ~o_a_stall
Outstanding(e, sent, ack) ==
  IF ~e.cyc THEN 0 ELSE e.out + (IF sent THEN 1 ELSE 0) - (IF ack THEN 1 ELSE 0)

\* Seeded fault of ReadsAnswered: the cycle ends when the last request is sent.
ReadsAnswered_Sent == a.out <= 1

\* The answer to the last request is here.
ReadsAnswered == a.out = IF o_a_ack THEN 1 ELSE 0

ReaderIdles ==
  \/ a' = ReaderIdle
  \/ \E addr \in Starts, len \in 1 .. Words :
       /\ addr + len <= Words
       /\ a' = [busy |-> TRUE, cyc |-> TRUE, stb |-> TRUE, addr |-> addr, len |-> len, out |-> 0]

\* o_busy falls a clock after the cycle, with the last word of the packet.
ReaderRuns ==
  LET left == IF aSent THEN a.len - 1 ELSE a.len
  IN  a' = [busy |-> a.cyc,
            cyc  |-> a.cyc /\ (a.stb \/ ~ReadsAnswered),
            stb  |-> left > 0,
            addr |-> IF aSent THEN a.addr + 1 ELSE a.addr,
            len  |-> left,
            out  |-> Outstanding(a, aSent, o_a_ack)]

Reader == IF a.busy THEN ReaderRuns ELSE ReaderIdles

-----------------------------------------------------------------------------
(* rtl/satadma_s2mm.v *)

WriterIdle == [busy |-> FALSE, cyc |-> FALSE, stb |-> FALSE, addr |-> 0, data |-> 0,
               last |-> FALSE, out |-> 0]

bSent == b.stb /\ ~o_b_stall
wb_pipeline_full == b.out >= PipeFull

\* The address of the next word.
NextAddr == IF b.stb THEN b.addr + 1 ELSE b.addr

\* All requests, that on the bus included, are answered.
WritesAnswered == b.out + (IF b.stb THEN 1 ELSE 0) = IF o_b_ack THEN 1 ELSE 0

WriterIdles ==
  /\ \/ b' = WriterIdle
     \/ \E addr \in Starts : b' = [WriterIdle EXCEPT !.busy = TRUE, !.addr = addr]
  /\ taken' = << >>

\* The request on the bus is not accepted.
WriterStalled ==
  /\ b' = [b EXCEPT !.out = Outstanding(b, bSent, o_b_ack)]
  /\ UNCHANGED taken

\* A word of the stream: S_VALID.  r_last takes S_LAST whether or not there is
\* room for the word: a last word that meets a full pipeline is lost.
WriterTakes ==
  /\ ~b.last /\ NextAddr < Words
  /\ \E v \in Values, last \in BOOLEAN :
       /\ NextAddr = Words - 1 => last
       /\ b' = [b EXCEPT !.cyc  = b.cyc \/ ~wb_pipeline_full,
                         !.stb  = ~wb_pipeline_full,
                         !.addr = NextAddr,
                         !.data = IF wb_pipeline_full THEN b.data ELSE v,
                         !.last = last,
                         !.out  = Outstanding(b, bSent, o_b_ack)]
       /\ taken' = IF wb_pipeline_full /\ ~last THEN taken ELSE Append(taken, v)

\* No word of the stream.
WriterRuns ==
  LET over == ~wb_pipeline_full /\ WritesAnswered
  IN  /\ b' = [b EXCEPT !.busy = ~(over /\ b.last),
                        !.cyc  = b.cyc /\ ~over,
                        !.stb  = FALSE,
                        !.addr = NextAddr,
                        !.out  = Outstanding(b, bSent, o_b_ack)]
      /\ UNCHANGED taken

Writer == IF ~b.busy THEN WriterIdles
          ELSE IF b.stb /\ o_b_stall THEN WriterStalled
          ELSE WriterTakes \/ WriterRuns

-----------------------------------------------------------------------------
Init ==
  /\ MemInit
  /\ clk = FALSE
  /\ r_a_owner = TRUE /\ last_owner = FALSE
  /\ a = ReaderIdle /\ b = WriterIdle
  /\ expected = << >> /\ taken = << >>

\* What a is owed after this clock.
Owed == (IF o_a_ack THEN Tail(expected) ELSE expected)
        \o (IF aSent THEN <<m_mem[a.addr]>> ELSE << >>)

RisingEdge ==
  /\ ~clk /\ clk' = TRUE
  /\ LastOwner /\ Arbitrate
  /\ Reader /\ Writer
  /\ expected' = IF a.busy THEN Owed ELSE << >>
  /\ UNCHANGED memVars

\* wb_tran_abort, or a reset, which the arbiter does not see.
AbortedEdge ==
  /\ ~clk /\ clk' = TRUE
  /\ LastOwner /\ Arbitrate
  /\ a' = ReaderIdle /\ b' = WriterIdle
  /\ expected' = << >> /\ taken' = << >>
  /\ UNCHANGED memVars

\* The memory of the bench stalls when rand() says so.
FallingEdge(stall) ==
  /\ clk /\ clk' = FALSE
  /\ IF o_cyc THEN Apply(o_stb, ~r_a_owner, o_adr, b.data, stall)
     ELSE stall = FALSE /\ ApplyIdle
  /\ UNCHANGED <<r_a_owner, last_owner, a, b, expected, taken>>

Next == RisingEdge \/ AbortedEdge \/ \E stall \in BOOLEAN : FallingEdge(stall)

\* The clock runs, and rand() does not stall the memory for ever.
Spec == Init /\ [][Next]_vars /\ WF_vars(Next) /\ SF_vars(FallingEdge(FALSE))

-----------------------------------------------------------------------------
EngineType(e) ==
  /\ {e.busy, e.cyc, e.stb} \subseteq BOOLEAN
  /\ e.addr \in 0 .. Words /\ e.out \in 0 .. Words

\* What every variable may hold.  No engine counts more answers than requests.
TypeOK ==
  /\ m_delay \in Delays /\ m_mem \in [Addresses -> Values]
  /\ m_head \in Slots /\ {m_cleared, o_stall, o_ack} \subseteq BOOLEAN
  /\ m_fifo_ack \in [Slots -> BOOLEAN] /\ m_fifo_data \in [Slots -> Values]
  /\ o_data \in Values
  /\ {clk, r_a_owner, last_owner} \subseteq BOOLEAN
  /\ EngineType(a) /\ a.len \in 0 .. Words
  /\ EngineType(b) /\ b.data \in Values /\ b.last \in BOOLEAN
  /\ Len(expected) <= Words /\ Len(taken) <= Words

\* An answer on the bus is the oldest request's of the engine that owns the
\* bus, and a read's answer brings the word that was in memory when the memory
\* accepted the request, also after aborts, changes of owner and broken cycles.
AnswersAreOwed ==
  o_ack /\ ~clk => IF r_a_owner THEN expected # << >> /\ o_data = Head(expected)
                   ELSE b.out > 0

\* The owner of a cycle with requests in flight keeps the bus
\* (satatrn_wbarbiter.v:296-297), and who does not own it has none in flight.
OwnerKeepsCycle == /\ a.out > 0 => r_a_owner
                   /\ b.out > 0 => ~r_a_owner

\* Transfers that are not aborted end whole: mm2s ends its cycle with every
\* read answered, and when s2mm ends its transfer every word of the stream is
\* in memory, at its place.
TransfersWhole ==
  /\ a.busy /\ ~a.cyc => expected = << >>
  /\ ~b.busy => \A i \in 1 .. Len(taken) : m_mem[b.addr - Len(taken) + i - 1] = taken[i]

\* Neither engine waits for ever on the other's cycles: a read asked for ends,
\* a write put on the bus is accepted, and a transfer whose stream has ended
\* ends.
BothServed == /\ a.busy ~> ~a.busy
              /\ b.stb ~> ~b.stb
              /\ b.last ~> ~b.last

=============================================================================
