----------------------------- MODULE AsyncFifo -----------------------------
(***************************************************************************)
(* The asynchronous FIFO, rtl/sata_afifo.v, that carries every word across *)
(* the clock domains of the transport layer: a memory of 2^LGFIFO words, a *)
(* pointer on each side, one bit longer than an address, and each side's   *)
(* Gray-coded copy of the other's pointer, two flip-flops old.  Built with *)
(* OPT_REGISTER_READS and NFF = 2, as everywhere in the controller.        *)
(*                                                                         *)
(* One step is an edge of the write clock, of the read clock, or of both.  *)
(* When both fall together the flip-flop that samples the other domain's   *)
(* Gray code takes each bit from before or after the change.               *)
(*                                                                         *)
(* A vector of bits is the set of the positions that are 1.                *)
(***************************************************************************)
EXTENDS Naturals, Sequences

CONSTANTS
  Data,
  LGFIFO,       \* log of the depth
  MaxResets     \* bound on the resets of a behaviour

ASSUME LgfifoAssumption == LGFIFO \in Nat /\ LGFIFO >= 2
\* What powers of two are, as far as pointers of LGFIFO + 1 bits need them.
ASSUME PowersAssumption == \A i \in 0 .. LGFIFO : 2^(i + 1) = 2 * 2^i
ASSUME ResetsAssumption == MaxResets \in Nat

VARIABLES
  wr_reset_n, wr_addr, wgray, rgray_cross, wr_rgray,   \* write side
  rd_reset_n, rd_addr, rgray, wgray_cross, rd_wgray,   \* read side
  o_rd_empty, o_rd_data,
  mem,
  taken, resets                                        \* ghosts

writeVars == <<wr_reset_n, wr_addr, wgray, rgray_cross, wr_rgray, mem>>
readVars  == <<rd_reset_n, rd_addr, rgray, wgray_cross, rd_wgray,
               o_rd_empty, o_rd_data, taken>>
vars == <<writeVars, readVars, resets>>

MSB   == LGFIFO
Depth == 2^LGFIFO

\* Seeded fault of Wrap: a pointer takes one value too many.
Wrap_OneMore(n) == n % (2 * Depth + 1)

Wrap(n) == n % (2 * Depth)
Slot(n) == n % Depth

Bits == 0 .. MSB
Bit(n, i) == (n \div 2^i) % 2

\* Seeded fault of Gray: pointers cross in plain binary.
Gray_Binary(n) == {i \in Bits : Bit(n, i) = 1}

\* n ^ (n >> 1)
Gray(n) == {i \in Bits : Bit(n, i) # Bit(n, i + 1)}

\* What a flip-flop can make of a vector that changes as it samples it.
Sampled(old, new) == {s \in SUBSET Bits : old \cap new \subseteq s /\ s \subseteq old \cup new}

\* Seeded fault of o_wr_full: only the top bit is inverted.
o_wr_full_TopBit == wr_rgray = (wgray \ {MSB}) \cup ({MSB} \ wgray)

\* The pointers are a whole lap apart: the top two bits of the codes differ.
o_wr_full == LET top == {MSB - 1, MSB}
             IN  wr_rgray = (wgray \ top) \cup (top \ wgray)

lcl_rd_empty == rd_wgray = rgray

-----------------------------------------------------------------------------
\* An edge of the write clock, with in the word i_wr offers, if any.  The
\* memory has no reset.
Accepted(in) == IF o_wr_full THEN <<>> ELSE in

WriteEdge(in) ==
  /\ mem' = IF Accepted(in) # <<>> THEN [mem EXCEPT ![Slot(wr_addr)] = in[1]] ELSE mem
  /\ IF wr_reset_n /\ Accepted(in) # <<>>
     THEN wr_addr' = Wrap(wr_addr + 1) /\ wgray' = Gray(wr_addr')
     ELSE UNCHANGED <<wr_addr, wgray>>

\* Seeded fault of WriteSamples: the crossing stops while the FIFO is full.
WriteSamples_Gated ==
  IF wr_reset_n /\ ~o_wr_full
  THEN wr_rgray' = rgray_cross /\ rgray_cross' \in Sampled(rgray, rgray')
  ELSE UNCHANGED <<wr_rgray, rgray_cross>>

\* The read pointer crosses over, two edges late.
WriteSamples ==
  IF wr_reset_n
  THEN wr_rgray' = rgray_cross /\ rgray_cross' \in Sampled(rgray, rgray')
  ELSE UNCHANGED <<wr_rgray, rgray_cross>>

\* Seeded fault of lcl_read: a new word overwrites one not yet taken.
lcl_read_Always(i_rd) == TRUE

lcl_read(i_rd) == o_rd_empty \/ i_rd

\* An edge of the read clock: the output register refills when it is empty
\* or its word is taken.
ReadEdge(i_rd) ==
  /\ IF rd_reset_n /\ lcl_read(i_rd) /\ ~lcl_rd_empty
     THEN rd_addr' = Wrap(rd_addr + 1) /\ rgray' = Gray(rd_addr')
     ELSE UNCHANGED <<rd_addr, rgray>>
  /\ o_rd_empty' = IF rd_reset_n /\ lcl_read(i_rd) THEN lcl_rd_empty ELSE o_rd_empty
  /\ o_rd_data' = IF lcl_read(i_rd) THEN mem[Slot(rd_addr)] ELSE o_rd_data
  /\ taken' = IF i_rd /\ ~o_rd_empty THEN o_rd_data ELSE taken

\* Seeded fault of ReadSamples: the crossing stops while the FIFO is empty.
ReadSamples_Gated ==
  IF rd_reset_n /\ ~lcl_rd_empty
  THEN rd_wgray' = wgray_cross /\ wgray_cross' \in Sampled(wgray, wgray')
  ELSE UNCHANGED <<rd_wgray, wgray_cross>>

\* The write pointer crosses over, two edges late.
ReadSamples ==
  IF rd_reset_n
  THEN rd_wgray' = wgray_cross /\ wgray_cross' \in Sampled(wgray, wgray')
  ELSE UNCHANGED <<rd_wgray, wgray_cross>>

Inputs == {<<>>} \cup {<<d>> : d \in Data}

WriteClock == /\ UNCHANGED <<readVars, wr_reset_n, resets>>
              /\ \E in \in Inputs : WriteEdge(in)
              /\ WriteSamples
ReadClock(i_rd) == /\ UNCHANGED <<writeVars, rd_reset_n, resets>>
                   /\ ReadEdge(i_rd)
                   /\ ReadSamples
BothClocks(i_rd) == /\ UNCHANGED <<wr_reset_n, rd_reset_n, resets>>
                    /\ ReadEdge(i_rd)
                    /\ \E in \in Inputs : WriteEdge(in)
                    /\ WriteSamples /\ ReadSamples

-----------------------------------------------------------------------------
\* Both sides enter reset at once (the resets are asynchronous, and derived
\* from one i_reset: sata_transport.v:199-203, sata_link.v:126-130) and leave
\* it apart.
Init ==
  /\ wr_addr = 0 /\ wgray = {} /\ rgray_cross = {} /\ wr_rgray = {}
  /\ rd_addr = 0 /\ rgray = {} /\ wgray_cross = {} /\ rd_wgray = {}
  /\ o_rd_empty = TRUE
  /\ wr_reset_n = FALSE /\ rd_reset_n = FALSE
  /\ mem \in [0 .. Depth - 1 -> Data] /\ o_rd_data \in Data
  /\ taken = "none" /\ resets = 0

Reset ==
  /\ resets < MaxResets /\ resets' = resets + 1
  /\ wr_addr' = 0 /\ wgray' = {} /\ rgray_cross' = {} /\ wr_rgray' = {}
  /\ rd_addr' = 0 /\ rgray' = {} /\ wgray_cross' = {} /\ rd_wgray' = {}
  /\ o_rd_empty' = TRUE
  /\ wr_reset_n' = FALSE /\ rd_reset_n' = FALSE
  /\ taken' = "none"
  /\ UNCHANGED <<mem, o_rd_data>>

ReleaseWrite == /\ wr_reset_n' = TRUE
                /\ UNCHANGED <<wr_addr, wgray, rgray_cross, wr_rgray, mem, readVars, resets>>
ReleaseRead  == /\ rd_reset_n' = TRUE
                /\ UNCHANGED <<writeVars, rd_addr, rgray, wgray_cross, rd_wgray,
                               o_rd_empty, o_rd_data, taken, resets>>

Next == \/ WriteClock
        \/ \E i_rd \in BOOLEAN : ReadClock(i_rd) \/ BothClocks(i_rd)
        \/ Reset \/ ReleaseWrite \/ ReleaseRead

Spec == Init /\ [][Next]_vars

\* Both clocks run, the resets end, and the reading side takes what it is
\* offered (i_rd is !afifo_empty in satatrn_rxregfis.v:146).  An edge
\* may be bound to fall together with the other side's every time.
Fairness ==
  /\ WF_vars(ReleaseWrite) /\ WF_vars(ReleaseRead)
  /\ WF_vars(WriteClock \/ \E i_rd \in BOOLEAN : BothClocks(i_rd))
  /\ WF_vars(ReadClock(TRUE) \/ BothClocks(TRUE))
FairSpec == Spec /\ Fairness

-----------------------------------------------------------------------------
(* Properties.                                                             *)

\* The words between the pointers, behind the one in the output register.
Between == [i \in 1 .. Wrap(wr_addr + 2 * Depth - rd_addr) |-> mem[Slot(rd_addr + i - 1)]]
Held == (IF o_rd_empty THEN <<>> ELSE <<o_rd_data>>) \o Between

TypeOK ==
  /\ wr_reset_n \in BOOLEAN /\ rd_reset_n \in BOOLEAN /\ o_rd_empty \in BOOLEAN
  /\ wr_addr \in 0 .. 2 * Depth - 1 /\ rd_addr \in 0 .. 2 * Depth - 1
  /\ {wgray, rgray, rgray_cross, wr_rgray, wgray_cross, rd_wgray} \subseteq SUBSET Bits
  /\ mem \in [0 .. Depth - 1 -> Data] /\ o_rd_data \in Data
  /\ taken \in Data \cup {"none"} /\ resets \in 0 .. MaxResets

\* The FIFO is a FIFO: nothing lost, repeated, reordered or made up, whatever
\* the two clocks and the sampled bits do.
Fifo == INSTANCE BoundedFifo WITH Capacity <- Depth + 1, held <- Held, taken <- taken
FifoSpec == Fifo!Spec

\* Neither side ever acts on a pointer ahead of the other's: what the writer
\* believes read has been read, and what the reader believes written is there.
\* No flip-flop holds a code the pointer never had.
Lag(older, newer) == Wrap(newer + 2 * Depth - older)
Pointer(code) == CHOOSE n \in 0 .. 2 * Depth - 1 : Gray(n) = code
NeverAhead ==
  LET age == Lag(Pointer(wr_rgray), wr_addr)
  IN  /\ Lag(Pointer(wr_rgray), rd_addr) <= age
      /\ Lag(rd_addr, Pointer(rd_wgray)) <= Lag(rd_addr, wr_addr)
      /\ age <= Depth

\* A full FIFO makes room: no word offered waits for ever.
RoomAgain == o_wr_full ~> ~o_wr_full

\* What is written comes out: the reading side is told of it.
Delivered == wr_addr # rd_addr ~> ~o_rd_empty
=============================================================================
