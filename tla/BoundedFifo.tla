---------------------------- MODULE BoundedFifo ----------------------------
(***************************************************************************)
(* What a FIFO promises its two sides: the words put in come out once, in  *)
(* order and unchanged, and never more than Capacity of them are held.     *)
(***************************************************************************)
EXTENDS Naturals, Sequences

CONSTANTS
  Data,       \* words
  Capacity    \* how many fit

VARIABLES
  held,       \* the words put in and not yet taken, oldest first
  taken       \* the word taken last, or "none"

\* A put of these words (none or one) and a take of this many (none or one)
\* may share an instant; the put does not see the room the take makes.
Move(in, n) ==
  /\ Len(held) + Len(in) <= Capacity
  /\ n <= Len(held)
  /\ held' = SubSeq(held, n + 1, Len(held)) \o in
  /\ taken' = IF n = 0 THEN taken ELSE held[n]

\* A reset empties it.
Clear == held' = <<>> /\ taken' = "none"

Init == held = <<>> /\ taken = "none"
Next == Clear \/ \E in \in {<<>>} \cup {<<d>> : d \in Data}, n \in 0 .. 1 : Move(in, n)
Spec == Init /\ [][Next]_<<held, taken>>
=============================================================================
