---------------------------- MODULE MCTransport ----------------------------
(***************************************************************************)
(* Transport on instances small enough for TLC.  The bus is one word wide  *)
(* (DW = 32, BusShift = 2), as in sata_controller.v.                       *)
(***************************************************************************)
EXTENDS Transport

\* The buffers of an instance do not overlap, so that a word stored for one
\* command cannot pass for a word of another's.
ASSUME BuffersAssumption ==
  \A a, b \in Bases : a < b => a + ReadWords * BusBytes <= b
=============================================================================
