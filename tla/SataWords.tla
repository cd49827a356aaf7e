------------------------------ MODULE SataWords -------------------------------
(***************************************************************************)
(* The 33-bit words of the link: a primitive, or 32 bits of data.          *)
(*                                                                         *)
(* Abstracted data.  A data word is kept as its value before scrambling,   *)
(* with the scrambler position it was scrambled at: XOR with the same      *)
(* mask restores it, any other mask leaves noise.  A value is a tagged     *)
(* tuple.  The running CRC is the sequence of the values it has absorbed,  *)
(* so two CRCs agree when they have seen the same words.                   *)
(***************************************************************************)
EXTENDS Naturals, Sequences

\* The primitive p of sata_primitives.vh.
Prim(p) == [prim |-> TRUE, val |-> <<p>>, at |-> 0]

\* Value v XORed with the n-th mask of the scrambler.
Scramble(v, n) == [prim |-> FALSE, val |-> v, at |-> n]

Noise == <<"NOISE">>

Descramble(w, n) == IF w.at = n THEN w.val ELSE Noise

NoWord == [valid |-> FALSE]
Got(w) == [valid |-> TRUE, word |-> w]
Is(rx, p) == rx.valid /\ rx.word = Prim(p)
IsPrim(rx) == rx.valid /\ rx.word.prim

\* The CRC before the first word, after one more word, and as a value.
NoCrc == << >>
Absorb(crc, v) == Append(crc, v)
CrcValue(crc) == <<"CRC", crc>>

\* Words vals as the payload of a frame: scrambled from position 0 on, the
\* CRC appended and scrambled last.
Framed(vals) ==
  LET all == Append(vals, CrcValue(vals))
  IN  [i \in 1 .. Len(all) |-> Scramble(all[i], i - 1)]

=============================================================================
