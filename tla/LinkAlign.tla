------------------------------ MODULE LinkAlign -------------------------------
(***************************************************************************)
(* What stands between the link state machine and the wire,                *)
(* rtl/satalnk_align.v with its skid buffer: it repeats primitives,        *)
(* replaces longer runs by CONT, and inserts a pair of ALIGNs every        *)
(* AlignTimeout words.  AlignStep(w) is one rising edge of the transmit    *)
(* clock with m_phy_data = w; the o_data register, with its primitive bit, *)
(* is al_out.                                                              *)
(*                                                                         *)
(* i_cfg_continue_en is 1 (sata_controller.v).  S_SCRAMBLED is left out:   *)
(* it is entered only if a primitive of the link equals o_data, which is   *)
(* CONT in S_CONT.                                                         *)
(***************************************************************************)
EXTENDS SataWords

CONSTANT AlignTimeout   \* ALIGN_TIMEOUT, 257 in the code

ASSUME AlignTimeoutAssumption == AlignTimeout \in Nat \ {0}

VARIABLES
  al_state,        \* fsm_state
  al_out,          \* {o_primitive, o_data}
  al_trigger, al_counter,
  last_primitive, need_repeat,
  skid             \* the skid buffer's register, a word when it is full

alignVars == <<al_state, al_out, al_trigger, al_counter, last_primitive,
               need_repeat, skid>>

AlignStates == {"ALIGN1", "ALIGN2", "PRIMITIVE1", "PRIMITIVE2", "CONT",
                "RPT1", "RPT2", "DATA"}

\* s_ready, the link's m_phy_ready: the skid buffer is empty.
LinkReady == ~skid.valid

-----------------------------------------------------------------------------
SkidData(w) == IF skid.valid THEN skid.word ELSE w
AfterWord(w) == IF w.prim THEN "PRIMITIVE1" ELSE "DATA"

Out(state, word, ready) == [state |-> state, word |-> word, ready |-> ready]

Pass(w) == Out(AfterWord(w), w, TRUE)

\* Seeded fault of AfterAlign: the word offered during the second ALIGN is
\* taken, and lost.
AfterAlign_Takes == Out("ALIGN2", Prim("ALIGN"), TRUE)

AfterAlign == Out("ALIGN2", Prim("ALIGN"), FALSE)

\* The next state, the next word on the wire, and skd_ready.
AlignNext(w) ==
  LET d == SkidData(w) IN
  IF al_trigger THEN Out("ALIGN1", Prim("ALIGN"), FALSE)
  ELSE CASE al_state = "ALIGN1" -> AfterAlign
         [] al_state = "ALIGN2" ->
              IF need_repeat THEN Out("RPT1", last_primitive, FALSE) ELSE Pass(d)
         [] al_state = "PRIMITIVE1" -> Out("PRIMITIVE2", al_out, FALSE)
         [] al_state = "PRIMITIVE2" ->
              IF d = al_out THEN Out("CONT", Prim("CONT"), TRUE) ELSE Pass(d)
         [] al_state = "CONT" ->
              IF d.prim THEN Pass(d) ELSE Out("RPT1", last_primitive, FALSE)
         [] al_state = "RPT1" -> Out("RPT2", last_primitive, FALSE)
         [] al_state = "RPT2" -> Out("DATA", d, TRUE)
         [] al_state = "DATA" -> Pass(d)

AlignStep(w) ==
  LET next == AlignNext(w) IN
  /\ al_state' = next.state
  /\ al_out' = next.word
  /\ skid' = IF next.ready THEN NoWord
             ELSE IF skid.valid THEN skid ELSE Got(w)
  /\ last_primitive' = IF next.ready /\ w.prim THEN w ELSE last_primitive
  /\ need_repeat' =
       (al_trigger /\ (\/ al_state \in {"PRIMITIVE1", "RPT1"}
                       \/ al_state \in {"ALIGN1", "ALIGN2"} /\ need_repeat))
  /\ IF al_trigger
     THEN al_trigger' = FALSE /\ al_counter' = AlignTimeout
     ELSE al_trigger' = (al_counter <= 1) /\ al_counter' = al_counter - 1

AlignInReset ==
  /\ al_state = "ALIGN1"
  /\ al_out = Prim("ALIGN")
  /\ al_trigger = TRUE
  /\ al_counter = 0
  /\ last_primitive = Prim("ALIGN")
  /\ need_repeat = FALSE
  /\ skid = NoWord

AlignTypeOK ==
  /\ al_state \in AlignStates
  /\ {al_trigger, need_repeat} \subseteq BOOLEAN
  /\ al_counter \in 0 .. AlignTimeout

=============================================================================
