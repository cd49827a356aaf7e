------------------------------- MODULE MCWbTb -------------------------------
(***************************************************************************)
(* WbTb with clocks of a few picoseconds whose periods do not divide each  *)
(* other.  A quarter of rx is not whole: set_interval_ps() rounds it.      *)
(***************************************************************************)
EXTENDS WbTb

ShortIntervals == [c \in {"clk", "rx", "tx"} |->
                    IF c = "clk" THEN 8 ELSE IF c = "rx" THEN 22 ELSE 28]
=============================================================================
