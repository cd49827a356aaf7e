------------------------------ MODULE BenchClock ------------------------------
(***************************************************************************)
(* The three simulated clocks of the bench, bench/cpp/tbclock.h, and       *)
(* tick() of bench/cpp/testb.h, which moves time to the nearest edge of    *)
(* any of them.                                                            *)
(*                                                                         *)
(* Times are kept relative: phase[c] is m_now_ps - m_last_posedge_ps of    *)
(* clock c.  m_ticks and m_time_ps are counters nothing here reads.        *)
(***************************************************************************)
EXTENDS Integers

CONSTANT Interval       \* the argument of init(), for each clock, in ps

Clocks == {"clk", "rx", "tx"}

ASSUME IntervalAssumption == Interval \in [Clocks -> Nat]

\* Seeded fault of Increment: the odd half periods are kept.
Increment_Odd == [c \in Clocks |-> Interval[c] \div 2]

\* set_interval_ps(): (interval_ps >> 1) & -2
Increment == [c \in Clocks |-> 2 * (Interval[c] \div 4)]

\* An increment of 2 passes the assertion of set_interval_ps() and fails
\* that of the first tick().
ASSUME LongIntervals == \A c \in Clocks : Interval[c] >= 8

VARIABLES
  phase,
  i_clk           \* for each clock, its level as the design sees it

clockVars == <<phase, i_clk>>

-----------------------------------------------------------------------------
\* init(): the clock is low, with a rising edge next.
ClockInit ==
  /\ phase = [c \in Clocks |-> Increment[c] + 1]
  /\ i_clk = [c \in Clocks |-> FALSE]

\* The two branches of time_to_edge() and of advance() that end in an error.
TimeToEdgeFails(c) == phase[c] < 0 \/ phase[c] >= 2 * Increment[c]
AdvanceFails(c, itime) == itime > Increment[c]

TimeToEdge(c) == IF phase[c] < Increment[c] THEN Increment[c] - phase[c]
                 ELSE 2 * Increment[c] - phase[c]

\* Seeded fault of MinTime: the transmit clock is left out.
MinTime_TwoClocks == IF TimeToEdge("rx") < TimeToEdge("clk") THEN TimeToEdge("rx")
                     ELSE TimeToEdge("clk")

\* mintime of tick()
MinTime ==
  LET two == IF TimeToEdge("rx") < TimeToEdge("clk") THEN TimeToEdge("rx")
             ELSE TimeToEdge("clk")
  IN  IF TimeToEdge("tx") < two THEN TimeToEdge("tx") ELSE two

Advanced(c, itime) ==
  IF phase[c] + itime >= 2 * Increment[c] THEN phase[c] + itime - 2 * Increment[c]
  ELSE phase[c] + itime

Level(c, p) == p < Increment[c]

\* tick() up to its callbacks.
Tick ==
  /\ phase' = [c \in Clocks |-> Advanced(c, MinTime)]
  /\ i_clk' = [c \in Clocks |-> Level(c, phase'[c])]

\* falling_edge() and the rising edge the design sees, in the tick that ends.
Falls(c) == phase'[c] = Increment[c]
Rises(c) == ~i_clk[c] /\ i_clk'[c]

ClockSpec == ClockInit /\ [][Tick]_clockVars

-----------------------------------------------------------------------------
\* No assertion of tick(), time_to_edge() or advance() fails.
TickAsserts ==
  /\ MinTime > 1
  /\ \A c \in Clocks : ~TimeToEdgeFails(c) /\ ~AdvanceFails(c, MinTime)

\* No edge is jumped over: a clock that changes level does so at its edge,
\* where falling_edge() is true for exactly one tick.
NoEdgeSkipped ==
  [][\A c \in Clocks :
       /\ Rises(c) => phase'[c] = 0
       /\ i_clk[c] /\ ~i_clk'[c] => Falls(c)
       /\ Falls(c) => i_clk[c] /\ ~i_clk'[c]]_clockVars

=============================================================================
