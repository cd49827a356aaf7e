------------------------------ MODULE WbTbProofs ------------------------------
(***************************************************************************)
(* The clocks of the bench and its bus functions, for all intervals of     *)
(* 8 ps and more, lengths of bursts and register addresses: no assertion   *)
(* of tick() fails and no edge is jumped over; the closing assertions of   *)
(* the bus functions hold, a call made with the bus clock low does not     *)
(* bomb, and no access is lost without m_bomb.                             *)
(*                                                                         *)
(* ClockInv: after the first tick every phase is even, as                  *)
(* set_interval_ps() leaves every half period, so that two edges that do   *)
(* not coincide are at least 2 ps apart.                                   *)
(*                                                                         *)
(* TickInv ties TICK to the clock: it waits for a rising edge exactly      *)
(* while the clock is low.  IdleInv then says that the strobe is down in   *)
(* the last TICK of a call and that this TICK holds a rising edge, at      *)
(* which the slave answers nothing.  LowInv follows a call that began with *)
(* the clock low: every TICK of it has its rising edge, so that each word  *)
(* is answered by the TICK that sends it.  DataInv counts: the words       *)
(* accepted, those answered, and those the function takes for sent.        *)
(***************************************************************************)
EXTENDS WbTb, SequenceTheorems, TLAPS

-----------------------------------------------------------------------------
(* The clocks *)

Even(n) == \E k \in Nat : n = 2 * k

PhaseType == phase \in [Clocks -> Nat]
InPeriod == \A c \in Clocks : phase[c] < 2 * Increment[c]
LevelShown == i_clk = [c \in Clocks |-> Level(c, phase[c])]
Aligned == \/ \A c \in Clocks : phase[c] = Increment[c] + 1
           \/ \A c \in Clocks : Even(phase[c])

ClockInv == PhaseType /\ InPeriod /\ LevelShown /\ Aligned

-----------------------------------------------------------------------------
\* A half period is even and at least 4 ps.
LEMMA IncrementType ==
  ASSUME NEW c \in Clocks
  PROVE  Increment[c] \in Nat /\ Increment[c] >= 4 /\ Even(Increment[c])
<1>1. Interval[c] \in Nat /\ Interval[c] >= 8
  BY IntervalAssumption, LongIntervals DEF Clocks
<1>2. Increment[c] = 2 * (Interval[c] \div 4)
  BY DEF Increment
<1>3. Interval[c] \div 4 \in Nat /\ Interval[c] \div 4 >= 2
  BY <1>1
<1> QED BY <1>2, <1>3 DEF Even

\* Sums and differences of even numbers are even.
LEMMA EvenSum == ASSUME NEW m \in Nat, NEW n \in Nat, Even(m), Even(n)
                 PROVE  Even(m + n)
<1>1. PICK j \in Nat : m = 2 * j BY DEF Even
<1>2. PICK k \in Nat : n = 2 * k BY DEF Even
<1>3. m + n = 2 * (j + k) /\ j + k \in Nat BY <1>1, <1>2
<1> QED BY <1>3 DEF Even

LEMMA EvenDifference == ASSUME NEW m \in Nat, NEW n \in Nat, n <= m, Even(m), Even(n)
                        PROVE  Even(m - n)
<1>1. PICK j \in Nat : m = 2 * j BY DEF Even
<1>2. PICK k \in Nat : n = 2 * k BY DEF Even
<1>3. m - n = 2 * (j - k) /\ j - k \in Nat BY <1>1, <1>2
<1> QED BY <1>3 DEF Even

\* The time to the edge of one clock: no longer than half a period, longer
\* than 1 ps, and even once the phases are.
LEMMA EdgeTime ==
  ASSUME ClockInv, NEW c \in Clocks
  PROVE  /\ TimeToEdge(c) \in Nat
         /\ TimeToEdge(c) > 1
         /\ TimeToEdge(c) <= Increment[c]
         /\ phase[c] < Increment[c] => TimeToEdge(c) = Increment[c] - phase[c]
         /\ phase[c] >= Increment[c] => TimeToEdge(c) = 2 * Increment[c] - phase[c]
         /\ Even(phase[c]) => Even(TimeToEdge(c))
<1> DEFINE p == phase[c]  n == Increment[c]  t == TimeToEdge(c)
<1>1. p \in Nat /\ p < 2 * n
  BY DEF ClockInv, PhaseType, InPeriod
<1>2. n \in Nat /\ n >= 4 /\ Even(n)
  BY IncrementType
<1>3. t = IF p < n THEN n - p ELSE 2 * n - p
  BY DEF TimeToEdge
<1>4. Even(p) \/ p = n + 1
  BY DEF ClockInv, Aligned
<1> HIDE DEF p, n, t
<1>5. t \in Nat /\ t > 0 /\ t <= n
  BY <1>1, <1>2, <1>3
<1>6. Even(n + n)
  BY <1>2, EvenSum
<1>7. Even(p) => Even(t)
  <2>1. CASE p < n
    BY <2>1, <1>1, <1>2, <1>3, EvenDifference
  <2>2. CASE p >= n
    <3>1. 2 * n = n + n /\ n + n \in Nat /\ p <= n + n BY <1>1, <1>2
    <3>2. t = (n + n) - p BY <3>1, <1>1, <1>2, <1>3, <2>2
    <3> QED BY <3>1, <3>2, <1>1, <1>6, EvenDifference
  <2> QED BY <2>1, <2>2, <1>1, <1>2
<1>8. t > 1
  <2>1. CASE Even(p)
    <3>1. PICK k \in Nat : t = 2 * k BY <2>1, <1>7 DEF Even
    <3> QED BY <3>1, <1>5
  <2>2. CASE p = n + 1
    BY <2>2, <1>2, <1>3
  <2> QED BY <2>1, <2>2, <1>4
<1> QED BY <1>1, <1>2, <1>3, <1>5, <1>7, <1>8 DEF p, n, t

\* mintime is the time to the edge of one of the clocks and no later than that
\* of any other.
LEMMA MinTimeIsLeast ==
  ASSUME ClockInv
  PROVE  /\ \E c \in Clocks : MinTime = TimeToEdge(c)
         /\ \A c \in Clocks : MinTime <= TimeToEdge(c)
<1>1. /\ TimeToEdge("clk") \in Nat
      /\ TimeToEdge("rx") \in Nat
      /\ TimeToEdge("tx") \in Nat
  BY EdgeTime DEF Clocks
<1> QED BY <1>1 DEF MinTime, Clocks

-----------------------------------------------------------------------------
LEMMA ClockInvInit == ClockInit => ClockInv
<1> SUFFICES ASSUME ClockInit PROVE ClockInv
  OBVIOUS
<1>1. \A c \in Clocks : Increment[c] \in Nat /\ Increment[c] >= 4
  BY IncrementType
<1>2. PhaseType
  BY <1>1 DEF ClockInit, PhaseType
<1>3. \A c \in Clocks : phase[c] = Increment[c] + 1
  BY DEF ClockInit
<1>4. InPeriod
  BY <1>1, <1>3 DEF InPeriod
<1>5. LevelShown
  <2>1. \A c \in Clocks : Level(c, phase[c]) = FALSE
    BY <1>1, <1>3 DEF Level
  <2> QED BY <2>1 DEF ClockInit, LevelShown
<1> QED BY <1>2, <1>3, <1>4, <1>5 DEF ClockInv, Aligned

\* One clock over a tick: where its phase goes, and that its edges are met.
LEMMA OneClock ==
  ASSUME ClockInv, Tick, NEW c \in Clocks
  PROVE  /\ phase'[c] \in Nat
         /\ phase'[c] < 2 * Increment[c]
         /\ Even(phase'[c])
         /\ Rises(c) => phase'[c] = 0
         /\ i_clk[c] /\ ~i_clk'[c] => Falls(c)
         /\ Falls(c) => i_clk[c] /\ ~i_clk'[c]
<1> DEFINE p == phase[c]  n == Increment[c]  m == MinTime  q == phase'[c]
<1>1. p \in Nat /\ p < 2 * n
  BY DEF ClockInv, PhaseType, InPeriod
<1>2. n \in Nat /\ n >= 4 /\ Even(n)
  BY IncrementType
<1>3. m \in Nat /\ m > 1
  BY EdgeTime, MinTimeIsLeast
<1>4. /\ p < n => p + m <= n
      /\ p >= n => p + m <= 2 * n
  BY <1>1, <1>2, <1>3, EdgeTime, MinTimeIsLeast
<1>5. q = IF p + m >= 2 * n THEN p + m - 2 * n ELSE p + m
  BY DEF Tick, Advanced
<1>6. Even(p + m)
  <2>1. PICK d \in Clocks : m = TimeToEdge(d)
    BY MinTimeIsLeast
  <2>2. CASE \A b \in Clocks : Even(phase[b])
    <3>1. Even(m) BY <2>1, <2>2, EdgeTime
    <3>2. Even(p) BY <2>2
    <3> HIDE DEF p, m
    <3> QED BY <3>1, <3>2, <1>1, <1>3, EvenSum
  <2>3. CASE \A b \in Clocks : phase[b] = Increment[b] + 1
    <3> DEFINE nd == Increment[d]
    <3>1. nd \in Nat /\ nd >= 4 /\ Even(nd) BY IncrementType
    <3>2. phase[d] = nd + 1 /\ p = n + 1 BY <2>3
    <3>3. m = 2 * nd - (nd + 1) BY <2>1, <3>1, <3>2, EdgeTime
    <3>4. p + m = n + nd BY <1>2, <3>1, <3>2, <3>3
    <3> HIDE DEF p, m, n, nd
    <3> QED BY <3>1, <3>4, <1>2, EvenSum
  <2> QED BY <2>2, <2>3 DEF ClockInv, Aligned
<1>7. (i_clk[c] <=> p < n) /\ (i_clk'[c] <=> q < n)
  BY DEF ClockInv, LevelShown, Level, Tick
<1> HIDE DEF p, n, m, q
<1>8. q \in Nat /\ q < 2 * n
  BY <1>1, <1>2, <1>3, <1>4, <1>5
<1>9. Even(q)
  <2>1. CASE p + m >= 2 * n
    <3>1. 2 * n = n + n /\ n + n \in Nat /\ p + m \in Nat BY <1>1, <1>2, <1>3
    <3>2. q = (p + m) - (n + n) /\ n + n <= p + m BY <3>1, <2>1, <1>1, <1>2, <1>3, <1>5
    <3>3. Even(n + n) BY <1>2, EvenSum
    <3> QED BY <3>1, <3>2, <3>3, <1>6, EvenDifference
  <2>2. CASE ~(p + m >= 2 * n)
    BY <2>2, <1>5, <1>6
  <2> QED BY <2>1, <2>2
<1>10. /\ ~(p < n) /\ q < n => q = 0
       /\ p < n /\ ~(q < n) => q = n
       /\ q = n => p < n /\ ~(q < n)
  BY <1>1, <1>2, <1>3, <1>4, <1>5, <1>8
<1>11. Rises(c) => q = 0
  BY <1>7, <1>10 DEF Rises
<1>12. (i_clk[c] /\ ~i_clk'[c] => q = n) /\ (q = n => i_clk[c] /\ ~i_clk'[c])
  BY <1>7, <1>10
<1> QED BY <1>8, <1>9, <1>11, <1>12 DEF n, q, Falls

LEMMA ClockInvStep == ClockInv /\ [Tick]_clockVars => ClockInv'
<1> SUFFICES ASSUME ClockInv, [Tick]_clockVars PROVE ClockInv'
  OBVIOUS
<1>1. CASE Tick
  <2>1. PhaseType'
    <3>1. phase' = [c \in Clocks |-> phase'[c]] BY <1>1 DEF Tick
    <3>2. \A c \in Clocks : phase'[c] \in Nat BY <1>1, OneClock
    <3> QED BY <3>1, <3>2 DEF PhaseType
  <2>2. InPeriod'
    BY <1>1, OneClock DEF InPeriod
  <2>3. LevelShown'
    BY <1>1 DEF Tick, LevelShown, Level
  <2>4. Aligned'
    BY <1>1, OneClock DEF Aligned
  <2> QED BY <2>1, <2>2, <2>3, <2>4 DEF ClockInv
<1>2. CASE UNCHANGED clockVars
  BY <1>2 DEF clockVars, ClockInv, PhaseType, InPeriod, LevelShown, Level, Aligned
<1> QED BY <1>1, <1>2

LEMMA ClockInvAsserts == ClockInv => TickAsserts
<1> SUFFICES ASSUME ClockInv PROVE TickAsserts
  OBVIOUS
<1>1. MinTime \in Nat /\ MinTime > 1
  BY EdgeTime, MinTimeIsLeast
<1>2. ASSUME NEW c \in Clocks PROVE ~TimeToEdgeFails(c) /\ ~AdvanceFails(c, MinTime)
  <2>1. phase[c] \in Nat /\ phase[c] < 2 * Increment[c]
    BY DEF ClockInv, PhaseType, InPeriod
  <2>2. TimeToEdge(c) \in Nat /\ TimeToEdge(c) <= Increment[c] /\ MinTime <= TimeToEdge(c)
    BY EdgeTime, MinTimeIsLeast
  <2>3. Increment[c] \in Nat
    BY IncrementType
  <2> QED BY <1>1, <2>1, <2>2, <2>3 DEF TimeToEdgeFails, AdvanceFails
<1> QED BY <1>1, <1>2 DEF TickAsserts

-----------------------------------------------------------------------------
\* The clocks keep ClockInv.
THEOREM ClockInvariant == ClockSpec => []ClockInv
<1> QED BY ClockInvInit, ClockInvStep, PTL DEF ClockSpec

\* The assertions of tick(), time_to_edge() and advance() hold in every tick,
\* for all intervals of 8 ps and more.
THEOREM ClockAsserts == ClockSpec => []TickAsserts
<1> QED BY ClockInvariant, ClockInvAsserts, PTL

\* Every rising and every falling edge of every clock is met by a tick, which
\* is the one its callback runs in.
THEOREM EdgesMet == ClockSpec => NoEdgeSkipped
<1>1. ClockInv /\ [Tick]_clockVars =>
        [\A c \in Clocks : /\ Rises(c) => phase'[c] = 0
                           /\ i_clk[c] /\ ~i_clk'[c] => Falls(c)
                           /\ Falls(c) => i_clk[c] /\ ~i_clk'[c]]_clockVars
  BY OneClock
<1> QED BY <1>1, ClockInvariant, PTL DEF ClockSpec, NoEdgeSkipped

\* The bus functions drive the clocks by tick() alone, so that the above holds
\* of the bench whatever it reads and writes and however long it waits.
THEOREM BusKeepsClocks == Spec => ClockSpec
<1>1. Init => ClockInit
  BY DEF Init
<1>2. [Next]_vars => [Tick]_clockVars
  <2> SUFFICES ASSUME [Next]_vars PROVE [Tick]_clockVars
    OBVIOUS
  <2>1. CASE Wait
    BY <2>1 DEF Wait, Clocked
  <2>2. CASE Call
    BY <2>2 DEF Call
  <2>3. CASE OneAccess
    BY <2>3 DEF OneAccess, OneStall, OneSent, WriteWaited, WriteHeld, ReadWaited, Aside
  <2>4. CASE Burst
    BY <2>4 DEF Burst, ReadIdle, ReadNext, ReadCollect, ReadCollected, ReadDone, WriteStall,
       WriteStalled, WriteTaken, WriteCollect, WriteCollected, WriteDone, Aside
  <2>5. CASE Ticking
    BY <2>5 DEF Ticking, Clocked
  <2>6. CASE Return
    BY <2>6 DEF Return
  <2>7. CASE UNCHANGED vars
    BY <2>7 DEF vars
  <2> QED BY <2>1, <2>2, <2>3, <2>4, <2>5, <2>6, <2>7 DEF Next, InCall
<1> QED BY <1>1, <1>2, PTL DEF Spec, ClockSpec

-----------------------------------------------------------------------------
(* The bus functions *)

\* Where TICK is, and the clock; after a TICK the clock is low.
TickInv ==
  /\ ticking \in {"up", "down", "no"}
  /\ ticking = "up" => ~i_clk["clk"]
  /\ ticking = "down" => i_clk["clk"]
  /\ ticking = "no" /\ pc \in {"sent", "held", "taken", "stalled", "collect", "collected"}
       => ~i_clk["clk"]

\* The slave has nothing to answer outside of calls and at their end.
IdleInv ==
  /\ pc = "none" <=> fn = "none"
  /\ pc \in {"none", "idle"} => ticking = "no"
  /\ pc \in {"none", "idle", "collect", "collected", "return"} => ~i_wb_stb
  /\ pc \in {"none", "idle"} \/ (pc = "return" /\ ticking # "up")
       => ~o_wb_ack /\ ~known_cmd

BusInv == TickInv /\ IdleInv

LEMMA BusInvInit == Init => BusInv
BY DEF Init, ClockInit, BusInv, TickInv, IdleInv, Clocks

\* A tick() in a TICK, or outside of the bus functions.
LEMMA BusInvTick ==
  ASSUME BusInv, Wait \/ Ticking
  PROVE  BusInv'
<1>1. CASE Wait
  <2>1. pc = "none" /\ ticking = "no" /\ ~i_wb_stb /\ ~o_wb_ack /\ ~known_cmd
    BY <1>1 DEF Wait, BusInv, IdleInv
  <2>2. ~o_wb_ack' /\ ~known_cmd'
    BY <1>1, <2>1 DEF Wait, Clocked, Slave, Accepts, slaveVars
  <2> QED BY <1>1, <2>1, <2>2 DEF Wait, BusInv, TickInv, IdleInv, busVars, callVars
<1>2. CASE Ticking
  <2>1. pc' = pc /\ fn' = fn /\ i_wb_stb' = i_wb_stb
    BY <1>2 DEF Ticking, busVars, callVars
  <2>2. CASE ticking = "up"
    <3>1. ticking' = IF i_clk'["clk"] THEN "down" ELSE "up"
      BY <1>2, <2>2 DEF Ticking, TickClk
    <3>2. CASE i_clk'["clk"]
      <4>1. Rises("clk")
        BY <2>2, <3>2 DEF BusInv, TickInv, Rises
      <4>2. ~i_wb_stb => ~o_wb_ack' /\ ~known_cmd'
        BY <1>2, <4>1 DEF Ticking, Clocked, Slave, Accepts
      <4> QED BY <2>1, <2>2, <3>1, <3>2, <4>2 DEF BusInv, TickInv, IdleInv
    <3>3. CASE ~i_clk'["clk"]
      BY <2>1, <2>2, <3>1, <3>3 DEF BusInv, TickInv, IdleInv
    <3> QED BY <3>2, <3>3
  <2>3. CASE ticking = "down"
    <3>1. o_wb_ack' = o_wb_ack /\ known_cmd' = known_cmd
      BY <1>2, <2>3 DEF Ticking, Clocked, BusInv, TickInv, Rises, slaveVars
    <3>2. ticking' = IF i_clk'["clk"] THEN "down" ELSE "no"
      BY <1>2, <2>3 DEF Ticking, TickClk
    <3> QED BY <2>1, <2>3, <3>1, <3>2 DEF BusInv, TickInv, IdleInv
  <2> QED BY <1>2, <2>2, <2>3 DEF Ticking, BusInv, TickInv
<1> QED BY <1>1, <1>2

LEMMA BusInvCall ==
  ASSUME BusInv, Call \/ Return
  PROVE  BusInv'
<1>1. CASE Call
  <2>1. /\ pc = "none" /\ ticking = "no" /\ ~o_wb_ack /\ ~known_cmd
        /\ ticking' = "no" /\ ~o_wb_ack' /\ ~known_cmd'
    BY <1>1 DEF Call, BusInv, IdleInv, slaveVars
  <2>2. PICK f \in Fns : /\ fn' = f /\ i_wb_stb' = (f # "burst_read")
                         /\ pc' = IF f = "burst_read" THEN "idle" ELSE "stall"
    BY <1>1 DEF Call
  <2> QED BY <2>1, <2>2 DEF BusInv, TickInv, IdleInv, Fns
<1>2. CASE Return
  BY <1>2 DEF Return, Running, Fns, BusInv, TickInv, IdleInv, busVars, slaveVars
<1> QED BY <1>1, <1>2

\* The code between two TICKs.
LEMMA BusInvCode ==
  ASSUME BusInv, OneAccess \/ Burst
  PROVE  BusInv'
<1>1. i_clk' = i_clk /\ o_wb_ack' = o_wb_ack /\ known_cmd' = known_cmd /\ fn' = fn
  BY DEF OneAccess, OneStall, OneSent, WriteWaited, WriteHeld, ReadWaited, Burst, ReadIdle,
     ReadNext, ReadCollect, ReadCollected, ReadDone, WriteStall, WriteStalled, WriteTaken,
     WriteCollect, WriteCollected, WriteDone, Aside, clockVars, slaveVars, callVars
<1>2. CASE OneAccess
  BY <1>1, <1>2 DEF OneAccess, OneStall, OneSent, WriteWaited, WriteHeld, ReadWaited, Single,
     Running, TickThen, Release, DropStb, busVars, BusInv, TickInv, IdleInv
<1>3. CASE ReadIdle
  BY <1>1, <1>3 DEF ReadIdle, Running, TickThen, o_wb_stall, busVars, BusInv, TickInv, IdleInv
<1>4. CASE ReadNext
  BY <1>1, <1>4 DEF ReadNext, TickThen, BusInv, TickInv, IdleInv
<1>5. CASE ReadCollect \/ ReadCollected \/ ReadDone
  BY <1>1, <1>5 DEF ReadCollect, ReadCollected, ReadDone, Running, TickThen, busVars, BusInv,
     TickInv, IdleInv
<1>6. CASE WriteStall \/ WriteStalled \/ WriteCollect \/ WriteCollected \/ WriteDone
  BY <1>1, <1>6 DEF WriteStall, WriteStalled, WriteCollect, WriteCollected, WriteDone,
     Running, TickThen, Release, busVars, BusInv, TickInv, IdleInv
<1>7. CASE WriteTaken
  BY <1>1, <1>7 DEF WriteTaken, Running, BusInv, TickInv, IdleInv
<1> QED BY <1>2, <1>3, <1>4, <1>5, <1>6, <1>7 DEF Burst

LEMMA BusInvStep == BusInv /\ [Next]_vars => BusInv'
<1> SUFFICES ASSUME BusInv, [Next]_vars PROVE BusInv'
  OBVIOUS
<1>1. CASE UNCHANGED vars
  BY <1>1 DEF vars, clockVars, slaveVars, busVars, callVars, BusInv, TickInv, IdleInv
<1>2. CASE Next
  BY <1>2, BusInvTick, BusInvCall, BusInvCode DEF Next, InCall
<1> QED BY <1>1, <1>2

\* The assertions that close the bus functions hold of every call, at
\* whatever phase of the clocks it is made and whatever the slave answers.
THEOREM BusEndsIdle == Spec => []BusLeftIdle
<1>1. BusInv => BusLeftIdle
  BY DEF BusInv, IdleInv, BusLeftIdle, Returning, o_wb_stall
<1> QED BY <1>1, BusInvInit, BusInvStep, PTL DEF Spec


-----------------------------------------------------------------------------
\* The counters of a call.
CountInv == len \in Nat /\ cnt \in Nat /\ nacks \in Nat /\ errcount \in Nat

\* wb_read(a), wb_write(a, v): the word is taken by the first TICK.
SingleInv ==
  /\ pc = "stall" => ticking = "no" /\ ~i_clk["clk"] /\ i_wb_stb /\ ~known_cmd /\ errcount = 0
  /\ pc = "sent"  => /\ errcount = 0
                     /\ IF ticking = "up" THEN i_wb_stb /\ ~known_cmd ELSE o_wb_ack
  /\ pc = "held"  => errcount = 1

\* The burst write: every word but the one on the bus is answered; a stall
\* lasts one TICK.
WriteInv ==
  /\ pc \in {"stall", "stalled", "taken"} => i_wb_stb /\ nacks = cnt /\ cnt < len
  /\ pc = "stall"   => ticking = "no" /\ ~i_clk["clk"] /\ (known_cmd => errcount = 0)
  /\ pc = "stalled" => IF ticking = "up" THEN known_cmd ELSE ~known_cmd /\ ~o_wb_ack
  /\ pc = "taken"   => IF ticking = "up" THEN ~known_cmd ELSE o_wb_ack
  /\ pc = "collect" => nacks = len /\ errcount = 0
  /\ pc # "collected"

\* The burst read: the same, and the slave never stalls.
ReadInv ==
  /\ pc = "idle"    => /\ ~i_clk["clk"] /\ ~i_wb_we /\ errcount = 0
                       /\ nacks = 0 /\ cnt = 0 /\ len > 0
  /\ pc = "taken"   => /\ i_wb_stb /\ ~i_wb_we /\ ~known_cmd
                       /\ nacks = cnt /\ errcount = cnt /\ cnt < len
                       /\ ticking # "up" => o_wb_ack
  /\ pc = "collect" => ticking = "no" /\ nacks = len /\ errcount < len /\ o_wb_ack
  /\ pc \notin {"stalled", "collected"}

LowInv == /\ CountInv
          /\ low => /\ fn \in Single        => SingleInv
                    /\ fn = "burst_write" => WriteInv
                    /\ fn = "burst_read"  => ReadInv

LEMMA LowInvInit == Init => LowInv
BY DEF Init, LowInv, CountInv, Single

LEMMA LowInvTick ==
  ASSUME BusInv, LowInv, Wait \/ Ticking
  PROVE  LowInv'
<1>1. CASE Wait
  BY <1>1 DEF Wait, callVars, loopVars, LowInv, CountInv, Single
<1>2. CASE Ticking
  <2>1. /\ pc' = pc /\ fn' = fn /\ low' = low /\ i_wb_stb' = i_wb_stb /\ i_wb_we' = i_wb_we
        /\ len' = len /\ cnt' = cnt /\ nacks' = nacks /\ errcount' = errcount
    BY <1>2 DEF Ticking, busVars, callVars, loopVars
  <2>2. pc # "idle" /\ (low => ~(fn \in Single \cup {"burst_write"} /\ pc = "stall"))
    BY <1>2 DEF Ticking, BusInv, IdleInv, LowInv, SingleInv, WriteInv, Single
  <2>3. CASE ticking = "up"
    <3>1. ticking' = IF i_clk'["clk"] THEN "down" ELSE "up"
      BY <1>2, <2>3 DEF Ticking, TickClk
    <3>2. CASE i_clk'["clk"]
      <4>1. Rises("clk")
        BY <2>3, <3>2 DEF BusInv, TickInv, Rises
      <4>2. Slave
        BY <1>2, <4>1 DEF Ticking, Clocked
      <4>3. /\ i_wb_stb /\ ~known_cmd => o_wb_ack'
            /\ known_cmd => ~o_wb_ack' /\ ~known_cmd'
            /\ ~i_wb_we => ~known_cmd'
        BY <4>2 DEF Slave, Accepts, o_wb_stall
      <4>4. low /\ fn \in Single => SingleInv'
        BY <2>1, <2>2, <2>3, <3>1, <3>2, <4>3 DEF LowInv, SingleInv
      <4>5. low /\ fn = "burst_write" => WriteInv'
        BY <2>1, <2>2, <2>3, <3>1, <3>2, <4>3 DEF LowInv, WriteInv
      <4>6. low /\ fn = "burst_read" => ReadInv'
        <5>1. pc # "collect" \/ fn # "burst_read" \/ ~low
          BY <2>3 DEF LowInv, ReadInv
        <5> QED BY <2>1, <2>2, <2>3, <3>1, <3>2, <4>3, <5>1 DEF LowInv, ReadInv
      <4> QED BY <2>1, <4>4, <4>5, <4>6 DEF LowInv, CountInv
    <3>3. CASE ~i_clk'["clk"]
      <4>1. o_wb_ack' = o_wb_ack /\ known_cmd' = known_cmd
        BY <1>2, <3>3 DEF Ticking, Clocked, Rises, slaveVars
      <4> QED BY <2>1, <2>2, <2>3, <3>1, <3>3, <4>1
              DEF LowInv, CountInv, SingleInv, WriteInv, ReadInv
    <3> QED BY <3>2, <3>3
  <2>4. CASE ticking = "down"
    <3>1. o_wb_ack' = o_wb_ack /\ known_cmd' = known_cmd
      BY <1>2, <2>4 DEF Ticking, Clocked, BusInv, TickInv, Rises, slaveVars
    <3>2. ticking' \in {"down", "no"}
      BY <1>2, <2>4 DEF Ticking, TickClk
    <3> QED BY <2>1, <2>2, <2>4, <3>1, <3>2 DEF LowInv, CountInv, SingleInv, WriteInv, ReadInv
  <2> QED BY <1>2, <2>3, <2>4 DEF Ticking, BusInv, TickInv
<1> QED BY <1>1, <1>2


LEMMA LowInvCall ==
  ASSUME BusInv, LowInv, Call \/ Return
  PROVE  LowInv'
<1>1. CASE Call
  <2>1. /\ ticking = "no" /\ ticking' = "no" /\ ~known_cmd /\ ~known_cmd'
        /\ low' = ~i_clk["clk"] /\ i_clk' = i_clk
        /\ errcount' = 0 /\ cnt' = 0 /\ nacks' = 0
    BY <1>1 DEF Call, BusInv, IdleInv, slaveVars, clockVars
  <2>2. PICK f \in Fns : /\ fn' = f /\ i_wb_stb' = (f # "burst_read")
                         /\ i_wb_we' = (f \in {"write", "burst_write"})
                         /\ pc' = IF f = "burst_read" THEN "idle" ELSE "stall"
                         /\ len' \in (IF f \in {"read", "write"} THEN {1} ELSE Lens)
    BY <1>1 DEF Call
  <2>3. len' \in Nat /\ len' > 0
    BY <2>2, BusAssumption
  <2> QED BY <2>1, <2>2, <2>3
          DEF Fns, LowInv, CountInv, Single, SingleInv, WriteInv, ReadInv
<1>2. CASE Return
  BY <1>2 DEF Return, LowInv, CountInv, Single
<1> QED BY <1>1, <1>2

\* The limit of a burst is not below its length.
LEMMA BurstLimit ==
  ASSUME len \in Nat
  PROVE  THISBOMBCOUNT \in Nat /\ THISBOMBCOUNT >= len
BY BusAssumption DEF THISBOMBCOUNT

\* The code between two TICKs.
LEMMA LowInvCode ==
  ASSUME BusInv, LowInv, OneAccess \/ Burst
  PROVE  LowInv'
<1> USE DEF Single
<1>1. /\ i_clk' = i_clk /\ o_wb_ack' = o_wb_ack /\ known_cmd' = known_cmd
      /\ fn' = fn /\ len' = len /\ low' = low
  BY DEF OneAccess, OneStall, OneSent, WriteWaited, WriteHeld, ReadWaited, Burst, ReadIdle,
     ReadNext, ReadCollect, ReadCollected, ReadDone, WriteStall, WriteStalled, WriteTaken,
     WriteCollect, WriteCollected, WriteDone, Aside, clockVars, slaveVars, callVars
<1>2. CountInv'
  BY <1>1 DEF LowInv, CountInv, OneAccess, OneStall, OneSent, WriteWaited, WriteHeld,
     ReadWaited, Burst, ReadIdle, ReadNext, Collect, ReadCollect, ReadCollected, ReadDone,
     WriteStall, WriteStalled, WriteTaken, CountAck, WriteCollect, WriteCollected, WriteDone,
     loopVars
<1>3. ASSUME low, fn \in Single, OneAccess PROVE SingleInv'
  BY <1>1, <1>3, BusAssumption DEF LowInv, SingleInv, OneAccess, OneStall, OneSent,
     WriteWaited, WriteHeld, ReadWaited, Running, TickThen, loopVars, busVars, BusInv, TickInv,
     o_wb_stall
<1>4. ASSUME low, fn = "burst_write", Burst PROVE WriteInv'
  <2>1. WriteInv /\ CountInv
    BY <1>4 DEF LowInv
  <2>2. CASE WriteStall
    BY <1>1, <2>1, <2>2, BusAssumption DEF WriteStall, WriteInv, CountInv, Running, TickThen,
       busVars, o_wb_stall
  <2>3. CASE WriteStalled
    BY <1>1, <2>1, <2>3 DEF WriteStalled, CountAck, WriteInv, CountInv, Running, BusInv,
       TickInv, busVars
  <2>4. CASE WriteTaken
    <3>1. ticking = "no" /\ ticking' = "no" /\ o_wb_ack /\ ~i_clk["clk"] /\ cnt < len
      BY <2>1, <2>4 DEF WriteTaken, Running, WriteInv, BusInv, TickInv
    <3>2. nacks' = cnt' /\ cnt' = cnt + 1 /\ errcount' = 0
      BY <2>1, <2>4, <3>1 DEF WriteTaken, Running, CountAck, WriteInv
    <3>3. cnt' < len => i_wb_stb' /\ pc' = "stall"
      BY <2>4, Zenon DEF WriteTaken
    <3>4. ~(cnt' < len) => pc' = "collect" /\ nacks' = len
      BY <2>1, <2>4, <3>1, <3>2 DEF WriteTaken, CountInv
    <3> QED BY <1>1, <3>1, <3>2, <3>3, <3>4 DEF WriteInv
  <2>5. CASE WriteDone
    BY <2>5 DEF WriteDone, TickThen, WriteInv
  <2>6. ~WriteCollect /\ ~WriteCollected
    BY <2>1 DEF WriteCollect, WriteCollected, Running, WriteInv, CountInv
  <2> QED BY <1>4, <2>2, <2>3, <2>4, <2>5, <2>6 DEF Burst, ReadIdle, ReadNext, ReadCollect,
             ReadCollected, ReadDone, Running
<1>5. ASSUME low, fn = "burst_read", Burst PROVE ReadInv'
  <2>1. ReadInv /\ CountInv
    BY <1>5 DEF LowInv
  <2>2. CASE ReadIdle
    <3>1. ~known_cmd /\ ~i_clk["clk"]
      BY <2>1, <2>2 DEF ReadIdle, Running, BusInv, IdleInv, ReadInv
    <3> QED BY <1>1, <2>1, <2>2, <3>1 DEF ReadIdle, ReadInv, Running, TickThen, o_wb_stall
  <2>3. CASE ReadNext
    <3>1. pc = "taken" /\ ticking = "no" /\ o_wb_ack /\ ~known_cmd /\ ~i_clk["clk"]
      BY <2>1, <2>3 DEF ReadNext, ReadInv, BusInv, TickInv
    <3>2. nacks' = nacks + 1 /\ cnt' = cnt + 1
      BY <2>3, <3>1 DEF ReadNext, Collect
    <3>3. errcount < THISBOMBCOUNT
      BY <2>1, <3>1, BurstLimit DEF ReadInv, CountInv
    <3>4. CASE cnt' < len
      BY <1>1, <2>1, <2>3, <3>1, <3>2, <3>3, <3>4 DEF ReadNext, ReadInv, CountInv, TickThen,
         o_wb_stall
    <3>5. CASE ~(cnt' < len)
      BY <1>1, <2>1, <2>3, <3>1, <3>2, <3>5 DEF ReadNext, ReadInv, CountInv
    <3> QED BY <3>4, <3>5
  <2>4. CASE ReadDone
    BY <2>4 DEF ReadDone, TickThen, ReadInv
  <2>5. ~ReadCollect /\ ~ReadCollected
    BY <2>1 DEF ReadCollect, ReadCollected, Running, ReadInv, CountInv
  <2> QED BY <1>5, <2>2, <2>3, <2>4, <2>5 DEF Burst, WriteStall, WriteStalled, WriteTaken,
             WriteCollect, WriteCollected, WriteDone, Running
<1>6. OneAccess => fn \in Single
  BY DEF OneAccess, OneStall, OneSent, WriteWaited, WriteHeld, ReadWaited, Running
<1>7. Burst => fn \in {"burst_read", "burst_write"}
  BY DEF Burst, ReadIdle, ReadNext, ReadCollect, ReadCollected, ReadDone, WriteStall,
     WriteStalled, WriteTaken, WriteCollect, WriteCollected, WriteDone, Running
<1> QED BY <1>1, <1>2, <1>3, <1>4, <1>5, <1>6, <1>7 DEF LowInv

LEMMA LowInvStep == BusInv /\ LowInv /\ [Next]_vars => LowInv'
<1> SUFFICES ASSUME BusInv, LowInv, [Next]_vars PROVE LowInv'
  OBVIOUS
<1>1. CASE UNCHANGED vars
  BY <1>1 DEF vars, clockVars, slaveVars, busVars, callVars, loopVars, LowInv, CountInv,
     SingleInv, WriteInv, ReadInv
<1>2. CASE Next
  BY <1>2, LowInvTick, LowInvCall, LowInvCode DEF Next, InCall
<1> QED BY <1>1, <1>2

\* No step of a call that began with the bus clock low sets m_bomb.
LEMMA LowNeverBombs ==
  ASSUME BusInv, LowInv, [Next]_vars, BOMBCOUNT >= 2
  PROVE  m_bomb' /\ ~m_bomb => ~low
<1> SUFFICES ASSUME m_bomb', ~m_bomb, low PROVE FALSE
  OBVIOUS
<1> USE DEF Single
<1>1. WriteHeld \/ ReadWaited \/ ReadIdle \/ ReadDone \/ WriteDone
  BY DEF vars, Next, InCall, Wait, Call, Ticking, Return, OneAccess, OneStall, OneSent,
     WriteWaited, Burst, ReadNext, ReadCollect, ReadCollected, WriteStall, WriteStalled,
     WriteTaken, WriteCollect, WriteCollected
<1>2. CASE WriteHeld
  <2>1. errcount >= BOMBCOUNT
    BY <1>2, Zenon DEF WriteHeld
  <2>2. errcount = 1
    BY <1>2 DEF WriteHeld, Running, LowInv, SingleInv
  <2> QED BY <2>1, <2>2, BusAssumption
<1>3. CASE ReadWaited
  <2>1. errcount' >= BOMBCOUNT \/ ~o_wb_ack
    BY <1>3, Zenon DEF ReadWaited
  <2>2. o_wb_ack /\ errcount' = 1
    BY <1>3 DEF ReadWaited, Running, LowInv, SingleInv
  <2> QED BY <2>1, <2>2, BusAssumption
<1>4. CASE ReadIdle
  <2>1. ~known_cmd /\ errcount = 0
    BY <1>4 DEF ReadIdle, Running, LowInv, ReadInv, BusInv, IdleInv
  <2>2. ~(errcount + 1 >= BOMBCOUNT)
    BY <2>1, BusAssumption
  <2>3. UNCHANGED m_bomb
    BY <1>4, <2>1, <2>2, Zenon DEF ReadIdle, o_wb_stall
  <2> QED BY <2>3, Zenon
<1>5. CASE ReadDone
  <2>1. CountInv /\ o_wb_ack /\ nacks = len /\ errcount < len
    BY <1>5 DEF ReadDone, Running, LowInv, ReadInv
  <2>2. errcount' = errcount
    BY <1>5, <2>1 DEF ReadDone, CountInv
  <2>3. errcount' >= THISBOMBCOUNT
    BY <1>5, <2>1, Zenon DEF ReadDone
  <2> QED BY <2>1, <2>2, <2>3, BurstLimit DEF CountInv
<1>6. CASE WriteDone
  <2>1. nacks = len /\ errcount = 0 /\ CountInv
    BY <1>6 DEF WriteDone, Running, LowInv, WriteInv
  <2>2. errcount' = 0
    BY <1>6, <2>1 DEF WriteDone, CountInv
  <2>3. errcount' >= BOMBCOUNT
    BY <1>6, Zenon DEF WriteDone
  <2> QED BY <2>2, <2>3, BusAssumption
<1> QED BY <1>1, <1>2, <1>3, <1>4, <1>5, <1>6

\* The bus functions bomb only in a call that found the bus clock high.  With
\* BOMBCOUNT = 1 this fails: the burst read counts the test of o_wb_stall that
\* ends its wait for the bus, and would give up at once on an idle slave.
THEOREM BombsOnlyFromHigh ==
  ASSUME BOMBCOUNT >= 2
  PROVE  Spec => BombOnlyFromHigh
<1>1. BusInv /\ LowInv /\ [Next]_vars => (m_bomb' /\ ~m_bomb => ~low)
  BY LowNeverBombs
<1>2. BusInv /\ LowInv /\ [Next]_vars => [m_bomb' /\ ~m_bomb => ~low]_vars
  BY <1>1
<1> QED BY <1>2, BusInvInit, BusInvStep, LowInvInit, LowInvStep, PTL DEF Spec, BombOnlyFromHigh

-----------------------------------------------------------------------------
(***************************************************************************)
(* What a call has moved: the addresses the slave accepted, and what a     *)
(* read returns.                                                           *)
(***************************************************************************)
FlagsInv == /\ i_wb_cyc \in BOOLEAN /\ i_wb_stb \in BOOLEAN /\ i_wb_we \in BOOLEAN
            /\ o_wb_ack \in BOOLEAN /\ known_cmd \in BOOLEAN
            /\ m_bomb \in BOOLEAN /\ low \in BOOLEAN

\* A call stays at the addresses it was made for, and leaves nothing behind.
PlaceInv ==
  /\ o_wb_data \in Reached /\ i_wb_addr \in Reached
  /\ fn = "none" => /\ len = 0 /\ cnt = 0 /\ nacks = 0 /\ errcount = 0 /\ first = 0
                    /\ buf = << >> /\ accepted = << >>
  /\ fn # "none" => /\ fn \in Fns /\ first \in Addrs
                    /\ len \in (IF fn \in Single THEN {1} ELSE Lens)
                    /\ i_wb_addr = first + cnt
                    /\ cnt <= len /\ (i_wb_stb => cnt < len)

\* A single access begun with the bus clock low is accepted by its first
\* TICK; one begun with the clock high never is, and waits until it bombs.
OneInv ==
  /\ pc \in {"stall", "sent", "held", "return"} /\ (pc = "held" => fn = "write")
  /\ cnt = 0 /\ nacks = 0
  /\ fn = "read" /\ pc = "return" => /\ \E d \in Reached : buf = <<d>>
                                     /\ low => buf = <<first>>
  /\ ~(fn = "read" /\ pc = "return") => buf = << >>
  /\ pc = "stall" => /\ ticking = "no" /\ ~o_wb_ack /\ ~known_cmd /\ errcount = 0
                     /\ accepted = << >> /\ low = ~i_clk["clk"]
  /\ low /\ pc # "stall" => IF pc = "sent" /\ ticking = "up" THEN accepted = << >>
                            ELSE accepted = <<first>>
  /\ low /\ pc = "sent" /\ ticking # "up" => o_wb_data = first
  /\ pc = "sent" => errcount <= BOMBCOUNT
  /\ pc \in {"held", "return"} => errcount <= BOMBCOUNT + 1
  /\ ~low => /\ accepted = << >>
             /\ pc = "sent" => ~o_wb_ack /\ (ticking = "up" => ~i_wb_stb)
             /\ pc = "held" => errcount >= BOMBCOUNT
             /\ pc = "return" => m_bomb
  /\ pc = "held" => ~i_wb_stb

\* The words a burst takes for sent, the one of a running TICK counting from
\* its rising edge, and whether an acknowledgement is yet to be counted.
Counted == IF pc = "taken" /\ ticking # "up" THEN cnt + 1 ELSE cnt
Pending == o_wb_ack /\ ticking # "up" /\ pc \in {"taken", "stalled", "collected"}

\* Each word accepted is answered.  A burst begun with the clock low misses no
\* word, one begun with the clock high misses the first, and so bombs.
AnsweredInv ==
  /\ accepted \in Seq(Int)
  /\ \A i \in 1 .. Len(accepted) : first <= accepted[i] /\ accepted[i] < first + len
  /\ Len(accepted) = IF Pending THEN nacks + 1 ELSE nacks
  /\ Counted <= len

MissedInv ==
  /\ low  => /\ Len(accepted) = Counted
             /\ \A i \in 1 .. Len(accepted) : accepted[i] = first + i - 1
  /\ ~low => /\ Len(accepted) = 0 \/ Len(accepted) < Counted
             /\ pc \in {"stall", "idle"} /\ cnt = 0 =>
                  i_clk["clk"] /\ ~known_cmd /\ ~o_wb_ack /\ ticking = "no"
             /\ pc = "stalled" \/ (pc = "taken" /\ ticking = "up") => cnt > 0
  /\ pc \in {"collect", "collected"} => cnt > 0
  /\ pc = "stalled" /\ ticking = "up" => known_cmd
  /\ pc = "return" => /\ errcount <= THISBOMBCOUNT + 1
                      /\ m_bomb \/ (low /\ Len(accepted) = len)

BurstReadInv ==
  /\ pc \in {"idle", "taken", "collect", "collected", "return"}
  /\ ~i_wb_we /\ ~known_cmd
  /\ buf \in Seq(Int) /\ accepted = IF Pending THEN Append(buf, o_wb_data) ELSE buf
  /\ pc = "idle" => errcount = 0 /\ cnt = 0 /\ nacks = 0
  /\ pc = "taken" => errcount = cnt /\ i_wb_stb
  /\ pc \in {"collect", "collected"} => errcount <= THISBOMBCOUNT

BurstWriteInv ==
  /\ pc \in {"stall", "stalled", "taken", "collect", "collected", "return"}
  /\ buf = << >>
  /\ pc = "stall" => ticking = "no" /\ (cnt > 0 => ~i_clk["clk"])
  /\ pc \in {"stall", "stalled", "taken"} => i_wb_stb
  /\ pc \in {"stall", "stalled", "collect", "collected"} => errcount <= BOMBCOUNT
  /\ pc = "taken" => errcount <= BOMBCOUNT + 1

DataInv == /\ FlagsInv /\ PlaceInv
           /\ fn \in Single => OneInv
           /\ fn \in {"burst_read", "burst_write"} => AnsweredInv /\ MissedInv
           /\ fn = "burst_read" => BurstReadInv
           /\ fn = "burst_write" => BurstWriteInv

-----------------------------------------------------------------------------
\* The greatest address and the greatest length exist.
LEMMA Greatest ==
  /\ Max(Addrs) \in Nat /\ \A x \in Addrs : x <= Max(Addrs)
  /\ MaxLen \in Nat /\ MaxLen >= 1 /\ \A x \in Lens : x <= MaxLen
<1>1. Max(Addrs) \in Addrs /\ \A x \in Addrs : Max(Addrs) >= x
  BY RangeAssumption DEF Max
<1>2. MaxLen \in Lens \cup {1} /\ \A x \in Lens \cup {1} : MaxLen >= x
  BY RangeAssumption DEF MaxLen, Max
<1>3. MaxLen \in Nat /\ MaxLen >= 1
  <2>1. Lens \cup {1} \subseteq Nat /\ 1 \in Lens \cup {1}
    BY BusAssumption
  <2> QED BY <1>2, <2>1
<1>4. Max(Addrs) \in Nat
  BY <1>1, BusAssumption, Zenon
<1>5. \A x \in Addrs : x \in Nat
  BY BusAssumption
<1>6. \A x \in Lens : x \in Nat
  BY BusAssumption
<1>7. \A x \in Addrs : x <= Max(Addrs)
  BY <1>1, <1>4, <1>5
<1>8. \A x \in Lens : x <= MaxLen
  BY <1>2, <1>3, <1>6
<1> QED BY <1>3, <1>4, <1>7, <1>8

\* A call's addresses are among those that can be reached.
LEMMA WithinReached ==
  /\ 0 \in Reached /\ Addrs \subseteq Reached
  /\ \A f \in Addrs, l \in Lens \cup {1}, x \in Int : f <= x /\ x <= f + l => x \in Reached
<1>1. 0 \in Reached
  BY Greatest DEF Reached
<1>2. ASSUME NEW f \in Addrs, NEW l \in Lens \cup {1}, NEW x \in Int, f <= x, x <= f + l
      PROVE  x \in Reached
  <2>1. f \in Nat /\ f <= Max(Addrs) /\ l \in Nat /\ l <= MaxLen
    BY Greatest, BusAssumption
  <2>2. x <= Max(Addrs) + MaxLen /\ 0 <= x
    BY <1>2, <2>1, Greatest
  <2> QED BY <2>2 DEF Reached
<1>3. ASSUME NEW f \in Addrs PROVE f \in Reached
  <2>1. f \in Nat BY BusAssumption
  <2> QED BY <1>2, <2>1
<1> QED BY <1>1, <1>2, <1>3

LEMMA DataInvInit == Init => DataInv
BY WithinReached DEF Init, DataInv, FlagsInv, PlaceInv, Single

\* What a tick() of a TICK does: at the rising edge of the bus clock the slave
\* looks at the bus.
LEMMA TickOfCall ==
  ASSUME BusInv, Ticking, FlagsInv
  PROVE  /\ fn # "none" /\ pc' = pc /\ m_bomb' = m_bomb /\ UNCHANGED <<fn, len, first, low>>
         /\ UNCHANGED <<i_wb_cyc, i_wb_stb, i_wb_we, i_wb_addr>>
         /\ UNCHANGED <<errcount, cnt, nacks, buf>>
         /\ \/ /\ ticking' # "up" <=> ticking # "up"
               /\ ticking # "no"
               /\ UNCHANGED <<o_wb_ack, o_wb_data, known_cmd, accepted>>
            \/ /\ ticking = "up" /\ ticking' = "down"
               /\ o_wb_ack' = (i_wb_stb /\ ~known_cmd)
               /\ o_wb_data' = i_wb_addr
               /\ known_cmd' \in BOOLEAN
               /\ known_cmd \/ ~i_wb_we => ~known_cmd'
               /\ accepted' = IF i_wb_stb /\ ~known_cmd THEN Append(accepted, i_wb_addr)
                              ELSE accepted
<1>1. /\ pc' = pc /\ m_bomb' = m_bomb /\ UNCHANGED <<fn, len, first, low>>
      /\ UNCHANGED <<i_wb_cyc, i_wb_stb, i_wb_we, i_wb_addr>>
      /\ UNCHANGED <<errcount, cnt, nacks, buf>>
  BY DEF Ticking, busVars, callVars, loopVars
<1>2. fn # "none" /\ ticking \in {"up", "down"}
  BY DEF Ticking, BusInv, TickInv, IdleInv
<1>3. CASE ticking = "up"
  <2>1. ~i_clk["clk"]
    BY <1>3 DEF BusInv, TickInv
  <2>2. CASE i_clk'["clk"]
    <3>1. Slave
      BY <2>1, <2>2 DEF Ticking, Clocked, Rises
    <3>2. ticking' = "down"
      BY <1>3, <2>2 DEF Ticking, TickClk
    <3>3. o_wb_ack' = (i_wb_stb /\ ~known_cmd)
      BY <3>1, Zenon DEF Slave, Accepts, o_wb_stall
    <3>4. /\ o_wb_data' = i_wb_addr
          /\ accepted' = IF i_wb_stb /\ ~known_cmd THEN Append(accepted, i_wb_addr) ELSE accepted
      BY <3>1, Zenon DEF Slave, Accepts, o_wb_stall
    <3>5. known_cmd' \in BOOLEAN /\ (known_cmd \/ ~i_wb_we => ~known_cmd')
      BY <3>1, Zenon DEF Slave, Accepts, o_wb_stall
    <3> QED BY <1>1, <1>2, <1>3, <3>2, <3>3, <3>4, <3>5
  <2>3. CASE ~i_clk'["clk"]
    <3>1. UNCHANGED <<o_wb_ack, o_wb_data, known_cmd, accepted>>
      BY <2>3 DEF Ticking, Clocked, Rises, slaveVars
    <3>2. ticking' = "up"
      BY <1>3, <2>3 DEF Ticking, TickClk
    <3> QED BY <1>1, <1>2, <1>3, <3>1, <3>2
  <2> QED BY <2>2, <2>3
<1>4. CASE ticking = "down"
  <2>1. UNCHANGED <<o_wb_ack, o_wb_data, known_cmd, accepted>>
    BY <1>4 DEF Ticking, Clocked, BusInv, TickInv, Rises, slaveVars
  <2>2. ticking' # "up"
    BY <1>4 DEF Ticking, TickClk
  <2> QED BY <1>1, <1>2, <1>4, <2>1, <2>2
<1> QED BY <1>2, <1>3, <1>4

\* A tick() outside of the bus functions.
LEMMA DataInvWait ==
  ASSUME BusInv, DataInv, Wait
  PROVE  DataInv'
<1>1. fn = "none" /\ fn' = "none" /\ ~i_wb_stb
  BY DEF Wait, callVars, BusInv, IdleInv
<1>2. UNCHANGED <<i_wb_cyc, i_wb_stb, i_wb_we, i_wb_addr, len, first, low, errcount, cnt, nacks,
                  buf, m_bomb>>
  BY DEF Wait, busVars, callVars, loopVars
<1>3. /\ o_wb_data' \in {o_wb_data, i_wb_addr} /\ accepted' = accepted
      /\ o_wb_ack' \in BOOLEAN /\ known_cmd' \in BOOLEAN
  <2>1. CASE Slave
    BY <1>1, <2>1, Zenon DEF Slave, Accepts
  <2>2. CASE UNCHANGED <<slaveVars, accepted>>
    BY <2>2 DEF slaveVars, DataInv, FlagsInv
  <2> QED BY <2>1, <2>2 DEF Wait, Clocked
<1> QED BY <1>1, <1>2, <1>3 DEF DataInv, FlagsInv, PlaceInv, Single

\* A tick() in a single access.
LEMMA OneTick ==
  ASSUME BusInv, LowInv, DataInv, Ticking, fn \in Single
  PROVE  OneInv'
<1>1. OneInv /\ FlagsInv /\ i_wb_addr = first + cnt /\ first \in Nat
  BY BusAssumption DEF DataInv, PlaceInv, Single
<1>2. low => SingleInv
  BY DEF LowInv
<1>3. /\ fn' = fn /\ pc' = pc /\ m_bomb' = m_bomb /\ first' = first /\ low' = low
      /\ i_wb_stb' = i_wb_stb /\ errcount' = errcount /\ cnt' = cnt /\ nacks' = nacks
      /\ buf' = buf
  BY <1>1, TickOfCall, Zenon
<1>4. ticking # "no" /\ pc # "stall"
  BY <1>1 DEF Ticking, OneInv
<1>5. (fn = "read" /\ pc = "return" => \E d \in Reached : buf' = <<d>>)
  BY <1>1, <1>3, Zenon DEF OneInv
<1>6. CASE /\ ticking' # "up" <=> ticking # "up"
           /\ UNCHANGED <<o_wb_ack, o_wb_data, known_cmd, accepted>>
  BY <1>1, <1>3, <1>4, <1>5, <1>6 DEF OneInv
<1>7. CASE /\ ticking = "up" /\ ticking' = "down"
           /\ o_wb_ack' = (i_wb_stb /\ ~known_cmd)
           /\ o_wb_data' = i_wb_addr
           /\ accepted' = IF i_wb_stb /\ ~known_cmd THEN Append(accepted, i_wb_addr)
                          ELSE accepted
  <2>1. CASE pc = "sent" /\ low
    <3>1. i_wb_stb /\ ~known_cmd /\ accepted = << >> /\ i_wb_addr = first
      BY <1>1, <1>2, <1>7, <2>1 DEF SingleInv, OneInv
    <3>2. accepted' = <<first>> /\ o_wb_data' = first
      BY <1>7, <3>1
    <3> QED BY <1>1, <1>3, <1>7, <2>1, <3>2 DEF OneInv
  <2>2. CASE ~(pc = "sent" /\ low)
    <3>1. ~i_wb_stb
      BY <1>1, <1>4, <1>7, <2>2 DEF OneInv, BusInv, IdleInv
    <3>2. ~o_wb_ack' /\ accepted' = accepted
      BY <1>7, <3>1
    <3> QED BY <1>1, <1>3, <1>4, <1>5, <1>7, <2>2, <3>1, <3>2 DEF OneInv
  <2> QED BY <2>1, <2>2
<1> QED BY <1>1, <1>6, <1>7, TickOfCall

\* A tick() in a burst.
LEMMA BurstTick ==
  ASSUME BusInv, LowInv, DataInv, Ticking, fn \in {"burst_read", "burst_write"}
  PROVE  /\ AnsweredInv' /\ MissedInv'
         /\ fn = "burst_read" => BurstReadInv'
         /\ fn = "burst_write" => BurstWriteInv'
<1>1. /\ AnsweredInv /\ MissedInv /\ FlagsInv /\ CountInv
      /\ fn = "burst_read" => BurstReadInv
      /\ fn = "burst_write" => BurstWriteInv
  BY DEF DataInv, LowInv
<1>2. i_wb_addr = first + cnt /\ first \in Nat /\ len \in Nat /\ (i_wb_stb => cnt < len)
  BY BusAssumption DEF DataInv, PlaceInv, Single, LowInv, CountInv
<1>3. low => /\ fn = "burst_write" => WriteInv
             /\ fn = "burst_read" => ReadInv
  BY DEF LowInv
<1>4. /\ fn' = fn /\ pc' = pc /\ m_bomb' = m_bomb /\ first' = first /\ low' = low /\ len' = len
      /\ i_wb_stb' = i_wb_stb /\ errcount' = errcount /\ cnt' = cnt /\ nacks' = nacks
      /\ buf' = buf /\ i_wb_we' = i_wb_we /\ THISBOMBCOUNT' = THISBOMBCOUNT
  BY <1>1, TickOfCall, Zenon DEF THISBOMBCOUNT
<1>5. ticking # "no" /\ pc # "idle"
  BY DEF Ticking, BusInv, IdleInv
<1>6. CASE /\ ticking' # "up" <=> ticking # "up"
           /\ UNCHANGED <<o_wb_ack, o_wb_data, known_cmd, accepted>>
  <2>1. Pending' = Pending /\ Counted' = Counted
    BY <1>4, <1>6, Zenon DEF Pending, Counted
  <2>2. AnsweredInv'
    BY <1>1, <1>4, <1>6, <2>1 DEF AnsweredInv
  <2>3. MissedInv'
    BY <1>1, <1>4, <1>5, <1>6, <2>1 DEF MissedInv
  <2>4. fn = "burst_read" => BurstReadInv'
    BY <1>1, <1>4, <1>6, <2>1 DEF BurstReadInv
  <2>5. fn = "burst_write" => BurstWriteInv'
    BY <1>1, <1>4, <1>5, <1>6 DEF BurstWriteInv
  <2> QED BY <2>2, <2>3, <2>4, <2>5
<1>7. CASE /\ ticking = "up" /\ ticking' = "down"
           /\ o_wb_ack' = (i_wb_stb /\ ~known_cmd)
           /\ o_wb_data' = i_wb_addr
           /\ known_cmd \/ ~i_wb_we => ~known_cmd'
           /\ accepted' = IF i_wb_stb /\ ~known_cmd THEN Append(accepted, i_wb_addr)
                          ELSE accepted
  <2>1. ~Pending /\ Counted = cnt /\ Len(accepted) = nacks
    BY <1>1, <1>7, Zenon DEF Pending, Counted, AnsweredInv
  <2>2. CASE i_wb_stb /\ ~known_cmd
    <3>1. pc = "taken"
      BY <1>1, <1>5, <1>7, <2>2 DEF BusInv, IdleInv, MissedInv, BurstReadInv, BurstWriteInv
    <3>2. accepted' = Append(accepted, i_wb_addr) /\ o_wb_ack'
      BY <1>7, <2>2
    <3>3. /\ accepted' \in Seq(Int) /\ Len(accepted') = nacks + 1
          /\ \A i \in 1 .. Len(accepted) : accepted'[i] = accepted[i]
          /\ accepted'[nacks + 1] = first + cnt
      BY <1>1, <1>2, <2>1, <3>2, AppendProperties DEF AnsweredInv, CountInv
    <3>4. Pending' /\ Counted' = cnt + 1 /\ cnt < len
      BY <1>2, <1>4, <1>7, <2>2, <3>1, <3>2 DEF Pending, Counted
    <3>5. ASSUME NEW i \in 1 .. Len(accepted') PROVE i \in 1 .. Len(accepted) \/ i = nacks + 1
      BY <1>1, <2>1, <3>3 DEF CountInv
    <3>6. AnsweredInv'
      <4>1. ASSUME NEW i \in 1 .. Len(accepted')
            PROVE  first <= accepted'[i] /\ accepted'[i] < first + len
        <5>1. CASE i \in 1 .. Len(accepted)
          BY <1>1, <3>3, <5>1 DEF AnsweredInv
        <5>2. CASE i = nacks + 1
          <6>1. accepted'[i] = first + cnt /\ first \in Int /\ cnt \in Nat /\ len \in Nat /\ cnt < len
            BY <1>1, <1>2, <3>3, <3>4, <5>2 DEF CountInv
          <6> QED BY <6>1
        <5> QED BY <3>5, <4>1, <5>1, <5>2
      <4> QED BY <1>1, <1>2, <1>4, <3>3, <3>4, <4>1 DEF AnsweredInv, CountInv
    <3>7. MissedInv'
      <4>1. ASSUME low PROVE /\ Len(accepted') = cnt + 1
                             /\ \A i \in 1 .. Len(accepted') : accepted'[i] = first + i - 1
        BY <1>1, <1>2, <2>1, <3>3, <3>5, <4>1 DEF MissedInv, CountInv
      <4>2. ASSUME ~low PROVE Len(accepted') < cnt + 1
        BY <1>1, <1>7, <2>1, <3>1, <3>3, <4>2 DEF MissedInv, CountInv
      <4> QED BY <1>1, <1>4, <1>7, <3>1, <3>4, <4>1, <4>2 DEF MissedInv
    <3>8. fn = "burst_read" => BurstReadInv'
      BY <1>1, <1>4, <1>7, <2>1, <3>1, <3>2, <3>4 DEF BurstReadInv
    <3>9. fn = "burst_write" => BurstWriteInv'
      BY <1>1, <1>4, <1>7, <3>1 DEF BurstWriteInv
    <3> QED BY <3>6, <3>7, <3>8, <3>9
  <2>3. CASE ~(i_wb_stb /\ ~known_cmd)
    <3>1. accepted' = accepted /\ ~o_wb_ack' /\ ~Pending'
      BY <1>7, <2>3 DEF Pending
    <3>2. low => pc # "taken"
      BY <1>3, <1>7, <2>3 DEF WriteInv, ReadInv
    <3>3. Counted' = (IF pc = "taken" THEN cnt + 1 ELSE cnt)
      BY <1>4, <1>7, Zenon DEF Counted
    <3>4. pc = "taken" => cnt < len
      BY <1>1, <1>2 DEF BurstReadInv, BurstWriteInv
    <3>5. AnsweredInv'
      BY <1>1, <1>2, <1>4, <2>1, <3>1, <3>3, <3>4 DEF AnsweredInv, CountInv
    <3>6. MissedInv'
      BY <1>1, <1>4, <1>5, <1>7, <2>1, <3>1, <3>2, <3>3 DEF MissedInv, CountInv, BurstWriteInv,
         BurstReadInv
    <3>7. fn = "burst_read" => BurstReadInv'
      BY <1>1, <1>4, <1>7, <2>1, <3>1 DEF BurstReadInv
    <3>8. fn = "burst_write" => BurstWriteInv'
      BY <1>1, <1>4, <1>7 DEF BurstWriteInv
    <3> QED BY <3>5, <3>6, <3>7, <3>8
  <2> QED BY <2>2, <2>3
<1> QED BY <1>1, <1>6, <1>7, TickOfCall

LEMMA DataInvTicking ==
  ASSUME BusInv, LowInv, DataInv, Ticking
  PROVE  DataInv'
<1>1. FlagsInv /\ PlaceInv /\ fn # "none"
  BY TickOfCall DEF DataInv
<1>2. /\ fn' = fn /\ UNCHANGED <<len, first, low, m_bomb>>
      /\ UNCHANGED <<i_wb_cyc, i_wb_stb, i_wb_we, i_wb_addr>>
      /\ UNCHANGED <<errcount, cnt, nacks, buf>>
  BY <1>1, TickOfCall, Zenon
<1>3. o_wb_data' \in {o_wb_data, i_wb_addr} /\ o_wb_ack' \in BOOLEAN /\ known_cmd' \in BOOLEAN
  BY <1>1, TickOfCall, Zenon DEF FlagsInv
<1>4. FlagsInv'
  BY <1>1, <1>2, <1>3 DEF FlagsInv
<1>5. PlaceInv'
  BY <1>1, <1>2, <1>3 DEF PlaceInv
<1>6. fn \in Single => OneInv'
  BY OneTick
<1>7. fn \in {"burst_read", "burst_write"} =>
        /\ AnsweredInv' /\ MissedInv'
        /\ fn = "burst_read" => BurstReadInv'
        /\ fn = "burst_write" => BurstWriteInv'
  BY BurstTick
<1> QED BY <1>2, <1>4, <1>5, <1>6, <1>7 DEF DataInv

\* A call begins with nothing accepted, the slave being at rest.
LEMMA DataInvCall ==
  ASSUME BusInv, DataInv, Call
  PROVE  DataInv'
<1>1. /\ ticking = "no" /\ ticking' = "no" /\ ~known_cmd' /\ ~o_wb_ack'
      /\ o_wb_data' = o_wb_data /\ i_clk' = i_clk /\ m_bomb' = m_bomb
      /\ low' = ~i_clk["clk"] /\ low' \in BOOLEAN
      /\ errcount' = 0 /\ cnt' = 0 /\ nacks' = 0 /\ buf' = << >> /\ accepted' = << >>
  BY DEF Call, BusInv, IdleInv, slaveVars, clockVars
<1>2. PICK f \in Fns, r \in Addrs :
        /\ fn' = f /\ first' = r /\ i_wb_addr' = r
        /\ len' \in (IF f \in {"read", "write"} THEN {1} ELSE Lens)
        /\ i_wb_cyc' = (f # "burst_read") /\ i_wb_stb' = (f # "burst_read")
        /\ i_wb_we' = (f \in {"write", "burst_write"})
        /\ pc' = IF f = "burst_read" THEN "idle" ELSE "stall"
  BY DEF Call
<1>3. len' \in Nat /\ len' > 0 /\ r \in Nat
  BY <1>2, BusAssumption
<1>a. /\ f = "burst_read"  => pc' = "idle" /\ ~i_wb_we'
      /\ f = "burst_write" => pc' = "stall" /\ i_wb_stb'
  BY <1>2
<1>4. FlagsInv'
  <2>1. (f # "burst_read") \in BOOLEAN /\ (f \in {"write", "burst_write"}) \in BOOLEAN
    OBVIOUS
  <2>2. i_wb_cyc' \in BOOLEAN /\ i_wb_stb' \in BOOLEAN
    BY <1>2, <2>1, Zenon
  <2>3. i_wb_we' \in BOOLEAN
    BY <1>2, <2>1, Zenon
  <2>4. m_bomb' \in BOOLEAN /\ known_cmd' \in BOOLEAN /\ o_wb_ack' \in BOOLEAN
    BY DEF Call, slaveVars, FlagsInv, DataInv
  <2> QED BY <1>1, <2>2, <2>3, <2>4 DEF FlagsInv
<1>5. PlaceInv'
  BY <1>1, <1>2, <1>3, WithinReached DEF PlaceInv, DataInv, Fns, Single
<1>6. fn' \in Single => OneInv'
  <2>1. low' = ~i_clk'["clk"]
    BY <1>1, Zenon
  <2> QED BY <1>1, <1>2, <2>1 DEF OneInv, Single
<1>7. fn' \in {"burst_read", "burst_write"} => AnsweredInv' /\ MissedInv'
  <2>1. ~Pending' /\ Counted' = 0
    BY <1>1, <1>2 DEF Pending, Counted
  <2>2. Len(accepted') = 0 /\ accepted' \in Seq(Int)
    BY <1>1
  <2>3. AnsweredInv'
    BY <1>1, <1>3, <2>1, <2>2 DEF AnsweredInv
  <2>4. MissedInv'
    <3>1. pc' \in {"idle", "stall"}
      BY <1>1, <1>2
    <3>2. ~low' => i_clk'["clk"]
      BY <1>1, Zenon
    <3>3. \A i \in 1 .. Len(accepted') : accepted'[i] = first' + i - 1
      BY <2>2
    <3> QED BY <1>1, <2>1, <2>2, <3>1, <3>2, <3>3 DEF MissedInv
  <2> QED BY <2>3, <2>4
<1>8. fn' = "burst_read" => BurstReadInv'
  <2>1. SUFFICES ASSUME f = "burst_read" PROVE BurstReadInv'
    BY <1>2
  <2>2. ~Pending' /\ buf' \in Seq(Int)
    BY <1>1 DEF Pending
  <2> QED BY <1>1, <1>a, <2>1, <2>2 DEF BurstReadInv
<1>9. fn' = "burst_write" => BurstWriteInv'
  <2>1. SUFFICES ASSUME f = "burst_write" PROVE BurstWriteInv'
    BY <1>2
  <2> QED BY <1>1, <1>a, <2>1, BusAssumption DEF BurstWriteInv
<1> QED BY <1>4, <1>5, <1>6, <1>7, <1>8, <1>9 DEF DataInv

LEMMA DataInvReturn == DataInv /\ Return => DataInv'
<1> SUFFICES ASSUME DataInv, Return PROVE DataInv'
  OBVIOUS
<1>1. FlagsInv'
  BY DEF Return, busVars, slaveVars, DataInv, FlagsInv
<1>2. PlaceInv'
  BY DEF Return, busVars, slaveVars, DataInv, PlaceInv
<1> QED BY <1>1, <1>2 DEF Return, DataInv, Single

\* The code of the single accesses.
LEMMA DataInvOne ==
  ASSUME BusInv, LowInv, DataInv, OneAccess
  PROVE  DataInv'
<1>1. fn \in Single /\ OneInv /\ PlaceInv /\ FlagsInv /\ CountInv /\ ticking = "no"
  BY DEF OneAccess, OneStall, OneSent, WriteWaited, WriteHeld, ReadWaited, Running, Single,
     DataInv, LowInv
<1>2. UNCHANGED <<o_wb_ack, o_wb_data, known_cmd, fn, len, first, low, accepted, i_clk>>
  BY DEF OneAccess, OneStall, OneSent, WriteWaited, WriteHeld, ReadWaited, Aside, clockVars,
     slaveVars, callVars
<1>3. UNCHANGED <<i_wb_addr, i_wb_we, cnt, nacks>>
  BY DEF OneAccess, OneStall, OneSent, WriteWaited, WriteHeld, ReadWaited, busVars, loopVars,
     Release, DropStb
<1>4. i_wb_cyc' \in BOOLEAN /\ i_wb_stb' \in {i_wb_stb, FALSE}
  BY <1>1 DEF FlagsInv, OneAccess, OneStall, OneSent, WriteWaited, WriteHeld, ReadWaited,
     busVars, Release, DropStb
<1>5. m_bomb' \in BOOLEAN
  BY <1>1 DEF FlagsInv, OneAccess, OneStall, OneSent, WriteWaited, WriteHeld, ReadWaited
<1>6. FlagsInv'
  BY <1>1, <1>2, <1>3, <1>4, <1>5 DEF FlagsInv
<1>7. PlaceInv'
  <2>1. fn' # "none" /\ fn # "none" /\ (i_wb_stb' => i_wb_stb)
    <3>1. i_wb_stb' => i_wb_stb
      BY <1>4, Zenon
    <3> QED BY <1>1, <1>2, <3>1 DEF Single
  <2> QED BY <1>1, <1>2, <1>3, <2>1, Zenon DEF PlaceInv
<1>8. OneInv'
  <2>1. CASE OneStall
    <3>1. /\ pc = "stall" /\ ~known_cmd /\ ~o_wb_ack /\ errcount = 0 /\ accepted = << >>
          /\ low = ~i_clk["clk"]
      BY <1>1, <2>1 DEF OneStall, Running, OneInv
    <3>2. errcount' = 0 /\ pc' = "sent" /\ buf' = buf
          /\ ticking' = IF i_clk["clk"] THEN "down" ELSE "up"
      BY <2>1, <3>1 DEF OneStall, TickThen, o_wb_stall
    <3>3. low => ticking' = "up"
      BY <3>1, <3>2
    <3>4. ~low => ticking' = "down"
      BY <3>1, <3>2
    <3> QED BY <1>1, <1>2, <1>3, <3>1, <3>2, <3>3, <3>4, BusAssumption DEF OneInv
  <2>2. CASE OneSent
    <3>1. pc = "sent" /\ ~low /\ ~i_wb_stb'
      BY <1>1, <2>2 DEF OneSent, Running, LowInv, SingleInv, DropStb
    <3> QED BY <1>1, <1>2, <1>3, <2>2, <3>1, BusAssumption DEF OneInv, OneSent, TickThen,
               CountInv
  <2>3. CASE WriteWaited
    <3>1. pc = "sent" /\ errcount' = errcount + 1 /\ pc' = "held" /\ fn = "write"
          /\ buf' = buf /\ m_bomb' = m_bomb /\ ~i_wb_stb'
      BY <2>3 DEF WriteWaited, Running, TickThen, DropStb
    <3>2. ~low => errcount >= BOMBCOUNT
      BY <1>1, <2>3, <3>1 DEF WriteWaited, Waited, OneInv
    <3> QED BY <1>1, <1>2, <1>3, <3>1, <3>2, BusAssumption DEF OneInv, CountInv
  <2>4. CASE WriteHeld
    <3>1. pc = "held" /\ errcount' = errcount /\ pc' = "return" /\ fn = "write" /\ buf' = buf
      BY <2>4 DEF WriteHeld, Running, TickThen, loopVars
    <3>2. ~low => m_bomb'
      BY <1>1, <2>4, <3>1 DEF WriteHeld, OneInv
    <3> QED BY <1>1, <1>2, <1>3, <3>1, <3>2 DEF OneInv
  <2>5. CASE ReadWaited
    <3>1. /\ pc = "sent" /\ errcount' = errcount + 1 /\ pc' = "return" /\ fn = "read"
          /\ buf' = <<o_wb_data>>
      BY <2>5 DEF ReadWaited, Running, TickThen
    <3>2. ~low => m_bomb'
      BY <1>1, <2>5, <3>1 DEF ReadWaited, OneInv
    <3>3. o_wb_data \in Reached
      BY <1>1 DEF PlaceInv
    <3> QED BY <1>1, <1>2, <1>3, <3>1, <3>2, <3>3, BusAssumption DEF OneInv, CountInv
  <2> QED BY <2>1, <2>2, <2>3, <2>4, <2>5 DEF OneAccess
<1> QED BY <1>1, <1>2, <1>6, <1>7, <1>8 DEF DataInv, Single

\* What the code of the bursts leaves alone, and what it finds.
LEMMA BurstFrame ==
  ASSUME BusInv, LowInv, DataInv, Burst
  PROVE  /\ ticking = "no" /\ fn # "none" /\ pc \notin {"none"}
         /\ AnsweredInv /\ MissedInv /\ CountInv /\ CountInv'
         /\ (fn = "burst_read" /\ BurstReadInv) \/ (fn = "burst_write" /\ BurstWriteInv)
         /\ UNCHANGED <<o_wb_ack, o_wb_data, known_cmd, fn, len, first, low, accepted, i_clk,
                        i_wb_we>>
         /\ FlagsInv /\ FlagsInv'
         /\ first \in Addrs /\ first \in Nat /\ len \in Lens /\ len \in Nat /\ len > 0
         /\ i_wb_addr = first + cnt /\ cnt <= len /\ (i_wb_stb => cnt < len)
         /\ THISBOMBCOUNT' = THISBOMBCOUNT
<1>1. fn \in {"burst_read", "burst_write"} /\ ticking = "no" /\ pc # "none"
  BY DEF Burst, ReadIdle, ReadNext, ReadCollect, ReadCollected, ReadDone, WriteStall,
     WriteStalled, WriteTaken, WriteCollect, WriteCollected, WriteDone, Running
<1>2. /\ UNCHANGED <<o_wb_ack, o_wb_data, known_cmd, fn, len, first, low, accepted, i_clk>>
      /\ i_wb_we' = i_wb_we
  BY DEF Burst, ReadIdle, ReadNext, ReadCollect, ReadCollected, ReadDone, WriteStall,
     WriteStalled, WriteTaken, WriteCollect, WriteCollected, WriteDone, Aside, clockVars,
     slaveVars, callVars, busVars, Release
<1>3. AnsweredInv /\ MissedInv /\ FlagsInv /\ PlaceInv /\ CountInv
  BY <1>1 DEF DataInv, LowInv
<1>4. (fn = "burst_read" /\ BurstReadInv) \/ (fn = "burst_write" /\ BurstWriteInv)
  BY <1>1, Zenon DEF DataInv
<1>5. CountInv'
  BY LowInvCode DEF LowInv
<1>6. /\ first \in Addrs /\ first \in Nat /\ len \in Lens /\ len \in Nat /\ len > 0
      /\ i_wb_addr = first + cnt /\ cnt <= len /\ (i_wb_stb => cnt < len)
  <2>1. fn \notin Single /\ fn # "none"
    BY <1>1 DEF Single
  <2>2. first \in Addrs /\ len \in Lens
    BY <1>3, <2>1 DEF PlaceInv
  <2>3. i_wb_addr = first + cnt /\ cnt <= len /\ (i_wb_stb => cnt < len)
    BY <1>3, <2>1, Zenon DEF PlaceInv
  <2>4. first \in Nat /\ len \in Nat /\ len > 0
    BY <2>2, BusAssumption
  <2> QED BY <2>2, <2>3, <2>4
<1>7. i_wb_cyc' \in BOOLEAN /\ i_wb_stb' \in BOOLEAN
  <2>1. i_wb_cyc' \in BOOLEAN
    BY <1>3 DEF FlagsInv, Burst, ReadIdle, ReadNext, ReadCollect, ReadCollected, ReadDone,
       WriteStall, WriteStalled, WriteTaken, WriteCollect, WriteCollected, WriteDone, busVars,
       Release
  <2>2. CASE WriteTaken
    <3>1. (cnt' < len) \in BOOLEAN OBVIOUS
    <3> QED BY <2>1, <2>2, <3>1, Zenon DEF WriteTaken
  <2>3. CASE ~WriteTaken
    BY <1>3, <2>1, <2>3 DEF FlagsInv, Burst, ReadIdle, ReadNext, ReadCollect, ReadCollected,
       ReadDone, WriteStall, WriteStalled, WriteCollect, WriteCollected, WriteDone, busVars,
       Release
  <2> QED BY <2>2, <2>3
<1>8. m_bomb' \in BOOLEAN
  BY <1>3 DEF FlagsInv, Burst, ReadIdle, ReadNext, ReadCollect, ReadCollected, ReadDone,
     WriteStall, WriteStalled, WriteTaken, WriteCollect, WriteCollected, WriteDone
<1>9. FlagsInv'
  BY <1>2, <1>3, <1>7, <1>8 DEF FlagsInv
<1> QED BY <1>1, <1>2, <1>3, <1>4, <1>5, <1>6, <1>9, Zenon DEF THISBOMBCOUNT

LEMMA BurstPlace ==
  ASSUME BusInv, LowInv, DataInv, Burst,
         i_wb_addr' = first + cnt', cnt' <= len, i_wb_stb' => cnt' < len
  PROVE  PlaceInv'
<1>1. /\ first \in Addrs /\ first \in Nat /\ len \in Lens /\ len \in Nat /\ cnt' \in Nat
      /\ UNCHANGED <<o_wb_data, fn, len, first>> /\ fn # "none"
  BY BurstFrame DEF CountInv
<1>2. i_wb_addr' \in Reached
  <2>1. first \in Nat /\ len \in Nat /\ cnt' \in Nat /\ cnt' <= len
    BY <1>1
  <2>2. \A f, l, c \in Nat : c <= l => f + c \in Int /\ f <= f + c /\ f + c <= f + l
    OBVIOUS
  <2>3. first + cnt' \in Int /\ first <= first + cnt' /\ first + cnt' <= first + len
    BY <2>1, <2>2, Zenon
  <2> QED BY <1>1, <2>3, WithinReached, Zenon
<1> QED BY <1>1, <1>2, Zenon DEF DataInv, PlaceInv

BurstDataInv == /\ PlaceInv /\ AnsweredInv /\ MissedInv
                /\ fn = "burst_read" => BurstReadInv
                /\ fn = "burst_write" => BurstWriteInv

LEMMA ReadIdleData ==
  ASSUME BusInv, LowInv, DataInv, ReadIdle
  PROVE  BurstDataInv'
<1>0. Burst
  BY DEF Burst
<1>1. /\ pc = "idle" /\ fn = "burst_read" /\ errcount = 0 /\ cnt = 0 /\ nacks = 0
      /\ ~known_cmd /\ ~i_wb_we /\ ~o_wb_ack /\ ~i_wb_stb
      /\ buf \in Seq(Int) /\ accepted = buf
  BY <1>0, BurstFrame DEF ReadIdle, Running, BurstReadInv, Pending, BusInv, IdleInv
<1>2. /\ AnsweredInv /\ MissedInv /\ first \in Nat /\ len \in Nat /\ len > 0
      /\ i_wb_addr = first + cnt /\ THISBOMBCOUNT' = THISBOMBCOUNT
      /\ UNCHANGED <<o_wb_ack, o_wb_data, known_cmd, fn, len, first, low, accepted, i_clk,
                        i_wb_we>>
  BY <1>0, BurstFrame, Zenon
<1>3. cnt' = cnt /\ nacks' = nacks /\ buf' = buf
  BY DEF ReadIdle
<1>4. Len(accepted) = 0
  BY <1>1, <1>2 DEF AnsweredInv, Pending
<1>5. low <=> ~i_clk["clk"]
  <2>1. low => ~i_clk["clk"]
    BY <1>1 DEF LowInv, ReadInv
  <2>2. ~low => i_clk["clk"]
    BY <1>1, <1>2 DEF MissedInv
  <2> QED BY <2>1, <2>2
<1>6. CASE /\ errcount' = errcount + 1 /\ m_bomb' /\ pc' = "return" /\ UNCHANGED busVars
  <2>1. ~Pending' /\ Counted' = 0 /\ i_wb_addr' = i_wb_addr /\ i_wb_stb' = i_wb_stb
    BY <1>1, <1>3, <1>6 DEF Pending, Counted, busVars
  <2>2. PlaceInv'
    BY <1>0, <1>1, <1>2, <1>3, <2>1, BurstPlace
  <2>3. AnsweredInv'
    BY <1>1, <1>2, <1>3, <1>4, <2>1 DEF AnsweredInv
  <2>4. MissedInv'
    BY <1>1, <1>2, <1>4, <1>6, <2>1, BurstLimit DEF MissedInv
  <2>5. BurstReadInv'
    BY <1>1, <1>2, <1>3, <1>6, <2>1 DEF BurstReadInv
  <2> QED BY <1>1, <1>2, <2>2, <2>3, <2>4, <2>5 DEF BurstDataInv
<1>7. CASE /\ errcount' = 0 /\ i_wb_stb' = TRUE /\ i_wb_addr' = i_wb_addr
           /\ pc' = "taken" /\ ticking' = IF i_clk["clk"] THEN "down" ELSE "up"
  <2>1. ~Pending' /\ Counted' = IF low THEN 0 ELSE 1
    BY <1>1, <1>2, <1>3, <1>5, <1>7 DEF Pending, Counted
  <2>2. PlaceInv'
    BY <1>0, <1>1, <1>2, <1>3, <1>7, BurstPlace
  <2>3. AnsweredInv'
    BY <1>1, <1>2, <1>3, <1>4, <2>1 DEF AnsweredInv
  <2>4. MissedInv'
    BY <1>1, <1>2, <1>4, <1>5, <1>7, <2>1 DEF MissedInv
  <2>5. BurstReadInv'
    BY <1>1, <1>2, <1>3, <1>7, <2>1 DEF BurstReadInv
  <2> QED BY <1>1, <1>2, <2>2, <2>3, <2>4, <2>5 DEF BurstDataInv
<1> QED BY <1>1, <1>6, <1>7, Zenon DEF ReadIdle, TickThen, o_wb_stall

LEMMA ReadNextData ==
  ASSUME BusInv, LowInv, DataInv, ReadNext
  PROVE  BurstDataInv'
<1>0. Burst
  BY DEF Burst
<1>1. /\ pc = "taken" /\ fn = "burst_read" /\ errcount = cnt /\ ticking = "no"
      /\ ~known_cmd /\ ~i_wb_we /\ i_wb_stb /\ ~i_clk["clk"]
      /\ buf \in Seq(Int) /\ accepted = IF Pending THEN Append(buf, o_wb_data) ELSE buf
  BY <1>0, BurstFrame DEF ReadNext, BurstReadInv, BusInv, TickInv
<1>2. /\ AnsweredInv /\ MissedInv /\ CountInv /\ first \in Nat /\ len \in Nat /\ len > 0
      /\ i_wb_addr = first + cnt /\ cnt < len /\ THISBOMBCOUNT' = THISBOMBCOUNT
      /\ UNCHANGED <<o_wb_ack, o_wb_data, known_cmd, fn, len, first, low, accepted, i_clk,
                        i_wb_we>>
  BY <1>0, <1>1, BurstFrame, Zenon
<1>3. cnt' = cnt + 1 /\ i_wb_addr' = i_wb_addr + 1
  BY <1>1 DEF ReadNext
<1>4. (Pending <=> o_wb_ack) /\ Counted = cnt + 1
  BY <1>1 DEF Pending, Counted
<1>5. nacks' = Len(accepted) /\ buf' = accepted
  BY <1>1, <1>2, <1>4 DEF ReadNext, Collect, AnsweredInv
<1>6. THISBOMBCOUNT \in Nat /\ THISBOMBCOUNT >= len
  BY <1>2, BurstLimit
<1>7. CASE /\ cnt' < len /\ pc' = "taken" /\ ticking' = "up" /\ i_wb_stb'
           /\ errcount' = errcount + 1
  <2>1. ~Pending' /\ Counted' = cnt'
    BY <1>7 DEF Pending, Counted
  <2>2. PlaceInv'
    BY <1>0, <1>2, <1>3, <1>7, BurstPlace DEF CountInv
  <2>3. AnsweredInv'
    BY <1>2, <1>3, <1>5, <1>7, <2>1 DEF AnsweredInv, CountInv
  <2>4. MissedInv'
    BY <1>1, <1>2, <1>3, <1>4, <1>7, <2>1 DEF MissedInv, CountInv
  <2>5. BurstReadInv'
    BY <1>1, <1>2, <1>3, <1>5, <1>7, <2>1 DEF BurstReadInv, AnsweredInv
  <2> QED BY <1>1, <1>2, <2>2, <2>3, <2>4, <2>5 DEF BurstDataInv
<1>8. CASE /\ ~(cnt' < len) /\ pc' = "collect" /\ ~i_wb_stb' /\ errcount' = errcount
  <2>1. ~Pending' /\ Counted' = cnt' /\ cnt' = len
    BY <1>2, <1>3, <1>8 DEF Pending, Counted, CountInv
  <2>2. PlaceInv'
    BY <1>0, <1>2, <1>3, <1>8, <2>1, BurstPlace DEF CountInv
  <2>3. AnsweredInv'
    BY <1>2, <1>3, <1>5, <1>8, <2>1 DEF AnsweredInv, CountInv
  <2>4. MissedInv'
    BY <1>1, <1>2, <1>3, <1>4, <1>8, <2>1 DEF MissedInv, CountInv
  <2>5. BurstReadInv'
    BY <1>1, <1>2, <1>3, <1>5, <1>6, <1>8, <2>1 DEF BurstReadInv, AnsweredInv, CountInv
  <2> QED BY <1>1, <1>2, <2>2, <2>3, <2>4, <2>5 DEF BurstDataInv
<1>9. errcount < THISBOMBCOUNT
  BY <1>1, <1>2, <1>6 DEF CountInv
<1> QED BY <1>1, <1>7, <1>8, <1>9 DEF ReadNext, TickThen, o_wb_stall

LEMMA ReadCollectData ==
  ASSUME BusInv, LowInv, DataInv, ReadCollect \/ ReadCollected \/ ReadDone
  PROVE  BurstDataInv'
<1>0. Burst
  BY DEF Burst
<1>1. /\ pc \in {"collect", "collected"} /\ fn = "burst_read" /\ ticking = "no"
      /\ errcount <= THISBOMBCOUNT /\ ~known_cmd /\ ~i_wb_we /\ ~i_wb_stb /\ ~i_clk["clk"]
      /\ buf \in Seq(Int) /\ accepted = IF Pending THEN Append(buf, o_wb_data) ELSE buf
  BY <1>0, BurstFrame DEF ReadCollect, ReadCollected, ReadDone, Running, BurstReadInv, BusInv,
     TickInv, IdleInv
<1>2. /\ AnsweredInv /\ MissedInv /\ CountInv /\ first \in Nat /\ len \in Nat /\ len > 0
      /\ i_wb_addr = first + cnt /\ cnt <= len /\ THISBOMBCOUNT' = THISBOMBCOUNT
      /\ UNCHANGED <<o_wb_ack, o_wb_data, known_cmd, fn, len, first, low, accepted, i_clk,
                        i_wb_we>>
  BY <1>0, <1>1, BurstFrame, Zenon
<1>3. cnt' = cnt /\ i_wb_addr' = i_wb_addr /\ ~i_wb_stb'
  BY <1>1 DEF ReadCollect, ReadCollected, ReadDone, busVars
<1>4. PlaceInv'
  BY <1>0, <1>2, <1>3, BurstPlace
<1>5. Counted = cnt /\ (Pending <=> o_wb_ack /\ pc = "collected") /\ cnt > 0
  BY <1>1, <1>2 DEF Counted, Pending, MissedInv
<1>6. THISBOMBCOUNT \in Nat
  BY <1>2, BurstLimit
<1>7. CASE ReadCollect
  <2>1. /\ pc = "collect" /\ pc' = "collected" /\ ticking' = "up" /\ nacks' = nacks /\ buf' = buf
        /\ errcount' = errcount + 1 /\ errcount < THISBOMBCOUNT
    BY <1>1, <1>7 DEF ReadCollect, Running, TickThen
  <2>2. ~Pending' /\ ~Pending /\ Counted' = cnt
    BY <1>3, <1>5, <2>1 DEF Pending, Counted
  <2>3. AnsweredInv'
    BY <1>2, <2>1, <2>2 DEF AnsweredInv
  <2>4. MissedInv'
    BY <1>2, <1>3, <1>5, <2>1, <2>2 DEF MissedInv
  <2>5. BurstReadInv'
    BY <1>1, <1>2, <1>6, <2>1, <2>2 DEF BurstReadInv, CountInv
  <2> QED BY <1>1, <1>2, <1>4, <2>3, <2>4, <2>5 DEF BurstDataInv
<1>8. CASE ReadCollected
  <2>1. pc = "collected" /\ pc' = "collect" /\ ticking' = "no" /\ errcount' = errcount
    BY <1>1, <1>8 DEF ReadCollected, Running
  <2>2. nacks' = Len(accepted) /\ buf' = accepted
    BY <1>1, <1>2, <1>5, <1>8, <2>1 DEF ReadCollected, Collect, AnsweredInv
  <2>3. ~Pending' /\ Counted' = cnt
    BY <1>3, <2>1 DEF Pending, Counted
  <2>4. AnsweredInv'
    BY <1>2, <1>5, <2>2, <2>3 DEF AnsweredInv
  <2>5. MissedInv'
    BY <1>2, <1>3, <1>5, <2>1, <2>3 DEF MissedInv
  <2>6. BurstReadInv'
    BY <1>1, <1>2, <2>1, <2>2, <2>3 DEF BurstReadInv, AnsweredInv
  <2> QED BY <1>1, <1>2, <1>4, <2>4, <2>5, <2>6 DEF BurstDataInv
<1>9. CASE ReadDone
  <2>1. /\ pc = "collect" /\ pc' = "return" /\ nacks' = nacks /\ buf' = buf
        /\ errcount' = IF nacks < len THEN errcount + 1 ELSE errcount
        /\ nacks >= len \/ errcount >= THISBOMBCOUNT
    BY <1>9 DEF ReadDone, Running, TickThen
  <2>2. ~Pending' /\ ~Pending /\ Counted' = cnt /\ Len(accepted) = nacks
    BY <1>2, <1>3, <1>5, <2>1 DEF Pending, Counted, AnsweredInv
  <2>3. MissedInv'
    <3>1. CASE nacks < len
      <4>1. errcount' >= THISBOMBCOUNT /\ errcount' <= THISBOMBCOUNT + 1
        BY <1>1, <1>2, <1>6, <2>1, <3>1 DEF CountInv
      <4>2. m_bomb'
        BY <1>9, <4>1 DEF ReadDone
      <4> QED BY <1>2, <1>3, <1>5, <2>1, <2>2, <4>1, <4>2 DEF MissedInv
    <3>2. CASE ~(nacks < len)
      <4>1. low /\ Len(accepted) = len
        BY <1>2, <1>5, <2>2, <3>2 DEF MissedInv, CountInv
      <4>2. errcount' = errcount /\ errcount' <= THISBOMBCOUNT + 1
        BY <1>1, <1>2, <1>6, <2>1, <3>2 DEF CountInv
      <4> QED BY <1>2, <1>3, <1>5, <2>1, <2>2, <4>1, <4>2 DEF MissedInv
    <3> QED BY <3>1, <3>2
  <2>5. AnsweredInv'
    BY <1>2, <2>1, <2>2 DEF AnsweredInv
  <2>6. BurstReadInv'
    BY <1>1, <1>2, <2>1, <2>2 DEF BurstReadInv
  <2> QED BY <1>1, <1>2, <1>4, <2>3, <2>5, <2>6 DEF BurstDataInv
<1> QED BY <1>7, <1>8, <1>9

LEMMA WriteStallData ==
  ASSUME BusInv, LowInv, DataInv, WriteStall
  PROVE  BurstDataInv'
<1>0. Burst
  BY DEF Burst
<1>1. /\ pc = "stall" /\ fn = "burst_write" /\ ticking = "no" /\ buf = << >> /\ i_wb_stb
      /\ errcount <= BOMBCOUNT /\ (cnt > 0 => ~i_clk["clk"])
  BY <1>0, BurstFrame DEF WriteStall, Running, BurstWriteInv
<1>2. /\ AnsweredInv /\ MissedInv /\ CountInv /\ first \in Nat /\ len \in Nat /\ len > 0
      /\ i_wb_addr = first + cnt /\ cnt < len /\ THISBOMBCOUNT' = THISBOMBCOUNT
      /\ UNCHANGED <<o_wb_ack, o_wb_data, known_cmd, fn, len, first, low, accepted, i_clk,
                        i_wb_we>>
  BY <1>0, <1>1, BurstFrame, Zenon
<1>3. /\ cnt' = cnt /\ nacks' = nacks /\ buf' = buf /\ i_wb_addr' = i_wb_addr
      /\ i_wb_stb' = i_wb_stb /\ errcount' = errcount + 1
      /\ ticking' = IF i_clk["clk"] THEN "down" ELSE "up"
      /\ \/ pc' = "stalled" /\ errcount < BOMBCOUNT /\ known_cmd
         \/ pc' = "taken"
  BY DEF WriteStall, TickThen, busVars, o_wb_stall
<1>4. PlaceInv'
  BY <1>0, <1>2, <1>3, BurstPlace DEF CountInv
<1>5. Counted = cnt /\ ~Pending /\ Len(accepted) = nacks
  BY <1>1, <1>2 DEF Counted, Pending, AnsweredInv
<1>6. low => ~i_clk["clk"]
  BY <1>1 DEF LowInv, WriteInv
<1>7. cnt = 0 /\ ~low => i_clk["clk"] /\ ~known_cmd /\ ~o_wb_ack
  BY <1>1, <1>2 DEF MissedInv
<1>8. CASE cnt = 0 /\ ~low
  <2>1. ticking' = "down" /\ pc' = "taken" /\ ~o_wb_ack'
    BY <1>2, <1>3, <1>7, <1>8
  <2>2. ~Pending' /\ Counted' = 1
    BY <1>3, <1>8, <2>1 DEF Pending, Counted
  <2>3. Len(accepted) = 0
    BY <1>2, <1>5, <1>8 DEF MissedInv
  <2>4. AnsweredInv'
    BY <1>2, <1>3, <1>5, <2>2 DEF AnsweredInv
  <2>5. MissedInv'
    BY <1>2, <1>8, <2>1, <2>2, <2>3 DEF MissedInv
  <2>6. BurstWriteInv'
    BY <1>1, <1>2, <1>3, <2>1, BusAssumption DEF BurstWriteInv, CountInv
  <2> QED BY <1>1, <1>2, <1>4, <2>4, <2>5, <2>6 DEF BurstDataInv
<1>9. CASE ~(cnt = 0 /\ ~low)
  <2>1. ticking' = "up"
    BY <1>1, <1>2, <1>3, <1>6, <1>9 DEF CountInv
  <2>2. ~Pending' /\ Counted' = cnt
    BY <1>3, <2>1 DEF Pending, Counted
  <2>3. AnsweredInv'
    BY <1>2, <1>3, <1>5, <2>2 DEF AnsweredInv
  <2>4. pc' \in {"stalled", "taken"} /\ (pc' = "stalled" => known_cmd')
    BY <1>2, <1>3
  <2>5. MissedInv'
    BY <1>2, <1>3, <1>5, <1>9, <2>1, <2>2, <2>4 DEF MissedInv, CountInv
  <2>6. BurstWriteInv'
    BY <1>1, <1>2, <1>3, <2>1, BusAssumption DEF BurstWriteInv, CountInv
  <2> QED BY <1>1, <1>2, <1>4, <2>3, <2>5, <2>6 DEF BurstDataInv
<1> QED BY <1>8, <1>9

\* The words of a burst write after the TICK that sent one, or stalled.
LEMMA WriteWordData ==
  ASSUME BusInv, LowInv, DataInv, WriteStalled \/ WriteTaken
  PROVE  BurstDataInv'
<1>0. Burst
  BY DEF Burst
<1>1. /\ pc \in {"stalled", "taken"} /\ fn = "burst_write" /\ ticking = "no" /\ buf = << >>
      /\ i_wb_stb /\ ~i_clk["clk"]
      /\ pc = "stalled" => errcount <= BOMBCOUNT
  BY <1>0, BurstFrame DEF WriteStalled, WriteTaken, Running, BurstWriteInv, BusInv, TickInv
<1>2. /\ AnsweredInv /\ MissedInv /\ CountInv /\ first \in Nat /\ len \in Nat /\ len > 0
      /\ i_wb_addr = first + cnt /\ cnt < len /\ THISBOMBCOUNT' = THISBOMBCOUNT
      /\ UNCHANGED <<o_wb_ack, o_wb_data, known_cmd, fn, len, first, low, accepted, i_clk,
                        i_wb_we>>
  BY <1>0, <1>1, BurstFrame, Zenon
<1>3. buf' = buf /\ ticking' = "no"
  BY <1>1 DEF WriteStalled, WriteTaken
<1>4. (Pending <=> o_wb_ack) /\ Counted = IF pc = "taken" THEN cnt + 1 ELSE cnt
  BY <1>1 DEF Pending, Counted
<1>5. nacks' = Len(accepted)
  BY <1>2, <1>4 DEF WriteStalled, WriteTaken, CountAck, AnsweredInv
<1>6. CASE WriteStalled
  <2>1. /\ pc = "stalled" /\ pc' = "stall" /\ cnt' = cnt /\ errcount' = errcount
        /\ i_wb_addr' = i_wb_addr /\ i_wb_stb' = i_wb_stb
    BY <1>6 DEF WriteStalled, Running, busVars
  <2>2. PlaceInv'
    BY <1>0, <1>2, <2>1, BurstPlace DEF CountInv
  <2>3. ~Pending' /\ Counted' = cnt
    BY <2>1 DEF Pending, Counted
  <2>4. AnsweredInv'
    BY <1>2, <1>5, <2>3 DEF AnsweredInv, CountInv
  <2>5. MissedInv'
    BY <1>2, <1>4, <2>1, <2>3 DEF MissedInv, CountInv
  <2>6. BurstWriteInv'
    BY <1>1, <1>2, <1>3, <2>1 DEF BurstWriteInv
  <2> QED BY <1>1, <1>2, <2>2, <2>4, <2>5, <2>6 DEF BurstDataInv
<1>7. CASE WriteTaken
  <2>1. /\ pc = "taken" /\ cnt' = cnt + 1 /\ errcount' = 0 /\ i_wb_addr' = i_wb_addr + 1
        /\ pc' = IF cnt' < len THEN "stall" ELSE "collect"
    BY <1>7 DEF WriteTaken, Running
  <2>2. i_wb_stb' <=> cnt' < len
    BY <1>7, Zenon DEF WriteTaken
  <2>3. PlaceInv'
    BY <1>0, <1>2, <2>1, <2>2, BurstPlace DEF CountInv
  <2>4. ~Pending' /\ Counted' = cnt'
    BY <2>1 DEF Pending, Counted
  <2>5. AnsweredInv'
    BY <1>2, <1>5, <2>1, <2>4 DEF AnsweredInv, CountInv
  <2>6. MissedInv'
    BY <1>2, <1>4, <2>1, <2>4 DEF MissedInv, CountInv
  <2>7. BurstWriteInv'
    BY <1>1, <1>2, <1>3, <2>1, <2>2, BusAssumption DEF BurstWriteInv
  <2> QED BY <1>1, <1>2, <2>3, <2>5, <2>6, <2>7 DEF BurstDataInv
<1> QED BY <1>6, <1>7

LEMMA WriteCollectData ==
  ASSUME BusInv, LowInv, DataInv, WriteCollect \/ WriteCollected \/ WriteDone
  PROVE  BurstDataInv'
<1>0. Burst
  BY DEF Burst
<1>1. /\ pc \in {"collect", "collected"} /\ fn = "burst_write" /\ ticking = "no"
      /\ errcount <= BOMBCOUNT /\ ~i_wb_stb /\ ~i_clk["clk"] /\ buf = << >>
  BY <1>0, BurstFrame DEF WriteCollect, WriteCollected, WriteDone, Running, BurstWriteInv,
     BusInv, TickInv, IdleInv
<1>2. /\ AnsweredInv /\ MissedInv /\ CountInv /\ first \in Nat /\ len \in Nat /\ len > 0
      /\ i_wb_addr = first + cnt /\ cnt <= len /\ THISBOMBCOUNT' = THISBOMBCOUNT
      /\ UNCHANGED <<o_wb_ack, o_wb_data, known_cmd, fn, len, first, low, accepted, i_clk,
                        i_wb_we>>
  BY <1>0, <1>1, BurstFrame, Zenon
<1>3. cnt' = cnt /\ i_wb_addr' = i_wb_addr /\ ~i_wb_stb' /\ buf' = buf
  BY <1>1 DEF WriteCollect, WriteCollected, WriteDone, Release, busVars
<1>4. PlaceInv'
  BY <1>0, <1>2, <1>3, BurstPlace
<1>5. Counted = cnt /\ (Pending <=> o_wb_ack /\ pc = "collected") /\ cnt > 0
  BY <1>1, <1>2 DEF Counted, Pending, MissedInv
<1>6. BOMBCOUNT <= THISBOMBCOUNT /\ THISBOMBCOUNT \in Nat
  <2>1. \A m, n \in Nat : n > 0 => m * n \in Nat /\ m <= m * n
    BY SMTT(30)
  <2> QED BY <1>2, <2>1, BusAssumption DEF THISBOMBCOUNT
<1>7. CASE WriteCollect
  <2>1. /\ pc = "collect" /\ pc' = "collected" /\ ticking' = "up" /\ nacks' = nacks
        /\ errcount' = errcount + 1 /\ errcount < BOMBCOUNT
    BY <1>1, <1>7 DEF WriteCollect, Running, TickThen
  <2>2. ~Pending' /\ ~Pending /\ Counted' = cnt
    BY <1>3, <1>5, <2>1 DEF Pending, Counted
  <2>3. AnsweredInv'
    BY <1>2, <2>1, <2>2 DEF AnsweredInv
  <2>4. MissedInv'
    BY <1>2, <1>3, <1>5, <2>1, <2>2 DEF MissedInv
  <2>5. BurstWriteInv'
    BY <1>1, <1>2, <1>3, <2>1, BusAssumption DEF BurstWriteInv, CountInv
  <2> QED BY <1>1, <1>2, <1>4, <2>3, <2>4, <2>5 DEF BurstDataInv
<1>8. CASE WriteCollected
  <2>1. /\ pc = "collected" /\ pc' = "collect" /\ ticking' = "no"
        /\ errcount' = IF o_wb_ack THEN 0 ELSE errcount
    BY <1>1, <1>8 DEF WriteCollected, Running
  <2>2. nacks' = Len(accepted)
    BY <1>1, <1>2, <1>5, <1>8, <2>1 DEF WriteCollected, CountAck, AnsweredInv
  <2>3. ~Pending' /\ Counted' = cnt
    BY <1>3, <2>1 DEF Pending, Counted
  <2>4. AnsweredInv'
    BY <1>2, <1>5, <2>2, <2>3 DEF AnsweredInv
  <2>5. MissedInv'
    BY <1>2, <1>3, <1>5, <2>1, <2>3 DEF MissedInv
  <2>6. BurstWriteInv'
    BY <1>1, <1>2, <1>3, <2>1, BusAssumption DEF BurstWriteInv
  <2> QED BY <1>1, <1>2, <1>4, <2>4, <2>5, <2>6 DEF BurstDataInv
<1>9. CASE WriteDone
  <2>1. /\ pc = "collect" /\ pc' = "return" /\ nacks' = nacks
        /\ errcount' = IF nacks < len THEN errcount + 1 ELSE errcount
        /\ nacks >= len \/ errcount >= BOMBCOUNT
    BY <1>9 DEF WriteDone, Running, TickThen
  <2>2. ~Pending' /\ ~Pending /\ Counted' = cnt /\ Len(accepted) = nacks
    BY <1>2, <1>3, <1>5, <2>1 DEF Pending, Counted, AnsweredInv
  <2>3. MissedInv'
    <3>1. errcount' <= THISBOMBCOUNT + 1
      BY <1>1, <1>2, <1>6, <2>1, BusAssumption DEF CountInv
    <3>2. CASE nacks < len
      <4>1. errcount' >= BOMBCOUNT
        BY <1>1, <1>2, <2>1, <3>2, BusAssumption DEF CountInv
      <4>2. m_bomb'
        BY <1>9, <4>1 DEF WriteDone
      <4> QED BY <1>2, <1>3, <1>5, <2>1, <2>2, <3>1, <4>2 DEF MissedInv
    <3>3. CASE ~(nacks < len)
      <4>1. low /\ Len(accepted) = len
        BY <1>2, <1>5, <2>2, <3>3 DEF MissedInv, CountInv
      <4> QED BY <1>2, <1>3, <1>5, <2>1, <2>2, <3>1, <4>1 DEF MissedInv
    <3> QED BY <3>2, <3>3
  <2>4. AnsweredInv'
    BY <1>2, <2>1, <2>2 DEF AnsweredInv
  <2>5. BurstWriteInv'
    BY <1>1, <1>2, <1>3, <2>1 DEF BurstWriteInv
  <2> QED BY <1>1, <1>2, <1>4, <2>3, <2>4, <2>5 DEF BurstDataInv
<1> QED BY <1>7, <1>8, <1>9

LEMMA DataInvStep == BusInv /\ LowInv /\ DataInv /\ [Next]_vars => DataInv'
<1> SUFFICES ASSUME BusInv, LowInv, DataInv, [Next]_vars PROVE DataInv'
  OBVIOUS
<1>1. CASE Burst
  <2>1. BurstDataInv'
    BY <1>1, ReadIdleData, ReadNextData, ReadCollectData, WriteStallData, WriteWordData,
       WriteCollectData DEF Burst
  <2>2. FlagsInv' /\ fn' \notin Single
    BY <1>1, BurstFrame DEF Single
  <2> QED BY <2>1, <2>2 DEF DataInv, BurstDataInv
<1>2. CASE UNCHANGED vars
  <2>1. UNCHANGED <<i_clk, i_wb_cyc, i_wb_stb, i_wb_we, i_wb_addr, o_wb_ack, o_wb_data,
                    known_cmd, fn, pc, ticking, errcount, m_bomb, len, cnt, nacks, buf, first,
                    low, accepted>>
    BY <1>2 DEF vars, clockVars, slaveVars, busVars, callVars, loopVars
  <2>2. FlagsInv' = FlagsInv /\ PlaceInv' = PlaceInv /\ OneInv' = OneInv
    BY <2>1, Zenon DEF FlagsInv, PlaceInv, OneInv
  <2>3. Pending' = Pending /\ Counted' = Counted /\ THISBOMBCOUNT' = THISBOMBCOUNT
    BY <2>1, Zenon DEF Pending, Counted, THISBOMBCOUNT
  <2>4. AnsweredInv' = AnsweredInv /\ MissedInv' = MissedInv
    BY <2>1, <2>3, Zenon DEF AnsweredInv, MissedInv
  <2>5. BurstReadInv' = BurstReadInv /\ BurstWriteInv' = BurstWriteInv
    BY <2>1, <2>3, Zenon DEF BurstReadInv, BurstWriteInv
  <2> QED BY <2>1, <2>2, <2>4, <2>5 DEF DataInv
<1> QED BY <1>1, <1>2, DataInvWait, DataInvTicking, DataInvCall, DataInvReturn, DataInvOne
        DEF Next, InCall

LEMMA DataInvAlways == Spec => [](BusInv /\ LowInv /\ DataInv)
BY BusInvInit, BusInvStep, LowInvInit, LowInvStep, DataInvInit, DataInvStep, PTL DEF Spec

\* An access the slave did not take whole, each word once and in its order, is
\* not lost without a word: m_bomb is set.  A read that bombs nothing returns
\* the words of the registers it asked for.
THEOREM NothingLost == Spec => []NoSilentLoss
<1>1. BusInv /\ LowInv /\ DataInv => NoSilentLoss
  <2> SUFFICES ASSUME BusInv, LowInv, DataInv, Returning, ~m_bomb
               PROVE  /\ accepted = Asked
                      /\ fn \in {"read", "burst_read"} => buf = Asked
    BY DEF NoSilentLoss
  <2>1. pc = "return" /\ ticking = "no" /\ fn # "none" /\ fn \in Fns
    BY DEF Returning, BusInv, IdleInv, DataInv, PlaceInv
  <2>2. CASE fn \in Single
    <3>1. low /\ accepted = <<first>> /\ (fn = "read" => buf = <<first>>)
      BY <2>1, <2>2 DEF DataInv, OneInv
    <3>2. len = 1 /\ first \in Nat
      BY <2>1, <2>2, BusAssumption DEF DataInv, PlaceInv
    <3>3. Asked = <<first>>
      BY <3>2 DEF Asked
    <3> QED BY <2>2, <3>1, <3>3 DEF Single
  <2>3. CASE fn \in {"burst_read", "burst_write"}
    <3>1. /\ low /\ Len(accepted) = len /\ accepted \in Seq(Int)
          /\ \A i \in 1 .. Len(accepted) : accepted[i] = first + i - 1
      BY <2>1, <2>3 DEF DataInv, AnsweredInv, MissedInv
    <3>2. accepted = [i \in 1 .. Len(accepted) |-> accepted[i]]
      BY <3>1
    <3>3. accepted = Asked
      BY <3>1, <3>2 DEF Asked
    <3>4. fn = "burst_read" => buf = accepted
      BY <2>1, <2>3 DEF DataInv, BurstReadInv, Pending
    <3> QED BY <2>3, <3>3, <3>4
  <2> QED BY <2>1, <2>2, <2>3 DEF Fns, Single
<1> QED BY <1>1, DataInvAlways, PTL

\* What a call has accepted and read stays within the addresses of the bus.
LEMMA ValuesReached ==
  ASSUME BusInv, LowInv, DataInv
  PROVE  Range(buf) \cup Range(accepted) \subseteq Reached
<1>1. CASE fn = "none"
  BY <1>1 DEF DataInv, PlaceInv, Range
<1>2. CASE fn \in Single
  <2>1. first \in Reached
    BY <1>2, WithinReached DEF DataInv, PlaceInv, Single
  <2>2. accepted = << >> \/ accepted = <<first>>
    BY <1>2, Zenon DEF DataInv, OneInv
  <2>3. buf = << >> \/ \E d \in Reached : buf = <<d>>
    BY <1>2, Zenon DEF DataInv, OneInv
  <2>4. \A d \in Reached : Range(<<d>>) \subseteq Reached
    BY DEF Range
  <2>5. Range(<< >>) \subseteq Reached
    BY DEF Range
  <2> QED BY <2>1, <2>2, <2>3, <2>4, <2>5
<1>3. CASE fn \in {"burst_read", "burst_write"}
  <2>1. AnsweredInv /\ first \in Addrs /\ len \in Lens
    BY <1>3 DEF DataInv, PlaceInv, Single
  <2>2. first \in Nat /\ len \in Nat
    BY <2>1, BusAssumption
  <2>3. ASSUME NEW i \in 1 .. Len(accepted) PROVE accepted[i] \in Reached
    <3>1. accepted[i] \in Int /\ first <= accepted[i] /\ accepted[i] < first + len
      BY <2>1 DEF AnsweredInv
    <3>2. accepted[i] <= first + len
      BY <2>2, <3>1
    <3> QED BY <2>1, <3>1, <3>2, WithinReached
  <2>4. Range(accepted) \subseteq Reached
    BY <2>1, <2>3 DEF Range, AnsweredInv
  <2>5. Range(buf) \subseteq Reached
    <3>1. CASE fn = "burst_write"
      BY <3>1 DEF DataInv, BurstWriteInv, Range
    <3>2. CASE fn = "burst_read" /\ ~Pending
      BY <2>4, <3>2 DEF DataInv, BurstReadInv
    <3>3. CASE fn = "burst_read" /\ Pending
      <4>1. buf \in Seq(Int) /\ accepted = Append(buf, o_wb_data) /\ o_wb_data \in Int
        BY <3>3 DEF DataInv, BurstReadInv, PlaceInv, Reached
      <4>2. Len(accepted) = Len(buf) + 1 /\ Len(buf) \in Nat
            /\ \A i \in 1 .. Len(buf) : accepted[i] = buf[i]
        BY <4>1, AppendProperties
      <4>3. ASSUME NEW i \in 1 .. Len(buf) PROVE buf[i] \in Reached
        <5>1. i \in 1 .. Len(accepted)
          BY <4>2
        <5> QED BY <2>3, <4>2, <5>1
      <4> QED BY <4>1, <4>3 DEF Range
    <3> QED BY <1>3, <3>1, <3>2, <3>3
  <2> QED BY <2>4, <2>5
<1> QED BY <1>1, <1>2, <1>3 DEF DataInv, PlaceInv, Fns, Single

\* The counters stay under the limits of the loops.
LEMMA CountersBounded ==
  ASSUME BusInv, LowInv, DataInv
  PROVE  /\ len \in 0 .. MaxLen /\ cnt \in 0 .. len /\ nacks \in 0 .. len
         /\ errcount \in 0 .. BOMBCOUNT * MaxLen + 1
<1>1. CountInv /\ (fn = "none" \/ fn \in Fns)
  BY DEF LowInv, DataInv, PlaceInv
<1>2. /\ MaxLen \in Nat /\ BOMBCOUNT \in Nat /\ BOMBCOUNT * MaxLen \in Nat
      /\ BOMBCOUNT <= BOMBCOUNT * MaxLen
      /\ \A l \in Nat : l <= MaxLen => BOMBCOUNT * l <= BOMBCOUNT * MaxLen
  <2>1. \A m, n \in Nat : n >= 1 => m * n \in Nat /\ m <= m * n
    BY SMTT(30)
  <2>2. \A m, n, l \in Nat : l <= n => m * l <= m * n
    BY SMTT(30)
  <2> QED BY <2>1, <2>2, Greatest, BusAssumption
<1>3. CASE fn = "none"
  BY <1>2, <1>3 DEF DataInv, PlaceInv
<1>4. CASE fn \in Single
  <2>1. OneInv /\ len = 1
    BY <1>4 DEF DataInv, PlaceInv, Single
  <2>2. errcount <= BOMBCOUNT + 1
    BY <1>1, <1>2, <2>1 DEF OneInv, CountInv
  <2> QED BY <1>1, <1>2, <2>1, <2>2, Greatest DEF OneInv, CountInv
<1>5. CASE fn \in {"burst_read", "burst_write"}
  <2>1. AnsweredInv /\ MissedInv /\ len \in Lens /\ cnt <= len
    BY <1>5 DEF DataInv, PlaceInv, Single
  <2>2. len \in Nat /\ len <= MaxLen /\ THISBOMBCOUNT \in Nat /\ len <= THISBOMBCOUNT
    BY <1>1, <2>1, Greatest, BurstLimit DEF CountInv
  <2>3. THISBOMBCOUNT <= BOMBCOUNT * MaxLen
    BY <1>2, <2>2 DEF THISBOMBCOUNT
  <2>4. nacks <= len
    <3>1. nacks <= Len(accepted)
      BY <1>1, <2>1 DEF AnsweredInv, CountInv
    <3>2. Len(accepted) \in Nat /\ Counted \in Nat /\ Counted <= len
      BY <1>1, <2>1 DEF AnsweredInv, Counted, CountInv
    <3>3. Len(accepted) <= Counted
      BY <2>1, <3>2 DEF MissedInv
    <3> QED BY <1>1, <2>2, <3>1, <3>2, <3>3 DEF CountInv
  <2>5. errcount <= BOMBCOUNT + 1 \/ errcount <= THISBOMBCOUNT + 1
    <3>1. CASE fn = "burst_read"
      BY <1>1, <1>2, <2>1, <2>2, <3>1 DEF DataInv, BurstReadInv, MissedInv, CountInv
    <3>2. CASE fn = "burst_write"
      BY <1>1, <1>2, <2>1, <2>2, <3>2 DEF DataInv, BurstWriteInv, MissedInv, CountInv
    <3> QED BY <1>5, <3>1, <3>2
  <2>6. errcount <= BOMBCOUNT * MaxLen + 1
    BY <1>1, <1>2, <2>2, <2>3, <2>5 DEF CountInv
  <2> QED BY <1>1, <1>2, <2>1, <2>2, <2>4, <2>6 DEF CountInv
<1> QED BY <1>1, <1>3, <1>4, <1>5 DEF Fns, Single

\* Registers, counters and addresses of a call keep their ranges, for all
\* lengths of bursts: no loop passes its limit by more than one.
THEOREM CallsTypeCorrect == Spec => []TypeOK
<1>1. ClockInv /\ BusInv /\ LowInv /\ DataInv => TypeOK
  <2> SUFFICES ASSUME ClockInv, BusInv, LowInv, DataInv PROVE TypeOK
    OBVIOUS
  <2>1. /\ phase \in [Clocks -> Nat] /\ i_clk \in [Clocks -> BOOLEAN]
        /\ \A c \in Clocks : phase[c] < 2 * Increment[c]
    <3>1. \A c \in Clocks : Level(c, phase[c]) \in BOOLEAN
      BY DEF Level
    <3>2. i_clk = [c \in Clocks |-> Level(c, phase[c])]
      BY DEF ClockInv, LevelShown
    <3>3. i_clk \in [Clocks -> BOOLEAN]
      BY <3>1, <3>2
    <3> QED BY <3>3 DEF ClockInv, PhaseType, InPeriod
  <2>2. {i_wb_cyc, i_wb_stb, i_wb_we, o_wb_ack, known_cmd, m_bomb, low} \subseteq BOOLEAN
    BY DEF DataInv, FlagsInv
  <2>3. {i_wb_addr, o_wb_data, first} \subseteq Reached
    BY WithinReached DEF DataInv, PlaceInv
  <2>4. fn \in Fns \cup {"none"} /\ ticking \in {"up", "down", "no"}
    BY DEF DataInv, PlaceInv, BusInv, TickInv
  <2>5. pc \in {"none", "idle", "stall", "stalled", "taken", "sent", "held", "collect",
                "collected", "return"}
    <3>1. CASE fn = "none"
      BY <3>1 DEF BusInv, IdleInv
    <3>2. CASE fn \in Single
      BY <3>2 DEF DataInv, OneInv
    <3>3. CASE fn = "burst_read"
      BY <3>3 DEF DataInv, BurstReadInv
    <3>4. CASE fn = "burst_write"
      BY <3>4 DEF DataInv, BurstWriteInv
    <3> QED BY <2>4, <3>1, <3>2, <3>3, <3>4 DEF Fns, Single
  <2>6. {i_wb_addr, o_wb_data, first} \cup Range(buf) \cup Range(accepted) \subseteq Reached
    BY <2>3, ValuesReached
  <2> QED BY <2>1, <2>2, <2>4, <2>5, <2>6, CountersBounded DEF TypeOK
<1> QED BY <1>1, DataInvAlways, BusKeepsClocks, ClockInvariant, PTL

=============================================================================
