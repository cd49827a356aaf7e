--------------------------------- MODULE WbTb ---------------------------------
(***************************************************************************)
(* The bus functions of the bench, bench/cpp/wb_tb.h: wb_read(),           *)
(* wb_write() and their bursts, against the register slave of              *)
(* rtl/satatrn_fsm.v, on the clocks of BenchClock.  The bench may call any *)
(* of them after any number of tick()s, as wait() and wait_for_int() make. *)
(*                                                                         *)
(*   Wait      tick() outside of the bus functions                         *)
(*   Ticking   one tick() of a TICK, which is tick_clk(): up to the next   *)
(*             rising edge of the bus clock, then to the falling one       *)
(*   Call, OneAccess, Burst: the code between two TICKs                    *)
(*                                                                         *)
(* Abstracted: of the registers only the one read or written shows; the    *)
(* slave's r_busy is a choice.                                             *)
(***************************************************************************)
EXTENDS BenchClock, FiniteSetsExt, Functions, Sequences

CONSTANTS
  BOMBCOUNT,
  Addrs,          \* register addresses
  Lens            \* lengths of the bursts

ASSUME BusAssumption == /\ BOMBCOUNT \in Nat \ {0}
                        /\ Addrs \subseteq Nat
                        /\ Lens \subseteq Nat \ {0}

\* Addresses and lengths are C++ integers: each set has a greatest element.
ASSUME RangeAssumption == /\ \E m \in Addrs : \A x \in Addrs : m >= x
                          /\ \E m \in Lens \cup {1} : \A x \in Lens \cup {1} : m >= x

ADDR_CMD == 0

VARIABLES
  i_wb_cyc, i_wb_stb, i_wb_we, i_wb_addr,
  o_wb_ack, o_wb_data, known_cmd,
  fn,             \* the bus function that runs, or "none"
  pc,             \* where in it
  ticking,        \* where in TICK: "up", "down", or "no" when it has returned
  errcount, m_bomb,
  len, cnt, nacks,  \* of the bursts; nacks is rdidx in wb_read()
  buf,            \* what a read returned
  first, low,     \* history: the address asked for, and whether the call
                  \* found the bus clock low
  accepted        \* history: the addresses the slave accepted in this call

slaveVars == <<o_wb_ack, o_wb_data, known_cmd>>
busVars   == <<i_wb_cyc, i_wb_stb, i_wb_we, i_wb_addr>>
callVars  == <<fn, len, first, low>>
loopVars  == <<errcount, cnt, nacks, buf>>
vars == <<clockVars, slaveVars, busVars, callVars, loopVars, pc, ticking, m_bomb,
          accepted>>

Fns == {"read", "write", "burst_read", "burst_write"}
o_wb_stall == known_cmd

-----------------------------------------------------------------------------
\* The slave at a rising edge of the bus clock.
Accepts == i_wb_stb /\ ~o_wb_stall

Slave ==
  /\ o_wb_ack' = Accepts
  /\ o_wb_data' = i_wb_addr
  /\ IF Accepts /\ i_wb_we /\ i_wb_addr = ADDR_CMD
     THEN known_cmd' \in BOOLEAN ELSE known_cmd' = FALSE
  /\ accepted' = IF Accepts THEN Append(accepted, i_wb_addr) ELSE accepted

Clocked ==
  /\ Tick
  /\ IF Rises("clk") THEN Slave ELSE UNCHANGED <<slaveVars, accepted>>

Wait ==
  /\ fn = "none"
  /\ Clocked
  /\ UNCHANGED <<busVars, callVars, loopVars, pc, ticking, m_bomb>>

\* Seeded fault of TickClk: the bus clock is not waited for to fall.
TickClk_UpOnly ==
  ticking' = CASE ticking = "up" /\ i_clk'["clk"]    -> "no"
               [] ticking = "down"                   -> "no"
               [] OTHER                              -> ticking

\* The two loops of tick_clk().
TickClk ==
  ticking' = CASE ticking = "up" /\ i_clk'["clk"]    -> "down"
               [] ticking = "down" /\ ~i_clk'["clk"] -> "no"
               [] OTHER                              -> ticking

Ticking ==
  /\ ticking # "no"
  /\ Clocked
  /\ TickClk
  /\ UNCHANGED <<busVars, callVars, loopVars, pc, m_bomb>>

\* TICK is called, and the function goes on at next when it returns.
TickThen(next) ==
  /\ pc' = next
  /\ ticking' = IF i_clk["clk"] THEN "down" ELSE "up"

Running(f, at) == fn \in f /\ pc = at /\ ticking = "no"
Aside == UNCHANGED <<clockVars, slaveVars, callVars, accepted>>

\* Seeded fault of Release: the strobe is left high.
Release_CycOnly == i_wb_cyc' = FALSE /\ UNCHANGED <<i_wb_stb, i_wb_we, i_wb_addr>>

\* Releases the bus.
Release == i_wb_cyc' = FALSE /\ i_wb_stb' = FALSE /\ UNCHANGED <<i_wb_we, i_wb_addr>>
DropStb == i_wb_stb' = FALSE /\ UNCHANGED <<i_wb_cyc, i_wb_we, i_wb_addr>>

-----------------------------------------------------------------------------
(* A call.  The burst read first waits for the slave with the bus idle.    *)

Call ==
  /\ fn = "none"
  /\ \E f \in Fns, a \in Addrs :
       /\ fn' = f /\ first' = a /\ i_wb_addr' = a
       /\ len' \in (IF f \in {"read", "write"} THEN {1} ELSE Lens)
       /\ i_wb_cyc' = (f # "burst_read") /\ i_wb_stb' = (f # "burst_read")
       /\ i_wb_we' = (f \in {"write", "burst_write"})
       /\ pc' = IF f = "burst_read" THEN "idle" ELSE "stall"
  /\ low' = ~i_clk["clk"]
  /\ errcount' = 0 /\ cnt' = 0 /\ nacks' = 0 /\ buf' = << >> /\ accepted' = << >>
  /\ UNCHANGED <<clockVars, slaveVars, ticking, m_bomb>>

\* The locals of the call end with it.
Return ==
  /\ Running(Fns, "return")
  /\ fn' = "none" /\ pc' = "none"
  /\ len' = 0 /\ cnt' = 0 /\ nacks' = 0 /\ errcount' = 0 /\ buf' = << >>
  /\ first' = 0 /\ low' = TRUE /\ accepted' = << >>
  /\ UNCHANGED <<clockVars, slaveVars, busVars, ticking, m_bomb>>

-----------------------------------------------------------------------------
(* wb_read(a), wb_write(a, v) *)

Single == {"read", "write"}

\* while((errcount++ < BOMBCOUNT) && (o_wb_stall)) TICK(); then one more
OneStall ==
  /\ Running(Single, "stall")
  /\ errcount' = IF o_wb_stall \/ errcount > 0 THEN errcount + 1 ELSE 0
  /\ IF errcount < BOMBCOUNT /\ o_wb_stall THEN TickThen("stall") ELSE TickThen("sent")
  /\ UNCHANGED <<busVars, cnt, nacks, buf, m_bomb>> /\ Aside

\* Seeded fault of OneSent: the wait for the acknowledgement is not bounded.
OneSent_NoCount ==
  /\ Running(Single, "sent")
  /\ errcount < BOMBCOUNT /\ ~o_wb_ack
  /\ DropStb /\ TickThen("sent")
  /\ UNCHANGED <<errcount, cnt, nacks, buf, m_bomb>> /\ Aside

OneSent ==
  /\ Running(Single, "sent")
  /\ errcount < BOMBCOUNT /\ ~o_wb_ack
  /\ errcount' = errcount + 1
  /\ DropStb /\ TickThen("sent")
  /\ UNCHANGED <<cnt, nacks, buf, m_bomb>> /\ Aside

\* The wait for the acknowledgement is over.
Waited == errcount >= BOMBCOUNT \/ o_wb_ack

\* A write holds the cycle for one more TICK; the bomb is set after it.
WriteWaited ==
  /\ Running({"write"}, "sent") /\ Waited
  /\ errcount' = errcount + 1
  /\ DropStb /\ TickThen("held")
  /\ UNCHANGED <<cnt, nacks, buf, m_bomb>> /\ Aside

WriteHeld ==
  /\ Running({"write"}, "held")
  /\ Release /\ TickThen("return")
  /\ m_bomb' = (m_bomb \/ errcount >= BOMBCOUNT)
  /\ UNCHANGED loopVars /\ Aside

ReadWaited ==
  /\ Running({"read"}, "sent") /\ Waited
  /\ errcount' = errcount + 1
  /\ buf' = <<o_wb_data>>
  /\ Release /\ TickThen("return")
  /\ m_bomb' = (m_bomb \/ errcount' >= BOMBCOUNT \/ ~o_wb_ack)
  /\ UNCHANGED <<cnt, nacks>> /\ Aside

OneAccess == OneStall \/ OneSent \/ WriteWaited \/ WriteHeld \/ ReadWaited

-----------------------------------------------------------------------------
(* wb_read(a, len, buf) *)

THISBOMBCOUNT == BOMBCOUNT * len

ReadIdle ==
  /\ Running({"burst_read"}, "idle")
  /\ IF errcount < BOMBCOUNT /\ o_wb_stall
     THEN errcount' = errcount + 1 /\ TickThen("idle") /\ UNCHANGED <<busVars, m_bomb>>
     ELSE IF errcount + 1 >= BOMBCOUNT
     THEN /\ m_bomb' = TRUE /\ errcount' = errcount + 1
          /\ pc' = "return" /\ UNCHANGED <<busVars, ticking>>
     ELSE /\ errcount' = 0
          /\ i_wb_cyc' = TRUE /\ i_wb_stb' = TRUE /\ UNCHANGED <<i_wb_we, i_wb_addr>>
          /\ TickThen(IF o_wb_stall THEN "stalled" ELSE "taken")
          /\ UNCHANGED m_bomb
  /\ UNCHANGED <<cnt, nacks, buf>> /\ Aside

\* Seeded fault of Collect: the data is taken whether or not it is answered.
Collect_Unanswered == buf' = Append(buf, o_wb_data) /\ nacks' = nacks + 1

\* An acknowledgement after a TICK: its data goes to buf.
Collect == IF o_wb_ack THEN buf' = Append(buf, o_wb_data) /\ nacks' = nacks + 1
           ELSE UNCHANGED <<buf, nacks>>

\* A TICK has returned; the request was taken by it if the slave had not
\* stalled it before.
ReadNext ==
  /\ fn = "burst_read" /\ pc \in {"taken", "stalled"} /\ ticking = "no"
  /\ Collect
  /\ cnt' = IF pc = "taken" THEN cnt + 1 ELSE cnt
  /\ i_wb_addr' = IF pc = "taken" THEN i_wb_addr + 1 ELSE i_wb_addr
  /\ UNCHANGED <<i_wb_cyc, i_wb_we, m_bomb>> /\ Aside
  /\ errcount' = IF cnt' < len THEN errcount + 1 ELSE errcount
  /\ IF cnt' < len /\ errcount < THISBOMBCOUNT
     THEN TickThen(IF o_wb_stall THEN "stalled" ELSE "taken") /\ UNCHANGED i_wb_stb
     ELSE pc' = "collect" /\ i_wb_stb' = FALSE /\ UNCHANGED ticking

ReadCollect ==
  /\ Running({"burst_read"}, "collect")
  /\ nacks < len /\ errcount < THISBOMBCOUNT
  /\ errcount' = errcount + 1
  /\ TickThen("collected")
  /\ UNCHANGED <<busVars, cnt, nacks, buf, m_bomb>> /\ Aside

ReadCollected ==
  /\ Running({"burst_read"}, "collected")
  /\ Collect
  /\ pc' = "collect"
  /\ UNCHANGED <<busVars, errcount, cnt, m_bomb, ticking>> /\ Aside

ReadDone ==
  /\ Running({"burst_read"}, "collect")
  /\ nacks >= len \/ errcount >= THISBOMBCOUNT
  /\ errcount' = IF nacks < len THEN errcount + 1 ELSE errcount
  /\ i_wb_cyc' = FALSE /\ UNCHANGED <<i_wb_stb, i_wb_we, i_wb_addr>>
  /\ m_bomb' = (m_bomb \/ errcount' >= THISBOMBCOUNT \/ ~o_wb_ack)
  /\ TickThen("return")
  /\ UNCHANGED <<cnt, nacks, buf>> /\ Aside

-----------------------------------------------------------------------------
(* wb_write(a, ln, buf) *)

\* Seeded fault of CountAck: an acknowledgement is counted with every TICK.
CountAck_Always == nacks' = nacks + 1

CountAck == nacks' = IF o_wb_ack THEN nacks + 1 ELSE nacks

\* The stall loop of one word, then the TICK that takes it.
WriteStall ==
  /\ Running({"burst_write"}, "stall")
  /\ errcount' = errcount + 1
  /\ IF errcount < BOMBCOUNT /\ o_wb_stall THEN TickThen("stalled") ELSE TickThen("taken")
  /\ UNCHANGED <<busVars, cnt, nacks, buf, m_bomb>> /\ Aside

WriteStalled ==
  /\ Running({"burst_write"}, "stalled")
  /\ CountAck /\ pc' = "stall"
  /\ UNCHANGED <<busVars, errcount, cnt, buf, m_bomb, ticking>> /\ Aside

WriteTaken ==
  /\ Running({"burst_write"}, "taken")
  /\ CountAck
  /\ cnt' = cnt + 1 /\ errcount' = 0
  /\ pc' = IF cnt' < len THEN "stall" ELSE "collect"
  /\ i_wb_addr' = i_wb_addr + 1 /\ i_wb_stb' = (cnt' < len)
  /\ UNCHANGED <<i_wb_cyc, i_wb_we, buf, m_bomb, ticking>> /\ Aside

WriteCollect ==
  /\ Running({"burst_write"}, "collect")
  /\ nacks < len /\ errcount < BOMBCOUNT
  /\ errcount' = errcount + 1
  /\ TickThen("collected")
  /\ UNCHANGED <<busVars, cnt, nacks, buf, m_bomb>> /\ Aside

WriteCollected ==
  /\ Running({"burst_write"}, "collected")
  /\ CountAck /\ errcount' = IF o_wb_ack THEN 0 ELSE errcount
  /\ pc' = "collect"
  /\ UNCHANGED <<busVars, cnt, buf, m_bomb, ticking>> /\ Aside

WriteDone ==
  /\ Running({"burst_write"}, "collect")
  /\ nacks >= len \/ errcount >= BOMBCOUNT
  /\ errcount' = IF nacks < len THEN errcount + 1 ELSE errcount
  /\ Release
  /\ m_bomb' = (m_bomb \/ errcount' >= BOMBCOUNT)
  /\ TickThen("return")
  /\ UNCHANGED <<cnt, nacks, buf>> /\ Aside

Burst == \/ ReadIdle \/ ReadNext \/ ReadCollect \/ ReadCollected \/ ReadDone
         \/ WriteStall \/ WriteStalled \/ WriteTaken \/ WriteCollect
         \/ WriteCollected \/ WriteDone

-----------------------------------------------------------------------------
Init ==
  /\ ClockInit
  /\ o_wb_ack = FALSE /\ o_wb_data = 0 /\ known_cmd = FALSE
  /\ i_wb_cyc = FALSE /\ i_wb_stb = FALSE /\ i_wb_we = FALSE /\ i_wb_addr = 0
  /\ fn = "none" /\ pc = "none" /\ ticking = "no"
  /\ errcount = 0 /\ m_bomb = FALSE
  /\ len = 0 /\ cnt = 0 /\ nacks = 0 /\ buf = << >>
  /\ first = 0 /\ low = TRUE /\ accepted = << >>

InCall == OneAccess \/ Burst \/ Ticking \/ Return

Next == Wait \/ Call \/ InCall

\* The bench is one thread of C++: a call that has begun goes on.
Spec == Init /\ [][Next]_vars /\ WF_vars(InCall)

-----------------------------------------------------------------------------
MaxLen == Max(Lens \cup {1})
Reached == 0 .. Max(Addrs) + MaxLen

\* What every variable may hold.  errcount stays under the loops' limits, and
\* nacks counts at most one acknowledgement for each word of the access.
TypeOK ==
  /\ phase \in [Clocks -> Nat] /\ i_clk \in [Clocks -> BOOLEAN]
  /\ \A c \in Clocks : phase[c] < 2 * Increment[c]
  /\ {i_wb_cyc, i_wb_stb, i_wb_we, o_wb_ack, known_cmd, m_bomb, low} \subseteq BOOLEAN
  /\ {i_wb_addr, o_wb_data, first} \cup Range(buf) \cup Range(accepted) \subseteq Reached
  /\ fn \in Fns \cup {"none"} /\ ticking \in {"up", "down", "no"}
  /\ pc \in {"none", "idle", "stall", "stalled", "taken", "sent", "held",
             "collect", "collected", "return"}
  /\ len \in 0 .. MaxLen /\ cnt \in 0 .. len /\ nacks \in 0 .. len
  /\ errcount \in 0 .. BOMBCOUNT * MaxLen + 1

Returning == pc = "return" /\ ticking = "no"
Asked == [i \in 1 .. len |-> first + i - 1]

\* An access the slave did not take whole, each word once and in its order, is
\* not lost without a word: m_bomb is set.  A read that bombs nothing returns
\* the words of the registers it asked for.
NoSilentLoss ==
  Returning /\ ~m_bomb => /\ accepted = Asked
                          /\ fn \in {"read", "burst_read"} => buf = Asked

\* The bus functions bomb in one case only: the call found the bus clock high,
\* as after a wait() or wait_for_int() made of tick()s, so that its first TICK
\* holds no rising edge and the slave misses the word the function counts.
BombOnlyFromHigh == [][m_bomb' /\ ~m_bomb => ~low]_vars

\* The assertions at the end of each function: no acknowledgement is left on
\* the bus and the slave does not stall.
BusLeftIdle == Returning => ~o_wb_ack /\ ~o_wb_stall

\* A call returns, also when its request was lost.
CallReturns == fn # "none" ~> fn = "none"

=============================================================================
