----------------------------- MODULE DmaBusProofs -----------------------------
(***************************************************************************)
(* The pipelined bus between the engines and the memory, for every memory, *)
(* delay, pipeline depth and choice of transfers.                          *)
(*                                                                         *)
(* OwnerInv: a request is counted only by an engine whose cycle is up and  *)
(* that is not stalled, hence by the owner, and while its cycle is up the  *)
(* arbiter does not move.                                                  *)
(*                                                                         *)
(* BusInv: the ring of the memory is the queue of the requests the owner   *)
(* has in flight, each at a slot that says when it is answered; outside of *)
(* a cycle it is clear.  Every answer is then one that is owed, and a read *)
(* brings the word that was there when it was accepted.                    *)
(*                                                                         *)
(* Stored: the words s2mm has put on the bus are in memory, at consecutive *)
(* addresses.                                                              *)
(***************************************************************************)
EXTENDS DmaBus, SequenceTheorems, WellFoundedInduction, TLAPS

ReaderType == a \in [busy : BOOLEAN, cyc : BOOLEAN, stb : BOOLEAN, addr : Int, len : Int,
                     out : Int]
WriterType == b \in [busy : BOOLEAN, cyc : BOOLEAN, stb : BOOLEAN, addr : Int, data : Values,
                     last : BOOLEAN, out : Int]

OwnerInv == ReaderType /\ WriterType /\ r_a_owner \in BOOLEAN /\ OwnerKeepsCycle

LEMMA OwnerInvInit == Init => OwnerInv
<1> SUFFICES ASSUME Init PROVE OwnerInv
  OBVIOUS
<1>1. ReaderType /\ a.out = 0
  BY DEF Init, ReaderIdle, ReaderType
<1>2. WriterType /\ b.out = 0
  BY MemAssumption DEF Init, WriterIdle, WriterType
<1> QED BY <1>1, <1>2 DEF Init, OwnerInv, OwnerKeepsCycle

\* What is counted after a clock was in flight before it, or is sent in it.
LEMMA InFlight ==
  ASSUME NEW e, e.out \in Int, NEW sent \in BOOLEAN, NEW ack
  PROVE  /\ Outstanding(e, sent, ack) \in Int
         /\ Outstanding(e, sent, ack) > 0 => e.cyc /\ (e.out > 0 \/ sent)
<1> QED BY DEF Outstanding

\* The reading engine over a clock in which it is not reset.
LEMMA ReaderStep ==
  ASSUME OwnerInv, Reader
  PROVE  ReaderType' /\ (a'.out > 0 => a.cyc /\ r_a_owner)
<1> USE DEF OwnerInv
<1>1. CASE ~a.busy
  <2>1. Starts \subseteq Int
    BY BusAssumption DEF Addresses
  <2>2. Words \in Int
    BY MemAssumption
  <2>3. CASE a' = ReaderIdle
    BY <2>3 DEF ReaderIdle, ReaderType
  <2>4. CASE \E addr \in Starts, len \in 1 .. Words :
               a' = [busy |-> TRUE, cyc |-> TRUE, stb |-> TRUE, addr |-> addr, len |-> len,
                     out |-> 0]
    BY <2>1, <2>2, <2>4 DEF ReaderType
  <2> QED BY <1>1, <2>3, <2>4 DEF Reader, ReaderIdles
<1>2. CASE a.busy
  <2> DEFINE out == Outstanding(a, aSent, o_a_ack)
             left == IF aSent THEN a.len - 1 ELSE a.len
  <2>1. a.out \in Int /\ a.len \in Int /\ a.addr \in Int /\ a.cyc \in BOOLEAN /\ a.stb \in BOOLEAN
    BY DEF ReaderType
  <2>2. aSent \in BOOLEAN /\ ReadsAnswered \in BOOLEAN
    BY <2>1 DEF aSent, ReadsAnswered
  <2>3. out \in Int /\ (out > 0 => a.cyc /\ (a.out > 0 \/ aSent))
    BY <2>1, <2>2, InFlight
  <2>4. left \in Int
    BY <2>1
  <2>5. a' = [busy |-> a.cyc, cyc |-> a.cyc /\ (a.stb \/ ~ReadsAnswered), stb |-> left > 0,
              addr |-> IF aSent THEN a.addr + 1 ELSE a.addr, len |-> left, out |-> out]
    BY <1>2 DEF Reader, ReaderRuns
  <2>6. a.out > 0 \/ aSent => r_a_owner
    BY DEF OwnerKeepsCycle, aSent, o_a_stall
  <2> HIDE DEF out, left
  <2>7. ReaderType'
    BY <2>1, <2>2, <2>3, <2>4, <2>5 DEF ReaderType
  <2>8. a'.out = out
    BY <2>5
  <2> QED BY <2>3, <2>6, <2>7, <2>8
<1> QED BY <1>1, <1>2 DEF ReaderType

\* The writing engine over a clock in which it is not reset.
LEMMA WriterStep ==
  ASSUME OwnerInv, Writer
  PROVE  WriterType' /\ (b'.out > 0 => b.cyc /\ ~r_a_owner)
<1> DEFINE out == Outstanding(b, bSent, o_b_ack)
<1>1. /\ b.out \in Int /\ b.addr \in Int /\ b.data \in Values
      /\ b.busy \in BOOLEAN /\ b.cyc \in BOOLEAN /\ b.stb \in BOOLEAN /\ b.last \in BOOLEAN
  BY DEF OwnerInv, WriterType
<1>2. bSent \in BOOLEAN /\ NextAddr \in Int
  BY <1>1 DEF bSent, NextAddr
<1>3. out \in Int /\ (out > 0 => b.cyc /\ (b.out > 0 \/ bSent))
  BY <1>1, <1>2, InFlight
<1>4. b.out > 0 \/ bSent => ~r_a_owner
  BY DEF OwnerInv, OwnerKeepsCycle, bSent, o_b_stall
<1>5. CASE ~b.busy
  <2>1. Starts \subseteq Int
    BY BusAssumption DEF Addresses
  <2>2. WriterIdle \in [busy : BOOLEAN, cyc : BOOLEAN, stb : BOOLEAN, addr : Int,
                        data : Values, last : BOOLEAN, out : Int] /\ WriterIdle.out = 0
    BY MemAssumption DEF WriterIdle
  <2>3. WriterIdles
    BY <1>5 DEF Writer
  <2>4. WriterType' /\ b'.out = 0
    BY <2>1, <2>2, <2>3 DEF WriterIdles, WriterType
  <2> QED BY <2>4
<1>6. CASE b.busy
  <2>1. WriterStalled \/ WriterTakes \/ WriterRuns
    BY <1>6 DEF Writer
  <2> HIDE DEF out
  <2>2. CASE WriterStalled
    <3>1. b' = [b EXCEPT !.out = out] BY <2>2 DEF WriterStalled, out
    <3>2. WriterType' /\ b'.out = out BY <3>1, <1>3 DEF OwnerInv, WriterType
    <3> QED BY <3>2, <1>3, <1>4
  <2>3. CASE WriterTakes
    <3>1. PICK v \in Values, last \in BOOLEAN :
            b' = [b EXCEPT !.cyc = b.cyc \/ ~wb_pipeline_full, !.stb = ~wb_pipeline_full,
                           !.addr = NextAddr, !.data = IF wb_pipeline_full THEN b.data ELSE v,
                           !.last = last, !.out = out]
      BY <2>3 DEF WriterTakes, out
    <3>2. wb_pipeline_full \in BOOLEAN BY DEF wb_pipeline_full
    <3>3. WriterType' /\ b'.out = out BY <3>1, <3>2, <1>1, <1>2, <1>3 DEF OwnerInv, WriterType
    <3> QED BY <3>3, <1>3, <1>4
  <2>4. CASE WriterRuns
    <3> DEFINE over == ~wb_pipeline_full /\ WritesAnswered
    <3>1. b' = [b EXCEPT !.busy = ~(over /\ b.last), !.cyc = b.cyc /\ ~over, !.stb = FALSE,
                         !.addr = NextAddr, !.out = out]
      BY <2>4 DEF WriterRuns, out
    <3>2. over \in BOOLEAN BY DEF wb_pipeline_full, WritesAnswered
    <3> HIDE DEF over
    <3>3. WriterType' /\ b'.out = out BY <3>1, <3>2, <1>1, <1>2, <1>3 DEF OwnerInv, WriterType
    <3> QED BY <3>3, <1>3, <1>4
  <2> QED BY <2>1, <2>2, <2>3, <2>4
<1> QED BY <1>1, <1>5, <1>6

\* While a cycle of the owner is up the arbiter does not move.
LEMMA ArbiterStep ==
  ASSUME OwnerInv, Arbitrate
  PROVE  /\ r_a_owner' \in BOOLEAN
         /\ a.cyc /\ r_a_owner => r_a_owner'
         /\ b.cyc /\ ~r_a_owner => ~r_a_owner'
<1>1. a.stb \in BOOLEAN /\ r_a_owner \in BOOLEAN
  BY DEF OwnerInv, ReaderType
<1> QED BY <1>1 DEF Arbitrate

LEMMA OwnerInvStep == OwnerInv /\ [Next]_vars => OwnerInv'
<1> SUFFICES ASSUME OwnerInv, [Next]_vars PROVE OwnerInv'
  OBVIOUS
<1>1. CASE RisingEdge
  <2>1. Reader /\ Writer /\ Arbitrate
    BY <1>1 DEF RisingEdge
  <2>2. ReaderType' /\ (a'.out > 0 => a.cyc /\ r_a_owner)
    BY <2>1, ReaderStep
  <2>3. WriterType' /\ (b'.out > 0 => b.cyc /\ ~r_a_owner)
    BY <2>1, WriterStep
  <2>4. /\ r_a_owner' \in BOOLEAN
        /\ a.cyc /\ r_a_owner => r_a_owner'
        /\ b.cyc /\ ~r_a_owner => ~r_a_owner'
    BY <2>1, ArbiterStep
  <2> QED BY <2>2, <2>3, <2>4 DEF OwnerInv, OwnerKeepsCycle
<1>2. CASE AbortedEdge
  <2>1. Arbitrate /\ a' = ReaderIdle /\ b' = WriterIdle
    BY <1>2 DEF AbortedEdge
  <2>2. ReaderType' /\ a'.out = 0
    BY <2>1 DEF ReaderIdle, ReaderType
  <2>3. WriterType' /\ b'.out = 0
    BY <2>1, MemAssumption DEF WriterIdle, WriterType
  <2>4. r_a_owner' \in BOOLEAN
    BY <2>1, ArbiterStep
  <2> QED BY <2>2, <2>3, <2>4 DEF OwnerInv, OwnerKeepsCycle
<1>3. CASE \E stall \in BOOLEAN : FallingEdge(stall)
  <2>1. a' = a /\ b' = b /\ r_a_owner' = r_a_owner
    BY <1>3 DEF FallingEdge
  <2> QED BY <2>1 DEF OwnerInv, ReaderType, WriterType, OwnerKeepsCycle
<1>4. CASE UNCHANGED vars
  <2>1. a' = a /\ b' = b /\ r_a_owner' = r_a_owner
    BY <1>4 DEF vars, busVars
  <2> QED BY <2>1 DEF OwnerInv, ReaderType, WriterType, OwnerKeepsCycle
<1> QED BY <1>1, <1>2, <1>3, <1>4 DEF Next

\* An engine with requests in flight owns the bus, and keeps it until they are
\* answered or dropped: no answer can reach the other engine.
THEOREM OwnerKeeps == Spec => []OwnerKeepsCycle
<1>1. OwnerInv => OwnerKeepsCycle
  BY DEF OwnerInv
<1> QED BY <1>1, OwnerInvInit, OwnerInvStep, PTL DEF Spec

-----------------------------------------------------------------------------
(* The ring of the memory.  An answer is as old as the clocks of the bus   *)
(* cycle since its slot was the head; it is given at the age Latency - 1.  *)

Latency == IF m_delay = 0 THEN 1 ELSE m_delay
Ages == 0 .. Latency - 1
NextHead == Before(m_head, -1)

LEMMA LeastNumber ==
  ASSUME NEW T \in SUBSET Nat, T # {}
  PROVE  \E n \in T : \A m \in T : n <= m
<1> DEFINE R == OpToRel(<, Nat)
<1>1. IsWellFoundedOn(R, Nat)
  BY NatLessThanWellFounded
<1>2. \A x, y \in Nat : <<x, y>> \in R <=> x < y
  BY DEF OpToRel
<1> HIDE DEF R
<1>3. PICK x \in T : \A y \in T : <<y, x>> \notin R
  BY <1>1, WFMin, Zenon
<1>4. \A y \in T : ~(y < x)
  BY <1>2, <1>3, Zenon
<1> QED BY <1>4

\* No power of two up to the delay's is too small to be counted by.
LEMMA PowersGrow ==
  ASSUME NEW d \in Delays
  PROVE  \A k \in 0 .. d : 2^k \in Nat /\ 2^k >= k + 1
<1> DEFINE Good(k) == 2^k \in Nat /\ 2^k >= k + 1
           T == {k \in 0 .. d : ~Good(k)}
<1> SUFFICES ASSUME T # {} PROVE FALSE
  OBVIOUS
<1>1. d \in Nat
  BY MemAssumption
<1>2. T \in SUBSET Nat
  BY <1>1
<1>3. PICK n \in T : \A i \in T : n <= i
  BY <1>2, LeastNumber
<1>4. n \in 1 .. d /\ ~Good(n)
  <2>1. Good(0)
    OBVIOUS
  <2> HIDE DEF Good
  <2> QED BY <1>1, <1>3, <2>1
<1>5. n - 1 \in 0 .. d /\ ~(n <= n - 1) /\ (n - 1) + 1 = n
  BY <1>1, <1>4
<1>6. Good(n - 1)
  BY <1>3, <1>5
<1>7. 2^n = 2 * 2^(n - 1)
  BY <1>5, PowersAssumption
<1> QED BY <1>4, <1>6, <1>7

LEMMA RingFacts ==
  ASSUME NEW d \in Delays
  PROVE  /\ d \in Nat /\ RingSize(d) \in Nat \ {0} /\ d <= RingSize(d)
         /\ d = 0 => RingSize(d) = 1
<1> DEFINE T == {n \in {2 ^ k : k \in 0 .. d} : n >= d}
<1>1. d \in Nat
  BY MemAssumption
<1>2. \A k \in 0 .. d : 2^k \in Nat /\ 2^k >= k + 1
  BY PowersGrow
<1>3. T \in SUBSET Nat /\ 2^d \in T
  BY <1>1, <1>2
<1>4. PICK n \in T : \A m \in T : n <= m
  <2> HIDE DEF T
  <2> QED BY <1>3, LeastNumber
<1>5. /\ n \in {2 ^ k : k \in 0 .. d} /\ n >= d
      /\ \A k \in 0 .. d : 2 ^ k >= d => n <= 2 ^ k
  BY <1>4
<1>6. /\ RingSize(d) \in {2 ^ k : k \in 0 .. d} /\ RingSize(d) >= d
  BY <1>5 DEF RingSize
<1>7. PICK k \in 0 .. d : RingSize(d) = 2^k
  BY <1>6
<1>8. RingSize(d) \in Nat \ {0}
  BY <1>1, <1>2, <1>7
<1>9. d = 0 => RingSize(d) = 1
  BY <1>1, <1>7
<1> QED BY <1>1, <1>6, <1>8, <1>9

LEMMA Positions ==
  ASSUME m_delay \in Delays, m_head \in Slots
  PROVE  /\ Latency \in Nat \ {0} /\ NextHead \in Slots /\ Before(NextHead, 0) = NextHead
         /\ m_delay \in Nat /\ m_delay \div 2 \in Ages
         /\ \A k \in Ages : Before(m_head, k) \in Slots /\ Before(NextHead, k) \in Slots
         /\ \A k \in Ages : k > 0 => /\ Before(NextHead, k) = Before(m_head, k - 1)
                                    /\ k - 1 \in Ages
         /\ \A j, k \in Ages : j # k => Before(NextHead, j) # Before(NextHead, k)
         /\ Before(m_head + 1, m_delay) = Before(m_head, Latency - 1)
<1> DEFINE R == RingSize(m_delay)
           h == m_head
           n == NextHead
<1>1. /\ m_delay \in Nat /\ R \in Nat \ {0} /\ m_delay <= R /\ (m_delay = 0 => R = 1)
      /\ Latency \in Nat \ {0} /\ Latency <= R
  BY RingFacts DEF Latency
<1>2. h \in 0 .. R - 1
  BY DEF Slots
<1> HIDE DEF R
<1>3. ASSUME NEW r \in Nat \ {0}, NEW x \in Int
      PROVE  /\ x >= 0 /\ x < r => x % r = x
             /\ x >= -r /\ x < 0 => x % r = x + r
             /\ x = r => x % r = 0
  OBVIOUS
<1>4. n = IF h + 1 = R THEN 0 ELSE h + 1
  <2>1. n = (h - (-1)) % R
    BY DEF NextHead, Before, R
  <2>2. h - (-1) = h + 1
    BY <1>2
  <2> QED BY <1>1, <1>2, <1>3, <2>1, <2>2
<1>5. n \in 0 .. R - 1
  BY <1>1, <1>2, <1>4
<1>6. ASSUME NEW k \in Ages
      PROVE  /\ Before(h, k) = IF k <= h THEN h - k ELSE h - k + R
             /\ Before(n, k) = IF k <= n THEN n - k ELSE n - k + R
  <2>1. k \in Nat /\ k < R
    BY <1>1 DEF Ages
  <2>2. Before(h, k) = (h - k) % R /\ Before(n, k) = (n - k) % R
    BY DEF Before, R
  <2> HIDE DEF n
  <2>3. h - k \in Int /\ n - k \in Int /\ h - k >= -R /\ h - k < R /\ n - k >= -R /\ n - k < R
    BY <1>1, <1>2, <1>5, <2>1
  <2>4. (h - k) % R = IF k <= h THEN h - k ELSE h - k + R
    <3>1. CASE k <= h
      <4>1. h - k >= 0
        BY <1>2, <2>1, <3>1
      <4> QED BY <1>1, <1>3, <2>3, <3>1, <4>1
    <3>2. CASE ~(k <= h)
      <4>1. h - k < 0
        BY <1>2, <2>1, <3>2
      <4> QED BY <1>1, <1>3, <2>3, <3>2, <4>1
    <3> QED BY <3>1, <3>2
  <2>5. (n - k) % R = IF k <= n THEN n - k ELSE n - k + R
    BY <1>1, <1>5, <1>3, <2>1, <2>3
  <2> QED BY <2>2, <2>4, <2>5
<1>7. m_delay \div 2 \in Ages
  BY <1>1 DEF Latency, Ages
<1>8. \A k \in Ages : k \in Nat /\ k < R /\ (k > 0 => k - 1 \in Ages)
  BY <1>1 DEF Ages
<1>9. 0 \in Ages /\ Latency - 1 \in Ages
  BY <1>1 DEF Ages
<1> HIDE DEF n
<1>10. \A k \in Ages : Before(h, k) \in 0 .. R - 1 /\ Before(n, k) \in 0 .. R - 1
  BY <1>1, <1>2, <1>5, <1>6, <1>8
<1>11. \A k \in Ages : k > 0 => Before(n, k) = Before(h, k - 1)
  BY <1>1, <1>2, <1>4, <1>6, <1>8
<1>12. \A j, k \in Ages : j # k => Before(n, j) # Before(n, k)
  <2> SUFFICES ASSUME NEW j \in Ages, NEW k \in Ages, j # k
               PROVE  Before(n, j) # Before(n, k)
    OBVIOUS
  <2>1. /\ Before(n, j) = IF j <= n THEN n - j ELSE n - j + R
        /\ Before(n, k) = IF k <= n THEN n - k ELSE n - k + R
    BY <1>6
  <2>2. j \in Nat /\ k \in Nat /\ j < R /\ k < R
    BY <1>8
  <2> QED BY <1>1, <1>5, <2>1, <2>2
<1>13. Before(n, 0) = n
  BY <1>5, <1>6, <1>9
<1>14. Before(h + 1, m_delay) = Before(h, Latency - 1)
  <2>1. CASE m_delay = 0
    <3>1. R = 1 /\ h = 0 /\ Latency = 1
      BY <1>1, <1>2, <2>1 DEF Latency
    <3>2. Before(h + 1, m_delay) = (h + 1 - m_delay) % R
      BY <1>1, <1>2 DEF Before, R
    <3>3. h + 1 - m_delay = 1
      BY <2>1, <3>1
    <3>4. Before(h + 1, m_delay) = 0
      BY <3>1, <3>2, <3>3
    <3> QED BY <1>6, <1>9, <3>1, <3>4
  <2>2. CASE m_delay # 0
    <3>1. Latency = m_delay
      BY <2>2 DEF Latency
    <3>2. h + 1 - m_delay = h - (m_delay - 1)
      BY <1>1, <1>2
    <3> QED BY <1>1, <1>2, <3>1, <3>2 DEF Before
  <2> QED BY <2>1, <2>2
<1>15. Slots = 0 .. R - 1
  BY DEF Slots, R
<1> QED BY <1>1, <1>5, <1>7, <1>8, <1>10, <1>11, <1>12, <1>13, <1>14, <1>15 DEF n

MemType ==
  /\ m_delay \in Delays /\ m_mem \in [Addresses -> Values] /\ m_head \in Slots
  /\ m_fifo_ack \in [Slots -> BOOLEAN] /\ m_fifo_data \in [Slots -> Values]
  /\ m_cleared \in BOOLEAN /\ o_stall \in BOOLEAN /\ o_ack \in BOOLEAN /\ o_data \in Values

\* The memory takes the request on the bus unless it stalls.
Served(stall) == Apply(o_stb, ~r_a_owner, o_adr, b.data, stall)

\* f tells the ages of the n answers in the ring, the oldest first.  The third
\* conjunct follows from the second; to have it here saves an induction.
Queued(f, n) ==
  /\ f \in [1 .. n -> Ages]
  /\ \A i, j \in 1 .. n : i < j => f[i] > f[j]
  /\ \A i \in 1 .. n : f[i] >= n - i
  /\ \A k \in Ages : m_fifo_ack[Before(m_head, k)] <=> \E i \in 1 .. n : f[i] = k

LEMMA QueueFits ==
  ASSUME MemType, NEW n \in Nat, NEW f, Queued(f, n)
  PROVE  n <= Latency
<1>1. Latency \in Nat \ {0}
  BY Positions DEF MemType
<1>2. CASE n > 0
  <2>1. 1 \in 1 .. n /\ f[1] \in Ages /\ f[1] >= n - 1
    BY <1>2 DEF Queued
  <2>2. f[1] \in Int /\ f[1] <= Latency - 1
    BY <1>1, <2>1 DEF Ages
  <2> QED BY <1>1, <2>1, <2>2
<1> QED BY <1>1, <1>2

\* An accepted request's answer is put at an age p behind all others; the rest
\* of the ring grows a clock older.
LEMMA RingPuts ==
  ASSUME MemType, r_a_owner \in BOOLEAN, o_stb \in BOOLEAN, NEW stall \in BOOLEAN, Served(stall)
  PROVE  /\ m_head' = NextHead /\ m_delay' = m_delay
         /\ o_ack' = m_fifo_ack[Before(m_head, Latency - 1)]
         /\ o_data' = m_fifo_data[Before(m_head, Latency - 1)]
         /\ \E p \in Ages :
              /\ \A k \in Ages : m_fifo_ack'[Before(NextHead, k)]
                               <=> \/ o_stb /\ ~stall /\ k = p
                                   \/ k > 0 /\ m_fifo_ack[Before(m_head, k - 1)]
              /\ \A k \in Ages : k > 0 /\ k <= p => ~m_fifo_ack[Before(m_head, k - 1)]
              /\ r_a_owner => p = 0
         /\ r_a_owner => \A k \in Ages :
              /\ k > 0 => m_fifo_data'[Before(NextHead, k)] = m_fifo_data[Before(m_head, k - 1)]
              /\ k = 0 /\ o_stb /\ ~stall => m_fifo_data'[Before(NextHead, k)] = m_mem[o_adr]
<1> DEFINE acks == Freed(NextHead)
           put == o_stb /\ ~stall
           slot == IF ~r_a_owner THEN WriteSlot(acks, NextHead) ELSE NextHead
<1>1. /\ Latency \in Nat \ {0} /\ NextHead \in Slots /\ Before(NextHead, 0) = NextHead
      /\ m_delay \in Nat /\ m_delay \div 2 \in Ages
      /\ \A k \in Ages : Before(m_head, k) \in Slots /\ Before(NextHead, k) \in Slots
      /\ \A k \in Ages : k > 0 => /\ Before(NextHead, k) = Before(m_head, k - 1)
                                 /\ k - 1 \in Ages
      /\ \A j, k \in Ages : j # k => Before(NextHead, j) # Before(NextHead, k)
      /\ Before(m_head + 1, m_delay) = Before(m_head, Latency - 1)
  BY Positions DEF MemType
<1>2. /\ m_head' = NextHead /\ m_delay' = m_delay
      /\ o_ack' = m_fifo_ack[Before(m_head + 1, m_delay)]
      /\ o_data' = m_fifo_data[Before(m_head + 1, m_delay)]
      /\ m_fifo_ack' = IF put THEN [acks EXCEPT ![slot] = TRUE] ELSE acks
      /\ m_fifo_data' = IF put /\ r_a_owner
                        THEN [m_fifo_data EXCEPT ![NextHead] = m_mem[o_adr]] ELSE m_fifo_data
  BY DEF Served, Apply, NextHead, DataSlot
<1>3. /\ acks \in [Slots -> BOOLEAN] /\ ~acks[NextHead]
      /\ \A k \in Slots : k # NextHead => acks[k] = m_fifo_ack[k]
  BY <1>1 DEF Freed, MemType
<1>4. 0 \in Ages /\ \A k \in Ages : k \in Nat
  BY <1>1 DEF Ages
<1>5. \A k \in Ages : k > 0 => Before(NextHead, k) # NextHead
  BY <1>1, <1>4
<1>6. \A k \in Ages : k > 0 => acks[Before(NextHead, k)] = m_fifo_ack[Before(m_head, k - 1)]
  BY <1>1, <1>3, <1>5
<1> HIDE DEF acks, put, slot
<1>7. PICK p \in Ages : /\ slot = Before(NextHead, p)
                        /\ \A k \in Ages : k > 0 /\ k <= p => ~m_fifo_ack[Before(m_head, k - 1)]
                        /\ r_a_owner => p = 0
  <2>1. CASE slot = NextHead
    <3>1. slot = Before(NextHead, 0) /\ \A k \in Ages : ~(k > 0 /\ k <= 0)
      BY <1>1, <1>4, <2>1
    <3> QED BY <1>4, <3>1
  <2>2. CASE slot # NextHead
    <3>1. ~r_a_owner /\ slot = WriteSlot(acks, NextHead)
      BY <2>2 DEF slot
    <3>2. /\ slot = Before(NextHead, m_delay \div 2)
          /\ \A k \in 1 .. m_delay \div 2 : ~acks[Before(NextHead, k)]
      BY <2>2, <3>1 DEF WriteSlot
    <3>3. \A k \in Ages : k > 0 /\ k <= m_delay \div 2 => k \in 1 .. m_delay \div 2
      BY <1>1, <1>4
    <3>4. \A k \in Ages : k > 0 /\ k <= m_delay \div 2 => ~m_fifo_ack[Before(m_head, k - 1)]
      BY <1>6, <3>2, <3>3
    <3> QED BY <1>1, <3>1, <3>2, <3>4
  <2> QED BY <2>1, <2>2
<1>8. slot \in Slots
  BY <1>1, <1>7
<1>9. \A k \in Ages : m_fifo_ack'[Before(NextHead, k)]
                       <=> (put /\ k = p) \/ (k > 0 /\ m_fifo_ack[Before(m_head, k - 1)])
  <2> SUFFICES ASSUME NEW k \in Ages
               PROVE  m_fifo_ack'[Before(NextHead, k)]
                       <=> (put /\ k = p) \/ (k > 0 /\ m_fifo_ack[Before(m_head, k - 1)])
    OBVIOUS
  <2>1. acks[Before(NextHead, k)] <=> k > 0 /\ m_fifo_ack[Before(m_head, k - 1)]
    <3>1. CASE k = 0
      BY <1>1, <1>3, <3>1
    <3>2. CASE k > 0
      BY <1>6, <3>2
    <3> QED BY <1>4, <3>1, <3>2
  <2>2. CASE ~put
    BY <1>2, <2>1, <2>2
  <2>3. CASE put
    <3>1. m_fifo_ack' = [acks EXCEPT ![slot] = TRUE]
      BY <1>2, <2>3
    <3>2. CASE k = p
      <4>1. m_fifo_ack'[Before(NextHead, k)]
        BY <1>3, <1>7, <1>8, <3>1, <3>2
      <4> QED BY <2>3, <3>2, <4>1
    <3>3. CASE k # p
      <4>1. Before(NextHead, k) # slot
        BY <1>1, <1>7, <3>3
      <4>2. m_fifo_ack'[Before(NextHead, k)] = acks[Before(NextHead, k)]
        BY <1>1, <1>3, <3>1, <4>1
      <4> QED BY <2>1, <3>3, <4>2
    <3> QED BY <3>2, <3>3
  <2> QED BY <2>2, <2>3
<1>10. ASSUME r_a_owner, NEW k \in Ages
       PROVE  /\ k > 0 => m_fifo_data'[Before(NextHead, k)] = m_fifo_data[Before(m_head, k - 1)]
              /\ k = 0 /\ put => m_fifo_data'[Before(NextHead, k)] = m_mem[o_adr]
  <2>1. m_fifo_data \in [Slots -> Values] /\ Before(NextHead, k) \in Slots
    BY <1>1 DEF MemType
  <2>2. CASE k > 0
    <3>1. Before(NextHead, k) # NextHead /\ Before(NextHead, k) = Before(m_head, k - 1)
      BY <1>1, <1>5, <2>2
    <3> QED BY <1>2, <1>4, <2>1, <2>2, <3>1
  <2>3. CASE k = 0
    BY <1>1, <1>2, <1>10, <2>1, <2>3
  <2> QED BY <1>4, <2>2, <2>3
<1> QED BY <1>1, <1>2, <1>7, <1>9, <1>10, Zenon DEF put

\* The queue f of n answers becomes g: gone have left it, put have joined.
Moved(f, n, g, gone, put) ==
  /\ Queued(g, n - gone + put)'
  /\ r_a_owner =>
       /\ \A i \in 1 .. n - gone : m_fifo_data'[Before(NextHead, g[i])]
                                = m_fifo_data[Before(m_head, f[i + gone])]
       /\ put = 1 => m_fifo_data'[Before(NextHead, g[n - gone + put])] = m_mem[o_adr]

\* An accepted request joins the queue, and the oldest answer leaves it when it
\* has come of age.
LEMMA RingStep ==
  ASSUME MemType, r_a_owner \in BOOLEAN, o_stb \in BOOLEAN, NEW stall \in BOOLEAN, Served(stall),
         NEW n \in Nat, NEW f, Queued(f, n),
         NEW gone \in {0, 1}, gone = 1 <=> o_ack',
         NEW put \in {0, 1}, put = 1 <=> o_stb /\ ~stall
  PROVE  /\ gone <= n
         /\ gone = 1 => o_data' = m_fifo_data[Before(m_head, f[1])]
         /\ \E g : Moved(f, n, g, gone, put)
<1>1. /\ Latency \in Nat \ {0}
      /\ \A k \in Ages : k > 0 => k - 1 \in Ages
  BY Positions DEF MemType
<1>2. /\ m_head' = NextHead /\ m_delay' = m_delay
      /\ o_ack' = m_fifo_ack[Before(m_head, Latency - 1)]
      /\ o_data' = m_fifo_data[Before(m_head, Latency - 1)]
  BY RingPuts
<1>3. PICK p \in Ages :
              /\ \A k \in Ages : m_fifo_ack'[Before(NextHead, k)]
                               <=> \/ o_stb /\ ~stall /\ k = p
                                   \/ k > 0 /\ m_fifo_ack[Before(m_head, k - 1)]
              /\ \A k \in Ages : k > 0 /\ k <= p => ~m_fifo_ack[Before(m_head, k - 1)]
              /\ r_a_owner => p = 0
  BY RingPuts
<1>4. r_a_owner => \A k \in Ages :
              /\ k > 0 => m_fifo_data'[Before(NextHead, k)] = m_fifo_data[Before(m_head, k - 1)]
              /\ k = 0 /\ o_stb /\ ~stall => m_fifo_data'[Before(NextHead, k)] = m_mem[o_adr]
  BY RingPuts
<1>5. /\ f \in [1 .. n -> Ages]
      /\ \A i, j \in 1 .. n : i < j => f[i] > f[j]
      /\ \A i \in 1 .. n : f[i] >= n - i
      /\ \A k \in Ages : m_fifo_ack[Before(m_head, k)] <=> \E i \in 1 .. n : f[i] = k
  BY DEF Queued
<1>6. \A k \in Int : k \in Ages <=> 0 <= k /\ k < Latency
  BY <1>1 DEF Ages
<1>7. /\ Latency - 1 \in Ages /\ Ages \subseteq Int
      /\ \A k \in Ages : k \in Int /\ 0 <= k /\ k < Latency
      /\ \A i \in 1 .. n : f[i] \in Int /\ 0 <= f[i] /\ f[i] < Latency
  <2>1. \A k \in Ages : k \in Int /\ 0 <= k /\ k < Latency
    BY <1>1 DEF Ages
  <2>2. \A i \in 1 .. n : f[i] \in Ages
    BY <1>5
  <2> QED BY <1>1, <2>1, <2>2 DEF Ages
<1>9. o_ack' <=> n > 0 /\ f[1] = Latency - 1
  <2>1. o_ack' <=> \E i \in 1 .. n : f[i] = Latency - 1
    BY <1>2, <1>5, <1>7
  <2>2. ASSUME NEW i \in 1 .. n, f[i] = Latency - 1 PROVE n > 0 /\ f[1] = Latency - 1
    <3>1. n > 0 /\ 1 \in 1 .. n /\ f[1] \in Ages
      BY <1>5
    <3>2. i # 1 => f[1] > f[i]
      BY <1>5, <3>1
    <3>3. ~(f[1] > Latency - 1)
      BY <1>1, <1>6, <1>7, <3>1
    <3> QED BY <2>2, <3>1, <3>2, <3>3
  <2>3. n > 0 => 1 \in 1 .. n
    OBVIOUS
  <2> QED BY <2>1, <2>2, <2>3
<1>10. gone <= n /\ (gone = 1 => o_data' = m_fifo_data[Before(m_head, f[1])])
  BY <1>2, <1>9
<1> DEFINE r == n - gone
           m == r + put
           g == [i \in 1 .. m |-> IF i <= r THEN f[i + gone] + 1 ELSE p]
<1>11. r \in Nat /\ m \in Nat /\ r <= m /\ m <= r + 1 /\ (put = 1 => m = r + 1) /\ (put = 0 => m = r)
  BY <1>10
<1>12. ASSUME NEW i \in 1 .. r
       PROVE  /\ i + gone \in 1 .. n /\ i \in 1 .. m /\ g[i] = f[i + gone] + 1
              /\ g[i] \in Ages /\ g[i] - 1 \in Ages /\ g[i] > 0
  <2>1. i + gone \in 1 .. n /\ i \in 1 .. m /\ i <= r
    BY <1>10, <1>11
  <2>2. g[i] = f[i + gone] + 1 /\ f[i + gone] \in Ages
    BY <1>5, <2>1
  <2>3. f[i + gone] # Latency - 1
    <3>1. CASE gone = 1
      <4>1. 1 \in 1 .. n /\ i + gone > 1
        BY <2>1, <3>1
      <4>2. f[1] = Latency - 1 /\ f[1] > f[i + gone]
        BY <1>5, <1>9, <2>1, <3>1, <4>1
      <4> QED BY <1>1, <1>6, <1>7, <2>2, <4>2
    <3>2. CASE gone = 0
      <4>1. ~o_ack'
        BY <3>2
      <4> QED BY <1>2, <1>5, <1>7, <2>1, <4>1
    <3> QED BY <3>1, <3>2
  <2> HIDE DEF g
  <2>4. f[i + gone] \in Int /\ 0 <= f[i + gone] /\ f[i + gone] < Latency
    BY <1>6, <1>7, <2>2
  <2>5. g[i] \in Ages /\ g[i] - 1 \in Ages /\ g[i] > 0
    BY <1>1, <1>6, <2>2, <2>3, <2>4
  <2> QED BY <2>1, <2>2, <2>5
<1>13. ASSUME put = 1 PROVE m \in 1 .. m /\ m \notin 1 .. r /\ g[m] = p
  BY <1>11, <1>13
<1>14. \A i \in 1 .. m : i \in 1 .. r \/ (put = 1 /\ i = m)
  BY <1>11
<1>15. g \in [1 .. m -> Ages]
  BY <1>12, <1>13, <1>14
<1>16. \A i \in 1 .. r : g[i] > p
  <2> SUFFICES ASSUME NEW i \in 1 .. r, ~(g[i] > p) PROVE FALSE
    OBVIOUS
  <2> HIDE DEF g
  <2>1. /\ i + gone \in 1 .. n /\ f[i + gone] = g[i] - 1 /\ g[i] \in Ages /\ g[i] - 1 \in Ages /\ g[i] > 0
        /\ g[i] <= p
    <3>1. /\ i + gone \in 1 .. n /\ g[i] = f[i + gone] + 1
          /\ g[i] \in Ages /\ g[i] - 1 \in Ages /\ g[i] > 0
      BY <1>12
    <3>2. g[i] \in Int /\ f[i + gone] \in Int /\ p \in Int
      BY <1>7, <3>1
    <3> QED BY <3>1, <3>2
  <2>2. m_fifo_ack[Before(m_head, g[i] - 1)]
    BY <1>5, <2>1
  <2> QED BY <1>3, <2>1, <2>2
<1> HIDE DEF g, r, m
<1>17. ASSUME NEW i \in 1 .. m, NEW j \in 1 .. m, i < j PROVE g[i] > g[j]
  <2>1. i \in 1 .. r
    BY <1>11, <1>14, <1>17
  <2>2. CASE j \in 1 .. r
    <3>1. i + gone \in 1 .. n /\ j + gone \in 1 .. n /\ i + gone < j + gone
      BY <1>12, <1>17, <2>1, <2>2
    <3>2. f[i + gone] > f[j + gone] /\ f[i + gone] \in Int /\ f[j + gone] \in Int
      BY <1>5, <1>7, <3>1
    <3>3. g[i] = f[i + gone] + 1 /\ g[j] = f[j + gone] + 1
      BY <1>12, <2>1, <2>2
    <3> QED BY <3>2, <3>3
  <2>3. CASE put = 1 /\ j = m
    BY <1>13, <1>16, <2>1, <2>3
  <2> QED BY <1>14, <2>2, <2>3
<1>18. ASSUME NEW i \in 1 .. m PROVE g[i] >= m - i
  <2>1. CASE i \in 1 .. r
    <3>1. i + gone \in 1 .. n /\ g[i] = f[i + gone] + 1
      BY <1>12, <2>1
    <3>2. f[i + gone] >= n - (i + gone) /\ f[i + gone] \in Int
      BY <1>5, <1>7, <3>1
    <3>3. n - (i + gone) + 1 >= m - i
      BY <1>11 DEF r
    <3> QED BY <1>11, <3>1, <3>2, <3>3
  <2>2. CASE put = 1 /\ i = m
    <3>1. g[i] = p /\ p >= 0
      BY <1>1, <1>13, <2>2 DEF Ages
    <3> QED BY <1>11, <2>2, <3>1
  <2> QED BY <1>14, <2>1, <2>2
<1>19. ASSUME NEW k \in Ages
       PROVE  m_fifo_ack'[Before(NextHead, k)] <=> \E i \in 1 .. m : g[i] = k
  <2>1. ASSUME m_fifo_ack'[Before(NextHead, k)] PROVE \E i \in 1 .. m : g[i] = k
    <3>1. CASE o_stb /\ ~stall /\ k = p
      BY <1>13, <3>1
    <3>2. CASE k > 0 /\ m_fifo_ack[Before(m_head, k - 1)]
      <4>1. PICK j \in 1 .. n : f[j] = k - 1
        BY <1>1, <1>5, <3>2
      <4>2. ~(j = 1 /\ gone = 1)
        <5>1. k \in Int /\ k < Latency
          BY <1>6, <1>7
        <5> QED BY <1>1, <1>9, <4>1, <5>1
      <4>3. j - gone \in 1 .. r /\ (j - gone) + gone = j
        BY <1>10, <4>2 DEF r
      <4>4. g[j - gone] = k /\ j - gone \in 1 .. m
        <5>1. g[j - gone] = f[(j - gone) + gone] + 1 /\ j - gone \in 1 .. m
          BY <1>12, <4>3
        <5> QED BY <1>7, <4>1, <4>3, <5>1
      <4> QED BY <4>4
    <3> QED BY <1>3, <2>1, <3>1, <3>2
  <2>2. ASSUME NEW i \in 1 .. m, g[i] = k PROVE m_fifo_ack'[Before(NextHead, k)]
    <3>1. CASE i \in 1 .. r
      <4>1. i + gone \in 1 .. n /\ f[i + gone] = k - 1 /\ k > 0 /\ k - 1 \in Ages
        <5>1. i + gone \in 1 .. n /\ k = f[i + gone] + 1 /\ k > 0 /\ k - 1 \in Ages
          BY <1>12, <2>2, <3>1
        <5>2. f[i + gone] \in Int
          BY <1>7, <5>1
        <5> QED BY <5>1, <5>2
      <4>2. m_fifo_ack[Before(m_head, k - 1)]
        BY <1>5, <4>1
      <4> QED BY <1>3, <4>1, <4>2
    <3>2. CASE put = 1 /\ i = m
      BY <1>3, <1>13, <2>2, <3>2
    <3> QED BY <1>14, <3>1, <3>2
  <2> QED BY <2>1, <2>2
<1>20. Ages' = Ages /\ \A k : Before(m_head, k)' = Before(NextHead, k)
  BY <1>2 DEF Ages, Latency, Before
<1>21. Queued(g, n - gone + put)'
  <2>1. Queued(g, m)'
    BY <1>15, <1>17, <1>18, <1>19, <1>20 DEF Queued
  <2> QED BY <2>1 DEF m, r
<1>22. ASSUME r_a_owner
       PROVE  /\ \A i \in 1 .. r : m_fifo_data'[Before(NextHead, g[i])]
                                = m_fifo_data[Before(m_head, f[i + gone])]
              /\ put = 1 => m_fifo_data'[Before(NextHead, g[m])] = m_mem[o_adr]
  <2>1. ASSUME NEW i \in 1 .. r
        PROVE  m_fifo_data'[Before(NextHead, g[i])] = m_fifo_data[Before(m_head, f[i + gone])]
    <3>1. g[i] \in Ages /\ g[i] > 0 /\ g[i] - 1 = f[i + gone]
      <4>1. i + gone \in 1 .. n /\ g[i] = f[i + gone] + 1 /\ g[i] \in Ages /\ g[i] > 0
        BY <1>12
      <4>2. f[i + gone] \in Int
        BY <1>7, <4>1
      <4> QED BY <4>1, <4>2
    <3> QED BY <1>4, <1>22, <3>1
  <2>2. put = 1 => g[m] = 0 /\ 0 \in Ages /\ o_stb /\ ~stall
    BY <1>1, <1>3, <1>13, <1>22 DEF Ages
  <2> QED BY <1>4, <1>22, <2>1, <2>2
<1>23. n - gone = r /\ n - gone + put = m
  BY DEF r, m
<1>24. Moved(f, n, g, gone, put)
  BY <1>21, <1>22, <1>23 DEF Moved
<1> QED BY <1>10, <1>24

-----------------------------------------------------------------------------
(* The inductive invariant: what is in the ring is what the owner of the   *)
(* bus has counted as unanswered, in order.  A request is accepted at the  *)
(* falling edge and counted at the next rising one; an answer is on the    *)
(* bus from a falling edge to the next rising one.                         *)

Clear  == \A k \in Slots : ~m_fifo_ack[k]
OnBus  == IF ~clk /\ o_ack THEN 1 ELSE 0
Sent   == IF ~clk /\ (aSent \/ bSent) THEN 1 ELSE 0
Out    == IF r_a_owner THEN a.out ELSE b.out
InRing == Out + Sent - OnBus

\* The data of the reads accepted and not answered.
Due == expected \o (IF ~clk /\ aSent THEN <<m_mem[a.addr]>> ELSE << >>)

RingHolds(f) ==
  /\ InRing >= 0 /\ Queued(f, InRing)
  /\ r_a_owner => \A i \in 1 .. InRing : m_fifo_data[Before(m_head, f[i])] = Due[i + OnBus]

RingInv ==
  /\ ~clk /\ ~o_cyc => Clear /\ ~o_ack
  /\ ~clk /\ o_ack => Out > 0 /\ (r_a_owner => o_data = Head(expected))
  /\ o_cyc => \E f : RingHolds(f)

ReaderInv ==
  /\ (a.cyc => a.busy) /\ (a.stb => a.cyc) /\ (a.stb <=> a.len > 0)
  /\ 0 <= a.len /\ 0 <= a.out /\ a.out <= a.addr /\ a.addr + a.len <= Words
  /\ ~a.cyc => a.out = 0
  /\ expected \in Seq(Values) /\ Len(expected) = a.out

WriterInv ==
  /\ (b.cyc => b.busy) /\ (b.stb => b.cyc)
  /\ 0 <= b.out /\ b.out <= b.addr /\ b.out <= Latency
  /\ ~b.cyc => b.out = 0
  /\ NextAddr <= Words
  /\ taken \in Seq(Values) /\ Len(taken) <= Words /\ (~b.last => Len(taken) <= NextAddr)
  /\ b.stb => taken # << >> /\ b.data = taken[Len(taken)]

BusInv ==
  /\ MemType /\ (m_cleared => Clear)
  /\ clk \in BOOLEAN /\ last_owner \in BOOLEAN
  /\ OwnerInv /\ ReaderInv /\ WriterInv /\ RingInv

\* The registers of the engines, as the arithmetic needs them.
LEMMA EngineFacts ==
  ASSUME OwnerInv
  PROVE  /\ a.busy \in BOOLEAN /\ a.cyc \in BOOLEAN /\ a.stb \in BOOLEAN
         /\ a.addr \in Int /\ a.len \in Int /\ a.out \in Int
         /\ b.busy \in BOOLEAN /\ b.cyc \in BOOLEAN /\ b.stb \in BOOLEAN /\ b.last \in BOOLEAN
         /\ b.addr \in Int /\ b.out \in Int /\ b.data \in Values
         /\ r_a_owner \in BOOLEAN /\ o_cyc \in BOOLEAN /\ o_stb \in BOOLEAN
         /\ NextAddr = IF b.stb THEN b.addr + 1 ELSE b.addr
         /\ aSent \in BOOLEAN /\ bSent \in BOOLEAN
BY DEF OwnerInv, ReaderType, WriterType, o_cyc, o_stb, NextAddr, aSent, bSent

LEMMA EmptyQueue ==
  ASSUME MemType, Clear PROVE \E f : Queued(f, 0)
<1> DEFINE f == [i \in 1 .. 0 |-> 0]
<1>1. \A k \in Ages : Before(m_head, k) \in Slots
  BY Positions DEF MemType
<1>2. \A k \in Ages : ~m_fifo_ack[Before(m_head, k)]
  BY <1>1 DEF Clear
<1>3. f \in [1 .. 0 -> Ages] /\ \A i \in 1 .. 0 : FALSE
  OBVIOUS
<1>4. Queued(f, 0)
  BY <1>2, <1>3 DEF Queued
<1> QED BY <1>4

\* At a clock's rising edge, only the owner has a request accepted or answered,
\* and only within its cycle.
LEMMA OwnerActs ==
  ASSUME BusInv, ~clk
  PROVE  /\ aSent => r_a_owner /\ a.cyc /\ a.stb /\ ~o_stall
         /\ bSent => ~r_a_owner /\ b.cyc /\ b.stb /\ ~o_stall
         /\ o_a_ack => r_a_owner /\ a.cyc /\ a.out > 0 /\ expected # << >>
         /\ o_b_ack => ~r_a_owner /\ b.cyc /\ b.out > 0
         /\ ~r_a_owner => a.out = 0
         /\ r_a_owner => b.out = 0
<1>1. OwnerInv /\ ReaderInv /\ WriterInv /\ RingInv
  BY DEF BusInv
<1>2. aSent => r_a_owner /\ a.cyc /\ a.stb /\ ~o_stall
  BY <1>1 DEF aSent, o_a_stall, ReaderInv
<1>3. bSent => ~r_a_owner /\ b.cyc /\ b.stb /\ ~o_stall
  BY <1>1 DEF bSent, o_b_stall, WriterInv
<1>4. o_ack => Out > 0 /\ o_cyc
  BY <1>1 DEF RingInv
<1>5. o_a_ack => r_a_owner /\ a.cyc /\ a.out > 0
  BY <1>4 DEF o_a_ack, Out, o_cyc
<1>6. o_b_ack => ~r_a_owner /\ b.cyc /\ b.out > 0
  BY <1>4 DEF o_b_ack, Out, o_cyc
<1>7. (~r_a_owner => a.out = 0) /\ (r_a_owner => b.out = 0)
  BY <1>1, EngineFacts DEF OwnerInv, OwnerKeepsCycle, ReaderInv, WriterInv
<1>8. a.out > 0 => expected # << >>
  BY <1>1, EngineFacts DEF ReaderInv
<1> QED BY <1>2, <1>3, <1>5, <1>6, <1>7, <1>8

\* What a is owed after a rising edge: one answer less, one request more.
LEMMA OwedFacts ==
  ASSUME BusInv, ~clk
  PROVE  /\ Owed \in Seq(Values)
         /\ Len(Owed) = a.out + (IF aSent THEN 1 ELSE 0) - (IF o_a_ack THEN 1 ELSE 0)
         /\ r_a_owner => InRing = Len(Owed) /\ \A i \in 1 .. InRing : Owed[i] = Due[i + OnBus]
         /\ ~a.cyc => Owed = << >>
<1> DEFINE new == IF aSent THEN <<m_mem[a.addr]>> ELSE << >>
           old == IF o_a_ack THEN Tail(expected) ELSE expected
<1>1. /\ a.addr \in Int /\ a.len \in Int /\ a.out \in Int /\ aSent \in BOOLEAN /\ Words \in Nat
      /\ 0 <= a.out /\ a.out <= a.addr /\ a.addr + a.len <= Words /\ (a.stb => a.len > 0)
      /\ expected \in Seq(Values) /\ Len(expected) = a.out /\ (~a.cyc => a.out = 0)
  BY EngineFacts, MemAssumption DEF BusInv, ReaderInv
<1>2. /\ aSent => a.stb /\ r_a_owner /\ a.cyc
      /\ o_a_ack => expected # << >> /\ r_a_owner /\ a.cyc
      /\ r_a_owner => ~bSent
  BY OwnerActs
<1>3. aSent => m_mem[a.addr] \in Values
  <2>1. aSent => a.addr \in Addresses
    BY <1>1, <1>2 DEF Addresses
  <2> QED BY <2>1 DEF BusInv, MemType
<1>4. new \in Seq(Values) /\ Len(new) = IF aSent THEN 1 ELSE 0
  BY <1>3
<1>5. old \in Seq(Values) /\ Len(old) = a.out - (IF o_a_ack THEN 1 ELSE 0)
  BY <1>1, <1>2, HeadTailProperties
<1>6. Owed = old \o new
  BY DEF Owed
<1>7. Due = expected \o new
  BY DEF Due
<1> HIDE DEF new
<1>8. /\ Owed \in Seq(Values) /\ Len(Owed) = Len(old) + Len(new)
      /\ \A i \in 1 .. Len(Owed) : Owed[i] = IF i <= Len(old) THEN old[i] ELSE new[i - Len(old)]
  <2> HIDE DEF old
  <2>1. old \in Seq(Values) /\ new \in Seq(Values)
    BY <1>4, <1>5
  <2>2. /\ old \o new \in Seq(Values) /\ Len(old \o new) = Len(old) + Len(new)
        /\ \A i \in 1 .. Len(old) + Len(new) :
             (old \o new)[i] = IF i <= Len(old) THEN old[i] ELSE new[i - Len(old)]
    BY <2>1, ConcatProperties
  <2> QED BY <1>6, <2>2
<1>9. /\ Len(Due) = Len(expected) + Len(new)
      /\ \A i \in 1 .. Len(Due) : Due[i] = IF i <= Len(expected) THEN expected[i]
                                          ELSE new[i - Len(expected)]
  <2>1. expected \in Seq(Values) /\ new \in Seq(Values)
    BY <1>1, <1>4
  <2>2. /\ Len(expected \o new) = Len(expected) + Len(new)
        /\ \A i \in 1 .. Len(expected) + Len(new) :
             (expected \o new)[i] = IF i <= Len(expected) THEN expected[i] ELSE new[i - Len(expected)]
    BY <2>1, ConcatProperties
  <2> QED BY <1>7, <2>2
<1>10. /\ Len(Owed) = a.out + (IF aSent THEN 1 ELSE 0) - (IF o_a_ack THEN 1 ELSE 0)
       /\ Len(Owed) \in Nat /\ Len(old) \in Nat /\ Len(new) \in Nat /\ Len(Due) = a.out + Len(new)
  <2> HIDE DEF old
  <2>1. Len(Owed) = Len(old) + Len(new) /\ Owed \in Seq(Values)
    BY <1>8
  <2>2. Len(new) = (IF aSent THEN 1 ELSE 0) /\ Len(old) = a.out - (IF o_a_ack THEN 1 ELSE 0)
    BY <1>4, <1>5
  <2>3. Len(old) \in Nat /\ Len(new) \in Nat
    BY <1>4, <1>5, LenProperties
  <2>4. Len(Due) = a.out + Len(new)
    BY <1>1, <1>9
  <2> HIDE DEF new
  <2> QED BY <1>1, <2>1, <2>2, <2>3, <2>4
<1>11. ASSUME r_a_owner
       PROVE  InRing = Len(Owed) /\ \A i \in 1 .. InRing : Owed[i] = Due[i + OnBus]
  <2>1. OnBus = IF o_a_ack THEN 1 ELSE 0
    BY <1>11 DEF OnBus, o_a_ack
  <2>2. Sent = IF aSent THEN 1 ELSE 0
    BY <1>2, <1>11 DEF Sent
  <2>3. InRing = Len(Owed)
    BY <1>1, <1>10, <1>11, <2>1, <2>2 DEF InRing, Out
  <2>4. ASSUME NEW i \in 1 .. Len(Owed) PROVE Owed[i] = Due[i + OnBus]
    <3>1. CASE o_a_ack
      <4>1. OnBus = 1 /\ Len(old) = Len(expected) - 1 /\ expected # << >> /\ old = Tail(expected)
        BY <1>1, <1>2, <1>5, <2>1, <3>1
      <4>2. i + 1 \in 1 .. Len(Due)
        <5> HIDE DEF old
        <5>1. i \in 1 .. Len(old) + Len(new) /\ Len(old) = a.out - 1 /\ Len(Due) = a.out + Len(new)
          BY <1>1, <1>8, <1>10, <2>4, <4>1
        <5> QED BY <1>1, <1>10, <5>1
      <4>3. CASE i <= Len(old)
        <5>1. old[i] = expected[i + 1]
          BY <1>1, <4>1, <4>3
        <5> QED BY <1>1, <1>8, <1>9, <2>4, <4>1, <4>2, <4>3, <5>1
      <4>4. CASE ~(i <= Len(old))
        <5>1. i - Len(old) = (i + 1) - Len(expected) /\ ~(i + 1 <= Len(expected))
          BY <1>1, <4>1, <4>4
        <5> QED BY <1>8, <1>9, <2>4, <4>1, <4>2, <4>4, <5>1
      <4> QED BY <4>3, <4>4
    <3>2. CASE ~o_a_ack
      <4>1. i + OnBus = i /\ old = expected
        BY <2>1, <3>2
      <4>2. i \in 1 .. Len(Due)
        BY <1>8, <1>9, <4>1
      <4> QED BY <1>8, <1>9, <4>1, <4>2
    <3> QED BY <3>1, <3>2
  <2> QED BY <2>3, <2>4
<1>12. ~a.cyc => Owed = << >>
  <2>1. ~a.cyc => Len(Owed) = 0
    BY <1>1, <1>2, <1>10
  <2> QED BY <1>8, <2>1, EmptySeq
<1> QED BY <1>8, <1>10, <1>11, <1>12

\* The reading engine and what it is owed, over a rising edge without reset.
LEMMA ReaderClock ==
  ASSUME BusInv, ~clk, Reader, ReaderType', expected' = IF a.busy THEN Owed ELSE << >>
  PROVE  /\ ReaderInv'
         /\ expected' = Owed
<1>1. /\ a.addr \in Int /\ a.len \in Int /\ a.out \in Int /\ aSent \in BOOLEAN /\ Words \in Nat
      /\ a.busy \in BOOLEAN /\ a.cyc \in BOOLEAN /\ a.stb \in BOOLEAN
      /\ 0 <= a.len /\ 0 <= a.out /\ a.out <= a.addr /\ a.addr + a.len <= Words
      /\ (a.stb <=> a.len > 0) /\ (a.stb => a.cyc) /\ (a.cyc => a.busy)
      /\ expected \in Seq(Values) /\ Len(expected) = a.out /\ (~a.cyc => a.out = 0)
  BY EngineFacts, MemAssumption DEF BusInv, ReaderInv
<1>2. /\ aSent => a.stb /\ r_a_owner /\ a.cyc
      /\ o_a_ack => a.out > 0 /\ r_a_owner /\ a.cyc
  BY OwnerActs
<1>3. /\ Owed \in Seq(Values)
      /\ Len(Owed) = a.out + (IF aSent THEN 1 ELSE 0) - (IF o_a_ack THEN 1 ELSE 0)
      /\ ~a.cyc => Owed = << >>
  BY OwedFacts
<1>4. expected' = Owed
  BY <1>1, <1>3
<1>5. CASE ~a.busy
  <2>1. Owed = << >> /\ Len(Owed) = 0
    BY <1>1, <1>3, <1>5
  <2>2. Starts \subseteq Nat
    BY BusAssumption DEF Addresses
  <2>3. CASE a' = ReaderIdle
    <3>1. ~a'.busy /\ ~a'.cyc /\ ~a'.stb /\ a'.len = 0 /\ a'.out = 0 /\ a'.addr = 0
      BY <2>3 DEF ReaderIdle
    <3> QED BY <1>1, <1>3, <1>4, <2>1, <3>1 DEF ReaderInv
  <2>4. CASE a' # ReaderIdle
    <3>1. PICK addr \in Starts, len \in 1 .. Words :
               /\ addr + len <= Words
               /\ a' = [busy |-> TRUE, cyc |-> TRUE, stb |-> TRUE, addr |-> addr, len |-> len,
                        out |-> 0]
      BY <1>5, <2>4 DEF Reader, ReaderIdles
    <3>2. addr \in Nat /\ len \in Nat /\ len > 0 /\ addr + len <= Words
      BY <1>1, <2>2, <3>1
    <3>3. a'.busy /\ a'.cyc /\ a'.stb /\ a'.len = len /\ a'.out = 0 /\ a'.addr = addr
      BY <3>1
    <3> QED BY <1>3, <1>4, <2>1, <3>2, <3>3 DEF ReaderInv
  <2> QED BY <1>4, <2>3, <2>4
<1>6. CASE a.busy
  <2> DEFINE left == IF aSent THEN a.len - 1 ELSE a.len
  <2>1. a' = [busy |-> a.cyc, cyc |-> a.cyc /\ (a.stb \/ ~ReadsAnswered), stb |-> left > 0,
              addr |-> IF aSent THEN a.addr + 1 ELSE a.addr, len |-> left,
              out |-> Outstanding(a, aSent, o_a_ack)]
    BY <1>6 DEF Reader, ReaderRuns
  <2>2. /\ a'.busy = a.cyc /\ a'.cyc = (a.cyc /\ (a.stb \/ ~ReadsAnswered))
        /\ a'.stb = (left > 0) /\ a'.len = left
        /\ a'.addr = (IF aSent THEN a.addr + 1 ELSE a.addr)
        /\ a'.out = Outstanding(a, aSent, o_a_ack)
    BY <2>1
  <2>3. Outstanding(a, aSent, o_a_ack) = Len(Owed)
    BY <1>1, <1>2, <1>3 DEF Outstanding
  <2>4. left \in Int /\ 0 <= left /\ (left > 0 => a.stb)
    BY <1>1, <1>2
  <2>5. a'.out \in Int /\ 0 <= a'.out /\ a'.out <= a'.addr
    BY <1>1, <1>2, <1>3, <2>2, <2>3
  <2>6. a'.addr + a'.len <= Words
    BY <1>1, <1>2, <2>2
  <2>7. ~a'.cyc => a'.out = 0
    <3>1. CASE a.cyc /\ ~a.stb /\ ReadsAnswered
      BY <1>1, <1>2, <1>3, <2>2, <2>3, <3>1 DEF ReadsAnswered
    <3>2. CASE ~a.cyc
      BY <2>2, <3>2 DEF Outstanding
    <3> QED BY <2>2, <3>1, <3>2
  <2> HIDE DEF left
  <2>8. (a'.cyc => a'.busy) /\ (a'.stb => a'.cyc) /\ (a'.stb <=> a'.len > 0) /\ 0 <= a'.len
    BY <1>1, <2>2, <2>4
  <2> QED BY <1>3, <1>4, <2>2, <2>3, <2>5, <2>6, <2>7, <2>8 DEF ReaderInv
<1> QED BY <1>1, <1>4, <1>5, <1>6

\* The writing engine over a rising edge without reset.
LEMMA WriterClock ==
  ASSUME BusInv, ~clk, Writer, WriterType', m_delay' = m_delay
  PROVE  /\ WriterInv'
         /\ b'.out = b.out + (IF bSent THEN 1 ELSE 0) - (IF o_b_ack THEN 1 ELSE 0)
<1> DEFINE out == b.out + (IF bSent THEN 1 ELSE 0) - (IF o_b_ack THEN 1 ELSE 0)
           typed == /\ b'.busy \in BOOLEAN /\ b'.cyc \in BOOLEAN /\ b'.stb \in BOOLEAN
                    /\ b'.last \in BOOLEAN /\ b'.addr \in Int /\ b'.out \in Int
<1>1. /\ b.busy \in BOOLEAN /\ b.cyc \in BOOLEAN /\ b.stb \in BOOLEAN /\ b.last \in BOOLEAN
      /\ b.addr \in Int /\ b.out \in Int /\ b.data \in Values /\ Words \in Nat
      /\ NextAddr = (IF b.stb THEN b.addr + 1 ELSE b.addr) /\ NextAddr \in Int
      /\ bSent \in BOOLEAN /\ r_a_owner \in BOOLEAN
  BY EngineFacts, MemAssumption DEF BusInv
<1>2. /\ (b.cyc => b.busy) /\ (b.stb => b.cyc)
      /\ 0 <= b.out /\ b.out <= b.addr /\ b.out <= Latency
      /\ (~b.cyc => b.out = 0) /\ NextAddr <= Words
      /\ taken \in Seq(Values) /\ Len(taken) <= Words /\ (~b.last => Len(taken) <= NextAddr)
      /\ (b.stb => taken # << >> /\ b.data = taken[Len(taken)])
  BY DEF BusInv, WriterInv
<1>3. /\ bSent => ~r_a_owner /\ b.cyc /\ b.stb
      /\ o_b_ack => ~r_a_owner /\ b.cyc /\ b.out > 0
      /\ ~r_a_owner => ~aSent
      /\ b.stb /\ o_b_stall <=> b.stb /\ ~bSent
  BY <1>1, OwnerActs DEF bSent
<1>4. Latency \in Nat
  BY Positions DEF BusInv, MemType
<1>5. out \in Int /\ 0 <= out /\ out <= NextAddr /\ (~b.cyc => out = 0)
  BY <1>1, <1>2, <1>3
<1>6. out <= Latency
  <2>1. CASE ~r_a_owner /\ b.cyc
    <3>1. PICK f : RingHolds(f)
      BY <2>1 DEF BusInv, RingInv, o_cyc
    <3>2. InRing = out
      BY <1>3, <2>1 DEF InRing, Out, Sent, OnBus, o_b_ack
    <3> HIDE DEF out
    <3>3. out \in Nat /\ Queued(f, out)
      BY <1>5, <3>1, <3>2 DEF RingHolds
    <3> QED BY <3>3, QueueFits DEF BusInv
  <2>2. CASE ~(~r_a_owner /\ b.cyc)
    BY <1>1, <1>2, <1>3, <1>4, <2>2
  <2> QED BY <2>1, <2>2
<1>7. Outstanding(b, bSent, o_b_ack) = out
  BY <1>5 DEF Outstanding
<1>8. typed
  BY DEF WriterType
<1>9. NextAddr' = IF b'.stb THEN b'.addr + 1 ELSE b'.addr
  BY DEF NextAddr
<1>10. Latency' = Latency
  BY DEF Latency
<1>11. 0 <= Len(taken) /\ Len(taken) \in Int
  BY <1>2, LenProperties
<1> HIDE DEF out, typed
<1>12. CASE ~b.busy
  <2>1. WriterIdles /\ out = 0
    BY <1>1, <1>2, <1>5, <1>12 DEF Writer
  <2>2. taken' = << >> /\ Len(taken') = 0 /\ taken' \in Seq(Values)
    <3>1. taken' = << >>
      BY <2>1 DEF WriterIdles
    <3> QED BY <3>1, EmptySeq
  <2>3. \A addr \in Starts : addr \in Int /\ 0 <= addr /\ addr <= Words
    BY <1>1, BusAssumption DEF Addresses
  <2>4. /\ ~b'.cyc /\ ~b'.stb /\ b'.out = 0 /\ b'.addr \in Int /\ 0 <= b'.addr /\ b'.addr <= Words
    <3>1. CASE b' = WriterIdle
      BY <1>1, <3>1 DEF WriterIdle
    <3>2. CASE \E addr \in Starts : b' = [WriterIdle EXCEPT !.busy = TRUE, !.addr = addr]
      BY <2>3, <3>2 DEF WriterIdle
    <3> QED BY <2>1, <3>1, <3>2 DEF WriterIdles
  <2>5. NextAddr' = b'.addr
    BY <1>9, <2>4
  <2>6. WriterInv'
    BY <1>1, <1>4, <1>10, <2>2, <2>4, <2>5 DEF WriterInv
  <2> QED BY <2>1, <2>4, <2>6 DEF out
<1>13. CASE b.busy /\ b.stb /\ o_b_stall
  <2>1. WriterStalled /\ ~bSent
    BY <1>3, <1>13 DEF Writer
  <2>2. b' = [b EXCEPT !.out = out] /\ taken' = taken
    BY <1>7, <2>1 DEF WriterStalled
  <2>3. /\ b'.busy = b.busy /\ b'.cyc = b.cyc /\ b'.stb = b.stb /\ b'.addr = b.addr
        /\ b'.data = b.data /\ b'.last = b.last /\ b'.out = out
    BY <2>2 DEF BusInv, OwnerInv, WriterType
  <2>4. out <= b.addr
    BY <1>1, <1>2, <2>1 DEF out
  <2>5. NextAddr' = NextAddr
    BY <1>1, <1>9, <2>3
  <2>6. WriterInv'
    BY <1>2, <1>5, <1>6, <1>10, <2>2, <2>3, <2>4, <2>5 DEF WriterInv
  <2> QED BY <2>3, <2>6 DEF out
<1>14. CASE b.busy /\ ~(b.stb /\ o_b_stall)
  <2>1. WriterTakes \/ WriterRuns
    BY <1>14 DEF Writer
  <2>2. CASE WriterTakes
    <3>1. PICK v \in Values, last \in BOOLEAN :
            /\ b' = [b EXCEPT !.cyc = b.cyc \/ ~wb_pipeline_full, !.stb = ~wb_pipeline_full,
                              !.addr = NextAddr, !.data = IF wb_pipeline_full THEN b.data ELSE v,
                              !.last = last, !.out = out]
            /\ taken' = IF wb_pipeline_full /\ ~last THEN taken ELSE Append(taken, v)
      BY <1>7, <2>2 DEF WriterTakes
    <3>2. ~b.last /\ NextAddr < Words
      BY <2>2 DEF WriterTakes
    <3>3. /\ b'.busy = b.busy /\ b'.cyc = (b.cyc \/ ~wb_pipeline_full) /\ b'.stb = ~wb_pipeline_full
          /\ b'.addr = NextAddr /\ b'.last = last /\ b'.out = out
          /\ ~wb_pipeline_full => b'.data = v
      BY <3>1 DEF BusInv, OwnerInv, WriterType
    <3>4. /\ Append(taken, v) \in Seq(Values) /\ Len(Append(taken, v)) = Len(taken) + 1
          /\ Append(taken, v)[Len(taken) + 1] = v /\ Append(taken, v) # << >>
      BY <1>2, <3>1, AppendProperties
    <3>5. taken' \in Seq(Values) /\ Len(taken') <= Len(taken) + 1
      BY <1>2, <1>11, <3>1, <3>4
    <3>6. Len(taken') <= Words /\ NextAddr' <= Words
      BY <1>1, <1>2, <1>9, <1>11, <3>2, <3>3, <3>5
    <3>7. ~last => Len(taken') <= NextAddr'
      <4>1. CASE wb_pipeline_full
        <5>1. ~b'.stb /\ NextAddr' = NextAddr
          BY <1>9, <3>3, <4>1
        <5>2. ~last => taken' = taken
          BY <3>1, <4>1
        <5> QED BY <1>2, <3>2, <5>1, <5>2
      <4>2. CASE ~wb_pipeline_full
        <5>1. b'.stb /\ NextAddr' = NextAddr + 1
          BY <1>9, <3>3, <4>2
        <5>2. taken' = Append(taken, v)
          BY <3>1, <4>2
        <5> QED BY <1>1, <1>2, <1>11, <3>2, <3>4, <5>1, <5>2
      <4> QED BY <4>1, <4>2
    <3>8. b'.stb => taken' # << >> /\ b'.data = taken'[Len(taken')]
      <4> SUFFICES ASSUME ~wb_pipeline_full PROVE taken' # << >> /\ b'.data = taken'[Len(taken')]
        BY <3>3
      <4>1. taken' = Append(taken, v) /\ b'.data = v
        BY <3>1, <3>3
      <4> QED BY <3>4, <4>1
    <3>9. (b'.cyc => b'.busy) /\ (b'.stb => b'.cyc) /\ (~b'.cyc => b'.out = 0)
      BY <1>5, <1>14, <3>3
    <3>10. WriterInv'
      BY <1>5, <1>6, <1>10, <3>3, <3>5, <3>6, <3>7, <3>8, <3>9 DEF WriterInv
    <3> QED BY <3>3, <3>10 DEF out
  <2>3. CASE WriterRuns
    <3> DEFINE over == ~wb_pipeline_full /\ WritesAnswered
    <3>1. /\ b' = [b EXCEPT !.busy = ~(over /\ b.last), !.cyc = b.cyc /\ ~over, !.stb = FALSE,
                           !.addr = NextAddr, !.out = out]
          /\ taken' = taken
      BY <1>7, <2>3 DEF WriterRuns
    <3>2. over => out = 0
      BY <1>1, <1>3, <1>14 DEF WritesAnswered, out
    <3> HIDE DEF over
    <3>3. /\ b'.busy = ~(over /\ b.last) /\ b'.cyc = (b.cyc /\ ~over) /\ ~b'.stb
          /\ b'.addr = NextAddr /\ b'.last = b.last /\ b'.out = out
      BY <3>1 DEF BusInv, OwnerInv, WriterType
    <3>4. NextAddr' = NextAddr
      BY <1>9, <3>3
    <3>5. (b'.cyc => b'.busy) /\ (~b'.cyc => b'.out = 0)
      BY <1>5, <3>2, <3>3
    <3>6. WriterInv'
      BY <1>2, <1>5, <1>6, <1>10, <3>1, <3>3, <3>4, <3>5 DEF WriterInv
    <3> QED BY <3>3, <3>6 DEF out
  <2> QED BY <2>1, <2>2, <2>3
<1> QED BY <1>1, <1>12, <1>13, <1>14

\* A queue is where it was while the memory does nothing.
LEMMA QueueRests ==
  ASSUME m_delay' = m_delay, m_head' = m_head, m_fifo_ack' = m_fifo_ack,
         NEW n \in Nat, NEW f
  PROVE  /\ Queued(f, n)' <=> Queued(f, n)
         /\ \A k : Before(m_head, k)' = Before(m_head, k)
BY DEF Queued, Ages, Latency, Before

\* The ring over a rising edge: the owner counts what was accepted and answered.
LEMMA RisingRing ==
  ASSUME BusInv, ~clk, clk', Arbitrate, UNCHANGED memVars, ReaderInv', OwnerInv', WriterInv',
         expected' = Owed,
         b'.out = b.out + (IF bSent THEN 1 ELSE 0) - (IF o_b_ack THEN 1 ELSE 0)
  PROVE  RingInv'
<1>1. /\ a.out \in Int /\ b.out \in Int /\ a'.out \in Int /\ b'.out \in Int
      /\ r_a_owner \in BOOLEAN /\ r_a_owner' \in BOOLEAN
  BY EngineFacts DEF BusInv, OwnerInv, ReaderType, WriterType
<1>2. /\ m_delay' = m_delay /\ m_head' = m_head /\ m_fifo_ack' = m_fifo_ack
      /\ m_fifo_data' = m_fifo_data
  BY DEF memVars
<1>3. /\ Owed \in Seq(Values)
      /\ Len(Owed) = a.out + (IF aSent THEN 1 ELSE 0) - (IF o_a_ack THEN 1 ELSE 0)
      /\ r_a_owner => InRing = Len(Owed) /\ \A i \in 1 .. InRing : Owed[i] = Due[i + OnBus]
  BY OwedFacts
<1>4. a'.out = Len(Owed)
  BY DEF ReaderInv
<1>5. Due' = Owed
  <2>1. Due' = expected' \o << >>
    BY DEF Due
  <2> QED BY <1>3, <2>1, ConcatEmptySeq
<1>6. OnBus' = 0 /\ Sent' = 0 /\ InRing' = Out'
  <2>1. OnBus' = 0
    BY DEF OnBus
  <2>4. Sent' = 0
    BY DEF Sent
  <2>2. Out' \in Int
    BY <1>1 DEF Out
  <2>3. InRing' = Out' + Sent' - OnBus'
    BY DEF InRing
  <2>5. \A x \in Int : x + 0 - 0 = x
    OBVIOUS
  <2> QED BY <2>1, <2>2, <2>3, <2>4, <2>5, Zenon
<1>7. ASSUME o_cyc' PROVE (\E f : RingHolds(f))'
  <2>1. CASE o_cyc
    <3>1. PICK f : RingHolds(f)
      BY <2>1 DEF BusInv, RingInv
    <3>2. r_a_owner' = r_a_owner
      <4>1. /\ a.cyc /\ r_a_owner => r_a_owner'
            /\ b.cyc /\ ~r_a_owner => ~r_a_owner'
        BY ArbiterStep DEF BusInv
      <4> QED BY <1>1, <2>1, <4>1 DEF o_cyc
    <3>3. InRing' = InRing
      <4>1. CASE r_a_owner
        BY <1>3, <1>4, <1>6, <3>2, <4>1 DEF Out
      <4>2. CASE ~r_a_owner
        <5>1. ~aSent
          BY <4>2, OwnerActs
        <5> QED BY <1>6, <3>2, <4>2, <5>1 DEF Out, InRing, Sent, OnBus, o_b_ack
      <4> QED BY <4>1, <4>2
    <3>4. InRing \in Int
      BY <1>1, EngineFacts DEF InRing, Out, Sent, OnBus
    <3>5. PICK k \in Nat : k = InRing
      BY <3>1, <3>4 DEF RingHolds
    <3>6. Queued(f, k)' /\ \A x : Before(m_head, x)' = Before(m_head, x)
      BY <1>2, <3>1, <3>5, QueueRests DEF RingHolds
    <3>7. Queued(f, InRing)' /\ InRing' >= 0
      BY <3>3, <3>5, <3>6
    <3>8. ASSUME r_a_owner', NEW i \in 1 .. k
          PROVE  m_fifo_data'[Before(m_head, f[i])'] = Due'[i + OnBus']
      <4>1. i \in 1 .. InRing /\ r_a_owner
        BY <3>2, <3>5, <3>8
      <4>2. m_fifo_data[Before(m_head, f[i])] = Due[i + OnBus]
        BY <3>1, <4>1 DEF RingHolds
      <4>3. Owed[i] = Due[i + OnBus]
        BY <1>3, <4>1
      <4> QED BY <1>2, <1>5, <1>6, <3>6, <4>2, <4>3
    <3>9. RingHolds(f)'
      BY <3>3, <3>5, <3>7, <3>8 DEF RingHolds
    <3> QED BY <3>9
  <2>2. CASE ~o_cyc
    <3>1. Clear /\ ~o_ack
      BY <2>2 DEF BusInv, RingInv
    <3>2. ~aSent /\ ~bSent /\ ~o_a_ack /\ ~o_b_ack /\ a.out = 0 /\ b.out = 0
      BY <1>1, <2>2, <3>1, OwnerActs DEF BusInv, ReaderInv, WriterInv, o_cyc, o_a_ack, o_b_ack
    <3>3. Out' = 0
      BY <1>1, <1>3, <1>4, <3>2 DEF Out
    <3>4. PICK f : Queued(f, 0)
      BY <3>1, EmptyQueue DEF BusInv
    <3>5. Queued(f, 0)'
      BY <1>2, <3>4, QueueRests
    <3>6. InRing' = 0
      BY <1>6, <3>3
    <3>7. RingHolds(f)'
      BY <3>5, <3>6 DEF RingHolds
    <3> QED BY <3>7
  <2> QED BY <2>1, <2>2
<1> QED BY <1>7 DEF RingInv

\* The ring over a falling edge within a bus cycle: the memory takes and answers.
LEMMA FallingRing ==
  ASSUME BusInv, clk, ~clk', NEW stall \in BOOLEAN, o_cyc, Served(stall),
         UNCHANGED <<r_a_owner, last_owner, a, b, expected, taken>>
  PROVE  RingInv' /\ MemType' /\ (m_cleared' => Clear')
<1>1. /\ a.out \in Int /\ b.out \in Int /\ a.addr \in Int /\ a.len \in Int
      /\ r_a_owner \in BOOLEAN /\ o_stb \in BOOLEAN /\ a.stb \in BOOLEAN /\ b.stb \in BOOLEAN
      /\ MemType /\ Words \in Nat /\ b.data \in Values
  BY EngineFacts, MemAssumption DEF BusInv
<1>2. /\ expected \in Seq(Values) /\ Len(expected) = a.out
      /\ 0 <= a.out /\ a.out <= a.addr /\ a.addr + a.len <= Words /\ (a.stb => a.len > 0)
  BY DEF BusInv, ReaderInv
<1>3. PICK f : RingHolds(f)
  BY DEF BusInv, RingInv
<1>4. InRing = Out /\ OnBus = 0
  <2>1. OnBus = 0 /\ Sent = 0
    BY DEF OnBus, Sent
  <2> QED BY <1>1, <2>1 DEF InRing, Out
<1>5. PICK n \in Nat : n = Out
  BY <1>1, <1>3, <1>4 DEF RingHolds, Out
<1>6. Queued(f, n)
  BY <1>3, <1>4, <1>5 DEF RingHolds
<1>7. /\ m_head' = NextHead /\ m_delay' = m_delay /\ o_stall' = stall
      /\ m_mem' = IF o_stb /\ ~stall /\ ~r_a_owner THEN [m_mem EXCEPT ![o_adr] = b.data] ELSE m_mem
      /\ m_cleared' = (m_cleared /\ ~o_stb)
  BY <1>1, RingPuts DEF Served, Apply, Uncleared
<1>8. PICK gone \in {0, 1}, put \in {0, 1} : (gone = 1 <=> o_ack') /\ (put = 1 <=> o_stb /\ ~stall)
  OBVIOUS
<1>9. /\ gone <= n
      /\ gone = 1 => o_data' = m_fifo_data[Before(m_head, f[1])]
      /\ \E g : Moved(f, n, g, gone, put)
  BY <1>1, <1>6, <1>8, RingStep, Zenon
<1>10. PICK g : /\ Queued(g, n - gone + put)'
                /\ r_a_owner =>
                     /\ \A i \in 1 .. n - gone : m_fifo_data'[Before(NextHead, g[i])]
                                              = m_fifo_data[Before(m_head, f[i + gone])]
                     /\ put = 1 => m_fifo_data'[Before(NextHead, g[n - gone + put])] = m_mem[o_adr]
  BY <1>9 DEF Moved
<1>11. /\ r_a_owner' = r_a_owner /\ o_cyc' = o_cyc /\ Out' = Out
       /\ a' = a /\ b' = b /\ expected' = expected /\ taken' = taken
  BY DEF o_cyc, Out
<1>12. (aSent <=> r_a_owner /\ put = 1)' /\ (bSent <=> ~r_a_owner /\ put = 1)'
  <2>1. o_stb' = o_stb
    BY <1>11 DEF o_stb
  <2>2. aSent' <=> a.stb /\ r_a_owner /\ ~stall
    BY <1>7, <1>11 DEF aSent, o_a_stall
  <2>3. bSent' <=> b.stb /\ ~r_a_owner /\ ~stall
    BY <1>1, <1>7, <1>11 DEF bSent, o_b_stall
  <2> QED BY <1>8, <1>11, <2>2, <2>3 DEF o_stb
<1>13. Sent' = put /\ OnBus' = gone
  <2>1. Sent' = put
    BY <1>8, <1>1, <1>11, <1>12 DEF Sent
  <2>2. OnBus' = gone
    BY <1>8 DEF OnBus
  <2> QED BY <2>1, <2>2
<1>14. InRing' = n - gone + put /\ InRing' >= 0
  <2>1. InRing' = Out' + Sent' - OnBus'
    BY DEF InRing
  <2> QED BY <1>5, <1>9, <1>11, <1>13, <2>1
<1>15. ASSUME r_a_owner, n > 0
       PROVE  m_fifo_data[Before(m_head, f[1])] = Head(expected)
  <2>1. 1 \in 1 .. InRing /\ 1 + OnBus = 1
    BY <1>4, <1>5, <1>15
  <2>2. m_fifo_data[Before(m_head, f[1])] = Due[1]
    BY <1>3, <1>15, <2>1 DEF RingHolds
  <2>3. Due = expected
    <3>1. Due = expected \o << >>
      BY DEF Due
    <3> QED BY <1>2, <3>1, ConcatEmptySeq
  <2> QED BY <2>2, <2>3
<1>16. o_ack' => Out' > 0 /\ (r_a_owner' => o_data' = Head(expected'))
  <2>1. o_ack' => n > 0
    BY <1>8, <1>9
  <2> QED BY <1>5, <1>8, <1>9, <1>11, <1>15, <2>1
<1>17. ASSUME r_a_owner
       PROVE  \A i \in 1 .. n - gone + put :
                m_fifo_data'[Before(NextHead, g[i])] = Due'[i + gone]
  <2>1. n = Len(expected) /\ m_mem' = m_mem /\ o_adr = a.addr /\ (put = 1 => a.stb)
    BY <1>2, <1>5, <1>7, <1>8, <1>17 DEF Out, o_adr, o_stb
  <2> DEFINE new == IF put = 1 THEN <<m_mem[a.addr]>> ELSE << >>
  <2>2. Due' = expected \o new
    BY <1>11, <1>12, <1>17, <2>1 DEF Due
  <2>3. new \in Seq(Values) /\ Len(new) = put /\ (put = 1 => new[1] = m_mem[a.addr])
    <3>1. put = 1 => a.addr \in Addresses
      BY <1>1, <1>2, <2>1 DEF Addresses
    <3>2. put = 1 => m_mem[a.addr] \in Values
      BY <1>1, <3>1 DEF MemType
    <3> QED BY <3>2
  <2> HIDE DEF new
  <2>4. \A i \in 1 .. n + put : Due'[i] = IF i <= n THEN expected[i] ELSE new[i - n]
    <3>1. \A i \in 1 .. Len(expected) + Len(new) :
             (expected \o new)[i] = IF i <= Len(expected) THEN expected[i] ELSE new[i - Len(expected)]
      BY <1>2, <2>3, ConcatProperties
    <3> QED BY <2>1, <2>2, <2>3, <3>1
  <2>5. ASSUME NEW i \in 1 .. n - gone + put
        PROVE  m_fifo_data'[Before(NextHead, g[i])] = Due'[i + gone]
    <3>1. i + gone \in 1 .. n + put
      BY <1>9
    <3>2. CASE i <= n - gone
      <4>1. i \in 1 .. n - gone /\ i + gone \in 1 .. n
        BY <1>9, <3>2
      <4>2. m_fifo_data'[Before(NextHead, g[i])] = m_fifo_data[Before(m_head, f[i + gone])]
        BY <1>10, <1>17, <4>1
      <4>3. m_fifo_data[Before(m_head, f[i + gone])] = Due[i + gone + OnBus]
        BY <1>3, <1>4, <1>5, <1>17, <4>1 DEF RingHolds
      <4>4. Due = expected
        <5>1. Due = expected \o << >>
          BY DEF Due
        <5> QED BY <1>2, <5>1, ConcatEmptySeq
      <4>5. Due'[i + gone] = expected[i + gone]
        BY <2>4, <3>1, <4>1
      <4>6. i + gone + OnBus = i + gone
        BY <1>4
      <4> QED BY <4>2, <4>3, <4>4, <4>5, <4>6
    <3>3. CASE ~(i <= n - gone)
      <4>1. put = 1 /\ i = n - gone + put /\ i + gone = n + 1 /\ ~(i + gone <= n) /\ i + gone - n = 1
        BY <1>9, <3>3
      <4>2. m_fifo_data'[Before(NextHead, g[i])] = m_mem[a.addr]
        BY <1>10, <1>17, <2>1, <4>1
      <4>3. Due'[i + gone] = new[1]
        BY <2>4, <3>1, <4>1
      <4> QED BY <2>3, <4>1, <4>2, <4>3
    <3> QED BY <3>2, <3>3
  <2> QED BY <2>5
<1>18. RingHolds(g)'
  <2>1. \A x : Before(m_head, x)' = Before(NextHead, x)
    BY <1>7 DEF Before
  <2>2. PICK k \in Nat : k = n - gone + put
    BY <1>9
  <2>3. Queued(g, InRing)'
    <3>1. Queued(g, k)' /\ k = InRing'
      BY <1>10, <1>14, <2>2
    <3> QED BY <3>1
  <2>4. ASSUME r_a_owner', NEW i \in 1 .. InRing'
        PROVE  m_fifo_data'[Before(m_head, g[i])'] = Due'[i + OnBus']
    BY <1>11, <1>13, <1>14, <1>17, <2>1, <2>4
  <2> QED BY <1>14, <2>3, <2>4 DEF RingHolds
<1>19. RingInv'
  BY <1>11, <1>16, <1>18 DEF RingInv
<1>20. MemType'
  <2>1. NextHead \in Slots
    BY <1>1, Positions DEF MemType
  <2>2. Slots' = Slots
    BY <1>7 DEF Slots
  <2>3. m_mem' \in [Addresses -> Values]
    BY <1>1, <1>7 DEF MemType
  <2>4. m_fifo_ack' \in [Slots -> BOOLEAN] /\ o_ack' \in BOOLEAN
    <3>1. Freed(NextHead) \in [Slots -> BOOLEAN]
      BY <1>1 DEF Freed, MemType
    <3>2. \E x : m_fifo_ack' \in {Freed(NextHead), [Freed(NextHead) EXCEPT ![x] = TRUE]}
      BY DEF Served, Apply, NextHead
    <3>3. o_ack' = m_fifo_ack[Before(m_head, Latency - 1)] /\ Before(m_head, Latency - 1) \in Slots
      BY <1>1, RingPuts, Positions DEF MemType, Ages
    <3> QED BY <1>1, <3>1, <3>2, <3>3 DEF MemType
  <2>5. m_fifo_data' \in [Slots -> Values] /\ o_data' \in Values
    <3>1. o_data' = m_fifo_data[Before(m_head, Latency - 1)] /\ Before(m_head, Latency - 1) \in Slots
      BY <1>1, RingPuts, Positions DEF MemType, Ages
    <3>2. CASE o_stb /\ ~stall /\ r_a_owner
      <4>1. m_fifo_data' = [m_fifo_data EXCEPT ![NextHead] = m_mem[o_adr]]
        BY <3>2 DEF Served, Apply, NextHead, DataSlot
      <4>2. a.addr \in Addresses /\ o_adr = a.addr
        BY <1>1, <1>2, <3>2 DEF o_adr, o_stb, Addresses
      <4> QED BY <1>1, <3>1, <4>1, <4>2 DEF MemType
    <3>3. CASE ~(o_stb /\ ~stall /\ r_a_owner)
      <4>1. m_fifo_data' = m_fifo_data
        BY <1>1, <3>3 DEF Served, Apply
      <4> QED BY <1>1, <3>1, <4>1 DEF MemType
    <3> QED BY <3>2, <3>3
  <2> QED BY <1>1, <1>7, <2>1, <2>2, <2>3, <2>4, <2>5 DEF MemType
<1>21. m_cleared' => Clear'
  <2> SUFFICES ASSUME m_cleared' PROVE Clear'
    OBVIOUS
  <2>1. Clear /\ ~o_stb
    BY <1>7 DEF BusInv
  <2>2. m_fifo_ack' = Freed(NextHead)
    BY <2>1 DEF Served, Apply, NextHead
  <2>3. Slots' = Slots
    BY <1>7 DEF Slots
  <2> QED BY <1>1, <2>1, <2>2, <2>3 DEF Clear, Freed, MemType
<1> QED BY <1>19, <1>20, <1>21

LEMMA BusInvInit == Init => BusInv
<1> SUFFICES ASSUME Init PROVE BusInv
  OBVIOUS
<1>1. m_delay \in Delays /\ 0 \in Slots /\ Latency \in Nat
  <2>1. m_delay \in Delays
    BY DEF Init, MemInit
  <2>2. RingSize(m_delay) \in Nat \ {0} /\ m_delay \in Nat
    BY <2>1, RingFacts
  <2> QED BY <2>1, <2>2 DEF Slots, Latency
<1>2. MemType /\ Clear
  BY <1>1, MemAssumption DEF Init, MemInit, MemType, Clear
<1>3. OwnerInv
  BY OwnerInvInit
<1>4. /\ ~clk /\ clk \in BOOLEAN /\ ~m_cleared /\ ~o_ack /\ last_owner \in BOOLEAN
      /\ ~a.busy /\ ~a.cyc /\ ~a.stb /\ a.addr = 0 /\ a.len = 0 /\ a.out = 0
      /\ ~b.busy /\ ~b.cyc /\ ~b.stb /\ b.addr = 0 /\ b.out = 0
      /\ expected = << >> /\ taken = << >>
  BY DEF Init, MemInit, ReaderIdle, WriterIdle
<1>5. ReaderInv
  BY <1>4, MemAssumption, EmptySeq DEF ReaderInv
<1>6. WriterInv
  <2>1. NextAddr = 0
    BY <1>4 DEF NextAddr
  <2> QED BY <1>1, <1>4, <2>1, MemAssumption, EmptySeq DEF WriterInv
<1>7. RingInv
  <2>1. ~o_cyc
    BY <1>4 DEF o_cyc
  <2> QED BY <1>2, <1>4, <2>1 DEF RingInv
<1> QED BY <1>2, <1>3, <1>4, <1>5, <1>6, <1>7 DEF BusInv

\* Nothing of the memory moves at a rising edge.
LEMMA MemRests ==
  ASSUME BusInv, UNCHANGED memVars
  PROVE  MemType' /\ (m_cleared' => Clear')
<1>1. Slots' = Slots
  BY DEF memVars, Slots
<1> QED BY <1>1 DEF BusInv, MemType, Clear, memVars

LEMMA LastOwnerType ==
  ASSUME LastOwner, last_owner \in BOOLEAN PROVE last_owner' \in BOOLEAN
BY DEF LastOwner

LEMMA RisingStep ==
  ASSUME BusInv, RisingEdge PROVE BusInv'
<1>1. /\ ~clk /\ clk' /\ LastOwner /\ Arbitrate /\ Reader /\ Writer
      /\ expected' = (IF a.busy THEN Owed ELSE << >>) /\ UNCHANGED memVars
  BY DEF RisingEdge
<1>2. OwnerInv'
  BY OwnerInvStep DEF BusInv, Next
<1>3. ReaderType' /\ WriterType'
  BY <1>2 DEF OwnerInv
<1>4. ReaderInv' /\ expected' = Owed
  BY <1>1, <1>3, ReaderClock
<1>5. /\ WriterInv'
      /\ b'.out = b.out + (IF bSent THEN 1 ELSE 0) - (IF o_b_ack THEN 1 ELSE 0)
  BY <1>1, <1>3, WriterClock DEF memVars
<1>6. RingInv'
  BY <1>1, <1>2, <1>4, <1>5, RisingRing
<1>7. clk' \in BOOLEAN /\ last_owner' \in BOOLEAN
  BY LastOwnerType DEF BusInv, RisingEdge
<1> QED BY <1>1, <1>2, <1>4, <1>5, <1>6, <1>7, MemRests DEF BusInv

LEMMA AbortedStep ==
  ASSUME BusInv, AbortedEdge PROVE BusInv'
<1>1. /\ clk' = TRUE /\ LastOwner /\ a' = ReaderIdle /\ b' = WriterIdle
      /\ expected' = << >> /\ taken' = << >> /\ UNCHANGED memVars
  BY DEF AbortedEdge
<1>2. OwnerInv'
  BY OwnerInvStep DEF BusInv, Next
<1>3. /\ ~a'.busy /\ ~a'.cyc /\ ~a'.stb /\ a'.addr = 0 /\ a'.len = 0 /\ a'.out = 0
      /\ ~b'.busy /\ ~b'.cyc /\ ~b'.stb /\ b'.addr = 0 /\ b'.out = 0
  BY <1>1 DEF ReaderIdle, WriterIdle
<1>4. ReaderInv'
  BY <1>1, <1>3, MemAssumption, EmptySeq DEF ReaderInv
<1>5. Latency \in Nat /\ Latency' = Latency
  BY <1>1, Positions DEF BusInv, MemType, Latency, memVars
<1>6. WriterInv'
  <2>1. NextAddr' = 0
    BY <1>3 DEF NextAddr
  <2>2. taken' \in Seq(Values) /\ Len(taken') = 0
    BY <1>1, EmptySeq
  <2> QED BY <1>3, <1>5, <2>1, <2>2, MemAssumption DEF WriterInv
<1>7. RingInv'
  <2>1. ~o_cyc'
    BY <1>3 DEF o_cyc
  <2> QED BY <1>1, <2>1 DEF RingInv
<1>8. last_owner' \in BOOLEAN
  BY LastOwnerType DEF BusInv, AbortedEdge
<1> QED BY <1>1, <1>2, <1>4, <1>6, <1>7, <1>8, MemRests DEF BusInv

\* The engines at a falling edge.
LEMMA EnginesStay ==
  ASSUME BusInv, UNCHANGED <<a, b, expected, taken>>, m_delay' = m_delay
  PROVE  ReaderInv' /\ WriterInv'
<1>1. NextAddr' = NextAddr /\ Latency' = Latency
  BY DEF NextAddr, Latency
<1> QED BY <1>1 DEF BusInv, ReaderInv, WriterInv

LEMMA FallingStep ==
  ASSUME BusInv, NEW stall \in BOOLEAN, FallingEdge(stall) PROVE BusInv'
<1>1. /\ clk /\ ~clk' /\ clk' \in BOOLEAN
      /\ UNCHANGED <<r_a_owner, last_owner, a, b, expected, taken>>
      /\ IF o_cyc THEN Served(stall) ELSE ApplyIdle
  BY DEF FallingEdge, Served
<1>2. OwnerInv'
  BY OwnerInvStep DEF BusInv, Next
<1>3. m_delay' = m_delay
  BY <1>1 DEF Served, Apply, ApplyIdle
<1>4. ReaderInv' /\ WriterInv'
  BY <1>1, <1>3, EnginesStay
<1>5. CASE o_cyc
  BY <1>1, <1>2, <1>4, <1>5, FallingRing DEF BusInv
<1>6. CASE ~o_cyc
  <2>1. ApplyIdle
    BY <1>1, <1>6
  <2>2. Slots' = Slots /\ 0 \in Slots
    <3>1. RingSize(m_delay) \in Nat \ {0}
      BY RingFacts DEF BusInv, MemType
    <3> QED BY <1>3, <3>1 DEF Slots
  <2>3. MemType' /\ ~o_ack'
    BY <2>1, <2>2 DEF BusInv, MemType, ApplyIdle
  <2>4. Clear'
    BY <2>1, <2>2 DEF BusInv, Clear, ApplyIdle
  <2>5. ~o_cyc'
    BY <1>1, <1>6 DEF o_cyc
  <2>6. RingInv'
    BY <2>3, <2>4, <2>5 DEF RingInv
  <2> QED BY <1>1, <1>2, <1>4, <2>3, <2>4, <2>6 DEF BusInv
<1> QED BY <1>5, <1>6

LEMMA BusStutters ==
  ASSUME BusInv, UNCHANGED vars PROVE BusInv'
<1>1. /\ UNCHANGED memVars /\ UNCHANGED <<a, b, expected, taken>> /\ clk' = clk
      /\ r_a_owner' = r_a_owner /\ last_owner' = last_owner
  BY DEF vars, busVars
<1>2. OwnerInv'
  BY OwnerInvStep DEF BusInv
<1>3. MemType' /\ (m_cleared' => Clear')
  BY <1>1, MemRests
<1>4. ReaderInv' /\ WriterInv'
  BY <1>1, EnginesStay DEF memVars
<1>5. RingInv'
  <2>1. /\ m_delay' = m_delay /\ m_head' = m_head /\ m_fifo_ack' = m_fifo_ack
        /\ m_fifo_data' = m_fifo_data /\ o_ack' = o_ack /\ o_data' = o_data /\ m_mem' = m_mem
        /\ o_stall' = o_stall
    BY <1>1 DEF memVars
  <2>2. /\ aSent' = aSent /\ bSent' = bSent /\ o_cyc' = o_cyc
    BY <1>1, <2>1 DEF aSent, bSent, o_cyc, o_a_stall, o_b_stall
  <2>3. /\ Out' = Out /\ OnBus' = OnBus /\ Sent' = Sent /\ Due' = Due
    BY <1>1, <2>1, <2>2 DEF Out, OnBus, Sent, Due
  <2>4. InRing' = InRing
    BY <2>3 DEF InRing
  <2>5. Clear' = Clear
    BY <2>1 DEF Clear, Slots
  <2>6. ASSUME NEW f, RingHolds(f) PROVE RingHolds(f)'
    <3>1. InRing \in Int
      BY EngineFacts DEF BusInv, InRing, Out, Sent, OnBus
    <3>2. PICK n \in Nat : n = InRing
      BY <2>6, <3>1 DEF RingHolds
    <3>3. Queued(f, n)' /\ \A k : Before(m_head, k)' = Before(m_head, k)
      BY <2>1, <2>6, <3>2, QueueRests DEF RingHolds
    <3>4. Queued(f, InRing)' /\ InRing' >= 0
      BY <2>4, <3>2, <3>3
    <3>5. ASSUME r_a_owner', NEW i \in 1 .. InRing'
          PROVE  m_fifo_data'[Before(m_head, f[i])'] = Due'[i + OnBus']
      <4>1. i \in 1 .. InRing /\ r_a_owner
        BY <1>1, <2>4, <3>5
      <4>2. m_fifo_data[Before(m_head, f[i])] = Due[i + OnBus]
        BY <2>6, <4>1 DEF RingHolds
      <4> QED BY <2>1, <2>3, <3>3, <4>2
    <3> QED BY <3>4, <3>5 DEF RingHolds
  <2> QED BY <1>1, <2>1, <2>2, <2>3, <2>5, <2>6 DEF BusInv, RingInv
<1> QED BY <1>1, <1>2, <1>3, <1>4, <1>5 DEF BusInv

LEMMA BusInvStep == BusInv /\ [Next]_vars => BusInv'
BY RisingStep, AbortedStep, FallingStep, BusStutters DEF Next

LEMMA BusInvAlways == Spec => []BusInv
BY BusInvInit, BusInvStep, PTL DEF Spec

\* Every register of engines, arbiter and memory keeps its range: no engine
\* counts below zero or beyond the memory, however transfers are broken off.
THEOREM BusTypeCorrect == Spec => []TypeOK
<1>1. BusInv => TypeOK
  <2> SUFFICES ASSUME BusInv PROVE TypeOK
    OBVIOUS
  <2>1. /\ a.addr \in Int /\ a.len \in Int /\ a.out \in Int /\ b.addr \in Int /\ b.out \in Int
        /\ {a.busy, a.cyc, a.stb, b.busy, b.cyc, b.stb} \subseteq BOOLEAN
        /\ b.last \in BOOLEAN /\ b.data \in Values /\ r_a_owner \in BOOLEAN
        /\ NextAddr = IF b.stb THEN b.addr + 1 ELSE b.addr
    BY EngineFacts DEF BusInv
  <2>2. Words \in Nat
    BY MemAssumption
  <2>3. EngineType(a) /\ a.len \in 0 .. Words /\ Len(expected) <= Words
    BY <2>1, <2>2 DEF BusInv, ReaderInv, EngineType
  <2>4. EngineType(b) /\ Len(taken) <= Words
    BY <2>1, <2>2 DEF BusInv, WriterInv, EngineType
  <2> QED BY <2>1, <2>3, <2>4 DEF BusInv, MemType, TypeOK
<1> QED BY <1>1, BusInvAlways, PTL

\* An answer on the bus is the oldest request's of the engine that owns the
\* bus, and brings a read the word that was in memory when it was accepted:
\* for every delay and ring size, through aborts and changes of owner.
THEOREM AnswersOwed == Spec => []AnswersAreOwed
<1>1. BusInv => AnswersAreOwed
  <2> SUFFICES ASSUME BusInv, o_ack, ~clk
               PROVE  IF r_a_owner THEN expected # << >> /\ o_data = Head(expected) ELSE b.out > 0
    BY DEF AnswersAreOwed
  <2>1. Out > 0 /\ (r_a_owner => o_data = Head(expected))
    BY DEF BusInv, RingInv
  <2>2. r_a_owner => expected # << >>
    BY OwnerActs DEF o_a_ack
  <2> QED BY <2>1, <2>2 DEF Out
<1> QED BY <1>1, BusInvAlways, PTL

-----------------------------------------------------------------------------
(* Whole transfers.  Room: the memory answers before the pipeline of the   *)
(* writing engine is full.  Were it to fill up, a last word that comes     *)
(* then would be lost (WriterTakes).                                       *)

Room == 1 < PipeFull /\ \A d \in Delays : d < PipeFull

\* The word on the bus is in memory from the falling edge that accepts it.
OnItsWay == b.stb /\ ~(~clk /\ bSent)

Stored ==
  /\ Len(taken) <= NextAddr
  /\ \A i \in 1 .. Len(taken) :
       i < Len(taken) \/ ~OnItsWay => m_mem[NextAddr - Len(taken) + i - 1] = taken[i]

LEMMA NeverFull ==
  ASSUME Room, BusInv PROVE ~wb_pipeline_full
<1>1. b.out \in Int /\ b.out <= Latency
  BY EngineFacts DEF BusInv, WriterInv
<1>2. Latency < PipeFull /\ Latency \in Nat /\ PipeFull \in Nat
  BY BusAssumption, Positions DEF Room, BusInv, MemType, Latency
<1> QED BY <1>1, <1>2 DEF wb_pipeline_full

LEMMA StoredRising ==
  ASSUME Room, BusInv, BusInv', Stored, RisingEdge PROVE Stored'
<1>1. /\ b.addr \in Int /\ b.stb \in BOOLEAN /\ b.busy \in BOOLEAN /\ b.cyc \in BOOLEAN
      /\ NextAddr = (IF b.stb THEN b.addr + 1 ELSE b.addr) /\ NextAddr \in Int
      /\ taken \in Seq(Values) /\ Len(taken) \in Nat /\ Len(taken) <= NextAddr
  BY EngineFacts, LenProperties DEF BusInv, WriterInv, Stored
<1>2. ~clk /\ clk' /\ Writer /\ m_mem' = m_mem
  BY DEF RisingEdge, memVars
<1>3. NextAddr' = (IF b'.stb THEN b'.addr + 1 ELSE b'.addr) /\ (OnItsWay' <=> b'.stb)
  BY <1>2 DEF NextAddr, OnItsWay
<1>4. ~wb_pipeline_full
  BY NeverFull
<1>5. b \in [busy : BOOLEAN, cyc : BOOLEAN, stb : BOOLEAN, addr : Int, data : Values,
            last : BOOLEAN, out : Int]
  BY DEF BusInv, OwnerInv, WriterType
<1>6. CASE WriterIdles
  <2>1. taken' = << >> /\ Len(taken') = 0
    <3>1. taken' = << >>
      BY <1>6 DEF WriterIdles
    <3> QED BY <3>1, EmptySeq
  <2>2. NextAddr' >= 0
    <3>1. b'.addr \in Int /\ b'.out \in Int /\ 0 <= b'.out /\ b'.out <= b'.addr
      BY DEF BusInv, WriterInv, OwnerInv, WriterType
    <3> QED BY <1>3, <3>1
  <2> QED BY <2>1, <2>2 DEF Stored
<1>7. CASE b.busy /\ b.stb /\ o_b_stall /\ WriterStalled
  <2>1. b'.stb = b.stb /\ b'.addr = b.addr /\ taken' = taken
    BY <1>5, <1>7 DEF WriterStalled
  <2>2. NextAddr' = NextAddr
    BY <1>1, <1>3, <2>1
  <2> QED BY <1>2, <1>3, <1>7, <2>1, <2>2 DEF Stored
<1>8. ASSUME ~(b.stb /\ o_b_stall), NEW i \in 1 .. Len(taken)
      PROVE  m_mem[NextAddr - Len(taken) + i - 1] = taken[i]
  BY <1>2, <1>8 DEF Stored, OnItsWay, bSent
<1>9. CASE ~(b.stb /\ o_b_stall) /\ WriterTakes
  <2>1. PICK v \in Values, last \in BOOLEAN :
          /\ b' = [b EXCEPT !.cyc = b.cyc \/ ~wb_pipeline_full, !.stb = ~wb_pipeline_full,
                            !.addr = NextAddr, !.data = IF wb_pipeline_full THEN b.data ELSE v,
                            !.last = last, !.out = Outstanding(b, bSent, o_b_ack)]
          /\ taken' = IF wb_pipeline_full /\ ~last THEN taken ELSE Append(taken, v)
    BY <1>9 DEF WriterTakes
  <2>2. b'.stb /\ b'.addr = NextAddr /\ taken' = Append(taken, v)
    BY <1>4, <1>5, <2>1
  <2>3. NextAddr' = NextAddr + 1
    BY <1>3, <2>2
  <2>4. /\ Len(taken') = Len(taken) + 1
        /\ \A i \in 1 .. Len(taken) : taken'[i] = taken[i]
    BY <1>1, <2>1, <2>2, AppendProperties
  <2>5. Len(taken') <= NextAddr'
    BY <1>1, <2>3, <2>4
  <2>6. ASSUME NEW i \in 1 .. Len(taken'), i < Len(taken')
        PROVE  m_mem'[NextAddr' - Len(taken') + i - 1] = taken'[i]
    <3>1. i \in 1 .. Len(taken) /\ NextAddr' - Len(taken') + i - 1 = NextAddr - Len(taken) + i - 1
      BY <1>1, <2>3, <2>4, <2>6
    <3> QED BY <1>2, <1>8, <1>9, <2>4, <3>1
  <2> QED BY <1>3, <2>2, <2>5, <2>6 DEF Stored
<1>10. CASE ~(b.stb /\ o_b_stall) /\ WriterRuns
  <2>1. ~b'.stb /\ b'.addr = NextAddr /\ taken' = taken
    BY <1>5, <1>10 DEF WriterRuns
  <2>2. NextAddr' = NextAddr
    BY <1>3, <2>1
  <2> QED BY <1>1, <1>2, <1>8, <1>10, <2>1, <2>2 DEF Stored
<1> QED BY <1>1, <1>2, <1>6, <1>7, <1>9, <1>10 DEF Writer

LEMMA StoredFalling ==
  ASSUME BusInv, Stored, NEW stall \in BOOLEAN, FallingEdge(stall) PROVE Stored'
<1>1. /\ b.addr \in Int /\ b.stb \in BOOLEAN /\ b.cyc \in BOOLEAN /\ r_a_owner \in BOOLEAN
      /\ NextAddr = (IF b.stb THEN b.addr + 1 ELSE b.addr) /\ NextAddr \in Int
      /\ Len(taken) \in Nat /\ Len(taken) <= NextAddr /\ NextAddr <= Words /\ Words \in Nat
      /\ (b.stb => b.cyc /\ b.data = taken[Len(taken)])
      /\ m_mem \in [Addresses -> Values]
  BY EngineFacts, LenProperties, MemAssumption DEF BusInv, WriterInv, Stored, MemType
<1>2. clk /\ ~clk' /\ taken' = taken /\ b' = b /\ r_a_owner' = r_a_owner
  BY DEF FallingEdge
<1>3. NextAddr' = NextAddr
  BY <1>2 DEF NextAddr
<1>4. ASSUME NEW i \in 1 .. Len(taken), i < Len(taken) \/ ~b.stb
      PROVE  m_mem[NextAddr - Len(taken) + i - 1] = taken[i]
  BY <1>2, <1>4 DEF Stored, OnItsWay
<1>5. ASSUME NEW i \in 1 .. Len(taken), i < Len(taken) \/ ~OnItsWay'
      PROVE  m_mem'[NextAddr - Len(taken) + i - 1] = taken[i]
  <2> DEFINE x == NextAddr - Len(taken) + i - 1
  <2>1. x \in Addresses
    BY <1>1 DEF Addresses
  <2>2. CASE o_cyc /\ b.stb /\ ~stall /\ ~r_a_owner
    <3>1. m_mem' = [m_mem EXCEPT ![b.addr] = b.data]
      BY <2>2 DEF FallingEdge, Apply, o_stb, o_adr
    <3>2. CASE i < Len(taken)
      <4>1. x # b.addr
        BY <1>1, <2>2, <3>2
      <4>2. m_mem[x] = taken[i]
        BY <1>4, <3>2
      <4> QED BY <1>1, <2>1, <3>1, <4>1, <4>2
    <3>3. CASE i = Len(taken)
      <4>1. x = b.addr
        BY <1>1, <2>2, <3>3
      <4> QED BY <1>1, <2>1, <2>2, <3>1, <3>3, <4>1
    <3> QED BY <1>1, <3>2, <3>3
  <2>3. CASE ~(o_cyc /\ b.stb /\ ~stall /\ ~r_a_owner)
    <3>1. m_mem' = m_mem
      BY <1>1, <2>3 DEF FallingEdge, Apply, ApplyIdle, o_stb
    <3>2. ~bSent'
      <4> SUFFICES ASSUME b.stb, ~r_a_owner, ~o_stall' PROVE FALSE
        BY <1>2 DEF bSent, o_b_stall
      <4>1. o_cyc
        BY <1>1 DEF o_cyc
      <4>2. o_stall' = stall
        BY <4>1 DEF FallingEdge, Apply
      <4> QED BY <2>3, <4>1, <4>2
    <3>3. OnItsWay' <=> b.stb
      BY <1>2, <3>2 DEF OnItsWay
    <3>4. i < Len(taken) \/ ~b.stb
      BY <1>5, <3>3
    <3> QED BY <1>4, <3>1, <3>4
  <2> QED BY <2>2, <2>3
<1> QED BY <1>1, <1>2, <1>3, <1>5 DEF Stored

LEMMA StoredStep ==
  ASSUME Room PROVE BusInv /\ BusInv' /\ Stored /\ [Next]_vars => Stored'
<1> SUFFICES ASSUME BusInv, BusInv', Stored, [Next]_vars PROVE Stored'
  OBVIOUS
<1>1. CASE RisingEdge
  BY <1>1, StoredRising
<1>2. CASE AbortedEdge
  <2>1. taken' = << >> /\ b' = WriterIdle
    BY <1>2 DEF AbortedEdge
  <2>2. Len(taken') = 0 /\ NextAddr' = 0
    BY <2>1, EmptySeq DEF NextAddr, WriterIdle
  <2> QED BY <2>2 DEF Stored
<1>3. CASE \E stall \in BOOLEAN : FallingEdge(stall)
  BY <1>3, StoredFalling
<1>4. CASE UNCHANGED vars
  <2>1. b' = b /\ taken' = taken /\ clk' = clk /\ m_mem' = m_mem /\ o_stall' = o_stall
        /\ r_a_owner' = r_a_owner
    BY <1>4 DEF vars, busVars, memVars
  <2>2. NextAddr' = NextAddr /\ OnItsWay' = OnItsWay
    BY <2>1 DEF NextAddr, OnItsWay, bSent, o_b_stall
  <2> QED BY <2>1, <2>2 DEF Stored
<1> QED BY <1>1, <1>2, <1>3, <1>4 DEF Next

LEMMA StoredInit == Init => Stored
<1> SUFFICES ASSUME Init PROVE Stored
  OBVIOUS
<1>1. taken = << >> /\ b = WriterIdle
  BY DEF Init
<1>2. Len(taken) = 0 /\ NextAddr = 0
  BY <1>1, EmptySeq DEF NextAddr, WriterIdle
<1> QED BY <1>2 DEF Stored

\* Transfers that are not aborted end whole: mm2s ends its cycle with every read
\* answered, and when s2mm is done every word of its stream is in memory, at
\* its place.
THEOREM TransfersEndWhole == ASSUME Room PROVE Spec => []TransfersWhole
<1>1. BusInv /\ Stored => TransfersWhole
  <2> SUFFICES ASSUME BusInv, Stored PROVE TransfersWhole
    OBVIOUS
  <2>1. ~a.cyc => expected = << >>
    <3>1. ~a.cyc => Len(expected) = 0 /\ expected \in Seq(Values)
      BY DEF BusInv, ReaderInv
    <3> QED BY <3>1, EmptySeq
  <2>2. ~b.busy => ~b.stb /\ NextAddr = b.addr
    BY EngineFacts DEF BusInv, WriterInv
  <2>3. ~b.busy => \A i \in 1 .. Len(taken) : m_mem[b.addr - Len(taken) + i - 1] = taken[i]
    BY <2>2 DEF Stored, OnItsWay
  <2> QED BY <2>1, <2>3 DEF TransfersWhole
<1>2. BusInv /\ BusInv' /\ Stored /\ [Next]_vars => Stored'
  BY StoredStep
<1>3. Spec => []Stored
  BY <1>2, StoredInit, BusInvAlways, PTL DEF Spec
<1> QED BY <1>1, <1>3, BusInvAlways, PTL

=============================================================================
