--------------------------- MODULE AsyncFifoProofs ---------------------------
(***************************************************************************)
(* The asynchronous FIFO for every depth and all data, across resets.      *)
(***************************************************************************)
EXTENDS AsyncFifo, WellFoundedInduction, SequenceTheorems, TLAPS

-----------------------------------------------------------------------------
(* Induction on numbers, for sets of them.                                 *)

LEMMA LeastNumber ==
  ASSUME NEW T \in SUBSET Nat, T # {}
  PROVE  \E n \in T : \A m \in T : n <= m
<1> DEFINE R == OpToRel(<, Nat)
<1>1. IsWellFoundedOn(R, Nat)
  BY NatLessThanWellFounded
<1>2. \A x, y \in Nat : <<x, y>> \in R <=> x < y
  BY DEF OpToRel
<1> HIDE DEF R
<1>3. PICK x \in T : \A y \in T : <<y, x>> \notin R
  BY <1>1, WFMin, Zenon
<1>4. \A y \in T : ~(y < x)
  BY <1>2, <1>3, Zenon
<1> QED BY <1>4

LEMMA Climb ==
  ASSUME NEW m \in Nat, NEW S, 0 \in S,
         \A i \in 0 .. m - 1 : i \in S => i + 1 \in S
  PROVE  0 .. m \subseteq S
<1> DEFINE T == {i \in 0 .. m : i \notin S}
<1> SUFFICES ASSUME T # {} PROVE FALSE
  OBVIOUS
<1>1. T \in SUBSET Nat
  OBVIOUS
<1> HIDE DEF T
<1>2. PICK n \in T : \A i \in T : n <= i
  BY <1>1, LeastNumber, Zenon
<1>3. n \in 1 .. m /\ n \notin S
  BY <1>2 DEF T
<1>4. n - 1 \in 0 .. m - 1 /\ ~(n <= n - 1) /\ (n - 1) + 1 = n
  BY <1>3
<1>5. n - 1 \in S
  BY <1>2, <1>4 DEF T
<1> QED BY <1>3, <1>4, <1>5

LEMMA Descend ==
  ASSUME NEW m \in Nat, NEW S, m \in S,
         \A i \in 0 .. m - 1 : i + 1 \in S => i \in S
  PROVE  0 .. m \subseteq S
<1> DEFINE T == {k \in 0 .. m : m - k \in S}
<1>1. 0 \in T
  OBVIOUS
<1>2. ASSUME NEW k \in 0 .. m - 1, k \in T PROVE k + 1 \in T
  <2>1. m - k - 1 \in 0 .. m - 1 /\ (m - k - 1) + 1 = m - k /\ m - (k + 1) = m - k - 1
    OBVIOUS
  <2> QED BY <1>2, <2>1
<1> HIDE DEF T
<1>3. 0 .. m \subseteq T
  BY <1>1, <1>2, Climb
<1>4. ASSUME NEW i \in 0 .. m PROVE i \in S
  <2>1. m - i \in 0 .. m /\ m - (m - i) = i
    OBVIOUS
  <2> QED BY <1>3, <2>1 DEF T
<1> QED BY <1>4

-----------------------------------------------------------------------------
(* Division.                                                               *)

LEMMA Quotient ==
  ASSUME NEW n \in Nat, NEW d \in Nat \ {0}
  PROVE  /\ n \div d \in Nat /\ n % d \in 0 .. d - 1
         /\ n = d * (n \div d) + (n % d)
OBVIOUS

LEMMA QuotientUnique ==
  ASSUME NEW n \in Nat, NEW d \in Nat \ {0}, NEW q \in Nat, NEW r \in 0 .. d - 1,
         n = d * q + r
  PROVE  n \div d = q
<1>1. n \div d \in Nat /\ n = d * (n \div d) + (n % d) /\ n % d \in 0 .. d - 1
  BY Quotient
<1>2. ~(q < n \div d)
  <2> SUFFICES ASSUME q + 1 <= n \div d PROVE FALSE
    BY <1>1
  <2>1. d * (q + 1) <= d * (n \div d)
    BY <1>1
  <2> QED BY <1>1, <2>1
<1>3. ~(q > n \div d)
  <2> SUFFICES ASSUME q >= n \div d + 1 PROVE FALSE
    BY <1>1
  <2>1. d * (n \div d + 1) <= d * q
    BY <1>1
  <2> QED BY <1>1, <2>1
<1> QED BY <1>1, <1>2, <1>3

LEMMA HalfQuotient ==
  ASSUME NEW n \in Nat, NEW d \in Nat \ {0}
  PROVE  n \div (2 * d) = (n \div d) \div 2
<1> DEFINE q == n \div d
           h == q \div 2
           r == d * (q % 2) + (n % d)
<1>1. q \in Nat /\ n = d * q + (n % d) /\ n % d \in 0 .. d - 1
  BY Quotient
<1>2. h \in Nat /\ q = 2 * h + (q % 2) /\ q % 2 \in 0 .. 1
  BY <1>1
<1>3. r \in 0 .. 2 * d - 1
  <2>1. CASE q % 2 = 0
    BY <1>1, <2>1
  <2>2. CASE q % 2 = 1
    BY <1>1, <2>2
  <2> QED BY <1>2, <2>1, <2>2
<1>4. n = (2 * d) * h + r
  <2>1. d * q = d * (2 * h) + d * (q % 2)
    BY <1>2
  <2> QED BY <1>1, <1>2, <2>1
<1> HIDE DEF q, h, r
<1>5. n \div (2 * d) = h
  BY <1>2, <1>3, <1>4, QuotientUnique
<1> QED BY <1>5 DEF h, q

-----------------------------------------------------------------------------
(* Gray codes.  High(n, i) is n without its low i bits.                    *)

High(n, i) == n \div 2^i
Pointers == 0 .. 2 * Depth - 1

LEMMA PowersTypes ==
  /\ \A i \in 0 .. MSB + 1 : 2^i \in Nat \ {0}
  /\ Depth \in Nat \ {0} /\ 2^(MSB + 1) = 2 * Depth
<1> DEFINE S == {i \in 0 .. MSB + 1 : 2^i \in Nat \ {0}}
<1>1. MSB \in Nat /\ MSB + 1 \in Nat
  BY LgfifoAssumption DEF MSB
<1>2. 0 \in S
  BY <1>1
<1>3. ASSUME NEW i \in 0 .. MSB + 1 - 1, i \in S PROVE i + 1 \in S
  <2>1. 2^(i + 1) = 2 * 2^i
    BY <1>1, <1>3, PowersAssumption DEF MSB
  <2> QED BY <1>1, <1>3, <2>1
<1> HIDE DEF S
<1>4. 0 .. MSB + 1 \subseteq S
  BY <1>1, <1>2, <1>3, Climb
<1>5. 2^(MSB + 1) = 2 * 2^MSB
  BY <1>1, PowersAssumption DEF MSB
<1> QED BY <1>1, <1>4, <1>5 DEF S, Depth, MSB

LEMMA HighFacts ==
  ASSUME NEW n \in Nat
  PROVE  /\ High(n, 0) = n
         /\ \A i \in 0 .. MSB + 1 : High(n, i) \in Nat /\ Bit(n, i) = High(n, i) % 2
         /\ \A i \in Bits : /\ High(n, i + 1) = High(n, i) \div 2
                            /\ High(n, i) = 2 * High(n, i + 1) + Bit(n, i)
         /\ n < Depth => High(n, MSB) = 0
         /\ n < 2 * Depth => High(n, MSB + 1) = 0
<1>1. MSB \in Nat
  BY LgfifoAssumption DEF MSB
<1>2. High(n, 0) = n
  BY DEF High
<1>3. \A i \in 0 .. MSB + 1 : High(n, i) \in Nat /\ Bit(n, i) = High(n, i) % 2
  BY PowersTypes, Quotient DEF High, Bit
<1>4. ASSUME NEW i \in Bits
      PROVE  High(n, i + 1) = High(n, i) \div 2 /\ High(n, i) = 2 * High(n, i + 1) + Bit(n, i)
  <2>1. i \in 0 .. MSB + 1 /\ 2^i \in Nat \ {0} /\ 2^(i + 1) = 2 * 2^i
    BY <1>1, PowersTypes, PowersAssumption DEF Bits, MSB
  <2>2. High(n, i + 1) = High(n, i) \div 2
    BY <2>1, HalfQuotient DEF High
  <2>3. High(n, i) \in Nat /\ Bit(n, i) = High(n, i) % 2
    BY <1>3, <2>1
  <2> QED BY <2>2, <2>3
<1>5. Depth \in Nat \ {0} /\ 2^(MSB + 1) = 2 * Depth
  BY PowersTypes
<1>6. n < Depth => High(n, MSB) = 0
  BY <1>5 DEF High, Depth, MSB
<1>7. n < 2 * Depth => High(n, MSB + 1) = 0
  BY <1>5 DEF High
<1> QED BY <1>2, <1>3, <1>4, <1>6, <1>7

LEMMA GrayBits ==
  ASSUME NEW n \in Nat, NEW i \in Bits
  PROVE  /\ i \in Gray(n) <=> Bit(n, i) # Bit(n, i + 1)
         /\ Bit(n, i) \in 0 .. 1 /\ Bit(n, i + 1) \in 0 .. 1
<1>1. i \in 0 .. MSB + 1 /\ i + 1 \in 0 .. MSB + 1
  BY LgfifoAssumption DEF Bits, MSB
<1>2. \A k \in 0 .. MSB + 1 : High(n, k) \in Nat /\ Bit(n, k) = High(n, k) % 2
  BY HighFacts
<1>3. Bit(n, i) \in 0 .. 1 /\ Bit(n, i + 1) \in 0 .. 1
  BY <1>1, <1>2
<1>4. i \in Gray(n) <=> Bit(n, i) # Bit(n, i + 1)
  BY DEF Gray
<1> QED BY <1>3, <1>4

\* A pointer's code tells the pointer.
LEMMA GrayInjective ==
  ASSUME NEW n \in Pointers, NEW m \in Pointers, Gray(n) = Gray(m)
  PROVE  n = m
<1> DEFINE S == {i \in 0 .. MSB + 1 : High(n, i) = High(m, i)}
<1>1. MSB \in Nat /\ n \in Nat /\ m \in Nat /\ n < 2 * Depth /\ m < 2 * Depth
  BY LgfifoAssumption, PowersTypes DEF MSB, Pointers
<1>2. MSB + 1 \in S
  BY <1>1, HighFacts
<1>3. ASSUME NEW i \in 0 .. (MSB + 1) - 1, i + 1 \in S PROVE i \in S
  <2>1. i \in Bits /\ i + 1 \in 0 .. MSB + 1
    BY <1>1 DEF Bits
  <2>2. Bit(n, i + 1) = Bit(m, i + 1)
    BY <1>1, <1>3, <2>1, HighFacts
  <2>3. Bit(n, i) = Bit(m, i)
    BY <1>1, <2>1, <2>2, GrayBits
  <2> QED BY <1>1, <1>3, <2>1, <2>3, HighFacts
<1> HIDE DEF S
<1>4. 0 .. MSB + 1 \subseteq S
  BY <1>1, <1>2, <1>3, Descend
<1>5. High(n, 0) = High(m, 0)
  BY <1>1, <1>4 DEF S
<1> QED BY <1>1, <1>5, HighFacts

\* Counting up changes one bit of the code.
LEMMA GrayStep ==
  ASSUME NEW n \in Pointers
  PROVE  \E j \in Bits : \A i \in Bits \ {j} : i \in Gray(n) <=> i \in Gray(Wrap(n + 1))
<1>1. MSB \in Nat /\ n \in Nat /\ n + 1 \in Nat /\ Depth \in Nat \ {0}
  BY LgfifoAssumption, PowersTypes DEF MSB, Pointers
<1>2. CASE n + 1 < 2 * Depth
  <2> DEFINE K == {i \in 0 .. MSB + 1 : High(n + 1, i) = High(n, i)}
  <2>1. K \in SUBSET Nat /\ MSB + 1 \in K
    BY <1>1, <1>2, HighFacts DEF Pointers
  <2>2. PICK top \in K : \A i \in K : top <= i
    BY <2>1, LeastNumber
  <2>3. top \in 1 .. MSB + 1
    BY <1>1, <2>2, HighFacts
  \* Above top nothing changes.
  <2>4. ASSUME NEW i \in top .. MSB + 1 PROVE High(n + 1, i) = High(n, i)
    <3> DEFINE S == {k \in 0 .. MSB + 1 - top : High(n + 1, top + k) = High(n, top + k)}
    <3>1. 0 \in S
      BY <1>1, <2>2, <2>3
    <3>2. ASSUME NEW k \in 0 .. (MSB + 1 - top) - 1, k \in S PROVE k + 1 \in S
      <4>1. top + k \in Bits /\ top + (k + 1) = (top + k) + 1
        BY <1>1, <2>3 DEF Bits
      <4> QED BY <1>1, <2>3, <3>2, <4>1, HighFacts
    <3> HIDE DEF S
    <3>3. 0 .. MSB + 1 - top \subseteq S
      BY <1>1, <2>3, <3>1, <3>2, Climb
    <3>4. i - top \in 0 .. MSB + 1 - top /\ top + (i - top) = i
      BY <1>1, <2>3
    <3> QED BY <3>3, <3>4 DEF S
  \* Below it the carry runs.
  <2>5. ASSUME NEW i \in 0 .. top - 1 PROVE High(n + 1, i) = High(n, i) + 1
    <3> DEFINE S == {k \in 0 .. top - 1 : High(n + 1, k) = High(n, k) + 1}
    <3>1. 0 \in S
      BY <1>1, <2>3, HighFacts
    <3>2. ASSUME NEW k \in 0 .. (top - 1) - 1, k \in S PROVE k + 1 \in S
      <4>1. k \in Bits /\ k \in 0 .. MSB + 1 /\ k + 1 \in 0 .. MSB + 1 /\ k + 1 \in 0 .. top - 1
        BY <1>1, <2>3 DEF Bits
      <4>2. High(n + 1, k + 1) # High(n, k + 1)
        BY <2>2, <2>3, <4>1
      <4>3. High(n + 1, k) = High(n, k) + 1 /\ High(n, k) \in Nat
        BY <1>1, <3>2, <4>1, HighFacts
      <4>4. High(n + 1, k + 1) = High(n + 1, k) \div 2 /\ High(n, k + 1) = High(n, k) \div 2
        BY <1>1, <4>1, HighFacts
      <4>5. High(n + 1, k + 1) = High(n, k + 1) + 1
        BY <4>2, <4>3, <4>4
      <4> QED BY <4>1, <4>5
    <3> HIDE DEF S
    <3>3. 0 .. top - 1 \subseteq S
      BY <1>1, <2>3, <3>1, <3>2, Climb
    <3> QED BY <3>3 DEF S
  <2>6. ASSUME NEW i \in 0 .. MSB + 1
        PROVE  IF i < top THEN Bit(n + 1, i) = 1 - Bit(n, i) ELSE Bit(n + 1, i) = Bit(n, i)
    <3>1. Bit(n + 1, i) = High(n + 1, i) % 2 /\ Bit(n, i) = High(n, i) % 2 /\ High(n, i) \in Nat
      BY <1>1, HighFacts
    <3>2. CASE i < top
      BY <1>1, <2>3, <2>5, <3>1, <3>2
    <3>3. CASE ~(i < top)
      <4>1. i \in top .. MSB + 1
        BY <1>1, <2>3, <3>3
      <4> QED BY <2>4, <3>1, <3>3, <4>1
    <3> QED BY <3>2, <3>3
  <2>7. Wrap(n + 1) = n + 1
    BY <1>1, <1>2 DEF Wrap
  <2>8. ASSUME NEW i \in Bits \ {top - 1} PROVE i \in Gray(n) <=> i \in Gray(n + 1)
    <3>1. i \in 0 .. MSB + 1 /\ i + 1 \in 0 .. MSB + 1
      BY <1>1 DEF Bits
    <3>2. (i < top /\ i + 1 < top) \/ (~(i < top) /\ ~(i + 1 < top))
      BY <1>1, <2>3 DEF Bits
    <3> QED BY <1>1, <2>6, <3>1, <3>2, GrayBits
  <2>9. top - 1 \in Bits
    BY <1>1, <2>3 DEF Bits
  <2> QED BY <2>7, <2>8, <2>9
<1>3. CASE n + 1 = 2 * Depth
  <2> DEFINE S == {i \in 0 .. MSB + 1 : High(n, i) + 1 = 2^(MSB + 1 - i)}
  <2>1. 0 \in S
    <3>1. MSB + 1 - 0 = MSB + 1 /\ 0 \in 0 .. MSB + 1
      BY <1>1
    <3>2. High(n, 0) + 1 = 2^(MSB + 1)
      BY <1>1, <1>3, HighFacts, PowersTypes
    <3> QED BY <3>1, <3>2
  <2>2. ASSUME NEW i \in 0 .. (MSB + 1) - 1, i \in S PROVE i + 1 \in S
    <3>1. i \in Bits /\ MSB - i \in 0 .. LGFIFO /\ MSB - i \in 0 .. MSB + 1
          /\ MSB + 1 - i = (MSB - i) + 1 /\ MSB + 1 - (i + 1) = MSB - i
      BY <1>1 DEF Bits, MSB
    <3>2. High(n, i) + 1 = 2 * 2^(MSB - i) /\ 2^(MSB - i) \in Nat \ {0}
      BY <2>2, <3>1, PowersAssumption, PowersTypes
    <3>3. High(n, i + 1) = High(n, i) \div 2 /\ High(n, i) \in Nat
      BY <1>1, <3>1, HighFacts
    <3>4. High(n, i + 1) + 1 = 2^(MSB - i)
      BY <3>2, <3>3
    <3> QED BY <1>1, <3>1, <3>4
  <2> HIDE DEF S
  <2>3. 0 .. MSB + 1 \subseteq S
    BY <1>1, <2>1, <2>2, Climb
  <2>4. ASSUME NEW i \in Bits PROVE Bit(n, i) = 1
    <3>1. MSB - i \in 0 .. LGFIFO /\ MSB - i \in 0 .. MSB + 1 /\ MSB + 1 - i = (MSB - i) + 1
          /\ i \in 0 .. MSB + 1
      BY <1>1 DEF Bits, MSB
    <3>2. High(n, i) + 1 = 2 * 2^(MSB - i) /\ 2^(MSB - i) \in Nat \ {0}
      BY <2>3, <3>1, PowersAssumption, PowersTypes DEF S
    <3>3. High(n, i) \in Nat /\ Bit(n, i) = High(n, i) % 2
      BY <1>1, <3>1, HighFacts
    <3> QED BY <3>2, <3>3
  <2>5. ASSUME NEW i \in 0 .. MSB + 1 PROVE Bit(0, i) = 0
    <3>1. 2^i \in Nat \ {0}
      BY PowersTypes
    <3> QED BY <3>1 DEF Bit
  <2>6. Wrap(n + 1) = 0
    BY <1>1, <1>3 DEF Wrap
  <2>7. ASSUME NEW i \in Bits \ {MSB} PROVE i \in Gray(n) <=> i \in Gray(0)
    <3>1. i \in Bits /\ i + 1 \in Bits /\ i \in 0 .. MSB + 1 /\ i + 1 \in 0 .. MSB + 1
      BY <1>1 DEF Bits
    <3> QED BY <1>1, <2>4, <2>5, <3>1, GrayBits
  <2>8. MSB \in Bits
    BY <1>1 DEF Bits
  <2> QED BY <2>6, <2>7, <2>8
<1> QED BY <1>1, <1>2, <1>3 DEF Pointers

\* A flip-flop that samples a pointer's code as the pointer counts up takes
\* the code from before the change or that from after it.
LEMMA SampledCode ==
  ASSUME NEW n \in Pointers, NEW s \in Sampled(Gray(n), Gray(Wrap(n + 1)))
  PROVE  s = Gray(n) \/ s = Gray(Wrap(n + 1))
<1> DEFINE old == Gray(n)
           new == Gray(Wrap(n + 1))
<1>1. old \subseteq Bits /\ new \subseteq Bits
  BY DEF Gray
<1>2. PICK j \in Bits : \A i \in Bits \ {j} : i \in old <=> i \in new
  BY GrayStep
<1>3. s \subseteq Bits /\ old \cap new \subseteq s /\ s \subseteq old \cup new
  BY DEF Sampled
<1> HIDE DEF old, new
<1>4. CASE j \in s <=> j \in old
  <2>1. \A i \in Bits : i \in s <=> i \in old
    BY <1>2, <1>3, <1>4
  <2> QED BY <1>1, <1>3, <2>1 DEF old
<1>5. CASE j \in s <=> j \in new
  <2>1. \A i \in Bits : i \in s <=> i \in new
    BY <1>2, <1>3, <1>5
  <2> QED BY <1>1, <1>3, <2>1 DEF new
<1>6. (j \in s <=> j \in old) \/ (j \in s <=> j \in new)
  BY <1>3
<1> QED BY <1>4, <1>5, <1>6 DEF old, new

LEMMA SampledStill ==
  ASSUME NEW n, NEW s \in Sampled(Gray(n), Gray(n))
  PROVE  s = Gray(n)
BY DEF Sampled

Top == {MSB - 1, MSB}
Flipped(code) == (code \ Top) \cup (Top \ code)

\* Half a turn away the two top bits of the code are inverted.
LEMMA GrayHalfTurn ==
  ASSUME NEW n \in 0 .. Depth - 1
  PROVE  Gray(n + Depth) = Flipped(Gray(n))
<1>1. /\ MSB \in Nat /\ MSB >= 2 /\ n \in Nat /\ n + Depth \in Nat /\ Depth \in Nat \ {0}
      /\ n < Depth /\ n + Depth < 2 * Depth
  BY LgfifoAssumption, PowersTypes DEF MSB
<1> DEFINE S == {i \in 0 .. MSB : High(n + Depth, i) = High(n, i) + 2^(MSB - i)}
<1>2. 0 \in S
  <2>1. MSB - 0 = MSB /\ 0 \in 0 .. MSB
    BY <1>1
  <2>2. High(n + Depth, 0) = n + Depth /\ High(n, 0) = n
    BY <1>1, HighFacts
  <2> QED BY <2>1, <2>2 DEF Depth, MSB
<1>3. ASSUME NEW i \in 0 .. MSB - 1
      PROVE  /\ i \in Bits /\ i + 1 \in Bits /\ i \in 0 .. MSB + 1 /\ MSB - (i + 1) \in 0 .. MSB + 1
             /\ 2^(MSB - i) = 2 * 2^(MSB - (i + 1)) /\ 2^(MSB - (i + 1)) \in Nat
  <2>1. /\ i \in Bits /\ i + 1 \in Bits /\ i \in 0 .. MSB + 1 /\ MSB - (i + 1) \in 0 .. MSB + 1
        /\ MSB - (i + 1) \in 0 .. LGFIFO /\ (MSB - (i + 1)) + 1 = MSB - i
    BY <1>1 DEF Bits, MSB
  <2>2. 2^((MSB - (i + 1)) + 1) = 2 * 2^(MSB - (i + 1))
    BY <2>1, PowersAssumption
  <2> QED BY <2>1, <2>2, PowersTypes
<1>4. ASSUME NEW i \in 0 .. MSB - 1, i \in S PROVE i + 1 \in S
  <2>1. High(n + Depth, i) = High(n, i) + 2 * 2^(MSB - (i + 1))
    BY <1>3, <1>4
  <2>2. /\ High(n + Depth, i + 1) = High(n + Depth, i) \div 2 /\ High(n, i + 1) = High(n, i) \div 2
        /\ High(n, i) \in Nat
    BY <1>1, <1>3, HighFacts
  <2>3. High(n + Depth, i + 1) = High(n, i + 1) + 2^(MSB - (i + 1))
    BY <1>3, <2>1, <2>2
  <2>4. i + 1 \in 0 .. MSB
    BY <1>1
  <2> QED BY <2>3, <2>4
<1> HIDE DEF S
<1>5. 0 .. MSB \subseteq S
  BY <1>1, <1>2, <1>4, Climb
<1>6. ASSUME NEW i \in 0 .. MSB - 1 PROVE Bit(n + Depth, i) = Bit(n, i)
  <2>1. High(n + Depth, i) = High(n, i) + 2 * 2^(MSB - (i + 1))
    BY <1>1, <1>3, <1>5 DEF S
  <2>2. /\ High(n, i) \in Nat /\ Bit(n, i) = High(n, i) % 2
        /\ Bit(n + Depth, i) = High(n + Depth, i) % 2
    BY <1>1, <1>3, HighFacts
  <2> QED BY <1>3, <2>1, <2>2
<1>7. Bit(n, MSB) = 0 /\ Bit(n + Depth, MSB) = 1
  <2>1. High(n, MSB) = 0
    BY <1>1, HighFacts
  <2>2. High(n + Depth, MSB) = 1
    <3>1. MSB \in S /\ MSB - MSB = 0
      BY <1>1, <1>5
    <3>2. High(n + Depth, MSB) = High(n, MSB) + 2^(MSB - MSB)
      BY <3>1 DEF S
    <3>3. High(n + Depth, MSB) = 0 + 2^0
      BY <2>1, <3>1, <3>2
    <3> QED BY <3>3
  <2>3. MSB \in 0 .. MSB + 1
    BY <1>1
  <2>4. Bit(n, MSB) = High(n, MSB) % 2 /\ Bit(n + Depth, MSB) = High(n + Depth, MSB) % 2
    BY <1>1, <2>3, HighFacts
  <2> QED BY <2>1, <2>2, <2>4
<1>8. Bit(n, MSB + 1) = 0 /\ Bit(n + Depth, MSB + 1) = 0
  <2>1. High(n, MSB + 1) = 0 /\ High(n + Depth, MSB + 1) = 0
    BY <1>1, HighFacts
  <2>2. MSB + 1 \in 0 .. MSB + 1
    BY <1>1
  <2>3. /\ Bit(n, MSB + 1) = High(n, MSB + 1) % 2
        /\ Bit(n + Depth, MSB + 1) = High(n + Depth, MSB + 1) % 2
    BY <1>1, <2>2, HighFacts
  <2> QED BY <2>1, <2>3
<1>9. ASSUME NEW i \in Bits PROVE i \in Gray(n + Depth) <=> i \in Flipped(Gray(n))
  <2>1. /\ i \in Gray(n) <=> Bit(n, i) # Bit(n, i + 1)
        /\ i \in Gray(n + Depth) <=> Bit(n + Depth, i) # Bit(n + Depth, i + 1)
        /\ Bit(n, i) \in 0 .. 1 /\ Bit(n, i + 1) \in 0 .. 1
    BY <1>1, GrayBits
  <2>2. CASE i = MSB
    BY <1>1, <1>7, <1>8, <2>1, <2>2 DEF Flipped, Top
  <2>3. CASE i = MSB - 1
    <3>1. i \in 0 .. MSB - 1 /\ i + 1 = MSB
      BY <1>1, <2>3
    <3> QED BY <1>6, <1>7, <2>1, <2>3, <3>1 DEF Flipped, Top
  <2>4. CASE i \notin Top
    <3>1. i \in 0 .. MSB - 1 /\ i + 1 \in 0 .. MSB - 1
      BY <1>1, <2>4 DEF Top, Bits
    <3> QED BY <1>6, <2>1, <2>4, <3>1 DEF Flipped
  <2> QED BY <2>2, <2>3, <2>4 DEF Top
<1>10. Gray(n + Depth) \subseteq Bits /\ Flipped(Gray(n)) \subseteq Bits
  BY <1>1 DEF Gray, Flipped, Top, Bits
<1> QED BY <1>9, <1>10

-----------------------------------------------------------------------------
(* Pointers.                                                               *)

\* Pointers of 2 * Depth values, words at Depth places: without division.
LEMMA WrapCases ==
  /\ Depth \in Nat \ {0}
  /\ \A n \in 0 .. 4 * Depth - 1 : Wrap(n) = IF n < 2 * Depth THEN n ELSE n - 2 * Depth
  /\ \A n \in Pointers : Slot(n) = IF n < Depth THEN n ELSE n - Depth
  /\ \A n \in 0 .. 3 * Depth - 1 :
       Slot(n) = IF n < Depth THEN n ELSE IF n < 2 * Depth THEN n - Depth ELSE n - 2 * Depth
<1>1. Depth \in Nat \ {0}
  BY PowersTypes
<1>2. ASSUME NEW d \in Nat \ {0}, NEW n \in Nat
      PROVE  /\ n < d => n % d = n
             /\ n >= d /\ n < 2 * d => n % d = n - d
             /\ n >= 2 * d /\ n < 3 * d => n % d = n - 2 * d
  OBVIOUS
<1>3. ASSUME NEW n \in 0 .. 4 * Depth - 1
      PROVE  Wrap(n) = IF n < 2 * Depth THEN n ELSE n - 2 * Depth
  <2>1. 2 * Depth \in Nat \ {0} /\ n \in Nat /\ n < 2 * (2 * Depth)
    BY <1>1
  <2> QED BY <1>2, <2>1 DEF Wrap
<1>4. ASSUME NEW n \in 0 .. 3 * Depth - 1
      PROVE  Slot(n) = IF n < Depth THEN n ELSE IF n < 2 * Depth THEN n - Depth ELSE n - 2 * Depth
  <2>1. n \in Nat /\ n < 3 * Depth
    BY <1>1
  <2>2. /\ n < Depth => Slot(n) = n
        /\ n >= Depth /\ n < 2 * Depth => Slot(n) = n - Depth
        /\ n >= 2 * Depth /\ n < 3 * Depth => Slot(n) = n - 2 * Depth
    BY <1>1, <1>2, <2>1, Zenon DEF Slot
  <2> QED BY <1>1, <2>1, <2>2
<1>5. \A n \in Pointers : n \in 0 .. 3 * Depth - 1 /\ n < 2 * Depth
  BY <1>1 DEF Pointers
<1> QED BY <1>1, <1>3, <1>4, <1>5

LEMMA LagCases ==
  \A o, n \in Pointers : Lag(o, n) = IF n >= o THEN n - o ELSE n + 2 * Depth - o
<1> TAKE o, n \in Pointers
<1>1. Depth \in Nat \ {0} /\ n + 2 * Depth - o \in 0 .. 4 * Depth - 1
  BY WrapCases DEF Pointers
<1> QED BY <1>1, WrapCases DEF Lag, Pointers

LEMMA LagFacts ==
  ASSUME NEW o \in Pointers, NEW n \in Pointers
  PROVE  /\ Lag(o, n) \in Pointers
         /\ Wrap(n + 1) \in Pointers
         /\ Lag(o, n) = 0 <=> o = n
         /\ Lag(o, Wrap(n + 1)) = IF Lag(o, n) = 2 * Depth - 1 THEN 0 ELSE Lag(o, n) + 1
         /\ Lag(Wrap(o + 1), n) = IF o = n THEN 2 * Depth - 1 ELSE Lag(o, n) - 1
         /\ Lag(o, n) = Depth <=> o = Wrap(n + Depth)
<1>1. Depth \in Nat \ {0} /\ 0 \in Pointers
  BY WrapCases DEF Pointers
<1>2. /\ Wrap(n + 1) = IF n + 1 = 2 * Depth THEN 0 ELSE n + 1
      /\ Wrap(o + 1) = IF o + 1 = 2 * Depth THEN 0 ELSE o + 1
      /\ Wrap(n + Depth) = IF n < Depth THEN n + Depth ELSE n - Depth
  BY <1>1, WrapCases DEF Pointers
<1>3. Wrap(n + 1) \in Pointers /\ Wrap(o + 1) \in Pointers
  BY <1>1, <1>2 DEF Pointers
<1>4. /\ Lag(o, n) = IF n >= o THEN n - o ELSE n + 2 * Depth - o
      /\ Lag(o, Wrap(n + 1)) = IF Wrap(n + 1) >= o THEN Wrap(n + 1) - o
                               ELSE Wrap(n + 1) + 2 * Depth - o
      /\ Lag(Wrap(o + 1), n) = IF n >= Wrap(o + 1) THEN n - Wrap(o + 1)
                               ELSE n + 2 * Depth - Wrap(o + 1)
  BY <1>3, LagCases
<1>5. o \in 0 .. 2 * Depth - 1 /\ n \in 0 .. 2 * Depth - 1
  BY DEF Pointers
<1>6. Lag(o, n) \in Pointers
  BY <1>1, <1>4, <1>5 DEF Pointers
<1>7. Lag(o, n) = 0 <=> o = n
  BY <1>1, <1>4, <1>5
<1>8. Lag(o, Wrap(n + 1)) = IF Lag(o, n) = 2 * Depth - 1 THEN 0 ELSE Lag(o, n) + 1
  BY <1>1, <1>2, <1>4, <1>5
<1>9. Lag(Wrap(o + 1), n) = IF o = n THEN 2 * Depth - 1 ELSE Lag(o, n) - 1
  BY <1>1, <1>2, <1>4, <1>5
<1>10. Lag(o, n) = Depth <=> o = Wrap(n + Depth)
  BY <1>1, <1>2, <1>4, <1>5
<1> QED BY <1>3, <1>6, <1>7, <1>8, <1>9, <1>10

\* The writer sees the FIFO full when the pointer it has of the reader is a
\* lap behind its own, and the reader sees it empty when they are the same.
LEMMA FullMeans ==
  ASSUME NEW r \in Pointers, wr_rgray = Gray(r), wr_addr \in Pointers, wgray = Gray(wr_addr)
  PROVE  o_wr_full <=> Lag(r, wr_addr) = Depth
<1> DEFINE m == Wrap(wr_addr + Depth)
<1>1. Depth \in Nat \ {0}
  BY WrapCases
<1>2. m = (IF wr_addr < Depth THEN wr_addr + Depth ELSE wr_addr - Depth) /\ m \in Pointers
  BY <1>1, WrapCases DEF Pointers
<1> HIDE DEF m
<1>3. Gray(m) = Flipped(Gray(wr_addr))
  <2>1. CASE wr_addr < Depth
    <3>1. wr_addr \in 0 .. Depth - 1
      BY <1>1, <2>1 DEF Pointers
    <3> QED BY <1>2, <2>1, <3>1, GrayHalfTurn
  <2>2. CASE ~(wr_addr < Depth)
    <3>1. m \in 0 .. Depth - 1 /\ m + Depth = wr_addr
      BY <1>1, <1>2, <2>2 DEF Pointers
    <3>2. Gray(wr_addr) = Flipped(Gray(m))
      BY <3>1, GrayHalfTurn
    <3> QED BY <3>2 DEF Flipped
  <2> QED BY <2>1, <2>2
<1>4. o_wr_full <=> Gray(r) = Gray(m)
  BY <1>3 DEF o_wr_full, Flipped, Top
<1>5. Gray(r) = Gray(m) <=> r = m
  BY <1>2, GrayInjective
<1>6. Lag(r, wr_addr) = Depth <=> r = m
  BY LagFacts, Zenon DEF m
<1> QED BY <1>4, <1>5, <1>6, Zenon

-----------------------------------------------------------------------------
(* The pointers and their copies.                                          *)

\* Behind the writer come the reader, the writer's two copies of the reader's
\* pointer, and never more than a lap; ahead of the reader its two copies of
\* the writer's pointer, and the writer.
CopiesInv ==
  /\ wgray = Gray(wr_addr) /\ rgray = Gray(rd_addr)
  /\ \E r1, r2 \in Pointers :
       /\ rgray_cross = Gray(r1) /\ wr_rgray = Gray(r2)
       /\ Lag(rd_addr, wr_addr) <= Lag(r1, wr_addr)
       /\ Lag(r1, wr_addr) <= Lag(r2, wr_addr)
       /\ Lag(r2, wr_addr) <= Depth
  /\ \E w1, w2 \in Pointers :
       /\ wgray_cross = Gray(w1) /\ rd_wgray = Gray(w2)
       /\ Lag(rd_addr, w2) <= Lag(rd_addr, w1)
       /\ Lag(rd_addr, w1) <= Lag(rd_addr, wr_addr)

FifoInv == TypeOK /\ CopiesInv /\ (~rd_reset_n => o_rd_empty)

LEMMA LagTypes ==
  /\ Depth \in Nat \ {0}
  /\ \A o, n \in Pointers : Lag(o, n) \in Int /\ Lag(o, n) >= 0 /\ Lag(o, n) < 2 * Depth
<1>1. Depth \in Nat \ {0} /\ \A o, n \in Pointers : Lag(o, n) \in Pointers
  BY WrapCases, LagFacts
<1>2. \A k \in Pointers : k \in Int /\ k >= 0 /\ k < 2 * Depth
  BY <1>1 DEF Pointers
<1> QED BY <1>1, <1>2

\* The writer, which sees the reader at r2 and is not full, moves on.
LEMMA WriterLag ==
  ASSUME NEW w \in Pointers, NEW r2 \in Pointers, NEW wn, Lag(r2, w) <= Depth,
         wn = w \/ (wn = Wrap(w + 1) /\ Lag(r2, w) # Depth),
         NEW o \in Pointers, Lag(o, w) <= Lag(r2, w)
  PROVE  Lag(o, wn) = Lag(o, w) + (IF wn = w THEN 0 ELSE 1)
<1>1. CASE wn = w
  BY <1>1, LagTypes
<1>2. CASE wn # w
  <2>1. wn = Wrap(w + 1) /\ Lag(o, w) < Depth
    BY <1>2, LagTypes
  <2> QED BY <1>2, <2>1, LagFacts, LagTypes
<1> QED BY <1>1, <1>2

\* The reader, which sees the writer at w2 and is not empty, moves on.
LEMMA ReaderLag ==
  ASSUME NEW r \in Pointers, NEW w2 \in Pointers, NEW rn,
         rn = r \/ (rn = Wrap(r + 1) /\ w2 # r),
         NEW n \in Pointers, Lag(r, w2) <= Lag(r, n)
  PROVE  Lag(rn, n) = Lag(r, n) - (IF rn = r THEN 0 ELSE 1)
<1>1. CASE rn = r
  BY <1>1, LagTypes
<1>2. CASE rn # r
  <2>1. rn = Wrap(r + 1) /\ Lag(r, w2) # 0
    BY <1>2, LagFacts
  <2>2. Lag(r, n) # 0
    BY <2>1, LagTypes
  <2>3. r # n
    BY <2>2, LagFacts
  <2> QED BY <1>2, <2>1, <2>3, LagFacts
<1> QED BY <1>1, <1>2

LEMMA ZeroPointer == Gray(0) = {} /\ Lag(0, 0) = 0 /\ 0 \in Pointers
<1>1. 0 \in Pointers
  BY WrapCases DEF Pointers
<1>2. ASSUME NEW i \in 0 .. MSB + 1 PROVE Bit(0, i) = 0
  BY PowersTypes DEF Bit
<1>3. \A i \in Bits : i \in 0 .. MSB + 1 /\ i + 1 \in 0 .. MSB + 1
  BY LgfifoAssumption DEF Bits, MSB
<1>4. Gray(0) = {}
  BY <1>2, <1>3 DEF Gray
<1> QED BY <1>1, <1>4, LagFacts

LEMMA FifoInvInit == Init => FifoInv
<1> SUFFICES ASSUME Init PROVE FifoInv
  OBVIOUS
<1>1. Depth \in Nat \ {0} /\ Depth >= 0
  BY WrapCases
<1>2. CopiesInv
  BY <1>1, ZeroPointer DEF Init, CopiesInv
<1>3. wr_addr \in Pointers /\ rd_addr \in Pointers /\ resets \in 0 .. MaxResets
  BY ZeroPointer, ResetsAssumption DEF Init
<1>4. {wgray, rgray, rgray_cross, wr_rgray, wgray_cross, rd_wgray} \subseteq SUBSET Bits
  BY DEF Init
<1>5. TypeOK
  BY <1>3, <1>4 DEF Init, TypeOK, Pointers
<1> QED BY <1>2, <1>5 DEF Init, FifoInv

\* An edge of the write clock, or none.
Writes == (\E in \in Inputs : WriteEdge(in)) \/ UNCHANGED <<wr_addr, wgray, mem>>

LEMMA WriterMoves ==
  ASSUME FifoInv, Writes
  PROVE  /\ wr_addr' = wr_addr \/ (wr_addr' = Wrap(wr_addr + 1) /\ ~o_wr_full)
         /\ wr_addr' \in Pointers /\ wgray' = Gray(wr_addr')
         /\ mem' \in [0 .. Depth - 1 -> Data]
<1>1. /\ wr_addr \in Pointers /\ wgray = Gray(wr_addr) /\ Wrap(wr_addr + 1) \in Pointers
      /\ mem \in [0 .. Depth - 1 -> Data] /\ Depth \in Nat \ {0}
  BY WrapCases, LagFacts DEF FifoInv, TypeOK, CopiesInv, Pointers
<1>2. CASE UNCHANGED <<wr_addr, wgray, mem>>
  BY <1>1, <1>2
<1>3. ASSUME NEW in \in Inputs, WriteEdge(in)
      PROVE  /\ wr_addr' = wr_addr \/ (wr_addr' = Wrap(wr_addr + 1) /\ ~o_wr_full)
             /\ wr_addr' \in Pointers /\ wgray' = Gray(wr_addr')
             /\ mem' \in [0 .. Depth - 1 -> Data]
  <2>1. Slot(wr_addr) \in 0 .. Depth - 1
    BY <1>1, WrapCases DEF Pointers
  <2>2. Accepted(in) # <<>> => ~o_wr_full /\ in[1] \in Data
    BY DEF Accepted, Inputs
  <2>3. mem' \in [0 .. Depth - 1 -> Data]
    BY <1>1, <1>3, <2>1, <2>2 DEF WriteEdge
  <2> QED BY <1>1, <1>3, <2>2, <2>3 DEF WriteEdge
<1> QED BY <1>2, <1>3 DEF Writes

\* An edge of the read clock, or none.
Reads == (\E i_rd \in BOOLEAN : ReadEdge(i_rd))
         \/ UNCHANGED <<rd_addr, rgray, o_rd_empty, o_rd_data, taken>>

LEMMA ReaderMoves ==
  ASSUME FifoInv, Reads, UNCHANGED rd_reset_n
  PROVE  /\ rd_addr' = rd_addr \/ (rd_addr' = Wrap(rd_addr + 1) /\ ~lcl_rd_empty)
         /\ rd_addr' \in Pointers /\ rgray' = Gray(rd_addr')
         /\ o_rd_empty' \in BOOLEAN /\ o_rd_data' \in Data /\ taken' \in Data \cup {"none"}
         /\ ~rd_reset_n' => o_rd_empty'
<1>1. /\ rd_addr \in Pointers /\ rgray = Gray(rd_addr) /\ Wrap(rd_addr + 1) \in Pointers
      /\ o_rd_empty \in BOOLEAN /\ o_rd_data \in Data /\ taken \in Data \cup {"none"}
      /\ mem \in [0 .. Depth - 1 -> Data] /\ Depth \in Nat \ {0} /\ (~rd_reset_n => o_rd_empty)
  BY WrapCases, LagFacts DEF FifoInv, TypeOK, CopiesInv, Pointers
<1>2. CASE UNCHANGED <<rd_addr, rgray, o_rd_empty, o_rd_data, taken>>
  BY <1>1, <1>2
<1>3. ASSUME NEW i_rd \in BOOLEAN, ReadEdge(i_rd)
      PROVE  /\ rd_addr' = rd_addr \/ (rd_addr' = Wrap(rd_addr + 1) /\ ~lcl_rd_empty)
             /\ rd_addr' \in Pointers /\ rgray' = Gray(rd_addr')
             /\ o_rd_empty' \in BOOLEAN /\ o_rd_data' \in Data /\ taken' \in Data \cup {"none"}
             /\ ~rd_reset_n' => o_rd_empty'
  <2>1. Slot(rd_addr) \in 0 .. Depth - 1
    BY <1>1, WrapCases DEF Pointers
  <2>2. o_rd_data' \in Data /\ taken' \in Data \cup {"none"}
    BY <1>1, <1>3, <2>1 DEF ReadEdge
  <2>3. lcl_rd_empty \in BOOLEAN
    BY DEF lcl_rd_empty
  <2>4. o_rd_empty' \in BOOLEAN /\ (~rd_reset_n' => o_rd_empty')
    BY <1>1, <1>3, <2>3 DEF ReadEdge
  <2> QED BY <1>1, <1>3, <2>2, <2>4 DEF ReadEdge
<1> QED BY <1>2, <1>3 DEF Reads

\* What the flip-flops that carry a pointer across make of it.
WriterSamples == WriteSamples \/ (UNCHANGED <<rgray_cross, wr_rgray>>)
ReaderSamples == ReadSamples \/ (UNCHANGED <<wgray_cross, rd_wgray>>)

LEMMA SampledPointer ==
  ASSUME NEW n \in Pointers, NEW m, m = n \/ m = Wrap(n + 1), NEW s \in Sampled(Gray(n), Gray(m))
  PROVE  s = Gray(n) \/ s = Gray(m)
BY SampledCode, SampledStill

LEMMA CopiesMove ==
  ASSUME FifoInv, Writes, Reads, WriterSamples, ReaderSamples, UNCHANGED rd_reset_n
  PROVE  CopiesInv'
<1>1. PICK r1, r2 \in Pointers :
        /\ rgray_cross = Gray(r1) /\ wr_rgray = Gray(r2)
        /\ Lag(rd_addr, wr_addr) <= Lag(r1, wr_addr) /\ Lag(r1, wr_addr) <= Lag(r2, wr_addr)
        /\ Lag(r2, wr_addr) <= Depth
  BY DEF FifoInv, CopiesInv
<1>2. PICK w1, w2 \in Pointers :
        /\ wgray_cross = Gray(w1) /\ rd_wgray = Gray(w2)
        /\ Lag(rd_addr, w2) <= Lag(rd_addr, w1) /\ Lag(rd_addr, w1) <= Lag(rd_addr, wr_addr)
  BY DEF FifoInv, CopiesInv
<1>3. /\ wr_addr \in Pointers /\ rd_addr \in Pointers
      /\ wgray = Gray(wr_addr) /\ rgray = Gray(rd_addr)
  BY DEF FifoInv, CopiesInv, TypeOK, Pointers
<1> DEFINE r == rd_addr
           w == wr_addr
           rn == rd_addr'
           wn == wr_addr'
<1>4. /\ wn = w \/ (wn = Wrap(w + 1) /\ Lag(r2, w) # Depth)
      /\ wgray' = Gray(wn) /\ wn \in Pointers
  BY <1>1, <1>3, WriterMoves, FullMeans
<1>5. /\ rn = r \/ (rn = Wrap(r + 1) /\ w2 # r)
      /\ rgray' = Gray(rn) /\ rn \in Pointers
  BY <1>2, <1>3, ReaderMoves DEF lcl_rd_empty
<1>6. /\ Lag(rn, wn) <= Lag(r, wn) /\ Lag(r, wn) <= Lag(r1, wn)
      /\ Lag(r1, wn) <= Lag(r2, wn) /\ Lag(r2, wn) <= Depth
      /\ Lag(rn, w2) <= Lag(rn, w1) /\ Lag(rn, w1) <= Lag(rn, w)
      /\ Lag(rn, w) <= Lag(rn, wn)
  <2>1. /\ r \in Pointers /\ w \in Pointers /\ rn \in Pointers /\ wn \in Pointers
        /\ r1 \in Pointers /\ r2 \in Pointers /\ w1 \in Pointers /\ w2 \in Pointers
        /\ Lag(r, w) <= Lag(r1, w) /\ Lag(r1, w) <= Lag(r2, w) /\ Lag(r2, w) <= Depth
        /\ Lag(r, w2) <= Lag(r, w1) /\ Lag(r, w1) <= Lag(r, w)
    BY <1>1, <1>2, <1>3, <1>4, <1>5
  <2>2. rn = r \/ (rn = Wrap(r + 1) /\ w2 # r)
    BY <1>5
  <2>3. wn = w \/ (wn = Wrap(w + 1) /\ Lag(r2, w) # Depth)
    BY <1>4
  <2> HIDE DEF r, w, rn, wn
  <2>4. Lag(r, w) <= Lag(r2, w)
    BY <2>1, LagTypes
  <2>5. \A o \in {r, r1, r2} : Lag(o, wn) = Lag(o, w) + (IF wn = w THEN 0 ELSE 1)
    BY <2>1, <2>3, <2>4, WriterLag, LagTypes
  <2>6. /\ Lag(r, wn) <= Lag(r1, wn) /\ Lag(r1, wn) <= Lag(r2, wn) /\ Lag(r2, wn) <= Depth
        /\ Lag(r, w) <= Lag(r, wn)
    BY <2>1, <2>3, <2>5, LagTypes
  <2>7. Lag(r, w2) <= Lag(r, w) /\ Lag(r, w2) <= Lag(r, wn)
    BY <2>1, <2>6, LagTypes
  <2>8. \A n \in {w2, w1, w, wn} : Lag(rn, n) = Lag(r, n) - (IF rn = r THEN 0 ELSE 1)
    BY <2>1, <2>2, <2>7, ReaderLag, LagTypes
  <2> QED BY <2>1, <2>6, <2>8, LagTypes
<1>7. \A o, n \in Pointers : Lag(o, n) \in Nat
  BY LagFacts DEF Pointers
<1>8. Depth \in Nat
  BY WrapCases
<1>9. \E p1, p2 \in Pointers :
        /\ rgray_cross' = Gray(p1) /\ wr_rgray' = Gray(p2)
        /\ Lag(rn, wn) <= Lag(p1, wn) /\ Lag(p1, wn) <= Lag(p2, wn) /\ Lag(p2, wn) <= Depth
  <2>1. CASE UNCHANGED <<rgray_cross, wr_rgray>>
    <3>1. Lag(rn, wn) <= Lag(r1, wn)
      BY <1>3, <1>4, <1>5, <1>6, <1>7
    <3> QED BY <1>1, <1>6, <2>1, <3>1
  <2>2. CASE wr_rgray' = rgray_cross /\ rgray_cross' \in Sampled(rgray, rgray')
    <3>1. rgray_cross' = Gray(r) \/ rgray_cross' = Gray(rn)
      BY <1>3, <1>5, <2>2, SampledPointer
    <3>2. Lag(rn, wn) <= Lag(rn, wn) /\ Lag(rn, wn) <= Lag(r1, wn) /\ Lag(r1, wn) <= Depth
      BY <1>3, <1>4, <1>5, <1>6, <1>7, <1>8
    <3>3. CASE rgray_cross' = Gray(r)
      BY <1>1, <1>3, <1>6, <2>2, <3>2, <3>3
    <3>4. CASE rgray_cross' = Gray(rn)
      BY <1>1, <1>5, <1>6, <2>2, <3>2, <3>4
    <3> QED BY <3>1, <3>3, <3>4
  <2> QED BY <2>1, <2>2 DEF WriterSamples, WriteSamples
<1>10. \E p1, p2 \in Pointers :
        /\ wgray_cross' = Gray(p1) /\ rd_wgray' = Gray(p2)
        /\ Lag(rn, p2) <= Lag(rn, p1) /\ Lag(rn, p1) <= Lag(rn, wn)
  <2>1. CASE UNCHANGED <<wgray_cross, rd_wgray>>
    <3>1. Lag(rn, w1) <= Lag(rn, wn)
      BY <1>3, <1>4, <1>5, <1>6, <1>7
    <3> QED BY <1>2, <1>6, <2>1, <3>1
  <2>2. CASE rd_wgray' = wgray_cross /\ wgray_cross' \in Sampled(wgray, wgray')
    <3>1. wgray_cross' = Gray(w) \/ wgray_cross' = Gray(wn)
      BY <1>3, <1>4, <2>2, SampledPointer
    <3>2. Lag(rn, wn) <= Lag(rn, wn) /\ Lag(rn, w1) <= Lag(rn, wn)
      BY <1>3, <1>4, <1>5, <1>6, <1>7
    <3>3. CASE wgray_cross' = Gray(w)
      BY <1>2, <1>3, <1>6, <2>2, <3>3
    <3>4. CASE wgray_cross' = Gray(wn)
      BY <1>2, <1>4, <2>2, <3>2, <3>4
    <3> QED BY <3>1, <3>3, <3>4
  <2> QED BY <2>1, <2>2 DEF ReaderSamples, ReadSamples
<1> HIDE DEF r, w, rn, wn
<1> QED BY <1>4, <1>5, <1>9, <1>10 DEF CopiesInv, rn, wn

\* Every step but a reset moves the two sides, or one of them, or none.
LEMMA StepMoves ==
  ASSUME [Next]_vars
  PROVE  \/ Reset
         \/ Writes /\ Reads /\ WriterSamples /\ ReaderSamples /\ UNCHANGED <<rd_reset_n, resets>>
            /\ wr_reset_n' \in {wr_reset_n, TRUE}
         \/ ReleaseRead
<1>1. CASE WriteClock
  BY <1>1 DEF WriteClock, readVars, Writes, Reads, WriterSamples, ReaderSamples
<1>2. ASSUME NEW i_rd \in BOOLEAN, ReadClock(i_rd)
      PROVE  Writes /\ Reads /\ WriterSamples /\ ReaderSamples /\ UNCHANGED <<rd_reset_n, resets>>
             /\ wr_reset_n' = wr_reset_n
  BY <1>2 DEF ReadClock, writeVars, Writes, Reads, WriterSamples, ReaderSamples
<1>3. ASSUME NEW i_rd \in BOOLEAN, BothClocks(i_rd)
      PROVE  Writes /\ Reads /\ WriterSamples /\ ReaderSamples /\ UNCHANGED <<rd_reset_n, resets>>
             /\ wr_reset_n' = wr_reset_n
  BY <1>3 DEF BothClocks, Writes, Reads, WriterSamples, ReaderSamples
<1>4. CASE ReleaseWrite
  BY <1>4 DEF ReleaseWrite, readVars, Writes, Reads, WriterSamples, ReaderSamples
<1>5. CASE UNCHANGED vars
  BY <1>5 DEF vars, writeVars, readVars, Writes, Reads, WriterSamples, ReaderSamples
<1> QED BY <1>1, <1>2, <1>3, <1>4, <1>5 DEF Next

LEMMA FifoInvStep == FifoInv /\ [Next]_vars => FifoInv'
<1> SUFFICES ASSUME FifoInv, [Next]_vars PROVE FifoInv'
  OBVIOUS
<1>1. Depth \in Nat \ {0} /\ \A n : Gray(n) \subseteq Bits
  BY WrapCases DEF Gray
<1>2. CASE Reset
  <2>1. Gray(0) = {} /\ Lag(0, 0) = 0 /\ 0 \in Pointers
    BY <1>1, ZeroPointer
  <2>2. CopiesInv'
    BY <1>1, <1>2, <2>1 DEF Reset, CopiesInv
  <2>3. TypeOK'
    <3>1. /\ wr_addr' \in Pointers /\ rd_addr' \in Pointers
          /\ mem' \in [0 .. Depth - 1 -> Data] /\ o_rd_data' \in Data
      BY <1>2, <2>1 DEF Reset, FifoInv, TypeOK
    <3>2. {wgray, rgray, rgray_cross, wr_rgray, wgray_cross, rd_wgray}' \subseteq SUBSET Bits
      BY <1>2 DEF Reset
    <3>3. resets' \in 0 .. MaxResets
      BY <1>2, ResetsAssumption DEF Reset, FifoInv, TypeOK
    <3> QED BY <1>2, <3>1, <3>2, <3>3 DEF Reset, TypeOK, Pointers
  <2> QED BY <1>2, <2>2, <2>3 DEF Reset, FifoInv
<1>3. CASE ReleaseRead
  BY <1>3 DEF ReleaseRead, writeVars, FifoInv, TypeOK, CopiesInv
<1>4. CASE /\ Writes /\ Reads /\ WriterSamples /\ ReaderSamples /\ UNCHANGED <<rd_reset_n, resets>>
           /\ wr_reset_n' \in {wr_reset_n, TRUE}
  <2>1. CopiesInv'
    BY <1>4, CopiesMove
  <2>2. {wgray, rgray, rgray_cross, wr_rgray, wgray_cross, rd_wgray}' \subseteq SUBSET Bits
    BY <1>1, <2>1 DEF CopiesInv
  <2>3. /\ wr_addr' \in Pointers /\ rd_addr' \in Pointers /\ mem' \in [0 .. Depth - 1 -> Data]
        /\ o_rd_empty' \in BOOLEAN /\ o_rd_data' \in Data /\ taken' \in Data \cup {"none"}
        /\ ~rd_reset_n' => o_rd_empty'
    BY <1>4, WriterMoves, ReaderMoves
  <2>4. TypeOK'
    BY <1>4, <2>2, <2>3 DEF FifoInv, TypeOK, Pointers
  <2> QED BY <2>1, <2>3, <2>4 DEF FifoInv
<1> QED BY <1>2, <1>3, <1>4, StepMoves

LEMMA FifoInvAlways == Spec => []FifoInv
BY FifoInvInit, FifoInvStep, PTL DEF Spec

\* Every register of the FIFO keeps its range, pointers that wrap included.
THEOREM FifoTypeCorrect == Spec => []TypeOK
<1>1. FifoInv => TypeOK
  BY DEF FifoInv
<1> QED BY <1>1, FifoInvAlways, PTL

\* Neither side acts on a pointer ahead of the other's, and no flip-flop holds
\* a code its pointer never had, whatever bits the crossings sample.
THEOREM FifoNeverAhead == Spec => []NeverAhead
<1>1. FifoInv => NeverAhead
  <2> SUFFICES ASSUME FifoInv PROVE NeverAhead
    OBVIOUS
  <2>1. PICK r1, r2 \in Pointers :
          /\ wr_rgray = Gray(r2)
          /\ Lag(rd_addr, wr_addr) <= Lag(r1, wr_addr) /\ Lag(r1, wr_addr) <= Lag(r2, wr_addr)
          /\ Lag(r2, wr_addr) <= Depth
    BY DEF FifoInv, CopiesInv
  <2>2. PICK w1, w2 \in Pointers :
          /\ rd_wgray = Gray(w2)
          /\ Lag(rd_addr, w2) <= Lag(rd_addr, w1) /\ Lag(rd_addr, w1) <= Lag(rd_addr, wr_addr)
    BY DEF FifoInv, CopiesInv
  <2>3. \A n \in Pointers : Pointer(Gray(n)) = n
    BY GrayInjective DEF Pointer, Pointers
  <2>4. wr_addr \in Pointers /\ rd_addr \in Pointers /\ Depth \in Nat \ {0}
    BY WrapCases DEF FifoInv, TypeOK, Pointers
  <2>5. \A o, n \in Pointers : Lag(o, n) \in 0 .. 2 * Depth - 1
    BY LagFacts DEF Pointers
  <2>6. Lag(r2, rd_addr) <= Lag(r2, wr_addr)
    <3>1. Lag(rd_addr, wr_addr) <= Lag(r2, wr_addr)
      BY <2>1, <2>4, <2>5
    <3> QED BY <2>4, <3>1, LagCases DEF Pointers
  <2>7. Lag(rd_addr, w2) <= Lag(rd_addr, wr_addr)
    BY <2>2, <2>4, <2>5
  <2> QED BY <2>1, <2>2, <2>3, <2>6, <2>7 DEF NeverAhead
<1> QED BY <1>1, FifoInvAlways, PTL

-----------------------------------------------------------------------------
(* The words held.  Words(m, r, k) are the k words of the memory m from    *)
(* the pointer r on.                                                       *)

Words(m, r, k) == [i \in 1 .. k |-> m[Slot(r + i - 1)]]

LEMMA WordsSeq ==
  ASSUME NEW m \in [0 .. Depth - 1 -> Data], NEW r \in Pointers, NEW k \in 0 .. Depth
  PROVE  /\ Words(m, r, k) \in Seq(Data) /\ Len(Words(m, r, k)) = k
         /\ \A i \in 1 .. k : Words(m, r, k)[i] = m[Slot(r + i - 1)]
<1>1. Depth \in Nat \ {0} /\ k \in Nat
  BY WrapCases
<1>2. ASSUME NEW i \in 1 .. k PROVE Slot(r + i - 1) \in 0 .. Depth - 1
  <2>1. r + i - 1 \in 0 .. 3 * Depth - 1
    BY <1>1 DEF Pointers
  <2> QED BY <1>1, <2>1, WrapCases
<1>3. \A i \in 1 .. k : m[Slot(r + i - 1)] \in Data
  BY <1>2
<1>4. Words(m, r, k) \in [1 .. k -> Data]
  BY <1>3 DEF Words
<1> QED BY <1>1, <1>4 DEF Words

\* Pointers less than a lap apart are at different places.
LEMMA SlotsDistinct ==
  ASSUME NEW x \in 0 .. 3 * Depth - 1, NEW y \in 0 .. 3 * Depth - 1, x < y, y < x + Depth
  PROVE  Slot(x) # Slot(y)
<1>1. Depth \in Nat \ {0}
  BY WrapCases
<1>2. CASE x < Depth
  BY <1>1, <1>2, WrapCases
<1>3. CASE x >= Depth /\ x < 2 * Depth
  BY <1>1, <1>3, WrapCases
<1>4. CASE x >= 2 * Depth
  BY <1>1, <1>4, WrapCases
<1> QED BY <1>1, <1>2, <1>3, <1>4

LEMMA EndsWith ==
  ASSUME NEW s \in Seq(Data), NEW t \in Seq(Data), NEW d \in Data, Len(s) = Len(t) + 1,
         \A i \in 1 .. Len(t) : s[i] = t[i], s[Len(t) + 1] = d
  PROVE  s = t \o <<d>>
<1>1. <<d>> \in Seq(Data) /\ Len(<<d>>) = 1 /\ <<d>>[1] = d /\ Len(t) \in Nat
  OBVIOUS
<1>2. /\ t \o <<d>> \in Seq(Data) /\ Len(t \o <<d>>) = Len(t) + 1
      /\ \A i \in 1 .. Len(t) + 1 :
           (t \o <<d>>)[i] = IF i <= Len(t) THEN t[i] ELSE <<d>>[i - Len(t)]
  BY <1>1, ConcatProperties
<1>3. (t \o <<d>>)[Len(t) + 1] = d
  BY <1>1, <1>2
<1>4. \A i \in 1 .. Len(t) : (t \o <<d>>)[i] = t[i]
  BY <1>1, <1>2
<1>5. \A i \in 1 .. Len(s) : i \in 1 .. Len(t) \/ i = Len(t) + 1
  BY <1>1
<1>6. \A i \in 1 .. Len(s) : s[i] = (t \o <<d>>)[i]
  BY <1>3, <1>4, <1>5
<1> QED BY <1>2, <1>6, SeqEqual

\* A word put at the place behind the last is the last, and no other changes.
LEMMA WordsPut ==
  ASSUME NEW m \in [0 .. Depth - 1 -> Data], NEW r \in Pointers, NEW w \in Pointers,
         Lag(r, w) < Depth, NEW d \in Data, NEW put \in [0 .. Depth - 1 -> Data],
         put[Slot(w)] = d, \A x \in 0 .. Depth - 1 : x # Slot(w) => put[x] = m[x]
  PROVE  /\ Words(put, r, Lag(r, w)) = Words(m, r, Lag(r, w))
         /\ Words(put, r, Lag(r, w) + 1) = Words(m, r, Lag(r, w)) \o <<d>>
<1> DEFINE k == Lag(r, w)
<1>1. Depth \in Nat \ {0} /\ k \in 0 .. Depth - 1
  BY LagTypes
<1>2. r \in Nat /\ w \in Nat /\ r < 2 * Depth /\ w < 2 * Depth
  BY <1>1 DEF Pointers
<1>3. k = IF w >= r THEN w - r ELSE w + 2 * Depth - r
  BY LagCases
<1>4. w = r + k \/ w = r + k - 2 * Depth
  BY <1>1, <1>2, <1>3
<1> HIDE DEF k
<1>5. Slot(w) \in 0 .. Depth - 1
  BY <1>1, WrapCases DEF Pointers
<1>7. Slot(r + (k + 1) - 1) = Slot(w)
  <2>1. r + (k + 1) - 1 = r + k /\ r + k \in 0 .. 3 * Depth - 1
    BY <1>1, <1>2
  <2> QED BY <1>1, <1>2, <1>4, <2>1, WrapCases DEF Pointers
<1>8. ASSUME NEW i \in 1 .. k PROVE Slot(r + i - 1) # Slot(w)
  <2>1. r + i - 1 \in 0 .. 3 * Depth - 1 /\ r + k \in 0 .. 3 * Depth - 1
    BY <1>1, <1>2
  <2>2. Slot(r + k) = Slot(w)
    BY <1>1, <1>2, <1>4, <2>1, WrapCases DEF Pointers
  <2>3. r + i - 1 < r + k /\ r + k < r + i - 1 + Depth
    BY <1>1, <1>2
  <2> QED BY <2>1, <2>2, <2>3, SlotsDistinct
<1>9. put[Slot(w)] = d /\ \A i \in 1 .. k : put[Slot(r + i - 1)] = m[Slot(r + i - 1)]
  <2>1. ASSUME NEW i \in 1 .. k PROVE Slot(r + i - 1) \in 0 .. Depth - 1
    <3>1. r + i - 1 \in 0 .. 3 * Depth - 1
      BY <1>1, <1>2
    <3> QED BY <1>1, <3>1, WrapCases
  <2> QED BY <1>8, <2>1
<1>10. Words(put, r, k) = Words(m, r, k)
  BY <1>9 DEF Words
<1>11. Words(put, r, k + 1) = Words(m, r, k) \o <<d>>
  <2> DEFINE s == Words(put, r, k + 1)
             t == Words(m, r, k)
  <2>1. k \in 0 .. Depth /\ k + 1 \in 0 .. Depth
    BY <1>1
  <2>2. /\ s \in Seq(Data) /\ Len(s) = k + 1
        /\ \A i \in 1 .. k + 1 : s[i] = put[Slot(r + i - 1)]
    BY <2>1, WordsSeq
  <2>3. /\ t \in Seq(Data) /\ Len(t) = k /\ \A i \in 1 .. k : t[i] = m[Slot(r + i - 1)]
    BY <2>1, WordsSeq
  <2> HIDE DEF s, t
  <2>4. ASSUME NEW i \in 1 .. k PROVE s[i] = t[i]
    <3>1. i \in 1 .. k + 1
      BY <1>1
    <3> QED BY <1>9, <2>2, <2>3, <3>1
  <2>5. s[k + 1] = d
    BY <1>1, <1>7, <1>9, <2>2
  <2>6. s = t \o <<d>>
    BY <1>1, <2>2, <2>3, <2>4, <2>5, EndsWith
  <2> QED BY <2>6 DEF s, t
<1> QED BY <1>10, <1>11 DEF k

\* The word at the read pointer is the first.
LEMMA WordsGet ==
  ASSUME NEW m \in [0 .. Depth - 1 -> Data], NEW r \in Pointers, NEW k \in 1 .. Depth
  PROVE  /\ m[Slot(r)] \in Data
         /\ Words(m, r, k) = <<m[Slot(r)]>> \o Words(m, Wrap(r + 1), k - 1)
<1> DEFINE rn == Wrap(r + 1)
           d == m[Slot(r)]
<1>1. Depth \in Nat \ {0} /\ r \in Nat /\ r < 2 * Depth
  BY WrapCases DEF Pointers
<1>2. rn \in Pointers /\ (rn = r + 1 \/ rn = r + 1 - 2 * Depth)
  BY <1>1, WrapCases, LagFacts
<1>3. d \in Data
  <2>1. Slot(r) \in 0 .. Depth - 1
    BY <1>1, WrapCases DEF Pointers
  <2> QED BY <2>1
<1>4. ASSUME NEW i \in 1 .. k - 1 PROVE Slot(rn + i - 1) = Slot(r + (i + 1) - 1)
  <2>1. rn + i - 1 \in 0 .. 3 * Depth - 1 /\ r + (i + 1) - 1 \in 0 .. 3 * Depth - 1
    BY <1>1, <1>2 DEF Pointers
  <2> HIDE DEF rn
  <2>2. CASE rn = r + 1
    <3>1. rn + i - 1 = r + (i + 1) - 1
      BY <1>1, <2>2
    <3> QED BY <3>1
  <2>3. CASE rn = r + 1 - 2 * Depth
    <3>1. r = 2 * Depth - 1 /\ rn = 0
      BY <1>1, <1>2, <2>3 DEF Pointers
    <3> QED BY <1>1, <2>1, <3>1, WrapCases
  <2> QED BY <1>2, <2>2, <2>3
<1> HIDE DEF rn, d
<1>5. k - 1 \in 0 .. Depth /\ k \in 0 .. Depth
  BY <1>1
<1>6. /\ Words(m, r, k) \in Seq(Data) /\ Len(Words(m, r, k)) = k
      /\ \A i \in 1 .. k : Words(m, r, k)[i] = m[Slot(r + i - 1)]
  BY <1>5, WordsSeq
<1>7. /\ Words(m, rn, k - 1) \in Seq(Data) /\ Len(Words(m, rn, k - 1)) = k - 1
      /\ \A i \in 1 .. k - 1 : Words(m, rn, k - 1)[i] = m[Slot(rn + i - 1)]
  BY <1>2, <1>5, WordsSeq
<1>8. <<d>> \in Seq(Data) /\ Len(<<d>>) = 1 /\ <<d>>[1] = d
  BY <1>3
<1>9. /\ <<d>> \o Words(m, rn, k - 1) \in Seq(Data) /\ Len(<<d>> \o Words(m, rn, k - 1)) = k
      /\ \A i \in 1 .. k : (<<d>> \o Words(m, rn, k - 1))[i] =
                             IF i <= 1 THEN <<d>>[i] ELSE Words(m, rn, k - 1)[i - 1]
  <2>1. 1 + (k - 1) = k
    OBVIOUS
  <2> QED BY <1>7, <1>8, <2>1, ConcatProperties
<1>10. ASSUME NEW i \in 1 .. k
       PROVE  Words(m, r, k)[i] = (<<d>> \o Words(m, rn, k - 1))[i]
  <2>1. CASE i = 1
    <3>1. r + i - 1 = r /\ i <= 1
      BY <1>1, <2>1
    <3> QED BY <1>6, <1>8, <1>9, <2>1, <3>1 DEF d
  <2>2. CASE i # 1
    <3>1. i - 1 \in 1 .. k - 1 /\ ~(i <= 1) /\ (i - 1) + 1 = i
      BY <2>2
    <3>2. Words(m, rn, k - 1)[i - 1] = m[Slot(rn + (i - 1) - 1)]
      BY <1>7, <3>1
    <3>3. Slot(rn + (i - 1) - 1) = Slot(r + i - 1)
      BY <1>4, <3>1
    <3> QED BY <1>6, <1>9, <3>1, <3>2, <3>3
  <2> QED BY <2>1, <2>2
<1> QED BY <1>3, <1>6, <1>9, <1>10, SeqEqual DEF rn, d

-----------------------------------------------------------------------------
(* The refinement.                                                         *)

Out == IF o_rd_empty THEN <<>> ELSE <<o_rd_data>>

LEMMA HeldFacts ==
  ASSUME FifoInv
  PROVE  /\ Held = Out \o Words(mem, rd_addr, Lag(rd_addr, wr_addr))
         /\ Out \in Seq(Data) /\ Len(Out) = (IF o_rd_empty THEN 0 ELSE 1)
         /\ Lag(rd_addr, wr_addr) \in 0 .. Depth
         /\ rd_addr \in Pointers /\ wr_addr \in Pointers /\ mem \in [0 .. Depth - 1 -> Data]
         /\ Held \in Seq(Data) /\ Len(Held) = Len(Out) + Lag(rd_addr, wr_addr)
<1>1. Held = Out \o Words(mem, rd_addr, Lag(rd_addr, wr_addr))
  BY DEF Held, Out, Between, Words, Lag
<1>2. /\ rd_addr \in Pointers /\ wr_addr \in Pointers /\ mem \in [0 .. Depth - 1 -> Data]
      /\ o_rd_data \in Data /\ o_rd_empty \in BOOLEAN
  BY DEF FifoInv, TypeOK, Pointers
<1>3. Lag(rd_addr, wr_addr) \in 0 .. Depth
  <2>1. PICK r1, r2 \in Pointers : /\ Lag(rd_addr, wr_addr) <= Lag(r1, wr_addr)
                                   /\ Lag(r1, wr_addr) <= Lag(r2, wr_addr)
                                   /\ Lag(r2, wr_addr) <= Depth
    BY DEF FifoInv, CopiesInv
  <2> QED BY <1>2, <2>1, LagTypes
<1>4. Out \in Seq(Data) /\ Len(Out) = (IF o_rd_empty THEN 0 ELSE 1)
  BY <1>2 DEF Out
<1> HIDE DEF Out
<1>5. /\ Words(mem, rd_addr, Lag(rd_addr, wr_addr)) \in Seq(Data)
      /\ Len(Words(mem, rd_addr, Lag(rd_addr, wr_addr))) = Lag(rd_addr, wr_addr)
  BY <1>2, <1>3, WordsSeq
<1>6. Held \in Seq(Data) /\ Len(Held) = Len(Out) + Lag(rd_addr, wr_addr)
  <2> DEFINE words == Words(mem, rd_addr, Lag(rd_addr, wr_addr))
  <2>1. Out \in Seq(Data) /\ words \in Seq(Data)
    BY <1>4, <1>5
  <2> HIDE DEF words
  <2>2. Out \o words \in Seq(Data) /\ Len(Out \o words) = Len(Out) + Len(words)
    BY <2>1, ConcatProperties
  <2> QED BY <1>1, <1>5, <2>2, Zenon DEF words
<1> QED BY <1>1, <1>2, <1>3, <1>4, <1>6, Zenon

\* What an edge of the write clock, or none, adds at the end.
LEMMA PutStep ==
  ASSUME FifoInv, Writes, NEW r \in Pointers, Lag(r, wr_addr) <= Lag(rd_addr, wr_addr)
  PROVE  \E in \in Inputs :
           /\ Words(mem', r, Lag(r, wr_addr')) = Words(mem, r, Lag(r, wr_addr)) \o in
           /\ in # <<>> => Lag(rd_addr, wr_addr) < Depth
<1> DEFINE k == Lag(r, wr_addr)
<1>1. /\ Depth \in Nat \ {0} /\ rd_addr \in Pointers /\ wr_addr \in Pointers
      /\ mem \in [0 .. Depth - 1 -> Data] /\ k \in 0 .. Depth
  BY HeldFacts, LagTypes
<1>2. Words(mem, r, k) \in Seq(Data) /\ <<>> \in Inputs
  BY <1>1, WordsSeq DEF Inputs
<1>3. Words(mem, r, k) \o <<>> = Words(mem, r, k)
  BY <1>2, ConcatEmptySeq
<1>4. CASE UNCHANGED <<wr_addr, mem>>
  BY <1>2, <1>3, <1>4
<1>5. ASSUME NEW in \in Inputs, WriteEdge(in), ~UNCHANGED <<wr_addr, mem>>
      PROVE  \E kept \in Inputs :
               /\ Words(mem', r, Lag(r, wr_addr')) = Words(mem, r, k) \o kept
               /\ kept # <<>> => Lag(rd_addr, wr_addr) < Depth
  <2>1. /\ ~o_wr_full /\ in # <<>>
        /\ mem' = [mem EXCEPT ![Slot(wr_addr)] = in[1]]
        /\ wr_addr' = wr_addr \/ wr_addr' = Wrap(wr_addr + 1)
    BY <1>5 DEF WriteEdge, Accepted
  <2>2. PICK d \in Data : in = <<d>> /\ in[1] = d
    BY <2>1 DEF Inputs
  <2>3. Lag(rd_addr, wr_addr) < Depth
    <3>1. PICK r1, r2 \in Pointers : /\ wr_rgray = Gray(r2)
                                     /\ Lag(rd_addr, wr_addr) <= Lag(r1, wr_addr)
                                     /\ Lag(r1, wr_addr) <= Lag(r2, wr_addr)
                                     /\ Lag(r2, wr_addr) <= Depth
      BY DEF FifoInv, CopiesInv
    <3>2. wgray = Gray(wr_addr)
      BY DEF FifoInv, CopiesInv
    <3>3. Lag(r2, wr_addr) # Depth
      BY <1>1, <2>1, <3>1, <3>2, FullMeans
    <3>4. /\ Depth \in Int /\ Lag(rd_addr, wr_addr) \in Int
          /\ Lag(r1, wr_addr) \in Int /\ Lag(r2, wr_addr) \in Int
      BY <1>1, <3>1, LagTypes
    <3> QED BY <3>1, <3>3, <3>4
  <2>4. k < Depth
    BY <1>1, <2>3, LagTypes
  <2>5. /\ Words(mem', r, k) = Words(mem, r, k)
        /\ Words(mem', r, k + 1) = Words(mem, r, k) \o <<d>>
    <3>1. mem' = [mem EXCEPT ![Slot(wr_addr)] = d]
      BY <2>1, <2>2
    <3>2. k < Depth /\ d \in Data /\ r \in Pointers /\ wr_addr \in Pointers
      BY <1>1, <2>2, <2>4
    <3>3. Slot(wr_addr) \in 0 .. Depth - 1
      BY <1>1, WrapCases DEF Pointers
    <3>4. /\ mem' \in [0 .. Depth - 1 -> Data] /\ mem'[Slot(wr_addr)] = d
          /\ \A x \in 0 .. Depth - 1 : x # Slot(wr_addr) => mem'[x] = mem[x]
      BY <1>1, <3>1, <3>2, <3>3
    <3> QED BY <1>1, <3>2, <3>4, WordsPut
  <2>6. CASE wr_addr' = wr_addr
    BY <1>2, <1>3, <2>5, <2>6
  <2>7. CASE wr_addr' = Wrap(wr_addr + 1)
    <3>1. Lag(r, wr_addr') = k + 1
      BY <1>1, <2>4, <2>7, LagFacts
    <3> QED BY <2>2, <2>3, <2>5, <3>1
  <2> QED BY <2>1, <2>6, <2>7
<1> QED BY <1>4, <1>5 DEF Writes

\* What an edge of the read clock, or none, takes at the front.
LEMMA GetStep ==
  ASSUME FifoInv, Reads, UNCHANGED rd_reset_n
  PROVE  \E n \in 0 .. 1 :
           /\ n <= Len(Held) /\ taken' = IF n = 0 THEN taken ELSE Held[n]
           /\ Out' \o Words(mem, rd_addr', Lag(rd_addr', wr_addr)) = SubSeq(Held, n + 1, Len(Held))
<1> DEFINE k == Lag(rd_addr, wr_addr)
           rest == Words(mem, rd_addr, k)
<1>1. /\ Depth \in Nat \ {0} /\ rd_addr \in Pointers /\ wr_addr \in Pointers
      /\ mem \in [0 .. Depth - 1 -> Data] /\ k \in 0 .. Depth
      /\ Held = Out \o rest /\ Out \in Seq(Data) /\ Held \in Seq(Data)
      /\ Len(Held) = Len(Out) + k /\ Len(Out) = IF o_rd_empty THEN 0 ELSE 1
  BY HeldFacts, WrapCases
<1>2. /\ o_rd_empty \in BOOLEAN /\ o_rd_data \in Data /\ rd_reset_n \in BOOLEAN
      /\ ~rd_reset_n => o_rd_empty
  BY DEF FifoInv, TypeOK
<1>3. rest \in Seq(Data) /\ Len(rest) = k
  BY <1>1, WordsSeq
<1>4. SubSeq(Held, 1, Len(Held)) = Held
  BY <1>1, SubSeqFull
\* Once the word in the output register is taken, the rest is left.
<1>5. ~o_rd_empty => Held[1] = o_rd_data /\ 1 <= Len(Held) /\ SubSeq(Held, 2, Len(Held)) = rest
  <2> SUFFICES ASSUME ~o_rd_empty
               PROVE  Held[1] = o_rd_data /\ 1 <= Len(Held) /\ SubSeq(Held, 2, Len(Held)) = rest
    OBVIOUS
  <2>1. Out = <<o_rd_data>> /\ Len(Out) = 1 /\ Out[1] = o_rd_data
    BY DEF Out
  <2> HIDE DEF rest, k
  <2>2. /\ Held[1] = Out[1] /\ Len(Held) = k + 1
    BY <1>1, <1>3, <2>1, ConcatProperties
  <2>3. \A i \in 1 .. k : Held[i + 1] = rest[i]
    <3> TAKE i \in 1 .. k
    <3>1. i + 1 \in 1 .. Len(Out) + Len(rest) /\ ~(i + 1 <= Len(Out)) /\ (i + 1) - Len(Out) = i
      BY <1>1, <1>3, <2>1
    <3> QED BY <1>1, <1>3, <3>1, ConcatProperties
  <2>4. /\ SubSeq(Held, 2, k + 1) \in Seq(Data) /\ Len(SubSeq(Held, 2, k + 1)) = k
        /\ \A i \in 1 .. k : SubSeq(Held, 2, k + 1)[i] = Held[i + 1]
    <3>1. \A i \in 2 .. k + 1 : Held[i] \in Data
      BY <1>1, <2>2, ElementOfSeq
    <3>2. 2 \in Int /\ k + 1 \in Int /\ (k + 1) - 2 + 1 = k /\ (2 <= k + 1 \/ k = 0)
      BY <1>1
    <3>3. /\ SubSeq(Held, 2, k + 1) \in Seq(Data)
          /\ Len(SubSeq(Held, 2, k + 1)) = IF 2 <= k + 1 THEN (k + 1) - 2 + 1 ELSE 0
          /\ \A i \in 1 .. (k + 1) - 2 + 1 : SubSeq(Held, 2, k + 1)[i] = Held[2 + i - 1]
      BY <3>1, <3>2, SubSeqProperties
    <3>4. \A i \in 1 .. k : 2 + i - 1 = i + 1
      BY <1>1
    <3> QED BY <3>2, <3>3, <3>4
  <2>5. SubSeq(Held, 2, k + 1) = rest
    BY <1>3, <2>3, <2>4, SeqEqual
  <2> QED BY <1>1, <2>1, <2>2, <2>5
<1>6. Held = IF o_rd_empty THEN rest ELSE <<o_rd_data>> \o rest
  BY <1>1, <1>3, ConcatEmptySeq DEF Out
\* The output register refills, or not.
<1>7. ASSUME NEW i_rd \in BOOLEAN, ReadEdge(i_rd), rd_reset_n, lcl_read(i_rd)
      PROVE  Out' \o Words(mem, rd_addr', Lag(rd_addr', wr_addr)) = rest
  <2>1. CASE lcl_rd_empty
    <3>1. rd_addr' = rd_addr /\ Out' = <<>>
      BY <1>7, <2>1 DEF ReadEdge, Out
    <3> QED BY <1>3, <3>1, ConcatEmptySeq
  <2>2. CASE ~lcl_rd_empty
    <3>1. /\ rd_addr' = Wrap(rd_addr + 1) /\ Out' = <<mem[Slot(rd_addr)]>>
      BY <1>7, <2>2 DEF ReadEdge, Out
    <3>2. k # 0
      <4>1. PICK w1, w2 \in Pointers : /\ rd_wgray = Gray(w2)
                                       /\ Lag(rd_addr, w2) <= Lag(rd_addr, w1)
                                       /\ Lag(rd_addr, w1) <= k
        BY DEF FifoInv, CopiesInv
      <4>2. w2 # rd_addr
        BY <2>2, <4>1 DEF FifoInv, CopiesInv, lcl_rd_empty
      <4>3. Lag(rd_addr, w2) # 0
        BY <1>1, <4>2, LagFacts
      <4>4. Lag(rd_addr, w1) \in Nat /\ Lag(rd_addr, w2) \in Nat /\ k \in Nat
        BY <1>1, LagTypes
      <4> QED BY <4>1, <4>3, <4>4
    <3>3. rd_addr # wr_addr
      BY <1>1, <3>2, LagFacts
    <3>4. Lag(rd_addr', wr_addr) = k - 1
      BY <1>1, <3>1, <3>3, LagFacts
    <3>5. rest = <<mem[Slot(rd_addr)]>> \o Words(mem, Wrap(rd_addr + 1), k - 1)
      <4>1. k \in 1 .. Depth
        BY <1>1, <3>2
      <4> QED BY <1>1, <4>1, WordsGet
    <3> QED BY <3>1, <3>4, <3>5
  <2> QED BY <2>1, <2>2
<1>8. CASE UNCHANGED <<rd_addr, rgray, o_rd_empty, o_rd_data, taken>>
  <2>1. Out' = Out
    BY <1>8 DEF Out
  <2> QED BY <1>1, <1>4, <1>8, <2>1
<1>9. ASSUME NEW i_rd \in BOOLEAN, ReadEdge(i_rd)
      PROVE  \E n \in 0 .. 1 :
               /\ n <= Len(Held) /\ taken' = IF n = 0 THEN taken ELSE Held[n]
               /\ Out' \o Words(mem, rd_addr', Lag(rd_addr', wr_addr)) =
                    SubSeq(Held, n + 1, Len(Held))
  <2>1. CASE o_rd_empty
    <3>1. taken' = taken /\ lcl_read(i_rd) /\ Held = rest
      BY <1>6, <1>9, <2>1 DEF ReadEdge, lcl_read
    <3>2. Out' \o Words(mem, rd_addr', Lag(rd_addr', wr_addr)) = Held
      <4>1. CASE rd_reset_n
        BY <1>7, <1>9, <3>1, <4>1
      <4>2. CASE ~rd_reset_n
        <5>1. rd_addr' = rd_addr /\ Out' = <<>>
          BY <1>9, <2>1, <4>2 DEF ReadEdge, Out
        <5> QED BY <1>3, <3>1, <5>1, ConcatEmptySeq
      <4> QED BY <4>1, <4>2
    <3> QED BY <1>1, <1>4, <3>1, <3>2
  <2>2. CASE ~o_rd_empty /\ i_rd
    <3>1. taken' = Held[1] /\ lcl_read(i_rd) /\ rd_reset_n
      BY <1>2, <1>5, <1>9, <2>2 DEF ReadEdge, lcl_read
    <3>2. Out' \o Words(mem, rd_addr', Lag(rd_addr', wr_addr)) = SubSeq(Held, 2, Len(Held))
      BY <1>5, <1>7, <1>9, <2>2, <3>1
    <3> QED BY <1>5, <2>2, <3>1, <3>2
  <2>3. CASE ~o_rd_empty /\ ~i_rd
    <3>1. rd_addr' = rd_addr /\ Out' = Out /\ taken' = taken
      BY <1>9, <2>3 DEF ReadEdge, lcl_read, Out
    <3> QED BY <1>1, <1>4, <3>1
  <2> QED BY <2>1, <2>2, <2>3
<1> QED BY <1>8, <1>9 DEF Reads

\* Reading never lets the writer get further ahead.
LEMMA ReadBehind ==
  ASSUME FifoInv, Reads, UNCHANGED rd_reset_n
  PROVE  rd_addr' \in Pointers /\ Lag(rd_addr', wr_addr) <= Lag(rd_addr, wr_addr)
<1>1. rd_addr \in Pointers /\ wr_addr \in Pointers /\ rgray = Gray(rd_addr)
  BY HeldFacts DEF FifoInv, CopiesInv
<1>2. /\ rd_addr' = rd_addr \/ (rd_addr' = Wrap(rd_addr + 1) /\ ~lcl_rd_empty)
      /\ rd_addr' \in Pointers
  BY ReaderMoves
<1>3. PICK w1, w2 \in Pointers : /\ rd_wgray = Gray(w2)
                                 /\ Lag(rd_addr, w2) <= Lag(rd_addr, w1)
                                 /\ Lag(rd_addr, w1) <= Lag(rd_addr, wr_addr)
  BY DEF FifoInv, CopiesInv
<1>4. Lag(rd_addr, w2) <= Lag(rd_addr, wr_addr)
  BY <1>1, <1>3, LagTypes
<1>5. rd_addr' = rd_addr \/ (rd_addr' = Wrap(rd_addr + 1) /\ w2 # rd_addr)
  BY <1>1, <1>2, <1>3 DEF lcl_rd_empty
<1>6. Lag(rd_addr', wr_addr) = Lag(rd_addr, wr_addr) - (IF rd_addr' = rd_addr THEN 0 ELSE 1)
  BY <1>1, <1>3, <1>4, <1>5, ReaderLag
<1> QED BY <1>1, <1>2, <1>6, LagTypes

\* Every step is a step of the bounded FIFO or leaves what it holds alone.
LEMMA FifoStep == FifoInv /\ FifoInv' /\ [Next]_vars => [Fifo!Next]_<<Held, taken>>
<1> SUFFICES ASSUME FifoInv, FifoInv', [Next]_vars PROVE [Fifo!Next]_<<Held, taken>>
  OBVIOUS
<1>1. CASE Reset
  <2>1. /\ rd_addr' \in Pointers /\ rd_addr' = wr_addr' /\ o_rd_empty' /\ taken' = "none"
        /\ mem' \in [0 .. Depth - 1 -> Data]
    BY <1>1, ZeroPointer DEF Reset, FifoInv, TypeOK
  <2>2. Lag(rd_addr', wr_addr') = 0
    BY <2>1, LagFacts
  <2>3. Words(mem', rd_addr', 0) = <<>>
    BY DEF Words
  <2>4. Held' = Out' \o Words(mem', rd_addr', Lag(rd_addr', wr_addr'))
    BY DEF Held, Out, Between, Words, Lag
  <2>5. Out' = <<>>
    BY <2>1 DEF Out
  <2>6. Held' = <<>>
    BY <2>2, <2>3, <2>4, <2>5, EmptySeq, ConcatEmptySeq
  <2> QED BY <2>1, <2>6 DEF Fifo!Next, Fifo!Clear
<1>2. CASE ReleaseRead
  BY <1>2 DEF ReleaseRead, writeVars, Held, Between
<1>3. CASE Writes /\ Reads /\ UNCHANGED rd_reset_n
  <2>1. PICK n \in 0 .. 1 :
          /\ n <= Len(Held) /\ taken' = IF n = 0 THEN taken ELSE Held[n]
          /\ Out' \o Words(mem, rd_addr', Lag(rd_addr', wr_addr)) = SubSeq(Held, n + 1, Len(Held))
    BY <1>3, GetStep
  <2>2. PICK in \in Inputs :
          /\ Words(mem', rd_addr', Lag(rd_addr', wr_addr')) =
               Words(mem, rd_addr', Lag(rd_addr', wr_addr)) \o in
          /\ in # <<>> => Lag(rd_addr, wr_addr) < Depth
    <3>1. rd_addr' \in Pointers /\ Lag(rd_addr', wr_addr) <= Lag(rd_addr, wr_addr)
      BY <1>3, ReadBehind
    <3> QED BY <1>3, <3>1, PutStep
  <2>3. Held' = SubSeq(Held, n + 1, Len(Held)) \o in
    <3> DEFINE rest == Words(mem, rd_addr', Lag(rd_addr', wr_addr))
    <3>1. Held' = Out' \o Words(mem', rd_addr', Lag(rd_addr', wr_addr'))
      BY DEF Held, Out, Between, Words, Lag
    <3>2. Out' \in Seq(Data)
      <4>1. o_rd_data' \in Data
        BY DEF FifoInv, TypeOK
      <4> QED BY <4>1 DEF Out
    <3>3. rest \in Seq(Data)
      <4>1. /\ rd_addr' \in Pointers /\ Lag(rd_addr', wr_addr) <= Lag(rd_addr, wr_addr)
            /\ Lag(rd_addr, wr_addr) \in 0 .. Depth /\ mem \in [0 .. Depth - 1 -> Data]
            /\ wr_addr \in Pointers
        BY <1>3, ReadBehind, HeldFacts
      <4>2. Lag(rd_addr', wr_addr) \in 0 .. Depth
        BY <4>1, LagTypes
      <4> QED BY <4>1, <4>2, WordsSeq
    <3>4. in \in Seq(Data)
      <4>1. CASE in = <<>>
        BY <4>1, EmptySeq
      <4>2. CASE \E d \in Data : in = <<d>>
        BY <4>2
      <4> QED BY <4>1, <4>2, <2>2 DEF Inputs
    <3> HIDE DEF rest, Out
    <3>5. Out' \o (rest \o in) = (Out' \o rest) \o in
      BY <3>2, <3>3, <3>4, ConcatAssociative
    <3>6. Held' = Out' \o (rest \o in) /\ Out' \o rest = SubSeq(Held, n + 1, Len(Held))
      BY <2>1, <2>2, <3>1 DEF rest
    <3> QED BY <3>5, <3>6
  <2>4. Len(Held) + Len(in) <= Depth + 1
    <3>1. /\ Depth \in Nat /\ Lag(rd_addr, wr_addr) \in 0 .. Depth
          /\ Len(Out) = (IF o_rd_empty THEN 0 ELSE 1)
          /\ Len(Held) = Len(Out) + Lag(rd_addr, wr_addr)
      BY HeldFacts, WrapCases
    <3>2. (in = <<>> /\ Len(in) = 0) \/ (in # <<>> /\ Len(in) = 1)
      BY DEF Inputs
    <3>3. Len(Out) \in 0 .. 1
      BY <3>1
    <3> HIDE DEF Out
    <3> QED BY <2>2, <3>1, <3>2, <3>3
  <2>5. in \in {<<>>} \cup {<<d>> : d \in Data}
    BY DEF Inputs
  <2>6. Fifo!Move(in, n)
    BY <2>1, <2>3, <2>4 DEF Fifo!Move
  <2> QED BY <2>5, <2>6 DEF Fifo!Next
<1> QED BY <1>1, <1>2, <1>3, StepMoves

\* The FIFO is a FIFO of Depth + 1 words: between resets what its two sides see
\* is the words put in, once, in order and unchanged, for every depth, all data
\* and any two clocks.
THEOREM FifoImplements == Spec => FifoSpec
<1>1. Init => Fifo!Init
  <2> SUFFICES ASSUME Init PROVE Fifo!Init
    OBVIOUS
  <2>1. rd_addr = 0 /\ wr_addr = 0 /\ o_rd_empty /\ taken = "none"
    BY DEF Init
  <2>2. Held = Out \o Words(mem, 0, Lag(0, 0))
    BY <2>1 DEF Held, Out, Between, Words, Lag
  <2>3. Words(mem, 0, 0) = <<>> /\ Out = <<>> /\ Lag(0, 0) = 0
    BY <2>1, ZeroPointer DEF Words, Out
  <2>4. Held = <<>>
    BY <2>2, <2>3, EmptySeq, ConcatEmptySeq
  <2> QED BY <2>1, <2>4 DEF Fifo!Init
<1> QED BY <1>1, FifoInvAlways, FifoStep, PTL DEF Spec, FifoSpec, Fifo!Spec

=============================================================================
