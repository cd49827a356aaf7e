----------------------------- MODULE FrameProofs ------------------------------
(***************************************************************************)
(* The frames of both sides, for all sizes, lags, departures and           *)
(* time-outs: what the device accepts of the host is word for word what    *)
(* the framer took, and neither side sends a word of a frame that the      *)
(* other does not listen to.                                               *)
(*                                                                         *)
(* FrameInv follows a frame on its whole way.  FramerQueue: what has been  *)
(* taken of it and what is left in front of the queue are the words of one *)
(* packet, and its last word carries their CRC.  SentInv and SentCrc: the  *)
(* words between the link and the device are of this frame, in order, and  *)
(* any CRC among them is of what has been taken.  Answers: what comes back *)
(* is the device's answer to this frame and to no other.  SilentInv:       *)
(* between frames nothing of one is left on its way.                       *)
(*                                                                         *)
(* HeardInv follows a frame of the device the other way, from its X_RDY to *)
(* the host's verdict.  CalledInv: an R_RDY on its way to the device       *)
(* answers this call.  ComesInv: in front of the frame's SOF is nothing    *)
(* that makes the host turn away.  StaleInv and NoCall: an R_RDY of a call *)
(* that a frame of the host has overtaken reaches the device before it     *)
(* can be taken for the answer to another.                                 *)
(*                                                                         *)
(* The hypothesis is Undisturbed: words to the host arrive as they were    *)
(* sent, and no idle line is reported on a live link.  Words to the device *)
(* may be damaged, pipelines run dry, receivers fill and clocks slip.      *)
(***************************************************************************)
EXTENDS LinkBenchProofs

Undisturbed == faults \cap {"idle", "d2h"} = {}

-----------------------------------------------------------------------------
(* The words on the way to the device: the link's register, the inserter's  *)
(* skid buffer, the primitive it repeats, its output, and what the device   *)
(* has on its wire.                                                         *)

Kind(w) == IF w = Prim("SYNC") THEN "sync"
           ELSE IF w = Prim("R_RDY") THEN "rdy"
           ELSE IF w \in {Prim("R_OK"), Prim("R_ERR")} THEN "ans"
           ELSE IF w = Prim("SOF") THEN "sof"
           ELSE IF w \in {Prim("EOF"), Prim("WTRM")} THEN "end"
           ELSE IF ~w.prim /\ w.val[1] = "CRC" THEN "crc" ELSE "other"

Pipe == {m_phy_data, last_primitive, al_out, m_txphy}
          \cup (IF skid.valid THEN {skid.word} ELSE {})

Has(kinds) == \E w \in Pipe : Kind(w) \in kinds

\* A word of a kind in A has no word of a kind in B behind it.
Order(A, B) ==
  LET held == skid.valid => Kind(skid.word) \notin B
      new  == Kind(m_phy_data) \notin B
      last == Kind(last_primitive) \notin B
  IN  /\ skid.valid /\ Kind(skid.word) \in A => new /\ m_phy_data.prim
      /\ Kind(last_primitive) \in A => new /\ held
      /\ Kind(al_out) \in A => new /\ held /\ last
      /\ Kind(m_txphy) \in A => new /\ held /\ last /\ Kind(al_out) \notin B

LEMMA Kinds ==
  /\ Kind(Prim("SYNC")) = "sync" /\ Kind(Prim("SOF")) = "sof"
  /\ Kind(Prim("EOF")) = "end" /\ Kind(Prim("WTRM")) = "end"
  /\ Kind(Prim("R_RDY")) = "rdy" /\ Kind(Prim("R_OK")) = "ans" /\ Kind(Prim("R_ERR")) = "ans"
  /\ \A p \in {"ALIGN", "CONT", "X_RDY", "R_IP", "HOLD", "HOLDA", "PMNAK"} :
        Prim(p).prim /\ Kind(Prim(p)) = "other"
  /\ Kind(Damaged) = "other" /\ Kind(Scramble(<<"D10.2">>, 0)) = "other"
  /\ \A w : /\ Kind(w) \in {"sync", "rdy", "ans", "sof", "end"} => w.prim
            /\ Kind(w) = "sync" => w = Prim("SYNC")
            /\ Kind(w) = "rdy" => w = Prim("R_RDY")
            /\ Kind(w) = "ans" => w \in {Prim("R_OK"), Prim("R_ERR")}
            /\ Kind(w) = "sof" => w = Prim("SOF")
            /\ Kind(w) = "end" => w \in {Prim("EOF"), Prim("WTRM")}
            /\ Kind(w) = "crc" <=> ~w.prim /\ w.val[1] = "CRC"
<1>1. \A p : Prim(p).prim /\ Prim(p).val = <<p>>
  BY DEF Prim
<1>2. \A p, q : Prim(p) = Prim(q) => p = q
  BY <1>1
<1>3. /\ Kind(Prim("SYNC")) = "sync" /\ Kind(Prim("SOF")) = "sof"
      /\ Kind(Prim("R_RDY")) = "rdy" /\ Kind(Prim("R_OK")) = "ans" /\ Kind(Prim("R_ERR")) = "ans"
      /\ Kind(Prim("EOF")) = "end" /\ Kind(Prim("WTRM")) = "end"
  BY <1>2 DEF Kind
<1>4. ASSUME NEW p \in {"ALIGN", "CONT", "X_RDY", "R_IP", "HOLD", "HOLDA", "PMNAK"}
      PROVE  Prim(p).prim /\ Kind(Prim(p)) = "other"
  BY <1>1, <1>2 DEF Kind
<1>5. /\ ~Damaged.prim /\ Damaged.val[1] = "NOISE"
      /\ ~Scramble(<<"D10.2">>, 0).prim /\ Scramble(<<"D10.2">>, 0).val[1] = "D10.2"
  BY DEF Damaged, Scramble, Noise
<1>6. Kind(Damaged) = "other" /\ Kind(Scramble(<<"D10.2">>, 0)) = "other"
  BY <1>1, <1>5 DEF Kind
<1>7. \A w : /\ Kind(w) \in {"sync", "rdy", "ans", "sof", "end"} => w.prim
             /\ Kind(w) = "sync" => w = Prim("SYNC")
             /\ Kind(w) = "rdy" => w = Prim("R_RDY")
             /\ Kind(w) = "ans" => w \in {Prim("R_OK"), Prim("R_ERR")}
             /\ Kind(w) = "sof" => w = Prim("SOF")
             /\ Kind(w) = "end" => w \in {Prim("EOF"), Prim("WTRM")}
             /\ Kind(w) = "crc" <=> ~w.prim /\ w.val[1] = "CRC"
  BY <1>1 DEF Kind
<1> QED BY <1>3, <1>4, <1>6, <1>7

\* The inserter takes the link's word, passing what the skid buffer holds,
\* or keeps it there.
AlignMoves ==
  \/ /\ skid' = NoWord
     /\ last_primitive' = IF m_phy_data.prim THEN m_phy_data ELSE last_primitive
     /\ al_out' \in {Prim("CONT"), SkidData(m_phy_data)}
  \/ /\ skid' = IF skid.valid THEN skid ELSE Got(m_phy_data)
     /\ last_primitive' = last_primitive
     /\ al_out' \in {Prim("ALIGN"), al_out, last_primitive}

PipeStep == AlignMoves /\ (m_txphy' = al_out \/ Kind(m_txphy') = "other")

LEMMA AlignStepMoves ==
  ASSUME AlignTypeOK, AlignStep(m_phy_data)
  PROVE  AlignMoves
<1> DEFINE next == AlignNext(m_phy_data)
<1>1. \/ next.ready /\ next.word \in {Prim("CONT"), SkidData(m_phy_data)}
      \/ ~next.ready /\ next.word \in {Prim("ALIGN"), al_out, last_primitive}
  BY DEF AlignNext, AlignTypeOK, AlignStates, AfterAlign, Pass, Out
<1>2. /\ al_out' = next.word
      /\ skid' = IF next.ready THEN NoWord ELSE IF skid.valid THEN skid ELSE Got(m_phy_data)
      /\ last_primitive' = IF next.ready /\ m_phy_data.prim THEN m_phy_data ELSE last_primitive
  BY DEF AlignStep
<1> HIDE DEF next
<1> QED BY <1>1, <1>2 DEF AlignMoves

LEMMA PipeContent ==
  ASSUME PipeStep
  PROVE  \A w \in Pipe' : w \in Pipe \/ w = m_phy_data' \/ Kind(w) = "other"
<1>1. Kind(Prim("CONT")) = "other" /\ Kind(Prim("ALIGN")) = "other"
  BY Kinds
<1>2. ~NoWord.valid /\ \A w : Got(w).word = w
  BY DEF NoWord, Got
<1> QED BY <1>1, <1>2 DEF PipeStep, AlignMoves, Pipe, SkidData

LEMMA PipeOrder ==
  ASSUME NEW A \in SUBSET {"sync", "rdy", "ans", "end"}, NEW B, A \cap B = {}, "other" \notin B,
         Order(A, B), PipeStep,
         Has(A) => Kind(m_phy_data') \notin B /\ m_phy_data'.prim
  PROVE  Order(A, B)'
<1>1. Kind(Prim("CONT")) = "other" /\ Kind(Prim("ALIGN")) = "other" /\ "other" \notin A
  BY Kinds
<1>2. ~NoWord.valid /\ \A w : Got(w).word = w
  BY DEF NoWord, Got
<1>3. \A w : Kind(w) \in A => w.prim /\ Kind(w) \notin B
  BY Kinds
<1>4. CASE /\ skid' = NoWord
           /\ last_primitive' = IF m_phy_data.prim THEN m_phy_data ELSE last_primitive
           /\ al_out' \in {Prim("CONT"), SkidData(m_phy_data)}
  BY <1>1, <1>2, <1>3, <1>4 DEF Order, Has, Pipe, PipeStep, SkidData
<1>5. CASE /\ skid' = IF skid.valid THEN skid ELSE Got(m_phy_data)
           /\ last_primitive' = last_primitive
           /\ al_out' \in {Prim("ALIGN"), al_out, last_primitive}
  BY <1>1, <1>2, <1>3, <1>5 DEF Order, Has, Pipe, PipeStep
<1> QED BY <1>4, <1>5 DEF PipeStep, AlignMoves

-----------------------------------------------------------------------------
(* The packets in the queue.  Wherever the framer stands, what it has taken *)
(* of a frame (sent) and what is left of it in front of the queue are the   *)
(* words of one packet, and the frame's last word carries their CRC.        *)

\* The values a packet is made of: those of a register FIS and of the data.
Tests == {"DMA", "PIO"}
Plain == {<<"REG", x>> : x \in Ops \cup {"LBA", "FEATURES", "COUNT"}}
           \cup {<<"DATA">>} \cup {<<t, i>> : t \in Tests, i \in 1 .. SectorWords}

\* The i-th word of queue q is the CRC of the n words before it: those that
\* are still there, and (mid, within a frame) s for those already taken.
FrameEnds(q, s, mid, i) ==
  LET v == q[i].word.val[2]
      n == Len(v)
  IN  /\ v \in Seq(Plain) /\ n >= 1 /\ q[i].word.val = CrcValue(v)
      /\ \A k \in 1 .. i - 1 : k + n >= i => ~q[k].last /\ q[k].word.val = v[k + n + 1 - i]
      /\ i > n + 1 => q[i - n - 1].last
      /\ IF mid THEN i <= n + 1 => Len(s) = n + 1 - i /\ \A k \in 1 .. n + 1 - i : s[k] = v[k]
                ELSE i >= n + 1

QueueOK(q, s, mid) ==
  /\ \E S : q \in Seq(S)
  /\ \A i \in 1 .. Len(q) : ~q[i].word.prim /\ (~q[i].last => q[i].word.val \in Plain)
  /\ q # << >> => q[Len(q)].last
  /\ \A i \in 1 .. Len(q) : q[i].last => FrameEnds(q, s, mid, i)
  /\ mid => s \in Seq(Plain)

LEMMA PlainNotCrc ==
  \A v \in Plain : v[1] # "CRC"
BY DEF Plain, Ops, Tests

LEMMA PacketShape ==
  ASSUME NEW vals \in Seq(Plain)
  PROVE  LET p == Packet(vals)
             n == Len(vals)
         IN  /\ \E S : p \in Seq(S)
             /\ Len(p) = n + 1
             /\ \A k \in 1 .. n : ~p[k].word.prim /\ p[k].word.val = vals[k] /\ ~p[k].last
             /\ ~p[n + 1].word.prim /\ p[n + 1].word.val = CrcValue(vals) /\ p[n + 1].last
<1> DEFINE all == Append(vals, CrcValue(vals))
           f == Framed(vals)
           n == Len(vals)
           p == Packet(vals)
<1>1. /\ n \in Nat /\ Len(all) = n + 1 /\ all[n + 1] = CrcValue(vals)
      /\ \A k \in 1 .. n : all[k] = vals[k]
  <2>1. vals \in Seq(Plain \cup {CrcValue(vals)})
    OBVIOUS
  <2> HIDE DEF all
  <2>2. all = Append(vals, CrcValue(vals))
    BY DEF all
  <2> QED BY <2>1, <2>2, AppendProperties
<1>2. f = [i \in 1 .. n + 1 |-> Scramble(all[i], i - 1)]
  BY <1>1, Zenon DEF Framed
<1> HIDE DEF all, f
<1>3. DOMAIN f = 1 .. n + 1 /\ Len(f) = n + 1
  BY <1>1, <1>2
<1>4. p = [i \in 1 .. n + 1 |-> [word |-> f[i], last |-> i = Len(f)]]
  BY <1>3, Zenon DEF Packet, f
<1> HIDE DEF p
<1>5. \A k \in 1 .. n + 1 : p[k].word = f[k] /\ (p[k].last <=> k = n + 1)
  BY <1>3, <1>4
<1>6. ASSUME NEW k \in 1 .. n + 1 PROVE ~p[k].word.prim /\ p[k].word.val = all[k]
  <2>1. f[k] = Scramble(all[k], k - 1)
    BY <1>2
  <2> QED BY <1>5, <2>1 DEF Scramble
<1>7. p \in Seq({p[k] : k \in 1 .. n + 1}) /\ Len(p) = n + 1
  BY <1>1, <1>4
<1>8. /\ \A k \in 1 .. n : k \in 1 .. n + 1 /\ k # n + 1
      /\ n + 1 \in 1 .. n + 1
  BY <1>1
<1>9. \A k \in 1 .. n : ~p[k].word.prim /\ p[k].word.val = vals[k] /\ ~p[k].last
  BY <1>1, <1>5, <1>6, <1>8
<1>10. ~p[n + 1].word.prim /\ p[n + 1].word.val = CrcValue(vals) /\ p[n + 1].last
  BY <1>1, <1>5, <1>6, <1>8
<1> QED BY <1>7, <1>9, <1>10, Zenon DEF p

LEMMA QueueGrows ==
  ASSUME NEW q, NEW s, NEW mid, QueueOK(q, s, mid), mid => q # << >>,
         NEW vals \in Seq(Plain), vals # << >>
  PROVE  QueueOK(q \o Packet(vals), s, mid) /\ q \o Packet(vals) # << >>
<1> DEFINE p == Packet(vals)
           n == Len(vals)
           L == Len(q)
           r == q \o Packet(vals)
<1>1. /\ Len(p) = n + 1 /\ n \in Nat /\ n >= 1
      /\ \A k \in 1 .. n : ~p[k].word.prim /\ p[k].word.val = vals[k] /\ ~p[k].last
      /\ ~p[n + 1].word.prim /\ p[n + 1].word.val = CrcValue(vals) /\ p[n + 1].last
      /\ \E S : p \in Seq(S)
  <2>1. n \in Nat /\ n >= 1
    OBVIOUS
  <2> QED BY <2>1, PacketShape
<1>2. PICK S : q \in Seq(S)
  BY DEF QueueOK
<1>3. PICK T : p \in Seq(T)
  BY <1>1
<1> HIDE DEF p, n
<1>4. q \in Seq(S \cup T) /\ p \in Seq(S \cup T)
  BY <1>2, <1>3
<1>5. /\ r \in Seq(S \cup T) /\ Len(r) = L + n + 1 /\ L \in Nat
      /\ \A i \in 1 .. L : r[i] = q[i]
      /\ \A k \in 1 .. n + 1 : r[L + k] = p[k]
  <2>1. r = q \o p
    BY DEF p
  <2>2. /\ r \in Seq(S \cup T) /\ Len(r) = Len(q) + Len(p)
        /\ \A i \in 1 .. Len(r) : r[i] = IF i <= Len(q) THEN q[i] ELSE p[i - Len(q)]
    <3> HIDE DEF r
    <3> QED BY <1>4, <2>1, ConcatProperties
  <2>3. L \in Nat
    BY <1>2
  <2> HIDE DEF r, L
  <2>4. Len(q) = L
    BY DEF L
  <2>5. Len(r) = L + n + 1
    BY <1>1, <2>2, <2>3, <2>4
  <2>6. \A i \in 1 .. L : r[i] = q[i]
    BY <1>1, <2>2, <2>3, <2>4, <2>5
  <2>7. ASSUME NEW k \in 1 .. n + 1 PROVE r[L + k] = p[k]
    <3>1. L + k \in 1 .. Len(r) /\ ~(L + k <= L) /\ (L + k) - L = k
      BY <1>1, <2>3, <2>5
    <3> QED BY <2>2, <2>4, <3>1
  <2> QED BY <2>2, <2>3, <2>5, <2>6, <2>7
<1>6. L # 0 <=> q # << >>
  BY <1>2
<1> HIDE DEF r, L
<1>7. Len(q) = L
  BY DEF L
<1>8. \A i \in 1 .. L + n + 1 : i \in 1 .. L \/ \E k \in 1 .. n + 1 : i = L + k
  <2>1. \A l, m \in Nat : \A i \in 1 .. l + m : i \in 1 .. l \/ (i - l \in 1 .. m /\ i = l + (i - l))
    OBVIOUS
  <2>2. \A i \in 1 .. L + (n + 1) : i \in 1 .. L \/ (i - L \in 1 .. n + 1 /\ i = L + (i - L))
    BY <1>1, <1>5, <2>1
  <2>3. L + (n + 1) = L + n + 1
    BY <1>1, <1>5
  <2> QED BY <2>2, <2>3
<1>9. \A i \in 1 .. L + n + 1 : ~r[i].word.prim /\ (~r[i].last => r[i].word.val \in Plain)
  <2>1. ASSUME NEW i \in 1 .. L PROVE ~r[i].word.prim /\ (~r[i].last => r[i].word.val \in Plain)
    BY <1>5, <1>7 DEF QueueOK
  <2>2. ASSUME NEW k \in 1 .. n + 1
        PROVE  ~r[L + k].word.prim /\ (~r[L + k].last => r[L + k].word.val \in Plain)
    <3>1. CASE k = n + 1
      BY <1>1, <1>5, <3>1
    <3>2. CASE k # n + 1
      <4>1. k \in 1 .. n
        BY <1>1, <3>2
      <4>2. vals[k] \in Plain
        BY <4>1 DEF n
      <4> QED BY <1>1, <1>5, <4>1, <4>2
    <3> QED BY <3>1, <3>2
  <2> QED BY <1>8, <2>1, <2>2
<1>10. r[L + n + 1].last /\ r # << >>
  <2>1. n + 1 \in 1 .. n + 1 /\ L + (n + 1) = L + n + 1 /\ L + n + 1 # 0
    BY <1>1, <1>5
  <2>2. r[L + n + 1] = p[n + 1]
    BY <1>5, <2>1
  <2> QED BY <1>1, <1>5, <2>1, <2>2
<1>11. ASSUME NEW i \in 1 .. L, r[i].last PROVE FrameEnds(r, s, mid, i)
  <2> DEFINE v == q[i].word.val[2]
             m == Len(v)
  <2>1. r[i] = q[i] /\ FrameEnds(q, s, mid, i)
    BY <1>5, <1>7, <1>11 DEF QueueOK
  <2>2. \A k \in 1 .. i - 1 : r[k] = q[k]
    BY <1>5
  <2>3. /\ v \in Seq(Plain) /\ m >= 1 /\ q[i].word.val = CrcValue(v) /\ m \in Nat
        /\ \A k \in 1 .. i - 1 : k + m >= i => ~q[k].last /\ q[k].word.val = v[k + m + 1 - i]
        /\ i > m + 1 => q[i - m - 1].last
        /\ IF mid THEN i <= m + 1 => Len(s) = m + 1 - i /\ \A k \in 1 .. m + 1 - i : s[k] = v[k]
                  ELSE i >= m + 1
    BY <2>1 DEF FrameEnds
  <2> HIDE DEF v, m
  <2>4. i > m + 1 => r[i - m - 1] = q[i - m - 1]
    <3>1. \A l, n1 \in Nat : \A j \in 1 .. l : j > n1 + 1 => j - n1 - 1 \in 1 .. l
      OBVIOUS
    <3>2. i > m + 1 => i - m - 1 \in 1 .. L
      BY <1>5, <2>3, <3>1, Zenon
    <3> QED BY <1>5, <3>2
  <2>5. /\ \A k \in 1 .. i - 1 : k + m >= i => ~r[k].last /\ r[k].word.val = v[k + m + 1 - i]
        /\ i > m + 1 => r[i - m - 1].last
    BY <2>2, <2>3, <2>4, Zenon
  <2>6. r[i].word.val = CrcValue(v) /\ r[i].word.val[2] = v
    <3>1. r[i].word.val = q[i].word.val
      BY <2>1, Zenon
    <3>2. r[i].word.val[2] = v
      BY <3>1, Zenon DEF v
    <3> QED BY <2>3, <3>1, <3>2, Zenon
  <2>7. v \in Seq(Plain) /\ Len(v) >= 1
    BY <2>3 DEF m
  <2>8. m = Len(v) /\ IF mid THEN i <= m + 1 => Len(s) = m + 1 - i /\ \A k \in 1 .. m + 1 - i : s[k] = v[k]
                           ELSE i >= m + 1
    BY <2>3, Zenon DEF m
  <2> HIDE DEF r
  <2> QED BY <2>5, <2>6, <2>7, <2>8, Zenon DEF FrameEnds
<1>12. FrameEnds(r, s, mid, L + n + 1)
  <2> DEFINE i == L + n + 1
  <2>1. r[i].word.val = CrcValue(vals) /\ r[i].word.val[2] = vals
    <3>1. n + 1 \in 1 .. n + 1 /\ L + (n + 1) = i
      BY <1>1, <1>5
    <3>2. r[i] = p[n + 1]
      BY <1>5, <3>1
    <3> QED BY <1>1, <3>2 DEF CrcValue
  <2>2. ASSUME NEW k \in 1 .. i - 1, k + n >= i
        PROVE  ~r[k].last /\ r[k].word.val = vals[k + n + 1 - i]
    <3>1. k - L \in 1 .. n /\ k - L \in 1 .. n + 1 /\ L + (k - L) = k /\ k + n + 1 - i = k - L
      BY <1>1, <1>5, <2>2
    <3>2. r[k] = p[k - L]
      BY <1>5, <3>1
    <3> QED BY <1>1, <3>1, <3>2
  <2>3. i > n + 1 => r[i - n - 1].last
    <3>1. i - n - 1 = L
      BY <1>1, <1>5
    <3>2. ASSUME i > n + 1 PROVE r[L].last
      <4>1. L \in 1 .. L /\ L # 0
        BY <1>1, <1>5, <3>2
      <4> QED BY <1>5, <1>6, <1>7, <4>1 DEF QueueOK
    <3> QED BY <3>1, <3>2
  <2>4. IF mid THEN ~(i <= n + 1) ELSE i >= n + 1
    BY <1>1, <1>5, <1>6
  <2>5. Len(vals) = n /\ i \in Nat
    BY <1>1, <1>5 DEF n
  <2> HIDE DEF i
  <2> QED BY <1>1, <2>1, <2>2, <2>3, <2>4, <2>5 DEF FrameEnds, i
<1>13. ASSUME NEW i \in 1 .. L + n + 1, r[i].last PROVE FrameEnds(r, s, mid, i)
  <2>1. CASE i \in 1 .. L
    BY <1>11, <1>13, <2>1
  <2>2. ASSUME NEW k \in 1 .. n + 1, i = L + k PROVE k = n + 1
    <3>1. SUFFICES ASSUME k # n + 1 PROVE FALSE
      OBVIOUS
    <3>2. k \in 1 .. n
      BY <1>1, <3>1
    <3> QED BY <1>1, <1>5, <1>13, <2>2, <3>2
  <2>3. L + (n + 1) = L + n + 1
    BY <1>1, <1>5
  <2> QED BY <1>8, <1>12, <2>1, <2>2, <2>3
<1>14. mid => s \in Seq(Plain)
  BY DEF QueueOK
<1>15. \E U : r \in Seq(U)
  BY <1>5
<1>16. QueueOK(r, s, mid)
  BY <1>5, <1>9, <1>10, <1>13, <1>14, <1>15, Zenon DEF QueueOK
<1> QED BY <1>10, <1>16 DEF r

\* A frame begins: nothing of the packet in front has been taken.
LEMMA QueueOpens ==
  ASSUME NEW q, NEW s, QueueOK(q, s, FALSE)
  PROVE  QueueOK(q, << >>, TRUE) /\ \A t : QueueOK(q, t, FALSE)
<1>1. ASSUME NEW i \in 1 .. Len(q), FrameEnds(q, s, FALSE, i)
      PROVE  FrameEnds(q, << >>, TRUE, i) /\ \A t : FrameEnds(q, t, FALSE, i)
  <2> DEFINE n == Len(q[i].word.val[2])
  <2>1. n \in Nat /\ i >= n + 1
    BY <1>1 DEF FrameEnds
  <2>2. i <= n + 1 => Len(<< >>) = n + 1 - i /\ \A k \in 1 .. n + 1 - i : FALSE
    BY <2>1
  <2> QED BY <1>1, <2>2 DEF FrameEnds
<1>2. << >> \in Seq(Plain)
  OBVIOUS
<1> QED BY <1>1, <1>2 DEF QueueOK

\* The framer takes a word of the frame, maybe its last.
LEMMA QueueTakes ==
  ASSUME NEW q, NEW s, QueueOK(q, s, TRUE), q # << >>
  PROVE  LET val == Head(q).word.val
             s2  == Append(s, val)
         IN  /\ ~Head(q).last => QueueOK(Tail(q), s2, TRUE) /\ Tail(q) # << >>
             /\ Head(q).last => QueueOK(Tail(q), s2, FALSE) /\ s2 = Append(val[2], val)
<1> DEFINE val == Head(q).word.val
           s2 == Append(s, val)
           r == Tail(q)
           L == Len(q)
           mid == ~Head(q).last
<1>1. PICK S : q \in Seq(S)
  BY DEF QueueOK
<1>2. /\ Head(q) = q[1] /\ r \in Seq(S) /\ Len(r) = L - 1 /\ L \in Nat /\ L >= 1
      /\ \A k \in 1 .. L - 1 : r[k] = q[k + 1]
  <2>1. L \in Nat /\ L >= 1 /\ Head(q) = q[1]
    BY <1>1
  <2>2. r \in Seq(S) /\ Len(r) = Len(q) - 1 /\ \A k \in 1 .. Len(r) : r[k] = q[k + 1]
    BY <1>1, HeadTailProperties
  <2> QED BY <2>1, <2>2
<1> HIDE DEF r, L
<1>3. Len(q) = L
  BY DEF L
<1>4. /\ 1 \in 1 .. L /\ L \in 1 .. L
      /\ \A k \in 1 .. L - 1 : k + 1 \in 1 .. L
  BY <1>2
<1>5. s \in Seq(Plain)
  BY DEF QueueOK
<1>6. ~q[1].last => val \in Plain
  BY <1>2, <1>3, <1>4 DEF QueueOK
<1> HIDE DEF val
<1>7. ~q[1].last =>
        /\ s2 \in Seq(Plain) /\ Len(s2) = Len(s) + 1 /\ s2[Len(s) + 1] = val
        /\ \A k \in 1 .. Len(s) : s2[k] = s[k]
  BY <1>5, <1>6, AppendProperties
<1> HIDE DEF s2
<1>8. ASSUME NEW i \in 1 .. L - 1, r[i].last
      PROVE  FrameEnds(r, s2, mid, i)
  <2> DEFINE v == q[i + 1].word.val[2]
             n == Len(v)
  <2>1. /\ r[i] = q[i + 1] /\ i + 1 \in 1 .. L /\ i \in Nat /\ FrameEnds(q, s, TRUE, i + 1)
    <3>1. r[i] = q[i + 1] /\ i + 1 \in 1 .. L /\ i \in Nat
      BY <1>2, <1>4
    <3>2. i + 1 \in 1 .. Len(q) /\ q[i + 1].last
      BY <1>3, <1>8, <3>1
    <3> QED BY <3>1, <3>2 DEF QueueOK
  <2>2. /\ v \in Seq(Plain) /\ n >= 1 /\ q[i + 1].word.val = CrcValue(v) /\ n \in Nat
        /\ \A k \in 1 .. i : k + n >= i + 1 => ~q[k].last /\ q[k].word.val = v[k + n - i]
        /\ i > n => q[i - n].last
        /\ i <= n => Len(s) = n - i /\ \A k \in 1 .. n - i : s[k] = v[k]
    <3>1. /\ v \in Seq(Plain) /\ n >= 1 /\ q[i + 1].word.val = CrcValue(v)
          /\ \A k \in 1 .. (i + 1) - 1 :
                k + n >= i + 1 => ~q[k].last /\ q[k].word.val = v[k + n + 1 - (i + 1)]
          /\ (i + 1) > n + 1 => q[(i + 1) - n - 1].last
          /\ (i + 1) <= n + 1 => /\ Len(s) = n + 1 - (i + 1)
                                /\ \A k \in 1 .. n + 1 - (i + 1) : s[k] = v[k]
      BY <2>1 DEF FrameEnds
    <3>2. n \in Nat
      BY <3>1
    <3> HIDE DEF v, n
    <3>3. /\ (i + 1) - 1 = i /\ (i + 1) - n - 1 = i - n /\ n + 1 - (i + 1) = n - i
          /\ (i + 1) > n + 1 <=> i > n
          /\ (i + 1) <= n + 1 <=> i <= n
          /\ \A k \in 1 .. i : k + n + 1 - (i + 1) = k + n - i
      BY <2>1, <3>2
    <3> QED BY <3>1, <3>2, <3>3, Zenon
  <2> HIDE DEF v, n
  <2>3. ASSUME NEW k \in 1 .. i - 1, k + n >= i
        PROVE  ~r[k].last /\ r[k].word.val = v[k + n + 1 - i]
    <3>1. k \in 1 .. L - 1 /\ k + 1 \in 1 .. i /\ (k + 1) + n >= i + 1
          /\ (k + 1) + n - i = k + n + 1 - i
      BY <1>2, <2>1, <2>2, <2>3
    <3>2. r[k] = q[k + 1] /\ k + 1 \in 1 .. i
      BY <1>2, <3>1
    <3>3. ~q[k + 1].last /\ q[k + 1].word.val = v[(k + 1) + n - i]
      BY <2>2, <3>1, <3>2, Zenon
    <3> QED BY <3>1, <3>2, <3>3, Zenon
  <2>4. i > n + 1 => r[i - n - 1].last
    <3>1. SUFFICES ASSUME i > n + 1 PROVE r[i - n - 1].last
      OBVIOUS
    <3>2. i - n - 1 \in 1 .. L - 1 /\ (i - n - 1) + 1 = i - n /\ i > n
      BY <1>2, <2>1, <2>2, <3>1
    <3> QED BY <1>2, <2>2, <3>2
  <2>5. ASSUME ~q[1].last, i <= n + 1
        PROVE  Len(s2) = n + 1 - i /\ \A k \in 1 .. n + 1 - i : s2[k] = v[k]
    <3>1. i <= n
      <4>1. SUFFICES ASSUME i = n + 1 PROVE FALSE
        BY <2>1, <2>2, <2>5
      <4>2. i - n = 1 /\ i > n
        BY <2>2, <4>1
      <4> QED BY <2>2, <2>5, <4>2
    <3>2. Len(s) = n - i /\ (\A k \in 1 .. n - i : s[k] = v[k]) /\ Len(s) \in Nat
      BY <1>5, <2>2, <3>1
    <3>3. val = v[n + 1 - i]
      <4>1. 1 \in 1 .. i /\ 1 + n >= i + 1 /\ 1 + n - i = n + 1 - i
        BY <2>1, <2>2, <3>1
      <4> QED BY <1>2, <2>2, <4>1 DEF val
    <3>4. Len(s) + 1 = n + 1 - i
      BY <2>1, <2>2, <3>2
    <3>5. \A k \in 1 .. n + 1 - i : k \in 1 .. n - i \/ k = n + 1 - i
      BY <2>1, <2>2
    <3> QED BY <1>7, <2>5, <3>2, <3>3, <3>4, <3>5
  <2>6. q[1].last => i >= n + 1
    <3>1. SUFFICES ASSUME q[1].last, i < n + 1 PROVE FALSE
      BY <2>1, <2>2
    <3>2. 1 \in 1 .. i /\ 1 + n >= i + 1
      BY <2>1, <2>2, <3>1
    <3> QED BY <2>2, <3>1, <3>2
  <2>7. mid <=> ~q[1].last
    BY <1>2
  <2> HIDE DEF mid
  <2>8. IF mid THEN i <= n + 1 => Len(s2) = n + 1 - i /\ \A k \in 1 .. n + 1 - i : s2[k] = v[k]
               ELSE i >= n + 1
    BY <2>5, <2>6, <2>7, Zenon
  <2>9. \A k \in 1 .. i - 1 : k + n >= i => ~r[k].last /\ r[k].word.val = v[k + n + 1 - i]
    BY <2>3, Zenon
  <2>10. r[i].word.val = CrcValue(v) /\ r[i].word.val[2] = v
    <3>1. r[i].word.val = q[i + 1].word.val
      BY <2>1, Zenon
    <3>2. r[i].word.val[2] = v
      BY <3>1, Zenon DEF v
    <3> QED BY <2>2, <3>1, <3>2, Zenon
  <2>11. v \in Seq(Plain) /\ Len(v) >= 1
    BY <2>2 DEF n
  <2>12. n = Len(v)
    BY DEF n
  <2> HIDE DEF s2, r
  <2> QED BY <2>4, <2>8, <2>9, <2>10, <2>11, <2>12, Zenon DEF FrameEnds
<1>9. \A i \in 1 .. Len(r) : ~r[i].word.prim /\ (~r[i].last => r[i].word.val \in Plain)
  BY <1>2, <1>3, <1>4 DEF QueueOK
<1>10. r # << >> => r[Len(r)].last
  <2>1. SUFFICES ASSUME r # << >> PROVE r[L - 1].last
    BY <1>2
  <2>2. L - 1 \in 1 .. L - 1 /\ (L - 1) + 1 = L
    BY <1>2, <2>1
  <2>3. q[L].last
    BY <1>2, <1>3 DEF QueueOK
  <2> QED BY <1>2, <2>2, <2>3
<1>11. mid => s2 \in Seq(Plain)
  BY <1>2, <1>7
<1>12. QueueOK(r, s2, mid)
  <2>1. \A i \in 1 .. Len(r) : r[i].last => FrameEnds(r, s2, mid, i)
    BY <1>2, <1>8
  <2>2. \E T : r \in Seq(T)
    BY <1>2
  <2> QED BY <1>9, <1>10, <1>11, <2>1, <2>2, Zenon DEF QueueOK
<1>13. ~Head(q).last => r # << >>
  <2>1. SUFFICES ASSUME ~q[1].last, L = 1 PROVE FALSE
    BY <1>2
  <2> QED BY <1>3, <2>1 DEF QueueOK
<1>14. Head(q).last => s2 = Append(val[2], val)
  <2>1. SUFFICES ASSUME q[1].last PROVE s = val[2]
    BY <1>2 DEF s2
  <2>2. FrameEnds(q, s, TRUE, 1)
    BY <1>3, <1>4, <2>1 DEF QueueOK
  <2> DEFINE v == q[1].word.val[2]
  <2>3. v \in Seq(Plain) /\ Len(v) >= 1 /\ v = val[2]
    BY <1>2, <2>2 DEF FrameEnds, val
  <2>4. 1 <= Len(v) + 1 => Len(s) = Len(v) + 1 - 1 /\ \A k \in 1 .. Len(v) + 1 - 1 : s[k] = v[k]
    BY <2>2 DEF FrameEnds
  <2> HIDE DEF v
  <2>5. Len(s) = Len(v) /\ \A k \in 1 .. Len(v) : s[k] = v[k]
    <3>1. Len(v) \in Nat
      BY <2>3
    <3>2. 1 <= Len(v) + 1 /\ Len(v) + 1 - 1 = Len(v)
      BY <3>1
    <3> QED BY <2>4, <3>2, Zenon
  <2>6. s = v
    BY <1>5, <2>3, <2>5
  <2> QED BY <2>3, <2>6
<1>15. (mid <=> TRUE) \/ (mid <=> FALSE)
  OBVIOUS
<1>16. /\ ~Head(q).last => QueueOK(r, s2, TRUE)
       /\ Head(q).last => QueueOK(r, s2, FALSE)
  <2>1. ASSUME NEW m \in BOOLEAN, m <=> mid PROVE QueueOK(r, s2, m)
    <3>1. m <=> ~Head(q).last
      BY <2>1
    <3> QED BY <1>12, <2>1 DEF QueueOK, FrameEnds
  <2> QED BY <2>1
<1> QED BY <1>13, <1>14, <1>16 DEF r, s2, val

-----------------------------------------------------------------------------
(* The words on the way to the host: the receive FIFO, and the device's     *)
(* register in front of it.                                                 *)

Coming == {d2h[i] : i \in 1 .. Len(d2h)} \cup (IF m_rxphy.valid THEN {m_rxphy.word} ELSE {})
Comes(ps) == \E p \in ps : Prim(p) \in Coming

\* A word of A has no word of B behind it.
ComingOrder(A, B) ==
  \A i \in 1 .. Len(d2h) : d2h[i] \in A =>
    /\ \A j \in i .. Len(d2h) : d2h[j] \notin B
    /\ m_rxphy.valid => m_rxphy.word \notin B

\* The host takes the oldest word, or none.
LEMMA ComingPops ==
  ASSUME BenchInv, d2h' = (IF ReceivedWord.valid THEN Tail(d2h) ELSE d2h), UNCHANGED m_rxphy,
         NEW A, NEW B
  PROVE  /\ Coming' \subseteq Coming
         /\ ReceivedWord.valid => ReceivedWord.word \in Coming
         /\ ComingOrder(A, B) => ComingOrder(A, B)'
         /\ ComingOrder(A, B) /\ ReceivedWord.valid /\ ReceivedWord.word \in A => Coming \cap B = {}
<1>1. PICK S : d2h \in Seq(S)
  BY DEF BenchInv, PathInv
<1>2. CASE Len(d2h) > Lag
  <2>1. /\ ReceivedWord.valid /\ ReceivedWord.word = Head(d2h) /\ d2h' = Tail(d2h)
    BY <1>2 DEF ReceivedWord, Got
  <2>2. d2h # << >> /\ Len(d2h) \in Nat /\ Head(d2h) = d2h[1] /\ 1 \in 1 .. Len(d2h)
    BY <1>1, <1>2, BenchAssumption
  <2>3. Len(d2h') = Len(d2h) - 1 /\ \A i \in 1 .. Len(d2h') : d2h'[i] = d2h[i + 1]
    BY <1>1, <2>1, <2>2, HeadTailProperties
  <2>4. /\ \A i \in 1 .. Len(d2h') : i + 1 \in 1 .. Len(d2h)
        /\ \A i \in 1 .. Len(d2h') : \A j \in i .. Len(d2h') :
              j \in 1 .. Len(d2h') /\ j + 1 \in i + 1 .. Len(d2h)
    <3>1. \A l \in Nat : \A i \in 1 .. l - 1 :
             i + 1 \in 1 .. l /\ \A j \in i .. l - 1 : j \in 1 .. l - 1 /\ j + 1 \in i + 1 .. l
      OBVIOUS
    <3>2. \A i \in 1 .. Len(d2h) - 1 :
             /\ i + 1 \in 1 .. Len(d2h)
             /\ \A j \in i .. Len(d2h) - 1 : j \in 1 .. Len(d2h) - 1 /\ j + 1 \in i + 1 .. Len(d2h)
      BY <2>2, <3>1, Zenon
    <3>3. Len(d2h') = Len(d2h) - 1
      BY <2>3, Zenon
    <3> QED BY ONLY <3>2, <3>3
  <2>5. Coming' \subseteq Coming
    <3>1. ASSUME NEW i \in 1 .. Len(d2h') PROVE \E k \in 1 .. Len(d2h) : d2h'[i] = d2h[k]
      BY <2>3, <2>4, Zenon
    <3>2. {d2h'[i] : i \in 1 .. Len(d2h')} \subseteq {d2h[i] : i \in 1 .. Len(d2h)}
      BY <3>1
    <3> QED BY <3>2, Zenon DEF Coming
  <2>6. ReceivedWord.word \in Coming
    BY <2>1, <2>2, Zenon DEF Coming
  <2>7. ASSUME ComingOrder(A, B) PROVE ComingOrder(A, B)'
    <3>1. ASSUME NEW i \in 1 .. Len(d2h'), d2h'[i] \in A
          PROVE  /\ \A j \in i .. Len(d2h') : d2h'[j] \notin B
                 /\ m_rxphy.valid => m_rxphy.word \notin B
      <4>1. i + 1 \in 1 .. Len(d2h) /\ d2h[i + 1] \in A
        BY <2>3, <2>4, <3>1, Zenon
      <4>2. \A k \in i + 1 .. Len(d2h) : d2h[k] \notin B
        BY <2>7, <4>1, Zenon DEF ComingOrder
      <4>3. m_rxphy.valid => m_rxphy.word \notin B
        BY <2>7, <4>1, Zenon DEF ComingOrder
      <4> QED BY <2>3, <2>4, <4>2, <4>3, Zenon
    <3> QED BY <3>1, Zenon DEF ComingOrder
  <2>8. ComingOrder(A, B) /\ ReceivedWord.word \in A => Coming \cap B = {}
    BY <2>1, <2>2, Zenon DEF Coming, ComingOrder
  <2> QED BY <2>5, <2>6, <2>7, <2>8
<1>3. CASE ~(Len(d2h) > Lag)
  <2>1. ~ReceivedWord.valid /\ d2h' = d2h
    BY <1>3 DEF ReceivedWord, NoWord
  <2> QED BY <2>1 DEF Coming, ComingOrder
<1> QED BY <1>2, <1>3

\* The device's word goes into the FIFO, unless it is dropped, and another
\* follows it.
LEMMA ComingGrows ==
  ASSUME BenchInv, UpInv, Arrives(m_rxphy), NEW A, NEW B, A \cap B = {}
  PROVE  /\ \A w \in Coming' : w \in Coming \/ (m_rxphy'.valid /\ w = m_rxphy'.word)
         /\ ComingOrder(A, B) /\ (Coming \cap A # {} /\ m_rxphy'.valid => m_rxphy'.word \notin B)
              => ComingOrder(A, B)'
<1>1. PICK S : d2h \in Seq(S)
  BY DEF BenchInv, PathInv
<1>2. CASE d2h' = d2h
  BY <1>2, Zenon DEF Coming, ComingOrder
<1>3. CASE rx_linkup /\ d2h' = Append(d2h, m_rxphy.word)
  <2> DEFINE w == m_rxphy.word
  <2>1. m_rxphy.valid /\ w \in Coming
    BY <1>3 DEF UpInv, Heard, Coming
  <2> HIDE DEF w
  <2>2. /\ Len(d2h) \in Nat /\ Len(d2h') = Len(d2h) + 1 /\ d2h'[Len(d2h) + 1] = w
        /\ \A i \in 1 .. Len(d2h) : d2h'[i] = d2h[i]
    <3>1. d2h \in Seq(S \cup {w}) /\ d2h' = Append(d2h, w) /\ w \in S \cup {w}
      BY <1>1, <1>3 DEF w
    <3> QED BY <3>1, AppendProperties
  <2>3. \A i \in 1 .. Len(d2h') : i \in 1 .. Len(d2h) \/ i = Len(d2h) + 1
    BY <2>2
  <2>4. /\ \A i \in 1 .. Len(d2h') : \A j \in i .. Len(d2h') :
              \/ i \in 1 .. Len(d2h) /\ (j \in i .. Len(d2h) \/ j = Len(d2h) + 1)
              \/ i = Len(d2h) + 1 /\ j = Len(d2h) + 1
    BY <2>2
  <2>5. \A v \in Coming' : v \in Coming \/ (m_rxphy'.valid /\ v = m_rxphy'.word)
    BY <2>1, <2>2, <2>3, Zenon DEF Coming
  <2>6. ASSUME ComingOrder(A, B), Coming \cap A # {} /\ m_rxphy'.valid => m_rxphy'.word \notin B,
               NEW i \in 1 .. Len(d2h'), d2h'[i] \in A
        PROVE  /\ \A j \in i .. Len(d2h') : d2h'[j] \notin B
               /\ m_rxphy'.valid => m_rxphy'.word \notin B
    <3>1. CASE i \in 1 .. Len(d2h)
      <4>1. d2h[i] \in A /\ d2h[i] \in Coming
        BY <2>2, <2>6, <3>1, Zenon DEF Coming
      <4>2. /\ \A j \in i .. Len(d2h) : d2h[j] \notin B
            /\ w \notin B
        BY <2>1, <2>6, <3>1, <4>1, Zenon DEF ComingOrder, w
      <4>3. \A j \in i .. Len(d2h') : (j \in 1 .. Len(d2h) /\ j \in i .. Len(d2h)) \/ j = Len(d2h) + 1
        BY <2>2, <3>1
      <4> QED BY <2>2, <2>6, <4>1, <4>2, <4>3, Zenon
    <3>2. CASE i = Len(d2h) + 1
      <4>1. w \in A /\ w \notin B
        BY <2>2, <2>6, <3>2
      <4>2. \A j \in i .. Len(d2h') : j = Len(d2h) + 1
        BY <2>2, <3>2
      <4> QED BY <2>1, <2>2, <2>6, <4>1, <4>2, Zenon
    <3> QED BY <2>3, <3>1, <3>2
  <2>7. ComingOrder(A, B) /\ (Coming \cap A # {} /\ m_rxphy'.valid => m_rxphy'.word \notin B)
          => ComingOrder(A, B)'
    BY <2>6, Zenon DEF ComingOrder
  <2> QED BY <2>5, <2>7
<1> QED BY <1>2, <1>3 DEF Arrives

LEMMA ComingWords ==
  ASSUME BenchInv, UpInv, Arrives(m_rxphy)
  PROVE  \A w \in Coming' : w \in Coming \/ (m_rxphy'.valid /\ w = m_rxphy'.word)
<1>1. {} \cap {} = {}
  OBVIOUS
<1> QED BY <1>1, ComingGrows, Zenon

\* The device's next word keeps the order.
LEMMA ComingOrdered ==
  ASSUME BenchInv, UpInv, Arrives(m_rxphy), NEW A, NEW B, A \cap B = {}, ComingOrder(A, B),
         Coming \cap A # {} => m_rxphy' = m_rxphy \/ m_rxphy'.word \notin B
  PROVE  ComingOrder(A, B)'
<1>1. ASSUME Coming \cap A # {}, m_rxphy'.valid PROVE m_rxphy'.word \notin B
  <2>1. CASE m_rxphy' = m_rxphy
    <3>1. m_rxphy.valid
      BY <1>1, <2>1
    <3>2. \A i \in 1 .. Len(d2h) : d2h[i] \in A => m_rxphy.word \notin B
      BY <3>1 DEF ComingOrder
    <3>3. m_rxphy.word \in A \/ \E i \in 1 .. Len(d2h) : d2h[i] \in A
      BY <1>1, <3>1 DEF Coming
    <3> QED BY <2>1, <3>2, <3>3
  <2>2. CASE m_rxphy' # m_rxphy
    BY <1>1, <2>2
  <2> QED BY <2>1, <2>2
<1> QED BY <1>1, ComingGrows

-----------------------------------------------------------------------------
(* The device's step, as far as a frame can tell.                           *)

Receiving == {"RCV_CHKRDY", "RCV_DATA", "RCVEOF", "GOODEND", "BADEND"}
Judging   == {"RCVEOF", "GOODEND", "BADEND"}

\* What a primitive of the device says of its state.
LEMMA DeviceSays ==
  ASSUME LinkLayer
  PROVE  \/ UNCHANGED <<m_rxphy, m_link_state, bufVars>>
         \/ \E w : /\ m_rxphy' = Got(w)
                   /\ w = Prim("R_RDY") => m_link_state = "RCV_CHKRDY"
                   /\ w = Prim("R_OK") => m_link_state = "GOODEND"
                   /\ w = Prim("R_ERR") => m_link_state = "BADEND"
                   /\ w = Prim("SYNC") => m_link_state = "IDLE"
<1>1. \A p, q : Prim(p) = Prim(q) => p = q
  BY DEF Prim
<1>2. \A v, n, p : Scramble(v, n) # Prim(p)
  BY DEF Prim, Scramble
<1>3. CASE SimSendData
  <2>1. \E w : m_rxphy' = Got(w) /\ (w = Prim("SOF") \/ \E v, n : w = Scramble(v, n))
    BY <1>3, Zenon DEF SimSendData, DmaActivate, PioSetupResponse, DataSend, D2hResponse, SendFrame,
       DevicePhySends
  <2> QED BY <1>1, <1>2, <2>1
<1>4. CASE SimAlign \/ SimIdle \/ SimSendChkRdy \/ SimSendEof \/ SimWait
  BY <1>1, <1>4 DEF SimAlign, SimIdle, SimSendChkRdy, SimSendEof, SimWait, Listens, Sends,
     DevicePhySends
<1>5. CASE SimRcvChkRdy \/ SimRcvData \/ SimRcvEof \/ SimGoodEnd \/ SimBadEnd
  BY <1>1, <1>5 DEF SimRcvChkRdy, SimRcvData, SimRcvEof, SimGoodEnd, SimBadEnd, Listens, Sends,
     DevicePhySends
<1> QED BY <1>3, <1>4, <1>5 DEF LinkLayer

\* Where it goes from the states that receive a frame.
LEMMA DeviceReceives ==
  ASSUME LinkLayer
  PROVE  /\ m_link_state = "RCV_CHKRDY" =>
              m_link_state' = (IF m_oob_done /\ Hears("SOF") THEN "RCV_DATA" ELSE "RCV_CHKRDY")
         /\ m_link_state = "RCV_DATA" =>
              \/ m_link_state' = "RCV_DATA"
              \/ m_link_state' \in {"RCVEOF", "BADEND"} /\ (Hears("EOF") \/ Hears("WTRM"))
         /\ m_link_state = "RCVEOF" => m_link_state' \in Judging
         /\ m_link_state \in {"GOODEND", "BADEND"} =>
              m_link_state' = m_link_state \/ (m_link_state' = "IDLE" /\ Hears("SYNC"))
         /\ m_link_state \in Receiving \ {"RCV_DATA"} => UNCHANGED bufVars
         /\ m_link_state \notin {"RCVEOF", "GOODEND"} => m_link_state' # "GOODEND"
         /\ m_link_state = "RCVEOF" /\ m_link_state' = "GOODEND" => m_crc_matched
<1>1. CASE ~m_oob_done
  BY <1>1 DEF LinkLayer, Judging
<1>2. CASE m_oob_done /\ SimSendData
  <2>1. m_link_state = "SEND_DATA" /\ m_link_state' \in {"SEND_DATA", "SEND_EOF"}
    BY <1>2 DEF SimSendData, SendFrame, DmaActivate, PioSetupResponse, DataSend, D2hResponse, SimGoto
  <2> QED BY <2>1 DEF Receiving
<1>3. CASE m_oob_done /\ (SimAlign \/ SimIdle \/ SimSendChkRdy \/ SimSendEof \/ SimWait)
  BY <1>3 DEF SimAlign, SimIdle, SimSendChkRdy, SimSendEof, SimWait, Listens, Sends, SimGoto,
     Receiving, SimChkRdyNext
<1>4. CASE m_oob_done /\ (SimRcvChkRdy \/ SimRcvEof \/ SimGoodEnd \/ SimBadEnd)
  BY <1>4 DEF SimRcvChkRdy, SimRcvEof, SimGoodEnd, SimBadEnd, Listens, Sends, SimGoto, Receiving,
     Judging
<1>5. CASE m_oob_done /\ SimRcvData
  BY <1>5 DEF SimRcvData, Sends, SimGoto, Receiving
<1> QED BY <1>1, <1>2, <1>3, <1>4, <1>5 DEF LinkLayer

\* The CRC of a frame matches with the word that carries it, and is forgotten
\* with the frame.
LEMMA CrcMatched ==
  ASSUME LinkLayer, m_crc_matched'
  PROVE  \/ /\ m_link_state = "RCV_DATA" /\ ~m_txphy.prim /\ m_txphy.val = CrcValue(m_crc)
            /\ m_crc' = Append(m_crc, m_txphy.val)
         \/ /\ m_crc_matched /\ UNCHANGED m_crc
            /\ m_link_state \notin {"IDLE"} \/ UNCHANGED m_link_state
         \/ /\ m_crc_matched /\ m_link_state = "SEND_DATA"
<1>1. CASE m_oob_done /\ SimRcvData
  <2>1. m_link_state = "RCV_DATA" /\ DeviceLinkReceives
    BY <1>1 DEF SimRcvData, Sends
  <2>2. CASE UNCHANGED <<flagVars, bufVars, m_received_data>>
    BY <2>1, <2>2 DEF bufVars
  <2>3. CASE ~m_txphy.prim /\ LaterWord
    <3> DEFINE raw == Descramble(m_txphy, m_scrambler_fill)
    <3>1. raw = CrcValue(m_crc) /\ m_crc' = Append(m_crc, raw)
      BY <2>3 DEF LaterWord, CrcMatches, Absorb
    <3>2. raw # Noise => raw = m_txphy.val
      BY DEF Descramble
    <3> HIDE DEF raw
    <3>3. CrcValue(m_crc) # Noise
      BY DEF CrcValue, Noise
    <3> QED BY <2>1, <2>3, <3>1, <3>2, <3>3
  <2>4. ~FirstWord
    BY DEF FirstWord
  <2> QED BY <2>1, <2>2, <2>3, <2>4 DEF DeviceLinkReceives
<1>2. CASE m_oob_done /\ SimIdle
  BY <1>2 DEF SimIdle, ResetDataBuffer
<1>3. CASE m_oob_done /\ SimSendData
  BY <1>3 DEF SimSendData, SendFrame, DmaActivate, PioSetupResponse, DataSend, D2hResponse
<1>4. CASE \/ ~m_oob_done \/ SimAlign \/ SimSendChkRdy \/ SimSendEof \/ SimWait \/ SimRcvChkRdy
           \/ SimRcvEof \/ SimGoodEnd \/ SimBadEnd
  BY <1>4 DEF LinkLayer, SimAlign, SimSendChkRdy, SimSendEof, SimWait, SimRcvChkRdy, SimRcvEof,
     SimGoodEnd, SimBadEnd, Listens, Sends, bufVars
<1> QED BY <1>1, <1>2, <1>3, <1>4 DEF LinkLayer

-----------------------------------------------------------------------------
(* A frame, from the framer to the device's verdict.                        *)

Sending == link_state \in {"SENDDATA", "RCVRHOLD", "WAIT"}

\* The framer has taken the last word of the frame the link is sending.
Finished == link_state = "WAIT" \/ tx_state # "DATA"

\* The frame's SOF has yet to leave.
Unsent == link_state # "WAIT" /\ tx_word = Prim("SOF")

\* The framer has taken words of a frame that are still in front of the rest.
MidFrame == tx_state = "DATA" /\ tx_word # Prim("SOF")

\* The physical layer is up whenever the link counts on it; until then
\* nothing but ALIGNs leaves.
LinkedInv ==
  /\ link_state \notin {"RESET", "NOCOMMERR", "NOCOMM"} => o_link_up
  /\ o_link_up => fsm_state = "READY"
  /\ ~o_link_up => Kind(phy_reg) = "other"
  /\ ~m_phy_ready => link_state = "RESET" /\ ~s_success

\* The framer's registers against the link's state.
FramerRegs ==
  /\ tx_state \in {"DATA", "EOF"} => tx_valid /\ ~tx_last
  /\ tx_state = "EOF" => Kind(tx_word) = "crc"
  /\ tx_state = "IDLE" => \/ tx_valid /\ tx_last /\ tx_word = Prim("EOF")
                          \/ ~tx_valid /\ ~tx_last /\ tx_word = Prim("SOF")
  /\ MidFrame => Kind(tx_word) = "other"

FramerLink ==
  /\ r_ready <=> link_state = "SENDDATA"
  /\ ~Sending \/ link_state = "WAIT" => tx_word = Prim("SOF")
  /\ link_state = "SENDCHKRDY" => tx_state = "DATA"
  /\ link_state = "RCVRHOLD" => tx_word # Prim("SOF")
  /\ link_state = "SENDDATA" => ~(tx_state = "IDLE" /\ ~tx_valid)

FramerQueue ==
  /\ tx_state = "DATA" => tx_queue # << >>
  /\ \E S : sent \in Seq(S)
  /\ QueueOK(tx_queue, sent, MidFrame)

FramerInv == FramerRegs /\ FramerLink /\ FramerQueue /\ test \in Tests

\* The device knows of a matching CRC only from the frame it is in.
CrcInv ==
  /\ m_crc_matched => m_link_state \in {"RCV_DATA", "RCVEOF", "GOODEND", "BADEND", "IDLE"}
  /\ m_link_state = "GOODEND" => m_crc_matched
  /\ last_primitive.prim

\* Between frames: nothing of a frame is left on its way but its end, and
\* that only while the device sends its verdict on it.
SilentInv ==
  /\ ~Has({"sof", "crc"})
  /\ Has({"end"}) => m_link_state \in {"GOODEND", "BADEND"}
  /\ Order({"sync"}, {"end"})
  /\ m_phy_data.prim
  /\ Comes({"R_RDY"}) => m_link_state = "RCV_CHKRDY"
  /\ ComingOrder({Prim("R_RDY")}, {Prim("SYNC"), Prim("R_OK"), Prim("R_ERR")})

\* Within a frame: the device receives it, and has its end only once it has
\* all of it.
SentInv ==
  /\ m_link_state \in Receiving
  /\ link_state = "WAIT" => Kind(m_phy_data) = "end"
  /\ Has({"end"}) => link_state = "WAIT"
  /\ Order({"end"}, {"sync", "sof", "crc"})
  /\ m_link_state \in Judging => link_state = "WAIT" /\ ~Has({"sync", "sof", "crc"})
  /\ Unsent => m_link_state = "RCV_CHKRDY" /\ ~Has({"sof", "crc", "end"})

\* The CRC on its way, and the one the device has matched, are of the words
\* the framer has taken.
SentCrc ==
  /\ \A w \in Pipe \cup {tx_word} :
        Kind(w) = "crc" => sent = Append(w.val[2], w.val) /\ Finished
  /\ m_crc_matched => m_crc = sent /\ Finished

\* The device's answers are to this frame.
Answers ==
  /\ ~Comes({"SYNC"})
  /\ Comes({"R_OK"}) => m_link_state = "GOODEND"
  /\ Comes({"R_ERR"}) => m_link_state = "BADEND"
  /\ ComingOrder({Prim("R_OK"), Prim("R_ERR")}, {Prim("R_RDY")})

SendingInv == SentInv /\ SentCrc /\ Answers

SuccessInv ==
  s_success => m_link_state = "GOODEND" /\ m_crc_matched /\ m_crc = sent /\ m_txphy # Prim("SYNC")

FrameInv ==
  /\ LinkedInv /\ FramerInv /\ CrcInv /\ SuccessInv
  /\ Sending => SendingInv
  /\ ~Sending => SilentInv

-----------------------------------------------------------------------------
(* A period of the device's clock                                           *)

\* What a primitive of the host on the device's wire says of the pipe.
LEMMA OnTheWire ==
  /\ m_txphy \in Pipe
  /\ \A A, B : Order(A, B) /\ A \cap B = {} /\ Kind(m_txphy) \in A => ~Has(B)
<1>1. m_txphy \in Pipe
  BY DEF Pipe
<1>2. ASSUME NEW A, NEW B, Order(A, B), A \cap B = {}, Kind(m_txphy) \in A
      PROVE  ~Has(B)
  BY <1>2 DEF Order, Has, Pipe
<1> QED BY <1>1, <1>2, Zenon

LEMMA RxEdgeSilent ==
  ASSUME BenchInv, UpInv, SilentInv, LinkLayer, Arrives(m_rxphy),
         UNCHANGED <<linkVars, alignVars, txVars>>
  PROVE  SilentInv'
<1>1. Pipe' = Pipe /\ m_txphy' = m_txphy
  BY DEF LinkLayer, linkVars, alignVars, Pipe
<1>2. (~Has({"sof", "crc"}))' /\ m_phy_data'.prim
  BY <1>1 DEF SilentInv, Has, linkVars
<1>3. Has({"end"})' => m_link_state' \in {"GOODEND", "BADEND"}
  <2>1. Has({"end"})' => Has({"end"})
    BY <1>1 DEF Has
  <2>2. Has({"end"}) => ~Hears("SYNC")
    BY OnTheWire, Kinds DEF SilentInv, Hears
  <2> QED BY <2>1, <2>2, DeviceReceives DEF SilentInv
<1>4. Order({"sync"}, {"end"})'
  BY <1>1 DEF SilentInv, Order, linkVars, alignVars
<1>5. ~Hears("SOF")
  BY OnTheWire, Kinds DEF SilentInv, Hears, Has
<1>6. m_link_state = "RCV_CHKRDY" => m_link_state' = "RCV_CHKRDY"
  BY <1>5, DeviceReceives
<1>7. \A w : Got(w).word = w /\ Got(w).valid
  BY DEF Got
<1>8. \A p, q : Prim(p) = Prim(q) => p = q
  BY DEF Prim
<1>9. \/ m_rxphy' = m_rxphy
      \/ /\ m_rxphy'.word = Prim("R_RDY") => m_link_state = "RCV_CHKRDY"
         /\ m_rxphy'.word = Prim("R_OK") => m_link_state = "GOODEND"
         /\ m_rxphy'.word = Prim("R_ERR") => m_link_state = "BADEND"
         /\ m_rxphy'.word = Prim("SYNC") => m_link_state = "IDLE"
  BY <1>7, DeviceSays
<1>10. m_rxphy.valid => m_rxphy.word \in Coming
  BY DEF Coming
<1>11. Comes({"R_RDY"})' => m_link_state' = "RCV_CHKRDY"
  <2>1. Prim("R_RDY") \in Coming' => m_link_state = "RCV_CHKRDY"
    BY ComingWords, <1>9, <1>10 DEF Comes, SilentInv
  <2> QED BY <1>6, <2>1 DEF Comes
<1>12. ComingOrder({Prim("R_RDY")}, {Prim("SYNC"), Prim("R_OK"), Prim("R_ERR")})'
  <2> DEFINE A == {Prim("R_RDY")}
             B == {Prim("SYNC"), Prim("R_OK"), Prim("R_ERR")}
  <2>1. A \cap B = {}
    BY <1>8
  <2>2. ComingOrder(A, B)
    BY DEF SilentInv
  <2>3. ASSUME Coming \cap A # {} PROVE m_rxphy' = m_rxphy \/ m_rxphy'.word \notin B
    <3>1. m_link_state = "RCV_CHKRDY"
      BY <2>3 DEF Comes, SilentInv
    <3> QED BY <1>9, <3>1
  <2> HIDE DEF A, B
  <2>4. ComingOrder(A, B)'
    BY <2>1, <2>2, <2>3, ComingOrdered
  <2> QED BY <2>4 DEF A, B
<1> QED BY <1>2, <1>3, <1>4, <1>11, <1>12 DEF SilentInv

LEMMA RxEdgeSending ==
  ASSUME BenchInv, UpInv, SendingInv, LinkLayer, Arrives(m_rxphy),
         UNCHANGED <<linkVars, alignVars, txVars, sent>>
  PROVE  SendingInv'
<1>1. Pipe' = Pipe /\ m_txphy' = m_txphy /\ (Sending' <=> Sending) /\ (Finished' <=> Finished)
  BY DEF LinkLayer, linkVars, alignVars, txVars, Pipe, Sending, Finished
<1>2. UNCHANGED <<link_state, m_phy_data, tx_word, sent>> /\ (Unsent' <=> Unsent)
  BY DEF linkVars, txVars, Unsent
<1>3. \A kinds : Has(kinds)' <=> Has(kinds)
  BY <1>1 DEF Has
<1>4. m_link_state \in Judging => ~Hears("SYNC")
  BY OnTheWire, Kinds DEF SentInv, SendingInv, Hears, Has
<1>5. Hears("EOF") \/ Hears("WTRM") => link_state = "WAIT" /\ ~Has({"sync", "sof", "crc"})
  <2>1. {"end"} \cap {"sync", "sof", "crc"} = {}
    OBVIOUS
  <2>2. ASSUME Kind(m_txphy) = "end"
        PROVE  link_state = "WAIT" /\ ~Has({"sync", "sof", "crc"})
    <3>1. Has({"end"}) /\ Kind(m_txphy) \in {"end"}
      BY <2>2, OnTheWire DEF Has
    <3> QED BY <2>1, <3>1, OnTheWire DEF SentInv, SendingInv
  <2> QED BY <2>2, Kinds DEF Hears
<1>6. SentInv'
  <2>1. m_link_state' \in Receiving
    BY <1>4, DeviceReceives DEF SentInv, SendingInv, Receiving, Judging
  <2>2. (link_state = "WAIT" => Kind(m_phy_data) = "end")' /\ (Has({"end"}) => link_state = "WAIT")'
    BY <1>2, <1>3 DEF SentInv, SendingInv
  <2>3. Order({"end"}, {"sync", "sof", "crc"})'
    BY <1>1 DEF SentInv, SendingInv, Order, linkVars, alignVars
  <2>4. m_link_state' \in Judging => link_state = "WAIT" /\ ~Has({"sync", "sof", "crc"})
    <3>1. m_link_state' \in Judging =>
            \/ m_link_state \in Judging
            \/ Hears("EOF") \/ Hears("WTRM")
      BY DeviceReceives DEF SentInv, SendingInv, Receiving, Judging
    <3> QED BY <1>5, <3>1 DEF SentInv, SendingInv
  <2>5. Unsent => m_link_state' = "RCV_CHKRDY" /\ ~Has({"sof", "crc", "end"})
    <3>1. Has({"sof"}) => Has({"sof", "crc", "end"})
      BY DEF Has
    <3>2. Hears("SOF") => Has({"sof"})
      BY OnTheWire, Kinds DEF Hears, Has
    <3> QED BY <3>1, <3>2, DeviceReceives DEF SentInv, SendingInv
  <2> QED BY <1>2, <1>3, <2>1, <2>2, <2>3, <2>4, <2>5 DEF SentInv
<1>7. SentCrc'
  <2>1. \A w \in Pipe \cup {tx_word} : Kind(w) = "crc" => sent = Append(w.val[2], w.val) /\ Finished
    BY DEF SentCrc, SendingInv
  <2>2. m_crc_matched' => m_crc' = sent /\ Finished
    <3>1. ASSUME ~m_txphy.prim, m_txphy.val = CrcValue(m_crc), m_crc' = Append(m_crc, m_txphy.val)
          PROVE  m_crc' = sent /\ Finished
      <4>1. m_txphy.val[1] = "CRC" /\ m_txphy.val[2] = m_crc
        BY <3>1 DEF CrcValue
      <4>2. Kind(m_txphy) = "crc"
        BY <3>1, <4>1, Kinds
      <4> QED BY <2>1, <3>1, <4>1, <4>2, OnTheWire
    <3>2. m_link_state # "SEND_DATA"
      BY DEF SentInv, SendingInv, Receiving
    <3> QED BY <3>1, <3>2, CrcMatched DEF SentCrc, SendingInv
  <2> QED BY <1>1, <1>2, <2>1, <2>2 DEF SentCrc
<1>8. \A w : Got(w).word = w /\ Got(w).valid
  BY DEF Got
<1>9. \A p, q : Prim(p) = Prim(q) => p = q
  BY DEF Prim
<1>10. \/ m_rxphy' = m_rxphy
       \/ /\ m_rxphy'.word = Prim("R_RDY") => m_link_state = "RCV_CHKRDY"
          /\ m_rxphy'.word = Prim("R_OK") => m_link_state = "GOODEND"
          /\ m_rxphy'.word = Prim("R_ERR") => m_link_state = "BADEND"
          /\ m_rxphy'.word = Prim("SYNC") => m_link_state = "IDLE"
  BY <1>8, DeviceSays
<1>11. m_rxphy.valid => m_rxphy.word \in Coming
  BY DEF Coming
<1>12. m_link_state \in {"GOODEND", "BADEND"} => m_link_state' = m_link_state
  BY <1>4, DeviceReceives DEF Judging
<1>13. Answers'
  <2>1. (~Comes({"SYNC"}))'
    BY ComingWords, <1>10, <1>11 DEF Comes, Answers, SentInv, SendingInv, Receiving
  <2>2. Comes({"R_OK"})' => m_link_state' = "GOODEND"
    BY ComingWords, <1>10, <1>11, <1>12 DEF Comes, Answers, SendingInv
  <2>3. Comes({"R_ERR"})' => m_link_state' = "BADEND"
    BY ComingWords, <1>10, <1>11, <1>12 DEF Comes, Answers, SendingInv
  <2>4. ComingOrder({Prim("R_OK"), Prim("R_ERR")}, {Prim("R_RDY")})'
    <3> DEFINE A == {Prim("R_OK"), Prim("R_ERR")}
               B == {Prim("R_RDY")}
    <3>1. A \cap B = {}
      BY <1>9
    <3>2. ComingOrder(A, B)
      BY DEF Answers, SendingInv
    <3>3. ASSUME Coming \cap A # {} PROVE m_rxphy' = m_rxphy \/ m_rxphy'.word \notin B
      <4>1. m_link_state \in {"GOODEND", "BADEND"}
        BY <3>3 DEF Comes, Answers, SendingInv
      <4> QED BY <1>10, <4>1
    <3> HIDE DEF A, B
    <3>4. ComingOrder(A, B)'
      BY <3>1, <3>2, <3>3, ComingOrdered
    <3> QED BY <3>4 DEF A, B
  <2> QED BY <2>1, <2>2, <2>3, <2>4 DEF Answers
<1> QED BY <1>6, <1>7, <1>13 DEF SendingInv

LEMMA RxEdgeCrc ==
  ASSUME CrcInv, SuccessInv, LinkLayer, UNCHANGED <<linkVars, alignVars, sent>>
  PROVE  CrcInv' /\ SuccessInv'
<1>1. m_crc_matched' => m_link_state' \in {"RCV_DATA", "RCVEOF", "GOODEND", "BADEND", "IDLE"}
  <2>1. m_crc_matched' =>
           m_link_state \in {"RCV_DATA", "RCVEOF", "GOODEND", "BADEND"} \/ UNCHANGED m_link_state
    BY CrcMatched DEF CrcInv
  <2>2. m_crc_matched' => m_crc_matched \/ m_link_state = "RCV_DATA"
    BY CrcMatched
  <2> QED BY <2>1, <2>2, DeviceReceives DEF CrcInv, Judging
<1>2. m_link_state' = "GOODEND" => m_crc_matched'
  <2>1. ASSUME m_link_state' = "GOODEND" PROVE m_crc_matched /\ UNCHANGED m_crc_matched
    <3>1. m_link_state \in {"RCVEOF", "GOODEND"}
      BY <2>1, DeviceReceives
    <3>2. UNCHANGED bufVars
      BY <3>1, DeviceReceives DEF Receiving
    <3> QED BY <2>1, <3>1, <3>2, DeviceReceives DEF CrcInv, bufVars
  <2> QED BY <2>1
<1>3. SuccessInv'
  <2>1. m_txphy' = m_txphy /\ s_success' = s_success /\ sent' = sent
    BY DEF LinkLayer, linkVars
  <2>2. m_link_state = "GOODEND" => UNCHANGED bufVars
    BY DeviceReceives DEF Receiving
  <2> QED BY <2>1, <2>2, DeviceReceives DEF SuccessInv, bufVars, Hears
<1> QED BY <1>1, <1>2, <1>3 DEF CrcInv, alignVars

LEMMA RxEdgeFrames ==
  ASSUME BenchInv, UpInv, FrameInv, RxEdge, Undisturbed'
  PROVE  FrameInv'
<1>1. /\ LinkLayer /\ Arrives(m_rxphy)
      /\ UNCHANGED <<txResetVars, linkVars, alignVars, txVars, sent, m_phy_ready, test>>
  BY DEF RxEdge, Departs, Undisturbed, oobVars, benchVars
<1>2. LinkedInv'
  BY <1>1 DEF FrameInv, LinkedInv, txResetVars, linkVars
<1>3. FramerInv'
  <2>1. UNCHANGED <<tx_queue, tx_state, tx_valid, tx_word, tx_last, link_state, r_ready, sent, test>>
    BY <1>1 DEF linkVars, txVars
  <2> QED BY <2>1 DEF FrameInv, FramerInv, FramerRegs, FramerLink, FramerQueue, MidFrame, Sending
<1>4. CrcInv' /\ SuccessInv'
  BY <1>1, RxEdgeCrc DEF FrameInv
<1>5. Sending' <=> Sending
  BY <1>1 DEF Sending, linkVars
<1>6. Sending => SendingInv'
  BY <1>1, RxEdgeSending DEF FrameInv
<1>7. ~Sending => SilentInv'
  BY <1>1, RxEdgeSilent DEF FrameInv
<1> QED BY <1>2, <1>3, <1>4, <1>5, <1>6, <1>7 DEF FrameInv

-----------------------------------------------------------------------------
(* A period of the host's clock: the framer and the link's state machine    *)

\* What the state machine does while the physical layer is up, as far as a
\* frame to the device can tell.
LinkMoves ==
  /\ r_ready' <=> link_state' = "SENDDATA"
  /\ s_success' => link_state = "WAIT" /\ link_state' = "IDLE" /\ Is(ReceivedWord, "R_OK")
  /\ link_state' = "SENDCHKRDY" => link_state \in {"IDLE", "SENDCHKRDY"}
  /\ link_state = "IDLE" /\ link_state' = "SENDCHKRDY" => tx_valid
  /\ ~Sending =>
       /\ \/ m_phy_data' = m_phy_data
          \/ \E p \in {"ALIGN", "SYNC", "X_RDY", "R_RDY", "R_IP", "R_OK", "R_ERR", "HOLD", "HOLDA",
                       "PMNAK"} : m_phy_data' = Prim(p)
       /\ Sending' => /\ link_state = "SENDCHKRDY" /\ link_state' = "SENDDATA"
                      /\ Is(ReceivedWord, "R_RDY")
  /\ link_state = "SENDDATA" =>
       IF LinkReady
       THEN /\ m_phy_data' = tx_word
            /\ \/ Is(ReceivedWord, "SYNC")
               \/ tx_last /\ link_state' = "WAIT"
               \/ ~tx_last /\ link_state' \in {"SENDDATA", "RCVRHOLD"}
       ELSE m_phy_data' = m_phy_data /\ link_state' = "SENDDATA"
  /\ link_state = "RCVRHOLD" =>
       /\ m_phy_data' \in {m_phy_data, Prim("HOLDA")}
       /\ Is(ReceivedWord, "SYNC") \/ link_state' \in {"RCVRHOLD", "SENDDATA"}
  /\ link_state = "WAIT" =>
       \/ link_state' = "WAIT" /\ m_phy_data' \in {m_phy_data, Prim("WTRM")}
       \/ /\ link_state' = "IDLE" /\ m_phy_data' = Prim("WTRM")
          /\ Is(ReceivedWord, "SYNC") \/ Is(ReceivedWord, "R_OK") \/ Is(ReceivedWord, "R_ERR")

LEMMA LinkStepMoves ==
  ASSUME LinkTypeOK, LinkStep(LinkInput), ~Lost(LinkInput)
  PROVE  LinkMoves
<1> DEFINE in == LinkInput
<1>1. /\ in.rx = ReceivedWord /\ in.s_valid = tx_valid /\ in.s_data = tx_word /\ in.s_last = tx_last
      /\ in.m_phy_ready = LinkReady
  BY DEF LinkInput
<1> HIDE DEF in
<1>2. LinkStep(in) /\ ~Lost(in)
  BY DEF in
<1>3. CASE Reset(in) \/ NoCommErr(in) \/ NoComm(in) \/ SendAlign(in)
  BY <1>1, <1>2, <1>3 DEF Reset, NoCommErr, NoComm, SendAlign, Goto, Emit, NotSending, NoAnswer,
     Answered, LinkMoves, Sending
<1>4. CASE Idle(in)
  BY <1>1, <1>2, <1>4 DEF Idle, IdleNext, Goto, Emit, NotSending, NoAnswer, Answered, LinkMoves, Sending
<1>5. CASE SendChkRdy(in)
  BY <1>1, <1>2, <1>5 DEF SendChkRdy, ChkRdyNext, Goto, Emit, NoAnswer, Answered, LinkMoves, Sending
<1>6. CASE SendData(in)
  <2> DEFINE next == CASE Is(in.rx, "SYNC") -> "IDLE"
                       [] in.s_last /\ ~Is(in.rx, "SYNC") -> "WAIT"
                       [] Is(in.rx, "HOLD") /\ ~in.s_last -> "RCVRHOLD"
                       [] OTHER -> "SENDDATA"
  <2>1. \/ Is(in.rx, "SYNC") /\ next = "IDLE"
        \/ tx_last /\ next = "WAIT"
        \/ ~tx_last /\ next \in {"SENDDATA", "RCVRHOLD"}
    <3>1. Is(in.rx, "HOLD") => ~Is(in.rx, "SYNC")
      BY DEF Is, Prim
    <3> QED BY <1>1, <3>1
  <2>2. /\ link_state = "SENDDATA" /\ Goto(in, IF in.m_phy_ready THEN next ELSE "SENDDATA")
        /\ r_ready' = (in.m_phy_ready => next = "SENDDATA") /\ Emit(in, in.s_data)
        /\ Answered(FALSE, in.m_phy_ready /\ next = "IDLE")
    BY <1>6, Zenon DEF SendData
  <2> HIDE DEF next
  <2>3. r_ready' <=> (LinkReady => next = "SENDDATA")
    BY <1>1, <2>2, Zenon
  <2>4. /\ link_state' = (IF LinkReady THEN next ELSE "SENDDATA")
        /\ m_phy_data' = (IF LinkReady THEN tx_word ELSE m_phy_data)
        /\ ~s_success'
    BY <1>1, <1>2, <2>2 DEF Goto, Emit, Answered
  <2> QED BY <1>1, <2>1, <2>2, <2>3, <2>4 DEF LinkMoves, Sending
<1>7. CASE RcvRHold(in)
  BY <1>1, <1>2, <1>7 DEF RcvRHold, Goto, Emit, Answered, LinkMoves, Sending
<1>8. CASE Wait(in)
  BY <1>1, <1>2, <1>8 DEF Wait, FrameAccepted, FrameRefused, Goto, Emit, NotSending, Answered, LinkMoves, Sending
<1>9. CASE \/ RcvWaitFifo(in) \/ RcvChkRdy(in) \/ RcvData(in) \/ Hold(in) \/ RcvHold(in)
           \/ RcvEof(in) \/ GoodEnd(in) \/ BadEnd(in) \/ PmDeny(in)
  <2>1. PICK from \in LinkStates \ {"SENDDATA", "RCVRHOLD", "WAIT", "IDLE", "SENDCHKRDY"},
             next \in LinkStates \ {"SENDDATA", "RCVRHOLD", "WAIT", "SENDCHKRDY"},
             p \in {"SYNC", "R_RDY", "R_IP", "HOLD", "HOLDA", "R_OK", "R_ERR", "PMNAK"} :
               Receives(in, from, next, Prim(p))
    <3>1. CASE RcvWaitFifo(in) \/ RcvChkRdy(in)
      BY <3>1 DEF RcvWaitFifo, RcvChkRdy, RcvChkRdyNext, LinkStates
    <3>2. CASE RcvData(in) \/ Hold(in)
      BY <3>2 DEF RcvData, Hold, LinkStates
    <3>3. CASE RcvHold(in) \/ RcvEof(in)
      BY <3>3 DEF RcvHold, RcvEof, RcvVerdict, LinkStates
    <3>4. CASE GoodEnd(in) \/ BadEnd(in) \/ PmDeny(in)
      BY <3>4 DEF GoodEnd, BadEnd, PmDeny, LinkStates
    <3> QED BY <1>9, <3>1, <3>2, <3>3, <3>4
  <2> QED BY <1>1, <1>2, <2>1 DEF Receives, Goto, Emit, NotSending, NoAnswer, Answered, LinkMoves, Sending
<1> QED BY <1>2, <1>3, <1>4, <1>5, <1>6, <1>7, <1>8, <1>9 DEF LinkStep

\* The queue's first word is data, and the last of its packet is the CRC.
LEMMA QueueHead ==
  ASSUME NEW q, NEW s, NEW mid, QueueOK(q, s, mid), q # << >>
  PROVE  /\ Kind(Head(q).word) = (IF Head(q).last THEN "crc" ELSE "other")
         /\ Head(q).word # Prim("SOF")
<1>1. PICK S : q \in Seq(S)
  BY DEF QueueOK
<1>2. Head(q) = q[1] /\ 1 \in 1 .. Len(q)
  BY <1>1
<1>3. ~q[1].word.prim
  BY <1>2 DEF QueueOK
<1>4. CASE q[1].last
  <2>1. q[1].word.val[1] = "CRC"
    BY <1>2, <1>4 DEF QueueOK, FrameEnds, CrcValue
  <2> QED BY <1>2, <1>3, <1>4, <2>1, Kinds DEF Prim
<1>5. CASE ~q[1].last
  <2>1. q[1].word.val[1] # "CRC"
    BY <1>2, <1>5, PlainNotCrc DEF QueueOK
  <2>2. \A p : Prim(p).prim
    BY DEF Prim
  <2> QED BY <1>2, <1>3, <1>5, <2>1, <2>2 DEF Kind
<1> QED BY <1>4, <1>5

\* What the framer does with a ready, or without; takes, whether it takes a
\* word of the packet.
FramerMoves(ready, takes) ==
  \/ /\ ~ready /\ ~takes /\ tx_valid
     /\ UNCHANGED <<tx_state, tx_valid, tx_word, tx_last>>
  \/ /\ tx_state = "IDLE" /\ (~tx_valid \/ ready) /\ ~takes
     /\ tx_word' = Prim("SOF") /\ ~tx_last'
     /\ \/ tx_valid' /\ tx_state' = "DATA" /\ tx_queue # << >>
        \/ ~tx_valid' /\ tx_state' = "IDLE"
  \/ /\ tx_state = "DATA" /\ ready /\ takes /\ tx_queue # << >>
     /\ tx_word' = Head(tx_queue).word
     /\ tx_state' = (IF Head(tx_queue).last THEN "EOF" ELSE "DATA")
     /\ tx_valid' /\ ~tx_last'
  \/ /\ tx_state = "DATA" /\ ready /\ ~takes
     /\ tx_word' = Prim("HOLD") /\ tx_state' = "DATA" /\ tx_valid' /\ ~tx_last'
  \/ /\ tx_state = "EOF" /\ ready /\ ~takes
     /\ tx_word' = Prim("EOF") /\ tx_state' = "IDLE" /\ tx_valid' /\ tx_last'

LEMMA TxStepMoves ==
  ASSUME FramerRegs, NEW ready, NEW arrives, NEW more, TxStep(ready, arrives, more)
  PROVE  /\ FramerMoves(ready, Takes(ready, arrives))
         /\ tx_queue' = (IF Takes(ready, arrives) THEN Tail(tx_queue) ELSE tx_queue) \o more
<1> DEFINE avail == arrives /\ tx_queue # << >>
           takes == Takes(ready, arrives)
<1>1. tx_queue' = (IF takes THEN Tail(tx_queue) ELSE tx_queue) \o more
  BY DEF TxStep
<1>2. takes <=> tx_state = "DATA" /\ (~tx_valid \/ ready) /\ avail
  BY Zenon DEF Takes, TxFree
<1>6. TxStep(ready, arrives, more) => tx_state \in {"IDLE", "DATA", "EOF"}
  BY DEF TxStep
<1> SUFFICES FramerMoves(ready, takes)
  BY <1>1
<1>7. tx_state = "DATA" =>
        /\ tx_valid' = TRUE /\ tx_last' = tx_last
        /\ tx_word' = (IF ~TxFree(ready) THEN tx_word
                       ELSE IF avail THEN Head(tx_queue).word ELSE TxGap)
        /\ tx_state' = IF takes /\ Head(tx_queue).last THEN "EOF" ELSE "DATA"
  BY DEF TxStep
<1> HIDE DEF takes
<1>3. CASE tx_state = "IDLE"
  <2>1. CASE TxFree(ready)
    <3>1. /\ tx_word' = Prim("SOF") /\ ~tx_last'
          /\ tx_valid' <=> avail
          /\ tx_state' = (IF avail THEN "DATA" ELSE "IDLE")
      BY <1>3, <2>1, Zenon DEF TxStep
    <3> QED BY <1>2, <1>3, <2>1, <3>1 DEF FramerMoves, TxFree
  <2>2. CASE ~TxFree(ready)
    <3>1. UNCHANGED <<tx_state, tx_valid, tx_word, tx_last>>
      BY <1>3, <2>2, Zenon DEF TxStep
    <3> QED BY <1>2, <1>3, <2>2, <3>1 DEF FramerMoves, TxFree
  <2> QED BY <2>1, <2>2
<1>4. CASE tx_state = "DATA"
  <2>1. tx_valid /\ ~tx_last
    BY <1>4 DEF FramerRegs
  <2>2. /\ tx_valid' = TRUE /\ tx_last' = tx_last
        /\ tx_word' = (IF ~TxFree(ready) THEN tx_word
                       ELSE IF avail THEN Head(tx_queue).word ELSE TxGap)
        /\ tx_state' = IF takes /\ Head(tx_queue).last THEN "EOF" ELSE "DATA"
    BY <1>4, <1>7
  <2>4. CASE ~ready
    <3>1. ~takes /\ tx_word' = tx_word
      BY <1>2, <2>1, <2>2, <2>4 DEF TxFree
    <3> QED BY <1>4, <2>1, <2>2, <2>4, <3>1 DEF FramerMoves
  <2>5. CASE ready /\ avail
    <3>1. takes /\ tx_word' = Head(tx_queue).word
      BY <1>2, <1>4, <2>2, <2>5 DEF TxFree
    <3> QED BY <1>4, <2>1, <2>2, <2>5, <3>1 DEF FramerMoves
  <2>6. CASE ready /\ ~avail
    <3>1. ~takes /\ tx_word' = Prim("HOLD")
      BY <1>2, <2>2, <2>6 DEF TxFree, TxGap
    <3> QED BY <1>4, <2>1, <2>2, <2>6, <3>1 DEF FramerMoves
  <2> QED BY <2>4, <2>5, <2>6
<1>5. CASE tx_state = "EOF"
  <2>1. tx_valid /\ ~takes
    BY <1>2, <1>5 DEF FramerRegs
  <2>2. CASE ready
    <3>1. tx_state' = "IDLE" /\ tx_valid' = TRUE /\ tx_word' = Prim("EOF") /\ tx_last' = TRUE
      BY <1>5, <2>2, Zenon DEF TxStep
    <3> QED BY <1>5, <2>1, <2>2, <3>1 DEF FramerMoves
  <2>3. CASE ~ready
    <3>1. UNCHANGED <<tx_state, tx_valid, tx_word, tx_last>>
      BY <1>5, <2>3, Zenon DEF TxStep
    <3> QED BY <1>5, <2>1, <2>3, <3>1 DEF FramerMoves
  <2> QED BY <2>2, <2>3
<1> QED BY <1>3, <1>4, <1>5, <1>6

LEMMA FramerKeepsStep ==
  ASSUME FramerRegs, FramerLink, FramerQueue, NEW ready, NEW takes, ready <=> r_ready /\ LinkReady,
         FramerMoves(ready, takes), LinkMoves, Sending => ~Is(ReceivedWord, "SYNC"),
         tx_state \in {"IDLE", "DATA", "EOF"}
  PROVE  FramerRegs' /\ FramerLink'
<1> USE DEF Sending
<1>1. /\ Prim("SOF") # Prim("EOF") /\ Prim("SOF") # Prim("HOLD")
      /\ Kind(Prim("EOF")) # "crc" /\ Kind(Prim("HOLD")) = "other" /\ Kind(Prim("SOF")) # "crc"
  <2>1. Prim("SOF") # Prim("EOF") /\ Prim("SOF") # Prim("HOLD")
    BY DEF Prim
  <2> QED BY <2>1, Kinds
<1>2. CASE /\ ~ready /\ ~takes /\ tx_valid
           /\ UNCHANGED <<tx_state, tx_valid, tx_word, tx_last>>
  <2>1. FramerRegs'
    BY <1>2 DEF FramerRegs, MidFrame
  <2>2. FramerLink'
    BY <1>1, <1>2 DEF FramerRegs, FramerLink, LinkMoves
  <2> QED BY <2>1, <2>2
<1>3. CASE /\ tx_state = "IDLE" /\ (~tx_valid \/ ready) /\ ~takes
           /\ tx_word' = Prim("SOF") /\ ~tx_last'
           /\ \/ tx_valid' /\ tx_state' = "DATA" /\ tx_queue # << >>
              \/ ~tx_valid' /\ tx_state' = "IDLE"
  <2>1. FramerRegs'
    BY <1>1, <1>3 DEF FramerRegs, MidFrame
  <2>2. FramerLink'
    BY <1>1, <1>3 DEF FramerRegs, FramerLink, LinkMoves
  <2> QED BY <2>1, <2>2
<1>4. CASE /\ tx_state = "DATA" /\ ready /\ takes /\ tx_queue # << >>
           /\ tx_word' = Head(tx_queue).word
           /\ tx_state' = (IF Head(tx_queue).last THEN "EOF" ELSE "DATA")
           /\ tx_valid' /\ ~tx_last'
  <2>1. /\ Kind(tx_word') = (IF Head(tx_queue).last THEN "crc" ELSE "other")
        /\ tx_word' # Prim("SOF")
    BY <1>4, QueueHead DEF FramerQueue
  <2>2. FramerRegs'
    BY <1>4, <2>1 DEF FramerRegs, MidFrame
  <2>3. FramerLink'
    BY <1>4, <2>1 DEF FramerRegs, FramerLink, LinkMoves
  <2> QED BY <2>2, <2>3
<1>5. CASE /\ tx_state = "DATA" /\ ready /\ ~takes
           /\ tx_word' = Prim("HOLD") /\ tx_state' = "DATA" /\ tx_valid' /\ ~tx_last'
  <2>1. FramerRegs'
    BY <1>1, <1>5 DEF FramerRegs, MidFrame
  <2>2. FramerLink'
    BY <1>1, <1>5 DEF FramerRegs, FramerLink, LinkMoves
  <2> QED BY <2>1, <2>2
<1>6. CASE /\ tx_state = "EOF" /\ ready /\ ~takes
           /\ tx_word' = Prim("EOF") /\ tx_state' = "IDLE" /\ tx_valid' /\ tx_last'
  <2>1. FramerRegs'
    BY <1>1, <1>6 DEF FramerRegs, MidFrame
  <2>2. FramerLink'
    BY <1>1, <1>6 DEF FramerRegs, FramerLink, LinkMoves
  <2> QED BY <2>1, <2>2
<1> QED BY <1>2, <1>3, <1>4, <1>5, <1>6 DEF FramerMoves

\* A word taken goes to what was taken of its frame, or starts it.
\* What a step adds to the packets, and to the words taken of the frame.
Queued(more) == more = << >> \/ \E vals \in Seq(Plain) : vals # << >> /\ more = Packet(vals)
Sent(ready, takes) ==
  LET taken == IF takes THEN << Head(tx_queue).word.val >> ELSE << >>
  IN  sent' = IF ready /\ tx_word = Prim("SOF") THEN taken ELSE sent \o taken

LEMMA FramerTakes ==
  ASSUME FramerQueue, tx_state = "DATA",
         LET v == Head(tx_queue).word.val
         IN  sent' = IF tx_word = Prim("SOF") THEN << v >> ELSE sent \o << v >>
  PROVE  \E s : QueueOK(tx_queue, s, TRUE) /\ sent' = Append(s, Head(tx_queue).word.val)
<1> DEFINE v == Head(tx_queue).word.val
<1>1. CASE tx_word = Prim("SOF")
  <2>1. QueueOK(tx_queue, sent, FALSE)
    <3>1. MidFrame = FALSE
      BY <1>1 DEF MidFrame
    <3> QED BY <3>1 DEF FramerQueue
  <2>2. \A u : << u >> = Append(<< >>, u)
    OBVIOUS
  <2>3. sent' = Append(<< >>, v)
    BY <1>1, <2>2, Zenon
  <2> QED BY <2>1, <2>3, QueueOpens
<1>2. CASE tx_word # Prim("SOF")
  <2>1. QueueOK(tx_queue, sent, TRUE)
    <3>1. MidFrame = TRUE
      BY <1>2 DEF MidFrame
    <3> QED BY <3>1 DEF FramerQueue
  <2>2. sent' = sent \o << v >>
    BY <1>2
  <2>3. sent \o << v >> = Append(sent, v)
    BY DEF FramerQueue
  <2> QED BY <2>1, <2>2, <2>3
<1> QED BY <1>1, <1>2

\* The queue: what is taken leaves the front, what is added goes to the end.
LEMMA FramerQueueStep ==
  ASSUME FramerRegs, FramerQueue, NEW ready, NEW takes, FramerMoves(ready, takes), NEW more,
         tx_queue' = (IF takes THEN Tail(tx_queue) ELSE tx_queue) \o more,
         Queued(more), Sent(ready, takes)
  PROVE  FramerQueue'
<1> DEFINE base == IF takes THEN Tail(tx_queue) ELSE tx_queue
           mid == MidFrame'
           SOF == Prim("SOF")
<1>1. SOF # Prim("HOLD") /\ SOF # Prim("EOF")
  BY DEF Prim
<1>5. PICK R : sent \in Seq(R)
  BY DEF FramerQueue
<1>6. \E T : sent' \in Seq(T)
  <2> DEFINE v == Head(tx_queue).word.val
  <2>1. sent' \in {<< >>, sent, << v >>, sent \o << v >>, sent \o << >>}
    BY DEF Sent
  <2> HIDE DEF v
  <2>2. sent \in Seq(R \cup {v}) /\ << v >> \in Seq(R \cup {v}) /\ << >> \in Seq(R \cup {v})
    BY <1>5
  <2>3. /\ sent \o << v >> \in Seq(R \cup {v}) /\ sent \o << >> \in Seq(R \cup {v})
    BY <2>2, ConcatProperties
  <2> QED BY <2>1, <2>2, <2>3
<1>2. QueueOK(base, sent', mid) /\ (tx_state' = "DATA" => base # << >>)
  <2>1. CASE takes
    <3>1. /\ tx_state = "DATA" /\ ready /\ tx_queue # << >>
          /\ tx_word' = Head(tx_queue).word /\ base = Tail(tx_queue)
          /\ tx_state' = (IF Head(tx_queue).last THEN "EOF" ELSE "DATA")
      BY <2>1 DEF FramerMoves
    <3>2. mid <=> ~Head(tx_queue).last
      BY <3>1, QueueHead DEF FramerQueue, MidFrame
    <3>3. \E s : QueueOK(tx_queue, s, TRUE) /\ sent' = Append(s, Head(tx_queue).word.val)
      <4>1. sent' = IF tx_word = SOF THEN << Head(tx_queue).word.val >>
                    ELSE sent \o << Head(tx_queue).word.val >>
        BY <2>1, <3>1 DEF Sent
      <4> QED BY <3>1, <4>1, FramerTakes
    <3>4. /\ ~Head(tx_queue).last => QueueOK(base, sent', TRUE) /\ base # << >>
          /\ Head(tx_queue).last => QueueOK(base, sent', FALSE)
      BY <3>1, <3>3, QueueTakes
    <3>5. mid \in BOOLEAN
      BY DEF MidFrame
    <3> QED BY <3>1, <3>2, <3>4, <3>5
  <2>2. CASE ~takes
    <3>1. base = tx_queue
      BY <2>2
    <3>2. tx_state' = "DATA" => tx_queue # << >>
      BY <2>2 DEF FramerMoves, FramerQueue
    <3>3. sent' = IF ready /\ tx_word = SOF THEN << >> ELSE sent
      <4>1. sent \o << >> = sent
        BY <1>5
      <4> QED BY <2>2, <4>1 DEF Sent
    <3>4. CASE MidFrame
      <4>1. mid /\ sent' = sent
        BY <1>1, <2>2, <3>3, <3>4 DEF FramerMoves, MidFrame
      <4>2. mid = TRUE /\ MidFrame = TRUE
        BY <3>4, <4>1 DEF MidFrame
      <4> QED BY <3>1, <3>2, <4>1, <4>2 DEF FramerQueue
    <3>5. CASE ~MidFrame
      <4>1. MidFrame = FALSE
        BY <3>5 DEF MidFrame
      <4>2. QueueOK(tx_queue, sent, FALSE)
        BY <4>1 DEF FramerQueue
      <4>3. mid => sent' = << >>
        BY <1>1, <2>2, <3>3, <3>5 DEF FramerMoves, MidFrame
      <4>4. mid = TRUE \/ mid = FALSE
        BY DEF MidFrame
      <4>5. QueueOK(tx_queue, << >>, TRUE) /\ QueueOK(tx_queue, sent', FALSE)
        BY <4>2, QueueOpens
      <4> QED BY <3>1, <3>2, <4>3, <4>4, <4>5
    <3> QED BY <3>4, <3>5
  <2> QED BY <2>1, <2>2
<1> HIDE DEF base
<1>3. CASE more = << >>
  <2>1. \E S : base \in Seq(S)
    BY <1>2 DEF QueueOK
  <2>2. base \o << >> = base
    BY <2>1
  <2> QED BY <1>2, <1>3, <1>6, <2>2 DEF FramerQueue, base
<1>4. ASSUME NEW vals \in Seq(Plain), vals # << >>, more = Packet(vals)
      PROVE  FramerQueue'
  <2>1. mid => base # << >>
    BY <1>2 DEF MidFrame
  <2>2. QueueOK(base \o more, sent', mid) /\ base \o more # << >>
    BY <1>2, <1>4, <2>1, QueueGrows
  <2> QED BY <1>6, <2>2 DEF FramerQueue, base
<1> QED BY <1>3, <1>4 DEF Queued

\* Within a frame, what the framer has finished it leaves alone, and it
\* finishes with the CRC of what it has taken.
LEMMA FramerSends ==
  ASSUME FramerRegs, FramerLink, FramerQueue, NEW ready, NEW takes, ready <=> r_ready /\ LinkReady,
         FramerMoves(ready, takes), LinkMoves, Sending, ~Is(ReceivedWord, "SYNC"),
         tx_state \in {"IDLE", "DATA", "EOF"},
         Sent(ready, takes)
  PROVE  /\ Finished => sent' = sent /\ (Finished' \/ ~Sending')
         /\ Unsent' /\ Sending' => Unsent /\ m_phy_data' = m_phy_data
         /\ Kind(tx_word') = "crc" =>
              \/ tx_word' = tx_word
              \/ sent' = Append(tx_word'.val[2], tx_word'.val) /\ Finished'
<1> DEFINE SOF == Prim("SOF")
<1>1. /\ SOF # Prim("HOLD") /\ SOF # Prim("EOF")
      /\ Kind(Prim("EOF")) # "crc" /\ Kind(Prim("HOLD")) # "crc" /\ Kind(SOF) # "crc"
  <2>1. SOF # Prim("HOLD") /\ SOF # Prim("EOF")
    BY DEF Prim
  <2> QED BY <2>1, Kinds
<1>2. ~takes => sent' = IF ready /\ tx_word = SOF THEN << >> ELSE sent
  <2>1. sent \o << >> = sent
    BY DEF FramerQueue
  <2> QED BY <2>1 DEF Sent
<1>3. ASSUME Finished PROVE sent' = sent /\ (Finished' \/ ~Sending')
  <2>1. link_state = "WAIT" => link_state' \in {"WAIT", "IDLE"} /\ ~ready
    BY DEF LinkMoves, FramerLink
  <2>2. link_state = "WAIT" => ~takes
    BY <2>1 DEF FramerMoves
  <2>3. tx_state # "DATA" => ~takes
    BY DEF FramerMoves
  <2>4. link_state # "WAIT" /\ tx_state # "DATA" => ~(ready /\ tx_word = SOF)
    BY <1>1 DEF FramerRegs, FramerLink
  <2>5. sent' = sent
    BY <1>2, <1>3, <2>1, <2>2, <2>3, <2>4 DEF Finished
  <2>6. link_state # "WAIT" /\ tx_state # "DATA" => tx_state' # "DATA" \/ link_state' = "WAIT"
    BY <1>1 DEF FramerMoves, FramerRegs, FramerLink, LinkMoves, Sending
  <2> QED BY <1>3, <2>1, <2>5, <2>6 DEF Finished, Sending
<1>4. ASSUME Unsent', Sending' PROVE Unsent /\ m_phy_data' = m_phy_data
  <2>1. tx_word' = SOF /\ link_state' # "WAIT"
    BY <1>4 DEF Unsent
  <2>2. takes => tx_word' # SOF
    BY QueueHead DEF FramerMoves, FramerQueue
  <2>3. CASE link_state = "WAIT"
    BY <1>4, <2>3, <2>1 DEF LinkMoves, Sending
  <2>4. CASE link_state # "WAIT" /\ ~ready
    BY <1>1, <2>1, <2>2, <2>4 DEF FramerMoves, FramerRegs, FramerLink, LinkMoves, Sending, Unsent
  <2>5. CASE link_state # "WAIT" /\ ready
    BY <1>1, <2>1, <2>2, <2>5 DEF FramerMoves, FramerRegs, FramerLink, LinkMoves, Sending
  <2> QED BY <2>3, <2>4, <2>5
<1>5. ASSUME Kind(tx_word') = "crc", tx_word' # tx_word
      PROVE  sent' = Append(tx_word'.val[2], tx_word'.val) /\ Finished'
  <2>1. takes /\ tx_queue # << >> /\ ready /\ tx_word' = Head(tx_queue).word /\ tx_state = "DATA"
    BY <1>1, <1>5 DEF FramerMoves
  <2>2. Head(tx_queue).last /\ tx_state' = "EOF"
    <3>1. Head(tx_queue).last
      BY <1>5, <2>1, QueueHead DEF FramerQueue
    <3> QED BY <2>1, <3>1 DEF FramerMoves
  <2>3. \E s : QueueOK(tx_queue, s, TRUE) /\ sent' = Append(s, Head(tx_queue).word.val)
    <3>1. sent' = IF tx_word = SOF THEN << Head(tx_queue).word.val >>
                  ELSE sent \o << Head(tx_queue).word.val >>
      BY <2>1 DEF Sent
    <3> QED BY <2>1, <3>1, FramerTakes
  <2>4. sent' = Append(Head(tx_queue).word.val[2], Head(tx_queue).word.val)
    BY <2>1, <2>2, <2>3, QueueTakes
  <2> QED BY <2>1, <2>2, <2>4 DEF Finished
<1> QED BY <1>3, <1>4, <1>5

\* The words go one stage on, and nothing but the link's words comes of it.
LEMMA TxEdgePath ==
  ASSUME BenchInv, StaysUp, LinkedInv, "idle" \notin faults, TxEdge
  PROVE  /\ LinkedInv'
         /\ \/ HostInReset /\ Kind(m_txphy') = "other"
            \/ \E arrives, stalled : HostEdge(arrives, stalled) /\ PipeStep /\ ~Lost(LinkInput)
<1>1. \E word : word \in {phy_reg', Damaged} /\ SimTxTick(word)
  BY Zenon DEF TxEdge
<1>2. m_txphy' \in {phy_reg', Damaged} /\ m_phy_ready'
  BY <1>1 DEF SimTxTick, ProcessTxSignals, OobSignals
<1>3. Kind(Damaged) = "other"
  BY Kinds
<1>4. CASE HostInReset
  <2>1. ~o_link_up
    <3>1. o_link_up => fsm_state # "RESET"
      BY DEF LinkedInv
    <3>2. fsm_state # "RESET" => m_phy_ready
      BY DEF StaysUp, IdleSeen
    <3> QED BY <1>4, <3>1, <3>2 DEF HostInReset
  <2>2. Kind(phy_reg') = "other"
    BY <1>4, <2>1 DEF HostInReset, txResetVars, LinkedInv
  <2>3. LinkedInv'
    BY <1>2, <1>4 DEF LinkedInv, HostInReset, txResetVars, linkVars
  <2> QED BY <1>2, <1>3, <1>4, <2>2, <2>3
<1>5. ASSUME NEW arrives, NEW stalled, HostEdge(arrives, stalled)
      PROVE  LinkedInv' /\ PipeStep /\ ~Lost(LinkInput)
  <2>1. ResetStep(m_phy_ready, m_txphy_comfinish, al_out) /\ LinkStep(LinkInput) /\ AlignStep(m_phy_data)
    BY <1>5 DEF HostEdge
  <2>2. ~Lost(LinkInput)
    BY DEF Lost, LinkInput, LinkedInv
  <2>3. o_link_up' <=> fsm_state = "READY"
    BY <2>1, Zenon DEF ResetStep
  <2>4. phy_reg' = CASE fsm_state = "READY" -> IF o_link_up THEN al_out ELSE phy_reg
                     [] fsm_state = "AWAIT_ALIGN" -> Scramble(<<"D10.2">>, 0)
                     [] OTHER -> Prim("ALIGN")
    BY <2>1, Zenon DEF ResetStep
  <2>5. /\ fsm_state = "READY" /\ o_link_up => phy_reg' = al_out
        /\ fsm_state = "READY" /\ ~o_link_up => Kind(phy_reg') = "other"
        /\ fsm_state # "READY" => Kind(phy_reg') = "other"
    BY <2>4, Kinds DEF LinkedInv
  <2>6. PipeStep
    <3>1. AlignMoves
      BY <2>1, AlignStepMoves DEF BenchInv, HostInv
    <3>2. m_txphy' = al_out \/ Kind(m_txphy') = "other"
      BY <1>2, <1>3, <2>5
    <3> QED BY <3>1, <3>2 DEF PipeStep
  <2>7. fsm_state = "READY" => fsm_state' = "READY"
    <3>1. fsm_state = "READY" => ~ck("elecidle") /\ ~ck("cominit")
      BY DEF StaysUp, IdleSeen, InitSeen, PastInit, Gone, ck
    <3>2. \E fin : fsm_state' = NextState(fin)
      BY <2>1, Zenon DEF ResetStep
    <3> QED BY <3>1, <3>2 DEF NextState
  <2>8. link_state' \notin {"RESET", "NOCOMMERR", "NOCOMM"} => o_link_up
    <3>1. link_state \in {"RESET", "NOCOMMERR"} => link_state' \in {"RESET", "NOCOMMERR", "NOCOMM"}
      BY <2>1, <2>2 DEF LinkStep, Reset, NoCommErr, NoComm, SendAlign, Idle, SendChkRdy, SendData,
         RcvRHold, Wait, RcvWaitFifo, RcvChkRdy, RcvData, Hold, RcvHold, RcvEof, GoodEnd, BadEnd,
         PmDeny, Receives, Goto
    <3>2. link_state = "NOCOMM" => link_state' = "NOCOMM" \/ o_link_up
      BY <2>1, <2>2 DEF LinkStep, Reset, NoCommErr, NoComm, SendAlign, Idle, SendChkRdy, SendData,
         RcvRHold, Wait, RcvWaitFifo, RcvChkRdy, RcvData, Hold, RcvHold, RcvEof, GoodEnd, BadEnd,
         PmDeny, Receives, Goto, LinkInput
    <3> QED BY <3>1, <3>2 DEF LinkedInv
  <2>9. LinkedInv'
    BY <1>2, <2>3, <2>5, <2>7, <2>8 DEF LinkedInv
  <2> QED BY <2>2, <2>6, <2>9
<1> QED BY <1>4, <1>5, Zenon DEF TxEdge

\* What a word on the wire was keeps the order of the others.
LEMMA PipeRests ==
  ASSUME UNCHANGED <<alignVars, m_phy_data>>, Kind(m_txphy') = "other"
  PROVE  /\ \A kinds : "other" \notin kinds /\ Has(kinds)' => Has(kinds)
         /\ \A A, B : "other" \notin A /\ Order(A, B) => Order(A, B)'
<1>1. \A w \in Pipe' : w \in Pipe \/ Kind(w) = "other"
  BY DEF Pipe, alignVars
<1>2. UNCHANGED <<skid, last_primitive, al_out, m_phy_data>>
  BY DEF alignVars
<1> QED BY <1>1, <1>2 DEF Has, Order

LEMMA TxEdgeSilent ==
  ASSUME BenchInv, SilentInv, TxEdge, ~Sending, ~Sending', LinkMoves, PipeStep
  PROVE  SilentInv'
<1>1. \/ m_phy_data' = m_phy_data
      \/ m_phy_data'.prim /\ Kind(m_phy_data') \in {"sync", "rdy", "ans", "other"}
  BY Kinds DEF LinkMoves
<1>2. \A w \in Pipe' : w \in Pipe \/ Kind(w) \in {"sync", "rdy", "ans", "other"}
  <2>1. m_phy_data \in Pipe
    BY DEF Pipe
  <2> QED BY <1>1, <2>1, PipeContent
<1>3. (~Has({"sof", "crc"}))' /\ (Has({"end"})' => Has({"end"}))
  BY <1>2 DEF SilentInv, Has
<1>4. Order({"sync"}, {"end"})'
  <2>1. Has({"sync"}) => Kind(m_phy_data) # "end"
    BY DEF SilentInv, Order, Has, Pipe
  <2>2. Has({"sync"}) => Kind(m_phy_data') \notin {"end"} /\ m_phy_data'.prim
    BY <1>1, <2>1 DEF SilentInv
  <2> QED BY <2>2, PipeOrder DEF SilentInv
<1>5. m_phy_data'.prim
  BY <1>1 DEF SilentInv
<1>6. UNCHANGED <<m_link_state, m_rxphy>> /\ d2h' = (IF ReceivedWord.valid THEN Tail(d2h) ELSE d2h)
  BY DEF TxEdge
<1>7. Comes({"R_RDY"})' => m_link_state' = "RCV_CHKRDY"
  BY <1>6, ComingPops DEF SilentInv, Comes
<1>8. ComingOrder({Prim("R_RDY")}, {Prim("SYNC"), Prim("R_OK"), Prim("R_ERR")})'
  BY <1>6, ComingPops DEF SilentInv
<1> QED BY <1>3, <1>4, <1>5, <1>6, <1>7, <1>8 DEF SilentInv

\* R_RDY is heard: the frame starts, and the device waits for it.
LEMMA TxEdgeOpens ==
  ASSUME BenchInv, SilentInv, CrcInv, FramerRegs, FramerLink, TxEdge, LinkMoves, PipeStep, ~Sending,
         Sending', NEW ready, NEW takes, ready <=> r_ready /\ LinkReady, FramerMoves(ready, takes)
  PROVE  SendingInv'
<1>1. link_state = "SENDCHKRDY" /\ link_state' = "SENDDATA" /\ Is(ReceivedWord, "R_RDY")
  BY DEF LinkMoves
<1>2. UNCHANGED <<m_link_state, m_rxphy, bufVars>> /\ d2h' = (IF ReceivedWord.valid THEN Tail(d2h) ELSE d2h)
  BY DEF TxEdge
<1>3. ReceivedWord.valid /\ ReceivedWord.word = Prim("R_RDY")
  BY <1>1 DEF Is
<1>4. m_link_state = "RCV_CHKRDY"
  BY <1>2, <1>3, ComingPops DEF SilentInv, Comes
<1>5. \A w \in Pipe' : Kind(w) \notin {"sof", "crc", "end"}
  <2>1. Kind(m_phy_data') \notin {"sof", "crc", "end"}
    <3>1. m_phy_data \in Pipe
      BY DEF Pipe
    <3>2. \A w \in Pipe : Kind(w) \notin {"sof", "crc", "end"}
      BY <1>4 DEF SilentInv, Has
    <3> QED BY <3>1, <3>2, Kinds DEF LinkMoves
  <2>2. \A w \in Pipe : Kind(w) \notin {"sof", "crc", "end"}
    BY <1>4 DEF SilentInv, Has
  <2> QED BY <2>1, <2>2, PipeContent
<1>6. tx_word' = Prim("SOF") /\ Kind(tx_word') # "crc"
  <2>1. tx_state = "DATA" /\ ~ready /\ tx_word = Prim("SOF")
    BY <1>1 DEF FramerLink
  <2> QED BY <2>1, Kinds DEF FramerMoves
<1>7. SentInv'
  <2>1. m_link_state' = "RCV_CHKRDY" /\ link_state' # "WAIT"
    BY <1>1, <1>2, <1>4
  <2>2. (~Has({"sof", "crc", "end"}) /\ ~Has({"end"}))'
    BY <1>5 DEF Has
  <2>3. Order({"end"}, {"sync", "sof", "crc"})'
    BY <1>5 DEF Order, Pipe
  <2> QED BY <2>1, <2>2, <2>3 DEF SentInv, Receiving, Judging
<1>8. SentCrc'
  <2>1. ~m_crc_matched'
    BY <1>2, <1>4 DEF CrcInv, bufVars
  <2> QED BY <1>5, <1>6, <2>1 DEF SentCrc
<1>9. Answers'
  <2>1. Coming' \cap {Prim("SYNC"), Prim("R_OK"), Prim("R_ERR")} = {}
    <3> DEFINE A == {Prim("R_RDY")}
               B == {Prim("SYNC"), Prim("R_OK"), Prim("R_ERR")}
    <3>1. ComingOrder(A, B) /\ ReceivedWord.word \in A
      BY <1>3 DEF SilentInv
    <3> HIDE DEF A, B
    <3>2. Coming \cap B = {} /\ Coming' \subseteq Coming
      BY <1>2, <1>3, <3>1, ComingPops
    <3> QED BY <3>2 DEF B
  <2>2. \A i \in 1 .. Len(d2h') : d2h'[i] \in Coming'
    BY DEF Coming
  <2>3. ComingOrder({Prim("R_OK"), Prim("R_ERR")}, {Prim("R_RDY")})'
    BY <2>1, <2>2 DEF ComingOrder
  <2> QED BY <2>1, <2>3 DEF Answers, Comes
<1> QED BY <1>7, <1>8, <1>9 DEF SendingInv

\* The device's verdict is heard: the frame is over.
LEMMA TxEdgeVerdict ==
  ASSUME BenchInv, SendingInv, CrcInv, TxEdge, LinkMoves, PipeStep, Sending, ~Sending',
         Finished => sent' = sent, ~Is(ReceivedWord, "SYNC")
  PROVE  SilentInv' /\ SuccessInv'
<1>1. /\ link_state = "WAIT" /\ link_state' = "IDLE" /\ m_phy_data' = Prim("WTRM")
      /\ Is(ReceivedWord, "R_OK") \/ Is(ReceivedWord, "R_ERR")
  BY DEF LinkMoves, FramerLink, Sending
<1>2. UNCHANGED <<m_link_state, m_rxphy, bufVars>> /\ d2h' = (IF ReceivedWord.valid THEN Tail(d2h) ELSE d2h)
  BY DEF TxEdge
<1>3. ReceivedWord.valid /\ ReceivedWord.word \in {Prim("R_OK"), Prim("R_ERR")}
  BY <1>1 DEF Is
<1>4. /\ m_link_state \in {"GOODEND", "BADEND"}
      /\ Is(ReceivedWord, "R_OK") => m_link_state = "GOODEND"
  <2>1. ReceivedWord.word \in Coming
    BY <1>2, <1>3, ComingPops
  <2> QED BY <1>3, <2>1 DEF Answers, SendingInv, Comes, Is
<1>5. ~Has({"sync", "sof", "crc"})
  BY <1>4 DEF SendingInv, SentInv, Judging
<1>6. \A w \in Pipe' : Kind(w) \notin {"sync", "sof", "crc"}
  BY <1>1, <1>5, PipeContent, Kinds DEF Has
<1>7. ~Comes({"R_RDY"})'
  <2> DEFINE A == {Prim("R_OK"), Prim("R_ERR")}
             B == {Prim("R_RDY")}
  <2>1. ComingOrder(A, B) /\ ReceivedWord.word \in A
    BY <1>3 DEF Answers, SendingInv
  <2> HIDE DEF A, B
  <2>2. Coming \cap B = {} /\ Coming' \subseteq Coming
    BY <1>2, <1>3, <2>1, ComingPops
  <2> QED BY <2>2 DEF B, Comes
<1>8. SilentInv'
  <2>1. (~Has({"sof", "crc"}))' /\ (~Has({"sync"}))'
    BY <1>6 DEF Has
  <2>2. Order({"sync"}, {"end"})'
    BY <1>6 DEF Order, Pipe
  <2>3. m_phy_data'.prim
    BY <1>1, Kinds DEF Prim
  <2>4. ComingOrder({Prim("R_RDY")}, {Prim("SYNC"), Prim("R_OK"), Prim("R_ERR")})'
    BY <1>7 DEF Comes, Coming, ComingOrder
  <2> QED BY <1>2, <1>4, <1>7, <2>1, <2>2, <2>3, <2>4 DEF SilentInv
<1>9. SuccessInv'
  <2>1. m_txphy' # Prim("SYNC")
    BY <1>6, Kinds DEF Pipe
  <2>2. s_success' => m_link_state = "GOODEND"
    BY <1>4 DEF LinkMoves
  <2>3. Finished
    BY <1>1 DEF Finished
  <2> QED BY <1>2, <2>1, <2>2, <2>3 DEF SuccessInv, CrcInv, SentCrc, SendingInv, bufVars
<1> QED BY <1>8, <1>9

\* Within the frame.
LEMMA TxEdgeSending ==
  ASSUME BenchInv, SendingInv, FramerRegs, FramerLink, TxEdge, LinkMoves, PipeStep, Sending,
         Sending', ~Is(ReceivedWord, "SYNC"), tx_state \in {"IDLE", "DATA", "EOF"},
         Finished => sent' = sent /\ (Finished' \/ ~Sending'),
         Unsent' /\ Sending' => Unsent /\ m_phy_data' = m_phy_data,
         Kind(tx_word') = "crc" =>
           \/ tx_word' = tx_word
           \/ sent' = Append(tx_word'.val[2], tx_word'.val) /\ Finished'
  PROVE  SendingInv'
<1>1. UNCHANGED <<m_link_state, m_rxphy, bufVars>> /\ d2h' = (IF ReceivedWord.valid THEN Tail(d2h) ELSE d2h)
  BY DEF TxEdge
<1>2. \/ m_phy_data' = m_phy_data /\ (link_state' = "WAIT" <=> link_state = "WAIT")
      \/ m_phy_data' = tx_word /\ link_state = "SENDDATA" /\ (link_state' = "WAIT" <=> tx_last)
      \/ m_phy_data' = Prim("HOLDA") /\ link_state = "RCVRHOLD" /\ link_state' # "WAIT"
      \/ m_phy_data' = Prim("WTRM") /\ link_state = "WAIT" /\ link_state' = "WAIT"
  <2>1. CASE link_state = "SENDDATA"
    BY <2>1 DEF LinkMoves, FramerRegs, FramerLink
  <2>2. CASE link_state = "RCVRHOLD"
    BY <2>2 DEF LinkMoves
  <2>3. CASE link_state = "WAIT"
    BY <2>3 DEF LinkMoves, Sending
  <2> QED BY <2>1, <2>2, <2>3 DEF Sending
<1>3. link_state = "SENDDATA" => (tx_last <=> Kind(tx_word) = "end")
  <2>1. tx_state = "DATA" => ~tx_last /\ Kind(tx_word) # "end"
    BY Kinds DEF FramerRegs, MidFrame
  <2>2. tx_state = "EOF" => ~tx_last /\ Kind(tx_word) # "end"
    BY DEF FramerRegs
  <2>3. tx_state = "IDLE" /\ link_state = "SENDDATA" => tx_last /\ Kind(tx_word) = "end"
    BY Kinds DEF FramerRegs, FramerLink
  <2> QED BY <2>1, <2>2, <2>3
<1>4. link_state = "WAIT" <=> Kind(m_phy_data) = "end"
  BY DEF SendingInv, SentInv, Has, Pipe
<1>5. link_state' = "WAIT" <=> Kind(m_phy_data') = "end"
  BY <1>2, <1>3, <1>4, Kinds
<1>6. link_state = "WAIT" => link_state' = "WAIT"
  BY <1>2
<1>7. \A w \in Pipe' : w \in Pipe \/ w = m_phy_data' \/ Kind(w) = "other"
  BY PipeContent
<1>8. SentInv'
  <2>1. Has({"end"})' => link_state' = "WAIT"
    BY <1>5, <1>6, <1>7 DEF Has, SendingInv, SentInv
  <2>2. Order({"end"}, {"sync", "sof", "crc"})'
    <3>1. Has({"end"}) => Kind(m_phy_data') = "end"
      BY <1>5, <1>6 DEF SendingInv, SentInv
    <3>2. Has({"end"}) => Kind(m_phy_data') \notin {"sync", "sof", "crc"} /\ m_phy_data'.prim
      BY <3>1, Kinds
    <3> QED BY <3>2, PipeOrder DEF SendingInv, SentInv
  <2>3. m_link_state' \in Judging => link_state' = "WAIT" /\ (~Has({"sync", "sof", "crc"}))'
    <3>1. ASSUME m_link_state \in Judging PROVE link_state' = "WAIT" /\ ~Has({"sync", "sof", "crc"})
      BY <3>1, <1>6 DEF SendingInv, SentInv
    <3> QED BY <1>1, <1>5, <1>7, <3>1 DEF Has
  <2>4. Unsent' => m_link_state' = "RCV_CHKRDY" /\ (~Has({"sof", "crc", "end"}))'
    <3>1. ASSUME Unsent'
          PROVE  m_link_state = "RCV_CHKRDY" /\ ~Has({"sof", "crc", "end"}) /\ m_phy_data' \in Pipe
      <4>1. m_phy_data \in Pipe
        BY DEF Pipe
      <4> QED BY <3>1, <4>1 DEF SendingInv, SentInv
    <3> QED BY <1>1, <1>7, <3>1 DEF Has
  <2> QED BY <1>1, <1>5, <2>1, <2>2, <2>3, <2>4 DEF SentInv, SendingInv
<1>9. SentCrc'
  <2>1. ASSUME NEW w \in Pipe \cup {tx_word}, Kind(w) = "crc"
        PROVE  sent' = Append(w.val[2], w.val) /\ Finished'
    BY <2>1 DEF SentCrc, SendingInv
  <2>2. Kind(m_phy_data') = "crc" => m_phy_data' \in Pipe \cup {tx_word}
    BY <1>2, Kinds DEF Pipe
  <2>3. \A w \in Pipe' : Kind(w) = "crc" => w \in Pipe \cup {tx_word}
    BY <1>7, <2>2
  <2>4. \A w \in Pipe' \cup {tx_word'} : Kind(w) = "crc" =>
           sent' = Append(w.val[2], w.val) /\ Finished'
    BY <2>1, <2>3
  <2>5. m_crc_matched' => m_crc' = sent' /\ Finished'
    BY <1>1 DEF SentCrc, SendingInv, bufVars
  <2> QED BY <2>4, <2>5 DEF SentCrc
<1>10. Answers'
  <2>1. \A ps : Comes(ps)' => Comes(ps)
    BY <1>1, ComingPops DEF Comes
  <2>2. ComingOrder({Prim("R_OK"), Prim("R_ERR")}, {Prim("R_RDY")})'
    BY <1>1, ComingPops DEF SendingInv, Answers
  <2> QED BY <1>1, <2>1, <2>2 DEF Answers, SendingInv
<1> QED BY <1>8, <1>9, <1>10 DEF SendingInv

\* The values of the packets that are sent.
LEMMA PacketsPlain ==
  ASSUME test \in Tests
  PROVE  /\ << <<"DATA">> >> \o Pattern \in Seq(Plain) /\ << <<"DATA">> >> \o Pattern # << >>
         /\ \A op \in Ops : RegFis(op) \in Seq(Plain) /\ RegFis(op) # << >>
<1>1. Pattern \in Seq(Plain)
  <2>1. SectorWords \in Nat /\ \A i \in 1 .. SectorWords : <<test, i>> \in Plain
    BY SectorAssumption DEF Plain
  <2>2. \A S : \A n \in Nat : \A f \in [1 .. n -> S] : f \in Seq(S)
    OBVIOUS
  <2>3. Pattern \in [1 .. SectorWords -> Plain]
    BY <2>1 DEF Pattern
  <2> QED BY <2>1, <2>3
<1>2. << <<"DATA">> >> \in Seq(Plain)
  BY DEF Plain
<1>3. << <<"DATA">> >> \o Pattern \in Seq(Plain) /\ Len(<< <<"DATA">> >> \o Pattern) = 1 + Len(Pattern)
  BY <1>1, <1>2
<1>4. << <<"DATA">> >> \o Pattern # << >>
  BY <1>1, <1>3
<1>5. \A op \in Ops : RegFis(op) \in Seq(Plain) /\ RegFis(op) # << >>
  <2> SUFFICES ASSUME NEW op \in Ops PROVE RegFis(op) \in Seq(Plain) /\ RegFis(op) # << >>
    OBVIOUS
  <2>1. /\ <<"REG", op>> \in Plain /\ <<"REG", "LBA">> \in Plain
        /\ <<"REG", "FEATURES">> \in Plain /\ <<"REG", "COUNT">> \in Plain
    BY DEF Plain
  <2> QED BY <2>1 DEF RegFis
<1> QED BY <1>3, <1>4, <1>5

\* The host's period, out of reset.
LEMMA HostEdgeFrames ==
  ASSUME BenchInv, FrameInv, TxEdge, NEW arrives, NEW stalled, HostEdge(arrives, stalled),
         PipeStep, ~Lost(LinkInput)
  PROVE  FramerInv' /\ CrcInv' /\ SuccessInv' /\ (Sending' => SendingInv') /\ (~Sending' => SilentInv')
<1> DEFINE ready == SReady(LinkReady)
           takes == Takes(ready, arrives)
           more  == IF BeginsData(m_out, i_link_up) THEN Packet(<< <<"DATA">> >> \o Pattern) ELSE << >>
<1>1. LinkStep(LinkInput) /\ TxStep(ready, arrives, more) /\ Sent(ready, takes)
  BY DEF HostEdge, History, Sent
<1>2. UNCHANGED <<m_link_state, m_rxphy, bufVars, test>> /\ d2h' = (IF ReceivedWord.valid THEN Tail(d2h) ELSE d2h)
  BY DEF TxEdge
<1>3. FramerRegs /\ FramerLink /\ FramerQueue /\ test \in Tests
  BY DEF FrameInv, FramerInv
<1>4. Queued(more)
  BY <1>3, PacketsPlain DEF Queued
<1>5. ready <=> r_ready /\ LinkReady
  BY DEF SReady
<1>6. LinkMoves
  BY <1>1, LinkStepMoves DEF BenchInv, HostInv
<1>7. tx_state \in {"IDLE", "DATA", "EOF"}
  BY DEF BenchInv, HostInv, PacketsTypeOK
<1> HIDE DEF ready, more
<1>8. FramerMoves(ready, takes) /\ tx_queue' = (IF takes THEN Tail(tx_queue) ELSE tx_queue) \o more
  BY <1>1, <1>3, TxStepMoves
<1> HIDE DEF takes
<1>9. Sending => ~Is(ReceivedWord, "SYNC")
  <2>1. Is(ReceivedWord, "SYNC") => Comes({"SYNC"})
    BY <1>2, ComingPops DEF Is, Comes
  <2> QED BY <2>1 DEF FrameInv, SendingInv, Answers
<1>10. FramerRegs' /\ FramerLink'
  BY <1>3, <1>5, <1>6, <1>7, <1>8, <1>9, FramerKeepsStep
<1>11. FramerQueue'
  BY <1>1, <1>3, <1>4, <1>8, FramerQueueStep
<1>12. FramerInv'
  BY <1>2, <1>3, <1>10, <1>11 DEF FramerInv
<1>13. CrcInv'
  BY <1>2 DEF FrameInv, CrcInv, PipeStep, AlignMoves, bufVars
<1>14. CASE Sending
  <2>1. /\ Finished => sent' = sent /\ (Finished' \/ ~Sending')
        /\ Unsent' /\ Sending' => Unsent /\ m_phy_data' = m_phy_data
        /\ Kind(tx_word') = "crc" =>
             \/ tx_word' = tx_word
             \/ sent' = Append(tx_word'.val[2], tx_word'.val) /\ Finished'
    BY <1>1, <1>3, <1>5, <1>6, <1>7, <1>8, <1>9, <1>14, FramerSends
  <2>2. SendingInv /\ CrcInv
    BY <1>14 DEF FrameInv
  <2>3. CASE Sending'
    <3>1. SendingInv'
      BY <1>3, <1>6, <1>7, <1>9, <1>14, <2>1, <2>2, <2>3, TxEdgeSending
    <3>2. ~s_success'
      BY <1>6, <2>3 DEF LinkMoves, Sending
    <3> QED BY <1>12, <1>13, <2>3, <3>1, <3>2 DEF SuccessInv
  <2>4. CASE ~Sending'
    BY <1>6, <1>9, <1>12, <1>13, <1>14, <2>1, <2>2, <2>4, TxEdgeVerdict
  <2> QED BY <2>3, <2>4
<1>15. CASE ~Sending
  <2>1. SilentInv /\ CrcInv
    BY <1>15 DEF FrameInv
  <2>2. ~s_success'
    BY <1>6, <1>15 DEF LinkMoves, Sending
  <2>3. Sending' => SendingInv'
    BY <1>3, <1>5, <1>6, <1>8, <1>15, <2>1, TxEdgeOpens
  <2>4. ~Sending' => SilentInv'
    BY <1>6, <1>15, <2>1, TxEdgeSilent
  <2> QED BY <1>12, <1>13, <2>2, <2>3, <2>4 DEF SuccessInv
<1> QED BY <1>14, <1>15

LEMMA TxEdgeFrames ==
  ASSUME BenchInv, StaysUp, FrameInv, TxEdge, Undisturbed'
  PROVE  FrameInv'
<1>1. "idle" \notin faults
  BY DEF TxEdge, Undisturbed, Departs, NoDeparture
<1>2. /\ LinkedInv'
      /\ \/ HostInReset /\ Kind(m_txphy') = "other"
         \/ \E arrives, stalled : HostEdge(arrives, stalled) /\ PipeStep /\ ~Lost(LinkInput)
  BY <1>1, TxEdgePath DEF FrameInv
<1>3. CASE HostInReset /\ Kind(m_txphy') = "other"
  <2>1. /\ UNCHANGED <<m_link_state, m_rxphy, bufVars, test>>
        /\ d2h' = (IF ReceivedWord.valid THEN Tail(d2h) ELSE d2h)
    BY DEF TxEdge
  <2>2. UNCHANGED <<link_state, r_ready, s_success, m_phy_data, skid, last_primitive, al_out, alignVars,
                    tx_queue, tx_state, tx_valid, tx_word, tx_last, sent>>
    BY <1>3 DEF HostInReset, linkVars, alignVars, txVars, ghosts
  <2>3. link_state = "RESET" /\ ~s_success
    BY <1>3 DEF FrameInv, LinkedInv, HostInReset
  <2>4. ~Sending /\ ~Sending'
    BY <2>2, <2>3 DEF Sending
  <2>5. FramerInv'
    BY <2>1, <2>2 DEF FrameInv, FramerInv, FramerRegs, FramerLink, FramerQueue, MidFrame, Sending
  <2>6. CrcInv' /\ SuccessInv'
    BY <2>1, <2>2, <2>3 DEF FrameInv, CrcInv, SuccessInv, bufVars
  <2>7. SilentInv'
    <3> DEFINE A == {Prim("R_RDY")}
               B == {Prim("SYNC"), Prim("R_OK"), Prim("R_ERR")}
    <3>1. SilentInv
      BY <2>4 DEF FrameInv
    <3>2. /\ Has({"sof", "crc"})' => Has({"sof", "crc"})
          /\ Has({"end"})' => Has({"end"})
          /\ Order({"sync"}, {"end"}) => Order({"sync"}, {"end"})'
      BY <1>3, <2>2, PipeRests
    <3>3. Comes({"R_RDY"})' => Comes({"R_RDY"})
      BY <2>1, ComingPops DEF Comes
    <3>4. ComingOrder(A, B)'
      BY <2>1, <3>1, ComingPops DEF SilentInv
    <3> QED BY <2>1, <2>2, <3>1, <3>2, <3>3, <3>4 DEF SilentInv
  <2> QED BY <1>2, <2>4, <2>5, <2>6, <2>7 DEF FrameInv
<1>4. ASSUME NEW arrives, NEW stalled, HostEdge(arrives, stalled), PipeStep, ~Lost(LinkInput)
      PROVE  FrameInv'
  BY <1>2, <1>4, HostEdgeFrames DEF FrameInv
<1> QED BY <1>2, <1>3, <1>4

\* The program adds a register FIS to what is queued, and nothing else.
LEMMA ProgramFrames ==
  ASSUME BenchInv, FrameInv, Program
  PROVE  FrameInv'
<1>1. /\ UNCHANGED <<phyVars, linkVars, alignVars, tx_state, tx_valid, tx_word, tx_last, m_link_state,
                     m_txphy, m_rxphy, bufVars, d2h, sent>>
      /\ test' = test \/ test' = "PIO"
      /\ tx_queue' = tx_queue \/ \E op \in Ops : tx_queue' = tx_queue \o Packet(RegFis(op))
  <2>1. ASSUME NEW op \in Ops, Issue(op)
        PROVE  /\ UNCHANGED <<phyVars, linkVars, alignVars, tx_state, tx_valid, tx_word, tx_last,
                              m_link_state, m_txphy, m_rxphy, bufVars, d2h, sent, test>>
               /\ tx_queue' = tx_queue \/ tx_queue' = tx_queue \o Packet(RegFis(op))
    BY <2>1, Zenon DEF Issue, pathVars
  <2>2. WriteOp \in Ops /\ ReadOp \in Ops
    BY DEF WriteOp, ReadOp, Ops
  <2>3. ASSUME AllAside
        PROVE  UNCHANGED <<phyVars, linkVars, alignVars, tx_state, tx_valid, tx_word, tx_last,
                           m_link_state, m_txphy, m_rxphy, bufVars, d2h, sent, test, tx_queue>>
    BY <2>3, Zenon DEF AllAside, txVars, simVars, ghosts
  <2>4. CASE AllAside
    BY <2>3, <2>4
  <2>5. CASE Issue(WriteOp) \/ Issue(ReadOp)
    BY <2>1, <2>2, <2>5
  <2>6. CASE NextTest
    BY <2>6 DEF NextTest, txVars, simVars, ghosts, pathVars
  <2> QED BY <2>4, <2>5, <2>6 DEF Program, LinkComesUp, WriteReturns, ReadReturns, MainReturns,
             DeviceAside, WriteCommand, ReadCommand
<1>2. UNCHANGED <<link_state, o_link_up, fsm_state, phy_reg, m_phy_ready, s_success, r_ready, m_phy_data,
                  last_primitive, al_out, skid, m_crc_matched, m_crc>>
  BY <1>1 DEF phyVars, resetVars, txResetVars, oobVars, linkVars, alignVars, bufVars
<1>3. LinkedInv'
  BY <1>2 DEF FrameInv, LinkedInv
<1>4. FramerRegs' /\ FramerLink' /\ test' \in Tests
  BY <1>1, <1>2 DEF FrameInv, FramerInv, FramerRegs, FramerLink, MidFrame, Sending, Tests
<1>5. FramerQueue'
  <2>1. FramerQueue /\ test \in Tests /\ MidFrame' = MidFrame
    BY <1>1 DEF FrameInv, FramerInv, MidFrame
  <2>2. CASE tx_queue' = tx_queue
    BY <1>1, <2>1, <2>2 DEF FramerQueue
  <2>3. ASSUME NEW op \in Ops, tx_queue' = tx_queue \o Packet(RegFis(op)) PROVE FramerQueue'
    <3>1. RegFis(op) \in Seq(Plain) /\ RegFis(op) # << >>
      BY <2>1, PacketsPlain
    <3>2. MidFrame => tx_queue # << >>
      BY <2>1 DEF FramerQueue, MidFrame
    <3>3. QueueOK(tx_queue, sent, MidFrame)
      BY <2>1 DEF FramerQueue
    <3>4. QueueOK(tx_queue \o Packet(RegFis(op)), sent, MidFrame) /\ tx_queue \o Packet(RegFis(op)) # << >>
      BY <3>1, <3>2, <3>3, QueueGrows
    <3> QED BY <1>1, <2>1, <2>3, <3>4 DEF FramerQueue
  <2> QED BY <1>1, <2>2, <2>3
<1>6. FramerInv'
  BY <1>4, <1>5 DEF FramerInv
<1>7. CrcInv' /\ SuccessInv'
  BY <1>1, <1>2 DEF FrameInv, CrcInv, SuccessInv
<1>8. Pipe' = Pipe /\ Coming' = Coming
  BY <1>1, <1>2 DEF Pipe, Coming
<1>9. Sending => SendingInv'
  <2>1. Sending => SentInv /\ SentCrc /\ Answers
    BY DEF FrameInv, SendingInv
  <2>2. SentInv => SentInv'
    BY <1>1, <1>2, <1>8 DEF SentInv, Has, Order, Unsent
  <2>3. SentCrc => SentCrc'
    BY <1>1, <1>2, <1>8 DEF SentCrc, Finished
  <2>4. Answers => Answers'
    BY <1>1, <1>8 DEF Answers, Comes, ComingOrder
  <2> QED BY <2>1, <2>2, <2>3, <2>4 DEF SendingInv
<1>10. SilentInv => SilentInv'
  BY <1>1, <1>2, <1>8 DEF SilentInv, Has, Order, Comes, ComingOrder
<1>11. Sending' <=> Sending
  BY <1>2 DEF Sending
<1> QED BY <1>3, <1>6, <1>7, <1>9, <1>10, <1>11 DEF FrameInv

LEMMA FramesRest ==
  ASSUME FrameInv, UNCHANGED vars
  PROVE  FrameInv'
<1>1. UNCHANGED <<phyVars, linkVars, alignVars, txVars, simVars, d2h, sent, test>>
  BY DEF vars, pathVars, benchVars, ghosts
<1>2. UNCHANGED <<link_state, o_link_up, fsm_state, phy_reg, m_phy_ready, s_success, r_ready, m_phy_data,
                  last_primitive, al_out, skid, m_crc_matched, m_crc, m_link_state, m_txphy, m_rxphy,
                  d2h, sent, test, tx_queue, tx_state, tx_valid, tx_word, tx_last>>
  BY <1>1 DEF phyVars, resetVars, txResetVars, oobVars, linkVars, alignVars, bufVars, simVars, txVars
<1>3. Pipe' = Pipe /\ Coming' = Coming
  BY <1>2 DEF Pipe, Coming
<1>4. LinkedInv' /\ CrcInv' /\ SuccessInv'
  BY <1>2 DEF FrameInv, LinkedInv, CrcInv, SuccessInv
<1>5. FramerInv'
  BY <1>2 DEF FrameInv, FramerInv, FramerRegs, FramerLink, FramerQueue, MidFrame, Sending
<1>6. Sending => SendingInv'
  <2>1. Sending => SentInv /\ SentCrc /\ Answers
    BY DEF FrameInv, SendingInv
  <2>2. SentInv => SentInv'
    BY <1>2, <1>3 DEF SentInv, Has, Order, Unsent
  <2>3. SentCrc => SentCrc'
    BY <1>2, <1>3 DEF SentCrc, Finished
  <2>4. Answers => Answers'
    BY <1>2, <1>3 DEF Answers, Comes, ComingOrder
  <2> QED BY <2>1, <2>2, <2>3, <2>4 DEF SendingInv
<1>7. SilentInv => SilentInv'
  BY <1>2, <1>3 DEF SilentInv, Has, Order, Comes, ComingOrder
<1>8. Sending' <=> Sending
  BY <1>2 DEF Sending
<1> QED BY <1>4, <1>5, <1>6, <1>7, <1>8 DEF FrameInv

LEMMA FrameStarts ==
  ASSUME Init
  PROVE  FrameInv
<1>1. /\ link_state = "RESET" /\ ~r_ready /\ ~s_success /\ m_phy_data = Prim("ALIGN")
      /\ ~o_link_up /\ phy_reg = Prim("ALIGN") /\ fsm_state = "RESET"
      /\ al_out = Prim("ALIGN") /\ last_primitive = Prim("ALIGN") /\ skid = NoWord
      /\ tx_queue = << >> /\ tx_state = "IDLE" /\ ~tx_valid /\ tx_word = Prim("SOF") /\ ~tx_last
      /\ m_link_state = "SEND_ALIGN" /\ ~m_crc_matched /\ m_rxphy = NoWord
      /\ m_txphy = Scramble(<<"ZERO">>, 0)
      /\ d2h = << >> /\ sent = << >> /\ test \in Tests
  BY DEF Init, LinkInReset, ResetInit, AlignInReset, PacketsInit, SimInit, Tests
<1>2. Kind(Prim("ALIGN")) = "other" /\ Kind(m_txphy) = "other" /\ Prim("ALIGN").prim
  <2>1. ~m_txphy.prim /\ m_txphy.val[1] # "CRC"
    BY <1>1 DEF Scramble
  <2>2. \A p : Prim(p).prim
    BY DEF Prim
  <2> QED BY <2>1, <2>2, Kinds DEF Kind
<1>3. ~NoWord.valid
  BY DEF NoWord
<1>4. LinkedInv /\ CrcInv /\ SuccessInv
  BY <1>1, <1>2 DEF LinkedInv, CrcInv, SuccessInv
<1>5. FramerRegs /\ FramerLink
  BY <1>1 DEF FramerRegs, FramerLink, MidFrame, Sending
<1>6. FramerQueue
  <2>1. ~MidFrame /\ MidFrame = FALSE
    BY <1>1 DEF MidFrame
  <2>2. << >> \in Seq({}) /\ 1 .. Len(<< >>) = {}
    OBVIOUS
  <2>3. QueueOK(<< >>, << >>, FALSE)
    BY <2>2 DEF QueueOK
  <2> QED BY <1>1, <2>1, <2>2, <2>3 DEF FramerQueue
<1>7. SilentInv
  <2>1. \A w \in Pipe : Kind(w) = "other"
    BY <1>1, <1>2, <1>3 DEF Pipe
  <2>2. ~Has({"sof", "crc"}) /\ ~Has({"end"})
    BY <2>1 DEF Has
  <2>3. Order({"sync"}, {"end"})
    BY <2>1 DEF Order, Pipe
  <2>4. Coming = {} /\ 1 .. Len(d2h) = {}
    BY <1>1, <1>3 DEF Coming
  <2> QED BY <1>1, <1>2, <2>2, <2>3, <2>4 DEF SilentInv, Comes, ComingOrder
<1> QED BY <1>1, <1>4, <1>5, <1>6, <1>7 DEF FrameInv, FramerInv, Sending

LEMMA FramesKeep == Spec => [](Undisturbed => FrameInv)
<1>1. BenchInv /\ UpInv /\ StaysUp /\ (Undisturbed => FrameInv) /\ [Next]_vars => (Undisturbed => FrameInv)'
  <2> SUFFICES ASSUME BenchInv, UpInv, StaysUp, Undisturbed => FrameInv, [Next]_vars, Undisturbed'
               PROVE  FrameInv'
    OBVIOUS
  <2>1. CASE Program
    <3>1. faults \subseteq faults'
      BY <2>1 DEF Program, LinkComesUp, WriteReturns, ReadReturns, NextTest, MainReturns,
         DeviceAside, AllAside, WriteCommand, ReadCommand, Issue, pathVars, NoDeparture, Departs
    <3> QED BY <2>1, <3>1, ProgramFrames DEF Undisturbed
  <2>2. CASE TxEdge
    <3>1. faults \subseteq faults'
      BY <2>2 DEF TxEdge, NoDeparture, Departs
    <3> QED BY <2>2, <3>1, TxEdgeFrames DEF Undisturbed
  <2>3. CASE RxEdge
    <3>1. faults \subseteq faults'
      BY <2>3 DEF RxEdge, NoDeparture, Departs
    <3> QED BY <2>3, <3>1, RxEdgeFrames DEF Undisturbed
  <2>4. CASE UNCHANGED vars
    <3>1. faults' = faults
      BY <2>4 DEF vars, pathVars
    <3> QED BY <2>4, <3>1, FramesRest DEF Undisturbed
  <2> QED BY <2>1, <2>2, <2>3, <2>4 DEF Next, Done
<1>2. Init => (Undisturbed => FrameInv)
  BY FrameStarts
<1> QED BY <1>1, <1>2, BenchTypes, ComesUp, UpStays, PTL DEF Spec

\* When the host's link reports a frame as accepted (s_success of
\* satalnk_fsm.v, after R_OK), the device has exactly the words the framer
\* took, however often they were held up, doubled by ALIGNs and HOLDs or
\* damaged on their way, and whatever the program queues in the meantime.
THEOREM AcceptedFramesExact == Spec => [](Undisturbed => AcceptedExact)
<1>1. FrameInv => AcceptedExact
  BY DEF FrameInv, SuccessInv, AcceptedExact
<1> QED BY <1>1, FramesKeep, PTL

\* The host's link is never told that the physical layer has gone.
LEMMA LinkedStays == Spec => []("idle" \notin faults => LinkedInv)
<1>1. BenchInv /\ StaysUp /\ ("idle" \notin faults => LinkedInv) /\ [Next]_vars
        => ("idle" \notin faults => LinkedInv)'
  <2> SUFFICES ASSUME BenchInv, StaysUp, "idle" \notin faults => LinkedInv, [Next]_vars,
                      "idle" \notin faults'
               PROVE  LinkedInv'
    OBVIOUS
  <2>1. CASE Program
    <3>1. faults \subseteq faults'
      BY <2>1 DEF Program, LinkComesUp, WriteReturns, ReadReturns, NextTest, MainReturns,
         DeviceAside, AllAside, WriteCommand, ReadCommand, Issue, pathVars, NoDeparture, Departs
    <3>2. UNCHANGED <<phyVars, linkVars>>
      BY <2>1, Zenon DEF Program, LinkComesUp, WriteReturns, ReadReturns, NextTest, MainReturns,
         DeviceAside, AllAside, WriteCommand, ReadCommand, Issue
    <3> QED BY <3>1, <3>2 DEF LinkedInv, phyVars, resetVars, txResetVars, oobVars, linkVars
  <2>2. CASE TxEdge
    <3>1. faults \subseteq faults'
      BY <2>2 DEF TxEdge, NoDeparture, Departs
    <3> QED BY <2>2, <3>1, TxEdgePath
  <2>3. CASE RxEdge
    <3>1. faults \subseteq faults'
      BY <2>3 DEF RxEdge, NoDeparture, Departs
    <3>2. UNCHANGED <<txResetVars, oobVars, linkVars>>
      BY <2>3, Zenon DEF RxEdge
    <3> QED BY <3>1, <3>2 DEF LinkedInv, txResetVars, oobVars, linkVars
  <2>4. CASE UNCHANGED vars
    <3>1. UNCHANGED <<phyVars, linkVars, faults>>
      BY <2>4 DEF vars, pathVars
    <3> QED BY <3>1 DEF LinkedInv, phyVars, resetVars, txResetVars, oobVars, linkVars
  <2> QED BY <2>1, <2>2, <2>3, <2>4 DEF Next, Done
<1>2. Init => LinkedInv
  BY FrameStarts DEF FrameInv
<1> QED BY <1>1, <1>2, BenchTypes, UpStays, PTL DEF Spec

\* Once o_link_up (sata_reset.v) is set, nothing but an idle line reported on
\* the live link clears it: the out-of-band bursts of the bring-up, as slowly
\* as they are sampled, and the watchdog do not come back to take it away.
THEOREM OnlyIdleTakesLink == Spec => [][o_link_up /\ ~o_link_up' => "idle" \in faults']_vars
<1>1. BenchInv /\ StaysUp /\ ("idle" \notin faults => LinkedInv) /\ [Next]_vars
        => [o_link_up /\ ~o_link_up' => "idle" \in faults']_vars
  <2> SUFFICES ASSUME BenchInv, StaysUp, "idle" \notin faults => LinkedInv, Next,
                      "idle" \notin faults', o_link_up
               PROVE  o_link_up'
    OBVIOUS
  <2>1. CASE Program
    <3>1. UNCHANGED phyVars
      BY <2>1, Zenon DEF Program, LinkComesUp, WriteReturns, ReadReturns, NextTest, MainReturns,
         DeviceAside, AllAside, WriteCommand, ReadCommand, Issue
    <3> QED BY <3>1 DEF phyVars, resetVars, txResetVars
  <2>2. CASE TxEdge
    <3>1. "idle" \notin faults
      BY <2>2 DEF TxEdge, NoDeparture, Departs
    <3>2. fsm_state = "READY"
      BY <3>1 DEF LinkedInv
    <3>3. CASE HostInReset
      BY <3>3 DEF HostInReset, txResetVars
    <3>4. CASE \E arrives, stalled : HostEdge(arrives, stalled)
      <4>1. ResetStep(m_phy_ready, m_txphy_comfinish, al_out)
        BY <3>4 DEF HostEdge
      <4>2. o_link_up' <=> fsm_state = "READY"
        BY <4>1, Zenon DEF ResetStep
      <4> QED BY <3>2, <4>2
    <3> QED BY <2>2, <3>3, <3>4, Zenon DEF TxEdge
  <2>3. CASE RxEdge
    BY <2>3 DEF RxEdge, txResetVars
  <2>4. CASE UNCHANGED vars
    BY <2>4 DEF vars, phyVars, resetVars, txResetVars
  <2> QED BY <2>1, <2>2, <2>3, <2>4 DEF Next, Done
<1> QED BY <1>1, BenchTypes, UpStays, LinkedStays, PTL DEF Spec

-----------------------------------------------------------------------------
(* A frame of the device and the host that receives it: HeardInv follows    *)
(* the handshake the other way, X_RDY to the host and R_RDY back, through   *)
(* collisions with a frame of the host's own.                               *)

Open    == {"RCVCHKRDY", "RCVDATA", "HOLD", "RCVHOLD"}
Closing == {"RCVEOF", "GOODEND", "BADEND"}
Talking == {"SEND_DATA", "SEND_EOF", "WAIT"}
Quiet   == {"SEND_ALIGN", "IDLE", "RCV_DATA"} \cup Judging

\* The host does not answer a call of the device, and nothing is on its way
\* that could make it, or look as if it did.
NoCall == link_state # "RCVCHKRDY" /\ ~Comes({"X_RDY"}) /\ ~Has({"rdy"})

\* Behind the device's X_RDY come only more of them.
CallLast == \A B : Prim("X_RDY") \notin B => ComingOrder({Prim("X_RDY")}, B)

\* The device calls: R_RDY is the answer to this call, and the host that gives
\* it has no other word to come.
CalledInv ==
  /\ Has({"rdy"}) => link_state = "RCVCHKRDY"
  /\ link_state = "RCVCHKRDY" => Coming \subseteq {Prim("X_RDY")}
  /\ CallLast
  /\ Order({"rdy"}, {"sync", "ans"})
  /\ m_data_count = 0

\* The device has not sent SOF.
Opening == m_link_state = "SEND_DATA" /\ m_data_count = 0

\* Nothing but X_RDY is in front of the device's SOF.
SofFirst == \A A : A \cap {Prim("X_RDY"), Prim("SOF")} = {} => ComingOrder(A, {Prim("SOF")})

\* The device's frame: the host has answered the call, has its SOF yet to
\* come or is receiving it, and its verdict is on this frame.
ComesInv ==
  /\ link_state \in Open \/ (m_link_state = "WAIT" /\ link_state \in Closing)
  /\ \A w \in Coming : w.prim => \/ w \in {Prim("X_RDY"), Prim("SOF")}
                                 \/ m_link_state = "WAIT" /\ w \in {Prim("EOF"), Prim("WTRM")}
  /\ Opening => link_state = "RCVCHKRDY" /\ Coming \subseteq {Prim("X_RDY")}
  /\ link_state = "RCVCHKRDY" => Opening \/ Comes({"SOF"})
  /\ link_state # "RCVCHKRDY" => ~Comes({"X_RDY"})
  /\ SofFirst /\ ComingOrder({Prim("SOF")}, {Prim("X_RDY")})
  /\ ~Has({"sync"})
  /\ Has({"ans"}) => link_state \in {"GOODEND", "BADEND"}
  /\ Order({"ans"}, {"rdy"})

\* The host sends a frame of its own: an R_RDY of a call that was given up is
\* in front of the SOF.
StaleInv ==
  /\ ~Comes({"X_RDY"})
  /\ Kind(m_phy_data) # "rdy"
  /\ skid.valid => Kind(skid.word) # "rdy"
  /\ Kind(last_primitive) = "rdy" => Unsent /\ m_phy_data = Prim("X_RDY") /\ skid.valid
  /\ Kind(m_txphy) = "sof" => Kind(al_out) # "rdy"

\* The receive clock is told of the link before the first word is, and for good.
RxUp ==
  /\ rx_linkup_xpipe => o_link_up
  /\ rx_linkup => rx_linkup_xpipe
  /\ d2h # << >> \/ link_state = "RCVCHKRDY" => rx_linkup

DataOK == (\E S : m_sent_data \in Seq(S)) /\ (\E S : disk \in Seq(S))

HeardInv ==
  /\ RxUp /\ DataOK
  /\ m_link_state \in Quiet => NoCall
  /\ m_link_state = "SEND_CHKRDY" => CalledInv
  /\ m_link_state \in Talking => ComesInv
  /\ m_link_state = "RCV_CHKRDY" => ComingOrder({Prim("R_RDY")}, {Prim("X_RDY")})
  /\ Sending => StaleInv
  /\ link_state = "SENDCHKRDY" => m_phy_data \in {Prim("SYNC"), Prim("X_RDY")}

-----------------------------------------------------------------------------
(* What the two sides do, as far as a frame to the host can tell.           *)

\* The device: what it says in which state, and what it waits for.
DeviceTalks ==
  \/ UNCHANGED <<m_link_state, m_rxphy, m_data_count>>
  \/ \E w : /\ m_rxphy' = Got(w)
            /\ \/ m_link_state = "SEND_ALIGN" /\ w = Prim("ALIGN") /\ m_link_state' \in {"SEND_ALIGN", "IDLE"}
               \/ /\ m_link_state = "IDLE" /\ w = Prim("SYNC") /\ m_data_count' = 0
                  /\ m_link_state' \in {"IDLE", "RCV_CHKRDY", "SEND_CHKRDY"}
               \/ /\ m_link_state = "SEND_CHKRDY" /\ w = Prim("X_RDY") /\ m_data_count' = m_data_count
                  /\ \/ m_link_state' \in {"SEND_CHKRDY", "RCV_CHKRDY"}
                     \/ m_link_state' = "SEND_DATA" /\ Hears("R_RDY")
               \/ /\ Opening /\ w = Prim("SOF")
                  /\ m_link_state' = "SEND_DATA" /\ m_data_count' # 0
               \/ /\ m_link_state = "SEND_DATA" /\ ~Opening /\ ~w.prim
                  /\ m_link_state' \in {"SEND_DATA", "SEND_EOF"} /\ m_data_count' # 0
               \/ m_link_state = "SEND_EOF" /\ w = Prim("EOF") /\ m_link_state' = "WAIT"
               \/ /\ m_link_state = "WAIT" /\ w = Prim("WTRM")
                  /\ \/ m_link_state' = "WAIT"
                     \/ m_link_state' = "IDLE" /\ (Hears("SYNC") \/ Hears("R_OK") \/ Hears("R_ERR"))
               \/ /\ m_link_state = "RCV_CHKRDY" /\ w = Prim("R_RDY")
                  /\ m_link_state' = "RCV_CHKRDY" \/ (m_link_state' = "RCV_DATA" /\ Hears("SOF"))
               \/ /\ m_link_state \in {"RCV_DATA"} \cup Judging
                  /\ w \in {Prim("R_IP"), Prim("R_OK"), Prim("R_ERR")}
                  /\ m_link_state' \in {"RCV_DATA", "IDLE"} \cup Judging

LEMMA FrameWords ==
  ASSUME m_data_count \in Nat, DataOK, NEW fis \in {D2hFis, DmaActFis, PioSetupFis, DataFis}, NEW done,
         m_link_state = "SEND_DATA", SendFrame(fis, done)
  PROVE  DeviceTalks
<1>1. Len(fis) \in Nat
  <2>1. Len(D2hFis) = 4 /\ Len(PioSetupFis) = 5
    BY DEF D2hFis, PioSetupFis
  <2>2. Len(DmaActFis) = 1
    BY DEF DmaActFis
  <2>3. Len(DataFis) \in Nat
    <3>1. PICK S : m_sent_data \in Seq(S)
      BY DEF DataOK
    <3>2. << <<"DATA">> >> \in Seq({<<"DATA">>})
      OBVIOUS
    <3>3. DataFis \in Seq(S \cup {<<"DATA">>})
      BY <3>1, <3>2 DEF DataFis
    <3> QED BY <3>3
  <2> QED BY <2>1, <2>2, <2>3
<1>2. CASE m_data_count = 0 /\ DevicePhySends(Prim("SOF")) /\ m_data_count' = 1 /\ SimGoto("SEND_DATA")
  BY <1>2 DEF DeviceTalks, Opening, DevicePhySends, SimGoto
<1>3. ASSUME NEW w, ~w.prim, DevicePhySends(w), m_data_count # 0, m_data_count' # 0,
             m_link_state' \in {"SEND_DATA", "SEND_EOF"}
      PROVE  DeviceTalks
  BY <1>3 DEF DeviceTalks, Opening, DevicePhySends
<1>4. \A v, n : ~Scramble(v, n).prim
  BY DEF Scramble
<1>5. CASE /\ m_data_count \in 1 .. Len(fis)
           /\ DevicePhySends(Scramble(fis[m_data_count], m_scrambler_fill))
           /\ m_data_count' = m_data_count + 1
           /\ SimGoto("SEND_DATA")
  <2>1. m_data_count # 0 /\ m_data_count' # 0
    BY <1>1, <1>5
  <2> QED BY <1>3, <1>4, <1>5, <2>1 DEF SimGoto
<1>6. CASE /\ m_data_count = Len(fis) + 1
           /\ DevicePhySends(Scramble(CrcValue(m_crc), m_scrambler_fill))
           /\ SimGoto("SEND_EOF")
           /\ UNCHANGED m_data_count
  <2>1. m_data_count # 0 /\ m_data_count' # 0
    BY <1>1, <1>6
  <2> QED BY <1>3, <1>4, <1>6, <2>1 DEF SimGoto
<1> QED BY <1>2, <1>5, <1>6, Zenon DEF SendFrame

LEMMA DeviceStepTalks ==
  ASSUME LinkLayer, m_data_count \in Nat, DataOK
  PROVE  DeviceTalks
<1>1. CASE ~m_oob_done
  BY <1>1 DEF LinkLayer, DeviceTalks, bufVars
<1>2. CASE SimSendData
  <2>1. m_link_state = "SEND_DATA"
    BY <1>2 DEF SimSendData
  <2>2. \E fis \in {D2hFis, DmaActFis, PioSetupFis, DataFis} : \E done : SendFrame(fis, done)
    BY <1>2, Zenon DEF SimSendData, DmaActivate, PioSetupResponse, DataSend, D2hResponse
  <2> QED BY <2>1, <2>2, FrameWords
<1>3. CASE SimAlign \/ SimIdle \/ SimSendChkRdy
  BY <1>3 DEF SimAlign, SimIdle, SimSendChkRdy, SimChkRdyNext, Listens, Sends, SimGoto, DevicePhySends,
     ResetDataBuffer, bufVars, DeviceTalks
<1>4. CASE SimSendEof \/ SimWait
  BY <1>4 DEF SimSendEof, SimWait, Listens, Sends, SimGoto, DevicePhySends, DeviceTalks
<1>5. CASE SimRcvChkRdy \/ SimRcvData \/ SimRcvEof \/ SimGoodEnd \/ SimBadEnd
  BY <1>5 DEF SimRcvChkRdy, SimRcvData, SimRcvEof, SimGoodEnd, SimBadEnd, Listens, Sends, SimGoto,
     DevicePhySends, DeviceTalks, Judging
<1> QED BY <1>1, <1>2, <1>3, <1>4, <1>5 DEF LinkLayer

\* The host, while the physical layer is up.
HostListens ==
  /\ \/ link_state' # "RCVCHKRDY" \/ link_state = "RCVCHKRDY"
     \/ Is(ReceivedWord, "X_RDY")
  /\ link_state = "RCVCHKRDY" =>
       /\ m_phy_data' \in {m_phy_data, Prim("R_RDY")}
       /\ \/ Is(ReceivedWord, "SOF") /\ link_state' = "RCVDATA"
          \/ ~Is(ReceivedWord, "SOF") /\ link_state' = "RCVCHKRDY"
          \/ /\ ReceivedWord.valid /\ ~Is(ReceivedWord, "SOF") /\ ~Is(ReceivedWord, "X_RDY")
             /\ link_state' = "IDLE"
  /\ link_state \in Open \ {"RCVCHKRDY"} =>
       \/ link_state' \in Open
       \/ link_state' \in Closing /\ (Is(ReceivedWord, "EOF") \/ Is(ReceivedWord, "WTRM"))
       \/ Is(ReceivedWord, "SYNC")
  /\ link_state \in Closing => link_state' \in Closing \/ Is(ReceivedWord, "SYNC")
  /\ link_state \in {"GOODEND", "BADEND"} => link_state' = link_state \/ Is(ReceivedWord, "SYNC")
  /\ \/ m_phy_data' = m_phy_data
     \/ /\ Kind(m_phy_data') = "rdy" => link_state = "RCVCHKRDY"
        /\ Kind(m_phy_data') = "ans" => link_state \in {"GOODEND", "BADEND"}
        /\ Kind(m_phy_data') = "sync" => link_state \in {"IDLE", "RCVWAITFIFO"}
  /\ link_state' = "SENDCHKRDY" =>
       \/ link_state = "IDLE" /\ m_phy_data' = Prim("SYNC")
       \/ link_state = "SENDCHKRDY" /\ m_phy_data' \in {m_phy_data, Prim("X_RDY")}
  /\ link_state = "SENDCHKRDY" /\ link_state' = "SENDDATA" => LinkReady /\ m_phy_data' = Prim("X_RDY")

LEMMA LinkStepListens ==
  ASSUME LinkTypeOK, LinkStep(LinkInput), ~Lost(LinkInput), Kind(tx_word) \notin {"rdy", "ans", "sync"}
  PROVE  HostListens
<1> DEFINE in == LinkInput
<1>1. /\ in.rx = ReceivedWord /\ in.s_data = tx_word /\ in.m_phy_ready = LinkReady
  BY DEF LinkInput
<1> HIDE DEF in
<1>2. LinkStep(in) /\ ~Lost(in)
  BY DEF in
<1>3. \A p \in {"ALIGN", "X_RDY", "R_IP", "HOLD", "HOLDA", "PMNAK", "WTRM", "SYNC", "R_RDY", "R_OK", "R_ERR"} :
        /\ Kind(Prim(p)) = "rdy" => p = "R_RDY"
        /\ Kind(Prim(p)) = "ans" => p \in {"R_OK", "R_ERR"}
        /\ Kind(Prim(p)) = "sync" => p = "SYNC"
  BY Kinds
<1>4. \A p, q : Is(ReceivedWord, p) /\ Is(ReceivedWord, q) => p = q
  BY DEF Is, Prim
<1>5. ASSUME NEW p \in {"ALIGN", "X_RDY", "R_IP", "HOLD", "HOLDA", "PMNAK", "WTRM", "SYNC", "R_RDY", "R_OK", "R_ERR"},
             m_phy_data' \in {m_phy_data, Prim(p)},
             p = "R_RDY" => link_state = "RCVCHKRDY",
             p \in {"R_OK", "R_ERR"} => link_state \in {"GOODEND", "BADEND"},
             p = "SYNC" => link_state \in {"IDLE", "RCVWAITFIFO"}
      PROVE  \/ m_phy_data' = m_phy_data
             \/ /\ Kind(m_phy_data') = "rdy" => link_state = "RCVCHKRDY"
                /\ Kind(m_phy_data') = "ans" => link_state \in {"GOODEND", "BADEND"}
                /\ Kind(m_phy_data') = "sync" => link_state \in {"IDLE", "RCVWAITFIFO"}
  BY <1>3, <1>5
<1>6. CASE Reset(in) \/ NoCommErr(in) \/ NoComm(in) \/ SendAlign(in)
  <2>1. m_phy_data' \in {m_phy_data, Prim("ALIGN")}
    BY <1>6 DEF Reset, NoCommErr, NoComm, SendAlign, Emit
  <2>2. /\ link_state \in {"RESET", "NOCOMMERR", "NOCOMM", "SENDALIGN"}
        /\ link_state' \in {"RESET", "NOCOMMERR", "NOCOMM", "SENDALIGN", "IDLE"}
    BY <1>6 DEF Reset, NoCommErr, NoComm, SendAlign, Goto
  <2> QED BY <1>5, <2>1, <2>2 DEF HostListens, Open, Closing
<1>7. CASE Idle(in)
  <2>1. m_phy_data' \in {m_phy_data, Prim("SYNC")} /\ link_state = "IDLE"
    BY <1>7 DEF Idle, Emit
  <2>2. /\ link_state' \in {"IDLE", "RCVWAITFIFO", "PMDENY", "SENDCHKRDY"}
        /\ link_state' = "SENDCHKRDY" => m_phy_data' = Prim("SYNC")
    BY <1>2, <1>7 DEF Idle, IdleNext, Goto, Emit
  <2> QED BY <1>5, <2>1, <2>2 DEF HostListens, Open, Closing
<1>8. CASE SendChkRdy(in)
  <2>1. m_phy_data' \in {m_phy_data, Prim("X_RDY")} /\ link_state = "SENDCHKRDY"
    BY <1>8 DEF SendChkRdy, Emit
  <2>2. /\ link_state' \in {"SENDDATA", "RCVWAITFIFO", "SENDCHKRDY"}
        /\ link_state' = "SENDDATA" => LinkReady /\ m_phy_data' = Prim("X_RDY")
    BY <1>1, <1>2, <1>8 DEF SendChkRdy, ChkRdyNext, Goto, Emit
  <2> QED BY <1>5, <2>1, <2>2 DEF HostListens, Open, Closing
<1>9. CASE SendData(in)
  <2>1. m_phy_data' \in {m_phy_data, tx_word} /\ link_state = "SENDDATA"
    BY <1>1, <1>9, Zenon DEF SendData, Emit
  <2>2. link_state' \in {"SENDDATA", "IDLE", "WAIT", "RCVRHOLD"}
    BY <1>2, <1>9 DEF SendData, Goto
  <2> QED BY <2>1, <2>2 DEF HostListens, Open, Closing
<1>10. CASE RcvRHold(in) \/ Wait(in)
  <2>1. \E p \in {"HOLDA", "WTRM"} : m_phy_data' \in {m_phy_data, Prim(p)}
    BY <1>10 DEF RcvRHold, Wait, Emit
  <2>2. /\ link_state \in {"RCVRHOLD", "WAIT"}
        /\ link_state' \in {"SENDDATA", "IDLE", "WAIT", "RCVRHOLD"}
    BY <1>2, <1>10 DEF RcvRHold, Wait, Goto
  <2> QED BY <1>5, <2>1, <2>2 DEF HostListens, Open, Closing
<1>11. CASE RcvWaitFifo(in)
  <2>1. m_phy_data' \in {m_phy_data, Prim("SYNC")} /\ link_state = "RCVWAITFIFO"
    BY <1>11 DEF RcvWaitFifo, Receives, Emit
  <2>2. link_state' \in {"RCVWAITFIFO", "IDLE"} \/ (link_state' = "RCVCHKRDY" /\ Is(ReceivedWord, "X_RDY"))
    BY <1>1, <1>2, <1>11 DEF RcvWaitFifo, Receives, Goto
  <2> QED BY <1>5, <2>1, <2>2 DEF HostListens, Open, Closing
<1>12. CASE RcvChkRdy(in)
  <2>1. m_phy_data' \in {m_phy_data, Prim("R_RDY")} /\ link_state = "RCVCHKRDY"
    BY <1>12 DEF RcvChkRdy, Receives, Emit
  <2>2. \/ Is(ReceivedWord, "SOF") /\ link_state' = "RCVDATA"
        \/ ~Is(ReceivedWord, "SOF") /\ link_state' = "RCVCHKRDY"
        \/ /\ ReceivedWord.valid /\ ~Is(ReceivedWord, "SOF") /\ ~Is(ReceivedWord, "X_RDY")
           /\ link_state' = "IDLE"
    BY <1>1, <1>2, <1>12 DEF RcvChkRdy, RcvChkRdyNext, Receives, Goto
  <2> QED BY <1>5, <2>1, <2>2 DEF HostListens, Open, Closing
<1>13. CASE RcvData(in) \/ Hold(in) \/ RcvHold(in)
  <2>1. \E p \in {"R_IP", "HOLD", "HOLDA"} : m_phy_data' \in {m_phy_data, Prim(p)}
    BY <1>13 DEF RcvData, Hold, RcvHold, Receives, Emit
  <2>2. /\ link_state \in {"RCVDATA", "HOLD", "RCVHOLD"}
        /\ \/ link_state' \in {"RCVDATA", "HOLD", "RCVHOLD"}
           \/ link_state' \in {"RCVEOF", "BADEND"} /\ (Is(ReceivedWord, "EOF") \/ Is(ReceivedWord, "WTRM"))
           \/ link_state' = "IDLE" /\ Is(ReceivedWord, "SYNC")
    <3>1. CASE RcvData(in)
      BY <1>1, <1>2, <3>1 DEF RcvData, Receives, Goto
    <3>2. CASE Hold(in)
      BY <1>1, <1>2, <3>2 DEF Hold, HoldEnds, Receives, Goto
    <3>3. CASE RcvHold(in)
      BY <1>1, <1>2, <3>3 DEF RcvHold, Receives, Goto
    <3> QED BY <1>13, <3>1, <3>2, <3>3
  <2> QED BY <1>5, <2>1, <2>2 DEF HostListens, Open, Closing
<1>14. CASE RcvEof(in) \/ GoodEnd(in) \/ BadEnd(in)
  <2>1. \E p \in {"R_IP", "R_OK", "R_ERR"} :
           m_phy_data' \in {m_phy_data, Prim(p)} /\ (p # "R_IP" => link_state \in {"GOODEND", "BADEND"})
    BY <1>14 DEF RcvEof, GoodEnd, BadEnd, Receives, Emit
  <2>2. /\ link_state \in Closing /\ (link_state' \in Closing \/ Is(ReceivedWord, "SYNC"))
        /\ link_state' # "SENDCHKRDY" /\ link_state' # "RCVCHKRDY"
        /\ link_state \in {"GOODEND", "BADEND"} => link_state' = link_state \/ Is(ReceivedWord, "SYNC")
    BY <1>1, <1>2, <1>14 DEF RcvEof, RcvVerdict, GoodEnd, BadEnd, Receives, Goto, Closing
  <2> QED BY <1>5, <2>1, <2>2 DEF HostListens, Open, Closing
<1>15. CASE PmDeny(in)
  <2>1. m_phy_data' \in {m_phy_data, Prim("PMNAK")} /\ link_state = "PMDENY"
    BY <1>15 DEF PmDeny, Receives, Emit
  <2>2. link_state' \in {"PMDENY", "IDLE"}
    BY <1>2, <1>15 DEF PmDeny, Receives, Goto
  <2> QED BY <1>5, <2>1, <2>2 DEF HostListens, Open, Closing
<1> QED BY <1>2, <1>6, <1>7, <1>8, <1>9, <1>10, <1>11, <1>12, <1>13, <1>14, <1>15 DEF LinkStep

\* What is on its way to the host is not lost: it is there until the host takes
\* it.
LEMMA ComingStays ==
  ASSUME BenchInv, d2h' = (IF ReceivedWord.valid THEN Tail(d2h) ELSE d2h), UNCHANGED m_rxphy,
         NEW w, w \in Coming, ~ReceivedWord.valid \/ ReceivedWord.word # w
  PROVE  w \in Coming'
<1>1. PICK S : d2h \in Seq(S)
  BY DEF BenchInv, PathInv
<1>2. CASE ReceivedWord.valid
  <2>1. Len(d2h) > Lag /\ ReceivedWord.word = Head(d2h) /\ d2h' = Tail(d2h)
    BY <1>2 DEF ReceivedWord, Got, NoWord
  <2>2. d2h # << >> /\ Len(d2h) \in Nat /\ Head(d2h) = d2h[1]
    BY <1>1, <2>1, BenchAssumption
  <2>3. Len(d2h') = Len(d2h) - 1 /\ \A i \in 1 .. Len(d2h') : d2h'[i] = d2h[i + 1]
    BY <1>1, <2>1, <2>2, HeadTailProperties
  <2>4. ASSUME NEW i \in 1 .. Len(d2h), d2h[i] = w
        PROVE  \E k \in 1 .. Len(d2h') : d2h'[k] = w
    <3>1. i # 1
      BY <1>2, <2>1, <2>2, <2>4
    <3>2. i - 1 \in 1 .. Len(d2h') /\ (i - 1) + 1 = i
      BY <2>2, <2>3, <3>1
    <3> QED BY <2>3, <2>4, <3>2
  <2> QED BY <2>4 DEF Coming
<1>3. CASE ~ReceivedWord.valid
  BY <1>3 DEF Coming
<1> QED BY <1>2, <1>3

LEMMA ComingKept ==
  ASSUME BenchInv, Arrives(m_rxphy), rx_linkup, NEW w, w \in Coming, w # Prim("ALIGN")
  PROVE  w \in Coming'
<1>1. PICK S : d2h \in Seq(S)
  BY DEF BenchInv, PathInv
<1>2. CASE m_rxphy = Got(Prim("ALIGN"))
  BY <1>2 DEF Arrives, Coming, Got
<1>3. CASE m_rxphy # Got(Prim("ALIGN"))
  <2>1. d2h' = Append(d2h, m_rxphy.word)
    BY <1>3 DEF Arrives
  <2>2. /\ Len(d2h) \in Nat /\ Len(d2h') = Len(d2h) + 1 /\ d2h'[Len(d2h) + 1] = m_rxphy.word
        /\ \A i \in 1 .. Len(d2h) : d2h'[i] = d2h[i]
    <3>1. d2h \in Seq(S \cup {m_rxphy.word}) /\ m_rxphy.word \in S \cup {m_rxphy.word}
      BY <1>1
    <3> QED BY <2>1, <3>1, AppendProperties
  <2>3. Len(d2h) + 1 \in 1 .. Len(d2h') /\ \A i \in 1 .. Len(d2h) : i \in 1 .. Len(d2h')
    BY <2>2
  <2>4. w = m_rxphy.word \/ \E i \in 1 .. Len(d2h) : w = d2h[i]
    BY DEF Coming
  <2>5. \E i \in 1 .. Len(d2h') : w = d2h'[i]
    BY <2>2, <2>3, <2>4, Zenon
  <2> QED BY <2>5 DEF Coming
<1> QED BY <1>2, <1>3

-----------------------------------------------------------------------------
(* A period of the device's clock                                           *)

LEMMA NoCallKept ==
  ASSUME BenchInv, UpInv, Arrives(m_rxphy), NoCall, UNCHANGED <<link_state, Pipe>>,
         m_rxphy' = m_rxphy \/ m_rxphy'.word # Prim("X_RDY")
  PROVE  NoCall'
<1>1. ~Comes({"X_RDY"})'
  <2>1. m_rxphy.valid => m_rxphy.word \in Coming
    BY DEF Coming
  <2> QED BY <2>1, ComingWords DEF NoCall, Comes
<1> QED BY <1>1 DEF NoCall, Has

LEMMA RxEdgeQuiet ==
  ASSUME BenchInv, UpInv, FrameInv, HeardInv, DeviceTalks, Arrives(m_rxphy),
         UNCHANGED <<link_state, Pipe, m_txphy>>, m_link_state' \in Quiet
  PROVE  NoCall'
<1>1. \A p, q : Prim(p) = Prim(q) => p = q
  BY DEF Prim
<1>2. \A w : Got(w).word = w
  BY DEF Got
<1>3. CASE m_link_state \in Quiet
  <2>1. m_rxphy' = m_rxphy \/ m_rxphy'.word # Prim("X_RDY")
    BY <1>1, <1>2, <1>3 DEF DeviceTalks, Quiet, Judging, Opening
  <2> QED BY <1>3, <2>1, NoCallKept DEF HeardInv
<1>4. CASE m_link_state = "WAIT"
  <2>1. ComesInv
    BY <1>4 DEF HeardInv, Talking
  <2>2. m_rxphy'.word # Prim("X_RDY") /\ (Hears("SYNC") \/ Hears("R_OK") \/ Hears("R_ERR"))
    BY <1>1, <1>2, <1>4 DEF DeviceTalks, Quiet, Judging, Opening
  <2>3. Kind(m_txphy) = "sync" \/ Kind(m_txphy) = "ans"
    BY <2>2, Kinds DEF Hears
  <2>4. Kind(m_txphy) = "ans" /\ Has({"ans"})
    BY <2>1, <2>3, OnTheWire DEF ComesInv, Has
  <2>5. ~Has({"rdy"})
    <3>1. {"ans"} \cap {"rdy"} = {} /\ Kind(m_txphy) \in {"ans"}
      BY <2>4
    <3> QED BY <2>1, <3>1, OnTheWire DEF ComesInv
  <2>6. link_state \in {"GOODEND", "BADEND"} /\ ~Comes({"X_RDY"})
    BY <2>1, <2>4 DEF ComesInv
  <2>7. NoCall
    BY <2>5, <2>6 DEF NoCall
  <2> QED BY <2>2, <2>7, NoCallKept
<1>5. CASE m_link_state = "RCV_CHKRDY"
  <2>1. m_rxphy'.word # Prim("X_RDY") /\ Hears("SOF")
    BY <1>1, <1>2, <1>5 DEF DeviceTalks, Quiet, Judging, Opening
  <2>2. Kind(m_txphy) = "sof" /\ Has({"sof"}) /\ Has({"sof", "crc"}) /\ Has({"sof", "crc", "end"})
    BY <2>1, Kinds, OnTheWire DEF Hears, Has
  <2>3. Sending
    BY <2>2 DEF FrameInv, SilentInv
  <2>4. StaleInv /\ SentInv
    BY <2>3 DEF FrameInv, SendingInv, HeardInv
  <2>5. Kind(last_primitive) # "rdy"
    BY <2>2, <2>4 DEF StaleInv, SentInv
  <2>6. ~Has({"rdy"})
    BY <2>2, <2>4, <2>5 DEF StaleInv, Has, Pipe
  <2>7. NoCall
    BY <2>3, <2>4, <2>6 DEF NoCall, StaleInv, Sending
  <2> QED BY <2>1, <2>7, NoCallKept
<1> QED BY <1>3, <1>4, <1>5 DEF DeviceTalks, Quiet, Judging, Opening

LEMMA RxEdgeCalls ==
  ASSUME BenchInv, UpInv, FrameInv, HeardInv, DeviceTalks, Arrives(m_rxphy),
         UNCHANGED <<link_state, Pipe, m_txphy, m_phy_data, last_primitive, al_out, skid>>,
         m_link_state' = "SEND_CHKRDY"
  PROVE  CalledInv'
<1>1. \A p, q : Prim(p) = Prim(q) => p = q
  BY DEF Prim
<1>2. \A w : Got(w).word = w /\ Got(w).valid
  BY DEF Got
<1>3. (Order({"rdy"}, {"sync", "ans"}) => Order({"rdy"}, {"sync", "ans"})') /\ (Has({"rdy"})' => Has({"rdy"}))
  BY DEF Order, Has
<1>4. m_rxphy.valid => m_rxphy.word \in Coming
  BY DEF Coming
<1>5. CASE m_link_state = "SEND_CHKRDY"
  <2>1. CalledInv
    BY <1>5 DEF HeardInv
  <2>2. (m_rxphy' = m_rxphy \/ m_rxphy'.word = Prim("X_RDY")) /\ m_data_count' = m_data_count
    BY <1>2, <1>5 DEF DeviceTalks, Judging, Opening
  <2>3. link_state' = "RCVCHKRDY" => Coming' \subseteq {Prim("X_RDY")}
    BY <1>4, <2>1, <2>2, ComingWords DEF CalledInv
  <2>4. CallLast'
    <3> SUFFICES ASSUME NEW B, Prim("X_RDY") \notin B
                 PROVE  ComingOrder({Prim("X_RDY")}, B)'
      BY DEF CallLast
    <3>1. {Prim("X_RDY")} \cap B = {} /\ ComingOrder({Prim("X_RDY")}, B)
      BY <2>1 DEF CalledInv, CallLast
    <3> HIDE DEF Prim
    <3> QED BY <2>2, <3>1, ComingOrdered
  <2> QED BY <1>3, <2>1, <2>2, <2>3, <2>4 DEF CalledInv
<1>6. CASE m_link_state = "IDLE"
  <2>1. NoCall
    BY <1>6 DEF HeardInv, Quiet
  <2>2. m_rxphy' = Got(Prim("SYNC")) /\ m_data_count' = 0
    BY <1>6 DEF DeviceTalks, Judging, Opening
  <2>3. Prim("X_RDY") \notin Coming'
    BY <1>1, <1>2, <2>1, <2>2, ComingWords DEF NoCall, Comes
  <2>4. CallLast'
    BY <2>3 DEF CallLast, ComingOrder, Coming
  <2>5. ~Has({"rdy"})
    BY <2>1 DEF NoCall
  <2>6. Order({"rdy"}, {"sync", "ans"})
    BY <2>5 DEF Order, Has, Pipe
  <2> QED BY <1>3, <2>1, <2>2, <2>4, <2>5, <2>6 DEF CalledInv, NoCall
<1> QED BY <1>5, <1>6 DEF DeviceTalks, Judging, Opening

LEMMA RxEdgeComes ==
  ASSUME BenchInv, UpInv, HeardInv, DeviceTalks, Arrives(m_rxphy),
         UNCHANGED <<link_state, Pipe, m_txphy, m_phy_data, last_primitive, al_out, skid>>,
         m_link_state' \in Talking
  PROVE  ComesInv'
<1> DEFINE X == {Prim("X_RDY")}
           F == {Prim("SOF")}
<1>1. \A p, q : Prim(p) = Prim(q) => p = q
  BY DEF Prim
<1>2. \A w : Got(w).word = w /\ Got(w).valid
  BY DEF Got
<1>3. /\ (Order({"ans"}, {"rdy"}) => Order({"ans"}, {"rdy"})')
      /\ \A kinds : Has(kinds)' <=> Has(kinds)
  BY DEF Order, Has
<1>4. m_rxphy.valid => m_rxphy.word \in Coming
  BY DEF Coming
<1>5. CASE m_link_state = "SEND_CHKRDY"
  <2>1. CalledInv
    BY <1>5 DEF HeardInv
  <2>2. Hears("R_RDY") /\ m_link_state' = "SEND_DATA" /\ m_rxphy' = Got(Prim("X_RDY")) /\ m_data_count' = 0
    BY <1>5, <2>1 DEF DeviceTalks, Talking, Judging, Opening, CalledInv
  <2>3. Kind(m_txphy) \in {"rdy"} /\ Has({"rdy"})
    BY <2>2, Kinds, OnTheWire DEF Hears, Has
  <2>4. link_state = "RCVCHKRDY" /\ Coming \subseteq X
    BY <2>1, <2>3 DEF CalledInv
  <2>5. Coming' \subseteq X
    BY <1>2, <2>2, <2>4, ComingWords
  <2>6. ~Has({"sync", "ans"})
    <3>1. {"rdy"} \cap {"sync", "ans"} = {}
      OBVIOUS
    <3> QED BY <2>1, <2>3, <3>1, OnTheWire DEF CalledInv
  <2>7. ~Has({"sync"}) /\ ~Has({"ans"}) /\ Order({"ans"}, {"rdy"})
    BY <2>6 DEF Has, Order, Pipe
  <2>8. \A i \in 1 .. Len(d2h') : d2h'[i] = Prim("X_RDY")
    BY <2>5 DEF Coming
  <2>9. SofFirst' /\ ComingOrder(F, X)'
    BY <1>1, <2>8 DEF SofFirst, ComingOrder
  <2>10. Opening'
    BY <2>2 DEF Opening
  <2> QED BY <1>3, <2>4, <2>5, <2>7, <2>9, <2>10 DEF ComesInv, Open
<1>6. CASE m_link_state \in Talking
  <2>1. ComesInv
    BY <1>6 DEF HeardInv
  <2>2. \/ UNCHANGED <<m_link_state, m_rxphy, m_data_count>>
        \/ \E w : /\ m_rxphy' = Got(w) /\ w # Prim("X_RDY") /\ ~Opening'
                  /\ w.prim => w = Prim("SOF") \/ (m_link_state' = "WAIT" /\ w \in {Prim("EOF"), Prim("WTRM")})
                  /\ Opening <=> w = Prim("SOF")
                  /\ m_link_state = "WAIT" => m_link_state' = "WAIT"
    <3>1. \A w : ~w.prim => w # Prim("X_RDY") /\ w # Prim("SOF")
      BY DEF Prim
    <3> QED BY <1>1, <1>6, <3>1 DEF DeviceTalks, Talking, Judging, Opening
  <2>3. CASE UNCHANGED <<m_link_state, m_rxphy, m_data_count>>
    <3>1. Coming' \subseteq Coming
      BY <1>4, <2>3, ComingWords
    <3>2. SofFirst'
      <4> SUFFICES ASSUME NEW A, A \cap {Prim("X_RDY"), Prim("SOF")} = {} PROVE ComingOrder(A, F)'
        BY DEF SofFirst
      <4>1. A \cap F = {} /\ ComingOrder(A, F)
        BY <2>1 DEF ComesInv, SofFirst
      <4> HIDE DEF F
      <4> QED BY <2>3, <4>1, ComingOrdered
    <3>3. ComingOrder(F, X)'
      <4>1. F \cap X = {} /\ ComingOrder(F, X)
        BY <1>1, <2>1 DEF ComesInv
      <4> HIDE DEF F, X
      <4> QED BY <2>3, <4>1, ComingOrdered
    <3>4. link_state = "RCVCHKRDY" => Opening \/ Comes({"SOF"})'
      <4>1. link_state = "RCVCHKRDY" /\ ~Opening => Prim("SOF") \in Coming /\ rx_linkup
        BY <2>1 DEF ComesInv, HeardInv, RxUp, Comes
      <4>2. Prim("SOF") # Prim("ALIGN")
        BY <1>1
      <4> QED BY <4>1, <4>2, ComingKept DEF Comes
    <3>5. Opening' <=> Opening
      BY <2>3 DEF Opening
    <3> QED BY <1>3, <2>1, <2>3, <3>1, <3>2, <3>3, <3>4, <3>5 DEF ComesInv, Comes
  <2>4. ASSUME NEW w, m_rxphy' = Got(w), w # Prim("X_RDY"), ~Opening',
               w.prim => w = Prim("SOF") \/ (m_link_state' = "WAIT" /\ w \in {Prim("EOF"), Prim("WTRM")}),
               Opening <=> w = Prim("SOF"),
               m_link_state = "WAIT" => m_link_state' = "WAIT"
        PROVE  ComesInv'
    <3>1. \A v \in Coming' : v \in Coming \/ v = w
      BY <1>2, <2>4, ComingWords
    <3>2. w \in Coming' /\ m_rxphy'.word = w
      BY <1>2, <2>4 DEF Coming
    <3>3. SofFirst'
      <4> SUFFICES ASSUME NEW A, A \cap {Prim("X_RDY"), Prim("SOF")} = {} PROVE ComingOrder(A, F)'
        BY DEF SofFirst
      <4>1. A \cap F = {} /\ ComingOrder(A, F)
        BY <2>1 DEF ComesInv, SofFirst
      <4>2. Coming \cap A # {} => m_rxphy'.word \notin F
        BY <2>1, <2>4, <3>2 DEF ComesInv
      <4> HIDE DEF F
      <4> QED BY <4>1, <4>2, ComingOrdered
    <3>4. ComingOrder(F, X)'
      <4>1. F \cap X = {} /\ ComingOrder(F, X) /\ m_rxphy'.word \notin X
        BY <1>1, <2>1, <2>4, <3>2 DEF ComesInv
      <4> HIDE DEF F, X
      <4> QED BY <4>1, ComingOrdered
    <3>5. link_state = "RCVCHKRDY" => Comes({"SOF"})'
      <4>1. CASE Opening
        BY <2>4, <3>2, <4>1 DEF Comes
      <4>2. CASE link_state = "RCVCHKRDY" /\ ~Opening
        <5>1. Prim("SOF") \in Coming /\ rx_linkup /\ Prim("SOF") # Prim("ALIGN")
          BY <1>1, <2>1, <4>2 DEF ComesInv, HeardInv, RxUp, Comes
        <5> QED BY <5>1, ComingKept DEF Comes
      <4> QED BY <4>1, <4>2
    <3>6. link_state # "RCVCHKRDY" => ~Comes({"X_RDY"})'
      BY <2>1, <2>4, <3>1 DEF ComesInv, Comes
    <3>7. \A v \in Coming' : v.prim => \/ v \in {Prim("X_RDY"), Prim("SOF")}
                                       \/ m_link_state' = "WAIT" /\ v \in {Prim("EOF"), Prim("WTRM")}
      BY <2>1, <2>4, <3>1 DEF ComesInv
    <3> QED BY <1>3, <2>1, <2>4, <3>3, <3>4, <3>5, <3>6, <3>7 DEF ComesInv
  <2> QED BY <2>2, <2>3, <2>4
<1> QED BY <1>5, <1>6 DEF DeviceTalks, Talking, Judging, Opening

LEMMA RxEdgeHeard ==
  ASSUME BenchInv, UpInv, FrameInv, HeardInv, RxEdge, Undisturbed'
  PROVE  HeardInv'
<1>1. /\ LinkLayer /\ Arrives(m_rxphy) /\ \E sig : RxSample(sig)
      /\ UNCHANGED <<txResetVars, linkVars, alignVars, txVars, disk>>
  BY Zenon DEF RxEdge, Departs, Undisturbed, benchVars
<1>2. UNCHANGED <<m_txphy, m_sent_data, o_link_up, link_state, m_phy_data, last_primitive, al_out, skid,
                  tx_word>>
  BY <1>1 DEF LinkLayer, txResetVars, linkVars, alignVars, txVars
<1>3. Pipe' = Pipe /\ (Sending' <=> Sending) /\ (Unsent' <=> Unsent)
  BY <1>2 DEF Pipe, Sending, Unsent
<1>4. DeviceTalks
  BY <1>1, DeviceStepTalks DEF BenchInv, DeviceInv, SimTypeOK, HeardInv
<1>5. \A p, q : Prim(p) = Prim(q) => p = q
  BY DEF Prim
<1>6. \A w : Got(w).word = w /\ Got(w).valid
  BY DEF Got
<1>7. m_rxphy.valid => m_rxphy.word \in Coming
  BY DEF Coming
<1>8. RxUp' /\ DataOK'
  <2>1. rx_linkup_xpipe' = o_link_up /\ rx_linkup' = rx_linkup_xpipe
    BY <1>1, Zenon DEF RxSample
  <2>2. d2h' # << >> => d2h # << >> \/ rx_linkup
    BY <1>1 DEF Arrives
  <2> QED BY <1>1, <1>2, <2>1, <2>2 DEF HeardInv, RxUp, DataOK
<1>9. m_link_state' \in Quiet => NoCall'
  BY <1>1, <1>2, <1>3, <1>4, RxEdgeQuiet
<1>10. m_link_state' = "SEND_CHKRDY" => CalledInv'
  BY <1>1, <1>2, <1>3, <1>4, RxEdgeCalls
<1>11. m_link_state' \in Talking => ComesInv'
  BY <1>1, <1>2, <1>3, <1>4, RxEdgeComes
<1>12. m_link_state' = "RCV_CHKRDY" => ComingOrder({Prim("R_RDY")}, {Prim("X_RDY")})'
  <2> DEFINE A == {Prim("R_RDY")}
             B == {Prim("X_RDY")}
  <2> SUFFICES ASSUME m_link_state' = "RCV_CHKRDY" PROVE ComingOrder(A, B)'
    OBVIOUS
  <2>1. CASE m_link_state = "RCV_CHKRDY"
    <3>1. A \cap B = {} /\ ComingOrder(A, B)
      BY <1>5, <2>1 DEF HeardInv
    <3>2. m_rxphy' = m_rxphy \/ m_rxphy'.word \notin B
      BY <1>5, <1>6, <1>4, <2>1 DEF DeviceTalks, Judging, Opening
    <3> HIDE DEF A, B
    <3> QED BY <1>1, <3>1, <3>2, ComingOrdered
  <2>2. CASE m_link_state = "IDLE"
    <3>1. ~Comes({"X_RDY"}) /\ m_rxphy'.word # Prim("X_RDY")
      BY <1>4, <1>5, <1>6, <2>2 DEF HeardInv, Quiet, NoCall, DeviceTalks, Judging, Opening
    <3>2. Prim("X_RDY") \notin Coming'
      BY <1>1, <3>1, ComingWords DEF Comes
    <3> QED BY <3>2 DEF ComingOrder, Coming
  <2>3. CASE m_link_state = "SEND_CHKRDY"
    <3>1. ~Sending
      BY <2>3 DEF FrameInv, SendingInv, SentInv, Receiving
    <3>2. ~Comes({"R_RDY"}) /\ m_rxphy'.word # Prim("R_RDY")
      BY <1>4, <1>5, <1>6, <2>3, <3>1 DEF FrameInv, SilentInv, DeviceTalks, Judging, Opening
    <3>3. Prim("R_RDY") \notin Coming'
      BY <1>1, <3>2, ComingWords DEF Comes
    <3> QED BY <3>3 DEF ComingOrder, Coming
  <2> QED BY <1>4, <2>1, <2>2, <2>3 DEF DeviceTalks, Judging, Opening
<1>13. Sending' => StaleInv'
  <2> SUFFICES ASSUME Sending PROVE StaleInv'
    BY <1>3
  <2>1. StaleInv /\ m_link_state \in Receiving
    BY DEF HeardInv, FrameInv, SendingInv, SentInv
  <2>2. m_rxphy' = m_rxphy \/ m_rxphy'.word # Prim("X_RDY")
    BY <1>4, <1>5, <1>6, <2>1 DEF DeviceTalks, Receiving, Judging, Opening
  <2>3. ~Comes({"X_RDY"})'
    BY <1>1, <1>7, <2>1, <2>2, ComingWords DEF StaleInv, Comes
  <2> QED BY <1>2, <1>3, <2>1, <2>3 DEF StaleInv
<1> QED BY <1>2, <1>8, <1>9, <1>10, <1>11, <1>12, <1>13 DEF HeardInv

-----------------------------------------------------------------------------
(* A period of the host's clock                                             *)

\* The host takes the oldest word to come, and the device rests.
HostTakes ==
  /\ UNCHANGED <<m_link_state, m_rxphy, m_data_count>>
  /\ d2h' = (IF ReceivedWord.valid THEN Tail(d2h) ELSE d2h)

LEMMA TakesComing ==
  ASSUME BenchInv, HostTakes
  PROVE  /\ Coming' \subseteq Coming
         /\ ReceivedWord.valid => ReceivedWord.word \in Coming
         /\ \A p : Is(ReceivedWord, p) => ReceivedWord.valid /\ ReceivedWord.word = Prim(p) /\ Comes({p})
<1>1. Coming' \subseteq Coming /\ (ReceivedWord.valid => ReceivedWord.word \in Coming)
  BY ComingPops DEF HostTakes
<1> QED BY <1>1 DEF Is, Comes

LEMMA TxEdgeQuiet ==
  ASSUME BenchInv, HostTakes, HostListens, PipeStep, NoCall
  PROVE  NoCall'
<1>1. ~Comes({"X_RDY"})' /\ link_state' # "RCVCHKRDY"
  BY TakesComing DEF NoCall, HostListens, Comes
<1>2. m_phy_data \in Pipe /\ Kind(m_phy_data') # "rdy"
  BY DEF NoCall, HostListens, Pipe, Has
<1>3. ~Has({"rdy"})'
  BY <1>2, PipeContent DEF NoCall, Has
<1> QED BY <1>1, <1>3 DEF NoCall

LEMMA TxEdgeCalls ==
  ASSUME BenchInv, HostTakes, HostListens, PipeStep, SilentInv, CalledInv
  PROVE  CalledInv'
<1>1. ASSUME link_state = "RCVCHKRDY"
      PROVE  link_state' = "RCVCHKRDY" /\ m_phy_data' \in {m_phy_data, Prim("R_RDY")}
  <2>1. ReceivedWord.valid => ReceivedWord.word = Prim("X_RDY")
    BY <1>1, TakesComing DEF CalledInv
  <2>2. Prim("X_RDY") # Prim("SOF") /\ Prim("X_RDY").prim
    BY DEF Prim
  <2> QED BY <1>1, <2>1, <2>2 DEF HostListens, Is
<1>2. Has({"rdy"})' => link_state' = "RCVCHKRDY"
  <2>1. m_phy_data \in Pipe
    BY DEF Pipe
  <2>2. Has({"rdy"})' => Has({"rdy"}) \/ link_state = "RCVCHKRDY"
    BY <2>1, PipeContent DEF HostListens, Has
  <2> QED BY <1>1, <2>2 DEF CalledInv
<1>3. link_state' = "RCVCHKRDY" => Coming' \subseteq {Prim("X_RDY")}
  <2>1. CASE link_state = "RCVCHKRDY"
    BY <2>1, TakesComing DEF CalledInv
  <2>2. ASSUME link_state # "RCVCHKRDY", link_state' = "RCVCHKRDY", NEW v \in Coming', v # Prim("X_RDY")
        PROVE  FALSE
    <3>1. ReceivedWord.valid /\ ReceivedWord.word = Prim("X_RDY")
      BY <2>2, TakesComing DEF HostListens
    <3>2. ComingOrder({Prim("X_RDY")}, {v})
      BY <2>2 DEF CalledInv, CallLast
    <3>3. Coming \cap {v} = {}
      BY <3>1, <3>2, ComingPops DEF HostTakes
    <3> QED BY <2>2, <3>3, TakesComing
  <2> QED BY <2>1, <2>2
<1>4. CallLast'
  BY ComingPops DEF HostTakes, CalledInv, CallLast
<1>5. Order({"rdy"}, {"sync", "ans"})'
  <2>1. ASSUME Has({"rdy"}) PROVE Kind(m_phy_data') \notin {"sync", "ans"} /\ m_phy_data'.prim
    <3>1. m_phy_data' \in {m_phy_data, Prim("R_RDY")}
      BY <1>1, <2>1 DEF CalledInv
    <3>2. Kind(m_phy_data) \notin {"sync", "ans"} /\ m_phy_data.prim
      BY <2>1 DEF CalledInv, SilentInv, Order, Has, Pipe
    <3> QED BY <3>1, <3>2, Kinds DEF Prim
  <2> QED BY <2>1, PipeOrder DEF CalledInv
<1>6. m_data_count' = 0
  BY DEF HostTakes, CalledInv
<1> QED BY <1>2, <1>3, <1>4, <1>5, <1>6 DEF CalledInv

LEMMA TxEdgeComes ==
  ASSUME BenchInv, HostTakes, HostListens, LinkMoves, PipeStep, ~Sending, SilentInv, ComesInv
  PROVE  ComesInv'
<1> DEFINE X == {Prim("X_RDY")}
           F == {Prim("SOF")}
<1>1. \A p, q : Prim(p) = Prim(q) => p = q
  BY DEF Prim
<1>2. /\ ~Is(ReceivedWord, "SYNC")
      /\ Is(ReceivedWord, "EOF") \/ Is(ReceivedWord, "WTRM") => m_link_state = "WAIT"
  <2>1. \A p : Prim(p).prim
    BY DEF Prim
  <2> QED BY <1>1, <2>1, TakesComing DEF ComesInv, Comes
<1>3. link_state = "RCVCHKRDY" => \/ Is(ReceivedWord, "SOF") /\ link_state' = "RCVDATA"
                                  \/ ~Is(ReceivedWord, "SOF") /\ link_state' = "RCVCHKRDY"
  <2>1. ASSUME link_state = "RCVCHKRDY", ReceivedWord.valid, ~Is(ReceivedWord, "SOF"), ~Is(ReceivedWord, "X_RDY")
        PROVE  FALSE
    <3> DEFINE w == ReceivedWord.word
    <3>1. w # Prim("SOF") /\ w # Prim("X_RDY") /\ w \in Coming
      BY <2>1, TakesComing DEF Is
    <3>2. Prim("SOF") \in Coming
      BY <2>1, <3>1 DEF ComesInv, Comes
    <3>3. ComingOrder({w}, F)
      BY <3>1 DEF ComesInv, SofFirst
    <3> HIDE DEF F
    <3>4. Coming \cap F = {}
      BY <2>1, <3>3, ComingPops DEF HostTakes
    <3> QED BY <3>2, <3>4 DEF F
  <2> QED BY <2>1 DEF HostListens
<1>4. link_state' \in Open \/ (m_link_state' = "WAIT" /\ link_state' \in Closing)
  BY <1>2, <1>3 DEF HostListens, HostTakes, ComesInv, Open, Closing
<1>5. \A v \in Coming' : v.prim => \/ v \in {Prim("X_RDY"), Prim("SOF")}
                                   \/ m_link_state' = "WAIT" /\ v \in {Prim("EOF"), Prim("WTRM")}
  BY TakesComing DEF HostTakes, ComesInv
<1>6. (Opening' <=> Opening) /\ (Opening => link_state' = "RCVCHKRDY" /\ Coming' \subseteq X)
  BY <1>1, <1>3, TakesComing DEF HostTakes, ComesInv, Opening
<1>7. link_state' = "RCVCHKRDY" => link_state = "RCVCHKRDY"
  BY TakesComing DEF HostListens, ComesInv
<1>8. link_state' = "RCVCHKRDY" => Opening \/ Comes({"SOF"})'
  <2>1. ASSUME link_state' = "RCVCHKRDY", ~Opening PROVE Prim("SOF") \in Coming'
    <3>1. Prim("SOF") \in Coming /\ ~Is(ReceivedWord, "SOF")
      BY <1>3, <1>7, <2>1 DEF ComesInv, Comes
    <3>2. ~ReceivedWord.valid \/ ReceivedWord.word # Prim("SOF")
      BY <3>1 DEF Is
    <3> QED BY <3>1, <3>2, ComingStays DEF HostTakes
  <2> QED BY <2>1 DEF Comes
<1>9. link_state' # "RCVCHKRDY" => ~Comes({"X_RDY"})'
  <2>1. CASE link_state # "RCVCHKRDY"
    BY <2>1, TakesComing DEF ComesInv, Comes
  <2>2. CASE link_state = "RCVCHKRDY" /\ Is(ReceivedWord, "SOF")
    <3>1. ComingOrder(F, X) /\ ReceivedWord.valid /\ ReceivedWord.word \in F
      BY <2>2 DEF ComesInv, Is
    <3> HIDE DEF F, X
    <3>2. Coming \cap X = {} /\ Coming' \subseteq Coming
      BY <3>1, ComingPops DEF HostTakes
    <3> QED BY <3>2 DEF Comes, X
  <2> QED BY <1>3, <2>1, <2>2
<1>10. SofFirst' /\ ComingOrder(F, X)'
  <2>1. SofFirst'
    BY ComingPops DEF HostTakes, ComesInv, SofFirst
  <2>2. ComingOrder(F, X)
    BY DEF ComesInv
  <2> HIDE DEF F, X
  <2>3. ComingOrder(F, X)'
    BY <2>2, ComingPops DEF HostTakes
  <2> QED BY <2>1, <2>3
<1>11. /\ m_phy_data \in Pipe
       /\ \/ m_phy_data' = m_phy_data
          \/ /\ m_phy_data'.prim /\ Kind(m_phy_data') # "sync"
             /\ Kind(m_phy_data') = "rdy" => link_state = "RCVCHKRDY"
             /\ Kind(m_phy_data') = "ans" => link_state \in {"GOODEND", "BADEND"}
  BY Kinds DEF HostListens, LinkMoves, Pipe, ComesInv, Open, Closing, Prim
<1>12. ~Has({"sync"})'
  BY <1>11, PipeContent DEF Has, ComesInv
<1>13. Has({"ans"})' => link_state' \in {"GOODEND", "BADEND"}
  <2>1. Has({"ans"})' => link_state \in {"GOODEND", "BADEND"}
    BY <1>11, PipeContent DEF Has, ComesInv
  <2> QED BY <1>2, <2>1 DEF HostListens
<1>14. Order({"ans"}, {"rdy"})'
  <2>1. ASSUME Has({"ans"}) PROVE Kind(m_phy_data') \notin {"rdy"} /\ m_phy_data'.prim
    <3>1. Kind(m_phy_data) # "rdy" /\ m_phy_data.prim
      BY <2>1 DEF ComesInv, SilentInv, Order, Has, Pipe
    <3> QED BY <1>11, <2>1, <3>1 DEF ComesInv
  <2> QED BY <2>1, PipeOrder DEF ComesInv
<1> QED BY <1>4, <1>5, <1>6, <1>8, <1>9, <1>10, <1>12, <1>13, <1>14 DEF ComesInv

\* The host's frame begins, or goes on.
LEMMA TxEdgeStale ==
  ASSUME BenchInv, FrameInv, HeardInv, HostTakes, HostListens, LinkMoves, PipeStep, Sending',
         NEW ready, NEW takes, ready <=> r_ready /\ LinkReady, FramerMoves(ready, takes)
  PROVE  StaleInv'
<1>1. \A p, q : Prim(p) = Prim(q) => p = q
  BY DEF Prim
<1>2. FramerRegs /\ FramerLink
  BY DEF FrameInv, FramerInv
<1>3. ~NoWord.valid /\ (\A w : Got(w).word = w /\ Got(w).valid)
  BY DEF NoWord, Got
<1>4. Kind(Prim("X_RDY")) = "other" /\ Kind(Prim("SYNC")) = "sync" /\ Prim("X_RDY").prim /\ Prim("SYNC").prim
  BY Kinds DEF Prim
<1>5. CASE ~Sending
  <2>1. link_state = "SENDCHKRDY" /\ link_state' = "SENDDATA" /\ Is(ReceivedWord, "R_RDY")
    BY <1>5 DEF LinkMoves
  <2>2. SilentInv /\ m_link_state = "RCV_CHKRDY"
    BY <1>5, <2>1, TakesComing DEF FrameInv, SilentInv
  <2>3. LinkReady /\ m_phy_data' = Prim("X_RDY") /\ m_phy_data \in {Prim("SYNC"), Prim("X_RDY")}
    BY <2>1 DEF HostListens, HeardInv
  <2>4. ~Comes({"X_RDY"})'
    <3> DEFINE A == {Prim("R_RDY")}
               B == {Prim("X_RDY")}
    <3>1. ComingOrder(A, B) /\ ReceivedWord.valid /\ ReceivedWord.word \in A
      BY <2>1, <2>2 DEF HeardInv, Is
    <3> HIDE DEF A, B
    <3>2. Coming \cap B = {} /\ Coming' \subseteq Coming
      BY <3>1, ComingPops DEF HostTakes
    <3> QED BY <3>2 DEF Comes, B
  <2>5. Unsent'
    <3>1. tx_state = "DATA" /\ ~ready /\ tx_word = Prim("SOF")
      BY <1>2, <1>5, <2>1 DEF FramerLink
    <3>2. tx_word' = Prim("SOF")
      BY <3>1 DEF FramerMoves
    <3> QED BY <2>1, <3>2 DEF Unsent
  <2>6. skid'.valid => Kind(skid'.word) # "rdy"
    BY <1>3, <1>4, <2>3 DEF PipeStep, AlignMoves, LinkReady
  <2>7. Kind(last_primitive') = "rdy" => skid'.valid
    BY <1>3, <1>4, <2>3 DEF PipeStep, AlignMoves, LinkReady
  <2>8. Kind(m_txphy') # "sof"
    <3>1. al_out \in Pipe
      BY DEF Pipe
    <3> QED BY <2>2, <3>1 DEF PipeStep, SilentInv, Has
  <2> QED BY <1>4, <2>3, <2>4, <2>5, <2>6, <2>7, <2>8 DEF StaleInv
<1>6. CASE Sending
  <2>1. StaleInv /\ SentInv
    BY <1>6 DEF HeardInv, FrameInv, SendingInv
  <2>2. ~Comes({"X_RDY"})'
    BY <2>1, TakesComing DEF StaleInv, Comes
  <2>3. Kind(m_phy_data') # "rdy"
    BY <1>6, <2>1 DEF HostListens, StaleInv, Sending
  <2>4. skid'.valid => Kind(skid'.word) # "rdy"
    BY <1>3, <2>1 DEF PipeStep, AlignMoves, StaleInv
  <2>5. ASSUME Kind(last_primitive') = "rdy"
        PROVE  Unsent' /\ m_phy_data' = Prim("X_RDY") /\ skid'.valid
    <3>1. last_primitive' = last_primitive /\ skid' = IF skid.valid THEN skid ELSE Got(m_phy_data)
      BY <1>4, <2>1, <2>5 DEF PipeStep, AlignMoves, StaleInv
    <3>2. Unsent /\ m_phy_data = Prim("X_RDY") /\ skid.valid
      BY <2>1, <2>5, <3>1 DEF StaleInv
    <3>3. link_state = "SENDDATA" /\ ~LinkReady /\ ~ready
      BY <1>2, <1>6, <3>2 DEF Unsent, Sending, FramerLink, LinkReady
    <3>4. m_phy_data' = m_phy_data /\ link_state' = "SENDDATA"
      BY <3>3 DEF LinkMoves
    <3>5. tx_word' = Prim("SOF")
      BY <3>2, <3>3 DEF FramerMoves, Unsent
    <3> QED BY <3>1, <3>2, <3>4, <3>5 DEF Unsent
  <2>6. ASSUME Kind(m_txphy') = "sof" PROVE Kind(al_out') # "rdy"
    <3>1. Kind(al_out) = "sof" /\ Has({"sof", "crc", "end"})
      BY <2>6 DEF PipeStep, Has, Pipe
    <3>2. Kind(last_primitive) # "rdy"
      BY <2>1, <3>1 DEF StaleInv, SentInv
    <3>3. Kind(Prim("CONT")) = "other" /\ Kind(Prim("ALIGN")) = "other"
      BY Kinds
    <3> QED BY <2>1, <3>1, <3>2, <3>3 DEF PipeStep, AlignMoves, SkidData, StaleInv
  <2> QED BY <2>2, <2>3, <2>4, <2>5, <2>6 DEF StaleInv
<1> QED BY <1>5, <1>6

LEMMA HostEdgeHeard ==
  ASSUME BenchInv, FrameInv, HeardInv, TxEdge, NEW arrives, NEW stalled, HostEdge(arrives, stalled),
         PipeStep, ~Lost(LinkInput)
  PROVE  HeardInv'
<1> DEFINE ready == SReady(LinkReady)
           takes == Takes(ready, arrives)
<1>1. LinkStep(LinkInput) /\ LinkTypeOK /\ FramerRegs
  BY DEF HostEdge, BenchInv, HostInv, FrameInv, FramerInv
<1>2. LinkMoves
  BY <1>1, LinkStepMoves
<1>3. HostListens
  <2>1. tx_state \in {"IDLE", "DATA", "EOF"}
    BY DEF BenchInv, HostInv, PacketsTypeOK
  <2>2. Kind(tx_word) \notin {"rdy", "ans", "sync"}
    BY <1>1, <2>1, Kinds DEF FramerRegs, MidFrame
  <2> QED BY <1>1, <2>2, LinkStepListens
<1>4. FramerMoves(ready, takes)
  <2>1. \E more : TxStep(ready, arrives, more)
    BY DEF HostEdge
  <2> HIDE DEF ready
  <2> QED BY <1>1, <2>1, TxStepMoves
<1>5. ready <=> r_ready /\ LinkReady
  BY DEF SReady
<1> HIDE DEF ready, takes
<1>6. HostTakes /\ UNCHANGED <<rx_linkup_xpipe, rx_linkup, m_sent_data, disk>>
  BY DEF TxEdge, HostTakes, bufVars, rxResetVars
<1>7. RxUp' /\ DataOK'
  <2>1. o_link_up => o_link_up'
    <3>1. \E fin : ResetStep(m_phy_ready, fin, al_out)
      BY DEF HostEdge
    <3>2. o_link_up' <=> fsm_state = "READY"
      BY <3>1, Zenon DEF ResetStep
    <3> QED BY <3>2 DEF FrameInv, LinkedInv
  <2>2. d2h # << >> => rx_linkup
    BY DEF HeardInv, RxUp
  <2>3. ReceivedWord.valid => d2h # << >>
    <3>1. Len(<< >>) = 0 /\ ~(0 > Lag)
      BY BenchAssumption
    <3> QED BY <3>1 DEF ReceivedWord, NoWord
  <2>4. d2h' # << >> => d2h # << >>
    BY <1>6, <2>3 DEF HostTakes
  <2>5. link_state' = "RCVCHKRDY" => rx_linkup
    BY <1>3, <2>2, <2>3 DEF HostListens, Is, HeardInv, RxUp
  <2> QED BY <1>6, <2>1, <2>2, <2>4, <2>5 DEF HeardInv, RxUp, DataOK
<1>8. m_link_state' \in Quiet => NoCall'
  BY <1>3, <1>6, TxEdgeQuiet DEF HeardInv, HostTakes
<1>9. m_link_state \notin Receiving => ~Sending /\ SilentInv
  BY DEF FrameInv, SendingInv, SentInv
<1>10. m_link_state' = "SEND_CHKRDY" => CalledInv'
  BY <1>3, <1>6, <1>9, TxEdgeCalls DEF HeardInv, HostTakes, Receiving
<1>11. m_link_state' \in Talking => ComesInv'
  BY <1>2, <1>3, <1>6, <1>9, TxEdgeComes DEF HeardInv, HostTakes, Receiving, Talking
<1>12. m_link_state' = "RCV_CHKRDY" => ComingOrder({Prim("R_RDY")}, {Prim("X_RDY")})'
  BY <1>6, ComingPops DEF HeardInv, HostTakes
<1>13. Sending' => StaleInv'
  BY <1>2, <1>3, <1>4, <1>5, <1>6, TxEdgeStale
<1>14. link_state' = "SENDCHKRDY" => m_phy_data' \in {Prim("SYNC"), Prim("X_RDY")}
  BY <1>3 DEF HostListens, HeardInv
<1> QED BY <1>7, <1>8, <1>10, <1>11, <1>12, <1>13, <1>14 DEF HeardInv

LEMMA TxEdgeHeard ==
  ASSUME BenchInv, StaysUp, FrameInv, HeardInv, TxEdge, Undisturbed'
  PROVE  HeardInv'
<1>1. "idle" \notin faults
  BY DEF TxEdge, Undisturbed, Departs, NoDeparture
<1>2. \/ HostInReset /\ Kind(m_txphy') = "other"
      \/ \E arrives, stalled : HostEdge(arrives, stalled) /\ PipeStep /\ ~Lost(LinkInput)
  BY <1>1, TxEdgePath DEF FrameInv
<1>3. CASE HostInReset /\ Kind(m_txphy') = "other"
  <2>1. HostTakes /\ UNCHANGED <<rx_linkup_xpipe, rx_linkup, m_sent_data, disk>>
    BY DEF TxEdge, HostTakes, bufVars, rxResetVars
  <2>2. UNCHANGED <<o_link_up, link_state, alignVars, m_phy_data, tx_word>>
    BY <1>3 DEF HostInReset, txResetVars, linkVars, alignVars, txVars
  <2>3. link_state = "RESET"
    BY <1>3 DEF FrameInv, LinkedInv, HostInReset
  <2>4. ~Sending /\ ~Sending' /\ link_state \notin Open \cup Closing
    BY <2>2, <2>3 DEF Sending, Open, Closing
  <2>5. RxUp' /\ DataOK'
    <3>1. ReceivedWord.valid => d2h # << >>
      <4>1. Len(<< >>) = 0 /\ ~(0 > Lag)
        BY BenchAssumption
      <4> QED BY <4>1 DEF ReceivedWord, NoWord
    <3>2. d2h' # << >> => d2h # << >>
      BY <2>1, <3>1 DEF HostTakes
    <3> QED BY <2>1, <2>2, <3>2 DEF HeardInv, RxUp, DataOK
  <2>6. /\ \A kinds : "other" \notin kinds /\ Has(kinds)' => Has(kinds)
        /\ \A A, B : "other" \notin A /\ Order(A, B) => Order(A, B)'
    BY <1>3, <2>2, PipeRests
  <2>7. Coming' \subseteq Coming
    BY <2>1, TakesComing
  <2>8. NoCall => NoCall'
    BY <2>2, <2>6, <2>7 DEF NoCall, Comes
  <2>9. CalledInv => CalledInv'
    <3>1. CallLast => CallLast'
      BY <2>1, ComingPops DEF CallLast, HostTakes
    <3> QED BY <2>1, <2>2, <2>3, <2>6, <3>1 DEF CalledInv, HostTakes
  <2>10. m_link_state \notin Talking
    BY <2>4 DEF HeardInv, ComesInv
  <2>11. m_link_state' = "RCV_CHKRDY" => ComingOrder({Prim("R_RDY")}, {Prim("X_RDY")})'
    BY <2>1, ComingPops DEF HeardInv, HostTakes
  <2>12. m_link_state' = m_link_state
    BY <2>1 DEF HostTakes
  <2> QED BY <2>3, <2>2, <2>4, <2>5, <2>8, <2>9, <2>10, <2>11, <2>12 DEF HeardInv
<1>4. ASSUME NEW arrives, NEW stalled, HostEdge(arrives, stalled), PipeStep, ~Lost(LinkInput)
      PROVE  HeardInv'
  BY <1>4, HostEdgeHeard
<1> QED BY <1>2, <1>3, <1>4

-----------------------------------------------------------------------------
(* The program, the beginning, and the theorem                              *)


\* What the inductive invariant reads besides the data.
heardVars == <<rx_linkup_xpipe, rx_linkup, o_link_up, link_state, d2h, m_link_state, m_data_count,
               m_rxphy, m_txphy, m_phy_data, last_primitive, al_out, skid, tx_word>>

LEMMA HeardRests ==
  ASSUME HeardInv, UNCHANGED heardVars, DataOK'
  PROVE  HeardInv'
<1>1. UNCHANGED <<rx_linkup_xpipe, rx_linkup, o_link_up, link_state, d2h, m_link_state, m_data_count,
                  m_rxphy, m_txphy, m_phy_data, last_primitive, al_out, skid, tx_word>>
  BY DEF heardVars
<1>2. Pipe' = Pipe /\ Coming' = Coming /\ (Sending' <=> Sending) /\ (Unsent' <=> Unsent)
  BY <1>1 DEF Pipe, Coming, Sending, Unsent
<1>3. /\ \A kinds : Has(kinds)' <=> Has(kinds)
      /\ \A A, B : (Order(A, B)' <=> Order(A, B)) /\ (ComingOrder(A, B)' <=> ComingOrder(A, B))
      /\ \A ps : Comes(ps)' <=> Comes(ps)
  BY <1>1, <1>2 DEF Has, Order, ComingOrder, Comes
<1>4. RxUp' /\ (NoCall => NoCall') /\ (StaleInv => StaleInv')
  BY <1>1, <1>2, <1>3 DEF HeardInv, RxUp, NoCall, StaleInv
<1>5. CalledInv => CalledInv'
  BY <1>1, <1>2, <1>3 DEF CalledInv, CallLast
<1>6. ComesInv => ComesInv'
  <2>1. Opening' <=> Opening
    BY <1>1 DEF Opening
  <2> QED BY <1>1, <1>2, <1>3, <2>1 DEF ComesInv, SofFirst
<1> QED BY <1>1, <1>2, <1>3, <1>4, <1>5, <1>6 DEF HeardInv

LEMMA ProgramHeard ==
  ASSUME BenchInv, HeardInv, Program
  PROVE  HeardInv'
<1>1. UNCHANGED <<phyVars, linkVars, alignVars, tx_word, m_link_state, m_txphy, m_rxphy, bufVars, d2h>>
  <2>1. ASSUME NEW op, Issue(op)
        PROVE  UNCHANGED <<phyVars, linkVars, alignVars, tx_word, m_link_state, m_txphy, m_rxphy, bufVars, d2h>>
    BY <2>1, Zenon DEF Issue, pathVars
  <2>2. ASSUME AllAside
        PROVE  UNCHANGED <<phyVars, linkVars, alignVars, tx_word, m_link_state, m_txphy, m_rxphy, bufVars, d2h>>
    BY <2>2, Zenon DEF AllAside, txVars, simVars
  <2>3. CASE NextTest
    BY <2>3, Zenon DEF NextTest, txVars, simVars, pathVars
  <2> QED BY <2>1, <2>2, <2>3 DEF Program, LinkComesUp, WriteReturns, ReadReturns, MainReturns,
             DeviceAside, WriteCommand, ReadCommand
<1>2. UNCHANGED heardVars
  BY <1>1, Zenon DEF heardVars, phyVars, resetVars, txResetVars, rxResetVars, linkVars, alignVars, bufVars
<1>3. DataOK'
  <2>1. m_sent_data' = m_sent_data \/ m_sent_data' = disk
    BY DEF Program, LinkComesUp, WriteReturns, ReadReturns, NextTest, MainReturns,
       DeviceAside, AllAside, WriteCommand, ReadCommand, ReadData, simVars
  <2>2. disk' = disk \/ disk' = [i \in 1 .. SectorWords |-> m_received_data[i]]
    BY DEF Program, LinkComesUp, WriteReturns, ReadReturns, NextTest, MainReturns,
       DeviceAside, WriteCommand, ReadCommand
  <2>3. [i \in 1 .. SectorWords |-> m_received_data[i]] \in Seq({m_received_data[i] : i \in 1 .. SectorWords})
    BY SectorAssumption
  <2> QED BY <2>1, <2>2, <2>3 DEF HeardInv, DataOK
<1> QED BY <1>2, <1>3, HeardRests

LEMMA HeardStarts ==
  ASSUME Init
  PROVE  HeardInv
<1>1. /\ link_state = "RESET" /\ m_phy_data = Prim("ALIGN")
      /\ ~rx_linkup_xpipe /\ ~rx_linkup
      /\ al_out = Prim("ALIGN") /\ last_primitive = Prim("ALIGN") /\ skid = NoWord
      /\ m_link_state = "SEND_ALIGN" /\ m_rxphy = NoWord
      /\ m_txphy = Scramble(<<"ZERO">>, 0)
      /\ d2h = << >> /\ m_sent_data = << >> /\ disk = [i \in 1 .. SectorWords |-> Zero]
  BY DEF Init, LinkInReset, ResetInit, AlignInReset, SimInit, NullData
<1>2. Kind(Prim("ALIGN")) = "other" /\ Kind(m_txphy) # "rdy" /\ ~NoWord.valid
  <2>1. ~m_txphy.prim
    BY <1>1 DEF Scramble
  <2> QED BY <2>1, Kinds DEF NoWord
<1>3. RxUp
  BY <1>1 DEF RxUp
<1>4. DataOK
  <2>1. << >> \in Seq({}) /\ [i \in 1 .. SectorWords |-> Zero] \in Seq({Zero})
    BY SectorAssumption
  <2> QED BY <1>1, <2>1 DEF DataOK
<1>5. NoCall
  <2>1. Coming = {} /\ ~Comes({"X_RDY"})
    BY <1>1, <1>2 DEF Coming, Comes
  <2>2. ~Has({"rdy"})
    BY <1>1, <1>2 DEF Has, Pipe
  <2> QED BY <1>1, <2>1, <2>2 DEF NoCall
<1>6. m_link_state \notin Talking /\ ~Sending
  BY <1>1 DEF Talking, Sending
<1> QED BY <1>1, <1>3, <1>4, <1>5, <1>6 DEF HeardInv

LEMMA HeardKeeps == Spec => [](Undisturbed => HeardInv)
<1>1. /\ BenchInv /\ UpInv /\ StaysUp /\ (Undisturbed => FrameInv) /\ (Undisturbed => HeardInv)
      /\ [Next]_vars
      => (Undisturbed => HeardInv)'
  <2> SUFFICES ASSUME BenchInv, UpInv, StaysUp, Undisturbed => FrameInv, Undisturbed => HeardInv,
                      [Next]_vars, Undisturbed'
               PROVE  HeardInv'
    OBVIOUS
  <2>1. CASE Program
    <3>1. faults \subseteq faults'
      BY <2>1 DEF Program, LinkComesUp, WriteReturns, ReadReturns, NextTest, MainReturns,
         DeviceAside, AllAside, WriteCommand, ReadCommand, Issue, pathVars, NoDeparture, Departs
    <3> QED BY <2>1, <3>1, ProgramHeard DEF Undisturbed
  <2>2. CASE TxEdge
    <3>1. faults \subseteq faults'
      BY <2>2 DEF TxEdge, NoDeparture, Departs
    <3> QED BY <2>2, <3>1, TxEdgeHeard DEF Undisturbed
  <2>3. CASE RxEdge
    <3>1. faults \subseteq faults'
      BY <2>3 DEF RxEdge, NoDeparture, Departs
    <3> QED BY <2>3, <3>1, RxEdgeHeard DEF Undisturbed
  <2>4. CASE UNCHANGED vars
    <3>1. UNCHANGED <<phyVars, linkVars, alignVars, txVars, simVars, pathVars, disk>>
      BY <2>4 DEF vars, benchVars
    <3>2. UNCHANGED <<faults, m_sent_data>> /\ UNCHANGED heardVars
      BY <3>1, Zenon DEF heardVars, phyVars, resetVars, txResetVars, rxResetVars, linkVars, alignVars,
         txVars, simVars, bufVars, pathVars
    <3>3. Undisturbed /\ HeardInv
      BY <3>2 DEF Undisturbed
    <3>4. DataOK'
      BY <3>1, <3>2, <3>3 DEF HeardInv, DataOK
    <3> QED BY <3>2, <3>3, <3>4, HeardRests
  <2> QED BY <2>1, <2>2, <2>3, <2>4 DEF Next, Done
<1>2. Init => (Undisturbed => HeardInv)
  BY HeardStarts
<1> QED BY <1>1, <1>2, BenchTypes, ComesUp, UpStays, FramesKeep, PTL DEF Spec

\* Collisions of satalnk_fsm.v and link_layer_model(): neither side sends a
\* word of a frame into a state of the other that drops it, whatever the lag,
\* however X_RDY and R_RDY of the two cross, however long pipelines run dry
\* and receivers stay full, and whatever damage reaches the device.
THEOREM FramesAreHeard == Spec => [](Undisturbed => Listened)
<1>1. FrameInv /\ HeardInv => Listened
  <2> SUFFICES ASSUME FrameInv, HeardInv PROVE Listened
    OBVIOUS
  <2>1. ASSUME link_state \in {"SENDDATA", "RCVRHOLD"} PROVE m_link_state \in {"RCV_CHKRDY", "RCV_DATA"}
    BY <2>1 DEF FrameInv, SendingInv, SentInv, Sending, Receiving, Judging
  <2>2. ASSUME m_link_state \in {"SEND_DATA", "SEND_EOF"}
        PROVE  link_state \in {"RCVCHKRDY", "RCVDATA", "HOLD", "RCVHOLD"}
    BY <2>2 DEF HeardInv, Talking, ComesInv, Open
  <2> QED BY <2>1, <2>2 DEF Listened
<1> QED BY <1>1, FramesKeep, HeardKeeps, PTL

=============================================================================
