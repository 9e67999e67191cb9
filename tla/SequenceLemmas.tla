--------------------------- MODULE SequenceLemmas ---------------------------
(***************************************************************************)
(* Facts about sequences that the proofs of both FIFO models need, about   *)
(* the rings that the serial drivers share with their handlers, and about  *)
(* division; and that a set of naturals has a least element, by which      *)
(* whatever holds of 0 and of every successor holds of all.                *)
(***************************************************************************)
EXTENDS Integers, Sequences, SequenceTheorems, WellFoundedInduction, TLAPS

\* Taking the head of t and putting it at the end of s keeps s \o t.
LEMMA MoveHead ==
  ASSUME NEW S, NEW s \in Seq(S), NEW t \in Seq(S), t # << >>
  PROVE  /\ Head(t) \in S /\ Tail(t) \in Seq(S)
         /\ Len(Tail(t)) = Len(t) - 1
         /\ Append(s, Head(t)) \o Tail(t) = s \o t
<1>1. Head(t) \in S /\ Tail(t) \in Seq(S) /\ Len(Tail(t)) = Len(t) - 1
  BY HeadTailProperties
<1>2. Append(s, Head(t)) \in Seq(S)
  BY <1>1, AppendProperties
<1>. DEFINE u == Append(s, Head(t)) \o Tail(t)
            v == s \o t
<1>3. u \in Seq(S) /\ v \in Seq(S)
  BY <1>1, <1>2, ConcatProperties
<1>4. Len(u) = Len(v)
  BY <1>1, <1>2, AppendProperties, ConcatProperties, LenProperties
<1>5. ASSUME NEW i \in 1 .. Len(u) PROVE u[i] = v[i]
  BY <1>1, <1>2, AppendProperties, ConcatProperties, LenProperties,
     HeadTailProperties
<1>6. u = v
  BY <1>3, <1>4, <1>5, SeqEqual
<1>. QED BY <1>1, <1>6

\* Appending to a concatenation appends to its second part.
LEMMA AppendInside ==
  ASSUME NEW S, NEW s \in Seq(S), NEW t \in Seq(S), NEW e \in S
  PROVE  Append(s \o t, e) = s \o Append(t, e)
<1>1. s \o t \in Seq(S) /\ <<e>> \in Seq(S)
  BY ConcatProperties
<1>2. Append(s \o t, e) = (s \o t) \o <<e>> /\ Append(t, e) = t \o <<e>>
  BY <1>1, AppendIsConcat
<1>. QED BY <1>1, <1>2, ConcatAssociative

-----------------------------------------------------------------------------
(***************************************************************************)
(* Rings of n places, of which one is never used: indices that wrap.       *)
(***************************************************************************)
RingHeld(n, s, e) == (e + n - s) % n
RingContents(n, b, s, e) == [i \in 1 .. RingHeld(n, s, e) |-> b[(s + i - 1) % n]]

LEMMA ModSmall ==
  ASSUME NEW n \in Nat \ {0}, NEW x \in 0 .. n - 1
  PROVE  x % n = x
OBVIOUS

LEMMA ModOnce ==
  ASSUME NEW n \in Nat \ {0}, NEW x \in n .. (2 * n) - 1
  PROVE  x % n = x - n
OBVIOUS

\* An index that went on by at most a whole turn.
LEMMA RingIndex ==
  ASSUME NEW n \in Nat \ {0}, NEW s \in 0 .. n - 1, NEW k \in 0 .. n
  PROVE  /\ (s + k) % n = IF s + k < n THEN s + k ELSE (s + k) - n
         /\ (s + k) % n \in 0 .. n - 1
<1>1. CASE s + k < n
  <2>1. s + k \in 0 .. n - 1
    BY <1>1
  <2>. QED BY <1>1, <2>1, ModSmall
<1>2. CASE ~(s + k < n)
  <2>1. s + k \in n .. (2 * n) - 1
    BY <1>2
  <2>2. (s + k) % n = (s + k) - n
    BY <2>1, ModOnce
  <2>. QED BY <1>2, <2>2
<1>. QED BY <1>1, <1>2

LEMMA RingHeldIs ==
  ASSUME NEW n \in Nat \ {0}, NEW s \in 0 .. n - 1, NEW e \in 0 .. n - 1
  PROVE  /\ s <= e => RingHeld(n, s, e) = e - s
         /\ ~(s <= e) => RingHeld(n, s, e) = (e + n) - s
         /\ RingHeld(n, s, e) \in 0 .. n - 1
         /\ RingHeld(n, s, e) = 0 <=> s = e
<1>1. CASE s <= e
  <2>1. e + n - s \in n .. (2 * n) - 1
    BY <1>1
  <2>2. (e + n - s) % n = e + n - s - n
    BY <2>1, ModOnce
  <2>. QED BY <1>1, <2>2 DEF RingHeld
<1>2. CASE ~(s <= e)
  <2>1. e + n - s \in 0 .. n - 1
    BY <1>2
  <2>2. (e + n - s) % n = e + n - s
    BY <2>1, ModSmall
  <2>. QED BY <1>2, <2>2 DEF RingHeld
<1>. QED BY <1>1, <1>2

\* The place of the i-th from s on.
RingPlace(n, s, i) == IF s + i - 1 < n THEN s + i - 1 ELSE (s + i - 1) - n

LEMMA RingPlaceIs ==
  ASSUME NEW n \in Nat \ {0}, NEW s \in 0 .. n - 1, NEW i \in 1 .. n
  PROVE  /\ (s + i - 1) % n = RingPlace(n, s, i)
         /\ RingPlace(n, s, i) \in 0 .. n - 1
<1>1. i - 1 \in 0 .. n /\ s + (i - 1) = s + i - 1
  OBVIOUS
<1>2. /\ (s + (i - 1)) % n = IF s + (i - 1) < n THEN s + (i - 1) ELSE (s + (i - 1)) - n
      /\ (s + (i - 1)) % n \in 0 .. n - 1
  BY <1>1, RingIndex
<1>. QED BY <1>1, <1>2 DEF RingPlace

LEMMA RingContentsAt ==
  ASSUME NEW n \in Nat \ {0}, NEW s \in 0 .. n - 1, NEW e \in 0 .. n - 1,
         NEW b, NEW i \in 1 .. RingHeld(n, s, e)
  PROVE  RingContents(n, b, s, e)[i] = b[RingPlace(n, s, i)]
<1>1. RingHeld(n, s, e) \in 0 .. n - 1
  BY RingHeldIs
<1>2. i \in 1 .. n
  BY <1>1
<1>3. (s + i - 1) % n = RingPlace(n, s, i)
  BY <1>2, RingPlaceIs
<1>. QED BY <1>3 DEF RingContents

LEMMA RingContentsIs ==
  ASSUME NEW n \in Nat \ {0}, NEW s \in 0 .. n - 1, NEW e \in 0 .. n - 1,
         NEW S, NEW b \in [0 .. n - 1 -> S]
  PROVE  /\ RingContents(n, b, s, e) \in Seq(S)
         /\ Len(RingContents(n, b, s, e)) = RingHeld(n, s, e)
<1>. DEFINE h == RingHeld(n, s, e)
<1>1. h \in 0 .. n - 1
  BY RingHeldIs
<1>. HIDE DEF h
<1>2. ASSUME NEW i \in 1 .. h PROVE b[(s + i - 1) % n] \in S
  <2>1. i \in 1 .. n
    BY <1>1
  <2>2. (s + i - 1) % n \in 0 .. n - 1
    BY <2>1, RingPlaceIs
  <2>. QED BY <2>2
<1>3. RingContents(n, b, s, e) = [i \in 1 .. h |-> b[(s + i - 1) % n]]
  BY DEF RingContents, h
<1>4. h \in Nat
  BY <1>1
<1>. QED BY <1>2, <1>3, <1>4 DEF h

\* What is added at the end, or taken from the start, is added to or taken
\* from what the ring holds.
LEMMA RingGrows ==
  ASSUME NEW n \in Nat \ {0}, NEW s \in 0 .. n - 1, NEW e \in 0 .. n - 1, NEW k \in Nat,
         RingHeld(n, s, e) + k <= n - 1
  PROVE  /\ (e + k) % n = IF e + k < n THEN e + k ELSE (e + k) - n
         /\ (e + k) % n \in 0 .. n - 1
         /\ RingHeld(n, s, (e + k) % n) = RingHeld(n, s, e) + k
<1>. DEFINE g == (e + k) % n
<1>1. /\ RingHeld(n, s, e) \in Nat
      /\ s <= e => RingHeld(n, s, e) = e - s
      /\ ~(s <= e) => RingHeld(n, s, e) = (e + n) - s
  BY RingHeldIs
<1>2. k \in 0 .. n
  BY <1>1
<1>3. /\ g = IF e + k < n THEN e + k ELSE (e + k) - n
      /\ g \in 0 .. n - 1
  BY <1>2, RingIndex
<1>4. /\ s <= g => RingHeld(n, s, g) = g - s
      /\ ~(s <= g) => RingHeld(n, s, g) = (g + n) - s
  <2>1. \A f \in 0 .. n - 1 : s <= f => RingHeld(n, s, f) = f - s
    BY RingHeldIs
  <2>2. \A f \in 0 .. n - 1 : ~(s <= f) => RingHeld(n, s, f) = (f + n) - s
    BY RingHeldIs
  <2>. QED BY <1>3, <2>1, <2>2
<1>5. CASE e + k < n
  BY <1>1, <1>3, <1>4, <1>5
<1>6. CASE ~(e + k < n)
  BY <1>1, <1>3, <1>4, <1>6
<1>. QED BY <1>3, <1>5, <1>6

LEMMA RingShrinks ==
  ASSUME NEW n \in Nat \ {0}, NEW s \in 0 .. n - 1, NEW e \in 0 .. n - 1,
         NEW k \in 0 .. RingHeld(n, s, e)
  PROVE  /\ (s + k) % n = IF s + k < n THEN s + k ELSE (s + k) - n
         /\ (s + k) % n \in 0 .. n - 1
         /\ RingHeld(n, (s + k) % n, e) = RingHeld(n, s, e) - k
<1>. DEFINE g == (s + k) % n
<1>1. /\ RingHeld(n, s, e) \in 0 .. n - 1
      /\ s <= e => RingHeld(n, s, e) = e - s
      /\ ~(s <= e) => RingHeld(n, s, e) = (e + n) - s
  BY RingHeldIs
<1>2. k \in 0 .. n /\ k <= RingHeld(n, s, e)
  BY <1>1
<1>3. /\ g = IF s + k < n THEN s + k ELSE (s + k) - n
      /\ g \in 0 .. n - 1
  BY <1>2, RingIndex
<1>4. /\ g <= e => RingHeld(n, g, e) = e - g
      /\ ~(g <= e) => RingHeld(n, g, e) = (e + n) - g
  <2>1. \A f \in 0 .. n - 1 : f <= e => RingHeld(n, f, e) = e - f
    BY RingHeldIs
  <2>2. \A f \in 0 .. n - 1 : ~(f <= e) => RingHeld(n, f, e) = (e + n) - f
    BY RingHeldIs
  <2>. QED BY <1>3, <2>1, <2>2
<1>5. CASE s + k < n
  BY <1>1, <1>2, <1>3, <1>4, <1>5
<1>6. CASE ~(s + k < n)
  BY <1>1, <1>2, <1>3, <1>4, <1>6
<1>. QED BY <1>3, <1>5, <1>6

\* Putting a sequence at the end, where there is room for it in one piece.
Rings(n, S) == [0 .. n - 1 -> S]
Strings(S) == Seq(S)
RingRoomFor(n, s, e, k) == e + k <= n /\ RingHeld(n, s, e) + k <= n - 1
RingWith(n, b, e, v) ==
  [j \in 0 .. n - 1 |-> IF e <= j /\ j < e + Len(v) THEN v[(j - e) + 1] ELSE b[j]]

LEMMA RingWithIs ==
  ASSUME NEW n \in Nat \ {0}, NEW e \in 0 .. n - 1,
         NEW S, NEW b \in [0 .. n - 1 -> S], NEW v \in Seq(S)
  PROVE  RingWith(n, b, e, v) \in [0 .. n - 1 -> S]
<1>1. Len(v) \in Nat
  BY LenProperties
<1>2. ASSUME NEW j \in 0 .. n - 1, e <= j, j < e + Len(v)
      PROVE  v[(j - e) + 1] \in S
  <2>1. (j - e) + 1 \in 1 .. Len(v)
    BY <1>1, <1>2
  <2>. QED BY <2>1, ElementOfSeq
<1>. QED BY <1>2 DEF RingWith

\* The places that k more take are those from the end on; what was held is
\* elsewhere.
LEMMA RingPlaces ==
  ASSUME NEW n \in Nat \ {0}, NEW s \in 0 .. n - 1, NEW e \in 0 .. n - 1, NEW k \in Nat,
         e + k <= n, RingHeld(n, s, e) + k <= n - 1, NEW i \in 1 .. RingHeld(n, s, e) + k
  PROVE  /\ RingPlace(n, s, i) \in 0 .. n - 1
         /\ i <= RingHeld(n, s, e) => ~(e <= RingPlace(n, s, i) /\ RingPlace(n, s, i) < e + k)
         /\ ~(i <= RingHeld(n, s, e)) => /\ e <= RingPlace(n, s, i)
                                         /\ RingPlace(n, s, i) < e + k
                                         /\ (RingPlace(n, s, i) - e) + 1 = i - RingHeld(n, s, e)
<1>. DEFINE h == RingHeld(n, s, e)
            p == RingPlace(n, s, i)
<1>1. h \in 0 .. n - 1 /\ h + k <= n - 1
  BY RingHeldIs
<1>2. p = IF s + i - 1 < n THEN s + i - 1 ELSE (s + i - 1) - n
  BY DEF RingPlace
<1>3. i \in 1 .. h + k
  OBVIOUS
<1>4. CASE s <= e
  <2>1. h = e - s
    BY <1>4, RingHeldIs
  <2>. HIDE DEF h, p
  <2>2. CASE s + i - 1 < n
    BY <1>1, <1>2, <1>3, <1>4, <2>1, <2>2 DEF h, p
  <2>3. CASE ~(s + i - 1 < n)
    BY <1>1, <1>2, <1>3, <1>4, <2>1, <2>3 DEF h, p
  <2>. QED BY <2>2, <2>3
<1>5. CASE ~(s <= e)
  <2>1. h = (e + n) - s
    BY <1>5, RingHeldIs
  <2>. HIDE DEF h, p
  <2>2. CASE s + i - 1 < n
    BY <1>1, <1>2, <1>3, <1>5, <2>1, <2>2 DEF h, p
  <2>3. CASE ~(s + i - 1 < n)
    BY <1>1, <1>2, <1>3, <1>5, <2>1, <2>3 DEF h, p
  <2>. QED BY <2>2, <2>3
<1>. QED BY <1>4, <1>5

LEMMA RingPut ==
  ASSUME NEW n \in Nat \ {0}, NEW s \in 0 .. n - 1, NEW e \in 0 .. n - 1,
         NEW S, NEW b \in Rings(n, S), NEW v \in Strings(S),
         RingRoomFor(n, s, e, Len(v))
  PROVE  RingContents(n, RingWith(n, b, e, v), s, (e + Len(v)) % n)
           = RingContents(n, b, s, e) \o v
<1>. DEFINE k == Len(v)
            c == RingWith(n, b, e, v)
            h == RingHeld(n, s, e)
            f == (e + k) % n
            old == RingContents(n, b, s, e)
            new == RingContents(n, c, s, f)
<1>11. b \in [0 .. n - 1 -> S] /\ v \in Seq(S)
  BY DEF Rings, Strings
<1>0. k \in Nat
  BY <1>11, LenProperties
<1>1. h \in Nat
  BY RingHeldIs
<1>10. e + k <= n /\ h + k <= n - 1
  BY DEF RingRoomFor
<1>2. f \in 0 .. n - 1 /\ RingHeld(n, s, f) = h + k
  BY <1>0, <1>10, RingGrows
<1>9. /\ c \in [0 .. n - 1 -> S]
      /\ \A j \in 0 .. n - 1 : c[j] = IF e <= j /\ j < e + k THEN v[(j - e) + 1] ELSE b[j]
  BY <1>11, RingWithIs DEF RingWith
<1>. HIDE DEF c, k
<1>3. /\ old \in Seq(S)
      /\ Len(old) = h
      /\ \A i \in 1 .. h : old[i] = b[RingPlace(n, s, i)]
  <2>1. old \in Seq(S) /\ Len(old) = h
    BY <1>11, RingContentsIs
  <2>2. ASSUME NEW i \in 1 .. h PROVE old[i] = b[RingPlace(n, s, i)]
    BY RingContentsAt, ZenonT(20)
  <2>. QED BY <2>1, <2>2
<1>4. /\ new \in Seq(S)
      /\ Len(new) = h + k
      /\ \A i \in 1 .. h + k : new[i] = c[RingPlace(n, s, i)]
  <2>. HIDE DEF f, h
  <2>1. new \in Seq(S) /\ Len(new) = RingHeld(n, s, f)
    BY <1>2, <1>9, RingContentsIs
  <2>2. \A i \in 1 .. RingHeld(n, s, f) : new[i] = c[RingPlace(n, s, i)]
    BY <1>2, RingContentsAt
  <2>. QED BY <1>2, <2>1, <2>2
<1>5. ASSUME NEW i \in 1 .. h + k
      PROVE  /\ RingPlace(n, s, i) \in 0 .. n - 1
             /\ i <= h => ~(e <= RingPlace(n, s, i) /\ RingPlace(n, s, i) < e + k)
             /\ ~(i <= h) => /\ e <= RingPlace(n, s, i)
                              /\ RingPlace(n, s, i) < e + k
                              /\ (RingPlace(n, s, i) - e) + 1 = i - h
  BY <1>0, <1>10, RingPlaces
<1>. HIDE DEF h, f, old, new
<1>6. /\ old \o v \in Seq(S)
      /\ Len(old \o v) = Len(old) + Len(v)
      /\ \A i \in 1 .. Len(old) + Len(v) :
           (old \o v)[i] = IF i <= Len(old) THEN old[i] ELSE v[i - Len(old)]
  BY <1>3, <1>11, ConcatProperties
<1>7. ASSUME NEW i \in 1 .. h + k PROVE new[i] = (old \o v)[i]
  <2>1. (old \o v)[i] = IF i <= h THEN old[i] ELSE v[i - h]
    BY <1>0, <1>1, <1>3, <1>6 DEF k
  <2>2. CASE i <= h
    <3>1. c[RingPlace(n, s, i)] = b[RingPlace(n, s, i)]
      BY <1>5, <1>9, <2>2
    <3>2. old[i] = b[RingPlace(n, s, i)]
      BY <1>1, <1>3, <2>2
    <3>. QED BY <1>4, <2>1, <2>2, <3>1, <3>2
  <2>3. CASE ~(i <= h)
    <3>1. c[RingPlace(n, s, i)] = v[i - h]
      BY <1>5, <1>9, <2>3
    <3>. QED BY <1>4, <2>1, <2>3, <3>1
  <2>. QED BY <2>2, <2>3
<1>8. new = old \o v
  <2>1. Len(new) = Len(old \o v)
    BY <1>3, <1>4, <1>6, <1>11 DEF k
  <2>2. \A i \in 1 .. Len(new) : new[i] = (old \o v)[i]
    BY <1>4, <1>7
  <2>. QED BY <1>4, <1>6, <2>1, <2>2, SeqEqual
<1>. QED BY <1>8 DEF c, k, f, old, new

\* Taking the first k.
LEMMA RingTake ==
  ASSUME NEW n \in Nat \ {0}, NEW s \in 0 .. n - 1, NEW e \in 0 .. n - 1,
         NEW S, NEW b \in [0 .. n - 1 -> S],
         NEW k \in 0 .. RingHeld(n, s, e)
  PROVE  RingContents(n, b, (s + k) % n, e)
           = SubSeq(RingContents(n, b, s, e), k + 1, RingHeld(n, s, e))
<1>. DEFINE h == RingHeld(n, s, e)
            f == (s + k) % n
            old == RingContents(n, b, s, e)
            new == RingContents(n, b, f, e)
            rest == SubSeq(old, k + 1, h)
<1>1. h \in 0 .. n - 1
  BY RingHeldIs
<1>4. k \in Nat /\ k <= h
  BY <1>1
<1>2. /\ f = IF s + k < n THEN s + k ELSE s + k - n
      /\ f \in 0 .. n - 1
      /\ RingHeld(n, f, e) = h - k
  BY <1>4, RingShrinks
<1>3. /\ old \in Seq(S)
      /\ Len(old) = h
      /\ \A i \in 1 .. h : old[i] = b[RingPlace(n, s, i)]
  <2>1. old \in Seq(S) /\ Len(old) = h
    BY RingContentsIs
  <2>2. ASSUME NEW i \in 1 .. h PROVE old[i] = b[RingPlace(n, s, i)]
    BY RingContentsAt, ZenonT(20)
  <2>. QED BY <2>1, <2>2
<1>. HIDE DEF f, h
<1>5. /\ new \in Seq(S)
      /\ Len(new) = h - k
      /\ \A i \in 1 .. h - k : new[i] = b[RingPlace(n, f, i)]
  <2>1. new \in Seq(S) /\ Len(new) = RingHeld(n, f, e)
    BY <1>2, RingContentsIs
  <2>2. ASSUME NEW i \in 1 .. RingHeld(n, f, e) PROVE new[i] = b[RingPlace(n, f, i)]
    <3>1. f \in 0 .. n - 1
      BY <1>2
    <3>. QED BY <3>1, RingContentsAt, SMTT(30)
  <2>. QED BY <1>2, <2>1, <2>2
<1>6. ASSUME NEW i \in 1 .. h - k
      PROVE  /\ k + i \in 1 .. h
             /\ RingPlace(n, f, i) = RingPlace(n, s, k + i)
  BY <1>1, <1>2, <1>4 DEF RingPlace
<1>. HIDE DEF old, new
<1>7. /\ rest \in Seq(S)
      /\ Len(rest) = h - k
      /\ \A i \in 1 .. h - k : rest[i] = old[k + i]
  <2>1. \A i \in k + 1 .. h : old[i] \in S
    BY <1>1, <1>3, ElementOfSeq
  <2>2. rest \in Seq(S)
    BY <1>1, <2>1, SubSeqProperties
  <2>3. Len(rest) = h - k
    BY <1>1, <1>3, <1>4, SubSeqProperties
  <2>4. \A i \in 1 .. h - k : rest[i] = old[k + i]
    BY <1>1, <1>3, <1>4, SubSeqProperties
  <2>. QED BY <2>2, <2>3, <2>4
<1>. HIDE DEF rest
<1>8. new = rest
  <2>1. ASSUME NEW i \in 1 .. h - k PROVE new[i] = rest[i]
    <3>1. new[i] = b[RingPlace(n, s, k + i)]
      BY <1>5, <1>6
    <3>2. rest[i] = b[RingPlace(n, s, k + i)]
      BY <1>3, <1>6, <1>7
    <3>. QED BY <3>1, <3>2
  <2>. QED BY <1>5, <1>7, <2>1, SeqEqual
<1>. QED BY <1>8 DEF h, f, old, new, rest

\* A ring is full when the place behind its end is its start.
LEMMA RingRoom ==
  ASSUME NEW n \in Nat \ {0}, NEW s \in 0 .. n - 1, NEW e \in 0 .. n - 1, (e + 1) % n # s
  PROVE  RingHeld(n, s, e) + 1 <= n - 1
<1>1. 1 \in 0 .. n
  OBVIOUS
<1>2. (e + 1) % n = IF e + 1 < n THEN e + 1 ELSE (e + 1) - n
  BY <1>1, RingIndex
<1>3. CASE s <= e
  <2>1. RingHeld(n, s, e) = e - s
    BY <1>3, RingHeldIs
  <2>. QED BY <1>2, <1>3, <2>1
<1>4. CASE ~(s <= e)
  <2>1. RingHeld(n, s, e) = (e + n) - s
    BY <1>4, RingHeldIs
  <2>. QED BY <1>2, <1>4, <2>1
<1>. QED BY <1>3, <1>4

\* The same for one element.
LEMMA RingPutUnit ==
  ASSUME NEW n \in Nat \ {0}, NEW s \in 0 .. n - 1, NEW e \in 0 .. n - 1,
         NEW S, NEW b \in [0 .. n - 1 -> S], NEW v \in Seq(S), Len(v) = 1,
         RingHeld(n, s, e) + 1 <= n - 1
  PROVE  RingContents(n, RingWith(n, b, e, v), s, (e + 1) % n) = RingContents(n, b, s, e) \o v
<1>1. RingRoomFor(n, s, e, Len(v))
  BY DEF RingRoomFor
<1>2. b \in Rings(n, S) /\ v \in Strings(S)
  BY DEF Rings, Strings
<1>3. RingContents(n, RingWith(n, b, e, v), s, (e + Len(v)) % n) = RingContents(n, b, s, e) \o v
  BY <1>1, <1>2, RingPut
<1>. QED BY <1>3

LEMMA RingPutOne ==
  ASSUME NEW n \in Nat \ {0}, NEW s \in 0 .. n - 1, NEW e \in 0 .. n - 1,
         NEW S, NEW b \in [0 .. n - 1 -> S], NEW x \in S, (e + 1) % n # s
  PROVE  /\ RingContents(n, [b EXCEPT ![e] = x], s, (e + 1) % n)
              = Append(RingContents(n, b, s, e), x)
         /\ (e + 1) % n \in 0 .. n - 1
         /\ [b EXCEPT ![e] = x] \in [0 .. n - 1 -> S]
<1>. DEFINE c == [b EXCEPT ![e] = x]
            old == RingContents(n, b, s, e)
<1>0. 1 \in 0 .. n
  OBVIOUS
<1>1. /\ (e + 1) % n = IF e + 1 < n THEN e + 1 ELSE (e + 1) - n
      /\ (e + 1) % n \in 0 .. n - 1
  BY <1>0, RingIndex
<1>2. RingHeld(n, s, e) + 1 <= n - 1
  BY RingRoom
<1>3. c \in [0 .. n - 1 -> S]
  OBVIOUS
<1>4. <<x>> \in Seq(S) /\ Len(<<x>>) = 1 /\ <<x>>[1] = x
  OBVIOUS
<1>5. \A j \in 0 .. n - 1 : c[j] = IF e <= j /\ j < e + 1 THEN <<x>>[(j - e) + 1] ELSE b[j]
  OBVIOUS
<1>6. e + 1 <= n
  OBVIOUS
<1>7. RingContents(n, c, s, (e + 1) % n) = old \o <<x>>
  <2>. DEFINE v == <<x>>
  <2>1. v \in Seq(S) /\ Len(v) = 1
    BY <1>4
  <2>2. c = RingWith(n, b, e, v)
    BY <1>5 DEF RingWith
  <2>. HIDE DEF c, v
  <2>3. RingContents(n, RingWith(n, b, e, v), s, (e + 1) % n) = old \o v
    BY <1>2, <2>1, RingPutUnit, SMTT(40)
  <2>. QED BY <2>2, <2>3 DEF v
<1>8. old \in Seq(S)
  BY RingContentsIs
<1>9. old \o <<x>> = Append(old, x)
  BY <1>8, AppendIsConcat
<1>. QED BY <1>1, <1>3, <1>7, <1>9 DEF c

LEMMA RingTakeOne ==
  ASSUME NEW n \in Nat \ {0}, NEW s \in 0 .. n - 1, NEW e \in 0 .. n - 1,
         NEW S, NEW b \in [0 .. n - 1 -> S], s # e
  PROVE  /\ RingContents(n, b, (s + 1) % n, e) = Tail(RingContents(n, b, s, e))
         /\ (s + 1) % n \in 0 .. n - 1
<1>. DEFINE h == RingHeld(n, s, e)
            old == RingContents(n, b, s, e)
<1>1. h \in 0 .. n - 1 /\ h # 0
  <2>1. h \in 0 .. n - 1
    BY RingHeldIs
  <2>2. h # 0
    BY RingHeldIs
  <2>. QED BY <2>1, <2>2
<1>2. 1 \in 0 .. h
  BY <1>1
<1>3. /\ RingContents(n, b, (s + 1) % n, e) = SubSeq(old, 2, h)
      /\ (s + 1) % n \in 0 .. n - 1
  <2>1. RingContents(n, b, (s + 1) % n, e) = SubSeq(old, 1 + 1, h)
    BY <1>2, RingTake
  <2>2. (s + 1) % n \in 0 .. n - 1
    BY <1>2, RingShrinks
  <2>. QED BY <2>1, <2>2
<1>4. old \in Seq(S) /\ Len(old) = h
  BY RingContentsIs
<1>. HIDE DEF h, old
<1>5. Tail(old) = SubSeq(old, 2, h)
  BY <1>1, <1>4
<1>6. RingContents(n, b, (s + 1) % n, e) = Tail(old)
  BY <1>3, <1>5
<1>. QED BY <1>3, <1>6 DEF old

\* Division with remainder, and that there is only one.
LEMMA Division ==
  ASSUME NEW x \in Int, NEW u \in Nat \ {0}
  PROVE  /\ x \div u \in Int /\ x % u \in 0 .. u - 1
         /\ x = u * (x \div u) + (x % u)
OBVIOUS

LEMMA DivisionUnique ==
  ASSUME NEW u \in Nat \ {0}, NEW k \in Int, NEW r \in 0 .. u - 1
  PROVE  /\ (u * k + r) \div u = k
         /\ (u * k + r) % u = r
<1>. DEFINE x == u * k + r
            d == x \div u
            m == x % u
<1>1. x \in Int
  OBVIOUS
<1>2. d \in Int /\ m \in 0 .. u - 1 /\ x = u * d + m
  BY <1>1, Division
<1>3. u * (k - d) = m - r
  BY <1>2
<1>. HIDE DEF d, m
<1>4. k - d \in Int /\ m - r < u /\ m - r > -u
  BY <1>2
<1>5. k - d = 0
  <2>. DEFINE y == k - d
  <2>1. y >= 1 => u * y >= u
    BY <1>2
  <2>2. y <= -1 => u * y <= -u
    BY <1>2
  <2>. QED BY <2>1, <2>2, <1>3, <1>4
<1>6. m = r
  BY <1>2, <1>3, <1>5
<1>. QED BY <1>2, <1>5, <1>6 DEF d, m

\* The order of the naturals as a relation, for the library's facts about such.
NatLess == {ss \in Nat \X Nat : ss[1] < ss[2]}

LEMMA NatLessIsWellFounded == IsWellFoundedOn(NatLess, Nat)
<1>1. OpToRel(<, Nat) = NatLess
  BY Zenon DEF OpToRel, NatLess
<1>. QED BY <1>1, NatLessThanWellFounded, Zenon

\* Induction on naturals takes the form of a least counterexample.
LEMMA LeastNatural ==
  ASSUME NEW T \in SUBSET Nat, T # {}
  PROVE  \E m \in T : \A k \in T : m <= k
<1>1. PICK m \in T : \A y \in T : ~ (<<y, m>> \in NatLess)
  BY NatLessIsWellFounded, WFMin, Zenon
<1>2. ASSUME NEW k \in T PROVE m <= k
  <2>1. m \in Nat /\ k \in Nat
    OBVIOUS
  <2>2. <<k, m>> \notin NatLess
    BY <1>1
  <2>3. ~(k < m)
    BY <2>1, <2>2 DEF NatLess
  <2>. QED BY <2>1, <2>3
<1>. QED BY <1>2

\* A set of naturals with 0 and the successor of every element is all of them.
LEMMA Induction ==
  ASSUME NEW T \in SUBSET Nat, 0 \in T, \A n \in T : n + 1 \in T
  PROVE  T = Nat
<1>. SUFFICES ASSUME Nat \ T # {} PROVE FALSE
  OBVIOUS
<1>1. PICK m \in Nat \ T : \A k \in Nat \ T : m <= k
  BY LeastNatural
<1>2. m # 0 /\ m - 1 \in Nat /\ ~(m <= m - 1)
  BY <1>1
<1>3. m - 1 \in T /\ (m - 1) + 1 = m
  BY <1>1, <1>2
<1>. QED BY <1>1, <1>3

\* A recursive function on 0 .. n exists, whatever its step g.
Recursive(S, seed, n, g) ==
  \E f \in [0 .. n -> S] : f[0] = seed /\ \A i \in 1 .. n : f[i] = g[<<i, f[i - 1]>>]

LEMMA Recursion ==
  ASSUME NEW S, NEW seed \in S, NEW n \in Nat, NEW g \in [(1 .. n) \X S -> S]
  PROVE  Recursive(S, seed, n, g)
<1>. DEFINE Upto(k) == \E f \in [0 .. k -> S] :
                         f[0] = seed /\ \A i \in 1 .. k : f[i] = g[<<i, f[i - 1]>>]
            T == {k \in Nat : k <= n => Upto(k)}
<1>1. 0 \in T
  <2>. DEFINE h == [i \in 0 .. 0 |-> seed]
  <2>1. h \in [0 .. 0 -> S] /\ h[0] = seed /\ 1 .. 0 = {}
    OBVIOUS
  <2>. HIDE DEF h
  <2>2. Upto(0)
    BY <2>1
  <2>. QED BY <2>2
<1>2. ASSUME NEW k \in T, k + 1 <= n PROVE Upto(k + 1)
  <2>1. k \in Nat /\ Upto(k)
    BY <1>2
  <2>2. PICK f \in [0 .. k -> S] : f[0] = seed /\ \A i \in 1 .. k : f[i] = g[<<i, f[i - 1]>>]
    BY <2>1
  <2>. DEFINE h == [i \in 0 .. k + 1 |-> IF i = k + 1 THEN g[<<k + 1, f[k]>>] ELSE f[i]]
  <2>3. k + 1 \in 1 .. n /\ f[k] \in S
    BY <1>2, <2>1
  <2>4. g[<<k + 1, f[k]>>] \in S
    BY <2>3
  <2>5. h \in [0 .. k + 1 -> S] /\ h[0] = seed /\ h[k + 1] = g[<<k + 1, f[k]>>]
        /\ \A i \in 0 .. k : h[i] = f[i]
    BY <2>1, <2>2, <2>4
  <2>. HIDE DEF h
  <2>6. ASSUME NEW i \in 1 .. k + 1 PROVE h[i] = g[<<i, h[i - 1]>>]
    <3>1. CASE i = k + 1
      <4>1. i - 1 = k /\ k \in 0 .. k
        BY <3>1, <2>1
      <4>2. h[i - 1] = f[k]
        BY <4>1, <2>5
      <4>. QED BY <3>1, <4>2, <2>5
    <3>2. CASE i # k + 1
      <4>1. i \in 1 .. k /\ i \in 0 .. k /\ i - 1 \in 0 .. k
        BY <2>1, <3>2
      <4>. QED BY <4>1, <2>2, <2>5
    <3>. QED BY <3>1, <3>2
  <2>. QED BY <2>5, <2>6
<1>3. \A k \in T : k + 1 \in T
  BY <1>2
<1>. HIDE DEF Upto
<1>4. n \in T
  <2>1. T \in SUBSET Nat
    OBVIOUS
  <2>. HIDE DEF T
  <2>. QED BY <1>1, <1>3, <2>1, Induction
<1>. QED BY <1>4 DEF Upto, Recursive

\* The same into the naturals.
LEMMA NatRecursion ==
  ASSUME NEW seed \in Nat, NEW n \in Nat, NEW g \in [(1 .. n) \X Nat -> Nat]
  PROVE  \E f \in [0 .. n -> Nat] : f[0] = seed /\ \A i \in 1 .. n : f[i] = g[<<i, f[i - 1]>>]
<1>1. Recursive(Nat, seed, n, g)
  BY Recursion
<1>. QED BY <1>1 DEF Recursive
=============================================================================
