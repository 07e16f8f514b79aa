--------------------------- MODULE ListPages_proofs ---------------------------
(***************************************************************************)
(* Following the footers lists everything once, and what changes between   *)
(* two calls can only hide or repeat as promised, for lists of any length, *)
(* any positive limit, any first offset and any number of changes.         *)
(***************************************************************************)
EXTENDS ListPages, SequenceLemmas

(***************************************************************************)
(* The list has grown by no more than what was added, and holds nothing    *)
(* else.                                                                   *)
(***************************************************************************)
ListInv ==
  /\ ToSet(items) \subseteq ToSet(initial) \cup added
  /\ Len(items) <= Len(initial) + Cardinality(added)
  /\ added = {} /\ removed = {} => items = initial

(***************************************************************************)
(* A sensible walk never raises; all its pages but the last were full.     *)
(***************************************************************************)
WalkInv ==
  Sensible =>
    /\ offset \in Nat
    /\ stage # "raised"
    /\ stage = "walking" => offset = start + pages * limit
    /\ stage = "walking" /\ pages > 0 => offset < Len(initial) + Cardinality(added)
    /\ WalkIsShort

(***************************************************************************)
(* What was seen is the stable list up to the offset; an entry not seen is *)
(* still to come, while nothing is removed; an entry still to come was not *)
(* seen, while nothing is added.                                           *)
(***************************************************************************)
StillToCome(x) == stage = "walking" /\ \E p \in 1..Len(items) : p > offset /\ items[p] = x

SeenUpTo == IF stage = "walking" THEN offset ELSE Len(initial)

StableInv == Sensible /\ added = {} /\ removed = {} => seen = SubSeq(initial, start + 1, SeenUpTo)

NothingMissed ==
  Sensible /\ removed = {} =>
    \A i \in 1..Len(initial) : i > start => initial[i] \in ToSet(seen) \/ StillToCome(initial[i])

NothingTwice ==
  Sensible /\ added = {} => IsInjective(seen) /\ \A x \in ToSet(seen) : ~StillToCome(x)

IInv == TypeOK /\ ListInv /\ WalkInv /\ StableInv /\ NothingMissed /\ NothingTwice

-------------------------------------------------------------------------------
(* Sequences                                                               *)

LEMMA LengthIsNat == ASSUME NEW S, NEW s \in Seq(S) PROVE Len(s) \in Nat
OBVIOUS

(***************************************************************************)
(* A part of a sequence, by length and elements.                           *)
(***************************************************************************)
LEMMA PartOf ==
  ASSUME NEW S, NEW s \in Seq(S), NEW from \in Nat, NEW to \in Nat, to <= Len(s)
  PROVE  /\ SubSeq(s, from + 1, to) \in Seq(S)
         /\ Len(SubSeq(s, from + 1, to)) = IF from < to THEN to - from ELSE 0
         /\ \A k \in 1..(to - from) : SubSeq(s, from + 1, to)[k] = s[from + k]
<1>1. Len(s) \in Nat /\ \A i \in 1..Len(s) : s[i] \in S
  OBVIOUS
<1>2. \A i \in (from + 1)..to : s[i] \in S
  BY <1>1
<1>3. from + 1 \in Int /\ to \in Int
  OBVIOUS
<1>4. /\ SubSeq(s, from + 1, to) \in Seq(S)
      /\ Len(SubSeq(s, from + 1, to)) = IF from + 1 <= to THEN to - (from + 1) + 1 ELSE 0
      /\ \A i \in 1..(to - (from + 1) + 1) :
           SubSeq(s, from + 1, to)[i] = s[(from + 1) + i - 1]
  BY <1>2, <1>3, SubSeqProperties
<1>5. \A k \in 1..(to - from) :
        k \in 1..(to - (from + 1) + 1) /\ (from + 1) + k - 1 = from + k
  OBVIOUS
<1>6. \A k \in 1..(to - from) : SubSeq(s, from + 1, to)[k] = s[from + k]
  BY <1>4, <1>5
<1>7. (IF from + 1 <= to THEN to - (from + 1) + 1 ELSE 0) = IF from < to THEN to - from ELSE 0
  OBVIOUS
<1> QED
  BY <1>4, <1>6, <1>7

LEMMA Joined ==
  ASSUME NEW S, NEW s \in Seq(S), NEW t \in Seq(S)
  PROVE  ToSet(s \o t) = ToSet(s) \cup ToSet(t)
<1>1. /\ Len(s) \in Nat /\ Len(t) \in Nat
      /\ s \o t \in Seq(S) /\ Len(s \o t) = Len(s) + Len(t)
      /\ \A k \in 1..(Len(s) + Len(t)) :
           (s \o t)[k] = IF k <= Len(s) THEN s[k] ELSE t[k - Len(s)]
  BY ConcatProperties
<1>2. \A k \in 1..Len(s) : k \in 1..(Len(s) + Len(t)) /\ (s \o t)[k] = s[k]
  BY <1>1
<1>3. ASSUME NEW k \in 1..Len(t)
      PROVE  k + Len(s) \in 1..(Len(s) + Len(t)) /\ (s \o t)[k + Len(s)] = t[k]
  <2>1. k + Len(s) \in 1..(Len(s) + Len(t)) /\ ~(k + Len(s) <= Len(s))
        /\ (k + Len(s)) - Len(s) = k
    BY <1>1
  <2> QED
    BY <1>1, <2>1
<1>4. \A k \in 1..(Len(s) + Len(t)) : k \in 1..Len(s) \/ k - Len(s) \in 1..Len(t)
  BY <1>1
<1>5. \A k \in 1..(Len(s) + Len(t)) : (s \o t)[k] \in ToSet(s) \cup ToSet(t)
  BY <1>1, <1>4 DEF ToSet
<1>6. ASSUME NEW x \in ToSet(s \o t) PROVE x \in ToSet(s) \cup ToSet(t)
  <2>1. PICK k \in DOMAIN (s \o t) : x = (s \o t)[k]
    BY DEF ToSet
  <2>2. k \in 1..(Len(s) + Len(t))
    BY <1>1
  <2> QED
    BY <1>5, <2>1, <2>2
<1>7. ASSUME NEW x \in ToSet(s) PROVE x \in ToSet(s \o t)
  BY <1>1, <1>2 DEF ToSet
<1>8. ASSUME NEW x \in ToSet(t) PROVE x \in ToSet(s \o t)
  <2>1. PICK k \in 1..Len(t) : x = t[k]
    BY DEF ToSet
  <2>2. k + Len(s) \in DOMAIN (s \o t) /\ (s \o t)[k + Len(s)] = x
    BY <1>1, <1>3, <2>1
  <2> QED
    BY <2>2 DEF ToSet
<1> QED
  BY <1>6, <1>7, <1>8

(***************************************************************************)
(* Two sequences without repetition and without a common element.          *)
(***************************************************************************)
LEMMA JoinedApart ==
  ASSUME NEW S, NEW s \in Seq(S), NEW t \in Seq(S), IsInjective(s), IsInjective(t),
         \A x \in ToSet(s) : x \notin ToSet(t)
  PROVE  IsInjective(s \o t)
<1>1. /\ Len(s) \in Nat /\ Len(t) \in Nat
      /\ s \o t \in Seq(S) /\ Len(s \o t) = Len(s) + Len(t)
      /\ \A k \in 1..(Len(s) + Len(t)) :
           (s \o t)[k] = IF k <= Len(s) THEN s[k] ELSE t[k - Len(s)]
  BY ConcatProperties
<1>2. /\ \A i, j \in 1..Len(s) : s[i] = s[j] => i = j
      /\ \A i, j \in 1..Len(t) : t[i] = t[j] => i = j
      /\ \A i \in 1..Len(s), j \in 1..Len(t) : s[i] # t[j]
  BY DEF IsInjective, ToSet
<1>3. ASSUME NEW i \in 1..(Len(s) + Len(t)), NEW j \in 1..(Len(s) + Len(t)),
             (s \o t)[i] = (s \o t)[j]
      PROVE  i = j
  <2>1. CASE i <= Len(s) /\ j <= Len(s)
    <3>1. i \in 1..Len(s) /\ j \in 1..Len(s)
      BY <1>1, <2>1
    <3> QED
      BY <1>1, <1>2, <1>3, <2>1, <3>1
  <2>2. CASE i <= Len(s) /\ ~(j <= Len(s))
    <3>1. i \in 1..Len(s) /\ j - Len(s) \in 1..Len(t)
      BY <1>1, <2>2
    <3> QED
      BY <1>1, <1>2, <1>3, <2>2, <3>1
  <2>3. CASE ~(i <= Len(s)) /\ j <= Len(s)
    <3>1. i - Len(s) \in 1..Len(t) /\ j \in 1..Len(s)
      BY <1>1, <2>3
    <3> QED
      BY <1>1, <1>2, <1>3, <2>3, <3>1
  <2>4. CASE ~(i <= Len(s)) /\ ~(j <= Len(s))
    <3>1. i - Len(s) \in 1..Len(t) /\ j - Len(s) \in 1..Len(t)
      BY <1>1, <2>4
    <3>2. i - Len(s) = j - Len(s)
      BY <1>1, <1>2, <1>3, <2>4, <3>1
    <3> QED
      BY <1>1, <3>2
  <2> QED
    BY <2>1, <2>2, <2>3, <2>4
<1>4. DOMAIN (s \o t) = 1..(Len(s) + Len(t))
  BY <1>1
<1> QED
  BY <1>3, <1>4 DEF IsInjective

LEMMA JoinedParts ==
  ASSUME NEW S, NEW s \in Seq(S), NEW a \in Nat, NEW b \in Nat, NEW c \in Nat,
         a <= b, b <= c, c <= Len(s)
  PROVE  SubSeq(s, a + 1, b) \o SubSeq(s, b + 1, c) = SubSeq(s, a + 1, c)
<1> DEFINE front == SubSeq(s, a + 1, b)
           back  == SubSeq(s, b + 1, c)
           whole == SubSeq(s, a + 1, c)
<1>1. /\ front \in Seq(S) /\ Len(front) = b - a
      /\ \A k \in 1..(b - a) : front[k] = s[a + k]
  BY PartOf, LengthIsNat
<1>2. /\ back \in Seq(S) /\ Len(back) = c - b
      /\ \A k \in 1..(c - b) : back[k] = s[b + k]
  BY PartOf, LengthIsNat
<1>3. /\ whole \in Seq(S) /\ Len(whole) = c - a
      /\ \A k \in 1..(c - a) : whole[k] = s[a + k]
  BY PartOf, LengthIsNat
<1> HIDE DEF front, back, whole
<1>4. /\ front \o back \in Seq(S) /\ Len(front \o back) = (b - a) + (c - b)
      /\ \A k \in 1..((b - a) + (c - b)) :
           (front \o back)[k] = IF k <= b - a THEN front[k] ELSE back[k - (b - a)]
  <2>1. /\ front \o back \in Seq(S) /\ Len(front \o back) = Len(front) + Len(back)
        /\ \A k \in 1..(Len(front) + Len(back)) :
             (front \o back)[k] = IF k <= Len(front) THEN front[k] ELSE back[k - Len(front)]
    BY <1>1, <1>2, ConcatProperties
  <2>2. Len(front) = b - a /\ Len(back) = c - b
    BY <1>1, <1>2
  <2> QED
    BY Zenon, <2>1, <2>2
<1>5. (b - a) + (c - b) = c - a
  OBVIOUS
<1>6. ASSUME NEW k \in 1..(c - a) PROVE (front \o back)[k] = s[a + k]
  <2>1. CASE k <= b - a
    BY <1>1, <1>4, <1>5, <2>1
  <2>2. CASE ~(k <= b - a)
    <3>1. k - (b - a) \in 1..(c - b) /\ b + (k - (b - a)) = a + k
      BY <2>2
    <3> QED
      BY <1>2, <1>4, <1>5, <2>2, <3>1
  <2> QED
    BY <2>1, <2>2
<1>7. Len(front \o back) = Len(whole) /\ \A k \in 1..Len(whole) : (front \o back)[k] = whole[k]
  BY <1>3, <1>4, <1>5, <1>6
<1>8. front \o back = whole
  BY <1>3, <1>4, <1>7, SeqEqual
<1> QED
  BY <1>8 DEF front, back, whole

(***************************************************************************)
(* What was in a list is in it still after an insertion, at its place or   *)
(* the next.                                                               *)
(***************************************************************************)
LEMMA InsertedAt ==
  ASSUME NEW S, NEW s \in Seq(S), NEW at \in 1..(Len(s) + 1), NEW e \in S,
         NEW t, t = InsertAt(s, at, e)
  PROVE  /\ t \in Seq(S) /\ Len(t) = Len(s) + 1
         /\ t[at] = e
         /\ \A k \in 1..Len(s) : IF k < at THEN t[k] = s[k] ELSE t[k + 1] = s[k]
<1> DEFINE front == SubSeq(s, 1, at - 1)
           back  == SubSeq(s, at, Len(s))
<1>1. Len(s) \in Nat /\ at - 1 \in Nat /\ at - 1 <= Len(s) /\ (at - 1) + 1 = at
  OBVIOUS
<1>2. /\ front \in Seq(S) /\ Len(front) = at - 1
      /\ \A k \in 1..(at - 1) : front[k] = s[k]
  BY <1>1, PartOf, 0 + 1 = 1
<1>3. /\ back \in Seq(S) /\ Len(back) = Len(s) + 1 - at
      /\ \A k \in 1..(Len(s) + 1 - at) : back[k] = s[(at - 1) + k]
  <2>1. /\ back \in Seq(S)
        /\ Len(back) = IF at - 1 < Len(s) THEN Len(s) - (at - 1) ELSE 0
        /\ \A k \in 1..(Len(s) - (at - 1)) : back[k] = s[(at - 1) + k]
    BY <1>1, PartOf
  <2>2. Len(s) - (at - 1) = Len(s) + 1 - at
    BY <1>1
  <2> QED
    BY <1>1, <2>1, <2>2
<1> HIDE DEF front, back
<1> DEFINE first == front \o <<e>>
<1>4. /\ first \in Seq(S) /\ Len(first) = at
      /\ \A k \in 1..at : first[k] = IF k < at THEN s[k] ELSE e
  <2>1. first = Append(front, e)
    BY <1>2
  <2>2. first \in Seq(S) /\ Len(first) = (at - 1) + 1
        /\ \A k \in 1..Len(first) : first[k] = IF k <= at - 1 THEN front[k] ELSE e
    BY <1>2, <2>1
  <2>3. \A k \in 1..at : k <= at - 1 <=> k < at
    OBVIOUS
  <2> HIDE DEF first
  <2> QED
    BY <1>1, <1>2, <2>2, <2>3
<1> HIDE DEF first
<1>5. /\ first \o back \in Seq(S) /\ Len(first \o back) = Len(s) + 1
      /\ \A k \in 1..(Len(s) + 1) :
           (first \o back)[k] = IF k <= at THEN first[k] ELSE back[k - at]
  <2>1. /\ first \o back \in Seq(S) /\ Len(first \o back) = Len(first) + Len(back)
        /\ \A k \in 1..(Len(first) + Len(back)) :
             (first \o back)[k] = IF k <= Len(first) THEN first[k] ELSE back[k - Len(first)]
    BY <1>3, <1>4, ConcatProperties
  <2>2. Len(first) = at /\ Len(first) + Len(back) = Len(s) + 1
    BY <1>1, <1>3, <1>4
  <2> QED
    BY Zenon, <2>1, <2>2
<1>6. t = first \o back
  BY DEF InsertAt, first, front, back
<1>7. t[at] = e
  BY <1>4, <1>5, <1>6
<1>8. ASSUME NEW k \in 1..Len(s)
      PROVE  IF k < at THEN t[k] = s[k] ELSE t[k + 1] = s[k]
  <2>1. CASE k < at
    BY <1>4, <1>5, <1>6, <2>1
  <2>2. CASE ~(k < at)
    <3>1. /\ k + 1 \in 1..(Len(s) + 1) /\ ~(k + 1 <= at)
          /\ (k + 1) - at \in 1..(Len(s) + 1 - at)
          /\ (at - 1) + ((k + 1) - at) = k
      BY <1>1, <2>2
    <3> QED
      BY <1>3, <1>5, <1>6, <2>2, <3>1
  <2> QED
    BY <2>1, <2>2
<1> QED
  BY <1>5, <1>6, <1>7, <1>8

LEMMA Inserting ==
  ASSUME NEW S, NEW s \in Seq(S), NEW at \in 1..(Len(s) + 1), NEW e \in S,
         NEW t, t = InsertAt(s, at, e), IsInjective(s), e \notin ToSet(s)
  PROVE  ToSet(t) \subseteq ToSet(s) \cup {e} /\ IsInjective(t)
<1>1. /\ Len(s) \in Nat /\ DOMAIN t = 1..(Len(s) + 1) /\ t[at] = e
      /\ \A k \in 1..Len(s) : IF k < at THEN t[k] = s[k] ELSE t[k + 1] = s[k]
  BY InsertedAt, LengthIsNat
<1>2. ASSUME NEW k \in 1..(Len(s) + 1), k # at
      PROVE  LET was == IF k < at THEN k ELSE k - 1 IN was \in 1..Len(s) /\ t[k] = s[was]
  <2>1. CASE k < at
    <3>1. k \in 1..Len(s)
      BY <1>1, <2>1
    <3> QED
      BY <1>1, <2>1, <3>1
  <2>2. CASE ~(k < at)
    <3>1. k - 1 \in 1..Len(s) /\ ~(k - 1 < at) /\ (k - 1) + 1 = k
      BY <1>1, <1>2, <2>2
    <3> QED
      BY <1>1, <2>2, <3>1
  <2> QED
    BY <2>1, <2>2
<1>3. \A k \in 1..Len(s) : s[k] \in ToSet(s) /\ s[k] # e
  BY DEF ToSet
<1>4. \A i, j \in 1..Len(s) : s[i] = s[j] => i = j
  BY DEF IsInjective
<1>5. ToSet(t) \subseteq ToSet(s) \cup {e}
  BY <1>1, <1>2, <1>3 DEF ToSet
<1>6. ASSUME NEW i \in 1..(Len(s) + 1), NEW j \in 1..(Len(s) + 1), t[i] = t[j]
      PROVE  i = j
  <2>1. CASE i = at \/ j = at
    BY ZenonT(60), <1>1, <1>2, <1>3, <1>6, <2>1
  <2>2. CASE i # at /\ j # at
    <3> DEFINE iWas == IF i < at THEN i ELSE i - 1
               jWas == IF j < at THEN j ELSE j - 1
    <3>1. iWas \in 1..Len(s) /\ jWas \in 1..Len(s) /\ t[i] = s[iWas] /\ t[j] = s[jWas]
      BY <1>2, <2>2
    <3>2. iWas = jWas
      <4> HIDE DEF iWas, jWas
      <4> QED
        BY <1>4, <1>6, <3>1
    <3> QED
      BY <2>2, <3>2
  <2> QED
    BY <2>1, <2>2
<1> QED
  BY <1>1, <1>5, <1>6 DEF IsInjective

(***************************************************************************)
(* What is in a list after a deletion was in it before, at its place or    *)
(* the next.                                                               *)
(***************************************************************************)
LEMMA DeletedAt ==
  ASSUME NEW S, NEW s \in Seq(S), IsInjective(s), NEW at \in 1..Len(s),
         NEW t, t = RemoveAt(s, at)
  PROVE  /\ t \in Seq(S) /\ Len(t) = Len(s) - 1 /\ IsInjective(t)
         /\ ToSet(t) \subseteq ToSet(s)
         /\ \A k \in 1..Len(t) : t[k] = IF k < at THEN s[k] ELSE s[k + 1]
<1>1. t = RemoveFirst(s, s[at])
  <2> DEFINE I == {k \in 1..Len(s) : s[k] = s[at]}
  <2>1. I = {at}
    BY DEF IsInjective
  <2>2. Min(I) = at
    BY <2>1 DEF Min
  <2>3. SelectInSeq(s, LAMBDA v : v = s[at]) = at
    BY <2>1, <2>2 DEF SelectInSeq
  <2> QED
    BY <2>3 DEF RemoveFirst
<1>2. /\ t \in Seq(S) /\ Len(t) = Len(s) - 1
      /\ \A k \in 1..(Len(s) - 1) : t[k] = IF k < at THEN s[k] ELSE s[k + 1]
  BY <1>1, RemovedAt
<1>3. IsInjective(t) /\ ToSet(t) = ToSet(s) \ {s[at]}
  BY <1>1, Removing
<1> QED
  BY <1>2, <1>3

-------------------------------------------------------------------------------
(* paginate_iter                                                           *)

(***************************************************************************)
(* A slice, for any two indices.                                           *)
(***************************************************************************)
LEMMA SliceType ==
  ASSUME NEW S, NEW seq \in Seq(S), NEW from \in Int, NEW to \in Int
  PROVE  Slice(seq, from, to) \in Seq(S)
<1> DEFINE index(i) == IF i >= 0 THEN Least(i, Len(seq))
                       ELSE IF Len(seq) + i > 0 THEN Len(seq) + i ELSE 0
<1>1. Len(seq) \in Nat
  OBVIOUS
<1>2. ASSUME NEW i \in Int PROVE index(i) \in Nat /\ index(i) <= Len(seq)
  BY <1>1 DEF Least
<1>3. SubSeq(seq, index(from) + 1, index(to)) \in Seq(S)
  <2>1. /\ index(from) \in Nat /\ index(from) <= Len(seq)
        /\ index(to) \in Nat /\ index(to) <= Len(seq)
    BY <1>2
  <2> HIDE DEF index
  <2> QED
    BY <2>1, PartOf
<1> QED
  BY <1>3 DEF Slice

(***************************************************************************)
(* A slice between indices that do not count from the end.                 *)
(***************************************************************************)
LEMMA SliceOf ==
  ASSUME NEW S, NEW seq \in Seq(S), NEW from \in Nat, NEW to \in Nat
  PROVE  Slice(seq, from, to) = SubSeq(seq, Least(from, Len(seq)) + 1, Least(to, Len(seq)))
<1>1. from >= 0 /\ to >= 0
  OBVIOUS
<1> QED
  BY Zenon, <1>1 DEF Slice

(***************************************************************************)
(* A page holds entries, and no more than a non-negative limit, whatever   *)
(* the offset.                                                             *)
(***************************************************************************)
LEMMA PageType ==
  ASSUME NEW S, NEW seq \in Seq(S), NEW lim \in Int, NEW off \in Int
  PROVE  /\ Page(seq, lim, off) \in Seq(S)
         /\ lim >= 0 => Len(Page(seq, lim, off)) <= lim
         /\ IsTruncated(seq, lim, off) \in BOOLEAN
<1> DEFINE window == Window(seq, lim, off)
<1>1. window \in Seq(S)
  BY SliceType DEF Window
<1>2. Slice(window, 0, lim) \in Seq(S)
  BY <1>1, SliceType
<1>3. ASSUME lim >= 0, Len(window) > lim PROVE Len(Slice(window, 0, lim)) <= lim
  <2> HIDE DEF window
  <2>1. Len(window) \in Nat /\ lim \in Nat
    BY <1>1, <1>3
  <2>2. 0 = Least(0, Len(window)) /\ lim = Least(lim, Len(window))
    BY <1>3, <2>1 DEF Least
  <2>3. Len(Slice(window, 0, lim)) = IF 0 < lim THEN lim - 0 ELSE 0
    <3>1. Slice(window, 0, lim) = SubSeq(window, 0 + 1, lim)
      BY Zenon, <1>1, <2>1, <2>2, SliceOf, 0 \in Nat
    <3> QED
      BY <1>1, <1>3, <2>1, <3>1, PartOf, 0 \in Nat
  <2> QED
    BY <2>1, <2>3
<1>4. Len(window) \in Nat
  BY <1>1
<1> HIDE DEF window
<1>5. /\ IsTruncated(seq, lim, off) <=> Len(window) > lim
      /\ Page(seq, lim, off) = IF Len(window) > lim THEN Slice(window, 0, lim) ELSE window
      /\ IsTruncated(seq, lim, off) \in BOOLEAN
  BY DEF window, Page, IsTruncated
<1> QED
  BY <1>1, <1>2, <1>3, <1>4, <1>5

(***************************************************************************)
(* With a positive limit and an offset that does not count from the end, a *)
(* page is the entries from the offset to the limit or the end of the      *)
(* list, and there is a footer if the list goes on.                        *)
(***************************************************************************)
LEMMA PageOf ==
  ASSUME NEW S, NEW seq \in Seq(S), NEW lim \in Nat \ {0}, NEW off \in Nat,
         NEW to, to = Least(off + lim, Len(seq))
  PROVE  /\ IsTruncated(seq, lim, off) <=> off + lim < Len(seq)
         /\ Len(Page(seq, lim, off)) = IF off < to THEN to - off ELSE 0
         /\ \A k \in 1..Len(Page(seq, lim, off)) : Page(seq, lim, off)[k] = seq[off + k]
<1> DEFINE consumed == Slice(seq, 0, off + lim + 1)
           window == Slice(consumed, off, off + lim + 1)
           n == Least(off + lim + 1, Len(seq))
           a == Least(off, n)
<1>1. Len(seq) \in Nat
  OBVIOUS
<1>2. /\ n \in Nat /\ n <= Len(seq) /\ a \in Nat /\ a <= n
      /\ 0 = Least(0, Len(seq)) /\ n = Least(off + lim + 1, n)
  BY <1>1 DEF Least
<1>3. /\ consumed \in Seq(S) /\ Len(consumed) = n
      /\ \A k \in 1..n : consumed[k] = seq[k]
  <2>1. off + lim + 1 \in Nat
    OBVIOUS
  <2> HIDE DEF n, a
  <2>2. /\ consumed \in Seq(S)
        /\ Len(consumed) = IF 0 < n THEN n - 0 ELSE 0
        /\ \A k \in 1..(n - 0) : consumed[k] = seq[0 + k]
    <3>1. n = Least(off + lim + 1, Len(seq))
      BY DEF n
    <3>2. consumed = SubSeq(seq, 0 + 1, n)
      <4>1. Slice(seq, 0, off + lim + 1)
              = SubSeq(seq, Least(0, Len(seq)) + 1, Least(off + lim + 1, Len(seq)))
        BY <2>1, SliceOf, 0 \in Nat
      <4>2. 0 = Least(0, Len(seq))
        BY <1>2
      <4> QED
        BY Zenon, <3>1, <4>1, <4>2 DEF consumed
    <3> HIDE DEF consumed
    <3> QED
      BY <1>2, <3>2, PartOf, 0 \in Nat
  <2> HIDE DEF consumed
  <2>3. (IF 0 < n THEN n - 0 ELSE 0) = n /\ n - 0 = n /\ \A k \in 1..n : 0 + k = k
    BY <1>2
  <2> QED
    BY <1>2, <2>2, <2>3
<1>4. /\ window \in Seq(S) /\ Len(window) = n - a
      /\ \A k \in 1..(n - a) : window[k] = seq[a + k]
  <2>1. off + lim + 1 \in Nat
    OBVIOUS
  <2> HIDE DEF consumed
  <2>2. a = Least(off, Len(consumed)) /\ n = Least(off + lim + 1, Len(consumed))
    BY <1>2, <1>3
  <2> HIDE DEF n, a
  <2>3. /\ window \in Seq(S)
        /\ Len(window) = IF a < n THEN n - a ELSE 0
        /\ \A k \in 1..(n - a) : window[k] = consumed[a + k]
    <3>1. window = SubSeq(consumed, a + 1, n)
      BY Zenon, <1>3, <2>1, <2>2, SliceOf
    <3> HIDE DEF window
    <3>2. /\ SubSeq(consumed, a + 1, n) \in Seq(S)
          /\ Len(SubSeq(consumed, a + 1, n)) = IF a < n THEN n - a ELSE 0
          /\ \A k \in 1..(n - a) : SubSeq(consumed, a + 1, n)[k] = consumed[a + k]
      <4>1. consumed \in Seq(S) /\ a \in Nat /\ n \in Nat /\ n <= Len(consumed)
        BY <1>2, <1>3
      <4> QED
        BY <4>1, PartOf
    <3> QED
      BY Zenon, <3>1, <3>2
  <2>4. \A k \in 1..(n - a) : a + k \in 1..n
    BY <1>2
  <2> HIDE DEF window
  <2> QED
    BY <1>2, <1>3, <2>3, <2>4
<1>5. /\ IsTruncated(seq, lim, off) <=> Len(window) > lim
      /\ Page(seq, lim, off) = IF Len(window) > lim THEN Slice(window, 0, lim) ELSE window
  BY DEF Page, IsTruncated, Window
<1> HIDE DEF consumed, window
<1>6. CASE off + lim < Len(seq)
  <2>1. n = off + lim + 1 /\ a = off /\ n - a = lim + 1 /\ to = off + lim
    <3>1. n = off + lim + 1 /\ to = off + lim
      BY <1>1, <1>6 DEF Least
    <3>2. a = off
      BY <3>1 DEF Least
    <3> QED
      BY <3>1, <3>2
  <2>2. Len(window) > lim /\ Len(window) \in Nat /\ n - a > lim
    BY <1>4, <2>1
  <2>3. 0 = Least(0, Len(window)) /\ lim = Least(lim, Len(window))
    BY <2>2 DEF Least
  <2>4. /\ Len(Slice(window, 0, lim)) = IF 0 < lim THEN lim - 0 ELSE 0
        /\ \A k \in 1..(lim - 0) : Slice(window, 0, lim)[k] = window[0 + k]
    <3>1. Slice(window, 0, lim) = SubSeq(window, 0 + 1, lim)
      BY Zenon, <1>4, <2>3, SliceOf, 0 \in Nat, lim \in Nat
    <3>2. /\ Len(SubSeq(window, 0 + 1, lim)) = IF 0 < lim THEN lim - 0 ELSE 0
          /\ \A k \in 1..(lim - 0) : SubSeq(window, 0 + 1, lim)[k] = window[0 + k]
      BY <1>4, <2>2, PartOf, 0 \in Nat
    <3> QED
      BY <3>1, <3>2
  <2>5. \A k \in 1..lim : k \in 1..(n - a) /\ 0 + k = k /\ k \in 1..(lim - 0)
    BY <2>1
  <2>6. Page(seq, lim, off) = Slice(window, 0, lim)
    BY <1>5, <2>2
  <2>7. Len(Page(seq, lim, off)) = lim
    BY <2>4, <2>6
  <2>8. \A k \in 1..lim : Page(seq, lim, off)[k] = seq[off + k]
    <3> HIDE DEF n
    <3> QED
      BY <1>4, <2>1, <2>4, <2>5, <2>6
  <2>9. off < to /\ to - off = lim
    BY <2>1
  <2> QED
    BY <1>5, <1>6, <2>2, <2>7, <2>8, <2>9
<1>7. CASE ~(off + lim < Len(seq))
  <2>1. n = Len(seq) /\ to = Len(seq) /\ a = Least(off, Len(seq)) /\ n - a <= lim
    BY <1>1, <1>7 DEF Least
  <2>2. Page(seq, lim, off) = window /\ ~IsTruncated(seq, lim, off)
    BY <1>2, <1>4, <1>5, <2>1
  <2> HIDE DEF n, a
  <2>3. n - a = IF off < to THEN to - off ELSE 0
    <3>1. CASE off < Len(seq)
      BY <2>1, <3>1 DEF Least
    <3>2. CASE ~(off < Len(seq))
      <4>1. a = Len(seq)
        BY <2>1, <3>2 DEF Least
      <4> QED
        BY <1>1, <2>1, <3>2, <4>1
    <3> QED
      BY <3>1, <3>2
  <2>4. n - a > 0 => a = off
    <3>1. CASE off < Len(seq)
      BY <2>1, <3>1 DEF Least
    <3>2. CASE ~(off < Len(seq))
      <4>1. a = Len(seq)
        BY <2>1, <3>2 DEF Least
      <4> QED
        BY <1>1, <2>1, <4>1
    <3> QED
      BY <3>1, <3>2
  <2>5. \A k \in 1..(n - a) : window[k] = seq[off + k]
    BY <1>2, <1>4, <2>4
  <2> QED
    BY <1>4, <1>7, <2>2, <2>3, <2>5
<1> QED
  BY <1>6, <1>7

-------------------------------------------------------------------------------
(* The invariant                                                           *)

LEMMA Bounds ==
  ASSUME TypeOK
  PROVE  /\ Len(items) \in Nat /\ Len(initial) \in Nat
         /\ limit \in Int /\ start \in Int
         /\ Sensible => limit \in Nat \ {0} /\ start \in Nat
         /\ IsFiniteSet(added) /\ Cardinality(added) \in Nat
<1>1. IsFiniteSet(added)
  BY PagesConstantsOK, FS_Subset DEF TypeOK
<1>2. limit \in Int /\ start \in Int
  BY PagesConstantsOK DEF TypeOK
<1>3. Sensible => limit \in Nat \ {0} /\ start \in Nat
  BY <1>2 DEF Sensible
<1> QED
  BY <1>1, <1>2, <1>3, FS_CardinalityType DEF TypeOK

LEMMA InitEstablishes == Init => IInv
<1> SUFFICES ASSUME Init PROVE IInv
  OBVIOUS
<1>1. /\ items \in Seq(Item) /\ initial = items /\ IsInjective(items)
      /\ offset = start /\ stage = "walking" /\ pages = 0
      /\ seen = <<>> /\ added = {} /\ removed = {}
      /\ limit \in Limits /\ start \in Offsets /\ more = FALSE /\ page = <<>>
  <2>1. items \in SeqOf(Item, Cardinality(Item)) /\ IsInjective(items)
    BY DEF Init
  <2>2. Cardinality(Item) \in Nat
    BY PagesConstantsOK, FS_CardinalityType
  <2>3. PICK m \in 0..Cardinality(Item) : items \in [1..m -> Item]
    BY <2>1 DEF SeqOf
  <2>4. items \in Seq(Item)
    BY <2>2, <2>3
  <2> QED
    BY <2>1, <2>4 DEF Init
<1>2. TypeOK
  <2>1. page \in Seq(Item) /\ seen \in Seq(Item) /\ Len(page) = 0
    BY <1>1
  <2>2. limit \in Int /\ start \in Int
    BY <1>1, PagesConstantsOK
  <2>3. more \in BOOLEAN
    BY <1>1
  <2> QED
    BY <1>1, <2>1, <2>2, <2>3 DEF TypeOK
<1>3. ToSet(seen) = {} /\ IsInjective(seen)
  BY <1>1 DEF ToSet, IsInjective
<1>4. ListInv
  BY <1>1, Bounds, <1>2, FS_EmptySet DEF ListInv
<1>5. WalkInv
  BY <1>1, <1>2, Bounds DEF WalkInv, WalkIsShort
<1>6. StableInv
  <2>1. Sensible => SubSeq(initial, start + 1, start) = <<>>
    BY <1>2, Bounds, SubSeqEmpty
  <2> QED
    BY <1>1, <2>1 DEF StableInv, SeenUpTo
<1>7. NothingMissed
  BY <1>1 DEF NothingMissed, StillToCome
<1>8. NothingTwice
  BY <1>3 DEF NothingTwice
<1> QED
  BY <1>2, <1>4, <1>5, <1>6, <1>7, <1>8 DEF IInv

(***************************************************************************)
(* A page of a sensible walk: what it takes from the list, and what it     *)
(* leaves to come.                                                         *)
(***************************************************************************)
LEMMA PageTakes ==
  ASSUME IInv, ListPage, Sensible, NEW to, to = Least(offset + limit, Len(items))
  PROVE  /\ offset \in Nat /\ to \in Nat /\ to <= Len(items)
         /\ Len(page') = IF offset < to THEN to - offset ELSE 0
         /\ \A k \in 1..Len(page') : page'[k] = items[offset + k]
         /\ more' <=> offset + limit < Len(items)
         /\ IF more' THEN stage' = "walking" /\ offset' = offset + limit /\ to = offset + limit
            ELSE stage' = "ended" /\ to = Len(items)
<1>1. /\ items \in Seq(Item) /\ Len(items) \in Nat
      /\ limit \in Nat \ {0} /\ offset \in Nat
      /\ stage = "walking"
  BY Bounds DEF IInv, TypeOK, WalkInv, ListPage
<1>2. to \in Nat /\ to <= Len(items)
  BY <1>1 DEF Least
<1>3. /\ page' = Page(items, limit, offset)
      /\ more' = (items # <<>> /\ IsTruncated(items, limit, offset))
      /\ IF more' THEN offset' = offset + limit /\ stage' = stage ELSE stage' = "ended"
  BY DEF ListPage, Shown
<1>4. /\ IsTruncated(items, limit, offset) <=> offset + limit < Len(items)
      /\ Len(page') = IF offset < to THEN to - offset ELSE 0
      /\ \A k \in 1..Len(page') : page'[k] = items[offset + k]
  BY <1>1, <1>3, PageOf
<1>5. more' <=> offset + limit < Len(items)
  <2>1. items = <<>> => ~(offset + limit < Len(items))
    BY <1>1
  <2> QED
    BY <1>3, <1>4, <2>1, Zenon
<1>6. to = IF offset + limit < Len(items) THEN offset + limit ELSE Len(items)
  BY DEF Least
<1> QED
  BY <1>1, <1>2, <1>3, <1>4, <1>5, <1>6

LEMMA PageKeepsTypes ==
  ASSUME IInv, ListPage
  PROVE  TypeOK'
<1>1. /\ page' = Page(items, limit, offset) /\ seen' = seen \o page'
      /\ more' = (items # <<>> /\ IsTruncated(items, limit, offset)) /\ pages' = pages + 1
      /\ \/ offset' = Shown(limit, offset) /\ stage' = stage
         \/ offset' = offset /\ stage' = "ended"
      /\ UNCHANGED <<items, limit, start, initial, added, removed>>
  BY DEF ListPage
<1>2. items \in Seq(Item) /\ limit \in Int /\ offset \in Int
  BY Bounds DEF IInv, TypeOK
<1>3. page' \in Seq(Item) /\ (limit >= 0 => Len(page') <= limit) /\ more' \in BOOLEAN
  BY <1>1, <1>2, PageType
<1>4. seen' \in Seq(Item)
  BY <1>1, <1>3, ConcatProperties DEF IInv, TypeOK
<1>5. offset' \in Int
  BY <1>1, <1>2 DEF Shown
<1> QED
  BY <1>1, <1>3, <1>4, <1>5 DEF IInv, TypeOK

LEMMA PageKeepsWalk ==
  ASSUME IInv, ListPage
  PROVE  WalkInv'
<1> SUFFICES ASSUME Sensible
             PROVE  /\ offset' \in Nat
                    /\ stage' # "raised"
                    /\ stage' = "walking" => offset' = start + pages' * limit
                    /\ stage' = "walking" /\ pages' > 0 =>
                         offset' < Len(initial) + Cardinality(added)
                    /\ WalkIsShort'
  BY DEF WalkInv, Sensible, ListPage
<1> DEFINE to == Least(offset + limit, Len(items))
           all == Len(initial) + Cardinality(added)
<1>1. /\ offset \in Nat
      /\ more' <=> offset + limit < Len(items)
      /\ IF more' THEN stage' = "walking" /\ offset' = offset + limit ELSE stage' = "ended"
  BY PageTakes
<1>2. /\ Len(items) \in Nat /\ all \in Nat /\ limit \in Nat \ {0} /\ start \in Nat /\ pages \in Nat
      /\ Len(items) <= all
  BY Bounds DEF IInv, TypeOK, ListInv
<1>3. /\ offset = start + pages * limit
      /\ pages > 0 => offset < all
  BY DEF IInv, WalkInv, ListPage
<1>4. /\ pages' = pages + 1 /\ all' = all /\ limit' = limit /\ start' = start
      /\ ~more' => offset' = offset
  BY DEF ListPage
<1> HIDE DEF to
<1> HIDE DEF all
<1>5. pages * limit \in Nat /\ (pages + 1) * limit = pages * limit + limit
  BY <1>2
<1>6. (pages' - 1) * limit = pages * limit
  BY <1>2, <1>4
<1>7. WalkIsShort'
  <2>1. pages' > 1 => (pages' - 1) * limit < all - start
    BY <1>2, <1>3, <1>4, <1>5, <1>6
  <2>2. initial' = initial /\ added' = added /\ limit' = limit /\ start' = start
    BY DEF ListPage
  <2> DEFINE before == (pages' - 1) * limit'
             left == Len(initial') + Cardinality(added') - start'
  <2>3. before = (pages' - 1) * limit
    BY Zenon, <2>2
  <2>4. left = all - start
    <3>1. Len(initial) + (Cardinality(added) - start) = (Len(initial) + Cardinality(added)) - start
      BY Bounds DEF IInv
    <3> QED
      BY Zenon, <2>2, <3>1 DEF all
  <2>5. pages' > 1 => before < left
    <3> HIDE DEF before, left
    <3> QED
      BY Zenon, <2>1, <2>3, <2>4
  <2> QED
    BY <2>5 DEF WalkIsShort
<1>8. more' => offset' = start + pages' * limit
  <2>1. pages' * limit = pages * limit + limit
    BY <1>4, <1>5
  <2>2. start + (pages * limit + limit) = (start + pages * limit) + limit
    BY <1>2, <1>5
  <2> QED
    BY <1>1, <1>3, <2>1, <2>2
<1>9. offset' \in Nat /\ (more' => offset' < all)
  BY <1>1, <1>2, <1>4
<1> QED
  BY <1>1, <1>7, <1>8, <1>9 DEF all

(***************************************************************************)
(* On a stable list a page goes on where the pages before it ended.        *)
(***************************************************************************)
LEMMA PageKeepsStable ==
  ASSUME IInv, ListPage
  PROVE  StableInv'
<1> SUFFICES ASSUME Sensible, added = {}, removed = {}
             PROVE  seen' = SubSeq(initial, start + 1, SeenUpTo')
  <2>1. UNCHANGED <<limit, start, added, removed, initial>>
    BY DEF ListPage
  <2> QED
    BY <2>1 DEF StableInv, Sensible
<1> DEFINE to == Least(offset + limit, Len(items))
<1>1. /\ offset \in Nat /\ to \in Nat /\ to <= Len(items)
      /\ Len(page') = IF offset < to THEN to - offset ELSE 0
      /\ \A k \in 1..Len(page') : page'[k] = items[offset + k]
      /\ IF more' THEN stage' = "walking" /\ offset' = offset + limit /\ to = offset + limit
         ELSE stage' = "ended" /\ to = Len(items)
  BY PageTakes
<1>2. /\ items = initial /\ items \in Seq(Item) /\ start \in Nat /\ limit \in Nat \ {0}
      /\ pages \in Nat /\ Len(items) \in Nat
  BY Bounds DEF IInv, ListInv, TypeOK
<1>3. page' \in Seq(Item) /\ seen \in Seq(Item) /\ seen' = seen \o page'
  BY PageKeepsTypes DEF TypeOK, IInv, ListPage
<1>4. seen = SubSeq(initial, start + 1, offset)
  BY DEF IInv, StableInv, SeenUpTo, ListPage
<1>5. SeenUpTo' = to /\ UNCHANGED initial
  <2>1. Len(initial)' = Len(initial) /\ UNCHANGED initial
    BY DEF ListPage
  <2> HIDE DEF to
  <2> QED
    BY <1>1, <1>2, <2>1 DEF SeenUpTo
<1>6. offset = start \/ (start <= offset /\ offset < Len(items))
  <2>1. offset = start + pages * limit /\ (pages > 0 => offset < Len(items))
    BY <1>2, FS_EmptySet DEF IInv, WalkInv, ListPage
  <2>2. pages * limit \in Nat /\ (pages = 0 => pages * limit = 0)
    BY <1>2
  <2> QED
    BY <1>2, <2>1, <2>2
<1> HIDE DEF to
<1>7. CASE offset <= to
  <2>1. start <= offset
    BY <1>2, <1>6
  <2>2. page' = SubSeq(initial, offset + 1, to)
    <3>1. /\ SubSeq(items, offset + 1, to) \in Seq(Item)
          /\ Len(SubSeq(items, offset + 1, to)) = IF offset < to THEN to - offset ELSE 0
          /\ \A k \in 1..(to - offset) : SubSeq(items, offset + 1, to)[k] = items[offset + k]
      BY <1>1, <1>2, PartOf
    <3>2. \A k \in 1..Len(page') : k \in 1..(to - offset)
      BY <1>1
    <3>3. /\ Len(page') = Len(SubSeq(items, offset + 1, to))
          /\ \A k \in 1..Len(page') : page'[k] = SubSeq(items, offset + 1, to)[k]
      BY <1>1, <3>1, <3>2
    <3>4. page' = SubSeq(items, offset + 1, to)
      BY <1>3, <3>1, <3>3, SeqEqual
    <3> QED
      BY <1>2, <3>4
  <2>3. SubSeq(initial, start + 1, offset) \o SubSeq(initial, offset + 1, to)
          = SubSeq(initial, start + 1, to)
    BY <1>1, <1>2, <1>7, <2>1, JoinedParts
  <2> QED
    BY Zenon, <1>3, <1>4, <1>5, <2>2, <2>3
<1>8. CASE ~(offset <= to)
  <2>1. offset = start /\ Len(page') = 0
    BY <1>1, <1>2, <1>6, <1>8
  <2>2. page' = <<>>
    BY <1>3, <2>1, EmptySeq
  <2>3. seen = <<>> /\ SubSeq(initial, start + 1, to) = <<>>
    BY <1>1, <1>2, <1>4, <1>8, <2>1, SubSeqEmpty
  <2>4. seen' = <<>>
    BY <1>3, <2>2, <2>3
  <2> QED
    BY <1>5, <2>3, <2>4
<1> QED
  BY <1>7, <1>8

(***************************************************************************)
(* What was still to come is on the page, or comes after it.               *)
(***************************************************************************)
LEMMA PageKeepsNothingMissed ==
  ASSUME IInv, ListPage
  PROVE  NothingMissed'
<1> SUFFICES ASSUME Sensible, removed = {}, NEW i \in 1..Len(initial), i > start
             PROVE  initial[i] \in ToSet(seen') \/ StillToCome(initial[i])'
  <2>1. UNCHANGED <<limit, start, removed, initial>>
    BY DEF ListPage
  <2> QED
    BY <2>1 DEF NothingMissed, Sensible, StillToCome
<1> DEFINE to == Least(offset + limit, Len(items))
<1>1. /\ offset \in Nat /\ to \in Nat /\ to <= Len(items)
      /\ Len(page') = IF offset < to THEN to - offset ELSE 0
      /\ \A k \in 1..Len(page') : page'[k] = items[offset + k]
      /\ IF more' THEN stage' = "walking" /\ offset' = offset + limit /\ to = offset + limit
         ELSE stage' = "ended" /\ to = Len(items)
  BY PageTakes
<1> HIDE DEF to
<1>2. ToSet(seen') = ToSet(seen) \cup ToSet(page')
  BY PageKeepsTypes, Joined DEF TypeOK, IInv, ListPage
<1>3. CASE initial[i] \in ToSet(seen)
  BY <1>2, <1>3
<1>4. CASE StillToCome(initial[i])
  <2>1. PICK p \in 1..Len(items) : p > offset /\ items[p] = initial[i]
    BY <1>4 DEF StillToCome
  <2>2. CASE p <= to
    <3>1. p - offset \in 1..Len(page') /\ offset + (p - offset) = p
      BY <1>1, <2>1, <2>2
    <3>2. page'[p - offset] = initial[i]
      BY <1>1, <2>1, <3>1
    <3>3. initial[i] \in ToSet(page')
      BY <3>1, <3>2, PageKeepsTypes DEF ToSet, TypeOK
    <3> QED
      BY <1>2, <3>3
  <2>3. CASE ~(p <= to)
    <3>1. p > offset' /\ stage' = "walking"
      BY <1>1, <2>1, <2>3
    <3>2. UNCHANGED <<items, initial>>
      BY DEF ListPage
    <3> QED
      BY <2>1, <3>1, <3>2 DEF StillToCome
  <2> QED
    BY <2>2, <2>3
<1> QED
  BY <1>3, <1>4 DEF IInv, NothingMissed

(***************************************************************************)
(* What a page lists was still to come, and comes no more.                 *)
(***************************************************************************)
LEMMA PageKeepsNothingTwice ==
  ASSUME IInv, ListPage
  PROVE  NothingTwice'
<1> SUFFICES ASSUME Sensible, added = {}
             PROVE  IsInjective(seen') /\ \A x \in ToSet(seen') : ~StillToCome(x)'
  <2>1. UNCHANGED <<limit, start, added>>
    BY DEF ListPage
  <2> QED
    BY <2>1 DEF NothingTwice, Sensible, StillToCome
<1> DEFINE to == Least(offset + limit, Len(items))
<1>1. /\ offset \in Nat /\ to \in Nat /\ to <= Len(items)
      /\ Len(page') = IF offset < to THEN to - offset ELSE 0
      /\ \A k \in 1..Len(page') : page'[k] = items[offset + k]
      /\ IF more' THEN stage' = "walking" /\ offset' = offset + limit /\ to = offset + limit
         ELSE stage' = "ended" /\ to = Len(items)
  BY PageTakes
<1> HIDE DEF to
<1>2. /\ page' \in Seq(Item) /\ seen \in Seq(Item) /\ seen' = seen \o page'
      /\ items' = items /\ stage = "walking" /\ Len(items) \in Nat
      /\ \A k, l \in 1..Len(items) : items[k] = items[l] => k = l
  BY SMTT(30), PageKeepsTypes, Bounds DEF TypeOK, IInv, ListPage, IsInjective
<1>3. IsInjective(seen) /\ \A x \in ToSet(seen) : ~StillToCome(x)
  BY DEF IInv, NothingTwice
<1>4. \A k \in 1..Len(page') : offset + k \in 1..Len(items) /\ offset + k > offset /\ offset + k <= to
  BY <1>1, <1>2
<1>5. ASSUME NEW x \in ToSet(page') PROVE StillToCome(x)
  <2>1. PICK k \in 1..Len(page') : page'[k] = x
    BY <1>2 DEF ToSet
  <2>2. offset + k \in 1..Len(items) /\ offset + k > offset /\ items[offset + k] = x
    BY <1>1, <1>4, <2>1
  <2> QED
    BY <1>2, <2>2 DEF StillToCome
<1>6. IsInjective(page')
  <2>1. ASSUME NEW k \in 1..Len(page'), NEW l \in 1..Len(page'), page'[k] = page'[l]
        PROVE  k = l
    <3>1. offset + k = offset + l
      BY <1>1, <1>2, <1>4, <2>1
    <3> QED
      BY <1>1, <1>2, <3>1
  <2>2. DOMAIN page' = 1..Len(page')
    BY <1>2
  <2> QED
    BY Zenon, <2>1, <2>2 DEF IsInjective
<1>7. IsInjective(seen')
  BY <1>2, <1>3, <1>5, <1>6, JoinedApart
<1>8. ASSUME NEW x \in ToSet(seen'), StillToCome(x)' PROVE FALSE
  <2>1. PICK p \in 1..Len(items) : p > offset' /\ items[p] = x /\ stage' = "walking"
    BY <1>2, <1>8 DEF StillToCome
  <2>2. offset' = to /\ to > offset
    BY <1>1, <2>1, Bounds DEF IInv
  <2>3. StillToCome(x)
    BY <1>1, <1>2, <2>1, <2>2 DEF StillToCome
  <2>4. x \in ToSet(page')
    BY <1>2, <1>3, <1>8, <2>3, Joined
  <2>5. PICK k \in 1..Len(page') : page'[k] = x
    BY <1>2, <2>4 DEF ToSet
  <2>6. offset + k = p
    BY <1>1, <1>2, <1>4, <2>1, <2>5
  <2> QED
    BY <1>1, <1>4, <2>1, <2>2, <2>6
<1> QED
  BY <1>7, <1>8

LEMMA ListPageKeepsIInv ==
  ASSUME IInv, ListPage
  PROVE  IInv'
<1>1. ListInv'
  BY DEF IInv, ListInv, ListPage
<1> QED
  BY <1>1, PageKeepsTypes, PageKeepsWalk, PageKeepsStable, PageKeepsNothingMissed,
     PageKeepsNothingTwice DEF IInv

(***************************************************************************)
(* An offset that does not count from the end raises nothing.              *)
(***************************************************************************)
LEMMA ListRaisesKeepsIInv ==
  ASSUME IInv, ListRaises
  PROVE  IInv'
<1>1. ~Sensible
  <2>1. ASSUME Sensible PROVE FALSE
    <3>1. offset \in Nat /\ limit \in Nat \ {0}
      BY <2>1, Bounds DEF IInv, WalkInv
    <3>2. offset + limit + 1 < 0
      BY DEF ListRaises, Raises
    <3> QED
      BY <3>1, <3>2
  <2> QED
    BY <2>1
<1>2. /\ UNCHANGED <<items, limit, start, offset, more, page, pages, seen, initial, added, removed>>
      /\ stage' = "raised"
  BY DEF ListRaises
<1>3. TypeOK' /\ ListInv'
  BY <1>2 DEF IInv, TypeOK, ListInv
<1>4. ~Sensible'
  BY <1>1, <1>2 DEF Sensible
<1> QED
  BY <1>3, <1>4 DEF IInv, WalkInv, StableInv, NothingMissed, NothingTwice

(***************************************************************************)
(* A list that changes does not concern what was seen.                     *)
(***************************************************************************)
LEMMA ChangeKeepsWalk ==
  ASSUME IInv, stage = "walking",
         UNCHANGED <<limit, start, stage, offset, pages, initial>>,
         Cardinality(added') \in Nat, Cardinality(added') >= Cardinality(added)
  PROVE  WalkInv'
<1> SUFFICES ASSUME Sensible PROVE WalkInv'
  BY DEF WalkInv, Sensible
<1>1. /\ limit \in Nat \ {0} /\ start \in Nat /\ pages \in Nat
      /\ Len(initial) \in Nat /\ Cardinality(added) \in Nat
  BY Bounds DEF IInv, TypeOK
<1>2. /\ offset \in Nat /\ offset = start + pages * limit
      /\ pages > 0 => offset < Len(initial) + Cardinality(added)
      /\ pages > 1 => (pages - 1) * limit < Len(initial) + Cardinality(added) - start
  BY DEF IInv, WalkInv, WalkIsShort
<1>3. pages > 0 => offset < Len(initial) + Cardinality(added')
  BY <1>1, <1>2
<1>4. (pages - 1) * limit \in Int
  BY <1>1
<1> DEFINE before == (pages - 1) * limit
<1>5. pages > 1 => before < Len(initial) + Cardinality(added') - start
  <2>1. before \in Int /\ (pages > 1 => before < Len(initial) + Cardinality(added) - start)
    BY <1>2, <1>4
  <2> HIDE DEF before
  <2> QED
    BY <1>1, <2>1
<1>6. pages' > 1 =>
        (pages' - 1) * limit' < Len(initial') + Cardinality(added') - start'
  BY Zenon, <1>5
<1>7. WalkIsShort'
  BY <1>6 DEF WalkIsShort
<1>8. offset' \in Nat /\ offset' = start' + pages' * limit'
  BY Zenon, <1>2
<1>9. stage' # "raised" /\ (pages' > 0 => offset' < Len(initial') + Cardinality(added'))
  BY <1>3
<1> QED
  BY <1>7, <1>8, <1>9 DEF WalkInv

LEMMA AddKeepsIInv ==
  ASSUME IInv, NEW item \in Item, NEW at \in 1..(Len(items) + 1), Add(item, at)
  PROVE  IInv'
<1>1. /\ items' = InsertAt(items, at, item) /\ added' = added \cup {item}
      /\ item \notin ToSet(initial) /\ item \notin added
      /\ stage = "walking"
      /\ UNCHANGED <<limit, start, stage, offset, more, page, pages, seen, initial, removed>>
  BY DEF Add
<1>2. /\ items \in Seq(Item) /\ IsInjective(items) /\ item \notin ToSet(items)
      /\ Len(items) \in Nat
  BY <1>1, Bounds DEF IInv, TypeOK, ListInv
<1>3. /\ items' \in Seq(Item) /\ Len(items') = Len(items) + 1
      /\ \A k \in 1..Len(items) :
           IF k < at THEN items'[k] = items[k] ELSE items'[k + 1] = items[k]
  <2> DEFINE grown == InsertAt(items, at, item)
  <2>1. /\ grown \in Seq(Item) /\ Len(grown) = Len(items) + 1
        /\ \A k \in 1..Len(items) :
             IF k < at THEN grown[k] = items[k] ELSE grown[k + 1] = items[k]
    <3>1. items \in Seq(Item)
      BY <1>2
    <3> HIDE DEF grown
    <3>2. grown = InsertAt(items, at, item)
      BY DEF grown
    <3> QED
      BY <3>1, <3>2, InsertedAt
  <2>2. items' = grown
    BY <1>1
  <2> HIDE DEF grown
  <2> QED
    BY Zenon, <2>1, <2>2
<1>4. ToSet(items') \subseteq ToSet(items) \cup {item} /\ IsInjective(items')
  BY <1>1, <1>2, Inserting
<1>5. Cardinality(added') = Cardinality(added) + 1 /\ Cardinality(added) \in Nat
  BY <1>1, Bounds, FS_AddElement DEF IInv
<1>6. TypeOK'
  BY <1>1, <1>3, <1>4 DEF IInv, TypeOK
<1>7. ListInv'
  <2>1. ToSet(items') \subseteq ToSet(initial') \cup added'
    BY <1>1, <1>4 DEF IInv, ListInv
  <2>2. Len(items') <= Len(initial') + Cardinality(added')
    BY <1>1, <1>2, <1>3, <1>5, Bounds DEF IInv, ListInv
  <2>3. added' # {}
    BY <1>1
  <2> QED
    BY <2>1, <2>2, <2>3 DEF ListInv
<1>8. WalkInv'
  BY <1>1, <1>5, ChangeKeepsWalk
<1>9. StableInv' /\ NothingTwice'
  BY <1>1 DEF StableInv, NothingTwice
<1>10. NothingMissed'
  <2> SUFFICES ASSUME Sensible, removed = {}, NEW i \in 1..Len(initial), i > start
               PROVE  initial[i] \in ToSet(seen) \/ StillToCome(initial[i])'
    BY <1>1 DEF NothingMissed, Sensible, StillToCome
  <2>1. CASE StillToCome(initial[i])
    <3>1. PICK p \in 1..Len(items) : p > offset /\ items[p] = initial[i]
      BY <2>1 DEF StillToCome
    <3>2. p \in 1..Len(items') /\ p + 1 \in 1..Len(items') /\ p + 1 > offset
      BY <1>2, <1>3, <3>1 DEF IInv, TypeOK
    <3>3. items'[p] = initial[i] \/ items'[p + 1] = initial[i]
      BY <1>3, <3>1
    <3> QED
      BY <1>1, <3>1, <3>2, <3>3 DEF StillToCome
  <2> QED
    BY <2>1 DEF IInv, NothingMissed
<1> QED
  BY <1>6, <1>7, <1>8, <1>9, <1>10 DEF IInv

LEMMA DeleteKeepsIInv ==
  ASSUME IInv, NEW at \in 1..Len(items), Delete(at)
  PROVE  IInv'
<1>1. /\ items' = RemoveAt(items, at) /\ removed' = removed \cup {items[at]}
      /\ stage = "walking"
      /\ UNCHANGED <<limit, start, stage, offset, more, page, pages, seen, initial, added>>
  BY DEF Delete
<1>2. /\ items \in Seq(Item) /\ IsInjective(items) /\ Len(items) \in Nat
      /\ items[at] \in Item
  BY Bounds DEF IInv, TypeOK
<1>3. /\ items' \in Seq(Item) /\ Len(items') = Len(items) - 1 /\ IsInjective(items')
      /\ ToSet(items') \subseteq ToSet(items)
      /\ \A k \in 1..Len(items') : items'[k] = IF k < at THEN items[k] ELSE items[k + 1]
  <2> DEFINE shrunk == RemoveAt(items, at)
  <2>1. items \in Seq(Item) /\ IsInjective(items) /\ items' = shrunk
    BY <1>1, <1>2
  <2> HIDE DEF shrunk
  <2>2. shrunk = RemoveAt(items, at)
    BY DEF shrunk
  <2>3. /\ shrunk \in Seq(Item) /\ Len(shrunk) = Len(items) - 1 /\ IsInjective(shrunk)
        /\ ToSet(shrunk) \subseteq ToSet(items)
        /\ \A k \in 1..Len(shrunk) : shrunk[k] = IF k < at THEN items[k] ELSE items[k + 1]
    BY <2>1, <2>2, DeletedAt
  <2> QED
    BY Zenon, <2>1, <2>3
<1>4. TypeOK'
  BY <1>1, <1>2, <1>3 DEF IInv, TypeOK
<1>5. ListInv'
  <2>1. Len(items') <= Len(initial') + Cardinality(added')
    BY <1>1, <1>2, <1>3, Bounds DEF IInv, ListInv
  <2> QED
    BY <1>1, <1>3, <2>1 DEF IInv, ListInv
<1>6. WalkInv'
  BY <1>1, Bounds, ChangeKeepsWalk DEF IInv
<1>7. StableInv' /\ NothingMissed'
  BY <1>1 DEF StableInv, NothingMissed
<1>8. NothingTwice'
  <2> SUFFICES ASSUME Sensible, added = {}, NEW x \in ToSet(seen), StillToCome(x)'
               PROVE  StillToCome(x)
    BY <1>1 DEF IInv, NothingTwice, Sensible
  <2>1. PICK p \in 1..Len(items') : p > offset /\ items'[p] = x
    BY <1>1 DEF StillToCome
  <2>2. p \in 1..Len(items) /\ p + 1 \in 1..Len(items) /\ p + 1 > offset
    BY <1>2, <1>3, <2>1 DEF IInv, TypeOK
  <2>3. items[p] = x \/ items[p + 1] = x
    BY <1>3, <2>1
  <2> QED
    BY <1>1, <2>1, <2>2, <2>3 DEF StillToCome
<1> QED
  BY <1>4, <1>5, <1>6, <1>7, <1>8 DEF IInv

LEMMA NextKeepsIInv == IInv /\ [Next]_vars => IInv'
<1> SUFFICES ASSUME IInv, [Next]_vars PROVE IInv'
  OBVIOUS
<1>1. CASE ListPage
  BY <1>1, ListPageKeepsIInv
<1>2. CASE ListRaises
  BY <1>2, ListRaisesKeepsIInv
<1>3. CASE ListFails \/ UNCHANGED vars
  <2>1. UNCHANGED vars
    BY <1>3 DEF ListFails
  <2> QED
    BY <2>1 DEF vars, IInv, TypeOK, ListInv, WalkInv, WalkIsShort, StableInv, SeenUpTo,
        NothingMissed, NothingTwice, StillToCome, Sensible
<1>4. ASSUME NEW item \in Item, NEW at \in 1..(Len(items) + 1), Add(item, at) PROVE IInv'
  BY <1>4, AddKeepsIInv
<1>5. ASSUME NEW at \in 1..Len(items), Delete(at) PROVE IInv'
  BY <1>5, DeleteKeepsIInv
<1> QED
  BY <1>1, <1>2, <1>3, <1>4, <1>5 DEF Next

-------------------------------------------------------------------------------
(* The theorems                                                            *)

(***************************************************************************)
(* The invariant of every walk.                                            *)
(***************************************************************************)
THEOREM WalkInvariant == Spec => []IInv
BY InitEstablishes, NextKeepsIInv, PTL DEF Spec

(***************************************************************************)
(* The walk keeps its types; no page is longer than its limit, whatever    *)
(* the limit and the offset.                                               *)
(***************************************************************************)
THEOREM PageTypes == Spec => []TypeOK
<1>1. IInv => TypeOK
  BY DEF IInv
<1> QED
  BY <1>1, WalkInvariant, PTL

(***************************************************************************)
(* Following the footers over a list that does not change yields all of it *)
(* from the first offset on, in order, once.                               *)
(***************************************************************************)
THEOREM FootersListEverything == Spec => []WholeListOnce
<1>1. IInv => WholeListOnce
  BY DEF IInv, StableInv, SeenUpTo, WholeListOnce
<1> QED
  BY <1>1, WalkInvariant, PTL

(***************************************************************************)
(* While nothing is removed, nothing that was there is missed.             *)
(***************************************************************************)
THEOREM AdditionsHideNothing == Spec => []OnlyRemovalsHide
<1>1. ASSUME IInv PROVE OnlyRemovalsHide
  <2> SUFFICES ASSUME Sensible, stage = "ended", removed = {}, NEW i \in DOMAIN initial, i > start
               PROVE  initial[i] \in ToSet(seen)
    BY DEF OnlyRemovalsHide
  <2>1. i \in 1..Len(initial)
    BY <1>1 DEF IInv, TypeOK
  <2>2. ~StillToCome(initial[i])
    BY DEF StillToCome
  <2> QED
    BY <1>1, <2>1, <2>2 DEF IInv, NothingMissed
<1> QED
  BY <1>1, WalkInvariant, PTL

(***************************************************************************)
(* While nothing is added, nothing is listed twice.                        *)
(***************************************************************************)
THEOREM RemovalsRepeatNothing == Spec => []OnlyAdditionsRepeat
<1>1. IInv => OnlyAdditionsRepeat
  BY DEF IInv, NothingTwice, OnlyAdditionsRepeat
<1> QED
  BY <1>1, WalkInvariant, PTL

(***************************************************************************)
(* The pages before the last cannot have held all there ever was.          *)
(***************************************************************************)
THEOREM NoPageInVain == Spec => []WalkIsShort
<1>1. IInv => WalkIsShort
  BY DEF IInv, WalkInv, WalkIsShort
<1> QED
  BY <1>1, WalkInvariant, PTL
==============================================================================
