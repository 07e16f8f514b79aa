---------------------------- MODULE SequenceLemmas ----------------------------
(***************************************************************************)
(* Facts about sequences without repetition (the LRU order of the client   *)
(* cache, the executor's queue) that the proofs about components share.    *)
(***************************************************************************)
EXTENDS SequencesExt, SequenceTheorems, FiniteSetTheorems, TLAPS

(***************************************************************************)
(* Some x is at an earlier position than some y.                           *)
(***************************************************************************)
Before(s, x, y) == \E i, j \in 1..Len(s) : i < j /\ s[i] = x /\ s[j] = y

(***************************************************************************)
(* t lists in the order of s what it lists; then all of s but e, in the    *)
(* order of s; all of s and then e.                                        *)
(***************************************************************************)
InOrder(t, s) == \A x, y : Before(t, x, y) => Before(s, x, y)

InOrderWithout(t, s, e) ==
  \A x, y : Before(t, x, y) <=> Before(s, x, y) /\ x # e /\ y # e

InOrderThen(t, s, e) ==
  \A x, y : Before(t, x, y) <=> Before(s, x, y) \/ (x \in ToSet(s) /\ y = e)

(***************************************************************************)
(* The occurrence that RemoveFirst removes, and what becomes of the others.*)
(***************************************************************************)
LEMMA RemovedAt ==
  ASSUME NEW S, NEW s \in Seq(S), IsInjective(s), NEW i \in 1..Len(s)
  PROVE  /\ RemoveFirst(s, s[i]) \in Seq(S)
         /\ Len(RemoveFirst(s, s[i])) = Len(s) - 1
         /\ \A k \in 1..(Len(s) - 1) :
              RemoveFirst(s, s[i])[k] = IF k < i THEN s[k] ELSE s[k + 1]
<1> DEFINE I == {k \in 1..Len(s) : s[k] = s[i]}
<1>1. I = {i}
  BY DEF IsInjective
<1>2. Min(I) = i
  BY <1>1 DEF Min
<1>3. SelectInSeq(s, LAMBDA v : v = s[i]) = i
  BY <1>1, <1>2 DEF SelectInSeq
<1>4. RemoveFirst(s, s[i]) = SubSeq(s, 1, i - 1) \o SubSeq(s, i + 1, Len(s))
  BY <1>3 DEF RemoveFirst, RemoveAt
<1> DEFINE front == SubSeq(s, 1, i - 1)
           back  == SubSeq(s, i + 1, Len(s))
<1>5. /\ front \in Seq(S) /\ Len(front) = i - 1
      /\ \A k \in 1..(i - 1) : front[k] = s[k]
  <2>1. \A k \in 1..(i - 1) : s[k] \in S
    OBVIOUS
  <2> QED
    BY <2>1
<1>6. /\ back \in Seq(S) /\ Len(back) = Len(s) - i
      /\ \A k \in 1..(Len(s) - i) : back[k] = s[i + k]
  <2>1. \A k \in (i + 1)..Len(s) : s[k] \in S
    OBVIOUS
  <2>2. Len(s) \in Nat /\ i \in Int
    OBVIOUS
  <2>3. back \in Seq(S) /\ Len(back) = IF i + 1 <= Len(s) THEN Len(s) - (i + 1) + 1 ELSE 0
    BY <2>1, <2>2
  <2>4. \A k \in 1..(Len(s) - i) : back[k] = s[(i + 1) + k - 1]
    BY <2>1, <2>2
  <2>5. \A k \in 1..(Len(s) - i) : (i + 1) + k - 1 = i + k
    BY <2>2
  <2> QED
    BY <2>2, <2>3, <2>4, <2>5
<1> HIDE DEF front, back
<1>7. /\ front \o back \in Seq(S) /\ Len(front \o back) = Len(s) - 1
      /\ \A k \in 1..(Len(s) - 1) :
           (front \o back)[k] = IF k <= i - 1 THEN front[k] ELSE back[k - (i - 1)]
  <2>1. /\ front \o back \in Seq(S)
        /\ Len(front \o back) = Len(front) + Len(back)
        /\ \A k \in 1..(Len(front) + Len(back)) :
             (front \o back)[k] = IF k <= Len(front) THEN front[k] ELSE back[k - Len(front)]
    BY <1>5, <1>6, ConcatProperties
  <2>2. Len(front) + Len(back) = Len(s) - 1
    BY <1>5, <1>6
  <2> QED
    BY <1>5, <2>1, <2>2
<1>8. ASSUME NEW k \in 1..(Len(s) - 1)
      PROVE  (front \o back)[k] = IF k < i THEN s[k] ELSE s[k + 1]
  <2>1. CASE k < i
    BY <1>5, <1>7, <2>1
  <2>2. CASE ~(k < i)
    <3>1. (front \o back)[k] = back[k - (i - 1)]
      BY <1>7, <2>2
    <3>2. k - (i - 1) \in 1..(Len(s) - i) /\ i + (k - (i - 1)) = k + 1
      BY <2>2
    <3> QED
      BY <1>6, <2>2, <3>1, <3>2
  <2> QED
    BY <2>1, <2>2
<1>9. RemoveFirst(s, s[i]) = front \o back
  BY <1>4 DEF front, back
<1> QED
  BY <1>7, <1>8, <1>9

LEMMA NothingRemoved ==
  ASSUME NEW S, NEW s \in Seq(S), NEW e, e \notin ToSet(s)
  PROVE  RemoveFirst(s, e) = s
BY DEF RemoveFirst, ToSet

(***************************************************************************)
(* Removing an element leaves the other ones, once each, in their order.   *)
(***************************************************************************)
LEMMA Removing ==
  ASSUME NEW S, NEW s \in Seq(S), IsInjective(s), NEW e,
         NEW t, t = RemoveFirst(s, e)
  PROVE  /\ t \in Seq(S) /\ IsInjective(t)
         /\ ToSet(t) = ToSet(s) \ {e}
         /\ Len(t) <= Len(s)
         /\ e \in ToSet(s) => Len(t) = Len(s) - 1
         /\ InOrderWithout(t, s, e)
<1>1. CASE e \notin ToSet(s)
  <2>1. t = s /\ Len(s) \in Nat
    BY <1>1, NothingRemoved
  <2>2. \A x, y : Before(s, x, y) => x # e /\ y # e
    BY <1>1 DEF Before, ToSet
  <2>3. InOrderWithout(t, s, e)
    BY <2>1, <2>2 DEF InOrderWithout
  <2> QED
    BY <1>1, <2>1, <2>3
<1>2. CASE e \in ToSet(s)
  <2>1. PICK i \in 1..Len(s) : s[i] = e
    BY <1>2 DEF ToSet
  <2>2. /\ t \in Seq(S) /\ Len(t) = Len(s) - 1
        /\ \A k \in 1..Len(t) : t[k] = IF k < i THEN s[k] ELSE s[k + 1]
    BY <2>1, RemovedAt
  <2>3. IsInjective(t)
    <3>1. \A k \in 1..Len(t) : t[k] = IF k < i THEN s[k] ELSE s[k + 1]
      BY <2>2
    <3> QED
      BY SMTT(30), <2>2, <3>1 DEF IsInjective
  <2>4. ToSet(t) = ToSet(s) \ {e}
    <3>1. \A k \in 1..Len(s) : k < i => t[k] = s[k] /\ k \in 1..Len(t)
      BY <2>2
    <3>2. \A k \in 1..Len(s) : k > i => t[k - 1] = s[k] /\ k - 1 \in 1..Len(t)
      BY <2>2
    <3>3. ASSUME NEW k \in 1..Len(s), s[k] # e
          PROVE  \E j \in 1..Len(t) : t[j] = s[k]
      <4>1. k < i \/ k > i
        BY <2>1, <3>3
      <4> QED
        BY <3>1, <3>2, <4>1
    <3>4. ASSUME NEW k \in 1..Len(t)
          PROVE  \E j \in 1..Len(s) : t[k] = s[j] /\ s[j] # e
      <4>1. PICK j \in 1..Len(s) : t[k] = s[j] /\ j # i
        BY <2>2
      <4> QED
        BY <2>1, <4>1 DEF IsInjective
    <3>5. DOMAIN s = 1..Len(s) /\ DOMAIN t = 1..Len(t)
      BY <2>2
    <3> QED
      <4>1. ToSet(t) \subseteq ToSet(s) \ {e}
        BY <3>4, <3>5 DEF ToSet
      <4>2. ToSet(s) \ {e} \subseteq ToSet(t)
        BY <3>3, <3>5 DEF ToSet
      <4> QED
        BY <4>1, <4>2
  <2>5. ASSUME NEW x, NEW y, Before(t, x, y)
        PROVE  Before(s, x, y) /\ x # e /\ y # e
    <3>1. PICK k, l \in 1..Len(t) : k < l /\ t[k] = x /\ t[l] = y
      BY <2>5 DEF Before
    <3>2. PICK k2, l2 \in 1..Len(s) : k2 < l2 /\ s[k2] = x /\ s[l2] = y /\ k2 # i /\ l2 # i
      BY <2>2, <3>1
    <3> QED
      BY <2>1, <3>2 DEF Before, IsInjective
  <2>6. ASSUME NEW x, NEW y, Before(s, x, y), x # e, y # e
        PROVE  Before(t, x, y)
    <3>1. PICK k, l \in 1..Len(s) : k < l /\ s[k] = x /\ s[l] = y
      BY <2>6 DEF Before
    <3>2. k # i /\ l # i
      BY <2>1, <2>6, <3>1
    <3> DEFINE k2 == IF k < i THEN k ELSE k - 1
               l2 == IF l < i THEN l ELSE l - 1
    <3>3. k2 \in 1..Len(t) /\ l2 \in 1..Len(t) /\ k2 < l2 /\ t[k2] = x /\ t[l2] = y
      BY <2>2, <3>1, <3>2
    <3> QED
      BY <3>3 DEF Before
  <2>7. InOrderWithout(t, s, e)
    BY <2>5, <2>6 DEF InOrderWithout
  <2> QED
    BY <2>2, <2>3, <2>4, <2>7
<1> QED
  BY <1>1, <1>2

(***************************************************************************)
(* Appending an element that is not there yet.                             *)
(***************************************************************************)
LEMMA Appending ==
  ASSUME NEW S, NEW s \in Seq(S), IsInjective(s), NEW e \in S, e \notin ToSet(s),
         NEW t, t = Append(s, e)
  PROVE  /\ t \in Seq(S) /\ IsInjective(t)
         /\ ToSet(t) = ToSet(s) \cup {e}
         /\ Len(t) = Len(s) + 1
         /\ InOrderThen(t, s, e)
<1>1. /\ t \in Seq(S) /\ Len(t) = Len(s) + 1
      /\ \A k \in 1..Len(s) : t[k] = s[k] /\ s[k] # e
      /\ t[Len(s) + 1] = e
  BY DEF ToSet
<1>2. IsInjective(t)
  BY <1>1 DEF IsInjective
<1>3. ToSet(t) = ToSet(s) \cup {e}
  BY <1>1 DEF ToSet
<1>4. ASSUME NEW x, NEW y, Before(t, x, y)
      PROVE  Before(s, x, y) \/ (x \in ToSet(s) /\ y = e)
  <2>1. PICK k, l \in 1..Len(t) : k < l /\ t[k] = x /\ t[l] = y
    BY <1>4 DEF Before
  <2>2. CASE l = Len(s) + 1
    BY <1>1, <2>1, <2>2 DEF ToSet
  <2>3. CASE l # Len(s) + 1
    BY <1>1, <2>1, <2>3 DEF Before
  <2> QED
    BY <2>2, <2>3
<1>5. ASSUME NEW x, NEW y, Before(s, x, y) \/ (x \in ToSet(s) /\ y = e)
      PROVE  Before(t, x, y)
  <2>1. CASE Before(s, x, y)
    BY <1>1, <2>1 DEF Before
  <2>2. CASE x \in ToSet(s) /\ y = e
    <3>1. PICK k \in 1..Len(s) : s[k] = x
      BY <2>2 DEF ToSet
    <3>2. k < Len(s) + 1 /\ k \in 1..Len(t) /\ Len(s) + 1 \in 1..Len(t)
      BY <1>1
    <3> QED
      BY <1>1, <2>2, <3>1, <3>2 DEF Before
  <2> QED
    BY <1>5, <2>1, <2>2
<1>6. InOrderThen(t, s, e)
  BY <1>4, <1>5 DEF InOrderThen
<1> QED
  BY <1>1, <1>2, <1>3, <1>6

(***************************************************************************)
(* Taking the first element.                                               *)
(***************************************************************************)
LEMMA Taking ==
  ASSUME NEW S, NEW s \in Seq(S), IsInjective(s), s # <<>>,
         NEW t, t = Tail(s)
  PROVE  /\ t \in Seq(S) /\ IsInjective(t)
         /\ Head(s) \in ToSet(s)
         /\ ToSet(t) = ToSet(s) \ {Head(s)}
<1>1. /\ Len(s) \in Nat \ {0} /\ t \in Seq(S) /\ Len(t) = Len(s) - 1
      /\ \A k \in 1..Len(t) : t[k] = s[k + 1] /\ k + 1 \in 1..Len(s)
      /\ Head(s) = s[1] /\ DOMAIN s = 1..Len(s) /\ DOMAIN t = 1..Len(t)
  BY EmptySeq
<1>2. IsInjective(t)
  BY <1>1 DEF IsInjective
<1>3. \A k \in 1..Len(s) : k # 1 => k - 1 \in 1..Len(t) /\ t[k - 1] = s[k]
  BY <1>1
<1>4. \A k \in 1..Len(s) : k # 1 => s[k] # s[1]
  BY <1>1 DEF IsInjective
<1>5. ToSet(t) \subseteq ToSet(s) \ {s[1]}
  BY <1>1, <1>4 DEF ToSet
<1>6. ToSet(s) \ {s[1]} \subseteq ToSet(t)
  <2>1. ASSUME NEW k \in 1..Len(s), s[k] # s[1]
        PROVE  \E j \in 1..Len(t) : t[j] = s[k]
    BY <1>3, <2>1
  <2>2. /\ ToSet(s) = {s[k] : k \in 1..Len(s)}
        /\ ToSet(t) = {t[k] : k \in 1..Len(t)}
    BY <1>1 DEF ToSet
  <2> SUFFICES ASSUME NEW x \in ToSet(s), x # s[1]
               PROVE  x \in ToSet(t)
    OBVIOUS
  <2>3. PICK k \in 1..Len(s) : s[k] = x
    BY <2>2
  <2>4. PICK j \in 1..Len(t) : t[j] = x
    BY <2>1, <2>3
  <2> QED
    BY <2>2, <2>4
<1>7. s[1] \in ToSet(s)
  BY <1>1 DEF ToSet
<1> QED
  BY <1>1, <1>2, <1>5, <1>6, <1>7

(***************************************************************************)
(* The last n elements.                                                    *)
(***************************************************************************)
LEMMA Keeping ==
  ASSUME NEW S, NEW s \in Seq(S), IsInjective(s), NEW n \in Nat \ {0}, n < Len(s),
         NEW t, t = SubSeq(s, Len(s) - n + 1, Len(s))
  PROVE  /\ t \in Seq(S) /\ IsInjective(t) /\ Len(t) = n
         /\ ToSet(t) \subseteq ToSet(s)
         /\ s[Len(s)] \in ToSet(t)
         /\ InOrder(t, s)
<1> DEFINE d == Len(s) - n
<1>1. d \in Nat /\ d + n = Len(s) /\ Len(s) \in Nat
  OBVIOUS
<1>2. t \in Seq(S) /\ Len(t) = n /\ \A k \in 1..n : t[k] = s[d + k] /\ d + k \in 1..Len(s)
  <2>1. \A k \in (d + 1)..Len(s) : s[k] \in S
    BY <1>1
  <2>2. /\ t \in Seq(S)
        /\ Len(t) = IF d + 1 <= Len(s) THEN Len(s) - (d + 1) + 1 ELSE 0
        /\ \A k \in 1..(Len(s) - (d + 1) + 1) : t[k] = s[(d + 1) + k - 1]
    <3> HIDE DEF d
    <3>1. d + 1 \in Int /\ Len(s) \in Int
      BY <1>1
    <3>2. t = SubSeq(s, d + 1, Len(s))
      BY DEF d
    <3> QED
      BY SMTT(30), <2>1, <3>1, <3>2, SubSeqProperties
  <2> HIDE DEF d
  <2>3. Len(s) - (d + 1) + 1 = n /\ d + 1 <= Len(s)
    BY <1>1
  <2>4. \A k \in 1..n : (d + 1) + k - 1 = d + k /\ d + k \in 1..Len(s)
    BY <1>1
  <2> QED
    BY <2>2, <2>3, <2>4
<1> HIDE DEF d
<1>3. IsInjective(t)
  BY SMTT(30), <1>1, <1>2 DEF IsInjective
<1>4. ToSet(t) \subseteq ToSet(s)
  BY <1>1, <1>2 DEF ToSet
<1>5. s[Len(s)] \in ToSet(t)
  <2>1. n \in 1..Len(t) /\ t[n] = s[Len(s)]
    BY <1>1, <1>2
  <2> QED
    <3>1. DOMAIN t = 1..Len(t)
      BY <1>2
    <3> QED
      BY <2>1, <3>1 DEF ToSet
<1>6. ASSUME NEW x, NEW y, Before(t, x, y)
      PROVE  Before(s, x, y)
  <2>1. PICK k, l \in 1..n : k < l /\ t[k] = x /\ t[l] = y
    BY <1>2, <1>6 DEF Before
  <2>2. d + k < d + l /\ d + k \in 1..Len(s) /\ d + l \in 1..Len(s) /\ s[d + k] = x /\ s[d + l] = y
    BY <1>1, <1>2, <2>1
  <2> QED
    BY <2>2 DEF Before
<1>7. InOrder(t, s)
  BY <1>6 DEF InOrder
<1> QED
  BY <1>2, <1>3, <1>4, <1>5, <1>7

(***************************************************************************)
(* What keeping the last n elements of s drops has at least n elements     *)
(* after it in any r that lists what s lists, in the same order.           *)
(***************************************************************************)
LEMMA DroppedIsFarBack ==
  ASSUME NEW S, NEW s \in Seq(S), IsInjective(s), NEW n \in Nat \ {0}, n < Len(s),
         NEW v \in ToSet(s), v \notin ToSet(SubSeq(s, Len(s) - n + 1, Len(s))),
         NEW r \in Seq(S), IsInjective(r), InOrder(s, r),
         NEW i \in 1..Len(r), r[i] = v
  PROVE  i <= Len(r) - n
<1> DEFINE d == Len(s) - n
           D == (d + 1)..Len(s)
           R == (i + 1)..Len(r)
<1>1. d \in Nat /\ Len(s) \in Nat /\ Len(r) \in Nat /\ d + n = Len(s)
  OBVIOUS
<1>2. PICK k \in 1..Len(s) : s[k] = v
  BY DEF ToSet
<1>3. k <= d
  <2> SUFFICES ASSUME k > d PROVE FALSE
    BY <1>1
  <2> DEFINE t == SubSeq(s, d + 1, Len(s))
  <2>1. \A j \in (d + 1)..Len(s) : s[j] \in S
    BY <1>1
  <2>2. /\ t \in Seq(S)
        /\ Len(t) = IF d + 1 <= Len(s) THEN Len(s) - (d + 1) + 1 ELSE 0
        /\ \A j \in 1..(Len(s) - (d + 1) + 1) : t[j] = s[(d + 1) + j - 1]
    <3> HIDE DEF d
    <3>1. d + 1 \in Int /\ Len(s) \in Int
      BY <1>1
    <3> QED
      BY SMTT(30), <2>1, <3>1, SubSeqProperties
  <2> HIDE DEF t, d
  <2>3. k - d \in 1..Len(t) /\ t[k - d] = s[k] /\ DOMAIN t = 1..Len(t)
    <3>1. k - d \in 1..(Len(s) - (d + 1) + 1) /\ (d + 1) + (k - d) - 1 = k /\ d + 1 <= Len(s)
      BY <1>1
    <3>2. Len(t) = Len(s) - (d + 1) + 1 /\ DOMAIN t = 1..Len(t)
      BY <2>2, <3>1
    <3> QED
      BY <2>2, <3>1, <3>2
  <2>4. v \in ToSet(t)
    BY <1>2, <2>3 DEF ToSet
  <2> QED
    BY <2>4 DEF t, d
<1> HIDE DEF d
<1>4. ASSUME NEW j \in D
      PROVE  \E p \in R : r[p] = s[j]
  <2>1. Before(s, v, s[j])
    BY <1>1, <1>2, <1>3 DEF Before
  <2>2. PICK q, p \in 1..Len(r) : q < p /\ r[q] = v /\ r[p] = s[j]
    <3>1. Before(r, v, s[j])
      BY <2>1 DEF InOrder
    <3> QED
      BY <3>1 DEF Before
  <2>3. q = i
    BY <2>2 DEF IsInjective
  <2> QED
    BY <1>1, <2>2, <2>3
<1> DEFINE f == [j \in D |-> CHOOSE p \in R : r[p] = s[j]]
<1>5. \A j \in D : f[j] \in R /\ r[f[j]] = s[j]
  BY <1>4
<1>6. f \in Injection(D, R)
  <2>1. f \in [D -> R]
    BY <1>5
  <2>2. \A a, b \in D : f[a] = f[b] => a = b
    <3>1. \A a, b \in D : s[a] = s[b] => a = b
      BY SMTT(30), <1>1 DEF IsInjective
    <3> HIDE DEF f, D
    <3> QED
      BY <1>5, <3>1
  <2> HIDE DEF f, D, R
  <2> QED
    BY <2>1, <2>2 DEF Injection, IsInjective
<1>7. /\ IsFiniteSet(D) /\ Cardinality(D) = n
      /\ IsFiniteSet(R) /\ Cardinality(R) = IF i + 1 > Len(r) THEN 0 ELSE Len(r) - (i + 1) + 1
  <2>1. d + 1 \in Int /\ Len(s) \in Int /\ i + 1 \in Int /\ Len(r) \in Int
    BY <1>1
  <2>2. /\ IsFiniteSet((d + 1)..Len(s))
        /\ Cardinality((d + 1)..Len(s)) = IF d + 1 > Len(s) THEN 0 ELSE Len(s) - (d + 1) + 1
    BY <2>1, FS_Interval
  <2>3. (IF d + 1 > Len(s) THEN 0 ELSE Len(s) - (d + 1) + 1) = n
    BY <1>1
  <2>4. /\ IsFiniteSet((i + 1)..Len(r))
        /\ Cardinality((i + 1)..Len(r)) = IF i + 1 > Len(r) THEN 0 ELSE Len(r) - (i + 1) + 1
    BY <2>1, FS_Interval
  <2> QED
    BY <2>2, <2>3, <2>4
<1> HIDE DEF f, D, R
<1>8. n <= Cardinality(R)
  BY <1>6, <1>7, FS_Injection
<1> QED
  BY <1>1, <1>7, <1>8
==============================================================================
