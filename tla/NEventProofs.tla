---------------------------- MODULE NEventProofs ----------------------------
(***************************************************************************)
(* Proofs about module NEvent, for every choice of its constants.          *)
(***************************************************************************)
EXTENDS NEvent, FiniteSetTheorems, TLAPS

(***************************************************************************)
(* The least element of a set of natural numbers.                          *)
(***************************************************************************)
LEMMA NatMinimum ==
  ASSUME NEW S \in SUBSET Nat, S # {}
  PROVE  \E m \in S : \A k \in S : m <= k
<1>1. PICK m \in S : \A k \in S : ~ (<<k, m>> \in OpToRel(<, Nat))
  BY WFMin, NatLessThanWellFounded, Zenon
<1>2. \A k \in S : ~ (k < m)
  BY <1>1 DEF OpToRel
<1> QED BY <1>2

(***************************************************************************)
(* The k-th element of a finite set of positive numbers exists.            *)
(***************************************************************************)
LEMMA RankNat ==
  ASSUME NEW n \in Nat, NEW S \in SUBSET (1 .. n), NEW i \in Int
  PROVE  /\ IsFiniteSet({j \in S : j <= i})
         /\ Rank(S, i) \in Nat
         /\ IsFiniteSet(S)
         /\ Cardinality(S) \in Nat
         /\ Rank(S, i) <= Cardinality(S)
<1> DEFINE T == {j \in S : j <= i}
<1>1. IsFiniteSet(1 .. n) BY FS_Interval
<1>2. IsFiniteSet(S) BY <1>1, FS_Subset
<1>3. T \in SUBSET S OBVIOUS
<1> HIDE DEF T
<1>4. IsFiniteSet(T) /\ Cardinality(T) <= Cardinality(S)
  BY <1>2, <1>3, FS_Subset
<1>5. Cardinality(T) \in Nat /\ Cardinality(S) \in Nat
  BY <1>2, <1>4, FS_CardinalityType
<1> QED BY <1>2, <1>4, <1>5 DEF Rank, T

\* The rank grows by one at each element of the set.
LEMMA RankStep ==
  ASSUME NEW n \in Nat, NEW S \in SUBSET (1 .. n), NEW i \in Nat
  PROVE  Rank(S, i + 1) = IF i + 1 \in S THEN Rank(S, i) + 1 ELSE Rank(S, i)
<1> DEFINE T == {j \in S : j <= i}
           U == {j \in S : j <= i + 1}
<1>1. IsFiniteSet(T) BY RankNat, i \in Int
<1>0. \A j \in S : j <= i + 1 <=> j <= i \/ j = i + 1 OBVIOUS
<1>2. CASE i + 1 \in S
  <2>1. \A j : j \in U <=> j \in T \cup {i + 1} BY <1>0, <1>2
  <2>2. i + 1 \notin T OBVIOUS
  <2> HIDE DEF T, U
  <2>5. U = T \cup {i + 1} BY <2>1, Zenon
  <2>3. Cardinality(U) = Cardinality(T) + 1 BY <1>1, <2>2, <2>5, FS_AddElement
  <2> QED BY <1>2, <2>3 DEF Rank, T, U
<1>3. CASE i + 1 \notin S
  <2>1. \A j : j \in U <=> j \in T BY <1>0, <1>3
  <2> HIDE DEF T, U
  <2>2. U = T BY <2>1, Zenon
  <2> QED BY <1>3, <2>2 DEF Rank, T, U
<1> QED BY <1>2, <1>3

\* Different elements have different ranks.
LEMMA RankIncreasing ==
  ASSUME NEW n \in Nat, NEW S \in SUBSET (1 .. n), NEW i \in S, NEW j \in Int,
         j < i
  PROVE  Rank(S, j) < Rank(S, i)
<1> DEFINE T == {k \in S : k <= j}
           U == {k \in S : k <= i}
<1>0. S \subseteq Int /\ i \in Int OBVIOUS
<1>1. IsFiniteSet(U) BY <1>0, RankNat
<1>2. \A k \in T : k \in U BY <1>0
<1>3. i \in U /\ i \notin T BY <1>0
<1>4. Cardinality(T) \in Nat /\ Cardinality(U) \in Nat
  BY <1>0, RankNat DEF Rank
<1> HIDE DEF T, U
<1>5. /\ Cardinality(T) <= Cardinality(U)
      /\ Cardinality(U) = Cardinality(T) => U = T
  BY <1>1, <1>2, FS_Subset
<1>6. Cardinality(T) < Cardinality(U) BY <1>3, <1>4, <1>5
<1> QED BY <1>6 DEF Rank, T, U

\* Every rank up to the size of the set is that of an element.
LEMMA RankOnto ==
  ASSUME NEW n \in Nat, NEW S \in SUBSET (1 .. n), NEW k \in 1 .. Cardinality(S)
  PROVE  \E i \in S : Rank(S, i) = k
<1> DEFINE R == {i \in Nat : k <= Rank(S, i)}
<1>0. S \subseteq Int OBVIOUS
<1>1. Rank(S, n) = Cardinality(S)
  <2>1. \A j \in S : j <= n OBVIOUS
  <2>2. {j \in S : j <= n} = S BY <2>1, Zenon
  <2> QED BY <2>2 DEF Rank
<1>2. Cardinality(S) \in Nat BY RankNat, n \in Int
<1>3. n \in R BY <1>1, <1>2
<1>4. PICK i \in R : \A j \in R : i <= j BY <1>3, NatMinimum
<1>5. Rank(S, 0) = 0
  <2>1. \A j \in S : ~ (j <= 0) OBVIOUS
  <2>2. {j \in S : j <= 0} = {} BY <2>1, Zenon
  <2> QED BY <2>2, FS_EmptySet DEF Rank
<1>6. i > 0 BY <1>2, <1>4, <1>5
<1>7. i - 1 \in Nat /\ i - 1 \notin R BY <1>4, <1>6
<1>8. Rank(S, i - 1) \in Nat /\ Rank(S, i) \in Nat
  <2>1. i \in Int /\ i - 1 \in Int BY <1>7
  <2> QED BY <2>1, RankNat
<1>9. Rank(S, i - 1) < k BY <1>2, <1>7, <1>8
<1>10. Rank(S, (i - 1) + 1) = IF (i - 1) + 1 \in S THEN Rank(S, i - 1) + 1
                                                  ELSE Rank(S, i - 1)
  BY <1>7, RankStep
<1>11. i \in S /\ Rank(S, i) = k BY <1>2, <1>4, <1>8, <1>9, <1>10
<1> QED BY <1>11

(***************************************************************************)
(* Keep(s, S) has exactly the elements of s that are in S, in their order. *)
(***************************************************************************)
LEMMA KeepProperties ==
  ASSUME NEW T, NEW s \in Seq(T), NEW S
  PROVE  /\ Keep(s, S) \in Seq(T)
         /\ \A k \in DOMAIN Keep(s, S) :
              \E i \in DOMAIN s : s[i] \in S /\ Keep(s, S)[k] = s[i]
         /\ \A i \in DOMAIN s :
              s[i] \in S => \E k \in DOMAIN Keep(s, S) : Keep(s, S)[k] = s[i]
         /\ \A k, l \in DOMAIN Keep(s, S) : k < l =>
              \E i, j \in DOMAIN s :
                i < j /\ Keep(s, S)[k] = s[i] /\ Keep(s, S)[l] = s[j]
<1> DEFINE kept == {i \in DOMAIN s : s[i] \in S}
           n == Cardinality(kept)
           at(k) == CHOOSE i \in kept : Rank(kept, i) = k
           K == [k \in 1 .. n |-> s[at(k)]]
<1>1. Keep(s, S) = K BY DEF Keep
<1>2. Len(s) \in Nat /\ DOMAIN s = 1 .. Len(s) OBVIOUS
<1>3. kept \in SUBSET (1 .. Len(s)) BY <1>2
<1>13. \A j \in kept : j \in Nat /\ j \in DOMAIN s /\ s[j] \in S /\ s[j] \in T
  BY <1>2
<1>4. n \in Nat BY <1>2, <1>3, RankNat, 0 \in Int
<1>5. \A k \in 1 .. n : at(k) \in kept /\ Rank(kept, at(k)) = k
  <2> TAKE k \in 1 .. n
  <2> HIDE DEF kept
  <2>1. \E i \in kept : Rank(kept, i) = k BY <1>2, <1>3, RankOnto
  <2> QED BY <2>1
<1> HIDE DEF at
<1>6. \A i \in kept : Rank(kept, i) \in 1 .. n /\ at(Rank(kept, i)) = i
  <2> TAKE i \in kept
  <2>0. i \in Nat /\ i >= 1 /\ i - 1 \in Int /\ i - 1 < i BY <1>2
  <2> HIDE DEF kept
  <2>1. /\ Rank(kept, i) \in Nat /\ Rank(kept, i - 1) \in Nat
        /\ Rank(kept, i) <= n
    <3>1. i \in Int BY <2>0
    <3> QED BY <1>2, <1>3, <2>0, <3>1, RankNat
  <2>2. Rank(kept, i - 1) < Rank(kept, i) BY <1>2, <1>3, <2>0, RankIncreasing
  <2>3. Rank(kept, i) \in 1 .. n BY <1>4, <2>1, <2>2
  <2>4. at(Rank(kept, i)) \in kept /\ Rank(kept, at(Rank(kept, i))) = Rank(kept, i)
    BY <1>5, <2>3
  <2>5. at(Rank(kept, i)) \in Nat BY <1>13, <2>4
  <2>6. ~ (at(Rank(kept, i)) < i)
    <3> SUFFICES ASSUME at(Rank(kept, i)) < i PROVE FALSE OBVIOUS
    <3>1. at(Rank(kept, i)) \in Int BY <2>5
    <3>2. Rank(kept, at(Rank(kept, i))) < Rank(kept, i)
      BY <1>2, <1>3, <3>1, RankIncreasing
    <3> QED BY <2>1, <2>4, <3>2
  <2>7. ~ (i < at(Rank(kept, i)))
    <3> SUFFICES ASSUME i < at(Rank(kept, i)) PROVE FALSE OBVIOUS
    <3>1. i \in Int BY <2>0
    <3>2. Rank(kept, i) < Rank(kept, at(Rank(kept, i)))
      BY <1>2, <1>3, <2>4, <3>1, RankIncreasing
    <3> QED BY <2>1, <2>4, <3>2
  <2> QED BY <2>0, <2>3, <2>5, <2>6, <2>7
<1>7. \A k, l \in 1 .. n : k < l => at(k) < at(l)
  <2> SUFFICES ASSUME NEW k \in 1 .. n, NEW l \in 1 .. n, k < l,
                      ~ (at(k) < at(l))
               PROVE  FALSE
    OBVIOUS
  <2>1. /\ at(k) \in kept /\ Rank(kept, at(k)) = k
        /\ at(l) \in kept /\ Rank(kept, at(l)) = l
    BY <1>5
  <2>2. at(k) \in Int /\ at(l) \in Int BY <1>2, <2>1
  <2> HIDE DEF kept
  <2>3. at(l) # at(k) BY <2>1
  <2>4. at(l) < at(k) BY <2>2, <2>3
  <2>5. Rank(kept, at(l)) < Rank(kept, at(k))
    BY <1>2, <1>3, <2>1, <2>2, <2>4, RankIncreasing
  <2> QED BY <1>4, <2>1, <2>5
<1>8. \A k \in 1 .. n : at(k) \in DOMAIN s /\ s[at(k)] \in S /\ s[at(k)] \in T
  BY <1>5, <1>13
<1>9. \A i \in DOMAIN s : s[i] \in S => i \in kept OBVIOUS
<1> HIDE DEF kept, n
<1>10. K \in Seq(T) /\ DOMAIN K = 1 .. n /\ \A k \in 1 .. n : K[k] = s[at(k)]
  BY <1>4, <1>8
<1> HIDE DEF K
<1>11. \A i \in DOMAIN s : s[i] \in S => \E k \in DOMAIN K : K[k] = s[i]
  BY <1>6, <1>9, <1>10
<1>12. \A k, l \in DOMAIN K : k < l =>
         \E i, j \in DOMAIN s : i < j /\ K[k] = s[i] /\ K[l] = s[j]
  BY <1>7, <1>8, <1>10
<1> QED BY <1>1, <1>8, <1>10, <1>11, <1>12

-----------------------------------------------------------------------------
(***************************************************************************)
(* Arithmetic of nevent_changeclock: division, and the rounding built on   *)
(* it, keep the order of the clocks.                                       *)
(***************************************************************************)
LEMMA DivBounds ==
  ASSUME NEW a \in Int, NEW d \in Nat \ {0}
  PROVE  /\ a \div d \in Int
         /\ d * (a \div d) <= a
         /\ a < d * (a \div d) + d
  OBVIOUS

\* Multiplication by a natural number keeps the order.
LEMMA ProductMonotone ==
  ASSUME NEW a \in Int, NEW b \in Int, NEW d \in Nat, a <= b
  PROVE  a * d <= b * d /\ d * a <= d * b
  OBVIOUS

\* Division by a positive number keeps the order.
LEMMA DivMonotone ==
  ASSUME NEW a \in Int, NEW b \in Int, NEW d \in Nat \ {0}, a <= b
  PROVE  a \div d <= b \div d
<1> DEFINE q == a \div d
           r == b \div d
<1>1. q \in Int /\ d * q <= a BY DivBounds
<1>2. r \in Int /\ b < d * r + d BY DivBounds
<1> HIDE DEF q, r
<1>3. SUFFICES ASSUME r < q PROVE FALSE BY <1>1, <1>2 DEF q, r
<1>4. r + 1 \in Int /\ r + 1 <= q BY <1>1, <1>2, <1>3
<1>5. d * (r + 1) <= d * q BY <1>1, <1>4, ProductMonotone
<1>6. d * (r + 1) = d * r + d BY <1>2
<1>7. d * q \in Int /\ d * r \in Int BY <1>1, <1>2
<1> QED BY <1>1, <1>2, <1>5, <1>6, <1>7

\* Division keeps natural numbers natural.
LEMMA DivNat ==
  ASSUME NEW a \in Nat, NEW d \in Nat \ {0}
  PROVE  a \div d \in Nat
<1>1. 0 \div d <= a \div d BY DivMonotone, 0 \in Int, a \in Int
<1>2. 0 \div d = 0 OBVIOUS
<1> QED BY <1>1, <1>2, DivBounds, a \in Int

\* nevent_changeclock makes numbers of numbers, and no negative ones of others.
LEMMA ScaleType ==
  ASSUME NEW a \in Int, NEW old \in Nat \ {0}, NEW new \in Nat \ {0}
  PROVE  /\ a * new + old \div 2 \in Int
         /\ Scale(a, old, new) \in Int
         /\ a >= 0 => Scale(a, old, new) \in Nat
<1>1. old \div 2 \in Nat BY DivNat, 2 \in Nat \ {0}
<1>2. a * new \in Int /\ (a >= 0 => a * new >= 0) OBVIOUS
<1> DEFINE n == a * new + old \div 2
<1>3. n \in Int /\ (a >= 0 => n >= 0) BY <1>1, <1>2
<1> HIDE DEF n
<1>4. -n \in Int BY <1>3
<1>5. n \div old \in Int /\ (-n) \div old \in Int BY <1>3, <1>4, DivBounds
<1>6. n >= 0 => n \div old \in Nat BY <1>3, DivNat
<1> QED BY <1>3, <1>5, <1>6 DEF Scale, n

\* The rescaling of nevent_changeclock keeps the order, whatever is rounded.
LEMMA ScaleMonotone ==
  ASSUME NEW a \in Int, NEW b \in Int, a <= b,
         NEW old \in Nat \ {0}, NEW new \in Nat \ {0}
  PROVE  Scale(a, old, new) <= Scale(b, old, new)
<1> DEFINE n == a * new + old \div 2
           m == b * new + old \div 2
<1>1. n \in Int /\ m \in Int BY ScaleType
<1>2. n <= m
  <2>1. a * new <= b * new BY ProductMonotone
  <2>2. old \div 2 \in Int /\ a * new \in Int /\ b * new \in Int
    BY DivBounds, old \in Int, 2 \in Nat \ {0}
  <2> QED BY <2>1, <2>2
<1> HIDE DEF n, m
<1>3. -n \in Int /\ -m \in Int /\ -m <= -n BY <1>1, <1>2
<1>4. n \div old <= m \div old /\ (-m) \div old <= (-n) \div old
  BY <1>1, <1>2, <1>3, DivMonotone
<1>5. n \div old \in Int /\ m \div old \in Int /\ (-n) \div old \in Int
      /\ (-m) \div old \in Int
  BY <1>1, <1>3, DivBounds
<1>6. m >= 0 => m \div old \in Nat BY <1>1, DivNat
<1>7. n < 0 => (-n) \div old \in Nat BY <1>1, <1>3, DivNat
<1> QED BY <1>1, <1>2, <1>4, <1>5, <1>6, <1>7 DEF Scale, n, m

\* What nevent_changeclock does to the clock of an armed event.
NewClock(a, old, new) == IF a > 0 THEN ScaleClock(a, old, new) ELSE a

\* So does the rescaling of the clocks, which are kept above 0.
LEMMA NewClockProperties ==
  ASSUME NEW old \in Nat \ {0}, NEW new \in Nat \ {0}
  PROVE  /\ \A a \in Nat : NewClock(a, old, new) \in Nat
         /\ \A a \in Nat : Scale(a, old, new) <= NewClock(a, old, new)
         /\ \A a, b \in Nat :
              a <= b => NewClock(a, old, new) <= NewClock(b, old, new)
<1>1. \A a \in Nat : Scale(a, old, new) \in Nat BY ScaleType
<1>2. \A a, b \in Nat : a <= b => Scale(a, old, new) <= Scale(b, old, new)
  BY ScaleMonotone
<1>3. Scale(0, old, new) = 0
  <2> DEFINE h == old \div 2
             q == h \div old
  <2>1. h \in Int /\ 2 * h <= old BY DivBounds, 2 \in Nat \ {0}
  <2>2. h \in Nat BY DivNat, 2 \in Nat \ {0}
  <2>3. h < old BY <2>1, <2>2
  <2>4. q \in Nat /\ old * q <= h BY <2>2, DivNat, DivBounds
  <2>5. q = 0
    <3> HIDE DEF h, q
    <3>1. SUFFICES ASSUME 1 <= q PROVE FALSE BY <2>4
    <3>2. old * 1 <= old * q BY <2>4, <3>1, ProductMonotone
    <3> QED BY <2>1, <2>3, <2>4, <3>2
  <2>6. 0 * new + h = h BY <2>1
  <2> HIDE DEF h
  <2> QED BY <2>2, <2>5, <2>6 DEF Scale, h
<1>4. \A a \in Nat : NewClock(a, old, new) =
        IF a > 0 THEN IF Scale(a, old, new) <= 0 THEN 1 ELSE Scale(a, old, new)
                 ELSE 0
  BY DEF NewClock, ScaleClock
<1> QED BY <1>1, <1>2, <1>3, <1>4

-----------------------------------------------------------------------------
(***************************************************************************)
(* nevent_set finds a place, and puts the event there.                     *)
(***************************************************************************)
LEMMA InsertionPointProperties ==
  ASSUME NEW s \in Seq(ID), NEW c \in Nat, clock \in [ID -> Nat]
  PROVE  /\ InsertionPoint(s, c) \in 1 .. Len(s) + 1
         /\ InsertionPoint(s, c) <= Len(s) => c < clock[s[InsertionPoint(s, c)]]
         /\ \A i \in 1 .. InsertionPoint(s, c) - 1 : clock[s[i]] <= c
<1> DEFINE later(p) == p <= Len(s) => c < clock[s[p]]
           S == {p \in 1 .. Len(s) + 1 : later(p)}
<1>1. Len(s) \in Nat /\ \A i \in 1 .. Len(s) : s[i] \in ID /\ clock[s[i]] \in Nat
  OBVIOUS
<1>2. S \in SUBSET Nat /\ Len(s) + 1 \in S BY <1>1
<1>3. PICK p \in S : \A k \in S : p <= k BY <1>2, NatMinimum
<1>4. \A i \in 1 .. p - 1 : i \notin S /\ i \in 1 .. Len(s) BY <1>1, <1>3
<1>5. \A i \in 1 .. p - 1 : clock[s[i]] <= c BY <1>1, <1>4
<1>6. p \in 1 .. Len(s) + 1 /\ later(p) BY <1>3
<1> QED BY <1>5, <1>6 DEF InsertionPoint

\* The array of nevent_set after the insertion.
LEMMA InsertBeforeProperties ==
  ASSUME NEW T, NEW s \in Seq(T), NEW p \in 1 .. Len(s) + 1, NEW id \in T
  PROVE  /\ InsertBefore(s, p, id) \in Seq(T)
         /\ DOMAIN InsertBefore(s, p, id) = 1 .. Len(s) + 1
         /\ \A i \in 1 .. Len(s) + 1 : InsertBefore(s, p, id)[i] =
              IF i < p THEN s[i] ELSE IF i = p THEN id ELSE s[i - 1]
<1>1. Len(s) \in Nat /\ \A i \in 1 .. Len(s) : s[i] \in T OBVIOUS
<1>2. \A i \in 1 .. Len(s) + 1 :
        (IF i < p THEN s[i] ELSE IF i = p THEN id ELSE s[i - 1]) \in T
  BY <1>1
<1>3. InsertBefore(s, p, id) \in [1 .. Len(s) + 1 -> T]
  BY <1>2 DEF InsertBefore
<1>4. Len(s) + 1 \in Nat BY <1>1
<1> HIDE DEF InsertBefore
<1>5. InsertBefore(s, p, id) \in Seq(T) BY <1>3, <1>4
<1> QED BY <1>3, <1>5 DEF InsertBefore

\* The queue and the slice, as every operation keeps them.
QueueInv ==
  /\ level \in Seq(ID)
  /\ clock \in [ID -> Nat]
  /\ \A i, j \in DOMAIN level :
       i < j => level[i] # level[j] /\ clock[level[i]] <= clock[level[j]]
  /\ \A id \in Armed : base <= clock[id]
  /\ base \in Nat /\ rem \in Int /\ rem <= base

\* The invariant of the queue contains LevelOrdered.
LEMMA SliceEndsByFirst ==
  ASSUME QueueInv
  PROVE  LevelOrdered
<1>1. level # <<>> => 1 \in DOMAIN level BY DEF QueueInv
<1> QED BY <1>1 DEF QueueInv, LevelOrdered, Armed

(***************************************************************************)
(* nevent_reset.                                                           *)
(***************************************************************************)
LEMMA RemovedQueue ==
  ASSUME QueueInv, NEW S
  PROVE  LET K == Keep(level, S)
         IN /\ K \in Seq(ID)
            /\ {K[i] : i \in DOMAIN K} = Armed \cap S
            /\ \A i, j \in DOMAIN K :
                 i < j => K[i] # K[j] /\ clock[K[i]] <= clock[K[j]]
<1> DEFINE K == Keep(level, S)
<1>1. level \in Seq(ID) BY DEF QueueInv
<1>2. /\ K \in Seq(ID)
      /\ \A k \in DOMAIN K : \E i \in DOMAIN level :
           level[i] \in S /\ K[k] = level[i]
      /\ \A i \in DOMAIN level :
           level[i] \in S => \E k \in DOMAIN K : K[k] = level[i]
      /\ \A k, l \in DOMAIN K : k < l => \E i, j \in DOMAIN level :
           i < j /\ K[k] = level[i] /\ K[l] = level[j]
  BY <1>1, KeepProperties
<1> HIDE DEF K
<1>3. {K[i] : i \in DOMAIN K} = Armed \cap S BY <1>2 DEF Armed
<1>4. \A i, j \in DOMAIN K :
        i < j => K[i] # K[j] /\ clock[K[i]] <= clock[K[j]]
  <2> TAKE i, j \in DOMAIN K
  <2> HAVE i < j
  <2>1. PICK a, b \in DOMAIN level : a < b /\ K[i] = level[a] /\ K[j] = level[b]
    BY <1>2
  <2> QED BY <2>1 DEF QueueInv
<1> QED BY <1>2, <1>3, <1>4 DEF K

(***************************************************************************)
(* nevent_set: the event is in the queue, the other ones stay, the slice   *)
(* ends by the first of them, and the time within the slice is the same.   *)
(***************************************************************************)
LEMMA PlaceQueue ==
  ASSUME QueueInv, NEW id \in ID, NEW c \in Nat, NEW callback,
         Place(id, c, callback)
  PROVE  /\ QueueInv'
         /\ Armed' = Armed \cup {id}
         /\ Elapsed' = Elapsed
<1> DEFINE K == Keep(level, ID \ {id})
           p == InsertionPoint(K, c)
           L == InsertBefore(K, p, id)
<1>1. /\ K \in Seq(ID)
      /\ {K[i] : i \in DOMAIN K} = Armed \cap (ID \ {id})
      /\ \A i, j \in DOMAIN K :
           i < j => K[i] # K[j] /\ clock[K[i]] <= clock[K[j]]
  BY RemovedQueue
<1>2. clock \in [ID -> Nat] /\ base \in Nat /\ rem \in Int /\ rem <= base
  BY DEF QueueInv
<1>3. /\ level' = L
      /\ clock' = [clock EXCEPT ![id] = c]
      /\ IF p = 1 THEN base' = c /\ rem' = c - Elapsed
                  ELSE base' = base /\ rem' = rem
  BY DEF Place
<1> HIDE DEF K
<1>4. /\ p \in 1 .. Len(K) + 1
      /\ p <= Len(K) => c < clock[K[p]]
      /\ \A i \in 1 .. p - 1 : clock[K[i]] <= c
  BY <1>1, <1>2, InsertionPointProperties
<1> HIDE DEF p
<1>5. /\ L \in Seq(ID)
      /\ DOMAIN L = 1 .. Len(K) + 1
      /\ \A i \in 1 .. Len(K) + 1 :
           L[i] = IF i < p THEN K[i] ELSE IF i = p THEN id ELSE K[i - 1]
  BY <1>1, <1>4, InsertBeforeProperties
<1> HIDE DEF L
<1>6. Len(K) \in Nat /\ DOMAIN K = 1 .. Len(K) BY <1>1
<1>7. \A i \in 1 .. Len(K) : K[i] \in ID /\ K[i] # id /\ K[i] \in Armed
  BY <1>1, <1>6
<1>8. Armed \subseteq ID BY DEF QueueInv, Armed
<1>9. Armed' = Armed \cup {id}
  <2>1. Armed' = {L[i] : i \in DOMAIN L} BY <1>3 DEF Armed
  <2>2. \A x \in Armed : x # id => \E i \in DOMAIN L : L[i] = x
    <3> SUFFICES ASSUME NEW x \in Armed, x # id
                 PROVE  \E i \in DOMAIN L : L[i] = x
      OBVIOUS
    <3>1. x \in {K[i] : i \in DOMAIN K} BY <1>1, <1>8
    <3>2. PICK i \in 1 .. Len(K) : K[i] = x BY <1>6, <3>1
    <3>3. CASE i < p
      <4>1. i \in DOMAIN L /\ L[i] = x BY <1>5, <1>6, <3>2, <3>3
      <4> QED BY <4>1
    <3>4. CASE ~ (i < p)
      <4>1. i + 1 \in 1 .. Len(K) + 1 /\ ~ (i + 1 < p) /\ i + 1 # p
        BY <1>4, <1>6, <3>4
      <4>2. L[i + 1] = K[(i + 1) - 1] BY <1>5, <4>1
      <4> QED BY <1>5, <3>2, <4>1, <4>2
    <3> QED BY <3>3, <3>4
  <2>3. p \in DOMAIN L /\ L[p] = id BY <1>4, <1>5
  <2>4. \A i \in DOMAIN L : L[i] \in Armed \cup {id}
    <3> TAKE i \in DOMAIN L
    <3>1. i \in 1 .. Len(K) + 1 BY <1>5
    <3>2. CASE i < p
      <4>1. i \in 1 .. Len(K) BY <1>4, <1>6, <3>1, <3>2
      <4> QED BY <1>5, <1>7, <3>1, <3>2, <4>1
    <3>3. CASE i = p BY <1>5, <3>1, <3>3
    <3>4. CASE i > p
      <4>1. i - 1 \in 1 .. Len(K) BY <1>4, <1>6, <3>1, <3>4
      <4>2. L[i] = K[i - 1] BY <1>4, <1>5, <3>1, <3>4
      <4> QED BY <1>7, <4>1, <4>2
    <3> QED BY <1>4, <1>6, <3>1, <3>2, <3>3, <3>4
  <2> QED BY <2>1, <2>2, <2>3, <2>4
<1>10. clock' \in [ID -> Nat] /\ clock'[id] = c
       /\ \A x \in ID : x # id => clock'[x] = clock[x]
  BY <1>2, <1>3
<1>11. \A i \in 1 .. Len(K) : clock'[K[i]] = clock[K[i]] BY <1>7, <1>10
<1>12. \A i, j \in DOMAIN L :
         i < j => L[i] # L[j] /\ clock'[L[i]] <= clock'[L[j]]
  <2> SUFFICES ASSUME NEW i \in 1 .. Len(K) + 1, NEW j \in 1 .. Len(K) + 1, i < j
               PROVE  L[i] # L[j] /\ clock'[L[i]] <= clock'[L[j]]
    BY <1>5
  <2>0. i \in Int /\ j \in Int /\ p \in Int BY <1>4, <1>6
  <2>1. CASE j < p
    <3>1. i \in 1 .. Len(K) /\ j \in 1 .. Len(K) BY <1>4, <1>6, <2>1
    <3>2. L[i] = K[i] /\ L[j] = K[j] BY <1>5, <2>0, <2>1
    <3> QED BY <1>1, <1>6, <1>11, <3>1, <3>2
  <2>2. CASE j = p
    <3>1. i \in 1 .. Len(K) /\ i \in 1 .. p - 1 BY <1>4, <1>6, <2>2
    <3>2. L[i] = K[i] /\ L[j] = id BY <1>5, <2>0, <2>2
    <3> QED BY <1>4, <1>7, <1>10, <1>11, <3>1, <3>2
  <2>3. CASE i = p
    <3>1. j - 1 \in 1 .. Len(K) /\ p \in 1 .. Len(K) /\ p <= j - 1
      BY <1>4, <1>6, <2>0, <2>3
    <3>2. L[i] = id /\ L[j] = K[j - 1] BY <1>5, <2>0, <2>3
    <3>3. clock[K[p]] <= clock[K[j - 1]]
      <4>1. CASE p = j - 1 BY <1>2, <1>7, <3>1, <4>1
      <4>2. CASE p < j - 1 BY <1>1, <1>6, <3>1, <4>2
      <4> QED BY <2>0, <3>1, <4>1, <4>2
    <3>4. clock[K[p]] \in Nat /\ clock[K[j - 1]] \in Nat BY <1>2, <1>7, <3>1
    <3> QED BY <1>4, <1>7, <1>10, <1>11, <3>1, <3>2, <3>3, <3>4
  <2>4. CASE i < p /\ p < j
    <3>1. i \in 1 .. Len(K) /\ j - 1 \in 1 .. Len(K) /\ i < j - 1
      BY <1>4, <1>6, <2>0, <2>4
    <3>2. L[i] = K[i] /\ L[j] = K[j - 1] BY <1>5, <2>0, <2>4
    <3> QED BY <1>1, <1>6, <1>11, <3>1, <3>2
  <2>5. CASE p < i
    <3>1. i - 1 \in 1 .. Len(K) /\ j - 1 \in 1 .. Len(K) /\ i - 1 < j - 1
      BY <1>4, <1>6, <2>0, <2>5
    <3>2. L[i] = K[i - 1] /\ L[j] = K[j - 1] BY <1>5, <2>0, <2>5
    <3> QED BY <1>1, <1>6, <1>11, <3>1, <3>2
  <2> QED BY <2>0, <2>1, <2>2, <2>3, <2>4, <2>5
<1>13. \A x \in Armed \cup {id} : base' <= clock'[x]
  <2>1. CASE p = 1
    <3>1. base' = c BY <1>3, <2>1
    <3>2. \A i \in 1 .. Len(K) : c <= clock[K[i]]
      <4> TAKE i \in 1 .. Len(K)
      <4>1. 1 \in 1 .. Len(K) /\ c < clock[K[1]] BY <1>4, <1>6, <2>1
      <4>2. clock[K[1]] \in Nat /\ clock[K[i]] \in Nat BY <1>2, <1>7, <4>1
      <4>3. clock[K[1]] <= clock[K[i]]
        <5>1. CASE i = 1 BY <4>2, <5>1
        <5>2. CASE 1 < i BY <1>1, <1>6, <4>1, <5>2
        <5> QED BY <1>6, <5>1, <5>2
      <4> QED BY <4>1, <4>2, <4>3
    <3>3. \A x \in Armed : x # id => c <= clock'[x]
      <4> SUFFICES ASSUME NEW x \in Armed, x # id PROVE c <= clock'[x] OBVIOUS
      <4>1. x \in {K[i] : i \in DOMAIN K} BY <1>1, <1>8
      <4>2. PICK i \in 1 .. Len(K) : K[i] = x BY <1>6, <4>1
      <4> QED BY <1>11, <3>2, <4>2
    <3> QED BY <1>10, <3>1, <3>3
  <2>2. CASE p # 1
    <3>1. base' = base BY <1>3, <2>2
    <3>2. 1 \in 1 .. p - 1 /\ 1 \in 1 .. Len(K) BY <1>4, <1>6, <2>2
    <3>3. base <= clock[K[1]] BY <1>7, <3>2 DEF QueueInv
    <3>4. clock[K[1]] \in Nat /\ clock[K[1]] <= c BY <1>2, <1>4, <1>7, <3>2
    <3>5. base <= c BY <1>2, <3>3, <3>4
    <3>6. \A x \in Armed : base <= clock[x] BY DEF QueueInv
    <3> QED BY <1>8, <1>10, <3>1, <3>5, <3>6
  <2> QED BY <2>1, <2>2
<1>14. base' \in Nat /\ rem' \in Int /\ rem' <= base' /\ Elapsed' = Elapsed
  BY <1>2, <1>3 DEF Elapsed
<1>15. level' = L BY <1>3
<1> QED BY <1>5, <1>9, <1>10, <1>12, <1>13, <1>14, <1>15 DEF QueueInv

(***************************************************************************)
(* nevent_changeclock.                                                     *)
(***************************************************************************)
LEMMA ChangeClockQueue ==
  ASSUME QueueInv, NEW new \in Nat \ {0}, multiple \in Nat \ {0},
         ChangeClock(new)
  PROVE  /\ QueueInv'
         /\ Armed' = Armed
         /\ \A id \in ID \ Armed : clock'[id] = clock[id]
         /\ \A i, j \in Armed : clock[i] <= clock[j] => clock'[i] <= clock'[j]
<1>1. /\ level \in Seq(ID) /\ level' = level
      /\ clock \in [ID -> Nat]
      /\ base \in Nat /\ rem \in Int /\ rem <= base
  BY DEF QueueInv, ChangeClock
<1>2. Armed \subseteq ID /\ Armed' = Armed BY <1>1 DEF Armed
<1>3. CASE level = <<>>
  <2>1. UNCHANGED <<level, clock, base, rem>> BY <1>1, <1>3 DEF ChangeClock
  <2> QED BY <1>2, <2>1 DEF QueueInv
<1>4. CASE level # <<>>
  <2> DEFINE nc(a) == NewClock(a, multiple, new)
  <2>1. /\ clock' = [id \in ID |-> IF id \in Armed /\ clock[id] > 0
                                    THEN ScaleClock(clock[id], multiple, new)
                                    ELSE clock[id]]
        /\ base' = IF base = rem THEN clock'[level[1]]
                                 ELSE Scale(base, multiple, new)
        /\ rem' = IF base = rem THEN clock'[level[1]]
                                ELSE Scale(rem, multiple, new)
    BY <1>4 DEF ChangeClock
  <2>2. \A id \in ID :
          clock'[id] = IF id \in Armed THEN nc(clock[id]) ELSE clock[id]
    BY <2>1 DEF NewClock
  <2>3. /\ \A a \in Nat : nc(a) \in Nat
        /\ \A a \in Nat : Scale(a, multiple, new) <= nc(a)
        /\ \A a, b \in Nat : a <= b => nc(a) <= nc(b)
    BY NewClockProperties
  <2> HIDE DEF nc
  <2>4. clock' \in [ID -> Nat]
    <3>1. \A id \in ID : clock'[id] \in Nat BY <1>1, <2>2, <2>3
    <3>2. clock' = [id \in ID |-> clock'[id]] BY <2>1
    <3> HIDE DEF nc
    <3> QED BY <3>1, <3>2
  <2>5. \A i, j \in Armed : clock[i] <= clock[j] => clock'[i] <= clock'[j]
    BY <1>1, <1>2, <2>2, <2>3
  <2>6. \A i, j \in DOMAIN level : i < j =>
          level[i] # level[j] /\ clock'[level[i]] <= clock'[level[j]]
    BY <2>5 DEF QueueInv, Armed
  <2>7. 1 \in DOMAIN level /\ level[1] \in Armed /\ level[1] \in ID
    BY <1>1, <1>2, <1>4 DEF Armed
  <2>8. \A id \in Armed : clock'[level[1]] <= clock'[id]
    <3> TAKE id \in Armed
    <3>1. PICK i \in DOMAIN level : level[i] = id BY DEF Armed
    <3>2. CASE i = 1 BY <2>4, <2>7, <3>1, <3>2
    <3>3. CASE 1 < i BY <2>6, <2>7, <3>1, <3>3
    <3> QED BY <1>1, <3>1, <3>2, <3>3
  <2>9. CASE base = rem
    <3>1. base' = clock'[level[1]] /\ rem' = base' BY <2>1, <2>9
    <3>2. base' \in Nat BY <2>4, <2>7, <3>1
    <3> QED BY <1>1, <1>2, <2>2, <2>4, <2>5, <2>6, <2>8, <3>1, <3>2 DEF QueueInv
  <2>10. CASE base # rem
    <3>1. base' = Scale(base, multiple, new) /\ rem' = Scale(rem, multiple, new)
      BY <2>1, <2>10
    <3>2. base' \in Nat /\ rem' \in Int BY <1>1, <3>1, ScaleType
    <3>3. rem' <= base' BY <1>1, <3>1, ScaleMonotone, base \in Int
    <3>4. \A id \in Armed : base' <= clock'[id]
      <4> TAKE id \in Armed
      <4>1. base <= clock[id] /\ clock[id] \in Nat
        BY <1>1, <1>2 DEF QueueInv
      <4>2. nc(base) <= nc(clock[id]) BY <1>1, <2>3, <4>1
      <4>3. base' <= nc(base) BY <1>1, <2>3, <3>1
      <4>4. nc(base) \in Nat /\ nc(clock[id]) \in Nat BY <1>1, <2>3, <4>1
      <4>5. clock'[id] = nc(clock[id]) BY <1>2, <2>2
      <4> QED BY <3>2, <4>2, <4>3, <4>4, <4>5
    <3> QED BY <1>1, <1>2, <2>2, <2>4, <2>5, <2>6, <3>2, <3>3, <3>4 DEF QueueInv
  <2> QED BY <2>9, <2>10
<1> QED BY <1>3, <1>4

(***************************************************************************)
(* nevent_progress: the events that are due leave the queue with a clock   *)
(* of 0, the other ones stay and lie behind the new slice.                 *)
(***************************************************************************)
LEMMA ProgressQueue ==
  ASSUME QueueInv, fired \in [ID -> BOOLEAN], MaxClock \in Nat, Progress,
         \A id \in ID : ~fired[id]
  PROVE  /\ QueueInv'
         /\ waitevent' \in Seq(ID)
         /\ fired' \in [ID -> BOOLEAN]
         /\ Armed' = {id \in Armed : clock[id] > base}
         /\ \A id \in ID : fired'[id] = (id \in Armed /\ clock[id] = base)
         /\ \A id \in ID : clock'[id] = IF id \in Armed THEN clock[id] - base
                                                        ELSE clock[id]
         /\ \A id \in ID : fired'[id] => \E i \in DOMAIN waitevent' :
                                            waitevent'[i] = id
         /\ Elapsed' = -rem
<1> DEFINE left == [id \in ID |-> IF id \in Armed THEN clock[id] - base
                                                  ELSE clock[id]]
           later == {id \in Armed : left[id] > 0}
           due == Armed \ later
           ends == {MaxClock} \cup {left[id] : id \in later}
           next == CHOOSE n \in ends : n <= MaxClock /\ \A id \in later : n <= left[id]
           W == Keep(level, {id \in due : ~fired[id]})
           L == Keep(level, later)
<1>1. /\ rem <= 0
      /\ clock' = left /\ level' = L /\ waitevent' = W
      /\ fired' = [id \in ID |-> fired[id] \/ id \in due]
      /\ base' = next /\ rem' = rem + next
  BY DEF Progress
<1>2. /\ level \in Seq(ID) /\ clock \in [ID -> Nat]
      /\ base \in Nat /\ rem \in Int /\ rem <= base
      /\ \A id \in Armed : id \in ID /\ base <= clock[id]
  BY DEF QueueInv, Armed
<1>3. \A id \in ID : left[id] = IF id \in Armed THEN clock[id] - base
                                                ELSE clock[id]
  OBVIOUS
<1>4. left \in [ID -> Nat] BY <1>2
<1> HIDE DEF left
<1>5. ends \in SUBSET Nat /\ ends # {} BY <1>2, <1>4
<1>6. PICK m \in ends : \A k \in ends : m <= k BY <1>5, NatMinimum
<1>7. m <= MaxClock /\ \A id \in later : m <= left[id] BY <1>6
<1>8. next \in ends /\ \A id \in later : next <= left[id] BY <1>6, <1>7
<1>9. next \in Nat BY <1>5, <1>8
<1> HIDE DEF next
<1>10. /\ L \in Seq(ID)
       /\ {L[i] : i \in DOMAIN L} = Armed \cap later
       /\ \A i, j \in DOMAIN L :
            i < j => L[i] # L[j] /\ clock[L[i]] <= clock[L[j]]
  BY RemovedQueue
<1>11. /\ W \in Seq(ID)
       /\ {W[i] : i \in DOMAIN W} = Armed \cap {id \in due : ~fired[id]}
  BY RemovedQueue
<1> HIDE DEF L, W
<1>12. Armed' = later BY <1>1, <1>10 DEF Armed
<1>13. \A id \in Armed : (id \in later <=> clock[id] > base)
                         /\ (id \in due <=> clock[id] = base)
  BY <1>2, <1>3
<1>14. \A i, j \in DOMAIN L :
         i < j => L[i] # L[j] /\ left[L[i]] <= left[L[j]]
  <2> SUFFICES ASSUME NEW i \in DOMAIN L, NEW j \in DOMAIN L, i < j
               PROVE  L[i] # L[j] /\ left[L[i]] <= left[L[j]]
    OBVIOUS
  <2>1. L[i] \in Armed /\ L[j] \in Armed BY <1>10
  <2>2. L[i] # L[j] /\ clock[L[i]] <= clock[L[j]] BY <1>10
  <2>3. clock[L[i]] \in Nat /\ clock[L[j]] \in Nat BY <1>2, <2>1
  <2> QED BY <1>2, <1>3, <2>1, <2>2, <2>3
<1>15. QueueInv'
  <2>1. base' \in Nat /\ rem' \in Int /\ rem' <= base'
    BY <1>1, <1>2, <1>9
  <2>2. \A id \in Armed' : base' <= clock'[id] BY <1>1, <1>8, <1>12
  <2> QED BY <1>1, <1>4, <1>10, <1>14, <2>1, <2>2 DEF QueueInv
<1>16. \A id \in ID : fired'[id] = (id \in Armed /\ clock[id] = base)
  BY <1>1, <1>13
<1>17. fired' \in [ID -> BOOLEAN] BY <1>1
<1>18. \A id \in ID : fired'[id] => \E i \in DOMAIN waitevent' : waitevent'[i] = id
  BY <1>1, <1>11
<1>19. Elapsed' = -rem BY <1>1, <1>2, <1>9 DEF Elapsed
<1>20. Armed' = {id \in Armed : clock[id] > base}
  BY <1>12, <1>13
<1> QED BY <1>1, <1>3, <1>11, <1>15, <1>16, <1>17, <1>18, <1>19, <1>20

-----------------------------------------------------------------------------
(* The inductive invariant. *)

\* The part of SchedulerInv about the callbacks that are owed.
OwedInv ==
  /\ \A id \in Armed : ~fired[id]
  /\ \A id \in ID : fired[id] =>
       /\ phase = "exec"
       /\ clock[id] = 0
       /\ \E i \in DOMAIN waitevent : waitevent[i] = id
  /\ phase # "exec" => waitevent = <<>>

\* SchedulerInv in the three parts that the steps are proved for.
LEMMA SchedulerInvParts ==
  /\ SchedulerInv <=> TypeOK /\ QueueInv /\ OwedInv
  /\ SchedulerInv' <=> TypeOK' /\ QueueInv' /\ OwedInv'
<1>1. QueueInv => LevelOrdered BY SliceEndsByFirst
<1>2. SchedulerInv <=> TypeOK /\ QueueInv /\ OwedInv
  BY <1>1 DEF SchedulerInv, QueueInv, OwedInv, TypeOK, LevelOrdered
<1>3. QueueInv' => LevelOrdered'
  <2>1. SUFFICES ASSUME QueueInv' PROVE LevelOrdered' OBVIOUS
  <2>2. level' # <<>> => 1 \in DOMAIN level' BY <2>1 DEF QueueInv
  <2> QED BY <2>1, <2>2 DEF QueueInv, LevelOrdered, Armed
<1>4. SchedulerInv' <=> TypeOK' /\ QueueInv' /\ OwedInv'
  BY <1>3 DEF SchedulerInv, QueueInv, OwedInv, TypeOK, LevelOrdered
<1> QED BY <1>2, <1>4

\* nevent_set within any handler or callback.
LEMMA PlaceInv ==
  ASSUME SchedulerInv, NEW id \in ID, NEW c \in Nat, NEW callback \in Procs,
         Place(id, c, callback)
  PROVE  /\ QueueInv'
         /\ level' \in Seq(ID) /\ clock' \in [ID -> Nat]
         /\ fired' \in [ID -> BOOLEAN] /\ proc' \in [ID -> Procs]
         /\ base' \in Nat /\ rem' \in Int
         /\ cpuclock' = cpuclock /\ multiple' = multiple
         /\ \A x \in Armed' : ~fired'[x]
         /\ \A x \in ID : fired'[x] => fired[x] /\ x # id /\ clock'[x] = clock[x]
<1>1. TypeOK /\ QueueInv /\ OwedInv BY SchedulerInvParts
<1>2. QueueInv' /\ Armed' = Armed \cup {id} BY <1>1, PlaceQueue
<1>3. /\ fired' = [fired EXCEPT ![id] = FALSE]
      /\ proc' = [proc EXCEPT ![id] = callback]
      /\ clock' = [clock EXCEPT ![id] = c]
      /\ cpuclock' = cpuclock /\ multiple' = multiple
  BY DEF Place
<1>4. /\ fired \in [ID -> BOOLEAN] /\ proc \in [ID -> Procs]
      /\ clock \in [ID -> Nat]
  BY <1>1 DEF TypeOK
<1>5. \A x \in ID : fired'[x] => fired[x] /\ x # id /\ clock'[x] = clock[x]
  BY <1>3, <1>4
<1>6. \A x \in Armed' : ~fired'[x]
  <2>1. Armed \subseteq ID BY <1>1 DEF QueueInv, Armed
  <2> QED BY <1>1, <1>2, <1>5, <2>1 DEF OwedInv
<1> QED BY <1>2, <1>3, <1>4, <1>5, <1>6 DEF QueueInv

\* What nevent_set adds up is a natural number.
LEMMA RelativeClock ==
  ASSUME SchedulerInv, NEW id \in ID, NEW d \in Nat
  PROVE  clock[id] + d \in Nat /\ d + Elapsed \in Nat
  BY DEF SchedulerInv, TypeOK, Elapsed

\* What remains of waitevent when the first callback has run.
LEMMA TailMembers ==
  ASSUME NEW T, NEW s \in Seq(T), s # <<>>, NEW i \in DOMAIN s, i # 1
  PROVE  i - 1 \in DOMAIN Tail(s) /\ Tail(s)[i - 1] = s[i]
  OBVIOUS

\* One step per action of Next.
LEMMA InductiveStep == SchedulerInv /\ [Next]_vars => SchedulerInv'
<1> SUFFICES ASSUME SchedulerInv, [Next]_vars
             PROVE  TypeOK' /\ QueueInv' /\ OwedInv'
  BY SchedulerInvParts
<1> USE EventsAssumption, ClocksAssumption
<1>0. TypeOK /\ QueueInv /\ OwedInv BY SchedulerInvParts
<1>1. CASE StartFrame
  <2>1. Place(Flames, clock[Flames] + DispClock, "screenvsync")
    BY <1>1 DEF StartFrame, SetRelative
  <2>2. clock[Flames] + DispClock \in Nat BY RelativeClock
  <2>3. waitevent' = waitevent /\ phase = "frame" /\ phase' = "loop"
        /\ screendispflag' = TRUE
    BY <1>1 DEF StartFrame
  <2> QED BY <1>0, <2>1, <2>2, <2>3, PlaceInv DEF TypeOK, OwedInv, Phases, Procs
<1>2. CASE EnterCpu
  BY <1>0, <1>2 DEF EnterCpu, items, timebase, TypeOK, QueueInv, OwedInv, Armed, Phases
<1>3. ASSUME NEW c \in Int, c > 0, Instruction(c)
      PROVE  TypeOK' /\ QueueInv' /\ OwedInv'
  BY <1>0, <1>3 DEF Instruction, items, TypeOK, QueueInv, OwedInv, Armed, Phases
<1>4. CASE Halt
  <2>1. rem + 1 \in Int /\ rem + 1 > 0 BY <1>0, <1>4 DEF Halt, Instruction, TypeOK
  <2> QED BY <1>3, <1>4, <2>1 DEF Halt
<1>5. CASE \E c \in Costs : Instruction(c)
  <2>1. PICK c \in Costs : Instruction(c) BY <1>5
  <2>2. c \in Int /\ c > 0 OBVIOUS
  <2> QED BY <1>3, <2>1, <2>2
<1>6. CASE EndInstruction
  BY <1>0, <1>6
     DEF EndInstruction, items, timebase, TypeOK, QueueInv, OwedInv, Armed, Phases
<1>7. CASE Progress
  <2>1. \A id \in ID : ~fired[id] BY <1>0, <1>7 DEF Progress, OwedInv
  <2>2. /\ QueueInv' /\ waitevent' \in Seq(ID) /\ fired' \in [ID -> BOOLEAN]
        /\ Armed' = {id \in Armed : clock[id] > base}
        /\ \A id \in ID : fired'[id] = (id \in Armed /\ clock[id] = base)
        /\ \A id \in ID : clock'[id] = IF id \in Armed THEN clock[id] - base
                                                       ELSE clock[id]
        /\ \A id \in ID : fired'[id] => \E i \in DOMAIN waitevent' :
                                           waitevent'[i] = id
    BY <1>0, <1>7, <2>1, ProgressQueue DEF TypeOK
  <2>3. /\ proc' = proc /\ multiple' = multiple /\ phase' = "exec"
        /\ cpuclock' = (cpuclock + base) % ClockMod
        /\ screendispflag' = (screendispflag /\ Flames \in Armed)
    BY <1>7 DEF Progress
  <2>4. cpuclock' \in 0 .. ClockMod - 1
    BY <1>0, <2>3 DEF TypeOK
  <2>5. screendispflag' \in BOOLEAN BY <2>3
  <2>6. TypeOK' BY <1>0, <2>2, <2>3, <2>4, <2>5 DEF TypeOK, QueueInv, Phases
  <2>7. \A id \in Armed : id \in ID /\ clock[id] \in Nat /\ base \in Nat
    BY <1>0 DEF QueueInv, Armed
  <2>8. OwedInv' BY <2>2, <2>3, <2>7 DEF OwedInv
  <2> QED BY <2>2, <2>6, <2>8
<1>8. CASE ScreenVsync
  <2>1. Place(Flames, clock[Flames] + VsyncClock, "screendisp")
    BY <1>8 DEF ScreenVsync, SetRelative
  <2>2. clock[Flames] + VsyncClock \in Nat BY RelativeClock
  <2>3. /\ waitevent # <<>> /\ Head(waitevent) = Flames
        /\ waitevent' = Tail(waitevent)
        /\ phase = "exec" /\ phase' = phase /\ screendispflag' = screendispflag
    BY <1>8 DEF ScreenVsync, Running
  <2>4. /\ QueueInv' /\ level' \in Seq(ID) /\ clock' \in [ID -> Nat]
        /\ fired' \in [ID -> BOOLEAN] /\ proc' \in [ID -> Procs]
        /\ base' \in Nat /\ rem' \in Int
        /\ cpuclock' = cpuclock /\ multiple' = multiple
        /\ \A x \in Armed' : ~fired'[x]
        /\ \A x \in ID : fired'[x] => fired[x] /\ x # Flames /\ clock'[x] = clock[x]
    BY <2>1, <2>2, PlaceInv DEF Procs
  <2>5. waitevent' \in Seq(ID) BY <1>0, <2>3 DEF TypeOK
  <2>6. \A x \in ID : fired'[x] => \E i \in DOMAIN waitevent' : waitevent'[i] = x
    <3> SUFFICES ASSUME NEW x \in ID, fired'[x]
                 PROVE  \E i \in DOMAIN waitevent' : waitevent'[i] = x
      OBVIOUS
    <3>1. PICK i \in DOMAIN waitevent : waitevent[i] = x BY <1>0, <2>4 DEF OwedInv
    <3>2. i # 1 BY <2>3, <2>4, <3>1
    <3>3. i - 1 \in DOMAIN waitevent' /\ waitevent'[i - 1] = x
      BY <1>0, <2>3, <3>1, <3>2, TailMembers DEF TypeOK
    <3> QED BY <3>3
  <2>7. TypeOK' BY <1>0, <2>3, <2>4, <2>5 DEF TypeOK
  <2>8. OwedInv' BY <1>0, <2>3, <2>4, <2>6 DEF OwedInv
  <2> QED BY <2>4, <2>7, <2>8
<1>9. ASSUME NEW id \in ID, Running(id), waitevent' = Tail(waitevent),
             fired' = [fired EXCEPT ![id] = FALSE],
             UNCHANGED <<level, clock, proc, timebase, phase>>,
             screendispflag' \in BOOLEAN
      PROVE  TypeOK' /\ QueueInv' /\ OwedInv'
  <2>1. waitevent # <<>> /\ Head(waitevent) = id /\ phase = "exec"
    BY <1>9 DEF Running
  <2>2. fired' \in [ID -> BOOLEAN]
        /\ \A x \in ID : fired'[x] => fired[x] /\ x # id
    BY <1>0, <1>9 DEF TypeOK
  <2>3. waitevent' \in Seq(ID) BY <1>0, <1>9, <2>1 DEF TypeOK
  <2>4. \A x \in ID : fired'[x] => \E i \in DOMAIN waitevent' : waitevent'[i] = x
    <3> SUFFICES ASSUME NEW x \in ID, fired'[x]
                 PROVE  \E i \in DOMAIN waitevent' : waitevent'[i] = x
      OBVIOUS
    <3>1. PICK i \in DOMAIN waitevent : waitevent[i] = x BY <1>0, <2>2 DEF OwedInv
    <3>2. i # 1 BY <2>1, <2>2, <3>1
    <3>3. i - 1 \in DOMAIN waitevent' /\ waitevent'[i - 1] = x
      BY <1>0, <1>9, <2>1, <3>1, <3>2, TailMembers DEF TypeOK
    <3> QED BY <3>3
  <2>5. Armed' = Armed /\ Armed \subseteq ID
    BY <1>0, <1>9 DEF Armed, QueueInv
  <2>6. TypeOK' BY <1>0, <1>9, <2>2, <2>3 DEF TypeOK, timebase
  <2>7. QueueInv' BY <1>0, <1>9, <2>5 DEF QueueInv, timebase
  <2>8. OwedInv' BY <1>0, <1>9, <2>1, <2>2, <2>4, <2>5 DEF OwedInv
  <2> QED BY <2>6, <2>7, <2>8
<1>10. CASE ScreenDisp
  BY <1>9, <1>10 DEF ScreenDisp
<1>11. CASE \E id \in ID : EndCallback(id)
  <2>1. PICK id \in ID : EndCallback(id) BY <1>11
  <2>2. screendispflag' \in BOOLEAN BY <1>0, <2>1 DEF EndCallback, TypeOK
  <2> QED BY <1>9, <2>1, <2>2 DEF EndCallback
<1>12. CASE EndExecute
  <2>1. \A id \in ID : ~fired[id] BY <1>0, <1>12 DEF EndExecute, OwedInv
  <2>2. phase' \in {"loop", "frame"} BY <1>12 DEF EndExecute, NextPhase
  <2> QED BY <1>0, <1>12, <2>1, <2>2
          DEF EndExecute, items, timebase, TypeOK, QueueInv, OwedInv, Armed, Phases
<1>13. ASSUME NEW new \in Multiples, ChangeClock(new),
              waitevent' = waitevent, screendispflag' = screendispflag,
              waitevent = <<>>, phase' \in Phases
       PROVE  TypeOK' /\ QueueInv' /\ OwedInv'
  <2>1. multiple \in Nat \ {0} /\ new \in Nat \ {0} BY <1>0 DEF TypeOK
  <2>2. QueueInv' /\ Armed' = Armed BY <1>0, <1>13, <2>1, ChangeClockQueue
  <2>3. /\ fired' = fired /\ proc' = proc /\ cpuclock' = cpuclock
        /\ multiple' = new
    BY <1>13 DEF ChangeClock
  <2>4. TypeOK' BY <1>0, <1>13, <2>2, <2>3 DEF TypeOK, QueueInv
  <2>5. \A id \in ID : ~fired[id] BY <1>0, <1>13 DEF OwedInv
  <2>6. OwedInv' BY <1>0, <1>13, <2>2, <2>3, <2>5 DEF OwedInv
  <2> QED BY <2>2, <2>4, <2>6
<1>14. CASE \E new \in Multiples : AsyncCpu(new)
  BY <1>13, <1>14 DEF AsyncCpu, NextPhase, Phases
<1>15. CASE \E new \in Multiples : ClientChangeClock(new)
  <2>1. PICK new \in Multiples : ClientChangeClock(new) BY <1>15
  <2>2. waitevent = <<>> /\ phase' \in Phases
    BY <1>0, <2>1 DEF ClientChangeClock, ClientUnchanged, OwedInv, Phases
  <2> QED BY <1>13, <2>1, <2>2 DEF ClientChangeClock, ClientUnchanged
<1>16. ASSUME NEW id \in ID, NEW c \in Nat, Place(id, c, "callback"),
              ClientUnchanged
       PROVE  TypeOK' /\ QueueInv' /\ OwedInv'
  <2>1. /\ QueueInv' /\ level' \in Seq(ID) /\ clock' \in [ID -> Nat]
        /\ fired' \in [ID -> BOOLEAN] /\ proc' \in [ID -> Procs]
        /\ base' \in Nat /\ rem' \in Int
        /\ cpuclock' = cpuclock /\ multiple' = multiple
        /\ \A x \in Armed' : ~fired'[x]
        /\ \A x \in ID : fired'[x] => fired[x] /\ x # id /\ clock'[x] = clock[x]
    BY <1>16, PlaceInv DEF Procs
  <2>2. TypeOK' BY <1>0, <1>16, <2>1 DEF TypeOK, ClientUnchanged
  <2>3. OwedInv' BY <1>0, <1>16, <2>1 DEF OwedInv, ClientUnchanged
  <2> QED BY <2>1, <2>2, <2>3
<1>17. ASSUME NEW id \in ID, NEW d \in Delays,
              ClientSet(id, d) \/ ClientRearm(id, d) \/ ClientStart(id, d)
       PROVE  TypeOK' /\ QueueInv' /\ OwedInv'
  <2>1. d \in Nat OBVIOUS
  <2>2. clock[id] + d \in Nat /\ d + Elapsed \in Nat BY <2>1, RelativeClock
  <2> QED BY <1>16, <1>17, <2>2
          DEF ClientSet, ClientRearm, ClientStart, SetAbsolute, SetRelative
<1>18. CASE \E id \in ID : ClientReset(id)
  <2>1. PICK id \in ID : ClientReset(id) BY <1>18
  <2>2. /\ level' = Keep(level, ID \ {id})
        /\ UNCHANGED <<items, timebase, waitevent, screendispflag, phase>>
    BY <2>1 DEF ClientReset, ResetEvent, ClientUnchanged
  <2>3. /\ level' \in Seq(ID)
        /\ {level'[i] : i \in DOMAIN level'} = Armed \cap (ID \ {id})
        /\ \A i, j \in DOMAIN level' :
             i < j => level'[i] # level'[j] /\ clock[level'[i]] <= clock[level'[j]]
    <3> DEFINE K == Keep(level, ID \ {id})
    <3>1. /\ K \in Seq(ID)
          /\ {K[i] : i \in DOMAIN K} = Armed \cap (ID \ {id})
          /\ \A i, j \in DOMAIN K :
               i < j => K[i] # K[j] /\ clock[K[i]] <= clock[K[j]]
      BY <1>0, RemovedQueue
    <3>2. level' = K BY <2>2
    <3> HIDE DEF K
    <3> QED BY <3>1, <3>2
  <2>4. Armed' = Armed \ {id}
    <3>1. Armed \subseteq ID BY <1>0 DEF QueueInv, Armed
    <3> QED BY <2>3, <3>1 DEF Armed
  <2>5. TypeOK' BY <1>0, <2>2, <2>3 DEF TypeOK, items, timebase
  <2>6. QueueInv' BY <1>0, <2>2, <2>3, <2>4 DEF QueueInv, items, timebase
  <2>7. OwedInv' BY <1>0, <2>2, <2>4 DEF OwedInv, items
  <2> QED BY <2>5, <2>6, <2>7
<1>19. CASE ClientForceExit
  <2>1. /\ IF rem > 0 THEN base' = base - rem /\ rem' = 0
                      ELSE base' = base /\ rem' = rem
        /\ UNCHANGED <<level, items, cpuclock, multiple, waitevent,
                       screendispflag, phase>>
    BY <1>19 DEF ClientForceExit, ForceExit, ClientUnchanged
  <2>2. Armed' = Armed BY <2>1 DEF Armed
  <2>3. \A id \in Armed : id \in ID /\ clock[id] \in Nat /\ base <= clock[id]
    BY <1>0 DEF QueueInv, Armed
  <2>4. base' \in Nat /\ rem' \in Int /\ rem' <= base' /\ base' <= base
    BY <1>0, <2>1 DEF TypeOK, QueueInv
  <2>5. TypeOK' BY <1>0, <2>1, <2>4 DEF TypeOK, items
  <2>6. QueueInv' BY <1>0, <2>1, <2>2, <2>3, <2>4 DEF QueueInv, items
  <2>7. OwedInv' BY <1>0, <2>1, <2>2 DEF OwedInv, items
  <2> QED BY <2>5, <2>6, <2>7
<1>20. CASE MachineReset
  <2>1. Armed' = {} BY <1>20 DEF MachineReset, Armed
  <2>2. /\ level' \in Seq(ID) /\ waitevent' \in Seq(ID)
        /\ 0 \in 0 .. ClockMod - 1
    BY <1>20 DEF MachineReset
  <2>3. TypeOK' BY <1>0, <1>20, <2>2 DEF MachineReset, TypeOK, Procs, Phases
  <2>4. QueueInv' BY <1>20, <2>1, <2>2 DEF MachineReset, QueueInv
  <2>5. OwedInv' BY <1>20, <2>1 DEF MachineReset, OwedInv
  <2> QED BY <2>3, <2>4, <2>5
<1>21. CASE UNCHANGED vars
  BY <1>0, <1>21 DEF vars, items, timebase, TypeOK, QueueInv, OwedInv, Armed
<1> QED
  BY <1>1, <1>2, <1>4, <1>5, <1>6, <1>7, <1>8, <1>10, <1>11, <1>12, <1>14, <1>15,
     <1>17, <1>18, <1>19, <1>20, <1>21
  DEF Next, System, Client

\* The scheduler starts with an empty queue.
LEMMA InitInv == Init => SchedulerInv
<1> SUFFICES ASSUME Init PROVE TypeOK /\ QueueInv /\ OwedInv BY SchedulerInvParts
<1>1. Armed = {} BY DEF Init, Armed
<1>2. 0 \in 0 .. ClockMod - 1 BY ClocksAssumption
<1>3. TypeOK
  <2>1. level \in Seq(ID) /\ waitevent \in Seq(ID) BY DEF Init
  <2>2. clock \in [ID -> Nat] /\ fired \in [ID -> BOOLEAN] /\ proc \in [ID -> Procs]
    BY DEF Init, Procs
  <2>3. cpuclock \in 0 .. ClockMod - 1 BY <1>2 DEF Init
  <2>4. base \in Nat /\ rem \in Int /\ multiple \in Multiples
    BY DEF Init
  <2>5. screendispflag \in BOOLEAN /\ phase \in Phases
    BY Zenon DEF Init, Phases
  <2> QED BY <2>1, <2>2, <2>3, <2>4, <2>5 DEF TypeOK
<1>4. QueueInv BY <1>1 DEF Init, QueueInv
<1>5. OwedInv BY <1>1 DEF Init, OwedInv
<1> QED BY <1>3, <1>4, <1>5

(***************************************************************************)
(* The scheduler keeps its queue, its slice and its owed callbacks in      *)
(* step, whatever events, delays, costs and clock multiples are chosen.    *)
(***************************************************************************)
THEOREM SchedulerInvariant == Spec => []SchedulerInv
BY InitInv, InductiveStep, PTL DEF Spec

\* Type correctness: no clock and no slice is ever negative.
THEOREM TypeCorrect == Spec => []TypeOK
<1>1. SchedulerInv => TypeOK BY DEF SchedulerInv
<1> QED BY <1>1, SchedulerInvariant, PTL

\* The array level is in order, without doubles, and the slice ends by the
\* first event.
THEOREM LevelIsOrdered == Spec => []LevelOrdered
<1>1. SchedulerInv => LevelOrdered BY DEF SchedulerInv
<1> QED BY <1>1, SchedulerInvariant, PTL

\* No instruction starts when an event is due or a callback is owed.
THEOREM NothingIsOverrun == Spec => []NoOverrun
<1>1. SchedulerInv => NoOverrun
  <2> SUFFICES ASSUME SchedulerInv, phase = "cpu", rem > 0
               PROVE  /\ \A id \in Armed : Remain(id) > 0
                      /\ \A id \in ID : ~fired[id]
    BY DEF NoOverrun
  <2>1. \A id \in Armed : clock[id] \in Nat /\ base <= clock[id]
    BY DEF SchedulerInv, TypeOK, Armed
  <2>2. base \in Nat /\ rem \in Int BY DEF SchedulerInv, TypeOK
  <2>3. \A id \in Armed : Remain(id) > 0 BY <2>1, <2>2 DEF Remain, Elapsed
  <2>4. \A id \in ID : ~fired[id] BY DEF SchedulerInv
  <2> QED BY <2>3, <2>4
<1> QED BY <1>1, SchedulerInvariant, PTL

-----------------------------------------------------------------------------
(* What the clients read from the clocks. *)

\* Without the steps of a queue, the members of the queue are the same.
LEMMA SameQueue ==
  ASSUME UNCHANGED <<level, clock>>
  PROVE  Armed' = Armed /\ \A id \in ID : clock'[id] = clock[id]
  BY DEF Armed

\* Every step leaves the clock of an event that is not armed as it is, or
\* arms it; an event that is armed stays so, has a clock of 0 or is reset.
LEMMA ClockStep ==
  ASSUME SchedulerInv, ClockTellsPending, [Next]_vars
  PROVE  ClockTellsPending'
<1> USE EventsAssumption, ClocksAssumption
<1>0. TypeOK /\ QueueInv /\ OwedInv /\ Armed \subseteq ID
  BY SchedulerInvParts DEF QueueInv, Armed
<1>1. ASSUME UNCHANGED <<level, clock>> PROVE ClockTellsPending'
  BY <1>1, SameQueue DEF ClockTellsPending
<1>2. ASSUME NEW id \in ID, NEW c \in Nat, NEW callback, Place(id, c, callback)
      PROVE  ClockTellsPending'
  <2>1. Armed' = Armed \cup {id} BY <1>0, <1>2, PlaceQueue
  <2>2. \A x \in ID : x # id => clock'[x] = clock[x]
    BY <1>0, <1>2 DEF Place, TypeOK
  <2> QED BY <2>1, <2>2 DEF ClockTellsPending
<1>3. ASSUME NEW new \in Multiples, ChangeClock(new) PROVE ClockTellsPending'
  <2>1. multiple \in Nat \ {0} /\ new \in Nat \ {0} BY <1>0 DEF TypeOK
  <2>2. Armed' = Armed /\ \A id \in ID \ Armed : clock'[id] = clock[id]
    BY <1>0, <1>3, <2>1, ChangeClockQueue
  <2> QED BY <2>2 DEF ClockTellsPending
<1>4. CASE StartFrame
  BY <1>2, <1>4, RelativeClock DEF StartFrame, SetRelative
<1>5. CASE ScreenVsync
  BY <1>2, <1>5, RelativeClock DEF ScreenVsync, SetRelative
<1>6. CASE Progress
  <2>1. \A id \in ID : ~fired[id] BY <1>0, <1>6 DEF Progress, OwedInv
  <2>2. /\ Armed' = {id \in Armed : clock[id] > base}
        /\ \A id \in ID : clock'[id] = IF id \in Armed THEN clock[id] - base
                                                       ELSE clock[id]
    BY <1>0, <1>6, <2>1, ProgressQueue DEF TypeOK
  <2>3. base \in Nat /\ \A id \in ID : clock[id] \in Nat BY <1>0 DEF TypeOK
  <2> QED BY <2>2, <2>3 DEF ClockTellsPending
<1>7. CASE \E id \in ID : \E d \in Delays :
             ClientSet(id, d) \/ ClientRearm(id, d) \/ ClientStart(id, d)
  <2>1. PICK id \in ID, d \in Delays :
          ClientSet(id, d) \/ ClientRearm(id, d) \/ ClientStart(id, d)
    BY <1>7
  <2>2. clock[id] + d \in Nat /\ d + Elapsed \in Nat
    <3>1. d \in Nat OBVIOUS
    <3> QED BY <3>1, RelativeClock
  <2> QED BY <1>2, <2>1, <2>2
          DEF ClientSet, ClientRearm, ClientStart, SetAbsolute, SetRelative
<1>8. CASE \E id \in ID : ClientReset(id)
  <2>1. PICK id \in Resettable : ResetEvent(id) BY <1>8 DEF ClientReset
  <2> DEFINE K == Keep(level, ID \ {id})
  <2>2. {K[i] : i \in DOMAIN K} = Armed \cap (ID \ {id}) BY <1>0, RemovedQueue
  <2>3. level' = K /\ clock' = clock BY <2>1 DEF ResetEvent, items
  <2> HIDE DEF K
  <2>4. Armed' = Armed \ {id} BY <1>0, <2>2, <2>3 DEF Armed
  <2> QED BY <2>3, <2>4 DEF ClockTellsPending
<1>9. CASE MachineReset
  BY <1>9 DEF MachineReset, ClockTellsPending
<1>10. CASE (\E new \in Multiples : AsyncCpu(new))
            \/ (\E new \in Multiples : ClientChangeClock(new))
  BY <1>3, <1>10 DEF AsyncCpu, ClientChangeClock
<1>11. CASE \/ EnterCpu \/ EndInstruction \/ ScreenDisp \/ EndExecute \/ Halt
            \/ (\E c \in Costs : Instruction(c))
            \/ (\E id \in ID : EndCallback(id))
            \/ ClientForceExit \/ UNCHANGED vars
  BY <1>1, <1>11 DEF EnterCpu, EndInstruction, ScreenDisp, EndExecute, Halt,
     Instruction, EndCallback, ClientForceExit, ForceExit, items, vars
<1> QED
  BY <1>4, <1>5, <1>6, <1>7, <1>8, <1>9, <1>10, <1>11 DEF Next, System, Client

\* atapicmd.c may take a clock above 0 for a pending event: true of every event
\* that nobody resets.
THEOREM ClocksTellPending == Spec => []ClockTellsPending
<1>1. Init => ClockTellsPending BY DEF Init, ClockTellsPending
<1>2. SchedulerInv /\ ClockTellsPending /\ [Next]_vars => ClockTellsPending'
  BY ClockStep
<1> QED BY <1>1, <1>2, SchedulerInvariant, PTL DEF Spec

-----------------------------------------------------------------------------
(* The time stamp. *)

\* A remainder is the only one.
LEMMA ModUnique ==
  ASSUME NEW m \in Nat \ {0}, NEW q \in Int, NEW r \in 0 .. m - 1,
         NEW p \in Int, NEW s \in 0 .. m - 1, m * q + r = m * p + s
  PROVE  r = s
<1>1. m * q \in Int /\ m * p \in Int /\ r \in Int /\ s \in Int OBVIOUS
<1>2. ASSUME p + 1 <= q PROVE FALSE
  <2>1. m * (p + 1) <= m * q BY <1>2, ProductMonotone, p + 1 \in Int
  <2>2. m * (p + 1) = m * p + m OBVIOUS
  <2> QED BY <1>1, <2>1, <2>2
<1>3. ASSUME q + 1 <= p PROVE FALSE
  <2>1. m * (q + 1) <= m * p BY <1>3, ProductMonotone, q + 1 \in Int
  <2>2. m * (q + 1) = m * q + m OBVIOUS
  <2> QED BY <1>1, <2>1, <2>2
<1>4. p = q BY <1>2, <1>3
<1> QED BY <1>1, <1>4

\* CPU_CLOCK wraps, and the sums formed from it do not notice.
LEMMA ModOfSum ==
  ASSUME NEW m \in Nat \ {0}, NEW a \in Int, NEW b \in Int
  PROVE  ((a % m) + b) % m = (a + b) % m
<1> DEFINE p == a \div m
           s == a % m
           q == (s + b) \div m
           r == (s + b) % m
           t == (a + b) \div m
           u == (a + b) % m
<1>1. p \in Int /\ s \in 0 .. m - 1 /\ a = m * p + s OBVIOUS
<1>2. q \in Int /\ r \in 0 .. m - 1 /\ s + b = m * q + r
  <2>1. s + b \in Int BY <1>1
  <2> HIDE DEF s
  <2> QED BY <2>1
<1>3. t \in Int /\ u \in 0 .. m - 1 /\ a + b = m * t + u
  <2>1. a + b \in Int OBVIOUS
  <2> DEFINE c == a + b
  <2> HIDE DEF c
  <2>2. c \in Int => c \div m \in Int /\ c % m \in 0 .. m - 1
                     /\ c = m * (c \div m) + (c % m)
    OBVIOUS
  <2> QED BY <2>1, <2>2 DEF c
<1> HIDE DEF p, s, q, r, t, u
<1>4. m * (p + q) = m * p + m * q BY <1>1, <1>2
<1>5. m * p \in Int /\ m * q \in Int BY <1>1, <1>2
<1>6. m * (p + q) + r = m * t + u BY <1>1, <1>2, <1>3, <1>4, <1>5
<1>7. p + q \in Int BY <1>1, <1>2
<1>8. r = u BY <1>2, <1>3, <1>6, <1>7, ModUnique
<1> QED BY <1>8 DEF r, s, u

\* One step per action: the steps that may not advance the time do not.
LEMMA TimeStep ==
  ASSUME SchedulerInv, [Next]_vars
  PROVE  \/ phase = "cpu" /\ phase' = "io"
         \/ multiple' # multiple
         \/ MachineReset
         \/ TimeStamp' = TimeStamp
<1> USE EventsAssumption, ClocksAssumption
<1>0. /\ TypeOK /\ QueueInv /\ OwedInv
      /\ base \in Int /\ rem \in Int /\ cpuclock \in Int
  BY SchedulerInvParts DEF TypeOK
<1>1. ASSUME cpuclock' = cpuclock, Elapsed' = Elapsed,
             base' \in Int, rem' \in Int
      PROVE  TimeStamp' = TimeStamp
  <2>1. cpuclock' + base' - rem' = cpuclock + base - rem
    BY <1>0, <1>1 DEF Elapsed
  <2> QED BY <2>1 DEF TimeStamp
<1>2. ASSUME NEW id \in ID, NEW c \in Nat, NEW callback, Place(id, c, callback)
      PROVE  TimeStamp' = TimeStamp
  <2>1. QueueInv' /\ Elapsed' = Elapsed BY <1>0, <1>2, PlaceQueue
  <2>2. base' \in Int /\ rem' \in Int BY <2>1 DEF QueueInv
  <2>3. cpuclock' = cpuclock BY <1>2 DEF Place
  <2> QED BY <1>1, <2>1, <2>2, <2>3
<1>3. ASSUME UNCHANGED timebase PROVE TimeStamp' = TimeStamp
  BY <1>3 DEF timebase, TimeStamp
<1>4. CASE StartFrame
  BY <1>2, <1>4, RelativeClock DEF StartFrame, SetRelative
<1>5. CASE ScreenVsync
  BY <1>2, <1>5, RelativeClock DEF ScreenVsync, SetRelative
<1>6. CASE Progress
  <2>1. \A id \in ID : ~fired[id] BY <1>0, <1>6 DEF Progress, OwedInv
  <2>2. QueueInv' /\ Elapsed' = -rem BY <1>0, <1>6, <2>1, ProgressQueue DEF TypeOK
  <2>3. base' \in Int /\ rem' \in Int BY <2>2 DEF QueueInv
  <2>4. cpuclock' = (cpuclock + base) % ClockMod BY <1>6 DEF Progress
  <2> DEFINE now == cpuclock + base
             low == now % ClockMod
  <2>5. now \in Int /\ -rem \in Int BY <1>0
  <2> HIDE DEF now
  <2>6. low \in Int BY <2>5
  <2>7. (low + (-rem)) % ClockMod = (now + (-rem)) % ClockMod
    BY <2>5, ModOfSum
  <2> HIDE DEF low
  <2>8. cpuclock' = low BY <2>4 DEF low, now
  <2>9. cpuclock' + base' - rem' = low + (-rem)
    BY <2>2, <2>3, <2>6, <2>8, <1>0 DEF Elapsed
  <2>10. cpuclock + base - rem = now + (-rem) BY <1>0 DEF now
  <2> QED BY <2>7, <2>9, <2>10 DEF TimeStamp
<1>7. CASE \E id \in ID : \E d \in Delays :
             ClientSet(id, d) \/ ClientRearm(id, d) \/ ClientStart(id, d)
  <2>1. PICK id \in ID, d \in Delays :
          ClientSet(id, d) \/ ClientRearm(id, d) \/ ClientStart(id, d)
    BY <1>7
  <2>2. clock[id] + d \in Nat /\ d + Elapsed \in Nat
    <3>1. d \in Nat OBVIOUS
    <3> QED BY <3>1, RelativeClock
  <2> QED BY <1>2, <2>1, <2>2
          DEF ClientSet, ClientRearm, ClientStart, SetAbsolute, SetRelative
<1>8. CASE ClientForceExit
  BY <1>0, <1>1, <1>8 DEF ClientForceExit, ForceExit, Elapsed
<1>9. CASE (\E new \in Multiples : AsyncCpu(new))
           \/ (\E new \in Multiples : ClientChangeClock(new))
  <2>1. PICK new \in Multiples : new # multiple /\ ChangeClock(new)
    BY <1>9 DEF AsyncCpu, ClientChangeClock
  <2> QED BY <2>1 DEF ChangeClock
<1>10. CASE Halt \/ \E c \in Costs : Instruction(c)
  BY <1>10 DEF Halt, Instruction
<1>11. CASE \/ EnterCpu \/ EndInstruction \/ ScreenDisp \/ EndExecute
            \/ (\E id \in ID : EndCallback(id))
            \/ (\E id \in ID : ClientReset(id)) \/ UNCHANGED vars
  BY <1>3, <1>11 DEF EnterCpu, EndInstruction, ScreenDisp, EndExecute,
     EndCallback, ClientReset, ResetEvent, vars
<1> QED
  BY <1>4, <1>5, <1>6, <1>7, <1>8, <1>9, <1>10, <1>11 DEF Next, System, Client

\* Only an instruction, a reset and a new clock multiple move the time stamp
\* that the sound, FDC and CG ROM code read.
THEOREM TimeIsPreserved == Spec => TimePreserved
<1>1. SchedulerInv /\ [Next]_vars =>
        [ \/ phase = "cpu" /\ phase' = "io"
          \/ multiple' # multiple
          \/ MachineReset
          \/ TimeStamp' = TimeStamp ]_vars
  BY TimeStep
<1> QED BY <1>1, SchedulerInvariant, PTL DEF Spec, TimePreserved

-----------------------------------------------------------------------------
(* How late an event can be. *)

\* A time no longer than one instruction, or one clock of HLT, overruns.
Short(e) == e <= 1 \/ \E c \in Costs : e < c

\* Neither the end of the slice nor, outside the CPU, its beginning is missed by
\* more than one instruction.
LateInv == Short(-rem) /\ (phase \notin {"cpu", "io"} => Short(Elapsed))

\* What is shorter is short as well.
LEMMA ShorterIsShort ==
  ASSUME NEW e \in Int, NEW f \in Int, f <= e, Short(e)
  PROVE  Short(f)
<1>1. Costs \subseteq Int BY ClocksAssumption
<1> QED BY <1>1 DEF Short

\* One step per action.  The hypotheses leave out what does make events late: an
\* I/O handler that arms an event relative to its stale clock, and a change of
\* the CPU clock, which stretches a slice that has been overrun already.
LEMMA LateStep ==
  ASSUME IoRelative = {}, \A m, n \in Multiples : m = n,
         SchedulerInv, LateInv, [Next]_vars
  PROVE  LateInv'
<1> USE EventsAssumption, ClocksAssumption
<1>0. /\ TypeOK /\ QueueInv /\ OwedInv
      /\ base \in Nat /\ rem \in Int /\ Elapsed \in Int /\ -rem \in Int
  BY SchedulerInvParts DEF TypeOK, Elapsed
<1>1. ASSUME UNCHANGED <<base, rem>>,
             phase' \notin {"cpu", "io"} => phase \notin {"cpu", "io"}
      PROVE  LateInv'
  BY <1>1 DEF LateInv, Short, Elapsed
<1>2. ASSUME Short(Elapsed'), base' \in Nat, rem' \in Int
      PROVE  LateInv'
  <2> DEFINE b == base'
             r == rem'
  <2>1. Elapsed' = b - r BY DEF Elapsed
  <2>2. b \in Nat /\ r \in Int BY <1>2
  <2> HIDE DEF b, r
  <2>3. -r <= b - r /\ -r \in Int /\ b - r \in Int BY <2>2
  <2>4. -(rem') <= Elapsed' /\ -(rem') \in Int /\ Elapsed' \in Int
    BY <2>1, <2>3 DEF b, r
  <2>5. Short(-(rem')) BY <1>2, <2>4, ShorterIsShort
  <2> QED BY <1>2, <2>5 DEF LateInv, Short, Elapsed
<1>3. ASSUME NEW id \in ID, NEW c \in Nat, NEW callback, Place(id, c, callback),
             phase \notin {"cpu", "io"}
      PROVE  LateInv'
  <2>1. QueueInv' /\ Elapsed' = Elapsed BY <1>0, <1>3, PlaceQueue
  <2>2. Short(Elapsed') BY <1>3, <2>1 DEF LateInv, Short
  <2>3. base' \in Nat /\ rem' \in Int BY <2>1 DEF QueueInv
  <2> QED BY <1>2, <2>2, <2>3
<1>4. CASE StartFrame
  <2>1. phase \notin {"cpu", "io"} BY <1>4 DEF StartFrame
  <2> QED BY <1>3, <1>4, <2>1, RelativeClock DEF StartFrame, SetRelative
<1>5. CASE ScreenVsync
  <2>1. phase \notin {"cpu", "io"} BY <1>5 DEF ScreenVsync, Running
  <2> QED BY <1>3, <1>5, <2>1, RelativeClock DEF ScreenVsync, SetRelative
<1>6. CASE Progress
  <2>1. \A id \in ID : ~fired[id] BY <1>0, <1>6 DEF Progress, OwedInv
  <2>2. QueueInv' /\ Elapsed' = -rem BY <1>0, <1>6, <2>1, ProgressQueue DEF TypeOK
  <2>3. base' \in Nat /\ rem' \in Int BY <2>2 DEF QueueInv
  <2>4. Short(Elapsed') BY <2>2 DEF LateInv, Short
  <2> QED BY <1>2, <2>3, <2>4
<1>7. ASSUME NEW c \in Int, Instruction(c), c \in Costs \/ rem - c = -1
      PROVE  LateInv'
  <2>1. rem > 0 /\ rem' = rem - c /\ phase' = "io" BY <1>7 DEF Instruction
  <2>2. -rem' < c \/ -rem' = 1 BY <1>0, <1>7, <2>1
  <2>3. Short(-rem') BY <1>0, <1>7, <2>1, <2>2 DEF Short
  <2> QED BY <2>1, <2>3 DEF LateInv, Short
<1>8. CASE Halt
  <2>1. rem + 1 \in Int /\ rem - (rem + 1) = -1 BY <1>0
  <2> QED BY <1>7, <1>8, <2>1 DEF Halt
<1>9. CASE \E c \in Costs : Instruction(c)
  BY <1>7, <1>9
<1>10. CASE \E id \in ID : \E d \in Delays :
              ClientSet(id, d) \/ ClientRearm(id, d) \/ ClientStart(id, d)
  <2>1. PICK id \in ID, d \in Delays : ClientSet(id, d) \/ ClientRearm(id, d)
    BY <1>10 DEF ClientStart
  <2>2. d \in Nat OBVIOUS
  <2>3. clock[id] + d \in Nat /\ d + Elapsed \in Nat BY <2>2, RelativeClock
  <2>4. CASE ClientRearm(id, d)
    <3>1. phase \notin {"cpu", "io"} BY <2>4 DEF ClientRearm, Running
    <3> QED BY <1>3, <2>3, <2>4, <3>1 DEF ClientRearm, SetRelative
  <2>5. CASE ClientSet(id, d) /\ phase \notin {"cpu", "io"}
    BY <1>3, <2>3, <2>5 DEF ClientSet, SetAbsolute
  <2>6. CASE ClientSet(id, d) /\ phase \in {"cpu", "io"}
    <3>1. phase' = phase /\ Place(id, d + Elapsed, "callback")
      BY <2>6 DEF ClientSet, SetAbsolute, ClientUnchanged
    <3>2. \/ rem' = (d + Elapsed) - Elapsed
          \/ rem' = rem
      BY <3>1 DEF Place
    <3>3. rem' = d \/ rem' = rem BY <1>0, <2>2, <3>2
    <3>4. Short(-rem')
      <4>1. CASE rem' = rem BY <4>1 DEF LateInv, Short
      <4>2. CASE rem' = d BY <2>2, <4>2 DEF Short
      <4> QED BY <3>3, <4>1, <4>2
    <3> QED BY <2>6, <3>1, <3>4 DEF LateInv, Short
  <2> QED BY <2>1, <2>4, <2>5, <2>6
<1>11. CASE ClientForceExit
  <2>1. phase' = phase /\ Elapsed' = Elapsed
    BY <1>0, <1>11 DEF ClientForceExit, ForceExit, ClientUnchanged, Elapsed
  <2>2. rem' = rem \/ rem' = 0 BY <1>11 DEF ClientForceExit, ForceExit
  <2>3. Short(-rem') BY <2>2 DEF LateInv, Short
  <2> QED BY <2>1, <2>3 DEF LateInv, Short
<1>12. CASE MachineReset
  <2>1. base' = 0 /\ rem' = 0 BY <1>12 DEF MachineReset
  <2>2. Short(Elapsed') BY <2>1 DEF Short, Elapsed
  <2> QED BY <1>2, <2>1, <2>2
<1>13. CASE (\E new \in Multiples : AsyncCpu(new))
            \/ (\E new \in Multiples : ClientChangeClock(new))
  BY <1>0, <1>13 DEF AsyncCpu, ClientChangeClock, TypeOK
<1>14. CASE EnterCpu \/ EndInstruction
  BY <1>1, <1>14 DEF EnterCpu, EndInstruction, timebase
<1>15. CASE \/ ScreenDisp \/ EndExecute
            \/ (\E id \in ID : EndCallback(id))
            \/ (\E id \in ID : ClientReset(id)) \/ UNCHANGED vars
  <2>1. UNCHANGED <<base, rem>>
    BY <1>15 DEF ScreenDisp, EndExecute, EndCallback, ClientReset, ResetEvent,
       timebase, vars
  <2>2. phase' = phase \/ phase = "exec"
    BY <1>15 DEF ScreenDisp, EndExecute, EndCallback, ClientReset,
       ClientUnchanged, vars
  <2> QED BY <1>1, <2>1, <2>2
<1> QED
  BY <1>4, <1>5, <1>6, <1>8, <1>9, <1>10, <1>11, <1>12, <1>13, <1>14, <1>15
  DEF Next, System, Client

(***************************************************************************)
(* However instructions, callbacks and forced exits fall, no event is      *)
(* later than one instruction makes it, on a machine in which no I/O       *)
(* handler arms an event relative to its old clock and whose clock         *)
(* multiple stays what it is.                                              *)
(***************************************************************************)
THEOREM EventsAreOnTime ==
  ASSUME IoRelative = {}, \A m, n \in Multiples : m = n
  PROVE  Spec => []LateByOneInstruction
<1>1. Init => LateInv
  <2> SUFFICES ASSUME Init PROVE LateInv OBVIOUS
  <2>1. base = 0 /\ rem = 0 BY DEF Init
  <2> QED BY <2>1 DEF LateInv, Short, Elapsed
<1>2. SchedulerInv /\ LateInv /\ [Next]_vars => LateInv' BY LateStep
<1>3. SchedulerInv /\ LateInv => LateByOneInstruction
  <2> SUFFICES ASSUME SchedulerInv, LateInv, NEW id \in ID,
                      id \in Armed \/ fired[id]
               PROVE  \/ Remain(id) >= -1
                      \/ \E c \in Costs : Remain(id) + c > 0
    BY DEF LateByOneInstruction
  <2>1. base \in Nat /\ rem \in Int /\ clock[id] \in Nat
    BY DEF SchedulerInv, TypeOK
  <2>2. PICK e \in Int : Short(e) /\ Remain(id) >= -e
    <3>1. CASE id \in Armed
      <4>1. base <= clock[id] BY <3>1 DEF SchedulerInv
      <4>2. -rem \in Int /\ Remain(id) >= -(-rem)
        BY <2>1, <4>1 DEF Remain, Elapsed
      <4> QED BY <4>2 DEF LateInv
    <3>2. CASE fired[id]
      <4>1. clock[id] = 0 /\ phase = "exec" BY <3>2 DEF SchedulerInv
      <4>2. Elapsed \in Int /\ Remain(id) >= -Elapsed
        BY <2>1, <4>1 DEF Remain, Elapsed
      <4> QED BY <4>1, <4>2 DEF LateInv
    <3> QED BY <3>1, <3>2
  <2>3. Remain(id) \in Int BY <2>1 DEF Remain, Elapsed
  <2>4. Costs \subseteq Int BY ClocksAssumption
  <2> QED BY <2>2, <2>3, <2>4 DEF Short
<1> QED BY <1>1, <1>2, <1>3, SchedulerInvariant, PTL DEF Spec
=============================================================================
