--------------------------- MODULE KeyboardProofs ---------------------------
(***************************************************************************)
(* Proofs about module Keyboard, for any keys and keyboards of the host,   *)
(* any sizes of the rings and every user and guest.                        *)
(***************************************************************************)
EXTENDS Keyboard, FiniteSetTheorems, FunctionTheorems, SequenceTheorems,
        WellFoundedInduction, TLAPS

(***************************************************************************)
(* Sequences.                                                              *)
(***************************************************************************)
LEMMA LeastNatural ==
  ASSUME NEW S \in SUBSET Nat, S # {}
  PROVE  \E m \in S : \A k \in S : m <= k
<1>1. PICK m \in S : \A k \in S : ~ (<<k, m>> \in OpToRel(<, Nat))
  BY WFMin, NatLessThanWellFounded, Zenon
<1>2. \A k \in S : ~ (k < m) BY <1>1 DEF OpToRel
<1> QED BY <1>2

\* The recursion of Without, up to n, and that it has a solution.
Recurs(f, s, S, n) ==
  f = [i \in 0 .. n |->
         IF i = 0 THEN <<>>
         ELSE IF s[i] \in S THEN f[i - 1] ELSE Append(f[i - 1], s[i])]

LEMMA WithoutExists ==
  ASSUME NEW s, NEW S, NEW n \in Nat
  PROVE  \E f : Recurs(f, s, S, n)
<1> DEFINE Next1(g, i) == IF s[i] \in S THEN g[i - 1] ELSE Append(g[i - 1], s[i])
           Solves(f, m) == f = [i \in 0 .. m |-> IF i = 0 THEN <<>> ELSE Next1(f, i)]
           Bad == {m \in Nat : ~ \E f : Solves(f, m)}
<1>1. ASSUME Bad # {} PROVE FALSE
  <2>1. PICK m \in Bad : \A k \in Bad : m <= k
    <3>1. Bad \in SUBSET Nat OBVIOUS
    <3> HIDE DEF Bad
    <3> QED BY <1>1, <3>1, LeastNatural
  <2>2. CASE m = 0
    <3> DEFINE f == [i \in 0 .. 0 |-> <<>>]
    <3>1. Solves(f, 0)
      <4>1. \A i \in 0 .. 0 : i = 0 OBVIOUS
      <4> QED BY <4>1
    <3> QED BY <2>1, <2>2, <3>1
  <2>3. CASE m # 0
    <3>1. m \in Nat /\ m - 1 \in Nat /\ ~ (m <= m - 1) BY <2>1, <2>3
    <3>2. m - 1 \notin Bad BY <2>1, <3>1
    <3>3. PICK g : Solves(g, m - 1) BY <3>1, <3>2
    <3> HIDE DEF Next1
    <3> DEFINE f == [i \in 0 .. m |-> IF i = m THEN Next1(g, m) ELSE g[i]]
    <3>4. \A i \in 0 .. m - 1 : f[i] = g[i] /\ i \in 0 .. m /\ i # m BY <3>1
    <3>5. \A i \in 1 .. m : Next1(f, i) = Next1(g, i)
      <4>1. \A i \in 1 .. m : i - 1 \in 0 .. m - 1 BY <3>1
      <4> HIDE DEF f
      <4> QED BY <3>4, <4>1 DEF Next1
    <3>6. \A i \in 0 .. m - 1 : g[i] = IF i = 0 THEN <<>> ELSE Next1(g, i)
      BY <3>3
    <3>7. \A i \in 0 .. m : f[i] = IF i = 0 THEN <<>> ELSE Next1(f, i)
      <4> TAKE i \in 0 .. m
      <4>1. CASE i = m BY <3>1, <3>5, <4>1
      <4>2. CASE i # m
        <5>1. i \in 0 .. m - 1 /\ (i # 0 => i \in 1 .. m) BY <3>1, <4>2
        <5>2. f[i] = g[i] BY <3>4, <5>1
        <5> HIDE DEF f
        <5> QED BY <3>5, <3>6, <5>1, <5>2
      <4> QED BY <4>1, <4>2
    <3>8. Solves(f, m)
      <4>1. f = [i \in 0 .. m |-> f[i]] OBVIOUS
      <4> HIDE DEF f
      <4> QED BY <3>7, <4>1
    <3> QED BY <2>1, <3>8
  <2> QED BY <2>2, <2>3
<1>2. \E f : Solves(f, n) BY <1>1
<1> QED BY <1>2 DEF Recurs

\* What is left of a sequence without the elements of S.
LEMMA WithoutFacts ==
  ASSUME NEW T, NEW s \in Seq(T), NEW S
  PROVE  /\ Without(s, S) \in Seq(T)
         /\ Len(Without(s, S)) <= Len(s)
         /\ ToSet(Without(s, S)) = ToSet(s) \ S
<1> DEFINE F == CHOOSE f : Recurs(f, s, S, Len(s))
           Has(r, n) == /\ r \in Seq(T) /\ Len(r) <= n
                        /\ {r[j] : j \in 1 .. Len(r)} = {s[j] : j \in 1 .. n} \ S
           Bad == {n \in 0 .. Len(s) : ~ Has(F[n], n)}
<1>1. Len(s) \in Nat /\ \A i \in 1 .. Len(s) : s[i] \in T OBVIOUS
<1>2. Recurs(F, s, S, Len(s))
  <2>1. \E f : Recurs(f, s, S, Len(s)) BY <1>1, WithoutExists
  <2> QED BY <2>1
<1>3. \A i \in 0 .. Len(s) :
        F[i] = IF i = 0 THEN <<>>
               ELSE IF s[i] \in S THEN F[i - 1] ELSE Append(F[i - 1], s[i])
  <2> HIDE DEF F
  <2> QED BY <1>2 DEF Recurs
<1>4. Without(s, S) = F[Len(s)] BY DEF Without, Recurs
<1> HIDE DEF F
<1>5. ASSUME Bad # {} PROVE FALSE
  <2>1. PICK n \in Bad : \A k \in Bad : n <= k
    <3>1. Bad \in SUBSET Nat OBVIOUS
    <3> HIDE DEF Bad
    <3> QED BY <1>5, <3>1, LeastNatural
  <2>2. CASE n = 0
    <3>1. F[0] = <<>> BY <1>1, <1>3
    <3>2. Has(<<>>, 0)
      <4>1. Len(<<>>) = 0 /\ <<>> \in Seq(T) /\ 1 .. 0 = {} OBVIOUS
      <4> QED BY <4>1
    <3> QED BY <2>1, <2>2, <3>1, <3>2
  <2>3. CASE n # 0
    <3> DEFINE p == F[n - 1]
    <3>1. n \in 1 .. Len(s) /\ n - 1 \in 0 .. Len(s) /\ ~ (n <= n - 1)
      BY <1>1, <2>1, <2>3
    <3>2. Has(p, n - 1) BY <2>1, <3>1
    <3>3. F[n] = IF s[n] \in S THEN p ELSE Append(p, s[n])
      BY <1>3, <3>1
    <3> HIDE DEF p
    <3>4. {s[j] : j \in 1 .. n} = {s[j] : j \in 1 .. n - 1} \cup {s[n]}
      <4>1. 1 .. n = (1 .. n - 1) \cup {n} BY <3>1
      <4> QED BY <4>1
    <3>5. CASE s[n] \in S
      <4>1. {s[j] : j \in 1 .. n} \ S = {s[j] : j \in 1 .. n - 1} \ S BY <3>4, <3>5
      <4>2. F[n] = p /\ Len(p) \in Nat BY <3>2, <3>3, <3>5
      <4>3. Len(p) <= n BY <3>1, <3>2, <4>2
      <4>4. Has(p, n) BY <3>2, <4>1, <4>3
      <4> QED BY <2>1, <4>2, <4>4
    <3>6. CASE s[n] \notin S
      <4> DEFINE q == Append(p, s[n])
      <4>1. /\ q \in Seq(T) /\ Len(q) = Len(p) + 1 /\ Len(p) \in Nat
            /\ \A j \in 1 .. Len(p) : q[j] = p[j] /\ q[Len(p) + 1] = s[n]
            /\ q[Len(p) + 1] = s[n]
        BY <1>1, <3>1, <3>2, AppendProperties
      <4> HIDE DEF q
      <4>2. 1 .. Len(q) = (1 .. Len(p)) \cup {Len(p) + 1} BY <4>1
      <4>3. {q[j] : j \in 1 .. Len(q)} = {p[j] : j \in 1 .. Len(p)} \cup {s[n]}
        BY <4>1, <4>2
      <4>4. Has(q, n)
        <5>1. {s[j] : j \in 1 .. n} \ S = ({s[j] : j \in 1 .. n - 1} \ S) \cup {s[n]}
          BY <3>4, <3>6
        <5>2. {p[j] : j \in 1 .. Len(p)} = {s[j] : j \in 1 .. n - 1} \ S /\ Len(p) <= n - 1
          BY <3>2
        <5>3. Len(q) <= n BY <3>1, <4>1, <5>2
        <5> QED BY <4>1, <4>3, <5>1, <5>2, <5>3
      <4>5. F[n] = q BY <3>3, <3>6 DEF q
      <4> QED BY <2>1, <4>4, <4>5
    <3> QED BY <2>1, <3>5, <3>6
  <2> QED BY <2>2, <2>3
<1>6. Has(Without(s, S), Len(s))
  <2>1. Len(s) \in 0 .. Len(s) BY <1>1
  <2>2. Len(s) \notin Bad BY <1>5
  <2>3. Has(F[Len(s)], Len(s))
    <3> HIDE DEF Has
    <3> QED BY <2>1, <2>2
  <2> QED BY <1>4, <2>3
<1>7. \A r \in Seq(T) : ToSet(r) = {r[j] : j \in 1 .. Len(r)} BY DEF ToSet
<1> QED BY <1>6, <1>7

\* SetToSeq lists each element of a set once.
LEMMA SetToSeqFacts ==
  ASSUME NEW S, IsFiniteSet(S)
  PROVE  /\ Cardinality(S) \in Nat
         /\ SetToSeq(S) \in [1 .. Cardinality(S) -> S]
         /\ \A i, j \in 1 .. Cardinality(S) : SetToSeq(S)[i] = SetToSeq(S)[j] => i = j
         /\ \A x \in S : \E i \in 1 .. Cardinality(S) : SetToSeq(S)[i] = x
         /\ Len(SetToSeq(S)) = Cardinality(S) /\ SetToSeq(S) \in Seq(S)
         /\ ToSet(SetToSeq(S)) = S
<1> DEFINE n == Cardinality(S)
           f == SetToSeq(S)
<1>1. n \in Nat /\ ExistsBijection(1 .. n, S) BY FS_CardinalityType
<1>2. PICK g : g \in Bijection(1 .. n, S) BY <1>1 DEF ExistsBijection
<1>3. g \in [1 .. n -> S] /\ IsInjective(g) BY <1>2 DEF Bijection, Injection
<1>4. f \in [1 .. n -> S] /\ IsInjective(f) BY <1>3 DEF SetToSeq
<1> HIDE DEF f
<1>5. f \in Injection(1 .. n, S) BY <1>4 DEF Injection
<1>6. \A x \in S : \E i \in 1 .. n : f[i] = x
  <2>1. IsFiniteSet(1 .. n) /\ Cardinality(1 .. n) = n
    <3>1. 1 \in Int /\ n \in Int BY <1>1
    <3>2. Cardinality(1 .. n) = IF 1 > n THEN 0 ELSE n - 1 + 1 BY <3>1, FS_Interval
    <3> QED BY <1>1, <3>1, <3>2, FS_Interval
  <2> HIDE DEF n
  <2>2. f \in Surjection(1 .. n, S) BY <1>5, <2>1, FS_Injection DEF n
  <2> QED BY <2>2, Zenon DEF Surjection
<1>7. f \in Seq(S) /\ Len(f) = n
  <2>1. n \in Nat /\ f \in [1 .. n -> S] BY <1>1, <1>4
  <2> HIDE DEF n
  <2> QED BY <2>1
<1>8. ToSet(f) = S BY <1>4, <1>6 DEF ToSet
<1> QED BY <1>1, <1>4, <1>6, <1>7, <1>8 DEF IsInjective, f

-----------------------------------------------------------------------------
(***************************************************************************)
(* What the guest takes for pressed.                                       *)
(***************************************************************************)

\* Where a list speaks of a key.
Own(k, q) == {i \in DOMAIN q : q[i] \in {Make(k), Break(k)}}

\* The last word on a key is that it is pressed.
LastMakes(k, q) ==
  \E i \in Own(k, q) : q[i] = Make(k) /\ \A j \in Own(k, q) : j <= i

LEMMA AfterIs ==
  ASSUME NEW S, NEW q
  PROVE  /\ After(S, q) \subseteq Keys
         /\ \A k \in Keys : k \in After(S, q)
              <=> IF Own(k, q) = {} THEN k \in S ELSE LastMakes(k, q)
BY DEF After, Own, LastMakes

LEMMA CodesDiffer ==
  \A k, l : /\ Make(k) # Break(l)
            /\ Make(k) = Make(l) <=> k = l
            /\ Break(k) = Break(l) <=> k = l
BY DEF Make, Break

\* A list can be read in two parts.
LEMMA AfterConcat ==
  ASSUME NEW T, NEW p \in Seq(T), NEW q \in Seq(T), NEW S
  PROVE  After(S, p \o q) = After(After(S, p), q)
<1> DEFINE r == p \o q
           n == Len(p)
<1>1. /\ n \in Nat /\ Len(q) \in Nat
      /\ r \in Seq(T) /\ Len(r) = n + Len(q)
      /\ \A i \in 1 .. n : r[i] = p[i]
      /\ \A i \in 1 .. Len(q) : r[n + i] = q[i]
      /\ DOMAIN p = 1 .. n /\ DOMAIN q = 1 .. Len(q) /\ DOMAIN r = 1 .. (n + Len(q))
  <2>1. /\ r \in Seq(T) /\ Len(r) = Len(p) + Len(q)
        /\ \A i \in 1 .. Len(r) : r[i] = IF i <= Len(p) THEN p[i] ELSE q[i - Len(p)]
    BY ConcatProperties
  <2>2. Len(p) \in Nat /\ Len(q) \in Nat OBVIOUS
  <2> HIDE DEF r
  <2>3. \A i \in 1 .. Len(p) : i \in 1 .. Len(r) /\ i <= Len(p) BY <2>1, <2>2
  <2>4. \A i \in 1 .. Len(q) : Len(p) + i \in 1 .. Len(r) /\ ~ (Len(p) + i <= Len(p))
                               /\ Len(p) + i - Len(p) = i
    BY <2>1, <2>2
  <2>5. DOMAIN r = 1 .. Len(r) BY <2>1
  <2> QED BY <2>1, <2>2, <2>3, <2>4, <2>5
<1> HIDE DEF r, n
<1>2. ASSUME NEW k \in Keys
      PROVE  k \in After(S, r) <=> k \in After(After(S, p), q)
  <2>1. \A i \in 1 .. n : i \in Own(k, r) <=> i \in Own(k, p)
    <3>1. \A i \in 1 .. n : i \in 1 .. (n + Len(q)) BY <1>1
    <3> QED BY <1>1, <3>1 DEF Own
  <2>2. \A i \in 1 .. Len(q) : n + i \in Own(k, r) <=> i \in Own(k, q)
    <3>1. \A i \in 1 .. Len(q) : n + i \in 1 .. (n + Len(q)) BY <1>1
    <3> QED BY <1>1, <3>1 DEF Own
  <2>3. /\ Own(k, p) \subseteq 1 .. n /\ Own(k, q) \subseteq 1 .. Len(q)
        /\ Own(k, r) \subseteq 1 .. (n + Len(q))
    BY <1>1 DEF Own
  <2>4. \A i \in Own(k, r) : i \notin 1 .. n => i - n \in Own(k, q) /\ n + (i - n) = i
    <3> TAKE i \in Own(k, r)
    <3> HAVE i \notin 1 .. n
    <3>1. i - n \in 1 .. Len(q) /\ n + (i - n) = i BY <1>1, <2>3
    <3> QED BY <2>2, <3>1
  <2>5. CASE Own(k, q) = {}
    <3>1. Own(k, r) = Own(k, p) BY <2>1, <2>3, <2>4, <2>5
    <3>2. \A i \in Own(k, p) : r[i] = p[i] BY <1>1, <2>3
    <3>3. LastMakes(k, r) <=> LastMakes(k, p) BY <3>1, <3>2 DEF LastMakes
    <3> QED BY <2>5, <3>1, <3>3, AfterIs
  <2>6. CASE Own(k, q) # {}
    <3>1. PICK o \in Own(k, q) : TRUE BY <2>6
    <3>2. n + o \in Own(k, r) BY <2>2, <2>3, <3>1
    <3>3. ASSUME LastMakes(k, r) PROVE LastMakes(k, q)
      <4>1. PICK i \in Own(k, r) : r[i] = Make(k) /\ \A j \in Own(k, r) : j <= i
        BY <3>3 DEF LastMakes
      <4>2. i \notin 1 .. n
        <5>1. n + o <= i /\ o \in 1 .. Len(q) BY <2>3, <3>2, <4>1
        <5> QED BY <1>1, <2>3, <5>1
      <4>3. i - n \in Own(k, q) /\ n + (i - n) = i BY <2>4, <4>2
      <4>4. q[i - n] = Make(k) BY <1>1, <2>3, <4>1, <4>3
      <4>5. \A j \in Own(k, q) : j <= i - n
        <5> TAKE j \in Own(k, q)
        <5>1. n + j <= i /\ j \in Int /\ i \in Int BY <2>2, <2>3, <4>1
        <5> QED BY <1>1, <5>1
      <4> QED BY <4>3, <4>4, <4>5 DEF LastMakes
    <3>4. ASSUME LastMakes(k, q) PROVE LastMakes(k, r)
      <4>1. PICK i \in Own(k, q) : q[i] = Make(k) /\ \A j \in Own(k, q) : j <= i
        BY <3>4 DEF LastMakes
      <4>2. n + i \in Own(k, r) /\ r[n + i] = Make(k) /\ i \in 1 .. Len(q)
        BY <1>1, <2>2, <2>3, <4>1
      <4>3. \A j \in Own(k, r) : j <= n + i
        <5> TAKE j \in Own(k, r)
        <5>1. CASE j \in 1 .. n BY <1>1, <4>2, <5>1
        <5>2. CASE j \notin 1 .. n
          <6>1. j - n <= i /\ j \in Int BY <2>3, <2>4, <4>1, <5>2
          <6> QED BY <1>1, <4>2, <6>1
        <5> QED BY <5>1, <5>2
      <4> QED BY <4>2, <4>3 DEF LastMakes
    <3> QED BY <2>6, <3>2, <3>3, <3>4, AfterIs
  <2> QED BY <2>5, <2>6
<1>3. After(S, r) \subseteq Keys /\ After(After(S, p), q) \subseteq Keys BY AfterIs
<1> QED BY <1>2, <1>3 DEF r

LEMMA AfterEmpty ==
  ASSUME NEW S \in SUBSET Keys
  PROVE  After(S, <<>>) = S
<1>1. \A k : Own(k, <<>>) = {} BY DEF Own
<1>2. \A k \in Keys : k \in After(S, <<>>) <=> k \in S BY <1>1, AfterIs
<1>3. After(S, <<>>) \subseteq Keys BY AfterIs
<1> QED BY <1>2, <1>3

\* A single byte.
LEMMA AfterOne ==
  ASSUME NEW S \in SUBSET Keys, NEW c \in Codes \cup Answers \cup {<<"none", "ff">>}
  PROVE  After(S, <<c>>) = Told(S, c) /\ Told(S, c) \subseteq Keys
<1>1. /\ DOMAIN <<c>> = {1} /\ <<c>>[1] = c
  OBVIOUS
<1>2. \A k : Own(k, <<c>>) = IF c \in {Make(k), Break(k)} THEN {1} ELSE {}
  BY <1>1 DEF Own
<1>3. \A k : LastMakes(k, <<c>>) <=> c = Make(k)
  <2>1. 1 <= 1 OBVIOUS
  <2> QED BY <1>1, <1>2, <2>1, CodesDiffer DEF LastMakes
<1>4. \A k \in Keys : k \in After(S, <<c>>)
        <=> IF c \in {Make(k), Break(k)} THEN c = Make(k) ELSE k \in S
  BY <1>2, <1>3, AfterIs
<1>5. CASE c \in Codes
  <2>1. PICK l \in Keys : c = Make(l) \/ c = Break(l) BY <1>5 DEF Codes, Make, Break
  <2>2. \A k : /\ c = Make(k) <=> c = Make(l) /\ k = l
               /\ c = Break(k) <=> c = Break(l) /\ k = l
    BY <2>1 DEF Make, Break
  <2>3. c = Make(l) => Told(S, c) = S \cup {l} BY DEF Told, Make
  <2>4. c = Break(l) => Told(S, c) = S \ {l} BY DEF Told, Break
  <2> QED BY <1>4, <2>1, <2>2, <2>3, <2>4, CodesDiffer, AfterIs
<1>6. CASE c \in Answers \cup {<<"none", "ff">>}
  <2>1. c[1] # "make" /\ c[1] # "break" BY <1>6 DEF Answers
  <2>2. Told(S, c) = S BY <2>1 DEF Told
  <2>3. \A k : c # Make(k) /\ c # Break(k) BY <2>1 DEF Make, Break
  <2> QED BY <1>4, <2>2, <2>3, AfterIs
<1> QED BY <1>5, <1>6

\* The codes of some keys: each is spoken of once.
LEMMA MakesFacts ==
  ASSUME NEW R \in SUBSET Keys, NEW S \in SUBSET Keys
  PROVE  /\ Makes(R) \in Seq(Codes) /\ Len(Makes(R)) = Cardinality(R)
         /\ Cardinality(R) \in Nat
         /\ After(S, Makes(R)) = S \cup R
<1> DEFINE n == Cardinality(R)
           f == SetToSeq(R)
           q == Makes(R)
<1>1. IsFiniteSet(R) BY KeyboardAssumption, FS_Subset
<1>2. /\ n \in Nat /\ f \in [1 .. n -> R]
      /\ \A i, j \in 1 .. n : f[i] = f[j] => i = j
      /\ \A x \in R : \E i \in 1 .. n : f[i] = x
  BY <1>1, SetToSeqFacts
<1>3. q = [i \in 1 .. n |-> Make(f[i])] BY DEF Makes
<1> HIDE DEF f, n, q
<1>4. \A i \in 1 .. n : q[i] = Make(f[i]) /\ q[i] \in Codes
  BY <1>2, <1>3 DEF Make, Codes
<1>5. q \in Seq(Codes) /\ Len(q) = n /\ DOMAIN q = 1 .. n BY <1>2, <1>3, <1>4
<1>6. \A k : Own(k, q) = {i \in 1 .. n : f[i] = k}
  <2>1. \A k : \A i \in 1 .. n : q[i] \in {Make(k), Break(k)} <=> f[i] = k
    BY <1>4, CodesDiffer
  <2> QED BY <1>5, <2>1 DEF Own
<1>7. \A k \in Keys : k \in After(S, q) <=> k \in S \cup R
  <2> TAKE k \in Keys
  <2>1. CASE k \in R
    <3>1. PICK i \in 1 .. n : f[i] = k BY <1>2, <2>1
    <3>2. Own(k, q) = {i} BY <1>2, <1>6, <3>1
    <3>3. i <= i /\ q[i] = Make(k) BY <1>4, <3>1
    <3>4. LastMakes(k, q) BY <3>2, <3>3 DEF LastMakes
    <3> QED BY <2>1, <3>2, <3>4, AfterIs
  <2>2. CASE k \notin R
    <3>1. Own(k, q) = {} BY <1>2, <1>6, <2>2
    <3> QED BY <2>2, <3>1, AfterIs
  <2> QED BY <2>1, <2>2
<1>8. After(S, q) = S \cup R BY <1>7, AfterIs
<1> QED BY <1>2, <1>5, <1>8 DEF q, n

LEMMA BreaksFacts ==
  ASSUME NEW R \in SUBSET Keys, NEW S \in SUBSET Keys
  PROVE  /\ Breaks(R) \in Seq(Codes) /\ Len(Breaks(R)) = Cardinality(R)
         /\ Cardinality(R) \in Nat
         /\ After(S, Breaks(R)) = S \ R
<1> DEFINE n == Cardinality(R)
           f == SetToSeq(R)
           q == Breaks(R)
<1>1. IsFiniteSet(R) BY KeyboardAssumption, FS_Subset
<1>2. /\ n \in Nat /\ f \in [1 .. n -> R]
      /\ \A x \in R : \E i \in 1 .. n : f[i] = x
  BY <1>1, SetToSeqFacts
<1>3. q = [i \in 1 .. n |-> Break(f[i])] BY DEF Breaks
<1> HIDE DEF f, n, q
<1>4. \A i \in 1 .. n : q[i] = Break(f[i]) /\ q[i] \in Codes
  BY <1>2, <1>3 DEF Break, Codes
<1>5. q \in Seq(Codes) /\ Len(q) = n /\ DOMAIN q = 1 .. n BY <1>2, <1>3, <1>4
<1>6. \A k : Own(k, q) = {i \in 1 .. n : f[i] = k}
  <2>1. \A k : \A i \in 1 .. n : q[i] \in {Make(k), Break(k)} <=> f[i] = k
    BY <1>4, CodesDiffer
  <2> QED BY <1>5, <2>1 DEF Own
<1>7. \A k \in Keys : k \in After(S, q) <=> k \in S \ R
  <2> TAKE k \in Keys
  <2>1. ~LastMakes(k, q)
    BY <1>4, <1>6, CodesDiffer DEF LastMakes
  <2>2. Own(k, q) = {} <=> k \notin R BY <1>2, <1>6
  <2> QED BY <2>1, <2>2, AfterIs
<1>8. After(S, q) = S \ R BY <1>7, AfterIs
<1> QED BY <1>2, <1>5, <1>8 DEF q, n

-----------------------------------------------------------------------------
(***************************************************************************)
(* The invariant.                                                          *)
(***************************************************************************)

\* The emulator repeats those keys only that repeat.
RepeatsOnly == ToSet(rep) \cap Single = {}

KeyInv == TypeOK /\ NoKeySticks /\ RepeatsOnly

LEMMA KeyFacts ==
  /\ Lamps \subseteq Single /\ Shifts \subseteq Single /\ Single \subseteq Keys
  /\ \A h \in Hosts : Code[h] \in Keys /\ h # NC
  /\ \A h \in Mechanical : Code[h] \in Single
  /\ NC # "uPD8255" /\ NC \notin Hosts
  /\ CtrMax \in Nat /\ 3 < CtrMax /\ BufMax \in Nat /\ RepMax \in Nat
  /\ IsFiniteSet(Keys) /\ Cardinality(Keys) <= BufMax
  /\ Setups \subseteq Setup
<1>1. CtrMax \in Nat /\ 3 < CtrMax
  <2>1. CtrMax \in Nat \ 0 .. 3 BY KeyboardAssumption
  <2> QED BY <2>1
<1> QED BY <1>1, KeyboardAssumption

LEMMA FittingFacts ==
  ASSUME NEW T, NEW q \in Seq(T), NEW size \in Nat
  PROVE  /\ Fitting(q, size) \in Seq(T) /\ Len(Fitting(q, size)) <= size
         /\ Len(q) <= size => Fitting(q, size) = q
<1>1. CASE Len(q) <= size BY <1>1 DEF Fitting
<1>2. CASE ~ (Len(q) <= size)
  <2>1. 1 \in 1 .. Len(q) + 1 /\ size \in 0 .. Len(q) /\ Len(q) \in Nat BY <1>2
  <2>2. SubSeq(q, 1, size) \in Seq(T)
    BY <1>2, <2>1
  <2>3. Len(SubSeq(q, 1, size)) = size BY <1>2, <2>1
  <2> QED BY <1>2, <2>2, <2>3 DEF Fitting
<1> QED BY <1>1, <1>2

LEMMA SendCodesFacts ==
  ASSUME TypeOK, NEW codes \in Seq(Codes), SendCodes(codes)
  PROVE  /\ buf' \in Seq(Codes) /\ Len(buf') <= BufMax
         /\ overrun' \in BOOLEAN /\ armed' \in BOOLEAN
         /\ Len(buf \o codes) <= BufMax => buf' = buf \o codes
<1>1. buf \in Seq(Codes) /\ overrun \in BOOLEAN /\ armed \in BOOLEAN BY DEF TypeOK
<1>2. buf \o codes \in Seq(Codes) BY <1>1
<1>3. BufMax \in Nat BY KeyFacts
<1>4. /\ buf' = Fitting(buf \o codes, BufMax)
      /\ overrun' = (overrun \/ Len(buf \o codes) > BufMax)
      /\ armed' = (armed \/ Len(buf') > Len(buf))
  BY DEF SendCodes
<1>5. overrun' \in BOOLEAN /\ armed' \in BOOLEAN BY <1>4
<1> QED BY <1>2, <1>3, <1>4, <1>5, FittingFacts

\* What goes through KEYBOARD_SEND: the keys of keyrepeat_buf stay few, and a guest that
\* can know the keys is sent all the codes.
LEMMA SendFacts ==
  ASSUME TypeOK, RepeatsOnly, NEW released \in SUBSET Keys, NEW pressed \in SUBSET Keys,
         Cardinality(pressed) <= 1, Send(released, pressed)
  PROVE  /\ rep' \in Seq(Keys) /\ Len(rep') <= RepMax
         /\ ToSet(rep') \cap Single = {}
         /\ ToSet(rep') \subseteq ToSet(rep) \cup pressed
         /\ repeat => ToSet(rep') \subseteq (ToSet(rep) \ released) \cup pressed
         /\ buf' \in Seq(Codes) /\ Len(buf') <= BufMax
         /\ overrun' \in BOOLEAN /\ armed' \in BOOLEAN /\ synced' \in BOOLEAN
         /\ synced' => synced /\ buf' = buf \o (Breaks(released) \o Makes(pressed))
<1> DEFINE own == IF repeat THEN Keys \ Single ELSE {}
           left == Without(rep, own \cap released)
           refused == {k \in own \cap pressed : Contains(left, k) \/ Len(left) >= RepMax}
           taken == (own \cap pressed) \ refused
           more == SetToSeq(taken)
           st == Through(released, pressed)
           codes == Breaks(released) \o Makes(st.makes)
<1>1. /\ rep \in Seq(Keys) /\ Len(rep) <= RepMax /\ RepMax \in Nat
      /\ synced \in BOOLEAN
  BY KeyFacts DEF TypeOK
<1>2. /\ left \in Seq(Keys) /\ Len(left) <= Len(rep)
      /\ ToSet(left) = ToSet(rep) \ (own \cap released)
  BY <1>1, WithoutFacts
<1>3. st = [rep |-> left \o more, makes |-> pressed \ refused] BY DEF Through
<1>4. /\ rep' = st.rep
      /\ SendCodes(codes)
      /\ synced' = (synced /\ st.makes = pressed /\ Len(buf \o codes) <= BufMax)
  BY DEF Send
<1>5. st.makes \in SUBSET Keys BY <1>3
<1>6. codes \in Seq(Codes)
  <2>1. Breaks(released) \in Seq(Codes) BY BreaksFacts
  <2>2. Makes(st.makes) \in Seq(Codes)
    <3> HIDE DEF st
    <3> QED BY <1>5, MakesFacts
  <2> QED BY <2>1, <2>2
<1>7. /\ taken \subseteq own /\ taken \subseteq pressed
      /\ \A k \in taken : ~ (Len(left) >= RepMax)
  OBVIOUS
<1>8. IsFiniteSet(taken) /\ Cardinality(taken) <= 1 /\ Cardinality(taken) \in Nat
  <2>1. IsFiniteSet(pressed) BY KeyFacts, FS_Subset
  <2>2. Cardinality(pressed) \in Nat BY <2>1, FS_CardinalityType
  <2> HIDE DEF taken
  <2>3. taken \in SUBSET pressed BY <1>7
  <2>4. IsFiniteSet(taken) /\ Cardinality(taken) <= Cardinality(pressed)
    BY <2>1, <2>3, FS_Subset
  <2>5. Cardinality(taken) \in Nat BY <2>4, FS_CardinalityType
  <2> QED BY <2>2, <2>4, <2>5
<1> HIDE DEF left, taken, refused, st, codes
<1>9. /\ more \in Seq(taken) /\ Len(more) = Cardinality(taken) /\ ToSet(more) = taken
  BY <1>8, SetToSeqFacts
<1>10. Len(left) + Len(more) <= RepMax
  <2>1. Len(left) \in Nat BY <1>2
  <2>2. CASE taken = {}
    <3>1. Cardinality(taken) = 0 BY <2>2, FS_EmptySet
    <3> QED BY <1>1, <1>2, <1>9, <2>1, <3>1
  <2>3. CASE taken # {} BY <1>1, <1>7, <1>8, <1>9, <2>1, <2>3
  <2> QED BY <2>2, <2>3
<1> HIDE DEF more
<1>11. taken \subseteq Keys BY <1>7
<1>12. more \in Seq(Keys)
  <2>1. \A i \in 1 .. Len(more) : more[i] \in Keys BY <1>9, <1>11
  <2> QED BY <1>9, <2>1
<1>13. /\ left \o more \in Seq(Keys) /\ Len(left \o more) <= RepMax
       /\ ToSet(left \o more) = ToSet(left) \cup taken
  <2>1. Len(left \o more) = Len(left) + Len(more) BY <1>2, <1>12
  <2>2. ToSet(left \o more) = ToSet(left) \cup ToSet(more)
    <3>1. \A s : ToSet(s) = Range(s) BY DEF ToSet, Range
    <3>2. Range(left \o more) = Range(left) \cup Range(more)
      BY <1>2, <1>12, RangeConcatenation
    <3> QED BY <3>1, <3>2
  <2> QED BY <1>2, <1>9, <1>10, <1>12, <2>1, <2>2
<1>14. rep' = left \o more BY <1>3, <1>4
<1>15. own \cap Single = {} /\ (repeat => own \cap released = released \ Single) OBVIOUS
<1>16. ToSet(rep) \cap Single = {} BY DEF RepeatsOnly
<1>17. synced' => synced /\ buf' = buf \o (Breaks(released) \o Makes(pressed))
  BY <1>4, <1>6, SendCodesFacts DEF codes
<1>18. synced' \in BOOLEAN BY <1>1, <1>4
<1> HIDE DEF own
<1> QED BY <1>2, <1>4, <1>6, <1>7, <1>13, <1>14, <1>15, <1>16, <1>17, <1>18, SendCodesFacts

-----------------------------------------------------------------------------
(* What is on the way. *)

LEMMA ToBeSeenTypes ==
  ASSUME TypeOK
  PROVE  /\ InFlight \in Seq(Codes \cup Answers \cup {<<"none", "ff">>})
         /\ ToBeSeen \in SUBSET Keys
<1> DEFINE T == Codes \cup Answers \cup {<<"none", "ff">>}
<1>1. buf \in Seq(Codes) /\ data \in T BY DEF TypeOK
<1>2. buf \in Seq(T)
  <2>1. \A i \in 1 .. Len(buf) : buf[i] \in T BY <1>1
  <2> QED BY <1>1, <2>1
<1> HIDE DEF T
<1>3. <<data>> \o buf \in Seq(T) BY <1>1, <1>2
<1>4. InFlight \in Seq(T) BY <1>2, <1>3 DEF InFlight
<1> QED BY <1>4, AfterIs DEF ToBeSeen, T

\* Codes that go to the ring.
LEMMA ToBeSeenGrows ==
  ASSUME TypeOK, NEW codes \in Seq(Codes), buf' = buf \o codes,
         UNCHANGED <<rxrdy, data, seen>>
  PROVE  ToBeSeen' = After(ToBeSeen, codes)
<1> DEFINE T == Codes \cup Answers \cup {<<"none", "ff">>}
<1>1. buf \in Seq(Codes) /\ data \in T BY DEF TypeOK
<1>2. buf \in Seq(T) /\ codes \in Seq(T)
  <2>1. \A i \in 1 .. Len(buf) : buf[i] \in T BY <1>1
  <2>2. \A i \in 1 .. Len(codes) : codes[i] \in T OBVIOUS
  <2> QED BY <1>1, <2>1, <2>2
<1>3. InFlight \in Seq(T) BY ToBeSeenTypes
<1> HIDE DEF T
<1>4. InFlight' = InFlight \o codes
  <2>1. <<data>> \in Seq(T) BY <1>1
  <2>2. <<data>> \o (buf \o codes) = (<<data>> \o buf) \o codes
    BY <1>2, <2>1, ConcatAssociative
  <2> QED BY <2>2 DEF InFlight
<1>5. After(seen, InFlight \o codes) = After(After(seen, InFlight), codes)
  BY <1>2, <1>3, AfterConcat
<1> QED BY <1>4, <1>5 DEF ToBeSeen

LEMMA ToBeSeenSent ==
  ASSUME TypeOK, NEW released \in SUBSET Keys, NEW pressed \in SUBSET Keys,
         buf' = buf \o (Breaks(released) \o Makes(pressed)),
         UNCHANGED <<rxrdy, data, seen>>
  PROVE  ToBeSeen' = (ToBeSeen \ released) \cup pressed
<1>1. ToBeSeen \in SUBSET Keys BY ToBeSeenTypes
<1>2. Breaks(released) \in Seq(Codes) /\ After(ToBeSeen, Breaks(released)) = ToBeSeen \ released
  BY <1>1, BreaksFacts
<1>3. ToBeSeen \ released \in SUBSET Keys BY <1>1
<1>4. /\ Makes(pressed) \in Seq(Codes)
      /\ After(ToBeSeen \ released, Makes(pressed)) = (ToBeSeen \ released) \cup pressed
  BY <1>3, MakesFacts
<1>5. Breaks(released) \o Makes(pressed) \in Seq(Codes) BY <1>2, <1>4
<1>6. ToBeSeen' = After(ToBeSeen, Breaks(released) \o Makes(pressed))
  BY <1>5, ToBeSeenGrows
<1>7. After(ToBeSeen, Breaks(released) \o Makes(pressed))
        = After(After(ToBeSeen, Breaks(released)), Makes(pressed))
  <2> DEFINE b == Breaks(released)
             m == Makes(pressed)
  <2>1. b \in Seq(Codes) /\ m \in Seq(Codes) BY <1>2, <1>4
  <2> HIDE DEF b, m
  <2>2. After(ToBeSeen, b \o m) = After(After(ToBeSeen, b), m) BY <2>1, AfterConcat
  <2> QED BY <2>2 DEF b, m
<1> QED BY <1>2, <1>4, <1>6, <1>7

\* A byte that is taken to the port.
LEMMA ToBeSeenTaken ==
  ASSUME TypeOK, ~rxrdy, rxrdy', UNCHANGED seen,
         \/ buf # <<>> /\ data' = Head(buf) /\ buf' = Tail(buf)
         \/ data' \in Answers /\ buf' = buf
  PROVE  ToBeSeen' = ToBeSeen
<1> DEFINE T == Codes \cup Answers \cup {<<"none", "ff">>}
<1>1. buf \in Seq(Codes) /\ seen \in SUBSET Keys BY DEF TypeOK
<1>2. InFlight = buf /\ InFlight' = <<data'>> \o buf' BY DEF InFlight
<1>3. CASE buf # <<>> /\ data' = Head(buf) /\ buf' = Tail(buf)
  <2>1. <<Head(buf)>> \o Tail(buf) = buf BY <1>1, <1>3
  <2> QED BY <1>2, <1>3, <2>1 DEF ToBeSeen
<1>4. CASE data' \in Answers /\ buf' = buf
  <2>1. buf \in Seq(T) /\ <<data'>> \in Seq(T)
    <3>1. \A i \in 1 .. Len(buf) : buf[i] \in T BY <1>1
    <3>2. data' \in T BY <1>4
    <3> QED BY <1>1, <3>1, <3>2
  <2>2. After(seen, <<data'>> \o buf) = After(After(seen, <<data'>>), buf)
    BY <2>1, AfterConcat
  <2>3. After(seen, <<data'>>) = Told(seen, data') BY <1>1, <1>4, AfterOne
  <2>4. Told(seen, data') = seen BY <1>4 DEF Told, Answers
  <2> QED BY <1>2, <1>4, <2>2, <2>3, <2>4 DEF ToBeSeen
<1> QED BY <1>3, <1>4

\* A byte that is read.
LEMMA ToBeSeenRead ==
  ASSUME TypeOK, rxrdy, ~rxrdy', buf' = buf, seen' = Told(seen, data)
  PROVE  ToBeSeen' = ToBeSeen /\ seen' \subseteq Keys
<1> DEFINE T == Codes \cup Answers \cup {<<"none", "ff">>}
<1>1. buf \in Seq(Codes) /\ seen \in SUBSET Keys /\ data \in T BY DEF TypeOK
<1>2. InFlight = <<data>> \o buf /\ InFlight' = buf BY DEF InFlight
<1>3. buf \in Seq(T) /\ <<data>> \in Seq(T)
  <2>1. \A i \in 1 .. Len(buf) : buf[i] \in T BY <1>1
  <2> QED BY <1>1, <2>1
<1>4. After(seen, <<data>> \o buf) = After(After(seen, <<data>>), buf)
  BY <1>3, AfterConcat
<1>5. After(seen, <<data>>) = Told(seen, data) /\ Told(seen, data) \subseteq Keys
  BY <1>1, AfterOne
<1> QED BY <1>2, <1>4, <1>5 DEF ToBeSeen

-----------------------------------------------------------------------------
(***************************************************************************)
(* The steps.                                                              *)
(***************************************************************************)

LEMMA InitKeyInv == Init => KeyInv
<1> SUFFICES ASSUME Init PROVE KeyInv OBVIOUS
<1>1. TypeOK
  <2>1. <<>> \in Seq(Keys) /\ <<>> \in Seq(Answers) /\ <<>> \in Seq(Codes) /\ Len(<<>>) = 0
    OBVIOUS
  <2>2. repeat \in BOOLEAN BY KeyFacts DEF Init, Setup
  <2>3. ref \in [Keys -> Hosts \cup {"uPD8255", NC}] BY DEF Init
  <2>4. rep \in Seq(Keys) /\ Len(rep) <= RepMax BY <2>1, KeyFacts DEF Init
  <2>5. ctr \in Seq(Answers) /\ Len(ctr) < CtrMax BY <2>1, KeyFacts DEF Init
  <2>6. buf \in Seq(Codes) /\ Len(buf) <= BufMax BY <2>1, KeyFacts DEF Init
  <2>7. {stop, repeat, rxrdy, overrun, txe, rst, armed, irq, serving, synced}
          \subseteq BOOLEAN
    BY <2>2 DEF Init
  <2>8. /\ param \in {"none", "95", "9c", "9d"} /\ seen \subseteq Keys
        /\ data \in Codes \cup Answers \cup {<<"none", "ff">>} /\ setup \in Setups
    BY DEF Init
  <2> QED BY <2>3, <2>4, <2>5, <2>6, <2>7, <2>8 DEF TypeOK
<1>2. ToBeSeen = {} /\ Pressed = {} /\ ToSet(rep) = {}
  <2>1. ToBeSeen = After({}, <<>>) BY DEF Init, ToBeSeen, InFlight
  <2>2. After({}, <<>>) = {} BY AfterEmpty
  <2>3. ToSet(rep) = {} BY DEF Init, ToSet
  <2> QED BY <2>1, <2>2, <2>3 DEF Init, Pressed
<1> QED BY <1>1, <1>2 DEF KeyInv, NoKeySticks, RepeatsOnly

\* The host sends the codes of keys that change, and perhaps of one that does not.
LEMMA HostSends ==
  ASSUME KeyInv, NEW released \in SUBSET Keys, NEW pressed \in SUBSET Keys,
         Cardinality(pressed) <= 1, Send(released, pressed),
         ref' \in [Keys -> Hosts \cup {"uPD8255", NC}],
         Pressed' \ Lamps = ((Pressed \ released) \cup pressed) \ Lamps,
         UNCHANGED <<repeat, ctr, data, rxrdy, control, irq, serving, seen, setup>>
  PROVE  KeyInv'
<1>1. TypeOK /\ NoKeySticks /\ RepeatsOnly BY DEF KeyInv
<1>2. /\ rep' \in Seq(Keys) /\ Len(rep') <= RepMax
      /\ ToSet(rep') \cap Single = {}
      /\ repeat => ToSet(rep') \subseteq (ToSet(rep) \ released) \cup pressed
      /\ buf' \in Seq(Codes) /\ Len(buf') <= BufMax
      /\ overrun' \in BOOLEAN /\ armed' \in BOOLEAN /\ synced' \in BOOLEAN
      /\ synced' => synced /\ buf' = buf \o (Breaks(released) \o Makes(pressed))
  BY <1>1, SendFacts
<1>3. TypeOK' BY <1>1, <1>2 DEF TypeOK, control
<1>4. ASSUME synced' PROVE /\ ToBeSeen' \ Lamps = Pressed' \ Lamps
                           /\ repeat' => ToSet(rep') \subseteq Pressed'
  <2>1. /\ ToBeSeen \ Lamps = Pressed \ Lamps
        /\ repeat => ToSet(rep) \subseteq Pressed
    BY <1>1, <1>2, <1>4 DEF NoKeySticks
  <2>2. ToBeSeen' = (ToBeSeen \ released) \cup pressed
    BY <1>1, <1>2, <1>4, ToBeSeenSent
  <2>3. Lamps \subseteq Single BY KeyFacts
  <2> QED BY <1>2, <2>1, <2>2, <2>3
<1> QED BY <1>2, <1>3, <1>4 DEF KeyInv, NoKeySticks, RepeatsOnly

LEMMA NoneOrOne ==
  /\ Cardinality({}) <= 1
  /\ \A k : Cardinality({k}) <= 1
<1>1. Cardinality({}) = 0 /\ \A k : Cardinality({k}) = 1 BY FS_EmptySet, FS_Singleton
<1> QED BY <1>1

LEMMA HostKeeps ==
  ASSUME KeyInv, HostActs, UNCHANGED setup
  PROVE  KeyInv'
<1>0. TypeOK /\ ref \in [Keys -> Hosts \cup {"uPD8255", NC}] BY DEF KeyInv, TypeOK
<1>1. ASSUME NEW h \in setup.hosts, KeyDown(h) PROVE KeyInv'
  <2> DEFINE k == Code[h]
             down == k \in Pressed
             unlocks == h \in Mechanical /\ down
             keeps == h \notin Mechanical /\ k \in Shifts /\ down
             again == h \notin Mechanical /\ down /\ ~stop /\ k \notin Single
             released == IF unlocks \/ again THEN {k} ELSE {}
             pressed == IF ~down \/ again THEN {k} ELSE {}
  <2>1. /\ ref' = [ref EXCEPT ![k] = IF unlocks THEN NC ELSE IF keeps THEN @ ELSE h]
        /\ Send(released, pressed)
        /\ UNCHANGED <<repeat, ctr, data, rxrdy, control, irq, serving, seen>>
    BY <1>1 DEF KeyDown
  <2>2. h \in Hosts /\ k \in Keys /\ h # NC
    <3>1. setup \in Setup BY <1>0, KeyFacts DEF TypeOK
    <3>2. h \in Hosts BY <3>1 DEF Setup
    <3> QED BY <3>2, KeyFacts
  <2>3. ref' \in [Keys -> Hosts \cup {"uPD8255", NC}] BY <1>0, <2>1, <2>2
  <2>4. \A l \in Keys : l # k => ref'[l] = ref[l] BY <1>0, <2>1
  <2>5. ref'[k] = IF unlocks THEN NC ELSE IF keeps THEN ref[k] ELSE h
    BY <1>0, <2>1, <2>2
  <2>6. Pressed' = (Pressed \ released) \cup pressed
    <3>1. down <=> ref[k] # NC BY <2>2 DEF Pressed
    <3>2. ref'[k] # NC <=> ~unlocks BY <2>2, <2>5, <3>1
    <3>3. \A l \in Keys : l \in Pressed' <=> IF l = k THEN ~unlocks ELSE l \in Pressed
      BY <2>4, <3>2 DEF Pressed
    <3>4. Pressed \subseteq Keys /\ Pressed' \subseteq Keys BY DEF Pressed
    <3>5. \A l \in Keys : l \in (Pressed \ released) \cup pressed
                            <=> IF l = k THEN ~unlocks ELSE l \in Pressed
      OBVIOUS
    <3>6. (Pressed \ released) \cup pressed \subseteq Keys BY <2>2, <3>4
    <3> HIDE DEF released, pressed, unlocks
    <3> QED BY <3>3, <3>4, <3>5, <3>6
  <2>7. released \in SUBSET Keys /\ pressed \in SUBSET Keys /\ Cardinality(pressed) <= 1
    BY <2>2, NoneOrOne
  <2> HIDE DEF released, pressed
  <2> QED BY <2>1, <2>3, <2>6, <2>7, HostSends
<1>2. ASSUME NEW h \in setup.hosts, KeyUp(h) PROVE KeyInv'
  <2> DEFINE k == Code[h]
  <2>1. /\ ref' = [ref EXCEPT ![k] = NC] /\ Send({k}, {}) /\ k \in Pressed
        /\ UNCHANGED <<repeat, ctr, data, rxrdy, control, irq, serving, seen>>
    BY <1>2 DEF KeyUp, Releases
  <2>2. k \in Keys BY <2>1 DEF Pressed
  <2>3. ref' \in [Keys -> Hosts \cup {"uPD8255", NC}] BY <1>0, <2>1, <2>2
  <2>4. Pressed' = (Pressed \ {k}) \cup {} BY <1>0, <2>1, <2>2 DEF Pressed
  <2>5. {k} \in SUBSET Keys /\ {} \in SUBSET Keys BY <2>2
  <2> QED BY <2>1, <2>3, <2>4, <2>5, NoneOrOne, HostSends
<1>3. CASE AllRelease
  <2> DEFINE S == Pressed \ Lamps
  <2>1. /\ ref' = [k \in Keys |-> IF k \in Lamps THEN ref[k] ELSE NC] /\ Send(S, {})
        /\ UNCHANGED <<repeat, ctr, data, rxrdy, control, irq, serving, seen>>
    BY <1>3 DEF AllRelease
  <2>2. ref' \in [Keys -> Hosts \cup {"uPD8255", NC}] BY <1>0, <2>1
  <2>3. Pressed' \ Lamps = ((Pressed \ S) \cup {}) \ Lamps BY <2>1 DEF Pressed
  <2>4. S \in SUBSET Keys /\ {} \in SUBSET Keys BY DEF Pressed
  <2> HIDE DEF S
  <2> QED BY <2>1, <2>2, <2>3, <2>4, NoneOrOne, HostSends
<1>4. CASE KeyRepeatProc
  <2> DEFINE k == Last(rep)
             codes == <<Break(k), Make(k)>>
  <2>1. /\ repeat /\ rep # <<>> /\ SendCodes(codes)
        /\ synced' = (synced /\ Len(buf) + 2 <= BufMax)
        /\ UNCHANGED <<host, ctr, data, rxrdy, control, irq, serving, seen>>
    BY <1>4 DEF KeyRepeatProc
  <2>2. rep \in Seq(Keys) /\ buf \in Seq(Codes) /\ synced \in BOOLEAN BY <1>0 DEF TypeOK
  <2>3. k \in ToSet(rep) /\ k \in Keys
    <3>1. Len(rep) \in 1 .. Len(rep) BY <2>1, <2>2
    <3> QED BY <2>2, <3>1 DEF Last, ToSet
  <2>4. /\ <<Break(k)>> \in Seq(Codes) /\ <<Make(k)>> \in Seq(Codes)
        /\ codes = <<Break(k)>> \o <<Make(k)>> /\ codes \in Seq(Codes) /\ Len(codes) = 2
    <3>1. Break(k) \in Codes /\ Make(k) \in Codes BY <2>3 DEF Break, Make, Codes
    <3> HIDE DEF k
    <3> QED BY <3>1
  <2> HIDE DEF codes, k
  <2>5. /\ buf' \in Seq(Codes) /\ Len(buf') <= BufMax
        /\ overrun' \in BOOLEAN /\ armed' \in BOOLEAN
        /\ Len(buf \o codes) <= BufMax => buf' = buf \o codes
    BY <1>0, <2>1, <2>4, SendCodesFacts
  <2>6. TypeOK' BY <1>0, <2>1, <2>2, <2>5 DEF TypeOK, control, host
  <2>7. Pressed' = Pressed /\ ToSet(rep)' = ToSet(rep) BY <2>1 DEF host, Pressed
  <2>8. ASSUME synced'
        PROVE  ToBeSeen' \ Lamps = Pressed' \ Lamps /\ ToSet(rep)' \subseteq Pressed'
    <3>1. ToBeSeen \ Lamps = Pressed \ Lamps /\ ToSet(rep) \subseteq Pressed
      BY <2>1, <2>8 DEF KeyInv, NoKeySticks
    <3>2. buf' = buf \o codes
      <4>1. Len(buf \o codes) = Len(buf) + 2 BY <2>2, <2>4
      <4> QED BY <2>1, <2>5, <2>8, <4>1
    <3>3. ToBeSeen' = After(ToBeSeen, codes) BY <1>0, <2>1, <2>4, <3>2, ToBeSeenGrows
    <3>4. After(ToBeSeen, codes) = After(After(ToBeSeen, <<Break(k)>>), <<Make(k)>>)
      BY <2>4, AfterConcat
    <3>5. ToBeSeen \in SUBSET Keys BY <1>0, ToBeSeenTypes
    <3>6. Break(k) \in Codes /\ Make(k) \in Codes BY <2>3 DEF Break, Make, Codes
    <3>7. /\ After(ToBeSeen, <<Break(k)>>) = ToBeSeen \ {k}
          /\ ToBeSeen \ {k} \in SUBSET Keys
      BY <3>5, <3>6, AfterOne DEF Told, Break
    <3>8. After(ToBeSeen \ {k}, <<Make(k)>>) = (ToBeSeen \ {k}) \cup {k}
      BY <3>6, <3>7, AfterOne DEF Told, Make
    <3> QED BY <2>3, <2>7, <3>1, <3>3, <3>4, <3>7, <3>8
  <2>9. RepeatsOnly' BY <2>7 DEF KeyInv, RepeatsOnly
  <2> QED BY <2>6, <2>8, <2>9 DEF KeyInv, NoKeySticks
<1>5. CASE ToggleRepeat
  <2>1. /\ repeat' = ~repeat /\ synced' = (synced /\ rep = <<>>)
        /\ UNCHANGED <<ref, rep, queues, port, control, irq, serving, seen>>
    BY <1>5 DEF ToggleRepeat
  <2>2. repeat' \in BOOLEAN /\ synced' \in BOOLEAN BY <1>0, <2>1 DEF TypeOK
  <2>3. TypeOK' BY <1>0, <2>1, <2>2 DEF TypeOK, queues, port, control
  <2>4. Pressed' = Pressed /\ ToBeSeen' = ToBeSeen
    BY <2>1 DEF Pressed, ToBeSeen, InFlight, queues, port
  <2>5. rep' = rep BY <2>1
  <2>6. ToSet(<<>>) = {} BY DEF ToSet
  <2>7. synced' => synced /\ ToSet(rep') = {} BY <2>1, <2>5, <2>6
  <2> QED BY <2>1, <2>3, <2>4, <2>5, <2>7 DEF KeyInv, NoKeySticks, RepeatsOnly
<1> QED BY <1>1, <1>2, <1>3, <1>4, <1>5 DEF HostActs

\* The event moves a byte from a ring to the port.
LEMMA EventKeeps ==
  ASSUME KeyInv, KeyboardCallback, UNCHANGED setup
  PROVE  KeyInv'
<1>1. /\ UNCHANGED <<host, overrun, control, serving, history>>
      /\ ctr \in Seq(Answers) /\ Len(ctr) < CtrMax /\ CtrMax \in Nat
      /\ buf \in Seq(Codes) /\ Len(buf) <= BufMax /\ BufMax \in Nat
  BY KeyFacts DEF KeyboardCallback, KeyInv, TypeOK
<1>2. TypeOK /\ TypeOK' /\ ToBeSeen' = ToBeSeen
  <2>1. TypeOK BY DEF KeyInv
  <2>2. CASE ~rxrdy /\ ctr # <<>>
    <3>1. /\ ctr \o buf # <<>> /\ Head(ctr \o buf) = Head(ctr)
          /\ Head(ctr) \in Answers /\ Tail(ctr) \in Seq(Answers)
          /\ Len(Tail(ctr)) < CtrMax
      <4>1. /\ ctr = <<Head(ctr)>> \o Tail(ctr) /\ Head(ctr) \in Answers
            /\ Tail(ctr) \in Seq(Answers) /\ Len(Tail(ctr)) = Len(ctr) - 1
        BY <1>1, <2>2
      <4>2. /\ Len(ctr \o buf) = Len(ctr) + Len(buf) /\ Len(ctr) # 0
            /\ Len(ctr) \in Nat /\ Len(buf) \in Nat
        BY <1>1, <2>2
      <4>3. (ctr \o buf)[1] = ctr[1] BY <1>1, <4>2
      <4>4. ctr \o buf # <<>> BY <4>2
      <4>5. Head(ctr \o buf) = Head(ctr) BY <4>3, <4>4, <2>2
      <4> QED BY <1>1, <4>1, <4>2, <4>4, <4>5
    <3>2. /\ rxrdy' = TRUE /\ data' = Head(ctr) /\ ctr' = Tail(ctr) /\ buf' = buf
          /\ irq' = TRUE /\ armed' = armed
      BY <2>2, <3>1 DEF KeyboardCallback
    <3>3. TypeOK' BY <1>1, <2>1, <3>1, <3>2 DEF TypeOK, host, control, history
    <3>4. ToBeSeen' = ToBeSeen
      BY <1>1, <2>1, <2>2, <3>1, <3>2, ToBeSeenTaken DEF history
    <3> QED BY <2>1, <3>3, <3>4
  <2>3. CASE ~rxrdy /\ ctr = <<>> /\ buf # <<>>
    <3>1. ctr \o buf = buf BY <1>1, <2>3
    <3>2. /\ Head(buf) \in Codes /\ Tail(buf) \in Seq(Codes) /\ Len(Tail(buf)) <= BufMax
      BY <1>1, <2>3
    <3>3. /\ rxrdy' = TRUE /\ data' = Head(buf) /\ buf' = Tail(buf) /\ ctr' = ctr
          /\ irq' = TRUE /\ armed' = armed
      BY <2>3, <3>1 DEF KeyboardCallback
    <3>4. TypeOK' BY <1>1, <2>1, <3>2, <3>3 DEF TypeOK, host, control, history
    <3>5. ToBeSeen' = ToBeSeen
      BY <1>1, <2>1, <2>3, <3>3, ToBeSeenTaken DEF history
    <3> QED BY <2>1, <3>4, <3>5
  <2>4. CASE rxrdy \/ (ctr = <<>> /\ buf = <<>>)
    <3>1. UNCHANGED <<ctr, buf, data, rxrdy>> /\ irq' \in BOOLEAN /\ armed' \in BOOLEAN
      <4>1. rxrdy \in BOOLEAN /\ irq \in BOOLEAN /\ armed \in BOOLEAN BY <2>1 DEF TypeOK
      <4>2. CASE ctr \o buf = <<>> BY <4>1, <4>2 DEF KeyboardCallback
      <4>3. CASE ctr \o buf # <<>> /\ rxrdy BY <4>1, <4>3 DEF KeyboardCallback
      <4>4. <<>> \o <<>> = <<>> OBVIOUS
      <4> QED BY <2>4, <4>2, <4>3, <4>4
    <3>2. TypeOK' BY <1>1, <2>1, <3>1 DEF TypeOK, host, control, history
    <3>3. ToBeSeen' = ToBeSeen BY <1>1, <3>1 DEF ToBeSeen, InFlight, history
    <3> QED BY <2>1, <3>2, <3>3
  <2> QED BY <2>2, <2>3, <2>4
<1>3. ref' = ref /\ rep' = rep /\ repeat' = repeat /\ synced' = synced /\ Pressed' = Pressed
  BY <1>1 DEF host, history, Pressed
<1> QED BY <1>2, <1>3 DEF KeyInv, NoKeySticks, RepeatsOnly

\* The answers to commands and parameters.
LEMMA AnswerLists ==
  ASSUME NEW answers \in {<<>>, <<"fa">>, <<"fc">>, <<"fa", "lamps">>,
                          <<"fa", "a0", "83">>, <<"fa", "a0", "80">>}
  PROVE  /\ answers \in Seq({"fa", "fc", "a0", "80", "83", "lamps"})
         /\ Len(answers) <= 3
<1> DEFINE A == {"fa", "fc", "a0", "80", "83", "lamps"}
<1>1. \A a, b, c \in A : /\ <<a>> \in Seq(A) /\ Len(<<a>>) = 1
                         /\ <<a, b>> \in Seq(A) /\ Len(<<a, b>>) = 2
                         /\ <<a, b, c>> \in Seq(A) /\ Len(<<a, b, c>>) = 3
  <2> HIDE DEF A
  <2> QED OBVIOUS
<1>2. <<>> \in Seq(A) /\ Len(<<>>) = 0 OBVIOUS
<1>3. "fa" \in A /\ "fc" \in A /\ "a0" \in A /\ "80" \in A /\ "83" \in A /\ "lamps" \in A
  OBVIOUS
<1> HIDE DEF A
<1>4. 0 <= 3 /\ 1 <= 3 /\ 2 <= 3 /\ 3 <= 3 OBVIOUS
<1>5. CASE answers = <<>> BY <1>2, <1>4, <1>5
<1>6. CASE answers = <<"fa">> BY <1>1, <1>3, <1>4, <1>6
<1>7. CASE answers = <<"fc">> BY <1>1, <1>3, <1>4, <1>7
<1>8. CASE answers = <<"fa", "lamps">> BY <1>1, <1>3, <1>4, <1>8
<1>9. CASE answers = <<"fa", "a0", "83">> BY <1>1, <1>3, <1>4, <1>9
<1>10. CASE answers = <<"fa", "a0", "80">> BY <1>1, <1>3, <1>4, <1>10
<1> QED BY <1>5, <1>6, <1>7, <1>8, <1>9, <1>10 DEF A

\* A command is answered by three bytes at most.
LEMMA AnswersFacts ==
  ASSUME TypeOK, NEW answers \in Seq({"fa", "fc", "a0", "80", "83", "lamps"}),
         Len(answers) <= 3, SendAnswers(answers)
  PROVE  ctr' \in Seq(Answers) /\ Len(ctr') < CtrMax /\ armed' \in BOOLEAN
<1> DEFINE q == [i \in DOMAIN answers |-> Answer(answers[i])]
<1>1. ctr \in Seq(Answers) /\ Len(ctr) < CtrMax /\ CtrMax \in Nat /\ 3 < CtrMax
  BY KeyFacts DEF TypeOK
<1>2. \A i \in DOMAIN answers : Answer(answers[i]) \in Answers BY DEF Answer, Answers
<1>3. DOMAIN answers = 1 .. Len(answers) /\ Len(answers) \in Nat OBVIOUS
<1>4. q \in Seq(Answers) /\ Len(q) = Len(answers) BY <1>2, <1>3
<1>5. ctr' = IF answers = <<>> THEN ctr ELSE Fitting(q, CtrMax) BY DEF SendAnswers
<1> HIDE DEF q
<1>6. Len(q) <= CtrMax BY <1>1, <1>3, <1>4
<1>7. Fitting(q, CtrMax) = q BY <1>1, <1>4, <1>6, FittingFacts
<1>8. Len(q) < CtrMax BY <1>1, <1>3, <1>4
<1>9. armed' \in BOOLEAN BY DEF SendAnswers
<1> QED BY <1>1, <1>4, <1>5, <1>7, <1>8, <1>9

\* A reset of the keyboard sends the keys that are held.
LEMMA ResetSignalFacts ==
  ASSUME TypeOK, ResetSignal, ref' = ref
  PROVE  /\ ctr' = <<>> /\ rep' = <<>> /\ param' = "none"
         /\ buf' \in Seq(Codes) /\ Len(buf') <= BufMax
         /\ armed' \in BOOLEAN /\ rxrdy' = FALSE /\ overrun' = FALSE /\ synced' = TRUE
         /\ seen' = {} /\ ToBeSeen' = Pressed'
<1>1. Pressed \in SUBSET Keys /\ {} \in SUBSET Keys BY DEF Pressed
<1>2. /\ Resent \in Seq(Codes) /\ Len(Resent) = Cardinality(Pressed)
      /\ After({}, Resent) = {} \cup Pressed
  BY <1>1, MakesFacts DEF Resent
<1>3. Len(Resent) <= BufMax
  <2>1. Cardinality(Pressed) <= Cardinality(Keys) BY <1>1, KeyFacts, FS_Subset
  <2>2. Cardinality(Pressed) \in Nat /\ Cardinality(Keys) \in Nat
    BY <1>1, KeyFacts, FS_Subset, FS_CardinalityType
  <2> QED BY <1>2, <2>1, <2>2, KeyFacts
<1>4. Pressed' = Pressed BY DEF Pressed
<1>5. ToBeSeen' = After({}, Resent) BY DEF ResetSignal, ToBeSeen, InFlight
<1> QED BY <1>2, <1>3, <1>4, <1>5 DEF ResetSignal

LEMMA GuestKeeps ==
  ASSUME KeyInv, GuestCommands \/ GuestReads, UNCHANGED setup
  PROVE  KeyInv'
<1>0. TypeOK /\ NoKeySticks /\ RepeatsOnly BY DEF KeyInv
<1>1. ASSUME UNCHANGED <<ref, rep, repeat, buf, data, rxrdy, seen, synced>>, TypeOK'
      PROVE  KeyInv'
  <2>1. Pressed' = Pressed /\ ToBeSeen' = ToBeSeen BY <1>1 DEF Pressed, ToBeSeen, InFlight
  <2> QED BY <1>0, <1>1, <2>1 DEF KeyInv, NoKeySticks, RepeatsOnly
<1>2. ASSUME NEW dat \in setup.commands, Command(dat) PROVE KeyInv'
  <2> DEFINE answers == CASE dat \in {"95", "9c", "9d"} -> <<"fa">>
                          [] dat = "96" -> <<"fa", "a0", "83">>
                          [] dat = "9f" -> <<"fa", "a0", "80">>
                          [] OTHER -> <<"fc">>
  <2>1. /\ param' = IF dat \in {"95", "9c", "9d"} THEN dat ELSE "none"
        /\ SendAnswers(answers)
        /\ UNCHANGED <<host, buf, port, stop, txe, rst, irq, serving, history>>
    BY <1>2 DEF Command
  <2>2. answers \in {<<"fa">>, <<"fc">>, <<"fa", "a0", "83">>, <<"fa", "a0", "80">>}
    OBVIOUS
  <2> HIDE DEF answers
  <2>3. /\ answers \in Seq({"fa", "fc", "a0", "80", "83", "lamps"})
        /\ Len(answers) <= 3
    BY <2>2, AnswerLists
  <2>4. ctr' \in Seq(Answers) /\ Len(ctr') < CtrMax /\ armed' \in BOOLEAN
    BY <1>0, <2>1, <2>3, AnswersFacts
  <2>5. param' \in {"none", "95", "9c", "9d"} BY <2>1
  <2>6. TypeOK' BY <1>0, <2>1, <2>4, <2>5 DEF TypeOK, host, port, history
  <2> QED BY <1>1, <2>1, <2>6 DEF host, port, history
<1>3. ASSUME NEW dat \in setup.commands, Parameter(dat) PROVE KeyInv'
  <2> DEFINE answers == CASE param # "9d" \/ dat \in {"70", "7c"} -> <<"fa">>
                          [] param = "9d" /\ dat = "60" -> <<"fa", "lamps">>
                          [] OTHER -> <<>>
             sets == param = "9d" /\ dat \in {"70", "7c"}
  <2>1. /\ param' = "none"
        /\ stop' = IF param = "9c" THEN dat = "70" ELSE stop
        /\ ref' = IF sets
                    THEN [k \in Keys |-> IF k \notin Lamps THEN ref[k]
                                         ELSE IF dat = "7c" THEN "uPD8255" ELSE NC]
                    ELSE ref
        /\ SendAnswers(answers)
        /\ UNCHANGED <<repeat, rep, buf, port, txe, rst, irq, serving, history>>
    BY <1>3 DEF Parameter
  <2>2. answers \in {<<"fa">>, <<"fa", "lamps">>, <<>>} OBVIOUS
  <2> HIDE DEF answers
  <2>3. /\ answers \in Seq({"fa", "fc", "a0", "80", "83", "lamps"})
        /\ Len(answers) <= 3
    BY <2>2, AnswerLists
  <2>4. ctr' \in Seq(Answers) /\ Len(ctr') < CtrMax /\ armed' \in BOOLEAN
    BY <1>0, <2>1, <2>3, AnswersFacts
  <2>5. ref' \in [Keys -> Hosts \cup {"uPD8255", NC}] /\ stop' \in BOOLEAN
    <3>1. ref \in [Keys -> Hosts \cup {"uPD8255", NC}] /\ stop \in BOOLEAN
      BY <1>0 DEF TypeOK
    <3> HIDE DEF sets
    <3> QED BY <2>1, <3>1
  <2>6. TypeOK' BY <1>0, <2>1, <2>4, <2>5 DEF TypeOK, port, history
  <2>7. \A k \in Keys \ Lamps : ref'[k] = ref[k] BY <2>1
  <2>8. Pressed' \ Lamps = Pressed \ Lamps BY <2>7 DEF Pressed
  <2>9. ToBeSeen' = ToBeSeen BY <2>1 DEF ToBeSeen, InFlight, port, history
  <2>10. ToSet(rep) \cap Lamps = {} BY <1>0, KeyFacts DEF RepeatsOnly
  <2>11. ToSet(rep') = ToSet(rep) /\ repeat' = repeat /\ synced' = synced
    BY <2>1 DEF history
  <2> QED BY <1>0, <2>6, <2>8, <2>9, <2>10, <2>11 DEF KeyInv, NoKeySticks, RepeatsOnly
<1>4. ASSUME NEW enable \in BOOLEAN, NEW reset \in BOOLEAN, NEW clear \in BOOLEAN,
             OutCommand(enable, reset, clear)
      PROVE  KeyInv'
  <2>1. /\ txe' = enable /\ rst' = reset
        /\ UNCHANGED <<ref, repeat, data, stop, irq, serving>>
    BY <1>4 DEF OutCommand
  <2>2. CASE rst /\ ~reset
    <3>1. ResetSignal BY <1>4, <2>2 DEF OutCommand
    <3>2. /\ ctr' = <<>> /\ rep' = <<>> /\ param' = "none"
          /\ buf' \in Seq(Codes) /\ Len(buf') <= BufMax
          /\ armed' \in BOOLEAN /\ rxrdy' = FALSE /\ overrun' = FALSE /\ synced' = TRUE
          /\ seen' = {} /\ ToBeSeen' = Pressed'
      BY <1>0, <2>1, <3>1, ResetSignalFacts
    <3>3. /\ <<>> \in Seq(Keys) /\ <<>> \in Seq(Answers) /\ Len(<<>>) = 0
          /\ ToSet(<<>>) = {}
      BY DEF ToSet
    <3>4. /\ rep' \in Seq(Keys) /\ Len(rep') <= RepMax
          /\ ctr' \in Seq(Answers) /\ Len(ctr') < CtrMax
      BY <3>2, <3>3, KeyFacts
    <3>5. TypeOK' BY <1>0, <2>1, <3>2, <3>4 DEF TypeOK
    <3>6. ToSet(rep') = {} BY <3>2, <3>3
    <3> QED BY <3>2, <3>5, <3>6 DEF KeyInv, NoKeySticks, RepeatsOnly
  <2>3. CASE ~(rst /\ ~reset)
    <3>1. /\ overrun' = (overrun /\ ~clear)
          /\ UNCHANGED <<queues, rxrdy, param, rep, history>>
      BY <1>4, <2>3 DEF OutCommand
    <3>2. overrun' \in BOOLEAN BY <3>1
    <3>3. TypeOK' BY <1>0, <2>1, <3>1, <3>2 DEF TypeOK, queues, history
    <3> QED BY <1>1, <2>1, <3>1, <3>3 DEF queues, history
  <2> QED BY <2>2, <2>3
<1>5. CASE Deliver
  <2>1. TypeOK' BY <1>0, <1>5 DEF Deliver, TypeOK, host, queues, port, control, history
  <2> QED BY <1>1, <1>5, <2>1 DEF Deliver, host, queues, port, history
<1>6. CASE ReadData
  <2>1. /\ rxrdy /\ rxrdy' = FALSE /\ irq' = FALSE /\ serving' = FALSE
        /\ seen' = Told(seen, data)
        /\ UNCHANGED <<host, queues, data, overrun, control, synced>>
    BY <1>6 DEF ReadData
  <2>2. ToBeSeen' = ToBeSeen /\ seen' \subseteq Keys
    BY <1>0, <2>1, ToBeSeenRead DEF queues
  <2>3. TypeOK' BY <1>0, <2>1, <2>2 DEF TypeOK, host, queues, control
  <2>4. UNCHANGED <<ref, rep, repeat, synced>> /\ Pressed' = Pressed
    BY <2>1 DEF host, Pressed
  <2> QED BY <1>0, <2>2, <2>3, <2>4 DEF KeyInv, NoKeySticks, RepeatsOnly
<1>7. CASE HandlerReturns
  <2>1. TypeOK' BY <1>0, <1>7 DEF HandlerReturns, TypeOK, host, queues, port, control, history
  <2> QED BY <1>1, <1>7, <2>1 DEF HandlerReturns, host, queues, port, history
<1> QED BY <1>2, <1>3, <1>4, <1>5, <1>6, <1>7 DEF GuestCommands, GuestReads

LEMMA MachineResetKeeps ==
  ASSUME KeyInv, MachineReset, UNCHANGED setup
  PROVE  KeyInv'
<1>0. TypeOK BY DEF KeyInv
<1>1. ctr' = <<>> /\ buf' = <<>> /\ rep' = rep /\ repeat' = repeat BY DEF MachineReset
<1>2. /\ <<>> \in Seq(Answers) /\ <<>> \in Seq(Codes) /\ Len(<<>>) = 0
      /\ ToSet(<<>>) = {}
  BY DEF ToSet
<1>3. /\ ctr' \in Seq(Answers) /\ Len(ctr') < CtrMax
      /\ buf' \in Seq(Codes) /\ Len(buf') <= BufMax
  BY <1>1, <1>2, KeyFacts
<1>4. /\ ref' \in [Keys -> Hosts \cup {"uPD8255", NC}]
      /\ param' \in {"none", "95", "9c", "9d"} /\ seen' \subseteq Keys
      /\ data' \in Codes \cup Answers \cup {<<"none", "ff">>}
  BY DEF MachineReset
<1>5. {stop', repeat', rxrdy', overrun', txe', rst', armed', irq', serving', synced'}
        \subseteq BOOLEAN
  BY <1>0 DEF MachineReset, TypeOK
<1>6. TypeOK' BY <1>0, <1>1, <1>3, <1>4, <1>5 DEF TypeOK
<1>7. ToBeSeen' = {} /\ Pressed' = {}
  <2>1. ToBeSeen' = After({}, <<>>) BY DEF MachineReset, ToBeSeen, InFlight
  <2>2. After({}, <<>>) = {} BY AfterEmpty
  <2> QED BY <2>1, <2>2 DEF MachineReset, Pressed
<1>8. synced' => rep = <<>> BY DEF MachineReset
<1>9. synced' => ToSet(rep') = {} BY <1>1, <1>2, <1>8
<1>10. RepeatsOnly' BY <1>1 DEF KeyInv, RepeatsOnly
<1> QED BY <1>6, <1>7, <1>9, <1>10 DEF KeyInv, NoKeySticks

-----------------------------------------------------------------------------
(***************************************************************************)
(* Theorems.                                                               *)
(***************************************************************************)

LEMMA InductiveStep ==
  KeyInv /\ [Next /\ UNCHANGED setup]_<<vars, setup>> => KeyInv'
<1> SUFFICES ASSUME KeyInv, [Next /\ UNCHANGED setup]_<<vars, setup>>
             PROVE  KeyInv'
  OBVIOUS
<1>1. CASE UNCHANGED <<vars, setup>>
  <2>1. UNCHANGED <<ref, stop, param, repeat, rep, ctr, buf, data, rxrdy, overrun, txe,
                    rst, armed, irq, serving, seen, synced, setup>>
    BY <1>1 DEF vars, host, queues, port, control, history
  <2>2. TypeOK' BY <2>1 DEF KeyInv, TypeOK
  <2>3. Pressed' = Pressed /\ ToBeSeen' = ToBeSeen BY <2>1 DEF Pressed, ToBeSeen, InFlight
  <2> QED BY <2>1, <2>2, <2>3 DEF KeyInv, NoKeySticks, RepeatsOnly
<1>2. CASE Next /\ UNCHANGED setup
  BY <1>2, HostKeeps, GuestKeeps, EventKeeps, MachineResetKeeps DEF Next
<1> QED BY <1>1, <1>2

\* The inductive invariant of the keyboard.
THEOREM KeyboardInvariant == Spec => []KeyInv
BY InitKeyInv, InductiveStep, PTL DEF Spec

\* The rings of keybrd and keystat keep their sizes: three answers at most wait
\* for the guest, which the ring has room for.
THEOREM TypeCorrect == Spec => []TypeOK
BY KeyboardInvariant, PTL DEF KeyInv

\* Whatever the user does with the keys, and the guest with the keyboard, no key sticks
\* and none is lost unless a ring overflowed (keystat_keydown, keystat_keyup,
\* keystat_allrelease, keyrepeat_proc, keyboard_resetsignal).
THEOREM NoKeyEverSticks == Spec => []NoKeySticks
BY KeyboardInvariant, PTL DEF KeyInv

\* An interrupt without a byte comes from a reset of the keyboard only: keyboard_i41
\* takes the request back with the byte.
THEOREM InterruptsBringBytes == Spec => NoSpuriousInterrupt
<1>1. ASSUME [Next /\ UNCHANGED setup]_<<vars, setup>>
      PROVE  [irq' /\ ~rxrdy' => irq /\ (~rxrdy \/ (rst /\ ~rst'))]_vars
  <2> SUFFICES ASSUME irq', ~rxrdy', Next
               PROVE  irq /\ (~rxrdy \/ (rst /\ ~rst'))
    BY <1>1
  <2>0. ASSUME irq' = irq, rxrdy' = rxrdy PROVE irq /\ ~rxrdy
    <3>1. irq' /\ ~rxrdy' OBVIOUS
    <3> QED BY <2>0, <3>1, Zenon
  <2>1. CASE HostActs
    <3>1. irq' = irq /\ rxrdy' = rxrdy
      BY <2>1 DEF HostActs, KeyDown, KeyUp, AllRelease, KeyRepeatProc, ToggleRepeat, port
    <3> QED BY <2>0, <3>1
  <2>2. CASE GuestCommands
    <3>1. ASSUME NEW dat, Command(dat) \/ Parameter(dat)
          PROVE  irq /\ ~rxrdy
      <4>1. irq' = irq /\ rxrdy' = rxrdy BY <3>1 DEF Command, Parameter, port
      <4> QED BY <2>0, <4>1
    <3>2. ASSUME NEW enable, NEW reset, NEW clear, OutCommand(enable, reset, clear)
          PROVE  irq /\ (~rxrdy \/ (rst /\ ~rst'))
      BY <3>2 DEF OutCommand
    <3> QED BY <2>2, <3>1, <3>2 DEF GuestCommands
  <2>3. CASE GuestReads
    BY <2>3 DEF GuestReads, Deliver, ReadData, HandlerReturns, port
  <2>4. CASE KeyboardCallback BY <2>4 DEF KeyboardCallback
  <2>5. CASE MachineReset BY <2>5 DEF MachineReset
  <2> QED BY <2>1, <2>2, <2>3, <2>4, <2>5 DEF Next
<1> QED BY <1>1, PTL DEF Spec, NoSpuriousInterrupt
=============================================================================
