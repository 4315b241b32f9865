------------------------------- MODULE DataFacts -------------------------------
(***************************************************************************)
(* Facts about queues, numbers and finite sets that the proofs about the   *)
(* programs share.                                                         *)
(***************************************************************************)
EXTENDS Integers, Sequences, FiniteSets, FiniteSetTheorems, SequenceTheorems,
        WellFoundedInduction, TLAPS

-------------------------------------------------------------------------------
(* Queues *)

Contents(q) == {q[i] : i \in 1..Len(q)}

Newest(q) == q[Len(q)]

(* What taking from the front of a queue leaves in it. *)
LEMMA ContentsTail ==
  ASSUME NEW S, NEW q \in Seq(S), q # <<>>
  PROVE  /\ Head(q) \in S /\ Tail(q) \in Seq(S)
         /\ Len(Tail(q)) = Len(q) - 1
         /\ Contents(q) = {Head(q)} \cup Contents(Tail(q))
         /\ Tail(q) # <<>> => Newest(Tail(q)) = Newest(q)
         /\ Tail(q) = <<>> => Newest(q) = Head(q)
<1>1. /\ Len(q) \in Nat \ {0} /\ Head(q) = q[1] /\ Head(q) \in S
      /\ Tail(q) \in Seq(S) /\ Len(Tail(q)) = Len(q) - 1
      /\ \A i \in 1 .. Len(q) - 1 : Tail(q)[i] = q[i + 1]
  BY HeadTailProperties
<1>2. Contents(q) = {Head(q)} \cup Contents(Tail(q))
  <2>1. ASSUME NEW i \in 1..Len(q)
        PROVE  q[i] \in {Head(q)} \cup Contents(Tail(q))
    <3>1. CASE i = 1
      BY <1>1, <3>1
    <3>2. CASE i # 1
      <4>1. i - 1 \in 1..Len(Tail(q)) /\ Tail(q)[i - 1] = q[i]
        BY <1>1, <3>2
      <4>2. QED
        BY <4>1 DEF Contents
    <3>3. QED
      BY <3>1, <3>2
  <2>2. ASSUME NEW i \in 1..Len(Tail(q))
        PROVE  Tail(q)[i] \in Contents(q)
    <3>1. i + 1 \in 1..Len(q) /\ Tail(q)[i] = q[i + 1]
      BY <1>1
    <3>2. QED
      BY <3>1 DEF Contents
  <2>3. Head(q) \in Contents(q)
    BY <1>1 DEF Contents
  <2>4. QED
    BY <2>1, <2>2, <2>3 DEF Contents
<1>3. ASSUME Tail(q) # <<>> PROVE Newest(Tail(q)) = Newest(q)
  <2>1. Len(Tail(q)) # 0
    BY <1>1, <1>3, EmptySeq
  <2>2. QED
    BY <1>1, <2>1 DEF Newest
<1>4. ASSUME Tail(q) = <<>> PROVE Newest(q) = Head(q)
  <2>1. Len(<<>>) = Len(q) - 1
    BY <1>1, <1>4
  <2>2. 0 = Len(q) - 1
    BY <2>1
  <2>3. Len(q) \in Nat
    OBVIOUS
  <2>4. Len(q) = 1
    BY <2>2, <2>3
  <2>5. QED
    BY <1>1, <2>4 DEF Newest
<1>5. QED
  BY <1>1, <1>2, <1>3, <1>4

LEMMA ContentsAppend ==
  ASSUME NEW S, NEW q \in Seq(S), NEW e \in S
  PROVE  /\ Append(q, e) \in Seq(S) /\ Append(q, e) # <<>>
         /\ Contents(Append(q, e)) = Contents(q) \cup {e}
         /\ Newest(Append(q, e)) = e
<1>1. /\ Append(q, e) \in Seq(S) /\ Len(Append(q, e)) = Len(q) + 1
      /\ \A i \in 1..Len(q) : Append(q, e)[i] = q[i]
      /\ Append(q, e)[Len(q) + 1] = e
      /\ Len(q) \in Nat
  BY AppendProperties
<1>2. \A i : i \in 1 .. Len(q) + 1 <=> i \in 1..Len(q) \/ i = Len(q) + 1
  BY <1>1
<1>3. Contents(Append(q, e)) = Contents(q) \cup {e}
  BY <1>1, <1>2 DEF Contents
<1>4. QED
  BY <1>1, <1>3 DEF Newest

(* A repetition of what is in front. *)
LEMMA ContentsRepeat ==
  ASSUME NEW S, NEW q \in Seq(S), q # <<>>
  PROVE  /\ <<Head(q)>> \o q \in Seq(S) /\ <<Head(q)>> \o q # <<>>
         /\ Contents(<<Head(q)>> \o q) = Contents(q)
         /\ Newest(<<Head(q)>> \o q) = Newest(q)
<1> DEFINE r == <<Head(q)>> \o q
<1>1. /\ Len(q) \in Nat \ {0} /\ Head(q) \in S /\ Head(q) = q[1]
  BY HeadTailProperties
<1>2. <<Head(q)>> \in Seq(S) /\ Len(<<Head(q)>>) = 1
  BY <1>1
<1>3. /\ r \in Seq(S) /\ Len(r) = Len(q) + 1
      /\ r[1] = Head(q) /\ \A i \in 2 .. Len(q) + 1 : r[i] = q[i - 1]
  BY <1>1, <1>2, ConcatProperties
<1> HIDE DEF r
<1>4. Contents(r) = Contents(q)
  <2>1. ASSUME NEW i \in 1..Len(r) PROVE r[i] \in Contents(q)
    <3>1. CASE i = 1
      BY <1>1, <1>3, <3>1 DEF Contents
    <3>2. CASE i # 1
      <4>1. i - 1 \in 1..Len(q) /\ r[i] = q[i - 1]
        BY <1>1, <1>3, <3>2
      <4>2. QED
        BY <4>1 DEF Contents
    <3>3. QED
      BY <3>1, <3>2
  <2>2. ASSUME NEW i \in 1..Len(q) PROVE q[i] \in Contents(r)
    <3>1. i + 1 \in 1..Len(r) /\ r[i + 1] = q[i]
      BY <1>1, <1>3
    <3>2. QED
      BY <3>1 DEF Contents
  <2>3. QED
    BY <2>1, <2>2 DEF Contents
<1>5. Newest(r) = Newest(q)
  BY <1>1, <1>3 DEF Newest
<1>6. r # <<>>
  BY <1>1, <1>3
<1>7. QED
  BY <1>3, <1>4, <1>5, <1>6 DEF r

LEMMA ContentsEmpty == Contents(<<>>) = {}
BY DEF Contents

-------------------------------------------------------------------------------
(* Counting *)

(* A set that gains at most one element. *)
LEMMA OneMore ==
  ASSUME NEW S, IsFiniteSet(S), NEW T, NEW e, T \subseteq S \cup {e}
  PROVE  IsFiniteSet(T) /\ Cardinality(T) <= Cardinality(S) + 1
<1>0. /\ IsFiniteSet(S \cup {e})
      /\ Cardinality(S \cup {e}) =
           IF e \in S THEN Cardinality(S) ELSE Cardinality(S) + 1
  BY FS_AddElement
<1>1. /\ Cardinality(S \cup {e}) <= Cardinality(S) + 1
      /\ Cardinality(S \cup {e}) \in Nat /\ Cardinality(S) \in Nat
  BY <1>0, FS_CardinalityType
<1>2. IsFiniteSet(T) /\ Cardinality(T) <= Cardinality(S \cup {e})
  BY <1>0, FS_Subset
<1>3. QED
  BY <1>1, <1>2, FS_CardinalityType

(* How many of the numbers up to n have the value v, when n grows by one.  *)
CountTo(f, v, n) == Cardinality({i \in 1..n : f[i] = v})

LEMMA CountNext ==
  ASSUME NEW n \in Nat, NEW f, NEW v
  PROVE  /\ CountTo(f, v, n) \in Nat
         /\ CountTo(f, v, n + 1) =
              IF f[n + 1] = v THEN CountTo(f, v, n) + 1 ELSE CountTo(f, v, n)
<1> DEFINE S == {i \in 1..n : f[i] = v}
<1>1. IsFiniteSet(S) /\ n + 1 \notin S
  <2>1. IsFiniteSet(1..n) /\ S \subseteq 1..n
    BY FS_Interval
  <2>2. QED
    BY <2>1, FS_Subset
<1>2. {i \in 1 .. n + 1 : f[i] = v} = IF f[n + 1] = v THEN S \cup {n + 1} ELSE S
  OBVIOUS
<1>3. CountTo(f, v, n) = Cardinality(S)
  BY DEF CountTo
<1>4. CountTo(f, v, n + 1) =
        IF f[n + 1] = v THEN Cardinality(S \cup {n + 1}) ELSE Cardinality(S)
  BY <1>2 DEF CountTo
<1> HIDE DEF S
<1>5. Cardinality(S) \in Nat /\ Cardinality(S \cup {n + 1}) = Cardinality(S) + 1
  BY <1>1, FS_CardinalityType, FS_AddElement
<1>6. QED
  BY <1>3, <1>4, <1>5

-------------------------------------------------------------------------------
(* Induction.  The theorems of the library take an operator; these take a  *)
(* set, the numbers for which a formula holds.                             *)

LEMMA LeastNumber ==
  ASSUME NEW T \in SUBSET Nat, T # {}
  PROVE  \E m \in T : \A k \in T : m <= k
<1> DEFINE D == {0 .. k : k \in T}
<1>1. D \subseteq FiniteSubsetsOf(Nat)
  <2> SUFFICES ASSUME NEW k \in T PROVE 0 .. k \in FiniteSubsetsOf(Nat)
    OBVIOUS
  <2>1. IsFiniteSet(0 .. k)
    BY FS_Interval
  <2>2. QED
    BY <2>1 DEF FiniteSubsetsOf
<1>2. IsWellFoundedOn(StrictSubsetOrdering(Nat), FiniteSubsetsOf(Nat))
  BY FS_StrictSubsetOrderingWellFounded
<1>3. D # {}
  OBVIOUS
<1>4. PICK x \in D : \A y \in D : ~(<<y, x>> \in StrictSubsetOrdering(Nat))
  <2> HIDE DEF D
  <2> QED
    BY <1>1, <1>2, <1>3, WFMin
<1>5. PICK m \in T : x = 0 .. m
  BY <1>4
<1>6. ASSUME NEW k \in T PROVE m <= k
  <2>1. SUFFICES ASSUME k < m PROVE FALSE
    BY <1>5
  <2>2. 0 .. k \in D
    OBVIOUS
  <2>3. 0 .. k \subseteq 0 .. m /\ 0 .. k # 0 .. m
    BY <2>1
  <2>4. <<0 .. k, 0 .. m>> \in StrictSubsetOrdering(Nat)
    BY <2>3 DEF StrictSubsetOrdering
  <2>5. QED
    BY <2>2, <2>4, <1>4, <1>5
<1>7. QED
  BY <1>6

LEMMA Induction ==
  ASSUME NEW S, 0 \in S, \A n \in Nat : n \in S => n + 1 \in S
  PROVE  \A n \in Nat : n \in S
<1> SUFFICES ASSUME NEW n \in Nat, n \notin S PROVE FALSE
  OBVIOUS
<1>1. PICK m \in Nat \ S : \A k \in Nat \ S : m <= k
  BY LeastNumber
<1>2. m # 0 /\ m - 1 \in Nat /\ m - 1 \in S
  BY <1>1
<1>3. QED
  BY <1>1, <1>2

LEMMA InductionTo ==
  ASSUME NEW N \in Nat, NEW S, 0 \in S, \A n \in 1..N : n - 1 \in S => n \in S
  PROVE  \A n \in 0..N : n \in S
<1> DEFINE T == {n \in Nat : n <= N => n \in S}
<1>1. 0 \in T
  OBVIOUS
<1>2. ASSUME NEW n \in Nat, n \in T PROVE n + 1 \in T
  <2>1. SUFFICES ASSUME n + 1 <= N PROVE n + 1 \in S
    OBVIOUS
  <2>2. n \in S /\ n + 1 \in 1..N /\ (n + 1) - 1 = n
    BY <1>2, <2>1
  <2>3. QED
    BY <2>2
<1> HIDE DEF T
<1>3. \A n \in Nat : n \in T
  BY <1>1, <1>2, Induction
<1>4. QED
  BY <1>3 DEF T

(* A function on the numbers up to N can be defined by its first value and *)
(* its steps.                                                              *)
Unfolds(g, first, next, N) ==
  /\ g[0] = first
  /\ \A n \in 1..N : g[n] = next[n][g[n - 1]]

LEMMA Recursion ==
  ASSUME NEW S, NEW first \in S, NEW next \in [Nat -> [S -> S]]
  PROVE  \A N \in Nat : \E g \in [0..N -> S] : Unfolds(g, first, next, N)
<1> USE DEF Unfolds
<1> DEFINE T == {N \in Nat : \E g \in [0..N -> S] : Unfolds(g, first, next, N)}
<1>1. 0 \in T
  <2> DEFINE g == [n \in 0..0 |-> first]
  <2>1. g \in [0..0 -> S] /\ Unfolds(g, first, next, 0)
    OBVIOUS
  <2>2. QED
    BY <2>1
<1>2. ASSUME NEW N \in Nat, N \in T PROVE N + 1 \in T
  <2>1. PICK g \in [0..N -> S] : Unfolds(g, first, next, N)
    BY <1>2
  <2> DEFINE h == [n \in 0 .. N + 1 |->
                     IF n = N + 1 THEN next[N + 1][g[N]] ELSE g[n]]
  <2>2. \A n \in 0..N : h[n] = g[n]
    OBVIOUS
  <2>3. h[N + 1] = next[N + 1][g[N]] /\ h[N + 1] \in S
    <3>1. g[N] \in S /\ N + 1 \in Nat
      OBVIOUS
    <3>2. QED
      BY <3>1
  <2>4. DOMAIN h = 0 .. N + 1 /\ h = [n \in 0 .. N + 1 |-> h[n]]
    OBVIOUS
  <2> HIDE DEF h
  <2>5. h \in [0 .. N + 1 -> S]
    <3>1. ASSUME NEW n \in 0 .. N + 1 PROVE h[n] \in S
      <4>1. n \in 0..N \/ n = N + 1
        OBVIOUS
      <4>2. QED
        BY <2>2, <2>3, <4>1
    <3>2. QED
      BY <2>4, <3>1
  <2>6. h[0] = first
    BY <2>1, <2>2
  <2>7. ASSUME NEW n \in 1 .. N + 1 PROVE h[n] = next[n][h[n - 1]]
    <3>1. CASE n \in 1..N
      <4>1. n \in 0..N /\ n - 1 \in 0..N
        BY <3>1
      <4>2. h[n] = g[n] /\ h[n - 1] = g[n - 1]
        BY <2>2, <4>1
      <4>3. QED
        BY <2>1, <3>1, <4>2
    <3>2. CASE n = N + 1
      <4>1. n - 1 = N /\ N \in 0..N
        BY <3>2
      <4>2. QED
        BY <2>2, <2>3, <3>2, <4>1
    <3>3. QED
      BY <3>1, <3>2
  <2>8. QED
    BY <2>5, <2>6, <2>7
<1> HIDE DEF T
<1>3. \A N \in Nat : N \in T
  BY <1>1, <1>2, Induction
<1>4. QED
  BY <1>3 DEF T
================================================================================
