---------------------------- MODULE ChatInputProofs ----------------------------
(***************************************************************************)
(* What the HW4_ver2 client sends is a function of what was typed, for any *)
(* input, any size of its buffers and any way to cut the input into        *)
(* chunks.                                                                 *)
(***************************************************************************)
EXTENDS ChatInput, DataFacts

-------------------------------------------------------------------------------
(* The least and the greatest of some numbers                              *)

LEMMA Greatest ==
  ASSUME NEW N \in Nat, NEW S, S \subseteq 0..N, 0 \in S
  PROVE  \E m \in S : \A k \in S : k <= m
<1> DEFINE T == {n \in Nat : \A k \in S : k <= n}
<1>1. N \in T /\ T \in SUBSET Nat
  OBVIOUS
<1> HIDE DEF T
<1>2. PICK m \in T : \A k \in T : m <= k
  BY <1>1, LeastNumber
<1>3. m \in Nat /\ \A k \in S : k <= m
  BY DEF T
<1>4. ASSUME m \notin S PROVE FALSE
  <2>1. m - 1 \in Nat /\ \A k \in S : k <= m - 1
    BY <1>3, <1>4
  <2>2. m - 1 \in T
    BY <2>1 DEF T
  <2>3. QED
    BY <1>2, <1>3, <2>2
<1>5. QED
  BY <1>3, <1>4

LEMMA MinIs ==
  ASSUME NEW S, S \subseteq Nat, NEW m \in S, \A k \in S : m <= k
  PROVE  Min(S) = m
<1>1. Min(S) = CHOOSE x \in S : \A y \in S : x <= y
  BY DEF Min
<1>2. Min(S) \in S /\ \A y \in S : Min(S) <= y
  BY <1>1
<1>3. m <= Min(S) /\ Min(S) <= m /\ m \in Nat /\ Min(S) \in Nat
  BY <1>2
<1>4. QED
  BY <1>3

-------------------------------------------------------------------------------
(* The lines of a text and of the text with one byte more                  *)

LastBreak(text) ==
  CHOOSE j \in Breaks(text) \cup {0} : \A k \in Breaks(text) \cup {0} : k <= j

(* The bytes after the last break. *)
Current(text) == SubSeq(text, LastBreak(text) + 1, Len(text))

Line == {strip_newline(x) : x \in Seq(Byte)}

LEMMA OneByteMore ==
  ASSUME NEW text \in Seq(Byte), NEW b \in Byte
  PROVE  /\ Append(text, b) \in Seq(Byte)
         /\ Len(Append(text, b)) = Len(text) + 1 /\ Len(text) \in Nat
         /\ \A i \in 1..Len(text) : Append(text, b)[i] = text[i]
         /\ Append(text, b)[Len(text) + 1] = b
OBVIOUS

LEMMA LastBreakIs ==
  ASSUME NEW text \in Seq(Byte)
  PROVE  /\ LastBreak(text) \in Breaks(text) \cup {0}
         /\ \A k \in Breaks(text) \cup {0} : k <= LastBreak(text)
         /\ LastBreak(text) \in 0..Len(text)
<1> DEFINE S == Breaks(text) \cup {0}
<1>1. S \subseteq 0..Len(text) /\ 0 \in S /\ Len(text) \in Nat
  BY DEF Breaks
<1>2. LastBreak(text) = CHOOSE j \in S : \A k \in S : k <= j
  BY DEF LastBreak
<1> HIDE DEF S
<1>3. \E m \in S : \A k \in S : k <= m
  BY <1>1, Greatest
<1>4. LastBreak(text) \in S /\ \A k \in S : k <= LastBreak(text)
  BY <1>2, <1>3
<1>5. QED
  BY <1>1, <1>4 DEF S

LEMMA CurrentType ==
  ASSUME NEW text \in Seq(Byte)
  PROVE  /\ Current(text) \in Seq(Byte)
         /\ Len(Current(text)) = Len(text) - LastBreak(text)
BY LastBreakIs DEF Current

LEMMA BreaksMore ==
  ASSUME NEW text \in Seq(Byte), NEW b \in Byte
  PROVE  Breaks(Append(text, b)) =
           IF b = NL THEN Breaks(text) \cup {Len(text) + 1} ELSE Breaks(text)
<1>1. \A i \in 1 .. Len(text) + 1 : i \in 1..Len(text) \/ i = Len(text) + 1
  BY OneByteMore
<1>2. QED
  BY <1>1, OneByteMore DEF Breaks

LEMMA CurrentMore ==
  ASSUME NEW text \in Seq(Byte), NEW b \in Byte
  PROVE  Current(Append(text, b)) =
           IF b = NL THEN <<>> ELSE Append(Current(text), b)
<1> DEFINE t == Append(text, b)
<1>1. /\ t \in Seq(Byte) /\ Len(t) = Len(text) + 1 /\ Len(text) \in Nat
      /\ LastBreak(text) \in 0..Len(text)
  BY OneByteMore, LastBreakIs
<1>2. CASE b = NL
  <2>1. LastBreak(t) = Len(text) + 1
    <3>1. Len(text) + 1 \in Breaks(t)
      BY <1>2, BreaksMore
    <3>2. Len(text) + 1 <= LastBreak(t) /\ LastBreak(t) \in 0 .. Len(text) + 1
      BY <1>1, <3>1, LastBreakIs
    <3>3. QED
      BY <1>1, <3>2
  <2>2. QED
    BY <1>1, <1>2, <2>1 DEF Current
<1>3. CASE b # NL
  <2>1. LastBreak(t) = LastBreak(text)
    BY <1>3, BreaksMore DEF LastBreak
  <2>2. SubSeq(t, LastBreak(text) + 1, Len(text) + 1) =
          Append(SubSeq(text, LastBreak(text) + 1, Len(text)), b)
    BY <1>1
  <2>3. QED
    BY <1>1, <1>3, <2>1, <2>2 DEF Current
<1>4. QED
  BY <1>2, <1>3

(* A break ends the line it ended before. *)
LEMMA LineKept ==
  ASSUME NEW text \in Seq(Byte), NEW b \in Byte, NEW i \in 1..Len(text)
  PROVE  LineEnding(Append(text, b), i) = LineEnding(text, i)
<1> DEFINE t == Append(text, b)
           S == {j \in Breaks(text) : j < i} \cup {0}
           start == CHOOSE j \in S : \A k \in S : k <= j
<1>1. {j \in Breaks(t) : j < i} = {j \in Breaks(text) : j < i}
  BY BreaksMore, OneByteMore
<1>2. /\ LineEnding(t, i) = SubSeq(t, start + 1, i - 1)
      /\ LineEnding(text, i) = SubSeq(text, start + 1, i - 1)
  BY <1>1 DEF LineEnding
<1>3. S \subseteq 0..Len(text) /\ 0 \in S /\ Len(text) \in Nat
  BY DEF Breaks
<1> HIDE DEF S
<1>4. \E m \in S : \A k \in S : k <= m
  BY <1>3, Greatest
<1>5. start \in Nat
  <2>1. start \in S
    BY <1>4
  <2> HIDE DEF start
  <2>2. QED
    BY <1>3, <2>1
<1> HIDE DEF start
<1>6. SubSeq(t, start + 1, i - 1) = SubSeq(text, start + 1, i - 1)
  BY <1>3, <1>5
<1>7. QED
  BY <1>2, <1>6

LEMMA LineCompleted ==
  ASSUME NEW text \in Seq(Byte)
  PROVE  LineEnding(Append(text, NL), Len(text) + 1) = Current(text)
<1> DEFINE t == Append(text, NL)
<1>1. NL \in Byte
  BY InputAssumption
<1>2. {j \in Breaks(t) : j < Len(text) + 1} = Breaks(text)
  <2>1. Breaks(t) = Breaks(text) \cup {Len(text) + 1}
    BY <1>1, BreaksMore
  <2>2. \A j \in Breaks(text) : j < Len(text) + 1
    BY DEF Breaks
  <2>3. QED
    BY <2>1, <2>2
<1>3. LineEnding(t, Len(text) + 1) = SubSeq(t, LastBreak(text) + 1, (Len(text) + 1) - 1)
  BY <1>2 DEF LineEnding, LastBreak
<1>4. LastBreak(text) \in Nat /\ (Len(text) + 1) - 1 = Len(text)
  BY LastBreakIs
<1>5. SubSeq(t, LastBreak(text) + 1, Len(text)) = SubSeq(text, LastBreak(text) + 1, Len(text))
  BY <1>1, <1>4
<1>6. QED
  BY <1>3, <1>4, <1>5 DEF Current

Worth(line) == Len(line) <= MaxLine /\ strip_newline(line) # <<>>

LEMMA EndsMore ==
  ASSUME NEW text \in Seq(Byte), NEW b \in Byte
  PROVE  Ends(Append(text, b)) =
           IF b = NL /\ Worth(Current(text)) THEN Ends(text) \cup {Len(text) + 1}
           ELSE Ends(text)
<1> DEFINE t == Append(text, b)
<1>1. \A i \in Breaks(text) : Sendable(t, i) = Sendable(text, i)
  BY LineKept DEF Sendable, Breaks
<1>2. b = NL => (Sendable(t, Len(text) + 1) <=> Worth(Current(text)))
  BY LineCompleted DEF Sendable, Worth
<1>3. Breaks(t) = IF b = NL THEN Breaks(text) \cup {Len(text) + 1} ELSE Breaks(text)
  BY BreaksMore
<1>4. QED
  BY <1>1, <1>2, <1>3 DEF Ends

LEMMA EndsFinite ==
  ASSUME NEW text \in Seq(Byte)
  PROVE  /\ Ends(text) \subseteq 1..Len(text) /\ IsFiniteSet(Ends(text))
         /\ Cardinality(Ends(text)) \in Nat /\ Len(text) \in Nat
<1>1. Ends(text) \subseteq 1..Len(text) /\ Len(text) \in Nat
  BY DEF Ends, Breaks
<1>2. IsFiniteSet(1..Len(text))
  BY <1>1, FS_Interval
<1>3. QED
  BY <1>1, <1>2, FS_Subset, FS_CardinalityType

(* The members of a set keep their places when a greater one is added.     *)
LEMMA NthMore ==
  ASSUME NEW N \in Nat, NEW S, S \subseteq 1..N, NEW M \in Nat, N < M
  PROVE  LET T == S \cup {M}
         IN  /\ Cardinality(T) = Cardinality(S) + 1 /\ Cardinality(S) \in Nat
             /\ \A n \in 1..Cardinality(S) : Nth(T, n) = Nth(S, n)
             /\ Nth(T, Cardinality(S) + 1) = M
<1> DEFINE T == S \cup {M}
           Upto(A, i) == {j \in A : j <= i}
<1>1. IsFiniteSet(1..N)
  BY FS_Interval
<1>2. IsFiniteSet(S) /\ Cardinality(S) \in Nat /\ M \notin S
  <2>1. M \notin S
    OBVIOUS
  <2>2. IsFiniteSet(S)
    BY <1>1, FS_Subset
  <2>3. QED
    BY <2>1, <2>2, FS_CardinalityType
<1>3. Cardinality(T) = Cardinality(S) + 1
  BY <1>2, FS_AddElement
<1>4. \A i \in S : Upto(T, i) = Upto(S, i)
  OBVIOUS
<1>5. Upto(T, M) = T
  <2>1. \A j \in T : j <= M
    OBVIOUS
  <2>2. QED
    BY <2>1
<1>6. \A i \in S : Cardinality(Upto(S, i)) <= Cardinality(S)
  <2>1. \A i \in S : Upto(S, i) \subseteq S
    OBVIOUS
  <2> HIDE DEF Upto
  <2>2. QED
    BY <1>2, <2>1, FS_Subset
<1>7. \A A, n : Nth(A, n) = CHOOSE i \in A : Cardinality(Upto(A, i)) = n
  BY DEF Nth
<1>8. \A i \in S : Cardinality(Upto(S, i)) \in Nat
  <2>1. \A i \in S : Upto(S, i) \subseteq S
    OBVIOUS
  <2> HIDE DEF Upto
  <2>2. QED
    BY <1>2, <2>1, FS_Subset, FS_CardinalityType
<1> HIDE DEF Upto
<1>9. ASSUME NEW n \in 1..Cardinality(S) PROVE Nth(T, n) = Nth(S, n)
  <2>1. \A i : (i \in T /\ Cardinality(Upto(T, i)) = n)
               <=> (i \in S /\ Cardinality(Upto(S, i)) = n)
    <3>1. Cardinality(Upto(T, M)) # n
      <4>1. Cardinality(Upto(T, M)) = Cardinality(S) + 1
        BY <1>3, <1>5
      <4>2. n <= Cardinality(S) /\ n \in Int
        BY <1>2
      <4>3. QED
        BY <1>2, <4>1, <4>2
    <3>2. QED
      BY <1>4, <3>1
  <2>2. QED
    BY <1>7, <2>1
<1>10. Nth(T, Cardinality(S) + 1) = M
  <2>1. \A i \in T : Cardinality(Upto(T, i)) = Cardinality(S) + 1 <=> i = M
    BY <1>2, <1>3, <1>4, <1>5, <1>6, <1>8
  <2>2. QED
    BY <1>7, <2>1
<1>11. QED
  BY <1>2, <1>3, <1>9, <1>10

(* Each number up to the size of a set is the place of a member: the least *)
(* one that as many members do not exceed.                                 *)
LEMMA NthIn ==
  ASSUME NEW N \in Nat, NEW S, S \subseteq 1..N
  PROVE  \A n \in 1..Cardinality(S) : Nth(S, n) \in S
<1> DEFINE U(i) == {j \in S : j <= i}
<1> SUFFICES ASSUME NEW n \in 1..Cardinality(S) PROVE Nth(S, n) \in S
  OBVIOUS
<1>1. IsFiniteSet(S) /\ Cardinality(S) \in Nat
  <2>1. IsFiniteSet(1..N)
    BY FS_Interval
  <2>2. IsFiniteSet(S)
    BY <2>1, FS_Subset
  <2>3. QED
    BY <2>2, FS_CardinalityType
<1>2. \A i : U(i) \subseteq S
  OBVIOUS
<1>3. U(0) = {} /\ U(N) = S
  <2>1. \A j \in S : ~(j <= 0) /\ j <= N
    OBVIOUS
  <2>2. QED
    BY <2>1
<1>4. \A i \in Nat \ {0} : U(i) = IF i \in S THEN U(i - 1) \cup {i} ELSE U(i - 1)
  <2> SUFFICES ASSUME NEW i \in Nat \ {0}
               PROVE  U(i) = IF i \in S THEN U(i - 1) \cup {i} ELSE U(i - 1)
    OBVIOUS
  <2>1. \A j \in S : j <= i <=> j <= i - 1 \/ j = i
    OBVIOUS
  <2>2. QED
    BY <2>1
<1>5. \A i \in Nat \ {0} : i \notin U(i - 1)
  OBVIOUS
<1>6. Nth(S, n) = CHOOSE i \in S : Cardinality(U(i)) = n
  BY DEF Nth
<1> HIDE DEF U
<1>7. \A i : IsFiniteSet(U(i)) /\ Cardinality(U(i)) \in Nat
  BY <1>1, <1>2, FS_Subset, FS_CardinalityType
<1>8. \A i \in Nat \ {0} :
        Cardinality(U(i)) = IF i \in S THEN Cardinality(U(i - 1)) + 1
                            ELSE Cardinality(U(i - 1))
  BY <1>4, <1>5, <1>7, FS_AddElement
<1> DEFINE T == {i \in Nat : n <= Cardinality(U(i))}
<1>9. N \in T /\ T \in SUBSET Nat
  BY <1>1, <1>3
<1> HIDE DEF T
<1>10. PICK i \in T : \A k \in T : i <= k
  BY <1>9, LeastNumber
<1>11. i \in Nat /\ n <= Cardinality(U(i))
  BY <1>10 DEF T
<1>12. i # 0
  <2>1. Cardinality(U(0)) = 0
    BY <1>3, FS_EmptySet
  <2>2. QED
    BY <1>1, <1>11, <2>1
<1>13. i - 1 \in Nat /\ i - 1 \notin T
  BY <1>10, <1>11, <1>12
<1>14. Cardinality(U(i - 1)) < n
  BY <1>1, <1>7, <1>13 DEF T
<1>15. i \in S /\ Cardinality(U(i)) = n
  BY <1>1, <1>7, <1>8, <1>11, <1>12, <1>14
<1>16. QED
  BY <1>6, <1>15

(* A break that ends a line worth sending adds it, and no other byte adds  *)
(* one.                                                                    *)
LEMMA LinesAre ==
  ASSUME NEW text \in Seq(Byte)
  PROVE  AllLines(text) \in Seq({AllLines(text)[n] : n \in DOMAIN AllLines(text)})
<1>1. /\ Cardinality(Ends(text)) \in Nat
      /\ DOMAIN AllLines(text) = 1..Cardinality(Ends(text))
  BY EndsFinite DEF AllLines
<1>2. AllLines(text) = [n \in DOMAIN AllLines(text) |-> AllLines(text)[n]]
  BY DEF AllLines
<1> DEFINE f == AllLines(text)
<1> HIDE DEF f
<1>3. QED
  BY <1>1, <1>2 DEF f

LEMMA LinesMore ==
  ASSUME NEW text \in Seq(Byte), NEW b \in Byte
  PROVE  AllLines(Append(text, b)) =
           IF b = NL /\ Worth(Current(text))
             THEN Append(AllLines(text), strip_newline(Current(text)))
             ELSE AllLines(text)
<1> DEFINE t == Append(text, b)
           L(x, i) == strip_newline(LineEnding(x, i))
           S == Ends(text)
           M == Len(text) + 1
<1>1. /\ \A n \in 1..Len(text) : L(t, n) = L(text, n)
      /\ b = NL => L(t, M) = strip_newline(Current(text))
  BY LineKept, LineCompleted
<1>2. /\ AllLines(t) = [n \in 1..Cardinality(Ends(t)) |-> L(t, Nth(Ends(t), n))]
      /\ AllLines(text) = [n \in 1..Cardinality(S) |-> L(text, Nth(S, n))]
  BY DEF AllLines
<1>3. /\ S \subseteq 1..Len(text) /\ Len(text) \in Nat /\ Cardinality(S) \in Nat
      /\ M \in Nat /\ Len(text) < M
  BY EndsFinite
<1>4. Ends(t) = IF b = NL /\ Worth(Current(text)) THEN S \cup {M} ELSE S
  BY EndsMore
<1> HIDE DEF L, t, S, M
<1>5. \A n \in 1..Cardinality(S) : Nth(S, n) \in 1..Len(text)
  BY <1>3, NthIn
<1>6. CASE ~(b = NL /\ Worth(Current(text)))
  BY <1>1, <1>2, <1>4, <1>5, <1>6 DEF t
<1>7. CASE b = NL /\ Worth(Current(text))
  <2> DEFINE C == Cardinality(S)
             x == strip_newline(Current(text))
             f == AllLines(text)
  <2>1. /\ Cardinality(S \cup {M}) = C + 1 /\ C \in Nat
        /\ \A n \in 1..C : Nth(S \cup {M}, n) = Nth(S, n)
        /\ Nth(S \cup {M}, C + 1) = M
    BY <1>3, NthMore
  <2>2. /\ AllLines(t) = [n \in 1 .. C + 1 |-> L(t, Nth(S \cup {M}, n))]
        /\ f = [n \in 1..C |-> L(text, Nth(S, n))]
    BY <1>2, <1>4, <1>7, <2>1
  <2> HIDE DEF C, x, f
  <2>3. ASSUME NEW n \in 1..C PROVE AllLines(t)[n] = f[n]
    <3>0. Nth(S \cup {M}, n) = Nth(S, n)
      BY <2>1
    <3>1. n \in 1 .. C + 1
      BY <2>1
    <3>2. Nth(S, n) \in 1..Len(text)
      BY <1>5, <2>3 DEF C
    <3>3. AllLines(t)[n] = L(t, Nth(S, n)) /\ f[n] = L(text, Nth(S, n))
      BY <2>2, <3>0, <3>1
    <3>4. QED
      BY <1>1, <3>2, <3>3
  <2>4. AllLines(t)[C + 1] = x
    BY <1>1, <1>7, <2>1, <2>2 DEF x
  <2>5. f \in Seq({f[n] : n \in DOMAIN f}) /\ Len(f) = C
    BY <2>1, <2>2, LinesAre DEF f
  <2> DEFINE T == {f[n] : n \in DOMAIN f} \cup {x}
  <2>6. /\ Append(f, x) \in [1 .. C + 1 -> T]
        /\ \A n \in 1..C : Append(f, x)[n] = f[n]
        /\ Append(f, x)[C + 1] = x
    <3>1. f \in Seq(T) /\ x \in T
      BY <2>5
    <3> HIDE DEF T
    <3>2. C \in Nat /\ Len(f) = C
      BY <2>1, <2>5
    <3> HIDE DEF C
    <3>3. /\ Append(f, x) \in Seq(T) /\ Len(Append(f, x)) = Len(f) + 1
          /\ \A n \in 1..Len(f) : Append(f, x)[n] = f[n]
          /\ Append(f, x)[Len(f) + 1] = x
      BY <3>1
    <3>4. Append(f, x) \in [1..Len(Append(f, x)) -> T]
      BY <3>3, LenProperties
    <3>5. QED
      BY <3>2, <3>3, <3>4
  <2>7. AllLines(t) = Append(f, x)
    <3>1. \A n \in 1 .. C + 1 : n \in 1..C \/ n = C + 1
      BY <2>1
    <3>2. \A n \in 1 .. C + 1 : AllLines(t)[n] = Append(f, x)[n]
      BY <2>3, <2>4, <2>6, <3>1
    <3> HIDE DEF T
    <3>3. Append(f, x) = [n \in 1 .. C + 1 |-> Append(f, x)[n]]
      BY <2>6
    <3>4. AllLines(t) = [n \in 1 .. C + 1 |-> AllLines(t)[n]]
      BY <2>2
    <3>5. QED
      BY <3>2, <3>3, <3>4
  <2>8. QED
    BY <1>7, <2>7 DEF f, x, t
<1>8. QED
  BY <1>6, <1>7

-------------------------------------------------------------------------------
(* Up to the first exit token                                              *)

HasExit(s) == \E n \in 1..Len(s) : is_exit_token(s[n])

LEMMA NoExit ==
  ASSUME NEW T, NEW s \in Seq(T), ~HasExit(s)
  PROVE  UpToExit(s) = s
BY DEF HasExit, UpToExit

LEMMA FirstExit ==
  ASSUME NEW T, NEW s \in Seq(T), HasExit(s)
  PROVE  \E m \in 1..Len(s) :
           /\ UpToExit(s) = SubSeq(s, 1, m) /\ is_exit_token(s[m])
           /\ \A n \in 1..Len(s) : is_exit_token(s[n]) => m <= n
<1> DEFINE S == {n \in 1..Len(s) : is_exit_token(s[n])}
<1>1. S # {} /\ S \in SUBSET Nat
  BY DEF HasExit
<1>2. UpToExit(s) = SubSeq(s, 1, Min(S))
  BY <1>1 DEF UpToExit
<1>3. PICK m \in S : \A k \in S : m <= k
  <2> HIDE DEF S
  <2>1. QED
    BY <1>1, LeastNumber
<1>4. Min(S) = m
  <2> HIDE DEF S
  <2>1. QED
    BY <1>1, <1>3, MinIs
<1>5. QED
  BY <1>2, <1>3, <1>4

LEMMA ExitsLast ==
  ASSUME NEW T, NEW s \in Seq(T), HasExit(s)
  PROVE  UpToExit(s) # <<>> /\ is_exit_token(Last(UpToExit(s)))
<1>1. PICK m \in 1..Len(s) : UpToExit(s) = SubSeq(s, 1, m) /\ is_exit_token(s[m])
  BY FirstExit
<1>2. Len(SubSeq(s, 1, m)) = m /\ SubSeq(s, 1, m)[m] = s[m]
  OBVIOUS
<1>3. QED
  BY <1>1, <1>2 DEF Last

(* What comes after an exit token does not count.                          *)
LEMMA AfterExit ==
  ASSUME NEW T, NEW s \in Seq(T), NEW x \in T, HasExit(s)
  PROVE  UpToExit(Append(s, x)) = UpToExit(s) /\ HasExit(Append(s, x))
<1> DEFINE t == Append(s, x)
<1>1. PICK m \in 1..Len(s) :
        /\ UpToExit(s) = SubSeq(s, 1, m) /\ is_exit_token(s[m])
        /\ \A n \in 1..Len(s) : is_exit_token(s[n]) => m <= n
  BY FirstExit
<1>2. /\ t \in Seq(T) /\ Len(t) = Len(s) + 1 /\ Len(s) \in Nat
      /\ \A n \in 1..Len(s) : t[n] = s[n]
  OBVIOUS
<1>3. HasExit(t)
  BY <1>1, <1>2 DEF HasExit
<1>4. PICK k \in 1..Len(t) :
        /\ UpToExit(t) = SubSeq(t, 1, k) /\ is_exit_token(t[k])
        /\ \A n \in 1..Len(t) : is_exit_token(t[n]) => k <= n
  BY <1>2, <1>3, FirstExit
<1>5. k = m
  <2>1. m \in 1..Len(t) /\ is_exit_token(t[m])
    BY <1>1, <1>2
  <2>2. k <= m
    BY <1>4, <2>1
  <2>3. k \in 1..Len(s) /\ is_exit_token(s[k])
    BY <1>2, <1>4, <2>2
  <2>4. QED
    BY <1>1, <2>2, <2>3
<1>6. SubSeq(t, 1, m) = SubSeq(s, 1, m)
  OBVIOUS
<1>7. QED
  BY <1>1, <1>3, <1>4, <1>5, <1>6

LEMMA NewExit ==
  ASSUME NEW T, NEW s \in Seq(T), NEW x \in T, ~HasExit(s)
  PROVE  /\ HasExit(Append(s, x)) <=> is_exit_token(x)
         /\ UpToExit(Append(s, x)) = Append(s, x)
<1> DEFINE t == Append(s, x)
<1>1. /\ t \in Seq(T) /\ Len(t) = Len(s) + 1 /\ Len(s) \in Nat
      /\ \A n \in 1..Len(s) : t[n] = s[n]
      /\ t[Len(s) + 1] = x
  OBVIOUS
<1> HIDE DEF t
<1>2. \A n \in 1..Len(t) : is_exit_token(t[n]) => n = Len(t) /\ is_exit_token(x)
  BY <1>1 DEF HasExit
<1>3. HasExit(t) <=> is_exit_token(x)
  BY <1>1, <1>2 DEF HasExit
<1>4. UpToExit(t) = t
  <2>1. CASE ~HasExit(t)
    BY <1>1, <2>1, NoExit
  <2>2. CASE HasExit(t)
    <3>1. PICK m \in 1..Len(t) : UpToExit(t) = SubSeq(t, 1, m) /\ is_exit_token(t[m])
      BY <1>1, <2>2, FirstExit
    <3>2. m = Len(t)
      BY <1>2, <3>1
    <3>3. SubSeq(t, 1, Len(t)) = t
      BY <1>1
    <3>4. QED
      BY <3>1, <3>2, <3>3
  <2>3. QED
    BY <2>1, <2>2
<1>5. QED
  BY <1>3, <1>4 DEF t

-------------------------------------------------------------------------------
(* The loop over the bytes of a chunk                                      *)

LoopState ==
  [inbuf : Seq(Byte), discarding : BOOLEAN, sent : Seq(Line), over : BOOLEAN]

(* The line being collected is too long for the buffer. *)
Long(text) == Len(Current(text)) > MaxLine

(* What the variables st of the loop hold once it has seen the text.       *)
Collects(text, st) ==
  /\ st \in LoopState
  /\ st.over => st.sent = UpToExit(AllLines(text)) /\ HasExit(AllLines(text))
  /\ ~st.over =>
       /\ st.sent = AllLines(text) /\ ~HasExit(AllLines(text))
       /\ st.discarding <=> Long(text)
       /\ st.inbuf = IF st.discarding THEN <<>> ELSE Current(text)

LEMMA KeepCollects ==
  ASSUME NEW text \in Seq(Byte), NEW b \in Byte \ {NL}, NEW st,
         Collects(text, st), ~st.over
  PROVE  Collects(Append(text, b), Keep(st, b))
<1> DEFINE t == Append(text, b)
<1>1. AllLines(t) = AllLines(text)
  BY LinesMore
<1>2. /\ Current(t) = Append(Current(text), b)
      /\ Current(text) \in Seq(Byte)
  BY CurrentMore, CurrentType
<1>3. Len(Current(t)) = Len(Current(text)) + 1 /\ Len(Current(text)) \in Nat
  BY <1>2
<1>4. st \in LoopState /\ MaxLine \in Nat
  BY InputAssumption DEF Collects
<1>5. /\ st.sent = AllLines(text) /\ ~HasExit(AllLines(text))
      /\ st.discarding <=> Long(text)
      /\ st.inbuf = IF st.discarding THEN <<>> ELSE Current(text)
  BY DEF Collects
<1> HIDE DEF t
<1>6. CASE st.discarding
  <2>1. Keep(st, b) = st
    BY <1>6 DEF Keep
  <2>2. Long(t)
    BY <1>3, <1>4, <1>5, <1>6 DEF Long
  <2>3. QED
    BY <1>1, <1>4, <1>5, <1>6, <2>1, <2>2 DEF Collects, t
<1>7. CASE ~st.discarding /\ Len(st.inbuf) < MaxLine
  <2> DEFINE more == Append(st.inbuf, b)
             new == [st EXCEPT !.inbuf = more]
  <2>1. Keep(st, b) = new
    BY <1>7 DEF Keep
  <2>2. more = Current(t) /\ more \in Seq(Byte)
    BY <1>2, <1>5, <1>7
  <2>3. ~Long(t)
    BY <1>2, <1>3, <1>4, <1>5, <1>7 DEF Long
  <2> HIDE DEF more
  <2>4. /\ new \in LoopState
        /\ new.inbuf = more /\ new.discarding = st.discarding
        /\ new.sent = st.sent /\ new.over = st.over
    BY <1>4, <2>2 DEF LoopState
  <2> HIDE DEF new
  <2>5. QED
    BY <1>1, <1>5, <1>7, <2>1, <2>2, <2>3, <2>4 DEF Collects, t
<1>8. CASE ~st.discarding /\ ~(Len(st.inbuf) < MaxLine)
  <2> DEFINE new == [st EXCEPT !.discarding = TRUE, !.inbuf = <<>>]
  <2>1. Keep(st, b) = new
    BY <1>8 DEF Keep
  <2>2. Long(t)
    BY <1>2, <1>3, <1>4, <1>5, <1>8 DEF Long
  <2>3. /\ new \in LoopState
        /\ new.inbuf = <<>> /\ new.discarding = TRUE
        /\ new.sent = st.sent /\ new.over = st.over
    BY <1>4, EmptySeq DEF LoopState
  <2> HIDE DEF new
  <2>4. QED
    BY <1>1, <1>5, <2>1, <2>2, <2>3 DEF Collects, t
<1>9. QED
  BY <1>6, <1>7, <1>8

LEMMA EndCollects ==
  ASSUME NEW text \in Seq(Byte), NEW st, Collects(text, st), ~st.over
  PROVE  Collects(Append(text, NL), EndLine(st))
<1> DEFINE t == Append(text, NL)
           line == strip_newline(st.inbuf)
           next == [st EXCEPT !.discarding = FALSE, !.inbuf = <<>>]
<1>1. NL \in Byte /\ MaxLine \in Nat
  BY InputAssumption
<1>2. /\ Current(t) = <<>>
      /\ Current(text) \in Seq(Byte)
  BY <1>1, CurrentMore, CurrentType
<1>3. Len(Current(text)) \in Nat /\ ~Long(t)
  BY <1>1, <1>2 DEF Long
<1>4. /\ st \in LoopState /\ st.sent = AllLines(text) /\ ~HasExit(AllLines(text))
      /\ st.discarding <=> Long(text)
      /\ ~st.discarding => st.inbuf = Current(text)
  BY DEF Collects
<1>5. st.sent \in Seq(Line) /\ line \in Line
  BY <1>4 DEF LoopState, Line
<1>6. /\ next \in LoopState /\ next.inbuf = <<>> /\ next.discarding = FALSE
      /\ next.sent = st.sent /\ next.over = st.over
  BY <1>4, EmptySeq DEF LoopState
<1>7. AllLines(t) = IF Worth(Current(text)) THEN Append(AllLines(text), strip_newline(Current(text)))
                    ELSE AllLines(text)
  BY <1>1, LinesMore
<1>8. Worth(Current(text)) <=> ~st.discarding /\ line # <<>>
  BY <1>1, <1>3, <1>4 DEF Worth, Long
<1>9. EndLine(st) = IF st.discarding \/ line = <<>> THEN next
                    ELSE [next EXCEPT !.sent = Append(@, line), !.over = is_exit_token(line)]
  BY DEF EndLine
<1> HIDE DEF next, t
<1>10. CASE st.discarding \/ line = <<>>
  <2>1. EndLine(st) = next /\ AllLines(t) = AllLines(text)
    BY <1>7, <1>8, <1>9, <1>10
  <2>2. QED
    BY <1>2, <1>3, <1>4, <1>6, <2>1 DEF Collects, t
<1>11. CASE ~st.discarding /\ line # <<>>
  <2> DEFINE s == Append(st.sent, line)
             new == [next EXCEPT !.sent = s, !.over = is_exit_token(line)]
  <2>1. EndLine(st) = new
    BY <1>6, <1>9, <1>11
  <2>2. s \in Seq(Line) /\ is_exit_token(line) \in BOOLEAN
    BY <1>5 DEF is_exit_token
  <2>3. AllLines(t) = s
    BY <1>4, <1>7, <1>8, <1>11
  <2>4. (HasExit(s) <=> is_exit_token(line)) /\ UpToExit(s) = s
    BY <1>4, <1>5, NewExit
  <2> HIDE DEF s
  <2>5. /\ new \in LoopState
        /\ new.inbuf = <<>> /\ new.discarding = FALSE
        /\ new.sent = s /\ new.over = is_exit_token(line)
    <3> DEFINE o == is_exit_token(line)
    <3>1. o \in BOOLEAN
      BY <2>2
    <3> HIDE DEF o
    <3>2. QED
      BY <1>6, <2>2, <3>1 DEF LoopState, o
  <2> HIDE DEF new
  <2>6. QED
    BY <1>2, <1>3, <2>1, <2>3, <2>4, <2>5 DEF Collects, t
<1>12. QED
  BY <1>10, <1>11

LEMMA LoopCollects ==
  ASSUME NEW text \in Seq(Byte), NEW b \in Byte, NEW st, Collects(text, st)
  PROVE  Collects(Append(text, b), Loop(st, b))
<1>1. CASE st.over
  <2> DEFINE f == AllLines(text)
             T == {f[n] : n \in DOMAIN f} \cup {strip_newline(Current(text))}
  <2>1. f \in Seq(T) /\ strip_newline(Current(text)) \in T
    <3>1. f \in Seq({f[n] : n \in DOMAIN f})
      BY LinesAre
    <3>2. QED
      BY <3>1
  <2>2. AllLines(Append(text, b)) \in {f, Append(f, strip_newline(Current(text)))}
    BY LinesMore
  <2> HIDE DEF f, T
  <2>3. HasExit(f) /\ st.sent = UpToExit(f) /\ st \in LoopState
    BY <1>1 DEF Collects, f
  <2>4. /\ UpToExit(AllLines(Append(text, b))) = UpToExit(f)
        /\ HasExit(AllLines(Append(text, b)))
    <3>1. CASE AllLines(Append(text, b)) = f
      BY <2>3, <3>1
    <3>2. CASE AllLines(Append(text, b)) = Append(f, strip_newline(Current(text)))
      BY <2>1, <2>3, <3>2, AfterExit
    <3>3. QED
      BY <2>2, <3>1, <3>2
  <2>5. Loop(st, b) = st
    BY <1>1 DEF Loop
  <2>6. QED
    BY <1>1, <2>3, <2>4, <2>5 DEF Collects
<1>2. CASE ~st.over /\ b = NL
  BY <1>2, EndCollects DEF Loop
<1>3. CASE ~st.over /\ b # NL
  BY <1>3, KeepCollects DEF Loop
<1>4. QED
  BY <1>1, <1>2, <1>3

LEMMA KeepType ==
  ASSUME NEW st \in LoopState, NEW b \in Byte PROVE Keep(st, b) \in LoopState
<1>1. Append(st.inbuf, b) \in Seq(Byte)
  BY DEF LoopState
<1>2. QED
  BY <1>1, EmptySeq DEF Keep, LoopState

LEMMA LoopType ==
  ASSUME NEW st \in LoopState, NEW b \in Byte PROVE Loop(st, b) \in LoopState
<1>1. /\ strip_newline(st.inbuf) \in Line
      /\ Append(st.sent, strip_newline(st.inbuf)) \in Seq(Line)
  BY DEF LoopState, Line
<1>2. EndLine(st) \in LoopState
  <2> DEFINE line == strip_newline(st.inbuf)
             next == [st EXCEPT !.discarding = FALSE, !.inbuf = <<>>]
  <2>1. next \in LoopState /\ next.sent = st.sent
    BY EmptySeq DEF LoopState
  <2>2. EndLine(st) = IF st.discarding \/ line = <<>> THEN next
                      ELSE [next EXCEPT !.sent = Append(@, line), !.over = is_exit_token(line)]
    BY DEF EndLine
  <2>3. is_exit_token(line) \in BOOLEAN
    BY DEF is_exit_token
  <2> HIDE DEF next, line
  <2>4. Append(next.sent, line) \in Seq(Line)
    BY <1>1, <2>1 DEF line
  <2>5. QED
    BY <2>1, <2>2, <2>3, <2>4 DEF LoopState
<1>3. QED
  BY <1>2, KeepType DEF Loop

(* The loop over the next bytes of the input brings the collection there.  *)
LEMMA ChunkCollects ==
  ASSUME NEW text \in Seq(Byte), NEW c \in 0..Len(text), NEW n \in Nat, c + n <= Len(text),
         NEW st, Collects(SubSeq(text, 1, c), st)
  PROVE  Collects(SubSeq(text, 1, c + n), After(st, SubSeq(text, c + 1, c + n)))
<1> DEFINE s == SubSeq(text, c + 1, c + n)
           N == Len(s)
           S == LoopState
           Body(g) == [i \in 0..N |-> IF i = 0 THEN st ELSE Loop(g[i - 1], s[i])]
           f == CHOOSE g : g = Body(g)
<1>1. N = n /\ \A i \in 1..n : s[i] = text[c + i] /\ s[i] \in Byte
  OBVIOUS
<1>2. st \in S
  BY DEF Collects
<1>3. \A x \in S, i \in 1..n : Loop(x, s[i]) \in S
  BY <1>1, LoopType
<1>4. After(st, s) = f[N]
  BY DEF After
<1> HIDE DEF N, S, s
<1>5. \E g : g = Body(g)
  <2> DEFINE next == [i \in Nat |-> [x \in S |-> IF i \in 1..n THEN Loop(x, s[i]) ELSE x]]
  <2>1. next \in [Nat -> [S -> S]]
    BY <1>3
  <2>2. \A x \in S, i \in 1..n : next[i][x] = Loop(x, s[i])
    OBVIOUS
  <2> HIDE DEF next
  <2>3. PICK g \in [0..n -> S] : Unfolds(g, st, next, n)
    BY <1>2, <2>1, Recursion
  <2>4. ASSUME NEW i \in 1..n PROVE g[i] = Loop(g[i - 1], s[i])
    <3>1. i - 1 \in 0..n
      OBVIOUS
    <3>2. QED
      BY <2>2, <2>3, <3>1 DEF Unfolds
  <2>5. ASSUME NEW i \in 0..n PROVE g[i] = IF i = 0 THEN st ELSE Loop(g[i - 1], s[i])
    BY <2>3, <2>4 DEF Unfolds
  <2>6. g = Body(g)
    BY <1>1, <2>3, <2>5
  <2>7. QED
    BY <2>6
<1>6. f = Body(f)
  BY <1>5
<1> HIDE DEF f
<1>7. \A i \in 0..N : f[i] = Body(f)[i]
  BY <1>6, Zenon
<1>8. \A i \in 0..n : f[i] = IF i = 0 THEN st ELSE Loop(f[i - 1], s[i])
  BY <1>1, <1>7
<1> DEFINE R == {i \in 0..n : Collects(SubSeq(text, 1, c + i), f[i])}
<1>9. 0 \in R
  BY <1>8
<1>10. ASSUME NEW i \in 1..n, i - 1 \in R PROVE i \in R
  <2> DEFINE p == SubSeq(text, 1, c + (i - 1))
  <2>1. p \in Seq(Byte) /\ SubSeq(text, 1, c + i) = Append(p, text[c + i])
    OBVIOUS
  <2>2. Collects(p, f[i - 1]) /\ f[i] = Loop(f[i - 1], text[c + i]) /\ text[c + i] \in Byte
    BY <1>1, <1>8, <1>10
  <2> HIDE DEF p
  <2>3. Collects(Append(p, text[c + i]), f[i])
    BY <2>1, <2>2, LoopCollects
  <2>4. Collects(SubSeq(text, 1, c + i), f[i])
    BY <2>1, <2>3, Zenon
  <2>5. QED
    BY <2>4
<1> HIDE DEF R
<1>11. \A i \in 0..n : i \in R
  BY <1>9, <1>10, InductionTo
<1>12. QED
  BY <1>1, <1>4, <1>11 DEF R, s

-------------------------------------------------------------------------------
(* The client                                                              *)

Variables ==
  [inbuf |-> inbuf, discarding |-> discarding, sent |-> sent, over |-> over]

(* While the client is there, it has collected what was read.              *)
InputInv ==
  /\ input \in Seq(Byte)
  /\ consumed \in 0..Len(input)
  /\ ~over => Collects(SubSeq(input, 1, consumed), Variables)
  /\ SentIsTyped

(* The lines of a text are due when they have been collected.              *)
Collected ==
  /\ input \in Seq(Byte) /\ consumed \in 0..Len(input) /\ over \in BOOLEAN
  /\ Collects(SubSeq(input, 1, consumed), Variables)

LEMMA CollectedIsDue == Collected => SentIsTyped
<1> SUFFICES ASSUME Collected PROVE SentIsTyped
  OBVIOUS
<1> DEFINE f == AllLines(SubSeq(input, 1, consumed))
           T == {f[n] : n \in DOMAIN f}
<1>1. SubSeq(input, 1, consumed) \in Seq(Byte)
  BY DEF Collected
<1>2. f \in Seq(T)
  BY <1>1, LinesAre
<1>3. /\ over => sent = UpToExit(f) /\ HasExit(f)
      /\ ~over => sent = f /\ ~HasExit(f)
      /\ over \in BOOLEAN
  BY DEF Collected, Collects, Variables
<1>4. SentIsTyped <=>
        sent = IF over /\ ~(UpToExit(f) # <<>> /\ is_exit_token(Last(UpToExit(f))))
                 THEN Append(UpToExit(f), <<At>>) ELSE UpToExit(f)
  BY DEF SentIsTyped
<1> HIDE DEF f, T
<1>5. CASE over
  BY <1>2, <1>3, <1>4, <1>5, ExitsLast
<1>6. CASE ~over
  BY <1>2, <1>3, <1>4, <1>6, NoExit
<1>7. QED
  BY <1>5, <1>6

LEMMA InputInit == Init => InputInv
<1> SUFFICES ASSUME Init PROVE InputInv
  OBVIOUS
<1>1. input \in Seq(Byte) /\ consumed = 0 /\ consumed \in 0..Len(input)
  BY InputAssumption DEF Init, BoundedSeq, SeqOf
<1>2. SubSeq(input, 1, consumed) = <<>>
  BY <1>1
<1> DEFINE e == <<>>
<1>3. e \in Seq(Byte) /\ Len(e) = 0
  BY EmptySeq
<1>4. Breaks(e) = {}
  BY <1>3 DEF Breaks
<1>5. AllLines(e) = <<>> /\ ~HasExit(AllLines(e))
  <2>1. Ends(e) = {} /\ Cardinality(Ends(e)) = 0
    BY <1>4, FS_EmptySet DEF Ends
  <2>2. AllLines(e) = <<>>
    BY <2>1 DEF AllLines
  <2>3. QED
    BY <2>2 DEF HasExit
<1>6. /\ Variables = [inbuf |-> <<>>, discarding |-> FALSE, sent |-> <<>>, over |-> FALSE]
      /\ over = FALSE
  BY DEF Init, Variables
<1>7. Variables \in LoopState
  BY <1>6, EmptySeq DEF LoopState
<1> HIDE DEF e
<1>8. Current(e) \in Seq(Byte) /\ Len(Current(e)) = 0
  <2>1. LastBreak(e) = 0
    BY <1>3, <1>4, LastBreakIs
  <2>2. QED
    <3>1. Current(e) \in Seq(Byte) /\ Len(Current(e)) = Len(e) - LastBreak(e)
      BY <1>3, CurrentType
    <3>2. QED
      BY <1>3, <2>1, <3>1
<1>9. Current(e) = <<>> /\ ~Long(e)
  BY <1>8, InputAssumption DEF Long
<1>10. Collects(e, Variables)
  BY <1>5, <1>6, <1>7, <1>9 DEF Collects
<1>11. Collected
  BY <1>1, <1>2, <1>6, <1>10 DEF Collected, e
<1>12. QED
  BY <1>11, CollectedIsDue DEF InputInv, Collected

LEMMA InputStep == InputInv /\ [Next]_vars => InputInv'
<1> SUFFICES ASSUME InputInv, [Next]_vars PROVE InputInv'
  OBVIOUS
<1>1. input \in Seq(Byte) /\ consumed \in 0..Len(input)
  BY DEF InputInv
<1>2. ASSUME NEW n \in 1..MaxChunk, Read(n) PROVE InputInv'
  <2>1. /\ ~over /\ n \in Nat /\ consumed + n <= Len(input)
        /\ consumed' = consumed + n /\ input' = input
    BY <1>2, InputAssumption DEF Read
  <2>2. Collects(SubSeq(input, 1, consumed), Variables)
    BY <2>1 DEF InputInv
  <2>3. AfterChunk(n) = After(Variables, SubSeq(input, consumed + 1, consumed + n))
    BY DEF AfterChunk, Variables, Chunk
  <2>4. Collects(SubSeq(input, 1, consumed + n), AfterChunk(n))
    BY <1>1, <2>1, <2>2, <2>3, ChunkCollects
  <2>5. AfterChunk(n) \in LoopState
    BY <2>4 DEF Collects
  <2>6. Variables' = AfterChunk(n) /\ over' \in BOOLEAN
    <3>1. Variables' = [inbuf |-> AfterChunk(n).inbuf, discarding |-> AfterChunk(n).discarding,
                        sent |-> AfterChunk(n).sent, over |-> AfterChunk(n).over]
      BY <1>2 DEF Read, Variables
    <3>2. over' = AfterChunk(n).over
      BY <1>2 DEF Read
    <3>3. QED
      BY <2>5, <3>1, <3>2 DEF LoopState
  <2>7. /\ input' \in Seq(Byte) /\ consumed' \in 0..Len(input')
        /\ Collects(SubSeq(input, 1, consumed), Variables)'
    BY <1>1, <2>1, <2>4, <2>6
  <2>8. SentIsTyped'
    <3>1. Collected'
      BY <2>6, <2>7 DEF Collected
    <3>2. Collected' => SentIsTyped'
      BY CollectedIsDue, PTL
    <3>3. QED
      BY <3>1, <3>2
  <2>9. QED
    BY <2>7, <2>8 DEF InputInv
<1>3. CASE Eof
  <2> DEFINE f == AllLines(SubSeq(input, 1, consumed))
  <2>1. /\ ~over /\ over' = TRUE /\ sent' = Append(sent, <<At>>)
        /\ input' = input /\ consumed' = consumed
    BY <1>3 DEF Eof
  <2>2. sent = f /\ ~HasExit(f)
    BY <2>1 DEF InputInv, Collects, Variables
  <2>3. f \in Seq({f[n] : n \in DOMAIN f})
    <3>1. SubSeq(input, 1, consumed) \in Seq(Byte)
      BY <1>1
    <3>2. QED
      BY <3>1, LinesAre
  <2>4. SentIsTyped' <=>
          sent' = IF ~(UpToExit(f) # <<>> /\ is_exit_token(Last(UpToExit(f))))
                    THEN Append(UpToExit(f), <<At>>) ELSE UpToExit(f)
    BY <2>1 DEF SentIsTyped
  <2> HIDE DEF f
  <2>5. UpToExit(f) = f
    BY <2>2, <2>3, NoExit
  <2>6. f # <<>> => ~is_exit_token(Last(f))
    BY <2>2, <2>3 DEF HasExit, Last
  <2>7. SentIsTyped'
    BY <2>1, <2>2, <2>4, <2>5, <2>6
  <2>8. QED
    BY <1>1, <2>1, <2>7 DEF InputInv
<1>4. CASE UNCHANGED vars
  BY <1>4 DEF vars, InputInv, Variables, SentIsTyped
<1>5. QED
  BY <1>2, <1>3, <1>4 DEF Next

(* However the keyboard's bytes are cut into chunks, what has been sent is *)
(* what the text read so far says: see SentIsTyped.                        *)
THEOREM SentIsTypedHolds == Spec => []SentIsTyped
<1>1. InputInv => SentIsTyped
  BY DEF InputInv
<1>2. QED
  BY <1>1, InputInit, InputStep, PTL DEF Spec
================================================================================
