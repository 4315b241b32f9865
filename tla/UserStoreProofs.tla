---------------------------- MODULE UserStoreProofs ----------------------------
(***************************************************************************)
(* Theorems about the HW1 user database: types, unique names, what a start *)
(* from user.txt finds, what rewriting user.txt keeps and how a sign-in    *)
(* ends, for any words, files, faults and number of users.                 *)
(***************************************************************************)
EXTENDS UserStore, DataFacts

-------------------------------------------------------------------------------
(* The loop that reads user.txt                                            *)

(* The function that the loop computes exists. *)
LEMMA ScanExists ==
  ASSUME NEW f
  PROVE  \A N \in Nat :
           \E g : g = [n \in 0..N |-> IF n = 0 THEN <<>> ELSE Keep(g[n - 1], f[n])]
<1> DEFINE Of(g, N) == [n \in 0..N |-> IF n = 0 THEN <<>> ELSE Keep(g[n - 1], f[n])]
           S == {N \in Nat : \E g : g = Of(g, N)}
<1>1. 0 \in S
  <2> DEFINE g == [n \in 0..0 |-> <<>>]
  <2>1. g = Of(g, 0)
    OBVIOUS
  <2>2. QED
    BY <2>1
<1>2. ASSUME NEW N \in Nat, N \in S PROVE N + 1 \in S
  <2>1. PICK g : g = Of(g, N)
    BY <1>2
  <2> DEFINE h == [n \in 0 .. N + 1 |->
                     IF n = N + 1 THEN Keep(g[N], f[N + 1]) ELSE g[n]]
  <2>2. \A n \in 0..N : g[n] = Of(g, N)[n]
    BY <2>1, Zenon
  <2>3. \A n \in 0..N : g[n] = IF n = 0 THEN <<>> ELSE Keep(g[n - 1], f[n])
    BY <2>2
  <2>4. \A n \in 0..N : h[n] = g[n]
    OBVIOUS
  <2>5. \A n \in 0 .. N + 1 : h[n] = IF n = 0 THEN <<>> ELSE Keep(h[n - 1], f[n])
    <3>1. ASSUME NEW n \in 0..N PROVE h[n] = IF n = 0 THEN <<>> ELSE Keep(h[n - 1], f[n])
      <4>1. CASE n = 0
        BY <2>3, <2>4, <4>1
      <4>2. CASE n # 0
        <5>1. n - 1 \in 0..N
          BY <4>2
        <5>2. h[n - 1] = g[n - 1] /\ h[n] = g[n]
          BY <2>4, <5>1
        <5>3. QED
          BY <2>3, <4>2, <5>2
      <4>3. QED
        BY <4>1, <4>2
    <3>2. h[N + 1] = Keep(h[N], f[N + 1])
      BY <2>4
    <3>3. QED
      BY <3>1, <3>2
  <2>6. h = [n \in 0 .. N + 1 |-> h[n]]
    OBVIOUS
  <2> HIDE DEF h
  <2>7. h = Of(h, N + 1)
    BY <2>5, <2>6
  <2>8. QED
    BY <2>7
<1> HIDE DEF S
<1>3. \A N \in Nat : N \in S
  BY <1>1, <1>2, Induction
<1>4. QED
  BY <1>3 DEF S

LEMMA ScanSteps ==
  ASSUME NEW S, NEW f \in Seq(S)
  PROVE  /\ Scan(f)[0] = <<>>
         /\ \A n \in 1..Len(f) : Scan(f)[n] = Keep(Scan(f)[n - 1], f[n])
<1>1. Len(f) \in Nat
  OBVIOUS
<1> DEFINE g == Scan(f)
<1>2. g = [n \in 0..Len(f) |-> IF n = 0 THEN <<>> ELSE Keep(g[n - 1], f[n])]
  BY <1>1, ScanExists DEF Scan
<1> HIDE DEF g
<1>3. \A n \in 0..Len(f) :
        g[n] = [k \in 0..Len(f) |-> IF k = 0 THEN <<>> ELSE Keep(g[k - 1], f[k])][n]
  BY <1>2, Zenon
<1>4. \A n \in 0..Len(f) : g[n] = IF n = 0 THEN <<>> ELSE Keep(g[n - 1], f[n])
  BY <1>3
<1>5. g[0] = <<>> /\ \A n \in 1..Len(f) : g[n] = Keep(g[n - 1], f[n])
  BY <1>1, <1>4
<1>6. QED
  BY <1>5 DEF g
(* What the lines k are that the loop has kept of the first n lines.       *)
KeptLines(f, n, k) ==
  /\ k \in Seq(FileLine)
  /\ \A i \in 1..Len(k) : Parses(k[i]) /\ \E j \in 1..n : k[i] = f[j]
  /\ \A j \in 1..n : Parses(f[j]) => \E i \in 1..Len(k) : k[i] = f[j]
  /\ Clean(f) => \A i, j \in 1..Len(k) : k[i].text[1] = k[j].text[1] => i = j
  /\ (\A j \in 1..n : Parses(f[j])) =>
       Len(k) = n /\ \A i \in 1..n : k[i] = f[i]

LEMMA KeepLine ==
  ASSUME NEW f \in Seq(FileLine), NEW n \in 1..Len(f), NEW k, KeptLines(f, n - 1, k)
  PROVE  KeptLines(f, n, Keep(k, f[n]))
<1>t. /\ Len(f) \in Nat /\ f[n] \in FileLine /\ k \in Seq(FileLine) /\ Len(k) \in Nat
  BY DEF KeptLines
<1>1. CASE ~Parses(f[n])
  <2>1. Keep(k, f[n]) = k
    BY <1>1 DEF Keep
  <2>2. \A i \in 1..Len(k) : Parses(k[i]) /\ \E j \in 1..n : k[i] = f[j]
    <3> SUFFICES ASSUME NEW i \in 1..Len(k)
                 PROVE  Parses(k[i]) /\ \E j \in 1..n : k[i] = f[j]
      OBVIOUS
    <3>1. PICK j \in 1 .. n - 1 : k[i] = f[j]
      BY DEF KeptLines
    <3>2. Parses(k[i]) /\ j \in 1..n
      BY DEF KeptLines
    <3>3. QED
      BY <3>1, <3>2
  <2>3. n \in 1..n
    BY <1>t
  <2>4. ASSUME NEW j \in 1..n, Parses(f[j]) PROVE \E i \in 1..Len(k) : k[i] = f[j]
    <3>1. j \in 1 .. n - 1
      BY <1>t, <1>1, <2>4
    <3>2. QED
      BY <2>4, <3>1 DEF KeptLines
  <2>5. QED
    BY <1>1, <2>1, <2>2, <2>3, <2>4 DEF KeptLines
<1>2. CASE Parses(f[n])
  <2> DEFINE q == Append(k, f[n])
  <2>1. /\ Keep(k, f[n]) = q /\ q \in Seq(FileLine) /\ Len(q) = Len(k) + 1
        /\ q[Len(k) + 1] = f[n] /\ \A i \in 1..Len(k) : q[i] = k[i]
    BY <1>t, <1>2 DEF Keep
  <2> HIDE DEF q
  <2>2. \A i \in 1..Len(q) : i \in 1..Len(k) \/ i = Len(k) + 1
    BY <1>t, <2>1
  <2>3. \A i \in 1..Len(k) : Parses(q[i]) /\ \E j \in 1 .. n - 1 : q[i] = f[j]
    BY <2>1 DEF KeptLines
  <2>4. ASSUME NEW i \in 1..Len(q)
        PROVE  Parses(q[i]) /\ \E j \in 1..n : q[i] = f[j]
    <3>1. CASE i \in 1..Len(k)
      <4>1. PICK j \in 1 .. n - 1 : Parses(q[i]) /\ q[i] = f[j]
        BY <2>3, <3>1
      <4>2. j \in 1..n
        BY <4>1
      <4>3. QED
        BY <4>1, <4>2
    <3>2. CASE i = Len(k) + 1
      <4>1. n \in 1..n
        BY <1>t
      <4>2. QED
        BY <1>2, <2>1, <3>2, <4>1
    <3>3. QED
      BY <2>2, <3>1, <3>2
  <2>5. ASSUME Clean(f), NEW i \in 1..Len(q), NEW j \in 1..Len(q),
               q[i].text[1] = q[j].text[1]
        PROVE  i = j
    <3>1. \A h \in 1..Len(k) : q[h].text[1] # f[n].text[1]
      <4> SUFFICES ASSUME NEW h \in 1..Len(k), q[h].text[1] = f[n].text[1] PROVE FALSE
        OBVIOUS
      <4>1. PICK g \in 1 .. n - 1 : q[h] = f[g] /\ Parses(f[g])
        BY <2>3
      <4>2. g \in 1..Len(f) /\ g # n
        BY <1>t, <4>1
      <4>3. QED
        BY <1>2, <2>5, <4>1, <4>2 DEF Clean
    <3>2. CASE i \in 1..Len(k) /\ j \in 1..Len(k)
      BY <2>1, <2>5, <3>2 DEF KeptLines
    <3>3. QED
      BY <2>1, <2>2, <2>5, <3>1, <3>2
  <2>6. ASSUME \A j \in 1..n : Parses(f[j])
        PROVE  Len(q) = n /\ \A i \in 1..n : q[i] = f[i]
    <3>1. \A j \in 1 .. n - 1 : Parses(f[j])
      BY <1>t, <2>6
    <3>2. Len(k) = n - 1 /\ \A i \in 1 .. n - 1 : k[i] = f[i]
      BY <3>1 DEF KeptLines
    <3>3. QED
      BY <1>t, <2>1, <2>2, <3>2
  <2>7. ASSUME NEW j \in 1..n, Parses(f[j]) PROVE \E i \in 1..Len(q) : q[i] = f[j]
    <3>1. CASE j = n
      <4>1. Len(k) + 1 \in 1..Len(q)
        BY <1>t, <2>1
      <4>2. QED
        BY <2>1, <3>1, <4>1
    <3>2. CASE j # n
      <4>1. j \in 1 .. n - 1
        BY <1>t, <3>2
      <4>2. PICK i \in 1..Len(k) : k[i] = f[j]
        BY <2>7, <4>1 DEF KeptLines
      <4>3. i \in 1..Len(q)
        BY <1>t, <2>1
      <4>4. QED
        BY <2>1, <4>2, <4>3
    <3>3. QED
      BY <3>1, <3>2
  <2>8. KeptLines(f, n, q)
    BY <2>1, <2>4, <2>5, <2>6, <2>7 DEF KeptLines
  <2>9. QED
    BY <2>1, <2>8
<1>3. QED
  BY <1>1, <1>2

LEMMA ValidLines ==
  ASSUME NEW f \in Seq(FileLine)
  PROVE  KeptLines(f, Len(f), Valid(f))
<1> DEFINE S == {n \in Nat : n <= Len(f) => KeptLines(f, n, Scan(f)[n])}
<1>t. Len(f) \in Nat
  OBVIOUS
<1>1. 0 \in S
  <2>1. Scan(f)[0] = <<>>
    BY ScanSteps
  <2>2. KeptLines(f, 0, <<>>)
    BY DEF KeptLines
  <2>3. QED
    BY <2>1, <2>2
<1>2. ASSUME NEW n \in Nat, n \in S PROVE n + 1 \in S
  <2> SUFFICES ASSUME n + 1 <= Len(f) PROVE KeptLines(f, n + 1, Scan(f)[n + 1])
    OBVIOUS
  <2> DEFINE m == n + 1
  <2>1. m \in 1..Len(f) /\ m - 1 = n
    BY <1>t
  <2>2. KeptLines(f, n, Scan(f)[n])
    BY <1>2, <2>1
  <2> HIDE DEF m
  <2>3. Scan(f)[m] = Keep(Scan(f)[m - 1], f[m])
    BY <2>1, ScanSteps
  <2>4. KeptLines(f, m, Keep(Scan(f)[m - 1], f[m]))
    BY <2>1, <2>2, KeepLine
  <2>5. QED
    BY <2>3, <2>4 DEF m
<1> HIDE DEF S
<1>3. \A n \in Nat : n \in S
  BY <1>1, <1>2, Induction
<1>4. QED
  BY <1>t, <1>3 DEF S, Valid
-------------------------------------------------------------------------------
(* What a start finds in user.txt                                          *)

PlainUser(x) ==
  /\ x \in User
  /\ Len(x.username) = 1 /\ x.username[1] # Empty
  /\ Len(x.password) = 1 /\ x.password[1] # Empty

LEMMA PlainUsers == ASSUME NEW x \in User PROVE Plain(x) <=> PlainUser(x)
<1>1. /\ x.username \in Seq(Atoms) /\ x.password \in Seq(Atoms)
  BY DEF User
<1>2. ASSUME NEW w \in Seq(Atoms), Len(w) = 1 PROVE w = <<Empty>> <=> w[1] = Empty
  <2>1. w = <<w[1]>>
    BY <1>2
  <2>2. QED
    BY <2>1
<1>3. QED
  BY <1>1, <1>2 DEF Plain, PlainUser, OnePiece

(* Users whose words hold no ':' and whose names differ.                   *)
ShortList(us) ==
  /\ us \in Seq(User)
  /\ \A i \in 1..Len(us) : Len(us[i].username) = 1 /\ Len(us[i].password) = 1
  /\ \A i, j \in 1..Len(us) : us[i].username = us[j].username => i = j

LEMMA ParsedLine ==
  ASSUME NEW r \in FileLine, Parses(r)
  PROVE  PlainUser(Parse(r)) /\ Parse(r).username[1] = r.text[1]
<1>1. /\ r.text \in Seq(Atoms) /\ Len(r.text) \in Nat /\ Len(r.text) >= 2
      /\ r.status \in Int
  BY DEF FileLine, Parses
<1>2. r.text[1] \in Atoms /\ r.text[2] \in Atoms
  BY <1>1
<1>3. Parse(r).status \in Int
  <2>1. CASE Len(r.text) = 2
    BY <1>1, <2>1 DEF Parse
  <2>2. CASE Len(r.text) # 2
    <3>0. \A n \in Nat : n >= 2 /\ n # 2 => n >= 3 /\ 3 \in 1..n
      OBVIOUS
    <3>a. Len(r.text) >= 3 /\ 3 \in 1..Len(r.text)
      <4> DEFINE n == Len(r.text)
      <4>1. n \in Nat /\ n >= 2 /\ n # 2
        BY <1>1, <2>2
      <4> HIDE DEF n
      <4>2. n >= 3 /\ 3 \in 1..n
        BY <4>1, <3>0
      <4>3. QED
        BY <4>2 DEF n
    <3>1. Len(r.text) >= 3 /\ r.text[3] \in Atoms
      BY <1>1, <3>a
    <3>2. Value[r.text[3]] # NotANumber
      BY <3>1 DEF Parses
    <3>3. Value[r.text[3]] \in Int
      BY <3>1, <3>2, AtomsAssumption
    <3>4. QED
      BY <2>2, <3>3 DEF Parse
  <2>3. QED
    BY <2>1, <2>2
<1>4. /\ Parse(r).username = <<r.text[1]>> /\ Parse(r).password = <<r.text[2]>>
      /\ Parse(r) = [username |-> Parse(r).username, password |-> Parse(r).password,
                     status |-> Parse(r).status]
  BY DEF Parse
<1>5. <<r.text[1]>> \in Seq(Atoms) /\ <<r.text[2]>> \in Seq(Atoms)
  BY <1>2
<1>6. Parse(r) \in User
  BY <1>3, <1>4, <1>5 DEF User
<1>7. QED
  BY <1>4, <1>6 DEF PlainUser, Parses

LEMMA LoadedUsers ==
  ASSUME NEW f \in Seq(FileLine)
  PROVE  /\ Len(Load(f)) = Len(Valid(f))
         /\ \A i \in 1..Len(Valid(f)) : Load(f)[i] = Parse(Valid(f)[i])
         /\ Load(f) \in Seq(User)
         /\ \A i \in 1..Len(Load(f)) : PlainUser(Load(f)[i])
         /\ Clean(f) => ShortList(Load(f))
<1>1. KeptLines(f, Len(f), Valid(f))
  BY ValidLines
<1> DEFINE v == Valid(f)
<1>2. v \in Seq(FileLine) /\ Len(v) \in Nat /\ DOMAIN v = 1..Len(v)
  BY <1>1 DEF KeptLines
<1>3. Load(f) = [i \in 1..Len(v) |-> Parse(v[i])]
  BY <1>2 DEF Load
<1>4. \A i \in 1..Len(v) : v[i] \in FileLine /\ Parses(v[i])
  BY <1>1, <1>2 DEF KeptLines
<1>5. Clean(f) => \A i, j \in 1..Len(v) : v[i].text[1] = v[j].text[1] => i = j
  BY <1>1 DEF KeptLines
<1> HIDE DEF v
<1>6. \A i \in 1..Len(v) :
        PlainUser(Parse(v[i])) /\ Parse(v[i]).username[1] = v[i].text[1]
  BY <1>4, ParsedLine
<1>7. \A i \in 1..Len(v) : Parse(v[i]) \in User
  BY <1>6 DEF PlainUser
<1>8. /\ Load(f) \in Seq(User) /\ Len(Load(f)) = Len(v)
      /\ \A i \in 1..Len(v) : Load(f)[i] = Parse(v[i])
  BY <1>2, <1>3, <1>7
<1>9. \A i \in 1..Len(Load(f)) : PlainUser(Load(f)[i])
  BY <1>6, <1>8
<1>10. ASSUME Clean(f), NEW i \in 1..Len(Load(f)), NEW j \in 1..Len(Load(f)),
              Load(f)[i].username = Load(f)[j].username
       PROVE  i = j
  <2>1. v[i].text[1] = v[j].text[1]
    BY <1>6, <1>8, <1>10
  <2>2. QED
    BY <1>5, <1>8, <1>10, <2>1
<1>11. QED
  BY <1>8, <1>9, <1>10 DEF ShortList, PlainUser, v

(* The line of a user whose words hold no ':'.                             *)
LEMMA ShortLine ==
  ASSUME NEW x \in User, Len(x.username) = 1, Len(x.password) = 1
  PROVE  /\ Line(x) \in FileLine /\ Len(Line(x).text) = 2
         /\ Line(x).text[1] = x.username[1] /\ Line(x).text[2] = x.password[1]
         /\ Line(x).status = x.status
<1>1. /\ x.username \in Seq(Atoms) /\ x.password \in Seq(Atoms) /\ x.status \in Int
  BY DEF User
<1> DEFINE t == x.username \o x.password
<1>2. /\ t \in Seq(Atoms) /\ Len(t) = 2
      /\ t[1] = x.username[1] /\ t[2] = x.password[1]
  <2>1. ASSUME NEW p \in Seq(Atoms), NEW q \in Seq(Atoms), Len(p) = 1, Len(q) = 1
        PROVE  /\ p \o q \in Seq(Atoms) /\ Len(p \o q) = 2
               /\ (p \o q)[1] = p[1] /\ (p \o q)[2] = q[1]
    BY <2>1, ConcatProperties
  <2>2. QED
    BY <1>1, <2>1
<1>3. Line(x) = [text |-> t, status |-> x.status]
  BY DEF Line
<1> HIDE DEF t
<1>4. QED
  BY <1>1, <1>2, <1>3 DEF FileLine

(* What is written for a plain user is read back as that user.             *)
LEMMA WrittenLine ==
  ASSUME NEW x, PlainUser(x)
  PROVE  Line(x) \in FileLine /\ Parses(Line(x)) /\ Parse(Line(x)) = x
<1>1. /\ x \in User /\ x.username \in Seq(Atoms) /\ x.password \in Seq(Atoms)
      /\ Len(x.username) = 1 /\ Len(x.password) = 1
      /\ x = [username |-> x.username, password |-> x.password, status |-> x.status]
  BY DEF PlainUser, User
<1> DEFINE t == Line(x).text
<1>2. /\ Line(x) \in FileLine /\ Len(t) = 2 /\ Line(x).status = x.status
      /\ t[1] = x.username[1] /\ t[2] = x.password[1]
  BY <1>1, ShortLine
<1>3. x.username = <<t[1]>> /\ x.password = <<t[2]>>
  BY <1>1, <1>2
<1> HIDE DEF t
<1>6. Parses(Line(x))
  <2>1. t[1] # Empty /\ t[2] # Empty
    BY <1>2 DEF PlainUser
  <2>2. Len(t) >= 2 /\ ~(Len(t) >= 3) /\ ~(Len(t) >= 4)
    BY <1>2
  <2>3. QED
    BY <2>1, <2>2 DEF Parses, t
<1>7. Parse(Line(x)) = x
  BY <1>1, <1>2, <1>3 DEF Parse, t
<1>8. QED
  BY <1>2, <1>6, <1>7

LEMMA WrittenLines ==
  ASSUME NEW us \in Seq(User)
  PROVE  /\ Lines(us) \in Seq(FileLine) /\ Len(Lines(us)) = Len(us)
         /\ \A i \in 1..Len(us) : Lines(us)[i] = Line(us[i])
         /\ \A g \in PartOf(us) :
              /\ g \in Seq(FileLine) /\ Len(g) <= Len(us)
              /\ \A i \in 1..Len(g) : g[i] = Line(us[i])
<1>1. DOMAIN us = 1..Len(us) /\ Len(us) \in Nat
  OBVIOUS
<1>2. \A i \in 1..Len(us) : Line(us[i]) \in FileLine
  <2> SUFFICES ASSUME NEW i \in 1..Len(us) PROVE Line(us[i]) \in FileLine
    OBVIOUS
  <2>1. us[i] \in User
    OBVIOUS
  <2>2. us[i].username \o us[i].password \in Seq(Atoms) /\ us[i].status \in Int
    BY <2>1 DEF User
  <2>3. QED
    BY <2>2 DEF Line, FileLine
<1>3. /\ Lines(us) \in Seq(FileLine) /\ Len(Lines(us)) = Len(us)
      /\ \A i \in 1..Len(us) : Lines(us)[i] = Line(us[i])
  BY <1>1, <1>2 DEF Lines
<1>4. ASSUME NEW n \in 0..Len(us)
      PROVE  /\ SubSeq(Lines(us), 1, n) \in Seq(FileLine)
             /\ Len(SubSeq(Lines(us), 1, n)) = n
             /\ \A i \in 1..n : SubSeq(Lines(us), 1, n)[i] = Line(us[i])
  BY <1>1, <1>3
<1>5. QED
  BY <1>3, <1>4 DEF PartOf

(* A start after a complete save finds the list that was saved.            *)
LEMMA LoadSaved ==
  ASSUME NEW us \in Seq(User), \A i \in 1..Len(us) : PlainUser(us[i])
  PROVE  Load(Lines(us)) = us
<1>1. us \in Seq(User) /\ Len(us) \in Nat /\ \A i \in 1..Len(us) : PlainUser(us[i])
  OBVIOUS
<1> DEFINE f == Lines(us)
<1>2. /\ f \in Seq(FileLine) /\ Len(f) = Len(us)
      /\ \A i \in 1..Len(us) : f[i] = Line(us[i])
  BY <1>1, WrittenLines
<1>3. \A i \in 1..Len(us) : Parses(f[i]) /\ Parse(f[i]) = us[i]
  BY <1>1, <1>2, WrittenLine
<1> HIDE DEF f
<1>4. KeptLines(f, Len(f), Valid(f))
  BY <1>2, ValidLines
<1>5. Len(Valid(f)) = Len(us) /\ \A i \in 1..Len(us) : Valid(f)[i] = f[i]
  BY <1>2, <1>3, <1>4 DEF KeptLines
<1>6. /\ Load(f) \in Seq(User) /\ Len(Load(f)) = Len(us)
      /\ \A i \in 1..Len(us) : Load(f)[i] = us[i]
  BY <1>2, <1>3, <1>5, LoadedUsers
<1>7. Load(f) = us
  BY <1>1, <1>6
<1>8. QED
  BY <1>7 DEF f

LEMMA CleanSaved ==
  ASSUME NEW us, ShortList(us), NEW g \in PartOf(us) \cup {Lines(us)}
  PROVE  Clean(g)
<1>1. /\ us \in Seq(User) /\ Len(us) \in Nat
      /\ \A i \in 1..Len(us) :
           us[i] \in User /\ Len(us[i].username) = 1 /\ Len(us[i].password) = 1
  BY DEF ShortList
<1>2. /\ g \in Seq(FileLine) /\ Len(g) \in Nat /\ Len(g) <= Len(us)
      /\ \A i \in 1..Len(g) : g[i] = Line(us[i])
  BY <1>1, WrittenLines
<1>3. \A i \in 1..Len(g) : i \in 1..Len(us)
  BY <1>1, <1>2
<1>4. \A i \in 1..Len(g) : Len(g[i].text) = 2 /\ g[i].text[1] = us[i].username[1]
  BY <1>1, <1>2, <1>3, ShortLine
<1>5. ASSUME NEW i \in 1..Len(g), NEW j \in 1..Len(g), g[i].text[1] = g[j].text[1]
      PROVE  i = j
  <2>1. us[i].username[1] = us[j].username[1]
    BY <1>4, <1>5
  <2>2. us[i].username = <<us[i].username[1]>> /\ us[j].username = <<us[j].username[1]>>
    <3>1. us[i].username \in Seq(Atoms) /\ us[j].username \in Seq(Atoms)
      BY <1>1, <1>3 DEF User
    <3>2. QED
      BY <1>1, <1>3, <3>1
  <2>3. us[i].username = us[j].username
    BY <2>1, <2>2
  <2>4. QED
    BY <1>3, <2>3 DEF ShortList
<1>6. QED
  BY <1>4, <1>5 DEF Clean
-------------------------------------------------------------------------------
(* The accounts of a file and of the list                                  *)

LEMMA AccountsOf ==
  ASSUME NEW f \in Seq(FileLine)
  PROVE  \A x : x \in Accounts(f) <=>
                  \E j \in 1..Len(f) : Parses(f[j]) /\ x = Parse(f[j])
<1> DEFINE v == Valid(f)
<1>1. KeptLines(f, Len(f), v)
  BY ValidLines
<1>2. /\ Load(f) \in Seq(User) /\ Len(Load(f)) = Len(v)
      /\ \A i \in 1..Len(v) : Load(f)[i] = Parse(v[i])
  BY LoadedUsers
<1> HIDE DEF v
<1>3. DOMAIN Load(f) = 1..Len(v)
  BY <1>2
<1>4. ASSUME NEW x \in Accounts(f)
      PROVE  \E j \in 1..Len(f) : Parses(f[j]) /\ x = Parse(f[j])
  <2>1. PICK i \in 1..Len(v) : x = Load(f)[i]
    BY <1>3, <1>4 DEF Accounts
  <2>2. PICK j \in 1..Len(f) : v[i] = f[j] /\ Parses(f[j])
    BY <1>1, <2>1 DEF KeptLines
  <2>3. QED
    BY <1>2, <2>1, <2>2
<1>5. ASSUME NEW j \in 1..Len(f), Parses(f[j])
      PROVE  Parse(f[j]) \in Accounts(f)
  <2>1. PICK i \in 1..Len(v) : v[i] = f[j]
    BY <1>1, <1>5 DEF KeptLines
  <2>2. QED
    BY <1>2, <1>3, <2>1 DEF Accounts
<1>6. QED
  BY <1>4, <1>5

(* What the list has become after a registration or a blocking.            *)
Grown(us, vs) ==
  /\ vs \in Seq(User) /\ Len(us) <= Len(vs)
  /\ \A i \in 1..Len(us) : /\ vs[i].username = us[i].username
                            /\ vs[i].password = us[i].password
                            /\ vs[i].status \in {us[i].status, 1}

LEMMA GrownLine ==
  ASSUME NEW x, NEW y, Parses(Line(x)),
         y.username = x.username, y.password = x.password,
         y.status \in {x.status, 1}
  PROVE  Parses(Line(y)) /\ Still(Parse(Line(x)), Parse(Line(y)))
<1> DEFINE t == x.username \o x.password
<1>1. /\ Line(x) = [text |-> t, status |-> x.status]
      /\ Line(y) = [text |-> t, status |-> y.status]
  BY DEF Line
<1> HIDE DEF t
<1>2. Line(x).text = t /\ Line(y).text = t /\ Line(x).status = x.status
      /\ Line(y).status = y.status
  BY <1>1
<1>3. Parses(Line(y))
  BY <1>2 DEF Parses
<1>4. Still(Parse(Line(x)), Parse(Line(y)))
  BY <1>2 DEF Parse, Still
<1>5. QED
  BY <1>3, <1>4

LEMMA HeldOn ==
  ASSUME NEW us \in Seq(User), NEW vs, Grown(us, vs), NEW x, Holds(Lines(us), x)
  PROVE  Holds(Lines(vs), x)
<1>1. vs \in Seq(User) /\ Len(us) \in Nat /\ Len(vs) \in Nat /\ Len(us) <= Len(vs)
  <2>1. vs \in Seq(User) /\ Len(us) <= Len(vs)
    BY DEF Grown
  <2>2. QED
    BY <2>1
<1>2. /\ Lines(us) \in Seq(FileLine) /\ Len(Lines(us)) = Len(us)
      /\ \A i \in 1..Len(us) : Lines(us)[i] = Line(us[i])
      /\ Lines(vs) \in Seq(FileLine) /\ Len(Lines(vs)) = Len(vs)
      /\ \A i \in 1..Len(vs) : Lines(vs)[i] = Line(vs[i])
  BY <1>1, WrittenLines
<1>3. PICK y \in Accounts(Lines(us)) : Still(x, y)
  BY DEF Holds
<1>4. PICK i \in 1..Len(us) : Parses(Line(us[i])) /\ y = Parse(Line(us[i]))
  BY <1>2, AccountsOf
<1>5. i \in 1..Len(vs)
  BY <1>1
<1>6. Parses(Line(vs[i])) /\ Still(y, Parse(Line(vs[i])))
  BY <1>4, GrownLine DEF Grown
<1>7. Parse(Line(vs[i])) \in Accounts(Lines(vs))
  BY <1>2, <1>5, <1>6, AccountsOf
<1>8. Still(x, Parse(Line(vs[i])))
  BY <1>3, <1>6 DEF Still
<1>9. QED
  BY <1>7, <1>8 DEF Holds

(* A part of what is saved holds nothing that the whole does not.          *)
LEMMA HeldSaved ==
  ASSUME NEW us \in Seq(User), NEW g \in PartOf(us) \cup {Lines(us)},
         NEW x \in Accounts(g)
  PROVE  /\ Holds(Lines(us), x)
         /\ \E i \in 1..Len(us) : Parses(Line(us[i])) /\ x = Parse(Line(us[i]))
<1>1. /\ Lines(us) \in Seq(FileLine) /\ Len(Lines(us)) = Len(us)
      /\ \A i \in 1..Len(us) : Lines(us)[i] = Line(us[i])
      /\ g \in Seq(FileLine) /\ Len(g) <= Len(us) /\ Len(us) \in Nat
      /\ Len(g) \in Nat /\ \A i \in 1..Len(g) : g[i] = Line(us[i])
  BY WrittenLines
<1>2. PICK i \in 1..Len(g) : Parses(Line(us[i])) /\ x = Parse(Line(us[i]))
  BY <1>1, AccountsOf
<1>3. i \in 1..Len(us)
  BY <1>1
<1>4. x \in Accounts(Lines(us))
  BY <1>1, <1>2, <1>3, AccountsOf
<1>5. Still(x, x)
  BY DEF Still
<1>6. QED
  BY <1>2, <1>3, <1>4, <1>5 DEF Holds

LEMMA HeldLoaded ==
  ASSUME NEW f \in Seq(FileLine), NEW x \in Accounts(f)
  PROVE  Holds(Lines(Load(f)), x)
<1>1. /\ Load(f) \in Seq(User) /\ \A i \in 1..Len(Load(f)) : PlainUser(Load(f)[i])
  BY LoadedUsers
<1>2. Load(Lines(Load(f))) = Load(f)
  BY <1>1, LoadSaved
<1>3. x \in Accounts(Lines(Load(f)))
  BY <1>2 DEF Accounts
<1>4. Still(x, x)
  BY DEF Still
<1>5. QED
  BY <1>3, <1>4 DEF Holds
-------------------------------------------------------------------------------
(* The invariant.  A name is only asked a password for while no user has   *)
(* it; until a word with a ':' is saved names differ in the list and in the*)
(* file; the list and the file are the same but for what failed since.     *)

Registering ==
  at = "register password" => \A i \in 1..Len(users) : users[i].username # name

Honest == ~mangled => ShortList(users) /\ Clean(file)

Recorded ==
  /\ agree => file = Lines(users) \/ users = Load(file)
  /\ loaded => \A x \in Accounts(file) : Holds(Lines(users), x)

UserInv == TypeOK /\ Registering /\ Honest /\ Recorded

LEMMA FindUser ==
  ASSUME NEW us \in Seq(User), NEW w
  PROVE  /\ findUser(us, w) \in 0..Len(us)
         /\ findUser(us, w) = NULL => \A i \in 1..Len(us) : us[i].username # w
<1> DEFINE T == Named(us, w)
<1>1. /\ T \subseteq 1..Len(us) /\ Len(us) \in Nat
      /\ \A i \in 1..Len(us) : i \in T <=> us[i].username = w
  BY DEF Named
<1>2. findUser(us, w) = IF T = {} THEN NULL ELSE CHOOSE i \in T : \A j \in T : i <= j
  BY DEF findUser
<1> HIDE DEF T
<1>3. CASE T = {}
  BY <1>1, <1>2, <1>3 DEF NULL
<1>4. CASE T # {}
  <2>1. \E i \in T : \A j \in T : i <= j
    <3>1. T \in SUBSET Nat
      BY <1>1
    <3>2. QED
      BY <1>4, <3>1, LeastNumber
  <2>2. findUser(us, w) \in T
    BY <1>2, <1>4, <2>1
  <2>3. findUser(us, w) \in 1..Len(us)
    BY <1>1, <2>2
  <2>4. QED
    BY <1>1, <2>3 DEF NULL
<1>5. QED
  BY <1>3, <1>4

LEMMA NullUser == ASSUME NEW us \in Seq(User) PROVE NULL \in NULL .. Len(us)
<1>1. Len(us) \in Nat
  OBVIOUS
<1>2. QED
  BY <1>1 DEF NULL

(* A save, whole or in part, of a list that may be trusted if the file is. *)
LEMMA SavedFile ==
  ASSUME NEW us \in Seq(User), file \in Seq(FileLine),
         ~mangled' => ShortList(us) /\ Clean(file),
         file' \in PartOf(us) \cup {file, Lines(us)}
  PROVE  file' \in Seq(FileLine) /\ (~mangled' => Clean(file'))
BY WrittenLines, CleanSaved

LEMMA SaveUsers ==
  ASSUME UserInv, NEW us, Grown(users, us), saveUsers(us),
         ~mangled' => ShortList(us) /\ Clean(file)
  PROVE  /\ users' = us /\ at' = "menu" /\ agree' \in BOOLEAN /\ loaded' \in BOOLEAN
         /\ file' \in Seq(FileLine) /\ faults' \in 0..MaxFaults
         /\ Honest' /\ Recorded'
<1>t. /\ users \in Seq(User) /\ us \in Seq(User) /\ file \in Seq(FileLine)
      /\ faults \in 0..MaxFaults /\ loaded \in BOOLEAN
  BY DEF UserInv, TypeOK, Grown
<1>1. /\ users' = us /\ at' = "menu" /\ agree' \in BOOLEAN
      /\ loaded' = loaded
  BY DEF saveUsers
<1>2. /\ file' \in PartOf(us) \cup {file, Lines(us)}
      /\ agree' => file' = Lines(us)
  BY DEF saveUsers
<1>3. faults' \in 0..MaxFaults
  BY <1>t, BoundsAssumption DEF saveUsers, Fault, NoFault
<1>4. file' \in Seq(FileLine) /\ (~mangled' => Clean(file'))
  BY <1>t, <1>2, SavedFile
<1>5. Honest'
  BY <1>1, <1>4 DEF Honest
<1>6. ASSUME loaded, NEW x \in Accounts(file') PROVE Holds(Lines(us), x)
  <2>1. CASE file' = file
    <3>1. Holds(Lines(users), x)
      BY <1>6, <2>1 DEF UserInv, Recorded
    <3>2. QED
      BY <1>t, <3>1, HeldOn
  <2>2. CASE file' \in PartOf(us) \cup {Lines(us)}
    BY <1>t, <1>6, <2>2, HeldSaved
  <2>3. QED
    BY <1>2, <2>1, <2>2
<1>7. Accounts(file)' = Accounts(file') /\ Lines(users)' = Lines(us)
  BY <1>1 DEF Accounts, Load, Valid, Scan, Lines
<1>8. Recorded'
  BY <1>1, <1>2, <1>6, <1>7 DEF Recorded, Holds
<1>9. QED
  BY <1>t, <1>1, <1>3, <1>4, <1>5, <1>8

(* The end of the process.                                                 *)
LEMMA GoneInv ==
  ASSUME Gone("off"), file' \in Seq(FileLine), ~mangled' => Clean(file'),
         mangled' \in BOOLEAN, faults' \in 0..MaxFaults
  PROVE  UserInv'
<1>1. <<>> \in Seq(User) /\ Len(<<>>) = 0 /\ ShortList(<<>>)
  BY DEF ShortList
<1>2. TypeOK'
  <2>1. NULL \in NULL .. Len(<<>>)
    BY <1>1, NullUser
  <2>2. 0 \in 0..MaxWrong
    BY DEF MaxWrong
  <2>3. QED
    BY <1>1, <2>1, <2>2, LeftoversAssumption DEF Gone, TypeOK
<1>3. Registering'
  BY DEF Gone, Registering
<1>4. Honest'
  BY <1>1 DEF Gone, Honest
<1>5. Recorded'
  BY DEF Gone, Recorded
<1>6. QED
  BY <1>2, <1>3, <1>4, <1>5 DEF UserInv

LEMMA UserInit == Init => UserInv
<1> SUFFICES ASSUME Init PROVE UserInv
  OBVIOUS
<1>1. <<>> \in Seq(User) /\ Len(<<>>) = 0 /\ ShortList(<<>>)
  BY DEF ShortList
<1>2. file \in Seq(FileLine) /\ Clean(file)
  BY FilesAssumption DEF Init
<1>3. TypeOK
  <2>1. NULL \in NULL .. Len(<<>>)
    BY <1>1, NullUser
  <2>2. 0 \in 0..MaxWrong /\ 0 \in 0..MaxFaults
    BY BoundsAssumption DEF MaxWrong
  <2>3. QED
    BY <1>1, <1>2, <2>1, <2>2, LeftoversAssumption DEF Init, TypeOK
<1>4. QED
  BY <1>1, <1>2, <1>3 DEF Init, UserInv, Registering, Honest, Recorded

(* A partial load is a list that may be trusted as far as it goes.         *)
LEMMA PartialLoad ==
  ASSUME NEW us \in Seq(User), NEW n \in 0..Len(us)
  PROVE  /\ SubSeq(us, 1, n) \in Seq(User)
         /\ ShortList(us) => ShortList(SubSeq(us, 1, n))
<1> DEFINE q == SubSeq(us, 1, n)
<1>1. /\ q \in Seq(User) /\ Len(q) = n
      /\ \A i \in 1..n : q[i] = us[i] /\ i \in 1..Len(us)
  OBVIOUS
<1> HIDE DEF q
<1>2. ShortList(us) => ShortList(q)
  BY <1>1 DEF ShortList
<1>3. QED
  BY <1>1, <1>2 DEF q

LEMMA StartInv ==
  ASSUME UserInv, StartLoaded \/ StartUnread
  PROVE  UserInv'
<1>t. /\ users \in Seq(User) /\ file \in Seq(FileLine) /\ faults \in 0..MaxFaults
      /\ Off /\ user = NULL /\ TypeOK
  BY DEF UserInv, TypeOK, StartLoaded, StartUnread, Off
<1>l. Load(file) \in Seq(User) /\ (~mangled => ShortList(Load(file)) /\ Clean(file))
  BY <1>t, LoadedUsers DEF UserInv, Honest
<1>1. CASE StartLoaded
  <2>1. /\ users' \in Seq(User) /\ agree' \in BOOLEAN /\ faults' \in 0..MaxFaults
        /\ ~mangled => ShortList(users')
        /\ agree' \/ loaded' => users' = Load(file)
        /\ loaded' \in BOOLEAN
    <3>1. CASE users' = Load(file) /\ loaded' = TRUE /\ agree' = TRUE /\ NoFault
      BY <1>t, <1>l, <3>1 DEF NoFault
    <3>2. ASSUME NEW n \in 0 .. Len(Load(file)) - 1,
                 users' = SubSeq(Load(file), 1, n),
                 loaded' = FALSE, agree' = FALSE, Fault
          PROVE  /\ users' \in Seq(User) /\ agree' \in BOOLEAN
                 /\ faults' \in 0..MaxFaults
                 /\ ~mangled => ShortList(users')
                 /\ agree' \/ loaded' => users' = Load(file)
                 /\ loaded' \in BOOLEAN
      <4>1. n \in 0..Len(Load(file))
        BY <1>l
      <4>2. users' \in Seq(User) /\ (~mangled => ShortList(users'))
        BY <1>l, <3>2, <4>1, PartialLoad
      <4>3. faults' \in 0..MaxFaults
        BY <1>t, <3>2, BoundsAssumption DEF Fault
      <4>4. QED
        BY <3>2, <4>2, <4>3
    <3>3. QED
      BY <1>1, <3>1, <3>2 DEF StartLoaded
  <2>2. /\ at' = "menu"
        /\ UNCHANGED <<isLoggedIn, choice, name, user, wrongCounts, pending, eof,
                       file, mangled>>
    BY <1>1 DEF StartLoaded, local, input
  <2>3. TypeOK'
    BY <1>t, <2>1, <2>2, NullUser DEF TypeOK
  <2>4. ASSUME loaded', NEW x \in Accounts(file) PROVE Holds(Lines(users'), x)
    <3>1. Holds(Lines(Load(file)), x)
      BY <1>t, <2>4, HeldLoaded
    <3>2. QED
      BY <2>1, <2>4, <3>1
  <2>5. Recorded'
    <3>1. Accounts(file)' = Accounts(file) /\ Load(file)' = Load(file)
      BY <2>2 DEF Accounts, Load, Valid, Scan
    <3>2. QED
      BY <2>1, <2>4, <3>1 DEF Recorded, Holds, Lines
  <2>6. QED
    BY <1>l, <2>1, <2>2, <2>3, <2>5 DEF UserInv, Registering, Honest
<1>2. CASE StartUnread
  <2>1. <<>> \in Seq(User) /\ Len(<<>>) = 0 /\ ShortList(<<>>)
    BY DEF ShortList
  <2>2. /\ <<>> \in Seq(FileLine) /\ Clean(<<>>)
    BY DEF Clean
  <2>3. /\ at' = "menu" /\ users' = <<>> /\ agree' = FALSE /\ loaded' = FALSE
        /\ file' \in {file, <<>>}
        /\ UNCHANGED <<isLoggedIn, choice, name, user, wrongCounts, pending, eof,
                       mangled>>
    BY <1>2 DEF StartUnread, local, input
  <2>4. faults' \in 0..MaxFaults
    BY <1>t, <1>2, BoundsAssumption DEF StartUnread, Fault
  <2>5. TypeOK'
    BY <1>t, <2>1, <2>2, <2>3, <2>4, NullUser DEF TypeOK
  <2>6. QED
    BY <1>l, <2>1, <2>2, <2>3, <2>5 DEF UserInv, Registering, Honest, Recorded
<1>3. QED
  BY <1>1, <1>2
(* What scanf() does to the input keeps it well typed.                     *)
LEMMA InputType ==
  ASSUME TypeOK
  PROVE  /\ Buffer \subseteq Leftovers
         /\ \A w : ReadWord(w) => pending' = <<>> /\ eof' \in BOOLEAN
         /\ RefusedWord \/ ReadNumber \/ NothingLeft =>
              pending' \in Words \cup {<<>>} /\ eof' \in BOOLEAN
BY LeftoversAssumption
DEF TypeOK, Buffer, ReadWord, RefusedWord, ReadNumber, NothingLeft, input

(* The steps that leave the list and the file alone.                       *)
LEMMA KeepsList ==
  ASSUME UserInv, UNCHANGED <<users, file, loaded, agree, mangled>>,
         TypeOK', Registering'
  PROVE  UserInv'
BY DEF UserInv, Honest, Recorded

LEMMA WordLength ==
  \A w \in Leftovers : w \in Seq(Atoms) /\ Len(w) \in Nat /\ Len(w) # 0
<1> SUFFICES ASSUME NEW w \in Leftovers
             PROVE  w \in Seq(Atoms) /\ Len(w) \in Nat /\ Len(w) # 0
  OBVIOUS
<1>1. w \in Seq(Atoms) /\ w # <<>>
  BY LeftoversAssumption
<1>2. QED
  BY <1>1

(* The list with a new user behind the others.                             *)
LEMMA RegisterGrows ==
  ASSUME UserInv, RegisterPassword \/ RegisterKilled, NEW w \in Buffer
  PROVE  /\ Registered(w) \in Seq(User) /\ Grown(users, Registered(w))
         /\ ~(mangled \/ Len(name) > 1 \/ Len(w) > 1) =>
              ShortList(Registered(w)) /\ Clean(file)
<1>s. /\ users \in Seq(User) /\ file \in Seq(FileLine)
      /\ faults \in 0..MaxFaults /\ mangled \in BOOLEAN
      /\ TypeOK
  BY DEF UserInv, TypeOK
<1>t. /\ users \in Seq(User) /\ Len(users) \in Nat /\ file \in Seq(FileLine)
      /\ faults \in 0..MaxFaults /\ mangled \in BOOLEAN
      /\ TypeOK
  BY <1>s
<1>n. /\ name \in Leftovers /\ \A i \in 1..Len(users) : users[i].username # name
      /\ at = "register password" /\ user = NULL
  BY DEF UserInv, TypeOK, Registering, RegisterPassword, RegisterKilled
<1>b. Buffer \subseteq Leftovers
  BY <1>t, InputType
<1> DEFINE x == createUser(name, w)
           q == Append(users, x)
<1>1. /\ name \in Seq(Atoms) /\ w \in Seq(Atoms)
      /\ Len(name) \in Nat /\ Len(w) \in Nat /\ Len(name) # 0 /\ Len(w) # 0
  BY <1>b, <1>n, WordLength
<1>2. x \in User /\ x.username = name /\ x.password = w
  BY <1>1 DEF createUser, User
<1>3. ASSUME ~(mangled \/ Len(name) > 1 \/ Len(w) > 1)
      PROVE  Len(name) = 1 /\ Len(w) = 1
  <2>1. \A n \in Nat : n # 0 /\ ~(n > 1) => n = 1
    OBVIOUS
  <2>2. QED
    BY <1>1, <1>3, <2>1
<1> HIDE DEF x
<1>4. /\ q \in Seq(User) /\ Len(q) = Len(users) + 1 /\ q[Len(users) + 1] = x
      /\ \A i \in 1..Len(users) : q[i] = users[i]
  BY <1>t, <1>2
<1> HIDE DEF q
<1>5. \A i \in 1..Len(q) : i \in 1..Len(users) \/ i = Len(users) + 1
  BY <1>t, <1>4
<1>6. ASSUME ~(mangled \/ Len(name) > 1 \/ Len(w) > 1)
      PROVE  ShortList(q) /\ Clean(file)
  <2>1. ShortList(users) /\ Clean(file)
    BY <1>6 DEF UserInv, Honest
  <2>2. \A i \in 1..Len(q) : Len(q[i].username) = 1 /\ Len(q[i].password) = 1
    BY <1>2, <1>3, <1>4, <1>5, <1>6, <2>1 DEF ShortList
  <2>3. \A i, j \in 1..Len(q) : q[i].username = q[j].username => i = j
    BY <1>n, <1>2, <1>4, <1>5, <2>1 DEF ShortList
  <2>4. QED
    BY <1>4, <2>1, <2>2, <2>3 DEF ShortList
<1>7. Len(users) <= Len(q)
  BY <1>t, <1>4
<1>8. Grown(users, q)
  BY <1>4, <1>7 DEF Grown
<1>9. QED
  BY <1>4, <1>6, <1>8 DEF Registered, q, x

LEMMA RegisterInv ==
  ASSUME UserInv, RegisterPassword \/ RegisterKilled
  PROVE  UserInv'
<1>s. /\ users \in Seq(User) /\ file \in Seq(FileLine)
      /\ faults \in 0..MaxFaults /\ mangled \in BOOLEAN
      /\ TypeOK
  BY DEF UserInv, TypeOK
<1>t. /\ users \in Seq(User) /\ Len(users) \in Nat /\ file \in Seq(FileLine)
      /\ faults \in 0..MaxFaults /\ mangled \in BOOLEAN
      /\ TypeOK
  BY <1>s
<1>n. /\ name \in Leftovers /\ \A i \in 1..Len(users) : users[i].username # name
      /\ at = "register password" /\ user = NULL
  BY DEF UserInv, TypeOK, Registering, RegisterPassword, RegisterKilled
<1>b. Buffer \subseteq Leftovers
  BY <1>t, InputType
<1>1. ASSUME NEW w \in Buffer
      PROVE  /\ Registered(w) \in Seq(User) /\ Grown(users, Registered(w))
             /\ ~(mangled \/ Len(name) > 1 \/ Len(w) > 1) =>
                  ShortList(Registered(w)) /\ Clean(file)
  BY <1>1, RegisterGrows
<1>2. CASE RegisterKilled
  <2>1. PICK w \in Buffer :
          /\ mangled' = (mangled \/ Len(name) > 1 \/ Len(w) > 1)
          /\ KilledSaving(Registered(w))
    BY <1>2 DEF RegisterKilled
  <2>2. /\ file' \in PartOf(Registered(w)) /\ Gone("off") /\ ~agree'
        /\ faults' \in 0..MaxFaults
    BY <1>t, <2>1, BoundsAssumption DEF KilledSaving, Gone, Fault
  <2>3. file' \in Seq(FileLine) /\ (~mangled' => Clean(file'))
    BY <1>t, <1>1, <2>1, <2>2, SavedFile
  <2>4. mangled' \in BOOLEAN
    BY <1>t, <2>1
  <2>5. QED
    BY <2>2, <2>3, <2>4, GoneInv
<1>3. CASE RegisterPassword
  <2>1. pending' \in Words \cup {<<>>} /\ eof' \in BOOLEAN
    BY <1>t, <1>3, InputType DEF RegisterPassword, ReadScore
  <2>2. ASSUME NEW w \in Buffer, Len(users) < MaxUsers,
               mangled' = (mangled \/ Len(name) > 1 \/ Len(w) > 1),
               UNCHANGED <<isLoggedIn, choice, user, wrongCounts>>,
               name' = <<Empty>>, saveUsers(Registered(w))
        PROVE  UserInv'
    <3>1. /\ users' = Registered(w) /\ at' = "menu" /\ agree' \in BOOLEAN
          /\ loaded' \in BOOLEAN /\ file' \in Seq(FileLine)
          /\ faults' \in 0..MaxFaults /\ Honest' /\ Recorded'
      BY <1>1, <2>2, SaveUsers
    <3>2. users' \in Seq(User) /\ mangled' \in BOOLEAN
      BY <1>t, <1>1, <2>2, <3>1
    <3>3. TypeOK'
      BY <1>t, <1>n, <2>1, <2>2, <3>1, <3>2, NullUser, LeftoversAssumption DEF TypeOK
    <3>4. QED
      BY <3>1, <3>3 DEF UserInv, Registering
  <2>3. ASSUME name' = <<Empty>>, at' = "menu",
               UNCHANGED <<users, isLoggedIn, choice, user, wrongCounts, file,
                           loaded, agree, mangled, faults>>
        PROVE  UserInv'
    <3>1. TypeOK'
      BY <1>t, <1>n, <2>1, <2>3, NullUser, LeftoversAssumption DEF TypeOK
    <3>2. QED
      BY <2>3, <3>1, KeepsList DEF Registering
  <2>4. QED
    BY <1>3, <2>2, <2>3 DEF RegisterPassword
<1>4. QED
  BY <1>2, <1>3
(* The list with one user blocked, which stays as plain as it was.         *)
LEMMA BlockedUsers ==
  ASSUME UserInv, user # NULL
  PROVE  /\ user \in 1..Len(users) /\ users \in Seq(User)
         /\ Blocked \in Seq(User) /\ Len(Blocked) = Len(users)
         /\ Blocked[user].status = 1
         /\ \A i \in 1..Len(users) :
              /\ Blocked[i].username = users[i].username
              /\ Blocked[i].password = users[i].password
              /\ Blocked[i].status \in {users[i].status, 1}
         /\ Grown(users, Blocked)
         /\ ShortList(users) => ShortList(Blocked)
<1>1. users \in Seq(User) /\ user \in NULL .. Len(users) /\ user # NULL
  BY DEF UserInv, TypeOK
<1>s. users \in Seq(User)
  BY DEF UserInv, TypeOK
<1>2. Len(users) \in Nat
  BY <1>s
<1>3. user \in 1..Len(users)
  BY <1>1, <1>2 DEF NULL
<1> DEFINE x == [users[user] EXCEPT !.status = 1]
<1>4. users[user] \in User
  BY <1>s, <1>3
<1>5. /\ x \in User /\ x.status = 1
      /\ x.username = users[user].username /\ x.password = users[user].password
  BY <1>4 DEF User
<1>6. Blocked = [users EXCEPT ![user] = x]
  BY DEF Blocked
<1> HIDE DEF x
<1>7. /\ Blocked \in Seq(User) /\ Len(Blocked) = Len(users) /\ Blocked[user] = x
      /\ \A i \in 1..Len(users) : i # user => Blocked[i] = users[i]
  BY <1>s, <1>3, <1>5, <1>6
<1>8. \A i \in 1..Len(users) :
        /\ Blocked[i].username = users[i].username
        /\ Blocked[i].password = users[i].password
        /\ Blocked[i].status \in {users[i].status, 1}
  BY <1>5, <1>7
<1>9. ASSUME ShortList(users) PROVE ShortList(Blocked)
  <2>1. \A i \in 1..Len(users) : Blocked[i] \in User
    BY <1>s, <1>5, <1>7
  <2>2. QED
    BY <1>7, <1>8, <1>9, <2>1 DEF ShortList
<1>10. Grown(users, Blocked)
  BY <1>2, <1>7, <1>8 DEF Grown
<1>11. QED
  BY <1>s, <1>3, <1>5, <1>7, <1>8, <1>9, <1>10

LEMMA BlockInv ==
  ASSUME UserInv, BlockUser \/ BlockKilled
  PROVE  UserInv'
<1>t. /\ users \in Seq(User) /\ file \in Seq(FileLine)
      /\ faults \in 0..MaxFaults /\ mangled \in BOOLEAN /\ TypeOK
  BY DEF UserInv, TypeOK
<1>b. /\ Blocked \in Seq(User) /\ Grown(users, Blocked) /\ UNCHANGED mangled
      /\ ~mangled => ShortList(Blocked) /\ Clean(file)
  <2>1. user # NULL /\ UNCHANGED mangled
    BY <1>t DEF BlockUser, BlockKilled, LastTry, TypeOK
  <2>2. QED
    BY <2>1, BlockedUsers DEF UserInv, Honest
<1>1. CASE BlockKilled
  <2>1. /\ file' \in PartOf(Blocked) /\ Gone("off") /\ ~agree'
        /\ faults' \in 0..MaxFaults
    BY <1>t, <1>1, BoundsAssumption DEF BlockKilled, KilledSaving, Gone, Fault
  <2>2. file' \in Seq(FileLine) /\ (~mangled' => Clean(file'))
    BY <1>t, <1>b, <2>1, SavedFile
  <2>3. QED
    BY <1>t, <1>b, <2>1, <2>2, GoneInv
<1>2. CASE BlockUser
  <2>1. PICK w \in Buffer : ReadWord(w)
    BY <1>2 DEF BlockUser, Wrong
  <2>2. pending' = <<>> /\ eof' \in BOOLEAN
    BY <1>t, <2>1, InputType
  <2>3. /\ users' = Blocked /\ at' = "menu" /\ agree' \in BOOLEAN
        /\ loaded' \in BOOLEAN /\ file' \in Seq(FileLine)
        /\ faults' \in 0..MaxFaults /\ Honest' /\ Recorded'
    <3>1. saveUsers(Blocked)
      BY <1>2 DEF BlockUser
    <3>2. QED
      BY <1>b, <3>1, SaveUsers
  <2>4. /\ user' = NULL /\ wrongCounts' = 0
        /\ UNCHANGED <<isLoggedIn, choice, name, mangled>>
    BY <1>2 DEF BlockUser
  <2>5. 0 \in 0..MaxWrong
    BY DEF MaxWrong
  <2>6. TypeOK'
    BY <1>t, <1>b, <2>2, <2>3, <2>4, <2>5, NullUser DEF TypeOK
  <2>7. QED
    BY <2>3, <2>6 DEF UserInv, Registering
<1>3. QED
  BY <1>1, <1>2

LEMMA MenuInv ==
  ASSUME UserInv, Menu \/ Search
  PROVE  UserInv'
<1>t. users \in Seq(User) /\ TypeOK
  BY DEF UserInv, TypeOK
<1>1. CASE Menu
  <2>1. PICK c \in Choices \ {0} :
          /\ ReadNumber \/ NothingLeft \/ RefusedWord
          /\ choice' = c /\ Enter(c)
    BY <1>1 DEF Menu
  <2>2. pending' \in Words \cup {<<>>} /\ eof' \in BOOLEAN
    BY <1>t, <2>1, InputType
  <2>3. at' \in {"menu", "register name", "sign in name", "search name"}
    BY <2>1 DEF Enter
  <2>4. /\ at = "menu" /\ choice' \in Choices
        /\ UNCHANGED <<users, isLoggedIn, name, user, wrongCounts, file, loaded, agree,
                       mangled, faults>>
    BY <1>1, <2>1 DEF Menu
  <2>5. TypeOK' /\ Registering'
    BY <1>t, <2>2, <2>3, <2>4 DEF TypeOK, Registering
  <2>6. QED
    BY <2>4, <2>5, KeepsList
<1>2. CASE Search
  <2>1. pending' = <<>> /\ eof' \in BOOLEAN
    BY <1>t, <1>2, InputType DEF Search
  <2>2. TypeOK' /\ Registering'
    BY <1>t, <1>2, <2>1 DEF Search, local, TypeOK, Registering
  <2>3. QED
    BY <1>2, <2>2, KeepsList DEF Search
<1>3. QED
  BY <1>1, <1>2

LEMMA NameInv ==
  ASSUME UserInv, RegisterName \/ SignInName
  PROVE  UserInv'
<1>t. users \in Seq(User) /\ TypeOK
  BY DEF UserInv, TypeOK
<1>r. /\ \A w : ReadWord(w) => pending' = <<>> /\ eof' \in BOOLEAN
      /\ Buffer \subseteq Leftovers
  BY <1>t, InputType
<1>1. CASE RegisterName
  <2>1. PICK w \in Buffer :
          /\ ReadWord(w)
          /\ IF findUser(users, w) = NULL
               THEN at' = "register password" /\ name' = w
               ELSE at' = "menu" /\ UNCHANGED name
    BY <1>1 DEF RegisterName
  <2>2. /\ at = "register name"
        /\ UNCHANGED <<users, isLoggedIn, choice, user, wrongCounts, file, loaded, agree,
                       mangled, faults>>
    BY <1>1 DEF RegisterName
  <2>3. TypeOK'
    BY <1>t, <1>r, <2>1, <2>2 DEF TypeOK
  <2>4. Registering'
    BY <1>t, <2>1, <2>2, FindUser DEF Registering
  <2>5. QED
    BY <2>2, <2>3, <2>4, KeepsList
<1>2. CASE SignInName
  <2>1. PICK w \in Buffer :
          /\ ReadWord(w)
          /\ \/ /\ findUser(users, w) # NULL
                /\ at' = "sign in password" /\ user' = findUser(users, w)
             \/ at' = "menu" /\ UNCHANGED user
    BY <1>2 DEF SignInName
  <2>2. /\ at = "sign in name"
        /\ UNCHANGED <<users, isLoggedIn, choice, name, wrongCounts, file, loaded, agree,
                       mangled, faults>>
    BY <1>2 DEF SignInName
  <2>3. findUser(users, w) \in NULL .. Len(users)
    BY <1>t, FindUser DEF NULL
  <2>4. TypeOK' /\ Registering'
    BY <1>t, <1>r, <2>1, <2>2, <2>3 DEF TypeOK, Registering
  <2>5. QED
    BY <2>2, <2>4, KeepsList
<1>3. QED
  BY <1>1, <1>2

LEMMA PasswordInv ==
  ASSUME UserInv, RightPassword \/ WrongPassword
  PROVE  UserInv'
<1>t. users \in Seq(User) /\ TypeOK
  BY DEF UserInv, TypeOK
<1>r. \A w : ReadWord(w) => pending' = <<>> /\ eof' \in BOOLEAN
  BY <1>t, InputType
<1>1. CASE RightPassword
  <2>1. 0 \in 0..MaxWrong /\ NULL \in NULL .. Len(users)
    BY <1>t, NullUser DEF MaxWrong
  <2>2. TypeOK' /\ Registering'
    BY <1>t, <1>r, <1>1, <2>1 DEF RightPassword, TypeOK, Registering
  <2>3. QED
    BY <1>1, <2>2, KeepsList DEF RightPassword
<1>2. CASE WrongPassword
  <2>1. pending' = <<>> /\ eof' \in BOOLEAN
    BY <1>r, <1>2 DEF WrongPassword, Wrong
  <2>2. wrongCounts' \in 0..MaxWrong
    <3>1. /\ wrongCounts \in 0..MaxWrong /\ wrongCounts < MaxWrong
          /\ wrongCounts' = wrongCounts + 1
      BY <1>t, <1>2 DEF WrongPassword, TypeOK
    <3>2. QED
      BY <3>1 DEF MaxWrong
  <2>3. TypeOK' /\ Registering'
    BY <1>t, <1>2, <2>1, <2>2 DEF WrongPassword, TypeOK, Registering
  <2>4. QED
    BY <1>2, <2>3, KeepsList DEF WrongPassword
<1>3. QED
  BY <1>1, <1>2

LEMMA UserStep == ASSUME UserInv, [Next]_vars PROVE UserInv'
<1>t. /\ users \in Seq(User) /\ file \in Seq(FileLine) /\ TypeOK
      /\ mangled \in BOOLEAN /\ faults \in 0..MaxFaults
      /\ ~mangled => Clean(file)
  BY DEF UserInv, TypeOK, Honest
<1>1. CASE Quit \/ Kill
  <2>1. Gone("off") /\ UNCHANGED <<file, mangled>> /\ faults' \in 0..MaxFaults
    BY <1>t, <1>1, BoundsAssumption DEF Quit, Kill, Fault
  <2>2. QED
    BY <1>t, <2>1, GoneInv
<1>2. CASE CloseInput
  <2>1. TypeOK' /\ Registering'
    BY <1>t, <1>2 DEF CloseInput, local, TypeOK, Registering, UserInv
  <2>2. QED
    BY <1>2, <2>1, KeepsList DEF CloseInput
<1>3. CASE RegisterNoMemory
  <2>1. pending' \in Words \cup {<<>>} /\ eof' \in BOOLEAN
    BY <1>t, <1>3, InputType DEF RegisterNoMemory, ReadScore
  <2>2. faults' \in 0..MaxFaults
    <3>1. Fault
      BY <1>3 DEF RegisterNoMemory
    <3>2. QED
      BY <1>t, <3>1, BoundsAssumption DEF Fault
  <2>3. TypeOK' /\ Registering'
    BY <1>t, <1>3, <2>1, <2>2, LeftoversAssumption
    DEF RegisterNoMemory, TypeOK, Registering
  <2>4. QED
    BY <1>3, <2>3, KeepsList DEF RegisterNoMemory
<1>4. CASE UNCHANGED vars
  <2>1. TypeOK' /\ Registering'
    BY <1>t, <1>4 DEF vars, local, input, TypeOK, Registering, UserInv
  <2>2. QED
    BY <1>4, <2>1, KeepsList DEF vars
<1>5. QED
  BY <1>1, <1>2, <1>3, <1>4, StartInv, RegisterInv, BlockInv, MenuInv, NameInv,
     PasswordInv
  DEF Next, Program

(* The invariant holds in every reachable state. *)
THEOREM UserInvHolds == Spec => []UserInv
BY UserInit, UserStep, PTL DEF Spec

-------------------------------------------------------------------------------
(* The properties                                                          *)

(* Types, for any words, any files the program may have left and any       *)
(* number of failures.                                                     *)
THEOREM TypeCorrect == Spec => []TypeOK
<1>1. UserInv => TypeOK
  BY DEF UserInv
<1>2. QED
  BY <1>1, UserInvHolds, PTL

(* What a start would find in user.txt is in the memory of a run that has  *)
(* read it all, whatever saves failed; and after a complete load or save it*)
(* would find every plain account of memory, whatever the other words are. *)
THEOREM FileAgreesHolds == Spec => []FileAgrees
<1>1. ASSUME UserInv PROVE FileAgrees
  <2>t. users \in Seq(User) /\ DOMAIN users = 1..Len(users)
    <3>1. users \in Seq(User)
      BY <1>1 DEF UserInv, TypeOK
    <3>2. QED
      BY <3>1
  <2>1. loaded => \A x \in Accounts(file) : Holds(Lines(users), x)
    BY <1>1 DEF UserInv, Recorded
  <2>2. agree => file = Lines(users) \/ users = Load(file)
    BY <1>1 DEF UserInv, Recorded
  <2>3. ASSUME file = Lines(users), NEW i \in 1..Len(users), Plain(users[i])
        PROVE  users[i] \in Accounts(file)
    <3>1. PlainUser(users[i])
      BY <2>t, <2>3, PlainUsers
    <3>2. /\ file \in Seq(FileLine) /\ Len(file) = Len(users)
          /\ file[i] = Line(users[i])
      BY <2>t, <2>3, WrittenLines
    <3>3. QED
      BY <3>1, <3>2, WrittenLine, AccountsOf
  <2>4. ASSUME users = Load(file), NEW i \in 1..Len(users)
        PROVE  users[i] \in Accounts(file)
    BY <2>t, <2>4 DEF Accounts
  <2>5. ASSUME file = Lines(users), \A i \in 1..Len(users) : Plain(users[i])
        PROVE  Load(file) = users
    <3>1. \A i \in 1..Len(users) : PlainUser(users[i])
      BY <2>t, <2>5, PlainUsers
    <3>2. QED
      BY <2>t, <2>5, <3>1, LoadSaved
  <2>6. QED
    BY <2>t, <2>1, <2>2, <2>3, <2>4, <2>5 DEF FileAgrees
<1>2. QED
  BY <1>1, UserInvHolds, PTL

(* Names stay apart, across restarts and partial loads and saves.          *)
THEOREM NamesUniqueHold == Spec => []NamesUnique
<1>1. UserInv => NamesUnique
  BY DEF UserInv, Honest, ShortList, NamesUnique
<1>2. QED
  BY <1>1, UserInvHolds, PTL

(* A sign-in that has asked for a password ends in a login or a block.     *)
THEOREM SignInDecidesHolds == Spec => SignInDecides
<1>1. ASSUME UserInv, [Next]_vars, at = "sign in password", at' = "menu"
      PROVE  isLoggedIn' \/ users'[user].status = 1
  <2>1. CASE BlockUser
    <3>1. user # NULL
      BY <1>1 DEF UserInv, TypeOK
    <3>2. users' = Blocked
      BY <2>1 DEF BlockUser, saveUsers
    <3>3. QED
      BY <1>1, <3>1, <3>2, BlockedUsers
  <2>2. CASE RightPassword
    BY <2>2 DEF RightPassword
  <2>3. ASSUME ~BlockUser, ~RightPassword PROVE FALSE
    BY <1>1, <2>3
    DEF Next, Program, Menu, Quit, RegisterName, RegisterPassword, SignInName,
        WrongPassword, Search, CloseInput, StartLoaded, StartUnread,
        RegisterNoMemory, RegisterKilled, BlockKilled, KilledSaving, Kill, Gone,
        Off, vars
  <2>4. QED
    BY <2>1, <2>2, <2>3
<1>2. QED
  BY <1>1, UserInvHolds, PTL DEF Spec, SignInDecides

(* A line that a save has left, in the name of an account that memory held.*)
LEMMA OneOfAName ==
  ASSUME users \in Seq(User), NEW us, Grown(users, us), ShortList(us),
         NEW g \in PartOf(us) \cup {Lines(us)},
         NEW x, Holds(Lines(users), x),
         NEW y \in Accounts(g), y.username = x.username
  PROVE  Still(x, y)
<1>1. /\ us \in Seq(User) /\ Len(us) \in Nat /\ Len(users) \in Nat
      /\ Len(users) <= Len(us)
  <2>1. us \in Seq(User) /\ Len(users) <= Len(us)
    BY DEF Grown
  <2>2. QED
    BY <2>1
<1>2. PICK j \in 1..Len(us) : Parses(Line(us[j])) /\ y = Parse(Line(us[j]))
  BY <1>1, HeldSaved
<1>3. PICK z \in Accounts(Lines(users)) : Still(x, z)
  BY DEF Holds
<1>4. PICK i \in 1..Len(users) : Parses(Line(users[i])) /\ z = Parse(Line(users[i]))
  BY <1>3, HeldSaved
<1>5. /\ i \in 1..Len(us)
      /\ us[i].username = users[i].username /\ us[i].password = users[i].password
      /\ us[i].status \in {users[i].status, 1}
  BY <1>1 DEF Grown
<1>6. Parses(Line(us[i])) /\ Still(z, Parse(Line(us[i])))
  BY <1>4, <1>5, GrownLine
<1>7. \A k \in 1..Len(us) : Parse(Line(us[k])).username = us[k].username
  <2> SUFFICES ASSUME NEW k \in 1..Len(us)
               PROVE  Parse(Line(us[k])).username = us[k].username
    OBVIOUS
  <2>1. /\ us[k] \in User /\ us[k].username \in Seq(Atoms)
        /\ Len(us[k].username) = 1 /\ Len(us[k].password) = 1
    <3>1. us[k] \in User
      BY <1>1
    <3>2. QED
      BY <3>1 DEF ShortList, User
  <2>2. Line(us[k]).text[1] = us[k].username[1]
    BY <2>1, ShortLine
  <2>3. us[k].username = <<us[k].username[1]>>
    BY <2>1
  <2>4. QED
    BY <2>2, <2>3 DEF Parse
<1>8. us[i].username = us[j].username
  BY <1>2, <1>3, <1>5, <1>6, <1>7 DEF Still
<1>9. i = j
  BY <1>5, <1>8 DEF ShortList
<1>10. QED
  BY <1>2, <1>3, <1>6, <1>9 DEF Still

(* A word with a ':' is not forgotten.                                    *)
LEMMA MangledStays == ASSUME UserInv, [Next]_vars, ~mangled' PROVE ~mangled
BY DEF Next, Program, Menu, Quit, RegisterName, RegisterPassword, SignInName,
       RightPassword, WrongPassword, BlockUser, Search, CloseInput, StartLoaded,
       StartUnread, RegisterNoMemory, RegisterKilled, BlockKilled, Kill, vars

(* What one step does to the file, and which list it was saved from.       *)
LEMMA FileStep ==
  ASSUME UserInv, [Next]_vars
  PROVE  \/ file' = file /\ (mangled' = mangled)
         \/ file' = <<>> /\ faults' # faults
         \/ \E us : /\ Grown(users, us) /\ (~mangled' => ShortList(us))
                    /\ \/ file' = Lines(us)
                       \/ file' \in PartOf(us) \cup {file} /\ faults' # faults
<1>t. users \in Seq(User) /\ Len(users) \in Nat /\ TypeOK /\ faults \in Nat
  <2>1. users \in Seq(User) /\ TypeOK /\ faults \in 0..MaxFaults
    BY DEF UserInv, TypeOK
  <2>2. QED
    BY <2>1
<1>f. Fault => faults' # faults
  BY <1>t DEF Fault
<1>1. ASSUME NEW us, saveUsers(us) \/ KilledSaving(us)
      PROVE  \/ file' = Lines(us)
             \/ file' \in PartOf(us) \cup {file} /\ faults' # faults
  BY <1>1, <1>f DEF saveUsers, KilledSaving
<1>2. CASE RegisterKilled \/ RegisterPassword
  <2>1. CASE UNCHANGED <<file, mangled>>
    BY <2>1
  <2>2. ASSUME NEW w \in Buffer, saveUsers(Registered(w)) \/ KilledSaving(Registered(w)),
               mangled' = (mangled \/ Len(name) > 1 \/ Len(w) > 1)
        PROVE  \E us : /\ Grown(users, us) /\ (~mangled' => ShortList(us))
                       /\ \/ file' = Lines(us)
                          \/ file' \in PartOf(us) \cup {file} /\ faults' # faults
    <3>1. Grown(users, Registered(w)) /\ (~mangled' => ShortList(Registered(w)))
      BY <1>2, <2>2, RegisterGrows
    <3>2. QED
      BY <1>1, <2>2, <3>1
  <2>3. QED
    BY <1>2, <2>1, <2>2 DEF RegisterKilled, RegisterPassword
<1>3. CASE BlockKilled \/ BlockUser
  <2>1. user # NULL /\ UNCHANGED mangled
    BY <1>t, <1>3 DEF BlockUser, BlockKilled, LastTry, TypeOK
  <2>2. saveUsers(Blocked) \/ KilledSaving(Blocked)
    BY <1>3 DEF BlockUser, BlockKilled
  <2>3. Grown(users, Blocked) /\ (~mangled' => ShortList(Blocked))
    BY <2>1, BlockedUsers DEF UserInv, Honest
  <2>4. QED
    BY <1>1, <2>2, <2>3
<1>4. CASE StartUnread
  <2>1. file' \in {file, <<>>} /\ Fault /\ UNCHANGED mangled
    BY <1>4 DEF StartUnread
  <2>2. QED
    BY <1>f, <2>1
<1>5. ASSUME ~(RegisterKilled \/ RegisterPassword), ~(BlockKilled \/ BlockUser),
             ~StartUnread
      PROVE  file' = file /\ mangled' = mangled
  BY <1>5
  DEF Next, Program, Menu, Quit, RegisterName, SignInName, RightPassword,
      WrongPassword, Search, CloseInput, StartLoaded, RegisterNoMemory, Kill, vars
<1>6. QED
  BY <1>2, <1>3, <1>4, <1>5

(* An account of the file that memory holds.                               *)
LEMMA AccountKept ==
  ASSUME UserInv, [Next]_vars, NEW x \in Accounts(file),
         loaded \/ Holds(Lines(users), x)
  PROVE  /\ faults' = faults => Holds(file', x)
         /\ ~mangled' =>
              \A y \in Accounts(file') : y.username = x.username => Still(x, y)
<1>t. users \in Seq(User) /\ file \in Seq(FileLine)
  BY DEF UserInv, TypeOK
<1>h. Holds(Lines(users), x)
  BY DEF UserInv, Recorded
<1>0. Still(x, x) /\ Holds(file, x)
  BY DEF Still, Holds
<1>1. ASSUME file' = file, ~mangled, NEW y \in Accounts(file'),
             y.username = x.username
      PROVE  Still(x, y)
  <2>1. Clean(file)
    BY <1>1 DEF UserInv, Honest
  <2>2. PICK i \in 1..Len(file), j \in 1..Len(file) :
          /\ Parses(file[i]) /\ x = Parse(file[i])
          /\ Parses(file[j]) /\ y = Parse(file[j])
    BY <1>t, <1>1, AccountsOf
  <2>3. file[i].text[1] = file[j].text[1]
    <3>1. x.username = <<file[i].text[1]>> /\ y.username = <<file[j].text[1]>>
      BY <2>2 DEF Parse
    <3>2. QED
      BY <1>1, <3>1
  <2>4. i = j
    BY <2>1, <2>2, <2>3 DEF Clean
  <2>5. QED
    BY <1>0, <2>2, <2>4
<1>2. CASE file' = file /\ mangled' = mangled
  BY <1>0, <1>1, <1>2
<1>3. CASE file' = <<>> /\ faults' # faults
  <2>1. <<>> \in Seq(FileLine) /\ Len(<<>>) = 0
    OBVIOUS
  <2>2. \A y : y \notin Accounts(<<>>)
    <3> DEFINE f == <<>>
    <3>1. f \in Seq(FileLine) /\ ~\E j \in 1..Len(f) : TRUE
      BY <2>1
    <3> HIDE DEF f
    <3>2. \A y : y \notin Accounts(f)
      BY <3>1, AccountsOf
    <3>3. QED
      BY <3>2 DEF f
  <2>3. QED
    BY <1>3, <2>2
<1>4. ASSUME NEW us, Grown(users, us), ~mangled' => ShortList(us),
             \/ file' = Lines(us)
             \/ file' \in PartOf(us) \cup {file} /\ faults' # faults
      PROVE  /\ faults' = faults => Holds(file', x)
             /\ ~mangled' =>
                  \A y \in Accounts(file') : y.username = x.username => Still(x, y)
  <2>1. faults' = faults => Holds(file', x)
    BY <1>t, <1>h, <1>4, HeldOn
  <2>2. ASSUME ~mangled', NEW y \in Accounts(file'), y.username = x.username
        PROVE  Still(x, y)
    <3>1. CASE file' \in PartOf(us) \cup {Lines(us)}
      BY <1>t, <1>h, <1>4, <2>2, <3>1, OneOfAName
    <3>2. CASE file' = file
      <4>1. ~mangled
        BY <2>2, MangledStays
      <4>2. QED
        BY <1>1, <2>2, <3>2, <4>1
    <3>3. QED
      BY <1>4, <3>1, <3>2
  <2>3. QED
    BY <2>1, <2>2
<1>5. QED
  BY <1>2, <1>3, <1>4, FileStep

(* Rewriting user.txt loses no account that was read, but in a step that   *)
(* fails, and reopens or mixes none.                                       *)
THEOREM AccountsEndureHolds == Spec => AccountsEndure
<1>1. ASSUME UserInv, [Next]_vars
      PROVE  \A x \in Accounts(file) : loaded \/ Holds(Lines(users), x) =>
               /\ faults' = faults => Holds(file', x)
               /\ ~mangled' =>
                    \A y \in Accounts(file') : y.username = x.username => Still(x, y)
  BY <1>1, AccountKept
<1>2. QED
  BY <1>1, UserInvHolds, PTL DEF Spec, AccountsEndure
================================================================================
