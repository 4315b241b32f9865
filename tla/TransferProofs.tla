----------------------------- MODULE TransferProofs ----------------------------
(***************************************************************************)
(* Theorems about a connection of HW6, for chunks of any size, any strings *)
(* and files, and any number of requests, faults and changes: where the    *)
(* two processes are in the frames of the protocol, and what the digests   *)
(* on both sides stand for while nothing has failed.                       *)
(***************************************************************************)
EXTENDS Transfer, TLAPS, SequenceTheorems

Units == Data \cup Headers

Asking == {"text", "letters", "digits", "opened", "sending", "md5"}
StringAt == {"text", "letters", "digits"}
FileAt == {"opened", "sending", "md5"}

Lines == [kind : {"error", "letters", "digits", "md5", "fragment"},
          of : Seq(Units) \cup {Zeros}]

TypeInv ==
  /\ at \in {"off", "menu"} \cup Asking \cup Over
  /\ child \in {"none", "header", "string", "digits", "file", "saved", "closed"}
  /\ asked \in [name : Names \cup {None}, bytes : Seq(Data)]
  /\ unsent \in Seq(Data)
  /\ need \in Nat
  /\ word \in Words \cup {None}
  /\ received \in [Words -> Seq(Units)]
  /\ toServer \in Seq(Units)
  /\ toClient \in Seq(Lines)
  /\ changes \in Nat
  /\ ctx \in [Side -> [open : BOOLEAN, data : Seq(Units)]]
  /\ due \in Seq(Units) \cup {Zeros}

(* Of the Size bytes of the last request, those up to Out are sent. *)
Size == Len(asked.bytes)
Out == Size - Len(unsent)
Sent == SubSeq(asked.bytes, 1, Out)

RequestInv ==
  /\ Len(unsent) <= Size
  /\ unsent = SubSeq(asked.bytes, Out + 1, Size)
  /\ at = "text" => unsent = asked.bytes
  /\ at \in StringAt => asked.name = None /\ asked.bytes # <<>>
  /\ at \in FileAt => asked.name \in Names
  /\ at \in {"letters", "digits", "md5"} => unsent = <<>>

(* The header of the last request. *)
Declared(h) ==
  /\ h \in Headers
  /\ h.name = asked.name
  /\ h.kind = IF asked.name = None THEN "STR" ELSE "FILE"
  /\ asked.name = None \/ changes = 0 => h.size = Size

OneLine(kind) == Len(toClient) = 1 /\ toClient[1].kind = kind

-------------------------------------------------------------------------------
(* Where the two processes are.                                            *)

Idle ==
  /\ at \in {"off", "menu", "done"}
  /\ child \in {"none", "header"}
  /\ at = "off" => child = "none"
  /\ toServer = <<>> /\ toClient = <<>>

Asked ==
  /\ at \in Asking \ {"digits"}
  /\ child \in {"none", "header"}
  /\ toServer # <<>> /\ Declared(Head(toServer)) /\ Tail(toServer) = Sent
  /\ toClient = <<>>

Reading ==
  /\ at \in {"text", "letters"}
  /\ child = "string"
  /\ need = Size
  /\ toServer = Sent /\ toClient = <<>>

Replying ==
  /\ child = "digits"
  /\ toServer = <<>>
  /\ \/ at = "letters" /\ OneLine("letters")
     \/ at = "digits" /\ toClient = <<>>

Replied ==
  /\ child = "header"
  /\ toServer = <<>>
  /\ \/ at = "letters" /\ OneLine("error")
     \/ /\ at = "letters"
        /\ Len(toClient) = 2
        /\ toClient[1].kind = "letters" /\ toClient[2].kind = "digits"
     \/ at = "digits" /\ OneLine("digits")

Saving ==
  /\ at \in FileAt
  /\ child = "file"
  /\ word \in Words /\ word = First[asked.name]
  /\ LET k == Len(received[word])
     IN  /\ k <= Out
         /\ received[word] = SubSeq(asked.bytes, 1, k)
         /\ toServer = SubSeq(asked.bytes, k + 1, Out)
         /\ changes = 0 => need = Size - k
  /\ toClient = <<>>

Saved ==
  /\ at \in FileAt
  /\ child = "saved"
  /\ word \in Words /\ word = First[asked.name]
  /\ \E n \in 0..Size : received[word] = SubSeq(asked.bytes, 1, n)
  /\ toServer \in Seq(Data)
  /\ changes = 0 => toServer = <<>> /\ unsent = <<>>
  /\ toClient = <<>>

Digested ==
  /\ at \in FileAt
  /\ child = "header"
  /\ toServer \in Seq(Data)
  /\ changes = 0 => toServer = <<>> /\ unsent = <<>>
  /\ OneLine("md5")

(* The name is blank: the client waits for the end of the answer. *)
Refused ==
  /\ at \in FileAt
  /\ child = "header"
  /\ toServer \in Seq(Data)
  /\ OneLine("fragment")

(* Bytes of a file that grew are in the way of every later request. *)
Stray ==
  /\ at # "off"
  /\ child = "header"
  /\ changes > 0
  /\ toServer # <<>> /\ Head(toServer) \in Data
  /\ toClient = <<>>

(* Of the file that is on its way, what is saved and what is in the stream *)
(* follow each other; if the connection is reset, the stream is lost.      *)
OnDisk ==
  /\ word \in Words /\ word = First[asked.name]
  /\ LET k == Len(received[word])
     IN  /\ k <= Out
         /\ received[word] = SubSeq(asked.bytes, 1, k)
         /\ toServer \in {SubSeq(asked.bytes, k + 1, Out), <<>>}

Framed ==
  \/ Idle \/ Asked \/ Reading \/ Replying \/ Replied
  \/ Saving \/ Saved \/ Digested \/ Refused \/ Stray

Live == at \notin {"failed", "killed"} /\ child # "closed"

FrameInv == TypeInv /\ RequestInv /\ (Live => Framed)

-------------------------------------------------------------------------------
(* Parts of sequences.                                                     *)

LEMMA Part ==
  ASSUME NEW S, NEW s \in Seq(S), NEW i \in Nat, NEW j \in Nat,
         i <= j, j <= Len(s)
  PROVE  /\ SubSeq(s, i + 1, j) \in Seq(S)
         /\ Len(SubSeq(s, i + 1, j)) = j - i
         /\ \A x \in 1 .. j - i : SubSeq(s, i + 1, j)[x] = s[i + x]
<1>1. \A x \in i + 1 .. j : s[x] \in S
  BY LenProperties
<1>2. QED
  BY <1>1, SubSeqProperties

LEMMA EmptyPart ==
  ASSUME NEW s, NEW i \in Nat
  PROVE  SubSeq(s, i + 1, i) = <<>>
BY SubSeqEmpty

LEMMA Adjacent ==
  ASSUME NEW S, NEW s \in Seq(S), NEW i \in Nat, NEW j \in Nat, NEW k \in Nat,
         i <= j, j <= k, k <= Len(s)
  PROVE  SubSeq(s, i + 1, j) \o SubSeq(s, j + 1, k) = SubSeq(s, i + 1, k)
<1>1. /\ i + 1 \in 1 .. Len(s) + 1
      /\ j \in (i + 1) - 1 .. Len(s)
      /\ k \in j .. Len(s)
  BY LenProperties
<1>2. QED
  BY <1>1, ConcatAdjacentSubSeq

LEMMA PartOfPart ==
  ASSUME NEW S, NEW s \in Seq(S), NEW i \in Nat, NEW j \in Nat,
         i <= j, j <= Len(s),
         NEW a \in Nat, NEW b \in Nat, a <= b, b <= j - i
  PROVE  SubSeq(SubSeq(s, i + 1, j), a + 1, b) = SubSeq(s, (i + a) + 1, i + b)
<1> DEFINE t == SubSeq(s, i + 1, j)
           u == SubSeq(t, a + 1, b)
           v == SubSeq(s, (i + a) + 1, i + b)
<1>0. Len(s) \in Nat
  BY LenProperties
<1>1. /\ t \in Seq(S) /\ Len(t) = j - i
      /\ \A x \in 1 .. j - i : t[x] = s[i + x]
  BY Part
<1>2. /\ u \in Seq(S) /\ Len(u) = b - a
      /\ \A x \in 1 .. b - a : u[x] = t[a + x]
  <2> HIDE DEF t
  <2>1. b <= Len(t)
    BY <1>1
  <2>2. QED
    BY <1>1, <2>1, Part
<1>3. /\ v \in Seq(S) /\ Len(v) = b - a
      /\ \A x \in 1 .. b - a : v[x] = s[(i + a) + x]
  <2>1. i + a \in Nat /\ i + b \in Nat /\ i + a <= i + b /\ i + b <= Len(s)
        /\ (i + b) - (i + a) = b - a
    BY <1>0
  <2>2. QED
    BY <2>1, Part
<1>4. \A x \in 1 .. Len(u) : u[x] = v[x]
  <2> HIDE DEF t, u, v
  <2>1. TAKE x \in 1 .. Len(u)
  <2>2. x \in 1 .. b - a /\ a + x \in 1 .. j - i /\ i + (a + x) = (i + a) + x
    BY <1>2
  <2>3. QED
    BY <1>1, <1>2, <1>3, <2>2
<1>5. QED
  <2> HIDE DEF t, u, v
  <2>1. u = v
    BY <1>2, <1>3, <1>4, SeqEqual
  <2>2. QED
    BY <2>1 DEF t, u, v

(* A line read, and what is sent behind one. *)
LEMMA HeadAndTail ==
  ASSUME NEW S, NEW s \in Seq(S), s # <<>>
  PROVE  /\ Head(s) \in S
         /\ SubSeq(s, 2, Len(s)) = Tail(s)
         /\ Tail(s) \in Seq(S)
BY HeadTailProperties, TailIsSubSeq

LEMMA SendBehind ==
  ASSUME NEW S, NEW s \in Seq(S), NEW t \in Seq(S), s # <<>>
  PROVE  /\ s \o t \in Seq(S) /\ s \o t # <<>>
         /\ Head(s \o t) = Head(s)
         /\ Tail(s \o t) = Tail(s) \o t
<1>1. s \o t \in Seq(S) /\ s \o t # <<>>
  BY ConcatProperties, ConcatEqualIffEmpty, ConcatSimplifications
<1>2. Len(s) \in Nat \ {0} /\ Len(t) \in Nat /\ Len(s \o t) = Len(s) + Len(t)
  BY EmptySeq, LenProperties, ConcatProperties
<1>3. \A i \in 1 .. Len(s) + Len(t) :
        (s \o t)[i] = IF i <= Len(s) THEN s[i] ELSE t[i - Len(s)]
  BY ConcatProperties
<1>4. Head(s \o t) = Head(s)
  <2>1. (s \o t)[1] = s[1]
    BY <1>2, <1>3
  <2>2. QED
    BY <2>1, <1>1
<1>5. Tail(s \o t) = Tail(s) \o t
  <2> DEFINE u == Tail(s \o t)
             v == Tail(s) \o t
  <2>1. /\ u \in Seq(S) /\ Len(u) = Len(s) + Len(t) - 1
        /\ \A i \in 1 .. Len(u) : u[i] = (s \o t)[i + 1]
    BY <1>1, <1>2, HeadTailProperties
  <2>2. /\ Tail(s) \in Seq(S) /\ Len(Tail(s)) = Len(s) - 1
        /\ \A i \in 1 .. Len(Tail(s)) : Tail(s)[i] = s[i + 1]
    BY HeadTailProperties
  <2>3. /\ v \in Seq(S) /\ Len(v) = Len(Tail(s)) + Len(t)
        /\ \A i \in 1 .. Len(Tail(s)) + Len(t) :
             v[i] = IF i <= Len(Tail(s)) THEN Tail(s)[i] ELSE t[i - Len(Tail(s))]
    BY <2>2, ConcatProperties
  <2> HIDE DEF u, v
  <2>4. Len(u) = Len(v)
    BY <1>2, <2>1, <2>2, <2>3
  <2>5. \A i \in 1 .. Len(u) : u[i] = v[i]
    <3>1. TAKE i \in 1 .. Len(u)
    <3>2. i + 1 \in 1 .. Len(s) + Len(t) /\ i \in 1 .. Len(Tail(s)) + Len(t)
      BY <1>2, <2>1, <2>2
    <3>3. CASE i <= Len(s) - 1
      <4>1. u[i] = s[i + 1] /\ v[i] = Tail(s)[i] /\ i \in 1 .. Len(Tail(s))
        BY <1>2, <1>3, <2>1, <2>2, <2>3, <3>2, <3>3
      <4>2. QED
        BY <2>2, <4>1
    <3>4. CASE i > Len(s) - 1
      <4>1. u[i] = t[i + 1 - Len(s)] /\ v[i] = t[i - Len(Tail(s))]
        BY <1>2, <1>3, <2>1, <2>2, <2>3, <3>2, <3>4
      <4>2. i + 1 - Len(s) = i - Len(Tail(s))
        BY <1>2, <2>2, <3>2
      <4>3. QED
        BY <4>1, <4>2
    <3>5. QED
      BY <1>2, <3>2, <3>3, <3>4
  <2>6. u = v
    BY <2>1, <2>3, <2>4, <2>5, SeqEqual
  <2>7. QED
    BY <2>6 DEF u, v
<1>6. QED
  BY <1>1, <1>4, <1>5

-------------------------------------------------------------------------------
(* Types                                                                   *)

LEMMA Sides == Side = {"client", "server"}
BY TransferAssumption

LEMMA ByteSequences ==
  /\ Seq(Data) \subseteq Seq(Units)
  /\ \A s \in Strings : s \in Seq(Data) /\ s # <<>>
  /\ \A s \in Contents : s \in Seq(Data)
<1>1. \A s \in Seq(Data) : s \in Seq(Units)
  BY SeqMonotonic DEF Units
<1>2. ASSUME NEW s \in Strings PROVE s \in Seq(Data) /\ s # <<>>
  <2>1. s \in Seq(Data \ {NL}) /\ s # <<>>
    BY TransferAssumption
  <2>2. Data \ {NL} \subseteq Data
    OBVIOUS
  <2>3. QED
    BY <2>1, <2>2, SeqMonotonic
<1>3. QED
  BY <1>1, <1>2, TransferAssumption

LEMMA TruncatedType ==
  ASSUME NEW S, NEW s \in Seq(S), NEW t \in Truncated(s)
  PROVE  t \in Seq(S)
<1>1. Len(s) \in Nat
  BY LenProperties
<1>2. PICK n \in 0 .. Len(s) - 1 : t = SubSeq(s, 1, n)
  BY DEF Truncated
<1>3. t = SubSeq(s, 0 + 1, n) /\ n \in Nat /\ n <= Len(s)
  BY <1>1, <1>2
<1>4. QED
  BY <1>3, Part

ContextType == [open : BOOLEAN, data : Seq(Units)]

(* The calls of md5.c keep the contexts well typed. *)
LEMMA ContextCalls ==
  ASSUME ctx \in [Side -> ContextType], NEW s \in Side
  PROVE  /\ md5_init(s) => ctx' \in [Side -> ContextType]
         /\ \A d \in Seq(Units) : md5_update(s, d) => ctx' \in [Side -> ContextType]
         /\ \A d : md5_final(s, d) => ctx' \in [Side -> ContextType]
         /\ Abandon(s) => ctx' \in [Side -> ContextType]
         /\ \A t, d : md5_string(t, d) => ctx' = ctx
<1>1. NoContext \in ContextType
  BY EmptySeq DEF NoContext, ContextType
<1>2. [open |-> TRUE, data |-> <<>>] \in ContextType
  BY EmptySeq DEF ContextType
<1>3. \A d \in Seq(Units) : [ctx[s] EXCEPT !.data = @ \o d] \in ContextType
  BY ConcatProperties DEF ContextType
<1>4. QED
  BY <1>1, <1>2, <1>3
     DEF md5_init, md5_update, md5_final, Abandon, md5_string, Put, md5Vars

LEMMA InitType == Init => TypeInv
<1> SUFFICES ASSUME Init PROVE TypeInv
  OBVIOUS
<1>1. \A S : <<>> \in Seq(S)
  BY EmptySeq
<1>2. ctx \in [Side -> ContextType]
  BY <1>1 DEF Init, Md5Init, NoContext, ContextType
<1>3. QED
  BY <1>1, <1>2 DEF Init, TypeInv, ContextType

LEMMA ClientType ==
  ASSUME TypeInv, ClientNext
  PROVE  TypeInv'
<1>0. ctx \in [Side -> ContextType] /\ Side = {"client", "server"}
  BY Sides DEF TypeInv, ContextType
<1> USE DEF TypeInv, Asking, Over, ContextType
<1>1. ASSUME NEW a \in {"off", "menu"} \cup Asking \cup Over, at' = a,
             UNCHANGED <<asked, unsent, childVars, toServer, toClient, changes>>,
             ctx' \in [Side -> ContextType]
      PROVE  TypeInv'
  BY <1>1 DEF childVars
<1>2. CASE Connect
  BY <1>0, <1>1, <1>2 DEF Connect, md5Vars
<1>3. ASSUME NEW s \in Strings, TypeString(s) PROVE TypeInv'
  <2> DEFINE h == [kind |-> "STR", size |-> Len(s), name |-> None]
  <2>1. s \in Seq(Data) /\ h \in Units
    <3>1. s \in Seq(Data)
      BY ByteSequences
    <3>2. QED
      BY <3>1, LenProperties DEF Units, Headers
  <2>2. toServer' \in Seq(Units)
    <3>1. <<h>> \in Seq(Units) /\ toServer' = toServer \o <<h>>
      BY <1>3, <2>1 DEF TypeString, Ask, Send
    <3>2. QED
      BY <3>1, ConcatProperties
  <2>3. QED
    BY <1>3, <2>1, <2>2 DEF TypeString, Ask, childVars, md5Vars
<1>4. ASSUME NEW n \in Names, NEW seen \in Contents, NEW bytes \in Contents,
             TypeFile(n, seen, bytes)
      PROVE  TypeInv'
  <2> DEFINE h == [kind |-> "FILE", size |-> Len(seen), name |-> n]
  <2>1. seen \in Seq(Data) /\ bytes \in Seq(Data) /\ h \in Units
    <3>1. seen \in Seq(Data) /\ bytes \in Seq(Data)
      BY ByteSequences
    <3>2. QED
      BY <3>1, LenProperties DEF Units, Headers
  <2>2. toServer' \in Seq(Units)
    <3>1. <<h>> \in Seq(Units) /\ toServer' = toServer \o <<h>>
      BY <1>4, <2>1 DEF TypeFile, Ask, Send
    <3>2. QED
      BY <3>1, ConcatProperties
  <2>3. QED
    BY <1>4, <2>1, <2>2 DEF TypeFile, Ask, childVars, md5Vars
<1>5. CASE SendText
  <2>1. toServer' \in Seq(Units) /\ unsent' \in Seq(Data)
    BY <1>5, ByteSequences, ConcatProperties, EmptySeq DEF SendText, Send
  <2>2. QED
    BY <1>5, <2>1 DEF SendText, childVars, md5Vars
<1>6. CASE StartMd5
  <2>1. ctx' \in [Side -> ContextType]
    BY <1>0, <1>6, ContextCalls DEF StartMd5
  <2>2. QED
    BY <1>1, <1>6, <2>1 DEF StartMd5
<1>7. CASE SendChunk
  <2>0. Len(unsent) \in Nat /\ CHUNK \in Nat
    BY LenProperties, TransferAssumption
  <2>1. PICK n \in Nat : n <= Len(unsent) /\ Chunk = SubSeq(unsent, 0 + 1, n)
    BY <2>0 DEF Chunk, Min2
  <2>2. Chunk \in Seq(Data) /\ Len(Chunk) = n /\ Chunk \in Seq(Units)
    BY <2>1, Part, ByteSequences
  <2>3. toServer' \in Seq(Units)
    BY <1>7, <2>2, ConcatProperties DEF SendChunk, Send
  <2>4. unsent' \in Seq(Data)
    BY <1>7, <2>0, <2>1, <2>2, Part DEF SendChunk
  <2>5. ctx' \in [Side -> ContextType]
    BY <1>0, <1>7, <2>2, ContextCalls DEF SendChunk, Hashed
  <2>6. QED
    BY <1>7, <2>3, <2>4, <2>5 DEF SendChunk, childVars
<1>8. CASE EndOfFile
  <2>1. ctx' \in [Side -> ContextType]
    BY <1>0, <1>8, ContextCalls DEF EndOfFile
  <2>2. QED
    BY <1>1, <1>8, <2>1 DEF EndOfFile
<1>9. CASE HearError \/ HearLetters \/ HearMd5 \/ HearDigits
  <2>1. toClient # <<>> /\ toClient' = Tail(toClient)
    BY <1>9 DEF HearError, HearLetters, HearMd5, HearDigits, Line, Hear
  <2>2. toClient' \in Seq(Lines)
    BY <2>1, HeadTailProperties
  <2>3. ctx' = ctx
    BY <1>0, <1>9, ContextCalls
       DEF HearError, HearLetters, HearMd5, HearDigits, md5Vars
  <2>4. at' \in {"menu", "digits"}
        /\ UNCHANGED <<asked, unsent, childVars, toServer, changes>>
    BY <1>9 DEF HearError, HearLetters, HearMd5, HearDigits
  <2>5. QED
    BY <2>2, <2>3, <2>4 DEF childVars
<1>10. CASE Lost \/ ReadFails \/ KillClient
  <2>1. ctx' \in [Side -> ContextType]
    BY <1>0, <1>10, ContextCalls DEF Lost, ReadFails, KillClient
  <2>2. QED
    BY <1>1, <1>10, <2>1 DEF Lost, ReadFails, KillClient
<1>11. CASE Exit
  BY <1>0, <1>1, <1>11 DEF Exit, md5Vars
<1>12. QED
  BY <1>2, <1>3, <1>4, <1>5, <1>6, <1>7, <1>8, <1>9, <1>10, <1>11
     DEF ClientNext, ClientAuto

(* An answer line of well typed data. *)
LEMMA AnswerType ==
  ASSUME TypeInv, NEW of \in Seq(Units) \cup {Zeros},
         NEW kind \in {"error", "letters", "digits", "md5", "fragment"},
         Answer(kind, of)
  PROVE  toClient' \in Seq(Lines)
<1>1. [kind |-> kind, of |-> of] \in Lines
  BY DEF Lines
<1>2. QED
  BY <1>1, AppendProperties DEF TypeInv, Answer

(* What is left of the stream when the first n units are taken, and what   *)
(* was taken.                                                              *)
LEMMA TakeType ==
  ASSUME TypeInv, NEW n \in Nat, n <= Len(toServer), Take(n)
  PROVE  toServer' \in Seq(Units) /\ SubSeq(toServer, 1, n) \in Seq(Units)
<1>1. Len(toServer) \in Nat /\ toServer \in Seq(Units)
  BY LenProperties DEF TypeInv
<1>2. SubSeq(toServer, 0 + 1, n) \in Seq(Units)
  BY <1>1, Part
<1>3. SubSeq(toServer, n + 1, Len(toServer)) \in Seq(Units)
  BY <1>1, Part
<1>4. QED
  BY <1>2, <1>3 DEF Take

LEMMA WantedType ==
  ASSUME TypeInv
  PROVE  Wanted \in Nat /\ Wanted <= need /\ (need > 0 => Wanted > 0)
<1>1. CHUNK \in Nat \ {0} /\ need \in Nat
  BY TransferAssumption DEF TypeInv
<1>2. QED
  BY <1>1 DEF Wanted, Min2

(* A header line that is read. *)
LEMMA HeaderRead ==
  ASSUME TypeInv, NEW kind, Header(kind)
  PROVE  /\ child = "header" /\ toServer # <<>> /\ Head(toServer) \in Headers
         /\ Head(toServer).kind = kind
         /\ toServer' = Tail(toServer) /\ toServer' \in Seq(Units)
<1>1. toServer \in Seq(Units) /\ toServer # <<>>
  BY DEF TypeInv, Header
<1>2. /\ Head(toServer) \in Units
      /\ SubSeq(toServer, 2, Len(toServer)) = Tail(toServer)
      /\ Tail(toServer) \in Seq(Units)
  BY <1>1, HeadAndTail
<1>3. toServer' = SubSeq(toServer, 2, Len(toServer))
  BY DEF Header, Take
<1>4. QED
  BY <1>1, <1>2, <1>3 DEF Header, Units

LEMMA ChildType ==
  ASSUME TypeInv, ChildNext
  PROVE  TypeInv'
<1>0. /\ ctx \in [Side -> ContextType] /\ Side = {"client", "server"}
      /\ "server" \in Side
      /\ ContextType = [open : BOOLEAN, data : Seq(Units)]
  BY Sides DEF TypeInv, ContextType
<1> USE DEF TypeInv, ContextType
<1>1. ASSUME NEW c \in {"none", "header", "string", "digits", "file", "saved", "closed"},
             child' = c,
             UNCHANGED <<at, asked, unsent, need, word, due, received,
                         toServer, toClient, changes>>,
             ctx' \in [Side -> ContextType]
      PROVE  TypeInv'
  BY <1>1
<1>2. CASE Accept
  BY <1>0, <1>1, <1>2 DEF Accept, clientVars
<1>3. CASE TakeString
  <2>1. toServer' \in Seq(Units) /\ Head(toServer) \in Headers
    BY <1>3, HeaderRead DEF TakeString
  <2>2. need' \in Nat
    BY <1>3, <2>1 DEF TakeString, Headers
  <2>3. QED
    BY <1>3, <2>1, <2>2 DEF TakeString, clientVars, md5Vars
<1>4. ASSUME ReceiveString
      PROVE  toServer' \in Seq(Units) /\ SubSeq(toServer, 1, need) \in Seq(Units)
  BY <1>4, TakeType DEF ReceiveString
<1>5. CASE RejectString
  <2>1. toClient' \in Seq(Lines)
    BY <1>5, AnswerType DEF RejectString
  <2>2. QED
    BY <1>4, <1>5, <2>1 DEF RejectString, ReceiveString, clientVars, md5Vars
<1>6. CASE SendLetters
  <2> DEFINE text == SubSeq(toServer, 1, need)
  <2>1. PICK d \in {Zeros, text} \cup Truncated(text) :
          md5_string(text, d) /\ Answer("letters", d) /\ due' = d
    BY <1>6 DEF SendLetters
  <2>2. text \in Seq(Units)
    BY <1>4, <1>6 DEF SendLetters
  <2>3. d \in Seq(Units) \cup {Zeros}
    BY <2>2, TruncatedType
  <2>4. toClient' \in Seq(Lines)
    BY <2>1, <2>3, AnswerType
  <2>5. ctx' = ctx
    BY <1>0, <2>1, ContextCalls
  <2>6. UNCHANGED <<at, asked, unsent, changes, need, word, received>>
        /\ child' = "digits"
    BY <1>6 DEF SendLetters, ReceiveString, clientVars
  <2>7. toServer' \in Seq(Units)
    BY <1>4, <1>6 DEF SendLetters
  <2>8. QED
    BY <2>1, <2>3, <2>4, <2>5, <2>6, <2>7
<1>7. CASE SendDigits
  <2>1. toClient' \in Seq(Lines)
    BY <1>7, AnswerType DEF SendDigits
  <2>2. QED
    BY <1>7, <2>1 DEF SendDigits, clientVars, md5Vars
<1>8. CASE InvalidHeader
  <2>1. toClient' \in Seq(Lines)
    BY <1>8, AnswerType DEF InvalidHeader
  <2>2. toServer' \in Seq(Units)
    BY <1>8, HeaderRead DEF InvalidHeader
  <2>3. QED
    BY <1>8, <2>1, <2>2 DEF InvalidHeader, clientVars, md5Vars
<1>9. CASE TakeFile
  <2>1. toServer' \in Seq(Units) /\ Head(toServer) \in Headers
    BY <1>9, HeaderRead DEF TakeFile
  <2>2. need' \in Nat
    BY <1>9, <2>1 DEF TakeFile, Headers
  <2>3. word' \in Words
    <3>1. Head(toServer).name \in Names
      <4>1. Head(toServer).kind = "FILE"
        BY <1>9, HeaderRead DEF TakeFile
      <4>2. QED
        BY <2>1, <4>1 DEF Headers
    <3>2. QED
      BY <1>9, <3>1 DEF TakeFile, Words
  <2>4. received' \in [Words -> Seq(Units)]
    BY <1>9, EmptySeq DEF TakeFile, Opened
  <2>5. ctx' \in [Side -> ContextType]
    BY <1>0, <1>9, ContextCalls DEF TakeFile
  <2>6. QED
    BY <1>9, <2>1, <2>2, <2>3, <2>4, <2>5 DEF TakeFile, clientVars
<1>10. CASE CannotSave
  <2>1. toServer' \in Seq(Units)
    BY <1>10, HeaderRead DEF CannotSave
  <2>2. QED
    BY <1>10, <2>1 DEF CannotSave, clientVars
<1>11. CASE ReceiveChunk
  <2> DEFINE got == SubSeq(toServer, 1, Wanted)
  <2>1. toServer' \in Seq(Units) /\ got \in Seq(Units)
    BY <1>11, WantedType, TakeType DEF ReceiveChunk
  <2>2. received' \in [Words -> Seq(Units)]
    <3>1. ASSUME word \in Words PROVE received[word] \o got \in Seq(Units)
      BY <2>1, <3>1, ConcatProperties
    <3>2. QED
      BY <1>11, <3>1 DEF ReceiveChunk, Save
  <2>3. ctx' \in [Side -> ContextType]
    BY <1>0, <1>11, <2>1, ContextCalls DEF ReceiveChunk
  <2>4. need' \in Nat
    BY <1>11, WantedType DEF ReceiveChunk
  <2>5. QED
    BY <1>11, <2>1, <2>2, <2>3, <2>4 DEF ReceiveChunk, clientVars
<1>12. CASE WriteFails
  <2> DEFINE all == received[word] \o SubSeq(toServer, 1, Wanted)
  <2>1. toServer' \in Seq(Units) /\ SubSeq(toServer, 1, Wanted) \in Seq(Units)
    BY <1>12, WantedType, TakeType DEF WriteFails
  <2>2. received' \in [Words -> Seq(Units)]
    <3>1. PICK kept \in Truncated(all) : Save(kept)
      BY <1>12 DEF WriteFails
    <3>2. ASSUME word \in Words PROVE kept \in Seq(Units)
      <4>1. all \in Seq(Units)
        BY <2>1, <3>2, ConcatProperties
      <4>2. QED
        BY <3>1, <4>1, TruncatedType
    <3>3. QED
      BY <3>1, <3>2 DEF Save
  <2>3. ctx' \in [Side -> ContextType]
    BY <1>0, <1>12, ContextCalls DEF WriteFails
  <2>4. QED
    BY <1>12, <2>1, <2>2, <2>3 DEF WriteFails, clientVars
<1>13. CASE CloseFile
  <2>1. received' \in [Words -> Seq(Units)]
    <3>1. CASE UNCHANGED received
      BY <3>1
    <3>2. CASE \E kept \in Truncated(received[word]) : Save(kept)
      <4>1. PICK kept \in Truncated(received[word]) : Save(kept)
        BY <3>2
      <4>2. ASSUME word \in Words PROVE kept \in Seq(Units)
        <5>1. received[word] \in Seq(Units)
          BY <4>2
        <5>2. QED
          BY <4>1, <5>1, TruncatedType
      <4>3. QED
        BY <4>1, <4>2 DEF Save
    <3>3. QED
      BY <1>13, <3>1, <3>2 DEF CloseFile
  <2>2. QED
    BY <1>0, <1>13, <2>1 DEF CloseFile, clientVars
<1>14. CASE SendMd5
  <2> DEFINE data == ctx["server"].data
  <2>1. PICK d \in {Zeros, data} \cup Truncated(data) :
          md5_final("server", d) /\ Answer("md5", d)
    BY <1>14 DEF SendMd5
  <2>2. data \in Seq(Units)
    BY <1>0
  <2>3. d \in Seq(Units) \cup {Zeros}
    BY <2>2, TruncatedType
  <2>4. toClient' \in Seq(Lines) /\ ctx' \in [Side -> ContextType]
    BY <1>0, <2>1, <2>3, AnswerType, ContextCalls
  <2>5. QED
    BY <1>14, <2>4 DEF SendMd5, clientVars
<1>15. CASE Garbage
  BY <1>0, <1>1, <1>15 DEF Garbage, clientVars, md5Vars
<1>16. CASE CutOff
  <2>1. ctx' \in [Side -> ContextType]
    BY <1>0, <1>16, ContextCalls DEF CutOff
  <2>2. QED
    BY <1>0, <1>1, <1>16, <2>1 DEF CutOff, clientVars
<1>17. CASE KillChild
  <2>1. received' \in [Words -> Seq(Units)]
    <3>1. CASE UNCHANGED received
      BY <3>1
    <3>2. CASE \E n \in 0..Len(received[word]) : Save(SubSeq(received[word], 1, n))
      <4>1. PICK n \in 0..Len(received[word]) : Save(SubSeq(received[word], 1, n))
        BY <3>2
      <4>2. ASSUME word \in Words PROVE SubSeq(received[word], 1, n) \in Seq(Units)
        <5>1. received[word] \in Seq(Units)
          BY <4>2
        <5>2. n \in Nat /\ n <= Len(received[word])
          BY <5>1, LenProperties
        <5>3. SubSeq(received[word], 0 + 1, n) \in Seq(Units)
          BY <5>1, <5>2, Part
        <5>4. QED
          BY <5>3
      <4>3. QED
        BY <4>1, <4>2 DEF Save
    <3>3. QED
      BY <1>17, <3>1, <3>2 DEF KillChild
  <2>2. ctx' \in [Side -> ContextType]
    BY <1>0, <1>17, ContextCalls DEF KillChild
  <2>3. QED
    BY <1>17, <2>1, <2>2 DEF KillChild, clientVars
<1>18. QED
  BY <1>2, <1>3, <1>5, <1>6, <1>7, <1>8, <1>9, <1>10, <1>11, <1>12, <1>13,
     <1>14, <1>15, <1>16, <1>17
     DEF ChildNext, ChildAuto

LEMMA TypeStep == ASSUME TypeInv, [Next]_vars PROVE TypeInv'
<1>1. CASE Reset
  <2>1. /\ toServer' \in {toServer, <<>>} /\ toClient' \in {toClient, <<>>}
        /\ UNCHANGED <<at, child, asked, unsent, need, word, received, changes,
                       ctx, due>>
    BY <1>1 DEF Reset, clientVars, childVars, md5Vars
  <2>2. toServer' \in Seq(Units) /\ toClient' \in Seq(Lines)
    BY <2>1, EmptySeq DEF TypeInv
  <2>3. QED
    BY <2>1, <2>2 DEF TypeInv
<1>2. CASE UNCHANGED vars
  BY <1>2 DEF vars, clientVars, childVars, md5Vars, TypeInv
<1>3. QED
  BY <1>1, <1>2, ClientType, ChildType DEF Next

-------------------------------------------------------------------------------
(* The request of the client                                               *)

LEMMA Lengths ==
  ASSUME TypeInv, RequestInv
  PROVE  /\ asked.bytes \in Seq(Data) /\ unsent \in Seq(Data)
         /\ Size \in Nat /\ Len(unsent) \in Nat /\ Out \in Nat /\ Out <= Size
         /\ Len(unsent) = Size - Out
         /\ unsent = <<>> <=> Out = Size
<1>1. asked.bytes \in Seq(Data) /\ unsent \in Seq(Data)
  BY DEF TypeInv
<1>2. Size \in Nat /\ Len(unsent) \in Nat
  BY <1>1, LenProperties DEF Size
<1>3. Out \in Nat /\ Out <= Size /\ Len(unsent) = Size - Out
  BY <1>2 DEF Out, RequestInv
<1>4. unsent = <<>> <=> Len(unsent) = 0
  BY <1>1, EmptySeq
<1>5. QED
  BY <1>1, <1>2, <1>3, <1>4

(* The first n of the bytes that are not sent are sent.                    *)
LEMMA SendBytes ==
  ASSUME TypeInv, RequestInv, NEW n \in Nat, n <= Len(unsent),
         asked' = asked, unsent' = SubSeq(unsent, n + 1, Len(unsent))
  PROVE  /\ Out' = Out + n /\ Size' = Size
         /\ Len(unsent') <= Size
         /\ unsent' = SubSeq(asked.bytes, Out' + 1, Size)
         /\ \A k \in 0..Out :
              SubSeq(asked.bytes, k + 1, Out) \o SubSeq(unsent, 1, n)
                = SubSeq(asked.bytes, k + 1, Out')
         /\ n = Len(unsent) => unsent' = <<>>
<1>0. /\ asked.bytes \in Seq(Data) /\ unsent \in Seq(Data)
      /\ Size \in Nat /\ Len(unsent) \in Nat /\ Out \in Nat /\ Out <= Size
      /\ Len(unsent) = Size - Out
      /\ unsent = SubSeq(asked.bytes, Out + 1, Size)
      /\ Size = Len(asked.bytes)
  BY Lengths DEF RequestInv, Size
<1>1. Len(unsent') = Len(unsent) - n /\ unsent' \in Seq(Data)
  BY <1>0, Part
<1>2. Size' = Size /\ Out' = Out + n
  <2>1. Size' = Size
    BY DEF Size
  <2>2. Out' = Size - Len(unsent') /\ Out = Size - Len(unsent)
    BY <2>1 DEF Out
  <2>3. /\ Size \in Nat /\ Len(unsent) \in Nat
        /\ Len(unsent') = Len(unsent) - n
    BY <1>0, <1>1
  <2>4. ASSUME NEW l \in Nat, NEW m, m = l - n PROVE Size - m = (Size - l) + n
    BY <2>3, <2>4
  <2>5. QED
    BY <2>1, <2>2, <2>3, <2>4
<1>3. SubSeq(SubSeq(asked.bytes, Out + 1, Size), n + 1, Len(unsent))
        = SubSeq(asked.bytes, (Out + n) + 1, Out + Len(unsent))
  BY <1>0, PartOfPart
<1>4. unsent' = SubSeq(asked.bytes, Out' + 1, Size)
  BY <1>0, <1>2, <1>3
<1>5. SubSeq(unsent, 1, n) = SubSeq(asked.bytes, Out + 1, Out + n)
  <2>1. SubSeq(SubSeq(asked.bytes, Out + 1, Size), 0 + 1, n)
          = SubSeq(asked.bytes, (Out + 0) + 1, Out + n)
    BY <1>0, PartOfPart
  <2>2. 0 + 1 = 1 /\ (Out + 0) + 1 = Out + 1
    BY <1>0
  <2>3. QED
    BY <1>0, <2>1, <2>2
<1>6. ASSUME NEW k \in 0..Out
      PROVE  SubSeq(asked.bytes, k + 1, Out) \o SubSeq(unsent, 1, n)
                = SubSeq(asked.bytes, k + 1, Out')
  <2>1. k \in Nat /\ k <= Out /\ Out <= Out + n /\ Out + n <= Len(asked.bytes)
        /\ Out + n \in Nat
    BY <1>0
  <2>2. SubSeq(asked.bytes, k + 1, Out) \o SubSeq(asked.bytes, Out + 1, Out + n)
          = SubSeq(asked.bytes, k + 1, Out + n)
    BY <1>0, <2>1, Adjacent
  <2>3. QED
    BY <1>2, <1>5, <2>2
<1>7. n = Len(unsent) => unsent' = <<>>
  <2>1. ASSUME n = Len(unsent) PROVE Len(unsent') = 0
    BY <1>0, <1>1, <2>1
  <2>2. QED
    BY <1>1, <2>1, EmptySeq
<1>8. Len(unsent') <= Size
  BY <1>0, <1>1
<1>9. QED
  BY <1>2, <1>4, <1>6, <1>7, <1>8

(* The chunk that is sent is the first n of those bytes. *)
LEMMA ChunkBytes ==
  ASSUME TypeInv, RequestInv, SendChunk
  PROVE  \E n \in Nat :
           /\ 0 < n /\ n <= Len(unsent)
           /\ Chunk = SubSeq(unsent, 1, n)
           /\ unsent' = SubSeq(unsent, n + 1, Len(unsent))
           /\ Chunk \in Seq(Data) /\ Len(Chunk) = n
<1>1. unsent \in Seq(Data) /\ unsent # <<>> /\ CHUNK \in Nat \ {0}
  BY TransferAssumption DEF TypeInv, SendChunk
<1>2. Len(unsent) \in Nat /\ Len(unsent) > 0
  BY <1>1, EmptySeq
<1> DEFINE n == Min2(CHUNK, Len(unsent))
<1>3. n \in Nat /\ 0 < n /\ n <= Len(unsent)
  BY <1>1, <1>2 DEF Min2
<1>4. Chunk = SubSeq(unsent, 0 + 1, n) /\ 0 + 1 = 1
  BY DEF Chunk
<1> HIDE DEF n
<1>5. Chunk \in Seq(Data) /\ Len(Chunk) = n
  <2>1. /\ SubSeq(unsent, 0 + 1, n) \in Seq(Data)
        /\ Len(SubSeq(unsent, 0 + 1, n)) = n - 0
    BY <1>1, <1>3, Part
  <2>2. QED
    BY <1>3, <1>4, <2>1
<1>6. unsent' = SubSeq(unsent, n + 1, Len(unsent))
  BY <1>5 DEF SendChunk
<1>7. QED
  BY <1>3, <1>4, <1>5, <1>6

(* A request that has been typed: nothing of it is sent. *)
LEMMA NewRequest ==
  ASSUME NEW bytes \in Seq(Data), asked'.bytes = bytes, unsent' = bytes
  PROVE  /\ Size' = Len(bytes) /\ Out' = 0 /\ Sent' = <<>>
         /\ Len(unsent') <= Size'
         /\ unsent' = SubSeq(asked'.bytes, Out' + 1, Size')
<1>1. Len(bytes) \in Nat
  BY LenProperties
<1>2. Size' = Len(bytes) /\ Out' = 0
  BY <1>1 DEF Size, Out
<1>3. SubSeq(bytes, 1, Len(bytes)) = bytes
  BY SubSeqFull
<1>4. SubSeq(bytes, 0 + 1, 0) = <<>>
  BY EmptyPart
<1>5. QED
  BY <1>1, <1>2, <1>3, <1>4 DEF Sent

LEMMA InitRequest == Init => RequestInv
<1> SUFFICES ASSUME Init PROVE RequestInv
  OBVIOUS
<1>1. asked.bytes = <<>> /\ unsent = <<>> /\ at = "off"
  BY DEF Init
<1>2. Len(<<>>) = 0 /\ SubSeq(<<>>, 0 + 1, 0) = <<>>
  BY EmptyPart, EmptySeq
<1>3. Size = 0 /\ Out = 0
  BY <1>1, <1>2 DEF Size, Out
<1>4. QED
  BY <1>1, <1>2, <1>3 DEF RequestInv, StringAt, FileAt

LEMMA RequestStep ==
  ASSUME TypeInv, RequestInv, [Next]_vars
  PROVE  RequestInv'
<1>1. ASSUME UNCHANGED <<asked, unsent>>,
             \/ at' = at
             \/ at' \in {"menu", "done", "failed", "killed"}
             \/ at = "opened" /\ at' = "sending"
             \/ at = "sending" /\ unsent = <<>> /\ at' = "md5"
             \/ at = "letters" /\ at' = "digits"
      PROVE  RequestInv'
  BY <1>1 DEF RequestInv, Size, Out, StringAt, FileAt
<1>2. ASSUME NEW s \in Strings, TypeString(s) PROVE RequestInv'
  <2>1. s \in Seq(Data) /\ s # <<>>
    BY ByteSequences
  <2>2. asked'.bytes = s /\ asked'.name = None /\ unsent' = s /\ at' = "text"
    BY <1>2 DEF TypeString, Ask
  <2>3. QED
    BY <2>1, <2>2, NewRequest DEF RequestInv, StringAt, FileAt
<1>3. ASSUME NEW n \in Names, NEW seen \in Contents, NEW bytes \in Contents,
             TypeFile(n, seen, bytes)
      PROVE  RequestInv'
  <2>1. bytes \in Seq(Data)
    BY ByteSequences
  <2>2. asked'.bytes = bytes /\ asked'.name = n /\ unsent' = bytes /\ at' = "opened"
    BY <1>3 DEF TypeFile, Ask
  <2>3. QED
    BY <2>1, <2>2, NewRequest DEF RequestInv, StringAt, FileAt
<1>4. CASE SendText
  <2>1. at = "text" /\ at' = "letters" /\ unsent' = <<>> /\ asked' = asked
    BY <1>4 DEF SendText
  <2>2. SubSeq(unsent, Len(unsent) + 1, Len(unsent)) = <<>> /\ Len(unsent) \in Nat
    BY Lengths, EmptyPart
  <2>3. /\ Size' = Size /\ Len(unsent') <= Size
        /\ unsent' = SubSeq(asked.bytes, Out' + 1, Size)
    BY <2>1, <2>2, Lengths, SendBytes
  <2>4. QED
    BY <2>1, <2>3 DEF RequestInv, StringAt, FileAt
<1>5. CASE SendChunk
  <2>1. at = "sending" /\ at' = "sending" /\ asked' = asked
    BY <1>5 DEF SendChunk
  <2>2. PICK n \in Nat : n <= Len(unsent)
                         /\ unsent' = SubSeq(unsent, n + 1, Len(unsent))
    BY <1>5, ChunkBytes
  <2>3. QED
    BY <2>1, <2>2, SendBytes DEF RequestInv, StringAt, FileAt
<1>6. CASE StartMd5 \/ EndOfFile \/ HearError \/ HearLetters \/ HearDigits
           \/ HearMd5 \/ Lost \/ ReadFails \/ KillClient \/ Exit \/ Connect
  BY <1>1, <1>6
     DEF StartMd5, EndOfFile, HearError, HearLetters, HearDigits, HearMd5,
         Lost, ReadFails, KillClient, Exit, Connect
<1>7. CASE ChildNext
  BY <1>1, <1>7
     DEF ChildNext, ChildAuto, Accept, TakeString, RejectString, SendLetters,
         ReceiveString, SendDigits, InvalidHeader, TakeFile, ReceiveChunk,
         CloseFile, SendMd5, Garbage, CutOff, CannotSave, WriteFails, KillChild,
         clientVars
<1>8. CASE Reset \/ UNCHANGED vars
  BY <1>1, <1>8 DEF Reset, vars, clientVars
<1>9. QED
  BY <1>2, <1>3, <1>4, <1>5, <1>6, <1>7, <1>8 DEF Next, ClientNext, ClientAuto

-------------------------------------------------------------------------------
(* The frames                                                              *)

(* What the place of either process says of the other. *)
LEMMA Places ==
  ASSUME Framed
  PROVE  /\ at \in {"off", "menu", "done"} => Idle \/ Stray
         /\ at = "text" => Asked \/ Reading \/ Stray
         /\ at = "letters" => Asked \/ Reading \/ Replying \/ Replied \/ Stray
         /\ at = "digits" => Replying \/ Replied \/ Stray
         /\ at \in FileAt => Asked \/ Saving \/ Saved \/ Digested \/ Refused \/ Stray
         /\ child = "none" => Idle \/ Asked
         /\ child = "string" => Reading
         /\ child = "digits" => Replying
         /\ child = "file" => Saving
         /\ child = "saved" => Saved
         /\ child = "header" => Idle \/ Asked \/ Replied \/ Digested \/ Refused \/ Stray
BY DEF Framed, Idle, Asked, Reading, Replying, Replied, Saving, Saved, Digested,
       Refused, Stray, Asking, FileAt

LEMMA NoLines ==
  ASSUME toClient = <<>>
  PROVE  \A kind : ~OneLine(kind)
<1>1. Len(<<>>) = 0
  BY EmptySeq
<1>2. QED
  BY <1>1 DEF OneLine

(* Bytes in the way stay in the way of whatever is sent behind them. *)
LEMMA StrayStays ==
  ASSUME TypeInv, Stray, at' # "off", changes' \in Nat, changes' >= changes,
         UNCHANGED <<child, toClient>>,
         \/ toServer' = toServer
         \/ \E t \in Seq(Units) : toServer' = toServer \o t
  PROVE  Stray'
<1>1. toServer \in Seq(Units) /\ toServer # <<>> /\ changes \in Nat /\ changes > 0
  BY DEF TypeInv, Stray
<1>2. toServer' # <<>> /\ Head(toServer') = Head(toServer)
  BY <1>1, SendBehind
<1>3. changes' > 0
  BY <1>1
<1>4. QED
  BY <1>2, <1>3 DEF Stray

(* Bytes follow the header that is waiting. *)
LEMMA AskedSends ==
  ASSUME TypeInv, RequestInv, Asked, NEW n \in Nat, n <= Len(unsent),
         asked' = asked, unsent' = SubSeq(unsent, n + 1, Len(unsent)),
         toServer' = toServer \o SubSeq(unsent, 1, n),
         SubSeq(unsent, 1, n) \in Seq(Units),
         UNCHANGED <<child, toClient, changes>>, at' \in Asking \ {"digits"}
  PROVE  Asked'
<1>1. toServer \in Seq(Units) /\ toServer # <<>>
  BY DEF TypeInv, Asked
<1>2. /\ toServer' # <<>> /\ Head(toServer') = Head(toServer)
      /\ Tail(toServer') = Tail(toServer) \o SubSeq(unsent, 1, n)
  BY <1>1, SendBehind
<1>3. Sent' = Sent \o SubSeq(unsent, 1, n)
  <2>1. 0 \in 0..Out /\ 0 + 1 = 1
    BY Lengths
  <2>2. SubSeq(asked.bytes, 0 + 1, Out) \o SubSeq(unsent, 1, n)
          = SubSeq(asked.bytes, 0 + 1, Out')
    BY <2>1, SendBytes
  <2>3. QED
    BY <2>1, <2>2 DEF Sent
<1>4. Declared(Head(toServer))'
  BY <1>2 DEF Asked, Declared, Size
<1>5. QED
  BY <1>2, <1>3, <1>4 DEF Asked

(* The header of a new request is the whole stream, or is behind bytes. *)
LEMMA AskFrame ==
  ASSUME TypeInv, Idle \/ Stray, at = "menu", NEW h \in Headers,
         toServer' = toServer \o <<h>>, Declared(h)', Sent' = <<>>,
         at' \in {"text", "opened"}, changes' \in Nat, changes' >= changes,
         UNCHANGED <<child, toClient>>
  PROVE  Asked' \/ Stray'
<1>1. h \in Units /\ <<h>> \in Seq(Units)
  BY DEF Units
<1>2. CASE Idle
  <2>1. toServer' = <<h>>
    BY <1>1, <1>2, ConcatEmptySeq DEF Idle
  <2>2. <<h>> # <<>> /\ Head(<<h>>) = h /\ Tail(<<h>>) = <<>>
    OBVIOUS
  <2>3. QED
    BY <1>2, <2>1, <2>2 DEF Idle, Asked, Asking
<1>3. CASE Stray
  BY <1>1, <1>3, StrayStays
<1>4. QED
  BY <1>2, <1>3

LEMMA TypeFrame ==
  ASSUME FrameInv, Live, ClientNext
  PROVE  /\ \A s \in Strings : TypeString(s) => Framed'
         /\ \A n \in Names, seen, bytes \in Contents : TypeFile(n, seen, bytes) => Framed'
<1>0. TypeInv /\ Framed
  BY DEF FrameInv
<1>1. ASSUME NEW s \in Strings, TypeString(s) PROVE Framed'
  <2> DEFINE h == [kind |-> "STR", size |-> Len(s), name |-> None]
  <2>1. s \in Seq(Data) /\ Len(s) \in Nat
    BY ByteSequences, LenProperties
  <2>2. /\ at = "menu" /\ at' = "text" /\ toServer' = toServer \o <<h>>
        /\ asked' = [name |-> None, bytes |-> s] /\ unsent' = s
        /\ UNCHANGED <<child, toClient, changes>>
    BY <1>1 DEF TypeString, Ask, Send, childVars
  <2>3. Size' = Len(s) /\ Sent' = <<>>
    BY <2>1, <2>2, NewRequest
  <2>4. h \in Headers /\ Declared(h)'
    BY <2>1, <2>2, <2>3 DEF Headers, Declared
  <2>5. changes' \in Nat /\ changes' >= changes
    BY <1>0, <2>2 DEF TypeInv
  <2> HIDE DEF h
  <2>6. Asked' \/ Stray'
    BY <1>0, <2>2, <2>3, <2>4, <2>5, Places, AskFrame
  <2>7. QED
    BY <2>6 DEF Framed
<1>2. ASSUME NEW n \in Names, NEW seen \in Contents, NEW bytes \in Contents,
             TypeFile(n, seen, bytes)
      PROVE  Framed'
  <2> DEFINE h == [kind |-> "FILE", size |-> Len(seen), name |-> n]
  <2>1. bytes \in Seq(Data) /\ Len(bytes) \in Nat /\ Len(seen) \in Nat
    BY ByteSequences, LenProperties
  <2>2. /\ at = "menu" /\ at' = "opened" /\ toServer' = toServer \o <<h>>
        /\ asked' = [name |-> n, bytes |-> bytes] /\ unsent' = bytes
        /\ UNCHANGED <<child, toClient>>
    BY <1>2 DEF TypeFile, Ask, Send, childVars
  <2>3. Size' = Len(bytes) /\ Sent' = <<>>
    BY <2>1, <2>2, NewRequest
  <2>4. changes' \in Nat /\ changes' >= changes /\ (changes' = 0 => bytes = seen)
    BY <1>0, <1>2 DEF TypeInv, TypeFile
  <2>5. h \in Headers /\ Declared(h)'
    <3>1. n # None
      BY TransferAssumption
    <3>2. QED
      BY <2>1, <2>2, <2>3, <2>4, <3>1 DEF Headers, Declared
  <2> HIDE DEF h
  <2>6. Asked' \/ Stray'
    BY <1>0, <2>2, <2>3, <2>4, <2>5, Places, AskFrame
  <2>7. QED
    BY <2>6 DEF Framed
<1>3. QED
  BY <1>1, <1>2

LEMMA SendTextFrame == ASSUME FrameInv, Live, SendText PROVE Framed'
<1>0. /\ TypeInv /\ RequestInv /\ Framed
      /\ unsent \in Seq(Data) /\ unsent \in Seq(Units) /\ Len(unsent) \in Nat
  BY Lengths, ByteSequences DEF FrameInv
<1>1. /\ at = "text" /\ at' = "letters" /\ asked' = asked /\ unsent' = <<>>
      /\ toServer' = toServer \o unsent
      /\ UNCHANGED <<child, need, toClient, changes>>
  BY DEF SendText, Send, childVars
<1>2. /\ SubSeq(unsent, 1, Len(unsent)) = unsent
      /\ SubSeq(unsent, Len(unsent) + 1, Len(unsent)) = <<>>
  BY <1>0, SubSeqFull, EmptyPart
<1>3. CASE Asked
  <2>1. Asked'
    BY <1>0, <1>1, <1>2, <1>3, AskedSends DEF Asking
  <2>2. QED
    BY <2>1 DEF Framed
<1>4. CASE Reading
  <2>1. 0 \in 0..Out /\ 0 + 1 = 1
    BY <1>0, Lengths
  <2>2. SubSeq(asked.bytes, 0 + 1, Out) \o SubSeq(unsent, 1, Len(unsent))
          = SubSeq(asked.bytes, 0 + 1, Out')
    <3>1. unsent' = SubSeq(unsent, Len(unsent) + 1, Len(unsent))
      BY <1>1, <1>2
    <3>2. Len(unsent) \in Nat /\ Len(unsent) <= Len(unsent) /\ asked' = asked
      BY <1>0, <1>1
    <3>3. QED
      BY <1>0, <2>1, <3>1, <3>2, SendBytes
  <2>3. Sent' = Sent \o unsent
    BY <1>1, <1>2, <2>1, <2>2 DEF Sent
  <2>4. Size' = Size
    BY <1>1 DEF Size
  <2>5. Reading'
    BY <1>1, <1>4, <2>3, <2>4 DEF Reading
  <2>6. QED
    BY <2>5 DEF Framed
<1>5. CASE Stray
  <2>1. changes' \in Nat /\ changes' >= changes
    BY <1>0, <1>1 DEF TypeInv
  <2>2. Stray'
    BY <1>0, <1>1, <1>5, <2>1, StrayStays
  <2>3. QED
    BY <2>2 DEF Framed
<1>6. QED
  BY <1>0, <1>1, <1>3, <1>4, <1>5, Places

LEMMA SendChunkFrame == ASSUME FrameInv, Live, SendChunk PROVE Framed'
<1>0. TypeInv /\ RequestInv /\ Framed
  BY DEF FrameInv
<1>1. /\ at = "sending" /\ at' = "sending" /\ asked' = asked /\ unsent # <<>>
      /\ toServer' = toServer \o Chunk
      /\ UNCHANGED <<child, need, word, received, toClient, changes>>
  BY DEF SendChunk, Send, childVars
<1>2. PICK n \in Nat :
        /\ n <= Len(unsent) /\ Chunk = SubSeq(unsent, 1, n)
        /\ unsent' = SubSeq(unsent, n + 1, Len(unsent))
        /\ Chunk \in Seq(Data) /\ Chunk \in Seq(Units)
  BY <1>0, ChunkBytes, ByteSequences
<1>3. at \in FileAt /\ at' \in FileAt
  BY <1>1 DEF FileAt
<1>4. CASE Asked
  <2>1. Asked'
    BY <1>0, <1>1, <1>2, <1>4, AskedSends DEF Asking
  <2>2. QED
    BY <2>1 DEF Framed
<1>5. CASE Saving
  <2> DEFINE k == Len(received[word])
  <2>1. k \in Nat /\ k <= Out /\ Out \in Nat
    BY <1>0, <1>5, Lengths, LenProperties DEF Saving, TypeInv
  <2>2. k \in 0..Out
    BY <2>1
  <2>3. /\ Out' = Out + n /\ Size' = Size
        /\ SubSeq(asked.bytes, k + 1, Out) \o SubSeq(unsent, 1, n)
             = SubSeq(asked.bytes, k + 1, Out')
    BY <1>0, <1>1, <1>2, <2>2, SendBytes
  <2>4. k' = k /\ k <= Out'
    BY <1>1, <2>1, <2>3
  <2>5. toServer' = SubSeq(asked.bytes, k + 1, Out')
    BY <1>1, <1>2, <1>5, <2>3 DEF Saving
  <2>6. Saving'
    BY <1>1, <1>3, <1>5, <2>3, <2>4, <2>5 DEF Saving
  <2>7. QED
    BY <2>6 DEF Framed
<1>6. CASE Saved \/ Digested \/ Refused
  <2>1. toServer \in Seq(Data)
    BY <1>6 DEF Saved, Digested, Refused
  <2>2. toServer' \in Seq(Data)
    BY <1>1, <1>2, <2>1, ConcatProperties
  <2>3. Size' = Size
    BY <1>1 DEF Size
  <2>4. \A kind : OneLine(kind)' <=> OneLine(kind)
    BY <1>1 DEF OneLine
  <2>5. Saved' \/ Digested' \/ Refused'
    BY <1>1, <1>3, <1>6, <2>2, <2>3, <2>4 DEF Saved, Digested, Refused
  <2>6. QED
    BY <2>5 DEF Framed
<1>7. CASE Stray
  <2>1. changes' \in Nat /\ changes' >= changes
    BY <1>0, <1>1 DEF TypeInv
  <2>2. Stray'
    BY <1>0, <1>1, <1>2, <1>7, <2>1, StrayStays
  <2>3. QED
    BY <2>2 DEF Framed
<1>8. QED
  BY <1>0, <1>3, <1>4, <1>5, <1>6, <1>7, Places

(* Steps of the client that leave the streams and the request alone. *)
LEMMA QuietFrame ==
  ASSUME FrameInv, Live, StartMd5 \/ EndOfFile \/ Exit \/ Connect
  PROVE  Framed'
<1>0. Framed
  BY DEF FrameInv
<1>1. UNCHANGED <<asked, unsent, child, need, word, received, toServer, toClient,
                  changes>>
  BY DEF StartMd5, EndOfFile, Exit, Connect, childVars
<1>2. /\ Size' = Size /\ Out' = Out /\ Sent' = Sent
      /\ \A kind : OneLine(kind)' <=> OneLine(kind)
      /\ \A h : Declared(h)' <=> Declared(h)
  BY <1>1 DEF Size, Out, Sent, OneLine, Declared
<1>3. CASE at \in {"off", "menu"} /\ at' \in {"menu", "done"}
  <2>1. CASE Idle
    BY <1>1, <1>3, <2>1 DEF Framed, Idle
  <2>2. CASE Stray
    BY <1>1, <1>3, <2>2 DEF Framed, Stray
  <2>3. QED
    BY <1>0, <1>3, <2>1, <2>2, Places
<1>4. CASE at \in FileAt /\ at' \in FileAt
  <2>1. CASE Asked
    <3>1. Asked'
      BY <1>1, <1>2, <1>4, <2>1 DEF Asked, Asking, FileAt
    <3>2. QED
      BY <3>1 DEF Framed
  <2>2. CASE Saving
    <3>1. Saving'
      BY <1>1, <1>2, <1>4, <2>2 DEF Saving
    <3>2. QED
      BY <3>1 DEF Framed
  <2>3. CASE Saved \/ Digested \/ Refused
    <3>1. Saved' \/ Digested' \/ Refused'
      BY <1>1, <1>2, <1>4, <2>3 DEF Saved, Digested, Refused
    <3>2. QED
      BY <3>1 DEF Framed
  <2>4. CASE Stray
    BY <1>1, <1>4, <2>4 DEF Framed, Stray, FileAt
  <2>5. QED
    BY <1>0, <1>4, <2>1, <2>2, <2>3, <2>4, Places
<1>5. QED
  BY <1>3, <1>4 DEF StartMd5, EndOfFile, Exit, Connect, FileAt

(* A line is heard. *)
LEMMA HearOne ==
  ASSUME TypeInv, NEW kind, OneLine(kind), NEW other, Line(other), Hear
  PROVE  toClient' = <<>> /\ other = kind
<1>1. toClient \in Seq(Lines) /\ toClient # <<>> /\ Len(toClient) = 1
  BY DEF TypeInv, OneLine, Line
<1>2. Head(toClient) = toClient[1]
  BY <1>1
<1>3. Len(Tail(toClient)) = 0 /\ Tail(toClient) \in Seq(Lines)
  BY <1>1, HeadTailProperties
<1>4. Tail(toClient) = <<>>
  BY <1>3, EmptySeq
<1>5. QED
  BY <1>2, <1>4 DEF OneLine, Line, Hear

LEMMA HearTwo ==
  ASSUME TypeInv, Len(toClient) = 2, NEW other, Line(other), Hear
  PROVE  Len(toClient') = 1 /\ toClient'[1] = toClient[2] /\ other = toClient[1].kind
<1>1. toClient \in Seq(Lines) /\ toClient # <<>>
  BY DEF TypeInv, Line
<1>2. Head(toClient) = toClient[1]
  BY <1>1
<1>3. Len(Tail(toClient)) = 1 /\ \A i \in 1..Len(Tail(toClient)) :
                                    Tail(toClient)[i] = toClient[i + 1]
  BY <1>1, HeadTailProperties
<1>4. QED
  BY <1>2, <1>3 DEF Line, Hear

LEMMA HearFrame ==
  ASSUME FrameInv, Live, HearError \/ HearLetters \/ HearDigits \/ HearMd5
  PROVE  Framed'
<1>0. TypeInv /\ Framed /\ toClient # <<>> /\ Hear
  BY DEF FrameInv, HearError, HearLetters, HearDigits, HearMd5, Line
<1>1. UNCHANGED <<child, toServer, changes>>
  BY DEF HearError, HearLetters, HearDigits, HearMd5, childVars
<1>2. CASE HearError
  <2>1. at = "letters" /\ at' = "menu" /\ Line("error")
    BY <1>2 DEF HearError
  <2>2. Replied /\ OneLine("error")
    <3>1. Replying \/ Replied
      BY <1>0, <2>1, Places DEF Asked, Reading, Stray
    <3>2. Head(toClient) = toClient[1] /\ toClient[1].kind = "error"
      BY <1>0, <2>1 DEF Line, TypeInv
    <3>3. QED
      BY <2>1, <3>1, <3>2 DEF Replying, Replied, OneLine
  <2>3. toClient' = <<>>
    BY <1>0, <2>1, <2>2, HearOne
  <2>4. QED
    BY <1>1, <2>1, <2>2, <2>3 DEF Replied, Framed, Idle
<1>3. CASE HearLetters
  <2>1. at = "letters" /\ at' = "digits" /\ Line("letters")
    BY <1>3 DEF HearLetters
  <2>2. Replying \/ Replied
    BY <1>0, <2>1, Places DEF Asked, Reading, Stray
  <2>3. CASE OneLine("letters") /\ Replying
    <3>1. toClient' = <<>>
      BY <1>0, <2>1, <2>3, HearOne
    <3>2. QED
      BY <1>1, <2>1, <2>3, <3>1 DEF Replying, Framed
  <2>4. CASE Len(toClient) = 2 /\ toClient[2].kind = "digits" /\ Replied
    <3>1. Len(toClient') = 1 /\ toClient'[1] = toClient[2]
      BY <1>0, <2>1, <2>4, HearTwo
    <3>2. OneLine("digits")'
      BY <2>4, <3>1 DEF OneLine
    <3>3. QED
      BY <1>1, <2>1, <2>4, <3>2 DEF Replied, Framed
  <2>5. ~OneLine("error")
    <3>1. ASSUME OneLine("error") PROVE FALSE
      BY <1>0, <2>1, <3>1, HearOne
    <3>2. QED
      BY <3>1
  <2>6. QED
    BY <2>1, <2>2, <2>3, <2>4, <2>5 DEF Replying, Replied
<1>4. CASE HearDigits
  <2>1. at = "digits" /\ at' = "menu" /\ Line("digits")
    BY <1>4 DEF HearDigits
  <2>2. Replied /\ OneLine("digits")
    BY <1>0, <2>1, Places DEF Replying, Replied, Stray
  <2>3. toClient' = <<>>
    BY <1>0, <2>1, <2>2, HearOne
  <2>4. QED
    BY <1>1, <2>1, <2>2, <2>3 DEF Replied, Framed, Idle
<1>5. CASE HearMd5
  <2>1. at = "md5" /\ at' = "menu" /\ Line("md5")
    BY <1>5 DEF HearMd5
  <2>2. Digested \/ Refused
    BY <1>0, <2>1, Places DEF FileAt, Asked, Saving, Saved, Stray
  <2>3. ~Refused
    <3>1. ASSUME OneLine("fragment") PROVE FALSE
      BY <1>0, <2>1, <3>1, HearOne
    <3>2. QED
      BY <3>1 DEF Refused
  <2>4. Digested /\ toClient' = <<>>
    BY <1>0, <2>1, <2>2, <2>3, HearOne DEF Digested
  <2>5. CASE toServer = <<>>
    BY <1>1, <2>1, <2>4, <2>5 DEF Digested, Framed, Idle
  <2>6. CASE toServer # <<>>
    <3>1. Head(toServer) \in Data
      BY <2>4, <2>6, HeadAndTail DEF Digested
    <3>2. changes > 0
      BY <1>0, <2>4, <2>6 DEF Digested, TypeInv
    <3>3. QED
      BY <1>1, <2>1, <2>4, <2>6, <3>1, <3>2 DEF Digested, Framed, Stray
  <2>7. QED
    BY <2>5, <2>6
<1>6. QED
  BY <1>2, <1>3, <1>4, <1>5

LEMMA ClientFrame ==
  ASSUME FrameInv, Live, ClientNext, Live'
  PROVE  Framed'
<1>1. ~(Lost \/ ReadFails \/ KillClient)
  BY DEF Live, Lost, ReadFails, KillClient
<1>2. QED
  BY <1>1, TypeFrame, SendTextFrame, SendChunkFrame, QuietFrame, HearFrame
     DEF ClientNext, ClientAuto

-------------------------------------------------------------------------------
(* What is answered. *)
LEMMA FirstLine ==
  ASSUME toClient = <<>>, NEW kind, NEW of, Answer(kind, of)
  PROVE  OneLine(kind)'
<1>1. toClient' = <<[kind |-> kind, of |-> of]>>
  BY DEF Answer
<1>2. QED
  BY <1>1 DEF OneLine

LEMMA SecondLine ==
  ASSUME NEW S, NEW s \in Seq(S), NEW e \in S, Len(s) = 1
  PROVE  /\ Len(Append(s, e)) = 2
         /\ Append(s, e)[1] = s[1]
         /\ Append(s, e)[2] = e
<1>1. /\ Len(Append(s, e)) = Len(s) + 1
      /\ \A i \in 1 .. Len(s) : Append(s, e)[i] = s[i]
      /\ Append(s, e)[Len(s) + 1] = e
  BY AppendProperties
<1>2. Len(s) + 1 = 2 /\ 1 \in 1 .. Len(s)
  OBVIOUS
<1>3. QED
  BY <1>1, <1>2

(* A header that can be read is that of the last request. *)
LEMMA HeaderFrame ==
  ASSUME FrameInv, Live, NEW kind, Header(kind)
  PROVE  /\ Asked /\ Declared(Head(toServer)) /\ Head(toServer).kind = kind
         /\ toServer' = Sent /\ Sent \in Seq(Data)
         /\ kind = "STR" => at \in {"text", "letters"} /\ asked.name = None
         /\ kind = "FILE" => at \in FileAt /\ asked.name \in Names
<1>0. TypeInv /\ RequestInv /\ Framed
  BY DEF FrameInv
<1>1. /\ child = "header" /\ toServer # <<>> /\ Head(toServer) \in Headers
      /\ Head(toServer).kind = kind /\ toServer' = Tail(toServer)
  BY <1>0, HeaderRead
<1>2. Head(toServer) \notin Data
  BY <1>1, HeaderAssumption
<1>3. toServer \notin Seq(Data)
  BY <1>1, <1>2, HeadAndTail
<1>4. Asked
  BY <1>0, <1>1, <1>2, <1>3, Places DEF Idle, Replied, Digested, Refused, Stray
<1>5. Sent \in Seq(Data)
  <2>1. 0 + 1 = 1 /\ 0 <= Out /\ Out \in Nat /\ Out <= Len(asked.bytes)
        /\ asked.bytes \in Seq(Data)
    BY <1>0, Lengths DEF Size
  <2>2. SubSeq(asked.bytes, 0 + 1, Out) \in Seq(Data)
    BY <2>1, Part
  <2>3. QED
    BY <2>1, <2>2 DEF Sent
<1>6. /\ at \in {"text", "letters", "opened", "sending", "md5"}
      /\ Declared(Head(toServer)) /\ toServer' = Sent
      /\ kind = IF asked.name = None THEN "STR" ELSE "FILE"
  BY <1>1, <1>4 DEF Asked, Asking, Declared
<1>7. /\ at \in StringAt => asked.name = None
      /\ at \in FileAt => asked.name \in Names /\ asked.name # None
  BY <1>0, TransferAssumption DEF RequestInv
<1>8. QED
  BY <1>1, <1>4, <1>5, <1>6, <1>7 DEF StringAt, FileAt

LEMMA TakeStringFrame == ASSUME FrameInv, Live, TakeString PROVE Framed'
<1>1. /\ Asked /\ Declared(Head(toServer)) /\ toServer' = Sent
      /\ at \in {"text", "letters"} /\ asked.name = None
  BY HeaderFrame DEF TakeString
<1>2. /\ need' = Head(toServer).size /\ child' = "string"
      /\ UNCHANGED <<at, asked, unsent, toClient>>
  BY DEF TakeString, clientVars
<1>3. need' = Size /\ Size' = Size /\ Sent' = Sent
  BY <1>1, <1>2 DEF Declared, Size, Sent, Out
<1>4. Reading'
  BY <1>1, <1>2, <1>3 DEF Asked, Reading
<1>5. QED
  BY <1>4 DEF Framed

(* The string is whole when it is received, and nothing follows it. *)
LEMMA WholeString ==
  ASSUME FrameInv, Live, ReceiveString
  PROVE  /\ Reading /\ at = "letters" /\ toServer' = <<>>
         /\ SubSeq(toServer, 1, need) = asked.bytes
<1>0. TypeInv /\ RequestInv /\ Framed /\ child = "string"
  BY DEF FrameInv, ReceiveString
<1>1. Reading
  BY <1>0, Places
<1>2. /\ asked.bytes \in Seq(Data) /\ Size \in Nat /\ Out \in Nat /\ Out <= Size
      /\ unsent = <<>> <=> Out = Size
      /\ Size = Len(asked.bytes)
  BY <1>0, Lengths DEF Size
<1>3. Len(Sent) = Out
  <2>1. Len(SubSeq(asked.bytes, 0 + 1, Out)) = Out - 0
    BY <1>2, Part
  <2>2. 0 + 1 = 1 /\ Out - 0 = Out
    BY <1>2
  <2>3. QED
    BY <2>1, <2>2 DEF Sent
<1>4. toServer = Sent /\ need = Size /\ Len(toServer) >= need
  BY <1>1 DEF Reading, ReceiveString
<1>5. Out = Size /\ unsent = <<>>
  BY <1>2, <1>3, <1>4
<1>6. at = "letters"
  <2>1. ASSUME at = "text" PROVE FALSE
    BY <1>0, <1>5, <2>1 DEF RequestInv, StringAt
  <2>2. QED
    BY <1>1, <2>1 DEF Reading
<1>7. toServer = asked.bytes
  BY <1>2, <1>4, <1>5, SubSeqFull DEF Sent
<1>8. toServer' = SubSeq(toServer, need + 1, need)
  BY <1>3, <1>4, <1>5 DEF ReceiveString, Take
<1>9. toServer' = <<>>
  BY <1>2, <1>4, <1>8, EmptyPart
<1>10. SubSeq(toServer, 1, need) = asked.bytes
  BY <1>2, <1>4, <1>7, SubSeqFull
<1>11. QED
  BY <1>1, <1>6, <1>9, <1>10

LEMMA StringFrame ==
  ASSUME FrameInv, Live, RejectString \/ SendLetters \/ SendDigits
  PROVE  Framed'
<1>0. TypeInv /\ Framed /\ at' = at
  BY DEF FrameInv, RejectString, SendLetters, SendDigits, ReceiveString, clientVars
<1>1. CASE RejectString
  <2>1. Reading /\ at = "letters" /\ toServer' = <<>>
    BY <1>1, WholeString DEF RejectString
  <2>2. OneLine("error")'
    BY <1>1, <2>1, FirstLine DEF RejectString, Reading
  <2>3. child' = "header"
    BY <1>1 DEF RejectString
  <2>4. Replied'
    BY <1>0, <2>1, <2>2, <2>3 DEF Replied
  <2>5. QED
    BY <2>4 DEF Framed
<1>2. CASE SendLetters
  <2>1. Reading /\ at = "letters" /\ toServer' = <<>>
    BY <1>2, WholeString DEF SendLetters
  <2>2. PICK d : Answer("letters", d)
    BY <1>2 DEF SendLetters
  <2>3. OneLine("letters")'
    BY <2>1, <2>2, FirstLine DEF Reading
  <2>4. child' = "digits"
    BY <1>2 DEF SendLetters
  <2>5. Replying'
    BY <1>0, <2>1, <2>3, <2>4 DEF Replying
  <2>6. QED
    BY <2>5 DEF Framed
<1>3. CASE SendDigits
  <2>1. /\ child = "digits" /\ child' = "header" /\ toServer' = toServer
        /\ Answer("digits", due)
    BY <1>3 DEF SendDigits
  <2>2. Replying
    BY <1>0, <2>1, Places
  <2>3. CASE at = "digits"
    <3>1. toClient = <<>>
      BY <2>2, <2>3 DEF Replying
    <3>2. OneLine("digits")'
      BY <2>1, <3>1, FirstLine
    <3>3. QED
      BY <1>0, <2>1, <2>2, <2>3, <3>2 DEF Replying, Replied, Framed
  <2>4. CASE at = "letters"
    <3>1. toClient \in Seq(Lines) /\ Len(toClient) = 1 /\ toClient[1].kind = "letters"
      BY <1>0, <2>2, <2>4 DEF Replying, OneLine, TypeInv
    <3>2. toClient' = Append(toClient, [kind |-> "digits", of |-> due])
      BY <2>1 DEF Answer
    <3>3. /\ Len(toClient') = 2 /\ toClient'[1] = toClient[1]
          /\ toClient'[2] = [kind |-> "digits", of |-> due]
      <4> DEFINE line == [kind |-> "digits", of |-> due]
      <4>1. line \in Lines
        BY <1>0 DEF TypeInv, Lines
      <4> HIDE DEF line
      <4>2. toClient' = Append(toClient, line)
        BY <3>2 DEF line
      <4>3. /\ Len(toClient') = 2 /\ toClient'[1] = toClient[1]
            /\ toClient'[2] = line
        BY <3>1, <4>1, <4>2, SecondLine
      <4>4. QED
        BY <4>3 DEF line
    <3>4. QED
      BY <1>0, <2>1, <2>2, <2>4, <3>1, <3>3 DEF Replying, Replied, Framed
  <2>5. QED
    BY <2>2, <2>3, <2>4 DEF Replying
<1>4. QED
  BY <1>1, <1>2, <1>3

LEMMA InvalidHeaderFrame == ASSUME FrameInv, Live, InvalidHeader PROVE Framed'
<1>1. Asked /\ toServer' = Sent /\ Sent \in Seq(Data) /\ at \in FileAt
  BY HeaderFrame DEF InvalidHeader
<1>2. OneLine("fragment")'
  BY <1>1, FirstLine DEF InvalidHeader, Asked
<1>3. child' = "header" /\ at' = at
  BY DEF InvalidHeader, Header, clientVars
<1>4. QED
  BY <1>1, <1>2, <1>3 DEF Refused, Framed

LEMMA TakeFileFrame == ASSUME FrameInv, Live, TakeFile PROVE Framed'
<1>0. TypeInv /\ RequestInv
  BY DEF FrameInv
<1>1. /\ Asked /\ Declared(Head(toServer)) /\ toServer' = Sent
      /\ at \in FileAt /\ asked.name \in Names
  BY HeaderFrame DEF TakeFile
<1>2. /\ need' = Head(toServer).size /\ word' = First[asked.name] /\ word' # None
      /\ received' = [received EXCEPT ![word'] = <<>>]
      /\ child' = "file" /\ UNCHANGED <<at, asked, unsent, toClient, changes>>
  BY <1>1 DEF TakeFile, Opened, Declared, clientVars
<1>3. word' \in Words
  BY <1>1, <1>2 DEF Words
<1>4. received'[word'] = <<>> /\ Len(<<>>) = 0
  BY <1>0, <1>2, <1>3, EmptySeq DEF TypeInv
<1>5. /\ Size' = Size /\ Out' = Out /\ Out \in Nat
      /\ 0 + 1 = 1 /\ SubSeq(asked.bytes, 0 + 1, 0) = <<>>
      /\ Size \in Nat
  BY <1>0, <1>2, Lengths, EmptyPart DEF Size, Out
<1>6. changes = 0 => need' = Size - 0
  BY <1>1, <1>2, <1>5 DEF Declared
<1>7. /\ Len(received'[word']) = 0 /\ 0 <= Out'
      /\ received'[word'] = SubSeq(asked'.bytes, 1, 0)
      /\ toServer' = SubSeq(asked'.bytes, 0 + 1, Out')
      /\ changes' = 0 => need' = Size' - 0
  <2>1. Len(received'[word']) = 0
    BY <1>4
  <2>2. 0 <= Out'
    BY <1>5
  <2>3. asked' = asked /\ changes' = changes /\ toServer' = SubSeq(asked.bytes, 1, Out)
    BY <1>1, <1>2 DEF Sent
  <2>4. SubSeq(asked.bytes, 1, 0) = <<>>
    BY <1>5
  <2>5. received'[word'] = SubSeq(asked'.bytes, 1, 0)
    BY <1>4, <2>3, <2>4
  <2>6. toServer' = SubSeq(asked'.bytes, 0 + 1, Out')
    BY <1>5, <2>3
  <2>7. changes' = 0 => need' = Size' - 0
    BY <1>5, <1>6, <2>3
  <2>8. QED
    BY <2>1, <2>2, <2>5, <2>6, <2>7
<1>8. Saving'
  BY <1>1, <1>2, <1>3, <1>7 DEF Saving, Asked
<1>9. QED
  BY <1>8 DEF Framed

(* A chunk that is received continues what is saved. *)
LEMMA ChunkReceived ==
  ASSUME TypeInv, RequestInv, OnDisk, need > 0, Len(toServer) >= Wanted,
         Take(Wanted)
  PROVE  \E k \in Nat :
           /\ k = Len(received[word]) /\ k + Wanted <= Out
           /\ received[word] \o SubSeq(toServer, 1, Wanted)
                = SubSeq(asked.bytes, 1, k + Wanted)
           /\ toServer' = SubSeq(asked.bytes, (k + Wanted) + 1, Out)
<1> DEFINE k == Len(received[word])
<1>1. /\ k \in Nat /\ k <= Out
      /\ received[word] = SubSeq(asked.bytes, 1, k)
      /\ toServer \in {SubSeq(asked.bytes, k + 1, Out), <<>>}
  BY LenProperties DEF OnDisk, TypeInv
<1>2. /\ asked.bytes \in Seq(Data) /\ Out \in Nat /\ Out <= Len(asked.bytes)
      /\ Wanted \in Nat \ {0}
  <2>1. Wanted \in Nat \ {0}
    BY TransferAssumption DEF Wanted, Min2, TypeInv
  <2>2. QED
    BY <2>1, Lengths DEF Size
<1>3. toServer = SubSeq(asked.bytes, k + 1, Out)
  <2>1. Len(<<>>) = 0
    BY EmptySeq
  <2>2. toServer # <<>>
    BY <1>2, <2>1
  <2>3. QED
    BY <1>1, <2>2
<1> HIDE DEF k
<1>4. Len(toServer) = Out - k /\ Wanted <= Len(toServer)
  BY <1>1, <1>2, <1>3, Part
<1>5. k + Wanted <= Out /\ Wanted <= Out - k
  BY <1>1, <1>2, <1>4
<1>6. SubSeq(toServer, 1, Wanted) = SubSeq(asked.bytes, k + 1, k + Wanted)
  <2>1. SubSeq(SubSeq(asked.bytes, k + 1, Out), 0 + 1, Wanted)
          = SubSeq(asked.bytes, (k + 0) + 1, k + Wanted)
    BY <1>1, <1>2, <1>5, PartOfPart
  <2>2. 0 + 1 = 1 /\ k + 0 = k
    BY <1>1
  <2>3. QED
    BY <1>3, <2>1, <2>2
<1>7. received[word] \o SubSeq(toServer, 1, Wanted)
        = SubSeq(asked.bytes, 1, k + Wanted)
  <2>1. SubSeq(asked.bytes, 0 + 1, k) \o SubSeq(asked.bytes, k + 1, k + Wanted)
          = SubSeq(asked.bytes, 0 + 1, k + Wanted)
    <3>1. k + Wanted \in Nat /\ k <= k + Wanted /\ k + Wanted <= Len(asked.bytes)
      BY <1>1, <1>2, <1>5
    <3>2. 0 \in Nat /\ k \in Nat /\ 0 <= k /\ asked.bytes \in Seq(Data)
      BY <1>1, <1>2
    <3>3. QED
      BY <3>1, <3>2, Adjacent
  <2>2. 0 + 1 = 1
    OBVIOUS
  <2>3. QED
    BY <1>1, <1>6, <2>1, <2>2
<1>8. toServer' = SubSeq(asked.bytes, (k + Wanted) + 1, Out)
  <2>1. SubSeq(SubSeq(asked.bytes, k + 1, Out), Wanted + 1, Out - k)
          = SubSeq(asked.bytes, (k + Wanted) + 1, k + (Out - k))
    <3>1. Out - k \in Nat /\ Wanted <= Out - k /\ Out - k <= Out - k
      BY <1>1, <1>2, <1>5
    <3>2. QED
      BY <1>1, <1>2, <3>1, PartOfPart
  <2>2. k + (Out - k) = Out
    BY <1>1, <1>2
  <2>3. toServer' = SubSeq(toServer, Wanted + 1, Out - k)
    BY <1>4 DEF Take
  <2>4. QED
    BY <1>3, <2>1, <2>2, <2>3
<1>9. QED
  BY <1>1, <1>5, <1>7, <1>8 DEF k

LEMMA ReceiveChunkFrame == ASSUME FrameInv, Live, ReceiveChunk PROVE Framed'
<1>0. TypeInv /\ RequestInv /\ Saving
  BY Places DEF FrameInv, ReceiveChunk
<1>1. PICK k \in Nat :
        /\ k = Len(received[word]) /\ k + Wanted <= Out
        /\ received[word] \o SubSeq(toServer, 1, Wanted)
             = SubSeq(asked.bytes, 1, k + Wanted)
        /\ toServer' = SubSeq(asked.bytes, (k + Wanted) + 1, Out)
  BY <1>0, ChunkReceived DEF Saving, OnDisk, ReceiveChunk
<1>2. /\ Wanted \in Nat /\ asked.bytes \in Seq(Data) /\ need \in Nat
      /\ Size \in Nat /\ Out \in Nat /\ Out <= Len(asked.bytes)
  BY <1>0, Lengths, WantedType DEF Size, TypeInv
<1>3. Len(SubSeq(asked.bytes, 1, k + Wanted)) = k + Wanted
  <2>1. k + Wanted \in Nat /\ 0 <= k + Wanted /\ k + Wanted <= Len(asked.bytes)
        /\ 0 + 1 = 1 /\ (k + Wanted) - 0 = k + Wanted
    BY <1>1, <1>2
  <2>2. Len(SubSeq(asked.bytes, 0 + 1, k + Wanted)) = (k + Wanted) - 0
    BY <1>2, <2>1, Part
  <2>3. QED
    BY <2>1, <2>2
<1>4. /\ UNCHANGED <<child, word, at, asked, unsent, toClient, changes>>
      /\ need' = need - Wanted
      /\ received' = [received EXCEPT ![word] =
                        received[word] \o SubSeq(toServer, 1, Wanted)]
  BY DEF ReceiveChunk, Save, clientVars
<1>5. received'[word'] = SubSeq(asked.bytes, 1, k + Wanted)
  BY <1>0, <1>1, <1>4 DEF Saving, TypeInv
<1>6. Size' = Size /\ Out' = Out
  BY <1>4 DEF Size, Out
<1>7. changes = 0 => need' = Size - (k + Wanted)
  BY <1>0, <1>1, <1>2, <1>4 DEF Saving
<1>8. Saving'
  BY <1>0, <1>1, <1>3, <1>4, <1>5, <1>6, <1>7 DEF Saving
<1>9. QED
  BY <1>8 DEF Framed

LEMMA CloseFileFrame == ASSUME FrameInv, Live, CloseFile PROVE Framed'
<1>0. TypeInv /\ RequestInv /\ Framed /\ child = "file"
  BY DEF FrameInv, CloseFile
<1>1. Saving
  BY <1>0, Places
<1> DEFINE k == Len(received[word])
<1>2. /\ k \in Nat /\ k <= Out
      /\ received[word] = SubSeq(asked.bytes, 1, k)
      /\ toServer = SubSeq(asked.bytes, k + 1, Out)
      /\ word \in Words
  BY <1>0, <1>1, LenProperties DEF Saving, TypeInv
<1>3. /\ asked.bytes \in Seq(Data) /\ Out \in Nat /\ Out <= Len(asked.bytes)
      /\ Size = Len(asked.bytes) /\ Size \in Nat
      /\ (unsent = <<>> <=> Out = Size)
  BY <1>0, Lengths DEF Size
<1>4. /\ need = 0 /\ child' = "saved"
      /\ UNCHANGED <<word, at, asked, unsent, toServer, toClient, changes>>
  BY DEF CloseFile, clientVars
<1> HIDE DEF k
<1>5. \E n \in 0..Size : received'[word] = SubSeq(asked.bytes, 1, n)
  <2>1. CASE UNCHANGED received
    BY <1>2, <1>3, <2>1
  <2>2. CASE \E kept \in Truncated(received[word]) : Save(kept)
    <3>1. PICK kept \in Truncated(received[word]) : Save(kept)
      BY <2>2
    <3>2. PICK n \in 0..Len(received[word]) - 1 : kept = SubSeq(received[word], 1, n)
      BY DEF Truncated
    <3>3. n \in Nat /\ n <= k /\ n \in 0..Size
      BY <1>2, <1>3, <3>2 DEF k
    <3>4. SubSeq(SubSeq(asked.bytes, 0 + 1, k), 0 + 1, n)
            = SubSeq(asked.bytes, (0 + 0) + 1, 0 + n)
      BY <1>2, <1>3, <3>3, PartOfPart
    <3>5. 0 + 1 = 1 /\ (0 + 0) + 1 = 1 /\ 0 + n = n
      BY <3>3
    <3>6. kept = SubSeq(asked.bytes, 1, n)
      BY <1>2, <3>2, <3>4, <3>5
    <3>7. received'[word] = kept
      BY <1>0, <1>2, <3>1 DEF Save, TypeInv
    <3>8. QED
      BY <3>3, <3>6, <3>7
  <2>3. QED
    BY <2>1, <2>2 DEF CloseFile
<1>6. toServer \in Seq(Data)
  BY <1>2, <1>3, Part
<1>7. changes = 0 => toServer = <<>> /\ unsent = <<>>
  <2>1. ASSUME changes = 0 PROVE k = Out /\ Out = Size
    BY <1>1, <1>2, <1>3, <1>4, <2>1 DEF Saving, k
  <2>2. SubSeq(asked.bytes, Out + 1, Out) = <<>>
    BY <1>3, EmptyPart
  <2>3. QED
    BY <1>2, <1>3, <2>1, <2>2
<1>8. Size' = Size
  BY <1>4 DEF Size
<1>9. Saved'
  BY <1>1, <1>4, <1>5, <1>6, <1>7, <1>8 DEF Saving, Saved
<1>10. QED
  BY <1>9 DEF Framed

LEMMA SendMd5Frame == ASSUME FrameInv, Live, SendMd5 PROVE Framed'
<1>1. Framed /\ child = "saved"
  BY DEF FrameInv, SendMd5
<1>2. Saved
  BY <1>1, Places
<1>3. PICK d : Answer("md5", d)
  BY DEF SendMd5
<1>4. OneLine("md5")'
  BY <1>2, <1>3, FirstLine DEF Saved
<1>5. child' = "header" /\ UNCHANGED <<at, unsent, toServer, changes>>
  BY DEF SendMd5, clientVars
<1>6. Digested'
  BY <1>2, <1>4, <1>5 DEF Saved, Digested
<1>7. QED
  BY <1>6 DEF Framed

LEMMA AcceptFrame == ASSUME FrameInv, Live, Accept, Live' PROVE Framed'
<1>1. /\ child = "none" /\ at # "off" /\ child' = "header"
      /\ UNCHANGED <<at, asked, unsent, toServer, toClient, changes>>
  BY DEF Accept, clientVars, Live
<1>2. /\ Size' = Size /\ Out' = Out /\ Sent' = Sent
      /\ \A h : Declared(h)' <=> Declared(h)
  BY <1>1 DEF Size, Out, Sent, Declared
<1>3. Idle \/ Asked
  BY <1>1, Places DEF FrameInv
<1>4. Idle' \/ Asked'
  BY <1>1, <1>2, <1>3 DEF Idle, Asked
<1>5. QED
  BY <1>4 DEF Framed

LEMMA ChildFrame == ASSUME FrameInv, Live, ChildNext, Live' PROVE Framed'
<1>1. ~(CannotSave \/ WriteFails \/ Garbage \/ CutOff \/ KillChild)
  BY DEF Live, CannotSave, WriteFails, Garbage, CutOff, KillChild
<1>2. QED
  BY <1>1, AcceptFrame, TakeStringFrame, StringFrame, InvalidHeaderFrame,
     TakeFileFrame, ReceiveChunkFrame, CloseFileFrame, SendMd5Frame
     DEF ChildNext, ChildAuto

-------------------------------------------------------------------------------
(* Steps of the whole connection.                                          *)

LEMMA ResetFrame == ASSUME FrameInv, Live, Reset PROVE FALSE
<1>1. at = "done" /\ toServer # <<>> /\ toClient # <<>>
  BY DEF Live, Reset, Over
<1>2. Framed
  BY DEF FrameInv
<1>3. ~Idle /\ ~Stray
  BY <1>1 DEF Idle, Stray
<1>4. at \in Asking
  BY <1>2, <1>3
     DEF Framed, Asked, Reading, Replying, Replied, Saving, Saved, Digested,
         Refused, Asking, FileAt
<1>5. QED
  BY <1>1, <1>4 DEF Asking

(* Neither process comes back. *)
LEMMA Ended ==
  ASSUME [Next]_vars
  PROVE  /\ at = "failed" \/ at = "killed" => at' = at
         /\ child = "closed" => child' = child
<1>1. ASSUME at = "failed" \/ at = "killed" PROVE at' = at
  <2>1. ~ClientNext
    BY <1>1 DEF ClientNext, ClientAuto, Connect, TypeString, TypeFile, Ask,
                SendText, StartMd5, SendChunk, EndOfFile, HearError, HearLetters,
                HearDigits, HearMd5, Lost, ReadFails, Exit, KillClient, Waits, Over
  <2>2. QED
    BY <2>1 DEF Next, vars, clientVars, Reset, ChildNext, ChildAuto, Accept,
                TakeString, RejectString, SendLetters, SendDigits, InvalidHeader,
                TakeFile, ReceiveChunk, CloseFile, SendMd5, Garbage, CutOff,
                CannotSave, WriteFails, KillChild, ReceiveString
<1>2. ASSUME child = "closed" PROVE child' = child
  <2>1. ~ChildNext
    BY <1>2 DEF ChildNext, ChildAuto, Accept, TakeString, RejectString,
                SendLetters, SendDigits, InvalidHeader, TakeFile, ReceiveChunk,
                CloseFile, SendMd5, Garbage, CutOff, CannotSave, WriteFails,
                KillChild, ReceiveString, Header
  <2>2. QED
    BY <2>1 DEF Next, vars, childVars, Reset, ClientNext, ClientAuto, Connect,
                TypeString, TypeFile, Ask, SendText, StartMd5, SendChunk,
                EndOfFile, HearError, HearLetters, HearDigits, HearMd5, Lost,
                ReadFails, Exit, KillClient
<1>3. QED
  BY <1>1, <1>2

LEMMA LiveBefore == ASSUME [Next]_vars, Live' PROVE Live
BY Ended DEF Live

LEMMA FrameStep == ASSUME FrameInv, [Next]_vars PROVE FrameInv'
<1>1. TypeInv' /\ RequestInv'
  BY TypeStep, RequestStep DEF FrameInv
<1>2. ASSUME Live' PROVE Framed'
  <2>1. Live /\ Framed
    BY <1>2, LiveBefore DEF FrameInv
  <2>2. CASE UNCHANGED vars
    <3>1. UNCHANGED <<at, unsent, asked, child, need, word, received, toServer,
                      toClient, changes>>
      BY <2>2 DEF vars, clientVars, childVars
    <3>2. Size' = Size /\ Out' = Out /\ Sent' = Sent
      BY <3>1 DEF Size, Out, Sent
    <3>3. /\ \A h : Declared(h)' <=> Declared(h)
          /\ \A kind : OneLine(kind)' <=> OneLine(kind)
      BY <3>1, <3>2 DEF Declared, OneLine
    <3>4. /\ Idle => Idle'
          /\ Asked => Asked'
          /\ Reading => Reading'
          /\ Replying => Replying'
          /\ Replied => Replied'
      BY <3>1, <3>2, <3>3 DEF Idle, Asked, Reading, Replying, Replied
    <3>5. Saving => Saving'
      BY <3>1, <3>2 DEF Saving
    <3>6. Saved => Saved'
      BY <3>1, <3>2 DEF Saved
    <3>7. /\ Digested => Digested'
          /\ Refused => Refused'
          /\ Stray => Stray'
      BY <3>1, <3>3 DEF Digested, Refused, Stray
    <3>8. QED
      BY <2>1, <3>4, <3>5, <3>6, <3>7 DEF Framed
  <2>3. CASE Next
    BY <1>2, <2>1, <2>3, ClientFrame, ChildFrame, ResetFrame DEF Next
  <2>4. QED
    BY <2>2, <2>3
<1>3. QED
  BY <1>1, <1>2 DEF FrameInv

LEMMA InitFrame == Init => FrameInv
<1> SUFFICES ASSUME Init PROVE FrameInv
  OBVIOUS
<1>1. TypeInv /\ RequestInv
  BY InitType, InitRequest
<1>2. Idle
  BY DEF Init, Idle
<1>3. QED
  BY <1>1, <1>2 DEF FrameInv, Framed

LEMMA FrameHolds == Spec => []FrameInv
<1>1. FrameInv /\ [Next]_vars => FrameInv'
  BY FrameStep
<1>2. QED
  BY InitFrame, <1>1, PTL DEF Spec

(* While the connection is open and no file changed on its way, the menu   *)
(* of the client finds both streams empty and the server at a header line, *)
(* whatever was asked and whatever failed before (HW6/server.c:294-342,    *)
(* client.c:93-234).                                                       *)
THEOREM InStepHolds == Spec => []InStep
<1>1. FrameInv => InStep
  <2> SUFFICES ASSUME FrameInv, at = "menu", changes = 0,
                      child \notin {"none", "closed"}
               PROVE  toServer = <<>> /\ toClient = <<>> /\ child = "header"
    BY DEF InStep
  <2>1. Framed
    BY DEF FrameInv, Live
  <2>2. Idle
    BY <2>1 DEF Framed, Asked, Reading, Replying, Replied, Saving, Saved,
                Digested, Refused, Stray, Asking, FileAt
  <2>3. QED
    BY <2>2 DEF Idle
<1>2. QED
  BY FrameHolds, <1>1, PTL

-------------------------------------------------------------------------------
(* What is saved                                                           *)

(* The stream to the server as long as its process runs: also after the    *)
(* client is gone, when what it sent last is still on its way or is lost.  *)
StreamInv ==
  /\ child \in {"none", "header"} =>
       \/ toServer = <<>>
       \/ Head(toServer) \in Data
       \/ Declared(Head(toServer)) /\ Tail(toServer) = Sent
  /\ child = "string" => need = Size /\ toServer \in {Sent, <<>>}
  /\ child = "digits" => toServer = <<>>
  /\ child = "file" => OnDisk
  /\ child = "saved" => toServer \in Seq(Data)

PrefixInv ==
  /\ source \in [Words -> Seq(Data)]
  /\ SavedIsPrefix
  /\ child = "file" => source[word] = asked.bytes

(* A stream of bytes is empty or begins with one. *)
LEMMA BytesOnly ==
  ASSUME NEW s \in Seq(Data)
  PROVE  s = <<>> \/ Head(s) \in Data
BY HeadAndTail

LEMMA FramedStream == TypeInv /\ RequestInv /\ Framed => StreamInv
<1> SUFFICES ASSUME TypeInv, RequestInv, Framed PROVE StreamInv
  OBVIOUS
<1>1. CASE Idle \/ Replying \/ Replied
  BY <1>1 DEF Idle, Replying, Replied, StreamInv
<1>2. CASE Asked
  BY <1>2 DEF Asked, StreamInv
<1>3. CASE Reading
  BY <1>3 DEF Reading, StreamInv
<1>4. CASE Saving
  BY <1>4 DEF Saving, OnDisk, StreamInv
<1>5. CASE Saved
  BY <1>5 DEF Saved, StreamInv
<1>6. CASE Digested \/ Refused \/ Stray
  BY <1>6, BytesOnly DEF Digested, Refused, Stray, StreamInv
<1>7. QED
  BY <1>1, <1>2, <1>3, <1>4, <1>5, <1>6 DEF Framed

LEMMA SentBytes ==
  ASSUME TypeInv, RequestInv
  PROVE  /\ Sent \in Seq(Data) /\ Len(Sent) = Out
         /\ Out \in Nat /\ Size \in Nat /\ Out <= Size
<1>1. 0 + 1 = 1 /\ 0 <= Out /\ Out \in Nat /\ Out <= Len(asked.bytes)
      /\ asked.bytes \in Seq(Data) /\ Out - 0 = Out /\ Size \in Nat
  BY Lengths DEF Size
<1>2. SubSeq(asked.bytes, 0 + 1, Out) \in Seq(Data)
      /\ Len(SubSeq(asked.bytes, 0 + 1, Out)) = Out - 0
  BY <1>1, Part
<1>3. QED
  BY <1>1, <1>2 DEF Sent, Size

(* The header of a request that is read, of a client that may be gone. *)
LEMMA HeaderStream ==
  ASSUME TypeInv, RequestInv, StreamInv, NEW kind, Header(kind)
  PROVE  /\ Declared(Head(toServer)) /\ Head(toServer).kind = kind
         /\ toServer' = Sent /\ Sent \in Seq(Data)
<1>1. /\ child = "header" /\ toServer # <<>> /\ Head(toServer) \in Headers
      /\ Head(toServer).kind = kind /\ toServer' = Tail(toServer)
  BY HeaderRead
<1>2. Head(toServer) \notin Data
  BY <1>1, HeaderAssumption
<1>3. QED
  BY <1>1, <1>2, SentBytes DEF StreamInv

(* The child's own steps, whether the client is there or not. *)
LEMMA TakeFileStream ==
  ASSUME TypeInv, RequestInv, StreamInv, TakeFile
  PROVE  StreamInv'
<1>1. /\ Declared(Head(toServer)) /\ Head(toServer).kind = "FILE"
      /\ toServer' = Sent
  BY HeaderStream DEF TakeFile
<1>2. /\ word' = First[asked.name] /\ word' # None
      /\ received' = [received EXCEPT ![word'] = <<>>]
      /\ child' = "file" /\ UNCHANGED <<asked, unsent>>
  BY <1>1 DEF TakeFile, Opened, Declared, clientVars
<1>3. asked.name \in Names
  BY <1>1, TransferAssumption DEF Declared, Headers, TypeInv
<1>4. word' \in Words
  BY <1>2, <1>3 DEF Words
<1>5. received'[word'] = <<>> /\ Len(<<>>) = 0
  BY <1>2, <1>4, EmptySeq DEF TypeInv
<1>6. /\ Out' = Out /\ Out \in Nat /\ asked'.bytes = asked.bytes
      /\ SubSeq(asked.bytes, 1, 0) = <<>> /\ 0 + 1 = 1
  <2>1. SubSeq(asked.bytes, 0 + 1, 0) = <<>> /\ 0 + 1 = 1
    BY EmptyPart
  <2>2. QED
    BY <1>2, <2>1, SentBytes DEF Out, Size
<1>7. toServer' = SubSeq(asked'.bytes, 0 + 1, Out')
  BY <1>1, <1>6 DEF Sent
<1>8. /\ Len(received'[word']) = 0 /\ 0 <= Out'
      /\ received'[word'] = SubSeq(asked'.bytes, 1, 0)
  <2>1. 0 <= Out'
    BY <1>6
  <2>2. QED
    BY <1>5, <1>6, <2>1
<1>9. OnDisk'
  BY <1>2, <1>4, <1>7, <1>8 DEF OnDisk
<1>10. QED
  BY <1>2, <1>9 DEF StreamInv

LEMMA ReceiveChunkStream ==
  ASSUME TypeInv, RequestInv, StreamInv, ReceiveChunk
  PROVE  StreamInv'
<1>1. PICK k \in Nat :
        /\ k = Len(received[word]) /\ k + Wanted <= Out
        /\ received[word] \o SubSeq(toServer, 1, Wanted)
             = SubSeq(asked.bytes, 1, k + Wanted)
        /\ toServer' = SubSeq(asked.bytes, (k + Wanted) + 1, Out)
  BY ChunkReceived DEF ReceiveChunk, StreamInv
<1>2. /\ Wanted \in Nat /\ asked.bytes \in Seq(Data)
      /\ Out \in Nat /\ Out <= Len(asked.bytes) /\ Len(asked.bytes) \in Nat
  BY SentBytes, WantedType DEF Size, TypeInv
<1>3. Len(SubSeq(asked.bytes, 1, k + Wanted)) = k + Wanted
  <2>1. k + Wanted \in Nat /\ 0 <= k + Wanted /\ k + Wanted <= Len(asked.bytes)
        /\ 0 + 1 = 1 /\ (k + Wanted) - 0 = k + Wanted
    BY <1>1, <1>2
  <2>2. Len(SubSeq(asked.bytes, 0 + 1, k + Wanted)) = (k + Wanted) - 0
    BY <1>2, <2>1, Part
  <2>3. QED
    BY <2>1, <2>2
<1>4. /\ UNCHANGED <<child, word, asked, unsent>> /\ child = "file"
      /\ received' = [received EXCEPT ![word] =
                        received[word] \o SubSeq(toServer, 1, Wanted)]
  BY DEF ReceiveChunk, Save, clientVars
<1>5. word \in Words /\ word = First[asked.name]
  BY <1>4 DEF StreamInv, OnDisk
<1>6. received'[word'] = SubSeq(asked.bytes, 1, k + Wanted)
  BY <1>1, <1>4, <1>5 DEF TypeInv
<1>7. Out' = Out
  BY <1>4 DEF Out, Size
<1>8. OnDisk'
  BY <1>1, <1>3, <1>4, <1>5, <1>6, <1>7 DEF OnDisk
<1>9. QED
  BY <1>4, <1>8 DEF StreamInv

(* The whole of a string is read, and nothing follows it. *)
LEMMA StringStream ==
  ASSUME TypeInv, RequestInv, StreamInv, ReceiveString
  PROVE  toServer' = <<>>
<1>1. /\ need = Size /\ toServer \in {Sent, <<>>} /\ Len(toServer) >= need
      /\ toServer' = SubSeq(toServer, need + 1, Len(toServer))
  BY DEF StreamInv, ReceiveString, Take
<1>2. Len(toServer) = need /\ need \in Nat
  <2>1. Len(<<>>) = 0
    BY EmptySeq
  <2>2. Len(toServer) \in {Out, 0}
    BY <1>1, <2>1, SentBytes
  <2>3. QED
    BY <1>1, <2>2, SentBytes
<1>3. QED
  BY <1>1, <1>2, EmptyPart

LEMMA ChildStream ==
  ASSUME TypeInv, RequestInv, StreamInv, ChildNext, child' # "closed"
  PROVE  StreamInv'
<1>1. UNCHANGED <<asked, unsent, changes>>
  BY DEF ChildNext, ChildAuto, clientVars, Accept, TakeString, RejectString,
         SendLetters, SendDigits, InvalidHeader, TakeFile, ReceiveChunk,
         CloseFile, SendMd5, Garbage, CutOff, CannotSave, WriteFails, KillChild,
         ReceiveString
<1>2. /\ Size' = Size /\ Out' = Out /\ Sent' = Sent
      /\ \A h : Declared(h)' <=> Declared(h)
  BY <1>1 DEF Size, Out, Sent, Declared
<1>3. CASE Accept
  <2>1. child = "none" /\ child' = "header" /\ UNCHANGED toServer
    BY <1>3 DEF Accept
  <2>2. QED
    BY <1>2, <2>1 DEF StreamInv
<1>4. CASE TakeString
  <2>1. /\ Declared(Head(toServer)) /\ Head(toServer).kind = "STR"
        /\ toServer' = Sent
    BY <1>4, HeaderStream DEF TakeString
  <2>2. need' = Head(toServer).size /\ child' = "string"
    BY <1>4 DEF TakeString
  <2>3. need' = Size
    BY <2>1, <2>2 DEF Declared
  <2>4. QED
    BY <1>2, <2>1, <2>2, <2>3 DEF StreamInv
<1>5. CASE RejectString \/ SendLetters
  <2>1. toServer' = <<>> /\ child' \in {"header", "digits"}
    BY <1>5, StringStream DEF RejectString, SendLetters
  <2>2. QED
    BY <2>1 DEF StreamInv
<1>6. CASE SendDigits
  <2>1. toServer' = <<>> /\ child' = "header"
    BY <1>6 DEF SendDigits, StreamInv
  <2>2. QED
    BY <2>1 DEF StreamInv
<1>7. CASE InvalidHeader
  <2>1. toServer' \in Seq(Data) /\ child' = "header"
    BY <1>7, HeaderStream DEF InvalidHeader, Header
  <2>2. toServer' = <<>> \/ Head(toServer') \in Data
    BY <2>1, BytesOnly
  <2>3. QED
    BY <2>1, <2>2 DEF StreamInv
<1>8. CASE TakeFile
  BY <1>8, TakeFileStream
<1>9. CASE ReceiveChunk
  BY <1>9, ReceiveChunkStream
<1>10. CASE CloseFile
  <2>1. child' = "saved" /\ UNCHANGED toServer /\ OnDisk
    BY <1>10 DEF CloseFile, StreamInv
  <2>2. toServer \in Seq(Data)
    <3>1. /\ Len(received[word]) \in Nat /\ Len(received[word]) <= Out
          /\ toServer \in {SubSeq(asked.bytes, Len(received[word]) + 1, Out), <<>>}
      BY <2>1, LenProperties DEF OnDisk, TypeInv
    <3>2. asked.bytes \in Seq(Data) /\ Out \in Nat /\ Out <= Len(asked.bytes)
      BY SentBytes DEF Size, TypeInv
    <3>3. SubSeq(asked.bytes, Len(received[word]) + 1, Out) \in Seq(Data)
      BY <3>1, <3>2, Part
    <3>4. QED
      BY <3>1, <3>3, EmptySeq
  <2>3. QED
    BY <2>1, <2>2 DEF StreamInv
<1>11. CASE SendMd5
  <2>1. child' = "header" /\ UNCHANGED toServer /\ toServer \in Seq(Data)
    BY <1>11 DEF SendMd5, StreamInv
  <2>2. toServer' = <<>> \/ Head(toServer') \in Data
    BY <2>1, BytesOnly
  <2>3. QED
    BY <2>1, <2>2 DEF StreamInv
<1>12. ~(Garbage \/ CutOff \/ CannotSave \/ WriteFails \/ KillChild)
  BY DEF Garbage, CutOff, CannotSave, WriteFails, KillChild
<1>13. QED
  BY <1>3, <1>4, <1>5, <1>6, <1>7, <1>8, <1>9, <1>10, <1>11, <1>12
     DEF ChildNext, ChildAuto

(* A client that fails or is killed leaves what it sent in the stream.     *)
LEMMA StreamLeft ==
  ASSUME StreamInv, UNCHANGED <<child, need, word, received, asked, unsent, changes>>,
         toServer' \in {toServer, <<>>}
  PROVE  StreamInv'
<1>1. /\ Size' = Size /\ Out' = Out /\ Sent' = Sent
      /\ \A h : Declared(h)' <=> Declared(h)
  BY DEF Size, Out, Sent, Declared
<1>2. child = "file" => OnDisk'
  BY <1>1 DEF StreamInv, OnDisk
<1>3. child = "saved" => toServer' \in Seq(Data)
  BY EmptySeq DEF StreamInv
<1>4. QED
  BY <1>1, <1>2, <1>3 DEF StreamInv

LEMMA StreamStep == ASSUME FrameInv, StreamInv, [Next]_vars PROVE StreamInv'
<1>0. TypeInv /\ RequestInv
  BY DEF FrameInv
<1>1. CASE child' = "closed"
  BY <1>1 DEF StreamInv
<1>2. CASE Live'
  <2>1. (TypeInv /\ RequestInv /\ Framed)'
    BY <1>2, FrameStep DEF FrameInv
  <2>2. QED
    BY <2>1, FramedStream, PTL
<1>3. CASE child' # "closed" /\ at' \in {"failed", "killed"}
  <2>1. CASE ChildNext
    BY <1>0, <1>3, <2>1, ChildStream
  <2>2. CASE Reset
    <3>1. /\ UNCHANGED <<child, need, word, received, asked, unsent, changes>>
          /\ toServer' \in {toServer, <<>>}
      BY <2>2 DEF Reset, clientVars, childVars
    <3>2. QED
      BY <3>1, StreamLeft
  <2>3. CASE ClientNext
    <3>1. child # "closed"
      BY <1>3, Ended
    <3>2. ReadFails \/ KillClient
      BY <1>3, <2>3, <3>1
         DEF ClientNext, ClientAuto, Connect, TypeString, TypeFile, SendText,
             StartMd5, SendChunk, EndOfFile, HearError, HearLetters, HearDigits,
             HearMd5, Lost, Exit
    <3>3. UNCHANGED <<child, need, word, received, asked, unsent, changes, toServer>>
      BY <3>2 DEF ReadFails, KillClient, childVars
    <3>4. QED
      BY <3>3, StreamLeft
  <2>4. CASE UNCHANGED vars
    <3>1. UNCHANGED <<child, need, word, received, asked, unsent, changes, toServer>>
      BY <2>4 DEF vars, childVars, clientVars
    <3>2. QED
      BY <3>1, StreamLeft
  <2>5. QED
    BY <2>1, <2>2, <2>3, <2>4 DEF Next
<1>4. QED
  BY <1>1, <1>2, <1>3 DEF Live

(* A prefix of a prefix. *)
LEMMA ShorterPrefix ==
  ASSUME NEW S, NEW s \in Seq(S), NEW m \in Nat, m <= Len(s),
         NEW n \in Nat, n <= m
  PROVE  SubSeq(SubSeq(s, 1, m), 1, n) = SubSeq(s, 1, n)
<1>1. SubSeq(SubSeq(s, 0 + 1, m), 0 + 1, n) = SubSeq(s, (0 + 0) + 1, 0 + n)
  <2>1. 0 \in Nat /\ 0 <= m /\ 0 <= n /\ n <= m - 0
    OBVIOUS
  <2>2. QED
    BY <2>1, PartOfPart
<1>2. 0 + 1 = 1 /\ (0 + 0) + 1 = 1 /\ 0 + n = n
  OBVIOUS
<1>3. QED
  BY <1>1, <1>2

IsPrefix(b, s) == \E n \in 0..Len(s) : b = SubSeq(s, 1, n)

LEMMA CutPrefix ==
  ASSUME NEW S, NEW s \in Seq(S), NEW b, IsPrefix(b, s)
  PROVE  /\ \A n \in 0..Len(b) : IsPrefix(SubSeq(b, 1, n), s)
         /\ \A kept \in Truncated(b) : IsPrefix(kept, s)
<1>1. Len(s) \in Nat
  BY LenProperties
<1>2. PICK m \in 0..Len(s) : b = SubSeq(s, 1, m)
  BY DEF IsPrefix
<1>3. Len(b) = m
  <2>1. 0 + 1 = 1 /\ 0 \in Nat /\ 0 <= m /\ m \in Nat /\ m <= Len(s) /\ m - 0 = m
    BY <1>1, <1>2
  <2>2. Len(SubSeq(s, 0 + 1, m)) = m - 0
    BY <2>1, Part
  <2>3. QED
    BY <1>2, <2>1, <2>2
<1>4. ASSUME NEW n \in 0..Len(b) PROVE IsPrefix(SubSeq(b, 1, n), s)
  <2>1. n \in Nat /\ n <= m /\ m \in Nat /\ m <= Len(s) /\ n \in 0..Len(s)
    BY <1>1, <1>2, <1>3
  <2>2. SubSeq(b, 1, n) = SubSeq(s, 1, n)
    BY <1>2, <2>1, ShorterPrefix
  <2>3. QED
    BY <2>1, <2>2 DEF IsPrefix
<1>5. ASSUME NEW kept \in Truncated(b) PROVE IsPrefix(kept, s)
  <2>1. PICK n \in 0 .. Len(b) - 1 : kept = SubSeq(b, 1, n)
    BY DEF Truncated
  <2>2. n \in 0..Len(b)
    BY <1>2, <1>3
  <2>3. QED
    BY <1>4, <2>1, <2>2
<1>6. QED
  BY <1>4, <1>5

(* What is written to the file that is open stays a prefix of its source.  *)
LEMMA WrittenPrefix ==
  ASSUME TypeInv, PrefixInv, word \in Words, UNCHANGED source,
         NEW b, received' = [received EXCEPT ![word] = b],
         IsPrefix(b, source[word])
  PROVE  SavedIsPrefix'
<1>1. \A w \in Words : IsPrefix(received'[w], source'[w])
  BY DEF PrefixInv, SavedIsPrefix, TypeInv, IsPrefix
<1>2. QED
  BY <1>1 DEF SavedIsPrefix, IsPrefix

(* The chunk that is written whole, or cut off by a write that fails. *)
LEMMA ChunkPrefix ==
  ASSUME TypeInv, RequestInv, StreamInv, PrefixInv,
         child = "file", need > 0, Len(toServer) >= Wanted, Take(Wanted)
  PROVE  /\ word \in Words
         /\ IsPrefix(received[word] \o SubSeq(toServer, 1, Wanted), source[word])
<1>1. OnDisk /\ word \in Words
  BY DEF StreamInv, OnDisk
<1>2. PICK k \in Nat :
        /\ k + Wanted <= Out
        /\ received[word] \o SubSeq(toServer, 1, Wanted)
             = SubSeq(asked.bytes, 1, k + Wanted)
  BY <1>1, ChunkReceived
<1>3. k + Wanted \in 0..Len(asked.bytes)
  <2>1. Out \in Nat /\ Out <= Len(asked.bytes) /\ Len(asked.bytes) \in Nat
        /\ Wanted \in Nat
    BY SentBytes, WantedType DEF Size, TypeInv
  <2>2. QED
    BY <1>2, <2>1
<1>4. source[word] = asked.bytes
  BY DEF PrefixInv
<1>5. QED
  BY <1>1, <1>2, <1>3, <1>4 DEF IsPrefix

LEMMA OpenedPrefix ==
  ASSUME TypeInv, RequestInv, StreamInv, PrefixInv, TakeFile
  PROVE  PrefixInv'
<1> DEFINE w == First[Head(toServer).name]
<1>1. Declared(Head(toServer)) /\ Head(toServer).kind = "FILE"
  BY HeaderStream DEF TakeFile
<1>2. w \in Words
  <2>1. asked.name \in Names
    BY <1>1, TransferAssumption DEF Declared, Headers, TypeInv
  <2>2. w = First[asked.name] /\ w # None
    BY <1>1 DEF TakeFile, Declared
  <2>3. QED
    BY <2>1, <2>2 DEF Words
<1>3. /\ word' = w /\ UNCHANGED asked
      /\ received' = [received EXCEPT ![w] = <<>>]
      /\ source' = [source EXCEPT ![w] = asked.bytes]
  BY DEF TakeFile, Opened, clientVars
<1> HIDE DEF w
<1>4. asked.bytes \in Seq(Data)
  BY DEF TypeInv
<1>5. source' \in [Words -> Seq(Data)] /\ source'[w] = asked.bytes
  BY <1>2, <1>3, <1>4 DEF PrefixInv
<1>6. IsPrefix(<<>>, asked.bytes)
  <2>1. SubSeq(asked.bytes, 0 + 1, 0) = <<>> /\ 0 + 1 = 1
    BY EmptyPart
  <2>2. 0 \in 0..Len(asked.bytes)
    BY <1>4, LenProperties
  <2>3. SubSeq(asked.bytes, 1, 0) = <<>>
    BY <2>1
  <2>4. QED
    BY <2>2, <2>3 DEF IsPrefix
<1>7. ASSUME NEW v \in Words PROVE IsPrefix(received'[v], source'[v])
  <2>1. CASE v = w
    BY <1>2, <1>3, <1>5, <1>6, <2>1 DEF TypeInv
  <2>2. CASE v # w
    <3>1. received'[v] = received[v] /\ source'[v] = source[v]
      BY <1>2, <1>3, <2>2 DEF TypeInv, PrefixInv
    <3>2. QED
      BY <3>1 DEF PrefixInv, SavedIsPrefix, IsPrefix
  <2>3. QED
    BY <2>1, <2>2
<1>8. SavedIsPrefix'
  BY <1>7 DEF SavedIsPrefix, IsPrefix
<1>9. QED
  BY <1>3, <1>5, <1>8 DEF PrefixInv

LEMMA PrefixStep ==
  ASSUME FrameInv, StreamInv, PrefixInv, [Next]_vars
  PROVE  PrefixInv'
<1>0. TypeInv /\ RequestInv
  BY DEF FrameInv
<1>1. CASE TakeFile
  BY <1>0, <1>1, OpenedPrefix
<1>2. CASE ReceiveChunk
  <2>1. word \in Words
        /\ IsPrefix(received[word] \o SubSeq(toServer, 1, Wanted), source[word])
    BY <1>0, <1>2, ChunkPrefix DEF ReceiveChunk
  <2>2. /\ UNCHANGED <<source, child, word, asked>>
        /\ received' = [received EXCEPT ![word] =
                          received[word] \o SubSeq(toServer, 1, Wanted)]
    BY <1>2 DEF ReceiveChunk, Save, clientVars
  <2>3. SavedIsPrefix'
    BY <1>0, <2>1, <2>2, WrittenPrefix
  <2>4. QED
    BY <2>2, <2>3 DEF PrefixInv
<1>3. CASE WriteFails
  <2>1. word \in Words
        /\ IsPrefix(received[word] \o SubSeq(toServer, 1, Wanted), source[word])
    BY <1>0, <1>3, ChunkPrefix DEF WriteFails
  <2>2. PICK kept \in Truncated(received[word] \o SubSeq(toServer, 1, Wanted)) :
          Save(kept)
    BY <1>3 DEF WriteFails
  <2>3. source[word] \in Seq(Data)
    BY <2>1 DEF PrefixInv
  <2>4. IsPrefix(kept, source[word])
    BY <2>1, <2>2, <2>3, CutPrefix
  <2>5. SavedIsPrefix'
    BY <1>0, <2>1, <2>2, <2>4, WrittenPrefix DEF Save
  <2>6. UNCHANGED source /\ child' = "closed"
    BY <1>3 DEF WriteFails, Save
  <2>7. QED
    BY <2>5, <2>6 DEF PrefixInv
<1>4. CASE CloseFile \/ KillChild
  <2>1. UNCHANGED source /\ child' # "file"
    BY <1>4 DEF CloseFile, KillChild, Save
  <2>2. CASE UNCHANGED received
    <3>1. SavedIsPrefix'
      BY <2>1, <2>2 DEF PrefixInv, SavedIsPrefix
    <3>2. QED
      BY <2>1, <3>1 DEF PrefixInv
  <2>3. CASE received' # received
    <3>1. /\ child = "file"
          /\ \/ \E kept \in Truncated(received[word]) : Save(kept)
             \/ \E n \in 0..Len(received[word]) : Save(SubSeq(received[word], 1, n))
      BY <1>4, <2>3 DEF CloseFile, KillChild
    <3>2. word \in Words
      BY <3>1 DEF StreamInv, OnDisk
    <3>3. source[word] \in Seq(Data) /\ IsPrefix(received[word], source[word])
      BY <3>2 DEF PrefixInv, SavedIsPrefix, IsPrefix
    <3>4. PICK b : Save(b) /\ IsPrefix(b, source[word])
      BY <3>1, <3>3, CutPrefix
    <3>5. SavedIsPrefix'
      BY <1>0, <2>1, <3>2, <3>4, WrittenPrefix DEF Save
    <3>6. QED
      BY <2>1, <3>5 DEF PrefixInv
  <2>4. QED
    BY <2>2, <2>3
<1>5. ASSUME UNCHANGED <<received, source>>, child' = "file" => child = "file" /\ UNCHANGED <<word, asked>>
      PROVE  PrefixInv'
  BY <1>5 DEF PrefixInv, SavedIsPrefix
<1>6. CASE ChildNext /\ ~(TakeFile \/ ReceiveChunk \/ WriteFails \/ CloseFile \/ KillChild)
  <2>1. UNCHANGED <<received, source>> /\ child' # "file"
    BY <1>6 DEF ChildNext, ChildAuto, Accept, TakeString, RejectString, SendLetters,
                SendDigits, InvalidHeader, SendMd5, Garbage, CutOff, CannotSave,
                ReceiveString, Header
  <2>2. QED
    BY <1>5, <2>1
<1>7. CASE ClientNext
  <2>1. UNCHANGED <<received, source, child, word>>
    BY <1>7 DEF ClientNext, ClientAuto, Connect, TypeString, TypeFile, Ask,
                SendText, StartMd5, SendChunk, EndOfFile, HearError, HearLetters,
                HearDigits, HearMd5, Lost, ReadFails, Exit, KillClient, childVars
  <2>2. ASSUME child = "file" PROVE UNCHANGED asked
    <3>1. at # "menu"
      <4>1. ASSUME at = "menu" PROVE FALSE
        <5>1. Framed
          BY <2>2, <4>1 DEF FrameInv, Live
        <5>2. QED
          BY <2>2, <4>1, <5>1, Places DEF Saving, FileAt
      <4>2. QED
        BY <4>1
    <3>2. QED
      BY <1>7, <3>1 DEF ClientNext, ClientAuto, Connect, TypeString, TypeFile, Ask,
                SendText, StartMd5, SendChunk, EndOfFile, HearError, HearLetters,
                HearDigits, HearMd5, Lost, ReadFails, Exit, KillClient
  <2>3. QED
    BY <1>5, <2>1, <2>2
<1>8. CASE Reset \/ UNCHANGED vars
  <2>1. UNCHANGED <<received, source, child, word, asked>>
    BY <1>8 DEF Reset, vars, childVars, clientVars
  <2>2. QED
    BY <1>5, <2>1
<1>9. QED
  BY <1>1, <1>2, <1>3, <1>4, <1>6, <1>7, <1>8 DEF Next

LEMMA InitPrefix == Init => StreamInv /\ PrefixInv
<1> SUFFICES ASSUME Init PROVE StreamInv /\ PrefixInv
  OBVIOUS
<1>1. StreamInv
  BY DEF Init, StreamInv
<1>2. source \in [Words -> Seq(Data)]
  BY EmptySeq DEF Init
<1>3. SavedIsPrefix
  <2>1. SubSeq(<<>>, 0 + 1, 0) = <<>> /\ 0 + 1 = 1 /\ Len(<<>>) = 0 /\ 0 \in 0..0
    BY EmptyPart, EmptySeq
  <2>2. SubSeq(<<>>, 1, 0) = <<>>
    BY <2>1
  <2>3. QED
    BY <2>1, <2>2 DEF Init, SavedIsPrefix
<1>4. QED
  BY <1>1, <1>2, <1>3 DEF Init, PrefixInv

(* What stands under a name in received_files/ is at any time a prefix of  *)
(* the file for which it was last opened, however the stream is cut into   *)
(* chunks and whatever broke off: the client gone in the middle of it, the *)
(* connection reset, a write or fclose() that failed, the server's process *)
(* killed (HW6/server.c:237-256).                                          *)
THEOREM SavedIsPrefixHolds == Spec => []SavedIsPrefix
<1> DEFINE Inv == FrameInv /\ StreamInv /\ PrefixInv
<1>1. Init => Inv
  BY InitFrame, InitPrefix
<1>2. Inv /\ [Next]_vars => Inv'
  BY FrameStep, StreamStep, PrefixStep
<1>3. Inv => SavedIsPrefix
  BY DEF PrefixInv
<1>4. QED
  BY <1>1, <1>2, <1>3, PTL DEF Spec

-------------------------------------------------------------------------------
(* Temporary files                                                         *)

CountersInv == faults \in Nat /\ kills \in Nat /\ leftovers \in Nat

ContextInv ==
  /\ ctx["client"].open => at = "sending"
  /\ ctx["server"].open => child \in {"file", "saved"}

Explained == ~Quiet \/ at = "failed"

TempInv ==
  /\ CountersInv
  /\ ContextInv
  /\ at = "killed" => kills > 0
  /\ leftovers > 0 => Explained

(* What the calls of md5.c do to the context of their side, to that of the *)
(* other side, and to the counts.                                          *)
LEMMA CallsOnContexts ==
  ASSUME TypeInv, NEW s \in Side, NEW o \in Side, o # s
  PROVE  /\ md5_init(s) => ctx'[o] = ctx[o]
         /\ \A d : md5_update(s, d) => /\ ctx'[o] = ctx[o]
                                       /\ ctx'[s].open => ctx[s].open
         /\ \A d : md5_final(s, d) => ctx'[o] = ctx[o] /\ ~ctx'[s].open
         /\ Abandon(s) => ctx'[o] = ctx[o] /\ ~ctx'[s].open
         /\ \A t, d : md5_string(t, d) => ctx' = ctx
BY DEF TypeInv, md5_init, md5_update, md5_final, Abandon, md5_string, Put,
       NoContext, md5Vars

LEMMA CallsOnCounts ==
  ASSUME CountersInv, NEW s \in Side
  PROVE  /\ Fault => faults' \in Nat /\ faults' > 0
         /\ \/ md5_init(s)
            \/ \E d : md5_update(s, d)
            \/ \E d : md5_final(s, d)
            \/ \E t, d : md5_string(t, d)
            => /\ faults' \in Nat /\ leftovers' \in Nat /\ faults <= faults'
               /\ leftovers' = leftovers \/ faults' > 0
         /\ Abandon(s) => /\ leftovers' \in Nat
                          /\ ~ctx[s].open => leftovers' = leftovers
<1>1. Fault => faults' \in Nat /\ faults' > 0 /\ faults <= faults'
  BY DEF Fault, CountersInv
<1>2. ASSUME NEW t, NEW d, md5_string(t, d)
      PROVE  /\ faults' \in Nat /\ leftovers' \in Nat /\ faults <= faults'
             /\ leftovers' = leftovers \/ faults' > 0
  BY <1>1, <1>2 DEF md5_string, CountersInv
<1>3. ASSUME \/ md5_init(s)
             \/ \E d : md5_update(s, d)
             \/ \E d : md5_final(s, d)
      PROVE  /\ UNCHANGED <<faults, leftovers>> \/ Fault
             /\ leftovers' \in {leftovers, leftovers + 1}
             /\ leftovers' = leftovers \/ Fault
  <2>1. CASE md5_init(s)
    BY <2>1 DEF md5_init
  <2>2. CASE \E d : md5_update(s, d)
    BY <2>2 DEF md5_update, md5Vars
  <2>3. CASE \E d : md5_final(s, d)
    BY <2>3 DEF md5_final
  <2>4. QED
    BY <1>3, <2>1, <2>2, <2>3
<1>4. Abandon(s) => /\ leftovers' \in Nat
                    /\ ~ctx[s].open => leftovers' = leftovers
  BY DEF Abandon, CountersInv
<1>5. ASSUME UNCHANGED <<faults, leftovers>> \/ Fault,
             leftovers' \in {leftovers, leftovers + 1},
             leftovers' = leftovers \/ Fault
      PROVE  /\ faults' \in Nat /\ leftovers' \in Nat /\ faults <= faults'
             /\ leftovers' = leftovers \/ faults' > 0
  BY <1>1, <1>5 DEF CountersInv
<1>6. QED
  BY <1>1, <1>2, <1>3, <1>4, <1>5

(* Nothing is ever uncounted, and what is left over is explained by the    *)
(* step that leaves it.                                                    *)
Counted ==
  /\ CountersInv'
  /\ faults <= faults' /\ kills <= kills' /\ changes <= changes'
  /\ leftovers' = leftovers \/ Explained'

LEMMA CountStep == ASSUME FrameInv, TempInv, [Next]_vars PROVE Counted
<1>0. /\ changes \in Nat /\ CountersInv /\ "client" \in Side /\ "server" \in Side
      /\ TypeInv
  BY Sides DEF FrameInv, TypeInv, TempInv
<1>1. ASSUME UNCHANGED <<faults, leftovers>>,
             kills' = kills \/ Kill, changes' = changes \/ changes' = changes + 1
      PROVE  Counted
  BY <1>0, <1>1 DEF Counted, CountersInv, Kill
<1>2. ASSUME UNCHANGED <<kills, changes>>,
             \/ \E s \in Side : md5_init(s)
             \/ \E s \in Side : \E d : md5_update(s, d)
             \/ \E s \in Side : \E d : md5_final(s, d)
             \/ \E t, d : md5_string(t, d)
      PROVE  Counted
  <2>1. /\ faults' \in Nat /\ leftovers' \in Nat /\ faults <= faults'
        /\ leftovers' = leftovers \/ faults' > 0
    BY <1>0, <1>2, CallsOnCounts
  <2>2. QED
    BY <1>0, <1>2, <2>1 DEF Counted, CountersInv, Explained, Quiet
<1>3. ASSUME UNCHANGED <<kills, changes>>, Fault,
             leftovers' = leftovers \/ \E s \in Side : Abandon(s)
      PROVE  Counted
  <2>1. faults' \in Nat /\ faults' > 0 /\ faults <= faults'
    BY <1>0, <1>3 DEF Fault, CountersInv
  <2>2. leftovers' \in Nat
    BY <1>0, <1>3, CallsOnCounts DEF CountersInv
  <2>3. QED
    BY <1>0, <1>3, <2>1, <2>2 DEF Counted, CountersInv, Explained, Quiet
<1>4. ASSUME UNCHANGED <<faults, changes>>, NEW s \in Side, Abandon(s),
             kills' = kills \/ Kill,
             ctx[s].open /\ kills' = kills => Explained'
      PROVE  Counted
  <2>1. /\ leftovers' \in Nat
        /\ ~ctx[s].open => leftovers' = leftovers
    BY <1>0, <1>4, CallsOnCounts
  <2>2. kills' \in Nat /\ kills <= kills' /\ (kills' = kills \/ kills' > 0)
    BY <1>0, <1>4 DEF Kill, CountersInv
  <2>3. QED
    BY <1>0, <1>4, <2>1, <2>2 DEF Counted, CountersInv, Explained, Quiet
(* A client that left the menu by exit() leaves no transfer behind. *)
<1>5. ASSUME at \in Over, at' = at, UNCHANGED <<faults, kills, changes>>,
             child # "closed", ctx["server"].open
      PROVE  Explained'
  <2>1. CASE at = "failed"
    BY <1>5, <2>1 DEF Explained
  <2>2. CASE at = "killed"
    BY <1>0, <1>5, <2>2 DEF TempInv, Explained, Quiet, CountersInv
  <2>3. CASE at = "done"
    <3>1. Framed /\ child \in {"file", "saved"}
      BY <1>5, <2>3 DEF FrameInv, Live, TempInv, ContextInv
    <3>2. FALSE
      BY <2>3, <3>1
         DEF Framed, Idle, Asked, Reading, Replying, Replied, Saving, Saved,
             Digested, Refused, Stray, FileAt
    <3>3. QED
      BY <3>2
  <2>4. QED
    BY <1>5, <2>1, <2>2, <2>3 DEF Over
<1>6. CASE ClientNext
  <2>1. CASE Connect \/ SendText \/ HearError \/ HearLetters \/ HearMd5 \/ Exit
    BY <1>1, <2>1 DEF Connect, SendText, HearError, HearLetters, HearMd5, Exit,
                      md5Vars
  <2>2. ASSUME NEW s \in Strings, TypeString(s) PROVE Counted
    BY <1>1, <2>2 DEF TypeString, Ask, md5Vars
  <2>3. ASSUME NEW n \in Names, NEW seen \in Contents, NEW bytes \in Contents,
               TypeFile(n, seen, bytes)
        PROVE  Counted
    BY <1>1, <2>3 DEF TypeFile, Ask, md5Vars
  <2>4. CASE StartMd5 \/ SendChunk \/ EndOfFile \/ HearDigits
    BY <1>0, <1>2, <2>4 DEF StartMd5, SendChunk, EndOfFile, HearDigits
  <2>5. CASE ReadFails
    BY <1>0, <1>3, <2>5 DEF ReadFails
  <2>6. CASE Lost
    BY <1>0, <1>4, <2>6 DEF Lost, Explained
  <2>7. CASE KillClient
    <3>1. kills' # kills
      BY <1>0, <2>7 DEF KillClient, Kill, CountersInv
    <3>2. QED
      BY <1>0, <1>4, <2>7, <3>1 DEF KillClient
  <2>8. QED
    BY <1>6, <2>1, <2>2, <2>3, <2>4, <2>5, <2>6, <2>7 DEF ClientNext, ClientAuto
<1>7. CASE ChildNext
  <2>1. CASE TakeString \/ RejectString \/ SendDigits \/ InvalidHeader \/ Garbage
    BY <1>1, <2>1 DEF TakeString, RejectString, ReceiveString, SendDigits,
                      InvalidHeader, Garbage, md5Vars, clientVars
  <2>2. CASE SendLetters \/ TakeFile \/ ReceiveChunk \/ SendMd5
    BY <1>0, <1>2, <2>2 DEF SendLetters, ReceiveString, TakeFile, ReceiveChunk,
                            SendMd5, clientVars
  <2>3. CASE Accept \/ CloseFile
    BY <1>1, <1>3, <2>3 DEF Accept, CloseFile, clientVars
  <2>4. CASE CannotSave \/ WriteFails
    BY <1>0, <1>3, <2>4 DEF CannotSave, WriteFails, clientVars
  <2>5. CASE CutOff
    BY <1>0, <1>4, <1>5, <2>5 DEF CutOff, clientVars
  <2>6. CASE KillChild
    <3>1. UNCHANGED <<faults, changes, at>> /\ Abandon("server") /\ child # "closed"
      BY <2>6 DEF KillChild, clientVars
    <3>2. CASE at \in Over
      BY <1>0, <1>4, <1>5, <2>6, <3>1, <3>2 DEF KillChild
    <3>3. CASE at \notin Over
      <4>1. Kill /\ kills' # kills
        BY <1>0, <2>6, <3>3 DEF KillChild, Kill, CountersInv
      <4>2. QED
        BY <1>0, <1>4, <3>1, <4>1
    <3>4. QED
      BY <3>2, <3>3
  <2>7. QED
    BY <1>7, <2>1, <2>2, <2>3, <2>4, <2>5, <2>6 DEF ChildNext, ChildAuto
<1>8. CASE Reset \/ UNCHANGED vars
  BY <1>1, <1>8 DEF Reset, vars, md5Vars, clientVars
<1>9. QED
  BY <1>6, <1>7, <1>8 DEF Next

LEMMA ContextStep == ASSUME FrameInv, TempInv, [Next]_vars PROVE ContextInv'
<1>0. /\ TypeInv /\ ContextInv /\ Side = {"client", "server"}
      /\ "client" \in Side /\ "server" \in Side /\ "client" # "server"
  BY Sides DEF FrameInv, TempInv
<1>1. ASSUME UNCHANGED <<ctx, child>>, at # "sending" \/ at' = at
      PROVE  ContextInv'
  BY <1>0, <1>1 DEF ContextInv
<1>2. ASSUME UNCHANGED child, ctx'["server"] = ctx["server"],
             ctx'["client"].open => at' = "sending"
      PROVE  ContextInv'
  BY <1>0, <1>2 DEF ContextInv
<1>3. ASSUME UNCHANGED at, ctx'["client"] = ctx["client"],
             ctx'["server"].open => child' \in {"file", "saved"}
      PROVE  ContextInv'
  BY <1>0, <1>3 DEF ContextInv
<1>4. CASE ClientNext
  <2>0. child' = child
    BY <1>4 DEF ClientNext, ClientAuto, Connect, TypeString, TypeFile, Ask,
                SendText, StartMd5, SendChunk, EndOfFile, HearError, HearLetters,
                HearDigits, HearMd5, Lost, ReadFails, Exit, KillClient, childVars
  <2>1. CASE Connect \/ SendText \/ HearError \/ HearLetters \/ HearMd5 \/ Exit
    BY <1>1, <2>0, <2>1 DEF Connect, SendText, HearError, HearLetters, HearMd5,
                            Exit, md5Vars
  <2>2. ASSUME NEW s \in Strings, TypeString(s) PROVE ContextInv'
    BY <1>1, <2>0, <2>2 DEF TypeString, Ask, md5Vars
  <2>3. ASSUME NEW n \in Names, NEW seen \in Contents, NEW bytes \in Contents,
               TypeFile(n, seen, bytes)
        PROVE  ContextInv'
    BY <1>1, <2>0, <2>3 DEF TypeFile, Ask, md5Vars
  <2>4. CASE StartMd5 \/ SendChunk
    <3>1. at' = "sending" /\ ctx'["server"] = ctx["server"]
      BY <1>0, <2>4, CallsOnContexts DEF StartMd5, SendChunk
    <3>2. QED
      BY <1>2, <2>0, <3>1
  <2>5. CASE EndOfFile \/ Lost \/ ReadFails \/ KillClient
    <3>1. ctx'["server"] = ctx["server"] /\ ~ctx'["client"].open
      BY <1>0, <2>5, CallsOnContexts DEF EndOfFile, Lost, ReadFails, KillClient
    <3>2. QED
      BY <1>2, <2>0, <3>1
  <2>6. CASE HearDigits
    <3>1. ctx' = ctx /\ at = "digits"
      BY <1>0, <2>6, CallsOnContexts DEF HearDigits
    <3>2. QED
      BY <1>1, <2>0, <3>1
  <2>7. QED
    BY <1>4, <2>1, <2>2, <2>3, <2>4, <2>5, <2>6 DEF ClientNext, ClientAuto
<1>5. CASE ChildNext
  <2>0. at' = at
    BY <1>5 DEF ChildNext, ChildAuto, Accept, TakeString, RejectString,
                SendLetters, SendDigits, InvalidHeader, TakeFile, ReceiveChunk,
                CloseFile, SendMd5, Garbage, CutOff, CannotSave, WriteFails,
                KillChild, ReceiveString, clientVars
  <2>1. ASSUME ctx' = ctx, child \notin {"file", "saved"} \/ child' \in {"file", "saved"}
        PROVE  ContextInv'
    BY <1>0, <1>3, <2>0, <2>1 DEF ContextInv
  <2>2. CASE \/ Accept \/ TakeString \/ RejectString \/ SendDigits
             \/ InvalidHeader \/ Garbage \/ CannotSave \/ CloseFile
    BY <2>1, <2>2 DEF Accept, TakeString, RejectString, ReceiveString, SendDigits,
                      InvalidHeader, Garbage, CannotSave, CloseFile, Header, md5Vars
  <2>3. CASE SendLetters
    <3>1. ctx' = ctx /\ child = "string"
      BY <1>0, <2>3, CallsOnContexts DEF SendLetters, ReceiveString
    <3>2. QED
      BY <2>1, <3>1
  <2>4. CASE TakeFile
    <3>1. ctx'["client"] = ctx["client"] /\ child' = "file"
      BY <1>0, <2>4, CallsOnContexts DEF TakeFile
    <3>2. QED
      BY <1>3, <2>0, <3>1
  <2>5. CASE ReceiveChunk
    <3>1. ctx'["client"] = ctx["client"] /\ child' = "file"
      BY <1>0, <2>5, CallsOnContexts DEF ReceiveChunk
    <3>2. QED
      BY <1>3, <2>0, <3>1
  <2>6. CASE SendMd5 \/ WriteFails \/ CutOff \/ KillChild
    <3>1. ctx'["client"] = ctx["client"] /\ ~ctx'["server"].open
      BY <1>0, <2>6, CallsOnContexts DEF SendMd5, WriteFails, CutOff, KillChild
    <3>2. QED
      BY <1>3, <2>0, <3>1
  <2>7. QED
    BY <1>5, <2>2, <2>3, <2>4, <2>5, <2>6 DEF ChildNext, ChildAuto
<1>6. CASE Reset \/ UNCHANGED vars
  BY <1>1, <1>6 DEF Reset, vars, md5Vars, clientVars, childVars
<1>7. QED
  BY <1>4, <1>5, <1>6 DEF Next

LEMMA TempStep == ASSUME FrameInv, TempInv, [Next]_vars PROVE TempInv'
<1>0. /\ CountersInv /\ changes \in Nat
      /\ at = "killed" => kills > 0
      /\ leftovers > 0 => Explained
  BY DEF TempInv, FrameInv, TypeInv
<1>1. Counted /\ ContextInv'
  BY CountStep, ContextStep
<1>2. CountersInv' /\ kills <= kills' /\ faults <= faults' /\ changes <= changes'
  BY <1>1 DEF Counted
<1>3. (at = "killed")' => kills' > 0
  <2>1. CASE at = "killed"
    BY <1>0, <1>2, <2>1 DEF CountersInv
  <2>2. CASE at # "killed" /\ at' = "killed"
    <3>1. KillClient
      BY <2>2 DEF Next, vars, clientVars, Reset, ChildNext, ChildAuto, Accept,
                TakeString, RejectString, SendLetters, SendDigits, InvalidHeader,
                TakeFile, ReceiveChunk, CloseFile, SendMd5, Garbage, CutOff,
                CannotSave, WriteFails, KillChild, ReceiveString,
                ClientNext, ClientAuto, Connect, TypeString, TypeFile, Ask,
                SendText, StartMd5, SendChunk, EndOfFile, HearError, HearLetters,
                HearDigits, HearMd5, Lost, ReadFails, Exit
    <3>2. QED
      BY <1>0, <3>1 DEF KillClient, Kill, CountersInv
  <2>3. QED
    BY <2>1, <2>2
<1>4. Explained => Explained'
  <2>1. at = "failed" => at' = "failed"
    BY Ended
  <2>2. ~Quiet => ~Quiet'
    BY <1>0, <1>2 DEF Quiet, CountersInv
  <2>3. QED
    BY <2>1, <2>2 DEF Explained
<1>5. (leftovers > 0)' => Explained'
  BY <1>0, <1>1, <1>4 DEF Counted
<1>6. QED
  BY <1>1, <1>2, <1>3, <1>5 DEF TempInv

LEMMA InitTemp == Init => TempInv
<1> SUFFICES ASSUME Init PROVE TempInv
  OBVIOUS
<1>1. "client" \in Side /\ "server" \in Side
  BY Sides
<1>2. ~ctx["client"].open /\ ~ctx["server"].open
  BY <1>1 DEF Init, Md5Init, NoContext
<1>3. at = "off" /\ faults = 0 /\ kills = 0 /\ leftovers = 0
  BY DEF Init, Md5Init
<1>4. QED
  BY <1>2, <1>3 DEF TempInv, ContextInv, CountersInv

(* A temporary file of md5_init() ends with its request, and one that is   *)
(* left over is explained by a kill, a fault or a broken connection        *)
(* (HW6/md5.c:34-133).                                                     *)
THEOREM NoTempLeftHolds == Spec => []NoTempLeft
<1>1. Init => TempInv
  BY InitTemp
<1>2. FrameInv /\ TempInv /\ [Next]_vars => TempInv'
  BY TempStep
<1>3. TempInv => NoTempLeft
  BY DEF TempInv, ContextInv, NoTempLeft, Explained
<1>4. QED
  BY FrameHolds, <1>1, <1>2, <1>3, PTL DEF Spec


-------------------------------------------------------------------------------
(***************************************************************************)
(* The verdict that the client prints.                                     *)
(***************************************************************************)

Safe == faults = 0

(* The lines that the client has not read, whether the server's process is *)
(* still there or not.                                                     *)
LinesInv ==
  /\ at \in {"off", "menu", "done"} => toClient = <<>>
  /\ at \in FileAt \cup {"digits"} => Len(toClient) <= 1
  /\ at \in {"text", "letters"} =>
       /\ Len(toClient) <= 2
       /\ toClient # <<>> /\ toClient[1].kind = "error" => Len(toClient) = 1

(* After a verdict the server does not find another header. *)
SettledInv ==
  verdict # "none" =>
    /\ at \notin Asking
    /\ child # "closed" =>
         /\ child \in {"none", "header"}
         /\ toServer = <<>> \/ Head(toServer) \in Data

(* The client's digest is of the bytes it has sent. *)
ClientDigest ==
  /\ at = "opened" => unsent = asked.bytes
  /\ at = "sending" => ctx["client"].open /\ ctx["client"].data = Sent
  /\ at \in {"md5", "digits"} => mine = asked.bytes

(* The server's digest is of the bytes it has saved or received. *)
ServerDigest ==
  /\ child = "digits" /\ at \in StringAt => due = asked.bytes
  /\ child \in {"file", "saved"} =>
       /\ word \in Words
       /\ ctx["server"].open /\ ctx["server"].data = received[word]
  /\ child = "saved" /\ at \in FileAt /\ changes = 0 =>
       received[word] = asked.bytes

Right(l) ==
  /\ at \in StringAt /\ l.kind \in {"letters", "digits"} => l.of = asked.bytes
  /\ at \in FileAt /\ l.kind = "md5" =>
       /\ l.of = received[First[asked.name]]
       /\ changes = 0 => l.of = asked.bytes

LinesRight == \A i \in 1 .. Len(toClient) : Right(toClient[i])

VerdictInv ==
  /\ verdict = "Mismatch" => changes > 0
  /\ verdict = "Match" /\ asked.name # None =>
       received[First[asked.name]] = asked.bytes

DigestInv ==
  Safe => ClientDigest /\ ServerDigest /\ LinesRight /\ VerdictInv

-------------------------------------------------------------------------------
(* What each side leaves to the other.                                     *)

LEMMA ClientLeaves ==
  ASSUME TypeInv, ClientNext
  PROVE  /\ UNCHANGED childVars
         /\ ctx'["server"] = ctx["server"]
         /\ \/ toClient' = toClient
            \/ toClient # <<>> /\ toClient' = Tail(toClient)
<1>0. "client" \in Side /\ "server" \in Side /\ "client" # "server"
  BY Sides
<1>1. UNCHANGED childVars
  BY DEF ClientNext, ClientAuto, Connect, TypeString, TypeFile, Ask, SendText,
         StartMd5, SendChunk, EndOfFile, HearError, HearLetters, HearDigits,
         HearMd5, Lost, ReadFails, Exit, KillClient
<1>2. \/ toClient' = toClient
      \/ toClient # <<>> /\ toClient' = Tail(toClient)
  BY DEF ClientNext, ClientAuto, Connect, TypeString, TypeFile, Ask, SendText,
         StartMd5, SendChunk, EndOfFile, HearError, HearLetters, HearDigits,
         HearMd5, Lost, ReadFails, Exit, KillClient, Line, Hear
<1>3. \/ UNCHANGED ctx
      \/ md5_init("client")
      \/ \E d : md5_update("client", d)
      \/ \E d : md5_final("client", d)
      \/ \E t, d : md5_string(t, d)
      \/ Abandon("client")
  BY DEF ClientNext, ClientAuto, Connect, TypeString, TypeFile, Ask, SendText,
         StartMd5, SendChunk, EndOfFile, HearError, HearLetters, HearDigits,
         HearMd5, Lost, ReadFails, Exit, KillClient, md5Vars
<1>4. ctx'["server"] = ctx["server"]
  BY <1>0, <1>3, CallsOnContexts
<1>5. QED
  BY <1>1, <1>2, <1>4

LEMMA OthersLeave ==
  ASSUME TypeInv, ChildNext \/ Reset \/ UNCHANGED vars
  PROVE  UNCHANGED clientVars /\ ctx'["client"] = ctx["client"]
<1>0. "client" \in Side /\ "server" \in Side /\ "client" # "server"
  BY Sides
<1>1. UNCHANGED clientVars
  BY DEF ChildNext, ChildAuto, Accept, TakeString, RejectString, SendLetters,
         SendDigits, InvalidHeader, TakeFile, ReceiveChunk, CloseFile, SendMd5,
         Garbage, CutOff, CannotSave, WriteFails, KillChild, ReceiveString,
         Reset, vars
<1>2. \/ UNCHANGED ctx
      \/ md5_init("server")
      \/ \E d : md5_update("server", d)
      \/ \E d : md5_final("server", d)
      \/ \E t, d : md5_string(t, d)
      \/ Abandon("server")
  BY DEF ChildNext, ChildAuto, Accept, TakeString, RejectString, SendLetters,
         SendDigits, InvalidHeader, TakeFile, ReceiveChunk, CloseFile, SendMd5,
         Garbage, CutOff, CannotSave, WriteFails, KillChild, ReceiveString,
         Reset, vars, md5Vars
<1>3. ctx'["client"] = ctx["client"]
  BY <1>0, <1>2, CallsOnContexts
<1>4. QED
  BY <1>1, <1>3

(* The server's process ends without an answer. *)
LEMMA ClosingStep ==
  ASSUME [Next]_vars, child # "closed", child' = "closed"
  PROVE  /\ UNCHANGED <<clientVars, toClient>>
         /\ received' = received \/ child = "file"
<1>1. \/ Accept \/ CannotSave \/ WriteFails \/ Garbage \/ CutOff \/ KillChild
  BY DEF Next, vars, childVars, Reset, ClientNext, ClientAuto, Connect,
         TypeString, TypeFile, Ask, SendText, StartMd5, SendChunk, EndOfFile,
         HearError, HearLetters, HearDigits, HearMd5, Lost, ReadFails, Exit,
         KillClient, ChildNext, ChildAuto, TakeString, RejectString, SendLetters,
         SendDigits, InvalidHeader, TakeFile, ReceiveChunk, CloseFile, SendMd5,
         Header
<1>2. QED
  BY <1>1 DEF Accept, CannotSave, WriteFails, Garbage, CutOff, KillChild

LEMMA ClosedStep ==
  ASSUME [Next]_vars, child = "closed"
  PROVE  \/ ClientNext
         \/ UNCHANGED clientVars /\ (toClient' = toClient \/ toClient' = <<>>)
<1>1. ~ChildNext
  BY DEF ChildNext, ChildAuto, Accept, TakeString, RejectString, SendLetters,
         SendDigits, InvalidHeader, TakeFile, ReceiveChunk, CloseFile, SendMd5,
         Garbage, CutOff, CannotSave, WriteFails, KillChild, ReceiveString, Header
<1>2. QED
  BY <1>1 DEF Next, Reset, vars

-------------------------------------------------------------------------------
(* The lines that are not read.                                            *)

LEMMA ShorterTail ==
  ASSUME NEW S, NEW s \in Seq(S), s # <<>>
  PROVE  /\ Len(s) <= 1 => Tail(s) = <<>>
         /\ Len(s) <= 2 => Len(Tail(s)) <= 1
<1>1. Len(s) \in Nat \ {0} /\ Tail(s) \in Seq(S) /\ Len(Tail(s)) = Len(s) - 1
  BY EmptySeq, LenProperties, HeadTailProperties
<1>2. Len(s) <= 1 => Len(Tail(s)) = 0
  BY <1>1
<1>3. QED
  BY <1>1, <1>2, EmptySeq

LEMMA FramedLines == TypeInv /\ Framed => LinesInv
<1> SUFFICES ASSUME TypeInv, Framed PROVE LinesInv
  OBVIOUS
<1>1. toClient = <<>> \/ (\E kind : OneLine(kind)) \/ (Replied /\ Len(toClient) = 2)
  BY DEF Framed, Idle, Asked, Reading, Replying, Replied, Saving, Saved, Digested,
         Refused, Stray
<1>2. Len(<<>>) = 0
  BY EmptySeq
<1>3. CASE toClient = <<>>
  BY <1>2, <1>3 DEF LinesInv
<1>4. CASE \E kind : OneLine(kind)
  <2>1. at \notin {"off", "menu", "done"}
    BY <1>2, <1>4, Places DEF OneLine, Idle, Stray
  <2>2. QED
    BY <1>4, <2>1 DEF OneLine, LinesInv
<1>5. CASE Replied /\ Len(toClient) = 2
  BY <1>5 DEF Replied, OneLine, LinesInv, FileAt
<1>6. QED
  BY <1>1, <1>3, <1>4, <1>5

LEMMA LinesStep ==
  ASSUME FrameInv, LinesInv, [Next]_vars, FrameInv'
  PROVE  LinesInv'
<1>0. TypeInv /\ toClient \in Seq(Lines) /\ Len(<<>>) = 0
  BY EmptySeq DEF FrameInv, TypeInv
<1>1. ASSUME at' = at, toClient' = toClient PROVE LinesInv'
  BY <1>1 DEF LinesInv
<1>2. CASE Live'
  <2>1. (TypeInv /\ Framed => LinesInv)'
    BY FramedLines, PTL
  <2>2. QED
    BY <1>2, <2>1 DEF FrameInv
<1>3. CASE at' \in {"failed", "killed"}
  BY <1>3 DEF LinesInv, FileAt
<1>4. CASE child' = "closed" /\ child # "closed"
  BY <1>1, <1>4, ClosingStep DEF clientVars
<1>5. CASE child = "closed" /\ at' \notin {"failed", "killed"}
  <2>1. CASE UNCHANGED clientVars /\ (toClient' = toClient \/ toClient' = <<>>)
    BY <1>0, <1>1, <2>1 DEF clientVars, LinesInv
  <2>2. CASE ClientNext
    <3>1. CASE Connect \/ Exit
      BY <3>1 DEF Connect, Exit, LinesInv, FileAt
    <3>2. ASSUME NEW s \in Strings, TypeString(s) PROVE LinesInv'
      BY <1>0, <3>2 DEF TypeString, Ask, LinesInv, FileAt
    <3>3. ASSUME NEW n \in Names, NEW seen \in Contents, NEW bytes \in Contents,
                 TypeFile(n, seen, bytes)
          PROVE  LinesInv'
      BY <1>0, <3>3 DEF TypeFile, Ask, LinesInv, FileAt
    <3>4. CASE SendText
      BY <3>4 DEF SendText, LinesInv, FileAt
    <3>5. CASE StartMd5 \/ SendChunk \/ EndOfFile
      BY <3>5 DEF StartMd5, SendChunk, EndOfFile, LinesInv, FileAt
    <3>6. CASE HearError
      <4>1. /\ toClient # <<>> /\ toClient[1].kind = "error" /\ at = "letters"
            /\ toClient' = Tail(toClient) /\ at' = "menu"
        BY <1>0, <3>6 DEF HearError, Line, Hear
      <4>2. Len(toClient) = 1
        BY <4>1 DEF LinesInv
      <4>3. toClient' = <<>>
        BY <1>0, <4>1, <4>2, ShorterTail
      <4>4. QED
        BY <4>1, <4>3 DEF LinesInv, FileAt
    <3>7. CASE HearDigits \/ HearMd5
      <4>1. /\ toClient # <<>> /\ Len(toClient) <= 1
            /\ toClient' = Tail(toClient) /\ at' = "menu"
        BY <3>7 DEF HearDigits, HearMd5, Line, Hear, LinesInv, FileAt
      <4>2. toClient' = <<>>
        BY <1>0, <4>1, ShorterTail
      <4>3. QED
        BY <4>1, <4>2 DEF LinesInv, FileAt
    <3>8. CASE HearLetters
      <4>1. /\ toClient # <<>> /\ Len(toClient) <= 2
            /\ toClient' = Tail(toClient) /\ at' = "digits"
        BY <3>8 DEF HearLetters, Line, Hear, LinesInv
      <4>2. Len(toClient') <= 1
        BY <1>0, <4>1, ShorterTail
      <4>3. QED
        BY <4>1, <4>2 DEF LinesInv, FileAt
    <3>9. QED
      BY <1>5, <2>2, <3>1, <3>2, <3>3, <3>4, <3>5, <3>6, <3>7, <3>8
         DEF ClientNext, ClientAuto, Lost, ReadFails, KillClient
  <2>3. QED
    BY <1>5, <2>1, <2>2, ClosedStep
<1>6. QED
  BY <1>2, <1>3, <1>4, <1>5 DEF Live

LEMMA SettledStep ==
  ASSUME FrameInv, SettledInv, [Next]_vars, FrameInv'
  PROVE  SettledInv'
<1>0. TypeInv
  BY DEF FrameInv
<1>1. CASE verdict' # "none" /\ verdict' # verdict
  <2>1. at' = "menu"
    BY <1>1, <1>0, OthersLeave
       DEF Next, clientVars, ClientNext, ClientAuto, Connect, TypeString,
           TypeFile, Ask, SendText, StartMd5, SendChunk, EndOfFile, HearError,
           HearLetters, HearDigits, HearMd5, Lost, ReadFails, Exit, KillClient
  <2>2. ASSUME child' # "closed" PROVE Idle' \/ Stray'
    <3>1. Framed'
      BY <2>1, <2>2 DEF FrameInv, Live
    <3>2. QED
      BY <2>1, <3>1 DEF Framed, Asked, Reading, Replying, Replied, Saving, Saved,
                        Digested, Refused, Asking, FileAt
  <2>3. QED
    BY <2>1, <2>2 DEF SettledInv, Idle, Stray, Asking
<1>2. CASE verdict' # "none" /\ verdict' = verdict
  <2>1. at \notin Asking
    BY <1>2 DEF SettledInv
  <2>2. CASE ClientNext
    <3>1. at' \notin Asking /\ UNCHANGED <<child, toServer>>
      BY <1>2, <2>1, <2>2
         DEF ClientNext, ClientAuto, Connect, TypeString, TypeFile, Ask, SendText,
             StartMd5, SendChunk, EndOfFile, HearError, HearLetters, HearDigits,
             HearMd5, Lost, ReadFails, Exit, KillClient, childVars, Asking, Waits
    <3>2. QED
      BY <1>2, <3>1 DEF SettledInv
  <2>3. CASE ChildNext
    <3>0. at' = at
      BY <1>0, <2>3, OthersLeave DEF clientVars
    <3>1. CASE child' = "closed"
      BY <2>1, <3>0, <3>1 DEF SettledInv
    <3>2. CASE child' # "closed"
      <4>1. /\ child \in {"none", "header"}
            /\ toServer = <<>> \/ Head(toServer) \in Data
        BY <1>2, <3>2, Ended DEF SettledInv
      <4>2. Accept
        BY <2>3, <3>2, <4>1
           DEF ChildNext, ChildAuto, TakeString, RejectString, SendLetters,
               SendDigits, InvalidHeader, TakeFile, ReceiveChunk, CloseFile,
               SendMd5, Garbage, CutOff, CannotSave, WriteFails, KillChild,
               ReceiveString, Header
      <4>3. QED
        BY <2>1, <3>0, <3>2, <4>1, <4>2 DEF Accept, SettledInv
    <3>3. QED
      BY <3>1, <3>2
  <2>4. CASE Reset \/ UNCHANGED vars
    BY <1>2, <2>4 DEF Reset, vars, clientVars, childVars, SettledInv
  <2>5. QED
    BY <2>2, <2>3, <2>4 DEF Next
<1>3. QED
  BY <1>1, <1>2 DEF SettledInv

-------------------------------------------------------------------------------
(* The digests                                                             *)

LEMMA SafeBefore ==
  ASSUME FrameInv, TempInv, [Next]_vars, Safe'
  PROVE  /\ Safe /\ ~Fault
         /\ changes \in Nat /\ changes' \in Nat
         /\ changes' = 0 => changes = 0
<1>1. /\ faults \in Nat /\ faults' \in Nat /\ faults <= faults'
      /\ changes \in Nat /\ changes <= changes'
  BY CountStep DEF Counted, CountersInv, TempInv, FrameInv, TypeInv
<1>2. changes' \in Nat
  <2>1. TypeInv'
    BY TypeStep DEF FrameInv
  <2>2. QED
    BY <2>1 DEF TypeInv
<1>3. QED
  BY <1>1, <1>2 DEF Safe, Fault

LEMMA SafeCalls ==
  ASSUME TypeInv, ~Fault, NEW s \in Side
  PROVE  /\ md5_init(s) => ctx'[s].open /\ ctx'[s].data = <<>>
         /\ \A d : md5_update(s, d) /\ ctx[s].open =>
                     ctx'[s].open /\ ctx'[s].data = ctx[s].data \o d
         /\ \A d : md5_final(s, d) /\ ctx[s].open => d = ctx[s].data
         /\ \A t, d : md5_string(t, d) => d = t
<1>0. ctx \in [Side -> [open : BOOLEAN, data : Seq(Units)]]
  BY DEF TypeInv
<1>1. md5_init(s) => ctx'[s].open /\ ctx'[s].data = <<>>
  BY <1>0 DEF md5_init, Put
<1>2. ASSUME NEW d, md5_update(s, d), ctx[s].open
      PROVE  ctx'[s].open /\ ctx'[s].data = ctx[s].data \o d
  <2>1. Put(s, [ctx[s] EXCEPT !.data = @ \o d])
    BY <1>2 DEF md5_update
  <2>2. ctx'[s] = [ctx[s] EXCEPT !.data = @ \o d]
    BY <1>0, <2>1 DEF Put
  <2> DEFINE c == ctx[s]
             e == c.data \o d
  <2>3. c \in [open : BOOLEAN, data : Seq(Units)] /\ c.open
    BY <1>0, <1>2
  <2>4. ctx'[s] = [c EXCEPT !.data = e]
    BY <2>2
  <2> HIDE DEF c, e
  <2>5. ctx'[s].open = c.open /\ ctx'[s].data = e
    BY <2>3, <2>4
  <2>6. QED
    BY <2>3, <2>5 DEF c, e
<1>3. \A d : md5_final(s, d) /\ ctx[s].open => d = ctx[s].data
  BY DEF md5_final
<1>4. \A t, d : md5_string(t, d) => d = t
  BY DEF md5_string
<1>5. QED
  BY <1>1, <1>2, <1>3, <1>4

Invs == FrameInv /\ TempInv /\ LinesInv /\ SettledInv /\ DigestInv

(* A request is typed only when the server's process is between requests.  *)
LEMMA AtMenu ==
  ASSUME Invs, at = "menu"
  PROVE  toClient = <<>> /\ child \in {"none", "header", "closed"}
<1>1. toClient = <<>>
  BY DEF Invs, LinesInv
<1>2. ASSUME child # "closed" PROVE Idle \/ Stray
  BY <1>2, Places DEF Invs, FrameInv, Live
<1>3. QED
  BY <1>1, <1>2 DEF Idle, Stray

LEMMA ClientDigestStep ==
  ASSUME Invs, [Next]_vars, Safe'
  PROVE  ClientDigest'
<1>0. /\ TypeInv /\ RequestInv /\ ClientDigest /\ LinesRight /\ ~Fault
      /\ "client" \in Side
  BY SafeBefore, Sides DEF Invs, FrameInv, DigestInv
<1>1. ASSUME UNCHANGED <<asked, unsent, mine>>, at' = at,
             ctx'["client"] = ctx["client"]
      PROVE  ClientDigest'
  BY <1>0, <1>1 DEF ClientDigest, Sent, Out, Size
<1>2. ASSUME at' \notin {"opened", "sending", "md5", "digits"} PROVE ClientDigest'
  BY <1>2 DEF ClientDigest
<1>3. CASE ChildNext \/ Reset \/ UNCHANGED vars
  BY <1>0, <1>1, <1>3, OthersLeave DEF clientVars
<1>4. CASE ClientNext
  <2>1. ASSUME NEW n \in Names, NEW seen \in Contents, NEW bytes \in Contents,
               TypeFile(n, seen, bytes)
        PROVE  ClientDigest'
    BY <2>1 DEF TypeFile, Ask, ClientDigest
  <2>2. CASE StartMd5
    <3>1. ctx'["client"].open /\ ctx'["client"].data = <<>>
      BY <1>0, <2>2, SafeCalls DEF StartMd5
    <3>2. /\ at' = "sending" /\ asked' = asked /\ unsent' = unsent
          /\ unsent = asked.bytes
      BY <1>0, <2>2 DEF StartMd5, ClientDigest
    <3>3. Out = 0 /\ Sent' = SubSeq(asked.bytes, 0 + 1, Out) /\ 0 + 1 = 1
      BY <1>0, <3>2, Lengths DEF Sent, Out, Size
    <3>4. Sent' = <<>>
      BY <3>3, EmptyPart
    <3>5. QED
      BY <3>1, <3>2, <3>4 DEF ClientDigest
  <2>3. CASE SendChunk
    <3>1. ctx'["client"].open /\ ctx'["client"].data = Sent \o Chunk
      BY <1>0, <2>3, SafeCalls DEF SendChunk, Hashed, ClientDigest
    <3>2. PICK n \in Nat :
            /\ n <= Len(unsent)
            /\ Chunk = SubSeq(unsent, 1, n)
            /\ unsent' = SubSeq(unsent, n + 1, Len(unsent))
      BY <1>0, <2>3, ChunkBytes
    <3>3. asked' = asked /\ at' = "sending" /\ 0 \in 0..Out /\ 0 + 1 = 1
      BY <1>0, <2>3, Lengths DEF SendChunk
    <3>4. SubSeq(asked.bytes, 0 + 1, Out) \o SubSeq(unsent, 1, n)
            = SubSeq(asked.bytes, 0 + 1, Out')
      BY <1>0, <3>2, <3>3, SendBytes
    <3>5. Sent' = Sent \o Chunk
      BY <3>2, <3>3, <3>4 DEF Sent
    <3>6. QED
      BY <3>1, <3>3, <3>5 DEF ClientDigest
  <2>4. CASE EndOfFile
    <3>1. /\ mine' = ctx["client"].data /\ at' = "md5" /\ asked' = asked
          /\ unsent = <<>> /\ ctx["client"].data = Sent
      BY <1>0, <2>4, SafeCalls DEF EndOfFile, ClientDigest
    <3>2. Out = Len(asked.bytes) /\ asked.bytes \in Seq(Data)
      BY <1>0, <3>1, Lengths DEF Size
    <3>3. Sent = asked.bytes
      BY <3>2, SubSeqFull DEF Sent
    <3>4. QED
      BY <3>1, <3>3 DEF ClientDigest
  <2>5. CASE HearLetters
    <3>1. /\ at = "letters" /\ at' = "digits" /\ asked' = asked
          /\ toClient \in Seq(Lines) /\ toClient # <<>>
          /\ toClient[1].kind = "letters" /\ mine' = toClient[1].of
      BY <1>0, <2>5 DEF HearLetters, Line, TypeInv
    <3>2. 1 \in 1 .. Len(toClient)
      BY <3>1, EmptySeq, LenProperties
    <3>3. toClient[1].of = asked.bytes
      BY <1>0, <3>1, <3>2 DEF LinesRight, Right, StringAt
    <3>4. QED
      BY <3>1, <3>3 DEF ClientDigest
  <2>6. CASE \/ Connect \/ (\E s \in Strings : TypeString(s)) \/ SendText
             \/ HearError \/ HearDigits \/ HearMd5 \/ Lost \/ ReadFails \/ Exit
             \/ KillClient
    BY <1>2, <2>6 DEF Connect, TypeString, SendText, HearError, HearDigits,
                      HearMd5, Lost, ReadFails, Exit, KillClient
  <2>7. QED
    BY <1>4, <2>1, <2>2, <2>3, <2>4, <2>5, <2>6 DEF ClientNext, ClientAuto
<1>5. QED
  BY <1>3, <1>4 DEF Next

LEMMA ServerDigestStep ==
  ASSUME Invs, [Next]_vars, Safe'
  PROVE  ServerDigest'
<1>0. /\ FrameInv /\ TypeInv /\ RequestInv /\ ServerDigest /\ ~Fault
      /\ "server" \in Side /\ (changes' = 0 => changes = 0)
  BY SafeBefore, Sides DEF Invs, FrameInv, DigestInv
<1>1. CASE Reset \/ UNCHANGED vars
  BY <1>0, <1>1 DEF Reset, vars, md5Vars, clientVars, childVars, ServerDigest
<1>2. CASE ClientNext
  <2>1. UNCHANGED <<child, due, word, received>> /\ ctx'["server"] = ctx["server"]
    BY <1>0, <1>2, ClientLeaves DEF childVars
  <2>2. CASE at = "menu"
    <3>1. child \notin {"digits", "file", "saved"}
      BY <2>2, AtMenu
    <3>2. QED
      BY <2>1, <3>1 DEF ServerDigest
  <2>3. CASE at # "menu"
    <3>1. /\ asked' = asked
          /\ at' \in StringAt => at \in StringAt
          /\ at' \in FileAt => at \in FileAt
      BY <1>2, <2>3
         DEF ClientNext, ClientAuto, Connect, TypeString, TypeFile, Ask, SendText,
             StartMd5, SendChunk, EndOfFile, HearError, HearLetters, HearDigits,
             HearMd5, Lost, ReadFails, Exit, KillClient, StringAt, FileAt
    <3>2. QED
      BY <1>0, <2>1, <3>1 DEF ServerDigest
  <2>4. QED
    BY <2>2, <2>3
<1>3. CASE ChildNext
  <2>0. UNCHANGED <<at, asked, changes>>
    BY <1>0, <1>3, OthersLeave DEF clientVars
  <2>1. ASSUME child' \notin {"digits", "file", "saved"} PROVE ServerDigest'
    BY <2>1 DEF ServerDigest
  <2>2. CASE \/ Accept \/ TakeString \/ RejectString \/ SendDigits \/ InvalidHeader
             \/ CannotSave \/ WriteFails \/ SendMd5 \/ Garbage \/ CutOff \/ KillChild
    BY <2>1, <2>2 DEF Accept, TakeString, RejectString, SendDigits, InvalidHeader,
                      CannotSave, WriteFails, SendMd5, Garbage, CutOff, KillChild,
                      Header
  <2>3. CASE SendLetters
    <3>1. due' = SubSeq(toServer, 1, need) /\ child' = "digits" /\ child = "string"
      BY <1>0, <2>3, SafeCalls DEF SendLetters, ReceiveString
    <3>2. ASSUME at \in StringAt PROVE SubSeq(toServer, 1, need) = asked.bytes
      BY <1>0, <2>3, <3>1, <3>2, WholeString DEF SendLetters, Live, StringAt
    <3>3. QED
      BY <2>0, <3>1, <3>2 DEF ServerDigest
  <2>4. CASE TakeFile
    <3>1. /\ Head(toServer) \in Headers /\ Head(toServer).kind = "FILE"
          /\ Header("FILE")
      BY <1>0, <2>4, HeaderRead DEF TakeFile
    <3>2. word' \in Words
      BY <2>4, <3>1 DEF TakeFile, Headers, Words
    <3>3. received'[word'] = <<>>
      BY <1>0, <2>4, <3>2 DEF TakeFile, Opened, TypeInv
    <3>4. ctx'["server"].open /\ ctx'["server"].data = <<>> /\ child' = "file"
      BY <1>0, <2>4, SafeCalls DEF TakeFile
    <3>5. QED
      BY <3>2, <3>3, <3>4 DEF ServerDigest
  <2>5. CASE ReceiveChunk
    <3> DEFINE chunk == SubSeq(toServer, 1, Wanted)
    <3>1. /\ child = "file" /\ child' = "file" /\ word' = word
          /\ md5_update("server", chunk) /\ Save(received[word] \o chunk)
      BY <2>5 DEF ReceiveChunk
    <3>2. word \in Words /\ ctx["server"].open /\ ctx["server"].data = received[word]
      BY <1>0, <3>1 DEF ServerDigest
    <3>3. ctx'["server"].open /\ ctx'["server"].data = received[word] \o chunk
      BY <1>0, <3>1, <3>2, SafeCalls
    <3>4. received'[word] = received[word] \o chunk
      BY <1>0, <3>1, <3>2 DEF Save, TypeInv
    <3>5. QED
      BY <3>1, <3>2, <3>3, <3>4 DEF ServerDigest
  <2>6. CASE CloseFile
    <3>1. /\ child = "file" /\ child' = "saved" /\ need = 0
          /\ UNCHANGED <<received, word, ctx>>
      BY <1>0, <2>6 DEF CloseFile
    <3>2. ASSUME at \in FileAt, changes = 0 PROVE received[word] = asked.bytes
      <4>1. Saving
        BY <1>0, <3>1, <3>2, Places DEF FrameInv, Live, FileAt
      <4>2. /\ received[word] = SubSeq(asked.bytes, 1, Len(received[word]))
            /\ need = Size - Len(received[word]) /\ Len(received[word]) \in Nat
            /\ Size \in Nat
        BY <1>0, <3>2, <4>1, Lengths, LenProperties DEF Saving, TypeInv
      <4>3. Len(received[word]) = Len(asked.bytes) /\ asked.bytes \in Seq(Data)
        BY <1>0, <3>1, <4>2, Lengths DEF Size
      <4>4. QED
        BY <4>2, <4>3, SubSeqFull
    <3>3. QED
      BY <1>0, <2>0, <3>1, <3>2 DEF ServerDigest
  <2>7. QED
    BY <1>3, <2>2, <2>3, <2>4, <2>5, <2>6 DEF ChildNext, ChildAuto
<1>4. QED
  BY <1>1, <1>2, <1>3 DEF Next

LEMMA RightAppended ==
  ASSUME TypeInv, NEW l \in Lines, toClient' = Append(toClient, l), Right(l)',
         \A i \in 1 .. Len(toClient) : \A m : m = toClient[i] => Right(m)'
  PROVE  LinesRight'
<1>1. toClient \in Seq(Lines) /\ Len(toClient) \in Nat
  BY LenProperties DEF TypeInv
<1>2. /\ Len(toClient') = Len(toClient) + 1
      /\ \A i \in 1 .. Len(toClient) : toClient'[i] = toClient[i]
      /\ toClient'[Len(toClient) + 1] = l
  BY <1>1, AppendProperties
<1>3. ASSUME NEW i \in 1 .. Len(toClient'), NEW m, m = toClient'[i]
      PROVE  Right(m)'
  <2>1. i \in 1 .. Len(toClient) \/ i = Len(toClient) + 1
    BY <1>1, <1>2
  <2>2. QED
    BY <1>2, <1>3, <2>1
<1>4. QED
  BY <1>3 DEF LinesRight, Right

LEMMA LinesRightStep ==
  ASSUME Invs, [Next]_vars, Safe'
  PROVE  LinesRight'
<1>0. /\ FrameInv /\ TypeInv /\ RequestInv /\ ServerDigest /\ LinesRight /\ ~Fault
      /\ "server" \in Side /\ (changes' = 0 => changes = 0)
      /\ toClient \in Seq(Lines)
  BY SafeBefore, Sides DEF Invs, FrameInv, DigestInv, TypeInv
<1>1. ASSUME toClient' = <<>> PROVE LinesRight'
  BY <1>1, EmptySeq DEF LinesRight
<1>2. ASSUME at' \notin StringAt \cup FileAt PROVE LinesRight'
  BY <1>2 DEF LinesRight, Right
<1>3. ASSUME UNCHANGED <<at, asked, changes>>, at \in FileAt => received' = received
      PROVE  \A l : Right(l) => Right(l)'
  BY <1>3 DEF Right, StringAt, FileAt
<1>4. ASSUME toClient' = toClient, \A l : Right(l) => Right(l)' PROVE LinesRight'
  BY <1>0, <1>4 DEF LinesRight
<1>5. CASE Reset \/ UNCHANGED vars
  <2>1. UNCHANGED <<at, asked, changes, received>>
    BY <1>5 DEF Reset, vars, clientVars, childVars
  <2>2. toClient' = toClient \/ toClient' = <<>>
    BY <1>5 DEF Reset, vars
  <2>3. QED
    BY <1>1, <1>3, <1>4, <2>1, <2>2
<1>6. CASE ClientNext
  <2>1. received' = received
    BY <1>0, <1>6, ClientLeaves DEF childVars
  <2>2. CASE at = "menu"
    <3>1. toClient' = toClient \/ toClient # <<>>
      BY <1>0, <1>6, ClientLeaves
    <3>2. QED
      BY <1>1, <2>2, <3>1, AtMenu
  <2>3. CASE HearLetters
    <3>1. toClient # <<>> /\ toClient' = Tail(toClient) /\ asked' = asked
          /\ at = "letters" /\ at' = "digits"
      BY <2>3 DEF HearLetters, Line, Hear
    <3>2. \A l : Right(l) => Right(l)'
      BY <3>1 DEF Right, StringAt, FileAt
    <3>3. /\ Len(toClient) \in Nat /\ Len(toClient') = Len(toClient) - 1
          /\ \A i \in 1 .. Len(toClient') : toClient'[i] = toClient[i + 1]
      BY <1>0, <3>1, HeadTailProperties, LenProperties
    <3>4. ASSUME NEW i \in 1 .. Len(toClient'), NEW m, m = toClient'[i]
          PROVE  Right(m)'
      <4>1. i + 1 \in 1 .. Len(toClient)
        BY <3>3
      <4>2. QED
        BY <1>0, <3>2, <3>3, <3>4, <4>1 DEF LinesRight
    <3>5. QED
      BY <3>4 DEF LinesRight, Right
  <2>4. CASE at # "menu" /\ ~HearLetters /\ at' \in StringAt \cup FileAt
    <3>1. /\ toClient' = toClient /\ asked' = asked /\ changes' = changes
          /\ at' \in StringAt => at \in StringAt
          /\ at' \in FileAt => at \in FileAt
      BY <1>6, <2>4
         DEF ClientNext, ClientAuto, Connect, TypeString, TypeFile, Ask, SendText,
             StartMd5, SendChunk, EndOfFile, HearError, HearDigits,
             HearMd5, Lost, ReadFails, Exit, KillClient, StringAt, FileAt
    <3>2. \A l : Right(l) => Right(l)'
      BY <2>1, <3>1 DEF Right
    <3>3. QED
      BY <1>4, <3>1, <3>2
  <2>5. QED
    BY <1>2, <2>2, <2>3, <2>4
<1>7. CASE ChildNext
  <2>0. UNCHANGED <<at, asked, changes>>
    BY <1>0, <1>7, OthersLeave DEF clientVars
  <2>1. ASSUME UNCHANGED <<received, toClient>> PROVE LinesRight'
    BY <1>3, <1>4, <2>0, <2>1
  <2>2. ASSUME received' = received, NEW l \in Lines, toClient' = Append(toClient, l),
               Right(l)
        PROVE  LinesRight'
    <3>1. \A m : Right(m) => Right(m)'
      BY <1>3, <2>0, <2>2
    <3>2. QED
      BY <1>0, <2>2, <3>1, RightAppended DEF LinesRight
  <2>3. CASE Accept \/ TakeString \/ Garbage \/ CutOff \/ CloseFile
    BY <1>0, <2>1, <2>3 DEF Accept, TakeString, Garbage, CutOff, CloseFile
  <2>4. CASE CannotSave \/ WriteFails
    BY <1>0, <2>4 DEF CannotSave, WriteFails
  <2>5. CASE TakeFile \/ ReceiveChunk \/ KillChild
    <3>1. toClient' = toClient
      BY <2>5 DEF TakeFile, ReceiveChunk, KillChild
    <3>2. CASE at \notin FileAt
      BY <1>3, <1>4, <2>0, <3>1, <3>2
    <3>3. CASE received' = received
      BY <2>1, <3>1, <3>3
    <3>4. CASE at \in FileAt /\ received' # received
      <4>1. Live
        BY <2>5, <3>4 DEF TakeFile, ReceiveChunk, KillChild, Live, FileAt, Header
      <4>2. CASE TakeFile
        BY <1>0, <1>1, <3>1, <4>1, <4>2, HeaderFrame DEF TakeFile, Asked
      <4>3. CASE child = "file"
        BY <1>0, <1>1, <3>1, <4>1, <4>3, Places DEF FrameInv, Saving
      <4>4. QED
        BY <2>5, <3>4, <4>2, <4>3 DEF ReceiveChunk, KillChild
    <3>5. QED
      BY <3>2, <3>3, <3>4
  <2>6. CASE RejectString \/ InvalidHeader
    <3>1. PICK kind \in {"error", "fragment"} : Answer(kind, Zeros)
      BY <2>6 DEF RejectString, InvalidHeader
    <3> DEFINE l == [kind |-> kind, of |-> Zeros]
    <3>2. l \in Lines /\ Right(l) /\ toClient' = Append(toClient, l)
      BY <3>1 DEF Answer, Lines, Right
    <3>3. received' = received
      BY <2>6 DEF RejectString, ReceiveString, InvalidHeader
    <3>4. QED
      BY <2>2, <3>2, <3>3
  <2>7. CASE SendLetters
    <3> DEFINE text == SubSeq(toServer, 1, need)
               l == [kind |-> "letters", of |-> text]
    <3>1. /\ toClient' = Append(toClient, l) /\ received' = received
          /\ child = "string" /\ due' = text
      BY <1>0, <2>7, SafeCalls DEF SendLetters, ReceiveString, Answer
    <3>2. ASSUME at \in StringAt PROVE text = asked.bytes
      BY <1>0, <2>7, <3>1, <3>2, WholeString DEF SendLetters, Live, StringAt
    <3>3. Right(l)
      BY <3>2 DEF Right
    <3>4. l \in Lines
      <4>1. TypeInv'
        BY <1>0, TypeStep
      <4>2. due' \in Seq(Units) \cup {Zeros}
        BY <4>1 DEF TypeInv
      <4>3. QED
        BY <3>1, <4>2 DEF Lines
    <3>5. QED
      BY <2>2, <3>1, <3>3, <3>4
  <2>8. CASE SendDigits
    <3> DEFINE l == [kind |-> "digits", of |-> due]
    <3>1. toClient' = Append(toClient, l) /\ received' = received /\ child = "digits"
      BY <2>8 DEF SendDigits, Answer
    <3>2. l \in Lines /\ Right(l)
      BY <1>0, <3>1 DEF TypeInv, Lines, ServerDigest, Right
    <3>3. QED
      BY <2>2, <3>1, <3>2
  <2>9. CASE SendMd5
    <3> DEFINE d == ctx["server"].data
               l == [kind |-> "md5", of |-> d]
    <3>1. child = "saved" /\ ctx["server"].open /\ d = received[word]
      BY <1>0, <2>9 DEF SendMd5, ServerDigest
    <3>2. toClient' = Append(toClient, l) /\ received' = received
      BY <1>0, <2>9, <3>1, SafeCalls DEF SendMd5, Answer
    <3>3. ASSUME at \in FileAt
          PROVE  /\ d = received[First[asked.name]]
                 /\ changes = 0 => d = asked.bytes
      <4>1. Saved
        BY <1>0, <3>1, <3>3, Places DEF FrameInv, Live, FileAt
      <4>2. QED
        BY <1>0, <3>1, <3>3, <4>1 DEF Saved, ServerDigest
    <3>4. Right(l)
      BY <3>3 DEF Right
    <3>5. l \in Lines
      BY <1>0 DEF TypeInv, Lines
    <3>6. QED
      BY <2>2, <3>2, <3>4, <3>5
  <2>10. QED
    BY <1>7, <2>3, <2>4, <2>5, <2>6, <2>7, <2>8, <2>9 DEF ChildNext, ChildAuto
<1>8. QED
  BY <1>5, <1>6, <1>7 DEF Next

LEMMA VerdictStep ==
  ASSUME Invs, [Next]_vars, Safe'
  PROVE  VerdictInv'
<1>0. /\ FrameInv /\ TypeInv /\ RequestInv /\ ClientDigest /\ LinesRight
      /\ VerdictInv /\ ~Fault /\ SettledInv
      /\ changes \in Nat /\ changes' \in Nat /\ (changes' = 0 => changes = 0)
  BY SafeBefore DEF Invs, FrameInv, DigestInv
<1>1. ASSUME UNCHANGED <<verdict, asked>>,
             verdict = "Match" => received' = received
      PROVE  VerdictInv'
  BY <1>0, <1>1 DEF VerdictInv
<1>2. CASE Reset \/ UNCHANGED vars
  BY <1>1, <1>2 DEF Reset, vars, clientVars, childVars
<1>3. CASE ChildNext
  <2>1. UNCHANGED <<verdict, asked>>
    BY <1>0, <1>3, OthersLeave DEF clientVars
  <2>2. ASSUME verdict = "Match" PROVE received' = received
    <3>1. /\ child \in {"none", "header", "closed"}
          /\ child = "closed" \/ toServer = <<>> \/ Head(toServer) \in Data
      BY <1>0, <2>2 DEF SettledInv
    <3>2. Accept \/ Garbage \/ CutOff \/ KillChild
      BY <1>3, <3>1
         DEF ChildNext, ChildAuto, Accept, TakeString, RejectString, SendLetters,
             SendDigits, InvalidHeader, TakeFile, ReceiveChunk, CloseFile, SendMd5,
             CannotSave, WriteFails, ReceiveString, Header
    <3>3. QED
      BY <3>1, <3>2 DEF Accept, Garbage, CutOff, KillChild
  <2>3. QED
    BY <1>1, <2>1, <2>2
<1>4. CASE ClientNext
  <2>0. received' = received
    BY <1>0, <1>4, ClientLeaves DEF childVars
  <2>1. ASSUME verdict' \notin {"Match", "Mismatch"} PROVE VerdictInv'
    BY <2>1 DEF VerdictInv
  <2>2. ASSUME toClient # <<>>
        PROVE  /\ toClient[1] = Head(toClient) /\ Right(Head(toClient))
    <3>1. toClient \in Seq(Lines) /\ 1 \in 1 .. Len(toClient)
      BY <1>0, <2>2, EmptySeq, LenProperties DEF TypeInv
    <3>2. QED
      BY <1>0, <2>2, <3>1 DEF LinesRight
  <2>3. CASE HearDigits
    <3>1. /\ at = "digits" /\ toClient # <<>> /\ Head(toClient).kind = "digits"
          /\ asked' = asked /\ mine = asked.bytes
      BY <1>0, <2>3 DEF HearDigits, Line, ClientDigest
    <3>2. Head(toClient).of = asked.bytes /\ asked.name = None
      BY <1>0, <2>2, <3>1 DEF Right, StringAt, RequestInv
    <3>3. Compare(<<asked.bytes, asked.bytes>>, <<mine, Head(toClient).of>>)
      BY <1>0, <2>3, SafeCalls, Sides DEF HearDigits
    <3>4. verdict' = "Match"
      BY <3>1, <3>2, <3>3 DEF Compare
    <3>5. QED
      BY <3>1, <3>2, <3>4 DEF VerdictInv
  <2>4. CASE HearMd5
    <3>1. /\ at = "md5" /\ toClient # <<>> /\ Head(toClient).kind = "md5"
          /\ asked' = asked /\ changes' = changes /\ mine = asked.bytes
          /\ Compare(mine, Head(toClient).of)
      BY <1>0, <2>4 DEF HearMd5, Line, ClientDigest
    <3>2. /\ Head(toClient).of = received[First[asked.name]]
          /\ changes = 0 => Head(toClient).of = asked.bytes
      BY <2>2, <3>1 DEF Right, FileAt
    <3>3. CASE verdict' = "Match"
      BY <2>0, <3>1, <3>2, <3>3 DEF Compare, VerdictInv
    <3>4. CASE verdict' = "Mismatch"
      BY <1>0, <3>1, <3>2, <3>4 DEF Compare, VerdictInv
    <3>5. QED
      BY <3>1, <3>3, <3>4 DEF Compare
  <2>5. CASE (\E s \in Strings : TypeString(s)) \/ HearError
             \/ (\E n \in Names, seen, bytes \in Contents : TypeFile(n, seen, bytes))
    BY <2>1, <2>5 DEF TypeString, TypeFile, Ask, HearError
  <2>6. CASE \/ Connect \/ SendText \/ StartMd5 \/ SendChunk \/ EndOfFile
             \/ HearLetters \/ Lost \/ ReadFails \/ Exit \/ KillClient
    BY <1>1, <2>0, <2>6 DEF Connect, SendText, StartMd5, SendChunk, EndOfFile,
                            HearLetters, Lost, ReadFails, Exit, KillClient
  <2>7. QED
    BY <1>4, <2>3, <2>4, <2>5, <2>6 DEF ClientNext, ClientAuto
<1>5. QED
  BY <1>2, <1>3, <1>4 DEF Next

LEMMA DigestStep == ASSUME Invs, [Next]_vars PROVE DigestInv'
<1>1. ASSUME Safe'
      PROVE  ClientDigest' /\ ServerDigest' /\ LinesRight' /\ VerdictInv'
  BY <1>1, ClientDigestStep, ServerDigestStep, LinesRightStep, VerdictStep
<1>2. QED
  BY <1>1 DEF DigestInv

(* Check says Mismatch only when something has failed or the file changed  *)
(* on its way, and Match of a file only when the file is saved whole       *)
(* (HW6/client.c:119-143 and 228-233, server.c:243-281).                   *)
THEOREM VerdictIsRightHolds == Spec => []VerdictIsRight
<1>1. Init => Invs
  <2> SUFFICES ASSUME Init PROVE Invs
    OBVIOUS
  <2>1. FrameInv /\ TempInv
    BY InitFrame, InitTemp
  <2>2. /\ at = "off" /\ toClient = <<>> /\ Len(<<>>) = 0 /\ verdict = "none"
        /\ child = "none"
    BY EmptySeq DEF Init
  <2>3. LinesInv /\ SettledInv
    BY <2>2 DEF LinesInv, SettledInv, FileAt
  <2>4. ClientDigest /\ ServerDigest /\ LinesRight /\ VerdictInv
    BY <2>2 DEF ClientDigest, ServerDigest, LinesRight, VerdictInv
  <2>5. QED
    BY <2>1, <2>3, <2>4 DEF Invs, DigestInv
<1>2. Invs /\ [Next]_vars => Invs'
  BY FrameStep, TempStep, LinesStep, SettledStep, DigestStep DEF Invs
<1>3. Invs => VerdictIsRight
  <2> SUFFICES ASSUME Invs PROVE VerdictIsRight
    OBVIOUS
  <2>1. faults \in Nat /\ (faults = 0 => VerdictInv)
    BY DEF Invs, TempInv, CountersInv, DigestInv, Safe
  <2>2. QED
    BY <2>1 DEF VerdictInv, VerdictIsRight
<1>4. QED
  BY <1>1, <1>2, <1>3, PTL DEF Spec

================================================================================
