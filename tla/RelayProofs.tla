------------------------------ MODULE RelayProofs ------------------------------
(***************************************************************************)
(* Theorems about the HW4 relay with its clients and its network, for any  *)
(* set of endpoints and of lines and any bound on faults and typing.       *)
(***************************************************************************)
EXTENDS Relay, DataFacts

(* What the slots are in every state, whoever types, vanishes or is lost.  *)
SlotInv ==
  /\ clients \in [Slots -> Addr \cup {NoAddr}]
  /\ \A i, j \in Slots :
       clients[i] = clients[j] /\ clients[i] # NoAddr => i = j

Members == {c \in Addr : Registered(c)}

LEMMA SlotNumbers == Slots = {0, 1}
BY DEF Slots, MAX_CLIENTS

(* Whoever is registered is the address in a slot. *)
LEMMA MemberSlot ==
  /\ \A a : a \in Members <=> a \in Addr /\ \E i \in Slots : clients[i] = a
  /\ \A a : a \in Members' <=> a \in Addr /\ \E i \in Slots : clients'[i] = a
BY DEF Members, Registered, find_client

(* The slot that find_free_slot() returns is a free one. *)
LEMMA FreeSlot ==
  ASSUME Free # {}
  PROVE  find_free_slot \in Slots /\ clients[find_free_slot] = NoAddr
<1>1. Free \subseteq {0, 1}
  BY SlotNumbers DEF Free
<1>2. \E i \in Free : \A j \in Free : i <= j
  <2>1. CASE 0 \in Free
    BY <1>1, <2>1
  <2>2. CASE 0 \notin Free
    <3>1. \A i \in Free : i = 1
      BY <1>1, <2>2
    <3>2. QED
      BY <3>1
  <2>3. QED
    BY <2>1, <2>2
<1>3. find_free_slot \in Free
  BY <1>2 DEF find_free_slot
<1>4. QED
  BY <1>3 DEF Free

(* A CONNECT that finds a free slot adds its sender to at most one other. *)
LEMMA JoinStep ==
  ASSUME SlotInv, NEW a \in Addr, NEW m, Register(a, m)
  PROVE  SlotInv' /\ P!Join(a)
<1>1. PICK f \in Slots : f = find_free_slot /\ clients[f] = NoAddr
  BY FreeSlot DEF Register
<1>2. clients' = [clients EXCEPT ![f] = a] /\ heard' = Silence
  BY <1>1 DEF Register
<1>3. \A i \in Slots : clients[i] # a
  BY DEF Register, Registered, find_client
<1>4. SlotInv'
  BY <1>2, <1>3 DEF SlotInv
<1>5. \A b, c \in Members : b = c
  BY <1>1, MemberSlot, AddrAssumption, SlotNumbers
<1>6. a \in Addr \ Members
  BY <1>3, MemberSlot
<1>7. Members' = Members \cup {a}
  <2>1. clients'[f] = a /\ \A i \in Slots \ {f} : clients'[i] = clients[i]
    BY <1>1, <1>2 DEF SlotInv
  <2>2. \A b : b \in Members' <=> b \in Members \cup {a}
    BY <1>1, <2>1, MemberSlot, AddrAssumption
  <2>3. QED
    BY <2>2
<1>8. QED
  BY <1>2, <1>4, <1>5, <1>6, <1>7 DEF P!Join, Members

(* An exit token removes its sender and nobody else. *)
LEMMA LeaveStep ==
  ASSUME SlotInv, NEW a \in Addr, NEW m, Leave(a, m)
  PROVE  SlotInv' /\ P!Leave(a)
<1>1. /\ clients' = [i \in Slots |-> IF clients[i] = a THEN NoAddr ELSE clients[i]]
      /\ heard' = Silence
  BY DEF Leave
<1>2. SlotInv'
  BY <1>1 DEF SlotInv
<1>3. a \in Members
  BY DEF Leave, Members
<1>4. Members' = Members \ {a}
  <2>1. \A b : b \in Members' <=> b \in Members \ {a}
    BY <1>1, MemberSlot, AddrAssumption
  <2>2. QED
    BY <2>1
<1>5. QED
  BY <1>1, <1>2, <1>3, <1>4 DEF P!Leave, Members

(* A text goes from one member to another, or is dropped. *)
LEMMA SayStep ==
  ASSUME SlotInv, NEW a \in Addr, NEW m, Forward(a, m)
  PROVE  /\ SlotInv'
         /\ P!Hush \/ \E b \in Addr : P!Say(a, b)
<1>1. clients' = clients
  BY DEF Forward
<1>2. SlotInv'
  BY <1>1 DEF SlotInv
<1>3. Members' = Members /\ a \in Members
  BY <1>1 DEF Members, Registered, find_client, Forward
<1>4. CASE heard' = Silence
  BY <1>2, <1>3, <1>4 DEF P!Hush, Members
<1>5. CASE \E b \in Peers(a) : heard' = <<a, b>>
  <2>1. PICK b \in Peers(a) : heard' = <<a, b>>
    BY <1>5
  <2>2. PICK i \in Slots : clients[i] = b /\ b # a /\ b # NoAddr
    BY DEF Peers, find_client
  <2>3. b \in Members \ {a} /\ b \in Addr
    BY <2>2, MemberSlot DEF SlotInv
  <2>4. QED
    BY <1>2, <1>3, <2>1, <2>3 DEF P!Say, Members
<1>6. QED
  BY <1>4, <1>5 DEF Forward

(* Every step is a step of the pair, or leaves it alone. *)
LEMMA RelayStep ==
  ASSUME SlotInv, [Next]_vars
  PROVE  SlotInv' /\ [P!Next]_(P!vars)
<1>h. ASSUME Halt
      PROVE  SlotInv' /\ P!Forget
  <2>1. SlotInv'
    BY <1>h DEF Halt, SlotInv, NoClients
  <2>2. Members' = {}
    BY <1>h, MemberSlot, AddrAssumption DEF Halt, NoClients
  <2>3. QED
    BY <1>h, <2>1, <2>2 DEF Halt, P!Forget, Members
<1>s. ASSUME UNCHANGED <<clients, heard>>
      PROVE  SlotInv' /\ UNCHANGED P!vars
  BY <1>s DEF SlotInv, P!vars, Registered, find_client
<1>1. ASSUME NEW a \in Addr, Receive(a)
      PROVE  SlotInv' /\ P!Next
  <2> DEFINE m == Head(toServer[a])
  <2>1. CASE Register(a, m)
    BY <2>1, JoinStep DEF P!Next
  <2>2. CASE Leave(a, m)
    BY <2>2, LeaveStep DEF P!Next
  <2>3. CASE Forward(a, m)
    BY <2>3, SayStep DEF P!Next
  <2>4. CASE Full(a, m) \/ Ignore(a, m) \/ Invalid(a, m)
    <3>1. clients' = clients /\ heard' = Silence
      BY <2>4 DEF Full, Ignore, Invalid
    <3>2. QED
      BY <3>1 DEF SlotInv, P!Next, P!Hush, Registered, find_client
  <2>5. QED
    BY <1>1, <2>1, <2>2, <2>3, <2>4 DEF Receive
<1>2. CASE Exit \/ Crash
  BY <1>2, <1>h DEF Exit, Crash, P!Next
<1>3. CASE Signal
  BY <1>3, <1>h, <1>s DEF Signal, P!Next
<1>4. CASE Start
  BY <1>4, <1>s DEF Start
<1>5. ASSUME NEW c \in Addr,
             \/ Launch(c) \/ Hear(c) \/ Type(c) \/ ReadInput(c)
             \/ Vanish(c) \/ Lose(c) \/ Duplicate(c) \/ Discard(c)
      PROVE  UNCHANGED <<clients, heard>>
  BY <1>5 DEF Launch, Hear, Type, ReadInput, SendLine, EndOfInput, Vanish,
              Lose, Duplicate, Discard, serverVars
<1>6. CASE UNCHANGED vars
  BY <1>6, <1>s DEF vars, serverVars
<1>7. QED
  BY <1>1, <1>2, <1>3, <1>4, <1>5, <1>6, <1>s DEF Next

LEMMA RelayInit == Init => SlotInv /\ P!Init
BY AddrAssumption
DEF Init, SlotInv, P!Init, NoClients, Registered, find_client

(* The relay implements the pair: whatever is typed, lost, repeated or     *)
(* delayed, whoever vanishes, and whenever the server is signalled,        *)
(* crashes and starts again, a text goes from one member of a conversation *)
(* of two to the other and to nobody else.                                 *)
THEOREM RelayPairPolicy == Spec => PairPolicy
<1>1. SlotInv /\ [Next]_vars => SlotInv' /\ [P!Next]_(P!vars)
  BY RelayStep
<1>2. QED
  BY <1>1, RelayInit, PTL DEF Spec, PairPolicy, P!Spec

-------------------------------------------------------------------------------
(* Types, and with them the bounds on typing and on faults.                *)

Kind == {"connected", "full", "invalid", "text"}

(* `lines` is a function on the endpoints: TypeOK says only where it is.   *)
TypeInv ==
  /\ TypeOK
  /\ SlotInv
  /\ lines \in [Addr -> Nat]

(* At most one slot per client is at most one element of find_client().    *)
LEMMA OneSlot ==
  ASSUME SlotInv, NEW a \in Addr
  PROVE  Cardinality(find_client(a)) <= 1
<1>1. CASE find_client(a) = {}
  BY <1>1, FS_EmptySet
<1>2. CASE find_client(a) # {}
  <2>1. PICK i \in Slots : clients[i] = a
    BY <1>2 DEF find_client
  <2>2. find_client(a) = {i}
    BY <2>1, AddrAssumption DEF find_client, SlotInv
  <2>3. Cardinality(find_client(a)) = 1
    BY <2>2, FS_Singleton
  <2>4. QED
    BY <2>3
<1>3. QED
  BY <1>1, <1>2

(* A queue per endpoint stays one when its first element is taken away.    *)
LEMMA TailType ==
  ASSUME NEW S, NEW q \in [Addr -> Seq(S)], NEW c \in Addr, q[c] # <<>>
  PROVE  [q EXCEPT ![c] = Tail(@)] \in [Addr -> Seq(S)]
<1>1. Tail(q[c]) \in Seq(S)
  OBVIOUS
<1>2. QED
  BY <1>1

LEMMA AppendType ==
  ASSUME NEW S, NEW q \in [Addr -> Seq(S)], NEW c \in Addr, NEW e \in S
  PROVE  [q EXCEPT ![c] = Append(@, e)] \in [Addr -> Seq(S)]
<1>1. Append(q[c], e) \in Seq(S)
  OBVIOUS
<1>2. QED
  BY <1>1

LEMMA AnswerType ==
  ASSUME TypeInv, NEW a \in Addr, NEW k \in Kind, Answer(a, k)
  PROVE  toClient' \in [Addr -> Seq(Kind)]
<1>1. toClient \in [Addr -> Seq(Kind)]
  BY DEF TypeInv, TypeOK, Kind
<1>2. QED
  BY <1>1, AppendType DEF Answer

(* What the handling of a datagram leaves in the server. *)
LEMMA ReceiveType ==
  ASSUME TypeInv, NEW a \in Addr, Receive(a)
  PROVE  /\ {up, server_running}' \subseteq BOOLEAN
         /\ heard' \in Addr \X Addr \cup {Silence}
         /\ toServer' \in [Addr -> Seq(Text)]
         /\ toClient' \in [Addr -> Seq(Kind)]
<1> DEFINE m == Head(toServer[a])
<1>1. {up, server_running}' \subseteq BOOLEAN
  BY DEF Receive, AfterHandling, TypeInv, TypeOK
<1>2. toServer' \in [Addr -> Seq(Text)]
  BY TailType DEF Receive, TypeInv, TypeOK
<1>3. heard' \in Addr \X Addr \cup {Silence}
  <2>1. \A b \in Peers(a) : b \in Addr
    BY DEF Peers, TypeInv, SlotInv
  <2>2. QED
    BY <2>1 DEF Receive, Register, Full, Ignore, Leave, Invalid, Forward
<1>4. toClient' \in [Addr -> Seq(Kind)]
  <2>0. \A k \in {"connected", "full", "invalid", "text"} : k \in Kind
    BY DEF Kind
  <2>1. CASE Register(a, m) \/ Full(a, m) \/ Invalid(a, m)
    BY <2>0, <2>1, AnswerType DEF Register, Full, Invalid
  <2>2. CASE Ignore(a, m) \/ Leave(a, m)
    BY <2>2 DEF Ignore, Leave, TypeInv, TypeOK, Kind
  <2>3. CASE Forward(a, m)
    <3>1. CASE UNCHANGED toClient
      BY <3>1 DEF TypeInv, TypeOK, Kind
    <3>2. CASE \E b \in Peers(a) : Answer(b, "text")
      <4>1. PICK b \in Peers(a) : Answer(b, "text")
        BY <3>2
      <4>2. b \in Addr
        BY DEF Peers, TypeInv, SlotInv
      <4>3. QED
        BY <2>0, <4>1, <4>2, AnswerType
    <3>3. QED
      BY <2>3, <3>1, <3>2 DEF Forward
  <2>4. QED
    BY <2>1, <2>2, <2>3 DEF Receive
<1>5. QED
  BY <1>1, <1>2, <1>3, <1>4

(* The lines a client has read or typed stay sequences of lines. *)
LEMMA FgetsType ==
  ASSUME TypeInv, NEW c \in Addr, stdio[c] \o keyboard[c] # <<>>,
         NEW n \in Fills(c), Fgets(c, n)
  PROVE  {keyboard, stdio}' \subseteq [Addr -> Seq(Text)]
<1>1. /\ keyboard \in [Addr -> Seq(Text)] /\ stdio \in [Addr -> Seq(Text)]
      /\ keyboard[c] \in Seq(Text) /\ stdio[c] \in Seq(Text)
  BY DEF TypeInv, TypeOK
<1>2. /\ n \in 0..Len(keyboard[c])
      /\ stdio[c] = <<>> => n >= 1
  <2>1. CASE stdio[c] # <<>>
    BY <1>1, <2>1 DEF Fills
  <2>2. CASE stdio[c] = <<>>
    <3>1. keyboard[c] # <<>>
      BY <1>1, <2>2
    <3>2. QED
      BY <1>1, <2>2, <3>1 DEF Fills
  <2>3. QED
    BY <2>1, <2>2
<1>3. SubSeq(keyboard[c], n + 1, Len(keyboard[c])) \in Seq(Text)
  BY <1>1, <1>2
<1>4. /\ SubSeq(keyboard[c], 1, n) \in Seq(Text)
      /\ Len(SubSeq(keyboard[c], 1, n)) = n
  BY <1>1, <1>2
<1> DEFINE both == stdio[c] \o SubSeq(keyboard[c], 1, n)
<1>5. both \in Seq(Text) /\ Len(both) = Len(stdio[c]) + n
  BY <1>1, <1>4, ConcatProperties
<1>6. both # <<>>
  <2>1. Len(stdio[c]) + n > 0
    <3>1. CASE stdio[c] = <<>>
      BY <1>1, <1>2, <3>1
    <3>2. CASE stdio[c] # <<>>
      BY <1>1, <1>2, <3>2, EmptySeq
    <3>3. QED
      BY <3>1, <3>2
  <2>2. Len(<<>>) = 0
    OBVIOUS
  <2>3. QED
    BY <1>5, <2>1, <2>2
<1>7. Tail(both) \in Seq(Text)
  BY <1>5, <1>6
<1>8. /\ keyboard' = [keyboard EXCEPT
                       ![c] = SubSeq(keyboard[c], n + 1, Len(keyboard[c]))]
      /\ stdio' = [stdio EXCEPT ![c] = Tail(both)]
  BY <1>1 DEF Fgets
<1> HIDE DEF both
<1>9. QED
  BY <1>1, <1>3, <1>7, <1>8

LEMMA InitType == Init => TypeInv
<1> SUFFICES ASSUME Init PROVE TypeInv
  OBVIOUS
<1>1. SlotInv
  BY RelayInit
<1>2. \A S : [c \in Addr |-> <<>>] \in [Addr -> Seq(S)]
  OBVIOUS
<1>3. /\ {keyboard, stdio, owed, toServer} \subseteq [Addr -> Seq(Text)]
      /\ toClient \in [Addr -> Seq({"connected", "full", "invalid", "text"})]
  BY <1>2 DEF Init
<1>4. /\ \A c \in Addr : lines[c] \in 0..MaxLines[c]
      /\ {losses, stops, others} \subseteq 0..MaxFaults
      /\ lines \in [Addr -> Nat]
  BY BoundsAssumption DEF Init
<1>5. QED
  BY <1>1, <1>3, <1>4, OneSlot DEF Init, TypeInv, TypeOK, SlotInv

(* One more fault stays within the bound. *)
LEMMA FaultType ==
  ASSUME TypeInv, MayFail
  PROVE  /\ losses + 1 \in 0..MaxFaults
         /\ stops + 1 \in 0..MaxFaults
         /\ others + 1 \in 0..MaxFaults
BY BoundsAssumption DEF TypeInv, TypeOK, MayFail

LEMMA NextType == TypeInv /\ [Next]_vars => TypeInv'
<1> SUFFICES ASSUME TypeInv, [Next]_vars PROVE TypeInv'
  OBVIOUS
<1>1. SlotInv' /\ (\A a \in Addr : Cardinality(find_client(a)') <= 1)
  <2>1. SlotInv'
    BY RelayStep DEF TypeInv
  <2>2. ASSUME NEW a \in Addr PROVE Cardinality(find_client(a)') <= 1
    <3>1. find_client(a)' = {i \in Slots : clients'[i] = a}
      BY DEF find_client
    <3>2. CASE find_client(a)' = {}
      BY <3>2, FS_EmptySet
    <3>3. CASE find_client(a)' # {}
      <4>1. PICK i \in Slots : clients'[i] = a
        BY <3>1, <3>3
      <4>2. find_client(a)' = {i}
        BY <2>1, <3>1, <4>1, AddrAssumption DEF SlotInv
      <4>3. Cardinality(find_client(a)') = 1
        BY <4>2, FS_Singleton
      <4>4. QED
        BY <4>3
    <3>4. QED
      BY <3>2, <3>3
  <2>3. QED
    BY <2>1, <2>2
<1> DEFINE
  ServerT == /\ {up, server_running} \subseteq BOOLEAN
             /\ heard \in Addr \X Addr \cup {Silence}
  ClientT == /\ at \in [Addr -> {"off", "on", "done", "gone", "failed"}]
             /\ {told, closed} \subseteq [Addr -> BOOLEAN]
             /\ {keyboard, stdio} \subseteq [Addr -> Seq(Text)]
             /\ \A c \in Addr : lines[c] \in 0..MaxLines[c]
             /\ lines \in [Addr -> Nat]
             /\ owed \in [Addr -> Seq(Text)] /\ inTurn \in [Addr -> BOOLEAN]
  NetT    == /\ toServer \in [Addr -> Seq(Text)]
             /\ toClient \in [Addr -> Seq(Kind)]
  FaultT  == {losses, stops, others} \subseteq 0..MaxFaults
<1>2. ServerT /\ ClientT /\ NetT /\ FaultT
  BY DEF TypeInv, TypeOK, Kind
<1>3. ServerT' /\ ClientT' /\ NetT' /\ FaultT' => TypeInv'
  BY <1>1 DEF TypeInv, TypeOK, SlotInv, Kind
<1>e. [c \in Addr |-> <<>>] \in [Addr -> Seq(Text)]
  OBVIOUS
<1>4. ASSUME NEW a \in Addr, Receive(a)
      PROVE  ServerT' /\ ClientT' /\ NetT' /\ FaultT'
  <2>1. ServerT' /\ NetT'
    BY <1>4, ReceiveType
  <2>2. UNCHANGED <<clientVars, counters>>
    BY <1>4 DEF Receive
  <2>3. QED
    BY <1>2, <2>1, <2>2 DEF clientVars, inputVars, counters
<1>c. UNCHANGED clientVars => ClientT'
  <2>1. UNCHANGED clientVars =>
          UNCHANGED <<at, told, keyboard, stdio, closed, lines, owed, inTurn>>
    BY DEF clientVars, inputVars
  <2>2. QED
    BY <1>2, <2>1
<1>n. UNCHANGED netVars => NetT'
  BY <1>2 DEF netVars
<1>f. UNCHANGED counters => FaultT'
  BY <1>2 DEF counters
<1>5. CASE Exit \/ Start
  <2>1. ServerT'
    BY <1>2, <1>5 DEF Exit, Start, Halt
  <2>2. UNCHANGED clientVars /\ UNCHANGED netVars /\ UNCHANGED counters
    BY <1>5 DEF Exit, Start
  <2>3. ClientT' /\ NetT' /\ FaultT'
    BY <2>2, <1>c, <1>n, <1>f
  <2>4. QED
    BY <1>3, <2>1, <2>3
<1>6. CASE Signal \/ Crash
  <2>1. ServerT'
    BY <1>2, <1>6 DEF Signal, Crash, Halt
  <2>2. FaultT'
    BY <1>2, <1>6, FaultType DEF Signal, Crash, Stop
  <2>3. UNCHANGED clientVars /\ UNCHANGED netVars
    BY <1>6 DEF Signal, Crash
  <2>4. ClientT' /\ NetT'
    BY <2>3, <1>c, <1>n
  <2>5. QED
    BY <1>3, <2>1, <2>2, <2>4
<1>7. ASSUME NEW c \in Addr, Launch(c)
      PROVE  ServerT' /\ ClientT' /\ NetT' /\ FaultT'
  <2>1. Connect \in Text
    BY TextAssumption
  <2>2. NetT'
    BY <1>2, <1>7, <2>1, AppendType DEF Launch, Send
  <2>3. QED
    BY <1>2, <1>7, <2>2 DEF Launch, serverVars, inputVars, counters
<1>8. ASSUME NEW c \in Addr, Hear(c)
      PROVE  ServerT' /\ ClientT' /\ NetT' /\ FaultT'
  <2>1. NetT'
    BY <1>2, <1>8, TailType DEF Hear
  <2>2. told' \in [Addr -> BOOLEAN]
    BY <1>2, <1>8 DEF Hear
  <2>3. QED
    BY <1>2, <1>8, <2>1, <2>2 DEF Hear, serverVars, inputVars, counters
<1>9. ASSUME NEW c \in Addr, Type(c)
      PROVE  ServerT' /\ ClientT' /\ NetT' /\ FaultT'
  <2>1. /\ \A d \in Addr : lines'[d] \in 0..MaxLines[d]
        /\ lines' \in [Addr -> Nat]
    <3>1. /\ lines' = [lines EXCEPT ![c] = lines[c] + 1]
          /\ lines[c] < MaxLines[c]
      BY <1>9 DEF Type
    <3>2. MaxLines[c] \in Nat
      BY BoundsAssumption
    <3>3. lines[c] + 1 \in 0..MaxLines[c]
      BY <1>2, <3>1, <3>2
    <3>4. QED
      BY <1>2, <3>1, <3>3
  <2>2. keyboard' \in [Addr -> Seq(Text)] /\ closed' \in [Addr -> BOOLEAN]
    <3>1. CASE /\ \E m \in Text :
                   keyboard' = [keyboard EXCEPT ![c] = Append(@, m)]
               /\ UNCHANGED closed
      BY <1>2, <3>1, AppendType
    <3>2. CASE /\ closed' = [closed EXCEPT ![c] = TRUE]
               /\ UNCHANGED keyboard
      BY <1>2, <3>2
    <3>3. QED
      BY <1>9, <3>1, <3>2 DEF Type
  <2>3. owed' \in [Addr -> Seq(Text)]
    <3>1. CASE \E m \in Text : owed' = [owed EXCEPT ![c] = Append(@, m)]
      BY <1>2, <3>1, AppendType
    <3>2. CASE UNCHANGED owed
      BY <1>2, <3>2
    <3>3. QED
      BY <1>9, <3>1, <3>2 DEF Type
  <2>4. QED
    BY <1>2, <1>9, <2>1, <2>2, <2>3 DEF Type, serverVars, netVars, counters
<1>o. ASSUME NEW c \in Addr, NEW m, Settle(c, m)
      PROVE  owed' \in [Addr -> Seq(Text)] /\ inTurn' \in [Addr -> BOOLEAN]
  <2>1. <<>> \in Seq(Text) /\ owed[c] \in Seq(Text)
    BY <1>2, EmptySeq
  <2>2. owed[c] # <<>> => Tail(owed[c]) \in Seq(Text)
    BY <2>1, HeadTailProperties
  <2>3. owed' \in [Addr -> Seq(Text)]
    BY <1>2, <1>o, <2>1, <2>2 DEF Settle
  <2>4. inTurn' \in [Addr -> BOOLEAN]
    BY <1>2, <1>o, Zenon DEF Settle
  <2>5. QED
    BY <2>3, <2>4
<1>z. ASSUME NEW c \in Addr, NEW how \in {"done", "gone", "failed"}, Ends(c, how),
             owed' \in [Addr -> Seq(Text)], inTurn' \in [Addr -> BOOLEAN]
      PROVE  ClientT' /\ toClient' \in [Addr -> Seq(Kind)]
  <2>1. /\ keyboard' \in [Addr -> Seq(Text)]
        /\ stdio' \in [Addr -> Seq(Text)]
        /\ toClient' \in [Addr -> Seq(Kind)]
    BY <1>2, <1>z DEF Ends
  <2>2. at' \in [Addr -> {"off", "on", "done", "gone", "failed"}]
    BY <1>2, <1>z DEF Ends
  <2>3. QED
    BY <1>2, <1>z, <2>1, <2>2 DEF Ends
<1>10. ASSUME NEW c \in Addr, SendLine(c)
       PROVE  ServerT' /\ ClientT' /\ NetT' /\ FaultT'
  <2>1. stdio[c] \in Seq(Text) /\ keyboard[c] \in Seq(Text)
    BY <1>2
  <2>2. Head(stdio[c] \o keyboard[c]) \in Text
    <3>1. stdio[c] \o keyboard[c] \in Seq(Text)
      BY <2>1
    <3>2. QED
      BY <1>10, <3>1, HeadTailProperties DEF SendLine
  <2>3. toServer' \in [Addr -> Seq(Text)]
    BY <1>2, <1>10, <2>2, AppendType DEF SendLine, Send
  <2>o. owed' \in [Addr -> Seq(Text)] /\ inTurn' \in [Addr -> BOOLEAN]
    BY <1>10, <1>o DEF SendLine
  <2>4. ClientT' /\ toClient' \in [Addr -> Seq(Kind)]
    <3>1. CASE Ends(c, "done")
      BY <2>o, <3>1, <1>z
    <3>2. CASE /\ \E n \in Fills(c) : Fgets(c, n)
               /\ UNCHANGED <<at, told, toClient>>
      <4>1. {keyboard, stdio}' \subseteq [Addr -> Seq(Text)]
        BY <1>10, <3>2, FgetsType DEF SendLine
      <4>2. UNCHANGED <<closed, lines, at, told, toClient>>
        BY <3>2 DEF Fgets
      <4>3. QED
        BY <1>2, <2>o, <4>1, <4>2
    <3>3. QED
      BY <1>10, <3>1, <3>2 DEF SendLine
  <2>5. QED
    BY <1>2, <1>10, <2>3, <2>4 DEF SendLine, serverVars, counters
<1>11. ASSUME NEW c \in Addr, EndOfInput(c) \/ Vanish(c)
       PROVE  ServerT' /\ ClientT' /\ NetT' /\ FaultT'
  <2>1. /\ \E how \in {"gone", "failed"} : Ends(c, how)
        /\ UNCHANGED <<serverVars, owed, inTurn, toServer>>
    BY <1>11 DEF EndOfInput, Vanish
  <2>2. FaultT'
    BY <1>2, <1>11, FaultType DEF EndOfInput, Vanish, counters
  <2>3. QED
    BY <1>2, <1>z, <2>1, <2>2 DEF serverVars
<1>12. ASSUME NEW c \in Addr, Lose(c) \/ Duplicate(c) \/ Discard(c)
       PROVE  ServerT' /\ ClientT' /\ NetT' /\ FaultT'
  <2>1. FaultT'
    BY <1>2, <1>12, FaultType DEF Lose, Duplicate, Discard, counters
  <2>2. NetT'
    <3>1. CASE Lose(c) \/ Discard(c)
      <4>1. CASE /\ toServer[c] # <<>> /\ UNCHANGED toClient
                 /\ toServer' = [toServer EXCEPT ![c] = Tail(@)]
        BY <1>2, <4>1, TailType
      <4>2. CASE /\ toClient[c] # <<>> /\ UNCHANGED toServer
                 /\ toClient' = [toClient EXCEPT ![c] = Tail(@)]
        BY <1>2, <4>2, TailType
      <4>3. QED
        BY <3>1, <4>1, <4>2 DEF Lose, Discard
    <3>2. CASE Duplicate(c)
      <4>1. toServer[c] \in Seq(Text) /\ toServer[c] # <<>>
        BY <1>2, <3>2 DEF Duplicate
      <4>2. <<Head(toServer[c])>> \in Seq(Text)
        BY <4>1, HeadTailProperties
      <4>3. <<Head(toServer[c])>> \o toServer[c] \in Seq(Text)
        BY <4>1, <4>2
      <4>4. QED
        BY <1>2, <3>2, <4>3 DEF Duplicate
    <3>3. QED
      BY <1>12, <3>1, <3>2
  <2>3. QED
    BY <1>2, <1>12, <2>1, <2>2
    DEF Lose, Duplicate, Discard, serverVars, clientVars, inputVars
<1>13. CASE UNCHANGED vars
  <2>1. ServerT'
    BY <1>2, <1>13 DEF vars, serverVars
  <2>2. UNCHANGED clientVars /\ UNCHANGED netVars /\ UNCHANGED counters
    BY <1>13 DEF vars
  <2>3. ClientT' /\ NetT' /\ FaultT'
    BY <2>2, <1>c, <1>n, <1>f
  <2>4. QED
    BY <1>3, <2>1, <2>3
<1> HIDE DEF ServerT, ClientT, NetT, FaultT
<1>14. QED
  BY <1>3, <1>4, <1>5, <1>6, <1>7, <1>8, <1>9, <1>10, <1>11, <1>12, <1>13
  DEF Next, ReadInput

(* Every state of the relay, its clients and its network is well typed, no *)
(* client holds two slots, and no bound is exceeded.                       *)
THEOREM RelayTypeCorrect == Spec => []TypeOK
<1>1. TypeInv => TypeOK
  BY DEF TypeInv
<1>2. QED
  BY <1>1, InitType, NextType, PTL DEF Spec

-------------------------------------------------------------------------------
(* What a client knows, and what it leaves behind, while the server goes   *)
(* on: both follow from what may still be in the queue to the server.      *)

Undisturbed == stops = 0

Running == Undisturbed => up /\ server_running

(* Before it has ended a client has not sent an exit token; and if nothing *)
(* of it was lost, it is registered, was told why not, or one of the two   *)
(* is on its way.                                                          *)
Knows(c) ==
  /\ at[c] = "off" => toServer[c] = <<>>
  /\ at[c] = "on" => Contents(toServer[c]) \cap Exits = {}
  /\ at[c] = "on" /\ Undisturbed /\ losses = 0 =>
       \/ Registered(c)
       \/ told[c]
       \/ Connect \in Contents(toServer[c])
       \/ "full" \in Contents(toClient[c])

KnowsInv ==
  /\ TypeInv
  /\ Running
  /\ \A c \in Addr : Knows(c)

(* The queues by themselves; and no count goes down. *)
LEMMA Queues ==
  ASSUME TypeInv
  PROVE  /\ toServer \in [Addr -> Seq(Text)]
         /\ toClient \in [Addr -> Seq(Kind)]
         /\ at \in [Addr -> {"off", "on", "done", "gone", "failed"}]
         /\ told \in [Addr -> BOOLEAN]
         /\ losses \in Nat /\ stops \in Nat
BY BoundsAssumption DEF TypeInv, TypeOK, Kind

LEMMA CountsGrow ==
  ASSUME TypeInv, [Next]_vars
  PROVE  /\ stops' = stops \/ stops' = stops + 1
         /\ losses' = losses \/ losses' = losses + 1
BY DEF Next, ReadInput, Receive, Launch, Hear, Type, SendLine, EndOfInput,
       Vanish, Lose, Duplicate, Discard, Exit, Signal, Crash, Start, Stop,
       counters, vars

LEMMA RunningStep == ASSUME TypeInv, Running, [Next]_vars PROVE Running'
<1>1. losses \in Nat /\ stops \in Nat
  BY Queues
<1>2. CASE Signal \/ Crash
  BY <1>1, <1>2 DEF Signal, Crash, Stop, Running, Undisturbed
<1>3. CASE Exit \/ Start
  BY <1>3 DEF Exit, Start, Running, Undisturbed, counters, Halt
<1>4. ASSUME NEW a \in Addr, Receive(a) PROVE Running'
  BY <1>4 DEF Receive, AfterHandling, Running, Undisturbed, counters
<1>5. ASSUME NEW c \in Addr,
             \/ Launch(c) \/ Hear(c) \/ Type(c) \/ ReadInput(c)
             \/ Vanish(c) \/ Lose(c) \/ Duplicate(c) \/ Discard(c)
      PROVE  Running'
  BY <1>5 DEF Launch, Hear, Type, ReadInput, SendLine, EndOfInput, Vanish,
              Lose, Duplicate, Discard, serverVars, counters, Running, Undisturbed
<1>6. CASE UNCHANGED vars
  BY <1>6 DEF vars, serverVars, counters, Running, Undisturbed
<1>7. QED
  BY <1>2, <1>3, <1>4, <1>5, <1>6 DEF Next

(* An answer adds to the queue of a client that can still read it. *)
LEMMA AnswerContents ==
  ASSUME TypeInv, NEW a \in Addr, NEW k \in Kind, Answer(a, k)
  PROVE  /\ \A c \in Addr : Contents(toClient[c]) \subseteq Contents(toClient'[c])
         /\ at[a] = "on" => k \in Contents(toClient'[a])
<1>1. toClient \in [Addr -> Seq(Kind)]
  BY Queues
<1>2. CASE at[a] = "on"
  <2>1. toClient' = [toClient EXCEPT ![a] = Append(toClient[a], k)]
    BY <1>2 DEF Answer
  <2>2. Contents(toClient'[a]) = Contents(toClient[a]) \cup {k}
    BY <1>1, <2>1, ContentsAppend
  <2>3. \A c \in Addr \ {a} : toClient'[c] = toClient[c]
    BY <1>1, <2>1
  <2>4. QED
    BY <2>2, <2>3
<1>3. CASE at[a] # "on"
  BY <1>3 DEF Answer
<1>4. QED
  BY <1>2, <1>3

(* A step that takes nothing of c away keeps what c knows. *)
LEMMA KeepsKnowing ==
  ASSUME NEW c \in Addr, Knows(c),
         at'[c] = at[c],
         toServer'[c] = toServer[c],
         at[c] = "on" =>
           /\ Registered(c) => Registered(c)'
           /\ told[c] => told'[c]
           /\ "full" \in Contents(toClient[c])
                => told'[c] \/ "full" \in Contents(toClient'[c]),
         losses' = 0 => losses = 0,
         stops' = 0 => stops = 0
  PROVE  Knows(c)'
BY DEF Knows, Undisturbed

(* The datagram that the server handles is answered, if it was a CONNECT,  *)
(* and is no exit token, if its sender is still there.                     *)
LEMMA ReceiveKnows ==
  ASSUME KnowsInv, NEW a \in Addr, Receive(a), NEW c \in Addr
  PROVE  Knows(c)'
<1> DEFINE m == Head(toServer[a])
<1>1. /\ toServer \in [Addr -> Seq(Text)]
      /\ toClient \in [Addr -> Seq(Kind)]
      /\ at \in [Addr -> {"off", "on", "done", "gone", "failed"}]
  BY Queues DEF KnowsInv
<1>2. /\ toServer[a] \in Seq(Text) /\ toServer[a] # <<>>
      /\ toServer' = [toServer EXCEPT ![a] = Tail(toServer[a])]
      /\ UNCHANGED <<at, told, losses, stops>>
  BY <1>1 DEF Receive, clientVars, counters
<1>3. /\ Contents(toServer[a]) = {m} \cup Contents(toServer'[a])
  BY <1>1, <1>2, ContentsTail
<1>4. at[a] # "off" /\ (at[a] = "on" => m \notin Exits)
  BY <1>2, <1>3 DEF KnowsInv, Knows
<1>5. /\ \A d \in Addr : Contents(toClient[d]) \subseteq Contents(toClient'[d])
      /\ Full(a, m) /\ at[a] = "on" => "full" \in Contents(toClient'[a])
  <2>0. "connected" \in Kind /\ "full" \in Kind /\ "invalid" \in Kind /\ "text" \in Kind
    BY DEF Kind
  <2>1. CASE Register(a, m) \/ Full(a, m) \/ Invalid(a, m)
    <3>1. PICK k \in Kind : Answer(a, k) /\ (Full(a, m) => k = "full")
      BY <2>0, <2>1 DEF Register, Full, Invalid
    <3>2. QED
      BY <3>1, AnswerContents DEF KnowsInv
  <2>2. CASE Ignore(a, m) \/ Leave(a, m)
    BY <2>2 DEF Ignore, Leave, Full
  <2>3. CASE Forward(a, m)
    <3>1. ~Full(a, m)
      BY <2>3 DEF Forward, Full
    <3>2. CASE UNCHANGED toClient
      BY <3>1, <3>2
    <3>3. CASE \E b \in Peers(a) : Answer(b, "text")
      <4>1. PICK b \in Peers(a) : Answer(b, "text")
        BY <3>3
      <4>2. b \in Addr
        BY DEF Peers, KnowsInv, TypeInv, SlotInv
      <4>3. QED
        BY <2>0, <3>1, <4>1, <4>2, AnswerContents DEF KnowsInv
    <3>4. QED
      BY <2>3, <3>2, <3>3 DEF Forward
  <2>4. QED
    BY <2>1, <2>2, <2>3 DEF Receive
<1>6. /\ at[c] = "on" /\ Registered(c) => Registered(c)'
      /\ Register(a, m) => Registered(a)'
  <2>1. CASE Register(a, m)
    <3>1. PICK f \in Slots : clients[f] = NoAddr /\ clients' = [clients EXCEPT ![f] = a]
      BY <2>1, FreeSlot DEF Register
    <3>2. clients'[f] = a /\ \A i \in Slots \ {f} : clients'[i] = clients[i]
      BY <3>1 DEF KnowsInv, TypeInv, SlotInv
    <3>3. QED
      BY <3>1, <3>2, AddrAssumption DEF Registered, find_client
  <2>2. CASE Full(a, m) \/ Ignore(a, m) \/ Invalid(a, m) \/ Forward(a, m)
    BY <2>2 DEF Full, Ignore, Invalid, Forward, Registered, find_client, Register
  <2>3. CASE Leave(a, m)
    <3>1. at[c] = "on" => c # a
      BY <1>4, <2>3 DEF Leave
    <3>2. c # a => find_client(c)' = find_client(c)
      BY <2>3, AddrAssumption DEF Leave, find_client, KnowsInv, TypeInv, SlotInv
    <3>3. ~Register(a, m)
      BY <2>3 DEF Leave, Register
    <3>4. QED
      BY <3>1, <3>2, <3>3 DEF Registered
  <2>4. QED
    BY <2>1, <2>2, <2>3 DEF Receive
<1>7. CASE c # a
  BY <1>1, <1>2, <1>5, <1>6, <1>7, KeepsKnowing DEF KnowsInv
<1>8. CASE c = a
  <2>1. CASE at[a] = "on" /\ Undisturbed' /\ losses' = 0
    <3>1. Registered(a)' \/ told'[a] \/ Connect \in Contents(toServer'[a])
            \/ "full" \in Contents(toClient'[a])
      <4>1. CASE m = Connect
        <5>1. Register(a, m) \/ Full(a, m) \/ Registered(a)
          BY <4>1 DEF Receive, Ignore, Leave, Invalid, Forward, Register, Full
        <5>2. QED
          BY <1>5, <1>6, <1>8, <2>1, <5>1
      <4>2. CASE m # Connect
        BY <1>2, <1>3, <1>5, <1>6, <1>8, <2>1, <4>2
        DEF KnowsInv, Knows, Undisturbed
      <4>3. QED
        BY <4>1, <4>2
    <3>2. QED
      BY <1>2, <1>3, <1>4, <1>8, <3>1 DEF KnowsInv, Knows
  <2>2. CASE ~(at[a] = "on" /\ Undisturbed' /\ losses' = 0)
    BY <1>2, <1>3, <1>4, <1>8, <2>2 DEF KnowsInv, Knows
  <2>3. QED
    BY <2>1, <2>2
<1>9. QED
  BY <1>7, <1>8

(* A client sends what is no exit token, or ends. *)
LEMMA SendKnows ==
  ASSUME KnowsInv, NEW a \in Addr, Launch(a) \/ SendLine(a), NEW c \in Addr
  PROVE  Knows(c)'
<1>1. /\ toServer \in [Addr -> Seq(Text)]
      /\ toClient \in [Addr -> Seq(Kind)]
      /\ at \in [Addr -> {"off", "on", "done", "gone", "failed"}]
      /\ stdio \in [Addr -> Seq(Text)] /\ keyboard \in [Addr -> Seq(Text)]
  BY Queues DEF KnowsInv, TypeInv, TypeOK
<1>2. UNCHANGED <<clients, told, losses, stops>>
  BY DEF Launch, SendLine, Ends, Fgets, serverVars, counters
<1>3. Registered(c)' = Registered(c)
  BY <1>2 DEF Registered, find_client
<1>4. CASE Launch(a)
  <2>1. Connect \in Text /\ Connect \notin Exits
    BY TextAssumption
  <2>2. /\ toServer[a] = <<>>
        /\ toServer' = [toServer EXCEPT ![a] = Append(toServer[a], Connect)]
        /\ at' = [at EXCEPT ![a] = "on"]
        /\ UNCHANGED toClient
    BY <1>4 DEF Launch, Send, KnowsInv, Knows
  <2>3. Contents(toServer'[a]) = {Connect}
    <3>1. toServer[a] \in Seq(Text) /\ toServer'[a] = Append(toServer[a], Connect)
      BY <1>1, <2>2
    <3>2. Contents(toServer'[a]) = Contents(toServer[a]) \cup {Connect}
      BY <2>1, <3>1, ContentsAppend
    <3>3. QED
      BY <2>2, <3>2, ContentsEmpty
  <2>4. CASE c = a
    BY <1>1, <2>1, <2>2, <2>3, <2>4 DEF Knows
  <2>5. CASE c # a
    BY <1>1, <1>2, <1>3, <2>2, <2>5, KeepsKnowing DEF KnowsInv
  <2>6. QED
    BY <2>4, <2>5
<1>5. CASE SendLine(a)
  <2> DEFINE m == Head(stdio[a] \o keyboard[a])
  <2>1. m \in Text
    <3>1. stdio[a] \o keyboard[a] \in Seq(Text) /\ stdio[a] \o keyboard[a] # <<>>
      BY <1>1, <1>5, ConcatProperties DEF SendLine
    <3>2. QED
      BY <3>1, HeadTailProperties
  <2>2. /\ toServer' = [toServer EXCEPT ![a] = Append(toServer[a], m)]
        /\ at[a] = "on"
    BY <1>5 DEF SendLine, Send, KeyboardReady
  <2>3. Contents(toServer'[a]) = Contents(toServer[a]) \cup {m}
    <3>1. toServer[a] \in Seq(Text) /\ toServer'[a] = Append(toServer[a], m)
      BY <1>1, <2>2
    <3>2. \A e \in Text :
            Contents(Append(toServer[a], e)) = Contents(toServer[a]) \cup {e}
      BY <3>1, ContentsAppend
    <3>3. QED
      BY <2>1, <3>1, <3>2
  <2>4. /\ m \in Exits => at'[a] = "done"
        /\ m \notin Exits => UNCHANGED <<at, toClient>>
        /\ \A d \in Addr \ {a} : at'[d] = at[d] /\ toClient'[d] = toClient[d]
    BY <1>1, <1>5 DEF SendLine, Ends
  <2>5. CASE c # a
    BY <1>1, <1>2, <1>3, <2>2, <2>4, <2>5, KeepsKnowing DEF KnowsInv
  <2>6. CASE c = a /\ m \in Exits
    BY <2>4, <2>6 DEF Knows
  <2>7. CASE c = a /\ m \notin Exits
    BY <1>2, <1>3, <2>2, <2>3, <2>4, <2>7 DEF KnowsInv, Knows, Undisturbed
  <2>8. QED
    BY <2>5, <2>6, <2>7
<1>6. QED
  BY <1>4, <1>5

LEMMA KnowsStep == ASSUME KnowsInv, [Next]_vars PROVE KnowsInv'
<1>1. TypeInv' /\ Running'
  BY NextType, RunningStep DEF KnowsInv
<1>2. SUFFICES ASSUME NEW c \in Addr PROVE Knows(c)'
  BY <1>1 DEF KnowsInv
<1>t. /\ toServer \in [Addr -> Seq(Text)]
      /\ toClient \in [Addr -> Seq(Kind)]
      /\ at \in [Addr -> {"off", "on", "done", "gone", "failed"}]
      /\ told \in [Addr -> BOOLEAN]
      /\ losses \in Nat /\ stops \in Nat
  BY Queues DEF KnowsInv
<1>k. Knows(c)
  BY DEF KnowsInv
<1>3. ASSUME UNCHANGED <<at, toServer, toClient, told, losses, stops>>,
             clients' = clients \/ stops' # 0
      PROVE  Knows(c)'
  BY <1>3, <1>k DEF Knows, Registered, find_client, Undisturbed
<1>4. CASE Signal \/ Crash
  <2>1. stops' = stops + 1 /\ stops' # 0
    BY <1>4, <1>t DEF Signal, Crash, Stop
  <2>2. UNCHANGED <<at, toServer>>
    BY <1>4 DEF Signal, Crash, clientVars, netVars
  <2>3. QED
    BY <2>1, <2>2, <1>k DEF Knows, Undisturbed
<1>5. CASE Exit \/ Start
  <2>1. UNCHANGED <<at, toServer, toClient, told, losses, stops>>
    BY <1>5 DEF Exit, Start, clientVars, netVars, counters
  <2>2. ~up
    BY <1>5 DEF Exit, Start
  <2>3. stops' # 0
    BY <2>1, <2>2 DEF KnowsInv, Running, Undisturbed
  <2>4. QED
    BY <1>3, <2>1, <2>3
<1>6. ASSUME NEW a \in Addr, Receive(a) PROVE Knows(c)'
  BY <1>6, ReceiveKnows
<1>7. ASSUME NEW a \in Addr, Launch(a) \/ SendLine(a) PROVE Knows(c)'
  BY <1>7, SendKnows
<1>8. ASSUME NEW a \in Addr, Hear(a) PROVE Knows(c)'
  <2>1. /\ toClient[a] # <<>> /\ toClient[a] \in Seq(Kind)
        /\ told' = [told EXCEPT ![a] = told[a] \/ Head(toClient[a]) = "full"]
        /\ toClient' = [toClient EXCEPT ![a] = Tail(toClient[a])]
        /\ UNCHANGED <<clients, at, toServer, losses, stops>>
    BY <1>8, <1>t DEF Hear, serverVars, counters
  <2>2. Contents(toClient[a]) = {Head(toClient[a])} \cup Contents(toClient'[a])
    BY <1>t, <2>1, ContentsTail
  <2>3. /\ told[c] => told'[c]
        /\ "full" \in Contents(toClient[c])
             => told'[c] \/ "full" \in Contents(toClient'[c])
    BY <1>t, <2>1, <2>2
  <2>4. Registered(c)' = Registered(c)
    BY <2>1 DEF Registered, find_client
  <2>5. QED
    BY <1>k, <2>1, <2>3, <2>4, KeepsKnowing
<1>9. ASSUME NEW a \in Addr, Type(a) PROVE Knows(c)'
  BY <1>3, <1>9 DEF Type, serverVars, netVars, counters
<1>10. ASSUME NEW a \in Addr, EndOfInput(a) \/ Vanish(a) PROVE Knows(c)'
  <2>1. /\ UNCHANGED <<clients, toServer, told, losses, stops>>
        /\ \E how \in {"gone", "failed"} : at' = [at EXCEPT ![a] = how]
        /\ toClient' = [toClient EXCEPT ![a] = <<>>]
    BY <1>10 DEF EndOfInput, Vanish, Ends, serverVars, counters
  <2>2. CASE c = a
    BY <1>t, <2>1, <2>2 DEF Knows
  <2>3. CASE c # a
    BY <1>t, <1>k, <2>1, <2>3, KeepsKnowing DEF Registered, find_client
  <2>4. QED
    BY <2>2, <2>3
<1>11. ASSUME NEW a \in Addr, Lose(a) \/ Discard(a) PROVE Knows(c)'
  <2>1. UNCHANGED <<at, stops>>
    BY <1>11 DEF Lose, Discard, clientVars, counters
  <2>2. losses' # 0 \/ stops' # 0
    <3>1. CASE Lose(a)
      BY <1>t, <3>1 DEF Lose
    <3>2. CASE Discard(a)
      BY <2>1, <3>2 DEF Discard, KnowsInv, Running, Undisturbed
    <3>3. QED
      BY <1>11, <3>1, <3>2
  <2>3. \/ UNCHANGED toServer
        \/ toServer[a] # <<>> /\ toServer' = [toServer EXCEPT ![a] = Tail(toServer[a])]
    BY <1>11 DEF Lose, Discard
  <2>4. /\ toServer[c] = <<>> => toServer'[c] = <<>>
        /\ Contents(toServer'[c]) \subseteq Contents(toServer[c])
    <3>1. CASE UNCHANGED toServer \/ c # a
      BY <1>t, <2>3, <3>1
    <3>2. CASE c = a /\ toServer[a] # <<>> /\ toServer'[a] = Tail(toServer[a])
      <4>1. toServer[a] \in Seq(Text)
        BY <1>t
      <4>2. Contents(toServer[a]) = {Head(toServer[a])} \cup Contents(Tail(toServer[a]))
        BY <3>2, <4>1, ContentsTail
      <4>3. QED
        BY <3>2, <4>2
    <3>3. QED
      BY <1>t, <2>3, <3>1, <3>2
  <2>5. QED
    BY <1>k, <2>1, <2>2, <2>4 DEF Knows, Undisturbed
<1>12. ASSUME NEW a \in Addr, Duplicate(a) PROVE Knows(c)'
  <2>1. /\ toServer[a] # <<>> /\ toServer[a] \in Seq(Text)
        /\ toServer' = [toServer EXCEPT ![a] = <<Head(toServer[a])>> \o toServer[a]]
        /\ UNCHANGED <<clients, at, told, toClient, losses, stops>>
    BY <1>t, <1>12 DEF Duplicate, serverVars, clientVars
  <2>2. /\ toServer[c] = <<>> => toServer'[c] = <<>>
        /\ Contents(toServer'[c]) = Contents(toServer[c])
    BY <1>t, <2>1, ContentsRepeat
  <2>3. QED
    BY <1>k, <2>1, <2>2 DEF Knows, Undisturbed, Registered, find_client
<1>13. CASE UNCHANGED vars
  BY <1>3, <1>13 DEF vars, serverVars, clientVars, netVars, counters
<1>14. QED
  BY <1>4, <1>5, <1>6, <1>7, <1>8, <1>9, <1>10, <1>11, <1>12, <1>13
  DEF Next, ReadInput

LEMMA KnowsInit == Init => KnowsInv
<1> SUFFICES ASSUME Init PROVE KnowsInv
  OBVIOUS
<1>1. TypeInv
  BY InitType
<1>2. QED
  BY <1>1, ContentsEmpty DEF Init, KnowsInv, Running, Knows

(* A client whose text the server would ignore without an answer knows it: *)
(* it was told that the server is full, or a datagram was lost, or the     *)
(* server was stopped.                                                     *)
THEOREM IgnoredKnowsHolds == Spec => []IgnoredKnows
<1>1. KnowsInv => IgnoredKnows
  <2> SUFFICES ASSUME KnowsInv PROVE IgnoredKnows
    OBVIOUS
  <2>1. losses \in Nat /\ stops \in Nat
    BY Queues DEF KnowsInv
  <2>2. QED
    BY <2>1, ContentsEmpty DEF KnowsInv, Knows, IgnoredKnows, Settled, Undisturbed
<1>2. QED
  BY <1>1, KnowsInit, KnowsStep, PTL DEF Spec

(* The last thing that a client which said @ or # has on its way is that   *)
(* token, so its slot can outlive its queue only where a datagram is lost. *)
Leavers ==
  {c \in Addr : at[c] = "done" /\ toServer[c] = <<>> /\ Registered(c)}

ExitLast(c) ==
  at[c] = "done" /\ toServer[c] # <<>> => Newest(toServer[c]) \in Exits

LeakInv ==
  /\ TypeInv
  /\ Running
  /\ \A c \in Addr : ExitLast(c)
  /\ Undisturbed => Cardinality(Leavers) <= losses

LEMMA LeaversFinite ==
  TypeInv => IsFiniteSet(Leavers) /\ Cardinality(Leavers) \in Nat
<1> SUFFICES ASSUME TypeInv PROVE IsFiniteSet(Leavers) /\ Cardinality(Leavers) \in Nat
  OBVIOUS
<1>1. Leavers \subseteq {clients[0]} \cup {clients[1]}
  BY SlotNumbers DEF Leavers, Registered, find_client
<1>2. IsFiniteSet({clients[0]} \cup {clients[1]})
  BY FS_Singleton, FS_AddElement
<1>3. QED
  BY <1>1, <1>2, FS_Subset, FS_CardinalityType

(* No more leavers than before, or one more for one datagram lost. *)
LEMMA FewerLeavers ==
  ASSUME LeakInv, Leavers' \subseteq Leavers, UNCHANGED <<losses, stops>>
  PROVE  Undisturbed' => Cardinality(Leavers') <= losses'
<1>1. IsFiniteSet(Leavers) /\ Cardinality(Leavers) \in Nat
  BY LeaversFinite DEF LeakInv
<1>2. IsFiniteSet(Leavers') /\ Cardinality(Leavers') <= Cardinality(Leavers)
  BY <1>1, FS_Subset
<1>3. Cardinality(Leavers') \in Nat /\ losses \in Nat
  BY <1>2, FS_CardinalityType, Queues DEF LeakInv
<1>4. QED
  BY <1>1, <1>2, <1>3 DEF LeakInv, Undisturbed

LEMMA OneLostLeaver ==
  ASSUME LeakInv, NEW a, Leavers' \subseteq Leavers \cup {a},
         losses' = losses + 1, UNCHANGED stops
  PROVE  Undisturbed' => Cardinality(Leavers') <= losses'
<1>1. IsFiniteSet(Leavers) /\ Cardinality(Leavers) \in Nat
  BY LeaversFinite DEF LeakInv
<1>2. IsFiniteSet(Leavers') /\ Cardinality(Leavers') <= Cardinality(Leavers) + 1
  BY <1>1, OneMore
<1>3. Cardinality(Leavers') \in Nat /\ losses \in Nat
  BY <1>2, FS_CardinalityType, Queues DEF LeakInv
<1>4. QED
  BY <1>1, <1>2, <1>3 DEF LeakInv, Undisturbed

(* When the last datagram of a leaver is handled, its slot is freed.       *)
LEMMA ReceiveLeak ==
  ASSUME LeakInv, NEW a \in Addr, Receive(a)
  PROVE  (\A c \in Addr : ExitLast(c)') /\ Leavers' \subseteq Leavers
<1> DEFINE m == Head(toServer[a])
<1>1. /\ toServer \in [Addr -> Seq(Text)]
      /\ at \in [Addr -> {"off", "on", "done", "gone", "failed"}]
  BY Queues DEF LeakInv
<1>2. /\ toServer[a] \in Seq(Text) /\ toServer[a] # <<>>
      /\ toServer' = [toServer EXCEPT ![a] = Tail(toServer[a])]
      /\ UNCHANGED at
  BY <1>1 DEF Receive, clientVars
<1>3. /\ toServer'[a] # <<>> => Newest(toServer'[a]) = Newest(toServer[a])
      /\ toServer'[a] = <<>> => Newest(toServer[a]) = m
  <2>1. toServer'[a] = Tail(toServer[a])
    BY <1>1, <1>2
  <2>2. QED
    BY <1>2, <2>1, ContentsTail
<1>4. ASSUME NEW c \in Addr PROVE ExitLast(c)'
  BY <1>1, <1>2, <1>3 DEF ExitLast, LeakInv
<1>5. ASSUME NEW c \in Addr \ {a}, Registered(c)' PROVE Registered(c)
  <2>1. CASE Register(a, m)
    <3>1. PICK f \in Slots : clients' = [clients EXCEPT ![f] = a]
      BY <2>1, FreeSlot DEF Register
    <3>2. QED
      BY <1>5, <3>1 DEF Registered, find_client, LeakInv, TypeInv, SlotInv
  <2>2. CASE Leave(a, m)
    BY <1>5, <2>2, AddrAssumption DEF Leave, Registered, find_client
  <2>3. CASE Full(a, m) \/ Ignore(a, m) \/ Invalid(a, m) \/ Forward(a, m)
    BY <1>5, <2>3 DEF Full, Ignore, Invalid, Forward, Registered, find_client
  <2>4. QED
    BY <2>1, <2>2, <2>3 DEF Receive
<1>6. a \notin Leavers'
  <2>1. SUFFICES ASSUME at[a] = "done", toServer'[a] = <<>>
                 PROVE  ~Registered(a)'
    BY <1>2 DEF Leavers
  <2>2. m \in Exits
    BY <1>2, <1>3, <2>1 DEF LeakInv, ExitLast
  <2>3. Leave(a, m) \/ Ignore(a, m)
    BY <2>2, TextAssumption DEF Receive, Register, Full, Invalid, Forward
  <2>4. QED
    BY <2>3, AddrAssumption DEF Leave, Ignore, Registered, find_client
<1>7. QED
  BY <1>1, <1>2, <1>4, <1>5, <1>6 DEF Leavers

(* What is sent goes behind the rest, and an exit token is sent last. *)
LEMMA SendLeak ==
  ASSUME LeakInv, NEW a \in Addr, Launch(a) \/ SendLine(a)
  PROVE  (\A c \in Addr : ExitLast(c)') /\ Leavers' \subseteq Leavers
<1>1. /\ toServer \in [Addr -> Seq(Text)]
      /\ at \in [Addr -> {"off", "on", "done", "gone", "failed"}]
      /\ stdio \in [Addr -> Seq(Text)] /\ keyboard \in [Addr -> Seq(Text)]
  BY Queues DEF LeakInv, TypeInv, TypeOK
<1>2. UNCHANGED clients
  BY DEF Launch, SendLine, serverVars
<1>3. PICK m \in Text :
        /\ toServer' = [toServer EXCEPT ![a] = Append(toServer[a], m)]
        /\ at' = [at EXCEPT ![a] = "on"] \/ at' = at \/ m \in Exits
        /\ at'[a] = "done" => m \in Exits
        /\ \A d \in Addr \ {a} : at'[d] = at[d]
  <2>1. CASE Launch(a)
    BY <1>1, <2>1, TextAssumption DEF Launch, Send
  <2>2. CASE SendLine(a)
    <3>1. stdio[a] \o keyboard[a] \in Seq(Text) /\ stdio[a] \o keyboard[a] # <<>>
      BY <1>1, <2>2, ConcatProperties DEF SendLine
    <3>2. Head(stdio[a] \o keyboard[a]) \in Text
      BY <3>1, HeadTailProperties
    <3>3. at[a] = "on"
      BY <2>2 DEF SendLine, KeyboardReady
    <3>4. QED
      BY <1>1, <2>2, <3>2, <3>3 DEF SendLine, Send, Ends
  <2>3. QED
    BY <2>1, <2>2
<1>4. toServer[a] \in Seq(Text) /\ toServer'[a] = Append(toServer[a], m)
  BY <1>1, <1>3
<1>5. toServer'[a] # <<>> /\ Newest(toServer'[a]) = m
  BY <1>4, ContentsAppend
<1>6. \A c \in Addr \ {a} : toServer'[c] = toServer[c]
  BY <1>1, <1>3
<1>7. ASSUME NEW c \in Addr PROVE ExitLast(c)'
  BY <1>3, <1>5, <1>6 DEF ExitLast, LeakInv
<1>8. Leavers' \subseteq Leavers
  BY <1>2, <1>3, <1>5, <1>6 DEF Leavers, Registered, find_client
<1>9. QED
  BY <1>7, <1>8

LEMMA LeakStep == ASSUME LeakInv, [Next]_vars PROVE LeakInv'
<1>1. TypeInv' /\ Running'
  BY NextType, RunningStep DEF LeakInv
<1> DEFINE Good == /\ \A c \in Addr : ExitLast(c)'
                   /\ Undisturbed' => Cardinality(Leavers') <= losses'
<1>2. SUFFICES Good
  BY <1>1 DEF LeakInv
<1>t. /\ toServer \in [Addr -> Seq(Text)]
      /\ at \in [Addr -> {"off", "on", "done", "gone", "failed"}]
      /\ losses \in Nat /\ stops \in Nat
  BY Queues DEF LeakInv
<1>3. ASSUME UNCHANGED <<at, toServer>>, stops' # 0 PROVE Good
  BY <1>3 DEF LeakInv, ExitLast, Undisturbed
<1>4. ASSUME UNCHANGED <<at, toServer, clients, losses, stops>> PROVE Good
  <2>1. Leavers' \subseteq Leavers
    BY <1>4 DEF Leavers, Registered, find_client
  <2>2. QED
    BY <1>4, <2>1, FewerLeavers DEF LeakInv, ExitLast
<1>5. CASE Signal \/ Crash
  BY <1>3, <1>5, <1>t DEF Signal, Crash, Stop, clientVars, netVars
<1>6. CASE Exit \/ Start
  <2>1. UNCHANGED <<at, toServer, losses, stops>> /\ ~up
    BY <1>6 DEF Exit, Start, clientVars, netVars, counters
  <2>2. QED
    BY <1>3, <2>1 DEF LeakInv, Running, Undisturbed
<1>7. ASSUME NEW a \in Addr, Receive(a) PROVE Good
  <2>1. UNCHANGED <<losses, stops>>
    BY <1>7 DEF Receive, counters
  <2>2. QED
    BY <1>7, <2>1, ReceiveLeak, FewerLeavers
<1>8. ASSUME NEW a \in Addr, Launch(a) \/ SendLine(a) PROVE Good
  <2>1. UNCHANGED <<losses, stops>>
    BY <1>8 DEF Launch, SendLine, counters
  <2>2. QED
    BY <1>8, <2>1, SendLeak, FewerLeavers
<1>9. ASSUME NEW a \in Addr, Hear(a) \/ Type(a) PROVE Good
  BY <1>4, <1>9 DEF Hear, Type, serverVars, netVars, counters
<1>10. ASSUME NEW a \in Addr, EndOfInput(a) \/ Vanish(a) PROVE Good
  <2>1. /\ UNCHANGED <<clients, toServer, losses, stops>>
        /\ \E how \in {"gone", "failed"} : at' = [at EXCEPT ![a] = how]
    BY <1>10 DEF EndOfInput, Vanish, Ends, serverVars, counters
  <2>2. \A c \in Addr : at'[c] = at[c] \/ at'[c] \in {"gone", "failed"}
    BY <1>t, <2>1
  <2>3. Leavers' \subseteq Leavers
    BY <2>1, <2>2 DEF Leavers, Registered, find_client
  <2>4. QED
    BY <2>1, <2>2, <2>3, FewerLeavers DEF LeakInv, ExitLast
<1>11. ASSUME NEW a \in Addr, Lose(a) \/ Discard(a) PROVE Good
  <2>1. UNCHANGED <<clients, at, stops>>
    BY <1>11 DEF Lose, Discard, serverVars, clientVars, counters
  <2>2. \/ UNCHANGED toServer
        \/ toServer[a] # <<>> /\ toServer' = [toServer EXCEPT ![a] = Tail(toServer[a])]
    BY <1>11 DEF Lose, Discard
  <2>3. \A c \in Addr \ {a} : toServer'[c] = toServer[c]
    BY <1>t, <2>2
  <2>4. ExitLast(a)'
    <3>1. CASE UNCHANGED toServer
      BY <2>1, <3>1 DEF LeakInv, ExitLast
    <3>2. CASE toServer[a] # <<>> /\ toServer' = [toServer EXCEPT ![a] = Tail(toServer[a])]
      <4>1. toServer[a] \in Seq(Text) /\ toServer'[a] = Tail(toServer[a])
        BY <1>t, <3>2
      <4>2. toServer'[a] # <<>> => Newest(toServer'[a]) = Newest(toServer[a])
        BY <3>2, <4>1, ContentsTail
      <4>3. QED
        BY <2>1, <3>2, <4>2 DEF LeakInv, ExitLast
    <3>3. QED
      BY <2>2, <3>1, <3>2
  <2>5. \A c \in Addr : ExitLast(c)'
    BY <2>1, <2>3, <2>4 DEF LeakInv, ExitLast
  <2>6. Leavers' \subseteq Leavers \cup {a}
    BY <2>1, <2>3 DEF Leavers, Registered, find_client
  <2>7. CASE Lose(a)
    <3>1. losses' = losses + 1
      BY <2>7 DEF Lose
    <3>2. QED
      BY <2>1, <2>5, <2>6, <3>1, OneLostLeaver
  <2>8. CASE Discard(a)
    BY <2>1, <2>5, <2>8 DEF Discard, LeakInv, Running, Undisturbed
  <2>9. QED
    BY <1>11, <2>7, <2>8
<1>12. ASSUME NEW a \in Addr, Duplicate(a) PROVE Good
  <2>1. /\ toServer[a] # <<>> /\ toServer[a] \in Seq(Text)
        /\ toServer' = [toServer EXCEPT ![a] = <<Head(toServer[a])>> \o toServer[a]]
        /\ UNCHANGED <<clients, at, losses, stops>>
    BY <1>t, <1>12 DEF Duplicate, serverVars, clientVars
  <2>2. toServer'[a] = <<Head(toServer[a])>> \o toServer[a]
    BY <1>t, <2>1
  <2>3. toServer'[a] # <<>> /\ Newest(toServer'[a]) = Newest(toServer[a])
    BY <2>1, <2>2, ContentsRepeat
  <2>4. \A c \in Addr \ {a} : toServer'[c] = toServer[c]
    BY <1>t, <2>1
  <2>5. Leavers' \subseteq Leavers
    BY <2>1, <2>3, <2>4 DEF Leavers, Registered, find_client
  <2>6. QED
    BY <2>1, <2>3, <2>4, <2>5, FewerLeavers DEF LeakInv, ExitLast
<1>13. CASE UNCHANGED vars
  BY <1>4, <1>13 DEF vars, serverVars, clientVars, netVars, counters
<1> HIDE DEF Good
<1>14. QED
  BY <1>5, <1>6, <1>7, <1>8, <1>9, <1>10, <1>11, <1>12, <1>13
  DEF Next, ReadInput

LEMMA LeakInit == Init => LeakInv
<1> SUFFICES ASSUME Init PROVE LeakInv
  OBVIOUS
<1>1. TypeInv
  BY InitType
<1>2. Leavers = {}
  BY DEF Init, Leavers
<1>3. QED
  BY <1>1, <1>2, FS_EmptySet DEF Init, LeakInv, Running, ExitLast

(* However often its datagrams are delivered, a client that said @ or #    *)
(* leaves no slot behind: each slot leaked is a datagram lost.             *)
THEOREM LeaksAreLossesHolds == Spec => []LeaksAreLosses
<1>1. LeakInv => LeaksAreLosses
  <2> SUFFICES ASSUME LeakInv, stops = 0
               PROVE  Cardinality({c \in Addr : /\ at[c] = "done"
                                                /\ Settled(c)
                                                /\ Registered(c)}) <= losses
    BY DEF LeaksAreLosses
  <2> DEFINE left == {c \in Addr : /\ at[c] = "done"
                                   /\ Settled(c)
                                   /\ Registered(c)}
  <2>1. left \subseteq Leavers
    BY DEF Settled, Leavers
  <2>2. IsFiniteSet(Leavers) /\ Cardinality(Leavers) \in Nat /\ losses \in Nat
    BY LeaversFinite, Queues DEF LeakInv
  <2>3. IsFiniteSet(left) /\ Cardinality(left) <= Cardinality(Leavers)
    BY <2>1, <2>2, FS_Subset
  <2>4. Cardinality(left) \in Nat
    BY <2>3, FS_CardinalityType
  <2>5. QED
    BY <2>2, <2>3, <2>4 DEF LeakInv, Undisturbed
<1>2. QED
  BY <1>1, LeakInit, LeakStep, PTL DEF Spec
-------------------------------------------------------------------------------
(* The order of the lines.                                                 *)

LEMMA HeadFirst ==
  ASSUME NEW S, NEW s \in Seq(S), s # <<>>
  PROVE  s = <<Head(s)>> \o Tail(s)
<1>1. Len(s) \in Nat \ {0} /\ Head(s) = s[1]
  BY EmptySeq, LenProperties
<1>2. SubSeq(s, 1, Len(s)) = <<s[1]>> \o SubSeq(s, 1 + 1, Len(s))
  BY <1>1, SubSeqRecursiveFirst
<1>3. SubSeq(s, 1, Len(s)) = s /\ Tail(s) = SubSeq(s, 2, Len(s)) /\ 1 + 1 = 2
  BY SubSeqFull, TailIsSubSeq
<1>4. QED
  BY <1>1, <1>2, <1>3

LEMMA TailOfConcat ==
  ASSUME NEW S, NEW s \in Seq(S), NEW t \in Seq(S), s # <<>>
  PROVE  /\ Head(s \o t) = Head(s)
         /\ Tail(s \o t) = Tail(s) \o t
<1> DEFINE h == <<Head(s)>>
<1>1. /\ s \o t \in Seq(S) /\ s \o t # <<>>
      /\ h \in Seq(S) /\ Tail(s) \in Seq(S)
  BY ConcatProperties, ConcatSimplifications, HeadTailProperties
<1>2. Head(s \o t) = Head(s)
  <2>1. Len(s) \in Nat \ {0} /\ Len(t) \in Nat
    BY EmptySeq, LenProperties
  <2>2. (s \o t)[1] = s[1]
    <3>1. 1 \in 1 .. Len(s) + Len(t) /\ 1 <= Len(s)
      BY <2>1
    <3>2. QED
      BY <3>1, ConcatProperties
  <2>3. QED
    BY <1>1, <2>2
<1>3. /\ s \o t = h \o Tail(s \o t)
      /\ s = h \o Tail(s)
  BY <1>1, <1>2, HeadFirst
<1>4. Tail(s \o t) \in Seq(S) /\ Tail(s) \o t \in Seq(S)
  BY <1>1, ConcatProperties, HeadTailProperties
<1> HIDE DEF h
<1>5. h \o Tail(s \o t) = h \o (Tail(s) \o t)
  BY <1>1, <1>3, ConcatAssociative
<1>6. Tail(s \o t) = Tail(s) \o t
  BY <1>1, <1>4, <1>5, ConcatSimplifications
<1>7. QED
  BY <1>2, <1>6

Splits(w, a, b) == w = a \o b

(* Lines in the buffer, those read() along and those left: the first one   *)
(* taken leaves the others in their order.                                 *)
LEMMA FirstTaken ==
  ASSUME NEW S, NEW s \in Seq(S), NEW t \in Seq(S), NEW u \in Seq(S),
         NEW v, Splits(v, t, u), s \o t # <<>>
  PROVE  Splits(Tail(s \o v), Tail(s \o t), u)
<1>1. v = t \o u
  BY DEF Splits
<1>2. (s \o t) \o u = s \o v
  <2>1. (s \o t) \o u = s \o (t \o u)
    BY ConcatAssociative
  <2>2. QED
    BY <1>1, <2>1
<1>3. s \o t \in Seq(S)
  BY ConcatProperties
<1>4. Tail((s \o t) \o u) = Tail(s \o t) \o u
  BY <1>3, TailOfConcat
<1>5. QED
  BY <1>2, <1>4 DEF Splits

(* While a client runs, the lines it still has to send are those in stdin's*)
(* buffer and, behind them, those that are not read.                       *)
TurnInv ==
  \A c \in Addr :
    /\ inTurn[c]
    /\ at[c] \in {"off", "on"} => owed[c] = stdio[c] \o keyboard[c]

LEMMA TypeTurn ==
  ASSUME TypeInv, TurnInv, NEW c \in Addr, Type(c)
  PROVE  TurnInv'
<1>1. /\ keyboard \in [Addr -> Seq(Text)] /\ stdio \in [Addr -> Seq(Text)]
      /\ owed \in [Addr -> Seq(Text)]
      /\ keyboard[c] \in Seq(Text) /\ stdio[c] \in Seq(Text)
  BY DEF TypeInv, TypeOK
<1>2. owed[c] = stdio[c] \o keyboard[c]
  BY DEF TurnInv, Type
<1>3. UNCHANGED <<at, stdio, inTurn>>
  BY DEF Type
<1>4. CASE UNCHANGED <<keyboard, owed>>
  BY <1>3, <1>4 DEF TurnInv
<1>5. CASE \E m \in Text : /\ keyboard' = [keyboard EXCEPT ![c] = Append(@, m)]
                           /\ owed' = [owed EXCEPT ![c] = Append(@, m)]
  <2>1. PICK m \in Text : /\ keyboard' = [keyboard EXCEPT ![c] = Append(@, m)]
                          /\ owed' = [owed EXCEPT ![c] = Append(@, m)]
    BY <1>5
  <2>2. stdio[c] \o Append(keyboard[c], m) = Append(stdio[c] \o keyboard[c], m)
    <3>1. <<m>> \in Seq(Text) /\ stdio[c] \o keyboard[c] \in Seq(Text)
      BY <1>1, ConcatProperties
    <3>2. /\ Append(keyboard[c], m) = keyboard[c] \o <<m>>
          /\ Append(stdio[c] \o keyboard[c], m) = (stdio[c] \o keyboard[c]) \o <<m>>
      BY <1>1, <3>1, AppendIsConcat
    <3>3. (stdio[c] \o keyboard[c]) \o <<m>> = stdio[c] \o (keyboard[c] \o <<m>>)
      BY <1>1, <3>1, ConcatAssociative
    <3>4. QED
      BY <3>2, <3>3
  <2>3. /\ keyboard'[c] = Append(keyboard[c], m) /\ owed'[c] = Append(owed[c], m)
        /\ \A d \in Addr : d # c => keyboard'[d] = keyboard[d] /\ owed'[d] = owed[d]
    BY <1>1, <2>1
  <2>4. owed'[c] = stdio[c] \o keyboard'[c]
    BY <1>2, <2>2, <2>3
  <2>5. QED
    BY <1>3, <2>3, <2>4 DEF TurnInv
<1>6. QED
  BY <1>4, <1>5 DEF Type

LEMMA SendTurn ==
  ASSUME TypeInv, TurnInv, NEW c \in Addr, SendLine(c)
  PROVE  TurnInv'
<1> DEFINE m == Head(stdio[c] \o keyboard[c])
<1>1. /\ at \in [Addr -> {"off", "on", "done", "gone", "failed"}]
      /\ keyboard \in [Addr -> Seq(Text)] /\ stdio \in [Addr -> Seq(Text)]
      /\ owed \in [Addr -> Seq(Text)] /\ inTurn \in [Addr -> BOOLEAN]
      /\ keyboard[c] \in Seq(Text) /\ stdio[c] \in Seq(Text)
  BY DEF TypeInv, TypeOK
<1>2. /\ owed[c] = stdio[c] \o keyboard[c] /\ owed[c] # <<>>
      /\ inTurn[c] /\ m = Head(owed[c])
  BY DEF TurnInv, SendLine, KeyboardReady
<1>3. Settle(c, m)
  BY DEF SendLine
<1>4. \A d \in Addr : inTurn'[d]
  <2>1. inTurn' = [inTurn EXCEPT ![c] = TRUE]
    BY <1>2, <1>3 DEF Settle
  <2>2. \A d \in Addr : inTurn[d]
    BY DEF TurnInv
  <2>3. QED
    BY <1>1, <2>1, <2>2
<1>5. \A d \in Addr : d # c => owed'[d] = owed[d]
  BY <1>1, <1>3 DEF Settle
<1>6. CASE m \in Exits
  <2>1. Ends(c, "done")
    BY <1>6 DEF SendLine
  <2>2. /\ at'[c] = "done"
        /\ \A d \in Addr : d # c => /\ at'[d] = at[d] /\ stdio'[d] = stdio[d]
                                    /\ keyboard'[d] = keyboard[d]
    BY <1>1, <2>1 DEF Ends
  <2>3. QED
    BY <1>4, <1>5, <2>2 DEF TurnInv
<1>7. CASE m \notin Exits
  <2>1. PICK n \in Fills(c) : Fgets(c, n)
    BY <1>7 DEF SendLine
  <2>2. UNCHANGED at
    BY <1>7 DEF SendLine
  <2> DEFINE k1 == SubSeq(keyboard[c], 1, n)
             k2 == SubSeq(keyboard[c], n + 1, Len(keyboard[c]))
  <2>3. /\ n \in 0..Len(keyboard[c])
        /\ stdio[c] = <<>> => n >= 1
    <3>1. CASE stdio[c] # <<>>
      BY <1>1, <2>1, <3>1 DEF Fills
    <3>2. CASE stdio[c] = <<>>
      <4>1. keyboard[c] # <<>>
        BY <1>1, <1>2, <3>2
      <4>2. QED
        BY <1>1, <2>1, <3>2, <4>1 DEF Fills
    <3>3. QED
      BY <3>1, <3>2
  <2>4. k1 \in Seq(Text) /\ k2 \in Seq(Text) /\ Len(k1) = n
    BY <1>1, <2>3
  <2>5. Splits(keyboard[c], k1, k2)
    <3>1. /\ 1 \in 1 .. Len(keyboard[c]) + 1
          /\ n \in 1 - 1 .. Len(keyboard[c])
          /\ Len(keyboard[c]) \in n .. Len(keyboard[c])
      BY <1>1, <2>3, LenProperties
    <3>2. SubSeq(keyboard[c], 1, n) \o SubSeq(keyboard[c], n + 1, Len(keyboard[c]))
            = SubSeq(keyboard[c], 1, Len(keyboard[c]))
      BY <1>1, <3>1, ConcatAdjacentSubSeq
    <3>3. QED
      BY <1>1, <3>2, SubSeqFull DEF Splits
  <2>6. /\ keyboard'[c] = k2 /\ stdio'[c] = Tail(stdio[c] \o k1)
        /\ \A d \in Addr : d # c => /\ stdio'[d] = stdio[d]
                                    /\ keyboard'[d] = keyboard[d]
    BY <1>1, <2>1 DEF Fgets
  <2>7. owed'[c] = Tail(owed[c])
    BY <1>1, <1>2, <1>3, <1>7 DEF Settle
  <2> HIDE DEF k1, k2, m
  <2>8. stdio[c] \o k1 \in Seq(Text) /\ stdio[c] \o k1 # <<>>
    <3>1. stdio[c] \o k1 \in Seq(Text)
      BY <1>1, <2>4, ConcatProperties
    <3>2. CASE stdio[c] # <<>>
      BY <1>1, <2>4, <3>2, ConcatSimplifications
    <3>3. CASE stdio[c] = <<>>
      <4>1. k1 # <<>>
        <5>1. Len(<<>>) = 0 /\ n # 0
          BY <2>3, <3>3
        <5>2. QED
          BY <2>4, <5>1
      <4>2. QED
        BY <1>1, <2>4, <4>1, ConcatSimplifications
    <3>4. QED
      BY <3>1, <3>2, <3>3
  <2>9. Splits(Tail(owed[c]), Tail(stdio[c] \o k1), k2)
    BY <1>1, <1>2, <2>4, <2>5, <2>8, FirstTaken
  <2>10. owed'[c] = stdio'[c] \o keyboard'[c]
    BY <2>6, <2>7, <2>9 DEF Splits
  <2>11. QED
    BY <1>4, <1>5, <2>2, <2>6, <2>10 DEF TurnInv
<1>8. QED
  BY <1>6, <1>7

LEMMA TurnStep == TypeInv /\ TurnInv /\ [Next]_vars => TurnInv'
<1> SUFFICES ASSUME TypeInv, TurnInv, [Next]_vars PROVE TurnInv'
  OBVIOUS
<1>1. ASSUME UNCHANGED <<stdio, keyboard, owed, inTurn>>,
             \A c \in Addr : at[c] = at'[c] \/ at[c] = "off"
      PROVE  TurnInv'
  BY <1>1 DEF TurnInv
<1>2. ASSUME NEW c \in Addr, NEW how \in {"gone", "failed"}, Ends(c, how),
             UNCHANGED <<owed, inTurn>>
      PROVE  TurnInv'
  <2>1. /\ at \in [Addr -> {"off", "on", "done", "gone", "failed"}]
        /\ keyboard \in [Addr -> Seq(Text)] /\ stdio \in [Addr -> Seq(Text)]
    BY DEF TypeInv, TypeOK
  <2>2. /\ at'[c] = how
        /\ \A d \in Addr : d # c => /\ at'[d] = at[d] /\ stdio'[d] = stdio[d]
                                    /\ keyboard'[d] = keyboard[d]
    BY <1>2, <2>1 DEF Ends
  <2>3. QED
    BY <1>2, <2>2 DEF TurnInv
<1>3. ASSUME NEW c \in Addr, Launch(c) PROVE TurnInv'
  <2>1. UNCHANGED <<stdio, keyboard, owed, inTurn>>
    BY <1>3 DEF Launch, inputVars
  <2>2. \A d \in Addr : at[d] = at'[d] \/ at[d] = "off"
    BY <1>3 DEF Launch, TypeInv, TypeOK
  <2>3. QED
    BY <1>1, <2>1, <2>2
<1>4. ASSUME NEW c \in Addr, Receive(c) \/ Hear(c) \/ Lose(c) \/ Duplicate(c) \/ Discard(c)
      PROVE  TurnInv'
  <2>1. UNCHANGED <<at, stdio, keyboard, owed, inTurn>>
    BY <1>4 DEF Receive, Hear, Lose, Duplicate, Discard, clientVars, inputVars
  <2>2. QED
    BY <1>1, <2>1
<1>5. CASE Exit \/ Signal \/ Crash \/ Start \/ UNCHANGED vars
  <2>1. UNCHANGED <<at, stdio, keyboard, owed, inTurn>>
    BY <1>5 DEF Exit, Signal, Crash, Start, vars, clientVars, inputVars
  <2>2. QED
    BY <1>1, <2>1
<1>6. ASSUME NEW c \in Addr, EndOfInput(c) \/ Vanish(c) PROVE TurnInv'
  <2>1. PICK how \in {"gone", "failed"} : Ends(c, how) /\ UNCHANGED <<owed, inTurn>>
    BY <1>6 DEF EndOfInput, Vanish
  <2>2. QED
    BY <1>2, <2>1
<1>7. QED
  BY <1>3, <1>4, <1>5, <1>6, TypeTurn, SendTurn DEF Next, ReadInput

LEMMA InitTurn == Init => TurnInv
<1> SUFFICES ASSUME Init PROVE TurnInv
  OBVIOUS
<1>1. <<>> \o <<>> = <<>>
  OBVIOUS
<1>2. QED
  BY <1>1 DEF Init, TurnInv

(* What InputDrains says of the order, for any number of lines and however *)
(* a read() cuts them: each line a client sends is the next one typed, and *)
(* what it has not sent of them is in stdin's buffer and before it         *)
(* (HW4/client.c:167-190).                                                 *)
THEOREM LinesInTurn ==
  Spec => [](\A c \in Addr :
               /\ inTurn[c]
               /\ at[c] = "on" => owed[c] = stdio[c] \o keyboard[c])
<1>1. TurnInv => \A c \in Addr :
                   /\ inTurn[c]
                   /\ at[c] = "on" => owed[c] = stdio[c] \o keyboard[c]
  BY DEF TurnInv
<1>2. QED
  BY <1>1, InitType, NextType, InitTurn, TurnStep, PTL DEF Spec
================================================================================
