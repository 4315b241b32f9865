--------------------------- MODULE ChatProofs --------------------------------
(***************************************************************************)
(* Theorems about the HW4_ver2 chat server, alone and with its clients and *)
(* the network, for any set of endpoints and of lines.                     *)
(***************************************************************************)
EXTENDS ChatSystem, DataFacts

(* The inductive invariant: the slot `1 - idx` is another client's only    *)
(* because no client holds both slots, and a text that was sent stays      *)
(* explained until the next datagram is handled.                           *)
ChatInv ==
  /\ TypeOK
  /\ OneSlotPerClient
  /\ RelayedToPeer

(* Least picks a member of any nonempty set of slots. *)
LEMMA LeastIn ==
  ASSUME NEW S, S \subseteq Slots, S # {}
  PROVE  Least(S) \in S
<1>1. \E i \in S : \A j \in S : i <= j
  <2>1. CASE 0 \in S
    BY <2>1 DEF Slots, MAX_CLIENTS
  <2>2. CASE 0 \notin S
    <3>1. \A i \in S : i = 1
      BY <2>2 DEF Slots, MAX_CLIENTS
    <3>2. QED
      BY <3>1
  <2>3. QED
    BY <2>1, <2>2
<1>2. QED
  BY <1>1 DEF Least

(* The slot that is used for a registered client, and the other one. *)
LEMMA SlotOfClient ==
  ASSUME NEW a, Registered(a)
  PROVE  /\ find_slot(a) \in Slots
         /\ slots[find_slot(a)].active
         /\ slots[find_slot(a)].addr = a
         /\ Other(find_slot(a)) \in Slots
         /\ Other(find_slot(a)) # find_slot(a)
<1>1. find_slot(a) \in Holds(a)
  BY LeastIn DEF Registered, find_slot, Holds
<1>2. QED
  BY <1>1 DEF Holds, Other, Slots, MAX_CLIENTS

LEMMA ChatInit == ServerInit => ChatInv
BY DEF ServerInit, ChatInv, TypeOK, OneSlotPerClient, RelayedToPeer, Places,
       NoSlots, slot_t

(* A step that changes no slot and sends nothing but notices to clients. *)
LEMMA SlotsUnchanged ==
  ASSUME ChatInv, UNCHANGED slots,
         pc' = "test", running' \in BOOLEAN, sent' \in Answer \cup {Nothing},
         sent' # Nothing => sent'.kind # "text"
  PROVE  ChatInv'
BY DEF ChatInv, TypeOK, OneSlotPerClient, RelayedToPeer, Places

LEMMA HandleInv ==
  ASSUME ChatInv, NEW a \in Addr, NEW m \in Text, Handle(a, m)
  PROVE  ChatInv'
<1> USE DEF ChatInv
<1>0. pc' = "test" /\ running' \in BOOLEAN
  BY DEF Handle, Register, Full, NotConnected, Ignore, Leave, Invalid, Relay,
         NoPeer, Received, TypeOK
<1>1. CASE Register(a, m)
  <2>1. Least(Free) \in Slots /\ ~slots[Least(Free)].active
    BY <1>1, LeastIn DEF Register, Free
  <2>2. \A i \in Slots : slots[i].active => slots[i].addr # a
    BY <1>1 DEF Register, Registered, Holds
  <2>3. /\ slots' = [slots EXCEPT ![Least(Free)] = [active |-> TRUE, addr |-> a]]
        /\ sent' = Nothing
    BY <1>1 DEF Register
  <2>4. TypeOK'
    BY <1>0, <2>1, <2>3 DEF TypeOK, slot_t, Places
  <2>5. OneSlotPerClient'
    BY <2>1, <2>2, <2>3 DEF TypeOK, OneSlotPerClient
  <2>6. RelayedToPeer'
    BY <2>3 DEF RelayedToPeer
  <2>7. QED
    BY <2>4, <2>5, <2>6
<1>2. CASE Leave(a, m)
  <2>1. find_slot(a) \in Slots /\ Other(find_slot(a)) \in Slots
    BY <1>2, SlotOfClient DEF Leave
  <2>2. slots' = [slots EXCEPT ![find_slot(a)].active = FALSE]
    BY <1>2 DEF Leave
  <2>3. /\ sent' \in Answer \cup {Nothing}
        /\ sent' # Nothing => sent'.kind # "text"
    <3> DEFINE peer == slots[Other(find_slot(a))]
    <3>1. peer.active => peer.addr \in Addr
      BY <2>1 DEF TypeOK
    <3>2. IF peer.active
            THEN sent' = [to |-> peer.addr, kind |-> "peer left", from |-> NoAddr]
            ELSE sent' = Nothing
      BY <1>2 DEF Leave, send_text
    <3> HIDE DEF peer
    <3>3. CASE peer.active
      <4>1. sent' = [to |-> peer.addr, kind |-> "peer left", from |-> NoAddr]
        BY <3>2, <3>3
      <4>2. QED
        BY <3>1, <3>3, <4>1 DEF Answer, AnswerKind
    <3>4. QED
      BY <3>2, <3>3
  <2>4. TypeOK'
    BY <1>0, <2>1, <2>2, <2>3 DEF TypeOK, slot_t, Places
  <2>5. OneSlotPerClient'
    BY <2>1, <2>2 DEF TypeOK, OneSlotPerClient
  <2>6. RelayedToPeer'
    BY <2>3 DEF RelayedToPeer
  <2>7. QED
    BY <2>4, <2>5, <2>6
<1>3. CASE Relay(a, m)
  <2>1. PICK i \in Slots, j \in Slots :
          /\ i = find_slot(a) /\ j = Other(i) /\ j # i
          /\ slots[i].active /\ slots[i].addr = a /\ slots[j].active
    BY <1>3, SlotOfClient DEF Relay
  <2>2. PICK b \in Addr : b = slots[j].addr /\ b # a
    BY <2>1 DEF TypeOK, OneSlotPerClient
  <2>3. slots' = slots /\ sent' = [to |-> b, kind |-> "text", from |-> a]
    BY <1>3, <2>1, <2>2 DEF Relay, send_text
  <2>4. TypeOK' /\ OneSlotPerClient'
    BY <1>0, <2>3 DEF TypeOK, OneSlotPerClient, Answer, AnswerKind, Places
  <2>5. Registered(a)' /\ Registered(b)'
    <3>1. i \in Holds(a)' /\ j \in Holds(b)'
      BY <2>1, <2>2, <2>3 DEF Holds
    <3>2. QED
      BY <3>1 DEF Registered
  <2>6. RelayedToPeer'
    <3>1. sent'.to = b /\ sent'.from = a
      BY <2>3
    <3>2. Registered(sent.to)' /\ Registered(sent.from)'
      BY <2>5, <3>1 DEF Registered, Holds
    <3>3. QED
      BY <2>2, <3>1, <3>2 DEF RelayedToPeer
  <2>7. QED
    BY <2>4, <2>6
<1>4. CASE Full(a, m) \/ NotConnected(a, m) \/ Invalid(a, m) \/ NoPeer(a, m)
  <2>1. /\ UNCHANGED slots
        /\ sent' \in Answer
        /\ sent'.kind # "text"
    <3>1. /\ UNCHANGED slots
          /\ \E k \in {"full", "not connected", "invalid", "no peer"} :
               sent' = [to |-> a, kind |-> k, from |-> NoAddr]
      BY <1>4 DEF Full, NotConnected, Invalid, NoPeer, send_text
    <3>2. PICK k \in {"full", "not connected", "invalid", "no peer"} :
            sent' = [to |-> a, kind |-> k, from |-> NoAddr]
      BY <3>1
    <3>3. k \in AnswerKind /\ k # "text"
      BY DEF AnswerKind
    <3>4. sent' \in Answer
      BY <3>2, <3>3 DEF Answer
    <3>5. QED
      BY <3>1, <3>2, <3>3, <3>4
  <2>2. QED
    BY <1>0, <2>1, SlotsUnchanged
<1>5. CASE Ignore(a, m)
  BY <1>0, <1>5, SlotsUnchanged DEF Ignore
<1>6. QED
  BY <1>1, <1>2, <1>3, <1>4, <1>5 DEF Handle

LEMMA ChatStep == ChatInv /\ [ServerNext]_serverVars => ChatInv'
<1> SUFFICES ASSUME ChatInv, [ServerNext]_serverVars PROVE ChatInv'
  OBVIOUS
<1>h. ASSUME slots' = NoSlots, sent' = Nothing, pc' \in Places,
             running' \in BOOLEAN
      PROVE  ChatInv'
  BY <1>h DEF ChatInv, TypeOK, OneSlotPerClient, RelayedToPeer, NoSlots, slot_t
<1>s. ASSUME UNCHANGED <<slots, sent>>, pc' \in Places, running' \in BOOLEAN,
             pc' = "down" => pc = "down"
      PROVE  ChatInv'
  BY <1>s DEF ChatInv, TypeOK, OneSlotPerClient, RelayedToPeer, Registered, Holds
<1>1. CASE \E a \in Addr, m \in Text : Handle(a, m)
  BY <1>1, HandleInv
<1>2. CASE Test
  BY <1>2, <1>h, <1>s DEF Test, Halt, Places, ChatInv, TypeOK
<1>3. CASE Block
  BY <1>3, <1>s DEF Block, Places, ChatInv, TypeOK
<1>4. CASE on_signal
  BY <1>4, <1>s DEF on_signal, Places, ChatInv, TypeOK
<1>5. CASE ReceiveFails
  BY <1>5, <1>s DEF ReceiveFails, Received, Places, ChatInv, TypeOK
<1>6. CASE Crash \/ Start
  BY <1>6, <1>h DEF Crash, Start, Halt, Places
<1>7. CASE UNCHANGED serverVars
  BY <1>7, <1>s DEF serverVars, ChatInv, TypeOK
<1>8. QED
  BY <1>1, <1>2, <1>3, <1>4, <1>5, <1>6, <1>7 DEF ServerNext

(* The inductive invariant holds in every reachable state. *)
THEOREM ChatInvariant == ServerSpec => []ChatInv
BY ChatInit, ChatStep, PTL DEF ServerSpec

(* The server's state and its datagrams are well typed. *)
THEOREM ChatTypeCorrect == ServerSpec => []TypeOK
<1>1. ChatInv => TypeOK
  BY DEF ChatInv
<1>2. QED
  BY ChatInvariant, <1>1, PTL

(* find_slot() before find_free_slot() in main() keeps a client from       *)
(* holding both slots.                                                     *)
THEOREM ChatOneSlot == ServerSpec => []OneSlotPerClient
<1>1. ChatInv => OneSlotPerClient
  BY DEF ChatInv
<1>2. QED
  BY ChatInvariant, <1>1, PTL

(* The text of a client is sent to the other registered client only. *)
THEOREM ChatRelayedToPeer == ServerSpec => []RelayedToPeer
<1>1. ChatInv => RelayedToPeer
  BY DEF ChatInv
<1>2. QED
  BY ChatInvariant, <1>1, PTL

(* With both slots taken, a step that leaves the server up changes the     *)
(* table only by freeing one slot.                                         *)
THEOREM ChatPairIsClosed == ServerSpec => PairIsClosed
<1> DEFINE Closed ==
      Free = {} /\ pc' # "down" =>
        \A i \in Slots :
          slots'[i] # slots[i] =>
            /\ ~slots'[i].active
            /\ slots'[Other(i)] = slots[Other(i)]
<1>1. TypeOK /\ [ServerNext]_serverVars => [Closed]_serverVars
  <2> SUFFICES ASSUME TypeOK, ServerNext, Free = {}, pc' # "down",
                      NEW i \in Slots, slots'[i] # slots[i]
               PROVE  /\ ~slots'[i].active
                      /\ slots'[Other(i)] = slots[Other(i)]
    OBVIOUS
  <2>1. \A k \in Slots : slots[k].active
    BY DEF Free
  <2>2. PICK a \in Addr, m \in Text : Leave(a, m)
    <3>1. pc # "down"
      BY <2>1 DEF TypeOK, NoSlots, Slots, MAX_CLIENTS
    <3>2. QED
      BY <3>1 DEF ServerNext, Handle, Register, Full, NotConnected, Ignore,
             Invalid, Relay, NoPeer, Test, Block, on_signal, ReceiveFails,
             Crash, Halt, Start
  <2>3. find_slot(a) \in Slots
    BY <2>2, SlotOfClient DEF Leave
  <2>4. slots' = [slots EXCEPT ![find_slot(a)].active = FALSE]
    BY <2>2 DEF Leave
  <2>5. QED
    BY <2>3, <2>4 DEF TypeOK, slot_t, Other, Slots, MAX_CLIENTS
<1>2. QED
  BY ChatTypeCorrect, <1>1, PTL DEF ServerSpec, PairIsClosed

-------------------------------------------------------------------------------
(* The slots implement a pair: every step of the server is a step of Pair, *)
(* or a stutter, under the substitution of PairOf.                         *)

Members == {a \in Addr : Registered(a)}

IsText == sent # Nothing /\ sent.kind = "text"

Heard == IF IsText THEN <<sent.from, sent.to>> ELSE Nothing

(* Whoever is registered holds a slot. *)
LEMMA MemberSlot ==
  \A a : a \in Members <=>
    a \in Addr /\ \E i \in Slots : slots[i].active /\ slots[i].addr = a
BY DEF Members, Registered, Holds

(* A step that changes no slot and relays nothing is a Hush of the pair. *)
LEMMA HushStep ==
  ASSUME UNCHANGED slots, ~IsText'
  PROVE  Members' = Members /\ Heard' = Nothing
BY DEF Members, Registered, Holds, Heard

(* A CONNECT that finds a free slot adds its sender to at most one other. *)
LEMMA JoinStep ==
  ASSUME ChatInv, NEW a \in Addr, NEW m \in Text, Register(a, m)
  PROVE  /\ a \in Addr \ Members
         /\ \A b, c \in Members : b = c
         /\ Members' = Members \cup {a}
         /\ Heard' = Nothing
<1>1. PICK f \in Slots : f = Least(Free) /\ ~slots[f].active
  BY LeastIn DEF Register, Free
<1>2. slots' = [slots EXCEPT ![f] = [active |-> TRUE, addr |-> a]]
  BY <1>1 DEF Register
<1>3. a \in Addr \ Members
  BY DEF Register, Members
<1>4. \A b, c \in Members : b = c
  BY <1>1, MemberSlot DEF Slots, MAX_CLIENTS
<1>5. Members' = Members \cup {a}
  <2>1. slots \in [Slots -> slot_t]
    BY DEF ChatInv, TypeOK
  <2>2. /\ slots'[f].active /\ slots'[f].addr = a
        /\ \A i \in Slots \ {f} : slots'[i] = slots[i]
    BY <1>1, <1>2, <2>1
  <2>3. \A b : b \in Members' <=>
          b \in Addr /\ \E i \in Slots : slots'[i].active /\ slots'[i].addr = b
    BY DEF Members, Registered, Holds
  <2>4. \A b : b \in Members' <=> b \in Members \cup {a}
    BY <1>1, <2>2, <2>3, MemberSlot
  <2>5. QED
    BY <2>4
<1>6. Heard' = Nothing
  BY DEF Register, Heard, IsText
<1>7. QED
  BY <1>3, <1>4, <1>5, <1>6

(* An exit token removes its sender, and only it, because the sender holds *)
(* no second slot.                                                         *)
LEMMA LeaveStep ==
  ASSUME ChatInv, NEW a \in Addr, NEW m \in Text, Leave(a, m)
  PROVE  /\ a \in Members
         /\ Members' = Members \ {a}
         /\ Heard' = Nothing
<1>1. PICK f \in Slots :
        f = find_slot(a) /\ slots[f].active /\ slots[f].addr = a
  BY SlotOfClient DEF Leave
<1>2. slots' = [slots EXCEPT ![f].active = FALSE]
  BY <1>1 DEF Leave
<1>3. a \in Members
  BY DEF Leave, Members
<1>4. Members' = Members \ {a}
  <2>1. slots \in [Slots -> slot_t]
    BY DEF ChatInv, TypeOK
  <2>2. /\ ~slots'[f].active
        /\ \A i \in Slots \ {f} : slots'[i] = slots[i]
    BY <1>1, <1>2, <2>1 DEF slot_t
  <2>3. \A b : b \in Members' <=>
          b \in Addr /\ \E i \in Slots : slots'[i].active /\ slots'[i].addr = b
    BY DEF Members, Registered, Holds
  <2>4. \A i \in Slots \ {f} : slots[i].active => slots[i].addr # a
    BY <1>1 DEF ChatInv, OneSlotPerClient
  <2>5. \A b : b \in Members' <=> b \in Members \ {a}
    BY <1>1, <2>2, <2>3, <2>4, MemberSlot
  <2>6. QED
    BY <2>5
<1>5. Heard' = Nothing
  <2>1. CASE sent' = Nothing
    BY <2>1 DEF Heard, IsText
  <2>2. CASE sent' # Nothing
    <3>1. sent' = [to |-> slots[Other(f)].addr, kind |-> "peer left",
                   from |-> NoAddr]
      BY <1>1, <2>2 DEF Leave, send_text
    <3>2. QED
      BY <3>1 DEF Heard, IsText
  <2>3. QED
    BY <2>1, <2>2
<1>6. QED
  BY <1>3, <1>4, <1>5

(* A relayed text goes from one member to the other. *)
LEMMA SayStep ==
  ASSUME ChatInv, NEW a \in Addr, NEW m \in Text, Relay(a, m)
  PROVE  /\ Members' = Members
         /\ \/ Heard' = Nothing
            \/ \E b \in Members \ {a} : a \in Members /\ Heard' = <<a, b>>
<1>1. PICK i \in Slots, j \in Slots :
        /\ i = find_slot(a) /\ j = Other(i) /\ j # i
        /\ slots[i].active /\ slots[i].addr = a /\ slots[j].active
  BY SlotOfClient DEF Relay
<1>2. slots[j].addr \in Addr /\ slots[j].addr # a
  BY <1>1 DEF ChatInv, TypeOK, OneSlotPerClient
<1>3. /\ slots' = slots
      /\ sent' = [to |-> slots[j].addr, kind |-> "text", from |-> a]
  BY <1>1 DEF Relay, send_text
<1>4. Members' = Members
  BY <1>3 DEF Members, Registered, Holds
<1>5. a \in Members /\ slots[j].addr \in Members
  BY <1>1, <1>2, MemberSlot
<1>6. Heard' = Nothing \/ Heard' = <<a, slots[j].addr>>
  BY <1>3 DEF Heard, IsText
<1>7. QED
  BY <1>2, <1>4, <1>5, <1>6

(* Every step of the server is one of the pair, or leaves it alone. *)
LEMMA PairStep ==
  ASSUME ChatInv, [ServerNext]_serverVars
  PROVE  [PairOf!Next]_(PairOf!vars)
<1> USE DEF PairOf!Next, PairOf!Join, PairOf!Leave, PairOf!Say, PairOf!Hush,
            PairOf!Forget, PairOf!vars
<1>a. /\ {a \in Addr : Registered(a)} = Members
      /\ ({a \in Addr : Registered(a)})' = Members'
      /\ (IF sent # Nothing /\ sent.kind = "text"
            THEN <<sent.from, sent.to>> ELSE Nothing) = Heard
      /\ (IF sent # Nothing /\ sent.kind = "text"
            THEN <<sent.from, sent.to>> ELSE Nothing)' = Heard'
  BY DEF Members, Heard, IsText
<1>h. ASSUME slots' = NoSlots, sent' = Nothing
      PROVE  Members' = {} /\ Heard' = Nothing
  BY <1>h DEF NoSlots, Members, Registered, Holds, Heard, IsText
<1>s. ASSUME UNCHANGED <<slots, sent>>
      PROVE  Members' = Members /\ Heard' = Heard
  BY <1>s DEF Members, Registered, Holds, Heard, IsText
<1>1. ASSUME NEW a \in Addr, NEW m \in Text, Handle(a, m)
      PROVE  PairOf!Next
  <2>1. CASE Register(a, m)
    BY <2>1, <1>a, JoinStep
  <2>2. CASE Leave(a, m)
    BY <2>2, <1>a, LeaveStep
  <2>3. CASE Relay(a, m)
    BY <2>3, <1>a, SayStep
  <2>4. CASE Full(a, m) \/ NotConnected(a, m) \/ Invalid(a, m) \/ NoPeer(a, m)
    <3>1. /\ UNCHANGED slots
          /\ \E k \in {"full", "not connected", "invalid", "no peer"} :
               sent' = [to |-> a, kind |-> k, from |-> NoAddr]
      BY <2>4 DEF Full, NotConnected, Invalid, NoPeer, send_text
    <3>2. PICK k \in {"full", "not connected", "invalid", "no peer"} :
            sent' = [to |-> a, kind |-> k, from |-> NoAddr]
      BY <3>1
    <3>3. k # "text"
      OBVIOUS
    <3>4. sent'.kind = k
      BY <3>2
    <3>5. ~IsText'
      BY <3>3, <3>4 DEF IsText
    <3>6. QED
      BY <3>1, <3>5, <1>a, HushStep
  <2>5. CASE Ignore(a, m)
    <3>1. UNCHANGED slots /\ ~IsText'
      BY <2>5 DEF Ignore, IsText
    <3>2. QED
      BY <3>1, <1>a, HushStep
  <2>6. QED
    BY <1>1, <2>1, <2>2, <2>3, <2>4, <2>5 DEF Handle
<1>2. CASE Test
  BY <1>2, <1>a, <1>h, <1>s DEF Test, Halt
<1>3. CASE Block \/ on_signal \/ ReceiveFails \/ UNCHANGED serverVars
  BY <1>3, <1>a, <1>s DEF Block, on_signal, ReceiveFails, serverVars
<1>4. CASE Crash \/ Start
  BY <1>4, <1>a, <1>h DEF Crash, Start, Halt
<1>5. QED
  BY <1>1, <1>2, <1>3, <1>4 DEF ServerNext

LEMMA PairInit == ServerInit => PairOf!Init
BY DEF ServerInit, PairOf!Init, NoSlots, Registered, Holds

(* The server implements the pair: whatever the clients send and repeat,   *)
(* and however often it is signalled, crashes and starts again, a text is  *)
(* relayed between the two members of the conversation only.               *)
THEOREM ChatPairPolicy == ServerSpec => PairPolicy
<1>1. ChatInv /\ [ServerNext]_serverVars => [PairOf!Next]_(PairOf!vars)
  BY PairStep
<1>2. QED
  BY <1>1, PairInit, ChatInvariant, PTL DEF ServerSpec, PairPolicy, PairOf!Spec

-------------------------------------------------------------------------------
(* The server with its clients and the network.                            *)

SystemType ==
  /\ at \in [Addr -> Stages]
  /\ refused \in [Addr -> BOOLEAN]
  /\ screen \in [Addr -> Addr \cup {NoAddr}]
  /\ toServer \in [Addr -> Seq(Text)]
  /\ toClient \in [Addr -> Seq(Answer)]
  /\ {losses, dups, stops} \subseteq Nat

(* A server that nothing has stopped is up, so that no datagram to it is   *)
(* refused.                                                                *)
Steady ==
  Undisturbed => pc # "down" /\ running /\ \A c \in Addr : ~refused[c]

SystemBase == ChatInv /\ SystemType /\ Steady

LEMMA HeadIsText ==
  ASSUME SystemType, NEW a \in Addr, toServer[a] # <<>>
  PROVE  toServer[a] \in Seq(Text) /\ Head(toServer[a]) \in Text
<1>1. toServer[a] \in Seq(Text)
  BY DEF SystemType
<1>2. QED
  BY <1>1, ContentsTail

(* What the clients and the network do leaves the server as it is, and the *)
(* server takes its own steps in the system.                               *)
LEMMA ServerPart ==
  ASSUME SystemType, [SystemNext]_systemVars
  PROVE  [ServerNext]_serverVars
<1>1. ASSUME NEW a \in Addr, ServerStep(a) PROVE ServerNext
  <2>1. Head(toServer[a]) \in Text
    BY <1>1, HeadIsText DEF ServerStep
  <2>2. QED
    BY <1>1, <2>1 DEF ServerStep, ServerNext
<1>2. CASE LoopStep \/ SignalStep \/ CrashStep \/ StartStep
  BY <1>2 DEF LoopStep, SignalStep, CrashStep, StartStep, ServerNext
<1>3. ASSUME NEW a \in Addr,
             ClientStep(a) \/ Lose(a) \/ Refuse(a) \/ Discard(a) \/ Duplicate(a)
      PROVE  UNCHANGED serverVars
  BY <1>3 DEF ClientStep, Lose, Refuse, Discard, Duplicate
<1>4. QED
  BY <1>1, <1>2, <1>3 DEF SystemNext, systemVars

(* The queues, in a step that takes from one or adds to one. *)
LEMMA QueueTypes ==
  ASSUME SystemType, NEW a \in Addr
  PROVE  /\ \A m \in Text : Append(toServer[a], m) \in Seq(Text)
         /\ toServer[a] # <<>> =>
              /\ Tail(toServer[a]) \in Seq(Text)
              /\ <<Head(toServer[a])>> \o toServer[a] \in Seq(Text)
         /\ \A e \in Answer : Append(toClient[a], e) \in Seq(Answer)
         /\ toClient[a] # <<>> =>
              /\ Head(toClient[a]) \in Answer
              /\ Tail(toClient[a]) \in Seq(Answer)
<1>1. toServer[a] \in Seq(Text) /\ toClient[a] \in Seq(Answer)
  BY DEF SystemType
<1>2. QED
  BY <1>1, ContentsTail, ContentsAppend, ContentsRepeat

LEMMA SendType ==
  ASSUME SystemType, NEW a \in Addr, NEW m \in Text, send_msg(a, m)
  PROVE  /\ refused' \in [Addr -> BOOLEAN]
         /\ toServer' \in [Addr -> Seq(Text)]
BY QueueTypes DEF send_msg, SystemType

LEMMA ClientType ==
  ASSUME SystemType, NEW a \in Addr, ClientStep(a)
  PROVE  SystemType'
<1>0. UNCHANGED <<losses, dups, stops>>
  BY DEF ClientStep, counters
<1>1. CASE Launch(a)
  <2>1. send_msg(a, Connect) /\ Connect \in Text
    BY <1>1, TextAssumption DEF Launch
  <2>2. QED
    BY <1>0, <1>1, <2>1, SendType DEF Launch, Go, Stages, SystemType
<1>2. CASE Hear(a)
  <2>1. Head(toClient[a]) \in Answer /\ Tail(toClient[a]) \in Seq(Answer)
    BY <1>2, QueueTypes DEF Hear
  <2>2. Shown(a, Head(toClient[a])) \in Addr \cup {NoAddr}
    BY <2>1 DEF Shown, Answer, SystemType
  <2>3. QED
    BY <1>0, <1>2, <2>1, <2>2 DEF Hear, Go, Stages, SystemType
<1>3. CASE HearRefusal(a)
  BY <1>0, <1>3 DEF HearRefusal, Go, Stages, SystemType
<1>4. ASSUME NEW m \in Text, TypeLine(a, m) \/ TypeExit(a, m)
      PROVE  SystemType'
  <2>1. send_msg(a, m)
    BY <1>4 DEF TypeLine, TypeExit
  <2>2. QED
    BY <1>0, <1>4, <2>1, SendType DEF TypeLine, TypeExit, Go, Stages, SystemType
<1>5. CASE Kill(a)
  BY <1>0, <1>5 DEF Kill, Go, Stages, SystemType
<1>6. QED
  BY <1>1, <1>2, <1>3, <1>4, <1>5 DEF ClientStep, ClientNext

LEMMA ServerStepType ==
  ASSUME ChatInv', SystemType, NEW a \in Addr, ServerStep(a)
  PROVE  SystemType'
<1>1. sent' # Nothing => sent' \in Answer /\ sent'.to \in Addr
  BY DEF ChatInv, TypeOK, Answer
<1>2. toClient' \in [Addr -> Seq(Answer)]
  <2>1. CASE sent' = Nothing
    BY <2>1 DEF ServerStep, SystemType
  <2>2. CASE sent' # Nothing
    <3>1. toClient' = [toClient EXCEPT ![sent'.to] = Append(@, sent')]
      BY <2>2 DEF ServerStep
    <3>2. Append(toClient[sent'.to], sent') \in Seq(Answer)
      BY <1>1, <2>2, QueueTypes
    <3>3. QED
      BY <3>1, <3>2 DEF SystemType
  <2>3. QED
    BY <2>1, <2>2
<1>3. Tail(toServer[a]) \in Seq(Text)
  BY QueueTypes DEF ServerStep
<1>4. QED
  BY <1>2, <1>3 DEF ServerStep, Take, counters, SystemType

LEMMA NetworkType ==
  ASSUME SystemType, NEW a \in Addr,
         Lose(a) \/ Refuse(a) \/ Discard(a) \/ Duplicate(a)
  PROVE  SystemType'
<1>1. CASE Lose(a)
  <2>1. UNCHANGED <<at, refused, screen, dups, stops>> /\ losses' \in Nat
    BY <1>1 DEF Lose, SystemType
  <2>2. /\ toServer' \in [Addr -> Seq(Text)]
        /\ toClient' \in [Addr -> Seq(Answer)]
    BY <1>1, QueueTypes DEF Lose, Take, SystemType
  <2>3. QED
    BY <2>1, <2>2 DEF SystemType
<1>2. CASE Refuse(a)
  BY <1>2, QueueTypes DEF Refuse, Take, counters, SystemType
<1>3. CASE Discard(a)
  BY <1>3, QueueTypes DEF Discard, counters, SystemType
<1>4. CASE Duplicate(a)
  BY <1>4, QueueTypes DEF Duplicate, SystemType
<1>5. QED
  BY <1>1, <1>2, <1>3, <1>4

LEMMA SystemTypeStep ==
  ASSUME ChatInv', SystemType, [SystemNext]_systemVars
  PROVE  SystemType'
<1>1. CASE LoopStep \/ SignalStep \/ CrashStep \/ StartStep
  BY <1>1 DEF LoopStep, SignalStep, CrashStep, StartStep, clientVars, counters,
              SystemType
<1>2. CASE UNCHANGED systemVars
  BY <1>2 DEF systemVars, clientVars, counters, SystemType
<1>3. QED
  BY <1>1, <1>2, ClientType, ServerStepType, NetworkType DEF SystemNext

LEMMA SteadyStep ==
  ASSUME SystemBase, [SystemNext]_systemVars
  PROVE  Steady'
<1>t. stops \in Nat /\ refused \in [Addr -> BOOLEAN]
  BY DEF SystemBase, SystemType
<1>0. SUFFICES ASSUME stops' = 0
               PROVE  /\ stops = 0 => pc' # "down" /\ running'
                                      /\ \A c \in Addr : ~refused'[c]
                      /\ stops = 0
  BY DEF Steady, Undisturbed
<1>s. stops = 0 => pc # "down" /\ running /\ \A c \in Addr : ~refused[c]
  BY DEF SystemBase, Steady, Undisturbed
<1>1. CASE SignalStep \/ CrashStep
  BY <1>0, <1>t, <1>1 DEF SignalStep, CrashStep
<1>2. CASE StartStep \/ LoopStep
  BY <1>0, <1>s, <1>2
  DEF StartStep, LoopStep, Start, Test, Block, clientVars, counters
<1>3. ASSUME NEW a \in Addr, ServerStep(a)
      PROVE  UNCHANGED <<stops, running, refused>> /\ pc' = "test"
  BY <1>3 DEF ServerStep, Handle, Register, Full, NotConnected, Ignore, Leave,
              Invalid, Relay, NoPeer, Received, counters
<1>4. ASSUME NEW a \in Addr, Lose(a) \/ Discard(a) \/ Duplicate(a)
      PROVE  UNCHANGED <<stops, running, refused, pc>>
  BY <1>4 DEF Lose, Discard, Duplicate, serverVars, counters
<1>5. ASSUME NEW a \in Addr, Refuse(a) PROVE UNCHANGED stops /\ pc = "down"
  BY <1>5 DEF Refuse, counters
<1>6. ASSUME NEW a \in Addr, ClientStep(a)
      PROVE  /\ UNCHANGED <<stops, running, pc>>
             /\ \A c \in Addr : ~refused[c] => ~refused'[c]
  <2>1. ASSUME NEW m, send_msg(a, m)
        PROVE  \A c \in Addr : ~refused[c] => ~refused'[c]
    BY <1>t, <2>1 DEF send_msg
  <2>2. CASE \/ Launch(a)
             \/ \E m \in Text : TypeLine(a, m) \/ TypeExit(a, m)
    BY <1>6, <2>1, <2>2 DEF Launch, TypeLine, TypeExit, ClientStep, serverVars,
                            counters
  <2>3. CASE Hear(a) \/ HearRefusal(a) \/ Kill(a)
    BY <1>6, <1>t, <2>3 DEF Hear, HearRefusal, Kill, ClientStep, serverVars,
                            counters
  <2>4. QED
    BY <1>6, <2>2, <2>3 DEF ClientStep, ClientNext
<1>7. CASE UNCHANGED systemVars
  BY <1>0, <1>s, <1>7 DEF systemVars, serverVars, clientVars, counters
<1>8. QED
  BY <1>0, <1>s, <1>1, <1>2, <1>3, <1>4, <1>5, <1>6, <1>7 DEF SystemNext

LEMMA BaseStep ==
  ASSUME SystemBase, [SystemNext]_systemVars
  PROVE  SystemBase'
<1>1. ChatInv'
  BY ServerPart, ChatStep DEF SystemBase
<1>2. QED
  BY <1>1, SystemTypeStep, SteadyStep DEF SystemBase

LEMMA BaseInit == SystemInit => SystemBase
<1> SUFFICES ASSUME SystemInit PROVE SystemBase
  OBVIOUS
<1>1. ChatInv
  BY ChatInit DEF SystemInit
<1>2. SystemType
  BY DEF SystemInit, ClientInit, SystemType, Stages
<1>3. Steady
  BY DEF SystemInit, ClientInit, ServerInit, Steady
<1>4. QED
  BY <1>1, <1>2, <1>3 DEF SystemBase

-------------------------------------------------------------------------------
(* Leaked slots.  The last thing that a client which said @ or # has on    *)
(* its way is that token.                                                  *)

Leavers ==
  {c \in Addr : at[c] = "done" /\ toServer[c] = <<>> /\ Registered(c)}

ExitLast(c) ==
  at[c] = "done" /\ toServer[c] # <<>> => Newest(toServer[c]) \in Exits

LeakInv ==
  /\ SystemBase
  /\ Undisturbed => /\ \A c \in Addr : ExitLast(c)
                    /\ Cardinality(Leavers) <= losses

LEMMA LeaversFinite == IsFiniteSet(Leavers) /\ Cardinality(Leavers) \in Nat
<1>1. Leavers \subseteq {slots[0].addr} \cup {slots[1].addr}
  BY DEF Leavers, Registered, Holds, Slots, MAX_CLIENTS
<1>2. IsFiniteSet({slots[0].addr} \cup {slots[1].addr})
  BY FS_Singleton, FS_AddElement
<1>3. QED
  BY <1>1, <1>2, FS_Subset, FS_CardinalityType

(* No more leavers than before, or one more for one datagram lost. *)
LEMMA FewerLeavers ==
  ASSUME LeakInv, Undisturbed, Leavers' \subseteq Leavers, losses' = losses
  PROVE  Cardinality(Leavers') <= losses'
<1>1. IsFiniteSet(Leavers) /\ Cardinality(Leavers) \in Nat
  BY LeaversFinite
<1>2. IsFiniteSet(Leavers') /\ Cardinality(Leavers') <= Cardinality(Leavers)
  BY <1>1, FS_Subset
<1>3. Cardinality(Leavers') \in Nat /\ losses \in Nat
  BY <1>2, FS_CardinalityType DEF LeakInv, SystemBase, SystemType
<1>4. QED
  BY <1>1, <1>2, <1>3 DEF LeakInv

LEMMA OneLostLeaver ==
  ASSUME LeakInv, Undisturbed, NEW a, Leavers' \subseteq Leavers \cup {a},
         losses' = losses + 1
  PROVE  Cardinality(Leavers') <= losses'
<1>1. IsFiniteSet(Leavers) /\ Cardinality(Leavers) \in Nat
  BY LeaversFinite
<1>2. IsFiniteSet(Leavers') /\ Cardinality(Leavers') <= Cardinality(Leavers) + 1
  BY <1>1, OneMore
<1>3. Cardinality(Leavers') \in Nat /\ losses \in Nat
  BY <1>2, FS_CardinalityType DEF LeakInv, SystemBase, SystemType
<1>4. QED
  BY <1>1, <1>2, <1>3 DEF LeakInv

(* Who is registered after a datagram of a: a CONNECT adds only a, a token *)
(* removes only a, and nothing else changes the table.                     *)
LEMMA HandleMembers ==
  ASSUME ChatInv, NEW a \in Addr, NEW m \in Text, Handle(a, m)
  PROVE  /\ \A c \in Addr \ {a} : Registered(c)' <=> Registered(c)
         /\ m \in Exits => ~Registered(a)'
         /\ m \notin Exits /\ Registered(a) => Registered(a)'
<1>1. \A c \in Addr : (c \in Members <=> Registered(c))
                   /\ (c \in Members' <=> Registered(c)')
  BY DEF Members
<1>2. CASE Register(a, m)
  <2>1. m \notin Exits
    BY <1>2, TextAssumption DEF Register
  <2>2. QED
    BY <1>1, <1>2, <2>1, JoinStep
<1>3. CASE Leave(a, m)
  BY <1>1, <1>3, LeaveStep DEF Leave, is_exit_token
<1>4. CASE Relay(a, m)
  BY <1>1, <1>4, TextAssumption, SayStep DEF Relay, is_alnum_string
<1>5. CASE Full(a, m) \/ NotConnected(a, m) \/ Invalid(a, m) \/ NoPeer(a, m)
  <2>1. UNCHANGED slots /\ m \notin Exits
    BY <1>5, TextAssumption
    DEF Full, NotConnected, Invalid, NoPeer, is_exit_token, is_alnum_string
  <2>2. QED
    BY <2>1 DEF Registered, Holds
<1>6. CASE Ignore(a, m)
  <2>1. UNCHANGED slots /\ (m \in Exits => ~Registered(a))
    BY <1>6, TextAssumption DEF Ignore, is_exit_token
  <2>2. QED
    BY <2>1 DEF Registered, Holds
<1>7. QED
  BY <1>2, <1>3, <1>4, <1>5, <1>6 DEF Handle

(* When the last datagram of a leaver is handled, its slot is freed.       *)
LEMMA ServerLeak ==
  ASSUME LeakInv, Undisturbed, NEW a \in Addr, ServerStep(a)
  PROVE  (\A c \in Addr : ExitLast(c)') /\ Leavers' \subseteq Leavers
<1>1. /\ toServer[a] \in Seq(Text) /\ toServer[a] # <<>>
      /\ Head(toServer[a]) \in Text /\ Handle(a, Head(toServer[a]))
      /\ UNCHANGED at
  BY HeadIsText DEF LeakInv, SystemBase, ServerStep
<1>2. /\ toServer'[a] = Tail(toServer[a])
      /\ \A c \in Addr \ {a} : toServer'[c] = toServer[c]
  BY DEF LeakInv, SystemBase, SystemType, ServerStep, Take
<1>3. /\ toServer'[a] # <<>> => Newest(toServer'[a]) = Newest(toServer[a])
      /\ toServer'[a] = <<>> => Newest(toServer[a]) = Head(toServer[a])
  BY <1>1, <1>2, ContentsTail
<1>4. \A c \in Addr : ExitLast(c)'
  BY <1>1, <1>2, <1>3 DEF ExitLast, LeakInv
<1>5. \A c \in Addr \ {a} : Registered(c)' <=> Registered(c)
  BY <1>1, HandleMembers DEF LeakInv, SystemBase
<1>6. a \notin Leavers'
  <2>1. SUFFICES ASSUME at[a] = "done", toServer'[a] = <<>>
                 PROVE  ~Registered(a)'
    BY <1>1 DEF Leavers
  <2>2. Head(toServer[a]) \in Exits
    BY <1>1, <1>3, <2>1 DEF LeakInv, ExitLast
  <2>3. QED
    BY <1>1, <2>2, HandleMembers DEF LeakInv, SystemBase
<1>7. QED
  BY <1>1, <1>2, <1>4, <1>5, <1>6 DEF Leavers

(* What is sent goes behind the rest, and an exit token is sent last. *)
LEMMA ClientLeak ==
  ASSUME LeakInv, Undisturbed, NEW a \in Addr, ClientStep(a)
  PROVE  (\A c \in Addr : ExitLast(c)') /\ Leavers' \subseteq Leavers
<1>t. /\ at \in [Addr -> Stages] /\ toServer \in [Addr -> Seq(Text)]
      /\ ~refused[a]
  BY DEF LeakInv, SystemBase, SystemType, Steady
<1>r. \A c \in Addr : Registered(c)' <=> Registered(c)
  BY DEF ClientStep, serverVars, Registered, Holds
<1>1. ASSUME NEW m \in Text, send_msg(a, m), at' = [at EXCEPT ![a] = "done"] => m \in Exits,
             at' = at \/ (\E s \in {"on", "done"} : at' = [at EXCEPT ![a] = s]),
             at[a] # "done"
      PROVE  (\A c \in Addr : ExitLast(c)') /\ Leavers' \subseteq Leavers
  <2>1. /\ toServer'[a] = Append(toServer[a], m)
        /\ \A c \in Addr \ {a} : toServer'[c] = toServer[c] /\ at'[c] = at[c]
        /\ at'[a] = "done" => m \in Exits
    BY <1>t, <1>1 DEF send_msg
  <2>2. toServer[a] \in Seq(Text)
    BY <1>t
  <2>3. toServer'[a] # <<>> /\ Newest(toServer'[a]) = m
    BY <2>1, <2>2, ContentsAppend
  <2>4. \A c \in Addr : ExitLast(c)'
    BY <2>1, <2>3 DEF ExitLast, LeakInv
  <2>5. QED
    BY <1>r, <2>1, <2>3, <2>4 DEF Leavers
<1>2. ASSUME UNCHANGED toServer,
             \E s \in Stages \ {"done"} : at' = [at EXCEPT ![a] = s]
      PROVE  (\A c \in Addr : ExitLast(c)') /\ Leavers' \subseteq Leavers
  <2>1. \A c \in Addr : at'[c] = "done" => at[c] = "done"
    BY <1>t, <1>2
  <2>2. QED
    BY <1>r, <1>2, <2>1 DEF Leavers, ExitLast, LeakInv
<1>3. CASE Launch(a)
  BY <1>t, <1>1, <1>3, TextAssumption DEF Launch, Go
<1>4. CASE Hear(a)
  BY <1>2, <1>4 DEF Hear, Go, Stages
<1>5. CASE HearRefusal(a)
  BY <1>t, <1>5 DEF HearRefusal
<1>6. ASSUME NEW m \in Text, TypeLine(a, m)
      PROVE  (\A c \in Addr : ExitLast(c)') /\ Leavers' \subseteq Leavers
  BY <1>t, <1>1, <1>6 DEF TypeLine
<1>7. ASSUME NEW m \in Text, TypeExit(a, m)
      PROVE  (\A c \in Addr : ExitLast(c)') /\ Leavers' \subseteq Leavers
  BY <1>t, <1>1, <1>7 DEF TypeExit, Go, is_exit_token
<1>8. CASE Kill(a)
  BY <1>2, <1>8 DEF Kill, Go, Stages
<1>9. QED
  BY <1>3, <1>4, <1>5, <1>6, <1>7, <1>8 DEF ClientStep, ClientNext

(* What the network does to one queue. *)
LEMMA NetworkLeak ==
  ASSUME LeakInv, Undisturbed, NEW a \in Addr, Lose(a) \/ Discard(a) \/ Duplicate(a)
  PROVE  /\ \A c \in Addr : ExitLast(c)'
         /\ Leavers' \subseteq Leavers \cup {a}
         /\ Lose(a) \/ Leavers' \subseteq Leavers
<1>t. toServer \in [Addr -> Seq(Text)] /\ toServer[a] \in Seq(Text)
  BY DEF LeakInv, SystemBase, SystemType
<1>1. UNCHANGED <<serverVars, at>>
  BY DEF Lose, Discard, Duplicate
<1>2. \/ UNCHANGED toServer
      \/ /\ toServer[a] # <<>>
         /\ \/ toServer' = [toServer EXCEPT ![a] = Tail(@)] /\ Lose(a)
            \/ toServer' = [toServer EXCEPT ![a] = <<Head(@)>> \o @]
  BY DEF Lose, Discard, Duplicate, Take
<1>3. \/ UNCHANGED toServer
      \/ /\ toServer[a] # <<>>
         /\ \/ toServer'[a] = Tail(toServer[a]) /\ Lose(a)
            \/ toServer'[a] = <<Head(toServer[a])>> \o toServer[a]
  BY <1>t, <1>2
<1>4. /\ \A c \in Addr \ {a} : toServer'[c] = toServer[c]
      /\ Lose(a) \/ (toServer'[a] = <<>> => toServer[a] = <<>>)
      /\ toServer'[a] # <<>> =>
           toServer[a] # <<>> /\ Newest(toServer'[a]) = Newest(toServer[a])
  BY <1>t, <1>2, <1>3, ContentsTail, ContentsRepeat
<1>5. \A c \in Addr : Registered(c)' <=> Registered(c)
  BY <1>1 DEF serverVars, Registered, Holds
<1>6. QED
  BY <1>1, <1>4, <1>5 DEF ExitLast, Leavers, LeakInv

LEMMA LeakStep == ASSUME LeakInv, [SystemNext]_systemVars PROVE LeakInv'
<1>b. SystemBase'
  BY BaseStep DEF LeakInv
<1>s. SUFFICES ASSUME stops' = 0
               PROVE  /\ \A c \in Addr : ExitLast(c)'
                      /\ Cardinality(Leavers') <= losses'
  BY <1>b DEF LeakInv, Undisturbed
<1>t. stops \in Nat
  BY DEF LeakInv, SystemBase, SystemType
<1> DEFINE Good == (\A c \in Addr : ExitLast(c)') /\ Cardinality(Leavers') <= losses'
<1>1. ASSUME SignalStep \/ CrashStep PROVE FALSE
  BY <1>s, <1>t, <1>1 DEF SignalStep, CrashStep
<1>2. ASSUME Undisturbed, UNCHANGED <<slots, at, toServer, losses>> PROVE Good
  <2>1. Leavers' \subseteq Leavers
    BY <1>2 DEF Leavers, Registered, Holds
  <2>2. QED
    BY <1>2, <2>1, FewerLeavers DEF LeakInv, ExitLast
<1>3. ASSUME StartStep \/ LoopStep \/ UNCHANGED systemVars PROVE Good
  <2>1. Undisturbed /\ UNCHANGED <<at, toServer, losses>>
    BY <1>s, <1>3 DEF StartStep, LoopStep, systemVars, clientVars, counters,
                      Undisturbed
  <2>2. pc # "down" /\ running
    BY <2>1 DEF LeakInv, SystemBase, Steady
  <2>3. UNCHANGED slots
    BY <1>3, <2>2 DEF StartStep, LoopStep, Start, Test, Block, systemVars,
                      serverVars
  <2>4. QED
    BY <1>2, <2>1, <2>3
<1>4. ASSUME NEW a \in Addr, ServerStep(a) \/ ClientStep(a) PROVE Good
  <2>1. Undisturbed /\ losses' = losses
    BY <1>s, <1>4 DEF ServerStep, ClientStep, counters, Undisturbed
  <2>2. (\A c \in Addr : ExitLast(c)') /\ Leavers' \subseteq Leavers
    BY <1>4, <2>1, ServerLeak, ClientLeak
  <2>3. QED
    BY <2>1, <2>2, FewerLeavers
<1>5. ASSUME NEW a \in Addr, Lose(a) \/ Discard(a) \/ Duplicate(a) PROVE Good
  <2>1. /\ Undisturbed
        /\ Lose(a) => losses' = losses + 1
        /\ ~Lose(a) => losses' = losses
    BY <1>s, <1>5 DEF Lose, Discard, Duplicate, counters, Undisturbed
  <2>2. QED
    BY <1>5, <2>1, NetworkLeak, FewerLeavers, OneLostLeaver
<1>6. ASSUME NEW a \in Addr, Refuse(a) PROVE FALSE
  BY <1>s, <1>6 DEF Refuse, LeakInv, SystemBase, Steady, Undisturbed, counters
<1> HIDE DEF Good
<1>7. Good
  BY <1>1, <1>3, <1>4, <1>5, <1>6 DEF SystemNext
<1>8. QED
  BY <1>7 DEF Good

LEMMA LeakInit == SystemInit => LeakInv
<1> SUFFICES ASSUME SystemInit PROVE LeakInv
  OBVIOUS
<1>1. SystemBase
  BY BaseInit
<1>2. Leavers = {} /\ losses = 0
  BY DEF SystemInit, ClientInit, Leavers
<1>3. QED
  BY <1>1, <1>2, FS_EmptySet DEF SystemInit, ClientInit, LeakInv, ExitLast

(* However often its datagrams are delivered, a client that said @ or #    *)
(* leaves no slot behind: each slot leaked is a datagram lost.             *)
THEOREM LeaksAreLossesHolds == SystemSpec => []LeaksAreLosses
<1>1. LeakInv => LeaksAreLosses
  BY DEF LeakInv, LeaksAreLosses, Leavers
<1>2. QED
  BY <1>1, LeakInit, LeakStep, PTL DEF SystemSpec

-------------------------------------------------------------------------------
(* What a screen shows.  The datagrams on their way to a client are heard  *)
(* in order, so the last of them that changes the screen decides what it   *)
(* will show in the end.                                                   *)

Present == {"off", "on"}

Changes(ans) == ans.kind \in {"text", "peer left", "no peer"}

(* A screen that shows s comes to show d when q has been heard. *)
ComesToShow(q, s, d) ==
  \/ \E i \in 1..Len(q) :
       /\ q[i].kind = "text" /\ q[i].from = d
       /\ \A j \in 1..Len(q) : i < j => ~Changes(q[j])
  \/ /\ \A j \in 1..Len(q) : ~Changes(q[j])
     /\ s = d

LEMMA ShowNothing ==
  ASSUME NEW s, NEW d, ComesToShow(<<>>, s, d)
  PROVE  s = d
BY DEF ComesToShow

LEMMA ShowHeard ==
  ASSUME NEW q \in Seq(Answer), q # <<>>, NEW c, NEW d \in Addr,
         ComesToShow(Tail(q), Shown(c, Head(q)), d)
  PROVE  ComesToShow(q, screen[c], d)
<1>1. /\ Len(q) \in Nat \ {0} /\ Head(q) = q[1] /\ Len(Tail(q)) = Len(q) - 1
      /\ \A i \in 1 .. Len(q) - 1 : Tail(q)[i] = q[i + 1]
  BY HeadTailProperties
<1>2. ASSUME NEW i \in 1..Len(Tail(q)),
             Tail(q)[i].kind = "text", Tail(q)[i].from = d,
             \A j \in 1..Len(Tail(q)) : i < j => ~Changes(Tail(q)[j])
      PROVE  ComesToShow(q, screen[c], d)
  <2>1. i + 1 \in 1..Len(q) /\ q[i + 1].kind = "text" /\ q[i + 1].from = d
    BY <1>1, <1>2
  <2>2. ASSUME NEW j \in 1..Len(q), i + 1 < j PROVE ~Changes(q[j])
    <3>1. j - 1 \in 1..Len(Tail(q)) /\ i < j - 1 /\ Tail(q)[j - 1] = q[j]
      BY <1>1, <2>2
    <3>2. QED
      BY <1>2, <3>1
  <2>3. QED
    BY <2>1, <2>2 DEF ComesToShow
<1>3. ASSUME \A j \in 1..Len(Tail(q)) : ~Changes(Tail(q)[j]),
             Shown(c, Head(q)) = d
      PROVE  ComesToShow(q, screen[c], d)
  <2>1. ASSUME NEW j \in 1..Len(q), j # 1 PROVE ~Changes(q[j])
    <3>1. j - 1 \in 1..Len(Tail(q)) /\ Tail(q)[j - 1] = q[j]
      BY <1>1, <2>1
    <3>2. QED
      BY <1>3, <3>1
  <2>2. CASE q[1].kind = "text"
    <3>1. q[1].from = d
      BY <1>1, <1>3, <2>2 DEF Shown
    <3>2. 1 \in 1..Len(q) /\ \A j \in 1..Len(q) : 1 < j => ~Changes(q[j])
      BY <1>1, <2>1
    <3>3. QED
      BY <2>2, <3>1, <3>2 DEF ComesToShow
  <2>3. CASE q[1].kind \in {"peer left", "no peer"}
    BY <1>1, <1>3, <2>3, AddrAssumption DEF Shown
  <2>4. CASE q[1].kind \notin {"text", "peer left", "no peer"}
    <3>1. screen[c] = d
      BY <1>1, <1>3, <2>4 DEF Shown
    <3>2. \A j \in 1..Len(q) : ~Changes(q[j])
      BY <2>1, <2>4 DEF Changes
    <3>3. QED
      BY <3>1, <3>2 DEF ComesToShow
  <2>5. QED
    BY <2>2, <2>3, <2>4
<1>4. QED
  BY <1>2, <1>3 DEF ComesToShow

LEMMA ShowSent ==
  ASSUME NEW q \in Seq(Answer), NEW e \in Answer, NEW s, NEW d,
         ComesToShow(Append(q, e), s, d)
  PROVE  \/ e.kind = "text" /\ e.from = d
         \/ ~Changes(e) /\ ComesToShow(q, s, d)
<1>1. /\ Len(Append(q, e)) = Len(q) + 1 /\ Len(q) \in Nat
      /\ \A i \in 1..Len(q) : Append(q, e)[i] = q[i]
      /\ Append(q, e)[Len(q) + 1] = e
  BY AppendProperties
<1>2. /\ Len(q) + 1 \in 1..Len(Append(q, e))
      /\ \A j \in 1..Len(q) : j \in 1..Len(Append(q, e)) /\ j < Len(q) + 1
  BY <1>1
<1>3. ASSUME NEW i \in 1..Len(Append(q, e)),
             Append(q, e)[i].kind = "text", Append(q, e)[i].from = d,
             \A j \in 1..Len(Append(q, e)) : i < j => ~Changes(Append(q, e)[j])
      PROVE  \/ e.kind = "text" /\ e.from = d
             \/ ~Changes(e) /\ ComesToShow(q, s, d)
  <2>1. CASE i = Len(q) + 1
    BY <1>1, <1>3, <2>1
  <2>2. CASE i # Len(q) + 1
    <3>1. i \in 1..Len(q) /\ i < Len(q) + 1
      BY <1>1, <2>2
    <3>2. ~Changes(e)
      BY <1>1, <1>2, <1>3, <3>1
    <3>3. \A j \in 1..Len(q) : i < j => ~Changes(q[j])
      BY <1>1, <1>2, <1>3
    <3>4. QED
      BY <1>1, <1>3, <3>1, <3>2, <3>3 DEF ComesToShow
  <2>3. QED
    BY <2>1, <2>2
<1>4. ASSUME \A j \in 1..Len(Append(q, e)) : ~Changes(Append(q, e)[j]), s = d
      PROVE  ~Changes(e) /\ ComesToShow(q, s, d)
  BY <1>1, <1>2, <1>4 DEF ComesToShow
<1>5. QED
  BY <1>3, <1>4 DEF ComesToShow

(* A client that has not left sent no exit token; and whom its screen will *)
(* show is another client, and both are registered.                        *)
Talks(c, d) == c # d /\ Registered(c) /\ Registered(d)

ScreenTrue(c) ==
  at[c] \in Present =>
    /\ Contents(toServer[c]) \cap Exits = {}
    /\ \A d \in Addr : ComesToShow(toClient[c], screen[c], d) => Talks(c, d)

ScreenInv ==
  /\ SystemBase
  /\ Undisturbed /\ losses = 0 => \A c \in Addr : ScreenTrue(c)

(* A client that leaves tells the one it talks to. *)
LEMMA LeaveTells ==
  ASSUME ChatInv, NEW a \in Addr, NEW m \in Text, Leave(a, m),
         NEW c \in Addr \ {a}, Registered(c)
  PROVE  sent' = [to |-> c, kind |-> "peer left", from |-> NoAddr]
<1>1. PICK f \in Slots :
        /\ f = find_slot(a) /\ slots[f].active /\ slots[f].addr = a
        /\ Other(f) \in Slots
  BY SlotOfClient DEF Leave
<1>2. PICK i \in Slots : slots[i].active /\ slots[i].addr = c
  BY DEF Registered, Holds
<1>3. i = Other(f)
  BY <1>1, <1>2 DEF Slots, MAX_CLIENTS, Other
<1>4. QED
  BY <1>1, <1>2, <1>3 DEF Leave, send_text

(* What a client is sent, other than about its own peer, does not name     *)
(* anybody; a text names a registered peer.                                *)
LEMMA ServerScreen ==
  ASSUME ScreenInv, Undisturbed, losses = 0, ChatInv',
         NEW a \in Addr, ServerStep(a), NEW c \in Addr
  PROVE  ScreenTrue(c)'
<1>t. /\ toServer \in [Addr -> Seq(Text)] /\ toClient \in [Addr -> Seq(Answer)]
      /\ ChatInv
  BY DEF ScreenInv, SystemBase, SystemType
<1> DEFINE m == Head(toServer[a])
<1>1. /\ toServer[a] \in Seq(Text) /\ toServer[a] # <<>>
      /\ m \in Text /\ Handle(a, m)
      /\ UNCHANGED <<at, screen>>
  BY HeadIsText DEF ScreenInv, SystemBase, ServerStep
<1>2. /\ toServer'[a] = Tail(toServer[a])
      /\ \A b \in Addr \ {a} : toServer'[b] = toServer[b]
  BY <1>t DEF ServerStep, Take
<1>3. /\ Contents(toServer'[c]) \subseteq Contents(toServer[c])
      /\ m \in Contents(toServer[a])
  BY <1>1, <1>2, ContentsTail
<1> HIDE DEF m
<1>4. SUFFICES ASSUME at[c] \in Present, NEW d \in Addr,
                      ComesToShow(toClient'[c], screen[c], d)
               PROVE  c # d /\ Registered(c)' /\ Registered(d)'
  BY <1>1, <1>3 DEF ScreenTrue, ScreenInv, Talks
<1>5. m \in Exits => a # c
  BY <1>3, <1>4 DEF ScreenInv, ScreenTrue
<1>6. CASE sent' # Nothing /\ sent'.to = c
  <2>1. toClient'[c] = Append(toClient[c], sent')
    BY <1>t, <1>6 DEF ServerStep
  <2>2. /\ sent' \in Answer /\ toClient[c] \in Seq(Answer)
        /\ sent'.kind = "text" /\ sent'.from = d =>
             c # d /\ Registered(c)' /\ Registered(d)'
    <3>1. sent' \in Answer
      BY <1>6 DEF ChatInv, TypeOK
    <3>2. RelayedToPeer'
      BY DEF ChatInv
    <3>3. QED
      BY <1>t, <1>6, <3>1, <3>2 DEF RelayedToPeer, Registered, Holds
  <2>3. CASE sent'.kind = "text" /\ sent'.from = d
    BY <2>2, <2>3
  <2>4. CASE ~Changes(sent') /\ ComesToShow(toClient[c], screen[c], d)
    <3>1. Talks(c, d)
      BY <1>4, <2>4 DEF ScreenInv, ScreenTrue
    <3>2. m \notin Exits
      <4>1. SUFFICES ASSUME m \in Exits PROVE FALSE
        OBVIOUS
      <4>2. Leave(a, m)
        <5>1. UNCHANGED slots => ~Registered(a) \/ Leave(a, m)
          BY <1>t, <1>1, <4>1, HandleMembers DEF Registered, Holds
        <5>2. QED
          BY <1>1, <1>6, <4>1, TextAssumption
          DEF Handle, Register, Full, NotConnected, Ignore, Invalid, Relay,
              NoPeer, is_exit_token, is_alnum_string
      <4>3. sent' = [to |-> c, kind |-> "peer left", from |-> NoAddr]
        BY <1>t, <1>1, <1>5, <3>1, <4>1, <4>2, LeaveTells DEF Talks
      <4>4. QED
        BY <2>4, <4>3 DEF Changes
    <3>3. QED
      BY <1>t, <1>1, <3>1, <3>2, HandleMembers DEF Talks
  <2>5. QED
    BY <1>4, <2>1, <2>2, <2>3, <2>4, ShowSent
<1>7. CASE sent' = Nothing \/ sent'.to # c
  <2>1. toClient'[c] = toClient[c]
    BY <1>t, <1>7 DEF ServerStep
  <2>2. Talks(c, d)
    BY <1>4, <2>1 DEF ScreenInv, ScreenTrue
  <2>3. CASE m \notin Exits
    BY <1>t, <1>1, <2>2, <2>3, HandleMembers DEF Talks
  <2>4. CASE m \in Exits /\ Registered(a)
    <3>1. Leave(a, m)
      BY <1>1, <2>4, TextAssumption
      DEF Handle, Register, Full, NotConnected, Ignore, Invalid, Relay,
          NoPeer, is_exit_token, is_alnum_string
    <3>2. sent' = [to |-> c, kind |-> "peer left", from |-> NoAddr]
      BY <1>t, <1>1, <1>5, <2>2, <2>4, <3>1, LeaveTells DEF Talks
    <3>3. sent' \in Answer
      BY <3>2 DEF Answer, AnswerKind
    <3>4. QED
      BY <1>7, <3>2, <3>3, NothingAssumption
  <2>5. CASE m \in Exits /\ ~Registered(a)
    <3>1. d # a
      BY <2>2, <2>5 DEF Talks
    <3>2. QED
      BY <1>t, <1>1, <1>5, <2>2, <2>5, <3>1, HandleMembers DEF Talks
  <2>6. QED
    BY <2>3, <2>4, <2>5
<1>8. QED
  BY <1>6, <1>7

(* What the client c does to its own screen and to its own datagrams.      *)
LEMMA ClientScreen ==
  ASSUME ScreenInv, Undisturbed, losses = 0,
         NEW a \in Addr, ClientStep(a), NEW c \in Addr
  PROVE  ScreenTrue(c)'
<1>t. /\ toServer \in [Addr -> Seq(Text)] /\ toClient \in [Addr -> Seq(Answer)]
      /\ at \in [Addr -> Stages] /\ screen \in [Addr -> Addr \cup {NoAddr}]
      /\ ~refused[a]
  BY DEF ScreenInv, SystemBase, SystemType, Steady
<1>r. \A d \in Addr : Talks(c, d)' <=> Talks(c, d)
  BY DEF ClientStep, serverVars, Talks, Registered, Holds
<1>1. ASSUME NEW m \in Text, send_msg(a, m), m \in Exits => at'[a] \notin Present,
             UNCHANGED <<screen, toClient>>, at[a] \in Present,
             \A b \in Addr \ {a} : at'[b] = at[b]
      PROVE  ScreenTrue(c)'
  <2>1. /\ toServer'[a] = Append(toServer[a], m)
        /\ \A b \in Addr \ {a} : toServer'[b] = toServer[b]
    BY <1>t, <1>1 DEF send_msg
  <2>2. toServer[a] \in Seq(Text)
    BY <1>t
  <2>3. Contents(toServer'[a]) = Contents(toServer[a]) \cup {m}
    BY <2>1, <2>2, ContentsAppend
  <2>4. QED
    BY <1>r, <1>1, <2>1, <2>3 DEF ScreenTrue, ScreenInv
<1>2. CASE Launch(a)
  <2>1. send_msg(a, Connect) /\ Connect \in Text /\ Connect \notin Exits
    BY <1>2, TextAssumption DEF Launch
  <2>2. QED
    BY <1>t, <1>1, <1>2, <2>1 DEF Launch, Go, Present
<1>3. ASSUME NEW m \in Text, TypeLine(a, m) PROVE ScreenTrue(c)'
  BY <1>1, <1>3 DEF TypeLine, Present
<1>4. ASSUME NEW m \in Text, TypeExit(a, m) PROVE ScreenTrue(c)'
  BY <1>t, <1>1, <1>4 DEF TypeExit, Go, Present
<1>5. CASE Hear(a)
  <2>1. /\ toClient[a] \in Seq(Answer) /\ toClient[a] # <<>>
        /\ toClient'[a] = Tail(toClient[a])
        /\ screen'[a] = Shown(a, Head(toClient[a]))
        /\ at[a] \in Present
        /\ \A b \in Addr \ {a} :
             toClient'[b] = toClient[b] /\ screen'[b] = screen[b] /\ at'[b] = at[b]
        /\ UNCHANGED toServer
    BY <1>t, <1>5 DEF Hear, Go, Present
  <2>2. CASE c = a
    <3>1. \A d \in Addr : ComesToShow(toClient'[c], screen'[c], d) => Talks(c, d)
      BY <2>1, <2>2, ShowHeard DEF ScreenInv, ScreenTrue
    <3>2. QED
      BY <1>r, <2>1, <2>2, <3>1 DEF ScreenInv, ScreenTrue
  <2>3. CASE c # a
    BY <1>r, <2>1, <2>3 DEF ScreenInv, ScreenTrue
  <2>4. QED
    BY <2>2, <2>3
<1>6. CASE HearRefusal(a)
  BY <1>t, <1>6 DEF HearRefusal
<1>7. CASE Kill(a)
  <2>1. \A b \in Addr : at'[b] \in Present => at[b] \in Present
    BY <1>t, <1>7 DEF Kill, Go, Present
  <2>2. QED
    BY <1>r, <1>7, <2>1 DEF Kill, ScreenTrue, ScreenInv
<1>8. QED
  BY <1>2, <1>3, <1>4, <1>5, <1>6, <1>7 DEF ClientStep, ClientNext

LEMMA ScreenStep == ASSUME ScreenInv, [SystemNext]_systemVars PROVE ScreenInv'
<1>b. SystemBase'
  BY BaseStep DEF ScreenInv
<1>s. SUFFICES ASSUME stops' = 0, losses' = 0, NEW c \in Addr
               PROVE  ScreenTrue(c)'
  BY <1>b DEF ScreenInv, Undisturbed
<1>t. /\ stops \in Nat /\ losses \in Nat
      /\ toServer \in [Addr -> Seq(Text)] /\ toClient \in [Addr -> Seq(Answer)]
  BY DEF ScreenInv, SystemBase, SystemType
<1>1. ASSUME \/ SignalStep \/ CrashStep
             \/ \E a \in Addr : Lose(a)
      PROVE  FALSE
  BY <1>s, <1>t, <1>1 DEF SignalStep, CrashStep, Lose
<1>2. ASSUME Undisturbed, losses = 0, UNCHANGED <<slots, at, screen>>,
             \A b \in Addr : Contents(toServer'[b]) = Contents(toServer[b]),
             \A b \in Addr : at[b] \in Present => toClient'[b] = toClient[b]
      PROVE  ScreenTrue(c)'
  BY <1>2 DEF ScreenInv, ScreenTrue, Talks, Registered, Holds
<1>3. ASSUME StartStep \/ LoopStep \/ UNCHANGED systemVars PROVE ScreenTrue(c)'
  <2>1. Undisturbed /\ losses = 0 /\ UNCHANGED <<at, screen, toServer, toClient>>
    BY <1>s, <1>3 DEF StartStep, LoopStep, systemVars, clientVars, counters,
                      Undisturbed
  <2>2. pc # "down" /\ running
    BY <2>1 DEF ScreenInv, SystemBase, Steady
  <2>3. UNCHANGED slots
    BY <1>3, <2>2 DEF StartStep, LoopStep, Start, Test, Block, systemVars,
                      serverVars
  <2>4. QED
    BY <1>2, <2>1, <2>3
<1>4. ASSUME NEW a \in Addr, ServerStep(a) PROVE ScreenTrue(c)'
  BY <1>b, <1>s, <1>4, ServerScreen DEF ServerStep, counters, Undisturbed, SystemBase
<1>5. ASSUME NEW a \in Addr, ClientStep(a) PROVE ScreenTrue(c)'
  BY <1>s, <1>5, ClientScreen DEF ClientStep, counters, Undisturbed
<1>6. ASSUME NEW a \in Addr, Refuse(a) PROVE FALSE
  BY <1>s, <1>6 DEF Refuse, ScreenInv, SystemBase, Steady, Undisturbed, counters
<1>7. ASSUME NEW a \in Addr, Discard(a) PROVE ScreenTrue(c)'
  <2>1. \A b \in Addr : at[b] \in Present => toClient'[b] = toClient[b]
    BY <1>t, <1>7 DEF Discard, Gone, Present
  <2>2. QED
    BY <1>s, <1>2, <1>7, <2>1 DEF Discard, counters, serverVars, Undisturbed
<1>8. ASSUME NEW a \in Addr, Duplicate(a) PROVE ScreenTrue(c)'
  <2>1. /\ toServer[a] \in Seq(Text) /\ toServer[a] # <<>>
        /\ toServer'[a] = <<Head(toServer[a])>> \o toServer[a]
        /\ \A b \in Addr \ {a} : toServer'[b] = toServer[b]
    BY <1>t, <1>8 DEF Duplicate
  <2>2. \A b \in Addr : Contents(toServer'[b]) = Contents(toServer[b])
    BY <2>1, ContentsRepeat
  <2>3. QED
    BY <1>s, <1>2, <1>8, <2>2 DEF Duplicate, serverVars, Undisturbed
<1>9. QED
  BY <1>1, <1>3, <1>4, <1>5, <1>6, <1>7, <1>8 DEF SystemNext

LEMMA ScreenInit == SystemInit => ScreenInv
<1> SUFFICES ASSUME SystemInit PROVE ScreenInv
  OBVIOUS
<1>1. SystemBase
  BY BaseInit
<1>2. \A c \in Addr : /\ toServer[c] = <<>> /\ toClient[c] = <<>>
                     /\ screen[c] = NoAddr
  BY DEF SystemInit, ClientInit
<1>3. QED
  BY <1>1, <1>2, ContentsEmpty, ShowNothing, AddrAssumption
  DEF ScreenInv, ScreenTrue

(* Whatever is typed and however the steps interleave, a client that has   *)
(* heard all it was sent shows on its screen a peer that still holds the   *)
(* other slot, as long as nothing is lost and the server is not stopped.   *)
THEOREM ScreenIsCurrentHolds == SystemSpec => []ScreenIsCurrent
<1>1. ScreenInv => ScreenIsCurrent
  <2> SUFFICES ASSUME ScreenInv, Undisturbed, losses = 0, NEW c \in Addr,
                      at[c] = "on", toClient[c] = <<>>, screen[c] # NoAddr
               PROVE  Registered(c) /\ Registered(screen[c])
    BY DEF ScreenIsCurrent
  <2>1. screen[c] \in Addr
    BY DEF ScreenInv, SystemBase, SystemType
  <2>2. ComesToShow(toClient[c], screen[c], screen[c])
    BY DEF ComesToShow
  <2>3. QED
    BY <2>1, <2>2 DEF ScreenInv, ScreenTrue, Present, Talks
<1>2. QED
  BY <1>1, ScreenInit, ScreenStep, PTL DEF SystemSpec
================================================================================
