------------------------------ MODULE ChatServer -------------------------------
(***************************************************************************)
(* The HW4_ver2 chat server: two slots, the handling of one datagram, and  *)
(* the main loop, whose test of the flag and whose wait in recvfrom() are  *)
(* steps of their own because a signal can fall between them.              *)
(***************************************************************************)
EXTENDS Integers, ChatMessages

CONSTANT Nothing   \* no datagram was sent

ASSUME NothingAssumption == Nothing \notin Answer

VARIABLES
  pc,        \* where the main loop is
  running,   \* the flag that the signal handler clears
  slots,     \* the slot table
  sent       \* the datagram that the last step sent, or Nothing

serverVars == <<pc, running, slots, sent>>

MAX_CLIENTS == 2

Slots == 0 .. MAX_CLIENTS - 1

slot_t == [active : BOOLEAN, addr : Addr \cup {NoAddr}]

NoSlots == [i \in Slots |-> [active |-> FALSE, addr |-> NoAddr]]

(* "test": before `while (running)`; "entering": past it but not yet       *)
(* waiting in recvfrom(); "blocked": waiting; "down": no process.          *)
Places == {"test", "entering", "blocked", "down"}

-------------------------------------------------------------------------------
(* Slots                                                                   *)

Holds(a) == {i \in Slots : slots[i].active /\ slots[i].addr = a}

Registered(a) == Holds(a) # {}

Least(S) == CHOOSE i \in S : \A j \in S : i <= j

find_slot(a) == Least(Holds(a))

Free == {i \in Slots : ~slots[i].active}

Other(i) == 1 - i

-------------------------------------------------------------------------------
(* The handling of one datagram m from a.                                  *)

send_text(a, kind, from) == sent' = [to |-> a, kind |-> kind, from |-> from]

(* recvfrom() has returned a datagram; the handling ends at the loop test. *)
Received ==
  /\ pc \in {"entering", "blocked"}
  /\ pc' = "test"
  /\ UNCHANGED running

(* Mutant: the address is not copied. *)
RegisterNobody(a, m) ==
  /\ Received
  /\ ~Registered(a)
  /\ m = Connect
  /\ Free # {}
  /\ slots' = [slots EXCEPT ![Least(Free)].active = TRUE]
  /\ sent' = Nothing

Register(a, m) ==
  /\ Received
  /\ ~Registered(a)
  /\ m = Connect
  /\ Free # {}
  /\ slots' = [slots EXCEPT ![Least(Free)] = [active |-> TRUE, addr |-> a]]
  /\ sent' = Nothing

(* Mutant: a client that does not fit is told nothing. *)
FullInSilence(a, m) ==
  /\ Received
  /\ ~Registered(a)
  /\ m = Connect
  /\ Free = {}
  /\ sent' = Nothing
  /\ UNCHANGED slots

Full(a, m) ==
  /\ Received
  /\ ~Registered(a)
  /\ m = Connect
  /\ Free = {}
  /\ send_text(a, "full", NoAddr)
  /\ UNCHANGED slots

NotConnected(a, m) ==
  /\ Received
  /\ ~Registered(a)
  /\ m # Connect /\ ~is_exit_token(m)
  /\ send_text(a, "not connected", NoAddr)
  /\ UNCHANGED slots

(* A token from a stranger, a second CONNECT and an empty line. *)
Ignore(a, m) ==
  /\ Received
  /\ IF Registered(a) THEN m \in {Connect, Empty} ELSE is_exit_token(m)
  /\ sent' = Nothing
  /\ UNCHANGED slots

(* Mutant: the peer is not told. *)
LeaveUntold(a, m) ==
  /\ Received
  /\ Registered(a)
  /\ is_exit_token(m)
  /\ slots' = [slots EXCEPT ![find_slot(a)].active = FALSE]
  /\ sent' = Nothing

(* Mutant: the slot is kept. *)
LeaveKeepsSlot(a, m) ==
  /\ Received
  /\ Registered(a)
  /\ is_exit_token(m)
  /\ LET peer == slots[Other(find_slot(a))]
     IN  IF peer.active THEN send_text(peer.addr, "peer left", NoAddr)
                        ELSE sent' = Nothing
  /\ UNCHANGED slots

Leave(a, m) ==
  /\ Received
  /\ Registered(a)
  /\ is_exit_token(m)
  /\ slots' = [slots EXCEPT ![find_slot(a)].active = FALSE]
  /\ LET peer == slots[Other(find_slot(a))]
     IN  IF peer.active THEN send_text(peer.addr, "peer left", NoAddr)
                        ELSE sent' = Nothing

Invalid(a, m) ==
  /\ Received
  /\ Registered(a)
  /\ m \notin {Connect, Empty}
  /\ ~is_exit_token(m) /\ ~is_alnum_string(m)
  /\ send_text(a, "invalid", NoAddr)
  /\ UNCHANGED slots

(* Mutant: the other slot is not looked at before it is used. *)
RelayToAnyone(a, m) ==
  /\ Received
  /\ Registered(a)
  /\ is_alnum_string(m)
  /\ slots[Other(find_slot(a))].addr # NoAddr
  /\ send_text(slots[Other(find_slot(a))].addr, "text", a)
  /\ UNCHANGED slots

Relay(a, m) ==
  /\ Received
  /\ Registered(a)
  /\ is_alnum_string(m)
  /\ slots[Other(find_slot(a))].active
  /\ send_text(slots[Other(find_slot(a))].addr, "text", a)
  /\ UNCHANGED slots

NoPeer(a, m) ==
  /\ Received
  /\ Registered(a)
  /\ is_alnum_string(m)
  /\ ~slots[Other(find_slot(a))].active
  /\ send_text(a, "no peer", NoAddr)
  /\ UNCHANGED slots

Handle(a, m) ==
  \/ Register(a, m)
  \/ Full(a, m)
  \/ NotConnected(a, m)
  \/ Ignore(a, m)
  \/ Leave(a, m)
  \/ Invalid(a, m)
  \/ Relay(a, m)
  \/ NoPeer(a, m)

-------------------------------------------------------------------------------
(* The main loop and the process                                           *)

Halt ==
  /\ pc' = "down"
  /\ running' = FALSE
  /\ slots' = NoSlots
  /\ sent' = Nothing

(* Mutant: `while (1)`. *)
TestNothing ==
  /\ pc = "test"
  /\ pc' = "entering"
  /\ UNCHANGED <<running, slots, sent>>

Test ==
  /\ pc = "test"
  /\ \/ /\ running
        /\ pc' = "entering"
        /\ UNCHANGED <<running, slots, sent>>
     \/ /\ ~running
        /\ Halt

Block ==
  /\ pc = "entering"
  /\ pc' = "blocked"
  /\ UNCHANGED <<running, slots, sent>>

(* SIGINT or SIGTERM.  The handler is installed without SA_RESTART: a      *)
(* blocked recvfrom() fails with EINTR and the loop continues at its test. *)
on_signal ==
  /\ pc # "down"
  /\ running' = FALSE
  /\ pc' = IF pc = "blocked" THEN "test" ELSE pc
  /\ UNCHANGED <<slots, sent>>

(* recvfrom() fails for another reason: the error is printed. *)
ReceiveFails == Received /\ UNCHANGED <<slots, sent>>

(* kill -9 or a power cut. *)
Crash == pc # "down" /\ Halt

Start ==
  /\ pc = "down"
  /\ pc' = "test"
  /\ running' = TRUE
  /\ slots' = NoSlots
  /\ sent' = Nothing

ServerInit ==
  /\ pc = "test"
  /\ running = TRUE
  /\ slots = NoSlots
  /\ sent = Nothing

ServerNext ==
  \/ \E a \in Addr, m \in Text : Handle(a, m)
  \/ Test
  \/ Block
  \/ on_signal
  \/ ReceiveFails
  \/ Crash
  \/ Start

ServerSpec == ServerInit /\ [][ServerNext]_serverVars

-------------------------------------------------------------------------------
(* Properties                                                              *)

(* Types, and a process that is gone holds no slot. *)
TypeOK ==
  /\ pc \in Places
  /\ running \in BOOLEAN
  /\ slots \in [Slots -> slot_t]
  /\ \A i \in Slots : slots[i].active => slots[i].addr \in Addr
  /\ sent \in Answer \cup {Nothing}
  /\ pc = "down" => slots = NoSlots

(* A client holds at most one of the two slots, however its CONNECTs and   *)
(* exit tokens are repeated and interleaved with the other's: otherwise    *)
(* the slot `1 - idx` would be the client itself.                          *)
OneSlotPerClient ==
  \A i, j \in Slots :
    /\ slots[i].active /\ slots[j].active
    /\ slots[i].addr = slots[j].addr
    => i = j

(* A text goes to a registered client other than the one it comes from:    *)
(* never back to its sender, never to one that has left the other slot.    *)
RelayedToPeer ==
  sent # Nothing /\ sent.kind = "text" =>
    /\ sent.to # sent.from
    /\ Registered(sent.to) /\ Registered(sent.from)

(* Once both slots are taken, who is in the conversation changes only when *)
(* one of the two leaves: nobody else takes a slot over.                   *)
PairIsClosed ==
  [][Free = {} /\ pc' # "down" =>
       \A i \in Slots :
         slots'[i] # slots[i] =>
           /\ ~slots'[i].active
           /\ slots'[Other(i)] = slots[Other(i)]
    ]_serverVars

PairOf == INSTANCE Pair
  WITH Endpoint <- Addr,
       Silence <- Nothing,
       members <- {a \in Addr : Registered(a)},
       heard <- IF sent # Nothing /\ sent.kind = "text"
                  THEN <<sent.from, sent.to>> ELSE Nothing

(* The slots implement a conversation of at most two, in which a text goes *)
(* from one member to the other, whatever tokens are repeated, and         *)
(* whenever the server is signalled, crashes or starts again.              *)
PairPolicy == PairOf!Spec
================================================================================
