--------------------------------- MODULE Pair ----------------------------------
(***************************************************************************)
(* What both chat relays promise, without slots, sockets or datagrams: a   *)
(* conversation of at most two members, in which a text of one is heard by *)
(* the other and by nobody else.                                           *)
(***************************************************************************)
CONSTANTS Endpoint, Silence

VARIABLES
  members,   \* the endpoints in the conversation
  heard      \* the last step's text as <<from, to>>, or Silence

vars == <<members, heard>>

Init == members = {} /\ heard = Silence

(* There is room while there are not two different members. *)
Join(a) ==
  /\ a \in Endpoint \ members
  /\ \A b, c \in members : b = c
  /\ members' = members \cup {a}
  /\ heard' = Silence

Leave(a) ==
  /\ a \in members
  /\ members' = members \ {a}
  /\ heard' = Silence

Say(a, b) ==
  /\ a \in members
  /\ b \in members \ {a}
  /\ heard' = <<a, b>>
  /\ UNCHANGED members

Hush == heard' = Silence /\ UNCHANGED members

(* The relay ends and forgets who was there. *)
Forget == members' = {} /\ heard' = Silence

Next ==
  \/ \E a \in Endpoint : Join(a) \/ Leave(a)
  \/ \E a, b \in Endpoint : Say(a, b)
  \/ Hush
  \/ Forget

Spec == Init /\ [][Next]_vars
================================================================================
