----------------------------- MODULE MCAuthSystem ------------------------------
(***************************************************************************)
(* Instances of AuthSystem for TLC: one account "u", password "p".         *)
(***************************************************************************)
EXTENDS AuthSystem

CONSTANTS a1, a2

OneAddr == {a1}
TwoAddr == {a1, a2}
MCText == {"", "bye", "u", "p"}
MCAlnum == Text \ {""}
MCStored == [m \in Text |-> m]
OneActive ==
  {<<[username |-> "u", password |-> "p", status |-> 1]>>}
================================================================================
