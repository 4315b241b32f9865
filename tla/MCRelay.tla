-------------------------------- MODULE MCRelay --------------------------------
(***************************************************************************)
(* Instances of Relay for TLC: three clients for two slots, one of whom    *)
(* types.                                                                  *)
(***************************************************************************)
EXTENDS Relay

CONSTANTS a1, a2, a3

ThreeAddr == {a1, a2, a3}

AllText == {"CONNECT", "@", "hi"}

OneTypes == [c \in ThreeAddr |-> IF c = a1 THEN 3 ELSE 0]
================================================================================
