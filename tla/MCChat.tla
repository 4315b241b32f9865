-------------------------------- MODULE MCChat ---------------------------------
(***************************************************************************)
(* Instances of ChatSystem for TLC.                                        *)
(***************************************************************************)
EXTENDS ChatSystem, TLC

CONSTANTS a1, a2, a3

TwoAddr == {a1, a2}
ThreeAddr == {a1, a2, a3}

(* Endpoints are told apart only by equality. *)
AddrSymmetry == Permutations(ThreeAddr)

(* "hi" is relayed and "!" refused; "#" would only repeat "@". *)
AllText == {"", "CONNECT", "@", "hi", "!"}
NoInvalid == AllText \ {"!"}

AllTyped == [c \in Addr |-> Text]
OneTalks == [c \in Addr |-> IF c = a1 THEN {"hi", "CONNECT", "!"} ELSE {}]
================================================================================
