----------------------------- MODULE MCAuthServer ------------------------------
(***************************************************************************)
(* Instances of AuthServer for TLC.  The payload "long" does not fit a     *)
(* USERNAME_SIZE buffer and, cut, reads as the username "u"; it holds a    *)
(* character that is no letter or digit.                                   *)
(***************************************************************************)
EXTENDS AuthLockout, TLC

CONSTANTS a1, a2, a3

MCAlnum == {"bye", "u", "v"}

MCStored == [m \in Text |-> IF m = "long" THEN "u" ELSE m]

R(u, p, st) == [username |-> u, password |-> p, status |-> st]

ThreeAddr == {a1, a2, a3}

(* Endpoints are only compared for equality, and every property checked    *)
(* with these is an invariant or a condition on steps.                     *)
Symmetry == Permutations(ThreeAddr)

(* Payloads: two usernames, each the password of the other, both logout    *)
(* payloads, and one payload that is neither alphanumeric nor short.       *)
AccountText == {"", "bye", "u", "v", "long"}

(* Files with an active account beside a blocked one; with a nonzero       *)
(* status to be normalised and two lines of the same user; longer than     *)
(* MaxAccounts = 2; and with a line that does not parse.                   *)
AccountFiles ==
  {<<R("u", "v", 7), R("v", "u", 0)>>,
   <<R("u", "v", 1), R("u", "u", 0)>>,
   <<R("v", "u", 0), R("u", "v", 1), R("v", "v", 1)>>,
   <<R("u", "v", 1), Malformed, R("v", "u", 1)>>}
================================================================================
