------------------------------ MODULE MCTransfer -------------------------------
(***************************************************************************)
(* Instances of Transfer for TLC.  Chunks are of two bytes; "a b" and      *)
(* "a c" have the same first word, and " " has none.                       *)
(***************************************************************************)
EXTENDS Transfer

CONSTANTS x, dash

MCSide == {"client", "server"}
MCData == {x, dash, NL}
MCStrings == {<<x>>, <<x, dash>>, <<x, x>>}
MCContents == {<<>>, <<x, x>>, <<x, NL, dash>>}
MCNames == {"a", "a b", " "}
MCFirst == [n \in Names |-> IF n = " " THEN None ELSE "a"]
================================================================================
