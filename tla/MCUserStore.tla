------------------------------ MODULE MCUserStore ------------------------------
(***************************************************************************)
(* Instances of UserStore for TLC.  The word "p:7" makes a line that is    *)
(* read back with the status 7.                                            *)
(***************************************************************************)
EXTENDS UserStore

MCAtoms == {"", "u", "p", "7"}

MCValue == [a \in MCAtoms |-> IF a = "7" THEN 7 ELSE NotANumber]

MCWords == {<<"u">>, <<"p">>, <<"p", "7">>}

MCLeftovers == MCWords \cup {<<"">>}

Row(text, st) == [text |-> text, status |-> st]

(* A new file; one whose first line has lost its end; and one with an open *)
(* account in front of a blocked one.                                      *)
MCFiles ==
  {<<>>,
   <<Row(<<"p">>, 0), Row(<<"u", "p">>, 1)>>,
   <<Row(<<"p", "u">>, 0), Row(<<"u", "p">>, 1)>>}
================================================================================
