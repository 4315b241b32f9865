------------------------------- MODULE MCResolver ------------------------------
(***************************************************************************)
(* Instances of Resolver for TLC.                                          *)
(***************************************************************************)
EXTENDS Resolver

(* "a.bc" *)
MCDomain == <<97, 46, 98, 99>>

A(owner, ip) == [owner |-> owner, type |-> 1, rdata |-> ip]
Cname == [owner |-> "pointer", type |-> 5, rdata |-> <<1, 120, 192, 14>>]
Aaaa == [owner |-> "labels", type |-> 28, rdata |-> [i \in 1..16 |-> i]]

X == <<8, 8, 4, 4>>
Y == <<192, 0, 2, 1>>

Answers(rcode, records) == [rcode |-> rcode, records |-> records]

(* No address; an alias, another family and an address; 0.0.0.0 second and *)
(* third, the latter beyond what MAX_IPS = 1 keeps.                        *)
MCReplies ==
  {NoReply, Short,
   Answers(3, <<>>),
   Answers(0, <<Aaaa>>),
   Answers(0, <<Cname, Aaaa, A("labels", X), A("pointer", Y)>>),
   Answers(0, <<A("pointer", Y), A("labels", Zero)>>),
   Answers(0, <<A("pointer", X), A("pointer", Y), A("pointer", Zero)>>)}

(* "U" and "u" differ by case only. *)
MCKey == [v \in {"u", "U", "a"} |-> IF v = "a" THEN 1 ELSE 2]

Link(u, t) == [isLink |-> TRUE, isVideo |-> FALSE, isText |-> TRUE, url |-> u, text |-> t]
Video(u) == [isLink |-> FALSE, isVideo |-> TRUE, isText |-> FALSE, url |-> u, text |-> None]
Par(t) == [isLink |-> FALSE, isVideo |-> FALSE, isText |-> TRUE, url |-> None, text |-> t]

MCPages ==
  {<<>>,
   <<Link("u", None), Link("U", "a"), Link("u", None), Link("a", None)>>,
   <<Par("u"), Link(None, "a"), Video("a"), Video(None), Par("U")>>}
================================================================================
