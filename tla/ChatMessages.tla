----------------------------- MODULE ChatMessages ------------------------------
(***************************************************************************)
(* The datagrams of the HW4_ver2 chat relay.  A request is a bare line,    *)
(* without its trailing line breaks (both ends strip them).                *)
(***************************************************************************)

CONSTANTS
  Addr,     \* client endpoints, an IP address and a port each
  Text,     \* lines
  Empty,    \* the empty line
  Connect,  \* CONNECT_TOKEN
  Exits,    \* EXIT_TOKEN_1 and EXIT_TOKEN_2
  Alnum,    \* lines of letters and digits only, never the empty one
  NoAddr    \* not an endpoint

ASSUME TextAssumption ==
  /\ Exits \cup Alnum \cup {Empty, Connect} \subseteq Text
  /\ Connect # Empty
  /\ {Empty, Connect} \cap (Exits \cup Alnum) = {}
  /\ Exits \cap Alnum = {}

ASSUME AddrAssumption == NoAddr \notin Addr

is_alnum_string(m) == m \in Alnum

is_exit_token(m) == m \in Exits

AnswerKind ==
  {"full", "not connected", "peer left", "invalid", "no peer", "text"}

(* `from` is the peer that a relayed text comes from. *)
Answer == [to : Addr, kind : AnswerKind, from : Addr \cup {NoAddr}]
================================================================================
