------------------------------ MODULE ChatClient -------------------------------
(***************************************************************************)
(* The HW4_ver2 chat clients, one process per endpoint.  A client serves   *)
(* its keyboard and its socket in whatever order select() reports them, so *)
(* it may send any number of lines before it looks at what it was sent.    *)
(***************************************************************************)
EXTENDS Naturals, Sequences, FiniteSets, ChatMessages

CONSTANTS
  Typed,      \* bound: the lines that may be typed at each endpoint
  MaxLines,   \* bound: lines typed at one endpoint
  MaxKills    \* bound: clients killed

VARIABLES
  at,        \* the process of each endpoint: see Stages
  lines,     \* how many lines it has sent
  refused,   \* an ICMP error is pending on its connected socket
  screen,    \* whom its screen shows it is talking to, NoAddr for nobody
  toServer,  \* datagrams on their way from each endpoint, in order
  toClient   \* datagrams on their way to each endpoint, in order

clientVars == <<at, lines, refused, screen, toServer, toClient>>

(* "done" after an exit token, "full" and "failed" after what the server   *)
(* or the socket said, "killed" by a signal.                               *)
Stages == {"off", "on", "done", "full", "failed", "killed"}

Gone == {"done", "full", "failed", "killed"}

Go(c, next) == at' = [at EXCEPT ![c] = next]

(* send_msg(): a pending error makes send() fail, which is only printed,   *)
(* and clears it; the line is not sent.                                    *)
send_msg(c, m) ==
  IF refused[c]
    THEN refused' = [refused EXCEPT ![c] = FALSE] /\ UNCHANGED toServer
    ELSE toServer' = [toServer EXCEPT ![c] = Append(@, m)] /\ UNCHANGED refused

(* main() up to the loop. *)
Launch(c) ==
  /\ at[c] = "off"
  /\ send_msg(c, Connect)
  /\ Go(c, "on")
  /\ UNCHANGED <<lines, screen, toClient>>

(* What the screen says about the other client after the datagram ans. *)
Shown(c, ans) ==
  CASE ans.kind = "text"                    -> ans.from
    [] ans.kind \in {"peer left", "no peer"} -> NoAddr
    [] OTHER                                -> screen[c]

Hear(c) ==
  /\ at[c] = "on"
  /\ ~refused[c]
  /\ toClient[c] # <<>>
  /\ toClient' = [toClient EXCEPT ![c] = Tail(@)]
  /\ screen' = [screen EXCEPT ![c] = Shown(c, Head(toClient[c]))]
  /\ Go(c, IF Head(toClient[c]).kind = "full" THEN "full" ELSE "on")
  /\ UNCHANGED <<lines, refused, toServer>>

(* recv() reports ECONNREFUSED before any datagram. *)
HearRefusal(c) ==
  /\ at[c] = "on"
  /\ refused[c]
  /\ refused' = [refused EXCEPT ![c] = FALSE]
  /\ Go(c, "failed")
  /\ UNCHANGED <<lines, screen, toServer, toClient>>

(* A line of the keyboard; an empty one only brings the prompt back. *)
TypeLine(c, m) ==
  /\ at[c] = "on"
  /\ m \in Typed[c] \ ({Empty} \cup Exits)
  /\ lines[c] < MaxLines
  /\ lines' = [lines EXCEPT ![c] = @ + 1]
  /\ send_msg(c, m)
  /\ UNCHANGED <<at, screen, toClient>>

(* An exit token, or the end of input, for which "@" is sent. *)
TypeExit(c, m) ==
  /\ at[c] = "on"
  /\ is_exit_token(m)
  /\ send_msg(c, m)
  /\ Go(c, "done")
  /\ UNCHANGED <<lines, screen, toClient>>

(* Ctrl-C: the client installs no handler. *)
Kill(c) ==
  /\ at[c] = "on"
  /\ Cardinality({d \in Addr : at[d] = "killed"}) < MaxKills
  /\ Go(c, "killed")
  /\ UNCHANGED <<lines, refused, screen, toServer, toClient>>

ClientNext(c) ==
  \/ Launch(c)
  \/ Hear(c)
  \/ HearRefusal(c)
  \/ \E m \in Text : TypeLine(c, m) \/ TypeExit(c, m)
  \/ Kill(c)

ClientInit ==
  /\ at = [c \in Addr |-> "off"]
  /\ lines = [c \in Addr |-> 0]
  /\ refused = [c \in Addr |-> FALSE]
  /\ screen = [c \in Addr |-> NoAddr]
  /\ toServer = [c \in Addr |-> <<>>]
  /\ toClient = [c \in Addr |-> <<>>]
================================================================================
