------------------------------ MODULE AuthClient -------------------------------
(***************************************************************************)
(* The HW5 clients, one process per endpoint, and the UDP network between  *)
(* them and the server.  A client alternates one line from the keyboard    *)
(* and one answer from its socket: it has neither timeout nor retry, and   *)
(* takes whatever datagram reaches its socket as the answer.               *)
(***************************************************************************)
EXTENDS Naturals, FiniteSets, Bags, AuthMessages

LOCAL INSTANCE BagsExt

CONSTANT MaxTries   \* bound: passwords one endpoint sends

VARIABLES
  at,         \* where in main() the process of each endpoint is
  typed,      \* the username it typed last
  tries,      \* how many passwords it has sent
  requests,   \* datagrams on their way to the server
  answers     \* datagrams on their way to a client

clientVars == <<at, typed, tries, requests, answers>>

(* Waiting for a line, waiting in recvfrom(), or gone: "done" after Step 6 *)
(* of main(), "exited" by an end of input during login or by a signal.     *)
Prompts == {"username", "password", "input"}
Waits   == {"sent username", "sent password", "sent text", "sent bye"}
Ends    == {"done", "exited"}

Go(c, next) == at' = [at EXCEPT ![c] = next]

Sends(c, m) == requests' = BagAdd(requests, [from |-> c, text |-> m])

(* receive_message(): the socket is not connected to anyone, and any       *)
(* datagram that reached it will do.                                       *)
Receives(c, ans) ==
  /\ ans \in BagToSet(answers)
  /\ ans.to = c
  /\ answers' = BagRemove(answers, ans)

(* "Username: " accepts an empty line too, which is sent as an empty       *)
(* datagram.                                                               *)
TypeUsername(c, m) ==
  /\ at[c] = "username"
  /\ Sends(c, m)
  /\ Go(c, "sent username")
  /\ typed' = [typed EXCEPT ![c] = m]
  /\ UNCHANGED <<tries, answers>>

HearPrompt(c, ans) ==
  /\ at[c] = "sent username"
  /\ Receives(c, ans)
  /\ Go(c, IF ans.kind = "Insert password" THEN "password" ELSE "username")
  /\ UNCHANGED <<typed, tries, requests>>

TypePassword(c, m) ==
  /\ at[c] = "password"
  /\ tries[c] < MaxTries
  /\ Sends(c, m)
  /\ Go(c, "sent password")
  /\ tries' = [tries EXCEPT ![c] = @ + 1]
  /\ UNCHANGED <<typed, answers>>

HearVerdict(c, ans) ==
  /\ at[c] = "sent password"
  /\ Receives(c, ans)
  /\ Go(c, IF ans.kind = "OK" THEN "input" ELSE "username")
  /\ UNCHANGED <<typed, tries, requests>>

(* End of input at either login prompt closes the socket and tells the     *)
(* server nothing.                                                         *)
EofAtLogin(c) ==
  /\ at[c] \in {"username", "password"}
  /\ Go(c, "exited")
  /\ UNCHANGED <<typed, tries, requests, answers>>

TypeText(c, m) ==
  /\ at[c] = "input"
  /\ m \notin {Empty, Bye}
  /\ Sends(c, m)
  /\ Go(c, "sent text")
  /\ UNCHANGED <<typed, tries, answers>>

HearText(c, ans) ==
  /\ at[c] = "sent text"
  /\ Receives(c, ans)
  /\ Go(c, "input")
  /\ UNCHANGED <<typed, tries, requests>>

(* An empty line, "bye", or the end of input, for which "bye" is sent. *)
TypeBye(c, m) ==
  /\ at[c] = "input"
  /\ m \in {Empty, Bye}
  /\ Sends(c, m)
  /\ Go(c, "sent bye")
  /\ UNCHANGED <<typed, tries, answers>>

HearGoodbye(c, ans) ==
  /\ at[c] = "sent bye"
  /\ Receives(c, ans)
  /\ Go(c, "done")
  /\ UNCHANGED <<typed, tries, requests>>

(* Ctrl-C: the client installs no handler. *)
KillClient(c) ==
  /\ at[c] \notin Ends
  /\ Go(c, "exited")
  /\ UNCHANGED <<typed, tries, requests, answers>>

Hear(c) ==
  \E ans \in BagToSet(answers) :
    \/ HearPrompt(c, ans)
    \/ HearVerdict(c, ans)
    \/ HearText(c, ans)
    \/ HearGoodbye(c, ans)

Type(c) ==
  \/ \E m \in Text :
       \/ TypeUsername(c, m)
       \/ TypePassword(c, m)
       \/ TypeText(c, m)
       \/ TypeBye(c, m)
  \/ EofAtLogin(c)
  \/ KillClient(c)

ClientInit ==
  /\ at = [c \in Addr |-> "username"]
  /\ typed = [c \in Addr |-> Empty]
  /\ tries = [c \in Addr |-> 0]
  /\ requests = EmptyBag
  /\ answers = EmptyBag

(* The passwords sent by all endpoints, each one numbered at its endpoint. *)
PasswordsSent == UNION {{c} \X (1 .. tries[c]) : c \in Addr}

TotalTries == Cardinality(PasswordsSent)
================================================================================
