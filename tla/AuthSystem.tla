------------------------------ MODULE AuthSystem -------------------------------
(***************************************************************************)
(* The HW5 server, its clients and the UDP network between them, which     *)
(* reorders datagrams, and may lose or duplicate them.                     *)
(***************************************************************************)
EXTENDS AuthServer, AuthClient

LOCAL INSTANCE BagsExt

CONSTANTS
  Lossy,      \* whether datagrams between live processes can be lost
  MaxDups,    \* bound: datagrams duplicated
  MaxStops    \* bound: crashes of the server and SIGINTs to it

ASSUME BoundsAssumption ==
  /\ Lossy \in BOOLEAN
  /\ {MaxDups, MaxStops, MaxTries} \subseteq Nat

VARIABLES dups, stops

systemVars == <<serverVars, clientVars, dups, stops>>

ClientStep(c) ==
  /\ Type(c) \/ Hear(c)
  /\ UNCHANGED <<serverVars, dups, stops>>

HearStep(c) ==
  /\ Hear(c)
  /\ UNCHANGED <<serverVars, dups, stops>>

(* The server takes a request of c from its socket and answers it. *)
ServerStep(c) ==
  \E q \in BagToSet(requests) :
    /\ q.from = c
    /\ Receive(c, q.text)
    /\ requests' = BagRemove(requests, q)
    /\ answers' = BagAdd(answers, reply')
    /\ UNCHANGED <<at, typed, tries, dups, stops>>

(* The server dies while it writes account.txt for a request. *)
CrashStep ==
  \/ /\ Crash
     /\ UNCHANGED requests
  \/ \E q \in BagToSet(requests), i \in 1..Len(accounts) :
       /\ CrashInSave(q.from, q.text, i)
       /\ requests' = BagRemove(requests, q)

StopServer ==
  /\ stops < MaxStops
  /\ stops' = stops + 1
  /\ \/ CrashStep
     \/ handle_signal /\ UNCHANGED requests
  /\ UNCHANGED <<at, typed, tries, answers, dups>>

StartServer ==
  /\ Start
  /\ UNCHANGED <<clientVars, dups, stops>>

(* A datagram for a process that is gone is discarded by its host. *)
LoseRequest ==
  /\ Lossy \/ ~up
  /\ \E q \in BagToSet(requests) : requests' = BagRemove(requests, q)
  /\ UNCHANGED <<serverVars, at, typed, tries, answers, dups, stops>>

LoseAnswer ==
  /\ \E ans \in BagToSet(answers) :
       /\ Lossy \/ at[ans.to] \in Ends
       /\ answers' = BagRemove(answers, ans)
  /\ UNCHANGED <<serverVars, at, typed, tries, requests, dups, stops>>

Duplicate ==
  /\ dups < MaxDups
  /\ dups' = dups + 1
  /\ \/ /\ \E q \in BagToSet(requests) : requests' = BagAdd(requests, q)
        /\ UNCHANGED answers
     \/ /\ \E ans \in BagToSet(answers) : answers' = BagAdd(answers, ans)
        /\ UNCHANGED requests
  /\ UNCHANGED <<serverVars, at, typed, tries, stops>>

SystemInit ==
  /\ ServerInit
  /\ ClientInit
  /\ dups = 0
  /\ stops = 0

SystemNext ==
  \/ \E c \in Addr : ClientStep(c) \/ ServerStep(c)
  \/ StopServer
  \/ StartServer
  \/ LoseRequest
  \/ LoseAnswer
  \/ Duplicate

SystemSpec == SystemInit /\ [][SystemNext]_systemVars

(* The server's loop handles what is in its socket, and a client blocked   *)
(* in recvfrom() takes the answer that arrives.  Nobody has to type, and   *)
(* nobody has to start the server again.                                   *)
FairSpec ==
  /\ SystemSpec
  /\ \A c \in Addr : WF_systemVars(ServerStep(c)) /\ WF_systemVars(HearStep(c))

-------------------------------------------------------------------------------
(* Properties                                                              *)

SessionsOf(c) == {sessions[s] : s \in FindSession(c)}

NothingInFlight(c) ==
  /\ \A q \in BagToSet(requests) : q.from # c
  /\ \A ans \in BagToSet(answers) : ans.to # c

(* Without duplication and stops, losses and kills included, client and    *)
(* server agree on the dialogue: at a prompt nothing of this client is in  *)
(* flight and its session is in the state the prompt stands for, holding   *)
(* the username that was typed.                                            *)
InStep ==
  dups = 0 /\ stops = 0 => \A c \in Addr :
    /\ at[c] \in Prompts => NothingInFlight(c)
    /\ at[c] = "username" => \A x \in SessionsOf(c) : x.state = "WAIT_USERNAME"
    /\ at[c] = "password" =>
         \E x \in SessionsOf(c) :
           x.state = "WAIT_PASSWORD" /\ x.username = Stored[typed[c]]
    /\ at[c] = "input" =>
         \E x \in SessionsOf(c) :
           x.state = "LOGGED_IN" /\ x.username = typed[c]

(* A client that leaves through the Goodbye leaves no slot behind, unless  *)
(* a datagram of it was delivered twice: the copy takes a slot again.  (A  *)
(* server started anew takes a "bye" for a username.)                      *)
CleanExit ==
  stops = 0 => \A c \in Addr :
    at[c] = "done" => Cardinality(FindSession(c)) <= dups

(* failed_attempts counts wrong passwords (server.h:26, the number of      *)
(* consecutive wrong entries): while no datagram is delivered twice and    *)
(* the server is not stopped, it never exceeds the number of passwords     *)
(* that the clients sent.                                                  *)
FailuresWereEntered ==
  dups = 0 /\ stops = 0 =>
    \A i \in 1..Len(accounts) : accounts[i].failed_attempts <= TotalTries

(* Over a network that loses nothing, a client does not stay blocked in    *)
(* recvfrom() unless the server is stopped.                                *)
Answered ==
  \A c \in Addr : at[c] \in Waits ~> at[c] \notin Waits \/ stops > 0

(* SIGINT ends the server as soon as one more datagram arrives. *)
StopsWithTraffic ==
  up /\ ~server_running /\ requests # EmptyBag ~> ~up

(* SIGINT ends the server (server.c:40: the socket is closed when the      *)
(* server receives the stop signal).                                       *)
StopsOnSignal == up /\ ~server_running ~> ~up
================================================================================
