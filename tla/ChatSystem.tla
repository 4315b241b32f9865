------------------------------ MODULE ChatSystem -------------------------------
(***************************************************************************)
(* The HW4_ver2 server, its clients and UDP between them on a local        *)
(* network: the datagrams of one pair of endpoints stay in order, but may  *)
(* be lost or duplicated.                                                  *)
(***************************************************************************)
EXTENDS ChatServer, ChatClient

CONSTANTS
  MaxLosses,   \* bound: datagrams lost
  MaxDups,     \* bound: datagrams duplicated
  MaxStops     \* bound: signals to the server, its crashes and the
               \* failures of its recvfrom()

ASSUME BoundsAssumption ==
  {MaxLines, MaxKills, MaxLosses, MaxDups, MaxStops} \subseteq Nat

VARIABLES losses, dups, stops

counters == <<losses, dups, stops>>

systemVars == <<serverVars, clientVars, counters>>

ClientStep(c) == ClientNext(c) /\ UNCHANGED <<serverVars, counters>>

HearStep(c) == (Hear(c) \/ HearRefusal(c)) /\ UNCHANGED <<serverVars, counters>>

Take(c) == toServer' = [toServer EXCEPT ![c] = Tail(@)]

ServerStep(c) ==
  /\ toServer[c] # <<>>
  /\ Handle(c, Head(toServer[c]))
  /\ Take(c)
  /\ toClient' = IF sent' = Nothing THEN toClient
                 ELSE [toClient EXCEPT ![sent'.to] = Append(@, sent')]
  /\ UNCHANGED <<at, lines, refused, screen, counters>>

(* The server goes round its loop; it blocks when no datagram waits. *)
LoopStep ==
  /\ \/ Test
     \/ Block /\ \A c \in Addr : toServer[c] = <<>>
  /\ UNCHANGED <<clientVars, counters>>

SignalStep ==
  /\ stops < MaxStops
  /\ stops' = stops + 1
  /\ on_signal
  /\ UNCHANGED <<clientVars, losses, dups>>

CrashStep ==
  /\ stops < MaxStops
  /\ stops' = stops + 1
  /\ Crash \/ ReceiveFails
  /\ UNCHANGED <<clientVars, losses, dups>>

StartStep == Start /\ UNCHANGED <<clientVars, counters>>

Lose(c) ==
  /\ losses < MaxLosses
  /\ losses' = losses + 1
  /\ \/ /\ toServer[c] # <<>>
        /\ Take(c)
        /\ UNCHANGED toClient
     \/ /\ toClient[c] # <<>>
        /\ toClient' = [toClient EXCEPT ![c] = Tail(@)]
        /\ UNCHANGED toServer
  /\ UNCHANGED <<serverVars, at, lines, refused, screen,
                 dups, stops>>

(* A datagram to a port where nobody listens: its host answers with an     *)
(* ICMP error, pending on the socket of a client that still exists.        *)
Refuse(c) ==
  /\ pc = "down"
  /\ toServer[c] # <<>>
  /\ Take(c)
  /\ refused' = [refused EXCEPT ![c] = at[c] = "on"]
  /\ UNCHANGED <<serverVars, at, lines, screen, toClient, counters>>

(* What is addressed to a process that is gone is discarded. *)
Discard(c) ==
  /\ at[c] \in Gone
  /\ toClient[c] # <<>>
  /\ toClient' = [toClient EXCEPT ![c] = Tail(@)]
  /\ UNCHANGED <<serverVars, at, lines, refused, screen, toServer, counters>>

Duplicate(c) ==
  /\ dups < MaxDups
  /\ dups' = dups + 1
  /\ toServer[c] # <<>>
  /\ toServer' = [toServer EXCEPT ![c] = <<Head(@)>> \o @]
  /\ UNCHANGED <<serverVars, at, lines, refused, screen, toClient,
                 losses, stops>>

SystemInit ==
  /\ ServerInit
  /\ ClientInit
  /\ losses = 0
  /\ dups = 0
  /\ stops = 0

SystemNext ==
  \/ \E c \in Addr :
       \/ ClientStep(c)
       \/ ServerStep(c)
       \/ Lose(c)
       \/ Refuse(c)
       \/ Discard(c)
       \/ Duplicate(c)
  \/ LoopStep
  \/ SignalStep
  \/ CrashStep
  \/ StartStep

SystemSpec == SystemInit /\ [][SystemNext]_systemVars

(* The server's loop runs, takes what is in its socket, whoever it comes   *)
(* from, and a client reads its socket.  Nobody has to type, to launch a   *)
(* client or to start the server.                                          *)
FairSpec ==
  /\ SystemSpec
  /\ WF_systemVars(LoopStep)
  /\ \A c \in Addr : SF_systemVars(ServerStep(c)) /\ WF_systemVars(HearStep(c))

-------------------------------------------------------------------------------
(* Properties                                                              *)

Undisturbed == stops = 0

(* While nothing is lost and the server is not restarted, the screen of a  *)
(* client that has heard all it was sent is up to date: if the last it     *)
(* shows is a text of d, then d still holds the other slot.                *)
ScreenIsCurrent ==
  Undisturbed /\ losses = 0 =>
    \A c \in Addr :
      /\ at[c] = "on"
      /\ toClient[c] = <<>>
      /\ screen[c] # NoAddr
      => Registered(c) /\ Registered(screen[c])

(* A client that said @ or # and whose datagrams are no longer on their    *)
(* way holds no slot, however often they were delivered: each slot leaked  *)
(* in this way costs one lost datagram.                                    *)
LeaksAreLosses ==
  Undisturbed =>
    Cardinality({c \in Addr : /\ at[c] = "done"
                              /\ toServer[c] = <<>>
                              /\ Registered(c)}) <= losses

(* A client that was launched gets a slot or learns that there is none.    *)
Admitted ==
  \A c \in Addr :
    at[c] = "on" ~> Registered(c) \/ at[c] # "on" \/ ~Undisturbed

(* A client whose screen shows a peer that has said @ or # comes to see    *)
(* that it left.                                                           *)
LeaverNoticed ==
  \A c, d \in Addr :
    at[c] = "on" /\ screen[c] = d /\ at[d] = "done"
      ~> screen[c] # d \/ at[c] # "on" \/ ~Undisturbed

(* A signal ends the server as soon as one more datagram arrives. *)
StopsWithTraffic ==
  ~running /\ pc # "down" /\ (\E c \in Addr : toServer[c] # <<>>) ~> pc = "down"
================================================================================
