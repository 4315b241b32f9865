--------------------------------- MODULE Relay ---------------------------------
(***************************************************************************)
(* HW4: the first UDP chat relay, its clients, and the datagrams between   *)
(* them.  The server is one thread that handles a datagram to its end; a   *)
(* client waits in select() for its keyboard and its socket.  The          *)
(* datagrams of one pair of endpoints keep their order; they may be lost   *)
(* or delivered twice.                                                     *)
(***************************************************************************)
EXTENDS Integers, Sequences, FiniteSets

CONSTANTS
  Addr,       \* client endpoints; a client that is launched has a new one
  NoAddr,     \* the address of an inactive slot
  Text,       \* lines that fit the buffers, without their line break
  Connect,    \* CONNECT_TOKEN
  Exits,      \* EXIT_TOKEN_AT and EXIT_TOKEN_HASH
  Alnum,      \* lines of letters and digits only, never the empty one
  Silence,    \* no text was relayed by the last step
  MaxLines,   \* MaxLines[c]: bound on the lines typed at client c, the end
              \* of its input included
  MaxFaults   \* bound: datagrams lost or duplicated, signals to the server
              \* and its crashes, clients killed or ended by a failing call

ASSUME TextAssumption ==
  /\ {Connect} \cup Exits \cup Alnum \subseteq Text
  /\ Connect \notin Exits \cup Alnum
  /\ Exits \cap Alnum = {}

ASSUME AddrAssumption == NoAddr \notin Addr

ASSUME BoundsAssumption ==
  /\ MaxLines \in [Addr -> Nat]
  /\ MaxFaults \in Nat

VARIABLES
  up,              \* the server process exists
  server_running,  \* the flag that SIGINT clears
  clients,         \* the slots: the address of an active one, or NoAddr
  heard,           \* the text relayed by the last handling, as <<from, to>>
  at,              \* client: not launched, on, done (said @ or #), gone (at
                   \* the end of its input) or failed
  told,            \* client: has been shown that the server is full
  keyboard,        \* lines typed that the client has not read()
  stdio,           \* lines read() into stdin's buffer, ahead of fgets()
  closed,          \* the end of the input follows the lines typed
  lines,           \* how many lines have been typed
  owed,            \* history: the lines typed that have not been sent
  inTurn,          \* history: each line sent was the next one typed
  toServer, toClient,
  losses, stops, others   \* how many faults there were, by kind

serverVars == <<up, server_running, clients, heard>>
inputVars == <<keyboard, stdio, closed, lines, owed, inTurn>>
clientVars == <<at, told, inputVars>>
netVars == <<toServer, toClient>>
counters == <<losses, stops, others>>
vars == <<serverVars, clientVars, netVars, counters>>

-------------------------------------------------------------------------------
(* Slots *)

MAX_CLIENTS == 2

Slots == 0 .. MAX_CLIENTS - 1

NoClients == [i \in Slots |-> NoAddr]

find_client(a) == {i \in Slots : clients[i] = a}

Registered(a) == find_client(a) # {}

Free == {i \in Slots : clients[i] = NoAddr}

find_free_slot == CHOOSE i \in Free : \A j \in Free : i <= j

Peers(a) == {clients[i] : i \in Slots \ find_client(a)} \ {NoAddr}

-------------------------------------------------------------------------------
(* The handling of a datagram m from a.  Each branch says what it sends.   *)

(* What is sent to a client that has ended is discarded. *)
Answer(a, kind) ==
  toClient' = IF at[a] = "on" THEN [toClient EXCEPT ![a] = Append(@, kind)]
              ELSE toClient

(* Mutant: the free slot is not looked for. *)
RegisterAtZero(a, m) ==
  /\ ~Registered(a)
  /\ m = Connect
  /\ clients' = [clients EXCEPT ![0] = a]
  /\ Answer(a, "connected")
  /\ heard' = Silence

(* Mutant: CONNECT_TOKEN is handled before the client is looked for. *)
RegisterAgain(a, m) ==
  /\ m = Connect
  /\ Free # {}
  /\ clients' = [clients EXCEPT ![find_free_slot] = a]
  /\ Answer(a, "connected")
  /\ heard' = Silence

(* Mutant: a newcomer finds a slot only when nobody is there. *)
RegisterAlone(a, m) ==
  /\ ~Registered(a)
  /\ m = Connect
  /\ heard' = Silence
  /\ IF Cardinality(Free) = MAX_CLIENTS
       THEN clients' = [clients EXCEPT ![0] = a] /\ Answer(a, "connected")
       ELSE UNCHANGED <<clients, toClient>>

Register(a, m) ==
  /\ ~Registered(a)
  /\ m = Connect
  /\ Free # {}
  /\ clients' = [clients EXCEPT ![find_free_slot] = a]
  /\ Answer(a, "connected")
  /\ heard' = Silence

Full(a, m) ==
  /\ ~Registered(a)
  /\ m = Connect
  /\ Free = {}
  /\ Answer(a, "full")
  /\ heard' = Silence
  /\ UNCHANGED clients

(* A client that is not registered gets no answer. *)
Ignore(a, m) ==
  /\ ~Registered(a)
  /\ m # Connect
  /\ heard' = Silence
  /\ UNCHANGED <<clients, toClient>>

(* Mutant: the exit token is taken for an invalid string. *)
LeaveInvalid(a, m) ==
  /\ Registered(a)
  /\ m \in Exits
  /\ Answer(a, "invalid")
  /\ heard' = Silence
  /\ UNCHANGED clients

(* The peer is not told. *)
Leave(a, m) ==
  /\ Registered(a)
  /\ m \in Exits
  /\ clients' = [i \in Slots |-> IF clients[i] = a THEN NoAddr ELSE clients[i]]
  /\ heard' = Silence
  /\ UNCHANGED toClient

(* Anything else that is not alphanumeric, CONNECT_TOKEN and the empty     *)
(* line of a registered client included.                                   *)
Invalid(a, m) ==
  /\ Registered(a)
  /\ m \notin Exits \cup Alnum
  /\ Answer(a, "invalid")
  /\ heard' = Silence
  /\ UNCHANGED clients

(* A text goes to the other active slot; without one it is dropped, and    *)
(* its sender learns nothing.                                              *)
Forward(a, m) ==
  /\ Registered(a)
  /\ m \in Alnum
  /\ UNCHANGED clients
  /\ \/ /\ Peers(a) = {}
        /\ heard' = Silence
        /\ UNCHANGED toClient
     \/ \E b \in Peers(a) :
           /\ heard' = <<a, b>>
           /\ Answer(b, "text")

(* One turn of the loop: a datagram, and the test of the flag after it. *)
AfterHandling ==
  /\ up' = server_running
  /\ UNCHANGED server_running

Receive(a) ==
  /\ up
  /\ toServer[a] # <<>>
  /\ LET m == Head(toServer[a])
     IN  \/ Register(a, m) \/ Full(a, m) \/ Ignore(a, m)
         \/ Leave(a, m) \/ Invalid(a, m) \/ Forward(a, m)
  /\ toServer' = [toServer EXCEPT ![a] = Tail(@)]
  /\ AfterHandling
  /\ UNCHANGED <<clientVars, counters>>

MayFail == losses + stops + others < MaxFaults

Halt ==
  /\ up' = FALSE
  /\ clients' = NoClients
  /\ heard' = Silence

(* The process is gone after the turn that found the flag cleared. *)
Exit ==
  /\ ~up
  /\ clients # NoClients \/ heard # Silence
  /\ Halt
  /\ UNCHANGED <<server_running, clientVars, netVars, counters>>

Stop == MayFail /\ stops' = stops + 1

(* SIGINT.  signal() installs the handler with SA_RESTART (Makefile:3), so *)
(* a waiting recvfrom() goes on waiting; the flag is seen at once only     *)
(* when the signal falls between a handling and the test.                  *)
Signal ==
  /\ up
  /\ Stop
  /\ server_running' = FALSE
  /\ \/ UNCHANGED <<up, clients, heard>>
     \/ Halt
  /\ UNCHANGED <<clientVars, netVars, losses, others>>

Crash ==
  /\ up
  /\ Stop
  /\ server_running' = FALSE
  /\ Halt
  /\ UNCHANGED <<clientVars, netVars, losses, others>>

Start ==
  /\ ~up
  /\ clients = NoClients
  /\ up' = TRUE
  /\ server_running' = TRUE
  /\ UNCHANGED <<clients, heard, clientVars, netVars, counters>>

-------------------------------------------------------------------------------
(* The client                                                              *)

Send(c, m) == toServer' = [toServer EXCEPT ![c] = Append(@, m)]

Launch(c) ==
  /\ at[c] = "off"
  /\ at' = [at EXCEPT ![c] = "on"]
  /\ Send(c, Connect)
  /\ UNCHANGED <<serverVars, told, inputVars, toClient, counters>>

(* A datagram is shown, whatever it says; the client goes on. *)
Hear(c) ==
  /\ at[c] = "on"
  /\ toClient[c] # <<>>
  /\ told' = [told EXCEPT ![c] = @ \/ Head(toClient[c]) = "full"]
  /\ toClient' = [toClient EXCEPT ![c] = Tail(@)]
  /\ UNCHANGED <<serverVars, at, inputVars, toServer, counters>>

(* Somebody types a line, or ends the input. *)
Type(c) ==
  /\ at[c] = "on"
  /\ ~closed[c]
  /\ lines[c] < MaxLines[c]
  /\ lines' = [lines EXCEPT ![c] = @ + 1]
  /\ \/ /\ \E m \in Text :
             /\ keyboard' = [keyboard EXCEPT ![c] = Append(@, m)]
             /\ owed' = [owed EXCEPT ![c] = Append(@, m)]
        /\ UNCHANGED closed
     \/ /\ closed' = [closed EXCEPT ![c] = TRUE]
        /\ UNCHANGED <<keyboard, owed>>
  /\ UNCHANGED <<serverVars, at, told, stdio, inTurn, netVars, counters>>

(* select() looks at the descriptor, not at stdin's buffer: lines that an  *)
(* earlier read() put there do not make it return.                         *)
KeyboardReady(c) == at[c] = "on" /\ (keyboard[c] # <<>> \/ closed[c])

(* fgets(): the next line in the buffer; an empty buffer is filled by one  *)
(* read(), which takes a line from a terminal and may take all there is    *)
(* from a pipe.                                                            *)
Fills(c) ==
  IF stdio[c] # <<>> \/ keyboard[c] = <<>> THEN {0} ELSE 1 .. Len(keyboard[c])

(* Mutant: a read() along with a line is lost after it. *)
FgetsAlone(c, n) ==
  /\ keyboard' = [keyboard EXCEPT ![c] = SubSeq(@, n + 1, Len(@))]
  /\ stdio' = [stdio EXCEPT ![c] = IF n = 0 THEN Tail(@) ELSE <<>>]
  /\ UNCHANGED <<closed, lines>>

Fgets(c, n) ==
  /\ keyboard' = [keyboard EXCEPT ![c] = SubSeq(@, n + 1, Len(@))]
  /\ stdio' = [stdio EXCEPT ![c] = Tail(@ \o SubSeq(keyboard[c], 1, n))]
  /\ UNCHANGED <<closed, lines>>

(* The process of c ends; its input and what its socket held are gone. *)
Ends(c, how) ==
  /\ at' = [at EXCEPT ![c] = how]
  /\ keyboard' = [keyboard EXCEPT ![c] = <<>>]
  /\ stdio' = [stdio EXCEPT ![c] = <<>>]
  /\ toClient' = [toClient EXCEPT ![c] = <<>>]
  /\ UNCHANGED <<closed, lines, told>>

(* What is typed behind an exit token need not be sent. *)
Settle(c, m) ==
  /\ inTurn' = [inTurn EXCEPT ![c] = @ /\ owed[c] # <<>> /\ Head(owed[c]) = m]
  /\ owed' = [owed EXCEPT ![c] =
                IF m \in Exits \/ @ = <<>> THEN <<>> ELSE Tail(@)]

(* A line is sent as it is; an exit token is the last thing sent. *)
SendLine(c) ==
  /\ KeyboardReady(c)
  /\ stdio[c] \o keyboard[c] # <<>>
  /\ LET m == Head(stdio[c] \o keyboard[c])
     IN  /\ Send(c, m)
         /\ Settle(c, m)
         /\ IF m \in Exits
              THEN Ends(c, "done")
              ELSE /\ \E n \in Fills(c) : Fgets(c, n)
                   /\ UNCHANGED <<at, told, toClient>>
  /\ UNCHANGED <<serverVars, counters>>

(* fgets() returns NULL: the client ends without an exit token. *)
EndOfInput(c) ==
  /\ KeyboardReady(c)
  /\ stdio[c] \o keyboard[c] = <<>>
  /\ Ends(c, "gone")
  /\ UNCHANGED <<serverVars, owed, inTurn, toServer, counters>>

(* The client is killed, or select(), recvfrom() or sendto() fails and it  *)
(* ends, without an exit token.                                            *)
Vanish(c) ==
  /\ at[c] = "on"
  /\ MayFail
  /\ others' = others + 1
  /\ Ends(c, "failed")
  /\ UNCHANGED <<serverVars, owed, inTurn, toServer, losses, stops>>

-------------------------------------------------------------------------------
(* The network                                                             *)

Lose(c) ==
  /\ MayFail
  /\ losses' = losses + 1
  /\ \/ /\ toServer[c] # <<>>
        /\ toServer' = [toServer EXCEPT ![c] = Tail(@)]
        /\ UNCHANGED toClient
     \/ /\ toClient[c] # <<>>
        /\ toClient' = [toClient EXCEPT ![c] = Tail(@)]
        /\ UNCHANGED toServer
  /\ UNCHANGED <<serverVars, clientVars, stops, others>>

Duplicate(c) ==
  /\ MayFail
  /\ others' = others + 1
  /\ toServer[c] # <<>>
  /\ toServer' = [toServer EXCEPT ![c] = <<Head(@)>> \o @]
  /\ UNCHANGED <<serverVars, clientVars, toClient, losses, stops>>

(* What arrives where no server listens is discarded.  The client's        *)
(* socket is not connected: it never learns of it.                         *)
Discard(c) ==
  /\ ~up
  /\ toServer[c] # <<>>
  /\ toServer' = [toServer EXCEPT ![c] = Tail(@)]
  /\ UNCHANGED <<serverVars, clientVars, toClient, counters>>

-------------------------------------------------------------------------------
Init ==
  /\ up = TRUE /\ server_running = TRUE
  /\ clients = NoClients
  /\ heard = Silence
  /\ at = [c \in Addr |-> "off"]
  /\ told = [c \in Addr |-> FALSE]
  /\ keyboard = [c \in Addr |-> <<>>]
  /\ stdio = [c \in Addr |-> <<>>]
  /\ closed = [c \in Addr |-> FALSE]
  /\ lines = [c \in Addr |-> 0]
  /\ owed = [c \in Addr |-> <<>>]
  /\ inTurn = [c \in Addr |-> TRUE]
  /\ toServer = [c \in Addr |-> <<>>]
  /\ toClient = [c \in Addr |-> <<>>]
  /\ losses = 0 /\ stops = 0 /\ others = 0

ReadInput(c) == SendLine(c) \/ EndOfInput(c)

Next ==
  \/ \E c \in Addr :
       \/ Receive(c) \/ Launch(c) \/ Hear(c) \/ Type(c) \/ ReadInput(c)
       \/ Vanish(c) \/ Lose(c) \/ Duplicate(c) \/ Discard(c)
  \/ Exit \/ Signal \/ Crash \/ Start

(* The server takes what is in its socket, and a client turns to a         *)
(* descriptor that stays ready.  Nobody has to type.                       *)
Spec ==
  /\ Init /\ [][Next]_vars
  /\ WF_vars(\E c \in Addr : Receive(c))
  /\ \A c \in Addr : WF_vars(ReadInput(c))

-------------------------------------------------------------------------------
(* Properties *)

(* Types; and no client holds both slots, so that the other slot is never  *)
(* the sender itself.                                                      *)
TypeOK ==
  /\ {up, server_running} \subseteq BOOLEAN
  /\ clients \in [Slots -> Addr \cup {NoAddr}]
  /\ heard \in Addr \X Addr \cup {Silence}
  /\ at \in [Addr -> {"off", "on", "done", "gone", "failed"}]
  /\ {told, closed, inTurn} \subseteq [Addr -> BOOLEAN]
  /\ {keyboard, stdio, owed, toServer} \subseteq [Addr -> Seq(Text)]
  /\ toClient \in [Addr -> Seq({"connected", "full", "invalid", "text"})]
  /\ \A c \in Addr : lines[c] \in 0..MaxLines[c]
  /\ {losses, stops, others} \subseteq 0..MaxFaults
  /\ \A a \in Addr : Cardinality(find_client(a)) <= 1

P == INSTANCE Pair
       WITH Endpoint <- Addr, members <- {c \in Addr : Registered(c)}

(* The slots implement a conversation of at most two, in which a text goes *)
(* from one member to the other, whatever tokens are lost, repeated or     *)
(* typed, and whenever the server ends.                                    *)
PairPolicy == P!Spec

(* Nothing of client c is on its way. *)
Settled(c) == toServer[c] = <<>> /\ toClient[c] = <<>>

(* A client whose text would be ignored without an answer knows it: it was *)
(* shown that the server is full, or a datagram was lost, or the server    *)
(* was stopped.                                                            *)
IgnoredKnows ==
  \A c \in Addr :
    at[c] = "on" /\ Settled(c) /\ ~Registered(c)
      => told[c] \/ losses > 0 \/ stops > 0

(* A client that said @ or # leaves no slot behind, however often its      *)
(* datagrams are delivered: each slot it leaks is a datagram lost.         *)
LeaksAreLosses ==
  stops = 0 =>
    Cardinality({c \in Addr : /\ at[c] = "done"
                              /\ Settled(c)
                              /\ Registered(c)}) <= losses

(* Lines that one read() took along with another wait in stdin's buffer,   *)
(* where select() does not see them.  No line overtakes another or is sent *)
(* twice, and once the input has ended, each line typed up to an exit      *)
(* token is sent and the client ends, unless it is killed or a call of its *)
(* own fails.                                                              *)
InputDrains ==
  \A c \in Addr :
    closed[c] ~> \/ at[c] \in {"done", "gone"} /\ inTurn[c] /\ owed[c] = <<>>
                 \/ at[c] = "failed"
================================================================================
