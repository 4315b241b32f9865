------------------------------- MODULE Transfer --------------------------------
(***************************************************************************)
(* One connection of HW6: the client, the process the server forks for it, *)
(* and the two byte streams between them.  A stream to the server holds    *)
(* header lines and bytes of data, a stream to the client holds lines.     *)
(***************************************************************************)
EXTENDS Md5

CONSTANTS
  Data,        \* bytes of strings and files
  Alnum,       \* those that valid_string() accepts
  NL,          \* the newline
  CHUNK,       \* CHUNK_SIZE
  MAX_LINE,    \* MAX_LINE_SIZE
  Strings,     \* bound: strings that are typed
  Contents,    \* bound: contents of the files that are sent
  Names,       \* names of those files
  First,       \* what sscanf's %s takes of a name: its first word, or None
  None,
  MaxRequests, \* bound: requests
  MaxKills,    \* bound: processes killed
  MaxChanges   \* bound: files that change between stat() and fread()

ASSUME TransferAssumption ==
  /\ Side = {"client", "server"}
  /\ Alnum \subseteq Data /\ NL \in Data \ Alnum
  /\ Strings \subseteq Seq(Data \ {NL}) \ {<<>>}
  /\ Contents \subseteq Seq(Data)
  /\ First \in [Names -> Names \cup {None}] /\ None \notin Names
  /\ {CHUNK, MAX_LINE} \subseteq Nat \ {0}
  /\ {MaxRequests, MaxKills, MaxChanges, MaxFaults} \subseteq Nat

(* The header lines; no byte of data is mistaken for one. *)
Headers ==
  [kind : {"STR"}, size : Nat, name : {None}]
    \cup [kind : {"FILE"}, size : Nat, name : Names]

ASSUME HeaderAssumption == Data \cap Headers = {}

VARIABLES
  at,        \* where the client is
  unsent,    \* bytes of the string or file that it has not sent
  asked,     \* its last request: the name, None for a string, and all the bytes
  mine,      \* the digest it computed, then the letters it received
  verdict,   \* what it printed about the last answer
  child,     \* where the server's process is
  need,      \* bytes it still expects of the string or file
  word,      \* the name it saves the file under
  due,       \* the digest of which it still has to send the digits
  received,  \* received_files/: what is saved under each name
  source,    \* history: the file that was sent when it was last opened
  toServer, toClient,
  requests, kills, changes

clientVars == <<at, unsent, asked, mine, verdict, requests, changes>>
childVars  == <<child, need, word, due, received, source>>
vars == <<md5Vars, clientVars, childVars, toServer, toClient, kills>>

Waits == {"letters", "digits", "md5"}
Over  == {"done", "failed", "killed"}

Words == {First[n] : n \in Names} \ {None}

Min2(a, b) == IF a <= b THEN a ELSE b

Take(n) == toServer' = SubSeq(toServer, n + 1, Len(toServer))
Send(units) == toServer' = toServer \o units
Answer(kind, of) == toClient' = Append(toClient, [kind |-> kind, of |-> of])

-------------------------------------------------------------------------------
(* The client                                                              *)

Connect ==
  /\ at = "off"
  /\ at' = "menu"
  /\ UNCHANGED <<unsent, asked, mine, verdict, requests, changes>>
  /\ UNCHANGED <<md5Vars, childVars, toServer, toClient, kills>>

Ask(name, bytes, header) ==
  /\ at = "menu"
  /\ requests < MaxRequests
  /\ requests' = requests + 1
  /\ asked' = [name |-> name, bytes |-> bytes]
  /\ unsent' = bytes
  /\ verdict' = "none"
  /\ Send(<<header>>)
  /\ UNCHANGED <<mine, childVars, toClient, kills>>

(* send_string(): the menu and the prompt of mode 1 are one place here.    *)
TypeString(s) ==
  /\ Ask(None, s, [kind |-> "STR", size |-> Len(s), name |-> None])
  /\ at' = "text"
  /\ UNCHANGED <<changes, md5Vars>>

SendText ==
  /\ at = "text"
  /\ Send(unsent)
  /\ unsent' = <<>>
  /\ at' = "letters"
  /\ UNCHANGED <<asked, mine, verdict, requests, changes>>
  /\ UNCHANGED <<md5Vars, childVars, toClient, kills>>

(* send_file(): for a file that stat() refuses nothing happens.  The       *)
(* header has the size that stat() saw; the bytes are those that fread()   *)
(* finds.                                                                  *)
TypeFile(name, seen, bytes) ==
  /\ Ask(name, bytes, [kind |-> "FILE", size |-> Len(seen), name |-> name])
  /\ \/ bytes = seen /\ UNCHANGED changes
     \/ bytes # seen /\ changes < MaxChanges /\ changes' = changes + 1
  /\ at' = "opened"
  /\ UNCHANGED md5Vars

StartMd5 ==
  /\ at = "opened"
  /\ at' = "sending"
  /\ md5_init("client")
  /\ UNCHANGED <<unsent, asked, mine, verdict, requests, changes>>
  /\ UNCHANGED <<childVars, toServer, toClient, kills>>

Chunk == SubSeq(unsent, 1, Min2(CHUNK, Len(unsent)))

(* What md5_update() gets of a chunk that is sent. *)
Hashed(chunk) == chunk

SendChunk ==
  /\ at = "sending"
  /\ unsent # <<>>
  /\ Send(Chunk)
  /\ md5_update("client", Hashed(Chunk))
  /\ unsent' = SubSeq(unsent, Len(Chunk) + 1, Len(unsent))
  /\ UNCHANGED <<at, asked, mine, verdict, requests, changes>>
  /\ UNCHANGED <<childVars, toClient, kills>>

EndOfFile ==
  /\ at = "sending"
  /\ unsent = <<>>
  /\ \E d \in {Zeros, ctx["client"].data} \cup Truncated(ctx["client"].data) :
       /\ md5_final("client", d)
       /\ mine' = d
  /\ at' = "md5"
  /\ UNCHANGED <<unsent, asked, verdict, requests, changes>>
  /\ UNCHANGED <<childVars, toServer, toClient, kills>>

(* recv_line() returns: the next answer ends in a newline. *)
Line(kind) == toClient # <<>> /\ Head(toClient).kind = kind

Hear == toClient' = Tail(toClient)

Compare(d, e) == verdict' = IF d = e THEN "Match" ELSE "Mismatch"

HearError ==
  /\ at = "letters"
  /\ Line("error")
  /\ Hear
  /\ verdict' = "error"
  /\ at' = "menu"
  /\ UNCHANGED <<unsent, asked, mine, requests, changes>>
  /\ UNCHANGED <<md5Vars, childVars, toServer, kills>>

HearLetters ==
  /\ at = "letters"
  /\ Line("letters")
  /\ Hear
  /\ mine' = Head(toClient).of
  /\ at' = "digits"
  /\ UNCHANGED <<unsent, asked, verdict, requests, changes>>
  /\ UNCHANGED <<md5Vars, childVars, toServer, kills>>

HearDigits ==
  /\ at = "digits"
  /\ Line("digits")
  /\ Hear
  /\ \E d \in {Zeros, asked.bytes} \cup Truncated(asked.bytes) :
       /\ md5_string(asked.bytes, d)
       /\ Compare(<<d, d>>, <<mine, Head(toClient).of>>)
  /\ at' = "menu"
  /\ UNCHANGED <<unsent, asked, mine, requests, changes>>
  /\ UNCHANGED <<childVars, toServer, kills>>

HearMd5 ==
  /\ at = "md5"
  /\ Line("md5")
  /\ Hear
  /\ Compare(mine, Head(toClient).of)
  /\ at' = "menu"
  /\ UNCHANGED <<unsent, asked, mine, requests, changes>>
  /\ UNCHANGED <<md5Vars, childVars, toServer, kills>>

(* recv_line() or send_all() fails because the connection is closed. *)
Lost ==
  /\ child = "closed"
  /\ \/ at \in {"text", "opened", "sending"}
     \/ /\ at \in Waits
        /\ toClient = <<>> \/ Line("fragment")
  /\ at' = "failed"
  /\ Abandon("client")
  /\ UNCHANGED <<unsent, asked, mine, verdict, requests, changes, faults>>
  /\ UNCHANGED <<childVars, toServer, toClient, kills>>

(* fopen() fails, before anything is sent, or fread(). *)
ReadFails ==
  /\ at \in {"menu", "sending"}
  /\ Fault
  /\ at' = "failed"
  /\ Abandon("client")
  /\ UNCHANGED <<unsent, asked, mine, verdict, requests, changes>>
  /\ UNCHANGED <<childVars, toServer, toClient, kills>>

Exit ==
  /\ at = "menu"
  /\ at' = "done"
  /\ UNCHANGED <<unsent, asked, mine, verdict, requests, changes>>
  /\ UNCHANGED <<md5Vars, childVars, toServer, toClient, kills>>

Kill == kills < MaxKills /\ kills' = kills + 1

KillClient ==
  /\ at \notin {"off"} \cup Over
  /\ Kill
  /\ at' = "killed"
  /\ Abandon("client")
  /\ UNCHANGED <<unsent, asked, mine, verdict, requests, changes, faults>>
  /\ UNCHANGED <<childVars, toServer, toClient>>

ClientAuto ==
  \/ SendText
  \/ StartMd5
  \/ SendChunk
  \/ EndOfFile
  \/ HearError
  \/ HearLetters
  \/ HearDigits
  \/ HearMd5
  \/ Lost

ClientNext ==
  \/ Connect
  \/ \E s \in Strings : TypeString(s)
  \/ \E n \in Names, seen, bytes \in Contents : TypeFile(n, seen, bytes)
  \/ ClientAuto
  \/ ReadFails
  \/ Exit
  \/ KillClient

-------------------------------------------------------------------------------
(* The server's process                                                    *)

(* accept() and fork(); if fork() fails, the connection is closed.         *)
Accept ==
  /\ child = "none"
  /\ at # "off"
  /\ \/ child' = "header" /\ UNCHANGED faults
     \/ child' = "closed" /\ Fault
  /\ UNCHANGED <<need, word, due, received, source, ctx, leftovers>>
  /\ UNCHANGED <<clientVars, toServer, toClient, kills>>

(* recv_line() in serve_client() gets a header of the given kind. *)
Header(kind) ==
  /\ child = "header"
  /\ toServer # <<>>
  /\ Head(toServer) \notin Data
  /\ Head(toServer).kind = kind
  /\ Take(1)

TakeString ==
  /\ Header("STR")
  /\ need' = Head(toServer).size
  /\ child' = "string"
  /\ UNCHANGED <<word, due, received, source>>
  /\ UNCHANGED <<md5Vars, clientVars, toClient, kills>>

ReceiveString ==
  /\ child = "string"
  /\ Len(toServer) >= need
  /\ Take(need)
  /\ UNCHANGED <<need, word, received, source, clientVars, kills>>

valid_string(text) == \A i \in 1..Len(text) : text[i] \in Alnum

(* Mutant: both lines follow an error too. *)
RejectAndGoOn ==
  /\ ReceiveString
  /\ ~valid_string(SubSeq(toServer, 1, need))
  /\ Answer("error", Zeros)
  /\ due' = Zeros
  /\ child' = "digits"
  /\ UNCHANGED md5Vars

RejectString ==
  /\ ReceiveString
  /\ ~valid_string(SubSeq(toServer, 1, need))
  /\ Answer("error", Zeros)
  /\ child' = "header"
  /\ UNCHANGED <<due, md5Vars>>

SendLetters ==
  /\ ReceiveString
  /\ LET text == SubSeq(toServer, 1, need) IN
       /\ valid_string(text)
       /\ \E d \in {Zeros, text} \cup Truncated(text) :
            /\ md5_string(text, d)
            /\ Answer("letters", d)
            /\ due' = d
  /\ child' = "digits"

SendDigits ==
  /\ child = "digits"
  /\ Answer("digits", due)
  /\ child' = "header"
  /\ UNCHANGED <<need, word, due, received, source>>
  /\ UNCHANGED <<md5Vars, clientVars, toServer, kills>>

(* A name without a word: 26 of the 27 bytes of the answer are sent, and   *)
(* the newline is not among them.                                          *)
InvalidHeader ==
  /\ Header("FILE")
  /\ First[Head(toServer).name] = None
  /\ Answer("fragment", Zeros)
  /\ UNCHANGED <<child, need, word, due, received, source>>
  /\ UNCHANGED <<md5Vars, clientVars, kills>>

(* Mutant: opened for appending. *)
OpenedToAppend(w) ==
  /\ source' = [source EXCEPT ![w] = asked.bytes]
  /\ UNCHANGED received

(* fopen() for writing empties a file of that name. *)
Opened(w) ==
  /\ received' = [received EXCEPT ![w] = <<>>]
  /\ source' = [source EXCEPT ![w] = asked.bytes]

TakeFile ==
  /\ Header("FILE")
  /\ First[Head(toServer).name] # None
  /\ need' = Head(toServer).size
  /\ word' = First[Head(toServer).name]
  /\ Opened(First[Head(toServer).name])
  /\ md5_init("server")
  /\ child' = "file"
  /\ UNCHANGED <<due, clientVars, toClient, kills>>

(* mkdir(), snprintf() or fopen() fails. *)
CannotSave ==
  /\ Header("FILE")
  /\ First[Head(toServer).name] # None
  /\ Fault
  /\ child' = "closed"
  /\ UNCHANGED <<need, word, due, received, source, ctx, leftovers>>
  /\ UNCHANGED <<clientVars, toClient, kills>>

(* Mutant: recv_all() always waits for a full chunk. *)
FullChunk == CHUNK

Wanted == Min2(CHUNK, need)

(* Mutant: the last chunk is received but not written. *)
SaveAllButLast(bytes) ==
  /\ received' = [received EXCEPT ![word] = IF need <= CHUNK THEN @ ELSE bytes]
  /\ UNCHANGED source

Save(bytes) ==
  /\ received' = [received EXCEPT ![word] = bytes]
  /\ UNCHANGED source

ReceiveChunk ==
  /\ child = "file"
  /\ need > 0
  /\ Len(toServer) >= Wanted
  /\ Take(Wanted)
  /\ Save(received[word] \o SubSeq(toServer, 1, Wanted))
  /\ md5_update("server", SubSeq(toServer, 1, Wanted))
  /\ need' = need - Wanted
  /\ UNCHANGED <<child, word, due, clientVars, toClient, kills>>

WriteFails ==
  /\ child = "file"
  /\ need > 0
  /\ Len(toServer) >= Wanted
  /\ Take(Wanted)
  /\ Fault
  /\ \E kept \in Truncated(received[word] \o SubSeq(toServer, 1, Wanted)) :
       Save(kept)
  /\ Abandon("server")
  /\ child' = "closed"
  /\ UNCHANGED <<need, word, due, clientVars, toClient, kills>>

(* What the stream buffers may still be lost in fclose(), unnoticed. *)
CloseFile ==
  /\ child = "file"
  /\ need = 0
  /\ \/ UNCHANGED <<received, source, faults>>
     \/ Fault /\ \E kept \in Truncated(received[word]) : Save(kept)
  /\ child' = "saved"
  /\ UNCHANGED <<need, word, due, ctx, leftovers>>
  /\ UNCHANGED <<clientVars, toServer, toClient, kills>>

SendMd5 ==
  /\ child = "saved"
  /\ \E d \in {Zeros, ctx["server"].data} \cup Truncated(ctx["server"].data) :
       /\ md5_final("server", d)
       /\ Answer("md5", d)
  /\ child' = "header"
  /\ UNCHANGED <<need, word, due, received, source, clientVars, toServer, kills>>

(* What recv_line() reads is not a header: leftover bytes up to a newline  *)
(* or to a full buffer.                                                    *)
Garbage ==
  /\ child = "header"
  /\ toServer # <<>>
  /\ Head(toServer) \in Data
  /\ \/ \E i \in 1..Len(toServer) : toServer[i] \notin Data \ {NL}
     \/ Len(toServer) >= MAX_LINE - 1
  /\ child' = "closed"
  /\ UNCHANGED <<need, word, due, received, source>>
  /\ UNCHANGED <<md5Vars, clientVars, toServer, toClient, kills>>

(* recv() finds the stream closed by the client. *)
CutOff ==
  /\ at \in Over
  /\ \/ child = "header" /\ \A i \in 1..Len(toServer) : toServer[i] \in Data \ {NL}
     \/ child = "string" /\ Len(toServer) < need
     \/ child = "file" /\ Len(toServer) < Wanted
  /\ child' = "closed"
  /\ Abandon("server")
  /\ UNCHANGED <<need, word, due, received, source, faults>>
  /\ UNCHANGED <<clientVars, toServer, toClient, kills>>

(* A signal, or SIGPIPE in a send() to a client that is gone. *)
KillChild ==
  /\ child \notin {"none", "closed"}
  /\ IF at \in Over THEN UNCHANGED kills ELSE Kill
  /\ IF child = "file"
       THEN \E n \in 0..Len(received[word]) : Save(SubSeq(received[word], 1, n))
       ELSE UNCHANGED <<received, source>>
  /\ child' = "closed"
  /\ Abandon("server")
  /\ UNCHANGED <<need, word, due, faults, clientVars, toServer, toClient>>

ChildAuto ==
  \/ Accept
  \/ TakeString
  \/ RejectString
  \/ SendLetters
  \/ SendDigits
  \/ InvalidHeader
  \/ TakeFile
  \/ ReceiveChunk
  \/ CloseFile
  \/ SendMd5
  \/ Garbage
  \/ CutOff

ChildNext ==
  \/ ChildAuto
  \/ CannotSave
  \/ WriteFails
  \/ KillChild

(* A process that closes its socket with unread bytes in it resets the     *)
(* connection: what it sent before may not reach the other side.           *)
Reset ==
  \/ /\ child = "closed" /\ toServer # <<>> /\ toClient # <<>>
     /\ toClient' = <<>>
     /\ UNCHANGED <<toServer, clientVars, childVars, md5Vars, kills>>
  \/ /\ at \in Over /\ toClient # <<>> /\ toServer # <<>>
     /\ toServer' = <<>>
     /\ UNCHANGED <<toClient, clientVars, childVars, md5Vars, kills>>

Init ==
  /\ Md5Init
  /\ at = "off"
  /\ unsent = <<>>
  /\ asked = [name |-> None, bytes |-> <<>>]
  /\ mine = Zeros
  /\ verdict = "none"
  /\ child = "none"
  /\ need = 0
  /\ word = None
  /\ due = Zeros
  /\ received = [w \in Words |-> <<>>]
  /\ source = [w \in Words |-> <<>>]
  /\ toServer = <<>>
  /\ toClient = <<>>
  /\ requests = 0
  /\ kills = 0
  /\ changes = 0

Next == ClientNext \/ ChildNext \/ Reset

Spec == Init /\ [][Next]_vars

(* Both processes run; nobody has to type, and nothing has to fail.        *)
FairSpec == Spec /\ WF_vars(ClientAuto) /\ WF_vars(ChildAuto)

-------------------------------------------------------------------------------
(* Properties                                                              *)

Quiet == faults = 0 /\ kills = 0 /\ changes = 0

(* TCP has no message boundaries: the two sides stay in step, so that at   *)
(* the menu nothing is left of the last request or answer, whatever the    *)
(* answer was and whatever failed, while the connection is open.           *)
InStep ==
  at = "menu" /\ changes = 0 /\ child \notin {"none", "closed"} =>
    toServer = <<>> /\ toClient = <<>> /\ child = "header"

(* Check: Mismatch is printed only when something has really failed, and   *)
(* Match means that the file is saved whole under the first word of its    *)
(* name, if closing it did not fail unnoticed.                             *)
VerdictIsRight ==
  /\ verdict = "Mismatch" => faults > 0 \/ changes > 0
  /\ verdict = "Match" /\ asked.name # None /\ faults = 0 =>
       received[First[asked.name]] = asked.bytes

(* Whatever breaks off (the client killed or gone, the connection closed   *)
(* or reset, a write or fclose() that fails, the server's process killed), *)
(* what stands under a name in received_files/ is, at any time, a prefix of*)
(* the file for which that name was last opened: never bytes of a string, a*)
(* header, an earlier file or the next request.                            *)
SavedIsPrefix ==
  \A w \in Words :
    \E n \in 0..Len(source[w]) : received[w] = SubSeq(source[w], 1, n)

(* The temporary file of md5_init() lives no longer than its request; each *)
(* that is left over is explained by a process that was killed, a call     *)
(* that failed, or a connection that broke off.                            *)
NoTempLeft ==
  /\ at = "menu" => ~ctx["client"].open
  /\ child \in {"none", "header", "closed"} => ~ctx["server"].open
  /\ leftovers > 0 => ~Quiet \/ at = "failed"

(* A request is answered, or the connection ends, unless the name of the   *)
(* file is blank or the file changed while it was sent.                    *)
Answered ==
  at \in Waits ~> \/ at \notin Waits
                  \/ asked.name # None /\ First[asked.name] = None
                  \/ changes > 0

(* A request is answered (README.md:105: what the server answers to a file *)
(* it refuses is a line that ends in a newline).                           *)
AlwaysAnswered == at \in Waits ~> at \notin Waits
================================================================================
