------------------------------ MODULE AuthServer ------------------------------
(***************************************************************************)
(* The HW5 UDP authentication server: the session table (IP and port ->    *)
(* login state), the accounts in memory, account.txt on disk, the handler  *)
(* of one datagram, SIGINT, crashes and restarts.                          *)
(*                                                                         *)
(* The server is one thread: a datagram is handled to its end before the   *)
(* next recvfrom(), so each branch of process_datagram() is one action.    *)
(***************************************************************************)
EXTENDS Integers, Sequences, FiniteSets, AuthMessages

CONSTANTS
  Stored,        \* Stored[m]: m as it fits a USERNAME_SIZE buffer
  MaxSessions,
  MaxAccounts,
  Malformed,     \* a line of account.txt that fscanf() cannot parse
  InitialFiles,  \* the contents account.txt may have at the first start
  NoAddr,        \* the zeroed address of a slot never used
  NoReply        \* nothing has been sent since the last start

(* One line of account.txt.  The status is any integer %d reads. *)
FileRecord == [username : Text, password : Text, status : Int]

ASSUME SizesAssumption ==
  /\ MaxSessions \in Nat \ {0}
  /\ MaxAccounts \in Nat \ {0}

ASSUME StoredAssumption == Stored \in [Text -> Text]

ASSUME AddrAssumption == NoAddr \notin Addr

(* account.txt holds usernames that fit the buffer they are read into. *)
ASSUME FileAssumption ==
  /\ Malformed \notin FileRecord
  /\ InitialFiles \subseteq Seq(FileRecord \cup {Malformed})
  /\ \A f \in InitialFiles : \A i \in 1..Len(f) :
        f[i] # Malformed => Stored[f[i].username] = f[i].username

VARIABLES
  up,              \* the server process exists
  server_running,  \* the flag that SIGINT clears
  accounts,        \* the account array, account_count entries long
  sessions,        \* the session table
  accountFile,     \* account.txt: the lines that reached the disk
  saved,           \* what the last save_accounts() returned; TRUE after a load
  reply            \* the last datagram sent, and to whom

serverVars ==
  <<up, server_running, accounts, sessions, accountFile, saved, reply>>

-------------------------------------------------------------------------------
(* Accounts: server_account.c                                              *)

NULL == 0

MaxFailed == 3

Account == [username : Text, password : Text, status : {0, 1},
            failed_attempts : 0 .. MaxFailed]

First(S) == CHOOSE i \in S : \A j \in S : i <= j

(* fscanf() reads whole records until one does not parse, the file ends or *)
(* the array is full.                                                      *)
Readable(f, n) ==
  /\ n <= MaxAccounts
  /\ \A i \in 1..n : f[i] # Malformed

RecordCount(f) ==
  CHOOSE n \in 0..Len(f) :
    /\ Readable(f, n)
    /\ n < Len(f) => ~Readable(f, n + 1)

(* Mutant: the status of the file is ignored at start. *)
LoadActive(r) ==
  [username |-> r.username, password |-> r.password,
   status |-> 1, failed_attempts |-> 0]

LoadRecord(r) ==
  [username |-> r.username, password |-> r.password,
   status |-> IF r.status = 0 THEN 0 ELSE 1, failed_attempts |-> 0]

Load(f) == [i \in 1..RecordCount(f) |-> LoadRecord(f[i])]

Line(x) ==
  [username |-> x.username, password |-> x.password, status |-> x.status]

(* The first n lines that save_accounts() writes for the array t. *)
Lines(t, n) == [i \in 1..n |-> Line(t[i])]

(* save_accounts(t): fopen() fails and the file keeps its content; or it   *)
(* is truncated and all lines, or (a write or fclose() fails) only the     *)
(* first few, reach the disk.  A line cut short does not parse: it counts  *)
(* as absent.                                                              *)
SaveAccounts(t) ==
  \/ /\ saved' = TRUE
     /\ accountFile' = Lines(t, Len(t))
  \/ /\ saved' = FALSE
     /\ \/ accountFile' = accountFile
        \/ \E n \in 0..Len(t) : accountFile' = Lines(t, n)

Named(t, m) == {i \in 1..Len(t) : t[i].username = m}

FindAccount(t, m) ==
  IF Named(t, m) = {} THEN NULL ELSE First(Named(t, m))

-------------------------------------------------------------------------------
(* Sessions: server_session.c                                              *)

Slots == 1..MaxSessions

SessionState == {"WAIT_USERNAME", "WAIT_PASSWORD", "LOGGED_IN"}

Session == [active : BOOLEAN, address : Addr \cup {NoAddr}, username : Text,
            account : 0..MaxAccounts, state : SessionState]

NewSession(a) ==
  [active |-> TRUE, address |-> a, username |-> Empty,
   account |-> NULL, state |-> "WAIT_USERNAME"]

ZeroSession ==
  [active |-> FALSE, address |-> NoAddr, username |-> Empty,
   account |-> NULL, state |-> "WAIT_USERNAME"]

ZeroSessions == [s \in Slots |-> ZeroSession]

(* Mutant: logged-in sessions are not searched. *)
FindUnauthenticated(a) ==
  {s \in Slots : /\ sessions[s].active
                 /\ sessions[s].address = a
                 /\ sessions[s].state # "LOGGED_IN"}

FindSession(a) == {s \in Slots : sessions[s].active /\ sessions[s].address = a}

FreeSlots == {s \in Slots : ~sessions[s].active}

(* get_session(a): the slot that holds the session of a, or the first free *)
(* one, freshly initialised.                                               *)
HasSlot(a) == FindSession(a) # {} \/ FreeSlots # {}

SlotOf(a) == First(IF FindSession(a) # {} THEN FindSession(a) ELSE FreeSlots)

SessionOf(a) ==
  IF FindSession(a) # {} THEN sessions[SlotOf(a)] ELSE NewSession(a)

-------------------------------------------------------------------------------
(* Replies and the main loop: server.c                                     *)

SendAbout(a, kind, of) == reply' = [to |-> a, kind |-> kind, of |-> of]

Send(a, kind) == SendAbout(a, kind, Empty)

(* The process ends and its memory is gone. *)
Halt ==
  /\ up' = FALSE
  /\ server_running' = FALSE
  /\ accounts' = <<>>
  /\ sessions' = ZeroSessions

(* Mutant: the loop never looks at the flag. *)
LoopForever(t, tbl) ==
  /\ accounts' = t
  /\ sessions' = tbl
  /\ UNCHANGED <<up, server_running>>

(* The loop test once a datagram has been handled, leaving the accounts t  *)
(* and the sessions tbl: the loop goes on unless SIGINT cleared the flag.  *)
LoopWith(t, tbl) ==
  \/ /\ server_running
     /\ accounts' = t
     /\ sessions' = tbl
     /\ UNCHANGED <<up, server_running>>
  \/ /\ ~server_running
     /\ Halt

With(a, ses) == [sessions EXCEPT ![SlotOf(a)] = ses]

(* Mutant: no answer when the table is full. *)
NeverBusy(a) == a \notin Addr /\ UNCHANGED serverVars

ServerBusy(a) ==
  /\ up
  /\ ~HasSlot(a)
  /\ Send(a, "Server busy")
  /\ LoopWith(accounts, sessions)
  /\ UNCHANGED <<accountFile, saved>>

-------------------------------------------------------------------------------
(* The branches of process_datagram(): server_protocol.c                   *)

(* The datagram is for a session in state st. *)
Handling(a, st) == up /\ HasSlot(a) /\ SessionOf(a).state = st

TakeUsername(a, m) ==
  /\ Handling(a, "WAIT_USERNAME")
  /\ LoopWith(accounts,
              With(a, [SessionOf(a) EXCEPT
                         !.username = Stored[m],
                         !.account  = FindAccount(accounts, m),
                         !.state    = "WAIT_PASSWORD"]))
  /\ Send(a, "Insert password")
  /\ UNCHANGED <<accountFile, saved>>

(* Mutant: after a refusal the session goes on waiting for a password. *)
RefusedInPlace(a) == With(a, [SessionOf(a) EXCEPT !.account = NULL])

(* Every refusal sends the session back to its start. *)
Refused(a) ==
  With(a, [SessionOf(a) EXCEPT !.state = "WAIT_USERNAME", !.account = NULL])

NotReady(a) ==
  /\ Handling(a, "WAIT_PASSWORD")
  /\ SessionOf(a).account # NULL
  /\ accounts[SessionOf(a).account].status = 0
  /\ Send(a, "Account not ready")
  /\ LoopWith(accounts, Refused(a))
  /\ UNCHANGED <<accountFile, saved>>

UnknownUser(a) ==
  /\ Handling(a, "WAIT_PASSWORD")
  /\ SessionOf(a).account = NULL
  /\ Send(a, "Not OK")
  /\ LoopWith(accounts, Refused(a))
  /\ UNCHANGED <<accountFile, saved>>

(* Mutant: the status is not looked at. *)
CheckingAnyStatus(a, i) ==
  /\ Handling(a, "WAIT_PASSWORD")
  /\ i = SessionOf(a).account
  /\ i # NULL

(* The password m is compared for account i, which is not blocked. *)
Checking(a, i) ==
  /\ Handling(a, "WAIT_PASSWORD")
  /\ i = SessionOf(a).account
  /\ i # NULL
  /\ accounts[i].status # 0

LogIn(a, m, i) ==
  /\ Checking(a, i)
  /\ accounts[i].password = m
  /\ LoopWith([accounts EXCEPT ![i].failed_attempts = 0],
              With(a, [SessionOf(a) EXCEPT !.state = "LOGGED_IN"]))
  /\ Send(a, "OK")
  /\ UNCHANGED <<accountFile, saved>>

WrongPassword(a, m, i) ==
  /\ Checking(a, i)
  /\ accounts[i].password # m

(* Mutant: failures are counted without a threshold. *)
CountWithoutLimit(a, m, i) ==
  /\ WrongPassword(a, m, i)
  /\ LoopWith([accounts EXCEPT ![i].failed_attempts = @ + 1], Refused(a))
  /\ Send(a, "Not OK")
  /\ UNCHANGED <<accountFile, saved>>

(* Mutant: a failure is counted twice. *)
CountTwice(a, m, i) ==
  /\ WrongPassword(a, m, i)
  /\ accounts[i].failed_attempts + 1 < MaxFailed
  /\ LoopWith([accounts EXCEPT ![i].failed_attempts = @ + 2], Refused(a))
  /\ Send(a, "Not OK")
  /\ UNCHANGED <<accountFile, saved>>

CountFailure(a, m, i) ==
  /\ WrongPassword(a, m, i)
  /\ accounts[i].failed_attempts + 1 < MaxFailed
  /\ LoopWith([accounts EXCEPT ![i].failed_attempts = @ + 1], Refused(a))
  /\ Send(a, "Not OK")
  /\ UNCHANGED <<accountFile, saved>>

(* Mutant: the failure is counted but the status is left alone. *)
BlockedInNameOnly(i) == [accounts EXCEPT ![i].failed_attempts = @ + 1]

(* The accounts after the failure that blocks account i. *)
Blocked(i) ==
  [accounts EXCEPT ![i].failed_attempts = @ + 1, ![i].status = 0]

LastFailure(a, m, i) ==
  /\ WrongPassword(a, m, i)
  /\ accounts[i].failed_attempts + 1 >= MaxFailed

(* Mutant: the file is written before the status is cleared. *)
SaveThenBlock(a, m, i) ==
  /\ LastFailure(a, m, i)
  /\ SaveAccounts(accounts)
  /\ LoopWith(Blocked(i), Refused(a))
  /\ Send(a, "Account is blocked")

BlockAccount(a, m, i) ==
  /\ LastFailure(a, m, i)
  /\ SaveAccounts(Blocked(i))
  /\ LoopWith(Blocked(i), Refused(a))
  /\ Send(a, "Account is blocked")

(* Mutant: the slot is not released. *)
LogOutKeepsSlot(a, m) ==
  /\ Handling(a, "LOGGED_IN")
  /\ m \in {Empty, Bye}
  /\ SendAbout(a, "Goodbye", SessionOf(a).username)
  /\ LoopWith(accounts, sessions)
  /\ UNCHANGED <<accountFile, saved>>

LogOut(a, m) ==
  /\ Handling(a, "LOGGED_IN")
  /\ m \in {Empty, Bye}
  /\ SendAbout(a, "Goodbye", SessionOf(a).username)
  /\ LoopWith(accounts, With(a, [SessionOf(a) EXCEPT !.active = FALSE]))
  /\ UNCHANGED <<accountFile, saved>>

RejectText(a, m) ==
  /\ Handling(a, "LOGGED_IN")
  /\ m \notin {Empty, Bye} /\ ~is_alphanumeric(m)
  /\ Send(a, "Error")
  /\ LoopWith(accounts, sessions)
  /\ UNCHANGED <<accountFile, saved>>

HashText(a, m) ==
  /\ Handling(a, "LOGGED_IN")
  /\ m # Bye /\ is_alphanumeric(m)
  /\ SendAbout(a, "hash", m)
  /\ LoopWith(accounts, sessions)
  /\ UNCHANGED <<accountFile, saved>>

(* One datagram m from a, from recvfrom() to the loop test. *)
Receive(a, m) ==
  \/ ServerBusy(a)
  \/ TakeUsername(a, m)
  \/ NotReady(a)
  \/ UnknownUser(a)
  \/ \E i \in 1..Len(accounts) :
       LogIn(a, m, i) \/ CountFailure(a, m, i) \/ BlockAccount(a, m, i)
  \/ LogOut(a, m)
  \/ RejectText(a, m)
  \/ HashText(a, m)

-------------------------------------------------------------------------------
(* The life of the process.                                                *)

(* SIGINT.  signal() installs the handler with SA_RESTART, so a blocked    *)
(* recvfrom() goes on waiting: the flag is seen after the next datagram.   *)
handle_signal ==
  /\ up /\ server_running
  /\ server_running' = FALSE
  /\ UNCHANGED <<up, accounts, sessions, accountFile, saved, reply>>

(* kill -9, a power cut, or a failing recvfrom(). *)
Crash ==
  /\ up
  /\ Halt
  /\ UNCHANGED <<accountFile, saved, reply>>

(* The same while account.txt is open for writing: the first lines at most *)
(* have reached the disk and no answer is sent.                            *)
CrashInSave(a, m, i) ==
  /\ LastFailure(a, m, i)
  /\ \E n \in 0..Len(accounts) : accountFile' = Lines(Blocked(i), n)
  /\ Halt
  /\ UNCHANGED <<saved, reply>>

Start ==
  /\ ~up
  /\ up' = TRUE
  /\ server_running' = TRUE
  /\ accounts' = Load(accountFile)
  /\ sessions' = ZeroSessions
  /\ saved' = TRUE
  /\ reply' = NoReply
  /\ UNCHANGED accountFile

ServerInit ==
  /\ accountFile \in InitialFiles
  /\ up = TRUE
  /\ server_running = TRUE
  /\ accounts = Load(accountFile)
  /\ sessions = ZeroSessions
  /\ saved = TRUE
  /\ reply = NoReply

ServerNext ==
  \/ \E a \in Addr, m \in Text :
       \/ Receive(a, m)
       \/ \E i \in 1..Len(accounts) : CrashInSave(a, m, i)
  \/ handle_signal
  \/ Crash
  \/ Start

ServerSpec == ServerInit /\ [][ServerNext]_serverVars

-------------------------------------------------------------------------------
(* Properties                                                              *)

(* Every variable holds a value of the C type it stands for, and a process *)
(* that has ended has no memory.                                           *)
TypeOK ==
  /\ up \in BOOLEAN
  /\ server_running \in BOOLEAN
  /\ accounts \in Seq(Account)
  /\ Len(accounts) <= MaxAccounts
  /\ sessions \in [Slots -> Session]
  /\ accountFile \in Seq(FileRecord \cup {Malformed})
  /\ saved \in BOOLEAN
  /\ reply \in Reply \cup {NoReply}
  /\ ~up => accounts = <<>> /\ sessions = ZeroSessions /\ ~server_running

(* Failures counted from several sessions of one account never leave it    *)
(* usable after the third in a row: an account with three is blocked, and  *)
(* the counter stops there.                                                *)
LockoutThreshold ==
  \A i \in 1..Len(accounts) :
    accounts[i].failed_attempts >= MaxFailed => accounts[i].status = 0

(* A client endpoint owns at most one slot of the table, whatever slots    *)
(* were freed and reused between its datagrams.                            *)
OneSessionPerClient ==
  \A s, t \in Slots :
    /\ sessions[s].active /\ sessions[t].active
    /\ sessions[s].address = sessions[t].address
    => s = t

(* What a session may say about its account, given the accounts t. *)
Bound(t, ses) ==
  /\ ses.state = "WAIT_USERNAME" => ses.account = NULL
  /\ ses.state = "LOGGED_IN" => ses.account # NULL
  /\ ses.account # NULL => ses.account = FindAccount(t, ses.username)

(* The account a session points to is the one the session's username names *)
(* - the first with that name - and only a session that waits for a        *)
(* username, or that named nobody, points to none.  The Goodbye of a       *)
(* logged-in session therefore names the account that was authenticated.   *)
SessionBinding ==
  \A s \in Slots : sessions[s].active => Bound(accounts, sessions[s])

(* Each client has at most one session, and what that session says of its  *)
(* account is what the username in it says.                                *)
SessionsAreSound == OneSessionPerClient /\ SessionBinding

(* While the last save succeeded, the file and the memory agree: starting  *)
(* again now would load the same accounts with the same status.            *)
FileAgrees ==
  up /\ saved =>
    /\ Len(accounts) = RecordCount(accountFile)
    /\ \A i \in 1..Len(accounts) :
         Line(accounts[i]) = Line(LoadRecord(accountFile[i]))

(* Whatever saves, crashes and restarts come in between, line i of the     *)
(* file stays the line of one user with one password, and a blocked line   *)
(* never changes: a save loses lines or blocks them, it never mixes them.  *)
LinesEndure ==
  [][\A i \in 1..Len(accountFile) \cap 1..Len(accountFile') :
       accountFile'[i] # accountFile[i] =>
         /\ accountFile[i].status # 0
         /\ accountFile'[i].username = accountFile[i].username
         /\ accountFile'[i].password = accountFile[i].password
    ]_accountFile
===============================================================================
