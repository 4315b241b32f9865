---------------------------------- MODULE AuthProofs ---------------------------
(***************************************************************************)
(* Theorems about HW5, for every value of the constants: the types and     *)
(* sessions of the server, its file, the lockout policy it implements, and *)
(* the dialogue of each client, which stays in step with its session.      *)
(***************************************************************************)
EXTENDS AuthSystem, AuthLockout, DataFacts

LOCAL INSTANCE BagsExt

Less == {p \in Nat \X Nat : p[1] < p[2]}

(* First(S) is the least element of a nonempty set of naturals. *)
LEMMA FirstIsLeast ==
  ASSUME NEW S, S \subseteq Nat, S # {}
  PROVE  First(S) \in S /\ \A j \in S : First(S) <= j
<1>1. IsWellFoundedOn(Less, Nat)
  BY NatLessThanWellFounded DEF OpToRel, Less
<1>2. PICK x \in S : \A y \in S : ~(<<y, x>> \in Less)
  BY <1>1, WFMin
<1>3. \A y \in S : x <= y
  <2>1. SUFFICES ASSUME NEW y \in S PROVE x <= y
    OBVIOUS
  <2>2. x \in Nat /\ y \in Nat
    OBVIOUS
  <2>3. ~(y < x)
    BY <1>2, <2>2 DEF Less
  <2>4. QED
    BY <2>2, <2>3
<1>4. QED
  BY <1>3 DEF First

(* Loading stops: RecordCount(f) is the length of the longest readable     *)
(* prefix.                                                                 *)
LEMMA RecordCountReadable ==
  ASSUME NEW f, Len(f) \in Nat
  PROVE  /\ RecordCount(f) \in 0..Len(f)
         /\ Readable(f, RecordCount(f))
<1> DEFINE Stop == {n \in 0..Len(f) : n < Len(f) => ~Readable(f, n + 1)}
<1>1. Stop \subseteq Nat /\ Len(f) \in Stop
  OBVIOUS
<1>2. PICK n \in Stop : \A j \in Stop : n <= j
  BY <1>1, FirstIsLeast
<1>3. Readable(f, n)
  <2>1. CASE n = 0
    BY <2>1, SizesAssumption DEF Readable
  <2>2. CASE n # 0
    <3>1. n - 1 \in 0..Len(f) /\ n - 1 < Len(f) /\ n - 1 \notin Stop
      BY <1>2, <2>2
    <3>2. Readable(f, (n - 1) + 1)
      BY <3>1
    <3>3. QED
      BY <3>2, <1>2
  <2>3. QED
    BY <2>1, <2>2
<1>4. \E k \in 0..Len(f) : Readable(f, k) /\ (k < Len(f) => ~Readable(f, k + 1))
  BY <1>2, <1>3
<1>5. QED
  BY <1>4 DEF RecordCount

(* find_account() returns NULL or the first account with that name. *)
LEMMA FindAccountFirst ==
  ASSUME NEW t, Len(t) \in Nat, NEW m
  PROVE  /\ FindAccount(t, m) \in 0..Len(t)
         /\ FindAccount(t, m) = NULL <=> Named(t, m) = {}
         /\ FindAccount(t, m) # NULL => FindAccount(t, m) \in Named(t, m)
<1>1. Named(t, m) \subseteq Nat \ {0} /\ Named(t, m) \subseteq 0..Len(t)
  BY DEF Named
<1>2. Named(t, m) # {} => First(Named(t, m)) \in Named(t, m)
  BY <1>1, FirstIsLeast
<1>3. QED
  BY <1>1, <1>2 DEF FindAccount, NULL

(* What find_account() returns depends on the usernames alone. *)
SameNames(t, u) ==
  /\ Len(u) = Len(t)
  /\ \A i \in 1..Len(t) : u[i].username = t[i].username

LEMMA FindAccountSameNames ==
  ASSUME NEW t, NEW u, SameNames(t, u), NEW m
  PROVE  FindAccount(u, m) = FindAccount(t, m)
BY DEF SameNames, FindAccount, Named

(* A loaded array is well typed, fits, and counts no failure. *)
LEMMA LoadType ==
  ASSUME NEW f \in Seq(FileRecord \cup {Malformed})
  PROVE  /\ Load(f) \in Seq(Account)
         /\ Len(Load(f)) = RecordCount(f)
         /\ Len(Load(f)) <= MaxAccounts
         /\ \A i \in 1..Len(Load(f)) :
              Load(f)[i] = LoadRecord(f[i]) /\ f[i] \in FileRecord
<1>1. /\ RecordCount(f) \in 0..Len(f)
      /\ Readable(f, RecordCount(f))
  BY RecordCountReadable
<1>2. \A i \in 1..RecordCount(f) : f[i] \in FileRecord
  BY <1>1 DEF Readable
<1>3. \A i \in 1..RecordCount(f) : LoadRecord(f[i]) \in Account
  BY <1>2 DEF LoadRecord, FileRecord, Account, MaxFailed
<1>4. RecordCount(f) \in Nat /\ RecordCount(f) <= MaxAccounts
  BY <1>1 DEF Readable
<1>5. QED
  BY <1>2, <1>3, <1>4 DEF Load

(* Lines of an account array are lines of the file format. *)
LEMMA LinesType ==
  ASSUME NEW t \in Seq(Account), NEW n \in 0..Len(t)
  PROVE  Lines(t, n) \in Seq(FileRecord \cup {Malformed})
<1>1. ASSUME NEW i \in 1..n
      PROVE  Line(t[i]) \in FileRecord
  <2>1. t[i] \in Account
    OBVIOUS
  <2>2. QED
    BY <2>1 DEF Line, FileRecord, Account
<1>2. QED
  BY <1>1 DEF Lines

-------------------------------------------------------------------------------
(* What get_session() returns.                                             *)

LEMMA GetSession ==
  ASSUME TypeOK, NEW a \in Addr, HasSlot(a)
  PROVE  /\ SlotOf(a) \in Slots
         /\ FindSession(a) # {} => SlotOf(a) \in FindSession(a)
         /\ FindSession(a) = {} => SlotOf(a) \in FreeSlots
         /\ SessionOf(a) \in Session
         /\ SessionOf(a).address = a
<1>1. /\ FindSession(a) \subseteq Slots
      /\ FreeSlots \subseteq Slots
      /\ Slots \subseteq Nat
  BY SizesAssumption DEF FindSession, FreeSlots, Slots
<1>2. /\ FindSession(a) # {} => SlotOf(a) \in FindSession(a)
      /\ FindSession(a) = {} => SlotOf(a) \in FreeSlots
  BY <1>1, FirstIsLeast DEF HasSlot, SlotOf
<1>3. NewSession(a) \in Session /\ NewSession(a).address = a
  BY TextAssumption, SizesAssumption
  DEF NewSession, Session, NULL, SessionState
<1>4. FindSession(a) # {} =>
        sessions[SlotOf(a)] \in Session /\ sessions[SlotOf(a)].address = a
  BY <1>2 DEF FindSession, TypeOK
<1>5. QED
  BY <1>1, <1>2, <1>3, <1>4 DEF SessionOf

LEMMA ZeroSessionsType == ZeroSessions \in [Slots -> Session]
BY TextAssumption, SizesAssumption
DEF ZeroSessions, ZeroSession, Session, NULL, SessionState

-------------------------------------------------------------------------------
(* Types                                                                   *)

(* The counter stays in range only because an account that reaches the     *)
(* limit is blocked and a blocked one is not counted: the type invariant   *)
(* is inductive together with LockoutThreshold.                            *)
TypeInv == TypeOK /\ LockoutThreshold

BlockedAtLimit(t) ==
  \A i \in 1..Len(t) : t[i].failed_attempts >= MaxFailed => t[i].status = 0

(* The loop test keeps the invariant if the handler did. *)
LEMMA LoopType ==
  ASSUME TypeOK, up, NEW t \in Seq(Account), Len(t) <= MaxAccounts,
         BlockedAtLimit(t),
         NEW tbl \in [Slots -> Session], LoopWith(t, tbl),
         accountFile' \in Seq(FileRecord \cup {Malformed}),
         saved' \in BOOLEAN, reply' \in Reply
  PROVE  TypeInv'
<1>1. CASE server_running
  <2>1. accounts' = t /\ sessions' = tbl /\ up' /\ server_running'
    BY <1>1 DEF LoopWith
  <2>2. LockoutThreshold'
    BY <2>1 DEF LockoutThreshold, BlockedAtLimit
  <2>3. TypeOK'
    BY <2>1 DEF TypeOK
  <2>4. QED
    BY <2>2, <2>3 DEF TypeInv
<1>2. CASE ~server_running
  <2>1. <<>> \in Seq(Account) /\ Len(<<>>) = 0
    OBVIOUS
  <2>2. Halt
    BY <1>2 DEF LoopWith
  <2>3. TypeOK'
    <3>1. /\ up' = FALSE /\ server_running' = FALSE
          /\ accounts' = <<>> /\ sessions' = ZeroSessions
      BY <2>2 DEF Halt
    <3>2. 0 <= MaxAccounts
      BY SizesAssumption
    <3>3. QED
      BY <2>1, <3>1, <3>2, ZeroSessionsType DEF TypeOK
  <2>4. LockoutThreshold'
    BY <2>1, <2>2 DEF Halt, LockoutThreshold
  <2>5. QED
    BY <2>3, <2>4 DEF TypeInv
<1>3. QED
  BY <1>1, <1>2 DEF TypeOK

(* Storing a session into the slot of a keeps the table well typed. *)
LEMMA WithType ==
  ASSUME TypeOK, NEW a \in Addr, HasSlot(a), NEW ses \in Session
  PROVE  With(a, ses) \in [Slots -> Session]
BY GetSession DEF With, TypeOK

LEMMA SendType ==
  ASSUME NEW a \in Addr, NEW kind \in ReplyKind, NEW of \in Text,
         SendAbout(a, kind, of)
  PROVE  reply' \in Reply
BY DEF SendAbout, Reply

LEMMA RefusedType ==
  ASSUME TypeOK, NEW a \in Addr, HasSlot(a)
  PROVE  Refused(a) \in [Slots -> Session]
<1>1. [SessionOf(a) EXCEPT !.state = "WAIT_USERNAME", !.account = NULL]
        \in Session
  <2> DEFINE x == [SessionOf(a) EXCEPT !.state = "WAIT_USERNAME"]
  <2>1. SessionOf(a) \in Session
    BY GetSession
  <2>2. x \in Session
    BY <2>1 DEF Session, SessionState
  <2>3. NULL \in 0..MaxAccounts
    BY SizesAssumption DEF NULL
  <2> HIDE DEF x
  <2>4. [x EXCEPT !.account = NULL] \in Session
    BY <2>2, <2>3 DEF Session
  <2>5. QED
    BY <2>4 DEF x
<1>2. QED
  BY <1>1, WithType DEF Refused

(* The account array after a failure that is not the last one, after a     *)
(* login and after the failure that blocks.                                *)
LEMMA AccountUpdates ==
  ASSUME TypeInv, NEW i \in 1..Len(accounts), accounts[i].status # 0
  PROVE  /\ accounts[i].failed_attempts + 1 < MaxFailed =>
              LET t == [accounts EXCEPT ![i].failed_attempts = @ + 1]
              IN  /\ t \in Seq(Account) /\ BlockedAtLimit(t)
                  /\ SameNames(accounts, t)
         /\ LET t == [accounts EXCEPT ![i].failed_attempts = 0]
            IN  /\ t \in Seq(Account) /\ BlockedAtLimit(t)
                /\ SameNames(accounts, t)
         /\ /\ Blocked(i) \in Seq(Account) /\ BlockedAtLimit(Blocked(i))
            /\ SameNames(accounts, Blocked(i))
<1>1. /\ accounts \in Seq(Account)
      /\ accounts[i] \in Account
      /\ accounts[i].failed_attempts < MaxFailed
      /\ BlockedAtLimit(accounts)
  <2>1. accounts \in Seq(Account) /\ BlockedAtLimit(accounts)
    BY DEF TypeInv, TypeOK, LockoutThreshold, BlockedAtLimit
  <2>2. accounts[i] \in Account
    BY <2>1
  <2>3. ~(accounts[i].failed_attempts >= MaxFailed)
    BY <2>1 DEF BlockedAtLimit
  <2>4. accounts[i].failed_attempts \in Int /\ MaxFailed \in Int
    BY <2>2 DEF Account, MaxFailed
  <2>5. QED
    BY <2>1, <2>2, <2>3, <2>4
<1>2. ASSUME NEW x \in Account, x.username = accounts[i].username,
             x.failed_attempts >= MaxFailed => x.status = 0
      PROVE  /\ [accounts EXCEPT ![i] = x] \in Seq(Account)
             /\ BlockedAtLimit([accounts EXCEPT ![i] = x])
             /\ SameNames(accounts, [accounts EXCEPT ![i] = x])
  BY <1>1, <1>2 DEF BlockedAtLimit, SameNames
<1>3. accounts[i].failed_attempts + 1 < MaxFailed =>
        LET x == [accounts[i] EXCEPT !.failed_attempts = @ + 1]
        IN  /\ x \in Account /\ x.username = accounts[i].username
            /\ x.failed_attempts < MaxFailed
  BY <1>1 DEF Account, MaxFailed
<1>4. LET x == [accounts[i] EXCEPT !.failed_attempts = 0]
      IN  /\ x \in Account /\ x.username = accounts[i].username
          /\ x.failed_attempts < MaxFailed
  BY <1>1 DEF Account, MaxFailed
<1>5. LET x == [accounts[i] EXCEPT !.failed_attempts = @ + 1, !.status = 0]
      IN  /\ x \in Account /\ x.username = accounts[i].username
          /\ x.status = 0
  <2> DEFINE y == [accounts[i] EXCEPT !.failed_attempts = @ + 1]
             x == [y EXCEPT !.status = 0]
  <2>1. y \in Account /\ y.username = accounts[i].username
    BY <1>1 DEF Account, MaxFailed
  <2>2. x \in Account /\ x.username = y.username /\ x.status = 0
    <3> HIDE DEF y
    <3>1. QED
      BY <2>1 DEF Account
  <2>3. QED
    BY <2>1, <2>2
<1>6. Blocked(i) =
        [accounts EXCEPT ![i] =
           [accounts[i] EXCEPT !.failed_attempts = @ + 1, !.status = 0]]
  BY <1>1 DEF Blocked
<1>7. ASSUME accounts[i].failed_attempts + 1 < MaxFailed
      PROVE  LET t == [accounts EXCEPT ![i].failed_attempts = @ + 1]
             IN  /\ t \in Seq(Account) /\ BlockedAtLimit(t)
                 /\ SameNames(accounts, t)
  <2> DEFINE x == [accounts[i] EXCEPT !.failed_attempts = @ + 1]
  <2>1. /\ x \in Account /\ x.username = accounts[i].username
        /\ ~(x.failed_attempts >= MaxFailed)
    BY <1>3, <1>7 DEF Account, MaxFailed
  <2>2. [accounts EXCEPT ![i].failed_attempts = @ + 1]
          = [accounts EXCEPT ![i] = x]
    BY <1>1
  <2> HIDE DEF x
  <2>3. QED
    BY <1>2, <2>1, <2>2
<1>8. LET t == [accounts EXCEPT ![i].failed_attempts = 0]
      IN  /\ t \in Seq(Account) /\ BlockedAtLimit(t)
          /\ SameNames(accounts, t)
  <2> DEFINE x == [accounts[i] EXCEPT !.failed_attempts = 0]
  <2>1. /\ x \in Account /\ x.username = accounts[i].username
        /\ ~(x.failed_attempts >= MaxFailed)
    BY <1>4 DEF Account, MaxFailed
  <2>2. [accounts EXCEPT ![i].failed_attempts = 0]
          = [accounts EXCEPT ![i] = x]
    BY <1>1
  <2> HIDE DEF x
  <2>3. QED
    BY <1>2, <2>1, <2>2
<1>9. /\ Blocked(i) \in Seq(Account) /\ BlockedAtLimit(Blocked(i))
      /\ SameNames(accounts, Blocked(i))
  <2> DEFINE x == [accounts[i] EXCEPT !.failed_attempts = @ + 1, !.status = 0]
  <2>1. /\ x \in Account /\ x.username = accounts[i].username
        /\ x.status = 0
    BY <1>5
  <2> HIDE DEF x
  <2>2. /\ [accounts EXCEPT ![i] = x] \in Seq(Account)
        /\ BlockedAtLimit([accounts EXCEPT ![i] = x])
        /\ SameNames(accounts, [accounts EXCEPT ![i] = x])
    BY <1>2, <2>1
  <2>3. QED
    BY <1>6, <2>2 DEF x
<1>10. QED
  BY <1>7, <1>8, <1>9

(* One datagram keeps the invariant. *)
LEMMA ReceiveType ==
  ASSUME TypeInv, NEW a \in Addr, NEW m \in Text, Receive(a, m)
  PROVE  TypeInv'
<1> USE DEF Send
<1>a. /\ TypeOK
      /\ accounts \in Seq(Account)
      /\ Len(accounts) \in Nat /\ Len(accounts) <= MaxAccounts
      /\ BlockedAtLimit(accounts)
      /\ sessions \in [Slots -> Session]
      /\ accountFile \in Seq(FileRecord \cup {Malformed})
      /\ saved \in BOOLEAN
      /\ Empty \in Text
  BY TextAssumption
  DEF TypeInv, TypeOK, LockoutThreshold, BlockedAtLimit
<1>b. HasSlot(a) => /\ SessionOf(a) \in Session
                    /\ Refused(a) \in [Slots -> Session]
  BY <1>a, GetSession, RefusedType
<1>c. ASSUME NEW kind \in ReplyKind, NEW of \in Text, SendAbout(a, kind, of)
      PROVE  reply' \in Reply
  BY <1>c, SendType
<1>1. CASE ServerBusy(a)
  <2>1. reply' \in Reply
    BY <1>1, <1>a, <1>c DEF ServerBusy, ReplyKind
  <2>2. QED
    BY <1>1, <1>a, <2>1, LoopType DEF ServerBusy
<1>2. CASE TakeUsername(a, m)
  <2> DEFINE i == FindAccount(accounts, m)
             ses == [SessionOf(a) EXCEPT !.username = Stored[m],
                                         !.account  = i,
                                         !.state    = "WAIT_PASSWORD"]
  <2>1. reply' \in Reply
    BY <1>2, <1>a, <1>c DEF TakeUsername, ReplyKind
  <2>2. i \in 0..MaxAccounts
    <3>1. i \in 0..Len(accounts)
      BY <1>a, FindAccountFirst
    <3>2. QED
      BY <1>a, <3>1, SizesAssumption
  <2>3. ses \in Session
    <3> HIDE DEF i
    <3> DEFINE x == [SessionOf(a) EXCEPT !.username = Stored[m]]
               y == [x EXCEPT !.account = i]
    <3>1. x \in Session
      BY <1>2, <1>b, StoredAssumption DEF TakeUsername, Handling, Session
    <3>2. y \in Session
      <4> HIDE DEF x
      <4>1. QED
        BY <2>2, <3>1 DEF Session
    <3>3. [y EXCEPT !.state = "WAIT_PASSWORD"] \in Session
      <4> HIDE DEF y
      <4>1. QED
        BY <3>2 DEF Session, SessionState
    <3>4. QED
      BY <3>3
  <2>4. With(a, ses) \in [Slots -> Session]
    <3> HIDE DEF ses
    <3>1. QED
      BY <1>2, <1>a, <2>3, WithType DEF TakeUsername, Handling
  <2>5. QED
    BY <1>2, <1>a, <2>1, <2>4, LoopType DEF TakeUsername, Handling
<1>3. CASE NotReady(a)
  <2>1. reply' \in Reply
    BY <1>3, <1>a, <1>c DEF NotReady, ReplyKind
  <2>2. QED
    BY <1>3, <1>a, <1>b, <2>1, LoopType DEF NotReady, Handling
<1>4. CASE UnknownUser(a)
  <2>1. reply' \in Reply
    BY <1>4, <1>a, <1>c DEF UnknownUser, ReplyKind
  <2>2. QED
    BY <1>4, <1>a, <1>b, <2>1, LoopType DEF UnknownUser, Handling
<1>5. ASSUME NEW i \in 1..Len(accounts), LogIn(a, m, i)
      PROVE  TypeInv'
  <2> DEFINE t == [accounts EXCEPT ![i].failed_attempts = 0]
             ses == [SessionOf(a) EXCEPT !.state = "LOGGED_IN"]
  <2>1. reply' \in Reply
    BY <1>5, <1>a, <1>c DEF LogIn, ReplyKind
  <2>2. t \in Seq(Account) /\ BlockedAtLimit(t) /\ Len(t) = Len(accounts)
    BY <1>5, AccountUpdates DEF LogIn, Checking, SameNames
  <2>3. ses \in Session
    BY <1>5, <1>b DEF LogIn, Checking, Handling, Session, SessionState
  <2>4. With(a, ses) \in [Slots -> Session]
    <3> HIDE DEF ses
    <3>1. QED
      BY <1>5, <1>a, <2>3, WithType DEF LogIn, Checking, Handling
  <2>5. up /\ LoopWith(t, With(a, ses)) /\ UNCHANGED <<accountFile, saved>>
    BY <1>5 DEF LogIn, Checking, Handling
  <2> HIDE DEF t, ses
  <2>6. QED
    BY <1>a, <2>1, <2>2, <2>4, <2>5, LoopType
<1>6. ASSUME NEW i \in 1..Len(accounts), CountFailure(a, m, i)
      PROVE  TypeInv'
  <2> DEFINE t == [accounts EXCEPT ![i].failed_attempts = @ + 1]
  <2>1. reply' \in Reply
    BY <1>6, <1>a, <1>c DEF CountFailure, ReplyKind
  <2>2. t \in Seq(Account) /\ BlockedAtLimit(t) /\ Len(t) = Len(accounts)
    BY <1>6, AccountUpdates DEF CountFailure, WrongPassword, Checking, SameNames
  <2>3. up /\ LoopWith(t, Refused(a)) /\ UNCHANGED <<accountFile, saved>>
    BY <1>6 DEF CountFailure, WrongPassword, Checking, Handling
  <2>4. Refused(a) \in [Slots -> Session]
    BY <1>6, <1>b DEF CountFailure, WrongPassword, Checking, Handling
  <2> HIDE DEF t
  <2>5. QED
    BY <1>a, <2>1, <2>2, <2>3, <2>4, LoopType
<1>7. ASSUME NEW i \in 1..Len(accounts), BlockAccount(a, m, i)
      PROVE  TypeInv'
  <2>1. reply' \in Reply
    BY <1>7, <1>a, <1>c DEF BlockAccount, ReplyKind
  <2>2. /\ Blocked(i) \in Seq(Account)
        /\ BlockedAtLimit(Blocked(i))
        /\ Len(Blocked(i)) = Len(accounts)
    BY <1>7, AccountUpdates
    DEF BlockAccount, LastFailure, WrongPassword, Checking, SameNames
  <2>3. /\ saved' \in BOOLEAN
        /\ accountFile' \in Seq(FileRecord \cup {Malformed})
    <3>1. \A n \in 0..Len(Blocked(i)) :
            Lines(Blocked(i), n) \in Seq(FileRecord \cup {Malformed})
      BY <2>2, LinesType
    <3>2. SaveAccounts(Blocked(i))
      BY <1>7 DEF BlockAccount
    <3>3. Len(Blocked(i)) \in 0..Len(Blocked(i))
      BY <1>a, <2>2
    <3>4. QED
      BY <1>a, <3>1, <3>2, <3>3 DEF SaveAccounts
  <2>4. up /\ LoopWith(Blocked(i), Refused(a)) /\ HasSlot(a)
    BY <1>7 DEF BlockAccount, LastFailure, WrongPassword, Checking, Handling
  <2>5. QED
    BY <1>a, <1>b, <2>1, <2>2, <2>3, <2>4, LoopType
<1>8. CASE LogOut(a, m)
  <2> DEFINE ses == [SessionOf(a) EXCEPT !.active = FALSE]
  <2>1. SessionOf(a) \in Session
    BY <1>8, <1>b DEF LogOut, Handling
  <2>2. reply' \in Reply
    <3>1. SessionOf(a).username \in Text
      BY <2>1 DEF Session
    <3>2. QED
      BY <1>8, <1>c, <3>1 DEF LogOut, ReplyKind
  <2>3. ses \in Session
    BY <2>1 DEF Session
  <2>4. With(a, ses) \in [Slots -> Session]
    <3> HIDE DEF ses
    <3>1. QED
      BY <1>8, <1>a, <2>3, WithType DEF LogOut, Handling
  <2>5. QED
    BY <1>8, <1>a, <2>2, <2>4, LoopType DEF LogOut, Handling
<1>9. CASE RejectText(a, m)
  <2>1. reply' \in Reply
    BY <1>9, <1>a, <1>c DEF RejectText, ReplyKind
  <2>2. QED
    BY <1>9, <1>a, <2>1, LoopType DEF RejectText, Handling
<1>10. CASE HashText(a, m)
  <2>1. reply' \in Reply
    BY <1>10, <1>a, <1>c DEF HashText, ReplyKind
  <2>2. QED
    BY <1>10, <1>a, <2>1, LoopType DEF HashText, Handling
<1>11. QED
  BY <1>1, <1>2, <1>3, <1>4, <1>5, <1>6, <1>7, <1>8, <1>9, <1>10 DEF Receive

LEMMA HaltType ==
  ASSUME TypeInv, Halt, UNCHANGED reply, saved' \in BOOLEAN,
         accountFile' \in Seq(FileRecord \cup {Malformed})
  PROVE  TypeInv'
<1>1. <<>> \in Seq(Account) /\ Len(<<>>) = 0 /\ 0 <= MaxAccounts
  BY SizesAssumption
<1>2. /\ up' = FALSE /\ server_running' = FALSE
      /\ accounts' = <<>> /\ sessions' = ZeroSessions
  BY DEF Halt
<1>3. TypeOK'
  BY <1>1, <1>2, ZeroSessionsType DEF TypeInv, TypeOK
<1>4. LockoutThreshold'
  BY <1>1, <1>2 DEF LockoutThreshold
<1>5. QED
  BY <1>3, <1>4 DEF TypeInv

(* What a process has in memory after load_accounts(). *)
LEMMA LoadedType ==
  ASSUME NEW f \in Seq(FileRecord \cup {Malformed})
  PROVE  BlockedAtLimit(Load(f))
<1>1. ASSUME NEW i \in 1..Len(Load(f))
      PROVE  Load(f)[i].failed_attempts = 0
  <2>1. Load(f)[i] = LoadRecord(f[i])
    BY LoadType
  <2>2. QED
    BY <2>1 DEF LoadRecord
<1>2. QED
  BY <1>1 DEF BlockedAtLimit, MaxFailed

LEMMA InitType == ServerInit => TypeInv
<1> SUFFICES ASSUME ServerInit PROVE TypeInv
  OBVIOUS
<1>1. /\ accountFile \in Seq(FileRecord \cup {Malformed})
      /\ up = TRUE /\ server_running = TRUE /\ saved = TRUE
      /\ accounts = Load(accountFile)
      /\ sessions = ZeroSessions /\ reply = NoReply
  BY FileAssumption DEF ServerInit
<1>2. TypeOK
  BY <1>1, LoadType, ZeroSessionsType DEF TypeOK
<1>3. LockoutThreshold
  BY <1>1, LoadedType DEF LockoutThreshold, BlockedAtLimit
<1>4. QED
  BY <1>2, <1>3 DEF TypeInv

LEMMA NextType == TypeInv /\ [ServerNext]_serverVars => TypeInv'
<1> SUFFICES ASSUME TypeInv, [ServerNext]_serverVars PROVE TypeInv'
  OBVIOUS
<1>a. /\ accountFile \in Seq(FileRecord \cup {Malformed})
      /\ saved \in BOOLEAN
  BY DEF TypeInv, TypeOK
<1>1. ASSUME NEW a \in Addr, NEW m \in Text, Receive(a, m)
      PROVE  TypeInv'
  BY <1>1, ReceiveType
<1>2. ASSUME NEW a \in Addr, NEW m \in Text, NEW i \in 1..Len(accounts),
             CrashInSave(a, m, i)
      PROVE  TypeInv'
  <2>1. PICK n \in 0..Len(accounts) : accountFile' = Lines(Blocked(i), n)
    BY <1>2 DEF CrashInSave
  <2>2. Blocked(i) \in Seq(Account) /\ Len(Blocked(i)) = Len(accounts)
    BY <1>2, AccountUpdates
    DEF CrashInSave, LastFailure, WrongPassword, Checking, SameNames
  <2>3. accountFile' \in Seq(FileRecord \cup {Malformed})
    BY <2>1, <2>2, LinesType
  <2>4. QED
    BY <1>2, <1>a, <2>3, HaltType DEF CrashInSave
<1>3. CASE handle_signal
  BY <1>3 DEF handle_signal, TypeInv, TypeOK, LockoutThreshold
<1>4. CASE Crash
  BY <1>4, <1>a, HaltType DEF Crash
<1>5. CASE Start
  <2>1. /\ up' = TRUE /\ server_running' = TRUE /\ saved' = TRUE
        /\ accounts' = Load(accountFile) /\ sessions' = ZeroSessions
        /\ reply' = NoReply /\ accountFile' = accountFile
    BY <1>5 DEF Start
  <2>2. TypeOK'
    BY <1>a, <2>1, LoadType, ZeroSessionsType DEF TypeOK
  <2>3. LockoutThreshold'
    BY <1>a, <2>1, LoadedType DEF LockoutThreshold, BlockedAtLimit
  <2>4. QED
    BY <2>2, <2>3 DEF TypeInv
<1>6. CASE UNCHANGED serverVars
  BY <1>6 DEF serverVars, TypeInv, TypeOK, LockoutThreshold
<1>7. QED
  BY <1>1, <1>2, <1>3, <1>4, <1>5, <1>6 DEF ServerNext

(* Memory, file and replies keep their types, and the counter of failures  *)
(* its range, for every sequence of datagrams, signals, failed saves,      *)
(* crashes and restarts.                                                   *)
THEOREM TypeCorrect == ServerSpec => []TypeOK
<1>1. TypeInv => TypeOK
  BY DEF TypeInv
<1>2. QED
  BY <1>1, InitType, NextType, PTL DEF ServerSpec

(* An account that reached three consecutive failures is blocked, however  *)
(* many sessions counted them.                                             *)
THEOREM LockoutThresholdHolds == ServerSpec => []LockoutThreshold
<1>1. TypeInv => LockoutThreshold
  BY DEF TypeInv
<1>2. QED
  BY <1>1, InitType, NextType, PTL DEF ServerSpec

-------------------------------------------------------------------------------
(* Sessions                                                                *)

(* A username longer than the buffer is looked up whole and kept cut, so a *)
(* session is bound to the account of its name only because every username *)
(* of the file, and thus of the array, fits the buffer.                    *)
NamesFit ==
  /\ \A i \in 1..Len(accounts) :
       Stored[accounts[i].username] = accounts[i].username
  /\ \A i \in 1..Len(accountFile) :
       accountFile[i] # Malformed =>
         Stored[accountFile[i].username] = accountFile[i].username

SessionInv ==
  /\ TypeInv
  /\ NamesFit
  /\ OneSessionPerClient
  /\ SessionBinding

(* A datagram that is not for a fresh session finds a bound one. *)
LEMMA HandlingExisting ==
  ASSUME SessionInv, NEW a \in Addr, NEW st, st # "WAIT_USERNAME",
         Handling(a, st)
  PROVE  /\ SessionOf(a) = sessions[SlotOf(a)]
         /\ SessionOf(a).active
         /\ Bound(accounts, SessionOf(a))
<1>1. FindSession(a) # {} /\ SlotOf(a) \in FindSession(a)
  <2>1. SessionOf(a).state # "WAIT_USERNAME"
    BY DEF Handling
  <2>2. FindSession(a) # {}
    BY <2>1 DEF SessionOf, NewSession
  <2>3. QED
    BY <2>2, GetSession DEF Handling, SessionInv, TypeInv
<1>2. SessionOf(a) = sessions[SlotOf(a)]
  BY <1>1 DEF SessionOf
<1>3. SlotOf(a) \in Slots /\ sessions[SlotOf(a)].active
  BY <1>1 DEF FindSession
<1>4. QED
  BY <1>2, <1>3 DEF SessionInv, SessionBinding

(* Writing a bound session of a into the slot get_session() gave, with the *)
(* names of the accounts unchanged, keeps the table right.                 *)
LEMMA WithSession ==
  ASSUME SessionInv, NEW a \in Addr, HasSlot(a),
         NEW t, SameNames(accounts, t),
         NEW ses \in Session, ses.address = a, ses.active => Bound(t, ses),
         LoopWith(t, With(a, ses))
  PROVE  OneSessionPerClient' /\ SessionBinding'
<1> USE DEF SessionInv
<1>a. /\ sessions \in [Slots -> Session]
      /\ SlotOf(a) \in Slots
      /\ FindSession(a) # {} => SlotOf(a) \in FindSession(a)
  BY GetSession DEF TypeInv, TypeOK
<1>1. CASE ~server_running
  <2>1. sessions' = ZeroSessions
    BY <1>1 DEF LoopWith, Halt
  <2>2. \A s \in Slots : ~sessions'[s].active
    BY <2>1 DEF ZeroSessions, ZeroSession
  <2>3. QED
    BY <2>2 DEF OneSessionPerClient, SessionBinding
<1>2. CASE server_running
  <2>1. /\ accounts' = t
        /\ sessions' = [sessions EXCEPT ![SlotOf(a)] = ses]
    BY <1>2 DEF LoopWith, With
  <2>2. /\ sessions'[SlotOf(a)] = ses
        /\ \A s \in Slots : s # SlotOf(a) => sessions'[s] = sessions[s]
    BY <1>a, <2>1
  <2>3. \A s \in Slots : s # SlotOf(a) /\ sessions[s].active
                          => sessions[s].address # a
    <3>1. SUFFICES ASSUME NEW s \in Slots, sessions[s].active,
                          sessions[s].address = a
                   PROVE  s = SlotOf(a)
      OBVIOUS
    <3>2. s \in FindSession(a)
      BY <3>1 DEF FindSession
    <3>3. /\ sessions[SlotOf(a)].active
          /\ sessions[SlotOf(a)].address = a
      BY <1>a, <3>2 DEF FindSession
    <3>4. QED
      BY <1>a, <3>1, <3>3 DEF OneSessionPerClient
  <2>4. OneSessionPerClient'
    BY <1>a, <2>2, <2>3 DEF OneSessionPerClient
  <2>5. ASSUME NEW s \in Slots, sessions'[s].active
        PROVE  Bound(t, sessions'[s])
    <3>1. CASE s = SlotOf(a)
      BY <2>2, <2>5, <3>1
    <3>2. CASE s # SlotOf(a)
      <4>1. sessions'[s] = sessions[s] /\ Bound(accounts, sessions[s])
        BY <2>2, <2>5, <3>2 DEF SessionBinding
      <4>2. FindAccount(t, sessions[s].username)
              = FindAccount(accounts, sessions[s].username)
        BY FindAccountSameNames
      <4>3. QED
        BY <4>1, <4>2 DEF Bound
    <3>3. QED
      BY <3>1, <3>2
  <2>6. QED
    BY <2>1, <2>4, <2>5 DEF SessionBinding
<1>3. QED
  BY <1>1, <1>2

(* A handler that leaves table and accounts alone keeps the table right. *)
LEMMA SameSessions ==
  ASSUME SessionInv, LoopWith(accounts, sessions)
  PROVE  OneSessionPerClient' /\ SessionBinding'
<1>1. CASE server_running
  BY <1>1 DEF LoopWith, SessionInv, OneSessionPerClient, SessionBinding
<1>2. CASE ~server_running
  <2>1. \A s \in Slots : ~sessions'[s].active
    BY <1>2 DEF LoopWith, Halt, ZeroSessions, ZeroSession
  <2>2. QED
    BY <2>1 DEF OneSessionPerClient, SessionBinding
<1>3. QED
  BY <1>1, <1>2

LEMMA RefusedSession ==
  ASSUME SessionInv, NEW a \in Addr, Handling(a, "WAIT_PASSWORD"),
         NEW t, SameNames(accounts, t), LoopWith(t, Refused(a))
  PROVE  OneSessionPerClient' /\ SessionBinding'
<1> DEFINE x == [SessionOf(a) EXCEPT !.state = "WAIT_USERNAME"]
           ses == [x EXCEPT !.account = NULL]
<1>1. SessionOf(a) \in Session /\ SessionOf(a).address = a /\ HasSlot(a)
  BY GetSession DEF Handling, SessionInv, TypeInv
<1>2. x \in Session /\ x.address = a /\ x.state = "WAIT_USERNAME"
  BY <1>1 DEF Session, SessionState
<1>3. /\ ses \in Session /\ ses.address = a
      /\ ses.state = "WAIT_USERNAME" /\ ses.account = NULL
  <2>1. NULL \in 0..MaxAccounts
    BY SizesAssumption DEF NULL
  <2> HIDE DEF x
  <2>2. QED
    BY <1>2, <2>1 DEF Session
<1>4. Bound(t, ses)
  BY <1>3 DEF Bound
<1>5. LoopWith(t, With(a, ses))
  BY DEF Refused
<1> HIDE DEF ses
<1>6. QED
  BY <1>1, <1>3, <1>4, <1>5, WithSession

LEMMA SameNamesRefl == SameNames(accounts, accounts)
BY DEF SameNames

LEMMA ReceiveSessions ==
  ASSUME SessionInv, NEW a \in Addr, NEW m \in Text, Receive(a, m)
  PROVE  OneSessionPerClient' /\ SessionBinding'
<1>a. TypeInv /\ TypeOK /\ Len(accounts) \in Nat /\ Len(accounts) <= MaxAccounts
  BY DEF SessionInv, TypeInv, TypeOK
<1>b. HasSlot(a) => SessionOf(a) \in Session /\ SessionOf(a).address = a
  BY <1>a, GetSession
<1>1. CASE ServerBusy(a)
  BY <1>1, SameSessions DEF ServerBusy
<1>2. CASE TakeUsername(a, m)
  <2> DEFINE i == FindAccount(accounts, m)
             x == [SessionOf(a) EXCEPT !.username = Stored[m]]
             y == [x EXCEPT !.account = i]
             ses == [y EXCEPT !.state = "WAIT_PASSWORD"]
  <2>1. HasSlot(a) /\ LoopWith(accounts, With(a, ses))
    BY <1>2 DEF TakeUsername, Handling
  <2>2. i \in 0..MaxAccounts
    <3>1. i \in 0..Len(accounts)
      BY <1>a, FindAccountFirst
    <3>2. QED
      BY <1>a, <3>1, SizesAssumption
  <2>3. i # NULL => i = FindAccount(accounts, Stored[m])
    <3>1. ASSUME i # NULL
          PROVE  Stored[m] = m
      <4>1. i \in Named(accounts, m)
        BY <1>a, <3>1, FindAccountFirst
      <4>2. QED
        BY <4>1 DEF Named, SessionInv, NamesFit
    <3>2. QED
      BY <3>1
  <2>4. x \in Session /\ x.address = a /\ x.username = Stored[m]
    BY <1>b, <2>1, StoredAssumption DEF Session
  <2>5. y \in Session /\ y.address = a /\ y.username = Stored[m] /\ y.account = i
    <3> HIDE DEF x, i
    <3>1. QED
      BY <2>2, <2>4 DEF Session
  <2>6. /\ ses \in Session /\ ses.address = a /\ ses.username = Stored[m]
        /\ ses.account = i /\ ses.state = "WAIT_PASSWORD"
    <3> HIDE DEF y, i
    <3>1. QED
      BY <2>5 DEF Session, SessionState
  <2> HIDE DEF ses
  <2>7. Bound(accounts, ses)
    BY <2>3, <2>6 DEF Bound
  <2>8. QED
    BY <2>1, <2>6, <2>7, SameNamesRefl, WithSession
<1>3. CASE NotReady(a)
  BY <1>3, SameNamesRefl, RefusedSession DEF NotReady
<1>4. CASE UnknownUser(a)
  BY <1>4, SameNamesRefl, RefusedSession DEF UnknownUser
<1>5. ASSUME NEW i \in 1..Len(accounts), LogIn(a, m, i)
      PROVE  OneSessionPerClient' /\ SessionBinding'
  <2> DEFINE t == [accounts EXCEPT ![i].failed_attempts = 0]
             ses == [SessionOf(a) EXCEPT !.state = "LOGGED_IN"]
  <2>1. /\ Handling(a, "WAIT_PASSWORD") /\ HasSlot(a)
        /\ accounts[i].status # 0 /\ SessionOf(a).account # NULL
        /\ LoopWith(t, With(a, ses))
    BY <1>5 DEF LogIn, Checking, Handling
  <2>2. SameNames(accounts, t)
    BY <1>a, <2>1, AccountUpdates
  <2>3. Bound(accounts, SessionOf(a))
    BY <2>1, HandlingExisting
  <2>4. /\ ses \in Session /\ ses.address = a /\ ses.state = "LOGGED_IN"
        /\ ses.account = SessionOf(a).account
        /\ ses.username = SessionOf(a).username
    BY <1>b, <2>1 DEF Session, SessionState
  <2> HIDE DEF t, ses
  <2>5. FindAccount(t, ses.username) = FindAccount(accounts, ses.username)
    BY <2>2, FindAccountSameNames
  <2>6. Bound(t, ses)
    BY <2>1, <2>3, <2>4, <2>5 DEF Bound
  <2>7. QED
    BY <2>1, <2>2, <2>4, <2>6, WithSession
<1>6. ASSUME NEW i \in 1..Len(accounts), CountFailure(a, m, i)
      PROVE  OneSessionPerClient' /\ SessionBinding'
  <2> DEFINE t == [accounts EXCEPT ![i].failed_attempts = @ + 1]
  <2>1. /\ Handling(a, "WAIT_PASSWORD") /\ LoopWith(t, Refused(a))
        /\ accounts[i].status # 0
        /\ accounts[i].failed_attempts + 1 < MaxFailed
    BY <1>6 DEF CountFailure, WrongPassword, Checking
  <2>2. SameNames(accounts, t)
    BY <1>a, <2>1, AccountUpdates
  <2> HIDE DEF t
  <2>3. QED
    BY <2>1, <2>2, RefusedSession
<1>7. ASSUME NEW i \in 1..Len(accounts), BlockAccount(a, m, i)
      PROVE  OneSessionPerClient' /\ SessionBinding'
  <2>1. /\ Handling(a, "WAIT_PASSWORD") /\ LoopWith(Blocked(i), Refused(a))
        /\ accounts[i].status # 0
    BY <1>7 DEF BlockAccount, LastFailure, WrongPassword, Checking
  <2>2. SameNames(accounts, Blocked(i))
    BY <1>a, <2>1, AccountUpdates
  <2>3. QED
    BY <2>1, <2>2, RefusedSession
<1>8. CASE LogOut(a, m)
  <2> DEFINE ses == [SessionOf(a) EXCEPT !.active = FALSE]
  <2>1. HasSlot(a) /\ LoopWith(accounts, With(a, ses))
    BY <1>8 DEF LogOut, Handling
  <2>2. ses \in Session /\ ses.address = a /\ ~ses.active
    BY <1>b, <2>1 DEF Session
  <2> HIDE DEF ses
  <2>3. QED
    BY <2>1, <2>2, SameNamesRefl, WithSession
<1>9. CASE RejectText(a, m)
  BY <1>9, SameSessions DEF RejectText
<1>10. CASE HashText(a, m)
  BY <1>10, SameSessions DEF HashText
<1>11. QED
  BY <1>1, <1>2, <1>3, <1>4, <1>5, <1>6, <1>7, <1>8, <1>9, <1>10 DEF Receive

(* The usernames in memory and in the file come from the first file. *)
LEMMA LinesFit ==
  ASSUME SessionInv, NEW t \in Seq(Account), SameNames(accounts, t),
         NEW n \in 0..Len(t)
  PROVE  \A i \in 1..Len(Lines(t, n)) :
           Stored[Lines(t, n)[i].username] = Lines(t, n)[i].username
<1>1. Len(Lines(t, n)) = n /\ n <= Len(t) /\ Len(t) = Len(accounts)
  BY DEF Lines, SameNames
<1>2. SUFFICES ASSUME NEW i \in 1..n
               PROVE  Stored[Line(t[i]).username] = Line(t[i]).username
  BY <1>1 DEF Lines
<1>3. i \in 1..Len(accounts)
  BY <1>1
<1>4. Line(t[i]).username = accounts[i].username
  BY <1>3 DEF Line, SameNames
<1>5. QED
  BY <1>3, <1>4 DEF SessionInv, NamesFit

LEMMA LoopFit ==
  ASSUME SessionInv, NEW t, SameNames(accounts, t), NEW tbl, LoopWith(t, tbl)
  PROVE  \A i \in 1..Len(accounts') :
           Stored[accounts'[i].username] = accounts'[i].username
<1>1. CASE server_running
  BY <1>1 DEF LoopWith, SessionInv, NamesFit, SameNames
<1>2. CASE ~server_running
  <2>1. accounts' = <<>> /\ Len(<<>>) = 0
    BY <1>2 DEF LoopWith, Halt
  <2>2. QED
    BY <2>1
<1>3. QED
  BY <1>1, <1>2

LEMMA ReceiveFit ==
  ASSUME SessionInv, NEW a \in Addr, NEW m \in Text, Receive(a, m)
  PROVE  NamesFit'
<1>1. CASE \E i \in 1..Len(accounts) : BlockAccount(a, m, i)
  <2>1. PICK i \in 1..Len(accounts) : BlockAccount(a, m, i)
    BY <1>1
  <2>2. /\ SaveAccounts(Blocked(i)) /\ LoopWith(Blocked(i), Refused(a))
        /\ accounts[i].status # 0
    BY <2>1 DEF BlockAccount, LastFailure, WrongPassword, Checking
  <2>3. SameNames(accounts, Blocked(i)) /\ Blocked(i) \in Seq(Account)
    BY <2>2, AccountUpdates DEF SessionInv
  <2>4. Len(Blocked(i)) \in 0..Len(Blocked(i))
    BY <2>3
  <2>5. \/ accountFile' = accountFile
        \/ \E n \in 0..Len(Blocked(i)) : accountFile' = Lines(Blocked(i), n)
    BY <2>2, <2>4 DEF SaveAccounts
  <2>6. QED
    BY <2>2, <2>3, <2>5, LinesFit, LoopFit DEF NamesFit, SessionInv
<1>2. CASE ~\E i \in 1..Len(accounts) : BlockAccount(a, m, i)
  <2>1. accountFile' = accountFile
    BY <1>2
    DEF Receive, ServerBusy, TakeUsername, NotReady, UnknownUser, LogIn,
        CountFailure, LogOut, RejectText, HashText
  <2>2. \E t : SameNames(accounts, t) /\ \E tbl : LoopWith(t, tbl)
    <3>1. ASSUME NEW i \in 1..Len(accounts), LogIn(a, m, i)
          PROVE  SameNames(accounts, [accounts EXCEPT ![i].failed_attempts = 0])
      BY <3>1, AccountUpdates DEF LogIn, Checking, SessionInv
    <3>2. ASSUME NEW i \in 1..Len(accounts), CountFailure(a, m, i)
          PROVE  SameNames(accounts,
                           [accounts EXCEPT ![i].failed_attempts = @ + 1])
      BY <3>2, AccountUpdates
      DEF CountFailure, WrongPassword, Checking, SessionInv
    <3>3. QED
      BY <1>2, <3>1, <3>2, SameNamesRefl
      DEF Receive, ServerBusy, TakeUsername, NotReady, UnknownUser, LogIn,
          CountFailure, LogOut, RejectText, HashText
  <2>3. QED
    BY <2>1, <2>2, LoopFit DEF NamesFit, SessionInv
<1>3. QED
  BY <1>1, <1>2

LEMMA LoadFit ==
  ASSUME NEW f \in Seq(FileRecord \cup {Malformed}),
         \A i \in 1..Len(f) :
           f[i] # Malformed => Stored[f[i].username] = f[i].username
  PROVE  \A i \in 1..Len(Load(f)) :
           Stored[Load(f)[i].username] = Load(f)[i].username
<1>1. SUFFICES ASSUME NEW i \in 1..Len(Load(f))
               PROVE  Stored[Load(f)[i].username] = Load(f)[i].username
  OBVIOUS
<1>2. Load(f)[i].username = f[i].username /\ f[i] # Malformed
  <2>1. Load(f)[i] = LoadRecord(f[i]) /\ f[i] \in FileRecord
    BY LoadType
  <2>2. Load(f)[i].username = f[i].username
    BY <2>1 DEF LoadRecord
  <2>3. f[i] # Malformed
    BY <2>1, FileAssumption
  <2>4. QED
    BY <2>2, <2>3
<1>3. i \in 1..Len(f)
  BY LoadType, RecordCountReadable
<1>4. QED
  BY <1>2, <1>3

LEMMA InitSessions == ServerInit => SessionInv
<1> SUFFICES ASSUME ServerInit PROVE SessionInv
  OBVIOUS
<1>1. /\ accountFile \in InitialFiles /\ accounts = Load(accountFile)
      /\ accountFile \in Seq(FileRecord \cup {Malformed})
      /\ sessions = ZeroSessions
  BY FileAssumption DEF ServerInit
<1>2. \A s \in Slots : ~sessions[s].active
  BY <1>1 DEF ZeroSessions, ZeroSession
<1>3. NamesFit
  BY <1>1, LoadType, LoadFit, FileAssumption DEF NamesFit
<1>4. QED
  BY <1>2, <1>3, InitType DEF SessionInv, OneSessionPerClient, SessionBinding

LEMMA NextSessions == SessionInv /\ [ServerNext]_serverVars => SessionInv'
<1> SUFFICES ASSUME SessionInv, [ServerNext]_serverVars PROVE SessionInv'
  OBVIOUS
<1>0. TypeInv'
  BY NextType DEF SessionInv
<1>h. ASSUME Halt
      PROVE  /\ OneSessionPerClient' /\ SessionBinding'
             /\ Len(accounts') = 0
  <2>1. \A s \in Slots : ~sessions'[s].active
    BY <1>h DEF Halt, ZeroSessions, ZeroSession
  <2>2. Len(<<>>) = 0
    OBVIOUS
  <2>3. QED
    BY <1>h, <2>1, <2>2 DEF Halt, OneSessionPerClient, SessionBinding
<1>1. ASSUME NEW a \in Addr, NEW m \in Text, Receive(a, m)
      PROVE  SessionInv'
  BY <1>0, <1>1, ReceiveSessions, ReceiveFit DEF SessionInv
<1>2. ASSUME NEW a \in Addr, NEW m \in Text, NEW i \in 1..Len(accounts),
             CrashInSave(a, m, i)
      PROVE  SessionInv'
  <2>1. PICK n \in 0..Len(accounts) : accountFile' = Lines(Blocked(i), n)
    BY <1>2 DEF CrashInSave
  <2>2. /\ SameNames(accounts, Blocked(i)) /\ Blocked(i) \in Seq(Account)
        /\ n \in 0..Len(Blocked(i))
    BY <1>2, AccountUpdates
    DEF CrashInSave, LastFailure, WrongPassword, Checking, SameNames, SessionInv
  <2>3. NamesFit'
    BY <1>2, <1>h, <2>1, <2>2, LinesFit DEF CrashInSave, NamesFit
  <2>4. QED
    BY <1>0, <1>2, <1>h, <2>3 DEF CrashInSave, SessionInv
<1>3. CASE handle_signal
  BY <1>0, <1>3
  DEF handle_signal, SessionInv, NamesFit, OneSessionPerClient, SessionBinding
<1>4. CASE Crash
  BY <1>0, <1>4, <1>h DEF Crash, SessionInv, NamesFit
<1>5. CASE Start
  <2>1. \A s \in Slots : ~sessions'[s].active
    BY <1>5 DEF Start, ZeroSessions, ZeroSession
  <2>2. /\ accounts' = Load(accountFile) /\ accountFile' = accountFile
        /\ accountFile \in Seq(FileRecord \cup {Malformed})
    BY <1>5 DEF Start, SessionInv, TypeInv, TypeOK
  <2>3. NamesFit'
    BY <2>2, LoadFit DEF NamesFit, SessionInv
  <2>4. QED
    BY <1>0, <2>1, <2>3 DEF SessionInv, OneSessionPerClient, SessionBinding
<1>6. CASE UNCHANGED serverVars
  BY <1>0, <1>6
  DEF serverVars, SessionInv, NamesFit, OneSessionPerClient, SessionBinding
<1>7. QED
  BY <1>1, <1>2, <1>3, <1>4, <1>5, <1>6 DEF ServerNext

(* A client endpoint never owns two slots. *)
THEOREM OneSessionPerClientHolds == ServerSpec => []OneSessionPerClient
<1>1. SessionInv => OneSessionPerClient
  BY DEF SessionInv
<1>2. QED
  BY <1>1, InitSessions, NextSessions, PTL DEF ServerSpec

(* The account of a session is always the first with the session's name. *)
THEOREM SessionBindingHolds == ServerSpec => []SessionBinding
<1>1. SessionInv => SessionBinding
  BY DEF SessionInv
<1>2. QED
  BY <1>1, InitSessions, NextSessions, PTL DEF ServerSpec

(* A client owns at most one session, and every session is bound to the    *)
(* account whose name it carries, whatever the other clients did to the    *)
(* table in between.                                                       *)
THEOREM SessionsHold == ServerSpec => []SessionsAreSound
<1>1. SessionInv => SessionsAreSound
  BY DEF SessionInv, SessionsAreSound
<1>2. QED
  BY <1>1, InitSessions, NextSessions, PTL DEF ServerSpec

-------------------------------------------------------------------------------
(***************************************************************************)
(* What the server's memory and account.txt have to do with each other.    *)
(***************************************************************************)

(* The file f is what load_accounts() would read the array t from. *)
Agrees(t, f) ==
  /\ Len(t) = RecordCount(f)
  /\ \A i \in 1..Len(t) : Line(t[i]) = Line(LoadRecord(f[i]))

(* Line i of the file is an earlier state of account i: a block may be     *)
(* missing in the file, and never in memory.                               *)
Earlier(f, t) ==
  \A i \in 1..Len(t) :
    i \in 1..Len(f) =>
      /\ f[i] \in FileRecord
      /\ f[i].username = t[i].username
      /\ f[i].password = t[i].password
      /\ f[i].status = 0 => t[i].status = 0

(* FileAgrees is inductive by itself; LinesEndure also needs to know what  *)
(* the file holds after a save that failed.                                *)
FileInv ==
  /\ TypeInv
  /\ up /\ saved => Agrees(accounts, accountFile)
  /\ up => Earlier(accountFile, accounts)

(* What a step from f to g may do to the lines. *)
Endures(f, g) ==
  \A i \in 1..Len(f) \cap 1..Len(g) :
    g[i] # f[i] =>
      /\ f[i].status # 0
      /\ g[i].username = f[i].username
      /\ g[i].password = f[i].password

(* A file that was written to its end is read to its end. *)
LEMMA WholeFileAgrees ==
  ASSUME NEW t \in Seq(Account), Len(t) <= MaxAccounts
  PROVE  Agrees(t, Lines(t, Len(t)))
<1> DEFINE f == Lines(t, Len(t))
<1>1. Len(f) = Len(t) /\ \A i \in 1..Len(t) : f[i] = Line(t[i])
  BY DEF Lines
<1>2. ASSUME NEW i \in 1..Len(t)
      PROVE  /\ f[i] # Malformed
             /\ Line(t[i]) = Line(LoadRecord(f[i]))
  <2>1. t[i] \in Account
    OBVIOUS
  <2>2. Line(t[i]) \in FileRecord
    BY <2>1 DEF Line, FileRecord, Account
  <2>3. Line(t[i]) = Line(LoadRecord(Line(t[i])))
    BY <2>1 DEF Line, LoadRecord, Account
  <2>4. QED
    BY <1>1, <2>2, <2>3, FileAssumption
<1> HIDE DEF f
<1>3. RecordCount(f) = Len(t)
  <2>1. RecordCount(f) \in 0..Len(f)
        /\ (RecordCount(f) < Len(f) => ~Readable(f, RecordCount(f) + 1))
    <3>1. Readable(f, Len(f)) /\ Len(f) \in 0..Len(f)
      BY <1>1, <1>2 DEF Readable
    <3>2. \E n \in 0..Len(f) : Readable(f, n) /\ (n < Len(f) => ~Readable(f, n + 1))
      BY <1>1, <3>1
    <3>3. QED
      BY <3>2 DEF RecordCount
  <2>2. SUFFICES ASSUME RecordCount(f) < Len(f) PROVE FALSE
    BY <1>1, <2>1
  <2>3. Readable(f, RecordCount(f) + 1)
    <3>1. RecordCount(f) + 1 \in 1..Len(t) /\ Len(t) \in Nat
      BY <1>1, <2>1, <2>2
    <3>2. RecordCount(f) + 1 <= MaxAccounts
      BY <3>1, SizesAssumption
    <3>3. \A i \in 1..RecordCount(f) + 1 : i \in 1..Len(t)
      BY <3>1
    <3>4. QED
      BY <1>2, <3>2, <3>3 DEF Readable
  <2>4. QED
    BY <2>1, <2>2, <2>3
<1>4. QED
  BY <1>2, <1>3 DEF Agrees, f

(* The first lines of an array are an earlier state of it. *)
LEMMA LinesEarlier ==
  ASSUME NEW t \in Seq(Account), NEW n \in 0..Len(t)
  PROVE  Earlier(Lines(t, n), t)
<1>1. SUFFICES ASSUME NEW i \in 1..n
               PROVE  /\ Line(t[i]) \in FileRecord
                      /\ Line(t[i]).username = t[i].username
                      /\ Line(t[i]).password = t[i].password
                      /\ Line(t[i]).status = t[i].status
  BY DEF Earlier, Lines
<1>2. t[i] \in Account
  OBVIOUS
<1>3. QED
  BY <1>2 DEF Line, FileRecord, Account

(* A file just loaded. *)
LEMMA LoadAgrees ==
  ASSUME NEW f \in Seq(FileRecord \cup {Malformed})
  PROVE  Agrees(Load(f), f) /\ Earlier(f, Load(f))
<1>1. ASSUME NEW i \in 1..Len(Load(f))
      PROVE  /\ f[i] \in FileRecord
             /\ Load(f)[i] = LoadRecord(f[i])
             /\ f[i].username = Load(f)[i].username
             /\ f[i].password = Load(f)[i].password
             /\ f[i].status = 0 => Load(f)[i].status = 0
  <2>1. f[i] \in FileRecord /\ Load(f)[i] = LoadRecord(f[i])
    BY LoadType
  <2>2. QED
    BY <2>1 DEF LoadRecord
<1>2. Len(Load(f)) = RecordCount(f)
  BY LoadType
<1>3. QED
  BY <1>1, <1>2 DEF Agrees, Earlier

(* A counter that changes is not in the file. *)
SameLines(t, u) == Len(u) = Len(t) /\ \A i \in 1..Len(t) : Line(u[i]) = Line(t[i])

LEMMA SameLinesKeep ==
  ASSUME NEW t, NEW u, SameLines(t, u), NEW f
  PROVE  /\ Agrees(t, f) => Agrees(u, f)
         /\ Earlier(f, t) => Earlier(f, u)
<1>1. \A i \in 1..Len(t) : /\ u[i].username = t[i].username
                           /\ u[i].password = t[i].password
                           /\ u[i].status = t[i].status
  BY DEF SameLines, Line
<1>2. QED
  BY <1>1 DEF SameLines, Agrees, Earlier

(* The array with account k blocked. *)
LEMMA BlockedLines ==
  ASSUME FileInv, NEW k \in 1..Len(accounts), accounts[k].status # 0, up
  PROVE  /\ Blocked(k) \in Seq(Account) /\ Len(Blocked(k)) = Len(accounts)
         /\ Earlier(accountFile, Blocked(k))
         /\ \A n \in 0..Len(accounts) : Endures(accountFile, Lines(Blocked(k), n))
<1>1. Blocked(k) \in Seq(Account) /\ Len(Blocked(k)) = Len(accounts)
  BY AccountUpdates DEF SameNames, FileInv
<1>2. accounts \in Seq(Account) /\ Earlier(accountFile, accounts)
  BY DEF FileInv, TypeInv, TypeOK
<1>3. ASSUME NEW i \in 1..Len(accounts)
      PROVE  /\ Blocked(k)[i].username = accounts[i].username
             /\ Blocked(k)[i].password = accounts[i].password
             /\ accounts[i].status = 0 => Blocked(k)[i].status = 0
  <2>1. accounts[i] \in Account
    BY <1>2
  <2>2. QED
    BY <1>2, <2>1 DEF Blocked, Account
<1>4. Earlier(accountFile, Blocked(k))
  BY <1>1, <1>2, <1>3 DEF Earlier
<1>5. ASSUME NEW n \in 0..Len(accounts)
      PROVE  Endures(accountFile, Lines(Blocked(k), n))
  <2>1. SUFFICES ASSUME NEW i \in 1..n, i \in 1..Len(accountFile),
                        Line(Blocked(k)[i]) # accountFile[i]
                 PROVE  /\ accountFile[i].status # 0
                        /\ Line(Blocked(k)[i]).username = accountFile[i].username
                        /\ Line(Blocked(k)[i]).password = accountFile[i].password
    BY DEF Endures, Lines
  <2>2. /\ accountFile[i] \in FileRecord
        /\ accountFile[i].username = Blocked(k)[i].username
        /\ accountFile[i].password = Blocked(k)[i].password
        /\ accountFile[i].status = 0 => Blocked(k)[i].status = 0
    <3>1. Len(accounts) \in Nat
      BY <1>2
    <3>2. i \in 1..Len(Blocked(k))
      BY <1>1, <3>1
    <3>3. QED
      BY <1>4, <2>1, <3>2 DEF Earlier
  <2>3. QED
    BY <2>1, <2>2 DEF Line, FileRecord
<1>6. QED
  BY <1>1, <1>4, <1>5

(* A process that has ended agrees with every file. *)
LEMMA HaltFile ==
  ASSUME FileInv, [ServerNext]_serverVars, Halt
  PROVE  FileInv'
<1>1. TypeInv'
  BY NextType DEF FileInv
<1>2. QED
  BY <1>1 DEF FileInv, Halt

(* A handling that writes no file. *)
LEMMA LoopFile ==
  ASSUME FileInv, [ServerNext]_serverVars, up, NEW t, SameLines(accounts, t),
         NEW tbl, LoopWith(t, tbl), UNCHANGED <<accountFile, saved>>
  PROVE  FileInv'
<1>1. CASE server_running
  <2>1. TypeInv' /\ accounts' = t /\ up' = up
    BY <1>1, NextType DEF FileInv, LoopWith
  <2>2. /\ Agrees(accounts, accountFile) => Agrees(t, accountFile)
        /\ Earlier(accountFile, accounts) => Earlier(accountFile, t)
    BY SameLinesKeep
  <2>3. /\ up' /\ saved' => Agrees(accounts', accountFile')
        /\ up' => Earlier(accountFile', accounts')
    BY <2>1, <2>2 DEF FileInv
  <2>4. QED
    BY <2>1, <2>3 DEF FileInv
<1>2. CASE ~server_running
  BY <1>2, HaltFile DEF LoopWith
<1>3. QED
  BY <1>1, <1>2

LEMMA ReceiveFile ==
  ASSUME FileInv, [ServerNext]_serverVars,
         NEW a \in Addr, NEW m \in Text, Receive(a, m)
  PROVE  FileInv' /\ (accountFile' = accountFile \/ Endures(accountFile, accountFile'))
<1>0. accounts \in Seq(Account)
  BY DEF FileInv, TypeInv, TypeOK
<1>1. CASE ServerBusy(a) \/ TakeUsername(a, m) \/ NotReady(a)
             \/ UnknownUser(a) \/ LogOut(a, m) \/ RejectText(a, m)
             \/ HashText(a, m)
  <2>1. /\ up /\ UNCHANGED <<accountFile, saved>>
        /\ \E tbl : LoopWith(accounts, tbl)
    BY <1>1
    DEF ServerBusy, TakeUsername, NotReady, UnknownUser, LogOut, RejectText,
        HashText, Handling
  <2>2. SameLines(accounts, accounts)
    BY DEF SameLines
  <2>3. QED
    BY <2>1, <2>2, LoopFile
<1>2. ASSUME NEW i \in 1..Len(accounts), LogIn(a, m, i) \/ CountFailure(a, m, i)
      PROVE  FileInv' /\ accountFile' = accountFile
  <2>1. PICK n : \E tbl : LoopWith([accounts EXCEPT ![i].failed_attempts = n], tbl)
    <3>1. CASE LogIn(a, m, i)
      BY <3>1 DEF LogIn
    <3>2. CASE CountFailure(a, m, i)
      <4>1. LoopWith([accounts EXCEPT ![i].failed_attempts =
                        accounts[i].failed_attempts + 1], Refused(a))
        BY <1>0, <3>2 DEF CountFailure
      <4>2. QED
        BY <4>1
    <3>3. QED
      BY <1>2, <3>1, <3>2
  <2>2. SameLines(accounts, [accounts EXCEPT ![i].failed_attempts = n])
    <3>1. ASSUME NEW j \in 1..Len(accounts)
          PROVE  Line([accounts EXCEPT ![i].failed_attempts = n][j])
                   = Line(accounts[j])
      <4>1. accounts[j] \in Account
        BY <1>0
      <4>2. QED
        BY <1>0, <4>1 DEF Line, Account
    <3>2. QED
      BY <1>0, <3>1 DEF SameLines
  <2>3. up /\ UNCHANGED <<accountFile, saved>>
    BY <1>2 DEF LogIn, CountFailure, WrongPassword, Checking, Handling
  <2>4. QED
    BY <2>1, <2>2, <2>3, LoopFile
<1>3. ASSUME NEW i \in 1..Len(accounts), BlockAccount(a, m, i)
      PROVE  FileInv' /\ (accountFile' = accountFile \/ Endures(accountFile, accountFile'))
  <2>1. /\ up /\ accounts[i].status # 0
        /\ SaveAccounts(Blocked(i)) /\ LoopWith(Blocked(i), Refused(a))
    BY <1>3 DEF BlockAccount, LastFailure, WrongPassword, Checking, Handling
  <2>2. /\ Blocked(i) \in Seq(Account) /\ Len(Blocked(i)) = Len(accounts)
        /\ Earlier(accountFile, Blocked(i))
        /\ \A n \in 0..Len(accounts) : Endures(accountFile, Lines(Blocked(i), n))
    BY <2>1, BlockedLines
  <2>3. Len(accounts) \in 0..Len(accounts)
    BY <1>0
  <2>4. accountFile' = accountFile \/ Endures(accountFile, accountFile')
    BY <2>1, <2>2, <2>3 DEF SaveAccounts
  <2>5. Earlier(accountFile', Blocked(i))
    BY <2>1, <2>2, <2>3, LinesEarlier DEF SaveAccounts
  <2>6. saved' => Agrees(Blocked(i), accountFile')
    <3>1. Len(Blocked(i)) <= MaxAccounts
      BY <2>2 DEF FileInv, TypeInv, TypeOK
    <3>2. Agrees(Blocked(i), Lines(Blocked(i), Len(Blocked(i))))
      BY <2>2, <3>1, WholeFileAgrees
    <3>3. QED
      BY <2>1, <3>2 DEF SaveAccounts
  <2>7. FileInv'
    <3>1. CASE server_running
      <4>1. accounts' = Blocked(i) /\ TypeInv'
        BY <2>1, <3>1, NextType DEF LoopWith, FileInv
      <4>2. /\ saved' => Agrees(accounts', accountFile')
            /\ Earlier(accountFile', accounts')
        BY <2>5, <2>6, <4>1
      <4>3. QED
        BY <4>1, <4>2 DEF FileInv
    <3>2. CASE ~server_running
      BY <2>1, <3>2, HaltFile DEF LoopWith
    <3>3. QED
      BY <3>1, <3>2
  <2>8. QED
    BY <2>4, <2>7
<1>4. QED
  BY <1>1, <1>2, <1>3 DEF Receive, ServerBusy, TakeUsername, NotReady,
     UnknownUser, LogOut, RejectText, HashText

LEMMA NextFile ==
  ASSUME FileInv, [ServerNext]_serverVars
  PROVE  FileInv' /\ (accountFile' = accountFile \/ Endures(accountFile, accountFile'))
<1>0. TypeInv'
  BY NextType DEF FileInv
<1>1. CASE \E a \in Addr, m \in Text : Receive(a, m)
  BY <1>1, ReceiveFile
<1>2. ASSUME NEW a \in Addr, NEW m \in Text, NEW i \in 1..Len(accounts),
             CrashInSave(a, m, i)
      PROVE  FileInv' /\ Endures(accountFile, accountFile')
  <2>1. /\ up /\ accounts[i].status # 0 /\ Halt
        /\ \E n \in 0..Len(accounts) : accountFile' = Lines(Blocked(i), n)
    BY <1>2
    DEF CrashInSave, LastFailure, WrongPassword, Checking, Handling
  <2>2. QED
    BY <2>1, BlockedLines, HaltFile
<1>3. CASE handle_signal \/ UNCHANGED serverVars
  BY <1>0, <1>3 DEF handle_signal, serverVars, FileInv
<1>4. CASE Crash
  BY <1>4, HaltFile DEF Crash
<1>5. CASE Start
  <2>1. /\ accountFile' = accountFile /\ accounts' = Load(accountFile)
        /\ accountFile \in Seq(FileRecord \cup {Malformed})
    BY <1>5 DEF Start, FileInv, TypeInv, TypeOK
  <2>2. Agrees(accounts', accountFile') /\ Earlier(accountFile', accounts')
    BY <2>1, LoadAgrees
  <2>3. QED
    BY <1>0, <2>1, <2>2 DEF FileInv
<1>6. QED
  BY <1>1, <1>2, <1>3, <1>4, <1>5 DEF ServerNext

LEMMA InitFile == ServerInit => FileInv
<1> SUFFICES ASSUME ServerInit PROVE FileInv
  OBVIOUS
<1>1. /\ accounts = Load(accountFile)
      /\ accountFile \in Seq(FileRecord \cup {Malformed})
  BY FileAssumption DEF ServerInit
<1>2. QED
  BY <1>1, InitType, LoadAgrees DEF FileInv

(* As long as the last save succeeded, a restart would give the server the *)
(* accounts it has, each with the status it has.                           *)
THEOREM FileAgreesHolds == ServerSpec => []FileAgrees
<1>1. FileInv => FileAgrees
  BY DEF FileInv, FileAgrees, Agrees
<1>2. FileInv /\ [ServerNext]_serverVars => FileInv'
  BY NextFile
<1>3. QED
  BY <1>1, <1>2, InitFile, PTL DEF ServerSpec

(* No save, failed or cut off, gives one user's line to another, changes a *)
(* password, or reopens a blocked account in the file.                     *)
THEOREM LinesEndureHolds == ServerSpec => LinesEndure
<1>1. FileInv /\ [ServerNext]_serverVars => FileInv'
  BY NextFile
<1>2. FileInv /\ [ServerNext]_serverVars =>
        [Endures(accountFile, accountFile')]_accountFile
  BY NextFile
<1>3. Endures(accountFile, accountFile') <=>
        \A i \in 1..Len(accountFile) \cap 1..Len(accountFile') :
          accountFile'[i] # accountFile[i] =>
            /\ accountFile[i].status # 0
            /\ accountFile'[i].username = accountFile[i].username
            /\ accountFile'[i].password = accountFile[i].password
  BY DEF Endures
<1>4. QED
  BY <1>1, <1>2, <1>3, InitFile, PTL DEF ServerSpec, LinesEndure

-------------------------------------------------------------------------------
(***************************************************************************)
(* The server implements the lockout policy.                               *)
(***************************************************************************)

-------------------------------------------------------------------------------
(* What the policy sees of an account array.                               *)

StreakIn(t) ==
  [m \in Text |-> IF FindAccount(t, m) = NULL THEN 0
                  ELSE t[FindAccount(t, m)].failed_attempts]

NoStreaks == [m \in Text |-> 0]

LEMMA StreakBar ==
  streakBar = StreakIn(accounts) /\ streakBar' = StreakIn(accounts)'
BY DEF streakBar, StreakIn

(* find_account() returns the least index with the name. *)
LEMMA FindAccountLeast ==
  ASSUME NEW t, Len(t) \in Nat, NEW m, NEW j \in 1..Len(t),
         t[j].username = m, \A k \in 1..Len(t) : t[k].username = m => j <= k
  PROVE  FindAccount(t, m) = j
<1>1. Named(t, m) \subseteq Nat /\ j \in Named(t, m)
  BY DEF Named
<1>2. /\ First(Named(t, m)) \in Named(t, m)
      /\ First(Named(t, m)) <= j
  BY <1>1, FirstIsLeast
<1>3. /\ First(Named(t, m)) \in 1..Len(t)
      /\ t[First(Named(t, m))].username = m
  BY <1>2 DEF Named
<1>4. j <= First(Named(t, m))
  BY <1>3
<1>5. QED
  BY <1>1, <1>2, <1>3, <1>4 DEF FindAccount

LEMMA FoundIsLeast ==
  ASSUME NEW t, Len(t) \in Nat, NEW m, FindAccount(t, m) # NULL
  PROVE  /\ FindAccount(t, m) \in 1..Len(t)
         /\ t[FindAccount(t, m)].username = m
         /\ \A k \in 1..Len(t) : t[k].username = m => FindAccount(t, m) <= k
<1>1. Named(t, m) \subseteq Nat /\ Named(t, m) # {}
  BY DEF Named, FindAccount
<1>2. FindAccount(t, m) = First(Named(t, m))
  BY <1>1 DEF FindAccount
<1>3. QED
  BY <1>1, <1>2, FirstIsLeast DEF Named

(* An array without accounts opens nothing and counts nothing. *)
LEMMA EmptyArray == OpenIn(<<>>) = {} /\ StreakIn(<<>>) = NoStreaks
<1>1. \A m : FindAccount(<<>>, m) = NULL
  BY DEF FindAccount, Named
<1>2. QED
  BY <1>1 DEF OpenIn, StreakIn, NoStreaks

(* A loaded array counts nothing. *)
LEMMA LoadedStreak ==
  ASSUME NEW f \in Seq(FileRecord \cup {Malformed})
  PROVE  StreakIn(Load(f)) = NoStreaks
<1>1. Len(Load(f)) \in Nat
  BY LoadType
<1>2. ASSUME NEW i \in 1..Len(Load(f))
      PROVE  Load(f)[i].failed_attempts = 0
  <2>1. Load(f)[i] = LoadRecord(f[i])
    BY LoadType
  <2>2. QED
    BY <2>1 DEF LoadRecord
<1>3. QED
  BY <1>1, <1>2, FoundIsLeast DEF StreakIn, NoStreaks

(* A file that holds the first lines of an array opens no other account    *)
(* than the array does.                                                    *)
LEMMA LinesOpen ==
  ASSUME NEW t \in Seq(Account), NEW n \in 0..Len(t)
  PROVE  OpenIn(Load(Lines(t, n))) \subseteq OpenIn(t)
<1> DEFINE f == Lines(t, n)
           u == Load(f)
<1>1. f \in Seq(FileRecord \cup {Malformed}) /\ Len(f) = n
  BY LinesType DEF Lines
<1>2. Len(u) \in Nat /\ Len(u) <= n /\ Len(u) <= Len(t)
  BY <1>1, LoadType, RecordCountReadable
<1>3. ASSUME NEW k \in 1..Len(u)
      PROVE  /\ u[k].username = t[k].username
             /\ u[k].status # 0 => t[k].status # 0
  <2>1. k \in 1..n /\ f[k] = Line(t[k])
    BY <1>2 DEF Lines
  <2>2. u[k] = LoadRecord(Line(t[k]))
    BY <1>1, <2>1, LoadType
  <2>3. QED
    BY <2>2 DEF LoadRecord, Line
<1> HIDE DEF f, u
<1>4. SUFFICES ASSUME NEW m \in Text, FindAccount(u, m) # NULL,
                      u[FindAccount(u, m)].status # 0
               PROVE  /\ FindAccount(t, m) = FindAccount(u, m)
                      /\ t[FindAccount(u, m)].status # 0
  BY DEF OpenIn, f, u
<1>5. PICK j \in 1..Len(u) :
        /\ j = FindAccount(u, m) /\ u[j].username = m
        /\ \A k \in 1..Len(u) : u[k].username = m => j <= k
  BY <1>2, <1>4, FoundIsLeast
<1>6. j \in 1..Len(t) /\ t[j].username = m
  BY <1>2, <1>3, <1>5
<1>7. ASSUME NEW k \in 1..Len(t), t[k].username = m
      PROVE  j <= k
  <2>1. CASE k <= Len(u)
    BY <1>2, <1>3, <1>5, <1>7, <2>1
  <2>2. CASE ~(k <= Len(u))
    BY <1>2, <1>5, <2>2
  <2>3. QED
    BY <2>1, <2>2
<1>8. FindAccount(t, m) = j
  BY <1>6, <1>7, FindAccountLeast
<1>9. QED
  BY <1>3, <1>4, <1>5, <1>8

(* Changing the account i that x names, and no name, changes what the      *)
(* policy sees of x alone.                                                 *)
LEMMA Updated ==
  ASSUME NEW t \in Seq(Account), NEW x \in Text, NEW i \in 1..Len(t),
         FindAccount(t, x) = i,
         NEW u, SameNames(t, u),
         \A j \in 1..Len(t) : j # i => u[j] = t[j]
  PROVE  /\ StreakIn(u) = [StreakIn(t) EXCEPT ![x] = u[i].failed_attempts]
         /\ u[i].status = t[i].status => OpenIn(u) = OpenIn(t)
         /\ u[i].status = 0 => OpenIn(u) = OpenIn(t) \ {x}
<1>1. \A m : FindAccount(u, m) = FindAccount(t, m)
  BY FindAccountSameNames
<1>2. \A m : FindAccount(t, m) # NULL =>
        /\ FindAccount(t, m) \in 1..Len(t)
        /\ t[FindAccount(t, m)].username = m
  BY FoundIsLeast
<1>3. ASSUME NEW m, FindAccount(t, m) # NULL, m # x
      PROVE  u[FindAccount(t, m)] = t[FindAccount(t, m)]
  <2>1. i # NULL
    BY DEF NULL
  <2>2. t[i].username = x /\ t[FindAccount(t, m)].username = m
    BY <1>2, <1>3, <2>1
  <2>3. FindAccount(t, m) \in 1..Len(t) /\ FindAccount(t, m) # i
    BY <1>2, <1>3, <2>2
  <2>4. QED
    BY <2>3
<1>4. i # NULL
  BY DEF NULL
<1>5. StreakIn(u) = [StreakIn(t) EXCEPT ![x] = u[i].failed_attempts]
  BY <1>1, <1>3, <1>4 DEF StreakIn
<1>6. u[i].status = t[i].status => OpenIn(u) = OpenIn(t)
  BY <1>1, <1>3, <1>4 DEF OpenIn
<1>7. u[i].status = 0 => OpenIn(u) = OpenIn(t) \ {x}
  BY <1>1, <1>3, <1>4 DEF OpenIn
<1>8. QED
  BY <1>5, <1>6, <1>7

-------------------------------------------------------------------------------
(* Steps                                                                   *)

(* The process ends and the file is one that a save may have left. *)
LEMMA HaltStep ==
  ASSUME SessionInv, up, Halt,
         \/ accountFile' = accountFile
         \/ \E t \in Seq(Account), n \in Nat :
              /\ n \in 0..Len(t)
              /\ accountFile' = Lines(t, n)
              /\ OpenIn(t) \subseteq OpenIn(accounts)
  PROVE  L!Forget
<1>1. openBar = OpenIn(accounts) /\ openBar' = storedBar'
  BY DEF openBar, Halt
<1>2. streakBar' = NoStreaks
  BY StreakBar, EmptyArray DEF Halt
<1>3. storedBar' = storedBar \/ storedBar' \subseteq openBar
  <2>1. CASE accountFile' = accountFile
    BY <2>1 DEF storedBar
  <2>2. CASE \E t \in Seq(Account), n \in Nat :
               /\ n \in 0..Len(t)
               /\ accountFile' = Lines(t, n)
               /\ OpenIn(t) \subseteq OpenIn(accounts)
    <3>1. PICK t \in Seq(Account), n \in Nat :
               /\ n \in 0..Len(t)
               /\ accountFile' = Lines(t, n)
               /\ OpenIn(t) \subseteq OpenIn(accounts)
      BY <2>2
    <3>2. OpenIn(Load(Lines(t, n))) \subseteq OpenIn(t)
      BY <3>1, LinesOpen
    <3>3. storedBar' = OpenIn(Load(Lines(t, n)))
      BY <3>1 DEF storedBar
    <3>4. QED
      BY <1>1, <3>1, <3>2, <3>3
  <2>3. QED
    BY <2>1, <2>2
<1>4. QED
  BY <1>1, <1>2, <1>3 DEF L!Forget, L!Saved, L!NoStreak, NoStreaks

(* The handlings that leave the accounts and the file alone. *)
LEMMA QuietStep ==
  ASSUME SessionInv, up, NEW tbl, LoopWith(accounts, tbl), UNCHANGED accountFile
  PROVE  [L!Next]_(L!vars)
<1>1. CASE server_running
  <2>1. UNCHANGED <<up, accounts, accountFile>>
    BY <1>1 DEF LoopWith
  <2>2. openBar' = openBar /\ storedBar' = storedBar /\ streakBar' = streakBar
    BY <2>1 DEF openBar, storedBar, streakBar, OpenIn
  <2>3. QED
    BY <2>2 DEF L!vars
<1>2. CASE ~server_running
  BY <1>2, HaltStep DEF LoopWith, L!Next
<1>3. QED
  BY <1>1, <1>2

(* The account that a password is compared for is the one that the name in *)
(* the session names: it is open.                                          *)
LEMMA CheckedAccount ==
  ASSUME SessionInv, NEW a \in Addr, NEW i \in 1..Len(accounts), Checking(a, i)
  PROVE  \E x \in Text : /\ FindAccount(accounts, x) = i
                         /\ x \in OpenIn(accounts)
<1>1. Bound(accounts, SessionOf(a)) /\ SessionOf(a).account = i /\ i # NULL
  BY HandlingExisting DEF Checking
<1>2. SessionOf(a).username \in Text
  BY GetSession DEF Checking, Handling, SessionInv, TypeInv, Session
<1>3. FindAccount(accounts, SessionOf(a).username) = i
  BY <1>1 DEF Bound
<1>4. QED
  BY <1>1, <1>2, <1>3 DEF OpenIn, Checking

(* A login, a failure that is counted, and the one that blocks. *)
LEMMA CheckStep ==
  ASSUME SessionInv, NEW a \in Addr, NEW m \in Text,
         NEW i \in 1..Len(accounts),
         LogIn(a, m, i) \/ CountFailure(a, m, i) \/ BlockAccount(a, m, i)
  PROVE  [L!Next]_(L!vars)
<1>1. Checking(a, i) /\ accounts[i].status # 0 /\ up
  BY DEF LogIn, CountFailure, BlockAccount, LastFailure, WrongPassword,
         Checking, Handling
<1>2. PICK x \in Text : FindAccount(accounts, x) = i /\ x \in OpenIn(accounts)
  BY <1>1, CheckedAccount
<1>3. /\ accounts \in Seq(Account) /\ accounts[i] \in Account
      /\ accounts[i].failed_attempts \in 0..2
  <2>1. accounts \in Seq(Account) /\ accounts[i] \in Account
    BY DEF SessionInv, TypeInv, TypeOK
  <2>2. ~(accounts[i].failed_attempts >= 3)
    BY <1>1 DEF SessionInv, TypeInv, LockoutThreshold, MaxFailed
  <2>3. QED
    BY <2>1, <2>2 DEF Account, MaxFailed
<1>4. openBar = OpenIn(accounts) /\ streakBar[x] = accounts[i].failed_attempts
  <2>1. i # NULL
    BY DEF NULL
  <2>2. QED
    BY <1>1, <1>2, <2>1 DEF openBar, streakBar
<1>5. CASE ~server_running
  <2>1. Halt
    BY <1>5 DEF LogIn, CountFailure, BlockAccount, LoopWith
  <2>2. CASE LogIn(a, m, i) \/ CountFailure(a, m, i)
    BY <1>1, <2>1, <2>2, HaltStep DEF LogIn, CountFailure, L!Next
  <2>3. CASE BlockAccount(a, m, i)
    <3>1. Blocked(i) \in Seq(Account) /\ SameNames(accounts, Blocked(i))
      BY <1>1, AccountUpdates DEF SessionInv
    <3>2. OpenIn(Blocked(i)) \subseteq OpenIn(accounts)
      <4>1. /\ Blocked(i)[i].status = 0
            /\ \A j \in 1..Len(accounts) : j # i => Blocked(i)[j] = accounts[j]
        BY <1>3 DEF Blocked, Account
      <4>2. OpenIn(Blocked(i)) = OpenIn(accounts) \ {x}
        BY <1>2, <1>3, <3>1, <4>1, Updated
      <4>3. QED
        BY <4>2
    <3>3. \/ accountFile' = accountFile
          \/ \E n \in 0..Len(Blocked(i)) : accountFile' = Lines(Blocked(i), n)
      <4>1. Len(Blocked(i)) \in 0..Len(Blocked(i))
        BY <3>1
      <4>2. SaveAccounts(Blocked(i))
        BY <2>3 DEF BlockAccount
      <4>3. QED
        BY <4>1, <4>2 DEF SaveAccounts
    <3>4. QED
      BY <1>1, <2>1, <3>1, <3>2, <3>3, HaltStep DEF L!Next
  <2>4. QED
    BY <2>2, <2>3
<1>6. CASE server_running
  <2>0. up' = up
    BY <1>6 DEF LogIn, CountFailure, BlockAccount, LoopWith
  <2>1. CASE LogIn(a, m, i)
    <3> DEFINE u == [accounts EXCEPT ![i].failed_attempts = 0]
    <3>1. accounts' = u /\ accountFile' = accountFile
      BY <1>6, <2>1 DEF LogIn, LoopWith
    <3>2. SameNames(accounts, u)
      BY <1>1, AccountUpdates DEF SessionInv
    <3>3. /\ u[i].failed_attempts = 0 /\ u[i].status = accounts[i].status
          /\ \A j \in 1..Len(accounts) : j # i => u[j] = accounts[j]
      BY <1>3 DEF Account
    <3> HIDE DEF u
    <3>4. /\ StreakIn(u) = [StreakIn(accounts) EXCEPT ![x] = 0]
          /\ OpenIn(u) = OpenIn(accounts)
      BY <1>2, <1>3, <3>2, <3>3, Updated
    <3>5. /\ streakBar' = [streakBar EXCEPT ![x] = 0]
          /\ openBar' = openBar /\ storedBar' = storedBar
      BY <1>1, <2>0, <3>1, <3>4, StreakBar DEF StreakIn, openBar, storedBar, OpenIn
    <3>6. L!Accept(x)
      BY <1>2, <1>4, <3>5 DEF L!Accept
    <3>7. QED
      BY <3>6 DEF L!Next
  <2>2. CASE CountFailure(a, m, i)
    <3> DEFINE u == [accounts EXCEPT ![i].failed_attempts = @ + 1]
    <3>1. /\ accounts' = u /\ accountFile' = accountFile
          /\ accounts[i].failed_attempts + 1 < 3
      BY <1>6, <2>2 DEF CountFailure, LoopWith, MaxFailed
    <3>2. SameNames(accounts, u)
      BY <1>1, <3>1, AccountUpdates DEF SessionInv, MaxFailed
    <3>3. /\ u[i].failed_attempts = accounts[i].failed_attempts + 1
          /\ u[i].status = accounts[i].status
          /\ \A j \in 1..Len(accounts) : j # i => u[j] = accounts[j]
      BY <1>3 DEF Account
    <3> HIDE DEF u
    <3>4. /\ StreakIn(u) = [StreakIn(accounts) EXCEPT ![x] = streakBar[x] + 1]
          /\ OpenIn(u) = OpenIn(accounts)
      BY <1>2, <1>3, <1>4, <3>2, <3>3, Updated
    <3>5. /\ streakBar' = [streakBar EXCEPT ![x] = streakBar[x] + 1]
          /\ openBar' = openBar /\ storedBar' = storedBar
      BY <1>1, <2>0, <3>1, <3>4, StreakBar DEF StreakIn, openBar, storedBar, OpenIn
    <3>6. L!Reject(x)
      BY <1>2, <1>4, <3>1, <3>5 DEF L!Reject, L!Threshold
    <3>7. QED
      BY <3>6 DEF L!Next
  <2>3. CASE BlockAccount(a, m, i)
    <3>1. /\ accounts' = Blocked(i) /\ SaveAccounts(Blocked(i))
          /\ accounts[i].failed_attempts + 1 >= 3
      BY <1>6, <2>3 DEF BlockAccount, LastFailure, LoopWith, MaxFailed
    <3>2. Blocked(i) \in Seq(Account) /\ SameNames(accounts, Blocked(i))
      BY <1>1, AccountUpdates DEF SessionInv
    <3>3. /\ Blocked(i)[i].failed_attempts = 3
          /\ Blocked(i)[i].status = 0
          /\ \A j \in 1..Len(accounts) : j # i => Blocked(i)[j] = accounts[j]
      BY <1>3, <3>1 DEF Account, Blocked
    <3>4. /\ StreakIn(Blocked(i)) = [StreakIn(accounts) EXCEPT ![x] = 3]
          /\ OpenIn(Blocked(i)) = OpenIn(accounts) \ {x}
      BY <1>2, <1>3, <3>2, <3>3, Updated
    <3>5. /\ streakBar' = [streakBar EXCEPT ![x] = 3]
          /\ openBar' = openBar \ {x}
      BY <1>1, <1>4, <2>0, <3>1, <3>4, StreakBar DEF StreakIn, openBar, OpenIn
    <3>6. storedBar' = storedBar \/ storedBar' \subseteq openBar'
      <4>1. CASE accountFile' = accountFile
        BY <4>1 DEF storedBar
      <4>2. CASE \E n \in 0..Len(Blocked(i)) : accountFile' = Lines(Blocked(i), n)
        <5>1. PICK n \in 0..Len(Blocked(i)) : accountFile' = Lines(Blocked(i), n)
          BY <4>2
        <5>2. OpenIn(Load(Lines(Blocked(i), n))) \subseteq OpenIn(Blocked(i))
          BY <3>2, LinesOpen
        <5>3. storedBar' = OpenIn(Load(Lines(Blocked(i), n)))
          BY <5>1 DEF storedBar
        <5>4. QED
          BY <1>4, <3>4, <3>5, <5>2, <5>3
      <4>3. QED
        BY <3>1, <3>2, <4>1, <4>2 DEF SaveAccounts
    <3>7. L!Lock(x)
      BY <1>2, <1>3, <1>4, <3>1, <3>5, <3>6 DEF L!Lock, L!Saved, L!Threshold
    <3>8. QED
      BY <3>7 DEF L!Next
  <2>4. QED
    BY <2>1, <2>2, <2>3
<1>7. QED
  BY <1>5, <1>6

LEMMA LockoutStep ==
  ASSUME SessionInv, [ServerNext]_serverVars
  PROVE  [L!Next]_(L!vars)
<1>1. ASSUME NEW a \in Addr, NEW m \in Text, Receive(a, m)
      PROVE  [L!Next]_(L!vars)
  <2>1. CASE ServerBusy(a) \/ TakeUsername(a, m) \/ NotReady(a)
               \/ UnknownUser(a) \/ LogOut(a, m) \/ RejectText(a, m)
               \/ HashText(a, m)
    <3>1. /\ up /\ UNCHANGED accountFile
          /\ \E tbl : LoopWith(accounts, tbl)
      BY <2>1
      DEF ServerBusy, TakeUsername, NotReady, UnknownUser, LogOut, RejectText,
          HashText, Handling
    <3>2. QED
      BY <3>1, QuietStep
  <2>2. QED
    BY <1>1, <2>1, CheckStep DEF Receive
<1>2. ASSUME NEW a \in Addr, NEW m \in Text, NEW i \in 1..Len(accounts),
             CrashInSave(a, m, i)
      PROVE  [L!Next]_(L!vars)
  <2>1. Checking(a, i) /\ accounts[i].status # 0 /\ up /\ Halt
    BY <1>2
    DEF CrashInSave, LastFailure, WrongPassword, Checking, Handling
  <2>2. PICK x \in Text : FindAccount(accounts, x) = i
    BY <2>1, CheckedAccount
  <2>3. accounts \in Seq(Account) /\ accounts[i] \in Account
    BY DEF SessionInv, TypeInv, TypeOK
  <2>4. Blocked(i) \in Seq(Account) /\ SameNames(accounts, Blocked(i))
    BY <2>1, AccountUpdates DEF SessionInv
  <2>5. /\ Blocked(i)[i].status = 0
        /\ \A j \in 1..Len(accounts) : j # i => Blocked(i)[j] = accounts[j]
    BY <2>3 DEF Blocked, Account
  <2>6. OpenIn(Blocked(i)) = OpenIn(accounts) \ {x}
    BY <2>2, <2>3, <2>4, <2>5, Updated
  <2>7. \E n \in 0..Len(Blocked(i)) : accountFile' = Lines(Blocked(i), n)
    BY <1>2, <2>4 DEF CrashInSave, SameNames
  <2>8. QED
    BY <2>1, <2>4, <2>6, <2>7, HaltStep DEF L!Next
<1>3. CASE handle_signal \/ UNCHANGED serverVars
  <2>1. UNCHANGED <<up, accounts, accountFile>>
    BY <1>3 DEF handle_signal, serverVars
  <2>2. openBar' = openBar /\ storedBar' = storedBar /\ streakBar' = streakBar
    BY <2>1 DEF openBar, storedBar, streakBar, OpenIn
  <2>3. QED
    BY <2>2 DEF L!vars
<1>4. CASE Crash
  BY <1>4, HaltStep DEF Crash, L!Next
<1>5. CASE Start
  <2>1. /\ ~up /\ up' = TRUE /\ accountFile' = accountFile
        /\ accounts' = Load(accountFile) /\ accounts = <<>>
        /\ accountFile \in Seq(FileRecord \cup {Malformed})
    BY <1>5 DEF Start, SessionInv, TypeInv, TypeOK
  <2>2. openBar' = openBar /\ storedBar' = storedBar
    BY <2>1 DEF openBar, storedBar, OpenIn
  <2>3. streakBar' = streakBar
    BY <2>1, StreakBar, EmptyArray, LoadedStreak
  <2>4. QED
    BY <2>2, <2>3 DEF L!vars
<1>6. QED
  BY <1>1, <1>2, <1>3, <1>4, <1>5 DEF ServerNext

LEMMA LockoutInit == ServerInit => L!Init
<1> SUFFICES ASSUME ServerInit PROVE L!Init
  OBVIOUS
<1>1. /\ accounts = Load(accountFile) /\ up
      /\ accountFile \in Seq(FileRecord \cup {Malformed})
  BY FileAssumption DEF ServerInit
<1>2. storedBar = openBar /\ openBar \subseteq Text
  BY <1>1 DEF storedBar, openBar, OpenIn
<1>3. streakBar = NoStreaks
  BY <1>1, StreakBar, LoadedStreak
<1>4. QED
  BY <1>2, <1>3 DEF L!Init, L!NoStreak, NoStreaks

(* The server implements the lockout policy: an account accepts a login    *)
(* until the third failure in a row and not after it, and no save, failed  *)
(* save, crash inside a save or restart opens an account that was closed   *)
(* in the file.                                                            *)
THEOREM LockoutPolicyHolds == ServerSpec => LockoutPolicy
<1>1. SessionInv /\ [ServerNext]_serverVars => [L!Next]_(L!vars)
  BY LockoutStep
<1>2. QED
  BY <1>1, LockoutInit, InitSessions, NextSessions, PTL
  DEF ServerSpec, LockoutPolicy, L!Spec

-------------------------------------------------------------------------------
(* Bags *)

Once(B) == \A x \in BagToSet(B) : B[x] = 1

LEMMA BagAddElements ==
  ASSUME NEW B, NEW x
  PROVE  /\ BagToSet(BagAdd(B, x)) = BagToSet(B) \cup {x}
         /\ Once(B) /\ x \notin BagToSet(B) => Once(BagAdd(B, x))
BY DEF BagToSet, BagAdd, Once

LEMMA BagRemoveElements ==
  ASSUME NEW B, NEW x \in BagToSet(B)
  PROVE  /\ BagToSet(BagRemove(B, x)) \subseteq BagToSet(B)
         /\ Once(B) => /\ BagToSet(BagRemove(B, x)) = BagToSet(B) \ {x}
                       /\ Once(BagRemove(B, x))
BY DEF BagToSet, BagRemove, Once

LEMMA EmptyBagElements == BagToSet(EmptyBag) = {} /\ Once(EmptyBag)
BY DEF BagToSet, EmptyBag, SetToBag, Once

-------------------------------------------------------------------------------
(* Types, and a server that nothing has stopped.                           *)

Request == [from : Addr, text : Text]

SystemType ==
  /\ at \in [Addr -> Prompts \cup Waits \cup Ends]
  /\ typed \in [Addr -> Text]
  /\ tries \in [Addr -> Nat]
  /\ BagToSet(requests) \subseteq Request
  /\ dups \in Nat /\ stops \in Nat

Steady == stops = 0 => up /\ server_running

SystemBase == SessionInv /\ SystemType /\ Steady

Quiet == dups = 0 /\ stops = 0

LEMMA ServerPart ==
  ASSUME SystemType, [SystemNext]_systemVars
  PROVE  [ServerNext]_serverVars
<1>1. ASSUME NEW c \in Addr, ServerStep(c) PROVE ServerNext
  <2>1. PICK q \in BagToSet(requests) : Receive(c, q.text)
    BY <1>1 DEF ServerStep
  <2>2. q.text \in Text
    BY DEF SystemType, Request
  <2>3. QED
    BY <2>1, <2>2 DEF ServerNext
<1>2. CASE StopServer
  <2>1. CASE Crash \/ handle_signal
    BY <2>1 DEF ServerNext
  <2>2. ASSUME NEW q \in BagToSet(requests), NEW i \in 1..Len(accounts),
               CrashInSave(q.from, q.text, i)
        PROVE  ServerNext
    <3>1. q.from \in Addr /\ q.text \in Text
      BY DEF SystemType, Request
    <3>2. QED
      BY <2>2, <3>1 DEF ServerNext
  <2>3. QED
    BY <1>2, <2>1, <2>2 DEF StopServer, CrashStep
<1>3. CASE StartServer
  BY <1>3 DEF StartServer, ServerNext
<1>4. CASE \/ \E c \in Addr : ClientStep(c)
           \/ LoseRequest \/ LoseAnswer \/ Duplicate
           \/ UNCHANGED systemVars
  BY <1>4 DEF ClientStep, LoseRequest, LoseAnswer, Duplicate, systemVars
<1>5. QED
  BY <1>1, <1>2, <1>3, <1>4 DEF SystemNext

(* The four ways in which a step of a client changes its own state. *)
LEMMA ClientShape ==
  ASSUME NEW c \in Addr, ClientStep(c)
  PROVE  \/ \E m \in Text : \/ TypeUsername(c, m) \/ TypePassword(c, m)
                            \/ TypeText(c, m) \/ TypeBye(c, m)
         \/ EofAtLogin(c) \/ KillClient(c)
         \/ \E ans \in BagToSet(answers) :
              \/ HearPrompt(c, ans) \/ HearVerdict(c, ans)
              \/ HearText(c, ans) \/ HearGoodbye(c, ans)
BY DEF ClientStep, Type, Hear

LEMMA ClientType ==
  ASSUME SystemType, NEW c \in Addr, ClientStep(c)
  PROVE  SystemType'
<1> USE DEF Go, Prompts, Waits, Ends
<1>0. UNCHANGED <<dups, stops>>
  BY DEF ClientStep
<1>1. ASSUME NEW m \in Text, Sends(c, m)
      PROVE  BagToSet(requests') \subseteq Request
  <2>1. BagToSet(requests') = BagToSet(requests) \cup {[from |-> c, text |-> m]}
    BY <1>1, BagAddElements DEF Sends
  <2>2. [from |-> c, text |-> m] \in Request
    BY DEF Request
  <2>3. QED
    BY <2>1, <2>2 DEF SystemType
<1>2. ASSUME NEW m \in Text, TypeUsername(c, m) \/ TypeText(c, m) \/ TypeBye(c, m)
      PROVE  SystemType'
  BY <1>0, <1>1, <1>2 DEF TypeUsername, TypeText, TypeBye, SystemType
<1>3. ASSUME NEW m \in Text, TypePassword(c, m) PROVE SystemType'
  <2>1. BagToSet(requests') \subseteq Request
    BY <1>1, <1>3 DEF TypePassword
  <2>2. tries' \in [Addr -> Nat]
    <3>1. tries \in [Addr -> Nat] /\ tries' = [tries EXCEPT ![c] = tries[c] + 1]
      BY <1>3 DEF TypePassword, SystemType
    <3>2. tries[c] + 1 \in Nat
      BY <3>1
    <3>3. QED
      BY <3>1, <3>2
  <2>3. QED
    BY <1>0, <1>3, <2>1, <2>2 DEF TypePassword, SystemType
<1>4. CASE EofAtLogin(c) \/ KillClient(c)
  BY <1>0, <1>4 DEF EofAtLogin, KillClient, SystemType
<1>5. ASSUME NEW ans \in BagToSet(answers),
             \/ HearPrompt(c, ans) \/ HearVerdict(c, ans)
             \/ HearText(c, ans) \/ HearGoodbye(c, ans)
      PROVE  SystemType'
  BY <1>0, <1>5 DEF HearPrompt, HearVerdict, HearText, HearGoodbye, SystemType
<1>6. QED
  BY <1>2, <1>3, <1>4, <1>5, ClientShape

LEMMA SystemTypeStep ==
  ASSUME SystemType, [SystemNext]_systemVars
  PROVE  SystemType'
<1>1. ASSUME BagToSet(requests') \subseteq BagToSet(requests),
             UNCHANGED <<at, typed, tries>>, dups' \in Nat, stops' \in Nat
      PROVE  SystemType'
  BY <1>1 DEF SystemType
<1>2. ASSUME NEW c \in Addr, ServerStep(c) PROVE SystemType'
  BY <1>1, <1>2, BagRemoveElements DEF ServerStep, SystemType
<1>3. CASE StopServer
  BY <1>1, <1>3, BagRemoveElements DEF StopServer, CrashStep, SystemType
<1>4. CASE StartServer \/ UNCHANGED systemVars
  BY <1>1, <1>4 DEF StartServer, systemVars, clientVars, SystemType
<1>5. CASE LoseRequest \/ LoseAnswer
  BY <1>1, <1>5, BagRemoveElements DEF LoseRequest, LoseAnswer, SystemType
<1>6. CASE Duplicate
  <2>1. BagToSet(requests') \subseteq BagToSet(requests)
    BY <1>6, BagAddElements DEF Duplicate
  <2>2. QED
    BY <1>1, <1>6, <2>1 DEF Duplicate, SystemType
<1>7. QED
  BY <1>2, <1>3, <1>4, <1>5, <1>6, ClientType DEF SystemNext

LEMMA SteadyStep ==
  ASSUME SystemBase, [SystemNext]_systemVars
  PROVE  Steady'
<1>t. stops \in Nat
  BY DEF SystemBase, SystemType
<1>1. SUFFICES ASSUME stops' = 0
               PROVE  up' /\ server_running'
  BY DEF Steady
<1>2. CASE StopServer
  BY <1>t, <1>1, <1>2 DEF StopServer
<1>3. CASE StartServer
  BY <1>3 DEF StartServer, Start
<1>4. ASSUME NEW c \in Addr, ServerStep(c) PROVE up' /\ server_running'
  <2>1. up /\ server_running
    BY <1>1, <1>4 DEF SystemBase, Steady, ServerStep
  <2>2. QED
    BY <1>4, <2>1
    DEF ServerStep, Receive, ServerBusy, TakeUsername, NotReady, UnknownUser,
        LogIn, CountFailure, BlockAccount, LogOut, RejectText, HashText, LoopWith
<1>5. CASE \/ \E c \in Addr : ClientStep(c)
           \/ LoseRequest \/ LoseAnswer \/ Duplicate
           \/ UNCHANGED systemVars
  BY <1>1, <1>5 DEF ClientStep, LoseRequest, LoseAnswer, Duplicate, systemVars,
                    serverVars, SystemBase, Steady
<1>6. QED
  BY <1>2, <1>3, <1>4, <1>5 DEF SystemNext

LEMMA BaseStep ==
  ASSUME SystemBase, [SystemNext]_systemVars
  PROVE  SystemBase'
<1>1. SessionInv'
  BY ServerPart, NextSessions DEF SystemBase
<1>2. QED
  BY <1>1, SystemTypeStep, SteadyStep DEF SystemBase

LEMMA BaseInit == SystemInit => SystemBase
<1> SUFFICES ASSUME SystemInit PROVE SystemBase
  OBVIOUS
<1>1. SessionInv
  BY InitSessions DEF SystemInit
<1>2. SystemType
  BY TextAssumption, EmptyBagElements
  DEF SystemInit, ClientInit, SystemType, Prompts
<1>3. Steady
  BY DEF SystemInit, ServerInit, Steady
<1>4. QED
  BY <1>1, <1>2, <1>3 DEF SystemBase

-------------------------------------------------------------------------------
(* What one datagram does to the sessions.                                 *)

(* The session get_session() returns for an endpoint that has one.         *)
LEMMA OwnSession ==
  ASSUME SessionInv, NEW a \in Addr, FindSession(a) # {}
  PROVE  /\ HasSlot(a) /\ SlotOf(a) \in Slots
         /\ FindSession(a) = {SlotOf(a)}
         /\ SessionsOf(a) = {SessionOf(a)}
<1>1. HasSlot(a) /\ SlotOf(a) \in FindSession(a)
  BY GetSession DEF HasSlot, SessionInv, TypeInv
<1>2. \A s \in FindSession(a) : s = SlotOf(a)
  BY <1>1 DEF FindSession, SessionInv, OneSessionPerClient
<1>3. FindSession(a) = {SlotOf(a)} /\ SlotOf(a) \in Slots
  BY <1>1, <1>2 DEF FindSession
<1>4. QED
  BY <1>1, <1>3 DEF SessionsOf, SessionOf

LEMMA NoSession ==
  ASSUME NEW a, FindSession(a) = {}
  PROVE  SessionsOf(a) = {}
BY DEF SessionsOf

(* Writing a session of a into the slot get_session() gave. *)
LEMMA WrittenSession ==
  ASSUME SessionInv, NEW a \in Addr, HasSlot(a),
         NEW ses, ses.address = a, sessions' = With(a, ses)
  PROVE  /\ \A c \in Addr \ {a} : /\ FindSession(c)' = FindSession(c)
                                /\ SessionsOf(c)' = SessionsOf(c)
         /\ ses.active => SessionsOf(a)' = {ses}
         /\ ~ses.active => FindSession(a)' = {} /\ SessionsOf(a)' = {}
<1>1. /\ SlotOf(a) \in Slots
      /\ FindSession(a) # {} => FindSession(a) = {SlotOf(a)}
      /\ FindSession(a) = {} => ~sessions[SlotOf(a)].active
      /\ sessions[SlotOf(a)].active => sessions[SlotOf(a)].address = a
  <2>1. CASE FindSession(a) # {}
    <3>1. FindSession(a) = {SlotOf(a)} /\ SlotOf(a) \in Slots
      BY <2>1, OwnSession
    <3>2. SlotOf(a) \in FindSession(a)
      BY <3>1
    <3>3. QED
      BY <2>1, <3>1, <3>2 DEF FindSession
  <2>2. CASE FindSession(a) = {}
    BY <2>2, GetSession DEF FreeSlots, SessionInv, TypeInv
  <2>3. QED
    BY <2>1, <2>2
<1>2. /\ sessions'[SlotOf(a)] = ses
      /\ \A s \in Slots \ {SlotOf(a)} : sessions'[s] = sessions[s]
  BY <1>1 DEF With, SessionInv, TypeInv, TypeOK
<1>3. ASSUME NEW c \in Addr \ {a}
      PROVE  FindSession(c)' = FindSession(c) /\ SessionsOf(c)' = SessionsOf(c)
  <2>1. \A s \in Slots : (s \in FindSession(c)' <=> s \in FindSession(c))
                       /\ (s \in FindSession(c) => s # SlotOf(a))
    BY <1>1, <1>2 DEF FindSession
  <2>2. FindSession(c)' = FindSession(c)
    BY <2>1 DEF FindSession
  <2>3. \A s \in FindSession(c) : sessions'[s] = sessions[s]
    BY <1>2, <2>1 DEF FindSession
  <2>4. QED
    BY <2>2, <2>3 DEF SessionsOf
<1>4. \A s \in Slots \ {SlotOf(a)} : s \notin FindSession(a)'
  BY <1>1, <1>2 DEF FindSession
<1>5. SlotOf(a) \in FindSession(a)' <=> ses.active
  BY <1>1, <1>2 DEF FindSession
<1>6. /\ ses.active => FindSession(a)' = {SlotOf(a)}
      /\ ~ses.active => FindSession(a)' = {}
  BY <1>1, <1>4, <1>5 DEF FindSession
<1>7. ses.active => SessionsOf(a)' = {ses}
  BY <1>2, <1>6 DEF SessionsOf
<1>8. ~ses.active => SessionsOf(a)' = {}
  BY <1>6 DEF SessionsOf
<1>9. QED
  BY <1>3, <1>6, <1>7, <1>8

(* The ways in which the server handles a datagram m of a, by what happens *)
(* to the session of a and which answer it sends.                          *)
BusyTurn(a) ==
  /\ FindSession(a) = {} /\ FindSession(a)' = {}
  /\ reply'.kind = "Server busy"

NamedTurn(a, m) ==
  /\ \A x \in SessionsOf(a) : x.state = "WAIT_USERNAME"
  /\ \E y : /\ SessionsOf(a)' = {y}
            /\ y.state = "WAIT_PASSWORD" /\ y.username = Stored[m]
            /\ y.account # NULL => y.username = m
  /\ reply'.kind = "Insert password"

RefusedTurn(a) ==
  /\ \E x \in SessionsOf(a) : x.state = "WAIT_PASSWORD"
  /\ \A y \in SessionsOf(a)' : y.state = "WAIT_USERNAME"
  /\ reply'.kind \in {"Account not ready", "Not OK", "Account is blocked"}

LoginTurn(a) ==
  /\ \E x, y : /\ SessionsOf(a) = {x} /\ SessionsOf(a)' = {y}
               /\ x.state = "WAIT_PASSWORD" /\ x.account # NULL
               /\ y.state = "LOGGED_IN" /\ y.username = x.username
  /\ reply'.kind = "OK"

LogoutTurn(a, m) ==
  /\ \E x \in SessionsOf(a) : x.state = "LOGGED_IN"
  /\ m \in {Empty, Bye}
  /\ FindSession(a)' = {}

TextTurn(a, m) ==
  /\ \E x \in SessionsOf(a) : x.state = "LOGGED_IN"
  /\ m \notin {Empty, Bye}
  /\ SessionsOf(a)' = SessionsOf(a)

Turn(a, m) ==
  /\ reply'.to = a
  /\ \A c \in Addr \ {a} :
       FindSession(c)' = FindSession(c) /\ SessionsOf(c)' = SessionsOf(c)
  /\ \/ BusyTurn(a) \/ NamedTurn(a, m) \/ RefusedTurn(a)
     \/ LoginTurn(a) \/ LogoutTurn(a, m) \/ TextTurn(a, m)

(* A session that is past its username was found, not made. *)
LEMMA HandledSession ==
  ASSUME SessionInv, NEW a \in Addr, NEW st, st # "WAIT_USERNAME",
         Handling(a, st)
  PROVE  /\ SessionsOf(a) = {SessionOf(a)} /\ SessionOf(a).state = st
         /\ SessionOf(a) \in Session /\ SessionOf(a).address = a
         /\ SessionOf(a).active /\ HasSlot(a)
<1>1. FindSession(a) # {}
  BY DEF Handling, SessionOf, NewSession
<1>2. SessionOf(a).active
  BY HandlingExisting
<1>3. QED
  BY <1>1, <1>2, OwnSession, GetSession DEF Handling, SessionInv, TypeInv

LEMMA RefusedTurns ==
  ASSUME SessionInv, NEW a \in Addr, NEW m, Handling(a, "WAIT_PASSWORD"),
         sessions' = Refused(a), reply'.to = a,
         reply'.kind \in {"Account not ready", "Not OK", "Account is blocked"}
  PROVE  Turn(a, m)
<1> DEFINE x == [SessionOf(a) EXCEPT !.state = "WAIT_USERNAME"]
           ses == [x EXCEPT !.account = NULL]
<1>1. /\ SessionsOf(a) = {SessionOf(a)} /\ SessionOf(a).state = "WAIT_PASSWORD"
      /\ SessionOf(a) \in Session /\ SessionOf(a).address = a
      /\ SessionOf(a).active /\ HasSlot(a)
  BY HandledSession
<1>2. /\ x.address = a /\ x.active /\ x.state = "WAIT_USERNAME"
      /\ x \in Session
  BY <1>1 DEF Session, SessionState
<1>3. ses.address = a /\ ses.active /\ ses.state = "WAIT_USERNAME"
  <2> HIDE DEF x
  <2>1. QED
    BY <1>2 DEF Session
<1>4. sessions' = With(a, ses)
  BY DEF Refused
<1> HIDE DEF ses
<1>5. /\ \A c \in Addr \ {a} : /\ FindSession(c)' = FindSession(c)
                            /\ SessionsOf(c)' = SessionsOf(c)
      /\ SessionsOf(a)' = {ses}
  BY <1>1, <1>3, <1>4, WrittenSession
<1>6. RefusedTurn(a)
  BY <1>1, <1>3, <1>5 DEF RefusedTurn
<1>7. QED
  BY <1>5, <1>6 DEF Turn

LEMMA ReceiveTurn ==
  ASSUME SessionInv, server_running, NEW a \in Addr, NEW m \in Text, Receive(a, m)
  PROVE  Turn(a, m)
<1> USE DEF SendAbout, Send
<1>0. ASSUME UNCHANGED sessions
      PROVE  \A c \in Addr : /\ FindSession(c)' = FindSession(c)
                           /\ SessionsOf(c)' = SessionsOf(c)
  BY <1>0 DEF FindSession, SessionsOf
<1>a. TypeOK /\ Len(accounts) \in Nat
  BY DEF SessionInv, TypeInv, TypeOK
<1>l. \A t, tbl : LoopWith(t, tbl) => sessions' = tbl
  BY DEF LoopWith
<1>1. CASE ServerBusy(a)
  <2>1. UNCHANGED sessions /\ FindSession(a) = {}
        /\ reply'.to = a /\ reply'.kind = "Server busy"
    BY <1>1 DEF ServerBusy, LoopWith, HasSlot
  <2>2. QED
    BY <1>0, <2>1 DEF Turn, BusyTurn
<1>2. CASE TakeUsername(a, m)
  <2> DEFINE i == FindAccount(accounts, m)
             x == [SessionOf(a) EXCEPT !.username = Stored[m]]
             y == [x EXCEPT !.account = i]
             ses == [y EXCEPT !.state = "WAIT_PASSWORD"]
  <2>1. /\ HasSlot(a) /\ sessions' = With(a, ses)
        /\ SessionOf(a).state = "WAIT_USERNAME"
        /\ reply'.to = a /\ reply'.kind = "Insert password"
    BY <1>2 DEF TakeUsername, Handling, LoopWith
  <2>2. SessionOf(a) \in Session /\ SessionOf(a).address = a /\ SessionOf(a).active
    <3>1. SessionOf(a) \in Session /\ SessionOf(a).address = a
      BY <1>a, <2>1, GetSession
    <3>2. CASE FindSession(a) = {}
      BY <3>1, <3>2 DEF SessionOf, NewSession
    <3>3. CASE FindSession(a) # {}
      <4>1. SlotOf(a) \in FindSession(a)
        BY <1>a, <2>1, <3>3, GetSession
      <4>2. QED
        BY <3>1, <3>3, <4>1 DEF SessionOf, FindSession
    <3>4. QED
      BY <3>2, <3>3
  <2>3. x.address = a /\ x.username = Stored[m] /\ x.active /\ x \in Session
    BY <2>2, StoredAssumption DEF Session
  <2>4. /\ y.address = a /\ y.username = Stored[m] /\ y.active /\ y.account = i
        /\ y \in [active : BOOLEAN, address : Addr \cup {NoAddr},
                  username : Text, account : {i}, state : SessionState]
    <3> HIDE DEF x, i
    <3>1. QED
      BY <2>3 DEF Session
  <2>5. /\ ses.address = a /\ ses.username = Stored[m] /\ ses.active
        /\ ses.account = i /\ ses.state = "WAIT_PASSWORD"
    <3> HIDE DEF y, i
    <3>1. QED
      BY <2>4
  <2>6. i # NULL => Stored[m] = m
    <3>1. SUFFICES ASSUME i # NULL PROVE Stored[m] = m
      OBVIOUS
    <3>2. i \in Named(accounts, m)
      BY <1>a, <3>1, FindAccountFirst
    <3>3. QED
      BY <3>2 DEF Named, SessionInv, NamesFit
  <2>7. \A z \in SessionsOf(a) : z.state = "WAIT_USERNAME"
    BY <2>1, OwnSession, NoSession
  <2> HIDE DEF ses, i
  <2>8. /\ \A c \in Addr \ {a} : /\ FindSession(c)' = FindSession(c)
                              /\ SessionsOf(c)' = SessionsOf(c)
        /\ SessionsOf(a)' = {ses}
    BY <2>1, <2>5, WrittenSession
  <2>9. NamedTurn(a, m)
    BY <2>1, <2>5, <2>6, <2>7, <2>8 DEF NamedTurn
  <2>10. QED
    BY <2>1, <2>8, <2>9 DEF Turn
<1>3. CASE NotReady(a) \/ UnknownUser(a)
  <2>1. /\ Handling(a, "WAIT_PASSWORD") /\ sessions' = Refused(a)
        /\ reply'.to = a /\ reply'.kind \in {"Account not ready", "Not OK"}
    <3>1. CASE NotReady(a)
      BY <1>l, <3>1 DEF NotReady
    <3>2. CASE UnknownUser(a)
      BY <1>l, <3>2 DEF UnknownUser
    <3>3. QED
      BY <1>3, <3>1, <3>2
  <2>2. QED
    BY <2>1, RefusedTurns
<1>4. ASSUME NEW i \in 1..Len(accounts), CountFailure(a, m, i) \/ BlockAccount(a, m, i)
      PROVE  Turn(a, m)
  <2>1. /\ Handling(a, "WAIT_PASSWORD") /\ sessions' = Refused(a)
        /\ reply'.to = a /\ reply'.kind \in {"Not OK", "Account is blocked"}
    <3>1. CASE CountFailure(a, m, i)
      BY <1>l, <3>1 DEF CountFailure, WrongPassword, Checking
    <3>2. CASE BlockAccount(a, m, i)
      BY <1>l, <3>2 DEF BlockAccount, LastFailure, WrongPassword, Checking
    <3>3. QED
      BY <1>4, <3>1, <3>2
  <2>2. QED
    BY <2>1, RefusedTurns
<1>5. ASSUME NEW i \in 1..Len(accounts), LogIn(a, m, i)
      PROVE  Turn(a, m)
  <2> DEFINE ses == [SessionOf(a) EXCEPT !.state = "LOGGED_IN"]
  <2>1. /\ Handling(a, "WAIT_PASSWORD") /\ SessionOf(a).account # NULL
        /\ sessions' = With(a, ses)
        /\ reply'.to = a /\ reply'.kind = "OK"
    BY <1>5 DEF LogIn, Checking, LoopWith
  <2>2. /\ SessionsOf(a) = {SessionOf(a)} /\ SessionOf(a).state = "WAIT_PASSWORD"
        /\ SessionOf(a) \in Session /\ SessionOf(a).address = a
        /\ SessionOf(a).active /\ HasSlot(a)
    BY <2>1, HandledSession
  <2>3. /\ ses.address = a /\ ses.active /\ ses.state = "LOGGED_IN"
        /\ ses.username = SessionOf(a).username
    BY <2>2 DEF Session
  <2> HIDE DEF ses
  <2>4. /\ \A c \in Addr \ {a} : /\ FindSession(c)' = FindSession(c)
                              /\ SessionsOf(c)' = SessionsOf(c)
        /\ SessionsOf(a)' = {ses}
    BY <2>1, <2>2, <2>3, WrittenSession
  <2>5. LoginTurn(a)
    BY <2>1, <2>2, <2>3, <2>4 DEF LoginTurn
  <2>6. QED
    BY <2>1, <2>4, <2>5 DEF Turn
<1>6. CASE LogOut(a, m)
  <2> DEFINE ses == [SessionOf(a) EXCEPT !.active = FALSE]
  <2>1. /\ Handling(a, "LOGGED_IN") /\ m \in {Empty, Bye}
        /\ sessions' = With(a, ses) /\ reply'.to = a
    BY <1>6 DEF LogOut, LoopWith
  <2>2. /\ SessionsOf(a) = {SessionOf(a)} /\ SessionOf(a).state = "LOGGED_IN"
        /\ SessionOf(a) \in Session /\ SessionOf(a).address = a /\ HasSlot(a)
    BY <2>1, HandledSession
  <2>3. ses.address = a /\ ~ses.active
    BY <2>2 DEF Session
  <2> HIDE DEF ses
  <2>4. /\ \A c \in Addr \ {a} : /\ FindSession(c)' = FindSession(c)
                              /\ SessionsOf(c)' = SessionsOf(c)
        /\ FindSession(a)' = {}
    BY <2>1, <2>2, <2>3, WrittenSession
  <2>5. QED
    BY <2>1, <2>2, <2>4 DEF Turn, LogoutTurn
<1>7. CASE RejectText(a, m) \/ HashText(a, m)
  <2>1. /\ Handling(a, "LOGGED_IN") /\ m \notin {Empty, Bye}
        /\ UNCHANGED sessions /\ reply'.to = a
    <3>1. Empty \notin Alnum
      BY TextAssumption
    <3>2. QED
      BY <1>7, <1>l, <3>1 DEF RejectText, HashText, is_alphanumeric
  <2>2. SessionsOf(a) = {SessionOf(a)} /\ SessionOf(a).state = "LOGGED_IN"
    BY <2>1, HandledSession
  <2>3. QED
    BY <1>0, <2>1, <2>2 DEF Turn, TextTurn
<1>8. QED
  BY <1>1, <1>2, <1>3, <1>4, <1>5, <1>6, <1>7 DEF Receive

-------------------------------------------------------------------------------
(* The dialogue of one client.  At most one datagram of it is in flight,   *)
(* and where its process is, together with that datagram, tells in which   *)
(* state its session is.                                                   *)

Asked(c) == {q \in BagToSet(requests) : q.from = c}

Heard(c) == {ans \in BagToSet(answers) : ans.to = c}

OneInFlight(c) ==
  /\ \A q, r \in Asked(c) : q = r
  /\ \A q, r \in Heard(c) : q = r
  /\ Asked(c) = {} \/ Heard(c) = {}

Fresh(c) == \A x \in SessionsOf(c) : x.state = "WAIT_USERNAME"

UserNamed(c) ==
  \E x : /\ SessionsOf(c) = {x}
         /\ x.state = "WAIT_PASSWORD" /\ x.username = Stored[typed[c]]
         /\ x.account # NULL => x.username = typed[c]

LoggedIn(c) ==
  \E x : SessionsOf(c) = {x} /\ x.state = "LOGGED_IN" /\ x.username = typed[c]

Dialogue(c) ==
  /\ at[c] \in Prompts \cup {"done"} => Asked(c) = {} /\ Heard(c) = {}
  /\ at[c] = "username" => Fresh(c)
  /\ at[c] = "sent username" =>
       /\ \A q \in Asked(c) : q.text = typed[c] /\ Fresh(c)
       /\ \A ans \in Heard(c) :
            IF ans.kind = "Insert password" THEN UserNamed(c) ELSE Fresh(c)
  /\ at[c] = "password" => UserNamed(c)
  /\ at[c] = "sent password" =>
       /\ Asked(c) # {} => UserNamed(c)
       /\ \A ans \in Heard(c) :
            IF ans.kind = "OK" THEN LoggedIn(c) ELSE Fresh(c)
  /\ at[c] = "input" => LoggedIn(c)
  /\ at[c] = "sent text" =>
       /\ LoggedIn(c)
       /\ \A q \in Asked(c) : q.text \notin {Empty, Bye}
  /\ at[c] = "sent bye" =>
       /\ \A q \in Asked(c) : q.text \in {Empty, Bye} /\ LoggedIn(c)
       /\ Heard(c) # {} => FindSession(c) = {}
  /\ at[c] = "done" => FindSession(c) = {}

DialogueInv ==
  /\ SystemBase
  /\ Quiet => /\ Once(requests) /\ Once(answers)
              /\ \A c \in Addr : OneInFlight(c) /\ Dialogue(c)

(* A client that nothing happens to. *)
LEMMA DialogueSame ==
  ASSUME NEW c \in Addr, OneInFlight(c), Dialogue(c),
         Asked(c)' = Asked(c), Heard(c)' = Heard(c),
         FindSession(c)' = FindSession(c), SessionsOf(c)' = SessionsOf(c),
         at'[c] = at[c], typed'[c] = typed[c]
  PROVE  OneInFlight(c)' /\ Dialogue(c)'
BY DEF OneInFlight, Dialogue, Fresh, UserNamed, LoggedIn

(* One that loses what it has in flight. *)
LEMMA DialogueLess ==
  ASSUME NEW c \in Addr, OneInFlight(c), Dialogue(c),
         Asked(c)' \subseteq Asked(c), Heard(c)' \subseteq Heard(c),
         FindSession(c)' = FindSession(c), SessionsOf(c)' = SessionsOf(c),
         at'[c] = at[c], typed'[c] = typed[c]
  PROVE  OneInFlight(c)' /\ Dialogue(c)'
<1>1. OneInFlight(c)'
  BY DEF OneInFlight
<1>2. /\ Fresh(c)' <=> Fresh(c)
      /\ UserNamed(c)' <=> UserNamed(c)
      /\ LoggedIn(c)' <=> LoggedIn(c)
  BY DEF Fresh, UserNamed, LoggedIn
<1>3. Dialogue(c)'
  BY <1>2 DEF Dialogue
<1>4. QED
  BY <1>1, <1>3

(* The server answers a request of the client. *)
LEMMA DialogueServed ==
  ASSUME NEW c \in Addr, OneInFlight(c), Dialogue(c),
         NEW q \in Asked(c), Turn(c, q.text),
         Asked(c)' = {}, Heard(c)' = {reply'},
         at'[c] = at[c], typed'[c] = typed[c]
  PROVE  OneInFlight(c)' /\ Dialogue(c)'
<1>1. OneInFlight(c)'
  BY DEF OneInFlight
<1>2. Asked(c) # {}
  OBVIOUS
<1>3. at[c] \notin Prompts \cup {"done"}
  BY <1>2 DEF Dialogue
<1>4. ASSUME at[c] = "sent username" PROVE Dialogue(c)'
  <2>1. q.text = typed[c] /\ Fresh(c)
    BY <1>4 DEF Dialogue
  <2>2. CASE NamedTurn(c, q.text)
    <3>1. UserNamed(c)' /\ reply'.kind = "Insert password"
      BY <2>1, <2>2 DEF NamedTurn, UserNamed
    <3>2. QED
      BY <1>4, <3>1 DEF Dialogue, Prompts
  <2>3. CASE BusyTurn(c)
    <3>1. Fresh(c)' /\ reply'.kind # "Insert password"
      BY <2>3 DEF BusyTurn, Fresh, SessionsOf
    <3>2. QED
      BY <1>4, <3>1 DEF Dialogue, Prompts
  <2>4. QED
    BY <2>1, <2>2, <2>3
    DEF Turn, Fresh, RefusedTurn, LoginTurn, LogoutTurn, TextTurn
<1>5. ASSUME at[c] = "sent password" PROVE Dialogue(c)'
  <2>1. UserNamed(c)
    BY <1>2, <1>5 DEF Dialogue
  <2>2. CASE RefusedTurn(c)
    <3>1. Fresh(c)' /\ reply'.kind # "OK"
      BY <2>2 DEF RefusedTurn, Fresh
    <3>2. QED
      BY <1>5, <3>1 DEF Dialogue, Prompts
  <2>3. CASE LoginTurn(c)
    <3>1. LoggedIn(c)' /\ reply'.kind = "OK"
      BY <2>1, <2>3 DEF LoginTurn, UserNamed, LoggedIn
    <3>2. QED
      BY <1>5, <3>1 DEF Dialogue, Prompts
  <2>4. QED
    BY <2>1, <2>2, <2>3
    DEF Turn, UserNamed, BusyTurn, NamedTurn, LogoutTurn, TextTurn, SessionsOf
<1>6. ASSUME at[c] = "sent text" PROVE Dialogue(c)'
  <2>1. LoggedIn(c) /\ q.text \notin {Empty, Bye}
    BY <1>6 DEF Dialogue
  <2>2. TextTurn(c, q.text)
    BY <2>1 DEF Turn, LoggedIn, BusyTurn, NamedTurn, RefusedTurn, LoginTurn,
                LogoutTurn, SessionsOf
  <2>3. LoggedIn(c)'
    BY <2>1, <2>2 DEF TextTurn, LoggedIn
  <2>4. QED
    BY <1>6, <2>3 DEF Dialogue, Prompts
<1>7. ASSUME at[c] = "sent bye" PROVE Dialogue(c)'
  <2>1. LoggedIn(c) /\ q.text \in {Empty, Bye}
    BY <1>7 DEF Dialogue
  <2>2. LogoutTurn(c, q.text)
    BY <2>1 DEF Turn, LoggedIn, BusyTurn, NamedTurn, RefusedTurn, LoginTurn,
                TextTurn, SessionsOf
  <2>3. FindSession(c)' = {}
    BY <2>2 DEF LogoutTurn
  <2>4. QED
    BY <1>7, <2>3 DEF Dialogue, Prompts
<1>8. CASE at[c] \notin Waits
  <2>1. at'[c] \notin {"username", "password", "input", "done", "sent username",
                       "sent password", "sent text", "sent bye"}
    BY <1>3, <1>8 DEF Waits, Prompts
  <2>2. Dialogue(c)'
    BY <2>1 DEF Dialogue, Prompts
  <2>3. QED
    BY <1>1, <2>2
<1>9. QED
  BY <1>1, <1>4, <1>5, <1>6, <1>7, <1>8 DEF Waits

(* The client sends, which it does at a prompt, or takes what it was sent. *)
LEMMA DialogueOwn ==
  ASSUME DialogueInv, Quiet, NEW c \in Addr, ClientStep(c)
  PROVE  OneInFlight(c)' /\ Dialogue(c)'
<1>t. /\ at \in [Addr -> Prompts \cup Waits \cup Ends] /\ typed \in [Addr -> Text]
      /\ OneInFlight(c) /\ Dialogue(c) /\ Once(requests) /\ Once(answers)
  BY DEF DialogueInv, SystemBase, SystemType
<1>s. FindSession(c)' = FindSession(c) /\ SessionsOf(c)' = SessionsOf(c)
  BY DEF ClientStep, serverVars, FindSession, SessionsOf
<1>w. typed'[c] = typed[c] =>
        /\ UserNamed(c)' <=> UserNamed(c)
        /\ LoggedIn(c)' <=> LoggedIn(c)
  BY <1>s DEF UserNamed, LoggedIn
<1>f. Fresh(c)' <=> Fresh(c)
  BY <1>s DEF Fresh
<1>1. ASSUME NEW m \in Text, at[c] \in Prompts, Sends(c, m), UNCHANGED answers
      PROVE  /\ \A q \in Asked(c)' : q.text = m
             /\ Heard(c)' = {} /\ OneInFlight(c)'
  <2>1. Asked(c) = {} /\ Heard(c) = {}
    BY <1>t, <1>1 DEF Dialogue
  <2>2. BagToSet(requests') = BagToSet(requests) \cup {[from |-> c, text |-> m]}
    BY <1>1, BagAddElements DEF Sends
  <2>3. Asked(c)' = {[from |-> c, text |-> m]}
    BY <2>1, <2>2 DEF Asked
  <2>4. Heard(c)' = {}
    BY <1>1, <2>1 DEF Heard
  <2>5. QED
    BY <2>3, <2>4 DEF OneInFlight
<1>2. ASSUME NEW m \in Text, TypeUsername(c, m)
      PROVE  OneInFlight(c)' /\ Dialogue(c)'
  <2>1. /\ at[c] = "username" /\ at[c] \in Prompts /\ Sends(c, m)
        /\ UNCHANGED answers
        /\ at'[c] = "sent username" /\ typed'[c] = m
    BY <1>t, <1>2 DEF TypeUsername, Go, Prompts
  <2>2. Fresh(c)'
    BY <1>t, <1>f, <2>1 DEF Dialogue
  <2>3. QED
    BY <1>1, <2>1, <2>2 DEF Dialogue, Prompts
<1>3. ASSUME NEW m \in Text, TypePassword(c, m)
      PROVE  OneInFlight(c)' /\ Dialogue(c)'
  <2>1. /\ at[c] = "password" /\ at[c] \in Prompts /\ Sends(c, m)
        /\ UNCHANGED answers
        /\ at'[c] = "sent password" /\ typed'[c] = typed[c]
    BY <1>t, <1>3 DEF TypePassword, Go, Prompts
  <2>2. UserNamed(c)'
    BY <1>t, <1>w, <2>1 DEF Dialogue
  <2>3. QED
    BY <1>1, <2>1, <2>2 DEF Dialogue, Prompts
<1>4. ASSUME NEW m \in Text, TypeText(c, m)
      PROVE  OneInFlight(c)' /\ Dialogue(c)'
  <2>1. /\ at[c] = "input" /\ at[c] \in Prompts /\ Sends(c, m)
        /\ UNCHANGED answers /\ m \notin {Empty, Bye}
        /\ at'[c] = "sent text" /\ typed'[c] = typed[c]
    BY <1>t, <1>4 DEF TypeText, Go, Prompts
  <2>2. LoggedIn(c)'
    BY <1>t, <1>w, <2>1 DEF Dialogue
  <2>3. QED
    BY <1>1, <2>1, <2>2 DEF Dialogue, Prompts
<1>5. ASSUME NEW m \in Text, TypeBye(c, m)
      PROVE  OneInFlight(c)' /\ Dialogue(c)'
  <2>1. /\ at[c] = "input" /\ at[c] \in Prompts /\ Sends(c, m)
        /\ UNCHANGED answers /\ m \in {Empty, Bye}
        /\ at'[c] = "sent bye" /\ typed'[c] = typed[c]
    BY <1>t, <1>5 DEF TypeBye, Go, Prompts
  <2>2. LoggedIn(c)'
    BY <1>t, <1>w, <2>1 DEF Dialogue
  <2>3. QED
    BY <1>1, <2>1, <2>2 DEF Dialogue, Prompts
<1>6. CASE EofAtLogin(c) \/ KillClient(c)
  <2>1. /\ at'[c] = "exited" /\ UNCHANGED <<requests, answers>>
    BY <1>t, <1>6 DEF EofAtLogin, KillClient, Go
  <2>2. Asked(c)' = Asked(c) /\ Heard(c)' = Heard(c)
    BY <2>1 DEF Asked, Heard
  <2>3. QED
    BY <1>t, <2>1, <2>2 DEF OneInFlight, Dialogue, Prompts
<1>7. ASSUME NEW ans \in BagToSet(answers), Receives(c, ans), UNCHANGED requests
      PROVE  /\ ans \in Heard(c) /\ Asked(c)' = {} /\ Heard(c)' = {}
             /\ OneInFlight(c)'
  <2>1. BagToSet(answers') = BagToSet(answers) \ {ans}
    BY <1>t, <1>7, BagRemoveElements DEF Receives
  <2>2. ans \in Heard(c)
    BY <1>7 DEF Receives, Heard
  <2>3. Asked(c) = {} /\ \A r \in Heard(c) : r = ans
    BY <1>t, <2>2 DEF OneInFlight
  <2>4. Heard(c)' = {}
    BY <2>1, <2>3 DEF Heard
  <2>5. Asked(c)' = {}
    BY <1>7, <2>3 DEF Asked
  <2>6. QED
    BY <2>2, <2>4, <2>5 DEF OneInFlight
<1>8. ASSUME NEW ans \in BagToSet(answers), HearPrompt(c, ans)
      PROVE  OneInFlight(c)' /\ Dialogue(c)'
  <2>1. /\ at[c] = "sent username" /\ Receives(c, ans) /\ UNCHANGED requests
        /\ at'[c] = IF ans.kind = "Insert password" THEN "password" ELSE "username"
        /\ typed'[c] = typed[c]
    BY <1>t, <1>8 DEF HearPrompt, Go
  <2>2. /\ ans.kind = "Insert password" => UserNamed(c)'
        /\ ans.kind # "Insert password" => Fresh(c)'
    BY <1>t, <1>f, <1>w, <1>7, <2>1 DEF Dialogue
  <2>3. QED
    BY <1>7, <2>1, <2>2 DEF Dialogue, Prompts
<1>9. ASSUME NEW ans \in BagToSet(answers), HearVerdict(c, ans)
      PROVE  OneInFlight(c)' /\ Dialogue(c)'
  <2>1. /\ at[c] = "sent password" /\ Receives(c, ans) /\ UNCHANGED requests
        /\ at'[c] = IF ans.kind = "OK" THEN "input" ELSE "username"
        /\ typed'[c] = typed[c]
    BY <1>t, <1>9 DEF HearVerdict, Go
  <2>2. /\ ans.kind = "OK" => LoggedIn(c)'
        /\ ans.kind # "OK" => Fresh(c)'
    BY <1>t, <1>f, <1>w, <1>7, <2>1 DEF Dialogue
  <2>3. QED
    BY <1>7, <2>1, <2>2 DEF Dialogue, Prompts
<1>10. ASSUME NEW ans \in BagToSet(answers), HearText(c, ans)
       PROVE  OneInFlight(c)' /\ Dialogue(c)'
  <2>1. /\ at[c] = "sent text" /\ Receives(c, ans) /\ UNCHANGED requests
        /\ at'[c] = "input" /\ typed'[c] = typed[c]
    BY <1>t, <1>10 DEF HearText, Go
  <2>2. LoggedIn(c)'
    BY <1>t, <1>w, <2>1 DEF Dialogue
  <2>3. QED
    BY <1>7, <2>1, <2>2 DEF Dialogue, Prompts
<1>11. ASSUME NEW ans \in BagToSet(answers), HearGoodbye(c, ans)
       PROVE  OneInFlight(c)' /\ Dialogue(c)'
  <2>1. /\ at[c] = "sent bye" /\ Receives(c, ans) /\ UNCHANGED requests
        /\ at'[c] = "done" /\ typed'[c] = typed[c]
    BY <1>t, <1>11 DEF HearGoodbye, Go
  <2>2. FindSession(c)' = {}
    BY <1>t, <1>s, <1>7, <2>1 DEF Dialogue
  <2>3. QED
    BY <1>7, <2>1, <2>2 DEF Dialogue, Prompts
<1>12. QED
  BY <1>2, <1>3, <1>4, <1>5, <1>6, <1>8, <1>9, <1>10, <1>11, ClientShape

(* The bags stay sets, and a client leaves the datagrams of others alone.  *)
LEMMA ClientFlight ==
  ASSUME DialogueInv, Quiet, NEW c \in Addr, ClientStep(c)
  PROVE  /\ Once(requests)' /\ Once(answers)'
         /\ \A d \in Addr \ {c} : /\ Asked(d)' = Asked(d) /\ Heard(d)' = Heard(d)
                               /\ at'[d] = at[d] /\ typed'[d] = typed[d]
<1>t. /\ at \in [Addr -> Prompts \cup Waits \cup Ends] /\ typed \in [Addr -> Text]
      /\ Dialogue(c) /\ Once(requests) /\ Once(answers)
  BY DEF DialogueInv, SystemBase, SystemType
<1>1. \A d \in Addr \ {c} : at'[d] = at[d] /\ typed'[d] = typed[d]
  BY <1>t, ClientShape
  DEF TypeUsername, TypePassword, TypeText, TypeBye, EofAtLogin, KillClient,
      HearPrompt, HearVerdict, HearText, HearGoodbye, Go
<1>2. \/ /\ at[c] \in Prompts /\ UNCHANGED answers
         /\ \E m \in Text : Sends(c, m)
      \/ UNCHANGED <<requests, answers>>
      \/ UNCHANGED requests /\ \E ans \in BagToSet(answers) : Receives(c, ans)
  BY ClientShape
  DEF TypeUsername, TypePassword, TypeText, TypeBye, EofAtLogin, KillClient,
      HearPrompt, HearVerdict, HearText, HearGoodbye, Prompts
<1>3. CASE UNCHANGED <<requests, answers>>
  BY <1>t, <1>1, <1>3 DEF Asked, Heard, Once
<1>4. ASSUME NEW m \in Text, at[c] \in Prompts, Sends(c, m), UNCHANGED answers
      PROVE  /\ Once(requests)' /\ Once(answers)'
             /\ \A d \in Addr \ {c} : Asked(d)' = Asked(d) /\ Heard(d)' = Heard(d)
  <2> DEFINE q == [from |-> c, text |-> m]
  <2>0. Asked(c) = {} /\ q.from = c
    BY <1>t, <1>4 DEF Dialogue
  <2>1. q \notin BagToSet(requests)
    BY <2>0 DEF Asked
  <2>2. BagToSet(requests') = BagToSet(requests) \cup {q} /\ Once(requests')
    BY <1>t, <1>4, <2>1, BagAddElements DEF Sends
  <2>3. Once(requests)' /\ Once(answers)'
    BY <1>t, <1>4, <2>2 DEF Once
  <2>4. q.from = c
    OBVIOUS
  <2> HIDE DEF q
  <2>5. QED
    BY <1>4, <2>2, <2>3, <2>4 DEF Asked, Heard
<1>5. ASSUME NEW ans \in BagToSet(answers), UNCHANGED requests, Receives(c, ans)
      PROVE  /\ Once(requests)' /\ Once(answers)'
             /\ \A d \in Addr \ {c} : Asked(d)' = Asked(d) /\ Heard(d)' = Heard(d)
  <2>1. BagToSet(answers') = BagToSet(answers) \ {ans} /\ Once(answers')
    BY <1>t, <1>5, BagRemoveElements DEF Receives
  <2>2. ans.to = c
    BY <1>5 DEF Receives
  <2>3. Once(requests)' /\ Once(answers)'
    BY <1>t, <1>5, <2>1 DEF Once
  <2>4. QED
    BY <1>5, <2>1, <2>2, <2>3 DEF Asked, Heard
<1>6. QED
  BY <1>1, <1>2, <1>3, <1>4, <1>5

(* The server takes the only datagram of c and answers it; a datagram is   *)
(* lost.                                                                   *)
LEMMA ServerFlight ==
  ASSUME DialogueInv, Quiet, NEW c \in Addr, ServerStep(c)
  PROVE  \E q \in Asked(c) :
           /\ q.text \in Text /\ Receive(c, q.text) /\ Turn(c, q.text)
           /\ Asked(c)' = {} /\ Heard(c)' = {reply'}
           /\ Once(requests)' /\ Once(answers)'
           /\ \A d \in Addr \ {c} : Asked(d)' = Asked(d) /\ Heard(d)' = Heard(d)
<1>t. /\ OneInFlight(c) /\ Once(requests) /\ Once(answers)
      /\ BagToSet(requests) \subseteq Request
      /\ SessionInv /\ server_running
  BY DEF DialogueInv, SystemBase, SystemType, Steady, Quiet
<1>1. PICK q \in BagToSet(requests) :
        /\ q.from = c /\ Receive(c, q.text)
        /\ requests' = BagRemove(requests, q)
        /\ answers' = BagAdd(answers, reply')
  BY DEF ServerStep
<1>2. q \in Asked(c) /\ q.text \in Text
  BY <1>t, <1>1 DEF Asked, Request
<1>3. Turn(c, q.text)
  BY <1>t, <1>1, <1>2, ReceiveTurn
<1>4. reply'.to = c
  BY <1>3 DEF Turn
<1>5. (\A r \in Asked(c) : r = q) /\ Heard(c) = {}
  BY <1>t, <1>2 DEF OneInFlight
<1>6. BagToSet(requests') = BagToSet(requests) \ {q} /\ Once(requests')
  BY <1>t, <1>1, BagRemoveElements
<1>7. reply' \notin BagToSet(answers)
  BY <1>4, <1>5 DEF Heard
<1>8. BagToSet(answers') = BagToSet(answers) \cup {reply'} /\ Once(answers')
  BY <1>t, <1>1, <1>7, BagAddElements
<1>9. Once(requests)' /\ Once(answers)'
  BY <1>6, <1>8 DEF Once
<1>10. Asked(c)' = {} /\ \A d \in Addr \ {c} : Asked(d)' = Asked(d)
  BY <1>1, <1>5, <1>6 DEF Asked
<1>11. Heard(c)' = {reply'} /\ \A d \in Addr \ {c} : Heard(d)' = Heard(d)
  BY <1>4, <1>5, <1>8 DEF Heard
<1>12. QED
  BY <1>1, <1>2, <1>3, <1>9, <1>10, <1>11

LEMMA LossFlight ==
  ASSUME DialogueInv, Quiet, LoseRequest \/ LoseAnswer
  PROVE  /\ Once(requests)' /\ Once(answers)'
         /\ \A d \in Addr : Asked(d)' \subseteq Asked(d) /\ Heard(d)' \subseteq Heard(d)
<1>t. Once(requests) /\ Once(answers)
  BY DEF DialogueInv
<1>1. CASE LoseRequest
  <2>1. UNCHANGED answers
    BY <1>1 DEF LoseRequest
  <2>2. BagToSet(requests') \subseteq BagToSet(requests) /\ Once(requests')
    BY <1>t, <1>1, BagRemoveElements DEF LoseRequest
  <2>3. Once(requests)' /\ Once(answers)'
    BY <1>t, <2>1, <2>2 DEF Once
  <2>4. QED
    BY <2>1, <2>2, <2>3 DEF Asked, Heard
<1>2. CASE LoseAnswer
  <2>1. UNCHANGED requests
    BY <1>2 DEF LoseAnswer
  <2>2. BagToSet(answers') \subseteq BagToSet(answers) /\ Once(answers')
    BY <1>t, <1>2, BagRemoveElements DEF LoseAnswer
  <2>3. Once(requests)' /\ Once(answers)'
    BY <1>t, <2>1, <2>2 DEF Once
  <2>4. QED
    BY <2>1, <2>2, <2>3 DEF Asked, Heard
<1>3. QED
  BY <1>1, <1>2

(* What is left of a step that is neither a duplication nor a stop. *)
LEMMA UndisturbedStep ==
  ASSUME SystemBase, [SystemNext]_systemVars, Quiet'
  PROVE  /\ Quiet
         /\ \/ \E c \in Addr : ClientStep(c) \/ ServerStep(c)
            \/ LoseRequest \/ LoseAnswer
            \/ UNCHANGED systemVars
<1>t. dups \in Nat /\ stops \in Nat
  BY DEF SystemBase, SystemType
<1>1. ASSUME StopServer PROVE FALSE
  BY <1>t, <1>1 DEF StopServer, Quiet
<1>2. ASSUME Duplicate PROVE FALSE
  BY <1>t, <1>2 DEF Duplicate, Quiet
<1>3. ASSUME StartServer PROVE FALSE
  BY <1>3 DEF StartServer, Start, Quiet, SystemBase, Steady
<1>4. \/ \E c \in Addr : ClientStep(c) \/ ServerStep(c)
      \/ LoseRequest \/ LoseAnswer
      \/ UNCHANGED systemVars
  BY <1>1, <1>2, <1>3 DEF SystemNext
<1>5. UNCHANGED <<dups, stops>>
  BY <1>4 DEF ClientStep, ServerStep, LoseRequest, LoseAnswer, systemVars
<1>6. QED
  BY <1>4, <1>5 DEF Quiet

LEMMA DialogueStep == ASSUME DialogueInv, [SystemNext]_systemVars PROVE DialogueInv'
<1>b. SystemBase'
  BY BaseStep DEF DialogueInv
<1> DEFINE Good == /\ Once(requests)' /\ Once(answers)'
                   /\ \A d \in Addr : OneInFlight(d)' /\ Dialogue(d)'
<1>s. SUFFICES ASSUME Quiet' PROVE Good
  BY <1>b DEF DialogueInv
<1>q. /\ Quiet
      /\ \/ \E c \in Addr : ClientStep(c) \/ ServerStep(c)
         \/ LoseRequest \/ LoseAnswer
         \/ UNCHANGED systemVars
  BY <1>s, UndisturbedStep DEF DialogueInv
<1>t. /\ Once(requests) /\ Once(answers)
      /\ \A d \in Addr : OneInFlight(d) /\ Dialogue(d)
  BY <1>q DEF DialogueInv
<1>u. ASSUME UNCHANGED sessions
      PROVE  \A d \in Addr : /\ FindSession(d)' = FindSession(d)
                           /\ SessionsOf(d)' = SessionsOf(d)
  BY <1>u DEF FindSession, SessionsOf
<1>1. ASSUME NEW c \in Addr, ClientStep(c) PROVE Good
  <2>1. UNCHANGED sessions
    BY <1>1 DEF ClientStep, serverVars
  <2>2. /\ Once(requests)' /\ Once(answers)'
        /\ \A d \in Addr \ {c} : /\ Asked(d)' = Asked(d) /\ Heard(d)' = Heard(d)
                              /\ at'[d] = at[d] /\ typed'[d] = typed[d]
    BY <1>q, <1>1, ClientFlight
  <2>3. OneInFlight(c)' /\ Dialogue(c)'
    BY <1>q, <1>1, DialogueOwn
  <2>4. \A d \in Addr \ {c} : OneInFlight(d)' /\ Dialogue(d)'
    BY <1>t, <1>u, <2>1, <2>2, DialogueSame
  <2>5. QED
    BY <2>2, <2>3, <2>4
<1>2. ASSUME NEW c \in Addr, ServerStep(c) PROVE Good
  <2>1. PICK q \in Asked(c) :
          /\ q.text \in Text /\ Receive(c, q.text) /\ Turn(c, q.text)
          /\ Asked(c)' = {} /\ Heard(c)' = {reply'}
          /\ Once(requests)' /\ Once(answers)'
          /\ \A d \in Addr \ {c} : Asked(d)' = Asked(d) /\ Heard(d)' = Heard(d)
    BY <1>q, <1>2, ServerFlight
  <2>2. UNCHANGED <<at, typed>>
    BY <1>2 DEF ServerStep
  <2>3. OneInFlight(c)' /\ Dialogue(c)'
    BY <1>t, <2>1, <2>2, DialogueServed
  <2>4. \A d \in Addr \ {c} :
          FindSession(d)' = FindSession(d) /\ SessionsOf(d)' = SessionsOf(d)
    BY <2>1 DEF Turn
  <2>5. \A d \in Addr \ {c} : OneInFlight(d)' /\ Dialogue(d)'
    BY <1>t, <2>1, <2>2, <2>4, DialogueSame
  <2>6. QED
    BY <2>1, <2>3, <2>5
<1>3. ASSUME LoseRequest \/ LoseAnswer PROVE Good
  <2>1. UNCHANGED <<at, typed, sessions>>
    BY <1>3 DEF LoseRequest, LoseAnswer, serverVars
  <2>2. /\ Once(requests)' /\ Once(answers)'
        /\ \A d \in Addr : Asked(d)' \subseteq Asked(d) /\ Heard(d)' \subseteq Heard(d)
    BY <1>q, <1>3, LossFlight
  <2>3. \A d \in Addr : OneInFlight(d)' /\ Dialogue(d)'
    BY <1>t, <1>u, <2>1, <2>2, DialogueLess
  <2>4. QED
    BY <2>2, <2>3
<1>4. ASSUME UNCHANGED systemVars PROVE Good
  <2>1. UNCHANGED <<at, typed, sessions, requests, answers>>
    BY <1>4 DEF systemVars, serverVars, clientVars
  <2>2. \A d \in Addr : Asked(d)' = Asked(d) /\ Heard(d)' = Heard(d)
    BY <2>1 DEF Asked, Heard
  <2>3. Once(requests)' /\ Once(answers)'
    BY <1>t, <2>1 DEF Once
  <2>4. \A d \in Addr : OneInFlight(d)' /\ Dialogue(d)'
    BY <1>t, <1>u, <2>1, <2>2, DialogueSame
  <2>5. QED
    BY <2>3, <2>4
<1> HIDE DEF Good
<1>5. QED
  BY <1>q, <1>1, <1>2, <1>3, <1>4

LEMMA DialogueInit == SystemInit => DialogueInv
<1> SUFFICES ASSUME SystemInit PROVE DialogueInv
  OBVIOUS
<1>1. SystemBase
  BY BaseInit
<1>2. /\ \A c \in Addr : Asked(c) = {} /\ Heard(c) = {} /\ at[c] = "username"
      /\ Once(requests) /\ Once(answers)
  BY EmptyBagElements DEF SystemInit, ClientInit, Asked, Heard
<1>3. \A c \in Addr : SessionsOf(c) = {}
  BY DEF SystemInit, ServerInit, ZeroSessions, ZeroSession, SessionsOf, FindSession
<1>4. \A c \in Addr : OneInFlight(c) /\ Dialogue(c)
  BY <1>2, <1>3 DEF OneInFlight, Dialogue, Fresh
<1>5. QED
  BY <1>1, <1>2, <1>4 DEF DialogueInv

(* The dialogue invariant holds in every reachable state. *)
THEOREM DialogueHolds == SystemSpec => []DialogueInv
BY DialogueInit, DialogueStep, PTL DEF SystemSpec

(* Without duplication and stops, whatever is lost and whoever is killed,  *)
(* client and server agree on the dialogue at every prompt.                *)
THEOREM InStepHolds == SystemSpec => []InStep
<1>1. DialogueInv => InStep
  <2> SUFFICES ASSUME DialogueInv, dups = 0, stops = 0, NEW c \in Addr
               PROVE  /\ at[c] \in Prompts => NothingInFlight(c)
                      /\ at[c] = "username" =>
                           \A x \in SessionsOf(c) : x.state = "WAIT_USERNAME"
                      /\ at[c] = "password" =>
                           \E x \in SessionsOf(c) :
                             x.state = "WAIT_PASSWORD" /\ x.username = Stored[typed[c]]
                      /\ at[c] = "input" =>
                           \E x \in SessionsOf(c) :
                             x.state = "LOGGED_IN" /\ x.username = typed[c]
    BY DEF InStep
  <2>1. Dialogue(c)
    BY DEF DialogueInv, Quiet
  <2>2. at[c] \in Prompts => NothingInFlight(c)
    BY <2>1 DEF Dialogue, Asked, Heard, NothingInFlight
  <2>3. QED
    BY <2>1, <2>2 DEF Dialogue, Fresh, UserNamed, LoggedIn
<1>2. QED
  BY <1>1, DialogueHolds, PTL

(* A client that left through the Goodbye holds no slot, unless a datagram *)
(* was delivered twice or the server was stopped.                          *)
THEOREM CleanExitHolds == SystemSpec => []CleanExit
<1>1. DialogueInv => CleanExit
  <2> SUFFICES ASSUME DialogueInv, stops = 0, NEW c \in Addr, at[c] = "done"
               PROVE  Cardinality(FindSession(c)) <= dups
    BY DEF CleanExit
  <2>1. dups \in Nat /\ SessionInv
    BY DEF DialogueInv, SystemBase, SystemType
  <2>2. CASE FindSession(c) = {}
    <3>1. Cardinality({}) = 0
      BY FS_EmptySet
    <3>2. QED
      BY <2>1, <2>2, <3>1
  <2>3. CASE FindSession(c) # {}
    <3>1. dups # 0
      BY <2>3 DEF DialogueInv, Dialogue, Quiet
    <3>2. FindSession(c) = {SlotOf(c)}
      BY <2>1, <2>3, OwnSession
    <3>3. Cardinality({SlotOf(c)}) = 1
      BY FS_Singleton
    <3>4. QED
      BY <2>1, <3>1, <3>2, <3>3
  <2>4. QED
    BY <2>2, <2>3
<1>2. QED
  BY <1>1, DialogueHolds, PTL

-------------------------------------------------------------------------------
(* Failures and passwords.  A password in flight towards a session that    *)
(* waits for one may still fail: such passwords and the failures counted   *)
(* so far are together no more than the passwords sent.                    *)

Awaited ==
  {c \in Addr : Asked(c) # {} /\ \E x \in SessionsOf(c) : x.state = "WAIT_PASSWORD"}

Counted ==
  /\ IsFiniteSet(PasswordsSent) /\ IsFiniteSet(Awaited)
  /\ \A i \in 1..Len(accounts) :
       accounts[i].failed_attempts + Cardinality(Awaited) <= Cardinality(PasswordsSent)

TriesInv == DialogueInv /\ (Quiet => Counted)

(* How a datagram of a changes the failures: one account may gain one, and *)
(* only if a session waited for the password.                              *)
Failed(a) ==
  \A i \in 1..Len(accounts') :
    /\ i \in 1..Len(accounts)
    /\ \/ accounts'[i].failed_attempts <= accounts[i].failed_attempts
       \/ /\ accounts'[i].failed_attempts = accounts[i].failed_attempts + 1
          /\ \E x \in SessionsOf(a) : x.state = "WAIT_PASSWORD"

LEMMA FailureTypes ==
  ASSUME SessionInv
  PROVE  \A i \in 1..Len(accounts) :
           /\ accounts[i] \in Account
           /\ accounts[i].failed_attempts \in Int /\ accounts[i].failed_attempts >= 0
<1>1. accounts \in Seq(Account)
  BY DEF SessionInv, TypeInv, TypeOK
<1>2. \A i \in 1..Len(accounts) : accounts[i] \in Account
  BY <1>1
<1>3. QED
  BY <1>2 DEF Account, MaxFailed

LEMMA ReceiveFailures ==
  ASSUME SessionInv, server_running, NEW a \in Addr, NEW m \in Text, Receive(a, m)
  PROVE  Failed(a)
<1>t. /\ accounts \in Seq(Account)
      /\ \A i \in 1..Len(accounts) :
           /\ accounts[i] \in Account
           /\ accounts[i].failed_attempts \in Int /\ accounts[i].failed_attempts >= 0
  BY FailureTypes DEF SessionInv, TypeInv, TypeOK
<1>l. \A t, tbl : LoopWith(t, tbl) => accounts' = t
  BY DEF LoopWith
<1>0. ASSUME UNCHANGED accounts PROVE Failed(a)
  BY <1>t, <1>0 DEF Failed
<1>1. CASE ServerBusy(a)
  BY <1>0, <1>1, <1>l DEF ServerBusy
<1>2. CASE TakeUsername(a, m)
  BY <1>0, <1>2, <1>l DEF TakeUsername
<1>3. CASE NotReady(a)
  BY <1>0, <1>3, <1>l DEF NotReady
<1>4. CASE UnknownUser(a)
  BY <1>0, <1>4, <1>l DEF UnknownUser
<1>5. CASE LogOut(a, m)
  BY <1>0, <1>5, <1>l DEF LogOut
<1>6. CASE RejectText(a, m)
  BY <1>0, <1>6, <1>l DEF RejectText
<1>7. CASE HashText(a, m)
  BY <1>0, <1>7, <1>l DEF HashText
<1>8. ASSUME NEW i \in 1..Len(accounts), LogIn(a, m, i) PROVE Failed(a)
  <2>1. accounts' = [accounts EXCEPT ![i].failed_attempts = 0]
    BY <1>8, <1>l DEF LogIn
  <2>2. Len(accounts') = Len(accounts) /\ accounts'[i].failed_attempts = 0
    BY <1>t, <2>1 DEF Account
  <2>3. \A j \in 1..Len(accounts) \ {i} : accounts'[j] = accounts[j]
    BY <1>t, <2>1
  <2>4. QED
    BY <1>t, <2>2, <2>3 DEF Failed
<1>9. ASSUME NEW i \in 1..Len(accounts), CountFailure(a, m, i) \/ BlockAccount(a, m, i)
      PROVE  Failed(a)
  <2>1. Handling(a, "WAIT_PASSWORD")
    BY <1>9 DEF CountFailure, BlockAccount, LastFailure, WrongPassword, Checking
  <2>2. \E x \in SessionsOf(a) : x.state = "WAIT_PASSWORD"
    BY <2>1, HandledSession
  <2>3. /\ Len(accounts') = Len(accounts)
        /\ accounts'[i].failed_attempts = accounts[i].failed_attempts + 1
        /\ \A j \in 1..Len(accounts) \ {i} : accounts'[j] = accounts[j]
    <3>1. CASE CountFailure(a, m, i)
      <4>1. accounts' = [accounts EXCEPT ![i].failed_attempts = @ + 1]
        BY <1>l, <3>1 DEF CountFailure
      <4>2. QED
        BY <1>t, <4>1 DEF Account
    <3>2. CASE BlockAccount(a, m, i)
      <4>1. accounts' = Blocked(i)
        BY <1>l, <3>2 DEF BlockAccount
      <4> DEFINE x == [accounts[i] EXCEPT !.failed_attempts = accounts[i].failed_attempts + 1]
                 y == [x EXCEPT !.status = 0]
      <4>2. accounts' = [accounts EXCEPT ![i] = y]
        BY <1>t, <4>1 DEF Blocked
      <4>3. y.failed_attempts = accounts[i].failed_attempts + 1
        BY <1>t DEF Account
      <4> HIDE DEF y
      <4>4. QED
        BY <1>t, <4>2, <4>3
    <3>3. QED
      BY <1>9, <3>1, <3>2
  <2>4. QED
    BY <1>t, <2>2, <2>3 DEF Failed
<1>10. QED
  BY <1>1, <1>2, <1>3, <1>4, <1>5, <1>6, <1>7, <1>8, <1>9 DEF Receive
LEMMA SentElements ==
  \A p : p \in PasswordsSent <=> \E d \in Addr : \E k \in 1..tries[d] : p = <<d, k>>
BY DEF PasswordsSent

(* A step that counts no failure and makes nobody wait. *)
LEMMA CountedSame ==
  ASSUME SessionInv, Counted,
         UNCHANGED accounts, PasswordsSent' = PasswordsSent, Awaited' \subseteq Awaited
  PROVE  Counted'
<1>1. /\ IsFiniteSet(Awaited') /\ Cardinality(Awaited') <= Cardinality(Awaited)
      /\ Cardinality(Awaited') \in Nat /\ Cardinality(Awaited) \in Nat
      /\ Cardinality(PasswordsSent) \in Nat
  BY FS_Subset, FS_CardinalityType DEF Counted
<1>2. \A i \in 1..Len(accounts) :
        accounts[i].failed_attempts + Cardinality(Awaited') <= Cardinality(PasswordsSent)
  BY <1>1, FailureTypes DEF Counted
<1>3. QED
  BY <1>1, <1>2 DEF Counted

(* A password is sent. *)
LEMMA CountedSent ==
  ASSUME SessionInv, Counted, NEW c, NEW e, e \notin PasswordsSent,
         UNCHANGED accounts, PasswordsSent' = PasswordsSent \cup {e},
         Awaited' \subseteq Awaited \cup {c}
  PROVE  Counted'
<1>1. /\ IsFiniteSet(Awaited') /\ Cardinality(Awaited') <= Cardinality(Awaited) + 1
      /\ IsFiniteSet(PasswordsSent')
      /\ Cardinality(PasswordsSent') = Cardinality(PasswordsSent) + 1
  BY OneMore, FS_AddElement DEF Counted
<1>2. /\ Cardinality(Awaited') \in Nat /\ Cardinality(Awaited) \in Nat
      /\ Cardinality(PasswordsSent) \in Nat
  BY <1>1, FS_CardinalityType DEF Counted
<1>3. \A i \in 1..Len(accounts) :
        accounts[i].failed_attempts + Cardinality(Awaited') <= Cardinality(PasswordsSent')
  BY <1>1, <1>2, FailureTypes DEF Counted
<1>4. QED
  BY <1>1, <1>3 DEF Counted

(* The server answers c: the password of c, if there was one, stops being  *)
(* in flight at the moment its failure is counted.                         *)
LEMMA CountedServed ==
  ASSUME SessionInv, SessionInv', Counted, NEW c \in Addr, Asked(c) # {}, Failed(c),
         PasswordsSent' = PasswordsSent, Awaited' \subseteq Awaited \ {c}
  PROVE  Counted'
<1>1. /\ IsFiniteSet(Awaited') /\ Cardinality(Awaited') <= Cardinality(Awaited)
      /\ Cardinality(Awaited') \in Nat /\ Cardinality(Awaited) \in Nat
      /\ Cardinality(PasswordsSent) \in Nat
  BY FS_Subset, FS_CardinalityType DEF Counted
<1>2. ASSUME c \in Awaited
      PROVE  Cardinality(Awaited') + 1 <= Cardinality(Awaited)
  <2>1. /\ IsFiniteSet(Awaited \ {c})
        /\ Cardinality(Awaited \ {c}) = Cardinality(Awaited) - 1
    BY <1>2, FS_RemoveElement DEF Counted
  <2>2. Cardinality(Awaited') <= Cardinality(Awaited \ {c})
    BY <2>1, FS_Subset
  <2>3. QED
    BY <1>1, <2>1, <2>2
<1>3. ASSUME NEW i \in 1..Len(accounts')
      PROVE  accounts'[i].failed_attempts + Cardinality(Awaited') <= Cardinality(PasswordsSent)
  <2>1. /\ i \in 1..Len(accounts)
        /\ accounts[i].failed_attempts \in Int /\ accounts'[i].failed_attempts \in Int
        /\ accounts[i].failed_attempts + Cardinality(Awaited) <= Cardinality(PasswordsSent)
    <3>1. i \in 1..Len(accounts)
      BY DEF Failed
    <3>2. accounts'[i].failed_attempts \in Int
      <4>1. accounts' \in Seq(Account)
        BY DEF SessionInv, TypeInv, TypeOK
      <4>2. accounts'[i] \in Account
        BY <4>1
      <4>3. QED
        BY <4>2 DEF Account, MaxFailed
    <3>3. QED
      BY <3>1, <3>2, FailureTypes DEF Counted
  <2>2. CASE accounts'[i].failed_attempts <= accounts[i].failed_attempts
    BY <1>1, <2>1, <2>2
  <2>3. CASE /\ accounts'[i].failed_attempts = accounts[i].failed_attempts + 1
             /\ \E x \in SessionsOf(c) : x.state = "WAIT_PASSWORD"
    <3>1. c \in Awaited
      BY <2>3 DEF Awaited
    <3>2. Cardinality(Awaited') + 1 <= Cardinality(Awaited)
      BY <1>2, <3>1
    <3>3. QED
      BY <1>1, <2>1, <2>3, <3>2
  <2>4. QED
    BY <2>2, <2>3 DEF Failed
<1>4. QED
  BY <1>1, <1>3 DEF Counted

(* Of the things a client does, only sending a password touches the count. *)
LEMMA CountedClient ==
  ASSUME DialogueInv, Quiet, Counted, NEW c \in Addr, ClientStep(c)
  PROVE  Counted'
<1>t. /\ SessionInv /\ OneInFlight(c) /\ Dialogue(c)
      /\ tries \in [Addr -> Nat] /\ at \in [Addr -> Prompts \cup Waits \cup Ends]
  BY DEF DialogueInv, SystemBase, SystemType
<1>s. /\ UNCHANGED accounts
      /\ \A d \in Addr : SessionsOf(d)' = SessionsOf(d)
      /\ \A d \in Addr \ {c} : Asked(d)' = Asked(d)
  BY ClientFlight DEF ClientStep, serverVars, FindSession, SessionsOf
<1>o. Awaited' \subseteq Awaited \cup {c}
  BY <1>s DEF Awaited
<1>u. ASSUME UNCHANGED tries PROVE PasswordsSent' = PasswordsSent
  BY <1>u DEF PasswordsSent
<1>1. ASSUME UNCHANGED tries,
             (\A x \in SessionsOf(c) : x.state # "WAIT_PASSWORD") \/ Asked(c)' \subseteq Asked(c)
      PROVE  Counted'
  <2>1. Awaited' \subseteq Awaited
    BY <1>s, <1>1 DEF Awaited
  <2>2. QED
    BY <1>t, <1>s, <1>u, <1>1, <2>1, CountedSame
<1>2. ASSUME NEW m \in Text, TypePassword(c, m) PROVE Counted'
  <2> DEFINE e == <<c, tries[c] + 1>>
  <2>1. /\ tries' = [tries EXCEPT ![c] = tries[c] + 1] /\ tries[c] \in Nat
    BY <1>t, <1>2 DEF TypePassword
  <2>2. tries'[c] = tries[c] + 1 /\ \A d \in Addr \ {c} : tries'[d] = tries[d]
    BY <1>t, <2>1
  <2>3. \A k : k \in 1..tries'[c] <=> k \in 1..tries[c] \/ k = tries[c] + 1
    BY <2>1, <2>2
  <2>4. \A p : p \in PasswordsSent' <=>
                 \E d \in Addr : \E k \in 1..tries'[d] : p = <<d, k>>
    BY DEF PasswordsSent
  <2>5. e \notin PasswordsSent
    BY <2>1, SentElements
  <2>6. PasswordsSent' = PasswordsSent \cup {e}
    BY <2>2, <2>3, <2>4, SentElements
  <2> HIDE DEF e
  <2>7. QED
    BY <1>t, <1>s, <1>o, <2>5, <2>6, CountedSent
<1>3. ASSUME NEW m \in Text, TypeUsername(c, m) PROVE Counted'
  <2>1. UNCHANGED tries /\ at[c] = "username"
    BY <1>3 DEF TypeUsername
  <2>2. \A x \in SessionsOf(c) : x.state # "WAIT_PASSWORD"
    BY <1>t, <2>1 DEF Dialogue, Fresh
  <2>3. QED
    BY <1>1, <2>1, <2>2
<1>4. ASSUME NEW m \in Text, TypeText(c, m) \/ TypeBye(c, m) PROVE Counted'
  <2>1. UNCHANGED tries /\ at[c] = "input"
    BY <1>4 DEF TypeText, TypeBye
  <2>2. \A x \in SessionsOf(c) : x.state # "WAIT_PASSWORD"
    BY <1>t, <2>1 DEF Dialogue, LoggedIn
  <2>3. QED
    BY <1>1, <2>1, <2>2
<1>5. CASE EofAtLogin(c) \/ KillClient(c)
  <2>1. UNCHANGED <<tries, requests>>
    BY <1>5 DEF EofAtLogin, KillClient
  <2>2. QED
    BY <1>1, <2>1 DEF Asked
<1>6. ASSUME NEW ans \in BagToSet(answers),
             \/ HearPrompt(c, ans) \/ HearVerdict(c, ans)
             \/ HearText(c, ans) \/ HearGoodbye(c, ans)
      PROVE  Counted'
  <2>1. UNCHANGED <<tries, requests>>
    BY <1>6 DEF HearPrompt, HearVerdict, HearText, HearGoodbye
  <2>2. QED
    BY <1>1, <2>1 DEF Asked
<1>7. QED
  BY <1>2, <1>3, <1>4, <1>5, <1>6, ClientShape

LEMMA CountedStep == ASSUME TriesInv, [SystemNext]_systemVars PROVE TriesInv'
<1>b. DialogueInv'
  BY DialogueStep DEF TriesInv
<1>i. SystemBase /\ SessionInv /\ SessionInv'
  BY <1>b DEF TriesInv, DialogueInv, SystemBase
<1>s. SUFFICES ASSUME Quiet' PROVE Counted'
  BY <1>b DEF TriesInv
<1>q. /\ Quiet
      /\ \/ \E c \in Addr : ClientStep(c) \/ ServerStep(c)
         \/ LoseRequest \/ LoseAnswer
         \/ UNCHANGED systemVars
  BY <1>s, <1>i, UndisturbedStep
<1>t. DialogueInv /\ Counted /\ server_running
  BY <1>q DEF TriesInv, DialogueInv, SystemBase, Steady, Quiet
<1>1. ASSUME NEW c \in Addr, ServerStep(c) PROVE Counted'
  <2>1. PICK q \in Asked(c) :
          /\ q.text \in Text /\ Receive(c, q.text) /\ Turn(c, q.text)
          /\ Asked(c)' = {}
          /\ \A d \in Addr \ {c} : Asked(d)' = Asked(d)
    BY <1>q, <1>t, <1>1, ServerFlight
  <2>2. Failed(c)
    BY <1>i, <1>t, <2>1, ReceiveFailures
  <2>3. PasswordsSent' = PasswordsSent
    BY <1>1 DEF ServerStep, PasswordsSent
  <2>4. \A d \in Addr \ {c} : SessionsOf(d)' = SessionsOf(d)
    BY <2>1 DEF Turn
  <2>5. Awaited' \subseteq Awaited \ {c}
    BY <2>1, <2>4 DEF Awaited
  <2>6. QED
    BY <1>i, <1>t, <2>1, <2>2, <2>3, <2>5, CountedServed
<1>2. CASE LoseRequest \/ LoseAnswer
  <2>1. UNCHANGED <<accounts, sessions, tries>>
    BY <1>2 DEF LoseRequest, LoseAnswer, serverVars
  <2>2. \A d \in Addr : Asked(d)' \subseteq Asked(d)
    BY <1>q, <1>t, <1>2, LossFlight
  <2>3. Awaited' \subseteq Awaited /\ PasswordsSent' = PasswordsSent
    BY <2>1, <2>2 DEF Awaited, SessionsOf, FindSession, PasswordsSent
  <2>4. QED
    BY <1>i, <1>t, <2>1, <2>3, CountedSame
<1>3. CASE UNCHANGED systemVars
  <2>1. UNCHANGED <<accounts, sessions, tries, requests>>
    BY <1>3 DEF systemVars, serverVars, clientVars
  <2>2. Awaited' \subseteq Awaited /\ PasswordsSent' = PasswordsSent
    BY <2>1 DEF Awaited, Asked, SessionsOf, FindSession, PasswordsSent
  <2>3. QED
    BY <1>i, <1>t, <2>1, <2>2, CountedSame
<1>4. QED
  BY <1>q, <1>t, <1>1, <1>2, <1>3, CountedClient

LEMMA CountedInit == SystemInit => TriesInv
<1> SUFFICES ASSUME SystemInit PROVE TriesInv
  OBVIOUS
<1>1. DialogueInv
  BY DialogueInit
<1>2. PasswordsSent = {}
  BY DEF SystemInit, ClientInit, PasswordsSent
<1>3. Awaited = {}
  <2>1. \A c \in Addr : Asked(c) = {}
    BY EmptyBagElements DEF SystemInit, ClientInit, Asked
  <2>2. QED
    BY <2>1 DEF Awaited
<1>4. IsFiniteSet({}) /\ Cardinality({}) = 0
  BY FS_EmptySet
<1>5. \A i \in 1..Len(accounts) : accounts[i].failed_attempts = 0
  <2>1. accounts = Load(accountFile) /\ accounts \in Seq(Account)
    BY <1>1 DEF SystemInit, ServerInit, DialogueInv, SystemBase, SessionInv, TypeInv, TypeOK
  <2>2. DOMAIN accounts = 1..Len(accounts)
    BY <2>1
  <2>3. \A i \in DOMAIN accounts : accounts[i] = LoadRecord(accountFile[i])
    BY <2>1 DEF Load
  <2>4. QED
    BY <2>2, <2>3 DEF LoadRecord
<1>6. Counted
  BY <1>2, <1>3, <1>4, <1>5 DEF Counted
<1>7. QED
  BY <1>1, <1>6 DEF TriesInv

(* Without duplication and stops a counted failure is a wrong password     *)
(* that somebody entered: no loss and no interleaving of several clients   *)
(* on one account makes the counter exceed the passwords sent.             *)
THEOREM FailuresWereEnteredHolds == SystemSpec => []FailuresWereEntered
<1>1. TriesInv => FailuresWereEntered
  <2> SUFFICES ASSUME TriesInv, dups = 0, stops = 0, NEW i \in 1..Len(accounts)
               PROVE  accounts[i].failed_attempts <= TotalTries
    BY DEF FailuresWereEntered
  <2>1. Counted /\ SessionInv
    BY DEF TriesInv, Quiet, DialogueInv, SystemBase
  <2>2. Cardinality(Awaited) \in Nat /\ Cardinality(PasswordsSent) \in Nat
    BY <2>1, FS_CardinalityType DEF Counted
  <2>3. accounts[i].failed_attempts + Cardinality(Awaited) <= Cardinality(PasswordsSent)
    BY <2>1 DEF Counted
  <2>4. accounts[i].failed_attempts \in Int
    BY <2>1, FailureTypes
  <2>5. QED
    BY <2>2, <2>3, <2>4 DEF TotalTries
<1>2. QED
  BY <1>1, CountedInit, CountedStep, PTL DEF SystemSpec
================================================================================
