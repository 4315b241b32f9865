------------------------------- MODULE UserStore -------------------------------
(***************************************************************************)
(* HW1: one interactive program over user.txt.  The list of users is read  *)
(* once at start and the whole file is rewritten after each registration   *)
(* and each blocking.  Input is read by scanf(): a word that "%d" or "%f"  *)
(* refuses stays in front of the input and is what the next "%s" reads, and*)
(* a variable that nothing was read into, because the input has ended,     *)
(* keeps an old or indeterminate value.                                    *)
(*                                                                         *)
(* A word is a sequence of atoms, the pieces between its ':' characters;   *)
(* a line of user.txt is the atoms in front of the status, and the status. *)
(* Scores only ever print as a number that "%f" reads and are left out.    *)
(* A word is at most 49 characters, so no buffer cuts it.  A buffer that   *)
(* was never written holds some string: one that ends within the buffer and*)
(* has no newline in it, perhaps the empty one.                            *)
(***************************************************************************)
EXTENDS Integers, Sequences

CONSTANTS
  Atoms,         \* pieces of words, free of ':' and newlines
  Empty,         \* the piece between two adjacent ':'
  NotANumber,
  Value,         \* Value[a]: what "%d" reads from atom a, or NotANumber
  Words,         \* the words typed at a prompt
  Leftovers,     \* what a buffer may hold that nothing was read into
  InitialFiles,  \* contents user.txt may have at the first start
  MaxUsers,      \* memory for so many list nodes
  MaxFaults      \* bound on failures of malloc, fopen, writes, and kills

ASSUME AtomsAssumption ==
  /\ Empty \in Atoms
  /\ NotANumber \notin Int
  /\ Value \in [Atoms -> Int \cup {NotANumber}]
  /\ Value[Empty] = NotANumber

(* No word with a ':' begins with a number: scanf("%d") would split it.    *)
ASSUME WordsAssumption ==
  /\ Words \subseteq Seq(Atoms) \ {<<>>, <<Empty>>}
  /\ \A w \in Words : Len(w) > 1 => Value[w[1]] = NotANumber

(* Stale stack memory: the empty string, any word, or something else.      *)
ASSUME LeftoversAssumption ==
  /\ Leftovers \subseteq Seq(Atoms) \ {<<>>}
  /\ Words \cup {<<Empty>>} \subseteq Leftovers

ASSUME BoundsAssumption == MaxUsers \in Nat /\ MaxFaults \in Nat

VARIABLES
  at,          \* where the program is: the prompt it waits at, or not running
  users,       \* the linked list
  isLoggedIn,
  choice,      \* main()'s variable, indeterminate until "%d" reads into it
  name,        \* the username that was read
  user,        \* the index of the account that signs in, or NULL
  wrongCounts,
  pending,     \* the word left in front of the input, or <<>>
  eof,         \* the input has ended
  file,        \* user.txt
  loaded,      \* history: this run read all of user.txt when it started
  agree,       \* history: the last load or save was complete
  mangled,     \* history: a word with a ':' has been saved
  faults       \* history: failures so far

local == <<choice, name, user, wrongCounts>>
input == <<pending, eof>>
vars == <<at, users, isLoggedIn, local, input, file, loaded, agree, mangled, faults>>

NULL == 0
Choices == 0..4
MaxWrong == 3

-------------------------------------------------------------------------------
(* The list and the file                                                   *)

User == [username : Seq(Atoms), password : Seq(Atoms), status : Int]

FileLine == [text : Seq(Atoms), status : Int]

Named(us, w) == {i \in DOMAIN us : us[i].username = w}

findUser(us, w) ==
  IF Named(us, w) = {} THEN NULL
  ELSE CHOOSE i \in Named(us, w) : \A j \in Named(us, w) : i <= j

createUser(u, p) == [username |-> u, password |-> p, status |-> 0]

(* fprintf("%s:%s:%d:%.2f\n"): the atoms of the two words run together.    *)
Line(x) == [text |-> x.username \o x.password, status |-> x.status]

Lines(us) == [i \in DOMAIN us |-> Line(us[i])]

(* sscanf("%49[^:]:%49[^:]:%d:%f") = 4.  With two atoms in front of the    *)
(* status the line is read as it was written; with more, the third is read *)
(* as the status and what follows as the score.                            *)
Parses(r) ==
  /\ Len(r.text) >= 2
  /\ r.text[1] # Empty
  /\ r.text[2] # Empty
  /\ Len(r.text) >= 3 => Value[r.text[3]] # NotANumber
  /\ Len(r.text) >= 4 => Value[r.text[4]] # NotANumber

Parse(r) ==
  [username |-> <<r.text[1]>>, password |-> <<r.text[2]>>,
   status |-> IF Len(r.text) = 2 THEN r.status ELSE Value[r.text[3]]]

(* The loop of loadUsers() over a file that can be read: the lines kept of *)
(* the first n; invalid lines are skipped.                                 *)
Keep(kept, r) == IF Parses(r) THEN Append(kept, r) ELSE kept

Scan(f) ==
  LET kept[n \in 0..Len(f)] ==
        IF n = 0 THEN <<>> ELSE Keep(kept[n - 1], f[n])
  IN  kept

Valid(f) == Scan(f)[Len(f)]

Load(f) == [i \in DOMAIN Valid(f) |-> Parse(Valid(f)[i])]

(* What the program writes while no word holds a ':': two atoms in front   *)
(* of the status, and a name of its own in each line that parses.          *)
Clean(f) ==
  /\ \A i \in 1..Len(f) : Parses(f[i]) => Len(f[i].text) = 2
  /\ \A i, j \in 1..Len(f) :
       Parses(f[i]) /\ Parses(f[j]) /\ f[i].text[1] = f[j].text[1] => i = j

(* user.txt is what an earlier run wrote, no word with a ':' among it, or  *)
(* is edited by hand to the same effect; any line of it may have been cut. *)
ASSUME FilesAssumption ==
  \A f \in InitialFiles : f \in Seq(FileLine) /\ Clean(f)

-------------------------------------------------------------------------------
(* Failures *)

Fault == faults < MaxFaults /\ faults' = faults + 1
NoFault == UNCHANGED faults

(* The process is gone: its memory and the input it had are forgotten. *)
Gone(where) ==
  /\ at' = where
  /\ users' = <<>>
  /\ isLoggedIn' = FALSE
  /\ choice' \in Choices
  /\ name' = <<Empty>>
  /\ user' = NULL
  /\ wrongCounts' = 0
  /\ pending' = <<>>
  /\ eof' = FALSE
  /\ loaded' = FALSE
  /\ agree' = FALSE

(* A write that fails, or a kill, leaves the first lines in the file; a    *)
(* line cut short counts as absent (or as whole, when only its score is    *)
(* cut).                                                                   *)
PartOf(us) == {SubSeq(Lines(us), 1, n) : n \in 0..Len(us)}

(* Mutant: the list is saved before the change is made to it. *)
SaveOldList(us) ==
  /\ users' = us
  /\ file' = Lines(users)
  /\ agree' = TRUE
  /\ at' = "menu"
  /\ NoFault
  /\ UNCHANGED loaded

(* saveUsers(us) and the return to the menu.  Only a failing fopen() is    *)
(* noticed; the results of fprintf() and fclose() are not looked at, and   *)
(* the caller goes on in the same way whatever saveUsers() returns.        *)
saveUsers(us) ==
  /\ users' = us
  /\ at' = "menu"
  /\ \/ /\ file' = Lines(us)
        /\ agree' = TRUE
        /\ NoFault
     \/ /\ file' \in PartOf(us) \cup {file}
        /\ agree' = FALSE
        /\ Fault
  /\ UNCHANGED loaded

(* The process is killed inside saveUsers(us). *)
KilledSaving(us) ==
  /\ file' \in PartOf(us)
  /\ Gone("off")
  /\ Fault

-------------------------------------------------------------------------------
(* Input *)

(* What scanf("%49s") leaves in its buffer: the pending word if there is   *)
(* one, else a word that is typed, else (the input has ended) whatever the *)
(* buffer held.                                                            *)
NothingRead == eof /\ pending = <<>>

Buffer ==
  IF pending # <<>> THEN {pending} ELSE IF eof THEN Leftovers ELSE Words

ReadWord(w) ==
  /\ w \in Buffer
  /\ pending' = <<>>
  /\ UNCHANGED eof

Number(w) == IF Len(w) = 1 THEN Value[w[1]] ELSE NotANumber

(* A word that "%d" or "%f" refuses stays in front. *)
RefusedWord ==
  /\ \E w \in Words :
        /\ Number(w) = NotANumber
        /\ \/ w = pending
           \/ pending = <<>> /\ ~eof
        /\ pending' = w
  /\ UNCHANGED eof

(* The conversion reads nothing because the input has ended. *)
NothingLeft == NothingRead /\ UNCHANGED input

(* A number is typed; one is never pending. *)
ReadNumber == ~eof /\ pending = <<>> /\ UNCHANGED input

(* The input is closed; the program sees it at its next read. *)
CloseInput ==
  /\ at # "off"
  /\ ~eof
  /\ eof' = TRUE
  /\ UNCHANGED <<at, users, isLoggedIn, local, pending, file, loaded, agree, mangled, faults>>

-------------------------------------------------------------------------------
(* The program *)

Off == at = "off"

Init ==
  /\ at = "off"
  /\ users = <<>>
  /\ isLoggedIn = FALSE
  /\ choice \in Choices
  /\ name = <<Empty>>
  /\ user = NULL
  /\ wrongCounts = 0
  /\ pending = <<>>
  /\ eof = FALSE
  /\ file \in InitialFiles
  /\ loaded = FALSE
  /\ agree = FALSE
  /\ mangled = FALSE
  /\ faults = 0

(* The program starts and reads user.txt to its end, or until malloc()     *)
(* fails.                                                                  *)
StartLoaded ==
  /\ Off
  /\ at' = "menu"
  /\ \/ users' = Load(file) /\ loaded' = TRUE /\ agree' = TRUE /\ NoFault
     \/ /\ \E n \in 0 .. Len(Load(file)) - 1 : users' = SubSeq(Load(file), 1, n)
        /\ loaded' = FALSE
        /\ agree' = FALSE
        /\ Fault
  /\ UNCHANGED <<isLoggedIn, local, input, file, mangled>>

(* fopen("r") fails, for whatever reason, and user.txt is created, which   *)
(* empties the one that may be there; or that fails as well.               *)
StartUnread ==
  /\ Off
  /\ at' = "menu"
  /\ users' = <<>>
  /\ file' \in {file, <<>>}
  /\ loaded' = FALSE
  /\ agree' = FALSE
  /\ Fault
  /\ UNCHANGED <<isLoggedIn, local, input, mangled>>

(* Where the switch of main() goes; 4 only prints. *)
Enter(c) ==
  at' = CASE c = 1 -> "register name"
          [] c = 2 -> "sign in name"
          [] c = 3 /\ isLoggedIn -> "search name"
          [] OTHER -> "menu"

(* One turn of the menu loop.  When scanf() reads no number, `choice` is   *)
(* what it was.                                                            *)
Menu ==
  /\ at = "menu"
  /\ \E c \in Choices \ {0} :
        /\ \/ ReadNumber
           \/ c = choice /\ (NothingLeft \/ RefusedWord)
        /\ choice' = c
        /\ Enter(c)
  /\ UNCHANGED <<users, isLoggedIn, name, user, wrongCounts, file, loaded, agree, mangled, faults>>

(* Any other number, typed or left in `choice`, ends the program. *)
Quit ==
  /\ at = "menu"
  /\ \/ pending = <<>> /\ ~eof
     \/ choice = 0
  /\ Gone("off")
  /\ UNCHANGED <<file, mangled, faults>>

(* Mutant: the name is not looked up. *)
RegisterAnyName ==
  /\ at = "register name"
  /\ \E w \in Buffer : ReadWord(w) /\ name' = w
  /\ at' = "register password"
  /\ UNCHANGED <<users, isLoggedIn, choice, user, wrongCounts, file, loaded, agree, mangled, faults>>

(* registerUser(): the name is looked up before the password is asked for. *)
RegisterName ==
  /\ at = "register name"
  /\ \E w \in Buffer :
        /\ ReadWord(w)
        /\ IF findUser(users, w) = NULL
             THEN at' = "register password" /\ name' = w
             ELSE at' = "menu" /\ UNCHANGED name
  /\ UNCHANGED <<users, isLoggedIn, choice, user, wrongCounts, file, loaded, agree, mangled, faults>>

(* The score decides nothing: a word in its place stays in the input and   *)
(* the account is created all the same.                                    *)
ReadScore == ReadNumber \/ NothingLeft \/ RefusedWord

(* Mutant: addUser() links the new node in place of the last one. *)
RegisteredOverLast(w) ==
  LET n == createUser(name, w)
  IN  IF users = <<>> THEN <<n>> ELSE [users EXCEPT ![Len(users)] = n]

(* No word is pending at the password prompt.  The password and the score  *)
(* are read in one step: nothing happens between them.                     *)
Registered(w) == Append(users, createUser(name, w))

RegisterPassword ==
  /\ at = "register password"
  /\ \E w \in Buffer :
        IF Len(users) < MaxUsers
          THEN /\ mangled' = (mangled \/ Len(name) > 1 \/ Len(w) > 1)
               /\ UNCHANGED <<isLoggedIn, choice, user, wrongCounts>>
               /\ name' = <<Empty>>
               /\ saveUsers(Registered(w))
          ELSE /\ name' = <<Empty>>
               /\ at' = "menu"
               /\ UNCHANGED <<users, isLoggedIn, choice, user, wrongCounts, file, loaded, agree, mangled, faults>>
  /\ ReadScore

RegisterKilled ==
  /\ at = "register password"
  /\ Len(users) < MaxUsers
  /\ \E w \in Buffer :
        /\ mangled' = (mangled \/ Len(name) > 1 \/ Len(w) > 1)
        /\ KilledSaving(Registered(w))

(* createUser() returns NULL before the memory for MaxUsers is used up. *)
RegisterNoMemory ==
  /\ at = "register password"
  /\ Len(users) < MaxUsers
  /\ ReadScore
  /\ at' = "menu"
  /\ name' = <<Empty>>
  /\ Fault
  /\ UNCHANGED <<users, isLoggedIn, choice, user, wrongCounts, file, loaded, agree, mangled>>

(* signIn(): only status 1 is refused; any other status may try. *)
SignInName ==
  /\ at = "sign in name"
  /\ \E w \in Buffer :
       LET i == findUser(users, w)
       IN  /\ ReadWord(w)
           /\ IF i # NULL /\ users[i].status # 1
                THEN at' = "sign in password" /\ user' = i
                ELSE at' = "menu" /\ UNCHANGED user
  /\ UNCHANGED <<users, isLoggedIn, choice, name, wrongCounts, file, loaded, agree, mangled, faults>>

(* Where nothing is read after a wrong password, the buffer still holds it.*)
RightPassword ==
  /\ at = "sign in password"
  /\ NothingRead => wrongCounts = 0
  /\ ReadWord(users[user].password)
  /\ isLoggedIn' = TRUE
  /\ at' = "menu"
  /\ user' = NULL
  /\ wrongCounts' = 0
  /\ UNCHANGED <<users, choice, name, file, loaded, agree, mangled, faults>>

Wrong(w) == ReadWord(w) /\ w # users[user].password

(* Mutant: one try too many. *)
WrongOnceMore ==
  /\ at = "sign in password"
  /\ \E w \in Buffer : Wrong(w)
  /\ wrongCounts <= MaxWrong
  /\ wrongCounts' = wrongCounts + 1
  /\ UNCHANGED <<at, users, isLoggedIn, choice, name, user, file, loaded, agree, mangled, faults>>

(* A wrong password that leaves a try. *)
WrongPassword ==
  /\ at = "sign in password"
  /\ \E w \in Buffer : Wrong(w)
  /\ wrongCounts < MaxWrong
  /\ wrongCounts' = wrongCounts + 1
  /\ UNCHANGED <<at, users, isLoggedIn, choice, name, user, file, loaded, agree, mangled, faults>>

(* Mutant: the loop ends before the count that blocks is reached. *)
NotBlocked == users

Blocked == [users EXCEPT ![user].status = 1]

LastTry == at = "sign in password" /\ wrongCounts = MaxWrong

(* The fourth wrong password blocks the account, in memory and, if the     *)
(* save succeeds, in the file.                                             *)
BlockUser ==
  /\ LastTry
  /\ \E w \in Buffer : Wrong(w)
  /\ user' = NULL
  /\ wrongCounts' = 0
  /\ saveUsers(Blocked)
  /\ UNCHANGED <<isLoggedIn, choice, name, mangled>>

BlockKilled ==
  /\ LastTry
  /\ \E w \in Buffer : w # users[user].password
  /\ KilledSaving(Blocked)
  /\ UNCHANGED mangled

(* searchUser() shows the status of an account and changes nothing. *)
Search ==
  /\ at = "search name"
  /\ \E w \in Buffer : ReadWord(w)
  /\ at' = "menu"
  /\ UNCHANGED <<users, isLoggedIn, local, file, loaded, agree, mangled, faults>>

(* The process is killed at a prompt. *)
Kill ==
  /\ ~Off
  /\ Gone("off")
  /\ Fault
  /\ UNCHANGED <<file, mangled>>

Program ==
  \/ Menu \/ Quit \/ RegisterName \/ RegisterPassword
  \/ SignInName \/ RightPassword \/ WrongPassword \/ BlockUser \/ Search

Next ==
  \/ Program \/ CloseInput \/ StartLoaded \/ StartUnread
  \/ RegisterNoMemory \/ RegisterKilled \/ BlockKilled \/ Kill

Spec == Init /\ [][Next]_vars

-------------------------------------------------------------------------------
(* Properties *)

TypeOK ==
  /\ at \in {"off", "menu", "register name", "register password",
             "sign in name", "sign in password", "search name"}
  /\ users \in Seq(User)
  /\ isLoggedIn \in BOOLEAN
  /\ choice \in Choices
  /\ name \in Leftovers
  /\ user \in NULL .. Len(users)
  /\ (at = "sign in password") <=> (user # NULL)
  /\ wrongCounts \in 0..MaxWrong
  /\ pending \in Words \cup {<<>>}
  /\ eof \in BOOLEAN
  /\ file \in Seq(FileLine)
  /\ loaded \in BOOLEAN
  /\ agree \in BOOLEAN
  /\ mangled \in BOOLEAN
  /\ faults \in 0..MaxFaults

(* The accounts that a start finds in a file; and whether it finds one as  *)
(* it was, or blocked since.                                               *)
Accounts(f) == {Load(f)[i] : i \in DOMAIN Load(f)}

Still(x, y) ==
  /\ y.username = x.username
  /\ y.password = x.password
  /\ y.status \in {x.status, 1}

Holds(f, x) == \E y \in Accounts(f) : Still(x, y)

(* An account whose words are each one piece that is not empty, so that    *)
(* its line is read back as it was written.                                *)
OnePiece(w) == Len(w) = 1 /\ w # <<Empty>>
Plain(x) == OnePiece(x.username) /\ OnePiece(x.password)

(* Memory and user.txt, whatever saves failed, whatever words were saved   *)
(* and wherever the input ended.  A run that read the whole file never     *)
(* falls behind it: what a start would find is held in memory, blocked if  *)
(* it is blocked there.  And once a load or save was complete, whatever    *)
(* failed before, a start finds every plain account of memory, also between*)
(* lines that no start can read; it finds exactly the list if all are      *)
(* plain.  (After a failed save the file may be behind, and a run whose    *)
(* start could not read the file holds less than the file did.)            *)
FileAgrees ==
  /\ loaded => \A x \in Accounts(file) : Holds(Lines(users), x)
  /\ agree =>
       /\ \A i \in DOMAIN users : Plain(users[i]) => users[i] \in Accounts(file)
       /\ (\A i \in DOMAIN users : Plain(users[i])) => Load(file) = users

(* registerUser() keeps names apart, so that findUser() finds the account  *)
(* a name was registered for.                                              *)
NamesUnique ==
  ~mangled => \A i, j \in DOMAIN users :
                 users[i].username = users[j].username => i = j

(* What rewriting user.txt in place may do to an account x that is in it   *)
(* and that this run has read (all of them, if its start read the whole    *)
(* file).  Whatever failed earlier, no step loses x unless something fails *)
(* in that step; and no step, not even a save that fails or is killed,     *)
(* leaves a line in its name that is not x as it was or blocked: no line   *)
(* is mixed with another and no account reopened, as long as no word with  *)
(* a ':' was saved.  An account that a failed or partial start did not read*)
(* is not among them: the code drops it with the next save.                *)
AccountsEndure ==
  [][\A x \in Accounts(file) : loaded \/ Holds(Lines(users), x) =>
       /\ faults' = faults => Holds(file', x)
       /\ ~mangled' =>
            \A y \in Accounts(file') : y.username = x.username => Still(x, y)]_vars

(* A sign-in that has asked for a password is left for the menu only after *)
(* a login or with the account blocked: no number of wrong tries gives a   *)
(* fresh start.                                                            *)
SignInDecides ==
  [][at = "sign in password" /\ at' = "menu"
       => isLoggedIn' \/ users'[user].status = 1]_vars
================================================================================
