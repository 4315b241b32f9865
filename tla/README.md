# Verification of the network-programming homeworks

The repository holds the programs of a network-programming course (IT4062), each
in its own directory and independent of the others. This directory holds TLA+
models of them, TLC runs on small instances, and theorems checked by TLAPS.

## 1. Inventory

| Program | State | Operations | What is hard |
|---|---|---|---|
| **HW5** UDP authentication server and client (`server.c`, `server_protocol.c`, `server_session.c`, `server_account.c`, `client.c`, `client_io.c`) | account array with failure counters, session table of 128 slots keyed by IP and port, `account.txt`, the `server_running` flag | one handler per datagram whose meaning depends on the session's state; load, save; SIGINT | counters shared by sessions, datagrams lost, duplicated or late, slots that are never freed, saves that fail half-way, restarts, blocking calls without a timeout |
| **HW4_ver2** UDP chat relay for two peers (`server.c`, `client.c`) | two peer slots, the running flag; in the client, whether it is connected | connect, relay, leave, full; SIGINT/SIGTERM; `select()` on socket and keyboard | loss and duplication of control datagrams, peers that vanish, a chunk of input that holds several lines |
| **HW4** first version of the relay (`server.c`, `client.c`) | two slots; in the client, what `fgets()` has buffered | as above, with fewer answers | as above; datagrams of strangers are ignored without an answer; `select()` does not see buffered lines |
| **HW6** TCP text/file server, a process per connection (`server.c`, `client.c`, `protocol.c`, `md5.c`) | per connection: framing state, a file being received, its digest; `received_files/` | `STR`, `FILE`, end of session; fork and reap | partial reads and writes, the two ends losing the frame, connections ending inside a transfer, temporary files |
| **HW2/HW3** DNS resolver over UDP (`resolver.c`, `main.c`) and crawler (`crawler*.c`) | one query at a time; three lists of strings, three CSV files | query two resolvers in turn with a timeout, check a filtering resolver, download, parse, write | short, late or refused answers, retries, records nobody asked for, list growth, one of several files failing, what is freed on every way out |
| **HW1** user database (`user.c`, `main.c`) | linked list of users, `user.txt`, `isLoggedIn` | register, sign in, search, quit | `:` as separator inside fields, words that are no number, lines that do not parse, a save that fails |

The properties that make each of them correct:

* HW5: an account is usable until the third consecutive failure and never again
  after a block that was saved; a session belongs to one endpoint and speaks for the
  account that was authenticated; the file never mixes users; client and server
  agree on where their dialogue is; every request is answered; the server stops when told.
* HW4/HW4_ver2: a text reaches the other peer and nobody else; two peers at most; a slot
  is freed when its owner leaves; a client knows whether it is in the conversation.
* HW6: both ends agree on the frame boundaries; what is kept of a file is a prefix of it;
  a matching digest means equal contents; no temporary file is left over.
* HW2/HW3: what is printed is what the answers say; the second resolver is asked when the first
  has nothing; a blocked domain is not crawled; what is reported as crawled is in the files, whole and in order.
* HW1: saving and loading gives the list back, and no line is mixed with another; a blocked user cannot sign in; names are unique.

Not modelled: the grading scripts and the sample data, SHA-256 and MD5 arithmetic. Section 9 says why.

## 2. Plan

Done, in this order, the most intricate program first:

1. HW5: `AuthServer` with its lockout policy (`Lockout`, `AuthLockout`), its clients and
   network (`AuthClient`, `AuthSystem`).
2. HW4_ver2: `ChatServer`, `ChatClient`, `ChatSystem`, `ChatInput`.
3. HW6: `Md5` and `Transfer`, one connection from end to end.
4. HW4: `Relay`; and `Pair`, the abstract conversation that both relays implement.
5. HW1: `UserStore`.
6. HW2/HW3: `Dns`, `Lookup`, `Crawler`, and `Resolver`, which composes them.
7. Proofs: every safety property that a passing run checks, and the three refinements;
   first the servers of HW5 and HW6, then the relays, the systems of clients, network and server of HW5 and
   HW4_ver2, the user database, and the resolver with its crawler.

Left:

8. An abstract specification of a transfer (a request is refused, or kept whole and
   confirmed, or cut short) that `Transfer` implements.

## 3. HW5: the authentication server

| Module | Stands for |
|---|---|
| `AuthMessages` | the payloads and replies of the protocol |
| `AuthServer` | `server.c`, `server_protocol.c`, `server_session.c`, `server_account.c` |
| `Lockout` | abstract specification: what the server promises about lockout, without sessions or file layout |
| `AuthLockout` | the refinement mapping from `AuthServer` to `Lockout` |
| `AuthClient` | `client.c`, `client_io.c`, and the network's two bags of datagrams |
| `AuthSystem` | server, clients and UDP composed, with loss, duplication, SIGINT, crashes and restarts |
| `AuthProofs` | theorems about `AuthServer`, `AuthLockout` and `AuthSystem` |
| `MCAuthServer`, `MCAuthSystem` | instances for TLC |

State. `accounts` is the array of `server.h` with its counter `failed_attempts`; `sessions` is
the table of `server_session.c`, whose `account` pointer is an index here (`NULL` is 0);
`accountFile` is `account.txt`, a sequence of lines; `server_running` is the flag of the signal handler;
`up` says that the process exists; `saved` and `reply` record what the last save returned and
the last datagram sent, for the properties.

Actions. The server is one thread that handles a datagram to its end before the next
`recvfrom()`, so each branch of `process_datagram()` is one action: `TakeUsername`, `NotReady`,
`UnknownUser`, `LogIn`, `CountFailure`, `BlockAccount`, `LogOut`, `RejectText`, `HashText`, and
`ServerBusy` when `get_session()` finds no slot. `LoopWith` is the loop test that follows each
of them. `BlockAccount` contains the save: it succeeds, cannot open the file, or loses its last lines.
`CrashInSave` is a death in the middle of it. `Start` loads the file as `load_accounts()` does: up to `MAX_ACCOUNTS`
lines, up to the first that does not parse, statuses normalised.

| Run | Instance | What it shows |
|---|---|---|
| `auth_accounts` | 3 endpoints (symmetric), 2 slots, an array of 2 accounts, initial files with blocked and active accounts, a duplicate name, a line too many, a malformed line; 29 thousand states | `LockoutThreshold`: no interleaving of sessions leaves an account usable after the third failure in a row. `SessionsAreSound`: slots freed and reused never give an endpoint two, and a session's account is the first its username names. `LockoutPolicy`: the server implements `Lockout`. `FileAgrees`, `LinesEndure`: saves lose or block lines, never mix them |
| `auth_dialogue` | 2 clients, 1 slot, 1 password each, any loss, 1 duplicate; 1.3 million states | `InStep`: at every prompt the server's session is in the state the prompt stands for. `CleanExit`, `FailuresWereEntered` |
| `auth_stop` | 2 clients, 1 slot, no loss, 1 crash or SIGINT; 182 thousand states | `Answered`, `StopsWithTraffic`, liveness |
| `auth_signal` | 1 client, 1 SIGINT | finding 1 below |

Three endpoints are one more than the slots, so every order of a full table, a release and a
reuse occurs; the counter's threshold of three is that of the code, and nothing bounds the
number of datagrams in the runs of the server alone. The endpoints are interchangeable: no definition compares
or orders them and no property of the run is a liveness property, so the symmetry is sound. In `auth_dialogue` one password
per endpoint is enough: what is checked relates one prompt to one session, and what counts passwords over several
rounds is covered by `auth_accounts`. The files are chosen so that each way of leaving `load_accounts()` occurs.

`InStep` and `FailuresWereEntered` hold while no datagram is delivered twice. When one is, they do not: a
username delivered twice is taken as the password and counted as a failure, so repeated
duplicates can block an account that nobody mistyped a password for. The code has neither sequence
numbers nor a comment that promises more, so this is stated as the limit of the property and not as a finding.
`CleanExit` stays meaningful under duplication: each duplicate leaks at most one slot.

Fairness: the loop handles what is in its socket (weak fairness of `ServerStep` for each
client), and a client blocked in `recvfrom()` takes what arrives (weak fairness of
`HearStep`). Nobody must type, and nobody must restart the server.

## 4. HW4_ver2 and HW4: the chat relays

| Module | Stands for |
|---|---|
| `Pair` | abstract specification: a conversation of at most two members, in which a text of one is heard by the other |
| `ChatMessages` | lines and answers, `is_alnum_string()`, `is_exit_token()` |
| `ChatServer` | HW4_ver2 `server.c`: the loop with its test, `recvfrom()`, every branch, signals, crashes |
| `ChatClient` | the `select()` loop of HW4_ver2 `client.c` with its exits and the pending ICMP error |
| `ChatSystem` | both and UDP |
| `ChatInput` | how HW4_ver2 `client.c:276-311` turns chunks of bytes into lines |
| `Relay` | HW4 `server.c` and `client.c`, and UDP between them |
| `ChatProofs`, `ChatInputProofs`, `RelayProofs` | theorems about `ChatServer` and `ChatSystem`, about `ChatInput`, and about `Relay` |
| `MCChat`, `MCRelay` | instances for TLC |

State of HW4_ver2. `slots` is the array of `slot_t`; `running` the flag; `pc` says whether the server is at the loop
test, between it and `recvfrom()`, blocked, or gone, because a signal means something else in
each place (the handlers are installed without `SA_RESTART`). `sent` is the last answer. In the client `at` is how far the process is,
`refused` the error pending on its connected socket, `screen` whom the terminal shows as the peer. `toServer` and
`toClient` are the datagrams in flight, in order for one pair of endpoints: both programs run on one
host or a local network, where UDP does not reorder the datagrams of one pair in practice.
Actions: `Register`, `Full`, `NotConnected`, `Ignore`, `Leave`, `Invalid`, `Relay`, `NoPeer`
are the branches of the loop body; `Test`, `Block`, `on_signal`, `ReceiveFails` its control.

State of HW4. `clients` is the array of the two addresses. Of a client, `keyboard` is what is typed and not read, `stdio`
what `fgets()` has read along with another line and buffered: `select()` watches the descriptor, not the buffer, so a buffered
line waits until the descriptor is ready again. `closed` says that its input has ended, `told` that it was
shown that the server is full. Two histories are kept for `InputDrains`: `owed[c]` is what `c` typed and has not sent, up to an exit token,
and `inTurn[c]` says that each line `c` sent was the next one typed. `losses`, `stops` and `others` count the faults by their kind, for the properties.
Each branch of the loop body of `main()` is an action; `ReadInput` and `Hear` are the two sides of the client's `select()`.

| Run | Instance | What it shows |
|---|---|---|
| `chat_dialogue` | 3 clients (symmetric), 1 line each, 1 loss, 1 duplicate, 1 kill; 3.5 million states | `ScreenIsCurrent`: without loss, a client that has heard everything shows a peer that is still there. `LeaksAreLosses`: a slot whose owner left properly stays taken only if a datagram was lost |
| `chat_stop` | 3 clients, one of them talks, 1 signal or crash; 132 thousand states | `PairPolicy`: the slots implement `Pair`. `Admitted`, `LeaverNoticed`, `StopsWithTraffic`, liveness |
| `chat_input` | all inputs of at most 5 bytes over x, @, newline, return; a buffer of 2, chunks of at most 3 | `SentIsTyped`: what is sent is a function of what was typed, never of how `read()` cut it |
| `relay` | 3 clients for 2 slots, one of whom types up to 3 lines of `CONNECT`, `@` and a text, one fault (loss, duplicate, signal, crash, kill or failing call); 718 thousand states | `PairPolicy`: the first relay implements `Pair` too. `IgnoredKnows`: a client whose texts are ignored was told that the server is full, or something was lost or stopped. `LeaksAreLosses`. `InputDrains`: no line overtakes another or is dropped between `read()` and `sendto()`, and once the input has ended each line typed up to an exit token is sent and the client ends, unless it is killed or a call of its own fails |

Three clients are one more than the two slots; a third client that is refused, waits and is admitted
after one left needs no more. An input of five bytes holds a line that is too long, its rest, and another line,
and chunks of one to three bytes end in each of them. In `chat_stop` one talker is enough,
since `LeaverNoticed` is about one screen; in `relay` the one who types can type the tokens as text, which is how a client
connects twice or talks after it left, and the others connect and receive.

Fairness in `ChatSystem`: the loop runs and a client reads its socket (weak). `ServerStep` is strongly fair for each
client, because the server has one socket queue served in order of arrival: a datagram that waits in it is
handled although the server is, again and again, busy with another. In `Relay`: the server takes some datagram when there is
one, and each client that can read its input does (weak; a client blocked in `select()` on an input that has ended is ready at once).

A client that is killed sends no exit token and keeps its slot as long as the server lives; neither relay
has a timeout. The kills of `chat_dialogue` and the `others` of `relay` let it happen, and no property claims otherwise.

## 5. HW6: strings and files over TCP

| Module | Stands for |
|---|---|
| `Md5` | `md5.c`: the temporary file under `/tmp`, each call that can fail, the digest |
| `Transfer` | one connection: `client.c`, the process that `server.c` forks for it, `protocol.c`, two TCP streams |
| `TransferProofs` | theorems about `Transfer` |
| `MCTransfer` | the instance for TLC |

State. `toServer` and `toClient` are the streams: headers, bytes and answer lines not yet read.
`at` and `child` say where the two processes are; `need` is how much of the declared size is still to come, `word` the name the
file is saved under (the first word of the one in the header), `received` is
`received_files/`; `source` is a history: the file that was being sent when a saved name was last opened. `ctx` and `leftovers` are the MD5 contexts and the temporary files that nobody will remove.
Processes of different clients share only that directory, where the peer's
address and port are part of every name, so one connection is modelled.

Actions follow the system calls: a chunk sent or received is a step, so both processes
interleave within a transfer, and each may be killed, fail, or lose the connection between two
of them. `Reset` is TCP's: what a process sent may be lost when it closes its socket with bytes unread.

| Run | Instance | What it shows |
|---|---|---|
| `transfer` | 2 requests, chunks of 2 bytes, files of 0, 2 and 3 bytes, one failing call, one kill, one file that changes between `stat()` and `fread()`, one name without a word; 86 thousand states | `InStep`: at the menu both streams are empty and the server waits for a header. `VerdictIsRight`: what the verdict printed is worth. `SavedIsPrefix`: at any time, whatever broke off (a kill, a reset, a failing write or `fclose()`, a client that is gone), what stands under a name is a prefix of the file it was last opened for. `NoTempLeft`: a request during which nothing failed leaves no temporary file. `Answered`: no deadlock of the two blocking sides |
| `transfer_header` | the same without failures | finding 2 below |

Two requests are what a left-over of the first needs to disturb the second; files of none, exactly one
and more than one chunk are the boundaries of the loop of `server.c:246`. One fault, one kill and one change may all
occur in the same behaviour. Beyond these bounds the four safety properties are theorems.

`VerdictIsRight` promises a whole file only without failing calls, for a reason: `fclose()` of the saved file is not
checked and the digest is of the bytes received, so after a failing `fclose()` the client may print Match for a file that is
not whole. `InStep` excludes a file that changed: a file that grew leaves bytes in the stream that the server
reads as a header and gives the connection up; one that shrank leaves both sides waiting, which `Answered` excludes too.

Fairness: `ClientAuto` and `ChildAuto`, the steps the processes take by themselves (weak).
Typing, failing, being killed and a reset are never forced.

## 6. HW2 and HW3: resolver and crawler

| Module | Stands for |
|---|---|
| `Dns` | `resolver.c`: the bytes of a query, the walk over an answer with its compressed names and its records of other types |
| `Lookup` | `main.c` up to the filter, and `resolver.c`: two resolvers in turn, the filter with its retry, what is printed |
| `Crawler` | `crawler*.c`: download, parse, collect, sort, write, and what is freed on each way out |
| `Resolver` | both programs from start to end, run again over the same three files |
| `ResolverProofs` | theorems about `Resolver`: the crawl, the bytes of queries and answers, what is printed |
| `MCResolver` | the instance for TLC |

State. `heard` and `filterHeard` are what the servers sent in this run, `result` the addresses kept, `output` and `exit` what the
user sees. A reply is a member of a small set (nothing, a datagram shorter than a header, an error code, records), and
`Dns` turns it into bytes and the bytes into addresses as the code does, offset by offset. In `Crawler`, `lists` and
`capacity` are the three growing arrays, `heap` the buffers, documents and lists that are allocated, `files` the CSV files, which outlive
the run, and `written` and `unnoticed` record which files this run opened and whether something failed that the code does not look at.
`program` says which of the two programs runs: they share their resolver, and HW3 goes on to crawl.

| Run | Instance | What it shows |
|---|---|---|
| `resolver` | a domain of two labels, MAX_IPS 1, seven replies for each server (none, short, rcode 3, an AAAA only, a CNAME chain with two addresses, 0.0.0.0 among the kept and beyond them), three pages, lists that start with room for one, two faults or kills, two runs; 1.2 million states | `OutputIsTrue`: the addresses printed are the A records of the last answer, and "no connection" and "not found" are said only when both servers gave no more. `FilterIsObeyed`. `NoLeak`, `SuccessIsWholePage`, `CompletedIsWritten`: what a crawl leaves behind |

The second resolver matters only if the first had nothing, so every pair of replies occurs; MAX_IPS of 1 makes an answer
of three addresses overflow; lists that start with one entry grow twice on the largest page; two runs let the second
find the files of the first. The properties are safety: every call has a timeout in the code and is one step here.

Three pages, not more, since the order of items within one list and the growth of each list are all that the code distinguishes.

## 7. HW1: the user database

| Module | Stands for |
|---|---|
| `UserStore` | `user.c` and `main.c`: the list, `user.txt`, the menu, register, sign-in, search, and what `scanf()` leaves in the input |
| `UserStoreProofs` | theorems about `UserStore` |
| `MCUserStore` | the instance for TLC |

State. `users` is the linked list in order, `file` is `user.txt`; `at` is the prompt the program waits at; `choice` is
`main()`'s variable, indeterminate until a number is read into it; `pending` is a word that `%d` or `%f` refused, which the next
`%s` takes; `eof` says that the input has ended. At the end of the input `%s` reads nothing and the code uses its local buffer all the same:
`Leftovers` is what a buffer that was never written may hold, the empty string and every word among it (`Buffer`). A word is a sequence of the pieces between its colons, so that a name or
password that holds `:` breaks its line of `user.txt` the way it does in the code. `loaded`, `agree` and `mangled` record whether this run read all of the file when it
started, whether the last load or save was complete, and whether a word with a colon has been saved. `Load` is `loadUsersFromFile()`: `Scan` gives the
lines accepted so far, line by line. The first file is one that an earlier run wrote (`FilesAssumption`): names of their own, no
colon in a word, any line cut short.

| Run | Instance | What it shows |
|---|---|---|
| `users` | the words `u`, `p`, `p:7`, an unwritten buffer that holds one of these or nothing, three first files, room for two users, two faults (malloc, fopen, a write, a kill); 1.8 million states; deadlock is checked | `FileAgrees`: a run that read the whole file never falls behind it, whatever saves failed; after a complete load or save, a start finds every account of memory whose words are one piece and not empty, and exactly the list if all are. `NamesUnique`. `AccountsEndure`: no step loses an account that the run has read unless something fails in that very step, and no save, not even one cut off, mixes two lines or reopens an account. `SignInDecides`: a sign-in is left only by a login or a block |

Two users are what an order, a duplicate name and a list node without memory need. `FileAgrees` and the first half of `AccountsEndure` hold for
any words. `NamesUnique` and the second half of `AccountsEndure` speak only while no word with a colon was saved, because the format cannot represent it: the
password `p:7` of a blocked account makes it reload with status 7, which is not blocked. Nothing in the code claims otherwise, so this is a limit of the properties, not a finding.

What the code does lose, the properties name and do not hide. A save that fails half-way, or is killed, leaves the first part of the list; `AccountsEndure` permits it
in that step and no other, and `FileAgrees` says that the run which goes on still holds what is in the file. A start that cannot open `user.txt` creates it anew and so empties
a file that is there (`user.c:80`), and a start without memory for a node goes on with the accounts read so far: accounts that a run has not read
are dropped by its next save, so `AccountsEndure` speaks of those it has read (`loaded`, or held in memory). An account registered with an empty buffer at the end of the input is written as
a line that no start reads; `FileAgrees` says that the accounts around it are found all the same.
No liveness is stated: the program waits for its user.

## 8. What is proved

TLAPS checks these for every value of the constants that satisfies the named assumptions of the modules, stated where the constants are
declared: any number of endpoints, slots and accounts, any payloads, chunk sizes, strings, files, replies and pages, and any number of faults.
The assumptions say what a constant is (`SizesAssumption`, `BoundsAssumption`, `PagesAssumption`, ...), that the markers for "nobody" and
"nothing" are no endpoint and no answer (`AddrAssumption`, `NothingAssumption`), or what the program may be given
(`FileAssumption`, `FilesAssumption`, `LeftoversAssumption`, `HeaderAssumption`, `DomainAssumption`, `ReplyAssumption`, `BufferAssumption`); TLC evaluates each of them in a run.
TLC found each inductive invariant to hold on the small instance before it was proved.

`DataFacts` has the lemmas that several proofs share: what `Head`, `Tail` and `Append` do to the elements of a queue, that a finite
set of numbers has one more element when one is added, and induction. The provers cannot instantiate an induction theorem that takes a predicate,
but they can one that takes a set: `Induction` and `InductionTo` say that a set that holds 0 and is closed under the next number holds all
of them, and `Recursion` that a function on 0..N with a given first value and given steps exists. A definition that walks a
sequence is therefore written as a recursive function here, and the proof applies `InductionTo` to the set of the indices up to which its claim holds.

`AuthProofs` (HW5), of the server:

* `TypeCorrect`, `LockoutThresholdHolds`: one inductive invariant, `TypeInv`. `LockoutThreshold` is needed for the type of
  the counter: a counter in 0..3 stays there only because an account with three failures is blocked and a blocked one is not checked again.
* `OneSessionPerClientHolds`, `SessionBindingHolds`, and `SessionsHold`, their conjunction `SessionsAreSound`. The
  inductive invariant is `SessionInv`: `TypeInv`, the two, and `NamesFit`, that every username in memory and in the file fits its buffer - without
  it the name kept in a session, cut to the buffer, need not find the account that the whole name found. The lemmas say that `SlotOf` names a slot
  that is the endpoint's own or free, that writing it keeps the owners distinct (`With`), and that an update of counters and status keeps the names,
  hence what `FindAccount` returns; one lemma per branch of the handler then shows that what it leaves in the session is `Bound`.
* `FileAgreesHolds`, `LinesEndureHolds`: from `FileInv`, which relates each line of the file to the account it was loaded into or saved from.
* `LockoutPolicyHolds`: `AuthServer` implements `Lockout`. The initial state maps to its initial state, and each branch of the handler, each save and
  each way to end or start maps to a step or a stutter; `SessionInv` supplies that a session's account is the first of its name.

Of the server with its clients and the network, in the same module:

* `InStepHolds`, `CleanExitHolds`: from `DialogueInv`. Its base is that of the server (`SessionInv`) with the types of the clients and of the two bags; its
  core says of each client, as long as nothing was duplicated or stopped, that at most one datagram of its dialogue exists anywhere, and for each place
  the client waits in, either the request is on its way and the session is as it was at the prompt, or the answer is and the session
  is as it will be, or it was lost. `InStep` is what is left of it at a prompt. With duplicates, `CleanExit` needs only that a client has one session at most.
* `FailuresWereEnteredHolds`: from `TriesInv`. The failures of an account are not bounded by the passwords sent inductively, because one in flight may still
  fail; the failures together with the passwords that are in flight towards a session waiting for one (`Awaited`) are.
* Both invariants exclude stops because a restart forgets the sessions, so that a client's next password is taken for a username; that is
  what the properties say too.

`ChatProofs`, `ChatInputProofs` (HW4_ver2) and `RelayProofs` (HW4):

* `ChatTypeCorrect`, `ChatOneSlot`, `ChatRelayedToPeer`: conjuncts of the inductive invariant
  `ChatInv`. `RelayedToPeer` is not inductive alone: that `Other(find_slot(a))` is
  somebody else needs `OneSlotPerClient`. `ChatPairIsClosed`: the action property, from the same invariant.
* `ChatPairPolicy`, `RelayPairPolicy`: both relays implement `Pair`. The members are the owners of the slots; `SlotInv` (no endpoint owns
  two slots) makes the other slot's owner somebody else. `RelayTypeCorrect`: `TypeOK` of `Relay`.
* `ScreenIsCurrentHolds`: from `ScreenInv`. For every client that is present, whom its screen *will* show once it has heard all that is on its way (`ComesToShow`, by
  the last answer in the queue that changes the screen) is registered and so is the client itself; and no exit token of it is in flight. A server that nothing
  stopped refuses nothing (`Steady`).
* `LeaksAreLossesHolds` of both: from `LeakInv`, that the last datagram of a client that has left is its exit token and that the clients which
  hold a slot with nothing left in flight (`Leavers`) are no more than the datagrams lost. Counting them, and not only their owners, makes it inductive.
* `IgnoredKnowsHolds`: from `KnowsInv`. A client that is connected is registered, or was told, or its `CONNECT` is on its way to the server, or
  "full" is on its way to it.
* `LinesInTurn`, the safety part of `InputDrains` for any number of clients and lines: from `TurnInv`, that what a client still owes while it runs is what is in stdin's
  buffer followed by what is typed, and that every line it sent was the next. That the rest is sent in the end is liveness and stays with TLC.
* `SentIsTypedHolds`: from `InputInv`, whose core `Collects` says what the loop's variables hold once it has seen a text: the lines due so far, and of the line being
  collected either all its bytes or, if it is longer than the buffer, none (`Long`). A lemma for each kind of byte says how the lines of a text change with one byte
  more; by induction a chunk brings the collection to the end of the chunk, wherever it is cut. The property itself speaks of the positions of
  line breaks and not of the loop, so that `NthIn` and `NthMore` are needed: the n-th end of a line exists, and keeps its place when another is added.

`TransferProofs` (HW6):

* `InStepHolds`: from `FrameInv`, which says that, while both processes are there, the pair of them is in one of ten places
  (`Idle`, `Asked`, `Reading`, `Replying`, `Replied`, `Saving`, `Saved`, `Digested`, `Refused`, `Stray`), each of which fixes what is in the two streams
  as parts of the request's bytes. `InStep` alone is far from inductive: what is at the menu depends on every byte sent and read since the header. The
  lemmas about `SubSeq` say that a chunk taken off the stream and a chunk appended to the file move one boundary inside the same sequence.
* `SavedIsPrefixHolds`: in every state, also when one of the processes is gone. `FrameInv` speaks only while both are there, so `StreamInv` says what the server's process
  can still find in its stream when the client may have died or closed: nothing, stray bytes at which it gives up, or the header and exactly
  what was sent of its request. `PrefixInv` adds that the file being
  written is that of the request its bytes come from.
* `NoTempLeftHolds`: from `FrameInv` and `TempInv`, which says where a context may be open and that what is left over is explained.
* `VerdictIsRightHolds`: from these, `LinesInv` (what is unread once the server's process is gone), `SettledInv` (after a verdict the server finds no other
  header, so the saved file stays as it was) and `DigestInv` (as long as nothing failed, each context is of the bytes sent or saved).

`UserStoreProofs` (HW1):

* `FileAgreesHolds`, `NamesUniqueHold`, `TypeCorrect`: from `UserInv`. `Registering` says that a name asks for its password only while no user has
  it. `Recorded` says that the file is the list, line by line, or the list what was loaded from it, where the last load or save was complete; and that a run which read the whole file holds
  every account a start would find. `Honest` says that, as long as no word with a colon was saved, the words of each user are one piece and the file is `Clean`. The lemmas are about
  `Scan`: what it keeps of a file, of a file with a line more, of one whose last line is cut, and that of the lines printed from a list it keeps those of its plain users, in order.
* `AccountsEndureHolds`, `SignInDecidesHolds`: the two action properties, from the same invariant. The first takes an account of the file that the run has read and
  follows it through each way of writing the list: all of it, its first lines, or nothing.

`ResolverProofs` (HW2, HW3):

* `NoLeakHolds`: from `HeapInv`, what is allocated at each step of `crawl_website()`. `CompletedIsWrittenHolds`: from `WrittenInv`, which joins
  where the call is, what it has opened and what `main()` printed. `CrawlTypeCorrect`, `TypeCorrect`.
* `SuccessIsWholePageHolds`: from `PageInv`. During the walk the lists hold the first `todo - 1` items of the page, in the sense that each value occurs in its list as often
  as among them (`Collected`); sorting changes the order and no count; and the files opened so far are their lists.
* `OutputIsTrueHolds`, `FilterIsObeyedHolds`: from `LookInv`, whose core `HeardInv` says that the addresses kept are the first `MAX_IPS + 1` among the A records of
  the last answer and that the earlier answers had none. For the step in which an answer arrives, the proof follows the code over its bytes: the query's name,
  as `encode_dns_name()` writes it, is read by `skip_dns_name()` to its end and no further (`IsName`); a query and an answer are their
  parts one after the other, so that each field is read at the offset at which it was written (`Lies`); each turn of the loop over the records leaves the offset at the next record
  and takes the address of an A record, passing over the others; hence, by induction over the records, what `parse_dns_response()` returns.

Model-checked only: liveness under the fairness assumed (`Answered` of `AuthSystem` and of `Transfer`, `Admitted`, `LeaverNoticed`, `InputDrains`, and `StopsWithTraffic` of both
servers), which is out of the prover's reach.

## 9. Findings, remarks, and what is not modelled

Findings, each shown by a run that TLC must find violated:

1. HW5 `server.c:114` (`StopsOnSignal`, run `auth_signal`): the handler is installed with `SA_RESTART`, so SIGINT
   during `recvfrom()` does not end the server until one more datagram arrives; `server.c:40` says the
   socket is closed when the server receives the signal. `StopsWithTraffic` shows the rest of the promise holds.
2. HW6 `server.c:222` (`AlwaysAnswered`, run `transfer_header`): the answer to a header whose name is blank
   is sent without its newline, and the client waits for it forever.

Remarks, met while modelling, for which there is no run of their own:

* HW4_ver2 `server.c:318`: a signal between the loop test and `recvfrom()` is not seen until the next datagram, although the handlers
  are installed without `SA_RESTART`; `StopsWithTraffic` of `chat_stop` says what is left. HW4 `server.c:120` has the disagreement of finding 1.
* HW4 `client.c`: of two lines that arrive in one `read()`, the second is sent only when the keyboard is touched again, because `select()` does not see
  what `fgets()` has buffered. `InputDrains` says that the end of the input is enough.
* HW1 `main.c:13` offers "other to quit", but a word that is no number leaves `choice` as it was and stays in the input, so the previous
  choice is repeated with the word as its first answer; at the end of the input the program may repeat a choice without end.
* HW3 `crawler.h:11` says that -1 is returned when writing fails; the results of `fprintf()` and `fclose()` are not looked at (`unnoticed` in the model).
  `crawler_output.c:27` says that each item takes one line; an item whose text has a newline inside takes more.
  The URL or text for which there is no memory is passed over, not reported.
* HW2/HW3 `main.c` choose the transaction id for its uniqueness; no answer's id is compared with it.

Abstractions:

* A digest (SHA-256, MD5) is the data it is of: collisions are left out, and so are `md5_hex()` and
  the split into letters and digits as such.
* Payloads and lines are classes: empty, `bye`/exit tokens, alphanumeric ones, one longer than
  a username buffer, others. Where bytes or pieces matter, in `ChatInput`, `Transfer`, `Dns` and `UserStore`, they are modelled.
* `Relay`: a line fits its buffers; one of 1024 bytes, which the server's prefix would push beyond the client's buffer, is left out.
* `Transfer`: left-over bytes of a file never spell a header (`HeaderAssumption`); the TCP buffers are unbounded, so a `send()`
  never blocks; the menu and the prompt for a string are one place; requests that the client refuses before
  sending, too long or empty, change nothing and are left out.
* `Dns`: the answers enumerated are whole messages and one shorter than a header; a message cut inside a record is not enumerated, since the code
  would read beyond what was received; and the answers fit the 512 bytes of `main.c`'s buffer (`BufferAssumption`). The domain is a
  host name (`DomainAssumption`): one with an empty label, or with a label of 192 bytes or more, is refused by no line of the code, but is not
  a name that DNS can carry. `Crawler`: of a URL or a text only its identity and its place in the order are kept; the HTML parser
  and libcurl are what they deliver or fail to.
* `UserStore`: scores are only printed and are left out; no word exceeds its buffer. A buffer that nothing was read into holds some string that ends within
  it and has no newline, perhaps the empty one (`LeftoversAssumption`); one without an end is read beyond its bounds by the code and is left out.
* Printing, wording, logging, command-line parsing and start-up failures (a bad port, `bind()`) end the process
  before it has state and are left out.

Not modelled: SHA-256 (`server_crypto.c`) and the MD5 program called by `md5.c`, bit-level functions of their input without state between calls, of
which TLC could only recompute test vectors; the grading scripts and sample data, which are read as documentation only.

## 10. Running it

Every `.cfg` belongs to one run of `PROJECT.json`, which names its module:
`tlc -workers 2 -config AuthStop.cfg MCAuthSystem`, and `tlapm TransferProofs.tla` for the proofs. The longest run,
`ChatDialogue.cfg`, takes two to three minutes on two cores. Definitions
that begin with the comment "Mutant" are plausible bugs of the definition that follows them;
`PROJECT.json` pairs each with the property it breaks.
