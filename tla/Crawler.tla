-------------------------------- MODULE Crawler --------------------------------
(***************************************************************************)
(* crawl_website() of HW3: a page is downloaded in chunks, parsed, walked  *)
(* node by node into three growing lists, sorted, and written to three     *)
(* files, with the failures of each step and what each leaves allocated.   *)
(***************************************************************************)
EXTENDS Integers, Sequences, FiniteSets

LOCAL INSTANCE SequencesExt

CONSTANTS
  Pages,          \* the pages a site may have: their elements in preorder
  None,           \* no such attribute, no text, or a URL that cannot be built
  Key,            \* Key[v]: value v without case, as a number to sort by
  FirstCapacity,  \* entries of a list when it first grows (32)
  MaxFaults       \* bound: failures of calls, and kills

(* An element: what kinds of tag it has, its URL and its trimmed text.     *)
Element == [isLink : BOOLEAN, isVideo : BOOLEAN, isText : BOOLEAN,
            url : DOMAIN Key \cup {None}, text : DOMAIN Key \cup {None}]

ASSUME PagesAssumption ==
  /\ Pages \subseteq Seq(Element)
  /\ None \notin DOMAIN Key
  /\ FirstCapacity \in Nat \ {0}
  /\ MaxFaults \in Nat

VARIABLES
  step,      \* where crawl_website() is; "idle" when it is not called
  page,      \* the page that is walked, once it is parsed
  todo,      \* the next item of the page
  lists,     \* links, texts and videos
  capacity,  \* what each list has room for
  heap,      \* what is allocated
  status,    \* what crawl_website() returns
  files,     \* links.csv, texts.csv and videos.csv
  written,   \* history: the files that this call has opened
  unnoticed, \* history: a failure that this call does not look for
  faults

crawlVars == <<step, page, todo, lists, capacity, heap, status, files,
               written, unnoticed, faults>>

Lists == {"links", "texts", "videos"}

EmptyLists == [l \in Lists |-> <<>>]
NoCapacity == [l \in Lists |-> 0]

-------------------------------------------------------------------------------
(* What a page holds                                                       *)

Item(l, v) == IF v = None THEN <<>> ELSE <<[list |-> l, value |-> v]>>

(* collect_nodes(): for each element its link, its video, then its text.   *)
ItemsOf(e) ==
  (IF e.isLink THEN Item("links", e.url) ELSE <<>>)
    \o (IF e.isVideo THEN Item("videos", e.url) ELSE <<>>)
    \o (IF e.isText THEN Item("texts", e.text) ELSE <<>>)

Items(p) ==
  LET upTo[n \in 0..Len(p)] ==
        IF n = 0 THEN <<>> ELSE upTo[n - 1] \o ItemsOf(p[n])
  IN  upTo[Len(p)]

(* How often v is in s. *)
Times(v, s) == Cardinality({i \in DOMAIN s : s[i] = v})

Ordered(s) == \A i \in 1 .. Len(s) - 1 : Key[s[i]] <= Key[s[i + 1]]

(* qsort(): an arrangement with the same values in which none comes before *)
(* a smaller one; values that differ only by case may come in any order.   *)
Arrangements(s) ==
  {t \in [1..Len(s) -> ToSet(s)] :
     Ordered(t) /\ \A v \in ToSet(s) : Times(v, t) = Times(v, s)}

-------------------------------------------------------------------------------
Fault == faults < MaxFaults /\ faults' = faults + 1

CrawlInit ==
  /\ step = "idle"
  /\ page = <<>>
  /\ todo = 0
  /\ lists = EmptyLists
  /\ capacity = NoCapacity
  /\ heap = {}
  /\ status = -1
  /\ files = EmptyLists
  /\ written = {}
  /\ unnoticed = FALSE
  /\ faults = 0

(* crawl_website() is called.  A base URL that does not fit its buffer is  *)
(* refused at once.                                                        *)
Begin ==
  /\ step = "idle"
  /\ step' \in {"download 0", "returned"}
  /\ page' = <<>>
  /\ todo' = 1
  /\ lists' = EmptyLists
  /\ capacity' = NoCapacity
  /\ status' = -1
  /\ written' = {}
  /\ unnoticed' = FALSE
  /\ UNCHANGED <<heap, files, faults>>

(* write_download(): realloc() and the chunk is appended; after the first  *)
(* one the buffer exists.                                                  *)
Chunk ==
  /\ step = "download 0"
  /\ step' = "download 1"
  /\ heap' = heap \cup {"buffer"}
  /\ UNCHANGED <<page, todo, lists, capacity, status, files, written, unnoticed, faults>>

Downloading == step \in {"download 0", "download 1"}

(* The transfer fails or times out, or a chunk finds no memory.  The part  *)
(* that was received is freed.                                             *)
DownloadFails ==
  /\ Downloading
  /\ Fault
  /\ heap' = heap \ {"buffer"}
  /\ step' = "returned"
  /\ UNCHANGED <<page, todo, lists, capacity, status, files, written, unnoticed>>

(* The transfer ends without a byte: there is no buffer to parse. *)
EmptyDownload ==
  /\ step = "download 0"
  /\ step' = "returned"
  /\ UNCHANGED <<page, todo, lists, capacity, heap, status, files, written, unnoticed, faults>>

(* Mutant: the download is kept until the end. *)
ParsedKeepsBuffer(p) ==
  /\ step = "download 1"
  /\ page' = p
  /\ heap' = heap \cup {"document"}
  /\ step' = "collect"
  /\ UNCHANGED <<todo, lists, capacity, status, files, written, unnoticed, faults>>

(* htmlReadMemory() succeeds; the download is freed either way. *)
Parsed(p) ==
  /\ step = "download 1"
  /\ page' = p
  /\ heap' = (heap \ {"buffer"}) \cup {"document"}
  /\ step' = "collect"
  /\ UNCHANGED <<todo, lists, capacity, status, files, written, unnoticed, faults>>

Unparsable ==
  /\ step = "download 1"
  /\ heap' = heap \ {"buffer"}
  /\ step' = "returned"
  /\ UNCHANGED <<page, todo, lists, capacity, status, files, written, unnoticed, faults>>

Collecting == step = "collect" /\ todo <= Len(Items(page))

item == Items(page)[todo]

Room(l) == capacity[l] > Len(lists[l])

(* The capacity of l once there is room for one more. *)
Grown(l) ==
  IF Room(l) THEN capacity[l]
  ELSE IF capacity[l] = 0 THEN FirstCapacity ELSE 2 * capacity[l]

(* realloc(), if the list is full; a list that was empty exists then. *)
Grow(l) ==
  /\ capacity' = [capacity EXCEPT ![l] = Grown(l)]
  /\ heap' = heap \cup {l}

(* Mutant: the list that grows starts anew. *)
AddToNewArray(l) ==
  /\ Collecting
  /\ item.list = l
  /\ Grow(l)
  /\ lists' = [lists EXCEPT ![l] =
                 IF Room(l) THEN Append(@, item.value) ELSE <<item.value>>]
  /\ todo' = todo + 1
  /\ UNCHANGED <<step, page, status, files, written, unnoticed, faults>>

(* Mutant: the capacity is checked after the item is stored. *)
AddThenGrow(l) ==
  /\ Collecting
  /\ item.list = l
  /\ capacity' = [capacity EXCEPT ![l] = IF @ = 0 THEN FirstCapacity ELSE @]
  /\ heap' = heap \cup {l}
  /\ lists' = [lists EXCEPT ![l] = Append(@, item.value)]
  /\ todo' = todo + 1
  /\ UNCHANGED <<step, page, status, files, written, unnoticed, faults>>

(* add_string() of the next item to its list l. *)
Add(l) ==
  /\ Collecting
  /\ item.list = l
  /\ Grow(l)
  /\ lists' = [lists EXCEPT ![l] = Append(@, item.value)]
  /\ todo' = todo + 1
  /\ UNCHANGED <<step, page, status, files, written, unnoticed, faults>>

(* realloc() fails, or strdup() after it. *)
AddFails(l) ==
  /\ Collecting
  /\ item.list = l
  /\ Fault
  /\ step' = "cleanup"
  /\ \/ ~Room(l) /\ UNCHANGED <<capacity, heap>>
     \/ Grow(l)
  /\ UNCHANGED <<page, todo, lists, status, files, written, unnoticed>>

(* No memory for the attribute, the URL or the content: read as if the     *)
(* element had none.                                                       *)
SkipItem ==
  /\ Collecting
  /\ Fault
  /\ todo' = todo + 1
  /\ unnoticed' = TRUE
  /\ UNCHANGED <<step, page, lists, capacity, heap, status, files, written>>

Sort ==
  /\ step = "collect"
  /\ todo > Len(Items(page))
  /\ \E a \in Arrangements(lists["links"]), b \in Arrangements(lists["texts"]),
        c \in Arrangements(lists["videos"]) :
       lists' = [links |-> a, texts |-> b, videos |-> c]
  /\ step' = "links"
  /\ UNCHANGED <<page, todo, capacity, heap, status, files, written, unnoticed, faults>>

After == [links |-> "texts", texts |-> "videos", videos |-> "cleanup"]

(* The three files succeeded. *)
StatusAfter(l) == status' = IF l = "videos" THEN 0 ELSE status

(* write_csv(): the file is truncated and each entry written; the results  *)
(* of fprintf() and fclose() are not looked at.                            *)
WriteCsv(l) ==
  /\ step = l
  /\ step' = After[l]
  /\ written' = written \cup {l}
  /\ StatusAfter(l)
  /\ \/ /\ files' = [files EXCEPT ![l] = lists[l]]
        /\ UNCHANGED <<unnoticed, faults>>
     \/ /\ Fault
        /\ \E part \in Prefixes(lists[l]) : files' = [files EXCEPT ![l] = part]
        /\ unnoticed' = TRUE
  /\ UNCHANGED <<page, todo, lists, capacity, heap>>

(* Mutant: a file that cannot be opened is passed over. *)
OpenPassedOver(l) ==
  /\ step = l
  /\ Fault
  /\ step' = After[l]
  /\ StatusAfter(l)
  /\ UNCHANGED <<page, todo, lists, capacity, heap, files, written, unnoticed>>

(* fopen() fails: the files after it are not tried. *)
OpenFails(l) ==
  /\ step = l
  /\ Fault
  /\ step' = "cleanup"
  /\ UNCHANGED <<page, todo, lists, capacity, heap, status, files, written, unnoticed>>

(* The label `cleanup`: the document and the lists are freed. *)
Cleanup ==
  /\ step = "cleanup"
  /\ heap' = heap \ ({"document"} \cup Lists)
  /\ step' = "returned"
  /\ UNCHANGED <<page, todo, lists, capacity, status, files, written, unnoticed, faults>>

(* The process is killed, in the middle of a file perhaps. *)
CrawlKilled ==
  /\ step \notin {"idle", "returned"}
  /\ Fault
  /\ step' = "idle"
  /\ heap' = {}
  /\ \/ UNCHANGED <<files, written>>
     \/ \E l \in Lists :
          /\ step = l
          /\ \E part \in Prefixes(lists[l]) : files' = [files EXCEPT ![l] = part]
          /\ written' = written \cup {l}
  /\ UNCHANGED <<page, todo, lists, capacity, status, unnoticed>>

Crawl ==
  \/ Chunk \/ DownloadFails \/ EmptyDownload \/ Unparsable
  \/ \E p \in Pages : Parsed(p)
  \/ SkipItem \/ Sort
  \/ \E l \in Lists : Add(l) \/ AddFails(l) \/ WriteCsv(l) \/ OpenFails(l)
  \/ Cleanup

-------------------------------------------------------------------------------
(* Properties                                                              *)

(* Types; and every entry of a list is inside the memory the list has.     *)
CrawlTypeOK ==
  /\ step \in {"idle", "download 0", "download 1", "collect", "cleanup", "returned"}
                \cup Lists
  /\ page \in Pages \cup {<<>>}
  /\ todo \in 0 .. Len(Items(page)) + 1
  /\ lists \in [Lists -> Seq(DOMAIN Key)]
  /\ capacity \in [Lists -> Nat]
  /\ \A l \in Lists : Len(lists[l]) <= capacity[l]
  /\ heap \subseteq {"buffer", "document"} \cup Lists
  /\ status \in {-1, 0}
  /\ files \in [Lists -> Seq(DOMAIN Key)]
  /\ written \subseteq Lists
  /\ unnoticed \in BOOLEAN
  /\ faults \in 0..MaxFaults

(* Whatever fails, crawl_website() returns with nothing left allocated.    *)
NoLeak == step = "returned" => heap = {}

(* When crawl_website() returns 0 and nothing failed that it does not look *)
(* for, each file holds each item of the page once for every time it is    *)
(* there, in order, however often the lists grew.                          *)
SuccessIsWholePage ==
  step = "returned" /\ status = 0 /\ ~unnoticed =>
    \A l \in Lists :
      /\ Ordered(files[l])
      /\ \A v \in DOMAIN Key :
           Times(v, files[l]) = Times([list |-> l, value |-> v], Items(page))
================================================================================
