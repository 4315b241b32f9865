----------------------------- MODULE ResolverProofs ----------------------------
(***************************************************************************)
(* Theorems about the HW2 and HW3 programs, for any replies of the         *)
(* servers, any pages, and any number of runs, failures and kills.         *)
(***************************************************************************)
EXTENDS Resolver, DataFacts

LOCAL INSTANCE SequencesExt

(* What is allocated while crawl_website() is at s. *)
Allocated(s) ==
  IF s = "download 1" THEN {"buffer"}
  ELSE IF s \in {"collect", "links", "texts", "videos", "cleanup"}
    THEN {"document", "links", "texts", "videos"}
  ELSE {}

Steps == {"idle", "download 0", "download 1", "collect", "links", "texts",
          "videos", "cleanup", "returned"}

HeapInv ==
  /\ step \in Steps
  /\ heap \subseteq Allocated(step)

LEMMA ListNames == Lists = {"links", "texts", "videos"}
BY DEF Lists

(* What the document and the lists take is what `cleanup` frees. *)
LEMMA HeapInit == Init => HeapInv
BY DEF Init, CrawlInit, HeapInv, Steps, Allocated

LEMMA CrawlHeap == ASSUME HeapInv, Crawl PROVE HeapInv'
<1> USE DEF HeapInv, Steps, Allocated
<1>1. CASE Chunk
  BY <1>1 DEF Chunk
<1>2. CASE DownloadFails
  BY <1>2 DEF DownloadFails, Downloading
<1>3. CASE EmptyDownload
  BY <1>3 DEF EmptyDownload
<1>4. CASE Unparsable
  BY <1>4 DEF Unparsable
<1>5. CASE \E p \in Pages : Parsed(p)
  BY <1>5 DEF Parsed
<1>6. CASE SkipItem
  BY <1>6 DEF SkipItem
<1>7. CASE Sort
  BY <1>7 DEF Sort
<1>8. ASSUME NEW l \in Lists, Add(l) PROVE HeapInv'
  BY <1>8, ListNames DEF Add, Collecting, Grow
<1>9. ASSUME NEW l \in Lists, AddFails(l) PROVE HeapInv'
  BY <1>9, ListNames DEF AddFails, Collecting, Grow
<1>10. ASSUME NEW l \in Lists, WriteCsv(l) PROVE HeapInv'
  <2>1. heap' = heap /\ heap \subseteq {"document", "links", "texts", "videos"}
    BY <1>10, ListNames DEF WriteCsv
  <2>2. step' \in {"texts", "videos", "cleanup"}
    <3>1. l \in {"links", "texts", "videos"} /\ step' = After[l]
      BY <1>10, ListNames DEF WriteCsv
    <3>2. After["links"] = "texts" /\ After["texts"] = "videos"
            /\ After["videos"] = "cleanup"
      BY DEF After
    <3>3. QED
      BY <3>1, <3>2
  <2>3. QED
    BY <2>1, <2>2
<1>11. ASSUME NEW l \in Lists, OpenFails(l) PROVE HeapInv'
  BY <1>11, ListNames DEF OpenFails
<1>12. CASE Cleanup
  BY <1>12, ListNames DEF Cleanup
<1>13. QED
  BY <1>1, <1>2, <1>3, <1>4, <1>5, <1>6, <1>7, <1>8, <1>9, <1>10, <1>11, <1>12
     DEF Crawl

LEMMA HeapStep == ASSUME HeapInv, [Next]_vars PROVE HeapInv'
<1> USE DEF HeapInv, Steps, Allocated
<1>1. CASE Launch
  BY <1>1 DEF Launch, crawlVars
<1>2. CASE LookStep
  BY <1>2 DEF LookStep, crawlVars
<1>3. CASE CallCrawl
  BY <1>3 DEF CallCrawl, Begin
<1>4. CASE CrawlStep
  BY <1>4, CrawlHeap DEF CrawlStep
<1>5. CASE CrawlReturned
  BY <1>5 DEF CrawlReturned
<1>6. CASE Kill
  BY <1>6 DEF Kill, CrawlKilled
<1>7. CASE UNCHANGED vars
  BY <1>7 DEF vars, crawlVars
<1>8. QED
  BY <1>1, <1>2, <1>3, <1>4, <1>5, <1>6, <1>7 DEF Next, Program

(* Whatever fails while a page is downloaded, parsed, collected and        *)
(* written, crawl_website() returns with nothing left allocated.           *)
THEOREM NoLeakHolds == Spec => []NoLeak
<1>1. HeapInv => NoLeak
  BY DEF HeapInv, Allocated, NoLeak
<1>2. QED
  BY HeapInit, HeapStep, <1>1, PTL DEF Spec

-------------------------------------------------------------------------------
(* Which files have been opened when crawl_website() is at s.              *)
Behind(s) ==
  IF s = "texts" THEN {"links"}
  ELSE IF s = "videos" THEN {"links", "texts"}
  ELSE {}

CollectedAll == todo > Len(Items(page))

(* crawl_website() is at work only when main() has called it, and what it  *)
(* returns says which files it has opened; the word "completed" comes      *)
(* after the call, and nothing is printed behind it.                       *)
CallInv ==
  /\ step \in Steps
  /\ step # "idle" => at = "crawl"
  /\ step \notin {"idle", "returned", "cleanup"} => status # 0
  /\ step \in {"cleanup", "returned"} /\ status = 0 => written = Lists
  /\ step \in {"download 0", "download 1", "collect"} => written = {}
  /\ step \in Lists => written = Behind(step) /\ CollectedAll
  /\ written # {} => CollectedAll

Texts == {"No internet connection", "Not found information", "addresses",
          "blocked", "completed", "unable"}

OutputInv ==
  /\ output \in Seq(Texts)
  /\ at # "off" => ~Printed("completed")
  /\ Printed("completed") => exit = 0 /\ status = 0 /\ written = Lists

WrittenInv == CallInv /\ OutputInv

LEMMA WrittenInit == Init => WrittenInv
BY DEF Init, CrawlInit, LookupInit, WrittenInv, CallInv, OutputInv, Steps,
       Printed, Lists

LEMMA CrawlCall ==
  ASSUME CallInv, Crawl, step # "idle", UNCHANGED at
  PROVE  CallInv'
<1> USE DEF CallInv, Steps, Behind, CollectedAll
<1>0. at = "crawl"
  OBVIOUS
<1>1. CASE Chunk
  BY <1>0, <1>1, ListNames DEF Chunk
<1>2. CASE DownloadFails
  BY <1>0, <1>2, ListNames DEF DownloadFails, Downloading
<1>3. CASE EmptyDownload
  BY <1>0, <1>3, ListNames DEF EmptyDownload
<1>4. CASE Unparsable
  BY <1>0, <1>4, ListNames DEF Unparsable
<1>5. CASE \E p \in Pages : Parsed(p)
  BY <1>0, <1>5, ListNames DEF Parsed
<1>6. CASE SkipItem
  BY <1>0, <1>6, ListNames DEF SkipItem, Collecting
<1>7. CASE Sort
  BY <1>0, <1>7, ListNames DEF Sort
<1>8. ASSUME NEW l \in Lists, Add(l) PROVE CallInv'
  BY <1>0, <1>8, ListNames DEF Add, Collecting
<1>9. ASSUME NEW l \in Lists, AddFails(l) PROVE CallInv'
  BY <1>0, <1>9, ListNames DEF AddFails, Collecting
<1>10. ASSUME NEW l \in Lists, WriteCsv(l) PROVE CallInv'
  <2>1. /\ step = l /\ step' = After[l] /\ StatusAfter(l)
        /\ written' = Behind(l) \cup {l} /\ UNCHANGED <<page, todo>>
    BY <1>10 DEF WriteCsv
  <2>2. CASE l = "links"
    BY <1>0, <2>1, <2>2, ListNames DEF After, StatusAfter
  <2>3. CASE l = "texts"
    BY <1>0, <2>1, <2>3, ListNames DEF After, StatusAfter
  <2>4. CASE l = "videos"
    BY <1>0, <2>1, <2>4, ListNames DEF After, StatusAfter
  <2>5. QED
    BY <2>2, <2>3, <2>4, ListNames
<1>11. ASSUME NEW l \in Lists, OpenFails(l) PROVE CallInv'
  BY <1>0, <1>11, ListNames DEF OpenFails
<1>12. CASE Cleanup
  BY <1>0, <1>12, ListNames DEF Cleanup
<1>13. QED
  BY <1>1, <1>2, <1>3, <1>4, <1>5, <1>6, <1>7, <1>8, <1>9, <1>10, <1>11, <1>12
     DEF Crawl

(* Every action of Crawl starts where crawl_website() is at work. *)
LEMMA CrawlAtWork == ASSUME Crawl PROVE step # "idle"
BY ListNames
   DEF Crawl, Chunk, DownloadFails, Downloading, EmptyDownload, Unparsable,
       Parsed, SkipItem, Collecting, Sort, Add, AddFails, WriteCsv, OpenFails, Cleanup

(* What Append leaves of the question whether a text was printed. *)
LEMMA PrintedAfter ==
  ASSUME output \in Seq(Texts), NEW t \in Texts, output' = Append(output, t)
  PROVE  /\ output' \in Seq(Texts)
         /\ \A u \in Texts : Printed(u)' => Printed(u) \/ u = t
<1>1. output' \in Seq(Texts) /\ Len(output') = Len(output) + 1
  OBVIOUS
<1>2. ASSUME NEW u \in Texts, NEW i \in DOMAIN output', output'[i] = u, u # t
      PROVE  \E j \in DOMAIN output : output[j] = u
  <2>1. i \in 1 .. Len(output) /\ output'[i] = output[i]
    BY <1>2
  <2>2. QED
    BY <1>2, <2>1
<1>3. QED
  BY <1>1, <1>2 DEF Printed

LEMMA LookCall ==
  ASSUME CallInv, Look, UNCHANGED crawlVars
  PROVE  CallInv'
<1>1. step = "idle"
  BY DEF CallInv, Look, Ask, FilterAnswers, Conclude, FilterSilent
<1>2. QED
  BY <1>1, ListNames DEF CallInv, crawlVars, CollectedAll, Behind, Steps

(* main() prints one text before the call, and none of them is the last. *)
LEMMA LookOutput ==
  ASSUME OutputInv, Look, UNCHANGED crawlVars
  PROVE  OutputInv'
<1>1. ~Printed("completed")
  BY DEF OutputInv, Look, Ask, FilterAnswers, Conclude, FilterSilent
<1>2. ASSUME UNCHANGED output PROVE OutputInv'
  BY <1>1, <1>2 DEF OutputInv, Printed
<1>3. ASSUME NEW t \in Texts \ {"completed"}, output' = Append(output, t)
      PROVE  OutputInv'
  <2>1. output' \in Seq(Texts) /\ ~Printed("completed")'
    <3>1. output \in Seq(Texts) /\ "completed" \in Texts
      BY DEF OutputInv, Texts
    <3>2. QED
      BY <1>1, <1>3, <3>1, PrintedAfter
  <2>2. QED
    BY <2>1 DEF OutputInv
<1>4. CASE \E r \in Replies : Ask(r)
  BY <1>2, <1>4 DEF Ask
<1>5. CASE \E r \in Replies : FilterAnswers(r)
  BY <1>2, <1>3, <1>5 DEF FilterAnswers, Finish, Pass, Texts
<1>6. CASE Conclude
  BY <1>2, <1>3, <1>6 DEF Conclude, Finish, Texts
<1>7. CASE FilterSilent
  BY <1>2, <1>3, <1>7 DEF FilterSilent, Finish, Pass, Texts
<1>8. QED
  BY <1>4, <1>5, <1>6, <1>7 DEF Look

LEMMA ReturnStep ==
  ASSUME WrittenInv, CrawlReturned
  PROVE  WrittenInv'
<1>1. /\ step = "returned" /\ at = "crawl" /\ step' = "idle" /\ at' = "off"
      /\ UNCHANGED <<page, todo, status, written>>
  BY DEF WrittenInv, CallInv, CrawlReturned, ExitWithStatus, Finish
<1>2. CallInv'
  BY <1>1, ListNames DEF WrittenInv, CallInv, CollectedAll, Behind, Steps
<1>3. CASE status = 0
  <2>1. exit' = 0 /\ output' = Append(output, "completed")
    BY <1>3 DEF CrawlReturned, ExitWithStatus, Finish
  <2>2. QED
    BY <1>1, <1>2, <1>3, <2>1, PrintedAfter
       DEF WrittenInv, CallInv, OutputInv, Texts
<1>4. CASE status # 0
  <2>1. output' = Append(output, "unable")
    BY <1>4 DEF CrawlReturned, ExitWithStatus, Finish
  <2>2. output' \in Seq(Texts) /\ ~Printed("completed")'
    BY <1>1, <2>1, PrintedAfter DEF WrittenInv, CallInv, OutputInv, Texts
  <2>3. QED
    BY <1>1, <1>2, <2>2 DEF WrittenInv, OutputInv
<1>5. QED
  BY <1>3, <1>4

LEMMA KillStep == ASSUME WrittenInv, Kill PROVE WrittenInv'
<1>1. /\ step \notin {"idle", "returned"} /\ step' = "idle" /\ at' = "off"
      /\ UNCHANGED <<page, todo, status, output, exit>>
      /\ written' # written => step \in Lists
  BY DEF Kill, CrawlKilled
<1>2. CallInv'
  BY <1>1, ListNames DEF WrittenInv, CallInv, CollectedAll, Behind, Steps
<1>3. ~Printed("completed")
  BY <1>1 DEF WrittenInv, CallInv, OutputInv
<1>4. QED
  BY <1>1, <1>2, <1>3 DEF WrittenInv, OutputInv, Printed

LEMMA WrittenStep == ASSUME WrittenInv, [Next]_vars PROVE WrittenInv'
<1>1. CASE Launch
  <2>1. /\ at = "off" /\ at' = "resolve" /\ output' = <<>>
        /\ UNCHANGED <<step, status, written, page, todo>>
    BY <1>1 DEF Launch, Run, crawlVars
  <2>2. CallInv'
    BY <2>1, ListNames DEF WrittenInv, CallInv, CollectedAll, Behind, Steps
  <2>3. QED
    BY <2>1, <2>2 DEF WrittenInv, OutputInv, Printed
<1>2. CASE LookStep
  BY <1>2, LookCall, LookOutput DEF LookStep, WrittenInv
<1>3. CASE CallCrawl
  <2>1. /\ at = "crawl" /\ step' \in {"download 0", "returned"} /\ status' = -1
        /\ written' = {} /\ UNCHANGED <<at, output, exit>>
    BY <1>3 DEF CallCrawl, Begin, lookupVars
  <2>2. -1 # 0
    OBVIOUS
  <2>3. QED
    BY <2>1, <2>2, ListNames
       DEF WrittenInv, CallInv, OutputInv, Printed, Steps, CollectedAll, Behind
<1>4. CASE CrawlStep
  <2>1. UNCHANGED <<at, output, exit>>
    BY <1>4 DEF CrawlStep, lookupVars
  <2>2. CallInv' /\ step # "idle"
    BY <1>4, <2>1, CrawlCall, CrawlAtWork DEF CrawlStep, WrittenInv
  <2>3. QED
    BY <2>1, <2>2 DEF WrittenInv, CallInv, OutputInv, Printed
<1>5. CASE CrawlReturned
  BY <1>5, ReturnStep
<1>6. CASE Kill
  BY <1>6, KillStep
<1>7. CASE UNCHANGED vars
  BY <1>7
     DEF vars, lookupVars, crawlVars, WrittenInv, CallInv, OutputInv, Printed,
         CollectedAll
<1>8. QED
  BY <1>1, <1>2, <1>3, <1>4, <1>5, <1>6, <1>7 DEF Next, Program

(* "Crawl completed" is printed, with the exit status 0, only when every   *)
(* file was opened in this run; a page that could not be collected to its  *)
(* end leaves the files of an earlier run as they are.                     *)
THEOREM CompletedIsWrittenHolds == Spec => []CompletedIsWritten
<1>1. WrittenInv => CompletedIsWritten
  BY DEF WrittenInv, CallInv, OutputInv, CollectedAll, CompletedIsWritten
<1>2. QED
  BY WrittenInit, WrittenStep, <1>1, PTL DEF Spec
-------------------------------------------------------------------------------
(* What a page holds                                                       *)

PageItem == [list : Lists, value : DOMAIN Key]

LEMMA ItemsOfType == ASSUME NEW e \in Element PROVE ItemsOf(e) \in Seq(PageItem)
<1>1. ASSUME NEW l \in Lists, NEW v \in DOMAIN Key \cup {None}
      PROVE  Item(l, v) \in Seq(PageItem)
  <2>1. CASE v = None
    BY <2>1, EmptySeq DEF Item
  <2>2. CASE v # None
    <3>1. [list |-> l, value |-> v] \in PageItem
      BY <2>2 DEF PageItem
    <3>2. QED
      BY <2>2, <3>1 DEF Item
  <2>3. QED
    BY <2>1, <2>2
<1>2. "links" \in Lists /\ "videos" \in Lists /\ "texts" \in Lists
  BY ListNames
<1>3. /\ e.url \in DOMAIN Key \cup {None} /\ e.text \in DOMAIN Key \cup {None}
  BY DEF Element
<1>4. /\ Item("links", e.url) \in Seq(PageItem)
      /\ Item("videos", e.url) \in Seq(PageItem)
      /\ Item("texts", e.text) \in Seq(PageItem)
      /\ <<>> \in Seq(PageItem)
  BY <1>1, <1>2, <1>3
<1>5. QED
  BY <1>4, ConcatProperties DEF ItemsOf

LEMMA ItemsType == ASSUME NEW p \in Pages \cup {<<>>} PROVE Items(p) \in Seq(PageItem)
<1> DEFINE N == Len(p)
           S == Seq(PageItem)
           Extended(s, n) == s \o ItemsOf(p[n])
           Body(g) == [n \in 0..N |-> IF n = 0 THEN <<>> ELSE Extended(g[n - 1], n)]
           f == CHOOSE g : g = Body(g)
<1>1. p \in Seq(Element) /\ N \in Nat
  <2>1. CASE p \in Pages
    BY <2>1, PagesAssumption
  <2>2. CASE p = <<>>
    BY <2>2, EmptySeq
  <2>3. QED
    BY <2>1, <2>2
<1>2. <<>> \in S
  BY EmptySeq
<1>3. \A s \in S, n \in 1..N : Extended(s, n) \in S
  BY <1>1, ItemsOfType, ConcatProperties
<1>4. Items(p) = f[N]
  BY DEF Items
<1> HIDE DEF N, S, Extended
<1>5. \E g : g = Body(g)
  <2> DEFINE next == [n \in Nat |-> [s \in S |-> IF n \in 1..N THEN Extended(s, n) ELSE s]]
  <2>1. next \in [Nat -> [S -> S]]
    BY <1>3
  <2>2. \A s \in S, n \in 1..N : next[n][s] = Extended(s, n)
    BY <1>1
  <2> HIDE DEF next
  <2>3. PICK g \in [0..N -> S] : Unfolds(g, <<>>, next, N)
    BY <1>1, <1>2, <2>1, Recursion
  <2>4. ASSUME NEW n \in 1..N PROVE g[n] = Extended(g[n - 1], n)
    <3>1. n - 1 \in 0..N
      BY <1>1
    <3>2. QED
      BY <2>2, <2>3, <3>1 DEF Unfolds
  <2>5. ASSUME NEW n \in 0..N PROVE g[n] = IF n = 0 THEN <<>> ELSE Extended(g[n - 1], n)
    BY <1>1, <2>3, <2>4 DEF Unfolds
  <2>6. g = Body(g)
    BY <2>3, <2>5
  <2>7. QED
    BY <2>6
<1>6. f = Body(f)
  BY <1>5
<1> HIDE DEF f
<1>7. \A n \in 0..N : f[n] = Body(f)[n]
  BY <1>6, Zenon
<1>8. \A n \in 0..N : f[n] = IF n = 0 THEN <<>> ELSE Extended(f[n - 1], n)
  BY <1>7
<1> DEFINE R == {n \in 0..N : f[n] \in S}
<1>9. 0 \in R
  BY <1>1, <1>2, <1>8
<1>10. ASSUME NEW n \in 1..N, n - 1 \in R PROVE n \in R
  <2>1. n \in 0..N /\ f[n] = Extended(f[n - 1], n)
    BY <1>1, <1>8
  <2>2. QED
    BY <1>3, <1>10, <2>1
<1> HIDE DEF R
<1>11. \A n \in 0..N : n \in R
  BY <1>1, <1>9, <1>10, InductionTo
<1>12. QED
  BY <1>1, <1>4, <1>11 DEF R, S

-------------------------------------------------------------------------------
(* How often a value is in a list                                          *)

LEMMA TimesCount ==
  ASSUME NEW T, NEW s \in Seq(T), NEW v
  PROVE  Times(v, s) = CountTo(s, v, Len(s))
<1>1. DOMAIN s = 1..Len(s)
  OBVIOUS
<1>2. QED
  BY <1>1 DEF Times, CountTo

LEMMA TimesAppend ==
  ASSUME NEW T, NEW s \in Seq(T), NEW x \in T, NEW v
  PROVE  Times(v, Append(s, x)) = IF x = v THEN Times(v, s) + 1 ELSE Times(v, s)
<1> DEFINE q == Append(s, x)
           n == Len(s)
<1>1. /\ q \in Seq(T) /\ Len(q) = n + 1 /\ n \in Nat
      /\ \A i \in 1..n : q[i] = s[i]
      /\ q[n + 1] = x
  BY AppendProperties
<1> HIDE DEF q, n
<1>2. Times(v, q) = CountTo(q, v, n + 1)
  BY <1>1, TimesCount
<1>3. CountTo(q, v, n) = CountTo(s, v, n)
  <2>1. {i \in 1..n : q[i] = v} = {i \in 1..n : s[i] = v}
    BY <1>1
  <2>2. QED
    BY <2>1 DEF CountTo
<1>4. Times(v, s) = CountTo(s, v, n)
  BY TimesCount DEF n
<1>5. CountTo(q, v, n + 1) =
        IF q[n + 1] = v THEN CountTo(q, v, n) + 1 ELSE CountTo(q, v, n)
  BY <1>1, CountNext
<1>6. QED
  BY <1>1, <1>2, <1>3, <1>4, <1>5 DEF q

(* Sorting keeps the length, and each value as often as it was there.      *)
LEMMA Arranged ==
  ASSUME NEW T, NEW s \in Seq(T), NEW t \in Arrangements(s)
  PROVE  /\ t \in Seq(T) /\ Len(t) = Len(s) /\ Ordered(t)
         /\ \A v : Times(v, t) = Times(v, s)
<1>1. /\ t \in [1..Len(s) -> {s[i] : i \in 1..Len(s)}]
      /\ Ordered(t)
      /\ \A v \in {s[i] : i \in 1..Len(s)} : Times(v, t) = Times(v, s)
      /\ DOMAIN s = 1..Len(s)
  BY DEF Arrangements, ToSet
<1>2. Len(s) \in Nat
  OBVIOUS
<1>3. t \in Seq(T) /\ Len(t) = Len(s)
  BY <1>1, <1>2
<1>4. ASSUME NEW v, v \notin {s[i] : i \in 1..Len(s)}
      PROVE  Times(v, t) = Times(v, s)
  <2>1. /\ {i \in DOMAIN t : t[i] = v} = {}
        /\ {i \in DOMAIN s : s[i] = v} = {}
    BY <1>1, <1>4
  <2>2. QED
    BY <2>1 DEF Times
<1>5. QED
  BY <1>1, <1>3, <1>4

-------------------------------------------------------------------------------
(* A crawl from its start to its end                                       *)

(* The items n of the page that are the value v of the list l.             *)
Amount(l, v, n) == CountTo(Items(page), [list |-> l, value |-> v], n)

(* The lists hold the first n items. *)
Collected(n) ==
  \A l \in Lists, v \in DOMAIN Key : Times(v, lists[l]) = Amount(l, v, n)

Sorted == \A l \in Lists : Ordered(lists[l])

AllWritten ==
  \A l \in Lists :
    /\ Ordered(files[l])
    /\ \A v \in DOMAIN Key : Times(v, files[l]) = Amount(l, v, Len(Items(page)))

(* Which item of the page is next, before and during the walk.             *)
AtItem ==
  /\ step \in {"download 0", "download 1"} => todo = 1
  /\ step = "collect" => todo # 0

PageInv ==
  /\ CrawlTypeOK
  /\ AtItem
  /\ step \in {"download 0", "download 1"} => lists = EmptyLists
  /\ step = "collect" /\ ~unnoticed => Collected(todo - 1)
  /\ step \in Lists => Sorted /\ (~unnoticed => Collected(Len(Items(page))))
  /\ step \in Lists /\ ~unnoticed => \A l \in written : files[l] = lists[l]
  /\ step \in {"cleanup", "returned"} /\ status = 0 /\ ~unnoticed => AllWritten

LEMMA AddCollects ==
  ASSUME PageInv, NEW l \in Lists, Add(l)
  PROVE  ~unnoticed' => Collected(todo - 1)'
<1> DEFINE n == todo - 1
           items == Items(page)
<1>1. /\ step = "collect" /\ todo \in Nat \ {0} /\ todo <= Len(items)
      /\ items \in Seq(PageItem) /\ lists \in [Lists -> Seq(DOMAIN Key)]
      /\ lists' = [lists EXCEPT ![l] = Append(@, items[todo].value)]
      /\ items[todo].list = l
      /\ todo' = todo + 1 /\ page' = page /\ unnoticed' = unnoticed
  BY ItemsType DEF Add, Collecting, item, PageInv, AtItem, CrawlTypeOK
<1>2. todo \in 1..Len(items) /\ n \in Nat /\ n + 1 = todo
  BY <1>1
<1>3. items[todo] \in PageItem
  BY <1>1, <1>2
<1>4. PICK x \in DOMAIN Key : items[todo] = [list |-> l, value |-> x]
  BY <1>1, <1>3 DEF PageItem
<1> HIDE DEF n
<1>5. SUFFICES ASSUME ~unnoticed, NEW k \in Lists, NEW v \in DOMAIN Key
               PROVE  Times(v, lists'[k]) = Amount(k, v, todo)
  <2>1. (todo - 1)' = todo /\ Items(page)' = items
    BY <1>1
  <2>2. QED
    BY <1>1, <2>1 DEF Collected, Amount
<1>6. Times(v, lists[k]) = Amount(k, v, n)
  BY <1>1, <1>5 DEF PageInv, Collected, n
<1>7. Amount(k, v, todo) =
        IF items[todo] = [list |-> k, value |-> v] THEN Amount(k, v, n) + 1
        ELSE Amount(k, v, n)
  BY <1>2, CountNext DEF Amount
<1>8. CASE k = l
  <2>1. lists'[k] = Append(lists[k], x) /\ lists[k] \in Seq(DOMAIN Key)
    BY <1>1, <1>4, <1>8
  <2>2. Times(v, lists'[k]) = IF x = v THEN Times(v, lists[k]) + 1 ELSE Times(v, lists[k])
    BY <2>1, TimesAppend
  <2>3. items[todo] = [list |-> k, value |-> v] <=> x = v
    BY <1>4, <1>8
  <2>4. QED
    BY <1>6, <1>7, <2>2, <2>3
<1>9. CASE k # l
  BY <1>1, <1>4, <1>6, <1>7, <1>9
<1>10. QED
  BY <1>8, <1>9

(* A list that grows has room for one more than it holds. *)
LEMMA GrowMakesRoom ==
  ASSUME CrawlTypeOK, NEW l \in Lists, Grow(l)
  PROVE  /\ capacity' \in [Lists -> Nat]
         /\ Len(lists[l]) + 1 <= capacity'[l]
         /\ \A k \in Lists : Len(lists[k]) <= capacity'[k]
<1>1. /\ capacity[l] \in Nat /\ Len(lists[l]) \in Nat /\ Len(lists[l]) <= capacity[l]
      /\ FirstCapacity \in Nat \ {0}
  <2>1. lists[l] \in Seq(DOMAIN Key) /\ capacity[l] \in Nat
    BY DEF CrawlTypeOK
  <2>2. Len(lists[l]) \in Nat
    BY <2>1
  <2>3. QED
    BY <2>1, <2>2, PagesAssumption DEF CrawlTypeOK
<1>2. Grown(l) \in Nat /\ Len(lists[l]) + 1 <= Grown(l)
  BY <1>1 DEF Grown, Room
<1>3. /\ capacity' = [capacity EXCEPT ![l] = Grown(l)]
      /\ capacity \in [Lists -> Nat]
      /\ \A k \in Lists : Len(lists[k]) <= capacity[k]
  BY DEF Grow, CrawlTypeOK
<1> HIDE DEF Grown
<1>4. capacity' \in [Lists -> Nat] /\ capacity'[l] = Grown(l)
  BY <1>2, <1>3
<1>5. \A k \in Lists : Len(lists[k]) <= capacity'[k]
  BY <1>1, <1>2, <1>3
<1>6. QED
  BY <1>2, <1>4, <1>5

LEMMA PrefixType ==
  ASSUME NEW T, NEW s \in Seq(T), NEW t \in Prefixes(s)
  PROVE  t \in Seq(T)
<1>1. PICK n \in 0..Len(s) : t = SubSeq(s, 1, n)
  BY DEF Prefixes
<1>2. QED
  BY <1>1, SubSeqProperties

(* Every step of the crawl keeps the types, and a list within its memory.  *)
LEMMA CrawlTypes ==
  ASSUME CrawlTypeOK, Crawl, AtItem
  PROVE  CrawlTypeOK'
<1>0. /\ Items(page) \in Seq(PageItem) /\ Len(Items(page)) \in Nat
      /\ todo \in 0 .. Len(Items(page)) + 1
  <2>1. page \in Pages \cup {<<>>} /\ todo \in 0 .. Len(Items(page)) + 1
    BY DEF CrawlTypeOK
  <2>2. Items(page) \in Seq(PageItem)
    BY <2>1, ItemsType
  <2>3. QED
    BY <2>1, <2>2
<1>p. ASSUME NEW p \in Pages PROVE Len(Items(p)) \in Nat
  <2>1. Items(p) \in Seq(PageItem)
    BY ItemsType
  <2>2. QED
    BY <2>1
<1>f. ASSUME Fault PROVE faults' \in 0..MaxFaults
  <2>1. MaxFaults \in Nat /\ faults \in 0..MaxFaults
    BY PagesAssumption DEF CrawlTypeOK
  <2>2. QED
    BY <1>f, <2>1 DEF Fault
<1>1. CASE Chunk
  BY <1>1 DEF Chunk, CrawlTypeOK
<1>2. CASE DownloadFails
  BY <1>f, <1>2 DEF DownloadFails, Downloading, CrawlTypeOK
<1>3. CASE EmptyDownload
  BY <1>3 DEF EmptyDownload, CrawlTypeOK
<1>4. CASE Unparsable
  BY <1>4 DEF Unparsable, CrawlTypeOK
<1>5. ASSUME NEW p \in Pages, Parsed(p) PROVE CrawlTypeOK'
  <2>1. todo' = 1 /\ page' = p /\ Len(Items(p)) \in Nat
    BY <1>p, <1>5 DEF Parsed, AtItem
  <2>2. QED
    <3>1. todo' \in 0 .. Len(Items(page')) + 1
      BY <2>1
    <3>2. QED
      BY <1>5, <3>1 DEF Parsed, CrawlTypeOK
<1>6. CASE SkipItem
  <2>1. todo' \in 0 .. Len(Items(page')) + 1
    BY <1>0, <1>6 DEF SkipItem, Collecting
  <2>2. QED
    BY <1>f, <1>6, <2>1 DEF SkipItem, CrawlTypeOK
<1>7. CASE Sort
  <2>1. PICK a \in Arrangements(lists["links"]), b \in Arrangements(lists["texts"]),
             c \in Arrangements(lists["videos"]) :
          lists' = [links |-> a, texts |-> b, videos |-> c]
    BY <1>7 DEF Sort
  <2>2. \A l \in Lists : lists[l] \in Seq(DOMAIN Key)
    BY DEF CrawlTypeOK
  <2>3. /\ a \in Seq(DOMAIN Key) /\ Len(a) = Len(lists["links"])
        /\ b \in Seq(DOMAIN Key) /\ Len(b) = Len(lists["texts"])
        /\ c \in Seq(DOMAIN Key) /\ Len(c) = Len(lists["videos"])
    BY <2>2, ListNames, Arranged
  <2> DEFINE ls == [links |-> a, texts |-> b, videos |-> c]
  <2>4. ls \in [Lists -> Seq(DOMAIN Key)] /\ \A l \in Lists : Len(ls[l]) = Len(lists[l])
    <3>1. /\ ls = [l \in {"links", "texts", "videos"} |-> ls[l]]
          /\ ls["links"] = a /\ ls["texts"] = b /\ ls["videos"] = c
      OBVIOUS
    <3> HIDE DEF ls
    <3>2. \A l \in Lists : ls[l] \in Seq(DOMAIN Key) /\ Len(ls[l]) = Len(lists[l])
      BY <2>3, <3>1, ListNames
    <3>3. QED
      BY <3>1, <3>2, ListNames
  <2> HIDE DEF ls
  <2>5. lists' = ls
    BY <2>1 DEF ls
  <2>6. QED
    BY <1>7, <2>4, <2>5, ListNames DEF Sort, CrawlTypeOK
<1>8. ASSUME NEW l \in Lists, Add(l) PROVE CrawlTypeOK'
  <2>1. /\ Collecting /\ item.list = l /\ Grow(l)
        /\ lists' = [lists EXCEPT ![l] = Append(@, item.value)]
        /\ todo' = todo + 1
        /\ UNCHANGED <<step, page, status, files, written, unnoticed, faults>>
    BY <1>8 DEF Add
  <2>2. todo \in 1..Len(Items(page))
    BY <1>0, <2>1 DEF Collecting, AtItem
  <2>3. item \in PageItem
    BY <1>0, <2>2 DEF item
  <2>4. item.value \in DOMAIN Key
    BY <2>3 DEF PageItem
  <2> HIDE DEF item
  <2>5. /\ lists[l] \in Seq(DOMAIN Key) /\ lists \in [Lists -> Seq(DOMAIN Key)]
        /\ lists'[l] = Append(lists[l], item.value)
        /\ \A k \in Lists : k # l => lists'[k] = lists[k]
    BY <2>1 DEF CrawlTypeOK
  <2>6. lists'[l] \in Seq(DOMAIN Key) /\ Len(lists'[l]) = Len(lists[l]) + 1
    BY <2>4, <2>5, AppendProperties
  <2>7. lists' \in [Lists -> Seq(DOMAIN Key)]
    BY <2>1, <2>5, <2>6
  <2>8. /\ capacity' \in [Lists -> Nat]
        /\ \A k \in Lists : Len(lists'[k]) <= capacity'[k]
    BY <2>1, <2>5, <2>6, GrowMakesRoom
  <2>9. todo' \in 0 .. Len(Items(page')) + 1
    BY <1>0, <2>1, <2>2
  <2>10. heap' \subseteq {"buffer", "document"} \cup Lists
    BY <2>1 DEF Grow, CrawlTypeOK
  <2>11. QED
    BY <2>1, <2>7, <2>8, <2>9, <2>10 DEF CrawlTypeOK
<1>9. ASSUME NEW l \in Lists, AddFails(l) PROVE CrawlTypeOK'
  <2>1. CASE ~Room(l) /\ UNCHANGED <<capacity, heap>>
    BY <1>f, <1>9, <2>1 DEF AddFails, CrawlTypeOK
  <2>2. CASE Grow(l)
    <3>1. heap' \subseteq {"buffer", "document"} \cup Lists
      BY <2>2 DEF Grow, CrawlTypeOK
    <3>2. QED
      BY <1>f, <1>9, <2>2, <3>1, GrowMakesRoom DEF AddFails, CrawlTypeOK
  <2>3. QED
    BY <1>9, <2>1, <2>2 DEF AddFails
<1>10. ASSUME NEW l \in Lists, WriteCsv(l) PROVE CrawlTypeOK'
  <2>1. /\ step' = After[l] /\ written' = written \cup {l} /\ StatusAfter(l)
        /\ UNCHANGED <<page, todo, lists, capacity, heap>>
    BY <1>10 DEF WriteCsv
  <2>2. step' \in {"texts", "videos", "cleanup"}
    BY <2>1, ListNames DEF After
  <2>3. status' \in {-1, 0}
    BY <2>1 DEF StatusAfter, CrawlTypeOK
  <2>4. /\ files' \in [Lists -> Seq(DOMAIN Key)]
        /\ unnoticed' \in BOOLEAN /\ faults' \in 0..MaxFaults
    <3>0. lists[l] \in Seq(DOMAIN Key) /\ files \in [Lists -> Seq(DOMAIN Key)]
      BY DEF CrawlTypeOK
    <3>1. CASE files' = [files EXCEPT ![l] = lists[l]] /\ UNCHANGED <<unnoticed, faults>>
      BY <3>0, <3>1 DEF CrawlTypeOK
    <3>2. ASSUME NEW part \in Prefixes(lists[l]), files' = [files EXCEPT ![l] = part],
                 Fault, unnoticed' = TRUE
          PROVE  /\ files' \in [Lists -> Seq(DOMAIN Key)]
                 /\ unnoticed' \in BOOLEAN /\ faults' \in 0..MaxFaults
      <4>1. part \in Seq(DOMAIN Key)
        BY <3>0, PrefixType
      <4>2. QED
        BY <1>f, <3>0, <3>2, <4>1
    <3>3. QED
      BY <1>10, <3>1, <3>2 DEF WriteCsv
  <2>5. QED
    BY <2>1, <2>2, <2>3, <2>4, ListNames DEF CrawlTypeOK
<1>11. ASSUME NEW l \in Lists, OpenFails(l) PROVE CrawlTypeOK'
  <2>1. step' \in {"cleanup"}
    BY <1>11 DEF OpenFails
  <2>2. QED
    BY <1>f, <1>11, <2>1 DEF OpenFails, CrawlTypeOK
<1>12. CASE Cleanup
  BY <1>12 DEF Cleanup, CrawlTypeOK
<1>13. QED
  BY <1>1, <1>2, <1>3, <1>4, <1>5, <1>6, <1>7, <1>8, <1>9, <1>10, <1>11, <1>12
     DEF Crawl

LEMMA WriteKeepsPage ==
  ASSUME PageInv, CallInv, NEW l \in Lists, WriteCsv(l), CrawlTypeOK'
  PROVE  PageInv'
<1>1. /\ step = l /\ step' = After[l] /\ StatusAfter(l)
      /\ written = Behind(l) /\ written' = Behind(l) \cup {l} /\ status # 0
      /\ UNCHANGED <<page, todo, lists>>
      /\ Sorted /\ (~unnoticed => Collected(Len(Items(page))))
      /\ ~unnoticed => \A k \in written : files[k] = lists[k]
      /\ files \in [Lists -> Seq(DOMAIN Key)]
  BY ListNames DEF WriteCsv, CallInv, PageInv, CrawlTypeOK
<1>2. ASSUME ~unnoticed'
      PROVE  ~unnoticed /\ files' = [files EXCEPT ![l] = lists[l]]
  BY <1>2 DEF WriteCsv
<1>3. ASSUME ~unnoticed' PROVE \A k \in written' : files'[k] = lists'[k]
  <2>1. /\ files' = [files EXCEPT ![l] = lists[l]] /\ files \in [Lists -> Seq(DOMAIN Key)]
        /\ \A k \in written : files[k] = lists[k]
    BY <1>1, <1>2, <1>3
  <2>2. written \subseteq Lists /\ written' = written \cup {l} /\ lists' = lists
    BY <1>1 DEF PageInv, CrawlTypeOK
  <2>3. ASSUME NEW k \in Lists, k \in written' PROVE files'[k] = lists'[k]
    <3>1. CASE k = l
      BY <2>1, <2>2, <3>1
    <3>2. CASE k # l
      BY <2>1, <2>2, <2>3, <3>2
    <3>3. QED
      BY <3>1, <3>2
  <2>4. QED
    BY <2>2, <2>3
<1>4. Sorted' /\ (~unnoticed' => Collected(Len(Items(page)))')
  BY <1>1, <1>2 DEF Sorted, Collected, Amount
<1>5. CASE l \in {"links", "texts"}
  <2>1. step' \in {"texts", "videos"} /\ status' = status
    BY <1>1, <1>5 DEF After, StatusAfter
  <2>2. QED
    BY <1>3, <1>4, <2>1 DEF PageInv, AtItem
<1>6. CASE l = "videos"
  <2>1. step' = "cleanup" /\ written' = Lists
    BY <1>1, <1>6, ListNames DEF After, Behind
  <2>2. ASSUME ~unnoticed' PROVE AllWritten'
    BY <1>3, <1>4, <2>1, <2>2 DEF AllWritten, Sorted, Collected
  <2>3. QED
    BY <2>1, <2>2, ListNames DEF PageInv, AtItem
<1>7. QED
  BY <1>5, <1>6, ListNames

LEMMA SortKeepsPage ==
  ASSUME PageInv, CallInv, Sort, CrawlTypeOK'
  PROVE  PageInv'
<1>1. /\ step = "collect" /\ step' = "links" /\ written = {}
      /\ UNCHANGED <<page, todo, written, unnoticed>>
      /\ todo > Len(Items(page)) /\ todo \in 0 .. Len(Items(page)) + 1
      /\ lists \in [Lists -> Seq(DOMAIN Key)]
      /\ ~unnoticed => Collected(todo - 1)
  BY DEF Sort, CallInv, PageInv, CrawlTypeOK
<1>2. Items(page) \in Seq(PageItem) /\ Len(Items(page)) \in Nat
  <2>1. page \in Pages \cup {<<>>}
    BY DEF PageInv, CrawlTypeOK
  <2>2. Items(page) \in Seq(PageItem)
    BY <2>1, ItemsType
  <2>3. QED
    BY <2>2, LenProperties
<1>3. todo - 1 = Len(Items(page))
  BY <1>1, <1>2
<1>4. PICK a \in Arrangements(lists["links"]), b \in Arrangements(lists["texts"]),
           c \in Arrangements(lists["videos"]) :
        lists' = [links |-> a, texts |-> b, videos |-> c]
  BY DEF Sort
<1>5. \A l \in Lists : lists[l] \in Seq(DOMAIN Key) /\ lists'[l] \in Arrangements(lists[l])
  BY <1>1, <1>4, ListNames
<1>6. ASSUME NEW l \in Lists
      PROVE  Ordered(lists'[l]) /\ \A v : Times(v, lists'[l]) = Times(v, lists[l])
  BY <1>5, Arranged
<1>7. Sorted'
  BY <1>6 DEF Sorted, Ordered
<1>8. ASSUME ~unnoticed PROVE Collected(Len(Items(page)))'
  BY <1>1, <1>3, <1>6, <1>8 DEF Collected, Amount
<1>9. QED
  BY <1>1, <1>7, <1>8, ListNames DEF PageInv, AtItem

LEMMA CrawlPage ==
  ASSUME PageInv, CallInv, Crawl
  PROVE  PageInv'
<1>t. CrawlTypeOK'
  BY CrawlTypes DEF PageInv
<1> USE DEF AtItem
<1>1. CASE Chunk
  BY <1>t, <1>1, ListNames DEF Chunk, PageInv
<1>2. CASE DownloadFails
  BY <1>t, <1>2, ListNames DEF DownloadFails, Downloading, PageInv, CallInv
<1>3. CASE EmptyDownload
  BY <1>t, <1>3, ListNames DEF EmptyDownload, PageInv, CallInv
<1>4. CASE Unparsable
  BY <1>t, <1>4, ListNames DEF Unparsable, PageInv, CallInv
<1>5. ASSUME NEW p \in Pages, Parsed(p) PROVE PageInv'
  <2>1. /\ step = "download 1" /\ lists' = EmptyLists /\ todo' = 1 /\ step' = "collect"
    BY <1>5 DEF Parsed, PageInv
  <2>2. Collected(todo - 1)'
    <3>a. todo' = 1 /\ \A l \in Lists : lists'[l] = <<>>
      BY <2>1 DEF EmptyLists
    <3>1. todo' - 1 = 0
      BY <3>a
    <3>2. \A l \in Lists, v \in DOMAIN Key : Times(v, lists'[l]) = Cardinality({})
      <4>1. \A v : {i \in DOMAIN <<>> : <<>>[i] = v} = {}
        OBVIOUS
      <4>2. \A v : Times(v, <<>>) = Cardinality({})
        BY <4>1 DEF Times
      <4>3. QED
        BY <3>a, <4>2
    <3>3. \A l \in Lists, v \in DOMAIN Key : Amount(l, v, 0)' = Cardinality({})
      <4>1. 1..0 = {}
        OBVIOUS
      <4>2. QED
        BY <4>1 DEF Amount, CountTo
    <3>4. QED
      BY <3>1, <3>2, <3>3 DEF Collected, Amount
  <2>3. step' = "collect" /\ todo' # 0
    <3>1. todo' = 1
      BY <2>1
    <3>2. todo' # 0
      BY <3>1
    <3>3. QED
      BY <2>1, <3>2
  <2>4. QED
    BY <1>t, <2>2, <2>3, ListNames DEF PageInv
<1>6. CASE SkipItem
  BY <1>t, <1>6, ListNames DEF SkipItem, Collecting, PageInv, CrawlTypeOK
<1>7. CASE Sort
  BY <1>t, <1>7, SortKeepsPage
<1>8. ASSUME NEW l \in Lists, Add(l) PROVE PageInv'
  <2>1. step = "collect" /\ step' = "collect" /\ todo' = todo + 1
    BY <1>8 DEF Add, Collecting
  <2>2. ~unnoticed' => Collected(todo - 1)'
    BY <1>8, AddCollects
  <2>3. todo' # 0
    BY <2>1 DEF PageInv, CrawlTypeOK
  <2>4. QED
    BY <1>t, <2>1, <2>2, <2>3, ListNames DEF PageInv
<1>9. ASSUME NEW l \in Lists, AddFails(l) PROVE PageInv'
  BY <1>t, <1>9, ListNames DEF AddFails, Collecting, PageInv, CallInv
<1>10. ASSUME NEW l \in Lists, WriteCsv(l) PROVE PageInv'
  BY <1>t, <1>10, WriteKeepsPage
<1>11. ASSUME NEW l \in Lists, OpenFails(l) PROVE PageInv'
  BY <1>t, <1>11, ListNames DEF OpenFails, PageInv, CallInv
<1>12. CASE Cleanup
  BY <1>t, <1>12, ListNames DEF Cleanup, PageInv, AllWritten, Amount
<1>13. QED
  BY <1>1, <1>2, <1>3, <1>4, <1>5, <1>6, <1>7, <1>8, <1>9, <1>10, <1>11, <1>12
     DEF Crawl

LEMMA PageInit == Init => PageInv
<1> SUFFICES ASSUME Init PROVE PageInv
  OBVIOUS
<1>1. /\ step = "idle" /\ page = <<>> /\ todo = 0 /\ lists = EmptyLists
      /\ capacity = NoCapacity /\ heap = {} /\ status = -1 /\ files = EmptyLists
      /\ written = {} /\ unnoticed = FALSE /\ faults = 0
  BY DEF Init, CrawlInit
<1>2. Items(page) \in Seq(PageItem)
  BY <1>1, ItemsType
<1>3. todo \in 0 .. Len(Items(page)) + 1
  BY <1>1, <1>2, LenProperties
<1>4. /\ EmptyLists \in [Lists -> Seq(DOMAIN Key)] /\ NoCapacity \in [Lists -> Nat]
      /\ \A l \in Lists : Len(EmptyLists[l]) <= NoCapacity[l]
  BY EmptySeq DEF EmptyLists, NoCapacity
<1>5. CrawlTypeOK
  <2>1. /\ lists \in [Lists -> Seq(DOMAIN Key)] /\ files \in [Lists -> Seq(DOMAIN Key)]
        /\ capacity \in [Lists -> Nat] /\ \A l \in Lists : Len(lists[l]) <= capacity[l]
    BY <1>1, <1>4
  <2>2. faults \in 0..MaxFaults
    BY <1>1, PagesAssumption
  <2>3. QED
    BY <1>1, <1>3, <2>1, <2>2 DEF CrawlTypeOK
<1>6. QED
  BY <1>1, <1>5, ListNames DEF PageInv, AtItem

LEMMA BeginPage ==
  ASSUME PageInv, Begin
  PROVE  PageInv'
<1>1. /\ step' \in {"download 0", "returned"} /\ page' = <<>> /\ todo' = 1
      /\ lists' = EmptyLists /\ capacity' = NoCapacity /\ status' = -1
      /\ written' = {} /\ unnoticed' = FALSE /\ UNCHANGED <<heap, files, faults>>
  BY DEF Begin
<1>2. Items(<<>>) \in Seq(PageItem)
  BY ItemsType
<1>3. todo' \in 0 .. Len(Items(page')) + 1
  <2>1. Len(Items(<<>>)) \in Nat
    BY <1>2, LenProperties
  <2>2. todo' = 1 /\ page' = <<>>
    BY <1>1
  <2>3. QED
    BY <2>1, <2>2
<1>4. /\ EmptyLists \in [Lists -> Seq(DOMAIN Key)] /\ NoCapacity \in [Lists -> Nat]
      /\ \A l \in Lists : Len(EmptyLists[l]) <= NoCapacity[l]
  BY EmptySeq DEF EmptyLists, NoCapacity
<1>5. CrawlTypeOK'
  <2>1. /\ lists' \in [Lists -> Seq(DOMAIN Key)]
        /\ capacity' \in [Lists -> Nat] /\ \A l \in Lists : Len(lists'[l]) <= capacity'[l]
    BY <1>1, <1>4
  <2>2. page' \in Pages \cup {<<>>} /\ status' \in {-1, 0}
    BY <1>1
  <2>3. /\ files' \in [Lists -> Seq(DOMAIN Key)] /\ faults' \in 0..MaxFaults
        /\ heap' \subseteq {"buffer", "document"} \cup Lists
    BY <1>1 DEF CrawlTypeOK, PageInv
  <2>4. QED
    BY <1>1, <1>3, <2>1, <2>2, <2>3 DEF CrawlTypeOK
<1>6. AtItem'
  BY <1>1 DEF AtItem
<1>7. status' # 0 /\ step' \in {"download 0", "returned"} /\ lists' = EmptyLists
  <2>1. status' = -1
    BY <1>1
  <2>2. -1 # 0
    OBVIOUS
  <2>3. status' # 0
    BY <2>1, <2>2
  <2>4. QED
    BY <1>1, <2>3
<1>8. QED
  BY <1>5, <1>6, <1>7, ListNames DEF PageInv

LEMMA KillPage ==
  ASSUME PageInv, Kill
  PROVE  PageInv'
<1>1. /\ step' = "idle" /\ heap' = {} /\ Fault
      /\ UNCHANGED <<page, todo, lists, capacity, status, unnoticed>>
      /\ \/ UNCHANGED <<files, written>>
         \/ \E l \in Lists :
              /\ \E part \in Prefixes(lists[l]) : files' = [files EXCEPT ![l] = part]
              /\ written' = written \cup {l}
  BY DEF Kill, CrawlKilled
<1>2. faults' \in 0..MaxFaults
  <2>1. faults \in 0..MaxFaults /\ faults < MaxFaults /\ faults' = faults + 1
    BY <1>1 DEF Fault, PageInv, CrawlTypeOK
  <2>2. QED
    BY <2>1, PagesAssumption
<1>3. files' \in [Lists -> Seq(DOMAIN Key)] /\ written' \subseteq Lists
  <2>1. ASSUME NEW l \in Lists, NEW part \in Prefixes(lists[l]),
               files' = [files EXCEPT ![l] = part], written' = written \cup {l}
        PROVE  files' \in [Lists -> Seq(DOMAIN Key)] /\ written' \subseteq Lists
    <3>1. /\ lists[l] \in Seq(DOMAIN Key) /\ files \in [Lists -> Seq(DOMAIN Key)]
          /\ written \subseteq Lists
      BY DEF PageInv, CrawlTypeOK
    <3>2. part \in Seq(DOMAIN Key)
      BY <3>1, PrefixType
    <3>3. QED
      BY <2>1, <3>1, <3>2
  <2>2. QED
    BY <1>1, <2>1 DEF PageInv, CrawlTypeOK
<1>4. CrawlTypeOK'
  BY <1>1, <1>2, <1>3 DEF PageInv, CrawlTypeOK
<1>5. QED
  BY <1>1, <1>4, ListNames DEF PageInv, AtItem

LEMMA PageStep == ASSUME PageInv, CallInv, [Next]_vars PROVE PageInv'
<1>1. ASSUME UNCHANGED crawlVars PROVE PageInv'
  BY <1>1
     DEF crawlVars, PageInv, AtItem, CrawlTypeOK, Sorted, Collected, AllWritten, Amount
<1>2. CASE Launch
  BY <1>1, <1>2 DEF Launch
<1>3. CASE LookStep
  BY <1>1, <1>3 DEF LookStep
<1>4. CASE CallCrawl
  BY <1>4, BeginPage DEF CallCrawl
<1>5. CASE CrawlStep
  BY <1>5, CrawlPage DEF CrawlStep
<1>6. CASE CrawlReturned
  <2>1. /\ step' = "idle"
        /\ UNCHANGED <<page, todo, lists, capacity, heap, status, files, written,
                       unnoticed, faults>>
    BY <1>6 DEF CrawlReturned
  <2>2. QED
    BY <2>1, ListNames DEF PageInv, AtItem, CrawlTypeOK
<1>7. CASE Kill
  BY <1>7, KillPage
<1>8. CASE UNCHANGED vars
  BY <1>1, <1>8 DEF vars
<1>9. QED
  BY <1>2, <1>3, <1>4, <1>5, <1>6, <1>7, <1>8 DEF Next, Program

(* When crawl_website() returns 0 and nothing failed that it does not look *)
(* for, each file is in order and holds each item of the page once for     *)
(* every time it is there, for any pages and any growth of the lists.      *)
THEOREM SuccessIsWholePageHolds == Spec => []SuccessIsWholePage
<1>1. PageInv => SuccessIsWholePage
  <2> SUFFICES ASSUME PageInv, step = "returned", status = 0, ~unnoticed,
                      NEW l \in Lists
               PROVE  /\ Ordered(files[l])
                      /\ \A v \in DOMAIN Key :
                           Times(v, files[l]) = Times([list |-> l, value |-> v], Items(page))
    BY DEF SuccessIsWholePage
  <2>1. AllWritten
    BY DEF PageInv
  <2>2. Items(page) \in Seq(PageItem)
    <3>1. page \in Pages \cup {<<>>}
      BY DEF PageInv, CrawlTypeOK
    <3>2. QED
      BY <3>1, ItemsType
  <2>3. \A v : Times(v, Items(page)) = CountTo(Items(page), v, Len(Items(page)))
    BY <2>2, TimesCount
  <2>4. QED
    BY <2>1, <2>3 DEF AllWritten, Amount
<1>2. WrittenInv => CallInv
  BY DEF WrittenInv
<1>3. QED
  BY WrittenInit, WrittenStep, PageInit, PageStep, <1>1, <1>2, PTL DEF Spec

(* An entry of a list is always inside the memory the list has.            *)
THEOREM CrawlTypeCorrect == Spec => []CrawlTypeOK
<1>1. PageInv => CrawlTypeOK
  BY DEF PageInv
<1>2. WrittenInv => CallInv
  BY DEF WrittenInv
<1>3. QED
  BY WrittenInit, WrittenStep, PageInit, PageStep, <1>1, <1>2, PTL DEF Spec

-------------------------------------------------------------------------------
(* Names in a message                                                      *)

LEMMA NameBytesSteps ==
  ASSUME NEW buf \in Seq(Byte), NEW left \in 0..Len(buf)
  PROVE  LET len == buf[Len(buf) - left + 1]
         IN  NameBytes(buf)[left] =
               IF left = 0 THEN 0
               ELSE IF len = 0 THEN 1
               ELSE IF len >= 192 THEN 2
               ELSE 1 + len + (IF len < left THEN NameBytes(buf)[left - 1 - len] ELSE 0)
<1> DEFINE N == Len(buf)
           L(n) == buf[N - n + 1]
           At(g, n) == IF n = 0 THEN 0
                       ELSE IF L(n) = 0 THEN 1
                       ELSE IF L(n) >= 192 THEN 2
                       ELSE 1 + L(n) + (IF L(n) < n THEN g[n - 1 - L(n)] ELSE 0)
           S == {M \in Nat : M <= N => \E g : g = [n \in 0..M |-> At(g, n)]}
           f == NameBytes(buf)
<1>1. N \in Nat /\ \A n \in 1..N : L(n) \in Nat
  <2>1. N \in Nat
    BY LenProperties
  <2>2. ASSUME NEW n \in 1..N PROVE L(n) \in Nat
    <3>1. N - n + 1 \in 1..N
      BY <2>1
    <3>2. L(n) \in Byte
      BY <3>1, LenProperties
    <3>3. \A b \in Byte : b \in Nat
      BY DEF Byte
    <3>4. QED
      BY <3>2, <3>3
  <2>3. QED
    BY <2>1, <2>2
<1>2. 0 \in S
  <2> DEFINE g == [n \in 0..0 |-> 0]
  <2>1. g = [n \in 0..0 |-> At(g, n)]
    OBVIOUS
  <2>2. QED
    BY <2>1
<1> HIDE DEF L
<1>3. ASSUME NEW M \in Nat, M \in S PROVE M + 1 \in S
  <2> SUFFICES ASSUME M + 1 <= N
               PROVE  \E g : g = [n \in 0 .. M + 1 |-> At(g, n)]
    OBVIOUS
  <2>1. PICK g : g = [n \in 0..M |-> At(g, n)]
    BY <1>1, <1>3
  <2> DEFINE h == [n \in 0 .. M + 1 |-> IF n = M + 1 THEN At(g, n) ELSE g[n]]
  <2>2. \A n \in 0..M : g[n] = [k \in 0..M |-> At(g, k)][n]
    BY <2>1, Zenon
  <2>3. \A n \in 0..M : g[n] = At(g, n)
    BY <2>2
  <2>4. /\ \A n \in 0..M : h[n] = g[n]
        /\ h[M + 1] = At(g, M + 1)
        /\ h = [n \in 0 .. M + 1 |-> h[n]]
    OBVIOUS
  <2> HIDE DEF h
  <2>5. ASSUME NEW n \in 0 .. M + 1 PROVE At(h, n) = At(g, n)
    <3>1. ASSUME n # 0, L(n) < n PROVE h[n - 1 - L(n)] = g[n - 1 - L(n)]
      <4>1. L(n) \in Nat
        BY <1>1, <3>1
      <4>2. n - 1 - L(n) \in 0..M
        BY <3>1, <4>1
      <4>3. QED
        BY <2>4, <4>2
    <3>2. QED
      BY <3>1
  <2>6. ASSUME NEW n \in 0 .. M + 1 PROVE h[n] = At(h, n)
    BY <2>3, <2>4, <2>5
  <2> HIDE DEF At
  <2>7. h = [n \in 0 .. M + 1 |-> At(h, n)]
    BY <2>4, <2>6
  <2>8. QED
    BY <2>7
<1> HIDE DEF S
<1>4. \A M \in Nat : M \in S
  BY <1>2, <1>3, Induction
<1>5. \E g : g = [n \in 0..N |-> At(g, n)]
  BY <1>1, <1>4 DEF S
<1>6. f = [n \in 0..N |-> At(f, n)]
  BY <1>5 DEF NameBytes, L
<1> HIDE DEF f
<1>7. f[left] = [n \in 0..N |-> At(f, n)][left]
  BY <1>6, Zenon
<1>8. f[left] = At(f, left)
  BY <1>7
<1>9. QED
  BY <1>8 DEF f, L

LEMMA SkipSteps ==
  ASSUME NEW buf \in Seq(Byte), NEW o \in 0 .. Len(buf) - 1
  PROVE  LET len == buf[o + 1]
         IN  /\ len \in Byte
             /\ skip_dns_name(buf, o) =
                  IF len = 0 THEN 1
                  ELSE IF len >= 192 THEN 2
                  ELSE 1 + len + skip_dns_name(buf, o + 1 + len)
<1> DEFINE left == Len(buf) - o
           len == buf[o + 1]
<1>1. /\ Len(buf) \in Nat /\ left \in 1..Len(buf) /\ Len(buf) - left + 1 = o + 1
      /\ o + 1 \in 1..Len(buf)
  BY LenProperties
<1>2. len \in Byte /\ len \in 0..255
  BY <1>1, LenProperties DEF Byte
<1>3. skip_dns_name(buf, o) = NameBytes(buf)[left]
  BY <1>1 DEF skip_dns_name
<1>4. NameBytes(buf)[left] =
        IF len = 0 THEN 1
        ELSE IF len >= 192 THEN 2
        ELSE 1 + len + (IF len < left THEN NameBytes(buf)[left - 1 - len] ELSE 0)
  <2>1. left \in 0..Len(buf) /\ left # 0
    BY <1>1
  <2>2. QED
    BY <1>1, <2>1, NameBytesSteps
<1> HIDE DEF len, left
<1>5. skip_dns_name(buf, o + 1 + len) =
        IF len < left THEN NameBytes(buf)[left - 1 - len] ELSE 0
  <2>0. left = Len(buf) - o /\ o \in Nat /\ len \in 0..255 /\ Len(buf) \in Nat
    BY <1>1, <1>2 DEF left
  <2>1. o + 1 + len < Len(buf) => Len(buf) - (o + 1 + len) = left - 1 - len
    BY <2>0
  <2>2. CASE o + 1 + len < Len(buf)
    <3>1. len < left
      BY <2>0, <2>2
    <3>2. QED
      BY <2>1, <2>2, <3>1 DEF skip_dns_name
  <2>3. CASE ~(o + 1 + len < Len(buf))
    <3>1. skip_dns_name(buf, o + 1 + len) = 0
      BY <2>3 DEF skip_dns_name
    <3>2. CASE len < left
      <4>1. left - 1 - len = 0
        BY <2>0, <2>3, <3>2
      <4>2. NameBytes(buf)[0] = 0
        BY <1>1, NameBytesSteps
      <4>3. QED
        BY <3>1, <3>2, <4>1, <4>2
    <3>3. QED
      BY <3>1, <3>2
  <2>4. QED
    BY <2>2, <2>3
<1>6. QED
  BY <1>2, <1>3, <1>4, <1>5 DEF len

(* Where the bytes s lie in a message. *)
Lies(s, buf, o) ==
  /\ o + Len(s) <= Len(buf)
  /\ \A i \in 1..Len(s) : buf[o + i] = s[i]

(* The bytes s are labels, over which a walk gets to what is behind them. *)
Labels(s) ==
  \A buf \in Seq(Byte), o \in Nat, k \in Nat :
    Lies(s, buf, o) /\ skip_dns_name(buf, o + Len(s)) = k =>
      skip_dns_name(buf, o) = Len(s) + k

(* The bytes s are a name, as long as the walk over it. *)
IsName(s) ==
  /\ s \in Seq(Byte)
  /\ \A buf \in Seq(Byte), o \in Nat : Lies(s, buf, o) => skip_dns_name(buf, o) = Len(s)

LEMMA LiesParts ==
  ASSUME NEW s \in Seq(Byte), NEW t \in Seq(Byte), NEW buf \in Seq(Byte),
         NEW o \in Nat, Lies(s \o t, buf, o)
  PROVE  /\ Lies(s, buf, o) /\ Lies(t, buf, o + Len(s))
         /\ Len(s \o t) = Len(s) + Len(t)
<1>1. /\ Len(s) \in Nat /\ Len(t) \in Nat /\ Len(buf) \in Nat
      /\ Len(s \o t) = Len(s) + Len(t)
      /\ \A i \in 1..Len(s) : (s \o t)[i] = s[i]
      /\ \A i \in 1..Len(t) : (s \o t)[Len(s) + i] = t[i]
  <2>1. /\ Len(s) \in Nat /\ Len(t) \in Nat /\ Len(buf) \in Nat
        /\ Len(s \o t) = Len(s) + Len(t)
        /\ \A i \in 1 .. Len(s) + Len(t) :
             (s \o t)[i] = IF i <= Len(s) THEN s[i] ELSE t[i - Len(s)]
    BY LenProperties, ConcatProperties
  <2>2. ASSUME NEW i \in 1..Len(t) PROVE (s \o t)[Len(s) + i] = t[i]
    <3>1. Len(s) + i \in 1 .. Len(s) + Len(t) /\ ~(Len(s) + i <= Len(s))
          /\ (Len(s) + i) - Len(s) = i
      BY <2>1
    <3>2. QED
      BY <2>1, <3>1
  <2>3. QED
    BY <2>1, <2>2
<1>2. o + (Len(s) + Len(t)) <= Len(buf)
      /\ \A i \in 1 .. Len(s) + Len(t) : buf[o + i] = (s \o t)[i]
  BY <1>1 DEF Lies
<1>3. Lies(s, buf, o)
  BY <1>1, <1>2 DEF Lies
<1>4. ASSUME NEW i \in 1..Len(t) PROVE buf[o + Len(s) + i] = t[i]
  <2>1. Len(s) + i \in 1 .. Len(s) + Len(t) /\ o + (Len(s) + i) = o + Len(s) + i
    BY <1>1
  <2>2. QED
    BY <1>1, <1>2, <2>1
<1>5. QED
  BY <1>1, <1>2, <1>3, <1>4 DEF Lies

LEMMA OneByte ==
  ASSUME NEW b \in Byte
  PROVE  <<b>> \in Seq(Byte) /\ Len(<<b>>) = 1 /\ <<b>>[1] = b
OBVIOUS

LEMMA LabelledType ==
  ASSUME NEW label \in Seq(Byte)
  PROVE  /\ Labelled(label) \in Seq(Byte)
         /\ Len(Labelled(label)) = 1 + Len(label)
         /\ Labelled(label)[1] = Len(label) % 256
<1> DEFINE b == Len(label) % 256
<1>1. Len(label) \in Nat /\ b \in Byte
  <2>1. Len(label) \in Nat
    BY LenProperties
  <2>2. \A n \in Nat : n % 256 \in Byte
    BY DEF Byte
  <2>3. QED
    BY <2>1, <2>2
<1> HIDE DEF b
<1>2. <<b>> \in Seq(Byte) /\ Len(<<b>>) = 1 /\ <<b>>[1] = b
  BY <1>1, OneByte
<1>3. /\ <<b>> \o label \in Seq(Byte)
      /\ Len(<<b>> \o label) = 1 + Len(label)
      /\ (<<b>> \o label)[1] = b
  BY <1>1, <1>2, ConcatProperties
<1>4. QED
  BY <1>3 DEF Labelled, b

(* A label that is not empty and not too long. *)
LEMMA OneLabel ==
  ASSUME NEW s \in Seq(Byte), Labels(s),
         NEW label \in Seq(Byte), NEW n \in 1..191, Len(label) = n
  PROVE  Labels(s \o Labelled(label))
<1> DEFINE t == Labelled(label)
           q == s \o t
<1>1. /\ t \in Seq(Byte) /\ Len(t) = 1 + Len(label) /\ t[1] = Len(label)
      /\ Len(s) \in Nat /\ Len(label) \in Nat
      /\ Len(label) # 0 /\ ~(Len(label) >= 192)
  <2>1. n % 256 = n /\ n \in Nat /\ n # 0 /\ ~(n >= 192)
    OBVIOUS
  <2>2. QED
    BY <2>1, LabelledType, LenProperties
<1> HIDE DEF t, q
<1> SUFFICES ASSUME NEW buf \in Seq(Byte), NEW o \in Nat, NEW k \in Nat,
                    Lies(q, buf, o), skip_dns_name(buf, o + Len(q)) = k
             PROVE  skip_dns_name(buf, o) = Len(q) + k
  BY DEF Labels, q, t
<1> DEFINE m == o + Len(s)
<1>2. Lies(s, buf, o) /\ Lies(t, buf, m) /\ Len(q) = Len(s) + Len(t)
  BY <1>1, LiesParts DEF q
<1>3. /\ m \in Nat /\ m + Len(t) <= Len(buf) /\ buf[m + 1] = t[1] /\ Len(buf) \in Nat
  <2>1. 1 \in 1..Len(t) /\ m \in Nat
    BY <1>1
  <2>2. QED
    BY <1>2, <2>1, LenProperties DEF Lies
<1>4. m \in 0 .. Len(buf) - 1
  BY <1>1, <1>3
<1>5. skip_dns_name(buf, m) = 1 + Len(label) + skip_dns_name(buf, m + 1 + Len(label))
  <2> HIDE DEF m
  <2>1. buf[m + 1] = Len(label) /\ Len(label) # 0 /\ ~(Len(label) >= 192)
    BY <1>1, <1>3
  <2>2. QED
    BY <1>4, <2>1, SkipSteps
<1>6. m + 1 + Len(label) = o + Len(q)
  BY <1>1, <1>2
<1>7. skip_dns_name(buf, m) = Len(t) + k
  BY <1>1, <1>5, <1>6
<1>8. skip_dns_name(buf, o) = Len(s) + (Len(t) + k)
  <2>1. Len(t) + k \in Nat
    BY <1>1
  <2>2. QED
    BY <1>2, <1>7, <2>1 DEF Labels
<1>9. QED
  BY <1>1, <1>2, <1>8 DEF q

LEMMA NameEnds ==
  ASSUME NEW s \in Seq(Byte), Labels(s)
  PROVE  IsName(s \o <<0>>) /\ Len(s \o <<0>>) = Len(s) + 1
<1> DEFINE q == s \o <<0>>
<1>1. 0 \in Byte /\ Len(s) \in Nat
  BY LenProperties DEF Byte
<1>2. <<0>> \in Seq(Byte) /\ Len(<<0>>) = 1 /\ <<0>>[1] = 0
  BY <1>1, OneByte
<1>3. q \in Seq(Byte) /\ Len(q) = Len(s) + 1
  BY <1>1, <1>2, ConcatProperties
<1>4. ASSUME NEW buf \in Seq(Byte), NEW o \in Nat, Lies(q, buf, o)
      PROVE  skip_dns_name(buf, o) = Len(q)
  <2> DEFINE m == o + Len(s)
  <2>1. Lies(s, buf, o) /\ Lies(<<0>>, buf, m)
    BY <1>2, <1>4, LiesParts
  <2>2. m \in Nat /\ m + 1 <= Len(buf) /\ buf[m + 1] = 0 /\ Len(buf) \in Nat
    BY <1>1, <1>2, <2>1, LenProperties DEF Lies
  <2>3. m \in 0 .. Len(buf) - 1
    BY <2>2
  <2>4. skip_dns_name(buf, m) = 1
    <3> HIDE DEF m
    <3> QED
      BY <2>2, <2>3, SkipSteps
  <2>5. QED
    BY <1>3, <2>1, <2>4 DEF Labels
<1>5. QED
  BY <1>3, <1>4 DEF IsName

(* What encode_dns_name() has of the first n characters of the domain.     *)
EncodeState == [out : Seq(Byte), label : Seq(Byte)]

Encoded(n, acc) ==
  /\ acc \in EncodeState
  /\ Labels(acc.out)
  /\ Len(acc.label) <= 191 /\ Len(acc.label) <= n
  /\ n > 0 /\ Domain[n] # Dot => Len(acc.label) # 0
  /\ \A j \in n - Len(acc.label) + 1 .. n : Domain[j] # Dot

LEMMA EncodeCharType ==
  ASSUME NEW acc \in EncodeState, NEW char \in Byte
  PROVE  EncodeChar(acc, char) \in EncodeState
<1>1. acc.out \in Seq(Byte) /\ acc.label \in Seq(Byte)
  BY DEF EncodeState
<1>2. /\ Labelled(acc.label) \in Seq(Byte) /\ <<>> \in Seq(Byte)
  BY <1>1, LabelledType, EmptySeq
<1>3. /\ acc.out \o Labelled(acc.label) \in Seq(Byte)
      /\ Append(acc.label, char) \in Seq(Byte)
  BY <1>1, <1>2, ConcatProperties, AppendProperties
<1>4. CASE char = Dot
  BY <1>2, <1>3, <1>4 DEF EncodeChar, EncodeState
<1>5. CASE char # Dot
  <2>1. EncodeChar(acc, char) = [acc EXCEPT !.label = Append(acc.label, char)]
    BY <1>5 DEF EncodeChar
  <2>2. QED
    BY <1>3, <2>1 DEF EncodeState
<1>6. QED
  BY <1>4, <1>5

LEMMA EncodeCharStep ==
  ASSUME NEW n \in 1..Len(Domain), NEW acc, Encoded(n - 1, acc)
  PROVE  Encoded(n, EncodeChar(acc, Domain[n]))
<1> DEFINE new == EncodeChar(acc, Domain[n])
           label == acc.label
<1>1. /\ n \in Nat \ {0} /\ n \in DOMAIN Domain /\ Len(Domain) \in Nat /\ n <= Len(Domain)
      /\ Domain[n] \in Byte
  BY DomainAssumption, LenProperties
<1>2. acc \in EncodeState /\ acc.out \in Seq(Byte) /\ label \in Seq(Byte) /\ Labels(acc.out)
  BY DEF Encoded, EncodeState
<1>3. new \in EncodeState
  BY <1>1, <1>2, EncodeCharType
<1>4. PICK l \in Nat : Len(label) = l /\ l <= 191 /\ l <= n - 1
  BY <1>2, LenProperties DEF Encoded
<1>5. CASE Domain[n] = Dot
  <2>1. n > 1 /\ Domain[n - 1] # Dot
    BY <1>1, <1>5, DomainAssumption
  <2>2. Len(label) # 0
    BY <1>1, <2>1 DEF Encoded
  <2>3. l \in 1..191
    BY <1>4, <2>2
  <2>4. new = [out |-> acc.out \o Labelled(label), label |-> <<>>]
    BY <1>5 DEF EncodeChar
  <2> HIDE DEF new
  <2>l. Labels(acc.out \o Labelled(label))
    BY <1>2, <1>4, <2>3, OneLabel
  <2>5. Labels(new.out) /\ new.label = <<>> /\ Len(new.label) = 0
    BY <2>4, <2>l, EmptySeq
  <2>6. \A j \in n - Len(new.label) + 1 .. n : Domain[j] # Dot
    BY <1>1, <2>5
  <2>7. Encoded(n, new)
    BY <1>1, <1>3, <1>5, <2>5, <2>6 DEF Encoded
  <2>8. QED
    BY <2>7 DEF new
<1>6. CASE Domain[n] # Dot
  <2>1. new = [acc EXCEPT !.label = Append(label, Domain[n])]
    BY <1>6 DEF EncodeChar
  <2>2. new.out = acc.out /\ new.label = Append(label, Domain[n])
    BY <1>2, <2>1 DEF EncodeState
  <2>3. Len(new.label) = l + 1
    BY <1>1, <1>2, <1>4, <2>2, AppendProperties
  <2>4. \A j \in n - l .. n - 1 : Domain[j] # Dot
    BY <1>1, <1>4 DEF Encoded
  <2>5. \A j \in n - l .. n : Domain[j] # Dot
    BY <1>1, <1>4, <1>6, <2>4
  <2>6. l + 1 <= 191
    <3>1. SUFFICES ASSUME l = 191 PROVE FALSE
      BY <1>4
    <3>2. n - 192 \in 0 .. Len(Domain) - 192
      BY <1>1, <1>4, <3>1
    <3>3. PICK j \in n - 192 + 1 .. n - 192 + 192 : Domain[j] = Dot
      BY <3>2, DomainAssumption
    <3>4. j \in n - l .. n
      BY <1>1, <3>1, <3>3
    <3>5. QED
      BY <2>5, <3>3, <3>4
  <2> HIDE DEF new
  <2>7. \A j \in n - Len(new.label) + 1 .. n : Domain[j] # Dot
    <3>1. n - (l + 1) + 1 = n - l
      BY <1>1, <1>4
    <3>2. QED
      BY <2>3, <2>5, <3>1
  <2>8. Len(new.label) <= 191 /\ Len(new.label) <= n /\ Len(new.label) # 0
    BY <1>1, <1>4, <2>3, <2>6
  <2>9. Encoded(n, new)
    BY <1>2, <1>3, <2>2, <2>7, <2>8 DEF Encoded
  <2>10. QED
    BY <2>9 DEF new
<1>7. QED
  BY <1>5, <1>6

LEMMA NoLabels == Labels(<<>>) /\ <<>> \in Seq(Byte) /\ Len(<<>>) = 0
<1>1. <<>> \in Seq(Byte) /\ Len(<<>>) = 0
  BY EmptySeq
<1>2. Labels(<<>>)
  <2> SUFFICES ASSUME NEW buf \in Seq(Byte), NEW o \in Nat, NEW k \in Nat,
                      skip_dns_name(buf, o + Len(<<>>)) = k
               PROVE  skip_dns_name(buf, o) = Len(<<>>) + k
    BY DEF Labels
  <2>1. o + Len(<<>>) = o
    BY <1>1
  <2>2. QED
    BY <1>1, <2>1
<1>3. QED
  BY <1>1, <1>2

(* The query's name is one that the walk over it reads to its end. *)
LEMMA EncodedName == IsName(encode_dns_name(Domain)) /\ Len(encode_dns_name(Domain)) \in Nat \ {0}
<1> DEFINE N == Len(Domain)
           S == EncodeState
           first == [out |-> <<>>, label |-> <<>>]
           Char(acc, n) == EncodeChar(acc, Domain[n])
           Body(g) == [n \in 0..N |-> IF n = 0 THEN first ELSE Char(g[n - 1], n)]
           f == CHOOSE g : g = Body(g)
           all == f[N]
<1>1. N \in Nat /\ \A n \in 1..N : Domain[n] \in Byte
  BY DomainAssumption, LenProperties
<1>2. first \in S
  BY NoLabels DEF EncodeState
<1>3. \A acc \in S, n \in 1..N : Char(acc, n) \in S
  BY <1>1, EncodeCharType
<1>4. encode_dns_name(Domain) =
        all.out \o (IF all.label = <<>> THEN <<>> ELSE Labelled(all.label)) \o <<0>>
  BY DEF encode_dns_name
<1>e. Encoded(0, first)
  BY <1>2, NoLabels DEF Encoded
<1>s. \A n \in 1..N, acc \in S : Encoded(n - 1, acc) => Encoded(n, Char(acc, n))
  BY EncodeCharStep
<1> HIDE DEF N, S, first, Char
<1>5. \E g : g = Body(g)
  <2> DEFINE next == [n \in Nat |-> [s \in S |-> IF n \in 1..N THEN Char(s, n) ELSE s]]
  <2>1. next \in [Nat -> [S -> S]]
    BY <1>3
  <2>2. \A s \in S, n \in 1..N : next[n][s] = Char(s, n)
    BY <1>1
  <2> HIDE DEF next
  <2>3. PICK g \in [0..N -> S] : Unfolds(g, first, next, N)
    BY <1>1, <1>2, <2>1, Recursion
  <2>4. ASSUME NEW n \in 1..N PROVE g[n] = Char(g[n - 1], n)
    <3>1. n - 1 \in 0..N
      BY <1>1
    <3>2. QED
      BY <2>2, <2>3, <3>1 DEF Unfolds
  <2>5. ASSUME NEW n \in 0..N PROVE g[n] = IF n = 0 THEN first ELSE Char(g[n - 1], n)
    BY <1>1, <2>3, <2>4 DEF Unfolds
  <2>6. g = Body(g)
    BY <2>3, <2>5
  <2>7. QED
    BY <2>6
<1>6. f = Body(f)
  BY <1>5
<1> HIDE DEF f
<1>7. \A n \in 0..N : f[n] = Body(f)[n]
  BY <1>6, Zenon
<1>8. \A n \in 0..N : f[n] = IF n = 0 THEN first ELSE Char(f[n - 1], n)
  BY <1>7
<1> DEFINE R == {n \in 0..N : f[n] \in S /\ Encoded(n, f[n])}
<1>9. 0 \in R
  BY <1>1, <1>2, <1>8, <1>e
<1>10. ASSUME NEW n \in 1..N, n - 1 \in R PROVE n \in R
  <2>1. n \in 0..N /\ f[n] = Char(f[n - 1], n)
    BY <1>1, <1>8
  <2>2. QED
    BY <1>3, <1>s, <1>10, <2>1
<1> HIDE DEF R
<1>11. \A n \in 0..N : n \in R
  BY <1>1, <1>9, <1>10, InductionTo
<1>12. Encoded(N, all)
  BY <1>1, <1>11 DEF R
<1> HIDE DEF all
<1>13. /\ all.out \in Seq(Byte) /\ all.label \in Seq(Byte) /\ Labels(all.out)
       /\ Len(all.label) <= 191
  BY <1>12 DEF Encoded, EncodeState
<1> DEFINE last == IF all.label = <<>> THEN <<>> ELSE Labelled(all.label)
<1>14. all.out \o last \in Seq(Byte) /\ Labels(all.out \o last)
  <2>1. CASE all.label = <<>>
    <3>1. all.out \o last = all.out
      BY <1>13, <2>1, ConcatEmptySeq
    <3>2. QED
      BY <1>13, <3>1
  <2>2. CASE all.label # <<>>
    <3>1. PICK l \in Nat : Len(all.label) = l /\ l # 0
      BY <1>13, <2>2, EmptySeq, LenProperties
    <3>2. l \in 1..191
      BY <1>13, <3>1
    <3>3. Labels(all.out \o Labelled(all.label))
      BY <1>13, <3>1, <3>2, OneLabel
    <3>4. all.out \o Labelled(all.label) \in Seq(Byte)
      BY <1>13, LabelledType, ConcatProperties
    <3>5. QED
      BY <2>2, <3>3, <3>4
  <2>3. QED
    BY <2>1, <2>2
<1> HIDE DEF last
<1> DEFINE head == all.out \o last
<1>15. IsName(head \o <<0>>) /\ Len(head \o <<0>>) \in Nat \ {0}
  <2>1. head \in Seq(Byte) /\ Labels(head)
    BY <1>14
  <2> HIDE DEF head
  <2>2. Len(head) \in Nat
    BY <2>1, LenProperties
  <2>3. IsName(head \o <<0>>) /\ Len(head \o <<0>>) = Len(head) + 1
    BY <2>1, NameEnds
  <2>4. QED
    BY <2>2, <2>3
<1>16. QED
  BY <1>4, <1>15 DEF last

-------------------------------------------------------------------------------
(* Queries                                                                  *)

(* What build_dns_query() writes and a server reads back.                  *)

LEMMA TwoBytes ==
  ASSUME NEW a \in Byte, NEW b \in Byte
  PROVE  <<a, b>> \in Seq(Byte) /\ Len(<<a, b>>) = 2 /\ <<a, b>>[1] = a /\ <<a, b>>[2] = b
OBVIOUS

LEMMA FourBytes ==
  ASSUME NEW a \in Byte, NEW b \in Byte, NEW c \in Byte, NEW d \in Byte
  PROVE  <<a, b, c, d>> \in Seq(Byte) /\ Len(<<a, b, c, d>>) = 4
OBVIOUS

(* A number of 16 bits is read as it was written. *)
LEMMA NetworkOrder ==
  ASSUME NEW n \in Half
  PROVE  /\ htons(n) \in Seq(Byte) /\ Len(htons(n)) = 2
         /\ \A buf \in Seq(Byte), o \in Nat : Lies(htons(n), buf, o) => ntohs(buf, o) = n
<1> DEFINE a == n \div 256
           b == n % 256
<1>1. a \in Byte /\ b \in Byte /\ 256 * a + b = n
  BY DEF Half, Byte
<1> HIDE DEF a, b
<1>2. /\ <<a, b>> \in Seq(Byte) /\ Len(<<a, b>>) = 2
      /\ <<a, b>>[1] = a /\ <<a, b>>[2] = b
  BY <1>1, TwoBytes
<1>3. htons(n) = <<a, b>>
  BY DEF htons, a, b
<1>4. ASSUME NEW buf \in Seq(Byte), NEW o \in Nat, Lies(<<a, b>>, buf, o)
      PROVE  ntohs(buf, o) = n
  <2>1. buf[o + 1] = a /\ buf[o + 2] = b
    BY <1>2, <1>4 DEF Lies
  <2>2. QED
    BY <1>1, <2>1 DEF ntohs
<1>5. QED
  BY <1>2, <1>3, <1>4

LEMMA LiesSelf ==
  ASSUME NEW buf \in Seq(Byte)
  PROVE  Lies(buf, buf, 0)
<1>1. Len(buf) \in Nat
  BY LenProperties
<1>2. QED
  BY <1>1 DEF Lies

(* The bytes that lie somewhere are a part of the message. *)
LEMMA LiesSubSeq ==
  ASSUME NEW s \in Seq(Byte), NEW buf \in Seq(Byte), NEW o \in Nat, Lies(s, buf, o)
  PROVE  SubSeq(buf, o + 1, o + Len(s)) = s
<1> DEFINE t == SubSeq(buf, o + 1, o + Len(s))
<1>1. /\ Len(s) \in Nat /\ Len(buf) \in Nat /\ o + Len(s) <= Len(buf)
      /\ \A i \in 1..Len(s) : buf[o + i] = s[i]
  BY LenProperties DEF Lies
<1>2. \A i \in o + 1 .. o + Len(s) : buf[i] \in Byte
  BY <1>1, ElementOfSeq
<1>3. /\ t \in Seq(Byte)
      /\ Len(t) = IF o + 1 <= o + Len(s) THEN (o + Len(s)) - (o + 1) + 1 ELSE 0
      /\ \A i \in 1 .. (o + Len(s)) - (o + 1) + 1 : t[i] = buf[o + 1 + i - 1]
  <2>1. o + 1 \in Int /\ o + Len(s) \in Int
    BY <1>1
  <2>2. QED
    BY <1>2, <2>1, SubSeqProperties
<1> HIDE DEF t
<1>4. Len(t) = Len(s)
  BY <1>1, <1>3
<1>5. ASSUME NEW i \in 1..Len(s) PROVE t[i] = s[i]
  <2>1. (o + Len(s)) - (o + 1) + 1 = Len(s) /\ o + 1 + i - 1 = o + i
    BY <1>1
  <2>2. QED
    BY <1>1, <1>3, <2>1
<1>6. t = s
  BY <1>3, <1>4, <1>5, SeqEqual
<1>7. QED
  BY <1>6 DEF t

(* So many bytes. *)
Bytes(s, n) == s \in Seq(Byte) /\ Len(s) = n /\ n \in Nat

(* One more piece at the end of a message. *)
LEMMA Piece ==
  ASSUME NEW s, NEW t, NEW m, NEW n, Bytes(s, m), Bytes(t, n)
  PROVE  /\ Bytes(s \o t, m + n)
         /\ \A buf \in Seq(Byte), o \in Nat :
              Lies(s \o t, buf, o) => Lies(s, buf, o) /\ Lies(t, buf, o + m)
<1>1. s \in Seq(Byte) /\ t \in Seq(Byte) /\ Len(s) = m /\ Len(t) = n /\ m + n \in Nat
  BY DEF Bytes
<1>2. Len(s \o t) = Len(s) + Len(t) /\ s \o t \in Seq(Byte)
  BY <1>1, ConcatProperties, Zenon
<1>3. ASSUME NEW buf \in Seq(Byte), NEW o \in Nat, Lies(s \o t, buf, o)
      PROVE  Lies(s, buf, o) /\ Lies(t, buf, o + Len(s))
  BY <1>1, <1>3, LiesParts, Zenon
<1>4. QED
  BY <1>1, <1>2, <1>3 DEF Bytes

(* It is the same message whichever pieces are put together first. *)
LEMMA Together ==
  ASSUME NEW s, NEW t, NEW u, NEW l, NEW m, NEW n,
         Bytes(s, l), Bytes(t, m), Bytes(u, n)
  PROVE  (s \o t) \o u = s \o (t \o u)
<1>1. s \in Seq(Byte) /\ t \in Seq(Byte) /\ u \in Seq(Byte)
  BY DEF Bytes
<1>2. QED
  BY <1>1, ConcatAssociative

Name == encode_dns_name(Domain)

(* The question of a query. *)
Question == Name \o htons(DNS_TYPE_A) \o htons(DNS_CLASS_IN)

LEMMA Halves == {0, 1, 12, 60, 256, FilterId} \subseteq Half /\ QueryId \in Half
                /\ {0, 60, 192, 12, 129} \subseteq Byte
BY DomainAssumption DEF Half, Byte, FilterId

LEMMA HalfBytes ==
  ASSUME NEW n \in Half
  PROVE  Bytes(htons(n), 2)
BY NetworkOrder DEF Bytes

LEMMA QuestionType == Bytes(Name, Len(Name)) /\ Bytes(Question, Len(Name) + 4)
<1>1. Bytes(Name, Len(Name)) /\ Len(Name) \in Nat
  BY EncodedName DEF Name, IsName, Bytes
<1>2. Bytes(htons(1), 2)
  BY Halves, HalfBytes
<1>3. Bytes(Name \o htons(1), Len(Name) + 2)
  BY <1>1, <1>2, Piece, Zenon
<1>4. Bytes(Name \o htons(1) \o htons(1), Len(Name) + 2 + 2)
  BY <1>2, <1>3, Piece, Zenon
<1>5. Len(Name) + 2 + 2 = Len(Name) + 4
  BY <1>1
<1>6. QED
  BY <1>1, <1>4, <1>5, Zenon DEF Question, DNS_TYPE_A, DNS_CLASS_IN

(* Where the parts of a query lie. *)
LEMMA QueryParts ==
  ASSUME NEW id \in Half
  PROVE  LET query == build_dns_query(Domain, id)
         IN  /\ Bytes(query, Len(Name) + 16)
             /\ Lies(htons(1), query, 4)
             /\ Lies(Name, query, 12)
             /\ Lies(Question, query, 12)
<1> DEFINE query == build_dns_query(Domain, id)
           zero == htons(0)
           one == htons(1)
           first == htons(id)
           flags == htons(256)
           p1 == first \o flags
           p2 == p1 \o one
           p3 == p2 \o zero
           p4 == p3 \o zero
           p5 == p4 \o zero
           p6 == p5 \o Name
           p7 == p6 \o one
<1>1. /\ Bytes(zero, 2) /\ Bytes(one, 2) /\ Bytes(first, 2) /\ Bytes(flags, 2)
  BY Halves, HalfBytes
<1>2. query = p7 \o one
  BY DEF build_dns_query, DNS_TYPE_A, DNS_CLASS_IN, Name
<1>0. Question = (Name \o one) \o one
  BY DEF Question, DNS_TYPE_A, DNS_CLASS_IN
<1>n. /\ Bytes(Name, Len(Name)) /\ Bytes(Question, Len(Name) + 4)
      /\ Len(Name) \in Nat
  BY QuestionType DEF Bytes
<1> HIDE DEF query, zero, one, first, flags
<1>3. Bytes(p1, 2 + 2) /\ 2 + 2 = 4
  BY <1>1, Piece
<1> DEFINE Starts(s, t) == \A buf \in Seq(Byte) : Lies(t, buf, 0) => Lies(s, buf, 0)
           Has(s, t, m) == \A buf \in Seq(Byte) : Lies(t, buf, 0) => Lies(s, buf, m)
<1>p. ASSUME NEW s, NEW t, NEW m, NEW n, Bytes(s, m), Bytes(t, n)
      PROVE  /\ Bytes(s \o t, m + n) /\ Starts(s, s \o t) /\ Has(t, s \o t, m)
  <2>1. m \in Nat /\ 0 + m = m
    BY <1>p DEF Bytes
  <2>2. Bytes(s \o t, m + n)
    BY <1>p, Piece, Zenon
  <2>3. ASSUME NEW buf \in Seq(Byte), Lies(s \o t, buf, 0)
        PROVE  Lies(s, buf, 0) /\ Lies(t, buf, 0 + m)
    <3>1. 0 \in Nat
      OBVIOUS
    <3>2. QED
      BY <1>p, <2>3, <3>1, Piece, Zenon
  <2>4. QED
    BY <2>1, <2>2, <2>3
<1> HIDE DEF Starts, Has, p1
<1>4. Bytes(p2, 6) /\ Has(one, p2, 4)
  <2>1. Bytes(p1, 4) /\ 4 + 2 = 6
    BY <1>3
  <2>2. QED
    BY <1>1, <1>p, <2>1
<1> HIDE DEF p2
<1>5. Bytes(p3, 8) /\ Starts(p2, p3)
  <2>1. 6 + 2 = 8
    OBVIOUS
  <2>2. QED
    BY <1>1, <1>4, <1>p, <2>1
<1> HIDE DEF p3
<1>6. Bytes(p4, 10) /\ Starts(p3, p4)
  <2>1. 8 + 2 = 10
    OBVIOUS
  <2>2. QED
    BY <1>1, <1>5, <1>p, <2>1
<1> HIDE DEF p4
<1>7. Bytes(p5, 12) /\ Starts(p4, p5)
  <2>1. 10 + 2 = 12
    OBVIOUS
  <2>2. QED
    BY <1>1, <1>6, <1>p, <2>1
<1> HIDE DEF p5
<1>8. Bytes(p6, 12 + Len(Name)) /\ Starts(p5, p6) /\ Has(Name, p6, 12)
  BY <1>n, <1>7, <1>p
<1>9. p6 = p5 \o Name
  OBVIOUS
<1> HIDE DEF p6
<1>10. Bytes(p7, 12 + Len(Name) + 2) /\ Starts(p6, p7)
  BY <1>1, <1>8, <1>p
<1>11. p7 = p6 \o one
  OBVIOUS
<1> HIDE DEF p7
<1>12. Bytes(query, 12 + Len(Name) + 2 + 2) /\ Starts(p7, query)
  BY <1>1, <1>2, <1>10, <1>p
<1>c. 12 + Len(Name) + 2 + 2 = Len(Name) + 16
  BY <1>n
<1>13. Lies(query, query, 0) /\ query \in Seq(Byte)
  BY <1>12, LiesSelf DEF Bytes
<1>14. Lies(one, query, 4) /\ Lies(Name, query, 12)
  BY <1>4, <1>5, <1>6, <1>7, <1>8, <1>10, <1>12, <1>13, Zenon DEF Starts, Has
<1>15. Lies(Question, query, 12)
  <2>1. p7 = p5 \o (Name \o one)
    <3>1. (p5 \o Name) \o one = p5 \o (Name \o one)
      <4>1. Bytes(p5, 12) /\ Bytes(Name, Len(Name)) /\ Bytes(one, 2)
        BY <1>1, <1>n, <1>7
      <4>2. QED
        BY <4>1, Together
    <3>2. QED
      BY <1>9, <1>11, <3>1
  <2>2. Bytes(Name \o one, Len(Name) + 2)
    BY <1>1, <1>n, Piece, Zenon
  <2>3. query = p5 \o ((Name \o one) \o one)
    <3>1. (p5 \o (Name \o one)) \o one = p5 \o ((Name \o one) \o one)
      BY <1>1, <1>7, <2>2, Together
    <3>2. QED
      BY <1>2, <2>1, <3>1
  <2>4. Has(Question, query, 12)
    BY <1>0, <1>n, <1>7, <1>p, <2>3, Zenon
  <2>5. QED
    BY <1>13, <2>4 DEF Has
<1>16. QED
  BY <1>12, <1>14, <1>15, <1>c, Zenon DEF query, one

-------------------------------------------------------------------------------
(* The records of an answer                                                 *)

(* A record of an answer to the query. *)
Owner(r) == IF r.owner = "pointer" THEN <<192, 12>> ELSE Name

Record(r) ==
  Owner(r) \o htons(r.type) \o htons(DNS_CLASS_IN) \o <<0, 0, 0, 60>>
    \o htons(Len(r.rdata)) \o r.rdata

LEMMA OwnerIsName ==
  ASSUME NEW r
  PROVE  IsName(Owner(r)) /\ Bytes(Owner(r), Len(Owner(r)))
<1> DEFINE pointer == <<192, 12>>
<1>1. pointer \in Seq(Byte) /\ Len(pointer) = 2 /\ pointer[1] = 192
  BY Halves, TwoBytes
<1> HIDE DEF pointer
<1>2. ASSUME NEW buf \in Seq(Byte), NEW o \in Nat, Lies(pointer, buf, o)
      PROVE  skip_dns_name(buf, o) = Len(pointer)
  <2>1. o \in 0 .. Len(buf) - 1 /\ buf[o + 1] = 192
    BY <1>1, <1>2, LenProperties DEF Lies
  <2>2. QED
    BY <1>1, <2>1, SkipSteps
<1>3. IsName(pointer)
  BY <1>1, <1>2 DEF IsName
<1>4. IsName(Name) /\ Bytes(Name, Len(Name))
  BY EncodedName, QuestionType DEF Name
<1>5. Bytes(pointer, Len(pointer))
  BY <1>1 DEF Bytes
<1>6. QED
  BY <1>3, <1>4, <1>5 DEF Owner, pointer

RecordSize(r) == Len(Owner(r)) + 2 + 2 + 4 + 2 + Len(r.rdata)

LEMMA RecordParts ==
  ASSUME NEW r, IsRecord(r)
  PROVE  /\ Bytes(Record(r), RecordSize(r))
         /\ \A buf \in Seq(Byte), o \in Nat :
              Lies(Record(r), buf, o) =>
                /\ Lies(Owner(r), buf, o)
                /\ Lies(htons(r.type), buf, o + Len(Owner(r)))
                /\ Lies(htons(Len(r.rdata)), buf, o + (Len(Owner(r)) + 2 + 2 + 4))
                /\ Lies(r.rdata, buf, o + (Len(Owner(r)) + 2 + 2 + 4 + 2))
<1> DEFINE owner == Owner(r)
           type == htons(r.type)
           class == htons(1)
           ttl == <<0, 0, 0, 60>>
           size == htons(Len(r.rdata))
           rdata == r.rdata
           p1 == owner \o type
           p2 == p1 \o class
           p3 == p2 \o ttl
           p4 == p3 \o size
           record == p4 \o rdata
<1>1. /\ Bytes(owner, Len(owner)) /\ Bytes(type, 2) /\ Bytes(class, 2)
      /\ Bytes(size, 2) /\ Bytes(rdata, Len(rdata))
  <2>1. /\ r.type \in Half /\ Len(r.rdata) \in Half /\ 1 \in Half
        /\ r.rdata \in Seq(Byte)
    BY Halves DEF IsRecord
  <2>2. Bytes(rdata, Len(rdata))
    BY <2>1, LenProperties DEF Bytes
  <2>3. QED
    BY <2>1, <2>2, HalfBytes, OwnerIsName
<1>2. Bytes(ttl, 4)
  BY Halves, FourBytes DEF Bytes
<1>3. Record(r) = record
  BY DEF Record, DNS_CLASS_IN
<1> HIDE DEF owner, type, class, ttl, size, rdata
<1>4. Bytes(p1, Len(owner) + 2)
      /\ \A buf \in Seq(Byte), o \in Nat :
           Lies(p1, buf, o) => Lies(owner, buf, o) /\ Lies(type, buf, o + Len(owner))
  BY <1>1, Piece, Zenon
<1> HIDE DEF p1
<1>5. Bytes(p2, Len(owner) + 2 + 2)
      /\ \A buf \in Seq(Byte), o \in Nat : Lies(p2, buf, o) => Lies(p1, buf, o)
  BY <1>1, <1>4, Piece, Zenon
<1> HIDE DEF p2
<1>6. Bytes(p3, Len(owner) + 2 + 2 + 4)
      /\ \A buf \in Seq(Byte), o \in Nat : Lies(p3, buf, o) => Lies(p2, buf, o)
  BY <1>2, <1>5, Piece, Zenon
<1> HIDE DEF p3
<1>7. Bytes(p4, Len(owner) + 2 + 2 + 4 + 2)
      /\ \A buf \in Seq(Byte), o \in Nat :
           Lies(p4, buf, o) =>
             Lies(p3, buf, o) /\ Lies(size, buf, o + (Len(owner) + 2 + 2 + 4))
  BY <1>1, <1>6, Piece, Zenon
<1> HIDE DEF p4
<1>8. Bytes(record, Len(owner) + 2 + 2 + 4 + 2 + Len(rdata))
      /\ \A buf \in Seq(Byte), o \in Nat :
           Lies(record, buf, o) =>
             Lies(p4, buf, o) /\ Lies(rdata, buf, o + (Len(owner) + 2 + 2 + 4 + 2))
  BY <1>1, <1>7, Piece, Zenon
<1> HIDE DEF record
<1>9. ASSUME NEW buf \in Seq(Byte), NEW o \in Nat, Lies(record, buf, o)
      PROVE  /\ Lies(owner, buf, o)
             /\ Lies(type, buf, o + Len(owner))
             /\ Lies(size, buf, o + (Len(owner) + 2 + 2 + 4))
             /\ Lies(rdata, buf, o + (Len(owner) + 2 + 2 + 4 + 2))
  BY <1>4, <1>5, <1>6, <1>7, <1>8, <1>9, Zenon
<1>10. QED
  BY <1>3, <1>8, <1>9, Zenon DEF RecordSize, owner, type, size, rdata

(* The loop takes a record as it was written, and stands behind it. *)
LEMMA RecordTaken ==
  ASSUME NEW r, IsRecord(r), NEW buf \in Seq(Byte), NEW o \in Nat, NEW ips,
         Lies(Record(r), buf, o)
  PROVE  TakeRecord(buf, [offset |-> o, ips |-> ips]) =
           [offset |-> o + RecordSize(r),
            ips |-> IF IsA(r) /\ Len(ips) <= MAX_IPS THEN Append(ips, r.rdata) ELSE ips]
<1> DEFINE acc == [offset |-> o, ips |-> ips]
           l == Len(Owner(r))
           d == Len(r.rdata)
           offset == acc.offset + skip_dns_name(buf, acc.offset)
           type == ntohs(buf, offset)
           rdlength == ntohs(buf, offset + 8)
           rdata == offset + 10
           Kept == IsAddress(type, rdlength) /\ Len(acc.ips) <= MAX_IPS
<1>1. /\ r.type \in Half /\ d \in Half /\ d \in Nat /\ r.rdata \in Seq(Byte)
      /\ r.type = DNS_TYPE_A => d = 4
  <2>1. \A n \in Half : n \in Nat
    BY DEF Half
  <2>2. /\ r.type \in Half /\ d \in Half /\ r.rdata \in Seq(Byte)
        /\ r.type = DNS_TYPE_A => d = 4
    BY DEF IsRecord
  <2>3. QED
    BY <2>1, <2>2
<1>2. /\ Lies(Owner(r), buf, o)
      /\ Lies(htons(r.type), buf, o + l)
      /\ Lies(htons(d), buf, o + (l + 2 + 2 + 4))
      /\ Lies(r.rdata, buf, o + (l + 2 + 2 + 4 + 2))
  BY RecordParts
<1>3. IsName(Owner(r)) /\ l \in Nat /\ Len(buf) \in Nat
  BY OwnerIsName, LenProperties DEF Bytes
<1>4. skip_dns_name(buf, o) = l
  BY <1>2, <1>3 DEF IsName
<1>5. offset = o + l
  BY <1>4
<1> HIDE DEF l, d, offset
<1>6. /\ o + l \in Nat /\ o + (l + 2 + 2 + 4) \in Nat /\ o + (l + 2 + 2 + 4 + 2) \in Nat
      /\ o + (l + 2 + 2 + 4) = offset + 8 /\ o + (l + 2 + 2 + 4 + 2) = offset + 10
  BY <1>3, <1>5
<1>7. type = r.type /\ rdlength = d
  BY <1>1, <1>2, <1>5, <1>6, NetworkOrder
<1>8. offset + 10 + d <= Len(buf)
  BY <1>2, <1>6 DEF Lies, d
<1>9. ~(acc.offset >= Len(buf) \/ offset + 10 > Len(buf))
  BY <1>1, <1>3, <1>5, <1>8
<1>10. TakeRecord(buf, acc) =
         [offset |-> rdata + rdlength,
          ips |-> IF Kept THEN Append(acc.ips, SubSeq(buf, rdata + 1, rdata + 4))
                  ELSE acc.ips]
  BY <1>9 DEF TakeRecord, offset
<1>11. rdata + rdlength = o + RecordSize(r)
  <2>1. rdlength = d /\ d \in Nat /\ rdata = o + l + 10
    BY <1>1, <1>5, <1>7
  <2> HIDE DEF rdata, rdlength
  <2>2. rdata + rdlength = o + (l + 2 + 2 + 4 + 2 + d)
    BY <1>3, <2>1
  <2>3. QED
    BY <2>2 DEF RecordSize, l, d
<1>12. Kept <=> IsA(r) /\ Len(ips) <= MAX_IPS
  BY <1>1, <1>7 DEF IsA, IsAddress, DNS_TYPE_A
<1>13. ASSUME IsA(r) PROVE SubSeq(buf, rdata + 1, rdata + 4) = r.rdata
  <2>1. Len(r.rdata) = 4 /\ rdata \in Nat /\ Lies(r.rdata, buf, rdata)
    BY <1>1, <1>2, <1>6, <1>13 DEF IsA, d
  <2> HIDE DEF rdata
  <2>2. SubSeq(buf, rdata + 1, rdata + Len(r.rdata)) = r.rdata
    BY <1>1, <2>1, LiesSubSeq
  <2>3. QED
    BY <2>1, <2>2
<1> HIDE DEF type, rdlength, rdata
<1>14. QED
  <2>1. CASE Kept
    <3>1. IsA(r) /\ Len(ips) <= MAX_IPS
      BY <1>12, <2>1
    <3>2. TakeRecord(buf, acc) =
            [offset |-> rdata + rdlength, ips |-> Append(ips, SubSeq(buf, rdata + 1, rdata + 4))]
      BY <1>10, <2>1
    <3>3. QED
      BY <1>11, <1>13, <3>1, <3>2
  <2>2. CASE ~Kept
    <3>1. ~(IsA(r) /\ Len(ips) <= MAX_IPS)
      BY <1>12, <2>2
    <3>2. TakeRecord(buf, acc) = [offset |-> rdata + rdlength, ips |-> ips]
      BY <1>10, <2>2
    <3>3. QED
      BY <1>11, <3>1, <3>2
  <2>3. QED
    BY <2>1, <2>2

(* What the server finds in the query. *)
LEMMA ReadBack ==
  ASSUME NEW id \in Half
  PROVE  LET query == build_dns_query(Domain, id)
         IN  /\ SubSeq(query, HeaderSize + 1, Len(query) - 4) = Name
             /\ SubSeq(query, HeaderSize + 1, Len(query)) = Question
             /\ SubSeq(query, 5, 6) = htons(1)
             /\ Bytes(SubSeq(query, 1, 2), 2)
<1> DEFINE query == build_dns_query(Domain, id)
<1>1. /\ Bytes(query, Len(Name) + 16) /\ Lies(htons(1), query, 4)
      /\ Lies(Name, query, 12) /\ Lies(Question, query, 12)
  BY QueryParts, Zenon
<1> HIDE DEF query
<1>2. /\ query \in Seq(Byte) /\ Len(query) = Len(Name) + 16 /\ Len(query) \in Nat
      /\ Name \in Seq(Byte) /\ Len(Name) \in Nat
      /\ Question \in Seq(Byte) /\ Len(Question) = Len(Name) + 4
  BY <1>1, QuestionType DEF Bytes
<1>3. SubSeq(query, 12 + 1, 12 + Len(Name)) = Name
  BY <1>1, <1>2, LiesSubSeq
<1>4. SubSeq(query, 12 + 1, 12 + Len(Question)) = Question
  BY <1>1, <1>2, LiesSubSeq
<1>5. SubSeq(query, 4 + 1, 4 + Len(htons(1))) = htons(1) /\ Len(htons(1)) = 2
  BY <1>1, <1>2, Halves, HalfBytes, LiesSubSeq DEF Bytes
<1>6. Bytes(SubSeq(query, 1, 2), 2)
  <2>1. \A i \in 1..2 : query[i] \in Byte
    BY <1>2, ElementOfSeq
  <2>2. /\ SubSeq(query, 1, 2) \in Seq(Byte)
        /\ Len(SubSeq(query, 1, 2)) = IF 1 <= 2 THEN 2 - 1 + 1 ELSE 0
    BY <2>1, SubSeqProperties
  <2>3. QED
    BY <2>2 DEF Bytes
<1>7. /\ 12 + Len(Name) = Len(query) - 4 /\ 12 + Len(Question) = Len(query)
      /\ 12 + 1 = HeaderSize + 1 /\ 4 + 1 = 5
  BY <1>2 DEF HeaderSize
<1>8. 4 + Len(htons(1)) = 6
  BY <1>5
<1>9. /\ SubSeq(query, HeaderSize + 1, Len(query) - 4) = Name
      /\ SubSeq(query, HeaderSize + 1, Len(query)) = Question
      /\ SubSeq(query, 5, 6) = htons(1)
  BY <1>3, <1>4, <1>5, <1>7, <1>8
<1>10. QED
  BY <1>6, <1>9 DEF query

LEMMA RecordAsWritten ==
  ASSUME NEW id \in Half, NEW r
  PROVE  RecordBytes(r, build_dns_query(Domain, id)) = Record(r)
<1> DEFINE query == build_dns_query(Domain, id)
<1>1. SubSeq(query, HeaderSize + 1, Len(query) - 4) = Name
  BY ReadBack
<1> HIDE DEF query
<1>2. RecordBytes(r, query) = Record(r)
  BY <1>1 DEF RecordBytes, Record, Owner, HeaderSize
<1>3. QED
  BY <1>2 DEF query

AreRecords(records) ==
  /\ Len(records) \in Nat
  /\ \A i \in 1..Len(records) : IsRecord(records[i])

(* The records of a message one after the other. *)
Row(f, records) ==
  /\ f[0] = <<>>
  /\ \A i \in 1..Len(records) : f[i] = f[i - 1] \o Record(records[i])
  /\ \A i \in 0..Len(records) : f[i] \in Seq(Byte)

LEMMA RecordsInARow ==
  ASSUME NEW id \in Half, NEW records, AreRecords(records)
  PROVE  \E f : Row(f, records)
                /\ f[Len(records)] = RecordsBytes(records, build_dns_query(Domain, id))
<1> DEFINE query == build_dns_query(Domain, id)
           N == Len(records)
           S == Seq(Byte)
           first == <<>>
           Extended(s, n) == s \o RecordBytes(records[n], query)
           Body(g) == [n \in 0..N |-> IF n = 0 THEN first ELSE Extended(g[n - 1], n)]
           f == CHOOSE g : g = Body(g)
<1>1. N \in Nat
  BY DEF AreRecords
<1>2. first \in S
  BY NoLabels
<1>r. \A s, n : Extended(s, n) = s \o Record(records[n])
  BY RecordAsWritten
<1>3. ASSUME NEW s \in S, NEW n \in 1..N PROVE Extended(s, n) \in S
  <2>1. Record(records[n]) \in Seq(Byte)
    BY RecordParts DEF AreRecords, Bytes
  <2>2. s \o Record(records[n]) \in Seq(Byte)
    BY <2>1, ConcatProperties
  <2>3. QED
    BY <1>r, <2>2
<1>4. RecordsBytes(records, query) = f[N]
  BY DEF RecordsBytes
<1> HIDE DEF query, N, S, first, Extended
<1>5. \E g : g = Body(g)
  <2> DEFINE next == [n \in Nat |-> [s \in S |-> IF n \in 1..N THEN Extended(s, n) ELSE s]]
  <2>1. next \in [Nat -> [S -> S]]
    BY <1>3
  <2>2. \A s \in S, n \in 1..N : next[n][s] = Extended(s, n)
    BY <1>1
  <2> HIDE DEF next
  <2>3. PICK g \in [0..N -> S] : Unfolds(g, first, next, N)
    BY <1>1, <1>2, <2>1, Recursion
  <2>4. ASSUME NEW n \in 1..N PROVE g[n] = Extended(g[n - 1], n)
    <3>1. n - 1 \in 0..N
      BY <1>1
    <3>2. QED
      BY <2>2, <2>3, <3>1 DEF Unfolds
  <2>5. ASSUME NEW n \in 0..N PROVE g[n] = IF n = 0 THEN first ELSE Extended(g[n - 1], n)
    BY <1>1, <2>3, <2>4 DEF Unfolds
  <2>6. g = Body(g)
    BY <2>3, <2>5
  <2>7. QED
    BY <2>6
<1>6. f = Body(f)
  BY <1>5
<1> HIDE DEF f
<1>7. \A n \in 0..N : f[n] = Body(f)[n]
  BY <1>6, Zenon
<1>8. \A n \in 0..N : f[n] = IF n = 0 THEN first ELSE Extended(f[n - 1], n)
  BY <1>7
<1> DEFINE R == {n \in 0..N : f[n] \in S}
<1>9. 0 \in R
  BY <1>1, <1>2, <1>8
<1>10. ASSUME NEW n \in 1..N, n - 1 \in R PROVE n \in R
  BY <1>1, <1>3, <1>8, <1>10
<1> HIDE DEF R
<1>11. \A n \in 0..N : n \in R
  BY <1>1, <1>9, <1>10, InductionTo
<1>12. /\ f[0] = first
       /\ \A i \in 1..N : f[i] = Extended(f[i - 1], i)
       /\ \A i \in 0..N : f[i] \in S
  BY <1>1, <1>8, <1>11 DEF R
<1>13. \A i \in 1..N : f[i] = f[i - 1] \o Record(records[i])
  BY <1>r, <1>12
<1>14. Row(f, records)
  BY <1>12, <1>13 DEF Row, N, S, first
<1>15. f[N] = RecordsBytes(records, query)
  BY <1>4
<1>16. QED
  BY <1>14, <1>15 DEF N, query

(* What the A records up to each one hold. *)
Found(f, records) ==
  /\ f[0] = <<>>
  /\ \A i \in 1..Len(records) :
       f[i] = IF IsA(records[i]) THEN Append(f[i - 1], records[i].rdata) ELSE f[i - 1]
  /\ \A i \in 0..Len(records) : f[i] \in Seq([1..4 -> 0..255])

LEMMA AddressesFound ==
  ASSUME NEW records, AreRecords(records)
  PROVE  \E f : Found(f, records) /\ f[Len(records)] = Addresses(records)
<1> DEFINE N == Len(records)
           S == Seq([1..4 -> 0..255])
           first == <<>>
           Extended(s, n) == IF IsA(records[n]) THEN Append(s, records[n].rdata) ELSE s
           Body(g) == [n \in 0..N |-> IF n = 0 THEN first ELSE Extended(g[n - 1], n)]
           f == CHOOSE g : g = Body(g)
<1>1. N \in Nat
  BY DEF AreRecords
<1>2. first \in S
  BY EmptySeq
<1>r. \A s, n : Extended(s, n) = IF IsA(records[n]) THEN Append(s, records[n].rdata) ELSE s
  OBVIOUS
<1>3. ASSUME NEW s \in S, NEW n \in 1..N PROVE Extended(s, n) \in S
  <2>1. CASE IsA(records[n])
    <3>1. IsRecord(records[n])
      BY DEF AreRecords
    <3>2. records[n].rdata \in Seq(Byte) /\ Len(records[n].rdata) = 4
      BY <2>1, <3>1 DEF IsRecord, IsA
    <3>3. records[n].rdata \in [1..4 -> Byte]
      BY <3>2, LenProperties
    <3>4. records[n].rdata \in [1..4 -> 0..255]
      BY <3>3 DEF Byte
    <3>5. Append(s, records[n].rdata) \in S
      BY <3>4, AppendProperties
    <3>6. QED
      BY <2>1, <3>5
  <2>2. CASE ~IsA(records[n])
    BY <2>2
  <2>3. QED
    BY <2>1, <2>2
<1>4. Addresses(records) = f[N]
  BY DEF Addresses
<1> HIDE DEF N, S, first, Extended
<1>5. \E g : g = Body(g)
  <2> DEFINE next == [n \in Nat |-> [s \in S |-> IF n \in 1..N THEN Extended(s, n) ELSE s]]
  <2>1. next \in [Nat -> [S -> S]]
    BY <1>3
  <2>2. \A s \in S, n \in 1..N : next[n][s] = Extended(s, n)
    BY <1>1
  <2> HIDE DEF next
  <2>3. PICK g \in [0..N -> S] : Unfolds(g, first, next, N)
    BY <1>1, <1>2, <2>1, Recursion
  <2>4. ASSUME NEW n \in 1..N PROVE g[n] = Extended(g[n - 1], n)
    <3>1. n - 1 \in 0..N
      BY <1>1
    <3>2. QED
      BY <2>2, <2>3, <3>1 DEF Unfolds
  <2>5. ASSUME NEW n \in 0..N PROVE g[n] = IF n = 0 THEN first ELSE Extended(g[n - 1], n)
    BY <1>1, <2>3, <2>4 DEF Unfolds
  <2>6. g = Body(g)
    BY <2>3, <2>5
  <2>7. QED
    BY <2>6
<1>6. f = Body(f)
  BY <1>5
<1> HIDE DEF f
<1>7. \A n \in 0..N : f[n] = Body(f)[n]
  BY <1>6, Zenon
<1>8. \A n \in 0..N : f[n] = IF n = 0 THEN first ELSE Extended(f[n - 1], n)
  BY <1>7
<1> DEFINE R == {n \in 0..N : f[n] \in S}
<1>9. 0 \in R
  BY <1>1, <1>2, <1>8
<1>10. ASSUME NEW n \in 1..N, n - 1 \in R PROVE n \in R
  BY <1>1, <1>3, <1>8, <1>10
<1> HIDE DEF R
<1>11. \A n \in 0..N : n \in R
  BY <1>1, <1>9, <1>10, InductionTo
<1>12. /\ f[0] = first
       /\ \A i \in 1..N : f[i] = Extended(f[i - 1], i)
       /\ \A i \in 0..N : f[i] \in S
  BY <1>1, <1>8, <1>11 DEF R
<1>13. \A i \in 1..N : f[i] = IF IsA(records[i]) THEN Append(f[i - 1], records[i].rdata)
                              ELSE f[i - 1]
  BY <1>r, <1>12
<1>14. Found(f, records)
  BY <1>12, <1>13 DEF Found, N, S, first
<1>15. QED
  BY <1>4, <1>14 DEF N

-------------------------------------------------------------------------------
(* Answers                                                                  *)

(* Where the parts of an answer lie. *)
LEMMA AnswerParts ==
  ASSUME NEW id \in Half, NEW rcode \in 0..15,
         NEW records, AreRecords(records), Len(records) \in Half
  PROVE  LET query == build_dns_query(Domain, id)
             buf == ResponseBytes(query, rcode, records)
         IN  /\ buf \in Seq(Byte) /\ Len(buf) \in Nat /\ Len(buf) >= 12
             /\ ntohs(buf, 2) % 16 = rcode
             /\ ntohs(buf, 4) = 1
             /\ ntohs(buf, 6) = Len(records)
             /\ Lies(Name, buf, 12)
             /\ Lies(RecordsBytes(records, query), buf, 12 + (Len(Name) + 4))
<1> DEFINE query == build_dns_query(Domain, id)
           buf == ResponseBytes(query, rcode, records)
           start == SubSeq(query, 1, 2)
           flags == <<129, 128 + rcode>>
           one == htons(1)
           count == htons(Len(records))
           zeros == <<0, 0, 0, 0>>
           rows == RecordsBytes(records, query)
           p1 == start \o flags
           p2 == p1 \o one
           p3 == p2 \o count
           p4 == p3 \o zeros
           p5 == p4 \o Question
           p6 == p5 \o rows
<1>1. buf = p6
  BY ReadBack DEF ResponseBytes
<1>2. /\ Bytes(start, 2) /\ Bytes(one, 2) /\ Bytes(count, 2)
      /\ Bytes(Question, Len(Name) + 4) /\ Len(Name) \in Nat
  BY ReadBack, Halves, HalfBytes, QuestionType DEF Bytes
<1>3. Bytes(zeros, 4)
  BY Halves, FourBytes DEF Bytes
<1>4. Bytes(flags, 2) /\ flags[1] = 129 /\ flags[2] = 128 + rcode
  <2>1. 129 \in Byte /\ 128 + rcode \in Byte
    BY DEF Byte
  <2>2. QED
    BY <2>1, TwoBytes DEF Bytes
<1>5. Bytes(rows, Len(rows))
  <2>1. PICK f : Row(f, records) /\ f[Len(records)] = rows
    BY RecordsInARow
  <2>2. f[Len(records)] \in Seq(Byte)
    BY <2>1 DEF Row, AreRecords
  <2>3. rows \in Seq(Byte)
    BY <2>1, <2>2
  <2> HIDE DEF rows
  <2>4. QED
    BY <2>3, LenProperties DEF Bytes
<1>n. Question = (Name \o one) \o one
  BY DEF Question, DNS_TYPE_A, DNS_CLASS_IN
<1>c. /\ \A b \in Seq(Byte), o \in Nat : Lies(one, b, o) => ntohs(b, o) = 1
      /\ \A b \in Seq(Byte), o \in Nat : Lies(count, b, o) => ntohs(b, o) = Len(records)
  BY Halves, NetworkOrder
<1> HIDE DEF query, buf, start, flags, one, count, zeros, rows
<1> DEFINE Starts(s, t) == \A b \in Seq(Byte) : Lies(t, b, 0) => Lies(s, b, 0)
           Has(s, t, m) == \A b \in Seq(Byte) : Lies(t, b, 0) => Lies(s, b, m)
<1>p. ASSUME NEW s, NEW t, NEW m, NEW n, Bytes(s, m), Bytes(t, n)
      PROVE  /\ Bytes(s \o t, m + n) /\ Starts(s, s \o t) /\ Has(t, s \o t, m)
  <2>1. m \in Nat /\ 0 + m = m
    BY <1>p DEF Bytes
  <2>2. Bytes(s \o t, m + n)
    BY <1>p, Piece, Zenon
  <2>3. ASSUME NEW b \in Seq(Byte), Lies(s \o t, b, 0)
        PROVE  Lies(s, b, 0) /\ Lies(t, b, 0 + m)
    <3>1. 0 \in Nat
      OBVIOUS
    <3>2. QED
      BY <1>p, <2>3, <3>1, Piece, Zenon
  <2>4. QED
    BY <2>1, <2>2, <2>3
<1> HIDE DEF Starts, Has
<1>6. Bytes(p1, 4) /\ Has(flags, p1, 2)
  <2>1. 2 + 2 = 4
    OBVIOUS
  <2>2. QED
    <3>1. Bytes(start, 2) /\ Bytes(flags, 2)
      BY <1>2, <1>4
    <3>2. Bytes(start \o flags, 2 + 2) /\ Has(flags, start \o flags, 2)
      BY <1>p, <3>1, Zenon
    <3>3. QED
      BY <2>1, <3>2
<1> HIDE DEF p1
<1>7. Bytes(p2, 6) /\ Starts(p1, p2) /\ Has(one, p2, 4)
  <2>1. 4 + 2 = 6
    OBVIOUS
  <2>2. QED
    BY <1>2, <1>6, <1>p, <2>1
<1> HIDE DEF p2
<1>8. Bytes(p3, 8) /\ Starts(p2, p3) /\ Has(count, p3, 6)
  <2>1. 6 + 2 = 8
    OBVIOUS
  <2>2. QED
    BY <1>2, <1>7, <1>p, <2>1
<1> HIDE DEF p3
<1>9. Bytes(p4, 12) /\ Starts(p3, p4)
  <2>1. 8 + 4 = 12
    OBVIOUS
  <2>2. QED
    BY <1>3, <1>8, <1>p, <2>1
<1> HIDE DEF p4
<1>10. Bytes(p5, 12 + (Len(Name) + 4)) /\ Starts(p4, p5) /\ Has(Question, p5, 12)
  BY <1>2, <1>9, <1>p
<1> HIDE DEF p5
<1>11. Bytes(p6, 12 + (Len(Name) + 4) + Len(rows)) /\ Starts(p5, p6)
       /\ Has(rows, p6, 12 + (Len(Name) + 4))
  BY <1>5, <1>10, <1>p
<1> HIDE DEF p6
<1>12. /\ buf \in Seq(Byte) /\ Len(buf) = 12 + (Len(Name) + 4) + Len(rows)
       /\ Len(buf) \in Nat /\ Len(rows) \in Nat
  BY <1>1, <1>5, <1>11 DEF Bytes
<1>13. Lies(p6, buf, 0)
  BY <1>1, <1>12, LiesSelf
<1>14. /\ Lies(flags, buf, 2) /\ Lies(one, buf, 4) /\ Lies(count, buf, 6)
       /\ Lies(Question, buf, 12) /\ Lies(rows, buf, 12 + (Len(Name) + 4))
  BY <1>6, <1>7, <1>8, <1>9, <1>10, <1>11, <1>12, <1>13, Zenon DEF Starts, Has
<1>15. ntohs(buf, 4) = 1 /\ ntohs(buf, 6) = Len(records)
  BY <1>c, <1>12, <1>14
<1>16. ntohs(buf, 2) % 16 = rcode
  <2>1. buf[2 + 1] = flags[1] /\ buf[2 + 2] = flags[2]
    <3>1. Len(flags) = 2 /\ 1 \in 1..2 /\ 2 \in 1..2
      BY <1>4 DEF Bytes
    <3>2. \A i \in 1..Len(flags) : buf[2 + i] = flags[i]
      BY <1>14 DEF Lies
    <3>3. QED
      BY <3>1, <3>2
  <2>2. ntohs(buf, 2) = 256 * 129 + (128 + rcode)
    BY <1>4, <2>1 DEF ntohs
  <2>3. (256 * 129 + (128 + rcode)) % 16 = rcode
    OBVIOUS
  <2>4. QED
    BY <2>2, <2>3
<1>17. Lies(Name, buf, 12)
  <2>1. Bytes(Name \o one, Len(Name) + 2) /\ Bytes(Name, Len(Name))
    BY <1>2, QuestionType, Piece, Zenon
  <2>2. 12 \in Nat
    OBVIOUS
  <2>3. Lies((Name \o one) \o one, buf, 12)
    BY <1>n, <1>14
  <2>4. Lies(Name \o one, buf, 12)
    BY <1>2, <1>12, <2>1, <2>2, <2>3, Piece, Zenon
  <2>5. QED
    BY <1>2, <1>12, <2>1, <2>2, <2>4, Piece, Zenon
<1>18. Len(buf) >= 12
  BY <1>2, <1>12
<1>19. QED
  BY <1>12, <1>14, <1>15, <1>16, <1>17, <1>18 DEF buf, query, rows

(* The records begin where the one question ends. *)
LEMMA QuestionSkipped ==
  ASSUME NEW buf \in Seq(Byte), ntohs(buf, 4) = 1, Lies(Name, buf, 12)
  PROVE  AfterQuestions(buf) = 12 + (Len(Name) + 4)
<1> DEFINE k == 12 + skip_dns_name(buf, 12) + 4
           Body(g) == [n \in 0..1 |-> IF n = 0 THEN HeaderSize
                                      ELSE g[n - 1] + skip_dns_name(buf, g[n - 1]) + 4]
           f == CHOOSE g : g = Body(g)
           h == [n \in 0..1 |-> IF n = 0 THEN 12 ELSE k]
<1>1. skip_dns_name(buf, 12) = Len(Name) /\ Len(Name) \in Nat
  <2>1. IsName(Name) /\ 12 \in Nat
    BY EncodedName DEF Name
  <2>2. QED
    BY <2>1, QuestionType DEF IsName, Bytes
<1>2. AfterQuestions(buf) = f[1]
  BY DEF AfterQuestions
<1>3. \E g : g = Body(g)
  <2> HIDE DEF k
  <2>1. h = Body(h)
    <3> SUFFICES ASSUME NEW n \in 0..1
                 PROVE  h[n] = IF n = 0 THEN HeaderSize
                               ELSE h[n - 1] + skip_dns_name(buf, h[n - 1]) + 4
      OBVIOUS
    <3>1. n = 0 \/ n = 1
      OBVIOUS
    <3>2. h[0] = 12 /\ h[1] = k
      OBVIOUS
    <3> HIDE DEF h
    <3>3. QED
      BY <3>1, <3>2 DEF HeaderSize, k
  <2>2. QED
    BY <2>1
<1>4. f = Body(f)
  BY <1>3
<1> HIDE DEF f
<1>5. f[0] = Body(f)[0] /\ f[1] = Body(f)[1]
  BY <1>4, Zenon
<1>6. f[0] = 12 /\ f[1] = f[0] + skip_dns_name(buf, f[0]) + 4
  BY <1>5 DEF HeaderSize
<1>7. QED
  BY <1>1, <1>2, <1>6

Address == [1..4 -> 0..255]

(* As many addresses as are kept. *)
Retained(s) == SubSeq(s, 1, Smaller(Len(s), MAX_IPS + 1))

LEMMA RetainedParts ==
  ASSUME NEW s \in Seq(Address)
  PROVE  /\ Retained(s) \in Seq(Address)
         /\ Len(Retained(s)) = Smaller(Len(s), MAX_IPS + 1)
         /\ \A i \in 1 .. Smaller(Len(s), MAX_IPS + 1) : Retained(s)[i] = s[i]
         /\ Smaller(Len(s), MAX_IPS + 1) \in 0..Len(s)
<1> DEFINE n == Smaller(Len(s), MAX_IPS + 1)
<1>1. n \in 0..Len(s) /\ n \in Int /\ n >= 0
  BY MaxIpsAssumption, LenProperties DEF Smaller
<1> HIDE DEF n
<1>2. \A i \in 1..n : s[i] \in Address
  <2>1. \A i \in 1..n : i \in 1..Len(s)
    BY <1>1, LenProperties
  <2>2. QED
    BY <2>1, ElementOfSeq
<1> DEFINE k == SubSeq(s, 1, n)
<1>3. /\ k \in Seq(Address)
      /\ Len(k) = IF 1 <= n THEN n - 1 + 1 ELSE 0
      /\ \A i \in 1 .. n - 1 + 1 : k[i] = s[1 + i - 1]
  BY <1>1, <1>2, SubSeqProperties
<1> HIDE DEF k
<1>4. Len(k) = n
  BY <1>1, <1>3
<1>5. ASSUME NEW i \in 1..n PROVE k[i] = s[i]
  <2>1. n - 1 + 1 = n /\ 1 + i - 1 = i
    BY <1>1
  <2>2. QED
    BY <1>3, <2>1
<1>6. QED
  BY <1>1, <1>3, <1>4, <1>5 DEF Retained, k, n

LEMMA RetainedNone == Retained(<<>>) = <<>>
<1>1. <<>> \in Seq(Address) /\ Len(<<>>) = 0
  BY EmptySeq
<1>2. Smaller(0, MAX_IPS + 1) = 0
  BY MaxIpsAssumption DEF Smaller
<1>3. SubSeq(<<>>, 1, 0) = <<>>
  BY SubSeqEmpty
<1>4. QED
  BY <1>1, <1>2, <1>3 DEF Retained

(* One more address is kept while there is room. *)
LEMMA RetainedNext ==
  ASSUME NEW s \in Seq(Address), NEW e \in Address
  PROVE  Retained(Append(s, e)) = IF Len(Retained(s)) <= MAX_IPS THEN Append(Retained(s), e) ELSE Retained(s)
<1> DEFINE t == Append(s, e)
           m == MAX_IPS + 1
<1>1. /\ t \in Seq(Address) /\ Len(t) = Len(s) + 1 /\ Len(s) \in Nat
      /\ \A i \in 1..Len(s) : t[i] = s[i]
      /\ t[Len(s) + 1] = e
  BY AppendProperties, LenProperties
<1>2. /\ m \in Nat /\ m = MAX_IPS + 1 /\ MAX_IPS \in Nat
      /\ \A a, b \in Nat : Smaller(a, b) = IF a <= b THEN a ELSE b
  BY MaxIpsAssumption DEF Smaller
<1> HIDE DEF t, m
<1>3. /\ Retained(s) \in Seq(Address) /\ Len(Retained(s)) = Smaller(Len(s), m)
      /\ \A i \in 1 .. Smaller(Len(s), m) : Retained(s)[i] = s[i]
  BY <1>2, RetainedParts
<1>4. /\ Retained(t) \in Seq(Address) /\ Len(Retained(t)) = Smaller(Len(t), m)
      /\ \A i \in 1 .. Smaller(Len(t), m) : Retained(t)[i] = t[i]
  BY <1>1, <1>2, RetainedParts
<1>5. CASE Len(s) < m
  <2>1. Smaller(Len(s), m) = Len(s) /\ Smaller(Len(t), m) = Len(s) + 1
    BY <1>1, <1>2, <1>5
  <2>2. Len(Retained(s)) = Len(s) /\ Len(Retained(t)) = Len(s) + 1
    BY <1>3, <1>4, <2>1
  <2>3. /\ Append(Retained(s), e) \in Seq(Address) /\ Len(Append(Retained(s), e)) = Len(s) + 1
        /\ \A i \in 1..Len(s) : Append(Retained(s), e)[i] = Retained(s)[i]
        /\ Append(Retained(s), e)[Len(s) + 1] = e
    BY <1>3, <2>2, AppendProperties
  <2>4. ASSUME NEW i \in 1 .. Len(s) + 1 PROVE Retained(t)[i] = Append(Retained(s), e)[i]
    <3>1. Retained(t)[i] = t[i]
      BY <1>4, <2>1
    <3>2. CASE i = Len(s) + 1
      BY <1>1, <2>3, <3>1, <3>2
    <3>3. CASE i # Len(s) + 1
      <4>1. i \in 1..Len(s)
        BY <1>1, <3>3
      <4>2. QED
        BY <1>1, <1>3, <2>1, <2>3, <3>1, <4>1
    <3>4. QED
      BY <3>2, <3>3
  <2>5. Retained(t) = Append(Retained(s), e)
    BY <1>4, <2>2, <2>3, <2>4, SeqEqual
  <2>6. Len(Retained(s)) <= MAX_IPS
    BY <1>1, <1>2, <1>5, <2>2
  <2>7. QED
    BY <2>5, <2>6 DEF t
<1>6. CASE ~(Len(s) < m)
  <2>1. Smaller(Len(s), m) = m /\ Smaller(Len(t), m) = m
    BY <1>1, <1>2, <1>6
  <2>2. Len(Retained(s)) = m /\ Len(Retained(t)) = m
    BY <1>3, <1>4, <2>1
  <2>3. ASSUME NEW i \in 1 .. m PROVE Retained(t)[i] = Retained(s)[i]
    <3>1. i \in 1..Len(s)
      BY <1>1, <1>2, <1>6
    <3>2. QED
      BY <1>1, <1>3, <1>4, <2>1, <3>1
  <2>4. Retained(t) = Retained(s)
    BY <1>3, <1>4, <2>2, <2>3, SeqEqual
  <2>5. ~(Len(Retained(s)) <= MAX_IPS)
    BY <1>2, <2>2
  <2>6. QED
    BY <2>4, <2>5 DEF t
<1>7. QED
  BY <1>5, <1>6

(* What the loop over the records of an answer leaves. *)
LEMMA RecordsTaken ==
  ASSUME NEW buf \in Seq(Byte), NEW base \in Nat,
         NEW records, AreRecords(records), NEW f, Row(f, records), NEW g, Found(g, records),
         Lies(f[Len(records)], buf, base),
         NEW h,
         \A n \in 0..Len(records) : h[n] = [offset |-> base + Len(f[n]), ips |-> Retained(g[n])]
  PROVE  \A n \in 0..Len(records) :
           h[n] = IF n = 0 THEN [offset |-> base, ips |-> <<>>]
                  ELSE TakeRecord(buf, h[n - 1])
<1> DEFINE N == Len(records)
           R == {k \in 0..N : Lies(f[N - k], buf, base)}
<1>1. /\ N \in Nat /\ \A i \in 1..N : IsRecord(records[i])
      /\ f[0] = <<>> /\ g[0] = <<>>
      /\ \A i \in 1..N : f[i] = f[i - 1] \o Record(records[i])
      /\ \A i \in 0..N : f[i] \in Seq(Byte)
      /\ \A i \in 0..N : g[i] \in Seq(Address)
      /\ \A i \in 1..N : g[i] = IF IsA(records[i]) THEN Append(g[i - 1], records[i].rdata)
                                ELSE g[i - 1]
  BY DEF AreRecords, Row, Found, Address
<1>2. ASSUME NEW i \in 1..N
      PROVE  /\ Bytes(f[i - 1], Len(f[i - 1]))
             /\ Bytes(Record(records[i]), RecordSize(records[i]))
             /\ f[i] = f[i - 1] \o Record(records[i])
             /\ i - 1 \in 0..N
  <2>1. i - 1 \in 0..N
    BY <1>1
  <2>2. f[i - 1] \in Seq(Byte)
    BY <1>1, <2>1
  <2>3. Bytes(f[i - 1], Len(f[i - 1]))
    BY <2>2, LenProperties DEF Bytes
  <2>4. QED
    BY <1>1, <2>1, <2>3, RecordParts
<1>3. 0 \in R
  BY <1>1
<1>4. ASSUME NEW k \in 1..N, k - 1 \in R PROVE k \in R
  <2>1. N - k + 1 \in 1..N /\ N - (k - 1) = N - k + 1 /\ (N - k + 1) - 1 = N - k
    BY <1>1
  <2>2. Lies(f[N - k] \o Record(records[N - k + 1]), buf, base)
    BY <1>1, <1>4, <2>1
  <2>3. Lies(f[N - k], buf, base)
    <3>1. /\ Bytes(f[N - k], Len(f[N - k]))
          /\ Bytes(Record(records[N - k + 1]), RecordSize(records[N - k + 1]))
      BY <1>2, <2>1
    <3>2. QED
      BY <2>2, <3>1, Piece, Zenon
  <2>4. QED
    BY <2>3
<1> HIDE DEF R
<1>5. \A k \in 0..N : k \in R
  BY <1>1, <1>3, <1>4, InductionTo
<1>6. ASSUME NEW i \in 1..N PROVE Lies(f[i], buf, base)
  <2>1. N - i \in 0..N /\ N - (N - i) = i
    BY <1>1
  <2>2. QED
    BY <1>5, <2>1 DEF R
<1>7. ASSUME NEW i \in 1..N
      PROVE  TakeRecord(buf, [offset |-> base + Len(f[i - 1]), ips |-> Retained(g[i - 1])]) =
               [offset |-> base + Len(f[i]), ips |-> Retained(g[i])]
  <2> DEFINE r == records[i]
             o == base + Len(f[i - 1])
             ips == Retained(g[i - 1])
  <2>1. /\ IsRecord(r) /\ i - 1 \in 0..N /\ g[i - 1] \in Seq(Address)
        /\ g[i] = IF IsA(r) THEN Append(g[i - 1], r.rdata) ELSE g[i - 1]
    BY <1>1, <1>2
  <2>2. Lies(f[i - 1] \o Record(r), buf, base)
    BY <1>1, <1>6
  <2>3. /\ Lies(Record(r), buf, o) /\ Bytes(f[i], Len(f[i - 1]) + RecordSize(r))
    <3>1. Bytes(f[i], Len(f[i - 1]) + RecordSize(r))
      BY <1>2, Piece, Zenon
    <3>2. Lies(Record(r), buf, o)
      BY <1>2, <2>2, Piece, Zenon
    <3>3. QED
      BY <3>1, <3>2
  <2>4. /\ o \in Nat /\ RecordSize(r) \in Nat /\ Len(f[i - 1]) \in Nat
        /\ Len(f[i]) = Len(f[i - 1]) + RecordSize(r)
    <3>1. Len(f[i - 1]) \in Nat /\ RecordSize(r) \in Nat
      BY <1>2 DEF Bytes
    <3>2. QED
      BY <2>3, <3>1 DEF Bytes
  <2>5. o + RecordSize(r) = base + Len(f[i])
    BY <2>4
  <2>6. (IF IsA(r) /\ Len(ips) <= MAX_IPS THEN Append(ips, r.rdata) ELSE ips) = Retained(g[i])
    <3>1. CASE IsA(r)
      <4>1. r.rdata \in Seq(Byte) /\ Len(r.rdata) = 4
        BY <2>1, <3>1 DEF IsRecord, IsA
      <4>2. r.rdata \in [1..4 -> Byte]
        BY <4>1, LenProperties
      <4>3. r.rdata \in Address
        BY <4>2 DEF Byte, Address
      <4> HIDE DEF r
      <4>4. Retained(Append(g[i - 1], r.rdata)) =
              IF Len(ips) <= MAX_IPS THEN Append(ips, r.rdata) ELSE ips
        BY <2>1, <4>3, RetainedNext
      <4>5. QED
        BY <2>1, <3>1, <4>4
    <3>2. CASE ~IsA(r)
      BY <2>1, <3>2
    <3>3. QED
      BY <3>1, <3>2
  <2> HIDE DEF r, o, ips
  <2>7. TakeRecord(buf, [offset |-> o, ips |-> ips]) =
          [offset |-> o + RecordSize(r),
           ips |-> IF IsA(r) /\ Len(ips) <= MAX_IPS THEN Append(ips, r.rdata) ELSE ips]
    BY <2>1, <2>3, <2>4, RecordTaken
  <2>8. TakeRecord(buf, [offset |-> o, ips |-> ips]) =
          [offset |-> base + Len(f[i]), ips |-> Retained(g[i])]
    BY <2>5, <2>6, <2>7
  <2>9. QED
    BY <2>8 DEF o, ips
<1>8. ASSUME NEW n \in 0..N
      PROVE  h[n] = IF n = 0 THEN [offset |-> base, ips |-> <<>>]
                    ELSE TakeRecord(buf, h[n - 1])
  <2>1. CASE n = 0
    <3>1. h[n] = [offset |-> base + Len(f[n]), ips |-> Retained(g[n])]
      OBVIOUS
    <3>2. Len(f[0]) = 0 /\ Retained(g[0]) = <<>> /\ base + 0 = base
      BY <1>1, RetainedNone, EmptySeq
    <3>3. QED
      BY <2>1, <3>1, <3>2
  <2>2. CASE n # 0
    <3>1. n \in 1..N /\ n - 1 \in 0..N
      BY <1>1, <2>2
    <3>2. h[n - 1] = [offset |-> base + Len(f[n - 1]), ips |-> Retained(g[n - 1])]
      BY <3>1
    <3>3. h[n] = [offset |-> base + Len(f[n]), ips |-> Retained(g[n])]
      OBVIOUS
    <3>4. QED
      BY <1>7, <2>2, <3>1, <3>2, <3>3
  <2>3. QED
    BY <2>1, <2>2
<1>9. QED
  BY <1>8

(* The addresses read from an answer are those of its A records. *)
LEMMA AnswerRead ==
  ASSUME NEW id \in Half, NEW rcode \in 0..15,
         NEW records, AreRecords(records), Len(records) \in Half
  PROVE  /\ parse_dns_response(ResponseBytes(build_dns_query(Domain, id), rcode, records)) =
              IF rcode = 0 THEN Retained(Addresses(records)) ELSE <<>>
         /\ Addresses(records) \in Seq(Address)
<1> DEFINE query == build_dns_query(Domain, id)
           buf == ResponseBytes(query, rcode, records)
           base == 12 + (Len(Name) + 4)
           N == Len(records)
           start == [offset |-> AfterQuestions(buf), ips |-> <<>>]
           Body(t) == [n \in 0..N |-> IF n = 0 THEN start ELSE TakeRecord(buf, t[n - 1])]
           taken == CHOOSE t : t = Body(t)
<1>1. /\ buf \in Seq(Byte) /\ Len(buf) \in Nat /\ Len(buf) >= 12
      /\ ntohs(buf, 2) % 16 = rcode /\ ntohs(buf, 4) = 1 /\ ntohs(buf, 6) = N
      /\ Lies(Name, buf, 12) /\ Lies(RecordsBytes(records, query), buf, base)
  BY AnswerParts, Zenon
<1>2. PICK f : Row(f, records) /\ f[N] = RecordsBytes(records, query)
  BY RecordsInARow
<1>3. PICK g : Found(g, records) /\ g[N] = Addresses(records)
  BY AddressesFound
<1>4. Addresses(records) \in Seq(Address) /\ N \in Nat
  BY <1>3 DEF Found, Address, AreRecords
<1> HIDE DEF query, buf
<1>5. AfterQuestions(buf) = base
  BY <1>1, QuestionSkipped
<1>b. base \in Nat
  BY QuestionType DEF Bytes
<1>6. parse_dns_response(buf) = IF rcode = 0 THEN taken[N].ips ELSE <<>>
  <2>1. ~(Len(buf) < HeaderSize)
    BY <1>1 DEF HeaderSize
  <2>2. ntohs(buf, 2) % 16 = rcode /\ ntohs(buf, 6) = N
    BY <1>1
  <2> DEFINE Ips(k) ==
        LET all[n \in 0..k] == IF n = 0 THEN start ELSE TakeRecord(buf, all[n - 1])
        IN  all[k].ips
  <2>3. parse_dns_response(buf) =
          IF Len(buf) < HeaderSize \/ ntohs(buf, 2) % 16 # 0 THEN <<>> ELSE Ips(ntohs(buf, 6))
    BY DEF parse_dns_response
  <2>4. Ips(N) = taken[N].ips
    OBVIOUS
  <2> HIDE DEF Ips, taken, N
  <2>5. QED
    BY <2>1, <2>2, <2>3, <2>4
<1> HIDE DEF base
<1> DEFINE h == [n \in 0..N |-> [offset |-> base + Len(f[n]), ips |-> Retained(g[n])]]
<1>7. h[N] = [offset |-> base + Len(f[N]), ips |-> Retained(g[N])]
  BY <1>4
<1>8. h = Body(h)
  <2>1. /\ buf \in Seq(Byte) /\ base \in Nat
        /\ Row(f, records) /\ Found(g, records)
        /\ Lies(f[Len(records)], buf, base)
    BY <1>1, <1>b, <1>2, <1>3
  <2>2. /\ \A n \in 0..N : h[n] = [offset |-> base + Len(f[n]), ips |-> Retained(g[n])]
        /\ h = [n \in 0..N |-> h[n]]
    OBVIOUS
  <2> HIDE DEF N, h
  <2>3. \A n \in 0..Len(records) : h[n] = [offset |-> base + Len(f[n]), ips |-> Retained(g[n])]
    BY <2>2 DEF N
  <2>4. \A n \in 0..Len(records) :
           h[n] = IF n = 0 THEN [offset |-> base, ips |-> <<>>]
                  ELSE TakeRecord(buf, h[n - 1])
    BY <2>1, <2>3, RecordsTaken
  <2>5. \A n \in 0..N : h[n] = IF n = 0 THEN start ELSE TakeRecord(buf, h[n - 1])
    BY <1>5, <2>4 DEF N
  <2> HIDE DEF start
  <2>6. QED
    BY <2>2, <2>5
<1> HIDE DEF h, start
<1>9. taken = Body(taken)
  BY <1>8
<1> HIDE DEF taken, N
<1>10. ASSUME NEW t, t = Body(t) PROVE \A n \in 0..N : t[n] = Body(t)[n]
  BY <1>10, Zenon
<1>11. \A n \in 0..N : taken[n] = IF n = 0 THEN start ELSE TakeRecord(buf, taken[n - 1])
  BY <1>9, <1>10
<1>12. \A n \in 0..N : h[n] = IF n = 0 THEN start ELSE TakeRecord(buf, h[n - 1])
  BY <1>8, <1>10
<1> DEFINE R == {n \in 0..N : taken[n] = h[n]}
<1>13. 0 \in R
  BY <1>4, <1>11, <1>12
<1>14. ASSUME NEW n \in 1..N, n - 1 \in R PROVE n \in R
  BY <1>4, <1>11, <1>12, <1>14
<1> HIDE DEF R
<1>15. \A n \in 0..N : n \in R
  BY <1>4, <1>13, <1>14, InductionTo
<1>16. taken[N] = h[N]
  BY <1>4, <1>15 DEF R
<1>17. taken[N].ips = Retained(Addresses(records))
  BY <1>3, <1>7, <1>16
<1>18. QED
  BY <1>4, <1>6, <1>17 DEF buf, query

(* The addresses that main() has of the datagram of a reply. *)
LEMMA ReplyRead ==
  ASSUME NEW id \in Half, NEW r \in Replies, r # NoReply
  PROVE  /\ parse_dns_response(Datagram(r, build_dns_query(Domain, id))) = Retained(AddressesOf(r))
         /\ AddressesOf(r) \in Seq(Address)
<1> DEFINE query == build_dns_query(Domain, id)
<1>1. CASE r = Short
  <2>1. AddressesOf(r) = <<>>
    BY <1>1 DEF AddressesOf
  <2>2. Datagram(r, query) = <<query[1]>>
    BY <1>1 DEF Datagram
  <2> HIDE DEF query
  <2>3. parse_dns_response(<<query[1]>>) = <<>>
    <3>1. Len(<<query[1]>>) = 1
      OBVIOUS
    <3>2. Len(<<query[1]>>) < HeaderSize
      BY <3>1 DEF HeaderSize
    <3>3. QED
      BY <3>2 DEF parse_dns_response
  <2>4. <<>> \in Seq(Address)
    BY EmptySeq
  <2>5. QED
    BY <2>1, <2>2, <2>3, <2>4, RetainedNone DEF query
<1>2. CASE r # Short
  <2>1. /\ r.rcode \in 0..15 /\ AreRecords(r.records) /\ Len(r.records) \in Half
    <3>1. /\ r.rcode \in 0..15 /\ Len(r.records) \in Half
          /\ r.records \in Seq({r.records[i] : i \in DOMAIN r.records})
          /\ \A i \in DOMAIN r.records : IsRecord(r.records[i])
      BY <1>2, ReplyAssumption
    <3>2. DOMAIN r.records = 1..Len(r.records) /\ Len(r.records) \in Nat
      BY <3>1, LenProperties
    <3>3. QED
      BY <3>1, <3>2 DEF AreRecords
  <2>2. Datagram(r, query) = ResponseBytes(query, r.rcode, r.records)
    BY <1>2 DEF Datagram
  <2>3. AddressesOf(r) = IF r.rcode # 0 THEN <<>> ELSE Addresses(r.records)
    BY <1>2 DEF AddressesOf
  <2>4. /\ parse_dns_response(Datagram(r, query)) =
             IF r.rcode = 0 THEN Retained(Addresses(r.records)) ELSE <<>>
        /\ Addresses(r.records) \in Seq(Address)
    BY <2>1, <2>2, AnswerRead
  <2>5. <<>> \in Seq(Address)
    BY EmptySeq
  <2> HIDE DEF query
  <2>6. QED
    BY <2>3, <2>4, <2>5, RetainedNone DEF query
<1>3. QED
  BY <1>1, <1>2

-------------------------------------------------------------------------------
(* What main() makes of the answers                                         *)

LEMMA NoneRetained == ASSUME NEW s \in Seq(Address), Retained(s) = <<>> PROVE s = <<>>
<1>1. Len(Retained(s)) = Smaller(Len(s), MAX_IPS + 1) /\ Len(s) \in Nat
  BY RetainedParts, LenProperties
<1>2. Smaller(Len(s), MAX_IPS + 1) = 0
  BY <1>1
<1>3. Len(s) = 0
  BY <1>1, <1>2, MaxIpsAssumption DEF Smaller
<1>4. QED
  BY <1>3, EmptySeq

(* What the retained addresses say of a domain. *)
LEMMA RetainedBlocked ==
  ASSUME NEW r, NEW s \in Seq(Address), s = AddressesOf(r)
  PROVE  /\ IsBlocked(Retained(s)) => SaysBlocked(r)
         /\ ~IsBlocked(Retained(s)) => (SaysBlocked(r) => Len(s) > MAX_IPS + 1)
<1> DEFINE n == Smaller(Len(s), MAX_IPS + 1)
<1>1. /\ Retained(s) \in Seq(Address) /\ Len(Retained(s)) = n
      /\ \A i \in 1..n : Retained(s)[i] = s[i]
      /\ n \in 0..Len(s) /\ Len(s) \in Nat
      /\ DOMAIN s = 1..Len(s) /\ DOMAIN Retained(s) = 1..n
  BY RetainedParts, LenProperties
<1>2. ~(Len(s) > MAX_IPS + 1) => n = Len(s)
  <2>1. \A a, b \in Nat : ~(a > b) => Smaller(a, b) = a
    BY DEF Smaller
  <2>2. MAX_IPS + 1 \in Nat /\ Len(s) \in Nat
    BY <1>1, MaxIpsAssumption
  <2>3. QED
    BY <2>1, <2>2
<1> HIDE DEF n
<1>3. ASSUME IsBlocked(Retained(s)) PROVE SaysBlocked(r)
  <2>1. CASE Retained(s) = <<>>
    BY <2>1, NoneRetained DEF SaysBlocked
  <2>2. CASE \E i \in DOMAIN Retained(s) : Retained(s)[i] = Zero
    <3>1. PICK i \in 1..n : Retained(s)[i] = Zero
      BY <1>1, <2>2
    <3>2. i \in DOMAIN s /\ s[i] = Zero
      BY <1>1, <3>1
    <3>3. QED
      BY <3>2 DEF SaysBlocked
  <2>3. QED
    BY <1>3, <2>1, <2>2 DEF IsBlocked
<1>4. ASSUME ~IsBlocked(Retained(s)), SaysBlocked(r) PROVE Len(s) > MAX_IPS + 1
  <2> SUFFICES ASSUME ~(Len(s) > MAX_IPS + 1) PROVE FALSE
    OBVIOUS
  <2>1. n = Len(s)
    BY <1>2
  <2>2. Retained(s) # <<>> /\ \A i \in 1..n : Retained(s)[i] # Zero
    BY <1>1, <1>4 DEF IsBlocked
  <2>3. s # <<>>
    BY <2>2, RetainedNone
  <2>4. PICK i \in DOMAIN s : s[i] = Zero
    BY <1>4, <2>3 DEF SaysBlocked
  <2>5. QED
    BY <1>1, <2>1, <2>2, <2>4
<1>5. QED
  BY <1>3, <1>4

(* The silent and the failing were heard first; the one heard last is      *)
(* where the addresses are from.                                           *)
HeardInv ==
  /\ heard = <<>> => result = <<>>
  /\ heard # <<>> => result = Retained(AddressesOf(heard[Len(heard)]))
  /\ \A i \in 1..Len(heard) : AddressesOf(heard[i]) \in Seq(Address)
  /\ \A i \in 1 .. Len(heard) - 1 : AddressesOf(heard[i]) = <<>>
  /\ \A i \in 1..Len(heard) : heard[i] # NoReply => dns_reachable

(* Nothing is printed while the resolvers are asked, and the filter has    *)
(* been silent as long as it is asked.                                     *)
AskingInv ==
  /\ at = "resolve" => output = <<>> /\ filterHeard = <<>>
  /\ at = "filter" => /\ ~Printed("blocked") /\ Len(filterHeard) < FilterTries
                      /\ \A i \in 1..Len(filterHeard) : filterHeard[i] = NoReply

TextInv ==
  /\ Printed("No internet connection") =>
       /\ Len(heard) = DnsServers
       /\ \A i \in DOMAIN heard : heard[i] = NoReply
  /\ Printed("Not found information") =>
       /\ Len(heard) = DnsServers
       /\ \A i \in DOMAIN heard : AddressesOf(heard[i]) = <<>>

LookInv == LookupTypeOK /\ HeardInv /\ AskingInv /\ TextInv /\ FilterIsObeyed

LEMMA LookInit == Init => LookInv
<1> SUFFICES ASSUME Init PROVE LookInv
  OBVIOUS
<1>1. /\ program \in {"HW2", "HW3"} /\ at = "off" /\ heard = <<>> /\ dns_reachable = FALSE
      /\ result = <<>> /\ filterHeard = <<>> /\ output = <<>> /\ exit = 0
  BY DEF Init, LookupInit
<1>2. <<>> \in Seq(Replies) /\ <<>> \in Seq([1..4 -> 0..255]) /\ Len(<<>>) = 0
  BY EmptySeq
<1>3. \A t : ~Printed(t)
  BY <1>1 DEF Printed
<1>4. LookupTypeOK
  <2>1. /\ heard \in Seq(Replies) /\ Len(heard) <= DnsServers
        /\ filterHeard \in Seq(Replies) /\ Len(filterHeard) <= FilterTries
        /\ result \in Seq([1..4 -> 0..255])
    BY <1>1, <1>2 DEF DnsServers, FilterTries
  <2>2. dns_reachable \in BOOLEAN /\ exit \in {0, 1}
    BY <1>1
  <2>3. QED
    BY <1>1, <2>1, <2>2 DEF LookupTypeOK
<1>5. HeardInv
  BY <1>1, <1>2 DEF HeardInv
<1>6. AskingInv
  BY <1>1 DEF AskingInv
<1>7. TextInv /\ FilterIsObeyed
  BY <1>1, <1>3 DEF TextInv, FilterIsObeyed
<1>8. QED
  BY <1>4, <1>5, <1>6, <1>7 DEF LookInv

(* A run begins with nothing heard and nothing printed. *)
LEMMA RunLook == ASSUME LookInv, Run PROVE LookInv'
<1>1. /\ program' \in {"HW2", "HW3"} /\ at' = "resolve" /\ heard' = <<>>
      /\ dns_reachable' = FALSE /\ result' = <<>> /\ filterHeard' = <<>> /\ output' = <<>>
      /\ exit' = 0
  BY DEF Run, LookInv, LookupTypeOK
<1>2. <<>> \in Seq(Replies) /\ <<>> \in Seq([1..4 -> 0..255]) /\ Len(<<>>) = 0
  BY EmptySeq
<1>3. \A t : ~Printed(t)'
  BY <1>1 DEF Printed
<1>4. LookupTypeOK'
  <2>1. /\ heard' \in Seq(Replies) /\ Len(heard') <= DnsServers
        /\ filterHeard' \in Seq(Replies) /\ Len(filterHeard') <= FilterTries
        /\ result' \in Seq([1..4 -> 0..255])
    BY <1>1, <1>2 DEF DnsServers, FilterTries
  <2>2. dns_reachable' \in BOOLEAN /\ exit' \in {0, 1}
    BY <1>1
  <2>3. QED
    BY <1>1, <2>1, <2>2 DEF LookupTypeOK
<1>5. HeardInv'
  BY <1>1, <1>2 DEF HeardInv
<1>6. AskingInv'
  BY <1>1 DEF AskingInv
<1>7. TextInv' /\ FilterIsObeyed'
  BY <1>1, <1>3 DEF TextInv, FilterIsObeyed
<1>8. QED
  BY <1>4, <1>5, <1>6, <1>7 DEF LookInv

(* main() ends, with a text that says nothing of the domain. *)
LEMMA EndLook ==
  ASSUME LookInv, output \in Seq(Texts), at' = "off", exit' \in {0, 1},
         UNCHANGED <<program, heard, dns_reachable, result, filterHeard>>,
         NEW t \in {"completed", "unable"},
         output' = output \/ output' = Append(output, t)
  PROVE  LookInv'
<1>1. \A u \in {"No internet connection", "Not found information", "blocked"} :
        Printed(u)' => Printed(u)
  <2>1. CASE output' = output
    BY <2>1 DEF Printed
  <2>2. CASE output' = Append(output, t)
    BY <2>2, PrintedAfter DEF Texts
  <2>3. QED
    BY <2>1, <2>2
<1>2. LookupTypeOK'
  BY DEF LookInv, LookupTypeOK
<1>3. HeardInv'
  BY DEF LookInv, HeardInv
<1>4. AskingInv'
  BY DEF AskingInv
<1>5. TextInv'
  BY <1>1 DEF LookInv, TextInv
<1>6. FilterIsObeyed'
  BY <1>1 DEF LookInv, FilterIsObeyed
<1>7. QED
  BY <1>2, <1>3, <1>4, <1>5, <1>6 DEF LookInv

(* A resolver is asked. *)
LEMMA AskLook == ASSUME LookInv, NEW r \in Replies, Ask(r) PROVE LookInv'
<1> DEFINE l == Len(heard)
<1>1. /\ at = "resolve" /\ l < DnsServers /\ result = <<>>
      /\ heard' = Append(heard, r) /\ dns_reachable' = (dns_reachable \/ r # NoReply)
      /\ at' = at /\ output' = output /\ output = <<>>
      /\ UNCHANGED <<program, filterHeard, exit>> /\ filterHeard = <<>>
  BY DEF Ask, LookInv, AskingInv
<1>2. /\ heard \in Seq(Replies) /\ l \in Nat /\ heard' \in Seq(Replies)
      /\ Len(heard') = l + 1 /\ heard'[l + 1] = r /\ heard' # <<>>
      /\ \A i \in 1..l : heard'[i] = heard[i]
  <2>1. heard \in Seq(Replies)
    BY DEF LookInv, LookupTypeOK
  <2>2. QED
    BY <1>1, <2>1, AppendProperties, LenProperties
<1>3. result' = Retained(AddressesOf(r)) /\ AddressesOf(r) \in Seq(Address)
  <2>1. CASE r = NoReply
    <3>1. AddressesOf(r) = <<>> /\ <<>> \in Seq(Address)
      BY <2>1, EmptySeq DEF AddressesOf
    <3>2. result' = <<>>
      BY <1>1, <2>1 DEF Ask
    <3>3. QED
      BY <3>1, <3>2, RetainedNone
  <2>2. CASE r # NoReply
    <3>1. result' = parse_dns_response(Datagram(r, build_dns_query(Domain, QueryId)))
      BY <2>2 DEF Ask
    <3>2. QED
      BY <2>2, <3>1, Halves, ReplyRead
  <2>3. QED
    BY <2>1, <2>2
<1>4. result' \in Seq(Address)
  BY <1>3, RetainedParts
<1>5. \A t : ~Printed(t)'
  BY <1>1 DEF Printed
<1>6. LookupTypeOK'
  BY <1>1, <1>2, <1>4 DEF LookInv, LookupTypeOK, Address, DnsServers
<1>7. ASSUME NEW i \in 1..l PROVE AddressesOf(heard'[i]) = <<>>
  <2>1. heard'[i] = heard[i] /\ AddressesOf(heard[i]) \in Seq(Address)
    BY <1>2 DEF LookInv, HeardInv
  <2>2. CASE i = l
    <3>1. heard # <<>>
      BY <1>2, <2>2, EmptySeq
    <3>2. Retained(AddressesOf(heard[l])) = <<>>
      BY <1>1, <3>1 DEF LookInv, HeardInv
    <3>3. QED
      BY <2>1, <2>2, <3>2, NoneRetained
  <2>3. CASE i # l
    <3>1. i \in 1 .. l - 1
      BY <1>2, <2>3
    <3>2. QED
      BY <2>1, <3>1 DEF LookInv, HeardInv
  <2>4. QED
    BY <2>2, <2>3
<1>8. HeardInv'
  <2>1. \A i \in 1 .. l + 1 : i = l + 1 \/ i \in 1..l
    BY <1>2
  <2>2. \A i \in 1 .. l + 1 : AddressesOf(heard'[i]) \in Seq(Address)
    BY <1>2, <1>3, <1>7, <2>1, EmptySeq
  <2>3. \A i \in 1 .. l + 1 : heard'[i] # NoReply => dns_reachable'
    BY <1>1, <1>2, <2>1 DEF LookInv, HeardInv
  <2>4. Len(heard') = l + 1 /\ Len(heard') - 1 = l
    BY <1>2
  <2> HIDE DEF l
  <2>5. result' = Retained(AddressesOf(heard'[Len(heard')]))
    BY <1>2, <1>3, <2>4
  <2>6. QED
    BY <1>2, <1>7, <2>2, <2>3, <2>4, <2>5 DEF HeardInv
<1>9. AskingInv'
  BY <1>1 DEF AskingInv
<1>10. TextInv' /\ FilterIsObeyed'
  BY <1>1, <1>5 DEF TextInv, FilterIsObeyed
<1>11. QED
  BY <1>6, <1>8, <1>9, <1>10 DEF LookInv

(* A text for each way in which the loop over the resolvers can end. *)
LEMMA ConcludeLook == ASSUME LookInv, output \in Seq(Texts), Conclude PROVE LookInv'
<1>1. /\ at = "resolve" /\ output = <<>> /\ filterHeard = <<>>
      /\ Len(heard) = DnsServers \/ result # <<>>
      /\ UNCHANGED <<program, heard, dns_reachable, result, filterHeard>>
      /\ heard \in Seq(Replies)
  BY DEF Conclude, AskedAll, LookInv, LookupTypeOK, AskingInv
<1>2. HeardInv'
  BY <1>1 DEF LookInv, HeardInv
<1>3. DOMAIN heard = 1..Len(heard)
  BY <1>1, LenProperties
<1>4. ASSUME ~dns_reachable PROVE \A i \in DOMAIN heard : heard[i] = NoReply
  BY <1>3, <1>4 DEF LookInv, HeardInv
<1>5. ASSUME result = <<>>
      PROVE  \A i \in DOMAIN heard : AddressesOf(heard[i]) = <<>>
  <2> SUFFICES ASSUME NEW i \in 1..Len(heard) PROVE AddressesOf(heard[i]) = <<>>
    BY <1>3
  <2>1. Len(heard) \in Nat /\ AddressesOf(heard[i]) \in Seq(Address)
    BY <1>1, LenProperties DEF LookInv, HeardInv
  <2>2. CASE i = Len(heard)
    <3>1. heard # <<>>
      BY <2>2, EmptySeq
    <3>2. Retained(AddressesOf(heard[i])) = <<>>
      BY <1>5, <2>2, <3>1 DEF LookInv, HeardInv
    <3>3. QED
      BY <2>1, <3>2, NoneRetained
  <2>3. CASE i # Len(heard)
    <3>1. i \in 1 .. Len(heard) - 1
      BY <2>1, <2>3
    <3>2. QED
      BY <3>1 DEF LookInv, HeardInv
  <2>4. QED
    BY <2>2, <2>3
<1>6. ASSUME NEW t \in Texts, output' = Append(output, t)
      PROVE  \A u \in Texts : Printed(u)' => u = t
  <2>1. \A u \in Texts : ~Printed(u)
    BY <1>1 DEF Printed
  <2>2. QED
    BY <1>6, <2>1, PrintedAfter
<1>t. /\ "No internet connection" \in Texts /\ "Not found information" \in Texts
      /\ "addresses" \in Texts /\ "blocked" \in Texts
  BY DEF Texts
<1>7. CASE ~dns_reachable /\ Finish(1, "No internet connection")
  <2>1. /\ at' = "off" /\ exit' = 1 /\ output' = Append(output, "No internet connection")
        /\ Len(heard) = DnsServers
    <3>2. result = <<>>
      <4>1. CASE heard = <<>>
        BY <4>1 DEF LookInv, HeardInv
      <4>2. CASE heard # <<>>
        <5>1. Len(heard) \in DOMAIN heard
          BY <1>1, <1>3, <4>2, EmptySeq
        <5>2. heard[Len(heard)] = NoReply
          BY <1>4, <1>7, <5>1
        <5>3. AddressesOf(heard[Len(heard)]) = <<>>
          BY <5>2 DEF AddressesOf
        <5>4. QED
          BY <4>2, <5>3, RetainedNone DEF LookInv, HeardInv
      <4>3. QED
        BY <4>1, <4>2
    <3>3. QED
      BY <1>1, <1>7, <3>2 DEF Finish
  <2>2. /\ ~Printed("Not found information")' /\ ~Printed("blocked")'
    BY <1>6, <1>t, <2>1
  <2>3. TextInv'
    BY <1>1, <1>4, <1>7, <2>1, <2>2 DEF TextInv
  <2>4. LookupTypeOK' /\ AskingInv' /\ FilterIsObeyed'
    BY <1>1, <2>1, <2>2 DEF LookInv, LookupTypeOK, AskingInv, FilterIsObeyed
  <2>5. QED
    BY <1>2, <2>3, <2>4 DEF LookInv
<1>8. CASE dns_reachable /\ result = <<>> /\ Finish(0, "Not found information")
  <2>1. /\ at' = "off" /\ exit' = 0 /\ output' = Append(output, "Not found information")
        /\ Len(heard) = DnsServers
    BY <1>1, <1>8 DEF Finish
  <2>2. /\ ~Printed("No internet connection")' /\ ~Printed("blocked")'
    BY <1>6, <1>t, <2>1
  <2>3. TextInv'
    BY <1>1, <1>5, <1>8, <2>1, <2>2 DEF TextInv
  <2>4. LookupTypeOK' /\ AskingInv' /\ FilterIsObeyed'
    BY <1>1, <2>1, <2>2 DEF LookInv, LookupTypeOK, AskingInv, FilterIsObeyed
  <2>5. QED
    BY <1>2, <2>3, <2>4 DEF LookInv
<1>9. CASE result # <<>> /\ at' = "filter" /\ output' = Append(output, "addresses")
           /\ UNCHANGED exit
  <2>1. /\ ~Printed("No internet connection")' /\ ~Printed("Not found information")'
        /\ ~Printed("blocked")'
    BY <1>6, <1>9, <1>t
  <2>2. Len(filterHeard') = 0
    BY <1>1, EmptySeq
  <2>3. LookupTypeOK'
    BY <1>1, <1>9 DEF LookInv, LookupTypeOK
  <2>4. TextInv' /\ FilterIsObeyed'
    BY <1>9, <2>1 DEF TextInv, FilterIsObeyed
  <2>5. Len(filterHeard') < FilterTries /\ 1..Len(filterHeard') = {}
    BY <2>2 DEF FilterTries
  <2>6. AskingInv'
    BY <1>9, <2>1, <2>5 DEF AskingInv
  <2>7. QED
    BY <1>2, <2>3, <2>4, <2>6 DEF LookInv
<1>10. QED
  BY <1>7, <1>8, <1>9 DEF Conclude

(* What main() does of what it is told: it prints that the domain is       *)
(* blocked, which agrees with what was heard last, or goes on.             *)
LEMMA ToldLook ==
  ASSUME LookInv, output \in Seq(Texts), at = "filter", NEW r \in Replies,
         filterHeard' = Append(filterHeard, r),
         UNCHANGED <<program, heard, dns_reachable, result>>,
         \/ at' = "off" /\ exit' = 0 /\ output' = Append(output, "blocked")
            /\ r # NoReply /\ SaysBlocked(r)
         \/ at' = "off" /\ UNCHANGED <<output, exit>>
         \/ at' = "crawl" /\ UNCHANGED <<output, exit>>
            /\ \/ r = NoReply /\ Len(filterHeard') = FilterTries
               \/ r # NoReply /\ (SaysBlocked(r) => Len(AddressesOf(r)) > MAX_IPS + 1)
         \/ at' = "filter" /\ UNCHANGED <<output, exit>>
            /\ r = NoReply /\ Len(filterHeard') < FilterTries
  PROVE  LookInv'
<1> DEFINE l == Len(filterHeard)
           new == filterHeard'
<1>1. /\ filterHeard \in Seq(Replies) /\ ~Printed("blocked") /\ l < FilterTries
      /\ \A i \in 1..l : filterHeard[i] = NoReply
  BY DEF LookInv, LookupTypeOK, AskingInv
<1>2. /\ l \in Nat /\ new \in Seq(Replies) /\ Len(new) = l + 1 /\ new[l + 1] = r
      /\ \A i \in 1..l : new[i] = filterHeard[i]
  BY <1>1, AppendProperties, LenProperties
<1> HIDE DEF l
<1>3. Last(new) = r
  BY <1>2 DEF Last
<1>4. /\ at' \in {"off", "crawl", "filter"} /\ exit' \in {exit, 0}
      /\ Printed("blocked")' => r # NoReply /\ SaysBlocked(r)
      /\ Printed("No internet connection")' => Printed("No internet connection")
      /\ Printed("Not found information")' => Printed("Not found information")
  <2>1. CASE output' = output
    BY <1>1, <2>1 DEF Printed
  <2>2. CASE output' = Append(output, "blocked") /\ at' = "off" /\ exit' = 0
             /\ r # NoReply /\ SaysBlocked(r)
    BY <2>2, PrintedAfter DEF Texts
  <2>3. QED
    BY <2>1, <2>2
<1>5. LookupTypeOK'
  <2>1. new \in Seq(Replies) /\ Len(new) <= FilterTries
    BY <1>1, <1>2 DEF FilterTries
  <2>2. QED
    BY <1>4, <2>1 DEF LookInv, LookupTypeOK
<1>6. HeardInv' /\ TextInv'
  BY <1>4 DEF LookInv, HeardInv, TextInv
<1>7. ASSUME at' = "filter"
      PROVE  /\ ~Printed("blocked")' /\ Len(new) < FilterTries
             /\ \A i \in 1..Len(new) : new[i] = NoReply
  <2>1. r = NoReply /\ Len(new) < FilterTries /\ output' = output
    BY <1>7
  <2>2. \A i \in 1 .. l + 1 : i = l + 1 \/ i \in 1..l
    BY <1>2
  <2>3. QED
    BY <1>1, <1>2, <1>4, <2>1, <2>2
<1>8. AskingInv'
  BY <1>4, <1>7 DEF AskingInv
<1>9. ASSUME at' = "crawl"
      PROVE  \/ new = <<NoReply, NoReply>>
             \/ r # NoReply /\ (SaysBlocked(r) => Len(AddressesOf(r)) > MAX_IPS + 1)
  <2>1. CASE r = NoReply
    <3>1. Len(new) = 2 /\ l = 1
      BY <1>2, <1>9, <2>1 DEF FilterTries
    <3>2. new[1] = NoReply /\ new[2] = NoReply
      BY <1>1, <1>2, <2>1, <3>1
    <3>3. <<NoReply, NoReply>> \in Seq(Replies) /\ Len(<<NoReply, NoReply>>) = 2
      BY ReplyAssumption
    <3>4. new = <<NoReply, NoReply>>
      <4>1. ASSUME NEW i \in 1..2 PROVE new[i] = <<NoReply, NoReply>>[i]
        <5>1. i = 1 \/ i = 2
          OBVIOUS
        <5>2. <<NoReply, NoReply>>[1] = NoReply /\ <<NoReply, NoReply>>[2] = NoReply
          OBVIOUS
        <5>3. QED
          BY <3>2, <5>1, <5>2
      <4>2. QED
        BY <1>2, <3>1, <3>3, <4>1, SeqEqual
    <3>5. QED
      BY <3>4
  <2>2. QED
    BY <1>9, <2>1
<1>10. FilterIsObeyed'
  BY <1>3, <1>4, <1>9 DEF FilterIsObeyed
<1>11. QED
  BY <1>5, <1>6, <1>8, <1>10 DEF LookInv

LEMMA SilentLook == ASSUME LookInv, output \in Seq(Texts), FilterSilent PROVE LookInv'
<1>1. /\ at = "filter" /\ filterHeard' = Append(filterHeard, NoReply)
      /\ UNCHANGED <<program, heard, dns_reachable, result>> /\ NoReply \in Replies
  BY ReplyAssumption DEF FilterSilent
<1>2. Len(filterHeard') <= FilterTries /\ Len(filterHeard') \in Nat
  <2>1. filterHeard \in Seq(Replies) /\ Len(filterHeard) < FilterTries
    BY <1>1 DEF LookInv, LookupTypeOK, AskingInv
  <2>2. Len(filterHeard') = Len(filterHeard) + 1 /\ Len(filterHeard) \in Nat
    BY <1>1, <2>1, AppendProperties, LenProperties
  <2>3. QED
    BY <2>1, <2>2 DEF FilterTries
<1>3. CASE Len(filterHeard') < FilterTries
  <2>1. at' = "filter" /\ UNCHANGED <<output, exit>>
    BY <1>1, <1>3 DEF FilterSilent
  <2>2. QED
    BY <1>1, <1>3, <2>1, ToldLook
<1>4. CASE ~(Len(filterHeard') < FilterTries)
  <2>1. Len(filterHeard') = FilterTries
    <3>1. \A n \in Nat : n <= FilterTries /\ ~(n < FilterTries) => n = FilterTries
      BY DEF FilterTries
    <3>2. QED
      BY <1>2, <1>4, <3>1
  <2>2. (at' = "off" \/ at' = "crawl") /\ UNCHANGED <<output, exit>>
    BY <1>4 DEF FilterSilent, Pass
  <2>3. QED
    BY <1>1, <2>1, <2>2, ToldLook
<1>5. QED
  BY <1>3, <1>4

LEMMA AnsweredLook ==
  ASSUME LookInv, output \in Seq(Texts), NEW r \in Replies, FilterAnswers(r)
  PROVE  LookInv'
<1> DEFINE ips == parse_dns_response(Datagram(r, build_dns_query(Domain, FilterId)))
<1>1. /\ at = "filter" /\ r # NoReply /\ filterHeard' = Append(filterHeard, r)
      /\ UNCHANGED <<program, heard, dns_reachable, result>>
      /\ IF IsBlocked(ips) THEN Finish(0, "blocked") ELSE Pass
  BY DEF FilterAnswers
<1>2. ips = Retained(AddressesOf(r)) /\ AddressesOf(r) \in Seq(Address)
  BY <1>1, Halves, ReplyRead
<1> HIDE DEF ips
<1>3. /\ IsBlocked(ips) => SaysBlocked(r)
      /\ ~IsBlocked(ips) => (SaysBlocked(r) => Len(AddressesOf(r)) > MAX_IPS + 1)
  BY <1>2, RetainedBlocked
<1>4. CASE IsBlocked(ips)
  <2>1. at' = "off" /\ exit' = 0 /\ output' = Append(output, "blocked")
    BY <1>1, <1>4 DEF Finish
  <2>2. QED
    BY <1>1, <1>3, <1>4, <2>1, ToldLook
<1>5. CASE ~IsBlocked(ips)
  <2>1. (at' = "off" \/ at' = "crawl") /\ UNCHANGED <<output, exit>>
    BY <1>1, <1>5 DEF Pass
  <2>2. QED
    BY <1>1, <1>3, <1>5, <2>1, ToldLook
<1>6. QED
  BY <1>4, <1>5

LEMMA LookStays == ASSUME LookInv, UNCHANGED lookupVars PROVE LookInv'
<1> USE DEF lookupVars
<1>1. LookupTypeOK'
  BY DEF LookInv, LookupTypeOK
<1>2. HeardInv'
  BY DEF LookInv, HeardInv
<1>3. \A t : Printed(t)' <=> Printed(t)
  BY DEF Printed
<1>4. AskingInv'
  BY <1>3 DEF LookInv, AskingInv
<1>5. TextInv'
  BY <1>3 DEF LookInv, TextInv
<1>6. FilterIsObeyed'
  BY <1>3 DEF LookInv, FilterIsObeyed
<1>7. QED
  BY <1>1, <1>2, <1>4, <1>5, <1>6 DEF LookInv

LEMMA LookKept == ASSUME LookInv, WrittenInv, [Next]_vars PROVE LookInv'
<1>o. output \in Seq(Texts)
  BY DEF WrittenInv, OutputInv
<1>t. LookInv => exit \in {0, 1}
  BY DEF LookInv, LookupTypeOK
<1>1. CASE Launch
  BY <1>1, RunLook DEF Launch
<1>2. CASE LookStep
  <2>1. ASSUME NEW r \in Replies, Ask(r) PROVE LookInv'
    BY <2>1, AskLook
  <2>2. ASSUME NEW r \in Replies, FilterAnswers(r) PROVE LookInv'
    BY <1>o, <2>2, AnsweredLook
  <2>3. QED
    BY <1>2, <1>o, <2>1, <2>2, ConcludeLook, SilentLook DEF LookStep, Look
<1>3. CASE CallCrawl \/ CrawlStep \/ UNCHANGED vars
  <2>1. UNCHANGED lookupVars
    BY <1>3 DEF CallCrawl, CrawlStep, vars
  <2>2. QED
    BY <2>1, LookStays
<1>4. CASE CrawlReturned
  <2>1. /\ at' = "off" /\ exit' \in {0, 1}
        /\ UNCHANGED <<program, heard, dns_reachable, result, filterHeard>>
        /\ output' = Append(output, "completed") \/ output' = Append(output, "unable")
    BY <1>4 DEF CrawlReturned, ExitWithStatus, Finish
  <2>2. QED
    BY <1>o, <2>1, EndLook
<1>5. CASE Kill
  <2>1. /\ at' = "off" /\ exit' \in {0, 1} /\ output' = output
        /\ UNCHANGED <<program, heard, dns_reachable, result, filterHeard>>
    BY <1>5, <1>t DEF Kill
  <2>2. QED
    BY <1>o, <2>1, EndLook
<1>6. QED
  BY <1>1, <1>2, <1>3, <1>4, <1>5 DEF Next, Program

LEMMA LookAlways == Spec => []LookInv
BY WrittenInit, WrittenStep, LookInit, LookKept, PTL DEF Spec

(* What is printed is true, whatever the servers answer: see OutputIsTrue. *)
THEOREM OutputIsTrueHolds == Spec => []OutputIsTrue
<1>1. LookInv => OutputIsTrue
  <2> SUFFICES ASSUME LookInv PROVE OutputIsTrue
    OBVIOUS
  <2>1. ASSUME result # <<>>
        PROVE  LET known == AddressesOf(Last(heard))
               IN  result = SubSeq(known, 1, Smaller(Len(known), MAX_IPS + 1))
    <3>1. heard # <<>>
      BY <2>1 DEF LookInv, HeardInv
    <3>2. result = Retained(AddressesOf(heard[Len(heard)]))
      BY <3>1 DEF LookInv, HeardInv
    <3>3. QED
      BY <3>2 DEF Retained, Last
  <2>2. QED
    BY <2>1 DEF LookInv, TextInv, OutputIsTrue
<1>2. QED
  BY LookAlways, <1>1, PTL

(* A domain is blocked by what the filter said and never by its silence.   *)
THEOREM FilterIsObeyedHolds == Spec => []FilterIsObeyed
<1>1. LookInv => FilterIsObeyed
  BY DEF LookInv
<1>2. QED
  BY LookAlways, <1>1, PTL

(* No more runs than the bound. *)
RunsInv == runs \in 0..MaxRuns

(* The variables of both programs have their types, and crawl_website() is *)
(* at work only where main() has called it.                                *)
THEOREM TypeCorrect == Spec => []TypeOK
<1>1. Init => RunsInv
  BY BoundAssumption DEF Init, RunsInv
<1>2. RunsInv /\ [Next]_vars => RunsInv'
  <2>1. RunsInv /\ runs < MaxRuns /\ runs' = runs + 1 => RunsInv'
    BY BoundAssumption DEF RunsInv
  <2>2. RunsInv /\ UNCHANGED runs => RunsInv'
    BY DEF RunsInv
  <2>3. QED
    BY <2>1, <2>2
       DEF Next, Program, Launch, LookStep, CallCrawl, CrawlStep, CrawlReturned, Kill, vars
<1>3. LookInv /\ WrittenInv /\ RunsInv /\ CrawlTypeOK => TypeOK
  BY DEF LookInv, WrittenInv, CallInv, RunsInv, TypeOK
<1>4. QED
  BY LookAlways, CrawlTypeCorrect, WrittenInit, WrittenStep, <1>1, <1>2, <1>3, PTL DEF Spec
================================================================================
