-------------------------------- MODULE Resolver -------------------------------
(***************************************************************************)
(* The HW2 and HW3 programs from their start to their end, run again and   *)
(* again over the same three files.                                        *)
(***************************************************************************)
EXTENDS Lookup, Crawler

CONSTANT MaxRuns   \* bound: how often the program is run

ASSUME BoundAssumption == MaxRuns \in Nat

VARIABLE runs

vars == <<lookupVars, crawlVars, runs>>

Init == LookupInit /\ CrawlInit /\ runs = 0

Launch ==
  /\ runs < MaxRuns
  /\ runs' = runs + 1
  /\ Run
  /\ UNCHANGED crawlVars

LookStep == Look /\ UNCHANGED <<crawlVars, runs>>

CallCrawl ==
  /\ at = "crawl"
  /\ Begin
  /\ UNCHANGED <<lookupVars, runs>>

CrawlStep == Crawl /\ UNCHANGED <<lookupVars, runs>>

ExitWithStatus ==
  IF status = 0 THEN Finish(0, "completed") ELSE Finish(1, "unable")

(* main() after crawl_website() has returned. *)
CrawlReturned ==
  /\ step = "returned"
  /\ step' = "idle"
  /\ ExitWithStatus
  /\ UNCHANGED <<program, heard, dns_reachable, result, filterHeard,
                 page, todo, lists, capacity, heap, status, files, written,
                 unnoticed, faults, runs>>

Kill ==
  /\ CrawlKilled
  /\ at' = "off"
  /\ UNCHANGED <<program, heard, dns_reachable, result, filterHeard, output,
                 exit, runs>>

Program == LookStep \/ CallCrawl \/ CrawlStep \/ CrawlReturned

Next == Launch \/ Program \/ Kill

Spec == Init /\ [][Next]_vars

-------------------------------------------------------------------------------
(* Properties                                                              *)

TypeOK ==
  /\ LookupTypeOK
  /\ CrawlTypeOK
  /\ runs \in 0..MaxRuns
  /\ (step # "idle") => (at = "crawl")

(* "Crawl completed" is printed, with the exit status 0, only when every   *)
(* file was opened in this run; and a page that could not be collected to  *)
(* its end leaves the three files of an earlier one as they are.           *)
CompletedIsWritten ==
  /\ Printed("completed") => exit = 0 /\ status = 0 /\ written = Lists
  /\ written # {} => todo > Len(Items(page))
================================================================================
