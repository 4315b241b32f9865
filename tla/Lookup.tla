--------------------------------- MODULE Lookup --------------------------------
(***************************************************************************)
(* main() of the HW2 and HW3 resolvers: two DNS servers are asked in turn  *)
(* until one yields an address, then the filter is asked whether the       *)
(* domain is blocked.  HW2 ends there; HW3 goes on to crawl.  Each query   *)
(* has a socket of its own, a timeout, and takes the first datagram that   *)
(* arrives.                                                                *)
(***************************************************************************)
EXTENDS Dns

LOCAL INSTANCE SequencesExt

CONSTANTS
  Domain,       \* the domain of the command line, as bytes
  QueryId,      \* the low bits of the process id
  NoReply,      \* a timeout, a refusal, a failing call, or an empty datagram
  Short,        \* a datagram shorter than a header
  Replies       \* what a server may do, NoReply and Short included

Byte == 0..255
Half == 0..65535

(* What a host name is: no label of it is empty, or so long that its       *)
(* length would be taken for a pointer.                                    *)
ASSUME DomainAssumption ==
  /\ Domain \in Seq(Byte)
  /\ \A i \in DOMAIN Domain : Domain[i] = Dot => i > 1 /\ Domain[i - 1] # Dot
  /\ \A i \in 0 .. Len(Domain) - 192 : \E j \in i + 1 .. i + 192 : Domain[j] = Dot
  /\ QueryId \in Half

(* A record of an answer; an address has four bytes. *)
IsRecord(record) ==
  /\ record.owner \in {"pointer", "labels"}
  /\ record.type \in Half
  /\ record.rdata \in Seq(Byte) /\ Len(record.rdata) \in Half
  /\ record.type = DNS_TYPE_A => Len(record.rdata) = 4

(* The answers are whole messages. *)
ASSUME ReplyAssumption ==
  /\ {NoReply, Short} \subseteq Replies /\ NoReply # Short
  /\ \A r \in Replies \ {NoReply, Short} :
       /\ r.rcode \in 0..15
       /\ Len(r.records) \in Half
       /\ r.records \in Seq({r.records[i] : i \in DOMAIN r.records})
       /\ \A i \in DOMAIN r.records : IsRecord(r.records[i])

VARIABLES
  program,        \* "HW2" or "HW3"
  at,             \* where main() is, or "off"
  heard,          \* the replies of the resolvers asked so far
  dns_reachable,
  result,         \* the addresses found; the first is the official one
  filterHeard,    \* the replies of the filter so far
  output,         \* what has been printed, in short
  exit            \* the exit status

lookupVars ==
  <<program, at, heard, dns_reachable, result, filterHeard, output, exit>>

DnsServers == 2
FilterTries == 2
FilterId == 52428   \* 0xCCCC

Zero == <<0, 0, 0, 0>>

(* The datagram that recv() returns for the reply r to a query. *)
Datagram(r, query) ==
  IF r = Short THEN <<query[1]>> ELSE ResponseBytes(query, r.rcode, r.records)

BUF_SIZE == 512

(* Queries and answers are no longer than their buffers. *)
ASSUME BufferAssumption ==
  \A id \in {QueryId, FilterId} :
    LET query == build_dns_query(Domain, id)
    IN  /\ Len(query) <= BUF_SIZE
        /\ \A r \in Replies \ {NoReply} : Len(Datagram(r, query)) <= BUF_SIZE

Finish(status, text) ==
  /\ at' = "off"
  /\ output' = Append(output, text)
  /\ exit' = status

LookupInit ==
  /\ program \in {"HW2", "HW3"}
  /\ at = "off"
  /\ heard = <<>>
  /\ dns_reachable = FALSE
  /\ result = <<>>
  /\ filterHeard = <<>>
  /\ output = <<>>
  /\ exit = 0

Run ==
  /\ at = "off"
  /\ at' = "resolve"
  /\ heard' = <<>>
  /\ dns_reachable' = FALSE
  /\ result' = <<>>
  /\ filterHeard' = <<>>
  /\ output' = <<>>
  /\ exit' = 0
  /\ UNCHANGED program

(* send_dns_query() to the next resolver, while nothing has been found. *)
Ask(r) ==
  /\ at = "resolve"
  /\ Len(heard) < DnsServers /\ result = <<>>
  /\ heard' = Append(heard, r)
  /\ dns_reachable' = (dns_reachable \/ r # NoReply)
  /\ result' = IF r = NoReply THEN result
               ELSE parse_dns_response(Datagram(r, build_dns_query(Domain, QueryId)))
  /\ UNCHANGED <<program, at, filterHeard, output, exit>>

(* Mutant: a resolver that answers ends the loop. *)
AnyAnswered == Len(heard) = DnsServers \/ dns_reachable

AskedAll == Len(heard) = DnsServers \/ result # <<>>

(* The loop ends; a domain with an address is shown. *)
Conclude ==
  /\ at = "resolve"
  /\ AskedAll
  /\ \/ /\ ~dns_reachable
        /\ Finish(1, "No internet connection")
     \/ /\ dns_reachable /\ result = <<>>
        /\ Finish(0, "Not found information")
     \/ /\ result # <<>>
        /\ at' = "filter"
        /\ output' = Append(output, "addresses")
        /\ UNCHANGED exit
  /\ UNCHANGED <<program, heard, dns_reachable, result, filterHeard>>

(* What main() does once is_domain_blocked() has returned FALSE. *)
Pass ==
  IF program = "HW2"
    THEN at' = "off" /\ UNCHANGED <<output, exit>>
    ELSE at' = "crawl" /\ UNCHANGED <<output, exit>>

(* Mutant: silence is read as blocked. *)
SilenceBlocks ==
  /\ at = "filter"
  /\ filterHeard' = Append(filterHeard, NoReply)
  /\ IF Len(filterHeard') < FilterTries
       THEN UNCHANGED <<at, output, exit>>
       ELSE Finish(0, "blocked")
  /\ UNCHANGED <<program, heard, dns_reachable, result>>

(* No reply of the filter: it is asked twice, and then lets through. *)
FilterSilent ==
  /\ at = "filter"
  /\ filterHeard' = Append(filterHeard, NoReply)
  /\ IF Len(filterHeard') < FilterTries
       THEN UNCHANGED <<at, output, exit>>
       ELSE Pass
  /\ UNCHANGED <<program, heard, dns_reachable, result>>

(* Blocked: 0.0.0.0 among the addresses that are kept, or no address.      *)
IsBlocked(ips) == ips = <<>> \/ \E i \in DOMAIN ips : ips[i] = Zero

FilterAnswers(r) ==
  LET query == build_dns_query(Domain, FilterId)
  IN  /\ at = "filter"
      /\ r # NoReply
      /\ filterHeard' = Append(filterHeard, r)
      /\ IF IsBlocked(parse_dns_response(Datagram(r, query)))
           THEN Finish(0, "blocked")
           ELSE Pass
      /\ UNCHANGED <<program, heard, dns_reachable, result>>

Look ==
  \/ \E r \in Replies : Ask(r) \/ FilterAnswers(r)
  \/ Conclude
  \/ FilterSilent

-------------------------------------------------------------------------------
(* Properties                                                              *)

(* The addresses of a reply that is an answer without error: its A records *)
(* in their order.                                                         *)
IsA(record) == record.type = DNS_TYPE_A

Addresses(records) ==
  LET upTo[n \in 0..Len(records)] ==
        IF n = 0 THEN <<>>
        ELSE IF IsA(records[n]) THEN Append(upTo[n - 1], records[n].rdata)
        ELSE upTo[n - 1]
  IN  upTo[Len(records)]

AddressesOf(r) ==
  IF r \in {NoReply, Short} \/ r.rcode # 0 THEN <<>> ELSE Addresses(r.records)

LookupTypeOK ==
  /\ program \in {"HW2", "HW3"}
  /\ at \in {"off", "resolve", "filter", "crawl"}
  /\ heard \in Seq(Replies) /\ Len(heard) <= DnsServers
  /\ dns_reachable \in BOOLEAN
  /\ result \in Seq([1..4 -> 0..255])
  /\ filterHeard \in Seq(Replies) /\ Len(filterHeard) <= FilterTries
  /\ exit \in {0, 1}

Printed(text) == \E i \in DOMAIN output : output[i] = text

(* What is printed is true.  The addresses are the A records of the last   *)
(* answer, in their order and as many as are kept, whatever form the owner *)
(* names have and whatever records stand between them.  "No internet       *)
(* connection" is said only when neither resolver sent anything, and "Not  *)
(* found" only when both were asked and neither had an address: a failure  *)
(* of the first never hides what the second knows.                         *)
Smaller(m, n) == IF m <= n THEN m ELSE n

OutputIsTrue ==
  /\ result # <<>> =>
       LET known == AddressesOf(Last(heard))
       IN  result = SubSeq(known, 1, Smaller(Len(known), MAX_IPS + 1))
  /\ Printed("No internet connection") =>
       /\ Len(heard) = DnsServers
       /\ \A i \in DOMAIN heard : heard[i] = NoReply
  /\ Printed("Not found information") =>
       /\ Len(heard) = DnsServers
       /\ \A i \in DOMAIN heard : AddressesOf(heard[i]) = <<>>

(* A domain is blocked only by what the filter said, never by its silence, *)
(* and when it said so with no more addresses than are kept, the domain is *)
(* not crawled.                                                            *)
SaysBlocked(r) ==
  AddressesOf(r) = <<>> \/ \E i \in DOMAIN AddressesOf(r) : AddressesOf(r)[i] = Zero

FilterIsObeyed ==
  /\ Printed("blocked") =>
       Last(filterHeard) # NoReply /\ SaysBlocked(Last(filterHeard))
  /\ at = "crawl" =>
       \/ filterHeard = <<NoReply, NoReply>>
       \/ LET r == Last(filterHeard)
          IN  r # NoReply
                /\ (SaysBlocked(r) => Len(AddressesOf(r)) > MAX_IPS + 1)
================================================================================
