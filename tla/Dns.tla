---------------------------------- MODULE Dns ----------------------------------
(***************************************************************************)
(* The DNS messages of the HW2 and HW3 resolvers, byte by byte: what is    *)
(* sent as a query and what is read out of an answer.  Offsets count from  *)
(* 0, as in the code; byte number i of a message is buf[i + 1].            *)
(***************************************************************************)
EXTENDS Integers, Sequences

CONSTANT MAX_IPS   \* aliases kept beside the official address (16)

ASSUME MaxIpsAssumption == MAX_IPS \in Nat

Dot == 46
HeaderSize == 12
DNS_TYPE_A == 1
DNS_CLASS_IN == 1

htons(n) == <<n \div 256, n % 256>>

ntohs(buf, offset) == 256 * buf[offset + 1] + buf[offset + 2]

-------------------------------------------------------------------------------
(* Queries *)

(* A label and its length, which is cast to one byte. *)
Labelled(label) == <<Len(label) % 256>> \o label

EncodeChar(acc, char) ==
  IF char = Dot
    THEN [out |-> acc.out \o Labelled(acc.label), label |-> <<>>]
    ELSE [acc EXCEPT !.label = Append(@, char)]

(* Each dot ends a label, be it empty; what follows the last dot is a      *)
(* label only when it is not.                                              *)
encode_dns_name(domain) ==
  LET read[n \in 0..Len(domain)] ==
        IF n = 0 THEN [out |-> <<>>, label |-> <<>>]
        ELSE EncodeChar(read[n - 1], domain[n])
      all == read[Len(domain)]
  IN  all.out
        \o (IF all.label = <<>> THEN <<>> ELSE Labelled(all.label))
        \o <<0>>

(* A header with one question and RD set; then the question. *)
build_dns_query(domain, query_id) ==
  htons(query_id) \o htons(256) \o htons(1) \o htons(0) \o htons(0) \o htons(0)
    \o encode_dns_name(domain) \o htons(DNS_TYPE_A) \o htons(DNS_CLASS_IN)

-------------------------------------------------------------------------------
(* Answers *)

(* The bytes that the name takes when so many are left of the message:     *)
(* labels up to a zero byte, or up to a compression pointer (two bits set  *)
(* in its first byte).                                                     *)
NameBytes(buf) ==
  LET bytes[left \in 0..Len(buf)] ==
        LET len == buf[Len(buf) - left + 1]
        IN  IF left = 0 THEN 0
            ELSE IF len = 0 THEN 1
            ELSE IF len >= 192 THEN 2
            ELSE 1 + len + (IF len < left THEN bytes[left - 1 - len] ELSE 0)
  IN  bytes

skip_dns_name(buf, offset) ==
  IF offset < Len(buf) THEN NameBytes(buf)[Len(buf) - offset] ELSE 0

AfterQuestions(buf) ==
  LET qdcount == ntohs(buf, 4)
      after[n \in 0..qdcount] ==
        IF n = 0 THEN HeaderSize
        ELSE after[n - 1] + skip_dns_name(buf, after[n - 1]) + 4
  IN  after[qdcount]

IsAddress(type, rdlength) == type = DNS_TYPE_A /\ rdlength = 4

(* One turn of the loop over the answer records.  The first address is the *)
(* official one, the next MAX_IPS are the aliases, the rest is dropped.    *)
TakeRecord(buf, acc) ==
  LET offset == acc.offset + skip_dns_name(buf, acc.offset)
      type == ntohs(buf, offset)
      rdlength == ntohs(buf, offset + 8)
      rdata == offset + 10
      Kept == IsAddress(type, rdlength) /\ Len(acc.ips) <= MAX_IPS
  IN  IF acc.offset >= Len(buf) \/ offset + 10 > Len(buf)
        THEN [acc EXCEPT !.offset = Len(buf)]
        ELSE [offset |-> rdata + rdlength,
              ips |-> IF Kept THEN Append(acc.ips, SubSeq(buf, rdata + 1, rdata + 4))
                      ELSE acc.ips]

(* The addresses read from an answer: none when it is shorter than a       *)
(* header or its RCODE is not zero.                                        *)
parse_dns_response(buf) ==
  IF Len(buf) < HeaderSize \/ ntohs(buf, 2) % 16 # 0 THEN <<>>
  ELSE LET ancount == ntohs(buf, 6)
           taken[n \in 0..ancount] ==
             IF n = 0 THEN [offset |-> AfterQuestions(buf), ips |-> <<>>]
             ELSE TakeRecord(buf, taken[n - 1])
       IN  taken[ancount].ips

-------------------------------------------------------------------------------
(* What a server answers.  A record is [owner, type, rdata]; its owner is  *)
(* written as a pointer to the question or in labels.                      *)

RecordBytes(r, query) ==
  LET qname == SubSeq(query, HeaderSize + 1, Len(query) - 4)
  IN  (IF r.owner = "pointer" THEN <<192, HeaderSize>> ELSE qname)
        \o htons(r.type) \o htons(DNS_CLASS_IN) \o <<0, 0, 0, 60>>
        \o htons(Len(r.rdata)) \o r.rdata

RecordsBytes(records, query) ==
  LET upTo[n \in 0..Len(records)] ==
        IF n = 0 THEN <<>> ELSE upTo[n - 1] \o RecordBytes(records[n], query)
  IN  upTo[Len(records)]

(* The answer to a query: its id and question again, QR, RD and RA set. *)
ResponseBytes(query, rcode, records) ==
  SubSeq(query, 1, 2) \o <<129, 128 + rcode>> \o SubSeq(query, 5, 6)
    \o htons(Len(records)) \o <<0, 0, 0, 0>>
    \o SubSeq(query, HeaderSize + 1, Len(query))
    \o RecordsBytes(records, query)
================================================================================
