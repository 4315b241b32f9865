---------------------------------- MODULE Md5 ----------------------------------
(***************************************************************************)
(* The MD5 contexts of HW6/md5.c: the data goes to a file under /tmp, of   *)
(* which md5sum computes the digest.  A digest is the data it is of, so    *)
(* that two digests are equal only if the data are; collisions, and what   *)
(* the split into letters and digits forgets, are left out.                *)
(***************************************************************************)
EXTENDS Naturals, Sequences

CONSTANTS
  Side,       \* the processes that hold a context
  Zeros,      \* the digest of a context that failed
  MaxFaults   \* bound: calls of the operating system that fail

VARIABLES
  ctx,        \* the context of each side and what its temporary file holds
  leftovers,  \* temporary files that nobody will remove
  faults      \* calls that have failed

md5Vars == <<ctx, leftovers, faults>>

Fault == faults < MaxFaults /\ faults' = faults + 1

(* What may be left of data when writing it fails. *)
Truncated(data) == {SubSeq(data, 1, n) : n \in 0..(Len(data) - 1)}

NoContext == [open |-> FALSE, data |-> <<>>]

Put(s, c) == ctx' = [ctx EXCEPT ![s] = c]

md5_init(s) ==
  /\ \/ Put(s, [open |-> TRUE, data |-> <<>>]) /\ UNCHANGED faults
     \/ Put(s, NoContext) /\ Fault
  /\ UNCHANGED leftovers

(* A write that fails closes the file and leaves it where it is. *)
md5_update(s, data) ==
  \/ /\ ctx[s].open
     /\ Put(s, [ctx[s] EXCEPT !.data = @ \o data])
     /\ UNCHANGED <<leftovers, faults>>
  \/ /\ ctx[s].open
     /\ Fault
     /\ Put(s, NoContext)
     /\ leftovers' = leftovers + 1
  \/ /\ ~ctx[s].open
     /\ UNCHANGED md5Vars

(* Mutant: the temporary file is not removed. *)
KeepFile(s, digest) ==
  /\ digest = IF ctx[s].open THEN ctx[s].data ELSE Zeros
  /\ Put(s, NoContext)
  /\ leftovers' = leftovers + 1
  /\ UNCHANGED faults

(* The flush and md5sum may fail without notice. *)
md5_final(s, digest) ==
  /\ \/ ~ctx[s].open /\ digest = Zeros /\ UNCHANGED faults
     \/ ctx[s].open /\ digest = ctx[s].data /\ UNCHANGED faults
     \/ ctx[s].open /\ digest \in {Zeros} \cup Truncated(ctx[s].data) /\ Fault
  /\ Put(s, NoContext)
  /\ UNCHANGED leftovers

(* The three calls on one string, with a context of their own. *)
md5_string(text, digest) ==
  /\ \/ digest = text /\ UNCHANGED <<leftovers, faults>>
     \/ /\ digest \in {Zeros} \cup Truncated(text)
        /\ Fault
        /\ leftovers' \in leftovers..(leftovers + IF digest = Zeros THEN 1 ELSE 0)
  /\ UNCHANGED ctx

(* A process that returns or ends before md5_final(). *)
Abandon(s) ==
  /\ Put(s, NoContext)
  /\ leftovers' = leftovers + (IF ctx[s].open THEN 1 ELSE 0)

Md5Init ==
  /\ ctx = [s \in Side |-> NoContext]
  /\ leftovers = 0
  /\ faults = 0
================================================================================
