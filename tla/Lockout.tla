-------------------------------- MODULE Lockout --------------------------------
(***************************************************************************)
(* What the HW5 authentication server promises about account lockout,      *)
(* without sessions, datagrams or the layout of account.txt.               *)
(*                                                                         *)
(* An account is open when a login with its password would succeed.  Three *)
(* consecutive failures close it.  The set of accounts that account.txt    *)
(* would open at the next start is kept apart, because the file may be     *)
(* written badly, or not at all, and because a crash forgets the rest.     *)
(***************************************************************************)
EXTENDS Integers

CONSTANT Account

VARIABLES
  open,     \* accounts that accept a login now
  stored,   \* accounts that the file would open at the next start
  streak    \* consecutive failures since the last success or start

vars == <<open, stored, streak>>

Threshold == 3

NoStreak == [x \in Account |-> 0]

Init ==
  /\ open \subseteq Account
  /\ stored = open
  /\ streak = NoStreak

(* A successful login, possible only on an open account. *)
Accept(x) ==
  /\ x \in open
  /\ streak' = [streak EXCEPT ![x] = 0]
  /\ UNCHANGED <<open, stored>>

(* A failure that leaves the account open. *)
Reject(x) ==
  /\ x \in open
  /\ streak[x] + 1 < Threshold
  /\ streak' = [streak EXCEPT ![x] = @ + 1]
  /\ UNCHANGED <<open, stored>>

(* What a save leaves in the file once the accounts in `now` are the open  *)
(* ones: the old content, or some of the open accounts and no other.       *)
Saved(now) == stored' = stored \/ stored' \subseteq now

(* The failure that reaches the threshold closes the account. *)
Lock(x) ==
  /\ x \in open
  /\ streak[x] + 1 = Threshold
  /\ streak' = [streak EXCEPT ![x] = Threshold]
  /\ open' = open \ {x}
  /\ Saved(open')

(* The process ends, possibly in the middle of a save; what is open next   *)
(* is what the file opens.                                                 *)
Forget ==
  /\ Saved(open)
  /\ open' = stored'
  /\ streak' = NoStreak

Next ==
  \/ \E x \in Account : Accept(x) \/ Reject(x) \/ Lock(x)
  \/ Forget

Spec == Init /\ [][Next]_vars
================================================================================
