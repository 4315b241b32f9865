------------------------------ MODULE AuthLockout ------------------------------
(***************************************************************************)
(* The HW5 server implements the lockout policy of module Lockout, with a  *)
(* payload (a username) as the account: a name is open when the first      *)
(* account with that name is active.                                       *)
(***************************************************************************)
EXTENDS AuthServer

OpenIn(t) ==
  {m \in Text : /\ FindAccount(t, m) # NULL
                /\ t[FindAccount(t, m)].status # 0}

storedBar == OpenIn(Load(accountFile))

openBar == IF up THEN OpenIn(accounts) ELSE storedBar

streakBar ==
  [m \in Text |-> IF FindAccount(accounts, m) = NULL THEN 0
                  ELSE accounts[FindAccount(accounts, m)].failed_attempts]

L == INSTANCE Lockout
       WITH Account <- Text, open <- openBar, stored <- storedBar,
            streak <- streakBar

(* Each step of the server is a step of the lockout policy or changes      *)
(* nothing it talks about, saves that fail, crashes inside a save,         *)
(* duplicate usernames and restarts included.                              *)
LockoutPolicy == L!Spec
================================================================================
