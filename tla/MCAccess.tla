------------------------------ MODULE MCAccess ------------------------------
(* Instances of AccessAccounts, and the sessions under it, for TLC.         *)
EXTENDS AccessAccounts

CONSTANTS known, blocked

\* Two users, one of them suspended in the behaviours about sessions.
MCRegistered ==
  <<[email |-> known, type |-> "institution_admin", password |-> 0],
    [email |-> blocked, type |-> "employee", password |-> 0]>>

\* Requests are slots without identity.
MCSymmetry == Permutations(Requests)
=============================================================================
