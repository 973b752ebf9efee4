------------------------------ MODULE MCPeople ------------------------------
(* Instances of PeopleDirectory for TLC.                                     *)
EXTENDS PeopleDirectory

CONSTANTS n1, n2, c1, c2, u1

MCLists == {<<n1, n2>>, <<n2, n1>>, <<n1, n1>>}

\* One without a user, one with a user who is not active yet.
MCHired ==
  {[code |-> c1, user |-> Null, type |-> "teacher", status |-> "active"],
   [code |-> c2, user |-> u1, type |-> "accountant", status |-> "inactive"]}

\* One class that the student may be a participant of twice.
MCJoins == <<1, 2, 1>>
=============================================================================
