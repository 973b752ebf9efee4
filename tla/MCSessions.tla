------------------------------ MODULE MCSessions ------------------------------
(* Instances of ClassSessions for TLC.                                       *)
EXTENDS ClassSessions

CONSTANTS teacher, other, admin, s1, s2

\* Payloads with different marks for both students, and for one of them.
MCBatches == {s1 :> "present" @@ s2 :> "absent", s1 :> "absent" @@ s2 :> "present",
              s1 :> "present", s2 :> "present"}

NoEdit == [capacity |-> Null, instructor |-> Null, starts |-> Null, ends |-> Null]

\* One column each; of a class from 0 to 1, some leave no time between the ends.
MCClassEdits ==
  {[NoEdit EXCEPT !.capacity = 3], [NoEdit EXCEPT !.instructor = other],
   [NoEdit EXCEPT !.starts = 1], [NoEdit EXCEPT !.ends = 2], [NoEdit EXCEPT !.ends = 1]}

Symmetry == Permutations(Students) \cup Permutations(Requests)
=============================================================================
