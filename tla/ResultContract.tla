--------------------------- MODULE ResultContract ---------------------------
(***************************************************************************)
(* What the results of an assessment promise a reader of the result sheet, *)
(* whatever requests produced them: a student gets a result only with the  *)
(* last of the answers evaluated, a result is drafted once, and once       *)
(* published it is never a draft again and never disappears.               *)
(***************************************************************************)
CONSTANT Students

VARIABLES
  evaluated,  \* the students all of whose questions are answered and evaluated
  result      \* status of each student's result

Init ==
  /\ evaluated = {}
  /\ result = [s \in Students |-> "ABSENT"]

\* The last open answer of a student is evaluated.
CompleteAnswers(s) ==
  /\ evaluated' = evaluated \cup {s}
  /\ UNCHANGED result

\* The result is recorded, possibly in the commit that evaluates the last answer.
RecordResult(s) ==
  /\ result[s] = "ABSENT"
  /\ evaluated' = evaluated \cup {s}
  /\ result' = [result EXCEPT ![s] = "DRAFT"]

\* Some of the recorded results are published.
PublishResults ==
  /\ \E S \in SUBSET {s \in Students : result[s] # "ABSENT"} :
       result' = [s \in Students |-> IF s \in S THEN "PUBLISHED" ELSE result[s]]
  /\ UNCHANGED evaluated

Next ==
  \/ \E s \in Students : CompleteAnswers(s) \/ RecordResult(s)
  \/ PublishResults

Spec == Init /\ [][Next]_<<evaluated, result>>
=============================================================================
