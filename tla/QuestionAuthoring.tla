-------------------------- MODULE QuestionAuthoring --------------------------
(***************************************************************************)
(* From the question bank to the assessment that is made from it.  A            *)
(* behaviour is about some of the rows:                                         *)
(*   positions  items of a set, their questions and positions                   *)
(*   totals     items of a set, marks, and the assessments made from it          *)
(*   bank       topics and questions                                          *)
(*   jobs       topics, generation jobs and the questions made from them         *)
(*   window     an assessment and its window                                     *)
(* An item's position decides only whether an insert or a reorder conflicts,     *)
(* its override only what it is worth; the other parts share no columns.         *)
(***************************************************************************)
EXTENDS AssessmentWindow

VARIABLE served   \* what this behaviour is about

authoringVars == <<db, library, exam, served, req>>

AuthoringInit ==
  /\ served \in {"positions", "totals", "bank", "jobs", "window"}
  /\ Init /\ BankInit /\ WindowInit

PositionsStep(r) ==
  \/ \E q \in Questions, order \in Orders \cup {Null} : AddLoadSet(r, q, order, Null)
  \/ AddRest(r) \/ RemoveStep(r) \/ ReorderStep(r)

TotalsStep(r) ==
  \/ \E q \in Questions, override \in Marks \cup {Null} : AddLoadSet(r, q, Null, override)
  \/ AddRest(r) \/ RemoveStep(r) \/ QuestionStep(r) \/ PaperStep(r)

SetStep(r) ==
  \/ served = "positions" /\ PositionsStep(r)
  \/ served = "totals" /\ TotalsStep(r)

LibraryStep(r) ==
  \/ served = "bank" /\ BankStep(r)
  \/ served = "jobs" /\ JobStep(r)

AuthoringNext ==
  /\ \/ (\E r \in Requests : SetStep(r)) /\ UNCHANGED <<library, exam>>
     \/ (\E r \in Requests : LibraryStep(r)) /\ UNCHANGED <<db, exam>>
     \/ served = "window" /\ (\E r \in Requests : WindowStep(r)) /\ UNCHANGED <<db, library>>
  /\ UNCHANGED served

AuthoringSpec == AuthoringInit /\ [][AuthoringNext]_authoringVars

-----------------------------------------------------------------------------
\* Rows have their columns' types.
AuthoringTypeOK == TypeOK /\ BankTypeOK /\ WindowTypeOK

\* A question and a position are in a set once, and a topic has a slug of its own,
\* the rows that are inserted and not committed included.
AuthoringUnique == KeysUnique /\ SlugsUnique

\* A job is approved together with its questions; and, with one request in flight, only
\* once, and a question's options and marks fit its type after any sequence of updates.
BankKept == []QuestionsWellFormed /\ JobsApprovedOnce

\* A request that changes a set's items leaves a total that is the sum of what they
\* are worth, and an assessment made from such a set has that total and questions
\* that add up to it.
TotalsAddUp == RecalculatedWithItems /\ PaperAddsUp
=============================================================================
