----------------------------- MODULE MCAuthoring -----------------------------
(* Instances of QuestionAuthoring for TLC.                                   *)
EXTENDS QuestionAuthoring

CONSTANTS q1, q2

MCStartMarks == [q \in Questions |-> IF q = q1 THEN 1 ELSE 3]

Row(type, n, correct, negative, status) ==
  [topic |-> "algebra", type |-> type, options |-> OptionsOf(n, correct), marks |-> 1,
   negative |-> negative, status |-> status, job |-> 0]

\* Questions with one, two and no correct options, and one that nobody may create.
MCDrafts ==
  {Row("mcq", 2, 1, 0, "draft"), Row("mcq", 3, 2, 0, "draft"),
   Row("multi_select", 2, 2, 1, "reviewed"), Row("short_answer", 0, 0, 0, "draft")}

Nothing == [c \in DOMAIN Row("mcq", 2, 1, 0, "draft") |-> Null]

\* One column each, the options with or without the type.
MCEdits ==
  {[Nothing EXCEPT !.type = type, !.options = options] :
     type \in {Null, "mcq", "true_false", "multi_select", "short_answer"},
     options \in {Null, OptionsOf(0, 0), OptionsOf(2, 1)}}
  \cup {[Nothing EXCEPT !.status = s] : s \in {"reviewed", "approved", "archived"}}
  \cup {[Nothing EXCEPT !.negative = 1], [Nothing EXCEPT !.negative = 2],
        [Nothing EXCEPT !.marks = 2]}

MCJobs == {[topic |-> "algebra", type |-> "mcq", count |-> 2],
           [topic |-> "sets", type |-> "short_answer", count |-> 1]}

MCSelections == {<<1>>, <<2>>, <<2, 2>>}

RequestSymmetry == Permutations(Requests)
=============================================================================
