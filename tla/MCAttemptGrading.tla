-------------------------- MODULE MCAttemptGrading --------------------------
(* Instances of AttemptGrading for TLC: an objective question q1 worth 2    *)
(* marks with 1 negative mark, and a subjective question q2 worth 1.        *)
EXTENDS AttemptGrading, TLC

CONSTANTS q1, q2

MCQuestions == {q1, q2}
MCMarks     == [q \in Questions |-> IF q = q1 THEN 2 ELSE 1]
MCNegative  == [q \in Questions |-> IF q = q1 THEN 1 ELSE 0]

RequestSymmetry == Permutations(Requests)
=============================================================================
