\* A second score for an answer of an evaluated attempt.
CONSTANTS
  q1 = q1
  q2 = q2
  Students = {s1}
  Requests = {r1}
  Questions <- MCQuestions
  Objective = {q1}
  Marks <- MCMarks
  Negative <- MCNegative
  Points = {0, 1, 3}
  MaxEvaluations = 2
  Null = Null
SPECIFICATION Spec
INVARIANTS
  ResultFollowsAnswers
