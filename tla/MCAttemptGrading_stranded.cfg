\* The last two things that complete an attempt, at the same time.
CONSTANTS
  q1 = q1
  q2 = q2
  Students = {s1}
  Requests = {r1, r2}
  Questions <- MCQuestions
  Objective = {q1}
  Marks <- MCMarks
  Negative <- MCNegative
  Points = {0, 1, 3}
  MaxEvaluations = 1
  Null = Null
SPECIFICATION Spec
INVARIANTS
  FinalizedWhenComplete
