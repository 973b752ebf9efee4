\* Two students, one request at a time, evaluators working through the queue.
CONSTANTS
  q1 = q1
  q2 = q2
  Students = {s1, s2}
  Requests = {r1}
  Questions <- MCQuestions
  Objective = {q1}
  Marks <- MCMarks
  Negative <- MCNegative
  Points = {0, 1, 3}
  MaxEvaluations = 1
  Null = Null
SPECIFICATION FairSpec
PROPERTIES
  FullAttemptEvaluated
