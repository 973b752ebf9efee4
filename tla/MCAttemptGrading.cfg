\* One student's attempt with one or two requests in flight.
CONSTANTS
  q1 = q1
  q2 = q2
  Students = {s1}
  Requests = {r1, r2}
  Questions <- MCQuestions
  Objective = {q1}
  Marks <- MCMarks
  Negative <- MCNegative
  Points = {0, 1, 3}
  MaxEvaluations = 2
  Null = Null
SPECIFICATION Spec
SYMMETRY RequestSymmetry
INVARIANTS
  TypeOK
  ConclusionsHold
  ResultsComplete
  EvaluatedHasResult
  ScoresSound
PROPERTIES
  AnswerWriteOnce
  ImplementsContract
  FinalScoreIsTotal
