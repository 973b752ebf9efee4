\* One or two requests in flight.
CONSTANTS
  q1 = q1
  q2 = q2
  Questions = {q1, q2}
  StartMarks <- MCStartMarks
  Marks = {2}
  Orders = {1, 2}
  Aside = 2
  MaxItems = 2
  Null = Null
  Requests = {r1, r2}
  Slugs = {"algebra", "sets"}
  Drafts <- MCDrafts
  Edits <- MCEdits
  JobRequests <- MCJobs
  Selections <- MCSelections
  MaxDrafted = 1
  MaxBank = 3
  MaxJobs = 2
  EndOfTime = 1
SPECIFICATION AuthoringSpec
SYMMETRY RequestSymmetry
INVARIANTS
  AuthoringTypeOK
  AuthoringUnique
PROPERTIES
  ReordersFailForCause
  TotalsAddUp
  BankKept
  LiveWindowSettles
