\* One or two requests in flight; the position after 2 is in the range used to move
\* rows aside.
CONSTANTS
  s1 = s1
  s2 = s2
  s3 = s3
  Null = Null
  Modules = {1, 2}
  Lessons = {1, 2}
  Positions = {1, 2}
  Aside = 2
  MaxPublications = 2
  Assignees = {"batch", "teacher"}
  FirstModules <- MCFirstModules
  Students = {s1, s2, s3}
  Capacities = {1, 2}
  Dates = {1, 2}
  MaxTime = 1
  Requests = {r1, r2}
SPECIFICATION DeliverySpec
SYMMETRY Symmetry
INVARIANTS
  DeliveryTypeOK
  BatchKept
PROPERTIES
  OutlineKept
\* A deleted course, and a batch at the bound of the clock, stay as they are.
CHECK_DEADLOCK FALSE
