\* One or two requests in flight.
CONSTANTS
  teacher = teacher
  other = other
  admin = admin
  s1 = s1
  s2 = s2
  Null = Null
  Students = {s1, s2}
  FirstStatuses = {"open", "submitted", "locked"}
  Marks = {"present", "absent"}
  Batches <- MCBatches
  DayStatuses = {"present", "half_day"}
  Times = {1, 2}
  Zones = {0, 1}
  DayLength = 2
  MaxCorrections = 1
  Teachers = {teacher, other}
  Assigned = {teacher}
  Teacher = teacher
  Scheduler = admin
  Entitled = {teacher, admin, s1, s2}
  Capacities = {2, 3}
  ClassEdits <- MCClassEdits
  JoinBefore = 1
  JoinAfter = 0
  Totals = {0}
  MaxTime = 2
  MaxRows = 3
  MaxSeconds = 1
  Requests = {r1, r2}
SPECIFICATION SessionsSpec
SYMMETRY Symmetry
INVARIANTS
  SessionsTypeOK
  SessionsUnique
PROPERTIES
  AdmittedWithinCapacity
  ClassIsLogged
  RecordsKept
\* A closed class, or one at its bounds, may see no more requests.
CHECK_DEADLOCK FALSE
