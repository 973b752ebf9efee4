\* One or two requests in flight, imports in opposite orders; lists of up to three rows.
CONSTANTS
  n1 = n1
  n2 = n2
  c1 = c1
  c2 = c2
  u1 = u1
  Null = Null
  Numbers = {n1, n2}
  Statuses = {"active", "inactive"}
  Imports <- MCLists
  MaxStudents = 4
  MaxHistory = 2
  MaxFiled = 1
  Codes = {c1, c2}
  Users = {u1}
  Hired <- MCHired
  MaxEmployees = 2
  MayChange = {"code", "user", "status", "profile"}
  Sorts = {"created_at"}
  Limits = {1, 2}
  LastRow = 3
  Latest = 1
  Columns = {0}
  Joins <- MCJoins
  Requests = {r1, r2}
SPECIFICATION DirectorySpec
INVARIANTS
  DirectoryTypeOK
  PeopleUnique
  HistoriesAreChains
  DefaultListsComplete
PROPERTIES
  EveryRequestReturns
  ImportOfFreshNumbers
\* Every number may be taken and every bound reached.
CHECK_DEADLOCK FALSE
