\* An import lists the number of a deleted student.
CONSTANTS
  n1 = n1
  n2 = n2
  Null = Null
  Numbers = {n1, n2}
  Statuses = {"active"}
  Imports <- MCPair
  MaxStudents = 3
  MaxHistory = 1
  MaxFiled = 0
  Requests = {r1}
SPECIFICATION Spec
PROPERTIES
  ImportKeepsGoodRows
\* Every number may be taken and every bound reached.
CHECK_DEADLOCK FALSE
