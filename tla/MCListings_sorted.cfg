\* Employees by name.
CONSTANTS
  Sorts = {"name"}
  Limits = {1}
  LastRow = 2
  Latest = 1
  Columns = {0, 1}
  Joins <- MCJoins
SPECIFICATION ListingsSpec
INVARIANTS
  SortedListsComplete
\* The last page is the end.
CHECK_DEADLOCK FALSE
