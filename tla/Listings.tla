------------------------------ MODULE Listings ------------------------------
(***************************************************************************)
(* The lists that are read page by page (CursorResult in the repositories of   *)
(* students, people, learn, question, assess and live): a client follows        *)
(* next_cursor to the end while rows are inserted, changed and deleted.  A      *)
(* cursor is the created_at (a live class's starts_at) and the id of the last   *)
(* row of a page.  created_at is the begin of the transaction, so rows of one   *)
(* transaction share it, and a row that is committed later may have less.  A    *)
(* class's starts_at is what its last update says.  A behaviour is about one    *)
(* list.                                                                        *)
(***************************************************************************)
EXTENDS Integers, SequencesExt

CONSTANTS
  Sorts,     \* orders that a client may ask for
  Limits,    \* sizes of a page
  LastRow,   \* bound: ids are 1 .. LastRow
  Latest,    \* bound: times are 0 .. Latest
  Columns,   \* values of the columns to sort by
  Joins      \* bound: participants that one student may be of each class

ASSUME ListingsAssumption ==
  /\ Sorts \subseteq STRING /\ Limits \subseteq Nat \ {0}
  /\ LastRow \in Nat /\ Latest \in Nat /\ Columns \subseteq Int
  /\ Joins \in [1 .. LastRow -> Nat \ {0}]

VARIABLES
  rows,     \* rows[id]: when it was created (for a class, when it starts), the column that
            \* the client sorts by, and how many rows of the client's query are this one
  walk,     \* the client's list, order and limit, its cursor, and the rows it got
  steady,   \* the ids that the filter selected, and no update moved, from the first page on
  moved     \* the classes that updates moved since the first page

listings == <<rows, walk, steady, moved>>

Lists == {"students", "employees", "courses", "questions", "question_sets", "assessments",
          "live_classes"}

Row == [at : 0 .. Latest, column : Columns, matches : Nat]

\* The filter selects a row or not.  A student's classes are joined with participants, and
\* nothing keeps two requests from adding the student twice; a student is once in a batch.
Matches(id) == IF walk.list = "live_classes" THEN 0 .. Joins[id] ELSE 0 .. 1

NoCursor == [at |-> -1, id |-> 0]

-----------------------------------------------------------------------------
\* ORDER BY created_at DESC, id DESC: the default of six lists.
Newer(i, j) == rows[i].at > rows[j].at \/ (rows[i].at = rows[j].at /\ i > j)

\* ORDER BY a column ASC, id DESC.
ColumnBefore(i, j) ==
  rows[i].column < rows[j].column \/ (rows[i].column = rows[j].column /\ i > j)

StudentsBefore(sort, i, j) ==
  IF sort \in {"name", "admission_no"} THEN ColumnBefore(i, j) ELSE Newer(i, j)
EmployeesBefore(sort, i, j) ==
  IF sort \in {"name", "employee_code"} THEN ColumnBefore(i, j) ELSE Newer(i, j)
CoursesBefore(sort, i, j) ==
  IF sort \in {"title", "slug"} THEN ColumnBefore(i, j) ELSE Newer(i, j)
QuestionsBefore(sort, i, j) ==
  IF sort \in {"difficulty", "status"} THEN ColumnBefore(i, j) ELSE Newer(i, j)
QuestionSetsBefore(sort, i, j) ==
  IF sort = "title" THEN ColumnBefore(i, j) ELSE Newer(i, j)
AssessmentsBefore(sort, i, j) ==
  IF sort \in {"starts_at", "title"} THEN ColumnBefore(i, j) ELSE Newer(i, j)
LiveClassesBefore(i, j) ==
  rows[i].at < rows[j].at \/ (rows[i].at = rows[j].at /\ i < j)

-----------------------------------------------------------------------------
EncodeCursor(id) == [at |-> rows[id].at, id |-> id]

OlderByTime(q) ==  \* mutant: rows of one time are not told apart by their ids
  {id \in DOMAIN rows : q.cursor = NoCursor \/ rows[id].at < q.cursor.at}

Older(q) ==
  {id \in DOMAIN rows : \/ q.cursor = NoCursor \/ rows[id].at < q.cursor.at
                        \/ rows[id].at = q.cursor.at /\ id < q.cursor.id}

Later(q) ==
  {id \in DOMAIN rows : \/ q.cursor = NoCursor \/ rows[id].at > q.cursor.at
                        \/ rows[id].at = q.cursor.at /\ id > q.cursor.id}

\* What a query finds: a row once for every match.
Found(ids) == UNION {{id} \X (1 .. rows[id].matches) : id \in ids}

\* At most limit of what is found, and a cursor if there is more.
PageOf(found, limit, Before(_, _)) ==
  LET Earlier(x, y) == Before(x[1], y[1]) \/ (x[1] = y[1] /\ x[2] < y[2])
      more  == Cardinality(found) > limit
      items == CHOOSE s \in [1 .. (IF more THEN limit ELSE Cardinality(found)) -> found] :
                 \A i \in DOMAIN s :
                   /\ \A j \in DOMAIN s : i < j => Earlier(s[i], s[j])
                   /\ \A x \in found \ Range(s) : Earlier(s[i], x)
  IN [items |-> items,
      cursor |-> IF more THEN EncodeCursor(Last(items)[1]) ELSE NoCursor]

StudentsPage(q) ==
  PageOf(Found(Older(q)), q.limit, LAMBDA i, j : StudentsBefore(q.sort, i, j))
EmployeesPage(q) ==
  PageOf(Found(Older(q)), q.limit, LAMBDA i, j : EmployeesBefore(q.sort, i, j))
CoursesPage(q) ==
  PageOf(Found(Older(q)), q.limit, LAMBDA i, j : CoursesBefore(q.sort, i, j))
QuestionsPage(q) ==
  PageOf(Found(Older(q)), q.limit, LAMBDA i, j : QuestionsBefore(q.sort, i, j))
QuestionSetsPage(q) ==
  PageOf(Found(Older(q)), q.limit, LAMBDA i, j : QuestionSetsBefore(q.sort, i, j))
AssessmentsPage(q) ==
  PageOf(Found(Older(q)), q.limit, LAMBDA i, j : AssessmentsBefore(q.sort, i, j))
LiveClassesPage(q) == PageOf(Found(Later(q)), q.limit, LiveClassesBefore)

Page(q) ==
  CASE q.list = "students" -> StudentsPage(q)
    [] q.list = "employees" -> EmployeesPage(q)
    [] q.list = "courses" -> CoursesPage(q)
    [] q.list = "questions" -> QuestionsPage(q)
    [] q.list = "question_sets" -> QuestionSetsPage(q)
    [] q.list = "assessments" -> AssessmentsPage(q)
    [] q.list = "live_classes" -> LiveClassesPage(q)

-----------------------------------------------------------------------------
ListingsInit ==
  /\ rows = << >> /\ steady = {} /\ moved = {}
  /\ walk \in [at : {"none"}, list : Lists]

\* Ids are random: a new row may come anywhere among the others.
RowInserted(id, at, column, matches) ==
  /\ id \notin DOMAIN rows
  /\ rows' = [k \in DOMAIN rows \cup {id} |->
                IF k = id THEN [at |-> at, column |-> column, matches |-> matches]
                ELSE rows[k]]
  /\ UNCHANGED <<walk, steady, moved>>

\* A change of columns, a deletion, or another match.
RowChanged(id, column, matches) ==
  /\ rows' = [rows EXCEPT ![id] = [at |-> @.at, column |-> column, matches |-> matches]]
  /\ steady' = IF matches = 0 THEN steady \ {id} ELSE steady
  /\ UNCHANGED <<walk, moved>>

\* Only a class has another place in its list's order after an update.
ClassMoved(id, at) ==
  /\ walk.list = "live_classes" /\ at # rows[id].at
  /\ rows' = [rows EXCEPT ![id] = [at |-> at, column |-> @.column, matches |-> @.matches]]
  /\ steady' = steady \ {id} /\ moved' = moved \cup {id}
  /\ UNCHANGED walk

Turned(q, got) ==
  LET page == Page(q) IN
  [at |-> IF page.cursor = NoCursor THEN "end" ELSE "page", list |-> q.list, sort |-> q.sort,
   limit |-> q.limit, cursor |-> page.cursor, got |-> got \o page.items]

FirstPage(list, sort, limit) ==
  /\ walk = [at |-> "none", list |-> list]
  /\ walk' = Turned([list |-> list, sort |-> sort, limit |-> limit, cursor |-> NoCursor], << >>)
  /\ steady' = {id \in DOMAIN rows : rows[id].matches > 0} /\ moved' = {}
  /\ UNCHANGED rows

ListStudents(sort, limit)     == FirstPage("students", sort, limit)
ListEmployees(sort, limit)    == FirstPage("employees", sort, limit)
ListCourses(sort, limit)      == FirstPage("courses", sort, limit)
ListQuestions(sort, limit)    == FirstPage("questions", sort, limit)
ListQuestionSets(sort, limit) == FirstPage("question_sets", sort, limit)
ListAssessments(sort, limit)  == FirstPage("assessments", sort, limit)
ListLiveClasses(limit)        == FirstPage("live_classes", "created_at", limit)

NextPage ==
  /\ walk.at = "page"
  /\ walk' = Turned(walk, walk.got)
  /\ UNCHANGED <<rows, steady, moved>>

\* What follows the last page is another list's, or the same one's again.
ListingsNext ==
  /\ walk.at # "end"
  /\ \/ \E id \in 1 .. LastRow, at \in 0 .. Latest, column \in Columns :
          \E matches \in Matches(id) : RowInserted(id, at, column, matches)
     \/ \E id \in DOMAIN rows, column \in Columns :
          \E matches \in Matches(id) : RowChanged(id, column, matches)
     \/ \E id \in DOMAIN rows, at \in 0 .. Latest : ClassMoved(id, at)
     \/ \E sort \in Sorts, limit \in Limits :
          \/ ListStudents(sort, limit) \/ ListEmployees(sort, limit) \/ ListCourses(sort, limit)
          \/ ListQuestions(sort, limit) \/ ListQuestionSets(sort, limit)
          \/ ListAssessments(sort, limit)
     \/ \E limit \in Limits : ListLiveClasses(limit)
     \/ NextPage

ListingsSpec == ListingsInit /\ [][ListingsNext]_listings

-----------------------------------------------------------------------------
ListingsTypeOK ==
  /\ DOMAIN rows \subseteq 1 .. LastRow /\ \A id \in DOMAIN rows : rows[id] \in Row
  /\ steady \subseteq DOMAIN rows /\ moved \subseteq DOMAIN rows /\ walk.list \in Lists

\* The result rows i and j that a client got are one, of a class that moved between two
\* pages, or two of one class, which the student is a participant of twice.
MayRepeat(i, j) ==
  walk.list = "live_classes" /\ (walk.got[i][1] \in moved \/ walk.got[i][2] # walk.got[j][2])

\* A client that has come to the end has got every steady row, and one row twice only if
\* it is a class and the list may repeat it.
Complete ==
  walk.at = "end" =>
    /\ steady \subseteq {x[1] : x \in Range(walk.got)}
    /\ \A i, j \in DOMAIN walk.got :
         walk.got[i][1] = walk.got[j][1] => i = j \/ MayRepeat(i, j)

\* Lists in their default order, whatever happens to the rows meanwhile: a class that is
\* moved is all that its move may lose or repeat, and of a list by created_at nothing is.
DefaultListsComplete == walk.at # "none" /\ walk.sort = "created_at" => Complete

\* "cursor pagination with status, employee type, department, search, and sort
\* support": lists in any of their orders, though no row is changed.
SortedListsComplete == Complete
=============================================================================
