--------------------------- MODULE StudentRecords ---------------------------
(***************************************************************************)
(* The students of one tenant: creation, bulk import, updates and soft       *)
(* deletion, their admission numbers and their status history                *)
(* (app/modules/students/service.py).                                        *)
(*                                                                         *)
(* Admission numbers are unique over all rows, the deleted ones included.    *)
(* An import inserts row by row and commits at the end: until then its       *)
(* numbers are held, and whoever needs one waits.  A cycle of waits is broken  *)
(* by PostgreSQL, which fails one of the requests.                           *)
(***************************************************************************)
EXTENDS Integers, FiniteSets, SequencesExt, RequestSlots

CONSTANTS
  Numbers,      \* admission numbers
  Statuses,     \* of a student, a new one's too: it comes with the payload
  Imports,      \* what an import may list: sequences of numbers
  MaxStudents,  \* bound: students ever inserted
  MaxHistory,   \* bound: status changes of one student
  MaxFiled,     \* bound: guardians, notes, documents and enrollments together
  Null

ASSUME RecordsAssumption ==
  /\ Null \notin Statuses \cup Numbers
  /\ Imports \subseteq Seq(Numbers)
  /\ MaxStudents \in Nat /\ MaxHistory \in Nat /\ MaxFiled \in Nat

VARIABLES
  students,  \* rows in order of insertion: number, status, deleted
  history,   \* history[i]: the status changes of student i, from and to
  filed      \* rows that belong to a student, in order of insertion

db   == <<students, history, filed>>
vars == <<students, history, filed, req>>

Student      == [number : Numbers, status : Statuses, deleted : BOOLEAN]
StatusChange == [from : Statuses \cup {Null}, to : Statuses]

Ids == DOMAIN students

\* A guardian comes with its link to the student.
Guardian          == [student : Nat, kind : {"guardian"}]
StudentNote       == [student : Nat, kind : {"note"}]
StudentDocument   == [student : Nat, kind : {"document"}]
StudentEnrollment == [student : Nat, kind : {"enrollment"}]

-----------------------------------------------------------------------------
NumbersInUse == {students[i].number : i \in Ids}

\* get_by_admission_no overlooks the deleted students.
KnownNever(n) == FALSE  \* mutant: no lookup before the insert
Known(n)      == \E i \in Ids : students[i].number = n /\ ~students[i].deleted

Importing(p) == req[p].at \in {"import.lookup", "import.insert", "import.save"}

\* Another request has inserted the number and not committed.
Held(r, n) == \E p \in Requests \ {r} : Importing(p) /\ n \in Range(req[p].created)

\* p waits for a number that q holds.
WaitsFor(p, q) ==
  req[p].at = "import.insert" /\ Importing(q) /\ p # q /\ req[p].number \in Range(req[q].created)

NoCycle(r) == FALSE  \* mutant: nobody breaks a cycle

\* r is in a cycle of waits.
InCycle(r) ==
  \E C \in SUBSET Requests :
    /\ r \in C
    /\ \A p \in C : (\E q \in C : WaitsFor(p, q)) /\ (\E q \in C : WaitsFor(q, p))

Pending == FoldSet(LAMBDA p, n : n + Len(req[p].asked), 0, {p \in Requests : Importing(p)})

RoomFor(k) == Len(students) + Pending + k <= MaxStudents

\* Two rows of the table have one number: the unique constraint refuses.
Taken(n, others) == \E i \in others : students[i].number = n

NewRow(n, s)  == [number |-> n, status |-> s, deleted |-> FALSE]
NewHistory(s) == <<[from |-> Null, to |-> s]>>

-----------------------------------------------------------------------------
Init == students = << >> /\ history = << >> /\ filed = << >> /\ InitRequests

(* create_student: one flush, which waits for the number, and the commit.     *)
Create(r, n, s) ==
  /\ req[r] = Idle /\ RoomFor(1)
  /\ ~Held(r, n) /\ ~Taken(n, Ids)
  /\ students' = Append(students, NewRow(n, s))
  /\ history' = Append(history, NewHistory(s))
  /\ UNCHANGED <<filed, req>>

-----------------------------------------------------------------------------
(* update_student: a new number, a new status or both.                        *)

UpdateLoad(r, i, number, status) ==
  /\ ~students[i].deleted
  /\ Len(history[i]) < MaxHistory
  /\ Begin(r, [at |-> "update.save", id |-> i, row |-> students[i],
               number |-> IF number = Null THEN students[i].number ELSE number,
               status |-> IF status = Null THEN students[i].status ELSE status])
  /\ UNCHANGED db

ChangedAlways(x) ==  \* mutant: recorded although the status stays
  <<[from |-> x.row.status, to |-> x.status]>>

\* The history records a change from the status that was loaded.
Changed(x) ==
  IF x.status = x.row.status THEN << >> ELSE <<[from |-> x.row.status, to |-> x.status]>>

UpdateSave(r) ==
  LET x == req[r] IN
  /\ x.at = "update.save"
  /\ x.number # x.row.number => ~Held(r, x.number)
  /\ \/ /\ x.number # x.row.number /\ Taken(x.number, Ids \ {x.id})
        /\ UNCHANGED db
     \/ /\ x.number = x.row.number \/ ~Taken(x.number, Ids \ {x.id})
        /\ students' = [students EXCEPT
             ![x.id].number = Flushed(@, x.row.number, x.number),
             ![x.id].status = Flushed(@, x.row.status, x.status)]
        /\ history' = [history EXCEPT ![x.id] = @ \o Changed(x)]
        /\ UNCHANGED filed
  /\ Return(r)

(* delete_student *)

DeleteLoad(r, i) ==
  /\ ~students[i].deleted
  /\ Begin(r, [at |-> "delete.save", id |-> i])
  /\ UNCHANGED db

DeleteSave(r) ==
  /\ req[r].at = "delete.save"
  /\ students' = [students EXCEPT ![req[r].id].deleted = TRUE]
  /\ Return(r)
  /\ UNCHANGED <<history, filed>>

-----------------------------------------------------------------------------
(* Rows that a student is given: the student is looked up, then it is inserted. *)

FileLoad(r, i, kind) ==
  /\ ~students[i].deleted /\ Len(filed) < MaxFiled
  /\ Begin(r, [at |-> "file.save", row |-> [student |-> i, kind |-> kind]])
  /\ UNCHANGED db

AddGuardian(r, i)   == FileLoad(r, i, "guardian")
AddNote(r, i)       == FileLoad(r, i, "note")
AddDocument(r, i)   == FileLoad(r, i, "document")
EnrollStudent(r, i) == FileLoad(r, i, "enrollment")

FileSave(r) ==
  /\ req[r].at = "file.save"
  /\ filed' = Append(filed, req[r].row)
  /\ Return(r)
  /\ UNCHANGED <<students, history>>

-----------------------------------------------------------------------------
(* bulk_import_students: a number listed twice or known is reported and       *)
(* skipped.  An insert that fails is not caught: nothing is committed.        *)

ImportStart(r, numbers) ==
  /\ numbers # << >> /\ RoomFor(Len(numbers))
  /\ Begin(r, [at |-> "import.lookup", asked |-> numbers, number |-> Head(numbers),
               rest |-> Tail(numbers), created |-> << >>, errors |-> {}])
  /\ UNCHANGED db

\* On to the next row, or to the commit.
Advanced(x, created, errors) ==
  IF x.rest = << >>
  THEN [x EXCEPT !.at = "import.save", !.created = created, !.errors = errors]
  ELSE [x EXCEPT !.at = "import.lookup", !.number = Head(x.rest), !.rest = Tail(x.rest),
                 !.created = created, !.errors = errors]

Seen(x) == Range(SubSeq(x.asked, 1, Len(x.asked) - Len(x.rest) - 1))

ImportLookup(r) ==
  LET x == req[r] IN
  /\ x.at = "import.lookup"
  /\ \/ /\ x.number \in Seen(x) \/ Known(x.number)
        /\ Continue(r, Advanced(x, x.created, x.errors \cup {x.number}))
     \/ /\ x.number \notin Seen(x) /\ ~Known(x.number)
        /\ Continue(r, [x EXCEPT !.at = "import.insert"])
  /\ UNCHANGED db

ImportInsertFirst(r) ==  \* mutant: a held number is not waited for
  LET x == req[r] IN
  /\ x.at = "import.insert"
  /\ ~Taken(x.number, Ids)
  /\ Continue(r, Advanced(x, Append(x.created, x.number), x.errors))
  /\ UNCHANGED db

ImportInsert(r) ==
  LET x == req[r] IN
  /\ x.at = "import.insert"
  /\ ~Held(r, x.number) /\ ~Taken(x.number, Ids)
  /\ Continue(r, Advanced(x, Append(x.created, x.number), x.errors))
  /\ UNCHANGED db

\* The number has been taken, by a deleted student or by somebody faster, or
\* the request is chosen to break a cycle.
ImportAbort(r) ==
  LET x == req[r] IN
  /\ x.at = "import.insert"
  /\ \/ Taken(x.number, Ids)
     \/ InCycle(r)
  /\ Return(r)
  /\ UNCHANGED db

ImportSaveRows(r) ==  \* mutant: imported students get no history
  LET x == req[r] IN
  /\ x.at = "import.save"
  /\ \E given \in [DOMAIN x.created -> Statuses] :
       students' = students \o [k \in DOMAIN x.created |-> NewRow(x.created[k], given[k])]
  /\ Return(r)
  /\ UNCHANGED <<history, filed>>

ImportSave(r) ==
  LET x == req[r] IN
  /\ x.at = "import.save"
  /\ \E given \in [DOMAIN x.created -> Statuses] :
       /\ students' = students \o [k \in DOMAIN x.created |-> NewRow(x.created[k], given[k])]
       /\ history'  = history \o [k \in DOMAIN x.created |-> NewHistory(given[k])]
  /\ Return(r)
  /\ UNCHANGED filed

-----------------------------------------------------------------------------
ImportStep(r) == ImportLookup(r) \/ ImportInsert(r) \/ ImportAbort(r) \/ ImportSave(r)

Progress(r) == UpdateSave(r) \/ DeleteSave(r) \/ ImportStep(r) \/ FileSave(r)

Step(r) ==
  \/ \E n \in Numbers, s \in Statuses : Create(r, n, s)
  \/ \E i \in Ids, n \in Numbers \cup {Null}, s \in Statuses \cup {Null} : UpdateLoad(r, i, n, s)
  \/ UpdateSave(r)
  \/ \E i \in Ids : DeleteLoad(r, i)
  \/ DeleteSave(r)
  \/ \E numbers \in Imports : ImportStart(r, numbers)
  \/ ImportStep(r)

\* Filing, which reads no more of a student than whether it is deleted.
FilingStep(r) ==
  \/ \E n \in Numbers, s \in Statuses : Create(r, n, s)
  \/ \E i \in Ids : DeleteLoad(r, i)
  \/ DeleteSave(r)
  \/ \E i \in Ids : AddGuardian(r, i) \/ AddNote(r, i) \/ AddDocument(r, i) \/ EnrollStudent(r, i)
  \/ FileSave(r)

Next == \E r \in Requests : Step(r)

Spec == Init /\ [][Next]_vars

-----------------------------------------------------------------------------
\* Rows have their columns' types, and every student has a history.
TypeOK ==
  /\ students \in Seq(Student)
  /\ DOMAIN history = Ids
  /\ \A i \in Ids : /\ history[i] \in Seq(StatusChange)
                    /\ history[i] # << >>
  /\ \A k \in DOMAIN filed :
       /\ filed[k] \in Guardian \cup StudentNote \cup StudentDocument \cup StudentEnrollment
       /\ filed[k].student \in Ids

(* With any number of requests in flight.                                     *)

\* No admission number is given twice, not even one of a deleted student or one
\* that an import is still holding.
NumbersUnique ==
  /\ \A i, j \in Ids : students[i].number = students[j].number => i = j
  /\ \A r, p \in Requests : r # p /\ Importing(r) /\ Importing(p)
       => Range(req[r].created) \cap Range(req[p].created) = {}
  /\ \A r \in Requests : Importing(r) => Range(req[r].created) \cap NumbersInUse = {}

\* The last status of the history is the student's.
HistoryEndsAtStatus == \A i \in Ids : Last(history[i]).to = students[i].status

\* A request that waits for a number another one holds is answered, also when
\* two imports wait for each other.
EveryRequestReturns == \A r \in Requests : InFlight(r) ~> ~InFlight(r)

(* Rules of the handlers taken one at a time; with two requests in flight    *)
(* each of them fails.                                                       *)

\* The history is the student's way from status to status, without gaps.
HistoryIsChain ==
  OneAtATime => \A i \in Ids : \A k \in 2 .. Len(history[i]) :
    /\ history[i][k].from = history[i][k - 1].to
    /\ history[i][k].from # history[i][k].to

\* "imports up to 500 students, reporting duplicate rows without aborting
\* successful rows": an import ends with every number created or reported.
ImportCovers(x, reported) ==
  \A n \in Range(x.asked) : n \in reported \/ \E i \in DOMAIN students' : students'[i].number = n

NoneOfDeleted(x) ==
  \A n \in Range(x.asked) : \A i \in Ids : students[i].number = n => ~students[i].deleted

Ends(r) == req[r].at \in {"import.insert", "import.save"} /\ req'[r] = Idle

ImportKeepsGoodRows ==
  [][\A r \in Requests : Ends(r) => ImportSave(r) /\ ImportCovers(req[r], req[r].errors)]_vars

\* The same, for imports that list no number of a deleted student.
ImportOfFreshNumbers ==
  [][\A r \in Requests : OneAtATime /\ Ends(r) /\ NoneOfDeleted(req[r])
       => ImportSave(r) /\ ImportCovers(req[r], req[r].errors)]_vars
=============================================================================
