------------------------------ MODULE Attendance ------------------------------
(***************************************************************************)
(* PrepAttend (app/modules/attend/service.py): one attendance session of a    *)
(* batch with its students' records, one employee's records of some days, and   *)
(* the correction requests against these records.                             *)
(*                                                                         *)
(* A record that is inserted and not committed holds its unique key; another   *)
(* request that inserts it waits, and PostgreSQL fails one request of a cycle.  *)
(* A row that is updated before the commit only delays its other writers.      *)
(***************************************************************************)
EXTENDS Integers, Sequences, FiniteSets, FiniteSetsExt, Functions, TLC, RequestSlots

CONSTANTS
  FirstStatuses,   \* statuses a session may be created with
  Students,        \* active members of the session's batch
  Marks,           \* statuses of a student's record
  Batches,         \* bulk marks a request may send: statuses of some students
  DayStatuses,     \* statuses of an employee's record; "present" is one
  Times,           \* instants at which an employee checks in or out
  Zones,           \* offsets from UTC in which a payload may give an instant
  DayLength,       \* instants in a day
  MaxCorrections,  \* bound: correction requests ever made
  Null

Locked          == {"locked", "cancelled"}
SessionStatuses == {"draft", "open", "submitted"} \cup Locked

\* The date of an instant is the one of the payload's own offset.
DateOf(t, zone) == (t + zone) \div DayLength

Dates == {DateOf(t, zone) : t \in Times, zone \in Zones}

ASSUME AttendanceAssumption ==
  /\ FirstStatuses \subseteq SessionStatuses
  /\ "present" \in DayStatuses /\ Times \subseteq Nat /\ Zones \subseteq Nat
  /\ DayLength \in Nat \ {0}
  /\ IsFiniteSet(DayStatuses) /\ IsFiniteSet(Zones)
  /\ \A marks \in Batches : DOMAIN marks \subseteq Students /\ Range(marks) \subseteq Marks
  /\ MaxCorrections \in Nat
  /\ Students \cap Dates = {}   \* a correction's target tells its table
  /\ Null \notin Int \cup Students \cup Marks \cup DayStatuses

VARIABLES
  session,      \* status of the session, Null until it is created
  records,      \* records[s]: status of the student's record
  days,         \* days[d]: the employee's record of date d: in, out, status
  corrections   \* requests in order: target, wanted status, status

attendance == <<session, records, days, corrections>>

DayRecord == [in : Times, out : Times \cup {Null}, status : DayStatuses]

-----------------------------------------------------------------------------
(* Waiting for the key of a record.                                          *)

Marking(p) == req[p].at \in {"mark.find", "mark.insert"}

Held(r, s) == \E p \in Requests \ {r} : Marking(p) /\ s \in req[p].inserted

WaitsFor(p, q) ==
  /\ req[p].at = "mark.insert" /\ Marking(q) /\ p # q
  /\ req[p].s \in req[q].inserted

\* r is in a cycle of waits.
InCycle(r) ==
  \E C \in SUBSET Requests :
    /\ r \in C
    /\ \A p \in C : (\E q \in C : WaitsFor(p, q)) /\ (\E q \in C : WaitsFor(q, p))

-----------------------------------------------------------------------------
AttendanceInit ==
  /\ session = Null
  /\ records = << >> /\ days = << >> /\ corrections = << >>

\* create_student_session takes the first status from the payload.
CreateSession(r, first) ==
  /\ req[r] = Idle /\ session = Null
  /\ session' = first
  /\ UNCHANGED <<records, days, corrections, req>>

(* mark_student_records: a batch of marks, one student after the other; what   *)
(* is there is updated, what is not is inserted.  A conflict rolls all back.    *)

Writable(status) == status # Null /\ status \notin Locked

MarkLoad(r, marks, submit) ==
  /\ Writable(session)
  /\ Begin(r, [at |-> "mark.find", marks |-> marks, submit |-> submit, seen |-> session,
               inserted |-> {}, loaded |-> << >>])
  /\ UNCHANGED attendance

Done(x) == x.inserted \cup DOMAIN x.loaded

MarkFind(r, s) ==
  LET x == req[r] IN
  /\ x.at = "mark.find" /\ s \in DOMAIN x.marks \ Done(x)
  /\ IF s \in DOMAIN records
     THEN Continue(r, [x EXCEPT !.loaded = WithRow(@, s, records[s])])
     ELSE Continue(r, [at |-> "mark.insert", s |-> s, marks |-> x.marks, submit |-> x.submit,
                       seen |-> x.seen, inserted |-> x.inserted, loaded |-> x.loaded])
  /\ UNCHANGED attendance

Inserted(x) ==
  [at |-> "mark.find", marks |-> x.marks, submit |-> x.submit, seen |-> x.seen,
   inserted |-> x.inserted \cup {x.s}, loaded |-> x.loaded]

MarkInsertFirst(r) ==  \* mutant: a held key is not waited for
  LET x == req[r] IN
  /\ x.at = "mark.insert" /\ x.s \notin DOMAIN records
  /\ Continue(r, Inserted(x))
  /\ UNCHANGED attendance

MarkInsert(r) ==
  LET x == req[r] IN
  /\ x.at = "mark.insert" /\ x.s \notin DOMAIN records /\ ~Held(r, x.s)
  /\ Continue(r, Inserted(x))
  /\ UNCHANGED attendance

MarkConflict(r) ==
  /\ req[r].at = "mark.insert"
  /\ req[r].s \in DOMAIN records \/ InCycle(r)
  /\ Return(r)
  /\ UNCHANGED attendance

MarkSave(r) ==
  LET x == req[r] IN
  /\ x.at = "mark.find" /\ DOMAIN x.marks = Done(x)
  /\ records' = [s \in DOMAIN records \cup x.inserted |->
                   IF s \in x.inserted THEN x.marks[s]
                   ELSE IF s \in DOMAIN x.loaded
                   THEN Flushed(records[s], x.loaded[s], x.marks[s])
                   ELSE records[s]]
  /\ session' = IF x.submit THEN Flushed(session, x.seen, "submitted") ELSE session
  /\ Return(r)
  /\ UNCHANGED <<days, corrections>>

(* update_student_record *)

RecordLoad(r, s, mark) ==
  /\ s \in DOMAIN records /\ Writable(session)
  /\ Begin(r, [at |-> "record.save", s |-> s, mark |-> mark, loaded |-> records[s]])
  /\ UNCHANGED attendance

RecordSave(r) ==
  LET x == req[r] IN
  /\ x.at = "record.save"
  /\ records' = [records EXCEPT ![x.s] = Flushed(@, x.loaded, x.mark)]
  /\ Return(r)
  /\ UNCHANGED <<session, days, corrections>>

-----------------------------------------------------------------------------
(* employee_check_in: an existing record is returned to whoever repeats its     *)
(* key and refused to others; so only a missing record leads to an insert.      *)

CheckInLoad(r, t, zone) ==
  /\ DateOf(t, zone) \notin DOMAIN days
  /\ Begin(r, [at |-> "checkin.save", time |-> t, date |-> DateOf(t, zone)])
  /\ UNCHANGED attendance

CheckedIn(t) == [in |-> t, out |-> Null, status |-> "present"]

CheckInAgain(r) ==  \* mutant: the later of two check-ins in flight replaces the first
  LET x == req[r] IN
  /\ x.at = "checkin.save"
  /\ days' = [WithRow(days, x.date, CheckedIn(x.time)) EXCEPT ![x.date] = CheckedIn(x.time)]
  /\ Return(r)
  /\ UNCHANGED <<session, records, corrections>>

\* The insert of a second record of the day fails, and nothing catches it.
CheckInSave(r) ==
  LET x == req[r] IN
  /\ x.at = "checkin.save"
  /\ days' = WithRow(days, x.date, CheckedIn(x.time))
  /\ Return(r)
  /\ UNCHANGED <<session, records, corrections>>

(* employee_check_out, with or without a status.                              *)

AfterAnything(t, in) == TRUE  \* mutant: the times are not compared
NotBefore(t, in)     == t >= in

CheckOutLoad(r, t, zone, status) ==
  LET d == DateOf(t, zone) IN
  /\ d \in DOMAIN days /\ NotBefore(t, days[d].in)
  /\ Begin(r, [at |-> "checkout.save", date |-> d, row |-> days[d],
               new |-> [days[d] EXCEPT !.out = t, !.status = IF status = Null THEN @ ELSE status]])
  /\ UNCHANGED attendance

CheckOutSave(r) ==
  LET x == req[r] IN
  /\ x.at = "checkout.save"
  /\ days' = [days EXCEPT ![x.date] =
                Written(@, x.row, x.new)]
  /\ Return(r)
  /\ UNCHANGED <<session, records, corrections>>

-----------------------------------------------------------------------------
(* create_correction_request: the target exists and could have the status.     *)

Targets == DOMAIN records \cup DOMAIN days

StatusesOfAny(target) == Marks \cup DayStatuses  \* mutant: one list for both records

StatusesOf(target) == IF target \in Dates THEN DayStatuses ELSE Marks

Correction ==
  UNION {[target : {t}, wanted : StatusesOf(t), status : {"pending", "approved", "rejected"}] : t \in Targets}

CreateCorrection(r, target, wanted) ==
  /\ req[r] = Idle /\ Len(corrections) < MaxCorrections
  /\ target \in Targets
  /\ corrections' = Append(corrections, [target |-> target, wanted |-> wanted, status |-> "pending"])
  /\ UNCHANGED <<session, records, days, req>>

(* approve_correction_request, which also rejects.                            *)

ReviewLoad(r, c, approved) ==
  /\ corrections[c].status = "pending"
  /\ Begin(r, [at |-> IF approved THEN "review.target" ELSE "reject.save", c |-> c])
  /\ UNCHANGED attendance

StatusNow(target) == IF target \in Dates THEN days[target].status ELSE records[target]

ReviewTarget(r) ==
  LET x == req[r] IN
  /\ x.at = "review.target"
  /\ Continue(r, [at |-> "approve.save", c |-> x.c, seen |-> StatusNow(corrections[x.c].target)])
  /\ UNCHANGED attendance

ApproveSaveStudents(r) ==  \* mutant: only students' records are corrected
  LET x == req[r]  fix == corrections[x.c] IN
  /\ x.at = "approve.save"
  /\ corrections' = [corrections EXCEPT ![x.c].status = "approved"]
  /\ records' = IF fix.target \in Dates THEN records
                ELSE [records EXCEPT ![fix.target] = Flushed(@, x.seen, fix.wanted)]
  /\ Return(r)
  /\ UNCHANGED <<session, days>>

ApproveSave(r) ==
  LET x == req[r]  fix == corrections[x.c] IN
  /\ x.at = "approve.save"
  /\ corrections' = [corrections EXCEPT ![x.c].status = "approved"]
  /\ IF fix.target \in Dates
     THEN days' = [days EXCEPT ![fix.target].status = Flushed(@, x.seen, fix.wanted)] /\ UNCHANGED records
     ELSE records' = [records EXCEPT ![fix.target] = Flushed(@, x.seen, fix.wanted)]
          /\ UNCHANGED days
  /\ Return(r)
  /\ UNCHANGED session

RejectSave(r) ==
  /\ req[r].at = "reject.save"
  /\ corrections' = [corrections EXCEPT ![req[r].c].status = "rejected"]
  /\ Return(r)
  /\ UNCHANGED <<session, records, days>>

-----------------------------------------------------------------------------
(* employee_summary: of the records of some dates; percentages are in            *)
(* hundredths, rounded half up, and half a day counts half.                     *)

CountOf(rows, statuses) == Cardinality({d \in DOMAIN rows : rows[d].status \in statuses})

Percentage(halves, total) ==
  IF total = 0 THEN 0 ELSE (10000 * halves + total) \div (2 * total)

WorkTimeToEnd(day) ==  \* mutant: without a check-out, to the end of the last day
  (IF day.out = Null THEN (1 + Max(Dates)) * DayLength ELSE day.out) - day.in

WorkTime(day) == IF day.out = Null THEN 0 ELSE Max({0, day.out - day.in})

EmployeeSummaryItem(rows) ==
  LET total == Cardinality(DOMAIN rows) IN
  [total |-> total,
   counts |-> [status \in DayStatuses |-> CountOf(rows, {status})],
   percentage |-> Percentage(2 * CountOf(rows, {"present", "late"}) + CountOf(rows, {"half_day"}),
                             total),
   work |-> SumFunction([d \in DOMAIN rows |-> WorkTime(rows[d])])]

DaysBetween(from, to) == Restrict(days, {d \in DOMAIN days : from <= d /\ d <= to})

EmployeeSummary(from, to) == EmployeeSummaryItem(DaysBetween(from, to))

-----------------------------------------------------------------------------
MarkStep(r) ==
  \/ \E first \in FirstStatuses : CreateSession(r, first)
  \/ \E marks \in Batches, submit \in BOOLEAN : MarkLoad(r, marks, submit)
  \/ \E s \in Students : MarkFind(r, s)
  \/ MarkInsert(r) \/ MarkConflict(r) \/ MarkSave(r)
  \/ \E s \in Students, mark \in Marks : RecordLoad(r, s, mark)
  \/ RecordSave(r)

DayStep(r) ==
  \/ \E t \in Times, zone \in Zones : CheckInLoad(r, t, zone)
  \/ CheckInSave(r)
  \/ \E t \in Times, zone \in Zones, status \in DayStatuses \cup {Null} :
       CheckOutLoad(r, t, zone, status)
  \/ CheckOutSave(r)

CorrectionStep(r) ==
  \/ \E target \in Targets : \E wanted \in StatusesOf(target) : CreateCorrection(r, target, wanted)
  \/ \E c \in DOMAIN corrections, approved \in BOOLEAN : ReviewLoad(r, c, approved)
  \/ ReviewTarget(r) \/ ApproveSave(r) \/ RejectSave(r)

-----------------------------------------------------------------------------
\* Rows have their columns' types.
AttendanceTypeOK ==
  /\ session \in SessionStatuses \cup {Null}
  /\ DOMAIN records \subseteq Students /\ Range(records) \subseteq Marks
  /\ DOMAIN days \subseteq Dates /\ Range(days) \subseteq DayRecord
  /\ \A c \in DOMAIN corrections : corrections[c] \in Correction

(* With any number of requests in flight.                                     *)

\* "One student attendance record is allowed per session/student pair": no two
\* requests insert the record of one student, nor one that is there.
OneRecordPerStudent ==
  \A r \in Requests : Marking(r) =>
    /\ req[r].inserted \cap DOMAIN records = {}
    /\ \A p \in Requests \ {r} : Marking(p) => req[r].inserted \cap req[p].inserted = {}

\* "Check-out time cannot be before check-in time", in the record that remains
\* after any check-ins and check-outs.
OutAfterIn == \A d \in DOMAIN days : days[d].out # Null => days[d].in <= days[d].out

\* The summary x of the records in rows adds up.
AddsUp(x, rows) ==
  /\ x.work <= x.total * (DayLength - 1 + Max(Zones))
  /\ x.total = SumFunction(x.counts)
  /\ x.percentage \in Nat /\ x.percentage <= 10000
  /\ x.total < 10000 =>
       (x.percentage = 10000 <=>
          x.total > 0 /\ \A d \in DOMAIN rows : rows[d].status \in {"present", "late"})

\* A summary of any dates adds up: the work is no longer than the days there are
\* records of, though a day is longer by the offsets of its payloads, and only who
\* was there on all of them has all of the attendance; of 10000 records one half
\* day is rounded away.
SummariesAddUp == \A from, to \in Dates : AddsUp(EmployeeSummary(from, to), DaysBetween(from, to))

\* Repeated, late and concurrent check-ins of a date leave the first one's time.
FirstCheckInStays ==
  \A d \in DOMAIN days : d \in DOMAIN days' /\ days'[d].in = days[d].in

(* Rules of the handlers taken one at a time; with two requests in flight    *)
(* each of them fails.                                                       *)

\* "Approved corrections apply the requested status to the target record."
ApprovedApplied ==
  [][\A c \in DOMAIN corrections :
       OneAtATime /\ corrections[c].status # "approved" /\ corrections'[c].status = "approved"
         => StatusNow(corrections[c].target)' = corrections[c].wanted]_attendance
=============================================================================
