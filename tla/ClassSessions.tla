----------------------------- MODULE ClassSessions -----------------------------
(***************************************************************************)
(* Live classes and the attendance that is taken of students and employees.     *)
(* A behaviour is about some of the rows:                                       *)
(*   class     the class and its log                                           *)
(*   people    who joins the class, and its end; one request at a time           *)
(*   students  a session's records and their corrections                        *)
(*   employee  an employee's records and their corrections                      *)
(* No handler touches rows of two of them: attendance reads no live class, and   *)
(* a class's update leaves its participants alone.                              *)
(***************************************************************************)
EXTENDS LiveClass

VARIABLE served   \* what this behaviour is about

sessionVars == <<attendance, live, clock, served, req>>

SessionsInit ==
  /\ served \in {"class", "people", "students", "employee"}
  /\ AttendanceInit /\ LiveInit /\ InitRequests
  /\ served = "people" => OneAtATime

LiveNext ==
  \/ served = "class" /\ \E r \in Requests : ClassStep(r) \/ EndStep(r)
  \/ served = "people" /\ (Tick \/ \E r \in Requests : EndStep(r) \/ JoinStep(r) \/ CaptureStep(r))

AttendanceNext ==
  \/ served = "students" /\ \E r \in Requests : MarkStep(r) \/ CorrectionStep(r)
  \/ served = "employee" /\ \E r \in Requests : DayStep(r) \/ CorrectionStep(r)

SessionsNext ==
  /\ \/ LiveNext /\ UNCHANGED attendance
     \/ AttendanceNext /\ UNCHANGED <<live, clock>>
  /\ UNCHANGED served

SessionsSpec == SessionsInit /\ [][SessionsNext]_sessionVars

-----------------------------------------------------------------------------
\* Rows have their columns' types.
SessionsTypeOK == LiveTypeOK /\ AttendanceTypeOK

\* A class's log tells its status and its participants' presence; with one request at
\* a time its window stays open to them, and a closed class stays closed.
ClassIsLogged ==
  [](StatusIsLogged /\ PresenceIsLogged /\ WindowKept) /\ [][ClosedStaysClosed]_sessionVars

\* A person has one row in a class, and a student one record in a session, whether it
\* is committed or still being inserted.
SessionsUnique == OneRowPerPerson /\ OneRecordPerStudent

\* An employee's record keeps the first check-in and no earlier check-out, and an
\* approved correction is what the record says; summaries of the records add up.
RecordsKept ==
  [](OutAfterIn /\ SummariesAddUp) /\ [][FirstCheckInStays]_sessionVars /\ ApprovedApplied
=============================================================================
