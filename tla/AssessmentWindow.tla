-------------------------- MODULE AssessmentWindow --------------------------
(***************************************************************************)
(* One assessment and the window in which students may attempt it: creation,    *)
(* updates, scheduling and publishing (app/modules/assess/service.py).  Attempts  *)
(* and their results are in AttemptGrading.                                     *)
(***************************************************************************)
EXTENDS QuestionBank

CONSTANT EndOfTime  \* bound: times are 0 .. EndOfTime

ASSUME WindowAssumption == EndOfTime \in Nat

VARIABLE exam   \* the assessment's row, NoExam before it is created

Time   == 0 .. EndOfTime
NoExam == [status |-> "none"]

Assessment ==
  [status : {"draft", "scheduled", "live"}, starts : Time \cup {Null}, ends : Time \cup {Null},
   asked : BOOLEAN,    \* whether it has questions
   batch : BOOLEAN]    \* whether it is for the members of the batch

-----------------------------------------------------------------------------
WindowInit == exam = NoExam

\* A payload with both ends of the window has them in order.
Ordered(starts, ends) == starts \in Time /\ ends \in Time => starts < ends

CreateAssessment(r, starts, ends, asked, batch) ==
  /\ req[r] = Idle /\ exam = NoExam /\ Ordered(starts, ends)
  /\ exam' = [status |-> "draft", starts |-> starts, ends |-> ends, asked |-> asked,
              batch |-> batch]
  /\ UNCHANGED req

-----------------------------------------------------------------------------
(* update_assessment: a field the payload has is written, NULL included.       *)

UpdateWindow(r, new) ==
  /\ exam.status \in {"draft", "scheduled"}
  /\ Ordered(IF new.starts = exam.starts THEN Null ELSE new.starts,
             IF new.ends = exam.ends THEN Null ELSE new.ends)
  /\ Begin(r, [at |-> "window.save", row |-> exam, new |-> new])
  /\ UNCHANGED exam

\* schedule_assessment asks for questions, whatever the status.
ScheduleAssessment(r, starts, ends) ==
  /\ exam.asked /\ starts < ends
  /\ Begin(r, [at |-> "window.save", row |-> exam,
               new |-> [exam EXCEPT !.starts = starts, !.ends = ends, !.status = "scheduled"]])
  /\ UNCHANGED exam

\* publish_assessment asks for a window, unless it is forced.
PublishAssessment(r, force) ==
  /\ force \/ (exam.starts # Null /\ exam.ends # Null)
  /\ Begin(r, [at |-> "window.save", row |-> exam, new |-> [exam EXCEPT !.status = "live"]])
  /\ UNCHANGED exam

WindowSaveWhole(r) ==  \* mutant: the whole row is written as it was loaded and changed
  LET x == req[r] IN
  /\ x.at = "window.save"
  /\ exam' = x.new
  /\ Return(r)

WindowSave(r) ==
  LET x == req[r] IN
  /\ x.at = "window.save"
  /\ exam' = Written(exam, x.row, x.new)
  /\ Return(r)

-----------------------------------------------------------------------------
(* start_attempt asks for the status, the window and a place in the batch.      *)

WithinWindow(row, now) ==
  /\ row.status \in {"scheduled", "live"}
  /\ row.starts # Null => row.starts <= now
  /\ row.ends # Null => now <= row.ends

HasAccess(row, member) == row.batch => member

\* The times at which a member of the batch, or another student, may start.
Admitted(row) ==
  {start \in Time \X BOOLEAN : WithinWindow(row, start[1]) /\ HasAccess(row, start[2])}

-----------------------------------------------------------------------------
Ends == Time \cup {Null}

\* Bound: an update is about the window or about the batch.
WindowStep(r) ==
  \/ \E starts, ends \in Ends, asked, batch \in BOOLEAN :
       CreateAssessment(r, starts, ends, asked, batch)
  \/ /\ exam # NoExam
     /\ \/ \E starts, ends \in Ends :
             UpdateWindow(r, [exam EXCEPT !.starts = starts, !.ends = ends])
        \/ \E batch \in BOOLEAN : UpdateWindow(r, [exam EXCEPT !.batch = batch])
        \/ \E starts, ends \in Time : ScheduleAssessment(r, starts, ends)
        \/ \E force \in BOOLEAN : PublishAssessment(r, force)
  \/ WindowSave(r)

-----------------------------------------------------------------------------
\* Rows have their columns' types, and an assessment that waits for its window has
\* questions.
WindowTypeOK ==
  /\ exam = NoExam \/ exam \in Assessment
  /\ exam.status = "scheduled" => exam.asked

\* A request that loaded the assessment while it could still be updated.
LoadedBefore(r) == req[r].at = "window.save" /\ req[r].row.status # "live"

\* "Only draft or scheduled assessments can be updated": while it is live, who may
\* start an attempt and when settles.  Only a request that passed the check before the
\* assessment was published, and is written after it, changes that; each does so once
\* and no other joins them.  A second publish, and one that was in flight meanwhile,
\* takes nothing back of what they wrote.
LiveWindowSettles ==
  [][exam.status = "live" /\ exam'.status = "live" =>
       /\ \A r \in Requests : LoadedBefore(r)' => LoadedBefore(r)
       /\ Admitted(exam') # Admitted(exam) =>
            \E r \in Requests : LoadedBefore(r) /\ ~LoadedBefore(r)']_<<exam, req>>
=============================================================================
