--------------------------- MODULE AttemptGrading ---------------------------
(***************************************************************************)
(* Taking, submitting, grading and publishing one assessment, as           *)
(* app/modules/assess/service.py does it for concurrent HTTP requests.     *)
(*                                                                         *)
(* Handlers are split into steps as RequestSlots says.                     *)
(***************************************************************************)
EXTENDS Integers, Sequences, Functions, RequestSlots

CONSTANTS
  Students,        \* students who may attempt the assessment
  Questions,       \* the assessment's question rows, fixed when it is created
  Objective,       \* the questions scored from their correct options
  Marks,           \* marks of each question
  Negative,        \* negative marks of each question
  Points,          \* the scores an evaluator may enter
  MaxEvaluations,  \* bound: evaluation rows a student may have when a request begins
  Null             \* a NULL column

ASSUME GradingAssumption ==
  /\ Questions # {}
  /\ Objective \subseteq Questions
  /\ Marks \in [Questions -> Nat]
  /\ Negative \in [Questions -> Nat]
  /\ Points \subseteq Nat
  /\ MaxEvaluations \in Nat
  /\ Null \notin Int

VARIABLES
  assessment,   \* status of the assessment row
  attempts,     \* attempts[s]: the student's attempt row
  answers,      \* answers[s][q]: the answer row of the attempt for question q
  evaluations,  \* evaluations[s]: total_score of each assessment_evaluations row
  results       \* results[s]: the student's result row

db   == <<assessment, attempts, answers, evaluations, results>>
vars == <<assessment, attempts, answers, evaluations, results, req>>

-----------------------------------------------------------------------------
(* Rows.  The domain of a function is the unique constraint on its table;   *)
(* a row that does not exist has the status "ABSENT".                       *)

NoRow == [status |-> "ABSENT", score |-> Null]

Exists(row) == row.status # "ABSENT"

Submitted == {"SUBMITTED", "AUTO_SUBMITTED"}
Terminal  == Submitted \cup {"EVALUATED"}
Evaluated == {"AUTO_EVALUATED", "MANUAL_EVALUATED"}

\* The scores of an attempt's answers, added up; NULL counts for nothing.
Total(rows) ==
  SumFunction([q \in Questions |-> IF rows[q].score = Null THEN 0 ELSE rows[q].score])

AnyAnsweredEvaluated(rows) ==  \* mutant: the count of questions is not compared
  \A q \in Questions : Exists(rows[q]) => rows[q].status \in Evaluated

\* Every question has an answer and every answer has been evaluated.
AllEvaluated(rows) == \A q \in Questions : rows[q].status \in Evaluated

NewAnswerWithDoubleLoss(q, correct) ==  \* mutant: a wrong answer loses its marks too
  IF q \in Objective
  THEN [status |-> "AUTO_EVALUATED",
        score  |-> IF correct THEN Marks[q] ELSE -Negative[q] - Marks[q]]
  ELSE [status |-> "PENDING", score |-> Null]

\* The answer row inserted for an objective or a subjective question.
NewAnswer(q, correct) ==
  IF q \in Objective
  THEN [status |-> "AUTO_EVALUATED",
        score  |-> IF correct THEN Marks[q] ELSE -Negative[q]]
  ELSE [status |-> "PENDING", score |-> Null]

AcceptAnyScore(q, points) == points \in Points  \* mutant: marks are not looked at

AcceptScore(q, points) == points <= Marks[q]

OverwriteRow(current, row) == row  \* mutant: no unique constraint

\* An insert under a unique constraint: a row already there stays, and the
\* transaction of the insert is rolled back.
InsertRow(current, row) == IF Exists(current) THEN current ELSE row

-----------------------------------------------------------------------------
Init ==
  /\ assessment = "DRAFT"
  /\ attempts = [s \in Students |-> NoRow]
  /\ answers = [s \in Students |-> [q \in Questions |-> NoRow]]
  /\ evaluations = [s \in Students |-> << >>]
  /\ results = [s \in Students |-> NoRow]
  /\ InitRequests

-----------------------------------------------------------------------------
(* schedule_assessment: any status, then "SCHEDULED".                      *)

ScheduleLoad(r) ==
  /\ Begin(r, [at |-> "schedule.save", seen |-> assessment])
  /\ UNCHANGED db

ScheduleSave(r) ==
  /\ req[r].at = "schedule.save"
  /\ assessment' = Flushed(assessment, req[r].seen, "SCHEDULED")
  /\ Return(r)
  /\ UNCHANGED <<attempts, answers, evaluations, results>>

(* publish_assessment: makes the assessment live.                          *)

PublishLoad(r) ==
  /\ assessment \in {"DRAFT", "SCHEDULED", "LIVE"}
  /\ Begin(r, [at |-> "publish.save", seen |-> assessment])
  /\ UNCHANGED db

PublishSave(r) ==
  /\ req[r].at = "publish.save"
  /\ assessment' = Flushed(assessment, req[r].seen, "LIVE")
  /\ Return(r)
  /\ UNCHANGED <<attempts, answers, evaluations, results>>

-----------------------------------------------------------------------------
(* start_attempt.                                                          *)

StartLoad(r, s) ==
  /\ assessment \in {"SCHEDULED", "LIVE"}
  /\ Begin(r, [at |-> "start.existing", s |-> s])
  /\ UNCHANGED db

\* An attempt that already exists is returned as it is.
StartFindExisting(r) ==
  /\ req[r].at = "start.existing"
  /\ \/ Exists(attempts[req[r].s]) /\ Return(r)
     \/ /\ ~Exists(attempts[req[r].s])
        /\ Continue(r, [at |-> "start.insert", s |-> req[r].s])
  /\ UNCHANGED db

\* The unique constraint turns a second insert into a 409 and a rollback.
StartInsert(r) ==
  /\ req[r].at = "start.insert"
  /\ attempts' = [attempts EXCEPT ![req[r].s] =
                    InsertRow(@, [status |-> "STARTED", score |-> Null])]
  /\ Return(r)
  /\ UNCHANGED <<assessment, answers, evaluations, results>>

-----------------------------------------------------------------------------
(* submit_answer.                                                          *)

Open(attempt) == attempt.status = "STARTED"

AnswerLoadAttempt(r, s, q, correct) ==
  /\ Open(attempts[s])
  /\ Begin(r, [at |-> "answer.existing", s |-> s, q |-> q, correct |-> correct])
  /\ UNCHANGED db

\* An existing answer is replayed or refused with 409; neither writes.
AnswerFindExisting(r) ==
  /\ req[r].at = "answer.existing"
  /\ \/ Exists(answers[req[r].s][req[r].q]) /\ Return(r)
     \/ /\ ~Exists(answers[req[r].s][req[r].q])
        /\ Continue(r, [at |-> "answer.insert", s |-> req[r].s, q |-> req[r].q,
                        correct |-> req[r].correct])
  /\ UNCHANGED db

\* The unique constraint makes the flush of a second answer fail.
AnswerInsert(r) ==
  /\ req[r].at = "answer.insert"
  /\ answers' = [answers EXCEPT ![req[r].s][req[r].q] =
                    InsertRow(@, NewAnswer(req[r].q, req[r].correct))]
  /\ Return(r)
  /\ UNCHANGED <<assessment, attempts, evaluations, results>>

-----------------------------------------------------------------------------
(* Finalisation, which submit_attempt and evaluate_answer share.           *)

\* Insert the result row, or write its score when the session loaded one.
\* The published status of a row that exists is not touched.
FinalResultRepublished(current, seen, total) ==  \* mutant: an update resets the status
  [status |-> "DRAFT", score |-> Flushed(current.score, seen.score, total)]

FinalResultUpdated(current, seen, total) ==  \* mutant: no result row is inserted
  IF Exists(seen)
  THEN [status |-> current.status, score |-> Flushed(current.score, seen.score, total)]
  ELSE current

FinalResult(current, seen, total) ==
  IF Exists(seen)
  THEN [status |-> current.status, score |-> Flushed(current.score, seen.score, total)]
  ELSE [status |-> "DRAFT", score |-> total]

\* The insert of a result row that another request has committed meanwhile.
ResultConflict(s, seen) == ~Exists(seen) /\ Exists(results[s])

UnrecordedEvaluation(s, total) == evaluations  \* mutant: no evaluation row is added

NewEvaluation(s, total) == [evaluations EXCEPT ![s] = Append(@, total)]

Finalize(s, attempt, total, seen) ==
  /\ attempts' = [attempts EXCEPT ![s] =
       [status |-> "EVALUATED", score |-> Flushed(@.score, attempt.score, total)]]
  /\ evaluations' = NewEvaluation(s, total)
  /\ results' = [results EXCEPT ![s] = FinalResult(@, seen, total)]

RoomForEvaluation(s) == Len(evaluations[s]) < MaxEvaluations

-----------------------------------------------------------------------------
(* submit_attempt; auto is the payload's auto_submit.                      *)

Submittable(attempt) == Exists(attempt) /\ attempt.status \notin Terminal

SubmitLoadAttempt(r, s, auto) ==
  /\ Submittable(attempts[s])
  /\ RoomForEvaluation(s)
  /\ Begin(r, [at |-> "submit.answers", s |-> s, attempt |-> attempts[s],
               to |-> IF auto THEN "AUTO_SUBMITTED" ELSE "SUBMITTED"])
  /\ UNCHANGED db

SubmitLoadAnswers(r) ==
  LET s == req[r].s  rows == answers[s] IN
  /\ req[r].at = "submit.answers"
  /\ \/ /\ \A q \in Questions : ~Exists(rows[q])
        /\ Return(r)
     \/ /\ \E q \in Questions : Exists(rows[q])
        /\ ~AllEvaluated(rows)
        /\ Continue(r, [at |-> "submit.save", s |-> s, to |-> req[r].to])
     \/ /\ AllEvaluated(rows)
        /\ Continue(r, [at |-> "submit.result", s |-> s, attempt |-> req[r].attempt,
                        total |-> Total(rows)])
  /\ UNCHANGED db

SubmitSave(r) ==
  /\ req[r].at = "submit.save"
  /\ attempts' = [attempts EXCEPT ![req[r].s] = [status |-> req[r].to, score |-> @.score]]
  /\ Return(r)
  /\ UNCHANGED <<assessment, answers, evaluations, results>>

SubmitLoadResult(r) ==
  /\ req[r].at = "submit.result"
  /\ Continue(r, [at |-> "submit.finalize", s |-> req[r].s, attempt |-> req[r].attempt,
                  total |-> req[r].total, seen |-> results[req[r].s]])
  /\ UNCHANGED db

SubmitFinalize(r) ==
  /\ req[r].at = "submit.finalize"
  /\ \/ ResultConflict(req[r].s, req[r].seen) /\ UNCHANGED db
     \/ /\ ~ResultConflict(req[r].s, req[r].seen)
        /\ Finalize(req[r].s, req[r].attempt, req[r].total, req[r].seen)
        /\ UNCHANGED <<assessment, answers>>
  /\ Return(r)

-----------------------------------------------------------------------------
(* evaluate_answer: an evaluator scores one answer, in whatever state the   *)
(* attempt is.  The session's own answer keeps its new values when the      *)
(* attempt's answers are loaded.                                           *)

EvaluateLoadAnswer(r, s, q, points) ==
  /\ Exists(answers[s][q])
  /\ AcceptScore(q, points)
  /\ RoomForEvaluation(s)
  /\ Begin(r, [at |-> "evaluate.attempt", s |-> s, q |-> q, points |-> points,
               answer |-> answers[s][q]])
  /\ UNCHANGED db

EvaluateLoadAttempt(r) ==
  /\ req[r].at = "evaluate.attempt"
  /\ Continue(r, [at |-> "evaluate.answers", s |-> req[r].s, q |-> req[r].q,
                  points |-> req[r].points, answer |-> req[r].answer,
                  attempt |-> attempts[req[r].s]])
  /\ UNCHANGED db

Finalizable(status) == status \in Submitted

RowsCommitted(r) == answers[req[r].s]  \* mutant: the evaluator's own score is not seen

RowsUnscored(r) ==  \* mutant: the total is taken before the new score is set
  [answers[req[r].s] EXCEPT ![req[r].q] =
     [status |-> "MANUAL_EVALUATED", score |-> req[r].answer.score]]

\* The attempt's answers in the evaluator's session.
RowsSeen(r) ==
  [answers[req[r].s] EXCEPT ![req[r].q] =
     [status |-> "MANUAL_EVALUATED", score |-> req[r].points]]

EvaluateLoadAnswers(r) ==
  LET s == req[r].s  rows == RowsSeen(r)
      finalizes == Finalizable(req[r].attempt.status) /\ AllEvaluated(rows)
  IN
  /\ req[r].at = "evaluate.answers"
  /\ \/ /\ ~finalizes
        /\ Continue(r, [at |-> "evaluate.save", s |-> s, q |-> req[r].q,
                        points |-> req[r].points, answer |-> req[r].answer])
     \/ /\ finalizes
        /\ Continue(r, [at |-> "evaluate.result", s |-> s, q |-> req[r].q,
                        points |-> req[r].points, answer |-> req[r].answer,
                        attempt |-> req[r].attempt, total |-> Total(rows)])
  /\ UNCHANGED db

\* The answer's row after the flush of the evaluator's score.
GradedRow(current, seen, points) ==
  [status |-> Flushed(current.status, seen.status, "MANUAL_EVALUATED"),
   score  |-> Flushed(current.score, seen.score, points)]

GradeAnswer(r) ==
  answers' = [answers EXCEPT ![req[r].s][req[r].q] =
                GradedRow(@, req[r].answer, req[r].points)]

EvaluateSave(r) ==
  /\ req[r].at = "evaluate.save"
  /\ GradeAnswer(r)
  /\ Return(r)
  /\ UNCHANGED <<assessment, attempts, evaluations, results>>

EvaluateLoadResult(r) ==
  /\ req[r].at = "evaluate.result"
  /\ Continue(r, [at |-> "evaluate.finalize", s |-> req[r].s, q |-> req[r].q,
                  points |-> req[r].points, answer |-> req[r].answer,
                  attempt |-> req[r].attempt, total |-> req[r].total,
                  seen |-> results[req[r].s]])
  /\ UNCHANGED db

EvaluateFinalize(r) ==
  /\ req[r].at = "evaluate.finalize"
  /\ \/ ResultConflict(req[r].s, req[r].seen) /\ UNCHANGED db
     \/ /\ ~ResultConflict(req[r].s, req[r].seen)
        /\ GradeAnswer(r)
        /\ Finalize(req[r].s, req[r].attempt, req[r].total, req[r].seen)
        /\ UNCHANGED assessment
  /\ Return(r)

-----------------------------------------------------------------------------
(* publish_results: every result row loaded, then the assessment.          *)

ResultsLoadAssessment(r) ==
  /\ Begin(r, [at |-> "results.rows", seen |-> assessment])
  /\ UNCHANGED db

ResultRows == {s \in Students : Exists(results[s])}

Publishable(rows) == rows # {}

ResultsLoadRows(r) ==
  /\ req[r].at = "results.rows"
  /\ \/ ~Publishable(ResultRows) /\ Return(r)
     \/ /\ Publishable(ResultRows)
        /\ Continue(r, [at |-> "results.save", seen |-> req[r].seen, rows |-> ResultRows])
  /\ UNCHANGED db

ResultsSave(r) ==
  /\ req[r].at = "results.save"
  /\ results' = [s \in Students |->
                   IF s \in req[r].rows
                   THEN [status |-> "PUBLISHED", score |-> results[s].score]
                   ELSE results[s]]
  /\ assessment' = Flushed(assessment, req[r].seen, "PUBLISHED")
  /\ Return(r)
  /\ UNCHANGED <<attempts, answers, evaluations>>

-----------------------------------------------------------------------------
AssessmentStep(r) ==
  \/ ScheduleLoad(r) \/ ScheduleSave(r)
  \/ PublishLoad(r) \/ PublishSave(r)
  \/ ResultsLoadAssessment(r) \/ ResultsLoadRows(r) \/ ResultsSave(r)

StudentStep(r) ==
  \/ \E s \in Students : StartLoad(r, s)
  \/ StartFindExisting(r) \/ StartInsert(r)
  \/ \E s \in Students, q \in Questions, correct \in BOOLEAN :
       AnswerLoadAttempt(r, s, q, correct)
  \/ AnswerFindExisting(r) \/ AnswerInsert(r)
  \/ \E s \in Students, auto \in BOOLEAN : SubmitLoadAttempt(r, s, auto)
  \/ SubmitLoadAnswers(r) \/ SubmitSave(r)
  \/ SubmitLoadResult(r) \/ SubmitFinalize(r)

EvaluatorStep(r) ==
  \/ \E s \in Students, q \in Questions, points \in Points :
       EvaluateLoadAnswer(r, s, q, points)
  \/ EvaluateLoadAttempt(r) \/ EvaluateLoadAnswers(r)
  \/ EvaluateSave(r) \/ EvaluateLoadResult(r) \/ EvaluateFinalize(r)

Next == \E r \in Requests : AssessmentStep(r) \/ StudentStep(r) \/ EvaluatorStep(r)

Spec == Init /\ [][Next]_vars

-----------------------------------------------------------------------------
(* Types.                                                                  *)

Scores == {Marks[q] : q \in Questions} \cup {-Negative[q] : q \in Questions} \cup Points

\* The totals an attempt can have.
Totals == {SumFunction(f) : f \in [Questions -> Scores \cup {0}]}

AssessmentStatus == {"DRAFT", "SCHEDULED", "LIVE", "PUBLISHED"}

AttemptRow == [status : {"ABSENT", "STARTED"} \cup Terminal, score : Totals \cup {Null}]
AnswerRow  == [status : {"ABSENT", "PENDING"} \cup Evaluated, score : Scores \cup {Null}]
ResultRow  == [status : {"ABSENT", "DRAFT", "PUBLISHED"}, score : Totals \cup {Null}]

\* What a request carries from one statement to the next.
AssessmentRequest ==
  [at : {"schedule.save", "publish.save", "results.rows"}, seen : AssessmentStatus]
ResultsRequest ==
  [at : {"results.save"}, seen : AssessmentStatus, rows : SUBSET Students]
StartRequest  == [at : {"start.existing", "start.insert"}, s : Students]
AnswerRequest ==
  [at : {"answer.existing", "answer.insert"}, s : Students, q : Questions,
   correct : BOOLEAN]
SubmitRequest ==
       [at : {"submit.answers"}, s : Students, attempt : AttemptRow, to : Submitted]
  \cup [at : {"submit.save"}, s : Students, to : Submitted]
SubmitFinalRequest ==
       [at : {"submit.result"}, s : Students, attempt : AttemptRow, total : Totals]
  \cup [at : {"submit.finalize"}, s : Students, attempt : AttemptRow, total : Totals,
        seen : ResultRow]
EvaluateRequest ==
       [at : {"evaluate.attempt", "evaluate.save"}, s : Students, q : Questions,
        points : Points, answer : AnswerRow]
  \cup [at : {"evaluate.answers"}, s : Students, q : Questions, points : Points,
        answer : AnswerRow, attempt : AttemptRow]
EvaluateFinalRequest ==
       [at : {"evaluate.result"}, s : Students, q : Questions, points : Points,
        answer : AnswerRow, attempt : AttemptRow, total : Totals]
  \cup [at : {"evaluate.finalize"}, s : Students, q : Questions, points : Points,
        answer : AnswerRow, attempt : AttemptRow, total : Totals, seen : ResultRow]

Request ==
  {Idle, Unused} \cup AssessmentRequest \cup ResultsRequest \cup StartRequest \cup AnswerRequest
         \cup SubmitRequest \cup SubmitFinalRequest
         \cup EvaluateRequest \cup EvaluateFinalRequest

\* Every row and everything a request carries is of the type its column or
\* variable has in the code.
TypeOK ==
  /\ assessment \in AssessmentStatus
  /\ attempts \in [Students -> AttemptRow]
  /\ answers \in [Students -> [Questions -> AnswerRow]]
  /\ evaluations \in [Students -> Seq(Totals)]
  /\ results \in [Students -> ResultRow]
  /\ req \in [Requests -> Request]

-----------------------------------------------------------------------------
(* Safety with any number of requests in flight.                           *)

AtFinalize   == {"submit.finalize", "evaluate.finalize"}
AtEvaluation == {"evaluate.attempt", "evaluate.answers", "evaluate.save",
                 "evaluate.result", "evaluate.finalize"}

\* What a request concluded from the rows it loaded is still true of the rows
\* committed since.
Concluded(x) ==
  /\ x.at \in {"submit.result", "submit.finalize"} => AllEvaluated(answers[x.s])
  /\ x.at \in AtEvaluation =>
       /\ Exists(x.answer) /\ Exists(answers[x.s][x.q])
       /\ x.answer.status = "PENDING" => x.answer.score = Null
       /\ x.answer.status \in Evaluated => answers[x.s][x.q].status \in Evaluated
       /\ x.answer.status = "MANUAL_EVALUATED"
            => answers[x.s][x.q].status = "MANUAL_EVALUATED"
       /\ x.points <= Marks[x.q]
  /\ x.at \in {"evaluate.result", "evaluate.finalize"} =>
       \A q \in Questions \ {x.q} : answers[x.s][q].status \in Evaluated
  /\ x.at \in AtFinalize /\ Exists(x.seen) => Exists(results[x.s])
  /\ x.at = "results.save" => x.rows # {} /\ \A s \in x.rows : Exists(results[s])

\* No lock is held between a handler's SELECTs and its commit, yet what it
\* found there to be complete, evaluated or recorded stays so until it commits:
\* no handler takes an answer, an evaluation or a result back.
ConclusionsHold == \A r \in Requests : Concluded(req[r])

\* A student has a result only if every question of the assessment has an
\* answer that was evaluated: _finalize_attempt runs behind
\* _all_answers_evaluated, on answers loaded earlier than the commit.
ResultsComplete ==
  \A s \in Students : Exists(results[s]) => AllEvaluated(answers[s])

\* An attempt marked EVALUATED has its result row, and every result row goes
\* back to an evaluation row: _finalize_attempt writes the three together or,
\* when the result's unique constraint fails, none of them.
EvaluatedHasResult ==
  \A s \in Students :
    /\ attempts[s].status = "EVALUATED" => Exists(results[s])
    /\ Exists(results[s]) <=> evaluations[s] # << >>

\* The score shown on an attempt and on its result was computed by some
\* evaluation that is on record, whichever of several concurrent finalisations
\* wrote the column last and whichever columns their flushes skipped.
ScoresOnRecord ==
  \A s \in Students :
    \A score \in {attempts[s].score, results[s].score} \ {Null} :
      \E i \in DOMAIN evaluations[s] : evaluations[s][i] = score

\* No answer is worth more than the marks of its question or less than the
\* negative marks: evaluate_answer compares before it writes, and the ORM may
\* write the status column of one evaluator and the score column of another.
ScoresWithinMarks ==
  \A s \in Students, q \in Questions :
    answers[s][q].status \in Evaluated =>
      answers[s][q].score \in -Negative[q] .. Marks[q]

\* What a student is told: scores that some evaluation worked out, from answers that
\* stay within their marks.
ScoresSound == ScoresOnRecord /\ ScoresWithinMarks

\* An answer is submitted once: after that only an evaluator changes its row,
\* even when several submissions of it were past the check for an existing one.
AnswerWriteOnce ==
  [][\A s \in Students, q \in Questions :
       Exists(answers[s][q]) /\ answers'[s][q] # answers[s][q]
         => answers'[s][q].status = "MANUAL_EVALUATED"]_vars

\* Results are published only after evaluated result rows exist: a PUBLISHED
\* assessment has a published result, whatever ran between publish_results'
\* two SELECTs and its commit.
PublishedHasResult ==
  assessment = "PUBLISHED" => \E s \in Students : results[s].status = "PUBLISHED"

\* What a student's result promises (see ResultContract): the steps of all the
\* requests together look like a register of results that is filled only for
\* fully evaluated students and never goes back.
Contract == INSTANCE ResultContract WITH
  evaluated <- {s \in Students : AllEvaluated(answers[s])},
  result    <- [s \in Students |-> results[s].status]

ImplementsContract == Contract!Spec

-----------------------------------------------------------------------------
(* Rules of the handlers taken one at a time: what they check and what they  *)
(* write agree when nothing runs between the two.  With two requests in      *)
(* flight each of them fails.                                                *)

\* Once the requests have been answered, no submitted attempt with all its
\* questions evaluated is left without being finalised: whichever of
\* submit_attempt and evaluate_answer comes last does it.
FinalizedWhenComplete ==
  AllIdle => \A s \in Students :
               attempts[s].status \in Submitted => ~AllEvaluated(answers[s])

\* The score written when an attempt becomes EVALUATED is the sum of the scores
\* its answers have in the same commit, the evaluator's own among them.
FinalScoreIsTotal ==
  [][\A s \in Students :
       OneAtATime /\ attempts[s].status # "EVALUATED" /\ attempts'[s].status = "EVALUATED"
         => /\ attempts'[s].score = Total(answers'[s])
            /\ results'[s].score = Total(answers'[s])]_vars

(* What the docs say, and one request after another breaks.                  *)

\* Once the requests have been answered, the result of an evaluated attempt is
\* the total of its answers as they were last scored.
ResultFollowsAnswers ==
  AllIdle => \A s \in Students :
    attempts[s].status = "EVALUATED" => results[s].score = Total(answers[s])

-----------------------------------------------------------------------------
(* Liveness.  A request that has begun is carried through by the event       *)
(* loop.  Evaluators work through evaluation_queue, which lists the          *)
(* pending answers: a pending answer does not wait for an evaluator forever. *)

RequestStep(r) ==
  \/ ScheduleSave(r) \/ PublishSave(r) \/ ResultsLoadRows(r) \/ ResultsSave(r)
  \/ StartFindExisting(r) \/ StartInsert(r)
  \/ AnswerFindExisting(r) \/ AnswerInsert(r)
  \/ SubmitLoadAnswers(r) \/ SubmitSave(r) \/ SubmitLoadResult(r) \/ SubmitFinalize(r)
  \/ EvaluateLoadAttempt(r) \/ EvaluateLoadAnswers(r) \/ EvaluateSave(r)
  \/ EvaluateLoadResult(r) \/ EvaluateFinalize(r)

\* An evaluator takes an answer from the evaluation queue.
GradeFromQueue(s, q) ==
  /\ answers[s][q].status = "PENDING"
  /\ \E r \in Requests, points \in Points : EvaluateLoadAnswer(r, s, q, points)

Fairness ==
  /\ \A r \in Requests : WF_vars(RequestStep(r))
  /\ \A s \in Students, q \in Questions : SF_vars(GradeFromQueue(s, q))

FairSpec == Spec /\ Fairness

\* A submitted attempt that answers every question is evaluated in the end.
FullAttemptEvaluated ==
  \A s \in Students :
    attempts[s].status \in Submitted /\ (\A q \in Questions : Exists(answers[s][q]))
      ~> attempts[s].status = "EVALUATED"
=============================================================================
