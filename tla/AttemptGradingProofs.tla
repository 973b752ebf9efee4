------------------------ MODULE AttemptGradingProofs ------------------------
(***************************************************************************)
(* Proofs about AttemptGrading for every set of students, questions and    *)
(* request slots.                                                          *)
(***************************************************************************)
EXTENDS AttemptGrading, TLAPS

-----------------------------------------------------------------------------
(* Lemmas about the operators the handlers are built from.                 *)

\* The total of any answer rows is one of the totals an attempt can have.
LEMMA TotalType ==
  ASSUME NEW rows \in [Questions -> AnswerRow]
  PROVE  Total(rows) \in Totals
<1> DEFINE f == [q \in Questions |-> IF rows[q].score = Null THEN 0 ELSE rows[q].score]
<1>1. f \in [Questions -> Scores \cup {0}]
  BY DEF AnswerRow
<1>2. SumFunction(f) \in Totals
  BY <1>1 DEF Totals
<1> QED BY <1>2 DEF Total

\* A new answer row, and a row the evaluator's flush leaves, have their types.
LEMMA NewAnswerType ==
  ASSUME NEW q \in Questions, NEW correct \in BOOLEAN
  PROVE  NewAnswer(q, correct) \in AnswerRow
BY DEF NewAnswer, AnswerRow, Scores, Evaluated

\* The row an evaluator's flush leaves has its type, whichever columns it
\* skips.
LEMMA GradedRowType ==
  ASSUME NEW current \in AnswerRow, NEW seen \in AnswerRow, NEW points \in Points
  PROVE  GradedRow(current, seen, points) \in AnswerRow
BY DEF GradedRow, Flushed, AnswerRow, Scores, Evaluated

\* So has the result row of a finalisation.
LEMMA FinalResultType ==
  ASSUME NEW current \in ResultRow, NEW seen \in ResultRow, NEW total \in Totals
  PROVE  FinalResult(current, seen, total) \in ResultRow
BY DEF FinalResult, Flushed, ResultRow

\* A finalisation keeps the types of the three tables it writes.
LEMMA FinalizeType ==
  ASSUME TypeOK,
         NEW s \in Students, NEW attempt \in AttemptRow, NEW total \in Totals,
         NEW seen \in ResultRow, Finalize(s, attempt, total, seen)
  PROVE  /\ attempts' \in [Students -> AttemptRow]
         /\ evaluations' \in [Students -> Seq(Totals)]
         /\ results' \in [Students -> ResultRow]
<1>1. attempts' \in [Students -> AttemptRow]
  BY DEF Finalize, TypeOK, AttemptRow, Flushed, Terminal
<1>2. evaluations' \in [Students -> Seq(Totals)]
  <2>1. Append(evaluations[s], total) \in Seq(Totals)
    BY DEF TypeOK
  <2> QED BY <2>1 DEF Finalize, NewEvaluation, TypeOK
<1>3. results' \in [Students -> ResultRow]
  <2>1. FinalResult(results[s], seen, total) \in ResultRow
    BY FinalResultType DEF TypeOK
  <2> QED BY <2>1 DEF Finalize, TypeOK
<1> QED BY <1>1, <1>2, <1>3

\* The label of a request tells what it carries.
LEMMA RequestKinds ==
  ASSUME NEW x \in Request
  PROVE  /\ x.at \in {"schedule.save", "publish.save", "results.rows"}
              => x \in AssessmentRequest
         /\ x.at = "results.save" => x \in ResultsRequest
         /\ x.at \in {"start.existing", "start.insert"} => x \in StartRequest
         /\ x.at \in {"answer.existing", "answer.insert"} => x \in AnswerRequest
         /\ x.at \in {"submit.answers", "submit.save"} => x \in SubmitRequest
         /\ x.at \in {"submit.result", "submit.finalize"} => x \in SubmitFinalRequest
         /\ x.at \in {"evaluate.attempt", "evaluate.answers", "evaluate.save"}
              => x \in EvaluateRequest
         /\ x.at \in {"evaluate.result", "evaluate.finalize"} => x \in EvaluateFinalRequest
BY DEF Request, Idle, Unused, AssessmentRequest, ResultsRequest, StartRequest, AnswerRequest,
       SubmitRequest, SubmitFinalRequest, EvaluateRequest, EvaluateFinalRequest

\* A slot that takes up a request, or becomes idle, keeps req's type.
LEMMA SlotType ==
  ASSUME req \in [Requests -> Request], NEW r \in Requests, NEW x \in Request,
         req' = [req EXCEPT ![r] = x]
  PROVE  req' \in [Requests -> Request]
OBVIOUS

\* A request that returns leaves an idle slot.
LEMMA ReturnType ==
  ASSUME req \in [Requests -> Request], NEW r \in Requests, Return(r)
  PROVE  req' \in [Requests -> Request]
BY DEF Return, Request

-----------------------------------------------------------------------------
(* Type correctness.                                                       *)

\* The empty tables are well typed.
LEMMA TypeInit == Init => TypeOK
<1> SUFFICES ASSUME Init PROVE TypeOK
  OBVIOUS
<1>1. << >> \in Seq(Totals)
  OBVIOUS
<1> QED
  BY <1>1 DEF Init, InitRequests, TypeOK, NoRow, AttemptRow, AnswerRow, ResultRow,
              AssessmentStatus, Request

\* Every SELECT and every commit keeps the types.
LEMMA TypeStep ==
  ASSUME TypeOK, [Next]_vars
  PROVE  TypeOK'
<1> USE DEF TypeOK
<1>1. ASSUME NEW r \in Requests, AssessmentStep(r) PROVE TypeOK'
  <2>1. CASE ScheduleLoad(r)
    BY <2>1 DEF ScheduleLoad, Begin, db, Request, AssessmentRequest
  <2>2. CASE ScheduleSave(r)
    BY <2>2 DEF ScheduleSave, Return, Request, Flushed, AssessmentStatus
  <2>3. CASE PublishLoad(r)
    BY <2>3 DEF PublishLoad, Begin, db, Request, AssessmentRequest
  <2>4. CASE PublishSave(r)
    BY <2>4 DEF PublishSave, Return, Request, Flushed, AssessmentStatus
  <2>5. CASE ResultsLoadAssessment(r)
    BY <2>5 DEF ResultsLoadAssessment, Begin, db, Request, AssessmentRequest
  <2>6. CASE ResultsLoadRows(r)
    <3>1. req[r] \in AssessmentRequest
      BY <2>6, RequestKinds DEF ResultsLoadRows
    <3>2. [at |-> "results.save", seen |-> req[r].seen, rows |-> ResultRows]
            \in ResultsRequest
      BY <3>1 DEF AssessmentRequest, ResultsRequest, ResultRows
    <3>3. req' \in [Requests -> Request]
      BY <2>6, <3>2, SlotType, ReturnType DEF ResultsLoadRows, Continue, Request
    <3> QED BY <2>6, <3>3 DEF ResultsLoadRows, db
  <2>7. CASE ResultsSave(r)
    <3>1. results' \in [Students -> ResultRow]
      BY <2>7 DEF ResultsSave, ResultRow
    <3>2. assessment' \in AssessmentStatus
      BY <2>7 DEF ResultsSave, Flushed, AssessmentStatus
    <3> QED BY <2>7, <3>1, <3>2, ReturnType DEF ResultsSave
  <2> QED BY <1>1, <2>1, <2>2, <2>3, <2>4, <2>5, <2>6, <2>7 DEF AssessmentStep
<1>2. ASSUME NEW r \in Requests, StudentStep(r) PROVE TypeOK'
  <2>1. ASSUME NEW s \in Students, StartLoad(r, s) PROVE TypeOK'
    BY <2>1 DEF StartLoad, Begin, db, Request, StartRequest
  <2>2. CASE StartFindExisting(r)
    <3>1. req[r] \in StartRequest
      BY <2>2, RequestKinds DEF StartFindExisting
    <3>2. [at |-> "start.insert", s |-> req[r].s] \in StartRequest
      BY <3>1 DEF StartRequest
    <3>3. req' \in [Requests -> Request]
      BY <2>2, <3>2, SlotType, ReturnType DEF StartFindExisting, Continue, Request
    <3> QED BY <2>2, <3>3 DEF StartFindExisting, db
  <2>3. CASE StartInsert(r)
    <3>1. req[r] \in StartRequest
      BY <2>3, RequestKinds DEF StartInsert
    <3>2. attempts' \in [Students -> AttemptRow]
      BY <2>3, <3>1 DEF StartInsert, StartRequest, InsertRow, AttemptRow
    <3> QED BY <2>3, <3>2, ReturnType DEF StartInsert
  <2>4. ASSUME NEW s \in Students, NEW q \in Questions, NEW correct \in BOOLEAN,
               AnswerLoadAttempt(r, s, q, correct)
        PROVE  TypeOK'
    <3>1. [at |-> "answer.existing", s |-> s, q |-> q, correct |-> correct]
            \in AnswerRequest
      BY DEF AnswerRequest
    <3> QED BY <2>4, <3>1, SlotType DEF AnswerLoadAttempt, Begin, db, Request
  <2>5. CASE AnswerFindExisting(r)
    <3>1. req[r] \in AnswerRequest
      BY <2>5, RequestKinds DEF AnswerFindExisting
    <3>2. [at |-> "answer.insert", s |-> req[r].s, q |-> req[r].q,
           correct |-> req[r].correct] \in AnswerRequest
      BY <3>1 DEF AnswerRequest
    <3>3. req' \in [Requests -> Request]
      BY <2>5, <3>2, SlotType, ReturnType DEF AnswerFindExisting, Continue, Request
    <3> QED BY <2>5, <3>3 DEF AnswerFindExisting, db
  <2>6. CASE AnswerInsert(r)
    <3>1. req[r].s \in Students /\ req[r].q \in Questions /\ req[r].correct \in BOOLEAN
      BY <2>6, RequestKinds DEF AnswerInsert, AnswerRequest
    <3>2. InsertRow(answers[req[r].s][req[r].q], NewAnswer(req[r].q, req[r].correct))
            \in AnswerRow
      BY <3>1, NewAnswerType DEF InsertRow
    <3>3. answers' \in [Students -> [Questions -> AnswerRow]]
      BY <2>6, <3>1, <3>2 DEF AnswerInsert
    <3> QED BY <2>6, <3>3, ReturnType DEF AnswerInsert
  <2>7. ASSUME NEW s \in Students, NEW auto \in BOOLEAN, SubmitLoadAttempt(r, s, auto)
        PROVE  TypeOK'
    <3>1. [at |-> "submit.answers", s |-> s, attempt |-> attempts[s],
           to |-> IF auto THEN "AUTO_SUBMITTED" ELSE "SUBMITTED"] \in SubmitRequest
      BY DEF SubmitRequest, Submitted
    <3> QED BY <2>7, <3>1, SlotType DEF SubmitLoadAttempt, Begin, db, Request
  <2>8. CASE SubmitLoadAnswers(r)
    <3>1. /\ req[r].s \in Students
          /\ req[r].attempt \in AttemptRow
          /\ req[r].to \in Submitted
      BY <2>8, RequestKinds DEF SubmitLoadAnswers, SubmitRequest
    <3>2. [at |-> "submit.save", s |-> req[r].s, to |-> req[r].to] \in SubmitRequest
      BY <3>1 DEF SubmitRequest
    <3>3. [at |-> "submit.result", s |-> req[r].s, attempt |-> req[r].attempt,
           total |-> Total(answers[req[r].s])] \in SubmitFinalRequest
      BY <3>1, TotalType DEF SubmitFinalRequest
    <3>4. req' \in [Requests -> Request]
      BY <2>8, <3>2, <3>3, SlotType, ReturnType DEF SubmitLoadAnswers, Continue, Request
    <3> QED BY <2>8, <3>4 DEF SubmitLoadAnswers, db
  <2>9. CASE SubmitSave(r)
    <3>1. req[r].s \in Students /\ req[r].to \in Submitted
      BY <2>9, RequestKinds DEF SubmitSave, SubmitRequest
    <3>2. attempts' \in [Students -> AttemptRow]
      BY <2>9, <3>1 DEF SubmitSave, AttemptRow, Terminal
    <3> QED BY <2>9, <3>2, ReturnType DEF SubmitSave
  <2>10. CASE SubmitLoadResult(r)
    <3>1. /\ req[r].s \in Students
          /\ req[r].attempt \in AttemptRow
          /\ req[r].total \in Totals
      BY <2>10, RequestKinds DEF SubmitLoadResult, SubmitFinalRequest
    <3>2. [at |-> "submit.finalize", s |-> req[r].s, attempt |-> req[r].attempt,
           total |-> req[r].total, seen |-> results[req[r].s]] \in SubmitFinalRequest
      BY <3>1 DEF SubmitFinalRequest
    <3> QED BY <2>10, <3>2, SlotType DEF SubmitLoadResult, Continue, Request, db
  <2>11. CASE SubmitFinalize(r)
    <3>1. /\ req[r].s \in Students
          /\ req[r].attempt \in AttemptRow
          /\ req[r].total \in Totals
          /\ req[r].seen \in ResultRow
      BY <2>11, RequestKinds DEF SubmitFinalize, SubmitFinalRequest
    <3>2. CASE UNCHANGED db
      BY <2>11, <3>2, ReturnType DEF SubmitFinalize, db
    <3>3. CASE Finalize(req[r].s, req[r].attempt, req[r].total, req[r].seen)
               /\ UNCHANGED <<assessment, answers>>
      BY <2>11, <3>1, <3>3, FinalizeType, ReturnType DEF SubmitFinalize
    <3> QED BY <2>11, <3>2, <3>3 DEF SubmitFinalize
  <2> QED BY <1>2, <2>1, <2>2, <2>3, <2>4, <2>5, <2>6, <2>7, <2>8, <2>9, <2>10, <2>11
          DEF StudentStep
<1>3. ASSUME NEW r \in Requests, EvaluatorStep(r) PROVE TypeOK'
  <2>1. ASSUME NEW s \in Students, NEW q \in Questions, NEW points \in Points,
               EvaluateLoadAnswer(r, s, q, points)
        PROVE  TypeOK'
    <3>1. [at |-> "evaluate.attempt", s |-> s, q |-> q, points |-> points,
           answer |-> answers[s][q]] \in EvaluateRequest
      BY DEF EvaluateRequest
    <3> QED BY <2>1, <3>1, SlotType DEF EvaluateLoadAnswer, Begin, db, Request
  <2>2. CASE EvaluateLoadAttempt(r)
    <3>1. /\ req[r].s \in Students /\ req[r].q \in Questions
          /\ req[r].points \in Points /\ req[r].answer \in AnswerRow
      BY <2>2, RequestKinds DEF EvaluateLoadAttempt, EvaluateRequest
    <3>2. [at |-> "evaluate.answers", s |-> req[r].s, q |-> req[r].q,
           points |-> req[r].points, answer |-> req[r].answer,
           attempt |-> attempts[req[r].s]] \in EvaluateRequest
      BY <3>1 DEF EvaluateRequest
    <3> QED BY <2>2, <3>2, SlotType DEF EvaluateLoadAttempt, Continue, Request, db
  <2>3. CASE EvaluateLoadAnswers(r)
    <3>1. /\ req[r].s \in Students /\ req[r].q \in Questions
          /\ req[r].points \in Points /\ req[r].answer \in AnswerRow
          /\ req[r].attempt \in AttemptRow
      BY <2>3, RequestKinds DEF EvaluateLoadAnswers, EvaluateRequest
    <3>2. RowsSeen(r) \in [Questions -> AnswerRow]
      BY <3>1 DEF RowsSeen, AnswerRow, Scores, Evaluated
    <3>3. [at |-> "evaluate.save", s |-> req[r].s, q |-> req[r].q,
           points |-> req[r].points, answer |-> req[r].answer] \in EvaluateRequest
      BY <3>1 DEF EvaluateRequest
    <3>4. [at |-> "evaluate.result", s |-> req[r].s, q |-> req[r].q,
           points |-> req[r].points, answer |-> req[r].answer,
           attempt |-> req[r].attempt, total |-> Total(RowsSeen(r))]
            \in EvaluateFinalRequest
      BY <3>1, <3>2, TotalType DEF EvaluateFinalRequest
    <3>5. req' \in [Requests -> Request]
      BY <2>3, <3>3, <3>4, SlotType DEF EvaluateLoadAnswers, Continue, Request
    <3> QED BY <2>3, <3>5 DEF EvaluateLoadAnswers, db
  <2>4. CASE EvaluateSave(r)
    <3>1. /\ req[r].s \in Students /\ req[r].q \in Questions
          /\ req[r].points \in Points /\ req[r].answer \in AnswerRow
      BY <2>4, RequestKinds DEF EvaluateSave, EvaluateRequest
    <3>2. answers' \in [Students -> [Questions -> AnswerRow]]
      BY <2>4, <3>1, GradedRowType DEF EvaluateSave, GradeAnswer
    <3> QED BY <2>4, <3>2, ReturnType DEF EvaluateSave
  <2>5. CASE EvaluateLoadResult(r)
    <3>1. /\ req[r].s \in Students /\ req[r].q \in Questions
          /\ req[r].points \in Points /\ req[r].answer \in AnswerRow
          /\ req[r].attempt \in AttemptRow /\ req[r].total \in Totals
      BY <2>5, RequestKinds DEF EvaluateLoadResult, EvaluateFinalRequest
    <3>2. [at |-> "evaluate.finalize", s |-> req[r].s, q |-> req[r].q,
           points |-> req[r].points, answer |-> req[r].answer,
           attempt |-> req[r].attempt, total |-> req[r].total,
           seen |-> results[req[r].s]] \in EvaluateFinalRequest
      BY <3>1 DEF EvaluateFinalRequest
    <3> QED BY <2>5, <3>2, SlotType DEF EvaluateLoadResult, Continue, Request, db
  <2>6. CASE EvaluateFinalize(r)
    <3>1. /\ req[r].s \in Students /\ req[r].q \in Questions
          /\ req[r].points \in Points /\ req[r].answer \in AnswerRow
          /\ req[r].attempt \in AttemptRow /\ req[r].total \in Totals
          /\ req[r].seen \in ResultRow
      BY <2>6, RequestKinds DEF EvaluateFinalize, EvaluateFinalRequest
    <3>2. CASE UNCHANGED db
      BY <2>6, <3>2, ReturnType DEF EvaluateFinalize, db
    <3>3. CASE /\ GradeAnswer(r)
               /\ Finalize(req[r].s, req[r].attempt, req[r].total, req[r].seen)
               /\ UNCHANGED assessment
      <4>1. answers' \in [Students -> [Questions -> AnswerRow]]
        BY <3>1, <3>3, GradedRowType DEF GradeAnswer
      <4> QED BY <2>6, <3>1, <3>3, <4>1, FinalizeType, ReturnType DEF EvaluateFinalize
    <3> QED BY <2>6, <3>2, <3>3 DEF EvaluateFinalize
  <2> QED BY <1>3, <2>1, <2>2, <2>3, <2>4, <2>5, <2>6 DEF EvaluatorStep
<1>4. CASE UNCHANGED vars
  BY <1>4 DEF vars
<1> QED BY <1>1, <1>2, <1>3, <1>4 DEF Next

\* Every handler leaves every row and request of the type of its table or
\* variable.
THEOREM TypeCorrect == Spec => []TypeOK
BY TypeInit, TypeStep, PTL DEF Spec

-----------------------------------------------------------------------------
(* Safety under any number of concurrent requests: results only for complete   *)
(* attempts, every score on record and within its marks, answers written once, *)
(* and the result contract.                                                    *)
(*                                                                         *)
(* The properties are not inductive: that a finalisation writes a result       *)
(* for a complete attempt rests on what its request found two SELECTs          *)
(* earlier.  ConclusionsHold says that this is still so, and Advance says      *)
(* why: no step takes an answer, an evaluation or a result back.               *)

\* A pending answer has no score yet.
PendingUnscored ==
  \A s \in Students, q \in Questions :
    answers[s][q].status = "PENDING" => answers[s][q].score = Null

\* The parts of the inductive invariant.
Inv ==
  /\ TypeOK
  /\ PendingUnscored
  /\ ConclusionsHold
  /\ ResultsComplete

\* What a step may do to answers and results.
Advance ==
  /\ \A s \in Students, q \in Questions :
       /\ Exists(answers[s][q]) => Exists(answers[s][q])'
       /\ answers[s][q].status \in Evaluated => answers'[s][q].status \in Evaluated
       /\ answers[s][q].status = "MANUAL_EVALUATED"
            => answers'[s][q].status = "MANUAL_EVALUATED"
  /\ \A s \in Students : Exists(results[s]) => Exists(results'[s])

-----------------------------------------------------------------------------
(* What the writing actions do to rows.                                    *)

\* The row an evaluator's flush leaves is marked as manually evaluated.
LEMMA GradedStatus ==
  ASSUME NEW current \in AnswerRow, NEW seen \in AnswerRow, NEW points \in Points,
         seen.status = "MANUAL_EVALUATED" => current.status = "MANUAL_EVALUATED"
  PROVE  GradedRow(current, seen, points).status = "MANUAL_EVALUATED"
BY DEF GradedRow, Flushed

\* The fields of an evaluator's request.
LEMMA EvaluateFields ==
  ASSUME NEW x \in Request, x.at \in AtEvaluation
  PROVE  /\ x.s \in Students /\ x.q \in Questions
         /\ x.points \in Points /\ x.answer \in AnswerRow
         /\ x.at \in {"evaluate.result", "evaluate.finalize"}
              => x.attempt \in AttemptRow /\ x.total \in Totals
         /\ x.at = "evaluate.finalize" => x.seen \in ResultRow
BY RequestKinds DEF AtEvaluation, EvaluateRequest, EvaluateFinalRequest

\* The fields of a submission that finalises.
LEMMA SubmitFields ==
  ASSUME NEW x \in Request, x.at \in {"submit.result", "submit.finalize"}
  PROVE  /\ x.s \in Students /\ x.attempt \in AttemptRow /\ x.total \in Totals
         /\ x.at = "submit.finalize" => x.seen \in ResultRow
BY RequestKinds DEF SubmitFinalRequest

\* Scoring an answer marks that answer evaluated and leaves the others alone.
LEMMA GradeAnswerEffect ==
  ASSUME TypeOK, NEW r \in Requests, Concluded(req[r]), req[r].at \in AtEvaluation,
         GradeAnswer(r)
  PROVE  /\ answers'[req[r].s][req[r].q].status = "MANUAL_EVALUATED"
         /\ \A s \in Students, q \in Questions :
              s # req[r].s \/ q # req[r].q => answers'[s][q] = answers[s][q]
<1>1. /\ req[r].s \in Students /\ req[r].q \in Questions
      /\ req[r].points \in Points /\ req[r].answer \in AnswerRow
  BY EvaluateFields DEF TypeOK
<1> DEFINE new == GradedRow(answers[req[r].s][req[r].q], req[r].answer, req[r].points)
<1>2. new.status = "MANUAL_EVALUATED" /\ new \in AnswerRow
  BY <1>1, GradedStatus, GradedRowType DEF Concluded, TypeOK
<1> HIDE DEF new
<1>3. answers' = [answers EXCEPT ![req[r].s][req[r].q] = new]
  BY DEF GradeAnswer, new
<1> QED BY <1>1, <1>2, <1>3 DEF TypeOK

\* A finalisation leaves a result for its student and no other result changes.
LEMMA FinalizeEffect ==
  ASSUME TypeOK, NEW s \in Students, NEW attempt \in AttemptRow, NEW total \in Totals,
         NEW seen \in ResultRow, Exists(seen) => Exists(results[s]),
         Finalize(s, attempt, total, seen)
  PROVE  /\ Exists(results'[s])
         /\ results'[s].status = IF Exists(seen) THEN results[s].status ELSE "DRAFT"
         /\ \A p \in Students \ {s} : results'[p] = results[p]
         /\ \A p \in Students \ {s} : attempts'[p] = attempts[p]
         /\ \A p \in Students \ {s} : evaluations'[p] = evaluations[p]
         /\ attempts'[s].status = "EVALUATED"
         /\ evaluations'[s] = Append(evaluations[s], total)
BY DEF Finalize, FinalResult, NewEvaluation, TypeOK, Exists, ResultRow

-----------------------------------------------------------------------------
(* No step takes an answer, an evaluation or a result back.                *)

\* Every step only advances: it is shown for each of the writing actions.
LEMMA StepAdvances ==
  ASSUME Inv, [Next]_vars
  PROVE  Advance
<1> USE DEF Inv
<1>1. CASE UNCHANGED <<answers, results>>
  BY <1>1 DEF Advance, Exists
<1>2. ASSUME NEW r \in Requests, ResultsSave(r) PROVE Advance
  <2>1. \A s \in Students : results'[s].status \in {results[s].status, "PUBLISHED"}
    BY <1>2 DEF ResultsSave
  <2> QED BY <1>2, <2>1 DEF ResultsSave, Advance, Exists
<1>3. ASSUME NEW r \in Requests, AnswerInsert(r) PROVE Advance
  <2>1. req[r].s \in Students /\ req[r].q \in Questions
    BY <1>3, RequestKinds DEF AnswerInsert, AnswerRequest, TypeOK
  <2>2. \A s \in Students, q \in Questions :
          Exists(answers[s][q]) => answers'[s][q] = answers[s][q]
    BY <1>3, <2>1 DEF AnswerInsert, InsertRow, TypeOK
  <2>3. \A s \in Students, q \in Questions :
          answers[s][q].status \in Evaluated => Exists(answers[s][q])
    BY DEF Exists, Evaluated
  <2> QED BY <1>3, <2>2, <2>3 DEF AnswerInsert, Advance, Exists, Evaluated
<1>4. ASSUME NEW r \in Requests, SubmitFinalize(r) PROVE Advance
  <2>1. CASE UNCHANGED db
    BY <1>1, <2>1 DEF db
  <2>2. CASE /\ Finalize(req[r].s, req[r].attempt, req[r].total, req[r].seen)
             /\ UNCHANGED <<assessment, answers>>
    <3>1. /\ req[r].s \in Students /\ req[r].attempt \in AttemptRow
          /\ req[r].total \in Totals /\ req[r].seen \in ResultRow
      BY <1>4, SubmitFields DEF SubmitFinalize, TypeOK
    <3>2. Exists(req[r].seen) => Exists(results[req[r].s])
      BY <1>4 DEF SubmitFinalize, ConclusionsHold, Concluded, AtFinalize
    <3> QED BY <2>2, <3>1, <3>2, FinalizeEffect DEF Advance, Exists
  <2> QED BY <1>4, <2>1, <2>2 DEF SubmitFinalize
<1>5. ASSUME NEW r \in Requests, EvaluateSave(r) PROVE Advance
  <2>1. req[r].at \in AtEvaluation /\ Concluded(req[r]) /\ GradeAnswer(r)
    BY <1>5 DEF EvaluateSave, AtEvaluation, ConclusionsHold
  <2>2. req[r].s \in Students /\ req[r].q \in Questions
    BY <2>1, EvaluateFields DEF TypeOK
  <2>3. \A s \in Students, q \in Questions :
          \/ answers'[s][q].status = "MANUAL_EVALUATED"
          \/ answers'[s][q] = answers[s][q]
    BY <2>1, <2>2, GradeAnswerEffect
  <2> QED BY <1>5, <2>3 DEF EvaluateSave, Advance, Exists, Evaluated
<1>6. ASSUME NEW r \in Requests, EvaluateFinalize(r) PROVE Advance
  <2>1. CASE UNCHANGED db
    BY <1>1, <2>1 DEF db
  <2>2. CASE /\ GradeAnswer(r)
             /\ Finalize(req[r].s, req[r].attempt, req[r].total, req[r].seen)
    <3>1. req[r].at \in AtEvaluation /\ Concluded(req[r])
      BY <1>6 DEF EvaluateFinalize, AtEvaluation, ConclusionsHold
    <3>2. /\ req[r].s \in Students /\ req[r].q \in Questions
          /\ req[r].attempt \in AttemptRow
          /\ req[r].total \in Totals /\ req[r].seen \in ResultRow
      BY <1>6, <3>1, EvaluateFields DEF EvaluateFinalize, TypeOK
    <3>3. \A s \in Students, q \in Questions :
            \/ answers'[s][q].status = "MANUAL_EVALUATED"
            \/ answers'[s][q] = answers[s][q]
      BY <2>2, <3>1, <3>2, GradeAnswerEffect
    <3>4. Exists(req[r].seen) => Exists(results[req[r].s])
      BY <1>6, <3>1 DEF EvaluateFinalize, Concluded, AtFinalize
    <3>5. \A s \in Students : Exists(results[s]) => Exists(results'[s])
      BY <2>2, <3>2, <3>4, FinalizeEffect
    <3> QED BY <3>3, <3>5 DEF Advance, Exists, Evaluated
  <2> QED BY <1>6, <2>1, <2>2 DEF EvaluateFinalize
<1>7. ASSUME NEW r \in Requests, AssessmentStep(r), ~ResultsSave(r)
      PROVE  UNCHANGED <<answers, results>>
  BY <1>7 DEF AssessmentStep, ScheduleLoad, ScheduleSave, PublishLoad, PublishSave,
              ResultsLoadAssessment, ResultsLoadRows, db
<1>8. ASSUME NEW r \in Requests, StudentStep(r), ~AnswerInsert(r), ~SubmitFinalize(r)
      PROVE  UNCHANGED <<answers, results>>
  BY <1>8 DEF StudentStep, StartLoad, StartFindExisting, StartInsert, AnswerLoadAttempt,
              AnswerFindExisting, SubmitLoadAttempt, SubmitLoadAnswers, SubmitSave,
              SubmitLoadResult, db
<1>9. ASSUME NEW r \in Requests, EvaluatorStep(r), ~EvaluateSave(r), ~EvaluateFinalize(r)
      PROVE  UNCHANGED <<answers, results>>
  BY <1>9 DEF EvaluatorStep, EvaluateLoadAnswer, EvaluateLoadAttempt, EvaluateLoadAnswers,
              EvaluateLoadResult, db
<1>10. CASE UNCHANGED vars
  BY <1>1, <1>10 DEF vars
<1> QED
  BY <1>1, <1>2, <1>3, <1>4, <1>5, <1>6, <1>7, <1>8, <1>9, <1>10 DEF Next

\* A step is of one request: the others keep what they have loaded.
LEMMA OneSlot ==
  ASSUME NEW r \in Requests, NEW p \in Requests, req'[p] # req[p],
         AssessmentStep(r) \/ StudentStep(r) \/ EvaluatorStep(r), TypeOK
  PROVE  p = r
BY DEF AssessmentStep, StudentStep, EvaluatorStep, ScheduleLoad, ScheduleSave,
       PublishLoad, PublishSave, ResultsLoadAssessment, ResultsLoadRows, ResultsSave,
       StartLoad, StartFindExisting, StartInsert, AnswerLoadAttempt, AnswerFindExisting,
       AnswerInsert, SubmitLoadAttempt, SubmitLoadAnswers, SubmitSave, SubmitLoadResult,
       SubmitFinalize, EvaluateLoadAnswer, EvaluateLoadAttempt, EvaluateLoadAnswers,
       EvaluateSave, EvaluateLoadResult, EvaluateFinalize, Begin, Continue, Return, TypeOK

-----------------------------------------------------------------------------
(* A conclusion survives every step that advances.                         *)

\* What a request concluded stays so in every step of another one.
LEMMA ConclusionKept ==
  ASSUME Advance, NEW x \in Request, Concluded(x)
  PROVE  Concluded(x)'
<1>1. ASSUME x.at \in {"submit.result", "submit.finalize"}
      PROVE  AllEvaluated(answers[x.s])'
  BY <1>1, SubmitFields DEF Concluded, AllEvaluated, Advance
<1>2. ASSUME x.at \in AtEvaluation
      PROVE  /\ Exists(x.answer) /\ Exists(answers[x.s][x.q])'
             /\ x.answer.status = "PENDING" => x.answer.score = Null
             /\ x.answer.status \in Evaluated => answers'[x.s][x.q].status \in Evaluated
             /\ x.answer.status = "MANUAL_EVALUATED"
                  => answers'[x.s][x.q].status = "MANUAL_EVALUATED"
             /\ x.points <= Marks[x.q]
  BY <1>2, EvaluateFields DEF Concluded, Advance, Exists
<1>3. ASSUME x.at \in {"evaluate.result", "evaluate.finalize"}
      PROVE  \A q \in Questions \ {x.q} : answers'[x.s][q].status \in Evaluated
  BY <1>3, EvaluateFields DEF Concluded, Advance, AtEvaluation
<1>4. ASSUME x.at \in AtFinalize, Exists(x.seen) PROVE Exists(results'[x.s])
  BY <1>4, EvaluateFields, SubmitFields DEF Concluded, Advance, AtFinalize, AtEvaluation
<1>5. ASSUME x.at = "results.save"
      PROVE  x.rows # {} /\ \A s \in x.rows : Exists(results'[s])
  BY <1>5, RequestKinds DEF Concluded, Advance, ResultsRequest
<1> QED BY <1>1, <1>2, <1>3, <1>4, <1>5 DEF Concluded, Exists

\* Requests that rest on nothing they have loaded.
Unconcluded == {"idle", "schedule.save", "publish.save", "results.rows",
                "start.existing", "start.insert", "answer.existing", "answer.insert",
                "submit.answers", "submit.save"}

\* A label that rests on nothing loaded needs no conclusion.
LEMMA NothingConcluded ==
  ASSUME NEW r \in Requests, req'[r].at \in Unconcluded
  PROVE  Concluded(req[r])'
BY DEF Concluded, AtEvaluation, AtFinalize, Unconcluded

\* A request that returns has nothing left to conclude.
LEMMA ReturnConcludes ==
  ASSUME TypeOK, NEW r \in Requests, Return(r)
  PROVE  Concluded(req[r])'
<1>1. req'[r].at = "idle"
  BY DEF Return, Idle, TypeOK
<1> QED BY <1>1, NothingConcluded DEF Unconcluded

\* A SELECT concludes what the rows it sees say.
LEMMA StepConcludes ==
  ASSUME Inv, NEW r \in Requests,
         AssessmentStep(r) \/ StudentStep(r) \/ EvaluatorStep(r)
  PROVE  Concluded(req[r])'
<1> USE DEF Inv
<1>1. Concluded(req[r]) /\ req \in [Requests -> Request]
  BY DEF ConclusionsHold, TypeOK
<1>2. CASE Return(r)
  BY <1>2, ReturnConcludes
<1>3. ASSUME AssessmentStep(r), ~Return(r) PROVE Concluded(req[r])'
  <2>1. CASE ScheduleLoad(r) \/ PublishLoad(r) \/ ResultsLoadAssessment(r)
    <3>1. req'[r].at \in Unconcluded
      BY <1>1, <2>1 DEF ScheduleLoad, PublishLoad, ResultsLoadAssessment, Begin, Unconcluded
    <3> QED BY <3>1, NothingConcluded
  <2>2. CASE ResultsLoadRows(r)
    <3>1. /\ req'[r].at = "results.save" /\ req'[r].rows = ResultRows
          /\ ResultRows # {} /\ results' = results
      BY <1>1, <1>3, <2>2 DEF ResultsLoadRows, Continue, Publishable, db
    <3> QED BY <3>1 DEF Concluded, ResultRows, Exists, AtEvaluation, AtFinalize
  <2> QED BY <1>3, <2>1, <2>2 DEF AssessmentStep, ScheduleSave, PublishSave, ResultsSave
<1>4. ASSUME StudentStep(r), ~Return(r) PROVE Concluded(req[r])'
  <2>1. ASSUME \/ \E s \in Students : StartLoad(r, s)
               \/ StartFindExisting(r)
               \/ \E s \in Students, q \in Questions, correct \in BOOLEAN :
                    AnswerLoadAttempt(r, s, q, correct)
               \/ AnswerFindExisting(r)
               \/ \E s \in Students, auto \in BOOLEAN : SubmitLoadAttempt(r, s, auto)
        PROVE  Concluded(req[r])'
    <3>1. req'[r].at \in Unconcluded
      BY <1>1, <1>4, <2>1
      DEF StartLoad, StartFindExisting, AnswerLoadAttempt, AnswerFindExisting,
          SubmitLoadAttempt, Begin, Continue, Unconcluded
    <3> QED BY <3>1, NothingConcluded
  <2>2. CASE SubmitLoadAnswers(r)
    <3>1. CASE req'[r].at = "submit.save"
      BY <3>1, NothingConcluded DEF Unconcluded
    <3>2. CASE req'[r].at # "submit.save"
      <4>1. /\ req'[r].at = "submit.result" /\ req'[r].s = req[r].s
            /\ AllEvaluated(answers[req[r].s]) /\ answers' = answers
        BY <1>1, <1>4, <2>2, <3>2 DEF SubmitLoadAnswers, Continue, db
      <4> QED BY <4>1 DEF Concluded, AtEvaluation, AtFinalize
    <3> QED BY <3>1, <3>2
  <2>3. CASE SubmitLoadResult(r)
    <3>1. /\ req'[r].at = "submit.finalize" /\ req'[r].s = req[r].s
          /\ req'[r].seen = results[req[r].s]
          /\ AllEvaluated(answers[req[r].s])
          /\ answers' = answers /\ results' = results
      BY <1>1, <2>3 DEF SubmitLoadResult, Continue, Concluded, db
    <3> QED BY <3>1 DEF Concluded, AtEvaluation, AtFinalize
  <2> QED BY <1>4, <2>1, <2>2, <2>3
          DEF StudentStep, StartInsert, AnswerInsert, SubmitSave, SubmitFinalize
<1>5. ASSUME EvaluatorStep(r), ~Return(r) PROVE Concluded(req[r])'
  <2>1. ASSUME NEW s \in Students, NEW q \in Questions, NEW points \in Points,
               EvaluateLoadAnswer(r, s, q, points)
        PROVE  Concluded(req[r])'
    <3>1. req' = [req EXCEPT ![r] = [at |-> "evaluate.attempt", s |-> s, q |-> q,
                                     points |-> points, answer |-> answers[s][q]]]
      BY <2>1 DEF EvaluateLoadAnswer, Begin
    <3>2. /\ req'[r].at = "evaluate.attempt" /\ req'[r].s = s /\ req'[r].q = q
          /\ req'[r].points = points /\ req'[r].answer = answers[s][q]
      BY <1>1, <3>1
    <3>3. Exists(answers[s][q]) /\ points <= Marks[q] /\ answers' = answers
      BY <2>1 DEF EvaluateLoadAnswer, AcceptScore, db
    <3>4. answers[s][q].status = "PENDING" => answers[s][q].score = Null
      BY DEF PendingUnscored
    <3> QED BY <3>2, <3>3, <3>4 DEF Concluded, AtFinalize
  <2>2. CASE EvaluateLoadAttempt(r)
    <3>1. /\ req'[r].at = "evaluate.answers" /\ req'[r].s = req[r].s
          /\ req'[r].q = req[r].q /\ req'[r].points = req[r].points
          /\ req'[r].answer = req[r].answer /\ answers' = answers
          /\ req[r].at \in AtEvaluation
      BY <1>1, <2>2 DEF EvaluateLoadAttempt, Continue, AtEvaluation, db
    <3> QED BY <1>1, <3>1 DEF Concluded, AtFinalize
  <2>3. CASE EvaluateLoadAnswers(r)
    <3>1. req[r].at \in AtEvaluation /\ req[r].s \in Students /\ answers' = answers
      BY <1>1, <2>3, EvaluateFields DEF EvaluateLoadAnswers, AtEvaluation, db
    <3>2. /\ req'[r].s = req[r].s /\ req'[r].q = req[r].q
          /\ req'[r].points = req[r].points /\ req'[r].answer = req[r].answer
          /\ \/ req'[r].at = "evaluate.save"
             \/ req'[r].at = "evaluate.result" /\ AllEvaluated(RowsSeen(r))
      BY <1>1, <2>3 DEF EvaluateLoadAnswers, Continue
    <3>3. AllEvaluated(RowsSeen(r)) =>
            \A q \in Questions \ {req[r].q} : answers[req[r].s][q].status \in Evaluated
      BY <3>1 DEF AllEvaluated, RowsSeen, TypeOK
    <3> QED BY <1>1, <3>1, <3>2, <3>3 DEF Concluded, AtFinalize, AtEvaluation
  <2>4. CASE EvaluateLoadResult(r)
    <3>1. /\ req'[r].at = "evaluate.finalize" /\ req'[r].s = req[r].s
          /\ req'[r].q = req[r].q /\ req'[r].points = req[r].points
          /\ req'[r].answer = req[r].answer /\ req'[r].seen = results[req[r].s]
          /\ answers' = answers /\ results' = results
          /\ req[r].at = "evaluate.result"
      BY <1>1, <2>4 DEF EvaluateLoadResult, Continue, db
    <3> QED BY <1>1, <3>1 DEF Concluded, AtEvaluation, AtFinalize, Exists
  <2> QED BY <1>5, <2>1, <2>2, <2>3, <2>4 DEF EvaluatorStep, EvaluateSave, EvaluateFinalize
<1> QED BY <1>2, <1>3, <1>4, <1>5

-----------------------------------------------------------------------------
(* The steps that write answers and results, for the proofs below.          *)

\* A step changes the answer rows by inserting one or by scoring one.
LEMMA AnswerWriters ==
  ASSUME [Next]_vars, answers' # answers
  PROVE  \E r \in Requests :
           AnswerInsert(r) \/ EvaluateSave(r) \/ (EvaluateFinalize(r) /\ GradeAnswer(r))
BY DEF Next, vars, db, AssessmentStep, StudentStep, EvaluatorStep, ScheduleLoad,
       ScheduleSave, PublishLoad, PublishSave, ResultsLoadAssessment, ResultsLoadRows,
       ResultsSave, StartLoad, StartFindExisting, StartInsert, AnswerLoadAttempt,
       AnswerFindExisting, SubmitLoadAttempt, SubmitLoadAnswers, SubmitSave,
       SubmitLoadResult, SubmitFinalize, EvaluateLoadAnswer, EvaluateLoadAttempt,
       EvaluateLoadAnswers, EvaluateLoadResult, EvaluateFinalize

\* A step changes attempts' scores, results and evaluations by finalising, by
\* publishing results, or by the writes that keep an attempt's score.
LEMMA Finalizers ==
  ASSUME [Next]_vars
  PROVE  \/ UNCHANGED <<attempts, evaluations, results>>
         \/ \E r \in Requests : StartInsert(r) \/ SubmitSave(r) \/ ResultsSave(r)
         \/ \E r \in Requests :
              /\ SubmitFinalize(r)
              /\ Finalize(req[r].s, req[r].attempt, req[r].total, req[r].seen)
              /\ ~ResultConflict(req[r].s, req[r].seen)
              /\ answers' = answers
         \/ \E r \in Requests :
              /\ EvaluateFinalize(r) /\ GradeAnswer(r)
              /\ Finalize(req[r].s, req[r].attempt, req[r].total, req[r].seen)
              /\ ~ResultConflict(req[r].s, req[r].seen)
<1>1. ASSUME NEW r \in Requests, AssessmentStep(r)
      PROVE  UNCHANGED <<attempts, evaluations, results>> \/ ResultsSave(r)
  BY <1>1 DEF AssessmentStep, db, ScheduleLoad, ScheduleSave, PublishLoad, PublishSave,
     ResultsLoadAssessment, ResultsLoadRows
<1>2. ASSUME NEW r \in Requests, StudentStep(r)
      PROVE  UNCHANGED <<attempts, evaluations, results>>
             \/ StartInsert(r) \/ SubmitSave(r) \/ SubmitFinalize(r)
  BY <1>2 DEF StudentStep, db, StartLoad, StartFindExisting, AnswerLoadAttempt,
     AnswerFindExisting, AnswerInsert, SubmitLoadAttempt, SubmitLoadAnswers, SubmitLoadResult
<1>3. ASSUME NEW r \in Requests, EvaluatorStep(r)
      PROVE  UNCHANGED <<attempts, evaluations, results>> \/ EvaluateFinalize(r)
  BY <1>3 DEF EvaluatorStep, db, EvaluateLoadAnswer, EvaluateLoadAttempt, EvaluateLoadAnswers,
     EvaluateSave, EvaluateLoadResult
<1>4. ASSUME NEW r \in Requests, SubmitFinalize(r)
      PROVE  \/ UNCHANGED <<attempts, evaluations, results>>
             \/ /\ Finalize(req[r].s, req[r].attempt, req[r].total, req[r].seen)
                /\ ~ResultConflict(req[r].s, req[r].seen)
                /\ answers' = answers
  BY <1>4 DEF SubmitFinalize, db
<1>5. ASSUME NEW r \in Requests, EvaluateFinalize(r)
      PROVE  \/ UNCHANGED <<attempts, evaluations, results>>
             \/ /\ GradeAnswer(r)
                /\ Finalize(req[r].s, req[r].attempt, req[r].total, req[r].seen)
                /\ ~ResultConflict(req[r].s, req[r].seen)
  BY <1>5 DEF EvaluateFinalize, db
<1>6. CASE UNCHANGED vars
  BY <1>6 DEF vars, db
<1> QED BY <1>1, <1>2, <1>3, <1>4, <1>5, <1>6 DEF Next

\* A finalisation is for a student all of whose answers are evaluated in the
\* same commit, and its request carries what it needs.
LEMMA FinalizeComplete ==
  ASSUME Inv, NEW r \in Requests, [Next]_vars,
         \/ SubmitFinalize(r) /\ answers' = answers
         \/ EvaluateFinalize(r) /\ GradeAnswer(r)
  PROVE  /\ req[r].s \in Students /\ req[r].attempt \in AttemptRow
         /\ req[r].total \in Totals /\ req[r].seen \in ResultRow
         /\ Exists(req[r].seen) => Exists(results[req[r].s])
         /\ AllEvaluated(answers'[req[r].s])
<1> USE DEF Inv
<1>1. Concluded(req[r]) /\ req[r] \in Request
  BY DEF ConclusionsHold, TypeOK
<1>2. CASE SubmitFinalize(r) /\ answers' = answers
  <2>1. req[r].at = "submit.finalize"
    BY <1>2 DEF SubmitFinalize
  <2> QED BY <1>1, <1>2, <2>1, SubmitFields DEF Concluded, AtFinalize
<1>3. CASE EvaluateFinalize(r) /\ GradeAnswer(r)
  <2>1. req[r].at = "evaluate.finalize" /\ req[r].at \in AtEvaluation
    BY <1>3 DEF EvaluateFinalize, AtEvaluation
  <2>2. /\ req[r].s \in Students /\ req[r].q \in Questions
        /\ req[r].attempt \in AttemptRow
        /\ req[r].total \in Totals /\ req[r].seen \in ResultRow
    BY <1>1, <2>1, EvaluateFields
  <2>3. answers'[req[r].s][req[r].q].status \in Evaluated
    BY <1>1, <1>3, <2>1, GradeAnswerEffect DEF Evaluated
  <2>4. \A q \in Questions \ {req[r].q} : answers'[req[r].s][q].status \in Evaluated
    BY <1>1, <2>1, <2>2, StepAdvances DEF Concluded, Advance
  <2> QED BY <1>1, <2>1, <2>2, <2>3, <2>4 DEF Concluded, AtFinalize, AllEvaluated
<1> QED BY <1>2, <1>3

-----------------------------------------------------------------------------
(* The inductive invariant.                                                *)

\* Without rows and requests the invariant holds.
LEMMA InvInit == Init => Inv
<1> SUFFICES ASSUME Init PROVE Inv
  OBVIOUS
<1>1. TypeOK
  BY TypeInit
<1>2. \A r \in Requests : req[r].at \in {"idle", "unused"}
  BY DEF Init, InitRequests, Idle, Unused
<1>3. ConclusionsHold
  BY <1>2 DEF ConclusionsHold, Concluded, AtEvaluation, AtFinalize
<1>4. PendingUnscored /\ ResultsComplete
  BY DEF Init, NoRow, PendingUnscored, ResultsComplete, Exists
<1> QED BY <1>1, <1>3, <1>4 DEF Inv

\* Every step keeps the invariant.
LEMMA InvStep ==
  ASSUME Inv, [Next]_vars
  PROVE  Inv'
<1> USE DEF Inv
<1>1. TypeOK' /\ Advance
  BY TypeStep, StepAdvances
<1>2. ConclusionsHold'
  <2> SUFFICES ASSUME NEW p \in Requests PROVE Concluded(req[p])'
    BY DEF ConclusionsHold
  <2>1. CASE req'[p] = req[p]
    <3>1. Concluded(req[p]) /\ req[p] \in Request
      BY DEF ConclusionsHold, TypeOK
    <3> QED BY <1>1, <2>1, <3>1, ConclusionKept DEF Concluded, Exists
  <2>2. CASE req'[p] # req[p]
    <3>1. PICK r \in Requests : AssessmentStep(r) \/ StudentStep(r) \/ EvaluatorStep(r)
      BY <2>2 DEF Next, vars
    <3>2. p = r
      BY <2>2, <3>1, OneSlot
    <3> QED BY <3>1, <3>2, StepConcludes
  <2> QED BY <2>1, <2>2
<1>3. PendingUnscored'
  <2> SUFFICES ASSUME answers' # answers PROVE PendingUnscored'
    BY DEF PendingUnscored
  <2>1. PICK r \in Requests :
          AnswerInsert(r) \/ EvaluateSave(r) \/ (EvaluateFinalize(r) /\ GradeAnswer(r))
    BY AnswerWriters
  <2>2. CASE AnswerInsert(r)
    <3>1. req[r].s \in Students /\ req[r].q \in Questions
      BY <2>2, RequestKinds DEF AnswerInsert, AnswerRequest, TypeOK
    <3> QED BY <2>2, <3>1
            DEF AnswerInsert, InsertRow, NewAnswer, PendingUnscored, TypeOK
  <2>3. CASE EvaluateSave(r) \/ (EvaluateFinalize(r) /\ GradeAnswer(r))
    <3>1. Concluded(req[r]) /\ req[r].at \in AtEvaluation /\ GradeAnswer(r)
      BY <2>3 DEF EvaluateSave, EvaluateFinalize, ConclusionsHold, AtEvaluation
    <3>2. req[r].s \in Students /\ req[r].q \in Questions
      BY <3>1, EvaluateFields DEF TypeOK
    <3> QED BY <3>1, <3>2, GradeAnswerEffect DEF PendingUnscored
  <2> QED BY <2>1, <2>2, <2>3
<1>4. ResultsComplete'
  <2> SUFFICES ASSUME NEW s \in Students, Exists(results'[s])
               PROVE  AllEvaluated(answers'[s])
    BY DEF ResultsComplete, AllEvaluated
  <2>1. CASE Exists(results[s])
    BY <1>1, <2>1 DEF ResultsComplete, AllEvaluated, Advance
  <2>2. CASE ~Exists(results[s])
    <3>1. CASE \E r \in Requests : ResultsSave(r)
      <4>1. PICK r \in Requests : ResultsSave(r)
        BY <3>1
      <4>2. s \notin req[r].rows
        BY <2>2, <4>1 DEF ResultsSave, ConclusionsHold, Concluded
      <4> QED BY <2>2, <4>1, <4>2 DEF ResultsSave
    <3>2. ASSUME NEW r \in Requests,
                 \/ SubmitFinalize(r) /\ answers' = answers
                 \/ EvaluateFinalize(r) /\ GradeAnswer(r),
                 Finalize(req[r].s, req[r].attempt, req[r].total, req[r].seen)
          PROVE  AllEvaluated(answers'[s])
      <4>1. s = req[r].s
        BY <2>2, <3>2, FinalizeComplete, FinalizeEffect
      <4> QED BY <3>2, <4>1, FinalizeComplete
    <3> QED BY <2>2, <3>1, <3>2, Finalizers DEF StartInsert, SubmitSave
  <2> QED BY <2>1, <2>2
<1> QED BY <1>1, <1>2, <1>3, <1>4

\* The invariant holds in every reachable state.
THEOREM InvCorrect == Spec => []Inv
BY InvInit, InvStep, PTL DEF Spec

\* What a handler found in its SELECTs to be complete, evaluated or recorded is
\* so when it commits, for any number of requests in flight.
THEOREM ConclusionsCorrect == Spec => []ConclusionsHold
<1>1. Inv => ConclusionsHold
  BY DEF Inv
<1> QED BY <1>1, InvCorrect, PTL

\* A student has a result only if every question has an evaluated answer.
THEOREM ResultsCompleteCorrect == Spec => []ResultsComplete
<1>1. Inv => ResultsComplete
  BY DEF Inv
<1> QED BY <1>1, InvCorrect, PTL

-----------------------------------------------------------------------------
(* Attempts, evaluation rows and results go together.                      *)

\* Starting and submitting never mark an attempt EVALUATED or give it a score.
LEMMA PlainWrites ==
  ASSUME TypeOK, NEW r \in Requests, StartInsert(r) \/ SubmitSave(r)
  PROVE  \A s \in Students :
           /\ attempts'[s].status \in {attempts[s].status, "STARTED"} \cup Submitted
           /\ attempts'[s].score \in {attempts[s].score, Null}
<1>1. CASE StartInsert(r)
  <2>1. req[r].s \in Students
    BY <1>1, RequestKinds DEF StartInsert, StartRequest, TypeOK
  <2> QED BY <1>1, <2>1 DEF StartInsert, InsertRow, TypeOK
<1>2. CASE SubmitSave(r)
  <2>1. req[r].s \in Students /\ req[r].to \in Submitted
    BY <1>2, RequestKinds DEF SubmitSave, SubmitRequest, TypeOK
  <2> QED BY <1>2, <2>1 DEF SubmitSave, TypeOK
<1> QED BY <1>1, <1>2

\* A finalisation writes attempt, evaluation and result together, or none.
LEMMA EvaluatedHasResultStep ==
  ASSUME Inv, EvaluatedHasResult, [Next]_vars
  PROVE  EvaluatedHasResult'
<1> USE DEF Inv
<1> SUFFICES ASSUME NEW s \in Students
             PROVE  /\ attempts'[s].status = "EVALUATED" => Exists(results'[s])
                    /\ Exists(results'[s]) <=> evaluations'[s] # << >>
  BY DEF EvaluatedHasResult, Exists
<1>1. /\ attempts[s].status = "EVALUATED" => Exists(results[s])
      /\ Exists(results[s]) <=> evaluations[s] # << >>
  BY DEF EvaluatedHasResult
<1>2. CASE UNCHANGED <<attempts, evaluations, results>>
  BY <1>1, <1>2
<1>3. ASSUME NEW r \in Requests, StartInsert(r) \/ SubmitSave(r)
      PROVE  attempts'[s].status \in {attempts[s].status, "STARTED"} \cup Submitted
  BY <1>3, PlainWrites
<1>4. CASE \E r \in Requests : StartInsert(r) \/ SubmitSave(r)
  BY <1>1, <1>3, <1>4 DEF StartInsert, SubmitSave, Submitted
<1>5. ASSUME NEW r \in Requests, ResultsSave(r)
      PROVE  Exists(results'[s]) <=> Exists(results[s])
  BY <1>5 DEF ResultsSave, Exists, ConclusionsHold, Concluded
<1>6. CASE \E r \in Requests : ResultsSave(r)
  BY <1>1, <1>5, <1>6 DEF ResultsSave
<1>7. ASSUME NEW r \in Requests,
             \/ SubmitFinalize(r) /\ answers' = answers
             \/ EvaluateFinalize(r) /\ GradeAnswer(r),
             Finalize(req[r].s, req[r].attempt, req[r].total, req[r].seen)
      PROVE  /\ attempts'[s].status = "EVALUATED" => Exists(results'[s])
             /\ Exists(results'[s]) <=> evaluations'[s] # << >>
  <2>1. /\ req[r].s \in Students /\ req[r].total \in Totals
        /\ Exists(results'[req[r].s])
        /\ evaluations'[req[r].s] = Append(evaluations[req[r].s], req[r].total)
        /\ s # req[r].s => UNCHANGED <<results[s], attempts[s], evaluations[s]>>
    BY <1>7, FinalizeComplete, FinalizeEffect
  <2>2. evaluations'[req[r].s] # << >>
    <3>1. evaluations[req[r].s] \in Seq(Totals)
      BY <2>1 DEF TypeOK
    <3>2. Len(Append(evaluations[req[r].s], req[r].total)) # Len(<< >>)
      BY <2>1, <3>1
    <3> QED BY <2>1, <3>2
  <2> QED BY <1>1, <2>1, <2>2
<1> QED BY <1>2, <1>4, <1>6, <1>7, Finalizers

\* A student's result row and evaluation row exist together, and with them the
\* EVALUATED attempt, also when one of several finalisations was rolled back.
THEOREM EvaluatedHasResultCorrect == Spec => []EvaluatedHasResult
<1>1. Init => EvaluatedHasResult
  BY DEF Init, EvaluatedHasResult, NoRow, Exists
<1> QED BY <1>1, EvaluatedHasResultStep, InvCorrect, PTL DEF Spec

-----------------------------------------------------------------------------
(* Scores.                                                                 *)

\* A score that a step shows is the one it records, or was shown before.
LEMMA ScoresOnRecordStep ==
  ASSUME Inv, ScoresOnRecord, [Next]_vars
  PROVE  ScoresOnRecord'
<1> USE DEF Inv
<1> DEFINE OnRecord(s, score) ==
      score # Null => \E i \in DOMAIN evaluations[s] : evaluations[s][i] = score
<1> SUFFICES ASSUME NEW s \in Students
             PROVE  OnRecord(s, attempts[s].score)' /\ OnRecord(s, results[s].score)'
  BY DEF ScoresOnRecord
<1>1. OnRecord(s, attempts[s].score) /\ OnRecord(s, results[s].score)
  BY DEF ScoresOnRecord
<1>2. CASE UNCHANGED <<attempts, evaluations, results>>
  BY <1>1, <1>2
<1>3. ASSUME NEW r \in Requests, StartInsert(r) \/ SubmitSave(r)
      PROVE  attempts'[s].score \in {attempts[s].score, Null}
  BY <1>3, PlainWrites
<1>4. CASE \E r \in Requests : StartInsert(r) \/ SubmitSave(r)
  BY <1>1, <1>3, <1>4 DEF StartInsert, SubmitSave
<1>5. CASE \E r \in Requests : ResultsSave(r)
  <2>1. results'[s].score = results[s].score
    BY <1>5 DEF ResultsSave
  <2> QED BY <1>1, <1>5, <2>1 DEF ResultsSave
<1>6. ASSUME NEW r \in Requests,
             \/ SubmitFinalize(r) /\ answers' = answers
             \/ EvaluateFinalize(r) /\ GradeAnswer(r),
             Finalize(req[r].s, req[r].attempt, req[r].total, req[r].seen)
      PROVE  OnRecord(s, attempts[s].score)' /\ OnRecord(s, results[s].score)'
  <2>1. req[r].s \in Students /\ req[r].total \in Totals
    BY <1>6, FinalizeComplete
  <2>2. CASE s # req[r].s
    <3>1. UNCHANGED <<results[s], attempts[s], evaluations[s]>>
      BY <1>6, <2>2, FinalizeComplete, FinalizeEffect
    <3> QED BY <1>1, <3>1
  <2>3. CASE s = req[r].s
    <3>1. evaluations'[s] = Append(evaluations[s], req[r].total)
      BY <1>6, <2>3, FinalizeComplete, FinalizeEffect
    <3>2. /\ attempts'[s].score \in {attempts[s].score, req[r].total}
          /\ results'[s].score \in {results[s].score, req[r].total}
      BY <1>6, <2>1, <2>3 DEF Finalize, FinalResult, Flushed, TypeOK
    <3>3. evaluations[s] \in Seq(Totals)
      BY DEF TypeOK
    <3>4. /\ \A i \in DOMAIN evaluations[s] :
               i \in DOMAIN evaluations'[s] /\ evaluations'[s][i] = evaluations[s][i]
          /\ Len(evaluations[s]) + 1 \in DOMAIN evaluations'[s]
          /\ evaluations'[s][Len(evaluations[s]) + 1] = req[r].total
      BY <2>1, <3>1, <3>3
    <3> QED BY <1>1, <3>2, <3>4
  <2> QED BY <2>2, <2>3
<1> QED BY <1>2, <1>4, <1>5, <1>6, Finalizers

\* Every score an attempt or a result shows was computed by an evaluation on
\* record, whichever of several finalisations wrote it last.
THEOREM ScoresOnRecordCorrect == Spec => []ScoresOnRecord
<1>1. Init => ScoresOnRecord
  BY DEF Init, ScoresOnRecord, NoRow
<1> QED BY <1>1, ScoresOnRecordStep, InvCorrect, PTL DEF Spec

\* A step writes scores within the marks, or the columns of two such rows.
LEMMA ScoresWithinMarksStep ==
  ASSUME Inv, ScoresWithinMarks, [Next]_vars
  PROVE  ScoresWithinMarks'
<1> USE DEF Inv
<1>1. /\ Marks \in [Questions -> Nat] /\ Negative \in [Questions -> Nat]
      /\ Points \subseteq Nat /\ Null \notin Int
  BY GradingAssumption
<1> SUFFICES ASSUME answers' # answers PROVE ScoresWithinMarks'
  BY DEF ScoresWithinMarks
<1>2. PICK r \in Requests :
        AnswerInsert(r) \/ EvaluateSave(r) \/ (EvaluateFinalize(r) /\ GradeAnswer(r))
  BY AnswerWriters
<1>3. CASE AnswerInsert(r)
  <2>1. req[r].s \in Students /\ req[r].q \in Questions
    BY <1>3, RequestKinds DEF AnswerInsert, AnswerRequest, TypeOK
  <2>2. LET row == NewAnswer(req[r].q, req[r].correct) IN
        row.status \in Evaluated => row.score \in -Negative[req[r].q] .. Marks[req[r].q]
    BY <1>1, <2>1 DEF NewAnswer, Evaluated
  <2> QED BY <1>3, <2>1, <2>2 DEF AnswerInsert, InsertRow, ScoresWithinMarks, TypeOK
<1>4. CASE EvaluateSave(r) \/ (EvaluateFinalize(r) /\ GradeAnswer(r))
  <2>1. Concluded(req[r]) /\ req[r].at \in AtEvaluation /\ GradeAnswer(r)
    BY <1>4 DEF EvaluateSave, EvaluateFinalize, ConclusionsHold, AtEvaluation
  <2>2. /\ req[r].s \in Students /\ req[r].q \in Questions
        /\ req[r].points \in Points /\ req[r].answer \in AnswerRow
    BY <2>1, EvaluateFields DEF TypeOK
  <2>3. req[r].points \in -Negative[req[r].q] .. Marks[req[r].q]
    <3>1. /\ req[r].points \in Nat /\ Negative[req[r].q] \in Nat
          /\ Marks[req[r].q] \in Nat
      BY <1>1, <2>2
    <3>2. req[r].points <= Marks[req[r].q]
      BY <2>1 DEF Concluded
    <3> QED BY <3>1, <3>2
  <2>4. answers'[req[r].s][req[r].q].score
          \in {answers[req[r].s][req[r].q].score, req[r].points}
    BY <2>1, <2>2 DEF GradeAnswer, GradedRow, Flushed, TypeOK
  <2>5. CASE answers'[req[r].s][req[r].q].score = req[r].points
    BY <2>1, <2>2, <2>3, <2>5, GradeAnswerEffect DEF ScoresWithinMarks
  <2>6. CASE answers'[req[r].s][req[r].q].score # req[r].points
    <3>1. req[r].answer.score = req[r].points
      BY <2>1, <2>2, <2>6 DEF GradeAnswer, GradedRow, Flushed, TypeOK
    <3>2. req[r].answer.status \in Evaluated
      <4>1. req[r].answer.status \in {"ABSENT", "PENDING"} \cup Evaluated
        BY <2>2 DEF AnswerRow
      <4>2. req[r].answer.score # Null
        <5>1. req[r].points \in Nat
          BY <1>1, <2>2, Zenon
        <5>2. Null \notin Nat
          BY <1>1
        <5> QED BY <3>1, <5>1, <5>2, Zenon
      <4>3. req[r].answer.status \notin {"ABSENT", "PENDING"}
        BY <2>1, <4>2 DEF Concluded, Exists
      <4> QED BY <4>1, <4>3
    <3>3. answers[req[r].s][req[r].q].status \in Evaluated
      BY <2>1, <3>2 DEF Concluded
    <3> QED BY <2>1, <2>2, <2>4, <2>6, <3>3, GradeAnswerEffect DEF ScoresWithinMarks
  <2> QED BY <2>5, <2>6
<1> QED BY <1>2, <1>3, <1>4

\* No answer is worth more than its question's marks or less than its negative
\* marks, although two evaluators' flushes may each write one of its columns.
THEOREM ScoresWithinMarksCorrect == Spec => []ScoresWithinMarks
<1>1. Init => ScoresWithinMarks
  BY DEF Init, ScoresWithinMarks, NoRow, Evaluated
<1> QED BY <1>1, ScoresWithinMarksStep, InvCorrect, PTL DEF Spec

\* Scores are sound: computed by an evaluation on record, from answers within their
\* marks (_finalize_attempt, evaluate_answer).
THEOREM ScoresSoundCorrect == Spec => []ScoresSound
BY ScoresOnRecordCorrect, ScoresWithinMarksCorrect, PTL DEF ScoresSound

-----------------------------------------------------------------------------
(* Answers are written once.                                               *)

\* The step that changes an answer already there is an evaluator's.
LEMMA AnswerWriteOnceStep ==
  ASSUME Inv, [Next]_vars, NEW s \in Students, NEW q \in Questions,
         Exists(answers[s][q]), answers'[s][q] # answers[s][q]
  PROVE  answers'[s][q].status = "MANUAL_EVALUATED"
<1> USE DEF Inv
<1>1. PICK r \in Requests :
        AnswerInsert(r) \/ EvaluateSave(r) \/ (EvaluateFinalize(r) /\ GradeAnswer(r))
  BY AnswerWriters
<1>2. CASE AnswerInsert(r)
  <2>1. req[r].s \in Students /\ req[r].q \in Questions
    BY <1>2, RequestKinds DEF AnswerInsert, AnswerRequest, TypeOK
  <2> QED BY <1>2, <2>1 DEF AnswerInsert, InsertRow, TypeOK
<1>3. CASE EvaluateSave(r) \/ (EvaluateFinalize(r) /\ GradeAnswer(r))
  <2>1. Concluded(req[r]) /\ req[r].at \in AtEvaluation /\ GradeAnswer(r)
    BY <1>3 DEF EvaluateSave, EvaluateFinalize, ConclusionsHold, AtEvaluation
  <2> QED BY <2>1, GradeAnswerEffect
<1> QED BY <1>1, <1>2, <1>3

\* Once submitted, an answer's row is changed by evaluators only, however many
\* submissions of it were past the check for an existing answer.
THEOREM AnswerWriteOnceCorrect == Spec => AnswerWriteOnce
<1>1. Inv /\ [Next]_vars =>
        [\A s \in Students, q \in Questions :
           Exists(answers[s][q]) /\ answers'[s][q] # answers[s][q]
             => answers'[s][q].status = "MANUAL_EVALUATED"]_vars
  BY AnswerWriteOnceStep
<1> QED BY <1>1, InvCorrect, PTL DEF Spec, AnswerWriteOnce

-----------------------------------------------------------------------------
(* Published results.                                                      *)

\* The rows publish_results writes exist, and there is at least one.
LEMMA PublishedRows ==
  ASSUME Inv, NEW r \in Requests, ResultsSave(r)
  PROVE  /\ req[r].rows # {} /\ req[r].rows \subseteq Students
         /\ \A s \in req[r].rows : Exists(results[s])
<1>1. Concluded(req[r]) /\ req[r] \in Request /\ req[r].at = "results.save"
  BY DEF Inv, ResultsSave, ConclusionsHold, TypeOK
<1> QED BY <1>1, RequestKinds DEF Concluded, ResultsRequest

\* What a step does to the result rows.
LEMMA ResultStep ==
  ASSUME Inv, [Next]_vars
  PROVE  \/ results' = results
         \/ \E r \in Requests :
              /\ ResultsSave(r)
              /\ req[r].rows # {} /\ req[r].rows \subseteq Students
              /\ \A s \in req[r].rows : Exists(results[s])
         \/ \E s \in Students :
              /\ results'[s].status =
                   IF Exists(results[s]) THEN results[s].status ELSE "DRAFT"
              /\ \A p \in Students \ {s} :
                   results'[p] = results[p] /\ answers'[p] = answers[p]
              /\ AllEvaluated(answers'[s])
              /\ assessment' = assessment
<1> USE DEF Inv
<1>1. ASSUME NEW r \in Requests, ResultsSave(r)
      PROVE  /\ req[r].rows # {} /\ req[r].rows \subseteq Students
             /\ \A s \in req[r].rows : Exists(results[s])
  BY <1>1, PublishedRows
<1>2. ASSUME NEW r \in Requests,
             \/ SubmitFinalize(r) /\ answers' = answers
             \/ EvaluateFinalize(r) /\ GradeAnswer(r),
             Finalize(req[r].s, req[r].attempt, req[r].total, req[r].seen),
             ~ResultConflict(req[r].s, req[r].seen)
      PROVE  \E s \in Students :
              /\ results'[s].status =
                   IF Exists(results[s]) THEN results[s].status ELSE "DRAFT"
              /\ \A p \in Students \ {s} :
                   results'[p] = results[p] /\ answers'[p] = answers[p]
              /\ AllEvaluated(answers'[s])
              /\ assessment' = assessment
  <2>1. /\ req[r].s \in Students
        /\ Exists(req[r].seen) => Exists(results[req[r].s])
        /\ AllEvaluated(answers'[req[r].s])
    BY <1>2, FinalizeComplete
  <2>2. /\ results'[req[r].s].status =
             IF Exists(req[r].seen) THEN results[req[r].s].status ELSE "DRAFT"
        /\ \A p \in Students \ {req[r].s} : results'[p] = results[p]
    BY <1>2, FinalizeComplete, FinalizeEffect
  <2>3. Exists(req[r].seen) <=> Exists(results[req[r].s])
    BY <1>2, <2>1 DEF ResultConflict
  <2>4. \A p \in Students \ {req[r].s} : answers'[p] = answers[p]
    <3>1. answers' = answers \/ GradeAnswer(r)
      BY <1>2
    <3> QED BY <2>1, <3>1 DEF GradeAnswer, TypeOK
  <2>5. assessment' = assessment
    BY <1>2, <2>2, <2>1, <2>3 DEF SubmitFinalize, EvaluateFinalize, db
  <2> QED BY <2>1, <2>2, <2>3, <2>4, <2>5
<1>3. CASE \E r \in Requests : StartInsert(r) \/ SubmitSave(r)
  BY <1>3 DEF StartInsert, SubmitSave
<1> QED BY <1>1, <1>2, <1>3, Finalizers

\* Publishing writes result rows with the assessment, and no step unpublishes
\* them.
LEMMA PublishedHasResultStep ==
  ASSUME Inv, PublishedHasResult, [Next]_vars
  PROVE  PublishedHasResult'
<1> USE DEF Inv
<1> SUFFICES ASSUME assessment' = "PUBLISHED"
             PROVE  \E s \in Students : results'[s].status = "PUBLISHED"
  BY DEF PublishedHasResult
<1>1. ASSUME NEW r \in Requests, ResultsSave(r)
      PROVE  \E s \in Students : results'[s].status = "PUBLISHED"
  <2>1. PICK s \in Students : s \in req[r].rows
    BY <1>1, PublishedRows
  <2>2. results'[s].status = "PUBLISHED"
    BY <1>1, <2>1 DEF ResultsSave
  <2> QED BY <2>2
<1>2. CASE ~\E r \in Requests : ResultsSave(r)
  <2>1. assessment = "PUBLISHED"
    BY <1>2
    DEF Next, vars, db, AssessmentStep, StudentStep, EvaluatorStep, ScheduleLoad,
        ScheduleSave, PublishLoad, PublishSave, ResultsLoadAssessment, ResultsLoadRows,
        StartLoad, StartFindExisting, StartInsert, AnswerLoadAttempt, AnswerFindExisting,
        AnswerInsert, SubmitLoadAttempt, SubmitLoadAnswers, SubmitSave, SubmitLoadResult,
        SubmitFinalize, EvaluateLoadAnswer, EvaluateLoadAttempt, EvaluateLoadAnswers,
        EvaluateSave, EvaluateLoadResult, EvaluateFinalize, Flushed
  <2>2. PICK s \in Students : results[s].status = "PUBLISHED"
    BY <2>1 DEF PublishedHasResult
  <2>3. results'[s].status = "PUBLISHED"
    BY <1>2, <2>2, ResultStep DEF Exists
  <2> QED BY <2>3
<1> QED BY <1>1, <1>2

\* A published assessment has a published result, whatever ran between
\* publish_results' SELECTs and its commit.
THEOREM PublishedHasResultCorrect == Spec => []PublishedHasResult
<1>1. Init => PublishedHasResult
  BY DEF Init, PublishedHasResult
<1> QED BY <1>1, PublishedHasResultStep, InvCorrect, PTL DEF Spec

-----------------------------------------------------------------------------
(* The result contract.                                                    *)

\* What ResultContract's variables stand for.
Complete == {s \in Students : AllEvaluated(answers[s])}
Shown    == [s \in Students |-> results[s].status]

\* A step that changes answers without finalising completes at most one student.
LEMMA CompleteStep ==
  ASSUME Inv, [Next]_vars, results' = results
  PROVE  Complete' = Complete \/ \E s \in Students : Complete' = Complete \cup {s}
<1> USE DEF Inv
<1> SUFFICES ASSUME answers' # answers
             PROVE  Complete' = Complete \/ \E s \in Students : Complete' = Complete \cup {s}
  BY DEF Complete, AllEvaluated
<1>1. PICK r \in Requests :
        AnswerInsert(r) \/ EvaluateSave(r) \/ (EvaluateFinalize(r) /\ GradeAnswer(r))
  BY AnswerWriters
<1>2. req[r].s \in Students
  <2>1. CASE AnswerInsert(r)
    BY <2>1, RequestKinds DEF AnswerInsert, AnswerRequest, TypeOK
  <2>2. CASE EvaluateSave(r) \/ EvaluateFinalize(r)
    BY <2>2, EvaluateFields DEF EvaluateSave, EvaluateFinalize, AtEvaluation, TypeOK
  <2> QED BY <1>1, <2>1, <2>2
<1>3. \A p \in Students \ {req[r].s} : answers'[p] = answers[p]
  BY <1>1, <1>2 DEF AnswerInsert, EvaluateSave, GradeAnswer, TypeOK
<1>4. Complete \subseteq Complete'
  BY StepAdvances DEF Advance, Complete, AllEvaluated
<1>5. Complete' \subseteq Complete \cup {req[r].s}
  BY <1>3 DEF Complete, AllEvaluated
<1> QED BY <1>2, <1>4, <1>5

\* Every step of the system is a step of the contract or a stutter.
LEMMA ContractStep ==
  ASSUME Inv, [Next]_vars
  PROVE  [Contract!Next]_<<Complete, Shown>>
<1> USE DEF Inv
<1>1. CASE results' = results
  <2>1. Shown' = Shown
    BY <1>1 DEF Shown
  <2> QED BY <1>1, <2>1, CompleteStep
          DEF Contract!Next, Contract!CompleteAnswers, Complete, Shown
<1>2. ASSUME NEW r \in Requests, ResultsSave(r), req[r].rows \subseteq Students,
             \A s \in req[r].rows : Exists(results[s])
      PROVE  [Contract!Next]_<<Complete, Shown>>
  <2>1. Complete' = Complete
    BY <1>2 DEF ResultsSave, Complete, AllEvaluated
  <2>2. Shown' = [s \in Students |-> IF s \in req[r].rows THEN "PUBLISHED" ELSE Shown[s]]
    BY <1>2 DEF ResultsSave, Shown
  <2>3. req[r].rows \in SUBSET {s \in Students : Shown[s] # "ABSENT"}
    BY <1>2 DEF Shown, Exists
  <2> QED BY <2>1, <2>2, <2>3 DEF Contract!Next, Contract!PublishResults, Complete, Shown
<1>3. ASSUME NEW s \in Students,
             results'[s].status = IF Exists(results[s]) THEN results[s].status ELSE "DRAFT",
             \A p \in Students \ {s} : results'[p] = results[p] /\ answers'[p] = answers[p],
             AllEvaluated(answers'[s])
      PROVE  [Contract!Next]_<<Complete, Shown>>
  <2>1. Complete' = Complete \cup {s}
    BY <1>3 DEF Complete, AllEvaluated
  <2>2. CASE Exists(results[s])
    <3>1. Shown' = Shown
      BY <1>3, <2>2 DEF Shown
    <3> QED BY <2>1, <3>1 DEF Contract!Next, Contract!CompleteAnswers, Complete, Shown
  <2>3. CASE ~Exists(results[s])
    <3>1. Shown[s] = "ABSENT" /\ Shown' = [Shown EXCEPT ![s] = "DRAFT"]
      BY <1>3, <2>3 DEF Shown, Exists
    <3> QED BY <2>1, <3>1 DEF Contract!Next, Contract!RecordResult, Complete, Shown
  <2> QED BY <2>2, <2>3
<1> QED BY <1>1, <1>2, <1>3, ResultStep

\* The requests together implement the result contract: a student's result
\* appears with the last evaluated answer, once, and never goes back.
THEOREM ContractImplemented == Spec => ImplementsContract
<1>1. Init => Contract!Init
  BY GradingAssumption
  DEF Init, NoRow, Contract!Init, AllEvaluated, Evaluated
<1>2. Inv /\ [Next]_vars => [Contract!Next]_<<Complete, Shown>>
  BY ContractStep
<1> QED BY <1>1, <1>2, InvCorrect, PTL
        DEF Spec, ImplementsContract, Contract!Spec, Complete, Shown

-----------------------------------------------------------------------------
(* The score that is written.  With one request at a time, and only then, what *)
(* the request has loaded is what the tables hold when it commits.  Nothing is *)
(* said about Total, a sum over data: equal rows have the same total.          *)

\* The answers of the attempt with the evaluator's score among them.
Scored(x) ==
  [answers[x.s] EXCEPT ![x.q] = [status |-> "MANUAL_EVALUATED", score |-> x.points]]

\* What a request has loaded or worked out still agrees with the tables.
RowsAreCurrent(x) ==
  /\ x.at \in {"submit.answers", "submit.result", "submit.finalize",
               "evaluate.answers", "evaluate.result", "evaluate.finalize"}
       => x.attempt = attempts[x.s]
  /\ x.at \in {"submit.result", "submit.finalize"} => x.total = Total(answers[x.s])
  /\ x.at \in {"evaluate.result", "evaluate.finalize"} => x.total = Total(Scored(x))
  /\ x.at \in AtEvaluation => x.answer = answers[x.s][x.q]
  /\ x.at \in AtFinalize => x.seen = results[x.s]

\* The invariant of the requests taken one at a time.
AloneInv == OneAtATime => \A r \in Requests : RowsAreCurrent(req[r])

\* A step is of one slot, which is in use before and after it.
LEMMA StepSlot ==
  ASSUME TypeOK, NEW r \in Requests, AssessmentStep(r) \/ StudentStep(r) \/ EvaluatorStep(r)
  PROVE  req[r] # Unused /\ req'[r] # Unused
BY DEF AssessmentStep, StudentStep, EvaluatorStep, ScheduleLoad, ScheduleSave,
       PublishLoad, PublishSave, ResultsLoadAssessment, ResultsLoadRows, ResultsSave,
       StartLoad, StartFindExisting, StartInsert, AnswerLoadAttempt, AnswerFindExisting,
       AnswerInsert, SubmitLoadAttempt, SubmitLoadAnswers, SubmitSave, SubmitLoadResult,
       SubmitFinalize, EvaluateLoadAnswer, EvaluateLoadAttempt, EvaluateLoadAnswers,
       EvaluateSave, EvaluateLoadResult, EvaluateFinalize, Begin, Continue, Return, TypeOK,
       Idle, Unused

\* Unless it returns, a step changes no table; what it has loaded is current.
LEMMA StepIsCurrent ==
  ASSUME TypeOK, NEW r \in Requests, AssessmentStep(r) \/ StudentStep(r) \/ EvaluatorStep(r),
         RowsAreCurrent(req[r])
  PROVE  RowsAreCurrent(req[r])'
<1>1. CASE req'[r] = Idle
  BY <1>1 DEF RowsAreCurrent, Idle, AtEvaluation, AtFinalize
<1>2. ASSUME req'[r].at \notin AtEvaluation \cup {"submit.answers", "submit.result", "submit.finalize"}
      PROVE  RowsAreCurrent(req[r])'
  BY <1>2 DEF RowsAreCurrent, AtEvaluation, AtFinalize
<1>3. CASE AssessmentStep(r)
  BY <1>1, <1>2, <1>3 DEF AssessmentStep, ScheduleLoad, ScheduleSave, PublishLoad, PublishSave,
       ResultsLoadAssessment, ResultsLoadRows, ResultsSave, Begin, Continue, Return, TypeOK,
       AtEvaluation
<1>4. CASE StudentStep(r)
  <2>1. ASSUME NEW s \in Students, NEW auto \in BOOLEAN, SubmitLoadAttempt(r, s, auto)
        PROVE  RowsAreCurrent(req[r])'
    BY <2>1 DEF SubmitLoadAttempt, Begin, TypeOK, RowsAreCurrent, AtEvaluation, AtFinalize, db
  <2>2. CASE SubmitLoadAnswers(r)
    BY <1>1, <2>2 DEF SubmitLoadAnswers, Continue, Return, TypeOK, RowsAreCurrent,
         AtEvaluation, AtFinalize, db
  <2>3. CASE SubmitLoadResult(r)
    BY <2>3 DEF SubmitLoadResult, Continue, TypeOK, RowsAreCurrent, AtEvaluation, AtFinalize, db
  <2>4. CASE SubmitSave(r) \/ SubmitFinalize(r)
    BY <1>1, <2>4 DEF SubmitSave, SubmitFinalize, Return, TypeOK
  <2>5. ASSUME NEW s \in Students, StartLoad(r, s) PROVE RowsAreCurrent(req[r])'
    BY <1>2, <2>5 DEF StartLoad, Begin, TypeOK, AtEvaluation
  <2>6. CASE StartFindExisting(r) \/ StartInsert(r) \/ AnswerFindExisting(r) \/ AnswerInsert(r)
    BY <1>1, <1>2, <2>6 DEF StartFindExisting, StartInsert, AnswerFindExisting, AnswerInsert,
         Continue, Return, TypeOK, AtEvaluation
  <2>7. ASSUME NEW s \in Students, NEW q \in Questions, NEW correct \in BOOLEAN,
               AnswerLoadAttempt(r, s, q, correct)
        PROVE  RowsAreCurrent(req[r])'
    BY <1>2, <2>7 DEF AnswerLoadAttempt, Begin, TypeOK, AtEvaluation
  <2> QED BY <1>4, <2>1, <2>2, <2>3, <2>4, <2>5, <2>6, <2>7 DEF StudentStep
<1>5. CASE EvaluatorStep(r)
  <2>1. ASSUME NEW s \in Students, NEW q \in Questions, NEW points \in Points,
               EvaluateLoadAnswer(r, s, q, points)
        PROVE  RowsAreCurrent(req[r])'
    BY <2>1 DEF EvaluateLoadAnswer, Begin, TypeOK, RowsAreCurrent, AtEvaluation, AtFinalize, db
  <2>2. CASE EvaluateLoadAttempt(r)
    BY <2>2 DEF EvaluateLoadAttempt, Continue, TypeOK, RowsAreCurrent, AtEvaluation,
         AtFinalize, db
  <2>3. CASE EvaluateLoadAnswers(r)
    <3>1. RowsSeen(r) = Scored(req[r])
      BY DEF RowsSeen, Scored
    <3>2. /\ UNCHANGED db /\ req[r].at = "evaluate.answers"
          /\ req'[r].s = req[r].s /\ req'[r].q = req[r].q
          /\ req'[r].points = req[r].points /\ req'[r].answer = req[r].answer
          /\ \/ req'[r].at = "evaluate.save"
             \/ /\ req'[r].at = "evaluate.result" /\ req'[r].attempt = req[r].attempt
                /\ req'[r].total = Total(Scored(req[r]))
      BY <2>3, <3>1 DEF EvaluateLoadAnswers, Continue, TypeOK
    <3>3. Scored(req[r])' = Scored(req[r])
      BY <3>2 DEF Scored, db
    <3>4. Total(Scored(req[r]))' = Total(Scored(req[r]))
      BY <3>3 DEF Total
    <3> QED BY <3>2, <3>4 DEF RowsAreCurrent, AtEvaluation, AtFinalize, db
  <2>4. CASE EvaluateLoadResult(r)
    <3>1. /\ UNCHANGED db /\ req[r].at = "evaluate.result" /\ req'[r].at = "evaluate.finalize"
          /\ req'[r].s = req[r].s /\ req'[r].q = req[r].q
          /\ req'[r].points = req[r].points /\ req'[r].answer = req[r].answer
          /\ req'[r].attempt = req[r].attempt /\ req'[r].total = req[r].total
          /\ req'[r].seen = results[req[r].s]
      BY <2>4 DEF EvaluateLoadResult, Continue, TypeOK
    <3>2. Scored(req[r])' = Scored(req[r])
      BY <3>1 DEF Scored, db
    <3>3. Total(Scored(req[r]))' = Total(Scored(req[r]))
      BY <3>2 DEF Total
    <3> QED BY <3>1, <3>3 DEF RowsAreCurrent, AtEvaluation, AtFinalize, db
  <2>5. CASE EvaluateSave(r) \/ EvaluateFinalize(r)
    BY <1>1, <2>5 DEF EvaluateSave, EvaluateFinalize, Return, TypeOK
  <2> QED BY <1>5, <2>1, <2>2, <2>3, <2>4, <2>5 DEF EvaluatorStep
<1> QED BY <1>3, <1>4, <1>5

\* No request is in flight in the beginning.
LEMMA AloneInvInit == Init => AloneInv
BY DEF Init, InitRequests, AloneInv, RowsAreCurrent, Idle, Unused, AtEvaluation, AtFinalize

\* A request that is alone is the one that takes the step.
LEMMA AloneInvStep ==
  ASSUME TypeOK, AloneInv, [Next]_vars
  PROVE  AloneInv'
<1>1. CASE UNCHANGED vars
  BY <1>1 DEF vars, AloneInv, OneAtATime, RowsAreCurrent, Scored, Total
<1>2. ASSUME NEW r \in Requests, AssessmentStep(r) \/ StudentStep(r) \/ EvaluatorStep(r)
      PROVE  AloneInv'
  <2> SUFFICES ASSUME OneAtATime', NEW p \in Requests PROVE RowsAreCurrent(req[p])'
    BY DEF AloneInv
  <2>1. req[r] # Unused /\ req'[r] # Unused
    BY <1>2, StepSlot
  <2>2. \A t \in Requests \ {r} : req'[t] = req[t]
    BY <1>2, OneSlot
  <2>3. \A t \in Requests \ {r} : req'[t] = Unused
    BY <2>1 DEF OneAtATime
  <2>4. OneAtATime
    BY <2>1, <2>2, <2>3 DEF OneAtATime
  <2>5. CASE p = r
    BY <1>2, <2>4, <2>5, StepIsCurrent DEF AloneInv
  <2>6. CASE p # r
    BY <2>3, <2>6 DEF RowsAreCurrent, Unused, AtEvaluation, AtFinalize
  <2> QED BY <2>5, <2>6
<1> QED BY <1>1, <1>2 DEF Next

\* It holds in every reachable state.
THEOREM AloneInvCorrect == Spec => []AloneInv
<1> QED BY AloneInvInit, AloneInvStep, TypeCorrect, PTL DEF Spec

\* The score a request that is alone writes is the total of the answers in the
\* same commit.
LEMMA FinalScoreStep ==
  ASSUME Inv, AloneInv, [Next]_vars, NEW s \in Students,
         OneAtATime, attempts[s].status # "EVALUATED", attempts'[s].status = "EVALUATED"
  PROVE  attempts'[s].score = Total(answers'[s]) /\ results'[s].score = Total(answers'[s])
<1> USE DEF Inv
<1>1. ASSUME NEW r \in Requests, StartInsert(r) \/ SubmitSave(r) \/ ResultsSave(r) PROVE FALSE
  <2>1. CASE StartInsert(r)
    BY <2>1 DEF StartInsert, InsertRow, TypeOK
  <2>2. CASE SubmitSave(r)
    <3>1. req[r].to \in Submitted
      BY <2>2, RequestKinds DEF SubmitSave, SubmitRequest, TypeOK
    <3> QED BY <2>2, <3>1 DEF SubmitSave, Submitted, TypeOK
  <2>3. CASE ResultsSave(r)
    BY <2>3 DEF ResultsSave
  <2> QED BY <1>1, <2>1, <2>2, <2>3
<1>2. ASSUME NEW r \in Requests,
             Finalize(req[r].s, req[r].attempt, req[r].total, req[r].seen),
             \/ SubmitFinalize(r) /\ answers' = answers
             \/ EvaluateFinalize(r) /\ GradeAnswer(r)
      PROVE  attempts'[s].score = Total(answers'[s]) /\ results'[s].score = Total(answers'[s])
  <2> DEFINE x == req[r]
  <2>1. x.s \in Students /\ RowsAreCurrent(x) /\ x.at \in AtFinalize
    BY <1>2, FinalizeComplete DEF AloneInv, SubmitFinalize, EvaluateFinalize, AtFinalize
  <2>2. s = x.s
    BY <1>2, <2>1 DEF Finalize, TypeOK
  <2>3. x.attempt = attempts[s] /\ x.seen = results[s]
    BY <2>1, <2>2 DEF RowsAreCurrent, AtFinalize
  <2>4. attempts'[s].score = x.total
    BY <1>2, <2>1, <2>2, <2>3 DEF Finalize, Flushed, TypeOK
  <2>5. results'[s].score = x.total
    BY <1>2, <2>1, <2>2, <2>3 DEF Finalize, FinalResult, Flushed, TypeOK
  <2>6. CASE SubmitFinalize(r) /\ answers' = answers
    BY <2>1, <2>2, <2>4, <2>5, <2>6 DEF SubmitFinalize, RowsAreCurrent
  <2>7. CASE EvaluateFinalize(r) /\ GradeAnswer(r)
    <3>1. /\ x.q \in Questions /\ x.answer = answers[s][x.q] /\ x.total = Total(Scored(x))
          /\ answers[s][x.q] \in AnswerRow
      BY <2>1, <2>2, <2>7, EvaluateFields
         DEF EvaluateFinalize, RowsAreCurrent, AtEvaluation, TypeOK
    <3>2. GradedRow(answers[s][x.q], x.answer, x.points)
            = [status |-> "MANUAL_EVALUATED", score |-> x.points]
      BY <3>1 DEF GradedRow, Flushed
    <3>3. answers'[s] = Scored(x)
      BY <2>2, <2>7, <3>1, <3>2 DEF GradeAnswer, Scored, TypeOK
    <3> QED BY <2>4, <2>5, <3>1, <3>3
  <2> QED BY <1>2, <2>6, <2>7
<1> QED BY <1>1, <1>2, Finalizers

\* With one request at a time the score written when an attempt becomes EVALUATED, on
\* the attempt and on its result, is the total of its answers, the evaluator's own
\* score among them.
THEOREM FinalScoreCorrect == Spec => FinalScoreIsTotal
<1>1. Inv /\ AloneInv /\ [Next]_vars =>
        [\A s \in Students :
           OneAtATime /\ attempts[s].status # "EVALUATED" /\ attempts'[s].status = "EVALUATED"
             => /\ attempts'[s].score = Total(answers'[s])
                /\ results'[s].score = Total(answers'[s])]_vars
  BY FinalScoreStep
<1> QED BY <1>1, InvCorrect, AloneInvCorrect, PTL DEF Spec, FinalScoreIsTotal
=============================================================================
