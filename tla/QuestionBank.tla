---------------------------- MODULE QuestionBank ----------------------------
(***************************************************************************)
(* The question bank of one tenant: topics, questions with their options,      *)
(* and AI generation jobs whose candidates become questions when a reviewer     *)
(* approves the job (app/modules/question/service.py).                         *)
(*                                                                         *)
(* An approval that creates its topic flushes the insert and holds the slug     *)
(* until it commits.  An update never replaces options by others: a payload     *)
(* that lists any is refused, since its options are validated as plain dicts.   *)
(***************************************************************************)
EXTENDS QuestionSets, SequencesExt

CONSTANTS
  Slugs,        \* of topics
  Drafts,       \* question rows that create_question may be asked for
  Edits,        \* payloads of update_question; Null is a field left out
  JobRequests,  \* topic, question type and count of a generation job
  Selections,   \* indexes of candidates that an approval may list
  MaxDrafted,   \* bound: questions that create_question inserts
  MaxBank,      \* bound: questions ever inserted
  MaxJobs       \* bound: jobs ever inserted

QuestionType   == {"mcq", "true_false", "multi_select", "short_answer"}
QuestionStatus == {"draft", "reviewed", "approved", "archived"}

\* How many options a question has, and how many of them are correct.
QuestionOption == [count : 0 .. 20, correct : 0 .. 20]

\* A row of a payload has no job; job is the one a question was generated by, or 0.
Columns(Topic, Type, Options, Points, Status, Job) ==
  [topic : Topic, type : Type, options : Options, marks : Points, negative : Points,
   status : Status, job : Job]

ASSUME BankAssumption ==
  /\ MaxDrafted \in Nat /\ MaxBank \in Nat /\ MaxJobs \in Nat
  /\ Drafts \subseteq Columns(Slugs, QuestionType, QuestionOption, Nat, QuestionStatus, {0})
  /\ Edits \subseteq Columns(Slugs \cup {Null}, QuestionType \cup {Null}, QuestionOption \cup {Null},
                             Nat \cup {Null}, QuestionStatus \cup {Null}, {Null})
  /\ JobRequests \subseteq [topic : Slugs, type : QuestionType, count : Nat \ {0}]
  /\ \A selection \in Selections : selection \in Seq(Nat \ {0}) /\ selection # << >>

VARIABLES
  topics,   \* slugs of the topics, in order of insertion
  bank,     \* questions in order of insertion
  jobs      \* AI generation jobs in order of insertion

library == <<topics, bank, jobs>>

QuestionTopic == Slugs

QuestionRow ==
  Columns(Slugs, QuestionType, QuestionOption, Nat, QuestionStatus, 0 .. MaxJobs)

AIQuestionGenerationJob ==
  [topic : Slugs, type : QuestionType, count : Nat \ {0}, status : {"completed", "approved"}]

-----------------------------------------------------------------------------
AllowedTransitions ==
  [draft    |-> {"draft", "reviewed", "archived"},
   reviewed |-> {"draft", "reviewed", "approved", "archived"},
   approved |-> {"reviewed", "approved", "archived"},
   archived |-> {"archived"}]

OptionsOf(n, correct) == [count |-> n, correct |-> correct]

\* _validate_question_payload
WellFormed(q) ==
  /\ q.negative <= q.marks
  /\ q.type = "mcq" => q.options.count >= 2 /\ q.options.correct = 1
  /\ q.type = "true_false" => q.options = OptionsOf(2, 1)
  /\ q.type = "multi_select" => q.options.count >= 2 /\ q.options.correct >= 1
  /\ q.type = "short_answer" => q.options.count = 0

\* What the placeholder provider generates for a type.
GeneratedOptions ==
  [mcq |-> OptionsOf(2, 1), true_false |-> OptionsOf(2, 1),
   multi_select |-> OptionsOf(3, 2), short_answer |-> OptionsOf(0, 0)]

\* The slugs that other requests have inserted and not committed.
SlugHeld(r, slug) ==
  \E p \in Requests \ {r} : /\ req[p].at = "approve.save" /\ req[p].created
                            /\ jobs[req[p].job].topic = slug

-----------------------------------------------------------------------------
BankInit == topics = << >> /\ bank = << >> /\ jobs = << >>

\* create_topic; a slug that is taken is a conflict.
CreateTopic(r, slug) ==
  /\ req[r] = Idle /\ ~SlugHeld(r, slug)
  /\ topics' = IF slug \in Range(topics) THEN topics ELSE Append(topics, slug)
  /\ UNCHANGED <<bank, jobs, req>>

CreateQuestion(r, row) ==
  /\ req[r] = Idle /\ Len(bank) < MaxDrafted
  /\ row.topic \in Range(topics) /\ WellFormed(row)
  /\ bank' = Append(bank, row)
  /\ UNCHANGED <<topics, jobs, req>>

-----------------------------------------------------------------------------
(* update_question                                                            *)

Edited(row, edit) == [c \in DOMAIN row |-> IF edit[c] = Null THEN row[c] ELSE edit[c]]

EditLoadListed(r, i, edit) ==  \* mutant: options that the payload leaves out are not validated
  LET new == Edited(bank[i], edit) IN
  /\ edit.options \in {Null, OptionsOf(0, 0)}
  /\ edit.topic = Null \/ edit.topic \in Range(topics)
  /\ edit.options # Null => WellFormed(new)
  /\ new.status \in AllowedTransitions[bank[i].status]
  /\ Begin(r, [at |-> "edit.save", id |-> i, row |-> bank[i], new |-> new])
  /\ UNCHANGED library

EditLoad(r, i, edit) ==
  LET new == Edited(bank[i], edit) IN
  /\ edit.options \in {Null, OptionsOf(0, 0)}
  /\ edit.topic = Null \/ edit.topic \in Range(topics)
  /\ WellFormed(new)
  /\ new.status \in AllowedTransitions[bank[i].status]
  /\ Begin(r, [at |-> "edit.save", id |-> i, row |-> bank[i], new |-> new])
  /\ UNCHANGED library

\* The options are deleted if the payload says so, and changed columns written.
EditSave(r) ==
  LET x == req[r] IN
  /\ x.at = "edit.save"
  /\ bank' = [bank EXCEPT ![x.id] = Written(@, x.row, x.new)]
  /\ Return(r)
  /\ UNCHANGED <<topics, jobs>>

-----------------------------------------------------------------------------
\* create_ai_generation_job: the provider answers at once.
CreateJob(r, asked) ==
  /\ req[r] = Idle /\ Len(jobs) < MaxJobs
  /\ jobs' = Append(jobs, [topic |-> asked.topic, type |-> asked.type, count |-> asked.count,
                           status |-> "completed"])
  /\ UNCHANGED <<topics, bank, req>>

(* approve_ai_generation_job                                                   *)

\* A payload that lists no index selects all candidates.
Selected(job, indexes) ==
  IF indexes = << >> THEN [k \in 1 .. job.count |-> k] ELSE indexes

RoomInBank(k) ==
  Len(bank) + k + FoldSet(LAMBDA p, n : n + Len(req[p].indexes), 0,
    {p \in Requests : req[p].at \in {"approve.topic", "approve.insert", "approve.save"}})
    <= MaxBank

ApproveLoadReviewed(r, j, indexes, status) ==  \* mutant: a reviewed job is approved again
  /\ Range(Selected(jobs[j], indexes)) \subseteq 1 .. jobs[j].count
  /\ RoomInBank(Len(Selected(jobs[j], indexes)))
  /\ Begin(r, [at |-> "approve.topic", job |-> j, indexes |-> Selected(jobs[j], indexes),
               status |-> status])
  /\ UNCHANGED library

ApproveLoad(r, j, indexes, status) ==
  /\ jobs[j].status = "completed"
  /\ Range(Selected(jobs[j], indexes)) \subseteq 1 .. jobs[j].count
  /\ RoomInBank(Len(Selected(jobs[j], indexes)))
  /\ Begin(r, [at |-> "approve.topic", job |-> j, indexes |-> Selected(jobs[j], indexes),
               status |-> status])
  /\ UNCHANGED library

\* _resolve_ai_approval_topic: a topic named by the payload, or the one of the
\* slug, or a new one.
ApproveTopic(r) ==
  LET x == req[r]  slug == jobs[x.job].topic  IN
  /\ x.at = "approve.topic"
  /\ \/ \E topic \in Range(topics) :
          Continue(r, [at |-> "approve.save", job |-> x.job, indexes |-> x.indexes,
                       status |-> x.status, topic |-> topic, created |-> FALSE])
     \/ /\ slug \notin Range(topics)
        /\ Continue(r, [x EXCEPT !.at = "approve.insert"])
  /\ UNCHANGED library

ApproveInsertFirst(r) ==  \* mutant: a slug that somebody holds is not waited for
  LET x == req[r]  slug == jobs[x.job].topic  IN
  /\ x.at = "approve.insert" /\ slug \notin Range(topics)
  /\ Continue(r, [at |-> "approve.save", job |-> x.job, indexes |-> x.indexes,
                  status |-> x.status, topic |-> slug, created |-> TRUE])
  /\ UNCHANGED library

\* The flush of the new topic waits for whoever holds the slug; one that is
\* taken by then fails the request.
ApproveInsert(r) ==
  LET x == req[r]  slug == jobs[x.job].topic  IN
  /\ x.at = "approve.insert" /\ ~SlugHeld(r, slug)
  /\ \/ slug \in Range(topics) /\ Return(r)
     \/ /\ slug \notin Range(topics)
        /\ Continue(r, [at |-> "approve.save", job |-> x.job, indexes |-> x.indexes,
                        status |-> x.status, topic |-> slug, created |-> TRUE])
  /\ UNCHANGED library

\* _create_question_from_ai_candidate
FromCandidate(x) ==
  [topic |-> x.topic, type |-> jobs[x.job].type, options |-> GeneratedOptions[jobs[x.job].type],
   marks |-> 1, negative |-> 0, status |-> x.status, job |-> x.job]

ApproveSave(r) ==
  LET x == req[r] IN
  /\ x.at = "approve.save"
  /\ topics' = IF x.created THEN Append(topics, x.topic) ELSE topics
  /\ bank' = bank \o [k \in DOMAIN x.indexes |-> FromCandidate(x)]
  /\ jobs' = [jobs EXCEPT ![x.job].status = "approved"]
  /\ Return(r)

-----------------------------------------------------------------------------
BankStep(r) ==
  \/ \E slug \in Slugs : CreateTopic(r, slug)
  \/ \E row \in Drafts : CreateQuestion(r, row)
  \/ \E i \in DOMAIN bank, edit \in Edits : EditLoad(r, i, edit)
  \/ EditSave(r)

JobStep(r) ==
  \/ \E slug \in Slugs : CreateTopic(r, slug)
  \/ \E asked \in JobRequests : CreateJob(r, asked)
  \/ \E j \in DOMAIN jobs, indexes \in Selections \cup {<< >>}, status \in QuestionStatus :
       ApproveLoad(r, j, indexes, status)
  \/ ApproveTopic(r) \/ ApproveInsert(r) \/ ApproveSave(r)

BankProgress(r) == EditSave(r) \/ ApproveTopic(r) \/ ApproveInsert(r) \/ ApproveSave(r)

-----------------------------------------------------------------------------
\* Rows have their columns' types, and a question has a topic that exists.
BankTypeOK ==
  /\ topics \in Seq(QuestionTopic) /\ jobs \in Seq(AIQuestionGenerationJob)
  /\ \A i \in DOMAIN bank : bank[i] \in QuestionRow /\ bank[i].topic \in Range(topics)

\* No slug is given to two topics, although an approval looks for the slug before
\* it inserts one, and none that is held is in the table or held by another.
SlugsUnique ==
  /\ IsInjective(topics)
  /\ \A r \in Requests : req[r].at = "approve.save" /\ req[r].created
       => req[r].topic \notin Range(topics) /\ ~SlugHeld(r, req[r].topic)

\* A question's options fit its type, and its negative marks do not exceed its
\* marks, also after any sequence of updates, each of which is validated against
\* what was loaded.  With two updates of one question in flight this fails.
QuestionsWellFormed == OneAtATime => \A i \in DOMAIN bank : WellFormed(bank[i])

Made(j) == {i \in DOMAIN bank : bank[i].job = j}

\* A job is approved together with its questions, whoever interferes, and with one
\* request at a time its candidates become questions only once: "AI generation job
\* has already been reviewed".
JobsApprovedOnce ==
  /\ [](\A j \in DOMAIN jobs : jobs[j].status = "approved" <=> Made(j) # {})
  /\ [][OneAtATime => \A j \in DOMAIN jobs : Made(j)' # Made(j) => Made(j) = {}]_<<bank, jobs>>
=============================================================================
