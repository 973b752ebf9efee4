# PrepSuite in TLA+

PrepSuite is a multi-tenant backend for coaching institutes: FastAPI handlers over
SQLAlchemy's async ORM and PostgreSQL, one package per app under `src/app/modules`.
This directory holds TLA+ modules of its core logic, TLC runs that check them on small
instances, and TLAPS proofs of the safety properties for instances of any size. Paths below are relative
to `src/`. Every definition that models code has an entry in `PROJECT.json` (`map`) with
the lines it stands for.

## 1. Inventory

### What the components have in common

Every request gets a session of its own (`app/core/database.py`) and runs a service
method: SELECTs, checks on what they returned, assignments, one `flush`, one `commit`.
Four facts about these sessions shape every model:

* **READ COMMITTED and no row locks.** The engine sets no isolation level and no query says
  `FOR UPDATE`. A SELECT sees what is committed when it runs, and nothing keeps it true
  afterwards. A check and the write it allows are several statements apart.
* **`autoflush` and `expire_on_commit` are off.** Nothing is written before the explicit
  `flush`, and an object that was loaded keeps its values; a later SELECT of the same row
  in the same session does not refresh it (identity map).
* **Only changed columns are written.** An UPDATE contains the attributes whose new value
  differs from the *loaded* one. Assigning the value that was loaded writes nothing, so a
  column another request has committed meanwhile survives. Different columns of one row can
  come from different requests.
* **Constraints are the only arbiters.** A violated unique constraint fails the flush and
  the transaction is rolled back. Some handlers turn that into a 409, others do not catch
  it; the database is the same in both cases. A request that inserts a key another
  transaction has inserted and not committed waits for it; PostgreSQL fails one request of
  a cycle of waits.

So the components interact through shared rows, and within one component the handlers of
concurrent requests do too. There are no background tasks and no messages between
components; `EventDispatcher` calls in-process handlers after the commit and none is
registered. The live runtime is an external HTTP service that calls back into PrepLive.
Nothing in memory outlives a request except the login rate limiter, which `TokenFamilies` models, so a
crash between two steps is a transaction that never commits: the same as a request that stops being
scheduled, which every safety run contains, since safety specifications assume no fairness.

### Components

| Component | State | Operations | What makes it correct | Modules |
|---|---|---|---|---|
| **PrepAssess: attempts, grading, results** (`modules/assess`) | assessment status, attempts, answers, evaluations, results | start, answer, submit, evaluate, publish results, schedule, publish | one attempt per student, one answer per question, finalised exactly when complete, a result only for a fully evaluated attempt | `AttemptGrading`, `ResultContract` |
| **PrepAssess: assessments and their window** | status, marks, window, batch | create, update, schedule, publish | who may start an attempt, and when, settles once the assessment is live: only updates accepted before its publication still land | `AssessmentWindow`, the copy of the set in `QuestionSets` |
| **PrepQuestion: sets** (`modules/question`), and `create_assessment` | questions' marks, set items, the set's stored total, the assessment's copy | add, remove, reorder, recalculate, update marks, create assessment | unique questions and positions, a reorder fails only for a cause, total is the sum, the copy is a snapshot | `QuestionSets` |
| **PrepQuestion: bank, topics, AI jobs** | topics, questions, options, generation jobs | create topic, create and update question, create job, approve job | options fit the type, unique slugs, a job is approved once and with its questions | `QuestionBank` |
| **PrepLive** (`modules/live`) | class status, window, capacity, instructor, event log, participants' times, recordings | schedule, update, open, cancel, end, add recording, validate access, attendance events | capacity, one row per person, closed classes stay closed, the log tells the state | `LiveClass` |
| **PrepAttend** (`modules/attend`) | session records, employees' days, corrections | bulk mark, update, check in/out, request/approve/reject corrections, employee summary | one record per student, the first check-in stays, a correction is applied, summaries add up | `Attendance` |
| **PrepStudents: records** (`modules/students`) | students, admission numbers, status history, guardians, notes, documents, enrollments | create, import, update, delete, file | unique numbers, an import reports duplicates and keeps good rows, the history is a chain | `StudentRecords` |
| **PrepStudents: batches** | batch capacity and dates, memberships | create, update, assign, remove | never more active members than places, a stay is on record as a whole | `BatchMembership` |
| **PrepPeople** (`modules/people`) | employees, codes, linked users, status history, profiles, notes, documents, teacher assignments | create, update, file, assign | unique codes and users, the career is a chain | `EmployeeRecords` |
| **Lists read page by page** (seven repositories) | created rows and their order | a client that follows `next_cursor` | a row that is there all the time, and stays in its place, is listed; what is listed twice is a class that moved, or one with the student twice among its participants | `Listings` |
| **PrepLearn: courses** (`modules/learn`) | course status, modules, lessons and their positions, publish history, assigned batches and teachers | update, archive, delete, publish, add module/lesson, move, reorder, assign | unique positions, requirements of publication | `CoursePublishing` |
| **PrepSettings: academic years** (`modules/settings`) | dates and the current flag | create, update | at most one current year | `AcademicYears` |
| **App catalog, subscriptions and toggles** (`modules/tenancy`, `modules/settings`) | catalog entry, tenant app, setting, expiry | upsert, toggle, feature gate | a toggle reaches the gate and leaves the platform's columns alone | `TenantApps` |
| **Tenancy, settings, row level security** (`modules/tenancy`, `core/tenant_context.py`) | tenants, domains, members, settings, branding and rules, the transaction's scope | create tenant, resolve, read (and create) and update settings | a host finds its tenant, an update takes effect though the scope ends with a commit | `TenantRegistry` |
| **PrepAccess: sessions** (`modules/access`) | users, refresh tokens, reset tokens, failed logins | login, refresh, logout, logout of all, reset | token families are chains, what was ended stays ended, a reset token works once, failures are limited | `TokenFamilies` |
| **PrepAccess: accounts** | users, invitations, roles, permissions, grants | register, invite, accept, create role, set permissions, assign | an invitation makes one account, administrators hold the catalog | `AccessAccounts` |
| **Database sessions** (`core/database.py`) | requests in flight | one step per SELECT, one per commit | | `RequestSlots` |
| Live runtime client, event dispatcher, gates, permissions, cache, worker, HTTP layer, migrations, seed script, reserved packages | none of their own | | | not modelled (section 9) |

The behaviours that are hard to test are the same everywhere: a check on a row that was
loaded earlier; a count before an insert; two columns validated against each other with one
of them stale; one transaction that misses another's uncommitted write (write skew); waits
and cycles of waits on unique keys; a client's retry that overlaps its first call.
`PROJECT.json` (`hazards`) lists each place where one bites, with the properties that watch
it and, where the code keeps less than one would wish, a note on what holds and what does not.

## 2. Conventions of the models

`RequestSlots` holds the request scheduler. `Requests` is a set of slots; `req[r]` is `Idle` or
a record with the label `at` of the next step and *the values the request has loaded*.

* One action per SELECT whose answer is used later, and one for flush and commit together.
  A SELECT whose answer is used at once (a permission, a row that must exist) belongs to the
  action before it. Where a handler flushes and then goes on (adding a set item, reorders, bulk marks,
  imports, `clear_current`), the flush is an action of its own, or one action for every row it writes if it may
  wait between them, and the rows and unique keys it has written are *held* until the commit, so that
  others wait for them.
* A handler that refuses at its first SELECT changes nothing and is not enabled; one that
  refuses later returns to `Idle` with the database unchanged.
* `Flushed(current, loaded, new)` is the column after a flush: `current` if `new = loaded`.
* `Written(current, loaded, new)` is that for all columns of a row.
* A table is a function whose domain is its rows' keys: `WithRow` inserts a key unless it is there, so that a unique constraint keeps
  the row that is there and the request rolls back; `Updated` gives some rows new values.
* Slots make the question precise. `InitRequests` chooses how many of them the behaviour uses; the
  others are `Unused`. With **one slot** (`OneAtATime`) nothing runs between a handler's check and its
  write. With **two slots** every interleaving of the SELECTs and commits of two requests is
  explored, with any number of further requests before and after. One run contains both kinds of behaviour.
* A property without the premise `OneAtATime` survives any interleaving although there are no locks. A
  property with that premise is a rule of the handlers taken one at a time: it says that each handler
  enforces its own rule, and it is *false* without the premise, as TLC shows by a schedule listed in
  section 4. Where a property has several named parts, the comments say which carry the premise.
* Components of one area are composed by `EXTENDS`, the composing module having `<Area>Init`, `<Area>Next`
  and one specification over all their variables, and all share the request slots. A variable `served`, chosen
  at first and never changed, says **which group of rows a behaviour is about**. This is a reduction and not a
  restriction of the code: no handler of one group decides on a column that another group changes, so a behaviour
  with both is an interleaving of two behaviours with one each, as far as any property can tell. Where two groups
  are about the same rows (the positions and the marks of a set's items, accounts and their tokens), each leaves
  out the columns that decide nothing for it. The header of each composing module lists its groups and gives
  the reason. What does depend on each other is in one group: topics and the jobs that create them, memberships and the
  deletion of students, the toggle of an app and the platform's offers.

`MC<Name>` extends the module a run checks with model values, symmetry sets and constant functions.
Definitions commented `mutant` are not used by the specifications: each is a plausible bug of
the definition after it, and shows that the property named in `PROJECT.json` can fail.

## 3. Modules

**AttemptGrading** (core). `attempts[s]`, `answers[s][q]`, `results[s]` are rows (`status`, `score`);
`evaluations[s]` is the sequence of totals of `assessment_evaluations` rows. The life of an attempt:
`Start*` (start_attempt), `Answer*` (submit_answer), `Submit*` (submit_attempt), `Evaluate*`
(evaluate_answer), `Results*` (publish_results), `Schedule*` and `Publish*`. `Finalize` is
`_finalize_attempt`: attempt, evaluation row and result in one flush, or nothing if the result's
unique constraint fails. `RowsSeen` is the identity map: the evaluator's own score is in the
answers it sums up. Whether an objective answer is correct is a nondeterministic Boolean; scores are
integers in place of `Numeric(8,2)`, whose sums are exact.

**ResultContract** is the abstract specification of results: a student gets a result only with the
last answer evaluated, it is drafted once, and once published is never a draft again.
`AttemptGrading` implements it under the mapping `evaluated <- {s : AllEvaluated(answers[s])}`,
`result <- [s |-> results[s].status]`.

**From the bank to the assessment**: `QuestionSets` <- `QuestionBank` <- `AssessmentWindow` <- `QuestionAuthoring`
(each arrow an `EXTENDS`).

* *QuestionSets* composes PrepQuestion's set with PrepAssess' `create_assessment`, which reads it.
  Items are rows by id with question, position and override; `total` is the stored total; `paper`
  is the assessment created last. Adding and removing flush first and recalculate afterwards:
  between the two the item holds its keys. A reorder loads its items one by one, moves them to `Aside + k`
  (100000 + k in the code) in one flush and to their places in a second. A flush writes the rows whose position differs from
  the one the session knows, in the order of their primary keys; each write waits for whoever holds the row or
  the position, and fails the request, with an error nothing catches, if the position is taken. The rows written, and their
  old and new positions, are held to the commit, so that two reorders may wait for each other: `ReorderAbort`
  is PostgreSQL ending one of them. Primary keys are random UUIDs; in the model they grow with the inserts, and a payload names the
  items in any order. `Seen(r)` are the rows as request `r` sees them: the committed ones under its own.
  Difficulty and topic distributions are recalculated with the total and left out.
* *QuestionBank*. A question's options are how many there are and how many are correct; an update validates the columns
  of the payload against those that were loaded. An approval that makes its topic holds the slug from the flush to
  the commit. An update whose payload lists options never succeeds: `model_dump` makes dicts of them and the validation
  reads attributes of them.
* *AssessmentWindow*. `Admitted` is the set of times and students for which `start_attempt` passes: the status, the
  window and the batch. `update_assessment` compares the two ends of the window only if one payload has both;
  `schedule_assessment` asks nothing of the status it loads. `update_assessment` refuses a live assessment, but what it
  checked is the row it loaded: an update accepted before the publication and written after it does change a live
  assessment. `LiveWindowSettles` says that nothing else does, that no request joins those after the
  publication, and that publishing again takes nothing back of what they wrote, however all of them interleave.

**Sessions**: `Attendance` <- `LiveClass` <- `ClassSessions`.

* *Attendance*. One session, an employee's days, and the correction requests that refer to both. Bulk
  marks find and insert a record per student in the payload's order, which is any order. `Times` are instants and
  `Zones` the offsets of payloads: the date of a check-in is the instant's in its own offset, `DayLength` to a day.
  `EmployeeSummary` is what the summary computes from the records of a range of dates, in hundredths of a percent.
* *LiveClass*. `participants` are rows; the field `who` is the set of people `find_identity` matches
  to the row, since a row has a user id and an employee id and can stand for two people. `now` is
  the clock that stamps times; `log` has the class' events and `trail` those of participants. `Entitled` stands for the
  course, batch and teacher checks.

**People and lists**: `StudentRecords` <- `EmployeeRecords`; `PeopleDirectory` extends it and `Listings`.

* *StudentRecords*. An import looks each number up and inserts it with a flush, so
  the numbers it has `created` are held until the commit. A new student, imported or not, has any status, which its
  first entry of history repeats.
* *EmployeeRecords*. An update that changes the status flushes before it looks the profile up; codes and linked users
  are unique columns. Employees are never deleted.
* *Listings*. A behaviour is about one of the seven lists. A client asks for pages, each with the last row's creation time and id as
  cursor, while rows are inserted, changed and deleted. The rows' creation time is their transaction's begin, so a row may
  appear *behind* the cursor. Live classes are listed by `starts_at` instead, which `update_class` changes: `ClassMoved` takes a
  class to another place in the order, before the cursor or behind it. Their filter by student joins the participants: a
  query finds a class `matches` times, at most `Joins[id]`, since nothing keeps a student from being a participant twice.
  `Complete` says that the client got the rows that matched, and stayed where they were, from the first page to the last, and each row
  once, except that a class that moved, or that the student is a participant of twice, may be repeated.

**Courses and batches**: `CoursePublishing` <- `BatchMembership` <- `CourseDelivery`.

* *CoursePublishing*. `_assert_publishable` looks at one module after another. A reorder, of modules or of a module's lessons,
  moves rows to `Aside + k` (100000 + k in the code) and then to their places, each in the order of
  primary keys, as the unit of work emits the UPDATEs; a collision on the way fails the request. A lesson created at a
  taken position fails in a flush outside the handler's `try`: the answer is not a 409 there, the database is the same.
* *BatchMembership* has the count and the insert of an assignment apart, as the code has, and the deletion of a
  student in between.

**Settings and tenancy**: `AcademicYears` <- `TenantApps` <- `TenantRegistry`.

* *AcademicYears*. `clear_current` is an UPDATE: it picks its rows when it starts and then locks one after the other, in
  any order, waiting for each that another request has written. It holds them until the commit, a row that is no longer
  current when its turn comes too.
* *TenantApps*. The platform writes subscriptions (`upsert_tenant_app`), a tenant's administrators toggle the app;
  `AppEnabled` is the feature gate in front of every app's routes, with the clock it reads.
* *TenantRegistry*. `app.current_tenant_id` is local to a transaction. Reading settings that are not there inserts
  and commits them; what the same request does next has to set the scope again, or sees no row and changes none.

**Access**: `TokenFamilies` <- `AccessAccounts`.

* *TokenFamilies*. `tokens[i]` has its family, parent and replacement. A password is the number of its changes, so that
  "the same password" needs no characters. `failures` is the process-wide limiter of `login`, checked before the first SELECT
  and counted after the last. A login and a refresh of a suspended user are refused.
* *AccessAccounts*. Registration deletes and rewrites the administrator role's bindings, after creating the role if it
  is not there; one whose DELETE waited for another registration repeats the bindings that the other inserted and is
  refused by their unique constraint (`RegisterRefused`). `PermissionCodes` is what the permission check of a user computes.

## 4. Runs

Passing runs: TLC explores the whole state space of the instance and the properties hold. "Alone" marks
the properties whose premise is `OneAtATime`.

| Run | Under any interleaving | Alone |
|---|---|---|
| `AttemptGrading` | conclusions drawn from earlier SELECTs hold at the commit (`ConclusionsHold`); results only for complete attempts; scores on record and within the marks; answers written once; `ResultContract` implemented | the final score is the total of the answers |
| `AttemptGrading_cohort` (one slot, two students) | | a fully answered, submitted attempt is evaluated in the end, whichever of submission and evaluation comes last |
| `Authoring` | questions, positions and topic slugs unique, in the rows that any request sees, a reorder between its two flushes too (`AuthoringUnique`); a reorder fails only for a cause (`ReordersFailForCause`); a job is approved together with its questions (in `BankKept`); a live assessment's admission settles (`LiveWindowSettles`); no waits stop the system, where reorders that wait in a circle are the only ones PostgreSQL has to abort | totals and papers add up (`TotalsAddUp`); a question's options fit its type, a job is approved once (`BankKept`) |
| `Sessions` | one record per student and session (`SessionsUnique`); the log tells the class's status and who was present; check-out not before check-in, the first check-in stays, summaries add up | one row per person, capacity at admission (the group of participants runs with one slot throughout); window kept, closed classes stay closed; an approved correction is in its target |
| `People` | numbers, codes and linked users unique, rows of running imports included; histories end at the status; pages in the default order lose and repeat nothing but classes that are moved or that have a participant twice; every request is answered | histories without gaps; an import of fresh numbers creates or reports every row |
| `Delivery` | positions unique; a published course has content; a stay in a batch is on record as a whole (`StayConsistent`) | `published_at` follows the status; a reorder without collisions succeeds; batch capacity and dates held |
| `Tenancy` | hosts find their tenant; only the platform writes the subscription; every request is answered | at most one current year; toggles and settings take effect (`UpdatesTakeEffect`) |
| `Access` | failed logins stay near the limit (`FailuresBounded`, in `KeptOut`); an invitation makes one account (in `TicketsUsedOnce`); administrators hold the catalog | token families are chains, an ended family stays ended, a reset token works once |

**Violation runs** each check one statement that a doc of the repository makes and the code does not keep;
`findings` in `PROJECT.json` quotes it.

| Run | What happens |
|---|---|
| `AttemptGrading_stranded` | write skew: two evaluators, or a submission and an evaluation, each miss the other's work, and nobody finalises the complete attempt |
| `AttemptGrading_regrade` | one request at a time: a score entered after the evaluation does not reach the result |
| `StudentRecords_reimport` | one request at a time: a deleted student's number aborts a whole import |
| `Listings_sorted` | no row changes at all: a list sorted by name, read with cursors of creation times, loses rows |

**Why the premise is needed.** Dropping `OneAtATime` from a property (or giving participants two slots), TLC
finds these schedules of two requests:

| Property | Schedule |
|---|---|
| `FinalScoreIsTotal` | an evaluator changes a score between another's SELECT of the answers and its finalisation |
| `RecalculatedWithItems` | two items added at once: each total misses the other's item |
| `PaperAddsUp` | create_assessment loads the total, an item is added, it loads the items |
| `AdmittedWithinCapacity` | two joins for the last place |
| `OneRowPerPerson` | two joins of one person: no unique constraint backs the lookup |
| `HistoryIsChain` | two status changes record the same `from_status` |
| `ImportOfFreshNumbers` | a number is committed between an import's lookup and its insert |
| `CapacityHeld` | two assignments to the last place |
| `ReorderPlacesAll` | a module is moved, to a place that the reorder then needs, after the reorder has loaded the modules |
| `CareersAreChains` | as `HistoryIsChain`, for employees |
| `ApprovedApplied` | a mark commits during an approval that, finding its value already there, writes nothing |
| `StampFollowsStatus` | a course redrafted while it is being published |
| `OneCurrent` | two years made current at once |
| `DatesHeld`, `WindowKept`, `QuestionsWellFormed` | two updates change one column each, and each is checked against the other's old value |
| `JobsApprovedOnce` | two approvals load the job as reviewable: its questions are made twice |
| `FamiliesAreChains`, `EndedFamiliesStayEnded` | two refreshes of one token: a family forks; a refresh that loaded its token before the family was revoked |
| `ResetsUsedOnce` | two requests with one reset token |
| `ClosedStaysClosed` | a cancellation between the SELECT and the commit of an opening |
| `UpdatesTakeEffect` | an app is enabled while the platform withdraws it from the catalog; an update of settings that sets the loaded value writes nothing, though another request has changed it meanwhile (with `Values` {0, 1}) |

Checks that are one guard of one handler (an answer only while the attempt is open, a course that is archived is not
published, a correction is reviewed while pending) hold by that guard with one request in flight and fail with two.
They are in the models as guards and are not stated as properties; `hazards` names them.

The single-request limits of the code that the properties' premises name: `FullAttemptEvaluated` speaks of
attempts in which every question has an answer (an attempt with a skipped question is never finalised);
`PaperAddsUp` of sets whose total was right when copied (changing a question's marks does not touch the
total of its sets); `ReorderPlacesAll` of courses without a module in the range that is used to
move rows aside; `ImportOfFreshNumbers` of imports without a deleted student's number. `ReordersFailForCause`, which has no
premise, lists all that a reorder of a set's items may fail for: a circle of waits, an item that is gone, a position named twice or
belonging to an item that the payload leaves out, and a position in the range that is used to move items aside.

## 5. Bounds

Every bound is a constant of its module, commented `bound`, and only a guard of a request that begins
(or of a clock tick); none cuts a request off half-way.

* **Slots**: 1 or 2. Each hazard is an overlap of two requests; a third adds no new kind of
  interference with a commit, and the proofs (section 7) hold for any number.
* **AttemptGrading**: 1 student and 2 questions (one objective with negative marks, one subjective), 2
  students with one slot where results of several students and liveness matter; `Points` {0, 1, 3} has
  zero, the full marks, and one above the marks of q2 that must be refused; `MaxEvaluations` bounds evaluation
  rows when a finalising request begins: 2 is the least that allows a second finalisation, 1 suffices where
  none is needed.
* **Authoring**: two questions worth 1 and 3 whose marks may become 2, overrides of 2; 2 item ids (both questions in
  the set, or one removed and added again); positions 1 and 2 asked for, or the next one taken, with `Aside` = 2 in place of 100000, so
  that the next position after 2 is where a reorder moves its first item; reorders of one item, or of two in either order,
  to any positions asked for. A bank of up to 3
  questions, one created by hand and two from jobs; drafts with one, two and no correct options and one that is
  refused; updates of one column each; 2 jobs and 2 slugs, so that two approvals may want the same topic. Times 0 and
  1: a window that is open, empty at one of them, or without an end.
* **Sessions**: teacher, another teacher, the scheduler, two students; capacity 2 or 3; the clock 0..2 with joining
  allowed up to 1; one reported total; 3 rows. A session created open, submitted or locked (draft is treated as open,
  cancelled as locked); two students, bulk marks for both in either order and for one of them, two marks, times 1 and
  2 in offsets 0 and 1 with 2 units of time to a day, so that one shift may lie in two dates; two statuses of the day, one
  correction request. Corrections are independent but for their target.
* **People**: 2 numbers; two statuses, which new students may have; imports of both in both orders, and of one twice; 4 students in all; up to 2
  entries of history when a change begins; 1 row filed. 2 employees over 2 codes and one user. Lists of up to 3 rows,
  pages of 1 and 2 rows, two creation times, so that ties and rows that appear behind the cursor occur; classes that
  move between these times, one of which the student may be a participant of twice.
* **Delivery**: two modules, two lessons, positions 1 and 2, `Aside` = 2 in place of 100000, so that a row appended
  after position 2 lies in the range used to move rows aside; 2 publications. A batch with capacities 1 and 2 or none,
  3 students, two dates, clock 0..1.
* **Tenancy**: three years, so that two rows are to be cleared, in either order; updates that set a later start or the flag alone,
  to true or to false. One app with a trial that ends and a locked subscription, the clock 0..1. Two
  tenants with two slugs, one domain, one user and one host, which is the domain of one and the subdomain of another; a row of
  settings begins with its default and is updated to one other value;
  `UpdatesTakeEffectCorrect` is for any set of values.
* **Access**: two users, the second of them suspended in the behaviours about sessions; a limit of 1 failure; 4 tokens, the two users'
  first ones among them (two refreshes or logins, and so a fork or a second family); 1 reset token. 2 invitations, 3 grants, a catalog of two permissions and a custom role with one.

Symmetry is used over students or slots in runs of invariants and of action properties only,
never in a run with fairness. `CHECK_DEADLOCK FALSE` stands where the system may stop, with the reason
above it in the cfg: everything deleted, closed, or at its bound.

## 6. Fairness

* Weak fairness of a request's steps (`WF_vars(RequestStep(r))`): the event loop resumes a coroutine
  whose statement has returned, and a statement returns.
* Strong fairness of a request's steps where it may have to wait for a key or a row (`DirectorySpec` and
  `TenancySpec`, the runs `People` and `Tenancy`): the wait is enabled and disabled as holders come and go, and
  PostgreSQL queues waiters and wakes them when the holder ends. Cycles are broken by its deadlock
  detector, modelled as an action of a request that is in a cycle.
* Strong fairness of `GradeFromQueue(s, q)` in `AttemptGrading_cohort`: evaluators work through
  `evaluation_queue`, which lists pending answers. This is an assumption about people, stated for a
  pending answer only: nobody is assumed to regrade, submit, or publish anything.

No request is ever assumed to begin otherwise. The other runs assume no fairness. In `QuestionAuthoring`
requests wait for rows and keys too. Circles of reorders are broken by `ReorderAbort`; TLC's deadlock check
shows that no other set of waits stops the system.

## 7. Proofs

TLAPS proves **every property that a passing run checks, except the liveness properties**, for every
value of the constants that satisfies the assumptions below: any students, questions, codes, times
and capacities, every bound of section 5 whatever it is, and **any finite number of request slots**.
Each area has a module of proofs that extends its composing module:

| Module | Theorem | Property | Inductive invariants |
|---|---|---|---|
| `AttemptGradingProofs` | `TypeCorrect` | `TypeOK` | `Inv` |
| | `ConclusionsCorrect` | `ConclusionsHold` | `Inv` with `StepAdvances` |
| | `ResultsCompleteCorrect`, `EvaluatedHasResultCorrect` | `ResultsComplete`, `EvaluatedHasResult` | `Inv` |
| | `ScoresSoundCorrect` (from `ScoresOnRecordCorrect`, `ScoresWithinMarksCorrect`) | `ScoresSound` | `Inv` |
| | `AnswerWriteOnceCorrect` | `AnswerWriteOnce` | `Inv` |
| | `PublishedHasResultCorrect` | `PublishedHasResult`, which no run lists | `Inv` |
| | `ContractImplemented` | `ImplementsContract` (refinement) | `Inv` |
| | `FinalScoreCorrect` | `FinalScoreIsTotal` | `Inv`, `AloneInv` |
| `AuthoringProofs` | `AuthoringTypeCorrect` | `AuthoringTypeOK` | `SetInv`, `LibraryInv`, `WindowInv` |
| | `AuthoringUniqueCorrect` (from `KeysUniqueCorrect`, `SlugsUniqueCorrect`) | `AuthoringUnique` | `KeysInv`, `SlugsApart` |
| | `BankKeptCorrect` (from `QuestionsWellFormedCorrect`, `JobsApprovedOnceCorrect`) | `BankKept` | `BankSound`, `JobsSound` |
| | `ReordersFailForCauseCorrect` | `ReordersFailForCause` | `SetInv` (`KeysInv`, `ReordersInv`) |
| | `LiveWindowSettlesCorrect` | `LiveWindowSettles` | `WindowInv` |
| | `TotalsAddUpCorrect` | `TotalsAddUp` | `SetInv`, `TotalsInv` |
| `SessionsProofs` | `SessionsTypeCorrect` | `SessionsTypeOK` | `LiveInv`, `AttendInv` |
| | `SessionsUniqueCorrect` | `SessionsUnique` | `LiveInv`, `AttendInv` |
| | `ClassIsLoggedCorrect` | `ClassIsLogged` | `LiveInv`, `WindowInv` |
| | `AdmittedCorrect` | `AdmittedWithinCapacity` | `LiveInv` |
| | `RecordsKeptCorrect` | `RecordsKept` | `AttendInv`, `DatedInv`, `ApprovalInv` |
| `PeopleProofs` | `DirectoryTypeCorrect` | `DirectoryTypeOK` | `PeopleInv`, `ListingsInv` |
| | `PeopleUniqueCorrect` | `PeopleUnique` | `PeopleInv` |
| | `HistoriesAreChainsCorrect` | `HistoriesAreChains` | `PeopleInv`, `ChainInv` |
| | `ImportOfFreshNumbersCorrect` | `ImportOfFreshNumbers` | `PeopleInv`, `ChainInv` |
| | `DefaultListsCompleteCorrect` | `DefaultListsComplete` | `ListingsInv` |
| `DeliveryProofs` | `DeliveryTypeCorrect` | `DeliveryTypeOK` | `CourseInv`, `BatchInv` |
| | `BatchKeptCorrect` | `BatchKept` | `BatchInv`, `RulesInv` |
| | `OutlineKeptCorrect` | `OutlineKept` | `CourseInv`, `StampInv` |
| `TenancyProofs` | `TenancyTypeCorrect` | `TenancyTypeOK` | `TenancyInv` |
| | `HostsFindTheirTenantCorrect` | `HostsFindTheirTenant` | `TenancyInv` |
| | `OneCurrentCorrect` | `OneCurrent` | `CurrentInv` |
| | `SubscriptionIsPlatformsCorrect` | `SubscriptionIsPlatforms` | `TenancyInv` |
| | `UpdatesTakeEffectCorrect` | `UpdatesTakeEffect` | `TenancyInv`, `CurrentInv` |
| `AccessProofs` | `AccessTypeCorrect` | `TypeOK` | `AccessInv` |
| | `AdministratorsCorrect` | `AdministratorsHoldCatalog` | `AccessInv` |
| | `FamiliesAreChainsCorrect` | `FamiliesAreChains` | `AccessInv`, `ChainInv` |
| | `TicketsUsedOnceCorrect` | `TicketsUsedOnce` | `AccessInv`, `ChainInv` |
| | `KeptOutCorrect` | `KeptOut` | `LoginInv`, `ChainInv` |

`ProofLemmas` has what several of them need, for every request table: what a step of one slot leaves alone
(`OnlySlot`, `OneSlot`), rows appended and changed, greatest and least numbers, and sums.

### The argument

No property about a committed row is inductive: a handler commits on the strength of rows it loaded
some SELECTs earlier, so the induction has to know what the requests in flight carry. The invariants say it in
one of three ways.

**What was loaded may be stale, but something of it still holds** (any number of requests). Each
area has an operator on a request record `x`, with one conjunct per label: `Concluded(x)`, `AccessCarries(x)`,
`LibraryCarries(x)`, `BatchCarries(x)` and so on. It says that `x` refers to rows that are there, that the values have
their types, and whatever else survives. It survives the steps of *other* requests because of an order on the
database that every step goes up in, and which is one lemma per area: rows are inserted and not deleted, an
evaluated answer does not become pending, a result does not disappear, a token keeps its family. So the interference of any number of
requests is one lemma, and each action remains to be shown correct for the request that takes it.

* `Inv` (grading). The interesting invariant is `ResultsComplete`. `_finalize_attempt` relies on answers that were
  loaded two SELECTs earlier. `Concluded(x)` says: at `submit.result` and `submit.finalize` all answers are
  evaluated; at `evaluate.result` and `evaluate.finalize` all but the evaluator's own are; an answer that was loaded
  as evaluated still is; a result that was loaded exists; rows about to be published exist. `StepAdvances`
  is the order. `ScoresWithinMarks` needs the clause on pending answers too, because of the ORM's
  column-wise flush: an evaluator that loaded a pending answer writes both columns, and one that loaded an
  evaluated answer may write one, but the other then already belongs to an evaluated answer.
* `CourseInv`. `PublishedHasContent` holds although modules and lessons are loaded one at a time while others are moved:
  nothing deletes a module or a lesson, and the lessons a publication has found stay in their course.
* `BatchInv`. `StayConsistent` needs that the row a removal loaded was an active membership: it then writes
  both the status and the date, and an assignment that revives a membership writes both back.
* `AccessInv`. `AdministratorsHoldCatalog`: a registration that rewrites the role's bindings in its own transaction
  leaves the catalog again. `LoginInv` counts the attempts that have passed the limiter and are not yet counted as failures:
  together with the failures they are fewer than the limit plus the slots.
* `WindowInv` (assessments). `LiveWindowSettles` rests on columns as well: a request that loaded the live row writes nothing, if it
  publishes again, or a status that is not live, if it schedules.
* `TenancyInv`. `SubscriptionIsPlatforms` rests on columns: a toggle's payload has no column of the platform's, so the flush
  writes none, whatever row was loaded.

**What is inserted and not committed is held** (any number of requests). `KeysInv`, `SlugsApart`, `AttendInv` and `PeopleInv`
say that the keys of uncommitted rows differ from the committed ones and from each other's. The wait of an insert for the holder
of its key is exactly what keeps that; without it the uniqueness of the rows would be the unique index's only. In a question set
the rows a reorder has moved are held too: what each request sees is unique at every write of its two flushes, and
rows that two requests have written differ in row, question and position. `ReordersInv` adds what a reorder has loaded and what it
still has to write: after the first flush its items are all aside, so that a position it finds taken belongs to an item
it does not name, unless it names a position twice.

**What a lone request has loaded is what the tables hold** (premise `OneAtATime`). `AloneInv`, `BankSound`, `TotalsInv`, `RulesInv`,
`StampInv`, `ChainInv`, `CurrentInv`, `ApprovalInv`, and `WindowInv` of the sessions have this form: `OneAtATime => ... \A r : ...Current(req[r])`.
By `OneSlot` the premise holds before a step if it holds after it, and then the slot that moves is the only one in use. What a
handler checks is then true of the rows it writes. In `Sessions` the group `people` begins with one slot, which is why
`LiveInv` has that as a conjunct and uniqueness of participants and capacity have no premise.

Two properties have invariants of another kind. `DefaultListsComplete`: `Stands(walk, steady, moved)` of `ListingsInv` says of a client
in the middle of a list that what it has got is distinct but for classes that moved, that what it has got and did not move is not beyond the cursor, and
that a row that matched and stayed all the time has been got or is beyond
the cursor in the order of the list; a row that appears meanwhile is not owed, and a class that moved may be anywhere. `OutAfterIn` and `SummariesAddUp` rest on `DatedInv`:
both moments of a day fall on its date in the offset that counted, so that a day's work is shorter than a day and
the widest offset. The proof showed a limit of the summary: the percentage is
rounded to hundredths, so with 10000 records of which one is a half day it is 100.00 though one day was not full.
`SummariesAddUp` therefore states that equivalence for fewer records.

`ContractImplemented` maps the initial states of `AttemptGrading` to `ResultContract!Init` and every step to
`CompleteAnswers`, `RecordResult`, `PublishResults` or a stutter, with the invariant `Inv`.

**Without induction.** The provers cannot use the library's induction theorems. Sums (totals of answers, of sets and of papers, minutes
of work) are recursive functions of the library over sets; `SumsAgree`, `SumInNat`, `SumBounded` and `Greatest` reason about a
smallest set that would refute the claim. `Total` is left uninterpreted in `FinalScoreCorrect`: it matters there
that it is taken of the answers as committed. A page is a sorted arrangement of its rows by `CHOOSE` (`PageOf`), whose existence
`PeopleProofs` shows in the same way.

### Assumptions

The only premises are the `ASSUME`s of the modules, which TLC evaluates in every run. They say what a constant is, and hold of any deployment:

* `RequestsAssumption`: finitely many requests are in flight.
* `Null` is none of the values of a nullable column (`YearsAssumption`, `AppsAssumption`, `RegistryAssumption`, `TokensAssumption`,
  `AccountsAssumption`, `EmployeesAssumption`, `RecordsAssumption`, `AttendanceAssumption`).
* Marks, times, positions, capacities, lengths and bounds are natural numbers, capacities, limits and page sizes positive
  (`GradingAssumption`, `SetsAssumption`, `BankAssumption`, `WindowAssumption`, `LiveAssumption`, `CourseAssumption`, `MembershipAssumption`,
  `ListingsAssumption`). These are checks of the schemas or of the columns.
* Sets a handler loops over, or that are counted, are finite: students of a session or a batch, statuses of a day, offsets, modules, lessons.
* Payloads and rows of the first state have the types of their schemas: drafts and edits of questions, imports, offers, hired
  employees, registered users, the first outline of a course, whose positions are unique (`DeliveryAssumption`).
* Attendance records of students and days of employees are rows of different tables (`Students \cap Dates = {}`), so that a
  correction's target tells which it is of.

### What stays with TLC

* **Liveness**: `FullAttemptEvaluated` (`AttemptGrading_cohort`) and `EveryRequestReturns` (`People`, `Tenancy`). Fairness
  is ENABLED, which the prover does not handle; that an import ends is besides an induction over its length.
* **No deadlock** among waits, a statement about ENABLED as well.
* **The violation runs**: a counterexample needs a trace, not a proof.

## 8. Plan

Modelled and checked: every component with state of its own. Proved: every safety and action property the runs check.
What is left, the most useful first:

1. Abstract specifications beside `ResultContract`: a membership table whose rows are stays (implemented by `BatchMembership` with
   one slot), a set whose total is a function of its items (implemented by `QuestionSets` with one slot). Their refinements
   follow from `RulesInv` and `TotalsInv`.
2. That a wait is always for a request that can go on, as an invariant on who holds what: the safety part of `EveryRequestReturns`.
3. What is true of each schedule of section 4's second table with any number of slots, for instance by how many places a batch may be overbooked.

## 9. Not modelled, and why

* **Rows of other tenants.** Every model but `TenantRegistry` is of one tenant: each query filters by tenant id and
  PostgreSQL's policies do so again.
* **Permissions and feature gates** run before a handler. A request of the models is one that passed. (What the gate
  answers is `AppEnabled` in `TenantApps`, and what a user may do `PermissionCodes` in `AccessAccounts`.)
* **Payload validation** by Pydantic schemas: inputs they refuse are not inputs of the models.
* **Events and audit rows** are written after or with the commit and read by nothing that is modelled; so are login
  history and last-login times.
* **Hashing, JWT encoding, HTTP routing, the live runtime client, cache, worker, migrations and
  the seed script**: library calls, pure I/O or DDL. The constraints the migrations create are in
  the models as the unique keys of tables, and their policies as the scope in `TenantRegistry`.
* **What only reads**: profiles, timelines, workloads, the evaluation queue and analytics of assessments, summaries of
  the settings, the students' attendance summary, which counts statuses.
* **Rows nothing decides on**: lesson resources, departments, tags, comments and submissions no operation writes,
  difficulty and topic distributions. They are inserted, at most under a unique code, and listed.
