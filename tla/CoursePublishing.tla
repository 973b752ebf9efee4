--------------------------- MODULE CoursePublishing ---------------------------
(***************************************************************************)
(* PrepLearn (app/modules/learn/service.py): the status of one course, its    *)
(* modules and lessons with their positions, its publication, and the batches  *)
(* and teachers it is assigned to.  Nothing deletes a module or a lesson.       *)
(***************************************************************************)
EXTENDS Integers, Sequences, FiniteSets, FiniteSetsExt, Functions, TLC, RequestSlots

CONSTANTS
  Modules,          \* ids, in the order of the primary key
  Lessons,          \* ids, in the order of the primary key
  Positions,        \* order indexes in payloads
  Assignees,        \* batches and teachers that exist
  Aside,            \* reorder_course moves modules to the positions after it
  MaxPublications,  \* bound: entries of the publish history
  Null

ASSUME CourseAssumption ==
  /\ Modules \subseteq Nat \ {0} /\ IsFiniteSet(Modules)
  /\ Lessons \subseteq Nat \ {0} /\ IsFiniteSet(Lessons)
  /\ Positions \subseteq Nat /\ Aside \in Nat /\ MaxPublications \in Nat
  /\ Null \notin Nat

VARIABLES
  course,    \* status, whether published_at is set, whether it is deleted
  order,     \* order[m]: position of module m, for every module there is
  lessons,   \* lessons[l]: module and position of lesson l
  assigned,  \* course_batches and course_teachers; nothing makes one inactive
  history    \* previous status of every publication

learn == <<course, order, lessons, assigned, history>>

Taught == {lessons[l][1] : l \in DOMAIN lessons}   \* modules that have a lesson

Statuses == {"draft", "published", "archived"}
Course   == [status : Statuses, stamped : BOOLEAN, deleted : BOOLEAN]

-----------------------------------------------------------------------------
\* A draft course with some modules at first: create_course makes one with none.
CourseInit(modules) ==
  /\ course = [status |-> "draft", stamped |-> FALSE, deleted |-> FALSE]
  /\ order = modules /\ lessons = << >> /\ assigned = {} /\ history = << >>

(* update_course with a status, archive_course and delete_course.             *)

AskedStatus(row, status) == [row EXCEPT !.status = status]  \* mutant: published_at is kept

Asked(row, status) ==
  IF status = "draft" THEN [row EXCEPT !.status = "draft", !.stamped = FALSE]
  ELSE [row EXCEPT !.status = status]

SetLoad(r, new) ==
  /\ ~course.deleted
  /\ Begin(r, [at |-> "course.save", row |-> course, new |-> new])
  /\ UNCHANGED learn

UpdateCourse(r, status) == status # "published" /\ SetLoad(r, Asked(course, status))
ArchiveCourse(r)        == SetLoad(r, [course EXCEPT !.status = "archived"])
DeleteCourse(r)         == SetLoad(r, [course EXCEPT !.deleted = TRUE])

CourseSave(r) ==
  /\ req[r].at = "course.save"
  /\ course' = Written(course, req[r].row, req[r].new)
  /\ Return(r)
  /\ UNCHANGED <<order, lessons, assigned, history>>

-----------------------------------------------------------------------------
(* publish_course: the course, its modules, then each module's lessons.       *)

PublishableAny(status) == TRUE  \* mutant: archived courses too

Publishable(status) == status # "archived"

PublishLoad(r) ==
  /\ ~course.deleted /\ Publishable(course.status)
  /\ Len(history) < MaxPublications
  /\ Begin(r, [at |-> "publish.modules", row |-> course])
  /\ UNCHANGED learn

PublishModulesAny(r) ==  \* mutant: a course without modules is published
  LET x == req[r] IN
  /\ x.at = "publish.modules"
  /\ Continue(r, [at |-> "publish.lessons", row |-> x.row, unchecked |-> DOMAIN order])
  /\ UNCHANGED learn

PublishModules(r) ==
  LET x == req[r] IN
  /\ x.at = "publish.modules"
  /\ \/ order = << >> /\ Return(r)
     \/ /\ order # << >>
        /\ Continue(r, [at |-> "publish.lessons", row |-> x.row, unchecked |-> DOMAIN order])
  /\ UNCHANGED learn

PublishLessons(r, m) ==
  LET x == req[r] IN
  /\ x.at = "publish.lessons" /\ m \in x.unchecked
  /\ \/ m \notin Taught /\ Return(r)
     \/ m \in Taught /\ Continue(r, [x EXCEPT !.unchecked = @ \ {m}])
  /\ UNCHANGED learn

\* The response is read before the commit, and a deleted course is not found.
PublishSave(r) ==
  LET x == req[r] IN
  /\ x.at = "publish.lessons" /\ x.unchecked = {}
  /\ \/ course.deleted /\ UNCHANGED <<course, history>>
     \/ /\ ~course.deleted
        /\ course' = [Written(course, x.row, [x.row EXCEPT !.status = "published"]) EXCEPT !.stamped = TRUE]
        /\ history' = Append(history, x.row.status)
  /\ Return(r)
  /\ UNCHANGED <<order, lessons, assigned>>

-----------------------------------------------------------------------------
(* Modules and lessons.                                                      *)

\* One after the last of a course's modules, or of a module's lessons.
NextAfter(positions) == IF positions = {} THEN 1 ELSE Max(positions) + 1

NextPosition  == NextAfter(Range(order))
NextLesson(m) == NextAfter({lessons[l][2] : l \in {k \in DOMAIN lessons : lessons[k][1] = m}})

TakenNever(rows, i, place) == FALSE  \* mutant: no unique constraint

\* A module's place is its position, a lesson's its module and its position.
Taken(rows, i, place) == \E other \in DOMAIN rows \ {i} : rows[other] = place

CreateModuleLoad(r, position) ==
  /\ ~course.deleted
  /\ Begin(r, [at |-> IF position = Null THEN "module.position" ELSE "module.insert",
               p |-> position])
  /\ UNCHANGED learn

CreateModulePosition(r) ==
  /\ req[r].at = "module.position"
  /\ Continue(r, [at |-> "module.insert", p |-> NextPosition])
  /\ UNCHANGED learn

CreateModuleInsert(r, m) ==
  LET x == req[r] IN
  /\ x.at = "module.insert" /\ m \notin DOMAIN order
  /\ order' = IF Taken(order, m, x.p) THEN order ELSE WithRow(order, m, x.p)
  /\ Return(r)
  /\ UNCHANGED <<course, lessons, assigned, history>>

UpdateModuleLoad(r, m, position) ==
  /\ m \in DOMAIN order
  /\ Begin(r, [at |-> "module.save", m |-> m, row |-> order[m], p |-> position])
  /\ UNCHANGED learn

UpdateModuleSave(r) ==
  LET x == req[r]  p == Flushed(order[x.m], x.row, x.p) IN
  /\ x.at = "module.save"
  /\ order' = IF Taken(order, x.m, p) THEN order ELSE [order EXCEPT ![x.m] = p]
  /\ Return(r)
  /\ UNCHANGED <<course, lessons, assigned, history>>

(* create_lesson, which flushes before its try, and update_lesson.             *)

CreateLessonLoad(r, m, position) ==
  /\ m \in DOMAIN order
  /\ Begin(r, [at |-> IF position = Null THEN "lesson.position" ELSE "lesson.insert",
               m |-> m, p |-> position])
  /\ UNCHANGED learn

CreateLessonPosition(r) ==
  LET x == req[r] IN
  /\ x.at = "lesson.position"
  /\ Continue(r, [x EXCEPT !.at = "lesson.insert", !.p = NextLesson(x.m)])
  /\ UNCHANGED learn

CreateLessonInsert(r, l) ==
  LET x == req[r]  place == <<x.m, x.p>> IN
  /\ x.at = "lesson.insert" /\ l \in Lessons \ DOMAIN lessons
  /\ lessons' = IF Taken(lessons, l, place) THEN lessons ELSE WithRow(lessons, l, place)
  /\ Return(r)
  /\ UNCHANGED <<course, order, assigned, history>>

UpdateLessonLoad(r, l, position) ==
  /\ l \in DOMAIN lessons
  /\ Begin(r, [at |-> "lesson.save", l |-> l, row |-> lessons[l], p |-> position])
  /\ UNCHANGED learn

UpdateLessonSave(r) ==
  LET x == req[r]  place == Flushed(lessons[x.l], x.row, <<x.row[1], x.p>>) IN
  /\ x.at = "lesson.save"
  /\ lessons' = IF Taken(lessons, x.l, place) THEN lessons ELSE [lessons EXCEPT ![x.l] = place]
  /\ Return(r)
  /\ UNCHANGED <<course, order, assigned, history>>

(* reorder_course: the flush writes one row after the other, by primary key,  *)
(* and each write must leave the positions unique.                             *)

Unique(rows) == \A m, n \in DOMAIN rows : rows[m] = rows[n] => m = n

\* The rows after the modules up to m have been written.
WrittenTo(rows, targets, m) ==
  [n \in DOMAIN rows |-> IF n \in DOMAIN targets /\ n <= m THEN targets[n] ELSE rows[n]]

CanWrite(rows, targets) ==
  \A m \in DOMAIN targets : Unique(WrittenTo(rows, targets, m))

\* The k-th row of the payload moves to Aside + k first.
MovedAside(ids) == [i \in Range(ids) |-> Aside + CHOOSE k \in DOMAIN ids : ids[k] = i]

ReorderedDirectly(rows, aside, placed) == CanWrite(rows, placed)  \* mutant: not moved aside

Reordered(rows, aside, placed) == CanWrite(rows, aside) /\ CanWrite(Updated(rows, aside), placed)

InModules(positions) == [l \in DOMAIN positions |-> <<lessons[l][1], positions[l]>>]

\* What a payload asks of a table: the rows as loaded, where they wait, where they go.
Moves(rows, aside, targets) == [rows |-> rows, aside |-> aside, targets |-> targets]

ReorderLoad(r, modules, places, ls, lessonPlaces) ==
  /\ ~course.deleted
  /\ Begin(r, [at |-> "reorder.save",
               modules |-> Moves(order, MovedAside(modules), places),
               lessons |-> Moves(lessons, InModules(MovedAside(ls)), InModules(lessonPlaces))])
  /\ UNCHANGED learn

AsideIn(rows, moves) ==
  [i \in DOMAIN moves.aside |-> Flushed(rows[i], moves.rows[i], moves.aside[i])]

PlacedIn(rows, moves) ==
  [i \in DOMAIN moves.aside |-> Flushed(AsideIn(rows, moves)[i], moves.aside[i], moves.targets[i])]

Accepted(rows, moves) == Reordered(rows, AsideIn(rows, moves), PlacedIn(rows, moves))

\* A collision of either fails, and nothing catches it; a deleted course is not found.
ReorderSave(r) ==
  LET x == req[r] IN
  /\ x.at = "reorder.save"
  /\ IF ~course.deleted /\ Accepted(order, x.modules) /\ Accepted(lessons, x.lessons)
     THEN /\ order' = Updated(order, PlacedIn(order, x.modules))
          /\ lessons' = Updated(lessons, PlacedIn(lessons, x.lessons))
     ELSE UNCHANGED <<order, lessons>>
  /\ Return(r)
  /\ UNCHANGED <<course, assigned, history>>

-----------------------------------------------------------------------------
(* assign_batch and assign_teacher; one that is there is made active again.    *)

AssignCourseLoad(r, a) ==
  /\ ~course.deleted /\ a \notin assigned
  /\ Begin(r, [at |-> "assigncourse.save", to |-> a])
  /\ UNCHANGED learn

\* A second row of the pair is refused by the unique constraint, uncaught.
AssignCourseSave(r) ==
  /\ req[r].at = "assigncourse.save"
  /\ assigned' = assigned \cup {req[r].to}
  /\ Return(r)
  /\ UNCHANGED <<course, order, lessons, history>>

-----------------------------------------------------------------------------
CourseStep(r) ==
  \/ \E status \in Statuses : UpdateCourse(r, status)
  \/ ArchiveCourse(r) \/ DeleteCourse(r) \/ CourseSave(r)
  \/ PublishLoad(r) \/ PublishModules(r)
  \/ \E m \in Modules : PublishLessons(r, m)
  \/ PublishSave(r)

ModuleStep(r) ==
  \/ \E p \in Positions \cup {Null} : CreateModuleLoad(r, p)
  \/ CreateModulePosition(r)
  \/ \E m \in Modules : CreateModuleInsert(r, m)
  \/ \E m \in Modules, p \in Positions : UpdateModuleLoad(r, m, p)
  \/ UpdateModuleSave(r)

LessonStep(r) ==
  \/ \E m \in Modules, p \in Positions \cup {Null} : CreateLessonLoad(r, m, p)
  \/ CreateLessonPosition(r)
  \/ \E l \in Lessons : CreateLessonInsert(r, l)
  \/ \E l \in Lessons, p \in Positions : UpdateLessonLoad(r, l, p)
  \/ UpdateLessonSave(r)

\* Rows named once each, and new positions for them.
Reorders(rows) ==
  UNION {{[ids |-> ids, places |-> places] : places \in [Range(ids) -> Positions]} :
           ids \in {s \in UNION {[1..n -> DOMAIN rows] : n \in 0..Cardinality(DOMAIN rows)} :
                     IsInjective(s)}}

AssignStep(r) ==
  \/ \E a \in Assignees : AssignCourseLoad(r, a)
  \/ AssignCourseSave(r)

-----------------------------------------------------------------------------
\* Rows have their columns' types, and history its entries.
CourseTypeOK ==
  /\ course \in Course
  /\ DOMAIN order \subseteq Modules /\ Range(order) \subseteq Nat
  /\ DOMAIN lessons \subseteq Lessons /\ Range(lessons) \subseteq (DOMAIN order) \X Nat
  /\ assigned \subseteq Assignees
  /\ Range(history) \subseteq {"draft", "published"}

(* With any number of requests in flight.                                     *)

\* Two modules of a course, or lessons of a module, never share a position, whatever
\* is created, moved and reordered at once.
PositionsUnique == Unique(order) /\ Unique(lessons)

\* A published course has something to read.
PublishedHasContent == course.status = "published" => Taught # {}

(* Rules of the handlers taken one at a time; with two requests in flight    *)
(* each of them fails.                                                       *)

\* A published course has its publish time, and a draft has none.
StampFollowsStatus ==
  OneAtATime =>
    /\ course.status = "published" => course.stamped
    /\ course.status = "draft" => ~course.stamped

\* No position is in the range used to move rows aside.
Near(positions) == \A i \in DOMAIN positions : positions[i] <= Aside

PositionsOf(ls) == [l \in DOMAIN ls |-> ls[l][2]]

\* "two-step order updates to avoid unique-index collisions": new positions that
\* do not collide are all taken over, as long as no position lies in the range
\* that is used to move rows aside (order_index has no upper bound).
PlacedAll(r) ==
  LET m == Updated(order, req[r].modules.targets)
      l == Updated(lessons, req[r].lessons.targets) IN
  /\ ~course.deleted /\ Unique(m) /\ Unique(l)
  /\ \A positions \in {order, m, PositionsOf(lessons), PositionsOf(l)} : Near(positions)
  => order' = m /\ lessons' = l

ReorderPlacesAll == \A r \in Requests : OneAtATime /\ ReorderSave(r) => PlacedAll(r)
=============================================================================
