---------------------------- MODULE CourseDelivery ----------------------------
(***************************************************************************)
(* Courses and the batches they are taught to.  A behaviour is about some of    *)
(* the rows:                                                                   *)
(*   course       the course's status and publication, new modules and lessons   *)
(*   modules      the positions of the modules of a course that may be deleted    *)
(*   lessons      the positions of lessons, and reorders of both                 *)
(*   assignments  the course's batches and teachers                             *)
(*   batch        a batch's columns                                            *)
(*   members      a batch's capacity and its students                           *)
(* Publication asks only whether there are modules and whether each has a lesson, *)
(* so the first part gives a module at most one and no position; nothing asks the  *)
(* course's status of the others, nor decides on a batch's dates but its update.   *)
(***************************************************************************)
EXTENDS BatchMembership

CONSTANT FirstModules   \* modules 1 to n, and positions, of the course whose lessons change

ASSUME DeliveryAssumption ==
  /\ FirstModules \in [DOMAIN FirstModules -> Nat] /\ DOMAIN FirstModules \subseteq Modules
  /\ Unique(FirstModules)

VARIABLE served   \* what this behaviour is about

deliveryVars == <<learn, batchVars, now, served, req>>

DeliveryInit ==
  /\ served \in {"course", "modules", "lessons", "assignments", "batch", "members"}
  /\ CourseInit(IF served = "lessons" THEN FirstModules ELSE << >>)
  /\ BatchInit /\ InitRequests
  /\ served # "batch" => batch.start = Max(Dates) /\ batch.end = Null

Reorder(r, modules, ls) == ReorderLoad(r, modules.ids, modules.places, ls.ids, ls.places)

NoMove == [ids |-> << >>, places |-> << >>]

\* Every module of a course, in the opposite order.
Turned(rows) == [ids |-> [i \in DOMAIN rows |-> i],
                 places |-> [m \in DOMAIN rows |-> NextAfter(Range(rows)) - rows[m]]]

\* Where nothing depends on the order of ids, rows take them in turn.
NextId(rows, i) == i = 1 + Cardinality(DOMAIN rows)

CourseNext(r) ==
  \/ /\ served = "course"
     /\ \/ CourseStep(r)
        \/ CreateModuleLoad(r, Null) \/ CreateModulePosition(r)
        \/ \E m \in Modules : NextId(order, m) /\ CreateModuleInsert(r, m)
        \/ \E m \in Modules \ Taught : CreateLessonLoad(r, m, Null)
        \/ CreateLessonPosition(r)
        \/ \E l \in Lessons : NextId(lessons, l) /\ CreateLessonInsert(r, l)
  \/ /\ served = "modules"
     /\ \/ ModuleStep(r) \/ DeleteCourse(r) \/ CourseSave(r)
        \/ (\E moves \in Reorders(order) : Reorder(r, moves, NoMove)) \/ ReorderSave(r)
  \/ /\ served = "lessons"
     /\ \/ LessonStep(r) \/ ReorderSave(r)
        \/ \E modules \in {NoMove, Turned(order)}, moves \in Reorders(lessons) :
             Reorder(r, modules, moves)
  \/ served = "assignments" /\ (DeleteCourse(r) \/ CourseSave(r) \/ AssignStep(r))

\* In the part about members a payload carries the capacity.
BatchNext(r) ==
  \/ /\ served = "batch"
     /\ \E columns \in SUBSET {"capacity", "start", "end"} :
          \E payload \in {[c \in columns |-> row[c]] : row \in Batch} : BatchUpdateLoad(r, payload)
  \/ /\ served = "members"
     /\ \E places \in Capacities \cup {Null} : BatchUpdateLoad(r, [capacity |-> places])
  \/ served \in {"batch", "members"} /\ UpdateStep(r)
  \/ served = "members" /\ MemberStep(r)

DeliveryNext ==
  /\ \/ (\E r \in Requests : CourseNext(r)) /\ UNCHANGED <<batchVars, now>>
     \/ (\E r \in Requests : BatchNext(r)) /\ UNCHANGED learn
     \/ served = "members" /\ Tick /\ UNCHANGED learn
  /\ UNCHANGED served

DeliverySpec == DeliveryInit /\ [][DeliveryNext]_deliveryVars

-----------------------------------------------------------------------------
\* Rows have their columns' types.
DeliveryTypeOK == CourseTypeOK /\ BatchTypeOK

\* Positions are unique however rows are created, moved and reordered; a published
\* course has something to read and its publish time; and, with one request in flight,
\* a reorder places every row that it names.
OutlineKept ==
  [](PositionsUnique /\ PublishedHasContent /\ StampFollowsStatus)
  /\ [][ReorderPlacesAll]_deliveryVars

\* A stay in a batch is on record as a whole; and, with one request in flight, a batch
\* has no more members than places and does not end before it starts.
BatchKept == StayConsistent /\ CapacityHeld /\ DatesHeld
=============================================================================
