---------------------------- MODULE DeliveryProofs ----------------------------
(***************************************************************************)
(* Proofs about CourseDelivery for every course, batch, set of students and *)
(* positions, and any number of requests in flight.                        *)
(***************************************************************************)
EXTENDS CourseDelivery, ProofLemmas

-----------------------------------------------------------------------------
(* The steps of a behaviour.  The handlers of the course and of the batch share  *)
(* the request slots but no label.                                            *)

\* The labels of the handlers of courses.
CourseLabels ==
  {"course.save", "publish.modules", "publish.lessons", "module.position", "module.insert",
   "module.save", "lesson.position", "lesson.insert", "lesson.save", "reorder.save",
   "assigncourse.save"}

\* The labels of the handlers of batches.
BatchLabels ==
  {"batch.count", "batch.save", "assign.student", "assign.count", "assign.membership",
   "assign.save", "remove.membership", "remove.save", "delete.save"}

\* The course's handlers, whatever the behaviour is about.
CourseHandler(r) ==
  \/ CourseStep(r)
  \/ \E position \in Positions \cup {Null} : CreateModuleLoad(r, position)
  \/ CreateModulePosition(r) \/ \E m \in Modules : CreateModuleInsert(r, m)
  \/ \E m \in Modules, p \in Positions : UpdateModuleLoad(r, m, p)
  \/ UpdateModuleSave(r)
  \/ \E m \in Modules, p \in Positions \cup {Null} : CreateLessonLoad(r, m, p)
  \/ CreateLessonPosition(r) \/ \E l \in Lessons : CreateLessonInsert(r, l)
  \/ \E l \in Lessons, p \in Positions : UpdateLessonLoad(r, l, p)
  \/ UpdateLessonSave(r)
  \/ \E moves \in Reorders(order) : Reorder(r, moves, NoMove)
  \/ \E modules \in {NoMove, Turned(order)}, moves \in Reorders(lessons) :
       Reorder(r, modules, moves)
  \/ ReorderSave(r) \/ AssignStep(r)

\* A step of a course is a handler's, whatever its payload.
LEMMA CourseHandlers == ASSUME NEW r \in Requests, CourseNext(r) PROVE CourseHandler(r)
BY DEF CourseNext, CourseHandler, CourseStep, ModuleStep, LessonStep

\* A handler changes its own slot only, to a label of its part.
LEMMA CourseSlot ==
  ASSUME Slots, NEW r \in Requests, CourseHandler(r)
  PROVE  OnlySlot(r, CourseLabels)
<1> USE DEF OnlySlot, Slots, CourseLabels, Begin, Continue, Return, Idle
<1>1. ASSUME NEW new, SetLoad(r, new) PROVE OnlySlot(r, CourseLabels)
  BY <1>1 DEF SetLoad
<1>2. CASE CourseSave(r) \/ PublishLoad(r) \/ PublishModules(r) \/ PublishSave(r)
  BY <1>2 DEF CourseSave, PublishLoad, PublishModules, PublishSave
<1>3. ASSUME NEW m, PublishLessons(r, m) PROVE OnlySlot(r, CourseLabels)
  BY <1>3 DEF PublishLessons
<1>4. ASSUME NEW p, CreateModuleLoad(r, p) PROVE OnlySlot(r, CourseLabels)
  BY <1>4 DEF CreateModuleLoad
<1>5. ASSUME NEW m, CreateModuleInsert(r, m) PROVE OnlySlot(r, CourseLabels)
  BY <1>5 DEF CreateModuleInsert
<1>6. ASSUME NEW m, NEW p, UpdateModuleLoad(r, m, p) \/ CreateLessonLoad(r, m, p)
                            \/ UpdateLessonLoad(r, m, p)
      PROVE  OnlySlot(r, CourseLabels)
  BY <1>6 DEF UpdateModuleLoad, CreateLessonLoad, UpdateLessonLoad
<1>7. CASE CreateModulePosition(r) \/ UpdateModuleSave(r) \/ CreateLessonPosition(r)
           \/ UpdateLessonSave(r)
  <2>1. CASE CreateModulePosition(r) \/ UpdateModuleSave(r)
    BY <2>1 DEF CreateModulePosition, UpdateModuleSave
  <2>2. CASE CreateLessonPosition(r)
    <3>1. req'[r].at = "lesson.insert" /\ "at" \in DOMAIN req'[r]
      BY <2>2 DEF CreateLessonPosition
    <3> QED BY <2>2, <3>1 DEF CreateLessonPosition
  <2>3. CASE UpdateLessonSave(r)
    BY <2>3 DEF UpdateLessonSave
  <2> QED BY <1>7, <2>1, <2>2, <2>3
<1>8. ASSUME NEW l, CreateLessonInsert(r, l) PROVE OnlySlot(r, CourseLabels)
  BY <1>8 DEF CreateLessonInsert
<1>9. ASSUME NEW modules, NEW moves, Reorder(r, modules, moves) PROVE OnlySlot(r, CourseLabels)
  BY <1>9 DEF Reorder, ReorderLoad
<1>10. CASE ReorderSave(r) \/ AssignStep(r)
  BY <1>10 DEF ReorderSave, AssignStep, AssignCourseLoad, AssignCourseSave
<1> HIDE DEF OnlySlot, Slots, CourseLabels, Begin, Continue, Return, Idle
<1>11. ASSUME CourseStep(r) PROVE OnlySlot(r, CourseLabels)
  BY <1>1, <1>2, <1>3, <1>11 DEF CourseStep, UpdateCourse, ArchiveCourse, DeleteCourse
<1> QED
  BY <1>4, <1>5, <1>6, <1>7, <1>8, <1>9, <1>10, <1>11 DEF CourseHandler

\* The batch's handlers, whatever the behaviour is about.
BatchHandler(r) ==
  \/ \E columns \in SUBSET {"capacity", "start", "end"} : \E row \in Batch :
       BatchUpdateLoad(r, [c \in columns |-> row[c]])
  \/ \E places \in Capacities \cup {Null} : BatchUpdateLoad(r, [capacity |-> places])
  \/ UpdateStep(r) \/ MemberStep(r)

\* So is a step of a batch.
LEMMA BatchHandlers == ASSUME NEW r \in Requests, BatchNext(r) PROVE BatchHandler(r)
BY DEF BatchNext, BatchHandler

\* The same of batches.
LEMMA BatchSlot ==
  ASSUME Slots, NEW r \in Requests, BatchHandler(r)
  PROVE  OnlySlot(r, BatchLabels)
<1> USE DEF OnlySlot, Slots, BatchLabels, Begin, Continue, Return, Idle
<1>1. ASSUME NEW edit, BatchUpdateLoad(r, edit) PROVE OnlySlot(r, BatchLabels)
  BY <1>1 DEF BatchUpdateLoad
<1>2. CASE UpdateStep(r)
  BY <1>2 DEF UpdateStep, BatchUpdateCount, BatchUpdateSave
<1>3. ASSUME NEW s, AssignLoad(r, s) \/ RemoveLoad(r, s) \/ DeleteStudent(r, s)
      PROVE  OnlySlot(r, BatchLabels)
  BY <1>3 DEF AssignLoad, RemoveLoad, DeleteStudent
<1>4. CASE AssignStudent(r) \/ AssignCount(r) \/ AssignMembership(r) \/ AssignSave(r)
  BY <1>4 DEF AssignStudent, AssignCount, AssignMembership, AssignSave
<1>5. CASE RemoveMembership(r) \/ RemoveSave(r) \/ DeleteStudentSave(r)
  BY <1>5 DEF RemoveMembership, RemoveSave, DeleteStudentSave
<1> HIDE DEF OnlySlot, Slots, BatchLabels, Begin, Continue, Return, Idle
<1> QED BY <1>1, <1>2, <1>3, <1>4, <1>5 DEF BatchHandler, MemberStep

-----------------------------------------------------------------------------
(* The batch.  A stay is consistent because a request writes both columns that   *)
(* say whether it has ended: it has found them different from what it writes.    *)

\* What a request carries has the types of the rows it was loaded from.
BatchCarries(x) ==
  /\ x.at \in {"batch.count", "batch.save"} => x.row \in Batch /\ x.new \in Batch
  /\ x.at \in {"assign.student", "assign.count", "assign.membership", "assign.save",
               "remove.membership", "delete.save"} => x.s \in Students
  /\ x.at = "assign.save" /\ x.row # Null =>
       /\ x.s \in DOMAIN members /\ x.row \in Membership
       /\ x.row.status = "removed" /\ x.row.left # Null
  /\ x.at = "remove.save" =>
       /\ x.s \in DOMAIN members /\ x.row \in Membership
       /\ x.row.status = "active" /\ x.row.left = Null

\* The inductive invariant of batches, with any number of requests.
BatchInv ==
  /\ Slots /\ BatchTypeOK /\ StayConsistent
  /\ \A r \in Requests : BatchCarries(req[r])

\* The batch begins without members.
LEMMA BatchInvInit == DeliveryInit => BatchInv
<1> SUFFICES ASSUME DeliveryInit PROVE BatchInv
  OBVIOUS
<1>1. Slots /\ \A r \in Requests : req[r].at \in {"idle", "unused"}
  BY DEF DeliveryInit, InitRequests, Idle, Unused, Slots
<1> QED
  BY <1>1, MembershipAssumption DEF DeliveryInit, BatchInit, BatchInv, BatchTypeOK, StayConsistent,
     BatchCarries

\* Members are never deleted, and the clock goes on.
LEMMA BatchKeptByStep ==
  ASSUME BatchInv, NEW r \in Requests, NEW labels, OnlySlot(r, labels),
         DOMAIN members \subseteq DOMAIN members', now' \in Nat, now <= now',
         BatchTypeOK', StayConsistent', BatchCarries(req[r])'
  PROVE  BatchInv'
<1>1. Membership \subseteq Membership'
  BY DEF BatchInv, BatchTypeOK, Membership
<1>2. \A p \in Requests : BatchCarries(req[p])'
  BY <1>1 DEF BatchInv, OnlySlot, BatchCarries
<1> QED BY <1>2 DEF BatchInv, OnlySlot

\* A step that writes no batch row keeps the invariant.
LEMMA BatchQuiet ==
  ASSUME BatchInv, NEW r \in Requests, NEW labels, OnlySlot(r, labels),
         UNCHANGED <<batchVars, now>>, BatchCarries(req[r])'
  PROVE  BatchInv'
<1>1. DOMAIN members \subseteq DOMAIN members' /\ now' \in Nat /\ now <= now'
  BY DEF batchVars, BatchInv, BatchTypeOK
<1>2. BatchTypeOK' /\ StayConsistent'
  BY DEF batchVars, BatchInv, BatchTypeOK, StayConsistent, Membership
<1> QED BY <1>1, <1>2, BatchKeptByStep

\* An edit asks for a batch row.
LEMMA UpdatedBatch ==
  ASSUME NEW edit, DOMAIN edit \subseteq {"capacity", "start", "end"},
         "capacity" \in DOMAIN edit => edit.capacity \in Capacities \cup {Null},
         "start" \in DOMAIN edit => edit.start \in Dates,
         "end" \in DOMAIN edit => edit.end \in Dates \cup {Null},
         NEW row \in Batch
  PROVE  Updated(row, edit) \in Batch
BY DEF Updated, Batch

\* A flushed batch row has its type, and is the new row if nobody wrote
\* meanwhile.
LEMMA WrittenBatch ==
  ASSUME NEW current \in Batch, NEW row \in Batch, NEW new \in Batch
  PROVE  Written(current, row, new) \in Batch /\ (row = current => Written(current, row, new) = new)
BY DEF Written, Flushed, Batch

\* Updating a batch keeps the invariant.
LEMMA UpdateType ==
  ASSUME BatchInv, NEW r \in Requests, NEW edit, BatchUpdateLoad(r, edit),
         Updated(batch, edit) \in Batch
  PROVE  BatchInv'
<1> DEFINE new == Updated(batch, edit)
<1>1. OnlySlot(r, BatchLabels)
  BY DEF BatchUpdateLoad, BatchInv, OnlySlot, Slots, BatchLabels, Begin, Idle
<1>2. /\ req'[r] = [at |-> IF new.capacity = Null THEN "batch.save" ELSE "batch.count",
                    row |-> batch, new |-> new]
      /\ UNCHANGED <<batchVars, now>> /\ batch \in Batch /\ new \in Batch
  BY DEF BatchUpdateLoad, Begin, BatchInv, Slots, BatchTypeOK
<1> HIDE DEF new
<1>3. BatchCarries(req[r])'
  BY <1>2 DEF BatchCarries
<1> QED BY <1>1, <1>2, <1>3, BatchQuiet

\* The membership that an assignment leaves.
LEMMA ReactivatedMembership ==
  ASSUME BatchTypeOK, NEW row \in Membership, NEW current \in Membership,
         row.status = "removed", row.left # Null
  PROVE  LET new == Written(current, row, Reactivated(row)) IN
         new \in Membership /\ new.status = "active" /\ new.left = Null
BY CourseAssumption DEF Membership, Written, Flushed, Reactivated, BatchTypeOK

\* The membership that a removal leaves.
LEMMA RemovedMembership ==
  ASSUME BatchTypeOK, NEW row \in Membership, NEW current \in Membership,
         row.status = "active", row.left = Null
  PROVE  LET new == Written(current, row, [row EXCEPT !.status = "removed", !.left = now]) IN
         new \in Membership /\ new.status = "removed" /\ new.left = now
<1> DEFINE ended == [row EXCEPT !.status = "removed", !.left = now]
<1>1. ended.status = "removed" /\ ended.joined = row.joined /\ ended.left = now
  BY DEF Membership
<1>2. now \in Nat /\ now # Null
  BY CourseAssumption DEF BatchTypeOK
<1> HIDE DEF ended
<1>3. LET new == Written(current, row, ended) IN
      /\ new = [status |-> new.status, joined |-> new.joined, left |-> new.left]
      /\ new.status = "removed" /\ new.left = now /\ new.joined = current.joined
  BY <1>1, <1>2 DEF Membership, Written, Flushed
<1> QED BY <1>2, <1>3 DEF Membership, ended

\* Assigning a student keeps it: a second membership of a student is refused.
LEMMA AssignType ==
  ASSUME BatchInv, NEW r \in Requests,
         AssignStudent(r) \/ AssignCount(r) \/ AssignMembership(r) \/ AssignSave(r)
  PROVE  BatchInv'
<1> DEFINE x == req[r]
<1>0. OnlySlot(r, BatchLabels) /\ Slots /\ BatchCarries(x) /\ BatchTypeOK /\ StayConsistent
  BY BatchSlot DEF BatchInv, BatchHandler, MemberStep
<1> USE DEF Continue, Return, Idle, Slots
<1>1. CASE AssignStudent(r) \/ AssignCount(r)
  <2>1. UNCHANGED <<batchVars, now>> /\ BatchCarries(req[r])'
    <3>1. CASE AssignCount(r)
      BY <1>0, <3>1 DEF AssignCount, BatchCarries
    <3>2. CASE AssignStudent(r) /\ req'[r] = Idle
      BY <3>2 DEF AssignStudent, BatchCarries
    <3>3. CASE AssignStudent(r) /\ req'[r] = [x EXCEPT !.at = "assign.count"]
      <4>1. x.s \in Students /\ req'[r].s = x.s /\ req'[r].at = "assign.count"
        BY <1>0, <3>3 DEF AssignStudent, BatchCarries
      <4> QED BY <3>3, <4>1 DEF AssignStudent, BatchCarries
    <3> QED BY <1>0, <1>1, <3>1, <3>2, <3>3 DEF AssignStudent
  <2> QED BY <1>0, <2>1, BatchQuiet
<1>2. CASE AssignMembership(r)
  <2>1. UNCHANGED <<batchVars, now>> /\ x.s \in Students
    BY <1>0, <1>2 DEF AssignMembership, BatchCarries
  <2>2. CASE req'[r] = Idle
    <3>1. BatchCarries(req[r])'
      BY <2>2 DEF BatchCarries
    <3> QED BY <1>0, <2>1, <3>1, BatchQuiet
  <2>3. CASE req'[r] # Idle
    <3>1. /\ x.s \notin ActiveMembers(members)
          /\ req'[r] = [at |-> "assign.save", s |-> x.s, row |-> RowOf(x.s)]
      BY <1>0, <1>2, <2>3 DEF AssignMembership
    <3>2. RowOf(x.s) # Null => /\ x.s \in DOMAIN members /\ RowOf(x.s) \in Membership
                               /\ RowOf(x.s).status = "removed" /\ RowOf(x.s).left # Null
      BY <1>0, <3>1 DEF RowOf, ActiveMembers, BatchTypeOK, StayConsistent, Membership
    <3>3. BatchCarries(req[r])'
      BY <2>1, <3>1, <3>2 DEF BatchCarries, batchVars, Membership
    <3> QED BY <1>0, <2>1, <3>3, BatchQuiet
  <2> QED BY <2>2, <2>3
<1>3. CASE AssignSave(r)
  <2>0. /\ UNCHANGED <<batch, deleted, now>> /\ x.s \in Students /\ req'[r] = Idle
        /\ BatchCarries(req[r])' /\ Membership' = Membership
    BY <1>0, <1>3 DEF AssignSave, BatchCarries, Membership
  <2>1. /\ DOMAIN members \subseteq DOMAIN members' /\ DOMAIN members' \subseteq Students
        /\ \A s \in DOMAIN members' : \/ s \in DOMAIN members /\ members'[s] = members[s]
                                      \/ /\ members'[s] \in Membership
                                         /\ members'[s].status = "active" /\ members'[s].left = Null
    <3>1. CASE UNCHANGED members
      BY <1>0, <3>1 DEF BatchTypeOK
    <3>2. CASE x.row = Null /\ x.s \notin DOMAIN members
      <4> DEFINE new == [status |-> "active", joined |-> now, left |-> Null]
      <4>1. new \in Membership /\ new.status = "active" /\ new.left = Null
        BY <1>0 DEF Membership, BatchTypeOK
      <4>2. members' = WithRow(members, x.s, new)
        BY <1>3, <3>2 DEF AssignSave
      <4> HIDE DEF new
      <4> QED BY <1>0, <2>0, <4>1, <4>2 DEF WithRow, BatchTypeOK
    <3>3. CASE x.row # Null
      <4> DEFINE new == Written(members[x.s], x.row, Reactivated(x.row))
      <4>1. x.s \in DOMAIN members /\ members[x.s] \in Membership /\ x.row \in Membership
            /\ x.row.status = "removed" /\ x.row.left # Null
        BY <1>0, <1>3, <3>3 DEF AssignSave, BatchCarries, BatchTypeOK
      <4>2. new \in Membership /\ new.status = "active" /\ new.left = Null
        BY <1>0, <4>1, ReactivatedMembership
      <4>3. members' = [members EXCEPT ![x.s] = new]
        BY <1>3, <3>3 DEF AssignSave
      <4> HIDE DEF new
      <4> QED BY <1>0, <4>1, <4>2, <4>3 DEF BatchTypeOK
    <3> QED BY <1>3, <3>1, <3>2, <3>3 DEF AssignSave
  <2>2. BatchTypeOK' /\ StayConsistent'
    BY <1>0, <2>0, <2>1 DEF BatchTypeOK, StayConsistent
  <2>3. now' \in Nat /\ now <= now'
    BY <1>0, <2>0 DEF BatchTypeOK
  <2> QED BY <1>0, <2>0, <2>1, <2>2, <2>3, BatchKeptByStep
<1> QED BY <1>1, <1>2, <1>3

\* Removing or deleting a student keeps it: the stay ends where it is marked as
\* ended.
LEMMA RemovalType ==
  ASSUME BatchInv, NEW r \in Requests, RemoveMembership(r) \/ RemoveSave(r) \/ DeleteStudentSave(r)
  PROVE  BatchInv'
<1> DEFINE x == req[r]
<1>0. OnlySlot(r, BatchLabels) /\ Slots /\ BatchCarries(x) /\ BatchTypeOK /\ StayConsistent
  BY BatchSlot DEF BatchInv, BatchHandler, MemberStep
<1> USE DEF Continue, Return, Idle, Slots
<1>1. CASE RemoveMembership(r)
  <2>1. UNCHANGED <<batchVars, now>> /\ x.s \in Students
    BY <1>0, <1>1 DEF RemoveMembership, BatchCarries
  <2>2. BatchCarries(req[r])'
    BY <1>0, <1>1, <2>1 DEF RemoveMembership, BatchCarries, RowOf, ActiveMembers, BatchTypeOK,
       StayConsistent, batchVars, Membership
  <2> QED BY <1>0, <2>1, <2>2, BatchQuiet
<1>2. CASE RemoveSave(r)
  <2> DEFINE new == Written(members[x.s], x.row, [x.row EXCEPT !.status = "removed", !.left = now])
  <2>1. /\ UNCHANGED <<batch, deleted, now>> /\ req'[r] = Idle /\ x.s \in DOMAIN members
        /\ x.row \in Membership /\ x.row.status = "active" /\ x.row.left = Null
        /\ members[x.s] \in Membership /\ Membership' = Membership
        /\ members' = [members EXCEPT ![x.s] = new]
    BY <1>0, <1>2 DEF RemoveSave, BatchCarries, BatchTypeOK, Membership
  <2>2. new \in Membership /\ new.status = "removed" /\ new.left = now
    BY <1>0, <2>1, RemovedMembership
  <2> HIDE DEF new
  <2>3. new.joined <= new.left /\ new.left # Null
    BY <1>0, <2>2, CourseAssumption DEF Membership, BatchTypeOK
  <2>4. BatchTypeOK'
    BY <1>0, <2>1, <2>2 DEF BatchTypeOK
  <2>5. StayConsistent'
    BY <1>0, <2>1, <2>2, <2>3 DEF StayConsistent, BatchTypeOK
  <2>6. now' \in Nat /\ now <= now' /\ DOMAIN members \subseteq DOMAIN members'
        /\ BatchCarries(req[r])'
    BY <1>0, <2>1 DEF BatchTypeOK, BatchCarries
  <2> QED BY <1>0, <2>4, <2>5, <2>6, BatchKeptByStep
<1>3. CASE DeleteStudentSave(r)
  <2>1. UNCHANGED <<batch, members, now>> /\ req'[r] = Idle /\ deleted' \subseteq Students
    BY <1>0, <1>3 DEF DeleteStudentSave, BatchCarries, BatchTypeOK
  <2>2. /\ BatchTypeOK' /\ StayConsistent' /\ BatchCarries(req[r])' /\ now' \in Nat /\ now <= now'
        /\ DOMAIN members \subseteq DOMAIN members'
    BY <1>0, <2>1 DEF BatchTypeOK, StayConsistent, Membership, BatchCarries
  <2> QED BY <1>0, <2>2, BatchKeptByStep
<1> QED BY <1>1, <1>2, <1>3

\* Every handler of batches keeps the invariant.
LEMMA BatchHandlerType ==
  ASSUME BatchInv, NEW r \in Requests, BatchHandler(r)
  PROVE  BatchInv'
<1> DEFINE x == req[r]
<1>0. OnlySlot(r, BatchLabels) /\ Slots /\ BatchCarries(x) /\ BatchTypeOK
  BY BatchSlot DEF BatchInv
<1> USE DEF Begin, Continue, Return, Idle, Slots
<1>1. ASSUME NEW columns \in SUBSET {"capacity", "start", "end"}, NEW row \in Batch,
             BatchUpdateLoad(r, [c \in columns |-> row[c]])
      PROVE  BatchInv'
  <2>1. Updated(batch, [c \in columns |-> row[c]]) \in Batch
    BY <1>0 DEF Updated, BatchTypeOK, Batch
  <2> QED BY <1>1, <2>1, UpdateType
<1>2. ASSUME NEW places \in Capacities \cup {Null}, BatchUpdateLoad(r, [capacity |-> places])
      PROVE  BatchInv'
  <2>1. Updated(batch, [capacity |-> places]) \in Batch
    BY <1>0 DEF Updated, BatchTypeOK, Batch
  <2> QED BY <1>2, <2>1, UpdateType
<1>3. CASE BatchUpdateCount(r)
  <2>1. UNCHANGED <<batchVars, now>> /\ BatchCarries(req[r])'
    <3>1. CASE req'[r] = Idle
      BY <1>3, <3>1 DEF BatchUpdateCount, BatchCarries
    <3>2. CASE req'[r] = [x EXCEPT !.at = "batch.save"]
      <4>1. /\ x.row \in Batch /\ x.new \in Batch
            /\ req'[r].row = x.row /\ req'[r].new = x.new /\ req'[r].at = "batch.save"
        BY <1>0, <1>3, <3>2 DEF BatchUpdateCount, BatchCarries
      <4> QED BY <1>3, <4>1 DEF BatchUpdateCount, BatchCarries
    <3> QED BY <1>0, <1>3, <3>1, <3>2 DEF BatchUpdateCount
  <2> QED BY <1>0, <2>1, BatchQuiet
<1>4. CASE BatchUpdateSave(r)
  <2>1. batch' \in Batch /\ UNCHANGED <<members, deleted, now>> /\ req'[r] = Idle
    BY <1>0, <1>4, WrittenBatch DEF BatchUpdateSave, BatchCarries, BatchTypeOK
  <2>2. /\ BatchTypeOK' /\ StayConsistent' /\ BatchCarries(req[r])' /\ now' \in Nat /\ now <= now'
        /\ DOMAIN members \subseteq DOMAIN members'
    BY <1>0, <2>1 DEF BatchInv, BatchTypeOK, StayConsistent, Membership, BatchCarries
  <2> QED BY <1>0, <2>2, BatchKeptByStep
<1>5. ASSUME NEW s \in Students, AssignLoad(r, s) \/ RemoveLoad(r, s) \/ DeleteStudent(r, s)
      PROVE  BatchInv'
  <2>1. UNCHANGED <<batchVars, now>> /\ BatchCarries(req[r])'
    BY <1>0, <1>5 DEF AssignLoad, RemoveLoad, DeleteStudent, BatchCarries
  <2> QED BY <1>0, <2>1, BatchQuiet
<1> QED
  BY <1>1, <1>2, <1>3, <1>4, <1>5, AssignType, RemovalType DEF BatchHandler, UpdateStep, MemberStep

\* Every step keeps the invariant.
LEMMA BatchInvStep ==
  ASSUME BatchInv, [DeliveryNext]_deliveryVars
  PROVE  BatchInv'
<1>1. ASSUME NEW r \in Requests, CourseNext(r), UNCHANGED <<batchVars, now>> PROVE BatchInv'
  <2>1. OnlySlot(r, CourseLabels)
    BY <1>1, CourseHandlers, CourseSlot DEF BatchInv
  <2>2. BatchCarries(req[r])'
    BY <2>1 DEF OnlySlot, CourseLabels, BatchCarries
  <2> QED BY <1>1, <2>1, <2>2, BatchQuiet
<1>2. ASSUME Tick PROVE BatchInv'
  <2>1. now' = now + 1 /\ now' \in 0 .. MaxTime /\ UNCHANGED <<batch, members, deleted, req>>
    BY <1>2, MembershipAssumption DEF Tick, BatchInv, BatchTypeOK, batchVars
  <2>2. Membership \subseteq Membership'
    BY <2>1 DEF BatchInv, BatchTypeOK, Membership
  <2> QED BY <2>1, <2>2 DEF BatchInv, BatchTypeOK, StayConsistent, BatchCarries, Slots
<1>3. CASE UNCHANGED deliveryVars
  BY <1>3 DEF deliveryVars, batchVars, BatchInv, BatchTypeOK, StayConsistent, BatchCarries, Slots,
     Membership
<1> QED BY <1>1, <1>2, <1>3, BatchHandlers, BatchHandlerType DEF DeliveryNext

-----------------------------------------------------------------------------
(* The rules of the batch, with one request at a time: what a request has loaded  *)
(* is what is stored, and there is room for what it is about to do.              *)

\* A request that is alone finds the batch and its count as it loaded them.
BatchCurrent(x) ==
  /\ x.at \in {"batch.count", "batch.save"} => x.row = batch /\ NoEndBefore(x.new)
  /\ x.at = "batch.save" => Holds(x.new.capacity, ActiveCount)
  /\ x.at \in {"assign.student", "assign.count", "assign.membership"}
       => x.capacity = batch.capacity
  /\ x.at = "assign.membership" => x.count = ActiveCount
  /\ x.at = "assign.save" => HasPlace(batch.capacity, ActiveCount)

\* The invariant of the requests taken one at a time.
RulesInv ==
  OneAtATime => /\ Holds(batch.capacity, ActiveCount) /\ NoEndBefore(batch)
                /\ \A r \in Requests : BatchCurrent(req[r])

\* The capacity that a batch may have.
LEMMA CapacityType ==
  ASSUME batch \in Batch
  PROVE  batch.capacity = Null \/ batch.capacity \in Nat \ {0}
<1>1. batch.capacity \in Capacities \cup {Null}
  BY DEF Batch
<1> QED BY <1>1, MembershipAssumption

\* An empty batch is within its capacity.
LEMMA RulesInit == DeliveryInit => RulesInv
<1> SUFFICES ASSUME DeliveryInit PROVE RulesInv
  OBVIOUS
<1>1. \A r \in Requests : req[r].at \in {"idle", "unused"}
  BY DEF DeliveryInit, InitRequests, Idle, Unused
<1>2. ActiveMembers(members) = {}
  BY DEF DeliveryInit, BatchInit, ActiveMembers
<1>3. ActiveCount = 0
  BY <1>2, FS_EmptySet DEF ActiveCount
<1>4. batch \in Batch /\ NoEndBefore(batch)
  BY DEF DeliveryInit, BatchInit
<1>5. Holds(batch.capacity, ActiveCount)
  BY <1>3, <1>4, CapacityType DEF Holds
<1> QED BY <1>1, <1>4, <1>5 DEF RulesInv, BatchCurrent

\* How many members a step may add.
LEMMA ActiveFinite ==
  ASSUME BatchInv
  PROVE  IsFiniteSet(ActiveMembers(members)) /\ ActiveCount \in Nat
<1>1. IsFiniteSet(ActiveMembers(members))
  BY MembershipAssumption, FS_Subset DEF BatchInv, BatchTypeOK, ActiveMembers
<1> QED BY <1>1, FS_CardinalityType DEF ActiveCount

\* With fewer active members the count is not larger.
LEMMA ActiveShrinks ==
  ASSUME BatchInv, ActiveMembers(members') \subseteq ActiveMembers(members)
  PROVE  ActiveCount' \in Nat /\ ActiveCount' <= ActiveCount
<1>1. IsFiniteSet(ActiveMembers(members')) /\ ActiveCount' <= ActiveCount
  BY ActiveFinite, FS_Subset DEF ActiveCount
<1> QED BY <1>1, FS_CardinalityType DEF ActiveCount

\* With one more student the count grows by one at most.
LEMMA ActiveGrows ==
  ASSUME BatchInv, NEW s, ActiveMembers(members') \subseteq ActiveMembers(members) \cup {s}
  PROVE  ActiveCount' \in Nat /\ ActiveCount' <= ActiveCount + 1
<1> DEFINE more == ActiveMembers(members) \cup {s}
<1>1. /\ IsFiniteSet(more)
      /\ Cardinality(more) = IF s \in ActiveMembers(members) THEN ActiveCount ELSE ActiveCount + 1
  BY ActiveFinite, FS_AddElement DEF ActiveCount
<1>2. IsFiniteSet(ActiveMembers(members')) /\ ActiveCount' <= Cardinality(more)
  BY <1>1, FS_Subset DEF ActiveCount
<1>3. Cardinality(more) \in Nat /\ ActiveCount' \in Nat
  BY <1>1, <1>2, FS_CardinalityType DEF ActiveCount
<1> HIDE DEF more
<1> QED BY <1>1, <1>2, <1>3, ActiveFinite

\* Loading a batch for an update leaves it as it is.
LEMMA RulesUpdate ==
  ASSUME BatchInv, NEW r \in Requests, NEW edit, BatchUpdateLoad(r, edit)
  PROVE  BatchCurrent(req[r])' /\ UNCHANGED <<batch, members>>
<1> DEFINE new == Updated(batch, edit)
<1>1. /\ req'[r] = [at |-> IF new.capacity = Null THEN "batch.save" ELSE "batch.count",
                    row |-> batch, new |-> new]
      /\ UNCHANGED <<batchVars, now>> /\ NoEndBefore(new)
  BY DEF BatchUpdateLoad, Begin, BatchInv, Slots
<1> HIDE DEF new
<1> QED BY <1>1 DEF BatchCurrent, batchVars, Holds, ActiveCount

\* A step that leaves the batch alone, and adds nobody.
LEMMA RulesHandler ==
  ASSUME BatchInv, NEW r \in Requests, BatchHandler(r), RulesInv, OneAtATime
  PROVE  /\ BatchCurrent(req[r])'
         /\ Holds(batch.capacity, ActiveCount)' /\ NoEndBefore(batch)'
<1> DEFINE x == req[r]
<1>0. /\ Slots /\ BatchCarries(x) /\ BatchTypeOK /\ BatchCurrent(x)
      /\ Holds(batch.capacity, ActiveCount) /\ NoEndBefore(batch)
  BY DEF BatchInv, RulesInv
<1> USE DEF Begin, Continue, Return, Idle, Slots
<1>1. ASSUME UNCHANGED <<batch, members>>
      PROVE  Holds(batch.capacity, ActiveCount)' /\ NoEndBefore(batch)'
  BY <1>0, <1>1 DEF ActiveCount
<1>2. ASSUME NEW edit, BatchUpdateLoad(r, edit)
      PROVE  BatchCurrent(req[r])' /\ UNCHANGED <<batch, members>>
  BY <1>2, RulesUpdate
<1>3. ASSUME BatchUpdateCount(r)
      PROVE  BatchCurrent(req[r])' /\ UNCHANGED <<batch, members>>
  <2>1. CASE req'[r] = Idle
    BY <1>3, <2>1 DEF BatchUpdateCount, BatchCurrent, batchVars
  <2>2. CASE req'[r] = [x EXCEPT !.at = "batch.save"] /\ Holds(x.new.capacity, ActiveCount)
    <3>1. req'[r].at = "batch.save" /\ req'[r].row = x.row /\ req'[r].new = x.new
      BY <1>0, <2>2
    <3> QED BY <1>0, <1>3, <2>2, <3>1 DEF BatchUpdateCount, BatchCurrent, batchVars, ActiveCount
  <2> QED BY <1>0, <1>3, <2>1, <2>2 DEF BatchUpdateCount
<1>4. CASE BatchUpdateSave(r)
  <2>1. batch' = x.new /\ UNCHANGED members /\ req'[r] = Idle
    BY <1>0, <1>4, WrittenBatch DEF BatchUpdateSave, BatchCarries, BatchCurrent, BatchTypeOK
  <2> QED BY <1>0, <1>4, <2>1 DEF BatchUpdateSave, BatchCurrent, ActiveCount
<1>5. ASSUME NEW s, AssignLoad(r, s) \/ RemoveLoad(r, s) \/ DeleteStudent(r, s)
      PROVE  BatchCurrent(req[r])' /\ UNCHANGED <<batch, members>>
  BY <1>0, <1>5 DEF AssignLoad, RemoveLoad, DeleteStudent, BatchCurrent, batchVars
<1>6. ASSUME AssignStudent(r)
      PROVE  BatchCurrent(req[r])' /\ UNCHANGED <<batch, members>>
  <2>1. CASE req'[r] = Idle
    BY <1>6, <2>1 DEF AssignStudent, BatchCurrent, batchVars
  <2>2. CASE req'[r] = [x EXCEPT !.at = "assign.count"]
    <3>1. req'[r].at = "assign.count" /\ req'[r].capacity = x.capacity
      BY <1>0, <2>2
    <3> QED BY <1>0, <1>6, <3>1 DEF AssignStudent, BatchCurrent, batchVars
  <2> QED BY <1>0, <1>6, <2>1, <2>2 DEF AssignStudent
<1>7. ASSUME AssignCount(r) \/ AssignMembership(r)
      PROVE  BatchCurrent(req[r])' /\ UNCHANGED <<batch, members>>
  BY <1>0, <1>7 DEF AssignCount, AssignMembership, BatchCurrent, batchVars, ActiveCount
<1>8. CASE AssignSave(r)
  <2>1. /\ ActiveMembers(members') \subseteq ActiveMembers(members) \cup {x.s}
        /\ UNCHANGED batch /\ req'[r] = Idle /\ HasPlace(batch.capacity, ActiveCount)
    BY <1>0, <1>8 DEF AssignSave, ActiveMembers, WithRow, BatchCurrent
  <2>2. ActiveCount' \in Nat /\ ActiveCount' <= ActiveCount + 1 /\ ActiveCount \in Nat
    BY <2>1, ActiveGrows, ActiveFinite
  <2>3. Holds(batch.capacity, ActiveCount')
    <3>1. batch.capacity = Null \/ batch.capacity \in Nat
      BY <1>0, CapacityType DEF BatchTypeOK
    <3> QED BY <2>1, <2>2, <3>1 DEF Holds, HasPlace
  <2> QED BY <1>0, <2>1, <2>3 DEF BatchCurrent
<1>9. CASE RemoveSave(r)
  <2> DEFINE new == Written(members[x.s], x.row, [x.row EXCEPT !.status = "removed", !.left = now])
  <2>1. /\ members' = [members EXCEPT ![x.s] = new] /\ x.s \in DOMAIN members
        /\ members[x.s] \in Membership /\ x.row \in Membership
        /\ x.row.status = "active" /\ x.row.left = Null
        /\ UNCHANGED batch /\ req'[r] = Idle
    BY <1>0, <1>9 DEF RemoveSave, BatchCarries, BatchTypeOK
  <2>2. new.status = "removed"
    BY <1>0, <2>1, RemovedMembership
  <2> HIDE DEF new
  <2>3. ActiveMembers(members') \subseteq ActiveMembers(members)
    BY <2>1, <2>2 DEF ActiveMembers
  <2>4. ActiveCount' \in Nat /\ ActiveCount' <= ActiveCount /\ ActiveCount \in Nat
    BY <2>3, ActiveShrinks, ActiveFinite
  <2>5. Holds(batch.capacity, ActiveCount')
    <3>1. batch.capacity = Null \/ batch.capacity \in Nat
      BY <1>0, CapacityType DEF BatchTypeOK
    <3> QED BY <1>0, <2>4, <3>1 DEF Holds
  <2> QED BY <1>0, <2>1, <2>5 DEF BatchCurrent
<1>10. ASSUME RemoveMembership(r) \/ DeleteStudentSave(r)
       PROVE  BatchCurrent(req[r])' /\ UNCHANGED <<batch, members>>
  BY <1>0, <1>10 DEF RemoveMembership, DeleteStudentSave, BatchCurrent, batchVars
<1> HIDE DEF Begin, Continue, Return, Idle, Slots
<1> QED
  BY <1>1, <1>2, <1>3, <1>4, <1>5, <1>6, <1>7, <1>8, <1>9, <1>10
     DEF BatchHandler, UpdateStep, MemberStep

\* Every step keeps the rules.
LEMMA RulesStep ==
  ASSUME BatchInv, RulesInv, [DeliveryNext]_deliveryVars
  PROVE  RulesInv'
<1>1. ASSUME NEW r \in Requests, CourseNext(r), UNCHANGED <<batchVars, now>> PROVE RulesInv'
  <2>1. OnlySlot(r, CourseLabels) /\ "unused" \notin CourseLabels
    BY <1>1, CourseHandlers, CourseSlot DEF BatchInv, CourseLabels
  <2>2. BatchCurrent(req[r])'
    BY <2>1 DEF OnlySlot, CourseLabels, BatchCurrent
  <2> QED BY <1>1, <2>1, <2>2, OneSlot DEF RulesInv, BatchCurrent, batchVars, ActiveCount, Unused
<1>2. ASSUME NEW r \in Requests, BatchNext(r) PROVE RulesInv'
  <2>1. OnlySlot(r, BatchLabels) /\ "unused" \notin BatchLabels /\ BatchHandler(r)
    BY <1>2, BatchHandlers, BatchSlot DEF BatchInv, BatchLabels
  <2> SUFFICES ASSUME OneAtATime' PROVE RulesInv'
    BY DEF RulesInv
  <2>2. OneAtATime /\ \A p \in Requests \ {r} : req'[p] = Unused
    BY <2>1, OneSlot
  <2>3. /\ BatchCurrent(req[r])'
        /\ Holds(batch.capacity, ActiveCount)' /\ NoEndBefore(batch)'
    BY <2>1, <2>2, RulesHandler
  <2> QED BY <2>2, <2>3 DEF RulesInv, BatchCurrent, Unused
<1>3. CASE Tick \/ UNCHANGED deliveryVars
  BY <1>3 DEF Tick, deliveryVars, batchVars, RulesInv, BatchCurrent, OneAtATime, ActiveCount
<1> QED BY <1>1, <1>2, <1>3 DEF DeliveryNext

\* A membership is active just while no departure is on record, with any number of
\* requests in flight; with one at a time the capacity and the dates of the batch
\* hold.
THEOREM BatchKeptCorrect == DeliverySpec => []BatchKept
<1>1. BatchInv /\ RulesInv => BatchKept
  BY DEF BatchInv, RulesInv, BatchKept, CapacityHeld, DatesHeld, Holds
<1> QED
  BY <1>1, BatchInvInit, BatchInvStep, RulesInit, RulesStep, PTL DEF DeliverySpec

-----------------------------------------------------------------------------
(* The course.  What has been found stays: modules and lessons are not deleted,   *)
(* and a lesson stays in its module.                                           *)

\* A payload of reorder_course: where rows wait and where they go.
ModuleMoves(moves) ==
  /\ DOMAIN moves.aside = DOMAIN moves.targets /\ DOMAIN moves.aside \subseteq DOMAIN order
  /\ \A m \in DOMAIN moves.aside : moves.aside[m] \in Nat /\ moves.targets[m] \in Nat

\* A reorder's lessons stay in their module.
LessonMoves(moves) ==
  /\ DOMAIN moves.aside = DOMAIN moves.targets /\ DOMAIN moves.aside \subseteq DOMAIN lessons
  /\ \A l \in DOMAIN moves.aside : /\ moves.aside[l] \in {lessons[l][1]} \X Nat
                                   /\ moves.targets[l] \in {lessons[l][1]} \X Nat

\* What a request in flight carries.
CourseCarries(x) ==
  /\ x.at = "course.save" =>
       /\ x.row \in Course /\ x.new \in Course
       /\ x.new.status = "published" => x.row.status = "published"
  /\ x.at \in {"publish.modules", "publish.lessons"} =>
       x.row \in Course /\ x.row.status # "archived"
  /\ x.at = "publish.lessons" /\ x.unchecked = {} => Taught # {}
  /\ x.at = "module.insert" => x.p \in Nat
  /\ x.at = "module.save" => x.m \in DOMAIN order /\ x.p \in Nat
  /\ x.at \in {"lesson.position", "lesson.insert"} => x.m \in DOMAIN order
  /\ x.at = "lesson.insert" => x.p \in Nat
  /\ x.at = "lesson.save" =>
       x.l \in DOMAIN lessons /\ x.row[1] = lessons[x.l][1] /\ x.p \in Nat
  /\ x.at = "reorder.save" => ModuleMoves(x.modules) /\ LessonMoves(x.lessons)
  /\ x.at = "assigncourse.save" => x.to \in Assignees

\* The tables of a course, and what they say of each other.
RowsInv ==
  /\ course \in Course
  /\ IsTable(order) /\ DOMAIN order \subseteq Modules /\ \A m \in DOMAIN order : order[m] \in Nat
  /\ IsTable(lessons) /\ DOMAIN lessons \subseteq Lessons
  /\ \A l \in DOMAIN lessons : lessons[l] \in (DOMAIN order) \X Nat
  /\ assigned \subseteq Assignees /\ history \in Seq({"draft", "published"})
  /\ PositionsUnique /\ PublishedHasContent

\* The inductive invariant of courses, with any number of requests.
CourseInv == Slots /\ RowsInv /\ \A r \in Requests : CourseCarries(req[r])

\* The invariant gives the types and what holds of any number of requests.
LEMMA CourseTypes == CourseInv => CourseTypeOK /\ PositionsUnique /\ PublishedHasContent
BY DEF CourseInv, RowsInv, CourseTypeOK, Range

\* The course begins as an empty draft.
LEMMA CourseInvInit == DeliveryInit => CourseInv
<1> SUFFICES ASSUME DeliveryInit PROVE CourseInv
  OBVIOUS
<1>1. Slots /\ \A r \in Requests : req[r].at \in {"idle", "unused"}
  BY DEF DeliveryInit, InitRequests, Idle, Unused, Slots
<1>2. order = << >> \/ order = FirstModules
  BY DEF DeliveryInit, CourseInit
<1>3. /\ IsTable(order) /\ DOMAIN order \subseteq Modules /\ \A m \in DOMAIN order : order[m] \in Nat
      /\ Unique(order)
  <2>1. CASE order = << >>
    BY <2>1 DEF IsTable, Unique
  <2>2. CASE order = FirstModules
    <3>1. PICK S : S = DOMAIN FirstModules
      OBVIOUS
    <3>2. FirstModules \in [S -> Nat] /\ S \subseteq Modules /\ Unique(FirstModules)
      BY <3>1, DeliveryAssumption
    <3>3. FirstModules = [i \in S |-> FirstModules[i]]
      BY <3>2
    <3> QED BY <2>2, <3>1, <3>2, <3>3 DEF IsTable
  <2> QED BY <1>2, <2>1, <2>2
<1> QED
  BY <1>1, <1>3 DEF DeliveryInit, CourseInit, CourseInv, RowsInv, CourseCarries, IsTable,
     PositionsUnique, Unique, PublishedHasContent, Course, Statuses

\* Rows are added, and a lesson stays in its module.
CourseGrows ==
  /\ DOMAIN order \subseteq DOMAIN order' /\ DOMAIN lessons \subseteq DOMAIN lessons'
  /\ \A l \in DOMAIN lessons : lessons'[l][1] = lessons[l][1]

\* A module that has a lesson keeps having one.
LEMMA TaughtGrows == CourseGrows => Taught \subseteq Taught'
BY DEF CourseGrows, Taught

\* What the other requests carry stays valid: rows are added and never taken
\* away.
LEMMA CourseKeptByStep ==
  ASSUME CourseInv, NEW r \in Requests, NEW labels, OnlySlot(r, labels), CourseGrows, RowsInv',
         CourseCarries(req[r])'
  PROVE  CourseInv'
<1>1. \A p \in Requests \ {r} : CourseCarries(req[p])'
  <2> SUFFICES ASSUME NEW p \in Requests \ {r} PROVE CourseCarries(req[p])'
    OBVIOUS
  <2>1. req'[p] = req[p] /\ CourseCarries(req[p]) /\ Taught \subseteq Taught'
    BY TaughtGrows DEF OnlySlot, CourseInv
  <2> QED BY <2>1 DEF CourseGrows, CourseCarries, ModuleMoves, LessonMoves
<1> QED BY <1>1 DEF CourseInv, OnlySlot

\* A step that writes nothing keeps the invariant.
LEMMA CourseQuiet ==
  ASSUME CourseInv, NEW r \in Requests, NEW labels, OnlySlot(r, labels), UNCHANGED learn,
         CourseCarries(req[r])'
  PROVE  CourseInv'
<1>1. CourseGrows /\ RowsInv'
  BY DEF learn, CourseGrows, CourseInv, RowsInv, PositionsUnique, PublishedHasContent, Taught
<1> QED BY <1>1, CourseKeptByStep

\* A flushed course row has its type, and is the new row if nobody wrote
\* meanwhile.
LEMMA WrittenCourse ==
  ASSUME NEW current \in Course, NEW row \in Course, NEW new \in Course
  PROVE  /\ Written(current, row, new) \in Course
         /\ Written(current, row, new).status = Flushed(current.status, row.status, new.status)
         /\ row = current => Written(current, row, new) = new
BY DEF Written, Flushed, Course

\* Publishing, archiving and updating a course keep the invariant.
LEMMA StatusSteps ==
  ASSUME CourseInv, NEW r \in Requests, CourseStep(r)
  PROVE  CourseInv'
<1> DEFINE x == req[r]
<1>0. OnlySlot(r, CourseLabels) /\ Slots /\ RowsInv /\ CourseCarries(x)
  BY CourseSlot DEF CourseInv, CourseHandler
<1> USE DEF Begin, Continue, Return, Idle, Slots
<1>1. ASSUME NEW new \in Course, new.status = "published" => course.status = "published",
             SetLoad(r, new)
      PROVE  CourseInv'
  <2>1. /\ UNCHANGED learn
        /\ req'[r].at = "course.save" /\ req'[r].row = course /\ req'[r].new = new
    BY <1>0, <1>1 DEF SetLoad
  <2>2. CourseCarries(req[r])'
    BY <1>0, <1>1, <2>1 DEF CourseCarries, RowsInv
  <2> QED BY <1>0, <2>1, <2>2, CourseQuiet
<1>2. ASSUME NEW status \in Statuses, UpdateCourse(r, status) PROVE CourseInv'
  <2>1. Asked(course, status) \in Course /\ Asked(course, status).status = status
    BY <1>0 DEF Asked, RowsInv, Course
  <2> QED BY <1>1, <1>2, <2>1 DEF UpdateCourse
<1>3. ASSUME ArchiveCourse(r) PROVE CourseInv'
  <2>1. /\ [course EXCEPT !.status = "archived"] \in Course
        /\ [course EXCEPT !.status = "archived"].status = "archived"
    BY <1>0 DEF RowsInv, Course, Statuses
  <2> QED BY <1>1, <1>3, <2>1 DEF ArchiveCourse
<1>4. ASSUME DeleteCourse(r) PROVE CourseInv'
  <2>1. /\ [course EXCEPT !.deleted = TRUE] \in Course
        /\ [course EXCEPT !.deleted = TRUE].status = course.status
    BY <1>0 DEF RowsInv, Course
  <2> QED BY <1>1, <1>4, <2>1 DEF DeleteCourse
<1>5. CASE CourseSave(r)
  <2>1. /\ UNCHANGED <<order, lessons, assigned, history>> /\ req'[r] = Idle
        /\ course' = Written(course, x.row, x.new)
        /\ x.row \in Course /\ x.new \in Course
        /\ x.new.status = "published" => x.row.status = "published"
    BY <1>0, <1>5 DEF CourseSave, CourseCarries
  <2>2. course' \in Course /\ (course'.status = "published" => course.status = "published")
    BY <1>0, <2>1, WrittenCourse DEF RowsInv, Flushed
  <2>3. CourseGrows /\ RowsInv' /\ CourseCarries(req[r])'
    BY <1>0, <2>1, <2>2 DEF CourseGrows, RowsInv, PositionsUnique, PublishedHasContent, Taught,
       CourseCarries
  <2> QED BY <1>0, <2>3, CourseKeptByStep
<1>6. CASE PublishLoad(r)
  <2>1. UNCHANGED learn /\ CourseCarries(req[r])'
    BY <1>0, <1>6 DEF PublishLoad, CourseCarries, RowsInv, Publishable
  <2> QED BY <1>0, <2>1, CourseQuiet
<1>7. CASE PublishModules(r)
  <2>1. UNCHANGED learn
    BY <1>7 DEF PublishModules
  <2>2. CourseCarries(req[r])'
    <3>1. order # << >> => DOMAIN order # {}
      BY <1>0, EmptyTable DEF RowsInv
    <3>2. CASE req'[r] = Idle
      BY <3>2 DEF CourseCarries
    <3>3. CASE /\ order # << >>
               /\ req'[r] = [at |-> "publish.lessons", row |-> x.row, unchecked |-> DOMAIN order]
      <4>1. x.row \in Course /\ x.row.status # "archived"
        BY <1>0, <1>7 DEF PublishModules, CourseCarries
      <4>2. /\ req'[r].at = "publish.lessons" /\ req'[r].row = x.row
            /\ req'[r].unchecked # {}
        BY <3>1, <3>3
      <4> QED BY <4>1, <4>2 DEF CourseCarries
    <3> QED BY <1>0, <1>7, <3>2, <3>3 DEF PublishModules
  <2> QED BY <1>0, <2>1, <2>2, CourseQuiet
<1>8. ASSUME NEW m, PublishLessons(r, m) PROVE CourseInv'
  <2>1. UNCHANGED learn
    BY <1>8 DEF PublishLessons
  <2>2. CASE req'[r] = Idle
    <3>1. CourseCarries(req[r])'
      BY <2>2 DEF CourseCarries
    <3> QED BY <1>0, <2>1, <3>1, CourseQuiet
  <2>3. CASE m \in Taught /\ req'[r] = [x EXCEPT !.unchecked = @ \ {m}]
    <3>1. req'[r].at = x.at /\ req'[r].row = x.row /\ x.at = "publish.lessons"
      BY <1>0, <1>8, <2>3 DEF PublishLessons
    <3>2. Taught' = Taught
      BY <2>1 DEF learn, Taught
    <3>3. CourseCarries(req[r])'
      BY <1>0, <2>3, <3>1, <3>2 DEF CourseCarries
    <3> QED BY <1>0, <2>1, <3>3, CourseQuiet
  <2> QED BY <1>0, <1>8, <2>2, <2>3 DEF PublishLessons
<1>9. CASE PublishSave(r)
  <2>1. /\ UNCHANGED <<order, lessons, assigned>> /\ req'[r] = Idle /\ Taught # {}
        /\ x.row \in Course /\ x.row.status # "archived"
    BY <1>0, <1>9 DEF PublishSave, CourseCarries
  <2>2. /\ [x.row EXCEPT !.status = "published"] \in Course
        /\ x.row.status \in {"draft", "published"}
    BY <2>1 DEF Course, Statuses
  <2>3. course' \in Course
    <3> DEFINE written == Written(course, x.row, [x.row EXCEPT !.status = "published"])
    <3>1. written \in Course
      BY <1>0, <2>1, <2>2, WrittenCourse DEF RowsInv
    <3> HIDE DEF written
    <3>2. [written EXCEPT !.stamped = TRUE] \in Course
      BY <3>1 DEF Course
    <3> QED BY <1>0, <1>9, <3>2 DEF PublishSave, RowsInv, written
  <2>4. history' \in Seq({"draft", "published"})
    <3>1. history \in Seq({"draft", "published"})
      BY <1>0 DEF RowsInv
    <3>2. history' = history \/ history' = Append(history, x.row.status)
      BY <1>9 DEF PublishSave
    <3> QED BY <2>2, <3>1, <3>2
  <2>5. CourseGrows /\ RowsInv' /\ CourseCarries(req[r])'
    BY <1>0, <2>1, <2>3, <2>4 DEF CourseGrows, RowsInv, PositionsUnique, PublishedHasContent,
       Taught, CourseCarries
  <2> QED BY <1>0, <2>5, CourseKeptByStep
<1> HIDE DEF Begin, Continue, Return, Idle, Slots
<1> QED BY <1>2, <1>3, <1>4, <1>5, <1>6, <1>7, <1>8, <1>9 DEF CourseStep

-----------------------------------------------------------------------------
(* Positions.                                                                 *)

\* The next position is a number after the others.
LEMMA NextAfterType ==
  ASSUME NEW S, S \subseteq Nat, IsFiniteSet(S)
  PROVE  NextAfter(S) \in Nat /\ \A p \in S : p <= NextAfter(S)
<1>1. CASE S = {}
  BY <1>1 DEF NextAfter
<1>2. CASE S # {}
  <2>1. \E m \in S : \A n \in S : m >= n
    BY <1>2, Greatest
  <2>2. Max(S) \in S /\ \A n \in S : Max(S) >= n
    BY <2>1 DEF Max
  <2>3. Max(S) \in Nat /\ \A n \in S : n \in Nat /\ n <= Max(S)
    BY <2>2
  <2>4. NextAfter(S) = Max(S) + 1
    BY <1>2 DEF NextAfter
  <2> HIDE DEF Max
  <2> QED BY <2>3, <2>4
<1> QED BY <1>1, <1>2

\* A function with a finite domain has a finite range.
LEMMA FiniteRange ==
  ASSUME NEW f, IsFiniteSet(DOMAIN f)
  PROVE  IsFiniteSet(Range(f))
<1>1. [i \in DOMAIN f |-> f[i]] \in Surjection(DOMAIN f, Range(f))
  BY DEF Surjection, Range
<1> QED BY <1>1, FS_Surjection

\* There are finitely many modules and lessons.
LEMMA TablesFinite ==
  ASSUME RowsInv
  PROVE  IsFiniteSet(DOMAIN order) /\ IsFiniteSet(DOMAIN lessons)
BY CourseAssumption, FS_Subset DEF RowsInv

\* The next position in a course is a natural number.
LEMMA NextPositionType == ASSUME RowsInv PROVE NextPosition \in Nat
<1>1. Range(order) \subseteq Nat /\ IsFiniteSet(Range(order))
  BY TablesFinite, FiniteRange DEF RowsInv, Range
<1> QED BY <1>1, NextAfterType DEF NextPosition

\* So is the next one in a module.
LEMMA NextLessonType == ASSUME RowsInv, NEW m PROVE NextLesson(m) \in Nat
<1> DEFINE ls == {k \in DOMAIN lessons : lessons[k][1] = m}
           f == [l \in ls |-> lessons[l][2]]
<1>1. IsFiniteSet(ls)
  BY TablesFinite, FS_Subset
<1>2. {lessons[l][2] : l \in ls} = Range(f) /\ DOMAIN f = ls
  BY DEF Range
<1>3. Range(f) \subseteq Nat
  BY DEF RowsInv, Range
<1> HIDE DEF f
<1>4. IsFiniteSet(Range(f))
  BY <1>1, <1>2, FiniteRange
<1>5. NextAfter(Range(f)) \in Nat
  BY <1>3, <1>4, NextAfterType
<1> QED BY <1>2, <1>5 DEF NextLesson

\* A row that is inserted or moved to a place that is not taken.
LEMMA PlacedUnique ==
  ASSUME NEW rows, Unique(rows), NEW i, NEW place, ~Taken(rows, i, place)
  PROVE  /\ i \notin DOMAIN rows => Unique(WithRow(rows, i, place))
         /\ Unique([rows EXCEPT ![i] = place])
BY DEF Unique, Taken, WithRow

\* Rows that are written one after the other have different places in the end.
LEMMA ReorderedUnique ==
  ASSUME NEW rows, Unique(rows), NEW aside, NEW placed, DOMAIN aside = DOMAIN placed,
         DOMAIN placed \subseteq Nat, IsFiniteSet(DOMAIN placed), Reordered(rows, aside, placed)
  PROVE  Unique(Updated(rows, placed))
<1>1. CASE DOMAIN placed = {}
  BY <1>1 DEF Updated, Unique
<1>2. CASE DOMAIN placed # {}
  <2>1. PICK m \in DOMAIN placed : \A n \in DOMAIN placed : n <= m
    BY <1>2, Greatest
  <2> DEFINE last == WrittenTo(Updated(rows, aside), placed, m)
  <2>2. Unique(last)
    BY <2>1 DEF Reordered, CanWrite
  <2>3. /\ DOMAIN last = DOMAIN Updated(rows, placed)
        /\ \A n \in DOMAIN last : last[n] = Updated(rows, placed)[n]
    BY <2>1 DEF WrittenTo, Updated
  <2> HIDE DEF last
  <2> QED BY <2>2, <2>3 DEF Unique
<1> QED BY <1>1, <1>2

\* What a payload of reorder_course names, and where its rows wait.
Payload(rows, moves) ==
  /\ DOMAIN moves.ids \subseteq Nat \ {0} /\ Range(moves.ids) \subseteq DOMAIN rows
  /\ DOMAIN moves.places = Range(moves.ids)
  /\ \A i \in DOMAIN moves.places : moves.places[i] \in Nat

\* A reorder of nothing is a legal payload.
LEMMA NoMovePayload == ASSUME NEW rows PROVE Payload(rows, NoMove)
BY DEF Payload, NoMove, Range

\* So is every reorder of rows that are there.
LEMMA ReordersPayload ==
  ASSUME NEW rows, IsFiniteSet(DOMAIN rows), NEW moves \in Reorders(rows)
  PROVE  Payload(rows, moves)
<1>1. Cardinality(DOMAIN rows) \in Nat
  BY FS_CardinalityType
<1>2. PICK ids \in UNION {[1..n -> DOMAIN rows] : n \in 0..Cardinality(DOMAIN rows)} :
        \E places \in [Range(ids) -> Positions] : moves = [ids |-> ids, places |-> places]
  BY DEF Reorders
<1>3. PICK n \in 0..Cardinality(DOMAIN rows) : ids \in [1..n -> DOMAIN rows]
  BY <1>2
<1>0. PICK places \in [Range(ids) -> Positions] : moves = [ids |-> ids, places |-> places]
  BY <1>2
<1>4. DOMAIN ids \subseteq Nat \ {0} /\ Range(ids) \subseteq DOMAIN rows
  BY <1>1, <1>3 DEF Range
<1>5. DOMAIN places = Range(ids) /\ \A i \in DOMAIN places : places[i] \in Nat
  BY CourseAssumption
<1> QED BY <1>0, <1>4, <1>5 DEF Payload

\* So is turning the order around.
LEMMA TurnedPayload == ASSUME RowsInv PROVE Payload(order, Turned(order))
<1>1. Range(order) \subseteq Nat /\ IsFiniteSet(Range(order))
  BY TablesFinite, FiniteRange DEF RowsInv, Range
<1>2. \A m \in DOMAIN order : /\ order[m] \in Nat /\ NextAfter(Range(order)) \in Nat
                              /\ order[m] <= NextAfter(Range(order))
  BY <1>1, NextAfterType DEF RowsInv, Range
<1>3. \A m \in DOMAIN order : NextAfter(Range(order)) - order[m] \in Nat
  BY <1>2
<1> QED BY <1>3, CourseAssumption DEF Payload, Turned, RowsInv, Range

\* The positions that rows are moved aside to are above Aside, each row's its
\* own.
LEMMA MovedAsideType ==
  ASSUME NEW ids, DOMAIN ids \subseteq Nat \ {0}
  PROVE  /\ DOMAIN MovedAside(ids) = Range(ids)
         /\ \A i \in Range(ids) : MovedAside(ids)[i] \in Nat /\ MovedAside(ids)[i] > Aside
         /\ \A i, j \in Range(ids) : MovedAside(ids)[i] = MovedAside(ids)[j] => i = j
<1> DEFINE k(i) == CHOOSE k \in DOMAIN ids : ids[k] = i
<1>1. \A i \in Range(ids) : k(i) \in DOMAIN ids /\ ids[k(i)] = i
  BY DEF Range
<1>2. \A i \in Range(ids) : k(i) \in Nat /\ k(i) > 0
  BY <1>1
<1>3. DOMAIN MovedAside(ids) = Range(ids) /\ \A i \in Range(ids) : MovedAside(ids)[i] = Aside + k(i)
  BY DEF MovedAside
<1> HIDE DEF k
<1> QED BY <1>1, <1>2, <1>3, CourseAssumption

\* What a reorder will write: every row where it is, aside, or at its target.
LEMMA ReorderLoadMoves ==
  ASSUME RowsInv, NEW modules, Payload(order, modules), NEW ls, Payload(lessons, ls)
  PROVE  /\ ModuleMoves(Moves(order, MovedAside(modules.ids), modules.places))
         /\ LessonMoves(Moves(lessons, InModules(MovedAside(ls.ids)), InModules(ls.places)))
<1>1. /\ DOMAIN MovedAside(modules.ids) = DOMAIN modules.places
      /\ DOMAIN modules.places \subseteq DOMAIN order
      /\ \A m \in DOMAIN modules.places : MovedAside(modules.ids)[m] \in Nat /\ modules.places[m] \in Nat
  BY MovedAsideType DEF Payload
<1>2. /\ DOMAIN MovedAside(ls.ids) = DOMAIN ls.places
      /\ DOMAIN ls.places \subseteq DOMAIN lessons
      /\ \A l \in DOMAIN ls.places : MovedAside(ls.ids)[l] \in Nat /\ ls.places[l] \in Nat
  BY MovedAsideType DEF Payload
<1> QED BY <1>1, <1>2 DEF ModuleMoves, LessonMoves, Moves, InModules

-----------------------------------------------------------------------------
(* The handlers of modules and lessons.                                       *)

\* A step that writes modules, at places that are not taken.
LEMMA OrderWritten ==
  ASSUME CourseInv, NEW r \in Requests, NEW labels, OnlySlot(r, labels),
         UNCHANGED <<course, lessons, assigned, history>>, CourseCarries(req[r])',
         IsTable(order'), DOMAIN order \subseteq DOMAIN order', DOMAIN order' \subseteq Modules,
         \A m \in DOMAIN order' : order'[m] \in Nat, Unique(order')
  PROVE  CourseInv'
<1>1. RowsInv /\ Taught' = Taught
  BY DEF CourseInv, Taught
<1>2. CourseGrows
  BY DEF CourseGrows
<1>3. \A l \in DOMAIN lessons' : lessons'[l] \in (DOMAIN order') \X Nat
  BY <1>1 DEF RowsInv
<1>4. PositionsUnique' /\ PublishedHasContent'
  BY <1>1 DEF RowsInv, PositionsUnique, PublishedHasContent
<1>5. RowsInv'
  BY <1>1, <1>3, <1>4 DEF RowsInv
<1> QED BY <1>2, <1>5, CourseKeptByStep

\* A step that writes lessons, which stay in their modules.
LEMMA LessonsWritten ==
  ASSUME CourseInv, NEW r \in Requests, NEW labels, OnlySlot(r, labels),
         UNCHANGED <<course, order, assigned, history>>, CourseCarries(req[r])',
         IsTable(lessons'), DOMAIN lessons \subseteq DOMAIN lessons',
         DOMAIN lessons' \subseteq Lessons,
         \A l \in DOMAIN lessons' : lessons'[l] \in (DOMAIN order) \X Nat,
         \A l \in DOMAIN lessons : lessons'[l][1] = lessons[l][1], Unique(lessons')
  PROVE  CourseInv'
<1>1. RowsInv
  BY DEF CourseInv
<1>2. CourseGrows
  BY DEF CourseGrows
<1>3. PositionsUnique' /\ PublishedHasContent'
  BY <1>1, <1>2, TaughtGrows DEF RowsInv, PositionsUnique, PublishedHasContent
<1>4. RowsInv'
  BY <1>1, <1>3 DEF RowsInv
<1> QED BY <1>2, <1>4, CourseKeptByStep

\* The handlers of modules.
ModuleHandler(r) ==
  \/ \E position \in Positions \cup {Null} : CreateModuleLoad(r, position)
  \/ CreateModulePosition(r) \/ \E m \in Modules : CreateModuleInsert(r, m)
  \/ \E m \in Modules, p \in Positions : UpdateModuleLoad(r, m, p)
  \/ UpdateModuleSave(r)

\* They keep the invariant: the unique constraint refuses a position that is
\* taken.
LEMMA ModuleSteps ==
  ASSUME CourseInv, NEW r \in Requests, ModuleHandler(r)
  PROVE  CourseInv'
<1> DEFINE x == req[r]
<1>0. OnlySlot(r, CourseLabels) /\ Slots /\ RowsInv /\ CourseCarries(x)
  BY CourseSlot DEF CourseInv, CourseHandler, ModuleHandler
<1> USE DEF Begin, Continue, Return, Idle, Slots
<1>1. ASSUME NEW p \in Positions \cup {Null}, CreateModuleLoad(r, p) PROVE CourseInv'
  <2>1. UNCHANGED learn /\ CourseCarries(req[r])'
    BY <1>0, <1>1, CourseAssumption DEF CreateModuleLoad, CourseCarries
  <2> QED BY <1>0, <2>1, CourseQuiet
<1>2. CASE CreateModulePosition(r)
  <2>1. UNCHANGED learn /\ CourseCarries(req[r])'
    BY <1>0, <1>2, NextPositionType DEF CreateModulePosition, CourseCarries
  <2> QED BY <1>0, <2>1, CourseQuiet
<1>3. ASSUME NEW m \in Modules, CreateModuleInsert(r, m) PROVE CourseInv'
  <2>1. /\ UNCHANGED <<course, lessons, assigned, history>> /\ CourseCarries(req[r])'
        /\ m \notin DOMAIN order /\ x.p \in Nat
    BY <1>0, <1>3 DEF CreateModuleInsert, CourseCarries
  <2>2. CASE Taken(order, m, x.p)
    <3>1. order' = order
      BY <1>3, <2>2 DEF CreateModuleInsert
    <3> QED BY <1>0, <2>1, <3>1, CourseQuiet DEF learn
  <2>3. CASE ~Taken(order, m, x.p)
    <3>1. order' = WithRow(order, m, x.p) /\ Unique(order')
      BY <1>0, <1>3, <2>1, <2>3, PlacedUnique DEF CreateModuleInsert, RowsInv, PositionsUnique
    <3>2. /\ IsTable(order') /\ DOMAIN order' = DOMAIN order \cup {m}
          /\ \A k \in DOMAIN order' : order'[k] \in Nat
      BY <1>0, <2>1, <3>1 DEF WithRow, IsTable, RowsInv
    <3>3. DOMAIN order \subseteq DOMAIN order' /\ DOMAIN order' \subseteq Modules
      BY <1>0, <3>2 DEF RowsInv
    <3> QED BY <1>0, <2>1, <3>1, <3>2, <3>3, OrderWritten
  <2> QED BY <2>2, <2>3
<1>4. ASSUME NEW m \in Modules, NEW p \in Positions, UpdateModuleLoad(r, m, p) PROVE CourseInv'
  <2>1. UNCHANGED learn /\ CourseCarries(req[r])'
    BY <1>0, <1>4, CourseAssumption DEF UpdateModuleLoad, CourseCarries, learn
  <2> QED BY <1>0, <2>1, CourseQuiet
<1>5. CASE UpdateModuleSave(r)
  <2> DEFINE p == Flushed(order[x.m], x.row, x.p)
  <2>1. /\ UNCHANGED <<course, lessons, assigned, history>> /\ CourseCarries(req[r])'
        /\ x.m \in DOMAIN order /\ p \in Nat
    BY <1>0, <1>5 DEF UpdateModuleSave, CourseCarries, RowsInv, Flushed
  <2>2. order' = IF Taken(order, x.m, p) THEN order ELSE [order EXCEPT ![x.m] = p]
    BY <1>5 DEF UpdateModuleSave
  <2> HIDE DEF p
  <2>3. CASE Taken(order, x.m, p)
    BY <1>0, <2>1, <2>2, <2>3, CourseQuiet DEF learn
  <2>4. CASE ~Taken(order, x.m, p)
    <3>1. order' = [order EXCEPT ![x.m] = p] /\ Unique(order')
      BY <1>0, <2>2, <2>4, PlacedUnique DEF RowsInv, PositionsUnique
    <3>2. /\ IsTable(order') /\ DOMAIN order' = DOMAIN order
          /\ \A k \in DOMAIN order' : order'[k] \in Nat
      BY <1>0, <2>1, <3>1 DEF IsTable, RowsInv
    <3>3. DOMAIN order \subseteq DOMAIN order' /\ DOMAIN order' \subseteq Modules
      BY <1>0, <3>2 DEF RowsInv
    <3> QED BY <1>0, <2>1, <3>1, <3>2, <3>3, OrderWritten
  <2> QED BY <2>3, <2>4
<1> HIDE DEF Begin, Continue, Return, Idle, Slots
<1> QED BY <1>1, <1>2, <1>3, <1>4, <1>5 DEF ModuleHandler

\* The handlers of lessons.
LessonHandler(r) ==
  \/ \E m \in Modules, p \in Positions \cup {Null} : CreateLessonLoad(r, m, p)
  \/ CreateLessonPosition(r) \/ \E l \in Lessons : CreateLessonInsert(r, l)
  \/ \E l \in Lessons, p \in Positions : UpdateLessonLoad(r, l, p)
  \/ UpdateLessonSave(r)

\* They keep it for the same reason.
LEMMA LessonSteps ==
  ASSUME CourseInv, NEW r \in Requests, LessonHandler(r)
  PROVE  CourseInv'
<1> DEFINE x == req[r]
<1>0. OnlySlot(r, CourseLabels) /\ Slots /\ RowsInv /\ CourseCarries(x)
  BY CourseSlot DEF CourseInv, CourseHandler, LessonHandler
<1> USE DEF Begin, Continue, Return, Idle, Slots
<1>1. ASSUME NEW m \in Modules, NEW p \in Positions \cup {Null}, CreateLessonLoad(r, m, p)
      PROVE  CourseInv'
  <2>1. UNCHANGED learn /\ CourseCarries(req[r])'
    BY <1>0, <1>1, CourseAssumption DEF CreateLessonLoad, CourseCarries, learn
  <2> QED BY <1>0, <2>1, CourseQuiet
<1>2. CASE CreateLessonPosition(r)
  <2>1. UNCHANGED learn /\ x.at = "lesson.position"
        /\ req'[r] = [x EXCEPT !.at = "lesson.insert", !.p = NextLesson(x.m)]
    BY <1>0, <1>2 DEF CreateLessonPosition
  <2>2. req'[r].at = "lesson.insert" /\ req'[r].m = x.m /\ req'[r].p = NextLesson(x.m)
    BY <1>0, <2>1
  <2>3. CourseCarries(req[r])'
    BY <1>0, <2>1, <2>2, NextLessonType DEF CourseCarries, learn
  <2> QED BY <1>0, <2>1, <2>3, CourseQuiet
<1>3. ASSUME NEW l \in Lessons, CreateLessonInsert(r, l) PROVE CourseInv'
  <2> DEFINE place == <<x.m, x.p>>
  <2>1. /\ UNCHANGED <<course, order, assigned, history>> /\ CourseCarries(req[r])'
        /\ l \notin DOMAIN lessons /\ place \in (DOMAIN order) \X Nat
    BY <1>0, <1>3 DEF CreateLessonInsert, CourseCarries
  <2>2. lessons' = IF Taken(lessons, l, place) THEN lessons ELSE WithRow(lessons, l, place)
    BY <1>3 DEF CreateLessonInsert
  <2> HIDE DEF place
  <2>3. CASE Taken(lessons, l, place)
    BY <1>0, <2>1, <2>2, <2>3, CourseQuiet DEF learn
  <2>4. CASE ~Taken(lessons, l, place)
    <3>1. lessons' = WithRow(lessons, l, place) /\ Unique(lessons')
      BY <1>0, <2>1, <2>2, <2>4, PlacedUnique DEF RowsInv, PositionsUnique
    <3>2. /\ IsTable(lessons') /\ DOMAIN lessons' = DOMAIN lessons \cup {l}
          /\ \A k \in DOMAIN lessons' : lessons'[k] \in (DOMAIN order) \X Nat
          /\ \A k \in DOMAIN lessons : lessons'[k] = lessons[k]
      BY <1>0, <2>1, <3>1 DEF WithRow, IsTable, RowsInv
    <3>3. /\ DOMAIN lessons \subseteq DOMAIN lessons' /\ DOMAIN lessons' \subseteq Lessons
          /\ \A k \in DOMAIN lessons : lessons'[k][1] = lessons[k][1]
      BY <1>0, <3>2 DEF RowsInv
    <3> QED BY <1>0, <2>1, <3>1, <3>2, <3>3, LessonsWritten
  <2> QED BY <2>3, <2>4
<1>4. ASSUME NEW l \in Lessons, NEW p \in Positions, UpdateLessonLoad(r, l, p) PROVE CourseInv'
  <2>1. UNCHANGED learn /\ CourseCarries(req[r])'
    BY <1>0, <1>4, CourseAssumption DEF UpdateLessonLoad, CourseCarries, learn
  <2> QED BY <1>0, <2>1, CourseQuiet
<1>5. CASE UpdateLessonSave(r)
  <2> DEFINE place == Flushed(lessons[x.l], x.row, <<x.row[1], x.p>>)
  <2>1. /\ UNCHANGED <<course, order, assigned, history>> /\ CourseCarries(req[r])'
        /\ x.l \in DOMAIN lessons /\ x.row[1] = lessons[x.l][1] /\ x.p \in Nat
        /\ lessons[x.l] \in (DOMAIN order) \X Nat
    BY <1>0, <1>5 DEF UpdateLessonSave, CourseCarries, RowsInv
  <2>2. place \in (DOMAIN order) \X Nat /\ place[1] = lessons[x.l][1]
    BY <2>1 DEF Flushed
  <2>3. lessons' = IF Taken(lessons, x.l, place) THEN lessons ELSE [lessons EXCEPT ![x.l] = place]
    BY <1>5 DEF UpdateLessonSave
  <2> HIDE DEF place
  <2>4. CASE Taken(lessons, x.l, place)
    BY <1>0, <2>1, <2>3, <2>4, CourseQuiet DEF learn
  <2>5. CASE ~Taken(lessons, x.l, place)
    <3>1. lessons' = [lessons EXCEPT ![x.l] = place] /\ Unique(lessons')
      BY <1>0, <2>3, <2>5, PlacedUnique DEF RowsInv, PositionsUnique
    <3>2. /\ IsTable(lessons') /\ DOMAIN lessons' = DOMAIN lessons
          /\ \A k \in DOMAIN lessons' : lessons'[k] \in (DOMAIN order) \X Nat
          /\ \A k \in DOMAIN lessons : lessons'[k][1] = lessons[k][1]
      BY <1>0, <2>1, <2>2, <3>1 DEF IsTable, RowsInv
    <3>3. DOMAIN lessons \subseteq DOMAIN lessons' /\ DOMAIN lessons' \subseteq Lessons
      BY <1>0, <3>2 DEF RowsInv
    <3> QED BY <1>0, <2>1, <3>1, <3>2, <3>3, LessonsWritten
  <2> QED BY <2>4, <2>5
<1> HIDE DEF Begin, Continue, Return, Idle, Slots
<1> QED BY <1>1, <1>2, <1>3, <1>4, <1>5 DEF LessonHandler

-----------------------------------------------------------------------------
(* reorder_course and the assignments; then every step.                       *)

\* The rows a reorder writes are those it was asked for.
LEMMA PlacedValues ==
  ASSUME NEW rows, NEW moves
  PROVE  /\ DOMAIN AsideIn(rows, moves) = DOMAIN moves.aside
         /\ DOMAIN PlacedIn(rows, moves) = DOMAIN moves.aside
         /\ \A i \in DOMAIN moves.aside :
              PlacedIn(rows, moves)[i] \in {rows[i], moves.aside[i], moves.targets[i]}
<1>1. /\ DOMAIN AsideIn(rows, moves) = DOMAIN moves.aside
      /\ \A i \in DOMAIN moves.aside : AsideIn(rows, moves)[i] \in {rows[i], moves.aside[i]}
  BY DEF AsideIn, Flushed
<1>2. /\ DOMAIN PlacedIn(rows, moves) = DOMAIN moves.aside
      /\ \A i \in DOMAIN moves.aside :
           PlacedIn(rows, moves)[i] \in {AsideIn(rows, moves)[i], moves.targets[i]}
  BY DEF PlacedIn, Flushed
<1> QED BY <1>1, <1>2

\* A table after new values for some of its rows.
LEMMA UpdatedRows ==
  ASSUME NEW rows, NEW placed, DOMAIN placed \subseteq DOMAIN rows
  PROVE  /\ IsTable(Updated(rows, placed)) /\ DOMAIN Updated(rows, placed) = DOMAIN rows
         /\ \A i \in DOMAIN rows :
              Updated(rows, placed)[i] = IF i \in DOMAIN placed THEN placed[i] ELSE rows[i]
BY DEF Updated, IsTable

\* A reorder that the unique constraints let through keeps the positions unique, and
\* every lesson in its module.
LEMMA ReorderKeeps ==
  ASSUME CourseInv, NEW r \in Requests, ReorderSave(r)
  PROVE  CourseInv'
<1> DEFINE x == req[r]
<1>0. OnlySlot(r, CourseLabels) /\ Slots /\ RowsInv /\ CourseCarries(x)
  BY CourseSlot DEF CourseInv, CourseHandler
<1>1. /\ ModuleMoves(x.modules) /\ LessonMoves(x.lessons) /\ CourseCarries(req[r])'
      /\ UNCHANGED <<course, assigned, history>>
  BY <1>0 DEF ReorderSave, CourseCarries, Return, Idle, Slots
<1> DEFINE om == x.modules  lm == x.lessons
<1>2. CASE UNCHANGED <<order, lessons>>
  BY <1>0, <1>1, <1>2, CourseQuiet DEF learn
<1>3. CASE /\ Accepted(order, om) /\ Accepted(lessons, lm)
           /\ order' = Updated(order, PlacedIn(order, om))
           /\ lessons' = Updated(lessons, PlacedIn(lessons, lm))
  <2>1. Unique(order')
    <3>1. DOMAIN om.aside \subseteq Nat /\ IsFiniteSet(DOMAIN om.aside)
      BY <1>0, <1>1, TablesFinite, CourseAssumption, FS_Subset DEF ModuleMoves, RowsInv
    <3> QED BY <1>0, <1>3, <3>1, PlacedValues, ReorderedUnique
            DEF Accepted, RowsInv, PositionsUnique
  <2>2. Unique(lessons')
    <3>1. DOMAIN lm.aside \subseteq Nat /\ IsFiniteSet(DOMAIN lm.aside)
      BY <1>0, <1>1, TablesFinite, CourseAssumption, FS_Subset DEF LessonMoves, RowsInv
    <3> QED BY <1>0, <1>3, <3>1, PlacedValues, ReorderedUnique
            DEF Accepted, RowsInv, PositionsUnique
  <2>3. /\ IsTable(order') /\ DOMAIN order' = DOMAIN order
        /\ \A m \in DOMAIN order' : order'[m] \in Nat
    BY <1>0, <1>1, <1>3, PlacedValues, UpdatedRows DEF ModuleMoves, RowsInv
  <2>4. /\ IsTable(lessons') /\ DOMAIN lessons' = DOMAIN lessons
        /\ \A l \in DOMAIN lessons : lessons'[l] \in {lessons[l][1]} \X Nat
    <3>1. \A l \in DOMAIN lessons : lessons[l] \in {lessons[l][1]} \X Nat
      BY <1>0 DEF RowsInv
    <3> QED BY <1>1, <1>3, <3>1, PlacedValues, UpdatedRows DEF LessonMoves
  <2>5. \A l \in DOMAIN lessons : /\ lessons'[l] \in (DOMAIN order') \X Nat
                                  /\ lessons'[l][1] = lessons[l][1]
    <3>1. \A l \in DOMAIN lessons : lessons[l][1] \in DOMAIN order
      BY <1>0 DEF RowsInv
    <3> QED BY <2>3, <2>4, <3>1
  <2>6. CourseGrows
    BY <2>3, <2>4, <2>5 DEF CourseGrows
  <2>7. PublishedHasContent'
    BY <1>0, <1>1, <2>6, TaughtGrows DEF RowsInv, PublishedHasContent
  <2>8. RowsInv'
    BY <1>0, <1>1, <2>1, <2>2, <2>3, <2>4, <2>5, <2>7 DEF RowsInv, PositionsUnique
  <2> QED BY <1>0, <1>1, <2>6, <2>8, CourseKeptByStep
<1> QED BY <1>2, <1>3 DEF ReorderSave

\* A reorder that begins has a legal payload.
LEMMA ReorderStarts ==
  ASSUME CourseInv, NEW r \in Requests, NEW modules, NEW ls, Reorder(r, modules, ls),
         Payload(order, modules), Payload(lessons, ls)
  PROVE  CourseInv' /\ UNCHANGED learn
<1>0. Slots /\ RowsInv
  BY DEF CourseInv
<1>1. /\ UNCHANGED learn /\ req'[r].at = "reorder.save"
      /\ req'[r].modules = Moves(order, MovedAside(modules.ids), modules.places)
      /\ req'[r].lessons = Moves(lessons, InModules(MovedAside(ls.ids)), InModules(ls.places))
      /\ req[r] = Idle /\ req' = [req EXCEPT ![r] = req'[r]]
  BY <1>0 DEF Reorder, ReorderLoad, Begin, Slots
<1>2. ModuleMoves(req'[r].modules) /\ LessonMoves(req'[r].lessons)
  BY <1>0, <1>1, ReorderLoadMoves
<1>3. (ModuleMoves(req[r].modules) /\ LessonMoves(req[r].lessons))'
  BY <1>1, <1>2 DEF ModuleMoves, LessonMoves, learn
<1>4. CourseCarries(req[r])'
  BY <1>1, <1>3 DEF CourseCarries
<1>5. OnlySlot(r, CourseLabels)
  BY <1>0, <1>1 DEF Reorder, ReorderLoad, OnlySlot, CourseLabels, Begin, Idle, Slots
<1> QED BY <1>1, <1>4, <1>5, CourseQuiet

\* Assigning a course keeps the invariant.
LEMMA AssignSteps ==
  ASSUME CourseInv, NEW r \in Requests, AssignStep(r)
  PROVE  CourseInv'
<1> DEFINE x == req[r]
<1>0. OnlySlot(r, CourseLabels) /\ Slots /\ RowsInv /\ CourseCarries(x)
  BY CourseSlot DEF CourseInv, CourseHandler
<1> USE DEF Begin, Return, Idle, Slots
<1>1. ASSUME NEW a \in Assignees, AssignCourseLoad(r, a) PROVE CourseInv'
  <2>1. UNCHANGED learn /\ CourseCarries(req[r])'
    BY <1>0, <1>1 DEF AssignCourseLoad, CourseCarries
  <2> QED BY <1>0, <2>1, CourseQuiet
<1>2. CASE AssignCourseSave(r)
  <2>1. /\ UNCHANGED <<course, order, lessons, history>> /\ CourseCarries(req[r])'
        /\ assigned' \subseteq Assignees
    BY <1>0, <1>2 DEF AssignCourseSave, CourseCarries, RowsInv
  <2>2. CourseGrows /\ RowsInv'
    BY <1>0, <2>1 DEF CourseGrows, RowsInv, PositionsUnique, PublishedHasContent, Taught
  <2> QED BY <1>0, <2>1, <2>2, CourseKeptByStep
<1> HIDE DEF Begin, Return, Idle, Slots
<1> QED BY <1>1, <1>2 DEF AssignStep

\* All reorders of the model have legal payloads.
LEMMA ReorderPayloads ==
  ASSUME RowsInv
  PROVE  /\ \A moves \in Reorders(order) : Payload(order, moves)
         /\ \A moves \in Reorders(lessons) : Payload(lessons, moves)
         /\ \A modules \in {NoMove, Turned(order)} : Payload(order, modules)
         /\ Payload(lessons, NoMove)
BY TablesFinite, ReordersPayload, TurnedPayload, NoMovePayload

\* Every handler of courses keeps the invariant.
LEMMA CourseHandled ==
  ASSUME CourseInv, NEW r \in Requests, CourseHandler(r)
  PROVE  CourseInv'
<1>1. ASSUME NEW modules, NEW ls, Reorder(r, modules, ls),
             \/ modules \in Reorders(order) /\ ls = NoMove
             \/ modules \in {NoMove, Turned(order)} /\ ls \in Reorders(lessons)
      PROVE  CourseInv'
  <2>1. Payload(order, modules) /\ Payload(lessons, ls)
    BY <1>1, ReorderPayloads DEF CourseInv
  <2> QED BY <1>1, <2>1, ReorderStarts
<1> QED
  BY <1>1, StatusSteps, ModuleSteps, LessonSteps, ReorderKeeps, AssignSteps
     DEF CourseHandler, ModuleHandler, LessonHandler

\* Every step keeps the invariant.
LEMMA CourseInvStep ==
  ASSUME CourseInv, [DeliveryNext]_deliveryVars
  PROVE  CourseInv'
<1>1. ASSUME NEW r \in Requests, CourseNext(r) PROVE CourseInv'
  BY <1>1, CourseHandlers, CourseHandled
<1>2. ASSUME NEW r \in Requests, BatchNext(r), UNCHANGED learn PROVE CourseInv'
  <2>1. OnlySlot(r, BatchLabels)
    BY <1>2, BatchHandlers, BatchSlot DEF CourseInv
  <2>2. CourseCarries(req[r])'
    BY <2>1 DEF OnlySlot, BatchLabels, CourseCarries
  <2> QED BY <1>2, <2>1, <2>2, CourseQuiet
<1>3. CASE (Tick /\ UNCHANGED learn) \/ UNCHANGED deliveryVars
  <2>1. UNCHANGED <<learn, req>>
    BY <1>3 DEF Tick, deliveryVars
  <2> QED
    BY <2>1 DEF learn, CourseInv, RowsInv, CourseCarries, ModuleMoves, LessonMoves, Slots,
       PositionsUnique, PublishedHasContent, Taught
<1> QED BY <1>1, <1>2, <1>3 DEF DeliveryNext

\* The rows of a course and of a batch have their columns' types, with any number of
\* requests in flight.
THEOREM DeliveryTypeCorrect == DeliverySpec => []DeliveryTypeOK
<1>1. CourseInv /\ BatchInv => DeliveryTypeOK
  BY CourseTypes DEF BatchInv, DeliveryTypeOK
<1> QED
  BY <1>1, CourseInvInit, CourseInvStep, BatchInvInit, BatchInvStep, PTL DEF DeliverySpec

-----------------------------------------------------------------------------
(* The rules of a course that is served one request at a time: the publish time    *)
(* and what a reorder places.  A request in flight then carries the row and the     *)
(* table as they are.                                                          *)

\* A published course bears its stamp, a draft does not.
StampOf(row) == /\ row.status = "published" => row.stamped
                /\ row.status = "draft" => ~row.stamped

\* Moved aside, every row has a place of its own, beyond Aside.
ModulesWait(aside) ==
  /\ \A m \in DOMAIN aside : aside[m] > Aside
  /\ \A m, n \in DOMAIN aside : aside[m] = aside[n] => m = n
\* Lessons moved aside wait at positions of their own.
LessonsWait(aside) ==
  /\ \A l \in DOMAIN aside : aside[l][2] > Aside
  /\ \A l, n \in DOMAIN aside : aside[l] = aside[n] => l = n

\* A request that is alone finds the course as it loaded it.
CourseCurrent(x) ==
  /\ x.at = "course.save" => x.row = course /\ StampOf(x.new)
  /\ x.at \in {"publish.modules", "publish.lessons"} => x.row = course
  /\ x.at = "reorder.save" =>
       /\ x.modules.rows = order /\ ModulesWait(x.modules.aside)
       /\ x.lessons.rows = lessons /\ LessonsWait(x.lessons.aside)

\* The invariant of the requests taken one at a time.
StampInv == OneAtATime => StampOf(course) /\ \A r \in Requests : CourseCurrent(req[r])

\* A draft bears no stamp.
LEMMA StampInit == DeliveryInit => StampInv
BY DEF DeliveryInit, CourseInit, InitRequests, Idle, Unused, StampInv, StampOf, CourseCurrent

\* Publishing that is alone stamps, and going back takes the stamp off.
LEMMA StampStatus ==
  ASSUME CourseInv, NEW r \in Requests, CourseStep(r), StampOf(course), CourseCurrent(req[r])
  PROVE  CourseCurrent(req[r])' /\ StampOf(course)'
<1> DEFINE x == req[r]
<1>0. Slots /\ RowsInv /\ CourseCarries(x) /\ course \in Course
  BY DEF CourseInv, RowsInv
<1> USE DEF Begin, Continue, Return, Idle, Slots
<1>1. ASSUME NEW new, SetLoad(r, new), StampOf(new)
      PROVE  CourseCurrent(req[r])' /\ StampOf(course)'
  <2>1. /\ course' = course
        /\ req'[r].at = "course.save" /\ req'[r].row = course /\ req'[r].new = new
    BY <1>0, <1>1 DEF SetLoad, learn
  <2> QED BY <1>1, <2>1 DEF CourseCurrent, StampOf
<1>2. ASSUME NEW status \in Statuses, UpdateCourse(r, status)
      PROVE  CourseCurrent(req[r])' /\ StampOf(course)'
  <2>1. StampOf(Asked(course, status))
    BY <1>0, <1>2 DEF Asked, UpdateCourse, Statuses, StampOf, Course
  <2> QED BY <1>1, <1>2, <2>1 DEF UpdateCourse
<1>3. ASSUME ArchiveCourse(r) PROVE CourseCurrent(req[r])' /\ StampOf(course)'
  <2>1. StampOf([course EXCEPT !.status = "archived"])
    BY <1>0 DEF StampOf, Course
  <2> QED BY <1>1, <1>3, <2>1 DEF ArchiveCourse
<1>4. ASSUME DeleteCourse(r) PROVE CourseCurrent(req[r])' /\ StampOf(course)'
  <2>1. StampOf([course EXCEPT !.deleted = TRUE])
    BY <1>0 DEF StampOf, Course
  <2> QED BY <1>1, <1>4, <2>1 DEF DeleteCourse
<1>5. CASE CourseSave(r)
  <2>1. req'[r].at = "idle" /\ course' = x.new /\ StampOf(x.new)
    BY <1>0, <1>5, WrittenCourse DEF CourseSave, CourseCarries, CourseCurrent
  <2> QED BY <2>1 DEF CourseCurrent, StampOf
<1>6. CASE PublishLoad(r)
  BY <1>0, <1>6 DEF PublishLoad, CourseCurrent, learn, StampOf
<1>7. CASE PublishModules(r)
  BY <1>0, <1>7 DEF PublishModules, CourseCurrent, learn, StampOf
<1>8. ASSUME NEW m, PublishLessons(r, m) PROVE CourseCurrent(req[r])' /\ StampOf(course)'
  <2>1. course' = course /\ x.row = course
    BY <1>8 DEF PublishLessons, learn, CourseCurrent
  <2>2. req'[r].at = "idle" \/ (req'[r].at = "publish.lessons" /\ req'[r].row = x.row)
    <3>1. CASE req'[r] = Idle
      BY <3>1
    <3>2. CASE req'[r] = [x EXCEPT !.unchecked = @ \ {m}]
      <4>1. req'[r].at = x.at /\ req'[r].row = x.row
        BY <1>0, <3>2
      <4> QED BY <1>8, <4>1 DEF PublishLessons
    <3> QED BY <1>0, <1>8, <3>1, <3>2 DEF PublishLessons
  <2> QED BY <2>1, <2>2 DEF CourseCurrent, StampOf
<1>9. CASE PublishSave(r)
  <2>1. req'[r].at = "idle" /\ x.row = course
    BY <1>0, <1>9 DEF PublishSave, CourseCurrent
  <2>2. CASE course' = course
    BY <2>1, <2>2 DEF CourseCurrent, StampOf
  <2>3. CASE course' = [Written(course, x.row, [x.row EXCEPT !.status = "published"])
                          EXCEPT !.stamped = TRUE]
    <3> DEFINE new == [course EXCEPT !.status = "published"]
    <3>1. new \in Course /\ new.status = "published"
      BY <1>0 DEF Course, Statuses
    <3> HIDE DEF new
    <3>2. Written(course, x.row, new) = new
      BY <1>0, <2>1, <3>1, WrittenCourse
    <3>3. course' = [new EXCEPT !.stamped = TRUE]
      BY <2>1, <2>3, <3>2 DEF new
    <3>4. course'.status = "published" /\ course'.stamped
      BY <3>1, <3>3 DEF Course
    <3> QED BY <2>1, <3>4 DEF CourseCurrent, StampOf
  <2> QED BY <1>9, <2>2, <2>3 DEF PublishSave
<1> HIDE DEF Begin, Continue, Return, Idle, Slots
<1> QED BY <1>2, <1>3, <1>4, <1>5, <1>6, <1>7, <1>8, <1>9 DEF CourseStep

\* A reorder leaves the course's row alone.
LEMMA StampReorder ==
  ASSUME CourseInv, NEW r \in Requests, NEW modules, NEW ls, Reorder(r, modules, ls),
         Payload(order, modules), Payload(lessons, ls), StampOf(course)
  PROVE  CourseCurrent(req[r])' /\ StampOf(course)'
<1>0. Slots /\ RowsInv
  BY DEF CourseInv
<1>1. /\ UNCHANGED learn /\ req'[r].at = "reorder.save"
      /\ req'[r].modules = Moves(order, MovedAside(modules.ids), modules.places)
      /\ req'[r].lessons = Moves(lessons, InModules(MovedAside(ls.ids)), InModules(ls.places))
  BY <1>0 DEF Reorder, ReorderLoad, Begin, Slots
<1>2. /\ ModulesWait(MovedAside(modules.ids))
      /\ DOMAIN MovedAside(ls.ids) = Range(ls.ids)
      /\ \A i \in Range(ls.ids) : MovedAside(ls.ids)[i] > Aside
      /\ \A i, j \in Range(ls.ids) : MovedAside(ls.ids)[i] = MovedAside(ls.ids)[j] => i = j
  BY MovedAsideType DEF Payload, ModulesWait
<1>3. LessonsWait(InModules(MovedAside(ls.ids)))
  BY <1>2 DEF LessonsWait, InModules
<1>4. /\ req'[r].modules.rows = order' /\ ModulesWait(req'[r].modules.aside)
      /\ req'[r].lessons.rows = lessons' /\ LessonsWait(req'[r].lessons.aside)
  BY <1>1, <1>2, <1>3 DEF Moves, learn
<1>5. (ModulesWait(req[r].modules.aside) /\ LessonsWait(req[r].lessons.aside))'
  BY <1>4 DEF ModulesWait, LessonsWait
<1> QED BY <1>1, <1>4, <1>5 DEF CourseCurrent, StampOf, learn

\* Every handler that is alone keeps the stamp right.
LEMMA StampHandler ==
  ASSUME CourseInv, NEW r \in Requests, CourseHandler(r), StampOf(course), CourseCurrent(req[r])
  PROVE  CourseCurrent(req[r])' /\ StampOf(course)'
<1>0. Slots /\ RowsInv
  BY DEF CourseInv
<1>1. ASSUME NEW modules, NEW ls, Reorder(r, modules, ls),
             \/ modules \in Reorders(order) /\ ls = NoMove
             \/ modules \in {NoMove, Turned(order)} /\ ls \in Reorders(lessons)
      PROVE  CourseCurrent(req[r])' /\ StampOf(course)'
  BY <1>0, <1>1, ReorderPayloads, StampReorder
<1>2. ASSUME ModuleHandler(r)
      PROVE  CourseCurrent(req[r])' /\ StampOf(course)'
  <2>1. /\ req'[r].at \in {"idle", "module.position", "module.insert", "module.save"}
        /\ course' = course
    BY <1>0, <1>2 DEF ModuleHandler, CreateModuleLoad, CreateModulePosition, CreateModuleInsert,
       UpdateModuleLoad, UpdateModuleSave, Begin, Continue, Return, Idle, Slots, learn
  <2> QED BY <2>1 DEF CourseCurrent, StampOf
<1>3. ASSUME LessonHandler(r)
      PROVE  CourseCurrent(req[r])' /\ StampOf(course)'
  <2>0. CASE CreateLessonPosition(r)
    <3>1. req'[r] = [req[r] EXCEPT !.at = "lesson.insert", !.p = NextLesson(req[r].m)]
      BY <1>0, <2>0 DEF CreateLessonPosition, Continue, Slots
    <3>2. req'[r].at = "lesson.insert"
      BY <1>0, <3>1 DEF Slots
    <3> QED BY <2>0, <3>2 DEF CreateLessonPosition, CourseCurrent, StampOf, learn
  <2>1. CASE ~CreateLessonPosition(r)
    <3>1. /\ req'[r].at \in {"idle", "lesson.position", "lesson.insert", "lesson.save"}
          /\ course' = course
      BY <1>0, <1>3, <2>1 DEF LessonHandler, CreateLessonLoad, CreateLessonInsert,
         UpdateLessonLoad, UpdateLessonSave, Begin, Continue, Return, Idle, Slots, learn
    <3> QED BY <3>1 DEF CourseCurrent, StampOf
  <2> QED BY <2>0, <2>1
<1>4. ASSUME ReorderSave(r) \/ AssignStep(r)
      PROVE  CourseCurrent(req[r])' /\ StampOf(course)'
  <2>1. req'[r].at \in {"idle", "assigncourse.save"} /\ course' = course
    BY <1>0, <1>4 DEF ReorderSave, AssignStep, AssignCourseLoad, AssignCourseSave, Begin, Return,
       Idle, Slots, learn
  <2> QED BY <2>1 DEF CourseCurrent, StampOf
<1> QED BY <1>1, <1>2, <1>3, <1>4, StampStatus DEF CourseHandler, ModuleHandler, LessonHandler

\* Every step keeps it.
LEMMA StampStep ==
  ASSUME CourseInv, StampInv, [DeliveryNext]_deliveryVars
  PROVE  StampInv'
<1> SUFFICES ASSUME OneAtATime' PROVE StampInv'
  BY DEF StampInv
<1>1. ASSUME NEW r \in Requests, CourseNext(r) PROVE StampInv'
  <2>1. OnlySlot(r, CourseLabels) /\ "unused" \notin CourseLabels /\ CourseHandler(r)
    BY <1>1, CourseHandlers, CourseSlot DEF CourseInv, CourseLabels
  <2>2. OneAtATime /\ \A p \in Requests \ {r} : req'[p] = Unused
    BY <2>1, OneSlot
  <2>3. CourseCurrent(req[r])' /\ StampOf(course)'
    BY <2>1, <2>2, StampHandler DEF StampInv
  <2> QED BY <2>2, <2>3 DEF StampInv, CourseCurrent, Unused
<1>2. ASSUME NEW r \in Requests, BatchNext(r), UNCHANGED learn PROVE StampInv'
  <2>1. OnlySlot(r, BatchLabels) /\ "unused" \notin BatchLabels
    BY <1>2, BatchHandlers, BatchSlot DEF CourseInv, BatchLabels
  <2>2. OneAtATime /\ \A p \in Requests \ {r} : req'[p] = Unused
    BY <2>1, OneSlot
  <2>3. CourseCurrent(req[r])'
    BY <2>1 DEF OnlySlot, BatchLabels, CourseCurrent
  <2> QED BY <1>2, <2>2, <2>3 DEF StampInv, CourseCurrent, Unused, learn, StampOf
<1>3. CASE (Tick /\ UNCHANGED learn) \/ UNCHANGED deliveryVars
  BY <1>3 DEF Tick, deliveryVars, learn, StampInv, CourseCurrent, OneAtATime, StampOf,
     ModulesWait, LessonsWait
<1> QED BY <1>1, <1>2, <1>3 DEF DeliveryNext

\* Rows that wait in a range where nothing else is do not collide, neither on their
\* way there nor on their way to places that are different in the end.
LEMMA MovesAccepted ==
  ASSUME NEW rows, NEW aside, NEW targets, NEW Far,
         DOMAIN aside = DOMAIN targets, DOMAIN aside \subseteq DOMAIN rows,
         \A i \in DOMAIN aside : aside[i] \in Far,
         \A i, j \in DOMAIN aside : aside[i] = aside[j] => i = j,
         \A i \in DOMAIN rows : rows[i] \notin Far,
         \A i \in DOMAIN rows : Updated(rows, targets)[i] \notin Far,
         Unique(rows), Unique(Updated(rows, targets))
  PROVE  Reordered(rows, aside, targets)
<1>1. CanWrite(rows, aside)
  BY DEF CanWrite, WrittenTo, Unique
<1>2. CanWrite(Updated(rows, aside), targets)
  <2> SUFFICES ASSUME NEW m \in DOMAIN targets
               PROVE  Unique(WrittenTo(Updated(rows, aside), targets, m))
    BY DEF CanWrite
  <2> DEFINE w == WrittenTo(Updated(rows, aside), targets, m)  u == Updated(rows, targets)
  <2>1. /\ DOMAIN w = DOMAIN rows /\ DOMAIN u = DOMAIN rows
        /\ \A i \in DOMAIN rows : \/ w[i] = u[i]
                                  \/ i \in DOMAIN aside /\ w[i] = aside[i]
    BY DEF WrittenTo, Updated
  <2>2. Unique(u) /\ \A i \in DOMAIN rows : u[i] \notin Far
    OBVIOUS
  <2> HIDE DEF w, u
  <2> SUFFICES ASSUME NEW i \in DOMAIN rows, NEW j \in DOMAIN rows, w[i] = w[j] PROVE i = j
    BY <2>1 DEF Unique, w
  <2>3. CASE w[i] = u[i] /\ w[j] = u[j]
    BY <2>1, <2>2, <2>3 DEF Unique
  <2>4. CASE i \in DOMAIN aside /\ w[i] = aside[i]
    BY <2>1, <2>2, <2>4
  <2>5. CASE j \in DOMAIN aside /\ w[j] = aside[j]
    BY <2>1, <2>2, <2>5
  <2> QED BY <2>1, <2>3, <2>4, <2>5
<1> QED BY <1>1, <1>2 DEF Reordered

\* A payload whose rows are as loaded is taken as it is.
LEMMA MovesCurrent ==
  ASSUME NEW rows, NEW moves, moves.rows = rows, DOMAIN moves.aside = DOMAIN moves.targets,
         Reordered(rows, moves.aside, moves.targets)
  PROVE  /\ Accepted(rows, moves)
         /\ Updated(rows, PlacedIn(rows, moves)) = Updated(rows, moves.targets)
<1> DEFINE a == AsideIn(rows, moves)  p == PlacedIn(rows, moves)
<1>1. DOMAIN a = DOMAIN moves.aside /\ \A i \in DOMAIN moves.aside : a[i] = moves.aside[i]
  BY DEF AsideIn, Flushed
<1>2. DOMAIN p = DOMAIN moves.targets /\ \A i \in DOMAIN moves.targets : p[i] = moves.targets[i]
  BY <1>1 DEF PlacedIn, Flushed
<1> HIDE DEF a, p
<1>3. Updated(rows, a) = Updated(rows, moves.aside)
  BY <1>1 DEF Updated
<1>4. Updated(rows, p) = Updated(rows, moves.targets)
  BY <1>2 DEF Updated
<1>5. \A m : WrittenTo(rows, a, m) = WrittenTo(rows, moves.aside, m)
  BY <1>1 DEF WrittenTo
<1>6. \A m : WrittenTo(Updated(rows, a), p, m)
               = WrittenTo(Updated(rows, moves.aside), moves.targets, m)
  BY <1>2, <1>3 DEF WrittenTo
<1>7. Reordered(rows, a, p)
  BY <1>1, <1>2, <1>5, <1>6 DEF Reordered, CanWrite
<1> QED BY <1>4, <1>7 DEF Accepted, a, p

\* A reorder that is alone leaves every row where it was asked to be.
LEMMA ReorderPlaces == CourseInv /\ StampInv => ReorderPlacesAll
<1> SUFFICES ASSUME CourseInv, StampInv, NEW r \in Requests, OneAtATime, ReorderSave(r)
             PROVE  PlacedAll(r)
  BY DEF ReorderPlacesAll
<1> DEFINE om == req[r].modules  lm == req[r].lessons
           m == Updated(order, om.targets)  l == Updated(lessons, lm.targets)
<1> SUFFICES ASSUME ~course.deleted, Unique(m), Unique(l),
                    Near(order), Near(m), Near(PositionsOf(lessons)), Near(PositionsOf(l))
             PROVE  order' = m /\ lessons' = l
  BY DEF PlacedAll
<1>1. /\ RowsInv /\ ModuleMoves(om) /\ LessonMoves(lm)
      /\ om.rows = order /\ ModulesWait(om.aside)
      /\ lm.rows = lessons /\ LessonsWait(lm.aside)
  BY DEF CourseInv, CourseCarries, StampInv, CourseCurrent, ReorderSave
<1>2. Reordered(order, om.aside, om.targets)
  <2> DEFINE Far == {p \in Nat : p > Aside}
  <2>1. /\ DOMAIN om.aside = DOMAIN om.targets /\ DOMAIN om.aside \subseteq DOMAIN order
        /\ \A i \in DOMAIN om.aside : om.aside[i] \in Far
        /\ \A i, j \in DOMAIN om.aside : om.aside[i] = om.aside[j] => i = j
    BY <1>1 DEF ModuleMoves, ModulesWait
  <2>2. \A i \in DOMAIN order : order[i] \notin Far
    BY CourseAssumption DEF Near
  <2>3. \A i \in DOMAIN order : m[i] \notin Far
    <3>1. DOMAIN m = DOMAIN order
      BY <2>1 DEF Updated
    <3> HIDE DEF m
    <3> QED BY <3>1, CourseAssumption DEF Near
  <2>4. Unique(order)
    BY <1>1 DEF RowsInv, PositionsUnique
  <2> HIDE DEF Far
  <2> QED BY <2>1, <2>2, <2>3, <2>4, MovesAccepted
<1>3. Reordered(lessons, lm.aside, lm.targets)
  <2> DEFINE Far == {place \in (DOMAIN order) \X Nat : place[2] > Aside}
  <2>1. /\ DOMAIN lm.aside = DOMAIN lm.targets /\ DOMAIN lm.aside \subseteq DOMAIN lessons
        /\ \A i \in DOMAIN lm.aside : lm.aside[i] \in Far
        /\ \A i, j \in DOMAIN lm.aside : lm.aside[i] = lm.aside[j] => i = j
    <3>1. \A i \in DOMAIN lessons : lessons[i][1] \in DOMAIN order
      BY <1>1 DEF RowsInv
    <3>2. \A i \in DOMAIN lm.aside : lm.aside[i] \in (DOMAIN order) \X Nat
      BY <1>1, <3>1 DEF LessonMoves
    <3> QED BY <1>1, <3>2 DEF LessonMoves, LessonsWait
  <2>2. \A i \in DOMAIN lessons : lessons[i] \notin Far
    <3>1. \A i \in DOMAIN lessons : lessons[i][2] <= Aside /\ lessons[i][2] \in Nat
      BY <1>1 DEF Near, PositionsOf, RowsInv
    <3> QED BY <3>1, CourseAssumption
  <2>3. \A i \in DOMAIN lessons : l[i] \notin Far
    <3>1. DOMAIN l = DOMAIN lessons
      BY <2>1 DEF Updated
    <3> HIDE DEF l
    <3>2. \A i \in DOMAIN lessons : l[i][2] <= Aside
      BY <3>1 DEF Near, PositionsOf
    <3> QED BY <3>2, CourseAssumption
  <2>4. Unique(lessons)
    BY <1>1 DEF RowsInv, PositionsUnique
  <2> HIDE DEF Far
  <2> QED BY <2>1, <2>2, <2>3, <2>4, MovesAccepted
<1>4. /\ Accepted(order, om) /\ Updated(order, PlacedIn(order, om)) = m
      /\ Accepted(lessons, lm) /\ Updated(lessons, PlacedIn(lessons, lm)) = l
  BY <1>1, <1>2, <1>3, MovesCurrent DEF ModuleMoves, LessonMoves
<1> HIDE DEF m, l
<1> QED BY <1>4 DEF ReorderSave

\* Whatever is created, moved and reordered at once, two modules of a course and two
\* lessons of a module have different positions and a published course has a lesson;
\* with one request in flight a published course has its publish time, a draft has
\* none, and a reorder places every row that it names.
THEOREM OutlineKeptCorrect == DeliverySpec => OutlineKept
<1>1. CourseInv /\ StampInv =>
        /\ PositionsUnique /\ PublishedHasContent /\ StampFollowsStatus
        /\ ReorderPlacesAll
  BY ReorderPlaces DEF CourseInv, RowsInv, StampInv, StampOf, StampFollowsStatus
<1>2. DeliverySpec => [](CourseInv /\ StampInv)
  BY CourseInvInit, CourseInvStep, StampInit, StampStep, PTL DEF DeliverySpec
<1>3. CourseInv /\ StampInv => [ReorderPlacesAll]_deliveryVars
  BY <1>1
<1> QED BY <1>1, <1>2, <1>3, PTL DEF OutlineKept
=============================================================================
