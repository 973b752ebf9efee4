--------------------------- MODULE BatchMembership ---------------------------
(***************************************************************************)
(* One batch, its dates and its students: assignment, removal and             *)
(* reassignment, the batch's capacity, and students that are deleted meanwhile *)
(* (app/modules/students/service.py).                                        *)
(***************************************************************************)
EXTENDS CoursePublishing

CONSTANTS
  Students,
  Capacities,  \* capacities a request may ask for
  Dates,       \* of a batch's start and end
  MaxTime      \* bound: the clock that stamps joined_at and left_at

ASSUME MembershipAssumption ==
  /\ IsFiniteSet(Students) /\ Capacities \subseteq Nat \ {0} /\ Dates \subseteq Nat
  /\ MaxTime \in Nat

VARIABLES
  batch,     \* capacity, start and end; Null is no capacity or no end
  members,   \* members[s]: the batch_students row: status, joined and left
  deleted,   \* students that are soft-deleted
  now

batchVars == <<batch, members, deleted>>

-----------------------------------------------------------------------------
Batch == [capacity : Capacities \cup {Null}, start : Dates, end : Dates \cup {Null}]

Membership == [status : {"active", "removed"}, joined : 0 .. now, left : 0 .. now \cup {Null}]

ActiveMembers(rows) == {s \in DOMAIN rows : rows[s].status = "active"}

ActiveCount == Cardinality(ActiveMembers(members))

NoEndBefore(row) == row.end # Null => row.start <= row.end

\* create_batch; the end may be left open.
BatchInit ==
  /\ batch \in {row \in Batch : NoEndBefore(row)}
  /\ members = << >> /\ deleted = {} /\ now = 0

Tick == now < MaxTime /\ now' = now + 1 /\ UNCHANGED <<batchVars, req>>

-----------------------------------------------------------------------------
(* update_batch: the columns a payload carries, then the count of the members   *)
(* for the capacity there will be.                                            *)

BatchUpdateBoth(r, edit) ==  \* mutant: an edit with one of the dates is not checked
  LET new == Updated(batch, edit) IN
  /\ {"start", "end"} \subseteq DOMAIN edit => NoEndBefore(new)
  /\ Begin(r, [at |-> IF new.capacity = Null THEN "batch.save" ELSE "batch.count",
               row |-> batch, new |-> new])
  /\ UNCHANGED <<batchVars, now>>

BatchUpdateLoad(r, edit) ==
  LET new == Updated(batch, edit) IN
  /\ NoEndBefore(new)
  /\ Begin(r, [at |-> IF new.capacity = Null THEN "batch.save" ELSE "batch.count",
               row |-> batch, new |-> new])
  /\ UNCHANGED <<batchVars, now>>

Holds(places, count) == places = Null \/ count <= places

BatchUpdateCount(r) ==
  LET x == req[r] IN
  /\ x.at = "batch.count"
  /\ IF Holds(x.new.capacity, ActiveCount)
     THEN Continue(r, [x EXCEPT !.at = "batch.save"])
     ELSE Return(r)
  /\ UNCHANGED <<batchVars, now>>

BatchUpdateSave(r) ==
  LET x == req[r] IN
  /\ x.at = "batch.save"
  /\ batch' = Written(batch, x.row, x.new)
  /\ Return(r)
  /\ UNCHANGED <<members, deleted, now>>

-----------------------------------------------------------------------------
(* assign_student_to_batch: the batch, the student, the count, the membership. *)
(* An active membership is returned as it is; a removed one is made active.    *)

AssignLoad(r, s) ==
  /\ Begin(r, [at |-> "assign.student", s |-> s, capacity |-> batch.capacity])
  /\ UNCHANGED <<batchVars, now>>

AssignStudent(r) ==
  LET x == req[r] IN
  /\ x.at = "assign.student"
  /\ IF x.s \in deleted THEN Return(r) ELSE Continue(r, [x EXCEPT !.at = "assign.count"])
  /\ UNCHANGED <<batchVars, now>>

AssignCount(r) ==
  LET x == req[r] IN
  /\ x.at = "assign.count"
  /\ Continue(r, [at |-> "assign.membership", s |-> x.s, capacity |-> x.capacity,
                  count |-> ActiveCount])
  /\ UNCHANGED <<batchVars, now>>

RowOf(s) == IF s \in DOMAIN members THEN members[s] ELSE Null

HasPlaceLeft(places, count) ==  \* mutant: one too many
  places = Null \/ count <= places

HasPlace(places, count) == places = Null \/ count < places

AssignMembership(r) ==
  LET x == req[r] IN
  /\ x.at = "assign.membership"
  /\ IF x.s \notin ActiveMembers(members) /\ HasPlace(x.capacity, x.count)
     THEN Continue(r, [at |-> "assign.save", s |-> x.s, row |-> RowOf(x.s)])
     ELSE Return(r)
  /\ UNCHANGED <<batchVars, now>>

ReactivatedRow(row) ==  \* mutant: left_at stays
  [status |-> "active", joined |-> now, left |-> row.left]

Reactivated(row) == [status |-> "active", joined |-> now, left |-> Null]

\* A second membership of the student is refused by the unique constraint.
AssignSave(r) ==
  LET x == req[r] IN
  /\ x.at = "assign.save"
  /\ \/ /\ x.row = Null /\ x.s \in DOMAIN members
        /\ UNCHANGED members
     \/ /\ x.row = Null /\ x.s \notin DOMAIN members
        /\ members' = WithRow(members, x.s, [status |-> "active", joined |-> now, left |-> Null])
     \/ /\ x.row # Null
        /\ members' = [members EXCEPT ![x.s] = Written(@, x.row, Reactivated(x.row))]
  /\ Return(r)
  /\ UNCHANGED <<batch, deleted, now>>

-----------------------------------------------------------------------------
(* remove_student_from_batch: the batch, the student, the membership.          *)

RemoveLoad(r, s) ==
  /\ s \notin deleted
  /\ Begin(r, [at |-> "remove.membership", s |-> s])
  /\ UNCHANGED <<batchVars, now>>

RemoveMembership(r) ==
  LET x == req[r] IN
  /\ x.at = "remove.membership"
  /\ IF x.s \in ActiveMembers(members)
     THEN Continue(r, [at |-> "remove.save", s |-> x.s, row |-> RowOf(x.s)])
     ELSE Return(r)
  /\ UNCHANGED <<batchVars, now>>

RemoveSaveBefore(r) ==  \* mutant: left_at is the day before
  LET x == req[r] IN
  /\ x.at = "remove.save"
  /\ members' = [members EXCEPT ![x.s] =
       Written(@, x.row, [x.row EXCEPT !.status = "removed", !.left = now - 1])]
  /\ Return(r)
  /\ UNCHANGED <<batch, deleted, now>>

RemoveSave(r) ==
  LET x == req[r] IN
  /\ x.at = "remove.save"
  /\ members' = [members EXCEPT ![x.s] =
                   Written(@, x.row, [x.row EXCEPT !.status = "removed", !.left = now])]
  /\ Return(r)
  /\ UNCHANGED <<batch, deleted, now>>

\* delete_student: the memberships stay as they are.
DeleteStudent(r, s) ==
  /\ s \notin deleted
  /\ Begin(r, [at |-> "delete.save", s |-> s])
  /\ UNCHANGED <<batchVars, now>>

DeleteStudentSave(r) ==
  /\ req[r].at = "delete.save"
  /\ deleted' = deleted \cup {req[r].s}
  /\ Return(r)
  /\ UNCHANGED <<batch, members, now>>

-----------------------------------------------------------------------------
UpdateStep(r) == BatchUpdateCount(r) \/ BatchUpdateSave(r)

MemberStep(r) ==
  \/ \E s \in Students : AssignLoad(r, s) \/ RemoveLoad(r, s) \/ DeleteStudent(r, s)
  \/ AssignStudent(r) \/ AssignCount(r) \/ AssignMembership(r) \/ AssignSave(r)
  \/ RemoveMembership(r) \/ RemoveSave(r)
  \/ DeleteStudentSave(r)

-----------------------------------------------------------------------------
\* Rows have their columns' types; nobody joins or leaves in the future.
BatchTypeOK ==
  /\ batch \in Batch
  /\ DOMAIN members \subseteq Students
  /\ \A s \in DOMAIN members : members[s] \in Membership
  /\ deleted \subseteq Students /\ now \in 0 .. MaxTime

(* With any number of requests in flight.                                     *)

\* Whatever requests run at once, a membership is active just while no departure
\* is on record, and a departure ends a stay that had begun: assignment and
\* removal each change several columns of the row, and each flush may leave out
\* some of them.
StayConsistent ==
  \A s \in DOMAIN members :
    /\ members[s].status = "active" <=> members[s].left = Null
    /\ members[s].left # Null => members[s].joined <= members[s].left

(* Rules of the handlers taken one at a time; with two requests in flight    *)
(* each of them fails.                                                       *)

\* "capacity-safe membership": never more active members than places, through
\* assignments, reassignments and changes of the capacity.
CapacityHeld == OneAtATime => batch.capacity = Null \/ ActiveCount <= batch.capacity

\* "Batch end_date must be on or after start_date", whichever of them updates carry.
DatesHeld == OneAtATime => NoEndBefore(batch)
=============================================================================
