------------------------------ MODULE LiveClass ------------------------------
(***************************************************************************)
(* One scheduled live class: its status and window, the log of what happened   *)
(* to it, who is admitted and how long they stayed                            *)
(* (app/modules/live/service.py).  An attendance request carries one event     *)
(* here: the service applies a batch's events one after another.              *)
(***************************************************************************)
EXTENDS Attendance

CONSTANTS
  Teachers,    \* employees who may be an instructor
  Assigned,    \* teachers with an assignment to the course or the batch
  Teacher,     \* the instructor the class is scheduled with
  Scheduler,   \* the user who scheduled the class
  Entitled,    \* students of the batch, assigned teachers, who may manage classes
  Capacities,  \* capacities a request may ask for
  ClassEdits,  \* payloads of an update: a value for some columns, Null for the others
  JoinBefore,  \* how long before its start a class can be joined
  JoinAfter,   \* and after its end
  Totals,      \* total_duration_seconds the live runtime may report
  MaxTime,     \* bound: the clock
  MaxRows,     \* bound: participant rows ever inserted
  MaxSeconds   \* bound: attendance events are sent while totals are below it

People  == Teachers \cup {Scheduler} \cup Students
Moments == 0 .. MaxTime

Closed  == {"ended", "cancelled"}

LiveClassUpdate ==
  [capacity : Capacities \cup {Null}, instructor : Teachers \cup {Null},
   starts : Moments \cup {Null}, ends : Moments \cup {Null}]

ASSUME LiveAssumption ==
  /\ Assigned \subseteq Teachers /\ Teacher \in Teachers
  /\ Scheduler \notin Teachers /\ Entitled \subseteq People
  /\ Capacities \subseteq Nat \ {0} /\ Capacities # {}
  /\ ClassEdits \subseteq LiveClassUpdate
  /\ JoinBefore \in Nat /\ JoinAfter \in Nat /\ Totals \subseteq Nat
  /\ MaxTime \in Nat \ {0} /\ MaxRows \in Nat \ {0} /\ MaxSeconds \in Nat

VARIABLES
  class,         \* its status, capacity, instructor, start and end
  participants,  \* live_class_participants by id
  log,           \* live_class_events about the class, in the order of their commits
  trail,         \* live_class_events about participants: type and participant
  clock          \* the clock of whoever stamps joins, departures and the end

live == <<class, participants, log, trail>>

Joinable == {"scheduled", "open", "live"}

LiveStatus == Joinable \cup Closed

ClassRow == [status : LiveStatus, capacity : Capacities, instructor : Teachers,
             starts : Moments, ends : Moments]

\* The status that an event of the log tells.
Announced(event) == IF event = "started" THEN "open" ELSE event

LiveClassEvent == {"scheduled", "started", "ended", "cancelled", "recording_added"}

Participant ==
  [who : (SUBSET People) \ {{}}, role : {"instructor", "co_instructor", "admin", "student"},
   status : {"allowed", "completed"}, joined : Moments \cup {Null},
   left : Moments \cup {Null}, seconds : Nat]

\* The role that is inferred for whoever names none.
Role(p) ==
  IF p \in Students THEN "student"
  ELSE IF p = class.instructor THEN "instructor"
  ELSE IF p \in Teachers THEN "co_instructor" ELSE "admin"

-----------------------------------------------------------------------------
SignedDuration(from, to) == to - from  \* mutant: not held at zero

Duration(from, to) == IF to > from THEN to - from ELSE 0

Of(p) == {i \in DOMAIN participants : p \in participants[i].who}

\* find_identity: any of the rows that match, or none.
FindByUser(p, found) ==  \* mutant: an employee id is not looked for
  IF Of(p) = {} \/ p = Teacher THEN found = Null ELSE found \in Of(p)

Find(p, found) == IF Of(p) = {} THEN found = Null ELSE found \in Of(p)

Joined ==  \* mutant: only those who have joined
  {i \in DOMAIN participants : participants[i].joined # Null /\ participants[i].left = Null}

\* active_count also counts who is only invited.
Active == {i \in DOMAIN participants : participants[i].left = Null}

Member(p, joined) == [who |-> {p}, role |-> Role(p), status |-> "allowed",
                      joined |-> joined, left |-> Null, seconds |-> 0]

\* A participant admitted again: who is only mentioned keeps the times.
ReadmittedAnyway(row, p, joined) ==  \* mutant: left_at is kept on a second join
  [row EXCEPT !.status = "allowed", !.role = Role(p),
              !.joined = IF joined = Null THEN @ ELSE joined]

Readmitted(row, p, joined) ==
  [row EXCEPT !.status = "allowed", !.role = Role(p),
              !.joined = IF joined = Null THEN @ ELSE joined,
              !.left   = IF joined = Null THEN @ ELSE Null]

CompletedAt(row, t, seconds) ==
  [row EXCEPT !.status = "completed", !.left = t, !.seconds = seconds]

IdOf(x) == IF x.id = Null THEN Cardinality(DOMAIN participants) + 1 ELSE x.id

\* The upsert: an update of the row that was found, or a new row.
Upsert(x, new) ==
  participants' = IF x.id = Null THEN WithRow(participants, IdOf(x), new)
                  ELSE [participants EXCEPT ![x.id] = Written(@, x.row, new)]

RoomForRow ==
  Cardinality(DOMAIN participants) + Cardinality({r \in Requests : InFlight(r)}) < MaxRows

-----------------------------------------------------------------------------
(* schedule_class commits the class, its first event and the instructor's row, *)
(* which also carries the user id of whoever scheduled the class.             *)
LiveInit ==
  /\ \E c \in Capacities :
       class = [status |-> "scheduled", capacity |-> c, instructor |-> Teacher,
                starts |-> 0, ends |-> 1]
  /\ participants = [id \in {1} |-> [who |-> {Teacher, Scheduler}, role |-> "instructor",
                                     status |-> "allowed", joined |-> Null, left |-> Null,
                                     seconds |-> 0]]
  /\ log = <<"scheduled">> /\ trail = {}
  /\ clock = 0

Tick == clock < MaxTime /\ clock' = clock + 1 /\ UNCHANGED <<live, req>>

(* open_class and cancel_class.                                               *)

OpenLoad(r) ==
  /\ class.status = "scheduled"
  /\ Begin(r, [at |-> "open.save"])
  /\ UNCHANGED <<live, clock>>

OpenSave(r) ==
  /\ req[r].at = "open.save"
  /\ class' = [class EXCEPT !.status = "open"]
  /\ log' = Append(log, "started")
  /\ Return(r)
  /\ UNCHANGED <<participants, trail, clock>>

CancelAny(r) ==  \* mutant: a class that is closed can be cancelled
  /\ Begin(r, [at |-> "cancel.save"])
  /\ UNCHANGED <<live, clock>>

CancelLoad(r) ==
  /\ class.status \notin Closed
  /\ Begin(r, [at |-> "cancel.save"])
  /\ UNCHANGED <<live, clock>>

CancelSilently(r) ==  \* mutant: no event
  /\ req[r].at = "cancel.save"
  /\ class' = [class EXCEPT !.status = "cancelled"]
  /\ Return(r)
  /\ UNCHANGED <<participants, log, trail, clock>>

CancelSave(r) ==
  /\ req[r].at = "cancel.save"
  /\ class' = [class EXCEPT !.status = "cancelled"]
  /\ log' = Append(log, "cancelled")
  /\ Return(r)
  /\ UNCHANGED <<participants, trail, clock>>

(* update_class: of the times, the two that will be there are compared.        *)

MayInstruct(p, override) == p \in Teachers /\ (override \/ p \in Assigned)

Edited(edit) ==
  [c \in DOMAIN class |-> IF c = "status" \/ edit[c] = Null THEN class[c] ELSE edit[c]]

UpdateLoadEnds(r, edit, override) ==  \* mutant: only a payload with both ends is compared
  /\ class.status \in {"scheduled", "open"}
  /\ edit.instructor # Null => MayInstruct(edit.instructor, override)
  /\ edit.starts # Null /\ edit.ends # Null => edit.ends > edit.starts
  /\ Begin(r, [at |-> "update.save", row |-> class, new |-> Edited(edit)])
  /\ UNCHANGED <<live, clock>>

UpdateLoad(r, edit, override) ==
  /\ class.status \in {"scheduled", "open"}
  /\ edit.instructor # Null => MayInstruct(edit.instructor, override)
  /\ Edited(edit).ends > Edited(edit).starts
  /\ Begin(r, [at |-> "update.save", row |-> class, new |-> Edited(edit)])
  /\ UNCHANGED <<live, clock>>

UpdateSave(r) ==
  /\ req[r].at = "update.save"
  /\ class' = Written(class, req[r].row, req[r].new)
  /\ Return(r)
  /\ UNCHANGED <<participants, log, trail, clock>>

\* add_recording: of any class, whatever its status.  One is enough here.
AddRecording(r) ==
  /\ req[r] = Idle /\ "recording_added" \notin Range(log)
  /\ log' = Append(log, "recording_added")
  /\ UNCHANGED <<class, participants, trail, clock, req>>

-----------------------------------------------------------------------------
(* end_class: whoever has joined and not left leaves now.                     *)

EndLoad(r) ==
  /\ class.status \notin Closed
  /\ Begin(r, [at |-> "end.participants"])
  /\ UNCHANGED <<live, clock>>

EndParticipants(r) ==
  /\ req[r].at = "end.participants"
  /\ Continue(r, [at |-> "end.save", rows |-> participants, time |-> clock])
  /\ UNCHANGED <<live, clock>>

EndedRow(row, t) ==
  IF row.joined # Null /\ row.left = Null
  THEN CompletedAt(row, t, row.seconds + Duration(row.joined, t))
  ELSE row

EndSave(r) ==
  LET x == req[r] IN
  /\ x.at = "end.save"
  /\ class' = [class EXCEPT !.status = "ended"]
  /\ participants' = [i \in DOMAIN participants |->
                        IF i \in DOMAIN x.rows
                        THEN Written(participants[i], x.rows[i], EndedRow(x.rows[i], x.time))
                        ELSE participants[i]]
  /\ log' = Append(log, "ended")
  /\ Return(r)
  /\ UNCHANGED <<trail, clock>>

-----------------------------------------------------------------------------
(* validate_access: the class, whether the participant is known, the capacity *)
(* for one who is not, then the upsert, which looks for the participant again. *)
(* The live runtime may send its own time, which may be behind.               *)

Eligible(p) == p = class.instructor \/ p \in Entitled

JoinOpen(t) == t \in class.starts - JoinBefore .. class.ends + JoinAfter

JoinLoad(r, p, t) ==
  /\ class.status \in Joinable /\ JoinOpen(t) /\ t <= clock /\ Eligible(p)
  /\ RoomForRow
  /\ Begin(r, [at |-> "join.known", p |-> p, time |-> t, capacity |-> class.capacity])
  /\ UNCHANGED <<live, clock>>

JoinKnown(r) ==
  LET x == req[r] IN
  /\ x.at = "join.known"
  /\ Continue(r, [x EXCEPT !.at = IF Of(x.p) = {} THEN "join.count" ELSE "join.find"])
  /\ UNCHANGED <<live, clock>>

JoinCount(r) ==
  LET x == req[r] IN
  /\ x.at = "join.count"
  /\ IF Cardinality(Active) >= x.capacity THEN Return(r)
     ELSE Continue(r, [x EXCEPT !.at = "join.find"])
  /\ UNCHANGED <<live, clock>>

JoinFind(r) ==
  LET x == req[r] IN
  /\ x.at = "join.find"
  /\ \E id \in DOMAIN participants \cup {Null} :
       /\ Find(x.p, id)
       /\ Continue(r, [at |-> "join.save", p |-> x.p, time |-> x.time, id |-> id,
                       row |-> IF id = Null THEN Null ELSE participants[id]])
  /\ UNCHANGED <<live, clock>>

JoinSave(r) ==
  LET x == req[r] IN
  /\ x.at = "join.save"
  /\ Upsert(x, IF x.id = Null THEN Member(x.p, x.time) ELSE Readmitted(x.row, x.p, x.time))
  /\ trail' = trail \cup {<<"joined", IdOf(x)>>}
  /\ Return(r)
  /\ UNCHANGED <<class, log, clock>>

-----------------------------------------------------------------------------
(* capture_attendance_events, with one event: the class is looked up, its     *)
(* status is not.  "left" takes the total the runtime sends or adds the time.  *)

CaptureFind(r, p, type, t, total) ==
  /\ RoomForRow
  /\ t <= clock
  /\ \A i \in DOMAIN participants : participants[i].seconds < MaxSeconds
  /\ type = "joined" => total = Null
  /\ \E id \in DOMAIN participants \cup {Null} :
       /\ Find(p, id)
       /\ Begin(r, [at |-> "capture.save", p |-> p, type |-> type, time |-> t, total |-> total,
                    id |-> id, row |-> IF id = Null THEN Null ELSE participants[id]])
  /\ UNCHANGED <<live, clock>>

Spent(row, t, total) ==
  IF total # Null THEN total
  ELSE IF row.joined = Null THEN row.seconds
  ELSE row.seconds + Duration(row.joined, t)

CaptureSave(r) ==
  LET x     == req[r]
      joins == IF x.type = "joined" THEN x.time ELSE Null
      row   == IF x.id = Null THEN Member(x.p, joins) ELSE Readmitted(x.row, x.p, joins)
  IN
  /\ x.at = "capture.save"
  /\ Upsert(x, IF x.type = "joined" THEN row
               ELSE CompletedAt(row, x.time, Spent(row, x.time, x.total)))
  /\ trail' = trail \cup {<<x.type, IdOf(x)>>}
  /\ Return(r)
  /\ UNCHANGED <<class, log, clock>>

-----------------------------------------------------------------------------
ClassStep(r) ==
  \/ OpenLoad(r) \/ OpenSave(r) \/ CancelLoad(r) \/ CancelSave(r)
  \/ \E edit \in ClassEdits, override \in BOOLEAN : UpdateLoad(r, edit, override)
  \/ UpdateSave(r) \/ AddRecording(r)

EndStep(r) == EndLoad(r) \/ EndParticipants(r) \/ EndSave(r)

JoinStep(r) ==
  \/ \E p \in People, t \in Moments : JoinLoad(r, p, t)
  \/ JoinKnown(r) \/ JoinCount(r) \/ JoinFind(r) \/ JoinSave(r)

CaptureStep(r) ==
  \/ \E p \in People, type \in {"joined", "left"}, t \in Moments, total \in Totals \cup {Null} :
       CaptureFind(r, p, type, t, total)
  \/ CaptureSave(r)

-----------------------------------------------------------------------------
\* Rows have their columns' types, and row 1 is the instructor's.
LiveTypeOK ==
  /\ class \in ClassRow /\ clock \in Moments
  /\ DOMAIN participants = 1 .. Cardinality(DOMAIN participants)
  /\ DOMAIN participants \subseteq 1 .. MaxRows
  /\ \A i \in DOMAIN participants : participants[i] \in Participant
  /\ Range(log) \subseteq LiveClassEvent
  /\ trail \subseteq {"joined", "left"} \X (DOMAIN participants)
  /\ Teacher \in participants[1].who

\* However many requests change it, the class has the status that its last event
\* other than a recording tells.
StatusIsLogged ==
  \E k \in DOMAIN log :
    /\ log[k] # "recording_added" /\ Announced(log[k]) = class.status
    /\ \A later \in DOMAIN log : later > k => log[later] = "recording_added"

\* Whoever has joined has an event that says so, and whoever has left has one or was
\* there when the class ended; a participant is completed just when it has left.
PresenceIsLogged ==
  \A i \in DOMAIN participants :
    LET row == participants[i] IN
    /\ row.joined # Null => <<"joined", i>> \in trail
    /\ row.left # Null => <<"left", i>> \in trail \/ "ended" \in Range(log)
    /\ row.status = "completed" <=> row.left # Null

\* With one request at a time a class ends after it starts, whichever end an update
\* carries, and a class that is closed stays as it is.
ClosedStaysClosed == OneAtATime /\ class.status \in Closed => class' = class

WindowKept == OneAtATime => class.starts < class.ends

(* Rules of a class that handles one request at a time; with two each fails.  *)

\* Nobody has two rows in a class, so capacity and time are counted once per
\* person: no table constraint says so, only the lookup before the insert.
OneRowPerPerson == \A p \in People : Cardinality(Of(p)) <= 1

\* "Capacity is enforced before a new participant is admitted": a join that adds
\* a participant leaves no more active ones than the class has places.
AdmittedWithinCapacity ==
  [][\A r \in Requests :
       JoinSave(r) /\ DOMAIN participants' # DOMAIN participants
         => Cardinality({i \in DOMAIN participants' : participants'[i].left = Null})
              <= class.capacity]_<<live, req>>
=============================================================================
