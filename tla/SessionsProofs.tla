---------------------------- MODULE SessionsProofs ----------------------------
(***************************************************************************)
(* Proofs about ClassSessions for every class, set of students, employee's days *)
(* and any number of requests in flight.                                     *)
(***************************************************************************)
EXTENDS ClassSessions, ProofLemmas

-----------------------------------------------------------------------------
(* The steps of a behaviour.                                                  *)

\* The labels of the handlers of live classes.
LiveLabels ==
  {"open.save", "cancel.save", "update.save", "end.participants", "end.save", "join.known",
   "join.count", "join.find", "join.save", "capture.save"}

\* The labels of the handlers of attendance.
AttendanceLabels ==
  {"mark.find", "mark.insert", "record.save", "checkin.save", "checkout.save", "review.target",
   "reject.save", "approve.save"}

\* Labels of the requests of people, which wait for the participant's row.
PeopleLabels == {"join.known", "join.count", "join.find", "join.save", "capture.save"}

LiveHandler(r)       == ClassStep(r) \/ EndStep(r) \/ JoinStep(r) \/ CaptureStep(r)
\* The handlers of attendance.
AttendanceHandler(r) == MarkStep(r) \/ CorrectionStep(r) \/ DayStep(r)

\* A handler changes its own slot only, to a label of its part.
LEMMA LiveSlot ==
  ASSUME Slots, NEW r \in Requests, LiveHandler(r)
  PROVE  OnlySlot(r, LiveLabels)
<1> USE DEF OnlySlot, Slots, LiveLabels, Begin, Continue, Return, Idle
<1>1. CASE OpenLoad(r) \/ OpenSave(r) \/ CancelLoad(r) \/ CancelSave(r)
  BY <1>1 DEF OpenLoad, OpenSave, CancelLoad, CancelSave
<1>2. ASSUME NEW edit, NEW override, UpdateLoad(r, edit, override)
      PROVE  OnlySlot(r, LiveLabels)
  BY <1>2 DEF UpdateLoad
<1>3. CASE UpdateSave(r) \/ AddRecording(r)
  BY <1>3 DEF UpdateSave, AddRecording
<1>4. CASE EndStep(r)
  BY <1>4 DEF EndStep, EndLoad, EndParticipants, EndSave
<1>5. ASSUME NEW p, NEW t, JoinLoad(r, p, t) PROVE OnlySlot(r, LiveLabels)
  BY <1>5 DEF JoinLoad
<1>6. CASE JoinKnown(r)
  <2>1. req'[r].at \in {"join.count", "join.find"}
    BY <1>6 DEF JoinKnown
  <2> QED BY <1>6, <2>1 DEF JoinKnown
<1>7. CASE JoinCount(r)
  <2>1. req'[r].at \in {"idle", "join.find"}
    BY <1>7 DEF JoinCount
  <2> QED BY <1>7, <2>1 DEF JoinCount
<1>8. CASE JoinFind(r) \/ JoinSave(r)
  BY <1>8 DEF JoinFind, JoinSave
<1>9. ASSUME NEW p, NEW type, NEW t, NEW total, CaptureFind(r, p, type, t, total)
      PROVE  OnlySlot(r, LiveLabels)
  BY <1>9 DEF CaptureFind
<1>10. CASE CaptureSave(r)
  BY <1>10 DEF CaptureSave
<1> HIDE DEF OnlySlot, Slots, LiveLabels, Begin, Continue, Return, Idle
<1> QED
  BY <1>1, <1>2, <1>3, <1>4, <1>5, <1>6, <1>7, <1>8, <1>9, <1>10
     DEF LiveHandler, ClassStep, JoinStep, CaptureStep

\* The same of attendance.
LEMMA AttendanceSlot ==
  ASSUME Slots, NEW r \in Requests, AttendanceHandler(r)
  PROVE  OnlySlot(r, AttendanceLabels)
<1> USE DEF OnlySlot, Slots, AttendanceLabels, Begin, Continue, Return, Idle
<1>1. ASSUME NEW first, CreateSession(r, first) PROVE OnlySlot(r, AttendanceLabels)
  BY <1>1 DEF CreateSession
<1>2. ASSUME NEW marks, NEW submit, MarkLoad(r, marks, submit) PROVE OnlySlot(r, AttendanceLabels)
  BY <1>2 DEF MarkLoad
<1>3. ASSUME NEW s, MarkFind(r, s) PROVE OnlySlot(r, AttendanceLabels)
  <2>1. req'[r].at \in {"mark.find", "mark.insert"} /\ "at" \in DOMAIN req'[r]
    BY <1>3 DEF MarkFind
  <2> QED BY <1>3, <2>1 DEF MarkFind
<1>4. CASE MarkInsert(r) \/ MarkConflict(r) \/ MarkSave(r)
  BY <1>4 DEF MarkInsert, Inserted, MarkConflict, MarkSave
<1>5. ASSUME NEW s, NEW mark, RecordLoad(r, s, mark) PROVE OnlySlot(r, AttendanceLabels)
  BY <1>5 DEF RecordLoad
<1>6. CASE RecordSave(r) \/ CheckInSave(r) \/ CheckOutSave(r)
  BY <1>6 DEF RecordSave, CheckInSave, CheckOutSave
<1>7. ASSUME NEW t, NEW zone, CheckInLoad(r, t, zone) PROVE OnlySlot(r, AttendanceLabels)
  BY <1>7 DEF CheckInLoad
<1>8. ASSUME NEW t, NEW zone, NEW status, CheckOutLoad(r, t, zone, status)
      PROVE  OnlySlot(r, AttendanceLabels)
  BY <1>8 DEF CheckOutLoad
<1>9. ASSUME NEW target, NEW wanted, CreateCorrection(r, target, wanted)
      PROVE  OnlySlot(r, AttendanceLabels)
  BY <1>9 DEF CreateCorrection
<1>10. ASSUME NEW c, NEW approved, ReviewLoad(r, c, approved)
       PROVE  OnlySlot(r, AttendanceLabels)
  BY <1>10 DEF ReviewLoad
<1>11. CASE ReviewTarget(r) \/ ApproveSave(r) \/ RejectSave(r)
  BY <1>11 DEF ReviewTarget, ApproveSave, RejectSave
<1> HIDE DEF OnlySlot, Slots, AttendanceLabels, Begin, Continue, Return, Idle
<1> QED
  BY <1>1, <1>2, <1>3, <1>4, <1>5, <1>6, <1>7, <1>8, <1>9, <1>10, <1>11
     DEF AttendanceHandler, MarkStep, CorrectionStep, DayStep

\* A step of the class's part, of the attendance's, or of neither.
LEMMA SessionsSteps ==
  ASSUME SessionsNext
  PROVE  /\ UNCHANGED served
         /\ \/ /\ UNCHANGED attendance /\ served = "class"
               /\ \E r \in Requests : ClassStep(r) \/ EndStep(r)
            \/ /\ UNCHANGED attendance /\ served = "people"
               /\ \/ Tick
                  \/ \E r \in Requests : EndStep(r) \/ JoinStep(r) \/ CaptureStep(r)
            \/ /\ UNCHANGED <<live, clock>> /\ served = "students"
               /\ \E r \in Requests : MarkStep(r) \/ CorrectionStep(r)
            \/ /\ UNCHANGED <<live, clock>> /\ served = "employee"
               /\ \E r \in Requests : DayStep(r) \/ CorrectionStep(r)
BY DEF SessionsNext, LiveNext, AttendanceNext

-----------------------------------------------------------------------------
(* The live class.  Requests about people come one at a time; while the class's   *)
(* status is served nobody has joined yet.  So the rows that a request in flight    *)
(* has loaded are the class's, whatever the others do.                         *)

\* The tables of live classes: each participant row is of people no other row
\* is of, and log, trail and rows agree.
LiveRows ==
  /\ class \in ClassRow /\ clock \in Moments
  /\ IsTable(participants) /\ \E n \in 1..MaxRows : DOMAIN participants = 1..n
  /\ \A i \in DOMAIN participants : participants[i] \in Participant
  /\ \A i, j \in DOMAIN participants : i # j => participants[i].who \cap participants[j].who = {}
  /\ log \in Seq(LiveClassEvent) /\ trail \subseteq {"joined", "left"} \X (DOMAIN participants)
  /\ Teacher \in participants[1].who
  /\ StatusIsLogged /\ PresenceIsLogged
  /\ served = "class" => \A i \in DOMAIN participants : participants[i].joined = Null

\* The row that a request has found.
Found(x) == IF x.id = Null THEN Of(x.p) = {}
            ELSE /\ x.id \in DOMAIN participants /\ x.row = participants[x.id]
                 /\ x.p \in x.row.who

\* What a request carries has the types of the rows it was loaded from, and
\* what its SELECTs found is still there.
LiveCarries(x) ==
  /\ x.at = "update.save" =>
       /\ x.row \in ClassRow /\ x.new \in ClassRow /\ x.new.status = x.row.status
  /\ x.at = "end.save" => x.rows = participants /\ x.time \in Moments
  /\ x.at \in PeopleLabels =>
       /\ served = "people" /\ x.p \in People /\ x.time \in Moments
       /\ MaxRows \notin DOMAIN participants
  /\ x.at \in {"join.known", "join.count"} => x.capacity = class.capacity
  /\ x.at \in {"join.find", "join.save"} =>
       Of(x.p) # {} \/ Cardinality(Active) < class.capacity
  /\ x.at = "join.count" => Of(x.p) = {}
  /\ x.at \in {"join.save", "capture.save"} => Found(x)
  /\ x.at = "capture.save" => x.type \in {"joined", "left"} /\ x.total \in Totals \cup {Null}

\* The inductive invariant of live classes: the people of a class come one at a
\* time.
LiveInv ==
  /\ Slots /\ (served = "people" => OneAtATime)
  /\ LiveRows /\ \A r \in Requests : LiveCarries(req[r])

\* NULL is no number and no moment.
LEMMA NullOutside == Null \notin Nat /\ Null \notin Moments /\ Moments \subseteq Nat
<1>1. Null \notin Int
  BY AttendanceAssumption
<1> QED BY <1>1, LiveAssumption DEF Moments

\* The scheduled class has its teacher's row and an empty log.
LEMMA LiveInvInit == SessionsInit => LiveInv
<1> SUFFICES ASSUME SessionsInit PROVE LiveInv
  OBVIOUS
<1>1. Slots /\ \A r \in Requests : req[r].at \in {"idle", "unused"}
  BY DEF SessionsInit, InitRequests, Idle, Unused, Slots
<1>2. class \in ClassRow /\ clock \in Moments /\ class.status = "scheduled"
  BY LiveAssumption DEF SessionsInit, LiveInit, ClassRow, LiveStatus, Joinable, Moments
<1> DEFINE first == [who |-> {Teacher, Scheduler}, role |-> "instructor", status |-> "allowed",
                     joined |-> Null, left |-> Null, seconds |-> 0]
<1>3. first \in Participant
  <2>1. {Teacher, Scheduler} \in (SUBSET People) \ {{}}
    BY LiveAssumption DEF People
  <2> QED BY <2>1 DEF Participant
<1>4. DOMAIN participants = {1} /\ participants[1] = first /\ IsTable(participants)
  BY DEF SessionsInit, LiveInit, IsTable
<1>5. 1 \in 1..MaxRows /\ DOMAIN participants = 1..1
  BY <1>4, LiveAssumption
<1>6. /\ Teacher \in first.who /\ first.joined = Null /\ first.left = Null
      /\ first.status = "allowed"
  OBVIOUS
<1> HIDE DEF first
<1>7. log = <<"scheduled">> /\ trail = {}
  BY DEF SessionsInit, LiveInit
<1>8. StatusIsLogged
  <2>1. 1 \in DOMAIN log /\ log[1] = "scheduled" /\ \A later \in DOMAIN log : later = 1
    BY <1>7
  <2> QED BY <1>2, <2>1 DEF StatusIsLogged, Announced
<1>9. PresenceIsLogged
  BY <1>4, <1>6 DEF PresenceIsLogged
<1>10. log \in Seq(LiveClassEvent)
  BY <1>7 DEF LiveClassEvent
<1>11. LiveRows
  BY <1>2, <1>3, <1>4, <1>5, <1>6, <1>7, <1>8, <1>9, <1>10 DEF LiveRows
<1> QED BY <1>1, <1>11 DEF LiveInv, LiveCarries, PeopleLabels, SessionsInit

\* Who is alone stays alone.
LEMMA StaysAlone ==
  ASSUME NEW r \in Requests, NEW labels, OnlySlot(r, labels), "unused" \notin labels, OneAtATime
  PROVE  OneAtATime' /\ \A p \in Requests \ {r} : req[p] = Unused /\ req'[p] = Unused
BY DEF OnlySlot, OneAtATime, Unused

\* A step that writes no participant, or is alone, leaves the others' rows as they were.
LEMMA LiveKeptByStep ==
  ASSUME LiveInv, NEW r \in Requests, OnlySlot(r, LiveLabels), UNCHANGED served, LiveRows',
         served = "people" \/ (served = "class" /\ participants' = participants),
         LiveCarries(req[r])'
  PROVE  LiveInv'
<1>1. CASE served = "people"
  <2>1. OneAtATime' /\ \A p \in Requests \ {r} : req'[p] = Unused
    BY <1>1, StaysAlone DEF LiveInv, LiveLabels
  <2>2. \A p \in Requests \ {r} : LiveCarries(req[p])'
    BY <2>1 DEF LiveCarries, Unused, PeopleLabels
  <2> QED BY <2>1, <2>2 DEF LiveInv, OnlySlot
<1>2. CASE served = "class" /\ participants' = participants
  <2>1. \A p \in Requests \ {r} : LiveCarries(req[p])'
    <3> SUFFICES ASSUME NEW p \in Requests \ {r} PROVE LiveCarries(req[p])'
      OBVIOUS
    <3>1. req'[p] = req[p] /\ LiveCarries(req[p])
      BY DEF OnlySlot, LiveInv
    <3> QED BY <1>2, <3>1 DEF LiveCarries, PeopleLabels
  <2> QED BY <1>2, <2>1 DEF LiveInv, OnlySlot
<1> QED BY <1>1, <1>2

\* A step that only loads.
LEMMA LiveQuiet ==
  ASSUME LiveInv, NEW r \in Requests, OnlySlot(r, LiveLabels), UNCHANGED <<live, clock, served>>,
         served \in {"class", "people"}, LiveCarries(req[r])'
  PROVE  LiveInv'
<1>1. LiveRows'
  BY DEF LiveInv, LiveRows, live, StatusIsLogged, PresenceIsLogged
<1> QED BY <1>1, LiveKeptByStep DEF live

\* A flushed class keeps its columns' types and, if the edit left it alone, its
\* status.
LEMMA WrittenClass ==
  ASSUME NEW current \in ClassRow, NEW row \in ClassRow, NEW new \in ClassRow,
         new.status = row.status
  PROVE  /\ Written(current, row, new) \in ClassRow
         /\ Written(current, row, new).status = current.status
         /\ row = current => Written(current, row, new) = new
BY DEF Written, Flushed, ClassRow

\* Nobody else writes a participant's row meanwhile, so the flush leaves the
\* new one.
LEMMA WrittenParticipant ==
  ASSUME NEW row \in Participant, NEW new \in Participant
  PROVE  Written(row, row, new) = new
BY DEF Written, Flushed, Participant

\* An event at the end of the log tells the status.
LEMMA EventLogged ==
  ASSUME NEW event \in LiveClassEvent, log \in Seq(LiveClassEvent), log' = Append(log, event),
         \/ event # "recording_added" /\ Announced(event) = class'.status
         \/ event = "recording_added" /\ StatusIsLogged /\ class' = class
  PROVE  log' \in Seq(LiveClassEvent) /\ StatusIsLogged' /\ Range(log) \subseteq Range(log')
<1>1. /\ DOMAIN log' = 1..(Len(log) + 1) /\ log'[Len(log) + 1] = event
      /\ DOMAIN log = 1..Len(log) /\ Len(log) \in Nat
      /\ \A k \in DOMAIN log : log'[k] = log[k] /\ k \in DOMAIN log'
  OBVIOUS
<1>2. StatusIsLogged'
  <2>1. CASE event # "recording_added" /\ Announced(event) = class'.status
    <3>1. \A later \in DOMAIN log' : ~(later > Len(log) + 1)
      BY <1>1
    <3>2. Len(log) + 1 \in DOMAIN log'
      BY <1>1
    <3> QED BY <1>1, <2>1, <3>1, <3>2 DEF StatusIsLogged, Announced
  <2>2. CASE event = "recording_added" /\ StatusIsLogged /\ class' = class
    <3>1. PICK k \in DOMAIN log :
            /\ log[k] # "recording_added" /\ Announced(log[k]) = class.status
            /\ \A later \in DOMAIN log : later > k => log[later] = "recording_added"
      BY <2>2 DEF StatusIsLogged
    <3>2. \A later \in DOMAIN log' : later > k => log'[later] = "recording_added"
      BY <1>1, <2>2, <3>1
    <3> QED BY <1>1, <2>2, <3>1, <3>2 DEF StatusIsLogged, Announced
  <2> QED BY <2>1, <2>2
<1>3. Range(log) \subseteq Range(log')
  BY <1>1 DEF Range
<1> QED BY <1>2, <1>3

\* The participant's row after a request about a person: changed, or inserted.
LEMMA Upserted ==
  ASSUME LiveInv, NEW x, x.at \in {"join.save", "capture.save"}, LiveCarries(x),
         NEW new \in Participant, Upsert(x, new),
         new.who = (IF x.id = Null THEN {x.p} ELSE x.row.who),
         NEW type \in {"joined", "left"}, trail' = trail \cup {<<type, IdOf(x)>>},
         \/ new.joined = Null \/ type = "joined" \/ (x.id # Null /\ x.row.joined # Null),
         new.left # Null => type = "left", new.status = "completed" <=> new.left # Null,
         UNCHANGED <<class, log, clock, served>>
  PROVE  LiveRows'
<1>0. LiveRows /\ served = "people" /\ MaxRows \notin DOMAIN participants /\ Found(x)
      /\ x.p \in People
  BY DEF LiveInv, LiveCarries, PeopleLabels
<1>1. PICK n \in 1..MaxRows : DOMAIN participants = 1..n
  BY <1>0 DEF LiveRows
<1>2. n \in Nat /\ n >= 1 /\ n < MaxRows /\ MaxRows \in Nat /\ Null \notin Nat
  BY <1>0, <1>1, NullOutside, LiveAssumption
<1>3. /\ DOMAIN participants' = 1..n \/ DOMAIN participants' = 1..(n + 1)
      /\ IsTable(participants')
      /\ IdOf(x) \in DOMAIN participants' /\ participants'[IdOf(x)] = new
      /\ \A i \in DOMAIN participants : /\ i \in DOMAIN participants'
                                        /\ i # IdOf(x) => participants'[i] = participants[i]
      /\ \A i \in DOMAIN participants' : i = IdOf(x) \/ i \in DOMAIN participants
  <2>1. CASE x.id = Null
    <3>1. Cardinality(DOMAIN participants) = n
      BY <1>1, <1>2, FS_Interval
    <3>2. IdOf(x) = n + 1 /\ participants' = WithRow(participants, n + 1, new)
      BY <2>1, <3>1 DEF IdOf, Upsert
    <3> QED BY <1>1, <1>2, <3>2 DEF WithRow, IsTable
  <2>2. CASE x.id # Null
    <3>1. x.id \in DOMAIN participants /\ x.row = participants[x.id] /\ x.row \in Participant
      BY <1>0, <2>2 DEF Found, LiveRows
    <3>2. participants' = [participants EXCEPT ![x.id] = new] /\ IdOf(x) = x.id
      BY <2>2, <3>1, WrittenParticipant DEF Upsert, IdOf
    <3> QED BY <1>0, <1>1, <3>1, <3>2 DEF IsTable, LiveRows
  <2> QED BY <2>1, <2>2
<1>4. \E k \in 1..MaxRows : DOMAIN participants' = 1..k
  BY <1>2, <1>3
<1>5. \A i \in DOMAIN participants' : participants'[i] \in Participant
  BY <1>0, <1>3 DEF LiveRows
<1>6. \A i \in DOMAIN participants : i # IdOf(x) => participants[i].who \cap new.who = {}
  <2>1. CASE x.id = Null
    <3>1. \A i \in DOMAIN participants : x.p \notin participants[i].who
      BY <1>0, <2>1 DEF Found, Of
    <3> QED BY <2>1, <3>1
  <2>2. CASE x.id # Null
    BY <1>0, <2>2 DEF Found, LiveRows, IdOf
  <2> QED BY <2>1, <2>2
<1>7. \A i, j \in DOMAIN participants' :
        i # j => participants'[i].who \cap participants'[j].who = {}
  BY <1>0, <1>3, <1>6 DEF LiveRows
<1>8. trail' \subseteq {"joined", "left"} \X (DOMAIN participants')
  BY <1>0, <1>3 DEF LiveRows
<1>9. Teacher \in participants'[1].who
  <2>1. 1 \in DOMAIN participants
    BY <1>1, <1>2
  <2>2. CASE IdOf(x) = 1
    <3>1. x.id # Null
      <4>1. Cardinality(DOMAIN participants) = n
        BY <1>1, <1>2, FS_Interval
      <4> QED BY <1>2, <2>2, <4>1 DEF IdOf
    <3> QED BY <1>0, <1>3, <2>2, <3>1 DEF Found, LiveRows, IdOf
  <2>3. CASE IdOf(x) # 1
    BY <1>0, <1>3, <2>1, <2>3 DEF LiveRows
  <2> QED BY <2>2, <2>3
<1>10. PresenceIsLogged'
  <2> SUFFICES ASSUME NEW i \in DOMAIN participants'
               PROVE  /\ participants'[i].joined # Null => <<"joined", i>> \in trail'
                      /\ participants'[i].left # Null =>
                           <<"left", i>> \in trail' \/ "ended" \in Range(log')
                      /\ participants'[i].status = "completed" <=> participants'[i].left # Null
    BY DEF PresenceIsLogged
  <2>1. CASE i # IdOf(x)
    BY <1>0, <1>3, <2>1 DEF LiveRows, PresenceIsLogged
  <2>2. CASE i = IdOf(x)
    <3>1. x.id # Null /\ x.row.joined # Null => <<"joined", i>> \in trail
      BY <1>0, <2>2 DEF Found, IdOf, LiveRows, PresenceIsLogged
    <3> QED BY <1>3, <2>2, <3>1
  <2> QED BY <2>1, <2>2
<1>11. (served = "class" => \A i \in DOMAIN participants : participants[i].joined = Null)'
  BY <1>0
<1>12. StatusIsLogged'
  BY <1>0 DEF LiveRows, StatusIsLogged
<1> QED
  BY <1>0, <1>3, <1>4, <1>5, <1>7, <1>8, <1>9, <1>10, <1>11, <1>12 DEF LiveRows

\* A new participant's row.
LEMMA MemberType ==
  ASSUME LiveRows, NEW p \in People, NEW joined \in Moments \cup {Null}
  PROVE  /\ Member(p, joined) \in Participant /\ Member(p, joined).who = {p}
         /\ Member(p, joined).joined = joined /\ Member(p, joined).left = Null
         /\ Member(p, joined).status = "allowed"
BY DEF Member, Role, Participant

\* A participant's row after joining again.
LEMMA ReadmittedType ==
  ASSUME LiveRows, NEW row \in Participant, NEW p \in People, NEW joined \in Moments \cup {Null}
  PROVE  /\ Readmitted(row, p, joined) \in Participant
         /\ Readmitted(row, p, joined).who = row.who
         /\ Readmitted(row, p, joined).status = "allowed"
         /\ Readmitted(row, p, joined).joined = (IF joined = Null THEN row.joined ELSE joined)
         /\ Readmitted(row, p, joined).left = (IF joined = Null THEN row.left ELSE Null)
         /\ Readmitted(row, p, joined).seconds = row.seconds
BY DEF Readmitted, Role, Participant

\* A participant's row after leaving or the class's end.
LEMMA CompletedType ==
  ASSUME NEW row \in Participant, NEW t \in Moments, NEW seconds \in Nat
  PROVE  /\ CompletedAt(row, t, seconds) \in Participant
         /\ CompletedAt(row, t, seconds).who = row.who
         /\ CompletedAt(row, t, seconds).status = "completed"
         /\ CompletedAt(row, t, seconds).joined = row.joined
         /\ CompletedAt(row, t, seconds).left = t
BY DEF CompletedAt, Participant

\* The time spent in a class is a natural number.
LEMMA DurationType ==
  ASSUME NEW row \in Participant, NEW t \in Moments, row.joined # Null
  PROVE  row.seconds + Duration(row.joined, t) \in Nat
<1>1. row.joined \in Nat /\ t \in Nat /\ row.seconds \in Nat
  BY NullOutside DEF Participant
<1> QED BY <1>1 DEF Duration

\* So is what a capture counts, whichever total the runtime gave.
LEMMA SpentType ==
  ASSUME NEW row \in Participant, NEW t \in Moments, NEW total \in Totals \cup {Null}
  PROVE  Spent(row, t, total) \in Nat
<1>1. row.seconds \in Nat
  BY DEF Participant
<1> QED BY <1>1, DurationType, LiveAssumption DEF Spent

\* The class's end completes the rows of the people who are in it.
LEMMA EndedType ==
  ASSUME NEW row \in Participant, NEW t \in Moments
  PROVE  /\ EndedRow(row, t) \in Participant /\ EndedRow(row, t).who = row.who
         /\ EndedRow(row, t).joined = row.joined
         /\ EndedRow(row, t).status = "completed" <=>
              (row.status = "completed" \/ (row.joined # Null /\ row.left = Null))
         /\ EndedRow(row, t).left # Null <=>
              (row.left # Null \/ (row.joined # Null /\ row.left = Null))
BY DurationType, CompletedType, NullOutside DEF EndedRow

\* An edit asks for a class row with the same status.
LEMMA EditedType ==
  ASSUME class \in ClassRow, NEW edit \in ClassEdits
  PROVE  Edited(edit) \in ClassRow /\ Edited(edit).status = class.status
<1>1. DOMAIN class = {"status", "capacity", "instructor", "starts", "ends"}
  BY DEF ClassRow
<1>2. edit \in LiveClassUpdate
  BY LiveAssumption
<1>3. /\ edit.capacity \in Capacities \cup {Null} /\ edit.instructor \in Teachers \cup {Null}
      /\ edit.starts \in Moments \cup {Null} /\ edit.ends \in Moments \cup {Null}
  BY <1>2 DEF LiveClassUpdate
<1> QED BY <1>1, <1>3 DEF Edited, ClassRow

\* Opening, cancelling and updating a class keep the invariant.
LEMMA ClassSteps ==
  ASSUME LiveInv, NEW r \in Requests, ClassStep(r), served = "class", UNCHANGED served
  PROVE  LiveInv'
<1> DEFINE x == req[r]
<1>0. OnlySlot(r, LiveLabels) /\ Slots /\ LiveRows /\ LiveCarries(x)
  BY LiveSlot DEF LiveInv, LiveHandler
<1> USE DEF Begin, Continue, Return, Idle, Slots
<1>1. ASSUME UNCHANGED <<participants, trail, clock>>, class' \in ClassRow,
             NEW event \in LiveClassEvent, log' = Append(log, event),
             \/ event # "recording_added" /\ Announced(event) = class'.status
             \/ event = "recording_added" /\ class' = class,
             LiveCarries(req[r])'
      PROVE  LiveInv'
  <2>1. log' \in Seq(LiveClassEvent) /\ StatusIsLogged' /\ Range(log) \subseteq Range(log')
    BY <1>0, <1>1, EventLogged DEF LiveRows
  <2>2. PresenceIsLogged'
    BY <1>0, <1>1, <2>1 DEF LiveRows, PresenceIsLogged
  <2>3. LiveRows'
    BY <1>0, <1>1, <2>1, <2>2 DEF LiveRows
  <2> QED BY <1>0, <1>1, <2>3, LiveKeptByStep
<1>2. CASE OpenLoad(r) \/ CancelLoad(r)
  <2>1. UNCHANGED <<live, clock>> /\ LiveCarries(req[r])'
    BY <1>0, <1>2 DEF OpenLoad, CancelLoad, LiveCarries, PeopleLabels
  <2> QED BY <1>0, <2>1, LiveQuiet
<1>3. CASE OpenSave(r)
  <2>1. class' \in ClassRow /\ class'.status = "open"
    BY <1>0, <1>3 DEF OpenSave, LiveRows, ClassRow, LiveStatus, Joinable
  <2>2. LiveCarries(req[r])'
    BY <1>0, <1>3 DEF OpenSave, LiveCarries, PeopleLabels
  <2> QED BY <1>1, <1>3, <2>1, <2>2 DEF OpenSave, LiveClassEvent, Announced
<1>4. CASE CancelSave(r)
  <2>1. class' \in ClassRow /\ class'.status = "cancelled"
    BY <1>0, <1>4 DEF CancelSave, LiveRows, ClassRow, LiveStatus, Closed
  <2>2. LiveCarries(req[r])'
    BY <1>0, <1>4 DEF CancelSave, LiveCarries, PeopleLabels
  <2> QED BY <1>1, <1>4, <2>1, <2>2 DEF CancelSave, LiveClassEvent, Announced
<1>5. ASSUME NEW edit \in ClassEdits, NEW override, UpdateLoad(r, edit, override)
      PROVE  LiveInv'
  <2>1. UNCHANGED <<live, clock>> /\ LiveCarries(req[r])'
    BY <1>0, <1>5, EditedType DEF UpdateLoad, LiveCarries, PeopleLabels, LiveRows
  <2> QED BY <1>0, <2>1, LiveQuiet
<1>6. CASE UpdateSave(r)
  <2>1. class' \in ClassRow /\ class'.status = class.status
    BY <1>0, <1>6, WrittenClass DEF UpdateSave, LiveCarries, LiveRows
  <2>2. LiveCarries(req[r])' /\ UNCHANGED <<participants, log, trail, clock>>
    BY <1>0, <1>6 DEF UpdateSave, LiveCarries, PeopleLabels
  <2>3. LiveRows'
    BY <1>0, <2>1, <2>2 DEF LiveRows, StatusIsLogged, PresenceIsLogged
  <2> QED BY <1>0, <2>2, <2>3, LiveKeptByStep
<1>7. CASE AddRecording(r)
  <2>1. LiveCarries(req[r])'
    BY <1>0, <1>7 DEF AddRecording, LiveCarries, PeopleLabels
  <2>2. class' \in ClassRow /\ class' = class
    BY <1>0, <1>7 DEF AddRecording, LiveRows
  <2> QED BY <1>1, <1>7, <2>1, <2>2 DEF AddRecording, LiveClassEvent
<1> HIDE DEF Begin, Continue, Return, Idle, Slots
<1> QED BY <1>2, <1>3, <1>4, <1>5, <1>6, <1>7 DEF ClassStep

\* Ending a class keeps it.
LEMMA EndSteps ==
  ASSUME LiveInv, NEW r \in Requests, EndStep(r), served \in {"class", "people"}, UNCHANGED served
  PROVE  LiveInv'
<1> DEFINE x == req[r]
<1>0. OnlySlot(r, LiveLabels) /\ Slots /\ LiveRows /\ LiveCarries(x)
  BY LiveSlot DEF LiveInv, LiveHandler
<1> USE DEF Begin, Continue, Return, Idle, Slots
<1>1. CASE EndLoad(r) \/ EndParticipants(r)
  <2>1. UNCHANGED <<live, clock>> /\ LiveCarries(req[r])'
    BY <1>0, <1>1 DEF EndLoad, EndParticipants, LiveCarries, PeopleLabels, LiveRows, live
  <2> QED BY <1>0, <2>1, LiveQuiet
<1>2. CASE EndSave(r)
  <2>1. /\ x.rows = participants /\ x.time \in Moments /\ UNCHANGED <<trail, clock>>
        /\ log' = Append(log, "ended") /\ LiveCarries(req[r])'
    BY <1>0, <1>2 DEF EndSave, LiveCarries, PeopleLabels
  <2>2. class' \in ClassRow /\ class'.status = "ended"
    BY <1>0, <1>2 DEF EndSave, LiveRows, ClassRow, LiveStatus, Closed
  <2>3. /\ DOMAIN participants' = DOMAIN participants /\ IsTable(participants')
        /\ \A i \in DOMAIN participants : participants'[i] = EndedRow(participants[i], x.time)
    <3>1. \A i \in DOMAIN participants :
            Written(participants[i], participants[i], EndedRow(participants[i], x.time))
              = EndedRow(participants[i], x.time)
      BY <1>0, <2>1, WrittenParticipant, EndedType DEF LiveRows
    <3> QED BY <1>2, <2>1, <3>1 DEF EndSave, IsTable
  <2>4. \A i \in DOMAIN participants :
          /\ participants'[i] \in Participant /\ participants'[i].who = participants[i].who
          /\ participants'[i].joined = participants[i].joined
          /\ participants'[i].status = "completed" <=> participants'[i].left # Null
    <3> SUFFICES ASSUME NEW i \in DOMAIN participants
                 PROVE  /\ participants'[i] \in Participant
                        /\ participants'[i].who = participants[i].who
                        /\ participants'[i].joined = participants[i].joined
                        /\ participants'[i].status = "completed" <=> participants'[i].left # Null
      OBVIOUS
    <3> DEFINE row == participants[i]
    <3>1. row \in Participant /\ (row.status = "completed" <=> row.left # Null)
      BY <1>0 DEF LiveRows, PresenceIsLogged
    <3>2. participants'[i] = EndedRow(row, x.time)
      BY <2>3
    <3> HIDE DEF row
    <3>3. /\ EndedRow(row, x.time) \in Participant /\ EndedRow(row, x.time).who = row.who
          /\ EndedRow(row, x.time).joined = row.joined
          /\ EndedRow(row, x.time).status = "completed" <=> EndedRow(row, x.time).left # Null
      BY <2>1, <3>1, EndedType
    <3> QED BY <3>2, <3>3 DEF row
  <2>5. /\ log' \in Seq(LiveClassEvent) /\ StatusIsLogged' /\ Range(log) \subseteq Range(log')
        /\ "ended" \in Range(log')
    <3>1. "ended" \in LiveClassEvent /\ Announced("ended") = class'.status
      BY <2>2 DEF LiveClassEvent, Announced
    <3>2. log \in Seq(LiveClassEvent)
      BY <1>0 DEF LiveRows
    <3>3. Len(log) + 1 \in DOMAIN log' /\ log'[Len(log) + 1] = "ended"
      BY <2>1, <3>1, <3>2
    <3> QED BY <2>1, <3>1, <3>2, <3>3, EventLogged DEF Range
  <2>6. PresenceIsLogged'
    <3> SUFFICES ASSUME NEW i \in DOMAIN participants
                 PROVE  /\ participants'[i].joined # Null => <<"joined", i>> \in trail
                        /\ participants'[i].status = "completed" <=> participants'[i].left # Null
      BY <2>1, <2>3, <2>5 DEF PresenceIsLogged
    <3>1. participants[i].joined # Null => <<"joined", i>> \in trail
      BY <1>0 DEF LiveRows, PresenceIsLogged
    <3> QED BY <2>4, <3>1
  <2>7. /\ Teacher \in participants'[1].who
        /\ \E n \in 1..MaxRows : DOMAIN participants' = 1..n
        /\ trail' \subseteq {"joined", "left"} \X (DOMAIN participants')
    <3>1. 1 \in DOMAIN participants
      BY <1>0, LiveAssumption DEF LiveRows
    <3> QED BY <1>0, <2>1, <2>3, <2>4, <3>1 DEF LiveRows
  <2>a. /\ \A i, j \in DOMAIN participants' :
             i # j => participants'[i].who \cap participants'[j].who = {}
        /\ \A i \in DOMAIN participants' : participants'[i] \in Participant
    BY <1>0, <2>3, <2>4 DEF LiveRows
  <2>b. served' = "class" => \A i \in DOMAIN participants' : participants'[i].joined = Null
    BY <1>0, <2>3, <2>4 DEF LiveRows
  <2>8. LiveRows'
    BY <1>0, <2>1, <2>2, <2>3, <2>5, <2>6, <2>7, <2>a, <2>b DEF LiveRows
  <2>9. served = "class" => participants' = participants
    <3>1. served = "class" => \A i \in DOMAIN participants : participants'[i] = participants[i]
      BY <1>0, <2>3 DEF LiveRows, EndedRow
    <3> QED BY <1>0, <2>3, <3>1 DEF LiveRows, IsTable
  <2> QED BY <1>0, <2>1, <2>8, <2>9, LiveKeptByStep
<1> HIDE DEF Begin, Continue, Return, Idle, Slots
<1> QED BY <1>1, <1>2 DEF EndStep

\* There is room for a row when a request about a person begins.
LEMMA RoomIsFree ==
  ASSUME LiveInv, RoomForRow
  PROVE  MaxRows \notin DOMAIN participants
<1> DEFINE I == {p \in Requests : InFlight(p)}
<1>1. PICK n \in 1..MaxRows : DOMAIN participants = 1..n
  BY DEF LiveInv, LiveRows
<1>2. n \in Nat /\ MaxRows \in Nat
  BY LiveAssumption
<1>3. Cardinality(DOMAIN participants) = n
  BY <1>1, <1>2, FS_Interval
<1>4. IsFiniteSet(I)
  BY RequestsAssumption, FS_Subset
<1>5. Cardinality(I) \in Nat
  BY <1>4, FS_CardinalityType
<1>6. n + Cardinality(I) < MaxRows
  BY <1>3 DEF RoomForRow
<1> HIDE DEF I
<1> QED BY <1>1, <1>2, <1>5, <1>6

\* Joining keeps it: a person without a row gets a new one, below the capacity.
LEMMA JoinSteps ==
  ASSUME LiveInv, NEW r \in Requests, JoinStep(r), served = "people", UNCHANGED served
  PROVE  LiveInv'
<1> DEFINE x == req[r]
<1>0. OnlySlot(r, LiveLabels) /\ Slots /\ LiveRows /\ LiveCarries(x)
  BY LiveSlot DEF LiveInv, LiveHandler
<1>1. ASSUME NEW p \in People, NEW t \in Moments, JoinLoad(r, p, t) PROVE LiveInv'
  <2>1. /\ UNCHANGED <<live, clock>> /\ MaxRows \notin DOMAIN participants
        /\ req'[r] = [at |-> "join.known", p |-> p, time |-> t, capacity |-> class.capacity]
    BY <1>0, <1>1, RoomIsFree DEF JoinLoad, Begin, Slots
  <2>2. LiveCarries(req[r])'
    BY <2>1 DEF LiveCarries, PeopleLabels, live
  <2> QED BY <1>0, <2>1, <2>2, LiveQuiet
<1>2. CASE JoinKnown(r)
  <2>1. /\ UNCHANGED <<live, clock>> /\ x.at = "join.known"
        /\ req'[r] = [x EXCEPT !.at = IF Of(x.p) = {} THEN "join.count" ELSE "join.find"]
    BY <1>0, <1>2 DEF JoinKnown, Continue, Slots
  <2>2. /\ req'[r].p = x.p /\ req'[r].time = x.time /\ req'[r].capacity = x.capacity
        /\ req'[r].at = IF Of(x.p) = {} THEN "join.count" ELSE "join.find"
    BY <1>0, <2>1 DEF Slots
  <2>3. x.p \in People /\ x.time \in Moments /\ MaxRows \notin DOMAIN participants
        /\ x.capacity = class.capacity
    BY <1>0, <2>1 DEF LiveCarries, PeopleLabels
  <2>4. \A p : Of(p)' = Of(p)
    BY <2>1 DEF Of, live
  <2>5. CASE req'[r].at = "join.count" /\ Of(x.p) = {}
    <3>1. LiveCarries(req[r])'
      BY <2>1, <2>2, <2>3, <2>5 DEF LiveCarries, PeopleLabels, live, Of
    <3> QED BY <1>0, <2>1, <3>1, LiveQuiet
  <2>6. CASE req'[r].at = "join.find" /\ Of(x.p) # {}
    <3>1. LiveCarries(req[r])'
      BY <2>1, <2>2, <2>3, <2>6 DEF LiveCarries, PeopleLabels, live, Of
    <3> QED BY <1>0, <2>1, <3>1, LiveQuiet
  <2> QED BY <2>2, <2>5, <2>6
<1>3. CASE JoinCount(r)
  <2>0. UNCHANGED <<live, clock>> /\ x.at = "join.count"
    BY <1>3 DEF JoinCount
  <2>1. CASE req'[r] = Idle
    <3>1. LiveCarries(req[r])'
      BY <2>1 DEF LiveCarries, PeopleLabels, Idle
    <3> QED BY <1>0, <2>0, <3>1, LiveQuiet
  <2>2. CASE req'[r] = [x EXCEPT !.at = "join.find"] /\ ~(Cardinality(Active) >= x.capacity)
    <3>1. req'[r].p = x.p /\ req'[r].time = x.time /\ req'[r].at = "join.find"
      BY <1>0, <2>2 DEF Slots
    <3>2. x.p \in People /\ x.time \in Moments /\ MaxRows \notin DOMAIN participants
          /\ x.capacity = class.capacity
      BY <1>0, <2>0 DEF LiveCarries, PeopleLabels
    <3>3. Cardinality(Active) < class.capacity
      <4>1. PICK n \in 1..MaxRows : DOMAIN participants = 1..n
        BY <1>0 DEF LiveRows
      <4>2. IsFiniteSet(1..n) /\ Active \subseteq 1..n
        BY <4>1, FS_Interval DEF Active
      <4>3. Cardinality(Active) \in Nat
        BY <4>2, FS_Subset, FS_CardinalityType
      <4>4. class.capacity \in Nat
        BY <1>0, LiveAssumption DEF LiveRows, ClassRow
      <4> QED BY <2>2, <3>2, <4>3, <4>4
    <3>4. Active' = Active /\ class' = class
      BY <2>0 DEF Active, live
    <3>5. LiveCarries(req[r])'
      BY <2>0, <3>1, <3>2, <3>3, <3>4 DEF LiveCarries, PeopleLabels, live
    <3> QED BY <1>0, <2>0, <3>5, LiveQuiet
  <2> QED BY <1>0, <1>3, <2>1, <2>2 DEF JoinCount, Continue, Return, Slots
<1>4. CASE JoinFind(r)
  <2>1. PICK id \in DOMAIN participants \cup {Null} :
          /\ Find(x.p, id)
          /\ req'[r] = [at |-> "join.save", p |-> x.p, time |-> x.time, id |-> id,
                        row |-> IF id = Null THEN Null ELSE participants[id]]
    BY <1>0, <1>4 DEF JoinFind, Continue, Slots
  <2>2. /\ UNCHANGED <<live, clock>> /\ x.p \in People /\ x.time \in Moments
        /\ MaxRows \notin DOMAIN participants
        /\ Of(x.p) # {} \/ Cardinality(Active) < class.capacity
    BY <1>0, <1>4 DEF JoinFind, LiveCarries, PeopleLabels
  <2>3. Found(req'[r])
    <3>1. DOMAIN participants \subseteq Nat /\ Null \notin Nat
      BY <1>0, NullOutside, LiveAssumption DEF LiveRows
    <3> QED BY <2>1, <3>1 DEF Found, Find, Of
  <2>4. Found(req[r])' /\ Active' = Active /\ class' = class
    <3>1. participants' = participants /\ class' = class
      BY <2>2 DEF live
    <3> QED BY <2>3, <3>1 DEF Found, Of, Active
  <2>5. LiveCarries(req[r])'
    BY <2>1, <2>2, <2>4 DEF LiveCarries, PeopleLabels, live, Of
  <2> QED BY <1>0, <2>2, <2>5, LiveQuiet
<1>5. CASE JoinSave(r)
  <2> DEFINE new == IF x.id = Null THEN Member(x.p, x.time) ELSE Readmitted(x.row, x.p, x.time)
  <2>1. /\ x.at = "join.save" /\ Upsert(x, new) /\ trail' = trail \cup {<<"joined", IdOf(x)>>}
        /\ UNCHANGED <<class, log, clock>>
    BY <1>5 DEF JoinSave
  <2>2. Found(x) /\ x.p \in People /\ x.time \in Moments
    BY <1>0, <2>1 DEF LiveCarries, PeopleLabels
  <2>3. x.id # Null => x.row \in Participant
    BY <1>0, <2>2 DEF Found, LiveRows
  <2>4. /\ new \in Participant /\ new.who = (IF x.id = Null THEN {x.p} ELSE x.row.who)
        /\ new.left = Null /\ new.status = "allowed"
    <3>1. x.time \in Moments \cup {Null} /\ x.time # Null
      BY <2>2, NullOutside
    <3>2. CASE x.id = Null
      BY <1>0, <2>2, <3>1, <3>2, MemberType
    <3>3. CASE x.id # Null
      BY <1>0, <2>2, <2>3, <3>1, <3>3, ReadmittedType
    <3> QED BY <3>2, <3>3
  <2> HIDE DEF new
  <2>5. LiveRows'
    BY <1>0, <2>1, <2>4, Upserted
  <2>6. LiveCarries(req[r])'
    BY <1>0, <1>5 DEF JoinSave, Return, Idle, Slots, LiveCarries, PeopleLabels
  <2> QED BY <1>0, <2>5, <2>6, LiveKeptByStep
<1> QED BY <1>1, <1>2, <1>3, <1>4, <1>5 DEF JoinStep

\* Leaving and capturing attendance keep it.
LEMMA CaptureSteps ==
  ASSUME LiveInv, NEW r \in Requests, CaptureStep(r), served = "people", UNCHANGED served
  PROVE  LiveInv'
<1> DEFINE x == req[r]
<1>0. OnlySlot(r, LiveLabels) /\ Slots /\ LiveRows /\ LiveCarries(x)
  BY LiveSlot DEF LiveInv, LiveHandler
<1>1. ASSUME NEW p \in People, NEW type \in {"joined", "left"}, NEW t \in Moments,
             NEW total \in Totals \cup {Null}, CaptureFind(r, p, type, t, total)
      PROVE  LiveInv'
  <2>1. PICK id \in DOMAIN participants \cup {Null} :
          /\ Find(p, id)
          /\ req'[r] = [at |-> "capture.save", p |-> p, type |-> type, time |-> t,
                        total |-> total, id |-> id,
                        row |-> IF id = Null THEN Null ELSE participants[id]]
    BY <1>0, <1>1 DEF CaptureFind, Begin, Slots
  <2>2. UNCHANGED <<live, clock>> /\ MaxRows \notin DOMAIN participants
    BY <1>1, RoomIsFree DEF CaptureFind
  <2>3. Found(req'[r])
    <3>1. DOMAIN participants \subseteq Nat /\ Null \notin Nat
      BY <1>0, NullOutside, LiveAssumption DEF LiveRows
    <3> QED BY <2>1, <3>1 DEF Found, Find, Of
  <2>4. Found(req[r])'
    <3>1. participants' = participants
      BY <2>2 DEF live
    <3> QED BY <2>3, <3>1 DEF Found, Of
  <2>5. LiveCarries(req[r])'
    BY <2>1, <2>2, <2>4 DEF LiveCarries, PeopleLabels, live
  <2> QED BY <1>0, <2>2, <2>5, LiveQuiet
<1>2. CASE CaptureSave(r)
  <2> DEFINE joins == IF x.type = "joined" THEN x.time ELSE Null
             row   == IF x.id = Null THEN Member(x.p, joins) ELSE Readmitted(x.row, x.p, joins)
             new   == IF x.type = "joined" THEN row
                      ELSE CompletedAt(row, x.time, Spent(row, x.time, x.total))
  <2>1. /\ x.at = "capture.save" /\ Upsert(x, new) /\ trail' = trail \cup {<<x.type, IdOf(x)>>}
        /\ UNCHANGED <<class, log, clock>>
    BY <1>2 DEF CaptureSave
  <2>2. /\ Found(x) /\ x.p \in People /\ x.time \in Moments /\ x.time # Null
        /\ x.type \in {"joined", "left"} /\ x.total \in Totals \cup {Null}
    BY <1>0, <2>1, NullOutside DEF LiveCarries, PeopleLabels
  <2>3. x.id # Null => x.row \in Participant
    BY <1>0, <2>2 DEF Found, LiveRows
  <2>4. joins \in Moments \cup {Null}
    BY <2>2
  <2>5. /\ row \in Participant /\ row.who = (IF x.id = Null THEN {x.p} ELSE x.row.who)
        /\ row.status = "allowed"
        /\ x.type = "joined" => row.left = Null
        /\ x.type = "left" => row.joined = Null \/ (x.id # Null /\ x.row.joined # Null)
    <3>1. CASE x.id = Null
      BY <1>0, <2>2, <2>4, <3>1, MemberType
    <3>2. CASE x.id # Null
      BY <1>0, <2>2, <2>3, <2>4, <3>2, ReadmittedType
    <3> QED BY <3>1, <3>2
  <2> HIDE DEF row, joins
  <2>6. /\ new \in Participant /\ new.who = row.who
        /\ \/ new.joined = Null \/ x.type = "joined" \/ (x.id # Null /\ x.row.joined # Null)
        /\ new.left # Null => x.type = "left"
        /\ new.status = "completed" <=> new.left # Null
    <3>1. CASE x.type = "joined"
      BY <2>5, <3>1
    <3>2. CASE x.type = "left"
      <4>1. Spent(row, x.time, x.total) \in Nat
        BY <2>2, <2>5, SpentType
      <4> QED BY <2>2, <2>5, <3>2, <4>1, CompletedType
    <3> QED BY <2>2, <3>1, <3>2
  <2> HIDE DEF new
  <2>7. LiveRows'
    BY <1>0, <2>1, <2>2, <2>5, <2>6, Upserted
  <2>8. LiveCarries(req[r])'
    BY <1>0, <1>2 DEF CaptureSave, Return, Idle, Slots, LiveCarries, PeopleLabels
  <2> QED BY <1>0, <2>7, <2>8, LiveKeptByStep
<1> QED BY <1>1, <1>2 DEF CaptureStep

\* Every step keeps the invariant.
LEMMA LiveInvStep ==
  ASSUME LiveInv, [SessionsNext]_sessionVars
  PROVE  LiveInv'
<1>1. ASSUME NEW r \in Requests, ClassStep(r) \/ EndStep(r), served = "class", UNCHANGED served
      PROVE  LiveInv'
  BY <1>1, ClassSteps, EndSteps
<1>2. ASSUME NEW r \in Requests, EndStep(r) \/ JoinStep(r) \/ CaptureStep(r), served = "people",
             UNCHANGED served
      PROVE  LiveInv'
  BY <1>2, EndSteps, JoinSteps, CaptureSteps
<1>3. ASSUME NEW r \in Requests, AttendanceHandler(r), UNCHANGED <<live, clock, served>>,
             served \in {"students", "employee"}
      PROVE  LiveInv'
  <2>1. OnlySlot(r, AttendanceLabels)
    BY <1>3, AttendanceSlot DEF LiveInv
  <2>2. LiveCarries(req[r])'
    BY <2>1 DEF OnlySlot, AttendanceLabels, LiveCarries, PeopleLabels
  <2>3. \A p \in Requests \ {r} : LiveCarries(req[p])'
    <3> SUFFICES ASSUME NEW p \in Requests \ {r} PROVE LiveCarries(req[p])'
      OBVIOUS
    <3>1. req'[p] = req[p] /\ LiveCarries(req[p])
      BY <2>1 DEF OnlySlot, LiveInv
    <3> QED BY <1>3, <3>1 DEF LiveCarries, PeopleLabels, live
  <2>4. LiveRows'
    BY <1>3 DEF LiveInv, LiveRows, live, StatusIsLogged, PresenceIsLogged
  <2> QED BY <1>3, <2>1, <2>2, <2>3, <2>4 DEF LiveInv, OnlySlot
<1>4. CASE Tick /\ UNCHANGED <<attendance, served>>
  <2>1. UNCHANGED <<live, served, req>> /\ clock' \in Moments
    BY <1>4, LiveAssumption DEF Tick, LiveInv, LiveRows, Moments
  <2>2. LiveRows'
    BY <2>1 DEF LiveInv, LiveRows, live, StatusIsLogged, PresenceIsLogged
  <2>3. ASSUME NEW p \in Requests PROVE LiveCarries(req[p])'
    <3>1. LiveCarries(req[p])
      BY DEF LiveInv
    <3> QED BY <2>1, <3>1 DEF LiveCarries, live, Active, Of, Found
  <2> QED BY <2>1, <2>2, <2>3 DEF LiveInv, Slots, OneAtATime
<1>5. CASE UNCHANGED sessionVars
  <2>1. UNCHANGED <<live, served, req, clock>>
    BY <1>5 DEF sessionVars
  <2>2. LiveRows'
    BY <2>1 DEF LiveInv, LiveRows, live, StatusIsLogged, PresenceIsLogged
  <2>3. ASSUME NEW p \in Requests PROVE LiveCarries(req[p])'
    <3>1. LiveCarries(req[p])
      BY DEF LiveInv
    <3> QED BY <2>1, <3>1 DEF LiveCarries, live, Active, Of, Found
  <2> QED BY <2>1, <2>2, <2>3 DEF LiveInv, Slots, OneAtATime
<1> QED BY <1>1, <1>2, <1>3, <1>4, <1>5, SessionsSteps DEF AttendanceHandler

\* Nobody has two rows in a class.
LEMMA RowsOfPeople == LiveInv => OneRowPerPerson
<1> SUFFICES ASSUME LiveInv, NEW p \in People PROVE Cardinality(Of(p)) <= 1
  BY DEF OneRowPerPerson
<1>1. \A i, j \in Of(p) : i = j
  BY DEF Of, LiveInv, LiveRows
<1>2. CASE Of(p) = {}
  BY <1>2, FS_EmptySet
<1>3. CASE Of(p) # {}
  <2>1. PICK i : Of(p) = {i}
    BY <1>1, <1>3
  <2> QED BY <2>1, FS_Singleton
<1> QED BY <1>2, <1>3

\* The invariant gives the types.
LEMMA LiveTypes == LiveInv => LiveTypeOK
<1> SUFFICES ASSUME LiveInv PROVE LiveTypeOK
  OBVIOUS
<1>1. PICK n \in 1..MaxRows : DOMAIN participants = 1..n
  BY DEF LiveInv, LiveRows
<1>2. Cardinality(DOMAIN participants) = n /\ DOMAIN participants \subseteq 1..MaxRows
  BY <1>1, FS_Interval, LiveAssumption
<1>3. Range(log) \subseteq LiveClassEvent
  BY DEF LiveInv, LiveRows, Range
<1> QED BY <1>1, <1>2, <1>3 DEF LiveInv, LiveRows, LiveTypeOK

-----------------------------------------------------------------------------
(* A class that handles one request at a time: a request in flight carries the row   *)
(* as it is, of a class that is not closed.                                    *)

\* A request that is alone finds the class as it loaded it.
ClassCurrent(x) ==
  /\ x.at \in {"open.save", "cancel.save", "update.save", "end.participants", "end.save"} =>
       class.status \notin Closed
  /\ x.at = "update.save" => x.row = class /\ x.new.starts < x.new.ends

\* The invariant of the requests taken one at a time.
WindowInv ==
  OneAtATime => class.starts < class.ends /\ \A r \in Requests : ClassCurrent(req[r])

\* The scheduled class starts before it ends.
LEMMA WindowInit == SessionsInit => WindowInv
<1> SUFFICES ASSUME SessionsInit PROVE WindowInv
  OBVIOUS
<1>1. \A r \in Requests : req[r].at \in {"idle", "unused"}
  BY DEF SessionsInit, InitRequests, Idle, Unused
<1>2. class.starts = 0 /\ class.ends = 1
  BY DEF SessionsInit, LiveInit
<1> QED BY <1>1, <1>2 DEF WindowInv, ClassCurrent

\* What a step does to the class, and what it has loaded of it.
LEMMA WindowHandler ==
  ASSUME LiveInv, NEW r \in Requests, LiveHandler(r), class.starts < class.ends,
         ClassCurrent(req[r])
  PROVE  ClassCurrent(req[r])' /\ class'.starts < class'.ends
         /\ (class.status \in Closed => class' = class)
<1> DEFINE x == req[r]
<1>0. Slots /\ LiveRows /\ LiveCarries(x) /\ class \in ClassRow
  BY DEF LiveInv, LiveRows
<1> USE DEF Begin, Continue, Return, Idle, Slots
<1>1. CASE OpenLoad(r) \/ CancelLoad(r) \/ EndLoad(r)
  <2>1. class' = class /\ class.status \notin Closed /\ req'[r].at # "update.save"
    BY <1>0, <1>1 DEF OpenLoad, CancelLoad, EndLoad, live, Closed
  <2> QED BY <2>1 DEF ClassCurrent
<1>2. CASE EndParticipants(r)
  <2>1. class' = class /\ class.status \notin Closed /\ req'[r].at # "update.save"
    BY <1>0, <1>2 DEF EndParticipants, live, ClassCurrent
  <2> QED BY <2>1 DEF ClassCurrent
<1>3. CASE OpenSave(r) \/ CancelSave(r) \/ EndSave(r)
  <2>1. class.status \notin Closed /\ req'[r].at = "idle"
    BY <1>0, <1>3 DEF OpenSave, CancelSave, EndSave, ClassCurrent
  <2>2. PICK status : class' = [class EXCEPT !.status = status]
    BY <1>3 DEF OpenSave, CancelSave, EndSave
  <2>3. class'.starts = class.starts /\ class'.ends = class.ends
    BY <1>0, <2>2 DEF ClassRow
  <2> QED BY <2>1, <2>3 DEF ClassCurrent
<1>4. ASSUME NEW edit \in ClassEdits, NEW override, UpdateLoad(r, edit, override)
      PROVE  /\ ClassCurrent(req[r])' /\ class' = class
  <2>1. /\ class' = class /\ class.status \notin Closed
        /\ req'[r] = [at |-> "update.save", row |-> class, new |-> Edited(edit)]
        /\ Edited(edit).starts \in Nat /\ Edited(edit).ends \in Nat
        /\ Edited(edit).ends > Edited(edit).starts
    BY <1>0, <1>4, EditedType, NullOutside DEF UpdateLoad, live, Closed, ClassRow
  <2> HIDE DEF Begin, Continue, Return, Idle, Slots
  <2> QED BY <2>1 DEF ClassCurrent
<1>5. CASE UpdateSave(r)
  <2>1. /\ class' = x.new /\ class.status \notin Closed /\ req'[r].at = "idle"
        /\ x.new.starts < x.new.ends
    BY <1>0, <1>5, WrittenClass DEF UpdateSave, ClassCurrent, LiveCarries
  <2> QED BY <2>1 DEF ClassCurrent
<1>6. CASE AddRecording(r)
  BY <1>0, <1>6 DEF AddRecording, ClassCurrent
<1>7. ASSUME JoinStep(r) \/ CaptureStep(r)
      PROVE  ClassCurrent(req[r])' /\ class' = class
  <2>1. OnlySlot(r, LiveLabels)
    BY <1>0, <1>7, LiveSlot DEF LiveHandler
  <2>2. CASE JoinKnown(r) \/ JoinCount(r)
    <3>1. class' = class /\ req'[r].at \in {"idle", "join.count", "join.find"}
      BY <1>0, <2>2 DEF JoinKnown, JoinCount, live
    <3> QED BY <3>1 DEF ClassCurrent
  <2>3. CASE ~(JoinKnown(r) \/ JoinCount(r))
    <3>1. class' = class /\ req'[r].at \in {"idle", "join.known", "join.save", "capture.save"}
      BY <1>0, <1>7, <2>3 DEF JoinStep, CaptureStep, JoinLoad, JoinFind, JoinSave, CaptureFind,
         CaptureSave, live
    <3> QED BY <3>1 DEF ClassCurrent
  <2> QED BY <2>2, <2>3
<1> HIDE DEF Begin, Continue, Return, Idle, Slots
<1> QED BY <1>1, <1>2, <1>3, <1>4, <1>5, <1>6, <1>7 DEF LiveHandler, ClassStep, EndStep

\* Every step keeps it, and a closed class stays closed.
LEMMA WindowStep ==
  ASSUME LiveInv, WindowInv, [SessionsNext]_sessionVars
  PROVE  WindowInv' /\ ClosedStaysClosed
<1>1. ASSUME NEW r \in Requests, LiveHandler(r) PROVE WindowInv' /\ ClosedStaysClosed
  <2>0. OnlySlot(r, LiveLabels) /\ "unused" \notin LiveLabels
    BY <1>1, LiveSlot DEF LiveInv, LiveLabels
  <2>1. ASSUME OneAtATime
        PROVE  /\ ClassCurrent(req[r])' /\ class'.starts < class'.ends
               /\ (class.status \in Closed => class' = class)
    BY <1>1, <2>1, WindowHandler DEF WindowInv
  <2>2. ClosedStaysClosed
    BY <2>1 DEF ClosedStaysClosed
  <2>3. ASSUME OneAtATime' PROVE WindowInv'
    <3>1. OneAtATime /\ \A p \in Requests \ {r} : req'[p] = Unused
      BY <2>0, <2>3, OneSlot
    <3> QED BY <2>1, <3>1 DEF WindowInv, ClassCurrent, Unused
  <2> QED BY <2>2, <2>3 DEF WindowInv
<1>2. ASSUME NEW r \in Requests, AttendanceHandler(r), UNCHANGED <<live, clock>>
      PROVE  WindowInv' /\ ClosedStaysClosed
  <2>0. OnlySlot(r, AttendanceLabels) /\ "unused" \notin AttendanceLabels
    BY <1>2, AttendanceSlot DEF LiveInv, AttendanceLabels
  <2>1. class' = class
    BY <1>2 DEF live
  <2>2. ASSUME OneAtATime' PROVE WindowInv'
    <3>1. OneAtATime /\ \A p \in Requests \ {r} : req'[p] = Unused
      BY <2>0, <2>2, OneSlot
    <3>2. ClassCurrent(req[r])'
      BY <2>0 DEF OnlySlot, AttendanceLabels, ClassCurrent
    <3> QED BY <2>1, <3>1, <3>2 DEF WindowInv, ClassCurrent, Unused
  <2> QED BY <2>1, <2>2 DEF WindowInv, ClosedStaysClosed
<1>3. CASE Tick \/ UNCHANGED sessionVars
  BY <1>3 DEF Tick, sessionVars, live, WindowInv, ClassCurrent, OneAtATime, ClosedStaysClosed
<1> QED
  BY <1>1, <1>2, <1>3, SessionsSteps DEF LiveHandler, AttendanceHandler

\* With any number of requests, a class has the status that its log tells last, and a
\* participant the presence that the trail tells; with one at a time the window stays
\* open to participants, and a closed class stays as it is.
THEOREM ClassIsLoggedCorrect == SessionsSpec => ClassIsLogged
<1>1. LiveInv /\ WindowInv => StatusIsLogged /\ PresenceIsLogged /\ WindowKept
  BY DEF LiveInv, LiveRows, WindowInv, WindowKept
<1>2. LiveInv /\ WindowInv /\ [SessionsNext]_sessionVars => [ClosedStaysClosed]_sessionVars
  BY WindowStep
<1> QED
  BY <1>1, <1>2, LiveInvInit, LiveInvStep, WindowInit, WindowStep, PTL
     DEF SessionsSpec, ClassIsLogged

\* A join that adds a participant to a class leaves no more active ones than the class
\* has places.
THEOREM AdmittedCorrect == SessionsSpec => AdmittedWithinCapacity
<1> DEFINE A == \A r \in Requests :
                  JoinSave(r) /\ DOMAIN participants' # DOMAIN participants
                    => Cardinality({i \in DOMAIN participants' : participants'[i].left = Null})
                         <= class.capacity
<1>1. LiveInv => A
  <2> SUFFICES ASSUME LiveInv, NEW r \in Requests, JoinSave(r),
                      DOMAIN participants' # DOMAIN participants
               PROVE  Cardinality({i \in DOMAIN participants' : participants'[i].left = Null})
                        <= class.capacity
    OBVIOUS
  <2> DEFINE x == req[r]  B == {i \in DOMAIN participants' : participants'[i].left = Null}
  <2>1. /\ (Found(x) /\ Of(x.p) # {}) \/ Cardinality(Active) < class.capacity
        /\ class.capacity \in Nat
    BY LiveAssumption DEF JoinSave, LiveInv, LiveRows, LiveCarries, ClassRow
  <2>2. x.id = Null /\ participants' = WithRow(participants, IdOf(x), Member(x.p, x.time))
    BY DEF JoinSave, Upsert
  <2>3. Cardinality(Active) < class.capacity
    BY <2>1, <2>2 DEF Found
  <2>4. PICK n \in 1..MaxRows : DOMAIN participants = 1..n
    BY DEF LiveInv, LiveRows
  <2>5. IsFiniteSet(Active) /\ Cardinality(Active) \in Nat
    <3>1. IsFiniteSet(1..n) /\ Active \subseteq 1..n
      BY <2>4, FS_Interval DEF Active
    <3> QED BY <3>1, FS_Subset, FS_CardinalityType
  <2>6. B \subseteq Active \cup {IdOf(x)}
    BY <2>2 DEF WithRow, Active
  <2> HIDE DEF B
  <2>7. /\ IsFiniteSet(Active \cup {IdOf(x)})
        /\ Cardinality(Active \cup {IdOf(x)}) <= Cardinality(Active) + 1
        /\ Cardinality(Active \cup {IdOf(x)}) \in Nat
    BY <2>5, FS_AddElement, FS_CardinalityType
  <2>8. Cardinality(B) <= Cardinality(Active \cup {IdOf(x)}) /\ Cardinality(B) \in Nat
    BY <2>6, <2>7, FS_Subset, FS_CardinalityType
  <2>9. Cardinality(B) <= class.capacity
    BY <2>1, <2>3, <2>5, <2>7, <2>8
  <2> QED BY <2>9 DEF B
<1>2. LiveInv => [A]_<<live, req>>
  BY <1>1
<1> HIDE DEF A
<1>3. SessionsSpec => [][A]_<<live, req>>
  BY <1>2, LiveInvInit, LiveInvStep, PTL DEF SessionsSpec
<1> QED BY <1>3 DEF AdmittedWithinCapacity, A

-----------------------------------------------------------------------------
(* Attendance.  Records are never deleted, and a day keeps its first check-in, so   *)
(* what a request has found is still there when it writes.  A key that a request     *)
(* has inserted and not committed is no other request's.                        *)

\* A correction's row.
CorrectionRow == [target : Students \cup Dates, wanted : Marks \cup DayStatuses,
                  status : {"pending", "approved", "rejected"}]

\* The tables of attendance.
AttendRows ==
  /\ session \in SessionStatuses \cup {Null}
  /\ DOMAIN records \subseteq Students /\ \A s \in DOMAIN records : records[s] \in Marks
  /\ DOMAIN days \subseteq Dates /\ \A d \in DOMAIN days : days[d] \in DayRecord
  /\ OutAfterIn
  /\ corrections \in Seq(CorrectionRow)
  /\ \A c \in DOMAIN corrections :
       corrections[c].target \in Targets /\ corrections[c].wanted \in StatusesOf(corrections[c].target)

\* A check-out that is about to be saved: it changes no check-in.
CheckingOut(x) ==
  /\ x.date \in DOMAIN days /\ x.row \in DayRecord /\ x.new \in DayRecord
  /\ x.row.in = days[x.date].in /\ x.new.in = x.row.in
  /\ x.new.out \in Times /\ x.new.in <= x.new.out

\* What a request carries: the rows it has inserted so far are not committed,
\* those it loaded are.
AttendCarries(x) ==
  /\ x.at \in {"mark.find", "mark.insert"} =>
       /\ x.marks \in Batches /\ x.inserted \subseteq DOMAIN x.marks
       /\ x.inserted \cap DOMAIN records = {}
       /\ DOMAIN x.loaded \subseteq DOMAIN records \cap DOMAIN x.marks
  /\ x.at = "mark.insert" => x.s \in DOMAIN x.marks
  /\ x.at = "record.save" => x.s \in DOMAIN records /\ x.mark \in Marks
  /\ x.at = "checkin.save" => x.time \in Times /\ x.date \in Dates
  /\ x.at = "checkout.save" => CheckingOut(x)
  /\ x.at \in {"review.target", "reject.save", "approve.save"} => x.c \in DOMAIN corrections

\* The inductive invariant of attendance: no two requests insert a row for the
\* same student, for the second insert waits for the first one's commit.
AttendInv ==
  /\ Slots /\ AttendRows /\ \A r \in Requests : AttendCarries(req[r])
  /\ \A r, p \in Requests : r # p /\ Marking(r) /\ Marking(p) =>
       req[r].inserted \cap req[p].inserted = {}

\* No record, no day and no correction is there in the beginning.
LEMMA AttendInvInit == SessionsInit => AttendInv
<1> SUFFICES ASSUME SessionsInit PROVE AttendInv
  OBVIOUS
<1>1. Slots /\ \A r \in Requests : req[r].at \in {"idle", "unused"}
  BY DEF SessionsInit, InitRequests, Idle, Unused, Slots
<1>2. AttendRows
  BY DEF SessionsInit, AttendanceInit, AttendRows, OutAfterIn
<1> QED BY <1>1, <1>2 DEF AttendInv, AttendCarries, Marking

\* What a step does to what others have found.
AttendGrows ==
  /\ DOMAIN records \subseteq DOMAIN records' /\ DOMAIN days \subseteq DOMAIN days'
  /\ \A d \in DOMAIN days : days'[d].in = days[d].in
  /\ DOMAIN corrections \subseteq DOMAIN corrections'

\* What the other requests carry stays valid in a step of one that keeps clear
\* of their inserts.
LEMMA AttendKeptByStep ==
  ASSUME AttendInv, NEW r \in Requests, OnlySlot(r, AttendanceLabels), AttendGrows, AttendRows',
         AttendCarries(req[r])',
         \A p \in Requests \ {r} : Marking(p) =>
           /\ req[p].inserted \cap DOMAIN records' = {}
           /\ Marking(r)' => req'[r].inserted \cap req[p].inserted = {}
  PROVE  AttendInv'
<1>1. \A p \in Requests \ {r} : AttendCarries(req[p])'
  <2> SUFFICES ASSUME NEW p \in Requests \ {r} PROVE AttendCarries(req[p])'
    OBVIOUS
  <2>1. req'[p] = req[p] /\ AttendCarries(req[p])
    BY DEF OnlySlot, AttendInv
  <2> QED BY <2>1 DEF AttendGrows, AttendCarries, CheckingOut, Marking
<1>2. \A p \in Requests \ {r} : Marking(p)' = Marking(p) /\ req'[p] = req[p]
  BY DEF OnlySlot, Marking
<1>3. (\A s, p \in Requests : s # p /\ Marking(s) /\ Marking(p) =>
         req[s].inserted \cap req[p].inserted = {})'
  BY <1>2 DEF AttendInv
<1> QED BY <1>1, <1>3 DEF AttendInv, OnlySlot

\* So it does in a step that writes nothing.
LEMMA AttendQuiet ==
  ASSUME AttendInv, NEW r \in Requests, OnlySlot(r, AttendanceLabels), UNCHANGED attendance,
         AttendCarries(req[r])',
         Marking(r)' => \/ req'[r].inserted = {}
                        \/ Marking(r) /\ req'[r].inserted = req[r].inserted
  PROVE  AttendInv'
<1>1. AttendGrows /\ AttendRows'
  BY DEF AttendInv, attendance, AttendGrows, AttendRows, OutAfterIn, Targets
<1>2. \A p \in Requests \ {r} : Marking(p) =>
        /\ req[p].inserted \cap DOMAIN records' = {}
        /\ Marking(r)' => req'[r].inserted \cap req[p].inserted = {}
  BY DEF AttendInv, attendance, Marking, AttendCarries
<1> QED BY <1>1, <1>2, AttendKeptByStep

\* A step after which the slot marks nothing, and adds no record.
LEMMA AttendWritten ==
  ASSUME AttendInv, NEW r \in Requests, OnlySlot(r, AttendanceLabels), AttendGrows, AttendRows',
         req'[r].at = "idle", DOMAIN records' = DOMAIN records
  PROVE  AttendInv'
<1>1. AttendCarries(req[r])' /\ ~Marking(r)'
  BY DEF AttendCarries, Marking
<1>2. \A p \in Requests \ {r} : Marking(p) =>
        /\ req[p].inserted \cap DOMAIN records' = {}
        /\ Marking(r)' => req'[r].inserted \cap req[p].inserted = {}
  BY <1>1 DEF AttendInv, Marking, AttendCarries
<1> QED BY <1>1, <1>2, AttendKeptByStep

\* Marking a batch and correcting a record keep the invariant.
LEMMA MarkSteps ==
  ASSUME AttendInv, NEW r \in Requests, MarkStep(r)
  PROVE  AttendInv' /\ AttendGrows
<1> DEFINE x == req[r]
<1>0. OnlySlot(r, AttendanceLabels) /\ Slots /\ AttendRows /\ AttendCarries(x)
  BY AttendanceSlot DEF AttendInv, AttendanceHandler
<1>q. ASSUME UNCHANGED attendance PROVE AttendGrows
  BY <1>q DEF attendance, AttendGrows
<1> USE DEF Begin, Continue, Return, Idle, Slots
<1>1. ASSUME NEW first \in FirstStatuses, CreateSession(r, first) PROVE AttendInv' /\ AttendGrows
  <2>1. /\ session' \in SessionStatuses /\ UNCHANGED <<records, days, corrections, req>>
        /\ req'[r].at = "idle"
    BY <1>1, AttendanceAssumption DEF CreateSession
  <2>2. AttendGrows /\ AttendRows'
    BY <1>0, <2>1 DEF AttendGrows, AttendRows, OutAfterIn, Targets
  <2> QED BY <1>0, <2>1, <2>2, AttendWritten
<1>2. ASSUME NEW marks \in Batches, NEW submit, MarkLoad(r, marks, submit)
      PROVE  AttendInv' /\ AttendGrows
  <2>1. UNCHANGED attendance /\ AttendCarries(req[r])' /\ req'[r].inserted = {}
    BY <1>0, <1>2 DEF MarkLoad, AttendCarries
  <2> QED BY <1>0, <1>q, <2>1, AttendQuiet
<1>3. ASSUME NEW s \in Students, MarkFind(r, s) PROVE AttendInv' /\ AttendGrows
  <2>0. /\ UNCHANGED attendance /\ x.at = "mark.find" /\ s \in DOMAIN x.marks \ Done(x)
        /\ x.marks \in Batches /\ x.inserted \subseteq DOMAIN x.marks
        /\ x.inserted \cap DOMAIN records = {}
        /\ DOMAIN x.loaded \subseteq DOMAIN records \cap DOMAIN x.marks
        /\ Marking(r)
    BY <1>0, <1>3 DEF MarkFind, AttendCarries, Marking
  <2>1. CASE s \in DOMAIN records
    <3> DEFINE loaded == WithRow(x.loaded, s, records[s])
    <3>1. req'[r] = [x EXCEPT !.loaded = loaded]
      BY <1>0, <1>3, <2>1 DEF MarkFind
    <3>2. DOMAIN loaded \subseteq DOMAIN records \cap DOMAIN x.marks
      BY <2>0, <2>1 DEF WithRow
    <3> HIDE DEF loaded
    <3>3. /\ req'[r].at = "mark.find" /\ req'[r].marks = x.marks
          /\ req'[r].inserted = x.inserted /\ req'[r].loaded = loaded
      BY <1>0, <2>0, <3>1
    <3>4. AttendCarries(req[r])'
      BY <2>0, <3>2, <3>3 DEF AttendCarries, attendance
    <3> QED BY <1>0, <1>q, <2>0, <3>3, <3>4, AttendQuiet
  <2>2. CASE s \notin DOMAIN records
    <3>1. req'[r] = [at |-> "mark.insert", s |-> s, marks |-> x.marks, submit |-> x.submit,
                     seen |-> x.seen, inserted |-> x.inserted, loaded |-> x.loaded]
      BY <1>0, <1>3, <2>2 DEF MarkFind
    <3>2. AttendCarries(req[r])' /\ req'[r].inserted = x.inserted
      BY <2>0, <3>1 DEF AttendCarries, attendance
    <3> QED BY <1>0, <1>q, <2>0, <3>2, AttendQuiet
  <2> QED BY <2>1, <2>2
<1>4. CASE MarkInsert(r)
  <2>1. /\ UNCHANGED attendance /\ x.at = "mark.insert" /\ x.s \notin DOMAIN records
        /\ ~Held(r, x.s) /\ req'[r] = Inserted(x) /\ x.s \in DOMAIN x.marks
        /\ x.marks \in Batches /\ x.inserted \subseteq DOMAIN x.marks
        /\ x.inserted \cap DOMAIN records = {} /\ Marking(r)
        /\ DOMAIN x.loaded \subseteq DOMAIN records \cap DOMAIN x.marks
    BY <1>0, <1>4 DEF MarkInsert, AttendCarries, Marking
  <2>2. /\ req'[r].at = "mark.find" /\ req'[r].marks = x.marks
        /\ req'[r].inserted = x.inserted \cup {x.s} /\ req'[r].loaded = x.loaded
    BY <2>1 DEF Inserted
  <2>3. AttendCarries(req[r])'
    BY <2>1, <2>2 DEF AttendCarries, attendance
  <2>4. \A p \in Requests \ {r} : Marking(p) =>
          /\ req[p].inserted \cap DOMAIN records' = {}
          /\ req'[r].inserted \cap req[p].inserted = {}
    BY <2>1, <2>2 DEF AttendInv, attendance, Marking, AttendCarries, Held
  <2>5. AttendGrows /\ AttendRows'
    BY <1>0, <2>1 DEF attendance, AttendGrows, AttendRows, OutAfterIn, Targets
  <2> QED BY <1>0, <2>3, <2>4, <2>5, AttendKeptByStep
<1>5. CASE MarkConflict(r)
  <2>1. UNCHANGED attendance /\ req'[r].at = "idle"
    BY <1>0, <1>5 DEF MarkConflict
  <2>2. AttendCarries(req[r])' /\ ~Marking(r)'
    BY <2>1 DEF AttendCarries, Marking
  <2> QED BY <1>0, <1>q, <2>1, <2>2, AttendQuiet
<1>6. CASE MarkSave(r)
  <2>1. /\ x.at = "mark.find" /\ UNCHANGED <<days, corrections>> /\ req'[r].at = "idle"
        /\ records' = [s \in DOMAIN records \cup x.inserted |->
                         IF s \in x.inserted THEN x.marks[s]
                         ELSE IF s \in DOMAIN x.loaded
                         THEN Flushed(records[s], x.loaded[s], x.marks[s])
                         ELSE records[s]]
        /\ x.marks \in Batches /\ x.inserted \subseteq DOMAIN x.marks
        /\ DOMAIN x.loaded \subseteq DOMAIN records \cap DOMAIN x.marks
    BY <1>0, <1>6 DEF MarkSave, AttendCarries
  <2>2. DOMAIN x.marks \subseteq Students /\ \A s \in DOMAIN x.marks : x.marks[s] \in Marks
    BY <2>1, AttendanceAssumption DEF Range
  <2>3. /\ DOMAIN records' = DOMAIN records \cup x.inserted /\ DOMAIN records' \subseteq Students
        /\ \A s \in DOMAIN records' : records'[s] \in Marks
    BY <1>0, <2>1, <2>2 DEF AttendRows, Flushed
  <2>4. session' \in SessionStatuses \cup {Null}
    BY <1>0, <1>6 DEF MarkSave, Flushed, AttendRows, SessionStatuses
  <2>5. AttendGrows /\ AttendRows'
    BY <1>0, <2>1, <2>3, <2>4 DEF AttendGrows, AttendRows, OutAfterIn, Targets
  <2>6. AttendCarries(req[r])' /\ ~Marking(r)' /\ Marking(r)
    BY <2>1 DEF AttendCarries, Marking
  <2>7. \A p \in Requests \ {r} : Marking(p) => req[p].inserted \cap DOMAIN records' = {}
    BY <2>3, <2>6 DEF AttendInv, Marking, AttendCarries
  <2> QED BY <1>0, <2>5, <2>6, <2>7, AttendKeptByStep
<1>7. ASSUME NEW s \in Students, NEW mark \in Marks, RecordLoad(r, s, mark)
      PROVE  AttendInv' /\ AttendGrows
  <2>1. UNCHANGED attendance /\ AttendCarries(req[r])' /\ ~Marking(r)'
    BY <1>0, <1>7 DEF RecordLoad, AttendCarries, Marking, attendance
  <2> QED BY <1>0, <1>q, <2>1, AttendQuiet
<1>8. CASE RecordSave(r)
  <2>1. /\ UNCHANGED <<session, days, corrections>> /\ req'[r].at = "idle"
        /\ records' = [records EXCEPT ![x.s] = Flushed(@, x.loaded, x.mark)]
        /\ x.s \in DOMAIN records /\ x.mark \in Marks
    BY <1>0, <1>8 DEF RecordSave, AttendCarries
  <2>2. DOMAIN records' = DOMAIN records /\ \A s \in DOMAIN records' : records'[s] \in Marks
    BY <1>0, <2>1 DEF AttendRows, Flushed
  <2>3. AttendGrows /\ AttendRows'
    BY <1>0, <2>1, <2>2 DEF AttendGrows, AttendRows, OutAfterIn, Targets
  <2> QED BY <1>0, <2>1, <2>2, <2>3, AttendWritten
<1> HIDE DEF Begin, Continue, Return, Idle, Slots
<1> QED BY <1>1, <1>2, <1>3, <1>4, <1>5, <1>6, <1>7, <1>8 DEF MarkStep

\* A moment's date in a time zone is one of the dates.
LEMMA DateType == ASSUME NEW t \in Times, NEW zone \in Zones PROVE DateOf(t, zone) \in Dates
BY DEF Dates

\* A check-out as it is written.
LEMMA WrittenDay ==
  ASSUME NEW current \in DayRecord, NEW row \in DayRecord, NEW new \in DayRecord,
         row.in = current.in, new.in = row.in, new.out \in Times, new.in <= new.out,
         current.out # Null => current.in <= current.out
  PROVE  /\ Written(current, row, new) \in DayRecord
         /\ Written(current, row, new).in = current.in
         /\ Written(current, row, new).out # Null =>
              current.in <= Written(current, row, new).out
BY DEF Written, Flushed, DayRecord

\* Checking in and out keep the invariant.
LEMMA DaySteps ==
  ASSUME AttendInv, NEW r \in Requests, DayStep(r)
  PROVE  AttendInv' /\ AttendGrows
<1> DEFINE x == req[r]
<1>0. OnlySlot(r, AttendanceLabels) /\ Slots /\ AttendRows /\ AttendCarries(x)
  BY AttendanceSlot DEF AttendInv, AttendanceHandler
<1>q. ASSUME UNCHANGED attendance PROVE AttendGrows
  BY <1>q DEF attendance, AttendGrows
<1> USE DEF Begin, Return, Idle, Slots
<1>1. ASSUME NEW t \in Times, NEW zone \in Zones, CheckInLoad(r, t, zone)
      PROVE  AttendInv' /\ AttendGrows
  <2>1. UNCHANGED attendance /\ AttendCarries(req[r])' /\ ~Marking(r)'
    BY <1>0, <1>1, DateType DEF CheckInLoad, AttendCarries, Marking
  <2> QED BY <1>0, <1>q, <2>1, AttendQuiet
<1>2. CASE CheckInSave(r)
  <2>1. /\ UNCHANGED <<session, records, corrections>> /\ req'[r].at = "idle"
        /\ days' = WithRow(days, x.date, CheckedIn(x.time))
        /\ x.time \in Times /\ x.date \in Dates
    BY <1>0, <1>2 DEF CheckInSave, AttendCarries
  <2>2. CheckedIn(x.time) \in DayRecord /\ CheckedIn(x.time).out = Null
    BY <2>1, AttendanceAssumption DEF CheckedIn, DayRecord
  <2>3. /\ DOMAIN days' = DOMAIN days \cup {x.date} /\ DOMAIN days' \subseteq Dates
        /\ \A d \in DOMAIN days : days'[d] = days[d]
        /\ \A d \in DOMAIN days' : d \in DOMAIN days \/ days'[d] = CheckedIn(x.time)
    BY <1>0, <2>1 DEF WithRow, AttendRows
  <2>4. OutAfterIn' /\ \A d \in DOMAIN days' : days'[d] \in DayRecord
    BY <1>0, <2>2, <2>3 DEF AttendRows, OutAfterIn
  <2>5. AttendGrows /\ AttendRows'
    BY <1>0, <2>1, <2>3, <2>4 DEF AttendGrows, AttendRows, Targets
  <2> QED BY <1>0, <2>1, <2>5, AttendWritten
<1>3. ASSUME NEW t \in Times, NEW zone \in Zones, NEW status \in DayStatuses \cup {Null},
             CheckOutLoad(r, t, zone, status)
      PROVE  AttendInv' /\ AttendGrows
  <2> DEFINE d == DateOf(t, zone)
             new == [days[d] EXCEPT !.out = t, !.status = IF status = Null THEN @ ELSE status]
  <2>1. /\ UNCHANGED attendance /\ d \in DOMAIN days /\ NotBefore(t, days[d].in)
        /\ req'[r] = [at |-> "checkout.save", date |-> d, row |-> days[d], new |-> new]
    BY <1>0, <1>3 DEF CheckOutLoad
  <2>2. days[d] \in DayRecord
    BY <1>0, <2>1 DEF AttendRows
  <2>3. new \in DayRecord /\ new.in = days[d].in /\ new.out = t
    BY <2>2 DEF DayRecord
  <2>4. new.in <= new.out
    BY <2>1, <2>2, <2>3, AttendanceAssumption DEF NotBefore, DayRecord
  <2> HIDE DEF new, d
  <2>5. AttendCarries(req[r])' /\ ~Marking(r)'
    BY <2>1, <2>2, <2>3, <2>4 DEF AttendCarries, CheckingOut, attendance, Marking
  <2> QED BY <1>0, <1>q, <2>1, <2>5, AttendQuiet
<1>4. CASE CheckOutSave(r)
  <2>1. /\ UNCHANGED <<session, records, corrections>> /\ req'[r].at = "idle"
        /\ days' = [days EXCEPT ![x.date] = Written(@, x.row, x.new)] /\ CheckingOut(x)
    BY <1>0, <1>4 DEF CheckOutSave, AttendCarries
  <2> DEFINE w == Written(days[x.date], x.row, x.new)
  <2>2. /\ w \in DayRecord /\ w.in = days[x.date].in
        /\ w.out # Null => days[x.date].in <= w.out
    BY <1>0, <2>1, WrittenDay DEF CheckingOut, AttendRows, OutAfterIn
  <2>3. days' = [days EXCEPT ![x.date] = w]
    BY <2>1
  <2> HIDE DEF w
  <2>4. /\ DOMAIN days' = DOMAIN days
        /\ \A d \in DOMAIN days : days'[d] = IF d = x.date THEN w ELSE days[d]
    BY <2>1, <2>3 DEF CheckingOut
  <2>5. OutAfterIn' /\ \A d \in DOMAIN days' : days'[d] \in DayRecord
    BY <1>0, <2>2, <2>4 DEF AttendRows, OutAfterIn
  <2>6. \A d \in DOMAIN days : days'[d].in = days[d].in
    BY <2>2, <2>4
  <2>7. AttendGrows /\ AttendRows'
    BY <1>0, <2>1, <2>4, <2>5, <2>6 DEF AttendGrows, AttendRows, Targets
  <2> QED BY <1>0, <2>1, <2>7, AttendWritten
<1> HIDE DEF Begin, Return, Idle, Slots
<1> QED BY <1>1, <1>2, <1>3, <1>4 DEF DayStep

\* What an approval writes: the status of the target, and nothing else of it.
LEMMA ApproveWrites ==
  ASSUME AttendInv, NEW r \in Requests, ApproveSave(r)
  PROVE  /\ req[r].c \in DOMAIN corrections /\ UNCHANGED session /\ req'[r].at = "idle"
         /\ corrections' = [corrections EXCEPT ![req[r].c].status = "approved"]
         /\ corrections' \in Seq(CorrectionRow)
         /\ DOMAIN corrections' = DOMAIN corrections
         /\ \A c \in DOMAIN corrections : /\ corrections'[c].target = corrections[c].target
                                          /\ corrections'[c].wanted = corrections[c].wanted
         /\ DOMAIN records' = DOMAIN records /\ \A s \in DOMAIN records : records'[s] \in Marks
         /\ DOMAIN days' = DOMAIN days
         /\ \A d \in DOMAIN days : /\ days'[d] \in DayRecord /\ days'[d].in = days[d].in
                                   /\ days'[d].out = days[d].out
         /\ \A c \in DOMAIN corrections : c = req[r].c =>
              StatusNow(corrections[c].target)' =
                Flushed(StatusNow(corrections[c].target), req[r].seen, corrections[c].wanted)
<1> DEFINE x == req[r]  fix == corrections[x.c]
<1>0. Slots /\ AttendRows /\ AttendCarries(x)
  BY DEF AttendInv
<1>1. /\ x.c \in DOMAIN corrections /\ UNCHANGED session /\ req'[r].at = "idle"
      /\ corrections' = [corrections EXCEPT ![x.c].status = "approved"]
      /\ corrections \in Seq(CorrectionRow)
      /\ fix.target \in Targets /\ fix.wanted \in StatusesOf(fix.target)
    BY <1>0 DEF ApproveSave, AttendCarries, AttendRows, Return, Idle, Slots
<1>2. fix \in CorrectionRow
  BY <1>1
<1>3. [fix EXCEPT !.status = "approved"] \in CorrectionRow
  BY <1>2 DEF CorrectionRow
<1>4. /\ corrections' \in Seq(CorrectionRow) /\ DOMAIN corrections' = DOMAIN corrections
      /\ \A c \in DOMAIN corrections :
           corrections'[c] = IF c = x.c THEN [fix EXCEPT !.status = "approved"] ELSE corrections[c]
  <2> DEFINE approved == [fix EXCEPT !.status = "approved"]
  <2>1. corrections' = [corrections EXCEPT ![x.c] = approved]
    BY <1>1
  <2>2. approved \in CorrectionRow
    BY <1>3
  <2> HIDE DEF approved, fix
  <2>3. corrections' \in Seq(CorrectionRow) /\ DOMAIN corrections' = DOMAIN corrections
    BY <1>1, <2>1, <2>2
  <2>4. \A c \in DOMAIN corrections :
           corrections'[c] = IF c = x.c THEN approved ELSE corrections[c]
    BY <1>1, <2>1
  <2> QED BY <2>3, <2>4 DEF approved, fix
<1>5. \A c \in DOMAIN corrections : /\ corrections'[c].target = corrections[c].target
                                    /\ corrections'[c].wanted = corrections[c].wanted
  <2>1. /\ [fix EXCEPT !.status = "approved"].target = fix.target
        /\ [fix EXCEPT !.status = "approved"].wanted = fix.wanted
    BY <1>2 DEF CorrectionRow
  <2> QED BY <1>4, <2>1
<1>6. CASE fix.target \in Dates
  <2>1. /\ fix.target \in DOMAIN days /\ fix.wanted \in DayStatuses
        /\ days[fix.target] \in DayRecord
    BY <1>0, <1>1, <1>6, AttendanceAssumption DEF Targets, AttendRows, StatusesOf
  <2> DEFINE w == [days[fix.target] EXCEPT !.status = Flushed(@, x.seen, fix.wanted)]
  <2>2. /\ w \in DayRecord /\ w.in = days[fix.target].in /\ w.out = days[fix.target].out
        /\ w.status = Flushed(days[fix.target].status, x.seen, fix.wanted)
    BY <2>1 DEF Flushed, DayRecord
  <2>3. days' = [days EXCEPT ![fix.target] = w] /\ UNCHANGED records
    BY <1>6 DEF ApproveSave
  <2> HIDE DEF w, fix
  <2>4. /\ DOMAIN days' = DOMAIN days
        /\ \A d \in DOMAIN days : days'[d] = IF d = fix.target THEN w ELSE days[d]
    BY <2>1, <2>3
  <2>5. \A d \in DOMAIN days : /\ days'[d] \in DayRecord /\ days'[d].in = days[d].in
                               /\ days'[d].out = days[d].out
    BY <1>0, <2>2, <2>4 DEF AttendRows
  <2>6. \A s \in DOMAIN records : records'[s] \in Marks
    BY <1>0, <2>3 DEF AttendRows
  <2>7. days'[fix.target].status = Flushed(days[fix.target].status, x.seen, fix.wanted)
    BY <2>1, <2>2, <2>4
  <2>8. \A c \in DOMAIN corrections : c = x.c =>
          StatusNow(corrections[c].target)' =
            Flushed(StatusNow(corrections[c].target), x.seen, corrections[c].wanted)
    BY <1>5, <1>6, <2>7 DEF StatusNow, fix
  <2> QED BY <1>1, <1>4, <1>5, <2>3, <2>4, <2>5, <2>6, <2>8
<1>7. CASE fix.target \notin Dates
  <2>1. fix.target \in DOMAIN records /\ fix.wanted \in Marks
    BY <1>0, <1>1, <1>7 DEF Targets, AttendRows, StatusesOf
  <2> DEFINE w == Flushed(records[fix.target], x.seen, fix.wanted)
  <2>2. w \in Marks
    BY <1>0, <2>1 DEF Flushed, AttendRows
  <2>3. records' = [records EXCEPT ![fix.target] = w] /\ UNCHANGED days
    BY <1>7 DEF ApproveSave
  <2> HIDE DEF w, fix
  <2>4. /\ DOMAIN records' = DOMAIN records /\ records'[fix.target] = w
        /\ \A s \in DOMAIN records : records'[s] \in Marks
    BY <1>0, <2>1, <2>2, <2>3 DEF AttendRows
  <2>5. \A d \in DOMAIN days : /\ days'[d] \in DayRecord /\ days'[d].in = days[d].in
                               /\ days'[d].out = days[d].out
    BY <1>0, <2>3 DEF AttendRows
  <2>6. \A c \in DOMAIN corrections : c = x.c =>
          StatusNow(corrections[c].target)' =
            Flushed(StatusNow(corrections[c].target), x.seen, corrections[c].wanted)
    BY <1>5, <1>7, <2>4 DEF StatusNow, fix, w
  <2> QED BY <1>1, <1>4, <1>5, <2>3, <2>4, <2>5, <2>6
<1> QED BY <1>6, <1>7

\* Reviewing corrections keeps it.
LEMMA CorrectionSteps ==
  ASSUME AttendInv, NEW r \in Requests, CorrectionStep(r)
  PROVE  AttendInv' /\ AttendGrows
<1> DEFINE x == req[r]
<1>0. OnlySlot(r, AttendanceLabels) /\ Slots /\ AttendRows /\ AttendCarries(x)
  BY AttendanceSlot DEF AttendInv, AttendanceHandler
<1>q. ASSUME UNCHANGED attendance PROVE AttendGrows
  BY <1>q DEF attendance, AttendGrows
<1> USE DEF Begin, Continue, Return, Idle, Slots
<1>1. ASSUME NEW target \in Targets, NEW wanted \in StatusesOf(target),
             CreateCorrection(r, target, wanted)
      PROVE  AttendInv' /\ AttendGrows
  <2> DEFINE new == [target |-> target, wanted |-> wanted, status |-> "pending"]
  <2>1. new \in CorrectionRow /\ new.target = target /\ new.wanted = wanted
    BY <1>0 DEF CorrectionRow, Targets, AttendRows, StatusesOf
  <2>2. /\ UNCHANGED <<session, records, days>> /\ req'[r].at = "idle"
        /\ corrections' = Append(corrections, new) /\ corrections \in Seq(CorrectionRow)
    BY <1>0, <1>1 DEF CreateCorrection, AttendRows
  <2> HIDE DEF new
  <2>3. /\ corrections' \in Seq(CorrectionRow) /\ DOMAIN corrections \subseteq DOMAIN corrections'
        /\ \A c \in DOMAIN corrections' :
             corrections'[c] = new \/ (c \in DOMAIN corrections /\ corrections'[c] = corrections[c])
    BY <2>1, <2>2
  <2>4. \A c \in DOMAIN corrections' :
          /\ corrections'[c].target \in Targets
          /\ corrections'[c].wanted \in StatusesOf(corrections'[c].target)
    BY <1>0, <2>1, <2>3 DEF AttendRows
  <2>5. Targets' = Targets /\ \A t : StatusesOf(t)' = StatusesOf(t)
    BY <2>2 DEF Targets, StatusesOf
  <2>6. AttendGrows /\ AttendRows'
    BY <1>0, <2>2, <2>3, <2>4, <2>5 DEF AttendGrows, AttendRows, OutAfterIn, StatusesOf
  <2> QED BY <1>0, <2>2, <2>6, AttendWritten
<1>2. ASSUME NEW c \in DOMAIN corrections, NEW approved \in BOOLEAN, ReviewLoad(r, c, approved)
      PROVE  AttendInv' /\ AttendGrows
  <2>1. UNCHANGED attendance /\ AttendCarries(req[r])' /\ ~Marking(r)'
    BY <1>0, <1>2 DEF ReviewLoad, AttendCarries, Marking, attendance
  <2> QED BY <1>0, <1>q, <2>1, AttendQuiet
<1>3. CASE ReviewTarget(r)
  <2>1. UNCHANGED attendance /\ AttendCarries(req[r])' /\ ~Marking(r)'
    BY <1>0, <1>3 DEF ReviewTarget, AttendCarries, Marking, attendance
  <2> QED BY <1>0, <1>q, <2>1, AttendQuiet
<1>4. CASE ApproveSave(r)
  <2>1. /\ UNCHANGED session /\ req'[r].at = "idle"
        /\ corrections' \in Seq(CorrectionRow) /\ DOMAIN corrections' = DOMAIN corrections
        /\ \A c \in DOMAIN corrections : /\ corrections'[c].target = corrections[c].target
                                         /\ corrections'[c].wanted = corrections[c].wanted
        /\ DOMAIN records' = DOMAIN records /\ \A s \in DOMAIN records : records'[s] \in Marks
        /\ DOMAIN days' = DOMAIN days
        /\ \A d \in DOMAIN days : /\ days'[d] \in DayRecord /\ days'[d].in = days[d].in
                                  /\ days'[d].out = days[d].out
    BY <1>4, ApproveWrites
  <2> HIDE DEF Begin, Continue, Return, Idle, Slots
  <2>2. Targets' = Targets /\ OutAfterIn'
    BY <1>0, <2>1 DEF Targets, OutAfterIn, AttendRows
  <2>3. \A c \in DOMAIN corrections' :
          /\ corrections'[c].target \in Targets
          /\ corrections'[c].wanted \in StatusesOf(corrections'[c].target)
    BY <1>0, <2>1 DEF AttendRows
  <2>4. AttendGrows /\ AttendRows'
    BY <1>0, <2>1, <2>2, <2>3 DEF AttendGrows, AttendRows, StatusesOf
  <2> QED BY <1>0, <2>1, <2>4, AttendWritten
<1>5. CASE RejectSave(r)
  <2> DEFINE new == [corrections[x.c] EXCEPT !.status = "rejected"]
  <2>1. /\ UNCHANGED <<session, records, days>> /\ req'[r].at = "idle"
        /\ corrections' = [corrections EXCEPT ![x.c] = new] /\ x.c \in DOMAIN corrections
        /\ corrections \in Seq(CorrectionRow)
    BY <1>0, <1>5 DEF RejectSave, AttendCarries, AttendRows
  <2>2. corrections[x.c] \in CorrectionRow
    BY <2>1
  <2>3. /\ new \in CorrectionRow /\ new.target = corrections[x.c].target
        /\ new.wanted = corrections[x.c].wanted
    BY <2>2 DEF CorrectionRow
  <2> HIDE DEF new
  <2>4. /\ corrections' \in Seq(CorrectionRow) /\ DOMAIN corrections' = DOMAIN corrections
        /\ \A c \in DOMAIN corrections : /\ corrections'[c].target = corrections[c].target
                                         /\ corrections'[c].wanted = corrections[c].wanted
    BY <2>1, <2>3
  <2>5. \A c \in DOMAIN corrections' :
          /\ corrections'[c].target \in Targets
          /\ corrections'[c].wanted \in StatusesOf(corrections'[c].target)
    BY <1>0, <2>4 DEF AttendRows
  <2>6. AttendGrows /\ AttendRows'
    BY <1>0, <2>1, <2>4, <2>5 DEF AttendGrows, AttendRows, OutAfterIn, StatusesOf, Targets
  <2> QED BY <1>0, <2>1, <2>6, AttendWritten
<1> HIDE DEF Begin, Continue, Return, Idle, Slots
<1> QED BY <1>1, <1>2, <1>3, <1>4, <1>5 DEF CorrectionStep

\* Every step keeps the invariant.
LEMMA AttendInvStep ==
  ASSUME AttendInv, [SessionsNext]_sessionVars
  PROVE  AttendInv' /\ AttendGrows
<1>1. ASSUME NEW r \in Requests, AttendanceHandler(r) PROVE AttendInv' /\ AttendGrows
  BY <1>1, MarkSteps, DaySteps, CorrectionSteps DEF AttendanceHandler
<1>2. ASSUME NEW r \in Requests, LiveHandler(r), UNCHANGED attendance
      PROVE  AttendInv' /\ AttendGrows
  <2>1. OnlySlot(r, LiveLabels)
    BY <1>2, LiveSlot DEF AttendInv
  <2>2. AttendRows' /\ AttendGrows
    BY <1>2 DEF AttendInv, attendance, AttendRows, OutAfterIn, Targets, AttendGrows, StatusesOf
  <2>3. \A p \in Requests : p = r \/ req'[p] = req[p]
    BY <2>1 DEF OnlySlot
  <2>4. \A p \in Requests : AttendCarries(req[p])'
    <3> SUFFICES ASSUME NEW p \in Requests PROVE AttendCarries(req[p])'
      OBVIOUS
    <3>1. CASE p = r
      BY <2>1, <3>1 DEF OnlySlot, LiveLabels, AttendCarries
    <3>2. CASE req'[p] = req[p]
      BY <1>2, <3>2 DEF AttendInv, attendance, AttendCarries, CheckingOut
    <3> QED BY <2>3, <3>1, <3>2
  <2>5. ~Marking(r)'
    BY <2>1 DEF OnlySlot, LiveLabels, Marking
  <2>6. (\A s, p \in Requests : s # p /\ Marking(s) /\ Marking(p) =>
           req[s].inserted \cap req[p].inserted = {})'
    BY <2>3, <2>5 DEF AttendInv, Marking
  <2> QED BY <2>1, <2>2, <2>4, <2>6 DEF AttendInv, OnlySlot
<1>3. ASSUME UNCHANGED <<attendance, req>> PROVE AttendInv' /\ AttendGrows
  BY <1>3 DEF AttendInv, attendance, AttendRows, OutAfterIn, Targets, StatusesOf, AttendCarries,
     CheckingOut, Marking, Slots, AttendGrows
<1>4. CASE Tick /\ UNCHANGED attendance
  BY <1>3, <1>4 DEF Tick
<1>5. CASE UNCHANGED sessionVars
  BY <1>3, <1>5 DEF sessionVars
<1> QED BY <1>1, <1>2, <1>4, <1>5, SessionsSteps DEF LiveHandler, AttendanceHandler

\* The invariant gives the types and what holds of any number of requests.
LEMMA AttendTypes == AttendInv => AttendanceTypeOK /\ OneRecordPerStudent /\ OutAfterIn
<1> SUFFICES ASSUME AttendInv PROVE AttendanceTypeOK /\ OneRecordPerStudent /\ OutAfterIn
  OBVIOUS
<1>1. OneRecordPerStudent
  BY DEF AttendInv, OneRecordPerStudent, Marking, AttendCarries
<1>2. \A c \in DOMAIN corrections : corrections[c] \in Correction
  <2> SUFFICES ASSUME NEW c \in DOMAIN corrections PROVE corrections[c] \in Correction
    OBVIOUS
  <2> DEFINE t == corrections[c].target
  <2>1. corrections[c] \in CorrectionRow /\ t \in Targets /\ corrections[c].wanted \in StatusesOf(t)
    BY DEF AttendInv, AttendRows
  <2>2. corrections[c] \in [target : {t}, wanted : StatusesOf(t),
                            status : {"pending", "approved", "rejected"}]
    BY <2>1 DEF CorrectionRow
  <2> HIDE DEF t
  <2> QED BY <2>1, <2>2 DEF Correction
<1>3. Range(records) \subseteq Marks /\ Range(days) \subseteq DayRecord
  BY DEF AttendInv, AttendRows, Range
<1> QED BY <1>1, <1>2, <1>3 DEF AttendInv, AttendRows, AttendanceTypeOK

\* The rows of a class and of attendance have their columns' types.
THEOREM SessionsTypeCorrect == SessionsSpec => []SessionsTypeOK
<1>1. LiveInv /\ AttendInv => SessionsTypeOK
  BY LiveTypes, AttendTypes DEF SessionsTypeOK
<1> QED
  BY <1>1, LiveInvInit, LiveInvStep, AttendInvInit, AttendInvStep, PTL DEF SessionsSpec

\* Nobody has two rows in a class, and no two requests have inserted the record of one
\* student, nor one that is there.
THEOREM SessionsUniqueCorrect == SessionsSpec => []SessionsUnique
<1>1. LiveInv /\ AttendInv => SessionsUnique
  BY RowsOfPeople, AttendTypes DEF SessionsUnique
<1> QED
  BY <1>1, LiveInvInit, LiveInvStep, AttendInvInit, AttendInvStep, PTL DEF SessionsSpec

-----------------------------------------------------------------------------
(* The records of an employee's days.  A check-in or check-out has the date that    *)
(* its payload's offset gives it, so the two of a day are less than a day and an     *)
(* offset apart; that is what bounds a summary's work.                          *)

\* A moment falls on a date in some time zone.
Dated(t, d) == t \in Times /\ \E zone \in Zones : DateOf(t, zone) = d

\* What a check-in or a check-out will write is dated.
DatedCarries(x) ==
  /\ x.at = "checkin.save" => Dated(x.time, x.date)
  /\ x.at = "checkout.save" => Dated(x.new.out, x.date)

\* Every day's moments fall on its date, in the zone that counted when they
\* were written.
DatedInv ==
  /\ IsFiniteSet(DOMAIN days) /\ \A r \in Requests : DatedCarries(req[r])
  /\ \A d \in DOMAIN days : /\ Dated(days[d].in, d)
                            /\ days[d].out # Null => Dated(days[d].out, d)

\* No day is there in the beginning.
LEMMA DatedInit == SessionsInit => DatedInv
<1> SUFFICES ASSUME SessionsInit PROVE DatedInv
  OBVIOUS
<1>1. DOMAIN days = {}
  BY DEF SessionsInit, AttendanceInit
<1>2. \A r \in Requests : req[r].at \in {"idle", "unused"}
  BY DEF SessionsInit, InitRequests, Idle, Unused
<1> QED BY <1>1, <1>2, FS_EmptySet DEF DatedInv, DatedCarries

\* The steps that write no day, or keep the times of all of them.
LEMMA DatedKept ==
  ASSUME AttendInv, DatedInv, NEW r \in Requests, NEW labels, OnlySlot(r, labels),
         DOMAIN days' = DOMAIN days,
         \A d \in DOMAIN days : days'[d].in = days[d].in /\ days'[d].out = days[d].out,
         DatedCarries(req[r])'
  PROVE  DatedInv'
BY DEF DatedInv, OnlySlot, DatedCarries, Dated

\* Checking in and out date what they write.
LEMMA DatedDay ==
  ASSUME AttendInv, DatedInv, NEW r \in Requests, DayStep(r)
  PROVE  DatedInv'
<1> DEFINE x == req[r]
<1>0. OnlySlot(r, AttendanceLabels) /\ Slots /\ AttendRows /\ AttendCarries(x) /\ DatedCarries(x)
  BY AttendanceSlot DEF AttendInv, AttendanceHandler, DatedInv
<1> USE DEF Begin, Return, Idle, Slots
<1>1. ASSUME NEW t \in Times, NEW zone \in Zones, CheckInLoad(r, t, zone) PROVE DatedInv'
  <2>1. /\ days' = days
        /\ req'[r] = [at |-> "checkin.save", time |-> t, date |-> DateOf(t, zone)]
    BY <1>0, <1>1 DEF CheckInLoad, attendance
  <2>2. DatedCarries(req[r])'
    BY <2>1 DEF DatedCarries, Dated
  <2> QED BY <1>0, <2>1, <2>2, DatedKept
<1>2. CASE CheckInSave(r)
  <2>1. /\ days' = WithRow(days, x.date, CheckedIn(x.time)) /\ req'[r].at = "idle"
        /\ Dated(x.time, x.date)
    BY <1>0, <1>2 DEF CheckInSave, DatedCarries
  <2>2. /\ DOMAIN days' = DOMAIN days \cup {x.date}
        /\ \A d \in DOMAIN days : days'[d] = days[d]
        /\ \A d \in DOMAIN days' :
             d \in DOMAIN days \/ (d = x.date /\ days'[d] = CheckedIn(x.time))
    BY <2>1 DEF WithRow
  <2>3. IsFiniteSet(DOMAIN days')
    BY <2>2, FS_AddElement DEF DatedInv
  <2>4. \A d \in DOMAIN days' : /\ Dated(days'[d].in, d)
                                /\ days'[d].out # Null => Dated(days'[d].out, d)
    BY <2>1, <2>2 DEF DatedInv, CheckedIn
  <2>5. \A p \in Requests : DatedCarries(req[p])'
    BY <1>0, <2>1 DEF OnlySlot, DatedInv, DatedCarries, Dated
  <2> QED BY <2>3, <2>4, <2>5 DEF DatedInv, Dated
<1>3. ASSUME NEW t \in Times, NEW zone \in Zones, NEW status, CheckOutLoad(r, t, zone, status)
      PROVE  DatedInv'
  <2> DEFINE d == DateOf(t, zone)
             new == [days[d] EXCEPT !.out = t, !.status = IF status = Null THEN @ ELSE status]
  <2>1. /\ days' = days /\ d \in DOMAIN days
        /\ req'[r] = [at |-> "checkout.save", date |-> d, row |-> days[d], new |-> new]
    BY <1>0, <1>3 DEF CheckOutLoad, attendance
  <2>2. days[d] \in DayRecord
    BY <1>0, <2>1 DEF AttendRows
  <2>3. new.out = t
    BY <2>2 DEF DayRecord
  <2> HIDE DEF new
  <2>4. DatedCarries(req[r])'
    BY <2>1, <2>3 DEF DatedCarries, Dated
  <2> QED BY <1>0, <2>1, <2>4, DatedKept
<1>4. CASE CheckOutSave(r)
  <2>1. /\ req'[r].at = "idle" /\ CheckingOut(x) /\ Dated(x.new.out, x.date)
        /\ days' = [days EXCEPT ![x.date] = Written(@, x.row, x.new)]
    BY <1>0, <1>4 DEF CheckOutSave, AttendCarries, DatedCarries
  <2> DEFINE w == Written(days[x.date], x.row, x.new)
  <2>2. w.in = days[x.date].in /\ w.out \in {days[x.date].out, x.new.out}
    BY <1>0, <2>1 DEF CheckingOut, AttendRows, Written, Flushed, DayRecord
  <2>3. days' = [days EXCEPT ![x.date] = w]
    BY <2>1
  <2> HIDE DEF w
  <2>4. /\ DOMAIN days' = DOMAIN days
        /\ \A d \in DOMAIN days : days'[d] = IF d = x.date THEN w ELSE days[d]
    BY <2>3
  <2>5. \A d \in DOMAIN days' : /\ Dated(days'[d].in, d)
                                /\ days'[d].out # Null => Dated(days'[d].out, d)
    BY <2>1, <2>2, <2>4 DEF DatedInv
  <2>6. \A p \in Requests : DatedCarries(req[p])'
    BY <1>0, <2>1 DEF OnlySlot, DatedInv, DatedCarries, Dated
  <2> QED BY <2>4, <2>5, <2>6 DEF DatedInv, Dated
<1> HIDE DEF Begin, Return, Idle, Slots
<1> QED BY <1>1, <1>2, <1>3, <1>4 DEF DayStep

\* Every step keeps the days dated.
LEMMA DatedStep ==
  ASSUME AttendInv, DatedInv, [SessionsNext]_sessionVars
  PROVE  DatedInv'
<1>1. ASSUME NEW r \in Requests, MarkStep(r) \/ CorrectionStep(r) PROVE DatedInv'
  <2>0. OnlySlot(r, AttendanceLabels)
    BY <1>1, AttendanceSlot DEF AttendanceHandler, AttendInv
  <2>1. DOMAIN days' = DOMAIN days
        /\ \A d \in DOMAIN days : days'[d].in = days[d].in /\ days'[d].out = days[d].out
    <3>1. CASE MarkStep(r)
      BY <3>1 DEF MarkStep, CreateSession, MarkLoad, MarkFind, MarkInsert, MarkConflict, MarkSave,
         RecordLoad, RecordSave, attendance
    <3>2. CASE CorrectionStep(r) /\ ~ApproveSave(r)
      BY <3>2 DEF CorrectionStep, CreateCorrection, ReviewLoad, ReviewTarget, RejectSave, attendance
    <3>3. CASE ApproveSave(r)
      BY <3>3, ApproveWrites
    <3> QED BY <1>1, <3>1, <3>2, <3>3
  <2>2. req'[r].at \notin {"checkin.save", "checkout.save"}
    <3> USE DEF Slots, Begin, Continue, Return, Idle
    <3>0. Slots
      BY DEF AttendInv
    <3>1. CASE MarkStep(r) /\ ~\E s \in Students : MarkFind(r, s)
      BY <3>0, <3>1 DEF MarkStep, CreateSession, MarkLoad, MarkInsert, Inserted, MarkConflict,
         MarkSave, RecordLoad, RecordSave
    <3>2. ASSUME NEW s \in Students, MarkFind(r, s)
          PROVE  req'[r].at \in {"mark.find", "mark.insert"}
      BY <3>0, <3>2 DEF MarkFind
    <3>3. ASSUME NEW c, NEW approved, ReviewLoad(r, c, approved)
          PROVE  req'[r].at \in {"review.target", "reject.save"}
      BY <3>0, <3>3 DEF ReviewLoad
    <3>4. CASE ReviewTarget(r) \/ ApproveSave(r) \/ RejectSave(r)
      BY <3>0, <3>4 DEF ReviewTarget, ApproveSave, RejectSave
    <3>5. ASSUME NEW target, NEW wanted, CreateCorrection(r, target, wanted)
          PROVE  req'[r].at = "idle"
      BY <3>0, <3>5 DEF CreateCorrection
    <3> HIDE DEF Slots, Begin, Continue, Return, Idle
    <3> QED BY <1>1, <3>1, <3>2, <3>3, <3>4, <3>5 DEF CorrectionStep
  <2>3. DatedCarries(req[r])'
    BY <2>2 DEF DatedCarries
  <2> QED BY <2>0, <2>1, <2>3, DatedKept
<1>2. ASSUME NEW r \in Requests, LiveHandler(r), UNCHANGED attendance PROVE DatedInv'
  <2>1. OnlySlot(r, LiveLabels)
    BY <1>2, LiveSlot DEF AttendInv
  <2>2. DatedCarries(req[r])'
    BY <2>1 DEF OnlySlot, LiveLabels, DatedCarries
  <2> QED BY <1>2, <2>1, <2>2, DatedKept DEF attendance
<1>3. CASE (Tick /\ UNCHANGED attendance) \/ UNCHANGED sessionVars
  BY <1>3 DEF Tick, sessionVars, attendance, DatedInv, DatedCarries, Dated
<1> QED BY <1>1, <1>2, <1>3, DatedDay, SessionsSteps DEF LiveHandler

-----------------------------------------------------------------------------
(* What a summary counts.                                                    *)

\* A count of days is at most all of them, and all of them only if each one
\* counts.
LEMMA CountIsFinite ==
  ASSUME NEW rows, IsFiniteSet(DOMAIN rows), NEW statuses
  PROVE  /\ IsFiniteSet({d \in DOMAIN rows : rows[d].status \in statuses})
         /\ CountOf(rows, statuses) \in Nat
         /\ CountOf(rows, statuses) <= Cardinality(DOMAIN rows)
         /\ CountOf(rows, statuses) = Cardinality(DOMAIN rows)
              => \A d \in DOMAIN rows : rows[d].status \in statuses
<1> DEFINE S == {d \in DOMAIN rows : rows[d].status \in statuses}
<1>1. S \subseteq DOMAIN rows
  OBVIOUS
<1>2. IsFiniteSet(S) /\ Cardinality(S) <= Cardinality(DOMAIN rows)
      /\ (Cardinality(S) = Cardinality(DOMAIN rows) => S = DOMAIN rows)
  BY <1>1, FS_Subset
<1> QED BY <1>2, FS_CardinalityType DEF CountOf

\* Rows with one of two sets of statuses are counted once.
LEMMA CountOfBoth ==
  ASSUME NEW rows, IsFiniteSet(DOMAIN rows), NEW some, NEW others, some \cap others = {}
  PROVE  CountOf(rows, some \cup others) = CountOf(rows, some) + CountOf(rows, others)
<1> DEFINE S(statuses) == {d \in DOMAIN rows : rows[d].status \in statuses}
<1>1. /\ IsFiniteSet(S(some)) /\ IsFiniteSet(S(others))
      /\ S(some \cup others) = S(some) \cup S(others) /\ S(some) \cap S(others) = {}
  BY CountIsFinite
<1>2. Cardinality(S(some)) \in Nat /\ Cardinality(S(others)) \in Nat
  BY <1>1, FS_CardinalityType
<1> HIDE DEF S
<1>3. Cardinality(S(some) \cup S(others)) =
        Cardinality(S(some)) + Cardinality(S(others)) - Cardinality(S(some) \cap S(others))
  BY <1>1, FS_Union
<1>4. Cardinality(S(some) \cap S(others)) = 0
  BY <1>1, FS_EmptySet
<1>5. Cardinality(S(some \cup others)) = Cardinality(S(some)) + Cardinality(S(others))
  BY <1>1, <1>2, <1>3, <1>4
<1> QED BY <1>5 DEF S, CountOf

\* The counts of all statuses add up to the rows.
LEMMA CountsAddUp ==
  ASSUME NEW rows, IsFiniteSet(DOMAIN rows), \A d \in DOMAIN rows : rows[d].status \in DayStatuses
  PROVE  SumFunction([status \in DayStatuses |-> CountOf(rows, {status})]) =
           Cardinality(DOMAIN rows)
<1> DEFINE f == [status \in DayStatuses |-> CountOf(rows, {status})]
<1>0. IsFiniteSet(DayStatuses) /\ DOMAIN f = DayStatuses
  BY AttendanceAssumption
<1>1. PICK g : /\ SumFunction(f) = g[DayStatuses] /\ g[{}] = 0
               /\ \A s \in SUBSET DayStatuses : s # {} => g[s] = f[Chosen(s)] + g[s \ {Chosen(s)}]
  <2> HIDE DEF f
  <2> QED BY <1>0, SumOf
<1> DEFINE T == {s \in SUBSET DayStatuses : g[s] # CountOf(rows, s)}
<1>2. T = {}
  <2> SUFFICES ASSUME T # {} PROVE FALSE
    OBVIOUS
  <2>1. PICK s \in T : \A t \in T : t \subseteq s => t = s
    <3>1. T \in SUBSET SUBSET DayStatuses
      OBVIOUS
    <3> HIDE DEF T
    <3> QED BY <1>0, <3>1, Smallest
  <2>2. s # {}
    <3>1. CountOf(rows, {}) = 0
      BY FS_EmptySet DEF CountOf
    <3> QED BY <1>1, <3>1
  <2> DEFINE u == s \ {Chosen(s)}
  <2>3. Chosen(s) \in s /\ u \in SUBSET DayStatuses /\ u \notin T
    BY <2>1, <2>2, AnySmaller
  <2>4. CountOf(rows, s) = CountOf(rows, {Chosen(s)}) + CountOf(rows, u)
    <3>1. s = {Chosen(s)} \cup u /\ {Chosen(s)} \cap u = {}
      BY <2>3
    <3> HIDE DEF u
    <3> QED BY <3>1, CountOfBoth
  <2>5. g[u] = CountOf(rows, u) /\ g[s] = CountOf(rows, {Chosen(s)}) + g[u]
    BY <1>1, <2>2, <2>3
  <2> QED BY <2>4, <2>5
<1>3. SumFunction(f) = CountOf(rows, DayStatuses)
  BY <1>1, <1>2
<1>4. {d \in DOMAIN rows : rows[d].status \in DayStatuses} = DOMAIN rows
  OBVIOUS
<1> QED BY <1>3, <1>4 DEF CountOf

\* A product grows with its factor.
LEMMA ProductGrows ==
  ASSUME NEW d \in Nat, NEW p \in Int, NEW q \in Int, p <= q
  PROVE  d * p <= d * q
OBVIOUS

\* The percentage of so many half days is all of it where nothing is missing, and
\* of fewer than 10000 days only there.
PercentageFits(halves, total) ==
  /\ Percentage(halves, total) \in Nat /\ Percentage(halves, total) <= 10000
  /\ total > 0 /\ halves = 2 * total => Percentage(halves, total) = 10000
  /\ total < 10000 /\ Percentage(halves, total) = 10000 => total > 0 /\ halves = 2 * total

\* Half days count half, rounded half up to hundredths of a percent.
LEMMA PercentageIs ==
  ASSUME NEW total \in Nat, NEW halves \in Nat, halves <= 2 * total
  PROVE  PercentageFits(halves, total)
<1>1. CASE total = 0
  BY <1>1 DEF Percentage, PercentageFits
<1>2. CASE total > 0
  <2> DEFINE n == 10000 * halves + total  d == 2 * total  q == n \div d
  <2>1. n \in Nat /\ d \in Nat \ {0} /\ q \in Int /\ Percentage(halves, total) = q
    BY <1>2 DEF Percentage
  <2>a. total \in Nat \ {0} /\ n = 10000 * halves + total /\ d = 2 * total
    BY <1>2
  <2>2. d * q <= n /\ n < d * (q + 1)
    BY <2>1
  <2>3. q >= 0
    BY <2>1, <2>2
  <2>4. n <= 20000 * total + total
    OBVIOUS
  <2> HIDE DEF q
  <2>5. q <= 10000
    <3> SUFFICES ASSUME q >= 10001 PROVE FALSE
      BY <2>1
    <3>1. d * 10001 <= d * q
      BY <2>1, ProductGrows
    <3>2. d * 10001 > n
      BY <1>2, <2>4
    <3> QED BY <2>1, <2>2, <3>1, <3>2
  <2>6. ASSUME halves = 2 * total PROVE q = 10000
    <3> SUFFICES ASSUME q <= 9999 PROVE FALSE
      BY <2>1, <2>5
    <3>1. d * (q + 1) <= d * 10000
      BY <2>1, ProductGrows
    <3>2. d * 10000 < n
      BY <1>2, <2>6
    <3> QED BY <2>1, <2>2, <3>1, <3>2
  <2>7. ASSUME q = 10000, total < 10000 PROVE halves = 2 * total
    <3>1. d * 10000 <= n
      BY <2>2, <2>7
    <3> HIDE DEF n, d
    <3>2. (2 * total) * 10000 <= 10000 * halves + total
      BY <2>a, <3>1
    <3>3. 20000 * total < 10000 * halves + 10000
      BY <2>a, <2>7, <3>2
    <3> QED BY <2>a, <3>3
  <2> HIDE DEF n, d
  <2>8. Percentage(halves, total) = q /\ q \in Nat /\ q <= 10000
    BY ONLY <2>1, <2>3, <2>5
  <2> QED BY <1>2, <2>6, <2>7, <2>8 DEF PercentageFits
<1>3. total = 0 \/ total > 0
  OBVIOUS
<1> QED BY ONLY <1>1, <1>2, <1>3

\* Times of one date are less than a day and an offset apart.
LEMMA DayIsBounded ==
  ASSUME NEW in, NEW out, NEW d, Dated(in, d), Dated(out, d), NEW zone, zone \in Nat,
         \A z \in Zones : z <= zone
  PROVE  in \in Nat /\ out \in Nat /\ out - in <= DayLength - 1 + zone
<1>1. PICK z \in Zones : DateOf(in, z) = d
  BY DEF Dated
<1>2. PICK y \in Zones : DateOf(out, y) = d
  BY DEF Dated
<1>3. in \in Nat /\ out \in Nat /\ z \in Nat /\ y \in Nat /\ DayLength \in Nat \ {0}
  BY AttendanceAssumption DEF Dated
<1>4. d \in Int /\ DayLength * d <= in + z /\ out + y < DayLength * (d + 1)
  <2>1. d = (in + z) \div DayLength /\ d = (out + y) \div DayLength
    BY <1>1, <1>2 DEF DateOf
  <2> QED BY <1>3, <2>1
<1>5. DayLength * (d + 1) = DayLength * d + DayLength /\ DayLength * d \in Int
  BY <1>3, <1>4
<1> QED BY <1>3, <1>4, <1>5

\* The larger of zero and a number.
LEMMA MaxOfTwo ==
  ASSUME NEW n \in Int
  PROVE  Max({0, n}) = IF n >= 0 THEN n ELSE 0
<1>1. \A m \in {0, n} : (\A y \in {0, n} : m >= y) <=> m = IF n >= 0 THEN n ELSE 0
  OBVIOUS
<1>2. (IF n >= 0 THEN n ELSE 0) \in {0, n}
  OBVIOUS
<1> DEFINE P(m) == \A y \in {0, n} : m >= y
<1>3. Max({0, n}) = CHOOSE m \in {0, n} : P(m)
  BY DEF Max
<1>4. (CHOOSE m \in {0, n} : P(m)) \in {0, n} /\ P(CHOOSE m \in {0, n} : P(m))
  BY <1>1, <1>2
<1> QED BY <1>1, <1>3, <1>4

\* The zone that is ahead of all others.
LEMMA MaxOfZones ==
  ASSUME Zones # {}
  PROVE  Max(Zones) \in Zones /\ \A z \in Zones : z <= Max(Zones)
<1>1. Zones \subseteq Nat /\ IsFiniteSet(Zones)
  BY AttendanceAssumption
<1>2. \E m \in Zones : \A z \in Zones : m >= z
  BY <1>1, Greatest
<1> DEFINE P(m) == \A z \in Zones : m >= z
<1>3. Max(Zones) = CHOOSE m \in Zones : P(m)
  BY DEF Max
<1>4. (CHOOSE m \in Zones : P(m)) \in Zones /\ P(CHOOSE m \in Zones : P(m))
  BY <1>2
<1> QED BY <1>1, <1>3, <1>4

\* A summary's counts and its percentage, from the invariants.
LEMMA SummaryAddsUp == AttendInv /\ DatedInv => SummariesAddUp
<1> SUFFICES ASSUME AttendInv, DatedInv, NEW from \in Dates, NEW to \in Dates
             PROVE  AddsUp(EmployeeSummary(from, to), DaysBetween(from, to))
  BY DEF SummariesAddUp
<1> DEFINE rows == DaysBetween(from, to)  there == {"present", "late"}
           total == Cardinality(DOMAIN rows)
           halves == 2 * CountOf(rows, there) + CountOf(rows, {"half_day"})
           spent == [d \in DOMAIN rows |-> WorkTime(rows[d])]
           x == EmployeeSummary(from, to)
<1>1. /\ DOMAIN rows \subseteq DOMAIN days
      /\ \A d \in DOMAIN rows : rows[d] = days[d] /\ rows[d] \in DayRecord
  BY DEF DaysBetween, Restrict, AttendInv, AttendRows
<1>2. IsFiniteSet(DOMAIN rows) /\ total \in Nat
  <2>1. IsFiniteSet(DOMAIN days)
    BY DEF DatedInv
  <2> QED BY <1>1, <2>1, FS_Subset, FS_CardinalityType
<1>3. /\ x.total = total /\ x.work = SumFunction(spent)
      /\ x.counts = [status \in DayStatuses |-> CountOf(rows, {status})]
      /\ x.percentage = Percentage(halves, total)
  BY DEF EmployeeSummary, EmployeeSummaryItem
<1> HIDE DEF rows, x
<1>4. Zones # {}
  BY DEF Dates
<1>5. x.work <= total * (DayLength - 1 + Max(Zones))
  <2> DEFINE B == DayLength - 1 + Max(Zones)
  <2>1. Max(Zones) \in Nat /\ (\A z \in Zones : z <= Max(Zones)) /\ B \in Nat
    BY <1>4, MaxOfZones, AttendanceAssumption
  <2>2. \A d \in DOMAIN rows : WorkTime(rows[d]) \in 0..B
    <3> SUFFICES ASSUME NEW d \in DOMAIN rows PROVE WorkTime(rows[d]) \in 0..B
      OBVIOUS
    <3>1. CASE rows[d].out = Null
      BY <2>1, <3>1 DEF WorkTime
    <3>2. CASE rows[d].out # Null
      <4>1. Dated(rows[d].in, d) /\ Dated(rows[d].out, d)
        BY <1>1, <3>2 DEF DatedInv
      <4>2. /\ rows[d].in \in Nat /\ rows[d].out \in Nat
            /\ rows[d].out - rows[d].in <= B
        BY <2>1, <4>1, DayIsBounded
      <4>3. WorkTime(rows[d]) = Max({0, rows[d].out - rows[d].in})
        BY <3>2 DEF WorkTime
      <4> QED BY <2>1, <4>2, <4>3, MaxOfTwo
    <3> QED BY <3>1, <3>2
  <2> HIDE DEF B
  <2>3. /\ DOMAIN spent = DOMAIN rows /\ B \in Nat
        /\ \A d \in DOMAIN spent : spent[d] \in 0..B
    BY <2>1, <2>2
  <2> HIDE DEF spent
  <2>4. SumFunction(spent) <= Cardinality(DOMAIN spent) * B
    BY <1>2, <2>3, SumBounded
  <2> QED BY <1>3, <2>3, <2>4 DEF B
<1>6. x.total = SumFunction(x.counts)
  <2>1. \A d \in DOMAIN rows : rows[d].status \in DayStatuses
    BY <1>1 DEF DayRecord
  <2> QED BY <1>2, <1>3, <2>1, CountsAddUp
<1>7. /\ CountOf(rows, there) \in Nat /\ CountOf(rows, {"half_day"}) \in Nat
      /\ CountOf(rows, there) + CountOf(rows, {"half_day"}) <= total
      /\ CountOf(rows, there) = total <=> \A d \in DOMAIN rows : rows[d].status \in there
  <2>1. there \cap {"half_day"} = {}
    OBVIOUS
  <2>2. CountOf(rows, there \cup {"half_day"}) = CountOf(rows, there) + CountOf(rows, {"half_day"})
    BY <1>2, <2>1, CountOfBoth
  <2>3. CountOf(rows, there \cup {"half_day"}) <= total
    BY <1>2, CountIsFinite
  <2>4. /\ CountOf(rows, there) \in Nat /\ CountOf(rows, {"half_day"}) \in Nat
        /\ CountOf(rows, there) = total => \A d \in DOMAIN rows : rows[d].status \in there
    BY <1>2, CountIsFinite
  <2>5. ASSUME \A d \in DOMAIN rows : rows[d].status \in there PROVE CountOf(rows, there) = total
    <3>1. {d \in DOMAIN rows : rows[d].status \in there} = DOMAIN rows
      BY <2>5
    <3> QED BY <3>1 DEF CountOf
  <2> QED BY <2>2, <2>3, <2>4, <2>5
<1>8. /\ halves \in Nat /\ halves <= 2 * total
      /\ halves = 2 * total <=> \A d \in DOMAIN rows : rows[d].status \in there
  <2> DEFINE a == CountOf(rows, there)  b == CountOf(rows, {"half_day"})
             every == \A d \in DOMAIN rows : rows[d].status \in there
  <2>1. /\ a \in Nat /\ b \in Nat /\ a + b <= total /\ (a = total <=> every)
        /\ total \in Nat /\ halves = 2 * a + b
    BY <1>2, <1>7
  <2> HIDE DEF a, b, every, halves, total
  <2>2. halves \in Nat /\ halves <= 2 * total /\ (halves = 2 * total <=> a = total)
    BY <2>1
  <2> QED BY <2>1, <2>2 DEF every
<1> HIDE DEF halves, total, there
<1>9. PercentageFits(halves, total)
  BY ONLY <1>2, <1>8, PercentageIs
<1> DEFINE p == Percentage(halves, total)
<1>b. x.percentage = p /\ x.total = total
  BY <1>3
<1> HIDE DEF p
<1>c. x.percentage \in Nat /\ x.percentage <= 10000
  BY <1>9, <1>b DEF p, PercentageFits
<1>10. ASSUME x.total < 10000
       PROVE  x.percentage = 10000 <=>
                x.total > 0 /\ \A d \in DOMAIN rows : rows[d].status \in {"present", "late"}
  <2>1. CASE x.percentage = 10000
    <3>1. total > 0 /\ halves = 2 * total
      BY <1>9, <1>10, <1>b, <2>1 DEF p, PercentageFits
    <3>2. \A d \in DOMAIN rows : rows[d].status \in {"present", "late"}
      BY <1>8, <3>1 DEF there
    <3> QED BY <1>b, <2>1, <3>1, <3>2
  <2>2. CASE x.total > 0 /\ \A d \in DOMAIN rows : rows[d].status \in {"present", "late"}
    <3>1. halves = 2 * total
      BY <1>8, <2>2 DEF there
    <3> QED BY <1>9, <1>b, <2>2, <3>1 DEF p, PercentageFits
  <2> QED BY <2>1, <2>2
<1>11. AddsUp(x, rows)
  <2>1. x.work <= x.total * (DayLength - 1 + Max(Zones))
    BY <1>3, <1>5
  <2>2. x.total < 10000 =>
          (x.percentage = 10000 <=>
             x.total > 0 /\ \A d \in DOMAIN rows : rows[d].status \in {"present", "late"})
    BY <1>10
  <2> QED BY ONLY <1>6, <1>c, <2>1, <2>2 DEF AddsUp
<1> QED BY <1>11 DEF x, rows

-----------------------------------------------------------------------------
(* Corrections, with one request at a time: what an approval has read of its     *)
(* target is what the target says.                                           *)

\* An approval that is alone finds its target as it loaded it.
TargetCurrent(x) ==
  x.at = "approve.save" =>
    x.c \in DOMAIN corrections /\ x.seen = StatusNow(corrections[x.c].target)

\* The invariant of corrections taken one at a time.
ApprovalInv == OneAtATime => \A r \in Requests : TargetCurrent(req[r])

\* No request is in flight in the beginning.
LEMMA ApprovalInit == SessionsInit => ApprovalInv
BY DEF SessionsInit, InitRequests, ApprovalInv, TargetCurrent, Idle, Unused

\* What an approval does to its target.
ApplyStep ==
  \A c \in DOMAIN corrections :
    OneAtATime /\ corrections[c].status # "approved" /\ corrections'[c].status = "approved"
      => StatusNow(corrections[c].target)' = corrections[c].wanted

\* Every step keeps the invariant, and an approval applies the correction.
LEMMA ApprovalStep ==
  ASSUME AttendInv, ApprovalInv, [SessionsNext]_sessionVars
  PROVE  ApprovalInv' /\ ApplyStep
<1>1. ASSUME NEW r \in Requests, NEW labels, OnlySlot(r, labels), "unused" \notin labels,
             OneAtATime => TargetCurrent(req[r])'
      PROVE  ApprovalInv'
  <2> SUFFICES ASSUME OneAtATime' PROVE \A p \in Requests : TargetCurrent(req[p])'
    BY DEF ApprovalInv
  <2>1. OneAtATime /\ \A p \in Requests \ {r} : req'[p] = Unused
    BY <1>1, OneSlot
  <2> QED BY <1>1, <2>1 DEF TargetCurrent, Unused
<1>2. ASSUME NEW r \in Requests, AttendanceHandler(r)
      PROVE  ApplyStep /\ (OneAtATime => TargetCurrent(req[r])')
  <2> DEFINE x == req[r]
  <2>0. /\ Slots /\ AttendRows /\ AttendCarries(x) /\ OnlySlot(r, AttendanceLabels)
        /\ OneAtATime => TargetCurrent(x)
    BY <1>2, AttendanceSlot DEF AttendInv, ApprovalInv
  <2>q. ASSUME \A c \in DOMAIN corrections : corrections'[c].status # "approved"
                                             \/ corrections'[c].status = corrections[c].status
        PROVE  ApplyStep
    BY <2>q DEF ApplyStep
  <2>t. ASSUME req'[r].at # "approve.save" PROVE TargetCurrent(req[r])'
    BY <2>t DEF TargetCurrent
  <2>1. CASE ApproveSave(r)
    <3>1. /\ req'[r].at = "idle" /\ DOMAIN corrections' = DOMAIN corrections
          /\ corrections' = [corrections EXCEPT ![x.c].status = "approved"]
          /\ \A c \in DOMAIN corrections : c = x.c =>
               StatusNow(corrections[c].target)' =
                 Flushed(StatusNow(corrections[c].target), x.seen, corrections[c].wanted)
      BY <2>1, ApproveWrites
    <3>2. \A c \in DOMAIN corrections : c # x.c => corrections'[c] = corrections[c]
      BY <3>1
    <3>3. ASSUME NEW c \in DOMAIN corrections, OneAtATime, c = x.c
          PROVE  StatusNow(corrections[c].target)' = corrections[c].wanted
      <4>1. x.seen = StatusNow(corrections[c].target)
        BY <2>0, <2>1, <3>3 DEF TargetCurrent, ApproveSave
      <4> QED BY <3>1, <3>3, <4>1 DEF Flushed
    <3>4. ApplyStep
      BY <3>2, <3>3 DEF ApplyStep
    <3> QED BY <2>t, <3>1, <3>4
  <2>2. CASE ReviewTarget(r)
    <3>1. /\ UNCHANGED attendance /\ x.c \in DOMAIN corrections
          /\ req'[r] = [at |-> "approve.save", c |-> x.c,
                        seen |-> StatusNow(corrections[x.c].target)]
      BY <2>0, <2>2 DEF ReviewTarget, AttendCarries, Continue, Slots
    <3>2. \A c : StatusNow(corrections[c].target)' = StatusNow(corrections[c].target)
      BY <3>1 DEF attendance, StatusNow
    <3>3. TargetCurrent(req[r])'
      BY <3>1, <3>2 DEF TargetCurrent, attendance
    <3> QED BY <2>q, <3>1, <3>3 DEF attendance
  <2>3. CASE RejectSave(r)
    <3>1. /\ req'[r].at = "idle" /\ x.c \in DOMAIN corrections
          /\ corrections' = [corrections EXCEPT ![x.c].status = "rejected"]
          /\ corrections[x.c] \in CorrectionRow
      BY <2>0, <2>3 DEF RejectSave, AttendCarries, AttendRows, Return, Idle, Slots
    <3>2. \A c \in DOMAIN corrections : corrections'[c].status \in {"rejected", corrections[c].status}
      BY <3>1 DEF CorrectionRow
    <3> QED BY <2>q, <2>t, <3>1, <3>2
  <2>4. ASSUME NEW target, NEW wanted, CreateCorrection(r, target, wanted)
        PROVE  ApplyStep /\ TargetCurrent(req[r])'
    <3>1. /\ req'[r].at = "idle" /\ corrections \in Seq(CorrectionRow)
          /\ corrections' = Append(corrections, [target |-> target, wanted |-> wanted,
                                                 status |-> "pending"])
      BY <2>0, <2>4 DEF CreateCorrection, Idle, AttendRows
    <3>2. \A c \in DOMAIN corrections : corrections'[c] = corrections[c]
      BY <3>1
    <3> QED BY <2>q, <2>t, <3>1, <3>2
  <2>5. ASSUME NEW c, NEW approved, ReviewLoad(r, c, approved)
        PROVE  ApplyStep /\ TargetCurrent(req[r])'
    <3>1. /\ UNCHANGED attendance /\ req'[r].at \in {"review.target", "reject.save"}
      BY <2>0, <2>5 DEF ReviewLoad, Begin, Slots
    <3> QED BY <2>q, <2>t, <3>1 DEF attendance
  <2>6. ASSUME MarkStep(r) \/ DayStep(r) PROVE ApplyStep /\ TargetCurrent(req[r])'
    <3>1. corrections' = corrections
      <4>1. CASE MarkStep(r)
        BY <4>1 DEF MarkStep, CreateSession, MarkLoad, MarkFind, MarkInsert, MarkConflict,
           MarkSave, RecordLoad, RecordSave, attendance
      <4>2. CASE DayStep(r)
        BY <4>2 DEF DayStep, CheckInLoad, CheckInSave, CheckOutLoad, CheckOutSave, attendance
      <4> QED BY <2>6, <4>1, <4>2
    <3>2. req'[r].at # "approve.save"
      <4>0. Slots
        BY <2>0
      <4> USE DEF Slots, Begin, Continue, Return, Idle
      <4>1. ASSUME NEW s \in Students, MarkFind(r, s)
            PROVE  req'[r].at \in {"mark.find", "mark.insert"}
        BY <4>0, <4>1 DEF MarkFind
      <4>2. CASE MarkStep(r) /\ ~\E s \in Students : MarkFind(r, s)
        BY <4>0, <4>2 DEF MarkStep, CreateSession, MarkLoad, MarkInsert, Inserted, MarkConflict,
           MarkSave, RecordLoad, RecordSave
      <4>3. ASSUME NEW t, NEW zone, NEW status, CheckOutLoad(r, t, zone, status)
            PROVE  req'[r].at = "checkout.save"
        <5> DEFINE d == DateOf(t, zone)
                   new == [days[d] EXCEPT !.out = t, !.status = IF status = Null THEN @ ELSE status]
        <5>1. req'[r] = [at |-> "checkout.save", date |-> d, row |-> days[d], new |-> new]
          BY <4>0, <4>3 DEF CheckOutLoad
        <5> HIDE DEF new, d
        <5> QED BY <5>1
      <4>4. ASSUME NEW t, NEW zone, CheckInLoad(r, t, zone) PROVE req'[r].at = "checkin.save"
        BY <4>0, <4>4 DEF CheckInLoad
      <4>5. CASE CheckInSave(r) \/ CheckOutSave(r)
        BY <4>0, <4>5 DEF CheckInSave, CheckOutSave
      <4> HIDE DEF Slots, Begin, Continue, Return, Idle
      <4> QED BY <2>6, <4>1, <4>2, <4>3, <4>4, <4>5 DEF DayStep
    <3> QED BY <2>q, <2>t, <3>1, <3>2
  <2> QED BY <1>2, <2>1, <2>2, <2>3, <2>4, <2>5, <2>6 DEF AttendanceHandler, CorrectionStep
<1>3. ASSUME NEW r \in Requests, LiveHandler(r), UNCHANGED attendance
      PROVE  ApprovalInv' /\ ApplyStep
  <2>1. OnlySlot(r, LiveLabels) /\ "unused" \notin LiveLabels
    BY <1>3, LiveSlot DEF AttendInv, LiveLabels
  <2>2. TargetCurrent(req[r])'
    BY <2>1 DEF OnlySlot, LiveLabels, TargetCurrent
  <2> QED BY <1>1, <1>3, <2>1, <2>2 DEF ApplyStep, attendance
<1>4. ASSUME UNCHANGED <<attendance, req>> PROVE ApprovalInv' /\ ApplyStep
  BY <1>4 DEF attendance, ApprovalInv, ApplyStep, TargetCurrent, StatusNow, OneAtATime
<1>5. ASSUME NEW r \in Requests, AttendanceHandler(r) PROVE ApprovalInv' /\ ApplyStep
  <2>1. OnlySlot(r, AttendanceLabels) /\ "unused" \notin AttendanceLabels
    BY <1>5, AttendanceSlot DEF AttendInv, AttendanceLabels
  <2> QED BY <1>1, <1>2, <1>5, <2>1
<1> QED
  BY <1>3, <1>4, <1>5, SessionsSteps DEF LiveHandler, AttendanceHandler, Tick, sessionVars

\* The records of days keep the first check-in and no earlier check-out, and their
\* summaries add up, with any number of requests; with one at a time an approved
\* correction is what the target says.
THEOREM RecordsKeptCorrect == SessionsSpec => RecordsKept
<1>1. AttendInv /\ DatedInv => OutAfterIn /\ SummariesAddUp
  BY SummaryAddsUp DEF AttendInv, AttendRows
<1>2. AttendInv /\ [SessionsNext]_sessionVars => [FirstCheckInStays]_sessionVars
  BY AttendInvStep DEF AttendGrows, FirstCheckInStays
<1>3. AttendInv /\ ApprovalInv /\ [SessionsNext]_sessionVars => [ApplyStep]_attendance
  BY ApprovalStep
<1>4. SessionsSpec => [][ApplyStep]_attendance
  <2> HIDE DEF ApplyStep
  <2> QED BY <1>3, AttendInvInit, AttendInvStep, ApprovalInit, ApprovalStep, PTL DEF SessionsSpec
<1>5. SessionsSpec => ApprovedApplied
  BY <1>4 DEF ApplyStep, ApprovedApplied
<1> QED
  BY <1>1, <1>2, <1>5, AttendInvInit, AttendInvStep, DatedInit, DatedStep, PTL
     DEF SessionsSpec, RecordsKept
=============================================================================
