----------------------------- MODULE PeopleProofs -----------------------------
(***************************************************************************)
(* Proofs about PeopleDirectory for every set of numbers, codes, users and     *)
(* rows, any length of an import and any number of requests in flight.         *)
(***************************************************************************)
EXTENDS PeopleDirectory, ProofLemmas

-----------------------------------------------------------------------------
(* The steps of a behaviour.                                                  *)

ImportLabels  == {"import.lookup", "import.insert", "import.save"}
\* The labels of the handlers of either part.
StudentLabels == {"update.save", "delete.save", "file.save"} \cup ImportLabels
StaffLabels   == {"employee.profile", "employee.save", "assignment.save", "paper.save"}

\* A step of students, of employees, or of the lists.
LEMMA DirectorySteps ==
  ASSUME DirectoryNext
  PROVE  \/ UNCHANGED <<staff, listings>> /\ \E r \in Requests : Step(r) \/ FilingStep(r)
         \/ UNCHANGED <<db, listings>> /\ \E r \in Requests : StaffStep(r) \/ PapersStep(r)
         \/ UNCHANGED <<db, staff, req>> /\ ListingsNext
BY DEF DirectoryNext

\* An import that goes on is at its next row or at its commit.
LEMMA AdvancedLabel ==
  ASSUME NEW x, "at" \in DOMAIN x, NEW created, NEW errors
  PROVE  /\ Advanced(x, created, errors).at \in {"import.lookup", "import.save"}
         /\ "at" \in DOMAIN Advanced(x, created, errors)
<1>1. CASE x.rest = << >>
  <2> DEFINE z == [x EXCEPT !.at = "import.save", !.created = created, !.errors = errors]
  <2>1. Advanced(x, created, errors) = z
    BY <1>1 DEF Advanced
  <2>2. "at" \in DOMAIN z /\ z.at = "import.save"
    OBVIOUS
  <2> QED BY <2>1, <2>2
<1>2. CASE x.rest # << >>
  <2> DEFINE z == [x EXCEPT !.at = "import.lookup", !.number = Head(x.rest), !.rest = Tail(x.rest),
                            !.created = created, !.errors = errors]
  <2>1. Advanced(x, created, errors) = z
    BY <1>2 DEF Advanced
  <2>2. "at" \in DOMAIN z /\ z.at = "import.lookup"
    OBVIOUS
  <2> QED BY <2>1, <2>2
<1> QED BY <1>1, <1>2

\* A handler of the students changes its own slot.
LEMMA StudentSlot ==
  ASSUME Slots, NEW r \in Requests, Step(r) \/ FilingStep(r)
  PROVE  OnlySlot(r, StudentLabels)
<1> USE DEF OnlySlot, Slots, StudentLabels, ImportLabels, Begin, Continue, Return, Idle
<1>1. ASSUME NEW n, NEW s, Create(r, n, s) PROVE OnlySlot(r, StudentLabels)
  BY <1>1 DEF Create
<1>2. ASSUME NEW i, NEW n, NEW s, UpdateLoad(r, i, n, s) PROVE OnlySlot(r, StudentLabels)
  <2>1. PICK x : req[r] = Idle /\ req' = [req EXCEPT ![r] = x] /\ "at" \in DOMAIN x /\ x.at = "update.save"
    <3>1. PICK m, t : Begin(r, [at |-> "update.save", id |-> i, row |-> students[i], number |-> m,
                                status |-> t])
      BY <1>2 DEF UpdateLoad
    <3> DEFINE x == [at |-> "update.save", id |-> i, row |-> students[i], number |-> m, status |-> t]
    <3>2. "at" \in DOMAIN x /\ x.at = "update.save"
      OBVIOUS
    <3>3. req[r] = Idle /\ req' = [req EXCEPT ![r] = x]
      BY <3>1
    <3> HIDE DEF x
    <3> QED BY <3>2, <3>3
  <2> QED BY <2>1
<1>3. CASE UpdateSave(r) \/ DeleteSave(r) \/ FileSave(r) \/ ImportAbort(r) \/ ImportSave(r)
  BY <1>3 DEF UpdateSave, DeleteSave, FileSave, ImportAbort, ImportSave
<1>4. ASSUME NEW i, DeleteLoad(r, i) PROVE OnlySlot(r, StudentLabels)
  BY <1>4 DEF DeleteLoad
<1>5. ASSUME NEW i, AddGuardian(r, i) \/ AddNote(r, i) \/ AddDocument(r, i) \/ EnrollStudent(r, i)
      PROVE  OnlySlot(r, StudentLabels)
  BY <1>5 DEF AddGuardian, AddNote, AddDocument, EnrollStudent, FileLoad
<1>6. ASSUME NEW numbers, ImportStart(r, numbers) PROVE OnlySlot(r, StudentLabels)
  BY <1>6 DEF ImportStart
<1>7. CASE ImportLookup(r) \/ ImportInsert(r)
  <2>1. PICK x : /\ req' = [req EXCEPT ![r] = x] /\ "at" \in DOMAIN x /\ x.at \in ImportLabels
                 /\ req[r].at \in ImportLabels
    <3>1. CASE \E created, errors : Continue(r, Advanced(req[r], created, errors))
      <4>1. PICK created, errors : Continue(r, Advanced(req[r], created, errors))
        BY <3>1
      <4>2. PICK x : x = Advanced(req[r], created, errors)
        OBVIOUS
      <4>3. "at" \in DOMAIN req[r] /\ req[r].at \in ImportLabels
        BY <1>7 DEF ImportLookup, ImportInsert
      <4> QED BY <4>1, <4>2, <4>3, AdvancedLabel
    <3>2. CASE Continue(r, [req[r] EXCEPT !.at = "import.insert"])
      <4> DEFINE x == [req[r] EXCEPT !.at = "import.insert"]
      <4>1. "at" \in DOMAIN x /\ x.at = "import.insert"
        OBVIOUS
      <4> QED BY <1>7, <3>2, <4>1 DEF ImportLookup, ImportInsert
    <3> QED BY <1>7, <3>1, <3>2 DEF ImportLookup, ImportInsert
  <2> QED BY <2>1
<1> HIDE DEF OnlySlot, Slots, StudentLabels, ImportLabels, Begin, Continue, Return, Idle
<1> QED BY <1>1, <1>2, <1>3, <1>4, <1>5, <1>6, <1>7 DEF Step, FilingStep, ImportStep

\* A handler of the employees changes its own slot.
LEMMA StaffSlot ==
  ASSUME Slots, NEW r \in Requests, StaffStep(r) \/ PapersStep(r)
  PROVE  OnlySlot(r, StaffLabels)
<1> USE DEF OnlySlot, Slots, StaffLabels, Begin, Continue, Return, Idle
<1>1. ASSUME NEW row, NEW withProfile, CreateEmployee(r, row, withProfile)
      PROVE  OnlySlot(r, StaffLabels)
  BY <1>1 DEF CreateEmployee
<1>2. ASSUME NEW i, NEW new, NEW withProfile, EmployeeLoad(r, i, new, withProfile)
      PROVE  OnlySlot(r, StaffLabels)
  <2>1. PICK x : /\ req[r] = Idle /\ req' = [req EXCEPT ![r] = x] /\ "at" \in DOMAIN x
                 /\ x.at \in StaffLabels
    <3> DEFINE x == [at |-> IF withProfile THEN "employee.profile" ELSE "employee.save",
                     id |-> i, row |-> employees[i], new |-> new, profile |-> Null]
    <3>1. req[r] = Idle /\ req' = [req EXCEPT ![r] = x]
      BY <1>2 DEF EmployeeLoad
    <3>2. "at" \in DOMAIN x /\ x.at \in StaffLabels
      OBVIOUS
    <3> QED BY <3>1, <3>2
  <2> QED BY <2>1
<1>3. CASE ProfileFind(r)
  <2> DEFINE x == [req[r] EXCEPT !.at = "employee.save", !.profile = profiles[req[r].id]]
  <2>1. req' = [req EXCEPT ![r] = x] /\ req[r].at = "employee.profile"
    BY <1>3 DEF ProfileFind
  <2>2. "at" \in DOMAIN x /\ x.at = "employee.save"
    OBVIOUS
  <2> QED BY <2>1, <2>2
<1>4. CASE EmployeeSave(r) \/ AssignTeacherSave(r) \/ PaperSave(r)
  BY <1>4 DEF EmployeeSave, AssignTeacherSave, PaperSave
<1>5. ASSUME NEW i, NEW active, AssignTeacher(r, i, active) PROVE OnlySlot(r, StaffLabels)
  BY <1>5 DEF AssignTeacher
<1>6. ASSUME NEW i, AddEmployeeNote(r, i) \/ AddEmployeeDocument(r, i)
      PROVE  OnlySlot(r, StaffLabels)
  BY <1>6 DEF AddEmployeeNote, AddEmployeeDocument, PaperLoad
<1> HIDE DEF OnlySlot, Slots, StaffLabels, Begin, Continue, Return, Idle
<1> QED BY <1>1, <1>2, <1>3, <1>4, <1>5, <1>6 DEF StaffStep, PapersStep

-----------------------------------------------------------------------------
(* Imports.                                                                   *)

\* What an import carries from row to row.
Import ==
  [at : ImportLabels, asked : Seq(Numbers), number : Numbers, rest : Seq(Numbers),
   created : Seq(Numbers), errors : SUBSET Numbers]

\* Where an import is in its list, and the numbers it has done with.
Place(x) == Len(x.asked) - Len(x.rest)
Done(x)  == {x.asked[j] : j \in 1 .. (Place(x) - 1)}

\* Every number that is done with was created or reported, those created are done with and
\* all different, and the one that is going to be inserted was not met before.
ImportSound(x) ==
  /\ x \in Import /\ Len(x.rest) < Len(x.asked) /\ IsInjective(x.created)
  /\ x.at # "import.save" =>
       /\ x.number = x.asked[Place(x)]
       /\ \A j \in 1 .. Len(x.rest) : x.rest[j] = x.asked[Place(x) + j]
       /\ Range(x.created) \subseteq Done(x) /\ Done(x) \subseteq x.errors \cup Range(x.created)
  /\ x.at = "import.insert" => x.number \notin Done(x)
  /\ x.at = "import.save" => Range(x.asked) \subseteq x.errors \cup Range(x.created)

\* The beginning of a sequence, its first element and the rest.
LEMMA Beginning ==
  ASSUME NEW S, NEW s \in Seq(S), NEW k \in Nat, k <= Len(s)
  PROVE  /\ SubSeq(s, 1, k) \in Seq(S) /\ DOMAIN SubSeq(s, 1, k) = 1..k /\ Len(SubSeq(s, 1, k)) = k
         /\ \A j \in 1..k : SubSeq(s, 1, k)[j] = s[j]
OBVIOUS

\* The first element of a sequence and the rest of it.
LEMMA HeadAndTail ==
  ASSUME NEW S, NEW s \in Seq(S), s # << >>
  PROVE  \E rest \in Seq(S) :
           /\ rest = Tail(s) /\ Head(s) = s[1] /\ Head(s) \in S
           /\ Len(rest) = Len(s) - 1 /\ Len(s) >= 1
           /\ \A j \in 1..Len(rest) : rest[j] = s[j + 1]
<1>1. Tail(s) \in Seq(S) /\ Head(s) = s[1] /\ Head(s) \in S /\ Len(Tail(s)) = Len(s) - 1 /\ Len(s) >= 1
  OBVIOUS
<1>2. \A j \in 1..Len(Tail(s)) : Tail(s)[j] = s[j + 1]
  OBVIOUS
<1> QED BY <1>1, <1>2

\* The numbers that the duplicate check compares with are those done with.
LEMMA SeenIsDone ==
  ASSUME NEW x \in Import, Len(x.rest) < Len(x.asked)
  PROVE  Seen(x) = Done(x)
<1> DEFINE k == Len(x.asked) - Len(x.rest) - 1
           s == SubSeq(x.asked, 1, k)
<1>1. x.asked \in Seq(Numbers) /\ Len(x.asked) \in Nat /\ Len(x.rest) \in Nat /\ k \in Nat
      /\ k <= Len(x.asked)
  BY DEF Import
<1>2. DOMAIN s = 1..k /\ \A j \in 1..k : s[j] = x.asked[j]
  <2> HIDE DEF k
  <2> QED BY <1>1, Beginning
<1>3. k = Place(x) - 1
  BY DEF Place
<1>4. Seen(x) = Range(s)
  BY DEF Seen
<1> HIDE DEF s
<1> QED BY <1>2, <1>3, <1>4 DEF Range, Done

\* An import that has done with its number, by creating or by reporting it.
LEMMA AdvancedSound ==
  ASSUME NEW x, ImportSound(x), x.at # "import.save",
         NEW created \in Seq(Numbers), NEW errors \in SUBSET Numbers, IsInjective(created),
         Range(x.created) \subseteq Range(created), Range(created) \subseteq Done(x) \cup {x.number},
         x.errors \subseteq errors, x.number \in errors \cup Range(created)
  PROVE  /\ ImportSound(Advanced(x, created, errors))
         /\ Advanced(x, created, errors).at \in {"import.lookup", "import.save"}
         /\ Advanced(x, created, errors).created = created
<1> DEFINE a == Advanced(x, created, errors)
<1>1. PICK t \in Import : t = x
  BY DEF ImportSound
<1>2. /\ x.asked \in Seq(Numbers) /\ x.rest \in Seq(Numbers) /\ Len(x.asked) \in Nat
      /\ Len(x.rest) \in Nat /\ Len(x.rest) < Len(x.asked) /\ Place(x) \in 1..Len(x.asked)
  BY <1>1 DEF ImportSound, Import, Place
<1>3. x.number = x.asked[Place(x)] /\ \A j \in 1..Len(x.rest) : x.rest[j] = x.asked[Place(x) + j]
  BY DEF ImportSound
<1>4. Done(x) \cup {x.number} = {x.asked[j] : j \in 1..Place(x)}
  BY <1>2, <1>3 DEF Done
<1>5. Done(x) \cup {x.number} \subseteq errors \cup Range(created)
  BY DEF ImportSound
<1>6. CASE x.rest = << >>
  <2> DEFINE z == [t EXCEPT !.at = "import.save", !.created = created, !.errors = errors]
  <2>1. a = z
    BY <1>1, <1>6 DEF Advanced
  <2>2. /\ z \in Import /\ z.at = "import.save" /\ z.created = created /\ z.errors = errors
        /\ z.asked = x.asked /\ z.rest = x.rest
    BY <1>1 DEF Import, ImportLabels
  <2>3. Place(x) = Len(x.asked)
    BY <1>2, <1>6 DEF Place
  <2>4. Range(x.asked) \subseteq errors \cup Range(created)
    BY <1>2, <1>4, <1>5, <2>3 DEF Range
  <2> HIDE DEF z
  <2>5. ImportSound(a)
    BY <1>2, <2>1, <2>2, <2>4 DEF ImportSound
  <2> QED BY <2>1, <2>2, <2>5
<1>7. CASE x.rest # << >>
  <2> DEFINE z == [t EXCEPT !.at = "import.lookup", !.number = Head(x.rest), !.rest = Tail(x.rest),
                            !.created = created, !.errors = errors]
  <2>1. a = z
    BY <1>1, <1>7 DEF Advanced
  <2>2. PICK rest \in Seq(Numbers) :
          /\ rest = Tail(x.rest) /\ Head(x.rest) = x.rest[1] /\ Head(x.rest) \in Numbers
          /\ Len(rest) = Len(x.rest) - 1 /\ Len(x.rest) >= 1
          /\ \A j \in 1..Len(rest) : rest[j] = x.rest[j + 1]
    BY <1>2, <1>7, HeadAndTail
  <2>3. /\ z \in Import /\ z.at = "import.lookup" /\ z.created = created /\ z.errors = errors
        /\ z.asked = x.asked /\ z.rest = rest /\ z.number = Head(x.rest)
    BY <1>1, <2>2 DEF Import, ImportLabels
  <2> HIDE DEF z
  <2>a. Len(z.asked) = Len(x.asked) /\ Len(z.rest) = Len(x.rest) - 1
    BY <2>2, <2>3
  <2>4. Place(z) = Place(x) + 1
    BY <1>2, <2>a DEF Place
  <2>5. Done(z) = Done(x) \cup {x.number}
    <3>1. Place(z) - 1 = Place(x)
      BY <1>2, <2>4
    <3> QED BY <1>4, <2>3, <3>1 DEF Done
  <2>6. /\ z.number = z.asked[Place(z)]
        /\ \A j \in 1..Len(z.rest) : z.rest[j] = z.asked[Place(z) + j]
    <3>1. x.rest[1] = x.asked[Place(x) + 1]
      BY <1>2, <1>3, <2>2
    <3>2. ASSUME NEW j \in 1..Len(rest) PROVE rest[j] = x.asked[(Place(x) + 1) + j]
      <4>1. j + 1 \in 1..Len(x.rest) /\ Place(x) + (j + 1) = (Place(x) + 1) + j
        BY <1>2, <2>2
      <4>2. rest[j] = x.rest[j + 1] /\ x.rest[j + 1] = x.asked[Place(x) + (j + 1)]
        BY <1>3, <2>2, <4>1
      <4> QED BY <4>1, <4>2
    <3> QED BY <2>2, <2>3, <2>4, <3>1, <3>2
  <2>7. Len(z.rest) < Len(z.asked)
    BY <1>2, <2>2, <2>3
  <2>8. ImportSound(z)
    BY <1>5, <2>3, <2>5, <2>6, <2>7 DEF ImportSound
  <2> QED BY <2>1, <2>3, <2>8
<1> QED BY <1>6, <1>7

-----------------------------------------------------------------------------
(* Rows, with any number of requests.                                          *)

\* The papers of a student.
Filed == Guardian \cup StudentNote \cup StudentDocument \cup StudentEnrollment

\* Rows have their columns' types, and a student's last change of status is to the student's.
StudentRows ==
  /\ students \in Seq(Student) /\ history \in Seq(Seq(StatusChange)) /\ Len(history) = Len(students)
  /\ \A i \in Ids : history[i] # << >> /\ Last(history[i]).to = students[i].status
  /\ filed \in Seq(Filed) /\ \A k \in DOMAIN filed : filed[k].student \in Ids

\* The tables of employees: each has a profile and a history, and the history's
\* last entry is the status.
StaffRows ==
  /\ employees \in Seq(Employee) /\ profiles \in Seq(EmployeeProfile)
  /\ careers \in Seq(Seq(EmployeeStatusHistory))
  /\ Len(careers) = Len(employees) /\ Len(profiles) = Len(employees)
  /\ \A i \in Staff : careers[i] # << >> /\ Last(careers[i]).to = employees[i].status
  /\ papers \in Seq(EmployeeNote \cup EmployeeDocument) /\ assignments \in Seq(TeacherAssignment)

\* What an update of an employee carries.
EmployeeUpdate ==
  [at : {"employee.profile", "employee.save"}, id : Nat, row : Employee, new : Employee,
   profile : EmployeeProfile \cup {Null}]

\* What requests carry is of its columns' types and about rows that are there.
PeopleCarries(x) ==
  /\ x.at = "update.save" =>
       x.id \in Ids /\ x.row \in Student /\ x.number \in Numbers /\ x.status \in Statuses
  /\ x.at = "delete.save" => x.id \in Ids
  /\ x.at = "file.save" => x.row \in Filed /\ x.row.student \in Ids
  /\ x.at \in ImportLabels => ImportSound(x)
  /\ x.at \in {"employee.profile", "employee.save"} => x \in EmployeeUpdate /\ x.id \in Staff
  /\ x.at = "assignment.save" => x.row \in TeacherAssignment
  /\ x.at = "paper.save" => x.row \in EmployeeNote \cup EmployeeDocument

\* The inductive invariant of the directory, with any number of requests.
PeopleInv ==
  /\ Slots /\ StudentRows /\ StaffRows /\ NumbersUnique /\ EmployeesUnique
  /\ \A r \in Requests : PeopleCarries(req[r])

\* No student and no employee is there in the beginning.
LEMMA PeopleInvInit == DirectoryInit => PeopleInv
<1> SUFFICES ASSUME DirectoryInit PROVE PeopleInv
  OBVIOUS
<1>1. Slots /\ \A r \in Requests : req[r].at \in {"idle", "unused"}
  BY DEF DirectoryInit, Init, InitRequests, Idle, Unused, Slots
<1>2. /\ students = << >> /\ history = << >> /\ filed = << >> /\ employees = << >>
      /\ careers = << >> /\ profiles = << >> /\ papers = << >> /\ assignments = << >>
  BY DEF DirectoryInit, Init, StaffInit
<1>3. /\ students \in Seq(Student) /\ history \in Seq(Seq(StatusChange)) /\ filed \in Seq(Filed)
      /\ employees \in Seq(Employee) /\ careers \in Seq(Seq(EmployeeStatusHistory))
      /\ profiles \in Seq(EmployeeProfile) /\ papers \in Seq(EmployeeNote \cup EmployeeDocument)
      /\ assignments \in Seq(TeacherAssignment)
  BY <1>2
<1>4. /\ Len(history) = Len(students) /\ Len(careers) = Len(employees)
      /\ Len(profiles) = Len(employees) /\ Ids = {} /\ Staff = {} /\ DOMAIN filed = {}
  BY <1>2 DEF Ids, Staff
<1>5. StudentRows /\ StaffRows /\ EmployeesUnique
  BY <1>3, <1>4 DEF StudentRows, StaffRows, EmployeesUnique
<1>6. NumbersUnique
  BY <1>1, <1>4 DEF NumbersUnique, Importing
<1> QED BY <1>1, <1>5, <1>6 DEF PeopleInv, PeopleCarries, ImportLabels

\* Rows stay, and the others' slots with them.
LEMMA PeopleKeptByStep ==
  ASSUME PeopleInv, NEW r \in Requests, NEW labels, OnlySlot(r, labels),
         Ids \subseteq Ids', Staff \subseteq Staff',
         PeopleCarries(req[r])', StudentRows', StaffRows', NumbersUnique', EmployeesUnique'
  PROVE  PeopleInv'
<1>1. \A p \in Requests \ {r} : PeopleCarries(req[p])'
  <2> SUFFICES ASSUME NEW p \in Requests \ {r} PROVE PeopleCarries(req[p])'
    OBVIOUS
  <2>1. req'[p] = req[p] /\ PeopleCarries(req[p])
    BY DEF OnlySlot, PeopleInv
  <2>2. ImportSound(req[p]) /\ req'[p] = req[p] => ImportSound(req[p])'
    OBVIOUS
  <2> QED BY <2>1, <2>2 DEF PeopleCarries
<1> QED BY <1>1 DEF PeopleInv, OnlySlot

\* The numbers that a request holds until its commit.
CreatedBy(p) == IF Importing(p) THEN Range(req[p].created) ELSE {}

\* Numbers that a step inserts, changes to or holds, when nobody else holds them.
LEMMA UniqueStep ==
  ASSUME NumbersUnique, NEW r \in Requests, NEW labels, OnlySlot(r, labels),
         NEW N, \A p \in Requests \ {r} : CreatedBy(p) \cap N = {},
         \A i, j \in Ids' : students'[i].number = students'[j].number => i = j,
         NumbersInUse' \subseteq NumbersInUse \cup N, CreatedBy(r)' \subseteq CreatedBy(r) \cup N,
         CreatedBy(r)' \cap NumbersInUse' = {}
  PROVE  NumbersUnique'
<1>1. \A p \in Requests \ {r} : CreatedBy(p)' = CreatedBy(p)
  BY DEF OnlySlot, CreatedBy, Importing
<1>2. /\ \A p, q \in Requests : p # q => CreatedBy(p) \cap CreatedBy(q) = {}
      /\ \A p \in Requests : CreatedBy(p) \cap NumbersInUse = {}
  BY DEF NumbersUnique, CreatedBy
<1>3. \A p, q \in Requests : p # q => CreatedBy(p)' \cap CreatedBy(q)' = {}
  BY <1>1, <1>2
<1>4. \A p \in Requests : CreatedBy(p)' \cap NumbersInUse' = {}
  BY <1>1, <1>2
<1> QED BY <1>3, <1>4 DEF NumbersUnique, CreatedBy

\* Steps after which the numbers are what they were, and r holds none that it did not.
LEMMA UniqueKept ==
  ASSUME PeopleInv, NEW r \in Requests, NEW labels, OnlySlot(r, labels),
         Ids' = Ids, \A i \in Ids : students'[i].number = students[i].number,
         CreatedBy(r)' \subseteq CreatedBy(r)
  PROVE  NumbersUnique'
<1>1. NumbersUnique /\ NumbersInUse' = NumbersInUse
  BY DEF PeopleInv, NumbersInUse
<1>2. CreatedBy(r) \cap NumbersInUse = {}
  BY <1>1 DEF NumbersUnique, CreatedBy
<1>3. \A i, j \in Ids' : students'[i].number = students'[j].number => i = j
  BY <1>1 DEF NumbersUnique
<1>4. \E N : /\ \A p \in Requests \ {r} : CreatedBy(p) \cap N = {} 
             /\ NumbersInUse' \subseteq NumbersInUse \cup N
             /\ CreatedBy(r)' \subseteq CreatedBy(r) \cup N /\ N = {}
  BY <1>1
<1> QED BY <1>1, <1>2, <1>3, <1>4, UniqueStep

\* A step of the students.
LEMMA StudentsWritten ==
  ASSUME PeopleInv, NEW r \in Requests, OnlySlot(r, StudentLabels), UNCHANGED staff,
         PeopleCarries(req[r])', StudentRows', NumbersUnique', Ids \subseteq Ids'
  PROVE  PeopleInv'
<1>1. StaffRows' /\ EmployeesUnique' /\ Staff \subseteq Staff'
  BY DEF PeopleInv, staff, Staff, StaffRows, EmployeesUnique
<1> QED BY <1>1, PeopleKeptByStep

\* A step that reads.
LEMMA StudentsRead ==
  ASSUME PeopleInv, NEW r \in Requests, OnlySlot(r, StudentLabels), UNCHANGED <<db, staff>>,
         PeopleCarries(req[r])', CreatedBy(r)' \subseteq CreatedBy(r)
  PROVE  PeopleInv'
<1>1. StudentRows' /\ Ids' = Ids /\ \A i \in Ids : students'[i].number = students[i].number
  BY DEF PeopleInv, db, Ids, StudentRows
<1> QED BY <1>1, UniqueKept, StudentsWritten

\* A request that is done.
LEMMA IdleCarries ==
  ASSUME NEW r \in Requests, req'[r] = Idle
  PROVE  PeopleCarries(req[r])' /\ CreatedBy(r)' = {}
BY DEF Idle, PeopleCarries, ImportLabels, CreatedBy, Importing

-----------------------------------------------------------------------------
(* Histories.                                                                 *)

\* A history without gaps or repetitions.
Chain(h) == \A k \in 2 .. Len(h) : h[k].from = h[k - 1].to /\ h[k].from # h[k].to

\* Concatenating one element appends it.
LEMMA OneMore ==
  ASSUME NEW S, NEW s \in Seq(S), NEW e \in S
  PROVE  s \o <<e>> = Append(s, e)
OBVIOUS

\* What a save records of the status it found and the one it asks for.
Change(was, now) == IF now = was THEN << >> ELSE <<[from |-> was, to |-> now]>>

\* A history after a save that found the status was and asks for now.
LEMMA HistoryGrows ==
  ASSUME NEW h \in Seq(StatusChange), h # << >>, NEW was \in Statuses, NEW now \in Statuses
  PROVE  /\ h \o Change(was, now) \in Seq(StatusChange) /\ h \o Change(was, now) # << >>
         /\ Last(h \o Change(was, now)).to = IF now = was THEN Last(h).to ELSE now
         /\ Chain(h) /\ Last(h).to = was => Chain(h \o Change(was, now))
<1> DEFINE more == Change(was, now)
<1>0. Len(h) \in Nat /\ Len(h) >= 1 /\ DOMAIN h = 1..Len(h)
  OBVIOUS
<1>1. CASE now = was
  <2>1. h \o more = h
    BY <1>1 DEF Change
  <2> QED BY <1>1, <2>1
<1>2. CASE now # was
  <2> DEFINE e == [from |-> was, to |-> now]
  <2>1. e \in StatusChange /\ e.from = was /\ e.to = now
    BY DEF StatusChange
  <2> HIDE DEF e
  <2>2. more = <<e>>
    BY <1>2 DEF e, Change
  <2>3. h \o more = Append(h, e)
    BY <2>1, <2>2, OneMore
  <2>4. /\ Append(h, e) \in Seq(StatusChange) /\ Len(Append(h, e)) = Len(h) + 1
        /\ Append(h, e)[Len(h) + 1] = e /\ \A i \in DOMAIN h : Append(h, e)[i] = h[i]
    BY <2>1, RowAppended
  <2>5. Append(h, e) # << >> /\ Last(Append(h, e)).to = now
    BY <1>0, <2>1, <2>4 DEF Last
  <2>6. ASSUME Chain(h), Last(h).to = was, NEW k \in 2..(Len(h) + 1)
        PROVE  Append(h, e)[k].from = Append(h, e)[k - 1].to /\ Append(h, e)[k].from # Append(h, e)[k].to
    <3>1. CASE k = Len(h) + 1
      <4>1. k - 1 = Len(h) /\ Len(h) \in DOMAIN h
        BY <1>0, <3>1
      <4> QED BY <1>2, <2>1, <2>4, <2>6, <3>1, <4>1 DEF Last
    <3>2. CASE k # Len(h) + 1
      <4>1. k \in 2..Len(h) /\ k \in DOMAIN h /\ k - 1 \in DOMAIN h
        BY <1>0, <3>2
      <4> QED BY <2>4, <2>6, <4>1 DEF Chain
    <3> QED BY <3>1, <3>2
  <2>7. Chain(h) /\ Last(h).to = was => Chain(Append(h, e))
    BY <2>4, <2>6 DEF Chain
  <2> QED BY <1>2, <2>3, <2>4, <2>5, <2>7
<1> QED BY <1>1, <1>2

\* A new row's history.
LEMMA FirstChange ==
  ASSUME NEW s \in Statuses
  PROVE  /\ <<[from |-> Null, to |-> s]>> \in Seq(StatusChange)
         /\ <<[from |-> Null, to |-> s]>> # << >>
         /\ Last(<<[from |-> Null, to |-> s]>>).to = s /\ Chain(<<[from |-> Null, to |-> s]>>)
<1> DEFINE e == [from |-> Null, to |-> s]
<1>1. e \in StatusChange /\ e.to = s
  BY DEF StatusChange
<1> HIDE DEF e
<1>2. <<e>> \in Seq(StatusChange) /\ <<e>> # << >> /\ Len(<<e>>) = 1 /\ <<e>>[1] = e
  BY <1>1
<1>3. Last(<<e>>).to = s /\ Chain(<<e>>)
  BY <1>1, <1>2 DEF Last, Chain
<1> QED BY <1>2, <1>3 DEF e

\* Rows and their histories side by side.
LEMMA NewStudent ==
  ASSUME NEW n \in Numbers, NEW s \in Statuses
  PROVE  /\ NewRow(n, s) \in Student /\ NewRow(n, s).number = n /\ NewRow(n, s).status = s
         /\ NewHistory(s) \in Seq(StatusChange) /\ NewHistory(s) # << >>
         /\ Last(NewHistory(s)).to = s /\ Chain(NewHistory(s))
BY FirstChange DEF NewRow, NewHistory, Student

\* What the requests' steps rest on.
LEMMA StudentNumbers ==
  ASSUME StudentRows
  PROVE  /\ Ids = 1..Len(students) /\ Len(students) \in Nat /\ DOMAIN history = Ids
         /\ \A i \in Ids : students[i] \in Student /\ history[i] \in Seq(StatusChange)
BY DEF StudentRows, Ids

-----------------------------------------------------------------------------
(* Students.                                                                 *)

\* create_student: the number is nobody's, not even held.
LEMMA CreateKeeps ==
  ASSUME PeopleInv, NEW r \in Requests, NEW n \in Numbers, NEW s \in Statuses, Create(r, n, s),
         UNCHANGED staff
  PROVE  PeopleInv'
<1>0. OnlySlot(r, StudentLabels) /\ StudentRows /\ NumbersUnique /\ req'[r] = Idle
  BY StudentSlot DEF PeopleInv, Step, Create
<1>1. /\ students' = Append(students, NewRow(n, s)) /\ history' = Append(history, NewHistory(s))
      /\ UNCHANGED filed /\ ~Held(r, n) /\ ~Taken(n, Ids)
  BY DEF Create
<1>2. /\ students' \in Seq(Student) /\ Len(students') = Len(students) + 1
      /\ Ids' = Ids \cup {Len(students) + 1} /\ Len(students) + 1 \notin Ids
      /\ students'[Len(students) + 1] = NewRow(n, s) /\ \A i \in Ids : students'[i] = students[i]
  BY <1>0, <1>1, NewStudent, RowAppended DEF StudentRows, Ids
<1>3. /\ history' \in Seq(Seq(StatusChange)) /\ Len(history') = Len(history) + 1
      /\ history'[Len(history) + 1] = NewHistory(s) /\ \A i \in DOMAIN history : history'[i] = history[i]
  BY <1>0, <1>1, NewStudent, RowAppended DEF StudentRows
<1>4. StudentRows'
  BY <1>0, <1>1, <1>2, <1>3, NewStudent, StudentNumbers DEF StudentRows
<1>5. CreatedBy(r)' = {} /\ PeopleCarries(req[r])'
  BY <1>0, IdleCarries
<1>6. \A p \in Requests \ {r} : CreatedBy(p) \cap {n} = {}
  BY <1>1 DEF Held, CreatedBy
<1>7. \A i, j \in Ids' : students'[i].number = students'[j].number => i = j
  <2>1. \A i, j \in Ids : students[i].number = students[j].number => i = j
    BY <1>0 DEF NumbersUnique
  <2>2. \A i \in Ids : students[i].number # n
    BY <1>1 DEF Taken
  <2>3. NewRow(n, s).number = n
    BY NewStudent
  <2> QED BY <1>2, <2>1, <2>2, <2>3
<1>8. NumbersInUse' \subseteq NumbersInUse \cup {n}
  BY <1>2, NewStudent DEF NumbersInUse
<1>9. NumbersUnique'
  BY <1>0, <1>5, <1>6, <1>7, <1>8, UniqueStep
<1> QED BY <1>0, <1>2, <1>4, <1>5, <1>9, StudentsWritten

\* The rows as an update leaves them.
LEMMA UpdatedRows ==
  ASSUME StudentRows, NEW id \in Ids, NEW new \in Student, students' = [students EXCEPT ![id] = new]
  PROVE  /\ students' \in Seq(Student) /\ Len(students') = Len(students) /\ Ids' = Ids
         /\ students'[id] = new /\ \A i \in Ids \ {id} : students'[i] = students[i]
<1>1. students \in Seq(Student) /\ id \in DOMAIN students
  BY DEF StudentRows, Ids
<1>2. /\ students' \in Seq(Student) /\ Len(students') = Len(students)
      /\ DOMAIN students' = DOMAIN students
      /\ students'[id] = new /\ \A i \in DOMAIN students \ {id} : students'[i] = students[i]
  BY <1>1
<1> QED BY <1>2 DEF Ids

\* update_student: a number that changes is nobody else's, and a status that changes is recorded.
LEMMA UpdateSaveKeeps ==
  ASSUME PeopleInv, NEW r \in Requests, UpdateSave(r), UNCHANGED staff
  PROVE  PeopleInv'
<1> DEFINE x == req[r]
           number == Flushed(students[x.id].number, x.row.number, x.number)
           status == Flushed(students[x.id].status, x.row.status, x.status)
<1>0. OnlySlot(r, StudentLabels) /\ StudentRows /\ NumbersUnique /\ req'[r] = Idle
  BY StudentSlot DEF PeopleInv, Step, UpdateSave, Return, Slots
<1>1. /\ x.id \in Ids /\ x.row \in Student /\ x.number \in Numbers /\ x.status \in Statuses
      /\ students[x.id] \in Student /\ history[x.id] \in Seq(StatusChange)
  BY <1>0, StudentNumbers DEF PeopleInv, PeopleCarries, UpdateSave
<1>2. CreatedBy(r)' = {} /\ PeopleCarries(req[r])'
  BY <1>0, IdleCarries
<1>3. CASE UNCHANGED db
  BY <1>0, <1>2, <1>3, StudentsRead
<1>4. CASE ~UNCHANGED db
  <2>1. /\ students' = [students EXCEPT ![x.id].number = number, ![x.id].status = status]
        /\ history' = [history EXCEPT ![x.id] = history[x.id] \o Changed(x)]
        /\ UNCHANGED filed
        /\ x.number # x.row.number => ~Held(r, x.number) /\ ~Taken(x.number, Ids \ {x.id})
    BY <1>4 DEF UpdateSave
  <2>2. number \in Numbers /\ status \in Statuses
    BY <1>1 DEF Flushed, Student
  <2> HIDE DEF number, status
  <2>3. /\ students' \in Seq(Student) /\ Len(students') = Len(students) /\ Ids' = Ids
        /\ students'[x.id].number = number /\ students'[x.id].status = status
        /\ \A i \in Ids \ {x.id} : students'[i] = students[i]
    <3>1. PICK row \in Student : row = students[x.id]
      BY <1>1
    <3> DEFINE new == [row EXCEPT !.number = number, !.status = status]
    <3>2. new \in Student /\ new.number = number /\ new.status = status
      BY <2>2 DEF Student
    <3>3. students' = [students EXCEPT ![x.id] = new]
      BY <2>1, <3>1
    <3> HIDE DEF new
    <3> QED BY <1>0, <1>1, <3>2, <3>3, UpdatedRows
  <2> DEFINE h == history[x.id] \o Changed(x)
  <2>4. /\ h \in Seq(StatusChange) /\ h # << >>
        /\ Last(h).to = IF x.status = x.row.status THEN Last(history[x.id]).to ELSE x.status
    <3>1. x.row.status \in Statuses /\ history[x.id] # << >>
      BY <1>0, <1>1 DEF Student, StudentRows
    <3>2. Changed(x) = Change(x.row.status, x.status)
      BY DEF Changed, Change
    <3> QED BY <1>1, <3>1, <3>2, HistoryGrows
  <2>5. Last(h).to = status
    <3>1. Last(history[x.id]).to = students[x.id].status
      BY <1>0, <1>1 DEF StudentRows
    <3>2. status = IF x.status = x.row.status THEN students[x.id].status ELSE x.status
      BY DEF status, Flushed
    <3> HIDE DEF h
    <3> QED BY <2>4, <3>1, <3>2
  <2>6. /\ history' \in Seq(Seq(StatusChange)) /\ Len(history') = Len(history)
        /\ history'[x.id] = h /\ \A i \in Ids \ {x.id} : history'[i] = history[i]
    <3> HIDE DEF h
    <3>1. history \in Seq(Seq(StatusChange)) /\ x.id \in DOMAIN history /\ DOMAIN history = Ids
          /\ history' = [history EXCEPT ![x.id] = h]
      BY <1>0, <1>1, <2>1, StudentNumbers DEF StudentRows, h
    <3> QED BY <2>4, <3>1
  <2> HIDE DEF h
  <2>7. StudentRows'
    BY <1>0, <1>1, <2>1, <2>3, <2>4, <2>5, <2>6 DEF StudentRows
  <2>8. CASE x.number = x.row.number
    <3>1. \A i \in Ids : students'[i].number = students[i].number
      BY <2>3, <2>8 DEF number, Flushed
    <3>2. NumbersUnique'
      BY <1>0, <1>2, <2>3, <3>1, UniqueKept
    <3> QED BY <1>0, <1>2, <2>1, <2>3, <2>7, <3>2, StudentsWritten
  <2>9. CASE x.number # x.row.number
    <3>1. number = x.number
      BY <2>9 DEF number, Flushed
    <3>2. \A p \in Requests \ {r} : CreatedBy(p) \cap {x.number} = {}
      BY <2>1, <2>9 DEF Held, CreatedBy
    <3>3. \A i, j \in Ids' : students'[i].number = students'[j].number => i = j
      <4>1. \A i, j \in Ids : students[i].number = students[j].number => i = j
        BY <1>0 DEF NumbersUnique
      <4>2. \A i \in Ids \ {x.id} : students[i].number # x.number
        BY <2>1, <2>9 DEF Taken
      <4> QED BY <2>3, <3>1, <4>1, <4>2
    <3>4. NumbersInUse' \subseteq NumbersInUse \cup {x.number}
      BY <2>3, <3>1 DEF NumbersInUse
    <3>5. NumbersUnique'
      BY <1>0, <1>2, <3>2, <3>3, <3>4, UniqueStep
    <3> QED BY <1>0, <1>2, <2>1, <2>3, <2>7, <3>5, StudentsWritten
  <2> QED BY <2>8, <2>9
<1> QED BY <1>3, <1>4

\* delete_student: the row keeps its number and its status.
LEMMA DeleteSaveKeeps ==
  ASSUME PeopleInv, NEW r \in Requests, DeleteSave(r), UNCHANGED staff
  PROVE  PeopleInv'
<1> DEFINE id == req[r].id
<1>0. OnlySlot(r, StudentLabels) /\ StudentRows /\ NumbersUnique /\ req'[r] = Idle
  BY StudentSlot DEF PeopleInv, Step, DeleteSave, Return, Slots
<1>1. /\ id \in Ids /\ students' = [students EXCEPT ![id].deleted = TRUE]
      /\ UNCHANGED <<history, filed>>
  BY DEF PeopleInv, PeopleCarries, DeleteSave
<1>2. PICK row \in Student : row = students[id]
  BY <1>0, <1>1, StudentNumbers
<1> DEFINE new == [row EXCEPT !.deleted = TRUE]
<1>3. new \in Student /\ new.number = students[id].number /\ new.status = students[id].status
  BY <1>2 DEF Student
<1>4. students' = [students EXCEPT ![id] = new]
  BY <1>1, <1>2
<1> HIDE DEF new, id
<1>6. /\ students' \in Seq(Student) /\ Len(students') = Len(students) /\ Ids' = Ids
      /\ students'[id] = new /\ \A i \in Ids \ {id} : students'[i] = students[i]
  BY <1>0, <1>1, <1>3, <1>4, UpdatedRows
<1>7. \A i \in Ids : /\ students'[i].number = students[i].number
                     /\ students'[i].status = students[i].status
  BY <1>3, <1>6
<1>8. StudentRows'
  BY <1>0, <1>1, <1>6, <1>7 DEF StudentRows
<1>9. CreatedBy(r)' = {} /\ PeopleCarries(req[r])'
  BY <1>0, IdleCarries
<1>10. NumbersUnique'
  BY <1>0, <1>6, <1>7, <1>9, UniqueKept
<1> QED BY <1>0, <1>6, <1>8, <1>9, <1>10, StudentsWritten

\* A row that is filed is about a student that is there.
LEMMA FileSaveKeeps ==
  ASSUME PeopleInv, NEW r \in Requests, FileSave(r), UNCHANGED staff
  PROVE  PeopleInv'
<1> DEFINE row == req[r].row
<1>0. OnlySlot(r, StudentLabels) /\ StudentRows /\ req'[r] = Idle
  BY StudentSlot DEF PeopleInv, FilingStep, FileSave, Return, Slots
<1>1. /\ row \in Filed /\ row.student \in Ids /\ filed' = Append(filed, row)
      /\ UNCHANGED <<students, history>>
  BY DEF PeopleInv, PeopleCarries, FileSave
<1> HIDE DEF row
<1>2. /\ filed' \in Seq(Filed) /\ DOMAIN filed' = DOMAIN filed \cup {Len(filed) + 1}
      /\ filed'[Len(filed) + 1] = row /\ \A k \in DOMAIN filed : filed'[k] = filed[k]
  BY <1>0, <1>1, RowAppended DEF StudentRows
<1>3. Ids' = Ids /\ \A i \in Ids : students'[i].number = students[i].number
  BY <1>1 DEF Ids
<1>4. StudentRows'
  BY <1>0, <1>1, <1>2, <1>3 DEF StudentRows
<1>5. CreatedBy(r)' = {} /\ PeopleCarries(req[r])'
  BY <1>0, IdleCarries
<1>6. NumbersUnique'
  BY <1>0, <1>3, <1>5, UniqueKept
<1> QED BY <1>0, <1>3, <1>4, <1>5, <1>6, StudentsWritten

\* The handlers' first steps, which write nothing.
LEMMA LoadsKeep ==
  ASSUME PeopleInv, NEW r \in Requests, UNCHANGED staff,
         \/ \E i \in Ids, n \in Numbers \cup {Null}, s \in Statuses \cup {Null} : UpdateLoad(r, i, n, s)
         \/ \E i \in Ids : DeleteLoad(r, i)
         \/ \E i \in Ids : AddGuardian(r, i) \/ AddNote(r, i) \/ AddDocument(r, i) \/ EnrollStudent(r, i)
  PROVE  PeopleInv'
<1>0. OnlySlot(r, StudentLabels) /\ StudentRows /\ Slots /\ UNCHANGED db
  BY StudentSlot DEF PeopleInv, Step, FilingStep, UpdateLoad, DeleteLoad, AddGuardian, AddNote,
     AddDocument, EnrollStudent, FileLoad
<1>r. ASSUME req'[r].at \notin ImportLabels, PeopleCarries(req[r])' PROVE PeopleInv'
  <2>1. CreatedBy(r)' = {}
    BY <1>r DEF CreatedBy, Importing, ImportLabels
  <2> QED BY <1>0, <1>r, <2>1, StudentsRead
<1>1. ASSUME NEW i \in Ids, NEW n \in Numbers \cup {Null}, NEW s \in Statuses \cup {Null},
             UpdateLoad(r, i, n, s)
      PROVE  PeopleInv'
  <2>1. PICK m, t : /\ m = IF n = Null THEN students[i].number ELSE n
                    /\ t = IF s = Null THEN students[i].status ELSE s
    OBVIOUS
  <2>2. req'[r] = [at |-> "update.save", id |-> i, row |-> students[i], number |-> m, status |-> t]
    BY <1>0, <1>1, <2>1 DEF UpdateLoad, Begin, Slots
  <2>3. students[i] \in Student /\ m \in Numbers /\ t \in Statuses
    BY <1>0, <2>1, StudentNumbers DEF Student
  <2>4. i \in Ids'
    BY <1>0 DEF db, Ids
  <2> QED BY <1>r, <2>2, <2>3, <2>4 DEF PeopleCarries, ImportLabels
<1>2. ASSUME NEW i \in Ids, DeleteLoad(r, i) PROVE PeopleInv'
  <2>1. req'[r] = [at |-> "delete.save", id |-> i]
    BY <1>0, <1>2 DEF DeleteLoad, Begin, Slots
  <2>2. i \in Ids'
    BY <1>0 DEF db, Ids
  <2> QED BY <1>r, <2>1, <2>2 DEF PeopleCarries, ImportLabels
<1>3. ASSUME NEW i \in Ids, NEW kind \in {"guardian", "note", "document", "enrollment"},
             FileLoad(r, i, kind)
      PROVE  PeopleInv'
  <2>1. PICK row : row = [student |-> i, kind |-> kind]
    OBVIOUS
  <2>2. req'[r] = [at |-> "file.save", row |-> row]
    BY <1>0, <1>3, <2>1 DEF FileLoad, Begin, Slots
  <2>3. i \in Nat
    BY <1>0, StudentNumbers
  <2>4. row \in Filed /\ row.student = i
    BY <2>1, <2>3 DEF Filed, Guardian, StudentNote, StudentDocument, StudentEnrollment
  <2>5. i \in Ids'
    BY <1>0 DEF db, Ids
  <2> QED BY <1>r, <2>2, <2>4, <2>5 DEF PeopleCarries, ImportLabels
<1> QED BY <1>1, <1>2, <1>3 DEF AddGuardian, AddNote, AddDocument, EnrollStudent

\* The first row of an import.
LEMMA ImportStartKeeps ==
  ASSUME PeopleInv, NEW r \in Requests, NEW numbers \in Imports, ImportStart(r, numbers), UNCHANGED staff
  PROVE  PeopleInv'
<1>0. OnlySlot(r, StudentLabels) /\ Slots /\ UNCHANGED db
  BY StudentSlot DEF PeopleInv, Step, ImportStart
<1>1. PICK rest \in Seq(Numbers) :
        /\ rest = Tail(numbers) /\ Head(numbers) = numbers[1] /\ Head(numbers) \in Numbers
        /\ Len(rest) = Len(numbers) - 1 /\ Len(numbers) >= 1
        /\ \A j \in 1..Len(rest) : rest[j] = numbers[j + 1]
  BY HeadAndTail, RecordsAssumption DEF ImportStart
<1> DEFINE x == [at |-> "import.lookup", asked |-> numbers, number |-> Head(numbers),
                 rest |-> rest, created |-> << >>, errors |-> {}]
<1>2. req'[r] = x
  BY <1>0, <1>1 DEF ImportStart, Begin, Slots
<1>3. numbers \in Seq(Numbers) /\ << >> \in Seq(Numbers)
  BY RecordsAssumption
<1>4. /\ x \in Import /\ x.at = "import.lookup" /\ x.asked = numbers /\ x.number = numbers[1]
      /\ x.rest = rest /\ x.created = << >> /\ x.errors = {}
  BY <1>1, <1>3 DEF Import, ImportLabels
<1> HIDE DEF x
<1>a. Len(x.asked) = Len(numbers) /\ Len(x.rest) = Len(numbers) - 1 /\ Len(numbers) \in Nat
  BY <1>1, <1>3, <1>4
<1>5. Place(x) = 1
  BY <1>a DEF Place
<1>6. Done(x) = {} /\ Range(x.created) = {} /\ IsInjective(x.created)
  BY <1>4, <1>5 DEF Done, Range, IsInjective
<1>7. ImportSound(x)
  <2>1. \A j \in 1..Len(x.rest) : x.rest[j] = x.asked[Place(x) + j]
    BY <1>1, <1>4, <1>5
  <2> QED BY <1>4, <1>5, <1>6, <1>a, <2>1 DEF ImportSound
<1>8. PeopleCarries(req[r])' /\ CreatedBy(r)' = {}
  BY <1>2, <1>4, <1>6, <1>7 DEF PeopleCarries, CreatedBy
<1> QED BY <1>0, <1>8, StudentsRead

\* A number listed twice or known is reported; another one is going to be inserted.
LEMMA ImportLookupKeeps ==
  ASSUME PeopleInv, NEW r \in Requests, ImportLookup(r), UNCHANGED staff
  PROVE  PeopleInv'
<1> DEFINE x == req[r]
<1>0. OnlySlot(r, StudentLabels) /\ Slots /\ UNCHANGED db /\ x.at = "import.lookup"
  BY StudentSlot DEF PeopleInv, Step, ImportStep, ImportLookup
<1>1. ImportSound(x) /\ x \in Import /\ Len(x.rest) < Len(x.asked)
  BY <1>0 DEF PeopleInv, PeopleCarries, ImportLabels, ImportSound
<1>2. CreatedBy(r) = Range(x.created)
  BY <1>0 DEF CreatedBy, Importing
<1>c. ASSUME NEW z, req'[r] = z, ImportSound(z), Range(z.created) \subseteq Range(x.created)
      PROVE  PeopleInv'
  <2>1. z.at \in ImportLabels
    BY <1>c DEF ImportSound, Import
  <2>2. PeopleCarries(req[r])' /\ CreatedBy(r)' \subseteq CreatedBy(r)
    BY <1>2, <1>c, <2>1 DEF PeopleCarries, CreatedBy, ImportLabels
  <2> QED BY <1>0, <2>2, StudentsRead
<1>3. CASE Continue(r, Advanced(x, x.created, x.errors \cup {x.number}))
  <2>1. /\ x.created \in Seq(Numbers) /\ x.errors \cup {x.number} \in SUBSET Numbers
        /\ IsInjective(x.created) /\ Range(x.created) \subseteq Done(x)
    BY <1>0, <1>1 DEF ImportSound, Import
  <2>2. PICK errors \in SUBSET Numbers : errors = x.errors \cup {x.number}
    BY <2>1
  <2>3. /\ ImportSound(Advanced(x, x.created, errors))
        /\ Advanced(x, x.created, errors).created = x.created
    BY <1>0, <1>1, <2>1, <2>2, AdvancedSound
  <2>4. req'[r] = Advanced(x, x.created, errors)
    BY <1>0, <1>3, <2>2 DEF Continue, Slots
  <2> QED BY <1>c, <2>3, <2>4
<1>4. CASE x.number \notin Seen(x) /\ Continue(r, [x EXCEPT !.at = "import.insert"])
  <2>1. PICK t \in Import : t = x
    BY <1>1
  <2> DEFINE z == [t EXCEPT !.at = "import.insert"]
  <2>2. req'[r] = z
    BY <1>0, <1>4, <2>1 DEF Continue, Slots
  <2>3. /\ z \in Import /\ z.at = "import.insert" /\ z.asked = x.asked /\ z.number = x.number
        /\ z.rest = x.rest /\ z.created = x.created /\ z.errors = x.errors
    BY <2>1 DEF Import, ImportLabels
  <2> HIDE DEF z
  <2>4. Place(z) = Place(x) /\ Done(z) = Done(x)
    BY <2>3 DEF Place, Done
  <2>5. x.number \notin Done(x)
    BY <1>1, <1>4, SeenIsDone
  <2>6. ImportSound(z)
    BY <1>0, <1>1, <2>3, <2>4, <2>5 DEF ImportSound
  <2> QED BY <1>c, <2>2, <2>3, <2>6
<1> QED BY <1>3, <1>4 DEF ImportLookup

\* A row is inserted when nobody has its number or holds it.
LEMMA ImportInsertKeeps ==
  ASSUME PeopleInv, NEW r \in Requests, ImportInsert(r), UNCHANGED staff
  PROVE  PeopleInv'
<1> DEFINE x == req[r]
<1>0. /\ OnlySlot(r, StudentLabels) /\ Slots /\ UNCHANGED db /\ x.at = "import.insert"
      /\ StudentRows /\ NumbersUnique /\ ~Held(r, x.number) /\ ~Taken(x.number, Ids)
  BY StudentSlot DEF PeopleInv, Step, ImportStep, ImportInsert
<1>1. ImportSound(x) /\ x \in Import
  BY <1>0 DEF PeopleInv, PeopleCarries, ImportLabels, ImportSound
<1>2. CreatedBy(r) = Range(x.created)
  BY <1>0 DEF CreatedBy, Importing
<1>3. x.created \in Seq(Numbers) /\ x.number \in Numbers /\ IsInjective(x.created)
      /\ Range(x.created) \subseteq Done(x) /\ x.number \notin Done(x)
  BY <1>0, <1>1 DEF ImportSound, Import
<1>4. PICK created \in Seq(Numbers) :
        /\ created = Append(x.created, x.number) /\ IsInjective(created)
        /\ Range(created) = Range(x.created) \cup {x.number}
  <2>1. /\ Append(x.created, x.number) \in Seq(Numbers)
        /\ DOMAIN Append(x.created, x.number) = DOMAIN x.created \cup {Len(x.created) + 1}
        /\ Append(x.created, x.number)[Len(x.created) + 1] = x.number
        /\ \A i \in DOMAIN x.created : Append(x.created, x.number)[i] = x.created[i]
    BY <1>3, RowAppended
  <2>2. x.number \notin Range(x.created)
    BY <1>3
  <2>3. PICK created \in Seq(Numbers) :
          /\ created = Append(x.created, x.number)
          /\ DOMAIN created = DOMAIN x.created \cup {Len(x.created) + 1}
          /\ created[Len(x.created) + 1] = x.number
          /\ \A i \in DOMAIN x.created : created[i] = x.created[i]
    BY <2>1
  <2>4. IsInjective(created)
    BY <1>3, <2>2, <2>3 DEF Range, IsInjective
  <2>5. Range(created) = Range(x.created) \cup {x.number}
    BY <2>3 DEF Range
  <2> QED BY <2>3, <2>4, <2>5
<1>5. x.errors \in SUBSET Numbers
  BY <1>1 DEF Import
<1>6. /\ ImportSound(Advanced(x, created, x.errors))
      /\ Advanced(x, created, x.errors).created = created
  <2>1. /\ ImportSound(x) /\ x.at # "import.save" /\ IsInjective(created)
        /\ Range(x.created) \subseteq Range(created)
        /\ Range(created) \subseteq Done(x) \cup {x.number}
        /\ x.errors \subseteq x.errors /\ x.number \in x.errors \cup Range(created)
    BY <1>0, <1>1, <1>3, <1>4
  <2> HIDE DEF x
  <2> QED BY <1>5, <2>1, AdvancedSound
<1>7. req'[r] = Advanced(x, created, x.errors)
  BY <1>0, <1>4 DEF ImportInsert, Continue, Slots
<1>8. Advanced(x, created, x.errors).at \in ImportLabels
  BY <1>6 DEF ImportSound, Import
<1>9. PeopleCarries(req[r])' /\ CreatedBy(r)' = CreatedBy(r) \cup {x.number}
  BY <1>2, <1>4, <1>6, <1>7, <1>8 DEF PeopleCarries, CreatedBy, Importing, ImportLabels
<1>10. Ids' = Ids /\ NumbersInUse' = NumbersInUse /\ StudentRows'
  BY <1>0 DEF db, Ids, NumbersInUse, StudentRows
<1>11. NumbersUnique'
  <2>1. \A p \in Requests \ {r} : CreatedBy(p) \cap {x.number} = {}
    BY <1>0 DEF Held, CreatedBy
  <2>2. \A i, j \in Ids' : students'[i].number = students'[j].number => i = j
    BY <1>0, <1>10 DEF NumbersUnique, db
  <2>3. CreatedBy(r) \cap NumbersInUse = {}
    BY <1>0 DEF NumbersUnique, CreatedBy
  <2>4. x.number \notin NumbersInUse
    BY <1>0 DEF Taken, NumbersInUse
  <2>5. CreatedBy(r)' \cap NumbersInUse' = {}
    BY <1>9, <1>10, <2>3, <2>4
  <2> QED BY <1>0, <1>9, <1>10, <2>1, <2>2, <2>5, UniqueStep
<1> QED BY <1>0, <1>9, <1>10, <1>11, StudentsWritten

\* Rows appended together.
LEMMA RowsAdded ==
  ASSUME NEW S, NEW s \in Seq(S), NEW n \in Nat, NEW t, t \in [1..n -> S]
  PROVE  /\ s \o t \in Seq(S) /\ Len(s \o t) = Len(s) + n /\ Len(s) \in Nat
         /\ DOMAIN (s \o t) = 1..(Len(s) + n) /\ DOMAIN s = 1..Len(s)
         /\ \A i \in DOMAIN s : (s \o t)[i] = s[i]
         /\ \A k \in 1..n : (s \o t)[Len(s) + k] = t[k]
<1>1. t \in Seq(S) /\ Len(t) = n
  OBVIOUS
<1> QED BY <1>1

\* The rows of an import at its commit, each with its history.
LEMMA ImportedRows ==
  ASSUME StudentRows, NEW r \in Requests, NEW n \in Nat, n = Len(req[r].created),
         req[r].created \in Seq(Numbers), ImportSave(r)
  PROVE  /\ students' \in Seq(Student) /\ Len(students') = Len(students) + n
         /\ Len(students) \in Nat /\ Ids' = 1..(Len(students) + n) /\ Ids = 1..Len(students)
         /\ \A i \in Ids : students'[i] = students[i]
         /\ history' \in Seq(Seq(StatusChange)) /\ Len(history') = Len(history) + n
         /\ \A i \in DOMAIN history : history'[i] = history[i]
         /\ \E given \in [1..n -> Statuses] : \A k \in 1..n :
              /\ students'[Len(students) + k] = NewRow(req[r].created[k], given[k])
              /\ history'[Len(history) + k] = NewHistory(given[k])
<1> DEFINE x == req[r]
<1>0. StudentRows /\ x.created \in Seq(Numbers)
  OBVIOUS
<1>2. DOMAIN x.created = 1..n /\ n \in Nat /\ \A k \in 1..n : x.created[k] \in Numbers
  BY <1>0
<1>1. PICK given \in [1..n -> Statuses] :
        /\ students' = students \o [k \in DOMAIN x.created |-> NewRow(x.created[k], given[k])]
        /\ history' = history \o [k \in DOMAIN x.created |-> NewHistory(given[k])]
  BY <1>2 DEF ImportSave
<1> DEFINE new == [k \in DOMAIN x.created |-> NewRow(x.created[k], given[k])]
           first == [k \in DOMAIN x.created |-> NewHistory(given[k])]
<1>3. students' = students \o new /\ history' = history \o first
  BY <1>1
<1>4. new \in [1..n -> Student] /\ \A k \in 1..n : new[k] = NewRow(x.created[k], given[k])
  BY <1>1, <1>2, NewStudent
<1>5. first \in [1..n -> Seq(StatusChange)] /\ \A k \in 1..n : first[k] = NewHistory(given[k])
  <2>1. \A k \in 1..n : NewHistory(given[k]) \in Seq(StatusChange)
    BY <1>1, FirstChange DEF NewHistory
  <2> QED BY <1>2, <2>1
<1> HIDE DEF new, first
<1>6. /\ students' \in Seq(Student) /\ Len(students') = Len(students) + n /\ Len(students) \in Nat
      /\ Ids' = 1..(Len(students) + n) /\ Ids = 1..Len(students)
      /\ \A i \in Ids : students'[i] = students[i]
      /\ \A k \in 1..n : students'[Len(students) + k] = NewRow(x.created[k], given[k])
  <2>1. students \in Seq(Student) /\ Ids = DOMAIN students /\ Ids' = DOMAIN students'
    BY <1>0 DEF StudentRows, Ids
  <2>2. PICK s \in Seq(Student), t \in [1..n -> Student] : s = students /\ t = new /\ students' = s \o t
    BY <1>3, <1>4, <2>1
  <2>3. /\ s \o t \in Seq(Student) /\ Len(s \o t) = Len(s) + n /\ Len(s) \in Nat
        /\ DOMAIN (s \o t) = 1..(Len(s) + n) /\ DOMAIN s = 1..Len(s)
        /\ \A i \in DOMAIN s : (s \o t)[i] = s[i]
        /\ \A k \in 1..n : (s \o t)[Len(s) + k] = t[k]
    BY ONLY <1>2, <2>2, RowsAdded
  <2> QED BY <1>4, <2>1, <2>2, <2>3
<1>7. /\ history' \in Seq(Seq(StatusChange)) /\ Len(history') = Len(history) + n
      /\ \A i \in DOMAIN history : history'[i] = history[i]
      /\ \A k \in 1..n : history'[Len(history) + k] = NewHistory(given[k])
  <2>1. history \in Seq(Seq(StatusChange))
    BY <1>0 DEF StudentRows
  <2>b. PICK S : S = Seq(StatusChange)
    OBVIOUS
  <2>2. PICK s \in Seq(S), t \in [1..n -> S] : s = history /\ t = first /\ history' = s \o t
    BY <1>3, <1>5, <2>1, <2>b
  <2>a. t \in [1..n -> S] /\ n \in Nat
    BY <1>2, <2>2
  <2>3. /\ s \o t \in Seq(S) /\ Len(s \o t) = Len(s) + n
        /\ \A i \in DOMAIN s : (s \o t)[i] = s[i]
        /\ \A k \in 1..n : (s \o t)[Len(s) + k] = t[k]
    BY ONLY <2>a, RowsAdded
  <2> QED BY <1>5, <2>2, <2>3, <2>b
<1> QED BY <1>1, <1>6, <1>7

\* The commit of an import: its rows get the numbers it held, and a history each.
LEMMA ImportSaveKeeps ==
  ASSUME PeopleInv, NEW r \in Requests, ImportSave(r), UNCHANGED staff
  PROVE  PeopleInv'
<1> DEFINE x == req[r]
           n == Len(x.created)
<1>0. /\ OnlySlot(r, StudentLabels) /\ Slots /\ x.at = "import.save" /\ StudentRows /\ NumbersUnique
      /\ req'[r] = Idle
  BY StudentSlot DEF PeopleInv, Step, ImportStep, ImportSave, Return, Slots
<1>1. x.created \in Seq(Numbers) /\ IsInjective(x.created)
  BY <1>0 DEF PeopleInv, PeopleCarries, ImportLabels, ImportSound, Import
<1>2. /\ DOMAIN x.created = 1..n /\ n \in Nat /\ \A k \in 1..n : x.created[k] \in Numbers
      /\ CreatedBy(r) = {x.created[k] : k \in 1..n}
  BY <1>0, <1>1 DEF CreatedBy, Importing, Range
<1>3. UNCHANGED filed
  BY DEF ImportSave
<1> HIDE DEF n
<1>6. /\ students' \in Seq(Student) /\ Len(students') = Len(students) + n /\ Len(students) \in Nat
      /\ Ids' = 1..(Len(students) + n) /\ Ids = 1..Len(students)
      /\ \A i \in Ids : students'[i] = students[i]
  BY <1>0, <1>1, <1>2, ImportedRows DEF n
<1>7. /\ history' \in Seq(Seq(StatusChange)) /\ Len(history') = Len(history) + n
      /\ \A i \in DOMAIN history : history'[i] = history[i]
  BY <1>0, <1>1, <1>2, ImportedRows DEF n
<1>a. PICK given \in [1..n -> Statuses] : \A k \in 1..n :
        /\ students'[Len(students) + k] = NewRow(x.created[k], given[k])
        /\ history'[Len(history) + k] = NewHistory(given[k])
  BY <1>0, <1>1, <1>2, ImportedRows DEF n
<1>8. \A i \in Ids' : i \in Ids \/ \E k \in 1..n : i = Len(students) + k
  <2> SUFFICES ASSUME NEW i \in Ids', i \notin Ids PROVE \E k \in 1..n : i = Len(students) + k
    OBVIOUS
  <2>1. i - Len(students) \in 1..n
    BY <1>2, <1>6
  <2> QED BY <1>6, <2>1
<1>9. \A k \in 1..n : /\ students'[Len(students) + k].number = x.created[k]
                      /\ students'[Len(students) + k].status = given[k]
  <2>1. \A k \in 1..n : students'[Len(students) + k] = NewRow(x.created[k], given[k])
    BY <1>a
  <2>2. \A c, s : NewRow(c, s).number = c /\ NewRow(c, s).status = s
    BY DEF NewRow
  <2> HIDE DEF x
  <2> QED BY ONLY <2>1, <2>2
<1>10. StudentRows'
  <2>1. Len(history') = Len(students')
    BY <1>0, <1>6, <1>7 DEF StudentRows
  <2>2. ASSUME NEW i \in Ids' PROVE history'[i] # << >> /\ Last(history'[i]).to = students'[i].status
    <3>1. CASE i \in Ids
      BY <1>0, <1>6, <1>7, <3>1, StudentNumbers DEF StudentRows
    <3>2. CASE \E k \in 1..n : i = Len(students) + k
      <4>1. PICK k \in 1..n : i = Len(students) + k
        BY <3>2
      <4>2. history'[i] = NewHistory(given[k]) /\ students'[i].status = given[k]
        BY <1>0, <1>6, <1>9, <1>a, <4>1 DEF StudentRows
      <4> QED BY <1>a, <4>2, FirstChange DEF NewHistory
    <3> QED BY <1>8, <3>1, <3>2
  <2>3. \A k \in DOMAIN filed' : filed'[k].student \in Ids'
    BY <1>0, <1>2, <1>3, <1>6 DEF StudentRows
  <2> QED BY <1>0, <1>3, <1>6, <1>7, <2>1, <2>2, <2>3 DEF StudentRows
<1>11. CreatedBy(r)' = {} /\ PeopleCarries(req[r])'
  BY <1>0, IdleCarries
<1>12. /\ \A p \in Requests \ {r} : CreatedBy(p) \cap CreatedBy(r) = {}
       /\ CreatedBy(r) \cap NumbersInUse = {}
  BY <1>0 DEF NumbersUnique, CreatedBy
<1>13. \A i, j \in Ids' : students'[i].number = students'[j].number => i = j
  <2> SUFFICES ASSUME NEW i \in Ids', NEW j \in Ids', students'[i].number = students'[j].number
               PROVE  i = j
    OBVIOUS
  <2>1. \A m \in Ids : students'[m].number \in NumbersInUse
    BY <1>6 DEF NumbersInUse
  <2>2. \A k \in 1..n : students'[Len(students) + k].number = x.created[k]
    BY <1>6, <1>9
  <2>3. \A k \in 1..n : x.created[k] \in CreatedBy(r)
    BY <1>2
  <2>4. CASE i \in Ids /\ j \in Ids
    BY <1>0, <1>6, <2>4 DEF NumbersUnique
  <2>5. CASE i \notin Ids /\ j \notin Ids
    <3>1. PICK k \in 1..n, l \in 1..n : i = Len(students) + k /\ j = Len(students) + l
      BY <1>8, <2>5
    <3>2. x.created[k] = x.created[l]
      BY <2>2, <3>1
    <3> QED BY <1>1, <1>2, <3>1, <3>2 DEF IsInjective
  <2>6. CASE i \in Ids /\ j \notin Ids
    BY <1>8, <1>12, <2>1, <2>2, <2>3, <2>6
  <2>7. CASE i \notin Ids /\ j \in Ids
    BY <1>8, <1>12, <2>1, <2>2, <2>3, <2>7
  <2> QED BY <2>4, <2>5, <2>6, <2>7
<1>14. NumbersInUse' \subseteq NumbersInUse \cup CreatedBy(r)
  <2> SUFFICES ASSUME NEW i \in Ids' PROVE students'[i].number \in NumbersInUse \cup CreatedBy(r)
    BY DEF NumbersInUse
  <2>1. CASE i \in Ids
    BY <1>6, <2>1 DEF NumbersInUse
  <2>2. CASE i \notin Ids
    <3>1. PICK k \in 1..n : i = Len(students) + k
      BY <1>8, <2>2
    <3>2. students'[i].number = x.created[k] /\ x.created[k] \in CreatedBy(r)
      BY <1>2, <1>6, <1>9, <3>1
    <3> QED BY <3>2
  <2> QED BY <2>1, <2>2
<1>15. NumbersUnique'
  BY <1>0, <1>11, <1>12, <1>13, <1>14, UniqueStep
<1>16. Ids \subseteq Ids'
  BY <1>2, <1>6
<1> QED BY <1>0, <1>10, <1>11, <1>15, <1>16, StudentsWritten

\* Every handler of students keeps the invariant.
LEMMA StudentInvStep ==
  ASSUME PeopleInv, NEW r \in Requests, Step(r) \/ FilingStep(r), UNCHANGED staff
  PROVE  PeopleInv'
<1>1. CASE ImportAbort(r)
  <2>1. OnlySlot(r, StudentLabels) /\ UNCHANGED db /\ req'[r] = Idle
    BY <1>1, StudentSlot DEF PeopleInv, Step, ImportStep, ImportAbort, Return, Slots
  <2> QED BY <2>1, IdleCarries, StudentsRead
<1> QED
  BY <1>1, CreateKeeps, LoadsKeep, UpdateSaveKeeps, DeleteSaveKeeps, FileSaveKeeps,
     ImportStartKeeps, ImportLookupKeeps, ImportInsertKeeps, ImportSaveKeeps
     DEF Step, FilingStep, ImportStep

-----------------------------------------------------------------------------
(* Employees.                                                                *)

\* Employees are numbered, and so are their profiles and histories.
LEMMA StaffNumbers ==
  ASSUME StaffRows
  PROVE  /\ Staff = 1..Len(employees) /\ Len(employees) \in Nat
         /\ DOMAIN careers = Staff /\ DOMAIN profiles = Staff
         /\ \A i \in Staff : /\ employees[i] \in Employee /\ careers[i] \in Seq(StatusChange)
                             /\ careers[i] # << >> /\ profiles[i] \in Nat
BY DEF StaffRows, Staff, EmployeeProfile, EmployeeStatusHistory, StatusChange

\* A step of the employees leaves the students alone, and no number is held.
LEMMA StaffWritten ==
  ASSUME PeopleInv, NEW r \in Requests, OnlySlot(r, StaffLabels), UNCHANGED db,
         PeopleCarries(req[r])', StaffRows', EmployeesUnique', Staff \subseteq Staff'
  PROVE  PeopleInv'
<1>1. StudentRows' /\ Ids' = Ids /\ \A i \in Ids : students'[i].number = students[i].number
  BY DEF PeopleInv, db, Ids, StudentRows
<1>2. CreatedBy(r)' = {}
  BY DEF OnlySlot, StaffLabels, CreatedBy, Importing
<1>3. NumbersUnique'
  BY <1>1, <1>2, UniqueKept
<1> QED BY <1>1, <1>3, PeopleKeptByStep

\* A step that only reads keeps the invariant.
LEMMA StaffRead ==
  ASSUME PeopleInv, NEW r \in Requests, OnlySlot(r, StaffLabels), UNCHANGED <<db, staff>>,
         PeopleCarries(req[r])'
  PROVE  PeopleInv'
<1>1. StaffRows' /\ EmployeesUnique' /\ Staff' = Staff
  BY DEF PeopleInv, staff, Staff, StaffRows, EmployeesUnique
<1> QED BY <1>1, StaffWritten

\* create_employee: the code is nobody's, nor the linked user.
LEMMA CreateEmployeeKeeps ==
  ASSUME PeopleInv, NEW r \in Requests, NEW row \in Hired, NEW withProfile \in BOOLEAN,
         CreateEmployee(r, row, withProfile), UNCHANGED db
  PROVE  PeopleInv'
<1>0. /\ OnlySlot(r, StaffLabels) /\ StaffRows /\ EmployeesUnique /\ req'[r] = Idle
      /\ row \in Employee /\ row.status \in Statuses
  BY StaffSlot, EmployeesAssumption DEF PeopleInv, StaffStep, CreateEmployee, Employee
<1> DEFINE first == <<[from |-> Null, to |-> row.status]>>
           version == IF withProfile THEN 1 ELSE 0
<1>1. /\ employees' = Append(employees, row) /\ careers' = Append(careers, first)
      /\ profiles' = Append(profiles, version) /\ UNCHANGED <<papers, assignments>>
      /\ ~EmployeeTaken(row, Staff)
  BY DEF CreateEmployee
<1>2. first \in Seq(StatusChange) /\ first # << >> /\ Last(first).to = row.status
  BY <1>0, FirstChange
<1> HIDE DEF first
<1>3. /\ employees' \in Seq(Employee) /\ Len(employees') = Len(employees) + 1
      /\ Staff' = Staff \cup {Len(employees) + 1}
      /\ employees'[Len(employees) + 1] = row /\ \A i \in Staff : employees'[i] = employees[i]
  BY <1>0, <1>1, RowAppended DEF StaffRows, Staff
<1>4. /\ careers' \in Seq(Seq(EmployeeStatusHistory)) /\ Len(careers') = Len(careers) + 1
      /\ careers'[Len(careers) + 1] = first /\ \A i \in DOMAIN careers : careers'[i] = careers[i]
  <2>1. first \in Seq(EmployeeStatusHistory)
    BY <1>2 DEF EmployeeStatusHistory, StatusChange
  <2> QED BY <1>0, <1>1, <2>1, RowAppended DEF StaffRows
<1>5. profiles' \in Seq(EmployeeProfile) /\ Len(profiles') = Len(profiles) + 1
  BY <1>0, <1>1, RowAppended DEF StaffRows, EmployeeProfile
<1>6. StaffRows'
  BY <1>0, <1>1, <1>2, <1>3, <1>4, <1>5, StaffNumbers DEF StaffRows
<1>7. EmployeesUnique'
  <2>1. PICK m : m = Len(employees) + 1 /\ Staff' = Staff \cup {m} /\ employees'[m] = row
    BY <1>3
  <2>2. /\ \A i \in Staff : employees[i].code # row.code
        /\ \A i \in Staff : row.user # Null => employees[i].user # row.user
    BY <1>1 DEF EmployeeTaken
  <2>3. ASSUME NEW i \in Staff', NEW j \in Staff', \/ employees'[i].code = employees'[j].code
                                                   \/ /\ employees'[i].user # Null
                                                      /\ employees'[i].user = employees'[j].user
        PROVE  i = j
    <3>1. CASE i \in Staff /\ j \in Staff
      BY <1>0, <1>3, <2>3, <3>1 DEF EmployeesUnique
    <3>2. CASE i = m \/ j = m
      BY <1>3, <2>1, <2>2, <2>3, <3>2
    <3> QED BY <2>1, <3>1, <3>2
  <2> QED BY <2>3 DEF EmployeesUnique
<1>8. PeopleCarries(req[r])'
  BY <1>0, IdleCarries
<1> QED BY <1>0, <1>3, <1>6, <1>7, <1>8, StaffWritten

\* The handlers' first steps, which write nothing.
LEMMA StaffLoadsKeep ==
  ASSUME PeopleInv, NEW r \in Requests, UNCHANGED db,
         \/ \E i \in Staff, new \in Employee, withProfile \in BOOLEAN :
              EmployeeLoad(r, i, new, withProfile)
         \/ \E i \in Staff, active \in BOOLEAN : AssignTeacher(r, i, active)
         \/ \E i \in Staff : AddEmployeeNote(r, i) \/ AddEmployeeDocument(r, i)
  PROVE  PeopleInv'
<1>0. OnlySlot(r, StaffLabels) /\ StaffRows /\ Slots /\ UNCHANGED staff /\ Staff' = Staff
  BY StaffSlot DEF PeopleInv, StaffStep, PapersStep, EmployeeLoad, AssignTeacher, AddEmployeeNote,
     AddEmployeeDocument, PaperLoad, staff, Staff
<1>1. ASSUME NEW i \in Staff, NEW new \in Employee, NEW withProfile \in BOOLEAN,
             EmployeeLoad(r, i, new, withProfile)
      PROVE  PeopleInv'
  <2> DEFINE x == [at |-> IF withProfile THEN "employee.profile" ELSE "employee.save",
                   id |-> i, row |-> employees[i], new |-> new, profile |-> Null]
  <2>1. req'[r] = x
    BY <1>0, <1>1 DEF EmployeeLoad, Begin, Slots
  <2>2. employees[i] \in Employee /\ i \in Nat
    BY <1>0, StaffNumbers
  <2>3. x \in EmployeeUpdate /\ x.id = i /\ x.at \in {"employee.profile", "employee.save"}
    BY <2>2 DEF EmployeeUpdate
  <2> HIDE DEF x
  <2>4. PeopleCarries(req[r])'
    BY <1>0, <2>1, <2>3 DEF PeopleCarries, ImportLabels
  <2> QED BY <1>0, <2>4, StaffRead
<1>2. ASSUME NEW i \in Staff, NEW active \in BOOLEAN, AssignTeacher(r, i, active) PROVE PeopleInv'
  <2>1. PICK row : row = [teacher |-> i, active |-> active]
    OBVIOUS
  <2>2. req'[r] = [at |-> "assignment.save", row |-> row]
    BY <1>0, <1>2, <2>1 DEF AssignTeacher, Begin, Slots
  <2>3. row \in TeacherAssignment
    BY <1>0, <2>1, StaffNumbers DEF TeacherAssignment
  <2>4. PeopleCarries(req[r])'
    BY <2>2, <2>3 DEF PeopleCarries, ImportLabels
  <2> QED BY <1>0, <2>4, StaffRead
<1>3. ASSUME NEW i \in Staff, NEW kind \in {"note", "document"}, PaperLoad(r, i, kind) PROVE PeopleInv'
  <2>1. PICK row : row = [employee |-> i, kind |-> kind]
    OBVIOUS
  <2>2. req'[r] = [at |-> "paper.save", row |-> row]
    BY <1>0, <1>3, <2>1 DEF PaperLoad, Begin, Slots
  <2>3. row \in EmployeeNote \cup EmployeeDocument
    BY <1>0, <2>1, StaffNumbers DEF EmployeeNote, EmployeeDocument
  <2>4. PeopleCarries(req[r])'
    BY <2>2, <2>3 DEF PeopleCarries, ImportLabels
  <2> QED BY <1>0, <2>4, StaffRead
<1> QED BY <1>1, <1>2, <1>3 DEF AddEmployeeNote, AddEmployeeDocument

\* Loading a profile keeps it.
LEMMA ProfileFindKeeps ==
  ASSUME PeopleInv, NEW r \in Requests, ProfileFind(r), UNCHANGED db
  PROVE  PeopleInv'
<1> DEFINE x == req[r]
<1>0. /\ OnlySlot(r, StaffLabels) /\ StaffRows /\ Slots /\ UNCHANGED staff /\ Staff' = Staff
      /\ x.at = "employee.profile"
  BY StaffSlot DEF PeopleInv, StaffStep, ProfileFind, staff, Staff
<1>1. PICK t \in EmployeeUpdate : t = x /\ t.id \in Staff
  BY <1>0 DEF PeopleInv, PeopleCarries
<1> DEFINE z == [t EXCEPT !.at = "employee.save", !.profile = profiles[t.id]]
<1>2. req'[r] = z
  BY <1>0, <1>1 DEF ProfileFind, Continue, Slots
<1>3. profiles[t.id] \in Nat
  BY <1>0, <1>1, StaffNumbers
<1>4. z \in EmployeeUpdate /\ z.id = t.id /\ z.at = "employee.save"
  BY <1>3 DEF EmployeeUpdate, EmployeeProfile
<1> HIDE DEF z
<1>5. PeopleCarries(req[r])'
  BY <1>0, <1>1, <1>2, <1>4 DEF PeopleCarries, ImportLabels
<1> QED BY <1>0, <1>5, StaffRead

\* A row after the flush of an update, with its status.
LEMMA FlushedRow ==
  ASSUME NEW now \in Employee, NEW row \in Employee, NEW new \in Employee
  PROVE  /\ Written(now, row, new) \in Employee
         /\ Written(now, row, new).status = Flushed(now.status, row.status, new.status)
BY DEF Written, Flushed, Employee

\* update_employee: the row is nobody else's, and a status that changes is recorded.
LEMMA EmployeeSaveKeeps ==
  ASSUME PeopleInv, NEW r \in Requests, EmployeeSave(r), UNCHANGED db
  PROVE  PeopleInv'
<1> DEFINE x == req[r]
           row == RowAfter(x)
           h == careers[x.id] \o Career(x)
           version == IF x.profile = Null THEN profiles[x.id] ELSE x.profile + 1
<1>0. /\ OnlySlot(r, StaffLabels) /\ StaffRows /\ EmployeesUnique /\ Slots /\ req'[r] = Idle
      /\ x.at = "employee.save" /\ UNCHANGED <<papers, assignments>>
  BY StaffSlot DEF PeopleInv, StaffStep, EmployeeSave, Return, Slots
<1>1. /\ x.id \in Staff /\ x.row \in Employee /\ x.new \in Employee
      /\ x.profile \in EmployeeProfile \cup {Null}
  BY <1>0 DEF PeopleInv, PeopleCarries, EmployeeUpdate
<1>2. /\ employees[x.id] \in Employee /\ careers[x.id] \in Seq(StatusChange) /\ careers[x.id] # << >>
      /\ profiles[x.id] \in Nat /\ DOMAIN careers = Staff /\ DOMAIN profiles = Staff
      /\ Staff = DOMAIN employees
  BY <1>0, <1>1, StaffNumbers DEF Staff
<1>3. PeopleCarries(req[r])'
  BY <1>0, IdleCarries
<1>4. CASE UNCHANGED <<employees, careers, profiles>>
  BY <1>0, <1>3, <1>4, StaffRead DEF staff
<1>5. CASE ~UNCHANGED <<employees, careers, profiles>>
  <2>1. /\ employees' = [employees EXCEPT ![x.id] = row] /\ careers' = [careers EXCEPT ![x.id] = h]
        /\ profiles' = [profiles EXCEPT ![x.id] = version] /\ ~EmployeeTaken(row, Staff \ {x.id})
    BY <1>5 DEF EmployeeSave
  <2>2. row \in Employee /\ row.status = Flushed(employees[x.id].status, x.row.status, x.new.status)
    BY <1>1, <1>2, FlushedRow DEF RowAfter
  <2>3. /\ h \in Seq(StatusChange) /\ h # << >>
        /\ Last(h).to = IF x.new.status = x.row.status THEN Last(careers[x.id]).to ELSE x.new.status
    <3>1. x.row.status \in Statuses /\ x.new.status \in Statuses
      BY <1>1 DEF Employee
    <3>2. Career(x) = Change(x.row.status, x.new.status)
      BY DEF Career, Change
    <3> QED BY <1>2, <3>1, <3>2, HistoryGrows
  <2>4. version \in Nat
    BY <1>1, <1>2 DEF EmployeeProfile
  <2> HIDE DEF row, h, version
  <2>5. Last(h).to = row.status
    BY <1>0, <1>1, <2>2, <2>3 DEF StaffRows, Flushed
  <2>6. /\ employees' \in Seq(Employee) /\ Len(employees') = Len(employees) /\ Staff' = Staff
        /\ employees'[x.id] = row /\ \A i \in Staff \ {x.id} : employees'[i] = employees[i]
    <3>1. employees \in Seq(Employee) /\ x.id \in DOMAIN employees
      BY <1>0, <1>1 DEF StaffRows, Staff
    <3>2. /\ employees' \in Seq(Employee) /\ Len(employees') = Len(employees)
          /\ DOMAIN employees' = DOMAIN employees /\ employees'[x.id] = row
          /\ \A i \in DOMAIN employees \ {x.id} : employees'[i] = employees[i]
      BY <2>1, <2>2, <3>1
    <3> QED BY <3>2 DEF Staff
  <2>7. /\ careers' \in Seq(Seq(EmployeeStatusHistory)) /\ Len(careers') = Len(careers)
        /\ careers'[x.id] = h /\ \A i \in Staff \ {x.id} : careers'[i] = careers[i]
    <3>1. careers \in Seq(Seq(EmployeeStatusHistory)) /\ h \in Seq(EmployeeStatusHistory)
      BY <1>0, <2>3 DEF StaffRows, EmployeeStatusHistory, StatusChange
    <3> QED BY <1>1, <1>2, <2>1, <3>1
  <2>8. profiles' \in Seq(EmployeeProfile) /\ Len(profiles') = Len(profiles)
    BY <1>0, <1>1, <1>2, <2>1, <2>4 DEF StaffRows, EmployeeProfile
  <2>9. StaffRows'
    BY <1>0, <1>1, <2>2, <2>3, <2>5, <2>6, <2>7, <2>8 DEF StaffRows
  <2>10. EmployeesUnique'
    BY <1>0, <1>1, <2>1, <2>6 DEF EmployeesUnique, EmployeeTaken
  <2> QED BY <1>0, <1>3, <2>6, <2>9, <2>10, StaffWritten
<1> QED BY <1>4, <1>5

\* Notes, documents and assignments are added.
LEMMA PapersKeep ==
  ASSUME PeopleInv, NEW r \in Requests, AssignTeacherSave(r) \/ PaperSave(r), UNCHANGED db
  PROVE  PeopleInv'
<1> DEFINE row == req[r].row
<1>0. /\ OnlySlot(r, StaffLabels) /\ StaffRows /\ req'[r] = Idle
      /\ UNCHANGED <<employees, careers, profiles>>
  BY StaffSlot DEF PeopleInv, PapersStep, AssignTeacherSave, PaperSave, Return, Slots
<1>1. PeopleCarries(req[r])'
  BY <1>0, IdleCarries
<1>2. Staff' = Staff /\ EmployeesUnique'
  BY <1>0 DEF PeopleInv, Staff, EmployeesUnique
<1>3. CASE AssignTeacherSave(r)
  <2>1. row \in TeacherAssignment /\ assignments' = Append(assignments, row) /\ UNCHANGED papers
    BY <1>3 DEF PeopleInv, PeopleCarries, AssignTeacherSave
  <2> HIDE DEF row
  <2>2. assignments' \in Seq(TeacherAssignment)
    BY <1>0, <2>1, RowAppended DEF StaffRows
  <2>3. StaffRows'
    BY <1>0, <1>2, <2>1, <2>2 DEF StaffRows
  <2> QED BY <1>0, <1>1, <1>2, <2>3, StaffWritten
<1>4. CASE PaperSave(r)
  <2>1. /\ row \in EmployeeNote \cup EmployeeDocument /\ papers' = Append(papers, row)
        /\ UNCHANGED assignments
    BY <1>4 DEF PeopleInv, PeopleCarries, PaperSave
  <2> HIDE DEF row
  <2>2. papers' \in Seq(EmployeeNote \cup EmployeeDocument)
    BY <1>0, <2>1, RowAppended DEF StaffRows
  <2>3. StaffRows'
    BY <1>0, <1>2, <2>1, <2>2 DEF StaffRows
  <2> QED BY <1>0, <1>1, <1>2, <2>3, StaffWritten
<1> QED BY <1>3, <1>4

\* Every handler of employees keeps the invariant.
LEMMA StaffInvStep ==
  ASSUME PeopleInv, NEW r \in Requests, StaffStep(r) \/ PapersStep(r), UNCHANGED db
  PROVE  PeopleInv'
BY CreateEmployeeKeeps, StaffLoadsKeep, ProfileFindKeeps, EmployeeSaveKeeps, PapersKeep
   DEF StaffStep, PapersStep

\* Every step keeps the invariant.
LEMMA PeopleInvStep == PeopleInv /\ [DirectoryNext]_directoryVars => PeopleInv'
<1> SUFFICES ASSUME PeopleInv, [DirectoryNext]_directoryVars PROVE PeopleInv'
  OBVIOUS
<1>1. ASSUME UNCHANGED <<db, staff, req>> PROVE PeopleInv'
  <2>1. Ids' = Ids /\ Staff' = Staff /\ req' = req /\ NumbersInUse' = NumbersInUse
    BY <1>1 DEF db, staff, Ids, Staff, NumbersInUse
  <2>2. Slots' /\ StudentRows' /\ StaffRows'
    <3>1. Slots' /\ StudentRows'
      BY <1>1, <2>1 DEF PeopleInv, db, Slots, StudentRows
    <3>2. StaffRows'
      BY <1>1, <2>1 DEF PeopleInv, staff, StaffRows
    <3> QED BY <3>1, <3>2
  <2>3. NumbersUnique' /\ EmployeesUnique'
    BY <1>1, <2>1 DEF PeopleInv, db, staff, NumbersUnique, Importing, EmployeesUnique
  <2>4. ASSUME NEW r \in Requests PROVE PeopleCarries(req[r])'
    <3>1. req'[r] = req[r] /\ PeopleCarries(req[r])
      BY <2>1 DEF PeopleInv
    <3>2. ImportSound(req[r]) => ImportSound(req[r])'
      BY <3>1
    <3> QED BY <2>1, <3>1, <3>2 DEF PeopleCarries
  <2> QED BY <2>2, <2>3, <2>4 DEF PeopleInv
<1>2. CASE UNCHANGED directoryVars
  BY <1>1, <1>2 DEF directoryVars
<1>3. CASE DirectoryNext
  <2>1. CASE UNCHANGED <<staff, listings>> /\ \E r \in Requests : Step(r) \/ FilingStep(r)
    BY <2>1, StudentInvStep
  <2>2. CASE UNCHANGED <<db, listings>> /\ \E r \in Requests : StaffStep(r) \/ PapersStep(r)
    BY <2>2, StaffInvStep
  <2>3. CASE UNCHANGED <<db, staff, req>>
    BY <1>1, <2>3
  <2> QED BY <1>3, <2>1, <2>2, <2>3, DirectorySteps
<1> QED BY <1>2, <1>3

\* With any number of requests in flight, no admission number is given twice, not even one of a
\* deleted student or one that an import holds, and no employee code and no linked user.
THEOREM PeopleUniqueCorrect == DirectorySpec => []PeopleUnique
<1>1. PeopleInv => PeopleUnique
  BY DEF PeopleInv, PeopleUnique
<1> QED BY <1>1, PeopleInvInit, PeopleInvStep, PTL DEF DirectorySpec

-----------------------------------------------------------------------------
(* Histories, with one request at a time.                                     *)

\* What a request found is what is there.
PeopleCurrent(x) ==
  /\ x.at = "update.save" => x.row = students[x.id]
  /\ x.at \in {"employee.profile", "employee.save"} => x.row = employees[x.id]
  /\ x.at = "import.insert" => ~Known(x.number)

\* Every history is a chain.
Chains == (\A i \in Ids : Chain(history[i])) /\ \A i \in Staff : Chain(careers[i])

\* The invariant of the requests taken one at a time.
ChainInv == OneAtATime => Chains /\ \A r \in Requests : PeopleCurrent(req[r])

\* No history is there in the beginning.
LEMMA ChainInvInit == DirectoryInit => ChainInv
BY DEF DirectoryInit, Init, StaffInit, InitRequests, Idle, Unused, ChainInv, Chains, PeopleCurrent,
   Ids, Staff

\* A request that is not at one of the three labels.
LEMMA OthersCurrent ==
  ASSUME NEW r \in Requests,
         req'[r].at \notin {"update.save", "employee.profile", "employee.save", "import.insert"}
  PROVE  PeopleCurrent(req[r])'
BY DEF PeopleCurrent

\* A history of one change.
LEMMA FirstChain ==
  ASSUME NEW e
  PROVE  Chain(<<e>>)
BY DEF Chain

\* An update that is alone continues a student's history from its last status.
LEMMA UpdateSaveChains ==
  ASSUME PeopleInv, NEW r \in Requests, UpdateSave(r), PeopleCurrent(req[r]),
         \A i \in Ids : Chain(history[i])
  PROVE  \A i \in Ids' : Chain(history'[i])
<1> DEFINE x == req[r]
<1>0. StudentRows /\ x.at = "update.save"
  BY DEF PeopleInv, UpdateSave
<1>1. /\ x.id \in Ids /\ x.row \in Student /\ x.status \in Statuses /\ x.row = students[x.id]
      /\ history[x.id] \in Seq(StatusChange) /\ DOMAIN history = Ids
  BY <1>0, StudentNumbers DEF PeopleInv, PeopleCarries, PeopleCurrent
<1>2. CASE UNCHANGED db
  BY <1>2 DEF db, Ids
<1>3. CASE ~UNCHANGED db
  <2> DEFINE h == history[x.id] \o Changed(x)
  <2>1. Ids' = Ids /\ history' = [history EXCEPT ![x.id] = h]
    BY <1>3 DEF UpdateSave, Ids
  <2>2. Chain(h)
    <3>1. /\ x.row.status \in Statuses /\ history[x.id] # << >>
          /\ Last(history[x.id]).to = x.row.status /\ Chain(history[x.id])
      BY <1>0, <1>1 DEF Student, StudentRows
    <3>2. Changed(x) = Change(x.row.status, x.status)
      BY DEF Changed, Change
    <3> QED BY <1>1, <3>1, <3>2, HistoryGrows
  <2> HIDE DEF h
  <2> QED BY <1>1, <2>1, <2>2
<1> QED BY <1>2, <1>3

\* So does an employee's.
LEMMA EmployeeSaveChains ==
  ASSUME PeopleInv, NEW r \in Requests, EmployeeSave(r), PeopleCurrent(req[r]),
         \A i \in Staff : Chain(careers[i])
  PROVE  \A i \in Staff' : Chain(careers'[i])
<1> DEFINE x == req[r]
<1>0. StaffRows /\ x.at = "employee.save"
  BY DEF PeopleInv, EmployeeSave
<1>1. /\ x.id \in Staff /\ x.row \in Employee /\ x.new \in Employee /\ x.row = employees[x.id]
      /\ careers[x.id] \in Seq(StatusChange) /\ careers[x.id] # << >> /\ DOMAIN careers = Staff
  BY <1>0, StaffNumbers DEF PeopleInv, PeopleCarries, EmployeeUpdate, PeopleCurrent
<1>2. CASE UNCHANGED <<employees, careers, profiles>>
  BY <1>2 DEF Staff
<1>3. CASE ~UNCHANGED <<employees, careers, profiles>>
  <2> DEFINE h == careers[x.id] \o Career(x)
  <2>1. Staff' = Staff /\ careers' = [careers EXCEPT ![x.id] = h]
    BY <1>3 DEF EmployeeSave, Staff
  <2>2. Chain(h)
    <3>1. /\ x.row.status \in Statuses /\ x.new.status \in Statuses
          /\ Last(careers[x.id]).to = x.row.status /\ Chain(careers[x.id])
      BY <1>0, <1>1 DEF Employee, StaffRows
    <3>2. Career(x) = Change(x.row.status, x.new.status)
      BY DEF Career, Change
    <3> QED BY <1>1, <3>1, <3>2, HistoryGrows
  <2> HIDE DEF h
  <2> QED BY <1>1, <2>1, <2>2
<1> QED BY <1>2, <1>3

\* Every handler of students that is alone keeps the chains.
LEMMA StudentChains ==
  ASSUME PeopleInv, ChainInv, NEW r \in Requests, Step(r) \/ FilingStep(r), UNCHANGED staff,
         OneAtATime
  PROVE  Chains' /\ PeopleCurrent(req[r])'
<1>0. /\ OnlySlot(r, StudentLabels) /\ Slots /\ StudentRows /\ PeopleCarries(req[r])
      /\ Chains /\ PeopleCurrent(req[r]) /\ DOMAIN history = Ids
  BY StudentSlot, StudentNumbers DEF PeopleInv, ChainInv
<1>s. \A i \in Staff' : Chain(careers'[i])
  BY <1>0 DEF Chains, staff, Staff
<1>h. ASSUME UNCHANGED <<students, history>> PROVE Chains'
  BY <1>0, <1>h, <1>s DEF Chains, Ids
<1>i. ASSUME req'[r] = Idle PROVE PeopleCurrent(req[r])'
  BY <1>i, OthersCurrent DEF Idle
<1>1. ASSUME NEW n \in Numbers, NEW s \in Statuses, Create(r, n, s)
      PROVE  Chains' /\ PeopleCurrent(req[r])'
  <2>1. /\ students' = Append(students, NewRow(n, s)) /\ history' = Append(history, NewHistory(s))
        /\ req'[r] = Idle
    BY <1>1 DEF Create
  <2>2. /\ Ids' = Ids \cup {Len(history) + 1} /\ history'[Len(history) + 1] = NewHistory(s)
        /\ \A i \in Ids : history'[i] = history[i]
    <3>1. /\ history' = Append(history, NewHistory(s)) /\ history \in Seq(Seq(StatusChange))
          /\ students \in Seq(Student) /\ Len(history) = Len(students)
          /\ students' = Append(students, NewRow(n, s))
      BY <1>0, <2>1 DEF StudentRows
    <3>2. /\ DOMAIN students' = DOMAIN students \cup {Len(students) + 1}
          /\ \A i \in DOMAIN history : history'[i] = history[i]
          /\ history'[Len(history) + 1] = NewHistory(s)
      BY <3>1, NewStudent, RowAppended
    <3> QED BY <1>0, <3>1, <3>2 DEF Ids
  <2>3. Chain(NewHistory(s))
    BY FirstChain DEF NewHistory
  <2> QED BY <1>0, <1>i, <1>s, <2>1, <2>2, <2>3 DEF Chains
<1>2. ASSUME NEW i \in Ids, NEW n, NEW s, UpdateLoad(r, i, n, s)
      PROVE  Chains' /\ PeopleCurrent(req[r])'
  <2>1. UNCHANGED db /\ req'[r].at = "update.save" /\ req'[r].id = i /\ req'[r].row = students[i]
    <3>1. PICK m, t : Begin(r, [at |-> "update.save", id |-> i, row |-> students[i], number |-> m,
                                status |-> t])
      BY <1>2 DEF UpdateLoad
    <3>2. UNCHANGED db
      BY <1>2 DEF UpdateLoad
    <3> QED BY <1>0, <3>1, <3>2 DEF Begin, Slots
  <2> QED BY <1>h, <2>1 DEF db, PeopleCurrent
<1>3. CASE UpdateSave(r)
  <2>1. req'[r] = Idle
    BY <1>0, <1>3 DEF UpdateSave, Return, Slots
  <2> QED BY <1>0, <1>3, <1>i, <1>s, <2>1, UpdateSaveChains DEF Chains
<1>4. ASSUME NEW i, DeleteLoad(r, i) \/ AddGuardian(r, i) \/ AddNote(r, i) \/ AddDocument(r, i)
                    \/ EnrollStudent(r, i)
      PROVE  Chains' /\ PeopleCurrent(req[r])'
  <2>1. UNCHANGED db /\ req'[r].at \in {"delete.save", "file.save"}
    BY <1>0, <1>4 DEF DeleteLoad, AddGuardian, AddNote, AddDocument, EnrollStudent, FileLoad, Begin,
       Slots
  <2> QED BY <1>h, <2>1, OthersCurrent DEF db
<1>5. CASE DeleteSave(r) \/ FileSave(r) \/ ImportAbort(r)
  <2>1. req'[r] = Idle /\ UNCHANGED history /\ Ids' = Ids
    BY <1>0, <1>5 DEF DeleteSave, FileSave, ImportAbort, Return, Slots, db, Ids
  <2> QED BY <1>0, <1>i, <1>s, <2>1 DEF Chains
<1>6. ASSUME NEW numbers, ImportStart(r, numbers) PROVE Chains' /\ PeopleCurrent(req[r])'
  <2>1. UNCHANGED db /\ req'[r].at = "import.lookup"
    BY <1>0, <1>6 DEF ImportStart, Begin, Slots
  <2> QED BY <1>h, <2>1, OthersCurrent DEF db
<1>7. CASE ImportLookup(r) \/ ImportInsert(r)
  <2>0. UNCHANGED db
    BY <1>7 DEF ImportLookup, ImportInsert
  <2>1. CASE \E created, errors : Continue(r, Advanced(req[r], created, errors))
    <3>1. PICK created, errors : req'[r] = Advanced(req[r], created, errors)
      BY <1>0, <2>1 DEF Continue, Slots
    <3>2. req'[r].at \in {"import.lookup", "import.save"}
      BY <1>0, <3>1, AdvancedLabel DEF Slots
    <3> QED BY <1>h, <2>0, <3>2, OthersCurrent DEF db
  <2>2. CASE ~Known(req[r].number) /\ Continue(r, [req[r] EXCEPT !.at = "import.insert"])
    <3>1. req'[r].at = "import.insert" /\ req'[r].number = req[r].number
      BY <1>0, <2>2 DEF Continue, Slots
    <3>2. \A m : Known(m)' = Known(m)
      BY <2>0 DEF Known, db, Ids
    <3>3. PeopleCurrent(req[r])'
      BY <2>2, <3>1, <3>2 DEF PeopleCurrent
    <3> QED BY <1>h, <2>0, <3>3 DEF db
  <2> QED BY <1>7, <2>1, <2>2 DEF ImportLookup, ImportInsert
<1>8. CASE ImportSave(r)
  <2>1. req'[r] = Idle /\ req[r].at = "import.save"
    BY <1>0, <1>8 DEF ImportSave, Return, Slots
  <2>2. req[r].created \in Seq(Numbers)
    BY <1>0, <2>1 DEF PeopleCarries, ImportLabels, ImportSound, Import
  <2>3. PICK n \in Nat : n = Len(req[r].created)
    BY <2>2
  <2>4. /\ Len(students) \in Nat /\ Ids' = 1..(Len(students) + n) /\ Ids = 1..Len(students)
        /\ \A i \in Ids : history'[i] = history[i]
        /\ \A k \in 1..n : \E s \in Statuses : history'[Len(students) + k] = NewHistory(s)
    <3>1. Len(history) = Len(students)
      BY <1>0 DEF StudentRows
    <3>2. StudentRows /\ n = Len(req[r].created)
      BY <1>0, <2>3
    <3>3. /\ Len(students) \in Nat /\ Ids' = 1..(Len(students) + n)
          /\ Ids = 1..Len(students) /\ \A i \in DOMAIN history : history'[i] = history[i]
          /\ \A k \in 1..n : \E s \in Statuses : history'[Len(history) + k] = NewHistory(s)
      BY <1>8, <2>2, <3>2, ImportedRows
    <3> QED BY <1>0, <3>1, <3>3
  <2>5. ASSUME NEW i \in Ids' PROVE Chain(history'[i])
    <3>1. CASE i \in Ids
      BY <1>0, <2>4, <3>1 DEF Chains
    <3>2. CASE i \notin Ids
      <4>1. i - Len(students) \in 1..n /\ i = Len(students) + (i - Len(students))
        BY <2>4, <3>2
      <4>2. \E s \in Statuses : history'[i] = NewHistory(s)
        BY <2>4, <4>1
      <4> QED BY <4>2, FirstChain DEF NewHistory
    <3> QED BY <3>1, <3>2
  <2> QED BY <1>i, <1>s, <2>1, <2>5 DEF Chains
<1> QED BY <1>1, <1>2, <1>3, <1>4, <1>5, <1>6, <1>7, <1>8 DEF Step, FilingStep, ImportStep

\* So does every handler of employees.
LEMMA StaffChains ==
  ASSUME PeopleInv, ChainInv, NEW r \in Requests, StaffStep(r) \/ PapersStep(r), UNCHANGED db,
         OneAtATime
  PROVE  Chains' /\ PeopleCurrent(req[r])'
<1>0. /\ OnlySlot(r, StaffLabels) /\ Slots /\ StaffRows /\ PeopleCarries(req[r])
      /\ Chains /\ PeopleCurrent(req[r]) /\ DOMAIN careers = Staff
  BY StaffSlot, StaffNumbers DEF PeopleInv, ChainInv
<1>s. \A i \in Ids' : Chain(history'[i])
  BY <1>0 DEF Chains, db, Ids
<1>h. ASSUME UNCHANGED <<employees, careers>> PROVE Chains'
  BY <1>0, <1>h, <1>s DEF Chains, Staff
<1>i. ASSUME req'[r] = Idle PROVE PeopleCurrent(req[r])'
  BY <1>i, OthersCurrent DEF Idle
<1>1. ASSUME NEW row \in Hired, NEW withProfile, CreateEmployee(r, row, withProfile)
      PROVE  Chains' /\ PeopleCurrent(req[r])'
  <2> DEFINE first == <<[from |-> Null, to |-> row.status]>>
  <2>1. employees' = Append(employees, row) /\ careers' = Append(careers, first) /\ req'[r] = Idle
    BY <1>1 DEF CreateEmployee
  <2>2. Chain(first) /\ first \in Seq(EmployeeStatusHistory) /\ row \in Employee
    <3>1. row \in Employee /\ row.status \in Statuses
      BY EmployeesAssumption DEF Employee
    <3> QED BY <3>1, FirstChain, FirstChange DEF EmployeeStatusHistory, StatusChange
  <2> HIDE DEF first
  <2>3. /\ Staff' = Staff \cup {Len(careers) + 1} /\ careers'[Len(careers) + 1] = first
        /\ \A i \in Staff : careers'[i] = careers[i]
    <3>1. /\ careers \in Seq(Seq(EmployeeStatusHistory)) /\ employees \in Seq(Employee)
          /\ Len(careers) = Len(employees)
      BY <1>0 DEF StaffRows
    <3>2. /\ DOMAIN employees' = DOMAIN employees \cup {Len(employees) + 1}
          /\ \A i \in DOMAIN careers : careers'[i] = careers[i]
          /\ careers'[Len(careers) + 1] = first
      BY <2>1, <2>2, <3>1, RowAppended
    <3> QED BY <1>0, <3>1, <3>2 DEF Staff
  <2> QED BY <1>0, <1>i, <1>s, <2>1, <2>2, <2>3 DEF Chains
<1>2. ASSUME NEW i \in Staff, NEW new, NEW withProfile, EmployeeLoad(r, i, new, withProfile)
      PROVE  Chains' /\ PeopleCurrent(req[r])'
  <2>1. /\ UNCHANGED staff /\ req'[r].id = i /\ req'[r].row = employees[i]
        /\ req'[r].at \in {"employee.profile", "employee.save"}
    <3>1. PICK l : l \in {"employee.profile", "employee.save"} /\
                   Begin(r, [at |-> l, id |-> i, row |-> employees[i], new |-> new, profile |-> Null])
      BY <1>2 DEF EmployeeLoad
    <3>2. UNCHANGED staff
      BY <1>2 DEF EmployeeLoad
    <3> QED BY <1>0, <3>1, <3>2 DEF Begin, Slots
  <2> QED BY <1>h, <2>1 DEF staff, PeopleCurrent
<1>3. CASE ProfileFind(r)
  <2>1. PICK t \in EmployeeUpdate : t = req[r] /\ t.at = "employee.profile" /\ t.row = employees[t.id]
    BY <1>0, <1>3 DEF ProfileFind, PeopleCarries, PeopleCurrent
  <2>2. UNCHANGED staff /\ req'[r] = [t EXCEPT !.at = "employee.save", !.profile = profiles[t.id]]
    BY <1>0, <1>3, <2>1 DEF ProfileFind, Continue, Slots
  <2>3. req'[r].at = "employee.save" /\ req'[r].id = t.id /\ req'[r].row = t.row
    BY <2>2 DEF EmployeeUpdate
  <2> QED BY <1>h, <2>1, <2>2, <2>3 DEF staff, PeopleCurrent
<1>4. CASE EmployeeSave(r)
  <2>1. req'[r] = Idle
    BY <1>0, <1>4 DEF EmployeeSave, Return, Slots
  <2> QED BY <1>0, <1>4, <1>i, <1>s, <2>1, EmployeeSaveChains DEF Chains
<1>5. ASSUME NEW i, NEW active, AssignTeacher(r, i, active) PROVE Chains' /\ PeopleCurrent(req[r])'
  <2>1. UNCHANGED staff /\ req'[r].at = "assignment.save"
    BY <1>0, <1>5 DEF AssignTeacher, Begin, Slots
  <2> QED BY <1>h, <2>1, OthersCurrent DEF staff
<1>6. ASSUME NEW i, AddEmployeeNote(r, i) \/ AddEmployeeDocument(r, i)
      PROVE  Chains' /\ PeopleCurrent(req[r])'
  <2>1. UNCHANGED staff /\ req'[r].at = "paper.save"
    BY <1>0, <1>6 DEF AddEmployeeNote, AddEmployeeDocument, PaperLoad, Begin, Slots
  <2> QED BY <1>h, <2>1, OthersCurrent DEF staff
<1>7. CASE AssignTeacherSave(r) \/ PaperSave(r)
  <2>1. req'[r] = Idle /\ UNCHANGED <<employees, careers>>
    BY <1>0, <1>7 DEF AssignTeacherSave, PaperSave, Return, Slots
  <2> QED BY <1>h, <1>i, <2>1
<1> QED BY <1>1, <1>2, <1>3, <1>4, <1>5, <1>6, <1>7 DEF StaffStep, PapersStep

\* The others' slots are not used.
LEMMA ChainsKeptByStep ==
  ASSUME ChainInv, NEW r \in Requests, NEW labels, OnlySlot(r, labels), "unused" \notin labels,
         OneAtATime => Chains' /\ PeopleCurrent(req[r])'
  PROVE  ChainInv'
<1> SUFFICES ASSUME OneAtATime' PROVE Chains' /\ \A p \in Requests : PeopleCurrent(req[p])'
  BY DEF ChainInv
<1>1. OneAtATime /\ \A p \in Requests \ {r} : req'[p] = Unused
  BY OneSlot
<1> QED BY <1>1 DEF PeopleCurrent, Unused

\* Every step keeps the chains.
LEMMA ChainInvStep == PeopleInv /\ ChainInv /\ [DirectoryNext]_directoryVars => ChainInv'
<1> SUFFICES ASSUME PeopleInv, ChainInv, [DirectoryNext]_directoryVars PROVE ChainInv'
  OBVIOUS
<1>1. ASSUME UNCHANGED <<db, staff, req>> PROVE ChainInv'
  <2>1. /\ req' = req /\ Ids' = Ids /\ Staff' = Staff
        /\ UNCHANGED <<students, history, employees, careers>>
    BY <1>1 DEF db, staff, Ids, Staff
  <2>2. Chains => Chains'
    BY <2>1 DEF Chains
  <2>3. \A r \in Requests : PeopleCurrent(req[r]) => PeopleCurrent(req[r])'
    BY <2>1 DEF PeopleCurrent, Known
  <2> QED BY <2>1, <2>2, <2>3 DEF ChainInv, OneAtATime
<1>2. CASE UNCHANGED directoryVars
  BY <1>1, <1>2 DEF directoryVars
<1>3. CASE DirectoryNext
  <2>1. ASSUME UNCHANGED staff, NEW r \in Requests, Step(r) \/ FilingStep(r) PROVE ChainInv'
    <3>1. OnlySlot(r, StudentLabels) /\ "unused" \notin StudentLabels
      BY <2>1, StudentSlot DEF PeopleInv, StudentLabels, ImportLabels
    <3> QED BY <2>1, <3>1, StudentChains, ChainsKeptByStep
  <2>2. ASSUME UNCHANGED db, NEW r \in Requests, StaffStep(r) \/ PapersStep(r) PROVE ChainInv'
    <3>1. OnlySlot(r, StaffLabels) /\ "unused" \notin StaffLabels
      BY <2>2, StaffSlot DEF PeopleInv, StaffLabels
    <3> QED BY <2>2, <3>1, StaffChains, ChainsKeptByStep
  <2>3. CASE UNCHANGED <<db, staff, req>>
    BY <1>1, <2>3
  <2> QED BY <1>3, <2>1, <2>2, <2>3, DirectorySteps
<1> QED BY <1>2, <1>3

\* The chains end in the status of their row, by the inductive invariant.
LEMMA ChainsFromInv == PeopleInv /\ ChainInv => HistoriesAreChains
<1> SUFFICES ASSUME PeopleInv, ChainInv PROVE HistoriesAreChains
  OBVIOUS
<1>1. HistoryEndsAtStatus
  BY DEF PeopleInv, StudentRows, HistoryEndsAtStatus
<1>2. HistoryIsChain
  BY DEF ChainInv, Chains, Chain, HistoryIsChain
<1>3. CareersAreChains
  BY DEF PeopleInv, StaffRows, ChainInv, Chains, Chain, CareersAreChains
<1> QED BY <1>1, <1>2, <1>3 DEF HistoriesAreChains

\* A student's or an employee's history ends at the status, with any number of requests in
\* flight; with one request at a time it has no gaps.
THEOREM HistoriesAreChainsCorrect == DirectorySpec => []HistoriesAreChains
BY PeopleInvInit, PeopleInvStep, ChainInvInit, ChainInvStep, ChainsFromInv, PTL DEF DirectorySpec

-----------------------------------------------------------------------------
(* Imports, with one request at a time.                                        *)

\* An import of numbers that no deleted student has ends at its commit, and by then every
\* number is created or reported.
LEMMA ImportEnds ==
  ASSUME PeopleInv, ChainInv, DirectoryNext, NEW r \in Requests, OneAtATime, Ends(r),
         NoneOfDeleted(req[r])
  PROVE  ImportSave(r) /\ ImportCovers(req[r], req[r].errors)
<1> DEFINE x == req[r]
<1>0. /\ Slots /\ StudentRows /\ ImportSound(x) /\ x \in Import /\ PeopleCurrent(x)
      /\ x.at \in {"import.insert", "import.save"} /\ req'[r] = Idle
      /\ \A p \in Requests \ {r} : req[p] = Unused
  <2>1. x.at \in {"import.insert", "import.save"} /\ req'[r] = Idle
    BY DEF Ends
  <2>2. x # Unused
    BY <2>1 DEF Unused
  <2>3. \A p \in Requests \ {r} : req[p] = Unused
    BY <2>2 DEF OneAtATime
  <2> QED BY <2>1, <2>3 DEF PeopleInv, PeopleCarries, ImportLabels, ImportSound, ChainInv
<1>1. \E p \in Requests : Step(p) \/ FilingStep(p)
  <2>1. CASE UNCHANGED req
    BY <1>0, <2>1 DEF Idle
  <2>2. ASSUME NEW p \in Requests, StaffStep(p) \/ PapersStep(p) PROVE FALSE
    BY <1>0, <2>2, StaffSlot DEF OnlySlot, StaffLabels, Idle
  <2> QED BY <2>1, <2>2, DirectorySteps
<1>2. Step(r) \/ FilingStep(r)
  <2>1. PICK p \in Requests : Step(p) \/ FilingStep(p)
    BY <1>1
  <2>2. OnlySlot(p, StudentLabels)
    BY <1>0, <2>1, StudentSlot
  <2>3. p = r
    BY <1>0, <2>2 DEF OnlySlot, Idle
  <2> QED BY <2>1, <2>3
<1>3. ImportInsert(r) \/ ImportAbort(r) \/ ImportSave(r)
  <2>1. /\ x.at \notin {"idle", "update.save", "delete.save", "file.save", "import.lookup"}
        /\ req[r] # Idle
    BY <1>0 DEF Idle
  <2>2. \A i, n, s, kind : ~Create(r, n, s) /\ ~UpdateLoad(r, i, n, s) /\ ~DeleteLoad(r, i)
                           /\ ~ImportStart(r, n) /\ ~FileLoad(r, i, kind)
    BY <2>1 DEF Create, UpdateLoad, DeleteLoad, ImportStart, FileLoad, Begin
  <2>3. ~UpdateSave(r) /\ ~DeleteSave(r) /\ ~FileSave(r) /\ ~ImportLookup(r)
    BY <2>1 DEF UpdateSave, DeleteSave, FileSave, ImportLookup
  <2>4. \A i : ~AddGuardian(r, i) /\ ~AddNote(r, i) /\ ~AddDocument(r, i) /\ ~EnrollStudent(r, i)
    BY <2>2 DEF AddGuardian, AddNote, AddDocument, EnrollStudent
  <2> HIDE DEF x
  <2> QED BY <1>2, <2>2, <2>3, <2>4 DEF Step, FilingStep, ImportStep
<1>4. ~ImportInsert(r)
  <2> SUFFICES ASSUME ImportInsert(r) PROVE FALSE
    OBVIOUS
  <2>1. PICK created, errors : req'[r] = Advanced(x, created, errors)
    BY <1>0 DEF ImportInsert, Continue, Slots
  <2> QED BY <1>0, <2>1, AdvancedLabel DEF Slots, Idle
<1>5. ~ImportAbort(r)
  <2> SUFFICES ASSUME ImportAbort(r) PROVE FALSE
    OBVIOUS
  <2>1. x.at = "import.insert" /\ ~Known(x.number)
    BY <1>0 DEF ImportAbort, PeopleCurrent
  <2>2. x.number \in Range(x.asked)
    <3>1. /\ x.asked \in Seq(Numbers) /\ Len(x.asked) \in Nat /\ Len(x.rest) \in Nat
          /\ Len(x.rest) < Len(x.asked)
      BY <1>0 DEF ImportSound, Import
    <3>a. x.number = x.asked[Place(x)]
      <4>1. PICK z : z = x
        OBVIOUS
      <4>2. ImportSound(z) /\ z.at # "import.save"
        BY <1>0, <2>1, <4>1
      <4> HIDE DEF x
      <4>3. z.number = z.asked[Place(z)]
        BY ONLY <4>2 DEF ImportSound
      <4> QED BY <4>1, <4>3
    <3>b. Place(x) \in 1..Len(x.asked) /\ DOMAIN x.asked = 1..Len(x.asked)
      <4>1. PICK m \in Nat, l \in Nat : m = Len(x.asked) /\ l = Len(x.rest) /\ l < m
        BY <3>1
      <4>2. Place(x) = m - l
        BY <4>1 DEF Place
      <4>3. m - l \in 1..m
        <5>1. l < m /\ m \in Nat /\ l \in Nat
          BY <4>1
        <5> QED BY ONLY <5>1
      <4>4. DOMAIN x.asked = 1..Len(x.asked)
        BY <3>1
      <4> QED BY <4>1, <4>2, <4>3, <4>4
    <3>2. x.number = x.asked[Place(x)] /\ Place(x) \in DOMAIN x.asked
      BY <3>a, <3>b
    <3> QED BY <3>2 DEF Range
  <2>3. ~Taken(x.number, Ids)
    BY <2>1, <2>2 DEF NoneOfDeleted, Known, Taken
  <2>4. ~InCycle(r)
    BY <1>0 DEF InCycle, WaitsFor, Importing, Unused
  <2> QED BY <2>3, <2>4 DEF ImportAbort
<1>6. ImportSave(r)
  BY <1>3, <1>4, <1>5
<1>7. ImportCovers(x, x.errors)
  <2>1. /\ x.created \in Seq(Numbers) /\ x.at = "import.save"
        /\ Range(x.asked) \subseteq x.errors \cup Range(x.created)
    <3>1. x.at = "import.save"
      BY <1>6 DEF ImportSave
    <3> QED BY <1>0, <3>1 DEF ImportSound, Import
  <2>2. PICK n \in Nat : n = Len(x.created) /\ DOMAIN x.created = 1..n
    BY <2>1
  <2>3. /\ Len(students) \in Nat /\ DOMAIN students' = 1..(Len(students) + n)
        /\ \A k \in 1..n : \E s \in Statuses : students'[Len(students) + k] = NewRow(x.created[k], s)
    <3>1. /\ Len(students) \in Nat /\ Ids' = 1..(Len(students) + n)
          /\ \E given \in [1..n -> Statuses] : \A k \in 1..n :
               students'[Len(students) + k] = NewRow(x.created[k], given[k])
      BY <1>0, <1>6, <2>1, <2>2, ImportedRows
    <3>2. PICK given \in [1..n -> Statuses] : \A k \in 1..n :
            students'[Len(students) + k] = NewRow(x.created[k], given[k])
      BY <3>1
    <3>3. \A k \in 1..n : given[k] \in Statuses
      BY <3>2
    <3> QED BY <3>1, <3>2, <3>3 DEF Ids
  <2>4. \A k \in 1..n : \E i \in DOMAIN students' : students'[i].number = x.created[k]
    <3> SUFFICES ASSUME NEW k \in 1..n
                 PROVE  \E i \in DOMAIN students' : students'[i].number = x.created[k]
      OBVIOUS
    <3>1. Len(students) + k \in 1..(Len(students) + n)
      <4>1. Len(students) \in Nat
        BY <2>3
      <4> QED BY ONLY <4>1, n \in Nat, k \in 1..n
    <3>a. Len(students) + k \in DOMAIN students'
      BY <2>3, <3>1
    <3>2. students'[Len(students) + k].number = x.created[k]
      <4>1. \A c, s : NewRow(c, s).number = c
        BY DEF NewRow
      <4> QED BY <2>3, <4>1
    <3> QED BY <3>a, <3>2
  <2>5. Range(x.created) = {x.created[k] : k \in 1..n}
    BY <2>2 DEF Range
  <2> HIDE DEF x
  <2> QED BY <2>1, <2>4, <2>5 DEF ImportCovers
<1> QED BY <1>6, <1>7

\* An import that is alone and was asked for fresh numbers saves all rows
\* without an error.
LEMMA ImportEndsStep ==
  ASSUME PeopleInv, ChainInv, [DirectoryNext]_directoryVars
  PROVE  [\A r \in Requests : OneAtATime /\ Ends(r) /\ NoneOfDeleted(req[r])
            => ImportSave(r) /\ ImportCovers(req[r], req[r].errors)]_vars
<1>1. CASE DirectoryNext
  BY <1>1, ImportEnds
<1>2. CASE UNCHANGED directoryVars
  BY <1>2 DEF directoryVars, vars, db
<1> QED BY <1>1, <1>2

\* With one request at a time, an import that lists no number of a deleted student is not lost: it
\* ends with its commit, and every number is created or reported.
THEOREM ImportOfFreshNumbersCorrect == DirectorySpec => ImportOfFreshNumbers
<1>1. /\ PeopleInv /\ ChainInv /\ [DirectoryNext]_directoryVars
      => [\A r \in Requests : OneAtATime /\ Ends(r) /\ NoneOfDeleted(req[r])
            => ImportSave(r) /\ ImportCovers(req[r], req[r].errors)]_vars
  BY ImportEndsStep
<1> QED BY <1>1, PeopleInvInit, PeopleInvStep, ChainInvInit, ChainInvStep, PTL
           DEF DirectorySpec, ImportOfFreshNumbers

-----------------------------------------------------------------------------
(* Sorted sequences.  An order is a set of pairs; the first of each pair comes *)
(* before the second.                                                         *)

\* A strict linear order of a set.
IsOrder(R, S) ==
  /\ \A i \in S : <<i, i>> \notin R
  /\ \A i, j \in S : i # j => <<i, j>> \in R \/ <<j, i>> \in R
  /\ \A i, j, k \in S : <<i, j>> \in R /\ <<j, k>> \in R => <<i, k>> \in R

\* A sequence in that order.
SortedBy(s, R) == \A i, j \in DOMAIN s : i < j => <<s[i], s[j]>> \in R

\* A finite set has a last element in an order of it.
LEMMA LastInOrder ==
  ASSUME NEW S, IsFiniteSet(S), S # {}, NEW R, IsOrder(R, S)
  PROVE  \E m \in S : \A n \in S \ {m} : <<n, m>> \in R
<1> DEFINE T == {s \in SUBSET S : s # {} /\ ~ \E m \in s : \A n \in s \ {m} : <<n, m>> \in R}
<1>a. SUFFICES ASSUME T # {} PROVE FALSE
  OBVIOUS
<1>1. PICK s \in T : \A t \in T : t \subseteq s => t = s
  <2>1. T \in SUBSET SUBSET S /\ IsFiniteSet(S)
    OBVIOUS
  <2> HIDE DEF T
  <2> QED BY ONLY <1>a, <2>1, Smallest
<1>2. PICK x \in s : TRUE
  OBVIOUS
<1>3. CASE s \ {x} = {}
  BY <1>2, <1>3
<1>4. CASE s \ {x} # {}
  <2>1. s \ {x} \notin T
    BY <1>1, <1>2
  <2>2. PICK m \in s \ {x} : \A n \in (s \ {x}) \ {m} : <<n, m>> \in R
    BY <1>4, <2>1
  <2>3. /\ s \subseteq S /\ m \in S /\ x \in S /\ m # x
        /\ ~ \E l \in s : \A n \in s \ {l} : <<n, l>> \in R
    OBVIOUS
  <2>4. CASE <<x, m>> \in R
    BY <2>2, <2>3, <2>4
  <2>5. CASE <<m, x>> \in R
    <3>1. \A n \in s \ {x} : <<n, x>> \in R
      BY <2>2, <2>3, <2>5 DEF IsOrder
    <3> QED BY <1>2, <2>3, <3>1
  <2> QED BY <2>3, <2>4, <2>5 DEF IsOrder
<1> QED BY <1>3, <1>4

\* The sequences of a finite set's elements, each of them once.
LEMMA SeqsOfSet ==
  ASSUME NEW S, IsFiniteSet(S), NEW s \in SetToSeqs(S)
  PROVE  /\ s \in Seq(S) /\ Len(s) = Cardinality(S) /\ Len(s) \in Nat /\ DOMAIN s = 1..Len(s)
         /\ IsInjective(s) /\ Range(s) = S
<1> DEFINE n == Cardinality(S)
<1>1. n \in Nat
  BY FS_CardinalityType
<1>2. s \in [1..n -> S] /\ \A i, j \in 1..n : i # j => s[i] # s[j]
  BY DEF SetToSeqs
<1> HIDE DEF n
<1>3. s \in Seq(S) /\ Len(s) = n /\ DOMAIN s = 1..Len(s)
  BY <1>1, <1>2
<1>4. s \in Injection(1..n, S) /\ IsInjective(s)
  BY <1>2 DEF Injection, IsInjective
<1>5. Cardinality(1..n) = n
  BY <1>1, FS_Interval
<1>6. s \in Surjection(1..n, S)
  BY <1>4, <1>5, FS_Injection DEF n
<1>7. Range(s) = S
  BY <1>2, <1>6 DEF Surjection, Range
<1> QED BY <1>1, <1>3, <1>4, <1>7 DEF n

\* A finite set can be sorted.
LEMMA SortedExists ==
  ASSUME NEW S, IsFiniteSet(S), NEW R, IsOrder(R, S)
  PROVE  \E s \in SetToSeqs(S) : SortedBy(s, R)
<1> DEFINE T == {u \in SUBSET S : ~ \E s \in SetToSeqs(u) : SortedBy(s, R)}
<1>a. SUFFICES ASSUME T # {} PROVE FALSE
  OBVIOUS
<1>1. PICK u \in T : \A t \in T : t \subseteq u => t = u
  <2>1. T \in SUBSET SUBSET S /\ IsFiniteSet(S)
    OBVIOUS
  <2> HIDE DEF T
  <2> QED BY ONLY <1>a, <2>1, Smallest
<1>2. u \subseteq S /\ IsFiniteSet(u) /\ IsOrder(R, u)
  <2>1. u \in SUBSET S
    OBVIOUS
  <2> QED BY <2>1, FS_Subset DEF IsOrder
<1>3. CASE u = {}
  <2>1. << >> \in SetToSeqs(u)
    BY <1>3, FS_EmptySet DEF SetToSeqs
  <2>2. SortedBy(<< >>, R)
    BY DEF SortedBy
  <2> QED BY <2>1, <2>2
<1>4. CASE u # {}
  <2>1. PICK m \in u : \A k \in u \ {m} : <<k, m>> \in R
    BY <1>2, <1>4, LastInOrder
  <2> DEFINE v == u \ {m}
             n == Cardinality(v)
  <2>2. v \notin T
    BY <1>1, <2>1
  <2>3. PICK s \in SetToSeqs(v) : SortedBy(s, R)
    BY <2>2
  <2>4. n \in Nat /\ Cardinality(u) = n + 1
    <3>1. IsFiniteSet(v) /\ Cardinality(v) = Cardinality(u) - 1 /\ Cardinality(u) \in Nat
      BY <1>2, FS_RemoveElement, FS_CardinalityType
    <3>2. Cardinality(v) \in Nat
      BY <3>1, FS_CardinalityType
    <3> QED BY <3>1, <3>2
  <2>5. s \in [1..n -> v] /\ \A i, j \in 1..n : i # j => s[i] # s[j]
    BY DEF SetToSeqs
  <2> HIDE DEF n
  <2> DEFINE t == [i \in 1..(n + 1) |-> IF i = n + 1 THEN m ELSE s[i]]
  <2>6. /\ t \in [1..(n + 1) -> u] /\ t[n + 1] = m
        /\ \A i \in 1..(n + 1) : i # n + 1 => i \in 1..n /\ t[i] = s[i] /\ t[i] \in v
    BY <2>4, <2>5
  <2> HIDE DEF t
  <2>7. \A i, j \in 1..(n + 1) : i # j => t[i] # t[j]
    BY <2>5, <2>6
  <2>8. t \in SetToSeqs(u)
    BY <2>4, <2>6, <2>7 DEF SetToSeqs
  <2>9. SortedBy(t, R)
    <3> SUFFICES ASSUME NEW i \in 1..(n + 1), NEW j \in 1..(n + 1), i < j
                 PROVE  <<t[i], t[j]>> \in R
      BY <2>6 DEF SortedBy
    <3>1. i # n + 1
      BY <2>4
    <3>2. CASE j = n + 1
      BY <2>1, <2>6, <3>1, <3>2
    <3>3. CASE j # n + 1
      BY <2>3, <2>5, <2>6, <3>1, <3>3 DEF SortedBy
    <3> QED BY <3>2, <3>3
  <2> QED BY <2>8, <2>9
<1> QED BY <1>3, <1>4

-----------------------------------------------------------------------------
(* Lists.                                                                     *)

\* The beginning of a sorted finite set: what it leaves out comes later.
LEMMA FirstExist ==
  ASSUME NEW S, IsFiniteSet(S), NEW R, IsOrder(R, S), NEW n \in Nat, n <= Cardinality(S)
  PROVE  \E s \in [1..n -> S] : \A i \in 1..n :
           /\ \A j \in 1..n : i < j => <<s[i], s[j]>> \in R
           /\ \A x \in S \ Range(s) : <<s[i], x>> \in R
<1>1. PICK t \in SetToSeqs(S) : SortedBy(t, R)
  BY SortedExists
<1>2. /\ t \in Seq(S) /\ Len(t) = Cardinality(S) /\ Len(t) \in Nat /\ DOMAIN t = 1..Len(t)
      /\ Range(t) = S
  BY SeqsOfSet
<1>3. \A i \in 1..n : i \in DOMAIN t /\ t[i] \in S
  BY <1>2
<1>4. PICK s \in [1..n -> S] : \A i \in 1..n : s[i] = t[i]
  <2>1. [i \in 1..n |-> t[i]] \in [1..n -> S]
    BY <1>3
  <2> QED BY <2>1
<1>5. \A i, j \in 1..n : i < j => <<s[i], s[j]>> \in R
  BY <1>1, <1>3, <1>4 DEF SortedBy
<1>6. ASSUME NEW i \in 1..n, NEW x \in S \ Range(s) PROVE <<s[i], x>> \in R
  <2>1. PICK k \in DOMAIN t : x = t[k]
    BY <1>2 DEF Range
  <2>2. k \notin 1..n
    BY <1>4, <1>6, <2>1 DEF Range
  <2>3. i < k
    BY <1>2, <2>2
  <2> QED BY <1>1, <1>3, <1>4, <2>1, <2>3 DEF SortedBy
<1> QED BY <1>5, <1>6

\* The tables of a listing begin well typed.
LEMMA ListingsTypeInit == DirectoryInit => ListingsTypeOK
BY DEF DirectoryInit, ListingsInit, ListingsTypeOK

\* Rows stay, and keep the time at which they were created, but for classes that move.
RowsStay == /\ DOMAIN rows \subseteq DOMAIN rows' /\ moved \subseteq moved'
            /\ \A id \in DOMAIN rows : id \in moved' \/ rows'[id].at = rows[id].at

\* What holds of the rows of a client's list.
RowsListed ==
  /\ ListingsTypeOK /\ steady \cap moved = {} /\ \A id \in steady : rows[id].matches > 0
  /\ walk.list # "live_classes" => moved = {} /\ \A id \in DOMAIN rows : rows[id].matches <= 1

\* A row inserted, changed or moved: the client's list stays where it is.
LEMMA RowsWritten ==
  ASSUME RowsListed,
         \/ \E id \in 1 .. LastRow, at \in 0 .. Latest, column \in Columns :
              \E matches \in Matches(id) : RowInserted(id, at, column, matches)
         \/ \E id \in DOMAIN rows, column \in Columns :
              \E matches \in Matches(id) : RowChanged(id, column, matches)
         \/ \E id \in DOMAIN rows, at \in 0 .. Latest : ClassMoved(id, at)
  PROVE  RowsListed' /\ RowsStay /\ UNCHANGED walk /\ steady' \subseteq steady
<1>m. /\ \A k \in 1..LastRow : \A m \in Matches(k) :
           m \in Nat /\ (walk.list # "live_classes" => m <= 1)
      /\ \A k \in DOMAIN rows : rows[k] \in Row /\ rows[k].matches \in Nat /\ k \in 1..LastRow
  <2>1. \A k \in 1..LastRow : Joins[k] \in Nat \ {0}
    BY ListingsAssumption
  <2> QED BY <2>1 DEF Matches, RowsListed, ListingsTypeOK, Row
<1>1. ASSUME NEW id \in 1..LastRow, NEW at \in 0..Latest, NEW column \in Columns,
             NEW matches \in Matches(id), RowInserted(id, at, column, matches)
      PROVE  RowsListed' /\ RowsStay /\ UNCHANGED walk /\ steady' \subseteq steady
  <2> DEFINE row == [at |-> at, column |-> column, matches |-> matches]
  <2>1. row \in Row /\ row.matches = matches
    BY <1>m DEF Row
  <2>2. /\ DOMAIN rows' = DOMAIN rows \cup {id} /\ rows'[id] = row /\ id \notin DOMAIN rows
        /\ UNCHANGED <<walk, steady, moved>> /\ \A k \in DOMAIN rows : rows'[k] = rows[k]
    BY <1>1 DEF RowInserted
  <2> HIDE DEF row
  <2> QED BY <1>m, <2>1, <2>2 DEF RowsListed, ListingsTypeOK, RowsStay
<1>2. ASSUME NEW id \in DOMAIN rows, NEW column \in Columns, NEW matches \in Matches(id),
             RowChanged(id, column, matches)
      PROVE  RowsListed' /\ RowsStay /\ UNCHANGED walk /\ steady' \subseteq steady
  <2> DEFINE row == [at |-> rows[id].at, column |-> column, matches |-> matches]
  <2>1. row \in Row /\ row.matches = matches /\ row.at = rows[id].at
    BY <1>m DEF Row
  <2>2. rows' = [rows EXCEPT ![id] = row]
    BY <1>2 DEF RowChanged
  <2> HIDE DEF row
  <2>3. /\ DOMAIN rows' = DOMAIN rows /\ rows'[id] = row
        /\ \A k \in DOMAIN rows \ {id} : rows'[k] = rows[k]
    BY <2>2
  <2>4. UNCHANGED <<walk, moved>> /\ steady' = IF matches = 0 THEN steady \ {id} ELSE steady
    BY <1>2 DEF RowChanged
  <2>5. ListingsTypeOK'
    BY <2>1, <2>3, <2>4 DEF RowsListed, ListingsTypeOK
  <2>6. \A k \in steady' : rows'[k].matches > 0
    BY <1>m, <2>1, <2>3, <2>4 DEF RowsListed, ListingsTypeOK
  <2>7. RowsStay
    BY <2>1, <2>3, <2>4 DEF RowsStay
  <2> QED BY <1>m, <2>1, <2>3, <2>4, <2>5, <2>6, <2>7 DEF RowsListed
<1>3. ASSUME NEW id \in DOMAIN rows, NEW at \in 0..Latest, ClassMoved(id, at)
      PROVE  RowsListed' /\ RowsStay /\ UNCHANGED walk /\ steady' \subseteq steady
  <2> DEFINE row == [at |-> at, column |-> rows[id].column, matches |-> rows[id].matches]
  <2>1. row \in Row
    BY <1>m DEF Row
  <2>2. rows' = [rows EXCEPT ![id] = row]
    BY <1>3 DEF ClassMoved
  <2> HIDE DEF row
  <2>3. /\ DOMAIN rows' = DOMAIN rows /\ rows'[id] = row
        /\ \A k \in DOMAIN rows \ {id} : rows'[k] = rows[k]
    BY <2>2
  <2>4. /\ UNCHANGED walk /\ walk.list = "live_classes"
        /\ steady' = steady \ {id} /\ moved' = moved \cup {id}
    BY <1>3 DEF ClassMoved
  <2>5. ListingsTypeOK'
    BY <2>1, <2>3, <2>4 DEF RowsListed, ListingsTypeOK
  <2>6. \A k \in steady' : rows'[k].matches > 0
    BY <2>3, <2>4 DEF RowsListed, ListingsTypeOK
  <2>7. RowsStay
    BY <2>3, <2>4 DEF RowsStay
  <2> QED BY <2>4, <2>5, <2>6, <2>7 DEF RowsListed
<1> QED BY <1>1, <1>2, <1>3

\* The default orders: the newest first, but live classes in the order in which they start.
InOrder(q, i, j) == IF q.list = "live_classes" THEN LiveClassesBefore(i, j) ELSE Newer(i, j)

\* The rows that are left for the next page.
RowsLeft(q) == IF q.list = "live_classes" THEN Later(q) ELSE Older(q)

\* What the query of a page finds, and how it is sorted.
Result(q) == Found(RowsLeft(q))
Earlier(q, x, y) == InOrder(q, x[1], y[1]) \/ (x[1] = y[1] /\ x[2] < y[2])

\* The order of a listing's query, as a relation.
Order(q) == {p \in Result(q) \X Result(q) : Earlier(q, p[1], p[2])}

\* How long a page is.
PageSize(q) == IF Cardinality(Result(q)) > q.limit THEN q.limit ELSE Cardinality(Result(q))

\* The first of what a query finds, in its order.
IsFirst(q, s) ==
  /\ s \in [1..PageSize(q) -> Result(q)]
  /\ \A i \in DOMAIN s : /\ \A j \in DOMAIN s : i < j => Earlier(q, s[i], s[j])
                         /\ \A x \in Result(q) \ Range(s) : Earlier(q, s[i], x)

\* The page of these rows, with a cursor if there are more.
PageFrom(q, s) ==
  [items |-> s,
   cursor |-> IF Cardinality(Result(q)) > q.limit THEN EncodeCursor(Last(s)[1]) ELSE NoCursor]

\* A row that a client gets: an id, and which of its matches.
Entry == (1..LastRow) \X (Nat \ {0})

\* Rows have numbers and moments, and their cursors are cursors.
LEMMA TimesAndIds ==
  ASSUME ListingsTypeOK
  PROVE  /\ \A id \in DOMAIN rows :
              /\ rows[id].at \in 0..Latest /\ rows[id].at \in Nat
              /\ id \in 1..LastRow /\ id \in Nat /\ rows[id].matches \in Nat
         /\ \A id \in DOMAIN rows : EncodeCursor(id) # NoCursor
<1>1. ASSUME NEW id \in DOMAIN rows
      PROVE  /\ rows[id].at \in 0..Latest /\ rows[id].at \in Nat
             /\ id \in 1..LastRow /\ id \in Nat /\ rows[id].matches \in Nat
  <2>1. rows[id].at \in 0..Latest /\ id \in 1..LastRow /\ rows[id].matches \in Nat
    BY DEF ListingsTypeOK, Row
  <2> QED BY <2>1, ListingsAssumption
<1>2. ASSUME NEW id \in DOMAIN rows PROVE EncodeCursor(id) # NoCursor
  <2>1. EncodeCursor(id).at = rows[id].at /\ NoCursor.at = -1
    BY DEF EncodeCursor, NoCursor
  <2> QED BY <1>1, <2>1
<1> QED BY <1>1, <1>2

\* What a query finds are rows that are left, each once for every match.
LEMMA ResultIs ==
  ASSUME ListingsTypeOK, NEW q
  PROVE  /\ \A x \in Result(q) :
              /\ x \in Entry /\ x = <<x[1], x[2]>>
              /\ x[1] \in RowsLeft(q) /\ x[1] \in DOMAIN rows /\ x[2] \in 1..rows[x[1]].matches
         /\ \A id \in RowsLeft(q) : rows[id].matches > 0 => <<id, 1>> \in Result(q)
<1>1. RowsLeft(q) \subseteq DOMAIN rows
  BY DEF RowsLeft, Later, Older
<1>2. ASSUME NEW x \in Result(q)
      PROVE  /\ x \in Entry /\ x = <<x[1], x[2]>>
             /\ x[1] \in RowsLeft(q) /\ x[1] \in DOMAIN rows /\ x[2] \in 1..rows[x[1]].matches
  <2>1. PICK id \in RowsLeft(q) : x \in {id} \X (1..rows[id].matches)
    BY DEF Result, Found
  <2>2. x = <<x[1], x[2]>> /\ x[1] = id /\ x[2] \in 1..rows[id].matches
    BY <2>1
  <2>3. id \in 1..LastRow /\ rows[id].matches \in Nat /\ id \in DOMAIN rows
    BY <1>1, TimesAndIds
  <2>4. x[2] \in Nat \ {0}
    BY <2>2, <2>3
  <2> QED BY <2>2, <2>3, <2>4 DEF Entry
<1>3. ASSUME NEW id \in RowsLeft(q), rows[id].matches > 0 PROVE <<id, 1>> \in Result(q)
  <2>1. 1 \in 1..rows[id].matches
    BY <1>1, <1>3, TimesAndIds
  <2> QED BY <2>1 DEF Result, Found
<1> QED BY <1>2, <1>3

\* It is a linear order: rows of the same moment are told apart by their id.
LEMMA OrdersAreOrders ==
  ASSUME ListingsTypeOK, NEW q
  PROVE  /\ IsOrder(Order(q), Result(q)) /\ IsFiniteSet(Result(q))
         /\ \A x, y \in Result(q) : <<x, y>> \in Order(q) <=> Earlier(q, x, y)
<1>1. IsFiniteSet(Result(q))
  <2> DEFINE f == [id \in RowsLeft(q) |-> {id} \X (1..rows[id].matches)]
             T == {{id} \X (1..rows[id].matches) : id \in RowsLeft(q)}
  <2>1. RowsLeft(q) \in SUBSET (1..LastRow) /\ RowsLeft(q) \subseteq DOMAIN rows
    BY DEF RowsLeft, Later, Older, ListingsTypeOK
  <2>2. IsFiniteSet(RowsLeft(q))
    BY <2>1, ListingsAssumption, FS_Interval, FS_Subset
  <2>3. f \in Surjection(RowsLeft(q), T)
    BY DEF Surjection
  <2>4. IsFiniteSet(T)
    <3> HIDE DEF f, T
    <3> QED BY <2>2, <2>3, FS_Surjection
  <2>5. ASSUME NEW id \in RowsLeft(q) PROVE IsFiniteSet({id} \X (1..rows[id].matches))
    <3>1. PICK m \in Nat : m = rows[id].matches
      BY <2>1, TimesAndIds
    <3>2. IsFiniteSet({id})
      BY FS_Singleton
    <3>3. IsFiniteSet(1..m)
      BY FS_Interval
    <3>4. IsFiniteSet({id} \X (1..m))
      BY <3>2, <3>3, FS_Product
    <3> QED BY <3>1, <3>4
  <2>6. Result(q) = UNION T
    BY DEF Result, Found
  <2> QED BY <2>4, <2>5, <2>6, FS_UNION
<1>2. \A x, y \in Result(q) : <<x, y>> \in Order(q) <=> Earlier(q, x, y)
  BY DEF Order
<1>3. \A x \in Result(q) : /\ x = <<x[1], x[2]>> /\ x[1] \in Nat /\ x[2] \in Nat
                           /\ rows[x[1]].at \in Nat
  <2> SUFFICES ASSUME NEW x \in Result(q)
               PROVE  x = <<x[1], x[2]>> /\ x[1] \in Nat /\ x[2] \in Nat /\ rows[x[1]].at \in Nat
    OBVIOUS
  <2>1. /\ x = <<x[1], x[2]>> /\ x[1] \in DOMAIN rows /\ x[2] \in 1..rows[x[1]].matches
    BY ResultIs
  <2> QED BY <2>1, TimesAndIds
<1>4. IsOrder(Order(q), Result(q))
  <2>1. \A x \in Result(q) : ~Earlier(q, x, x)
    BY <1>3 DEF Earlier, InOrder, LiveClassesBefore, Newer
  <2>2. \A x, y \in Result(q) : x # y => Earlier(q, x, y) \/ Earlier(q, y, x)
    <3> SUFFICES ASSUME NEW x \in Result(q), NEW y \in Result(q), x # y
                 PROVE  Earlier(q, x, y) \/ Earlier(q, y, x)
      OBVIOUS
    <3>1. x[1] # y[1] \/ x[2] # y[2]
      BY <1>3
    <3> QED BY <1>3, <3>1 DEF Earlier, InOrder, LiveClassesBefore, Newer
  <2>3. \A x, y, z \in Result(q) : Earlier(q, x, y) /\ Earlier(q, y, z) => Earlier(q, x, z)
    <3> SUFFICES ASSUME NEW x \in Result(q), NEW y \in Result(q), NEW z \in Result(q),
                        Earlier(q, x, y), Earlier(q, y, z)
                 PROVE  Earlier(q, x, z)
      OBVIOUS
    <3> QED BY <1>3 DEF Earlier, InOrder, LiveClassesBefore, Newer
  <2> QED BY <1>2, <2>1, <2>2, <2>3 DEF IsOrder
<1> QED BY <1>1, <1>2, <1>4

\* A page of a list in its default order is the first of the rows that are left, sorted.
LEMMA PageIsFirst ==
  ASSUME ListingsTypeOK, NEW q, q.sort = "created_at", q.list \in Lists, q.limit \in Nat
  PROVE  \E s : IsFirst(q, s) /\ Page(q) = PageFrom(q, s)
<1>1. \E s : IsFirst(q, s)
  <2>1. PICK n \in Nat : n = PageSize(q) /\ n <= Cardinality(Result(q))
    BY OrdersAreOrders, FS_CardinalityType DEF PageSize
  <2>2. PICK s \in [1..n -> Result(q)] : \A i \in 1..n :
          /\ \A j \in 1..n : i < j => <<s[i], s[j]>> \in Order(q)
          /\ \A x \in Result(q) \ Range(s) : <<s[i], x>> \in Order(q)
    BY <2>1, OrdersAreOrders, FirstExist
  <2> QED BY <2>1, <2>2, OrdersAreOrders DEF IsFirst
<1>2. CASE q.list = "students"
  <2> DEFINE Sooner(x, y) == StudentsBefore(q.sort, x[1], y[1]) \/ (x[1] = y[1] /\ x[2] < y[2])
             more  == Cardinality(Found(Older(q))) > q.limit
             items == CHOOSE s \in [1 .. (IF more THEN q.limit ELSE Cardinality(Found(Older(q))))
                                     -> Found(Older(q))] :
                        \A i \in DOMAIN s :
                          /\ \A j \in DOMAIN s : i < j => Sooner(s[i], s[j])
                          /\ \A x \in Found(Older(q)) \ Range(s) : Sooner(s[i], x)
  <2>1. Result(q) = Found(Older(q)) /\ \A x, y : Sooner(x, y) <=> Earlier(q, x, y)
    BY <1>2 DEF Result, RowsLeft, StudentsBefore, InOrder, Earlier
  <2>2. PageFrom(q, items) = Page(q)
    BY <1>2, <2>1 DEF Page, StudentsPage, PageOf, PageFrom
  <2> HIDE DEF Sooner
  <2>3. IsFirst(q, items)
    BY <1>1, <2>1 DEF IsFirst, PageSize
  <2> HIDE DEF items
  <2> QED BY <2>2, <2>3
<1>3. CASE q.list = "employees"
  <2> DEFINE Sooner(x, y) == EmployeesBefore(q.sort, x[1], y[1]) \/ (x[1] = y[1] /\ x[2] < y[2])
             more  == Cardinality(Found(Older(q))) > q.limit
             items == CHOOSE s \in [1 .. (IF more THEN q.limit ELSE Cardinality(Found(Older(q))))
                                     -> Found(Older(q))] :
                        \A i \in DOMAIN s :
                          /\ \A j \in DOMAIN s : i < j => Sooner(s[i], s[j])
                          /\ \A x \in Found(Older(q)) \ Range(s) : Sooner(s[i], x)
  <2>1. Result(q) = Found(Older(q)) /\ \A x, y : Sooner(x, y) <=> Earlier(q, x, y)
    BY <1>3 DEF Result, RowsLeft, EmployeesBefore, InOrder, Earlier
  <2>2. PageFrom(q, items) = Page(q)
    BY <1>3, <2>1 DEF Page, EmployeesPage, PageOf, PageFrom
  <2> HIDE DEF Sooner
  <2>3. IsFirst(q, items)
    BY <1>1, <2>1 DEF IsFirst, PageSize
  <2> HIDE DEF items
  <2> QED BY <2>2, <2>3
<1>4. CASE q.list = "courses"
  <2> DEFINE Sooner(x, y) == CoursesBefore(q.sort, x[1], y[1]) \/ (x[1] = y[1] /\ x[2] < y[2])
             more  == Cardinality(Found(Older(q))) > q.limit
             items == CHOOSE s \in [1 .. (IF more THEN q.limit ELSE Cardinality(Found(Older(q))))
                                     -> Found(Older(q))] :
                        \A i \in DOMAIN s :
                          /\ \A j \in DOMAIN s : i < j => Sooner(s[i], s[j])
                          /\ \A x \in Found(Older(q)) \ Range(s) : Sooner(s[i], x)
  <2>1. Result(q) = Found(Older(q)) /\ \A x, y : Sooner(x, y) <=> Earlier(q, x, y)
    BY <1>4 DEF Result, RowsLeft, CoursesBefore, InOrder, Earlier
  <2>2. PageFrom(q, items) = Page(q)
    BY <1>4, <2>1 DEF Page, CoursesPage, PageOf, PageFrom
  <2> HIDE DEF Sooner
  <2>3. IsFirst(q, items)
    BY <1>1, <2>1 DEF IsFirst, PageSize
  <2> HIDE DEF items
  <2> QED BY <2>2, <2>3
<1>5. CASE q.list = "questions"
  <2> DEFINE Sooner(x, y) == QuestionsBefore(q.sort, x[1], y[1]) \/ (x[1] = y[1] /\ x[2] < y[2])
             more  == Cardinality(Found(Older(q))) > q.limit
             items == CHOOSE s \in [1 .. (IF more THEN q.limit ELSE Cardinality(Found(Older(q))))
                                     -> Found(Older(q))] :
                        \A i \in DOMAIN s :
                          /\ \A j \in DOMAIN s : i < j => Sooner(s[i], s[j])
                          /\ \A x \in Found(Older(q)) \ Range(s) : Sooner(s[i], x)
  <2>1. Result(q) = Found(Older(q)) /\ \A x, y : Sooner(x, y) <=> Earlier(q, x, y)
    BY <1>5 DEF Result, RowsLeft, QuestionsBefore, InOrder, Earlier
  <2>2. PageFrom(q, items) = Page(q)
    BY <1>5, <2>1 DEF Page, QuestionsPage, PageOf, PageFrom
  <2> HIDE DEF Sooner
  <2>3. IsFirst(q, items)
    BY <1>1, <2>1 DEF IsFirst, PageSize
  <2> HIDE DEF items
  <2> QED BY <2>2, <2>3
<1>6. CASE q.list = "question_sets"
  <2> DEFINE Sooner(x, y) == QuestionSetsBefore(q.sort, x[1], y[1]) \/ (x[1] = y[1] /\ x[2] < y[2])
             more  == Cardinality(Found(Older(q))) > q.limit
             items == CHOOSE s \in [1 .. (IF more THEN q.limit ELSE Cardinality(Found(Older(q))))
                                     -> Found(Older(q))] :
                        \A i \in DOMAIN s :
                          /\ \A j \in DOMAIN s : i < j => Sooner(s[i], s[j])
                          /\ \A x \in Found(Older(q)) \ Range(s) : Sooner(s[i], x)
  <2>1. Result(q) = Found(Older(q)) /\ \A x, y : Sooner(x, y) <=> Earlier(q, x, y)
    BY <1>6 DEF Result, RowsLeft, QuestionSetsBefore, InOrder, Earlier
  <2>2. PageFrom(q, items) = Page(q)
    BY <1>6, <2>1 DEF Page, QuestionSetsPage, PageOf, PageFrom
  <2> HIDE DEF Sooner
  <2>3. IsFirst(q, items)
    BY <1>1, <2>1 DEF IsFirst, PageSize
  <2> HIDE DEF items
  <2> QED BY <2>2, <2>3
<1>7. CASE q.list = "assessments"
  <2> DEFINE Sooner(x, y) == AssessmentsBefore(q.sort, x[1], y[1]) \/ (x[1] = y[1] /\ x[2] < y[2])
             more  == Cardinality(Found(Older(q))) > q.limit
             items == CHOOSE s \in [1 .. (IF more THEN q.limit ELSE Cardinality(Found(Older(q))))
                                     -> Found(Older(q))] :
                        \A i \in DOMAIN s :
                          /\ \A j \in DOMAIN s : i < j => Sooner(s[i], s[j])
                          /\ \A x \in Found(Older(q)) \ Range(s) : Sooner(s[i], x)
  <2>1. Result(q) = Found(Older(q)) /\ \A x, y : Sooner(x, y) <=> Earlier(q, x, y)
    BY <1>7 DEF Result, RowsLeft, AssessmentsBefore, InOrder, Earlier
  <2>2. PageFrom(q, items) = Page(q)
    BY <1>7, <2>1 DEF Page, AssessmentsPage, PageOf, PageFrom
  <2> HIDE DEF Sooner
  <2>3. IsFirst(q, items)
    BY <1>1, <2>1 DEF IsFirst, PageSize
  <2> HIDE DEF items
  <2> QED BY <2>2, <2>3
<1>8. CASE q.list = "live_classes"
  <2> DEFINE Sooner(x, y) == LiveClassesBefore(x[1], y[1]) \/ (x[1] = y[1] /\ x[2] < y[2])
             more  == Cardinality(Found(Later(q))) > q.limit
             items == CHOOSE s \in [1 .. (IF more THEN q.limit ELSE Cardinality(Found(Later(q))))
                                     -> Found(Later(q))] :
                        \A i \in DOMAIN s :
                          /\ \A j \in DOMAIN s : i < j => Sooner(s[i], s[j])
                          /\ \A x \in Found(Later(q)) \ Range(s) : Sooner(s[i], x)
  <2>1. Result(q) = Found(Later(q)) /\ \A x, y : Sooner(x, y) <=> Earlier(q, x, y)
    BY <1>8 DEF Result, RowsLeft, LiveClassesBefore, InOrder, Earlier
  <2>2. PageFrom(q, items) = Page(q)
    BY <1>8, <2>1 DEF Page, LiveClassesPage, PageOf, PageFrom
  <2> HIDE DEF Sooner
  <2>3. IsFirst(q, items)
    BY <1>1, <2>1 DEF IsFirst, PageSize
  <2> HIDE DEF items
  <2> QED BY <2>2, <2>3
<1> QED BY <1>2, <1>3, <1>4, <1>5, <1>6, <1>7, <1>8 DEF Lists

\* The row is strictly behind the cursor.
Beyond(q, id) ==
  IF q.list = "live_classes"
  THEN rows[id].at > q.cursor.at \/ (rows[id].at = q.cursor.at /\ id > q.cursor.id)
  ELSE rows[id].at < q.cursor.at \/ (rows[id].at = q.cursor.at /\ id < q.cursor.id)

\* The place of a row, which it may have left since.
Places == [at : 0..Latest, id : 1..LastRow]

\* The ids that a client got, and whether it got none of them twice but those of Gone.
IdsOf(s) == {x[1] : x \in Range(s)}
OnceBut(Gone, s) == \A i, j \in DOMAIN s : s[i] = s[j] => i = j \/ s[i][1] \in Gone

\* Where a client stands in a list: what it got is not behind its cursor, and what it has to get
\* is, though rows come and change; but classes that moved may be anywhere.
Stands(w, due, gone) ==
  /\ w.list \in Lists /\ w.limit \in Nat \ {0} /\ w.got \in Seq(Entry) /\ OnceBut(gone, w.got)
  /\ w.list # "live_classes" => \A x \in Range(w.got) : x[2] = 1
  /\ w.at = "end" => due \subseteq IdsOf(w.got)
  /\ w.at = "page" =>
       /\ w.cursor \in Places
       /\ \A id \in IdsOf(w.got) : id \in DOMAIN rows /\ (id \in gone \/ ~Beyond(w, id))
       /\ \A id \in due : id \in IdsOf(w.got) \/ Beyond(w, id)

\* The inductive invariant of a walk through a list.
ListingsInv ==
  /\ RowsListed
  /\ walk = [at |-> "none", list |-> walk.list] \/ walk.at \in {"page", "end"}
  /\ walk.at # "none" /\ walk.sort = "created_at" => Stands(walk, steady, moved)

\* Behind a row's cursor are the rows after it.
LEMMA BeyondRow ==
  ASSUME NEW q, NEW l \in DOMAIN rows, q.cursor = EncodeCursor(l), NEW id \in DOMAIN rows,
         ListingsTypeOK
  PROVE  Beyond(q, id) <=> InOrder(q, l, id)
<1>1. q.cursor.at = rows[l].at /\ q.cursor.id = l
  BY DEF EncodeCursor
<1>2. rows[l].at \in Nat /\ rows[id].at \in Nat /\ l \in Nat /\ id \in Nat
  BY TimesAndIds
<1> QED BY <1>1, <1>2 DEF Beyond, InOrder, LiveClassesBefore, Newer

\* The rows that are left are those behind the cursor.
LEMMA LeftIsBeyond ==
  ASSUME NEW q
  PROVE  RowsLeft(q) = {id \in DOMAIN rows : q.cursor = NoCursor \/ Beyond(q, id)}
BY DEF RowsLeft, Later, Older, Beyond

\* A page: the last one, with all that is left, or one with a cursor at its last row.
LEMMA PageOfRows ==
  ASSUME ListingsTypeOK, NEW q, q.sort = "created_at", q.list \in Lists, q.limit \in Nat \ {0}
  PROVE  \E items \in Seq(Entry) :
           /\ Page(q).items = items /\ IsInjective(items) /\ Range(items) \subseteq Result(q)
           /\ \/ Page(q).cursor = NoCursor /\ Range(items) = Result(q)
              \/ \E l \in DOMAIN rows :
                   /\ Page(q).cursor = EncodeCursor(l) /\ l \in IdsOf(items)
                   /\ \A id \in IdsOf(items) : id = l \/ InOrder(q, id, l)
                   /\ \A x \in Result(q) \ Range(items) : x[1] = l \/ InOrder(q, l, x[1])
<1>1. PICK items : IsFirst(q, items) /\ Page(q) = PageFrom(q, items)
  BY PageIsFirst
<1>2. PICK n \in Nat, c \in Nat : n = PageSize(q) /\ c = Cardinality(Result(q))
  BY OrdersAreOrders, FS_CardinalityType DEF PageSize
<1>3. items \in [1..n -> Result(q)] /\ DOMAIN items = 1..n
  BY <1>1, <1>2 DEF IsFirst
<1>4. /\ items \in Seq(Entry) /\ Len(items) = n /\ Range(items) \subseteq Result(q)
      /\ \A i \in 1..n : items[i] \in Result(q)
  <2>1. items \in [1..n -> Entry]
    BY <1>3, ResultIs
  <2> HIDE DEF Entry
  <2> QED BY <1>3, <2>1 DEF Range
<1>5. \A i, j \in 1..n : i < j => Earlier(q, items[i], items[j])
  BY <1>1, <1>3 DEF IsFirst
<1>6. \A x \in Result(q) : ~Earlier(q, x, x)
  BY OrdersAreOrders DEF IsOrder
<1>7. \A i, j \in 1..n : i # j => items[i] # items[j]
  <2> SUFFICES ASSUME NEW i \in 1..n, NEW j \in 1..n, i < j PROVE items[i] # items[j]
    OBVIOUS
  <2> QED BY <1>4, <1>5, <1>6
<1>8. IsInjective(items)
  BY <1>3, <1>7 DEF IsInjective
<1>9. Page(q).items = items
  BY <1>1 DEF PageFrom
<1>10. CASE ~(c > q.limit)
  <2>1. n = c /\ Page(q).cursor = NoCursor
    BY <1>1, <1>2, <1>10 DEF PageSize, PageFrom
  <2>2. items \in SetToSeqs(Result(q))
    BY <1>2, <1>3, <1>7, <2>1 DEF SetToSeqs
  <2>3. Range(items) = Result(q)
    BY <2>2, OrdersAreOrders, SeqsOfSet
  <2> QED BY <1>4, <1>8, <1>9, <2>1, <2>3
<1>11. CASE c > q.limit
  <2>1. n = q.limit /\ n \in 1..n
    BY <1>2, <1>11 DEF PageSize
  <2>2. PICK x, l : x = items[n] /\ l = x[1]
    OBVIOUS
  <2>3. Page(q).cursor = EncodeCursor(l)
    BY <1>1, <1>2, <1>4, <1>11, <2>1, <2>2 DEF PageFrom, Last
  <2>4. x \in Range(items) /\ x \in Result(q) /\ l \in DOMAIN rows /\ l \in IdsOf(items)
    BY <1>3, <1>4, <2>1, <2>2, ResultIs DEF Range, IdsOf
  <2>5. ASSUME NEW id \in IdsOf(items) PROVE id = l \/ InOrder(q, id, l)
    <3>1. PICK i \in 1..n : id = items[i][1]
      BY <1>3 DEF IdsOf, Range
    <3>2. CASE i = n
      BY <2>2, <3>1, <3>2
    <3>3. CASE i # n
      <4>1. Earlier(q, items[i], x)
        BY <1>5, <2>1, <2>2, <3>3
      <4> QED BY <2>2, <3>1, <4>1 DEF Earlier
    <3> QED BY <3>2, <3>3
  <2>6. ASSUME NEW y \in Result(q) \ Range(items) PROVE y[1] = l \/ InOrder(q, l, y[1])
    <3>1. Earlier(q, x, y)
      BY <1>1, <1>3, <2>1, <2>2 DEF IsFirst
    <3> QED BY <2>2, <3>1 DEF Earlier
  <2> QED BY <1>4, <1>8, <1>9, <2>3, <2>4, <2>5, <2>6
<1> QED BY <1>10, <1>11

\* The rows of a page after those that the client has.
LEMMA Joined ==
  ASSUME NEW S, NEW got \in Seq(S), NEW items \in Seq(S), NEW Gone, OnceBut(Gone, got),
         IsInjective(items), \A x \in Range(got) \cap Range(items) : x[1] \in Gone
  PROVE  /\ got \o items \in Seq(S) /\ OnceBut(Gone, got \o items)
         /\ Range(got \o items) = Range(got) \cup Range(items)
<1>1. PICK m \in Nat, n \in Nat : m = Len(got) /\ n = Len(items)
  OBVIOUS
<1>2. PICK all \in Seq(S) :
        /\ all = got \o items /\ DOMAIN all = 1..(m + n) /\ DOMAIN got = 1..m
        /\ DOMAIN items = 1..n /\ \A i \in 1..m : all[i] = got[i]
        /\ \A i \in 1..n : all[m + i] = items[i]
  <2>1. items \in [1..n -> S] /\ DOMAIN items = 1..n
    BY <1>1
  <2>2. /\ got \o items \in Seq(S) /\ DOMAIN (got \o items) = 1..(m + n) /\ DOMAIN got = 1..m
        /\ \A i \in DOMAIN got : (got \o items)[i] = got[i]
        /\ \A k \in 1..n : (got \o items)[m + k] = items[k]
    BY <1>1, <2>1, RowsAdded
  <2> QED BY <2>1, <2>2
<1>3. \A i \in DOMAIN all : i \in 1..m \/ \E k \in 1..n : i = m + k
  <2> SUFFICES ASSUME NEW i \in 1..(m + n), i \notin 1..m PROVE \E k \in 1..n : i = m + k
    BY <1>2
  <2>1. i - m \in 1..n /\ i = m + (i - m)
    OBVIOUS
  <2> QED BY <2>1
<1>4. \A k \in 1..n : m + k \in DOMAIN all
  BY <1>2
<1>5. Range(all) = Range(got) \cup Range(items)
  <2>1. \A i \in 1..m : i \in DOMAIN all
    BY <1>2
  <2>2. Range(got) = {got[i] : i \in 1..m} /\ Range(items) = {items[i] : i \in 1..n}
        /\ Range(all) = {all[i] : i \in DOMAIN all}
    BY <1>2 DEF Range
  <2>3. \A i \in DOMAIN all : all[i] \in Range(got) \cup Range(items)
    BY <1>2, <1>3, <2>2
  <2>4. /\ \A i \in 1..m : got[i] \in Range(all)
        /\ \A i \in 1..n : items[i] \in Range(all)
    BY <1>2, <1>4, <2>1, <2>2
  <2> QED BY <2>2, <2>3, <2>4
<1>6. OnceBut(Gone, all)
  <2> SUFFICES ASSUME NEW i \in DOMAIN all, NEW j \in DOMAIN all, all[i] = all[j]
               PROVE  i = j \/ all[i][1] \in Gone
    BY DEF OnceBut
  <2>1. CASE i \in 1..m /\ j \in 1..m
    BY <1>2, <2>1 DEF OnceBut
  <2>2. CASE i \notin 1..m /\ j \notin 1..m
    <3>1. PICK k \in 1..n, l \in 1..n : i = m + k /\ j = m + l
      BY <1>3, <2>2
    <3>2. items[k] = items[l]
      BY <1>2, <3>1
    <3> QED BY <1>2, <3>1, <3>2 DEF IsInjective
  <2>a. /\ \A k \in 1..m : all[k] \in Range(got)
        /\ \A k \in 1..n : all[m + k] \in Range(items)
    BY <1>2 DEF Range
  <2>3. CASE i \in 1..m /\ j \notin 1..m
    BY <1>3, <2>a, <2>3
  <2>4. CASE i \notin 1..m /\ j \in 1..m
    BY <1>3, <2>a, <2>4
  <2> QED BY <2>1, <2>2, <2>3, <2>4
<1> QED BY <1>2, <1>5, <1>6

\* The client after one more page.
LEMMA TurnedStands ==
  ASSUME RowsListed, NEW q, q.sort = "created_at", q.list \in Lists, q.limit \in Nat \ {0},
         q.list = walk.list,
         NEW gone, NEW got \in Seq(Entry), OnceBut(gone, got),
         q.list # "live_classes" => \A x \in Range(got) : x[2] = 1,
         \/ q.cursor = NoCursor /\ got = << >>
         \/ /\ q.cursor \in Places
            /\ \A id \in IdsOf(got) : id \in DOMAIN rows /\ (id \in gone \/ ~Beyond(q, id)),
         NEW due \in SUBSET DOMAIN rows, \A id \in due : rows[id].matches > 0,
         \A id \in due : id \in IdsOf(got) \/ q.cursor = NoCursor \/ Beyond(q, id)
  PROVE  Stands(Turned(q, got), due, gone) /\ Turned(q, got).at \in {"page", "end"}
<1> DEFINE page == Page(q)
           w == Turned(q, got)
<1>t. ListingsTypeOK
  BY DEF RowsListed
<1>1. PICK items \in Seq(Entry) :
           /\ page.items = items /\ IsInjective(items) /\ Range(items) \subseteq Result(q)
           /\ \/ page.cursor = NoCursor /\ Range(items) = Result(q)
              \/ \E l \in DOMAIN rows :
                   /\ page.cursor = EncodeCursor(l) /\ l \in IdsOf(items)
                   /\ \A id \in IdsOf(items) : id = l \/ InOrder(q, id, l)
                   /\ \A x \in Result(q) \ Range(items) : x[1] = l \/ InOrder(q, l, x[1])
  BY <1>t, PageOfRows
<1> HIDE DEF page
<1>2. /\ w.at = IF page.cursor = NoCursor THEN "end" ELSE "page"
      /\ w.list = q.list /\ w.sort = q.sort /\ w.limit = q.limit /\ w.cursor = page.cursor
      /\ w.got = got \o items
  BY <1>1 DEF Turned, page
<1> HIDE DEF w
<1>p. \A p \in Places : p # NoCursor /\ p.at \in Nat /\ p.id \in Nat
  <2> SUFFICES ASSUME NEW p \in Places PROVE p # NoCursor /\ p.at \in Nat /\ p.id \in Nat
    OBVIOUS
  <2>1. p.at \in 0..Latest /\ p.id \in 1..LastRow /\ NoCursor.at = -1
    BY DEF Places, NoCursor
  <2> QED BY <2>1, ListingsAssumption
<1>r. \A x \in Range(items) : /\ x \in Result(q) /\ x[1] \in DOMAIN rows /\ x[1] \in RowsLeft(q)
                              /\ x[2] \in 1..rows[x[1]].matches
  BY <1>1, <1>t, ResultIs
<1>3. \A x \in Range(got) \cap Range(items) : x[1] \in gone
  <2>1. CASE got = << >>
    BY <2>1 DEF Range
  <2>2. CASE /\ q.cursor \in Places
             /\ \A id \in IdsOf(got) : id \in DOMAIN rows /\ (id \in gone \/ ~Beyond(q, id))
    <3>1. q.cursor # NoCursor
      BY <2>2, <1>p
    <3> QED BY <1>r, <2>2, <3>1, LeftIsBeyond DEF IdsOf
  <2> QED BY <2>1, <2>2
<1>4. w.got \in Seq(Entry) /\ OnceBut(gone, w.got) /\ Range(w.got) = Range(got) \cup Range(items)
  BY <1>1, <1>2, <1>3, Joined
<1>i. IdsOf(w.got) = IdsOf(got) \cup IdsOf(items)
  BY <1>4 DEF IdsOf
<1>k. w.list # "live_classes" => \A x \in Range(w.got) : x[2] = 1
  <2> SUFFICES ASSUME w.list # "live_classes", NEW x \in Range(w.got) PROVE x[2] = 1
    OBVIOUS
  <2>1. CASE x \in Range(got)
    BY <1>2, <2>1
  <2>2. CASE x \in Range(items)
    <3>1. rows[x[1]].matches <= 1 /\ rows[x[1]].matches \in Nat
      BY <1>2, <1>r, <1>t, <2>2, TimesAndIds DEF RowsListed
    <3> QED BY <1>r, <2>2, <3>1
  <2> QED BY <1>4, <2>1, <2>2
<1>5. \A id \in due : id \in IdsOf(got) \/ <<id, 1>> \in Result(q)
  BY <1>t, LeftIsBeyond, ResultIs
<1>6. CASE page.cursor = NoCursor /\ Range(items) = Result(q)
  <2>1. w.at = "end" /\ w.list \in Lists /\ w.limit \in Nat \ {0}
    BY <1>2, <1>6
  <2>2. due \subseteq IdsOf(w.got)
    <3> SUFFICES ASSUME NEW id \in due, <<id, 1>> \in Range(items) PROVE id \in IdsOf(items)
      BY <1>i, <1>5, <1>6
    <3> QED BY DEF IdsOf
  <2>3. Stands(w, due, gone) /\ w.at \in {"page", "end"}
    BY <1>4, <1>k, <2>1, <2>2 DEF Stands
  <2> QED BY <2>3 DEF w
<1>7. ASSUME NEW l \in DOMAIN rows, page.cursor = EncodeCursor(l), l \in IdsOf(items),
             \A id \in IdsOf(items) : id = l \/ InOrder(q, id, l),
             \A x \in Result(q) \ Range(items) : x[1] = l \/ InOrder(q, l, x[1])
      PROVE  Stands(w, due, gone) /\ w.at \in {"page", "end"}
  <2>1. w.at = "page" /\ w.cursor = EncodeCursor(l)
    BY <1>2, <1>7, <1>t, TimesAndIds
  <2>2. \A id \in DOMAIN rows : Beyond(w, id) <=> InOrder(q, l, id)
    <3>1. \A id \in DOMAIN rows : InOrder(w, l, id) <=> InOrder(q, l, id)
      BY <1>2 DEF InOrder
    <3> QED BY <1>t, <2>1, <3>1, BeyondRow
  <2>3. \A i, j \in DOMAIN rows : InOrder(q, i, j) => ~InOrder(q, j, i) /\ ~InOrder(q, i, i)
    BY <1>t, TimesAndIds DEF InOrder, LiveClassesBefore, Newer
  <2>4. ~InOrder(q, l, l)
    BY <1>t, TimesAndIds DEF InOrder, LiveClassesBefore, Newer
  <2>5. \A id \in IdsOf(items) : id \in DOMAIN rows /\ id \in RowsLeft(q)
    BY <1>r DEF IdsOf
  <2>6. ASSUME NEW id \in IdsOf(w.got)
        PROVE  id \in DOMAIN rows /\ (id \in gone \/ ~Beyond(w, id))
    <3>1. CASE id \in IdsOf(items)
      BY <1>7, <2>2, <2>3, <2>4, <2>5, <3>1
    <3>2. CASE id \in IdsOf(got)
      <4>1. q.cursor \in Places /\ id \in DOMAIN rows /\ (id \in gone \/ ~Beyond(q, id))
        BY <3>2 DEF IdsOf, Range
      <4>2. Beyond(q, l)
        BY <1>7, <1>p, <2>5, <4>1, LeftIsBeyond
      <4>3. Beyond(w, id) => Beyond(q, id)
        <5>1. /\ q.cursor.at \in Nat /\ q.cursor.id \in Nat /\ rows[l].at \in Nat /\ l \in Nat
              /\ rows[id].at \in Nat /\ id \in Nat
          BY <1>p, <1>t, <4>1, TimesAndIds
        <5>2. w.cursor.at = rows[l].at /\ w.cursor.id = l /\ w.list = q.list
          BY <1>2, <2>1 DEF EncodeCursor
        <5> QED BY <4>2, <5>1, <5>2 DEF Beyond
      <4> QED BY <4>1, <4>3
    <3> QED BY <1>i, <3>1, <3>2
  <2>7. ASSUME NEW id \in due PROVE id \in IdsOf(w.got) \/ Beyond(w, id)
    <3> SUFFICES ASSUME <<id, 1>> \in Result(q), id \notin IdsOf(items) PROVE Beyond(w, id)
      BY <1>i, <1>5
    <3>1. <<id, 1>> \notin Range(items) /\ id # l
      BY <1>7 DEF IdsOf
    <3>2. InOrder(q, l, id)
      BY <1>7, <3>1
    <3> QED BY <2>2, <3>2
  <2>8. w.list \in Lists /\ w.limit \in Nat \ {0}
    BY <1>2
  <2>c. w.cursor \in Places
    BY <1>t, <2>1, TimesAndIds DEF EncodeCursor, Places
  <2>9. \A id \in IdsOf(w.got) : id \in DOMAIN rows /\ (id \in gone \/ ~Beyond(w, id))
    BY <2>6
  <2>10. \A id \in due : id \in IdsOf(w.got) \/ Beyond(w, id)
    BY <2>7
  <2>11. Stands(w, due, gone)
    BY <1>4, <1>k, <2>1, <2>8, <2>c, <2>9, <2>10 DEF Stands
  <2> QED BY <2>1, <2>11
<1> QED BY <1>1, <1>6, <1>7 DEF w

\* Rows that come and change do not move the cursor over any row but those that move.
LEMMA StandsStill ==
  ASSUME RowsListed, RowsListed', RowsStay, NEW w, Stands(w, steady, moved), steady' \subseteq steady
  PROVE  Stands(w, steady, moved)'
<1>1. \A id \in DOMAIN rows : /\ id \in DOMAIN rows'
                              /\ id \in moved => id \in moved'
                              /\ id \in moved' \/ (Beyond(w, id)' <=> Beyond(w, id))
  BY DEF RowsStay, Beyond
<1>2. OnceBut(moved', w.got)
  BY DEF Stands, OnceBut, RowsStay
<1>3. steady \subseteq DOMAIN rows /\ steady' \cap moved' = {}
  BY DEF RowsListed, ListingsTypeOK
<1>4. ASSUME w.at = "page"
      PROVE  /\ w.cursor \in Places
             /\ \A id \in IdsOf(w.got) : id \in DOMAIN rows' /\ (id \in moved' \/ ~Beyond(w, id)')
             /\ \A id \in steady' : id \in IdsOf(w.got) \/ Beyond(w, id)'
  BY <1>1, <1>3, <1>4 DEF Stands
<1> QED BY <1>2, <1>4 DEF Stands

\* No walk has begun in the beginning.
LEMMA ListingsInvInit == DirectoryInit => ListingsInv
<1> SUFFICES ASSUME DirectoryInit PROVE ListingsInv
  OBVIOUS
<1>1. walk = [at |-> "none", list |-> walk.list] /\ walk.at = "none"
  BY DEF DirectoryInit, ListingsInit
<1>2. RowsListed
  BY ListingsTypeInit DEF DirectoryInit, ListingsInit, RowsListed
<1> QED BY <1>1, <1>2 DEF ListingsInv

\* A client that stands where it stood, as no row is written.
LEMMA StandsOn ==
  ASSUME NEW w, Stands(w, steady', moved'), UNCHANGED rows
  PROVE  Stands(w, steady, moved)'
<1>1. \A id : Beyond(w, id)' <=> Beyond(w, id)
  BY DEF Beyond
<1> QED BY <1>1 DEF Stands

\* The first page of a list.
LEMMA FirstPageKeeps ==
  ASSUME ListingsInv, NEW list \in Lists, NEW sort, NEW limit \in Nat \ {0},
         FirstPage(list, sort, limit)
  PROVE  ListingsInv'
<1> DEFINE q == [list |-> list, sort |-> sort, limit |-> limit, cursor |-> NoCursor]
           due == {id \in DOMAIN rows : rows[id].matches > 0}
<1>1. /\ walk' = Turned(q, << >>) /\ steady' = due /\ rows' = rows /\ moved' = {}
      /\ walk.list = list
  BY DEF FirstPage
<1>3. /\ q.list = list /\ q.sort = sort /\ q.limit = limit /\ q.cursor = NoCursor
      /\ walk'.sort = q.sort /\ walk'.at \in {"page", "end"} /\ walk'.list = list
  BY <1>1 DEF Turned
<1>2. RowsListed'
  BY <1>1, <1>3 DEF ListingsInv, RowsListed, ListingsTypeOK
<1> HIDE DEF q
<1>4. ASSUME sort = "created_at" PROVE Stands(walk, steady, moved)'
  <2>1. RowsListed /\ q.sort = "created_at" /\ q.list \in Lists /\ q.limit \in Nat \ {0}
        /\ q.list = walk.list
    BY <1>1, <1>3, <1>4 DEF ListingsInv
  <2>2. << >> \in Seq(Entry) /\ OnceBut({}, << >>) /\ due \in SUBSET DOMAIN rows
        /\ (\A id \in due : rows[id].matches > 0) /\ Range(<< >>) = {}
    BY DEF OnceBut, Range
  <2> HIDE DEF due
  <2>3. Stands(Turned(q, << >>), due, {})
    BY <1>3, <2>1, <2>2, TurnedStands
  <2>4. PICK w : w = Turned(q, << >>) /\ w = walk'
    BY <1>1
  <2>5. Stands(w, steady', moved')
    BY <1>1, <2>3, <2>4 DEF due
  <2>6. Stands(w, steady, moved)'
    BY <1>1, <2>5, StandsOn
  <2> QED BY <2>4, <2>6
<1> QED BY <1>2, <1>3, <1>4 DEF ListingsInv

\* The next page takes the walk on from its cursor and leaves out no steady
\* row.
LEMMA NextPageKeeps ==
  ASSUME ListingsInv, NextPage
  PROVE  ListingsInv'
<1>1. /\ walk.at = "page" /\ walk' = Turned(walk, walk.got)
      /\ rows' = rows /\ steady' = steady /\ moved' = moved
  BY DEF NextPage
<1>3. walk'.sort = walk.sort /\ walk'.list = walk.list /\ walk'.at \in {"page", "end"}
  BY <1>1 DEF Turned
<1>2. RowsListed'
  BY <1>1, <1>3 DEF ListingsInv, RowsListed, ListingsTypeOK
<1>4. ASSUME walk.sort = "created_at" PROVE Stands(walk, steady, moved)'
  <2>1. RowsListed /\ Stands(walk, steady, moved) /\ steady \in SUBSET DOMAIN rows
    BY <1>1, <1>4 DEF ListingsInv, RowsListed, ListingsTypeOK
  <2>2. PICK q : q = walk
    OBVIOUS
  <2>3. /\ q.list \in Lists /\ q.limit \in Nat \ {0} /\ q.got \in Seq(Entry)
        /\ OnceBut(moved, q.got) /\ q.cursor \in Places /\ q.sort = "created_at"
        /\ q.list # "live_classes" => \A x \in Range(q.got) : x[2] = 1
        /\ \A id \in IdsOf(q.got) : id \in DOMAIN rows /\ (id \in moved \/ ~Beyond(q, id))
        /\ \A id \in steady : id \in IdsOf(q.got) \/ Beyond(q, id)
    BY <1>1, <1>4, <2>1, <2>2 DEF Stands
  <2>4. \A id \in steady : rows[id].matches > 0
    BY <2>1 DEF RowsListed
  <2>5. Stands(Turned(q, q.got), steady, moved)
    BY <2>1, <2>2, <2>3, <2>4, TurnedStands
  <2>6. PICK w : w = Turned(q, q.got) /\ walk' = w
    BY <1>1, <2>2
  <2>7. Stands(w, steady, moved)
    BY <2>5, <2>6
  <2>8. Stands(w, steady', moved')
    BY <1>1, <2>7
  <2>9. Stands(w, steady, moved)'
    BY <1>1, <2>8, StandsOn
  <2> QED BY <2>6, <2>9
<1> QED BY <1>2, <1>3, <1>4 DEF ListingsInv

\* Every step keeps the invariant.
LEMMA ListingsInvStep == ListingsInv /\ [DirectoryNext]_directoryVars => ListingsInv'
<1> SUFFICES ASSUME ListingsInv, [DirectoryNext]_directoryVars PROVE ListingsInv'
  OBVIOUS
<1>1. CASE UNCHANGED listings
  <2>1. UNCHANGED <<rows, walk, steady, moved>>
    BY <1>1 DEF listings
  <2>2. RowsListed'
    BY <2>1 DEF ListingsInv, RowsListed, ListingsTypeOK
  <2>3. ASSUME Stands(walk, steady, moved) PROVE Stands(walk, steady, moved)'
    <3>1. PICK w : w = walk /\ w = walk'
      BY <2>1
    <3>2. Stands(w, steady', moved')
      BY <2>1, <2>3, <3>1
    <3>3. Stands(w, steady, moved)'
      BY <2>1, <3>2, StandsOn
    <3> QED BY <3>1, <3>3
  <2> QED BY <2>1, <2>2, <2>3 DEF ListingsInv
<1>2. CASE ListingsNext
  <2>1. CASE \/ \E id \in 1 .. LastRow, at \in 0 .. Latest, column \in Columns :
                  \E matches \in Matches(id) : RowInserted(id, at, column, matches)
             \/ \E id \in DOMAIN rows, column \in Columns :
                  \E matches \in Matches(id) : RowChanged(id, column, matches)
             \/ \E id \in DOMAIN rows, at \in 0 .. Latest : ClassMoved(id, at)
    <3>1. RowsListed' /\ RowsStay /\ UNCHANGED walk /\ steady' \subseteq steady
      BY <2>1, RowsWritten DEF ListingsInv
    <3>2. ASSUME walk.at # "none", walk.sort = "created_at" PROVE Stands(walk, steady, moved)'
      <4>1. PICK w : w = walk /\ w = walk'
        BY <3>1
      <4>2. Stands(w, steady, moved)'
        BY <3>1, <3>2, <4>1, StandsStill DEF ListingsInv
      <4> QED BY <4>1, <4>2
    <3> QED BY <3>1, <3>2 DEF ListingsInv
  <2>2. ASSUME NEW sort, NEW limit \in Limits,
               \/ ListStudents(sort, limit) \/ ListEmployees(sort, limit) \/ ListCourses(sort, limit)
               \/ ListQuestions(sort, limit) \/ ListQuestionSets(sort, limit)
               \/ ListAssessments(sort, limit) \/ ListLiveClasses(limit)
        PROVE  ListingsInv'
    <3>1. limit \in Nat \ {0}
      BY ListingsAssumption
    <3>2. \E list \in Lists : \E order : FirstPage(list, order, limit)
      BY <2>2 DEF Lists, ListStudents, ListEmployees, ListCourses, ListQuestions, ListQuestionSets,
         ListAssessments, ListLiveClasses
    <3> QED BY <3>1, <3>2, FirstPageKeeps
  <2> QED BY <1>2, <2>1, <2>2, NextPageKeeps DEF ListingsNext
<1> QED BY <1>1, <1>2, DirectorySteps DEF directoryVars

-----------------------------------------------------------------------------
\* Rows have their columns' types, and every student and every employee a history.
THEOREM DirectoryTypeCorrect == DirectorySpec => []DirectoryTypeOK
<1>1. PeopleInv /\ ListingsInv => DirectoryTypeOK
  <2> SUFFICES ASSUME PeopleInv, ListingsInv PROVE DirectoryTypeOK
    OBVIOUS
  <2>1. TypeOK
    BY StudentNumbers DEF PeopleInv, StudentRows, TypeOK, Filed
  <2>2. StaffTypeOK
    BY StaffNumbers DEF PeopleInv, StaffRows, StaffTypeOK, EmployeeStatusHistory, StatusChange,
       EmployeeProfile
  <2> QED BY <2>1, <2>2 DEF ListingsInv, RowsListed, DirectoryTypeOK
<1> QED BY <1>1, PeopleInvInit, PeopleInvStep, ListingsInvInit, ListingsInvStep, PTL DEF DirectorySpec

\* A client that reads a list in its default order to the end gets every row that the filter
\* selected, and no update moved, from the first page on, whatever is inserted, changed, moved or
\* deleted meanwhile; and it gets no row twice but live classes, one that was moved or that the
\* student is a participant of twice.
THEOREM DefaultListsCompleteCorrect == DirectorySpec => []DefaultListsComplete
<1>1. ASSUME ListingsInv, walk.at = "end", walk.sort = "created_at" PROVE Complete
  <2>1. Stands(walk, steady, moved) /\ RowsListed
    BY <1>1 DEF ListingsInv
  <2>2. steady \subseteq {x[1] : x \in Range(walk.got)}
    BY <1>1, <2>1 DEF Stands, IdsOf
  <2>3. ASSUME NEW i \in DOMAIN walk.got, NEW j \in DOMAIN walk.got, i # j,
               walk.got[i][1] = walk.got[j][1]
        PROVE  MayRepeat(i, j)
    <3>1. \A k \in DOMAIN walk.got : walk.got[k] \in Entry /\ walk.got[k] \in Range(walk.got)
      <4> HIDE DEF Entry
      <4> QED BY <2>1 DEF Stands, Range
    <3>2. \A x, y \in Entry : x[1] = y[1] /\ x[2] = y[2] => x = y
      BY DEF Entry
    <3>3. CASE walk.got[i][2] # walk.got[j][2]
      <4>1. walk.list = "live_classes"
        BY <2>1, <3>1, <3>3 DEF Stands
      <4> QED BY <3>3, <4>1 DEF MayRepeat
    <3>4. CASE walk.got[i][2] = walk.got[j][2]
      <4>1. walk.got[i] = walk.got[j]
        BY <2>3, <3>1, <3>2, <3>4
      <4>2. walk.got[i][1] \in moved
        BY <2>1, <2>3, <4>1 DEF Stands, OnceBut
      <4> QED BY <2>1, <4>2 DEF RowsListed, MayRepeat
    <3> QED BY <3>3, <3>4
  <2> QED BY <2>2, <2>3 DEF Complete
<1>2. ListingsInv => DefaultListsComplete
  BY <1>1 DEF DefaultListsComplete, Complete
<1> QED BY <1>2, ListingsInvInit, ListingsInvStep, PTL DEF DirectorySpec
=============================================================================
