--------------------------- MODULE EmployeeRecords ---------------------------
(***************************************************************************)
(* The employees of one tenant (app/modules/people/service.py): their codes,  *)
(* linked users, types, status history and profiles, the assignments of         *)
(* teachers, and the rows filed under an employee.  Employees are never         *)
(* deleted.                                                                  *)
(*                                                                         *)
(* An update whose status changes is flushed before the profile is looked up,  *)
(* and one that waits for another's row or code goes on when that has ended:   *)
(* requests take effect in the order of their commits.                         *)
(***************************************************************************)
EXTENDS StudentRecords

CONSTANTS
  Codes,         \* employee codes
  Users,         \* users that may be linked to an employee
  Hired,         \* rows that create_employee inserts
  MaxEmployees,  \* bound: employees ever inserted
  MayChange      \* bound: an update changes one of these columns, or the profile

Employee ==
  [code : Codes, user : Users \cup {Null}, type : {"teacher", "accountant"}, status : Statuses]

ASSUME EmployeesAssumption ==
  /\ Null \notin Codes \cup Users /\ MaxEmployees \in Nat
  /\ MayChange \subseteq {"code", "user", "type", "status", "profile"}
  /\ Hired \subseteq Employee

VARIABLES
  employees,    \* rows in order of insertion
  careers,      \* careers[i]: the status changes of employee i
  profiles,     \* profiles[i]: versions of the profile written, 0 when there is none
  papers,       \* notes and documents, in order of insertion
  assignments   \* teacher assignments, in order of insertion

staff == <<employees, careers, profiles, papers, assignments>>

EmployeeStatusHistory == [from : Statuses \cup {Null}, to : Statuses]
EmployeeProfile       == Nat
EmployeeNote          == [employee : Nat, kind : {"note"}]
EmployeeDocument      == [employee : Nat, kind : {"document"}]
TeacherAssignment     == [teacher : Nat, active : BOOLEAN]

Staff == DOMAIN employees

-----------------------------------------------------------------------------
StaffInit ==
  /\ employees = << >> /\ careers = << >> /\ profiles = << >>
  /\ papers = << >> /\ assignments = << >>

\* uq_employees_tenant_code and uq_employees_tenant_user.
EmployeeTaken(row, others) ==
  \E i \in others :
    employees[i].code = row.code \/ (row.user # Null /\ employees[i].user = row.user)

CreateEmployee(r, row, withProfile) ==
  /\ req[r] = Idle /\ Len(employees) < MaxEmployees /\ ~EmployeeTaken(row, Staff)
  /\ employees' = Append(employees, row)
  /\ careers' = Append(careers, <<[from |-> Null, to |-> row.status]>>)
  /\ profiles' = Append(profiles, IF withProfile THEN 1 ELSE 0)
  /\ UNCHANGED <<papers, assignments, req>>

(* update_employee: the row, its profile, and the flush.                       *)

EmployeeLoad(r, i, new, withProfile) ==
  /\ Len(careers[i]) < MaxHistory /\ profiles[i] < MaxHistory
  /\ \E c \in MayChange :
       {c} = {d \in DOMAIN new : new[d] # employees[i][d]} \cup (IF withProfile THEN {"profile"} ELSE {})
  /\ Begin(r, [at |-> IF withProfile THEN "employee.profile" ELSE "employee.save",
               id |-> i, row |-> employees[i], new |-> new, profile |-> Null])
  /\ UNCHANGED staff

ProfileFind(r) ==
  /\ req[r].at = "employee.profile"
  /\ Continue(r, [req[r] EXCEPT !.at = "employee.save", !.profile = profiles[req[r].id]])
  /\ UNCHANGED staff

\* A profile that was not found is inserted: the second one conflicts.
ProfileConflict(x) == x.profile = 0 /\ profiles[x.id] # 0

Career(x) ==
  IF x.new.status = x.row.status THEN << >> ELSE <<[from |-> x.row.status, to |-> x.new.status]>>

\* The row as the flush leaves it, with what others have committed meanwhile.
RowAfter(x) == Written(employees[x.id], x.row, x.new)

EmployeeSave(r) ==
  LET x == req[r] IN
  /\ x.at = "employee.save"
  /\ IF EmployeeTaken(RowAfter(x), Staff \ {x.id}) \/ ProfileConflict(x)
     THEN UNCHANGED <<employees, careers, profiles>>
     ELSE /\ employees' = [employees EXCEPT ![x.id] = RowAfter(x)]
          /\ careers' = [careers EXCEPT ![x.id] = @ \o Career(x)]
          /\ profiles' = [profiles EXCEPT ![x.id] = IF x.profile = Null THEN @ ELSE x.profile + 1]
  /\ Return(r)
  /\ UNCHANGED <<papers, assignments>>

-----------------------------------------------------------------------------
\* create_teacher_assignment looks at the type when it loads the employee.
IsTeacher(i) == employees[i].type = "teacher"

AssignTeacher(r, i, active) ==
  /\ IsTeacher(i) /\ Len(assignments) + Len(papers) < MaxFiled
  /\ Begin(r, [at |-> "assignment.save", row |-> [teacher |-> i, active |-> active]])
  /\ UNCHANGED staff

AssignTeacherSave(r) ==
  /\ req[r].at = "assignment.save"
  /\ assignments' = Append(assignments, req[r].row)
  /\ Return(r)
  /\ UNCHANGED <<employees, careers, profiles, papers>>

PaperLoad(r, i, kind) ==
  /\ Len(assignments) + Len(papers) < MaxFiled
  /\ Begin(r, [at |-> "paper.save", row |-> [employee |-> i, kind |-> kind]])
  /\ UNCHANGED staff

AddEmployeeNote(r, i)     == PaperLoad(r, i, "note")
AddEmployeeDocument(r, i) == PaperLoad(r, i, "document")

PaperSave(r) ==
  /\ req[r].at = "paper.save"
  /\ papers' = Append(papers, req[r].row)
  /\ Return(r)
  /\ UNCHANGED <<employees, careers, profiles, assignments>>

StaffProgress(r) ==
  ProfileFind(r) \/ EmployeeSave(r) \/ AssignTeacherSave(r) \/ PaperSave(r)

StaffStep(r) ==
  \/ \E row \in Hired, withProfile \in BOOLEAN : CreateEmployee(r, row, withProfile)
  \/ \E i \in Staff, new \in Employee, withProfile \in BOOLEAN : EmployeeLoad(r, i, new, withProfile)
  \/ ProfileFind(r) \/ EmployeeSave(r)

\* What is filed under employees.
PapersStep(r) ==
  \/ \E row \in Hired : CreateEmployee(r, row, FALSE)
  \/ \E i \in Staff, active \in BOOLEAN : AssignTeacher(r, i, active)
  \/ \E i \in Staff : AddEmployeeNote(r, i) \/ AddEmployeeDocument(r, i)
  \/ AssignTeacherSave(r) \/ PaperSave(r)

-----------------------------------------------------------------------------
\* Rows have their columns' types, and every employee a career.
StaffTypeOK ==
  /\ employees \in Seq(Employee) /\ profiles \in [Staff -> EmployeeProfile]
  /\ DOMAIN careers = Staff
  /\ \A i \in Staff : careers[i] # << >> /\ careers[i] \in Seq(EmployeeStatusHistory)
  /\ papers \in Seq(EmployeeNote \cup EmployeeDocument)
  /\ assignments \in Seq(TeacherAssignment)

\* No code and no linked user belongs to two employees.
EmployeesUnique ==
  \A i, j \in Staff :
    /\ employees[i].code = employees[j].code => i = j
    /\ employees[i].user # Null /\ employees[i].user = employees[j].user => i = j

\* The last status of a career is the employee's, and with one request at a time
\* there is no gap in it.
CareersAreChains ==
  \A i \in Staff :
    /\ Last(careers[i]).to = employees[i].status
    /\ OneAtATime => \A k \in 2 .. Len(careers[i]) :
         /\ careers[i][k].from = careers[i][k - 1].to
         /\ careers[i][k].from # careers[i][k].to
=============================================================================
