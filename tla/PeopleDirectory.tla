--------------------------- MODULE PeopleDirectory ---------------------------
(***************************************************************************)
(* Students, employees and the lists of a tenant.  Students and employees      *)
(* share no rows, and a list is only read: a behaviour is about one of them.    *)
(***************************************************************************)
EXTENDS EmployeeRecords, Listings

VARIABLE served   \* what this behaviour is about

directoryVars == <<db, staff, listings, served, req>>

DirectoryInit ==
  /\ served \in {"students", "filing", "employees", "papers", "lists"}
  /\ Init /\ StaffInit /\ ListingsInit
  /\ served = "lists" => ~\E r \in Requests : req[r] = Unused
  /\ served # "lists" => walk.list = "students"

DirectoryNext ==
  /\ \/ /\ served = "students" /\ UNCHANGED <<staff, listings>>
        /\ \E r \in Requests : Step(r)
     \/ /\ served = "filing" /\ UNCHANGED <<staff, listings>>
        /\ \E r \in Requests : FilingStep(r)
     \/ /\ served = "employees" /\ UNCHANGED <<db, listings>>
        /\ \E r \in Requests : StaffStep(r)
     \/ /\ served = "papers" /\ UNCHANGED <<db, listings>>
        /\ \E r \in Requests : PapersStep(r)
     \/ /\ served = "lists" /\ UNCHANGED <<db, staff, req>>
        /\ ListingsNext
  /\ UNCHANGED served

DirectoryProgress(r) ==
  /\ \/ Progress(r) /\ UNCHANGED <<staff, listings>>
     \/ StaffProgress(r) /\ UNCHANGED <<db, listings>>
  /\ UNCHANGED served

\* The event loop carries on with every request that can go on, and PostgreSQL
\* wakes those that wait for a number whenever its holder ends.
DirectorySpec ==
  /\ DirectoryInit /\ [][DirectoryNext]_directoryVars
  /\ \A r \in Requests : SF_directoryVars(DirectoryProgress(r))

-----------------------------------------------------------------------------
\* Rows have their columns' types.
DirectoryTypeOK == TypeOK /\ StaffTypeOK /\ ListingsTypeOK

\* With any number of requests in flight, no admission number is given twice, not
\* even one of a deleted student or one that an import is still holding, and no
\* employee code or linked user.
PeopleUnique == NumbersUnique /\ EmployeesUnique

\* A student's or an employee's status history ends at the status; with one request
\* at a time it is their way from status to status, without gaps.
HistoriesAreChains == HistoryEndsAtStatus /\ HistoryIsChain /\ CareersAreChains
=============================================================================
