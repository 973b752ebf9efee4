---------------------------- MODULE AcademicYears ----------------------------
(***************************************************************************)
(* The academic years of one tenant (app/modules/settings/service.py): their  *)
(* dates and the current one.  clear_current is an UPDATE of its own: it sees  *)
(* the rows that are there when it starts and locks them one by one, waiting    *)
(* for those that others have written, until the commit.  PostgreSQL fails one  *)
(* request of a cycle.                                                        *)
(***************************************************************************)
EXTENDS Integers, FiniteSets, TLC, RequestSlots

CONSTANTS
  Years,     \* ids of academic years, each with a code of its own
  Created,   \* payloads of create
  Changes,   \* payloads of update, Null for what one leaves out
  Null

Rows == [starts : Nat, ends : Nat, current : BOOLEAN]

Updates == [starts : Nat \cup {Null}, ends : Nat \cup {Null}, current : BOOLEAN \cup {Null}]

ASSUME YearsAssumption ==
  Null \notin Int \cup BOOLEAN /\ Created \subseteq Rows /\ Changes \subseteq Updates

VARIABLE years   \* years[y]: starts, ends, current, for every year there is

vars == <<years, req>>

-----------------------------------------------------------------------------
Current == {y \in DOMAIN years : years[y].current}

\* Rows that a statement has locked, to write what it writes at the commit.
HeldBy(p) == IF req[p].at \in {"clear", "save"} THEN req[p].cleared ELSE {}

\* The rows a request needs for its next statement.
Needs(p) ==
  LET x == req[p] IN
  CASE x.at = "clear" -> {x.next}
    [] x.at = "save" /\ x.new # x.row -> {x.y}
    [] OTHER -> {}

Free(r) == \A p \in Requests \ {r} : Needs(r) \cap HeldBy(p) = {}

\* r is in a cycle of waits.
InCycle(r) ==
  \E C \in SUBSET Requests :
    /\ r \in C
    /\ \A p \in C : \E q \in C \ {p} : Needs(p) \cap HeldBy(q) # {}
    /\ \A p \in C : \E q \in C \ {p} : Needs(q) \cap HeldBy(p) # {}

-----------------------------------------------------------------------------
Init == years = << >> /\ InitRequests

DatesValid(starts, ends) == starts < ends

First(makeCurrent) == IF makeCurrent THEN "clear.start" ELSE "save"

CreateBegin(r, y, new) ==
  /\ y \notin DOMAIN years /\ \A p \in Requests : InFlight(p) => req[p].y # y
  /\ DatesValid(new.starts, new.ends)
  /\ Begin(r, [at |-> First(new.current), y |-> y, row |-> new, new |-> new, cleared |-> {}])
  /\ UNCHANGED years

Asked(value, loaded) == IF value = Null THEN loaded ELSE value

\* What the payload leaves out is taken from the row that was loaded.
UpdateLoad(r, y, change) ==
  LET new == [c \in DOMAIN change |-> Asked(change[c], years[y][c])] IN
  /\ y \in DOMAIN years
  /\ DatesValid(new.starts, new.ends)
  /\ Begin(r, [at |-> First(change.current = TRUE), y |-> y, row |-> years[y], new |-> new,
               cleared |-> {}])
  /\ UNCHANGED years

\* The statement goes on to one of the rows it has still to lock, in whatever order it
\* meets them, and the request from the last one to its save.
ClearOn(r, targets, cleared) ==
  LET x == req[r] IN
  \/ /\ targets = {}
     /\ Continue(r, [at |-> "save", y |-> x.y, row |-> x.row, new |-> x.new, cleared |-> cleared])
  \/ \E next \in targets :
       Continue(r, [at |-> "clear", y |-> x.y, row |-> x.row, new |-> x.new, next |-> next,
                    targets |-> targets \ {next}, cleared |-> cleared])

ClearNone(r) ==  \* mutant: the current flag is not exclusive
  /\ req[r].at = "clear.start"
  /\ ClearOn(r, {}, {})
  /\ UNCHANGED years

ClearStart(r) ==
  /\ req[r].at = "clear.start"
  /\ ClearOn(r, Current \ {req[r].y}, {})
  /\ UNCHANGED years

ClearRowAgain(r) ==  \* mutant: a row that was met is not ticked off
  /\ req[r].at = "clear" /\ Free(r)
  /\ ClearOn(r, req[r].targets \cup {req[r].next}, req[r].cleared)
  /\ UNCHANGED years

\* A row that is no longer current stays locked, and clearing it changes nothing.
ClearRow(r) ==
  /\ req[r].at = "clear" /\ Free(r)
  /\ ClearOn(r, req[r].targets, req[r].cleared \cup {req[r].next})
  /\ UNCHANGED years

ClearedToNull(x) ==  \* mutant: the flag is removed
  [y \in DOMAIN years |-> [years[y] EXCEPT !.current = IF y \in x.cleared THEN Null ELSE @]]

Cleared(x) ==
  [y \in DOMAIN years |-> [years[y] EXCEPT !.current = @ /\ y \notin x.cleared]]

Save(r) ==
  LET x == req[r]  rows == Cleared(x) IN
  /\ x.at = "save" /\ Free(r)
  /\ years' = IF x.y \in DOMAIN years
              THEN [rows EXCEPT ![x.y] = Written(@, x.row, x.new)]
              ELSE WithRow(rows, x.y, x.new)
  /\ Return(r)

Abort(r) == InCycle(r) /\ Return(r) /\ UNCHANGED years

-----------------------------------------------------------------------------
Progress(r) == ClearStart(r) \/ ClearRow(r) \/ Save(r) \/ Abort(r)

Next ==
  \E r \in Requests :
    \/ \E y \in Years, new \in Created : CreateBegin(r, y, new)
    \/ \E y \in DOMAIN years, change \in Changes : UpdateLoad(r, y, change)
    \/ Progress(r)

Spec == Init /\ [][Next]_vars

-----------------------------------------------------------------------------
\* Rows have their columns' types.
TypeOK == DOMAIN years \subseteq Years /\ \A y \in DOMAIN years : years[y] \in Rows

\* Updates that wait for each other's years are answered.
EveryRequestReturns == \A r \in Requests : InFlight(r) ~> ~InFlight(r)

\* create and update "keep only one current year", taken one at a time; with two
\* requests in flight this fails.
OneCurrent == OneAtATime => \A y, z \in Current : y = z
=============================================================================
