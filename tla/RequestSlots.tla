---------------------------- MODULE RequestSlots ----------------------------
(***************************************************************************)
(* HTTP requests in flight.  Every request runs in a database session of    *)
(* its own (app/core/database.py), under READ COMMITTED and without row     *)
(* locks: each SELECT sees the rows committed when it runs, checks use what *)
(* was loaded, and flush and commit write all changes at once.  So a        *)
(* handler is one step per SELECT whose answer is used later, and one last  *)
(* step that writes.  A handler that refuses at its first SELECT changes    *)
(* nothing and is not enabled.                                             *)
(***************************************************************************)
EXTENDS FiniteSets

CONSTANT Requests   \* slots: the most requests that are in flight at once

ASSUME RequestsAssumption == IsFiniteSet(Requests)

VARIABLE req        \* req[r]: what the request in slot r has loaded so far

Idle   == [at |-> "idle"]
Unused == [at |-> "unused"]   \* a slot that no request of this behaviour takes

\* In the beginning no request is in flight, and how many slots will be used is
\* decided: the behaviours with one slot are those of a server that handles
\* one request at a time.
InitRequests ==
  /\ req \in [Requests -> {Idle, Unused}]
  /\ \E r \in Requests : req[r] = Idle

OneAtATime == \A r, p \in Requests : req[r] # Unused /\ req[p] # Unused => r = p

InFlight(r) == req[r] \notin {Idle, Unused}

AllIdle == \A r \in Requests : ~InFlight(r)

Begin(r, loaded)    == req[r] = Idle /\ req' = [req EXCEPT ![r] = loaded]
Continue(r, loaded) == req' = [req EXCEPT ![r] = loaded]
Return(r)           == req' = [req EXCEPT ![r] = Idle]

\* A column after the ORM's flush: only a value that differs from the loaded
\* one is written, so an unchanged attribute keeps what others committed.
Flushed(current, loaded, new) == IF new = loaded THEN current ELSE new

Written(current, loaded, new) ==
  [c \in DOMAIN current |-> Flushed(current[c], loaded[c], new[c])]

\* A table is a function of its rows' keys, a row one of its columns: after the
\* insert of a key that is not there, and after new values for some of them.
WithRow(rows, key, row) ==
  [k \in DOMAIN rows \cup {key} |-> IF k \in DOMAIN rows THEN rows[k] ELSE row]

Updated(rows, new) ==
  [k \in DOMAIN rows \cup DOMAIN new |-> IF k \in DOMAIN new THEN new[k] ELSE rows[k]]
=============================================================================
