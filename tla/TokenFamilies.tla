---------------------------- MODULE TokenFamilies ----------------------------
(***************************************************************************)
(* Logins, refresh tokens and password resets of one tenant's users          *)
(* (app/modules/access/service.py).  A login starts a family of refresh       *)
(* tokens; every refresh replaces the family's token by its child.            *)
(*                                                                         *)
(* login_history, login_sessions and last_login_at are written and never      *)
(* read by the service; they are left out.                                   *)
(***************************************************************************)
EXTENDS Integers, Sequences, FiniteSets, RequestSlots

CONSTANTS
  Emails,
  Suspended,   \* emails of accounts whose status is not active: no handler sets it
  LoginLimit,  \* settings.login_rate_limit_attempts
  MaxTokens,   \* bound: refresh tokens ever issued
  MaxResets,   \* bound: reset tokens ever issued
  Null

ASSUME TokensAssumption ==
  /\ Suspended \subseteq Emails /\ Null \notin Int
  /\ LoginLimit \in Nat \ {0} /\ MaxTokens \in Nat /\ MaxResets \in Nat

VARIABLES
  users,     \* rows in order of insertion: email, type, how often the password changed
  tokens,    \* refresh_tokens in order of insertion
  resets,    \* password_reset_tokens in order of insertion
  failures,  \* failures[e]: failed attempts in the limiter's window
  ended      \* history: families that a reuse, a reset or a logout of all revoked

sessions == <<tokens, resets, failures, ended>>

User  == [email : Emails, type : {"institution_admin", "employee"}, password : Nat]
Reset == [user : Nat \ {0}, used : BOOLEAN]
Token == [user : Nat \ {0}, family : Nat \ {0}, parent : Nat \cup {Null},
          replaced : Nat \cup {Null}, status : {"active", "rotated", "revoked", "reused"}]

-----------------------------------------------------------------------------
\* Users of an email: at most one, the emails of a tenant are unique.
WithEmail(e) == {u \in DOMAIN users : users[u].email = e}

FamiliesOf(u) == {tokens[i].family : i \in {j \in DOMAIN tokens : tokens[j].user = u}}

IssueActive(u, family, parent) ==
  [user |-> u, family |-> family, parent |-> parent, replaced |-> Null, status |-> "active"]

\* _issue_token_pair for a login: the first token of a family of its own.
NewFamily(u) == Append(tokens, IssueActive(u, Len(tokens) + 1, Null))

RotateKeeping(i) ==  \* mutant: the presented token stays active
  Append([tokens EXCEPT ![i].replaced = Len(tokens) + 1],
         IssueActive(tokens[i].user, tokens[i].family, i))

\* _issue_token_pair for a refresh: the child, to which the parent points.
Rotate(i) ==
  Append([tokens EXCEPT ![i].status = "rotated", ![i].replaced = Len(tokens) + 1],
         IssueActive(tokens[i].user, tokens[i].family, i))

FamilyReusedByName(f) ==  \* mutant: the enum's name is written, not its value
  [i \in DOMAIN tokens |->
     IF tokens[i].family = f THEN [tokens[i] EXCEPT !.status = "REUSED"] ELSE tokens[i]]

\* UPDATE of every token of a family, and of a user's active tokens.
FamilyReused(f) ==
  [i \in DOMAIN tokens |->
     IF tokens[i].family = f THEN [tokens[i] EXCEPT !.status = "reused"] ELSE tokens[i]]

RevokedLast(u) ==  \* mutant: only the newest token of the user
  [i \in DOMAIN tokens |->
     IF tokens[i].user = u /\ tokens[i].status = "active" /\ i = Len(tokens)
     THEN [tokens[i] EXCEPT !.status = "revoked"] ELSE tokens[i]]

RevokedFor(u) ==
  [i \in DOMAIN tokens |->
     IF tokens[i].user = u /\ tokens[i].status = "active"
     THEN [tokens[i] EXCEPT !.status = "revoked"] ELSE tokens[i]]

RoomForToken == Len(tokens) + Cardinality({r \in Requests : InFlight(r)}) < MaxTokens

-----------------------------------------------------------------------------
\* Every user was given tokens when the account was made.
SessionsInit ==
  /\ tokens = [u \in DOMAIN users |-> IssueActive(u, u, Null)]
  /\ resets = << >> /\ ended = {}
  /\ failures = [e \in Emails |-> 0]
  /\ InitRequests

\* An attempt leaves the limiter's window.
WindowPasses ==
  \E e \in Emails :
    /\ failures[e] > 0
    /\ failures' = [failures EXCEPT ![e] = @ - 1]
    /\ UNCHANGED <<users, tokens, resets, ended, req>>

(* login: the limiter, then the user's row, then tokens and the commit.       *)

AllowedAtLimit(e) == failures[e] <= LoginLimit  \* mutant: one attempt too many

Allowed(e) == failures[e] < LoginLimit

LoginAllowed(r, e) ==
  /\ Allowed(e) /\ RoomForToken
  /\ Begin(r, [at |-> "login.find", email |-> e])
  /\ UNCHANGED <<users, tokens, resets, failures, ended>>

\* No such user, a wrong password, or an account that is not active.
LoginFails(r) ==
  /\ req[r].at = "login.find"
  /\ failures' = [failures EXCEPT ![req[r].email] = @ + 1]
  /\ Return(r)
  /\ UNCHANGED <<users, tokens, resets, ended>>

LoginFind(r) ==
  /\ req[r].at = "login.find" /\ req[r].email \notin Suspended
  /\ \E u \in WithEmail(req[r].email) : Continue(r, [at |-> "login.save", user |-> u])
  /\ UNCHANGED <<users, tokens, resets, failures, ended>>

LoginSave(r) ==
  LET u == req[r].user IN
  /\ req[r].at = "login.save"
  /\ tokens' = NewFamily(u)
  /\ failures' = [failures EXCEPT ![users[u].email] = 0]
  /\ Return(r)
  /\ UNCHANGED <<users, resets, ended>>

-----------------------------------------------------------------------------
(* refresh: the token's row with its user, then what its status calls for.    *)
(* A token may have expired by the clock of whoever looks.                    *)

RefreshLoad(r, i) ==
  /\ RoomForToken
  /\ Begin(r, [at |-> "refresh", token |-> i, status |-> tokens[i].status])
  /\ UNCHANGED <<users, tokens, resets, failures, ended>>

RefreshReused(r) ==
  LET f == tokens[req[r].token].family IN
  /\ req[r].at = "refresh" /\ req[r].status # "active"
  /\ tokens' = FamilyReused(f) /\ ended' = ended \cup {f}
  /\ Return(r)
  /\ UNCHANGED <<users, resets, failures>>

RefreshExpired(r) ==
  /\ req[r].at = "refresh" /\ req[r].status = "active"
  /\ tokens' = [tokens EXCEPT ![req[r].token].status = "revoked"]
  /\ Return(r)
  /\ UNCHANGED <<users, resets, failures, ended>>

RefreshRefused(r) ==
  /\ req[r].at = "refresh" /\ req[r].status = "active"
  /\ users[tokens[req[r].token].user].email \in Suspended
  /\ Return(r)
  /\ UNCHANGED <<users, tokens, resets, failures, ended>>

RefreshRotates(r) ==
  /\ req[r].at = "refresh" /\ req[r].status = "active"
  /\ users[tokens[req[r].token].user].email \notin Suspended
  /\ tokens' = Rotate(req[r].token)
  /\ Return(r)
  /\ UNCHANGED <<users, resets, failures, ended>>

-----------------------------------------------------------------------------
(* logout: of one token, whatever its status, or one UPDATE for all sessions. *)

LogoutLoad(r, i) ==
  /\ Begin(r, [at |-> "logout", token |-> i, status |-> tokens[i].status])
  /\ UNCHANGED <<users, tokens, resets, failures, ended>>

LogoutSave(r) ==
  LET x == req[r] IN
  /\ x.at = "logout"
  /\ tokens' = [tokens EXCEPT ![x.token].status = Flushed(@, x.status, "revoked")]
  /\ Return(r)
  /\ UNCHANGED <<users, resets, failures, ended>>

LogoutAll(r, u) ==
  /\ req[r] = Idle
  /\ tokens' = RevokedFor(u) /\ ended' = ended \cup FamiliesOf(u)
  /\ UNCHANGED <<users, resets, failures, req>>

-----------------------------------------------------------------------------
(* request_password_reset and confirm_password_reset.  An expired token is    *)
(* refused.                                                                  *)

RequestReset(r, e) ==
  /\ req[r] = Idle /\ Len(resets) < MaxResets
  /\ \E u \in WithEmail(e) : resets' = Append(resets, [user |-> u, used |-> FALSE])
  /\ UNCHANGED <<users, tokens, failures, ended, req>>

ResetUsable(i) == TRUE  \* mutant: used_at is not looked at

ResetUnused(i) == ~resets[i].used

ConfirmLoad(r, i) ==
  /\ ResetUnused(i)
  /\ Begin(r, [at |-> "reset.save", reset |-> i])
  /\ UNCHANGED <<users, tokens, resets, failures, ended>>

ConfirmSave(r) ==
  LET i == req[r].reset  u == resets[i].user IN
  /\ req[r].at = "reset.save"
  /\ users' = [users EXCEPT ![u].password = @ + 1]
  /\ resets' = [resets EXCEPT ![i].used = TRUE]
  /\ tokens' = RevokedFor(u) /\ ended' = ended \cup FamiliesOf(u)
  /\ Return(r)
  /\ UNCHANGED failures

-----------------------------------------------------------------------------
SessionStep(r) ==
  \/ \E e \in Emails : LoginAllowed(r, e) \/ RequestReset(r, e)
  \/ LoginFails(r) \/ LoginFind(r) \/ LoginSave(r)
  \/ \E i \in DOMAIN tokens : RefreshLoad(r, i) \/ LogoutLoad(r, i)
  \/ RefreshReused(r) \/ RefreshExpired(r) \/ RefreshRefused(r) \/ RefreshRotates(r)
  \/ LogoutSave(r)
  \/ \E u \in DOMAIN users : LogoutAll(r, u)
  \/ \E i \in DOMAIN resets : ConfirmLoad(r, i)
  \/ ConfirmSave(r)

-----------------------------------------------------------------------------
\* Failed attempts stay within the limit, except those that were let in before
\* the others' failures were counted.
FailuresBounded == \A e \in Emails : failures[e] < LoginLimit + Cardinality(Requests)

(* Rules of a service that handles one request at a time; with two each fails. *)

\* "Rotates the token": a family is a chain of tokens, each replaced by the next,
\* and only its last one can be active.
FamiliesAreChains ==
  OneAtATime =>
    \A i, j \in DOMAIN tokens :
      /\ tokens[i].replaced = j <=> tokens[j].parent = i
      /\ tokens[i].family = tokens[j].family /\ tokens[i].status = "active" => j <= i

\* Reuse detection "revokes the family", a password reset and a logout of all
\* sessions every family of the user: nothing of it is active ever after.
EndedFamiliesStayEnded ==
  OneAtATime => \A i \in DOMAIN tokens : tokens[i].family \in ended => tokens[i].status # "active"

\* Who guesses, and who was logged out everywhere, is kept out.
KeptOut == FailuresBounded /\ EndedFamiliesStayEnded

\* A reset token changes the password once.
ResetsUsedOnce ==
  OneAtATime =>
    \A u \in DOMAIN users :
      users[u].password = Cardinality({i \in DOMAIN resets : resets[i].user = u /\ resets[i].used})
=============================================================================
