----------------------------- MODULE AccessProofs -----------------------------
(***************************************************************************)
(* Proofs about AccessAccounts for every set of emails, roles and             *)
(* permissions, and any number of requests in flight.                         *)
(***************************************************************************)
EXTENDS AccessAccounts, ProofLemmas

-----------------------------------------------------------------------------
(* The steps of a behaviour.                                                  *)

\* The labels of the handlers of either part.
SessionLabels == {"login.find", "login.save", "refresh", "logout", "reset.save"}
AccountLabels == {"register.save", "accept.save", "role.save", "assign.save", "remove.save"}

\* A handler changes its own slot only, to a label of its part.
LEMMA SessionSlot ==
  ASSUME Slots, NEW r \in Requests, SessionStep(r)
  PROVE  OnlySlot(r, SessionLabels)
<1> USE DEF OnlySlot, Slots, SessionLabels, Begin, Continue, Return, Idle
<1>1. ASSUME NEW e, LoginAllowed(r, e) \/ RequestReset(r, e) PROVE OnlySlot(r, SessionLabels)
  BY <1>1 DEF LoginAllowed, RequestReset
<1>2. CASE LoginFails(r) \/ LoginSave(r)
  BY <1>2 DEF LoginFails, LoginSave
<1>3. CASE LoginFind(r)
  <2>1. PICK u : req' = [req EXCEPT ![r] = [at |-> "login.save", user |-> u]]
    BY <1>3 DEF LoginFind
  <2> QED BY <1>3, <2>1 DEF LoginFind
<1>4. ASSUME NEW i, RefreshLoad(r, i) \/ LogoutLoad(r, i) \/ ConfirmLoad(r, i)
      PROVE  OnlySlot(r, SessionLabels)
  BY <1>4 DEF RefreshLoad, LogoutLoad, ConfirmLoad
<1>5. CASE RefreshReused(r) \/ RefreshExpired(r) \/ RefreshRotates(r) \/ RefreshRefused(r)
           \/ LogoutSave(r) \/ ConfirmSave(r)
  BY <1>5 DEF RefreshReused, RefreshExpired, RefreshRotates, RefreshRefused, LogoutSave,
     ConfirmSave
<1>6. ASSUME NEW u, LogoutAll(r, u) PROVE OnlySlot(r, SessionLabels)
  BY <1>6 DEF LogoutAll
<1> HIDE DEF OnlySlot, Slots, SessionLabels, Begin, Continue, Return, Idle
<1> QED BY <1>1, <1>2, <1>3, <1>4, <1>5, <1>6 DEF SessionStep

\* The same of registration, invitations and roles.
LEMMA AccountSlot ==
  ASSUME Slots, NEW r \in Requests, AccountStep(r)
  PROVE  OnlySlot(r, AccountLabels)
<1> USE DEF OnlySlot, Slots, AccountLabels, Begin, Continue, Return, Idle
<1>1. ASSUME NEW e, RegisterLoad(r, e) PROVE OnlySlot(r, AccountLabels)
  BY <1>1 DEF RegisterLoad
<1>2. ASSUME NEW e, NEW role, Invite(r, e, role) PROVE OnlySlot(r, AccountLabels)
  BY <1>2 DEF Invite
<1>3. ASSUME NEW i, AcceptLoad(r, i) PROVE OnlySlot(r, AccountLabels)
  BY <1>3 DEF AcceptLoad
<1>4. ASSUME NEW c, NEW codes, RoleLoad(r, c, codes) PROVE OnlySlot(r, AccountLabels)
  BY <1>4 DEF RoleLoad
<1>5. ASSUME NEW u, NEW c, AssignLoad(r, u, c) PROVE OnlySlot(r, AccountLabels)
  BY <1>5 DEF AssignLoad
<1>6. ASSUME NEW u, NEW c, RemoveLoad(r, u, c) PROVE OnlySlot(r, AccountLabels)
  <2>1. PICK g : Begin(r, [at |-> "remove.save", grant |-> g])
    BY <1>6 DEF RemoveLoad
  <2> QED BY <2>1
<1>7. CASE RegisterSave(r) \/ RegisterRefused(r) \/ AcceptSave(r) \/ RoleSave(r)
           \/ AssignSave(r) \/ RemoveSave(r)
  BY <1>7 DEF RegisterSave, RegisterRefused, AcceptSave, RoleSave, AssignSave, RemoveSave
<1> HIDE DEF OnlySlot, Slots, AccountLabels, Begin, Continue, Return, Idle
<1> QED BY <1>1, <1>2, <1>3, <1>4, <1>5, <1>6, <1>7 DEF AccountStep

-----------------------------------------------------------------------------
(* Rows, with any number of requests.  A token's family has its first token's    *)
(* number, so a new family is new, and all of it is one user's.                   *)

\* The rows of the session tables: a family is of one user and begins no later
\* than its tokens, and an active token has no replacement yet.
TokenRows ==
  /\ users \in Seq(User) /\ tokens \in Seq(Token) /\ resets \in Seq(Reset)
  /\ failures \in [Emails -> Nat] /\ ended \subseteq 1..Len(tokens)
  /\ \A i \in DOMAIN tokens :
       /\ tokens[i].user \in DOMAIN users /\ tokens[i].family \in 1..i
       /\ tokens[i].parent \in DOMAIN tokens \cup {Null}
       /\ tokens[i].replaced \in DOMAIN tokens \cup {Null}
       /\ tokens[i].status = "active" => tokens[i].replaced = Null
  /\ \A i, j \in DOMAIN tokens :
       tokens[i].family = tokens[j].family => tokens[i].user = tokens[j].user
  /\ \A i \in DOMAIN resets : resets[i].user \in DOMAIN users

\* The accounts the catalogue invariant is about.
Administrator(u) == users[u].type = "institution_admin"

\* The rows of roles and of grants; a grant is of a role that is there.
RoleRows ==
  /\ seeded \in BOOLEAN /\ DOMAIN roles \subseteq Codes /\ IsTable(roles)
  /\ \A c \in DOMAIN roles : roles[c] \subseteq Permissions

GrantRows == grants \in Seq(Grant) /\ \A g \in DOMAIN grants : grants[g].role \in DOMAIN roles

\* The role of administrators holds the catalog as soon as there is one of them.
AccountUsers ==
  served = "accounts" =>
    /\ \A u \in DOMAIN users : Administrator(u) => Admin \in DOMAIN roles /\ roles[Admin] = Catalog
    /\ \A u, v \in DOMAIN users : users[u].email = users[v].email => u = v

\* An accepted invitation names the only account of its email.
Accepted(x) ==
  /\ x.user \in DOMAIN users /\ users[x.user].email = x.email
  /\ x.role # Null => \E g \in DOMAIN grants : grants[g].user = x.user /\ grants[g].role = x.role

\* An invitation that is pending has no user yet, and no two accepted ones have
\* the same.
InvitationRows ==
  /\ invitations \in Seq(Invitation)
  /\ \A i \in DOMAIN invitations :
       /\ invitations[i].role \in DOMAIN roles \cup {Null}
       /\ invitations[i].status = "pending" => invitations[i].user = Null
       /\ invitations[i].status = "accepted" =>
            /\ Accepted(invitations[i])
            /\ \A j \in DOMAIN invitations \ {i} : invitations[j].user # invitations[i].user

\* All that is said of the account tables.
AccountRows == RoleRows /\ GrantRows /\ AccountUsers /\ InvitationRows

\* What a behaviour of one kind leaves alone.
KindRows ==
  /\ served \in {"accounts", "sessions"}
  /\ served = "accounts" => resets = << >>
  /\ served = "sessions" => invitations = << >> /\ roles = << >> /\ grants = << >>

\* What a request carries refers to rows that are there.
AccessCarries(x) ==
  /\ x.at = "login.find" => x.email \in Emails
  /\ x.at = "login.save" => x.user \in DOMAIN users
  /\ x.at \in {"refresh", "logout"} => x.token \in DOMAIN tokens
  /\ x.at = "reset.save" => x.reset \in DOMAIN resets
  /\ x.at = "register.save" => x.email \in Emails
  /\ x.at = "accept.save" => x.invitation \in DOMAIN invitations
  /\ x.at = "role.save" => x.code \in Codes /\ x.codes \in Custom
  /\ x.at = "assign.save" => x.user \in DOMAIN users /\ x.role \in DOMAIN roles
  /\ x.at = "remove.save" => x.grant \in DOMAIN grants

\* The inductive invariant of types and account rows, with any number of
\* requests.
AccessInv ==
  /\ Slots /\ KindRows /\ TokenRows /\ AccountRows
  /\ \A r \in Requests : AccessCarries(req[r])

\* NULL is no number, from the assumption on the constants.
LEMMA NullIsNoNumber == Null \notin Int /\ Null \notin Nat
BY TokensAssumption

\* No row is there in the beginning, and no request is in flight.
LEMMA AccessInvInit == Init => AccessInv
<1> SUFFICES ASSUME Init PROVE AccessInv
  OBVIOUS
<1>1. Slots /\ \A r \in Requests : req[r].at \in {"idle", "unused"}
  BY DEF Init, SessionsInit, InitRequests, Idle, Unused, Slots
<1>2. users \in Seq(User) /\ (served = "accounts" => users = << >>)
  BY AccountsAssumption DEF Init
<1>3. /\ tokens \in Seq(Token) /\ DOMAIN tokens = DOMAIN users /\ ended = {}
      /\ \A i \in DOMAIN tokens : tokens[i] = IssueActive(i, i, Null)
  <2>1. /\ tokens = [u \in DOMAIN users |-> IssueActive(u, u, Null)] /\ ended = {}
        /\ DOMAIN users = 1..Len(users) /\ Len(users) \in Nat
    BY <1>2 DEF Init, SessionsInit
  <2>2. \A u \in DOMAIN users : IssueActive(u, u, Null) \in Token
    BY <2>1 DEF IssueActive, Token
  <2> QED BY <2>1, <2>2
<1>4. resets = << >> /\ failures \in [Emails -> Nat]
  BY DEF Init, SessionsInit
<1>5. TokenRows
  <2>1. DOMAIN tokens = 1..Len(tokens) /\ Len(tokens) \in Nat
    BY <1>3
  <2>2. \A i \in DOMAIN tokens : /\ tokens[i].user = i /\ tokens[i].family = i
                                 /\ tokens[i].parent = Null /\ tokens[i].replaced = Null
    BY <1>3 DEF IssueActive
  <2> QED BY <1>2, <1>3, <1>4, <2>1, <2>2 DEF TokenRows
<1>6. AccountRows
  <2>1. invitations = << >> /\ roles = << >> /\ grants = << >> /\ seeded = FALSE
    BY DEF Init
  <2>2. DOMAIN roles = {} /\ DOMAIN grants = {} /\ DOMAIN invitations = {}
    BY <2>1
  <2>3. IsTable(roles)
    BY <2>1 DEF IsTable
  <2>a. invitations \in Seq(Invitation) /\ grants \in Seq(Grant)
    BY <2>1
  <2>b. seeded \in BOOLEAN
    BY <2>1
  <2>4. invitations \in Seq(Invitation) /\ grants \in Seq(Grant) /\ seeded \in BOOLEAN
    BY <2>a, <2>b
  <2>5. served = "accounts" => DOMAIN users = {}
    BY <1>2
  <2> QED
    BY <2>2, <2>3, <2>4, <2>5
       DEF AccountRows, RoleRows, GrantRows, AccountUsers, InvitationRows
<1>7. KindRows
  BY <1>4 DEF Init, KindRows
<1> QED BY <1>1, <1>5, <1>6, <1>7 DEF AccessInv, AccessCarries

\* Rows are only added.
AccessGrows ==
  /\ DOMAIN users \subseteq DOMAIN users' /\ DOMAIN tokens \subseteq DOMAIN tokens'
  /\ DOMAIN resets \subseteq DOMAIN resets' /\ DOMAIN invitations \subseteq DOMAIN invitations'
  /\ DOMAIN roles \subseteq DOMAIN roles' /\ DOMAIN grants \subseteq DOMAIN grants'

\* What the other requests carry stays valid: rows are added and never taken
\* away.
LEMMA AccessKeptByStep ==
  ASSUME AccessInv, NEW r \in Requests, NEW labels, OnlySlot(r, labels), AccessGrows,
         AccessCarries(req[r])', KindRows', TokenRows', AccountRows'
  PROVE  AccessInv'
<1>1. \A p \in Requests \ {r} : AccessCarries(req[p])'
  <2> SUFFICES ASSUME NEW p \in Requests \ {r} PROVE AccessCarries(req[p])'
    OBVIOUS
  <2>1. req'[p] = req[p] /\ AccessCarries(req[p])
    BY DEF OnlySlot, AccessInv
  <2> QED BY <2>1 DEF AccessGrows, AccessCarries
<1> QED BY <1>1 DEF AccessInv, OnlySlot

\* A step that only loads.
LEMMA AccessQuiet ==
  ASSUME AccessInv, NEW r \in Requests, NEW labels, OnlySlot(r, labels),
         UNCHANGED <<users, sessions, accounts, served>>, AccessCarries(req[r])'
  PROVE  AccessInv'
<1>1. AccessGrows /\ KindRows' /\ TokenRows' /\ AccountRows'
  BY DEF AccessInv, sessions, accounts, AccessGrows, KindRows, TokenRows, IsTable,
     AccountRows, RoleRows, GrantRows, AccountUsers, InvitationRows, Accepted, Permissions,
     Administrator
<1> QED BY <1>1, AccessKeptByStep

\* A step of a session that is done.
LEMMA SessionWritten ==
  ASSUME AccessInv, NEW r \in Requests, OnlySlot(r, SessionLabels), req'[r].at = "idle",
         UNCHANGED <<accounts, served>>, served = "sessions", TokenRows',
         DOMAIN users' = DOMAIN users, DOMAIN tokens \subseteq DOMAIN tokens',
         DOMAIN resets \subseteq DOMAIN resets'
  PROVE  AccessInv'
<1>1. AccessGrows /\ KindRows' /\ AccountRows'
  BY DEF AccessInv, accounts, AccessGrows, KindRows, IsTable, Permissions,
     AccountRows, RoleRows, GrantRows, AccountUsers, InvitationRows, Accepted
<1>2. AccessCarries(req[r])'
  BY DEF AccessCarries
<1> QED BY <1>1, <1>2, AccessKeptByStep

-----------------------------------------------------------------------------
(* What is written to the tokens.                                            *)

\* Tokens that are stricken keep their place in the family, and none comes back.
Stricken ==
  /\ DOMAIN tokens' = DOMAIN tokens /\ tokens' \in Seq(Token) /\ Len(tokens') = Len(tokens)
  /\ \A i \in DOMAIN tokens :
       /\ tokens'[i].user = tokens[i].user /\ tokens'[i].family = tokens[i].family
       /\ tokens'[i].parent = tokens[i].parent /\ tokens'[i].replaced = tokens[i].replaced
       /\ tokens'[i].status = "active" => tokens[i].status = "active"

\* One token revoked, or left as it is, is a way to strike tokens.
LEMMA OneStricken ==
  ASSUME TokenRows, NEW i \in DOMAIN tokens, NEW status,
         status \in {"revoked", tokens[i].status},
         tokens' = [tokens EXCEPT ![i].status = status]
  PROVE  Stricken
<1>1. /\ tokens \in Seq(Token) /\ tokens[i] \in Token
      /\ \A k \in DOMAIN tokens : tokens[k] \in Token
  BY DEF TokenRows
<1> DEFINE new == [tokens[i] EXCEPT !.status = status]
<1>2. /\ new \in Token /\ new.user = tokens[i].user /\ new.family = tokens[i].family
      /\ new.parent = tokens[i].parent /\ new.replaced = tokens[i].replaced
      /\ new.status = "active" => tokens[i].status = "active"
  BY <1>1 DEF Token
<1>3. tokens' = [tokens EXCEPT ![i] = new]
  OBVIOUS
<1> HIDE DEF new
<1>4. tokens' \in Seq(Token) /\ DOMAIN tokens' = DOMAIN tokens /\ Len(tokens') = Len(tokens)
  BY <1>1, <1>2, <1>3
<1>5. \A k \in DOMAIN tokens : tokens'[k] = IF k = i THEN new ELSE tokens[k]
  BY <1>1, <1>3
<1> QED BY <1>2, <1>4, <1>5 DEF Stricken

\* So is a set of tokens revoked or marked as reused.
LEMMA SomeStricken ==
  ASSUME TokenRows, NEW some, NEW status \in {"revoked", "reused"},
         tokens' = [i \in DOMAIN tokens |-> IF i \in some THEN [tokens[i] EXCEPT !.status = status]
                                            ELSE tokens[i]]
  PROVE  /\ Stricken
         /\ \A i \in DOMAIN tokens : IF i \in some THEN tokens'[i].status = status
                                     ELSE tokens'[i] = tokens[i]
<1>1. tokens \in Seq(Token) /\ \A i \in DOMAIN tokens : tokens[i] \in Token
  BY DEF TokenRows
<1> DEFINE new(i) == [tokens[i] EXCEPT !.status = status]
<1>2. \A i \in DOMAIN tokens :
        /\ new(i) \in Token /\ new(i).user = tokens[i].user /\ new(i).family = tokens[i].family
        /\ new(i).parent = tokens[i].parent /\ new(i).replaced = tokens[i].replaced
        /\ new(i).status = status
  <2> SUFFICES ASSUME NEW i \in DOMAIN tokens
               PROVE  /\ new(i) \in Token /\ new(i).user = tokens[i].user
                      /\ new(i).family = tokens[i].family /\ new(i).parent = tokens[i].parent
                      /\ new(i).replaced = tokens[i].replaced /\ new(i).status = status
    OBVIOUS
  <2>1. PICK t \in Token : t = tokens[i]
    BY <1>1
  <2> DEFINE n == [t EXCEPT !.status = status]
  <2>2. /\ n \in Token /\ n.user = t.user /\ n.family = t.family /\ n.parent = t.parent
        /\ n.replaced = t.replaced /\ n.status = status
    BY DEF Token
  <2>3. n = new(i)
    BY <2>1
  <2> HIDE DEF n, new
  <2> QED BY <2>1, <2>2, <2>3
<1>a. \A i \in DOMAIN tokens : tokens'[i] = IF i \in some THEN new(i) ELSE tokens[i]
  OBVIOUS
<1> HIDE DEF new
<1>3. \A i \in DOMAIN tokens : tokens'[i] \in Token
  BY <1>1, <1>2, <1>a
<1>4. tokens' \in Seq(Token) /\ DOMAIN tokens' = DOMAIN tokens /\ Len(tokens') = Len(tokens)
  <2>1. tokens' = [i \in DOMAIN tokens |-> tokens'[i]]
    OBVIOUS
  <2> QED BY <1>1, <1>3, <2>1, RowsChanged
<1> QED BY <1>2, <1>4, <1>a DEF Stricken

\* So is every token of a user revoked.
LEMMA RevokedStricken ==
  ASSUME TokenRows, NEW u, tokens' = RevokedFor(u)
  PROVE  Stricken /\ \A i \in DOMAIN tokens : tokens[i].user = u => tokens'[i].status # "active"
<1> DEFINE some == {i \in DOMAIN tokens : tokens[i].user = u /\ tokens[i].status = "active"}
<1>1. tokens' = [i \in DOMAIN tokens |-> IF i \in some THEN [tokens[i] EXCEPT !.status = "revoked"]
                                         ELSE tokens[i]]
  BY DEF RevokedFor
<1>2. \A i \in DOMAIN tokens : i \in some <=> tokens[i].user = u /\ tokens[i].status = "active"
  OBVIOUS
<1> HIDE DEF some
<1>3. /\ Stricken
      /\ \A i \in DOMAIN tokens : IF i \in some THEN tokens'[i].status = "revoked"
                                  ELSE tokens'[i] = tokens[i]
  BY <1>1, SomeStricken
<1> QED BY <1>2, <1>3

\* So is every token of a family marked as reused.
LEMMA ReusedStricken ==
  ASSUME TokenRows, NEW f, tokens' = FamilyReused(f)
  PROVE  Stricken /\ \A i \in DOMAIN tokens : tokens[i].family = f => tokens'[i].status # "active"
<1> DEFINE some == {i \in DOMAIN tokens : tokens[i].family = f}
<1>1. tokens' = [i \in DOMAIN tokens |-> IF i \in some THEN [tokens[i] EXCEPT !.status = "reused"]
                                         ELSE tokens[i]]
  BY DEF FamilyReused
<1>2. \A i \in DOMAIN tokens : i \in some <=> tokens[i].family = f
  OBVIOUS
<1> HIDE DEF some
<1>3. /\ Stricken
      /\ \A i \in DOMAIN tokens : IF i \in some THEN tokens'[i].status = "reused"
                                  ELSE tokens'[i] = tokens[i]
  BY <1>1, SomeStricken
<1> QED BY <1>2, <1>3

\* Striking tokens keeps the session rows.
LEMMA StrickenRows ==
  ASSUME TokenRows, Stricken, DOMAIN users' = DOMAIN users, users' \in Seq(User),
         resets' \in Seq(Reset), DOMAIN resets' = DOMAIN resets,
         \A i \in DOMAIN resets : resets'[i].user = resets[i].user,
         failures' \in [Emails -> Nat], ended' \subseteq 1..Len(tokens)
  PROVE  TokenRows'
<1>1. /\ users' \in Seq(User) /\ tokens' \in Seq(Token) /\ resets' \in Seq(Reset)
      /\ failures' \in [Emails -> Nat] /\ ended' \subseteq 1..Len(tokens')
  BY DEF Stricken
<1>2. \A i \in DOMAIN tokens' :
        /\ tokens'[i].user \in DOMAIN users' /\ tokens'[i].family \in 1..i
        /\ tokens'[i].parent \in DOMAIN tokens' \cup {Null}
        /\ tokens'[i].replaced \in DOMAIN tokens' \cup {Null}
        /\ tokens'[i].status = "active" => tokens'[i].replaced = Null
  <2>1. /\ DOMAIN tokens' = DOMAIN tokens
        /\ \A i \in DOMAIN tokens :
             /\ tokens'[i].user = tokens[i].user /\ tokens'[i].family = tokens[i].family
             /\ tokens'[i].parent = tokens[i].parent /\ tokens'[i].replaced = tokens[i].replaced
             /\ tokens'[i].status = "active" => tokens[i].status = "active"
    BY DEF Stricken
  <2>2. \A i \in DOMAIN tokens :
          /\ tokens[i].user \in DOMAIN users /\ tokens[i].family \in 1..i
          /\ tokens[i].parent \in DOMAIN tokens \cup {Null}
          /\ tokens[i].replaced \in DOMAIN tokens \cup {Null}
          /\ tokens[i].status = "active" => tokens[i].replaced = Null
    BY DEF TokenRows
  <2> QED BY <2>1, <2>2
<1>3. \A i, j \in DOMAIN tokens' :
        tokens'[i].family = tokens'[j].family => tokens'[i].user = tokens'[j].user
  <2>1. /\ DOMAIN tokens' = DOMAIN tokens
        /\ \A i \in DOMAIN tokens : tokens'[i].user = tokens[i].user
        /\ \A i \in DOMAIN tokens : tokens'[i].family = tokens[i].family
    BY DEF Stricken
  <2>2. \A i, j \in DOMAIN tokens :
          tokens[i].family = tokens[j].family => tokens[i].user = tokens[j].user
    BY DEF TokenRows
  <2> QED BY <2>1, <2>2
<1>4. \A i \in DOMAIN resets' : resets'[i].user \in DOMAIN users'
  BY DEF TokenRows
<1> QED BY <1>1, <1>2, <1>3, <1>4 DEF TokenRows

\* A new family, and the child of a token in the family of its parent.
LEMMA FamilyAdded ==
  ASSUME TokenRows, NEW u \in Nat \ {0}, tokens' = NewFamily(u)
  PROVE  /\ tokens' \in Seq(Token) /\ DOMAIN tokens' = DOMAIN tokens \cup {Len(tokens) + 1}
         /\ Len(tokens) \in Nat /\ DOMAIN tokens = 1..Len(tokens) /\ Len(tokens') = Len(tokens) + 1
         /\ \A i \in DOMAIN tokens : tokens'[i] = tokens[i]
         /\ tokens'[Len(tokens) + 1].user = u
         /\ tokens'[Len(tokens) + 1].family = Len(tokens) + 1
         /\ tokens'[Len(tokens) + 1].parent = Null /\ tokens'[Len(tokens) + 1].replaced = Null
<1>1. tokens \in Seq(Token) /\ Len(tokens) \in Nat
  BY DEF TokenRows
<1> DEFINE new == IssueActive(u, Len(tokens) + 1, Null)
<1>2. /\ new \in Token /\ new.user = u /\ new.family = Len(tokens) + 1
      /\ new.parent = Null /\ new.replaced = Null
  BY <1>1 DEF IssueActive, Token
<1>3. tokens' = Append(tokens, new)
  BY DEF NewFamily
<1> HIDE DEF new
<1> QED BY <1>1, <1>2, <1>3, RowAppended

\* What a rotation does to the table of tokens: a child is appended, its parent
\* points to it.
LEMMA ChildAdded ==
  ASSUME TokenRows, NEW i \in DOMAIN tokens, tokens' = Rotate(i)
  PROVE  /\ tokens' \in Seq(Token) /\ DOMAIN tokens' = DOMAIN tokens \cup {Len(tokens) + 1}
         /\ Len(tokens) \in Nat /\ DOMAIN tokens = 1..Len(tokens) /\ Len(tokens') = Len(tokens) + 1
         /\ \A k \in DOMAIN tokens : k # i => tokens'[k] = tokens[k]
         /\ tokens'[i].user = tokens[i].user /\ tokens'[i].family = tokens[i].family
         /\ tokens'[i].parent = tokens[i].parent
         /\ tokens'[i].replaced = Len(tokens) + 1 /\ tokens'[i].status = "rotated"
         /\ tokens'[Len(tokens) + 1].user = tokens[i].user
         /\ tokens'[Len(tokens) + 1].family = tokens[i].family
         /\ tokens'[Len(tokens) + 1].parent = i /\ tokens'[Len(tokens) + 1].replaced = Null
<1>1. /\ tokens \in Seq(Token) /\ Len(tokens) \in Nat /\ DOMAIN tokens = 1..Len(tokens)
      /\ tokens[i] \in Token
  BY DEF TokenRows
<1>t. PICK t \in Token : t = tokens[i]
  BY <1>1
<1>n. PICK n \in Nat : n = Len(tokens) + 1
  BY <1>1
<1> DEFINE old == [t EXCEPT !.status = "rotated", !.replaced = n]
           kept == [tokens EXCEPT ![i] = old]
           new == IssueActive(tokens[i].user, tokens[i].family, i)
<1>2. /\ old \in Token /\ old.user = tokens[i].user /\ old.family = tokens[i].family
      /\ old.parent = tokens[i].parent /\ old.replaced = n /\ old.status = "rotated"
  BY <1>t DEF Token
<1>3. /\ new \in Token /\ new.user = tokens[i].user /\ new.family = tokens[i].family
      /\ new.parent = i /\ new.replaced = Null
  BY <1>1 DEF IssueActive, Token
<1>4. tokens' = Append(kept, new)
  BY <1>t, <1>n DEF Rotate
<1> HIDE DEF old, new
<1>5. /\ kept \in Seq(Token) /\ Len(kept) = Len(tokens) /\ DOMAIN kept = DOMAIN tokens
      /\ kept[i] = old /\ \A k \in DOMAIN tokens : k # i => kept[k] = tokens[k]
  BY <1>1, <1>2
<1> HIDE DEF kept
<1>6. /\ tokens' \in Seq(Token) /\ DOMAIN tokens' = DOMAIN kept \cup {Len(kept) + 1}
      /\ Len(tokens') = Len(kept) + 1
      /\ tokens'[Len(kept) + 1] = new /\ \A k \in DOMAIN kept : tokens'[k] = kept[k]
  BY <1>3, <1>4, <1>5, RowAppended
<1> QED BY <1>1, <1>2, <1>3, <1>5, <1>6, <1>n

\* A login's new family keeps the session rows.
LEMMA FamilyRows ==
  ASSUME TokenRows, NEW u \in DOMAIN users', u \in Nat \ {0}, tokens' = NewFamily(u),
         users' \in Seq(User), DOMAIN users \subseteq DOMAIN users',
         failures' \in [Emails -> Nat], UNCHANGED <<resets, ended>>
  PROVE  TokenRows'
<1> DEFINE n == Len(tokens) + 1
<1>1. /\ tokens' \in Seq(Token) /\ DOMAIN tokens' = DOMAIN tokens \cup {n}
      /\ Len(tokens) \in Nat /\ DOMAIN tokens = 1..Len(tokens) /\ Len(tokens') = n
      /\ \A i \in DOMAIN tokens : tokens'[i] = tokens[i]
      /\ tokens'[n].user = u /\ tokens'[n].family = n
      /\ tokens'[n].parent = Null /\ tokens'[n].replaced = Null
  BY FamilyAdded
<1>2. /\ n \in Nat \ {0} /\ \A i \in DOMAIN tokens : i < n /\ i \in Nat
      /\ \A i \in DOMAIN tokens : tokens[i].family \in 1..i
      /\ resets \in Seq(Reset) /\ ended \subseteq 1..Len(tokens)
  BY <1>1 DEF TokenRows
<1> HIDE DEF n
<1>3. /\ users' \in Seq(User) /\ tokens' \in Seq(Token) /\ resets' \in Seq(Reset)
      /\ failures' \in [Emails -> Nat]
  BY <1>1, <1>2
<1>4. ended' \subseteq 1..Len(tokens')
  BY <1>1, <1>2 DEF n
<1>5. \A i \in DOMAIN tokens' :
        /\ tokens'[i].user \in DOMAIN users' /\ tokens'[i].family \in 1..i
        /\ tokens'[i].parent \in DOMAIN tokens' \cup {Null}
        /\ tokens'[i].replaced \in DOMAIN tokens' \cup {Null}
        /\ tokens'[i].status = "active" => tokens'[i].replaced = Null
  BY <1>1, <1>2 DEF TokenRows
<1>6. \A i, j \in DOMAIN tokens' :
        tokens'[i].family = tokens'[j].family => tokens'[i].user = tokens'[j].user
  <2>1. \A i, j \in DOMAIN tokens :
          tokens[i].family = tokens[j].family => tokens[i].user = tokens[j].user
    BY DEF TokenRows
  <2>2. \A i \in DOMAIN tokens : tokens[i].family # n
    BY <1>2
  <2> QED BY <1>1, <2>1, <2>2
<1>7. \A i \in DOMAIN resets' : resets'[i].user \in DOMAIN users'
  BY DEF TokenRows
<1> QED BY <1>3, <1>4, <1>5, <1>6, <1>7 DEF TokenRows

\* A rotation's new child keeps the session rows.
LEMMA ChildRows ==
  ASSUME TokenRows, NEW i \in DOMAIN tokens, tokens' = Rotate(i),
         UNCHANGED <<users, resets, failures, ended>>
  PROVE  TokenRows'
<1> DEFINE n == Len(tokens) + 1
<1>1. /\ tokens' \in Seq(Token) /\ DOMAIN tokens' = DOMAIN tokens \cup {n}
      /\ Len(tokens) \in Nat /\ DOMAIN tokens = 1..Len(tokens) /\ Len(tokens') = n
      /\ \A k \in DOMAIN tokens : k # i => tokens'[k] = tokens[k]
      /\ tokens'[i].user = tokens[i].user /\ tokens'[i].family = tokens[i].family
      /\ tokens'[i].parent = tokens[i].parent
      /\ tokens'[i].replaced = n /\ tokens'[i].status = "rotated"
      /\ tokens'[n].user = tokens[i].user /\ tokens'[n].family = tokens[i].family
      /\ tokens'[n].parent = i /\ tokens'[n].replaced = Null
  BY ChildAdded
<1>2. /\ n \in Nat \ {0} /\ \A k \in DOMAIN tokens : k < n /\ k \in Nat
      /\ \A k \in DOMAIN tokens : tokens[k].family \in 1..k
      /\ resets \in Seq(Reset) /\ ended \subseteq 1..Len(tokens)
      /\ users \in Seq(User) /\ failures \in [Emails -> Nat]
  BY <1>1 DEF TokenRows
<1>3. ended' \subseteq 1..Len(tokens')
  BY <1>1, <1>2
<1> HIDE DEF n
<1>4. \A k \in DOMAIN tokens' :
        /\ tokens'[k].user \in DOMAIN users' /\ tokens'[k].family \in 1..k
        /\ tokens'[k].parent \in DOMAIN tokens' \cup {Null}
        /\ tokens'[k].replaced \in DOMAIN tokens' \cup {Null}
        /\ tokens'[k].status = "active" => tokens'[k].replaced = Null
  <2>1. \A k \in DOMAIN tokens :
          /\ tokens[k].user \in DOMAIN users /\ tokens[k].family \in 1..k
          /\ tokens[k].parent \in DOMAIN tokens \cup {Null}
          /\ tokens[k].replaced \in DOMAIN tokens \cup {Null}
          /\ tokens[k].status = "active" => tokens[k].replaced = Null
    BY DEF TokenRows
  <2> QED BY <1>1, <1>2, <2>1
<1>5. \A k, j \in DOMAIN tokens' :
        tokens'[k].family = tokens'[j].family => tokens'[k].user = tokens'[j].user
  <2>1. \A k, j \in DOMAIN tokens :
          tokens[k].family = tokens[j].family => tokens[k].user = tokens[j].user
    BY DEF TokenRows
  <2>2. \A k \in DOMAIN tokens' : \E j \in DOMAIN tokens :
          tokens'[k].family = tokens[j].family /\ tokens'[k].user = tokens[j].user
    BY <1>1
  <2> QED BY <2>1, <2>2
<1>6. \A k \in DOMAIN resets' : resets'[k].user \in DOMAIN users'
  BY DEF TokenRows
<1> QED BY <1>1, <1>2, <1>3, <1>4, <1>5, <1>6 DEF TokenRows

\* The families of a user.
LEMMA FamiliesKnown ==
  ASSUME TokenRows, NEW u
  PROVE  FamiliesOf(u) \subseteq 1..Len(tokens)
<1>1. /\ DOMAIN tokens = 1..Len(tokens) /\ Len(tokens) \in Nat
      /\ \A i \in DOMAIN tokens : tokens[i].family \in 1..i
  BY DEF TokenRows
<1> QED BY <1>1 DEF FamiliesOf

-----------------------------------------------------------------------------
\* Every handler of the session part keeps the invariant.
LEMMA SessionSteps ==
  ASSUME AccessInv, NEW r \in Requests, SessionStep(r), served = "sessions",
         UNCHANGED <<accounts, served>>
  PROVE  AccessInv'
<1> DEFINE x == req[r]
<1>0. OnlySlot(r, SessionLabels) /\ Slots /\ TokenRows /\ AccessCarries(x)
  BY SessionSlot DEF AccessInv
<1>a. /\ users \in Seq(User) /\ tokens \in Seq(Token) /\ resets \in Seq(Reset)
      /\ failures \in [Emails -> Nat] /\ ended \subseteq 1..Len(tokens)
      /\ \A i \in DOMAIN tokens : tokens[i].user \in DOMAIN users
      /\ \A i \in DOMAIN resets : resets[i].user \in DOMAIN users
      /\ DOMAIN users \subseteq Nat \ {0}
      /\ \A u \in DOMAIN users : users[u].email \in Emails /\ users[u] \in User
      /\ \A i \in DOMAIN tokens : tokens[i].family \in 1..Len(tokens)
  <2>1. /\ users \in Seq(User) /\ tokens \in Seq(Token) /\ resets \in Seq(Reset)
        /\ failures \in [Emails -> Nat] /\ ended \subseteq 1..Len(tokens)
        /\ \A i \in DOMAIN tokens : tokens[i].user \in DOMAIN users /\ tokens[i].family \in 1..i
        /\ \A i \in DOMAIN resets : resets[i].user \in DOMAIN users
    BY <1>0 DEF TokenRows
  <2>2. \A u \in DOMAIN users : users[u].email \in Emails /\ users[u] \in User
    <3>1. \A u \in DOMAIN users : users[u] \in User
      BY <2>1
    <3> QED BY <3>1 DEF User
  <2>3. DOMAIN users \subseteq Nat \ {0} /\ DOMAIN tokens = 1..Len(tokens) /\ Len(tokens) \in Nat
    BY <2>1
  <2> QED BY <2>1, <2>2, <2>3
<1>1. ASSUME NEW e \in Emails, LoginAllowed(r, e) PROVE AccessInv'
  <2>1. AccessCarries(req[r])'
    BY <1>0, <1>1 DEF LoginAllowed, Begin, Slots, AccessCarries
  <2> QED BY <1>0, <1>1, <2>1, AccessQuiet DEF LoginAllowed, sessions
<1>2. ASSUME NEW e \in Emails, RequestReset(r, e) PROVE AccessInv'
  <2>1. PICK u \in WithEmail(e) : resets' = Append(resets, [user |-> u, used |-> FALSE])
    BY <1>2 DEF RequestReset
  <2> DEFINE new == [user |-> u, used |-> FALSE]
  <2>2. u \in DOMAIN users /\ u \in Nat \ {0}
    BY <1>a DEF WithEmail
  <2>3. new \in Reset /\ new.user = u
    BY <2>2 DEF Reset
  <2> HIDE DEF new
  <2>4. /\ resets' \in Seq(Reset) /\ DOMAIN resets \subseteq DOMAIN resets'
        /\ \A i \in DOMAIN resets' : resets'[i] = new \/ (i \in DOMAIN resets /\ resets'[i] = resets[i])
    BY <1>a, <2>1, <2>3, RowAppended DEF new
  <2>5. UNCHANGED <<users, tokens, failures, ended>> /\ req'[r].at = "idle"
    BY <1>2 DEF RequestReset, Idle
  <2>6. TokenRows'
    BY <1>0, <1>a, <2>2, <2>3, <2>4, <2>5 DEF TokenRows
  <2> QED BY <1>0, <2>4, <2>5, <2>6, SessionWritten
<1>3. CASE LoginFails(r)
  <2>1. /\ UNCHANGED <<users, tokens, resets, ended>> /\ req'[r].at = "idle"
        /\ failures' = [failures EXCEPT ![x.email] = @ + 1] /\ x.email \in Emails
    BY <1>0, <1>3 DEF LoginFails, Return, Slots, Idle, AccessCarries
  <2>2. failures' \in [Emails -> Nat]
    BY <1>a, <2>1
  <2>3. TokenRows'
    BY <1>0, <2>1, <2>2 DEF TokenRows
  <2> QED BY <1>0, <2>1, <2>3, SessionWritten
<1>4. CASE LoginFind(r)
  <2>1. PICK u \in WithEmail(x.email) : req'[r] = [at |-> "login.save", user |-> u]
    BY <1>0, <1>4 DEF LoginFind, Continue, Slots
  <2>2. UNCHANGED <<users, tokens, resets, failures, ended>> /\ u \in DOMAIN users
    BY <1>4 DEF LoginFind, WithEmail
  <2>3. AccessCarries(req[r])'
    BY <2>1, <2>2 DEF AccessCarries
  <2> QED BY <1>0, <2>2, <2>3, AccessQuiet DEF sessions
<1>5. CASE LoginSave(r)
  <2>1. /\ UNCHANGED <<users, resets, ended>> /\ req'[r].at = "idle"
        /\ failures' = [failures EXCEPT ![users[x.user].email] = 0] /\ x.user \in DOMAIN users
        /\ tokens' = NewFamily(x.user)
    BY <1>0, <1>5 DEF LoginSave, Return, Slots, Idle, AccessCarries
  <2>2. failures' \in [Emails -> Nat] /\ x.user \in Nat \ {0}
    BY <1>a, <2>1
  <2>3. TokenRows'
    BY <1>0, <1>a, <2>1, <2>2, FamilyRows
  <2>4. DOMAIN tokens \subseteq DOMAIN tokens'
    BY <1>0, <2>1, <2>2, FamilyAdded
  <2> QED BY <1>0, <2>1, <2>3, <2>4, SessionWritten
<1>6. ASSUME NEW i \in DOMAIN tokens, RefreshLoad(r, i) \/ LogoutLoad(r, i) PROVE AccessInv'
  <2>1. AccessCarries(req[r])'
    BY <1>0, <1>6 DEF RefreshLoad, LogoutLoad, Begin, Slots, AccessCarries
  <2> QED BY <1>0, <1>6, <2>1, AccessQuiet DEF RefreshLoad, LogoutLoad, sessions
<1>7. CASE RefreshReused(r)
  <2> DEFINE f == tokens[x.token].family
  <2>1. /\ UNCHANGED <<users, resets, failures>> /\ req'[r].at = "idle"
        /\ tokens' = FamilyReused(f) /\ ended' = ended \cup {f}
        /\ x.token \in DOMAIN tokens
    BY <1>0, <1>7 DEF RefreshReused, Return, Slots, Idle, AccessCarries
  <2>2. Stricken /\ ended' \subseteq 1..Len(tokens)
    BY <1>0, <1>a, <2>1, ReusedStricken
  <2>3. TokenRows'
    BY <1>0, <1>a, <2>1, <2>2, StrickenRows
  <2> QED BY <1>0, <2>1, <2>2, <2>3, SessionWritten DEF Stricken
<1>8. CASE RefreshExpired(r) \/ LogoutSave(r)
  <2>1. /\ UNCHANGED <<users, resets, failures, ended>> /\ req'[r].at = "idle"
        /\ x.token \in DOMAIN tokens
    BY <1>0, <1>8 DEF RefreshExpired, LogoutSave, Return, Slots, Idle, AccessCarries
  <2>2. \E status \in {"revoked", tokens[x.token].status} :
          tokens' = [tokens EXCEPT ![x.token].status = status]
    BY <1>8 DEF RefreshExpired, LogoutSave, Flushed
  <2>3. Stricken
    BY <1>0, <2>1, <2>2, OneStricken
  <2>4. TokenRows'
    BY <1>0, <1>a, <2>1, <2>3, StrickenRows
  <2> QED BY <1>0, <2>1, <2>3, <2>4, SessionWritten DEF Stricken
<1>9. CASE RefreshRotates(r)
  <2>1. /\ UNCHANGED <<users, resets, failures, ended>> /\ req'[r].at = "idle"
        /\ x.token \in DOMAIN tokens /\ tokens' = Rotate(x.token)
    BY <1>0, <1>9 DEF RefreshRotates, Return, Slots, Idle, AccessCarries
  <2>2. TokenRows' /\ DOMAIN tokens \subseteq DOMAIN tokens'
    BY <1>0, <2>1, ChildRows, ChildAdded
  <2> QED BY <1>0, <2>1, <2>2, SessionWritten
<1>10. ASSUME NEW u \in DOMAIN users, LogoutAll(r, u) PROVE AccessInv'
  <2>1. /\ UNCHANGED <<users, resets, failures>> /\ req'[r].at = "idle"
        /\ tokens' = RevokedFor(u) /\ ended' = ended \cup FamiliesOf(u)
    BY <1>10 DEF LogoutAll, Idle
  <2>2. Stricken /\ ended' \subseteq 1..Len(tokens)
    BY <1>0, <1>a, <2>1, RevokedStricken, FamiliesKnown
  <2>3. TokenRows'
    BY <1>0, <1>a, <2>1, <2>2, StrickenRows
  <2> QED BY <1>0, <2>1, <2>2, <2>3, SessionWritten DEF Stricken
<1>11. ASSUME NEW i \in DOMAIN resets, ConfirmLoad(r, i) PROVE AccessInv'
  <2>1. AccessCarries(req[r])'
    BY <1>0, <1>11 DEF ConfirmLoad, Begin, Slots, AccessCarries
  <2> QED BY <1>0, <1>11, <2>1, AccessQuiet DEF ConfirmLoad, sessions
<1>12. CASE ConfirmSave(r)
  <2> DEFINE u == resets[x.reset].user  i == x.reset
  <2>1. /\ UNCHANGED failures /\ req'[r].at = "idle" /\ i \in DOMAIN resets /\ u \in DOMAIN users
        /\ tokens' = RevokedFor(u) /\ ended' = ended \cup FamiliesOf(u)
        /\ users' = [users EXCEPT ![u].password = @ + 1]
        /\ resets' = [resets EXCEPT ![i].used = TRUE]
    BY <1>0, <1>a, <1>12 DEF ConfirmSave, Return, Slots, Idle, AccessCarries
  <2>2. Stricken /\ ended' \subseteq 1..Len(tokens)
    BY <1>0, <1>a, <2>1, RevokedStricken, FamiliesKnown
  <2>3. users' \in Seq(User) /\ DOMAIN users' = DOMAIN users
    <3> DEFINE new == [users[u] EXCEPT !.password = @ + 1]
    <3>1. users[u] \in User
      BY <1>a, <2>1
    <3>2. new \in User
      BY <3>1 DEF User
    <3>3. users' = [users EXCEPT ![u] = new]
      BY <2>1
    <3>4. u \in DOMAIN users /\ users \in Seq(User)
      BY <1>a, <2>1
    <3> HIDE DEF new, u
    <3> QED BY <3>2, <3>3, <3>4
  <2>4. /\ resets' \in Seq(Reset) /\ DOMAIN resets' = DOMAIN resets
        /\ \A k \in DOMAIN resets : resets'[k].user = resets[k].user
    <3> DEFINE new == [resets[i] EXCEPT !.used = TRUE]
    <3>1. resets[i] \in Reset
      BY <1>a, <2>1
    <3>2. new \in Reset /\ new.user = resets[i].user
      BY <3>1 DEF Reset
    <3>3. resets' = [resets EXCEPT ![i] = new]
      BY <2>1
    <3>4. i \in DOMAIN resets /\ resets \in Seq(Reset)
      BY <1>a, <2>1
    <3> HIDE DEF new, u, i
    <3>5. resets' \in Seq(Reset) /\ DOMAIN resets' = DOMAIN resets
      BY <3>2, <3>3, <3>4
    <3>6. \A k \in DOMAIN resets : resets'[k] = IF k = i THEN new ELSE resets[k]
      BY <3>3, <3>4
    <3> QED BY <3>2, <3>5, <3>6
  <2> HIDE DEF u, i
  <2>5. TokenRows'
    BY <1>0, <1>a, <2>1, <2>2, <2>3, <2>4, StrickenRows
  <2> QED BY <1>0, <2>1, <2>2, <2>3, <2>4, <2>5, SessionWritten DEF Stricken
<1>13. CASE RefreshRefused(r)
  <2>1. AccessCarries(req[r])'
    BY <1>0, <1>13 DEF RefreshRefused, Return, Slots, Idle, AccessCarries
  <2> QED BY <1>0, <1>13, <2>1, AccessQuiet DEF RefreshRefused, sessions
<1> QED
  BY <1>1, <1>2, <1>3, <1>4, <1>5, <1>6, <1>7, <1>8, <1>9, <1>10, <1>11, <1>12, <1>13
     DEF SessionStep

\* The limit's window passing keeps it: only the failures are forgotten.
LEMMA WindowRows ==
  ASSUME AccessInv, WindowPasses, UNCHANGED <<accounts, served>>
  PROVE  AccessInv'
<1>1. PICK e \in Emails : failures[e] > 0 /\ failures' = [failures EXCEPT ![e] = @ - 1]
  BY DEF WindowPasses
<1>2. UNCHANGED <<users, tokens, resets, ended, req>> /\ failures \in [Emails -> Nat]
  BY DEF WindowPasses, AccessInv, TokenRows
<1>3. failures' \in [Emails -> Nat]
  BY <1>1, <1>2
<1>4. TokenRows'
  BY <1>2, <1>3 DEF AccessInv, TokenRows
<1>5. KindRows' /\ AccountRows'
  BY <1>2 DEF AccessInv, accounts, KindRows, IsTable, Permissions, Administrator,
     AccountRows, RoleRows, GrantRows, AccountUsers, InvitationRows, Accepted
<1>6. Slots' /\ \A r \in Requests : AccessCarries(req[r])'
  BY <1>2 DEF AccessInv, accounts, Slots, AccessCarries
<1> QED BY <1>4, <1>5, <1>6 DEF AccessInv

-----------------------------------------------------------------------------
(* Accounts.                                                                *)

\* A step of an account's handler that is done.
LEMMA AccountWritten ==
  ASSUME AccessInv, NEW r \in Requests, OnlySlot(r, AccountLabels), req'[r].at = "idle",
         UNCHANGED <<resets, served>>, served = "accounts", TokenRows', AccountRows',
         DOMAIN users \subseteq DOMAIN users', DOMAIN tokens \subseteq DOMAIN tokens',
         DOMAIN invitations \subseteq DOMAIN invitations', DOMAIN roles \subseteq DOMAIN roles',
         DOMAIN grants \subseteq DOMAIN grants'
  PROVE  AccessInv'
<1>1. AccessGrows /\ KindRows'
  BY DEF AccessInv, AccessGrows, KindRows
<1>2. AccessCarries(req[r])'
  BY DEF AccessCarries
<1> QED BY <1>1, <1>2, AccessKeptByStep

\* A new account, its first token and its role.
LEMMA UserAdded ==
  ASSUME TokenRows, NEW e \in Emails, NEW type \in {"institution_admin", "employee"},
         users' = NewUser(e, type)
  PROVE  /\ users' \in Seq(User) /\ Len(users) \in Nat /\ Len(users) + 1 \in Nat \ {0}
         /\ DOMAIN users' = DOMAIN users \cup {Len(users) + 1} /\ Len(users) + 1 \notin DOMAIN users
         /\ \A u \in DOMAIN users : users'[u] = users[u]
         /\ users'[Len(users) + 1].email = e /\ users'[Len(users) + 1].type = type
         /\ users'[Len(users) + 1].password = 0
<1> DEFINE new == [email |-> e, type |-> type, password |-> 0]
<1>1. new \in User /\ new.email = e /\ new.type = type /\ new.password = 0
  BY DEF User
<1>2. users \in Seq(User) /\ users' = Append(users, new)
  BY DEF TokenRows, NewUser
<1> HIDE DEF new
<1> QED BY <1>1, <1>2, RowAppended

\* A grant is added unless the user has it, and then it is there.
LEMMA GrantAdded ==
  ASSUME GrantRows, NEW u \in Nat \ {0}, NEW c \in Codes, grants' = Granted(u, c)
  PROVE  /\ grants' \in Seq(Grant) /\ DOMAIN grants \subseteq DOMAIN grants'
         /\ \A g \in DOMAIN grants : grants'[g] = grants[g]
         /\ \A g \in DOMAIN grants' : g \in DOMAIN grants \/ grants'[g].role = c
         /\ \E g \in DOMAIN grants' : grants'[g].user = u /\ grants'[g].role = c
<1> DEFINE new == [user |-> u, role |-> c, live |-> TRUE]
<1>1. new \in Grant /\ new.user = u /\ new.role = c
  BY DEF Grant
<1>2. grants \in Seq(Grant) /\ grants' = Append(grants, new)
  BY DEF GrantRows, Granted
<1> HIDE DEF new
<1> QED BY <1>1, <1>2, RowAppended

\* What the steps of accounts keep of invitations that they do not touch.
LEMMA InvitationsKept ==
  ASSUME InvitationRows, invitations' = invitations, DOMAIN roles \subseteq DOMAIN roles',
         DOMAIN users \subseteq DOMAIN users',
         \A u \in DOMAIN users : users'[u].email = users[u].email,
         DOMAIN grants \subseteq DOMAIN grants',
         \A g \in DOMAIN grants : /\ grants'[g].user = grants[g].user
                                  /\ grants'[g].role = grants[g].role
  PROVE  InvitationRows'
<1>1. \A i \in DOMAIN invitations : Accepted(invitations[i]) => Accepted(invitations[i])'
  BY DEF Accepted
<1> QED BY <1>1 DEF InvitationRows

\* A grant's live column alone changes.
LEMMA GrantRemoved ==
  ASSUME GrantRows, NEW g \in DOMAIN grants, grants' = [grants EXCEPT ![g].live = FALSE]
  PROVE  /\ grants' \in Seq(Grant) /\ DOMAIN grants' = DOMAIN grants
         /\ \A k \in DOMAIN grants : /\ grants'[k].user = grants[k].user
                                     /\ grants'[k].role = grants[k].role
                                     /\ grants'[k].live => grants[k] = grants'[k]
<1>1. PICK t \in Grant : t = grants[g]
  BY DEF GrantRows
<1> DEFINE new == [t EXCEPT !.live = FALSE]
<1>2. new \in Grant /\ new.user = t.user /\ new.role = t.role /\ ~new.live
  BY DEF Grant
<1>3. grants \in Seq(Grant) /\ grants' = [grants EXCEPT ![g] = new]
  BY <1>1 DEF GrantRows
<1> HIDE DEF new
<1>g. g \in DOMAIN grants
  OBVIOUS
<1>4. grants' \in Seq(Grant) /\ DOMAIN grants' = DOMAIN grants
  BY ONLY <1>2, <1>3, <1>g
<1>5. \A k \in DOMAIN grants : grants'[k] = IF k = g THEN new ELSE grants[k]
  BY <1>3
<1> QED BY <1>1, <1>2, <1>4, <1>5

\* The administrator's role is written with the whole catalogue.
LEMMA AdminRoleWritten ==
  ASSUME RoleRows, roles' = RolesWithAdmin, seeded' = TRUE
  PROVE  /\ RoleRows' /\ Admin \in DOMAIN roles' /\ roles'[Admin] = Catalog
         /\ DOMAIN roles \subseteq DOMAIN roles'
<1>1. /\ DOMAIN roles' = DOMAIN roles \cup {Admin} /\ IsTable(roles')
      /\ \A c \in DOMAIN roles' : roles'[c] = IF c = Admin THEN Catalog ELSE roles[c]
  BY DEF RolesWithAdmin, WithRow, IsTable
<1>2. Admin \in Codes /\ \A c \in DOMAIN roles : roles[c] \subseteq Catalog
  BY AccountsAssumption DEF RoleRows, Permissions
<1>3. seeded' \in BOOLEAN /\ Permissions' = Catalog
  BY DEF Permissions
<1> QED BY <1>1, <1>2, <1>3 DEF RoleRows

\* Registering a user keeps the invariant.
LEMMA RegisterSaveKeeps ==
  ASSUME AccessInv, NEW r \in Requests, RegisterSave(r), served = "accounts", UNCHANGED served
  PROVE  AccessInv'
<1> DEFINE x == req[r]  n == Len(users) + 1
<1>0. /\ OnlySlot(r, AccountLabels) /\ Slots /\ TokenRows /\ AccountRows /\ x.email \in Emails
      /\ req'[r].at = "idle"
  BY AccountSlot DEF AccessInv, AccountStep, AccessCarries, RegisterSave, Return, Slots, Idle
<1>1. CASE UNCHANGED <<users, sessions, accounts>>
  <2>1. AccessCarries(req[r])'
    BY <1>0 DEF AccessCarries
  <2> QED BY <1>0, <1>1, <2>1, AccessQuiet
<1>2. CASE ~UNCHANGED <<users, sessions, accounts>>
  <2>1. /\ WithEmail(x.email) = {} /\ users' = NewUser(x.email, "institution_admin")
        /\ tokens' = NewFamily(n) /\ roles' = RolesWithAdmin /\ seeded' = TRUE
        /\ grants' = Granted(n, Admin) /\ UNCHANGED <<resets, failures, ended, invitations>>
    BY <1>2 DEF RegisterSave
  <2>2. /\ users' \in Seq(User) /\ n \in Nat \ {0} /\ n \notin DOMAIN users
        /\ DOMAIN users' = DOMAIN users \cup {n}
        /\ \A u \in DOMAIN users : users'[u] = users[u]
        /\ users'[n].email = x.email
    BY <1>0, <2>1, UserAdded
  <2> HIDE DEF n
  <2>3. TokenRows' /\ DOMAIN tokens \subseteq DOMAIN tokens'
    <3>1. failures' \in [Emails -> Nat]
      BY <1>0, <2>1 DEF TokenRows
    <3> QED BY <1>0, <2>1, <2>2, <3>1, FamilyRows, FamilyAdded
  <2>4. /\ RoleRows' /\ Admin \in DOMAIN roles' /\ roles'[Admin] = Catalog
        /\ DOMAIN roles \subseteq DOMAIN roles'
    BY <1>0, <2>1, AdminRoleWritten DEF AccountRows
  <2>5. /\ grants' \in Seq(Grant) /\ DOMAIN grants \subseteq DOMAIN grants'
        /\ \A g \in DOMAIN grants : grants'[g] = grants[g]
        /\ \A g \in DOMAIN grants' : g \in DOMAIN grants \/ grants'[g].role = Admin
    BY <1>0, <2>1, <2>2, GrantAdded, AccountsAssumption DEF AccountRows
  <2>6. GrantRows'
    BY <1>0, <2>4, <2>5 DEF AccountRows, GrantRows
  <2>7. AccountUsers'
    <3>1. \A u \in DOMAIN users : users[u].email # x.email
      BY <2>1 DEF WithEmail
    <3>2. \A u, v \in DOMAIN users' : users'[u].email = users'[v].email => u = v
      BY <1>0, <2>2, <3>1 DEF AccountRows, AccountUsers
    <3> QED BY <2>4, <3>2 DEF AccountUsers
  <2>8. InvitationRows'
    BY <1>0, <2>1, <2>2, <2>4, <2>5, InvitationsKept DEF AccountRows
  <2> QED
    BY <1>0, <2>1, <2>2, <2>3, <2>4, <2>5, <2>6, <2>7, <2>8, AccountWritten DEF AccountRows
<1> QED BY <1>1, <1>2

\* Accepting an invitation keeps it: the new user is nobody else's.
LEMMA AcceptSaveKeeps ==
  ASSUME AccessInv, NEW r \in Requests, AcceptSave(r), served = "accounts", UNCHANGED served
  PROVE  AccessInv'
<1> DEFINE i == req[r].invitation  n == Len(users) + 1  x == invitations[i]
<1>0. /\ OnlySlot(r, AccountLabels) /\ Slots /\ TokenRows /\ AccountRows
      /\ i \in DOMAIN invitations /\ req'[r].at = "idle"
  BY AccountSlot DEF AccessInv, AccountStep, AccessCarries, AcceptSave, Return, Slots, Idle
<1>1. CASE UNCHANGED <<users, sessions, accounts>>
  <2>1. AccessCarries(req[r])'
    BY <1>0 DEF AccessCarries
  <2> QED BY <1>0, <1>1, <2>1, AccessQuiet
<1>2. CASE ~UNCHANGED <<users, sessions, accounts>>
  <2>0. /\ invitations \in Seq(Invitation) /\ x \in Invitation /\ x.role \in DOMAIN roles \cup {Null}
        /\ DOMAIN roles \subseteq Codes
    BY <1>0 DEF AccountRows, InvitationRows, RoleRows
  <2>a. x.email \in Emails /\ x.role \in Codes \cup {Null}
    BY <2>0 DEF Invitation
  <2>1. /\ WithEmail(x.email) = {} /\ users' = NewUser(x.email, "employee")
        /\ tokens' = NewFamily(n) /\ UNCHANGED <<resets, failures, ended, roles, seeded>>
        /\ grants' = IF x.role = Null THEN grants ELSE Granted(n, x.role)
        /\ invitations' = [invitations EXCEPT ![i].status = "accepted", ![i].user = n]
    BY <1>2 DEF AcceptSave, EmailTaken
  <2>2. /\ users' \in Seq(User) /\ n \in Nat \ {0} /\ n \notin DOMAIN users
        /\ DOMAIN users' = DOMAIN users \cup {n}
        /\ \A u \in DOMAIN users : users'[u] = users[u]
        /\ users'[n].email = x.email /\ users'[n].type = "employee"
    BY <1>0, <2>a, <2>1, UserAdded
  <2> DEFINE done == [x EXCEPT !.status = "accepted", !.user = n]
  <2>3. /\ done \in Invitation /\ done.status = "accepted" /\ done.user = n
        /\ done.email = x.email /\ done.role = x.role
    <3>1. PICK t \in Invitation : t = x
      BY <2>0
    <3>2. PICK m \in Nat : m = n
      BY <2>2
    <3>3. LET new == [t EXCEPT !.status = "accepted", !.user = m] IN
          /\ new \in Invitation /\ new.status = "accepted" /\ new.user = m
          /\ new.email = t.email /\ new.role = t.role
      BY DEF Invitation
    <3> HIDE DEF x, n
    <3> QED BY <3>1, <3>2, <3>3
  <2>4. invitations' = [invitations EXCEPT ![i] = done]
    BY <2>1
  <2> HIDE DEF done, n
  <2>5. /\ invitations' \in Seq(Invitation) /\ DOMAIN invitations' = DOMAIN invitations
        /\ \A k \in DOMAIN invitations : invitations'[k] = IF k = i THEN done ELSE invitations[k]
    <3> HIDE DEF x, i
    <3>1. invitations' \in Seq(Invitation) /\ DOMAIN invitations' = DOMAIN invitations
      BY <1>0, <2>0, <2>3, <2>4
    <3> QED BY <1>0, <2>4, <3>1
  <2>6. TokenRows' /\ DOMAIN tokens \subseteq DOMAIN tokens'
    <3>1. failures' \in [Emails -> Nat]
      BY <1>0, <2>1 DEF TokenRows
    <3> QED BY <1>0, <2>1, <2>2, <3>1, FamilyRows, FamilyAdded
  <2>7. /\ grants' \in Seq(Grant) /\ DOMAIN grants \subseteq DOMAIN grants'
        /\ \A g \in DOMAIN grants : grants'[g] = grants[g]
        /\ \A g \in DOMAIN grants' : g \in DOMAIN grants \/ grants'[g].role \in DOMAIN roles
        /\ x.role # Null => \E g \in DOMAIN grants' : grants'[g].user = n /\ grants'[g].role = x.role
    <3>1. CASE x.role = Null
      BY <1>0, <2>1, <3>1 DEF AccountRows, GrantRows
    <3>2. CASE x.role # Null
      <4>1. grants' = Granted(n, x.role) /\ x.role \in Codes /\ x.role \in DOMAIN roles
        BY <2>0, <2>a, <2>1, <3>2
      <4> QED BY <1>0, <2>2, <4>1, GrantAdded DEF AccountRows
    <3> QED BY <3>1, <3>2
  <2>8. RoleRows' /\ GrantRows'
    BY <1>0, <2>1, <2>7 DEF AccountRows, RoleRows, GrantRows, Permissions, IsTable
  <2>9. AccountUsers'
    <3>1. \A u \in DOMAIN users : users[u].email # x.email
      BY <2>1 DEF WithEmail
    <3>2. \A u, v \in DOMAIN users' : users'[u].email = users'[v].email => u = v
      BY <1>0, <2>2, <3>1 DEF AccountRows, AccountUsers
    <3>3. \A u \in DOMAIN users' : Administrator(u)' => u \in DOMAIN users /\ Administrator(u)
      BY <2>2 DEF Administrator
    <3> QED BY <1>0, <2>1, <3>2, <3>3 DEF AccountRows, AccountUsers
  <2>10. InvitationRows'
    <3>1. /\ InvitationRows /\ \A k \in DOMAIN invitations : invitations[k].user # n
      <4>1. \A k \in DOMAIN invitations :
              invitations[k] \in Invitation
        BY <2>0
      <4>2. \A k \in DOMAIN invitations : invitations[k].status \in {"pending", "accepted"}
        BY <4>1 DEF Invitation
      <4> QED BY <1>0, <2>2, <4>2, NullIsNoNumber DEF AccountRows, InvitationRows, Accepted
    <3>2. ASSUME NEW k \in DOMAIN invitations'
          PROVE  /\ invitations'[k].role \in DOMAIN roles' \cup {Null}
                 /\ invitations'[k].status = "pending" => invitations'[k].user = Null
                 /\ invitations'[k].status = "accepted" => Accepted(invitations[k])'
      <4>1. CASE k = i
        <5>1. invitations'[k] = done
          BY <1>0, <2>5, <4>1
        <5>2. Accepted(invitations[k])'
          BY <2>2, <2>3, <2>7, <5>1 DEF Accepted
        <5> QED BY <2>0, <2>1, <2>3, <5>1, <5>2
      <4>2. CASE k # i
        <5>1. invitations'[k] = invitations[k] /\ k \in DOMAIN invitations
          BY <2>5, <4>2
        <5>2. Accepted(invitations[k]) => Accepted(invitations[k])'
          BY <2>2, <2>7, <5>1 DEF Accepted
        <5> QED BY <2>1, <3>1, <5>1, <5>2 DEF InvitationRows
      <4> QED BY <4>1, <4>2
    <3>3. \A k \in DOMAIN invitations' : \A j \in DOMAIN invitations' \ {k} :
            invitations'[k].status = "accepted" => invitations'[j].user # invitations'[k].user
      <4>1. invitations'[i] = done /\ \A k \in DOMAIN invitations \ {i} : invitations'[k] = invitations[k]
        BY <1>0, <2>5
      <4>2. \A k \in DOMAIN invitations : \A j \in DOMAIN invitations \ {k} :
              invitations[k].status = "accepted" => invitations[j].user # invitations[k].user
        BY <3>1 DEF InvitationRows
      <4> QED BY <2>3, <2>5, <3>1, <4>1, <4>2
    <3> QED BY <2>5, <3>2, <3>3 DEF InvitationRows
  <2> QED
    BY <1>0, <2>1, <2>2, <2>5, <2>6, <2>7, <2>8, <2>9, <2>10, AccountWritten DEF AccountRows
<1> QED BY <1>1, <1>2

\* Every handler of the account part keeps the invariant.
LEMMA AccountSteps ==
  ASSUME AccessInv, NEW r \in Requests, AccountStep(r), served = "accounts", UNCHANGED served
  PROVE  AccessInv'
<1> DEFINE x == req[r]
<1>0. OnlySlot(r, AccountLabels) /\ Slots /\ TokenRows /\ AccountRows /\ AccessCarries(x)
  BY AccountSlot DEF AccessInv
<1>q. ASSUME UNCHANGED <<users, sessions, accounts>>, AccessCarries(req[r])' PROVE AccessInv'
  BY <1>0, <1>q, AccessQuiet
<1>1. ASSUME NEW e \in Emails, RegisterLoad(r, e) PROVE AccessInv'
  <2>1. AccessCarries(req[r])'
    BY <1>0, <1>1 DEF RegisterLoad, Begin, Slots, AccessCarries
  <2> QED BY <1>1, <1>q, <2>1 DEF RegisterLoad
<1>2. ASSUME NEW e \in Emails, NEW role \in Codes \cup {Null}, Invite(r, e, role) PROVE AccessInv'
  <2> DEFINE new == [email |-> e, role |-> role, status |-> "pending", user |-> Null]
  <2>1. /\ invitations' = Append(invitations, new) /\ role \in DOMAIN roles \cup {Null}
        /\ UNCHANGED <<users, sessions, roles, grants, seeded, req>> /\ req'[r].at = "idle"
    BY <1>2 DEF Invite, Idle
  <2>2. new \in Invitation /\ new.role = role /\ new.status = "pending" /\ new.user = Null
    BY DEF Invitation
  <2>3. invitations \in Seq(Invitation)
    BY <1>0 DEF AccountRows, InvitationRows
  <2> HIDE DEF new
  <2>4. /\ invitations' \in Seq(Invitation) /\ DOMAIN invitations \subseteq DOMAIN invitations'
        /\ \A i \in DOMAIN invitations : invitations'[i] = invitations[i]
        /\ \A i \in DOMAIN invitations' : i \in DOMAIN invitations \/ invitations'[i] = new
    BY <2>1, <2>2, <2>3, RowAppended
  <2>5. InvitationRows'
    <3>1. \A i \in DOMAIN invitations : Accepted(invitations[i]) => Accepted(invitations[i])'
      BY <2>1, <2>4 DEF Accepted
    <3>2. \A i \in DOMAIN invitations : invitations[i].status = "accepted" => invitations[i].user # Null
      <4>1. \A i \in DOMAIN invitations :
              invitations[i].status = "accepted" => invitations[i].user \in DOMAIN users
        BY <1>0 DEF AccountRows, InvitationRows, Accepted
      <4>2. DOMAIN users \subseteq Nat
        <5>1. users \in Seq(User)
          BY <1>0 DEF TokenRows
        <5> QED BY <5>1
      <4> QED BY <4>1, <4>2, NullIsNoNumber
    <3>3. \A i \in DOMAIN invitations' :
            /\ invitations'[i].role \in DOMAIN roles' \cup {Null}
            /\ invitations'[i].status = "pending" => invitations'[i].user = Null
            /\ invitations'[i].status = "accepted" => Accepted(invitations[i])'
      BY <1>0, <2>1, <2>2, <2>4, <3>1 DEF AccountRows, InvitationRows
    <3>4. \A i \in DOMAIN invitations' : \A j \in DOMAIN invitations' \ {i} :
            invitations'[i].status = "accepted" => invitations'[j].user # invitations'[i].user
      <4>1. \A i \in DOMAIN invitations : \A j \in DOMAIN invitations \ {i} :
              invitations[i].status = "accepted" => invitations[j].user # invitations[i].user
        BY <1>0 DEF AccountRows, InvitationRows
      <4> QED BY <2>2, <2>4, <3>2, <4>1
    <3> QED BY <2>4, <3>3, <3>4 DEF InvitationRows
  <2>6. TokenRows' /\ RoleRows' /\ GrantRows' /\ AccountUsers'
    BY <1>0, <2>1 DEF sessions, TokenRows, AccountRows, RoleRows, GrantRows, AccountUsers,
       Permissions, IsTable, Administrator
  <2> QED BY <1>0, <2>1, <2>4, <2>5, <2>6, AccountWritten DEF sessions, AccountRows
<1>3. ASSUME NEW i \in DOMAIN invitations, AcceptLoad(r, i) PROVE AccessInv'
  <2>1. AccessCarries(req[r])'
    BY <1>0, <1>3 DEF AcceptLoad, Begin, Slots, AccessCarries, accounts
  <2> QED BY <1>3, <1>q, <2>1 DEF AcceptLoad
<1>4. ASSUME NEW c \in Codes, NEW codes \in Custom, RoleLoad(r, c, codes) PROVE AccessInv'
  <2>1. AccessCarries(req[r])'
    BY <1>0, <1>4 DEF RoleLoad, Begin, Slots, AccessCarries
  <2> QED BY <1>4, <1>q, <2>1 DEF RoleLoad
<1>5. ASSUME NEW u \in DOMAIN users, NEW c \in Codes, AssignLoad(r, u, c) PROVE AccessInv'
  <2>1. AccessCarries(req[r])'
    BY <1>0, <1>5 DEF AssignLoad, Begin, Slots, AccessCarries, accounts
  <2> QED BY <1>5, <1>q, <2>1 DEF AssignLoad
<1>6. ASSUME NEW u \in DOMAIN users, NEW c \in Codes, RemoveLoad(r, u, c) PROVE AccessInv'
  <2>1. PICK g \in DOMAIN grants : req'[r] = [at |-> "remove.save", grant |-> g]
    BY <1>0, <1>6 DEF RemoveLoad, Grants, Begin, Slots
  <2>2. AccessCarries(req[r])'
    BY <1>6, <2>1 DEF RemoveLoad, AccessCarries, accounts
  <2> QED BY <1>6, <1>q, <2>2 DEF RemoveLoad
<1>7. CASE RoleSave(r)
  <2>0. /\ req'[r].at = "idle" /\ UNCHANGED <<users, sessions, invitations, grants>>
        /\ x.code \in Codes /\ x.codes \subseteq Catalog
    BY <1>0, <1>7, AccountsAssumption DEF RoleSave, Return, Slots, Idle, AccessCarries
  <2>1. CASE UNCHANGED <<roles, seeded>>
    <3>1. AccessCarries(req[r])'
      BY <2>0 DEF AccessCarries
    <3> QED BY <1>q, <2>0, <2>1, <3>1 DEF accounts
  <2>2. CASE ~UNCHANGED <<roles, seeded>>
    <3>1. /\ x.code \notin DOMAIN roles /\ seeded' = TRUE
          /\ roles' = WithRow(roles, x.code, x.codes)
      BY <1>7, <2>2 DEF RoleSave
    <3>2. /\ DOMAIN roles' = DOMAIN roles \cup {x.code} /\ IsTable(roles')
          /\ roles'[x.code] = x.codes /\ \A c \in DOMAIN roles : roles'[c] = roles[c]
      BY <3>1 DEF WithRow, IsTable
    <3>3. RoleRows'
      <4>1. \A c \in DOMAIN roles : roles[c] \subseteq Catalog
        BY <1>0 DEF AccountRows, RoleRows, Permissions
      <4>2. seeded' \in BOOLEAN /\ Permissions' = Catalog
        BY <3>1 DEF Permissions
      <4> QED BY <1>0, <2>0, <3>2, <4>1, <4>2 DEF AccountRows, RoleRows
    <3>4. TokenRows' /\ GrantRows'
      BY <1>0, <2>0, <3>2 DEF sessions, TokenRows, AccountRows, GrantRows
    <3>5. AccountUsers'
      BY <1>0, <2>0, <3>1, <3>2 DEF AccountRows, AccountUsers, Administrator
    <3>6. InvitationRows'
      BY <1>0, <2>0, <3>2, InvitationsKept DEF AccountRows
    <3> QED
      BY <1>0, <2>0, <3>2, <3>3, <3>4, <3>5, <3>6, AccountWritten DEF sessions, AccountRows
  <2> QED BY <2>1, <2>2
<1>8. CASE AssignSave(r)
  <2>0. /\ req'[r].at = "idle" /\ UNCHANGED <<users, sessions, invitations, roles, seeded>>
        /\ x.user \in DOMAIN users /\ x.role \in DOMAIN roles
    BY <1>0, <1>8 DEF AssignSave, Return, Slots, Idle, AccessCarries
  <2>1. CASE grants' = grants
    <3>1. AccessCarries(req[r])'
      BY <2>0 DEF AccessCarries
    <3> QED BY <1>q, <2>0, <2>1, <3>1 DEF accounts
  <2>2. CASE grants' = Granted(x.user, x.role)
    <3>1. x.user \in Nat \ {0} /\ x.role \in Codes
      <4>1. users \in Seq(User)
        BY <1>0 DEF TokenRows
      <4>2. DOMAIN users \subseteq Nat \ {0}
        BY <4>1
      <4> QED BY <1>0, <2>0, <4>2 DEF AccountRows, RoleRows
    <3>2. /\ grants' \in Seq(Grant) /\ DOMAIN grants \subseteq DOMAIN grants'
          /\ \A g \in DOMAIN grants : grants'[g] = grants[g]
          /\ \A g \in DOMAIN grants' : g \in DOMAIN grants \/ grants'[g].role = x.role
      BY <1>0, <2>2, <3>1, GrantAdded DEF AccountRows
    <3>3. GrantRows'
      BY <1>0, <2>0, <3>2 DEF AccountRows, GrantRows
    <3>4. TokenRows' /\ RoleRows' /\ AccountUsers'
      BY <1>0, <2>0 DEF sessions, TokenRows, AccountRows, RoleRows, AccountUsers, Permissions,
         IsTable, Administrator
    <3>5. InvitationRows'
      BY <1>0, <2>0, <3>2, InvitationsKept DEF AccountRows
    <3> QED BY <1>0, <2>0, <3>2, <3>3, <3>4, <3>5, AccountWritten DEF sessions, AccountRows
  <2> QED BY <1>8, <2>1, <2>2 DEF AssignSave
<1>9. CASE RemoveSave(r)
  <2>0. /\ req'[r].at = "idle" /\ UNCHANGED <<users, sessions, invitations, roles, seeded>>
        /\ x.grant \in DOMAIN grants /\ grants' = [grants EXCEPT ![x.grant].live = FALSE]
    BY <1>0, <1>9 DEF RemoveSave, Return, Slots, Idle, AccessCarries
  <2>1. /\ grants' \in Seq(Grant) /\ DOMAIN grants' = DOMAIN grants
        /\ \A g \in DOMAIN grants : /\ grants'[g].user = grants[g].user
                                    /\ grants'[g].role = grants[g].role
    BY <1>0, <2>0, GrantRemoved DEF AccountRows
  <2>2. GrantRows'
    BY <1>0, <2>0, <2>1 DEF AccountRows, GrantRows
  <2>3. TokenRows' /\ RoleRows' /\ AccountUsers'
    BY <1>0, <2>0 DEF sessions, TokenRows, AccountRows, RoleRows, AccountUsers, Permissions,
       IsTable, Administrator
  <2>4. InvitationRows'
    BY <1>0, <2>0, <2>1, InvitationsKept DEF AccountRows
  <2> QED BY <1>0, <2>0, <2>1, <2>2, <2>3, <2>4, AccountWritten DEF sessions, AccountRows
<1>10. CASE RegisterRefused(r)
  <2>1. AccessCarries(req[r])'
    BY <1>0, <1>10 DEF RegisterRefused, Return, Slots, Idle, AccessCarries
  <2> QED BY <1>10, <1>q, <2>1 DEF RegisterRefused
<1> QED
  BY <1>1, <1>2, <1>3, <1>4, <1>5, <1>6, <1>7, <1>8, <1>9, <1>10, RegisterSaveKeeps,
     AcceptSaveKeeps DEF AccountStep

\* A step of an account's or a session's handler, or of the clock.
LEMMA AccessSteps ==
  ASSUME Next
  PROVE  /\ UNCHANGED served
         /\ \/ served = "accounts" /\ \E r \in Requests : AccountStep(r)
            \/ /\ served = "sessions" /\ UNCHANGED accounts
               /\ WindowPasses \/ \E r \in Requests : SessionStep(r)
BY DEF Next

\* Every step keeps the invariant.
LEMMA AccessInvStep == AccessInv /\ [Next]_vars => AccessInv'
<1> SUFFICES ASSUME AccessInv, [Next]_vars PROVE AccessInv'
  OBVIOUS
<1>1. CASE UNCHANGED vars
  BY <1>1 DEF vars, sessions, accounts, AccessInv, KindRows, TokenRows, IsTable, Slots,
     AccountRows, RoleRows, GrantRows, AccountUsers, InvitationRows, Accepted, Permissions,
     Administrator, AccessCarries
<1>2. CASE Next
  BY <1>2, AccessSteps, AccountSteps, SessionSteps, WindowRows
<1> QED BY <1>1, <1>2

\* Users, tokens, resets, invitations, roles and grants have their columns' types, and
\* roles bind permissions that are in the table.
THEOREM AccessTypeCorrect == Spec => []TypeOK
<1>1. AccessInv => TypeOK
  <2> SUFFICES ASSUME AccessInv PROVE TypeOK
    OBVIOUS
  <2>1. ended \subseteq Nat
    <3>1. ended \subseteq 1..Len(tokens) /\ tokens \in Seq(Token)
      BY DEF AccessInv, TokenRows
    <3>2. 1..Len(tokens) \subseteq Nat
      BY <3>1
    <3> QED BY <3>1, <3>2
  <2>2. roles \in RoleTable
    <3>1. Permissions \subseteq Catalog
      BY DEF Permissions
    <3>2. DOMAIN roles \in SUBSET Codes /\ \A c \in DOMAIN roles : roles[c] \in RolePermissions
      BY <3>1 DEF AccessInv, AccountRows, RoleRows, RolePermissions
    <3>3. roles = [c \in DOMAIN roles |-> roles[c]]
      BY DEF AccessInv, AccountRows, RoleRows, IsTable
    <3>4. PICK D : D = DOMAIN roles
      OBVIOUS
    <3>5. roles \in [D -> RolePermissions]
      BY <3>2, <3>3, <3>4
    <3> QED BY <3>2, <3>4, <3>5 DEF RoleTable
  <2> QED
    BY <2>1, <2>2 DEF AccessInv, TokenRows, AccountRows, RoleRows, GrantRows, InvitationRows, TypeOK
<1> QED BY <1>1, AccessInvInit, AccessInvStep, PTL DEF Spec

\* Who is an administrator and still has the role has every permission of the catalog,
\* with any number of registrations, removals and custom roles in flight.
THEOREM AdministratorsCorrect == Spec => []AdministratorsHoldCatalog
<1>1. AccessInv => AdministratorsHoldCatalog
  <2> SUFFICES ASSUME AccessInv, NEW u \in DOMAIN users, Administrator(u), Grants(u, Admin) # {}
               PROVE  PermissionCodes(u) = Catalog
    BY DEF AdministratorsHoldCatalog, Administrator
  <2>1. served = "accounts"
    BY DEF AccessInv, KindRows, Grants
  <2>2. Admin \in DOMAIN roles /\ roles[Admin] = Catalog
    BY <2>1 DEF AccessInv, AccountRows, AccountUsers
  <2>3. \A c \in DOMAIN roles : roles[c] \subseteq Catalog
    BY DEF AccessInv, AccountRows, RoleRows, Permissions
  <2> QED BY <2>2, <2>3 DEF PermissionCodes
<1> QED BY <1>1, AccessInvInit, AccessInvStep, PTL DEF Spec

-----------------------------------------------------------------------------
(* One request at a time: a request that is about to write has loaded what is     *)
(* there.  A family is then a chain whose last token alone can be active.         *)

\* What makes a family a chain: a token and its replacement point at each
\* other, and the active one is the last.
Chains ==
  \A i, j \in DOMAIN tokens :
    /\ tokens[i].replaced = j <=> tokens[j].parent = i
    /\ tokens[i].family = tokens[j].family /\ tokens[i].status = "active" => j <= i

\* A family that was ended has no active token.
EndedRows == \A i \in DOMAIN tokens : tokens[i].family \in ended => tokens[i].status # "active"

\* The tickets of a user that were used.
UsedResets(u) == {i \in DOMAIN resets : resets[i].user = u /\ resets[i].used}

\* A password was changed as often as tickets were used.
PasswordRows == \A u \in DOMAIN users : users[u].password = Cardinality(UsedResets(u))

\* A refresh, or a reset, that is alone finds what it has loaded unchanged.
AccessCurrent(x) ==
  /\ x.at = "refresh" => x.status = tokens[x.token].status
  /\ x.at = "reset.save" => ~resets[x.reset].used

\* The invariant of the requests taken one at a time.
ChainInv ==
  OneAtATime => Chains /\ EndedRows /\ PasswordRows /\ \A r \in Requests : AccessCurrent(req[r])

\* No token and no ticket is there in the beginning.
LEMMA ChainInit == Init => ChainInv
<1> SUFFICES ASSUME Init PROVE ChainInv
  OBVIOUS
<1>1. /\ resets = << >> /\ ended = {} /\ \A r \in Requests : req[r].at \in {"idle", "unused"}
  BY DEF Init, SessionsInit, InitRequests, Idle, Unused
<1>2. /\ DOMAIN tokens = DOMAIN users
      /\ \A i \in DOMAIN tokens : /\ tokens[i].family = i /\ tokens[i].parent = Null
                                  /\ tokens[i].replaced = Null
  BY DEF Init, SessionsInit, IssueActive
<1>3. users \in Seq(User) /\ \A u \in DOMAIN users : users[u].password = 0
  BY AccountsAssumption DEF Init
<1>4. DOMAIN users \subseteq Nat
  BY <1>3
<1>5. Chains
  <2>1. \A i, j \in DOMAIN tokens : Null # j /\ Null # i
    BY <1>2, <1>4, NullIsNoNumber
  <2> QED BY <1>2, <1>4, <2>1 DEF Chains
<1>6. \A u : UsedResets(u) = {}
  BY <1>1 DEF UsedResets
<1>7. PasswordRows
  BY <1>3, <1>6, FS_EmptySet DEF PasswordRows
<1> QED BY <1>1, <1>5, <1>7 DEF ChainInv, EndedRows, AccessCurrent

\* Striking tokens leaves the chains as they are, and no token becomes active.
LEMMA StrickenChains ==
  ASSUME Stricken
  PROVE  (Chains => Chains') /\ (EndedRows /\ ended' = ended => EndedRows')
<1>1. /\ DOMAIN tokens' = DOMAIN tokens
      /\ \A i \in DOMAIN tokens :
           /\ tokens'[i].family = tokens[i].family /\ tokens'[i].parent = tokens[i].parent
           /\ tokens'[i].replaced = tokens[i].replaced
           /\ tokens'[i].status = "active" => tokens[i].status = "active"
  BY DEF Stricken
<1>2. ASSUME Chains PROVE Chains'
  BY <1>1, <1>2 DEF Chains
<1>3. ASSUME EndedRows, ended' = ended PROVE EndedRows'
  BY <1>1, <1>3 DEF EndedRows
<1> QED BY <1>2, <1>3

\* A new family is a chain of one token.
LEMMA FamilyChains ==
  ASSUME TokenRows, Chains, EndedRows, NEW u \in Nat \ {0}, tokens' = NewFamily(u), ended' = ended
  PROVE  Chains' /\ EndedRows'
<1> DEFINE n == Len(tokens) + 1
<1>1. /\ DOMAIN tokens' = DOMAIN tokens \cup {n}
      /\ Len(tokens) \in Nat /\ DOMAIN tokens = 1..Len(tokens)
      /\ \A i \in DOMAIN tokens : tokens'[i] = tokens[i]
      /\ tokens'[n].family = n /\ tokens'[n].parent = Null /\ tokens'[n].replaced = Null
  BY FamilyAdded
<1>2. /\ n \in Nat /\ \A i \in DOMAIN tokens : i < n /\ i \in Nat
      /\ n \notin ended /\ n \notin DOMAIN tokens
      /\ \A i \in DOMAIN tokens : tokens[i].family # n
      /\ \A i \in DOMAIN tokens : tokens[i].parent # n /\ tokens[i].replaced # n
  BY <1>1, NullIsNoNumber DEF TokenRows
<1>3. \A i \in DOMAIN tokens' : Null # i
  BY <1>1, <1>2, NullIsNoNumber
<1> HIDE DEF n
<1>4. Chains'
  <2>1. \A i, j \in DOMAIN tokens :
          /\ tokens[i].replaced = j <=> tokens[j].parent = i
          /\ tokens[i].family = tokens[j].family /\ tokens[i].status = "active" => j <= i
    BY DEF Chains
  <2>2. \A i, j \in DOMAIN tokens' : tokens'[i].replaced = j <=> tokens'[j].parent = i
    BY <1>1, <1>2, <1>3, <2>1
  <2>3. \A i, j \in DOMAIN tokens' :
          tokens'[i].family = tokens'[j].family /\ tokens'[i].status = "active" => j <= i
    BY <1>1, <1>2, <2>1
  <2> QED BY <2>2, <2>3 DEF Chains
<1>5. EndedRows'
  BY <1>1, <1>2 DEF EndedRows
<1> QED BY <1>4, <1>5

\* The child of an active token continues its family's chain.
LEMMA ChildChains ==
  ASSUME TokenRows, Chains, EndedRows, NEW i \in DOMAIN tokens, tokens[i].status = "active",
         tokens' = Rotate(i), ended' = ended
  PROVE  Chains' /\ EndedRows'
<1> DEFINE n == Len(tokens) + 1
<1>1. /\ DOMAIN tokens' = DOMAIN tokens \cup {n}
      /\ Len(tokens) \in Nat /\ DOMAIN tokens = 1..Len(tokens)
      /\ \A k \in DOMAIN tokens : k # i => tokens'[k] = tokens[k]
      /\ tokens'[i].family = tokens[i].family /\ tokens'[i].parent = tokens[i].parent
      /\ tokens'[i].replaced = n /\ tokens'[i].status = "rotated"
      /\ tokens'[n].family = tokens[i].family
      /\ tokens'[n].parent = i /\ tokens'[n].replaced = Null
  BY ChildAdded
<1>2. /\ n \in Nat /\ \A k \in DOMAIN tokens : k < n /\ k \in Nat
      /\ n \notin DOMAIN tokens
      /\ \A k \in DOMAIN tokens : tokens[k].parent # n /\ tokens[k].replaced # n
      /\ tokens[i].replaced = Null
  BY <1>1, NullIsNoNumber DEF TokenRows
<1>3. \A k \in DOMAIN tokens' : Null # k
  BY <1>1, <1>2, NullIsNoNumber
<1> HIDE DEF n
<1>4. \A k, j \in DOMAIN tokens :
        /\ tokens[k].replaced = j <=> tokens[j].parent = k
        /\ tokens[k].family = tokens[j].family /\ tokens[k].status = "active" => j <= k
  BY DEF Chains
<1>5. \A k \in DOMAIN tokens : tokens[k].parent # i
  BY <1>2, <1>3, <1>1, <1>4
<1>6. \A k \in DOMAIN tokens : tokens[k].family = tokens[i].family /\ tokens[k].status = "active" => k = i
  BY <1>1, <1>2, <1>4
<1>7. Chains'
  <2>1. \A k, j \in DOMAIN tokens' : tokens'[k].replaced = j <=> tokens'[j].parent = k
    <3> SUFFICES ASSUME NEW k \in DOMAIN tokens', NEW j \in DOMAIN tokens'
                 PROVE  tokens'[k].replaced = j <=> tokens'[j].parent = k
      OBVIOUS
    <3>1. CASE k = n
      <4>1. tokens'[j].parent # n
        BY <1>1, <1>2
      <4> QED BY <1>1, <1>3, <3>1, <4>1
    <3>2. CASE k = i
      <4>1. tokens'[j].parent = i <=> j = n
        BY <1>1, <1>5
      <4> QED BY <1>1, <3>2, <4>1
    <3>3. CASE k # n /\ k # i
      <4>1. k \in DOMAIN tokens /\ tokens'[k] = tokens[k]
        BY <1>1, <3>3
      <4>2. CASE j = n
        BY <1>1, <1>2, <3>3, <4>1, <4>2
      <4>3. CASE j # n
        <5>1. j \in DOMAIN tokens /\ tokens'[j].parent = tokens[j].parent
          BY <1>1, <4>3
        <5> QED BY <1>4, <4>1, <5>1
      <4> QED BY <4>2, <4>3
    <3> QED BY <3>1, <3>2, <3>3
  <2>2. \A k, j \in DOMAIN tokens' :
          tokens'[k].family = tokens'[j].family /\ tokens'[k].status = "active" => j <= k
    <3> SUFFICES ASSUME NEW k \in DOMAIN tokens', NEW j \in DOMAIN tokens', k # n,
                        tokens'[k].family = tokens'[j].family, tokens'[k].status = "active"
                 PROVE  j <= k
      BY <1>1, <1>2
    <3>1. k \in DOMAIN tokens /\ k # i /\ tokens'[k] = tokens[k]
      BY <1>1
    <3>2. tokens[k].family # tokens[i].family
      BY <1>6, <3>1
    <3>3. j \in DOMAIN tokens /\ tokens'[j].family = tokens[j].family
      BY <1>1, <3>1, <3>2
    <3> QED BY <1>4, <3>1, <3>3
  <2> QED BY <2>1, <2>2 DEF Chains
<1>8. EndedRows'
  BY <1>1 DEF EndedRows
<1> QED BY <1>7, <1>8

\* A step of one request, with the others not used.
LEMMA ChainKept ==
  ASSUME ChainInv, NEW r \in Requests, NEW labels, OnlySlot(r, labels), "unused" \notin labels,
         OneAtATime => Chains' /\ EndedRows' /\ PasswordRows' /\ AccessCurrent(req[r])'
  PROVE  ChainInv'
<1> SUFFICES ASSUME OneAtATime'
             PROVE  Chains' /\ EndedRows' /\ PasswordRows' /\ \A p \in Requests : AccessCurrent(req[p])'
  BY DEF ChainInv
<1>1. OneAtATime /\ \A p \in Requests \ {r} : req'[p] = Unused
  BY OneSlot
<1> QED BY <1>1 DEF AccessCurrent, Unused

\* What all of a user's families ended leaves.
LEMMA EndedUser ==
  ASSUME TokenRows, EndedRows, Stricken, NEW u, ended' = ended \cup FamiliesOf(u),
         \A i \in DOMAIN tokens : tokens[i].user = u => tokens'[i].status # "active"
  PROVE  EndedRows'
<1> SUFFICES ASSUME NEW i \in DOMAIN tokens', tokens'[i].family \in ended'
             PROVE  tokens'[i].status # "active"
  BY DEF EndedRows
<1>1. /\ i \in DOMAIN tokens /\ tokens'[i].family = tokens[i].family
      /\ tokens'[i].status = "active" => tokens[i].status = "active"
  BY DEF Stricken
<1>2. CASE tokens[i].family \in ended
  BY <1>1, <1>2 DEF EndedRows
<1>3. CASE tokens[i].family \in FamiliesOf(u)
  <2>1. PICK j \in DOMAIN tokens : tokens[j].user = u /\ tokens[j].family = tokens[i].family
    BY <1>3 DEF FamiliesOf
  <2>2. \A k, j2 \in DOMAIN tokens :
          tokens[k].family = tokens[j2].family => tokens[k].user = tokens[j2].user
    BY DEF TokenRows
  <2>3. tokens[i].user = u
    BY <1>1, <2>1, <2>2
  <2> QED BY <1>1, <2>3
<1> QED BY <1>1, <1>2, <1>3

\* A session handler that is alone keeps the chains.
LEMMA ChainSession ==
  ASSUME AccessInv, ChainInv, NEW r \in Requests, SessionStep(r), OneAtATime
  PROVE  Chains' /\ EndedRows' /\ PasswordRows' /\ AccessCurrent(req[r])'
<1> DEFINE x == req[r]
<1>0. /\ OnlySlot(r, SessionLabels) /\ Slots /\ TokenRows /\ AccessCarries(x)
      /\ Chains /\ EndedRows /\ PasswordRows /\ AccessCurrent(x)
  BY SessionSlot DEF AccessInv, ChainInv
<1>u. ASSUME UNCHANGED <<tokens, ended>> PROVE Chains' /\ EndedRows'
  BY <1>0, <1>u DEF Chains, EndedRows
<1>p. ASSUME UNCHANGED <<users, resets>> PROVE PasswordRows'
  BY <1>0, <1>p DEF PasswordRows, UsedResets
<1>i. ASSUME req'[r].at = "idle" PROVE AccessCurrent(req[r])'
  BY <1>i DEF AccessCurrent
<1>n. users \in Seq(User) /\ DOMAIN users \subseteq Nat \ {0}
  <2>1. users \in Seq(User)
    BY <1>0 DEF TokenRows
  <2> QED BY <2>1
<1>1. ASSUME NEW e \in Emails, LoginAllowed(r, e)
      PROVE  Chains' /\ EndedRows' /\ PasswordRows' /\ AccessCurrent(req[r])'
  <2>1. req'[r].at = "login.find"
    BY <1>0, <1>1 DEF LoginAllowed, Begin, Slots
  <2> QED BY <1>1, <1>u, <1>p, <2>1 DEF LoginAllowed, AccessCurrent
<1>2. ASSUME NEW e \in Emails, RequestReset(r, e)
      PROVE  Chains' /\ EndedRows' /\ PasswordRows' /\ AccessCurrent(req[r])'
  <2>1. PICK u \in WithEmail(e) : resets' = Append(resets, [user |-> u, used |-> FALSE])
    BY <1>2 DEF RequestReset
  <2> DEFINE new == [user |-> u, used |-> FALSE]
  <2>2. new \in Reset /\ ~new.used /\ resets \in Seq(Reset)
    BY <1>0, <1>n DEF WithEmail, Reset, TokenRows
  <2> HIDE DEF new
  <2>3. /\ \A k \in DOMAIN resets : k \in DOMAIN resets' /\ resets'[k] = resets[k]
        /\ \A k \in DOMAIN resets' : k \in DOMAIN resets \/ resets'[k] = new
    BY <2>1, <2>2, RowAppended DEF new
  <2>4. \A v : UsedResets(v)' = UsedResets(v)
    BY <2>2, <2>3 DEF UsedResets
  <2>5. UNCHANGED <<users, tokens, failures, ended>> /\ req'[r].at = "idle"
    BY <1>2 DEF RequestReset, Idle
  <2>6. PasswordRows'
    BY <1>0, <2>4, <2>5 DEF PasswordRows
  <2> QED BY <1>u, <1>i, <2>5, <2>6
<1>3. CASE LoginFails(r)
  BY <1>0, <1>3, <1>u, <1>p, <1>i DEF LoginFails, Return, Slots, Idle
<1>4. CASE LoginFind(r)
  <2>1. UNCHANGED <<users, tokens, resets, ended>> /\ req'[r].at = "login.save"
    <3>1. PICK u : req' = [req EXCEPT ![r] = [at |-> "login.save", user |-> u]]
      BY <1>4 DEF LoginFind, Continue
    <3> QED BY <1>0, <1>4, <3>1 DEF LoginFind, Slots
  <2> QED BY <1>u, <1>p, <2>1 DEF AccessCurrent
<1>5. CASE LoginSave(r)
  <2>1. /\ UNCHANGED <<users, resets, ended>> /\ req'[r].at = "idle"
        /\ tokens' = NewFamily(x.user) /\ x.user \in Nat \ {0}
    BY <1>0, <1>n, <1>5 DEF LoginSave, Return, Slots, Idle, AccessCarries
  <2> QED BY <1>0, <1>p, <1>i, <2>1, FamilyChains
<1>6. ASSUME NEW i \in DOMAIN tokens, RefreshLoad(r, i) \/ LogoutLoad(r, i)
      PROVE  Chains' /\ EndedRows' /\ PasswordRows' /\ AccessCurrent(req[r])'
  <2>1. AccessCurrent(req[r])'
    BY <1>0, <1>6 DEF RefreshLoad, LogoutLoad, Begin, Slots, AccessCurrent
  <2> QED BY <1>6, <1>u, <1>p, <2>1 DEF RefreshLoad, LogoutLoad
<1>7. CASE RefreshReused(r)
  <2> DEFINE f == tokens[x.token].family
  <2>1. /\ UNCHANGED <<users, resets, failures>> /\ req'[r].at = "idle"
        /\ tokens' = FamilyReused(f) /\ ended' = ended \cup {f}
    BY <1>0, <1>7 DEF RefreshReused, Return, Slots, Idle
  <2> HIDE DEF f
  <2>2. Stricken /\ \A i \in DOMAIN tokens : tokens[i].family = f => tokens'[i].status # "active"
    BY <1>0, <2>1, ReusedStricken
  <2>3. EndedRows'
    BY <1>0, <2>1, <2>2 DEF EndedRows, Stricken
  <2> QED BY <1>0, <1>p, <1>i, <2>1, <2>2, <2>3, StrickenChains
<1>8. CASE RefreshExpired(r) \/ LogoutSave(r)
  <2>1. /\ UNCHANGED <<users, resets, failures, ended>> /\ req'[r].at = "idle"
        /\ x.token \in DOMAIN tokens
    BY <1>0, <1>8 DEF RefreshExpired, LogoutSave, Return, Slots, Idle, AccessCarries
  <2>2. \E status \in {"revoked", tokens[x.token].status} :
          tokens' = [tokens EXCEPT ![x.token].status = status]
    BY <1>8 DEF RefreshExpired, LogoutSave, Flushed
  <2>3. Stricken
    BY <1>0, <2>1, <2>2, OneStricken
  <2> QED BY <1>0, <1>p, <1>i, <2>1, <2>3, StrickenChains
<1>9. CASE RefreshRotates(r)
  <2>1. /\ UNCHANGED <<users, resets, failures, ended>> /\ req'[r].at = "idle"
        /\ x.token \in DOMAIN tokens /\ tokens' = Rotate(x.token)
        /\ tokens[x.token].status = "active"
    BY <1>0, <1>9 DEF RefreshRotates, Return, Slots, Idle, AccessCarries, AccessCurrent
  <2> QED BY <1>0, <1>p, <1>i, <2>1, ChildChains
<1>10. ASSUME NEW u \in DOMAIN users, LogoutAll(r, u)
       PROVE  Chains' /\ EndedRows' /\ PasswordRows' /\ AccessCurrent(req[r])'
  <2>1. /\ UNCHANGED <<users, resets, failures>> /\ req'[r].at = "idle"
        /\ tokens' = RevokedFor(u) /\ ended' = ended \cup FamiliesOf(u)
    BY <1>10 DEF LogoutAll, Idle
  <2>2. Stricken /\ \A i \in DOMAIN tokens : tokens[i].user = u => tokens'[i].status # "active"
    BY <1>0, <2>1, RevokedStricken
  <2>3. EndedRows'
    BY <1>0, <2>1, <2>2, EndedUser
  <2> QED BY <1>0, <1>p, <1>i, <2>1, <2>2, <2>3, StrickenChains
<1>11. ASSUME NEW i \in DOMAIN resets, ConfirmLoad(r, i)
       PROVE  Chains' /\ EndedRows' /\ PasswordRows' /\ AccessCurrent(req[r])'
  <2>1. AccessCurrent(req[r])'
    BY <1>0, <1>11 DEF ConfirmLoad, ResetUnused, Begin, Slots, AccessCurrent
  <2> QED BY <1>11, <1>u, <1>p, <2>1 DEF ConfirmLoad
<1>12. CASE ConfirmSave(r)
  <2> DEFINE i == x.reset  u == resets[i].user
  <2>1. /\ req'[r].at = "idle" /\ i \in DOMAIN resets /\ u \in DOMAIN users /\ ~resets[i].used
        /\ tokens' = RevokedFor(u) /\ ended' = ended \cup FamiliesOf(u)
        /\ users' = [users EXCEPT ![u].password = @ + 1]
        /\ resets' = [resets EXCEPT ![i].used = TRUE]
        /\ resets[i] \in Reset /\ resets \in Seq(Reset)
    BY <1>0, <1>12 DEF ConfirmSave, Return, Slots, Idle, AccessCarries, AccessCurrent, TokenRows
  <2>a. u \in DOMAIN users
    BY <2>1
  <2>b. users \in Seq(User)
    BY <1>n
  <2>c. resets[i] \in Reset
    BY <2>1
  <2> HIDE DEF i, u
  <2>2. Stricken /\ \A k \in DOMAIN tokens : tokens[k].user = u => tokens'[k].status # "active"
    BY <1>0, <2>1, RevokedStricken
  <2>3. EndedRows'
    BY <1>0, <2>1, <2>2, EndedUser
  <2>4. /\ DOMAIN users' = DOMAIN users
        /\ \A v \in DOMAIN users : users'[v].password =
             IF v = u THEN users[v].password + 1 ELSE users[v].password
    <3>1. PICK t \in User : t = users[u]
      BY <1>n, <2>a, <2>b
    <3> DEFINE new == [t EXCEPT !.password = t.password + 1]
    <3>2. new.password = t.password + 1
      BY DEF User
    <3>3. users' = [users EXCEPT ![u] = new]
      BY <2>1, <3>1
    <3> HIDE DEF new
    <3>4. DOMAIN users' = DOMAIN users
      BY ONLY <3>3
    <3>5. \A v \in DOMAIN users : users'[v] = IF v = u THEN new ELSE users[v]
      BY ONLY <3>3
    <3>6. \A v \in DOMAIN users : users'[v].password =
            IF v = u THEN users[v].password + 1 ELSE users[v].password
      BY ONLY <3>1, <3>2, <3>5
    <3> QED BY ONLY <3>4, <3>6
  <2>5. /\ DOMAIN resets' = DOMAIN resets
        /\ \A k \in DOMAIN resets : /\ resets'[k].user = resets[k].user
                                    /\ resets'[k].used <=> k = i \/ resets[k].used
    <3>1. PICK t \in Reset : t = resets[i]
      BY <2>c
    <3> DEFINE new == [t EXCEPT !.used = TRUE]
    <3>2. new.user = t.user /\ new.used
      BY DEF Reset
    <3>3. resets' = [resets EXCEPT ![i] = new]
      BY <2>1, <3>1
    <3> HIDE DEF new
    <3>4. DOMAIN resets' = DOMAIN resets
      BY ONLY <3>3
    <3>5. \A k \in DOMAIN resets : resets'[k] = IF k = i THEN new ELSE resets[k]
      BY ONLY <3>3
    <3>6. \A k \in DOMAIN resets : /\ resets'[k].user = resets[k].user
                                   /\ resets'[k].used <=> k = i \/ resets[k].used
      BY ONLY <3>1, <3>2, <3>5
    <3> QED BY ONLY <3>4, <3>6
  <2>6. /\ i \notin UsedResets(u)
        /\ \A v : UsedResets(v)' = IF v = u THEN UsedResets(v) \cup {i} ELSE UsedResets(v)
    <3>1. resets[i].user = u /\ i \in DOMAIN resets /\ ~resets[i].used
      BY <2>1 DEF u
    <3>2. i \notin UsedResets(u)
      BY ONLY <3>1 DEF UsedResets
    <3>3. ASSUME NEW v
          PROVE  UsedResets(v)' = IF v = u THEN UsedResets(v) \cup {i} ELSE UsedResets(v)
      <4>1. UsedResets(v)' = {k \in DOMAIN resets : resets[k].user = v /\ (k = i \/ resets[k].used)}
        BY ONLY <2>5 DEF UsedResets
      <4> QED BY ONLY <3>1, <4>1 DEF UsedResets
    <3> QED BY <3>2, <3>3
  <2>7. IsFiniteSet(UsedResets(u))
    <3>1. DOMAIN resets = 1..Len(resets) /\ Len(resets) \in Nat
      BY <2>1
    <3>2. IsFiniteSet(DOMAIN resets) /\ UsedResets(u) \subseteq DOMAIN resets
      BY <3>1, FS_Interval DEF UsedResets
    <3> QED BY <3>2, FS_Subset
  <2>8. Cardinality(UsedResets(u) \cup {i}) = Cardinality(UsedResets(u)) + 1
    BY <2>6, <2>7, FS_AddElement
  <2>9. PasswordRows'
    <3>1. \A v \in DOMAIN users : users[v].password = Cardinality(UsedResets(v))
      BY <1>0 DEF PasswordRows
    <3>2. \A v \in DOMAIN users : users'[v].password = Cardinality(UsedResets(v)')
      BY ONLY <2>4, <2>6, <2>8, <3>1
    <3> QED BY ONLY <2>4, <3>2 DEF PasswordRows
  <2> QED BY <1>0, <1>i, <2>1, <2>2, <2>3, <2>9, StrickenChains
<1>13. CASE RefreshRefused(r)
  <2>1. req'[r].at = "idle"
    BY <1>0, <1>13 DEF RefreshRefused, Return, Slots, Idle
  <2>2. AccessCurrent(req[r])'
    BY <2>1 DEF AccessCurrent
  <2> QED BY <1>13, <1>u, <1>p, <2>2 DEF RefreshRefused
<1> QED
  BY <1>1, <1>2, <1>3, <1>4, <1>5, <1>6, <1>7, <1>8, <1>9, <1>10, <1>11, <1>12, <1>13
     DEF SessionStep

-----------------------------------------------------------------------------
\* Handlers of accounts either leave users and tokens alone, or add a user and its first
\* token.
LEMMA AccountWrites ==
  ASSUME AccessInv, NEW r \in Requests, AccountStep(r)
  PROVE  /\ UNCHANGED <<resets, failures, ended>>
         /\ \/ UNCHANGED <<users, tokens>>
            \/ \E e \in Emails, type \in {"institution_admin", "employee"} :
                 users' = NewUser(e, type) /\ tokens' = NewFamily(Len(users) + 1)
<1> USE DEF sessions, accounts
<1>0. AccountRows /\ AccessCarries(req[r])
  BY DEF AccessInv
<1>1. ASSUME NEW e \in Emails, RegisterLoad(r, e)
      PROVE  UNCHANGED <<resets, failures, ended, users, tokens>>
  BY <1>1 DEF RegisterLoad
<1>2. ASSUME NEW e \in Emails, NEW role \in Codes \cup {Null}, Invite(r, e, role)
      PROVE  UNCHANGED <<resets, failures, ended, users, tokens>>
  BY <1>2 DEF Invite
<1>3. ASSUME NEW i \in DOMAIN invitations, AcceptLoad(r, i)
      PROVE  UNCHANGED <<resets, failures, ended, users, tokens>>
  BY <1>3 DEF AcceptLoad
<1>4. ASSUME NEW c \in Codes, NEW codes \in Custom, RoleLoad(r, c, codes)
      PROVE  UNCHANGED <<resets, failures, ended, users, tokens>>
  BY <1>4 DEF RoleLoad
<1>5. ASSUME NEW u \in DOMAIN users, NEW c \in Codes, AssignLoad(r, u, c) \/ RemoveLoad(r, u, c)
      PROVE  UNCHANGED <<resets, failures, ended, users, tokens>>
  BY <1>5 DEF AssignLoad, RemoveLoad
<1>6. CASE RoleSave(r) \/ AssignSave(r) \/ RemoveSave(r) \/ RegisterRefused(r)
  BY <1>6 DEF RoleSave, AssignSave, RemoveSave, RegisterRefused
<1>7. CASE RegisterSave(r)
  <2>1. req[r].email \in Emails
    BY <1>0, <1>7 DEF RegisterSave, AccessCarries
  <2> QED BY <1>7, <2>1 DEF RegisterSave
<1>8. CASE AcceptSave(r)
  <2>1. invitations[req[r].invitation].email \in Emails
    <3>1. req[r].invitation \in DOMAIN invitations /\ invitations \in Seq(Invitation)
      BY <1>0, <1>8 DEF AcceptSave, AccessCarries, AccountRows, InvitationRows
    <3>2. invitations[req[r].invitation] \in Invitation
      BY <3>1
    <3> QED BY <3>2 DEF Invitation
  <2> QED BY <1>8, <2>1 DEF AcceptSave
<1> HIDE DEF sessions, accounts
<1> QED BY <1>1, <1>2, <1>3, <1>4, <1>5, <1>6, <1>7, <1>8 DEF AccountStep

\* The account handlers do not touch tokens and tickets.
LEMMA ChainAccount ==
  ASSUME AccessInv, ChainInv, NEW r \in Requests, AccountStep(r), served = "accounts", OneAtATime
  PROVE  Chains' /\ EndedRows' /\ PasswordRows' /\ AccessCurrent(req[r])'
<1>0. /\ OnlySlot(r, AccountLabels) /\ TokenRows /\ Chains /\ EndedRows /\ resets = << >>
      /\ UNCHANGED <<resets, failures, ended>> /\ PasswordRows
  BY AccountSlot, AccountWrites DEF AccessInv, ChainInv, KindRows
<1>1. AccessCurrent(req[r])'
  BY <1>0 DEF OnlySlot, AccountLabels, AccessCurrent
<1>2. CASE UNCHANGED <<users, tokens>>
  BY <1>0, <1>1, <1>2 DEF Chains, EndedRows, PasswordRows, UsedResets
<1>3. ASSUME NEW e \in Emails, NEW type \in {"institution_admin", "employee"},
             users' = NewUser(e, type), tokens' = NewFamily(Len(users) + 1)
      PROVE  Chains' /\ EndedRows' /\ PasswordRows'
  <2> DEFINE n == Len(users) + 1
  <2>1. /\ n \in Nat \ {0} /\ DOMAIN users' = DOMAIN users \cup {n} /\ users'[n].password = 0
        /\ \A u \in DOMAIN users : users'[u] = users[u]
    BY <1>0, <1>3, UserAdded
  <2>2. \A u : UsedResets(u) = {} /\ UsedResets(u)' = {}
    BY <1>0 DEF UsedResets
  <2>3. \A u \in DOMAIN users : users[u].password = 0
    BY <1>0, <2>2, FS_EmptySet DEF PasswordRows
  <2>4. PasswordRows'
    BY <2>1, <2>2, <2>3, FS_EmptySet DEF PasswordRows
  <2> QED BY <1>0, <1>3, <2>1, <2>4, FamilyChains
<1> QED BY <1>1, <1>2, <1>3, AccountWrites

\* Every step keeps the chains.
LEMMA ChainInvStep == AccessInv /\ ChainInv /\ [Next]_vars => ChainInv'
<1> SUFFICES ASSUME AccessInv, ChainInv, [Next]_vars PROVE ChainInv'
  OBVIOUS
<1>1. ASSUME UNCHANGED <<users, tokens, resets, ended, req>> PROVE ChainInv'
  BY <1>1 DEF ChainInv, OneAtATime, Chains, EndedRows, PasswordRows, UsedResets, AccessCurrent
<1>2. ASSUME served = "accounts", NEW r \in Requests, AccountStep(r) PROVE ChainInv'
  <2>1. OnlySlot(r, AccountLabels) /\ "unused" \notin AccountLabels
    BY <1>2, AccountSlot DEF AccessInv, AccountLabels
  <2> QED BY <1>2, <2>1, ChainAccount, ChainKept
<1>3. ASSUME NEW r \in Requests, SessionStep(r) PROVE ChainInv'
  <2>1. OnlySlot(r, SessionLabels) /\ "unused" \notin SessionLabels
    BY <1>3, SessionSlot DEF AccessInv, SessionLabels
  <2> QED BY <1>3, <2>1, ChainSession, ChainKept
<1>4. CASE WindowPasses
  BY <1>1, <1>4 DEF WindowPasses
<1>5. CASE UNCHANGED vars
  BY <1>1, <1>5 DEF vars, sessions
<1> QED BY <1>2, <1>3, <1>4, <1>5, AccessSteps

\* With one request at a time a family of tokens is a chain, each token replaced by the
\* next, and only its last one can be active: whatever logins, refreshes, logouts and
\* resets of any number of users came before.
THEOREM FamiliesAreChainsCorrect == Spec => []FamiliesAreChains
<1>1. ChainInv => FamiliesAreChains
  BY DEF ChainInv, FamiliesAreChains, Chains
<1> QED BY <1>1, AccessInvInit, AccessInvStep, ChainInit, ChainInvStep, PTL DEF Spec

\* A reset token changes the password once, and an invitation makes one account, the only
\* one of its email.
THEOREM TicketsUsedOnceCorrect == Spec => []TicketsUsedOnce
<1>1. ChainInv => ResetsUsedOnce
  BY DEF ChainInv, ResetsUsedOnce, PasswordRows, UsedResets
<1>2. AccessInv => InvitationsMakeOneAccount
  <2> SUFFICES ASSUME AccessInv, NEW i \in DOMAIN invitations, invitations[i].status = "accepted"
               PROVE  /\ WithEmail(invitations[i].email) = {invitations[i].user}
                      /\ invitations[i].role # Null =>
                           \E g \in DOMAIN grants : /\ grants[g].user = invitations[i].user
                                                    /\ grants[g].role = invitations[i].role
                      /\ \A j \in DOMAIN invitations \ {i} :
                           invitations[j].user # invitations[i].user
    BY DEF InvitationsMakeOneAccount
  <2>1. served = "accounts"
    BY DEF AccessInv, KindRows
  <2>2. \A u, v \in DOMAIN users : users[u].email = users[v].email => u = v
    BY <2>1 DEF AccessInv, AccountRows, AccountUsers
  <2>3. Accepted(invitations[i])
    BY DEF AccessInv, AccountRows, InvitationRows
  <2>4. WithEmail(invitations[i].email) = {invitations[i].user}
    BY <2>2, <2>3 DEF Accepted, WithEmail
  <2> QED BY <2>3, <2>4 DEF Accepted, AccessInv, AccountRows, InvitationRows
<1>3. AccessInv /\ ChainInv => TicketsUsedOnce
  BY <1>1, <1>2 DEF TicketsUsedOnce
<1> QED BY <1>3, AccessInvInit, AccessInvStep, ChainInit, ChainInvStep, PTL DEF Spec
-----------------------------------------------------------------------------
(* The limiter: an attempt that was let in and is not done yet counts as one      *)
(* that will fail.                                                               *)

\* The logins in flight that the limiter has let in.
Attempts(e) == {r \in Requests : req[r].at = "login.find" /\ req[r].email = e}

\* Failures counted and logins let in stay below the limit and the number of
\* slots.
LoginInv ==
  \A e \in Emails : failures[e] + Cardinality(Attempts(e)) < LoginLimit + Cardinality(Requests)

\* They are finitely many, as the slots are.
LEMMA AttemptsFinite ==
  /\ Cardinality(Requests) \in Nat
  /\ \A e : IsFiniteSet(Attempts(e)) /\ Cardinality(Attempts(e)) \in Nat
<1>1. IsFiniteSet(Requests)
  BY RequestsAssumption
<1>2. \A e : Attempts(e) \in SUBSET Requests
  BY DEF Attempts
<1> QED BY <1>1, <1>2, FS_Subset, FS_CardinalityType

\* No failure is counted and no login is in flight.
LEMMA LoginInit == Init => LoginInv
<1> SUFFICES ASSUME Init, NEW e \in Emails
             PROVE  failures[e] + Cardinality(Attempts(e)) < LoginLimit + Cardinality(Requests)
  BY DEF LoginInv
<1>1. failures[e] = 0 /\ \A r \in Requests : req[r].at # "login.find"
  BY DEF Init, SessionsInit, InitRequests, Idle, Unused
<1>2. Attempts(e) = {}
  BY <1>1 DEF Attempts
<1> QED BY <1>1, <1>2, AttemptsFinite, FS_EmptySet, TokensAssumption

\* No step but the two of an attempt adds to what is counted.
LEMMA NoMoreAttempts ==
  ASSUME TokenRows, LoginInv, failures' \in [Emails -> Nat],
         \A e \in Emails : failures'[e] <= failures[e],
         \A r \in Requests : req'[r].at = "login.find" => req'[r] = req[r]
  PROVE  LoginInv'
<1> SUFFICES ASSUME NEW e \in Emails
             PROVE  failures'[e] + Cardinality(Attempts(e)') < LoginLimit + Cardinality(Requests)
  BY DEF LoginInv
<1>1. Attempts(e)' \in SUBSET Attempts(e)
  BY DEF Attempts
<1>2. Cardinality(Attempts(e)') <= Cardinality(Attempts(e)) /\ Cardinality(Attempts(e)') \in Nat
  BY <1>1, AttemptsFinite, FS_Subset, FS_CardinalityType
<1>3. failures[e] + Cardinality(Attempts(e)) < LoginLimit + Cardinality(Requests)
  BY DEF LoginInv
<1>4. failures[e] \in Nat /\ failures'[e] \in Nat /\ failures'[e] <= failures[e]
  BY DEF TokenRows
<1> QED BY <1>2, <1>3, <1>4, AttemptsFinite, TokensAssumption

\* The limiter lets a login in only below the limit, one slot more at most.
LEMMA LoginLetIn ==
  ASSUME AccessInv, LoginInv, NEW r \in Requests, NEW e \in Emails, LoginAllowed(r, e)
  PROVE  LoginInv'
<1> SUFFICES ASSUME NEW d \in Emails
             PROVE  failures'[d] + Cardinality(Attempts(d)') < LoginLimit + Cardinality(Requests)
  BY DEF LoginInv
<1>1. /\ failures' = failures /\ failures[d] \in Nat /\ failures[e] < LoginLimit
      /\ req' = [req EXCEPT ![r] = [at |-> "login.find", email |-> e]]
      /\ r \in DOMAIN req
  BY DEF LoginAllowed, Allowed, Begin, AccessInv, TokenRows, Slots
<1>2. CASE d = e
  <2>1. \A f : Attempts(f)' \in SUBSET Requests
    BY DEF Attempts
  <2>2. Cardinality(Attempts(d)') <= Cardinality(Requests) /\ Cardinality(Attempts(d)') \in Nat
    BY <2>1, RequestsAssumption, FS_Subset, FS_CardinalityType
  <2> QED BY <1>1, <1>2, <2>2, AttemptsFinite, TokensAssumption
<1>3. CASE d # e
  <2>1. Attempts(d)' \in SUBSET Attempts(d)
    <3>1. req'[r].email = e /\ \A p \in Requests \ {r} : req'[p] = req[p]
      BY <1>1
    <3> QED BY <1>3, <3>1 DEF Attempts
  <2>2. Cardinality(Attempts(d)') <= Cardinality(Attempts(d)) /\ Cardinality(Attempts(d)') \in Nat
    BY <2>1, AttemptsFinite, FS_Subset, FS_CardinalityType
  <2> QED BY <1>1, <2>2, AttemptsFinite, TokensAssumption DEF LoginInv
<1> QED BY <1>2, <1>3

\* A failure counts one more and takes a login out of flight.
LEMMA LoginFailed ==
  ASSUME AccessInv, LoginInv, NEW r \in Requests, LoginFails(r)
  PROVE  LoginInv'
<1> SUFFICES ASSUME NEW d \in Emails
             PROVE  failures'[d] + Cardinality(Attempts(d)') < LoginLimit + Cardinality(Requests)
  BY DEF LoginInv
<1> DEFINE e == req[r].email
<1>1. /\ failures \in [Emails -> Nat] /\ e \in Emails /\ failures' = [failures EXCEPT ![e] = @ + 1]
      /\ req[r].at = "login.find" /\ req' = [req EXCEPT ![r] = Idle] /\ r \in DOMAIN req
  BY DEF LoginFails, Return, AccessInv, TokenRows, Slots, AccessCarries
<1>2. req'[r].at = "idle" /\ \A p \in Requests \ {r} : req'[p] = req[p]
  BY <1>1 DEF Idle
<1>3. failures[d] + Cardinality(Attempts(d)) < LoginLimit + Cardinality(Requests)
  BY DEF LoginInv
<1>4. Attempts(d)' = Attempts(d) \ {r}
  BY <1>2 DEF Attempts
<1>5. Cardinality(Attempts(d) \ {r}) =
        IF r \in Attempts(d) THEN Cardinality(Attempts(d)) - 1 ELSE Cardinality(Attempts(d))
  BY AttemptsFinite, FS_RemoveElement
<1>6. r \in Attempts(d) <=> d = e
  BY <1>1 DEF Attempts
<1>7. failures'[d] = IF d = e THEN failures[d] + 1 ELSE failures[d]
  BY <1>1
<1> HIDE DEF e
<1> QED BY <1>1, <1>3, <1>4, <1>5, <1>6, <1>7, AttemptsFinite, TokensAssumption

\* Every session handler keeps the count.
LEMMA LoginSession ==
  ASSUME AccessInv, LoginInv, NEW r \in Requests, SessionStep(r)
  PROVE  LoginInv'
<1>0. /\ OnlySlot(r, SessionLabels) /\ Slots /\ TokenRows /\ AccessCarries(req[r])
      /\ failures \in [Emails -> Nat]
  BY SessionSlot DEF AccessInv, TokenRows
<1>u. ASSUME failures' = failures, req'[r].at # "login.find" \/ req' = req PROVE LoginInv'
  <2>1. \A p \in Requests : req'[p].at = "login.find" => req'[p] = req[p]
    BY <1>0, <1>u DEF OnlySlot
  <2>2. failures' \in [Emails -> Nat] /\ \A e \in Emails : failures'[e] <= failures[e]
    BY <1>0, <1>u
  <2> QED BY <1>0, <2>1, <2>2, NoMoreAttempts
<1> USE DEF Begin, Continue, Return, Idle
<1>1. ASSUME NEW e \in Emails, RequestReset(r, e) PROVE LoginInv'
  BY <1>1, <1>u DEF RequestReset
<1>2. CASE LoginFind(r)
  <2>1. PICK u : req' = [req EXCEPT ![r] = [at |-> "login.save", user |-> u]]
    BY <1>2 DEF LoginFind
  <2> QED BY <1>0, <1>2, <1>u, <2>1 DEF LoginFind, Slots
<1>3. CASE LoginSave(r)
  <2>1. req'[r].at = "idle"
    BY <1>0, <1>3 DEF LoginSave, Slots
  <2>2. PICK d : failures' = [failures EXCEPT ![d] = 0]
    BY <1>3 DEF LoginSave
  <2>3. failures' \in [Emails -> Nat] /\ \A e \in Emails : failures'[e] <= failures[e]
    <3>1. failures \in [Emails -> Nat]
      BY <1>0
    <3>2. failures' \in [Emails -> Nat]
      BY ONLY <2>2, <3>1
    <3>3. \A e \in Emails : failures'[e] = failures[e] \/ failures'[e] = 0
      BY ONLY <2>2, <3>1
    <3>4. \A e \in Emails : failures[e] \in Nat
      BY ONLY <3>1
    <3> QED BY ONLY <3>2, <3>3, <3>4
  <2>4. \A p \in Requests : req'[p].at = "login.find" => req'[p] = req[p]
    BY <1>0, <2>1 DEF OnlySlot
  <2> QED BY <1>0, <2>3, <2>4, NoMoreAttempts
<1>4. ASSUME NEW i \in DOMAIN tokens, RefreshLoad(r, i) \/ LogoutLoad(r, i) PROVE LoginInv'
  BY <1>0, <1>4, <1>u DEF RefreshLoad, LogoutLoad, Slots
<1>5. CASE RefreshReused(r) \/ RefreshExpired(r) \/ RefreshRotates(r) \/ RefreshRefused(r)
           \/ LogoutSave(r) \/ ConfirmSave(r)
  <2>1. req'[r].at = "idle" /\ failures' = failures
    BY <1>0, <1>5 DEF RefreshReused, RefreshExpired, RefreshRotates, RefreshRefused, LogoutSave,
       ConfirmSave, Slots
  <2> QED BY <1>u, <2>1
<1>6. ASSUME NEW u \in DOMAIN users, LogoutAll(r, u) PROVE LoginInv'
  BY <1>6, <1>u DEF LogoutAll
<1>7. ASSUME NEW i \in DOMAIN resets, ConfirmLoad(r, i) PROVE LoginInv'
  BY <1>0, <1>7, <1>u DEF ConfirmLoad, Slots
<1> HIDE DEF Begin, Continue, Return, Idle
<1> QED BY <1>1, <1>2, <1>3, <1>4, <1>5, <1>6, <1>7, LoginLetIn, LoginFailed DEF SessionStep

\* Every step keeps the count.
LEMMA LoginInvStep == AccessInv /\ LoginInv /\ [Next]_vars => LoginInv'
<1> SUFFICES ASSUME AccessInv, LoginInv, [Next]_vars PROVE LoginInv'
  OBVIOUS
<1>0. TokenRows /\ failures \in [Emails -> Nat]
  BY DEF AccessInv, TokenRows
<1>1. CASE UNCHANGED vars
  BY <1>1 DEF vars, sessions, LoginInv, Attempts
<1>2. ASSUME NEW r \in Requests, AccountStep(r) PROVE LoginInv'
  <2>1. OnlySlot(r, AccountLabels) /\ failures' = failures
    BY <1>2, AccountSlot, AccountWrites DEF AccessInv
  <2>2. \A p \in Requests : req'[p].at = "login.find" => req'[p] = req[p]
    BY <2>1 DEF OnlySlot, AccountLabels
  <2>3. failures' \in [Emails -> Nat] /\ \A e \in Emails : failures'[e] <= failures[e]
    BY <1>0, <2>1
  <2> QED BY <1>0, <2>2, <2>3, NoMoreAttempts
<1>3. CASE WindowPasses
  <2>1. PICK e \in Emails : failures[e] > 0 /\ failures' = [failures EXCEPT ![e] = @ - 1]
    BY <1>3 DEF WindowPasses
  <2>2. failures' \in [Emails -> Nat] /\ \A d \in Emails : failures'[d] <= failures[d]
    BY <1>0, <2>1
  <2>3. req' = req
    BY <1>3 DEF WindowPasses
  <2> QED BY <1>0, <2>2, <2>3, NoMoreAttempts
<1> QED BY <1>1, <1>2, <1>3, AccessSteps, LoginSession

\* Failed attempts never pass the limit by more than the attempts let in at once, with any
\* number of requests; and with one at a time nothing that a reuse, a reset or a logout of
\* all sessions has ended is active again.
THEOREM KeptOutCorrect == Spec => []KeptOut
<1>1. ASSUME AccessInv, LoginInv PROVE FailuresBounded
  <2>1. failures \in [Emails -> Nat]
    BY <1>1 DEF AccessInv, TokenRows
  <2> QED BY <1>1, <2>1, AttemptsFinite, TokensAssumption DEF LoginInv, FailuresBounded
<1>2. ChainInv => EndedFamiliesStayEnded
  BY DEF ChainInv, EndedFamiliesStayEnded, EndedRows
<1>3. AccessInv /\ ChainInv /\ LoginInv => KeptOut
  BY <1>1, <1>2 DEF KeptOut
<1> QED
  BY <1>3, AccessInvInit, AccessInvStep, ChainInit, ChainInvStep, LoginInit, LoginInvStep, PTL
     DEF Spec
=============================================================================
