--------------------------- MODULE AccessAccounts ---------------------------
(***************************************************************************)
(* How the users of one tenant come to be and what they may do: registration  *)
(* of administrators, invitations, roles and their permissions                *)
(* (app/modules/access/service.py), on top of the tokens they log in with.    *)
(* Accounts and sessions share the users and tokens, but no handler of one    *)
(* looks at what the other changes: a behaviour is of one kind.               *)
(***************************************************************************)
EXTENDS TLC, TokenFamilies

CONSTANTS
  Registered,      \* users of a tenant whose sessions are looked at
  Admin,           \* the role code institution_admin
  Codes,           \* role codes, Admin among them
  Catalog,         \* codes of DEFAULT_PERMISSIONS
  Custom,          \* sets of permission codes that a custom role may ask for
  MaxInvitations,  \* bound: invitations ever made
  MaxGrants        \* bound: user_roles ever inserted

ASSUME AccountsAssumption ==
  /\ Registered \in Seq(User) /\ \A u \in DOMAIN Registered : Registered[u].password = 0
  /\ Admin \in Codes /\ Catalog # {}
  /\ Custom \subseteq SUBSET Catalog /\ Null \notin Codes
  /\ MaxInvitations \in Nat /\ MaxGrants \in Nat

VARIABLES
  invitations,  \* invitation_tokens in order of insertion
  roles,        \* roles[c]: permission codes of the role, for every role there is
  grants,       \* user_roles in order of insertion; a deleted one keeps its place
  seeded,       \* the permission catalog is in the table
  served        \* which handlers this behaviour is about

accounts == <<invitations, roles, grants, seeded>>
vars     == <<users, sessions, accounts, served, req>>

Invitation == [email : Emails, role : Codes \cup {Null}, status : {"pending", "accepted"},
               user : Nat \cup {Null}]
Grant      == [user : Nat \ {0}, role : Codes, live : BOOLEAN]

\* Bindings of a role, roles by their unique code, and the global permissions.
RolePermissions == SUBSET Catalog
RoleTable       == UNION {[D -> RolePermissions] : D \in SUBSET Codes}
Permissions     == IF seeded THEN Catalog ELSE {}

-----------------------------------------------------------------------------
Grants(u, c) == {g \in DOMAIN grants : grants[g] = [user |-> u, role |-> c, live |-> TRUE]}

\* list_permission_codes: what the user's roles give.
PermissionCodes(u) == UNION {roles[c] : c \in {d \in DOMAIN roles : Grants(u, d) # {}}}

Granted(u, c) == Append(grants, [user |-> u, role |-> c, live |-> TRUE])

NewUser(e, type) == Append(users, [email |-> e, type |-> type, password |-> 0])

RoomForGrant == Len(grants) + Cardinality({r \in Requests : InFlight(r)}) < MaxGrants

Init ==
  /\ served \in {"accounts", "sessions"}
  /\ users = IF served = "sessions" THEN Registered ELSE << >>
  /\ invitations = << >> /\ roles = << >> /\ grants = << >> /\ seeded = FALSE
  /\ SessionsInit

-----------------------------------------------------------------------------
(* register_institution_admin: what there is of the catalog and of the role,  *)
(* then everything in one transaction.  A row that somebody else has inserted *)
(* meanwhile fails it, and nothing is kept.                                   *)

Registrations == Cardinality({u \in DOMAIN users : users[u].type = "institution_admin"})

RegisterLoad(r, e) ==
  /\ WithEmail(e) = {} => RoomForToken /\ RoomForGrant
  /\ Begin(r, [at |-> "register.save", email |-> e, seeded |-> seeded,
               known |-> Admin \in DOMAIN roles, before |-> Registrations])
  /\ UNCHANGED <<users, sessions, accounts>>

\* ensure_default_permissions and ensure_system_role insert what they missed.
SeedFails(x)  == ~x.seeded /\ seeded
AdminFails(x) == ~x.known /\ Admin \in DOMAIN roles

RolesNewOnly ==  \* mutant: permissions are set only when the role is made
  IF Admin \in DOMAIN roles THEN roles ELSE WithRow(roles, Admin, Catalog)

\* _replace_role_permissions: all of the role's bindings, and the catalog's.
RolesWithAdmin == [WithRow(roles, Admin, Catalog) EXCEPT ![Admin] = Catalog]

RegisterSave(r) ==
  LET x == req[r] IN
  /\ x.at = "register.save"
  /\ Return(r)
  /\ IF WithEmail(x.email) # {} \/ SeedFails(x) \/ AdminFails(x)
     THEN UNCHANGED <<users, sessions, accounts>>
     ELSE /\ users' = NewUser(x.email, "institution_admin")
          /\ tokens' = NewFamily(Len(users) + 1)
          /\ roles' = RolesWithAdmin /\ seeded' = TRUE
          /\ grants' = Granted(Len(users) + 1, Admin)
          /\ UNCHANGED <<resets, failures, ended, invitations>>

\* Its DELETE waited for another registration's, and has not seen the bindings that the
\* other one inserted: its own ones repeat them (uq_role_permissions_role_permission).
RegisterRefused(r) ==
  LET x == req[r] IN
  /\ x.at = "register.save" /\ x.known /\ x.before < Registrations
  /\ Return(r)
  /\ UNCHANGED <<users, sessions, accounts>>

-----------------------------------------------------------------------------
(* invite_user and accept_invitation.  An expired invitation is refused.      *)

Invite(r, e, role) ==
  /\ req[r] = Idle /\ Len(invitations) < MaxInvitations
  /\ role \in DOMAIN roles \cup {Null}
  /\ invitations' = Append(invitations, [email |-> e, role |-> role, status |-> "pending",
                                         user |-> Null])
  /\ UNCHANGED <<users, sessions, roles, grants, seeded, req>>

AcceptLoad(r, i) ==
  /\ invitations[i].status = "pending"
  /\ RoomForToken /\ RoomForGrant
  /\ Begin(r, [at |-> "accept.save", invitation |-> i])
  /\ UNCHANGED <<users, sessions, accounts>>

EmailMissed(e) == FALSE  \* mutant: no unique email

\* uq_users_tenant_id_email.
EmailTaken(e) == WithEmail(e) # {}

AcceptSave(r) ==
  LET i == req[r].invitation  u == Len(users) + 1  x == invitations[i] IN
  /\ req[r].at = "accept.save"
  /\ Return(r)
  /\ IF EmailTaken(x.email) THEN UNCHANGED <<users, sessions, accounts>>
     ELSE /\ users' = NewUser(x.email, "employee")
          /\ tokens' = NewFamily(u)
          /\ grants' = IF x.role = Null THEN grants ELSE Granted(u, x.role)
          /\ invitations' = [invitations EXCEPT ![i].status = "accepted", ![i].user = u]
          /\ UNCHANGED <<resets, failures, ended, roles, seeded>>

-----------------------------------------------------------------------------
(* create_custom_role, assign_role_to_user and remove_role_from_user.         *)

RoleLoad(r, c, codes) ==
  /\ c \notin DOMAIN roles
  /\ Begin(r, [at |-> "role.save", code |-> c, codes |-> codes, seeded |-> seeded])
  /\ UNCHANGED <<users, sessions, accounts>>

RoleSave(r) ==
  LET x == req[r] IN
  /\ x.at = "role.save"
  /\ Return(r)
  /\ IF x.code \in DOMAIN roles \/ SeedFails(x) THEN UNCHANGED <<roles, seeded>>
     ELSE roles' = WithRow(roles, x.code, x.codes) /\ seeded' = TRUE
  /\ UNCHANGED <<users, sessions, invitations, grants>>

AssignLoad(r, u, c) ==
  /\ c \in DOMAIN roles /\ Grants(u, c) = {} /\ RoomForGrant
  /\ Begin(r, [at |-> "assign.save", user |-> u, role |-> c])
  /\ UNCHANGED <<users, sessions, accounts>>

AssignSave(r) ==
  LET x == req[r] IN
  /\ x.at = "assign.save"
  /\ Return(r)
  /\ grants' = IF Grants(x.user, x.role) = {} THEN Granted(x.user, x.role) ELSE grants
  /\ UNCHANGED <<users, sessions, invitations, roles, seeded>>

RemoveLoad(r, u, c) ==
  /\ \E g \in Grants(u, c) : Begin(r, [at |-> "remove.save", grant |-> g])
  /\ UNCHANGED <<users, sessions, accounts>>

RemoveSave(r) ==
  /\ req[r].at = "remove.save"
  /\ grants' = [grants EXCEPT ![req[r].grant].live = FALSE]
  /\ Return(r)
  /\ UNCHANGED <<users, sessions, invitations, roles, seeded>>

-----------------------------------------------------------------------------
AccountStep(r) ==
  \/ \E e \in Emails : RegisterLoad(r, e)
  \/ \E e \in Emails, role \in Codes \cup {Null} : Invite(r, e, role)
  \/ \E i \in DOMAIN invitations : AcceptLoad(r, i)
  \/ \E c \in Codes, codes \in Custom : RoleLoad(r, c, codes)
  \/ \E u \in DOMAIN users, c \in Codes : AssignLoad(r, u, c) \/ RemoveLoad(r, u, c)
  \/ RegisterSave(r) \/ RegisterRefused(r)
  \/ AcceptSave(r) \/ RoleSave(r) \/ AssignSave(r) \/ RemoveSave(r)

Next ==
  /\ \/ served = "accounts" /\ \E r \in Requests : AccountStep(r)
     \/ /\ served = "sessions"
        /\ WindowPasses \/ \E r \in Requests : SessionStep(r)
        /\ UNCHANGED accounts
  /\ UNCHANGED served

Spec == Init /\ [][Next]_vars

-----------------------------------------------------------------------------
\* Rows have their columns' types, and roles bind permissions that are there.
TypeOK ==
  /\ users \in Seq(User) /\ tokens \in Seq(Token) /\ resets \in Seq(Reset)
  /\ failures \in [Emails -> Nat] /\ ended \subseteq Nat
  /\ invitations \in Seq(Invitation) /\ grants \in Seq(Grant) /\ seeded \in BOOLEAN
  /\ roles \in RoleTable /\ \A c \in DOMAIN roles : roles[c] \subseteq Permissions

\* However many requests accept it, an invitation makes one account, which has the
\* invitation's email and was given its role.
InvitationsMakeOneAccount ==
  \A i \in DOMAIN invitations :
    LET x == invitations[i] IN
    x.status = "accepted" =>
      /\ WithEmail(x.email) = {x.user}
      /\ x.role # Null => \E g \in DOMAIN grants : grants[g].user = x.user /\ grants[g].role = x.role
      /\ \A j \in DOMAIN invitations \ {i} : invitations[j].user # x.user

\* Tokens sent by mail work once: one new password, one new account.
TicketsUsedOnce == ResetsUsedOnce /\ InvitationsMakeOneAccount

\* An administrator who keeps the role has every permission of the catalog, though
\* every registration takes the role's bindings away and makes them again, and a
\* custom role may have had its code before.
AdministratorsHoldCatalog ==
  \A u \in DOMAIN users :
    users[u].type = "institution_admin" /\ Grants(u, Admin) # {} => PermissionCodes(u) = Catalog
=============================================================================
