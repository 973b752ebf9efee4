\* One or two requests in flight, two emails, two roles.
CONSTANTS
  Null = Null
  known = known
  blocked = blocked
  Emails = {known, blocked}
  Suspended = {blocked}
  LoginLimit = 1
  MaxTokens = 4
  MaxResets = 1
  Registered <- MCRegistered
  Admin = institution_admin
  Codes = {institution_admin, teacher}
  Catalog = {p1, p2}
  Custom = {{p1}}
  MaxInvitations = 2
  MaxGrants = 3
  Requests = {r1, r2}
SYMMETRY MCSymmetry
SPECIFICATION Spec
INVARIANTS
  TypeOK
  FamiliesAreChains
  KeptOut
  TicketsUsedOnce
  AdministratorsHoldCatalog
