----------------------------- MODULE TenancyProofs -----------------------------
(***************************************************************************)
(* Proofs about TenantRegistry for every set of years, offers, slugs, domains  *)
(* and values, and any number of requests in flight.                          *)
(***************************************************************************)
EXTENDS TenantRegistry, ProofLemmas

-----------------------------------------------------------------------------
(* The steps of a behaviour.                                                  *)

YearLabels     == {"clear.start", "clear", "save"}
AppLabels      == {"catalog.save", "offer.find", "offer.save", "toggle.catalog",
                   "toggle.setting", "toggle.save"}
\* The labels of the settings handlers.
SettingsLabels == {"settings.create", "settings.update"}

\* The handlers of academic years.
YearStep(r) ==
  \/ \E y \in Years, new \in Created : CreateBegin(r, y, new)
  \/ \E y \in DOMAIN years, change \in Changes : UpdateLoad(r, y, change)
  \/ Progress(r)

\* A step of the years, of the apps, or of the registry.
LEMMA TenancySteps ==
  ASSUME TenancyNext
  PROVE  /\ UNCHANGED served
         /\ \/ /\ served = "years" /\ UNCHANGED <<apps, registry>>
               /\ \E r \in Requests : YearStep(r)
            \/ /\ served = "apps" /\ UNCHANGED <<years, registry>>
               /\ ClockTicks \/ \E r \in Requests : AppStep(r)
            \/ /\ served \in SettingsParts /\ UNCHANGED <<years, apps>>
               /\ \E r \in Requests : RegistryStep(r)
BY DEF TenancyNext, Next, YearStep

\* A handler of the years changes its own slot.
LEMMA YearSlot ==
  ASSUME Slots, NEW r \in Requests, YearStep(r)
  PROVE  OnlySlot(r, YearLabels)
<1> USE DEF OnlySlot, Slots, YearLabels, Begin, Continue, Return, Idle
<1>1. ASSUME NEW y, NEW new, CreateBegin(r, y, new) PROVE OnlySlot(r, YearLabels)
  <2>1. PICK x : x = [at |-> First(new.current), y |-> y, row |-> new, new |-> new, cleared |-> {}]
    OBVIOUS
  <2>2. x.at \in YearLabels /\ "at" \in DOMAIN x
    BY <2>1 DEF First
  <2> QED BY <1>1, <2>1, <2>2 DEF CreateBegin
<1>2. ASSUME NEW y, NEW change, UpdateLoad(r, y, change) PROVE OnlySlot(r, YearLabels)
  <2>1. PICK x : /\ x.at \in YearLabels /\ "at" \in DOMAIN x
                 /\ req[r] = Idle /\ req' = [req EXCEPT ![r] = x]
    <3> DEFINE new == [c \in DOMAIN change |-> Asked(change[c], years[y][c])]
               x == [at |-> First(change.current = TRUE), y |-> y, row |-> years[y], new |-> new,
                     cleared |-> {}]
    <3>1. req[r] = Idle /\ req' = [req EXCEPT ![r] = x]
      BY <1>2 DEF UpdateLoad
    <3> HIDE DEF new
    <3>2. x.at \in YearLabels /\ "at" \in DOMAIN x
      BY DEF First
    <3> QED BY <3>1, <3>2
  <2> QED BY <2>1
<1>3. CASE ClearStart(r) \/ ClearRow(r)
  BY <1>3 DEF ClearStart, ClearRow, ClearOn
<1>5. CASE Save(r)
  BY <1>5 DEF Save
<1>4. CASE Abort(r)
  <2>1. req[r].at \in YearLabels
    <3>1. PICK q \in Requests : Needs(r) \cap HeldBy(q) # {}
      BY <1>4 DEF Abort, InCycle
    <3> QED BY <3>1 DEF Needs
  <2> QED BY <1>4, <2>1 DEF Abort
<1> HIDE DEF OnlySlot, Slots, YearLabels, Begin, Continue, Return, Idle
<1> QED BY <1>1, <1>2, <1>3, <1>4, <1>5 DEF YearStep, Progress

\* A handler of the apps changes its own slot.
LEMMA AppSlot ==
  ASSUME Slots, NEW r \in Requests, AppStep(r)
  PROVE  OnlySlot(r, AppLabels)
<1> USE DEF OnlySlot, Slots, AppLabels, Begin, Continue, Return, Idle
<1>1. ASSUME NEW active, CatalogLoad(r, active) PROVE OnlySlot(r, AppLabels)
  BY <1>1 DEF CatalogLoad
<1>2. ASSUME NEW offer, OfferCatalog(r, offer) PROVE OnlySlot(r, AppLabels)
  BY <1>2 DEF OfferCatalog
<1>3. ASSUME NEW enabled, ToggleLoad(r, enabled) PROVE OnlySlot(r, AppLabels)
  BY <1>3 DEF ToggleLoad
<1>4. CASE CatalogSave(r) \/ OfferFind(r) \/ OfferSave(r) \/ ToggleCatalog(r) \/ ToggleSave(r)
  BY <1>4 DEF CatalogSave, OfferFind, OfferSave, ToggleCatalog, ToggleSave
<1>5. CASE ToggleSetting(r)
  BY <1>5 DEF ToggleSetting
<1> HIDE DEF OnlySlot, Slots, AppLabels, Begin, Continue, Return, Idle
<1> QED BY <1>1, <1>2, <1>3, <1>4, <1>5 DEF AppStep, AppProgress

\* What a request for a settings row begins with.
SettingsLoad(r, q, v) ==
  /\ Resolve(HintsOf(q)) # Null
  /\ settings[Resolve(HintsOf(q))] # Null => v # Null
  /\ UNCHANGED registry
  /\ \E x : /\ Begin(r, x) /\ {"at", "seen", "scope"} \subseteq DOMAIN x
            /\ x.at = (IF settings[Resolve(HintsOf(q))] = Null THEN "settings.create"
                       ELSE "settings.update")
            /\ x.tenant = Resolve(HintsOf(q)) /\ x.scope = Resolve(HintsOf(q)) /\ x.value = v
            /\ x.seen = settings[Resolve(HintsOf(q))]

\* A settings request loads the row of the tenant it was resolved to.
LEMMA SettingsLoads ==
  ASSUME NEW r \in Requests, NEW q, NEW v, SettingsBegin(r, q, v)
  PROVE  SettingsLoad(r, q, v)
<1> DEFINE t == Resolve(HintsOf(q))
           x == [at |-> IF settings[t] = Null THEN "settings.create" ELSE "settings.update",
                 tenant |-> t, value |-> v, seen |-> settings[t], scope |-> t]
<1>1. /\ t # Null /\ (settings[t] # Null => v # Null) /\ UNCHANGED registry /\ Begin(r, x)
  BY DEF SettingsBegin
<1>2. /\ x.at = (IF settings[t] = Null THEN "settings.create" ELSE "settings.update")
      /\ x.tenant = t /\ x.scope = t /\ x.value = v /\ x.seen = settings[t] /\ "at" \in DOMAIN x
  <2> HIDE DEF t
  <2> QED OBVIOUS
<1>3. {"at", "seen", "scope"} \subseteq DOMAIN x
  <2> HIDE DEF t
  <2> QED OBVIOUS
<1> HIDE DEF x
<1> QED BY <1>1, <1>2, <1>3 DEF SettingsLoad

\* A step of the registry makes a tenant, a domain or a member, or serves a settings row.
LEMMA RegistrySteps ==
  ASSUME NEW r \in Requests, RegistryStep(r)
  PROVE  \/ \E s \in Slugs, d \in Domains \cup {Null} : CreateTenant(r, s, d)
         \/ \E t \in DOMAIN tenants, d \in Domains : CreateDomain(r, t, d)
         \/ \E t \in DOMAIN tenants, u \in UserIds, active \in BOOLEAN : AddTenantUser(r, t, u, active)
         \/ \E q \in Arrivals, v \in Values \cup {Null} : SettingsLoad(r, q, v)
         \/ SettingsCreate(r) \/ SettingsUpdate(r)
BY SettingsLoads DEF RegistryStep, RegistryProgress, GeneralSettings, Branding, GradingRule,
   AttendanceRule, PlatformSettings, PlatformBranding

\* A handler of the registry changes its own slot.
LEMMA RegistrySlot ==
  ASSUME Slots, NEW r \in Requests, RegistryStep(r)
  PROVE  OnlySlot(r, SettingsLabels)
<1> USE DEF OnlySlot, Slots, SettingsLabels, Begin, Continue, Return, Idle
<1>1. ASSUME NEW s, NEW d, CreateTenant(r, s, d) PROVE OnlySlot(r, SettingsLabels)
  BY <1>1 DEF CreateTenant
<1>2. ASSUME NEW t, NEW d, CreateDomain(r, t, d) PROVE OnlySlot(r, SettingsLabels)
  BY <1>2 DEF CreateDomain
<1>3. ASSUME NEW t, NEW u, NEW active, AddTenantUser(r, t, u, active)
      PROVE  OnlySlot(r, SettingsLabels)
  BY <1>3 DEF AddTenantUser
<1>4. ASSUME NEW q, NEW v, SettingsLoad(r, q, v) PROVE OnlySlot(r, SettingsLabels)
  BY <1>4 DEF SettingsLoad
<1>5. CASE SettingsCreate(r)
  <2>1. req' = [req EXCEPT ![r] = Idle] \/
        \E x : /\ req' = [req EXCEPT ![r] = x] /\ "at" \in DOMAIN x /\ x.at = "settings.update"
    <3>1. CASE Return(r)
      BY <3>1
    <3>2. CASE Continue(r, [req[r] EXCEPT !.at = "settings.update", !.seen = 0,
                                          !.scope = ScopeAfterCommit(req[r])])
      <4> DEFINE x == [req[r] EXCEPT !.at = "settings.update", !.seen = 0,
                                     !.scope = ScopeAfterCommit(req[r])]
      <4>1. "at" \in DOMAIN x /\ x.at = "settings.update"
        OBVIOUS
      <4> QED BY <3>2, <4>1
    <3> QED BY <1>5, <3>1, <3>2 DEF SettingsCreate
  <2> QED BY <1>5, <2>1 DEF SettingsCreate
<1>6. CASE SettingsUpdate(r)
  BY <1>6 DEF SettingsUpdate
<1> HIDE DEF OnlySlot, Slots, SettingsLabels, Begin, Continue, Return, Idle
<1> QED BY <1>1, <1>2, <1>3, <1>4, <1>5, <1>6, RegistrySteps
-----------------------------------------------------------------------------
(* Rows, with any number of requests.                                          *)

\* The table of years.
YearRows ==
  DOMAIN years \subseteq Years /\ IsTable(years) /\ \A y \in DOMAIN years : years[y] \in Rows

\* Domains and members are of tenants that are there; slugs are unique, and a tenant's
\* domain is its own.
RegistryRows ==
  /\ tenants \in Seq(Tenant) /\ Len(tenants) <= MaxTenants
  /\ members \in Seq(TenantUser) /\ \A i \in DOMAIN members : members[i].tenant \in DOMAIN tenants
  /\ DOMAIN domains \subseteq Domains /\ \A d \in DOMAIN domains : domains[d] \in DOMAIN tenants
  /\ settings \in Seq(SettingsRow) /\ Len(settings) = Len(tenants)
  /\ \A t \in DOMAIN tenants :
       /\ tenants[t].primary # Null =>
            tenants[t].primary \in DOMAIN domains /\ domains[tenants[t].primary] = t
       /\ \A s \in DOMAIN tenants : tenants[s].slug = tenants[t].slug => s = t

\* What a request carries has the types of the rows it was loaded from.
TenancyCarries(x) ==
  /\ x.at \in YearLabels => x.y \in Years /\ x.row \in Rows /\ x.new \in Rows
  /\ x.at = "catalog.save" => x.active \in BOOLEAN
  /\ x.at \in {"offer.find", "offer.save"} => x.offer \in TenantApp
  /\ x.at = "offer.save" => x.seen \in TenantApp \cup {Null}
  /\ x.at \in {"toggle.catalog", "toggle.setting", "toggle.save"} =>
       app \in TenantApp /\ x.row \in TenantApp /\ x.enabled \in BOOLEAN
  /\ x.at \in SettingsLabels =>
       /\ x.tenant \in DOMAIN tenants /\ x.scope = x.tenant
       /\ {"at", "seen", "scope"} \subseteq DOMAIN x
  /\ x.at = "settings.create" => x.value \in Values \cup {Null}
  /\ x.at = "settings.update" => x.value \in Values

\* The inductive invariant of types and hosts, with any number of requests.
TenancyInv ==
  /\ Slots /\ served \in {"years", "apps"} \cup SettingsParts
  /\ YearRows /\ AppsTypeOK /\ RegistryRows
  /\ \A r \in Requests : TenancyCarries(req[r])

\* NULL is no number, no Boolean and no row.
LEMMA NullOutside == Null \notin Nat /\ Null \notin BOOLEAN /\ Null \notin TenantApp
BY YearsAssumption, AppsAssumption

\* The rows the tables begin with have their types.
LEMMA TenancyInvInit == TenancyInit => TenancyInv
<1> SUFFICES ASSUME TenancyInit PROVE TenancyInv
  OBVIOUS
<1>1. /\ Slots /\ served \in {"years", "apps"} \cup SettingsParts
      /\ \A r \in Requests : req[r].at \in {"idle", "unused"}
  BY DEF TenancyInit, Init, InitRequests, Idle, Unused, Slots
<1>2. /\ years = << >> /\ catalog = Null /\ app = Null /\ flag = Null /\ clock = 0
      /\ tenants = << >> /\ domains = << >> /\ members = << >> /\ settings = << >>
  BY DEF TenancyInit, Init, AppsInit, RegistryInit
<1>3. YearRows
  BY <1>2 DEF YearRows, IsTable
<1>4. AppsTypeOK
  BY <1>2, AppsAssumption DEF AppsTypeOK, AppCatalog, TenantAppSetting
<1>5. RegistryRows
  <2>1. tenants \in Seq(Tenant) /\ members \in Seq(TenantUser) /\ settings \in Seq(SettingsRow)
    BY <1>2
  <2>2. Len(tenants) = 0 /\ Len(settings) = 0 /\ DOMAIN tenants = {} /\ DOMAIN members = {}
        /\ DOMAIN domains = {}
    BY <1>2
  <2> QED BY <2>1, <2>2, RegistryAssumption DEF RegistryRows
<1> QED
  BY <1>1, <1>3, <1>4, <1>5
     DEF TenancyInv, TenancyCarries, YearLabels, SettingsLabels

\* What the others' slots rest on: tenants stay, and so does a subscription.
TenancyGrows ==
  DOMAIN tenants \subseteq DOMAIN tenants' /\ (app \in TenantApp => app' \in TenantApp)

\* What the other requests carry stays valid: rows are added and never taken
\* away.
LEMMA TenancyKeptByStep ==
  ASSUME TenancyInv, NEW r \in Requests, NEW labels, OnlySlot(r, labels), TenancyGrows,
         TenancyCarries(req[r])', YearRows', AppsTypeOK', RegistryRows', UNCHANGED served
  PROVE  TenancyInv'
<1>1. \A p \in Requests \ {r} : TenancyCarries(req[p])'
  <2> SUFFICES ASSUME NEW p \in Requests \ {r} PROVE TenancyCarries(req[p])'
    OBVIOUS
  <2>1. req'[p] = req[p] /\ TenancyCarries(req[p])
    BY DEF OnlySlot, TenancyInv
  <2> QED BY <2>1 DEF TenancyGrows, TenancyCarries
<1> QED BY <1>1 DEF TenancyInv, OnlySlot

\* A table that a step leaves alone stays well typed.
LEMMA YearsKept == ASSUME YearRows, UNCHANGED years PROVE YearRows'
BY DEF YearRows, IsTable

\* The same of the apps.
LEMMA AppsKept == ASSUME AppsTypeOK, UNCHANGED apps PROVE AppsTypeOK'
BY DEF AppsTypeOK, apps

\* The same of tenants, memberships and settings.
LEMMA RegistryKept == ASSUME RegistryRows, UNCHANGED <<registry, served>> PROVE RegistryRows'
<1>1. SettingsRow' = SettingsRow
  BY DEF SettingsRow
<1> QED BY <1>1 DEF RegistryRows, registry

-----------------------------------------------------------------------------
(* The registry.                                                             *)

\* The first of a set of numbers is one of them, and there is none of the empty
\* set.
LEMMA FirstOfSet ==
  ASSUME NEW S, S \subseteq Nat
  PROVE  (FirstOf(S) = Null <=> S = {}) /\ (S # {} => FirstOf(S) \in S)
<1>1. CASE S # {}
  <2>1. FirstOf(S) = CHOOSE x \in S : \A y \in S : x <= y
    BY <1>1 DEF FirstOf
  <2>2. FirstOf(S) \in S
    BY <1>1, <2>1, Least
  <2> QED BY <1>1, <2>2, NullOutside
<1> QED BY <1>1 DEF FirstOf

\* Tenants are numbered from one, and each has its settings.
LEMMA TenantNumbers ==
  ASSUME RegistryRows
  PROVE  /\ DOMAIN tenants = 1..Len(tenants) /\ Len(tenants) \in Nat
         /\ DOMAIN tenants \subseteq 1..MaxTenants /\ DOMAIN tenants \subseteq Nat
         /\ DOMAIN settings = DOMAIN tenants /\ Null \notin DOMAIN tenants
         /\ \A t \in DOMAIN tenants : tenants[t] \in Tenant
<1>1. DOMAIN tenants = 1..Len(tenants) /\ Len(tenants) \in Nat /\ Len(tenants) <= MaxTenants
  BY DEF RegistryRows
<1>2. MaxTenants \in Nat
  BY RegistryAssumption
<1>3. DOMAIN tenants \subseteq 1..MaxTenants /\ DOMAIN tenants \subseteq Nat
  BY <1>1, <1>2
<1> QED BY <1>1, <1>3, NullOutside DEF RegistryRows

\* Looking for a slug finds a tenant that has it, or none has it.
LEMMA SlugFound ==
  ASSUME RegistryRows, NEW s
  PROVE  /\ BySlug(s) \in DOMAIN tenants \cup {Null}
         /\ BySlug(s) = Null <=> \A t \in DOMAIN tenants : tenants[t].slug # s
         /\ BySlug(s) # Null => tenants[BySlug(s)].slug = s
<1> DEFINE S == {t \in DOMAIN tenants : tenants[t].slug = s}
<1>1. S \subseteq Nat
  BY TenantNumbers
<1>2. (FirstOf(S) = Null <=> S = {}) /\ (S # {} => FirstOf(S) \in S)
  BY <1>1, FirstOfSet
<1> QED BY <1>2, TenantNumbers DEF BySlug

\* Looking for a user's tenant finds a tenant or none.
LEMMA MemberFound ==
  ASSUME RegistryRows, NEW u
  PROVE  ByMembership(u) \in DOMAIN tenants \cup {Null}
<1> DEFINE S == {i \in DOMAIN members : members[i].user = u /\ members[i].active}
<1>1. S \subseteq Nat
  BY DEF RegistryRows
<1>2. FirstOf(S) # Null => FirstOf(S) \in DOMAIN members
  BY <1>1, FirstOfSet
<1> QED BY <1>2 DEF ByMembership, RegistryRows

\* A request is served for a tenant that is there, or for none.
LEMMA ResolvedTenant ==
  ASSUME RegistryRows, NEW q
  PROVE  Resolve(HintsOf(q)) \in DOMAIN tenants \cup {Null}
<1>1. \A d : ByDomain(d) \in DOMAIN tenants \cup {Null}
  BY DEF ByDomain, RegistryRows
<1> QED BY <1>1, SlugFound, MemberFound DEF Resolve, FoundOr

\* A step of the registry that is done.
LEMMA RegistryWritten ==
  ASSUME TenancyInv, NEW r \in Requests, OnlySlot(r, SettingsLabels), UNCHANGED <<years, apps, served>>,
         TenancyCarries(req[r])', RegistryRows', DOMAIN tenants \subseteq DOMAIN tenants'
  PROVE  TenancyInv'
<1>1. TenancyGrows /\ YearRows' /\ AppsTypeOK'
  BY YearsKept, AppsKept DEF TenancyInv, TenancyGrows, apps
<1> QED BY <1>1, TenancyKeptByStep

\* The values of a settings row.
LEMMA SettingsValues ==
  /\ Fresh \in SettingsRow /\ Values \subseteq SettingsRow /\ 0 \in SettingsRow
  /\ SettingsRow \subseteq Values \cup {0, Null}
BY DEF Fresh, SettingsRow, TenantSettings, TenantBranding, TenantGradingRule, TenantAttendanceRule

\* A new tenant has a slug and a domain of its own.
LEMMA CreateTenantKeeps ==
  ASSUME TenancyInv, NEW r \in Requests, NEW slug \in Slugs, NEW domain \in Domains \cup {Null},
         CreateTenant(r, slug, domain), UNCHANGED <<years, apps, served>>,
         OnlySlot(r, SettingsLabels)
  PROVE  TenancyInv'
<1> DEFINE new == [slug |-> slug, primary |-> domain]  n == Len(tenants) + 1
<1>0. RegistryRows
  BY DEF TenancyInv
<1>1. /\ Len(tenants) < MaxTenants /\ BySlug(slug) = Null /\ domain \notin DOMAIN domains
      /\ tenants' = Append(tenants, new) /\ settings' = Append(settings, Fresh)
      /\ domains' = IF domain = Null THEN domains ELSE WithRow(domains, domain, n)
      /\ UNCHANGED <<members, req>> /\ req'[r].at = "idle"
  BY DEF CreateTenant, Conflict, Idle
<1>2. new \in Tenant /\ new.slug = slug /\ new.primary = domain
  BY DEF Tenant
<1> HIDE DEF new, n
<1>3. /\ tenants' \in Seq(Tenant) /\ Len(tenants') = n /\ n \in Nat /\ n <= MaxTenants
      /\ DOMAIN tenants' = DOMAIN tenants \cup {n} /\ n \notin DOMAIN tenants
      /\ tenants'[n] = new /\ \A t \in DOMAIN tenants : tenants'[t] = tenants[t]
  BY <1>0, <1>1, <1>2, RowAppended, RegistryAssumption DEF n, RegistryRows
<1>4. settings' \in Seq(SettingsRow)' /\ Len(settings') = Len(tenants')
  <2>1. SettingsRow' = SettingsRow
    BY DEF SettingsRow
  <2>2. settings' \in Seq(SettingsRow) /\ Len(settings') = Len(settings) + 1
    BY <1>0, <1>1, SettingsValues, RowAppended DEF RegistryRows
  <2> QED BY <1>0, <1>3, <2>1, <2>2 DEF n, RegistryRows
<1>5. /\ \A d \in DOMAIN domains : d \in DOMAIN domains' /\ domains'[d] = domains[d]
      /\ domain # Null => domain \in DOMAIN domains' /\ domains'[domain] = n
      /\ \A d \in DOMAIN domains' : d \in DOMAIN domains \/ (d \in Domains /\ domains'[d] = n)
  BY <1>1 DEF WithRow
<1>6. \A t \in DOMAIN tenants : tenants[t].slug # slug
  BY <1>0, <1>1, SlugFound
<1>7. \A t \in DOMAIN tenants' :
        /\ tenants'[t].primary # Null =>
             tenants'[t].primary \in DOMAIN domains' /\ domains'[tenants'[t].primary] = t
        /\ \A s \in DOMAIN tenants' : tenants'[s].slug = tenants'[t].slug => s = t
  BY <1>0, <1>2, <1>3, <1>5, <1>6 DEF RegistryRows
<1>8. /\ DOMAIN domains' \subseteq Domains
      /\ \A d \in DOMAIN domains' : domains'[d] \in DOMAIN tenants'
      /\ \A i \in DOMAIN members' : members'[i].tenant \in DOMAIN tenants'
      /\ members' \in Seq(TenantUser)
  BY <1>0, <1>1, <1>3, <1>5 DEF RegistryRows
<1>9. RegistryRows'
  BY <1>3, <1>4, <1>7, <1>8 DEF RegistryRows
<1> QED BY <1>1, <1>3, <1>9, RegistryWritten DEF TenancyCarries, YearLabels, SettingsLabels

\* A domain and a member more, of a tenant that is there.
LEMMA MoreKeeps ==
  ASSUME TenancyInv, NEW r \in Requests, NEW t \in DOMAIN tenants,
         \/ \E d \in Domains : CreateDomain(r, t, d)
         \/ \E u \in UserIds, active \in BOOLEAN : AddTenantUser(r, t, u, active),
         UNCHANGED <<years, apps, served>>, OnlySlot(r, SettingsLabels)
  PROVE  TenancyInv'
<1>0. RegistryRows
  BY DEF TenancyInv
<1>r. SettingsRow' = SettingsRow
  BY DEF SettingsRow
<1>1. ASSUME NEW d \in Domains, CreateDomain(r, t, d) PROVE TenancyInv'
  <2>1. /\ d \notin DOMAIN domains /\ domains' = WithRow(domains, d, t)
        /\ UNCHANGED <<tenants, members, settings, req>> /\ req'[r].at = "idle"
    BY <1>1 DEF CreateDomain, Idle
  <2>2. /\ DOMAIN domains' = DOMAIN domains \cup {d} /\ domains'[d] = t
        /\ \A e \in DOMAIN domains : domains'[e] = domains[e]
    BY <2>1 DEF WithRow
  <2>3. RegistryRows'
    BY <1>0, <1>r, <2>1, <2>2 DEF RegistryRows
  <2> QED BY <2>1, <2>3, RegistryWritten DEF TenancyCarries, YearLabels, SettingsLabels
<1>2. ASSUME NEW u \in UserIds, NEW active \in BOOLEAN, AddTenantUser(r, t, u, active)
      PROVE  TenancyInv'
  <2> DEFINE new == [tenant |-> t, user |-> u, active |-> active]
  <2>1. /\ members' = Append(members, new)
        /\ UNCHANGED <<tenants, domains, settings, req>> /\ req'[r].at = "idle"
    BY <1>2 DEF AddTenantUser, Idle
  <2>2. new \in TenantUser /\ new.tenant = t
    BY <1>0, TenantNumbers DEF TenantUser
  <2> HIDE DEF new
  <2>3. /\ members' \in Seq(TenantUser)
        /\ \A i \in DOMAIN members' : members'[i].tenant \in DOMAIN tenants
    BY <1>0, <2>1, <2>2, RowAppended DEF RegistryRows
  <2>4. RegistryRows'
    BY <1>0, <1>r, <2>1, <2>3 DEF RegistryRows
  <2> QED BY <2>1, <2>4, RegistryWritten DEF TenancyCarries, YearLabels, SettingsLabels
<1> QED BY <1>1, <1>2

\* A settings row is read or changed for the tenant that the request resolves to.
LEMMA SettingsKeeps ==
  ASSUME TenancyInv, NEW r \in Requests, UNCHANGED <<years, apps, served>>,
         OnlySlot(r, SettingsLabels),
         \/ \E q \in Arrivals, v \in Values \cup {Null} : SettingsLoad(r, q, v)
         \/ SettingsCreate(r) \/ SettingsUpdate(r)
  PROVE  TenancyInv'
<1> DEFINE x == req[r]
<1>0. /\ RegistryRows /\ TenancyCarries(x) /\ Slots /\ Null \notin Values
      /\ DOMAIN settings = DOMAIN tenants
  BY TenantNumbers, RegistryAssumption, NullOutside DEF TenancyInv
<1>r. SettingsRow' = SettingsRow
  BY DEF SettingsRow
<1>1. ASSUME NEW q \in Arrivals, NEW v \in Values \cup {Null}, SettingsLoad(r, q, v)
      PROVE  TenancyInv'
  <2> DEFINE t == Resolve(HintsOf(q))
  <2>1. t \in DOMAIN tenants
    BY <1>0, <1>1, ResolvedTenant DEF SettingsLoad
  <2> HIDE DEF t
  <2>2. PICK y : /\ Begin(r, y) /\ y.tenant = t /\ y.scope = t /\ y.value = v
                 /\ {"at", "seen", "scope"} \subseteq DOMAIN y
                 /\ y.at = (IF settings[t] = Null THEN "settings.create" ELSE "settings.update")
    BY <1>1 DEF SettingsLoad, t
  <2>3. settings[t] # Null => v # Null
    BY <1>1 DEF SettingsLoad, t
  <2>4. req'[r] = y /\ UNCHANGED registry
    BY <1>0, <1>1, <2>2 DEF SettingsLoad, Begin, Slots
  <2>5. TenancyCarries(y)'
    BY <2>1, <2>2, <2>3, <2>4 DEF TenancyCarries, YearLabels, SettingsLabels, registry
  <2> QED BY <1>0, <2>4, <2>5, RegistryKept, RegistryWritten DEF registry
<1>2. ASSUME NEW y, y \in SettingsRow, x.tenant \in DOMAIN tenants,
             settings' = [settings EXCEPT ![x.tenant] = y], UNCHANGED <<tenants, domains, members>>
      PROVE  RegistryRows'
  <2>1. settings' \in Seq(SettingsRow) /\ Len(settings') = Len(settings)
    BY <1>0, <1>2 DEF RegistryRows
  <2> QED BY <1>0, <1>2, <1>r, <2>1 DEF RegistryRows
<1>3. CASE SettingsCreate(r)
  <2>1. /\ x.at = "settings.create" /\ UNCHANGED <<tenants, domains, members>>
        /\ x.tenant \in DOMAIN tenants /\ x.scope = x.tenant /\ x.value \in Values \cup {Null}
        /\ {"at", "seen", "scope"} \subseteq DOMAIN x
    BY <1>0, <1>3 DEF SettingsCreate, TenancyCarries, SettingsLabels
  <2>2. RegistryRows'
    <3>1. CASE settings' = settings
      BY <1>0, <2>1, <3>1, RegistryKept DEF registry
    <3>2. CASE settings' = [settings EXCEPT ![x.tenant] = 0]
      BY <1>2, <2>1, <3>2, SettingsValues
    <3> QED BY <1>3, <3>1, <3>2 DEF SettingsCreate
  <2>3. TenancyCarries(req[r])'
    <3>1. CASE Return(r)
      BY <1>0, <3>1 DEF Return, Idle, Slots, TenancyCarries, YearLabels, SettingsLabels
    <3>2. CASE ~Return(r)
      <4> DEFINE y == [x EXCEPT !.at = "settings.update", !.seen = 0, !.scope = ScopeAfterCommit(x)]
      <4>1. x.value # Null /\ req' = [req EXCEPT ![r] = y]
        BY <1>3, <3>2 DEF SettingsCreate, Continue
      <4>2. /\ y.at = "settings.update" /\ y.tenant = x.tenant /\ y.value = x.value
            /\ DOMAIN y = DOMAIN x
        BY <2>1
      <4>3. y.scope = x.tenant
        BY <2>1 DEF ScopeAfterCommit
      <4> HIDE DEF y
      <4>4. req'[r] = y
        BY <1>0, <4>1 DEF Slots
      <4> QED BY <2>1, <4>1, <4>2, <4>3, <4>4 DEF TenancyCarries, YearLabels, SettingsLabels
    <3> QED BY <3>1, <3>2
  <2> QED BY <2>1, <2>2, <2>3, RegistryWritten
<1>4. CASE SettingsUpdate(r)
  <2>1. /\ x.at = "settings.update" /\ UNCHANGED <<tenants, domains, members>> /\ req'[r].at = "idle"
        /\ x.tenant \in DOMAIN tenants /\ x.value \in Values
    BY <1>0, <1>4 DEF SettingsUpdate, TenancyCarries, SettingsLabels, Return, Idle, Slots
  <2>2. RegistryRows'
    <3> DEFINE y == Flushed(settings[x.tenant], x.seen, x.value)
    <3>1. CASE settings' = settings
      BY <1>0, <2>1, <3>1, RegistryKept DEF registry
    <3>2. CASE settings' = [settings EXCEPT ![x.tenant] = y]
      <4>1. settings[x.tenant] \in SettingsRow
        BY <1>0, <2>1 DEF RegistryRows
      <4>2. y \in SettingsRow
        BY <2>1, <4>1, SettingsValues DEF Flushed
      <4> HIDE DEF y
      <4> QED BY <1>2, <2>1, <3>2, <4>2
    <3> QED BY <1>4, <3>1, <3>2 DEF SettingsUpdate
  <2> QED BY <2>1, <2>2, RegistryWritten DEF TenancyCarries, YearLabels, SettingsLabels
<1> QED BY <1>1, <1>3, <1>4

\* Every handler of tenants and settings keeps the invariant.
LEMMA RegistryInvStep ==
  ASSUME TenancyInv, NEW r \in Requests, RegistryStep(r), UNCHANGED <<years, apps, served>>
  PROVE  TenancyInv'
<1>1. OnlySlot(r, SettingsLabels)
  BY RegistrySlot DEF TenancyInv
<1> QED BY <1>1, RegistrySteps, CreateTenantKeeps, MoreKeeps, SettingsKeeps
-----------------------------------------------------------------------------
(* Apps.                                                                    *)

\* A step of the apps' handlers.
LEMMA AppWritten ==
  ASSUME TenancyInv, NEW r \in Requests, OnlySlot(r, AppLabels), UNCHANGED <<years, registry, served>>,
         TenancyCarries(req[r])', AppsTypeOK', app \in TenantApp => app' \in TenantApp
  PROVE  TenancyInv'
<1>1. TenancyGrows /\ YearRows' /\ RegistryRows'
  BY YearsKept, RegistryKept DEF TenancyInv, TenancyGrows, registry
<1> QED BY <1>1, TenancyKeptByStep

\* A row of an app after new values for some of its columns, and after a toggle.
LEMMA AppRows ==
  /\ \A now, row, new \in TenantApp : Written(now, row, new) \in TenantApp
  /\ \A now \in TenantApp, s \in {"enabled", "disabled", "locked", "trial"} :
       /\ [now EXCEPT !.status = s] \in TenantApp
       /\ [now EXCEPT !.status = s].status = s
       /\ [now EXCEPT !.status = s].subscription = now.subscription
       /\ [now EXCEPT !.status = s].ends = now.ends
<1>1. ASSUME NEW now \in TenantApp, NEW row \in TenantApp, NEW new \in TenantApp
      PROVE  Written(now, row, new) \in TenantApp
  BY DEF Written, Flushed, TenantApp
<1>2. ASSUME NEW now \in TenantApp, NEW s \in {"enabled", "disabled", "locked", "trial"}
      PROVE  /\ [now EXCEPT !.status = s] \in TenantApp
             /\ [now EXCEPT !.status = s].status = s
             /\ [now EXCEPT !.status = s].subscription = now.subscription
             /\ [now EXCEPT !.status = s].ends = now.ends
  BY DEF TenantApp
<1> QED BY <1>1, <1>2

\* What a toggle writes into the row.
LEMMA ToggledRow ==
  ASSUME NEW x, app \in TenantApp, x.row \in TenantApp
  PROVE  /\ Toggled(x) \in TenantApp
         /\ Toggled(x).status = Flushed(app.status, x.row.status, StatusAfter(x))
         /\ Toggled(x).subscription = app.subscription /\ Toggled(x).ends = app.ends
<1> DEFINE s == Flushed(app.status, x.row.status, StatusAfter(x))
<1>1. s \in {"enabled", "disabled", "locked", "trial"}
  <2>1. app.status \in {"enabled", "disabled", "locked", "trial"}
    BY DEF TenantApp
  <2> QED BY <2>1 DEF Flushed, StatusAfter
<1>2. PICK now \in TenantApp : now = app
  OBVIOUS
<1>3. Toggled(x) = [now EXCEPT !.status = s]
  BY <1>2 DEF Toggled
<1> HIDE DEF s
<1>4. /\ [now EXCEPT !.status = s] \in TenantApp /\ [now EXCEPT !.status = s].status = s
      /\ [now EXCEPT !.status = s].subscription = now.subscription
      /\ [now EXCEPT !.status = s].ends = now.ends
  BY <1>1, AppRows
<1> QED BY <1>2, <1>3, <1>4 DEF s

\* An offered app has the columns of an app's row.
LEMMA OfferedRow ==
  ASSUME NEW offer \in Offers, NEW t
  PROVE  Offered(offer, t) \in TenantApp
<1>1. offer \in TenantApp
  BY AppsAssumption
<1>2. [offer EXCEPT !.status = "disabled"] \in TenantApp
  BY <1>1, AppRows
<1> QED BY <1>1, <1>2 DEF Offered

\* Every handler of apps keeps the invariant.
LEMMA AppInvStep ==
  ASSUME TenancyInv, NEW r \in Requests, AppStep(r), UNCHANGED <<years, registry, served>>
  PROVE  TenancyInv'
<1> DEFINE x == req[r]
<1>0. OnlySlot(r, AppLabels) /\ Slots /\ AppsTypeOK /\ TenancyCarries(x)
  BY AppSlot DEF TenancyInv
<1>q. ASSUME UNCHANGED apps, TenancyCarries(req[r])' PROVE TenancyInv'
  BY <1>0, <1>q, AppsKept, AppWritten DEF apps
<1>i. ASSUME req'[r] = Idle PROVE TenancyCarries(req[r])'
  BY <1>i DEF Idle, TenancyCarries, YearLabels, SettingsLabels
<1> USE DEF YearLabels, SettingsLabels
<1>1. ASSUME NEW active \in BOOLEAN, CatalogLoad(r, active) PROVE TenancyInv'
  <2>1. TenancyCarries(req[r])'
    BY <1>0, <1>1 DEF CatalogLoad, Begin, Slots, TenancyCarries
  <2> QED BY <1>1, <1>q, <2>1 DEF CatalogLoad
<1>2. ASSUME NEW offer \in Offers, OfferCatalog(r, offer) PROVE TenancyInv'
  <2>1. PICK o \in TenantApp : o = Offered(offer, clock)
    BY OfferedRow
  <2>2. req'[r] = [at |-> "offer.find", offer |-> o]
    BY <1>0, <1>2, <2>1 DEF OfferCatalog, Begin, Slots
  <2>3. TenancyCarries(req[r])'
    BY <2>2 DEF TenancyCarries
  <2> QED BY <1>2, <1>q, <2>3 DEF OfferCatalog
<1>3. ASSUME NEW enabled \in BOOLEAN, ToggleLoad(r, enabled) PROVE TenancyInv'
  <2>1. app \in TenantApp /\ UNCHANGED apps
    BY <1>0, <1>3 DEF ToggleLoad, AppsTypeOK
  <2>2. req'[r] = [at |-> "toggle.catalog", row |-> app, enabled |-> enabled]
    BY <1>0, <1>3 DEF ToggleLoad, Begin, Slots
  <2>3. TenancyCarries(req[r])'
    BY <2>1, <2>2 DEF TenancyCarries, apps
  <2> QED BY <1>q, <2>1, <2>3
<1>4. CASE CatalogSave(r)
  <2>1. /\ x.active \in BOOLEAN /\ UNCHANGED <<app, flag, clock>> /\ req'[r] = Idle
        /\ catalog' \in {x.active, catalog}
    BY <1>0, <1>4 DEF CatalogSave, TenancyCarries, Return, Slots, Flushed
  <2>2. AppsTypeOK'
    BY <1>0, <2>1 DEF AppsTypeOK, AppCatalog
  <2> QED BY <1>0, <1>i, <2>1, <2>2, AppWritten
<1>5. CASE OfferFind(r)
  <2>1. /\ x.offer \in TenantApp /\ UNCHANGED apps
        /\ req'[r] = [at |-> "offer.save", seen |-> app, offer |-> x.offer]
    BY <1>0, <1>5 DEF OfferFind, TenancyCarries, Continue, Slots
  <2>2. TenancyCarries(req[r])'
    BY <1>0, <2>1 DEF TenancyCarries, AppsTypeOK
  <2> QED BY <1>q, <2>1, <2>2
<1>6. CASE OfferSave(r)
  <2>1. /\ x.offer \in TenantApp /\ x.seen \in TenantApp \cup {Null} /\ app \in TenantApp \cup {Null}
        /\ UNCHANGED <<catalog, flag, clock>> /\ req'[r] = Idle
    BY <1>0, <1>6 DEF OfferSave, TenancyCarries, Return, Slots, AppsTypeOK
  <2>2. app' \in TenantApp
    <3>1. CASE app = Null
      BY <1>6, <2>1, <3>1 DEF OfferSave
    <3>2. CASE app # Null /\ x.seen = Null
      BY <1>6, <2>1, <3>2 DEF OfferSave
    <3>3. CASE app # Null /\ x.seen # Null
      <4>1. app' = Written(app, x.seen, x.offer)
        BY <1>6, <3>3 DEF OfferSave
      <4> QED BY <2>1, <3>3, <4>1, AppRows
    <3> QED BY <3>1, <3>2, <3>3
  <2>3. AppsTypeOK'
    BY <1>0, <2>1, <2>2 DEF AppsTypeOK
  <2> QED BY <1>0, <1>i, <2>1, <2>2, <2>3, AppWritten
<1>7. CASE ToggleCatalog(r)
  <2>1. /\ app \in TenantApp /\ x.row \in TenantApp /\ x.enabled \in BOOLEAN /\ UNCHANGED apps
        /\ req'[r] = [at |-> "toggle.setting", row |-> x.row, enabled |-> x.enabled,
                      active |-> catalog]
    BY <1>0, <1>7 DEF ToggleCatalog, TenancyCarries, Continue, Slots
  <2>2. TenancyCarries(req[r])'
    BY <2>1 DEF TenancyCarries, apps
  <2> QED BY <1>q, <2>1, <2>2
<1>8. CASE ToggleSetting(r)
  <2>1. app \in TenantApp /\ x.row \in TenantApp /\ x.enabled \in BOOLEAN /\ UNCHANGED apps
    BY <1>0, <1>8 DEF ToggleSetting, TenancyCarries
  <2>2. req'[r] = Idle \/
        req'[r] = [at |-> "toggle.save", row |-> x.row, enabled |-> x.enabled, flag |-> flag]
    BY <1>0, <1>8 DEF ToggleSetting, Continue, Return, Slots
  <2>3. TenancyCarries(req[r])'
    BY <1>i, <2>1, <2>2 DEF TenancyCarries, apps
  <2> QED BY <1>q, <2>1, <2>3
<1>9. CASE ToggleSave(r)
  <2>1. /\ app \in TenantApp /\ x.row \in TenantApp /\ x.enabled \in BOOLEAN
        /\ UNCHANGED <<catalog, clock>> /\ req'[r] = Idle
        /\ app' \in {app, Toggled(x)} /\ flag' \in {flag, x.enabled}
    BY <1>0, <1>9 DEF ToggleSave, TenancyCarries, Return, Slots, Flushed
  <2>2. app' \in TenantApp
    BY <2>1, ToggledRow
  <2>3. AppsTypeOK'
    BY <1>0, <2>1, <2>2 DEF AppsTypeOK, TenantAppSetting
  <2> QED BY <1>0, <1>i, <2>1, <2>2, <2>3, AppWritten
<1> QED
  BY <1>1, <1>2, <1>3, <1>4, <1>5, <1>6, <1>7, <1>8, <1>9 DEF AppStep, AppProgress

\* So does the clock.
LEMMA ClockInvStep ==
  ASSUME TenancyInv, ClockTicks, UNCHANGED <<years, registry, served>>
  PROVE  TenancyInv'
<1>1. /\ clock \in 0..LastTime /\ clock < LastTime /\ clock' = clock + 1
      /\ UNCHANGED <<catalog, app, flag, req>> /\ AppsTypeOK
  BY DEF TenancyInv, AppsTypeOK, ClockTicks
<1>2. AppsTypeOK'
  BY <1>1, AppsAssumption DEF AppsTypeOK
<1>3. YearRows' /\ RegistryRows'
  BY YearsKept, RegistryKept DEF TenancyInv
<1>4. \A r \in Requests : TenancyCarries(req[r])'
  BY <1>1 DEF TenancyInv, TenancyCarries, registry
<1> QED BY <1>1, <1>2, <1>3, <1>4 DEF TenancyInv, Slots

-----------------------------------------------------------------------------
(* Academic years.                                                           *)

\* A step that writes years leaves everything else as it was.
LEMMA YearWritten ==
  ASSUME TenancyInv, NEW r \in Requests, OnlySlot(r, YearLabels), UNCHANGED <<apps, registry, served>>,
         TenancyCarries(req[r])', YearRows'
  PROVE  TenancyInv'
<1>1. TenancyGrows /\ AppsTypeOK' /\ RegistryRows'
  BY AppsKept, RegistryKept DEF TenancyInv, TenancyGrows, apps, registry
<1> QED BY <1>1, TenancyKeptByStep

\* What an update asks for, and a row after new values for some of its columns.
LEMMA AskedRow ==
  ASSUME NEW change \in Changes, NEW row \in Rows
  PROVE  [c \in DOMAIN change |-> Asked(change[c], row[c])] \in Rows
BY YearsAssumption DEF Asked, Rows, Updates

\* A flushed year has the columns' types, and is current only if it or the new
\* row was.
LEMMA WrittenYear ==
  ASSUME NEW now \in Rows, NEW row \in Rows, NEW new \in Rows
  PROVE  /\ Written(now, row, new) \in Rows
         /\ Written(now, row, new).current \in {now.current, new.current}
BY DEF Written, Flushed, Rows

\* The rows as the save leaves them.
LEMMA SavedYears ==
  ASSUME YearRows, NEW x, x.y \in Years, x.row \in Rows, x.new \in Rows,
         years' = IF x.y \in DOMAIN years
                  THEN [Cleared(x) EXCEPT ![x.y] = Written(@, x.row, x.new)]
                  ELSE WithRow(Cleared(x), x.y, x.new)
  PROVE  /\ YearRows'
         /\ DOMAIN years' = DOMAIN years \cup {x.y}
         /\ \A y \in DOMAIN years \ {x.y} :
              years'[y].current => years[y].current /\ y \notin x.cleared
         /\ years'[x.y].current =>
              x.new.current \/ (x.y \in DOMAIN years /\ years[x.y].current)
<1> DEFINE rows == Cleared(x)
<1>1. /\ DOMAIN rows = DOMAIN years /\ DOMAIN years \subseteq Years
      /\ \A y \in DOMAIN years : /\ rows[y] \in Rows
                                 /\ rows[y].current <=> years[y].current /\ y \notin x.cleared
  <2>1. ASSUME NEW y \in DOMAIN years
        PROVE  /\ rows[y] \in Rows
               /\ rows[y].current <=> years[y].current /\ y \notin x.cleared
    <3>1. PICK t \in Rows : t = years[y]
      BY DEF YearRows
    <3> DEFINE new == [t EXCEPT !.current = t.current /\ y \notin x.cleared]
    <3>2. rows[y] = new
      BY <3>1 DEF Cleared
    <3>3. new \in Rows /\ (new.current <=> t.current /\ y \notin x.cleared)
      BY DEF Rows
    <3> HIDE DEF new, rows
    <3> QED BY <3>1, <3>2, <3>3
  <2> QED BY <2>1 DEF Cleared, YearRows
<1>a. rows = [y \in DOMAIN rows |-> rows[y]]
  BY DEF Cleared
<1>2. CASE x.y \in DOMAIN years
  <2> DEFINE new == Written(rows[x.y], x.row, x.new)
  <2>1. years' = [rows EXCEPT ![x.y] = new]
    BY <1>2
  <2>2. new \in Rows /\ new.current \in {rows[x.y].current, x.new.current}
    BY <1>1, <1>2, WrittenYear
  <2> HIDE DEF new, rows
  <2>3. /\ IsTable(years') /\ DOMAIN years' = DOMAIN years /\ years'[x.y] = new
        /\ \A y \in DOMAIN years \ {x.y} : years'[y] = rows[y]
    BY <1>1, <1>2, <1>a, <2>1 DEF IsTable
  <2> QED BY <1>1, <1>2, <2>2, <2>3 DEF YearRows
<1>3. CASE x.y \notin DOMAIN years
  <2>1. years' = WithRow(rows, x.y, x.new)
    BY <1>3
  <2> HIDE DEF rows
  <2>2. /\ IsTable(years') /\ DOMAIN years' = DOMAIN years \cup {x.y} /\ years'[x.y] = x.new
        /\ \A y \in DOMAIN years : years'[y] = rows[y]
    BY <1>1, <1>3, <2>1 DEF WithRow, IsTable
  <2> QED BY <1>1, <1>3, <2>2 DEF YearRows
<1> QED BY <1>2, <1>3

\* Every handler of years keeps the invariant.
LEMMA YearInvStep ==
  ASSUME TenancyInv, NEW r \in Requests, YearStep(r), UNCHANGED <<apps, registry, served>>
  PROVE  TenancyInv'
<1> DEFINE x == req[r]
<1>0. OnlySlot(r, YearLabels) /\ Slots /\ YearRows /\ TenancyCarries(x)
  BY YearSlot DEF TenancyInv
<1>q. ASSUME UNCHANGED years, TenancyCarries(req[r])' PROVE TenancyInv'
  BY <1>0, <1>q, YearsKept, YearWritten
<1>c. ASSUME NEW z, req'[r] = z, z.at \in YearLabels, z.y \in Years, z.row \in Rows, z.new \in Rows
      PROVE  TenancyCarries(req[r])'
  BY <1>c DEF TenancyCarries, YearLabels, SettingsLabels
<1>i. ASSUME req'[r] = Idle PROVE TenancyCarries(req[r])'
  BY <1>i DEF Idle, TenancyCarries, YearLabels, SettingsLabels
<1>1. ASSUME NEW y \in Years, NEW new \in Created, CreateBegin(r, y, new) PROVE TenancyInv'
  <2> DEFINE z == [at |-> First(new.current), y |-> y, row |-> new, new |-> new, cleared |-> {}]
  <2>1. req'[r] = z /\ UNCHANGED years /\ new \in Rows
    BY <1>0, <1>1, YearsAssumption DEF CreateBegin, Begin, Slots
  <2>2. z.at \in YearLabels /\ z.y = y /\ z.row = new /\ z.new = new
    BY DEF First, YearLabels
  <2> HIDE DEF z
  <2> QED BY <1>c, <1>q, <2>1, <2>2
<1>2. ASSUME NEW y \in DOMAIN years, NEW change \in Changes, UpdateLoad(r, y, change)
      PROVE  TenancyInv'
  <2> DEFINE new == [c \in DOMAIN change |-> Asked(change[c], years[y][c])]
             z == [at |-> First(change.current = TRUE), y |-> y, row |-> years[y], new |-> new,
                   cleared |-> {}]
  <2>1. req'[r] = z /\ UNCHANGED years
    BY <1>0, <1>2 DEF UpdateLoad, Begin, Slots
  <2>2. years[y] \in Rows /\ y \in Years
    BY <1>0 DEF YearRows
  <2>3. new \in Rows
    BY <2>2, AskedRow
  <2> HIDE DEF new
  <2>4. z.at \in YearLabels /\ z.y = y /\ z.row = years[y] /\ z.new = new
    BY DEF First, YearLabels
  <2> HIDE DEF z
  <2> QED BY <1>c, <1>q, <2>1, <2>2, <2>3, <2>4
<1>3. CASE ClearStart(r) \/ ClearRow(r)
  <2>0. PICK targets, cleared : ClearOn(r, targets, cleared)
    BY <1>3 DEF ClearStart, ClearRow
  <2>1. PICK z : /\ req'[r] = z /\ z.at \in YearLabels
                 /\ z.y = x.y /\ z.row = x.row /\ z.new = x.new
    BY <1>0, <2>0 DEF ClearOn, Continue, Slots, YearLabels
  <2>2. UNCHANGED years /\ x.y \in Years /\ x.row \in Rows /\ x.new \in Rows
    BY <1>0, <1>3 DEF ClearStart, ClearRow, TenancyCarries, YearLabels
  <2> QED BY <1>c, <1>q, <2>1, <2>2
<1>4. CASE Save(r)
  <2>1. /\ x.y \in Years /\ x.row \in Rows /\ x.new \in Rows /\ req'[r] = Idle
        /\ years' = IF x.y \in DOMAIN years
                    THEN [Cleared(x) EXCEPT ![x.y] = Written(@, x.row, x.new)]
                    ELSE WithRow(Cleared(x), x.y, x.new)
    BY <1>0, <1>4 DEF Save, TenancyCarries, YearLabels, Return, Slots
  <2>2. YearRows'
    BY <1>0, <2>1, SavedYears
  <2> QED BY <1>0, <1>i, <2>1, <2>2, YearWritten
<1>5. CASE Abort(r)
  BY <1>0, <1>5, <1>i, <1>q DEF Abort, Return, Slots
<1> QED BY <1>1, <1>2, <1>3, <1>4, <1>5 DEF YearStep, Progress

\* Every step keeps the invariant.
LEMMA TenancyInvStep == TenancyInv /\ [TenancyNext]_tenancyVars => TenancyInv'
<1> SUFFICES ASSUME TenancyInv, [TenancyNext]_tenancyVars PROVE TenancyInv'
  OBVIOUS
<1>1. CASE UNCHANGED tenancyVars
  <2>1. UNCHANGED <<years, apps, registry, served, req>>
    BY <1>1 DEF tenancyVars
  <2>2. YearRows' /\ AppsTypeOK' /\ RegistryRows'
    BY <2>1, YearsKept, AppsKept, RegistryKept DEF TenancyInv
  <2> QED BY <2>1, <2>2 DEF TenancyInv, TenancyCarries, Slots, apps, registry
<1>2. CASE TenancyNext
  BY <1>2, TenancySteps, YearInvStep, AppInvStep, ClockInvStep, RegistryInvStep
<1> QED BY <1>1, <1>2

\* Years, apps, tenants, domains, members and settings rows have their columns' types.
THEOREM TenancyTypeCorrect == TenancySpec => []TenancyTypeOK
<1>1. ASSUME TenancyInv PROVE TenancyTypeOK
  <2>1. TypeOK /\ AppsTypeOK
    BY <1>1 DEF TenancyInv, YearRows, TypeOK
  <2>2. \A d \in DOMAIN domains : domains[d] \in TenantDomain
    BY <1>1, TenantNumbers DEF TenancyInv, RegistryRows, TenantDomain
  <2> QED BY <1>1, <2>1, <2>2 DEF TenancyInv, RegistryRows, TenancyTypeOK
<1> QED BY <1>1, TenancyInvInit, TenancyInvStep, PTL DEF TenancySpec

\* Whatever domains and slugs other tenants ask for, in whatever order, the domain that a
\* tenant was created with resolves to it, and so does its slug.
THEOREM HostsFindTheirTenantCorrect == TenancySpec => []HostsFindTheirTenant
<1>1. ASSUME TenancyInv PROVE HostsFindTheirTenant
  <2> SUFFICES ASSUME NEW t \in DOMAIN tenants
               PROVE  /\ tenants[t].primary # Null => ByDomain(tenants[t].primary) = t
                      /\ BySlug(tenants[t].slug) = t
    BY DEF HostsFindTheirTenant
  <2>1. RegistryRows
    BY <1>1 DEF TenancyInv
  <2>2. BySlug(tenants[t].slug) \in DOMAIN tenants
        /\ tenants[BySlug(tenants[t].slug)].slug = tenants[t].slug
    BY <2>1, SlugFound
  <2> QED BY <2>1, <2>2 DEF RegistryRows, ByDomain
<1> QED BY <1>1, TenancyInvInit, TenancyInvStep, PTL DEF TenancySpec

-----------------------------------------------------------------------------
(* One request at a time.                                                     *)

\* At most one year is current.
OneYear == \A y, z \in Current : y = z

\* What a request has loaded is still so: the other current years, the app's row, its
\* entry and its setting, the settings row.
TenancyIsCurrent(x) ==
  /\ x.at = "clear" => Current \ {x.y} \subseteq x.targets \cup x.cleared \cup {x.next}
  /\ x.at = "save" => (x.new.current => Current \ {x.y} \subseteq x.cleared)
  /\ x.at \in {"toggle.catalog", "toggle.setting", "toggle.save"} => x.row = app
  /\ x.at = "toggle.setting" => x.active = catalog
  /\ x.at = "toggle.save" =>
       /\ x.flag = flag /\ app.status # "locked"
       /\ x.enabled => catalog = TRUE /\ Subscribed(app)
  /\ x.at = "settings.update" => x.seen = settings[x.tenant]

\* The invariant of the requests taken one at a time.
CurrentInv == OneAtATime => OneYear /\ \A r \in Requests : TenancyIsCurrent(req[r])

\* No year is there, and no request is in flight.
LEMMA CurrentInvInit == TenancyInit => CurrentInv
<1> SUFFICES ASSUME TenancyInit PROVE CurrentInv
  OBVIOUS
<1>1. years = << >> /\ \A r \in Requests : req[r].at \in {"idle", "unused"}
  BY DEF TenancyInit, Init, InitRequests, Idle, Unused
<1>2. Current = {}
  BY <1>1 DEF Current
<1> QED BY <1>1, <1>2 DEF CurrentInv, OneYear, TenancyIsCurrent

\* The only request is the one that takes the step.
LEMMA CurrentKept ==
  ASSUME CurrentInv, NEW r \in Requests, NEW labels, OnlySlot(r, labels), "unused" \notin labels,
         OneAtATime /\ OneYear /\ TenancyIsCurrent(req[r]) => OneYear' /\ TenancyIsCurrent(req[r])'
  PROVE  CurrentInv'
<1> SUFFICES ASSUME OneAtATime'
             PROVE  OneYear' /\ \A p \in Requests : TenancyIsCurrent(req[p])'
  BY DEF CurrentInv
<1>1. OneAtATime /\ \A p \in Requests \ {r} : req'[p] = Unused
  BY OneSlot
<1>2. OneYear' /\ TenancyIsCurrent(req[r])'
  BY <1>1 DEF CurrentInv
<1>3. ASSUME NEW p \in Requests \ {r} PROVE TenancyIsCurrent(req[p])'
  BY <1>1, <1>3 DEF TenancyIsCurrent, Unused
<1> QED BY <1>2, <1>3

\* A year becomes current when every other one has been cleared.
LEMMA YearCurrentStep ==
  ASSUME TenancyInv, CurrentInv, NEW r \in Requests, YearStep(r),
         UNCHANGED <<apps, registry, served>>
  PROVE  CurrentInv'
<1> DEFINE x == req[r]
<1>0. OnlySlot(r, YearLabels) /\ "unused" \notin YearLabels
  BY YearSlot DEF TenancyInv, YearLabels
<1> SUFFICES ASSUME OneYear, TenancyIsCurrent(x)
             PROVE  OneYear' /\ TenancyIsCurrent(req[r])'
  BY <1>0, CurrentKept
<1>1. Slots /\ YearRows /\ TenancyCarries(x)
  BY DEF TenancyInv
<1>q. ASSUME UNCHANGED years PROVE OneYear' /\ Current' = Current
  BY <1>q DEF OneYear, Current
<1>i. ASSUME req'[r] = Idle PROVE TenancyIsCurrent(req[r])'
  BY <1>i DEF Idle, TenancyIsCurrent
<1>c. ASSUME NEW z, req'[r] = z, UNCHANGED years,
             \/ z.at = "clear.start"
             \/ z.at = "clear" /\ Current \ {z.y} \subseteq z.targets \cup z.cleared \cup {z.next}
             \/ z.at = "save" /\ (z.new.current => Current \ {z.y} \subseteq z.cleared)
      PROVE  OneYear' /\ TenancyIsCurrent(req[r])'
  BY <1>c, <1>q DEF TenancyIsCurrent
<1>2. ASSUME NEW y \in Years, NEW new \in Created, CreateBegin(r, y, new)
      PROVE  OneYear' /\ TenancyIsCurrent(req[r])'
  <2> DEFINE z == [at |-> First(new.current), y |-> y, row |-> new, new |-> new, cleared |-> {}]
  <2>1. req'[r] = z /\ UNCHANGED years
    BY <1>1, <1>2 DEF CreateBegin, Begin, Slots
  <2>2. z.at = "clear.start" \/ (z.at = "save" /\ ~z.new.current)
    BY DEF First
  <2> HIDE DEF z
  <2> QED BY <1>c, <2>1, <2>2
<1>3. ASSUME NEW y \in DOMAIN years, NEW change \in Changes, UpdateLoad(r, y, change)
      PROVE  OneYear' /\ TenancyIsCurrent(req[r])'
  <2> DEFINE new == [c \in DOMAIN change |-> Asked(change[c], years[y][c])]
             z == [at |-> First(change.current = TRUE), y |-> y, row |-> years[y], new |-> new,
                   cleared |-> {}]
  <2>1. req'[r] = z /\ UNCHANGED years
    BY <1>1, <1>3 DEF UpdateLoad, Begin, Slots
  <2>2. change \in Updates
    BY YearsAssumption
  <2>3. change.current # TRUE /\ new.current => y \in Current
    BY <2>2 DEF Asked, Updates, Current
  <2> HIDE DEF new
  <2>4. /\ z.y = y /\ z.new = new
        /\ z.at = "clear.start" \/ (z.at = "save" /\ change.current # TRUE)
    BY DEF First
  <2> HIDE DEF z
  <2>5. z.at = "save" /\ z.new.current => Current \ {z.y} = {}
    BY <2>3, <2>4 DEF OneYear
  <2> QED BY <1>c, <2>1, <2>4, <2>5
<1>o. ASSUME NEW targets, NEW cleared, ClearOn(r, targets, cleared), UNCHANGED years,
             Current \ {x.y} \subseteq targets \cup cleared
      PROVE  OneYear' /\ TenancyIsCurrent(req[r])'
  <2>1. PICK z : /\ req'[r] = z /\ z.y = x.y /\ z.cleared = cleared
                 /\ \/ targets = {} /\ z.at = "save"
                    \/ targets = z.targets \cup {z.next} /\ z.at = "clear"
    BY <1>1, <1>o DEF ClearOn, Continue, Slots
  <2>2. Current \ {z.y} \subseteq targets \cup z.cleared
    BY <1>o, <2>1
  <2> QED BY <1>c, <1>o, <2>1, <2>2
<1>4. CASE ClearStart(r)
  BY <1>4, <1>o DEF ClearStart
<1>5. CASE ClearRow(r)
  <2>1. Current \ {x.y} \subseteq x.targets \cup x.cleared \cup {x.next}
    BY <1>5 DEF ClearRow, TenancyIsCurrent
  <2> QED BY <1>5, <1>o, <2>1 DEF ClearRow
<1>6. CASE Save(r)
  <2>1. /\ x.y \in Years /\ x.row \in Rows /\ x.new \in Rows /\ req'[r] = Idle
        /\ years' = IF x.y \in DOMAIN years
                    THEN [Cleared(x) EXCEPT ![x.y] = Written(@, x.row, x.new)]
                    ELSE WithRow(Cleared(x), x.y, x.new)
    BY <1>1, <1>6 DEF Save, TenancyCarries, YearLabels, Return, Slots
  <2>2. /\ DOMAIN years' = DOMAIN years \cup {x.y}
        /\ \A y \in DOMAIN years \ {x.y} :
             years'[y].current => years[y].current /\ y \notin x.cleared
        /\ years'[x.y].current => x.new.current \/ (x.y \in DOMAIN years /\ years[x.y].current)
    BY <1>1, <2>1, SavedYears
  <2>3. x.new.current => Current \ {x.y} \subseteq x.cleared
    BY <1>6 DEF Save, TenancyIsCurrent
  <2>4. Current' \ {x.y} \subseteq Current \ x.cleared
    BY <2>2 DEF Current
  <2>5. CASE x.y \in Current'
    <3>1. x.new.current \/ x.y \in Current
      BY <2>2, <2>5 DEF Current
    <3>2. Current' \ {x.y} = {}
      BY <2>3, <2>4, <3>1 DEF OneYear
    <3> QED BY <1>i, <2>1, <3>2 DEF OneYear
  <2>6. CASE x.y \notin Current'
    BY <1>i, <2>1, <2>4, <2>6 DEF OneYear
  <2> QED BY <2>5, <2>6
<1>7. CASE Abort(r)
  BY <1>1, <1>7, <1>i, <1>q DEF Abort, Return, Slots
<1> QED BY <1>2, <1>3, <1>4, <1>5, <1>6, <1>7 DEF YearStep, Progress

\* A toggle that is on its way still finds the row, the entry and the setting it loaded.
LEMMA AppCurrentStep ==
  ASSUME TenancyInv, CurrentInv, NEW r \in Requests, AppStep(r),
         UNCHANGED <<years, registry, served>>
  PROVE  CurrentInv'
<1> DEFINE x == req[r]
<1>0. OnlySlot(r, AppLabels) /\ "unused" \notin AppLabels
  BY AppSlot DEF TenancyInv, AppLabels
<1> SUFFICES ASSUME OneYear, TenancyIsCurrent(x)
             PROVE  OneYear' /\ TenancyIsCurrent(req[r])'
  BY <1>0, CurrentKept
<1>1. Slots
  BY DEF TenancyInv
<1>2. OneYear'
  BY DEF OneYear, Current
<1>i. ASSUME req'[r] = Idle PROVE TenancyIsCurrent(req[r])'
  BY <1>i DEF Idle, TenancyIsCurrent
<1>3. CASE \E active \in BOOLEAN : CatalogLoad(r, active)
  BY <1>1, <1>2, <1>3 DEF CatalogLoad, Begin, Slots, TenancyIsCurrent
<1>4. ASSUME NEW offer \in Offers, OfferCatalog(r, offer) PROVE TenancyIsCurrent(req[r])'
  <2>1. PICK o : o = Offered(offer, clock)
    OBVIOUS
  <2>2. req'[r] = [at |-> "offer.find", offer |-> o]
    BY <1>1, <1>4, <2>1 DEF OfferCatalog, Begin, Slots
  <2> QED BY <2>2 DEF TenancyIsCurrent
<1>5. CASE OfferFind(r)
  BY <1>1, <1>2, <1>5 DEF OfferFind, Continue, Slots, TenancyIsCurrent
<1>6. ASSUME NEW enabled \in BOOLEAN, ToggleLoad(r, enabled) PROVE TenancyIsCurrent(req[r])'
  <2>1. req'[r] = [at |-> "toggle.catalog", row |-> app, enabled |-> enabled] /\ UNCHANGED apps
    BY <1>1, <1>6 DEF ToggleLoad, Begin, Slots
  <2> QED BY <2>1 DEF TenancyIsCurrent, apps
<1>7. CASE ToggleCatalog(r)
  <2>1. /\ req'[r] = [at |-> "toggle.setting", row |-> x.row, enabled |-> x.enabled,
                      active |-> catalog]
        /\ UNCHANGED apps /\ x.row = app
    BY <1>1, <1>7 DEF ToggleCatalog, Continue, Slots, TenancyIsCurrent
  <2> QED BY <1>2, <2>1 DEF TenancyIsCurrent, apps
<1>8. CASE ToggleSetting(r)
  <2>1. UNCHANGED apps /\ x.row = app /\ x.active = catalog
    BY <1>8 DEF ToggleSetting, TenancyIsCurrent
  <2>2. \/ req'[r] = Idle
        \/ /\ req'[r] = [at |-> "toggle.save", row |-> x.row, enabled |-> x.enabled, flag |-> flag]
           /\ MayToggle(x)
    BY <1>1, <1>8 DEF ToggleSetting, Continue, Return, Slots
  <2>3. MayToggle(x) => /\ app.status # "locked"
                        /\ x.enabled => catalog = TRUE /\ Subscribed(app)
    BY <2>1 DEF MayToggle, AllowsEnable
  <2>4. catalog' = catalog /\ app' = app /\ flag' = flag
    BY <2>1 DEF apps
  <2>5. CASE req'[r] # Idle
    <3>1. PICK z : /\ req'[r] = z /\ z.at = "toggle.save" /\ z.row = app /\ z.flag = flag
                   /\ z.enabled = x.enabled /\ MayToggle(x)
      BY <2>1, <2>2, <2>5
    <3> QED BY <1>2, <2>3, <2>4, <3>1 DEF TenancyIsCurrent, Subscribed
  <2> QED BY <1>2, <1>i, <2>5
<1>9. CASE CatalogSave(r) \/ OfferSave(r) \/ ToggleSave(r)
  BY <1>1, <1>2, <1>9, <1>i DEF CatalogSave, OfferSave, ToggleSave, Return, Slots
<1> QED
  BY <1>2, <1>3, <1>4, <1>5, <1>6, <1>7, <1>8, <1>9 DEF AppStep, AppProgress

\* An update of a settings row has seen the row as it is, which its own insert may have made.
LEMMA RegistryCurrentStep ==
  ASSUME TenancyInv, CurrentInv, NEW r \in Requests, RegistryStep(r),
         UNCHANGED <<years, apps, served>>
  PROVE  CurrentInv'
<1> DEFINE x == req[r]
<1>0. OnlySlot(r, SettingsLabels) /\ "unused" \notin SettingsLabels
  BY RegistrySlot DEF TenancyInv, SettingsLabels
<1> SUFFICES ASSUME OneYear, TenancyIsCurrent(x)
             PROVE  OneYear' /\ TenancyIsCurrent(req[r])'
  BY <1>0, CurrentKept
<1>1. Slots /\ RegistryRows /\ TenancyCarries(x)
  BY DEF TenancyInv
<1>2. OneYear'
  BY DEF OneYear, Current
<1>i. ASSUME req'[r] = Idle PROVE TenancyIsCurrent(req[r])'
  BY <1>i DEF Idle, TenancyIsCurrent
<1>3. CASE \/ \E s \in Slugs, d \in Domains \cup {Null} : CreateTenant(r, s, d)
           \/ \E t \in DOMAIN tenants, d \in Domains : CreateDomain(r, t, d)
           \/ \E t \in DOMAIN tenants, u \in UserIds, active \in BOOLEAN : AddTenantUser(r, t, u, active)
  BY <1>2, <1>3, <1>i DEF CreateTenant, CreateDomain, AddTenantUser
<1>4. ASSUME NEW q \in Arrivals, NEW v \in Values \cup {Null}, SettingsLoad(r, q, v)
      PROVE  OneYear' /\ TenancyIsCurrent(req[r])'
  <2>1. PICK z : /\ req'[r] = z /\ z.at \in {"settings.create", "settings.update"}
                 /\ z.seen = settings[z.tenant] /\ UNCHANGED settings
    BY <1>1, <1>4 DEF SettingsLoad, Begin, Slots, registry
  <2> QED BY <1>2, <2>1 DEF TenancyIsCurrent
<1>5. CASE SettingsCreate(r)
  <2>1. CASE req'[r] = Idle
    BY <1>2, <1>i, <2>1
  <2>2. CASE req'[r] # Idle
    <3>1. /\ x.at = "settings.create" /\ settings' = [settings EXCEPT ![x.tenant] = 0]
          /\ Continue(r, [req[r] EXCEPT !.at = "settings.update", !.seen = 0,
                                        !.scope = ScopeAfterCommit(req[r])])
      BY <1>1, <1>5, <2>2 DEF SettingsCreate, Return, Slots
    <3>2. x.tenant \in DOMAIN settings /\ {"at", "seen", "scope"} \subseteq DOMAIN x
      BY <1>1, <3>1, TenantNumbers DEF TenancyCarries, SettingsLabels
    <3>3. settings'[x.tenant] = 0
      BY <3>1, <3>2
    <3> DEFINE z == [req[r] EXCEPT !.at = "settings.update", !.seen = 0,
                                   !.scope = ScopeAfterCommit(req[r])]
    <3>4. z.at = "settings.update" /\ z.seen = 0 /\ z.tenant = x.tenant
      BY <3>2
    <3>5. req'[r] = z
      BY <1>1, <3>1 DEF Continue, Slots
    <3> HIDE DEF z
    <3> QED BY <1>2, <3>3, <3>4, <3>5 DEF TenancyIsCurrent
  <2> QED BY <2>1, <2>2
<1>6. CASE SettingsUpdate(r)
  BY <1>1, <1>2, <1>6, <1>i DEF SettingsUpdate, Return, Slots
<1> QED BY <1>3, <1>4, <1>5, <1>6, RegistrySteps

\* A tick of the clock leaves the rows alone.
LEMMA CurrentInvStep == TenancyInv /\ CurrentInv /\ [TenancyNext]_tenancyVars => CurrentInv'
<1> SUFFICES ASSUME TenancyInv, CurrentInv, [TenancyNext]_tenancyVars PROVE CurrentInv'
  OBVIOUS
<1>1. ASSUME UNCHANGED <<years, catalog, app, flag, settings, req>> PROVE CurrentInv'
  BY <1>1 DEF CurrentInv, OneAtATime, OneYear, Current, TenancyIsCurrent, Subscribed
<1>2. CASE UNCHANGED tenancyVars
  BY <1>1, <1>2 DEF tenancyVars, apps, registry
<1>3. CASE ClockTicks /\ UNCHANGED <<years, registry, served>>
  BY <1>1, <1>3 DEF ClockTicks, registry
<1>4. CASE TenancyNext
  BY <1>3, <1>4, TenancySteps, YearCurrentStep, AppCurrentStep, RegistryCurrentStep
<1> QED BY <1>2, <1>4

\* create and update of academic years keep one current year, one request at a time.
THEOREM OneCurrentCorrect == TenancySpec => []OneCurrent
<1>1. CurrentInv => OneCurrent
  BY DEF CurrentInv, OneYear, OneCurrent
<1> QED
  BY <1>1, TenancyInvInit, TenancyInvStep, CurrentInvInit, CurrentInvStep, PTL DEF TenancySpec

-----------------------------------------------------------------------------
(* What steps may do.                                                         *)

\* A toggle writes the status and nothing else, so the subscription changes when the
\* platform writes it.
LEMMA SubscriptionStep ==
  TenancyInv /\ [TenancyNext]_tenancyVars =>
    [app # Null /\ (app'.subscription # app.subscription \/ app'.ends # app.ends)
       => \E r \in Requests : OfferSave(r)]_<<apps, req>>
<1> SUFFICES ASSUME TenancyInv, [TenancyNext]_tenancyVars, app # Null,
                    app'.subscription # app.subscription \/ app'.ends # app.ends
             PROVE  \E r \in Requests : OfferSave(r)
  OBVIOUS
<1>0. app' # app /\ app \in TenantApp
  BY DEF TenancyInv, AppsTypeOK
<1>1. PICK r \in Requests : AppStep(r)
  BY <1>0, TenancySteps DEF tenancyVars, apps, ClockTicks
<1>2. ASSUME ToggleSave(r) PROVE FALSE
  <2>1. req[r].row \in TenantApp /\ app' = Toggled(req[r])
    BY <1>0, <1>2 DEF ToggleSave, TenancyInv, TenancyCarries
  <2> QED BY <1>0, <2>1, ToggledRow
<1>3. OfferSave(r)
  BY <1>0, <1>1, <1>2
     DEF AppStep, AppProgress, CatalogLoad, OfferCatalog, ToggleLoad, CatalogSave, OfferFind,
         ToggleCatalog, ToggleSetting, apps
<1> QED BY <1>3

\* Disabling preserves subscription metadata, whatever toggles are in flight when the platform
\* writes.
THEOREM SubscriptionIsPlatformsCorrect == TenancySpec => SubscriptionIsPlatforms
BY TenancyInvInit, TenancyInvStep, SubscriptionStep, PTL DEF TenancySpec, SubscriptionIsPlatforms

\* A toggle that is alone decides on the rows as they are, and its answer shows
\* what it wrote.
LEMMA ToggleStep ==
  TenancyInv /\ CurrentInv /\ [TenancyNext]_tenancyVars =>
    [\A r \in Requests :
       OneAtATime /\ ToggleSave(r) =>
         /\ app.status # "locked"
         /\ ~Past(app.ends, clock) => AppEnabled(app', clock) = req[r].enabled
         /\ Shown(app', flag') = req[r].enabled
         /\ req[r].enabled => CanEnable(app, catalog, clock) \/ Past(app.ends, clock)]_<<apps, req>>
<1> SUFFICES ASSUME TenancyInv, CurrentInv, NEW r \in Requests, OneAtATime, ToggleSave(r)
             PROVE  /\ app.status # "locked"
                    /\ ~Past(app.ends, clock) => AppEnabled(app', clock) = req[r].enabled
                    /\ Shown(app', flag') = req[r].enabled
                    /\ req[r].enabled => CanEnable(app, catalog, clock) \/ Past(app.ends, clock)
  OBVIOUS
<1> DEFINE x == req[r]
<1>1. /\ x.at = "toggle.save" /\ x.row = app /\ x.flag = flag /\ app.status # "locked"
      /\ x.enabled => catalog = TRUE /\ Subscribed(app)
  BY DEF ToggleSave, CurrentInv, TenancyIsCurrent
<1>2. app \in TenantApp /\ x.row \in TenantApp /\ x.enabled \in BOOLEAN /\ flag \in BOOLEAN \cup {Null}
  BY <1>1 DEF TenancyInv, TenancyCarries, AppsTypeOK, TenantAppSetting
<1>3. app' = Toggled(x) /\ flag' = IF x.flag = Null THEN x.enabled ELSE Flushed(flag, x.flag, x.enabled)
  BY <1>1 DEF ToggleSave
<1>4. flag' = x.enabled /\ flag' # Null
  BY <1>1, <1>2, <1>3, NullOutside DEF Flushed
<1>5. /\ app' \in TenantApp /\ app'.status = StatusAfter(x)
      /\ app'.subscription = app.subscription /\ app'.ends = app.ends
  BY <1>1, <1>2, <1>3, ToggledRow DEF Flushed
<1>6. app # Null /\ app' # Null
  BY <1>2, <1>5, NullOutside
<1>7. Shown(app', flag') = x.enabled
  BY <1>4 DEF Shown
<1>8. ASSUME ~Past(app.ends, clock) PROVE AppEnabled(app', clock) = x.enabled
  <2>1. ~Past(app'.ends, clock)
    BY <1>5, <1>8
  <2>2. CASE x.enabled
    <3>1. app'.status \in {"enabled", "trial"} /\ Subscribed(app')
      BY <1>1, <1>5, <2>2 DEF StatusAfter, Subscribed
    <3> QED BY <1>2, <1>6, <2>1, <2>2, <3>1 DEF AppEnabled
  <2>3. CASE ~x.enabled
    <3>1. app'.status = "disabled"
      BY <1>5, <2>3 DEF StatusAfter
    <3> QED BY <1>2, <2>3, <3>1 DEF AppEnabled
  <2> QED BY <1>2, <2>2, <2>3
<1>9. x.enabled => CanEnable(app, catalog, clock) \/ Past(app.ends, clock)
  BY <1>1, <1>6 DEF CanEnable, AllowsEnable
<1> QED BY <1>1, <1>7, <1>8, <1>9

\* An update of settings that is alone leaves the value asked for.
LEMMA SettingsStep ==
  TenancyInv /\ CurrentInv /\ [TenancyNext]_tenancyVars =>
    [\A r \in Requests :
       OneAtATime /\ SettingsUpdate(r) =>
         settings'[req[r].tenant] = req[r].value]_<<settings, req>>
<1> SUFFICES ASSUME TenancyInv, CurrentInv, NEW r \in Requests, OneAtATime, SettingsUpdate(r)
             PROVE  settings'[req[r].tenant] = req[r].value
  OBVIOUS
<1> DEFINE x == req[r]
<1>1. x.at = "settings.update" /\ x.seen = settings[x.tenant]
  BY DEF SettingsUpdate, CurrentInv, TenancyIsCurrent
<1>2. x.tenant \in DOMAIN settings /\ x.scope = x.tenant
  BY <1>1, TenantNumbers DEF TenancyInv, TenancyCarries, SettingsLabels
<1>3. settings' = [settings EXCEPT ![x.tenant] = Flushed(settings[x.tenant], x.seen, x.value)]
  BY <1>2 DEF SettingsUpdate, Visible
<1> QED BY <1>1, <1>2, <1>3 DEF Flushed

\* One request at a time: a toggle is what the gate and the settings page then show, it was
\* offered, and a locked app is left alone; and an update of settings is what the row says
\* afterwards, though its insert was committed, and the scope ended, in between.
THEOREM UpdatesTakeEffectCorrect == TenancySpec => UpdatesTakeEffect
BY TenancyInvInit, TenancyInvStep, CurrentInvInit, CurrentInvStep, ToggleStep, SettingsStep, PTL
   DEF TenancySpec, UpdatesTakeEffect, TogglesReachTheGate, SettingsUpdateTakesEffect
=============================================================================
