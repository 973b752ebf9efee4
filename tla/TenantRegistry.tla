--------------------------- MODULE TenantRegistry ---------------------------
(***************************************************************************)
(* The tenants, how a request finds its own (app/modules/tenancy), and the     *)
(* settings rows that every tenant has or is given when they are first read     *)
(* (app/modules/settings/service.py).  Row level security shows and changes     *)
(* a tenant's rows only under app.current_tenant_id, which lasts as long as     *)
(* the transaction.                                                           *)
(*                                                                           *)
(* Academic years, apps and settings share no rows: a behaviour is about one.  *)
(***************************************************************************)
EXTENDS TenantApps, Sequences

CONSTANTS
  Slugs, Domains, UserIds,
  Hosts, SubdomainOf,  \* hosts of requests, and the slug that a host begins with
  Arrivals,     \* what a request may say of its tenant and its user
  Values,       \* what updates write into a settings row, whose default is 0
  MaxTenants    \* bound: tenants ever made

ASSUME RegistryAssumption ==
  /\ Null \notin Slugs \cup Domains \cup UserIds /\ MaxTenants \in Nat
  /\ Values \subseteq Nat
  /\ SubdomainOf \in [Hosts -> Slugs \cup {Null}] /\ Null \notin Hosts
  /\ Arrivals \subseteq [header : Nat \cup {Null}, token : Nat \cup {Null},
                         slug : Slugs \cup {Null}, domain : Domains \cup {Null},
                         host : Hosts, user : UserIds \cup {Null}]

VARIABLES
  tenants,   \* in order of insertion: slug, and the domain asked for with it
  domains,   \* domains[d]: the tenant of a domain, for every domain there is
  members,   \* tenant_users in order of insertion
  settings,  \* settings[t]: the row of the kind that is served, Null when there is none
  served     \* the part of the settings this behaviour is about

registry == <<tenants, domains, members, settings>>

Tenant         == [slug : Slugs, primary : Domains \cup {Null}]
TenantDomain   == 1 .. MaxTenants
TenantUser     == [tenant : 1 .. MaxTenants, user : UserIds, active : BOOLEAN]

\* One row of each of these kinds for a tenant, a rule being the default one.
TenantSettings       == Values \cup {0}
TenantBranding       == Values \cup {0}
TenantGradingRule    == Values \cup {0, Null}
TenantAttendanceRule == Values \cup {0, Null}

SettingsRow ==
  CASE served = "general" -> TenantSettings
    [] served = "branding" -> TenantBranding
    [] served = "grading" -> TenantGradingRule
    [] OTHER -> TenantAttendanceRule

-----------------------------------------------------------------------------
FirstOf(S) == IF S = {} THEN Null ELSE CHOOSE x \in S : \A y \in S : x <= y

BySlug(s)   == FirstOf({t \in DOMAIN tenants : tenants[t].slug = s})
ByDomain(d) == IF d \in DOMAIN domains THEN domains[d] ELSE Null

\* get_active_membership: the user's oldest one.
ByMembership(u) ==
  LET m == FirstOf({i \in DOMAIN members : members[i].user = u /\ members[i].active})
  IN IF m = Null THEN Null ELSE members[m].tenant

FoundOr(t, next) == IF t # Null THEN t ELSE next   \* a tenant, or the next to look for

\* resolve_tenant: a tenant's id or slug decides; else the host, then the user.
Resolve(h) ==
  IF h.tenant # Null THEN IF h.tenant \in DOMAIN tenants THEN h.tenant ELSE Null
  ELSE IF h.slug # Null THEN BySlug(h.slug)
  ELSE FoundOr(ByDomain(h.domain), FoundOr(BySlug(h.subdomain), ByMembership(h.user)))

\* get_tenant_context: headers go before the token, the domain before the host.
HintsOf(q) ==
  [tenant |-> IF q.header # Null THEN q.header ELSE q.token, slug |-> q.slug,
   domain |-> IF q.domain # Null THEN q.domain ELSE q.host,
   subdomain |-> SubdomainOf[q.host], user |-> q.user]

\* create_tenant inserts a tenant's general settings and its branding with it.
Fresh == IF served \in {"general", "branding"} THEN 0 ELSE Null

RegistryInit ==
  tenants = << >> /\ domains = << >> /\ members = << >> /\ settings = << >>

SlugOnly(slug, domain) == BySlug(slug) # Null  \* mutant: a taken domain is passed over

\* uq_tenants_slug and uq_tenant_domains_domain.
Conflict(slug, domain) == BySlug(slug) # Null \/ domain \in DOMAIN domains

CreateTenant(r, slug, domain) ==
  /\ req[r] = Idle /\ Len(tenants) < MaxTenants /\ ~Conflict(slug, domain)
  /\ tenants' = Append(tenants, [slug |-> slug, primary |-> domain])
  /\ settings' = Append(settings, Fresh)
  /\ domains' = IF domain = Null THEN domains
                ELSE WithRow(domains, domain, Len(tenants) + 1)
  /\ UNCHANGED <<members, req>>

CreateDomain(r, t, d) ==
  /\ req[r] = Idle /\ d \notin DOMAIN domains
  /\ domains' = WithRow(domains, d, t)
  /\ UNCHANGED <<tenants, members, settings, req>>

AddTenantUser(r, t, u, active) ==
  /\ req[r] = Idle
  /\ \A i \in DOMAIN members : <<members[i].tenant, members[i].user>> # <<t, u>>
  /\ members' = Append(members, [tenant |-> t, user |-> u, active |-> active])
  /\ UNCHANGED <<tenants, domains, settings, req>>

-----------------------------------------------------------------------------
(* A settings row, read or updated by a request for the tenant it resolves to; *)
(* v is Null for a read.  A row that is missing is inserted and committed.     *)

SettingsBegin(r, q, v) ==
  LET t == Resolve(HintsOf(q)) IN
  /\ t # Null /\ (settings[t] # Null => v # Null)
  /\ Begin(r, [at |-> IF settings[t] = Null THEN "settings.create" ELSE "settings.update",
               tenant |-> t, value |-> v, seen |-> settings[t], scope |-> t])
  /\ UNCHANGED registry

SettingsOf(q) == {settings[t] : t \in DOMAIN settings \cap {Resolve(HintsOf(q))}}

GeneralSettings(r, q, v) == served = "general" /\ SettingsBegin(r, q, v)
Branding(r, q, v)        == served = "branding" /\ SettingsBegin(r, q, v)
GradingRule(r, q, v)     == served = "grading" /\ SettingsBegin(r, q, v)
AttendanceRule(r, q, v)  == served = "attendance" /\ SettingsBegin(r, q, v)

\* TenantService's own, which refuse a row that is missing.
PlatformSettings(r, q, v) ==
  served = "general" /\ Null \notin SettingsOf(q) /\ SettingsBegin(r, q, v)
PlatformBranding(r, q, v) ==
  served = "branding" /\ Null \notin SettingsOf(q) /\ SettingsBegin(r, q, v)

ScopeEnds(x) == Null  \* mutant: the tenant is not set again after the commit

\* The commit ends the scope, set_current_tenant_in_session sets it again.
ScopeAfterCommit(x) == x.tenant

SettingsCreate(r) ==
  LET x == req[r] IN
  /\ x.at = "settings.create"
  /\ IF settings[x.tenant] # Null
     THEN Return(r) /\ UNCHANGED settings
     ELSE /\ settings' = [settings EXCEPT ![x.tenant] = 0]
          /\ IF x.value = Null THEN Return(r)
             ELSE Continue(r, [x EXCEPT !.at = "settings.update", !.seen = 0,
                                        !.scope = ScopeAfterCommit(x)])
  /\ UNCHANGED <<tenants, domains, members>>

Visible(t, scope) == t = scope

\* An UPDATE of a row that the policy hides changes nothing and fails the flush.
SettingsUpdate(r) ==
  LET x == req[r] IN
  /\ x.at = "settings.update"
  /\ settings' = IF Visible(x.tenant, x.scope)
                 THEN [settings EXCEPT ![x.tenant] = Flushed(@, x.seen, x.value)]
                 ELSE settings
  /\ Return(r)
  /\ UNCHANGED <<tenants, domains, members>>

RegistryProgress(r) == SettingsCreate(r) \/ SettingsUpdate(r)

RegistryStep(r) ==
  \/ \E s \in Slugs, d \in Domains \cup {Null} : CreateTenant(r, s, d)
  \/ \E t \in DOMAIN tenants, d \in Domains : CreateDomain(r, t, d)
  \/ \E t \in DOMAIN tenants, u \in UserIds, active \in BOOLEAN : AddTenantUser(r, t, u, active)
  \/ \E q \in Arrivals, v \in Values \cup {Null} :
       \/ GeneralSettings(r, q, v) \/ Branding(r, q, v)
       \/ GradingRule(r, q, v) \/ AttendanceRule(r, q, v)
       \/ PlatformSettings(r, q, v) \/ PlatformBranding(r, q, v)
  \/ RegistryProgress(r)

-----------------------------------------------------------------------------
tenancyVars == <<years, apps, registry, served, req>>

SettingsParts == {"general", "branding", "grading", "attendance"}

TenancyInit ==
  served \in {"years", "apps"} \cup SettingsParts /\ Init /\ AppsInit /\ RegistryInit

TenancyNext ==
  /\ \/ served = "years" /\ Next /\ UNCHANGED <<apps, registry>>
     \/ /\ served = "apps" /\ UNCHANGED <<years, registry>>
        /\ ClockTicks \/ \E r \in Requests : AppStep(r)
     \/ /\ served \in SettingsParts /\ UNCHANGED <<years, apps>>
        /\ \E r \in Requests : RegistryStep(r)
  /\ UNCHANGED served

TenancyProgress(r) ==
  /\ \/ Progress(r) /\ UNCHANGED <<apps, registry>>
     \/ AppProgress(r) /\ UNCHANGED <<years, registry>>
     \/ RegistryProgress(r) /\ UNCHANGED <<years, apps>>
  /\ UNCHANGED served

\* The event loop carries on with every request that can go on, and PostgreSQL
\* wakes those that wait for a row whenever its holder ends.
TenancySpec ==
  /\ TenancyInit /\ [][TenancyNext]_tenancyVars
  /\ \A r \in Requests : SF_tenancyVars(TenancyProgress(r))

-----------------------------------------------------------------------------
\* Rows have their columns' types.
TenancyTypeOK ==
  /\ TypeOK /\ AppsTypeOK
  /\ tenants \in Seq(Tenant) /\ members \in Seq(TenantUser)
  /\ DOMAIN domains \subseteq Domains /\ \A d \in DOMAIN domains : domains[d] \in TenantDomain
  /\ Len(settings) = Len(tenants) /\ settings \in Seq(SettingsRow)

\* A tenant that was created with a domain is the one its domain resolves to,
\* and a request that comes by a tenant's slug is served for no other tenant.
HostsFindTheirTenant ==
  \A t \in DOMAIN tenants :
    /\ tenants[t].primary # Null => ByDomain(tenants[t].primary) = t
    /\ BySlug(tenants[t].slug) = t

\* One request at a time: an update of settings takes effect, though the row may
\* have been missing and its insert committed in between.
SettingsUpdateTakesEffect ==
  [][\A r \in Requests :
       OneAtATime /\ SettingsUpdate(r) =>
         settings'[req[r].tenant] = req[r].value]_<<settings, req>>

\* One request at a time, what an administrator changes is what everyone then sees.
UpdatesTakeEffect == TogglesReachTheGate /\ SettingsUpdateTakesEffect
=============================================================================
