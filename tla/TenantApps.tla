----------------------------- MODULE TenantApps -----------------------------
(***************************************************************************)
(* One app of one tenant: its catalog entry and the tenant's subscription,     *)
(* which the platform writes (app/modules/tenancy/service.py), and the switch  *)
(* of the tenant's administrators (app/modules/settings/service.py).           *)
(* The feature gate of every other module reads the result.                   *)
(***************************************************************************)
EXTENDS AcademicYears

CONSTANTS
  Offers,    \* what the platform may write: rows of tenant_apps
  LastTime   \* bound: the clock

TenantApp == [status : {"enabled", "disabled", "locked", "trial"},
              subscription : {"active", "trial", "past_due"}, ends : 0 .. LastTime \cup {Null}]

ASSUME AppsAssumption ==
  LastTime \in Nat /\ Offers \subseteq TenantApp /\ Null \notin TenantApp

VARIABLES
  catalog,  \* is_active of the catalog's entry, Null when there is none
  app,      \* the row of tenant_apps, Null when there is none
  flag,     \* enabled_by_tenant of tenant_app_settings, Null when there is none
  clock

apps == <<catalog, app, flag, clock>>

AppCatalog       == BOOLEAN \cup {Null}
TenantAppSetting == BOOLEAN \cup {Null}

-----------------------------------------------------------------------------
Past(ends, t) == ends # Null /\ ends < t

Subscribed(row) == row.subscription \in {"active", "trial"}

\* is_app_enabled: the gate in front of every app's routes, at time t.
AppEnabled(row, t) ==
  row # Null /\ row.status \in {"enabled", "trial"} /\ Subscribed(row) /\ ~Past(row.ends, t)

\* _assert_subscription_allows_enable.
AllowsEnable(row, active, t) == active = TRUE /\ Subscribed(row) /\ ~Past(row.ends, t)

\* _can_enable and _app_settings_response: what the administrators' page shows.
CanEnable(row, active, t) ==
  row # Null /\ row.status # "locked" /\ AllowsEnable(row, active, t)

Shown(row, setting) ==
  IF setting # Null THEN setting ELSE row # Null /\ row.status \in {"enabled", "trial"}

AppsInit == catalog = Null /\ app = Null /\ flag = Null /\ clock = 0

ClockTicks == clock < LastTime /\ clock' = clock + 1 /\ UNCHANGED <<catalog, app, flag, req>>

(* upsert_app_catalog.  An entry that somebody inserted meanwhile fails it.    *)

CatalogLoad(r, active) ==
  /\ Begin(r, [at |-> "catalog.save", seen |-> catalog, active |-> active])
  /\ UNCHANGED apps

CatalogSave(r) ==
  LET x == req[r] IN
  /\ x.at = "catalog.save"
  /\ catalog' = IF catalog = Null THEN x.active
                ELSE IF x.seen = Null THEN catalog
                ELSE Flushed(catalog, x.seen, x.active)
  /\ Return(r)
  /\ UNCHANGED <<app, flag, clock>>

(* upsert_tenant_app: the catalog, the row, then an insert or an update.       *)

Offered(offer, t) == IF Past(offer.ends, t) THEN [offer EXCEPT !.status = "disabled"] ELSE offer

OfferCatalog(r, offer) ==
  /\ catalog = TRUE
  /\ Begin(r, [at |-> "offer.find", offer |-> Offered(offer, clock)])
  /\ UNCHANGED apps

OfferFind(r) ==
  /\ req[r].at = "offer.find"
  /\ Continue(r, [at |-> "offer.save", seen |-> app, offer |-> req[r].offer])
  /\ UNCHANGED apps

OfferSave(r) ==
  LET x == req[r] IN
  /\ x.at = "offer.save"
  /\ app' = IF app = Null THEN x.offer
            ELSE IF x.seen = Null THEN app
            ELSE Written(app, x.seen, x.offer)
  /\ Return(r)
  /\ UNCHANGED <<catalog, flag, clock>>

-----------------------------------------------------------------------------
(* toggle_app: the row, the catalog, the setting, which is inserted when there *)
(* is none and kept only if the toggle is allowed.                            *)

ToggleLoad(r, enabled) ==
  /\ app # Null
  /\ Begin(r, [at |-> "toggle.catalog", row |-> app, enabled |-> enabled])
  /\ UNCHANGED apps

ToggleCatalog(r) ==
  LET x == req[r] IN
  /\ x.at = "toggle.catalog"
  /\ Continue(r, [at |-> "toggle.setting", row |-> x.row, enabled |-> x.enabled,
                  active |-> catalog])
  /\ UNCHANGED apps

MayToggleLocked(x) ==  \* mutant: the lock is looked at for enabling only
  IF x.enabled THEN x.row.status # "locked" /\ AllowsEnable(x.row, x.active, clock) ELSE TRUE

MayToggle(x) == x.row.status # "locked" /\ (x.enabled => AllowsEnable(x.row, x.active, clock))

ToggleSetting(r) ==
  LET x == req[r] IN
  /\ x.at = "toggle.setting"
  /\ IF MayToggle(x)
     THEN Continue(r, [at |-> "toggle.save", row |-> x.row, enabled |-> x.enabled,
                       flag |-> flag])
     ELSE Return(r)
  /\ UNCHANGED apps

ToggledWhole(x) ==  \* mutant: the columns that were loaded are written back
  [x.row EXCEPT !.status = IF ~x.enabled THEN "disabled"
                           ELSE IF x.row.subscription = "trial" THEN "trial" ELSE "enabled"]

StatusAfter(x) ==
  IF ~x.enabled THEN "disabled" ELSE IF x.row.subscription = "trial" THEN "trial" ELSE "enabled"

Toggled(x) == [app EXCEPT !.status = Flushed(@, x.row.status, StatusAfter(x))]

ToggleSave(r) ==
  LET x == req[r] IN
  /\ x.at = "toggle.save"
  /\ Return(r)
  /\ IF x.flag = Null /\ flag # Null THEN UNCHANGED <<app, flag>>
     ELSE /\ app' = Toggled(x)
          /\ flag' = IF x.flag = Null THEN x.enabled ELSE Flushed(flag, x.flag, x.enabled)
  /\ UNCHANGED <<catalog, clock>>

AppProgress(r) ==
  \/ CatalogSave(r) \/ OfferFind(r) \/ OfferSave(r)
  \/ ToggleCatalog(r) \/ ToggleSetting(r) \/ ToggleSave(r)

AppStep(r) ==
  \/ \E active \in BOOLEAN : CatalogLoad(r, active)
  \/ \E offer \in Offers : OfferCatalog(r, offer)
  \/ \E enabled \in BOOLEAN : ToggleLoad(r, enabled)
  \/ AppProgress(r)

-----------------------------------------------------------------------------
AppsTypeOK ==
  /\ catalog \in AppCatalog /\ app \in TenantApp \cup {Null}
  /\ flag \in TenantAppSetting /\ clock \in 0 .. LastTime

\* "Disabling preserves subscription metadata": what the platform has written of a
\* subscription is still there after toggles that were in flight meanwhile.
SubscriptionIsPlatforms ==
  [][app # Null /\ (app'.subscription # app.subscription \/ app'.ends # app.ends)
       => \E r \in Requests : OfferSave(r)]_<<apps, req>>

\* One request at a time: a toggle is what the feature gate then shows, unless the
\* subscription ends meanwhile, the settings page shows the same, what it enables is
\* what the page offered to enable, and a locked app is not toggled at all.
TogglesReachTheGate ==
  [][\A r \in Requests :
       OneAtATime /\ ToggleSave(r) =>
         /\ app.status # "locked"
         /\ ~Past(app.ends, clock) => AppEnabled(app', clock) = req[r].enabled
         /\ Shown(app', flag') = req[r].enabled
         /\ req[r].enabled => CanEnable(app, catalog, clock) \/ Past(app.ends, clock)]_<<apps, req>>
=============================================================================
