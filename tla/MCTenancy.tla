------------------------------ MODULE MCTenancy ------------------------------
(* Instances of TenantRegistry, and of the modules under it, for TLC.        *)
EXTENDS TenantRegistry

CONSTANTS y1, y2, y3, s1, s2, d1, u1, h1

MCCreated == [starts : {1}, ends : {3}, current : BOOLEAN]

\* A later start, and the flag alone.
MCChanges ==
  {[starts |-> 2, ends |-> Null, current |-> Null],
   [starts |-> Null, ends |-> Null, current |-> TRUE],
   [starts |-> Null, ends |-> Null, current |-> FALSE]}

\* A trial that ends, and a subscription whose app is locked.
MCOffers ==
  {[status |-> "trial", subscription |-> "trial", ends |-> 0],
   [status |-> "locked", subscription |-> "active", ends |-> Null]}

MCSubdomainOf == (h1 :> s2)

Arrival == [header |-> Null, token |-> Null, slug |-> Null, domain |-> Null, host |-> h1, user |-> Null]

\* By slug, or by the host's domain or subdomain and the user; a token that a header overrides.
MCArrivals ==
  {[Arrival EXCEPT !.slug = s1], [Arrival EXCEPT !.domain = d1, !.user = u1],
   [Arrival EXCEPT !.header = 2, !.token = 1]}
=============================================================================
