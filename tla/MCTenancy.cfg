\* One or two requests in flight, three years, one app, two tenants.
CONSTANTS
  Null = Null
  y1 = y1
  y2 = y2
  y3 = y3
  s1 = s1
  s2 = s2
  d1 = d1
  u1 = u1
  h1 = h1
  Years = {y1, y2, y3}
  Created <- MCCreated
  Changes <- MCChanges
  Offers <- MCOffers
  LastTime = 1
  Slugs = {s1, s2}
  Domains = {d1}
  UserIds = {u1}
  Hosts = {h1}
  SubdomainOf <- MCSubdomainOf
  Arrivals <- MCArrivals
  Values = {1}
  MaxTenants = 2
  Requests = {r1, r2}
SPECIFICATION TenancySpec
INVARIANTS
  TenancyTypeOK
  OneCurrent
  HostsFindTheirTenant
PROPERTIES
  EveryRequestReturns
  SubscriptionIsPlatforms
  UpdatesTakeEffect
