SPECIFICATION Spec
CONSTANTS
  ann = ann
  m1 = m1
  m2 = m2
  o1 = o1
  k1 = k1
  k2 = k2
  k3 = k3
  Customers = {ann}
  Inbound = {m1, m2}
  From <- MCFrom
  At <- MCAt
  KnownLeads = {k1, k2, k3}
  MergedInto <- MCMergedInto
  NewLeads = {n1, n2, n3}
  NoLead = NoLead
  NoOne = NoOne
  Outbound = {o1}
  To <- MCTo
  StartFor <- MCStartFor
  Calls = {i1, i2}
  MaxDeaths = 0
  MaxMade = 2
  Worlds <- MCStartWorlds
PROPERTY
  DropsOnlyEmpty
CHECK_DEADLOCK FALSE
