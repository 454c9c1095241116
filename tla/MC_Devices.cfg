CONSTANTS
  x = x
  y = y
  z = z
  p = p
  q = q
  d1 = d1
  d2 = d2
  n1 = n1
  n2 = n2
  k1 = k1
  k2 = k2
  ping = ping
  Device = {x, y, z}
  Managed = {x}
  Name = {n1, n2}
  Package = {p, q}
  Digest = {d1, d2}
  Key = {k1, k2}
  Registration <- MCRegistration
  Manifests <- MCManifests
  Newest <- MCNewest
  Ping = {ping}
  Target <- MCTarget
  MaxRevisions = 2
  MaxFaults = 1
  Stores = {"postgres", "file"}
  Absent = Absent
  NoDevice = NoDevice
  NoId = NoId
  NoList = NoList
SPECIFICATION Spec
INVARIANTS
  TypeOK
  KeyIsOneDevice
  SummaryIsTheLatest
  PlanRemediesDrift
PROPERTIES
  EventuallyConverged
CHECK_DEADLOCK FALSE
