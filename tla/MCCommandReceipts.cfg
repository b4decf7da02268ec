CONSTANTS
  t1 = t1
  t2 = t2
  d1 = d1
  d2 = d2
  d3 = d3
  v1 = v1
  k1 = k1
  k2 = k2
  k3 = k3
  f1 = f1
  Requests = {v1, t1, t2, d1, d2, d3}
  Keys = {k1, k2, k3}
  Findings = {f1}
  KeyOf <- SharedKeys
  KindOf <- KindsHere
  FindingOf <- OneFinding
  Again = {d1}
  Quota = 1
  MaxFaults = 1
SPECIFICATION Spec
INVARIANTS
  TypeOK
  TrailInOrder
  TrailMatches
  BusyIsExcused
  SomeoneRuns
  QuotaHolds
PROPERTY
  KeepsPromise
CHECK_DEADLOCK FALSE
SYMMETRY Retries
