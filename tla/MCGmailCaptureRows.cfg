CONSTANTS
  m1 = m1
  m2 = m2
  m3 = m3
  r1 = r1
  r2 = r2
  Msgs = {m1, m2, m3}
  Runs = {r1}
  Kind <- BulkBrokenOversize
  Overlap = 0
  MaxRun = 0
  Limit = 1
  MaxLog = 2
  MaxClock = 0
  MaxFaults = 1
  MaxManual = 0
SPECIFICATION Spec
INVARIANTS
  RowNamesObject
  TypeOK
