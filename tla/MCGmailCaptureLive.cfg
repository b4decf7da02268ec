CONSTANTS
  m1 = m1
  m2 = m2
  m3 = m3
  r1 = r1
  r2 = r2
  Msgs = {m1}
  Runs = {r1, r2}
  Kind <- OnePlain
  Overlap = 0
  MaxRun = 0
  Limit = 1
  MaxLog = 1
  MaxClock = 0
  MaxFaults = 1
  MaxManual = 1
SPECIFICATION FairSpec
PROPERTY PendingIsCaptured
