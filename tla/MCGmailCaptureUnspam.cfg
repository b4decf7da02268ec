CONSTANTS
  m1 = m1
  m2 = m2
  m3 = m3
  r1 = r1
  r2 = r2
  Msgs = {m1}
  Runs = {r1}
  Kind <- OnePlain
  Overlap = 1
  MaxRun = 1
  Limit = 1
  MaxLog = 2
  MaxClock = 2
  MaxFaults = 0
  MaxManual = 0
SPECIFICATION Spec
INVARIANT GainedInboxIsCaptured
