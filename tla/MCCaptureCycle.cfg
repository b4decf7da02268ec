CONSTANTS
  Procs = {p1, p2}
  Mail = {m1}
  Attempts = 2
  FollowupEvery = 2
  StageTimeout = 1
  MaxFaults = 1
SPECIFICATION FairSpec
INVARIANTS
  TypeOK
  OverlapNeedsLostSession
PROPERTIES
  QuietLeavesFreshMail
  StoredIsFollowedUp
  ArrivedIsStored
