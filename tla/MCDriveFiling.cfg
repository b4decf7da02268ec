CONSTANTS
  d1 = d1
  d2 = d2
  d3 = d3
  c1 = c1
  c2 = c2
  Docs = {d1, d2, d3}
  Cases = {c1, c2}
  CaseOf <- OldAndNew
  Bad = {d1}
  Archive <- Archived
  Filers = {f1, f2}
  Limit = 3
  MaxFaults = 2
SPECIFICATION FairSpec
INVARIANTS
  TypeOK
  CopiesAreExcused
  RecordsAreTrue
PROPERTY RegisteredIsRecorded
