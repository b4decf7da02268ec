CONSTANTS
  p1 = p1
  p2 = p2
  p3 = p3
  c1 = c1
  c2 = c2
  Preps = {p1, p2, p3}
  Cases = {c1, c2}
  CaseOf <- TwoCases
  PhaseOf <- ReadFillRead
  Workers = {w1, w2}
  Cap = 4
  Worst = 2
  Forms = 2
  Limit = 2
  MaxFaults = 2
SPECIFICATION Spec
INVARIANT CapHolds
