CONSTANTS
  None = None
  w1 = w1
  w2 = w2
  s1 = s1
  s2 = s2
  f1 = f1
  f2 = f2
  Workers = {w1, w2}
  Sessions = {s1, s2}
  Files = {f1, f2}
  Parts = 2
  TTL = 1
  MaxTicks = 1
  MaxFaults = 1
  MaxCalls = 3
SYMMETRY MCSymmetry
SPECIFICATION ExSpec
INVARIANTS RoundTripWhole SessionMakesOneFile ListedIsStored
CHECK_DEADLOCK FALSE
