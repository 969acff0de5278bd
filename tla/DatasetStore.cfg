CONSTANTS
  None = None
  Tokens = {}
  w1 = w1
  w2 = w2
  o1 = o1
  o2 = o2
  x1 = x1
  x2 = x2
  c1 = c1
  c2 = c2
  Workers = {w1, w2}
  Ops = {o1, o2}
  Targets = {t}
  Contents = {c1, c2}
  Validators = {v}
  Transfers = {x1, x2}
  Size = 2
  FirstRecords <- MCFirstRecords
  MaxAttempts = 3
  MaxMishaps = 1
  Describable <- WithValidator
  Identities = {v}
SPECIFICATION Spec
SYMMETRY MCSymmetry
INVARIANTS ReturnedIsStored PublishedWhole RaisedForCause
CHECK_DEADLOCK FALSE
