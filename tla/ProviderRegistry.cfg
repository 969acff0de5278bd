CONSTANTS
  None = None
  main = main
  other = other
  obj = obj
  Threads = {main, other}
  Main = main
  Modules = {1, 2}
  Objects = {obj}
  Catalog <- MCCatalog
  Candidates <- MCCandidates
  Reserved = {"reserved"}
  Builtin = {"builtin", "demo"}
  Demo = {"demo"}
  MaxMishaps = 1
SPECIFICATION Spec
INVARIANTS ClaimsAccounted ReturnedIsServed ExposedByOwner
PROPERTY KeepsProvider
CHECK_DEADLOCK FALSE
