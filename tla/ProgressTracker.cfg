CONSTANTS
  o1 = o1
  token = token
  None = None
  Tokens = {token}
  Operations = {o1}
  AskedStates = {"connecting", "completed"}
  Declared <- OneOfEachKind
  MaxBytes = 1
  MaxAttempt = 2
  MaxTime = 2
SPECIFICATION TrackerSpec
INVARIANT TypeOK
INVARIANT ActiveNeverOvercounted
PROPERTY TerminalImmutable
PROPERTY CountersNeverGoBack
