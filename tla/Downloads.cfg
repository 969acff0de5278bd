CONSTANTS
  None = None
  v1 = v1
  v2 = v2
  Versions = {v1, v2}
  SizeOf <- MCSizeOf
  Chunk = 2
  MaxTransfers = 2
  MaxChanges = 1
  MaxStops = 1
SPECIFICATION Spec
INVARIANTS InstalledWhole RefusedForCause
PROPERTY DownloadEnds
CHECK_DEADLOCK FALSE
