CONSTANTS
  c1 = c1
  t1 = t1
  w1 = w1
  w2 = w2
  None = None
  Foreign = Foreign
  Clients = {c1}
  Targets = {t1}
  TargetOf <- OneTarget
  Overwrite <- NeverOverwrite
  Size = 2
  Workers = {w1, w2}
  MaxBegins = 3
  MaxTimeouts = 2
  MaxBreaks = 2
SPECIFICATION FairSpec
INVARIANT TypeOK
INVARIANT InstalledWhole
INVARIANT CompletedIsInstalled
INVARIANT AcknowledgedKept
PROPERTY UploadSucceeds
CHECK_DEADLOCK FALSE
