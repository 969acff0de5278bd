CONSTANTS
  p1 = p1
  p2 = p2
  t1 = t1
  t2 = t2
  w1 = w1
  w2 = w2
  w3 = w3
  None = None
  Foreign = Foreign
  Packages = {p1}
  Targets = {t1}
  TargetOf <- OneTarget
  Overwrite <- NeverOverwrite
  PartCount = 2
  Contents = {0, 1}
  Workers = {w1, w2, w3}
  MaxCrashes = 1
  MaxFaults = 1
SPECIFICATION FairSpec
INVARIANT TypeOK
INVARIANT SingleAssembler
INVARIANT PublishedVerified
INVARIANT AcknowledgedIsDurable
INVARIANT CompletedIsPublished
INVARIANT FailedIsUnpublished
PROPERTY KeepsPromise
PROPERTY AssemblyEnds
PROPERTY ReadyIsAssembled
CHECK_DEADLOCK FALSE
