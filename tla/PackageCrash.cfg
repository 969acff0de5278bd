CONSTANTS
  p1 = p1
  p2 = p2
  t1 = t1
  t2 = t2
  w1 = w1
  w2 = w2
  w3 = w3
  None = None
  Foreign = Foreign
  Packages = {p1}
  Targets = {t1}
  TargetOf <- OneTarget
  Overwrite <- NeverOverwrite
  PartCount = 2
  Contents = {0, 1}
  Workers = {w1, w2}
  MaxCrashes = 1
  MaxFaults = 0
SPECIFICATION FairSpec
CHECK_DEADLOCK FALSE
PROPERTY WaitAgainSucceeds
