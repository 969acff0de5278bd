CONSTANTS
  p1 = p1
  p2 = p2
  t1 = t1
  t2 = t2
  w1 = w1
  w2 = w2
  w3 = w3
  None = None
  Foreign = Foreign
  Packages = {p1, p2}
  Targets = {t1}
  TargetOf <- OneTarget
  Overwrite <- NeverOverwrite
  PartCount = 1
  Contents = {0}
  Workers = {w1, w2}
  MaxCrashes = 1
  MaxFaults = 1
SPECIFICATION Spec
CHECK_DEADLOCK FALSE
PROPERTY NoSilentOverwrite
