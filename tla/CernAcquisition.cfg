CONSTANTS
  None = None
  v1 = v1
  v2 = v2
  v3 = v3
  p1 = p1
  p2 = p2
  p3 = p3
  Versions = {v1, v2, v3}
  Checksum <- Adler32
  Projects = {p1, p2, p3}
  Wanted = p1
  Size = 2
  PageSize = 1
  MaxCommands = 2
  MaxChanges = 2
SPECIFICATION Spec
INVARIANTS ManifestHasArtifact FileIsDeclared
PROPERTY NotFoundIsAbsent
CHECK_DEADLOCK FALSE
