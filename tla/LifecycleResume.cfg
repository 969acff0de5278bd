CONSTANTS
  stream = stream
  query = query
  k1 = k1
  k2 = k2
  k3 = k3
  None = None
  Tokens = {}
  Tasks = {k1, k2}
  Commands = {stream}
  CapsOf <- BothCaps
  Asks <- AnyCommand
  Background <- OnlyStream
  MaxRetries = 1
  SourceSize = 1
  Offsets = {0}
SPECIFICATION Spec
PROPERTY CancelledOnlyOnRequest
CHECK_DEADLOCK FALSE
