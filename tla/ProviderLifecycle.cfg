CONSTANTS
  stream = stream
  query = query
  k1 = k1
  k2 = k2
  k3 = k3
  None = None
  Tokens = {}
  Tasks = {k1, k2}
  Commands = {stream, query}
  CapsOf <- BothCaps
  Asks <- OneStreams
  Background <- OnlyStream
  MaxRetries = 1
  SourceSize = 1
  Offsets = {0}
SPECIFICATION FairSpec
INVARIANT TypeOK
INVARIANT OneDataset
INVARIANT NeverAbandoned
INVARIANT NoStolenHandle
PROPERTY OperationEnds
CHECK_DEADLOCK FALSE
