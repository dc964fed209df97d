\* Three parts, two workers: the block of the first becomes that of the third while its
\* worker may still have it; two parts of which the second gives up a byte.  No symmetry:
\* liveness.
CONSTANTS
  w1 = w1
  w2 = w2
  Workers <- TwoWorkers
  Requests <- TwoRequests
  Concurrency = 2
  Tokens = 2
  MaxRetries = 1
  MaxFaults = 2
SPECIFICATION FairSpec
INVARIANTS
  ReaderGetsFile
  PartHasOneHolder
  BlocksBounded
  SendNeverWaits
  NoTokenLost
  PartsTile
PROPERTIES
  WorkersLeave
  
\* A download that is over does nothing more.
CHECK_DEADLOCK FALSE
