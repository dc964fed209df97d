\* Two clients on two names, one of whom has a base path; three locks, of which those of LOCK
\* expire and temporary ones do not; two lists of two conditions, so that a MOVE can claim two
\* locks; one restart.
CONSTANTS
  root = root
  dir = dir
  c1 = c1
  c2 = c2
  Names <- TwoNames
  Up <- TwoUp
  NoName = NoName
  Durations <- Finite
  MaxClock = 1
  MaxTokens = 3
  MaxConds = 2
  Clients = {c1, c2}
  JoinPath <- OneAtRoot
  Landing <- ToRoot
  MaxLists = 2
  MaxRestarts = 1
SPECIFICATION DavSpec
INVARIANTS
  WorksUnderOwnLocks
  NoLockLeft
  WorkExclusive
  TokenIdentifiesLock
\* Tokens run out.
CHECK_DEADLOCK FALSE
