\* A directory with a file and another file are moved, or merged into what is there.
\* A copy is a merge that finds nothing.
\* Two failures make a file's copy fail for good.
CONSTANTS
  d = d
  x = x
  z = z
  Kinds = {"move", "merge"}
  Items <- ThreeItems
  Dirs = {d}
  Up <- ThreeUp
  Top = top
  MaxTasks = 4
  MaxRetry = 1
  MaxFaults = 2
  MaxManual = 1
  MaxRestarts = 1
  MaxUpsets = 2
SPECIFICATION FairSpec
INVARIANTS
  NothingLost
  PendingExact
  MovedAway
PROPERTIES
  GroupsComplete
\* When every task is over nothing is left to do.
CHECK_DEADLOCK FALSE
