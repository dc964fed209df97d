\* An object in a bucket of each policy, two PUTs, a DELETE; the queue takes one item.
CONSTANTS
  p1 = p1
  p2 = p2
  o1 = o1
  o2 = o2
  Paths <- TwoPaths
  Objects <- TwoObjects
  Policy <- OneOfEach
  QueueCap = 1
  MaxPuts = 2
  MaxDeletes = 1
SPECIFICATION Spec
INVARIANTS
  FilesOwned
  Durable
\* After the last request nothing is left to do.
CHECK_DEADLOCK FALSE
