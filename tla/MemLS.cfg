\* Three names above one another, three locks one after the other.
CONSTANTS
  root = root
  dir = dir
  file = file
  Names <- ThreeNames
  Up <- ThreeUp
  NoName = NoName
  Durations <- FiniteAndInfinite
  MaxClock = 1
  MaxTokens = 3
  MaxConds = 1
SPECIFICATION Spec
INVARIANTS
  Consistent
PROPERTIES
  HeldStays
  ImplementsLockService
