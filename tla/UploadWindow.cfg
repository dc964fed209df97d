\* A two-byte and a one-byte chunk through one slot that is reused.
\* No symmetry: liveness.
CONSTANTS
  ChunkSize = 2
  TotalSize = 3
  Slots = 1
  Writers = {w1, w2}
  Contents = {a}
  NoContent = none
  MaxFaults = 1
SPECIFICATION FairSpec
INVARIANTS
  StreamIntact
  SlotExclusive
  AckMeansReceived
  SnapshotExact
  NoMissedWakeup
PROPERTIES
  ImplementsStream
  CallsReturn
  StreamEnds
