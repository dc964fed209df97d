\* One session, two attempts with different contents, two concurrent requests.
CONSTANTS
  Sessions = {s1}
  Handlers = {h1, h2}
  Chunks <- ZeroOnly
  Contents = {a, b}
  None = none
  MaxAttempts = 2
  GcRounds = 0
SPECIFICATION Spec
SYMMETRY Symmetry
INVARIANTS
  RefillCatchesChange
\* The bounds stop the system: identities run out, and a removed session is idle.
CHECK_DEADLOCK FALSE
