\* Two sessions for one key, two attempts with possibly different contents, two
\* concurrent requests, a round of the expiry loop; CONSTRAINT says together with
\* what.
CONSTANTS
  Sessions = {s1, s2}
  Handlers = {h1, h2}
  Chunks <- ZeroOnly
  Contents = {a, b}
  None = none
  MaxAttempts = 2
  GcRounds = 1
SPECIFICATION Spec
SYMMETRY Symmetry
CONSTRAINT Bounds
INVARIANTS
  OkIsReal
  OneAttemptAtATime
  KeyNamesLiveSession
\* The bounds stop the system: identities run out, and a removed session is idle.
CHECK_DEADLOCK FALSE
