\* One session, two attempts, two concurrent requests: a retry, an Abort or an Init
\* supersedes the attempt another request waits for.  No symmetry: liveness.  No
\* round of the expiry loop: it terminates by the same steps as Abort, and
\* UploadSession.cfg has it.
CONSTANTS
  Sessions = {s1}
  Handlers = {h1, h2}
  Chunks <- ZeroOnly
  Contents = {a}
  None = none
  MaxAttempts = 2
  GcRounds = 0
SPECIFICATION FairSpec
PROPERTIES
  RequestsReturn
  KilledAttemptsEnd
\* The bounds stop the system: identities run out, and a removed session is idle.
CHECK_DEADLOCK FALSE
