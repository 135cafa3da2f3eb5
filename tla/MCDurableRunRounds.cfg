\* maxStoredMessages counts rows, not interaction rounds.
CONSTANTS
  read = read
  post = post
  legacy = legacy
  Calls = {read, post}
  SafeToRetry = {read}
  Parallel = {read, post}
  Anonymous = {}
  Users = {u1}
  NoUser = NoUser
  Absent = Absent
  Unset = Unset
  MaxTurns = 2
  MaxCallsPerStep = 2
  MaxIterations = 2
  StuckThreshold = 1
  MaxConcurrency = 2
  MaxStored = 2
  Compression = FALSE
SPECIFICATION Spec
INVARIANTS
  PruningKeepsSound
\* The bound on turns stops the model: an idle session with no turn left.
CHECK_DEADLOCK FALSE
