\* A compressed conversation without tool calls, and no row ever pruned away.
CONSTANTS
  read = read
  post = post
  legacy = legacy
  Calls = {}
  SafeToRetry = {}
  Parallel = {}
  Anonymous = {}
  Users = {u1}
  NoUser = NoUser
  Absent = Absent
  Unset = Unset
  MaxTurns = 2
  MaxCallsPerStep = 2
  MaxIterations = 2
  StuckThreshold = 1
  MaxConcurrency = 2
  MaxStored = 10
  Compression = TRUE
SPECIFICATION Spec
INVARIANTS
  ConversationStored
\* The bound on turns stops the model: an idle session with no turn left.
CHECK_DEADLOCK FALSE
