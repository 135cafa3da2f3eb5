\* The answer that ends a turn with tool calls.
CONSTANTS
  read = read
  post = post
  legacy = legacy
  Calls = {read, post}
  SafeToRetry = {read}
  Parallel = {read, post}
  Anonymous = {}
  Users = {u1}
  NoUser = NoUser
  Absent = Absent
  Unset = Unset
  MaxTurns = 1
  MaxCallsPerStep = 2
  MaxIterations = 2
  StuckThreshold = 1
  MaxConcurrency = 2
  MaxStored = Unset
  Compression = FALSE
SPECIFICATION Spec
INVARIANTS
  AnswerStored
\* The bound on turns stops the model: an idle session with no turn left.
CHECK_DEADLOCK FALSE
