\* The store is pruned to two rows and the context compressed: the
\* journal, and with it at-most-once, must survive both.
CONSTANTS
  read = read
  post = post
  legacy = legacy
  Calls = {read, post}
  SafeToRetry = {read}
  Parallel = {read, post}
  Anonymous = {}
  Users = {u1}
  NoUser = NoUser
  Absent = Absent
  Unset = Unset
  MaxTurns = 3
  MaxCallsPerStep = 2
  MaxIterations = 2
  StuckThreshold = 1
  MaxConcurrency = 2
  MaxStored = 2
  Compression = TRUE
SPECIFICATION Spec
PROPERTIES
  ImplementsJournal
\* The bound on turns stops the model: an idle session with no turn left.
CHECK_DEADLOCK FALSE
