\* Three runs of one session, crashes anywhere, no pruning, no compression.
CONSTANTS
  read = read
  post = post
  legacy = legacy
  Calls = {read, post, legacy}
  SafeToRetry = {read}
  Parallel = {read, post}
  Anonymous = {legacy}
  Users = {u1}
  NoUser = NoUser
  Absent = Absent
  Unset = Unset
  MaxTurns = 3
  MaxCallsPerStep = 2
  MaxIterations = 2
  StuckThreshold = 1
  MaxConcurrency = 2
  MaxStored = Unset
  Compression = FALSE
SPECIFICATION FairSpec
INVARIANTS
  TypeOK
  AtMostOnce
  LLMSeesSoundHistory
  StoreMirrorsHistory
  TurnStored
PROPERTIES
  OwnerFixed
  RunEnds
  ImplementsJournal
\* The bound on turns stops the model: an idle session with no turn left.
CHECK_DEADLOCK FALSE
