SPECIFICATION Spec
CONSTANTS
  format = format
  lint = lint
  build = build
  test = test
  deploy = deploy
  notify = notify
  Tasks = {format, lint, build, test, deploy, notify}
  Edges <- MCEdges
  Kind <- MCKind
  Unmet = {format}
  Cacheable = {test}
  Listed = {build}
  Steps <- MCSteps
  Stubborn = {}
  Workers = {w1, w2}
  NoTask = NoTask
  NoResult = NoResult
INVARIANTS OnePlace NothingLost StopsScheduling
PROPERTIES Returns ImplementsTaskRun
CHECK_DEADLOCK FALSE
