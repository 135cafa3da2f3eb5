SPECIFICATION Spec
CONSTANTS
  format = format
  lint = lint
  build = build
  test = test
  deploy = deploy
  notify = notify
  Tasks = {format, lint, build, test, deploy, notify}
  Edges <- MCEdges
  Kind <- MCKind
  Unmet = {format}
  Cacheable = {test}
  Listed = {build}
  Steps <- MCSteps
  Stubborn = {build}
  Workers = {w1, w2}
  NoTask = NoTask
  NoResult = NoResult
PROPERTIES ChildrenStopped
CHECK_DEADLOCK FALSE
