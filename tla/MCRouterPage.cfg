SPECIFICATION Spec
CONSTANTS
  home = home
  list = list
  item = item
  gone = gone
  filter = filter
  NoSearch = NoSearch
  None = None
  NotFound = NotFound
  Failed = Failed
  Urls <- MCUrls
  Home <- MCHome
  NoRoute = {gone}
  Lazy = {list}
  Animated = {item, gone}
  MaxMoves = 3
INVARIANTS PageArrives
CHECK_DEADLOCK FALSE
