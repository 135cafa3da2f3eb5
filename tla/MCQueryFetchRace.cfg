SPECIFICATION Spec
CONSTANTS
  list = list
  sidebar = sidebar
  Queries = {list, sidebar}
  Keys = {page1, page2}
  MaxFetch <- MCMaxFetch
  MaxChange = 1
  Patient = FALSE
  NoKey = NoKey
  Nothing = Nothing
  NoRequest = NoRequest
INVARIANTS Current
CHECK_DEADLOCK FALSE
