SPECIFICATION Spec
CONSTANTS
  list = list
  sidebar = sidebar
  Queries = {list, sidebar}
  Keys = {page1, page2}
  MaxFetch <- MCMaxFetch
  MaxChange = 1
  Patient = TRUE
  NoKey = NoKey
  Nothing = Nothing
  NoRequest = NoRequest
INVARIANTS Awaited Current Fresh
PROPERTIES Settles NoLateTenant
CHECK_DEADLOCK FALSE
