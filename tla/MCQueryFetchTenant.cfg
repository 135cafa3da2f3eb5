SPECIFICATION Spec
CONSTANTS
  list = list
  sidebar = sidebar
  Queries = {list, sidebar}
  Keys = {page1, page2}
  MaxFetch <- MCMaxFetch
  MaxChange = 1
  Patient = TRUE
  NoKey = NoKey
  Nothing = Nothing
  NoRequest = NoRequest
INVARIANTS NoOldTenant
CHECK_DEADLOCK FALSE
