SPECIFICATION Spec
CONSTANTS
  task = task
  other = other
  title = title
  done = done
  rename = rename
  finish = finish
  drop = drop
  add = add
  Entities = {task, other}
  Fields = {title, done}
  Mutations = {rename, finish, drop, add}
  Kind <- MCKind
  Target <- MCTarget
  Writes <- MCWrites
  Counter <- MCCounter
  Existing = {task}
  MaxPolls = 1
  Original = Original
  Absent = Absent
PROPERTIES PatchesStay
CHECK_DEADLOCK FALSE
