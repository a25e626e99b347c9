\* The map that ReadSchedule hands out is read while Run writes it.
CONSTANTS
  Clients = {c1, c2}
  Stoppers = {s1}
  PartitionKeys = {p1}
  SortKeys = {k1}
  Tasks = {t1}
  Nil = Nil
  Ops <- NoReadTask
  ActionCap = 1
SPECIFICATION Spec
INVARIANT MapConfinedToRun
CHECK_DEADLOCK FALSE
