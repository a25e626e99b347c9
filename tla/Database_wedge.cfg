\* One client that reads tasks is enough to keep Stop from ending Run.
CONSTANTS
  Clients = {c1, c2}
  Stoppers = {s1}
  PartitionKeys = {p1}
  SortKeys = {k1}
  Tasks = {t1}
  Nil = Nil
  Ops <- AllOps
  ActionCap = 1
SPECIFICATION FairSpec
PROPERTY StopEndsRun
CHECK_DEADLOCK FALSE
