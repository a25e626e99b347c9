\* Three clients use all four operations against one partition of two sort keys,
\* with a channel that two closures fill.
CONSTANTS
  Clients = {c1, c2, c3}
  Stoppers = {s1}
  PartitionKeys = {p1}
  SortKeys = {k1, k2}
  Tasks = {t1, t2}
  Nil = Nil
  Ops <- AllOps
  ActionCap = 2
SPECIFICATION Spec
SYMMETRY Alike
INVARIANTS TypeOK CallInOnePlace
PROPERTIES OnlyReadTaskWedges StoppedMeansFrozen PartitionsStay ImplementsTaskStore
\* The service may stop for good: Run returns, or wedges, and callers wait on.
CHECK_DEADLOCK FALSE
