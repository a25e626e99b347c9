\* Without ReadTask: two clients fill the channel of one closure and block on it, and of
\* two Stops one comes late.
CONSTANTS
  Clients = {c1, c2}
  Stoppers = {s1, s2}
  PartitionKeys = {p1}
  SortKeys = {k1}
  Tasks = {t1}
  Nil = Nil
  Ops <- NoReadTask
  ActionCap = 1
SPECIFICATION FairSpec
PROPERTIES AnsweredOrLeftBehind StopEndsRun OneStopReturns
\* Callers that come after Stop wait for ever, and so does a second Stop.
CHECK_DEADLOCK FALSE
