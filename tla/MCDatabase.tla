----------------------------- MODULE MCDatabase -----------------------------
(* Values for checking Database with TLC.                                  *)
EXTENDS Database, TLC

AllOps == {"CreateTask", "DeleteTask", "ReadTask", "ReadSchedule"}
NoReadTask == AllOps \ {"ReadTask"}

\* For the runs without liveness: nothing tells these values apart.
Alike == Permutations(Clients) \cup Permutations(SortKeys) \cup Permutations(Tasks)
=============================================================================
