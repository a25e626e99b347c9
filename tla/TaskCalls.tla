------------------------------ MODULE TaskCalls ------------------------------
(***************************************************************************)
(* The calls a goroutine can make on the in-memory database of             *)
(* internal/db/db.go and the replies it can get.  Shared by the abstract   *)
(* TaskStore and by Database, which implements it.                         *)
(***************************************************************************)
CONSTANTS
  PartitionKeys,  \* values of PartitionKey {DriverName, Week}
  SortKeys,       \* values of SortKey {Day, StartHour}
  Tasks,          \* values of Task {Ops, StartHour, Duration}
  Nil             \* "nothing": an absent map entry, an empty field, no goroutine

CreateCalls == [op : {"CreateTask"}, pk : PartitionKeys, sk : SortKeys, task : Tasks]
TaskCallsOn == [op : {"DeleteTask", "ReadTask"}, pk : PartitionKeys, sk : SortKeys, task : {Nil}]
ScheduleCalls == [op : {"ReadSchedule"}, pk : PartitionKeys, sk : {Nil}, task : {Nil}]
Calls == CreateCalls \cup TaskCallsOn \cup ScheduleCalls

\* A nil error, the two errors.New(...) values, and the two kinds of data.
\* ReadSchedule hands out the inner map itself, a reference: since an inner map
\* is never replaced, the partition key it lives under names it.
Ok == [kind |-> "ok", val |-> Nil]
AlreadyExists == [kind |-> "exists", val |-> Nil]
DoesntExist == [kind |-> "missing", val |-> Nil]
Found(t) == [kind |-> "task", val |-> t]
MapOf(pk) == [kind |-> "schedule", val |-> pk]

Replies == {Ok, AlreadyExists, DoesntExist}
             \cup {Found(t) : t \in Tasks} \cup {MapOf(pk) : pk \in PartitionKeys}

ASSUME NilIsNothing ==
  /\ Nil \notin PartitionKeys \cup Tasks \cup Calls \cup Replies
  /\ Nil \notin [SortKeys -> Tasks \cup {Nil}]
==============================================================================
