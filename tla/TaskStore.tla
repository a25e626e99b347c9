------------------------------ MODULE TaskStore ------------------------------
(***************************************************************************)
(* What the in-memory database promises its callers: every call takes      *)
(* effect at once, atomically, at some moment between the moment it is     *)
(* made and the moment its one answer is taken.  Nothing here knows of     *)
(* channels, closures or the goroutine that runs them.                     *)
(***************************************************************************)
EXTENDS TaskCalls

CONSTANT Clients

VARIABLES
  store,   \* the task under each pair of keys, or Nil
  opened,  \* the partitions in which a task was ever created
  call,    \* what each client has called, or Nil
  answer   \* the answer to that call, or Nil while it has not taken effect

vars == <<store, opened, call, answer>>

Init ==
  /\ store = [k \in PartitionKeys \X SortKeys |-> Nil]
  /\ opened = {}
  /\ call = [c \in Clients |-> Nil]
  /\ answer = [c \in Clients |-> Nil]

Invoke(c) ==
  /\ call[c] = Nil
  /\ \E r \in Calls : call' = [call EXCEPT ![c] = r]
  /\ UNCHANGED <<store, opened, answer>>

\* What a call finds: the task under its two keys.
At(r) == store[<<r.pk, r.sk>>]

Answered(c, reply) == answer' = [answer EXCEPT ![c] = reply]

Create(c, r) ==
  /\ r.op = "CreateTask"
  /\ \/ /\ At(r) = Nil
        /\ store' = [store EXCEPT ![<<r.pk, r.sk>>] = r.task]
        /\ opened' = opened \cup {r.pk}
        /\ Answered(c, Ok)
     \/ At(r) # Nil /\ Answered(c, AlreadyExists) /\ UNCHANGED <<store, opened>>

Delete(c, r) ==
  /\ r.op = "DeleteTask"
  /\ \/ /\ At(r) # Nil
        /\ store' = [store EXCEPT ![<<r.pk, r.sk>>] = Nil]
        /\ Answered(c, Ok)
     \/ At(r) = Nil /\ Answered(c, DoesntExist) /\ UNCHANGED store
  /\ UNCHANGED opened

Read(c, r) ==
  /\ r.op = "ReadTask"
  /\ Answered(c, IF At(r) = Nil THEN DoesntExist ELSE Found(At(r)))
  /\ UNCHANGED <<store, opened>>

Schedule(c, r) ==
  /\ r.op = "ReadSchedule"
  /\ Answered(c, IF r.pk \in opened THEN MapOf(r.pk) ELSE DoesntExist)
  /\ UNCHANGED <<store, opened>>

\* A pending call takes effect.
Apply(c) ==
  /\ call[c] # Nil
  /\ answer[c] = Nil
  /\ \/ Create(c, call[c])
     \/ Delete(c, call[c])
     \/ Read(c, call[c])
     \/ Schedule(c, call[c])
  /\ UNCHANGED call

\* The caller takes its answer; it may call again.
Return(c) ==
  /\ answer[c] # Nil
  /\ call' = [call EXCEPT ![c] = Nil]
  /\ answer' = [answer EXCEPT ![c] = Nil]
  /\ UNCHANGED <<store, opened>>

Next == \E c \in Clients : Invoke(c) \/ Apply(c) \/ Return(c)

Spec == Init /\ [][Next]_vars
==============================================================================
