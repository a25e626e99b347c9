------------------------------ MODULE Database ------------------------------
(***************************************************************************)
(* The in-memory database of internal/db/db.go: one goroutine, Run, owns   *)
(* the map Schedule; callers send it closures through the buffered channel *)
(* actionCh and wait for the answer on channels made for that one call;    *)
(* Stop asks Run to return through quitCh.                                 *)
(*                                                                         *)
(* A caller waits for nothing but its answer (the ctx it passes is never   *)
(* looked at), so one call per client is outstanding and a closure is      *)
(* named by the client that sent it.                                       *)
(***************************************************************************)
EXTENDS Naturals, Sequences, TaskCalls

CONSTANTS
  Clients,    \* goroutines that call the four operations
  Stoppers,   \* goroutines that call Stop
  Ops,        \* the operations the clients use
  ActionCap   \* capacity of actionCh: 1000 in NewDatabase

ASSUME ActionCapIsPositive == ActionCap \in Nat \ {0}
ASSUME NilIsNobody == Nil \notin Clients \cup Stoppers

VARIABLES
  Schedule,  \* Schedule[pk]: the inner map of pk, Nil when pk has none
  actionCh,  \* the clients whose closures are in the channel
  pc,        \* where each client is
  call,      \* the call a client is making
  held,      \* the partition whose inner map the client got from ReadSchedule
  mailbox,   \* the reply in a buffered reply channel of the client's call
  runPc,     \* where Run is
  reader,    \* the client still waiting on the channels of the closure Run runs
  sends,     \* the sends that closure has yet to do
  stopPc,    \* where each call of Stop is
  quit       \* the Stop whose channel q Run has received

clientVars == <<pc, call, held, mailbox>>
runVars == <<runPc, reader, sends>>
stopVars == <<stopPc, quit>>
vars == <<Schedule, actionCh, clientVars, runVars, stopVars>>

InnerMaps == [SortKeys -> Tasks \cup {Nil}]

\* NewDatabase, with Run not yet called.
Init ==
  /\ Schedule = [pk \in PartitionKeys |-> Nil]
  /\ actionCh = <<>>
  /\ pc = [c \in Clients |-> "idle"]
  /\ call = [c \in Clients |-> Nil]
  /\ held = [c \in Clients |-> Nil]
  /\ mailbox = [c \in Clients |-> Nil]
  /\ runPc = "new"
  /\ reader = Nil
  /\ sends = <<>>
  /\ stopPc = [s \in Stoppers |-> "idle"]
  /\ quit = Nil

-----------------------------------------------------------------------------
(* The callers.                                                            *)

\* A client enters an operation and makes the channels of its reply.
Invoke(c) ==
  /\ pc[c] = "idle"
  /\ \E r \in Calls : r.op \in Ops /\ call' = [call EXCEPT ![c] = r]
  /\ pc' = [pc EXCEPT ![c] = "enqueue"]
  /\ UNCHANGED <<Schedule, actionCh, held, mailbox, runVars, stopVars>>

Enqueue_NoLimit(c) ==
  /\ pc[c] = "enqueue"
  /\ actionCh' = Append(actionCh, c)
  /\ pc' = [pc EXCEPT ![c] = "select"]
  /\ UNCHANGED <<Schedule, call, held, mailbox, runVars, stopVars>>

\* d.actionCh <- func() {...}, which blocks while the channel is full.
Enqueue(c) ==
  /\ pc[c] = "enqueue"
  /\ Len(actionCh) < ActionCap
  /\ actionCh' = Append(actionCh, c)
  /\ pc' = [pc EXCEPT ![c] = "select"]
  /\ UNCHANGED <<Schedule, call, held, mailbox, runVars, stopVars>>

\* The operation returns to its caller; a map that ReadSchedule returned is
\* then read by the caller, outside Run.
Answer(c, reply) ==
  /\ pc' = [pc EXCEPT ![c] = IF reply.kind = "schedule" THEN "scan" ELSE "idle"]
  /\ held' = [held EXCEPT ![c] = IF reply.kind = "schedule" THEN reply.val ELSE Nil]
  /\ call' = [call EXCEPT ![c] = Nil]

\* The reply comes out of a buffered channel.
Receive(c) ==
  /\ pc[c] = "select"
  /\ mailbox[c] # Nil
  /\ Answer(c, mailbox[c])
  /\ mailbox' = [mailbox EXCEPT ![c] = Nil]
  /\ UNCHANGED <<Schedule, actionCh, runVars, stopVars>>

\* The caller has finished with the map it was given.
EndScan(c) ==
  /\ pc[c] = "scan"
  /\ pc' = [pc EXCEPT ![c] = "idle"]
  /\ held' = [held EXCEPT ![c] = Nil]
  /\ UNCHANGED <<Schedule, actionCh, call, mailbox, runVars, stopVars>>

-----------------------------------------------------------------------------
(* Run, and the closures it runs.  A closure first reads or writes the map *)
(* (one Run... action), then does its sends one by one.                    *)

StartRun ==
  /\ runPc = "new"
  /\ runPc' = "select"
  /\ UNCHANGED <<Schedule, actionCh, clientVars, reader, sends, stopVars>>

TakeAction_Peeks ==
  /\ runPc = "select" /\ actionCh # <<>>
  /\ runPc' = "exec" /\ reader' = Head(actionCh)
  /\ UNCHANGED <<Schedule, actionCh, clientVars, sends, stopVars>>

\* case f := <-d.actionCh
TakeAction ==
  /\ runPc = "select"
  /\ actionCh # <<>>
  /\ runPc' = "exec"
  /\ reader' = Head(actionCh)
  /\ actionCh' = Tail(actionCh)
  /\ UNCHANGED <<Schedule, clientVars, sends, stopVars>>

\* Run is at the first statement of reader's closure of operation op.
Runs(op) == runPc = "exec" /\ call[reader].op = op

\* The map accesses are done; the closure goes on to these sends.
ThenSend(replies) ==
  /\ runPc' = "reply"
  /\ sends' = replies
  /\ UNCHANGED <<actionCh, clientVars, reader, stopVars>>

HasTask(r) == Schedule[r.pk] # Nil /\ Schedule[r.pk][r.sk] # Nil

\* Schedule with task t (Nil: no task) under the keys of r, in the inner map
\* that is there or in a new one.
With(r, t) ==
  IF Schedule[r.pk] = Nil
  THEN [Schedule EXCEPT ![r.pk] = [k \in SortKeys |-> IF k = r.sk THEN t ELSE Nil]]
  ELSE [Schedule EXCEPT ![r.pk][r.sk] = t]

RunCreateTask_Overwrites ==
  /\ Runs("CreateTask")
  /\ Schedule' = With(call[reader], call[reader].task)
  /\ ThenSend(<<Ok>>)

RunCreateTask ==
  /\ Runs("CreateTask")
  /\ LET r == call[reader] IN
     \/ HasTask(r) /\ UNCHANGED Schedule /\ ThenSend(<<AlreadyExists>>)
     \/ ~HasTask(r) /\ Schedule' = With(r, r.task) /\ ThenSend(<<Ok>>)

RunDeleteTask_NoReturn ==
  /\ Runs("DeleteTask")
  /\ LET r == call[reader] IN
     \/ HasTask(r) /\ Schedule' = With(r, Nil) /\ ThenSend(<<Ok>>)
     \/ ~HasTask(r) /\ UNCHANGED Schedule /\ ThenSend(<<DoesntExist, DoesntExist>>)

RunDeleteTask_DropsPartition ==
  /\ Runs("DeleteTask")
  /\ LET r == call[reader] IN
     \/ /\ HasTask(r)
        /\ Schedule' = IF \A k \in SortKeys \ {r.sk} : Schedule[r.pk][k] = Nil
                       THEN [Schedule EXCEPT ![r.pk] = Nil] ELSE With(r, Nil)
        /\ ThenSend(<<Ok>>)
     \/ ~HasTask(r) /\ UNCHANGED Schedule /\ ThenSend(<<DoesntExist>>)

RunDeleteTask ==
  /\ Runs("DeleteTask")
  /\ LET r == call[reader] IN
     \/ HasTask(r) /\ Schedule' = With(r, Nil) /\ ThenSend(<<Ok>>)
     \/ ~HasTask(r) /\ UNCHANGED Schedule /\ ThenSend(<<DoesntExist>>)

\* This closure has no return after a send: it goes on to the sends below.
RunReadTask ==
  /\ Runs("ReadTask")
  /\ UNCHANGED Schedule
  /\ LET r == call[reader] IN
     \/ HasTask(r) /\ ThenSend(<<Found(Schedule[r.pk][r.sk]), DoesntExist, DoesntExist>>)
     \/ ~HasTask(r) /\ Schedule[r.pk] # Nil /\ ThenSend(<<DoesntExist, DoesntExist>>)
     \/ Schedule[r.pk] = Nil /\ ThenSend(<<DoesntExist>>)

RunReadSchedule_NoError ==
  /\ Runs("ReadSchedule")
  /\ UNCHANGED Schedule
  /\ LET pk == call[reader].pk IN
     \/ Schedule[pk] # Nil /\ ThenSend(<<MapOf(pk)>>)
     \/ /\ Schedule[pk] = Nil /\ runPc' = "select" /\ reader' = Nil
        /\ UNCHANGED <<actionCh, clientVars, sends, stopVars>>

RunReadSchedule ==
  /\ Runs("ReadSchedule")
  /\ UNCHANGED Schedule
  /\ LET pk == call[reader].pk IN
     \/ Schedule[pk] # Nil /\ ThenSend(<<MapOf(pk)>>)
     \/ Schedule[pk] = Nil /\ ThenSend(<<DoesntExist>>)

\* CreateTask and ReadSchedule make buffered reply channels, the other two do not.
Buffered == reader # Nil /\ call[reader].op \in {"CreateTask", "ReadSchedule"}

\* Back at the select of Run, or at the closure's next send.
AfterSend ==
  /\ sends' = Tail(sends)
  /\ reader' = Nil
  /\ runPc' = IF Tail(sends) = <<>> THEN "select" ELSE "reply"

SendBuffered ==
  /\ runPc = "reply"
  /\ Buffered
  /\ mailbox' = [mailbox EXCEPT ![reader] = Head(sends)]
  /\ AfterSend
  /\ UNCHANGED <<Schedule, actionCh, pc, call, held, stopVars>>

\* An unbuffered send waits for a receiver, and only the caller, while it is in
\* its own select, ever receives on these channels.
SendRendezvous ==
  /\ runPc = "reply"
  /\ reader # Nil
  /\ ~Buffered
  /\ pc[reader] = "select"
  /\ Answer(reader, Head(sends))
  /\ AfterSend
  /\ UNCHANGED <<Schedule, actionCh, mailbox, stopVars>>

-----------------------------------------------------------------------------
(* Stop.                                                                   *)

CallStop(s) ==
  /\ stopPc[s] = "idle"
  /\ stopPc' = [stopPc EXCEPT ![s] = "send"]
  /\ UNCHANGED <<Schedule, actionCh, clientVars, runVars, quit>>

\* d.quitCh <- q meets case q := <-d.quitCh: quitCh is unbuffered.
TakeQuit(s) ==
  /\ runPc = "select"
  /\ stopPc[s] = "send"
  /\ runPc' = "quit"
  /\ quit' = s
  /\ stopPc' = [stopPc EXCEPT ![s] = "wait"]
  /\ UNCHANGED <<Schedule, actionCh, clientVars, reader, sends>>

\* close(q)
CloseQuit ==
  /\ runPc = "quit"
  /\ runPc' = "closed"
  /\ UNCHANGED <<Schedule, actionCh, clientVars, reader, sends, stopVars>>

ReturnRun_Forgotten ==
  /\ runPc = "closed"
  /\ runPc' = "select"
  /\ UNCHANGED <<Schedule, actionCh, clientVars, reader, sends, stopVars>>

\* return nil
ReturnRun ==
  /\ runPc = "closed"
  /\ runPc' = "returned"
  /\ UNCHANGED <<Schedule, actionCh, clientVars, reader, sends, stopVars>>

\* <-q
ReturnStop(s) ==
  /\ stopPc[s] = "wait"
  /\ quit = s
  /\ runPc \in {"closed", "returned"}
  /\ stopPc' = [stopPc EXCEPT ![s] = "returned"]
  /\ UNCHANGED <<Schedule, actionCh, clientVars, runVars, quit>>

-----------------------------------------------------------------------------

Client(c) == Invoke(c) \/ Enqueue(c) \/ Receive(c) \/ EndScan(c)
Exec == RunCreateTask \/ RunDeleteTask \/ RunReadTask \/ RunReadSchedule
Send == SendBuffered \/ SendRendezvous
Run == StartRun \/ TakeAction \/ Exec \/ Send \/ CloseQuit \/ ReturnRun
Stop(s) == CallStop(s) \/ TakeQuit(s) \/ ReturnStop(s)

Next == Run \/ (\E c \in Clients : Client(c)) \/ (\E s \in Stoppers : Stop(s))

Spec == Init /\ [][Next]_vars

(* A goroutine that can run does run: weak fairness.  Run's select picks   *)
(* at random between its ready cases and a channel serves blocked senders  *)
(* in the order they came: strong fairness on the two cases and on         *)
(* Enqueue.  Nobody is made to call anything.                              *)
Fairness ==
  /\ WF_vars(StartRun \/ Exec \/ Send \/ CloseQuit \/ ReturnRun)
  /\ SF_vars(TakeAction)
  /\ \A c \in Clients : SF_vars(Enqueue(c)) /\ WF_vars(Receive(c)) /\ WF_vars(EndScan(c))
  /\ \A s \in Stoppers : SF_vars(TakeQuit(s)) /\ WF_vars(ReturnStop(s))

FairSpec == Spec /\ Fairness

-----------------------------------------------------------------------------
(* Properties.                                                             *)

ClientPcs == {"idle", "enqueue", "select", "scan"}
RunPcs == {"new", "select", "exec", "reply", "quit", "closed", "returned"}
StopPcs == {"idle", "send", "wait", "returned"}

\* Every variable keeps its type, and actionCh its capacity.
TypeOK ==
  /\ Schedule \in [PartitionKeys -> InnerMaps \cup {Nil}]
  /\ actionCh \in Seq(Clients)
  /\ Len(actionCh) <= ActionCap
  /\ pc \in [Clients -> ClientPcs]
  /\ call \in [Clients -> Calls \cup {Nil}]
  /\ held \in [Clients -> PartitionKeys \cup {Nil}]
  /\ mailbox \in [Clients -> Replies \cup {Nil}]
  /\ runPc \in RunPcs
  /\ reader \in Clients \cup {Nil}
  /\ sends \in Seq(Replies)
  /\ stopPc \in [Stoppers -> StopPcs]
  /\ quit \in Stoppers \cup {Nil}

\* The three places where the call of a waiting client can be.
Queued(c) == \E i \in 1 .. Len(actionCh) : actionCh[i] = c
Running(c) == reader = c
Replied(c) == mailbox[c] # Nil

\* No call is lost and none is run twice (db.go:89-111 and its three siblings):
\* a client waits for a reply exactly when its closure is once in actionCh, or
\* is the one Run is running, or has left its reply in the client's channel.
CallInOnePlace ==
  /\ \A c \in Clients :
       /\ pc[c] = "select" <=> Queued(c) \/ Running(c) \/ Replied(c)
       /\ ~(Queued(c) /\ Running(c)) /\ ~(Queued(c) /\ Replied(c)) /\ ~(Running(c) /\ Replied(c))
  /\ \A i, j \in 1 .. Len(actionCh) : actionCh[i] = actionCh[j] => i = j

\* Run sits in a send on a channel that nobody will ever receive from again.
Wedged == runPc = "reply" /\ reader = Nil

\* Run wedges in one way only (db.go:138-146): when it answers a ReadTask whose
\* partition exists, whether or not the task does.
OnlyReadTaskWedges ==
  [][~Wedged /\ Wedged' => call[reader].op = "ReadTask" /\ Schedule[call[reader].pk] # Nil]_vars

\* When a Stop has returned the database is at rest (db.go:83): the map stays as
\* it is and no closure leaves actionCh, those of waiting callers included.
StoppedMeansFrozen ==
  [][(\E s \in Stoppers : stopPc[s] = "returned") =>
        UNCHANGED Schedule /\ Len(actionCh') >= Len(actionCh)]_vars

\* An inner map, once made, is never taken out of Schedule (db.go:119), even when
\* its last task is deleted: ReadSchedule never goes back to "doesn't exist",
\* and a map handed out stays the partition's own.
PartitionsStay ==
  [][\A pk \in PartitionKeys : Schedule[pk] # Nil => Schedule'[pk] # Nil]_vars

\* The reply that client c is to get, once its call has taken effect.
AnswerOf(c) == IF reader = c /\ runPc = "reply" THEN Head(sends) ELSE mailbox[c]

\* The task under a partition key and a sort key, if any.
TaskAt(pk, sk) == IF Schedule[pk] = Nil THEN Nil ELSE Schedule[pk][sk]

\* The two maps as one, the partitions that exist, and all the answers.
Contents == [k \in PartitionKeys \X SortKeys |-> TaskAt(k[1], k[2])]
Opened == {pk \in PartitionKeys : Schedule[pk] # Nil}
Answers == [c \in Clients |-> AnswerOf(c)]

Store ==
  INSTANCE TaskStore WITH
    store <- Contents, opened <- Opened, call <- call, answer <- Answers

\* Every call takes effect atomically between call and return and gets the
\* answer of that moment (db.go:87-173): Database implements TaskStore.
ImplementsTaskStore == Store!Spec

\* No goroutine reads an inner map while Run writes it: the map is reached through
\* the channel only (README.md:40, "channel based in-memory db").
RunWrites(pk) ==
  /\ \/ Runs("CreateTask") /\ ~HasTask(call[reader])
     \/ Runs("DeleteTask") /\ HasTask(call[reader])
  /\ call[reader].pk = pk
MapConfinedToRun == \A c \in Clients : pc[c] = "scan" => ~RunWrites(held[c])

\* Nobody will ever answer client c: Run has returned, with the closure still in actionCh,
\* or with the channel full in front of it.
LeftBehind(c) ==
  /\ runPc = "returned"
  /\ Queued(c) \/ (pc[c] = "enqueue" /\ Len(actionCh) = ActionCap)

\* A call ends in one of two ways: it is answered, also when Run takes a Stop first and
\* the reply is on its way; or Run has returned before it got to the call, and the
\* caller waits for ever, as no operation looks at its ctx (db.go:87-173).
AnsweredOrLeftBehind ==
  \A c \in Clients : pc[c] = "enqueue" ~> (pc[c] \in {"idle", "scan"} \/ []LeftBehind(c))

\* Stop, the interrupt of the actor whose execute is Run, makes Run return
\* (db.go:80-85; vendor/github.com/oklog/run/group.go:15-16).
StopEndsRun == \A s \in Stoppers : stopPc[s] = "send" ~> runPc = "returned"

\* Of several Stops Run takes one, and that one returns.  Every other waits for ever, those
\* that come after Run has returned among them (db.go:80-85).
OneStopReturns ==
  \A s \in Stoppers : stopPc[s] = "send" ~>
    \/ stopPc[s] = "returned"
    \/ /\ \E t \in Stoppers \ {s} : quit = t /\ stopPc[t] = "returned"
       /\ [](stopPc[s] = "send")
=============================================================================
