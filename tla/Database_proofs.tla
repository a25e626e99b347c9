--------------------------- MODULE Database_proofs ---------------------------
(***************************************************************************)
(* What TLAPS proves about Database, for any sets of clients, stoppers,    *)
(* keys and tasks and any capacity of actionCh.                            *)
(***************************************************************************)
EXTENDS Database, SequenceTheorems, TLAPS

(* The inductive invariant: CallInOnePlace is not inductive by itself.  It *)
(* is kept because a closure runs only for a client that still waits, Run  *)
(* has something to send exactly while it is in a closure's sends, and at  *)
(* most one Stop gets through.                                             *)

\* A client has a call exactly while it is inside an operation.
CallWhileInside == \A c \in Clients : call[c] # Nil <=> pc[c] \in {"enqueue", "select"}

\* Run has a reader only inside a closure, always before its first send, and
\* sends left only in its sends.
RunConsistent ==
  /\ reader # Nil => runPc \in {"exec", "reply"}
  /\ runPc = "exec" => reader # Nil
  /\ runPc = "reply" <=> sends # <<>>

\* A closure that has more than its one reply to send is that of a ReadTask on a
\* partition that exists.
ExtraSends ==
  reader # Nil /\ runPc = "reply" /\ Tail(sends) # <<>> =>
    call[reader].op = "ReadTask" /\ Schedule[call[reader].pk] # Nil

\* Run is stopping for one Stop, the only one that can have returned.
QuitConsistent ==
  /\ quit # Nil <=> runPc \in {"quit", "closed", "returned"}
  /\ \A s \in Stoppers : stopPc[s] \in {"wait", "returned"} => quit = s
  /\ \A s \in Stoppers : stopPc[s] = "returned" => runPc \in {"closed", "returned"}

IInv ==
  /\ TypeOK
  /\ CallInOnePlace
  /\ CallWhileInside
  /\ RunConsistent
  /\ ExtraSends
  /\ QuitConsistent

-----------------------------------------------------------------------------
(* Calls, replies and the map.                                             *)

\* The fields that an operation looks at have the types it expects.
LEMMA CallFields ==
  ASSUME NEW r \in Calls
  PROVE  /\ r.op \in {"CreateTask", "DeleteTask", "ReadTask", "ReadSchedule"}
         /\ r.pk \in PartitionKeys
         /\ r.op # "ReadSchedule" => r.sk \in SortKeys
         /\ r.op = "CreateTask" => r.task \in Tasks
         /\ r # Nil
BY NilIsNothing DEF Calls, CreateCalls, TaskCallsOn, ScheduleCalls

\* Every reply the closures send is a reply, and a map comes from a partition.
LEMMA ReplyKinds ==
  /\ Ok \in Replies /\ AlreadyExists \in Replies /\ DoesntExist \in Replies
  /\ \A t \in Tasks : Found(t) \in Replies
  /\ \A pk \in PartitionKeys : MapOf(pk) \in Replies
  /\ \A reply \in Replies : reply # Nil
  /\ \A reply \in Replies : reply.kind = "schedule" => reply.val \in PartitionKeys
<1>1. /\ Ok \in Replies /\ AlreadyExists \in Replies /\ DoesntExist \in Replies
      /\ \A t \in Tasks : Found(t) \in Replies
      /\ \A pk \in PartitionKeys : MapOf(pk) \in Replies
  BY DEF Replies
<1>2. \A reply \in Replies : reply # Nil
  BY NilIsNothing
<1>3. \A reply \in Replies : reply.kind = "schedule" => reply.val \in PartitionKeys
  BY DEF Replies, Ok, AlreadyExists, DoesntExist, Found, MapOf
<1> QED
  BY <1>1, <1>2, <1>3

\* Nil is no inner map.
LEMMA InnerMapIsNotNil == Nil \notin InnerMaps
BY NilIsNothing DEF InnerMaps

\* With leaves a map of inner maps, opens the partition it writes to and touches
\* no other.
LEMMA WithWrites ==
  ASSUME TypeOK, NEW r \in Calls, r.op # "ReadSchedule", NEW t \in Tasks \cup {Nil}
  PROVE  /\ With(r, t) \in [PartitionKeys -> InnerMaps \cup {Nil}]
         /\ With(r, t)[r.pk] # Nil
         /\ With(r, t)[r.pk][r.sk] = t
         /\ \A sk \in SortKeys \ {r.sk} :
              With(r, t)[r.pk][sk] = IF Schedule[r.pk] = Nil THEN Nil ELSE Schedule[r.pk][sk]
         /\ \A pk \in PartitionKeys \ {r.pk} : With(r, t)[pk] = Schedule[pk]
<1>1. r.pk \in PartitionKeys /\ r.sk \in SortKeys
  BY CallFields
<1>2. Schedule \in [PartitionKeys -> InnerMaps \cup {Nil}]
  BY DEF TypeOK
<1>3. CASE Schedule[r.pk] = Nil
  <2> DEFINE inner == [k \in SortKeys |-> IF k = r.sk THEN t ELSE Nil]
  <2>1. inner \in InnerMaps
    BY DEF InnerMaps
  <2>2. With(r, t) = [Schedule EXCEPT ![r.pk] = inner]
    BY <1>3 DEF With
  <2> QED
    BY <1>1, <1>2, <1>3, <2>1, <2>2, InnerMapIsNotNil
<1>4. CASE Schedule[r.pk] # Nil
  <2> DEFINE inner == [Schedule[r.pk] EXCEPT ![r.sk] = t]
  <2>1. Schedule[r.pk] \in [SortKeys -> Tasks \cup {Nil}]
    BY <1>1, <1>2, <1>4 DEF InnerMaps
  <2>2. inner \in InnerMaps
    BY <2>1, <1>1 DEF InnerMaps
  <2>3. With(r, t) = [Schedule EXCEPT ![r.pk] = inner]
    BY <1>4 DEF With
  <2>4. inner[r.sk] = t /\ \A sk \in SortKeys \ {r.sk} : inner[sk] = Schedule[r.pk][sk]
    BY <2>1, <1>1
  <2> HIDE DEF inner
  <2> QED
    BY <1>1, <1>2, <1>4, <2>2, <2>3, <2>4, InnerMapIsNotNil
<1> QED
  BY <1>3, <1>4

-----------------------------------------------------------------------------
(* The inductive invariant.                                                *)

LEMMA InitIInv == Init => IInv
<1> SUFFICES ASSUME Init PROVE IInv
  OBVIOUS
<1> USE DEF Init
<1>1. TypeOK
  BY ActionCapIsPositive DEF TypeOK, ClientPcs, RunPcs, StopPcs
<1>2. CallInOnePlace
  BY NilIsNobody DEF CallInOnePlace, Queued, Running, Replied
<1>3. CallWhileInside /\ RunConsistent /\ ExtraSends /\ QuitConsistent
  BY NilIsNobody DEF CallWhileInside, RunConsistent, ExtraSends, QuitConsistent
<1> QED
  BY <1>1, <1>2, <1>3 DEF IInv

\* A step of the callers that leaves Run alone.
LEMMA InvokeKeepsIInv == ASSUME IInv, NEW c \in Clients, Invoke(c) PROVE IInv'
<1> USE DEF IInv, Invoke, runVars, stopVars
<1>1. PICK r \in Calls : call' = [call EXCEPT ![c] = r]
  OBVIOUS
<1>2. r # Nil
  BY NilIsNothing
<1>3. TypeOK'
  BY <1>1 DEF TypeOK, ClientPcs
<1>4. CallInOnePlace'
  BY DEF CallInOnePlace, TypeOK, Queued, Running, Replied
<1>5. CallWhileInside'
  BY <1>1, <1>2 DEF CallWhileInside, TypeOK
<1>6. reader # c
  BY NilIsNobody DEF CallInOnePlace, Running
<1>7. RunConsistent' /\ ExtraSends' /\ QuitConsistent'
  BY <1>1, <1>6 DEF RunConsistent, ExtraSends, QuitConsistent, TypeOK
<1> QED
  BY <1>3, <1>4, <1>5, <1>7

LEMMA EnqueueKeepsIInv == ASSUME IInv, NEW c \in Clients, Enqueue(c) PROVE IInv'
<1> USE DEF IInv, Enqueue, runVars, stopVars
<1>1. /\ actionCh' \in Seq(Clients)
      /\ Len(actionCh') = Len(actionCh) + 1
      /\ \A i \in 1 .. Len(actionCh) : actionCh'[i] = actionCh[i]
      /\ actionCh'[Len(actionCh) + 1] = c
      /\ Len(actionCh) \in Nat
  BY AppendProperties DEF TypeOK
<1>2. TypeOK'
  BY <1>1, ActionCapIsPositive DEF TypeOK, ClientPcs
<1>3. ~Queued(c) /\ ~Running(c) /\ ~Replied(c)
  BY DEF CallInOnePlace
<1>4. Queued(c)' /\ \A d \in Clients \ {c} : Queued(d)' <=> Queued(d)
  BY <1>1 DEF Queued
<1>5. \A d \in Clients : (Running(d)' <=> Running(d)) /\ (Replied(d)' <=> Replied(d))
  BY DEF Running, Replied
<1>6. \A i, j \in 1 .. Len(actionCh') : actionCh'[i] = actionCh'[j] => i = j
  BY <1>1, <1>3 DEF CallInOnePlace, Queued
<1>7. CallInOnePlace'
  BY <1>3, <1>4, <1>5, <1>6 DEF CallInOnePlace, TypeOK
<1>8. CallWhileInside' /\ RunConsistent' /\ ExtraSends' /\ QuitConsistent'
  BY DEF CallWhileInside, RunConsistent, ExtraSends, QuitConsistent, TypeOK
<1> QED
  BY <1>2, <1>7, <1>8

\* The client that gets its reply is the only one whose fields change.
LEMMA AnswerTypes ==
  ASSUME TypeOK, NEW c \in Clients, NEW reply \in Replies, Answer(c, reply)
  PROVE  /\ pc' \in [Clients -> ClientPcs]
         /\ held' \in [Clients -> PartitionKeys \cup {Nil}]
         /\ call' \in [Clients -> Calls \cup {Nil}]
         /\ pc'[c] \in {"idle", "scan"} /\ call'[c] = Nil
         /\ \A d \in Clients \ {c} : pc'[d] = pc[d] /\ call'[d] = call[d]
BY ReplyKinds DEF TypeOK, Answer, ClientPcs

LEMMA ReceiveKeepsIInv == ASSUME IInv, NEW c \in Clients, Receive(c) PROVE IInv'
<1> USE DEF IInv, Receive, runVars, stopVars
<1>1. mailbox[c] \in Replies
  BY DEF TypeOK
<1>2. /\ pc' \in [Clients -> ClientPcs]
      /\ held' \in [Clients -> PartitionKeys \cup {Nil}]
      /\ call' \in [Clients -> Calls \cup {Nil}]
      /\ pc'[c] \in {"idle", "scan"} /\ call'[c] = Nil
      /\ \A d \in Clients \ {c} : pc'[d] = pc[d] /\ call'[d] = call[d]
  BY <1>1, AnswerTypes
<1>3. TypeOK'
  BY <1>2 DEF TypeOK
<1>4. ~Queued(c) /\ ~Running(c)
  BY DEF CallInOnePlace, Replied
<1>5. CallInOnePlace'
  BY <1>2, <1>4 DEF CallInOnePlace, TypeOK, Queued, Running, Replied
<1>6. CallWhileInside'
  BY <1>2 DEF CallWhileInside
<1>7. ExtraSends'
  BY <1>2, <1>4 DEF ExtraSends, Running, TypeOK
<1>8. RunConsistent' /\ QuitConsistent'
  BY DEF RunConsistent, QuitConsistent
<1> QED
  BY <1>3, <1>5, <1>6, <1>7, <1>8

LEMMA EndScanKeepsIInv == ASSUME IInv, NEW c \in Clients, EndScan(c) PROVE IInv'
<1> USE DEF IInv, EndScan, runVars, stopVars
<1>1. TypeOK' /\ CallWhileInside'
  BY DEF TypeOK, ClientPcs, CallWhileInside
<1>2. CallInOnePlace'
  BY DEF CallInOnePlace, TypeOK, Queued, Running, Replied
<1>3. RunConsistent' /\ ExtraSends' /\ QuitConsistent'
  BY DEF RunConsistent, ExtraSends, QuitConsistent
<1> QED
  BY <1>1, <1>2, <1>3

\* Run takes the head of actionCh.
LEMMA TakeActionKeepsIInv == ASSUME IInv, TakeAction PROVE IInv'
<1> USE DEF IInv, TakeAction, clientVars, stopVars
<1>0. PICK c \in Clients : c = actionCh[1] /\ reader' = c
  BY HeadTailProperties DEF TypeOK
<1>1. /\ actionCh' \in Seq(Clients)
      /\ Len(actionCh) \in Nat \ {0}
      /\ Len(actionCh') = Len(actionCh) - 1
      /\ \A i \in 1 .. Len(actionCh') : actionCh'[i] = actionCh[i + 1]
  BY HeadTailProperties, EmptySeq DEF TypeOK
<1>2. TypeOK'
  BY <1>0, <1>1, ActionCapIsPositive DEF TypeOK, RunPcs
<1>3. reader = Nil /\ sends = <<>>
  BY DEF RunConsistent
<1>4. Queued(c) /\ ~Queued(c)'
  <2>1. Queued(c)
    BY <1>0, <1>1 DEF Queued
  <2>2. ASSUME NEW i \in 1 .. Len(actionCh'), actionCh'[i] = c PROVE FALSE
    <3>1. actionCh[i + 1] = actionCh[1] /\ i + 1 \in 1 .. Len(actionCh) /\ i + 1 # 1
      BY <2>2, <1>0, <1>1
    <3> QED
      BY <3>1, <1>1 DEF CallInOnePlace
  <2> QED
    BY <2>1, <2>2 DEF Queued
<1>5. \A d \in Clients \ {c} : Queued(d)' <=> Queued(d)
  <2>1. ASSUME NEW d \in Clients \ {c}, Queued(d) PROVE Queued(d)'
    <3>1. PICK i \in 1 .. Len(actionCh) : actionCh[i] = d
      BY <2>1 DEF Queued
    <3>2. i - 1 \in 1 .. Len(actionCh') /\ actionCh'[i - 1] = d
      BY <3>1, <1>0, <1>1
    <3> QED
      BY <3>2 DEF Queued
  <2>2. ASSUME NEW d \in Clients \ {c}, Queued(d)' PROVE Queued(d)
    BY <2>2, <1>0, <1>1 DEF Queued
  <2> QED
    BY <2>1, <2>2
<1>6. \A i, j \in 1 .. Len(actionCh') : actionCh'[i] = actionCh'[j] => i = j
  <2> SUFFICES ASSUME NEW i \in 1 .. Len(actionCh'), NEW j \in 1 .. Len(actionCh'),
                      actionCh[i + 1] = actionCh[j + 1]
               PROVE  i = j
    BY <1>1
  <2>1. i + 1 \in 1 .. Len(actionCh) /\ j + 1 \in 1 .. Len(actionCh)
    BY <1>1
  <2> QED
    BY <2>1 DEF CallInOnePlace
<1>7. CallInOnePlace'
  <2>1. \A d \in Clients : Replied(d)' <=> Replied(d)
    BY DEF Replied
  <2>2. \A d \in Clients : ~Running(d) /\ (Running(d)' <=> d = c)
    BY <1>0, <1>3, NilIsNobody DEF Running
  <2> QED
    BY <1>0, <1>4, <1>5, <1>6, <2>1, <2>2 DEF CallInOnePlace
<1>8. CallWhileInside' /\ RunConsistent' /\ ExtraSends' /\ QuitConsistent'
  BY <1>0, <1>3, NilIsNobody DEF CallWhileInside, RunConsistent, ExtraSends, QuitConsistent
<1> QED
  BY <1>2, <1>7, <1>8

\* The client whose closure is at its first statement has made a call.
LEMMA ReaderHasCall ==
  ASSUME IInv, reader # Nil
  PROVE  reader \in Clients /\ pc[reader] = "select" /\ call[reader] \in Calls
<1>1. reader \in Clients
  BY DEF IInv, TypeOK
<1> QED
  BY <1>1 DEF IInv, TypeOK, CallInOnePlace, CallWhileInside, Running

\* What every closure's first step does to the invariant, whatever it writes to
\* the map and as long as only a ReadTask on a partition that exists means to
\* send more than once.
LEMMA ExecKeepsIInv ==
  ASSUME IInv, runPc = "exec", NEW replies \in Seq(Replies), replies # <<>>,
         ThenSend(replies), Schedule' \in [PartitionKeys -> InnerMaps \cup {Nil}],
         Tail(replies) # <<>> => /\ call[reader].op = "ReadTask"
                                /\ Schedule'[call[reader].pk] # Nil
  PROVE  IInv'
<1> USE DEF IInv, ThenSend, clientVars, stopVars
<1>1. TypeOK'
  BY DEF TypeOK, RunPcs
<1>2. CallInOnePlace'
  BY DEF CallInOnePlace, Queued, Running, Replied
<1>3. CallWhileInside' /\ RunConsistent' /\ ExtraSends' /\ QuitConsistent'
  BY DEF CallWhileInside, RunConsistent, ExtraSends, QuitConsistent
<1> QED
  BY <1>1, <1>2, <1>3

LEMMA OneReply ==
  ASSUME NEW reply \in Replies
  PROVE  <<reply>> \in Seq(Replies) /\ <<reply>> # <<>> /\ Tail(<<reply>>) = <<>>
OBVIOUS

LEMMA RunCreateTaskKeepsIInv == ASSUME IInv, RunCreateTask PROVE IInv'
<1> DEFINE r == call[reader]
<1>1. runPc = "exec" /\ r.op = "CreateTask" /\ reader # Nil
  BY DEF RunCreateTask, Runs, IInv, RunConsistent
<1>2. r \in Calls /\ r.pk \in PartitionKeys /\ r.task \in Tasks
  BY <1>1, ReaderHasCall, CallFields
<1>3. CASE HasTask(r) /\ UNCHANGED Schedule /\ ThenSend(<<AlreadyExists>>)
  BY <1>1, <1>3, ReplyKinds, OneReply, ExecKeepsIInv DEF IInv, TypeOK
<1>4. CASE ~HasTask(r) /\ Schedule' = With(r, r.task) /\ ThenSend(<<Ok>>)
  <2>1. Schedule' \in [PartitionKeys -> InnerMaps \cup {Nil}]
    BY <1>1, <1>2, <1>4, WithWrites DEF IInv
  <2> QED
    BY <1>1, <1>4, <2>1, ReplyKinds, OneReply, ExecKeepsIInv
<1> QED
  BY <1>3, <1>4 DEF RunCreateTask

LEMMA RunDeleteTaskKeepsIInv == ASSUME IInv, RunDeleteTask PROVE IInv'
<1> DEFINE r == call[reader]
<1>1. runPc = "exec" /\ r.op = "DeleteTask" /\ reader # Nil
  BY DEF RunDeleteTask, Runs, IInv, RunConsistent
<1>2. r \in Calls
  BY <1>1, ReaderHasCall
<1>3. CASE HasTask(r) /\ Schedule' = With(r, Nil) /\ ThenSend(<<Ok>>)
  <2>1. Schedule' \in [PartitionKeys -> InnerMaps \cup {Nil}]
    BY <1>1, <1>2, <1>3, WithWrites DEF IInv
  <2> QED
    BY <1>1, <1>3, <2>1, ReplyKinds, OneReply, ExecKeepsIInv
<1>4. CASE ~HasTask(r) /\ UNCHANGED Schedule /\ ThenSend(<<DoesntExist>>)
  BY <1>1, <1>4, ReplyKinds, OneReply, ExecKeepsIInv DEF IInv, TypeOK
<1> QED
  BY <1>3, <1>4 DEF RunDeleteTask

LEMMA RunReadTaskKeepsIInv == ASSUME IInv, RunReadTask PROVE IInv'
<1> DEFINE r == call[reader]
<1>1. /\ runPc = "exec" /\ r.op = "ReadTask" /\ reader # Nil
      /\ UNCHANGED Schedule /\ Schedule \in [PartitionKeys -> InnerMaps \cup {Nil}]
  BY DEF RunReadTask, Runs, IInv, RunConsistent, TypeOK
<1>2. r \in Calls /\ r.pk \in PartitionKeys /\ r.sk \in SortKeys
  BY <1>1, ReaderHasCall, CallFields
<1>3. CASE /\ HasTask(r)
           /\ ThenSend(<<Found(Schedule[r.pk][r.sk]), DoesntExist, DoesntExist>>)
  <2>1. Schedule[r.pk] # Nil /\ Schedule[r.pk][r.sk] \in Tasks
    BY <1>1, <1>2, <1>3 DEF HasTask, InnerMaps
  <2> DEFINE replies == <<Found(Schedule[r.pk][r.sk]), DoesntExist, DoesntExist>>
  <2>2. replies \in Seq(Replies) /\ replies # <<>>
    BY <2>1, ReplyKinds
  <2> QED
    BY <1>1, <1>3, <2>1, <2>2, ExecKeepsIInv
<1>4. CASE Schedule[r.pk] # Nil /\ ThenSend(<<DoesntExist, DoesntExist>>)
  <2>1. <<DoesntExist, DoesntExist>> \in Seq(Replies) /\ <<DoesntExist, DoesntExist>> # <<>>
    BY ReplyKinds
  <2> QED
    BY <1>1, <1>4, <2>1, ExecKeepsIInv
<1>5. CASE Schedule[r.pk] = Nil /\ ThenSend(<<DoesntExist>>)
  BY <1>1, <1>5, ReplyKinds, OneReply, ExecKeepsIInv
<1> QED
  BY <1>3, <1>4, <1>5 DEF RunReadTask

LEMMA RunReadScheduleKeepsIInv == ASSUME IInv, RunReadSchedule PROVE IInv'
<1> DEFINE pk == call[reader].pk
<1>1. /\ runPc = "exec" /\ reader # Nil
      /\ UNCHANGED Schedule /\ Schedule \in [PartitionKeys -> InnerMaps \cup {Nil}]
  BY DEF RunReadSchedule, Runs, IInv, RunConsistent, TypeOK
<1>2. pk \in PartitionKeys
  BY <1>1, ReaderHasCall, CallFields
<1>3. CASE ThenSend(<<MapOf(pk)>>)
  BY <1>1, <1>2, <1>3, ReplyKinds, OneReply, ExecKeepsIInv
<1>4. CASE ThenSend(<<DoesntExist>>)
  BY <1>1, <1>4, ReplyKinds, OneReply, ExecKeepsIInv
<1> QED
  BY <1>3, <1>4 DEF RunReadSchedule

\* After a send Run has one less to do and no reader.
LEMMA AfterSendFacts ==
  ASSUME IInv, runPc = "reply", reader # Nil, AfterSend
  PROVE  /\ Head(sends) \in Replies
         /\ sends' \in Seq(Replies)
         /\ runPc' = "select" \/ runPc' = "reply"
         /\ runPc' = "reply" <=> sends' # <<>>
         /\ reader' = Nil
         /\ ~Queued(reader) /\ ~Replied(reader)
<1>1. sends \in Seq(Replies) /\ sends # <<>> /\ reader \in Clients
  BY DEF IInv, TypeOK, RunConsistent
<1>2. Head(sends) \in Replies /\ Tail(sends) \in Seq(Replies)
  BY <1>1, HeadTailProperties
<1>3. ~Queued(reader) /\ ~Replied(reader)
  BY <1>1 DEF IInv, CallInOnePlace, Running
<1> QED
  BY <1>2, <1>3 DEF AfterSend

LEMMA SendBufferedKeepsIInv == ASSUME IInv, SendBuffered PROVE IInv'
<1> USE DEF IInv, SendBuffered, stopVars
<1>1. reader # Nil /\ reader \in Clients /\ pc[reader] = "select"
  BY ReaderHasCall DEF Buffered
<1>2. /\ Head(sends) \in Replies /\ Head(sends) # Nil
      /\ sends' \in Seq(Replies)
      /\ runPc' = "select" \/ runPc' = "reply"
      /\ runPc' = "reply" <=> sends' # <<>>
      /\ reader' = Nil
      /\ ~Queued(reader) /\ ~Replied(reader)
  BY <1>1, AfterSendFacts, ReplyKinds
<1>3. TypeOK'
  BY <1>1, <1>2 DEF TypeOK, RunPcs
<1>4. CallInOnePlace'
  <2>1. mailbox' = [mailbox EXCEPT ![reader] = Head(sends)] /\ UNCHANGED <<actionCh, pc>>
    BY DEF AfterSend
  <2>2. \A c \in Clients : Replied(c)' <=> Replied(c) \/ Running(c)
    BY <1>1, <1>2, <2>1 DEF TypeOK, Replied, Running
  <2>3. \A c \in Clients : (Queued(c)' <=> Queued(c)) /\ ~Running(c)'
    BY <1>2, <2>1, NilIsNobody DEF Queued, Running
  <2> QED
    BY <2>1, <2>2, <2>3 DEF CallInOnePlace
<1>5. CallWhileInside' /\ QuitConsistent'
  BY <1>2 DEF CallWhileInside, QuitConsistent
<1>6. RunConsistent' /\ ExtraSends'
  BY <1>2 DEF RunConsistent, ExtraSends
<1> QED
  BY <1>3, <1>4, <1>5, <1>6

LEMMA SendRendezvousKeepsIInv == ASSUME IInv, SendRendezvous PROVE IInv'
<1> USE DEF IInv, SendRendezvous, stopVars
<1>1. reader \in Clients
  BY ReaderHasCall
<1>2. /\ Head(sends) \in Replies
      /\ sends' \in Seq(Replies)
      /\ runPc' = "select" \/ runPc' = "reply"
      /\ runPc' = "reply" <=> sends' # <<>>
      /\ reader' = Nil
      /\ ~Queued(reader) /\ ~Replied(reader)
  BY AfterSendFacts
<1>3. /\ pc' \in [Clients -> ClientPcs]
      /\ held' \in [Clients -> PartitionKeys \cup {Nil}]
      /\ call' \in [Clients -> Calls \cup {Nil}]
      /\ pc'[reader] \in {"idle", "scan"} /\ call'[reader] = Nil
      /\ \A d \in Clients \ {reader} : pc'[d] = pc[d] /\ call'[d] = call[d]
  BY <1>1, <1>2, AnswerTypes
<1>4. TypeOK'
  BY <1>2, <1>3 DEF TypeOK, RunPcs
<1>5. CallInOnePlace'
  BY <1>1, <1>2, <1>3, NilIsNobody DEF CallInOnePlace, Queued, Running, Replied
<1>6. CallWhileInside' /\ RunConsistent' /\ ExtraSends' /\ QuitConsistent'
  BY <1>1, <1>2, <1>3 DEF CallWhileInside, RunConsistent, ExtraSends, QuitConsistent
<1> QED
  BY <1>4, <1>5, <1>6

\* The steps that move only Run, or only Run and a Stop.
LEMMA StartRunKeepsIInv == ASSUME IInv, StartRun PROVE IInv'
<1> USE DEF IInv, StartRun, clientVars, stopVars
<1>1. TypeOK' /\ CallInOnePlace'
  BY DEF TypeOK, RunPcs, CallInOnePlace, Queued, Running, Replied
<1>2. CallWhileInside' /\ RunConsistent' /\ ExtraSends' /\ QuitConsistent'
  BY DEF CallWhileInside, RunConsistent, ExtraSends, QuitConsistent
<1> QED
  BY <1>1, <1>2

LEMMA StopKeepsIInv ==
  ASSUME IInv, CloseQuit \/ ReturnRun \/ \E s \in Stoppers : Stop(s)
  PROVE  IInv'
<1> USE DEF IInv, Stop, CallStop, TakeQuit, CloseQuit, ReturnRun, ReturnStop,
            clientVars, runVars, stopVars
<1>1. TypeOK'
  BY DEF TypeOK, RunPcs, StopPcs
<1>2. CallInOnePlace'
  BY DEF CallInOnePlace, Queued, Running, Replied
<1>3. CallWhileInside' /\ RunConsistent' /\ ExtraSends'
  BY DEF CallWhileInside, RunConsistent, ExtraSends
<1>4. QuitConsistent'
  BY NilIsNobody DEF QuitConsistent, TypeOK, RunPcs, StopPcs
<1> QED
  BY <1>1, <1>2, <1>3, <1>4

LEMMA NextKeepsIInv == IInv /\ [Next]_vars => IInv'
<1> SUFFICES ASSUME IInv, [Next]_vars PROVE IInv'
  OBVIOUS
<1>1. CASE \E c \in Clients : Client(c)
  BY <1>1, InvokeKeepsIInv, EnqueueKeepsIInv, ReceiveKeepsIInv, EndScanKeepsIInv DEF Client
<1>2. CASE TakeAction
  BY <1>2, TakeActionKeepsIInv
<1>3. CASE Exec
  BY <1>3, RunCreateTaskKeepsIInv, RunDeleteTaskKeepsIInv, RunReadTaskKeepsIInv,
     RunReadScheduleKeepsIInv DEF Exec
<1>4. CASE Send
  BY <1>4, SendBufferedKeepsIInv, SendRendezvousKeepsIInv DEF Send
<1>5. CASE StartRun
  BY <1>5, StartRunKeepsIInv
<1>6. CASE CloseQuit \/ ReturnRun \/ \E s \in Stoppers : Stop(s)
  BY <1>6, StopKeepsIInv
<1>7. CASE UNCHANGED vars
  BY <1>7 DEF vars, clientVars, runVars, stopVars, IInv, TypeOK, CallInOnePlace, Queued,
     Running, Replied, CallWhileInside, RunConsistent, ExtraSends, QuitConsistent
<1> QED
  BY <1>1, <1>2, <1>3, <1>4, <1>5, <1>6, <1>7 DEF Next, Run

\* The invariant holds in every state.
THEOREM Invariance == Spec => []IInv
<1>1. Init => IInv
  BY InitIInv
<1>2. IInv /\ [Next]_vars => IInv'
  BY NextKeepsIInv
<1> QED
  BY <1>1, <1>2, PTL DEF Spec

-----------------------------------------------------------------------------
(* The safety properties.                                                  *)

\* Every variable keeps its type, and actionCh its capacity.
THEOREM TypeCorrect == Spec => []TypeOK
BY Invariance, PTL DEF IInv

\* No call is lost and none is run twice, however callers, Run and Stop interleave.
THEOREM CallsKept == Spec => []CallInOnePlace
BY Invariance, PTL DEF IInv

\* Nothing but a ReadTask on an existing partition wedges Run.
THEOREM OneWayToWedge == Spec => OnlyReadTaskWedges
<1>1. ASSUME IInv, [Next]_vars
      PROVE  [~Wedged /\ Wedged' =>
                call[reader].op = "ReadTask" /\ Schedule[call[reader].pk] # Nil]_vars
  <2> SUFFICES ASSUME IInv, Next, ~Wedged, Wedged'
               PROVE  call[reader].op = "ReadTask" /\ Schedule[call[reader].pk] # Nil
    BY <1>1 DEF vars, Wedged, runVars
  <2>1. CASE Send
    BY <2>1 DEF Send, SendBuffered, SendRendezvous, Buffered, AfterSend, Wedged, IInv,
       ExtraSends
  <2>2. CASE Exec
    <3>1. reader # Nil /\ UNCHANGED reader
      BY <2>2 DEF Exec, RunCreateTask, RunDeleteTask, RunReadTask, RunReadSchedule, Runs,
         ThenSend, IInv, RunConsistent
    <3> QED
      BY <3>1 DEF Wedged
  <2>3. CASE TakeAction \/ StartRun \/ CloseQuit \/ ReturnRun
    BY <2>3 DEF TakeAction, StartRun, CloseQuit, ReturnRun, Wedged
  <2>4. CASE (\E c \in Clients : Client(c)) \/ (\E s \in Stoppers : Stop(s))
    BY <2>4 DEF Client, Invoke, Enqueue, Receive, EndScan, Stop, CallStop, TakeQuit,
       ReturnStop, runVars, Wedged
  <2> QED
    BY <2>1, <2>2, <2>3, <2>4 DEF Next, Run
<1> QED
  BY <1>1, Invariance, PTL DEF Spec, OnlyReadTaskWedges

\* After a Stop has returned nothing happens to the map or to a queued closure.
THEOREM StopFreezes == Spec => StoppedMeansFrozen
<1>1. ASSUME IInv, [Next]_vars
      PROVE  [(\E s \in Stoppers : stopPc[s] = "returned") =>
                UNCHANGED Schedule /\ Len(actionCh') >= Len(actionCh)]_vars
  <2> SUFFICES ASSUME Next, runPc \in {"closed", "returned"}
               PROVE  UNCHANGED Schedule /\ Len(actionCh') >= Len(actionCh)
    BY <1>1 DEF IInv, QuitConsistent
  <2>1. Len(actionCh) \in Nat
    BY <1>1 DEF IInv, TypeOK
  <2>2. CASE Run
    BY <2>1, <2>2 DEF Run, StartRun, TakeAction, Exec, RunCreateTask, RunDeleteTask,
       RunReadTask, RunReadSchedule, Runs, Send, SendBuffered, SendRendezvous, CloseQuit,
       ReturnRun
  <2>3. ASSUME NEW c \in Clients, Enqueue(c)
        PROVE  UNCHANGED Schedule /\ Len(actionCh') = Len(actionCh) + 1
    BY <1>1, <2>3, AppendProperties DEF Enqueue, IInv, TypeOK
  <2>4. CASE \E c \in Clients : Client(c)
    BY <2>1, <2>3, <2>4 DEF Client, Invoke, Receive, EndScan
  <2>5. CASE \E s \in Stoppers : Stop(s)
    BY <2>1, <2>5 DEF Stop, CallStop, TakeQuit, ReturnStop
  <2> QED
    BY <2>2, <2>4, <2>5 DEF Next
<1> QED
  BY <1>1, Invariance, PTL DEF Spec, StoppedMeansFrozen

\* A partition that exists goes on existing.
THEOREM NoPartitionLost == Spec => PartitionsStay
<1>1. ASSUME IInv, [Next]_vars
      PROVE  [\A pk \in PartitionKeys : Schedule[pk] # Nil => Schedule'[pk] # Nil]_vars
  <2> SUFFICES ASSUME Next, NEW pk \in PartitionKeys, Schedule[pk] # Nil
               PROVE  Schedule'[pk] # Nil
    BY <1>1
  <2>1. CASE UNCHANGED Schedule
    BY <2>1
  <2>2. ASSUME NEW t \in Tasks \cup {Nil}, reader # Nil,
               call[reader].op # "ReadSchedule", Schedule' = With(call[reader], t)
        PROVE  Schedule'[pk] # Nil
    BY <1>1, <2>2, WithWrites, ReaderHasCall DEF IInv
  <2>3. CASE RunCreateTask
    <3>1. reader # Nil /\ call[reader].op = "CreateTask"
      BY <1>1, <2>3 DEF RunCreateTask, Runs, IInv, RunConsistent
    <3>2. call[reader].task \in Tasks
      BY <1>1, <3>1, ReaderHasCall, CallFields
    <3> QED
      BY <2>1, <2>2, <2>3, <3>1, <3>2 DEF RunCreateTask
  <2>4. CASE RunDeleteTask
    BY <1>1, <2>1, <2>2, <2>4 DEF RunDeleteTask, Runs, IInv, RunConsistent
  <2> QED
    BY <2>1, <2>3, <2>4 DEF Next, Run, StartRun, TakeAction, Exec, RunReadTask,
       RunReadSchedule, Send, SendBuffered, SendRendezvous, CloseQuit, ReturnRun,
       Client, Invoke, Enqueue, Receive, EndScan, Stop, CallStop, TakeQuit, ReturnStop
<1> QED
  BY <1>1, Invariance, PTL DEF Spec, PartitionsStay

\* A caller that a stopped Run has left behind is answered by nobody: its closure stays in
\* actionCh without a reply, and a full actionCh stays full.
THEOREM LeftForGood ==
  Spec => [][\A c \in Clients : LeftBehind(c) => LeftBehind(c)']_vars
<1>1. ASSUME IInv, [Next]_vars
      PROVE  [\A c \in Clients : LeftBehind(c) => LeftBehind(c)']_vars
  <2> SUFFICES ASSUME Next, NEW c \in Clients, LeftBehind(c) PROVE LeftBehind(c)'
    BY <1>1
  <2>1. runPc = "returned" /\ ~Run
    BY DEF LeftBehind, Run, StartRun, TakeAction, Exec, RunCreateTask, RunDeleteTask,
       RunReadTask, RunReadSchedule, Runs, Send, SendBuffered, SendRendezvous, CloseQuit,
       ReturnRun
  <2>2. CASE \E d \in Clients : Client(d)
    <3>1. PICK d \in Clients : Client(d)
      BY <2>2
    <3>2. CASE Invoke(d) \/ EndScan(d)
      <4>1. UNCHANGED <<actionCh, runPc>> /\ (pc[c] = "enqueue" => pc'[c] = "enqueue")
        BY <1>1, <3>2 DEF Invoke, EndScan, runVars, IInv, TypeOK
      <4> QED
        BY <4>1 DEF LeftBehind, Queued
    <3>3. CASE Enqueue(d)
      <4>1. actionCh' = Append(actionCh, d) /\ runPc' = "returned" /\ Len(actionCh) # ActionCap
        BY <1>1, <2>1, <3>3, ActionCapIsPositive DEF Enqueue, runVars, IInv, TypeOK
      <4>2. Queued(c)
        BY <4>1 DEF LeftBehind
      <4>3. Queued(c)'
        BY <1>1, <4>1, <4>2, AppendProperties DEF Queued, IInv, TypeOK
      <4> QED
        BY <4>1, <4>3 DEF LeftBehind
    <3>4. CASE Receive(d)
      <4>1. d # c
        BY <1>1, <3>4 DEF Receive, LeftBehind, IInv, CallInOnePlace, Replied
      <4>2. UNCHANGED <<actionCh, runPc>> /\ pc'[c] = pc[c]
        BY <1>1, <3>4, <4>1 DEF Receive, Answer, runVars, IInv, TypeOK
      <4> QED
        BY <4>2 DEF LeftBehind, Queued
    <3> QED
      BY <3>1, <3>2, <3>3, <3>4 DEF Client
  <2>3. CASE \E s \in Stoppers : Stop(s)
    <3>1. UNCHANGED <<actionCh, runPc, pc>>
      BY <2>1, <2>3 DEF Stop, CallStop, TakeQuit, ReturnStop, clientVars, runVars
    <3> QED
      BY <3>1 DEF LeftBehind, Queued
  <2> QED
    BY <2>1, <2>2, <2>3 DEF Next
<1> QED
  BY <1>1, Invariance, PTL DEF Spec

=============================================================================
