------------------------- MODULE Database_refinement -------------------------
(***************************************************************************)
(* Database implements TaskStore: each call takes effect in the one step   *)
(* in which Run goes through its closure's map accesses, and is answered   *)
(* when its reply is received.  Every other step leaves the store as it is.*)
(***************************************************************************)
EXTENDS Database_proofs

\* A client without a reply in its channel, and whose closure Run is not
\* answering, has no answer yet.
LEMMA AnswersOf ==
  ASSUME IInv, NEW c \in Clients
  PROVE  /\ Answers[c] = AnswerOf(c)
         /\ reader # c => Answers[c] = mailbox[c]
         /\ reader = c => mailbox[c] = Nil
         /\ reader = c /\ runPc # "reply" => Answers[c] = Nil
         /\ reader = c /\ runPc = "reply" => Answers[c] = Head(sends)
         /\ Answers \in [Clients -> Replies \cup {Nil}]
<1>1. Answers[c] = AnswerOf(c)
  BY DEF Answers
<1>2. reader = c => mailbox[c] = Nil
  BY DEF IInv, CallInOnePlace, Running, Replied
<1>3. \A d \in Clients : AnswerOf(d) \in Replies \cup {Nil}
  BY HeadTailProperties DEF AnswerOf, IInv, TypeOK, RunConsistent
<1> QED
  BY <1>1, <1>2, <1>3 DEF AnswerOf, Answers

\* The view of TaskStore depends on nothing but these.
LEMMA SameAnswers ==
  ASSUME \A c \in Clients : AnswerOf(c)' = AnswerOf(c)
  PROVE  UNCHANGED Answers
BY DEF Answers

LEMMA SameMap ==
  ASSUME UNCHANGED Schedule
  PROVE  UNCHANGED <<Contents, Opened>>
BY DEF Contents, TaskAt, Opened

\* Both modules have the same calls.
LEMMA SameCalls == Store!Calls = Calls
BY DEF Calls, CreateCalls, TaskCallsOn, ScheduleCalls, Store!Calls, Store!CreateCalls,
   Store!TaskCallsOn, Store!ScheduleCalls

\* Both modules name the same replies.
LEMMA SameReplies ==
  /\ Store!Ok = Ok /\ Store!AlreadyExists = AlreadyExists /\ Store!DoesntExist = DoesntExist
  /\ \A t : Store!Found(t) = Found(t)
  /\ \A pk : Store!MapOf(pk) = MapOf(pk)
BY DEF Ok, AlreadyExists, DoesntExist, Found, MapOf, Store!Ok, Store!AlreadyExists,
   Store!DoesntExist, Store!Found, Store!MapOf

LEMMA InitRefines == Init => Store!Init
<1> SUFFICES ASSUME Init PROVE Store!Init
  OBVIOUS
<1>1. Contents = [k \in PartitionKeys \X SortKeys |-> Nil]
  BY DEF Init, Contents, TaskAt
<1>2. Opened = {} /\ Answers = [c \in Clients |-> Nil]
  BY DEF Init, Opened, Answers, AnswerOf
<1> QED
  BY <1>1, <1>2 DEF Init, Store!Init

\* A call is made, and nothing else is seen.
LEMMA InvokeRefines ==
  ASSUME IInv, NEW c \in Clients, Invoke(c) PROVE Store!Invoke(c)
<1>0. PICK r \in Calls : call' = [call EXCEPT ![c] = r]
  BY DEF Invoke
<1>1. call[c] = Nil
  BY DEF Invoke, IInv, CallWhileInside
<1>2. UNCHANGED <<Contents, Opened>>
  BY SameMap DEF Invoke
<1>3. UNCHANGED Answers
  BY SameAnswers DEF Invoke, runVars, AnswerOf
<1> QED
  BY <1>0, <1>1, <1>2, <1>3, SameCalls DEF Store!Invoke

\* An answer is taken: out of the buffered channel, or from Run's own hands.
LEMMA ReceiveRefines ==
  ASSUME IInv, NEW c \in Clients, Receive(c) PROVE Store!Return(c)
<1>1. mailbox[c] # Nil /\ reader # c /\ mailbox' = [mailbox EXCEPT ![c] = Nil]
      /\ UNCHANGED <<Schedule, reader, runPc, sends>>
      /\ call' = [call EXCEPT ![c] = Nil]
  BY DEF Receive, Answer, runVars, IInv, CallInOnePlace, Running, Replied
<1>2. Answers[c] # Nil
  BY <1>1, AnswersOf
<1>3. Answers' = [Answers EXCEPT ![c] = Nil]
  BY <1>1 DEF Answers, AnswerOf, IInv, TypeOK
<1>4. UNCHANGED <<Contents, Opened>>
  BY <1>1, SameMap
<1> QED
  BY <1>1, <1>2, <1>3, <1>4 DEF Store!Return

LEMMA SendRendezvousRefines ==
  ASSUME IInv, SendRendezvous PROVE reader \in Clients /\ Store!Return(reader)
<1>1. /\ reader \in Clients /\ runPc = "reply" /\ reader' = Nil
      /\ UNCHANGED <<Schedule, mailbox>>
      /\ call' = [call EXCEPT ![reader] = Nil]
  BY ReaderHasCall DEF SendRendezvous, AfterSend, Answer
<1>2. Head(sends) \in Replies /\ Head(sends) # Nil
  BY <1>1, HeadTailProperties, ReplyKinds DEF IInv, TypeOK, RunConsistent
<1>3. Answers[reader] # Nil /\ mailbox[reader] = Nil
  BY <1>1, <1>2, AnswersOf
<1>4. Answers' = [Answers EXCEPT ![reader] = Nil]
  BY <1>1, <1>3, NilIsNobody DEF Answers, AnswerOf
<1>5. UNCHANGED <<Contents, Opened>>
  BY <1>1, SameMap
<1> QED
  BY <1>1, <1>3, <1>4, <1>5 DEF Store!Return

\* A reply that is put in its channel is still the same answer.
LEMMA SendBufferedStutters ==
  ASSUME IInv, SendBuffered PROVE UNCHANGED <<Contents, Opened, call, Answers>>
<1>1. /\ reader \in Clients /\ runPc = "reply" /\ reader' = Nil
      /\ mailbox' = [mailbox EXCEPT ![reader] = Head(sends)]
      /\ UNCHANGED <<Schedule, call>>
  BY ReaderHasCall DEF SendBuffered, Buffered, AfterSend
<1>2. \A c \in Clients : AnswerOf(c)' = AnswerOf(c)
  BY <1>1, NilIsNobody DEF AnswerOf, IInv, TypeOK
<1> QED
  BY <1>1, <1>2, SameAnswers, SameMap

\* The step in which Run goes through a closure answers its caller and no other.
LEMMA ExecAnswers ==
  ASSUME IInv, runPc = "exec", NEW replies, ThenSend(replies)
  PROVE  /\ reader \in Clients /\ Answers[reader] = Nil
         /\ call[reader] \in Calls /\ UNCHANGED call
         /\ Answers' = [Answers EXCEPT ![reader] = Head(replies)]
<1>1. reader # Nil /\ reader \in Clients /\ call[reader] \in Calls
  BY ReaderHasCall DEF IInv, RunConsistent
<1>2. /\ UNCHANGED <<reader, mailbox, call>>
      /\ runPc' = "reply" /\ sends' = replies
  BY DEF ThenSend, clientVars
<1> QED
  BY <1>1, <1>2, AnswersOf DEF Answers, AnswerOf

\* What TaskStore finds under the keys of a call is what the closure finds.
LEMMA AtIsHasTask ==
  ASSUME NEW r \in Calls, r.op # "ReadSchedule"
  PROVE  /\ Store!At(r) = TaskAt(r.pk, r.sk)
         /\ Store!At(r) # Nil <=> HasTask(r)
         /\ HasTask(r) => Store!At(r) = Schedule[r.pk][r.sk]
<1>1. <<r.pk, r.sk>> \in PartitionKeys \X SortKeys
  BY CallFields
<1>2. Store!At(r) = TaskAt(r.pk, r.sk)
  BY <1>1 DEF Store!At, Contents
<1> QED
  BY <1>2 DEF TaskAt, HasTask

\* With changes one task of the store and opens its partition.
LEMMA WithRefines ==
  ASSUME IInv, NEW r \in Calls, r.op # "ReadSchedule", NEW t \in Tasks \cup {Nil},
         Schedule' = With(r, t)
  PROVE  /\ Contents' = [Contents EXCEPT ![<<r.pk, r.sk>>] = t]
         /\ Opened' = Opened \cup {r.pk}
<1>1. r.pk \in PartitionKeys /\ r.sk \in SortKeys
  BY CallFields
<1>2. /\ Schedule'[r.pk] # Nil
      /\ Schedule'[r.pk][r.sk] = t
      /\ \A sk \in SortKeys \ {r.sk} :
           Schedule'[r.pk][sk] = IF Schedule[r.pk] = Nil THEN Nil ELSE Schedule[r.pk][sk]
      /\ \A pk \in PartitionKeys \ {r.pk} : Schedule'[pk] = Schedule[pk]
  BY WithWrites DEF IInv
<1>3. \A pk \in PartitionKeys, sk \in SortKeys :
        TaskAt(pk, sk)' = IF pk = r.pk /\ sk = r.sk THEN t ELSE TaskAt(pk, sk)
  BY <1>1, <1>2 DEF TaskAt
<1>4. \A k \in PartitionKeys \X SortKeys :
        Contents'[k] = IF k = <<r.pk, r.sk>> THEN t ELSE Contents[k]
  <2> SUFFICES ASSUME NEW k \in PartitionKeys \X SortKeys
               PROVE  Contents'[k] = IF k = <<r.pk, r.sk>> THEN t ELSE Contents[k]
    OBVIOUS
  <2>1. PICK pk \in PartitionKeys, sk \in SortKeys : k = <<pk, sk>>
    OBVIOUS
  <2>2. Contents'[k] = TaskAt(pk, sk)' /\ Contents[k] = TaskAt(pk, sk)
    BY <2>1 DEF Contents
  <2>3. k = <<r.pk, r.sk>> <=> pk = r.pk /\ sk = r.sk
    BY <2>1
  <2> QED
    BY <2>2, <2>3, <1>3
<1>5. Contents' = [Contents EXCEPT ![<<r.pk, r.sk>>] = t]
  BY <1>4 DEF Contents
<1>6. Opened' = Opened \cup {r.pk}
  BY <1>1, <1>2 DEF Opened
<1> QED
  BY <1>5, <1>6

\* The four closures take effect as the four calls of TaskStore do.
LEMMA ExecRefines == ASSUME IInv, Exec PROVE reader \in Clients /\ Store!Apply(reader)
<1> DEFINE r == call[reader]
<1>1. runPc = "exec" /\ reader # Nil
  BY DEF Exec, RunCreateTask, RunDeleteTask, RunReadTask, RunReadSchedule, Runs, IInv,
     RunConsistent
<1>2. r \in Calls /\ r # Nil /\ r.pk \in PartitionKeys
  BY <1>1, ReaderHasCall, CallFields
<1>3. \A replies : ThenSend(replies) =>
        /\ reader \in Clients /\ Answers[reader] = Nil /\ UNCHANGED call
        /\ Answers' = [Answers EXCEPT ![reader] = Head(replies)]
  BY <1>1, ExecAnswers
<1>4. r.op # "ReadSchedule" =>
        /\ Store!At(r) # Nil <=> HasTask(r)
        /\ HasTask(r) => Store!At(r) = Schedule[r.pk][r.sk]
  BY <1>2, AtIsHasTask
<1>5. UNCHANGED Schedule => UNCHANGED <<Contents, Opened>>
  BY SameMap
<1>6. CASE RunCreateTask
  <2>1. r.op = "CreateTask"
    BY <1>6 DEF RunCreateTask, Runs
  <2>2. CASE HasTask(r) /\ UNCHANGED Schedule /\ ThenSend(<<AlreadyExists>>)
    BY <1>2, <1>3, <1>4, <1>5, <2>1, <2>2, SameReplies DEF Store!Apply, Store!Create, Store!Answered
  <2>3. CASE ~HasTask(r) /\ Schedule' = With(r, r.task) /\ ThenSend(<<Ok>>)
    <3>1. r.task \in Tasks
      BY <1>2, <2>1, CallFields
    <3>2. /\ Contents' = [Contents EXCEPT ![<<r.pk, r.sk>>] = r.task]
          /\ Opened' = Opened \cup {r.pk}
      BY <1>2, <2>1, <2>3, <3>1, WithRefines
    <3> QED
      BY <1>2, <1>3, <1>4, <2>1, <2>3, <3>2, SameReplies DEF Store!Apply, Store!Create, Store!Answered
  <2> QED
    BY <1>6, <2>2, <2>3 DEF RunCreateTask
<1>7. CASE RunDeleteTask
  <2>1. r.op = "DeleteTask"
    BY <1>7 DEF RunDeleteTask, Runs
  <2>2. CASE HasTask(r) /\ Schedule' = With(r, Nil) /\ ThenSend(<<Ok>>)
    <3>1. /\ Contents' = [Contents EXCEPT ![<<r.pk, r.sk>>] = Nil]
          /\ Opened' = Opened \cup {r.pk}
      BY <1>2, <2>1, <2>2, WithRefines
    <3>2. r.pk \in Opened
      BY <1>2, <2>2 DEF HasTask, Opened
    <3> QED
      BY <1>2, <1>3, <1>4, <2>1, <2>2, <3>1, <3>2, SameReplies
      DEF Store!Apply, Store!Delete, Store!Answered
  <2>3. CASE ~HasTask(r) /\ UNCHANGED Schedule /\ ThenSend(<<DoesntExist>>)
    BY <1>2, <1>3, <1>4, <1>5, <2>1, <2>3, SameReplies DEF Store!Apply, Store!Delete, Store!Answered
  <2> QED
    BY <1>7, <2>2, <2>3 DEF RunDeleteTask
<1>8. CASE RunReadTask
  <2>1. r.op = "ReadTask" /\ UNCHANGED <<Contents, Opened>>
    BY <1>5, <1>8 DEF RunReadTask, Runs
  <2>2. PICK replies :
          /\ ThenSend(replies)
          /\ Head(replies) = IF HasTask(r) THEN Found(Schedule[r.pk][r.sk]) ELSE DoesntExist
    <3> DEFINE found == Found(Schedule[r.pk][r.sk])
    <3>1. CASE HasTask(r) /\ ThenSend(<<found, DoesntExist, DoesntExist>>)
      <4>1. Head(<<found, DoesntExist, DoesntExist>>) = found
        OBVIOUS
      <4> QED
        BY <3>1, <4>1
    <3>2. CASE ~HasTask(r) /\ ThenSend(<<DoesntExist, DoesntExist>>)
      <4>1. Head(<<DoesntExist, DoesntExist>>) = DoesntExist
        OBVIOUS
      <4> QED
        BY <3>2, <4>1
    <3>3. CASE ~HasTask(r) /\ ThenSend(<<DoesntExist>>)
      <4>1. Head(<<DoesntExist>>) = DoesntExist
        OBVIOUS
      <4> QED
        BY <3>3, <4>1
    <3> QED
      BY <1>8, <3>1, <3>2, <3>3 DEF RunReadTask, HasTask
  <2> QED
    BY <1>2, <1>3, <1>4, <2>1, <2>2, SameReplies DEF Store!Apply, Store!Read, Store!Answered
<1>9. CASE RunReadSchedule
  <2>1. r.op = "ReadSchedule" /\ UNCHANGED <<Contents, Opened>>
    BY <1>5, <1>9 DEF RunReadSchedule, Runs
  <2>2. PICK replies :
          /\ ThenSend(replies)
          /\ Head(replies) = IF Schedule[r.pk] # Nil THEN MapOf(r.pk) ELSE DoesntExist
    BY <1>9 DEF RunReadSchedule
  <2>3. r.pk \in Opened <=> Schedule[r.pk] # Nil
    BY <1>2 DEF Opened
  <2> QED
    BY <1>2, <1>3, <2>1, <2>2, <2>3, SameReplies DEF Store!Apply, Store!Schedule, Store!Answered
<1> QED
  BY <1>6, <1>7, <1>8, <1>9 DEF Exec

\* The steps that TaskStore does not see.
LEMMA OthersStutter ==
  ASSUME IInv,
         \/ StartRun \/ TakeAction \/ CloseQuit \/ ReturnRun
         \/ (\E c \in Clients : Enqueue(c) \/ EndScan(c))
         \/ (\E s \in Stoppers : Stop(s))
  PROVE  UNCHANGED <<Contents, Opened, call, Answers>>
<1> USE DEF StartRun, CloseQuit, ReturnRun, Enqueue, EndScan, Stop, CallStop, TakeQuit,
            ReturnStop, TakeAction, clientVars, runVars
<1>1. UNCHANGED <<Schedule, call, mailbox>>
  OBVIOUS
<1>2. UNCHANGED <<reader, runPc, sends>> \/ (runPc # "reply" /\ runPc' # "reply")
  OBVIOUS
<1>3. \A c \in Clients : AnswerOf(c)' = AnswerOf(c)
  BY <1>1, <1>2 DEF AnswerOf
<1> QED
  BY <1>1, <1>3, SameAnswers, SameMap

\* Whatever callers, Run and Stop do, each call takes effect atomically between
\* call and return and gets the answer of that moment.
THEOREM Implements == Spec => ImplementsTaskStore
<1>1. Init => Store!Init
  BY InitRefines
<1>2. ASSUME IInv, [Next]_vars PROVE [Store!Next]_(Store!vars)
  <2> SUFFICES ASSUME Next PROVE Store!Next \/ UNCHANGED <<Contents, Opened, call, Answers>>
    <3>1. CASE UNCHANGED vars
      <4>1. UNCHANGED <<Contents, Opened, call, Answers>>
        BY <3>1 DEF vars, clientVars, runVars, Contents, TaskAt, Opened, Answers, AnswerOf
      <4> QED
        BY <4>1 DEF Store!vars
    <3> QED
      BY <1>2, <3>1 DEF Store!vars
  <2>1. CASE \E c \in Clients : Invoke(c) \/ Receive(c)
    BY <1>2, <2>1, InvokeRefines, ReceiveRefines DEF Store!Next
  <2>2. CASE Exec
    BY <1>2, <2>2, ExecRefines DEF Store!Next
  <2>3. CASE Send
    BY <1>2, <2>3, SendBufferedStutters, SendRendezvousRefines DEF Send, Store!Next
  <2>4. CASE \/ StartRun \/ TakeAction \/ CloseQuit \/ ReturnRun
             \/ (\E c \in Clients : Enqueue(c) \/ EndScan(c))
             \/ (\E s \in Stoppers : Stop(s))
    BY <1>2, <2>4, OthersStutter
  <2> QED
    BY <2>1, <2>2, <2>3, <2>4 DEF Next, Run, Client
<1> QED
  BY <1>1, <1>2, Invariance, PTL DEF Spec, ImplementsTaskStore, Store!Spec
==============================================================================
