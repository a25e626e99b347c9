--------------------------- MODULE Service_proofs ---------------------------
(***************************************************************************)
(* What TLAPS proves about the start and the end of the process, in any    *)
(* environment and with any number of open streams.                        *)
(***************************************************************************)
EXTENDS Service, TLAPS

(* The inductive invariant.  The group reads g.actors three times, and     *)
(* main may add the database before, between and after: nothing serves     *)
(* afterwards because g.actors only grows, so that whatever was executed   *)
(* is in it when it is read for the last time, and is interrupted.         *)

In(s, a) == \E i \in 1 .. Len(s) : s[i] = a

\* main adds one actor after the other, two at most before the database.
ActorsAdded ==
  /\ Len(actors) <= 3
  /\ mainPc \in {"configure", "http"} => Len(actors) = 0
  /\ mainPc = "debug" => Len(actors) = 1
  /\ mainPc \in {"group", "connect", "add", "longer", "moved"} => Len(actors) \in 1 .. 2

\* The group starts when it has an actor, makes room for its errors, and then has them
\* executed: those that it has found in g.actors.
GroupConsistent ==
  /\ mainPc \in {"configure", "http", "debug", "group"} => groupPc = "none"
  /\ mainPc = "completed" => groupPc \in {"none", "returned"}
  /\ groupPc # "none" => Len(actors) >= 1
  /\ groupPc \notin {"none", "start"} => errCap >= 1
  /\ groupPc \in {"none", "start"} => errors = 0
  /\ groupPc \in {"none", "start", "range"} => \A a \in Actors : actorPc[a] = "none"
  /\ groupPc = "execute" => \A a \in Actors : In(todo, a) => In(actors, a)
  /\ \A a \in Actors : actorPc[a] # "none" => In(actors, a)

\* A stream is opened only beside Mount or later, and none is open after Shutdown.
StreamsConsistent ==
  mainPc \notin {"mount", "select", "shutdown", "failed"} => streams = 0

\* Stop returns when Run is at rest.
StopConsistent == stopPc["group"] = "returned" => runPc \in {"closed", "returned"}

\* Whoever was executed will be interrupted by the second loop, or has been.
Interrupted ==
  /\ groupPc = "interrupt" =>
       /\ actorPc["debug"] # "none" => In(todo, "debug") \/ ~debugOpen
       /\ actorPc["db"] # "none" => In(todo, "db") \/ stopPc["group"] = "returned"
  /\ groupPc \in {"collect", "send", "returned"} =>
       /\ actorPc["debug"] # "none" => ~debugOpen
       /\ actorPc["db"] # "none" => stopPc["group"] = "returned"

IInv ==
  /\ TypeOK
  /\ ActorsAdded
  /\ GroupConsistent
  /\ StreamsConsistent
  /\ StopConsistent
  /\ Interrupted
-----------------------------------------------------------------------------
(* Sequences of actors, and what the group uses of the database.           *)

\* Append adds its argument to a sequence and nothing else ...
LEMMA InAppended ==
  ASSUME NEW s \in Seq(Actors), NEW a \in Actors
  PROVE  /\ Append(s, a) \in Seq(Actors)
         /\ Len(Append(s, a)) = Len(s) + 1
         /\ \A b : In(Append(s, a), b) <=> In(s, b) \/ a = b
<1>1. Append(s, a) \in Seq(Actors) /\ Len(Append(s, a)) = Len(s) + 1
  OBVIOUS
<1>2. ASSUME NEW b PROVE In(Append(s, a), b) <=> In(s, b) \/ a = b
  <2>1. In(s, b) => In(Append(s, a), b)
    BY DEF In
  <2>2. a = b => In(Append(s, a), b)
    <3>1. Append(s, a)[Len(s) + 1] = a /\ Len(s) + 1 \in 1 .. Len(Append(s, a))
      BY <1>1
    <3> QED
      BY <3>1 DEF In
  <2>3. In(Append(s, a), b) => In(s, b) \/ a = b
    BY DEF In
  <2> QED
    BY <2>1, <2>2, <2>3
<1> QED
  BY <1>1, <1>2

\* ... and Tail takes nothing away but the head.
LEMMA InTail ==
  ASSUME NEW s \in Seq(Actors), s # <<>>
  PROVE  /\ Head(s) \in Actors /\ Tail(s) \in Seq(Actors)
         /\ In(s, Head(s))
         /\ \A b : In(s, b) => Head(s) = b \/ In(Tail(s), b)
         /\ \A b : In(Tail(s), b) => In(s, b)
<1>1. /\ Head(s) = s[1]
      /\ Tail(s) \in Seq(Actors)
      /\ Len(Tail(s)) = Len(s) - 1
      /\ Len(s) \in Nat \ {0}
  OBVIOUS
<1>2. \A i \in 1 .. Len(s) - 1 : Tail(s)[i] = s[i + 1]
  OBVIOUS
<1>3. ASSUME NEW b, In(s, b) PROVE Head(s) = b \/ In(Tail(s), b)
  <2>1. PICK i \in 1 .. Len(s) : s[i] = b
    BY <1>3 DEF In
  <2>2. CASE i = 1
    BY <1>1, <2>1, <2>2
  <2>3. CASE i # 1
    <3>1. i - 1 \in 1 .. Len(s) - 1 /\ Tail(s)[i - 1] = b
      BY <1>1, <1>2, <2>1, <2>3
    <3> QED
      BY <1>1, <3>1 DEF In
  <2> QED
    BY <2>2, <2>3
<1>4. ASSUME NEW b, In(Tail(s), b) PROVE In(s, b)
  <2>1. PICK i \in 1 .. Len(s) - 1 : Tail(s)[i] = b
    BY <1>1, <1>4 DEF In
  <2> QED
    BY <1>1, <1>2, <2>1 DEF In
<1> QED
  BY <1>1, <1>3, <1>4 DEF In

\* Nothing is in the empty sequence.
LEMMA InNothing == \A b : ~In(<<>>, b)
BY DEF In

\* The steps of Run and of the group's call of Stop.
LEMMA DatabaseActions ==
  /\ DB!StartRun => runPc = "new" /\ runPc' = "select" /\ UNCHANGED <<stopPc, quit>>
  /\ DB!TakeQuit("group") =>
       /\ runPc = "select" /\ runPc' = "quit" /\ quit' = "group"
       /\ stopPc["group"] = "send" /\ stopPc' = [stopPc EXCEPT !["group"] = "wait"]
  /\ DB!CloseQuit => runPc = "quit" /\ runPc' = "closed" /\ UNCHANGED <<stopPc, quit>>
  /\ DB!ReturnRun => runPc = "closed" /\ runPc' = "returned" /\ UNCHANGED <<stopPc, quit>>
  /\ DB!CallStop("group") =>
       /\ stopPc["group"] = "idle" /\ stopPc' = [stopPc EXCEPT !["group"] = "send"]
       /\ UNCHANGED <<runPc, quit>>
  /\ DB!ReturnStop("group") =>
       /\ stopPc["group"] = "wait" /\ stopPc' = [stopPc EXCEPT !["group"] = "returned"]
       /\ runPc \in {"closed", "returned"} /\ UNCHANGED <<runPc, quit>>
BY DEF DB!StartRun, DB!TakeQuit, DB!CloseQuit, DB!ReturnRun, DB!CallStop, DB!ReturnStop,
       DB!stopVars, DB!runVars

-----------------------------------------------------------------------------
(* Every step keeps the invariant.                                         *)

USE MaxStreamsIsNat, LocalIsBoolean
USE DEF vars, mainVars, groupVars, serverVars, dbVars, Actors

\* The process begins in the invariant.
LEMMA InitIInv == Init => IInv
<1> SUFFICES ASSUME Init PROVE IInv
  OBVIOUS
<1>1. /\ <<>> \in Seq(Actors) /\ Len(<<>>) = 0
      /\ errors \in 0 .. errCap /\ streams \in 0 .. MaxStreams
  BY DEF Init
<1>2. TypeOK
  <2>1. actorPc \in [Actors -> ActorPcs] /\ stopPc \in [{"group"} -> DB!StopPcs]
    BY DEF Init, ActorPcs, DB!StopPcs
  <2>2. /\ mainPc \in MainPcs /\ groupPc \in GroupPcs
         /\ runPc \in DB!RunPcs /\ quit \in {"group", "nil"}
    BY DEF Init, MainPcs, GroupPcs, DB!RunPcs
  <2>3. shutdown \in 0 .. 1 /\ errCap \in 0 .. 3 /\ left \in 0 .. 2
    BY DEF Init
  <2>4. /\ actors \in Seq(Actors) /\ todo \in Seq(Actors)
         /\ listening \subseteq {"http", "debug"}
    BY <1>1 DEF Init
  <2>5. debugOpen \in BOOLEAN /\ crashed \in BOOLEAN
    BY DEF Init
  <2> QED
    BY <1>1, <2>1, <2>2, <2>3, <2>4, <2>5 DEF TypeOK
<1>3. ActorsAdded /\ GroupConsistent /\ StreamsConsistent /\ StopConsistent /\ Interrupted
  BY <1>1 DEF Init, ActorsAdded, GroupConsistent, StreamsConsistent, StopConsistent,
     Interrupted
<1> QED
  BY <1>2, <1>3 DEF IInv

USE DEF IInv, TypeOK, ActorsAdded, GroupConsistent, StreamsConsistent,
   StopConsistent, Interrupted, MainPcs, GroupPcs, ActorPcs, Alive, MainGoes, GroupGoes,
   ActorGoes, Interrupts, Torn, Serves, AddServer, DB!RunPcs, DB!StopPcs

\* Of main ...
LEMMA MainKeeps == IInv /\ Main => IInv'
<1> SUFFICES ASSUME IInv, Main PROVE IInv'
  OBVIOUS
<1>1. CASE Usage
  BY <1>1 DEF Usage
<1>2. CASE ConfigurationFails
  BY <1>2 DEF ConfigurationFails
<1>3. CASE NewApp
  BY <1>3 DEF NewApp
<1>4. CASE AddHttp
  BY <1>4, InAppended DEF AddHttp
<1>5. CASE AddDebug
  <2>1. /\ mainPc = "debug" /\ mainPc' = "group"
         /\ actors' = Append(actors, "debug") /\ Len(actors) = 1
    BY <1>5 DEF AddDebug
  <2>2. TypeOK'
    BY <1>5, <2>1, InAppended DEF AddDebug
  <2>3. ActorsAdded'
    <3>1. Len(actors') = 2
      <4>1. actors \in Seq(Actors) /\ Len(actors) = 1
        BY <2>1
      <4>2. "debug" \in Actors
        OBVIOUS
      <4>3. Len(Append(actors, "debug")) = Len(actors) + 1
        BY ONLY <4>1, <4>2, InAppended
      <4> QED
        BY ONLY <2>1, <4>1, <4>3
    <3> QED
      BY <2>1, <3>1
  <2>4. GroupConsistent' /\ StreamsConsistent' /\ StopConsistent' /\ Interrupted'
    BY <1>5, <2>1, InAppended DEF AddDebug
  <2> QED
    BY <2>2, <2>3, <2>4
<1>6. CASE StartGroup
  BY <1>6 DEF StartGroup
<1>7. CASE Connect
  BY <1>7 DEF Connect
<1>8. CASE ConnectFails
  BY <1>8 DEF ConnectFails
<1>9. CASE BeginAdd
  BY <1>9 DEF BeginAdd
<1>10. CASE EndAdd
  BY <1>10, InAppended DEF EndAdd
<1>11. CASE Mount
  BY <1>11 DEF Mount
<1>12. CASE TakeSignal
  BY <1>12 DEF TakeSignal
<1>13. CASE ShutdownDone
  BY <1>13 DEF ShutdownDone
<1>14. CASE ShutdownTimesOut
  BY <1>14 DEF ShutdownTimesOut
<1>15. CASE TakeResult
  BY <1>15 DEF TakeResult
<1> QED
  BY <1>1, <1>2, <1>3, <1>4, <1>5, <1>6, <1>7, <1>8, <1>9, <1>10, <1>11, <1>12, <1>13,
     <1>14, <1>15 DEF Main

\* ... of the group ...
LEMMA GroupKeeps == IInv /\ Group => IInv'
<1> SUFFICES ASSUME IInv, Group PROVE IInv'
  OBVIOUS
<1>1. CASE MakeErrors
  <2>1. errCap' \in 1 .. 3 /\ errors = 0
    <3>1. groupPc = "start" /\ errCap' = IF Torn THEN Len(actors) + 1 ELSE Len(actors)
      BY <1>1 DEF MakeErrors
    <3>2. Len(actors) \in Nat /\ Len(actors) >= 1 /\ Len(actors) <= 3 /\ errors = 0
      BY <3>1
    <3>3. mainPc = "longer" => Len(actors) <= 2
      BY <3>2
    <3>4. errCap' \in 1 .. 3
      <4>1. CASE mainPc = "longer"
        BY ONLY <3>1, <3>2, <3>3, <4>1 DEF Torn
      <4>2. CASE mainPc # "longer"
        BY ONLY <3>1, <3>2, <4>2 DEF Torn
      <4> QED
        BY <4>1, <4>2
    <3> QED
      BY <3>2, <3>4
  <2>2. TypeOK'
    BY <1>1, <2>1 DEF MakeErrors
  <2>3. ActorsAdded' /\ GroupConsistent'
    BY <1>1, <2>1 DEF MakeErrors
  <2>4. StreamsConsistent' /\ StopConsistent' /\ Interrupted'
    BY <1>1, <2>1 DEF MakeErrors
  <2> QED
    BY <2>2, <2>3, <2>4
<1>2. CASE RangeToExecute
  BY <1>2 DEF RangeToExecute
<1>3. CASE Execute
  BY <1>3, InTail DEF Execute
<1>4. CASE FirstError
  BY <1>4, InNothing DEF FirstError
<1>5. CASE RangeToInterrupt
  BY <1>5 DEF RangeToInterrupt
<1>6. CASE TornRead
  BY <1>6 DEF TornRead
<1>7. CASE InterruptHttp
  BY <1>7, InTail DEF InterruptHttp
<1>8. CASE InterruptDebug
  <2>1. CASE "debug" \in listening
    <3>1. debugOpen' = FALSE /\ todo' = Tail(todo) /\ todo # <<>> /\ Head(todo) = "debug"
      BY <1>8, <2>1 DEF InterruptDebug
    <3>2. UNCHANGED <<mainVars, groupPc, errCap, errors, left, actorPc,
                    listening, streams, crashed, dbVars>>
      BY <1>8, <2>1 DEF InterruptDebug
    <3>3. \A b : In(todo, b) => b = "debug" \/ In(todo', b)
      BY <3>1, InTail
    <3>4. todo' \in Seq(Actors)
      BY <3>1, InTail
    <3>5. TypeOK'
      <4>1. debugOpen' \in BOOLEAN /\ crashed' \in BOOLEAN
        BY <3>1, <3>2
      <4>2. errors' \in 0 .. errCap' /\ left' \in 0 .. 2 /\ errCap' \in 0 .. 3
        BY <3>2
      <4>3. /\ mainPc' \in MainPcs /\ groupPc' \in GroupPcs
             /\ shutdown' \in 0 .. 1 /\ actors' \in Seq(Actors)
        BY <3>2
      <4>4. /\ actorPc' \in [Actors -> ActorPcs]
             /\ listening' \subseteq {"http", "debug"} /\ streams' \in 0 .. MaxStreams
        BY <3>2
      <4>5. /\ runPc' \in DB!RunPcs /\ stopPc' \in [{"group"} -> DB!StopPcs]
             /\ quit' \in {"group", "nil"}
        BY <3>2
      <4> QED
        BY <3>4, <4>1, <4>2, <4>3, <4>4, <4>5
    <3>6. GroupConsistent'
      <4>1. groupPc = "interrupt" /\ UNCHANGED <<mainPc, groupPc, actors, errCap, actorPc>>
        BY <1>8, <3>2 DEF InterruptDebug
      <4> QED
        BY <4>1
    <3>7. ActorsAdded' /\ StreamsConsistent' /\ StopConsistent'
      BY <3>1, <3>2
    <3>8. Interrupted'
      BY <1>8, <3>1, <3>2, <3>3
    <3> QED
      BY <3>5, <3>6, <3>7, <3>8
  <2>2. CASE "debug" \notin listening
    <3>1. crashed' = TRUE /\ UNCHANGED <<debugOpen, todo>>
      BY <1>8, <2>2 DEF InterruptDebug
    <3> QED
      BY <1>8, <3>1 DEF InterruptDebug
  <2> QED
    BY <2>1, <2>2
<1>9. CASE InterruptDatabase
  BY <1>9, DatabaseActions DEF InterruptDatabase
<1>10. CASE DatabaseStopped
  BY <1>10, InTail, DatabaseActions DEF DatabaseStopped
<1>11. CASE AllInterrupted
  BY <1>11, InNothing DEF AllInterrupted
<1>12. CASE NextError
  BY <1>12 DEF NextError
<1>13. CASE RunReturns
  BY <1>13 DEF RunReturns
<1> QED
  BY <1>1, <1>2, <1>3, <1>4, <1>5, <1>6, <1>7, <1>8, <1>9, <1>10, <1>11, <1>12, <1>13 DEF
     Group

\* ... of the database's goroutine, in which nothing but Run moves ...
LEMMA TheDatabaseKeeps == IInv /\ TheDatabase => IInv'
<1> SUFFICES ASSUME IInv, TheDatabase PROVE IInv'
  OBVIOUS
<1>1. CASE DatabaseSteps
  BY <1>1, DatabaseActions DEF DatabaseSteps
<1>2. CASE DatabaseReturns
  BY <1>2, DatabaseActions DEF DatabaseReturns
<1> QED
  BY <1>1, <1>2 DEF TheDatabase

\* ... of the world outside, which opens streams only for a server that serves ...
LEMMA WorldKeeps == IInv /\ World => IInv'
<1> SUFFICES ASSUME IInv, World PROVE IInv'
  OBVIOUS
<1>1. CASE Signal
  <2>1. shutdown' \in 0 .. 1 /\ crashed' \in BOOLEAN
    <3>1. CASE crashed' = TRUE /\ shutdown' = shutdown
      BY <3>1
    <3>2. CASE shutdown' = 1 /\ crashed' = crashed
      BY <3>2
    <3> QED
      BY <1>1, <3>1, <3>2 DEF Signal
  <2> QED
    BY <1>1, <2>1 DEF Signal
<1>2. CASE MountRaces
  BY <1>2 DEF MountRaces
<1>3. CASE OpenStream
  BY <1>3 DEF OpenStream
<1>4. CASE CloseStream
  BY <1>4 DEF CloseStream
<1> QED
  BY <1>1, <1>2, <1>3, <1>4 DEF World

\* ... and of an actor's goroutine, which leaves main and the group where they are.
LEMMA ActorKeeps == ASSUME IInv, NEW a \in Actors, Actor(a) \/ ServeFails(a) PROVE IInv'
<1>1. CASE ServePanics(a)
  BY <1>1 DEF ServePanics
<1>2. CASE ServeEnds(a)
  BY <1>2 DEF ServeEnds
<1>3. CASE ServeFails(a)
  BY <1>3 DEF ServeFails
<1>4. CASE Report(a)
  BY <1>4 DEF Report
<1> QED
  BY <1>1, <1>2, <1>3, <1>4 DEF Actor

HIDE DEF IInv, TypeOK, ActorsAdded, GroupConsistent, StreamsConsistent,
   StopConsistent, Interrupted, MainPcs, GroupPcs, ActorPcs, Alive, MainGoes, GroupGoes,
   ActorGoes, Interrupts, Torn, Serves, AddServer, DB!RunPcs, DB!StopPcs

\* So the invariant always holds.
LEMMA Inductive == Spec => []IInv
<1>1. IInv /\ [Next]_vars => IInv'
  <2> SUFFICES ASSUME IInv, [Next]_vars PROVE IInv'
    OBVIOUS
  <2>1. CASE UNCHANGED vars
    BY <2>1 DEF IInv, TypeOK, ActorsAdded, GroupConsistent, StreamsConsistent,
       StopConsistent, Interrupted
  <2>2. CASE Next
    BY <2>2, MainKeeps, GroupKeeps, TheDatabaseKeeps, WorldKeeps, ActorKeeps DEF Next
  <2> QED
    BY <2>1, <2>2
<1> QED
  BY InitIInv, <1>1, PTL DEF Spec

-----------------------------------------------------------------------------
(* What holds of every behaviour.                                          *)

\* Every variable keeps its type, and neither shutdown nor errors, the two buffered
\* channels, ever holds more than its capacity (example-service.go:157, group.go:32).
THEOREM TypeCorrect == Spec => []TypeOK
<1>1. IInv => TypeOK
  BY DEF IInv
<1> QED
  BY Inductive, <1>1, PTL

\* When start has returned the group's result no request is open, the debug server's
\* listener is closed and the database is at rest, however the reads of g.actors and
\* its growth were interleaved (example-service.go:307-317, group.go:45-53).
THEOREM NothingIsLeftServing == Spec => []NothingServesAfter
<1>1. IInv => NothingServesAfter
  <2> SUFFICES ASSUME IInv, mainPc = "completed"
               PROVE  /\ streams = 0
                      /\ actorPc["debug"] = "serve" => ~debugOpen
                      /\ actorPc["db"] # "none" => runPc \in {"closed", "returned"}
    BY DEF NothingServesAfter
  <2>1. streams = 0
    BY DEF IInv, StreamsConsistent
  <2>2. CASE groupPc = "none"
    BY <2>1, <2>2 DEF IInv, GroupConsistent
  <2>3. CASE groupPc = "returned"
    BY <2>1, <2>3 DEF IInv, Interrupted, StopConsistent
  <2> QED
    BY <2>2, <2>3 DEF IInv, GroupConsistent
<1> QED
  BY Inductive, <1>1, PTL
=============================================================================
