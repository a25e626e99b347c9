------------------------------ MODULE Service ------------------------------
(***************************************************************************)
(* Start and end of the process: start() of example-service.go, the run    *)
(* group it starts in a goroutine, and the actors of that group: the HTTP  *)
(* server, in a local environment the debug server, and the database.      *)
(*                                                                         *)
(* main adds the database to the group while the group runs.  g.actors is  *)
(* not protected.  append writes a slice with a longer array: its length   *)
(* and its array one after the other, in the order of the build.           *)
(*                                                                         *)
(* The database is the one of module Database, of which nothing but Run    *)
(* and Stop is used: src/ has no caller of its four operations.            *)
(***************************************************************************)
EXTENDS Naturals, Sequences

CONSTANTS
  Local,      \* whether the environment is local, and has the debug server
  MaxStreams  \* bound on the requests to /stream that are open

ASSUME LocalIsBoolean == Local \in BOOLEAN
ASSUME MaxStreamsIsNat == MaxStreams \in Nat

VARIABLES
  mainPc,     \* where start() is
  shutdown,   \* how many values the channel shutdown of capacity 1 holds
  actors,     \* g.actors
  groupPc,    \* where g.Run() is
  todo,       \* the actors that its present loop has yet to see
  errCap,     \* cap(errors)
  errors,     \* how many errors the channel errors holds
  left,       \* how many more it waits for
  actorPc,    \* where the goroutine of each actor is
  listening,  \* the servers whose net.Listen succeeded
  debugOpen,  \* whether the debug server's listener is open
  streams,    \* how many requests to /stream are open
  crashed,    \* whether a panic, the runtime or a signal has ended the process
  runPc,      \* where Database.Run is
  stopPc,     \* where the group's call of Database.Stop is
  quit        \* whether Run has taken its quit request

mainVars == <<mainPc, shutdown, actors>>
groupVars == <<groupPc, todo, errCap, errors, left>>
serverVars == <<listening, debugOpen, streams>>
dbVars == <<runPc, stopPc, quit>>
vars == <<mainVars, groupVars, actorPc, serverVars, crashed, dbVars>>

Actors == {"http", "debug", "db"}

DB ==
  INSTANCE Database WITH
    Clients <- {}, Stoppers <- {"group"}, Ops <- {}, ActionCap <- 1000,
    PartitionKeys <- {}, SortKeys <- {}, Tasks <- {}, Nil <- "nil",
    Schedule <- <<>>, actionCh <- <<>>, pc <- <<>>, call <- <<>>, held <- <<>>,
    mailbox <- <<>>, reader <- "nil", sends <- <<>>

Init ==
  /\ mainPc = "configure"
  /\ shutdown = 0
  /\ actors = <<>>
  /\ groupPc = "none"
  /\ todo = <<>>
  /\ errCap = 0
  /\ errors = 0
  /\ left = 0
  /\ actorPc = [a \in Actors |-> "none"]
  /\ listening = {}
  /\ debugOpen = TRUE
  /\ streams = 0
  /\ crashed = FALSE
  /\ runPc = "new"
  /\ stopPc = [s \in {"group"} |-> "idle"]
  /\ quit = "nil"

\* os.Exit and a panic end every goroutine.
Alive == ~crashed /\ mainPc \notin {"completed", "failed"}

MainGoes(from, to) == Alive /\ mainPc = from /\ mainPc' = to
GroupGoes(from, to) == Alive /\ groupPc = from /\ groupPc' = to
ActorGoes(a, from, to) == Alive /\ actorPc[a] = from /\ actorPc' = [actorPc EXCEPT ![a] = to]

-----------------------------------------------------------------------------
(* main.                                                                   *)

\* Help or the version was asked for, and printed.
Usage ==
  /\ MainGoes("configure", "completed")
  /\ UNCHANGED <<shutdown, actors, groupVars, actorPc, serverVars, crashed, dbVars>>

\* The configuration cannot be parsed, or printed.
ConfigurationFails ==
  /\ MainGoes("configure", "failed")
  /\ UNCHANGED <<shutdown, actors, groupVars, actorPc, serverVars, crashed, dbVars>>

\* signal.Notify, and web.NewApp with a mux that has no routes.
NewApp ==
  /\ MainGoes("configure", "http")
  /\ UNCHANGED <<shutdown, actors, groupVars, actorPc, serverVars, crashed, dbVars>>

\* g.Add(a), whose net.Listen may have failed.
AddServer(a) ==
  /\ actors' = Append(actors, a)
  /\ listening' \in {listening, listening \cup {a}}
  /\ UNCHANGED <<shutdown, groupVars, actorPc, debugOpen, streams, crashed, dbVars>>

AddHttp == MainGoes("http", IF Local THEN "debug" ELSE "group") /\ AddServer("http")
AddDebug == MainGoes("debug", "group") /\ AddServer("debug")

\* go func() { errGroup <- g.Run() }()
StartGroup ==
  /\ MainGoes("group", "connect")
  /\ GroupGoes("none", "start")
  /\ UNCHANGED <<shutdown, actors, todo, errCap, errors, left, actorPc, serverVars, crashed, dbVars>>

Connect ==
  /\ MainGoes("connect", "add")
  /\ UNCHANGED <<shutdown, actors, groupVars, actorPc, serverVars, crashed, dbVars>>

\* broker.NewClient fails: start returns the error and the process exits.
ConnectFails ==
  /\ MainGoes("connect", "failed")
  /\ UNCHANGED <<shutdown, actors, groupVars, actorPc, serverVars, crashed, dbVars>>

\* g.Add(database): the length of g.actors is written first, or its array ...
BeginAdd ==
  /\ MainGoes("add", "longer") \/ MainGoes("add", "moved")
  /\ UNCHANGED <<shutdown, actors, groupVars, actorPc, serverVars, crashed, dbVars>>

\* ... and then the other.
EndAdd ==
  /\ MainGoes("longer", "mount") \/ MainGoes("moved", "mount")
  /\ actors' = Append(actors, "db")
  /\ UNCHANGED <<shutdown, groupVars, actorPc, serverVars, crashed, dbVars>>

Mount ==
  /\ MainGoes("mount", "select")
  /\ UNCHANGED <<shutdown, actors, groupVars, actorPc, serverVars, crashed, dbVars>>

\* The HTTP server takes requests.
Serves == actorPc["http"] = "serve" /\ "http" \in listening

\* A request that comes while Mount writes a map of the routing tree may end the process:
\* module Routing has the details.
MountRaces ==
  /\ Alive
  /\ mainPc = "mount" /\ Serves
  /\ crashed' = TRUE
  /\ UNCHANGED <<mainVars, groupVars, actorPc, serverVars, dbVars>>

\* case sig := <-shutdown, and the start of httpServer.Shutdown, which closes the
\* listener.  Nobody sends on serverErrors.
TakeSignal ==
  /\ shutdown > 0
  /\ MainGoes("select", "shutdown")
  /\ shutdown' = shutdown - 1
  /\ UNCHANGED <<actors, groupVars, actorPc, serverVars, crashed, dbVars>>

InShutdown == mainPc \in {"shutdown", "wait", "completed"}

ShutdownDone_Early ==
  /\ MainGoes("shutdown", "wait")
  /\ UNCHANGED <<shutdown, actors, groupVars, actorPc, serverVars, crashed, dbVars>>

\* Shutdown returns once no request is open ...
ShutdownDone ==
  /\ streams = 0
  /\ MainGoes("shutdown", "wait")
  /\ UNCHANGED <<shutdown, actors, groupVars, actorPc, serverVars, crashed, dbVars>>

ShutdownTimesOut_Never ==
  /\ streams > 0
  /\ MainGoes("shutdown", "shutdown")
  /\ UNCHANGED vars

\* ... or with an error after 20 s: start returns it.
ShutdownTimesOut ==
  /\ streams > 0
  /\ MainGoes("shutdown", "failed")
  /\ UNCHANGED <<shutdown, actors, groupVars, actorPc, serverVars, crashed, dbVars>>

\* <-errGroup
TakeResult ==
  /\ MainGoes("wait", "completed")
  /\ GroupGoes("send", "returned")
  /\ UNCHANGED <<shutdown, actors, todo, errCap, errors, left, actorPc, serverVars, crashed, dbVars>>

-----------------------------------------------------------------------------
(* The group's goroutine.                                                  *)

\* A reader of g.actors finds the new length with the old array, beyond whose end
\* there is no actor to call.  With the new array and the old length it finds the
\* actors that it would have found before.
Torn == mainPc = "longer"

TornRead ==
  /\ Alive
  /\ Torn
  /\ groupPc \in {"range", "again"}
  /\ crashed' = TRUE
  /\ UNCHANGED <<mainVars, groupVars, actorPc, serverVars, dbVars>>

\* errors := make(chan error, len(g.actors))
MakeErrors ==
  /\ GroupGoes("start", "range")
  /\ errCap' = IF Torn THEN Len(actors) + 1 ELSE Len(actors)
  /\ UNCHANGED <<mainVars, todo, errors, left, actorPc, serverVars, crashed, dbVars>>

\* The first loop over g.actors ...
RangeToExecute ==
  /\ GroupGoes("range", "execute")
  /\ ~Torn
  /\ todo' = actors
  /\ UNCHANGED <<mainVars, errCap, errors, left, actorPc, serverVars, crashed, dbVars>>

\* ... starts a goroutine for each.
Execute ==
  /\ groupPc = "execute"
  /\ todo # <<>>
  /\ ActorGoes(Head(todo), "none", "serve")
  /\ todo' = Tail(todo)
  /\ UNCHANGED <<mainVars, groupPc, errCap, errors, left, serverVars, crashed, dbVars>>

\* err := <-errors
FirstError ==
  /\ todo = <<>>
  /\ errors > 0
  /\ GroupGoes("execute", "again")
  /\ errors' = errors - 1
  /\ UNCHANGED <<mainVars, todo, errCap, left, actorPc, serverVars, crashed, dbVars>>

\* The second loop over g.actors interrupts each.
RangeToInterrupt ==
  /\ GroupGoes("again", "interrupt")
  /\ ~Torn
  /\ todo' = actors
  /\ UNCHANGED <<mainVars, errCap, errors, left, actorPc, serverVars, crashed, dbVars>>

Interrupts(a) == Alive /\ groupPc = "interrupt" /\ todo # <<>> /\ Head(todo) = a

InterruptHttp_Skipped ==
  /\ Interrupts("http")
  /\ todo' = Tail(todo)
  /\ UNCHANGED <<mainVars, groupPc, errCap, errors, left, actorPc, serverVars, crashed, dbVars>>

\* shutdown <- os.Interrupt, which blocks while the channel is full
InterruptHttp ==
  /\ Interrupts("http")
  /\ shutdown = 0
  /\ shutdown' = 1
  /\ todo' = Tail(todo)
  /\ UNCHANGED <<mainPc, actors, groupPc, errCap, errors, left, actorPc, serverVars, crashed, dbVars>>

\* ln.Close(), of a listener that is nil when net.Listen failed
InterruptDebug ==
  /\ Interrupts("debug")
  /\ \/ /\ "debug" \in listening
        /\ debugOpen' = FALSE
        /\ todo' = Tail(todo)
        /\ UNCHANGED crashed
     \/ /\ "debug" \notin listening
        /\ crashed' = TRUE
        /\ UNCHANGED <<debugOpen, todo>>
  /\ UNCHANGED <<mainVars, groupPc, errCap, errors, left, actorPc, listening, streams, dbVars>>

\* database.Stop() is called ...
InterruptDatabase ==
  /\ Interrupts("db")
  /\ DB!CallStop("group")
  /\ UNCHANGED <<mainVars, groupVars, actorPc, serverVars, crashed>>

\* ... and returns.
DatabaseStopped ==
  /\ Interrupts("db")
  /\ DB!ReturnStop("group")
  /\ todo' = Tail(todo)
  /\ UNCHANGED <<mainVars, groupPc, errCap, errors, left, actorPc, serverVars, crashed>>

AllInterrupted_FromZero ==
  /\ todo = <<>>
  /\ GroupGoes("interrupt", "collect")
  /\ left' = errCap
  /\ UNCHANGED <<mainVars, todo, errCap, errors, actorPc, serverVars, crashed, dbVars>>

\* for i := 1; i < cap(errors); i++
AllInterrupted ==
  /\ todo = <<>>
  /\ GroupGoes("interrupt", "collect")
  /\ left' = errCap - 1
  /\ UNCHANGED <<mainVars, todo, errCap, errors, actorPc, serverVars, crashed, dbVars>>

NextError ==
  /\ Alive
  /\ groupPc = "collect"
  /\ left > 0
  /\ errors > 0
  /\ errors' = errors - 1
  /\ left' = left - 1
  /\ UNCHANGED <<mainVars, groupPc, todo, errCap, actorPc, serverVars, crashed, dbVars>>

\* errGroup <- g.Run()
RunReturns ==
  /\ left = 0
  /\ GroupGoes("collect", "send")
  /\ UNCHANGED <<mainVars, todo, errCap, errors, left, actorPc, serverVars, crashed, dbVars>>

-----------------------------------------------------------------------------
(* The actors.                                                             *)

\* Serve panics when it is given no listener.
ServePanics(a) ==
  /\ Alive
  /\ actorPc[a] = "serve"
  /\ a \in {"http", "debug"} \ listening
  /\ crashed' = TRUE
  /\ UNCHANGED <<mainVars, groupVars, actorPc, serverVars, dbVars>>

\* Serve returns because its listener was closed ...
ServeEnds(a) ==
  /\ a \in listening
  /\ (a = "http" /\ InShutdown) \/ (a = "debug" /\ ~debugOpen)
  /\ ActorGoes(a, "serve", "exit")
  /\ UNCHANGED <<mainVars, groupVars, serverVars, crashed, dbVars>>

\* ... or because accepting a connection failed.
ServeFails(a) ==
  /\ a \in listening
  /\ ActorGoes(a, "serve", "exit")
  /\ UNCHANGED <<mainVars, groupVars, serverVars, crashed, dbVars>>

\* The goroutine of the database runs Database.Run.
DatabaseSteps ==
  /\ Alive
  /\ actorPc["db"] = "serve"
  /\ DB!StartRun \/ DB!TakeQuit("group") \/ DB!CloseQuit
  /\ UNCHANGED <<mainVars, groupVars, actorPc, serverVars, crashed>>

DatabaseReturns ==
  /\ ActorGoes("db", "serve", "exit")
  /\ DB!ReturnRun
  /\ UNCHANGED <<mainVars, groupVars, serverVars, crashed>>

\* errors <- a.execute()
Report(a) ==
  /\ errors < errCap
  /\ ActorGoes(a, "exit", "returned")
  /\ errors' = errors + 1
  /\ UNCHANGED <<mainVars, groupPc, todo, errCap, left, serverVars, crashed, dbVars>>

-----------------------------------------------------------------------------
(* The world outside.                                                      *)

\* Before signal.Notify a signal ends the process.  A later one that finds the channel
\* full is dropped.
Signal ==
  /\ Alive
  /\ \/ mainPc = "configure" /\ crashed' = TRUE /\ UNCHANGED shutdown
     \/ mainPc # "configure" /\ shutdown = 0 /\ shutdown' = 1 /\ UNCHANGED crashed
  /\ UNCHANGED <<mainPc, actors, groupVars, actorPc, serverVars, dbVars>>

\* On a connection that was accepted, which Shutdown does not close at once.
OpenStream ==
  /\ Alive
  /\ mainPc \in {"mount", "select", "shutdown"}
  /\ actorPc["http"] # "none" /\ "http" \in listening
  /\ streams < MaxStreams
  /\ streams' = streams + 1
  /\ UNCHANGED <<mainVars, groupVars, actorPc, listening, debugOpen, crashed, dbVars>>

\* A client leaves.
CloseStream ==
  /\ Alive
  /\ streams > 0
  /\ streams' = streams - 1
  /\ UNCHANGED <<mainVars, groupVars, actorPc, listening, debugOpen, crashed, dbVars>>

-----------------------------------------------------------------------------

Main ==
  Usage \/ ConfigurationFails \/ NewApp \/ AddHttp \/ AddDebug \/ StartGroup
    \/ Connect \/ ConnectFails \/ BeginAdd \/ EndAdd \/ Mount \/ TakeSignal
    \/ ShutdownDone \/ ShutdownTimesOut \/ TakeResult
Group ==
  MakeErrors \/ RangeToExecute \/ Execute \/ FirstError \/ RangeToInterrupt \/ TornRead
    \/ InterruptHttp \/ InterruptDebug \/ InterruptDatabase \/ DatabaseStopped
    \/ AllInterrupted \/ NextError \/ RunReturns
Actor(a) == ServePanics(a) \/ ServeEnds(a) \/ Report(a)
TheDatabase == DatabaseSteps \/ DatabaseReturns
World == Signal \/ MountRaces \/ OpenStream \/ CloseStream

Next ==
  \/ Main
  \/ Group
  \/ TheDatabase
  \/ World
  \/ \E a \in Actors : Actor(a) \/ ServeFails(a)

Spec == Init /\ [][Next]_vars

(* Goroutines that can run do run, and the timer of Shutdown fires.        *)
(* Signals, clients and failures come when they like.                      *)
Fairness ==
  /\ WF_vars(Main)
  /\ WF_vars(Group)
  /\ WF_vars(TheDatabase)
  /\ \A a \in Actors : WF_vars(Actor(a))

FairSpec == Spec /\ Fairness

-----------------------------------------------------------------------------
(* Properties.                                                             *)

MainPcs ==
  {"configure", "http", "debug", "group", "connect", "add", "longer", "moved", "mount",
   "select", "shutdown", "wait", "completed", "failed"}
GroupPcs ==
  {"none", "start", "range", "execute", "again", "interrupt", "collect", "send", "returned"}
ActorPcs == {"none", "serve", "exit", "returned"}

\* Every variable keeps its type, and both channels their capacity.
TypeOK ==
  /\ mainPc \in MainPcs
  /\ shutdown \in 0 .. 1
  /\ actors \in Seq(Actors)
  /\ groupPc \in GroupPcs
  /\ todo \in Seq(Actors)
  /\ errCap \in 0 .. 3
  /\ errors \in 0 .. errCap
  /\ left \in 0 .. 2
  /\ actorPc \in [Actors -> ActorPcs]
  /\ listening \subseteq {"http", "debug"}
  /\ debugOpen \in BOOLEAN
  /\ streams \in 0 .. MaxStreams
  /\ crashed \in BOOLEAN
  /\ runPc \in DB!RunPcs
  /\ stopPc \in [{"group"} -> DB!StopPcs]
  /\ quit \in {"group", "nil"}

\* When start returns the group's result nothing serves any more: no request is
\* open, the debug server's listener is closed and the database is at rest,
\* whatever the group saw of g.actors (example-service.go:311-317, group.go:45-53).
NothingServesAfter ==
  mainPc = "completed" =>
    /\ streams = 0
    /\ actorPc["debug"] = "serve" => ~debugOpen
    /\ actorPc["db"] # "none" => runPc \in {"closed", "returned"}

\* The group waits in Stop for a Run that it has never executed, because it read
\* g.actors for the first time before the database was added.
StopsWhatNeverRan ==
  groupPc = "interrupt" /\ stopPc["group"] = "send" /\ actorPc["db"] = "none"

\* The group sends on shutdown, which a second signal has filled, and main does
\* not receive from it any more.
NobodyReceives == Interrupts("http") /\ shutdown = 1 /\ mainPc = "wait"

\* Once main has begun to shut down, only these two hazards keep the process from
\* ending (example-service.go:307-317): an open stream does not, nor does any
\* other order of the group's, the actors' and the outside's steps.
OnlyTwoHangs == mainPc = "shutdown" ~> ~Alive \/ StopsWhatNeverRan \/ NobodyReceives

\* A server that fails brings the service down: main learns of it, through the
\* interrupt of the HTTP server if not by a signal ("to trigger shutdown",
\* example-service.go:162, 169-171).
FailureEndsService ==
  actorPc["http"] = "exit" \/ actorPc["debug"] = "exit" ~> InShutdown \/ ~Alive

\* "Give outstanding requests a deadline for completion" (example-service.go:307): a
\* shutdown that has begun ends the process, if no second signal comes in its way.
ShutdownCompletes == mainPc = "shutdown" ~> ~Alive \/ NobodyReceives
=============================================================================
