# TLA+ models of example-service

TLA+ models of the concurrent parts of `rumsrami/example-service` (Go), the TLC
configurations that check them, and TLAPS proofs about them. Paths are relative to `src/`;
the short names are

| short name | file |
|---|---|
| `db.go` | `internal/db/db.go` |
| `handlers.go`, `chat.go` | `cmd/example-service/internal/handlers/` |
| `client.go`, `broker.go` | `internal/platform/broker/` |
| `example-service.go` | `cmd/example-service/example-service.go` |
| `group.go` | `vendor/github.com/oklog/run/group.go` |
| `nats.go` | `vendor/github.com/nats-io/nats.go/nats.go` |
| `chat.gen.go` | `internal/proto/chat.gen.go` |
| `app.go`, `web.go` | `cmd/example-service/internal/handlers/app.go`, `internal/platform/web/web.go` |
| `mux.go`, `tree.go`, `chain.go` | `vendor/github.com/go-chi/chi/` |

## 1. The system

The program is an HTTP service with two interfaces: a JSON RPC (`/rpc/Chat/...`,
generated from a WebRPC schema) and `/stream`, which forwards the messages of a user's NATS
subject to a browser as server-sent events. It holds an in-memory task database. A run
group starts and ends its long-lived parts.

| component | state | operations | modelled |
|---|---|---|---|
| in-memory database (`db.go`) | the nested map `Schedule`, `actionCh` (capacity 1000), `quitCh`, a reply channel or two per call | `Run`, `Stop`, `CreateTask`, `DeleteTask`, `ReadTask`, `ReadSchedule` | yes |
| event streaming (`handlers.go`, `chat.go`, `client.go`) | per request: its context, `brokerMessageChan` (512), `brokerErrCh`, three goroutines | `Handler.Stream`, `streamer.start`, `Client.Sub` | yes, but for `Pub` |
| NATS client library (`nats.go`), as far as streaming uses it | per subscription a pending list (65536) and a goroutine that calls the callback | `Subscribe`, `Unsubscribe`, `processMsg`, `waitForMsgs`, the final `close` | that part |
| service lifecycle (`example-service.go`, `group.go`) | `g.actors`, `shutdown` (1), `errors`, `errGroup`, the listeners | configuration, listeners, `Group.Add`, `Group.Run`, execute and interrupt of three actors, graceful shutdown | yes |
| HTTP routing and middleware (`app.go`, `web.go`, `mux.go`, `tree.go`) | the mux: its middlewares, its handler, its radix tree of routes | `Mount`, `Use`, `Group`, `InsertRoute`, `ServeHTTP`, `FindRoute` | all but headers and unused patterns |
| WebRPC server and client (`chat.gen.go`, `internal/rpc/rpc.go`) | none between calls | routing, decoding, recovery, mapping of errors to statuses and back, request headers | all but texts |
| configuration, logging (`main.go`, `slacklog.go`) | none | parsing flags, log output | no: I/O |
| TypeScript client, schema, deployment | | | no: not part of the Go program |

How they interact. The database is a single goroutine that runs closures: a caller sends a
closure on `actionCh` and waits in a `select` on reply channels which the closure sends on.
`/stream` is a chain: NATS read loop → pending list → callback goroutine →
`brokerMessageChan` → handler → response writer, with the request's context as the one thing
that ends it. The run group couples everything: the first actor to end makes it interrupt
all others, and main waits for it at the end. Nothing in `src/` calls the database's four
operations (the RPC methods are stubs), so the database meets the rest in `Run` and `Stop`
only. The HTTP server has its mux before the mux has its routes: the group starts to serve,
and main then connects to NATS and mounts the routes, with no lock between the two.

What is hard in it, and what would make each part correct:

* *Database.* The reply channels of `DeleteTask` and `ReadTask` are unbuffered, so each send
  of a closure needs its caller; the closures send in several places and some have no
  `return` after a send. `ReadSchedule` returns the live inner map. `Stop` is a rendezvous
  with `Run`. Right: every call is atomic and answered once; `Run` serves until stopped;
  after `Stop` nothing changes; the map is used by `Run` alone.
* *Streaming.* Four goroutines share two channels and a context; after a disconnect two of
  them drain the same channel; `Sub` closes a channel that somebody else sends on; a client
  that stops reading blocks the chain. Right: no message of a present client is lost,
  repeated or reordered; memory stays bounded; everything is cleaned up after a disconnect;
  a refused or broken subscription ends its request; no panic.
* *Lifecycle.* The database is added to the group after the group was started in another
  goroutine; a listener may be nil; `shutdown` has room for one value and is both the
  signals' and the interrupts' channel; open streams hold up `Shutdown`. Right: failures
  bring the service down, a shutdown ends, and nothing goes on serving after it.
* *Routing.* Requests read the middlewares, the handler and the radix tree while `Mount` writes
  them: nodes are split, children sorted, maps filled, an interface of two words stored.
  Right: no request ever gets round the middlewares or to a wrong route; once mounted, the tree
  says what the table of routes says.
* *WebRPC.* Error codes map to statuses and back, and a code for "none" exists; contexts are
  looked at between the steps of a request. Right: an error of the server is an error of
  the client, with its code.

The hazards, each at its line and with the properties that watch it, are in `PROJECT.json`.

## 2. Modules

| module | what it is |
|---|---|
| `TaskCalls` | the calls of the database's four operations and their replies |
| `TaskStore` | abstract specification of the database: atomic calls |
| `Database` | `db.go`, with its properties |
| `MCDatabase` | model values, sets of operations and symmetry for TLC |
| `Database_proofs`, `Database_refinement` | proofs about `Database` |
| `Delivery` | abstract specification of one stream: a prefix, in order, once |
| `Stream` | `handlers.go`, `chat.go`, `client.go` and the library under them |
| `MessageSequences` | lemmas on concatenation of sequences |
| `Stream_proofs` | proofs about `Stream` |
| `Service` | `example-service.go` and `group.go`, composed with `Run` and `Stop` of `Database` |
| `Service_proofs` | proofs about `Service` |
| `RemoteCall` | abstract specification of a remote call: run at most once, told once |
| `WebRPC` | one remote call through client and server of `chat.gen.go` |
| `WebRPC_proofs` | proofs about `WebRPC` |
| `Routing` | `app.go` and chi: `Mount` beside the lookup of a request |
| `HttpServer` | `Routing` in front of `WebRPC` |
| `Routing_proofs` | proofs about `Routing` |
| `MCHttpServer` | the paths of requests for TLC |
| `HttpServer_proofs` | that this front is one that `WebRPC` allows, and what is proved of either behind it |

### Database

`Schedule` is the nested map, a partition without inner map being `Nil`. The closures in
`actionCh` are named by their callers. `pc`, `call` and `mailbox` are a caller's place, its
arguments and what its buffered reply channel holds; `runPc`, `reader` and `sends` are Run's
place, the caller whose closure it runs, and the sends that this closure has yet to do.
Each operation is `Invoke` (entry), `Enqueue` (`d.actionCh <-`), the closure, and the
caller's `select`. A closure is one action for its map accesses (`RunCreateTask` and so on)
and one per send: `SendBuffered` puts the reply in the mailbox and `Receive` takes it,
`SendRendezvous` needs the caller in its `select`. `reader = Nil` with sends left is a send
to a caller that has gone. `RunReadTask` shows it: all of the closure's sends are listed, also
those that follow for want of a `return`. `held` marks the caller that reads the map which
`ReadSchedule` gave it. `CallStop`, `TakeQuit`, `CloseQuit`, `ReturnStop` and `ReturnRun` are
the two sides of the quit protocol.

### Stream

Per request `s`: four program counters, the context (`ctxDone`), the channel (`msgCh`,
`chClosed`), the error channel (`errCh`), the message that the handler or the callback holds
(`hand`, `cbHand`), the pending list, and the history of what was `accepted` and `wrote`.
A message is its number among those accepted for its request, which is all that order, loss
and repetition need. `natsClosed` is shared by all requests; `panicked` ends the process.
The handler's `select` is the choice between `HandlerError`, `HandlerReceive` and
`HandlerClosed`; a write to a client that is there is an action without fairness, as such a
write may block. `ProcessMsg` drops the newest message at the pending limit, counted
as the library counts it: a message stays accounted until its callback has returned.

### Service

`mainPc` runs from the parsing of the configuration (after which help or the version may end
`start`) over the listeners and `broker.NewClient` to the end of `start`, `groupPc` through `Group.Run`, and
`actorPc` has a place for each actor's goroutine. `actors` is `g.actors`. `Add` runs beside
`Run` without a lock. `append` makes a new, longer array here (the old one is full), so the
slice's length and its array pointer are both written, in an order that the build
fixes. Between the two writes (`BeginAdd`, `EndAdd`) a reader either finds the old slice
(array first), or the new length with the old array (length first): `make` then makes a larger
channel and a loop over it calls what is behind the array, which the model takes for a panic
(`TornRead`). `AddServer` adds a server to `listening` or not, as the errors of `net.Listen` are
dropped. Before `signal.Notify` a signal kills the process; `MountRaces` stands for what
`Routing` shows of requests that come while `Mount` writes.
The database is `DB == INSTANCE Database` with no clients and the group as its only stopper;
`DatabaseSteps`, `InterruptDatabase` and `DatabaseStopped` are its actions.

### WebRPC

`clientPc` is the place in `doJSONRequest`, `serverPc` that in `ServeHTTP`. `request` and `response`
are on the wire, `received` is what `client.Do` returned: the server's response or, when a
gateway answers (`lost`), something else (`Gateways`: no JSON, a code of another schema, or an error
without a code, which decodes as the empty one). An error is its code; `outcome` is how the
method ended. `Status` is the table of `HTTPStatusFromErrorCode`. Codes are written with `_` for a
blank (`not_found`), and the empty code of `ErrNone` is `"none"`. The middleware that
recovers panics is in `RespondWithError` (a status of 0 panics) and in `MethodPanics`. The client looks
at its context in `Aborts`, `LooksAtContext` and `Decode`, and it may end between any two of them;
a request does not carry it, so `Do` waits for an answer all the same. The content type that a
context gives a request (`WithHTTPRequestHeaders`) overrides the client's: `RequestFor` has both, and
the server reads only JSON. `Dies` is the end of the server's process or connection, which
the client notices in `DoNoticesDeath`; `FrontRefuses` is whatever answers before the server.
A request may also be any other client's (`OtherClientSends`).

`Remote == INSTANCE RemoteCall` with `Told` for what a caller learns of an end: only the codes of the
schema come back as they are.

### Routing

Patterns and paths are sequences of the parts at which this tree branches: `/_ah/debug/*` is
`<<"/", "_ah/", "debug", "/", "*">>`. The paths of requests are a constant, `Paths`: sequences of
any length of the parts in `PathParts`, which need not be parts of a pattern. A node of the radix tree is named by all that has matched at
it, which does not change when it moves below another; `kids` are its children, `ends` the nodes
whose map of endpoints is complete. `Routes` is the table that `Mount` registers, in its order.
`InsertRoute` is its steps: `Follow` goes down, `Unlink`, `Label`, `Shorten`, `Restore`, `Restored` split a node
write by write as `replaceChild`, the assignments after it and `addChild` do, `AddChild` links a new one,
`SetEndpoint` and `Registered` fill its map. `handler` is `Half` between the two words of `mx.handler`.
A request goes `Arrive`, `Enter` (or `NoHandlerYet`, `HalfAHandler`), then `FindEdge` and `Descend` down the
tree until `Found`, `NotFound` or `NotAllowed`. It reads a child, and the child's prefix in another step,
for which `Prefix` has what a reader can find: old, new, or torn (the old bytes with the new length),
or nothing when the node has moved. A slice or map that is read while it is written gives what the
Go memory model and runtime allow: a missed child or a nil one (`torn`), or the end of the
process (`ConcurrentMapAccess`, `OtherMapAccess`). The cases of `Prefix` overlap and the first that
holds is meant, so they are nested conditions. `Wanted` says what the table of routes gives for a
path and a method, without a tree.

### HttpServer

`Routing` and `WebRPC` side by side: `SendStep` sends a request into the mux, `MuxStep` looks it up and
lets it through, or answers with 404, 405 or 500 (`FrontRefuses`), or loses it (`Dies`), and `ServerStep`
is the RPC server's once the mux has found it. `OtherRequest` is a request that is not for the RPC
server.

## 3. What TLC checks

| run | instance | shows |
|---|---|---|
| `database` | 3 clients, 1 stopper, 1 partition of 2 sort keys, 2 tasks, capacity 2, all operations, symmetry | `TypeOK`, `CallInOnePlace`, `OnlyReadTaskWedges`, `StoppedMeansFrozen`, `PartitionsStay`, `ImplementsTaskStore` |
| `database_liveness` | 2 clients, 2 stoppers, capacity 1, no `ReadTask`, fairness | `AnsweredOrLeftBehind`, `StopEndsRun`, `OneStopReturns` |
| `stream` | one served and one refused request, capacity 2, pending limit 1, 5 messages | `TypeOK`, `Conserved`, `BacklogBounded`, `ImplementsDelivery` |
| `stream_liveness` | one request, capacity 1, pending limit 2, 5 messages, fairness | `CleanedUp`, `RefusedRequestEnds`, `Delivered` |
| `service` | three actors, up to 2 open streams, from the first line of `start`, fairness | `TypeOK`, `NothingServesAfter`, `OnlyTwoHangs`, `FailureEndsService` |
| `webrpc` | module `MCHttpServer`: one request at any time of `Mount`, be it a call, another client's or one for any path of 13; all codes, one value and the zero one; fairness | `TypeOK`, `MuxTypeOK`, `NoFalseSuccess`, `CodesComeBack`, `ErrorsHaveACause`, `LateIsNoSuccess`, `CallReturns`, `RoutedOnceMounted`, `NeverAnotherRoute`, `CallsReachTheirMethod`, `ImplementsRemoteCall` |
| six more | the smallest instances that show the findings of section 5 | each one property, violated |

Why the bounds are enough. In the database three clients give every position a call can have
at once (one running, one queued, one blocked at the full channel or with its reply waiting),
two sort keys tell an emptied inner map from one that still has a task, two tasks tell a
found task from another, and partitions do not interact; of two Stops one comes while the other is
served, or after `Run` has returned. In the streams, requests share nothing
but the NATS connection, so a served and a refused one show what they can do to each other; five
messages are one more than the handler, the channel of two, the callback and the pending
list of one hold together when the client stalls. In the service everything but the number of
streams is as in the code; two streams let one leave while another holds the shutdown up.
Neither side of the RPC keeps anything between calls, and requests share nothing but the mux, which
they only read, so one request with every code and every failure is all of it; a value and the
zero value tell a result from what stands for none. The table of routes is the
program's; the 13 paths are those of the routes, below them, and beside them, and section 4 has
the argument for all others. `MaxMsgs` and `MaxStreams` are the only bounds that the code does not have.

Fairness. Goroutines that can run do run: weak fairness for each goroutine. Run's
`select` picks at random among ready cases and a Go channel serves blocked senders in their order,
so `TakeAction`, `TakeQuit` and `Enqueue` have strong fairness. A write to a client that
is there has none; once the context is cancelled net/http's write fails, so it then returns. The
request's context is cancelled once its handler has returned (`EndRequest`). The timer of `Shutdown`
fires. In `HttpServer` the client, the goroutine of a request in the mux and the server (with a method
that was called) go on; nothing is assumed of `Mount`, the transport or contexts. Callers, clients, publishers, signals, failures of NATS, of
`Accept` and of the transport, and the ends of contexts are never made to happen. `Delivered` assumes of the client that no single write blocks for ever.

Runs with `CHECK_DEADLOCK FALSE` are of systems that really may stop: a stopped database, all
requests ended, a finished process.

## 4. What TLAPS proves

For every number of clients, keys, tasks, requests, every capacity and every set of paths:

* `Database_proofs`: `TypeCorrect`, `CallsKept` (`CallInOnePlace`), `OneWayToWedge`
  (`OnlyReadTaskWedges`), `StopFreezes` (`StoppedMeansFrozen`), `NoPartitionLost` (`PartitionsStay`),
  and `LeftForGood`: whom a returned `Run` has left behind (`LeftBehind`) nobody answers any more.
* `Database_refinement`: `Implements` (`ImplementsTaskStore`).
* `Stream_proofs`: `TypeCorrect`, `NothingLost` (`Conserved`), `MemoryBounded`
  (`BacklogBounded`), `Implements` (`ImplementsDelivery`).
* `Service_proofs`: `TypeCorrect`, `NothingIsLeftServing` (`NothingServesAfter`).
* `WebRPC_proofs`: `TypeCorrect`, `ResultsAreTheMethods` (`NoFalseSuccess`), `CodesAreTheMethods`
  (`CodesComeBack`), `ErrorsAreSomeones` (`ErrorsHaveACause`),
  `LateCallsFail` (`LateIsNoSuccess`), `Implements` (`ImplementsRemoteCall`).
* `Routing_proofs`: `TypeCorrect`, `RoutesAreKept` (`RoutedOnceMounted`), `RoutesAreOwn`
  (`NeverAnotherRoute`), and `TreeCovers`: the radix tree leads from each of its nodes to every other
  that it is a prefix of, between any two writes of `InsertRoute`.
* `HttpServer_proofs`: `FrontImplementsRemoteCall` (`ImplementsRemoteCall`) and `FrontIsNoMethod`
  (`NoFalseSuccess`, `ErrorsHaveACause`, `CodesComeBack`, `LateIsNoSuccess`): what is proved of calls holds
  behind the mux; `MuxTypeCorrect` (`MuxTypeOK`), `MountedRoutesAreKept` (`RoutedOnceMounted`) and
  `MountedRoutesAreOwn` (`NeverAnotherRoute`): so does what is proved of routing; and, of both together,
  `CallsReachTheMethod` (`CallsReachTheirMethod`).

Assumptions are those named in the modules: capacities are positive, refused requests are
requests, `Nil` is not a key, task, client or stopper. Paths are sequences of `PathParts`, with
that of the RPC among them, and have no part `"*"` or `"none"`, which stand for a wildcard and for no
node (`PathsAssumption`; a path with a star in it has it inside some other part).

*Database.* `CallInOnePlace` is not inductive: that a queued closure's caller waits
needs the call to be recorded (`CallWhileInside`), that an answer goes to the right caller
needs `reader` and `sends` to fit `runPc` (`RunConsistent`), that only `ReadTask` wedges needs to
know which closures have more than one send left (`ExtraSends`), and that Stop freezes
needs `quit` to name the one Stop that Run serves (`QuitConsistent`). The inductive
invariant is their conjunction with `TypeOK`; there is one lemma per group of actions,
and the action properties follow from it step by step. `LeftForGood` needs `CallInOnePlace`: a closure
that is queued has no reply in the mailbox that its caller could still take. The refinement maps the two-level
map to one function and the partitions that have an inner map to `opened`; a call takes effect
in the step that runs its closure's map accesses, its answer is what that closure will send first
or what is in the mailbox, and all other steps stutter or are calls and returns.

*Stream.* What moves between the four holders of messages is concatenated, oldest first:
`wrote \o hand \o msgCh \o cbHand \o pending` is to be `1 .. accepted`. Each action
moves a message over one border of this concatenation, and `MessageSequences` has one lemma per
border. What makes it inductive is control: the hands are full exactly where their goroutines
say so (`HandsMatch`), nothing is accepted before Subscribe (`NothingBeforeSubscribing`),
the channel is closed or drained by somebody else only when the context is done or NATS
is closed or has refused (`SubConsistent`, `ClosedForAReason`). The proof is in two parts,
`ControlStep` and `ConservedStep`. One lemma per action that moves messages says what it does to those
in flight (`Received`, `Written`, `Called`, `Sent`, `Numbered`, `Discarded`, `Drained`); `ConservedStep` and the
refinement both rest on them. For `ImplementsDelivery` the queue is what is in flight while the
client is there: the handler's write is `Write`, a cancel `HangUp`, the callback's exit after NATS
has closed `LoseTail`, and every other step stutters.

*Service.* The group reads `g.actors` three times, and main may add the database before, between and
after. Nothing serves afterwards because `g.actors` only grows: whoever was executed is in it
(`GroupConsistent`), so the second loop has yet to interrupt it or has done so (`Interrupted`), and Stop
returns only when `Run` is at rest (`StopConsistent`). `ActorsAdded` counts the actors for the
capacity of `errors`, and `StreamsConsistent` says when streams may be open.

*WebRPC.* The invariant says what each stage knows of the one before: what was asked of what was
sent (`Requested`), what the method did of the request (`Served`), the response of the outcome
(`Answered`), what the client received of the response (`Received`), and the client's place of what it
returned (`Returned`). `NoFalseSuccess`, `CodesComeBack` and `ErrorsHaveACause` are conjuncts of it and are kept together. The
lemmas before it tabulate statuses, errors and bodies, as the provers do not search a table.

*Routing.* That a request after `Mount` finds its route (`RoutedOnceMounted`) says nothing of the steps
of `Mount` that make it true. The invariant has three parts. `TInv`: the handler is complete before
the first route, `Mount` writes one thing at a time, and the endpoints are those of the routes done.
`TreeInv` is the tree's: a child's name continues its parent's and no two children begin
alike (`Branching`), a node is there only on the way to a route (`OnTheWay`), `InsertRoute` is at a node
on the way to its pattern and splits only below `/_ah/` (`Inserts`), and there is a way down from
each node to all that it is a prefix of (`Covers`). A split breaks `Covers` for the node that is
unlinked and for nothing else, which is what the exception in it says, and `restored` makes it
whole. `RequestInv` is the request's: it is where its path has led it, or, if it came before
`Mount` returned, possibly astray below `/_ah/` (`Requested`). There, and only there, a torn prefix can
mislead it, so it never gets to `/stream` or `/rpc` by another route. There is one lemma per
step that writes the tree (`UnlinkKeepsTree`, `LabelKeepsTree`, `RestoreKeepsTree`, `RestoredKeepsTree`, `AddKeepsTree`)
and per step of the request; `WayDown` uses `Covers` for a request that finds no child. The lemmas before
them are about prefixes. The table of routes is what `Mount` registers, not a constant, and the
lemmas from `Table` to `NextPattern` say all that the rest uses of it.

*HttpServer.* The steps of the mux stutter in `WebRPC`, but for its refusals and the end of the
process, so that every behaviour is one of `WebRPC` (the lemma `FrontImplements`). For the other half
`Routing_proofs` is instantiated with the mux's variables; its copies of `Routing`'s definitions are
shown to be those of `HttpServer`'s own instance (`SameTable` and the lemmas after it), every step of
`HttpServer` to be one of `Routing`'s or a stutter (`FrontImplementsRouting`), and the three theorems follow.
`CallsReachTheirMethod` needs both halves: what the mux looks up for a caller is the call it sent
(`CallOnItsWay`), for which the table has the RPC server (`RpcIsWanted`), so that a mux that was mounted in time
may neither refuse it nor end (`MuxKeepsCall`); and the RPC server finds the generated client's request well
routed and readable under every header that `WithHTTPRequestHeaders` lets through (`ServerKeepsCall`).

Only model-checked are the liveness properties: `AnsweredOrLeftBehind`, `StopEndsRun`, `OneStopReturns`,
`CleanedUp`, `RefusedRequestEnds`, `Delivered`, `OnlyTwoHangs`, `FailureEndsService` and `CallReturns`. They rest on
fairness, and the prover has no reasoning about ENABLED. Every invariant that a passing run checks is
a theorem.

## 5. Where the code does not do what it says

Each has a run that is expected to find the violation; `PROJECT.json` quotes the lines.

1. `database_wedge`. A `ReadTask` that finds its partition leaves `Run` in a send that nobody
   receives (`db.go:138-146`): `Stop` never ends it.
2. `database_shared_map`. `ReadSchedule` returns the inner map that `Run` goes on writing
   (`db.go:160`).
3. `stream_close`. `Sub` closes the channel while the callback may be about to send on it: the
   send panics in a goroutine of the library and ends the process (`client.go:63, 70`).
4. `stream_refused`. A refused request may be taken for a client that has disconnected
   (`handlers.go:122-128`): its error is lost.
5. `stream_lost_broker`. When NATS is closed for good, open requests stay open and silent
   (`client.go:81-82`).
6. `service_shutdown`. If the group is past its first loop when the database is added, a
   shutdown never ends: the second loop stops a database that never ran.

`OneStopReturns` says what becomes of a second `Stop`: one that comes while the first is served, or
after `Run` has returned, waits in its send for ever (`db.go:82`), although `group.go:17` asks that "it must be
safe to call interrupt even after execute has returned". The group of this program interrupts each actor once,
so that only a `Run` that was never executed (`service_shutdown`) makes it wait. `AnsweredOrLeftBehind` says the
same of callers: whom `Run` has not got to when it returns waits for ever, whatever the deadline of its
context, as no operation looks at it (`db.go:87`).

`OnlyTwoHangs` shows that the last one and a second signal during the shutdown (which fills
the channel that the HTTP actor's interrupt sends on) are the only ways for a shutdown to
hang.

Three more things that `Routing` shows, without a run of their own: `/_ah/health` answers "ok" (`handlers.go:33`: ready to accept requests) before `/stream` and
`/rpc` are mounted; a route that was served already is not found for a moment while one of its nodes is
split, and a request that reads a prefix then may get, for the path `/_ah/`, a handler below it;
and a request that reads a map which `Mount` writes ends the process.

## 6. Not modelled

Of the RPC, request headers other than the content type, the text of messages, failures of
`json.Marshal` (these types have none) and of the body's `Close` (its error is dropped), and the methods
themselves, which are stubs (`internal/rpc/rpc.go`): any end of theirs is allowed. Of HTTP, the
headers that cors sets on a response, the pool of routing contexts, kinds of patterns that
`Mount` does not register, methods that chi does not know (answered before the tree is searched,
`mux.go:423`), and an endpoint's handler that is read half written (`tree.go:347`): the map that it is in
is modelled as one write, and a read during it as refused or the end of the process. `Client.Pub` and `App.SignalShutdown`, which nothing calls; reconnecting, queue
groups and draining of the NATS library; the panic of a response writer that cannot flush
(net/http's can); configuration values, logging (`SlackOutput` is used by nothing), the
TypeScript client and the deployment files. The values of tasks and messages are abstract.

## 7. Plan

1. Done: `TaskCalls`, `TaskStore`, `Database` with proofs and refinement: the one component
   with shared mutable data.
2. Done: `Delivery`, `Stream` with proofs and refinement: the one with most goroutines.
3. Done: `Service`, composing `Database`, with proofs of its invariants.
4. Done: `RemoteCall`, `WebRPC` with proofs and refinement.
5. Done: `Routing` and `HttpServer`: the start of the service as a client sees it, composed with
   the calls.
6. Done: proofs of `Routing` for every path, carried over to `HttpServer`, and of a call through both.
7. Left: `/stream` behind the mux as `/rpc` is in `HttpServer` (`Stream` with `Routing`), and
   the reconnecting of the NATS library, if the service ever looks at it.
