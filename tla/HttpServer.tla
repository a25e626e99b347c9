----------------------------- MODULE HttpServer -----------------------------
(***************************************************************************)
(* The HTTP server while main mounts its routes: module Routing in front   *)
(* of the RPC server of module WebRPC.  A remote call meets the mux in     *)
(* whatever state Mount has brought it to, and so does a request for any   *)
(* other path, which is followed up to the handler that takes it.          *)
(***************************************************************************)
EXTENDS WebRPC

CONSTANTS
  PathParts, Paths   \* what requests ask for

VARIABLES
  mountPc, middlewares, handler, done, spot, split, kids, torn, writing, ends,
  muxPc, path, verb, late, chain, at, edge, rest, answer, killed

Mux == INSTANCE Routing

ASSUME PathsAssumption == Mux!PathsAssumption

routingVars ==
  <<mountPc, middlewares, handler, done, spot, split, kids, torn, writing, ends,
    muxPc, path, verb, late, chain, at, edge, rest, answer, killed>>
httpVars == <<vars, routingVars>>

HttpInit == Init /\ Mux!Init

\* main goes on with Mount.
MountStep == Mux!Mounting /\ UNCHANGED vars

\* A call, or another request for the RPC server, unless the one request of this module
\* has come.
CallOrRequest ==
  \/ /\ muxPc = "none"
     /\ \E m \in Methods : Call(m)
     /\ UNCHANGED routingVars
  \/ OtherClientSends /\ Mux!Arrive(Mux!RpcPath, request'.verb)

\* A request of any other kind.
OtherRequest ==
  /\ clientPc = "idle"
  /\ request = None
  /\ \E p \in Paths, v \in Mux!Verbs :
       (p # Mux!RpcPath \/ v = "OPTIONS") /\ Mux!Arrive(p, v)
  /\ UNCHANGED vars

\* What the generated client sends reaches the mux, if there is a process to take it.
SendStep ==
  /\ Send
  /\ IF killed THEN UNCHANGED routingVars ELSE Mux!Arrive(Mux!RpcPath, "POST")

ClientStep ==
  /\ Aborts \/ DoNoticesDeath \/ DoReturns \/ LooksAtContext \/ LooksAtStatus \/ Decode
  /\ UNCHANGED routingVars

OutsideStep == (Transport \/ ContextEnds) /\ UNCHANGED routingVars

\* A response that has been written before is on its way.
ServerDies == IF serverPc \in {"idle", "method"} THEN Dies ELSE UNCHANGED vars

StatusOf(a) ==
  CASE a = "notfound" -> 404 [] a = "notallowed" -> 405 [] a = "recovered" -> 500

\* The mux looks the request up: it goes on, is passed to the RPC server, is refused, or
\* loses its connection or the whole process.
MuxStep ==
  /\ Mux!Serving
  /\ \/ /\ ~killed'
        /\ answer' \in {"none", "rpc"} \/ request = None
        /\ UNCHANGED vars
     \/ /\ request # None
        /\ answer' \in {"notfound", "notallowed", "recovered"}
        /\ FrontRefuses(StatusOf(answer'))
     \/ /\ killed' \/ (answer' = "aborted" /\ request # None)
        /\ ServerDies

OthersStep == Mux!OtherMapAccess /\ ServerDies

\* A request that was looked up is the RPC server's.
ServerStep ==
  /\ answer = "rpc" /\ ~killed
  /\ Server
  /\ UNCHANGED routingVars

HttpNext ==
  \/ MountStep \/ CallOrRequest \/ OtherRequest \/ SendStep \/ ClientStep
  \/ OutsideStep \/ MuxStep \/ OthersStep \/ ServerStep

HttpSpec == HttpInit /\ [][HttpNext]_httpVars

(* The client goes on when it can, and so do the goroutine of a request    *)
(* and a method that was called.  Nothing is assumed of main, of the       *)
(* transport, or of the context.                                           *)
FairHttpSpec ==
  HttpSpec /\ WF_httpVars(ClientStep \/ SendStep) /\ WF_httpVars(MuxStep) /\ WF_httpVars(ServerStep)

-----------------------------------------------------------------------------
(* Properties.                                                             *)

\* The types of the mux.
MuxTypeOK == Mux!RoutingTypeOK

\* A request that comes after Mount has returned gets what the table of routes says:
\* neither the splits of the tree's nodes nor the order of the registrations has lost
\* a route or made one, and the mux is written no more (app.go:25-62).
RoutedOnceMounted == Mux!RoutedOnceMounted

\* Whenever it comes, and wherever Mount is, no request is taken without the whole stack of
\* middlewares, Recoverer among them, on which the RPC server's panics rely, and none by
\* the stream or the RPC server that is not for them (app.go:25-27, mux.go:62-86).
NeverAnotherRoute == Mux!NeverAnotherRoute

\* Once Mount has returned a call gets to its method: whatever the caller's context puts
\* into the headers, neither mux nor server answers a request of the generated client for the
\* method, and the server does not end under it (app.go:25-62, chat.gen.go:92-171, 381-403).
CallsReachTheirMethod ==
  asked # "none" /\ late => serverPc # "gone" /\ (response # None => outcome # None)
=============================================================================
