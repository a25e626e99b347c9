-------------------------- MODULE HttpServer_proofs --------------------------
(***************************************************************************)
(* What TLAPS proves about the HTTP server that serves while its routes    *)
(* are mounted: whatever the mux does, a call is one of module WebRPC, and *)
(* all that is proved there holds here.                                    *)
(***************************************************************************)
EXTENDS HttpServer, WebRPC_proofs

MuxProofs == INSTANCE Routing_proofs

\* The mux answers with the statuses that module WebRPC expects of a front.
LEMMA FrontStatus ==
  ASSUME NEW a \in {"notfound", "notallowed", "recovered"}
  PROVE  StatusOf(a) \in {404, 405, 500}
<1>1. CASE a = "notfound"
  BY <1>1 DEF StatusOf
<1>2. CASE a = "notallowed"
  BY <1>2 DEF StatusOf
<1>3. CASE a = "recovered"
  BY <1>3 DEF StatusOf
<1> QED
  BY <1>1, <1>2, <1>3

\* Every step of mux, client and server is one of client and server, or leaves them alone.
LEMMA HttpStep == [HttpNext]_httpVars => [Next]_vars
<1> SUFFICES ASSUME HttpNext PROVE Next \/ UNCHANGED vars
  BY DEF httpVars
<1>1. CASE MountStep \/ OtherRequest
  BY <1>1 DEF MountStep, OtherRequest
<1>2. CASE CallOrRequest
  BY <1>2 DEF CallOrRequest, Next
<1>3. CASE SendStep \/ ClientStep \/ OutsideStep
  BY <1>3 DEF SendStep, ClientStep, OutsideStep, Next, Client, Transport
<1>4. CASE ServerStep
  BY <1>4 DEF ServerStep, Next
<1>5. ASSUME ServerDies PROVE Next \/ UNCHANGED vars
  BY <1>5 DEF ServerDies, Next
<1>6. CASE OthersStep
  BY <1>5, <1>6 DEF OthersStep
<1>7. CASE MuxStep
  <2>1. ASSUME answer' \in {"notfound", "notallowed", "recovered"}, FrontRefuses(StatusOf(answer'))
        PROVE  Next
    BY <2>1, FrontStatus DEF Next
  <2> QED
    BY <1>5, <1>7, <2>1 DEF MuxStep
<1> QED
  BY <1>1, <1>2, <1>3, <1>4, <1>6, <1>7 DEF HttpNext

\* What mux and server do together is what module WebRPC allows a server and its front.
LEMMA FrontImplements == HttpSpec => Spec
<1>1. HttpInit => Init
  BY DEF HttpInit
<1> QED
  BY <1>1, HttpStep, PTL DEF HttpSpec, Spec

\* At any moment of Mount a caller is returned nothing but what its method's end tells, or
\* a failure, and the method runs at most once.
THEOREM FrontImplementsRemoteCall == HttpSpec => ImplementsRemoteCall
BY FrontImplements, Implements, PTL

\* At any moment of Mount no refusal of the mux, and no end of the process, is taken for a
\* result of a method, or is an error without a cause; an error that gets through has its
\* code, and a call that is late has no success.
THEOREM FrontIsNoMethod ==
  HttpSpec => /\ [](TypeOK /\ NoFalseSuccess /\ ErrorsHaveACause)
              /\ []CodesComeBack
              /\ LateIsNoSuccess
BY FrontImplements, TypeCorrect, ResultsAreTheMethods, ErrorsAreSomeones,
   CodesAreTheMethods, LateCallsFail, PTL
-----------------------------------------------------------------------------
(* The mux.                                                                *)

\* What any of them asks the mux for is a path and a method that module Routing knows.
LEMMA MuxStepOfHttp == [HttpNext]_httpVars => [Mux!Next]_(Mux!vars)
<1>1. UNCHANGED routingVars => UNCHANGED Mux!vars
  BY DEF routingVars, Mux!vars, Mux!muxVars, Mux!mountVars, Mux!requestVars
<1>2. Mux!RpcPath \in Paths /\ "POST" \in Mux!Verbs
  BY PathsAssumption DEF Mux!PathsAssumption, Mux!Verbs
<1> SUFFICES ASSUME HttpNext PROVE Mux!Next \/ UNCHANGED Mux!vars
  BY <1>1 DEF httpVars
<1>3. CASE MountStep
  BY <1>3 DEF MountStep, Mux!Next
<1>4. CASE CallOrRequest
  <2>1. ASSUME OtherClientSends PROVE request'.verb \in Mux!Verbs
    BY <2>1 DEF OtherClientSends, Requests, Mux!Verbs
  <2> QED
    BY <1>1, <1>2, <1>4, <2>1 DEF CallOrRequest, Mux!Next
<1>5. CASE OtherRequest
  BY <1>5 DEF OtherRequest, Mux!Next
<1>6. CASE SendStep
  BY <1>1, <1>2, <1>6 DEF SendStep, Mux!Next
<1>7. CASE ClientStep \/ OutsideStep \/ ServerStep
  BY <1>1, <1>7 DEF ClientStep, OutsideStep, ServerStep
<1>8. CASE MuxStep \/ OthersStep
  BY <1>8 DEF MuxStep, OthersStep, Mux!Next
<1> QED
  BY <1>3, <1>4, <1>5, <1>6, <1>7, <1>8 DEF HttpNext

(* The proofs about module Routing are of an instance of their own; its    *)
(* definitions are those of Mux.                                           *)

LEMMA SameTable ==
  /\ Mux!Verbs = MuxProofs!Verbs
  /\ Mux!Stack = MuxProofs!Stack
  /\ Mux!Routes = MuxProofs!Routes
  /\ Mux!Root = MuxProofs!Root
  /\ Mux!Nodes = MuxProofs!Nodes
  /\ Mux!NoNode = MuxProofs!NoNode
  /\ Mux!NoHandler = MuxProofs!NoHandler
  /\ Mux!Half = MuxProofs!Half
  /\ Mux!None = MuxProofs!None
  /\ Mux!Handlers = MuxProofs!Handlers
  /\ Mux!Refusals = MuxProofs!Refusals
BY DEF Mux!Verbs, MuxProofs!Verbs, Mux!Stack, MuxProofs!Stack, Mux!Routes, MuxProofs!Routes,
       Mux!Root, MuxProofs!Root, Mux!Nodes, MuxProofs!Nodes, Mux!NoNode, MuxProofs!NoNode,
       Mux!NoHandler, MuxProofs!NoHandler, Mux!Half, MuxProofs!Half, Mux!None,
       MuxProofs!None, Mux!Handlers, MuxProofs!Handlers, Mux!Refusals, MuxProofs!Refusals,
       Mux!Route, MuxProofs!Route

LEMMA SameSequences ==
  /\ \A s, t : Mux!IsPrefix(s, t) <=> MuxProofs!IsPrefix(s, t)
  /\ \A s : Mux!Last(s) = MuxProofs!Last(s) /\ Mux!Front(s) = MuxProofs!Front(s)
  /\ \A S : Mux!LongestCommonPrefix(S) = MuxProofs!LongestCommonPrefix(S)
BY DEF Mux!IsPrefix, MuxProofs!IsPrefix, Mux!Last, MuxProofs!Last, Mux!Front,
       MuxProofs!Front, Mux!LongestCommonPrefix, MuxProofs!LongestCommonPrefix,
       Mux!CommonPrefixes, MuxProofs!CommonPrefixes, Mux!Prefixes, MuxProofs!Prefixes

LEMMA SameSteps == Mux!Next <=> MuxProofs!Next
<1>1. Mux!Pattern = MuxProofs!Pattern
  BY SameTable
  DEF Mux!Pattern, MuxProofs!Pattern
<1>2. \A k : Mux!Common(k) = MuxProofs!Common(k)
  BY <1>1, SameSequences
  DEF Mux!Common, MuxProofs!Common
<1>3. Mux!Edges = MuxProofs!Edges
  BY <1>2
  DEF Mux!Edges, MuxProofs!Edges
<1>4. Mux!Leaf = MuxProofs!Leaf /\ Mux!Children = MuxProofs!Children
  BY SameTable
  DEF Mux!Leaf, MuxProofs!Leaf, Mux!Children, MuxProofs!Children
<1>5. Mux!Prefix = MuxProofs!Prefix
  BY SameTable, SameSequences
  DEF Mux!Prefix, MuxProofs!Prefix, Mux!TornPrefix, MuxProofs!TornPrefix
<1>6. Mux!Mounting <=> MuxProofs!Mounting
  BY <1>1, <1>2, <1>3, SameTable, SameSequences
  DEF Mux!Mounting, MuxProofs!Mounting, Mux!MountGoes, MuxProofs!MountGoes, Mux!Use,
      MuxProofs!Use, Mux!BuildHandler, MuxProofs!BuildHandler, Mux!StoreHandler,
      MuxProofs!StoreHandler, Mux!InsertRoute, MuxProofs!InsertRoute, Mux!Follow,
      MuxProofs!Follow, Mux!Unlink, MuxProofs!Unlink, Mux!Label, MuxProofs!Label,
      Mux!Shorten, MuxProofs!Shorten, Mux!Restore, MuxProofs!Restore, Mux!Restored,
      MuxProofs!Restored, Mux!AddChild, MuxProofs!AddChild, Mux!SetEndpoint,
      MuxProofs!SetEndpoint, Mux!Registered, MuxProofs!Registered, Mux!MountReturns,
      MuxProofs!MountReturns, Mux!muxVars, MuxProofs!muxVars, Mux!mountVars,
      MuxProofs!mountVars, Mux!requestVars, MuxProofs!requestVars
<1>7. Mux!Serving <=> MuxProofs!Serving
  BY <1>4, <1>5, SameTable, SameSequences
  DEF Mux!Serving, MuxProofs!Serving, Mux!RequestGoes, MuxProofs!RequestGoes, Mux!Answers,
      MuxProofs!Answers, Mux!Takes, MuxProofs!Takes, Mux!NoHandlerYet,
      MuxProofs!NoHandlerYet, Mux!HalfAHandler, MuxProofs!HalfAHandler, Mux!Enter,
      MuxProofs!Enter, Mux!FindEdge, MuxProofs!FindEdge, Mux!NotFound, MuxProofs!NotFound,
      Mux!NilChild, MuxProofs!NilChild, Mux!Descend, MuxProofs!Descend, Mux!OtherPrefix,
      MuxProofs!OtherPrefix, Mux!Found, MuxProofs!Found, Mux!NotAllowed,
      MuxProofs!NotAllowed, Mux!ConcurrentMapAccess, MuxProofs!ConcurrentMapAccess,
      Mux!muxVars, MuxProofs!muxVars, Mux!mountVars, MuxProofs!mountVars, Mux!requestVars,
      MuxProofs!requestVars
<1>8. Mux!OtherMapAccess <=> MuxProofs!OtherMapAccess
  BY SameTable
  DEF Mux!OtherMapAccess, MuxProofs!OtherMapAccess, Mux!muxVars, MuxProofs!muxVars,
      Mux!mountVars, MuxProofs!mountVars, Mux!requestVars, MuxProofs!requestVars
<1>9. (\E p \in Paths, v \in Mux!Verbs : Mux!Arrive(p, v))
        <=> (\E p \in Paths, v \in MuxProofs!Verbs : MuxProofs!Arrive(p, v))
  BY SameTable
  DEF Mux!Arrive, MuxProofs!Arrive, Mux!muxVars, MuxProofs!muxVars, Mux!mountVars,
      MuxProofs!mountVars, Mux!requestVars, MuxProofs!requestVars
<1> QED
  BY <1>6, <1>7, <1>8, <1>9
  DEF Mux!Next, MuxProofs!Next

\* A server whose routes are being mounted has a mux as module Routing has it.
LEMMA FrontImplementsRouting == HttpSpec => MuxProofs!Spec
<1>1. HttpInit => MuxProofs!Init
  BY SameTable DEF HttpInit, Mux!Init, MuxProofs!Init
<1>2. [HttpNext]_httpVars => [MuxProofs!Next]_(MuxProofs!vars)
  <2>1. UNCHANGED Mux!vars => UNCHANGED MuxProofs!vars
    BY DEF Mux!vars, MuxProofs!vars, Mux!muxVars, MuxProofs!muxVars, Mux!mountVars,
           MuxProofs!mountVars, Mux!requestVars, MuxProofs!requestVars
  <2> QED
    BY <2>1, MuxStepOfHttp, SameSteps
<1> QED
  BY <1>1, <1>2, PTL DEF HttpSpec, MuxProofs!Spec

LEMMA PathsOfMux == MuxProofs!PathsAssumption
BY PathsAssumption DEF Mux!PathsAssumption, MuxProofs!PathsAssumption, Mux!RpcPath,
   MuxProofs!RpcPath

LEMMA SameWanted == \A p, v : Mux!Wanted(p, v) = MuxProofs!Wanted(p, v)
BY DEF Mux!Wanted, MuxProofs!Wanted, Mux!Routes, MuxProofs!Routes, Mux!Route,
   MuxProofs!Route,
       Mux!Verbs, MuxProofs!Verbs, Mux!IsPrefix, MuxProofs!IsPrefix, Mux!Last, MuxProofs!Last,
       Mux!Front, MuxProofs!Front

\* The mux of the server keeps its types, for every set of paths that requests may ask for.
THEOREM MuxTypeCorrect == HttpSpec => []MuxTypeOK
<1>1. MuxProofs!RoutingTypeOK => MuxTypeOK
  BY SameTable DEF MuxTypeOK, Mux!RoutingTypeOK, MuxProofs!RoutingTypeOK
<1> QED
  BY <1>1, FrontImplementsRouting, PathsOfMux, MuxProofs!TypeCorrect, PTL

\* Once Mount has returned, every request, however long its path, gets what the table of
\* routes says of it: the splits of the radix tree have lost no route and made none.
THEOREM MountedRoutesAreKept == HttpSpec => []RoutedOnceMounted
<1>1. MuxProofs!RoutedOnceMounted => RoutedOnceMounted
  BY SameTable, SameWanted
     DEF RoutedOnceMounted, Mux!RoutedOnceMounted, MuxProofs!RoutedOnceMounted
<1> QED
  BY <1>1, FrontImplementsRouting, PathsOfMux, MuxProofs!RoutesAreKept, PTL

\* At any moment of Mount no handler takes a request that has not passed the whole stack of
\* middlewares, and neither stream nor RPC server one that is not for it.
THEOREM MountedRoutesAreOwn == HttpSpec => []NeverAnotherRoute
<1>1. MuxProofs!NeverAnotherRoute => NeverAnotherRoute
  BY SameTable, SameWanted
     DEF NeverAnotherRoute, Mux!NeverAnotherRoute, MuxProofs!NeverAnotherRoute
<1> QED
  BY <1>1, FrontImplementsRouting, PathsOfMux, MuxProofs!RoutesAreOwn, PTL
-----------------------------------------------------------------------------
(* Both: a call that came after Mount.                                     *)

LEMMA CallsAreWanted == Mux!Wanted(Mux!RpcPath, "POST") = "rpc"
<1>1. Mux!RpcPath = MuxProofs!RpcPath
  BY DEF Mux!RpcPath, MuxProofs!RpcPath
<1> QED
  BY <1>1, SameWanted, PathsOfMux, MuxProofs!RpcIsWanted

\* What the mux looks up for a caller is its call, and no server ends before it has anything
\* to serve but by the end of the process.
CallOnItsWay ==
  /\ asked # "none" /\ muxPc # "none" => request # None /\ path = Mux!RpcPath /\ verb = "POST"
  /\ muxPc = "none" /\ ~killed => serverPc # "gone"
  /\ CallsReachTheirMethod

\* What the invariants of the two modules say of a call that is late.
LateCalls ==
  /\ muxPc = "none" => ~late
  /\ late => ~killed /\ answer \in {"none", Mux!Wanted(path, verb)}

LEMMA LateCallsHold == HttpSpec => []LateCalls
<1>1. MuxProofs!IInv => LateCalls
  BY SameTable, SameWanted
     DEF MuxProofs!IInv, MuxProofs!RequestInv, MuxProofs!Requested,
         MuxProofs!RoutedOnceMounted, MuxProofs!None, LateCalls
<1> QED
  BY <1>1, FrontImplementsRouting, PathsOfMux, MuxProofs!Invariance, PTL

\* Who does not come to the mux, or leaves request and server alone, changes nothing of it.
LEMMA RestKeepsCall ==
  ASSUME CallOnItsWay, UNCHANGED <<asked, request, muxPc, path, verb, late, killed>>,
         UNCHANGED serverVars
  PROVE  CallOnItsWay'
BY DEF CallOnItsWay, CallsReachTheirMethod, serverVars, Mux!RpcPath

\* The server answers a request of the client's only when its method has ended.
LEMMA ServerKeepsCall ==
  ASSUME IInv, CallOnItsWay, ServerStep
  PROVE  CallOnItsWay'
<1>1. ASSUME asked # "none", request # None
      PROVE  WellRouted(request) /\ Decodes(request)
  <2>1. asked \in Methods /\ \E h \in Headers : request = RequestFor(asked, h)
    BY <1>1 DEF IInv, TypeOK, Requested
  <2> QED
    BY <2>1, ClientRequest
<1>2. UNCHANGED <<asked, request, routingVars>>
  BY DEF ServerStep, Server, ServeBadRoute, ServeBadBody, Serve, MethodReturns, MethodFails,
     MethodPanics, clientVars
<1>3. serverPc' # "gone"
  BY DEF ServerStep, Server, ServeBadRoute, ServeBadBody, Serve, MethodReturns, MethodFails,
     MethodPanics, Responds
<1>4. ASSUME asked # "none", late PROVE response' # None => outcome' # None
  <2>1. ~ServeBadRoute /\ ~ServeBadBody
    BY <1>1, <1>4 DEF ServeBadRoute, ServeBadBody
  <2>2. CASE Serve
    BY <1>4, <2>2 DEF Serve, CallOnItsWay, CallsReachTheirMethod
  <2>3. CASE MethodReturns
    BY <2>3, Kinds DEF MethodReturns, Value, None
  <2>4. CASE MethodFails \/ MethodPanics
    BY <2>4, Kinds DEF MethodFails, MethodPanics, Error, None
  <2> QED
    BY <2>1, <2>2, <2>3, <2>4 DEF ServerStep, Server
<1> QED
  BY <1>2, <1>3, <1>4 DEF CallOnItsWay, CallsReachTheirMethod, routingVars, Mux!RpcPath

\* A call comes to a mux that may have been mounted, and to a server that is there.
LEMMA SendKeepsCall ==
  ASSUME IInv, LateCalls', CallOnItsWay, SendStep
  PROVE  CallOnItsWay'
<1>1. request = None /\ response = None /\ request' # None /\ asked' = asked
      /\ UNCHANGED serverVars
  <2>1. asked \in Methods /\ request = None
    BY DEF SendStep, Send, IInv, TypeOK, Requested
  <2>2. PICK h \in Headers : request' = RequestFor(asked, h)
    BY DEF SendStep, Send
  <2> QED
    BY <2>1, <2>2, ClientRequest DEF SendStep, Send, IInv, Served
<1>2. asked # "none"
  BY DEF SendStep, Send, IInv, Requested
<1>3. muxPc = "none"
  BY <1>1, <1>2 DEF CallOnItsWay
<1>4. CASE killed
  BY <1>1, <1>3, <1>4 DEF SendStep, CallOnItsWay, CallsReachTheirMethod, LateCalls,
     serverVars, routingVars
<1>5. CASE ~killed
  <2>1. Mux!Arrive(Mux!RpcPath, "POST")
    BY <1>5 DEF SendStep
  <2>2. muxPc' = "arrived" /\ path' = Mux!RpcPath /\ verb' = "POST" /\ killed' = killed
    BY <2>1 DEF Mux!Arrive
  <2> QED
    BY <1>1, <1>3, <1>5, <2>2 DEF CallOnItsWay, CallsReachTheirMethod, serverVars,
       Mux!RpcPath
<1> QED
  BY <1>4, <1>5

\* The mux passes the call to the server, if it was mounted when it came.
LEMMA MuxKeepsCall ==
  ASSUME IInv, LateCalls', CallOnItsWay, MuxStep \/ OthersStep
  PROVE  CallOnItsWay'
<1>1. UNCHANGED <<asked, request, outcome, path, verb, late>>
  BY DEF MuxStep, OthersStep, ServerDies, Dies, FrontRefuses, vars, clientVars, serverVars,
         Mux!Serving, Mux!RequestGoes, Mux!Answers, Mux!NoHandlerYet, Mux!HalfAHandler,
         Mux!Enter, Mux!FindEdge, Mux!NotFound, Mux!NilChild, Mux!Descend, Mux!OtherPrefix,
         Mux!Found, Mux!NotAllowed, Mux!ConcurrentMapAccess, Mux!OtherMapAccess,
         Mux!requestVars
<1>2. killed' \/ (muxPc # "none" /\ muxPc' # "none")
  BY DEF MuxStep, OthersStep,
         Mux!Serving, Mux!RequestGoes, Mux!Answers, Mux!NoHandlerYet, Mux!HalfAHandler,
         Mux!Enter, Mux!FindEdge, Mux!NotFound, Mux!NilChild, Mux!Descend, Mux!OtherPrefix,
         Mux!Found, Mux!NotAllowed, Mux!ConcurrentMapAccess, Mux!OtherMapAccess
<1>3. muxPc # "none" \/ muxPc' = muxPc
  BY <1>2 DEF MuxStep, OthersStep, Mux!OtherMapAccess, Mux!requestVars,
         Mux!Serving, Mux!RequestGoes, Mux!Answers, Mux!NoHandlerYet, Mux!HalfAHandler,
         Mux!Enter, Mux!FindEdge, Mux!NotFound, Mux!NilChild, Mux!Descend, Mux!OtherPrefix,
         Mux!Found, Mux!NotAllowed, Mux!ConcurrentMapAccess
<1>4. ASSUME asked # "none", late PROVE UNCHANGED serverVars
  <2>1. muxPc # "none" /\ ~killed'
    BY <1>1, <1>2, <1>4 DEF LateCalls
  <2>2. path' = Mux!RpcPath /\ verb' = "POST"
    BY <1>1, <1>4, <2>1 DEF CallOnItsWay
  <2>3. (answer \in {"none", Mux!Wanted(path, verb)})'
    BY <1>1, <1>4 DEF LateCalls
  <2>4. Mux!Wanted(path, verb)' = "rpc"
    BY <2>2, CallsAreWanted DEF Mux!Wanted
  <2>5. answer' \in {"none", "rpc"}
    BY <2>3, <2>4
  <2>6. ~OthersStep
    BY <2>1 DEF OthersStep, Mux!OtherMapAccess
  <2> QED
    BY <2>1, <2>5, <2>6 DEF MuxStep, vars, serverVars
<1> QED
  BY <1>1, <1>2, <1>3, <1>4 DEF CallOnItsWay, CallsReachTheirMethod, serverVars, Mux!RpcPath

LEMMA StepKeepsCall ==
  ASSUME IInv, LateCalls, LateCalls', CallOnItsWay, [HttpNext]_httpVars
  PROVE  CallOnItsWay'
<1>1. CASE MountStep
  BY <1>1, RestKeepsCall
  DEF MountStep, vars, clientVars, Mux!Mounting, Mux!MountGoes, Mux!Use, Mux!BuildHandler,
      Mux!StoreHandler, Mux!InsertRoute, Mux!Follow, Mux!Unlink, Mux!Label, Mux!Shorten,
      Mux!Restore, Mux!Restored, Mux!AddChild, Mux!SetEndpoint, Mux!Registered,
      Mux!MountReturns, Mux!requestVars
<1>2. CASE CallOrRequest
  <2>1. CASE OtherClientSends /\ Mux!Arrive(Mux!RpcPath, request'.verb)
    <3>1. asked' = "none" /\ muxPc' = "arrived"
      BY <2>1 DEF OtherClientSends, clientVars, IInv, Requested, Mux!Arrive
    <3> QED
      BY <3>1 DEF CallOnItsWay, CallsReachTheirMethod
  <2>2. CASE muxPc = "none" /\ (\E m \in Methods : Call(m)) /\ UNCHANGED routingVars
    <3>1. UNCHANGED serverVars /\ UNCHANGED routingVars /\ ~late
      BY <2>2 DEF Call, LateCalls
    <3> QED
      BY <2>2, <3>1 DEF CallOnItsWay, CallsReachTheirMethod, serverVars, routingVars
  <2> QED
    BY <1>2, <2>1, <2>2 DEF CallOrRequest
<1>3. CASE OtherRequest
  <2>1. asked' = "none" /\ muxPc' = "arrived"
    BY <1>3 DEF OtherRequest, vars, clientVars, IInv, Requested, Mux!Arrive
  <2> QED
    BY <2>1 DEF CallOnItsWay, CallsReachTheirMethod
<1>4. CASE ClientStep \/ OutsideStep
  <2>1. UNCHANGED <<asked, request, serverVars>>
    BY <1>4 DEF ClientStep, OutsideStep, Aborts, DoNoticesDeath, DoFails, DoReturns,
       LooksAtContext, LooksAtStatus, Decode, Transport, GatewayAnswers, ReadFails,
       ContextEnds, clientVars
  <2> QED
    BY <1>4, <2>1, RestKeepsCall DEF ClientStep, OutsideStep, routingVars
<1>5. CASE UNCHANGED httpVars
  BY <1>5, RestKeepsCall DEF httpVars, vars, clientVars, routingVars
<1> QED
  BY <1>1, <1>2, <1>3, <1>4, <1>5, SendKeepsCall, MuxKeepsCall, ServerKeepsCall
  DEF HttpNext

\* Once Mount has returned, no call of the generated client is answered but by its method,
\* whatever paths requests may have and whatever methods may return.
THEOREM CallsReachTheMethod == HttpSpec => []CallsReachTheirMethod
<1>1. HttpInit => CallOnItsWay
  BY DEF HttpInit, Init, Mux!Init, Mux!None, CallOnItsWay, CallsReachTheirMethod
<1>2. CallOnItsWay => CallsReachTheirMethod
  BY DEF CallOnItsWay
<1>3. HttpSpec => []IInv
  BY FrontImplements, Inductive, PTL
<1> QED
  BY <1>1, <1>2, <1>3, LateCallsHold, StepKeepsCall, PTL DEF HttpSpec
=============================================================================
