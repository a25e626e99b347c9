------------------------------- MODULE WebRPC -------------------------------
(***************************************************************************)
(* One call of a remote method through the generated client and server of  *)
(* chat.gen.go: the call, its HTTP request, the method that serves it, the *)
(* response, and what the caller is returned.  Neither side keeps anything *)
(* between calls, so that one call shows them all.  A request may also     *)
(* come from an HTTP client that is not the generated one.                 *)
(*                                                                         *)
(* The methods of rpc.go are stubs.  What a method may do is taken from    *)
(* the interface Chat: it returns a value, or an error of any kind, or     *)
(* panics.  Messages are left out: an error is its code.                   *)
(***************************************************************************)
EXTENDS Naturals, Sequences

CONSTANTS
  Values,  \* what a method may return ...
  Zero     \* ... apart from the zero value of its type

ASSUME ZeroIsNoValue == Zero \notin Values

VARIABLES
  clientPc,  \* where doJSONRequest is
  asked,     \* the method the caller has called
  ctxDone,   \* whether the caller's context is done
  request,   \* the request that was sent
  outcome,   \* how the method has ended
  serverPc,  \* where chatServer.ServeHTTP is
  response,  \* what the server has answered
  received,  \* the response that client.Do has returned
  lost,      \* whether the transport, or a gateway, has failed the call
  result     \* what the caller is returned

clientVars == <<clientPc, asked, received, lost, result>>
serverVars == <<serverPc, outcome, response>>
vars == <<clientVars, ctxDone, request, serverVars>>

None == [kind |-> "none"]

Methods == {"Ping", "Version", "CreateChatMessage"}

-----------------------------------------------------------------------------
(* Errors.                                                                 *)

\* The codes, with "_" for their blanks; that of ErrNone, an empty string, is "none".
Codes ==
  {"unknown", "fail", "canceled", "invalid_argument", "deadline_exceeded", "not_found",
   "bad_route", "already_exists", "permission_denied", "unauthenticated",
   "resource_exhausted", "failed_precondition", "aborted", "out_of_range",
   "unimplemented", "internal", "unavailable", "data_loss", "none"}

\* A code of a server that has another schema, or of an Error that is no rpcErr.
Alien == "alien"

\* HTTPStatusFromErrorCode
Status(code) ==
  CASE code \in {"canceled", "deadline_exceeded"} -> 408
    [] code \in {"unknown", "invalid_argument", "out_of_range"} -> 400
    [] code = "fail" -> 422
    [] code \in {"not_found", "bad_route"} -> 404
    [] code \in {"already_exists", "aborted"} -> 409
    [] code \in {"permission_denied", "resource_exhausted"} -> 403
    [] code = "unauthenticated" -> 401
    [] code = "failed_precondition" -> 412
    [] code = "unimplemented" -> 501
    [] code \in {"internal", "data_loss"} -> 500
    [] code = "unavailable" -> 503
    [] code = "none" -> 200
    [] OTHER -> 0

\* The code of an error that Errorf or WrapError makes.
WrapError(code) == IF Status(code) # 0 THEN code ELSE "internal"

Value(v) == [kind |-> "value", value |-> v]
Error(code) == [kind |-> "error", code |-> code]

Response(status, body) == [kind |-> "response", status |-> status, body |-> body]

\* What is no JSON: an empty body, or a page that a gateway has written.
Text == [kind |-> "text"]

RespondWithError_AlwaysOk(code) ==
  IF Status(code) # 0 THEN Response(200, Error(code)) ELSE Response(500, Text)

RespondWithError_Wraps(code) == Response(500, Error("internal"))

\* RespondWithError.  WriteHeader panics when the status is 0: the middleware recovers
\* and answers without a body.
RespondWithError(code) ==
  IF Status(code) # 0 THEN Response(Status(code), Error(code)) ELSE Response(500, Text)

-----------------------------------------------------------------------------
(* The server.                                                             *)

\* The key under which the header that the caller's context carries has a content
\* type of its own, if any.
Headers == {"none", "Content-Type", "content-type"}

\* WithHTTPRequestHeaders looks for the canonical key only.
WithHTTPRequestHeaders(h) == h # "Content-Type"

\* The content types of the request: newRequest sets one and adds the header's, by any
\* key.
ContentTypes(h) == IF h = "none" THEN <<"json">> ELSE <<"json", "other">>

RequestFor_Sets(m, h) ==
  [kind |-> "request", verb |-> "POST", path |-> m, body |-> "json",
   type |-> ContentTypes(h)[Len(ContentTypes(h))]]

\* A request of the generated client.  Its type is what the server's Get returns, the
\* first of them.
RequestFor(m, h) ==
  [kind |-> "request", verb |-> "POST", path |-> m, body |-> "json",
   type |-> Head(ContentTypes(h))]

\* Any request.  A body is "broken" when its connection is.
Requests ==
  [kind : {"request"}, verb : {"POST", "GET"}, path : Methods \cup {"other"},
   type : {"json", "other"}, body : {"json", "other", "broken"}]

Init ==
  /\ clientPc = "idle"
  /\ asked = "none"
  /\ ctxDone \in BOOLEAN
  /\ request = None
  /\ outcome = None
  /\ serverPc = "idle"
  /\ response = None
  /\ received = None
  /\ lost = FALSE
  /\ result = None

WellRouted(r) == r.verb = "POST" /\ r.path \in Methods /\ r.type = "json"

\* Of the three methods one has an argument to read.
Decodes(r) == r.path # "CreateChatMessage" \/ r.body = "json"

Responds(r) ==
  /\ serverPc' = "responded"
  /\ response' = r

ServeBadRoute ==
  /\ serverPc = "idle"
  /\ request # None
  /\ ~WellRouted(request)
  /\ Responds(RespondWithError("bad_route"))
  /\ UNCHANGED <<clientVars, ctxDone, request, outcome>>

ServeBadBody ==
  /\ serverPc = "idle"
  /\ request # None
  /\ WellRouted(request) /\ ~Decodes(request)
  /\ Responds(RespondWithError(IF request.body = "broken" THEN "internal"
                               ELSE "invalid_argument"))
  /\ UNCHANGED <<clientVars, ctxDone, request, outcome>>

\* The method is called.
Serve ==
  /\ serverPc = "idle"
  /\ request # None
  /\ WellRouted(request) /\ Decodes(request)
  /\ serverPc' = "method"
  /\ UNCHANGED <<clientVars, ctxDone, request, outcome, response>>

MethodReturns ==
  /\ serverPc = "method"
  /\ \E v \in Values \cup {Zero} :
       /\ outcome' = Value(v)
       /\ Responds(Response(200, Value(v)))
  /\ UNCHANGED <<clientVars, ctxDone, request>>

\* The method returns an error that Errorf or WrapError has made, another that
\* implements Error, or, with the code that it is then given, one that does not.
MethodFails ==
  /\ serverPc = "method"
  /\ \E code \in {WrapError(c) : c \in Codes \cup {Alien}} \cup {Alien} :
       /\ outcome' = Error(code)
       /\ Responds(RespondWithError(code))
  /\ UNCHANGED <<clientVars, ctxDone, request>>

MethodPanics_Silent ==
  /\ serverPc = "method"
  /\ serverPc' = "responded"
  /\ outcome' = Error("internal")
  /\ UNCHANGED <<clientVars, ctxDone, request, response>>

\* The response is written before the panic goes on, to the middleware that recovers.
MethodPanics ==
  /\ serverPc = "method"
  /\ outcome' = Error("internal")
  /\ Responds(RespondWithError("internal"))
  /\ UNCHANGED <<clientVars, ctxDone, request>>

\* The mux in front of the server answers, as it does before the routes are mounted.
FrontRefuses(status) ==
  /\ serverPc = "idle"
  /\ request # None
  /\ Responds(Response(status, Text))
  /\ lost' = TRUE
  /\ UNCHANGED <<clientPc, asked, received, result, ctxDone, request, outcome>>

\* The connection is closed, or the process is gone, before a response is written.
Dies ==
  /\ serverPc \in {"idle", "method"}
  /\ serverPc' = "gone"
  /\ UNCHANGED <<clientVars, ctxDone, request, outcome, response>>

-----------------------------------------------------------------------------
(* The client.                                                             *)

Returns(r) == clientPc' = "returned" /\ result' = r

\* Every error of the client's own has this code.
ClientError == Error("internal")

Call(m) ==
  /\ clientPc = "idle"
  /\ request = None
  /\ clientPc' = "marshalled"
  /\ asked' = m
  /\ UNCHANGED <<ctxDone, request, serverVars, received, lost, result>>

Aborts ==
  /\ clientPc = "marshalled"
  /\ ctxDone
  /\ Returns(ClientError)
  /\ UNCHANGED <<asked, ctxDone, request, serverVars, received, lost>>

\* The request does not carry the context, but the header that was put into it.
Send ==
  /\ clientPc = "marshalled"
  /\ ~ctxDone
  /\ clientPc' = "do"
  /\ \E h \in Headers : WithHTTPRequestHeaders(h) /\ request' = RequestFor(asked, h)
  /\ UNCHANGED <<asked, ctxDone, serverVars, received, lost, result>>

\* client.Do fails, wherever the server is.
DoFails ==
  /\ clientPc = "do"
  /\ Returns(ClientError)
  /\ lost' = TRUE
  /\ UNCHANGED <<asked, ctxDone, request, serverVars, received>>

\* It does when there is no server any more.
DoNoticesDeath == serverPc = "gone" /\ DoFails

DoReturns ==
  /\ clientPc = "do"
  /\ response # None
  /\ clientPc' = "received"
  /\ received' = response
  /\ UNCHANGED <<asked, ctxDone, request, serverVars, lost, result>>

\* What a load balancer, or a server of another schema behind it, answers: no JSON, a
\* code that the client does not know, or none at all, which is the code of ErrNone.
Gateways == {Response(502, Text), Response(500, Error(Alien)), Response(500, Error("none"))}

\* It answers instead.
GatewayAnswers ==
  /\ clientPc = "do"
  /\ clientPc' = "received"
  /\ received' \in Gateways
  /\ lost' = TRUE
  /\ UNCHANGED <<asked, ctxDone, request, serverVars, result>>

ErrorFromResponse_AnyCode(body) ==
  IF body.kind = "text" THEN Error("internal") ELSE Error(body.code)

\* errorFromResponse
ErrorFromResponse(body) ==
  IF body.kind = "text" \/ Status(body.code) = 0 THEN Error("internal") ELSE Error(body.code)

\* The second look at the context ...
LooksAtContext ==
  /\ clientPc = "received"
  /\ \/ ctxDone /\ Returns(ClientError)
     \/ ~ctxDone /\ clientPc' = "inTime" /\ UNCHANGED result
  /\ UNCHANGED <<asked, ctxDone, request, serverVars, received, lost>>

\* ... which may end right after.
LooksAtStatus ==
  /\ clientPc = "inTime"
  /\ \/ received.status # 200 /\ Returns(ErrorFromResponse(received.body))
     \/ received.status = 200 /\ clientPc' = "ok" /\ UNCHANGED result
  /\ UNCHANGED <<asked, ctxDone, request, serverVars, received, lost>>

ReadFails ==
  /\ clientPc \in {"inTime", "ok"}
  /\ Returns(ClientError)
  /\ lost' = TRUE
  /\ UNCHANGED <<asked, ctxDone, request, serverVars, received>>

\* json.Unmarshal into the struct that the method's result is expected in.  The
\* payload of an error has none of its fields, except that both Ping's result and
\* the payload's number are called "status".
Unmarshal(body) ==
  CASE body.kind = "value" -> Value(body.value)
    [] body.kind = "error" /\ asked # "Ping" -> Value(Zero)
    [] OTHER -> ClientError

Decode_IgnoresContext ==
  /\ clientPc = "ok"
  /\ Returns(Unmarshal(received.body))
  /\ UNCHANGED <<asked, ctxDone, request, serverVars, received, lost>>

Decode ==
  /\ clientPc = "ok"
  /\ Returns(IF ctxDone THEN ClientError ELSE Unmarshal(received.body))
  /\ UNCHANGED <<asked, ctxDone, request, serverVars, received, lost>>

-----------------------------------------------------------------------------

\* The context is cancelled, or its deadline passes.
ContextEnds ==
  /\ ~ctxDone
  /\ ctxDone' = TRUE
  /\ UNCHANGED <<clientVars, request, serverVars>>

\* A request that the generated client would not send.
OtherClientSends ==
  /\ clientPc = "idle"
  /\ request = None
  /\ request' \in Requests
  /\ UNCHANGED <<clientVars, ctxDone, serverVars>>

Client == Aborts \/ Send \/ DoNoticesDeath \/ DoReturns \/ LooksAtContext \/ LooksAtStatus \/ Decode
Transport == DoFails \/ GatewayAnswers \/ ReadFails
Server == ServeBadRoute \/ ServeBadBody \/ Serve \/ MethodReturns \/ MethodFails \/ MethodPanics

Next ==
  \/ \E m \in Methods : Call(m)
  \/ Client
  \/ Transport
  \/ Server
  \/ (\E status \in {404, 405, 500} : FrontRefuses(status))
  \/ Dies
  \/ ContextEnds
  \/ OtherClientSends

Spec == Init /\ [][Next]_vars

(* Both sides go on when they can, and a method that was called ends.      *)
(* Nobody makes the transport fail or the context end.                     *)
FairSpec == Spec /\ WF_vars(Client) /\ WF_vars(Server)

-----------------------------------------------------------------------------
(* Properties.                                                             *)

Bodies == {Value(v) : v \in Values \cup {Zero}} \cup {Error(c) : c \in Codes \cup {Alien}}
            \cup {Text}
Statuses == {Status(c) : c \in Codes} \cup {405, 502}
Responses == [kind : {"response"}, status : Statuses, body : Bodies]
Results == {Value(v) : v \in Values \cup {Zero}} \cup {Error(c) : c \in Codes}

\* Every variable keeps its type: no response has the status 0, and no caller gets
\* a code that is not one of the schema.
TypeOK ==
  /\ clientPc \in {"idle", "marshalled", "do", "received", "inTime", "ok", "returned"}
  /\ asked \in Methods \cup {"none"}
  /\ ctxDone \in BOOLEAN
  /\ request \in Requests \cup {None}
  /\ outcome \in Results \cup {Error(Alien), None}
  /\ serverPc \in {"idle", "method", "responded", "gone"}
  /\ response \in Responses \cup {None}
  /\ received \in Responses \cup {None}
  /\ lost \in BOOLEAN
  /\ result \in Results \cup {None}

\* A caller that is returned a value was asked for by its method, which returned just
\* that: no failure of the method, of the transport or of the context is ever
\* taken for a result.  The one exception is the code of ErrNone, which "should not be used"
\* (chat.gen.go:671-673): its status is 200.
NoFalseSuccess ==
  result.kind = "value" =>
    \/ outcome = result
    \/ outcome = Error("none") /\ result = Value(Zero) /\ asked # "Ping"

\* The caller gets the very code of the method's error, if the transport works and
\* its context lasts (chat.gen.go:295-309, 457-479).
CodesComeBack ==
  clientPc = "returned" /\ ~lost /\ ~ctxDone /\ outcome.kind = "error"
      /\ outcome.code \notin {"none", Alien} =>
    result = outcome

\* The caller of a call that was sent never gets an error that nobody raised: if it
\* does, the method failed, the transport did, or its context ended.
ErrorsHaveACause ==
  result.kind = "error" => ctxDone \/ lost \/ outcome.kind = "error"

\* A call whose context has ended is never returned a value, although its method may
\* have run, and be the only one to know (chat.gen.go:410, 430, 448).
LateIsNoSuccess == [][ctxDone /\ result' # result => result'.kind = "error"]_vars

\* Every call returns, whether the method returns, fails in any way or panics, or the
\* server dies.
CallReturns == clientPc = "marshalled" ~> clientPc = "returned"

\* What a caller is told of the method's end: an error of a code that the schema does
\* not have is told as an internal one, and one of the code of ErrNone as the zero value, which
\* Ping takes for a failure.
Told(m, end) ==
  CASE end.kind = "value" -> end
    [] end = Error("none") /\ m # "Ping" -> Value(Zero)
    [] end.kind = "error" /\ end.code \in Codes \ {"none"} -> end
    [] OTHER -> ClientError

Remote ==
  INSTANCE RemoteCall WITH
    Ends <- Results \cup {Error(Alien)}, Failures <- {ClientError, Error("none")}

\* Client and server together are one call: the method runs at most once for it, and
\* the caller is returned once, and nothing but what the method's end tells, the
\* client's own error, or that of a gateway without a code, wherever the context, the
\* transport, the server or the front fails (chat.gen.go:121-171, 405-479).
ImplementsRemoteCall == Remote!Spec
=============================================================================
