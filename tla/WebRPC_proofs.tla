---------------------------- MODULE WebRPC_proofs ----------------------------
(***************************************************************************)
(* What TLAPS proves about one call through the generated client and       *)
(* server, for any values that methods return.                             *)
(***************************************************************************)
EXTENDS WebRPC, TLAPS

(* The inductive invariant.  What the caller is returned is tied to what   *)
(* the method did by the whole chain between them: the request is the one  *)
(* of the method that was asked for, the response tells how the method has *)
(* ended, and the client has received that response or lost its own.       *)

\* The caller has asked for a method, and the client has sent its request.
Requested ==
  /\ clientPc = "idle" <=> asked = "none"
  /\ clientPc = "marshalled" => request = None
  /\ clientPc \in {"do", "received", "inTime", "ok"} => request # None
  /\ clientPc # "idle" /\ request # None => \E h \in Headers : request = RequestFor(asked, h)

\* The server works on a request, and a method that has ended was answered for.
Served ==
  /\ serverPc \in {"method", "responded"} => request # None
  /\ response # None <=> serverPc = "responded"
  /\ outcome # None => response # None

\* A response is a refusal, which a request of the client gets of nobody but the mux, or
\* it says how the method has ended.
Answered ==
  response # None =>
    \/ outcome = None /\ response.status >= 400 /\ (clientPc # "idle" => lost /\ response.body = Text)
    \/ outcome.kind = "value" /\ response = Response(200, outcome)
    \/ outcome.kind = "error" /\ response = RespondWithError(outcome.code)

\* What the client has received is the server's response, or the transport's fault.
Received ==
  /\ clientPc \in {"received", "inTime", "ok"} => received # None
  /\ received # None => clientPc \in {"received", "inTime", "ok", "returned"}
  /\ received # None =>
       received = response \/ (lost /\ received \in Gateways)
  /\ clientPc = "ok" => received.status = 200

\* A call that returns in time and over a transport that works was answered.
Returned ==
  /\ result # None <=> clientPc = "returned"
  /\ clientPc = "returned" /\ ~lost /\ ~ctxDone => response # None

IInv ==
  /\ TypeOK /\ Requested /\ Served /\ Answered /\ Received /\ Returned
  /\ NoFalseSuccess /\ CodesComeBack /\ ErrorsHaveACause

-----------------------------------------------------------------------------
(* Errors and responses.                                                   *)

\* HTTPStatusFromErrorCode, code by code.
LEMMA StatusTable ==
  /\ Status("canceled") = 408 /\ Status("deadline_exceeded") = 408
  /\ Status("unknown") = 400 /\ Status("invalid_argument") = 400 /\ Status("out_of_range") = 400
  /\ Status("fail") = 422 /\ Status("not_found") = 404 /\ Status("bad_route") = 404
  /\ Status("already_exists") = 409 /\ Status("aborted") = 409
  /\ Status("permission_denied") = 403 /\ Status("resource_exhausted") = 403
  /\ Status("unauthenticated") = 401 /\ Status("failed_precondition") = 412
  /\ Status("unimplemented") = 501 /\ Status("internal") = 500 /\ Status("data_loss") = 500
  /\ Status("unavailable") = 503 /\ Status("none") = 200 /\ Status(Alien) = 0
BY DEF Status, Alien

\* Every code of the schema has a status, and only the code of ErrNone has that of success.
LEMMA StatusOfCode ==
  ASSUME NEW c \in Codes
  PROVE  /\ Status(c) \in Nat /\ Status(c) # 0
         /\ Status(c) = 200 <=> c = "none"
         /\ c # "none" => Status(c) >= 400
BY StatusTable DEF Codes

\* The codes that are written out.
LEMMA KnownStatus ==
  /\ Status(Alien) = 0 /\ Alien \notin Codes /\ Alien # "none"
  /\ Status("internal") = 500 /\ Status("not_found") = 404 /\ Status("none") = 200
  /\ {"internal", "not_found", "bad_route", "invalid_argument", "none"} \subseteq Codes
BY StatusTable DEF Codes, Alien

\* WrapError makes codes of the schema.
LEMMA WrappedCode ==
  ASSUME NEW c \in Codes \cup {Alien}
  PROVE  WrapError(c) \in Codes
BY KnownStatus DEF WrapError

\* Errors have a code.
LEMMA ErrorFields == \A c : Error(c).kind = "error" /\ Error(c).code = c
BY DEF Error

\* Errors are told apart by their codes, and from a text.
LEMMA ErrorsDiffer ==
  ASSUME NEW c \in Codes
  PROVE  Error(c).kind = "error" /\ Error(c).code = c /\ Error(c) # Text /\ Error(c) # Error(Alien)
<1>1. c # Alien
  BY KnownStatus
<1>2. Error(c).code = c /\ Error(Alien).code = Alien
  BY DEF Error
<1>3. Error(c).kind = "error" /\ Text.kind = "text"
  BY DEF Error, Text
<1> QED
  BY <1>1, <1>2, <1>3

\* The bodies are of three kinds.
LEMMA Kinds ==
  /\ \A b \in Bodies : b.kind \in {"value", "error", "text"}
  /\ \A b \in Bodies : b.kind = "value" => b.value \in Values \cup {Zero} /\ b = Value(b.value)
  /\ \A b \in Bodies : b.kind = "error" => b.code \in Codes \cup {Alien} /\ b = Error(b.code)
  /\ \A b \in Bodies : b.kind = "text" <=> b = Text
  /\ None.kind = "none"
BY DEF Bodies, Value, Error, Text, None

\* A result, or an end, is a value or an error of a code.
LEMMA ResultKinds ==
  \A r \in Results \cup {Error(Alien)} :
    /\ r # None
    /\ \/ r.kind = "value" /\ r.value \in Values \cup {Zero} /\ r = Value(r.value)
       \/ r.kind = "error" /\ r.code \in Codes \cup {Alien} /\ r = Error(r.code)
BY DEF Results, Value, Error, None

\* A response is none, or has a status and a body.
LEMMA ResponseFields ==
  /\ \A r \in Responses : r.status \in Statuses /\ r.body \in Bodies /\ r # None
  /\ \A n, b : Response(n, b).status = n /\ Response(n, b).body = b /\ Response(n, b) # None
  /\ \A n \in Statuses, b \in Bodies : Response(n, b) \in Responses
BY DEF Responses, Response, None

\* The codes and statuses that are written out.
LEMMA KnownResponses ==
  /\ 200 \in Statuses /\ 500 \in Statuses /\ 404 \in Statuses /\ 405 \in Statuses /\ 502 \in Statuses
  /\ ClientError \in Results /\ ClientError.kind = "error" /\ ClientError = Error("internal")
  /\ {"internal", "bad_route", "invalid_argument", "none"} \subseteq Codes
  /\ \A v \in Values \cup {Zero} : Value(v) \in Results /\ Value(v) \in Bodies
  /\ \A c \in Codes : Error(c) \in Results /\ Error(c) \in Bodies
  /\ Error(Alien) \in Bodies /\ Text \in Bodies
<1>1. {"internal", "bad_route", "invalid_argument", "none"} \subseteq Codes
  BY KnownStatus
<1>2. 200 \in Statuses /\ 500 \in Statuses /\ 404 \in Statuses /\ 405 \in Statuses /\ 502 \in Statuses
  <2>1. \A c \in Codes : Status(c) \in Statuses
    BY DEF Statuses
  <2>2. 405 \in Statuses /\ 502 \in Statuses
    BY DEF Statuses
  <2>3. Status("internal") \in Statuses /\ Status("not_found") \in Statuses /\ Status("none") \in Statuses
    <3>1. "internal" \in Codes /\ "not_found" \in Codes /\ "none" \in Codes
      BY DEF Codes
    <3> QED
      BY <2>1, <3>1
  <2>4. Status("internal") = 500 /\ Status("not_found") = 404 /\ Status("none") = 200
    BY KnownStatus
  <2> QED
    BY <2>2, <2>3, <2>4
<1>3. ClientError \in Results /\ ClientError.kind = "error" /\ ClientError = Error("internal")
  BY <1>1 DEF ClientError, Results, Error
<1> QED
  BY <1>1, <1>2, <1>3 DEF Results, Bodies

\* What the server answers an error with is a response, of a status that is none of
\* success, and tells its code, unless the code is that of ErrNone or not of the schema.
LEMMA ErrorResponse ==
  ASSUME NEW c \in Codes \cup {Alien}
  PROVE  /\ RespondWithError(c) \in Responses
         /\ RespondWithError(c) # None
         /\ RespondWithError(c).status \in Nat
         /\ RespondWithError(c).status = 200 <=> c = "none"
         /\ c # "none" => RespondWithError(c).status >= 400
         /\ c # Alien => RespondWithError(c).body = Error(c)
         /\ c = Alien => RespondWithError(c).body = Text
<1>1. Error(c) \in Bodies /\ Text \in Bodies
  BY DEF Bodies
<1>2. CASE c = Alien
  <2>1. RespondWithError(c) = Response(500, Text)
    BY <1>2, KnownStatus DEF RespondWithError
  <2>2. 500 \in Statuses
    BY KnownResponses
  <2> QED
    BY <1>1, <1>2, <2>1, <2>2, ResponseFields DEF Alien
<1>3. CASE c \in Codes
  <2>3. /\ Status(c) \in Nat /\ Status(c) # 0
        /\ Status(c) = 200 <=> c = "none"
        /\ c # "none" => Status(c) >= 400
    BY <1>3, StatusOfCode
  <2>1. RespondWithError(c) = Response(Status(c), Error(c))
    BY <2>3 DEF RespondWithError
  <2>2. Status(c) \in Statuses
    BY <1>3 DEF Statuses
  <2> QED
    BY <1>1, <1>3, <2>1, <2>2, <2>3, KnownStatus, ResponseFields
<1> QED
  BY <1>2, <1>3

\* A request of the generated client names the method that was called and is served.
LEMMA ClientRequest ==
  ASSUME NEW mm \in Methods, NEW h \in Headers
  PROVE  /\ RequestFor(mm, h) \in Requests /\ RequestFor(mm, h) # None
         /\ RequestFor(mm, h).path = mm
         /\ WellRouted(RequestFor(mm, h)) /\ Decodes(RequestFor(mm, h))
<1>1. Head(ContentTypes(h)) = "json"
  BY DEF ContentTypes
<1> QED
  BY <1>1 DEF RequestFor, Requests, WellRouted, Decodes, None

\* What errorFromResponse makes is an error of the schema, the server's own if it has one.
LEMMA ErrorOfResponse ==
  ASSUME NEW b \in Bodies, b.kind # "value"
  PROVE  /\ ErrorFromResponse(b) \in Results
         /\ ErrorFromResponse(b).kind = "error"
         /\ b = Text \/ b = Error(Alien) => ErrorFromResponse(b) = ClientError
         /\ \A c \in Codes : b = Error(c) => ErrorFromResponse(b) = b
<1>1. CASE b = Text \/ b = Error(Alien)
  <2>1. ErrorFromResponse(b) = ClientError
    <3>1. CASE b = Text
      BY <3>1 DEF ErrorFromResponse, ClientError, Text
    <3>2. CASE b = Error(Alien)
      BY <3>2, KnownStatus DEF ErrorFromResponse, ClientError, Error
    <3> QED
      BY <1>1, <3>1, <3>2
  <2>2. \A c \in Codes : b # Error(c)
    BY <1>1, ErrorsDiffer
  <2> QED
    BY <2>1, <2>2, KnownResponses
<1>2. CASE \E c \in Codes : b = Error(c)
  <2>1. PICK c \in Codes : b = Error(c)
    BY <1>2
  <2>2. b.kind = "error" /\ b.code = c /\ Status(c) # 0
    BY <2>1, StatusOfCode, ErrorsDiffer
  <2>3. ErrorFromResponse(b) = b
    BY <2>1, <2>2 DEF ErrorFromResponse
  <2>4. b # Text /\ b # Error(Alien)
    BY <2>1, ErrorsDiffer
  <2> QED
    BY <2>1, <2>2, <2>3, <2>4, KnownResponses
<1> QED
  BY <1>1, <1>2, Kinds

\* What the client has received tells how the method has ended, unless the call is lost:
\* a status of success comes with the result, or with the error whose code is that of
\* ErrNone, and any other with the method's error or none that it could raise.
LEMMA WhatIsReceived ==
  ASSUME IInv, received # None
  PROVE  /\ received \in Responses
         /\ received.status = 200 =>
              /\ received.body = outcome
              /\ outcome.kind = "value" \/ outcome = Error("none")
         /\ received.status # 200 =>
              LET e == ErrorFromResponse(received.body) IN
              /\ e \in Results /\ e.kind = "error"
              /\ \/ e = ClientError
                 \/ e = Error("none") /\ lost
                 \/ e = outcome /\ outcome.code \notin {"none", Alien}
              /\ ~lost => outcome.kind = "error"
              /\ ~lost /\ outcome.code # Alien => e = outcome
<1>1. received \in Responses /\ response \in Responses \cup {None} /\ clientPc # "idle"
  BY DEF IInv, TypeOK, Received
<1>2. CASE received \in Gateways /\ lost
  <2>1. received.status # 200 /\ received.body \in {Text, Error(Alien), Error("none")}
    BY <1>2, ResponseFields DEF Gateways
  <2>2. received.body \in Bodies /\ received.body.kind # "value"
    BY <2>1, KnownResponses, ErrorFields, Kinds
  <2>3. ErrorFromResponse(received.body) \in {ClientError, Error("none")}
    BY <2>1, <2>2, ErrorOfResponse, KnownResponses
  <2> QED
    BY <1>1, <1>2, <2>1, <2>2, <2>3, ErrorOfResponse
<1>3. CASE received = response /\ outcome = None
  <2>1. response.status >= 400 /\ lost /\ response.body = Text
    BY <1>1, <1>3, ResultKinds, Kinds DEF IInv, Answered
  <2>2. received.status # 200 /\ received.body = Text /\ Text \in Bodies /\ Text.kind # "value"
    BY <1>3, <2>1, KnownResponses, Kinds
  <2> QED
    BY <1>1, <2>1, <2>2, ErrorOfResponse, KnownResponses
<1>4. CASE received = response /\ outcome.kind = "value"
  BY <1>1, <1>4, ResponseFields, Kinds DEF IInv, Answered
<1>5. CASE received = response /\ outcome.kind = "error"
  <2>1. /\ outcome.code \in Codes \cup {Alien} /\ outcome = Error(outcome.code)
        /\ received = RespondWithError(outcome.code)
    BY <1>1, <1>5, ResultKinds, Kinds DEF IInv, Answered, TypeOK
  <2>2. CASE outcome.code = Alien
    <3>1. received.status # 200 /\ received.body = Text /\ Text \in Bodies /\ Text.kind # "value"
      BY <2>1, <2>2, ErrorResponse, KnownStatus, KnownResponses, Kinds
    <3> QED
      BY <1>1, <1>5, <2>2, <3>1, ErrorOfResponse, KnownResponses
  <2>3. CASE outcome.code # Alien
    <3>1. outcome.code \in Codes /\ received.body = outcome /\ outcome \in Bodies
      BY <2>1, <2>3, ErrorResponse, KnownResponses
    <3>2. received.status = 200 => outcome = Error("none")
      BY <2>1, ErrorResponse
    <3>3. received.status # 200 => outcome.code # "none"
      BY <2>1, ErrorResponse
    <3>4. /\ ErrorFromResponse(received.body) = outcome
          /\ ErrorFromResponse(received.body) \in Results
      BY <1>5, <2>1, <3>1, ErrorOfResponse
    <3> QED
      BY <1>1, <1>5, <2>3, <3>1, <3>2, <3>3, <3>4
  <2> QED
    BY <2>2, <2>3
<1>6. received = response \/ (lost /\ received \in Gateways)
  BY DEF IInv, Received
<1>7. outcome = None \/ outcome.kind \in {"value", "error"}
  BY ResultKinds DEF IInv, TypeOK
<1> QED
  BY <1>2, <1>3, <1>4, <1>5, <1>6, <1>7

\* What the method's end tells the caller, in the words of the generated client.
LEMMA UnmarshalTells ==
  ASSUME IInv, received # None, received.status = 200
  PROVE  /\ Unmarshal(received.body) \in Results
         /\ \/ Unmarshal(received.body) = outcome /\ outcome.kind = "value"
            \/ Unmarshal(received.body) = Value(Zero) /\ outcome = Error("none") /\ asked # "Ping"
            \/ Unmarshal(received.body) = ClientError /\ outcome = Error("none") /\ asked = "Ping"
<1>1. received.body = outcome /\ (outcome.kind = "value" \/ outcome = Error("none"))
  BY WhatIsReceived
<1>2. outcome \in Results \cup {Error(Alien), None} /\ asked \in Methods \cup {"none"}
  BY DEF IInv, TypeOK
<1>3. CASE outcome.kind = "value"
  <2>1. outcome = Value(outcome.value) /\ outcome.value \in Values \cup {Zero}
    BY <1>2, <1>3, ResultKinds, Kinds
  <2>2. Unmarshal(outcome) = outcome
    BY <1>3, <2>1 DEF Unmarshal
  <2> QED
    BY <1>1, <1>3, <2>1, <2>2, KnownResponses
<1>4. CASE outcome = Error("none")
  <2>1. Unmarshal(outcome) = IF asked # "Ping" THEN Value(Zero) ELSE ClientError
    BY <1>4, ErrorFields DEF Unmarshal
  <2> QED
    BY <1>1, <1>4, <2>1, KnownResponses
<1> QED
  BY <1>1, <1>3, <1>4

-----------------------------------------------------------------------------
(* The inductive invariant.                                                *)

LEMMA InitIInv == Init => IInv
<1> SUFFICES ASSUME Init PROVE IInv
  OBVIOUS
<1>1. None.kind = "none"
  BY DEF None
<1>2. TypeOK
  BY DEF Init, TypeOK
<1>3. Requested /\ Served /\ Answered /\ Received /\ Returned
  BY DEF Init, Requested, Served, Answered, Received, Returned
<1>4. NoFalseSuccess /\ CodesComeBack /\ ErrorsHaveACause
  BY <1>1 DEF Init, NoFalseSuccess, CodesComeBack, ErrorsHaveACause
<1> QED
  BY <1>2, <1>3, <1>4 DEF IInv

LEMMA ServeBadRouteKeeps == IInv /\ ServeBadRoute => IInv'
<1> SUFFICES ASSUME IInv, ServeBadRoute PROVE IInv'
  OBVIOUS
<1> USE DEF IInv, ServeBadRoute, Responds, clientVars, serverVars
<1>1. /\ Requested' /\ Received' /\ Returned' /\ NoFalseSuccess' /\ CodesComeBack'
      /\ ErrorsHaveACause'
  BY DEF Requested, Served, Received, Returned, NoFalseSuccess, CodesComeBack,
     ErrorsHaveACause
<1>2. TypeOK' /\ Served'
  BY ErrorResponse, KnownStatus DEF TypeOK, Served
<1>3. Answered'
  BY ErrorResponse, KnownStatus, ClientRequest DEF TypeOK, Requested, Served, Answered
<1> QED
  BY <1>1, <1>2, <1>3

LEMMA ServeBadBodyKeeps == IInv /\ ServeBadBody => IInv'
<1> SUFFICES ASSUME IInv, ServeBadBody PROVE IInv'
  OBVIOUS
<1> USE DEF IInv, ServeBadBody, Responds, clientVars, serverVars
<1>1. /\ Requested' /\ Received' /\ Returned' /\ NoFalseSuccess' /\ CodesComeBack'
      /\ ErrorsHaveACause'
  BY DEF Requested, Served, Received, Returned, NoFalseSuccess, CodesComeBack,
     ErrorsHaveACause
<1>2. TypeOK' /\ Served'
  BY ErrorResponse, KnownStatus DEF TypeOK, Served
<1>3. Answered'
  BY ErrorResponse, KnownStatus, ClientRequest DEF TypeOK, Requested, Served, Answered
<1> QED
  BY <1>1, <1>2, <1>3

LEMMA ServeKeeps == IInv /\ Serve => IInv'
<1> SUFFICES ASSUME IInv, Serve PROVE IInv'
  OBVIOUS
<1> USE DEF IInv, Serve, clientVars, serverVars
<1>1. /\ TypeOK' /\ Requested' /\ Served' /\ Answered' /\ Received' /\ Returned'
      /\ NoFalseSuccess' /\ CodesComeBack' /\ ErrorsHaveACause'
  BY DEF TypeOK, Requested, Served, Answered, Received, Returned, NoFalseSuccess,
     CodesComeBack, ErrorsHaveACause
<1> QED
  BY <1>1

LEMMA MethodReturnsKeeps == IInv /\ MethodReturns => IInv'
<1> SUFFICES ASSUME IInv, MethodReturns PROVE IInv'
  OBVIOUS
<1> USE DEF IInv, MethodReturns, Responds, clientVars, serverVars
<1>1. Requested' /\ Received' /\ Returned' /\ CodesComeBack'
  BY DEF Requested, Served, Received, Returned, CodesComeBack
<1>2. TypeOK'
  BY ResponseFields, KnownResponses DEF TypeOK
<1>3. Served'
  BY ResponseFields DEF Served
<1>4. NoFalseSuccess'
  BY Kinds, KnownResponses DEF Served, NoFalseSuccess
<1>5. ErrorsHaveACause'
  BY Kinds DEF Served, ErrorsHaveACause
<1>6. Answered'
  <2>1. PICK v : outcome' = Value(v) /\ response' = Response(200, Value(v))
    OBVIOUS
  <2> QED
    BY <2>1 DEF Value, Answered
<1> QED
  BY <1>1, <1>2, <1>3, <1>4, <1>5, <1>6

LEMMA MethodFailsKeeps == IInv /\ MethodFails => IInv'
<1> SUFFICES ASSUME IInv, MethodFails PROVE IInv'
  OBVIOUS
<1> USE DEF IInv, MethodFails, Responds, clientVars, serverVars
<1>1. Requested' /\ Received' /\ Returned' /\ CodesComeBack'
  BY DEF Requested, Served, Received, Returned, CodesComeBack
<1>2. TypeOK'
  BY ErrorResponse, KnownResponses, WrappedCode DEF TypeOK
<1>3. Served'
  BY ErrorResponse, WrappedCode DEF Served
<1>4. NoFalseSuccess'
  BY Kinds, KnownResponses DEF Served, NoFalseSuccess
<1>5. ErrorsHaveACause'
  BY Kinds DEF Served, ErrorsHaveACause
<1>6. Answered'
  <2>1. PICK c : outcome' = Error(c) /\ response' = RespondWithError(c)
    OBVIOUS
  <2> QED
    BY <2>1, ErrorFields DEF Answered
<1> QED
  BY <1>1, <1>2, <1>3, <1>4, <1>5, <1>6

LEMMA MethodPanicsKeeps == IInv /\ MethodPanics => IInv'
<1> SUFFICES ASSUME IInv, MethodPanics PROVE IInv'
  OBVIOUS
<1> USE DEF IInv, MethodPanics, Responds, clientVars, serverVars
<1>1. Requested' /\ Received' /\ Returned' /\ CodesComeBack'
  BY DEF Requested, Served, Received, Returned, CodesComeBack
<1>2. TypeOK'
  BY ErrorResponse, KnownResponses DEF TypeOK
<1>3. Served'
  BY ErrorResponse, KnownStatus DEF Served
<1>4. Answered'
  BY KnownStatus, ErrorsDiffer DEF Answered
<1>5. NoFalseSuccess'
  BY Kinds, KnownResponses DEF Served, NoFalseSuccess
<1>6. ErrorsHaveACause'
  BY KnownResponses DEF ErrorsHaveACause
<1> QED
  BY <1>1, <1>2, <1>3, <1>4, <1>5, <1>6

LEMMA FrontRefusesKeeps ==
  IInv /\ (\E status \in {404, 405, 500} : FrontRefuses(status)) => IInv'
<1> SUFFICES ASSUME IInv, \E status \in {404, 405, 500} : FrontRefuses(status) PROVE IInv'
  OBVIOUS
<1> USE DEF IInv, FrontRefuses, Responds, clientVars, serverVars
<1>1. /\ Requested' /\ Received' /\ Returned' /\ NoFalseSuccess' /\ CodesComeBack'
      /\ ErrorsHaveACause'
  BY DEF Requested, Served, Received, Returned, NoFalseSuccess, CodesComeBack,
     ErrorsHaveACause
<1>2. TypeOK'
  BY ResponseFields, KnownResponses DEF TypeOK
<1>3. Served'
  BY ResponseFields DEF Served
<1>4. Answered'
  <2>1. PICK n \in {404, 405, 500} : FrontRefuses(n)
    OBVIOUS
  <2>2. response' = Response(n, Text) /\ lost' /\ outcome' = outcome
    BY <2>1
  <2>3. outcome = None
    BY <2>1 DEF Served
  <2> QED
    BY <2>2, <2>3, ResponseFields DEF Answered
<1> QED
  BY <1>1, <1>2, <1>3, <1>4

LEMMA DiesKeeps == IInv /\ Dies => IInv'
<1> SUFFICES ASSUME IInv, Dies PROVE IInv'
  OBVIOUS
<1> USE DEF IInv, Dies, clientVars, serverVars
<1>1. /\ TypeOK' /\ Requested' /\ Served' /\ Answered' /\ Received' /\ Returned'
      /\ NoFalseSuccess' /\ CodesComeBack' /\ ErrorsHaveACause'
  BY DEF TypeOK, Requested, Served, Answered, Received, Returned, NoFalseSuccess,
     CodesComeBack, ErrorsHaveACause
<1> QED
  BY <1>1

LEMMA CallKeeps == IInv /\ (\E mm \in Methods : Call(mm)) => IInv'
<1> SUFFICES ASSUME IInv, \E mm \in Methods : Call(mm) PROVE IInv'
  OBVIOUS
<1> USE DEF IInv, Call, Methods, clientVars, serverVars
<1>1. /\ TypeOK' /\ Requested' /\ Served' /\ Answered' /\ Received' /\ Returned'
      /\ NoFalseSuccess' /\ CodesComeBack' /\ ErrorsHaveACause'
  BY DEF TypeOK, Requested, Served, Answered, Received, Returned, NoFalseSuccess,
     CodesComeBack, ErrorsHaveACause
<1> QED
  BY <1>1

LEMMA AbortsKeeps == IInv /\ Aborts => IInv'
<1> SUFFICES ASSUME IInv, Aborts PROVE IInv'
  OBVIOUS
<1> USE DEF IInv, Aborts, Returns, clientVars, serverVars
<1>1. /\ Requested' /\ Served' /\ Answered' /\ Received' /\ CodesComeBack'
      /\ ErrorsHaveACause'
  BY DEF Requested, Served, Answered, Received, CodesComeBack, ErrorsHaveACause
<1>2. TypeOK' /\ NoFalseSuccess'
  BY KnownResponses DEF TypeOK, NoFalseSuccess
<1>3. Returned'
  BY ResultKinds, KnownResponses DEF Returned
<1> QED
  BY <1>1, <1>2, <1>3

LEMMA SendKeeps == IInv /\ Send => IInv'
<1> SUFFICES ASSUME IInv, Send PROVE IInv'
  OBVIOUS
<1> USE DEF IInv, Send, WithHTTPRequestHeaders, clientVars, serverVars
<1>1. Served' /\ Answered' /\ Received' /\ Returned' /\ NoFalseSuccess' /\ CodesComeBack'
   /\ ErrorsHaveACause'
  BY DEF Requested, Served, Answered, Received, Returned, NoFalseSuccess, CodesComeBack,
     ErrorsHaveACause
<1>2. TypeOK' /\ Requested'
  BY ClientRequest DEF TypeOK, Requested
<1> QED
  BY <1>1, <1>2

LEMMA DoFailsKeeps == IInv /\ DoFails => IInv'
<1> SUFFICES ASSUME IInv, DoFails PROVE IInv'
  OBVIOUS
<1> USE DEF IInv, DoFails, Returns, clientVars, serverVars
<1>1. /\ Requested' /\ Served' /\ Answered' /\ Received' /\ CodesComeBack'
      /\ ErrorsHaveACause'
  BY DEF Requested, Served, Answered, Received, CodesComeBack, ErrorsHaveACause
<1>2. TypeOK' /\ NoFalseSuccess'
  BY KnownResponses DEF TypeOK, NoFalseSuccess
<1>3. Returned'
  BY ResultKinds, KnownResponses DEF Returned
<1> QED
  BY <1>1, <1>2, <1>3

LEMMA DoReturnsKeeps == IInv /\ DoReturns => IInv'
<1> SUFFICES ASSUME IInv, DoReturns PROVE IInv'
  OBVIOUS
<1> USE DEF IInv, DoReturns, clientVars, serverVars
<1>1. /\ TypeOK' /\ Requested' /\ Served' /\ Answered' /\ Received' /\ Returned'
      /\ NoFalseSuccess' /\ CodesComeBack' /\ ErrorsHaveACause'
  BY DEF TypeOK, Requested, Served, Answered, Received, Returned, NoFalseSuccess,
     CodesComeBack, ErrorsHaveACause
<1> QED
  BY <1>1

LEMMA GatewayAnswersKeeps == IInv /\ GatewayAnswers => IInv'
<1> SUFFICES ASSUME IInv, GatewayAnswers PROVE IInv'
  OBVIOUS
<1> USE DEF IInv, GatewayAnswers, clientVars, serverVars
<1>1. /\ Requested' /\ Served' /\ Answered' /\ Returned' /\ NoFalseSuccess'
      /\ CodesComeBack' /\ ErrorsHaveACause'
  BY DEF Requested, Served, Answered, Returned, NoFalseSuccess, CodesComeBack,
     ErrorsHaveACause
<1>2. TypeOK'
  BY ResponseFields, KnownResponses DEF TypeOK, Gateways
<1>3. Received'
  BY ResponseFields DEF Received, Gateways
<1> QED
  BY <1>1, <1>2, <1>3

LEMMA LooksAtContextKeeps == IInv /\ LooksAtContext => IInv'
<1> SUFFICES ASSUME IInv, LooksAtContext PROVE IInv'
  OBVIOUS
<1> USE DEF IInv, LooksAtContext, Returns, clientVars, serverVars
<1>1. /\ Requested' /\ Served' /\ Answered' /\ Received' /\ CodesComeBack'
      /\ ErrorsHaveACause'
  BY DEF Requested, Served, Answered, Received, CodesComeBack, ErrorsHaveACause
<1>2. TypeOK' /\ NoFalseSuccess'
  BY KnownResponses DEF TypeOK, NoFalseSuccess
<1>3. Returned'
  BY ResultKinds, KnownResponses DEF Returned
<1> QED
  BY <1>1, <1>2, <1>3

LEMMA LooksAtStatusKeeps == IInv /\ LooksAtStatus => IInv'
<1> SUFFICES ASSUME IInv, LooksAtStatus PROVE IInv'
  OBVIOUS
<1> USE DEF IInv, LooksAtStatus, Returns, clientVars, serverVars
<1>1. Requested' /\ Served' /\ Answered' /\ Received'
  BY DEF Requested, Served, Answered, Received
<1>2. TypeOK' /\ NoFalseSuccess' /\ CodesComeBack' /\ ErrorsHaveACause'
  BY WhatIsReceived DEF TypeOK, Received, NoFalseSuccess, CodesComeBack, ErrorsHaveACause
<1>3. Returned'
  BY ResultKinds, WhatIsReceived DEF Received, Returned
<1> QED
  BY <1>1, <1>2, <1>3

LEMMA ReadFailsKeeps == IInv /\ ReadFails => IInv'
<1> SUFFICES ASSUME IInv, ReadFails PROVE IInv'
  OBVIOUS
<1> USE DEF IInv, ReadFails, Returns, clientVars, serverVars
<1>1. /\ Requested' /\ Served' /\ Answered' /\ Received' /\ CodesComeBack'
      /\ ErrorsHaveACause'
  BY DEF Requested, Served, Answered, Received, CodesComeBack, ErrorsHaveACause
<1>2. TypeOK' /\ NoFalseSuccess'
  BY KnownResponses DEF TypeOK, NoFalseSuccess
<1>3. Returned'
  BY ResultKinds, KnownResponses DEF Returned
<1> QED
  BY <1>1, <1>2, <1>3

LEMMA DecodeKeeps == IInv /\ Decode => IInv'
<1> SUFFICES ASSUME IInv, Decode PROVE IInv'
  OBVIOUS
<1> USE DEF IInv, Decode, Returns, Unmarshal, clientVars, serverVars
<1>1. Requested' /\ Served' /\ Answered' /\ Received'
  BY DEF Requested, Served, Answered, Received
<1>2. TypeOK' /\ NoFalseSuccess'
  BY KnownResponses, UnmarshalTells DEF TypeOK, Received, NoFalseSuccess
<1>3. Returned'
  BY ResultKinds, KnownResponses, UnmarshalTells DEF Received, Returned
<1>4. CodesComeBack'
  BY KnownStatus, ErrorsDiffer, WhatIsReceived DEF Received, CodesComeBack
<1>5. ErrorsHaveACause'
  BY ResultKinds, KnownResponses, WhatIsReceived, UnmarshalTells DEF Received,
     ErrorsHaveACause
<1> QED
  BY <1>1, <1>2, <1>3, <1>4, <1>5

LEMMA ContextEndsKeeps == IInv /\ ContextEnds => IInv'
<1> SUFFICES ASSUME IInv, ContextEnds PROVE IInv'
  OBVIOUS
<1> USE DEF IInv, ContextEnds, clientVars, serverVars
<1>1. /\ TypeOK' /\ Requested' /\ Served' /\ Answered' /\ Received' /\ Returned'
      /\ NoFalseSuccess' /\ CodesComeBack' /\ ErrorsHaveACause'
  BY DEF TypeOK, Requested, Served, Answered, Received, Returned, NoFalseSuccess,
     CodesComeBack, ErrorsHaveACause
<1> QED
  BY <1>1

LEMMA OtherClientSendsKeeps == IInv /\ OtherClientSends => IInv'
<1> SUFFICES ASSUME IInv, OtherClientSends PROVE IInv'
  OBVIOUS
<1> USE DEF IInv, OtherClientSends, clientVars, serverVars
<1>1. /\ TypeOK' /\ Requested' /\ Served' /\ Answered' /\ Received' /\ Returned'
      /\ NoFalseSuccess' /\ CodesComeBack' /\ ErrorsHaveACause'
  BY DEF TypeOK, Requested, Served, Answered, Received, Returned, NoFalseSuccess,
     CodesComeBack, ErrorsHaveACause
<1> QED
  BY <1>1

\* The invariant is inductive.
LEMMA NextIInv == IInv /\ [Next]_vars => IInv'
<1> SUFFICES ASSUME IInv, [Next]_vars PROVE IInv'
  OBVIOUS
<1>1. CASE Client
  BY <1>1, AbortsKeeps, SendKeeps, DoFailsKeeps, DoReturnsKeeps, LooksAtContextKeeps,
     LooksAtStatusKeeps, DecodeKeeps DEF Client, DoNoticesDeath
<1>2. CASE Transport
  BY <1>2, DoFailsKeeps, GatewayAnswersKeeps, ReadFailsKeeps DEF Transport
<1>3. CASE Server
  BY <1>3, ServeBadRouteKeeps, ServeBadBodyKeeps, ServeKeeps, MethodReturnsKeeps,
     MethodFailsKeeps, MethodPanicsKeeps DEF Server
<1>4. CASE UNCHANGED vars
  BY <1>4 DEF vars, clientVars, serverVars, IInv, TypeOK, Requested, Served, Answered, Received,
     Returned, NoFalseSuccess, CodesComeBack, ErrorsHaveACause
<1> QED
  BY <1>1, <1>2, <1>3, <1>4, CallKeeps, FrontRefusesKeeps, DiesKeeps, ContextEndsKeeps,
     OtherClientSendsKeeps DEF Next

-----------------------------------------------------------------------------
(* Theorems.                                                               *)

LEMMA Inductive == Spec => []IInv
BY InitIInv, NextIInv, PTL DEF Spec

\* Every variable keeps its type: no response has the status 0, and no caller gets a
\* code that the schema does not have.
THEOREM TypeCorrect == Spec => []TypeOK
<1>1. IInv => TypeOK
  BY DEF IInv
<1> QED
  BY <1>1, Inductive, PTL

\* No failure of the method, the transport or the context is taken for a result.
THEOREM ResultsAreTheMethods == Spec => []NoFalseSuccess
<1>1. IInv => NoFalseSuccess
  BY DEF IInv
<1> QED
  BY <1>1, Inductive, PTL

\* The caller gets the code of the method's error.
THEOREM CodesAreTheMethods == Spec => []CodesComeBack
<1>1. IInv => CodesComeBack
  BY DEF IInv
<1> QED
  BY <1>1, Inductive, PTL

\* No caller gets an error that nobody raised.
THEOREM ErrorsAreSomeones == Spec => []ErrorsHaveACause
<1>1. IInv => ErrorsHaveACause
  BY DEF IInv
<1> QED
  BY <1>1, Inductive, PTL

\* A call whose context has ended is never returned a value.
THEOREM LateCallsFail == Spec => LateIsNoSuccess
<1>1. IInv /\ [Next]_vars => [ctxDone /\ result' # result => result'.kind = "error"]_vars
  <2> SUFFICES ASSUME IInv, Next, ctxDone, result' # result PROVE result'.kind = "error"
    BY DEF vars, clientVars
  <2>1. CASE Client
    <3>1. CASE LooksAtStatus
      <4>1. received # None
        BY <3>1 DEF LooksAtStatus, IInv, Received
      <4> QED
        BY <3>1, <4>1, WhatIsReceived DEF LooksAtStatus, Returns
    <3> QED
      BY <2>1, <3>1, KnownResponses DEF Client, Aborts, Send, DoNoticesDeath, DoFails, DoReturns,
         LooksAtContext, Decode, Returns
  <2>2. CASE Transport
    BY <2>2, KnownResponses DEF Transport, DoFails, GatewayAnswers, ReadFails, Returns
  <2>3. CASE Server
    BY <2>3 DEF Server, ServeBadRoute, ServeBadBody, Serve, MethodReturns, MethodFails,
       MethodPanics, clientVars
  <2> QED
    BY <2>1, <2>2, <2>3 DEF Next, Call, FrontRefuses, Dies, ContextEnds, OtherClientSends,
       clientVars
<1> QED
  BY <1>1, Inductive, PTL DEF Spec, LateIsNoSuccess

-----------------------------------------------------------------------------
(* Refinement.                                                             *)

\* The caller is returned what the abstract call tells, or fails.
LEMMA ReturnTells ==
  ASSUME IInv, clientPc # "idle", result = None, UNCHANGED <<asked, outcome>>,
         \/ result' \in {ClientError, Error("none")}
         \/ result' = Told(asked, outcome) /\ outcome # None
  PROVE  Remote!Next
<1>1. asked # "none"
  BY DEF IInv, Requested
<1> QED
  BY <1>1 DEF Remote!Next, Remote!Fail, Remote!Tell

\* Every step of client, server and mux is one of the abstract call or none of its business.
LEMMA StepImplements == IInv /\ [Next]_vars => [Remote!Next]_(Remote!vars)
<1> SUFFICES ASSUME IInv, Next PROVE Remote!Next \/ UNCHANGED <<asked, outcome, result>>
  BY DEF Remote!vars, vars, clientVars, serverVars
<1>1. CASE \E mm \in Methods : Call(mm)
  <2>1. PICK mm \in Methods : Call(mm)
    BY <1>1
  <2>2. asked = "none" /\ asked' = mm /\ UNCHANGED <<outcome, result>>
    BY <2>1 DEF Call, serverVars, IInv, Requested
  <2> QED
    BY <2>2 DEF Remote!Next, Remote!Ask
<1>2. CASE MethodReturns \/ MethodFails \/ MethodPanics
  <2>1. outcome = None
    BY <1>2 DEF MethodReturns, MethodFails, MethodPanics, IInv, Served
  <2>2. outcome' \in Results \cup {Error(Alien)} /\ UNCHANGED <<asked, result>>
    BY <1>2, WrappedCode, KnownResponses DEF MethodReturns, MethodFails, MethodPanics, clientVars
  <2> QED
    BY <2>1, <2>2 DEF Remote!Next, Remote!Run
<1>3. CASE Aborts \/ DoFails \/ ReadFails \/ LooksAtContext
  <2>1. clientPc # "idle" /\ result = None /\ UNCHANGED <<asked, outcome>>
    BY <1>3 DEF Aborts, DoFails, ReadFails, LooksAtContext, serverVars, IInv, Returned
  <2>2. result' = ClientError \/ UNCHANGED result
    BY <1>3 DEF Aborts, DoFails, ReadFails, LooksAtContext, Returns
  <2> QED
    BY <2>1, <2>2, ReturnTells
<1>4. CASE LooksAtStatus
  <2>1. clientPc # "idle" /\ result = None /\ received # None /\ UNCHANGED <<asked, outcome>>
    BY <1>4 DEF LooksAtStatus, serverVars, IInv, Returned, Received
  <2>2. CASE received.status = 200
    BY <1>4, <2>1, <2>2 DEF LooksAtStatus
  <2>3. CASE received.status # 200
    <3> DEFINE e == ErrorFromResponse(received.body)
    <3>1. result' = e
      BY <1>4, <2>3 DEF LooksAtStatus, Returns
    <3>2. \/ e \in {ClientError, Error("none")}
          \/ e = outcome /\ e \in Results /\ e.kind = "error" /\ outcome.code \notin {"none", Alien}
      BY <2>1, <2>3, WhatIsReceived
    <3>3. CASE e = outcome /\ e \in Results /\ e.kind = "error" /\ outcome.code \notin {"none", Alien}
      <4>1. outcome # None /\ outcome.code \in Codes /\ outcome # Error("none")
        BY <3>3, ResultKinds, ErrorFields
      <4>2. Told(asked, outcome) = outcome
        BY <3>3, <4>1 DEF Told
      <4> QED
        BY <2>1, <3>1, <3>3, <4>1, <4>2, ReturnTells
    <3> QED
      BY <2>1, <3>1, <3>2, <3>3, ReturnTells
  <2> QED
    BY <2>2, <2>3
<1>5. CASE Decode
  <2>1. /\ clientPc # "idle" /\ result = None /\ received # None /\ received.status = 200
        /\ UNCHANGED <<asked, outcome>>
    BY <1>5 DEF Decode, serverVars, IInv, Returned, Received
  <2>2. result' = ClientError \/ result' = Unmarshal(received.body)
    BY <1>5 DEF Decode, Returns
  <2>3. CASE result' = outcome /\ outcome.kind = "value"
    <3>1. Told(asked, outcome) = outcome /\ outcome # None
      BY <2>3, ErrorFields, Kinds DEF Told
    <3> QED
      BY <2>1, <2>3, <3>1, ReturnTells
  <2>4. CASE result' = Value(Zero) /\ outcome = Error("none") /\ asked # "Ping"
    <3>1. Told(asked, outcome) = Value(Zero) /\ outcome # None
      BY <2>4, ErrorFields, Kinds DEF Told
    <3> QED
      BY <2>1, <2>4, <3>1, ReturnTells
  <2> QED
    BY <2>1, <2>2, <2>3, <2>4, UnmarshalTells, ReturnTells
<1>6. CASE \/ Send \/ DoReturns \/ GatewayAnswers \/ ServeBadRoute \/ ServeBadBody \/ Serve \/ Dies
           \/ ContextEnds \/ OtherClientSends \/ \E n \in {404, 405, 500} : FrontRefuses(n)
  BY <1>6 DEF Send, DoReturns, GatewayAnswers, ServeBadRoute, ServeBadBody, Serve, Dies,
     ContextEnds, OtherClientSends, FrontRefuses, clientVars, serverVars
<1> QED
  BY <1>1, <1>2, <1>3, <1>4, <1>5, <1>6 DEF Next, Client, Transport, Server, DoNoticesDeath

\* Client, server and mux implement one call that runs its method at most once and tells
\* its caller, once, of its end or of a failure.
THEOREM Implements == Spec => ImplementsRemoteCall
<1>1. Init => Remote!Init
  BY DEF Init, Remote!Init
<1> QED
  BY <1>1, Inductive, StepImplements, PTL DEF Spec, ImplementsRemoteCall, Remote!Spec
=============================================================================
