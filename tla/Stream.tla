------------------------------- MODULE Stream -------------------------------
(***************************************************************************)
(* Requests to /stream: messages on a user's NATS subject are forwarded to *)
(* a browser as server-sent events.  Each request is served by four        *)
(* goroutines: the handler (handlers.Stream), the streamer                 *)
(* (streamer.start), the subscriber (broker.Client.Sub) and the NATS       *)
(* library's goroutine that runs the subscription's callback               *)
(* (nats.Conn.waitForMsgs).  They share the request's context and the      *)
(* channels brokerMessageChan and brokerErrCh, and all requests share one  *)
(* NATS connection, whose read loop feeds the pending lists (processMsg).  *)
(*                                                                         *)
(* A message is the number it has among those accepted into the pending    *)
(* list of its subscription.  One that NATS loses on the way or that finds *)
(* the list at its limit is never numbered.                                *)
(***************************************************************************)
EXTENDS Naturals, Sequences

CONSTANTS
  Streams,       \* requests
  BadTopics,     \* those whose subject badSubject refuses (no email, white space)
  MsgCap,        \* capacity of brokerMessageChan: 512
  PendingLimit,  \* DefaultSubPendingMsgsLimit: 65536
  MaxMsgs        \* bound on the messages accepted for one request

ASSUME CapIsPositive == MsgCap \in Nat \ {0}
ASSUME LimitIsPositive == PendingLimit \in Nat \ {0}
ASSUME MaxMsgsIsNat == MaxMsgs \in Nat
ASSUME BadTopicsAreStreams == BadTopics \subseteq Streams

VARIABLES
  handlerPc,   \* where each request's handler is
  streamerPc,  \* its streamer
  subPc,       \* its Sub
  cbPc,        \* its NATS callback goroutine
  ctxDone,     \* whether the request's context is cancelled
  msgCh,       \* brokerMessageChan: what it holds
  chClosed,    \* and whether it is closed
  errCh,       \* brokerErrCh: how many errors it holds
  hand,        \* the message the handler is writing: <<>> or <<m>>
  cbHand,      \* the message the callback was called with: <<>> or <<m>>
  pending,     \* the subscription's pending list
  subOpen,     \* whether the subscription is in nc.subs and not closed
  accepted,    \* how many messages processMsg has put on the pending list
  wrote,       \* the messages written to the client
  natsClosed,  \* whether the NATS connection is closed for good
  panicked     \* whether a goroutine has panicked: the process is gone

pcVars == <<handlerPc, streamerPc, subPc, cbPc>>
chVars == <<msgCh, chClosed, errCh>>
natsVars == <<cbHand, pending, subOpen, accepted, natsClosed>>
vars == <<pcVars, ctxDone, chVars, hand, natsVars, wrote, panicked>>

Init ==
  /\ handlerPc = [s \in Streams |-> "new"]
  /\ streamerPc = [s \in Streams |-> "new"]
  /\ subPc = [s \in Streams |-> "new"]
  /\ cbPc = [s \in Streams |-> "new"]
  /\ ctxDone = [s \in Streams |-> FALSE]
  /\ msgCh = [s \in Streams |-> <<>>]
  /\ chClosed = [s \in Streams |-> FALSE]
  /\ errCh = [s \in Streams |-> 0]
  /\ hand = [s \in Streams |-> <<>>]
  /\ cbHand = [s \in Streams |-> <<>>]
  /\ pending = [s \in Streams |-> <<>>]
  /\ subOpen = [s \in Streams |-> FALSE]
  /\ accepted = [s \in Streams |-> 0]
  /\ wrote = [s \in Streams |-> <<>>]
  /\ natsClosed = FALSE
  /\ panicked = FALSE

\* The process runs, and goroutine pc of request s goes from one place to another.
Moves(pc, s, from, to) == ~panicked /\ pc[s] = from /\ pc' = [pc EXCEPT ![s] = to]

\* Somebody receives from brokerMessageChan: a message, or the news that the channel
\* is closed and empty.
Receive(s) ==
  /\ msgCh[s] # <<>> \/ chClosed[s]
  /\ msgCh' = [msgCh EXCEPT ![s] = IF @ = <<>> THEN @ ELSE Tail(@)]

-----------------------------------------------------------------------------
(* The handler.                                                            *)

\* The request comes in; its streamer is started.
Request(s) ==
  /\ Moves(handlerPc, s, "new", "select")
  /\ streamerPc' = [streamerPc EXCEPT ![s] = "start"]
  /\ UNCHANGED <<subPc, cbPc, ctxDone, chVars, hand, natsVars, wrote, panicked>>

\* case err := <-brokerErrCh
HandlerError(s) ==
  /\ errCh[s] > 0
  /\ Moves(handlerPc, s, "select", "drain")
  /\ errCh' = [errCh EXCEPT ![s] = @ - 1]
  /\ UNCHANGED <<streamerPc, subPc, cbPc, ctxDone, msgCh, chClosed, hand, natsVars, wrote, panicked>>

\* <-brokerMessageChan, then return
HandlerDrain(s) ==
  /\ Moves(handlerPc, s, "drain", "returned")
  /\ Receive(s)
  /\ UNCHANGED <<streamerPc, subPc, cbPc, ctxDone, chClosed, errCh, hand, natsVars, wrote, panicked>>

HandlerReceive_Skips(s) ==
  /\ Moves(handlerPc, s, "select", "select")
  /\ msgCh[s] # <<>>
  /\ Receive(s)
  /\ UNCHANGED <<streamerPc, subPc, cbPc, ctxDone, chClosed, errCh, hand, natsVars, wrote, panicked>>

\* case brokerMessage, open := <-brokerMessageChan, with a message
HandlerReceive(s) ==
  /\ Moves(handlerPc, s, "select", "write")
  /\ msgCh[s] # <<>>
  /\ Receive(s)
  /\ hand' = [hand EXCEPT ![s] = <<Head(msgCh[s])>>]
  /\ UNCHANGED <<streamerPc, subPc, cbPc, ctxDone, chClosed, errCh, natsVars, wrote, panicked>>

\* The same case with the channel closed: return.
HandlerClosed(s) ==
  /\ Moves(handlerPc, s, "select", "returned")
  /\ msgCh[s] = <<>>
  /\ Receive(s)
  /\ UNCHANGED <<streamerPc, subPc, cbPc, ctxDone, chClosed, errCh, hand, natsVars, wrote, panicked>>

HandlerClosed_Ignored(s) ==
  /\ Moves(handlerPc, s, "select", "select")
  /\ msgCh[s] = <<>>
  /\ Receive(s)
  /\ UNCHANGED <<streamerPc, subPc, cbPc, ctxDone, chClosed, errCh, hand, natsVars, wrote, panicked>>

\* sse.Encode and Flush.  A write to a client that has gone fails at once, and
\* the error is ignored.
HandlerWrite(s) ==
  /\ Moves(handlerPc, s, "write", "select")
  /\ hand' = [hand EXCEPT ![s] = <<>>]
  /\ wrote' = IF ctxDone[s] THEN wrote ELSE [wrote EXCEPT ![s] = @ \o hand[s]]
  /\ UNCHANGED <<streamerPc, subPc, cbPc, ctxDone, chVars, natsVars, panicked>>

\* net/http cancels the context of a request when its client disconnects, and
\* when its handler has returned.
Cancel(s) ==
  /\ ~panicked
  /\ handlerPc[s] # "new"
  /\ ~ctxDone[s]
  /\ ctxDone' = [ctxDone EXCEPT ![s] = TRUE]
  /\ UNCHANGED <<pcVars, chVars, hand, natsVars, wrote, panicked>>

Disconnect(s) == handlerPc[s] # "returned" /\ Cancel(s)
EndRequest(s) == handlerPc[s] = "returned" /\ Cancel(s)

-----------------------------------------------------------------------------
(* The streamer.                                                           *)

\* go s.broker.Sub(...)
StreamerStart(s) ==
  /\ Moves(streamerPc, s, "start", "select")
  /\ subPc' = [subPc EXCEPT ![s] = "subscribe"]
  /\ UNCHANGED <<handlerPc, cbPc, ctxDone, chVars, hand, natsVars, wrote, panicked>>

\* case <-ctx.Done()
StreamerCancelled(s) ==
  /\ ctxDone[s]
  /\ Moves(streamerPc, s, "select", "drain")
  /\ UNCHANGED <<handlerPc, subPc, cbPc, ctxDone, chVars, hand, natsVars, wrote, panicked>>

\* <-brokerMsgCh: the close of the channel, or a message that nobody then gets
StreamerDrain(s) ==
  /\ Moves(streamerPc, s, "drain", "returned")
  /\ Receive(s)
  /\ UNCHANGED <<handlerPc, subPc, cbPc, ctxDone, chClosed, errCh, hand, natsVars, wrote, panicked>>

-----------------------------------------------------------------------------
(* Sub.                                                                    *)

SubscribeFails(s) == natsClosed \/ s \in BadTopics

\* Subscribe succeeds: the callback's goroutine is started and the subscription
\* is in nc.subs.
Subscribe(s) ==
  /\ ~SubscribeFails(s)
  /\ Moves(subPc, s, "subscribe", "select")
  /\ cbPc' = [cbPc EXCEPT ![s] = "wait"]
  /\ subOpen' = [subOpen EXCEPT ![s] = TRUE]
  /\ UNCHANGED <<handlerPc, streamerPc, ctxDone, chVars, hand, cbHand, pending, accepted,
                 natsClosed, wrote, panicked>>

SubError_Silent(s) ==
  /\ SubscribeFails(s)
  /\ Moves(subPc, s, "subscribe", "returned")
  /\ UNCHANGED <<handlerPc, streamerPc, cbPc, ctxDone, chVars, hand, natsVars, wrote, panicked>>

\* Subscribe fails: errCh <- err.  brokerErrCh holds 100 errors and gets one.
SubError(s) ==
  /\ SubscribeFails(s)
  /\ Moves(subPc, s, "subscribe", "close")
  /\ errCh' = [errCh EXCEPT ![s] = @ + 1]
  /\ UNCHANGED <<handlerPc, streamerPc, cbPc, ctxDone, msgCh, chClosed, hand, natsVars, wrote, panicked>>

SubCancelled_KeepsSub(s) ==
  /\ ctxDone[s]
  /\ Moves(subPc, s, "select", "close")
  /\ UNCHANGED <<handlerPc, streamerPc, cbPc, ctxDone, chVars, hand, natsVars, wrote, panicked>>

\* case <-ctx.Done(): Unsubscribe, which fails without effect on a subscription
\* that the connection has closed
SubCancelled(s) ==
  /\ ctxDone[s]
  /\ Moves(subPc, s, "select", "close")
  /\ subOpen' = [subOpen EXCEPT ![s] = FALSE]
  /\ UNCHANGED <<handlerPc, streamerPc, cbPc, ctxDone, chVars, hand, cbHand, pending, accepted,
                 natsClosed, wrote, panicked>>

\* The deferred close(outputCh)
SubClose(s) ==
  /\ Moves(subPc, s, "close", "returned")
  /\ chClosed' = [chClosed EXCEPT ![s] = TRUE]
  /\ UNCHANGED <<handlerPc, streamerPc, cbPc, ctxDone, msgCh, errCh, hand, natsVars, wrote, panicked>>

-----------------------------------------------------------------------------
(* The NATS client.                                                        *)

\* pMsgs: what is pending and the message whose callback is not yet accounted for.
Unaccounted(s) == IF cbPc[s] \in {"send", "loop"} THEN 1 ELSE 0
PMsgs(s) == Len(pending[s]) + Unaccounted(s)

ProcessMsg_NoLimit(s) ==
  /\ ~panicked
  /\ subOpen[s]
  /\ accepted[s] < MaxMsgs
  /\ accepted' = [accepted EXCEPT ![s] = @ + 1]
  /\ pending' = [pending EXCEPT ![s] = Append(@, accepted[s] + 1)]
  /\ UNCHANGED <<pcVars, ctxDone, chVars, hand, cbHand, subOpen, natsClosed, wrote, panicked>>

\* processMsg: the message goes on the list unless that is at its limit (a slow
\* consumer), in which case it is dropped.
ProcessMsg(s) ==
  /\ ~panicked
  /\ subOpen[s]
  /\ accepted[s] < MaxMsgs
  /\ PMsgs(s) + 1 <= PendingLimit
  /\ accepted' = [accepted EXCEPT ![s] = @ + 1]
  /\ pending' = [pending EXCEPT ![s] = Append(@, accepted[s] + 1)]
  /\ UNCHANGED <<pcVars, ctxDone, chVars, hand, cbHand, subOpen, natsClosed, wrote, panicked>>

\* waitForMsgs, with the subscription's lock: take a message for the callback, or
\* go to wait when there is none.
CallbackNext(s) ==
  /\ ~panicked
  /\ cbPc[s] \in {"wait", "loop"}
  /\ subOpen[s]
  /\ \/ /\ pending[s] # <<>>
        /\ cbHand' = [cbHand EXCEPT ![s] = <<Head(pending[s])>>]
        /\ pending' = [pending EXCEPT ![s] = Tail(@)]
        /\ cbPc' = [cbPc EXCEPT ![s] = "send"]
     \/ /\ pending[s] = <<>> /\ cbPc[s] = "loop"
        /\ cbPc' = [cbPc EXCEPT ![s] = "wait"]
        /\ UNCHANGED <<cbHand, pending>>
  /\ UNCHANGED <<handlerPc, streamerPc, subPc, ctxDone, chVars, hand, subOpen, accepted,
                 natsClosed, wrote, panicked>>

\* The same with the subscription closed: what is pending is discarded.
CallbackExit(s) ==
  /\ ~panicked
  /\ cbPc[s] \in {"wait", "loop"}
  /\ ~subOpen[s]
  /\ cbPc' = [cbPc EXCEPT ![s] = "returned"]
  /\ pending' = [pending EXCEPT ![s] = <<>>]
  /\ UNCHANGED <<handlerPc, streamerPc, subPc, ctxDone, chVars, hand, cbHand, subOpen, accepted,
                 natsClosed, wrote, panicked>>

CallbackSend_NoLimit(s) ==
  /\ ~chClosed[s]
  /\ Moves(cbPc, s, "send", "loop")
  /\ msgCh' = [msgCh EXCEPT ![s] = @ \o cbHand[s]]
  /\ cbHand' = [cbHand EXCEPT ![s] = <<>>]
  /\ UNCHANGED <<handlerPc, streamerPc, subPc, ctxDone, chClosed, errCh, hand, pending, subOpen,
                 accepted, natsClosed, wrote, panicked>>

\* The callback: outputCh <- m.Data, which blocks while the channel is full.
CallbackSend(s) ==
  /\ ~chClosed[s]
  /\ Len(msgCh[s]) < MsgCap
  /\ Moves(cbPc, s, "send", "loop")
  /\ msgCh' = [msgCh EXCEPT ![s] = @ \o cbHand[s]]
  /\ cbHand' = [cbHand EXCEPT ![s] = <<>>]
  /\ UNCHANGED <<handlerPc, streamerPc, subPc, ctxDone, chClosed, errCh, hand, pending, subOpen,
                 accepted, natsClosed, wrote, panicked>>

\* The same with the channel closed, also when the send was blocked before.
CallbackPanics(s) ==
  /\ ~panicked
  /\ cbPc[s] = "send"
  /\ chClosed[s]
  /\ panicked' = TRUE
  /\ UNCHANGED <<pcVars, ctxDone, chVars, hand, natsVars, wrote>>

\* The connection gives up reconnecting (Conn.close): every subscription is closed.
NatsClose ==
  /\ ~panicked
  /\ ~natsClosed
  /\ natsClosed' = TRUE
  /\ subOpen' = [s \in Streams |-> FALSE]
  /\ UNCHANGED <<pcVars, ctxDone, chVars, hand, cbHand, pending, accepted, wrote, panicked>>

-----------------------------------------------------------------------------

Handler(s) ==
  HandlerError(s) \/ HandlerDrain(s) \/ HandlerReceive(s) \/ HandlerClosed(s)
Streamer(s) == StreamerStart(s) \/ StreamerCancelled(s) \/ StreamerDrain(s)
Sub(s) == Subscribe(s) \/ SubError(s) \/ SubCancelled(s) \/ SubClose(s)
Callback(s) == CallbackNext(s) \/ CallbackExit(s) \/ CallbackSend(s) \/ CallbackPanics(s)

Next ==
  \/ \E s \in Streams :
       \/ Request(s) \/ Handler(s) \/ HandlerWrite(s) \/ Disconnect(s) \/ EndRequest(s)
       \/ Streamer(s) \/ Sub(s) \/ Callback(s) \/ ProcessMsg(s)
  \/ NatsClose

Spec == Init /\ [][Next]_vars

(* A goroutine that can run does run, but a write to a client that is there *)
(* may block for ever.  Clients, publishers and NATS do what they like.     *)
Fairness ==
  \A s \in Streams :
    /\ WF_vars(Handler(s))
    /\ WF_vars(HandlerWrite(s) /\ ctxDone[s])
    /\ WF_vars(EndRequest(s))
    /\ WF_vars(Streamer(s))
    /\ WF_vars(Sub(s))
    /\ WF_vars(Callback(s))

FairSpec == Spec /\ Fairness

-----------------------------------------------------------------------------
(* Properties.                                                             *)

HandlerPcs == {"new", "select", "drain", "write", "returned"}
StreamerPcs == {"new", "start", "select", "drain", "returned"}
SubPcs == {"new", "subscribe", "select", "close", "returned"}
CallbackPcs == {"new", "wait", "send", "loop", "returned"}

AtMostOne(q) == q # <<>> => q = <<Head(q)>>

\* Every variable keeps its type, and every channel and list its capacity.
TypeOK ==
  /\ handlerPc \in [Streams -> HandlerPcs]
  /\ streamerPc \in [Streams -> StreamerPcs]
  /\ subPc \in [Streams -> SubPcs]
  /\ cbPc \in [Streams -> CallbackPcs]
  /\ ctxDone \in [Streams -> BOOLEAN]
  /\ msgCh \in [Streams -> Seq(Nat)]
  /\ chClosed \in [Streams -> BOOLEAN]
  /\ errCh \in [Streams -> 0 .. 1]
  /\ hand \in [Streams -> Seq(Nat)]
  /\ cbHand \in [Streams -> Seq(Nat)]
  /\ pending \in [Streams -> Seq(Nat)]
  /\ subOpen \in [Streams -> BOOLEAN]
  /\ accepted \in [Streams -> Nat]
  /\ wrote \in [Streams -> Seq(Nat)]
  /\ natsClosed \in BOOLEAN
  /\ panicked \in BOOLEAN
  /\ \A s \in Streams :
       Len(msgCh[s]) <= MsgCap /\ AtMostOne(hand[s]) /\ AtMostOne(cbHand[s])

\* The messages 1, 2, ..., n in this order.
FirstN(n) == [i \in 1 .. n |-> i]

\* What is on its way to the client of s, oldest first.
InFlight(s) == hand[s] \o msgCh[s] \o cbHand[s] \o pending[s]

\* While its client is there and NATS is up, every message accepted for a
\* request has been written or is on its way, once and in order, whichever of
\* the four goroutines holds it (client.go:68-71, handlers.go:122-137).
Conserved ==
  \A s \in Streams :
    ~ctxDone[s] /\ ~natsClosed => wrote[s] \o InFlight(s) = FirstN(accepted[s])

\* A client that does not read keeps at most this many messages in memory
\* (handlers.go:87, nats.go:2283-2287).
BacklogBounded == \A s \in Streams : Len(InFlight(s)) <= PendingLimit + MsgCap + 1

\* What is still meant for the clients, and which of them are there.
Queue == [s \in Streams |-> IF ctxDone[s] THEN <<>> ELSE InFlight(s)]
Connected == [s \in Streams |-> ~ctxDone[s]]

D ==
  INSTANCE Delivery WITH
    accepted <- accepted, queue <- Queue, written <- wrote, connected <- Connected

\* The client of a request is written, in order and once each, a prefix of the
\* messages accepted for it (handlers.go:110-139): Stream implements Delivery.
ImplementsDelivery == D!Spec

\* The process survives: no message is sent on a channel that Sub has closed.
\* "if messageChan closes unexpectedly for any reason return from the handler and
\* close connection" (handlers.go:120-121).
CloseIsSafe == ~panicked

\* "If our messageChan was closed, this means that the client has disconnected"
\* (handlers.go:124-125).
ClosedMeansDisconnected == [][\A s \in Streams : HandlerClosed(s) => ctxDone[s]]_vars

\* The four goroutines of s have returned, or were never started.
Quiet(s) ==
  /\ handlerPc[s] = "returned" /\ streamerPc[s] = "returned"
  /\ subPc[s] = "returned" /\ cbPc[s] \in {"new", "returned"}

\* When a client disconnects all that served it goes away, wherever the four
\* goroutines were, a stalled write included (chat.go:41-48, client.go:59-87).
CleanedUp == \A s \in Streams : ctxDone[s] ~> Quiet(s) \/ panicked

\* A request that NATS refuses to subscribe is ended by the server, whether the
\* handler first sees the error or the closed channel (client.go:74-79,
\* handlers.go:113-128).
RefusedRequestEnds ==
  \A s \in Streams :
    subPc[s] = "subscribe" /\ SubscribeFails(s) ~> Quiet(s) \/ panicked

\* The client of s reads what it is sent: no write blocks for ever.
Reads(s) == []<>(handlerPc[s] # "write")

\* A message accepted for a client that reads is written to it (handlers.go:122-137).
Delivered ==
  \A s \in Streams :
    Reads(s) => \A m \in 1 .. MaxMsgs :
      accepted[s] >= m ~> m \in {wrote[s][i] : i \in DOMAIN wrote[s]}
                            \/ ctxDone[s] \/ natsClosed \/ panicked

\* "provide a channel to receive messages and errorCh to receive errors"
\* (broker.go:19): when NATS closes the connection of a subscription, its caller gets
\* an error, or the subscription has ended by itself.
LostBrokerReported ==
  \A s \in Streams :
    natsClosed /\ subPc[s] = "select" ~> errCh[s] > 0 \/ subPc[s] = "returned"
=============================================================================
