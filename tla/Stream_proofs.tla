---------------------------- MODULE Stream_proofs ----------------------------
(***************************************************************************)
(* What TLAPS proves about Stream, for any set of requests, any kinds of   *)
(* subjects and any capacities.                                            *)
(***************************************************************************)
EXTENDS Stream, MessageSequences

(* The inductive invariant.  Conserved is kept because only the handler    *)
(* takes messages from a channel whose client is there, because the        *)
(* library discards pending ones only after a cancel or with NATS closed,  *)
(* and because a request with an error never had a subscription.           *)

\* A goroutine has a message in hand exactly in the step that passes it on, and the
\* pending list keeps its limit.
HandsMatch ==
  \A s \in Streams :
    /\ handlerPc[s] = "write" <=> hand[s] # <<>>
    /\ cbPc[s] = "send" <=> cbHand[s] # <<>>
    /\ PMsgs(s) <= PendingLimit

\* Without a subscription there are no messages.
NothingBeforeSubscribing ==
  \A s \in Streams :
    cbPc[s] = "new" => ~subOpen[s] /\ msgCh[s] = <<>> /\ pending[s] = <<>>

\* How far Sub and the other goroutines have come.
SubConsistent ==
  \A s \in Streams :
    /\ errCh[s] > 0 => cbPc[s] = "new" /\ subPc[s] \in {"close", "returned"}
    /\ handlerPc[s] = "drain" => cbPc[s] = "new" /\ subPc[s] \in {"close", "returned"}
    /\ subPc[s] \in {"new", "subscribe"} => cbPc[s] = "new"
    /\ streamerPc[s] \in {"new", "start"} => subPc[s] = "new"
    /\ handlerPc[s] = "new" => streamerPc[s] = "new"
    /\ subPc[s] \in {"close", "returned"} => ctxDone[s] \/ cbPc[s] = "new"

\* A subscription that is not open, though it once was, has lost its client or NATS.
ClosedForAReason ==
  \A s \in Streams :
    /\ cbPc[s] # "new" => subOpen[s] \/ ctxDone[s] \/ natsClosed
    /\ streamerPc[s] \in {"drain", "returned"} => ctxDone[s]

\* Everything but the messages themselves.
Control ==
  /\ TypeOK
  /\ HandsMatch
  /\ NothingBeforeSubscribing
  /\ SubConsistent
  /\ ClosedForAReason

IInv == Control /\ Conserved

-----------------------------------------------------------------------------
\* One more message is numbered.
LEMMA FirstNGrows ==
  ASSUME NEW n \in Nat
  PROVE  FirstN(n) \in Seq(Nat) /\ Append(FirstN(n), n + 1) = FirstN(n + 1)
<1>1. FirstN(n) \in Seq(Nat) /\ Len(FirstN(n)) = n /\ FirstN(n + 1) \in Seq(Nat)
      /\ Len(FirstN(n + 1)) = n + 1
  BY DEF FirstN
<1>2. Append(FirstN(n), n + 1) \in Seq(Nat) /\ Len(Append(FirstN(n), n + 1)) = n + 1
  BY <1>1, AppendProperties
<1>3. \A i \in 1 .. n + 1 : Append(FirstN(n), n + 1)[i] = FirstN(n + 1)[i]
  BY <1>1, AppendProperties DEF FirstN
<1> QED
  BY <1>1, <1>2, <1>3, SeqEqual

-----------------------------------------------------------------------------
\* Whoever receives, brokerMessageChan goes on holding messages, no more than it can.
LEMMA ReceiveKeepsType ==
  ASSUME TypeOK, NEW s \in Streams, Receive(s)
  PROVE  /\ msgCh' \in [Streams -> Seq(Nat)]
         /\ \A t \in Streams : Len(msgCh'[t]) <= MsgCap
<1> DEFINE q == msgCh[s]
           rest == IF q = <<>> THEN q ELSE Tail(q)
<1>1. q \in Seq(Nat) /\ Len(q) <= MsgCap
  BY DEF TypeOK
<1>2. rest \in Seq(Nat) /\ Len(rest) <= MsgCap
  <2>1. q # <<>> => Tail(q) \in Seq(Nat) /\ Len(Tail(q)) = Len(q) - 1
    BY <1>1, HeadThenTail
  <2>2. Len(q) \in Nat
    BY <1>1
  <2> HIDE DEF q
  <2> QED
    BY <1>1, <2>1, <2>2, CapIsPositive
<1>3. msgCh' = [msgCh EXCEPT ![s] = rest]
  BY DEF Receive
<1> HIDE DEF q, rest
<1> QED
  BY <1>2, <1>3 DEF TypeOK

LEMMA ControlStep == Control /\ [Next]_vars => Control'
<1> SUFFICES ASSUME Control, [Next]_vars PROVE Control'
  OBVIOUS
<1> USE CapIsPositive, LimitIsPositive, BadTopicsAreStreams
    DEF Control, pcVars, chVars, natsVars, HandlerPcs, StreamerPcs, SubPcs, CallbackPcs, Moves
<1>1. ASSUME NEW s \in Streams, Request(s) PROVE Control'
  <2>1. TypeOK'
    BY <1>1 DEF Request, TypeOK, AtMostOne, Receive
  <2>2. HandsMatch'
    BY <1>1 DEF HandsMatch, PMsgs, Unaccounted, Request, TypeOK, AtMostOne, Receive
  <2>3. NothingBeforeSubscribing' /\ SubConsistent' /\ ClosedForAReason'
    BY <1>1 DEF NothingBeforeSubscribing, SubConsistent, ClosedForAReason, Request,
       TypeOK, AtMostOne, Receive
  <2> QED
    BY <2>1, <2>2, <2>3
<1>2. ASSUME NEW s \in Streams, HandlerError(s) PROVE Control'
  <2>1. TypeOK'
    <3>1. errCh' = [errCh EXCEPT ![s] = 0]
      <4>1. errCh[s] \in 0 .. 1 /\ errCh[s] > 0 /\ errCh' = [errCh EXCEPT ![s] = @ - 1]
        BY <1>2 DEF HandlerError, TypeOK
      <4>2. errCh[s] - 1 = 0
        BY <4>1
      <4> QED
        BY <4>1, <4>2
    <3> QED
      BY <1>2, <3>1 DEF HandlerError, TypeOK
  <2>2. HandsMatch'
    BY <1>2 DEF HandsMatch, PMsgs, Unaccounted, HandlerError, TypeOK, AtMostOne, Receive
  <2>3. NothingBeforeSubscribing' /\ SubConsistent' /\ ClosedForAReason'
    BY <1>2 DEF NothingBeforeSubscribing, SubConsistent, ClosedForAReason, HandlerError,
       TypeOK, AtMostOne, Receive
  <2> QED
    BY <2>1, <2>2, <2>3
<1>3. ASSUME NEW s \in Streams, HandlerDrain(s) PROVE Control'
  <2>1. TypeOK'
    <3>1. Receive(s)
      BY <1>3 DEF HandlerDrain
    <3> QED
      BY <1>3, <3>1, ReceiveKeepsType
      DEF HandlerDrain, TypeOK, AtMostOne
  <2>2. HandsMatch'
    BY <1>3 DEF HandsMatch, PMsgs, Unaccounted, HandlerDrain, TypeOK, AtMostOne, Receive
  <2>3. NothingBeforeSubscribing' /\ SubConsistent' /\ ClosedForAReason'
    BY <1>3 DEF NothingBeforeSubscribing, SubConsistent, ClosedForAReason, HandlerDrain,
       TypeOK, AtMostOne, Receive
  <2> QED
    BY <2>1, <2>2, <2>3
<1>4. ASSUME NEW s \in Streams, HandlerReceive(s) PROVE Control'
  <2>1. TypeOK'
    <3>1. Receive(s)
      BY <1>4 DEF HandlerReceive
    <3> DEFINE m == Head(msgCh[s])
    <3>2. m \in Nat
      BY <1>4, HeadThenTail DEF HandlerReceive, TypeOK
    <3>3. hand' = [hand EXCEPT ![s] = <<m>>]
      BY <1>4 DEF HandlerReceive
    <3> HIDE DEF m
    <3>4. <<m>> \in Seq(Nat) /\ AtMostOne(<<m>>)
      BY <3>2 DEF AtMostOne
    <3>5. hand' \in [Streams -> Seq(Nat)] /\ \A t \in Streams : AtMostOne(hand'[t])
      BY <3>3, <3>4 DEF TypeOK
    <3>6. /\ msgCh' \in [Streams -> Seq(Nat)]
          /\ \A t \in Streams : Len(msgCh'[t]) <= MsgCap
      BY <3>1, ReceiveKeepsType
    <3> QED
      BY <1>4, <3>5, <3>6 DEF HandlerReceive, TypeOK, AtMostOne
  <2>2. HandsMatch'
    BY <1>4 DEF HandsMatch, PMsgs, Unaccounted, HandlerReceive, TypeOK, AtMostOne, Receive
  <2>3. NothingBeforeSubscribing' /\ SubConsistent' /\ ClosedForAReason'
    BY <1>4 DEF NothingBeforeSubscribing, SubConsistent, ClosedForAReason,
       HandlerReceive, TypeOK, AtMostOne, Receive
  <2> QED
    BY <2>1, <2>2, <2>3
<1>5. ASSUME NEW s \in Streams, HandlerClosed(s) PROVE Control'
  <2>1. TypeOK'
    BY <1>5 DEF HandlerClosed, TypeOK, AtMostOne, Receive
  <2>2. HandsMatch'
    BY <1>5 DEF HandsMatch, PMsgs, Unaccounted, HandlerClosed, TypeOK, AtMostOne, Receive
  <2>3. NothingBeforeSubscribing' /\ SubConsistent' /\ ClosedForAReason'
    BY <1>5 DEF NothingBeforeSubscribing, SubConsistent, ClosedForAReason, HandlerClosed,
       TypeOK, AtMostOne, Receive
  <2> QED
    BY <2>1, <2>2, <2>3
<1>6. ASSUME NEW s \in Streams, HandlerWrite(s) PROVE Control'
  <2>1. TypeOK'
    <3>1. wrote[s] \o hand[s] \in Seq(Nat)
      BY DEF TypeOK
    <3> DEFINE longer == wrote[s] \o hand[s]
    <3>2. wrote' = IF ctxDone[s] THEN wrote ELSE [wrote EXCEPT ![s] = longer]
      BY <1>6 DEF HandlerWrite
    <3> HIDE DEF longer
    <3>3. wrote' \in [Streams -> Seq(Nat)]
      BY <3>1, <3>2 DEF longer, TypeOK
    <3>4. hand' = [hand EXCEPT ![s] = <<>>]
      BY <1>6 DEF HandlerWrite
    <3>5. <<>> \in Seq(Nat) /\ AtMostOne(<<>>)
      BY DEF AtMostOne
    <3>6. hand' \in [Streams -> Seq(Nat)] /\ \A t \in Streams : AtMostOne(hand'[t])
      BY <3>4, <3>5 DEF TypeOK
    <3> QED
      BY <1>6, <3>3, <3>6 DEF HandlerWrite, TypeOK
  <2>2. HandsMatch'
    BY <1>6 DEF HandsMatch, PMsgs, Unaccounted, HandlerWrite, TypeOK, AtMostOne, Receive
  <2>3. NothingBeforeSubscribing' /\ SubConsistent' /\ ClosedForAReason'
    BY <1>6 DEF NothingBeforeSubscribing, SubConsistent, ClosedForAReason, HandlerWrite,
       TypeOK, AtMostOne, Receive
  <2> QED
    BY <2>1, <2>2, <2>3
<1>7. ASSUME NEW s \in Streams, Disconnect(s) PROVE Control'
  <2>1. TypeOK'
    BY <1>7 DEF Cancel, Disconnect, TypeOK, AtMostOne, Receive
  <2>2. HandsMatch'
    BY <1>7 DEF HandsMatch, PMsgs, Unaccounted, Cancel, Disconnect, TypeOK, AtMostOne,
       Receive
  <2>3. NothingBeforeSubscribing' /\ SubConsistent' /\ ClosedForAReason'
    BY <1>7 DEF NothingBeforeSubscribing, SubConsistent, ClosedForAReason, Cancel,
       Disconnect, TypeOK, AtMostOne, Receive
  <2> QED
    BY <2>1, <2>2, <2>3
<1>8. ASSUME NEW s \in Streams, EndRequest(s) PROVE Control'
  <2>1. TypeOK'
    BY <1>8 DEF Cancel, EndRequest, TypeOK, AtMostOne, Receive
  <2>2. HandsMatch'
    BY <1>8 DEF HandsMatch, PMsgs, Unaccounted, Cancel, EndRequest, TypeOK, AtMostOne,
       Receive
  <2>3. NothingBeforeSubscribing' /\ SubConsistent' /\ ClosedForAReason'
    BY <1>8 DEF NothingBeforeSubscribing, SubConsistent, ClosedForAReason, Cancel,
       EndRequest, TypeOK, AtMostOne, Receive
  <2> QED
    BY <2>1, <2>2, <2>3
<1>9. ASSUME NEW s \in Streams, StreamerStart(s) PROVE Control'
  <2>1. TypeOK'
    BY <1>9 DEF StreamerStart, TypeOK, AtMostOne, Receive
  <2>2. HandsMatch'
    BY <1>9 DEF HandsMatch, PMsgs, Unaccounted, StreamerStart, TypeOK, AtMostOne, Receive
  <2>3. NothingBeforeSubscribing' /\ SubConsistent' /\ ClosedForAReason'
    BY <1>9 DEF NothingBeforeSubscribing, SubConsistent, ClosedForAReason, StreamerStart,
       TypeOK, AtMostOne, Receive
  <2> QED
    BY <2>1, <2>2, <2>3
<1>10. ASSUME NEW s \in Streams, StreamerCancelled(s) PROVE Control'
  <2>1. TypeOK'
    BY <1>10 DEF StreamerCancelled, TypeOK, AtMostOne, Receive
  <2>2. HandsMatch'
    BY <1>10 DEF HandsMatch, PMsgs, Unaccounted, StreamerCancelled, TypeOK, AtMostOne,
       Receive
  <2>3. NothingBeforeSubscribing' /\ SubConsistent' /\ ClosedForAReason'
    BY <1>10 DEF NothingBeforeSubscribing, SubConsistent, ClosedForAReason,
       StreamerCancelled, TypeOK, AtMostOne, Receive
  <2> QED
    BY <2>1, <2>2, <2>3
<1>11. ASSUME NEW s \in Streams, StreamerDrain(s) PROVE Control'
  <2>1. TypeOK'
    <3>1. Receive(s)
      BY <1>11 DEF StreamerDrain
    <3> QED
      BY <1>11, <3>1, ReceiveKeepsType
      DEF StreamerDrain, TypeOK, AtMostOne
  <2>2. HandsMatch'
    BY <1>11 DEF HandsMatch, PMsgs, Unaccounted, StreamerDrain, TypeOK, AtMostOne, Receive
  <2>3. NothingBeforeSubscribing' /\ SubConsistent' /\ ClosedForAReason'
    BY <1>11 DEF NothingBeforeSubscribing, SubConsistent, ClosedForAReason,
       StreamerDrain, TypeOK, AtMostOne, Receive
  <2> QED
    BY <2>1, <2>2, <2>3
<1>12. ASSUME NEW s \in Streams, Subscribe(s) PROVE Control'
  <2>1. TypeOK'
    BY <1>12 DEF Subscribe, TypeOK, AtMostOne, Receive
  <2>2. HandsMatch'
    <3>1. cbPc[s] = "new"
      BY <1>12 DEF Subscribe, SubConsistent
    <3> QED
      BY <1>12, <3>1 DEF HandsMatch, PMsgs, Unaccounted, Subscribe, TypeOK
  <2>3. NothingBeforeSubscribing' /\ SubConsistent' /\ ClosedForAReason'
    BY <1>12 DEF NothingBeforeSubscribing, SubConsistent, ClosedForAReason, Subscribe,
       TypeOK, AtMostOne, Receive
  <2> QED
    BY <2>1, <2>2, <2>3
<1>13. ASSUME NEW s \in Streams, SubError(s) PROVE Control'
  <2>1. TypeOK'
    <3>1. errCh[s] = 0
      <4>1. errCh[s] \in 0 .. 1
        BY DEF TypeOK
      <4>2. ~(errCh[s] > 0)
        BY <1>13 DEF SubError, SubConsistent
      <4> QED
        BY <4>1, <4>2
    <3>2. errCh' = [errCh EXCEPT ![s] = 1]
      BY <1>13, <3>1 DEF SubError
    <3> QED
      BY <1>13, <3>2 DEF SubError, TypeOK, AtMostOne
  <2>2. HandsMatch'
    BY <1>13 DEF HandsMatch, PMsgs, Unaccounted, SubError, TypeOK, AtMostOne, Receive
  <2>3. NothingBeforeSubscribing' /\ SubConsistent' /\ ClosedForAReason'
    BY <1>13 DEF NothingBeforeSubscribing, SubConsistent, ClosedForAReason, SubError,
       TypeOK, AtMostOne, Receive
  <2> QED
    BY <2>1, <2>2, <2>3
<1>14. ASSUME NEW s \in Streams, SubCancelled(s) PROVE Control'
  <2>1. TypeOK'
    BY <1>14 DEF SubCancelled, TypeOK, AtMostOne, Receive
  <2>2. HandsMatch'
    BY <1>14 DEF HandsMatch, PMsgs, Unaccounted, SubCancelled, TypeOK, AtMostOne, Receive
  <2>3. NothingBeforeSubscribing' /\ SubConsistent' /\ ClosedForAReason'
    BY <1>14 DEF NothingBeforeSubscribing, SubConsistent, ClosedForAReason, SubCancelled,
       TypeOK, AtMostOne, Receive
  <2> QED
    BY <2>1, <2>2, <2>3
<1>15. ASSUME NEW s \in Streams, SubClose(s) PROVE Control'
  <2>1. TypeOK'
    BY <1>15 DEF SubClose, TypeOK, AtMostOne, Receive
  <2>2. HandsMatch'
    BY <1>15 DEF HandsMatch, PMsgs, Unaccounted, SubClose, TypeOK, AtMostOne, Receive
  <2>3. NothingBeforeSubscribing' /\ SubConsistent' /\ ClosedForAReason'
    BY <1>15 DEF NothingBeforeSubscribing, SubConsistent, ClosedForAReason, SubClose,
       TypeOK, AtMostOne, Receive
  <2> QED
    BY <2>1, <2>2, <2>3
<1>16. ASSUME NEW s \in Streams, CallbackNext(s) PROVE Control'
  <2>0. CASE pending[s] # <<>>
    <3> DEFINE m == Head(pending[s])
               rest == Tail(pending[s])
    <3>1. m \in Nat /\ rest \in Seq(Nat) /\ Len(rest) = Len(pending[s]) - 1 /\ <<m>> \in Seq(Nat)
      BY <2>0, HeadThenTail DEF TypeOK
    <3>2. /\ cbPc' = [cbPc EXCEPT ![s] = "send"]
          /\ cbHand' = [cbHand EXCEPT ![s] = <<m>>]
          /\ pending' = [pending EXCEPT ![s] = rest]
          /\ cbPc[s] \in {"wait", "loop"}
          /\ UNCHANGED <<handlerPc, streamerPc, subPc, ctxDone, chVars, hand, subOpen, accepted,
                         natsClosed, wrote, panicked>>
      BY <1>16, <2>0 DEF CallbackNext
    <3>3. <<m>> # <<>> /\ Head(<<m>>) = m
      OBVIOUS
    <3> HIDE DEF m, rest
    <3>4. TypeOK'
      BY <3>1, <3>2, <3>3 DEF TypeOK, AtMostOne
    <3>5. HandsMatch'
      <4>1. Len(pending'[s]) = Len(pending[s]) - 1 /\ Len(pending[s]) \in Nat
        BY <3>1, <3>2 DEF TypeOK
      <4>2. PMsgs(s)' <= PMsgs(s) \/ PMsgs(s)' <= Len(pending[s])
        BY <3>2, <4>1 DEF PMsgs, Unaccounted, TypeOK
      <4>3. Len(pending[s]) <= PMsgs(s) /\ PMsgs(s) \in Nat /\ PMsgs(s)' \in Nat
        BY <3>1, <3>2, <4>1 DEF PMsgs, Unaccounted, TypeOK
      <4>4. PMsgs(s)' <= PendingLimit
        BY <4>2, <4>3 DEF HandsMatch
      <4>5. \A t \in Streams \ {s} : PMsgs(t)' = PMsgs(t)
        BY <3>2 DEF PMsgs, Unaccounted, TypeOK
      <4>6. cbPc'[s] = "send" /\ cbHand'[s] # <<>>
        BY <3>2, <3>3 DEF TypeOK
      <4>7. \A t \in Streams \ {s} : cbPc'[t] = cbPc[t] /\ cbHand'[t] = cbHand[t]
        BY <3>2 DEF TypeOK
      <4> QED
        BY <3>2, <4>4, <4>5, <4>6, <4>7 DEF HandsMatch
    <3>6. NothingBeforeSubscribing' /\ SubConsistent' /\ ClosedForAReason'
      BY <3>2 DEF NothingBeforeSubscribing, SubConsistent, ClosedForAReason, TypeOK
    <3> QED
      BY <3>4, <3>5, <3>6
  <2>1. CASE pending[s] = <<>>
    <3>1. /\ cbPc' = [cbPc EXCEPT ![s] = "wait"] /\ cbPc[s] = "loop"
          /\ UNCHANGED <<handlerPc, streamerPc, subPc, ctxDone, chVars, hand, subOpen, accepted,
                         natsClosed, wrote, panicked, cbHand, pending>>
      BY <1>16, <2>1 DEF CallbackNext
    <3>2. TypeOK'
      BY <3>1 DEF TypeOK, AtMostOne
    <3>3. HandsMatch'
      <4>1. cbPc'[s] = "wait" /\ \A t \in Streams \ {s} : cbPc'[t] = cbPc[t]
        BY <3>1 DEF TypeOK
      <4>2. PMsgs(s)' <= PMsgs(s) /\ \A t \in Streams \ {s} : PMsgs(t)' = PMsgs(t)
        BY <3>1, <4>1 DEF PMsgs, Unaccounted, TypeOK
      <4>3. PMsgs(s) \in Nat /\ PMsgs(s)' \in Nat
        BY <3>1 DEF PMsgs, Unaccounted, TypeOK
      <4>4. PMsgs(s)' <= PendingLimit
        BY <4>2, <4>3 DEF HandsMatch
      <4> QED
        BY <3>1, <4>1, <4>2, <4>4 DEF HandsMatch
    <3>4. NothingBeforeSubscribing' /\ SubConsistent' /\ ClosedForAReason'
      BY <3>1 DEF NothingBeforeSubscribing, SubConsistent, ClosedForAReason, TypeOK
    <3> QED
      BY <3>2, <3>3, <3>4
  <2> QED
    BY <2>0, <2>1
<1>17. ASSUME NEW s \in Streams, CallbackExit(s) PROVE Control'
  <2>1. TypeOK'
    BY <1>17 DEF CallbackExit, TypeOK
  <2>2. HandsMatch'
    <3>1. Len(pending'[s]) = 0 /\ PMsgs(s)' = 0
      BY <1>17 DEF CallbackExit, PMsgs, Unaccounted, TypeOK
    <3>2. \A t \in Streams \ {s} : PMsgs(t)' = PMsgs(t)
      BY <1>17 DEF CallbackExit, PMsgs, Unaccounted, TypeOK
    <3>3. PMsgs(s)' <= PendingLimit
      BY <3>1
    <3>4. cbPc'[s] = "returned" /\ \A t \in Streams \ {s} : cbPc'[t] = cbPc[t]
      BY <1>17 DEF CallbackExit, TypeOK
    <3> QED
      BY <1>17, <3>2, <3>3, <3>4 DEF HandsMatch, CallbackExit
  <2>3. NothingBeforeSubscribing' /\ SubConsistent' /\ ClosedForAReason'
    BY <1>17 DEF NothingBeforeSubscribing, SubConsistent, ClosedForAReason, CallbackExit,
       TypeOK, AtMostOne, Receive
  <2> QED
    BY <2>1, <2>2, <2>3
<1>18. ASSUME NEW s \in Streams, CallbackSend(s) PROVE Control'
  <2>1. TypeOK'
    <3> DEFINE q == msgCh[s] \o cbHand[s]
    <3>1. cbHand[s] = <<Head(cbHand[s])>> /\ Head(cbHand[s]) \in Nat
      BY <1>18, HeadThenTail DEF CallbackSend, HandsMatch, TypeOK, AtMostOne
    <3>2. msgCh[s] \in Seq(Nat) /\ Len(msgCh[s]) + 1 <= MsgCap
      BY <1>18 DEF CallbackSend, TypeOK
    <3>3. q \in Seq(Nat) /\ Len(q) <= MsgCap
      <4>1. q = Append(msgCh[s], Head(cbHand[s]))
        BY <3>1, <3>2, AppendIsConcat
      <4> QED
        BY <3>1, <3>2, <4>1, AppendProperties
    <3>4. msgCh' = [msgCh EXCEPT ![s] = q]
      BY <1>18 DEF CallbackSend
    <3> HIDE DEF q
    <3>5. /\ msgCh' \in [Streams -> Seq(Nat)]
          /\ \A t \in Streams : Len(msgCh'[t]) <= MsgCap
      BY <3>3, <3>4 DEF TypeOK
    <3>6. cbHand' \in [Streams -> Seq(Nat)] /\ \A t \in Streams : AtMostOne(cbHand'[t])
      <4>1. cbHand' = [cbHand EXCEPT ![s] = <<>>]
        BY <1>18 DEF CallbackSend
      <4>2. <<>> \in Seq(Nat) /\ AtMostOne(<<>>)
        BY DEF AtMostOne
      <4> QED
        BY <4>1, <4>2 DEF TypeOK
    <3> QED
      BY <1>18, <3>5, <3>6 DEF CallbackSend, TypeOK, AtMostOne
  <2>2. HandsMatch'
    BY <1>18 DEF HandsMatch, PMsgs, Unaccounted, CallbackSend, TypeOK, AtMostOne, Receive
  <2>3. NothingBeforeSubscribing' /\ SubConsistent' /\ ClosedForAReason'
    <3>1. /\ cbPc' = [cbPc EXCEPT ![s] = "loop"] /\ cbPc[s] = "send"
          /\ msgCh' = [msgCh EXCEPT ![s] = @ \o cbHand[s]]
          /\ UNCHANGED <<handlerPc, streamerPc, subPc, ctxDone, errCh, pending, subOpen, natsClosed>>
      BY <1>18 DEF CallbackSend
    <3> QED
      BY <3>1 DEF NothingBeforeSubscribing, SubConsistent, ClosedForAReason, TypeOK
  <2> QED
    BY <2>1, <2>2, <2>3
<1>19. ASSUME NEW s \in Streams, CallbackPanics(s) PROVE Control'
  <2>1. TypeOK'
    BY <1>19 DEF CallbackPanics, TypeOK, AtMostOne, Receive
  <2>2. HandsMatch'
    BY <1>19 DEF HandsMatch, PMsgs, Unaccounted, CallbackPanics, TypeOK, AtMostOne, Receive
  <2>3. NothingBeforeSubscribing' /\ SubConsistent' /\ ClosedForAReason'
    BY <1>19 DEF NothingBeforeSubscribing, SubConsistent, ClosedForAReason,
       CallbackPanics, TypeOK, AtMostOne, Receive
  <2> QED
    BY <2>1, <2>2, <2>3
<1>20. ASSUME NEW s \in Streams, ProcessMsg(s) PROVE Control'
  <2>1. TypeOK'
    <3>1. Append(pending[s], accepted[s] + 1) \in Seq(Nat)
      BY <1>20 DEF TypeOK
    <3> DEFINE list == Append(pending[s], accepted[s] + 1)
    <3>2. pending' = [pending EXCEPT ![s] = list]
      BY <1>20 DEF ProcessMsg
    <3> HIDE DEF list
    <3>3. pending' \in [Streams -> Seq(Nat)]
      BY <3>1, <3>2 DEF list, TypeOK
    <3>4. accepted' \in [Streams -> Nat]
      BY <1>20 DEF ProcessMsg, TypeOK
    <3> QED
      BY <1>20, <3>3, <3>4 DEF ProcessMsg, TypeOK, AtMostOne
  <2>2. HandsMatch'
    <3>1. Len(pending'[s]) = Len(pending[s]) + 1
      BY <1>20 DEF ProcessMsg, TypeOK
    <3>2. PMsgs(s)' = PMsgs(s) + 1
      BY <1>20, <3>1 DEF ProcessMsg, PMsgs, Unaccounted, TypeOK, pcVars
    <3>3. \A t \in Streams \ {s} : PMsgs(t)' = PMsgs(t)
      BY <1>20 DEF ProcessMsg, PMsgs, Unaccounted, TypeOK, pcVars
    <3> QED
      BY <1>20, <3>2, <3>3 DEF HandsMatch, ProcessMsg
  <2>3. NothingBeforeSubscribing' /\ SubConsistent' /\ ClosedForAReason'
    BY <1>20 DEF NothingBeforeSubscribing, SubConsistent, ClosedForAReason, ProcessMsg,
       TypeOK, AtMostOne, Receive
  <2> QED
    BY <2>1, <2>2, <2>3
<1>21. CASE NatsClose
  <2>1. TypeOK'
    BY <1>21 DEF NatsClose, TypeOK, AtMostOne, Receive
  <2>2. HandsMatch'
    BY <1>21 DEF HandsMatch, PMsgs, Unaccounted, NatsClose, TypeOK, AtMostOne, Receive
  <2>3. NothingBeforeSubscribing' /\ SubConsistent' /\ ClosedForAReason'
    BY <1>21 DEF NothingBeforeSubscribing, SubConsistent, ClosedForAReason, NatsClose,
       TypeOK, AtMostOne, Receive
  <2> QED
    BY <2>1, <2>2, <2>3
<1>22. CASE UNCHANGED vars
  <2>1. TypeOK'
    BY <1>22 DEF vars, TypeOK, AtMostOne, Receive
  <2>2. HandsMatch'
    BY <1>22 DEF HandsMatch, PMsgs, Unaccounted, vars, TypeOK, AtMostOne, Receive
  <2>3. NothingBeforeSubscribing' /\ SubConsistent' /\ ClosedForAReason'
    BY <1>22 DEF NothingBeforeSubscribing, SubConsistent, ClosedForAReason, vars, TypeOK,
       AtMostOne, Receive
  <2> QED
    BY <2>1, <2>2, <2>3
<1> QED
  BY <1>1, <1>2, <1>3, <1>4, <1>5, <1>6, <1>7, <1>8, <1>9, <1>10, <1>11, <1>12, <1>13, <1>14, <1>15, <1>16, <1>17, <1>18, <1>19, <1>20, <1>21, <1>22
  DEF Next, Handler, Streamer, Sub, Callback

-----------------------------------------------------------------------------
(* What the steps do to the messages of their request.                     *)

\* The messages of one request have the types that MessageSequences asks for.
LEMMA MessageTypes ==
  ASSUME TypeOK, NEW s \in Streams
  PROVE  /\ wrote[s] \in Seq(Nat) /\ hand[s] \in Seq(Nat) /\ msgCh[s] \in Seq(Nat)
         /\ cbHand[s] \in Seq(Nat) /\ pending[s] \in Seq(Nat) /\ accepted[s] \in Nat
BY DEF TypeOK

\* Nobody else's messages move.
OthersKeep(s) == \A t \in Streams \ {s} : InFlight(t)' = InFlight(t)

\* A message goes from the channel to the handler.
LEMMA Received ==
  ASSUME Control, NEW s \in Streams, HandlerReceive(s)
  PROVE  /\ InFlight(s)' = InFlight(s) /\ OthersKeep(s)
         /\ UNCHANGED <<wrote, accepted, ctxDone, natsClosed>>
<1>0. TypeOK
  BY DEF Control
<1>1. /\ hand' = [hand EXCEPT ![s] = <<Head(msgCh[s])>>] /\ msgCh[s] # <<>>
      /\ msgCh' = [msgCh EXCEPT ![s] = Tail(@)] /\ hand[s] = <<>>
      /\ UNCHANGED <<wrote, cbHand, pending, accepted, ctxDone, natsClosed>>
  BY DEF HandlerReceive, Receive, Moves, Control, HandsMatch, natsVars
<1>2. hand'[s] = <<Head(msgCh[s])>> /\ msgCh'[s] = Tail(msgCh[s])
  BY <1>0, <1>1 DEF TypeOK
<1>3. /\ hand[s] \in Seq(Nat) /\ msgCh[s] \in Seq(Nat) /\ cbHand[s] \in Seq(Nat)
      /\ pending[s] \in Seq(Nat)
  BY <1>0, MessageTypes
<1>4. <<Head(msgCh[s])>> \o Tail(msgCh[s]) \o cbHand[s] \o pending[s]
      = <<>> \o msgCh[s] \o cbHand[s] \o pending[s]
  BY <1>1, <1>3, ChannelToHand, Zenon
<1>5. InFlight(s)' = InFlight(s)
  BY <1>1, <1>2, <1>4, Zenon DEF InFlight
<1>6. OthersKeep(s)
  BY <1>0, <1>1 DEF OthersKeep, InFlight, TypeOK
<1> QED
  BY <1>1, <1>5, <1>6

\* The message in hand, the oldest of those in flight, is written.
LEMMA Written ==
  ASSUME Control, NEW s \in Streams, HandlerWrite(s)
  PROVE  /\ OthersKeep(s) /\ UNCHANGED <<accepted, ctxDone, natsClosed>>
         /\ wrote' = IF ctxDone[s] THEN wrote ELSE [wrote EXCEPT ![s] = @ \o hand[s]]
         /\ InFlight(s) = hand[s] \o InFlight(s)'
         /\ wrote[s] \o hand[s] \o InFlight(s)' = wrote[s] \o InFlight(s)
         /\ hand[s] = <<Head(hand[s])>> /\ hand[s] # <<>> /\ InFlight(s)' \in Seq(Nat)
<1>0. TypeOK
  BY DEF Control
<1>1. /\ hand' = [hand EXCEPT ![s] = <<>>]
      /\ wrote' = IF ctxDone[s] THEN wrote ELSE [wrote EXCEPT ![s] = @ \o hand[s]]
      /\ UNCHANGED <<msgCh, cbHand, pending, accepted, ctxDone, natsClosed>>
  BY DEF HandlerWrite, chVars, natsVars
<1>2. hand'[s] = <<>>
  BY <1>0, <1>1 DEF TypeOK
<1>3. /\ wrote[s] \in Seq(Nat) /\ hand[s] \in Seq(Nat) /\ msgCh[s] \in Seq(Nat)
      /\ cbHand[s] \in Seq(Nat) /\ pending[s] \in Seq(Nat)
  BY <1>0, MessageTypes
<1>4. InFlight(s)' = <<>> \o msgCh[s] \o cbHand[s] \o pending[s]
  BY <1>1, <1>2, Zenon DEF InFlight
<1>5. /\ InFlight(s) = hand[s] \o InFlight(s)'
      /\ wrote[s] \o hand[s] \o InFlight(s)' = wrote[s] \o InFlight(s)
  <2>1. WriteKeeps(wrote[s], hand[s], msgCh[s], cbHand[s], pending[s])
    BY <1>3, HandToClient, Zenon
  <2>2. HandFirst(hand[s], msgCh[s], cbHand[s], pending[s])
    BY <1>3, TakeHand, Zenon
  <2> QED
    BY <1>4, <2>1, <2>2, Zenon DEF InFlight, WriteKeeps, HandFirst
<1>6. hand[s] # <<>> /\ hand[s] = <<Head(hand[s])>>
  BY <1>0 DEF HandlerWrite, Moves, Control, HandsMatch, TypeOK, AtMostOne
<1>7. InFlight(s)' \in Seq(Nat)
  <2>1. <<>> \o msgCh[s] = msgCh[s]
    BY <1>3, Neutral, Zenon
  <2>2. msgCh[s] \o cbHand[s] \o pending[s] \in Seq(Nat)
    BY <1>3, Closed, Zenon
  <2> QED
    BY <1>4, <2>1, <2>2, Zenon
<1>8. OthersKeep(s)
  BY <1>0, <1>1 DEF OthersKeep, InFlight, TypeOK
<1> QED
  BY <1>1, <1>5, <1>6, <1>7, <1>8

\* A message goes from the pending list to the callback.
LEMMA Called ==
  ASSUME Control, NEW s \in Streams, CallbackNext(s)
  PROVE  /\ InFlight(s)' = InFlight(s) /\ OthersKeep(s)
         /\ UNCHANGED <<wrote, accepted, ctxDone, natsClosed>>
<1>0. TypeOK
  BY DEF Control
<1>1. CASE pending[s] # <<>>
  <2>1. /\ cbHand' = [cbHand EXCEPT ![s] = <<Head(pending[s])>>] /\ cbHand[s] = <<>>
        /\ pending' = [pending EXCEPT ![s] = Tail(@)]
        /\ UNCHANGED <<wrote, hand, msgCh, accepted, ctxDone, natsClosed>>
    BY <1>1 DEF CallbackNext, Control, HandsMatch, chVars
  <2>2. cbHand'[s] = <<Head(pending[s])>> /\ pending'[s] = Tail(pending[s])
    BY <1>0, <2>1 DEF TypeOK
  <2>3. hand[s] \in Seq(Nat) /\ msgCh[s] \in Seq(Nat) /\ pending[s] \in Seq(Nat)
    BY <1>0, MessageTypes
  <2>4. hand[s] \o msgCh[s] \o <<Head(pending[s])>> \o Tail(pending[s])
        = hand[s] \o msgCh[s] \o <<>> \o pending[s]
    BY <1>1, <2>3, PendingToHand, ZenonT(60)
  <2>5. InFlight(s)' = InFlight(s)
    BY <2>1, <2>2, <2>4, Zenon DEF InFlight
  <2>6. OthersKeep(s)
    BY <1>0, <2>1 DEF OthersKeep, InFlight, TypeOK
  <2> QED
    BY <2>1, <2>5, <2>6
<1>2. CASE pending[s] = <<>>
  BY <1>2 DEF CallbackNext, OthersKeep, InFlight, chVars
<1> QED
  BY <1>1, <1>2

\* A message goes from the callback to the channel.
LEMMA Sent ==
  ASSUME Control, NEW s \in Streams, CallbackSend(s)
  PROVE  /\ InFlight(s)' = InFlight(s) /\ OthersKeep(s)
         /\ UNCHANGED <<wrote, accepted, ctxDone, natsClosed>>
<1>0. TypeOK
  BY DEF Control
<1>1. /\ msgCh' = [msgCh EXCEPT ![s] = @ \o cbHand[s]]
      /\ cbHand' = [cbHand EXCEPT ![s] = <<>>]
      /\ UNCHANGED <<wrote, hand, pending, accepted, ctxDone, natsClosed>>
  BY DEF CallbackSend
<1>2. msgCh'[s] = msgCh[s] \o cbHand[s] /\ cbHand'[s] = <<>>
  BY <1>0, <1>1 DEF TypeOK
<1>3. /\ hand[s] \in Seq(Nat) /\ msgCh[s] \in Seq(Nat) /\ cbHand[s] \in Seq(Nat)
      /\ pending[s] \in Seq(Nat)
  BY <1>0, MessageTypes
<1>4. SendKeeps(hand[s], msgCh[s], cbHand[s], pending[s])
  BY <1>3, HandToChannel, Zenon
<1>5. InFlight(s)' = InFlight(s)
  BY <1>1, <1>2, <1>4, Zenon DEF InFlight, SendKeeps
<1>6. OthersKeep(s)
  BY <1>0, <1>1 DEF OthersKeep, InFlight, TypeOK
<1> QED
  BY <1>1, <1>5, <1>6

\* A new message is the last one.
LEMMA Numbered ==
  ASSUME Control, NEW s \in Streams, ProcessMsg(s)
  PROVE  /\ accepted' = [accepted EXCEPT ![s] = @ + 1] /\ OthersKeep(s)
         /\ InFlight(s)' = Append(InFlight(s), accepted[s] + 1)
         /\ wrote[s] \o InFlight(s)' = Append(wrote[s] \o InFlight(s), accepted[s] + 1)
         /\ UNCHANGED <<wrote, ctxDone, natsClosed>>
<1>0. TypeOK
  BY DEF Control
<1> DEFINE n == accepted[s]
<1>1. /\ accepted' = [accepted EXCEPT ![s] = n + 1]
      /\ pending' = [pending EXCEPT ![s] = Append(@, n + 1)]
      /\ UNCHANGED <<wrote, hand, msgCh, cbHand, ctxDone, natsClosed>>
  BY DEF ProcessMsg, chVars
<1>2. pending'[s] = Append(pending[s], n + 1) /\ n + 1 \in Nat
  BY <1>0, <1>1 DEF TypeOK
<1>3. /\ wrote[s] \in Seq(Nat) /\ hand[s] \in Seq(Nat) /\ msgCh[s] \in Seq(Nat)
      /\ cbHand[s] \in Seq(Nat) /\ pending[s] \in Seq(Nat)
  BY <1>0, MessageTypes
<1>4. hand[s] \o msgCh[s] \o cbHand[s] \in Seq(Nat)
  BY <1>3, Closed, Zenon
<1>5. /\ AppendAdds(wrote[s], hand[s] \o msgCh[s] \o cbHand[s], pending[s], n + 1)
      /\ hand[s] \o msgCh[s] \o cbHand[s] \o Append(pending[s], n + 1)
         = Append(hand[s] \o msgCh[s] \o cbHand[s] \o pending[s], n + 1)
  BY <1>2, <1>3, <1>4, AddedLast, AppendedLast, Zenon
<1>6. /\ InFlight(s)' = Append(InFlight(s), n + 1)
      /\ wrote[s] \o InFlight(s)' = Append(wrote[s] \o InFlight(s), n + 1)
  BY <1>1, <1>2, <1>5, Zenon DEF InFlight, AppendAdds
<1>7. OthersKeep(s)
  BY <1>0, <1>1 DEF OthersKeep, InFlight, TypeOK
<1> QED
  BY <1>1, <1>6, <1>7

\* What is pending is discarded, only when the client has gone or NATS is closed.
LEMMA Discarded ==
  ASSUME Control, NEW s \in Streams, CallbackExit(s)
  PROVE  /\ \E n \in 0 .. Len(InFlight(s)) : InFlight(s)' = SubSeq(InFlight(s), 1, n)
         /\ ctxDone[s] \/ natsClosed
         /\ OthersKeep(s) /\ UNCHANGED <<wrote, accepted, ctxDone, natsClosed>>
<1>0. TypeOK
  BY DEF Control
<1>1. /\ pending' = [pending EXCEPT ![s] = <<>>]
      /\ UNCHANGED <<wrote, hand, msgCh, cbHand, accepted, ctxDone, natsClosed>>
  BY DEF CallbackExit, chVars
<1>2. pending'[s] = <<>>
  BY <1>0, <1>1 DEF TypeOK
<1>3. /\ hand[s] \in Seq(Nat) /\ msgCh[s] \in Seq(Nat) /\ cbHand[s] \in Seq(Nat)
      /\ pending[s] \in Seq(Nat)
  BY <1>0, MessageTypes
<1> DEFINE a == hand[s] \o msgCh[s] \o cbHand[s]
<1>4. a \in Seq(Nat)
  BY <1>3, Closed, Zenon
<1>5. InFlight(s) = a \o pending[s] /\ InFlight(s)' = a \o <<>>
  BY <1>1, <1>2, Zenon DEF InFlight
<1> HIDE DEF a
<1>6. Len(a) \in 0 .. Len(a \o pending[s]) /\ a \o <<>> = SubSeq(a \o pending[s], 1, Len(a))
  BY <1>3, <1>4, PrefixIsLeft
<1>7. ctxDone[s] \/ natsClosed
  BY DEF CallbackExit, Control, ClosedForAReason
<1>8. OthersKeep(s)
  BY <1>0, <1>1 DEF OthersKeep, InFlight, TypeOK
<1> QED
  BY <1>1, <1>5, <1>6, <1>7, <1>8

\* The draining receives take no message from a client that is there.
LEMMA Drained ==
  ASSUME Control, NEW s \in Streams, HandlerDrain(s) \/ HandlerClosed(s) \/ StreamerDrain(s)
  PROVE  /\ ctxDone[s] \/ InFlight(s)' = InFlight(s)
         /\ OthersKeep(s) /\ UNCHANGED <<wrote, accepted, ctxDone, natsClosed>>
<1>0. TypeOK
  BY DEF Control
<1>1. /\ UNCHANGED <<wrote, hand, cbHand, pending, accepted, ctxDone, natsClosed>>
      /\ \A t \in Streams \ {s} : msgCh'[t] = msgCh[t]
  BY <1>0 DEF HandlerDrain, HandlerClosed, StreamerDrain, Receive, TypeOK, natsVars
<1>2. CASE HandlerDrain(s) \/ HandlerClosed(s)
  <2>1. msgCh[s] = <<>>
    BY <1>2 DEF HandlerDrain, HandlerClosed, Moves, Control, SubConsistent, NothingBeforeSubscribing
  <2>2. msgCh'[s] = msgCh[s]
    BY <1>0, <1>2, <2>1 DEF HandlerDrain, HandlerClosed, Receive, TypeOK
  <2> QED
    BY <1>1, <2>2 DEF OthersKeep, InFlight
<1>3. CASE StreamerDrain(s)
  <2>1. ctxDone[s]
    BY <1>3 DEF StreamerDrain, Moves, Control, ClosedForAReason
  <2> QED
    BY <1>1, <2>1 DEF OthersKeep, InFlight
<1> QED
  BY <1>2, <1>3

\* The steps that move no message.
Stays(s) ==
  \/ Request(s) \/ HandlerError(s) \/ StreamerStart(s) \/ StreamerCancelled(s)
  \/ Sub(s) \/ CallbackPanics(s)

LEMMA Stayed ==
  ASSUME NEW s \in Streams, Stays(s)
  PROVE  UNCHANGED <<wrote, hand, msgCh, cbHand, pending, accepted, ctxDone, natsClosed>>
BY DEF Stays, Request, HandlerError, StreamerStart, StreamerCancelled, Sub, Subscribe, SubError,
   SubCancelled, SubClose, CallbackPanics, chVars, natsVars

-----------------------------------------------------------------------------
(* Conserved.                                                              *)

\* A step that leaves the messages where they are, though it may end a request.
LEMMA NobodyMoves ==
  ASSUME Conserved, UNCHANGED <<wrote, hand, msgCh, cbHand, pending, accepted>>,
         natsClosed => natsClosed', \A t \in Streams : ctxDone[t] => ctxDone'[t]
  PROVE  Conserved'
BY DEF Conserved, InFlight

\* A step that moves the messages of one request only.
LEMMA OneMoves ==
  ASSUME Conserved, NEW s \in Streams, OthersKeep(s), UNCHANGED <<ctxDone, natsClosed>>,
         \A t \in Streams \ {s} : wrote'[t] = wrote[t] /\ accepted'[t] = accepted[t],
         ~ctxDone[s] /\ ~natsClosed => wrote'[s] \o InFlight(s)' = FirstN(accepted'[s])
  PROVE  Conserved'
<1> SUFFICES ASSUME NEW t \in Streams, ~ctxDone[t] /\ ~natsClosed
             PROVE  wrote'[t] \o InFlight(t)' = FirstN(accepted'[t])
  BY DEF Conserved
<1>1. CASE t = s
  BY <1>1
<1>2. CASE t # s
  BY <1>2 DEF Conserved, OthersKeep
<1> QED
  BY <1>1, <1>2

LEMMA ConservedStep == IInv /\ [Next]_vars => Conserved'
<1> SUFFICES ASSUME Control, Conserved, [Next]_vars PROVE Conserved'
  BY DEF IInv
<1>0. TypeOK
  BY DEF Control
<1>1. ASSUME NEW s \in Streams, HandlerReceive(s) \/ CallbackNext(s) \/ CallbackSend(s)
      PROVE  Conserved'
  <2>1. /\ InFlight(s)' = InFlight(s) /\ OthersKeep(s)
        /\ UNCHANGED <<wrote, accepted, ctxDone, natsClosed>>
    BY <1>1, Received, Called, Sent
  <2> QED
    BY <2>1, OneMoves DEF Conserved
<1>2. ASSUME NEW s \in Streams, HandlerWrite(s) PROVE Conserved'
  <2>1. /\ OthersKeep(s) /\ UNCHANGED <<accepted, ctxDone, natsClosed>>
        /\ wrote' = IF ctxDone[s] THEN wrote ELSE [wrote EXCEPT ![s] = @ \o hand[s]]
        /\ wrote[s] \o hand[s] \o InFlight(s)' = wrote[s] \o InFlight(s)
    BY <1>2, Written
  <2>2. /\ ~ctxDone[s] => wrote'[s] = wrote[s] \o hand[s]
        /\ \A t \in Streams \ {s} : wrote'[t] = wrote[t]
    BY <1>0, <2>1 DEF TypeOK
  <2>3. ~ctxDone[s] /\ ~natsClosed => wrote'[s] \o InFlight(s)' = FirstN(accepted'[s])
    BY <2>1, <2>2 DEF Conserved
  <2> QED
    BY <2>1, <2>2, <2>3, OneMoves
<1>3. ASSUME NEW s \in Streams, ProcessMsg(s) PROVE Conserved'
  <2> DEFINE n == accepted[s]
  <2>1. /\ accepted' = [accepted EXCEPT ![s] = n + 1] /\ OthersKeep(s)
        /\ wrote[s] \o InFlight(s)' = Append(wrote[s] \o InFlight(s), n + 1)
        /\ UNCHANGED <<wrote, ctxDone, natsClosed>>
    BY <1>3, Numbered
  <2>2. /\ accepted'[s] = n + 1 /\ n \in Nat
        /\ \A t \in Streams \ {s} : accepted'[t] = accepted[t]
    BY <1>0, <2>1 DEF TypeOK
  <2>3. Append(FirstN(n), n + 1) = FirstN(n + 1)
    BY <2>2, FirstNGrows
  <2>4. ~ctxDone[s] /\ ~natsClosed => wrote'[s] \o InFlight(s)' = FirstN(accepted'[s])
    BY <2>1, <2>2, <2>3 DEF Conserved
  <2> QED
    BY <2>1, <2>2, <2>4, OneMoves
<1>4. ASSUME NEW s \in Streams, HandlerDrain(s) \/ HandlerClosed(s) \/ StreamerDrain(s)
      PROVE  Conserved'
  <2>1. /\ ctxDone[s] \/ InFlight(s)' = InFlight(s)
        /\ OthersKeep(s) /\ UNCHANGED <<wrote, accepted, ctxDone, natsClosed>>
    BY <1>4, Drained
  <2> QED
    BY <2>1, OneMoves DEF Conserved
<1>5. ASSUME NEW s \in Streams, CallbackExit(s) PROVE Conserved'
  BY <1>5, Discarded, OneMoves
<1>6. ASSUME NEW s \in Streams, Stays(s) PROVE Conserved'
  BY <1>6, Stayed, NobodyMoves
<1>7. ASSUME NEW s \in Streams, Disconnect(s) \/ EndRequest(s) PROVE Conserved'
  BY <1>0, <1>7, NobodyMoves DEF Disconnect, EndRequest, Cancel, TypeOK, chVars, natsVars
<1>8. CASE NatsClose
  BY <1>8, NobodyMoves DEF NatsClose, chVars
<1>9. CASE UNCHANGED vars
  BY <1>9, NobodyMoves DEF vars, chVars, natsVars
<1> QED
  BY <1>1, <1>2, <1>3, <1>4, <1>5, <1>6, <1>7, <1>8, <1>9
  DEF Next, Handler, Streamer, Stays, Callback

-----------------------------------------------------------------------------
LEMMA InitIInv == Init => IInv
<1> SUFFICES ASSUME Init PROVE IInv
  OBVIOUS
<1>1. TypeOK
  <2>1. <<>> \in Seq(Nat) /\ Len(<<>>) <= MsgCap /\ AtMostOne(<<>>)
    BY CapIsPositive DEF AtMostOne
  <2> QED
    <3> DEFINE empty == <<>>
    <3>1. empty \in Seq(Nat) /\ Len(empty) <= MsgCap /\ AtMostOne(empty)
      BY <2>1
    <3>2. /\ msgCh = [s \in Streams |-> empty] /\ hand = [s \in Streams |-> empty]
          /\ cbHand = [s \in Streams |-> empty] /\ pending = [s \in Streams |-> empty]
          /\ wrote = [s \in Streams |-> empty]
      BY DEF Init
    <3> HIDE DEF empty
    <3>3. /\ msgCh \in [Streams -> Seq(Nat)] /\ hand \in [Streams -> Seq(Nat)]
          /\ cbHand \in [Streams -> Seq(Nat)] /\ pending \in [Streams -> Seq(Nat)]
          /\ wrote \in [Streams -> Seq(Nat)]
          /\ \A s \in Streams :
               Len(msgCh[s]) <= MsgCap /\ AtMostOne(hand[s]) /\ AtMostOne(cbHand[s])
      BY <3>1, <3>2
    <3>4. /\ handlerPc \in [Streams -> HandlerPcs] /\ streamerPc \in [Streams -> StreamerPcs]
          /\ subPc \in [Streams -> SubPcs] /\ cbPc \in [Streams -> CallbackPcs]
      BY DEF Init, HandlerPcs, StreamerPcs, SubPcs, CallbackPcs
    <3>5. /\ ctxDone \in [Streams -> BOOLEAN] /\ chClosed \in [Streams -> BOOLEAN]
          /\ subOpen \in [Streams -> BOOLEAN] /\ natsClosed \in BOOLEAN /\ panicked \in BOOLEAN
      BY DEF Init
    <3>6. errCh \in [Streams -> 0 .. 1] /\ accepted \in [Streams -> Nat]
      BY DEF Init
    <3> QED
      BY <3>3, <3>4, <3>5, <3>6 DEF TypeOK
<1>2. HandsMatch
  <2>1. Len(<<>>) + 0 <= PendingLimit
    BY LimitIsPositive
  <2> QED
    BY <2>1 DEF Init, HandsMatch, PMsgs, Unaccounted
<1>3. NothingBeforeSubscribing /\ SubConsistent /\ ClosedForAReason
  BY DEF Init, NothingBeforeSubscribing, SubConsistent, ClosedForAReason
<1>4. Conserved
  <2>1. <<>> \o (<<>> \o <<>> \o <<>> \o <<>>) = <<>>
    OBVIOUS
  <2>2. FirstN(0) = <<>>
    BY DEF FirstN
  <2> QED
    BY <2>1, <2>2 DEF Init, Conserved, InFlight
<1> QED
  BY <1>1, <1>2, <1>3, <1>4 DEF IInv, Control

THEOREM Invariance == Spec => []IInv
<1>1. IInv /\ [Next]_vars => IInv'
  BY ControlStep, ConservedStep DEF IInv
<1> QED
  BY InitIInv, <1>1, PTL DEF Spec

\* Every variable keeps its type, and brokerMessageChan its capacity.
THEOREM TypeCorrect == Spec => []TypeOK
<1>1. IInv => TypeOK
  BY DEF IInv, Control
<1> QED
  BY <1>1, Invariance, PTL

\* However many requests there are, whatever NATS, the clients and the publishers
\* do, no message of a client that is there is lost, repeated or reordered.
THEOREM NothingLost == Spec => []Conserved
<1>1. IInv => Conserved
  BY DEF IInv
<1> QED
  BY <1>1, Invariance, PTL

\* What a goroutine has in hand is no message or one.
LEMMA AtMostOneIsShort == ASSUME NEW q, AtMostOne(q) PROVE Len(q) <= 1
<1>1. CASE q = <<>>
  BY <1>1
<1>2. CASE q # <<>>
  <2>1. q = <<Head(q)>>
    BY <1>2 DEF AtMostOne
  <2>2. \A x : Len(<<x>>) = 1
    OBVIOUS
  <2> QED
    BY <2>1, <2>2
<1> QED
  BY <1>1, <1>2

\* A stalled client costs at most PendingLimit + MsgCap + 1 messages of memory.
THEOREM MemoryBounded == Spec => []BacklogBounded
<1>1. IInv => BacklogBounded
  <2> SUFFICES ASSUME IInv, NEW s \in Streams
               PROVE  Len(InFlight(s)) <= PendingLimit + MsgCap + 1
    BY DEF BacklogBounded
  <2>1. TypeOK /\ HandsMatch
    BY DEF IInv, Control
  <2>2. /\ hand[s] \in Seq(Nat) /\ msgCh[s] \in Seq(Nat)
        /\ cbHand[s] \in Seq(Nat) /\ pending[s] \in Seq(Nat)
    BY <2>1, MessageTypes
  <2>3. Len(InFlight(s)) = Len(hand[s]) + Len(msgCh[s]) + Len(cbHand[s]) + Len(pending[s])
    BY <2>2, LengthsAdd DEF InFlight
  <2>4. Len(hand[s]) <= 1 /\ Len(cbHand[s]) <= 1
    BY <2>1, <2>2, AtMostOneIsShort DEF TypeOK
  <2>5. Len(pending[s]) <= PendingLimit /\ (cbHand[s] # <<>> => Len(pending[s]) + 1 <= PendingLimit)
    <3>1. Len(pending[s]) \in Nat /\ PMsgs(s) <= PendingLimit
      BY <2>1, <2>2 DEF HandsMatch
    <3>2. cbHand[s] # <<>> => Unaccounted(s) = 1
      BY <2>1 DEF HandsMatch, Unaccounted
    <3>3. Unaccounted(s) \in {0, 1}
      BY DEF Unaccounted
    <3> HIDE DEF InFlight
    <3> QED
      BY <3>1, <3>2, <3>3, LimitIsPositive DEF PMsgs
  <2>6. Len(msgCh[s]) <= MsgCap
    BY <2>1 DEF TypeOK
  <2>7. /\ cbHand[s] = <<>> => Len(cbHand[s]) = 0
        /\ Len(hand[s]) \in Nat /\ Len(msgCh[s]) \in Nat /\ Len(cbHand[s]) \in Nat
        /\ Len(pending[s]) \in Nat
    BY <2>2
  <2>8. PICK h \in Nat, c \in Nat, k \in Nat, p \in Nat :
          h = Len(hand[s]) /\ c = Len(msgCh[s]) /\ k = Len(cbHand[s]) /\ p = Len(pending[s])
    BY <2>7
  <2>9. /\ Len(InFlight(s)) = h + c + k + p /\ h <= 1 /\ k <= 1 /\ c <= MsgCap
        /\ p <= PendingLimit /\ (k = 0 \/ p + 1 <= PendingLimit)
    BY <2>3, <2>4, <2>5, <2>6, <2>7, <2>8
  <2> QED
    BY <2>9, CapIsPositive, LimitIsPositive
<1> QED
  BY <1>1, Invariance, PTL

-----------------------------------------------------------------------------
(* Stream implements Delivery.                                             *)

\* A step of s alone changes the queue of s alone.
LEMMA QueueOfOne ==
  ASSUME NEW s \in Streams, OthersKeep(s), ctxDone' = ctxDone
  PROVE  /\ UNCHANGED Connected
         /\ ctxDone[s] \/ InFlight(s)' = InFlight(s) => UNCHANGED Queue
         /\ ~ctxDone[s] => /\ Queue[s] = InFlight(s) /\ Connected[s]
                           /\ Queue' = [Queue EXCEPT ![s] = InFlight(s)']
         /\ ctxDone[s] => Queue[s] = <<>> /\ ~Connected[s]
BY DEF Queue, Connected, OthersKeep

\* Whoever cancels the request of s takes its whole queue away.
LEMMA CancelHangsUp ==
  ASSUME TypeOK, NEW s \in Streams, Cancel(s)
  PROVE  D!HangUp(s)
<1>1. /\ ctxDone' = [ctxDone EXCEPT ![s] = TRUE]
      /\ UNCHANGED <<hand, msgCh, cbHand, pending, accepted, wrote>>
  BY DEF Cancel, chVars, natsVars
<1>2. \A t \in Streams : ctxDone'[t] = IF t = s THEN TRUE ELSE ctxDone[t]
  BY <1>1 DEF TypeOK
<1>3. Connected' = [Connected EXCEPT ![s] = FALSE]
  BY <1>2 DEF Connected
<1>4. \A t \in Streams : InFlight(t)' = InFlight(t)
  BY <1>1 DEF InFlight
<1>5. Queue' = [Queue EXCEPT ![s] = <<>>]
  BY <1>2, <1>4 DEF Queue
<1> QED
  BY <1>1, <1>3, <1>5 DEF D!HangUp

\* Every step is one of Delivery or leaves everything that Delivery sees.
LEMMA DeliveryStep == Control /\ [Next]_vars => [D!Next]_(D!vars)
<1> SUFFICES ASSUME Control, [Next]_vars, ~UNCHANGED <<accepted, Queue, wrote, Connected>>
             PROVE  D!Next
  BY DEF D!vars
<1>0. TypeOK
  BY DEF Control
<1>1. ASSUME NEW s \in Streams, HandlerReceive(s) \/ CallbackNext(s) \/ CallbackSend(s)
      PROVE  FALSE
  <2>1. /\ InFlight(s)' = InFlight(s) /\ OthersKeep(s)
        /\ UNCHANGED <<wrote, accepted, ctxDone, natsClosed>>
    BY <1>1, Received, Called, Sent
  <2> QED
    BY <2>1, QueueOfOne
<1>2. ASSUME NEW s \in Streams, HandlerWrite(s) PROVE D!Write(s)
  <2>1. /\ OthersKeep(s) /\ UNCHANGED <<accepted, ctxDone, natsClosed>>
        /\ wrote' = IF ctxDone[s] THEN wrote ELSE [wrote EXCEPT ![s] = @ \o hand[s]]
        /\ InFlight(s) = hand[s] \o InFlight(s)'
        /\ hand[s] = <<Head(hand[s])>> /\ hand[s] # <<>> /\ InFlight(s)' \in Seq(Nat)
    BY <1>2, Written
  <2>2. ~ctxDone[s]
    BY <2>1, QueueOfOne
  <2>3. Queue[s] = InFlight(s) /\ Queue' = [Queue EXCEPT ![s] = InFlight(s)'] /\ UNCHANGED Connected
    BY <2>1, <2>2, QueueOfOne
  <2>4. wrote[s] \in Seq(Nat) /\ hand[s] \in Seq(Nat)
    BY <1>0, MessageTypes
  <2> DEFINE r == InFlight(s)'
  <2>5. /\ hand[s] \o r # <<>> /\ Head(hand[s] \o r) = Head(hand[s]) /\ Tail(hand[s] \o r) = r
        /\ wrote[s] \o hand[s] = Append(wrote[s], Head(hand[s]))
    <3>1. r \in Seq(Nat)
      BY <2>1
    <3> HIDE DEF r
    <3> QED
      BY <2>1, <2>4, <3>1, HeadInHand
  <2>6. wrote' = [wrote EXCEPT ![s] = Append(@, Head(Queue[s]))]
    BY <2>1, <2>2, <2>3, <2>5
  <2>7. Queue[s] # <<>> /\ Queue' = [Queue EXCEPT ![s] = Tail(@)]
    BY <2>1, <2>3, <2>5
  <2> QED
    BY <2>1, <2>3, <2>6, <2>7 DEF D!Write
<1>3. ASSUME NEW s \in Streams, ProcessMsg(s) PROVE D!Accept(s)
  <2>1. /\ accepted' = [accepted EXCEPT ![s] = @ + 1] /\ OthersKeep(s)
        /\ InFlight(s)' = Append(InFlight(s), accepted[s] + 1)
        /\ UNCHANGED <<wrote, ctxDone, natsClosed>>
    BY <1>3, Numbered
  <2>2. CASE ctxDone[s]
    <3>1. UNCHANGED <<Queue, Connected>> /\ ~Connected[s]
      BY <2>1, <2>2, QueueOfOne
    <3>2. Queue' = [Queue EXCEPT ![s] = @]
      BY <3>1 DEF Queue
    <3> QED
      BY <2>1, <3>1, <3>2 DEF D!Accept
  <2>3. CASE ~ctxDone[s]
    <3>1. /\ Queue[s] = InFlight(s) /\ Connected[s] /\ UNCHANGED Connected
          /\ Queue' = [Queue EXCEPT ![s] = InFlight(s)']
      BY <2>1, <2>3, QueueOfOne
    <3> QED
      BY <2>1, <3>1 DEF D!Accept
  <2> QED
    BY <2>2, <2>3
<1>4. ASSUME NEW s \in Streams, HandlerDrain(s) \/ HandlerClosed(s) \/ StreamerDrain(s)
      PROVE  FALSE
  BY <1>4, Drained, QueueOfOne
<1>5. ASSUME NEW s \in Streams, CallbackExit(s) PROVE D!LoseTail(s)
  <2>1. /\ OthersKeep(s) /\ UNCHANGED <<wrote, accepted, ctxDone, natsClosed>>
        /\ \E n \in 0 .. Len(InFlight(s)) : InFlight(s)' = SubSeq(InFlight(s), 1, n)
    BY <1>5, Discarded
  <2>2. ~ctxDone[s]
    BY <2>1, QueueOfOne
  <2>3. /\ Queue[s] = InFlight(s) /\ UNCHANGED Connected
        /\ Queue' = [Queue EXCEPT ![s] = InFlight(s)']
    BY <2>1, <2>2, QueueOfOne
  <2> QED
    BY <2>1, <2>3 DEF D!LoseTail
<1>6. ASSUME NEW s \in Streams, Stays(s) PROVE FALSE
  BY <1>6, Stayed DEF Queue, Connected, InFlight
<1>7. ASSUME NEW s \in Streams, Disconnect(s) \/ EndRequest(s) PROVE D!HangUp(s)
  BY <1>0, <1>7, CancelHangsUp DEF Disconnect, EndRequest
<1>8. CASE NatsClose
  BY <1>8 DEF NatsClose, Queue, Connected, InFlight, chVars
<1>9. CASE UNCHANGED vars
  BY <1>9 DEF vars, Queue, Connected, InFlight, chVars, natsVars
<1> QED
  BY <1>1, <1>2, <1>3, <1>4, <1>5, <1>6, <1>7, <1>8, <1>9
  DEF Next, Handler, Streamer, Stays, Callback, D!Next

\* For any number of requests and any capacities the client of a request is written, in
\* order and once each, a prefix of the messages accepted for it, and that prefix ends
\* early only when the client leaves or NATS is closed (handlers.go:110-139).
THEOREM Implements == Spec => ImplementsDelivery
<1>1. Init => D!Init
  <2> SUFFICES ASSUME Init PROVE D!Init
    OBVIOUS
  <2>1. \A s \in Streams : InFlight(s) = <<>>
    <3>1. <<>> \o <<>> \o <<>> \o <<>> = <<>>
      OBVIOUS
    <3> QED
      BY <3>1 DEF Init, InFlight
  <2>2. Queue = [s \in Streams |-> <<>>] /\ Connected = [s \in Streams |-> TRUE]
    BY <2>1 DEF Init, Queue, Connected
  <2> QED
    BY <2>2 DEF Init, D!Init
<1>2. IInv /\ [Next]_vars => [D!Next]_(D!vars)
  BY DeliveryStep DEF IInv
<1> QED
  BY <1>1, <1>2, Invariance, PTL DEF Spec, ImplementsDelivery, D!Spec
=============================================================================
