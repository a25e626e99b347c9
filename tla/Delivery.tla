------------------------------ MODULE Delivery ------------------------------
(***************************************************************************)
(* What a request to /stream promises its client: of the messages accepted *)
(* for it, numbered in the order they came, the client is written a        *)
(* prefix, each message once and in order.  Messages may be lost only by   *)
(* losing a whole tail, or all that is left when the client hangs up.      *)
(* Nothing here knows of goroutines and channels.                          *)
(***************************************************************************)
EXTENDS Naturals, Sequences

CONSTANT Streams  \* the requests

VARIABLES
  accepted,   \* how many messages were accepted for each request
  queue,      \* those that were accepted and not yet written
  written,    \* those written to the client
  connected   \* whether the client is there

vars == <<accepted, queue, written, connected>>

Init ==
  /\ accepted = [s \in Streams |-> 0]
  /\ queue = [s \in Streams |-> <<>>]
  /\ written = [s \in Streams |-> <<>>]
  /\ connected = [s \in Streams |-> TRUE]

\* A message that comes after the client has gone is for nobody.
Accept(s) ==
  /\ accepted' = [accepted EXCEPT ![s] = @ + 1]
  /\ queue' = [queue EXCEPT ![s] = IF connected[s] THEN Append(@, accepted[s] + 1) ELSE @]
  /\ UNCHANGED <<written, connected>>

Write(s) ==
  /\ queue[s] # <<>>
  /\ written' = [written EXCEPT ![s] = Append(@, Head(queue[s]))]
  /\ queue' = [queue EXCEPT ![s] = Tail(@)]
  /\ UNCHANGED <<accepted, connected>>

\* The newest messages are lost.
LoseTail(s) ==
  /\ \E n \in 0 .. Len(queue[s]) : queue' = [queue EXCEPT ![s] = SubSeq(@, 1, n)]
  /\ UNCHANGED <<accepted, written, connected>>

HangUp(s) ==
  /\ connected' = [connected EXCEPT ![s] = FALSE]
  /\ queue' = [queue EXCEPT ![s] = <<>>]
  /\ UNCHANGED <<accepted, written>>

Next == \E s \in Streams : Accept(s) \/ Write(s) \/ LoseTail(s) \/ HangUp(s)

Spec == Init /\ [][Next]_vars
=============================================================================
