----------------------------- MODULE RemoteCall -----------------------------
(***************************************************************************)
(* What the generated client and server promise of one call together,      *)
(* without HTTP: the method runs at most once, and the caller is returned, *)
(* once, either what the method's end tells it or that the call has        *)
(* failed.  The two are not exclusive: a method may run, and its caller be *)
(* told of a failure, before or after.                                     *)
(***************************************************************************)
CONSTANTS
  Methods,   \* the methods of the service
  Ends,      \* how a method may end
  Failures,  \* what a caller is returned when the call itself has failed
  Told(_,_), \* what the caller of a method is told of an end
  None       \* no end yet, or no result

VARIABLES asked, outcome, result

vars == <<asked, outcome, result>>

Init == asked = "none" /\ outcome = None /\ result = None

Ask(m) ==
  /\ asked = "none"
  /\ asked' = m
  /\ UNCHANGED <<outcome, result>>

Run(end) ==
  /\ outcome = None
  /\ outcome' = end
  /\ UNCHANGED <<asked, result>>

Tell ==
  /\ asked # "none" /\ result = None
  /\ outcome # None
  /\ result' = Told(asked, outcome)
  /\ UNCHANGED <<asked, outcome>>

Fail ==
  /\ asked # "none" /\ result = None
  /\ result' \in Failures
  /\ UNCHANGED <<asked, outcome>>

Next == (\E m \in Methods : Ask(m)) \/ (\E end \in Ends : Run(end)) \/ Tell \/ Fail

Spec == Init /\ [][Next]_vars
=============================================================================
