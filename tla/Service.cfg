\* A local environment, with all three actors, and requests that may stay open.
CONSTANTS
  Local = TRUE
  MaxStreams = 2
SPECIFICATION FairSpec
INVARIANTS TypeOK NothingServesAfter
PROPERTIES OnlyTwoHangs FailureEndsService
\* The process ends, or hangs.
CHECK_DEADLOCK FALSE
