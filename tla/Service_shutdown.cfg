\* One signal is enough for a shutdown that never ends.
CONSTANTS
  Local = FALSE
  MaxStreams = 1
SPECIFICATION FairSpec
PROPERTY ShutdownCompletes
\* The process ends, or hangs.
CHECK_DEADLOCK FALSE
