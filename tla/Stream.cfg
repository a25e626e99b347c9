\* One request that is served and one whose subject NATS refuses.  Five messages
\* are one more than a stalled client can keep in memory.
CONSTANTS
  Streams = {s1, s2}
  BadTopics = {s2}
  MsgCap = 2
  PendingLimit = 1
  MaxMsgs = 5
SPECIFICATION Spec
INVARIANTS TypeOK Conserved BacklogBounded
PROPERTIES ImplementsDelivery
CHECK_DEADLOCK FALSE
