\* A request whose subject NATS refuses ends through the closed channel.
CONSTANTS
  Streams = {s1}
  BadTopics = {s1}
  MsgCap = 2
  PendingLimit = 1
  MaxMsgs = 2
SPECIFICATION Spec
PROPERTY ClosedMeansDisconnected
CHECK_DEADLOCK FALSE
