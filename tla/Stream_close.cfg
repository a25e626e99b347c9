\* A message is sent on the channel of a client that has just disconnected.
CONSTANTS
  Streams = {s1}
  BadTopics = {}
  MsgCap = 2
  PendingLimit = 1
  MaxMsgs = 2
SPECIFICATION Spec
INVARIANT CloseIsSafe
CHECK_DEADLOCK FALSE
