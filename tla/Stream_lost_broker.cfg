\* The NATS connection is closed while a request is served.
CONSTANTS
  Streams = {s1}
  BadTopics = {}
  MsgCap = 2
  PendingLimit = 1
  MaxMsgs = 2
SPECIFICATION FairSpec
PROPERTY LostBrokerReported
CHECK_DEADLOCK FALSE
