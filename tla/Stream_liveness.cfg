\* One request, whose client may stop reading.
CONSTANTS
  Streams = {s1}
  BadTopics = {}
  MsgCap = 1
  PendingLimit = 2
  MaxMsgs = 5
SPECIFICATION FairSpec
PROPERTIES CleanedUp RefusedRequestEnds Delivered
CHECK_DEADLOCK FALSE
