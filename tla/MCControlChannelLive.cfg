CONSTANTS
  Devices = {d1, d2}
  Unknown = Unknown
  Requesters = {}
  Poller = poller
  MaxConn = 2
  MaxInbox = 1
  Families = {"tls"}
  Polling = TRUE
  AllowControl = FALSE
  Passthrough = FALSE
  Headerless = FALSE
SPECIFICATION FairSpec
PROPERTIES
  DeadPeerForgotten
  PushReturns
  RoundEnds
  DevInfoAnswered
CHECK_DEADLOCK FALSE
