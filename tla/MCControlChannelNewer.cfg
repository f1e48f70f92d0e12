CONSTANTS
  Devices = {d1}
  Unknown = Unknown
  Requesters = {}
  Poller = poller
  MaxConn = 2
  MaxInbox = 1
  Families = {"raw", "tls"}
  Polling = FALSE
  AllowControl = FALSE
  Passthrough = FALSE
  Headerless = FALSE
SPECIFICATION Spec
INVARIANTS
  NewerLiveStaysReachable
CHECK_DEADLOCK FALSE
