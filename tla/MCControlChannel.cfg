CONSTANTS
  Devices = {d1, d2}
  Unknown = Unknown
  Requesters = {q}
  Poller = poller
  MaxConn = 2
  MaxInbox = 1
  Families = {"raw", "tls"}
  Polling = FALSE
  AllowControl = TRUE
  Passthrough = TRUE
  Headerless = TRUE
SPECIFICATION Spec
SYMMETRY Alike
INVARIANTS
  SendExclusion
  PushOnOwnSocket
  BridgeInert
PROPERTIES
  ImplementsRoutingTable
CHECK_DEADLOCK FALSE
