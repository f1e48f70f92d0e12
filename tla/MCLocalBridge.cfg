CONSTANTS
  Kinds = {"snap", "blank", "chatter"}
  MaxLines = 4
  Cap = 2
  Keep = 1
  Window = 2
  MaxRestarts = 1
SPECIFICATION FairBridgeSpec
INVARIANTS
  LogOrdered
PROPERTIES
  ShownAdvances
  CatchesUp
CHECK_DEADLOCK FALSE
