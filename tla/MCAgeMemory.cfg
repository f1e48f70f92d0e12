CONSTANTS
  Kinds = {"frame", "event"}
  MaxLines = 2
  Cap = 1
  Keep = 1
  Day = 2
  MaxAge = 1
  Zones = {0}
  MaxTime = 4
SPECIFICATION FairAgeSpec
INVARIANTS
  OnceOrTwice
  NoHistory
  AgesTrue
  EventsCurrent
PROPERTIES
  SeenEventually
CHECK_DEADLOCK FALSE
