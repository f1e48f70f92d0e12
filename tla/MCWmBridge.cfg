CONSTANTS
  MaxSent = 2
  MaxQuiet = 1
SPECIFICATION FairSpec
INVARIANTS
  NothingLost
  ObserverComplete
  LastWords
PROPERTIES
  EstablishedEnds
  BlocksOnlyParked
CHECK_DEADLOCK FALSE
