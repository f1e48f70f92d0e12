CONSTANTS
  MaxFrame = 1048576
  SanityLimit = 260
  MaxChunk = 40
  Sizes = {3, 32, 256}
  MaxItems = 3
SPECIFICATION Spec
INVARIANTS
  NothingMissed
  NothingInvented
  BufferBounded
CHECK_DEADLOCK FALSE
