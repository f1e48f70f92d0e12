CONSTANTS
  Retries = 5
  HttpRetries = 6
  Edges = {"answers", "refuses"}
SPECIFICATION FairSpec
INVARIANTS
  ChannelTended
  NoChurn
PROPERTIES
  ChannelReturns
