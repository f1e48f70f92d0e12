CONSTANTS
  Requests = {r1, r2}
  Bridge = TRUE
  Targets = 3
  Retries = 1
  Rounds = 2
  Captured = {"report"}
  MaxTime = 2
SPECIFICATION FairSpec
INVARIANTS
  NeverFaked
  OutageHidden
  FreshIsNew
PROPERTIES
  CapturesServed
  Answered
