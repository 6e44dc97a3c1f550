SPECIFICATION FairSpec
CONSTANTS
  Sweeps = {"sweep"}
  Flushes = {"flush"}
  MaxFailures = 3
INVARIANTS
  IInv
  ReplyInSight
PROPERTIES
  HumanHeard
  WakesWhenDue
  OneRetryThenAHuman
