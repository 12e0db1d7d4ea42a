SPECIFICATION FairSpec
CONSTANTS
  Card = {c1, c2}
  Status = {"Ready", "Building", "QA", "Done"}
  MaxWorkers = 2
  MaxDispatches = 3
  MaxTicks = 4
  HaltTicks = 2
  IdleTicks = 2
  DrainTicks = 1
  None = None
INVARIANTS DoneMeansDrained DispatchesBetweenLandings
PROPERTY EveryRunEnds
CHECK_DEADLOCK FALSE
