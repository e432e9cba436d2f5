SPECIFICATION Spec
CONSTANTS
  MaxEvents = 4
  Costs = {1, 4}
  ResizeCost = 1
  RingLimits = {3, 5}
  RingEvents = 2
  BroadcastCap = 1
  Window = 2
  PendingLimit = 4
  SnapshotCost = 1
  RenderLimit = 6
  MaxDrops = 1
INVARIANTS
  NeverRefused
  CreditBound
PROPERTIES
  FeedSpec
  CatchesUp
CHECK_DEADLOCK FALSE
