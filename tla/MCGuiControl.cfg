SPECIFICATION Spec
CONSTANTS
  QueueCap = 2
  Batch = 2
  MaxRev = 2
  NoArm = NoArm
INVARIANTS
  RevokeStopsInput
  ArmStartsClean
  ArmedIsLeased
CHECK_DEADLOCK FALSE
PROPERTY KeysReleased
