SPECIFICATION Spec
CONSTANTS
  Stream = {s1, s2}
  None = None
  MaxSerial = 3
  MaxPts = 3
  QueueCap = 1
  EncoderCap = 2
  MaxProofs = 2
  EventCap = 1
  OutCap = 1
INVARIANTS
  OneOwner
  ProofHonest
  ProofKept
PROPERTY CanceledEnds
CHECK_DEADLOCK FALSE
