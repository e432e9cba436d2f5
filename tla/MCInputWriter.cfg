SPECIFICATION Spec
CONSTANTS
  c1 = c1
  k1 = k1
  p1 = p1
  task = task
  key = key
  intr = intr
  paste = paste
  Client = {c1}
  Connection = {k1}
  InputId = {key, intr, paste}
  NoOwner = NoOwner
  Idle = Idle
  Ttl = 1
  MaxEpoch = 2
  MaxSeq = 3
  LedgerLimit = 3
  MaxInput = 1
  MaxPaste = 2
  MaxAccepted = 3
  Principal = {p1}
  ClientOf <- SoleClient
  Handler = {task}
  Handles <- OneHandler
  Shape <- PasteKeyInterrupt
  NormalCap = 1
  InterruptCap = 1
  QueryCap = 0
  MaxFailures = 1
  Ender = {}
INVARIANTS
  AtMostOneLateWrite
  InterruptBarrier
  PasteUnbroken
  OutcomeHonest
  ExactlyOnce
