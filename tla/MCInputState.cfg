SPECIFICATION Spec
CONSTANTS
  Client = {c1, c2}
  Connection = {k1, k2}
  InputId = {i1, i2, i3}
  NoOwner = NoOwner
  Ttl = 2
  MaxEpoch = 3
  MaxSeq = 2
  LedgerLimit = 2
  MaxInput = 1
  MaxPaste = 1
  MaxAccepted = 4
SYMMETRY Symmetry
INVARIANTS
  NoReplay
  OneWriterPerEpoch
  IdWindow
PROPERTY
  LostLeaseStaysLost
