SPECIFICATION Spec
CONSTANTS
  User = {p, q}
  Block = {a, b, c, d}
  Val = {v, w}
  NBUF = 3
  MaxDirty = 2
  MaxOps = 2
  MaxLost = 1
  None = None
SYMMETRY MCSymmetry
INVARIANT References
INVARIANT RequestsExact
INVARIANT SleepersHaveReason
INVARIANT PanicMeansFull
PROPERTY IsBlockStore
