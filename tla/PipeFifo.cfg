SPECIFICATION Spec
CONSTANTS
  Writer = {w1, w2}
  Reader = {r1, r2}
  Byte = {x, y}
  PIPESIZE = 2
  Wrap = 4
  MaxLen = 3
  MaxCalls = 1
  Killable = {w1, w2, r1, r2}
  Nobody = Nobody
SYMMETRY MCSymmetry
INVARIANT TypeOK
INVARIANT WriterSleepsOnFull
INVARIANT ReaderSleepsOnEmpty
PROPERTY IsChannel
