SPECIFICATION Spec
CONSTANTS
  p1 = p1
  p2 = p2
  f1 = f1
  f2 = f2
  f3 = f3
  i1 = i1
  i2 = i2
  None = None
  Process = {p1, p2}
  Inode = {i1, i2}
  File = {f1, f2, f3}
  ino <- MCino
  NBlock = 7
  BSIZE = 2
  NDIRECT = 2
  MAXOPBLOCKS = 8
  NByte = 2
  Counts = {1, 3, 7}
  Offsets <- MCOffsets
  MaxCalls = 3
SYMMETRY MCSymmetry
CHECK_DEADLOCK FALSE
INVARIANT BlocksExact
INVARIANT InodeExact
INVARIANT OpFits
PROPERTY IsByteFile
