SPECIFICATION Spec
CONSTANTS
  p1 = p1
  p2 = p2
  a = a
  b = b
  None = None
  Process = {p1, p2}
  Name = {a, b}
  Path <- OnePath
  Image <- MCImage
  Ops = {"creat", "unlink"}
  NInum = 4
  NINODE = 6
  MaxOpen = 1
  MaxCalls = 2
CHECK_DEADLOCK FALSE
INVARIANT NoLockCycle
