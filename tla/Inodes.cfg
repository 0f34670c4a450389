SPECIFICATION Spec
CONSTANTS
  p1 = p1
  p2 = p2
  a = a
  b = b
  None = None
  Process = {p1, p2}
  Name = {a, b}
  Path <- MCPaths
  Image <- MCImage
  Ops = {"creat", "mkdir", "link", "unlink", "open", "mknod", "close", "chdir"}
  NInum = 4
  NINODE = 6
  MaxOpen = 1
  MaxCalls = 3
SYMMETRY MCSymmetry
CHECK_DEADLOCK FALSE
INVARIANT RefsExact
INVARIANT CacheExact
INVARIANT NoTypePanic
INVARIANT LinksExact
