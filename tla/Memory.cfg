SPECIFICATION Spec
CONSTANTS
  NPROC = 3
  NPage = 16
  PGSIZE = 2
  NVpn = 6
  PerTable = 3
  KTables = 1
  Width = 5
  Grow <- MCGrow
  Images <- MCImages
  MaxCalls = 4
CHECK_DEADLOCK FALSE
INVARIANT PagesPartitioned
INVARIANT SizeMapped
PROPERTY DataStays
