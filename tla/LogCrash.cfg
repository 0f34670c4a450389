SPECIFICATION LiveSpec
CONSTANTS
  Op = {o1, o2}
  Block = {a, b}
  Val = {v, w}
  MAXOPBLOCKS = 4
  OpBlocks = 2
  LOGSIZE = 8
  log_size = 8
  MaxCrash = 2
INVARIANT CommittedIsDurable
INVARIANT ReservationSuffices
PROPERTY CrashAtomic
PROPERTY SleepersWoken
