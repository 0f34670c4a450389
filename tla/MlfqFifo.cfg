SPECIFICATION Spec
CONSTANTS
  NPROC = 3
  NCPU = 1
  time_quantum <- MCQuantum
  AgingTicks = 2
  IoChan = {tick}
  TicksChan = tick
  SetInfoArgs <- MCNoArgs
  KillPids = {}
  MaxPid = 2
  MaxTicks = 1
  MaxCount = 1
INVARIANT EqualsAreFifo
VIEW MCView
