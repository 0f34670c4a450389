SPECIFICATION Spec
CONSTANTS
  NPROC = 3
  NCPU = 1
  time_quantum <- MCQuantum
  AgingTicks = 2
  IoChan = {tick}
  TicksChan = tick
  SetInfoArgs <- MCNoArgs
  KillPids = {}
  MaxPid = 4
  MaxTicks = 0
  MaxCount = 0
INVARIANT ShellStaysAtBottom
VIEW MCView
