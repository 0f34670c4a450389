SPECIFICATION Spec
CONSTANTS
  NPROC = 3
  NCPU = 2
  time_quantum <- MCQuantum
  AgingTicks = 1
  IoChan = {tick}
  TicksChan = tick
  SetInfoArgs <- MCNoArgs
  KillPids = {}
  MaxPid = 3
  MaxTicks = 1
  MaxCount = 1
INVARIANT QuantumDemotes
VIEW MCView
