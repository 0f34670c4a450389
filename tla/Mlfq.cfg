SPECIFICATION Spec
CONSTANTS
  NPROC = 3
  NCPU = 2
  time_quantum <- MCQuantum
  AgingTicks = 1
  IoChan = {tick}
  TicksChan = tick
  SetInfoArgs <- MCSetInfo
  KillPids = {2}
  MaxPid = 3
  MaxTicks = 1
  MaxCount = 1
INVARIANT TypeOK
INVARIANT QueuesExact
INVARIANT QueueSorted
INVARIANT RunningOnOneCpu
INVARIANT NoLostChild
INVARIANT ParentAlive
INVARIANT KillReachesWait
INVARIANT AgingPrompt
PROPERTY ServesBestLevel
VIEW MCView
