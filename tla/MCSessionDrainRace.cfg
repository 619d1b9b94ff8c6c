\* The drain work re-arms itself between end_cpu_work's cancel and its flush.
CONSTANTS
  Procs = {p1}
  ArchAvailable = TRUE
  PM = FALSE
  MayFail = FALSE
  TimerValues = {0, 214748364}
  CounterCounts <- MCCounterCounts
  MaxAdapts = 1
  DefaultDepth = 6
  DepthValues = {0}
  MaxFrameAddr = 4
  ThreadSize = 4
  UIntWidth = 3
  CPUs = {c0, c1}
  BootCpu = c0
  HotplugCPUs = {c1}

SPECIFICATION Spec

INVARIANT NoDrainOfFreedBuffers
