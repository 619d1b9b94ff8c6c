\* The daemon alone, with system suspend and resume.
CONSTANTS
  Procs = {p1}
  ArchAvailable = TRUE
  PM = TRUE
  MayFail = FALSE
  TimerValues = {0, 214748364}
  CounterCounts <- MCCounterCounts
  MaxAdapts = 1
  DefaultDepth = 6
  DepthValues = {0}
  MaxFrameAddr = 4
  ThreadSize = 4
  UIntWidth = 3
  CPUs = {c0}
  BootCpu = c0
  HotplugCPUs = {}

SPECIFICATION Spec

INVARIANT SamplingOnlyWhenStarted
