\* Two processes: one closes the buffer file while the other writes enable.
CONSTANTS
  Procs = {p1, p2}
  ArchAvailable = TRUE
  PM = FALSE
  MayFail = FALSE
  TimerValues = {0, 214748364}
  CounterCounts <- MCCounterCounts
  MaxAdapts = 1
  DefaultDepth = 6
  DepthValues = {0}
  MaxFrameAddr = 4
  ThreadSize = 4
  UIntWidth = 3
  CPUs = {c0, c1}
  BootCpu = c0
  HotplugCPUs = {c1}

SPECIFICATION Spec

INVARIANT NoSamplingIntoFreedBuffers
