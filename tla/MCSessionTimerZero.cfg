\* One user process (the daemon), an NMI backend, suspend and resume, setup
\* failures at every step, timer_count writes of 0 (NMI mode) and of the
\* adapt cap, and one enabled counter that can be decayed once.
CONSTANTS
  Procs = {p1}
  ArchAvailable = FALSE
  PM = TRUE
  MayFail = TRUE
  TimerValues = {0}
  CounterCounts <- MCCounterCounts
  MaxAdapts = 2
  DefaultDepth = 6
  DepthValues = {0}
  MaxFrameAddr = 4
  ThreadSize = 4
  UIntWidth = 3
  CPUs = {c0, c1}
  BootCpu = c0
  HotplugCPUs = {c1}

SPECIFICATION Spec

INVARIANT AdaptValueTracksPeriod
