\* One user process (the daemon), an NMI backend, suspend and resume, setup
\* failures at every step, timer_count writes of 0 (NMI mode) and of the
\* adapt cap, one enabled counter that can be decayed once, and
\* backtrace_depth writes of 0, 1 and 2 over the default (512, scaled to 6),
\* and two CPUs, the second taken offline and back.
CONSTANTS
  Procs = {p1}
  ArchAvailable = TRUE
  PM = TRUE
  MayFail = TRUE
  TimerValues = {0, 214748364}
  CounterCounts <- MCCounterCounts
  MaxAdapts = 2
  DefaultDepth = 6
  DepthValues = {0, 1, 2}
  MaxFrameAddr = 4
  ThreadSize = 4
  UIntWidth = 3
  CPUs = {c0, c1}
  BootCpu = c0
  HotplugCPUs = {c1}

SPECIFICATION FairSpec

INVARIANT TypeOK
INVARIANT ResourcesMatchSetup
INVARIANT NoSamplingIntoFreedBuffers
INVARIANT AdaptValueTracksPeriod
INVARIANT X86WalksFollowFrameChain
INVARIANT PpcWalksWithinDepth
INVARIANT TimersFollowCtrRunning
PROPERTY DrainKeepsRunning
