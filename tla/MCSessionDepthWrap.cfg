\* backtrace_depth written with 2^32 (2^UIntWidth here): the walkers receive it
\* as an unsigned int of 0.
CONSTANTS
  Procs = {p1}
  ArchAvailable = TRUE
  PM = FALSE
  MayFail = FALSE
  TimerValues = {0, 214748364}
  CounterCounts <- MCCounterCounts
  MaxAdapts = 1
  DefaultDepth = 6
  DepthValues = {8}
  MaxFrameAddr = 4
  ThreadSize = 4
  UIntWidth = 3
  CPUs = {c0, c1}
  BootCpu = c0
  HotplugCPUs = {c1}

SPECIFICATION Spec

INVARIANT X86WalksFollowFrameChain
