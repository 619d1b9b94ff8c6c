\* One CPU's ring of 8 slots under a two-counter check_ctrs (ppro) with
\* backtraces from the x86 walker enabled and NULL regs possible.
CONSTANTS
  t1 = t1
  t2 = t2
  Tasks <- MCTasks
  Traces <- MCTraces
  PCs = {"p1"}
  BufferSize = 8
  Backtrace = TRUE
  NullRegs = TRUE
  NumCounters = 2
  MaxIrqs = 2
  MaxMarkers = 2
  MaxFrameAddr = 4
  ThreadSize = 4
  UIntWidth = 3

SPECIFICATION Spec

INVARIANT TypeOK
INVARIANT StreamRoundTrip
INVARIANT NoSilentLoss
PROPERTY FifoUntilOverrun
