\* The timer backend (one counter, no backtrace): the ring must behave as a
\* bounded FIFO, as spec sections 4.1 and 5 require.
CONSTANTS
  t1 = t1
  t2 = t2
  Tasks <- MCTasks
  Traces <- MCTraces
  PCs = {"p1"}
  BufferSize = 8
  Backtrace = FALSE
  NullRegs = FALSE
  NumCounters = 1
  MaxIrqs = 3
  MaxMarkers = 2
  MaxFrameAddr = 4
  ThreadSize = 4
  UIntWidth = 3

SPECIFICATION Spec

PROPERTY FifoRefinement
