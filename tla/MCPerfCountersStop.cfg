\* A Pentium III and a PowerPC 970: an interrupt latched before the stop
\* restarts the counters after it (nmi_stop; power4_stop).
CONSTANTS
  CPUs <- MCStopCPUs
  CounterBits = 4
  Enabled = {0, 1}
  Count <- MCCount
  MaxEvents = 7
SPECIFICATION Spec
INVARIANT StoppedMeansStopped
