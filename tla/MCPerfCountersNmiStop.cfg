\* A Pentium III alone: an NMI taken between model->stop and
\* ctr_running = 0 restarts the counters.
CONSTANTS
  CPUs <- MCNmiStopCPUs
  CounterBits = 4
  Enabled = {0, 1}
  Count <- MCCount
  MaxEvents = 7
SPECIFICATION Spec
INVARIANT StoppedMeansStopped
