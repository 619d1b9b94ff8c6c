\* A Pentium III (op_ppro_spec), both enabled with valid counts: samples match overflows.
CONSTANTS
  CPUs <- MCPassCPUs
  CounterBits = 4
  Enabled = {0, 1}
  Count <- MCCount
  MaxEvents = 7
SPECIFICATION Spec
INVARIANTS TypeOK NoFalseSample EnabledCountersCount
PROPERTIES EveryOverflowSampled
