\* A Nehalem (op_arch_perfmon_spec): the model starts counter 0 only.
CONSTANTS
  CPUs <- MCArchCPUs
  CounterBits = 4
  Enabled = {0, 1}
  Count <- MCCount
  MaxEvents = 7
SPECIFICATION Spec
INVARIANT EnabledCountersCount
