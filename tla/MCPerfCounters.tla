--------------------------- MODULE MCPerfCounters ---------------------------
EXTENDS PerfCounters

(* Boot CPUs: a Pentium III (Coppermine), a Nehalem (Bloomfield), an AMD  *)
(* family 10h, a PowerPC 970 (num_pmcs 8, two of them modelled).          *)
PentiumIII == [vendor |-> "intel", family |-> 6, model |-> 8, arch_perfmon |-> FALSE, force |-> FALSE, pmcs |-> 0]
Nehalem == [vendor |-> "intel", family |-> 6, model |-> 26, arch_perfmon |-> TRUE, force |-> FALSE, pmcs |-> 0]
Family10h == [vendor |-> "amd", family |-> 16, model |-> 2, arch_perfmon |-> FALSE, force |-> FALSE, pmcs |-> 0]
PPC970 == [vendor |-> "ibm", family |-> "POWER4", model |-> 57, arch_perfmon |-> FALSE, force |-> FALSE, pmcs |-> 2]

MCPassCPUs == {PentiumIII, Family10h, PPC970}
MCArchCPUs == {Nehalem}
MCStopCPUs == {PentiumIII, PPC970}
MCNmiStopCPUs == {PentiumIII}

(* Counts below 2^(CounterBits-1), as nmi_adapt keeps them. *)
MCCount == [i \in 0 .. 3 |-> IF i = 0 THEN 2 ELSE 3]

=============================================================================
