---------------------------- MODULE PerfCounters ----------------------------
(***************************************************************************)
(* One CPU's performance counters as the x86 counter models program them:  *)
(* op_model_ppro.c (op_ppro_spec and op_arch_perfmon_spec, which share its *)
(* functions) and op_model_athlon.c. setup_ctrs writes each counter with   *)
(* CTR_WRITE, -(u32)count with the high word all ones, so that it          *)
(* overflows after count events; the overflow raises an NMI whose handler, *)
(* check_ctrs, stops the counters, samples and re-arms every counter whose *)
(* low word has bit 31 clear (CTR_OVERFLOWED), and starts them again.      *)
(*                                                                         *)
(* Which of the three models a CPU gets is op_nmi_init's choice, from the *)
(* vendor, family and model of the CPU (ppro_init for Intel family 6).    *)
(*                                                                         *)
(* The hardware is part of the model: a counter counts when its event      *)
(* select is configured and its enable bit (22) is set. On P6 CPUs before *)
(* architectural performance monitoring the enable bit of EVNTSEL0        *)
(* enables both counters; on CPUs with architectural perfmon and on AMD   *)
(* CPUs every counter has its own.                                         *)
(*                                                                         *)
(* The low word is CounterBits wide: 32 in the hardware, smaller under TLC *)
(* (whose integers are 32-bit signed); every quantity scales with it, the  *)
(* overflow bit is bit CounterBits - 1.                                    *)
(***************************************************************************)
EXTENDS Integers, Sequences, SequencesExt, FiniteSets

CONSTANTS
  CPUs,          \* boot CPUs: [vendor, family, model, arch_perfmon, force, pmcs]
  CounterBits,   \* width of the low word (32)
  Enabled,       \* counters with counter_config[i].enabled
  Count,         \* counter_config[i].count of each counter
  MaxEvents      \* bound on counted events

(* ppro_init: the display model selects op_arch_perfmon_spec, or           *)
(* op_ppro_spec with a cpu_type, or nothing (then the caller falls back).  *)
(* With cpu_type=arch_perfmon forced on an arch-perfmon CPU, nothing.      *)
ArchPerfmonModels == {26, 30, 31, 46, 37, 44, 47, 42, 45, 58, 60, 62, 63, 69, 70, 71}
PproModels == (0 .. 15) \cup {21, 22, 23, 29, 28, 38, 39, 54}
ppro_init(c) ==
  IF c.force /\ c.arch_perfmon THEN "none"
  ELSE IF c.model \in ArchPerfmonModels THEN "arch_perfmon"
  ELSE IF c.model \in PproModels THEN "ppro"
  ELSE "none"

(* op_nmi_init: AMD families 6, 0xf, 0x10-0x12, 0x14, 0x15 get the Athlon  *)
(* model; Intel family 6 asks ppro_init, and any Intel CPU left without a  *)
(* model falls back to op_arch_perfmon_spec if it has architectural       *)
(* perfmon. Otherwise -ENODEV ("none"). Family 0xf Intel (p4_init) is not *)
(* in this tree.                                                           *)
op_nmi_init(c) ==
  IF c.vendor = "amd"
  THEN IF c.family \in {6, 15, 16, 17, 18, 20, 21} THEN "athlon" ELSE "none"
  ELSE LET m == IF c.family = 6 THEN ppro_init(c) ELSE "none"
       IN IF m # "none" THEN m
          ELSE IF c.arch_perfmon THEN "arch_perfmon" ELSE "none"

(* powerpc oprofile_arch_init: cur_cpu_spec->oprofile_type POWER4 (which *)
(* the 970 and POWER4/5 report) gets op_model_power4; the other types'    *)
(* models (rs64, 7450, fsl_booke) are not in this tree.                   *)
oprofile_arch_init(c) == IF c.family = "POWER4" THEN "power4" ELSE "none"

ModelOf(c) == IF c.vendor = "ibm" THEN oprofile_arch_init(c) ELSE op_nmi_init(c)

(* Counters: 2 on P6 and arch perfmon, 4 on Athlon, num_pmcs on powerpc. *)
NUM_COUNTERS(c) ==
  CASE ModelOf(c) = "athlon" -> 4
    [] ModelOf(c) = "power4" -> c.pmcs
    [] OTHER -> 2
CtrsOf(c) == 0 .. NUM_COUNTERS(c) - 1
Word == 2 ^ CounterBits

ASSUME \A c \in CPUs :
  /\ c.vendor \in {"intel", "amd", "ibm"} /\ ~(c.vendor = "intel" /\ c.family = 15)
  /\ ModelOf(c) \in {"ppro", "arch_perfmon", "athlon", "power4"}
  /\ Enabled \subseteq CtrsOf(c) /\ CtrsOf(c) \subseteq DOMAIN Count

(* CTR_WRITE(l): the low word written is -(u32)l, the high word -1. *)
CTR_WRITE(l) == (Word - (l % Word)) % Word

(* CTR_OVERFLOWED(n): bit 31 of the low word is clear. *)
CTR_OVERFLOWED(n) == n < Word \div 2

VARIABLES
  cpu,          \* the boot CPU, fixed at boot
  mmcr0,        \* powerpc MMCR0: freeze (FC) and exception enable (PMXE)
  ctrl,         \* per counter: event select configured, interrupt bit (20), enable bit (22)
  low,          \* per counter: the low word
  hi,           \* per counter: the high bits are still all ones (no overflow yet)
  reset_value,
  nmi_pending,  \* an overflow with the interrupt bit set raised the PMI
  phase,        \* "off", "setup", "started", "stopped" (nmi_int.c's calls)
  ovf,          \* history: overflows of each counter not yet sampled
  log,          \* history: the counter index of every sample taken
  false_samples,\* history: samples taken for a counter that had not overflowed
  events        \* history: events counted

vars == <<cpu, mmcr0, ctrl, low, hi, reset_value, nmi_pending, phase, ovf, log, false_samples, events>>

(* The model op_nmi_init or oprofile_arch_init chose (the static model). *)
Model == ModelOf(cpu)
Ctrs == CtrsOf(cpu)

(* The hardware: one enable bit for both counters on Intel CPUs without   *)
(* architectural perfmon (P6 up to Pentium M).                             *)
SharedEnable == cpu.vendor = "intel" /\ ~cpu.arch_perfmon

(* Whether counter i counts events: on powerpc every PMC counts unless    *)
(* MMCR0[FC] freezes them all (a disabled PMC counts event 0x08).          *)
Counting(i) ==
  IF Model = "power4" THEN ~mmcr0.fc
  ELSE /\ ctrl[i].cfg
       /\ IF SharedEnable THEN ctrl[0].en ELSE ctrl[i].en

-----------------------------------------------------------------------------
(* The programming both models' setup_ctrs share: clear every control   *)
(* (CTRL_CLEAR keeps only bit 21), write 1 to every counter to avoid a    *)
(* false overflow detection, then program every enabled counter with its  *)
(* count and set its interrupt, user/kernel, unit mask and event bits.    *)
program_ctrs ==
  /\ ctrl' = [i \in Ctrs |-> [cfg |-> i \in Enabled, int |-> i \in Enabled, en |-> FALSE]]
  /\ low' = [i \in Ctrs |-> IF i \in Enabled THEN CTR_WRITE(Count[i]) ELSE CTR_WRITE(1)]
  /\ hi' = [i \in Ctrs |-> TRUE]

(* ppro_setup_ctrs: reset_value of a disabled counter is left as it was. *)
ppro_setup_ctrs ==
  /\ program_ctrs
  /\ reset_value' = [i \in Ctrs |-> IF i \in Enabled THEN Count[i] ELSE reset_value[i]]

(* athlon_setup_ctrs: reset_value of a disabled counter is zeroed, which  *)
(* athlon_start reads as "do not activate".                                *)
athlon_setup_ctrs ==
  /\ program_ctrs
  /\ reset_value' = [i \in Ctrs |-> IF i \in Enabled THEN Count[i] ELSE 0]

setup_ctrs == IF Model = "athlon" THEN athlon_setup_ctrs ELSE ppro_setup_ctrs

(* Mutant: the enable bit set in the second control register. *)
ppro_start_ctl1(c) == [c EXCEPT ![1].en = TRUE]

(* ppro_start / ppro_stop: bit 22 of control register 0 only. *)
ppro_start(c) == [c EXCEPT ![0].en = TRUE]
ppro_stop(c) == [c EXCEPT ![0].en = FALSE]

(* athlon_start: bit 22 of every counter with a nonzero reset_value;     *)
(* athlon_stop: of every counter.                                        *)
athlon_start(c) == [i \in Ctrs |-> IF reset_value[i] # 0 THEN [c[i] EXCEPT !.en = TRUE] ELSE c[i]]
athlon_stop(c) == [i \in Ctrs |-> [c[i] EXCEPT !.en = FALSE]]

model_start(c) == IF Model = "athlon" THEN athlon_start(c) ELSE ppro_start(c)
model_stop(c) == IF Model = "athlon" THEN athlon_stop(c) ELSE ppro_stop(c)

(* Mutants of the handler: the sample recorded with event i + 1; the     *)
(* counter not re-armed; the loop stopping one counter short.            *)
check_ctrs_event_off ==
  LET hit == {i \in Ctrs : CTR_OVERFLOWED(low[i])}
  IN /\ log' = log \o SetToSortSeq({i + 1 : i \in hit}, <)
     /\ false_samples' = false_samples + Cardinality({i \in hit : ovf[i] = 0})
     /\ low' = [i \in Ctrs |-> IF i \in hit THEN CTR_WRITE(reset_value[i]) ELSE low[i]]
     /\ hi' = [i \in Ctrs |-> hi[i] \/ i \in hit]
     /\ ovf' = [i \in Ctrs |-> IF i \in hit THEN 0 ELSE ovf[i]]
     /\ ctrl' = model_start(model_stop(ctrl))

check_ctrs_noreset ==
  LET hit == {i \in Ctrs : CTR_OVERFLOWED(low[i])}
  IN /\ log' = log \o SetToSortSeq(hit, <)
     /\ false_samples' = false_samples + Cardinality({i \in hit : ovf[i] = 0})
     /\ UNCHANGED <<low, hi>>
     /\ ovf' = [i \in Ctrs |-> IF i \in hit THEN 0 ELSE ovf[i]]
     /\ ctrl' = model_start(model_stop(ctrl))

check_ctrs_short ==
  LET hit == {i \in 0 .. NUM_COUNTERS(cpu) - 2 : CTR_OVERFLOWED(low[i])}
  IN /\ log' = log \o SetToSortSeq(hit, <)
     /\ false_samples' = false_samples + Cardinality({i \in hit : ovf[i] = 0})
     /\ low' = [i \in Ctrs |-> IF i \in hit THEN CTR_WRITE(reset_value[i]) ELSE low[i]]
     /\ hi' = [i \in Ctrs |-> hi[i] \/ i \in hit]
     /\ ovf' = [i \in Ctrs |-> IF i \in hit THEN 0 ELSE ovf[i]]
     /\ ctrl' = model_start(model_stop(ctrl))

(* ppro_check_ctrs / athlon_check_ctrs: stop; for every counter in index *)
(* order whose low word reads overflowed, oprofile_add_sample(regs, i)   *)
(* and CTR_WRITE(reset_value[i]); start. The timestamps and the sample   *)
(* itself are CpuBuffer's; here a sample is its counter index.           *)
check_ctrs ==
  LET hit == {i \in Ctrs : CTR_OVERFLOWED(low[i])}
  IN /\ log' = log \o SetToSortSeq(hit, <)
     /\ false_samples' = false_samples + Cardinality({i \in hit : ovf[i] = 0})
     /\ low' = [i \in Ctrs |-> IF i \in hit THEN CTR_WRITE(reset_value[i]) ELSE low[i]]
     /\ hi' = [i \in Ctrs |-> hi[i] \/ i \in hit]
     /\ ovf' = [i \in Ctrs |-> IF i \in hit THEN 0 ELSE ovf[i]]
     /\ ctrl' = model_start(model_stop(ctrl))

-----------------------------------------------------------------------------
(* nmi_int.c's flags, read by the NMI handler. *)
ctr_running == phase \in {"started", "stopping"}
nmi_enabled == phase # "off"

(* Power-on: controls clear, counters zero. reset_value is kmalloc'ed by  *)
(* ppro_init and only read for an overflowed counter; it starts at 0.      *)
Init ==
  /\ cpu \in CPUs
  /\ mmcr0 = [fc |-> TRUE, pmxe |-> FALSE]
  /\ ctrl = [i \in Ctrs |-> [cfg |-> FALSE, int |-> FALSE, en |-> FALSE]]
  /\ low = [i \in Ctrs |-> 0]
  /\ hi = [i \in Ctrs |-> FALSE]
  /\ reset_value = [i \in Ctrs |-> 0]
  /\ nmi_pending = FALSE
  /\ phase = "off"
  /\ ovf = [i \in Ctrs |-> 0]
  /\ log = <<>>
  /\ false_samples = 0
  /\ events = 0

(* nmi_setup -> nmi_cpu_setup: model->setup_ctrs. *)
Setup ==
  /\ Model # "power4"
  /\ phase = "off"
  /\ setup_ctrs
  /\ phase' = "setup"
  /\ UNCHANGED <<cpu, mmcr0, nmi_pending, ovf, log, false_samples, events>>

(* nmi_start: ctr_running = 1, then nmi_cpu_start -> model->start. An NMI *)
(* between the two runs check_ctrs, which ends with the same start.       *)
Start ==
  /\ Model # "power4"
  /\ phase \in {"setup", "stopped"}
  /\ ctrl' = model_start(ctrl)
  /\ phase' = "started"
  /\ UNCHANGED <<cpu, mmcr0, low, hi, reset_value, nmi_pending, ovf, log, false_samples, events>>

(* nmi_stop: nmi_cpu_stop -> model->stop ... *)
StopCounters ==
  /\ Model # "power4"
  /\ phase = "started"
  /\ ctrl' = model_stop(ctrl)
  /\ phase' = "stopping"
  /\ UNCHANGED <<cpu, mmcr0, low, hi, reset_value, nmi_pending, ovf, log, false_samples, events>>

(* ... and only after every CPU has stopped, ctr_running = 0. *)
StopDone ==
  /\ phase = "stopping"
  /\ phase' = "stopped"
  /\ UNCHANGED <<cpu, mmcr0, ctrl, low, hi, reset_value, nmi_pending, ovf, log, false_samples, events>>

(* The hardware: counter i counts an event; when the low word wraps with *)
(* the high bits all ones the counter overflows, and with its interrupt  *)
(* bit set raises the performance-monitoring NMI.                         *)
Event(i) ==
  /\ Model # "power4"
  /\ Counting(i)
  /\ events < MaxEvents
  /\ events' = events + 1
  /\ low' = [low EXCEPT ![i] = (@ + 1) % Word]
  /\ IF low[i] = Word - 1 /\ hi[i]
       THEN /\ hi' = [hi EXCEPT ![i] = FALSE]
            /\ ovf' = [ovf EXCEPT ![i] = @ + 1]
            /\ nmi_pending' = (nmi_pending \/ ctrl[i].int)
       ELSE UNCHANGED <<hi, ovf, nmi_pending>>
  /\ UNCHANGED <<cpu, mmcr0, ctrl, reset_value, phase, log, false_samples>>

(* profile_exceptions_notify: with ctr_running, model->check_ctrs; else   *)
(* with nmi_enabled, model->stop; else NMI_DONE.                          *)
Nmi ==
  /\ Model # "power4"
  /\ nmi_pending
  /\ nmi_pending' = FALSE
  /\ \/ /\ ctr_running
        /\ check_ctrs
        /\ UNCHANGED <<cpu, mmcr0, reset_value, phase, events>>
     \/ /\ ~ctr_running
        /\ ctrl' = IF nmi_enabled THEN model_stop(ctrl) ELSE ctrl
        /\ UNCHANGED <<cpu, mmcr0, low, hi, reset_value, phase, ovf, log, false_samples, events>>

-----------------------------------------------------------------------------
(* powerpc: common.c's op_powerpc_* with op_model_power4. A PMC is 32    *)
(* bits and raises its alert when it turns negative (bit 31 set). With   *)
(* MMCR0[FCECE] the alert also freezes every PMC (FC) and clears PMXE;   *)
(* MMCR0[PMAO] (nmi_pending here) holds the exception until it is taken. *)

(* A PMC reads negative (val < 0 as an int). *)
Negative(n) == n >= Word \div 2

(* power4's oprofile_running, set by power4_start, cleared by power4_stop. *)
oprofile_running == phase = "started"

(* power4_reg_setup: reset_value[i] = 0x80000000 - count, of which        *)
(* ctr_write writes the low 32 bits. The event, unit and byte-lane selects *)
(* it computes from counter_config are not modelled.                      *)
power4_reg_setup == reset_value' = [i \in Ctrs |-> (Word \div 2 - Count[i]) % Word]

(* power4_cpu_setup: MMCR0 written with FC, then with FCM1, PMXE, FCECE  *)
(* and the condition enables of every PMC.                                 *)
power4_cpu_setup == mmcr0' = [fc |-> TRUE, pmxe |-> TRUE]

(* op_powerpc_setup: reserve_pmc_hardware (its failure returns with       *)
(* nothing changed), model->reg_setup, model->cpu_setup on every CPU.     *)
Power4Setup ==
  /\ Model = "power4"
  /\ phase = "off"
  /\ power4_reg_setup
  /\ power4_cpu_setup
  /\ phase' = "setup"
  /\ UNCHANGED <<cpu, ctrl, low, hi, nmi_pending, ovf, log, false_samples, events>>

(* power4_start: every enabled PMC with a nonzero count gets reset_value, *)
(* every other PMC 0; PMAO and FC cleared; oprofile_running = 1. Its       *)
(* counters rewritten, no earlier overflow is left to sample.             *)
power4_start ==
  /\ low' = [i \in Ctrs |-> IF i \in Enabled /\ Count[i] # 0 THEN reset_value[i] ELSE 0]
  /\ mmcr0' = [mmcr0 EXCEPT !.fc = FALSE]
  /\ nmi_pending' = FALSE
  /\ ovf' = [i \in Ctrs |-> 0]

(* op_powerpc_start: op_powerpc_cpu_start on every CPU (the start marker *)
(* it writes first is CpuBuffer's).                                        *)
Power4Start ==
  /\ Model = "power4"
  /\ phase \in {"setup", "stopped"}
  /\ power4_start
  /\ phase' = "started"
  /\ UNCHANGED <<cpu, ctrl, hi, reset_value, log, false_samples, events>>

(* power4_stop: FC set, oprofile_running = 0. PMAO is left as it is. *)
power4_stop == mmcr0' = [mmcr0 EXCEPT !.fc = TRUE]

(* op_powerpc_stop: op_powerpc_cpu_stop on every CPU. *)
Power4Stop ==
  /\ Model = "power4"
  /\ phase = "started"
  /\ power4_stop
  /\ phase' = "stopped"
  /\ UNCHANGED <<cpu, ctrl, low, hi, reset_value, nmi_pending, ovf, log, false_samples, events>>

(* The hardware: an unfrozen PMC counts an event; turning negative with  *)
(* PMXE set it raises the alert: PMAO set, FC set, PMXE cleared.          *)
PmcEvent(i) ==
  /\ Model = "power4"
  /\ Counting(i)
  /\ events < MaxEvents
  /\ events' = events + 1
  /\ low' = [low EXCEPT ![i] = (@ + 1) % Word]
  /\ IF low[i] + 1 = Word \div 2
       THEN /\ ovf' = [ovf EXCEPT ![i] = @ + 1]
            /\ IF mmcr0.pmxe
                 THEN nmi_pending' = TRUE /\ mmcr0' = [fc |-> TRUE, pmxe |-> FALSE]
                 ELSE UNCHANGED <<nmi_pending, mmcr0>>
       ELSE UNCHANGED <<ovf, nmi_pending, mmcr0>>
  /\ UNCHANGED <<cpu, ctrl, hi, reset_value, phase, log, false_samples>>

(* power4_handle_interrupt (RRPROFILE): for every PMC, while            *)
(* oprofile_running and the PMC is enabled, a count of 0 (counter mode,  *)
(* a TODO) writes 0 and a negative PMC is sampled and rewritten with    *)
(* reset_value; otherwise a negative PMC is written 0. Then PMXE is set  *)
(* and PMAO and FC cleared, whether or not profiling runs.               *)
power4_handle_interrupt ==
  LET live == {i \in Enabled : oprofile_running}
      hit == {i \in live : Count[i] # 0 /\ Negative(low[i])}
      zeroed == {i \in live : Count[i] = 0} \cup {i \in Ctrs \ live : Negative(low[i])}
  IN /\ log' = log \o SetToSortSeq(hit, <)
     /\ false_samples' = false_samples + Cardinality({i \in hit : ovf[i] = 0})
     /\ low' = [i \in Ctrs |-> IF i \in hit THEN reset_value[i]
                              ELSE IF i \in zeroed THEN 0 ELSE low[i]]
     /\ ovf' = [i \in Ctrs |-> IF i \in hit \cup zeroed THEN 0 ELSE ovf[i]]
     /\ mmcr0' = [fc |-> FALSE, pmxe |-> TRUE]
     /\ nmi_pending' = FALSE

(* The performance-monitor exception, through op_handle_interrupt. *)
Power4Interrupt ==
  /\ Model = "power4"
  /\ nmi_pending
  /\ power4_handle_interrupt
  /\ UNCHANGED <<cpu, ctrl, hi, reset_value, phase, events>>

-----------------------------------------------------------------------------
Next ==
  \/ Setup \/ Start \/ StopCounters \/ StopDone \/ Nmi
  \/ \E i \in Ctrs : Event(i)
  \/ Power4Setup \/ Power4Start \/ Power4Stop \/ Power4Interrupt
  \/ \E i \in Ctrs : PmcEvent(i)

(* A pending NMI is delivered: the APIC holds it until the CPU takes it; *)
(* a pending powerpc exception likewise, PMAO holding it.               *)
Spec == Init /\ [][Next]_vars /\ WF_vars(Nmi) /\ WF_vars(Power4Interrupt)

-----------------------------------------------------------------------------
TypeOK ==
  /\ ctrl \in [Ctrs -> [cfg : BOOLEAN, int : BOOLEAN, en : BOOLEAN]]
  /\ low \in [Ctrs -> 0 .. Word - 1]
  /\ hi \in [Ctrs -> BOOLEAN]
  /\ nmi_pending \in BOOLEAN
  /\ mmcr0 \in [fc : BOOLEAN, pmxe : BOOLEAN]
  /\ ovf \in [Ctrs -> Nat]
  /\ log \in Seq(Ctrs)
  /\ false_samples \in Nat

(* check_ctrs samples counter i only when counter i has overflowed since *)
(* it was last programmed: no sample is attributed to a counter that did *)
(* not reach its count (the CTR_WRITE(1) of setup and the re-arm after   *)
(* each sample are what keep bit 31 set).                                 *)
NoFalseSample == false_samples = 0

(* An overflow of an enabled counter whose interrupt arrives while       *)
(* profiling runs is eventually sampled by the handler, whatever events   *)
(* the other counters count meanwhile.                                     *)
EveryOverflowSampled ==
  \A i \in Enabled :
    (ovf[i] > 0 /\ nmi_pending /\ ctr_running) ~> (ovf[i] = 0 \/ ~ctr_running)

(* While profiling runs and no interrupt is pending, every counter the   *)
(* user enabled counts: the model's start, and the handler, activate it.  *)
EnabledCountersCount ==
  phase = "started" /\ ~nmi_pending => \A i \in Enabled : Counting(i)

(* Once nmi_stop has returned, no counter counts until the next start.    *)
StoppedMeansStopped ==
  phase = "stopped" => \A i \in Ctrs : ~Counting(i)

=============================================================================
