------------------------------- MODULE Session -------------------------------
(***************************************************************************)
(* The profiling session of src/driver/oprof.c, driven through the control *)
(* files of oprofile_files.c and event_buffer.c by user processes, over    *)
(* the two x86 backends that oprofile_init installs: the NMI backend of    *)
(* x86/nmi_int.c ("arch") and the hrtimer backend of timer_int_2.6.35.c    *)
(* ("timer", the >= 3.3 build whose setup registers a CPU notifier).       *)
(*                                                                         *)
(* Every function that runs under start_sem is one action. What runs       *)
(* outside it is a step of its own: the test of buffer_opened in           *)
(* timer_write before it parses and calls oprofile_set_oprofile_timer_count*)
(* and the three steps of event_buffer_release. System suspend and resume  *)
(* call the NMI backend's syscore hooks without start_sem.                 *)
(*                                                                         *)
(* Buffers are allocated or not; their contents are modelled by CpuBuffer  *)
(* and EventBuffer. The backend's state is the record be: the resources    *)
(* its setup takes (msrs, the NMI handler, nmi_enabled; the CPU notifier), *)
(* whether its sampling source runs (ctr_running of nmi_int.c and of       *)
(* timer_int_2.6.35.c), and the counts that adapt multiplies.              *)
(*                                                                         *)
(* The drain of cpu_buffer.c is a delayed work per CPU: start_cpu_work    *)
(* (from sync_start) arms those of the online CPUs, wq_sync_buffer drains  *)
(* and re-arms one while work_enabled is set, end_cpu_work (from           *)
(* sync_stop) clears the flag, cancels the online CPUs' timers and flushes *)
(* the workqueue. The worker runs without start_sem; oprofile_shutdown     *)
(* holds start_sem across the flush.                                       *)
(***************************************************************************)
EXTENDS Integers, Sequences, FiniteSets

CONSTANTS
  Procs,          \* user processes writing the control files
  ArchAvailable,  \* oprofile_arch_init succeeded (an NMI backend exists)
  PM,             \* the system may suspend and resume
  MayFail,        \* allocations and registrations in setup may fail
  TimerValues,    \* values written to timer_count
  CounterCounts,  \* counter_config[i].count of the enabled counters, at load
  MaxAdapts,      \* bound on writes to the adapt file
  DefaultDepth,   \* the backtrace depth oprofile_init sets (512)
  DepthValues,    \* values written to backtrace_depth
  CPUs,           \* the possible CPUs
  BootCpu,        \* the CPU that stays online through suspend
  HotplugCPUs     \* CPUs the administrator may take offline and back

NoProc == "none"
ASSUME NoProc \notin Procs
ASSUME BootCpu \in CPUs /\ HotplugCPUs \subseteq CPUs \ {BootCpu}

ADAPT_DECAY_FACTOR == 10
INT_MAX == 2147483647
MAX_COUNTER_VALUE == INT_MAX \div ADAPT_DECAY_FACTOR

Backends == {"arch", "timer"}

VARIABLES
  oprofile_ops,         \* which operations oprofile_ops holds
  is_setup,
  oprofile_started,
  buffer_dump,
  buffer_opened,
  oprofile_adapt_value,
  cpu_buffers,          \* alloc_cpu_buffers done and not freed
  event_buffer,         \* alloc_event_buffer done and not freed
  be,                   \* backend state, see BackendState
  suspended,
  pc,                   \* per process: where it is in a multi-step call
  holder,               \* the process that has the buffer file open
  setup_ops,            \* history: whose setup oprofile_setup last ran
  adapts,               \* history: adapt writes so far
  work_enabled,
  work,                 \* per CPU, its drain work: "idle", "pending" (timer armed), "running" (re-arming)
  start_period,         \* history: the sampling period at the last oprofile_start
  oprofile_backtrace_depth,
  cpu_state             \* per CPU: "online", "offline", or "frozen" by suspend

vars == <<oprofile_ops, is_setup, oprofile_started, buffer_dump, buffer_opened,
          oprofile_adapt_value, cpu_buffers, event_buffer, be, suspended, pc,
          holder, setup_ops, adapts, work_enabled, work, start_period,
          oprofile_backtrace_depth, cpu_state>>

Online == {c \in CPUs : cpu_state[c] = "online"}

BackendState ==
  [msrs : BOOLEAN, handler : BOOLEAN, nmi_enabled : {0, 1}, nmi_running : {0, 1},
   counts : Seq(Nat), notifier : BOOLEAN, hr_running : {0, 1},
   timer_count : Nat, msr_setup : [CPUs -> BOOLEAN], ctr_on : [CPUs -> BOOLEAN],
   hrtimer : [CPUs -> BOOLEAN]]

-----------------------------------------------------------------------------
(* The NMI backend (x86/nmi_int.c). nmi_setup fails at "msrs"            *)
(* (allocate_msrs) or "handler" (register_nmi_handler, msrs freed).      *)
(* on_each_cpu(nmi_cpu_setup) programs the counters of the CPUs online   *)
(* at that moment (msr_setup); ctr_on is a CPU's counters enabled by     *)
(* model->start. The backend registers no CPU-hotplug notifier.          *)
nmi_setup(b, f) ==
  CASE f = "msrs"    -> b
    [] f = "handler" -> [b EXCEPT !.nmi_enabled = 0, !.nmi_running = 0, !.msrs = FALSE]
    [] OTHER         -> [b EXCEPT !.msrs = TRUE, !.handler = TRUE,
                                  !.nmi_enabled = 1, !.nmi_running = 0,
                                  !.msr_setup = [c \in CPUs |-> c \in Online]]

nmi_shutdown(b) ==
  [b EXCEPT !.nmi_enabled = 0, !.handler = FALSE, !.msrs = FALSE,
            !.msr_setup = [c \in CPUs |-> FALSE], !.ctr_on = [c \in CPUs |-> FALSE]]

nmi_start(b) ==
  [b EXCEPT !.nmi_running = 1, !.ctr_on = [c \in CPUs |-> @[c] \/ c \in Online]]

nmi_stop(b) ==
  [b EXCEPT !.nmi_running = 0, !.ctr_on = [c \in CPUs |-> @[c] /\ c \notin Online]]

(* Only when every enabled counter can be decayed are they all decayed. *)
nmi_adapt(b) ==
  IF \E i \in DOMAIN b.counts : b.counts[i] >= MAX_COUNTER_VALUE
  THEN [ok |-> FALSE, b |-> b]
  ELSE [ok |-> TRUE,
        b |-> [b EXCEPT !.counts = [i \in DOMAIN @ |-> @[i] * ADAPT_DECAY_FACTOR]]]

(* The hrtimer backend (timer_int_2.6.35.c). *)
oprofile_hrtimer_setup(b) == [b EXCEPT !.notifier = TRUE]

oprofile_hrtimer_shutdown(b) == [b EXCEPT !.notifier = FALSE]

(* ctr_running (hr_running here) set, then __oprofile_hrtimer_start on  *)
(* every online CPU arms its pinned hrtimer; get_online_cpus keeps CPU   *)
(* hotplug out of both start and stop.                                   *)
oprofile_hrtimer_start(b) ==
  [b EXCEPT !.hr_running = 1, !.hrtimer = [c \in CPUs |-> @[c] \/ c \in Online]]

(* __oprofile_hrtimer_stop cancels each online CPU's hrtimer (it returns *)
(* at once unless ctr_running); then ctr_running = 0.                    *)
oprofile_hrtimer_stop(b) ==
  [b EXCEPT !.hr_running = 0,
            !.hrtimer = [c \in CPUs |-> IF b.hr_running = 1 /\ c \in Online
                                        THEN FALSE ELSE @[c]]]

(* Mutant: __oprofile_hrtimer_start without its ctr_running test (the    *)
(* code before 2.6.37).                                                   *)
oprofile_cpu_notify_noguard(b, S, action) ==
  IF action = "online"
  THEN [b EXCEPT !.hrtimer = [c \in CPUs |-> @[c] \/ c \in S]]
  ELSE [b EXCEPT !.hrtimer = [c \in CPUs |-> IF b.hr_running = 1 /\ c \in S
                                             THEN FALSE ELSE @[c]]]

(* oprofile_cpu_notify for the CPUs S: CPU_ONLINE(_FROZEN) runs          *)
(* __oprofile_hrtimer_start on the CPU, CPU_DEAD(_FROZEN)                 *)
(* __oprofile_hrtimer_stop; both do nothing unless ctr_running.           *)
oprofile_cpu_notify(b, S, action) ==
  IF action = "online"
  THEN [b EXCEPT !.hrtimer = [c \in CPUs |-> @[c] \/ (b.hr_running = 1 /\ c \in S)]]
  ELSE [b EXCEPT !.hrtimer = [c \in CPUs |-> IF b.hr_running = 1 /\ c \in S
                                             THEN FALSE ELSE @[c]]]

timer_adapt(b) ==
  IF b.timer_count >= MAX_COUNTER_VALUE
  THEN [ok |-> FALSE, b |-> b]
  ELSE [ok |-> TRUE, b |-> [b EXCEPT !.timer_count = @ * ADAPT_DECAY_FACTOR]]

(* The sampling period of the backend: the count of every enabled       *)
(* counter, or the hrtimer pops between samples. oprofile_hrtimer_notify *)
(* increments timer_pop before comparing it with oprofile_timer_count,   *)
(* so a count of 0 samples on every pop, as a count of 1 does.           *)
Period(o, b) ==
  IF o = "arch" THEN b.counts
  ELSE <<IF b.timer_count = 0 THEN 1 ELSE b.timer_count>>

(* Calls through oprofile_ops. *)
ops_setup(o, b, f) == IF o = "arch" THEN nmi_setup(b, f) ELSE oprofile_hrtimer_setup(b)
ops_shutdown(o, b) == IF o = "arch" THEN nmi_shutdown(b) ELSE oprofile_hrtimer_shutdown(b)
ops_start(o, b) == IF o = "arch" THEN nmi_start(b) ELSE oprofile_hrtimer_start(b)
ops_stop(o, b) == IF o = "arch" THEN nmi_stop(b) ELSE oprofile_hrtimer_stop(b)
ops_adapt(o, b) == IF o = "arch" THEN nmi_adapt(b) ELSE timer_adapt(b)

(* The backends that hold resources, and the ones sampling. An NMI only  *)
(* reaches check_ctrs through the registered handler when ctr_running is *)
(* set (profile_exceptions_notify), and a CPU raises one only with its  *)
(* counters programmed and enabled; nmi_cpu_shutdown also restores the   *)
(* counter MSRs. An hrtimer, once started, fires until cancelled, on     *)
(* another CPU if its own went down without the notifier cancelling it.  *)
Held(b) ==
  {o \in Backends : IF o = "arch" THEN b.msrs \/ b.handler \/ b.nmi_enabled = 1
                                  ELSE b.notifier}
SamplingCpus(o, b) ==
  IF o = "arch"
  THEN {c \in CPUs : b.msr_setup[c] /\ b.ctr_on[c] /\ b.handler /\ b.nmi_running = 1}
  ELSE {c \in CPUs : b.hrtimer[c]}
Running(b) == {o \in Backends : SamplingCpus(o, b) # {}}

-----------------------------------------------------------------------------
(* oprof.c. Each runs under start_sem. *)

(* Where oprofile_setup may fail: alloc_cpu_buffers, alloc_event_buffer, *)
(* the backend's setup, or sync_start.                                   *)
FailPoints(o) ==
  {"none"} \cup
  IF MayFail THEN {"cpu", "event", "sync"} \cup (IF o = "arch" THEN {"msrs", "handler"} ELSE {})
             ELSE {}

(* start_cpu_work: work_enabled = 1, schedule_delayed_work_on for each  *)
(* online CPU (a no-op for a work already pending).                      *)
start_cpu_work ==
  /\ work_enabled' = 1
  /\ work' = [c \in CPUs |-> IF c \in Online /\ work[c] = "idle" THEN "pending" ELSE work[c]]

(* end_cpu_work before its flush: work_enabled = 0, cancel_delayed_work  *)
(* for each online CPU (a pending timer only; a running work is not      *)
(* waited for here).                                                     *)
end_cpu_work ==
  /\ work_enabled' = 0
  /\ work' = [c \in CPUs |-> IF c \in Online /\ work[c] = "pending" THEN "idle" ELSE work[c]]

(* flush_scheduled_work returns once no work is queued or running. *)
flushed == \A c \in CPUs : work[c] # "running"

(* Mutant: the out3 label skipped, the backend is not shut down when     *)
(* sync_start fails.                                                     *)
oprofile_setup_noout3(f) ==
  LET ok == f = "none"
      b1 == IF f \in {"cpu", "event"} THEN be ELSE ops_setup(oprofile_ops, be, f)
  IN /\ be' = b1
     /\ cpu_buffers' = ok /\ event_buffer' = ok
     /\ is_setup' = IF ok THEN 1 ELSE is_setup
     /\ buffer_dump' = 0
     /\ setup_ops' = IF ok THEN oprofile_ops ELSE setup_ops
     /\ IF ok THEN start_cpu_work ELSE UNCHANGED <<work_enabled, work>>

(* sync_start ends with start_cpu_work; it fails at "sync" before.      *)
(* On failure the labels out3, out2, out1 undo the steps done so far:    *)
(* the backend's shutdown, free_event_buffer, free_cpu_buffers.          *)
oprofile_setup(f) ==
  LET ok == f = "none"
      b1 == IF f \in {"cpu", "event"} THEN be ELSE ops_setup(oprofile_ops, be, f)
      b2 == IF f = "sync" THEN ops_shutdown(oprofile_ops, b1) ELSE b1
  IN /\ be' = b2
     /\ cpu_buffers' = ok /\ event_buffer' = ok
     /\ is_setup' = IF ok THEN 1 ELSE is_setup
     /\ buffer_dump' = 0
     /\ setup_ops' = IF ok THEN oprofile_ops ELSE setup_ops
     /\ IF ok THEN start_cpu_work ELSE UNCHANGED <<work_enabled, work>>

(* Not set up or already started: an error or 0, and no change. The     *)
(* adapt record (ESCAPE_CODE, RR_ADAPT_SAMPLING_INTERVAL_CODE, 1) goes   *)
(* to the event buffer; ops.start returns 0 in both backends.            *)
oprofile_start ==
  /\ is_setup = 1
  /\ oprofile_started = 0
  /\ oprofile_adapt_value' = 1
  /\ be' = ops_start(oprofile_ops, be)
  /\ oprofile_started' = 1
  /\ buffer_dump' = 0
  /\ start_period' = Period(oprofile_ops, be')

(* Stops the backend, drains every CPU buffer, appends the adapt record  *)
(* and wakes the reader (buffer_dump set).                               *)
oprofile_stop ==
  IF oprofile_started = 0
  THEN UNCHANGED <<be, oprofile_started, buffer_dump>>
  ELSE /\ be' = ops_stop(oprofile_ops, be)
       /\ oprofile_started' = 0
       /\ buffer_dump' = 1

(* Mutant: the adapt value incremented by the factor, not multiplied. *)
oprofile_adapt_add ==
  /\ oprofile_started = 1
  /\ LET r == ops_adapt(oprofile_ops, ops_stop(oprofile_ops, be))
     IN /\ be' = ops_start(oprofile_ops, r.b)
        /\ oprofile_adapt_value' = IF r.ok THEN oprofile_adapt_value + ADAPT_DECAY_FACTOR
                                           ELSE oprofile_adapt_value

(* Mutant: the value multiplied whether or not the backend adapted. *)
oprofile_adapt_noguard ==
  /\ oprofile_started = 1
  /\ LET r == ops_adapt(oprofile_ops, ops_stop(oprofile_ops, be))
     IN /\ be' = ops_start(oprofile_ops, r.b)
        /\ oprofile_adapt_value' = oprofile_adapt_value * ADAPT_DECAY_FACTOR

(* Stop, drain, adapt; on success the value is multiplied and recorded;  *)
(* restart. Both backends set ops.adapt and their start returns 0, so    *)
(* the "out" without restart and the started = 0 branch are not taken.  *)
oprofile_adapt ==
  /\ oprofile_started = 1
  /\ LET r == ops_adapt(oprofile_ops, ops_stop(oprofile_ops, be))
     IN /\ be' = ops_start(oprofile_ops, r.b)
        /\ oprofile_adapt_value' = IF r.ok THEN oprofile_adapt_value * ADAPT_DECAY_FACTOR
                                           ELSE oprofile_adapt_value

(* After sync_stop (end_cpu_work, then the flush): the backend's        *)
(* shutdown, then the buffers are freed. It does not look at             *)
(* oprofile_started.                                                     *)
oprofile_shutdown ==
  /\ be' = ops_shutdown(oprofile_ops, be)
  /\ is_setup' = 0
  /\ event_buffer' = FALSE
  /\ cpu_buffers' = FALSE

(* Switches oprofile_ops between the two backends while not started,     *)
(* whether or not a session is set up.                                   *)
oprofile_set_oprofile_timer_count(v) ==
  /\ oprofile_started = 0
  /\ IF v = 0 /\ ArchAvailable
     THEN oprofile_ops' = "arch" /\ be' = [be EXCEPT !.timer_count = 0]
     ELSE oprofile_ops' = "timer" /\ be' = [be EXCEPT !.timer_count = v]

-----------------------------------------------------------------------------
(* oprofile_init: both backends initialised, the NMI one in use if       *)
(* available; nothing set up.                                            *)
Init ==
  /\ oprofile_ops = IF ArchAvailable THEN "arch" ELSE "timer"
  /\ is_setup = 0
  /\ oprofile_started = 0
  /\ buffer_dump = 0
  /\ buffer_opened = 0
  /\ oprofile_adapt_value = 1
  /\ cpu_buffers = FALSE
  /\ event_buffer = FALSE
  /\ be = [msrs |-> FALSE, handler |-> FALSE, nmi_enabled |-> 0, nmi_running |-> 0,
           counts |-> CounterCounts, notifier |-> FALSE, hr_running |-> 0,
           timer_count |-> 1, msr_setup |-> [c \in CPUs |-> FALSE],
           ctr_on |-> [c \in CPUs |-> FALSE], hrtimer |-> [c \in CPUs |-> FALSE]]
  /\ suspended = FALSE
  /\ pc = [p \in Procs |-> "idle"]
  /\ holder = NoProc
  /\ setup_ops = "none"
  /\ adapts = 0
  /\ work_enabled = 0
  /\ work = [c \in CPUs |-> "idle"]
  /\ start_period = <<>>
  /\ oprofile_backtrace_depth = DefaultDepth
  /\ cpu_state = [c \in CPUs |-> "online"]

-----------------------------------------------------------------------------
(* The control files. A process starts a call only while the system is   *)
(* not suspended (the freezer stops user tasks).                          *)

Idle(p) == pc[p] = "idle" /\ ~suspended

(* start_sem is free: no release is inside oprofile_shutdown's flush. *)
SemFree == \A q \in Procs : pc[q] # "release_flush"

(* event_buffer_open: test_and_set_bit(buffer_opened), then setup; the   *)
(* bit is cleared again if setup fails. A second open gets -EBUSY.        *)
Open(p) ==
  /\ Idle(p) /\ SemFree
  /\ buffer_opened = 0
  /\ \E f \in FailPoints(oprofile_ops) :
       /\ oprofile_setup(f)
       /\ buffer_opened' = IF f = "none" THEN 1 ELSE 0
       /\ holder' = IF f = "none" THEN p ELSE holder
  /\ UNCHANGED <<start_period, oprofile_ops, oprofile_started, oprofile_adapt_value, suspended,
                 pc, adapts>>

(* enable_write: a nonzero value starts, zero stops. *)
EnableWrite(p) ==
  /\ Idle(p) /\ SemFree
  /\ \/ oprofile_start
     \/ oprofile_started = 1 /\ oprofile_stop /\ UNCHANGED <<oprofile_adapt_value, start_period>>
  /\ UNCHANGED <<oprofile_ops, is_setup, buffer_opened, cpu_buffers, event_buffer,
                 suspended, pc, holder, setup_ops, adapts, work_enabled, work>>

(* dump_write, or a write to the buffer file: wake_up_buffer_waiter. *)
DumpWrite(p) ==
  /\ Idle(p)
  /\ buffer_dump' = 1
  /\ UNCHANGED <<start_period, oprofile_ops, is_setup, oprofile_started, buffer_opened,
                 oprofile_adapt_value, cpu_buffers, event_buffer, be, suspended,
                 pc, holder, setup_ops, adapts, work_enabled, work>>

(* adapt_write: oprofile_adapt (-EINVAL and no change when not started). *)
AdaptWrite(p) ==
  /\ Idle(p) /\ SemFree
  /\ adapts < MaxAdapts
  /\ oprofile_adapt
  /\ adapts' = adapts + 1
  /\ UNCHANGED <<start_period, oprofile_ops, is_setup, oprofile_started, buffer_dump, buffer_opened,
                 cpu_buffers, event_buffer, suspended, pc, holder, setup_ops, work_enabled, work>>

(* timer_write, first half: -EINVAL if the buffer file is open, tested   *)
(* without start_sem.                                                     *)
TimerWriteCheck(p) ==
  /\ Idle(p)
  /\ buffer_opened = 0
  /\ pc' = [pc EXCEPT ![p] = "timer_write"]
  /\ UNCHANGED <<start_period, oprofile_ops, is_setup, oprofile_started, buffer_dump, buffer_opened,
                 oprofile_adapt_value, cpu_buffers, event_buffer, be, suspended,
                 holder, setup_ops, adapts, work_enabled, work>>

(* timer_write, second half: parse the value and set it (-EBUSY when    *)
(* started, and no change).                                              *)
TimerWriteSet(p) ==
  /\ pc[p] = "timer_write"
  /\ SemFree
  /\ pc' = [pc EXCEPT ![p] = "idle"]
  /\ \/ \E v \in TimerValues : oprofile_set_oprofile_timer_count(v)
     \/ oprofile_started = 1 /\ UNCHANGED <<oprofile_ops, be>>
  /\ UNCHANGED <<start_period, is_setup, oprofile_started, buffer_dump, buffer_opened,
                 oprofile_adapt_value, cpu_buffers, event_buffer, suspended,
                 holder, setup_ops, adapts, work_enabled, work>>

(* oprofile_set_ulong: under start_sem, set unless started (-EBUSY). *)
oprofile_set_ulong(v) ==
  IF oprofile_started = 0 THEN oprofile_backtrace_depth' = v
                          ELSE UNCHANGED oprofile_backtrace_depth

(* depth_write, first half: -EINVAL if oprofile_ops.backtrace is NULL     *)
(* (never on x86, whose oprofile_arch_init sets it whatever the backend)  *)
(* or if the buffer file is open, tested without start_sem.               *)
DepthWriteCheck(p) ==
  /\ Idle(p)
  /\ buffer_opened = 0
  /\ pc' = [pc EXCEPT ![p] = "depth_write"]
  /\ UNCHANGED <<start_period, oprofile_ops, is_setup, oprofile_started, buffer_dump,
                 buffer_opened, oprofile_adapt_value, cpu_buffers, event_buffer, be,
                 suspended, holder, setup_ops, adapts, work_enabled, work,
                 oprofile_backtrace_depth>>

(* depth_write, second half: parse the value and oprofile_set_ulong it. *)
DepthWriteSet(p) ==
  /\ pc[p] = "depth_write"
  /\ SemFree
  /\ pc' = [pc EXCEPT ![p] = "idle"]
  /\ \E v \in DepthValues : oprofile_set_ulong(v)
  /\ UNCHANGED <<start_period, oprofile_ops, is_setup, oprofile_started, buffer_dump,
                 buffer_opened, oprofile_adapt_value, cpu_buffers, event_buffer, be,
                 suspended, holder, setup_ops, adapts, work_enabled, work>>

(* Mutant: release without oprofile_stop. *)
Release_nostop(p) ==
  /\ Idle(p) /\ holder = p
  /\ pc' = [pc EXCEPT ![p] = "release_shutdown"]
  /\ UNCHANGED <<start_period, oprofile_ops, is_setup, oprofile_started, buffer_dump, buffer_opened,
                 oprofile_adapt_value, cpu_buffers, event_buffer, be, suspended,
                 holder, setup_ops, adapts, work_enabled, work>>

(* event_buffer_release: oprofile_stop, then oprofile_shutdown, then the *)
(* event buffer's cursor and the open bit cleared; three separate calls. *)
Release(p) ==
  /\ Idle(p) /\ SemFree
  /\ holder = p
  /\ oprofile_stop
  /\ pc' = [pc EXCEPT ![p] = "release_shutdown"]
  /\ UNCHANGED <<start_period, oprofile_ops, is_setup, buffer_opened, oprofile_adapt_value,
                 cpu_buffers, event_buffer, suspended, holder, setup_ops, adapts, work_enabled, work>>

(* oprofile_shutdown under start_sem: sync_stop's end_cpu_work, ... *)
ReleaseShutdown(p) ==
  /\ pc[p] = "release_shutdown"
  /\ SemFree
  /\ end_cpu_work
  /\ pc' = [pc EXCEPT ![p] = "release_flush"]
  /\ UNCHANGED <<start_period, oprofile_ops, is_setup, oprofile_started, buffer_dump, buffer_opened,
                 oprofile_adapt_value, cpu_buffers, event_buffer, be, suspended,
                 holder, setup_ops, adapts>>

(* ... flush_scheduled_work, then the rest of oprofile_shutdown. *)
ReleaseFlush(p) ==
  /\ pc[p] = "release_flush"
  /\ flushed
  /\ oprofile_shutdown
  /\ pc' = [pc EXCEPT ![p] = "release_clear"]
  /\ UNCHANGED <<start_period, oprofile_ops, oprofile_started, buffer_dump, buffer_opened,
                 oprofile_adapt_value, suspended, holder, setup_ops, adapts,
                 work_enabled, work>>

ReleaseClear(p) ==
  /\ pc[p] = "release_clear"
  /\ buffer_opened' = 0
  /\ holder' = NoProc
  /\ pc' = [pc EXCEPT ![p] = "idle"]
  /\ UNCHANGED <<start_period, oprofile_ops, is_setup, oprofile_started, buffer_dump,
                 oprofile_adapt_value, cpu_buffers, event_buffer, be, suspended,
                 setup_ops, adapts, work_enabled, work>>

-----------------------------------------------------------------------------
(* The kernel worker: wq_sync_buffer of CPU c when its timer fires. The  *)
(* work of a CPU that went down runs on another one; it finds c offline, *)
(* cancels and returns. Otherwise it drains c's buffer (sync_buffer) and *)
(* reads work_enabled; if set it re-arms the work with                   *)
(* schedule_delayed_work, a separate later step.                         *)
(* Mutant: wq_sync_buffer without its schedule_delayed_work. *)
WorkRun_norearm(c) ==
  /\ work[c] = "pending"
  /\ work' = [work EXCEPT ![c] = "idle"]
  /\ UNCHANGED <<start_period, oprofile_ops, is_setup, oprofile_started, buffer_dump, buffer_opened,
                 oprofile_adapt_value, cpu_buffers, event_buffer, be, suspended, pc,
                 holder, setup_ops, adapts, work_enabled>>

WorkRun(c) ==
  /\ work[c] = "pending"
  /\ work' = [work EXCEPT ![c] = IF c \in Online /\ work_enabled = 1 THEN "running" ELSE "idle"]
  /\ UNCHANGED <<start_period, oprofile_ops, is_setup, oprofile_started, buffer_dump, buffer_opened,
                 oprofile_adapt_value, cpu_buffers, event_buffer, be, suspended, pc,
                 holder, setup_ops, adapts, work_enabled>>

WorkRearm(c) ==
  /\ work[c] = "running"
  /\ work' = [work EXCEPT ![c] = "pending"]
  /\ UNCHANGED <<start_period, oprofile_ops, is_setup, oprofile_started, buffer_dump, buffer_opened,
                 oprofile_adapt_value, cpu_buffers, event_buffer, be, suspended, pc,
                 holder, setup_ops, adapts, work_enabled>>

-----------------------------------------------------------------------------
(* CPU hotplug and suspend. A CPU that goes down loses its counter       *)
(* programming; the CPU_DEAD notifiers run after it is down, and          *)
(* CPU_ONLINE ones once it is up. The hotplug lock keeps both out of      *)
(* oprofile_hrtimer_start/stop and nmi_start/stop (get_online_cpus).      *)
(* The hrtimer backend's notifier is registered from its setup to its    *)
(* shutdown; the NMI backend has none.                                   *)

CpusDown(b, S) ==
  LET lost == [b EXCEPT !.msr_setup = [c \in CPUs |-> @[c] /\ c \notin S],
                        !.ctr_on = [c \in CPUs |-> @[c] /\ c \notin S]]
  IN IF b.notifier THEN oprofile_cpu_notify(lost, S, "dead") ELSE lost

CpusUp(b, S) == IF b.notifier THEN oprofile_cpu_notify(b, S, "online") ELSE b

CpuDown(c) ==
  /\ c \in HotplugCPUs /\ cpu_state[c] = "online" /\ ~suspended
  /\ cpu_state' = [cpu_state EXCEPT ![c] = "offline"]
  /\ be' = CpusDown(be, {c})
  /\ UNCHANGED suspended

CpuUp(c) ==
  /\ cpu_state[c] = "offline" /\ ~suspended
  /\ cpu_state' = [cpu_state EXCEPT ![c] = "online"]
  /\ be' = CpusUp(be, {c})
  /\ UNCHANGED suspended

(* Suspend: the freezer stops user tasks, disable_nonboot_cpus takes the *)
(* other CPUs down (CPU_DEAD_FROZEN), then the syscore hook nmi_suspend  *)
(* runs on the boot CPU: nmi_stop when nmi_enabled is 1.                 *)
nmi_suspend ==
  /\ PM
  /\ ~suspended
  /\ \A p \in Procs : pc[p] = "idle"
  /\ suspended' = TRUE
  /\ LET S == Online \ {BootCpu}
         b1 == CpusDown(be, S)
     IN /\ cpu_state' = [c \in CPUs |-> IF c \in S THEN "frozen" ELSE cpu_state[c]]
        /\ be' = IF b1.nmi_enabled = 1 THEN nmi_stop(b1) ELSE b1

(* Resume: the syscore hook nmi_resume on the boot CPU (nmi_start when   *)
(* nmi_enabled is 1), then enable_nonboot_cpus (CPU_ONLINE_FROZEN).       *)
nmi_resume ==
  /\ suspended
  /\ suspended' = FALSE
  /\ LET S == {c \in CPUs : cpu_state[c] = "frozen"}
         b1 == IF be.nmi_enabled = 1 THEN nmi_start(be) ELSE be
     IN /\ cpu_state' = [c \in CPUs |-> IF c \in S THEN "online" ELSE cpu_state[c]]
        /\ be' = CpusUp(b1, S)

Next ==
  \/ /\ \/ \E p \in Procs :
          \/ Open(p) \/ EnableWrite(p) \/ DumpWrite(p) \/ AdaptWrite(p)
          \/ TimerWriteCheck(p) \/ TimerWriteSet(p)
          \/ Release(p) \/ ReleaseShutdown(p) \/ ReleaseFlush(p) \/ ReleaseClear(p)
       \/ \E c \in CPUs : WorkRun(c) \/ WorkRearm(c)
     /\ UNCHANGED <<oprofile_backtrace_depth, cpu_state>>
  \/ /\ \E p \in Procs : DepthWriteCheck(p) \/ DepthWriteSet(p)
     /\ UNCHANGED cpu_state
  \/ /\ \/ nmi_suspend \/ nmi_resume \/ \E c \in CPUs : CpuDown(c) \/ CpuUp(c)
     /\ UNCHANGED <<start_period, oprofile_ops, is_setup, oprofile_started, buffer_dump,
                    buffer_opened, oprofile_adapt_value, cpu_buffers, event_buffer, pc,
                    holder, setup_ops, adapts, work_enabled, work, oprofile_backtrace_depth>>

Spec == Init /\ [][Next]_vars

(* The worker's steps, as steps of Next. *)
Worker(A) == A /\ UNCHANGED <<oprofile_backtrace_depth, cpu_state>>

(* A pending delayed work's timer fires and a running wq_sync_buffer     *)
(* reaches its re-arm: weak fairness of the worker. Nothing obliges a    *)
(* user process to write a control file.                                 *)
FairSpec == Spec /\ \A c \in CPUs : WF_vars(Worker(WorkRun(c))) /\ WF_vars(Worker(WorkRearm(c)))

-----------------------------------------------------------------------------
(* Properties *)

(* Types; the adapt value is a power of ADAPT_DECAY_FACTOR, the factor   *)
(* the sampling interval has grown by since the last start.              *)
TypeOK ==
  /\ oprofile_ops \in Backends
  /\ is_setup \in {0, 1} /\ oprofile_started \in {0, 1}
  /\ buffer_dump \in {0, 1} /\ buffer_opened \in {0, 1}
  /\ oprofile_adapt_value \in {ADAPT_DECAY_FACTOR ^ k : k \in 0 .. MaxAdapts}
  /\ cpu_buffers \in BOOLEAN /\ event_buffer \in BOOLEAN
  /\ be \in BackendState
  /\ suspended \in BOOLEAN
  /\ pc \in [Procs -> {"idle", "timer_write", "depth_write", "release_shutdown",
                         "release_flush", "release_clear"}]
  /\ holder \in Procs \cup {NoProc}
  /\ setup_ops \in Backends \cup {"none"}
  /\ adapts \in 0 .. MaxAdapts
  /\ work_enabled \in {0, 1} /\ work \in [CPUs -> {"idle", "pending", "running"}]
  /\ start_period \in Seq(Nat)
  /\ oprofile_backtrace_depth \in {DefaultDepth} \cup DepthValues
  /\ cpu_state \in [CPUs -> {"online", "offline", "frozen"}]

(* What is allocated and registered is exactly what the session's setup  *)
(* took: the buffers while set up, and the resources of the backend in   *)
(* oprofile_ops, the one oprofile_shutdown will release, and no other.   *)
(* A failed setup leaves nothing behind (its out labels).                *)
ResourcesMatchSetup ==
  /\ cpu_buffers = (is_setup = 1)
  /\ event_buffer = (is_setup = 1)
  /\ Held(be) = IF is_setup = 1 THEN {oprofile_ops} ELSE {}

(* No backend samples into freed CPU buffers: whenever an NMI or hrtimer *)
(* source runs, the CPU buffers it writes to are allocated.              *)
NoSamplingIntoFreedBuffers == Running(be) # {} => cpu_buffers

(* Outside a suspend, profiling samples exactly while it is started,    *)
(* through the backend in oprofile_ops only, and on every online CPU:    *)
(* nmi_resume must not start what was not started, and a CPU that comes  *)
(* up, or back from a suspend, must be sampled as the others are.        *)
SamplingOnlyWhenStarted ==
  ~suspended =>
    /\ \A o \in Backends \ {oprofile_ops} : SamplingCpus(o, be) = {}
    /\ SamplingCpus(oprofile_ops, be) = IF oprofile_started = 1 THEN Online ELSE {}

(* The hrtimer backend follows CPU hotplug and suspend: a CPU's pinned *)
(* hrtimer is armed exactly while it is online and the backend's        *)
(* ctr_running is set. A timer left armed on a CPU that went down keeps  *)
(* firing (migrated) past oprofile_hrtimer_stop, whose loop only cancels *)
(* online CPUs' timers; a CPU brought up while profiling runs must get   *)
(* one, and one brought up while stopped must not.                       *)
TimersFollowCtrRunning ==
  \A c \in CPUs : be.hrtimer[c] = (be.hr_running = 1 /\ c \in Online)

(* The adapt value is what the daemon scales samples by after an adapt  *)
(* record: oprofile_adapt multiplies it by ADAPT_DECAY_FACTOR whenever   *)
(* the backend's adapt reports success, and oprofile_start resets it to  *)
(* 1. While profiling runs it must equal the factor by which the         *)
(* backend's sampling period has grown since that start, for every      *)
(* enabled counter or the hrtimer pop count.                             *)
AdaptValueTracksPeriod ==
  oprofile_started = 1 =>
    /\ Len(Period(oprofile_ops, be)) = Len(start_period)
    /\ \A i \in DOMAIN start_period :
         /\ Period(oprofile_ops, be)[i] % start_period[i] = 0
         /\ Period(oprofile_ops, be)[i] \div start_period[i] = oprofile_adapt_value

(* No drain work is armed or running once the CPU buffers are freed:    *)
(* end_cpu_work's cancel and flush leave nothing behind for              *)
(* wq_sync_buffer to run against the buffers free_cpu_buffers releases. *)
NoDrainOfFreedBuffers == (\E c \in CPUs : work[c] # "idle") => cpu_buffers

(* The boot CPU's drain keeps running: while work_enabled is set (from  *)
(* start_cpu_work to end_cpu_work), its wq_sync_buffer runs again, since *)
(* each run re-arms the delayed work. Otherwise its CPU buffer fills and *)
(* drops samples with nothing to empty it.                               *)
DrainKeepsRunning == (work_enabled = 1) ~> (work[BootCpu] = "running" \/ work_enabled = 0)

(* Every online CPU's drain keeps running while work_enabled is set:    *)
(* the drain scheduling bounds each CPU buffer's occupancy. A CPU that   *)
(* went down (by hotplug or by suspend) and came back while profiling   *)
(* has a work that cancelled itself in wq_sync_buffer and that nothing   *)
(* re-arms.                                                              *)
EveryOnlineCpuDrained ==
  \A c \in CPUs :
    (work_enabled = 1 /\ c \in Online) ~> (work[c] = "running" \/ work_enabled = 0 \/ c \notin Online)

=============================================================================
