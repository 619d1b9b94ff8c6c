# TLA+ models of rrprofile

rrprofile is a sampling profiler kernel module derived from oprofile
(`src/driver`, with backends in `src/x86` and `src/powerpc`). This directory
holds TLA+ models of its concurrency-relevant parts, TLC configurations that
check them, and `PROJECT.json`, which maps every modelled definition to the
source lines it translates and lists the runs, mutants, findings and hazards.

Only the `RRPROFILE` build is modelled. The `#else` (plain oprofile) branches
cannot be built from this tree. For example, `add_sample` always writes
`op_sample.timestamp` (`cpu_buffer.c:199`), a field that exists only under
`RRPROFILE` (`cpu_buffer.h:34-36`). Likewise `oprofile_start` uses
`buffer_dump` unconditionally (`oprof.c:243`).

## 1. Inventory

### Components and how they interact

| Component | Source | State | Operations |
|---|---|---|---|
| Per-CPU sample ring | `driver/cpu_buffer.c`, `cpu_buffer.h` | `head_pos`, `tail_pos`, `buffer[]`, `last_task`, `last_is_kernel`, `tracing`, four loss counters | `log_sample`, `oprofile_begin_trace`, `oprofile_add_trace`, `oprofile_end_trace`, `oprofile_add_ext_sample`, `oprofile_add_sample`, `oprofile_add_sample_start/_stop`, `oprofile_add_start/_stop`, `cpu_buffer_reset`, `alloc/free_cpu_buffers` |
| Escape-coded stream | `oprofile.h`, `cpu_buffer.h` | the words in the ring | `ESCAPE_CODE` followed by a code: 0/1 mode, 2 trace begin, 100/101 TGID/TID, 102/103 session start/stop, 104/105 sample start/stop |
| Drain of a ring | `sync_buffer` in `buffer_sync.c` (not in this tree) | consumer side of the ring | snapshot head, take each entry, advance tail, append to the event buffer under `buffer_sem` |
| Drain scheduler | `cpu_buffer.c` 123-153, 396-420 | `work_enabled`, one delayed work per CPU | `start_cpu_work`, `end_cpu_work`, `wq_sync_buffer` |
| Global event buffer | `driver/event_buffer.c` | `event_buffer[]`, `buffer_pos`, `buffer_ready`, `buffer_dump`, `buffer_opened`, `buffer_sem` | `add_event_entry`, `event_buffer_read`, `wake_up_buffer_waiter`, `event_buffer_open/release`, `alloc/free_event_buffer` |
| Session controller | `driver/oprof.c` | `is_setup`, `oprofile_started`, `start_sem`, `oprofile_ops`, `oprofile_adapt_value`, `oprofile_timer_count` | `oprofile_setup`, `oprofile_start`, `oprofile_stop`, `oprofile_adapt`, `oprofile_shutdown`, `oprofile_set_ulong`, `oprofile_set_oprofile_timer_count` |
| Control files | `driver/oprofile_files.c`, `oprofilefs.c` | none of their own | `enable`, `dump`, `buffer`, `adapt`, `timer_count` and size files; each write calls one session or event-buffer operation |
| Timer backend | `driver/timer_int_2.6.9.c`, `timer_int_2.6.35.c` | `timer_pop[cpu]`, `start_timestamp[cpu]`, `ctr_running`, one pinned hrtimer per CPU | `oprofile_hrtimer_notify`, `oprofile_hrtimer_start/stop`, `timer_adapt`, the CPU-hotplug notifier `oprofile_cpu_notify` |
| x86 NMI backend | `x86/nmi_int.c`, `op_model_ppro.c`, `op_model_athlon.c` | MSRs, `reset_value[]`, `start_timestamp[cpu]` | `profile_exceptions_notify` calling `check_ctrs`, `nmi_setup/start/stop/shutdown`, `nmi_adapt` |
| Backtrace walkers | `x86/backtrace.c`, `powerpc/backtrace.c` | none of their own; they read the interrupted stack | `x86_backtrace`, `dump_kernel_backtrace`, `dump_user_backtrace`, `op_powerpc_backtrace`, `kernel_getsp`, `user_getsp`; each frame is one `oprofile_add_trace` |
| powerpc backend | `powerpc/common.c`, `op_model_power4.c` | MMCR0 (FC, PMXE, PMAO), PMCs, `reset_value[]`, `oprofile_running` | `op_powerpc_setup/start/stop`, `power4_reg_setup`, `power4_cpu_setup`, `power4_start/stop`, `power4_handle_interrupt` |
| NMI timer, idle poll, logging | `x86/nmi_timer_int_*`, `x86/process.c`, `logging.h` | none that the buffers see | not part of the buffer protocol |

These components interact along the following path:

- An interrupt on CPU *c* (timer or NMI) writes into ring *c* with no lock. It writes two sample timestamps and then `oprofile_add_sample`, which calls `log_sample`. With backtraces enabled, a trace-begin marker comes first and the walker's return addresses come after the sample.
- The delayed work bound to CPU *c* runs `sync_buffer(c)` roughly every 100 ms. It consumes ring *c* up to the head it saw on entry and appends translated words to the global event buffer under `buffer_sem`.
- The user-space daemon opens `buffer` (which runs `oprofile_setup`) and writes `enable` (`oprofile_start`).
- The daemon reads `buffer` in full-size reads. A read blocks until the watermark is crossed or a dump is requested.
- `oprofile_stop` and `oprofile_adapt` stop the backend and drain every ring from the caller's CPU. They then append an adapt record to the event buffer without taking `buffer_sem`.
- `oprofile_shutdown`, run at release, stops the drain scheduler and frees the buffers.

### Hard behaviours

- **Lock-free SPSC ring.** The interrupt (producer) and the drain (consumer) share the ring through `head_pos` and `tail_pos` only.
- **Unchecked writes.** Markers are written without a free-slot check (`oprofile_add_sample_start/_stop`, `oprofile_add_start/_stop`). `log_sample`'s 3-slot reservation does not cover a 2-word task switch.
- **Context caching.** `last_is_kernel` and `last_task` stand for what the reader already knows. Updating them out of step with the stream corrupts the decoding.
- **Drain rescheduling.** The drain re-arms itself and races `end_cpu_work`'s cancel and flush, which run before the buffers are freed.
- **Unlocked writers of the global buffer.** `oprofile_start`, `oprofile_stop` and `oprofile_adapt` call `add_event_entry` without `buffer_sem`. The drain and the reader do hold it.
- **Watermark.** The watermark is an equality test, the copy to user space can fail, and `buffer_dump` stays set. Together these decide whether a blocked reader is ever woken.
- **Backend switch.** Switching backends (`timer_count`) is allowed between setup and start.

The hazards are listed with their lines in `PROJECT.json`.

## 2. What is modelled

There are four component modules, each with an MC module or `.cfg` files that instantiate it. `EventBufferControl.tla` composes the event buffer with the session controller's unlocked appends (2.2), and `CpuBufferFifo.tla` is the abstract ring (2.1).


### 2.1 `CpuBuffer.tla`: one CPU's ring, its producer and its drain

Each C function of the producer is an operator from a buffer record (the
fields of `struct oprofile_cpu_buffer`) to a buffer record:
`nr_available_slots`, `increment_head`, `add_sample`, `add_code`,
`add_code_ctx_rr`, `log_sample`, `oprofile_begin_trace`, `oprofile_add_trace`,
`oprofile_end_trace`, `oprofile_add_ext_sample`, `add_timestamp`
(`oprofile_add_sample_start/_stop`, and the session markers of
`oprofile_add_start/_stop`) and `cpu_buffer_reset`.

- **Interrupt.** The action is one whole `check_ctrs` (`ppro_check_ctrs`). Every overflowed counter, in order, gets two sample timestamps and an `oprofile_add_ext_sample` with the same interrupted context (pc, mode, task, backtrace). A handler runs to completion with respect to the drain of its own CPU, so the whole interrupt is one step.
- **Inputs.** `pc = ESCAPE_CODE` stands for `regs == NULL` (`oprofile_add_sample`). A backtrace is a sequence of return addresses, one of which may be the broken-frame value `ESCAPE_CODE`.
- **Drain.** `DrainBegin`, `DrainEntry` and `DrainEnd` model `sync_buffer`'s consumer loop from spec 4.3: snapshot `get_slots` once, take that many entries, advance `tail_pos`. The loop takes several steps, so interrupts interleave with it.
- **Session markers.** `SessionStart` and `SessionStop` are `oprofile_add_start` and `oprofile_add_stop`. The backends' per-CPU start (`nmi_cpu_start`, `op_powerpc_cpu_start`, `timer_start`'s `on_each_cpu`) and stop write them, with interrupts off and with no free-slot check. They alternate, starting with a start, as `sampling` records. Interrupts are not gated by `sampling`, because a counter alert can still arrive after a stop (see `PerfCounters`).
- **Reset.** `cpu_buffer_reset` is allowed at any time (spec 4.1).
- **History fields.** `cb.log` holds the logical events the producer accepted. `cb.attempts` counts the samples the handlers tried to record. `cb.overrun` is set when a write made `head_pos` catch up with `tail_pos`.

`CpuBufferFifo.tla` is the abstract specification of a ring: a bounded FIFO of
capacity `BufferSize - 1`. In it, the producer publishes words behind the
queue and the consumer takes the oldest one. The refinement mapping is
`queue <- Visible`, the entries from tail up to head.

`DecodeFrom` is a recursive reader of the escape-coded stream. It is the
reference the round-trip property checks the producer against.

#### What the properties state

- **`StreamRoundTrip`.** Until the ring is first overrun, decoding the drained and undrained stream gives back exactly the accepted samples (with counter, mode and task), return addresses and timestamps.
- **`NoSilentLoss`.** Every sample a handler tried to record is in the stream or is counted as lost or invalid.
- **`FifoUntilOverrun`.** Every step up to the first overrun is a step of the bounded FIFO.
- **`FifoRefinement`.** This is the unconditional refinement. It fails: in the timer backend, two interrupts without a drain fill the 8-slot ring, and the second one's unchecked timestamps make head equal tail. The session markers are the same unchecked write, so this run also lets up to two of them overrun the ring. The first sample vanishes and no counter moves.

`FifoUntilOverrun` tolerates overruns by construction. Each mutant in `PROJECT.json` (an off-by-one in `get_slots`, a missing wrap, a reordered cache update, a loss left uncounted) shows that its property is not vacuous.

#### Bounds

- **Ring and interrupts.** The ring has 8 slots, fewer than the 6 to 10 words of a single NMI with two counters plus a backtrace. Two interrupts are therefore enough to reach every space check: the 3-slot reservation, the 4-slot trace reservation and the 1-slot trace entry. Two interrupts also reach the wrap of both indices.
- **Inputs.** There are two tasks and one program counter; the mode is 0 or 1. Traces are empty, one frame, or a frame followed by a broken frame.
- **Markers.** There are at most two session markers (`MaxMarkers`): one start and one stop, each interleaved anywhere among the interrupts and drain steps.
- **Run size.** The run has about 2.7 million distinct states and takes under two minutes. A third interrupt multiplies the state space by about 50 without reaching a new branch.

#### Fairness

There is no fairness: this module's properties are safety properties. The drain is modelled from spec 4.3 (`buffer_sync.c` is not in this tree), so a liveness property of the drain would check the spec's words, not the code. Whether the drain keeps being scheduled is a property of `wq_sync_buffer`, checked in `Session` (`DrainKeepsRunning`).

### 2.2 `EventBuffer.tla`: the global event buffer and its reader

State: `event_buffer`, `buffer_pos`, `buffer_ready`, `buffer_dump`, the loss
counter, `buffer_sem` (`sem`), the reader's program counter (`rpc`) and its
last return value. A stored word is a record `[r, i, n]`: word `i` of the
`n`-word record `r`. Words let the properties tell records apart without
modelling their contents. The history variables are `accepted` (words stored),
`cut` (records that lost a word), `chunks` (what each read returned) and
`read_dump` (the `buffer_dump` the reader's last `read()` tested on entry).

- **`add_event_entry`.** A full buffer drops the word and counts it. Otherwise the word is stored, and `buffer_ready` is set only when `buffer_pos` becomes exactly `size - watershed`.
- **Drain.** `DrainLock`, `DrainAdd` and `DrainUnlock` are `sync_buffer`'s appends of one record under `buffer_sem`. They are modelled from spec 4.3, since `buffer_sync.c` is not in this tree.
- **Reader.** `event_buffer_read` takes one action per step: `ReadStart` (the size checks and the wait), `ReadWoken`, `ReadSignal` (the pending-signal return), `ReadCheck` (the `buffer_ready` re-check and `-EAGAIN`) and `ReadCopy`. `ReadCopy` runs under `buffer_sem`, and a failed `copy_to_user` keeps `buffer_pos`.
- **Wake-up.** `wake_up_buffer_waiter` sets `buffer_ready` and `buffer_dump`.
- **Start.** `oprofile_start_dump_clear` is `oprofile_start`'s `atomic_set(&buffer_dump, 0)` (`oprof.c:243`), taken without `buffer_sem`. It leaves `buffer_ready` as the stop's dump set it, so a ready flag with few words and no dump is reachable, as in the code.

Fairness: weak fairness of the drain's steps and of the reader's steps after it
is woken. A task holding `buffer_sem` keeps running, and the wait queue wakes a
reader once `buffer_ready` is set. Nothing forces a dump or a new record.

Bounds: a 4-word buffer with the watermark at 3 words and three records of one
or two words. That is enough to fill the buffer, drop words, cross the
watermark exactly and cross it after a failed copy.

#### `EventBufferControl.tla`: the controller's unlocked appends

`oprofile_start`, `oprofile_stop` and `oprofile_adapt` each append the record
`ESCAPE_CODE`, `RR_ADAPT_SAMPLING_INTERVAL_CODE`, `oprofile_adapt_value` with
three calls of `add_event_entry` (`oprof.c` 232-234, 274-276, 314-316). They hold
`start_sem` but not `buffer_sem`. The module extends `EventBuffer` with this
third writer. Its record is a 3-word `Word` of its own record number.

Without the lock, `add_event_entry` is no longer one step. The controller takes
these steps:
- **`CtlLoad`.** Loads `buffer_pos` once, for the full test and for the index. A full buffer counts the loss.
- **`CtlStore`.** Stores the word at the loaded position.
- **`CtlReload`.** Reloads `buffer_pos` for `++buffer_pos`. The kernel is built with `-fno-strict-aliasing`, and the store through the `unsigned long` array may alias `buffer_pos`.
- **`CtlInc`.** Stores the incremented value and tests the watermark on it.

The drain's and the reader's steps keep their `EventBuffer` form, because
`buffer_sem` still excludes them from each other. `CtlBegin` bounds the
controller to `MaxCtlRecords` records. The controller's thread is weakly fair.

### 2.3 `Session.tla`: the session controller, the control files, both backends and the drain scheduler

Every function of `oprof.c` that runs under `start_sem` is one operator, applied
in one action of the process that calls it. These are `oprofile_setup` (with the
rollback of its `out` labels), `oprofile_start`, `oprofile_stop`,
`oprofile_adapt`, `oprofile_shutdown` and `oprofile_set_oprofile_timer_count`.

The backends are operators over the record `be`. They cover the NMI backend's
MSRs, handler, `nmi_enabled`, `ctr_running` and counts, and the hrtimer
backend's CPU notifier, `ctr_running` and timer count. `ops_*` dispatches on
`oprofile_ops`.

Processes (`Procs`) write the control files:
- `Open` and `Release` for the buffer file;
- `backtrace_depth`, whose write is split into `DepthWriteCheck` (the `buffer_opened` test) and `DepthWriteSet` (`oprofile_set_ulong` under `start_sem`, which stores the value only when profiling is not started);
- `EnableWrite`, `DumpWrite` and `AdaptWrite`;
- `timer_count`, whose write is split into `TimerWriteCheck` (the `buffer_opened` test without `start_sem`) and `TimerWriteSet`.

`event_buffer_release` takes four steps:
1. `Release`: `oprofile_stop`.
2. `ReleaseShutdown`: `oprofile_shutdown` under `start_sem` up to `end_cpu_work`'s cancel.
3. `ReleaseFlush`: the flush and the rest of the shutdown, while still holding `start_sem` (`SemFree` keeps the other processes out).
4. `ReleaseClear`: reset the cursor and clear the open bit.

Other actions:
- **Drain scheduler.** Each CPU has its own delayed work, `work[c]`. `start_cpu_work` (at the end of a successful setup) arms the works of the online CPUs, and `end_cpu_work` cancels theirs. `WorkRun(c)` is `wq_sync_buffer`. If CPU *c* is offline, the work runs elsewhere, cancels itself and returns. Otherwise it drains and reads `work_enabled`. `WorkRearm(c)` is its `schedule_delayed_work`.
- **Suspend and resume.** `nmi_suspend` and `nmi_resume` are the syscore hooks. Suspend first takes every CPU but `BootCpu` down (`disable_nonboot_cpus`, CPU_DEAD_FROZEN), then runs `nmi_suspend` on the boot CPU. Resume runs `nmi_resume` and then brings the frozen CPUs back (CPU_ONLINE_FROZEN).
- **CPUs.** `cpu_state` holds each CPU as online, offline or frozen by a suspend. `CpuDown` and `CpuUp` are the administrator taking a CPU of `HotplugCPUs` offline and back. The hotplug lock keeps them out of the backends' start and stop (`get_online_cpus`), so each is one step.
  - NMI backend: `be.msr_setup` records which CPUs `nmi_cpu_setup` programmed at setup, and `be.ctr_on` which ones `model->start` enabled. A CPU that goes down loses both. There is no notifier that programs a CPU coming up.
  - hrtimer backend: `be.hrtimer` records each CPU's pinned hrtimer. `oprofile_cpu_notify`, registered from setup to shutdown, arms it on CPU_ONLINE and cancels it on CPU_DEAD, in both cases only when `ctr_running` (`hr_running`) is set.
  - `SamplingCpus` is the set of CPUs a backend samples on.

Fairness: `FairSpec` adds weak fairness of `WorkRun(c)` and `WorkRearm(c)` for every CPU. A pending delayed work's timer fires, and a running `wq_sync_buffer` reaches its re-arm. Nothing obliges a user process to write a control file, and no fairness is assumed for one.

Bounds:
- one process for the passing run, and two where a race needs a second writer;
- `timer_count` written 0 (NMI mode) or the adapt cap;
- one enabled counter whose count can be decayed once before it reaches `MAX_COUNTER_VALUE`;
- at most 2 adapt writes;
- two CPUs, the second one hot-pluggable, which is enough for a CPU to go down and up under each backend, started or not, and across a suspend;
- `backtrace_depth` starts at `DefaultDepth` = 6 and may be written 0, 1 or 2. The code's default is 512; a walk of 512 frames over a looping ppc chain exhausts TLC's stack, and a depth of 6 already exceeds every frame chain of the 4-frame stacks below.

### 2.4 `PerfCounters.tla`: the counter models and their interrupt handlers

The boot CPU (`cpu`) is chosen in `Init` from the constant `CPUs` and never
changes. `Model` is the model that `op_nmi_init` (x86, with `ppro_init` for
Intel family 6) or `oprofile_arch_init` (powerpc) gives it. The MC module
defines a Pentium III (`op_ppro_spec`), a Nehalem (`op_arch_perfmon_spec`), an
AMD family 10h (`op_athlon_spec`) and a PowerPC 970 (`op_model_power4`).

**x86.** The state holds each counter's control bits (event select configured,
interrupt bit 20, enable bit 22), its low word, and whether its high bits are
still all ones. It also holds `reset_value`, the pending NMI and the phase of
`nmi_int.c` (setup, started, stopping, stopped).
- `program_ctrs`, `ppro_setup_ctrs` and `athlon_setup_ctrs` program the counters.
- `ppro_start`, `ppro_stop`, `athlon_start` and `athlon_stop` set and clear the enable bits.
- `check_ctrs` stops, samples and re-arms every counter whose low word has bit 31 clear, in index order, then starts.
- `Event` is the hardware counting one event. A wrap of the low word with the high bits all ones is an overflow, and with the interrupt bit set it latches an NMI.
- On Intel CPUs without architectural perfmon (`SharedEnable`), the enable bit of control register 0 enables both counters. On architectural-perfmon and AMD CPUs each counter has its own.
- `Nmi` is `profile_exceptions_notify`. With `ctr_running` it runs `check_ctrs`; otherwise, with `nmi_enabled`, it runs `model->stop`.
- `nmi_stop` is two steps, `StopCounters` and `StopDone`, because `ctr_running` is cleared only after every CPU's stop.

**powerpc.** The variable `mmcr0` holds FC (freeze) and PMXE (exception enable).
The pending exception (MMCR0[PMAO]) is `nmi_pending`.
- `Power4Setup` is `op_powerpc_setup`: `power4_reg_setup` (`reset_value = 0x80000000 - count`) and `power4_cpu_setup` (FC, PMXE, FCECE and the condition enables).
- `Power4Start` is `power4_start`: it writes the PMCs, clears PMAO and FC, and sets `oprofile_running`.
- `Power4Stop` is `power4_stop`: it sets FC and clears `oprofile_running`.
- `PmcEvent` is the hardware counting one event. A PMC that turns negative with PMXE set raises the alert: PMAO is set, FCECE sets FC, and PMXE is cleared.
- `Power4Interrupt` is `power4_handle_interrupt`, which ends by setting PMXE and clearing PMAO and FC.

Bounds:
- The counters are `CounterBits` wide: 4 under TLC instead of 32. The overflow bit is scaled to bit 3.
- Counts of 2 and 3 overflow within the 7 events a run allows. They stay below 2^(CounterBits-1), as counts below 2^31 do in the hardware.
- The Athlon has its 4 counters with two enabled. The 970 has 2 of its 8 PMCs, both enabled.

Fairness: weak fairness of `Nmi` and `Power4Interrupt`. The local APIC holds a
latched NMI, and PMAO a pending exception, until the CPU takes it.

### 2.5 `StackWalk.tla`: the backtrace walkers

A stack is a function `mem` from the frame addresses `1..MaxFrameAddr` to frame
heads `[ebp, ret]`; the return address of frame `a` is `a`, so a trace names the
frames it walked. `regs` is a record of the interrupted context: the mode, the
frame pointer, the kernel stack pointer, and for user mode the set of addresses
`copy_from_user_nmi` can read (an interval).

- **x86.** `dump_kernel_backtrace` reports the return address and continues at
  the saved `ebp` only if it is above the current head (`head >= ebp` ends the
  walk). `valid_kernel_stack` bounds the walk to the thread stack.
  `dump_user_backtrace` copies two words, stops on a failed copy, and continues
  only upward. `x86_backtrace` dispatches on the mode and runs the loop of
  `backtrace.c` 262-278 for at most `depth` frames.
- **powerpc.** `kernel_getsp` and `user_getsp` read the back chain and the saved
  link register; `op_powerpc_backtrace` adds one to the depth in an `unsigned
  int` and, in user mode, records the link register of the first frame.
- The loops are recursive functions of the head and the remaining depth.
- `depth` is an `unsigned int` at the call site (`cpu_buffer.c:305`), so `Walk`
  truncates it to `UIntWidth` bits (3 under TLC, scaled from 32).

The reference is `FrameChain`: the least set of frames that contains the first
frame pointer of the region (thread stack or readable user interval) and is
closed under following a strictly increasing `ebp`. `ExpectedX86` is its
return addresses in increasing order, cut to `depth`. The walker is checked
against it for every stack and register context of the universes `Stacks`,
`X86Regs` and `PpcRegs`.

The checks compose with `Session`: `MCSession` evaluates them at the depth the
state holds, `oprofile_backtrace_depth`. The per-depth results are tabulated as
functions of the depth so that TLC computes each universe once. `MCCpuBuffer`
takes its traces from `Walk` over three contexts of one stack (no frame pointer,
a kernel walk, and a user walk that ends at a broken frame).

## 3. Runs

| Run | Config | Expect | Checks |
|---|---|---|---|
| `cpu_buffer` | `MCCpuBuffer.cfg` | pass | `TypeOK`, `StreamRoundTrip`, `NoSilentLoss`, `FifoUntilOverrun` |
| `cpu_buffer_overrun` | `MCCpuBufferOverrun.cfg` | violation | `FifoRefinement` |
| `event_buffer` | `MCEventBuffer.cfg` | pass | `TypeOK`, `DeliveredOnceInOrder`, `ReadsAreWholeRecords`, `EagainOnlyAfterDump`, `DumpReleasesReader` |
| `event_buffer_watermark` | `MCEventBufferWatermark.cfg` | violation | `WatermarkWakesReader` |
| `event_buffer_control` | `MCEventBufferControl.cfg` | violation | `DeliveredOnceInOrder` (on `EventBufferControl`) |
| `session` | `MCSession.cfg` | pass | `TypeOK`, `ResourcesMatchSetup`, `NoSamplingIntoFreedBuffers`, `AdaptValueTracksPeriod`, `X86WalksFollowFrameChain`, `PpcWalksWithinDepth`, `TimersFollowCtrRunning`, `DrainKeepsRunning` |
| `session_release_race` | `MCSessionReleaseRace.cfg` | violation | `NoSamplingIntoFreedBuffers` |
| `session_drain_race` | `MCSessionDrainRace.cfg` | violation | `NoDrainOfFreedBuffers` |
| `session_resume` | `MCSessionResume.cfg` | violation | `SamplingOnlyWhenStarted` |
| `perf_counters` | `MCPerfCounters.cfg` | pass | `TypeOK`, `NoFalseSample`, `EnabledCountersCount`, `EveryOverflowSampled` |
| `perf_counters_arch` | `MCPerfCountersArch.cfg` | violation | `EnabledCountersCount` |
| `perf_counters_stop` | `MCPerfCountersStop.cfg` | violation | `StoppedMeansStopped` |

### Event buffer

These properties hold:
- **`DeliveredOnceInOrder`.** The words read, followed by the words still stored, are exactly the words accepted. Nothing is duplicated, skipped or reordered, including across failed copies.
- **`ReadsAreWholeRecords`.** Every read returns whole records, because the reader and the drain both hold `buffer_sem`.
- **`EagainOnlyAfterDump`.** The `-EAGAIN` branch at line 230, which the comment says "can't currently happen", is reached only by a read that found a dump requested on entry (`read_dump`). A dump leaves `buffer_dump` set until the next start, so reads skip the wait and return `-EAGAIN` whenever `buffer_ready` is clear. A start may clear the flag while such a read is under way, so the property uses the flag the read tested, not the current one. The words stay for a later read, as `DeliveredOnceInOrder` shows.
- **`DumpReleasesReader`.** A dump releases a reader that is waiting.

These are violated:
- **`WatermarkWakesReader`.** After a failed copy the buffer stays past the watermark with `buffer_ready` clear. The equality test at `event_buffer.c:63` never fires again, so the reader waits while the buffer fills.
- **`event_buffer_control`.** The controller's unlocked append breaks `DeliveredOnceInOrder`. The run has a 4-word buffer, a drain of two records of one or two words, and one record from `oprofile_stop`. In TLC's trace:
  - the drain takes `buffer_sem`;
  - `oprofile_stop` loads `buffer_pos = 0`;
  - the drain stores its word at 0 and advances `buffer_pos`;
  - the controller stores `ESCAPE_CODE` over the drain's word.

  The word is lost, no counter moves and the drain's record is cut. A later interleaving goes further: the reload sees a buffer the drain has filled, and the controller stores `buffer_size + 1`. The `==` full test then never fires again, and appends write past the array. That state comes only after an overwrite like this one, so this run stops first.

### Session

These properties hold for one process with every setup failure and suspend/resume:
- **`ResourcesMatchSetup`.** The buffers and the backend resources held are exactly those of the set-up session and of the backend in `oprofile_ops`.
- **`NoSamplingIntoFreedBuffers`.** No sampling source runs once the CPU buffers are freed.
- **`AdaptValueTracksPeriod`.** While profiling runs, `oprofile_adapt_value` is the factor by which the sampling period has grown since `oprofile_start`. That value is the one written in the adapt records. The period is the count of each enabled counter, or the hrtimer pops per sample (`Period`). The history variable `start_period` records the period at start. The run adapts both backends up to the cap and past it.
- **`X86WalksFollowFrameChain`.** At the configured depth, every x86 walk, kernel or user, over every 4-frame stack (cyclic and downward chains included) reports exactly the frames of the increasing frame chain within its region, up to the depth. A walk never loops and never reads outside the thread stack or the readable user range.
- **`TimersFollowCtrRunning`.** A CPU's hrtimer is armed exactly while the CPU is online and the timer backend's `ctr_running` is set. This holds across hotplug, suspend, adapt and backend switches. A timer left armed on a dead CPU would migrate and outlive `oprofile_hrtimer_stop`, which cancels only the online CPUs' timers.
- **`DrainKeepsRunning`.** Under `FairSpec`, while `work_enabled` is set the boot CPU's `wq_sync_buffer` keeps running, because each run re-arms the work. A run that ended without re-arming would leave its CPU buffer to fill.
- **`PpcWalksWithinDepth`.** A powerpc walk reports at most `depth` addresses, in both modes, although `kernel_getsp` does not require the back chain to go up and the user walk adds the link register of the first frame.

Three violation runs show code bugs, and five more configurations, run by hand, show five more:
- **`session_release_race`.** A write to the mode-0666 `enable` file between release's stop and its shutdown starts sampling that the shutdown does not stop. In timer mode the hrtimers keep firing into freed buffers.
- **`MCSessionTimerRace.cfg`**, not a registered run: the project has used its twelve run slots. Run it by hand with `tlc -config MCSessionTimerRace.cfg MCSession`. `timer_write` tests `buffer_opened` without `start_sem`. A setup by a second process in between is then shut down through the other backend's shutdown, and `ResourcesMatchSetup` fails.
- **`session_drain_race`.** `wq_sync_buffer` reads `work_enabled` before `end_cpu_work` clears it, and re-arms after the cancel. The flush returns and the CPU buffers are freed under an armed work.
- **`MCSessionTimerZero.cfg`**, not a registered run. Run it by hand with `tlc -config MCSessionTimerZero.cfg MCSession`. It has no NMI backend, so a write of 0 to `timer_count` selects timer mode with `oprofile_timer_count = 0`. The hrtimer then samples on every pop, as with 1. `timer_adapt` multiplies the 0 and reports success, and `oprofile_adapt` records a tenfold decay that did not happen. `AdaptValueTracksPeriod` fails.
- **`MCSessionDepthWrap.cfg`**, not a registered run. Run it by hand with `tlc -config MCSessionDepthWrap.cfg MCSession`. A write of `2^UIntWidth` (8; in the code any value of 2^32 or more) to `backtrace_depth` is stored as an `unsigned long`, and `oprofile_add_sample` passes it as the `unsigned int` depth, which is 0. `X86WalksFollowFrameChain` fails: backtraces are silently off.
- **`session_resume`.** `nmi_resume` starts the counters whenever `nmi_enabled` is set, even when profiling was never started. The run has one CPU. `SamplingOnlyWhenStarted` also asks that every online CPU samples while profiling is started.
- **`MCSessionNmiHotplug.cfg`**, not a registered run. Run it by hand with `tlc -config MCSessionNmiHotplug.cfg MCSession`. The NMI backend programs the CPUs online at `nmi_setup` (`on_each_cpu(nmi_cpu_setup)`, `nmi_int.c:324`) and registers no hotplug notifier. A CPU taken offline and back while profiling runs is never sampled again, and `SamplingOnlyWhenStarted` fails. Coming back from a suspend does the same to every non-boot CPU, because `disable_nonboot_cpus` runs before the syscore hook.
- **`MCSessionDrainHotplug.cfg`**, not a registered run. Run it by hand with `tlc -config MCSessionDrainHotplug.cfg MCSession`. It checks `EveryOnlineCpuDrained`, which is `DrainKeepsRunning` for every online CPU, and finds it violated. `start_cpu_work` arms only the CPUs online at start (`cpu_buffer.c:130`). `wq_sync_buffer` cancels the work of a CPU that went down (`cpu_buffer.c:410`). Nothing re-arms a drain when a CPU comes up. In TLC's trace, profiling starts with c1 offline, then c1 comes up and never gets a drain. The same happens to a CPU taken down and back during a session, and to every non-boot CPU after a suspend. In timer mode the CPU's hrtimer is re-armed by `oprofile_cpu_notify`, so it samples into a ring that only `sync_stop` drains.

### Counters

These properties hold for the Pentium III, the Athlon and the PowerPC 970:
- **`NoFalseSample`.** No sample is taken for a counter that has not overflowed.
- **`EnabledCountersCount`.** Every enabled counter counts while profiling is started and no interrupt is pending. A PowerPC alert freezes all PMCs until its handler runs.
- **`EveryOverflowSampled`.** An overflow of an enabled counter whose interrupt arrives while profiling runs is eventually sampled.

Two violation runs:
- **`perf_counters_arch`.** `op_arch_perfmon_spec` reuses `ppro_start`, which enables control register 0 only, so counter 1 never counts on a Nehalem. `ppro_init` gives `op_ppro_spec`, with the same `ppro_start`, to Core, Core 2 and Atom CPUs, which also have per-counter enable bits.
- **`perf_counters_stop`.** This run has the Pentium III and the PowerPC 970. TLC reports the shorter trace, the PowerPC one. `MCPerfCountersNmiStop.cfg` restricts it to the Pentium III. It is not a registered run; run it by hand with `tlc -config MCPerfCountersNmiStop.cfg MCPerfCounters`.
- **Pentium III.** An NMI latched before `model->stop` is taken while `ctr_running` is still 1. `check_ctrs` ends with `model->start`, so the counters run after `nmi_stop` has returned.
- **PowerPC 970.**
  - A PMC turns negative just before `power4_stop`: its alert freezes the PMCs and leaves the exception pending (PMAO).
  - `power4_stop` sets FC and clears `oprofile_running`, but leaves PMAO set.
  - The exception is taken after the stop. `power4_handle_interrupt` zeroes the negative PMC and clears FC without testing `oprofile_running` (`op_model_power4.c:644`).
  - The PMCs run again after `op_powerpc_stop` has returned. Every later alert repeats this.

Every property of a passing run has a mutant in `PROJECT.json`. A mutant is a
plausible bug in the operator the property is about, and TLC finds the property
violated with it.

## 4. Plan for the next sittings

1. **Timer sampling.** Model `oprofile_hrtimer_notify` sampling every `oprofile_timer_count` pops, with the counts scaled down, and a timer that migrates off a dying CPU before CPU_DEAD cancels it.
2. **powerpc walk reference.** Check `op_powerpc_backtrace` against a reference chain, as `X86WalksFollowFrameChain` does for x86, rather than only against the depth bound.

## 5. Not modelled

- `oprofilefs.c` is VFS glue, and the read-only control files change no state.
- MSR save and restore, the Pentium 4 model (`p4_init`; `op_model_p4.c` is not in this tree), and the powerpc MMCR1/MMCRA event encoding (`power4_reg_setup`'s selects, `get_pc`, `get_kernel`) are not modelled. The other powerpc models `oprofile_arch_init` names (rs64, 7450, fsl_booke) are not in this tree. In `common.c` and `op_model_power4.c` the `RRPROFILE` include guard is misspelt `RRRPROFILE`, so the tree's own `oprofile.h` is not the one included there. That is a build matter outside the models. The x86 counters are modelled only as far as `PerfCounters` states above.
- The walkers' stack contents are abstracted to frame heads whose return address is the frame's own address; `copy_from_user_nmi`'s page walk is reduced to a readable interval, and `__kernel_text_address` and `validate_sp` to fixed sets. The `oprofilefs_ulong_from_user` path of a zero-byte write, which leaves `val` uninitialised, is listed as a hazard without a property.
- `buffer_sync.c` is not in this tree. Its task and cookie translation is out of scope by spec 4.3. Its consumer loop, and `sync_start`/`sync_stop` calling `start_cpu_work`/`end_cpu_work`, are modelled from the spec.
- `process.c` (idle polling) and `logging.h` are not modelled.
