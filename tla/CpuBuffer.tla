----------------------------- MODULE CpuBuffer -----------------------------
(***************************************************************************)
(* The per-CPU sample buffer of src/driver/cpu_buffer.c: a ring of         *)
(* struct op_sample written by the interrupt handler of one CPU (head_pos) *)
(* and read by the drain of that CPU's buffer (tail_pos), one slot always   *)
(* kept empty.                                                             *)
(*                                                                         *)
(* Every C function of the producer side is an operator from a buffer     *)
(* record (struct oprofile_cpu_buffer) to a buffer record, so that an      *)
(* interrupt handler, which runs to completion with respect to the drain  *)
(* of its own CPU, is one action composed of the calls it makes.           *)
(*                                                                         *)
(* The build modelled is the RRPROFILE one: a task switch is written as a *)
(* TGID/TID pair and every sample is preceded by two sample timestamps.   *)
(* The #else branches cannot be built from this tree (add_sample writes   *)
(* op_sample.timestamp, which only exists under RRPROFILE).               *)
(*                                                                         *)
(* The drain is sync_buffer() of buffer_sync.c, which is not part of this  *)
(* repository; it is modelled from the spec (section 4.3): snapshot the    *)
(* slots published at entry, consume them one at a time, advance tail.     *)
(***************************************************************************)
EXTENDS Integers, Sequences, SequencesExt, FiniteSetsExt

CONSTANTS
  BufferSize,   \* oprofile_cpu_buffer_size, in struct op_sample units
  Backtrace,    \* oprofile_backtrace_depth > 0 and oprofile_ops.backtrace set
  PCs,          \* program counters an interrupt can report (never ESCAPE_CODE)
  Tasks,        \* task_struct identities (model values)
  Traces,       \* return addresses a backtrace walk can produce, as sequences
  NullRegs,     \* TRUE: oprofile_add_sample may be called with regs == NULL
  NumCounters,  \* counters a model's check_ctrs loops over (timer: 1)
  MaxIrqs,      \* bound on the number of sampling interrupts
  MaxMarkers    \* bound on the session start/stop markers

ASSUME BufferSize \in Nat /\ BufferSize >= 2
ASSUME Backtrace \in BOOLEAN /\ NullRegs \in BOOLEAN
ASSUME NumCounters \in Nat \ {0} /\ MaxIrqs \in Nat /\ MaxMarkers \in Nat

(* ~0UL: the escape value, and the codes that follow it (cpu_buffer.h). *)
ESCAPE_CODE == "ESCAPE"
CPU_IS_KERNEL == 1
CPU_TRACE_BEGIN == 2
RR_CPU_CTX_TGID == 100
RR_CPU_CTX_TID == 101
RR_CPU_SAMPLING_START_TIMESTAMP == 102
RR_CPU_SAMPLING_STOP_TIMESTAMP == 103
RR_CPU_SAMPLE_START_TIMESTAMP == 104
RR_CPU_SAMPLE_STOP_TIMESTAMP == 105

ASSUME ESCAPE_CODE \notin PCs

(* A (nonzero) value read from the time base (oprofile_get_tb): no       *)
(* property depends on it, only on where it is written.                    *)
Tb == 1
NoTask == "NULL"
Slots == 0 .. BufferSize - 1
Counters == 0 .. NumCounters - 1

Entry == [eip : PCs \cup {ESCAPE_CODE},
          event : {0, 1, CPU_TRACE_BEGIN, RR_CPU_CTX_TGID, RR_CPU_CTX_TID,
                   RR_CPU_SAMPLING_START_TIMESTAMP, RR_CPU_SAMPLING_STOP_TIMESTAMP,
                   RR_CPU_SAMPLE_START_TIMESTAMP, RR_CPU_SAMPLE_STOP_TIMESTAMP}
                  \cup Counters,
          timestamp : {0, Tb} \cup Tasks]

(* Logical events, the history the stream must decode to. *)
LogEvent == [kind : {"sample"}, pc : PCs, event : Counters, kernel : {0, 1},
             task : Tasks]
       \cup [kind : {"trace"}, pc : PCs]
       \cup [kind : {"timestamp"}, code : {RR_CPU_SAMPLING_START_TIMESTAMP,
                                           RR_CPU_SAMPLING_STOP_TIMESTAMP,
                                           RR_CPU_SAMPLE_START_TIMESTAMP,
                                           RR_CPU_SAMPLE_STOP_TIMESTAMP}]

VARIABLES
  cb,        \* struct oprofile_cpu_buffer, plus the history fields log,
             \* overrun and attempts
  avail,     \* drain: slots left to consume from the snapshot, -1 when idle
  consumed,  \* history: the entries the drain has taken, in order
  irqs,      \* number of sampling interrupts taken so far
  sampling,  \* the backend's per-CPU start has run and its stop has not
  markers    \* number of session markers written so far

vars == <<cb, avail, consumed, irqs, sampling, markers>>

-----------------------------------------------------------------------------
(* Producer side: cpu_buffer.c *)

(* Mutant: the slot kept empty is not reserved when tail is ahead.       *)
nr_available_slots_noreserve(b) ==
  IF b.tail > b.head THEN b.tail - b.head
                     ELSE b.tail + (BufferSize - b.head) - 1

nr_available_slots(b) ==
  IF b.tail > b.head THEN (b.tail - b.head) - 1
                     ELSE b.tail + (BufferSize - b.head) - 1

(* Mutant: head_pos is not wrapped at the end of the array. *)
increment_head_nowrap(b) == [b EXCEPT !.head = @ + 1]

increment_head(b) ==
  [b EXCEPT !.head = IF @ + 1 < BufferSize THEN @ + 1 ELSE 0]

(* Mutant: the entry is written one slot behind head_pos (off by one). *)
add_sample_behind(b, pc, event, ts) ==
  LET nb == increment_head([b EXCEPT !.slots[(b.head + BufferSize - 1) % BufferSize] =
                              [eip |-> pc, event |-> event, timestamp |-> ts]])
  IN  [nb EXCEPT !.overrun = @ \/ nb.head = nb.tail]

(* overrun records that a write made head_pos catch up with tail_pos: the *)
(* ring then reads as empty and everything unread is gone.                *)
add_sample(b, pc, event, ts) ==
  LET nb == increment_head([b EXCEPT !.slots[b.head] =
                              [eip |-> pc, event |-> event, timestamp |-> ts]])
  IN  [nb EXCEPT !.overrun = @ \/ nb.head = nb.tail]

add_code(b, value) == add_sample(b, ESCAPE_CODE, value, 0)

(* The thread group of a task is abstracted to the task itself. *)
add_code_ctx_rr(b, tgid, tid) ==
  add_sample(add_sample(b, ESCAPE_CODE, RR_CPU_CTX_TGID, tgid),
             ESCAPE_CODE, RR_CPU_CTX_TID, tid)

Logged(b, e) == [b EXCEPT !.log = Append(@, e)]

(* Mutant: the cached mode is updated before the space check, so a lost   *)
(* sample leaves last_is_kernel describing a marker never written.        *)
log_sample_cache_early(b, pc, is_kernel, event, task) ==
  LET b1 == [b EXCEPT !.sample_received = @ + 1, !.last_is_kernel = is_kernel]
  IN  IF pc = ESCAPE_CODE
      THEN [ok |-> FALSE, b |-> [b1 EXCEPT !.sample_invalid_eip = @ + 1]]
      ELSE IF nr_available_slots(b1) < 3
      THEN [ok |-> FALSE, b |-> [b1 EXCEPT !.sample_lost_overflow = @ + 1]]
      ELSE LET b2 == IF b.last_is_kernel # is_kernel
                     THEN add_code(b1, is_kernel) ELSE b1
               b3 == IF b2.last_task # task
                     THEN add_code_ctx_rr([b2 EXCEPT !.last_task = task], task, task)
                     ELSE b2
           IN  [ok |-> TRUE,
                b  |-> Logged(add_sample(b3, pc, event, 0),
                              [kind |-> "sample", pc |-> pc, event |-> event,
                               kernel |-> is_kernel, task |-> task])]

(* log_sample: returns [ok, b]. task is current at the interrupt. *)
log_sample(b, pc, is_kernel, event, task) ==
  LET b1 == [b EXCEPT !.sample_received = @ + 1]
  IN  IF pc = ESCAPE_CODE
      THEN [ok |-> FALSE, b |-> [b1 EXCEPT !.sample_invalid_eip = @ + 1]]
      ELSE IF nr_available_slots(b1) < 3
      THEN [ok |-> FALSE, b |-> [b1 EXCEPT !.sample_lost_overflow = @ + 1]]
      ELSE LET b2 == IF b1.last_is_kernel # is_kernel
                     THEN add_code([b1 EXCEPT !.last_is_kernel = is_kernel],
                                   is_kernel)
                     ELSE b1
               b3 == IF b2.last_task # task
                     THEN add_code_ctx_rr([b2 EXCEPT !.last_task = task], task, task)
                     ELSE b2
           IN  [ok |-> TRUE,
                b  |-> Logged(add_sample(b3, pc, event, 0),
                              [kind |-> "sample", pc |-> pc, event |-> event,
                               kernel |-> is_kernel, task |-> task])]

(* Mutant: a refused trace start is not counted as lost. *)
oprofile_begin_trace_uncounted(b) ==
  IF nr_available_slots(b) < 4
  THEN [ok |-> FALSE, b |-> b]
  ELSE [ok |-> TRUE, b |-> [add_code(b, CPU_TRACE_BEGIN) EXCEPT !.tracing = TRUE]]

oprofile_begin_trace(b) ==
  IF nr_available_slots(b) < 4
  THEN [ok |-> FALSE, b |-> [b EXCEPT !.sample_lost_overflow = @ + 1]]
  ELSE [ok |-> TRUE, b |-> [add_code(b, CPU_TRACE_BEGIN) EXCEPT !.tracing = TRUE]]

oprofile_end_trace(b) == [b EXCEPT !.tracing = FALSE]

oprofile_add_trace(b, pc) ==
  IF ~b.tracing THEN b
  ELSE IF nr_available_slots(b) < 1
  THEN [b EXCEPT !.tracing = FALSE, !.sample_lost_overflow = @ + 1]
  ELSE IF pc = ESCAPE_CODE
  THEN [b EXCEPT !.tracing = FALSE, !.backtrace_aborted = @ + 1]
  ELSE Logged(add_sample(b, pc, 0, 0), [kind |-> "trace", pc |-> pc])

(* oprofile_ops.backtrace: the walker calls oprofile_add_trace per frame. *)
backtrace(b, frames) == FoldLeft(oprofile_add_trace, b, frames)

oprofile_add_ext_sample(b, pc, is_kernel, event, task, frames) ==
  IF ~Backtrace THEN log_sample(b, pc, is_kernel, event, task).b
  ELSE LET bt == oprofile_begin_trace(b)
           ls == log_sample(bt.b, pc, is_kernel, event, task)
       IN  IF ~bt.ok THEN bt.b
           ELSE oprofile_end_trace(IF ls.ok THEN backtrace(ls.b, frames)
                                            ELSE ls.b)

(* oprofile_add_sample_start / _stop, and oprofile_add_start / _stop    *)
(* (the session markers): written with no space check.                   *)
add_timestamp(b, code) ==
  Logged(add_sample(b, ESCAPE_CODE, code, Tb), [kind |-> "timestamp", code |-> code])

cpu_buffer_reset(b) == [b EXCEPT !.last_is_kernel = -1, !.last_task = NoTask]

(* One overflowed counter i of a sampling interrupt (timer_notify,        *)
(* ppro_check_ctrs, athlon_check_ctrs): the sample timestamps, then       *)
(* oprofile_add_sample, which turns regs == NULL into pc = ESCAPE_CODE.   *)
(* attempts counts the samples the handler tried to record.               *)
sample_counter(b, i, pc, is_kernel, task, frames) ==
  oprofile_add_ext_sample(
    add_timestamp(add_timestamp([b EXCEPT !.attempts = @ + 1],
                                RR_CPU_SAMPLE_START_TIMESTAMP),
                  RR_CPU_SAMPLE_STOP_TIMESTAMP),
    pc, is_kernel, i, task, frames)

(* check_ctrs: every overflowed counter, in counter order, is sampled     *)
(* with the same interrupted context.                                     *)
check_ctrs(b, ctrs, pc, is_kernel, task, frames) ==
  FoldLeft(LAMBDA acc, i : sample_counter(acc, i, pc, is_kernel, task, frames),
           b, SetToSortSeq(ctrs, <))

-----------------------------------------------------------------------------
(* Consumer side: the drain (sync_buffer, modelled from the spec). *)

get_slots(b) ==
  IF b.head >= b.tail THEN b.head - b.tail ELSE b.head + BufferSize - b.tail

increment_tail(b) ==
  [b EXCEPT !.tail = IF @ + 1 < BufferSize THEN @ + 1 ELSE 0]

-----------------------------------------------------------------------------
(* alloc_cpu_buffers: the fields a fresh buffer starts with. The array    *)
(* comes from vmalloc and is never read before it is written.             *)
Init ==
  /\ cb = [head |-> 0, tail |-> 0,
           slots |-> [i \in Slots |-> [eip |-> ESCAPE_CODE, event |-> 0, timestamp |-> 0]],
           last_task |-> NoTask, last_is_kernel |-> -1, tracing |-> FALSE,
           sample_received |-> 0, sample_lost_overflow |-> 0,
           backtrace_aborted |-> 0, sample_invalid_eip |-> 0,
           log |-> <<>>, overrun |-> FALSE, attempts |-> 0]
  /\ avail = -1
  /\ consumed = <<>>
  /\ irqs = 0
  /\ sampling = FALSE
  /\ markers = 0

RegsPCs == PCs \cup (IF NullRegs THEN {ESCAPE_CODE} ELSE {})

(* A sampling interrupt on this CPU, with the counters it found overflowed. *)
Interrupt ==
  /\ irqs < MaxIrqs
  /\ \E ctrs \in SUBSET Counters \ {{}}, pc \in RegsPCs, k \in {0, 1},
        t \in Tasks, frames \in Traces :
       cb' = check_ctrs(cb, ctrs, pc, k, t, frames)
  /\ irqs' = irqs + 1
  /\ UNCHANGED <<avail, consumed, sampling, markers>>

Reset ==
  /\ cb' = cpu_buffer_reset(cb)
  /\ cb' # cb
  /\ UNCHANGED <<avail, consumed, irqs, sampling, markers>>

(* The drain reads head once, at entry (spec 4.3). *)
DrainBegin ==
  /\ avail = -1
  /\ avail' = get_slots(cb)
  /\ UNCHANGED <<cb, consumed, irqs, sampling, markers>>

DrainEntry ==
  /\ avail > 0
  /\ consumed' = Append(consumed, cb.slots[cb.tail])
  /\ cb' = increment_tail(cb)
  /\ avail' = avail - 1
  /\ UNCHANGED <<irqs, sampling, markers>>

DrainEnd ==
  /\ avail = 0
  /\ avail' = -1
  /\ UNCHANGED <<cb, consumed, irqs, sampling, markers>>

Drain == DrainBegin \/ DrainEntry \/ DrainEnd

(* The backend's start on this CPU (nmi_cpu_start, op_powerpc_cpu_start,  *)
(* timer_start's on_each_cpu) writes oprofile_add_start before starting  *)
(* its source; its stop writes oprofile_add_stop after stopping it. Both *)
(* run with interrupts off, so with respect to this CPU's handler and    *)
(* drain they are one step.                                               *)
SessionStart ==
  /\ ~sampling
  /\ markers < MaxMarkers
  /\ cb' = add_timestamp(cb, RR_CPU_SAMPLING_START_TIMESTAMP)
  /\ sampling' = TRUE
  /\ markers' = markers + 1
  /\ UNCHANGED <<avail, consumed, irqs>>

SessionStop ==
  /\ sampling
  /\ markers < MaxMarkers
  /\ cb' = add_timestamp(cb, RR_CPU_SAMPLING_STOP_TIMESTAMP)
  /\ sampling' = FALSE
  /\ markers' = markers + 1
  /\ UNCHANGED <<avail, consumed, irqs>>

Next == Interrupt \/ Reset \/ Drain \/ SessionStart \/ SessionStop

(* The properties are safety properties; no step is forced to happen. *)
Spec == Init /\ [][Next]_vars

-----------------------------------------------------------------------------
(* Views used by the properties. *)

(* The entries a reader sees: from tail up to (not including) head. *)
Visible == [i \in 1 .. get_slots(cb) |-> cb.slots[(cb.tail + i - 1) % BufferSize]]

Stream == consumed \o Visible

(* Decoding the escape-coded stream of one CPU (spec section 3): the      *)
(* reference reading of the wire format, independent of the producer.     *)
(* bt is "none", "start" (TRACE_BEGIN seen, source sample expected) or    *)
(* "in" (plain entries are return addresses until the next escape).       *)
RECURSIVE DecodeFrom(_, _)
DecodeFrom(s, ctx) ==
  IF s = <<>> THEN <<>>
  ELSE LET e == Head(s)
           keep == IF ctx.bt = "start" THEN "start" ELSE "none"
       IN
       IF e.eip = ESCAPE_CODE
       THEN CASE e.event \in {0, CPU_IS_KERNEL} ->
                   DecodeFrom(Tail(s), [ctx EXCEPT !.kernel = e.event, !.bt = keep])
              [] e.event = CPU_TRACE_BEGIN ->
                   DecodeFrom(Tail(s), [ctx EXCEPT !.bt = "start"])
              [] e.event = RR_CPU_CTX_TGID ->
                   DecodeFrom(Tail(s), [ctx EXCEPT !.bt = keep])
              [] e.event = RR_CPU_CTX_TID ->
                   DecodeFrom(Tail(s), [ctx EXCEPT !.task = e.timestamp, !.bt = keep])
              [] OTHER ->
                   <<[kind |-> "timestamp", code |-> e.event]>>
                     \o DecodeFrom(Tail(s), [ctx EXCEPT !.bt = "none"])
       ELSE IF ctx.bt = "in"
       THEN <<[kind |-> "trace", pc |-> e.eip]>> \o DecodeFrom(Tail(s), ctx)
       ELSE <<[kind |-> "sample", pc |-> e.eip, event |-> e.event,
               kernel |-> ctx.kernel, task |-> ctx.task]>>
              \o DecodeFrom(Tail(s), [ctx EXCEPT !.bt = IF ctx.bt = "start"
                                                        THEN "in" ELSE "none"])

Decode(s) == DecodeFrom(s, [kernel |-> -1, task |-> NoTask, bt |-> "none"])

IsSample(e) == e.kind = "sample"

-----------------------------------------------------------------------------
(* Properties *)

(* Every field of the buffer keeps its C type and range; in particular     *)
(* head_pos and tail_pos stay inside the array (increment_head wraps).     *)
TypeOK ==
  /\ cb.head \in Slots /\ cb.tail \in Slots
  /\ cb.slots \in [Slots -> Entry]
  /\ cb.last_task \in Tasks \cup {NoTask}
  /\ cb.last_is_kernel \in {-1, 0, 1}
  /\ cb.tracing \in BOOLEAN
  /\ {cb.sample_received, cb.sample_lost_overflow, cb.backtrace_aborted,
      cb.sample_invalid_eip} \subseteq Nat
  /\ cb.log \in Seq(LogEvent)
  /\ cb.overrun \in BOOLEAN /\ cb.attempts \in Nat
  /\ avail \in -1 .. BufferSize - 1
  /\ consumed \in Seq(Entry)
  /\ irqs \in 0 .. MaxIrqs
  /\ sampling \in BOOLEAN /\ markers \in 0 .. MaxMarkers

(* Escape-protocol round trip: as long as the ring has never been overrun, *)
(* decoding everything this CPU has written, drained or not, gives back    *)
(* exactly the samples, return addresses and timestamps the producer      *)
(* accepted, in order, each sample with its counter, mode and task. This  *)
(* is what log_sample's last_is_kernel / last_task caching and the        *)
(* all-or-nothing space checks must preserve.                             *)
StreamRoundTrip == ~cb.overrun => Decode(Stream) = cb.log

(* No silent loss: as long as the ring has never been overrun, every      *)
(* overflowed counter of every interrupt reaches the stream as a sample   *)
(* or is counted in sample_lost_overflow or sample_invalid_eip, the only  *)
(* signal of loss the driver exports.                                     *)
NoSilentLoss ==
  ~cb.overrun =>
    Len(SelectSeq(Decode(Stream), IsSample))
      + cb.sample_lost_overflow + cb.sample_invalid_eip >= cb.attempts

(* The ring implements a bounded FIFO queue of capacity BufferSize - 1:   *)
(* entries are published at head and taken at tail, never changed or      *)
(* dropped in between.                                                    *)
Fifo == INSTANCE CpuBufferFifo WITH queue <- Visible, Capacity <- BufferSize - 1
FifoRefinement == Fifo!Spec

(* The same refinement for every step up to the first overrun: any bug   *)
(* in the ring other than writing into a full ring breaks it.             *)
FifoUntilOverrun == Fifo!Init /\ [][Fifo!Next \/ cb'.overrun]_Visible

=============================================================================
