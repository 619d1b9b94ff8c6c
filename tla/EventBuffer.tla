---------------------------- MODULE EventBuffer ----------------------------
(***************************************************************************)
(* The global event buffer of src/driver/event_buffer.c: one array of      *)
(* words with a write cursor (buffer_pos), a watermark that sets           *)
(* buffer_ready and wakes the reader, and the dump flag set by a forced     *)
(* wake. Writers and the reader serialize on buffer_sem.                   *)
(*                                                                         *)
(* The writer here is the drain (sync_buffer, buffer_sync.c, not in this   *)
(* tree): it takes buffer_sem and appends one record of one or more words  *)
(* with add_event_entry, one word per step. The reader is the daemon's     *)
(* read() of the buffer file, event_buffer_read, split where it blocks:    *)
(* the wait for buffer_ready, the re-check, and the copy under buffer_sem. *)
(* A word is the record it belongs to and its place in it, so that the     *)
(* properties can tell records apart; its value is not modelled.           *)
(***************************************************************************)
EXTENDS Integers, Sequences, SequencesExt

CONSTANTS
  BufSize,      \* buffer_size (oprofile_buffer_size at setup)
  Watershed,    \* buffer_watershed (oprofile_buffer_watershed at setup)
  MaxRecords,   \* bound on the records the drain appends
  MaxRecLen,    \* longest record the drain appends, in words
  CopyFaults    \* TRUE: copy_to_user may fail (bad user buffer)

(* alloc_event_buffer refuses a watermark at or above the size (-EINVAL). *)
ASSUME BufSize \in Nat \ {0} /\ Watershed \in 0 .. BufSize - 1
ASSUME MaxRecords \in Nat /\ MaxRecLen \in Nat \ {0} /\ CopyFaults \in BOOLEAN

Word == [r : 1 .. MaxRecords, i : 1 .. MaxRecLen, n : 1 .. MaxRecLen]
NoWord == [r |-> 0, i |-> 0, n |-> 0]   \* vmalloc'ed and not yet written

VARIABLES
  event_buffer,         \* the array, indices 0 .. BufSize - 1
  buffer_pos,
  buffer_ready,
  buffer_dump,
  event_lost_overflow,  \* oprofile_stats.event_lost_overflow
  sem,                  \* holder of buffer_sem: "none", "drain"
  rpc,                  \* where the reader is in event_buffer_read
  ret,                  \* what the reader's last read() returned
  drain,                \* the record the drain is appending: [r, i, n]
  records,              \* records the drain has started
  accepted,             \* history: the words add_event_entry stored, in order
  cut,                  \* history: records a word of which was dropped
  chunks,               \* history: what each successful read returned
  read_dump             \* history: buffer_dump as the reader's last read() tested it

vars == <<event_buffer, buffer_pos, buffer_ready, buffer_dump,
          event_lost_overflow, sem, rpc, ret, drain, records, accepted, cut,
          chunks, read_dump>>

(* The words a read would copy out: event_buffer[0 .. buffer_pos - 1]. *)
Contents == [k \in 1 .. buffer_pos |-> event_buffer[k - 1]]

-----------------------------------------------------------------------------
(* Mutant: the full-buffer check dropped. *)
add_event_entry_nofullcheck(w) ==
  /\ event_buffer' = [event_buffer EXCEPT ![buffer_pos] = w]
  /\ buffer_pos' = buffer_pos + 1
  /\ buffer_ready' = IF buffer_pos + 1 = BufSize - Watershed THEN 1 ELSE buffer_ready
  /\ accepted' = Append(accepted, w)
  /\ UNCHANGED <<event_lost_overflow, cut>>

(* add_event_entry: drop and count when full, else store and advance; the *)
(* reader is woken when buffer_pos becomes exactly the watermark.         *)
add_event_entry(w) ==
  IF buffer_pos = BufSize
  THEN /\ event_lost_overflow' = event_lost_overflow + 1
       /\ cut' = cut \cup {w.r}
       /\ UNCHANGED <<event_buffer, buffer_pos, buffer_ready, accepted>>
  ELSE /\ event_buffer' = [event_buffer EXCEPT ![buffer_pos] = w]
       /\ buffer_pos' = buffer_pos + 1
       /\ buffer_ready' = IF buffer_pos + 1 = BufSize - Watershed
                          THEN 1 ELSE buffer_ready
       /\ accepted' = Append(accepted, w)
       /\ UNCHANGED <<event_lost_overflow, cut>>

(* alloc_event_buffer and event_buffer_open: an empty buffer, nobody     *)
(* reading, no dump requested (oprofile_setup clears buffer_dump).        *)
Init ==
  /\ event_buffer = [k \in 0 .. BufSize - 1 |-> NoWord]
  /\ buffer_pos = 0
  /\ buffer_ready = 0
  /\ buffer_dump = 0
  /\ event_lost_overflow = 0
  /\ sem = "none"
  /\ rpc = "idle"
  /\ ret = "none"
  /\ drain = NoWord
  /\ records = 0
  /\ accepted = <<>>
  /\ cut = {}
  /\ chunks = <<>>
  /\ read_dump = 0

-----------------------------------------------------------------------------
(* The drain: down(&buffer_sem), one add_event_entry per word, up. *)

DrainLock ==
  /\ sem = "none"
  /\ records < MaxRecords
  /\ \E n \in 1 .. MaxRecLen : drain' = [r |-> records + 1, i |-> 1, n |-> n]
  /\ records' = records + 1
  /\ sem' = "drain"
  /\ UNCHANGED <<event_buffer, buffer_pos, buffer_ready, buffer_dump,
                 event_lost_overflow, rpc, ret, accepted, cut, chunks, read_dump>>

DrainAdd ==
  /\ sem = "drain"
  /\ drain.i <= drain.n
  /\ add_event_entry(drain)
  /\ drain' = [drain EXCEPT !.i = @ + 1]
  /\ UNCHANGED <<buffer_dump, sem, rpc, ret, records, chunks, read_dump>>

DrainUnlock ==
  /\ sem = "drain"
  /\ drain.i > drain.n
  /\ sem' = "none"
  /\ drain' = NoWord
  /\ UNCHANGED <<event_buffer, buffer_pos, buffer_ready, buffer_dump,
                 event_lost_overflow, rpc, ret, records, accepted, cut, chunks, read_dump>>

-----------------------------------------------------------------------------
(* Mutant: the dump flag is raised but buffer_ready is not set. *)
wake_up_buffer_waiter_noready ==
  /\ sem = "none"
  /\ buffer_dump' = 1
  /\ UNCHANGED <<event_buffer, buffer_pos, buffer_ready, event_lost_overflow,
                 sem, rpc, ret, drain, records, accepted, cut, chunks, read_dump>>

(* wake_up_buffer_waiter, from a write to the dump or buffer file and     *)
(* from oprofile_stop: under buffer_sem, mark ready and dump, wake.       *)
wake_up_buffer_waiter ==
  /\ sem = "none"
  /\ buffer_ready' = 1
  /\ buffer_dump' = 1
  /\ UNCHANGED <<event_buffer, buffer_pos, event_lost_overflow, sem, rpc, ret,
                 drain, records, accepted, cut, chunks, read_dump>>

(* oprofile_start, once the backend has started: buffer_dump cleared,    *)
(* without buffer_sem (oprof.c:243; oprofile_setup clears it too). The  *)
(* buffer_ready a stop's dump set is left as it is.                     *)
oprofile_start_dump_clear ==
  /\ buffer_dump = 1
  /\ buffer_dump' = 0
  /\ UNCHANGED <<event_buffer, buffer_pos, buffer_ready, event_lost_overflow, sem, rpc, ret,
                 drain, records, accepted, cut, chunks, read_dump>>

-----------------------------------------------------------------------------
(* event_buffer_read. A read of the wrong size returns -EINVAL with no    *)
(* effect and is left out. Unless a dump was requested the reader sleeps  *)
(* until buffer_ready (wait_event_interruptible).                         *)

(* Mutant: the wait skipped whatever buffer_dump says. *)
ReadStart_nowait ==
  /\ rpc = "idle"
  /\ rpc' = "check"
  /\ read_dump' = buffer_dump
  /\ UNCHANGED <<event_buffer, buffer_pos, buffer_ready, buffer_dump,
                 event_lost_overflow, sem, ret, drain, records, accepted, cut, chunks>>

ReadStart ==
  /\ rpc = "idle"
  /\ rpc' = IF buffer_dump = 1 THEN "check" ELSE "wait"
  /\ read_dump' = buffer_dump
  /\ UNCHANGED <<event_buffer, buffer_pos, buffer_ready, buffer_dump,
                 event_lost_overflow, sem, ret, drain, records, accepted, cut, chunks>>

(* wake_up() after buffer_ready was set: the wait condition now holds. *)
ReadWoken ==
  /\ rpc = "wait"
  /\ buffer_ready = 1
  /\ rpc' = "check"
  /\ UNCHANGED <<event_buffer, buffer_pos, buffer_ready, buffer_dump,
                 event_lost_overflow, sem, ret, drain, records, accepted, cut, chunks, read_dump>>

(* A signal ends the wait, or is found pending after it: -EINTR. *)
ReadSignal ==
  /\ rpc \in {"wait", "check"}
  /\ rpc' = "idle"
  /\ ret' = "EINTR"
  /\ UNCHANGED <<event_buffer, buffer_pos, buffer_ready, buffer_dump,
                 event_lost_overflow, sem, drain, records, accepted, cut, chunks, read_dump>>

(* "can't currently happen": buffer_ready re-read after the wait. *)
ReadCheck ==
  /\ rpc = "check"
  /\ IF buffer_ready = 0
     THEN rpc' = "idle" /\ ret' = "EAGAIN"
     ELSE rpc' = "lock" /\ UNCHANGED ret
  /\ UNCHANGED <<event_buffer, buffer_pos, buffer_ready, buffer_dump,
                 event_lost_overflow, sem, drain, records, accepted, cut, chunks, read_dump>>

(* Mutants of the copy: buffer_pos reset even when the copy faults; the  *)
(* copy done without buffer_sem.                                          *)
ReadCopy_faultresets ==
  /\ rpc = "lock" /\ sem = "none"
  /\ buffer_ready' = 0 /\ rpc' = "idle" /\ buffer_pos' = 0
  /\ \/ ret' = "count" /\ chunks' = IF buffer_pos > 0 THEN Append(chunks, Contents) ELSE chunks
     \/ CopyFaults /\ ret' = "EFAULT" /\ UNCHANGED chunks
  /\ UNCHANGED <<event_buffer, buffer_dump, event_lost_overflow, sem, drain,
                 records, accepted, cut, read_dump>>

ReadCopy_nolock ==
  /\ rpc = "lock"
  /\ buffer_ready' = 0 /\ rpc' = "idle"
  /\ \/ ret' = "count" /\ buffer_pos' = 0
        /\ chunks' = IF buffer_pos > 0 THEN Append(chunks, Contents) ELSE chunks
     \/ CopyFaults /\ ret' = "EFAULT" /\ UNCHANGED <<buffer_pos, chunks>>
  /\ UNCHANGED <<event_buffer, buffer_dump, event_lost_overflow, sem, drain,
                 records, accepted, cut, read_dump>>

(* Under buffer_sem: clear buffer_ready, copy buffer_pos words to user    *)
(* space; only when the copy succeeds is buffer_pos reset.                *)
ReadCopy ==
  /\ rpc = "lock"
  /\ sem = "none"
  /\ buffer_ready' = 0
  /\ rpc' = "idle"
  /\ \/ /\ ret' = "count"
        /\ buffer_pos' = 0
        /\ chunks' = IF buffer_pos > 0 THEN Append(chunks, Contents) ELSE chunks
     \/ /\ CopyFaults
        /\ ret' = "EFAULT"
        /\ UNCHANGED <<buffer_pos, chunks>>
  /\ UNCHANGED <<event_buffer, buffer_dump, event_lost_overflow, sem, drain,
                 records, accepted, cut, read_dump>>

Read == ReadStart \/ ReadWoken \/ ReadSignal \/ ReadCheck \/ ReadCopy

Next ==
  \/ DrainLock \/ DrainAdd \/ DrainUnlock
  \/ wake_up_buffer_waiter \/ oprofile_start_dump_clear
  \/ Read

(* A drain holding buffer_sem runs to its up(); a woken reader is run by  *)
(* the scheduler and gets buffer_sem once the drain releases it. Nothing  *)
(* forces a drain to start, a dump, a read to be issued or a signal.      *)
Spec ==
  /\ Init /\ [][Next]_vars
  /\ WF_vars(DrainAdd) /\ WF_vars(DrainUnlock)
  /\ WF_vars(ReadWoken) /\ WF_vars(ReadCheck) /\ WF_vars(ReadCopy)

-----------------------------------------------------------------------------
(* Properties *)

TypeOK ==
  /\ event_buffer \in [0 .. BufSize - 1 -> Word \cup {NoWord}]
  /\ buffer_pos \in 0 .. BufSize
  /\ buffer_ready \in {0, 1} /\ buffer_dump \in {0, 1}
  /\ event_lost_overflow \in Nat
  /\ sem \in {"none", "drain"}
  /\ rpc \in {"idle", "wait", "check", "lock"}
  /\ ret \in {"none", "count", "EINTR", "EAGAIN", "EFAULT"}
  /\ drain \in Word \cup {NoWord} \cup [r : 1 .. MaxRecords, i : {MaxRecLen + 1},
                                        n : 1 .. MaxRecLen]
  /\ records \in 0 .. MaxRecords
  /\ accepted \in Seq(Word) /\ cut \subseteq 1 .. MaxRecords
  /\ chunks \in Seq(Seq(Word))
  /\ read_dump \in {0, 1}

(* Every word add_event_entry stored is returned by exactly one read, in  *)
(* the order it was stored: what the reads returned, followed by what is  *)
(* still in the buffer, is exactly the stored words. A failed copy must   *)
(* keep the words; a successful one must not return them again.           *)
DeliveredOnceInOrder == FlattenSeq(chunks) \o Contents = accepted

(* A read returns whole records: it starts at the first word of a record  *)
(* and ends at the last word of one, except where a record lost a word to *)
(* a full buffer. This is what buffer_sem, held by the drain across a     *)
(* record and by the reader across its copy, must guarantee.              *)
ReadsAreWholeRecords ==
  \A k \in DOMAIN chunks :
    /\ Head(chunks[k]).i = 1 \/ Head(chunks[k]).r \in cut
    /\ Last(chunks[k]).i = Last(chunks[k]).n \/ Last(chunks[k]).r \in cut

(* A dump releases the reader: once a dump was requested, a reader inside *)
(* read() returns.                                                        *)
DumpReleasesReader == (rpc # "idle" /\ buffer_dump = 1) ~> (rpc = "idle")

(* The watermark wakes the reader: a reader waiting while the buffer      *)
(* holds at least size - watershed words returns (spec 4.4).              *)
WatermarkWakesReader ==
  (rpc = "wait" /\ buffer_pos >= BufSize - Watershed) ~> (rpc = "idle")

(* The -EAGAIN of event_buffer_read (line 230), which its comment says    *)
(* "can't currently happen", is returned only once a dump was requested: *)
(* without one, the reader leaves wait_event_interruptible only with     *)
(* buffer_ready set, and nothing but its own copy clears it. After a     *)
(* dump the wait is skipped, and a read finding buffer_ready clear       *)
(* returns -EAGAIN with the buffer's words kept for a later read. The    *)
(* dump that counts is the one the read tested on entry (read_dump): a   *)
(* start may clear buffer_dump afterwards. Between reads (rpc idle), ret *)
(* and read_dump belong to the same, last read.                          *)
EagainOnlyAfterDump == rpc = "idle" /\ ret = "EAGAIN" => read_dump = 1

=============================================================================
