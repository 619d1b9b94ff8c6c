------------------------- MODULE EventBufferControl -------------------------
(***************************************************************************)
(* The event buffer of EventBuffer with a third writer: the session        *)
(* controller. oprofile_start (oprof.c:232), oprofile_stop (274) and        *)
(* oprofile_adapt (314) each append the record ESCAPE_CODE,                 *)
(* RR_ADAPT_SAMPLING_INTERVAL_CODE, oprofile_adapt_value with three calls   *)
(* of add_event_entry. They hold start_sem, not buffer_sem, so the drain    *)
(* (under buffer_sem, on another CPU's workqueue) and the reader's copy     *)
(* (under buffer_sem) run concurrently with them.                           *)
(*                                                                         *)
(* Unlocked, add_event_entry is no longer one step. Compiled, it loads      *)
(* buffer_pos once for the full test and the index, stores the word, then   *)
(* reloads buffer_pos (the kernel builds with -fno-strict-aliasing, and the *)
(* store through the unsigned long array may alias it), increments and      *)
(* stores it back, and compares the new value with the watermark. Each of   *)
(* those is a step here; the drain's and the reader's steps stay atomic,    *)
(* since buffer_sem excludes them from each other.                          *)
(***************************************************************************)
EXTENDS EventBuffer

CONSTANT MaxCtlRecords   \* bound on the records the controller appends

ASSUME MaxCtlRecords \in Nat

(* The controller's record: three words. *)
CtlRecLen == 3

VARIABLES
  ctl,        \* where the controller is in add_event_entry, and its word
  ctlRecords  \* records the controller has started

ctlVars == <<ctl, ctlRecords>>
allVars == <<vars, ctlVars>>

CtlIdle == [pc |-> "idle", w |-> NoWord, p |-> 0, q |-> 0]

(* After one add_event_entry: the next word of the record, or done. *)
NextWord(w) ==
  IF w.i < w.n
  THEN [pc |-> "load", w |-> [w EXCEPT !.i = @ + 1], p |-> 0, q |-> 0]
  ELSE CtlIdle

-----------------------------------------------------------------------------
(* oprofile_stop (and start, adapt): the first add_event_entry of the     *)
(* record, made while holding start_sem only.                             *)
CtlBegin ==
  /\ ctl.pc = "idle"
  /\ ctlRecords < MaxCtlRecords
  /\ records < MaxRecords
  /\ ctl' = [pc |-> "load", w |-> [r |-> records + 1, i |-> 1, n |-> CtlRecLen],
             p |-> 0, q |-> 0]
  /\ records' = records + 1
  /\ ctlRecords' = ctlRecords + 1
  /\ UNCHANGED <<event_buffer, buffer_pos, buffer_ready, buffer_dump,
                 event_lost_overflow, sem, rpc, ret, drain, accepted, cut, chunks, read_dump>>

(* if (buffer_pos == buffer_size): count the loss and return. *)
CtlLoad ==
  /\ ctl.pc = "load"
  /\ IF buffer_pos = BufSize
     THEN /\ event_lost_overflow' = event_lost_overflow + 1
          /\ cut' = cut \cup {ctl.w.r}
          /\ ctl' = NextWord(ctl.w)
     ELSE /\ ctl' = [ctl EXCEPT !.pc = "store", !.p = buffer_pos]
          /\ UNCHANGED <<event_lost_overflow, cut>>
  /\ UNCHANGED <<event_buffer, buffer_pos, buffer_ready, buffer_dump, sem, rpc,
                 ret, drain, records, accepted, chunks, read_dump, ctlRecords>>

(* event_buffer[buffer_pos] = value, at the position loaded above. *)
CtlStore ==
  /\ ctl.pc = "store"
  /\ event_buffer' = [event_buffer EXCEPT ![ctl.p] = ctl.w]
  /\ ctl' = [ctl EXCEPT !.pc = "reload"]
  /\ UNCHANGED <<buffer_pos, buffer_ready, buffer_dump, event_lost_overflow,
                 sem, rpc, ret, drain, records, accepted, cut, chunks, read_dump, ctlRecords>>

(* ++buffer_pos: the reload. *)
CtlReload ==
  /\ ctl.pc = "reload"
  /\ ctl' = [ctl EXCEPT !.pc = "inc", !.q = buffer_pos]
  /\ UNCHANGED <<vars, ctlRecords>>

(* ++buffer_pos: the store of the incremented value, and the watermark    *)
(* test on it. The word counts as stored once buffer_pos covers it.       *)
CtlInc ==
  /\ ctl.pc = "inc"
  /\ buffer_pos' = ctl.q + 1
  /\ buffer_ready' = IF ctl.q + 1 = BufSize - Watershed THEN 1 ELSE buffer_ready
  /\ accepted' = Append(accepted, ctl.w)
  /\ ctl' = NextWord(ctl.w)
  /\ UNCHANGED <<event_buffer, buffer_dump, event_lost_overflow, sem, rpc, ret,
                 drain, records, cut, chunks, read_dump, ctlRecords>>

Ctl == CtlBegin \/ CtlLoad \/ CtlStore \/ CtlReload \/ CtlInc

-----------------------------------------------------------------------------
CtlInit ==
  /\ Init
  /\ ctl = CtlIdle
  /\ ctlRecords = 0

CtlNext ==
  \/ Next /\ UNCHANGED ctlVars
  \/ Ctl

(* The controller's thread runs to the end of its record. *)
CtlSpec == CtlInit /\ [][CtlNext]_allVars /\ WF_allVars(Ctl)

=============================================================================
