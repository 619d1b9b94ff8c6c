--------------------------- MODULE CpuBufferFifo ---------------------------
(***************************************************************************)
(* What a per-CPU sample buffer promises (spec sections 3, 4.1 and 5):     *)
(* a bounded first-in first-out queue with one producer and one consumer. *)
(* The producer publishes a record, possibly several words long, all at    *)
(* once or not at all, and only while it fits; the consumer takes the      *)
(* oldest published word. Nothing published is lost, reordered or         *)
(* changed before the consumer takes it.                                   *)
(***************************************************************************)
EXTENDS Integers, Sequences, SequencesExt

CONSTANT Capacity   \* BufferSize - 1: one slot is always kept empty

VARIABLE queue

(* The producer appends words behind what is already queued. *)
Publish ==
  /\ IsStrictPrefix(queue, queue')
  /\ Len(queue') <= Capacity

(* The consumer takes the oldest word. *)
Take ==
  /\ queue # <<>>
  /\ queue' = Tail(queue)

Init == queue = <<>>

Next == Publish \/ Take

Spec == Init /\ [][Next]_queue

=============================================================================
