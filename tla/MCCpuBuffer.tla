---------------------------- MODULE MCCpuBuffer ----------------------------
(* Instantiates CpuBuffer for TLC: two tasks, one program counter, and     *)
(* the backtraces x86_backtrace (StackWalk) produces at depth 2 for three  *)
(* interrupted contexts: kernel mode with no frame pointer, kernel mode    *)
(* with one frame, and user mode with a chain whose second frame holds a   *)
(* broken return address (ESCAPE_CODE, ~0UL).                             *)
EXTENDS CpuBuffer, StackWalk

CONSTANTS t1, t2

MCTasks == {t1, t2}

MCDepth == 2

(* Frame heads: frame 1 calls up to 2, 2 up to 3, 3 is the outermost. *)
MCMem ==
  [a \in Addr |->
     CASE a = 1 -> [ebp |-> 2, ret |-> "p1"]
       [] a = 2 -> [ebp |-> 3, ret |-> ESCAPE_CODE]
       [] OTHER -> [ebp |-> NULL, ret |-> "p1"]]

MCSampleRegs ==
  {[user |-> FALSE, fp |-> NULL, stack |-> 0, lr |-> NULL, mem |-> MCMem,
    readable |-> {}, kvalid |-> {}, ktext |-> {}],
   [user |-> FALSE, fp |-> 3, stack |-> 0, lr |-> NULL, mem |-> MCMem,
    readable |-> {}, kvalid |-> {}, ktext |-> {}],
   [user |-> TRUE, fp |-> 1, stack |-> 0, lr |-> NULL, mem |-> MCMem,
    readable |-> 1..3, kvalid |-> {}, ktext |-> {}]}

MCTraces == {Walk("x86", r, MCDepth) : r \in MCSampleRegs}

=============================================================================
