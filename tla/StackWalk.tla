------------------------------ MODULE StackWalk ------------------------------
(***************************************************************************)
(* The backtrace walkers behind oprofile_ops.backtrace: x86_backtrace      *)
(* (x86/backtrace.c) and op_powerpc_backtrace (powerpc/backtrace.c). Each  *)
(* is called from oprofile_add_ext_sample (cpu_buffer.c:305) with          *)
(* oprofile_backtrace_depth, and calls oprofile_add_trace once per return  *)
(* address it reports; a walk is modelled as the sequence of those calls'  *)
(* arguments.                                                              *)
(*                                                                         *)
(* Memory is abstracted to frame heads at addresses 1..MaxFrameAddr, in    *)
(* units of one frame head, NULL being 0. A frame head is a record: ebp is *)
(* the saved frame pointer (on powerpc, the back chain word STACK_SP) and  *)
(* ret the saved return address (on powerpc, the LR save word STACK_LR).   *)
(* The interrupted context is a record regs:                               *)
(*   user     user_mode(regs)                                              *)
(*   fp       frame_pointer(regs) on x86, regs->gpr[1] on powerpc          *)
(*   stack    kernel_stack_pointer(regs), x86 kernel mode                  *)
(*   lr       regs->link, powerpc                                          *)
(*   mem      the frame heads                                              *)
(*   readable the user frame heads __copy_from_user_inatomic can read      *)
(*   kvalid   the kernel frame heads validate_sp accepts, powerpc          *)
(*   ktext    the return addresses is_kernel_addr accepts, powerpc         *)
(* The x86_64 and compat (head32) user walks differ only in word width and *)
(* are one walk here.                                                      *)
(***************************************************************************)
EXTENDS Integers, Sequences, SequencesExt

CONSTANTS
  MaxFrameAddr,  \* frame heads lie at 1..MaxFrameAddr
  ThreadSize,    \* THREAD_SIZE, in frame-head units
  UIntWidth      \* width of the walkers' unsigned int depth

ASSUME /\ MaxFrameAddr \in Nat \ {0}
       /\ ThreadSize \in 1..(MaxFrameAddr + 1)
       /\ UIntWidth \in Nat \ {0}

NULL == 0
Addr == 1..MaxFrameAddr

(* Arithmetic on an unsigned int. *)
UIntRange == 2 ^ UIntWidth
AsUInt(x) == x % UIntRange

-----------------------------------------------------------------------------
(* x86 *)

(* valid_kernel_stack: stack < head < stack_base, where stack_base is the *)
(* end of the THREAD_SIZE-aligned block holding the stack pointer.         *)
valid_kernel_stack(head, stack) ==
  LET stack_base == (stack - (stack % ThreadSize)) + ThreadSize
  IN  head > stack /\ head < stack_base

(* Mutant: the saved frame pointer is followed whatever its direction. *)
dump_kernel_backtrace_noprogress(mem, head) ==
  [trace |-> <<mem[head].ret>>, next |-> mem[head].ebp]

(* dump_kernel_backtrace: report the return address, then follow the saved *)
(* frame pointer only if it moves up the stack.                            *)
dump_kernel_backtrace(mem, head) ==
  [trace |-> <<mem[head].ret>>,
   next  |-> IF head >= mem[head].ebp THEN NULL ELSE mem[head].ebp]

(* dump_user64_backtrace / dump_user32_backtrace: bufhead[2] is copied, so *)
(* the frame head after this one must be readable too; the return address  *)
(* is reported only when the saved frame pointer moves up the stack.       *)
dump_user_backtrace(regs, head) ==
  IF \/ ~({head, head + 1} \subseteq regs.readable)
     \/ head >= regs.mem[head].ebp
  THEN [trace |-> <<>>, next |-> NULL]
  ELSE [trace |-> <<regs.mem[head].ret>>, next |-> regs.mem[head].ebp]

(* while (depth-- && valid_kernel_stack(head, regs)) head = dump_kernel... *)
X86KernelLoop(regs, head0, depth0) ==
  LET loop[head \in 0..MaxFrameAddr, depth \in 0..depth0] ==
        IF depth = 0 \/ ~valid_kernel_stack(head, regs.stack) THEN <<>>
        ELSE LET d == dump_kernel_backtrace(regs.mem, head)
             IN  d.trace \o loop[d.next, depth - 1]
  IN  loop[head0, depth0]

(* while (depth-- && head64) head64 = dump_user64_backtrace(head64) *)
X86UserLoop(regs, head0, depth0) ==
  LET loop[head \in 0..MaxFrameAddr, depth \in 0..depth0] ==
        IF depth = 0 \/ head = NULL THEN <<>>
        ELSE LET d == dump_user_backtrace(regs, head)
             IN  d.trace \o loop[d.next, depth - 1]
  IN  loop[head0, depth0]

x86_backtrace(regs, depth) ==
  IF ~regs.user THEN X86KernelLoop(regs, regs.fp, depth)
                ELSE X86UserLoop(regs, regs.fp, depth)

-----------------------------------------------------------------------------
(* powerpc *)

(* kernel_getsp: stop unless validate_sp accepts sp; report the saved LR   *)
(* of every frame but the first, if it is a kernel address; follow the    *)
(* back chain whatever its direction.                                      *)
kernel_getsp(regs, sp, is_first) ==
  IF sp \notin regs.kvalid THEN [trace |-> <<>>, next |-> NULL]
  ELSE [trace |-> IF ~is_first /\ regs.mem[sp].ret \in regs.ktext
                  THEN <<regs.mem[sp].ret>> ELSE <<>>,
        next  |-> regs.mem[sp].ebp]

(* user_getsp32 / user_getsp64: stop on a fault; report the saved LR of    *)
(* every frame but the first; follow the back chain.                       *)
user_getsp(regs, sp, is_first) ==
  IF sp \notin regs.readable THEN [trace |-> <<>>, next |-> NULL]
  ELSE [trace |-> IF is_first THEN <<>> ELSE <<regs.mem[sp].ret>>,
        next  |-> regs.mem[sp].ebp]

(* while (depth--) { sp = kernel_getsp(sp, first_frame); if (!sp) break;   *)
(* first_frame = 0; }                                                      *)
PpcKernelLoop(regs, sp0, depth0, first0) ==
  LET loop[sp \in 0..MaxFrameAddr, depth \in 0..depth0, first \in BOOLEAN] ==
        IF depth = 0 THEN <<>>
        ELSE LET g == kernel_getsp(regs, sp, first)
             IN  g.trace \o IF g.next = NULL THEN <<>>
                            ELSE loop[g.next, depth - 1, FALSE]
  IN  loop[sp0, depth0, first0]

(* The RRPROFILE user loop: the link register is reported in place of the  *)
(* first frame's saved LR, after the first frame is found to have a        *)
(* caller.                                                                 *)
PpcUserLoop(regs, sp0, depth0, first0) ==
  LET loop[sp \in 0..MaxFrameAddr, depth \in 0..depth0, first \in BOOLEAN] ==
        IF depth = 0 THEN <<>>
        ELSE LET g == user_getsp(regs, sp, first)
             IN  IF g.next = NULL THEN g.trace
                 ELSE g.trace \o (IF first THEN <<regs.lr>> ELSE <<>>)
                      \o loop[g.next, depth - 1, FALSE]
  IN  loop[sp0, depth0, first0]

(* Mutant: the user-mode frame skipped before the loop is not counted. *)
op_powerpc_backtrace_nodec(regs, depth0) ==
  LET depth == AsUInt(depth0 + 1)
  IN  IF ~regs.user THEN PpcKernelLoop(regs, regs.fp, depth, TRUE)
      ELSE IF depth = 0 THEN <<>>
      ELSE LET g0 == user_getsp(regs, regs.fp, TRUE)
           IN  IF g0.next = NULL THEN <<>>
               ELSE PpcUserLoop(regs, g0.next, depth, TRUE)

(* depth += 1 ditches the top frame; in user mode that frame is skipped    *)
(* once more before the loop (if (depth) { ...; depth--; }).               *)
op_powerpc_backtrace(regs, depth0) ==
  LET depth == AsUInt(depth0 + 1)
  IN  IF ~regs.user THEN PpcKernelLoop(regs, regs.fp, depth, TRUE)
      ELSE IF depth = 0 THEN <<>>
      ELSE LET g0 == user_getsp(regs, regs.fp, TRUE)
           IN  IF g0.next = NULL THEN <<>>
               ELSE PpcUserLoop(regs, g0.next, depth - 1, TRUE)

(* oprofile_ops.backtrace(regs, oprofile_backtrace_depth): the unsigned  *)
(* long depth is passed as an unsigned int.                               *)
Walk(arch, regs, depth) ==
  IF arch = "x86" THEN x86_backtrace(regs, AsUInt(depth))
                  ELSE op_powerpc_backtrace(regs, AsUInt(depth))

-----------------------------------------------------------------------------
(* The inputs the checks range over: every assignment of saved frame      *)
(* pointers to the frame heads, the return address saved at frame head a  *)
(* labelled a; readable user memory and validate_sp's range as intervals. *)
Stacks == {[a \in Addr |-> [ebp |-> e[a], ret |-> a]] : e \in [Addr -> 0..MaxFrameAddr]}

Intervals == {i..j : i, j \in Addr}

X86Regs ==
  {[user |-> FALSE, fp |-> fp, stack |-> st, lr |-> NULL, mem |-> m,
    readable |-> {}, kvalid |-> {}, ktext |-> {}] :
      fp \in 0..MaxFrameAddr, st \in 0..(ThreadSize - 1), m \in Stacks}
  \cup
  {[user |-> TRUE, fp |-> fp, stack |-> 0, lr |-> NULL, mem |-> m,
    readable |-> r, kvalid |-> {}, ktext |-> {}] :
      fp \in 0..MaxFrameAddr, r \in Intervals, m \in Stacks}

PpcRegs ==
  {[user |-> u, fp |-> fp, stack |-> 0, lr |-> NULL, mem |-> m,
    readable |-> Addr, kvalid |-> Addr, ktext |-> {a \in Addr : a % 2 = 1}] :
      u \in BOOLEAN, fp \in 0..MaxFrameAddr, m \in Stacks}

(* Reference: the frame chain from fp within Region, the least set of     *)
(* frame heads holding fp and closed under following a saved frame        *)
(* pointer that moves up the stack and stays in Region.                   *)
FrameChain(mem, fp, Region) ==
  IF fp \notin Region THEN {}
  ELSE LET Closed == {C \in SUBSET Region :
                        /\ fp \in C
                        /\ \A a \in C : mem[a].ebp > a /\ mem[a].ebp \in Region
                                          => mem[a].ebp \in C}
       IN  CHOOSE C \in Closed : \A D \in Closed : C \subseteq D

(* The kernel stack above the stack pointer: the rest of its THREAD_SIZE  *)
(* block.                                                                 *)
KernelRegion(stack) ==
  {a \in Addr : a > stack /\ a \div ThreadSize = stack \div ThreadSize}

(* User frame heads that can be copied together with the next one. *)
UserRegion(readable) == {a \in readable : a + 1 \in readable}

(* The return addresses of the lowest depth frames of a set of frames. *)
RetsOf(mem, frames, depth) ==
  LET s == SetToSortSeq(frames, <)
  IN  [i \in 1..(IF depth < Len(s) THEN depth ELSE Len(s)) |-> mem[s[i]].ret]

(* What an x86 walk reports: in kernel mode every frame of the chain, in  *)
(* user mode those whose saved frame pointer moves up the stack.          *)
ExpectedX86(regs, depth) ==
  IF ~regs.user
  THEN RetsOf(regs.mem, FrameChain(regs.mem, regs.fp, KernelRegion(regs.stack)), depth)
  ELSE LET C == FrameChain(regs.mem, regs.fp, UserRegion(regs.readable))
       IN  RetsOf(regs.mem, {a \in C : regs.mem[a].ebp > a}, depth)

-----------------------------------------------------------------------------
(* The checks at one value of oprofile_backtrace_depth (each the body of  *)
(* a property of MCSession, which states it at the configured depth).     *)
X86FollowsChainAt(depth) ==
  \A regs \in X86Regs :
    x86_backtrace(regs, AsUInt(depth)) = ExpectedX86(regs, depth)

PpcWithinDepthAt(depth) ==
  \A regs \in PpcRegs : Len(op_powerpc_backtrace(regs, AsUInt(depth))) <= depth

=============================================================================
