----------------------------- MODULE MCSession -----------------------------
(* Session with the counter configuration given as a sequence: one        *)
(* enabled counter whose count can be decayed once before the cap; and    *)
(* the backtrace walkers of StackWalk, run at the depth the session has    *)
(* configured (oprofile_backtrace_depth, set by oprofile_init and          *)
(* depth_write).                                                           *)
EXTENDS Session, StackWalk

MCCounterCounts == <<21474837>>

(* The walker checks at every depth the session can hold, tabulated so   *)
(* that each depth's check is evaluated once.                            *)
Depths == {DefaultDepth} \cup DepthValues
X86ChainAt == [d \in Depths |-> X86FollowsChainAt(d)]
PpcBoundAt == [d \in Depths |-> PpcWithinDepthAt(d)]

(* At the configured depth, x86_backtrace follows the frame-pointer       *)
(* chain exactly: for every stack it passes to oprofile_add_trace the     *)
(* return addresses of the chain's frames from the interrupted frame      *)
(* upwards, each frame once, cut at the depth; a saved frame pointer that *)
(* does not move up the stack, or leaves the kernel stack or readable     *)
(* user memory, ends the walk (dump_kernel_backtrace,                     *)
(* dump_user64/32_backtrace, valid_kernel_stack, the unsigned int depth). *)
X86WalksFollowFrameChain == X86ChainAt[oprofile_backtrace_depth]

(* At the configured depth, op_powerpc_backtrace reports no more return   *)
(* addresses than the depth. It follows the back chain without a          *)
(* direction check (kernel_getsp, user_getsp32/64), so over a looping     *)
(* chain only its depth arithmetic bounds the walk: depth += 1 for the    *)
(* ditched top frame, the user-mode frame skipped before the loop, and    *)
(* the link register reported in place of the first frame's saved LR.     *)
PpcWalksWithinDepth == PpcBoundAt[oprofile_backtrace_depth]

=============================================================================
