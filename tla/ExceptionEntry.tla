--------------------------- MODULE ExceptionEntry ---------------------------
(***************************************************************************)
(* How the guest kernel is entered and left: the vectors of exception.S,   *)
(* sync_handler of handler.c, _switch_to_user of arch_ops.s, and the       *)
(* kernel stack they share.                                                *)
(*                                                                         *)
(* A word is a triple: what it is, a register number, and the number of    *)
(* system calls made before the value was computed, so that a value that   *)
(* went into the wrong slot or comes from an older frame can be told       *)
(* apart.  depth is the number of words on the kernel stack; stack[depth]  *)
(* is what SP_EL1 points to.  A context begins at SP_EL1 when the handler  *)
(* is called, and its word number o is stack[depth - o].                   *)
(*                                                                         *)
(* Interrupts are masked in the kernel and have no source in user mode;    *)
(* no handler returns from an exception taken in the kernel, so            *)
(* exception_restore_half is never reached.                                *)
(***************************************************************************)
EXTENDS Integers

CONSTANTS
  LastReg,       \* the last register saved, x30
  StackWords,    \* words of _kernel_stack
  BaseWords,     \* words in use when schedule switches to the process
  HandlerWords,  \* words a handler and what it calls need at most
  MaxBlocks,     \* hypercalls the shared heap has blocks for, at most
  MaxCalls       \* bound on the number of system calls

ASSUME EntryAssumption ==
  /\ LastReg \in Nat \ {0} /\ LastReg % 2 = 0
  /\ BaseWords \in Nat \ {0, 1}
  /\ HandlerWords \in Nat
  /\ StackWords \in Nat /\ BaseWords <= StackWords
  /\ MaxBlocks \in Nat /\ MaxCalls \in Nat

VARIABLES
  mode,          \* who runs: the scheduler, the process, a handler, nobody
  cause,         \* of the exception being handled
  answered,      \* has the system call put its result into the context?
  x,             \* the registers of the process
  pc, sp_el0, flags,
  elr_el1, spsr_el1,   \* what the processor saved when it took the exception
  stack, depth,
  blocks,        \* hypercalls the shared heap still has blocks for
  calls,         \* system calls made
  caller         \* history: the process's state at its last system call

user == <<x, pc, sp_el0, flags>>
vars == <<mode, cause, answered, user, elr_el1, spsr_el1, stack, depth,
          blocks, calls, caller>>

Regs == 0 .. LastReg

(* context_t: spsr, elr, esr, zero, then x0 on, far and sp.                *)
Elr        == 1
X(n)       == 4 + n
Far        == X(LastReg) + 2
Sp         == Far + 1
FrameWords == Far         \* el1_excep_save_state saves neither far nor sp

Word(kind, n, age) == <<kind, n, age>>
Words ==
  {"x", "pc", "sp", "flags", "result", "kernel", "process"}
    \X Nat \X Nat

Kernel  == Word("kernel", 0, 0)       \* whatever kernel code leaves in a word
Result  == Word("result", 0, calls)

User == [x : [Regs -> Words], pc : Words, flags : Words, sp_el0 : Words]

TypeOK ==
  /\ mode \in {"scheduler", "user", "kernel", "ended", "overrun"}
  /\ cause \in {"none", "svc", "fault"}
  /\ answered \in BOOLEAN
  /\ [x |-> x, pc |-> pc, flags |-> flags, sp_el0 |-> sp_el0] \in User
  /\ elr_el1 \in Words /\ spsr_el1 \in Words
  /\ stack \in [1 .. StackWords -> Words]
  /\ depth \in BaseWords .. StackWords
  /\ blocks \in 0 .. MaxBlocks
  /\ calls \in 0 .. MaxCalls
  /\ caller \in User

(* schedule has found the process READY.  Nothing has set SPSR_EL1.        *)
Init ==
  /\ mode = "scheduler"
  /\ cause = "none"
  /\ answered = FALSE
  /\ x = [n \in Regs |-> Kernel]
  /\ pc = Kernel /\ sp_el0 = Kernel /\ flags = Kernel
  /\ elr_el1 = Kernel /\ spsr_el1 = Kernel
  /\ stack = [d \in 1 .. StackWords |-> Kernel]
  /\ depth = BaseWords
  /\ blocks \in 0 .. MaxBlocks
  /\ calls = 0
  /\ caller = [x |-> x, pc |-> pc, flags |-> flags, sp_el0 |-> sp_el0]

-----------------------------------------------------------------------------
(***************************************************************************)
(* _switch_to_user with a context.  Its first word is loaded and dropped:  *)
(* the line that follows reads spsr_el1 where it would have to write it.   *)
(***************************************************************************)
(* Mutant: the registers are taken from x[1] on.                           *)
SwitchToUserShifted(context) ==
  /\ mode' = "user"
  /\ x' = [n \in Regs |-> context[X(n) + 1]]
  /\ pc' = context[Elr]
  /\ flags' = spsr_el1
  /\ sp_el0' = context[Sp]
  /\ elr_el1' = context[Elr]
  /\ cause' = "none"
  /\ UNCHANGED spsr_el1

SwitchToUser(context) ==
  /\ mode' = "user"
  /\ x' = [n \in Regs |-> context[X(n)]]
  /\ pc' = context[Elr]
  /\ flags' = spsr_el1
  /\ sp_el0' = context[Sp]
  /\ elr_el1' = context[Elr]
  /\ cause' = "none"
  /\ UNCHANGED spsr_el1

ProcessContext == [o \in 0 .. Sp |-> Word("process", o, 0)]
StackContext   == [o \in 0 .. Sp |-> stack[depth - o]]

(* schedule calls it with the context create_new_process filled in.        *)
FirstSwitch ==
  /\ mode = "scheduler"
  /\ SwitchToUser(ProcessContext)
  /\ UNCHANGED <<answered, stack, depth, blocks, calls, caller>>

(* The process computes, and may move its stack pointer.                   *)
UserRuns ==
  /\ mode = "user"
  /\ x' = [n \in Regs |-> Word("x", n, calls)]
  /\ pc' = Word("pc", 0, calls)
  /\ flags' = Word("flags", 0, calls)
  /\ sp_el0' \in {sp_el0, Word("sp", 0, calls)}
  /\ UNCHANGED <<mode, cause, answered, elr_el1, spsr_el1, stack, depth,
                 blocks, calls, caller>>

(***************************************************************************)
(* An exception: the processor saves pc and flags, el1_excep_save_state    *)
(* pushes them and the registers where SP_EL1 is, with `at' words on the   *)
(* stack.  Where frame and handler have no room left, what lies below      *)
(* _kernel_stack is overwritten.                                           *)
(***************************************************************************)
Fits(at) == at + FrameWords + HandlerWords <= StackWords

Frame(psr, return, regs) ==
  [o \in 0 .. FrameWords - 1 |->
     CASE o = 0   -> psr
       [] o = Elr -> return
       [] o \in {2, 3} -> Kernel
       [] o \in {X(n) : n \in Regs} -> regs[o - 4]
       [] OTHER -> regs[LastReg]]

(* Words between depth and at are the C frames of an interrupted handler.  *)
Push(at, frame) ==
  [d \in 1 .. StackWords |->
     CASE d \in depth + 1 .. at -> Kernel
       [] d \in at + 1 .. at + FrameWords -> frame[at + FrameWords - d]
       [] OTHER -> stack[d]]

Enter(why, psr, return, regs, at) ==
  /\ elr_el1' = return
  /\ spsr_el1' = psr
  /\ cause' = why
  /\ answered' = FALSE
  /\ IF Fits(at)
     THEN /\ mode' = "kernel"
          /\ depth' = at + FrameWords
          /\ stack' = Push(at, Frame(psr, return, regs))
     ELSE mode' = "overrun" /\ UNCHANGED <<stack, depth>>

SystemCall ==
  /\ mode = "user"
  /\ calls < MaxCalls
  /\ Enter("svc", flags, pc, x, depth)
  /\ calls' = calls + 1
  /\ caller' = [x |-> x, pc |-> pc, flags |-> flags, sp_el0 |-> sp_el0]
  /\ UNCHANGED <<user, blocks>>

UserFault ==
  /\ mode = "user"
  /\ Enter("fault", flags, pc, x, depth)
  /\ UNCHANGED <<user, blocks, calls, caller>>

(* A fault of the kernel itself: curr_el_spx_sync pushes the same frame    *)
(* below whatever the interrupted handler and its callees have on the      *)
(* stack by then.                                                          *)
KernelFault ==
  /\ \E within \in 0 .. HandlerWords :
        Enter("fault", Kernel, Kernel, [n \in Regs |-> Kernel], depth + within)
  /\ UNCHANGED <<user, blocks, calls, caller>>

-----------------------------------------------------------------------------
(* Mutant: the case of a fault falls through to the one of a system call.  *)
HandlingFallingThrough(why) == mode = "kernel" /\ ~ answered

Handling(why) == mode = "kernel" /\ cause = why /\ ~ answered

Answer ==
  /\ stack' = [stack EXCEPT ![depth - X(0)] = Result]
  /\ answered' = TRUE
  /\ UNCHANGED <<mode, cause, user, elr_el1, spsr_el1, depth, calls, caller>>

(* A system call that is refused, or one the kernel passes on.             *)
AnswerLocally == Handling("svc") /\ Answer /\ UNCHANGED blocks

AnswerByHypercall ==
  /\ Handling("svc")
  /\ blocks > 0
  /\ Answer
  /\ blocks' = blocks - 1

(* A copy to or from the process leaves what is mapped.                    *)
CopyFaults == Handling("svc") /\ KernelFault

(* scalloc at the end of the shared heap: the pointer is an error number,  *)
(* io_hypercall tests it for < 0, which a pointer never is, and the heap   *)
(* writes through it.  This is so for the EXIT hypercall of a fault too,   *)
(* whose handler then makes the same hypercall.                            *)
(* Mutant: the last block of the heap is one too many.                     *)
HypercallFaultsEarly ==
  /\ mode = "kernel" /\ ~ answered
  /\ blocks <= 1
  /\ KernelFault

HypercallFaults ==
  /\ mode = "kernel" /\ ~ answered
  /\ blocks = 0
  /\ KernelFault

(* The process exits, or sync_handler ends the VM for what it cannot       *)
(* handle; only HVC_EXIT's answer could come back, and the VMM is gone.    *)
ExitHypercall ==
  /\ mode = "kernel" /\ ~ answered
  /\ blocks > 0
  /\ mode' = "ended"
  /\ UNCHANGED <<cause, answered, user, elr_el1, spsr_el1, stack, depth,
                 blocks, calls, caller>>

(* lower_el_aarch64_sync goes on to _switch_to_user with SP_EL1 where      *)
(* the frame begins, and nothing ever moves SP_EL1 back.                   *)
(* Mutant: the frame is popped without its last pair.                      *)
ReturnToUserPopping ==
  /\ mode = "kernel" /\ answered
  /\ SwitchToUser(StackContext)
  /\ depth' = depth - FrameWords - 2
  /\ UNCHANGED <<answered, stack, blocks, calls, caller>>

ReturnToUser ==
  /\ mode = "kernel" /\ answered
  /\ SwitchToUser(StackContext)
  /\ UNCHANGED <<answered, stack, depth, blocks, calls, caller>>

Handler ==
  AnswerLocally \/ AnswerByHypercall \/ CopyFaults \/ HypercallFaults
    \/ ExitHypercall \/ ReturnToUser

Next == FirstSwitch \/ UserRuns \/ SystemCall \/ UserFault \/ Handler

(* The kernel's thread goes on; the process may loop without a call.       *)
Spec == Init /\ [][Next]_vars /\ WF_vars(FirstSwitch) /\ WF_vars(Handler)

-----------------------------------------------------------------------------
(* A system call comes back to where it was made: pc, flags and every      *)
(* register but x0 are what the process had, x0 is the result of this      *)
(* call and not of an older one (save, dispatch and restore use three      *)
(* different descriptions of the same frame).                              *)
CallReturnsToCaller ==
  [][ mode = "kernel" /\ mode' = "user" =>
        /\ x' = [caller.x EXCEPT ![0] = Result]
        /\ pc' = caller.pc
        /\ flags' = caller.flags ]_vars

(* Each call leaves its frame on the kernel stack.  The stack is overrun   *)
(* only by the call after the last that has room; by a fault after it, or  *)
(* in the call before, where the interrupted handler needs room as well;   *)
(* or, with the shared heap used up, by faults that each raise the next.   *)
OverrunExplained ==
  mode = "overrun" =>
    \/ /\ cause = "svc"
       /\ BaseWords + calls * FrameWords + HandlerWords > StackWords
    \/ /\ cause = "fault"
       /\ BaseWords + (calls + 1) * FrameWords + 2 * HandlerWords > StackWords
    \/ cause = "fault" /\ blocks = 0

(* A fault ends the VM as long as the shared heap has a block for the EXIT *)
(* hypercall and the stack room for its handler.                           *)
FaultEndsVM ==
  mode = "kernel" /\ cause = "fault" /\ blocks > 0 ~> mode = "ended"

(* The kernel's context_t says where the process's stack pointer is kept   *)
(* (arch_ops.s:9) and _switch_to_user puts it back: the process has the    *)
(* stack pointer it made the call with.                                    *)
UserStackComesBack ==
  [][ mode = "kernel" /\ mode' = "user" => sp_el0' = caller.sp_el0 ]_vars
=============================================================================
