------------------------ MODULE ExceptionEntryProofs ------------------------
(***************************************************************************)
(* For every number of registers, every size of the kernel stack and of    *)
(* the shared heap, and any number of system calls: a system call comes    *)
(* back to its caller with its own result, and the kernel stack is overrun *)
(* only for the reasons OverrunExplained names.                            *)
(***************************************************************************)
EXTENDS ExceptionEntry, TLAPS

(* The frame sync_handler is called with is the one the last exception     *)
(* pushed, so a handler never reaches below the first frame.               *)
FrameOnStack == mode = "kernel" => depth >= BaseWords + FrameWords

(* While a system call is handled, what _switch_to_user will load is what  *)
(* the process had when it made the call, except for the answer in x0.     *)
CallerSaved ==
  mode = "kernel" /\ cause = "svc" =>
    /\ spsr_el1 = caller.flags
    /\ stack[depth - Elr] = caller.pc
    /\ \A n \in Regs : stack[depth - X(n)] =
                         IF n = 0 /\ answered THEN Result ELSE caller.x[n]

(* Only a system call is answered: a handler of a fault never returns.     *)
AnsweredIsCall == mode = "kernel" /\ answered => cause = "svc"

(* As long as no fault is being handled, the stack holds one frame for     *)
(* every system call made.                                                 *)
DepthCountsCalls ==
  mode \in {"scheduler", "user"} \/ (mode = "kernel" /\ cause = "svc")
    => depth = BaseWords + calls * FrameWords

IInv == /\ TypeOK
        /\ FrameOnStack
        /\ CallerSaved
        /\ AnsweredIsCall
        /\ DepthCountsCalls
        /\ OverrunExplained

-----------------------------------------------------------------------------
(* The layout of the frame, in numbers.                                    *)
LEMMA Layout ==
  /\ LastReg \in Nat \ {0}
  /\ FrameWords = LastReg + 6
  /\ Sp = LastReg + 7
  /\ Elr = 1
  /\ Elr \in 0 .. FrameWords - 1
  /\ Regs = 0 .. LastReg
  /\ LastReg \in Regs /\ 0 \in Regs
  /\ \A n \in Regs : X(n) \in 4 .. FrameWords - 1 /\ X(n) - 4 = n /\ n \in Nat
<1>1. FrameWords = LastReg + 6 /\ Sp = LastReg + 7 /\ LastReg \in Nat \ {0}
  BY EntryAssumption DEF FrameWords, Far, Sp, X
<1>2. ASSUME NEW n \in Regs
      PROVE  X(n) \in 4 .. FrameWords - 1 /\ X(n) - 4 = n /\ n \in Nat
  BY <1>1 DEF X, Regs
<1> QED
  BY <1>1, <1>2 DEF Elr, Regs

(* Where el1_excep_save_state puts what _switch_to_user loads.             *)
LEMMA FrameHolds ==
  ASSUME NEW psr \in Words, NEW return \in Words, NEW regs \in [Regs -> Words]
  PROVE  LET f == Frame(psr, return, regs)
         IN  /\ f \in [0 .. FrameWords - 1 -> Words]
             /\ f[0] = psr
             /\ f[Elr] = return
             /\ \A n \in Regs : f[X(n)] = regs[n]
<1> DEFINE f == Frame(psr, return, regs)
<1>1. DOMAIN f = 0 .. FrameWords - 1
  BY DEF Frame
<1>2. f[0] = psr /\ f[Elr] = return
  BY Layout DEF Frame
<1>3. ASSUME NEW n \in Regs
      PROVE  f[X(n)] = regs[n]
  <2>1. X(n) \in 4 .. FrameWords - 1 /\ X(n) - 4 = n
    BY Layout
  <2> QED
    BY <2>1, Layout DEF Frame
<1>4. ASSUME NEW o \in 0 .. FrameWords - 1
      PROVE  f[o] \in Words
  <2>1. Kernel \in Words
    BY DEF Kernel, Word, Words
  <2>2. CASE o \in {X(n) : n \in Regs}
    BY <1>3, <2>2
  <2>3. CASE o \notin {X(n) : n \in Regs}
    <3>1. regs[LastReg] \in Words
      BY Layout
    <3> QED
      BY <2>1, <2>3, <3>1, Layout DEF Frame
  <2> QED
    BY <2>2, <2>3
<1> HIDE DEF f
<1>5. f = [o \in 0 .. FrameWords - 1 |-> f[o]]
  BY <1>1 DEF f, Frame
<1> QED
  BY <1>1, <1>2, <1>3, <1>4, <1>5 DEF f

(* A word made by the process or the kernel is a word.                     *)
LEMMA WordTypes ==
  ASSUME TypeOK
  PROVE  /\ Kernel \in Words
         /\ Result \in Words
         /\ \A n \in Nat : /\ Word("x", n, calls) \in Words
                           /\ Word("process", n, 0) \in Words
         /\ Word("pc", 0, calls) \in Words
         /\ Word("flags", 0, calls) \in Words
         /\ Word("sp", 0, calls) \in Words
<1>1. calls \in Nat
  BY EntryAssumption DEF TypeOK
<1> QED
  BY <1>1 DEF Word, Words, Kernel, Result

(* The fields of the history variable and the registers.                   *)
LEMMA UserTypes ==
  ASSUME TypeOK
  PROVE  /\ x \in [Regs -> Words] /\ pc \in Words
         /\ flags \in Words /\ sp_el0 \in Words
         /\ caller.x \in [Regs -> Words]
         /\ caller.pc \in Words /\ caller.flags \in Words
  BY DEF TypeOK, User

LEMMA InitIInv == Init => IInv
<1> SUFFICES ASSUME Init PROVE IInv
  OBVIOUS
<1>1. Kernel \in Words
  BY DEF Kernel, Word, Words
<1>2. [x |-> x, pc |-> pc, flags |-> flags, sp_el0 |-> sp_el0] \in User
  BY <1>1 DEF Init, User
<1>3. TypeOK
  <2>1. caller \in User
    BY <1>2 DEF Init
  <2>2. depth \in BaseWords .. StackWords /\ calls \in 0 .. MaxCalls
    BY EntryAssumption DEF Init
  <2> QED
    BY <1>1, <1>2, <2>1, <2>2 DEF Init, TypeOK
<1> QED
  BY <1>3, Layout, EntryAssumption
     DEF Init, IInv, FrameOnStack, CallerSaved, AnsweredIsCall,
         DepthCountsCalls, OverrunExplained

(* _switch_to_user loads a whole process from any context.                 *)
LEMMA SwitchTypes ==
  ASSUME TypeOK, NEW context \in [0 .. Sp -> Words], SwitchToUser(context)
  PROVE  /\ mode' = "user" /\ cause' = "none"
         /\ [x |-> x, pc |-> pc, flags |-> flags, sp_el0 |-> sp_el0]' \in User
         /\ elr_el1' \in Words /\ spsr_el1' \in Words
<1>1. x' \in [Regs -> Words]
  <2>1. \A n \in Regs : context[X(n)] \in Words
    BY Layout
  <2> QED
    BY <2>1 DEF SwitchToUser
<1>2. pc' \in Words /\ flags' \in Words /\ sp_el0' \in Words /\ elr_el1' \in Words
  BY Layout DEF SwitchToUser, TypeOK
<1> QED
  BY <1>1, <1>2 DEF SwitchToUser, User, TypeOK

(* What an exception leaves: the stack is well formed, and when the frame  *)
(* fits, the handler finds the interrupted state in it.                    *)
LEMMA EnterPushes ==
  ASSUME TypeOK, NEW why \in {"svc", "fault"},
         NEW psr \in Words, NEW return \in Words, NEW regs \in [Regs -> Words],
         NEW at \in Nat, at >= depth,
         Enter(why, psr, return, regs, at)
  PROVE  /\ mode' \in {"kernel", "overrun"} /\ cause' = why /\ answered' = FALSE
         /\ elr_el1' \in Words /\ spsr_el1' = psr
         /\ stack' \in [1 .. StackWords -> Words]
         /\ depth' \in BaseWords .. StackWords
         /\ mode' = "kernel" =>
              /\ depth' = at + FrameWords
              /\ stack'[depth' - Elr] = return
              /\ \A n \in Regs : stack'[depth' - X(n)] = regs[n]
         /\ mode' = "overrun" =>
              at + FrameWords + HandlerWords > StackWords
<1> DEFINE f == Frame(psr, return, regs)
<1>1. CASE Fits(at)
  <2>1. at + FrameWords \in BaseWords .. StackWords /\ depth \in Nat
    BY <1>1, Layout, EntryAssumption DEF Fits, TypeOK
  <2>2. mode' = "kernel" /\ depth' = at + FrameWords
    BY <1>1 DEF Enter
  <2>3. stack' = Push(at, f)
    BY <1>1 DEF Enter
  <2>4. /\ f \in [0 .. FrameWords - 1 -> Words]
        /\ f[Elr] = return
        /\ \A n \in Regs : f[X(n)] = regs[n]
    BY FrameHolds
  <2> HIDE DEF f
  <2>5. \A d \in at + 1 .. at + FrameWords :
          /\ at + FrameWords - d \in 0 .. FrameWords - 1
          /\ d \in 1 .. StackWords /\ d \notin depth + 1 .. at
    BY <2>1, Layout, EntryAssumption DEF TypeOK
  <2>6. stack' \in [1 .. StackWords -> Words]
    <3>1. Kernel \in Words
      BY WordTypes
    <3>2. ASSUME NEW d \in 1 .. StackWords
          PROVE  Push(at, f)[d] \in Words
      <4>1. CASE d \in depth + 1 .. at
        BY <3>1, <4>1, <2>5 DEF Push
      <4>2. CASE d \in at + 1 .. at + FrameWords
        BY <2>4, <2>5, <4>2 DEF Push
      <4>3. CASE d \notin depth + 1 .. at /\ d \notin at + 1 .. at + FrameWords
        BY <4>3 DEF Push, TypeOK
      <4> QED
        BY <4>1, <4>2, <4>3
    <3>3. Push(at, f) = [d \in 1 .. StackWords |-> Push(at, f)[d]]
      BY DEF Push
    <3> QED
      BY <2>3, <3>2, <3>3
  <2>7. ASSUME NEW o \in 0 .. FrameWords - 1
        PROVE  stack'[depth' - o] = f[o]
    <3>1. /\ depth' - o \in at + 1 .. at + FrameWords
          /\ at + FrameWords - (depth' - o) = o
      BY <2>1, <2>2, Layout
    <3> QED
      BY <2>3, <2>5, <3>1 DEF Push
  <2>8. \A n \in Regs : stack'[depth' - X(n)] = regs[n]
    BY <2>4, <2>7, Layout
  <2>9. stack'[depth' - Elr] = return
    BY <2>4, <2>7, Layout
  <2> QED
    BY <1>1, <2>1, <2>2, <2>6, <2>8, <2>9 DEF Enter
<1>2. CASE ~ Fits(at)
  BY <1>2, Layout, EntryAssumption DEF Fits, Enter, TypeOK
<1> QED
  BY <1>1, <1>2

(* The frame of one more call, counted.                                    *)
LEMMA OneMoreFrame ==
  ASSUME NEW n \in Nat
  PROVE  /\ n * FrameWords \in Nat
         /\ (n + 1) * FrameWords = n * FrameWords + FrameWords
  BY Layout

(* A fault, of the process or of the kernel, is never returned from: it    *)
(* only has to find the stack as deep as the calls made explain, apart     *)
(* from the handler it interrupts, or the shared heap used up.             *)
LEMMA FaultPreserves ==
  ASSUME IInv,
         NEW psr \in Words, NEW return \in Words, NEW regs \in [Regs -> Words],
         NEW within \in 0 .. HandlerWords,
         Enter("fault", psr, return, regs, depth + within),
         UNCHANGED <<user, blocks, calls, caller>>,
         depth = BaseWords + calls * FrameWords \/ blocks = 0
  PROVE  IInv'
<1>1. TypeOK /\ calls \in Nat /\ depth \in Nat /\ depth >= BaseWords
  BY EntryAssumption DEF IInv, TypeOK
<1>2. depth + within \in Nat /\ depth + within >= depth
  BY <1>1, EntryAssumption
<1>3. /\ mode' \in {"kernel", "overrun"} /\ cause' = "fault" /\ answered' = FALSE
      /\ elr_el1' \in Words /\ spsr_el1' = psr
      /\ stack' \in [1 .. StackWords -> Words]
      /\ depth' \in BaseWords .. StackWords
      /\ mode' = "kernel" => depth' = depth + within + FrameWords
      /\ mode' = "overrun" =>
           depth + within + FrameWords + HandlerWords > StackWords
  BY <1>1, <1>2, EnterPushes
<1>4. TypeOK'
  BY <1>1, <1>3 DEF TypeOK, user
<1>5. FrameOnStack'
  BY <1>1, <1>2, <1>3, Layout, EntryAssumption DEF FrameOnStack
<1>6. CallerSaved' /\ AnsweredIsCall' /\ DepthCountsCalls'
  BY <1>3 DEF CallerSaved, AnsweredIsCall, DepthCountsCalls
<1>7. OverrunExplained'
  <2>1. CASE blocks = 0
    BY <1>3, <2>1 DEF OverrunExplained
  <2>2. CASE depth = BaseWords + calls * FrameWords
    <3>1. /\ calls * FrameWords \in Nat /\ FrameWords \in Nat
          /\ (calls + 1) * FrameWords = calls * FrameWords + FrameWords
      BY <1>1, OneMoreFrame, Layout
    <3>2. ASSUME depth + within + FrameWords + HandlerWords > StackWords
          PROVE  BaseWords + (calls + 1) * FrameWords + 2 * HandlerWords
                   > StackWords
      BY <1>1, <2>2, <3>1, <3>2, EntryAssumption
    <3> QED
      BY <1>3, <3>2 DEF OverrunExplained
  <2> QED
    BY <2>1, <2>2
<1> QED
  BY <1>4, <1>5, <1>6, <1>7 DEF IInv

(* A system call leaves the process's state in its frame.                  *)
LEMMA SystemCallPreserves == IInv /\ SystemCall => IInv'
<1> SUFFICES ASSUME IInv, SystemCall PROVE IInv'
  OBVIOUS
<1>1. /\ TypeOK /\ calls \in Nat /\ depth \in Nat
      /\ depth = BaseWords + calls * FrameWords
      /\ calls' = calls + 1 /\ calls' \in 0 .. MaxCalls
  BY EntryAssumption DEF IInv, TypeOK, DepthCountsCalls, SystemCall
<1>2. /\ x \in [Regs -> Words] /\ pc \in Words /\ flags \in Words
      /\ caller' = [x |-> x, pc |-> pc, flags |-> flags, sp_el0 |-> sp_el0]
      /\ Enter("svc", flags, pc, x, depth) /\ depth >= depth
  BY <1>1, UserTypes DEF SystemCall
<1>3. /\ mode' \in {"kernel", "overrun"} /\ cause' = "svc" /\ answered' = FALSE
      /\ elr_el1' \in Words /\ spsr_el1' = flags
      /\ stack' \in [1 .. StackWords -> Words]
      /\ depth' \in BaseWords .. StackWords
      /\ mode' = "kernel" =>
           /\ depth' = depth + FrameWords
           /\ stack'[depth' - Elr] = pc
           /\ \A n \in Regs : stack'[depth' - X(n)] = x[n]
      /\ mode' = "overrun" => depth + FrameWords + HandlerWords > StackWords
  BY <1>1, <1>2, EnterPushes
<1>4. TypeOK'
  BY <1>1, <1>2, <1>3 DEF TypeOK, SystemCall, user
<1>5. FrameOnStack'
  BY <1>1, <1>3, OneMoreFrame, Layout, EntryAssumption DEF FrameOnStack
<1>6. DepthCountsCalls'
  <2>1. calls' * FrameWords = calls * FrameWords + FrameWords
    BY <1>1, OneMoreFrame
  <2>2. mode' = "kernel" => depth' = BaseWords + calls' * FrameWords
    <3>1. calls * FrameWords \in Nat
      BY <1>1, OneMoreFrame
    <3>2. mode' = "kernel" => depth' = depth + FrameWords
      BY <1>3
    <3> QED
      BY <1>1, <2>1, <3>1, <3>2, Layout, EntryAssumption
  <2> QED
    BY <1>3, <2>2 DEF DepthCountsCalls
<1>7. CallerSaved'
  BY <1>2, <1>3 DEF CallerSaved
<1>8. AnsweredIsCall'
  BY <1>3 DEF AnsweredIsCall
<1>9. OverrunExplained'
  <2>1. calls' * FrameWords = calls * FrameWords + FrameWords
        /\ calls * FrameWords \in Nat
    BY <1>1, OneMoreFrame
  <2> QED
    BY <1>1, <1>3, <2>1, OneMoreFrame, Layout, EntryAssumption
       DEF OverrunExplained
<1> QED
  BY <1>4, <1>5, <1>6, <1>7, <1>8, <1>9 DEF IInv

(* Putting the result into the context changes no other slot of it: the    *)
(* slots of different registers are different words.                       *)
LEMMA AnswerPreserves ==
  ASSUME IInv, mode = "kernel", cause = "svc", Answer,
         blocks' \in 0 .. MaxBlocks
  PROVE  IInv'
<1>1. TypeOK /\ FrameOnStack /\ depth \in Nat
  BY EntryAssumption DEF IInv, TypeOK
<1>2. \A o \in 0 .. FrameWords - 1 : depth - o \in 1 .. StackWords
  BY <1>1, Layout, EntryAssumption DEF FrameOnStack, TypeOK
<1>3. /\ 0 \in Regs /\ X(0) \in 0 .. FrameWords - 1
      /\ Elr \in 0 .. FrameWords - 1 /\ X(0) # Elr
      /\ \A n \in Regs : X(n) \in 0 .. FrameWords - 1 /\ (X(n) = X(0) <=> n = 0)
  BY Layout
<1>4. stack' = [stack EXCEPT ![depth - X(0)] = Result] /\ Result \in Words
  BY <1>1, WordTypes DEF Answer
<1>5. TypeOK'
  BY <1>1, <1>4 DEF TypeOK, Answer, user
<1>6. CallerSaved'
  <2>1. stack'[depth - Elr] = stack[depth - Elr]
    BY <1>1, <1>2, <1>3, <1>4 DEF TypeOK
  <2>2. stack'[depth - X(0)] = Result
    BY <1>1, <1>2, <1>3, <1>4 DEF TypeOK
  <2>3. ASSUME NEW n \in Regs, n # 0
        PROVE  stack'[depth - X(n)] = stack[depth - X(n)]
    <3>1. depth - X(n) # depth - X(0)
      BY <1>1, <1>3, <2>3
    <3> QED
      BY <1>1, <1>2, <1>3, <1>4, <3>1 DEF TypeOK
  <2>4. answered' = TRUE /\ UNCHANGED <<depth, caller, spsr_el1, calls>>
    BY DEF Answer
  <2> QED
    BY <2>1, <2>2, <2>3, <2>4 DEF IInv, CallerSaved, Result
<1>7. FrameOnStack' /\ AnsweredIsCall' /\ DepthCountsCalls' /\ OverrunExplained'
  BY DEF IInv, FrameOnStack, AnsweredIsCall, DepthCountsCalls,
         OverrunExplained, Answer
<1> QED
  BY <1>5, <1>6, <1>7 DEF IInv

(* The context a handler returns with lies on the stack.                   *)
LEMMA StackContextTypes ==
  ASSUME IInv, mode = "kernel"
  PROVE  /\ StackContext \in [0 .. Sp -> Words]
         /\ \A o \in 0 .. Sp : StackContext[o] = stack[depth - o]
<1>1. \A o \in 0 .. Sp : depth - o \in 1 .. StackWords
  BY Layout, EntryAssumption DEF IInv, FrameOnStack, TypeOK
<1> QED
  BY <1>1 DEF StackContext, IInv, TypeOK

(* Leaving the kernel, for the first time or again, changes only what the  *)
(* process sees.                                                           *)
LEMMA SwitchPreserves ==
  ASSUME IInv, NEW context \in [0 .. Sp -> Words], SwitchToUser(context),
         UNCHANGED <<answered, stack, depth, blocks, calls, caller>>,
         depth = BaseWords + calls * FrameWords
  PROVE  IInv'
<1>1. TypeOK'
  <2>1. /\ mode' = "user" /\ cause' = "none"
        /\ [x |-> x, pc |-> pc, flags |-> flags, sp_el0 |-> sp_el0]' \in User
        /\ elr_el1' \in Words /\ spsr_el1' \in Words
    BY SwitchTypes DEF IInv
  <2> QED
    BY <2>1 DEF IInv, TypeOK
<1> QED
  BY <1>1 DEF IInv, FrameOnStack, CallerSaved, AnsweredIsCall,
              DepthCountsCalls, OverrunExplained, SwitchToUser

(* Every step of the process and of the kernel preserves IInv.             *)
LEMMA NextIInv == IInv /\ [Next]_vars => IInv'
<1> SUFFICES ASSUME IInv, [Next]_vars PROVE IInv'
  OBVIOUS
<1>1. TypeOK /\ Kernel \in Words /\ calls \in Nat
  BY WordTypes, EntryAssumption DEF IInv, TypeOK
<1>2. CASE FirstSwitch
  <2>1. \A o \in 0 .. Sp : Word("process", o, 0) \in Words
    BY <1>1, WordTypes, Layout
  <2>2. ProcessContext \in [0 .. Sp -> Words]
    BY <2>1 DEF ProcessContext
  <2> QED
    BY <1>2, <2>2, SwitchPreserves DEF FirstSwitch, IInv, DepthCountsCalls
<1>3. CASE UserRuns
  <2>1. /\ \A n \in Regs : Word("x", n, calls) \in Words
        /\ Word("pc", 0, calls) \in Words
        /\ Word("flags", 0, calls) \in Words
        /\ Word("sp", 0, calls) \in Words
        /\ sp_el0 \in Words
    BY <1>1, WordTypes, UserTypes, Layout
  <2>2. /\ x' \in [Regs -> Words] /\ pc' \in Words
        /\ flags' \in Words /\ sp_el0' \in Words
    BY <1>3, <2>1 DEF UserRuns
  <2>3. [x |-> x, pc |-> pc, flags |-> flags, sp_el0 |-> sp_el0]' \in User
    BY <2>2 DEF User
  <2>4. TypeOK'
    BY <1>1, <1>3, <2>3 DEF TypeOK, UserRuns
  <2> QED
    BY <1>3, <2>4 DEF IInv, FrameOnStack, CallerSaved, AnsweredIsCall,
                      DepthCountsCalls, OverrunExplained, UserRuns
<1>4. CASE SystemCall
  BY <1>4, SystemCallPreserves
<1>5. CASE UserFault
  <2>1. depth = BaseWords + calls * FrameWords
    BY <1>5 DEF IInv, DepthCountsCalls, UserFault
  <2>2. x \in [Regs -> Words] /\ pc \in Words /\ flags \in Words
    BY <1>1, UserTypes
  <2>3. 0 \in 0 .. HandlerWords /\ depth + 0 = depth
    BY <1>1, EntryAssumption DEF TypeOK
  <2> QED
    BY <1>5, <2>1, <2>2, <2>3, FaultPreserves DEF UserFault
<1>6. ASSUME KernelFault, depth = BaseWords + calls * FrameWords \/ blocks = 0
      PROVE  IInv'
  <2>1. [n \in Regs |-> Kernel] \in [Regs -> Words]
    BY <1>1
  <2> QED
    BY <1>1, <1>6, <2>1, FaultPreserves DEF KernelFault
<1>7. CASE Handler
  <2>1. CASE AnswerLocally
    BY <1>1, <2>1, AnswerPreserves DEF AnswerLocally, Handling, TypeOK
  <2>2. CASE AnswerByHypercall
    <3>1. blocks' \in 0 .. MaxBlocks
      BY <1>1, <2>2, EntryAssumption DEF AnswerByHypercall, TypeOK
    <3> QED
      BY <2>2, <3>1, AnswerPreserves DEF AnswerByHypercall, Handling
  <2>3. CASE CopyFaults
    BY <1>6, <2>3 DEF CopyFaults, Handling, IInv, DepthCountsCalls
  <2>4. CASE HypercallFaults
    BY <1>6, <2>4 DEF HypercallFaults
  <2>5. CASE ExitHypercall
    BY <2>5 DEF ExitHypercall, IInv, TypeOK, user, FrameOnStack, CallerSaved,
                AnsweredIsCall, DepthCountsCalls, OverrunExplained
  <2>6. CASE ReturnToUser
    BY <2>6, StackContextTypes, SwitchPreserves
       DEF ReturnToUser, IInv, AnsweredIsCall, DepthCountsCalls
  <2> QED
    BY <1>7, <2>1, <2>2, <2>3, <2>4, <2>5, <2>6 DEF Handler
<1>8. CASE UNCHANGED vars
  BY <1>8 DEF vars, user, IInv, TypeOK, FrameOnStack, CallerSaved,
              AnsweredIsCall, DepthCountsCalls, OverrunExplained, Result
<1> QED
  BY <1>2, <1>3, <1>4, <1>5, <1>7, <1>8 DEF Next

LEMMA Invariant == Spec => []IInv
  BY InitIInv, NextIInv, PTL DEF Spec

-----------------------------------------------------------------------------
(* Registers, saved state, stack and counters keep their types; the stack  *)
(* pointer stays within _kernel_stack.                                     *)
THEOREM TypeCorrect == Spec => []TypeOK
<1>1. IInv => TypeOK
  BY DEF IInv
<1> QED
  BY Invariant, <1>1, PTL

(* _kernel_stack is overrun only by the call after the last that has room, *)
(* by a fault where the frame and the handler it interrupts take the rest, *)
(* or by faults that nest because the shared heap is used up.              *)
THEOREM Overrun == Spec => []OverrunExplained
<1>1. IInv => OverrunExplained
  BY DEF IInv
<1> QED
  BY Invariant, <1>1, PTL

(* What lower_el_aarch64_sync restores is what it saved, and x0 holds the  *)
(* result sync_handler gave to this very call.                             *)
LEMMA ReturnRestores ==
  IInv /\ [Next]_vars =>
    (mode = "kernel" /\ mode' = "user" =>
       /\ x' = [caller.x EXCEPT ![0] = Result]
       /\ pc' = caller.pc
       /\ flags' = caller.flags)
<1> SUFFICES ASSUME IInv, [Next]_vars, mode = "kernel", mode' = "user"
             PROVE  /\ x' = [caller.x EXCEPT ![0] = Result]
                    /\ pc' = caller.pc
                    /\ flags' = caller.flags
  OBVIOUS
<1>1. ReturnToUser
  BY DEF Next, vars, FirstSwitch, UserRuns, SystemCall, UserFault, Handler,
         AnswerLocally, AnswerByHypercall, Answer, CopyFaults,
         HypercallFaults, KernelFault, Enter, ExitHypercall
<1>2. /\ answered /\ cause = "svc"
      /\ spsr_el1 = caller.flags
      /\ stack[depth - Elr] = caller.pc
      /\ \A n \in Regs : stack[depth - X(n)] =
                            IF n = 0 THEN Result ELSE caller.x[n]
  BY <1>1 DEF ReturnToUser, IInv, AnsweredIsCall, CallerSaved
<1>3. /\ Elr \in 0 .. Sp
      /\ \A n \in Regs : X(n) \in 0 .. Sp
  BY Layout
<1>4. /\ pc' = stack[depth - Elr] /\ flags' = spsr_el1
      /\ x' = [n \in Regs |-> stack[depth - X(n)]]
  BY <1>1, <1>3, StackContextTypes DEF ReturnToUser, SwitchToUser
<1>5. caller.x \in [Regs -> Words]
  BY UserTypes DEF IInv
<1>6. x' = [caller.x EXCEPT ![0] = Result]
  BY <1>2, <1>4, <1>5
<1> QED
  BY <1>2, <1>4, <1>6

(* A system call comes back to where it was made, with every register but  *)
(* x0 as it was and x0 the result of this call.                            *)
THEOREM CallReturns == Spec => CallReturnsToCaller
  BY Invariant, ReturnRestores, PTL DEF Spec, CallReturnsToCaller
=============================================================================
