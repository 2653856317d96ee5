------------------------------ MODULE Syscalls ------------------------------
(***************************************************************************)
(* System calls of the one user process: from the process through the      *)
(* sys_* functions of kernel/syscall.c and the process's file descriptors  *)
(* to handle_hypercall in the VMM (main.rs) and the VMM's own descriptors, *)
(* and back.                                                               *)
(*                                                                         *)
(* A hypercall is a call of RemoteCall, which HypercallChannel implements. *)
(* hvc_args[0] is the code of a request, hvc_args[i] its args[i].  Paths,  *)
(* flags and buffer addresses are abstracted to 0.  The shared heap is     *)
(* assumed not to run out: see KernelHeap for when it does.                *)
(***************************************************************************)
EXTENDS Integers, Sequences, FiniteSets, FdTable

CONSTANTS
  UserFds,       \* descriptors the process names
  LastHostFd,    \* the highest descriptor the VMM may have open
  FileLength,    \* bytes in a host file, as open finds it
  Counts,        \* byte counts the process asks for
  ExitValues,    \* statuses the process exits with
  None

HostFds == 0 .. LastHostFd

Pid == 1                            \* the first of allocate_pid

ENOENT == 2
ENOMEM == 12
EINVAL == 22
ENOSYS == 88

(* Where a user buffer lies: all of it mapped, its first page only, or     *)
(* nothing of it.                                                          *)
Buffers == {"mapped", "straddling", "unmapped"}

VARIABLES
  phase, request, reply,   \* the hypercall in progress (RemoteCall)
  call,          \* the system call or fault being handled by the kernel
  x0,            \* what the last system call returned to the process
  fd_table,      \* kernel_struct.fd_head and the list behind it
  host,          \* what each descriptor of the VMM names
  left,          \* bytes before the end of file, per descriptor
  total,         \* bytes hypercall_read has got for the last read
  status         \* what the VMM exited with

channel == <<phase, request, reply>>
vmm     == <<host, left, total, status>>
vars    == <<channel, call, x0, fd_table, vmm>>

Requests ==
  [code : {"OPEN"}, args : {<<0, 0, 0>>}]
    \cup [code : {"READ", "WRITE"}, args : UserFds \X {0} \X (Counts \ {0})]
    \cup [code : {"LSEEK", "CLOSE"}, args : HostFds \X {0} \X {0}]
    \cup [code : {"EXIT"}, args : (ExitValues \cup {-1}) \X {0} \X {0}]

Replies == {-1} \cup HostFds \cup UNION {1 .. c : c \in Counts}

Remote == INSTANCE RemoteCall WITH Answers <- [q \in Requests |-> Replies]

Call(op, fd, count, buffer) ==
  [op |-> op, fd |-> fd, count |-> count, buffer |-> buffer]

Calls ==
  [op : {"open", "read", "write", "lseek", "close", "exit", "fault",
         "kernel_fault"},
   fd : UserFds \cup ExitValues \cup {None},
   count : Counts \cup {0}, buffer : Buffers]

Request(code, arg0, arg2) == [code |-> code, args |-> <<arg0, 0, arg2>>]

ASSUME SyscallsAssumption ==
  /\ UserFds \subseteq Nat /\ {0, 1, 2} \subseteq UserFds
  /\ LastHostFd \in Nat /\ LastHostFd >= 2
  /\ FileLength \in Nat
  /\ Counts \subseteq Nat
  /\ ExitValues \subseteq Int
  /\ None \notin Calls

TypeOK ==
  /\ phase \in {"idle", "called", "served", "ended"}
  /\ request \in Requests \cup {None}
  /\ reply \in Replies \cup {None}
  /\ call \in Calls \cup {None}
  /\ x0 \in Replies \cup {-ENOENT, -ENOMEM, -EINVAL, -ENOSYS}
  /\ fd_table \in Seq([pid : {Pid}, host_fd : HostFds, k_fd : UserFds])
  /\ host \in [HostFds -> {"terminal", "file", "closed"}]
  /\ left \in [HostFds -> 0 .. FileLength]
  /\ total \in {0} \cup UNION {0 .. c : c \in Counts}
  /\ status \in ExitValues \cup {-1, 0, None}

(* The end of sys_execve, which inserts the descriptors 0, 1 and 2.  The   *)
(* VMM was started with its input on a terminal or redirected from a file. *)
Init ==
  /\ Remote!Init
  /\ call = None
  /\ x0 = 0
  /\ fd_table = StandardFds(Pid)
  /\ \E stdin \in {"terminal", "file"} :
       host = [h \in HostFds |-> CASE h = 0        -> stdin
                                   [] h \in {1, 2} -> "terminal"
                                   [] h > 2        -> "closed"]
  /\ left = [h \in HostFds |-> IF host[h] = "file" THEN FileLength ELSE 0]
  /\ total = 0
  /\ status = None

-----------------------------------------------------------------------------
(* The kernel's half of a system call.                                     *)

InUser      == phase = "idle" /\ call = None

(* Mutant: the descriptor is taken as it comes.                            *)
HostFdUnchecked(k) == {k}

HostFd(k)   == HostFdOf(fd_table, Pid, k)
ReturnUser(value) == x0' = value /\ UNCHANGED <<channel, call>>

SysOpen ==
  /\ InUser
  /\ \/ ReturnUser(-EINVAL)                         \* no path, or an empty one
     \/ /\ call' = Call("open", None, 0, "mapped")
        /\ Remote!Call(Request("OPEN", 0, 0))
        /\ UNCHANGED x0
     \/ /\ call' = Call("kernel_fault", None, 0, "unmapped")   \* by strlen
        /\ UNCHANGED <<channel, x0>>
  /\ UNCHANGED <<fd_table, vmm>>

(* sys_read and sys_write look the descriptor up, allocate a buffer, which *)
(* fails for a count of 0, and send the descriptor as it came.             *)
SysRead(k, count, buffer) ==
  /\ InUser
  /\ IF HostFd(k) = {}
     THEN ReturnUser(-ENOENT) /\ UNCHANGED total
     ELSE IF count = 0
     THEN ReturnUser(-ENOMEM) /\ UNCHANGED total
     ELSE /\ call' = Call("read", k, count, buffer)
          /\ Remote!Call(Request("READ", k, count))
          /\ total' = 0
          /\ UNCHANGED x0
  /\ UNCHANGED <<fd_table, host, left, status>>

(* copy_from_user tests the first page only.  It returns -EINVAL when that *)
(* page is not mapped, which the unsigned test for < 0 lets through.       *)
SysWrite(k, count, buffer) ==
  /\ InUser
  /\ IF HostFd(k) = {}
     THEN ReturnUser(-ENOENT)
     ELSE IF count = 0
     THEN ReturnUser(-ENOMEM)
     ELSE /\ UNCHANGED x0
          /\ IF buffer = "straddling"
             THEN /\ call' = Call("kernel_fault", None, 0, buffer)
                  /\ UNCHANGED channel
             ELSE /\ call' = Call("write", k, count, buffer)
                  /\ Remote!Call(Request("WRITE", k, count))
  /\ UNCHANGED <<fd_table, vmm>>

(* lseek drops the offset and the origin.                                  *)
SysLseek(k) ==
  /\ InUser
  /\ IF HostFd(k) = {}
     THEN ReturnUser(-ENOENT)
     ELSE /\ call' = Call("lseek", k, 0, "mapped")
          /\ \E h \in HostFd(k) : Remote!Call(Request("LSEEK", h, 0))
          /\ UNCHANGED x0
  /\ UNCHANGED <<fd_table, vmm>>

SysClose(k) ==
  /\ InUser
  /\ IF HostFd(k) = {}
     THEN ReturnUser(-ENOENT)
     ELSE /\ call' = Call("close", k, 0, "mapped")
          /\ \E h \in HostFd(k) : Remote!Call(Request("CLOSE", h, 0))
          /\ UNCHANGED x0
  /\ UNCHANGED <<fd_table, vmm>>

SysExit(value) ==
  /\ InUser
  /\ call' = Call("exit", value, 0, "mapped")
  /\ Remote!Call(Request("EXIT", value, 0))
  /\ UNCHANGED <<x0, fd_table, vmm>>

SysUnknown == InUser /\ ReturnUser(-ENOSYS) /\ UNCHANGED <<fd_table, vmm>>

(* The process faults, or does what only sync_handler's other cases know.  *)
UserFault ==
  /\ InUser
  /\ call' = Call("fault", None, 0, "mapped")
  /\ UNCHANGED <<channel, x0, fd_table, vmm>>

(* vm_exit_unhandled_exception.                                            *)
ExitOnFault ==
  /\ phase = "idle"
  /\ call # None /\ call.op \in {"fault", "kernel_fault"}
  /\ Remote!Call(Request("EXIT", -1, 0))
  /\ UNCHANGED <<call, x0, fd_table, vmm>>

(***************************************************************************)
(* The return from a hypercall.  sys_read copies reply bytes to the user   *)
(* buffer, for -1 as many as a size_t can say; the copy runs until it      *)
(* faults unless copy_to_user has found the first page unmapped.  A short  *)
(* answer may lie in the first page of a buffer that leaves it.            *)
(***************************************************************************)
CopyFaults ==
  \/ reply = -1 /\ call.buffer # "unmapped"
  \/ reply > 0 /\ call.buffer = "straddling"

CopyReturns ==
  CASE call.buffer = "unmapped"   -> TRUE
    [] call.buffer = "mapped"     -> reply # -1
    [] call.buffer = "straddling" -> reply # -1 /\ reply < call.count

ReturnFromRead ==
  /\ phase = "served" /\ call.op = "read"
  /\ Remote!Return
  /\ \/ CopyReturns /\ call' = None /\ x0' = reply
     \/ /\ CopyFaults
        /\ call' = Call("kernel_fault", None, 0, call.buffer)
        /\ UNCHANGED x0
  /\ UNCHANGED <<fd_table, vmm>>

(* sys_close forgets the entry whatever the VMM answered.  delete_fd gets  *)
(* its two descriptors in the other order and may then never return.       *)
ReturnFromClose ==
  /\ phase = "served" /\ call.op = "close"
  /\ \E h \in HostFd(call.fd) :
       /\ Deletable(fd_table, Pid, call.fd, h) # {}
       /\ fd_table' = DeleteFd(fd_table, Pid, call.fd, h)
  /\ Remote!Return
  /\ call' = None
  /\ x0' = 0
  /\ UNCHANGED vmm

ReturnFromOther ==
  /\ phase = "served" /\ call.op \in {"open", "write", "lseek"}
  /\ Remote!Return
  /\ call' = None
  /\ x0' = reply
  /\ UNCHANGED <<fd_table, vmm>>

-----------------------------------------------------------------------------
(* The VMM's half: handle_hypercall, one action per libc call it makes.    *)

Handling(code) == phase = "called" /\ request.code = code

LowestClosed ==
  {h \in HostFds : host[h] = "closed" /\ \A g \in 0 .. h - 1 : host[g] # "closed"}

HandleOpen ==
  /\ Handling("OPEN")
  /\ \/ \E h \in LowestClosed :
          /\ host' = [host EXCEPT ![h] = "file"]
          /\ left' = [left EXCEPT ![h] = FileLength]
          /\ Remote!Serve(h)
     \/ Remote!Serve(-1) /\ UNCHANGED <<host, left>>
  /\ UNCHANGED <<call, x0, fd_table, total, status>>

(* HVC_CLOSE closes hvc_args[2]; the guest put its descriptor in           *)
(* hvc_args[1].                                                            *)
ClosedFd == request.args[2]

HandleClose ==
  /\ Handling("CLOSE")
  /\ Remote!Serve(IF host[ClosedFd] = "closed" THEN -1 ELSE 0)
  /\ host' = [host EXCEPT ![ClosedFd] = "closed"]
  /\ UNCHANGED <<call, x0, fd_table, left, total, status>>

(* Offset and origin arrive as 0: a file is rewound, a terminal cannot be. *)
HandleLseek ==
  /\ Handling("LSEEK")
  /\ LET h == request.args[1]
     IN  IF host[h] = "file"
         THEN left' = [left EXCEPT ![h] = FileLength] /\ Remote!Serve(0)
         ELSE UNCHANGED left /\ Remote!Serve(-1)
  /\ UNCHANGED <<call, x0, fd_table, host, total, status>>

(* hypercall_write writes everything, or returns the error that            *)
(* handle_hypercall unwraps: the VMM panics.                               *)
WriteDone ==
  /\ Handling("WRITE")
  /\ host[request.args[1]] # "closed"
  /\ Remote!Serve(request.args[3])
  /\ UNCHANGED <<call, x0, fd_table, vmm>>

WritePanics ==
  /\ Handling("WRITE")                      \* EBADF, EPIPE, ENOSPC, ...
  /\ Remote!End
  /\ UNCHANGED <<call, x0, fd_table, vmm>>

(* hypercall_read loops until it has what was asked for.  At the end of a  *)
(* file libc::read returns 0 and a turn of the loop changes nothing.       *)
(* Mutant: each turn asks for all of the count again.                      *)
RemainingStale == request.args[3]

Remaining == request.args[3] - total

ReadSome ==
  /\ Handling("READ")
  /\ LET h == request.args[1]
     IN  \E n \in 1 .. Remaining :
           /\ \/ host[h] = "terminal" /\ UNCHANGED left
              \/ /\ host[h] = "file" /\ n <= left[h]
                 /\ left' = [left EXCEPT ![h] = @ - n]
           /\ total' = total + n
  /\ UNCHANGED <<channel, call, x0, fd_table, host, status>>

ReadDone ==
  /\ Handling("READ")
  /\ Remaining = 0
  /\ Remote!Serve(total)
  /\ UNCHANGED <<call, x0, fd_table, vmm>>

(* libc::read fails: what has been read counts, or else the error does.    *)
(* Mutants: an error ends the VMM; it hides what was read; it is retried.  *)
ReadFailsUnwrapped ==
  /\ Handling("READ")
  /\ Remaining > 0
  /\ Remote!End
  /\ UNCHANGED <<call, x0, fd_table, vmm>>

ReadFailsLosing ==
  /\ Handling("READ")
  /\ Remaining > 0
  /\ Remote!Serve(-1)
  /\ UNCHANGED <<call, x0, fd_table, vmm>>

ReadFailsRetrying ==
  /\ Handling("READ")
  /\ Remaining > 0 /\ total > 0
  /\ Remote!Serve(total)
  /\ UNCHANGED <<call, x0, fd_table, vmm>>

ReadFails ==
  /\ Handling("READ")
  /\ Remaining > 0
  /\ Remote!Serve(IF total > 0 THEN total ELSE -1)
  /\ UNCHANGED <<call, x0, fd_table, vmm>>

(* HVC_EXIT exits with hvc_args[2].                                        *)
HandleExit ==
  /\ Handling("EXIT")
  /\ status' = request.args[2]
  /\ Remote!End
  /\ UNCHANGED <<call, x0, fd_table, host, left, total>>

Kernel ==
  \/ SysOpen
  \/ \E k \in UserFds, count \in Counts, buffer \in Buffers :
       SysRead(k, count, buffer) \/ SysWrite(k, count, buffer)
  \/ \E k \in UserFds : SysLseek(k) \/ SysClose(k)
  \/ \E value \in ExitValues : SysExit(value)
  \/ SysUnknown
  \/ UserFault
  \/ ExitOnFault
  \/ ReturnFromRead \/ ReturnFromClose \/ ReturnFromOther

VMM ==
  \/ HandleOpen \/ HandleClose \/ HandleLseek \/ HandleExit
  \/ WriteDone \/ WritePanics
  \/ ReadSome \/ ReadDone \/ ReadFails

Spec == Init /\ [][Kernel \/ VMM]_vars

-----------------------------------------------------------------------------
(* The kernel goes on after a hypercall or a fault, and the VMM makes its  *)
(* next libc call, which returns unless it waits for a terminal; a call on *)
(* a closed descriptor fails.                                              *)
Reads(kind) == Handling("READ") /\ host[request.args[1]] = kind

FairSpec ==
  /\ Spec
  /\ WF_vars(ExitOnFault)
  /\ WF_vars(ReturnFromRead \/ ReturnFromClose \/ ReturnFromOther)
  /\ WF_vars(HandleOpen \/ HandleClose \/ HandleLseek \/ HandleExit)
  /\ WF_vars(WriteDone \/ (WritePanics /\ host[request.args[1]] = "closed"))
  /\ WF_vars(ReadSome /\ Reads("file"))
  /\ WF_vars(ReadDone)
  /\ WF_vars(ReadFails /\ Reads("closed"))

(* The entry sys_read, sys_write and sys_lseek looked up is the one the    *)
(* VMM is asked to use, and only descriptors the process has not closed    *)
(* reach the VMM (sys_read and sys_write send fd where they looked up      *)
(* host_fd, and sys_lseek host_fd).                                        *)
RequestNamesEntry ==
  phase = "called" /\ request.code \in {"READ", "WRITE", "LSEEK", "CLOSE"} =>
    \E i \in 1 .. Len(fd_table) :
      fd_table[i] = Entry(Pid, request.args[1], call.fd)

(* The VM does not end but for a reason: the process exited or faulted, or *)
(* a write the process asked for failed (vm_exit_unhandled_exception,      *)
(* unwrap in handle_hypercall).                                            *)
EndsForCause ==
  phase = "ended" => call.op \in {"exit", "fault", "kernel_fault", "write"}

(* A system call never gets stuck, in the VMM's loops or in delete_fd's,   *)
(* but in a read that waits for a terminal or has met the end of a file.   *)
ReadWaits ==
  \/ Reads("terminal")
  \/ Reads("file") /\ left[request.args[1]] = 0 /\ Remaining > 0

CallsComeBack ==
  call # None ~> call = None \/ phase = "ended" \/ ReadWaits

(* No byte is lost between the host and the process: a read that returns   *)
(* says how many bytes the VMM took, however short it was cut, and fails   *)
(* only when none was taken (the early returns of hypercall_read).         *)
BytesReadAreReturned ==
  [][ call # None /\ call' = None /\ call.op = "read" =>
        x0' = total \/ (x0' = -1 /\ total = 0) ]_vars

(* handle_hypercall calls hvc_args[1] arg0: the first argument of EXIT is  *)
(* what the process exited with.                                           *)
ExitStatusArrives ==
  phase = "ended" /\ call.op = "exit" => status = call.fd
=============================================================================
