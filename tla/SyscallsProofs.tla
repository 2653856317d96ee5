--------------------------- MODULE SyscallsProofs ---------------------------
(***************************************************************************)
(* For every set of descriptors, counts and exit statuses, every length of *)
(* the host's files and every number of descriptors of the VMM: requests   *)
(* name entries of the process's table, the VM ends only for a cause of    *)
(* the process, and no byte read from the host is lost on the way back.    *)
(***************************************************************************)
EXTENDS Syscalls, SequenceTheorems, WellFoundedInduction, TLAPS

(* The table holds what sys_execve put there, or less: an entry of this    *)
(* process whose two descriptors are equal.  That sys_read and sys_write   *)
(* send one where they looked up the other is hidden by it.                *)
Entries == {e \in [pid : {Pid}, host_fd : HostFds, k_fd : UserFds] :
              e.host_fd = e.k_fd}

TableAgrees == fd_table \in Seq(Entries)

(* What the kernel waits for is what the VMM works on.  The code decides   *)
(* the call, and hypercall_read has not read more than was asked for.      *)
CallAgrees ==
  phase = "called" =>
    /\ request \in Requests
    /\ call \in Calls
    /\ \/ request.code = "OPEN"  /\ call.op = "open"
       \/ request.code = "READ"  /\ call.op = "read" /\ total <= request.args[3]
       \/ request.code = "WRITE" /\ call.op = "write"
       \/ request.code = "LSEEK" /\ call.op = "lseek"
       \/ request.code = "CLOSE" /\ call.op = "close"
       \/ request.code = "EXIT"  /\ call.op \in {"exit", "fault", "kernel_fault"}

(* An answered read says how many bytes were taken, or that none was.      *)
AnswerAgrees ==
  phase = "served" =>
    /\ reply \in Replies
    /\ call \in Calls
    /\ call.op \in {"open", "read", "write", "lseek", "close"}
    /\ call.op = "read" => reply = total \/ (reply = -1 /\ total = 0)

(* Between hypercalls the kernel handles nothing but a fault.              *)
IdleAgrees ==
  phase = "idle" => call = None \/ call.op \in {"fault", "kernel_fault"}

(* RequestNamesEntry holds from the lookup on because nothing changes the  *)
(* table before the answer; which request ends the VM and which answer     *)
(* returns is only known from what was asked.                              *)
IInv == /\ TypeOK
        /\ TableAgrees
        /\ CallAgrees
        /\ AnswerAgrees
        /\ IdleAgrees
        /\ RequestNamesEntry
        /\ EndsForCause

-----------------------------------------------------------------------------
(* The descriptor table.                                                   *)

(* First finds the least of a set of positions.                            *)
LEMMA FirstIsLeast ==
  ASSUME NEW S \in SUBSET Nat, S # {}
  PROVE  First(S) \in S /\ \A j \in S : First(S) <= j
<1> DEFINE R == OpToRel(<, Nat)
<1>1. IsWellFoundedOn(R, Nat)
  BY NatLessThanWellFounded
<1>2. ASSUME NEW i \in Nat, NEW j \in Nat, j < i
      PROVE  <<j, i>> \in R
  BY <1>2 DEF OpToRel
<1> HIDE DEF R
<1>3. PICK i \in S : \A j \in S : ~ (<<j, i>> \in R)
  BY <1>1, WFMin
<1>4. \A j \in S : i <= j
  <2>1. ASSUME NEW j \in S, ~ (i <= j) PROVE FALSE
    <3>1. j \in Nat /\ i \in Nat /\ j < i
      BY <2>1
    <3> QED
      BY <3>1, <1>2, <1>3
  <2> QED
    BY <2>1
<1> QED
  BY <1>4 DEF First

(* Of the three descriptors that sys_execve inserts, the second insertion  *)
(* into a non-empty list keeps the head and the new entry: 0 and 2 stay.   *)
LEMMA StandardEntries ==
  ASSUME NEW pid \in Int
  PROVE  StandardFds(pid) = <<Entry(pid, 0, 0), Entry(pid, 2, 2)>>
<1>1. InsertFd(<< >>, pid, 0, 0) = <<Entry(pid, 0, 0)>>
  BY DEF InsertFd
<1>2. ASSUME NEW list, NEW k \in Int, list # << >>,
             Mine(list, pid) # {}, Stops(list, Entry(pid, k, k)) = {}
      PROVE  InsertFd(list, pid, k, k) = <<list[1], Entry(pid, k, k)>>
  <2>1. InsertFd(list, pid, k, k) = Placed(list, Entry(pid, k, k))
    BY <1>2 DEF InsertFd
  <2>2. Entry(pid, k, k).pid = pid
    BY DEF Entry
  <2>3. Placed(list, Entry(pid, k, k)) = <<list[1], Entry(pid, k, k)>>
    BY <1>2, <2>2, Zenon DEF Placed
  <2> QED
    BY <2>1, <2>3
<1>3. InsertFd(<<Entry(pid, 0, 0)>>, pid, 1, 1)
        = <<Entry(pid, 0, 0), Entry(pid, 1, 1)>>
  <2> DEFINE list == <<Entry(pid, 0, 0)>>
  <2>1. list # << >> /\ Len(list) = 1 /\ list[1] = Entry(pid, 0, 0)
    OBVIOUS
  <2> HIDE DEF list
  <2>2. 1 \in Mine(list, pid) /\ Stops(list, Entry(pid, 1, 1)) = {}
    BY <2>1 DEF Entry, Mine, Stops
  <2>3. InsertFd(list, pid, 1, 1) = <<list[1], Entry(pid, 1, 1)>>
    BY <1>2, <2>1, <2>2
  <2> QED
    BY <2>1, <2>3 DEF list
<1>4. InsertFd(<<Entry(pid, 0, 0), Entry(pid, 1, 1)>>, pid, 2, 2)
        = <<Entry(pid, 0, 0), Entry(pid, 2, 2)>>
  <2> DEFINE list == <<Entry(pid, 0, 0), Entry(pid, 1, 1)>>
  <2>1. /\ list # << >> /\ Len(list) = 2
        /\ list[1] = Entry(pid, 0, 0) /\ list[2] = Entry(pid, 1, 1)
    OBVIOUS
  <2> HIDE DEF list
  <2>2. 1 \in Mine(list, pid) /\ Stops(list, Entry(pid, 2, 2)) = {}
    BY <2>1 DEF Entry, Mine, Stops
  <2>3. InsertFd(list, pid, 2, 2) = <<list[1], Entry(pid, 2, 2)>>
    BY <1>2, <2>1, <2>2
  <2> QED
    BY <2>1, <2>3 DEF list
<1> QED
  BY <1>1, <1>3, <1>4 DEF StandardFds

(* get_host_fd finds an entry, and in such a table its descriptor is the   *)
(* one it was asked for.                                                   *)
LEMMA HostFdNamesEntry ==
  ASSUME TableAgrees, NEW k, NEW h \in HostFd(k)
  PROVE  /\ h = k /\ h \in HostFds
         /\ \E i \in 1 .. Len(fd_table) : fd_table[i] = Entry(Pid, k, k)
<1>1. PICK i \in At(fd_table, Pid, k) : h = fd_table[i].host_fd
  BY DEF HostFd, HostFdOf
<1>2. i \in 1 .. Len(fd_table) /\ fd_table[i].pid = Pid /\ fd_table[i].k_fd = k
  BY <1>1 DEF At
<1>3. fd_table[i] \in Entries
  BY <1>2, ElementOfSeq DEF TableAgrees
<1>4. h = k /\ h \in HostFds /\ fd_table[i] = Entry(Pid, k, k)
  BY <1>1, <1>2, <1>3 DEF Entries, Entry
<1> QED
  BY <1>2, <1>4

(* delete_fd leaves a part of the table.                                   *)
LEMMA DeleteFdKeeps ==
  ASSUME TableAgrees, NEW pid, NEW h, NEW k, Deletable(fd_table, pid, h, k) # {}
  PROVE  DeleteFd(fd_table, pid, h, k) \in Seq(Entries)
<1> DEFINE at == First(Deletable(fd_table, pid, h, k))
           n  == Len(fd_table)
<1>1. n \in Nat /\ \A i \in 1 .. n : fd_table[i] \in Entries
  BY LenProperties, ElementOfSeq DEF TableAgrees
<1>2. at \in 1 .. n
  <2>1. Deletable(fd_table, pid, h, k) \in SUBSET (1 .. n)
    BY DEF Deletable
  <2> QED
    BY <1>1, <2>1, FirstIsLeast
<1> HIDE DEF at
<1>3. SubSeq(fd_table, 1, at - 1) \in Seq(Entries)
  BY <1>1, <1>2, SubSeqProperties
<1>4. SubSeq(fd_table, at + 1, n) \in Seq(Entries)
  BY <1>1, <1>2, SubSeqProperties
<1> QED
  BY <1>3, <1>4, ConcatProperties DEF DeleteFd, at

-----------------------------------------------------------------------------
(* What each code carries.                                                 *)
LEMMA RequestTypes ==
  ASSUME NEW q \in Requests
  PROVE  /\ q.code \in {"OPEN", "READ", "WRITE", "LSEEK", "CLOSE", "EXIT"}
         /\ q.args[2] = 0
         /\ q.code = "READ" => q.args[3] \in Counts \ {0} /\ q.args[3] \in Nat
         /\ q.code = "LSEEK" => q.args[1] \in HostFds
<1>1. /\ q.code \in {"OPEN", "READ", "WRITE", "LSEEK", "CLOSE", "EXIT"}
      /\ q.args[2] = 0
      /\ q.code = "READ" => q.args[3] \in Counts \ {0}
      /\ q.code = "LSEEK" => q.args[1] \in HostFds
  BY DEF Requests
<1>2. Counts \subseteq Nat
  BY SyscallsAssumption
<1> QED
  BY <1>1, <1>2

(* What the kernel asks is a request.                                      *)
LEMMA RequestsAre ==
  /\ Request("OPEN", 0, 0) \in Requests
  /\ \A k \in UserFds, c \in Counts \ {0} :
       Request("READ", k, c) \in Requests /\ Request("WRITE", k, c) \in Requests
  /\ \A h \in HostFds :
       Request("LSEEK", h, 0) \in Requests /\ Request("CLOSE", h, 0) \in Requests
  /\ \A v \in ExitValues \cup {-1} : Request("EXIT", v, 0) \in Requests
  BY DEF Requests, Request

LEMMA CallsAre ==
  ASSUME NEW op \in {"open", "read", "write", "lseek", "close", "exit", "fault",
                     "kernel_fault"},
         NEW fd \in UserFds \cup ExitValues \cup {None},
         NEW count \in Counts \cup {0}, NEW buffer \in Buffers
  PROVE  /\ Call(op, fd, count, buffer) \in Calls
         /\ Call(op, fd, count, buffer) # None
         /\ Call(op, fd, count, buffer).op = op
         /\ Call(op, fd, count, buffer).fd = fd
  BY SyscallsAssumption DEF Call, Calls

(* Descriptors 0 to 2 are the VMM's, and 0 is a reply.                     *)
LEMMA Numbers ==
  /\ {0, 1, 2} \subseteq HostFds /\ HostFds \subseteq Nat
  /\ 0 \in Replies /\ -1 \in Replies
  /\ Counts \subseteq Nat /\ FileLength \in Nat
  BY SyscallsAssumption DEF HostFds, Replies

LEMMA InitIInv == Init => IInv
<1> SUFFICES ASSUME Init PROVE IInv
  OBVIOUS
<1>1. phase = "idle" /\ request = None /\ reply = None /\ call = None
  BY DEF Init, Remote!Init
<1>2. TableAgrees
  <2>1. Entry(Pid, 0, 0) \in Entries /\ Entry(Pid, 2, 2) \in Entries
    BY Numbers, SyscallsAssumption DEF Entry, Entries
  <2>2. fd_table = <<Entry(Pid, 0, 0), Entry(Pid, 2, 2)>>
    BY StandardEntries DEF Init, Pid
  <2> QED
    BY <2>1, <2>2 DEF TableAgrees
<1>3. fd_table \in Seq([pid : {Pid}, host_fd : HostFds, k_fd : UserFds])
  <2>1. Entries \subseteq [pid : {Pid}, host_fd : HostFds, k_fd : UserFds]
    BY DEF Entries
  <2> QED
    BY <1>2, <2>1, SeqMonotonic DEF TableAgrees
<1>4. PICK stdin \in {"terminal", "file"} :
        host = [h \in HostFds |-> CASE h = 0        -> stdin
                                    [] h \in {1, 2} -> "terminal"
                                    [] h > 2        -> "closed"]
  BY DEF Init
<1>5. host \in [HostFds -> {"terminal", "file", "closed"}]
  <2>1. \A h \in HostFds : h = 0 \/ h \in {1, 2} \/ h > 2
    BY Numbers
  <2>2. ASSUME NEW h \in HostFds
        PROVE  host[h] \in {"terminal", "file", "closed"}
    <3>1. CASE h = 0
      BY <1>4, <3>1
    <3>2. CASE h \in {1, 2}
      BY <1>4, <3>2
    <3>3. CASE h > 2
      BY <1>4, <3>3, Numbers
    <3> QED
      BY <2>1, <3>1, <3>2, <3>3
  <2>3. \A h \in HostFds : (CASE h = 0        -> stdin
                            [] h \in {1, 2} -> "terminal"
                            [] h > 2        -> "closed")
                            \in {"terminal", "file", "closed"}
    BY <1>4, <2>2
  <2> QED
    BY <1>4, <2>3
<1>6. left \in [HostFds -> 0 .. FileLength]
  BY SyscallsAssumption DEF Init
<1>7. TypeOK
  BY <1>1, <1>3, <1>5, <1>6, Numbers DEF Init, TypeOK
<1> QED
  BY <1>1, <1>2, <1>7
     DEF IInv, CallAgrees, AnswerAgrees, IdleAgrees, RequestNamesEntry,
         EndsForCause

(* A call that returns to the process at once, with or without an error.   *)
LEMMA ReturnUserPreserves ==
  ASSUME IInv, InUser,
         NEW value \in {-ENOENT, -ENOMEM, -EINVAL, -ENOSYS}, ReturnUser(value),
         UNCHANGED <<fd_table, vmm>>
  PROVE  IInv'
  BY DEF IInv, TypeOK, TableAgrees, CallAgrees, AnswerAgrees, IdleAgrees,
         RequestNamesEntry, EndsForCause, InUser, ReturnUser, channel, vmm

(* A call that goes on as a hypercall.  Its request agrees with the call,  *)
(* and if it names a descriptor the table has the entry.                   *)
LEMMA CallPreserves ==
  ASSUME IInv, NEW q \in Requests, Remote!Call(q), call' \in Calls,
         \/ q.code = "OPEN"  /\ call'.op = "open"
         \/ q.code = "READ"  /\ call'.op = "read" /\ total' = 0
         \/ q.code = "WRITE" /\ call'.op = "write"
         \/ q.code = "LSEEK" /\ call'.op = "lseek"
         \/ q.code = "CLOSE" /\ call'.op = "close"
         \/ q.code = "EXIT"  /\ call'.op \in {"exit", "fault", "kernel_fault"},
         q.code \in {"READ", "WRITE", "LSEEK", "CLOSE"} =>
           \E i \in 1 .. Len(fd_table) :
             fd_table[i] = Entry(Pid, q.args[1], call'.fd),
         total' \in {total, 0},
         UNCHANGED <<x0, fd_table, host, left, status>>
  PROVE  IInv'
<1>1. phase' = "called" /\ request' = q /\ reply' = None
  BY DEF Remote!Call
<1>2. TypeOK'
  BY <1>1 DEF IInv, TypeOK
<1>3. CallAgrees'
  <2>1. q.code = "READ" => 0 <= q.args[3]
    BY RequestTypes, Numbers
  <2> QED
    BY <1>1, <2>1 DEF CallAgrees
<1>4. TableAgrees' /\ AnswerAgrees' /\ IdleAgrees' /\ EndsForCause'
  BY <1>1 DEF IInv, TableAgrees, AnswerAgrees, IdleAgrees, EndsForCause
<1>5. RequestNamesEntry'
  BY <1>1 DEF RequestNamesEntry
<1> QED
  BY <1>2, <1>3, <1>4, <1>5 DEF IInv

(* A fault found outside a hypercall.                                      *)
LEMMA FaultPreserves ==
  ASSUME IInv, phase = "idle", call' \in Calls,
         call'.op \in {"fault", "kernel_fault"},
         UNCHANGED <<channel, x0, fd_table, vmm>>
  PROVE  IInv'
  BY DEF IInv, TypeOK, TableAgrees, CallAgrees, AnswerAgrees, IdleAgrees,
         RequestNamesEntry, EndsForCause, channel, vmm

(* The system calls of the process.                                        *)
LEMMA SysCallPreserves ==
  ASSUME IInv,
         \/ SysOpen
         \/ \E k \in UserFds, count \in Counts, buffer \in Buffers :
              SysRead(k, count, buffer) \/ SysWrite(k, count, buffer)
         \/ \E k \in UserFds : SysLseek(k) \/ SysClose(k)
         \/ \E value \in ExitValues : SysExit(value)
         \/ SysUnknown
         \/ UserFault
         \/ ExitOnFault
  PROVE  IInv'
<1>1. CASE SysOpen
  <2>1. CASE ReturnUser(-EINVAL)
    BY <1>1, <2>1, ReturnUserPreserves DEF SysOpen
  <2>2. CASE call' = Call("kernel_fault", None, 0, "unmapped") /\ UNCHANGED <<channel, x0>>
    <3>1. InUser /\ UNCHANGED <<channel, x0, fd_table, vmm>>
      BY <1>1, <2>2 DEF SysOpen
    <3>2. call' \in Calls /\ call'.op = "kernel_fault"
      BY <2>2 DEF Call, Calls, Buffers
    <3> QED
      BY <3>1, <3>2, FaultPreserves DEF InUser
  <2>3. CASE /\ call' = Call("open", None, 0, "mapped")
             /\ Remote!Call(Request("OPEN", 0, 0))
             /\ UNCHANGED x0
    <3>1. call' = Call("open", None, 0, "mapped")
          /\ Remote!Call(Request("OPEN", 0, 0))
          /\ UNCHANGED <<x0, fd_table, vmm>>
      BY <1>1, <2>3 DEF SysOpen
    <3>2. call' \in Calls /\ call'.op = "open"
      BY <3>1, CallsAre DEF Buffers
    <3>3. Request("OPEN", 0, 0).code = "OPEN"
      BY DEF Request
    <3> QED
      BY <3>1, <3>2, <3>3, RequestsAre, CallPreserves DEF vmm
  <2> QED
    BY <1>1, <2>1, <2>2, <2>3 DEF SysOpen
<1>2. ASSUME NEW k \in UserFds, NEW count \in Counts, NEW buffer \in Buffers,
             SysRead(k, count, buffer)
      PROVE  IInv'
  <2>1. CASE HostFd(k) = {} \/ count = 0
    <3>1. /\ ReturnUser(-ENOENT) \/ ReturnUser(-ENOMEM)
          /\ InUser /\ UNCHANGED <<fd_table, vmm>>
      BY <1>2, <2>1 DEF SysRead, vmm
    <3> QED
      BY <3>1, ReturnUserPreserves
  <2>2. CASE HostFd(k) # {} /\ count # 0
    <3>1. /\ call' = Call("read", k, count, buffer)
          /\ Remote!Call(Request("READ", k, count))
          /\ total' = 0
          /\ UNCHANGED <<x0, fd_table, host, left, status>>
      BY <1>2, <2>2 DEF SysRead
    <3>2. call' \in Calls /\ call'.op = "read" /\ call'.fd = k
      BY <3>1, CallsAre DEF Buffers
    <3>3. /\ Request("READ", k, count).code = "READ"
          /\ Request("READ", k, count).args[1] = k
      BY DEF Request
    <3>4. \E i \in 1 .. Len(fd_table) : fd_table[i] = Entry(Pid, k, k)
      BY <2>2, HostFdNamesEntry DEF IInv
    <3> QED
      BY <2>2, <3>1, <3>2, <3>3, <3>4, RequestsAre, CallPreserves
  <2> QED
    BY <2>1, <2>2
<1>3. ASSUME NEW k \in UserFds, NEW count \in Counts, NEW buffer \in Buffers,
             SysWrite(k, count, buffer)
      PROVE  IInv'
  <2>1. CASE HostFd(k) = {} \/ count = 0
    <3>1. /\ ReturnUser(-ENOENT) \/ ReturnUser(-ENOMEM)
          /\ InUser /\ UNCHANGED <<fd_table, vmm>>
      BY <1>3, <2>1 DEF SysWrite
    <3> QED
      BY <3>1, ReturnUserPreserves
  <2>2. CASE HostFd(k) # {} /\ count # 0 /\ buffer = "straddling"
    <3>1. /\ InUser /\ call' = Call("kernel_fault", None, 0, buffer)
          /\ UNCHANGED <<channel, x0, fd_table, vmm>>
      BY <1>3, <2>2 DEF SysWrite
    <3>2. call' \in Calls /\ call'.op = "kernel_fault"
      BY <3>1 DEF Call, Calls
    <3> QED
      BY <3>1, <3>2, FaultPreserves DEF InUser
  <2>3. CASE HostFd(k) # {} /\ count # 0 /\ buffer # "straddling"
    <3>1. /\ call' = Call("write", k, count, buffer)
          /\ Remote!Call(Request("WRITE", k, count))
          /\ UNCHANGED <<x0, fd_table, vmm>>
      BY <1>3, <2>3 DEF SysWrite
    <3>2. call' \in Calls /\ call'.op = "write" /\ call'.fd = k
      BY <3>1, CallsAre DEF Buffers
    <3>3. /\ Request("WRITE", k, count).code = "WRITE"
          /\ Request("WRITE", k, count).args[1] = k
      BY DEF Request
    <3>4. \E i \in 1 .. Len(fd_table) : fd_table[i] = Entry(Pid, k, k)
      BY <2>3, HostFdNamesEntry DEF IInv
    <3> QED
      BY <2>3, <3>1, <3>2, <3>3, <3>4, RequestsAre, CallPreserves DEF vmm
  <2> QED
    BY <2>1, <2>2, <2>3
<1>4. ASSUME NEW k \in UserFds, SysLseek(k) \/ SysClose(k)
      PROVE  IInv'
  <2>1. CASE HostFd(k) = {}
    BY <1>4, <2>1, ReturnUserPreserves DEF SysLseek, SysClose
  <2>2. CASE HostFd(k) # {}
    <3>1. PICK h \in HostFd(k), op \in {"lseek", "close"},
               code \in {"LSEEK", "CLOSE"} :
            /\ code = "LSEEK" <=> op = "lseek"
            /\ call' = Call(op, k, 0, "mapped")
            /\ Remote!Call(Request(code, h, 0))
            /\ UNCHANGED <<x0, fd_table, vmm>>
      BY <1>4, <2>2 DEF SysLseek, SysClose
    <3>2. call' \in Calls /\ call'.op = op /\ call'.fd = k
      BY <3>1, CallsAre DEF Buffers
    <3>3. /\ Request(code, h, 0).code = code
          /\ Request(code, h, 0).args[1] = h
      BY DEF Request
    <3>4. /\ h = k /\ h \in HostFds
          /\ \E i \in 1 .. Len(fd_table) : fd_table[i] = Entry(Pid, k, k)
      BY HostFdNamesEntry DEF IInv
    <3>5. Request(code, h, 0) \in Requests
      BY <3>4, RequestsAre
    <3> QED
      BY <3>1, <3>2, <3>3, <3>4, <3>5, CallPreserves DEF vmm
  <2> QED
    BY <2>1, <2>2
<1>5. ASSUME NEW value \in ExitValues, SysExit(value)
      PROVE  IInv'
  <2>1. call' \in Calls /\ call'.op = "exit"
    BY <1>5, CallsAre DEF SysExit, Buffers
  <2>2. Request("EXIT", value, 0).code = "EXIT"
    BY DEF Request
  <2> QED
    BY <1>5, <2>1, <2>2, RequestsAre, CallPreserves DEF SysExit, vmm
<1>6. CASE SysUnknown
  BY <1>6, ReturnUserPreserves DEF SysUnknown
<1>7. CASE UserFault
  <2>1. call' \in Calls /\ call'.op = "fault"
    BY <1>7, CallsAre DEF UserFault, Buffers
  <2> QED
    BY <1>7, <2>1, FaultPreserves DEF UserFault, InUser
<1>8. CASE ExitOnFault
  <2>1. call' \in Calls /\ call'.op \in {"fault", "kernel_fault"}
    BY <1>8 DEF ExitOnFault, IInv, TypeOK
  <2>2. Request("EXIT", -1, 0).code = "EXIT"
    BY DEF Request
  <2> QED
    BY <1>8, <2>1, <2>2, RequestsAre, CallPreserves DEF ExitOnFault, vmm
<1> QED
  BY <1>1, <1>2, <1>3, <1>4, <1>5, <1>6, <1>7, <1>8

-----------------------------------------------------------------------------
(* handle_hypercall answers: what it answered is one of the replies, and   *)
(* for a read what it has read.                                            *)
LEMMA ServePreserves ==
  ASSUME IInv, NEW r, Remote!Serve(r), request.code # "EXIT",
         call.op = "read" => r = total \/ (r = -1 /\ total = 0),
         host' \in [HostFds -> {"terminal", "file", "closed"}],
         left' \in [HostFds -> 0 .. FileLength],
         UNCHANGED <<call, x0, fd_table, total, status>>
  PROVE  IInv'
<1>1. /\ phase = "called" /\ phase' = "served" /\ request' = None /\ reply' = r
      /\ r \in [q \in Requests |-> Replies][request]
  BY DEF Remote!Serve
<1>2. request \in Requests /\ r \in Replies
  BY <1>1 DEF IInv, CallAgrees
<1>3. TypeOK'
  BY <1>1, <1>2 DEF IInv, TypeOK
<1>4. AnswerAgrees'
  <2>1. call \in Calls /\ call.op \in {"open", "read", "write", "lseek", "close"}
    BY <1>1 DEF IInv, CallAgrees
  <2> QED
    BY <1>1, <1>2, <2>1 DEF AnswerAgrees
<1>5. /\ TableAgrees' /\ CallAgrees' /\ IdleAgrees'
      /\ RequestNamesEntry' /\ EndsForCause'
  BY <1>1 DEF IInv, TableAgrees, CallAgrees, IdleAgrees, RequestNamesEntry,
              EndsForCause
<1> QED
  BY <1>3, <1>4, <1>5 DEF IInv

(* The VMM ends: it was asked to, or a write failed.                       *)
LEMMA EndPreserves ==
  ASSUME IInv, Remote!End, request.code \in {"EXIT", "WRITE"},
         status' \in {status, 0},
         UNCHANGED <<call, x0, fd_table, host, left, total>>
  PROVE  IInv'
<1>1. /\ phase = "called" /\ phase' = "ended"
      /\ request' = request /\ reply' = reply
  BY DEF Remote!End
<1>2. TypeOK'
  BY <1>1 DEF IInv, TypeOK
<1>3. EndsForCause'
  BY <1>1 DEF IInv, CallAgrees, EndsForCause
<1>4. /\ TableAgrees' /\ CallAgrees' /\ AnswerAgrees' /\ IdleAgrees'
      /\ RequestNamesEntry'
  BY <1>1 DEF IInv, TableAgrees, CallAgrees, AnswerAgrees, IdleAgrees,
              RequestNamesEntry
<1> QED
  BY <1>2, <1>3, <1>4 DEF IInv

(* Every libc call of the VMM.                                             *)
LEMMA VMMPreserves == IInv /\ VMM => IInv'
<1> SUFFICES ASSUME IInv, VMM PROVE IInv'
  OBVIOUS
<1>1. /\ host \in [HostFds -> {"terminal", "file", "closed"}]
      /\ left \in [HostFds -> 0 .. FileLength]
      /\ total \in Nat
  BY Numbers DEF IInv, TypeOK
<1>2. CASE HandleOpen
  <2>1. /\ request.code = "OPEN" /\ call.op = "open"
        /\ UNCHANGED <<call, x0, fd_table, total, status>>
    BY <1>2 DEF HandleOpen, Handling, IInv, CallAgrees
  <2>2. PICK r : /\ Remote!Serve(r)
                 /\ host' \in [HostFds -> {"terminal", "file", "closed"}]
                 /\ left' \in [HostFds -> 0 .. FileLength]
    <3>1. ASSUME NEW h \in LowestClosed,
                 host' = [host EXCEPT ![h] = "file"],
                 left' = [left EXCEPT ![h] = FileLength]
          PROVE  /\ host' \in [HostFds -> {"terminal", "file", "closed"}]
                 /\ left' \in [HostFds -> 0 .. FileLength]
      BY <1>1, <3>1, Numbers DEF LowestClosed
    <3> QED
      BY <1>1, <1>2, <3>1 DEF HandleOpen
  <2> QED
    BY <2>1, <2>2, ServePreserves
<1>3. CASE HandleClose
  <2>1. /\ request.code = "CLOSE" /\ call.op = "close"
        /\ UNCHANGED <<call, x0, fd_table, left, total, status>>
    BY <1>3 DEF HandleClose, Handling, IInv, CallAgrees
  <2>2. host' \in [HostFds -> {"terminal", "file", "closed"}]
    BY <1>1, <1>3 DEF HandleClose
  <2>3. PICK r : Remote!Serve(r)
    BY <1>3 DEF HandleClose
  <2> QED
    BY <1>1, <2>1, <2>2, <2>3, ServePreserves
<1>4. CASE HandleLseek
  <2>1. /\ request.code = "LSEEK" /\ call.op = "lseek"
        /\ UNCHANGED <<call, x0, fd_table, host, total, status>>
    BY <1>4 DEF HandleLseek, Handling, IInv, CallAgrees
  <2>2. left' \in [HostFds -> 0 .. FileLength]
    BY <1>1, <1>4, Numbers DEF HandleLseek
  <2>3. PICK r : Remote!Serve(r)
    BY <1>4 DEF HandleLseek
  <2> QED
    BY <1>1, <2>1, <2>2, <2>3, ServePreserves
<1>5. CASE HandleExit
  <2>1. request \in Requests /\ request.code = "EXIT"
    BY <1>5 DEF HandleExit, Handling, IInv, CallAgrees
  <2>2. status' = 0
    BY <1>5, <2>1, RequestTypes DEF HandleExit
  <2> QED
    BY <1>5, <2>1, <2>2, EndPreserves DEF HandleExit
<1>6. CASE WriteDone
  <2>1. /\ request.code = "WRITE" /\ call.op = "write"
        /\ UNCHANGED <<call, x0, fd_table, vmm>>
        /\ Remote!Serve(request.args[3])
    BY <1>6 DEF WriteDone, Handling, IInv, CallAgrees
  <2> QED
    BY <1>1, <2>1, ServePreserves DEF vmm
<1>7. CASE WritePanics
  BY <1>7, EndPreserves DEF WritePanics, Handling, vmm
<1>8. ASSUME Handling("READ")
      PROVE  /\ request \in Requests /\ phase = "called"
             /\ call.op = "read" /\ total <= request.args[3]
             /\ request.args[3] \in Counts /\ request.args[3] \in Nat
  <2>1. /\ request \in Requests /\ phase = "called" /\ request.code = "READ"
        /\ call.op = "read" /\ total <= request.args[3]
    BY <1>8 DEF Handling, IInv, CallAgrees
  <2> QED
    BY <2>1, RequestTypes
<1>9. CASE ReadSome
  <2>1. PICK n \in 1 .. Remaining :
          /\ total' = total + n
          /\ \/ host[request.args[1]] = "terminal" /\ UNCHANGED left
             \/ /\ n <= left[request.args[1]]
                /\ left' = [left EXCEPT ![request.args[1]] = @ - n]
    BY <1>9 DEF ReadSome
  <2>2. /\ Handling("READ")
        /\ UNCHANGED <<phase, request, reply, call, x0, fd_table, host, status>>
    BY <1>9 DEF ReadSome, channel
  <2>3. total' \in 0 .. request.args[3] /\ total' \in Nat
    BY <1>1, <1>8, <2>1, <2>2 DEF Remaining
  <2>4. left' \in [HostFds -> 0 .. FileLength]
    <3>1. CASE UNCHANGED left
      BY <1>1, <3>1
    <3>2. CASE request.args[1] \notin HostFds
      BY <1>1, <2>1, <3>2
    <3>3. CASE /\ request.args[1] \in HostFds
               /\ n <= left[request.args[1]]
               /\ left' = [left EXCEPT ![request.args[1]] = @ - n]
      <4>1. left[request.args[1]] - n \in 0 .. FileLength
        <5>1. n \in Nat
          BY <1>1, <1>8, <2>1, <2>2 DEF Remaining
        <5>2. left[request.args[1]] \in 0 .. FileLength
          BY <1>1, <3>3
        <5> QED
          BY <3>3, <5>1, <5>2, Numbers
      <4> QED
        BY <1>1, <3>3, <4>1
    <3> QED
      BY <2>1, <3>1, <3>2, <3>3
  <2>5. TypeOK'
    BY <1>8, <2>2, <2>3, <2>4 DEF IInv, TypeOK
  <2>6. CallAgrees'
    BY <1>8, <2>2, <2>3 DEF IInv, CallAgrees, Handling
  <2>7. /\ TableAgrees' /\ AnswerAgrees' /\ IdleAgrees'
        /\ RequestNamesEntry' /\ EndsForCause'
    BY <1>8, <2>2 DEF IInv, TableAgrees, AnswerAgrees, IdleAgrees,
                      RequestNamesEntry, EndsForCause
  <2> QED
    BY <2>5, <2>6, <2>7 DEF IInv
<1>10. CASE ReadDone
  <2>1. Handling("READ") /\ Remote!Serve(total)
    BY <1>10 DEF ReadDone
  <2> QED
    BY <1>1, <1>8, <1>10, <2>1, ServePreserves DEF ReadDone, Handling, vmm
<1>11. CASE ReadFails
  <2> DEFINE r == IF total > 0 THEN total ELSE -1
  <2>1. Handling("READ") /\ Remote!Serve(r) /\ UNCHANGED <<call, x0, fd_table, vmm>>
    BY <1>11 DEF ReadFails
  <2>2. r = total \/ (r = -1 /\ total = 0)
    BY <1>1
  <2> HIDE DEF r
  <2> QED
    BY <1>1, <1>8, <2>1, <2>2, ServePreserves DEF Handling, vmm
<1> QED
  BY <1>2, <1>3, <1>4, <1>5, <1>6, <1>7, <1>9, <1>10, <1>11 DEF VMM

-----------------------------------------------------------------------------
(* Back in the kernel: the answer is returned, or copying it has faulted.  *)
LEMMA ReturnPreserves ==
  ASSUME IInv, Remote!Return,
         \/ call' = None /\ x0' \in Replies
         \/ call' \in Calls /\ call'.op = "kernel_fault" /\ x0' = x0,
         fd_table' \in Seq(Entries),
         UNCHANGED vmm
  PROVE  IInv'
<1>1. phase' = "idle" /\ request' = request /\ reply' = None
  BY DEF Remote!Return
<1>2. fd_table' \in Seq([pid : {Pid}, host_fd : HostFds, k_fd : UserFds])
  <2>1. Entries \subseteq [pid : {Pid}, host_fd : HostFds, k_fd : UserFds]
    BY DEF Entries
  <2> QED
    BY <2>1, SeqMonotonic
<1>3. TypeOK'
  BY <1>1, <1>2 DEF IInv, TypeOK, vmm
<1> QED
  BY <1>1, <1>3 DEF IInv, TableAgrees, CallAgrees, AnswerAgrees, IdleAgrees,
                    RequestNamesEntry, EndsForCause

(* Every step preserves IInv.                                              *)
LEMMA NextIInv == IInv /\ [Kernel \/ VMM]_vars => IInv'
<1> SUFFICES ASSUME IInv, [Kernel \/ VMM]_vars PROVE IInv'
  OBVIOUS
<1>1. fd_table \in Seq(Entries)
  BY DEF IInv, TableAgrees
<1>2. CASE ReturnFromRead
  <2>1. /\ Remote!Return /\ UNCHANGED <<fd_table, vmm>>
        /\ reply \in Replies /\ call.buffer \in Buffers
    BY <1>2 DEF ReturnFromRead, IInv, AnswerAgrees, Calls
  <2>2. CASE call' = Call("kernel_fault", None, 0, call.buffer) /\ UNCHANGED x0
    <3>1. call' \in Calls /\ call'.op = "kernel_fault"
      BY <2>1, <2>2 DEF Call, Calls
    <3> QED
      BY <1>1, <2>1, <2>2, <3>1, ReturnPreserves
  <2>3. CASE call' = None /\ x0' = reply
    BY <1>1, <2>1, <2>3, ReturnPreserves
  <2> QED
    BY <1>2, <2>2, <2>3 DEF ReturnFromRead
<1>3. CASE ReturnFromClose
  <2>1. PICK h \in HostFd(call.fd) :
          /\ Deletable(fd_table, Pid, call.fd, h) # {}
          /\ fd_table' = DeleteFd(fd_table, Pid, call.fd, h)
    BY <1>3 DEF ReturnFromClose
  <2>2. fd_table' \in Seq(Entries)
    BY <2>1, DeleteFdKeeps DEF IInv
  <2> QED
    BY <1>3, <2>2, Numbers, ReturnPreserves DEF ReturnFromClose
<1>4. CASE ReturnFromOther
  BY <1>1, <1>4, ReturnPreserves DEF ReturnFromOther, IInv, AnswerAgrees
<1>5. CASE Kernel
  BY <1>2, <1>3, <1>4, <1>5, SysCallPreserves DEF Kernel
<1>6. CASE VMM
  BY <1>6, VMMPreserves
<1>7. CASE UNCHANGED vars
  BY <1>7 DEF vars, channel, vmm, IInv, TypeOK, TableAgrees, CallAgrees,
              AnswerAgrees, IdleAgrees, RequestNamesEntry, EndsForCause
<1> QED
  BY <1>5, <1>6, <1>7

LEMMA Invariant == Spec => []IInv
  BY InitIInv, NextIInv, PTL DEF Spec

-----------------------------------------------------------------------------
(* The kernel's and the VMM's state keep their types; in particular no     *)
(* read takes more from a file than it has, nor more than was asked for.   *)
THEOREM TypeCorrect == Spec => []TypeOK
<1>1. IInv => TypeOK
  BY DEF IInv
<1> QED
  BY Invariant, <1>1, PTL

(* While the VMM serves a read, write, lseek or close, the entry that the  *)
(* sys_* function has looked up is in the table, with the descriptor the   *)
(* VMM was sent.                                                           *)
THEOREM RequestsNameEntries == Spec => []RequestNamesEntry
<1>1. IInv => RequestNamesEntry
  BY DEF IInv
<1> QED
  BY Invariant, <1>1, PTL

(* The VMM ends in handle_hypercall only for an exit, a fault or a write.  *)
THEOREM EndHasCause == Spec => []EndsForCause
<1>1. IInv => EndsForCause
  BY DEF IInv
<1> QED
  BY Invariant, <1>1, PTL

(* A system call returns from a read only in ReturnFromRead, with the      *)
(* answer hypercall_read gave.                                             *)
LEMMA ReadReturns ==
  IInv /\ [Kernel \/ VMM]_vars =>
    (call # None /\ call' = None /\ call.op = "read" =>
       x0' = total \/ (x0' = -1 /\ total = 0))
<1> SUFFICES ASSUME IInv, [Kernel \/ VMM]_vars,
                    call # None, call' = None, call.op = "read"
             PROVE  x0' = total \/ (x0' = -1 /\ total = 0)
  OBVIOUS
<1>1. phase # "idle"
  BY DEF IInv, IdleAgrees
<1>2. ~ UNCHANGED call
  OBVIOUS
<1>3. CASE Kernel
  <2>1. ReturnFromRead
    BY <1>1, <1>3
       DEF Kernel, SysOpen, SysRead, SysWrite, SysLseek, SysClose, SysExit,
           SysUnknown, UserFault, InUser, ExitOnFault, ReturnFromClose,
           ReturnFromOther
  <2>2. phase = "served"
    BY <2>1 DEF ReturnFromRead
  <2>3. call' # Call("kernel_fault", None, 0, call.buffer)
    <3>1. call.buffer \in Buffers
      BY <2>2 DEF IInv, AnswerAgrees, Calls
    <3>2. Call("kernel_fault", None, 0, call.buffer) \in Calls
      BY <3>1 DEF Call, Calls
    <3> QED
      BY <3>2, SyscallsAssumption
  <2>4. x0' = reply
    BY <2>1, <2>3 DEF ReturnFromRead
  <2> QED
    BY <2>2, <2>4 DEF IInv, AnswerAgrees
<1>4. CASE VMM
  BY <1>2, <1>4
     DEF VMM, HandleOpen, HandleClose, HandleLseek, HandleExit, WriteDone,
         WritePanics, ReadSome, ReadDone, ReadFails
<1>5. CASE UNCHANGED vars
  BY <1>2, <1>5 DEF vars
<1> QED
  BY <1>3, <1>4, <1>5

(* The bytes hypercall_read took from the host are what sys_read returns.  *)
THEOREM NoByteLost == Spec => BytesReadAreReturned
  BY Invariant, ReadReturns, PTL DEF Spec, BytesReadAreReturned
=============================================================================
