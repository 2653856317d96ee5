------------------------------- MODULE FdTable -------------------------------
(***************************************************************************)
(* The descriptor table of kernel/fd.c: one linked list for all processes, *)
(* whose entries name a process, its descriptor and the VMM's.  A list is  *)
(* the sequence of entries from fd_head on.  Operators for the modules     *)
(* that hold such a list; append_fd has no callers and is left out, as is  *)
(* the test for an allocation that returns 0, which never happens.         *)
(***************************************************************************)
EXTENDS Integers, Sequences

Entry(pid, host_fd, k_fd) == [pid |-> pid, host_fd |-> host_fd, k_fd |-> k_fd]

First(S) == CHOOSE i \in S : \A j \in S : i <= j

At(list, pid, k_fd) ==
  {i \in 1 .. Len(list) : list[i].pid = pid /\ list[i].k_fd = k_fd}

(* get_host_fd: the VMM's descriptor, or none for -ENOENT.                 *)
HostFdOf(list, pid, k_fd) ==
  {list[i].host_fd : i \in {j \in At(list, pid, k_fd) :
                              \A h \in At(list, pid, k_fd) : j <= h}}

(***************************************************************************)
(* insert_fd.  The first entry of a table is always for descriptor 0.  An  *)
(* entry goes before the process's first one with a higher descriptor, an  *)
(* entry that is there already stays alone.  Without a higher one the new  *)
(* entry goes to the end if the process is new; if it is not, the second   *)
(* loop, which looks for the entry before new, stops at the head because   *)
(* new is 0, and the head's link is overwritten: all other entries are     *)
(* lost.  To insert before the head would link the list into a cycle; the  *)
(* one caller inserts in ascending order, and no case stands for it here.  *)
(***************************************************************************)
Mine(list, pid) == {i \in 1 .. Len(list) : list[i].pid = pid}

Stops(list, new) ==
  {i \in Mine(list, new.pid) : list[i] = new \/ list[i].k_fd > new.k_fd}

Placed(list, new) ==
  LET at == First(Stops(list, new))
  IN  CASE Stops(list, new) # {} /\ list[at] = new -> list
        [] Stops(list, new) # {} /\ list[at] # new /\ at > 1 ->
             SubSeq(list, 1, at - 1) \o <<new>> \o SubSeq(list, at, Len(list))
        [] Stops(list, new) = {} /\ Mine(list, new.pid) # {} -> <<list[1], new>>
        [] Stops(list, new) = {} /\ Mine(list, new.pid) = {} -> Append(list, new)

InsertFd(list, pid, host_fd, k_fd) ==
  IF list = << >> THEN <<Entry(pid, host_fd, 0)>>
  ELSE Placed(list, Entry(pid, host_fd, k_fd))

(* The three calls at the end of sys_execve, into an empty table.          *)
StandardFds(pid) ==
  LET one == InsertFd(<< >>, pid, 0, 0)
      two == InsertFd(one, pid, 1, 1)
  IN  InsertFd(two, pid, 2, 2)

(* The entries delete_fd stops at.  Without one it returns on an empty     *)
(* list and otherwise goes round the last entry for ever.                  *)
Deletable(list, pid, host_fd, k_fd) ==
  {i \in 1 .. Len(list) : list[i] = Entry(pid, host_fd, k_fd)}

DeleteFd(list, pid, host_fd, k_fd) ==
  LET at == First(Deletable(list, pid, host_fd, k_fd))
  IN  SubSeq(list, 1, at - 1) \o SubSeq(list, at + 1, Len(list))
=============================================================================
