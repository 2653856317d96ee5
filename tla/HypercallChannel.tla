-------------------------- MODULE HypercallChannel --------------------------
(***************************************************************************)
(* The hypercall channel between the guest kernel and the VMM.             *)
(*                                                                         *)
(* io_hypercall (kernel/hypercall.c) writes the request into a block of    *)
(* shared memory and sends the block's address, byte by byte, to the       *)
(* second UART.  Every byte is an MMIO exit: runloop (main.rs) appends it  *)
(* to recv_buffer, and on the last byte decodes the address, serves the    *)
(* request in place, clears the buffer and lets the guest go on.  The      *)
(* guest reads the answer from the first word of the block.                *)
(*                                                                         *)
(* The guest stands still during an exit, so a byte sent and the VMM's     *)
(* handling of it are one step; serving a request is a step of its own.    *)
(***************************************************************************)
EXTENDS Naturals, Sequences

CONSTANTS
  Blocks,         \* shared memory blocks scalloc may return
  Answers,        \* what the VMM may answer to each request, a function
  AddressBytes,   \* 8: bytes of an address, sent and awaited
  None

Requests == DOMAIN Answers
Replies  == UNION {Answers[q] : q \in Requests}

ASSUME ChannelAssumption ==
  /\ AddressBytes \in Nat \ {0}
  /\ None \notin Requests \cup Replies \cup Blocks

VARIABLES
  guest,          \* "kernel", or "sending" while in io_hypercall
  io_call,        \* the block of the call in progress
  word0,          \* first word of each block: request, then answer
  sent,           \* bytes of io_call's address sent
  recv_buffer,    \* UartDevice.recv_buffer of the second UART
  vmm             \* "running" the guest, "handling" a request, or "ended"

channel == <<guest, io_call, word0, sent, recv_buffer, vmm>>

(* The i-th byte of the address of block b.                                *)
AddressByte(b, i) == <<b, i>>

TypeOK ==
  /\ guest \in {"kernel", "sending"}
  /\ io_call \in Blocks \cup {None}
  /\ word0 \in [Blocks -> Requests \cup Replies \cup {None}]
  /\ sent \in 0 .. AddressBytes
  /\ recv_buffer \in Seq(Blocks \X (1 .. AddressBytes))
  /\ Len(recv_buffer) <= AddressBytes
  /\ vmm \in {"running", "handling", "ended"}

Init ==
  /\ guest = "kernel"
  /\ io_call = None
  /\ word0 = [b \in Blocks |-> None]
  /\ sent = 0
  /\ recv_buffer = << >>
  /\ vmm = "running"

(* io_hypercall up to uart_syscall_write.                                  *)
BeginCall(q) ==
  /\ vmm = "running"
  /\ guest = "kernel"
  /\ \E b \in Blocks :
       /\ io_call' = b
       /\ word0' = [word0 EXCEPT ![b] = q]
  /\ guest' = "sending"
  /\ sent' = 0
  /\ UNCHANGED <<recv_buffer, vmm>>

(* Mutants: the loop of uart_syscall_send_byte_array stops a byte early, or *)
(* late.                                                                   *)
MoreToSendShort == sent < AddressBytes - 1
MoreToSendLong  == sent <= AddressBytes

MoreToSend == sent < AddressBytes

(* Mutant: runloop waits for a byte more than an address has.              *)
CompleteLate(n) == n > AddressBytes

Complete(n) == n >= AddressBytes

(* One turn of uart_syscall_send_byte_array, and the VMM's handling of the *)
(* write to the data register of the second UART.                          *)
SendByte ==
  /\ vmm = "running"
  /\ guest = "sending"
  /\ MoreToSend
  /\ sent' = sent + 1
  /\ recv_buffer' = Append(recv_buffer, AddressByte(io_call, sent'))
  /\ vmm' = IF Complete(Len(recv_buffer')) THEN "handling" ELSE "running"
  /\ UNCHANGED <<guest, io_call, word0>>

(* LittleEndian::read_u64 of the first bytes in the buffer.                *)
Decodes(b) == \A i \in 1 .. AddressBytes : recv_buffer[i] = AddressByte(b, i)

(* handle_hypercall returns: the answer is in the block, the buffer empty. *)
(* Mutant: the buffer is not cleared.                                      *)
ServedUncleared(b, r) ==
  /\ vmm = "handling"
  /\ Decodes(b)
  /\ word0[b] \in Requests => r \in Answers[word0[b]]
  /\ word0' = [word0 EXCEPT ![b] = r]
  /\ vmm' = "running"
  /\ UNCHANGED <<guest, io_call, sent, recv_buffer>>

Served(b, r) ==
  /\ vmm = "handling"
  /\ Decodes(b)
  /\ word0[b] \in Requests => r \in Answers[word0[b]]
  /\ word0' = [word0 EXCEPT ![b] = r]
  /\ recv_buffer' = << >>
  /\ vmm' = "running"
  /\ UNCHANGED <<guest, io_call, sent>>

(* handle_hypercall does not return: libc::exit, or an unwrap that panics. *)
Ended(b) ==
  /\ vmm = "handling"
  /\ Decodes(b)
  /\ vmm' = "ended"
  /\ UNCHANGED <<guest, io_call, word0, sent, recv_buffer>>

(* The rest of io_hypercall: the answer is read and the block freed.       *)
FinishCall ==
  /\ vmm = "running"
  /\ guest = "sending"
  /\ ~ MoreToSend
  /\ guest' = "kernel"
  /\ io_call' = None
  /\ word0' = [word0 EXCEPT ![io_call] = None]
  /\ sent' = 0
  /\ UNCHANGED <<recv_buffer, vmm>>

Next ==
  \/ \E q \in Requests : BeginCall(q)
  \/ SendByte
  \/ \E b \in Blocks, r \in Replies : Served(b, r)
  \/ \E b \in Blocks : Ended(b)
  \/ FinishCall

Spec == Init /\ [][Next]_channel

(* The guest's processor keeps executing, and KVM_RUN keeps returning.     *)
FairSpec == Spec /\ WF_channel(SendByte) /\ WF_channel(FinishCall)

-----------------------------------------------------------------------------
(* The bytes buffered in the VMM are the ones the guest has sent of the    *)
(* address of the call in progress, and none are left over when it         *)
(* resumes: a request is never decoded from bytes of two calls.            *)
FramingAgrees ==
  recv_buffer = IF guest = "sending" /\ (sent < AddressBytes \/ vmm # "running")
                THEN [i \in 1 .. sent |-> AddressByte(io_call, i)]
                ELSE << >>

(* The call as the guest sees it.                                          *)
phase ==
  CASE vmm = "ended"                                        -> "ended"
    [] vmm # "ended" /\ guest = "kernel"                    -> "idle"
    [] vmm = "running" /\ guest = "sending" /\ sent = AddressBytes -> "served"
    [] OTHER                                                -> "called"

Remote == INSTANCE RemoteCall WITH
  request <- IF phase \in {"called", "ended"} THEN word0[io_call] ELSE None,
  reply   <- IF phase = "served" THEN word0[io_call] ELSE None

(* A hypercall is a remote call: it returns the answer to its own request, *)
(* the request is served once, and nothing follows the VMM's end.          *)
RefinesRemoteCall == Remote!Spec

(* The VMM gets every request the guest begins to send.                    *)
RequestArrives == guest = "sending" /\ sent = 0 ~> vmm # "running"
=============================================================================
