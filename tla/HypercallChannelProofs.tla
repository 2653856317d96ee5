----------------------- MODULE HypercallChannelProofs -----------------------
(***************************************************************************)
(* For every number of blocks, every table of answers and every length of  *)
(* an address: the VMM decodes each request from the bytes of one call     *)
(* only, and a hypercall is a remote call.                                 *)
(***************************************************************************)
EXTENDS HypercallChannel, TLAPS

(* What ties the two sides together between the bytes: the VMM serves only *)
(* while the guest waits inside a complete call, and until it is served    *)
(* the block of the call holds the request.                                *)
CallAgrees ==
  /\ guest = "sending" => io_call \in Blocks
  /\ guest = "kernel" => vmm = "running"
  /\ vmm # "running" => sent = AddressBytes
  /\ guest = "sending" /\ (sent < AddressBytes \/ vmm # "running")
       => word0[io_call] \in Requests

(* FramingAgrees is not inductive alone: that a byte is the last one       *)
(* expected, and that serving ends the framing of this very call, follow   *)
(* from CallAgrees.                                                        *)
IInv == TypeOK /\ FramingAgrees /\ CallAgrees

-----------------------------------------------------------------------------
(* At start no call is under way.                                          *)
LEMMA InitIInv == Init => IInv
<1> SUFFICES ASSUME Init PROVE IInv
  OBVIOUS
<1>1. TypeOK
  BY ChannelAssumption DEF Init, TypeOK
<1>2. FramingAgrees /\ CallAgrees
  BY DEF Init, FramingAgrees, CallAgrees
<1> QED
  BY <1>1, <1>2 DEF IInv

(* In the VMM's handler the buffer decodes to the block of the call in     *)
(* progress and to no other.                                               *)
LEMMA DecodesTheCall ==
  ASSUME IInv, vmm = "handling", NEW b \in Blocks, Decodes(b)
  PROVE  b = io_call /\ guest = "sending" /\ word0[b] \in Requests
<1>1. guest = "sending" /\ sent = AddressBytes
  BY DEF IInv, TypeOK, CallAgrees
<1>2. recv_buffer = [i \in 1 .. sent |-> AddressByte(io_call, i)]
  BY <1>1 DEF IInv, FramingAgrees
<1>3. 1 \in 1 .. AddressBytes
  BY ChannelAssumption
<1>4. AddressByte(b, 1) = AddressByte(io_call, 1)
  BY <1>1, <1>2, <1>3 DEF Decodes
<1>5. b = io_call
  BY <1>4 DEF AddressByte
<1> QED
  BY <1>1, <1>5 DEF IInv, CallAgrees

(* A byte the guest sends extends the buffer by exactly that byte, and the *)
(* VMM starts to serve exactly when it is the last.                        *)
LEMMA SendByteExtends ==
  ASSUME IInv, SendByte
  PROVE  /\ sent \in 0 .. AddressBytes - 1
         /\ recv_buffer' = [i \in 1 .. sent + 1 |-> AddressByte(io_call, i)]
         /\ vmm' = IF sent + 1 = AddressBytes THEN "handling" ELSE "running"
<1>1. sent \in 0 .. AddressBytes - 1
  BY ChannelAssumption DEF IInv, TypeOK, SendByte, MoreToSend
<1>2. recv_buffer = [i \in 1 .. sent |-> AddressByte(io_call, i)]
  BY <1>1, ChannelAssumption
     DEF IInv, FramingAgrees, SendByte, MoreToSend
<1>3. recv_buffer \in Seq(Blocks \X (1 .. AddressBytes)) /\ Len(recv_buffer) = sent
  BY <1>1, <1>2 DEF IInv, TypeOK
<1>4. recv_buffer' = Append(recv_buffer, AddressByte(io_call, sent + 1))
  BY DEF SendByte
<1>5. recv_buffer' = [i \in 1 .. sent + 1 |-> AddressByte(io_call, i)]
  BY <1>1, <1>2, <1>3, <1>4
<1>6. Len(recv_buffer') = sent + 1
  BY <1>1, <1>5
<1>7. Complete(Len(recv_buffer')) <=> sent + 1 = AddressBytes
  BY <1>1, <1>6, ChannelAssumption DEF Complete
<1> QED
  BY <1>1, <1>5, <1>7 DEF SendByte

(* The byte sent is the next of the address, so the framing continues.     *)
LEMMA SendBytePreserves ==
  ASSUME IInv, SendByte
  PROVE  IInv'
<1>1. /\ guest = "sending" /\ vmm = "running" /\ io_call \in Blocks
      /\ guest' = guest /\ io_call' = io_call /\ word0' = word0
      /\ sent' = sent + 1
      /\ word0[io_call] \in Requests
  BY SendByteExtends, ChannelAssumption
     DEF SendByte, MoreToSend, IInv, CallAgrees
<1>2. TypeOK'
  <2>1. \A i \in 1 .. sent + 1 :
          AddressByte(io_call, i) \in Blocks \X (1 .. AddressBytes)
    BY <1>1, SendByteExtends, ChannelAssumption DEF AddressByte
  <2>2. /\ recv_buffer' \in Seq(Blocks \X (1 .. AddressBytes))
        /\ Len(recv_buffer') = sent + 1
    BY <2>1, SendByteExtends
  <2> QED
    BY <1>1, <2>2, SendByteExtends, ChannelAssumption DEF IInv, TypeOK
<1>3. FramingAgrees'
  BY <1>1, SendByteExtends, ChannelAssumption DEF FramingAgrees
<1>4. CallAgrees'
  BY <1>1, SendByteExtends, ChannelAssumption DEF CallAgrees
<1> QED
  BY <1>2, <1>3, <1>4 DEF IInv

(* Every step of the guest and of the VMM preserves IInv.                  *)
LEMMA NextIInv == IInv /\ [Next]_channel => IInv'
<1> SUFFICES ASSUME IInv, [Next]_channel PROVE IInv'
  OBVIOUS
<1>1. ASSUME NEW q \in Requests, BeginCall(q)
      PROVE  IInv'
  <2>1. PICK b \in Blocks : io_call' = b /\ word0' = [word0 EXCEPT ![b] = q]
    BY <1>1 DEF BeginCall
  <2>2. recv_buffer = << >>
    BY <1>1 DEF IInv, FramingAgrees, BeginCall
  <2>3. TypeOK'
    BY <1>1, <2>1, ChannelAssumption DEF IInv, TypeOK, BeginCall
  <2>4. FramingAgrees'
    <3>1. << >> = [i \in 1 .. 0 |-> AddressByte(b, i)]
      OBVIOUS
    <3> QED
      BY <1>1, <2>1, <2>2, <3>1 DEF FramingAgrees, BeginCall
  <2>5. CallAgrees'
    BY <1>1, <2>1 DEF IInv, TypeOK, CallAgrees, BeginCall
  <2> QED
    BY <2>3, <2>4, <2>5 DEF IInv
<1>2. CASE SendByte
  BY <1>2, SendBytePreserves
<1>3. ASSUME NEW b \in Blocks, NEW r \in Replies, Served(b, r)
      PROVE  IInv'
  <2>1. b = io_call /\ guest = "sending" /\ sent = AddressBytes
    BY <1>3, DecodesTheCall DEF Served, IInv, CallAgrees
  <2>2. TypeOK'
    BY <1>3, ChannelAssumption DEF IInv, TypeOK, Served
  <2>3. FramingAgrees'
    BY <1>3, <2>1, ChannelAssumption DEF FramingAgrees, Served
  <2>4. CallAgrees'
    BY <1>3, <2>1, ChannelAssumption DEF CallAgrees, Served
  <2> QED
    BY <2>2, <2>3, <2>4 DEF IInv
<1>4. ASSUME NEW b \in Blocks, Ended(b)
      PROVE  IInv'
  <2>1. b = io_call /\ guest = "sending" /\ sent = AddressBytes
    BY <1>4, DecodesTheCall DEF Ended, IInv, CallAgrees
  <2> QED
    BY <1>4, <2>1
       DEF IInv, TypeOK, FramingAgrees, CallAgrees, Ended
<1>5. CASE FinishCall
  <2>1. recv_buffer = << >>
    BY <1>5, ChannelAssumption
       DEF IInv, TypeOK, FramingAgrees, FinishCall, MoreToSend
  <2>2. TypeOK'
    <3>1. 0 \in 0 .. AddressBytes
      BY ChannelAssumption
    <3> QED
      BY <1>5, <3>1 DEF IInv, TypeOK, FinishCall
  <2>3. FramingAgrees' /\ CallAgrees'
    BY <1>5, <2>1 DEF FramingAgrees, CallAgrees, FinishCall
  <2> QED
    BY <2>2, <2>3 DEF IInv
<1>6. CASE UNCHANGED channel
  BY <1>6 DEF channel, IInv, TypeOK, FramingAgrees, CallAgrees
<1> QED
  BY <1>1, <1>2, <1>3, <1>4, <1>5, <1>6 DEF Next

LEMMA Invariant == Spec => []IInv
  BY InitIInv, NextIInv, PTL DEF Spec

(* The channel's variables keep their types: recv_buffer never grows past  *)
(* an address, and sent never past its last byte.                          *)
THEOREM TypeCorrect == Spec => []TypeOK
<1>1. IInv => TypeOK
  BY DEF IInv
<1> QED
  BY Invariant, <1>1, PTL

(* The bytes that runloop holds back are those of the call in progress,    *)
(* and none survive the call.                                              *)
THEOREM Framing == Spec => []FramingAgrees
<1>1. IInv => FramingAgrees
  BY DEF IInv
<1> QED
  BY Invariant, <1>1, PTL

-----------------------------------------------------------------------------
(* The abstract request and reply, by the phase of the call.               *)
Request == IF phase \in {"called", "ended"} THEN word0[io_call] ELSE None
Reply   == IF phase = "served" THEN word0[io_call] ELSE None

(* A call being sent or handled is "called"; once the VMM has answered it  *)
(* is "served" until io_hypercall returns.                                 *)
PhaseMeans ==
  /\ phase = "idle" <=> guest = "kernel"
  /\ phase = "served" <=>
       vmm = "running" /\ guest = "sending" /\ sent = AddressBytes
  /\ phase = "ended" <=> vmm = "ended"
  /\ phase = "called" <=>
       /\ guest = "sending"
       /\ vmm # "ended"
       /\ sent < AddressBytes \/ vmm = "handling"

(* The four phases tell apart what guest, sent and vmm tell apart.         *)
LEMMA Phases == IInv => PhaseMeans
<1> SUFFICES ASSUME IInv PROVE PhaseMeans
  OBVIOUS
<1>1. /\ guest \in {"kernel", "sending"}
      /\ vmm \in {"running", "handling", "ended"}
      /\ sent \in 0 .. AddressBytes
      /\ guest = "kernel" => vmm = "running"
      /\ vmm # "running" => sent = AddressBytes
  BY DEF IInv, TypeOK, CallAgrees
<1>2. CASE vmm = "ended"
  BY <1>1, <1>2, ChannelAssumption DEF phase, PhaseMeans
<1>3. CASE guest = "kernel"
  BY <1>1, <1>3, ChannelAssumption DEF phase, PhaseMeans
<1>4. CASE vmm = "running" /\ guest = "sending" /\ sent = AddressBytes
  BY <1>1, <1>4, ChannelAssumption DEF phase, PhaseMeans
<1>5. CASE /\ guest = "sending" /\ vmm # "ended"
           /\ sent < AddressBytes \/ vmm = "handling"
  <2>1. phase = "called"
    BY <1>1, <1>5, ChannelAssumption DEF phase
  <2> QED
    BY <1>1, <1>5, <2>1, ChannelAssumption DEF PhaseMeans
<1> QED
  BY <1>1, <1>2, <1>3, <1>4, <1>5, ChannelAssumption

(* The kernel outside a hypercall is an idle remote call.                  *)
LEMMA InitRefines == Init => Remote!Init
<1> SUFFICES ASSUME Init PROVE Remote!Init
  OBVIOUS
<1>1. phase = "idle"
  BY InitIInv, Phases DEF Init, PhaseMeans
<1> QED
  BY <1>1 DEF Remote!Init

(* Each step is a step of the remote call or changes none of it: io_hyper- *)
(* call's first write is Call, handle_hypercall is Serve or End, the read  *)
(* of the answer is Return, and a byte sent is invisible.                  *)
LEMMA NextRefines ==
  IInv /\ PhaseMeans /\ IInv' /\ PhaseMeans' /\ [Next]_channel
    => [Remote!Next]_<<phase, Request, Reply>>
<1> SUFFICES ASSUME IInv, PhaseMeans, IInv', PhaseMeans', [Next]_channel
             PROVE  [Remote!Next]_<<phase, Request, Reply>>
  OBVIOUS
<1>1. ASSUME NEW q \in Requests, BeginCall(q)
      PROVE  Remote!Next
  <2>1. phase = "idle" /\ phase' = "called"
    BY <1>1, ChannelAssumption DEF BeginCall, PhaseMeans
  <2>2. Request = None /\ Reply = None /\ Request' = q /\ Reply' = None
    BY <1>1, <2>1 DEF BeginCall, IInv, TypeOK, Request, Reply
  <2> QED
    BY <2>1, <2>2 DEF Remote!Next, Remote!Call, Requests, Request, Reply
<1>2. CASE SendByte
  <2>1. phase = "called" /\ phase' = "called"
    BY <1>2, SendByteExtends, ChannelAssumption DEF SendByte, PhaseMeans
  <2> QED
    BY <1>2, <2>1 DEF SendByte, Request, Reply
<1>3. ASSUME NEW b \in Blocks, NEW r \in Replies, Served(b, r)
      PROVE  Remote!Next
  <2>1. b = io_call /\ guest = "sending" /\ word0[b] \in Requests
    BY <1>3, DecodesTheCall DEF Served
  <2>2. phase = "called" /\ phase' = "served"
    BY <1>3, <2>1, ChannelAssumption
       DEF Served, PhaseMeans, IInv, CallAgrees
  <2>3. Request = word0[b] /\ r \in Answers[Request]
    BY <1>3, <2>1, <2>2 DEF Served, Request
  <2>4. Request' = None /\ Reply' = r
    BY <1>3, <2>1, <2>2 DEF Served, IInv, TypeOK, Request, Reply
  <2> QED
    BY <2>2, <2>3, <2>4
       DEF Remote!Next, Remote!Serve, Replies, Requests, Request, Reply
<1>4. ASSUME NEW b \in Blocks, Ended(b)
      PROVE  Remote!Next
  <2>1. phase = "called" /\ phase' = "ended"
    BY <1>4, DecodesTheCall, ChannelAssumption DEF Ended, PhaseMeans
  <2>2. Request' = Request /\ Reply' = Reply
    BY <1>4, <2>1 DEF Ended, Request, Reply
  <2> QED
    BY <2>1, <2>2 DEF Remote!Next, Remote!End, Request, Reply
<1>5. CASE FinishCall
  <2>1. phase = "served" /\ phase' = "idle"
    BY <1>5, ChannelAssumption
       DEF FinishCall, MoreToSend, PhaseMeans, IInv, TypeOK
  <2> QED
    BY <2>1 DEF Remote!Next, Remote!Return, Request, Reply
<1>6. CASE UNCHANGED channel
  BY <1>6 DEF channel, phase, Request, Reply
<1> QED
  BY <1>1, <1>2, <1>3, <1>4, <1>5, <1>6 DEF Next

(* A hypercall is a remote call: io_hypercall returns what the VMM         *)
(* answered to its own request, each request is served once, and after the *)
(* VMM has ended in a handler the guest does nothing more.                 *)
THEOREM Refinement == Spec => RefinesRemoteCall
<1>1. Init => Remote!Init
  BY InitRefines
<1>2. IInv /\ PhaseMeans /\ IInv' /\ PhaseMeans' /\ [Next]_channel
        => [Remote!Next]_<<phase, Request, Reply>>
  BY NextRefines
<1> QED
  BY <1>1, <1>2, Invariant, Phases, PTL
     DEF Spec, RefinesRemoteCall, Remote!Spec, Request, Reply
=============================================================================
