--------------------------- MODULE FrameOwnership ---------------------------
(***************************************************************************)
(* What a physical frame allocator promises its callers: a managed frame   *)
(* passes to an owner only while it has none, and comes back one at a      *)
(* time.  The promise ends, frame by frame, where the allocator answered   *)
(* a request with frames it did not set aside: those are exposed, and may  *)
(* be granted again while they are owned.                                  *)
(***************************************************************************)
EXTENDS Naturals

CONSTANT Frames        \* the frames the allocator manages

VARIABLES
  owners,              \* how many owners each frame has
  exposed              \* the frames that were granted but not set aside

Init ==
  /\ owners = [f \in Frames |-> 0]
  /\ exposed = {}

(* A non-empty set of frames nobody owns, exposed ones excepted, gets one  *)
(* more owner.                                                             *)
Grant(S) ==
  /\ S # {}
  /\ \A f \in S : owners[f] = 0 \/ f \in exposed
  /\ owners' = [f \in Frames |-> IF f \in S THEN owners[f] + 1 ELSE owners[f]]

(* A request is answered with frames that are set aside for it.            *)
Acquire(S) == Grant(S) /\ UNCHANGED exposed

(* A request is answered with frames that are not.                         *)
Expose(S) == Grant(S) /\ exposed' = exposed \cup S

(* An owner gives back one frame.                                          *)
Release(f) ==
  /\ owners[f] > 0
  /\ owners' = [owners EXCEPT ![f] = @ - 1]
  /\ UNCHANGED exposed

Next ==
  \/ \E S \in SUBSET Frames : Acquire(S) \/ Expose(S)
  \/ \E f \in Frames : Release(f)

Spec == Init /\ [][Next]_<<owners, exposed>>
=============================================================================
