------------------------ MODULE FrameAllocatorProofs ------------------------
(***************************************************************************)
(* For every size of the managed memory and every mixture of requests, of  *)
(* whatever lengths: the count kept by hand is never below the number of   *)
(* free frames, a frame is granted twice only if kframe_allocate_range     *)
(* gave it away unmarked, and the allocator implements FrameOwnership.     *)
(***************************************************************************)
EXTENDS FrameAllocator, FiniteSetTheorems, WellFoundedInduction, TLAPS

(* Each conjunct is inductive only together with the others: the marks     *)
(* decide which frames a request gets, the owners decide which frames may  *)
(* be freed, and a frame that is owned without a mark is known by its      *)
(* exposure.                                                               *)
IInv == TypeOK /\ AccountingExact /\ OwnedIffUsed /\ ExclusiveFrames

-----------------------------------------------------------------------------
(* A non-empty set of natural numbers has a least element.                 *)
LEMMA LeastElement ==
  ASSUME NEW S \in SUBSET Nat, S # {}
  PROVE  \E x \in S : \A y \in S : x <= y
<1> DEFINE R == OpToRel(<, Nat)
<1>1. IsWellFoundedOn(R, Nat)
  BY NatLessThanWellFounded
<1>2. ASSUME NEW x \in Nat, NEW y \in Nat, y < x
      PROVE  <<y, x>> \in R
  BY <1>2 DEF OpToRel
<1> HIDE DEF R
<1>3. PICK x \in S : \A y \in S : ~ (<<y, x>> \in R)
  BY <1>1, WFMin
<1>4. ASSUME NEW y \in S
      PROVE  x <= y
  <2>1. ~ (<<y, x>> \in R) /\ x \in Nat /\ y \in Nat
    BY <1>3
  <2>2. ~ (y < x)
    BY <2>1, <1>2
  <2> QED
    BY <2>1, <2>2
<1> QED
  BY <1>4

(* The bitmap has a byte for every managed frame.                          *)
LEMMA FramesAreSlots == Frames \subseteq Slots
  BY FrameCountAssumption, BitmapAssumption DEF Frames, Slots

(* The free frames can be counted.                                         *)
LEMMA FreeFramesFinite ==
  /\ IsFiniteSet(FreeFrames)
  /\ Cardinality(FreeFrames) \in Nat
<1>1. IsFiniteSet(Frames)
  BY FS_Interval, FrameCountAssumption DEF Frames
<1>2. FreeFrames \subseteq Frames
  BY DEF FreeFrames
<1>3. IsFiniteSet(FreeFrames)
  BY <1>1, <1>2, FS_Subset
<1> QED
  BY <1>3, FS_CardinalityType

(* Initially everything is free and the count says so.                     *)
LEMMA InitIInv == Init => IInv
<1> SUFFICES ASSUME Init PROVE IInv
  OBVIOUS
<1>1. TypeOK
  BY FrameCountAssumption, BoundAssumption DEF Init, TypeOK
<1>2. AccountingExact
  <2>1. FreeFrames = Frames
    BY FramesAreSlots DEF Init, FreeFrames
  <2>2. Cardinality(Frames) = FrameCount
    BY FS_Interval, FrameCountAssumption DEF Frames
  <2> QED
    BY <2>1, <2>2, FrameCountAssumption DEF AccountingExact, Init
<1>3. OwnedIffUsed
  BY FramesAreSlots DEF Init, OwnedIffUsed, KFRAME_FREE, KFRAME_USED
<1>4. ExclusiveFrames
  BY DEF Init, ExclusiveFrames
<1> QED
  BY <1>1, <1>2, <1>3, <1>4 DEF IInv

(* A free frame has no owner, unless it is exposed.                        *)
LEMMA FreeUnlessExposed ==
  ASSUME IInv, NEW f \in FreeFrames
  PROVE  holders[f] = 0 \/ exposed[f] > 0
  BY FramesAreSlots DEF IInv, TypeOK, OwnedIffUsed, FreeFrames, KFRAME_FREE,
                        KFRAME_USED

(* Granting a set of free frames, all of them marked, preserves IInv.      *)
LEMMA GrantPreserves ==
  ASSUME IInv, NEW S \in SUBSET FreeFrames, Mark(S), Own(S)
  PROVE  IInv'
<1>1. /\ S \subseteq Frames
      /\ S \subseteq Slots
      /\ \A s \in S : bitmap_frame[s] = KFRAME_FREE
  BY FramesAreSlots DEF FreeFrames
<1>2. IsFiniteSet(S) /\ Cardinality(S) \in Nat
  BY FreeFramesFinite, FS_Subset, FS_CardinalityType
<1>3. TypeOK'
  BY <1>2 DEF IInv, TypeOK, Mark, Own
<1>4. AccountingExact'
  <2>1. FreeFrames' = FreeFrames \ S
    BY FramesAreSlots DEF Mark, FreeFrames, KFRAME_FREE, KFRAME_USED
  <2> DEFINE Rest == FreeFrames \ S
  <2>2. IsFiniteSet(Rest) /\ Cardinality(Rest) \in Nat
    BY FreeFramesFinite, FS_Subset, FS_CardinalityType
  <2>3. FreeFrames = Rest \cup S /\ Rest \cap S = {}
    OBVIOUS
  <2>4. Cardinality(FreeFrames) =
          Cardinality(Rest) + Cardinality(S) - Cardinality(Rest \cap S)
    BY <1>2, <2>2, <2>3, FS_Union
  <2>5. Cardinality(Rest \cap S) = 0
    BY <2>3, FS_EmptySet
  <2>6. /\ available_frame_count' = available_frame_count - Cardinality(S)
        /\ exposed' = exposed
        /\ available_frame_count \in Int
    BY DEF Mark, IInv, TypeOK
  <2>7. Cardinality(FreeFrames) = Cardinality(Rest) + Cardinality(S)
    BY <1>2, <2>2, <2>4, <2>5
  <2> HIDE DEF Rest
  <2> QED
    BY <1>2, <2>1, <2>2, <2>6, <2>7 DEF IInv, AccountingExact, Rest
<1>5. OwnedIffUsed'
  <2>1. ASSUME NEW f \in Frames, bitmap_frame'[f] = KFRAME_USED
        PROVE  holders'[f] > 0
    <3>1. CASE f \in S
      BY <3>1, <1>1 DEF IInv, TypeOK, Own
    <3>2. CASE f \notin S
      BY <2>1, <3>2, FramesAreSlots DEF IInv, OwnedIffUsed, Mark, Own
    <3> QED
      BY <3>1, <3>2
  <2>2. ASSUME NEW s \in Slots, holders'[s] > 0
        PROVE  \/ s \in Frames /\ bitmap_frame'[s] = KFRAME_USED
               \/ exposed'[s] > 0
    <3>1. CASE s \in S
      BY <3>1, <1>1 DEF Mark
    <3>2. CASE s \notin S
      BY <2>2, <3>2 DEF IInv, OwnedIffUsed, Mark, Own
    <3> QED
      BY <3>1, <3>2
  <2> QED
    BY <2>1, <2>2 DEF OwnedIffUsed
<1>6. ExclusiveFrames'
  <2> SUFFICES ASSUME NEW s \in Slots, holders'[s] > 1
               PROVE  exposed'[s] > 0
    BY DEF ExclusiveFrames
  <2>1. CASE s \in S
    <3>1. holders'[s] = holders[s] + 1 /\ exposed'[s] = exposed[s]
      BY <2>1 DEF Own, Mark
    <3> QED
      BY <2>1, <3>1, FreeUnlessExposed
  <2>2. CASE s \notin S
    BY <2>2 DEF IInv, ExclusiveFrames, Own, Mark
  <2> QED
    BY <2>1, <2>2
<1> QED
  BY <1>3, <1>4, <1>5, <1>6 DEF IInv

(* Granting a set of slots unmarked exposes every one of them and touches  *)
(* neither the marks nor the count.                                        *)
LEMMA LeaveUnmarkedPreserves ==
  ASSUME IInv, NEW S, LeaveUnmarked(S), Own(S)
  PROVE  IInv'
<1>1. /\ bitmap_frame' = bitmap_frame
      /\ available_frame_count' = available_frame_count
      /\ FreeFrames' = FreeFrames
  BY DEF LeaveUnmarked, FreeFrames
<1>2. ASSUME NEW s \in Slots
      PROVE  \/ /\ s \in S
                /\ exposed'[s] = exposed[s] + 1 /\ exposed[s] < MaxExposed
                /\ holders'[s] = holders[s] + 1
             \/ exposed'[s] = exposed[s] /\ holders'[s] = holders[s]
  BY DEF LeaveUnmarked, Own
<1>3. ASSUME NEW s \in Slots
      PROVE  /\ exposed[s] \in 0 .. MaxExposed /\ exposed'[s] \in 0 .. MaxExposed
             /\ holders[s] \in Nat /\ holders'[s] \in Nat
  <2>1. exposed[s] \in 0 .. MaxExposed /\ holders[s] \in Nat
    BY DEF IInv, TypeOK
  <2> QED
    BY <1>2, <2>1, BoundAssumption
<1>4. TypeOK'
  <2>1. exposed' = [s \in Slots |-> exposed'[s]]
        /\ holders' = [s \in Slots |-> holders'[s]]
    BY DEF LeaveUnmarked, Own
  <2> QED
    BY <1>1, <1>3, <2>1 DEF IInv, TypeOK
<1>5. AccountingExact'
  <2>1. (\A s \in Slots : exposed'[s] = 0) => (\A s \in Slots : exposed[s] = 0)
    BY <1>2, <1>3
  <2> QED
    BY <1>1, <2>1 DEF IInv, AccountingExact
<1>6. OwnedIffUsed'
  BY <1>1, <1>2, <1>3, FramesAreSlots DEF IInv, OwnedIffUsed
<1>7. ExclusiveFrames'
  BY <1>2, <1>3 DEF IInv, ExclusiveFrames
<1> QED
  BY <1>4, <1>5, <1>6, <1>7 DEF IInv

(* Giving back a frame that is marked adds exactly one free frame; giving  *)
(* back one that is not, which only exposed frames are, adds one to the    *)
(* count at most.                                                          *)
LEMMA FreePreserves ==
  ASSUME IInv, NEW s \in Slots, Free(s)
  PROVE  IInv'
<1>1. /\ holders' = [holders EXCEPT ![s] = @ - 1]
      /\ exposed' = exposed
      /\ holders[s] > 0 /\ holders[s] \in Nat
      /\ \/ /\ bitmap_frame' = [bitmap_frame EXCEPT ![s] = KFRAME_FREE]
            /\ available_frame_count' = available_frame_count + 1
         \/ /\ bitmap_frame' = bitmap_frame
            /\ available_frame_count' = available_frame_count
            /\ s \notin Frames
  BY FrameCountAssumption DEF Free, Frames, IInv, TypeOK
<1>2. TypeOK'
  BY <1>1 DEF IInv, TypeOK
<1>3. AccountingExact'
  <2>1. CASE s \in Frames /\ bitmap_frame[s] = KFRAME_USED
    <3>1. FreeFrames' = FreeFrames \cup {s}
      BY <1>1, <2>1, FramesAreSlots DEF IInv, TypeOK, FreeFrames
    <3>2. s \notin FreeFrames
      BY <2>1 DEF FreeFrames, KFRAME_FREE, KFRAME_USED
    <3>3. Cardinality(FreeFrames') = Cardinality(FreeFrames) + 1
      BY <3>1, <3>2, FreeFramesFinite, FS_AddElement
    <3>4. available_frame_count' = available_frame_count + 1
      BY <1>1, <2>1
    <3> QED
      BY <1>1, <3>3, <3>4, FreeFramesFinite DEF IInv, TypeOK, AccountingExact
  <2>2. CASE ~ (s \in Frames /\ bitmap_frame[s] = KFRAME_USED)
    <3>1. exposed'[s] > 0
      BY <1>1, <2>2 DEF IInv, OwnedIffUsed
    <3>2. FreeFrames' = FreeFrames
      BY <1>1, <2>2, FramesAreSlots DEF IInv, TypeOK, FreeFrames
    <3>3. available_frame_count' >= available_frame_count
      BY <1>1 DEF IInv, TypeOK
    <3>4. Cardinality(FreeFrames) <= available_frame_count'
      BY <1>1, <3>3, FreeFramesFinite DEF IInv, TypeOK, AccountingExact
    <3>5. ~ (\A t \in Slots : exposed'[t] = 0)
      BY <3>1
    <3> QED
      BY <3>2, <3>4, <3>5 DEF AccountingExact
  <2> QED
    BY <2>1, <2>2
<1>4. OwnedIffUsed'
  <2>1. ASSUME NEW f \in Frames, bitmap_frame'[f] = KFRAME_USED
        PROVE  holders'[f] > 0
    <3>1. f # s
      BY <1>1, <2>1, FramesAreSlots DEF IInv, TypeOK, KFRAME_FREE, KFRAME_USED
    <3>2. bitmap_frame[f] = KFRAME_USED /\ holders'[f] = holders[f]
      BY <1>1, <2>1, <3>1, FramesAreSlots DEF IInv, TypeOK
    <3> QED
      BY <3>2 DEF IInv, OwnedIffUsed
  <2>2. ASSUME NEW t \in Slots, holders'[t] > 0
        PROVE  \/ t \in Frames /\ bitmap_frame'[t] = KFRAME_USED
               \/ exposed'[t] > 0
    <3>1. CASE t = s
      <4>1. holders[s] > 1
        BY <1>1, <2>2, <3>1 DEF IInv, TypeOK
      <4> QED
        BY <1>1, <3>1, <4>1 DEF IInv, ExclusiveFrames
    <3>2. CASE t # s
      <4>1. holders'[t] = holders[t] /\ bitmap_frame'[t] = bitmap_frame[t]
        BY <1>1, <3>2 DEF IInv, TypeOK
      <4> QED
        BY <1>1, <2>2, <4>1 DEF IInv, OwnedIffUsed
    <3> QED
      BY <3>1, <3>2
  <2> QED
    BY <2>1, <2>2 DEF OwnedIffUsed
<1>5. ExclusiveFrames'
  <2> SUFFICES ASSUME NEW t \in Slots, holders'[t] > 1
               PROVE  exposed'[t] > 0
    BY DEF ExclusiveFrames
  <2>1. holders[t] \in Nat /\ (holders'[t] = holders[t] \/ holders'[t] = holders[t] - 1)
    BY <1>1 DEF IInv, TypeOK
  <2>2. holders[t] > 1
    BY <2>1
  <2> QED
    BY <1>1, <2>2 DEF IInv, ExclusiveFrames
<1> QED
  BY <1>2, <1>3, <1>4, <1>5 DEF IInv

(* The first run that fits is a run of free frames.                        *)
LEMMA FirstFitFits ==
  ASSUME NEW count \in Nat, HasFit(count)
  PROVE  FirstFit(count) \in Frames /\ FixedFits(FirstFit(count), count)
<1> DEFINE Starts == {s \in Frames : FixedFits(s, count)}
<1>1. Starts \subseteq Nat /\ Starts # {}
  BY FrameCountAssumption DEF HasFit, Frames
<1>2. PICK f \in Starts : \A g \in Starts : f <= g
  BY <1>1, LeastElement
<1>3. \E s \in Frames : /\ FixedFits(s, count)
                        /\ \A t \in Frames : FixedFits(t, count) => s <= t
  BY <1>2
<1> QED
  BY <1>3 DEF FirstFit

(* The run that the end of the bitmap cuts off begins at a managed frame   *)
(* and holds free frames only.                                             *)
LEMMA TrailingRunFree ==
  ASSUME FrameCount - 1 \in FreeFrames
  PROVE  /\ TrailingRunStart \in Frames
         /\ TrailingRunStart .. FrameCount - 1 \subseteq FreeFrames
<1> DEFINE Starts == {s \in Frames : s .. FrameCount - 1 \subseteq FreeFrames}
<1>1. FrameCount - 1 \in Starts /\ Starts \subseteq Nat
  BY FrameCountAssumption DEF Frames
<1>2. PICK f \in Starts : \A g \in Starts : f <= g
  BY <1>1, LeastElement
<1>3. f \in Frames /\ f .. FrameCount - 1 \subseteq FreeFrames
  BY <1>2
<1>4. f = 0 \/ f - 1 \notin FreeFrames
  <2> SUFFICES ASSUME f # 0, f - 1 \in FreeFrames
               PROVE  FALSE
    OBVIOUS
  <2>1. f - 1 \in Frames /\ f \in Nat
    BY <1>3, FrameCountAssumption DEF FreeFrames, Frames
  <2>2. f - 1 .. FrameCount - 1 \subseteq FreeFrames
    <3> SUFFICES ASSUME NEW g \in f - 1 .. FrameCount - 1
                 PROVE  g \in FreeFrames
      OBVIOUS
    <3>1. g = f - 1 \/ g \in f .. FrameCount - 1
      BY <2>1, FrameCountAssumption
    <3> QED
      BY <1>3, <3>1
  <2>3. f - 1 \in Starts
    BY <2>1, <2>2
  <2>4. f <= f - 1
    BY <1>2, <2>3
  <2> QED
    BY <2>1, <2>4
<1>5. \E s \in Frames : /\ s .. FrameCount - 1 \subseteq FreeFrames
                        /\ s = 0 \/ s - 1 \notin FreeFrames
  BY <1>3, <1>4
<1> QED
  BY <1>5 DEF TrailingRunStart

(* A range request is answered with a run of free frames that is marked,   *)
(* or with the free frames at the end of the bitmap, and slots past it,    *)
(* left unmarked.                                                          *)
LEMMA RangeAnswers ==
  ASSUME NEW count \in RunLengths, AllocateRange(count)
  PROVE  \E S \in SUBSET Int :
           /\ Own(S)
           /\ \/ S # {} /\ S \subseteq FreeFrames /\ Mark(S)
              \/ /\ LeaveUnmarked(S)
                 /\ S \cap Frames # {} /\ S \cap Frames \subseteq FreeFrames
<1> DEFINE target == RangeResult(count)
<1>1. count \in Nat \ {0}
  BY LengthsAssumption
<1>2. target # Failed /\ Own(Run(target, count))
  BY DEF AllocateRange
<1>3. CASE HasFit(count)
  <2>1. target = FirstFit(count)
    BY <1>2, <1>3 DEF RangeResult
  <2>2. target \in Frames /\ FixedFits(target, count)
    BY <1>1, <1>3, <2>1, FirstFitFits
  <2>3. target \in Run(target, count)
    BY <1>1, <2>2, FrameCountAssumption DEF Run, Frames
  <2>4. Run(target, count) \subseteq FreeFrames /\ Mark(Run(target, count))
    BY <1>3, <2>2 DEF AllocateRange, FixedFits
  <2>5. Run(target, count) \in SUBSET Int
    BY <2>4, FrameCountAssumption DEF FreeFrames, Frames
  <2> QED
    BY <1>2, <2>3, <2>4, <2>5
<1>4. CASE ~ HasFit(count)
  <2>1. FrameCount - 1 \in FreeFrames /\ target = TrailingRunStart
    BY <1>2, <1>4 DEF RangeResult
  <2>2. target \in Frames /\ target .. FrameCount - 1 \subseteq FreeFrames
    BY <2>1, TrailingRunFree
  <2>3. LeaveUnmarked(Run(target, count))
    BY <1>4 DEF AllocateRange
  <2>4. target \in Run(target, count)
    BY <1>1, <2>2, FrameCountAssumption DEF Run, Frames
  <2>5. Run(target, count) \cap Frames \subseteq target .. FrameCount - 1
    BY <1>1, <2>2, FrameCountAssumption DEF Run, Frames
  <2>6. Run(target, count) \in SUBSET Int
    BY <1>1, <2>2, FrameCountAssumption DEF Run, Frames
  <2> QED
    BY <1>2, <2>2, <2>3, <2>4, <2>5, <2>6
<1> QED
  BY <1>3, <1>4

(* Every step preserves IInv, one case per allocator function.             *)
LEMMA NextIInv ==
  ASSUME IInv, [Next]_vars
  PROVE  IInv'
<1>1. CASE AllocateSingleFrame
  <2>1. PICK f \in Frames : FirstFree(f) /\ Mark({f}) /\ Own({f})
    BY <1>1 DEF AllocateSingleFrame
  <2> QED
    BY <2>1, GrantPreserves DEF FirstFree
<1>2. ASSUME NEW start \in -1 .. FrameCount, NEW count \in FixedLengths,
             AllocateFixed(start, count)
      PROVE  IInv'
  BY <1>2, GrantPreserves DEF AllocateFixed, FixedFits
<1>3. ASSUME NEW count \in RunLengths, AllocateRange(count)
      PROVE  IInv'
  BY <1>3, RangeAnswers, GrantPreserves, LeaveUnmarkedPreserves
<1>4. ASSUME NEW s \in Slots, Free(s)
      PROVE  IInv'
  BY <1>4, FreePreserves
<1>5. CASE UNCHANGED vars
  BY <1>5 DEF vars, IInv, TypeOK, AccountingExact, FreeFrames, OwnedIffUsed,
              ExclusiveFrames
<1> QED
  BY <1>1, <1>2, <1>3, <1>4, <1>5 DEF Next

(* The inductive invariant holds in every reachable state.                 *)
LEMMA IInvHolds == Spec => []IInv
<1>1. Init => IInv
  BY InitIInv
<1>2. IInv /\ [Next]_vars => IInv'
  BY NextIInv
<1> QED
  BY <1>1, <1>2, PTL DEF Spec

-----------------------------------------------------------------------------
(* The allocator's state is well formed.                                   *)
THEOREM TypeCorrect == Spec => []TypeOK
<1>1. IInv => TypeOK
  BY DEF IInv
<1> QED
  BY <1>1, IInvHolds, PTL

(* The hand-kept count is the number of free frames, or, once a run was    *)
(* granted unmarked, no lower than it.                                     *)
THEOREM Accounting == Spec => []AccountingExact
<1>1. IInv => AccountingExact
  BY DEF IInv
<1> QED
  BY <1>1, IInvHolds, PTL

(* A frame is granted while somebody owns it only if kframe_allocate_range *)
(* gave it away unmarked.                                                  *)
THEOREM Exclusive == Spec => []ExclusiveFrames
<1>1. IInv => ExclusiveFrames
  BY DEF IInv
<1> QED
  BY <1>1, IInvHolds, PTL

(* A used frame has an owner, and an owned frame is used unless it was     *)
(* given away unmarked: the other grants of the kframe_* functions mark    *)
(* what they return, and nothing else.                                     *)
THEOREM Owners == Spec => []OwnedIffUsed
<1>1. IInv => OwnedIffUsed
  BY DEF IInv
<1> QED
  BY <1>1, IInvHolds, PTL

-----------------------------------------------------------------------------
(* The owners and the exposed frames as FrameOwnership sees them.          *)
Owned   == [f \in Frames |-> holders[f]]
Exposed == {f \in Frames : exposed[f] > 0}

(* Owning a set whose managed frames are free or exposed is a Grant of     *)
(* the abstract allocator.                                                 *)
LEMMA GrantRefines ==
  ASSUME IInv, NEW S, S \cap Frames # {}, S \cap Frames \subseteq FreeFrames,
         Own(S)
  PROVE  Ownership!Grant(S \cap Frames)
<1>1. \A f \in S \cap Frames : holders[f] = 0 \/ exposed[f] > 0
  BY FreeUnlessExposed
<1>2. \A f \in Frames :
        holders'[f] = IF f \in S \cap Frames THEN holders[f] + 1 ELSE holders[f]
  BY FramesAreSlots DEF Own
<1> QED
  BY <1>1, <1>2 DEF Ownership!Grant

(* A marked grant is an Acquire.                                           *)
LEMMA MarkedRefines ==
  ASSUME IInv, NEW S \in SUBSET FreeFrames, S # {}, Mark(S), Own(S)
  PROVE  Ownership!Next
<1>1. S \subseteq Frames /\ S \cap Frames = S
  BY DEF FreeFrames
<1>2. Ownership!Grant(S)
  BY <1>1, GrantRefines
<1>3. Ownership!Acquire(S)
  BY <1>2 DEF Ownership!Acquire, Mark
<1> QED
  BY <1>1, <1>3 DEF Ownership!Next

(* An unmarked grant is an Expose.                                         *)
LEMMA UnmarkedRefines ==
  ASSUME IInv, NEW S, S \cap Frames # {}, S \cap Frames \subseteq FreeFrames,
         LeaveUnmarked(S), Own(S)
  PROVE  Ownership!Next
<1>1. Ownership!Grant(S \cap Frames)
  BY GrantRefines
<1>2. \A f \in Frames : /\ exposed[f] \in Nat
                        /\ exposed'[f] = IF f \in S THEN exposed[f] + 1
                                                    ELSE exposed[f]
  BY FramesAreSlots, BoundAssumption DEF LeaveUnmarked, IInv, TypeOK
<1>3. Exposed' = Exposed \cup (S \cap Frames)
  BY <1>2 DEF Exposed
<1>4. Ownership!Expose(S \cap Frames)
  BY <1>1, <1>3 DEF Ownership!Expose, Exposed
<1>5. S \cap Frames \in SUBSET Frames
  OBVIOUS
<1> QED
  BY <1>4, <1>5 DEF Ownership!Next

(* Every step is a step of the abstract allocator or leaves it unchanged.  *)
LEMMA NextRefines ==
  ASSUME IInv, [Next]_vars
  PROVE  [Ownership!Next]_(<<Owned, Exposed>>)
<1>1. CASE AllocateSingleFrame
  <2>1. PICK f \in Frames : FirstFree(f) /\ Mark({f}) /\ Own({f})
    BY <1>1 DEF AllocateSingleFrame
  <2> QED
    BY <2>1, MarkedRefines DEF FirstFree
<1>2. ASSUME NEW start \in -1 .. FrameCount, NEW count \in FixedLengths,
             AllocateFixed(start, count)
      PROVE  Ownership!Next
  <2>1. /\ Run(start, count) \subseteq FreeFrames
        /\ Mark(Run(start, count)) /\ Own(Run(start, count))
    BY <1>2 DEF AllocateFixed, FixedFits
  <2>2. start \in Run(start, count)
    BY LengthsAssumption, FrameCountAssumption DEF Run
  <2> QED
    BY <2>1, <2>2, MarkedRefines
<1>3. ASSUME NEW count \in RunLengths, AllocateRange(count)
      PROVE  Ownership!Next
  BY <1>3, RangeAnswers, MarkedRefines, UnmarkedRefines
<1>4. ASSUME NEW s \in Slots, Free(s)
      PROVE  Ownership!Next \/ UNCHANGED <<Owned, Exposed>>
  <2>1. /\ holders' = [holders EXCEPT ![s] = @ - 1] /\ holders[s] > 0
        /\ exposed' = exposed /\ Exposed' = Exposed
        /\ holders \in [Slots -> Nat]
    BY <1>4 DEF Free, IInv, TypeOK, Exposed
  <2>2. CASE s \in Frames
    <3>1. Owned' = [Owned EXCEPT ![s] = @ - 1]
      BY <2>1, <2>2, FramesAreSlots DEF Owned
    <3>2. Ownership!Release(s)
      BY <2>1, <2>2, <3>1 DEF Ownership!Release, Owned, Exposed
    <3> QED
      BY <2>2, <3>2 DEF Ownership!Next
  <2>3. CASE s \notin Frames
    BY <2>1, <2>3, FramesAreSlots DEF Owned
  <2> QED
    BY <2>2, <2>3
<1>5. CASE UNCHANGED vars
  BY <1>5 DEF vars, Owned, Exposed
<1> QED
  BY <1>1, <1>2, <1>3, <1>4, <1>5 DEF Next

(* The allocator implements frame ownership.                               *)
THEOREM Refinement == Spec => RefinesOwnership
<1>1. Init => Ownership!Init
  BY FramesAreSlots DEF Init, Ownership!Init
<1>2. IInv /\ [Next]_vars => [Ownership!Next]_(<<Owned, Exposed>>)
  BY NextRefines
<1>3. IInv /\ [Next]_vars =>
        [Ownership!Next]_(<<[f \in Frames |-> holders[f]],
                            {f \in Frames : exposed[f] > 0}>>)
  BY <1>2 DEF Owned, Exposed
<1> QED
  BY <1>1, <1>3, IInvHolds, PTL DEF Spec, RefinesOwnership, Ownership!Spec
=============================================================================
