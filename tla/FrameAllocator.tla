--------------------------- MODULE FrameAllocator ---------------------------
(***************************************************************************)
(* The kernel's physical frame allocator, kframe_alloc_t of kernel/vma.h   *)
(* and the kframe_* functions of kernel/vma.c: one byte per frame, a count *)
(* of available frames, and first-fit search for runs of frames.           *)
(*                                                                         *)
(* Addresses are frame indices relative to frame_start.  The kernel runs   *)
(* these functions on one core with interrupts masked (the spin locks in   *)
(* the source are comments), so every call is one step.                    *)
(*                                                                         *)
(* The callers are modelled with the allocator: they own what a call       *)
(* returned unless it returned the failure value they test for, (-1), and  *)
(* they free only what they own.  Two history variables record what the    *)
(* callers were told: holders counts the callers that own each frame, and  *)
(* exposed how often a frame was part of a run that kframe_allocate_range  *)
(* returned without marking it.                                            *)
(***************************************************************************)
EXTENDS Integers, FiniteSets

CONSTANTS
  FrameCount,    \* frame_count: size of the managed memory in frames
  BitmapCount,   \* bitmap_count: bytes in the bitmap, one per frame and spare
  RunLengths,    \* the counts callers pass to kframe_allocate_range
  FixedLengths,  \* the counts callers pass to kframe_allocate_fixed
  MaxExposed     \* bound: how often one frame may be returned unmarked

ASSUME FrameCountAssumption == FrameCount \in Nat \ {0}

ASSUME LengthsAssumption ==
  /\ RunLengths \subseteq Nat \ {0}
  /\ FixedLengths \subseteq Nat \ {0}

ASSUME BoundAssumption == MaxExposed \in Nat

(* The linker script gives the bitmap 0x4000 bytes, more than any run that *)
(* starts in the managed memory can reach.                                 *)
ASSUME BitmapAssumption ==
  /\ BitmapCount \in Nat
  /\ BitmapCount > FrameCount
  /\ \A c \in RunLengths : FrameCount + c <= BitmapCount

VARIABLES
  bitmap_frame,             \* KFRAME_FREE or KFRAME_USED per bitmap byte
  available_frame_count,
  holders,                  \* history: how many callers own each frame
  exposed                   \* history: how often each was granted unmarked

vars == <<bitmap_frame, available_frame_count, holders, exposed>>

KFRAME_FREE == "FREE"
KFRAME_USED == "USED"
Failed      == -1           \* (-1ULL), which callers test for

Frames == 0 .. FrameCount - 1
Slots  == 0 .. BitmapCount - 1

Run(start, count) == start .. start + count - 1

FreeFrames == {f \in Frames : bitmap_frame[f] = KFRAME_FREE}

TypeOK ==
  /\ bitmap_frame \in [Slots -> {KFRAME_FREE, KFRAME_USED}]
  /\ available_frame_count \in Int
  /\ holders \in [Slots -> Nat]
  /\ exposed \in [Slots -> 0 .. MaxExposed]

-----------------------------------------------------------------------------
(* kframe_allocator_init with a non-zero size.                             *)
Init ==
  /\ bitmap_frame = [s \in Slots |-> KFRAME_FREE]
  /\ available_frame_count = FrameCount
  /\ holders = [s \in Slots |-> 0]
  /\ exposed = [s \in Slots |-> 0]

(* Mutant: the count goes down by one however many frames are marked.      *)
MarkCountedOnce(S) ==
  /\ bitmap_frame' = [s \in Slots |-> IF s \in S THEN KFRAME_USED
                                                 ELSE bitmap_frame[s]]
  /\ available_frame_count' = available_frame_count - 1
  /\ UNCHANGED exposed

Mark(S) ==
  /\ bitmap_frame' = [s \in Slots |-> IF s \in S THEN KFRAME_USED
                                                 ELSE bitmap_frame[s]]
  /\ available_frame_count' = available_frame_count - Cardinality(S)
  /\ UNCHANGED exposed

(* The caller takes the frames it was told are its own.                    *)
Own(S) == holders' = [s \in Slots |-> IF s \in S THEN holders[s] + 1
                                                 ELSE holders[s]]

(* The frames go to the caller as they are, neither marked nor counted.    *)
LeaveUnmarked(S) ==
  /\ \A s \in S : exposed[s] < MaxExposed
  /\ exposed' = [s \in Slots |-> IF s \in S THEN exposed[s] + 1
                                            ELSE exposed[s]]
  /\ UNCHANGED <<bitmap_frame, available_frame_count>>

(***************************************************************************)
(* kframe_allocate_single_frame: returns 0 when nothing is available, the  *)
(* first free frame otherwise.                                             *)
(***************************************************************************)
FirstFree(f) ==
  /\ f \in FreeFrames
  /\ \A g \in FreeFrames : f <= g

AllocateSingleFrame ==
  /\ available_frame_count # 0
  /\ \E f \in Frames :
       /\ FirstFree(f)
       /\ Mark({f})
       /\ Own({f})

(***************************************************************************)
(* kframe_allocate_fixed: the run [start, start + count) exactly, or       *)
(* nothing.                                                                *)
(***************************************************************************)
(* Mutant: the bitmap is not looked at.                                    *)
FixedFitsUnchecked(start, count) ==
  /\ 0 <= start
  /\ start + count <= FrameCount

FixedFits(start, count) ==
  /\ 0 <= start
  /\ start + count <= FrameCount
  /\ Run(start, count) \subseteq FreeFrames

AllocateFixed(start, count) ==
  /\ FixedFits(start, count)
  /\ Mark(Run(start, count))
  /\ Own(Run(start, count))

(***************************************************************************)
(* kframe_allocate_range: the scan remembers in target where the current   *)
(* run of free frames begins and stops at the first run of count frames.   *)
(* A scan that reaches the end of the bitmap inside a shorter run leaves   *)
(* target at the beginning of that run; the marking is skipped, and target *)
(* is what is returned all the same.                                       *)
(***************************************************************************)
HasFit(count) == \E s \in Frames : FixedFits(s, count)

FirstFit(count) ==
  CHOOSE s \in Frames : /\ FixedFits(s, count)
                        /\ \A t \in Frames : FixedFits(t, count) => s <= t

TrailingRunStart ==
  CHOOSE s \in Frames : /\ s .. FrameCount - 1 \subseteq FreeFrames
                        /\ s = 0 \/ s - 1 \notin FreeFrames

(* Mutant: a request for all that is available is refused.                 *)
RangeResultStrict(count) ==
  IF count >= available_frame_count THEN Failed
  ELSE IF HasFit(count) THEN FirstFit(count)
  ELSE IF FrameCount - 1 \in FreeFrames THEN TrailingRunStart
  ELSE Failed

RangeResult(count) ==
  IF count > available_frame_count THEN Failed
  ELSE IF HasFit(count) THEN FirstFit(count)
  ELSE IF FrameCount - 1 \in FreeFrames THEN TrailingRunStart
  ELSE Failed

(* Mutant: a run that fits is returned without being marked.               *)
AllocateRangeUnmarked(count) ==
  /\ RangeResult(count) # Failed
  /\ UNCHANGED <<bitmap_frame, available_frame_count, exposed>>
  /\ Own(Run(RangeResult(count), count))

AllocateRange(count) ==
  LET target == RangeResult(count)
  IN  /\ target # Failed
      /\ IF HasFit(count)
         THEN Mark(Run(target, count))
         ELSE LeaveUnmarked(Run(target, count))
      /\ Own(Run(target, count))

(***************************************************************************)
(* kframe_free of a frame its caller owns.  The bound check lets the       *)
(* address just past the managed memory through; the count goes up         *)
(* whatever the byte held.                                                 *)
(***************************************************************************)
(* Mutant: frames nobody owns are freed.                                   *)
FreeUnowned(s) ==
  /\ s \in Frames
  /\ holders' = [holders EXCEPT ![s] = @ - 1]
  /\ UNCHANGED exposed
  /\ bitmap_frame' = [bitmap_frame EXCEPT ![s] = KFRAME_FREE]
  /\ available_frame_count' = available_frame_count + 1

(* Mutant: the frame is counted but stays marked.                          *)
FreeKeepsMark(s) ==
  /\ holders[s] > 0
  /\ holders' = [holders EXCEPT ![s] = @ - 1]
  /\ UNCHANGED exposed
  /\ available_frame_count' = available_frame_count + 1
  /\ UNCHANGED bitmap_frame

Free(s) ==
  /\ holders[s] > 0
  /\ holders' = [holders EXCEPT ![s] = @ - 1]
  /\ UNCHANGED exposed
  /\ IF s <= FrameCount
     THEN /\ bitmap_frame' = [bitmap_frame EXCEPT ![s] = KFRAME_FREE]
          /\ available_frame_count' = available_frame_count + 1
     ELSE UNCHANGED <<bitmap_frame, available_frame_count>>

Next ==
  \/ AllocateSingleFrame
  \/ \E start \in -1 .. FrameCount, count \in FixedLengths :
       AllocateFixed(start, count)
  \/ \E count \in RunLengths : AllocateRange(count)
  \/ \E s \in Slots : Free(s)

Spec == Init /\ [][Next]_vars

-----------------------------------------------------------------------------
(* The count that kframe_allocate_range tests a request against is the     *)
(* number of frames it could find free (vma.c: available_frame_count is    *)
(* kept by hand next to the bitmap in every function); it is never lower,  *)
(* and too high only once frames were granted unmarked, when freeing them  *)
(* counts them a second time.                                              *)
AccountingExact ==
  /\ Cardinality(FreeFrames) <= available_frame_count
  /\ (\A s \in Slots : exposed[s] = 0)
       => available_frame_count = Cardinality(FreeFrames)

(* A frame marked used has an owner, so nothing leaks; and a frame that    *)
(* somebody owns is a managed frame and marked used, unless it came from   *)
(* the one return of kframe_allocate_range that skips the marking.         *)
OwnedIffUsed ==
  /\ \A f \in Frames : bitmap_frame[f] = KFRAME_USED => holders[f] > 0
  /\ \A s \in Slots : holders[s] > 0 =>
       (s \in Frames /\ bitmap_frame[s] = KFRAME_USED) \/ exposed[s] > 0

(* A frame is owned twice only if it was granted unmarked, whatever        *)
(* mixture of single, fixed and range requests and frees led here.         *)
ExclusiveFrames == \A s \in Slots : holders[s] > 1 => exposed[s] > 0

(* The allocator implements frame ownership.                               *)
Ownership ==
  INSTANCE FrameOwnership WITH
    owners  <- [f \in Frames |-> holders[f]],
    exposed <- {f \in Frames : exposed[f] > 0}

RefinesOwnership == Ownership!Spec
=============================================================================
