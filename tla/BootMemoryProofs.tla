-------------------------- MODULE BootMemoryProofs ---------------------------
(***************************************************************************)
(* The division of memory at boot, for every size of the two memories, of  *)
(* the heap and of the tables' levels.                                     *)
(*                                                                         *)
(* The argument: nothing is freed while the kernel boots, so the frames    *)
(* kframe_allocate_range hands out follow one another, what is free is one *)
(* run at the end of the memory, and the defects of the search for a run   *)
(* in a fragmented memory cannot show.                                     *)
(***************************************************************************)
EXTENDS BootMemory, FiniteSetTheorems, TLAPS

(* The reservation of the heap succeeds.  The run boot_layout shows what   *)
(* happens otherwise.                                                      *)
HeapFits == HeapFrames <= PrivateFrames

(* The first private frame that is free.                                   *)
FirstFrame == PrivateFrames - private_available

(* The free private frames are one run, up to the end of the memory.       *)
FreeAtEnd ==
  /\ private_available \in 0 .. PrivateFrames
  /\ private_bitmap = [s \in Slots |-> IF s < FirstFrame THEN Private!KFRAME_USED
                                                        ELSE Private!KFRAME_FREE]
  /\ private_exposed = [s \in Slots |-> 0]

(* The levels lie below the first free frame and above the heap, in the    *)
(* order they were asked for; one that was refused asked for more than is  *)
(* left.                                                                   *)
Granted(l) == tables[l] # Private!Failed

LevelsInOrder ==
  /\ \A l \in 1 .. Len(tables) :
       IF Granted(l)
       THEN /\ tables[l] >= 0 /\ tables[l] + TableFrames[l] <= FirstFrame
            /\ HeapFits => HeapFrames <= tables[l]
       ELSE private_available < TableFrames[l]
  /\ \A k, l \in 1 .. Len(tables) :
       k < l /\ Granted(k) /\ Granted(l) => tables[k] + TableFrames[k] <= tables[l]

StagesAgree ==
  /\ stage \in {"shared_heap", "heap"} => tables = << >>
  /\ stage \in {"shared_heap", "heap"} => private_available = PrivateFrames
  /\ stage \notin {"shared_heap", "heap"} /\ HeapFits => HeapFrames <= FirstFrame
  /\ stage = "running" => Len(tables) = 4 /\ \A l \in 1 .. 4 : Granted(l)
  /\ stage = "crashed" =>
       /\ Len(tables) = 4
       /\ (\A l \in 1 .. 4 : Granted(l)) => private_available = 0

InTables(f) ==
  /\ Len(tables) = 4 /\ \A l \in 1 .. 4 : Granted(l)
  /\ \E l \in 1 .. 4 : f \in LevelFrames(l)

(* What a frame is used as tells where it lies: the heap writes a frame    *)
(* that is not its own only where a chunk passes the end.                  *)
UsesApart ==
  \A f \in Slots :
    /\ "heap" \in uses[f] => f < HeapFrames \/ (heap_top > HeapEnd /\ InTables(f))
    /\ "table" \in uses[f] => InTables(f)
    /\ "page" \in uses[f] =>
         /\ Len(tables) = 4 /\ f < FirstFrame
         /\ \A l \in 1 .. 4 : tables[l] + TableFrames[l] <= f
         /\ HeapFits => HeapFrames <= f

IInv == TypeOK /\ FreeAtEnd /\ LevelsInOrder /\ StagesAgree /\ UsesApart

-----------------------------------------------------------------------------
(* A chunk that lies in a page of the heap's end or beyond passes the end. *)
LEMMA PagesReach ==
  ASSUME NEW at \in Nat, NEW length \in Nat, length > 0,
         NEW page \in PagesOf(at, length), HeapFrames <= page
  PROVE  at + length > HeapEnd
<1>1. UnitsPerPage \in Nat /\ UnitsPerPage > 0 /\ HeapFrames \in Nat
  BY GeometryAssumption
<1> DEFINE last == at + length - 1
           q    == last \div UnitsPerPage
<1>2. last \in Nat
  OBVIOUS
<1>3. q \in Int /\ UnitsPerPage * q <= last
  <2> HIDE DEF last
  <2>1. \A n \in Nat : \A u \in Nat :
          u > 0 => n \div u \in Int /\ u * (n \div u) <= n
    BY SMT
  <2> QED
    BY <1>1, <1>2, <2>1
<1>4. HeapFrames <= q
  <2>1. page \in Int /\ page <= q
    BY <1>3 DEF PagesOf
  <2> HIDE DEF q
  <2> QED
    BY <2>1, <1>1, <1>3
<1>5. UnitsPerPage * HeapFrames <= UnitsPerPage * q
  <2> HIDE DEF q
  <2>1. \A a, b, u \in Int : u > 0 /\ a <= b => u * a <= u * b
    BY SMT
  <2> QED
    BY <1>1, <1>3, <1>4, <2>1
<1>6. HeapEnd = UnitsPerPage * HeapFrames /\ HeapEnd \in Int
  BY <1>1 DEF HeapEnd
<1>7. HeapEnd <= last
  <2> HIDE DEF q, last
  <2>1. UnitsPerPage * q \in Int
    BY <1>1, <1>3
  <2> QED
    BY <1>2, <1>3, <1>5, <1>6, <2>1
<1> QED
  BY <1>6, <1>7

(* The break after heap_init lies in the heap.                             *)
LEMMA HeapSizes ==
  /\ HeapEnd \in Nat /\ FirstBreak \in 0 .. HeapEnd
  /\ 5 * UnitsPerPage \in Nat
<1>1. UnitsPerPage \in Nat /\ HeapFrames \in Nat /\ HeapFrames >= 5
  BY GeometryAssumption
<1>2. \A h, u \in Nat : h >= 5 => h * u \in Nat /\ 2 * u \in Nat /\ 2 * u <= h * u
                                /\ 5 * u \in Nat
  BY SMT
<1> QED
  BY <1>1, <1>2 DEF HeapEnd, FirstBreak

LEMMA Sizes ==
  /\ PrivateFrames \in Nat /\ PrivateFrames > 0 /\ SharedFrames \in Nat
  /\ HeapFrames \in Nat /\ HeapFrames >= 5
  /\ \A l \in 1 .. 4 : TableFrames[l] \in Nat /\ TableFrames[l] > 0
  /\ Largest \in Nat /\ PrivateFrames < Largest /\ HeapFrames < Largest
<1>1. \A l \in 1 .. 4 : TableFrames[l] \in Nat /\ TableFrames[l] > 0
  BY GeometryAssumption
<1>2. /\ TableFrames[1] \in Nat /\ TableFrames[2] \in Nat
      /\ TableFrames[3] \in Nat /\ TableFrames[4] \in Nat
      /\ TableFrames[1] > 0
  BY <1>1
<1> QED
  BY <1>1, <1>2, GeometryAssumption DEF Largest

(* The frames of the allocator are those of the memory.                    *)
LEMMA FreeRun ==
  ASSUME TypeOK, FreeAtEnd
  PROVE  /\ FirstFrame \in 0 .. PrivateFrames
         /\ Private!FreeFrames = FirstFrame .. PrivateFrames - 1
         /\ Private!Frames = 0 .. PrivateFrames - 1
         /\ Private!Slots = Slots /\ Private!Frames \subseteq Slots
<1>1. FirstFrame \in 0 .. PrivateFrames
  BY Sizes DEF FreeAtEnd, FirstFrame
<1>2. /\ Private!Frames = 0 .. PrivateFrames - 1
      /\ Private!Slots = Slots
  BY DEF Private!Frames, Private!Slots, Slots
<1>3. 0 .. PrivateFrames - 1 \subseteq Slots
  BY Sizes DEF Slots
<1>4. ASSUME NEW f \in 0 .. PrivateFrames - 1
      PROVE  private_bitmap[f] = Private!KFRAME_FREE <=> f >= FirstFrame
  <2>1. private_bitmap[f] = IF f < FirstFrame THEN Private!KFRAME_USED
                                              ELSE Private!KFRAME_FREE
    BY <1>3 DEF FreeAtEnd
  <2> QED
    BY <2>1, <1>1, Sizes DEF Private!KFRAME_USED, Private!KFRAME_FREE
<1>5. Private!FreeFrames = FirstFrame .. PrivateFrames - 1
  BY <1>1, <1>2, <1>4, Sizes DEF Private!FreeFrames
<1> QED
  BY <1>1, <1>2, <1>3, <1>5

(* With the free frames in one run, a request is granted exactly when that *)
(* many are left, and gets the first of them.                              *)
LEMMA RangeGranted ==
  ASSUME TypeOK, FreeAtEnd, NEW count \in Nat, count > 0
  PROVE  /\ count > private_available => Private!RangeResult(count) = Private!Failed
         /\ count <= private_available =>
              /\ Private!RangeResult(count) = FirstFrame
              /\ Private!HasFit(count)
              /\ FirstFrame \in Slots /\ FirstFrame # Private!Failed
<1>1. CASE count > private_available
  BY <1>1, Sizes DEF Private!RangeResult, FreeAtEnd
<1>2. CASE count <= private_available
  <2>0. private_available \in 0 .. PrivateFrames /\ FirstFrame \in 0 .. PrivateFrames
    BY FreeRun DEF FreeAtEnd
  <2>1. FirstFrame + count <= PrivateFrames
    BY <1>2, <2>0, Sizes DEF FirstFrame
  <2>2. \A s \in Private!Frames : Private!FixedFits(s, count) =>  FirstFrame <= s
    <3> SUFFICES ASSUME NEW s \in Private!Frames, Private!FixedFits(s, count)
                 PROVE  FirstFrame <= s
      OBVIOUS
    <3>1. s \in Nat
      BY FreeRun
    <3>2. s \in s .. s + count - 1
      BY <3>1
    <3>3. s \in Private!FreeFrames
      BY <3>2 DEF Private!FixedFits, Private!Run
    <3> QED
      BY <3>3, FreeRun
  <2>3. FirstFrame \in Private!Frames /\ Private!FixedFits(FirstFrame, count)
    <3>1. FirstFrame \in Private!Frames
      BY <2>0, <2>1, FreeRun, Sizes
    <3>2. FirstFrame .. FirstFrame + count - 1 \subseteq FirstFrame .. PrivateFrames - 1
      BY <2>0, <2>1, Sizes
    <3> QED
      BY <3>1, <3>2, <2>0, <2>1, FreeRun DEF Private!FixedFits, Private!Run
  <2>4. Private!HasFit(count)
    BY <2>3 DEF Private!HasFit
  <2>5. Private!FirstFit(count) = FirstFrame
    <3>1. \A s \in Private!Frames :
            /\ Private!FixedFits(s, count)
            /\ \A t \in Private!Frames : Private!FixedFits(t, count) => s <= t
            => s = FirstFrame
      <4> SUFFICES ASSUME NEW s \in Private!Frames, Private!FixedFits(s, count),
                          \A t \in Private!Frames : Private!FixedFits(t, count) => s <= t
                   PROVE  s = FirstFrame
        OBVIOUS
      <4>1. s <= FirstFrame /\ FirstFrame <= s /\ s \in Nat
        BY <2>2, <2>3, FreeRun
      <4> QED
        BY <4>1, <2>0
    <3>2. /\ Private!FixedFits(FirstFrame, count)
          /\ \A t \in Private!Frames : Private!FixedFits(t, count) => FirstFrame <= t
      BY <2>2, <2>3
    <3> QED
      BY <3>1, <3>2, <2>3 DEF Private!FirstFit
  <2>6. Private!RangeResult(count) = FirstFrame
    <3>1. ~ (count > private_available)
      BY <1>2, <2>0
    <3> QED
      BY <3>1, <2>4, <2>5 DEF Private!RangeResult
  <2>7. FirstFrame \in Slots /\ FirstFrame # Private!Failed
    BY <2>0, <2>3, FreeRun DEF Private!Failed
  <2> QED
    BY <1>2, <2>0, <2>4, <2>6, <2>7
<1>3. private_available \in Nat
  BY Sizes DEF FreeAtEnd
<1> QED
  BY <1>1, <1>2, <1>3

(* Marking the run that begins with the first free frame.                  *)
LEMMA MarkedAtEnd ==
  ASSUME TypeOK, FreeAtEnd, NEW count \in Nat, count <= private_available,
         Private!Mark(FirstFrame .. FirstFrame + count - 1)
  PROVE  /\ FreeAtEnd' /\ FirstFrame' = FirstFrame + count
         /\ private_available' = private_available - count
<1> DEFINE S == FirstFrame .. FirstFrame + count - 1
<1>0. private_available \in 0 .. PrivateFrames /\ FirstFrame \in 0 .. PrivateFrames
  BY FreeRun DEF FreeAtEnd
<1>1. Cardinality(S) = count
  <2>1. FirstFrame \in Int /\ FirstFrame + count - 1 \in Int
    BY <1>0
  <2>2. Cardinality(S) = IF FirstFrame > FirstFrame + count - 1 THEN 0
                         ELSE (FirstFrame + count - 1) - FirstFrame + 1
    BY <2>1, FS_Interval
  <2> QED
    BY <2>2, <1>0
<1>2. private_available' = private_available - count
  <2>1. private_available' = private_available - Cardinality(S)
    BY DEF Private!Mark, Private!Cardinality, Cardinality
  <2> QED
    BY <2>1, <1>1
<1>3. FirstFrame' = FirstFrame + count
  BY <1>0, <1>2, Sizes DEF FirstFrame
<1>4. private_bitmap' = [s \in Slots |-> IF s \in S THEN Private!KFRAME_USED
                                         ELSE private_bitmap[s]]
  BY FreeRun DEF Private!Mark
<1>5. private_bitmap' =
        [s \in Slots |-> IF s < FirstFrame + count THEN Private!KFRAME_USED
                         ELSE Private!KFRAME_FREE]
  <2>1. ASSUME NEW s \in Slots
        PROVE  (IF s \in S THEN Private!KFRAME_USED ELSE private_bitmap[s]) =
               (IF s < FirstFrame + count THEN Private!KFRAME_USED
                ELSE Private!KFRAME_FREE)
    <3>1. private_bitmap[s] = IF s < FirstFrame THEN Private!KFRAME_USED
                              ELSE Private!KFRAME_FREE
      BY DEF FreeAtEnd
    <3>2. s < FirstFrame + count <=> s < FirstFrame \/ s \in S
      BY <1>0, Sizes DEF Slots
    <3>3. ~ (s < FirstFrame /\ s \in S)
      BY <1>0, Sizes DEF Slots
    <3> QED
      BY <3>1, <3>2, <3>3
  <2> QED
    BY <2>1, <1>4
<1>6. private_available' \in 0 .. PrivateFrames
  BY <1>0, <1>2, Sizes
<1>7. private_exposed' = [s \in Slots |-> 0]
  BY DEF Private!Mark, FreeAtEnd
<1> QED
  BY <1>2, <1>3, <1>5, <1>6, <1>7 DEF FreeAtEnd

(* A run that was asked for and granted.                                   *)
LEMMA RangeAllocated ==
  ASSUME TypeOK, FreeAtEnd, NEW count \in Nat, count > 0,
         Private!RangeResult(count) # Private!Failed,
         Private!AllocateRange(count)
  PROVE  /\ count <= private_available
         /\ Private!RangeResult(count) = FirstFrame /\ FirstFrame \in Slots
         /\ FreeAtEnd' /\ FirstFrame' = FirstFrame + count
         /\ private_available' = private_available - count
         /\ Private!TypeOK'
<1>1. private_available \in Nat
  BY Sizes DEF FreeAtEnd
<1>2. count <= private_available
  BY <1>1, RangeGranted
<1>3. /\ Private!RangeResult(count) = FirstFrame /\ FirstFrame \in Slots
      /\ Private!HasFit(count)
  BY <1>2, RangeGranted
<1>4. /\ Private!Mark(FirstFrame .. FirstFrame + count - 1)
      /\ Private!Own(FirstFrame .. FirstFrame + count - 1)
  BY <1>3 DEF Private!AllocateRange, Private!Run
<1>5. /\ FreeAtEnd' /\ FirstFrame' = FirstFrame + count
      /\ private_available' = private_available - count
  BY <1>2, <1>4, MarkedAtEnd
<1>6. private_bitmap' \in [Slots -> {Private!KFRAME_FREE, Private!KFRAME_USED}]
  BY <1>5 DEF FreeAtEnd
<1>7. private_available' \in Int
  BY <1>1, <1>5
<1>8. private_holders' \in [Slots -> Nat]
  <2>1. private_holders \in [Slots -> Nat]
    BY FreeRun DEF TypeOK, Private!TypeOK
  <2>2. private_holders' = [s \in Slots |->
           IF s \in FirstFrame .. FirstFrame + count - 1
           THEN private_holders[s] + 1 ELSE private_holders[s]]
    BY <1>4, FreeRun DEF Private!Own
  <2> QED
    BY <2>1, <2>2
<1>9. private_exposed' \in [Slots -> 0 .. 1]
  BY <1>5 DEF FreeAtEnd
<1> QED
  BY <1>2, <1>3, <1>5, <1>6, <1>7, <1>8, <1>9, FreeRun DEF Private!TypeOK

-----------------------------------------------------------------------------
LEMMA InitInv == Init => IInv
<1> SUFFICES ASSUME Init PROVE IInv
  OBVIOUS
<1>1. /\ stage = "shared_heap" /\ heap_break = 0 /\ heap_top = 0 /\ tables = << >>
      /\ uses = [f \in Slots |-> {}] /\ private_available = PrivateFrames
  BY DEF Init, Private!Init
<1>2. /\ private_bitmap = [s \in Slots |-> Private!KFRAME_FREE]
      /\ private_exposed = [s \in Slots |-> 0]
  BY DEF Init, Private!Init, Private!Slots, Slots
<1>3. Private!TypeOK /\ Shared!TypeOK
  BY Sizes DEF Init, Private!Init, Shared!Init, Private!TypeOK, Shared!TypeOK
<1>4. TypeOK
  BY <1>1, <1>3, HeapSizes DEF TypeOK
<1>5. FirstFrame = 0
  BY <1>1, Sizes DEF FirstFrame
<1>6. FreeAtEnd
  <2>1. \A s \in Slots : ~ (s < FirstFrame)
    BY <1>5, Sizes DEF Slots
  <2>2. private_bitmap = [s \in Slots |->
           IF s < FirstFrame THEN Private!KFRAME_USED ELSE Private!KFRAME_FREE]
    BY <2>1, <1>2
  <2> QED
    BY <2>2, <1>1, <1>2, Sizes DEF FreeAtEnd
<1>7. Len(tables) = 0
  BY <1>1
<1>8. LevelsInOrder
  BY <1>7 DEF LevelsInOrder
<1>9. StagesAgree
  BY <1>1 DEF StagesAgree
<1>10. UsesApart
  BY <1>1 DEF UsesApart
<1> QED
  BY <1>4, <1>6, <1>8, <1>9, <1>10 DEF IInv

(* A step that leaves the private memory and the tables alone.             *)
LEMMA PrivateUnchanged ==
  ASSUME FreeAtEnd, LevelsInOrder, UNCHANGED private, UNCHANGED tables
  PROVE  FreeAtEnd' /\ LevelsInOrder' /\ FirstFrame' = FirstFrame
<1>1. UNCHANGED <<private_bitmap, private_available, private_exposed, tables>>
  BY DEF private
<1> QED
  BY <1>1 DEF FreeAtEnd, LevelsInOrder, FirstFrame, Granted

LEMMA SharedHeap ==
  ASSUME IInv, ReserveSharedHeap
  PROVE  IInv'
<1>1. /\ stage = "shared_heap" /\ stage' = "heap"
      /\ UNCHANGED private /\ UNCHANGED heap /\ UNCHANGED <<tables, uses>>
  BY DEF ReserveSharedHeap
<1>2. FreeAtEnd' /\ LevelsInOrder' /\ FirstFrame' = FirstFrame
  BY <1>1, PrivateUnchanged DEF IInv
<1>3. Shared!TypeOK'
  <2>1. Shared!TypeOK
    BY DEF IInv, TypeOK
  <2>2. CASE Shared!AllocateFixed(0, SharedFrames \div 2)
    <3>1. IsFiniteSet(Shared!Run(0, SharedFrames \div 2))
      <4>1. SharedFrames \div 2 \in Nat
        BY Sizes
      <4> QED
        BY <4>1, FS_Interval DEF Shared!Run
    <3>2. Shared!Cardinality(Shared!Run(0, SharedFrames \div 2)) \in Nat
      <4>1. Cardinality(Shared!Run(0, SharedFrames \div 2)) \in Nat
        BY <3>1, FS_CardinalityType
      <4> QED
        BY <4>1 DEF Shared!Cardinality, Cardinality
    <3> QED
      BY <2>1, <2>2, <3>2 DEF Shared!AllocateFixed, Shared!Mark, Shared!Own, Shared!TypeOK
  <2>3. CASE UNCHANGED shared
    BY <2>1, <2>3 DEF shared, Shared!TypeOK
  <2> QED
    BY <2>2, <2>3 DEF ReserveSharedHeap
<1>4. TypeOK'
  BY <1>1, <1>3 DEF IInv, TypeOK, heap, private, Private!TypeOK
<1>5. StagesAgree'
  BY <1>1, <1>2 DEF IInv, StagesAgree, private
<1>6. UsesApart'
  BY <1>1, <1>2 DEF IInv, UsesApart, InTables, Granted, LevelFrames, heap
<1> QED
  BY <1>2, <1>4, <1>5, <1>6 DEF IInv

(* The reservation takes the first frames of a memory nobody has touched.  *)
LEMMA HeapReserved ==
  ASSUME IInv, ReserveHeap
  PROVE  IInv'
<1>1. /\ stage = "heap" /\ stage' = "tables"
      /\ heap_break' = FirstBreak /\ heap_top' = 5 * UnitsPerPage
      /\ UNCHANGED shared /\ UNCHANGED tables /\ Use(FirstChunk, "heap")
      /\ tables = << >> /\ private_available = PrivateFrames
  BY DEF ReserveHeap, IInv, StagesAgree
<1>2. TypeOK /\ FreeAtEnd
  BY DEF IInv
<1>3. FirstFrame = 0
  BY <1>1, Sizes DEF FirstFrame
<1>4. Private!FixedFits(0, HeapFrames) <=> HeapFits
  <2>1. Private!FreeFrames = 0 .. PrivateFrames - 1
    BY <1>2, <1>3, FreeRun
  <2>2. HeapFits => 0 .. 0 + HeapFrames - 1 \subseteq 0 .. PrivateFrames - 1
    BY Sizes DEF HeapFits
  <2> QED
    BY <2>1, <2>2, Sizes DEF Private!FixedFits, Private!Run, HeapFits
<1>5. /\ FreeAtEnd' /\ Private!TypeOK'
      /\ HeapFits => HeapFrames <= FirstFrame'
  <2>1. CASE HeapFits
    <3>1. /\ Private!Mark(FirstFrame .. FirstFrame + HeapFrames - 1)
          /\ Private!Own(FirstFrame .. FirstFrame + HeapFrames - 1)
      BY <2>1, <1>3, <1>4 DEF ReserveHeap, Private!AllocateFixed, Private!Run
    <3>2. HeapFrames <= private_available
      BY <2>1, <1>1 DEF HeapFits
    <3>3. /\ FreeAtEnd' /\ FirstFrame' = FirstFrame + HeapFrames
          /\ private_available' = private_available - HeapFrames
      BY <3>1, <3>2, <1>2, Sizes, MarkedAtEnd
    <3>4. private_holders' \in [Slots -> Nat]
      <4>1. private_holders \in [Slots -> Nat]
        BY <1>2, FreeRun DEF TypeOK, Private!TypeOK
      <4>2. private_holders' = [s \in Slots |->
               IF s \in FirstFrame .. FirstFrame + HeapFrames - 1
               THEN private_holders[s] + 1 ELSE private_holders[s]]
        BY <1>2, <3>1, FreeRun DEF Private!Own
      <4> QED
        BY <4>1, <4>2
    <3>5. private_bitmap' \in [Slots -> {Private!KFRAME_FREE, Private!KFRAME_USED}]
      BY <3>3 DEF FreeAtEnd
    <3>6. private_available' \in Int
      BY <3>3, <1>1, Sizes
    <3>7. Private!TypeOK'
      <4>1. private_exposed' \in [Slots -> 0 .. 1]
        BY <3>3 DEF FreeAtEnd
      <4> QED
        BY <1>2, <3>4, <3>5, <3>6, <4>1, FreeRun DEF Private!TypeOK
    <3>8. HeapFrames <= FirstFrame'
      BY <3>3, <1>3, Sizes
    <3> QED
      BY <3>3, <3>7, <3>8
  <2>2. CASE ~ HeapFits
    <3>1. UNCHANGED private
      BY <2>2, <1>4 DEF ReserveHeap
    <3>2. UNCHANGED <<private_bitmap, private_available, private_holders, private_exposed>>
      BY <3>1 DEF private
    <3> QED
      BY <2>2, <3>2, <1>2 DEF FreeAtEnd, FirstFrame, TypeOK, Private!TypeOK
  <2> QED
    BY <2>1, <2>2
<1>6. uses' \in [Slots -> SUBSET Purposes]
  BY <1>1, <1>2 DEF Use, TypeOK, Purposes
<1>7. TypeOK'
  <2>1. Shared!TypeOK'
    BY <1>1, <1>2 DEF shared, TypeOK, Shared!TypeOK
  <2>2. heap_break' \in 0 .. HeapEnd /\ heap_top' \in Nat
    BY <1>1, HeapSizes
  <2> QED
    BY <2>1, <2>2, <1>1, <1>2, <1>5, <1>6 DEF TypeOK
<1>8. Len(tables') = 0
  BY <1>1
<1>9. LevelsInOrder'
  BY <1>8 DEF LevelsInOrder
<1>10. StagesAgree'
  BY <1>1, <1>5 DEF StagesAgree
<1>11. UsesApart'
  <2>1. Len(tables) = 0
    BY <1>1
  <2> SUFFICES ASSUME NEW f \in Slots
               PROVE  /\ "heap" \in uses'[f] => f < HeapFrames
                      /\ ~ ("table" \in uses'[f]) /\ ~ ("page" \in uses'[f])
    BY DEF UsesApart
  <2>2. uses'[f] = IF f \in 0 .. 4 THEN uses[f] \cup {"heap"} ELSE uses[f]
    BY <1>1 DEF Use, FirstChunk
  <2>3. /\ "heap" \in uses[f] => f < HeapFrames
        /\ ~ ("table" \in uses[f]) /\ ~ ("page" \in uses[f])
    BY <2>1 DEF IInv, UsesApart, InTables
  <2> QED
    BY <2>2, <2>3, Sizes
<1> QED
  BY <1>5, <1>7, <1>9, <1>10, <1>11 DEF IInv

LEMMA LevelInRange ==
  ASSUME TypeOK, NEW l \in 1 .. Len(tables)
  PROVE  tables[l] \in Int
<1>1. tables \in Seq(Slots \cup {Private!Failed})
  BY DEF TypeOK
<1>2. tables[l] \in Slots \cup {Private!Failed}
  BY <1>1
<1> QED
  BY <1>2, Sizes DEF Slots, Private!Failed

(* What lies behind a page: a frame of the heap, or, past its end and once *)
(* they are mapped, a frame of a table.                                    *)
LEMMA BehindPages ==
  ASSUME TypeOK, NEW page \in Int, NEW f \in FramesBehind(page)
  PROVE  \/ page < HeapFrames /\ f < HeapFrames
         \/ /\ HeapFrames <= page /\ stage = "running"
            /\ Len(tables) = 4 => \E l \in 1 .. 4 : f \in LevelFrames(l)
<1>1. CASE page < HeapFrames
  BY <1>1 DEF FramesBehind
<1>2. CASE ~ (page < HeapFrames)
  <2>1. stage = "running"
    BY <1>2 DEF FramesBehind
  <2>2. PICK l \in 1 .. 4 : /\ page - TablePage(l) \in 0 .. TableFrames[l] - 1
                            /\ f = tables[l] + page - TablePage(l)
    BY <1>2, <2>1 DEF FramesBehind
  <2>3. TablePage(l) \in Int
    BY Sizes DEF TablePage
  <2>4. Len(tables) = 4 => f \in LevelFrames(l)
    <3> SUFFICES ASSUME Len(tables) = 4 PROVE f \in LevelFrames(l)
      OBVIOUS
    <3>1. l \in 1 .. Len(tables)
      OBVIOUS
    <3>2. tables[l] \in Int
      BY <3>1, LevelInRange
    <3>3. TableFrames[l] \in Nat
      BY Sizes
    <3>4. \A t, p, o, n \in Int :
            p - o \in 0 .. n - 1 => t + p - o \in t .. t + n - 1
      OBVIOUS
    <3> QED
      BY <2>2, <2>3, <3>2, <3>3, <3>4 DEF LevelFrames
  <2> QED
    BY <1>2, <2>1, <2>4, Sizes
<1> QED
  BY <1>1, <1>2

(* kmalloc moves the break and lays a chunk out from there upwards, or     *)
(* takes the refusal for an address.                                       *)
LEMMA HeapGrown ==
  ASSUME IInv, NEW length \in Growths, GrowHeap(length)
  PROVE  IInv'
<1>1. /\ stage \in {"tables", "running"} /\ stage' \in {stage, "faulted"}
      /\ UNCHANGED private /\ UNCHANGED shared /\ UNCHANGED tables
  BY DEF GrowHeap, Place
<1>2. FreeAtEnd' /\ LevelsInOrder' /\ FirstFrame' = FirstFrame
  BY <1>1, PrivateUnchanged DEF IInv
<1>3. TypeOK /\ length \in Nat /\ length > 0
  BY GeometryAssumption DEF IInv
<1>4. /\ heap_break \in Nat /\ heap_top \in Nat /\ HeapEnd \in Nat
      /\ heap_break <= HeapEnd
  BY <1>3, HeapSizes DEF TypeOK
<1> DEFINE at  == heap_break + length
           hit == UNION {FramesBehind(p) : p \in PagesOf(at, length)}
<1>5. /\ heap_break' \in 0 .. HeapEnd /\ heap_top' \in Nat /\ heap_top' >= heap_top
      /\ \/ UNCHANGED uses
         \/ Use(hit, "heap") /\ heap_top' >= at + length
  <2>1. CASE at > HeapEnd
    BY <2>1, <1>4 DEF GrowHeap, heap
  <2>2. CASE ~ (at > HeapEnd)
    <3>1. Place(at, length)
      BY <2>2 DEF GrowHeap
    <3>2. at \in 0 .. HeapEnd /\ at + length \in Nat
      BY <2>2, <1>3, <1>4
    <3>3. heap_break' = at
          /\ heap_top' = IF at + length > heap_top THEN at + length ELSE heap_top
      BY <3>1 DEF Place
    <3>4. uses' = [f \in Slots |-> IF f \in hit THEN uses[f] \cup {"heap"} ELSE uses[f]]
      BY <3>1 DEF Place, Use
    <3> HIDE DEF at, hit
    <3>5. Use(hit, "heap")
      BY <3>4 DEF Use
    <3>6. heap_top' \in Nat /\ heap_top' >= heap_top /\ heap_top' >= at + length
      BY <3>2, <3>3, <1>4
    <3> QED
      BY <3>2, <3>3, <3>5, <3>6
  <2> QED
    BY <2>1, <2>2
<1>6. at \in Nat
  BY <1>3, <1>4
<1> HIDE DEF at, hit
<1>7. uses' \in [Slots -> SUBSET Purposes]
  BY <1>3, <1>5 DEF Use, TypeOK, Purposes
<1>8. TypeOK'
  <2>1. Private!TypeOK' /\ Shared!TypeOK'
    BY <1>1, <1>3 DEF private, shared, TypeOK, Private!TypeOK, Shared!TypeOK
  <2> QED
    BY <2>1, <1>1, <1>3, <1>5, <1>7 DEF TypeOK
<1>9. StagesAgree'
  BY <1>1, <1>2 DEF IInv, StagesAgree, private, Granted
<1>10. ASSUME NEW f \in Slots
       PROVE  /\ "heap" \in uses'[f] => \/ "heap" \in uses[f] \/ f < HeapFrames
                                        \/ heap_top' > HeapEnd /\ InTables(f)
              /\ "table" \in uses'[f] => "table" \in uses[f]
              /\ "page" \in uses'[f] => "page" \in uses[f]
  <2>1. CASE UNCHANGED uses
    BY <2>1
  <2>2. CASE Use(hit, "heap") /\ heap_top' >= at + length
    <3>1. uses'[f] = IF f \in hit THEN uses[f] \cup {"heap"} ELSE uses[f]
      BY <2>2 DEF Use
    <3>2. CASE f \in hit
      <4>1. PICK p \in PagesOf(at, length) : f \in FramesBehind(p)
        BY <3>2 DEF hit
      <4>2. p \in Int
        BY <4>1 DEF PagesOf
      <4>3. f < HeapFrames \/ (heap_top' > HeapEnd /\ InTables(f))
        <5> SUFFICES ASSUME ~ (f < HeapFrames)
                     PROVE  heap_top' > HeapEnd /\ InTables(f)
          OBVIOUS
        <5>1. /\ HeapFrames <= p /\ stage = "running"
              /\ Len(tables) = 4 => \E l \in 1 .. 4 : f \in LevelFrames(l)
          BY <1>3, <4>1, <4>2, BehindPages
        <5>2. at + length > HeapEnd
          BY <1>3, <1>6, <4>1, <5>1, PagesReach
        <5>3. at + length \in Nat
          BY <1>3, <1>6
        <5>4. heap_top' > HeapEnd
          BY <5>2, <5>3, <2>2, <1>4, <1>5
        <5>5. InTables(f)
          BY <5>1 DEF IInv, StagesAgree, InTables
        <5> QED
          BY <5>4, <5>5
      <4> QED
        BY <3>1, <4>3
    <3>3. CASE f \notin hit
      BY <3>1, <3>3
    <3> QED
      BY <3>2, <3>3
  <2> QED
    BY <2>1, <2>2, <1>5
<1>11. heap_top > HeapEnd => heap_top' > HeapEnd
  BY <1>4, <1>5
<1>12. \A f \in Slots : InTables(f)' <=> InTables(f)
  BY <1>1 DEF InTables, Granted, LevelFrames
<1>13. UsesApart'
  <2>1. ASSUME NEW f \in Slots
        PROVE  "heap" \in uses'[f] =>
                 f < HeapFrames \/ (heap_top' > HeapEnd /\ InTables(f)')
    BY <1>10, <1>11, <1>12 DEF IInv, UsesApart
  <2>2. ASSUME NEW f \in Slots
        PROVE  "table" \in uses'[f] => InTables(f)'
    BY <1>10, <1>12 DEF IInv, UsesApart
  <2>3. ASSUME NEW f \in Slots
        PROVE  "page" \in uses'[f] =>
                 /\ Len(tables') = 4 /\ f < FirstFrame'
                 /\ \A l \in 1 .. 4 : tables'[l] + TableFrames[l] <= f
                 /\ HeapFits => HeapFrames <= f
    BY <1>1, <1>2, <1>10 DEF IInv, UsesApart
  <2> QED
    BY <2>1, <2>2, <2>3 DEF UsesApart, HeapEnd
<1> QED
  BY <1>2, <1>8, <1>9, <1>13 DEF IInv

(* A request for a level: granted behind everything granted so far, or     *)
(* refused because less than that is left.                                 *)
LEMMA LevelRequested ==
  ASSUME IInv, AllocateTable
  PROVE  IInv'
<1> DEFINE l     == Len(tables) + 1
           count == TableFrames[l]
           frame == Private!RangeResult(count)
<1>1. /\ TypeOK /\ FreeAtEnd /\ LevelsInOrder /\ StagesAgree /\ UsesApart
      /\ stage = "tables" /\ Len(tables) < 4 /\ tables' = Append(tables, frame)
      /\ UNCHANGED <<stage, shared, heap, uses>>
  BY DEF IInv, AllocateTable
<1>2. /\ tables \in Seq(Slots \cup {Private!Failed})
      /\ Len(tables) \in 0 .. 3 /\ l \in 1 .. 4 /\ count \in Nat /\ count > 0
  <2>1. tables \in Seq(Slots \cup {Private!Failed}) /\ Len(tables) \in Nat
    BY <1>1 DEF TypeOK
  <2>2. Len(tables) \in 0 .. 3 /\ l \in 1 .. 4
    <3>1. Len(tables) < 4
      BY <1>1
    <3>2. \A n \in Nat : n < 4 => n \in 0 .. 3 /\ n + 1 \in 1 .. 4
      OBVIOUS
    <3> QED
      BY <2>1, <3>1, <3>2, Zenon
  <2>3. count \in Nat /\ count > 0
    BY <2>2, Sizes
  <2> QED
    BY <2>1, <2>2, <2>3
<1>3. /\ FirstFrame \in 0 .. PrivateFrames /\ private_available \in 0 .. PrivateFrames
  BY <1>1, FreeRun DEF FreeAtEnd
<1>4. /\ FreeAtEnd' /\ Private!TypeOK' /\ FirstFrame <= FirstFrame'
      /\ private_available' <= private_available
      /\ frame \in Slots \cup {Private!Failed}
      /\ frame # Private!Failed => frame = FirstFrame /\ FirstFrame' = FirstFrame + count
      /\ frame = Private!Failed => private_available' < count
  <2>1. CASE frame = Private!Failed
    <3>1. UNCHANGED private
      BY <2>1 DEF AllocateTable
    <3>2. UNCHANGED <<private_bitmap, private_available, private_holders, private_exposed>>
      BY <3>1 DEF private
    <3>3. FreeAtEnd' /\ Private!TypeOK' /\ FirstFrame' = FirstFrame
      BY <3>2, <1>1 DEF FreeAtEnd, FirstFrame, TypeOK, Private!TypeOK
    <3>4. ~ (count <= private_available)
      BY <1>1, <1>2, <2>1, RangeGranted
    <3> QED
      BY <2>1, <3>2, <3>3, <3>4, <1>2, <1>3
  <2>2. CASE frame # Private!Failed
    <3>1. Private!AllocateRange(count)
      BY <2>2 DEF AllocateTable
    <3>2. /\ frame = FirstFrame /\ FirstFrame \in Slots
          /\ FreeAtEnd' /\ FirstFrame' = FirstFrame + count
          /\ private_available' = private_available - count
          /\ Private!TypeOK'
      BY <1>1, <1>2, <2>2, <3>1, RangeAllocated
    <3> QED
      BY <2>2, <3>2, <1>2, <1>3
  <2> QED
    BY <2>1, <2>2
<1> HIDE DEF frame, count, l
<1>5. /\ tables' \in Seq(Slots \cup {Private!Failed}) /\ Len(tables') = l
      /\ \A k \in 1 .. l : tables'[k] = IF k = l THEN frame ELSE tables[k]
  BY <1>1, <1>2, <1>4 DEF l
<1>6. TypeOK'
  <2>1. Shared!TypeOK'
    BY <1>1 DEF shared, TypeOK, Shared!TypeOK
  <2>2. Len(tables') <= 4
    BY <1>2, <1>5
  <2> QED
    BY <2>1, <2>2, <1>1, <1>4, <1>5 DEF TypeOK, heap
<1>7. \A k \in 1 .. l : Granted(k)' <=> IF k = l THEN frame # Private!Failed ELSE Granted(k)
  BY <1>5 DEF Granted
<1>8. \A k \in 1 .. l : k # l => k \in 1 .. Len(tables)
  BY <1>2 DEF l
<1>9. FirstFrame' \in Nat /\ private_available' \in Nat
  <2>1. private_available' \in 0 .. PrivateFrames
    BY <1>4 DEF FreeAtEnd
  <2>2. FirstFrame' = PrivateFrames - private_available'
    BY DEF FirstFrame
  <2>3. PrivateFrames \in Nat
    BY Sizes
  <2>4. \A n \in Nat : \A a \in 0 .. n : n - a \in Nat /\ a \in Nat
    OBVIOUS
  <2> QED
    BY <2>1, <2>2, <2>3, <2>4, Zenon
<1>10. LevelsInOrder'
  <2>1. ASSUME NEW k \in 1 .. l
        PROVE  IF Granted(k)'
               THEN /\ tables'[k] >= 0 /\ tables'[k] + TableFrames[k] <= FirstFrame'
                    /\ HeapFits => HeapFrames <= tables'[k]
               ELSE private_available' < TableFrames[k]
    <3>1. CASE k = l
      <4>1. Granted(k)' => frame = FirstFrame /\ FirstFrame' = FirstFrame + count
        BY <3>1, <1>4, <1>7
      <4>2. HeapFits => HeapFrames <= FirstFrame
        BY <1>1 DEF StagesAgree
      <4>3. tables'[k] = frame /\ TableFrames[k] = count
        BY <3>1, <1>5 DEF count
      <4>4. ~ Granted(k)' => private_available' < count
        BY <3>1, <1>4, <1>7
      <4> QED
        BY <4>1, <4>2, <4>3, <4>4, <1>2, <1>3
    <3>2. CASE k # l
      <4>1. k \in 1 .. Len(tables) /\ tables'[k] = tables[k] /\ (Granted(k)' <=> Granted(k))
        BY <3>2, <1>5, <1>7, <1>8
      <4>2. IF Granted(k)
            THEN /\ tables[k] >= 0 /\ tables[k] + TableFrames[k] <= FirstFrame
                 /\ HeapFits => HeapFrames <= tables[k]
            ELSE private_available < TableFrames[k]
        BY <4>1, <1>1 DEF LevelsInOrder
      <4>3. k \in 1 .. 4
        BY <1>2
      <4>4. TableFrames[k] \in Nat
        BY <4>3, Sizes
      <4>5. Granted(k) => tables[k] \in Nat
        <5>1. tables[k] \in Slots \cup {Private!Failed}
          BY <4>1, <1>2
        <5> QED
          BY <5>1 DEF Granted, Slots
      <4> QED
        BY <4>1, <4>2, <4>4, <4>5, <1>3, <1>4, <1>9
    <3> QED
      BY <3>1, <3>2
  <2>2. ASSUME NEW j \in 1 .. l, NEW k \in 1 .. l, j < k, Granted(j)', Granted(k)'
        PROVE  tables'[j] + TableFrames[j] <= tables'[k]
    <3>1. j # l /\ j \in 1 .. Len(tables)
      BY <2>2, <1>2, <1>8
    <3>2. Granted(j) /\ tables'[j] = tables[j]
      BY <3>1, <2>2, <1>5, <1>7
    <3>3. CASE k = l
      <4>1. tables'[k] = FirstFrame
        BY <3>3, <2>2, <1>4, <1>5, <1>7
      <4>2. tables[j] + TableFrames[j] <= FirstFrame
        BY <3>1, <3>2, <1>1 DEF LevelsInOrder
      <4> QED
        BY <4>1, <4>2, <3>2
    <3>4. CASE k # l
      <4>1. k \in 1 .. Len(tables) /\ Granted(k) /\ tables'[k] = tables[k]
        BY <3>4, <2>2, <1>5, <1>7, <1>8
      <4> QED
        BY <4>1, <3>1, <3>2, <2>2, <1>1 DEF LevelsInOrder
    <3> QED
      BY <3>3, <3>4
  <2> QED
    BY <2>1, <2>2, <1>5 DEF LevelsInOrder
<1>11. StagesAgree'
  <2>1. HeapFits => HeapFrames <= FirstFrame
    BY <1>1 DEF StagesAgree
  <2>2. HeapFits => HeapFrames <= FirstFrame'
    BY <2>1, <1>3, <1>4, <1>9, Sizes
  <2> QED
    BY <2>2, <1>1 DEF StagesAgree
<1>12. UsesApart'
  <2> SUFFICES ASSUME NEW f \in Slots
               PROVE  /\ "heap" \in uses[f] => f < HeapFrames
                      /\ ~ ("table" \in uses[f]) /\ ~ ("page" \in uses[f])
    BY <1>1 DEF UsesApart
  <2> QED
    BY <1>1 DEF UsesApart, InTables
<1> QED
  BY <1>4, <1>6, <1>10, <1>11, <1>12 DEF IInv

(* The four results are tested, and the tables written.                    *)
LEMMA TablesMapped ==
  ASSUME IInv, MapTables
  PROVE  IInv'
<1>1. /\ TypeOK /\ FreeAtEnd /\ LevelsInOrder /\ StagesAgree /\ UsesApart
      /\ stage = "tables" /\ Len(tables) = 4
      /\ UNCHANGED private /\ UNCHANGED shared /\ UNCHANGED <<heap_break, heap_top, tables>>
  BY DEF IInv, MapTables, heap
<1>2. FreeAtEnd' /\ LevelsInOrder' /\ FirstFrame' = FirstFrame
  BY <1>1, PrivateUnchanged
<1>3. Private!TypeOK' /\ Shared!TypeOK'
  BY <1>1 DEF private, shared, TypeOK, Private!TypeOK, Shared!TypeOK
<1>4. \A l \in 1 .. 4 : Granted(l)' <=> Granted(l)
  BY <1>1 DEF Granted
<1>5. HeapFits => HeapFrames <= FirstFrame'
  BY <1>1, <1>2 DEF StagesAgree
<1>6. CASE \E l \in 1 .. 4 : tables[l] = Private!Failed
  <2>1. stage' = "crashed" /\ UNCHANGED uses
    BY <1>6 DEF MapTables
  <2>2. ~ \A l \in 1 .. 4 : Granted(l)
    BY <1>6 DEF Granted
  <2>3. TypeOK'
    BY <2>1, <1>1, <1>3 DEF TypeOK
  <2>4. StagesAgree'
    BY <2>1, <2>2, <1>1, <1>4, <1>5 DEF StagesAgree
  <2>5. UsesApart'
    BY <2>1, <1>1, <1>2, <1>4 DEF UsesApart, InTables, LevelFrames, Granted
  <2> QED
    BY <2>3, <2>4, <2>5, <1>2 DEF IInv
<1>7. CASE ~ \E l \in 1 .. 4 : tables[l] = Private!Failed
  <2>1. stage' = "running" /\ Use(UNION {LevelFrames(l) : l \in 1 .. 4}, "table")
    BY <1>7 DEF MapTables
  <2>2. \A l \in 1 .. 4 : Granted(l)
    BY <1>7 DEF Granted
  <2>3. uses' \in [Slots -> SUBSET Purposes]
    BY <2>1, <1>1 DEF Use, TypeOK, Purposes
  <2>4. TypeOK'
    BY <2>1, <2>3, <1>1, <1>3 DEF TypeOK
  <2>5. StagesAgree'
    BY <2>1, <2>2, <1>1, <1>4, <1>5 DEF StagesAgree
  <2>6. \A l \in 1 .. 4 : LevelFrames(l)' = LevelFrames(l)
    BY <1>1 DEF LevelFrames
  <2>7. ASSUME NEW f \in Slots
        PROVE  /\ "heap" \in uses'[f] => "heap" \in uses[f]
               /\ "table" \in uses'[f] =>
                    "table" \in uses[f] \/ \E l \in 1 .. 4 : f \in LevelFrames(l)
               /\ "page" \in uses'[f] => "page" \in uses[f]
    BY <2>1 DEF Use
  <2>8. UsesApart'
    BY <2>2, <2>6, <2>7, <1>1, <1>2, <1>4 DEF UsesApart, InTables, HeapEnd
  <2> QED
    BY <2>4, <2>5, <2>8, <1>2 DEF IInv
<1> QED
  BY <1>6, <1>7

(* A page of the process gets the first free frame, behind the tables.     *)
LEMMA PageMapped ==
  ASSUME IInv, MapPage
  PROVE  IInv'
<1> DEFINE frame == Private!RangeResult(1)
<1>1. /\ TypeOK /\ FreeAtEnd /\ LevelsInOrder /\ StagesAgree /\ UsesApart
      /\ stage = "running" /\ Len(tables) = 4 /\ \A l \in 1 .. 4 : Granted(l)
      /\ UNCHANGED shared /\ UNCHANGED <<heap_break, heap_top, tables>>
  BY DEF IInv, MapPage, StagesAgree, heap
<1>2. \A l \in 1 .. 4 : (Granted(l)' <=> Granted(l)) /\ LevelFrames(l)' = LevelFrames(l)
  BY <1>1 DEF Granted, LevelFrames
<1>3. FirstFrame \in 0 .. PrivateFrames /\ private_available \in 0 .. PrivateFrames
  BY <1>1, FreeRun DEF FreeAtEnd
<1>4. HeapFits => HeapFrames <= FirstFrame
  BY <1>1 DEF StagesAgree
<1>5. Shared!TypeOK'
  BY <1>1 DEF shared, TypeOK, Shared!TypeOK
<1>6. CASE frame = Private!Failed
  <2>1. stage' = "crashed" /\ UNCHANGED private /\ UNCHANGED uses
    BY <1>6 DEF MapPage
  <2>2. FreeAtEnd' /\ LevelsInOrder' /\ FirstFrame' = FirstFrame
    BY <2>1, <1>1, PrivateUnchanged
  <2>3. private_available' = 0
    <3>1. ~ (1 <= private_available)
      BY <1>1, <1>6, RangeGranted
    <3> QED
      BY <2>1, <3>1, <1>3 DEF private
  <2>4. TypeOK'
    BY <2>1, <1>1, <1>5 DEF TypeOK, private, Private!TypeOK
  <2>5. StagesAgree'
    BY <2>1, <2>2, <2>3, <1>1, <1>4 DEF StagesAgree
  <2>6. UsesApart'
    BY <2>1, <2>2, <1>1, <1>2 DEF UsesApart, InTables, HeapEnd
  <2> QED
    BY <2>2, <2>4, <2>5, <2>6 DEF IInv
<1>7. CASE frame # Private!Failed
  <2>1. /\ Private!AllocateRange(1) /\ Use({frame}, "page") /\ stage' = stage
    BY <1>7 DEF MapPage
  <2>2. /\ frame = FirstFrame /\ FreeAtEnd' /\ FirstFrame' = FirstFrame + 1
        /\ private_available' = private_available - 1 /\ 1 <= private_available
        /\ Private!TypeOK'
    BY <2>1, <1>1, <1>7, RangeAllocated
  <2> HIDE DEF frame
  <2>3. \A l \in 1 .. 4 :
          /\ tables[l] \in Nat /\ TableFrames[l] \in Nat
          /\ tables[l] + TableFrames[l] <= FirstFrame
          /\ HeapFits => HeapFrames <= tables[l]
    <3> SUFFICES ASSUME NEW l \in 1 .. 4
                 PROVE  /\ tables[l] \in Nat /\ TableFrames[l] \in Nat
                        /\ tables[l] + TableFrames[l] <= FirstFrame
                        /\ HeapFits => HeapFrames <= tables[l]
      OBVIOUS
    <3>1. Granted(l) /\ tables[l] \in Slots \cup {Private!Failed}
      <4>1. tables \in Seq(Slots \cup {Private!Failed}) /\ l \in 1 .. Len(tables)
        BY <1>1 DEF TypeOK
      <4>2. tables[l] \in Slots \cup {Private!Failed}
        BY <4>1
      <4> QED
        BY <4>2, <1>1
    <3>2. tables[l] \in Nat
      BY <3>1 DEF Granted, Slots
    <3> QED
      BY <3>1, <3>2, <1>1, Sizes DEF LevelsInOrder
  <2>4. LevelsInOrder'
    <3>1. \A l \in 1 .. 4 : tables[l] + TableFrames[l] <= FirstFrame'
      BY <2>2, <2>3, <1>3
    <3> QED
      BY <3>1, <2>3, <1>1, <1>2 DEF LevelsInOrder
  <2>5. uses' \in [Slots -> SUBSET Purposes]
    BY <2>1, <1>1 DEF Use, TypeOK, Purposes
  <2>6. TypeOK'
    BY <2>1, <2>2, <2>5, <1>1, <1>5 DEF TypeOK
  <2>7. StagesAgree'
    <3>1. HeapFits => HeapFrames <= FirstFrame'
      BY <2>2, <1>3, <1>4, Sizes
    <3> QED
      BY <3>1, <2>1, <1>1, <1>2 DEF StagesAgree
  <2>8. ASSUME NEW f \in Slots
        PROVE  /\ "heap" \in uses'[f] =>
                    f < HeapFrames \/ (heap_top > HeapEnd /\ InTables(f))
               /\ "table" \in uses'[f] => \E l \in 1 .. 4 : f \in LevelFrames(l)
               /\ "page" \in uses'[f] =>
                    /\ f < FirstFrame'
                    /\ \A l \in 1 .. 4 : tables[l] + TableFrames[l] <= f
                    /\ HeapFits => HeapFrames <= f
    <3>1. uses'[f] = IF f \in {frame} THEN uses[f] \cup {"page"} ELSE uses[f]
      BY <2>1 DEF Use
    <3>2. "heap" \in uses'[f] => "heap" \in uses[f]
      BY <3>1
    <3>3. "table" \in uses'[f] => "table" \in uses[f]
      BY <3>1
    <3>4. "page" \in uses'[f] => "page" \in uses[f] \/ f = FirstFrame
      BY <3>1, <2>2
    <3>5. "page" \in uses[f] =>
            /\ f < FirstFrame'
            /\ \A l \in 1 .. 4 : tables[l] + TableFrames[l] <= f
            /\ HeapFits => HeapFrames <= f
      BY <2>2, <1>1, <1>3 DEF UsesApart, Slots
    <3>6. f = FirstFrame =>
            /\ f < FirstFrame'
            /\ \A l \in 1 .. 4 : tables[l] + TableFrames[l] <= f
            /\ HeapFits => HeapFrames <= f
      BY <2>2, <2>3, <1>3, <1>4
    <3> QED
      BY <3>2, <3>3, <3>4, <3>5, <3>6, <1>1 DEF UsesApart, InTables
  <2>9. UsesApart'
    BY <2>8, <1>1, <1>2 DEF UsesApart, InTables, HeapEnd
  <2> QED
    BY <2>2, <2>4, <2>6, <2>7, <2>9 DEF IInv
<1> QED
  BY <1>6, <1>7

LEMMA NextInv == IInv /\ [Next]_vars => IInv'
<1> SUFFICES ASSUME IInv, [Next]_vars PROVE IInv'
  OBVIOUS
<1>1. CASE ReserveSharedHeap
  BY <1>1, SharedHeap
<1>2. CASE ReserveHeap
  BY <1>2, HeapReserved
<1>3. ASSUME NEW length \in Growths, GrowHeap(length)
      PROVE  IInv'
  BY <1>3, HeapGrown
<1>4. CASE AllocateTable
  BY <1>4, LevelRequested
<1>5. CASE MapTables
  BY <1>5, TablesMapped
<1>6. CASE MapPage
  BY <1>6, PageMapped
<1>7. CASE UNCHANGED vars
  <2>1. UNCHANGED private /\ UNCHANGED shared /\ UNCHANGED <<stage, heap_break, heap_top, tables, uses>>
    BY <1>7 DEF vars, heap
  <2>2. FreeAtEnd' /\ LevelsInOrder' /\ FirstFrame' = FirstFrame
    BY <2>1, PrivateUnchanged DEF IInv
  <2>3. TypeOK'
    BY <2>1 DEF IInv, TypeOK, private, shared, Private!TypeOK, Shared!TypeOK
  <2>4. StagesAgree' /\ UsesApart'
    BY <2>1, <2>2 DEF IInv, StagesAgree, UsesApart, InTables, private,
                       Granted, LevelFrames, HeapEnd
  <2> QED
    BY <2>2, <2>3, <2>4 DEF IInv
<1> QED
  BY <1>1, <1>2, <1>3, <1>4, <1>5, <1>6, <1>7 DEF Next

LEMMA Invariant == Spec => []IInv
BY InitInv, NextInv, PTL DEF Spec

-----------------------------------------------------------------------------
(* Whatever enable_mmap reserves and the loader is granted, both           *)
(* allocators' state, the break and the results of                         *)
(* create_user_translation_table keep their ranges.                        *)
THEOREM TypeCorrect == Spec => []TypeOK
<1>1. IInv => TypeOK
  BY DEF IInv
<1> QED
  BY <1>1, Invariant, PTL

(* If KERNEL_HEAP_SIZE fits the private memory, enable_mmap's reservation  *)
(* keeps kframe_allocate_secure out of the heap and the tables out of the  *)
(* pages; only the heap itself, by a chunk that passes its end, may write  *)
(* a frame that is not its own, and then it is a table's.                  *)
THEOREM Separation ==
  ASSUME HeapFits
  PROVE  Spec => []OverlapOnlyPastEnd
<1>1. IInv => OverlapOnlyPastEnd
  <2> SUFFICES ASSUME IInv, NEW f \in Slots
               PROVE  Cardinality(uses[f]) > 1 =>
                        uses[f] = {"heap", "table"} /\ heap_top > HeapEnd
    BY DEF OverlapOnlyPastEnd
  <2>1. uses[f] \subseteq Purposes /\ f \in Nat /\ HeapFrames \in Nat
    BY Sizes DEF IInv, TypeOK, Slots
  <2>2. InTables(f) =>
          /\ HeapFrames <= f
          /\ \E l \in 1 .. 4 : ~ (tables[l] + TableFrames[l] <= f)
    <3> SUFFICES ASSUME InTables(f)
                 PROVE  /\ HeapFrames <= f
                        /\ \E l \in 1 .. 4 : ~ (tables[l] + TableFrames[l] <= f)
      OBVIOUS
    <3>1. PICK l \in 1 .. 4 : f \in LevelFrames(l)
      BY DEF InTables
    <3>2. Granted(l) /\ l \in 1 .. Len(tables)
      BY DEF InTables
    <3>3. tables[l] \in Nat
      <4>1. tables[l] \in Slots \cup {Private!Failed}
        BY <3>2 DEF IInv, TypeOK
      <4> QED
        BY <3>2, <4>1 DEF Granted, Slots
    <3>4. HeapFrames <= tables[l]
      BY <3>2 DEF IInv, LevelsInOrder
    <3>5. TableFrames[l] \in Nat /\ HeapFrames \in Nat
      BY Sizes
    <3>6. HeapFrames <= f /\ ~ (tables[l] + TableFrames[l] <= f)
      BY <3>1, <3>3, <3>4, <3>5 DEF LevelFrames
    <3> QED
      BY <3>6
  <2>3. "page" \in uses[f] =>
          HeapFrames <= f /\ \A l \in 1 .. 4 : tables[l] + TableFrames[l] <= f
    BY DEF IInv, UsesApart
  <2>4. "page" \in uses[f] => ~ InTables(f) /\ ~ (f < HeapFrames)
    BY <2>1, <2>2, <2>3
  <2>5. /\ "heap" \in uses[f] => f < HeapFrames \/ (heap_top > HeapEnd /\ InTables(f))
        /\ "table" \in uses[f] => InTables(f)
    BY DEF IInv, UsesApart
  <2>6. "table" \in uses[f] => ~ (f < HeapFrames)
    BY <2>1, <2>2, <2>5
  <2>7. \/ uses[f] = {} \/ \E p \in Purposes : uses[f] = {p}
        \/ uses[f] = {"heap", "table"} /\ heap_top > HeapEnd
    BY <2>1, <2>4, <2>5, <2>6 DEF Purposes
  <2>8. Cardinality({}) = 0 /\ \A p \in Purposes : Cardinality({p}) = 1
    BY FS_EmptySet, FS_Singleton
  <2> QED
    BY <2>7, <2>8
<1> QED
  BY <1>1, Invariant, PTL

(* create_user_translation_table's four requests are answered with four    *)
(* disjoint runs of managed frames, none of them the unmarked end of a     *)
(* run that is too short, whether the heap fits or not.                    *)
THEOREM TablesApart == Spec => []TablesDisjoint
<1>1. IInv => TablesDisjoint
  <2> SUFFICES ASSUME IInv, stage = "running"
               PROVE  /\ \A l \in 1 .. 4 : LevelFrames(l) \subseteq 0 .. PrivateFrames - 1
                      /\ \A k, l \in 1 .. 4 :
                           k # l => LevelFrames(k) \cap LevelFrames(l) = {}
                      /\ \A l \in 1 .. 4 : \A f \in LevelFrames(l) :
                           private_exposed[f] = 0
    BY DEF TablesDisjoint
  <2>1. Len(tables) = 4 /\ \A l \in 1 .. 4 : Granted(l)
    BY DEF IInv, StagesAgree
  <2>2. FirstFrame \in 0 .. PrivateFrames
    BY FreeRun DEF IInv
  <2>3. ASSUME NEW l \in 1 .. 4
        PROVE  /\ tables[l] \in Nat /\ TableFrames[l] \in Nat
               /\ tables[l] + TableFrames[l] <= FirstFrame
    <3>1. l \in 1 .. Len(tables) /\ tables \in Seq(Slots \cup {Private!Failed})
      BY <2>1 DEF IInv, TypeOK
    <3>2. tables[l] \in Slots \cup {Private!Failed}
      BY <3>1
    <3>3. tables[l] \in Nat
      BY <2>1, <3>2 DEF Granted, Slots
    <3> QED
      BY <2>1, <3>1, <3>3, Sizes DEF IInv, LevelsInOrder
  <2>4. ASSUME NEW l \in 1 .. 4
        PROVE  LevelFrames(l) \subseteq 0 .. PrivateFrames - 1
    BY <2>2, <2>3, Sizes DEF LevelFrames
  <2>5. ASSUME NEW k \in 1 .. 4, NEW l \in 1 .. 4, k < l
        PROVE  LevelFrames(k) \cap LevelFrames(l) = {}
    <3>1. tables[k] + TableFrames[k] <= tables[l]
      BY <2>1, <2>5 DEF IInv, LevelsInOrder
    <3> QED
      BY <3>1, <2>3 DEF LevelFrames
  <2>6. ASSUME NEW k \in 1 .. 4, NEW l \in 1 .. 4, k # l
        PROVE  LevelFrames(k) \cap LevelFrames(l) = {}
    <3>1. k < l \/ l < k
      BY <2>6
    <3> QED
      BY <3>1, <2>5
  <2>7. \A f \in 0 .. PrivateFrames - 1 : private_exposed[f] = 0
    <3>1. private_exposed = [s \in Slots |-> 0]
      BY DEF IInv, FreeAtEnd
    <3>2. 0 .. PrivateFrames - 1 \subseteq Slots
      BY Sizes DEF Slots
    <3> QED
      BY <3>1, <3>2
  <2> QED
    BY <2>4, <2>6, <2>7
<1> QED
  BY <1>1, Invariant, PTL

(* A (-1) of kframe_allocate_range crashes the kernel only when fewer      *)
(* private frames are left than the refused request asked for.             *)
THEOREM CrashExplained == Spec => []CrashOnlyWhenExhausted
<1>1. IInv => CrashOnlyWhenExhausted
  <2> DEFINE refused == {l \in 1 .. 4 : tables[l] = Private!Failed}
             asked   == IF refused = {} THEN {1} ELSE {TableFrames[l] : l \in refused}
  <2> SUFFICES ASSUME IInv, stage = "crashed", NEW count \in asked
               PROVE  Cardinality(Private!FreeFrames) < count
    BY DEF CrashOnlyWhenExhausted
  <2>1. /\ Len(tables) = 4
        /\ (\A l \in 1 .. 4 : Granted(l)) => private_available = 0
    BY DEF IInv, StagesAgree
  <2>2. private_available \in 0 .. PrivateFrames /\ FirstFrame \in 0 .. PrivateFrames
    BY FreeRun DEF IInv, FreeAtEnd
  <2>3. Cardinality(Private!FreeFrames) = private_available
    <3>1. Private!FreeFrames = FirstFrame .. PrivateFrames - 1
      BY FreeRun DEF IInv
    <3>2. FirstFrame \in Int /\ PrivateFrames - 1 \in Int
      BY <2>2, Sizes
    <3>3. Cardinality(FirstFrame .. PrivateFrames - 1) =
            IF FirstFrame > PrivateFrames - 1 THEN 0
            ELSE (PrivateFrames - 1) - FirstFrame + 1
      BY <3>2, FS_Interval
    <3> QED
      BY <3>1, <3>3, <2>2, Sizes DEF FirstFrame
  <2>4. CASE refused = {}
    <3>1. \A l \in 1 .. 4 : Granted(l)
      BY <2>4 DEF Granted
    <3> QED
      BY <3>1, <2>1, <2>3, <2>4
  <2>5. CASE refused # {}
    <3>1. PICK l \in 1 .. 4 : tables[l] = Private!Failed /\ count = TableFrames[l]
      BY <2>5
    <3>2. private_available < TableFrames[l]
      BY <3>1, <2>1 DEF IInv, LevelsInOrder, Granted
    <3> QED
      BY <3>1, <3>2, <2>3
  <2> QED
    BY <2>4, <2>5
<1> QED
  BY <1>1, Invariant, PTL
=============================================================================
