----------------------------- MODULE BootMemory -----------------------------
(***************************************************************************)
(* How the guest kernel divides its memory at boot (enable_mmap of         *)
(* kernel/main.c) and then builds the address space of the user process    *)
(* from what is left (create_user_translation_table and generic_mmap of    *)
(* kernel/vma.c).  The private and the shared memory each have a frame     *)
(* allocator; a frame is known by its index in its region.                 *)
(*                                                                         *)
(* The heap is addressed in units, UnitsPerPage to a page, because a chunk *)
(* may begin and end anywhere in a page.  Two history variables record     *)
(* what becomes of the memory: uses, what each private frame is written    *)
(* as (kernel heap, a page table, or a page of the process), and heap_top, *)
(* how far the chunks of the heap reach.                                   *)
(***************************************************************************)
EXTENDS Integers, FiniteSets, Sequences

CONSTANTS
  PrivateFrames,    \* frames between _SHARED_NS_MEMORY_END and _ram_end
  SharedFrames,     \* frames of the shared region
  HeapFrames,       \* KERNEL_HEAP_SIZE in frames
  TableFrames,      \* frames per level: <<PGD, PUD, PMD, PT3>>
  UnitsPerPage,     \* grain of the heap's addresses
  Growths           \* lengths in units that kmalloc moves the break by

ASSUME GeometryAssumption ==
  /\ PrivateFrames \in Nat \ {0}
  /\ SharedFrames \in Nat \ {0, 1}
  /\ HeapFrames \in Nat /\ HeapFrames >= 5     \* heap_init's first chunk
  /\ TableFrames \in [1 .. 4 -> Nat \ {0}]
  /\ UnitsPerPage \in Nat \ {0}
  /\ Growths \subseteq Nat \ {0}

VARIABLES
  stage,            \* where enable_mmap and the loader have got to
  private_bitmap, private_available, private_holders, private_exposed,
  shared_bitmap, shared_available, shared_holders, shared_exposed,
  heap_break,       \* k_sbrk in units from the start of the heap
  tables,           \* first frame of each level, as the allocator returned it
  uses,             \* history: what each private frame is used as
  heap_top          \* history: how far the chunks of the heap reach

private == <<private_bitmap, private_available, private_holders,
             private_exposed>>
shared  == <<shared_bitmap, shared_available, shared_holders, shared_exposed>>
heap    == <<heap_break, heap_top>>
vars    == <<stage, private, shared, heap, tables, uses>>

Largest == PrivateFrames + SharedFrames + HeapFrames +
           TableFrames[1] + TableFrames[2] + TableFrames[3] + TableFrames[4]

Private == INSTANCE FrameAllocator WITH
  FrameCount            <- PrivateFrames,
  BitmapCount           <- Largest,
  RunLengths            <- {1} \cup {TableFrames[l] : l \in 1 .. 4},
  FixedLengths          <- {HeapFrames},
  MaxExposed            <- 1,
  bitmap_frame          <- private_bitmap,
  available_frame_count <- private_available,
  holders               <- private_holders,
  exposed               <- private_exposed

Shared == INSTANCE FrameAllocator WITH
  FrameCount            <- SharedFrames,
  BitmapCount           <- Largest,
  RunLengths            <- {1},
  FixedLengths          <- {SharedFrames \div 2},
  MaxExposed            <- 1,
  bitmap_frame          <- shared_bitmap,
  available_frame_count <- shared_available,
  holders               <- shared_holders,
  exposed               <- shared_exposed

Purposes == {"heap", "table", "page"}
Slots    == 0 .. Largest - 1

(* The frames of the translation tables, level by level.                   *)
LevelFrames(l) == tables[l] .. tables[l] + TableFrames[l] - 1

(* The heap's frames are the first of the private memory; heap_init makes  *)
(* one chunk of 0x2000 + PAGE_UP(0x2001) bytes, five pages, and moves the  *)
(* break by two.                                                           *)
HeapEnd    == HeapFrames * UnitsPerPage
FirstBreak == 2 * UnitsPerPage
FirstChunk == 0 .. 4

(* The pages that the units from at on, length of them, lie in.            *)
PagesOf(at, length) ==
  at \div UnitsPerPage .. (at + length - 1) \div UnitsPerPage

(***************************************************************************)
(* The virtual pages after the heap's are those kernel_vma_alloc gives to  *)
(* create_user_translation_table: once the tables are mapped they hold     *)
(* PGD, PUD, PMD and PT3 in this order, and before that nothing.           *)
(***************************************************************************)
TablePage(l) == HeapFrames + (IF l > 1 THEN TableFrames[1] ELSE 0)
                           + (IF l > 2 THEN TableFrames[2] ELSE 0)
                           + (IF l > 3 THEN TableFrames[3] ELSE 0)

FramesBehind(page) ==
  IF page < HeapFrames THEN {page}
  ELSE IF stage # "running" THEN {}
  ELSE {tables[l] + page - TablePage(l) :
          l \in {k \in 1 .. 4 : page - TablePage(k) \in 0 .. TableFrames[k] - 1}}

TypeOK ==
  /\ stage \in {"shared_heap", "heap", "tables", "running", "crashed",
                 "faulted"}
  /\ Private!TypeOK
  /\ Shared!TypeOK
  /\ heap_break \in 0 .. HeapEnd /\ heap_top \in Nat
  /\ tables \in Seq(Slots \cup {Private!Failed}) /\ Len(tables) <= 4
  /\ uses \in [Slots -> SUBSET Purposes]

Use(S, purpose) ==
  uses' = [f \in Slots |-> IF f \in S THEN uses[f] \cup {purpose} ELSE uses[f]]

-----------------------------------------------------------------------------
(* Both allocators are initialised before anything is reserved.            *)
Init ==
  /\ stage = "shared_heap"
  /\ Private!Init
  /\ Shared!Init
  /\ heap_break = 0 /\ heap_top = 0
  /\ tables = << >>
  /\ uses = [f \in Slots |-> {}]

(***************************************************************************)
(* The two reservations.  kframe_allocate_fixed returns the address or     *)
(* (-1); enable_mmap stops only on 0, which is neither, so it maps the     *)
(* heap on the frames it asked for whether or not they were reserved.      *)
(***************************************************************************)
ReserveSharedHeap ==
  /\ stage = "shared_heap"
  /\ IF Shared!FixedFits(0, SharedFrames \div 2)
     THEN Shared!AllocateFixed(0, SharedFrames \div 2)
     ELSE UNCHANGED shared
  /\ stage' = "heap"
  /\ UNCHANGED <<private, heap, tables, uses>>

(* Mutant: the reservation is one frame short.                             *)
ReserveHeapShort ==
  /\ stage = "heap"
  /\ Private!AllocateFixed(0, HeapFrames - 1)
  /\ heap_break' = FirstBreak /\ heap_top' = 5 * UnitsPerPage
  /\ Use(FirstChunk, "heap")
  /\ stage' = "tables"
  /\ UNCHANGED <<shared, tables>>

ReserveHeap ==
  /\ stage = "heap"
  /\ IF Private!FixedFits(0, HeapFrames)
     THEN Private!AllocateFixed(0, HeapFrames)
     ELSE UNCHANGED private
  /\ heap_break' = FirstBreak /\ heap_top' = 5 * UnitsPerPage   \* heap_init
  /\ Use(FirstChunk, "heap")
  /\ stage' = "tables"
  /\ UNCHANGED <<shared, tables>>

(***************************************************************************)
(* kmalloc when no chunk of the list fits.  k_sbrk tests the break against *)
(* the end of the heap, moves it, and returns the NEW break: the chunk is  *)
(* laid out from there upwards, and its end is tested against nothing.     *)
(* kmalloc writes its header, and who asked for it the rest.  A refusal is *)
(* -ENOMEM, which kmalloc takes for an address.  A write to a page that    *)
(* nothing is mapped on ends in the kernel's fault handler.                *)
(***************************************************************************)
Place(at, length) ==
  /\ heap_break' = at
  /\ heap_top' = IF at + length > heap_top THEN at + length ELSE heap_top
  /\ Use(UNION {FramesBehind(p) : p \in PagesOf(at, length)}, "heap")
  /\ stage' = IF \E p \in PagesOf(at, length) : FramesBehind(p) = {}
              THEN "faulted" ELSE stage

(* Mutant: the break is tested before it is moved.                         *)
GrowHeapTooFar(length) ==
  /\ stage \in {"tables", "running"}
  /\ heap_break <= HeapEnd
  /\ Place(heap_break + length, length)
  /\ UNCHANGED <<private, shared, tables>>

GrowHeap(length) ==
  /\ stage \in {"tables", "running"}
  /\ IF heap_break + length > HeapEnd
     THEN stage' = "faulted" /\ UNCHANGED <<heap, uses>>
     ELSE Place(heap_break + length, length)
  /\ UNCHANGED <<private, shared, tables>>

(***************************************************************************)
(* create_user_translation_table: one request per level, then one test of  *)
(* all four results for (-1).                                              *)
(***************************************************************************)
AllocateTable ==
  /\ stage = "tables"
  /\ Len(tables) < 4
  /\ LET count == TableFrames[Len(tables) + 1]
         frame == Private!RangeResult(count)
     IN  /\ IF frame = Private!Failed THEN UNCHANGED private
                                      ELSE Private!AllocateRange(count)
         /\ tables' = Append(tables, frame)
  /\ UNCHANGED <<stage, shared, heap, uses>>

MapTables ==
  /\ stage = "tables"
  /\ Len(tables) = 4
  /\ IF \E l \in 1 .. 4 : tables[l] = Private!Failed
     THEN stage' = "crashed" /\ UNCHANGED uses
     ELSE /\ stage' = "running"
          /\ Use(UNION {LevelFrames(l) : l \in 1 .. 4}, "table")
  /\ UNCHANGED <<private, shared, heap, tables>>

(* One turn of the page loop of generic_mmap; (-1) is a crash.             *)
MapPage ==
  /\ stage = "running"
  /\ LET frame == Private!RangeResult(1)
     IN  IF frame = Private!Failed
         THEN stage' = "crashed" /\ UNCHANGED <<private, uses>>
         ELSE /\ Private!AllocateRange(1)
              /\ Use({frame}, "page")
              /\ UNCHANGED stage
  /\ UNCHANGED <<shared, heap, tables>>

Next == \/ ReserveSharedHeap \/ ReserveHeap
        \/ \E length \in Growths : GrowHeap(length)
        \/ AllocateTable \/ MapTables \/ MapPage

Spec == Init /\ [][Next]_vars

-----------------------------------------------------------------------------
(* A private frame is never written as two different things: the heap,     *)
(* the tables and the pages of the process are disjoint (enable_mmap       *)
(* reserves the heap so that kframe_allocate_secure cannot hand it out).   *)
SingleUse == \A f \in Slots : Cardinality(uses[f]) <= 1

(* What holds instead when the heap was reserved: the pages of the process *)
(* are nobody else's, and the only frames written as two things are tables *)
(* that a chunk of the heap has reached, because it was laid out from the  *)
(* moved break (vma.c:1116, heap.c:83) and ends past the heap.             *)
OverlapOnlyPastEnd ==
  \A f \in Slots : Cardinality(uses[f]) > 1 =>
    uses[f] = {"heap", "table"} /\ heap_top > HeapEnd

(* Once the process runs, its tables are four disjoint runs of managed     *)
(* frames, and no request for them was answered with a run that is too     *)
(* short and not marked: no level is read through another level's entries, *)
(* and no page of the process will be found in a table.                    *)
TablesDisjoint ==
  stage = "running" =>
    /\ \A l \in 1 .. 4 : LevelFrames(l) \subseteq 0 .. PrivateFrames - 1
    /\ \A k, l \in 1 .. 4 : k # l => LevelFrames(k) \cap LevelFrames(l) = {}
    /\ \A l \in 1 .. 4 : \A f \in LevelFrames(l) : private_exposed[f] = 0

(* The kernel gives up only when it has to: at a crash the private frames  *)
(* left are fewer than the request that failed asked for, though they lie  *)
(* wherever earlier requests left them.                                    *)
CrashOnlyWhenExhausted ==
  stage = "crashed" =>
    LET refused == {l \in 1 .. 4 : tables[l] = Private!Failed}
        asked   == IF refused = {} THEN {1} ELSE {TableFrames[l] : l \in refused}
    IN  \A count \in asked : Cardinality(Private!FreeFrames) < count
=============================================================================
