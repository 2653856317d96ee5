----------------------------- MODULE KernelHeap -----------------------------
(***************************************************************************)
(* One of the kernel's two heaps (kernel/heap.c, with k_sbrk / shared_sbrk *)
(* of kernel/vma.c): a list of chunks searched first fit, the tail of      *)
(* which is the free remainder, and growth by sbrk when nothing fits.      *)
(*                                                                         *)
(* Addresses and sizes are words relative to the start of the heap; a      *)
(* chunk is a header of Header words and the block handed to the caller.   *)
(* The kernel runs on one core and masks interrupts, so a call is a step.  *)
(***************************************************************************)
EXTENDS Integers, Sequences, FiniteSets

CONSTANTS
  Header,        \* sizeof(mem_chunk_t) in words
  MinSize,       \* HEAP_MIN_SIZE, which heap_init moves the break by
  HeadSize,      \* the size heap_init writes in the first chunk
  HeapSize,      \* heap_size or shared_heap_size
  Requests       \* sizes callers ask for

(* heap_init computes 0x2000 + PAGE_UP(0x2001) = 0x5000 for the first      *)
(* chunk after moving the break by 0x2000.                                 *)
ASSUME HeapAssumption ==
  /\ Header \in Nat \ {0}
  /\ MinSize \in Nat /\ HeadSize \in Nat /\ HeapSize \in Nat
  /\ Header < MinSize /\ MinSize <= HeadSize /\ HeadSize <= HeapSize
  /\ Requests \subseteq Nat \ {0}

VARIABLES
  chunks,    \* the list from heap->head: [at, size, used, block]
  brk,       \* k_sbrk or shared_sbrk
  grown,     \* chunks placed by growth; only heap->tail ever points to one
  live,      \* history: chunks whose block a caller has not freed
  broken     \* "": sound; "overlaid": a chunk was laid over another one's
             \* header or over a live block; "faulted": a header was
             \* written at an error number taken for an address

vars == <<chunks, brk, grown, live, broken>>

NoBlock   == -1
AllocSize(size) == size + Header
MinAlloc  == Header + 1                  \* MIN_HEAP_ALLOC

Chunk(at, size, used, block) ==
  [at |-> at, size |-> size, used |-> used, block |-> block]

Extent(c)   == c.at .. c.at + c.size - 1
HeaderOf(c) == c.at .. c.at + Header - 1
Index       == 1 .. Len(chunks)
ChunkSet    == {chunks[i] : i \in Index}

TypeOK ==
  /\ \A c \in ChunkSet \cup grown \cup live :
       /\ c.at \in Nat /\ c.size \in Nat /\ c.used \in BOOLEAN
       /\ c.block \in Nat \cup {NoBlock}
  /\ brk \in 0 .. HeapSize
  /\ broken \in {"", "overlaid", "faulted"}

-----------------------------------------------------------------------------
(* heap_init.                                                              *)
Init ==
  /\ chunks = <<Chunk(0, HeadSize, FALSE, NoBlock)>>
  /\ brk = MinSize
  /\ grown = {}
  /\ live = {}
  /\ broken = ""

(* The caller will write the whole chunk c, _malloc has written the words  *)
(* of headers.  What the heap does once either hits another chunk's header *)
(* or somebody's block is not modelled: the actions are disabled.          *)
Place(c, headers, others) ==
  /\ live' = live \cup {c}
  /\ broken' = IF (Extent(c) \cup headers) \cap
                    UNION ({HeaderOf(d) : d \in others} \cup
                           {Extent(d) : d \in live}) = {}
               THEN "" ELSE "overlaid"

Fits(i, size) == ~ chunks[i].used /\ chunks[i].size >= AllocSize(size)

FirstFit(i, size) ==
  /\ Fits(i, size)
  /\ \A j \in 1 .. i - 1 : ~ Fits(j, size)

(***************************************************************************)
(* _malloc from the list: the chunk is split unless the remainder could    *)
(* not hold a header and a word.                                           *)
(***************************************************************************)
HandedOut(c, size) == Chunk(c.at, size, TRUE, c.at + Header)

MallocFromList(size) ==
  /\ broken = ""
  /\ \E i \in Index :
       /\ FirstFit(i, size)
       /\ LET c      == chunks[i]
              need   == AllocSize(size)
              splits == c.size > need + MinAlloc
              mine   == HandedOut(c, IF splits THEN need ELSE c.size)
              rest   == IF splits
                        THEN <<Chunk(c.at + need, c.size - need, FALSE, NoBlock)>>
                        ELSE << >>
          IN  /\ chunks' = SubSeq(chunks, 1, i - 1) \o <<mine>> \o rest
                             \o SubSeq(chunks, i + 1, Len(chunks))
              /\ Place(mine, IF splits THEN HeaderOf(rest[1]) ELSE {},
                       ChunkSet \ {c})
  /\ UNCHANGED <<brk, grown>>

(***************************************************************************)
(* _malloc by growth.  sbrk returns the break it has moved, and the chunk  *)
(* begins there; the list is not extended.  When the heap is exhausted     *)
(* sbrk returns -ENOMEM, which the test for 0 does not notice, and the     *)
(* header is written at that address.                                      *)
(***************************************************************************)
NothingFits(size) == \A i \in Index : ~ Fits(i, size)

(* Mutants: sbrk forgets the header; sbrk tests the break it has.          *)
NewBreakHeaderless(size) == brk + size
OutOfHeapLate(size)      == brk > HeapSize

NewBreak(size)  == brk + AllocSize(size)
OutOfHeap(size) == NewBreak(size) > HeapSize

MallocGrow(size) ==
  /\ broken = ""
  /\ NothingFits(size)
  /\ ~ OutOfHeap(size)
  /\ brk' = NewBreak(size)
  /\ LET c == Chunk(brk', AllocSize(size), TRUE, brk' + Header)
     IN  /\ grown' = grown \cup {c}
         /\ Place(c, {}, ChunkSet)
  /\ UNCHANGED chunks

MallocExhausted(size) ==
  /\ broken = ""
  /\ NothingFits(size)
  /\ OutOfHeap(size)
  /\ broken' = "faulted"
  /\ UNCHANGED <<chunks, brk, grown, live>>

(***************************************************************************)
(* _free of a live block.  The chunk absorbs the next chunk when that one  *)
(* is free and is absorbed by the previous one when that one is free; its  *)
(* own used flag keeps its value, and a grown chunk is not found at all.   *)
(***************************************************************************)
(* Mutant: the next chunk leaves the list, its words are lost.             *)
AbsorbNextLosing(s, i) ==
  IF i < Len(s) /\ ~ s[i + 1].used
  THEN SubSeq(s, 1, i) \o SubSeq(s, i + 2, Len(s))
  ELSE s

AbsorbNext(s, i) ==
  IF i < Len(s) /\ ~ s[i + 1].used
  THEN SubSeq(s, 1, i - 1) \o <<[s[i] EXCEPT !.size = @ + s[i + 1].size]>>
         \o SubSeq(s, i + 2, Len(s))
  ELSE s

AbsorbIntoPrevious(s, i) ==
  IF i > 1 /\ ~ s[i - 1].used
  THEN SubSeq(s, 1, i - 2)
         \o <<[s[i - 1] EXCEPT !.size = @ + s[i].size, !.block = NoBlock]>>
         \o SubSeq(s, i + 1, Len(s))
  ELSE s

Free(c) ==
  /\ broken = ""
  /\ c \in live
  /\ live' = live \ {c}
  /\ IF \E i \in Index : chunks[i].block = c.block
     THEN LET i == CHOOSE j \in Index : chunks[j].block = c.block
          IN  chunks' = AbsorbIntoPrevious(AbsorbNext(chunks, i), i)
     ELSE UNCHANGED chunks
  /\ UNCHANGED <<brk, grown, broken>>

Next ==
  \/ \E size \in Requests :
       MallocFromList(size) \/ MallocGrow(size) \/ MallocExhausted(size)
  \/ \E c \in live : Free(c)

Spec == Init /\ [][Next]_vars

-----------------------------------------------------------------------------
Overlap(c, d) == Extent(c) \cap Extent(d) # {}

(* Whatever is allocated and freed, the chunks of the list follow one      *)
(* another without gap or overlap from the start of the heap to HeadSize:  *)
(* neither split nor the coalescing in _free loses or duplicates a word.   *)
ListTiles ==
  /\ chunks # << >> /\ chunks[1].at = 0
  /\ \A i \in Index :
       chunks[i].at + chunks[i].size =
         IF i = Len(chunks) THEN HeadSize ELSE chunks[i + 1].at

(* A grown chunk is laid over one grown later only if the later request    *)
(* was smaller: sbrk's new break makes room for the next chunk's size, not *)
(* for this one's.                                                         *)
GrowthOverlapsOnlyWhenShrinking ==
  \A c, d \in grown : c.at < d.at /\ Overlap(c, d) => d.size < c.size
=============================================================================
