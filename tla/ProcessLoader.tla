--------------------------- MODULE ProcessLoader ----------------------------
(***************************************************************************)
(* sys_execve of kernel/execve.c: how the one user program of the realm    *)
(* gets its pages, its stack and its arguments and is scheduled.           *)
(*                                                                         *)
(* Addresses are counted in units, UnitsPerPage to a page, so that an      *)
(* address can be inside a page.  A frame's contents are what was last     *)
(* copied to each of its units.  The address space is AddressMap, which    *)
(* PageTable implements: map gives a page its frame and access.            *)
(*                                                                         *)
(* The list of regions is kept beside the map, and mmap decides by the     *)
(* list.  kmalloc never returns 0 (k_sbrk does not), so the tests for it   *)
(* are left out; allocators fail with -1, and that is a crash.             *)
(***************************************************************************)
EXTENDS Integers, Sequences, FdTable

CONSTANTS
  UnitsPerPage,     \* units of an address per page
  TablePages,       \* pages the four last-level tables of a process reach
  StackBase,        \* p->stack_base, as a page
  StackPages,       \* p->stack_size in pages
  MaxFrames,        \* most free frames
  FreeFrames,       \* how many frames may be free
  Programs          \* user_binary: its e_type, and its PT_LOAD headers

(* What load_executable reads of an Elf64_Phdr.                            *)
Header == [vaddr : Nat, memsz : Nat, filesz : Nat, flags : SUBSET {"R", "W", "X"}]

ASSUME LoaderAssumption ==
  /\ UnitsPerPage \in Nat \ {0}
  /\ TablePages \in Nat /\ StackBase \in 0 .. TablePages
  /\ StackPages \in 1 .. StackBase - 1
  /\ MaxFrames \in Nat /\ FreeFrames \subseteq 0 .. MaxFrames
  /\ \A p \in Programs :
       /\ p.is_loadable \in BOOLEAN
       /\ p.segments \in Seq(Header)
       /\ \A i \in 1 .. Len(p.segments) :
            p.segments[i].filesz <= p.segments[i].memsz

VARIABLES
  program,          \* what image_generator.c put in user_binary
  frames,           \* frames free when the process is created
  stage,            \* how far sys_execve has got
  segment,          \* the header load_executable is at
  regions,          \* p->head_region and the list behind it
  map,              \* the translations of the process's tables
  used_frames,      \* frames handed out so far
  memory,           \* what each unit of each frame holds
  process_state,    \* p->state
  process_head,     \* is the process in the kernel's list
  fd_table          \* kernel_struct.fd_head and the list behind it

loader == <<program, frames, stage, segment, regions, map, used_frames, memory,
            process_state, process_head, fd_table>>

UserPages == 0 .. TablePages - 1
Units == 0 .. UnitsPerPage - 1

PageDown(u) == u \div UnitsPerPage
PageUp(u)   == (u + UnitsPerPage - 1) \div UnitsPerPage

Segments == program.segments
Base(s)  == PageDown(s.vaddr)

(* Mutant: the file size decides how many pages a segment gets.            *)
LoadPagesOfFile(s) == PageUp(s.filesz)

(* load_size: the length rounded up, wherever in its page it starts.       *)
LoadPages(s) == PageUp(s.memsz)

(***************************************************************************)
(* perm_to_pt.  A permission set without R and W leaves PT_RW, which is 0. *)
(* PT_NX is bit 54 and pt an int: it is lost, every page is executable.    *)
(***************************************************************************)
Access(flags) == IF "W" \notin flags /\ "R" \in flags THEN "ro" ELSE "rw"

NoPage     == [frame |-> -1, access |-> "none"]
UserLeaves == [frame : 0 .. MaxFrames - 1, access : {"ro", "rw"}]
Fresh    == <<0, 0>>                  \* a unit nothing was copied to
Argument == <<-1, 0>>                 \* a unit of the argument block
Pid      == 1                         \* the first of allocate_pid

LoaderTypeOK ==
  /\ program \in Programs /\ frames \in FreeFrames
  /\ stage \in {"mmap", "copy", "protect", "stack", "arguments", "insert",
                "scheduler", "crashed", "faulted"}
  /\ segment \in 1 .. Len(Segments) + 1
  /\ regions \in Seq([base : Nat, size : Nat \ {0}])
  /\ map \in [UserPages -> UserLeaves \cup {NoPage}]
  /\ used_frames \in 0 .. frames
  /\ memory \in [0 .. MaxFrames - 1 -> [Units -> Int \X Int]]
  /\ process_state \in {"NONE", "READY", "RUNNING"}
  /\ process_head \in BOOLEAN
  /\ fd_table \in {<< >>, StandardFds(Pid)}

LoaderInit ==
  /\ program \in Programs
  /\ frames \in FreeFrames
  /\ stage = IF ~ program.is_loadable THEN "scheduler"   \* -ENOEXEC
             ELSE IF program.segments = << >> THEN "stack" ELSE "mmap"
  /\ segment = 1
  /\ regions = << >>
  /\ map = [p \in UserPages |-> NoPage]
  /\ used_frames = 0
  /\ memory = [f \in 0 .. MaxFrames - 1 |-> [u \in Units |-> Fresh]]
  /\ process_state = "NONE"
  /\ process_head = FALSE
  /\ fd_table = << >>

-----------------------------------------------------------------------------
(* The end of a region, exclusive.                                         *)
End(r) == r.base + r.size

(* Mutant: the end of the head belongs to it, as in address_in_mmap_region.*)
FoundTouching(list, base, size) ==
  \/ End(list[1]) >= base + size
  \/ list[1].base <= base /\ base <= End(list[1])
  \/ \E i \in 1 .. Len(list) - 1 : End(list[i]) <= base /\ base < list[i + 1].base
  \/ base + size <= End(list[Len(list)])

(***************************************************************************)
(* Does search_mmap_region_fixed return a region?  It does when the        *)
(* request is in the head or ends before the head's end, when it lies      *)
(* between two regions, and when it ends before the end of the last.  It   *)
(* does not when the request overlaps a region that is not the head.       *)
(***************************************************************************)
Found(list, base, size) ==
  \/ End(list[1]) >= base + size
  \/ list[1].base <= base /\ base < End(list[1])
  \/ \E i \in 1 .. Len(list) - 1 : End(list[i]) <= base /\ base < list[i + 1].base
  \/ base + size <= End(list[Len(list)])

(***************************************************************************)
(* mmap_region_insert: before the first region above, or in the first gap  *)
(* that is large enough, or at the end; else the region is not inserted,   *)
(* and no caller looks at the result.  The last region is only compared    *)
(* with at the end.                                                        *)
(***************************************************************************)
IsAbove(list, r, i)  == list[i].base > r.base
IsGapFor(list, r, i) == End(list[i]) <= r.base /\ End(r) < list[i + 1].base
Openings(list, r)    == {i \in 1 .. Len(list) - 1 :
                           IsAbove(list, r, i) \/ IsGapFor(list, r, i)}

InsertedBehind(list, r, place) ==
  SubSeq(list, 1, place) \o <<r>> \o SubSeq(list, place + 1, Len(list))

InsertedAtOpening(list, r) ==
  LET first == First(Openings(list, r))
  IN  InsertedBehind(list, r, IF IsAbove(list, r, first) THEN first - 1 ELSE first)

(* Mutant: a region that touches the last one is not appended.             *)
InsertedApart(list, r) ==
  CASE list = << >> -> <<r>>
    [] Openings(list, r) # {} -> InsertedAtOpening(list, r)
    [] list # << >> /\ Openings(list, r) = {} ->
         IF End(list[Len(list)]) < r.base THEN Append(list, r) ELSE list

Inserted(list, r) ==
  CASE list = << >> -> <<r>>
    [] Openings(list, r) # {} -> InsertedAtOpening(list, r)
    [] list # << >> /\ Openings(list, r) = {} ->
         IF End(list[Len(list)]) <= r.base THEN Append(list, r) ELSE list

(* The VM ends: nothing of the process is left to look at.                 *)
Stop(how) ==
  /\ stage' = how
  /\ UNCHANGED <<program, frames, segment, regions, map, used_frames, memory,
                 process_state, process_head, fd_table>>

(* A page that gets a frame has its leaf outside of the process's tables.  *)
OutOfTables(base, size) ==
  \E i \in 0 .. size - 1 : used_frames + i < frames /\ base + i >= TablePages

(* Mutant: the result of kframe_allocate_secure is not looked at.          *)
OutOfFramesIgnored(size) == FALSE

OutOfFrames(size) == used_frames + size > frames

(***************************************************************************)
(* sys_mmap_user with MAP_FIXED.  On the first call the head itself is     *)
(* mapped; later ones search.  A region found is taken for the address:    *)
(* va_base becomes the kernel address of the region, whose leaf is far     *)
(* outside of the tables, and the store faults.                            *)
(***************************************************************************)
MapPages(base, size, access, next) ==
  IF OutOfFrames(1) THEN Stop("crashed")
  ELSE IF regions # << >> /\ Found(regions, base, size) THEN Stop("faulted")
  ELSE IF OutOfTables(base, size) THEN Stop("faulted")
  ELSE IF OutOfFrames(size) THEN Stop("crashed")
  ELSE LET r == [base |-> base, size |-> size]
       IN  /\ map' = [p \in UserPages |->
                        IF p \in base .. base + size - 1
                        THEN [frame  |-> used_frames + (p - base),
                              access |-> access]
                        ELSE map[p]]
           /\ used_frames' = used_frames + size
           /\ regions' = IF regions = << >> THEN <<r>>
                         ELSE <<Head(regions)>> \o Inserted(Tail(regions), r)
           /\ stage' = next
           /\ UNCHANGED <<program, frames, segment, memory, process_state,
                          process_head, fd_table>>

-----------------------------------------------------------------------------
(* One header: pages, writable for the time being.  An empty segment and   *)
(* one at address 0 are refused, the second after it was mapped.           *)
MmapSegment ==
  LET s == Segments[segment]
  IN  /\ stage = "mmap"
      /\ IF LoadPages(s) = 0
         THEN stage' = "scheduler" /\ UNCHANGED <<program, frames, segment, regions,
                map, used_frames, memory, process_state, process_head, fd_table>>
         ELSE MapPages(Base(s), LoadPages(s), "rw",
                       IF Base(s) = 0 THEN "scheduler" ELSE "copy")

(* copy_to_user to the start of the first page, not to p_vaddr.  The file  *)
(* size is at most load_size, so the copy stays in the pages just mapped.  *)
CopiedTo(s, f, u) ==
  {i \in 0 .. s.filesz - 1 : /\ map[Base(s) + PageDown(i)].frame = f
                             /\ i % UnitsPerPage = u}

CopySegment ==
  LET s == Segments[segment]
  IN  /\ stage = "copy"
      /\ memory' = [f \in 0 .. MaxFrames - 1 |-> [u \in Units |->
                      IF CopiedTo(s, f, u) = {} THEN memory[f][u]
                      ELSE <<segment, CHOOSE i \in CopiedTo(s, f, u) : TRUE>>]]
      /\ stage' = "protect"
      /\ UNCHANGED <<program, frames, segment, regions, map, used_frames,
                     process_state, process_head, fd_table>>

(* Mutant: the physical address is looked up at the end of the segment.    *)
PhysicalAddressLast(s) == map[Base(s) + LoadPages(s) - 1].frame

(* get_physical_address of the address mmap returned, through the process's*)
(* tables, which are already in ttbr0_el1.                                 *)
PhysicalAddress(s) == map[Base(s)].frame

(* The first page, and only it, is mapped again with the header's flags.   *)
ProtectSegment ==
  LET s == Segments[segment]
  IN  /\ stage = "protect"
      /\ map' = [map EXCEPT ![Base(s)] = [frame  |-> PhysicalAddress(s),
                                          access |-> Access(s.flags)]]
      /\ segment' = segment + 1
      /\ stage' = IF segment = Len(Segments) THEN "stack" ELSE "mmap"
      /\ UNCHANGED <<program, frames, regions, used_frames, memory,
                     process_state, process_head, fd_table>>

(* load_executable ends with the stack, below stack_base.                  *)
MmapStack ==
  /\ stage = "stack"
  /\ MapPages(StackBase - StackPages, StackPages, "rw", "arguments")

(* create_new_process writes argc, argv, envp and the strings at the top   *)
(* of the stack, through the process's own address.                        *)
BuildArguments ==
  /\ stage = "arguments"
  /\ memory' = [memory EXCEPT ![map[StackBase - 1].frame][UnitsPerPage - 1] = Argument]
  /\ stage' = "insert"
  /\ UNCHANGED <<program, frames, segment, regions, map, used_frames,
                 process_state, process_head, fd_table>>

(* add_new_process, the three insert_fd, and the state.                    *)
InsertProcess ==
  /\ stage = "insert"
  /\ process_head' = TRUE
  /\ fd_table' = StandardFds(Pid)
  /\ process_state' = "READY"
  /\ stage' = "scheduler"
  /\ UNCHANGED <<program, frames, segment, regions, map, used_frames, memory>>

(* schedule(): kernel_main gets here whatever sys_execve returned, and     *)
(* without a READY process the loop turns for ever.                        *)
Schedule ==
  /\ stage = "scheduler"
  /\ process_head /\ process_state = "READY"
  /\ process_state' = "RUNNING"
  /\ UNCHANGED <<program, frames, stage, segment, regions, map, used_frames,
                 memory, process_head, fd_table>>

LoaderNext == MmapSegment \/ CopySegment \/ ProtectSegment \/ MmapStack
              \/ BuildArguments \/ InsertProcess \/ Schedule

(* There is one thread and nothing it waits for.                           *)
LoaderSpec == LoaderInit /\ [][LoaderNext]_loader /\ WF_loader(LoaderNext)

-----------------------------------------------------------------------------
(* What a linker makes for this loader: segments on page boundaries, above *)
(* page 0, in ascending order, not sharing a page, below the stack.        *)
WellFormed ==
  /\ program.is_loadable
  /\ \A i \in 1 .. Len(Segments) :
       LET s   == Segments[i]
           top == Base(s) + LoadPages(s)
       IN  /\ s.vaddr % UnitsPerPage = 0 /\ Base(s) > 0 /\ s.memsz > 0
           /\ top <= StackBase - StackPages
           /\ i < Len(Segments) => top <= Base(Segments[i + 1])

PagesOf(s)  == Base(s) .. Base(s) + LoadPages(s) - 1
StackRange  == StackBase - StackPages .. StackBase - 1
Contents(u) == memory[map[PageDown(u)].frame][u % UnitsPerPage]

(* A process that can be scheduled has every byte of its file at the       *)
(* address it was linked for, memory up to memsz, its writable segments    *)
(* and its stack writable, and its arguments on the stack: later segments, *)
(* the stack and the second mapping of first pages disturb none of it.     *)
ImageInPlace ==
  WellFormed /\ process_state # "NONE" =>
    /\ \A i \in 1 .. Len(Segments) :
         LET s == Segments[i]
         IN  /\ \A p \in s.vaddr \div UnitsPerPage ..
                         (s.vaddr + s.memsz - 1) \div UnitsPerPage :
                  /\ map[p] # NoPage
                  /\ "W" \in s.flags => map[p].access = "rw"
             /\ \A u \in 0 .. s.filesz - 1 : Contents(s.vaddr + u) = <<i, u>>
    /\ \A p \in StackRange : map[p].access = "rw"
    /\ Contents(StackBase * UnitsPerPage - 1) = Argument

(* The region list says what is mapped: mmap searches the list and never   *)
(* the tables, so a page in one and not in the other is given out twice.   *)
RegionsTrackMap ==
  WellFormed /\ stage \notin {"crashed", "faulted"} =>
    /\ {p \in UserPages : map[p] # NoPage} =
         UNION {regions[i].base .. End(regions[i]) - 1 : i \in 1 .. Len(regions)}
    /\ \A i \in 1 .. Len(regions) - 1 : End(regions[i]) <= regions[i + 1].base

(* No frame is seen through two pages, well-formed program or not: the     *)
(* frame get_physical_address finds is the one the page already has.       *)
OnePagePerFrame ==
  \A p, q \in UserPages :
    p # q /\ map[p] # NoPage => map[p].frame # map[q].frame

(* Frames for every segment and the stack.                                 *)
Needed ==
  LET sizes[i \in 0 .. Len(Segments)] ==
        IF i = 0 THEN StackPages ELSE sizes[i - 1] + LoadPages(Segments[i])
  IN  sizes[Len(Segments)]

(* A well-formed program is run if there is memory for it: no search       *)
(* mistakes a free range for a region, and no step refuses.                *)
WellFormedRuns ==
  WellFormed /\ Needed <= frames ~> process_state = "RUNNING"
=============================================================================
