# A specification of the realm VM: guest kernel and VMM

TLA+ modules, TLC runs and TLAPS proofs for `shdir/arm-cca-kvm-realm-vm`: a small
guest kernel (`src/kernel`, C) that sets up its memory, loads one user program,
runs it and forwards its system calls, and the VMM (`src/main.rs`, Rust) that
starts the guest in a realm over KVM and serves those calls. The rest of the
repository fetches and starts the software stack around them.

Paths below are relative to `shdir/arm-cca-kvm-realm-vm/src`; `kernel/x.c` is the
guest kernel, `main.rs` the VMM.

## 1. Inventory

| Component | State | Operations | Module |
|---|---|---|---|
| Frame allocator, `kernel/vma.c` 330-481 | one bitmap byte per frame, count of available frames | init, allocate one / a fixed run / the first run that fits, free | `FrameAllocator` |
| Boot memory, `kernel/main.c` 150-272, `kernel/vma.c` 77-113 | two allocators, break of each heap, the tables' frames | reserve the heaps, allocate and map tables, map pages | `BootMemory` |
| Heaps, `kernel/heap.c`, `k_sbrk` and `shared_sbrk` | list of chunks, break | init, malloc (first fit, split, growth), free (coalescing) | `KernelHeap` |
| Hypercall channel, `kernel/hypercall.c`, `uart_syscall.c`, `runloop` in `main.rs` | request block in shared memory, bytes sent, `recv_buffer` | write the block, send its address, decode, serve, clear, read the answer | `HypercallChannel`, `RemoteCall` |
| System calls, `kernel/syscall.c`, copies in `vma.c`, faults in `handler.c` | the call in progress, descriptors of the process | open, read, write, lseek, close, exit, fault | `Syscalls` |
| VMM handlers, `handle_hypercall` in `main.rs` | descriptors and file positions of the VMM, bytes read | one arm per hypercall code | `Syscalls` |
| Descriptor table, `kernel/fd.c` | linked list of entries | insert, look up, delete | `FdTable`, used by `ProcessLoader` and `Syscalls` |
| Memory regions, `kernel/vma.c` 483-908, `main.c` 87-148 | region lists of kernel and processes | search, insert, mmap, vma alloc | a process's list in `ProcessLoader` |
| Page tables, `kernel/vma.c` 115-184 and 910-1011 | four levels of entries | map a run of pages at boot, map one page | `PageTable`, `AddressMap` |
| Loader and scheduler, `kernel/execve.c`, `main.c` 393-406 | the program, the process's regions, pages, descriptors and state | execve, schedule | `ProcessLoader` |
| Exception entry, `kernel/exception.S`, `arch_ops.s`, `handler.c` | saved registers, kernel stack | entry, dispatch, return | `ExceptionEntry` |
| Start and relocation, `kernel/start.c` | words of the image, relocation store | relocate, record, shift to virtual addresses | `KernelStart` |
| Image generator, `kernel/image_generator.c` | `kernel_start.bin` | lay out the segments, copy the user's program over `user_binary`, clear the first byte | `ImageGenerator` |
| VM lifecycle, `main.rs` 359-1030 and 1182-1248 | VM, memory slots, realm state | read the kernel, create, load, populate, activate, run | `RealmLifecycle`; with the two above in `Machine` |

Not modelled, and not planned: the console UART (output nobody reads), the
wrappers of single instructions in `rsi.c`, `psci.c` and `feature.c`, the
memory and string helpers, the host scripts, and sources the build does not use.
Of `vma.c` and `main.c` the kernel's own region list is left out: at boot
`kernel_vma_regions_alloc` fills it, but only its head is ever read, once, by the
one call of `kernel_vma_alloc` in `create_user_translation_table`, which puts the
tables right behind the heap. `PROJECT.json` lists each part with its reason.

**How the parts interact.** Everything in the guest runs on one core with
interrupts masked; the spin locks of the source are comments. So a kernel
function is atomic with respect to other kernel functions, and the hard cases are
sequences, not races: what a long run of legal calls leaves in an allocator, what
happens after one step of several fails, and what two sides that share a protocol
believe of each other. The one real boundary is between guest and VMM: every byte
the guest writes to the second UART is an exit to the VMM, and the guest stands
still until the VMM resumes it. The VMM reads and answers a request in place, in
memory both share.

**What makes each part correct.** No frame is granted twice and the count of
free frames is exact; heap, tables and pages do not share a frame; blocks of a heap
do not overlap; the processor finds the page that was mapped, and mapping one page
disturbs no other; a program runs with every byte where it was linked; a hypercall
is answered once, with the answer to its own request, and arrives; a system call
acts on the descriptor the process named and comes back. Which of these the code
keeps, and which it does not, is what the runs show. Before all that the guest has
to come to life: the image is laid out as linked, the VMM loads it before a realm
is measured and never after, and the kernel's own addresses follow it from physical
to virtual memory. And a system call comes back to where it was made.

## 2. Modules

**`FrameOwnership`** is what an allocator promises: how many owners each frame
has; acquire a set nobody holds, release one frame. Where a request is answered with
frames that are not set aside (`Expose`), the promise ends for these frames, and for
no other.

**`FrameAllocator`** is `kframe_alloc_t`. `bitmap_frame` and
`available_frame_count` are the fields of that name; one action per function.
Addresses are frame indices. The first-fit loop of `kframe_allocate_range` is
written as what it returns: `FirstFit` if some run fits, else the start of a
free run at the end of memory (`TrailingRunStart`, the value the loop leaves in
`target`), else failure. `holders` is a history variable that counts the callers
owning each frame: callers own what a call returned unless it returned -1, the
value they test for, and free only what they own. A request for more than one frame may
come back with a run that is too short and that nothing marks (`LeaveUnmarked`): the
history variable `exposed` counts how often each frame was given away like that, and
the properties say what is true up to then and what stays true after it. `kframe_allocate_single_frame`
has no callers; it is modelled as it stands.

**`BootMemory`** composes two instances of `FrameAllocator`, private and shared
memory, with the order of requests the kernel makes: reserve both heaps
(`enable_mmap`), then the four levels of the process's tables
(`create_user_translation_table`), then pages (`generic_mmap`), the heap growing
all the while. `k_sbrk` returns the break after it moved it, so a grown chunk is laid
out from the new break upwards (`Place`) and the last one ends past the heap. Behind
the heap's pages are those the tables are mapped on (`TablePage`, `FramesBehind`): once
they are, such a chunk is written into a table, before it into nothing, which is a
fault. Hence the heap is addressed in units smaller than a page. The history variables
are `uses`, what each frame is written as, and `heap_top`, how far the chunks reach.

**`KernelHeap`** is one heap, the kernel's or the shared one: the list of chunks,
the break, and the chunks placed by growth, which only `tail` ever points to.
`broken` records the first time the heap destroys something: a chunk laid over a
header or a live block (`"overlaid"`), a header written at an error number
(`"faulted"`). The heap stops there: what follows is undefined.

**`RemoteCall`** is a hypercall as the guest kernel sees it: call, be served
(with an answer to this request), return; or the VMM ends.

**`HypercallChannel`** is how it is done: `io_hypercall` fills a block, sends the
block's address byte by byte; `runloop` appends each byte to `recv_buffer`, and
with the eighth decodes the address, serves the block in place and clears the
buffer. `word0` is the first word of each block, request and then answer.

**`Syscalls`** is the path of a system call above that channel. `RemoteCall`
stands for the channel, which `HypercallChannel` is shown to implement. The
kernel's half has one action per `sys_*` function up to its hypercall and one for
what follows its return; the VMM's half has one per arm of `handle_hypercall`,
and `hypercall_read`'s loop one action per call of `libc::read`. Host results are
nondeterministic: opens and reads may fail, reads may be short, writes may fail.
Standard input may be a terminal or a file. A user buffer is mapped, mapped in its
first page only, or not mapped: a copy to the second kind comes back if the answer is
short enough for the first page, and otherwise faults (`CopyReturns`, `CopyFaults`). A
path that is not mapped faults in `strlen` (`SysOpen`).

The descriptors are the list of `FdTable` as `sys_execve` leaves it.

**`FdTable`** has the functions of `fd.c` as operators on the sequence of entries
from `fd_head` on. `InsertFd` keeps what the pointer loops do: without a higher
descriptor in the table `new` is 0, the loop that looks for the entry before it
stops at the head, and the head's link is overwritten. The three inserts of
`sys_execve` so leave the descriptors 0 and 2. `append_fd` has no callers.

**`ExceptionEntry`** is the way into the kernel and out of it. The kernel stack is
an array of words and each word says what it is and when it was computed, so that a
register that comes back in another's place, or from an older call, shows. The
frame is built by `Frame` in the order of the pushes and read by `SwitchToUser` at
the offsets `_switch_to_user` steps through. What the source does and the model
keeps: `lower_el_aarch64_sync` never moves `SP_EL1` back over the frame; the saved
`spsr` is loaded and dropped (`mrs` where `msr` is meant); `sp_el0` is taken from
beyond the frame; when the shared heap has no block left, the EXIT hypercall of a
fault handler faults itself; and a fault of the kernel pushes its frame below whatever
the interrupted handler has on the stack, up to `HandlerWords` (`KernelFault`, `Push`).
What happens inside a system call is `Syscalls`; here
it is answered, passed on in a block of the shared heap that is never free again,
or faults.

**`ImageGenerator`** makes `kernel_start.bin`: zero pages over an old file that is
not truncated, the segments, and behind the last one whatever follows it in the
file, which is how the section headers get to where `relocate_kernel` looks for
them. Files are sequences of granules of whole pages. `InPlace` says what the generator
relies on and `linker.ld.static` provides: the text segment begins at 0 with the headers
of the file (`FILEHDR`), the segments ascend and lie in the file as in memory, the
memory of the last one reaches to `_ram_end`, further than the file does, and the array
`user_binary` lies in a part of a segment that the file has. Then the generator changes
what it copied: `CopyProgram` puts the user's program over the granules of
`user_binary`, and `ClearFirstByte` is the flag `-b`, which `kernel/Makefile:87` passes.
So a granule of an image is a record: what it is a copy of, what is `over` it, and
whether its first byte is cleared.

**`RealmLifecycle`** extends it with the VMM: `main`, then `Program`, the requests of
`Machine::new` in their order, then `runloop`. One action per request grants it;
`Refuse` stands for KVM refusing it, which panics except for the four of `Survived`.
`ram` is what the VMM put into its mapping, `measured` what KVM copied into the realm
when it populated a slot. A panic in the thread that runs a realm is lost with the
result of `join`; `Panic` has both outcomes. What KVM insists on (a realm is
described, populated and activated in this order, and run only then) is external.

**`KernelStart`** is `_start`: `relocate_kernel` over one RELA section, the store
`global_relocations`, `kernel_init` on physical addresses, `shift_to_va`. One action
per turn of each loop. A word of the image is its offset; values are numbers, with
the base of the physical and of the virtual space as constants.

**`Machine`** composes the three. The generator may run while the VMM already reads
the file; the kernel starts in the memory the VMM filled, as long as KVM runs the
processor, and finds itself there only if the VMM's fixed entry offset is the one it was
linked with (`Enters`, `main.rs:907`) and the first block and the section headers are
where it looks. What the generator put over a block does not hide it (`Found`): the
kernel hands `user_binary` on and reads nothing of the first byte. Otherwise, or when another part of it is missing, the guest may
be `lost`, and do anything.

**`AddressMap`** is what an address space promises: mapping a page changes the
translation of that page and of no other.

**`PageTable`** is a translation table of four levels, `normal_map_kernel_4KB`
and `page_table_map`. Addresses are page numbers. Each level is one array, as in
the source, where the tables of a level lie one after the other; a link is the
number of a table. `Walk` is what the processor does with them; it is the only
part that is not code. Two oddities of the source are kept: `which_512gb` divides
by an `int` product that overflows to 0, which unoptimised AArch64 code turns
into 0, so that its `crash()` is never reached; and the entry of level 2 is read
at `which_1gb * 512` but written at `which_1gb * 512 / 4096`. The second would
lose mappings beyond the first gigabyte of a space; no caller goes there, and
`SpaceAssumption` says so. `Space` maps the tables to `AddressMap` by their walks.

**`ProcessLoader`** is `sys_execve` and `schedule`: per program header mmap, copy,
map again; then stack, arguments, descriptors, READY. Addresses are in units of a
part of a page, so that a segment can begin inside one. The address space is the
map of `AddressMap`, which `PageTable` implements, and frames are handed out in
order, as `FrameAllocator` does when nothing was freed. `Found` and `Inserted` are
the results of the two list loops. The program is any of a set, fixed at the
start as the build fixes `user_binary`. What the source does not say outright and
the model keeps:

* `search_mmap_region_fixed` returns a region when it finds one and
  `generic_mmap` then uses the pointer as the address: the leaf is out of every
  table, and the store faults. It returns 0, which counts as success, also when
  the request overlaps a region other than the head. `mmap_region_insert` may
  refuse, and nobody looks.
* `load_size` rounds the length and not the end of the segment, and the copy goes
  to the start of the page.
* `PT_NX` is lost in an `int`: every page is executable. `Access` has no such bit.
* `kernel_main` ignores the result of `sys_execve`. With nothing READY, `schedule`
  turns for ever: the stage `"scheduler"` without a step.
* `kmalloc` never returns 0, so the tests for 0 are not modelled.

`MC*` modules instantiate these for TLC. Operators with the comment *Mutant*
are plausible bugs in the definition that follows them, used to see that the
properties notice; no specification refers to them.

## 3. Runs

| Run | Shows | Bounds |
|---|---|---|
| `frames` | exact count, marks agree with owners, no frame granted twice until a run comes back unmarked, and what holds after; implements `FrameOwnership` | 5 frames, ranges of 1 and 3, reservations of 1 and 2: every subset of frames is reached, and every free run at the end that is too short; a bitmap of 8 bytes, the least such runs need; each frame exposed at most twice (`MaxExposed`): the first time makes it unmarked and owned, the second shows that it is granted again |
| `boot_fits` | pages share no frame, tables only with a chunk that ends past the heap; levels disjoint; crash only when memory is used up | 18 frames, 6 for the heap (5 are the first chunk's), levels of 1, 1, 1, 4 as in the code, 5 pages before the crash; 2 units per page, growth by 1 and 4 units: chunks that begin inside a page, at the heap's end, or reach two pages past it, with and without tables there |
| `boot_layout` | **violates** `SingleUse` | heap larger than the private memory, as linked |
| `heap_list` | the list tiles the heap; growth overlaps only after a smaller request | heap of 30 words, header 2, requests of 1, 3 and 6 words: splits, whole chunks, frees in every order, growth to the end |
| `channel` | implements `RemoteCall`; no bytes of two calls mixed; every request arrives | the code's 8 bytes, 3 blocks, 3 requests |
| `syscalls` | requests name the entry looked up; the VM ends only for cause; no byte read is lost; a call hangs only in a read that waits or is at end of file | descriptors 0 to 3 on both sides, one of them not open, files of 3 bytes, counts 0 to 2: short, full and empty reads, end of file within a read |
| `exit_status` | **violates** `ExitStatusArrives` | as `syscalls` |
| `page_table` | the walk finds the leaf `page_table_map` wrote; implements `AddressMap` | 4 entries per table, a space that begins at the second entry of level 0, 5 pages mapped at boot (a full block and part of one), 5 pages mapped in any order: in both boot blocks, in one only linked, first and last entries of a table |
| `loader` | a linker's program is in place, listed and, with memory, run; no frame behind two pages, whatever the program | 2 units per page, 8 pages in reach, stack of 2 below page 7; all programs of 0 to 2 segments of 31, all of 3 of 8: aligned or not, touching, overlapping, descending, at page 0, empty, into the stack; 3 or 9 frames |
| `exceptions` | every call returns where it was made with its own result; a fault ends the VM; when the stack may be overrun | 5 registers, frames of 10 words, a stack with room for three of them and a handler, 0 to 3 blocks of shared heap, 4 calls: the stack is overrun both by calls and by nested faults, which find 0 to 2 words of the interrupted handler |
| `user_stack` | **violates** `UserStackComesBack` | as `exceptions` |
| `machine` | image as linked; a realm measures what was loaded; no failed build is a success; the kernel's words are right in `kernel_init` and in `kernel_main`; why a guest may be lost; it comes up, is lost, or the VMM ends | 4 kernels (ending in slot 0, ending in the shared slot, reaching into it, with another entry than `EntryOffset`), `user_binary` absent, of one and of two granules, `test.elf` that fits, is cut, is missing; no old image, one as long, a longer one; 5 blocks in 3 slots; a store for 3 relocations and tables of 1, 3 and 4, of all kinds; 2 addresses; realm and plain VM; every request refused or granted, every part of the file read |

Deadlock is checked where the system cannot stop (`frames`). It is off
where it can: the allocator when nothing is held and nothing fits, the boot after
a crash, a heap once broken, the channel and the system calls once the VMM has
ended, a `delete_fd` that never finds its entry, the loader once the process
runs, the VM has ended or the scheduler has nothing to run, the exception entry once
the VM has ended or the stack is overrun, and the machine once the VMM has ended. The page tables never
stop: a page can always be mapped again.

**Fairness.** `channel`: the guest's processor goes on executing and `KVM_RUN`
goes on returning (weak fairness of the guest's steps); nothing is assumed about
how long the VMM takes. `syscalls`: the kernel goes on after a hypercall or a
fault, and the VMM makes its next libc call. Calls on files and on closed
descriptors return; a read from a terminal may wait for ever, and no error is
assumed to happen eventually except the one of a closed descriptor. At the end of
a file a turn of the loop in `hypercall_read` changes nothing: it is a stuttering
step. `loader`: the kernel is one thread that waits for nothing, so it goes on
(weak fairness of `Next`). `exceptions`: likewise, for the kernel's steps; the
process need not make another call. `machine`: the VMM's thread goes on until it
enters `runloop`, whether KVM grants or refuses; the guest goes on while KVM can
run it; and `KVM_RUN` of a processor that cannot run returns with an error. Nothing
is assumed of the generator.

### What the violations say

* `boot_layout`: a failed reservation goes unnoticed because failure is -1 and
  the test is for 0. `linker.ld.static` aligns the private memory to less than
  the 16 MB heap, so in the built kernel the reservation does fail, and frames
  the heap will reach are given to tables and pages.
* `exit_status`: the VMM takes the first argument of EXIT from the second slot,
  which is 0.
* `user_stack`: the kernel's `context_t` has a field for the process's stack
  pointer, which the frame of an exception has not. After a system call the process
  gets a word of an older frame, or of the scheduler's, as its stack pointer. The
  test program uses no stack.

More the models contain and no run is spent on:

* Of the descriptors 0, 1 and 2 the second is lost (`StandardFds`). The test program
  writes to descriptor 0.
* The first chunk of a heap claims 20 KB of an 8 KB break (`Init` of `KernelHeap`), so
  that a chunk grown later can lie over a block in use (`"overlaid"`).
* Of a text segment only the first page loses its write access (`ProtectSegment`).
* A read at the end of a file is never answered (`ReadSome`; `CallsComeBack` names it).
* A system call costs 288 bytes of a kernel stack of 64 KB: after some 227 calls it is
  overrun (`OverrunExplained` gives the exact count).
* The kernel is lost, and nobody says so, when `--address` is not the address built
  in, when its entry is not at the offset the VMM has built in, when the image was read while it was written, or when it does not end in the
  first slot (`LostExplained`): the size test compares with all of the memory.
* A run that fails ends with status 0 (`RunFails`), as does a realm whose thread
  panics (`RunPanics`).
* Relocations of kinds `relocate_kernel` skips are stored and later written all the
  same, which destroys their words (`Record`); a table longer than the store runs over
  it (`RecordPastTheEnd`).
* If `test.elf` is missing, the stack of the generator becomes the program
  (`CopyProgram`).
* `kframe_allocate_range`, asked for more than one frame in fragmented memory, can
  return a run that is too short and unmarked (`TrailingRunStart`; latent, because
  the one such request is made on memory that is not fragmented: `TablesDisjoint`).
* The last chunk of a heap that grows to its end lies past it; once the process has
  tables, in a table (`Place`). That is many allocations away from what the test
  program causes.
* At the end of a heap `_malloc` uses -ENOMEM as the address of a chunk
  (`MallocExhausted`). Freed chunks stay marked used and are never handed out
  again (`Free`).
* CLOSE, like EXIT, is read from the second slot: the VMM closes its descriptor 0
  (`ClosedFd`).
* A failed read, or a buffer that leaves its first page, faults in the kernel and
  ends the VM (`CopyFaults`).
* A segment that does not begin on a page boundary is displaced
  (`CopySegment`); a program whose second segment lies below the first faults in
  the kernel (`Found`).

Known hazards no property speaks of: SIMD registers are not saved on an exception;
the first stack pointer of a process is not aligned to 16 bytes (the kernel does not
turn the check on); slot 2 of the guest's memory is smaller than what the kernel manages behind
it; `open` sends a path without its terminator, and `lseek` an offset of 0; a user
buffer that cannot be read is written out all the same. `Machine` takes the contents
of blocks, and `Syscalls` those of buffers, as too coarse for them.

## 4. Proofs

`FrameAllocatorProofs`, for every memory size, every set of fixed reservations and
every set of range lengths, the four frames of `create_user_translation_table` and
longer ones included; `BitmapAssumption` says that the bitmap has room for what such a
request may reach, as the linker script provides:

* `TypeCorrect`, `Accounting`, `Owners`, `Exclusive`: the properties of
  `frames` as `Spec => []...`;
* `Refinement`: the allocator implements `FrameOwnership`.

The inductive invariant is the conjunction of the four state properties, none of
which is inductive alone. Which frames a request gets depends on the marks, what may be
freed on the owners, and where the two part is known by `exposed`: a free frame has no
owner unless it is exposed (`FreeUnlessExposed`). `GrantPreserves` is the step shared by
the three ways to allocate and mark, `LeaveUnmarkedPreserves` the return that skips
the marking, `FreePreserves` the step of `Free`, where a frame that is owned twice is
counted twice. `RangeAnswers` says what a range request comes back with: a run that
fits, or a run at the end that is all free (`TrailingRunFree`), in which case something
is exposed. `NextIInv` has one case per function. `NextRefines` maps each step to an
`Acquire`, an `Expose`, a `Release` or a stutter.

`AddressSpaceProofs` proves both sides of the address space. Of `PageTable`, for every
number of entries per table, every size of the levels and every set of pages in their
reach, under `SpaceAssumption` (a space
begins on a boundary of 512 GB, pages lie in its first gigabyte and have their
leaf in the tables reserved) and `BootAssumption` (the boot mapping fits):

* `TypeCorrect`, `WalkAgrees`: the invariants of `page_table`;
* `Refinement`: the tables implement `AddressMap`.

`WalkFindsLeaf` is not inductive: a step that adds a link could make a stale leaf
visible, or find a link that leads to another table. The invariant adds
`LinksInPlace` (a link of block *b* leads to table *b*) and `LeavesLinked` (no leaf
before its links); then `WalkOfPage` follows a walk to the leaf. The arithmetic is
in `Division`, `QuotientRemainder` and `Offsets`: the index bits of an address are
those of its distance from the start of the space, because the start is a multiple
of the span of level 1. `MapPagePreserves` and `NormalMapPreserves` are the two
cases of `NextIInv`; for the refinement, different pages have different leaves, so
writing one changes one walk.

`BootMemoryProofs`, for every size of the two memories, of the heap and of the four
levels:

* `TypeCorrect`, `TablesApart`, `CrashExplained`: the invariants of `boot_fits`;
* `Separation`: `OverlapOnlyPastEnd`, *if the heap fits* (`HeapFits`): no frame is used
  twice but a table that a chunk past the heap's end has reached. The layout
  that is linked does not satisfy `HeapFits`; `boot_layout` shows what follows. The
  other theorems do not need it.

The range search is unsound in fragmented memory, so the invariant has to say why
memory is never fragmented: nothing is freed while the kernel boots, hence the free
private frames are one run at the end (`FreeAtEnd`), and a request of any length gets
its beginning, marked (`RangeGranted`, `RangeAllocated`), or nothing (`CrashExplained`
needs the second half). So no private frame is ever exposed, which `TablesApart` states
of the tables. `HeapGrown` follows a chunk over the pages it is written to:
those below the heap's end are the heap's own frames, those behind it the tables'
(`BehindPages`), and to reach one of these the chunk must end past the heap
(`PagesReach`).
`LevelsInOrder` and `UsesApart` place heap, levels and pages along that run;
`StagesAgree` says what has been requested at each stage.

`KernelHeapProofs`, for every size of heap, header, smallest chunk and request:

* `TypeCorrect`, `ListSound`, `GrowthSound`: the invariants of `heap_list`.

That the list tiles its words is inductive once the chunks are typed. Its proof rests
on one fact about lists (`TilesReplaced`): a run of chunks may be replaced by any
chunks that cover the same words. Splitting replaces one chunk by two, `_free` two by
one (`Coalesced`), or three. `GrowthOverlapsOnlyWhenShrinking` is not inductive:
`GrownApart` says more, that of two grown chunks the later begins at least its own
length behind the earlier, and that none begins above the break.

`HypercallChannelProofs`, for every number of blocks, address bytes and requests:

* `TypeCorrect`, `Framing`: the invariants of `channel`;
* `Refinement`: the bytewise exchange implements `RemoteCall`.

`FramingAgrees` says what is in the buffer; that the byte which completes an address
completes *this* call's, and that the block still holds its request then, is
`CallAgrees`. Every byte is a stutter of `RemoteCall` but the first, which is `Call`.

`SyscallsProofs`, for every set of descriptors, counts and exit values and every
length of file:

* `TypeCorrect`, `RequestsNameEntries`, `EndHasCause`, `NoByteLost`: the properties of
  `syscalls` except `CallsComeBack`.

`StandardEntries` computes the table that `sys_execve` leaves, with the entries 0 and
2 only. What is looked up in it stays there until the answer because nothing else is
done meanwhile; the invariant needs the agreement between the two halves that the code
leaves implicit: which request belongs to which call (`CallAgrees`), what the answer to
a read may be (`AnswerAgrees`), and that between hypercalls only a fault is handled
(`IdleAgrees`). `SyscallsAssumption` demands that `None`, which stands for no call in
progress, is not itself a call.

`ExceptionEntryProofs`, for every even number of the last register, every size of
frame, stack and heap and every number of calls:

* `TypeCorrect`, `Overrun`, `CallReturns`: the properties of `exceptions` except the
  liveness of a fault.

`CallReturnsToCaller` compares registers before a call and after it. In between they
are words of the stack, and `CallerSaved` says which: while a call is handled, the frame
on top of the stack is the caller's, except that slot 0 is the answer once there is one.
Frames lie one below the other (`FrameOnStack`), so a nested fault, which enters below
what the interrupted handler has on the stack, writes none of them. `OverrunExplained`
follows from `DepthCountsCalls`: while the kernel handles a call the stack has exactly
the frames of all calls, and how much more a fault has found there is at most a handler's
words, until the shared heap is used up and faults nest.

`MachineProofs`, for every memory, division into slots, table of relocations, old image
and interleaving of generator, VMM and kernel; the theorems are about
`MachineSpec`, so they hold of the composition:

* `Measured`, `FailuresShow`: the invariant `VmmInv` says how far `Program` has come.
  A slot has been granted if its request lies behind (`GrantedSoFar`, with
  `ProgramOrder` for the order of the requests), a populated slot was measured as it
  was loaded, because loading lies before (`MeasuredSoFar`), and an end that looks like
  a success has nothing refused behind it (`EndAgrees`). That slots are disjoint, which
  the constant addresses of `Machine::new` make true, is part of
  `LifecycleAssumption`: without it the shared slot could hide a private block.
* `WordsAreRight`: `StartInv` splits the words by the loop that is running: those below
  `i` have their new value, those from `i` on their old one, and those no entry names
  are as built. It needs that no word is named twice (`RelaTables`): a second entry
  overwrites what the first assigned, and the value of the word would be the last one's.
  Linkers name each word once.
* `TypeCorrect`, `ImageSound`: `ImageInv`. After each copy, `Reached` is where the file
  has come to, and every granule below it is where it is in the file. Each copy takes the
  file up to where the next segment begins and the last one to behind the section
  headers (`CopiesMeet`), so that there are no gaps; this follows from `InPlace`.
  `Patched` says what may have happened to a granule since it was copied: the program
  over it if it is `user_binary`'s (`ProgramCopied`), the first byte cleared if it is the
  image's first (`FirstByteCleared`). That
  the loop of the generator finds the end of the last segment, and not of another one,
  is `HighestIsLast`. The loop is a recursive function, and what it computes is shown
  without induction: if it were wrong for some number of turns there would be a least
  one (`NoLeast`), and the turn before it contradicts that.
* `LostGuests`: `LostExplained` is not inductive: a guest can be lost because the image
  was unfinished when it was read, and the generator finish it afterwards. `LostInv`
  says instead what stays: the guest ran, and what the VMM had read, or the slot, was not
  what the guest needs (`Loadable`). `LoadedSoFar` follows the image from the file
  through the buffer into memory, and `LoadableIsFound` from there to what the guest
  sees, which for a realm is what was measured.

`AddressSpaceProofs`, of `ProcessLoader`, for every size of page, tables, stack and
memory. `LoaderAssumption` says of the programs what the types of an `Elf64_Phdr` say,
and that the file of a segment is no longer than the segment.

* `LoaderTypeCorrect`, `FramesOnce`: whatever the program. `SafeInv` adds to the two
  properties that frames are handed out in order, so that a fresh one is behind no
  page, and that the pages of the header that is copied are mapped (`Progress`): without
  it `get_physical_address` would have nothing to find. `MapsApart` is the step of
  `generic_mmap`, `ProtectKeepsFrames` that of the second `page_table_map_user`.
* `ListSound`, `LoaderSound`: the program is one a linker makes. This is the
  precondition `WellFormed` inside both properties, not an assumption on `Programs`;
  `WellFormedRuns` shows in `loader` that such programs are loaded and run. Neither
  property says anything before the last stage that a later stage could rely on, so
  `StageLoaded` says for each stage how many segments are in the list, mapped and
  copied. `WellFormed` speaks of neighbouring segments; that all ascend
  (`SegmentsAscend`) is shown without induction, by the least segment that begins
  too early. Then each region is above all others and goes to the end of the list
  (`RegionAppended`), mapping a segment leaves the pages of the others alone
  (`SegmentMapped`, `StackIsMapped`), and copying one leaves their contents alone,
  because no frame is behind two pages (`SegmentCopied`).

**Only model-checked.** Liveness under fairness: `RequestArrives`, `CallsComeBack`,
`FaultEndsVM`, `WellFormedRuns`, `ComesUp`. The prover has no rules for fairness and
`ENABLED`.

## 5. Plan

Every component that keeps state in the running system is modelled, and every safety
property that a passing run checks is a theorem. What is left:

1. `FirstIsLeast`, `FreeRun` and their kin are stated where they are used; a module of
   lemmas would serve them all.
