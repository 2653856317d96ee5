----------------------------- MODULE PageTable ------------------------------
(***************************************************************************)
(* The translation tables of the guest kernel: normal_map_kernel_4KB and   *)
(* page_table_map of kernel/vma.c, and the walk the processor does.        *)
(*                                                                         *)
(* Virtual addresses are page numbers.  A level is one array of entries,   *)
(* as in the code: its tables lie one after the other, and a link is the   *)
(* number of a table of the next level.  The tables of a space are linear  *)
(* in (va - start_va): page_table_map finds an entry by that distance, the *)
(* processor by following links, and nothing in the code compares the two. *)
(***************************************************************************)
EXTENDS Integers

CONSTANTS
  Entries,          \* entries per table (512)
  StartPage,        \* t->start_va
  StartFrame,       \* t->start_pa
  BootPages,        \* ram_size in pages, 0 for a user space
  PmdTables,        \* tables reserved for the third level
  Pt3Tables,        \* tables reserved for the last level
  Pages,            \* the pages the callers map
  Frames,           \* physical page numbers
  Flags,            \* access bits of a leaf
  BootFlags         \* PT_KERNEL | PT_RW

None     == -1                          \* an entry that is not valid
Gigabyte == Entries * Entries           \* pages under one table of level 2
Root     == Entries * Entries * Entries \* pages under one entry of level 0

(***************************************************************************)
(* start_va is 0 for a process and KERNEL_VA_BASE for the kernel, both     *)
(* multiples of 512 GB.  Every page mapped is within the first gigabyte of *)
(* its space (a device page at 512 MB is the furthest) and has its leaf in *)
(* the tables reserved.                                                    *)
(***************************************************************************)
ASSUME SpaceAssumption ==
  /\ Entries \in Nat \ {0, 1}
  /\ StartPage \in Nat /\ StartPage % Root = 0
  /\ StartFrame \in Nat
  /\ PmdTables \in Nat \ {0}
  /\ Pt3Tables \in Nat \ {0}
  /\ Pages \subseteq
       {StartPage + r : r \in {i \in 0 .. Gigabyte - 1 : i < Pt3Tables * Entries}}
  /\ Frames \subseteq Nat

ASSUME BootAssumption ==
  /\ BootPages \in Nat
  /\ (BootPages + Entries - 1) \div Entries + 1 < Entries
  /\ BootPages <= Pt3Tables * Entries
  /\ \A i \in 0 .. BootPages - 1 : StartFrame + i \in Frames
  /\ BootFlags \in Flags

VARIABLES
  pgd,              \* is the entry valid: it can only link to the one PUD
  pud, pmd,         \* the table each entry links to
  pt3               \* the leaves

vars == <<pgd, pud, pmd, pt3>>

Leaves   == [oa : Frames, flags : Flags]
Unmapped == [oa |-> None, flags |-> None]

(* VA_OFFSET_48_L0 to L3: the nine bits of an address that index a level.  *)
L0(v) == (v \div Root) % Entries
L1(v) == (v \div Gigabyte) % Entries
L2(v) == (v \div Entries) % Entries
L3(v) == v % Entries

(* which_1gb and which_2mb: the tables counted from the start of the space.*)
Which1gb(v) == (v - StartPage) \div Gigabyte
Which2mb(v) == (v - StartPage) \div Entries

PmdSlots == 0 .. PmdTables * Entries - 1
Pt3Slots == 0 .. Pt3Tables * Entries - 1

(* The processor's walk.                                                   *)
Linked(v) ==
  /\ pgd[L0(v)]
  /\ pud[L1(v)] # None
  /\ pmd[pud[L1(v)] * Entries + L2(v)] # None

LeafSlot(v) == pmd[pud[L1(v)] * Entries + L2(v)] * Entries + L3(v)

Walk(v) == IF Linked(v) THEN pt3[LeafSlot(v)] ELSE Unmapped

TypeOK ==
  /\ pgd \in [0 .. Entries - 1 -> BOOLEAN]
  /\ pud \in [0 .. Entries - 1 -> Nat \cup {None}]
  /\ pmd \in [PmdSlots -> Nat \cup {None}]
  /\ pt3 \in [Pt3Slots -> Leaves \cup {Unmapped}]

-----------------------------------------------------------------------------
(* The tables of the kernel are in .page_tables and those of a process in  *)
(* frames used for the first time: all zero.                               *)
Init ==
  /\ pgd = [i \in 0 .. Entries - 1 |-> FALSE]
  /\ pud = [i \in 0 .. Entries - 1 |-> None]
  /\ pmd = [i \in PmdSlots |-> None]
  /\ pt3 = [i \in Pt3Slots |-> Unmapped]

(***************************************************************************)
(* normal_map_kernel_4KB, once, on empty tables.  The loop over the PMD    *)
(* entries tests i++ <= count after its body, so it links two tables more  *)
(* than there are blocks.  The leaf loop steps to the next table when an   *)
(* offset reaches the last entry: leaves are consecutive.                  *)
(***************************************************************************)
LinkedBlocks == 0 .. (BootPages + Entries - 1) \div Entries + 1

BlockAt(slot) == {i \in LinkedBlocks : L2(StartPage + i * Entries) = slot}

(* Mutant: the frame number is advanced before the leaf is written.        *)
FirstLeafLate(i) == [oa |-> StartFrame + i + 1, flags |-> BootFlags]

(* Mutant: the frame number is not advanced after the last leaf of a table.*)
FirstLeafSticky(i) == [oa |-> StartFrame + i - i \div Entries, flags |-> BootFlags]

FirstLeaf(i) == [oa |-> StartFrame + i, flags |-> BootFlags]

NormalMap ==
  /\ \A i \in 0 .. Entries - 1 : ~ pgd[i]
  /\ BootPages > 0
  /\ pgd' = [pgd EXCEPT ![L0(StartPage)] = TRUE]
  /\ pud' = [pud EXCEPT ![L1(StartPage)] = 0]
  /\ pmd' = [s \in PmdSlots |-> IF BlockAt(s) = {} THEN pmd[s]
                                ELSE CHOOSE i \in BlockAt(s) : TRUE]
  /\ pt3' = [s \in Pt3Slots |->
               IF s - L3(StartPage) \in 0 .. BootPages - 1
               THEN FirstLeaf(s - L3(StartPage)) ELSE pt3[s]]

(***************************************************************************)
(* page_table_map.  which_512gb is a division by an int product that       *)
(* overflows to 0; unoptimised AArch64 code divides by 0 and gets 0, so    *)
(* its crash() is never reached and the PGD links to the first PUD.  The   *)
(* PMD entry is read at [offset + which_1gb * 512] but written at          *)
(* [offset + which_1gb * 512 / 4096]: the same entry in the first gigabyte.*)
(***************************************************************************)
(* Mutant: the entry of the first block is written for every block.        *)
PmdWrittenFirst(v) == (Which1gb(v) * Entries) \div (8 * Entries)

PmdRead(v)    == L2(v) + Which1gb(v) * Entries
PmdWritten(v) == L2(v) + (Which1gb(v) * Entries) \div (8 * Entries)
LeafIndex(v)  == L3(v) + Which2mb(v) * Entries

(* A valid entry is left alone.                                            *)
LinkIfAbsent(table, read, written, target) ==
  IF table[read] = None THEN [table EXCEPT ![written] = target] ELSE table

MapPage(v, leaf) ==
  /\ pgd' = [pgd EXCEPT ![L0(v)] = TRUE]
  /\ pud' = LinkIfAbsent(pud, L1(v), L1(v), Which1gb(v))
  /\ pmd' = LinkIfAbsent(pmd, PmdRead(v), PmdWritten(v), Which2mb(v))
  /\ pt3' = [pt3 EXCEPT ![LeafIndex(v)] = leaf]

Next == NormalMap \/ \E v \in Pages, leaf \in Leaves : MapPage(v, leaf)

Spec == Init /\ [][Next]_vars

-----------------------------------------------------------------------------
(***************************************************************************)
(* The walk and the arithmetic of page_table_map agree: tables for blocks  *)
(* that only normal_map_kernel_4KB linked and tables that page_table_map   *)
(* links later are at the same distance from the start of the space.       *)
(***************************************************************************)
WalkFindsLeaf == \A v \in Pages : Walk(v) = pt3[LeafIndex(v)]

(* Mapping a page changes the translation of that page alone, whatever was *)
(* mapped before and in whatever order.                                    *)
Space == INSTANCE AddressMap WITH
  BootLeaf <- [v \in Pages |-> [oa    |-> StartFrame + (v - StartPage),
                                flags |-> BootFlags]],
  map      <- [v \in Pages |-> Walk(v)]

RefinesAddressMap == Space!Spec
=============================================================================
