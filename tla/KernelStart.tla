----------------------------- MODULE KernelStart -----------------------------
(***************************************************************************)
(* How the guest kernel makes its own addresses right (start.c).           *)
(* relocate_kernel applies the first RELA section for the physical base    *)
(* _start has built in, and stores for each entry what the word has to     *)
(* become; kernel_init runs on physical addresses; shift_to_va writes the  *)
(* stored values, and the MMU is switched on.                              *)
(*                                                                         *)
(* A word of the image is known by its offset.  The image is linked at 0.  *)
(***************************************************************************)
EXTENDS Integers, Sequences

CONSTANTS
  Offsets,          \* the words of the image
  Base,             \* KERNEL_PA_BASE
  KernelBase,       \* KERNEL_VA_BASE
  MaxRelocations    \* MAX_RELOCATIONS

Handled == {"ABS64", "GLOB_DATA", "JUMP_SLOT"}
Kinds   == Handled \cup {"RELATIVE"}
Rela    == [r_offset : Offsets, kind : Kinds, st_value : Nat, r_addend : Int]

ASSUME StartAssumption ==
  /\ Offsets \subseteq Nat
  /\ Base \in Nat \ {0} /\ KernelBase \in Nat
  /\ MaxRelocations \in Nat

(* No word has two entries.                                                *)
RelaTables ==
  {t \in Seq(Rela) :
     \A j, k \in 1 .. Len(t) : j # k => t[j].r_offset # t[k].r_offset}

VARIABLES
  phase,                \* where _start has got to
  rela_table,           \* the RELA section of this image
  i,                    \* the loop variable, counted from 1
  word,                 \* the words of the image in memory
  global_relocations

start == <<phase, rela_table, i, word, global_relocations>>

NoRelocation == [address |-> 0, value |-> 0]
Linked(o)    == o       \* what the linker left in the word

StartTypeOK ==
  /\ phase \in {"relocate", "record", "init", "shift", "main", "overrun"}
  /\ rela_table \in RelaTables
  /\ i \in Nat \ {0}
  /\ word \in [Offsets -> Int]
  /\ global_relocations \in [1 .. MaxRelocations -> [address : Int, value : Int]]

StartInit ==
  /\ phase = "relocate" /\ i = 1
  /\ word = [o \in Offsets |-> Linked(o)]
  /\ global_relocations = [k \in 1 .. MaxRelocations |->
                             IF k = 1 THEN [address |-> 255, value |-> 255]
                                      ELSE NoRelocation]

-----------------------------------------------------------------------------
Entry == rela_table[i]

(* A kind the switch does not know leaves its word as it was linked.       *)
Relocate ==
  /\ phase = "relocate" /\ i <= Len(rela_table)
  /\ word' = IF Entry.kind \in Handled
             THEN [word EXCEPT ![Entry.r_offset] =
                                 Base + Entry.st_value + Entry.r_addend]
             ELSE word
  /\ i' = i + 1
  /\ UNCHANGED <<phase, rela_table, global_relocations>>

(* Mutant: the entries are counted from 0 on.                              *)
ClearStoreFromZero ==
  /\ phase = "relocate" /\ i > Len(rela_table)
  /\ phase' = "record" /\ i' = 0
  /\ global_relocations' = [k \in 1 .. MaxRelocations |-> NoRelocation]
  /\ UNCHANGED <<rela_table, word>>

ClearStore ==
  /\ phase = "relocate" /\ i > Len(rela_table)
  /\ phase' = "record" /\ i' = 1
  /\ global_relocations' = [k \in 1 .. MaxRelocations |-> NoRelocation]
  /\ UNCHANGED <<rela_table, word>>

(* Every entry is stored, of whatever kind, and the loop knows the length  *)
(* of the section but not that of the store.                               *)
(* Mutant: the base is not taken off again.                                *)
RecordPhysical ==
  /\ phase = "record" /\ i <= Len(rela_table) /\ i <= MaxRelocations
  /\ global_relocations' =
       [global_relocations EXCEPT ![i] =
          [address |-> Base + Entry.r_offset,
           value   |-> word[Entry.r_offset] + KernelBase]]
  /\ i' = i + 1
  /\ UNCHANGED <<phase, rela_table, word>>

Record ==
  /\ phase = "record" /\ i <= Len(rela_table) /\ i <= MaxRelocations
  /\ global_relocations' =
       [global_relocations EXCEPT ![i] =
          [address |-> Base + Entry.r_offset,
           value   |-> word[Entry.r_offset] - Base + KernelBase]]
  /\ i' = i + 1
  /\ UNCHANGED <<phase, rela_table, word>>

RecordPastTheEnd ==
  /\ phase = "record" /\ i <= Len(rela_table) /\ i > MaxRelocations
  /\ phase' = "overrun"
  /\ UNCHANGED <<rela_table, i, word, global_relocations>>

Relocated ==
  /\ phase = "record" /\ i > Len(rela_table)
  /\ phase' = "init"
  /\ UNCHANGED <<rela_table, i, word, global_relocations>>

(* kernel_init and the calls around it, which use the words.               *)
KernelInit ==
  /\ phase = "init"
  /\ phase' = "shift" /\ i' = 1
  /\ UNCHANGED <<rela_table, word, global_relocations>>

Stored == i <= MaxRelocations /\ global_relocations[i].address # 0

(* Mutant: the loop does not go on.                                        *)
ShiftToVAStuck ==
  /\ phase = "shift" /\ Stored
  /\ word' = [word EXCEPT ![global_relocations[i].address - Base] =
                            global_relocations[i].value]
  /\ UNCHANGED <<phase, rela_table, i, global_relocations>>

ShiftToVA ==
  /\ phase = "shift" /\ Stored
  /\ word' = [word EXCEPT ![global_relocations[i].address - Base] =
                            global_relocations[i].value]
  /\ i' = i + 1
  /\ UNCHANGED <<phase, rela_table, global_relocations>>

KernelMain ==
  /\ phase = "shift" /\ ~ Stored
  /\ phase' = "main"
  /\ UNCHANGED <<rela_table, i, word, global_relocations>>

StartNext ==
  Relocate \/ ClearStore \/ Record \/ RecordPastTheEnd \/ Relocated
    \/ KernelInit \/ ShiftToVA \/ KernelMain

-----------------------------------------------------------------------------
(* The word of every relocation the switch handles is the address of its   *)
(* symbol in the space the kernel runs in: physical while kernel_init      *)
(* runs, virtual in kernel_main.  Words without an entry are as linked.    *)
WordsFollowKernel ==
  phase \in {"init", "main"} =>
    LET base == IF phase = "init" THEN Base ELSE KernelBase
    IN  /\ \A k \in 1 .. Len(rela_table) :
             LET e == rela_table[k]
             IN  e.kind \in Handled =>
                   word[e.r_offset] = base + e.st_value + e.r_addend
        /\ \A o \in Offsets :
             (\A k \in 1 .. Len(rela_table) : rela_table[k].r_offset # o)
               => word[o] = Linked(o)
=============================================================================
