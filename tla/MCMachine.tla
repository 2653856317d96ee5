------------------------------ MODULE MCMachine ------------------------------
(* A small instance of Machine for TLC: two blocks in slot 0, one shared,  *)
(* one in slot 2, one without a slot; a store for three relocations.       *)
EXTENDS Machine, TLC

ThreeSlots == (0 :> {0, 1}) @@ (1 :> {2}) @@ (2 :> {3})
Words      == 0 .. 4
Pieces     == {"zero", "old", "text", "data", "more", "tail"}

(* No image yet, one of the same length, and a longer one, each with its   *)
(* program and without its first byte.                                     *)
Old(n) ==
  [b \in 1 .. n |-> [base |-> "old", over |-> IF b = 2 THEN "whole" ELSE "none",
                    first_byte |-> IF b = 1 THEN "zero" ELSE "kept"]]
Before == {<< >>, Old(5), Old(6)}

Reloc(o, k, v, a) == [r_offset |-> o, kind |-> k, st_value |-> v, r_addend |-> a]
Load(v, size, mem) ==
  [p_offset |-> v, p_vaddr |-> v, p_filesz |-> size, p_memsz |-> mem]

(* Kernels whose last block, with the section headers, is in slot 0 and in *)
(* the shared slot, and one of whose blocks is; relocations of every kind, *)
(* as many as the store has room for, and one more; and a kernel that      *)
(* begins elsewhere than the VMM has it.                                   *)
Kernels ==
  { [content  |-> << "text", "tail" >>, e_shoff |-> 1, test_elf |-> "whole",
     user_binary |-> {}, e_entry |-> 4672,
     segments |-> << Load(0, 1, 1), Load(1, 0, 4) >>,
     rela     |-> << Reloc(3, "GLOB_DATA", 2, 0), Reloc(0, "RELATIVE", 0, 3),
                     Reloc(4, "JUMP_SLOT", 1, -1) >>],
    [content  |-> << "text", "data", "tail" >>, e_shoff |-> 2, test_elf |-> "long",
     user_binary |-> {1}, e_entry |-> 4672,
     segments |-> << Load(0, 1, 1), Load(1, 1, 4) >>,
     rela     |-> << Reloc(1, "ABS64", 4, 0) >>],
    [content  |-> << "text", "data", "more", "tail" >>, e_shoff |-> 3,
     test_elf |-> "missing", user_binary |-> {1, 2}, e_entry |-> 4672,
     segments |-> << Load(0, 1, 1), Load(1, 2, 4) >>,
     rela     |-> << Reloc(0, "ABS64", 3, 1), Reloc(1, "ABS64", 0, 2),
                     Reloc(2, "GLOB_DATA", 1, 0), Reloc(3, "JUMP_SLOT", 2, 0) >>],
    [content  |-> << "text", "data", "tail" >>, e_shoff |-> 2, test_elf |-> "whole",
     user_binary |-> {1}, e_entry |-> 4676,
     segments |-> << Load(0, 1, 1), Load(1, 1, 4) >>,
     rela     |-> << >>] }
=============================================================================
