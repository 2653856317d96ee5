--------------------------- MODULE ImageGenerator ---------------------------
(***************************************************************************)
(* image_generator.c, which makes kernel_start.bin, the file the VMM       *)
(* loads, from the linked kernel: memory as the loader of an ELF file      *)
(* would lay it out, except that what follows the last segment in the file *)
(* (symbols, section headers) follows it in the image too, where           *)
(* relocate_kernel looks for it.                                           *)
(*                                                                         *)
(* Files and images are sequences of granules of whole pages.  Over the    *)
(* granules of the array user_binary the user's program is copied, and, as *)
(* the Makefile passes -b, the first byte of the image is cleared.         *)
(***************************************************************************)
EXTENDS Integers, Sequences

CONSTANTS
  Elfs,           \* the kernels the linker may have made
  Contents,       \* what a granule of the kernel's file may hold
  Zero,           \* a granule of zeros, one of Contents
  OldImages       \* what kernel_start.bin may be before

(* A granule of an image: what it is a copy of, what of the program has    *)
(* been copied over it, and what became of its first byte.                 *)
Copies   == {"none", "whole", "cut", "garbage"}
Granules == [base : Contents, over : Copies, first_byte : {"kept", "zero"}]

Plain(c) == [base |-> c, over |-> "none", first_byte |-> "kept"]

(* A kernel: the granules of its file, its PT_LOAD headers, the granule of *)
(* its section headers, its entry, whether test.elf is there, and short    *)
(* enough, and the granules that its copy reaches: none if the kernel has  *)
(* no symbol user_binary.                                                  *)
Segment == [p_offset : Nat, p_vaddr : Nat, p_filesz : Nat, p_memsz : Nat]

(***************************************************************************)
(* linker.ld.static: the first segment begins with the headers of the      *)
(* file, at address 0, and the segments lie in the image as they do in the *)
(* file, one above the other.  The last one, whose memory reaches to the   *)
(* end of the RAM, is longer than the rest of the file; the loop below     *)
(* finds its end because it begins above the others' ends, or they at 0,   *)
(* as the text does.  user_binary is in .bss, which sections with contents *)
(* follow in the same segment: the file has all its pages.                 *)
(***************************************************************************)
InPlace(e) ==
  LET s       == e.segments
      last    == s[Len(s)]
      EndOf(k) == s[k].p_vaddr + s[k].p_memsz
  IN  /\ s[1].p_offset = 0 /\ s[1].p_vaddr = 0 /\ last.p_vaddr > 0
      /\ e.e_shoff < last.p_offset + last.p_memsz
      /\ \A k \in 1 .. Len(s) :
           /\ s[k].p_offset = s[k].p_vaddr - s[1].p_vaddr
           /\ s[k].p_filesz <= s[k].p_memsz
           /\ s[k].p_offset + s[k].p_filesz <= Len(e.content)
      /\ \A j, k \in 1 .. Len(s) : j < k => EndOf(j) <= s[k].p_vaddr
      /\ \A j \in 1 .. Len(s) - 1 : s[j].p_vaddr = 0 \/ EndOf(j) < last.p_vaddr
      /\ \A v \in e.user_binary : \E k \in 1 .. Len(s) :
           v \in s[k].p_vaddr .. s[k].p_vaddr + s[k].p_filesz - 1
      /\ e.e_shoff \notin e.user_binary

ASSUME GeneratorAssumption ==
  /\ Zero \in Contents
  /\ OldImages \subseteq Seq(Granules)
  /\ \A e \in Elfs :
       /\ e.content \in Seq(Contents)
       /\ e.segments \in Seq(Segment) /\ e.segments # << >>
       /\ e.e_shoff \in 0 .. Len(e.content) - 1
       /\ e.e_entry \in Nat
       /\ e.test_elf \in {"whole", "long", "missing"}
       /\ InPlace(e)

VARIABLES
  elf,            \* the kernel
  copied,         \* segments in the image, or -1 before it has its size
  file,           \* kernel_start.bin
  program,        \* what has been copied to user_binary
  finished        \* has the first byte been cleared, the last thing done?

generator == <<elf, copied, program, finished>>

Phdr  == elf.segments
Count == Len(elf.segments)

Lowest == CHOOSE v \in {Phdr[k].p_vaddr : k \in 1 .. Count} :
            \A k \in 1 .. Count : v <= Phdr[k].p_vaddr

(* The loop over all segments: one that begins above the highest end found *)
(* so far sets it.                                                         *)
Highest[k \in 0 .. Count] ==
  IF k = 0 THEN 0
  ELSE IF Phdr[k].p_vaddr > Highest[k - 1]
       THEN Phdr[k].p_vaddr + Phdr[k].p_memsz
       ELSE Highest[k - 1]

HighestVaddr == Highest[Count]

MapSize == HighestVaddr - Lowest

GeneratorTypeOK ==
  /\ elf \in Elfs
  /\ copied \in -1 .. Count
  /\ file \in Seq(Granules)
  /\ program \in Copies
  /\ finished \in BOOLEAN

GeneratorInit ==
  /\ elf \in Elfs
  /\ copied = -1
  /\ file \in OldImages
  /\ program = "none"
  /\ finished = FALSE

-----------------------------------------------------------------------------
(* Zero pages for all of the image, over the old file, which is not        *)
(* truncated.                                                              *)
WriteZeros ==
  /\ copied = -1
  /\ copied' = 0
  /\ file' = [b \in 1 .. MapSize |-> Plain(Zero)] \o
             SubSeq(file, MapSize + 1, Len(file))
  /\ UNCHANGED <<elf, program, finished>>

(* What a segment takes up in the image: up to the next one, and for the   *)
(* last all that is left of the file, as far as its memory goes.           *)
(* Mutant: the last takes what the file has for it, and nothing behind.    *)
ToWriteOfFile(k) ==
  IF k < Count THEN Phdr[k + 1].p_vaddr - Phdr[k].p_vaddr
               ELSE Phdr[k].p_filesz

ToWrite(k) ==
  LET left == Len(elf.content) - Phdr[k].p_offset
  IN  CASE k < Count -> Phdr[k + 1].p_vaddr - Phdr[k].p_vaddr
        [] k = Count /\ left < Phdr[k].p_memsz -> left
        [] k = Count /\ left >= Phdr[k].p_memsz -> Phdr[k].p_memsz

CopyToImage ==
  /\ copied \in 0 .. Count - 1
  /\ LET segment == Phdr[copied + 1]
         first   == segment.p_vaddr - Lowest + 1
         last    == first + ToWrite(copied + 1) - 1
     IN  file' = [b \in 1 .. Len(file) |->
                    IF b \in first .. last
                    THEN Plain(elf.content[segment.p_offset + b - first + 1])
                    ELSE file[b]]
  /\ copied' = copied + 1
  /\ UNCHANGED <<elf, program, finished>>

(* The user's program, cut to the size of user_binary.  That open failed   *)
(* is not noticed: (-1) is taken for a descriptor, and what was on the     *)
(* stack is copied.                                                        *)
CopyProgram ==
  /\ copied = Count /\ program = "none"
  /\ program' = CASE elf.test_elf = "whole"   -> "whole"
                  [] elf.test_elf = "long"    -> "cut"
                  [] elf.test_elf = "missing" -> "garbage"
  /\ file' = [b \in 1 .. Len(file) |->
                IF b - 1 \in elf.user_binary
                THEN [file[b] EXCEPT !.over = program']
                ELSE file[b]]
  /\ UNCHANGED <<elf, copied, finished>>

ClearFirstByte ==
  /\ program # "none" /\ ~ finished
  /\ file' = [file EXCEPT ![1] = [@ EXCEPT !.first_byte = "zero"]]
  /\ finished' = TRUE
  /\ UNCHANGED <<elf, copied, program>>

GeneratorNext == WriteZeros \/ CopyToImage \/ CopyProgram \/ ClearFirstByte

ImageDone == finished

-----------------------------------------------------------------------------
(* The image has every granule of every segment where the kernel is linked *)
(* to have it, with nothing copied over it that is not user_binary's and   *)
(* only the very first byte cleared; and the section headers, untouched,   *)
(* at e_shoff, which is an offset in the file: the generator copies past   *)
(* the last segment for that.  The finished image has the program.         *)
ImageLaidOut ==
  copied = Count =>
    /\ \A k \in 1 .. Count : \A g \in 0 .. Phdr[k].p_filesz - 1 :
         LET v == Phdr[k].p_vaddr + g
             b == v - Lowest + 1
         IN  /\ file[b].base = elf.content[Phdr[k].p_offset + g + 1]
             /\ file[b].over # "none" => v \in elf.user_binary
             /\ file[b].first_byte = "zero" => b = 1
    /\ file[elf.e_shoff + 1].base = elf.content[elf.e_shoff + 1]
    /\ file[elf.e_shoff + 1].over = "none"
    /\ ImageDone =>
         \A v \in elf.user_binary : file[v - Lowest + 1].over = program
=============================================================================
