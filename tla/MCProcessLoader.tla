-------------------------- MODULE MCProcessLoader ---------------------------
EXTENDS ProcessLoader

(* Text is all in the file, data has one unit in it.                       *)
Text(vaddr, size) ==
  [vaddr |-> vaddr, memsz |-> size, filesz |-> size, flags |-> {"R", "X"}]
Data(vaddr, size) ==
  [vaddr |-> vaddr, memsz |-> size, filesz |-> 1, flags |-> {"R", "W"}]

MCSegments ==
  {Text(a, n) : a \in {0, 2, 3, 4, 8, 14}, n \in {0, 2, 3}}
    \cup {Data(a, n) : a \in {2, 3, 4, 8, 16}, n \in {2, 3}}

(* Three segments only where three fit or just do not.                     *)
MCShort == {Text(a, 2) : a \in {2, 4, 6, 8}} \cup {Data(a, 3) : a \in {2, 4, 6, 8}}

MCPrograms ==
  [is_loadable : {TRUE},
   segments : UNION {[1 .. n -> MCSegments] : n \in 0 .. 2} \cup [1 .. 3 -> MCShort]]
    \cup [is_loadable : {FALSE}, segments : {<< >>}]

MCFree == {3, 9}
=============================================================================
