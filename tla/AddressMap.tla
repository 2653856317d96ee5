----------------------------- MODULE AddressMap -----------------------------
(***************************************************************************)
(* What an address space promises: every page has its own translation,     *)
(* and mapping a page changes the translation of that page and of no       *)
(* other.  The kernel's own space starts with one run of pages mapped at   *)
(* once.                                                                   *)
(***************************************************************************)
CONSTANTS Pages,       \* the pages of the space that are ever mapped
          Leaves,      \* what a page can be mapped to
          Unmapped,    \* a page that is not
          BootLeaf     \* what the first mapping gives each page it covers

VARIABLE map

Init == map = [v \in Pages |-> Unmapped]

(* One page, mapped or mapped again.                                       *)
Map(v, leaf) == map' = [map EXCEPT ![v] = leaf]

(* The first mapping of a space, of all its pages at once.                 *)
MapFirst(S) ==
  /\ \A v \in Pages : map[v] = Unmapped
  /\ map' = [v \in Pages |-> IF v \in S THEN BootLeaf[v] ELSE Unmapped]

Next == \/ \E v \in Pages, leaf \in Leaves : Map(v, leaf)
        \/ \E S \in SUBSET Pages : MapFirst(S)

Spec == Init /\ [][Next]_map
=============================================================================
