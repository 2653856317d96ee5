------------------------- MODULE AddressSpaceProofs -------------------------
(***************************************************************************)
(* The address space of the process, from both sides.  PageTable           *)
(* implements AddressMap, for every number of entries per table, every     *)
(* size of the tables and every set of pages in their reach.  The loader   *)
(* puts a program into such a map: for every program, no frame is behind   *)
(* two pages; for every program the linker makes, whatever the number,     *)
(* size and place of its segments, every byte is where it was linked.      *)
(***************************************************************************)
EXTENDS PageTable, ProcessLoader, SequenceTheorems, WellFoundedInduction, TLAPS

(* How a quotient and a remainder are recognised.                          *)
LEMMA QuotientRemainder ==
  ASSUME NEW d \in Nat \ {0}, NEW q \in Int, NEW r \in 0 .. d - 1
  PROVE  (q * d + r) \div d = q /\ (q * d + r) % d = r
<1> DEFINE n == q * d + r
           p == n \div d
           s == n % d
<1>1. n \in Int
  BY SMT
<1>2. p \in Int /\ s \in 0 .. d - 1 /\ n = d * p + s
  BY <1>1, SMT
<1> HIDE DEF p, s
<1>3. (q - p) * d = s - r
  BY <1>2, SMT
<1>4. ~ (q - p >= 1)
  <2>1. SUFFICES ASSUME q - p >= 1 PROVE FALSE
    OBVIOUS
  <2>2. (q - p) * d >= d
    BY <2>1, <1>2, SMT
  <2> QED BY <2>2, <1>2, <1>3, SMT
<1>5. ~ (q - p <= -1)
  <2>1. SUFFICES ASSUME q - p <= -1 PROVE FALSE
    OBVIOUS
  <2>2. (q - p) * d <= -d
    BY <2>1, <1>2, SMT
  <2> QED BY <2>2, <1>2, <1>3, SMT
<1>6. q = p
  BY <1>2, <1>4, <1>5, SMT
<1>7. r = s
  BY <1>6, <1>3, <1>2, SMT
<1> QED BY <1>6, <1>7 DEF p, s

(* The converse: what a quotient and a remainder are.                      *)
LEMMA Division ==
  ASSUME NEW d \in Nat \ {0}, NEW n \in Nat
  PROVE  /\ n \div d \in Nat
         /\ n % d \in 0 .. d - 1
         /\ n = (n \div d) * d + (n % d)
  BY SMT

-----------------------------------------------------------------------------
(* The translation tables.                                                 *)

(* The part of a space that the two inner levels resolve.                  *)
InReach(r) == r \in 0 .. Gigabyte - 1

(* The offsets of a page are its distance from the start of the space,     *)
(* split: start_va leaves the two inner levels alone.                      *)
LEMMA Offsets ==
  ASSUME NEW r \in Nat, InReach(r)
  PROVE  /\ L3(StartPage + r) = r % Entries
         /\ L2(StartPage + r) = r \div Entries
         /\ L1(StartPage + r) = 0
         /\ L0(StartPage + r) = L0(StartPage)
         /\ r \div Entries \in 0 .. Entries - 1
         /\ r % Entries \in 0 .. Entries - 1
         /\ r = (r \div Entries) * Entries + (r % Entries)
<1> DEFINE q == r \div Entries
           m == r % Entries
           k == StartPage \div Root
<1>0. /\ Entries \in Nat \ {0}
      /\ Gigabyte \in Nat \ {0} /\ Gigabyte = Entries * Entries
      /\ Root \in Nat \ {0} /\ Root = Entries * Gigabyte
      /\ StartPage \in Nat /\ StartPage % Root = 0
  <2>1. Entries \in Nat \ {0} /\ StartPage \in Nat /\ StartPage % Root = 0
    BY SpaceAssumption
  <2>2. Entries * Entries \in Nat \ {0}
    BY <2>1, SMT
  <2>3. Entries * Entries * Entries \in Nat \ {0}
    BY <2>1, <2>2, SMT
  <2>4. Entries * Entries * Entries = Entries * (Entries * Entries)
    BY <2>1, SMT
  <2> QED BY <2>1, <2>2, <2>3, <2>4 DEF Gigabyte, Root
<1>1. q \in Nat /\ m \in 0 .. Entries - 1 /\ r = q * Entries + m
  BY <1>0, Division
<1>2. q \in 0 .. Entries - 1
  <2>1. SUFFICES ASSUME q >= Entries PROVE FALSE
    BY <1>0, <1>1, SMT
  <2>2. q * Entries >= Entries * Entries
    BY <2>1, <1>0, <1>1, SMT
  <2> QED BY <2>2, <1>0, <1>1, SMT DEF InReach
<1>3. k \in Nat /\ StartPage = k * Root
  <2>1. k \in Nat /\ StartPage = k * Root + (StartPage % Root)
    BY <1>0, Division
  <2>2. k * Root \in Nat
    BY <2>1, <1>0, SMT
  <2> QED BY <2>1, <2>2, <1>0, SMT
<1> HIDE DEF q, m, k
<1>4. L3(StartPage + r) = m
  <2>1. StartPage + r = (k * Gigabyte + q) * Entries + m
    BY <1>0, <1>1, <1>3, SMT
  <2>2. k * Gigabyte + q \in Int
    BY <1>0, <1>1, <1>3, SMT
  <2>3. ((k * Gigabyte + q) * Entries + m) % Entries = m
    BY <2>2, <1>0, <1>1, QuotientRemainder
  <2> QED BY <2>1, <2>3 DEF L3
<1>5. L2(StartPage + r) = q
  <2>1. StartPage + r = (k * Gigabyte + q) * Entries + m
    BY <1>0, <1>1, <1>3, SMT
  <2>2. k * Gigabyte + q \in Int
    BY <1>0, <1>1, <1>3, SMT
  <2>3. ((k * Gigabyte + q) * Entries + m) \div Entries = k * Gigabyte + q
    BY <2>2, <1>0, <1>1, QuotientRemainder
  <2>4. k * Gigabyte + q = (k * Entries) * Entries + q /\ k * Entries \in Int
    BY <1>0, <1>1, <1>3, SMT
  <2>5. ((k * Entries) * Entries + q) % Entries = q
    BY <2>4, <1>0, <1>2, QuotientRemainder
  <2> QED BY <2>1, <2>3, <2>4, <2>5 DEF L2
<1>6. L1(StartPage + r) = 0
  <2>1. StartPage + r = (k * Entries) * Gigabyte + r /\ k * Entries \in Int
    BY <1>0, <1>3, SMT
  <2>2. ((k * Entries) * Gigabyte + r) \div Gigabyte = k * Entries
    BY <2>1, <1>0, QuotientRemainder DEF InReach
  <2>3. k * Entries = k * Entries + 0 /\ 0 \in 0 .. Entries - 1 /\ k \in Int
    BY <1>0, <1>3, SMT
  <2>4. (k * Entries + 0) % Entries = 0
    BY <2>3, <1>0, QuotientRemainder
  <2> QED BY <2>1, <2>2, <2>3, <2>4 DEF L1
<1>7. L0(StartPage + r) = L0(StartPage)
  <2>1. r \in 0 .. Root - 1 /\ 0 \in 0 .. Root - 1
    <3>1. Gigabyte <= Root
      BY <1>0, SMT
    <3> QED BY <3>1, <1>0, SMT DEF InReach
  <2>2. (k * Root + r) \div Root = k /\ (k * Root + 0) \div Root = k
    BY <2>1, <1>0, <1>3, QuotientRemainder
  <2>3. k * Root + 0 = StartPage
    BY <1>0, <1>3, SMT
  <2> QED BY <2>2, <2>3, <1>3 DEF L0
<1> QED BY <1>1, <1>2, <1>4, <1>5, <1>6, <1>7 DEF q, m

(* Where page_table_map looks for a page and where the processor does.     *)
LEMMA PageParts ==
  ASSUME NEW v \in Pages
  PROVE  /\ v - StartPage \in Nat /\ v \in Nat
         /\ LeafIndex(v) = v - StartPage /\ LeafIndex(v) \in Pt3Slots
         /\ Which1gb(v) = 0
         /\ Which2mb(v) \in 0 .. Entries - 1 /\ Which2mb(v) \in PmdSlots
         /\ PmdRead(v) = Which2mb(v) /\ PmdWritten(v) = Which2mb(v)
         /\ L0(v) = L0(StartPage) /\ L1(v) = 0 /\ L2(v) = Which2mb(v)
         /\ LeafIndex(v) = Which2mb(v) * Entries + L3(v)
<1> DEFINE r == v - StartPage
<1>1. /\ r \in Nat /\ v \in Nat /\ StartPage \in Nat /\ v = StartPage + r
      /\ InReach(r) /\ r < Pt3Tables * Entries
      /\ Entries \in Nat \ {0} /\ Gigabyte \in Nat /\ r < Gigabyte
  <2>1. Entries \in Nat \ {0} /\ StartPage \in Nat
    BY SpaceAssumption
  <2>2. Gigabyte \in Nat
    BY <2>1, SMT DEF Gigabyte
  <2>3. PICK i \in 0 .. Gigabyte - 1 : i < Pt3Tables * Entries /\ v = StartPage + i
    BY SpaceAssumption
  <2>4. r = i /\ v \in Nat
    BY <2>1, <2>2, <2>3, SMT
  <2> QED BY <2>1, <2>2, <2>3, <2>4, SMT DEF InReach
<1> HIDE DEF r
<1>2. /\ L3(v) = r % Entries /\ L2(v) = r \div Entries
      /\ L1(v) = 0 /\ L0(v) = L0(StartPage)
      /\ r \div Entries \in 0 .. Entries - 1
      /\ r % Entries \in 0 .. Entries - 1
      /\ r = (r \div Entries) * Entries + (r % Entries)
  BY <1>1, Offsets
<1>3. Which2mb(v) = r \div Entries
  BY DEF Which2mb, r
<1>4. Which1gb(v) = 0
  <2>1. (0 * Gigabyte + r) \div Gigabyte = 0
    BY <1>1, QuotientRemainder, SMT
  <2>2. 0 * Gigabyte + r = r
    BY <1>1, SMT
  <2> QED BY <2>1, <2>2 DEF Which1gb, r
<1>5. 0 * Entries = 0 /\ 0 \div (8 * Entries) = 0
  <2>1. 8 * Entries \in Nat \ {0} /\ 0 * Entries = 0 /\ 0 * (8 * Entries) + 0 = 0
    BY <1>1, SMT
  <2>2. 0 \in Int /\ 0 \in 0 .. (8 * Entries) - 1
    BY <2>1, SMT
  <2>3. (0 * (8 * Entries) + 0) \div (8 * Entries) = 0
    BY <2>1, <2>2, QuotientRemainder
  <2> QED BY <2>1, <2>3
<1>6. PmdRead(v) = Which2mb(v) /\ PmdWritten(v) = Which2mb(v)
  BY <1>2, <1>3, <1>4, <1>5, SMT DEF PmdRead, PmdWritten
<1>7. LeafIndex(v) = r
  BY <1>2, <1>3, <1>1, SMT DEF LeafIndex
<1>8. r \in Pt3Slots
  BY <1>1, SpaceAssumption, SMT DEF Pt3Slots
<1>9. Which2mb(v) \in PmdSlots
  <2>1. PmdTables \in Nat \ {0}
    BY SpaceAssumption
  <2>2. PmdTables * Entries >= Entries
    BY <2>1, <1>1, SMT
  <2> QED BY <1>1, <1>2, <1>3, <2>1, <2>2, SMT DEF PmdSlots
<1> QED BY <1>1, <1>2, <1>3, <1>4, <1>6, <1>7, <1>8, <1>9 DEF r

-----------------------------------------------------------------------------
(* A link in use points at the table that page_table_map uses.             *)
LinksInPlace ==
  /\ pud[0] \in {None, 0}
  /\ \A b \in 0 .. Entries - 1 : pmd[b] \in {None, b}

(* No leaf is written before the links that lead to it.                    *)
LeavesLinked ==
  \A v \in Pages : pt3[LeafIndex(v)] # Unmapped =>
    pgd[L0(StartPage)] /\ pud[0] # None /\ pmd[Which2mb(v)] # None

(* The inductive invariant of the tables.                                  *)
IInv == TypeOK /\ LinksInPlace /\ LeavesLinked

(* The offsets of a page are slots of the levels' arrays.                  *)
LEMMA SlotsOfLevels ==
  /\ Entries \in Nat \ {0, 1}
  /\ 0 \in 0 .. Entries - 1
  /\ L0(StartPage) \in 0 .. Entries - 1
  /\ 0 .. Entries - 1 \subseteq PmdSlots
<1>1. /\ Entries \in Nat \ {0, 1} /\ PmdTables \in Nat \ {0}
      /\ StartPage \in Nat
  BY SpaceAssumption
<1>2. Root \in Nat \ {0}
  <2>1. Entries * Entries \in Nat \ {0}
    BY <1>1, SMT
  <2> QED BY <1>1, <2>1, SMT DEF Root
<1>3. StartPage \div Root \in Nat
  BY <1>1, <1>2, Division
<1>4. L0(StartPage) \in 0 .. Entries - 1
  BY <1>1, <1>3, Division DEF L0
<1>5. PmdTables * Entries >= Entries
  BY <1>1, SMT
<1> QED BY <1>1, <1>4, <1>5, SMT DEF PmdSlots

(* With every link in its place, the walk ends at the page's leaf.         *)
LEMMA WalkOfPage ==
  ASSUME IInv, NEW v \in Pages
  PROVE  Walk(v) = pt3[LeafIndex(v)]
<1>1. /\ Linked(v) <=> /\ pgd[L0(StartPage)] /\ pud[0] # None
                       /\ pmd[pud[0] * Entries + Which2mb(v)] # None
      /\ LeafSlot(v) = pmd[pud[0] * Entries + Which2mb(v)] * Entries + L3(v)
  BY PageParts DEF Linked, LeafSlot
<1>2. 0 * Entries + Which2mb(v) = Which2mb(v)
  BY PageParts, SlotsOfLevels, SMT
<1>3. CASE Linked(v)
  <2>1. pud[0] = 0 /\ pmd[Which2mb(v)] = Which2mb(v)
    BY <1>1, <1>2, <1>3, PageParts DEF IInv, LinksInPlace
  <2> QED BY <2>1, <1>1, <1>2, <1>3, PageParts DEF Walk
<1>4. CASE ~ Linked(v)
  <2>1. ~ (pgd[L0(StartPage)] /\ pud[0] # None /\ pmd[Which2mb(v)] # None)
    BY <1>1, <1>2, <1>4 DEF IInv, LinksInPlace
  <2> QED BY <2>1, <1>4 DEF IInv, LeavesLinked, Walk
<1> QED BY <1>3, <1>4

(* Empty tables satisfy the invariant: there is no link and no leaf.       *)
LEMMA InitIInv == Init => IInv
<1> SUFFICES ASSUME Init PROVE IInv
  OBVIOUS
<1>1. TypeOK
  BY DEF Init, TypeOK
<1>2. LinksInPlace
  BY SlotsOfLevels DEF Init, LinksInPlace
<1>3. LeavesLinked
  BY PageParts DEF Init, LeavesLinked
<1> QED BY <1>1, <1>2, <1>3 DEF IInv

-----------------------------------------------------------------------------
(* Distinct pages have distinct leaves.                                    *)
LEMMA LeavesDistinct ==
  ASSUME NEW v \in Pages, NEW w \in Pages, LeafIndex(v) = LeafIndex(w)
  PROVE  v = w
<1>1. StartPage \in Nat
  BY SpaceAssumption
<1> QED BY <1>1, PageParts, SMT

(* page_table_map adds the links its leaf needs, to the right tables.      *)
LEMMA MapPagePreserves ==
  ASSUME IInv, NEW v \in Pages, NEW leaf \in Leaves, MapPage(v, leaf)
  PROVE  IInv'
<1> DEFINE b == Which2mb(v)
<1>1. /\ pgd' = [pgd EXCEPT ![L0(StartPage)] = TRUE]
      /\ pud' = IF pud[0] = None THEN [pud EXCEPT ![0] = 0] ELSE pud
      /\ pmd' = IF pmd[b] = None THEN [pmd EXCEPT ![b] = b] ELSE pmd
      /\ pt3' = [pt3 EXCEPT ![LeafIndex(v)] = leaf]
  BY PageParts DEF MapPage, LinkIfAbsent
<1>2. b \in Nat /\ b \in PmdSlots /\ b \in 0 .. Entries - 1 /\ LeafIndex(v) \in Pt3Slots
  BY PageParts, SlotsOfLevels, SMT
<1> HIDE DEF b
<1>3. TypeOK'
  <2>1. pgd' \in [0 .. Entries - 1 -> BOOLEAN]
    BY <1>1, SlotsOfLevels DEF IInv, TypeOK
  <2>2. pud' \in [0 .. Entries - 1 -> Nat \cup {None}]
    BY <1>1, SlotsOfLevels DEF IInv, TypeOK
  <2>3. pmd' \in [PmdSlots -> Nat \cup {None}]
    BY <1>1, <1>2 DEF IInv, TypeOK
  <2>4. pt3' \in [Pt3Slots -> Leaves \cup {Unmapped}]
    BY <1>1, <1>2 DEF IInv, TypeOK
  <2> QED BY <2>1, <2>2, <2>3, <2>4 DEF TypeOK
<1>4. LinksInPlace'
  <2>1. pud'[0] \in {None, 0}
    BY <1>1, SlotsOfLevels DEF IInv, TypeOK, LinksInPlace
  <2>2. ASSUME NEW c \in 0 .. Entries - 1 PROVE pmd'[c] \in {None, c}
    BY <1>1, <1>2, <2>2, SlotsOfLevels DEF IInv, TypeOK, LinksInPlace
  <2> QED BY <2>1, <2>2 DEF LinksInPlace
<1>5. LeavesLinked'
  <2>1. SUFFICES ASSUME NEW w \in Pages, pt3'[LeafIndex(w)] # Unmapped
                 PROVE  /\ pgd'[L0(StartPage)] /\ pud'[0] # None
                        /\ pmd'[Which2mb(w)] # None
    BY DEF LeavesLinked, LeafIndex, Which2mb, L0, L3
  <2>2. pgd'[L0(StartPage)] /\ pud'[0] # None
    <3>1. 0 # None
      BY DEF None
    <3> QED BY <3>1, <1>1, SlotsOfLevels DEF IInv, TypeOK
  <2>3. pmd'[Which2mb(w)] # None
    <3>1. b # None
      BY <1>2, SMT DEF None
    <3>2. CASE Which2mb(w) = b
      BY <3>1, <3>2, <1>1, <1>2 DEF IInv, TypeOK
    <3>3. CASE Which2mb(w) # b
      <4>1. w # v
        BY <3>3 DEF b
      <4>2. LeafIndex(w) # LeafIndex(v)
        BY <4>1, LeavesDistinct
      <4>3. pt3[LeafIndex(w)] # Unmapped
        BY <4>2, <2>1, <1>1, <1>2 DEF IInv, TypeOK
      <4>4. pmd[Which2mb(w)] # None
        BY <4>3 DEF IInv, LeavesLinked
      <4> QED BY <4>4, <3>3, <1>1 DEF IInv, TypeOK
    <3> QED BY <3>2, <3>3
  <2> QED BY <2>2, <2>3
<1> QED BY <1>3, <1>4, <1>5 DEF IInv

(* normal_map_kernel_4KB links block i to table i.                         *)
LEMMA BlocksInPlace ==
  ASSUME BootPages > 0
  PROVE  /\ \A i \in LinkedBlocks : i \in 0 .. Entries - 1
         /\ \A i \in LinkedBlocks : L2(StartPage + i * Entries) = i
         /\ L3(StartPage) = 0 /\ L1(StartPage) = 0
         /\ \A v \in Pages : v - StartPage < BootPages => Which2mb(v) \in LinkedBlocks
<1> DEFINE c == (BootPages + Entries - 1) \div Entries
           s == (BootPages + Entries - 1) % Entries
<1>1. Entries \in Nat \ {0, 1} /\ BootPages \in Nat /\ c + 1 < Entries /\ StartPage \in Nat
  BY SpaceAssumption, BootAssumption
<1>2. BootPages + Entries - 1 \in Nat
  BY <1>1, SMT
<1>3. c \in Nat /\ s \in 0 .. Entries - 1 /\ BootPages + Entries - 1 = c * Entries + s
  BY <1>1, <1>2, Division
<1> HIDE DEF c, s
<1>4. LinkedBlocks = 0 .. c + 1
  BY DEF LinkedBlocks, c
<1>5. ASSUME NEW i \in LinkedBlocks PROVE i \in 0 .. Entries - 1
  BY <1>1, <1>3, <1>4, SMT
<1>6. Gigabyte \in Nat \ {0} /\ Gigabyte = Entries * Entries
  BY <1>1, SMT DEF Gigabyte
<1>7. ASSUME NEW i \in LinkedBlocks PROVE L2(StartPage + i * Entries) = i
  <2>1. i \in 0 .. Entries - 1
    BY <1>5
  <2>2. (i + 1) * Entries <= Entries * Entries /\ i * Entries >= 0
    BY <2>1, <1>1, SMT
  <2>3. i * Entries \in Nat /\ i * Entries \in 0 .. Gigabyte - 1
    BY <2>1, <2>2, <1>1, <1>6, SMT
  <2>4. L2(StartPage + i * Entries) = (i * Entries) \div Entries
    BY <2>3, Offsets DEF InReach
  <2>5. (i * Entries + 0) \div Entries = i /\ i * Entries + 0 = i * Entries
    <3>1. i \in Int /\ 0 \in 0 .. Entries - 1
      BY <2>1, <1>1, SMT
    <3> QED BY <3>1, <2>3, <1>1, QuotientRemainder, SMT
  <2> QED BY <2>4, <2>5
<1>8. L3(StartPage) = 0 /\ L1(StartPage) = 0
  <2>1. InReach(0) /\ StartPage + 0 = StartPage
    BY <1>1, <1>6, SMT DEF InReach
  <2>2. 0 % Entries = 0
    BY <1>1, SMT
  <2>3. L3(StartPage + 0) = 0 % Entries /\ L1(StartPage + 0) = 0
    BY <2>1, Offsets
  <2> QED BY <2>1, <2>2, <2>3
<1>9. ASSUME NEW v \in Pages, v - StartPage < BootPages
      PROVE  Which2mb(v) \in LinkedBlocks
  <2> DEFINE q == Which2mb(v)
  <2>1. q \in Nat /\ LeafIndex(v) = q * Entries + L3(v) /\ LeafIndex(v) < BootPages
    BY <1>9, PageParts, <1>1, SMT
  <2>2. L3(v) \in Nat
    <3>1. L3(v) \in 0 .. Entries - 1
      BY PageParts, <1>1, Division DEF L3
    <3> QED BY <3>1, <1>1, SMT
  <2> HIDE DEF q
  <2>3. ~ (q >= c + 1)
    <3>1. SUFFICES ASSUME q >= c + 1 PROVE FALSE
      OBVIOUS
    <3>2. q * Entries >= (c + 1) * Entries
      BY <3>1, <2>1, <1>1, <1>3, SMT
    <3>3. (c + 1) * Entries = c * Entries + Entries
      BY <1>1, <1>3, SMT
    <3> QED BY <3>2, <3>3, <2>1, <2>2, <1>1, <1>3, SMT
  <2>4. q \in 0 .. c + 1
    BY <2>1, <2>3, <1>3, SMT
  <2> QED BY <2>4, <1>4 DEF q
<1> QED BY <1>5, <1>7, <1>8, <1>9

(* normal_map_kernel_4KB links every block it writes leaves of.            *)
LEMMA NormalMapPreserves ==
  ASSUME IInv, NormalMap
  PROVE  IInv'
<1>1. /\ BootPages \in Nat /\ BootPages > 0
      /\ \A i \in 0 .. BootPages - 1 : FirstLeaf(i) \in Leaves
  BY BootAssumption DEF NormalMap, FirstLeaf, Leaves
<1>2. /\ L3(StartPage) = 0 /\ L1(StartPage) = 0
      /\ \A i \in LinkedBlocks : i \in 0 .. Entries - 1 /\ L2(StartPage + i * Entries) = i
  BY <1>1, BlocksInPlace
<1>3. /\ pgd' = [pgd EXCEPT ![L0(StartPage)] = TRUE]
      /\ pud' = [pud EXCEPT ![0] = 0]
      /\ pmd' = [t \in PmdSlots |-> IF BlockAt(t) = {} THEN pmd[t]
                                    ELSE CHOOSE i \in BlockAt(t) : TRUE]
  BY <1>2 DEF NormalMap
<1>4. pt3' = [t \in Pt3Slots |-> IF t \in 0 .. BootPages - 1
                                 THEN FirstLeaf(t) ELSE pt3[t]]
  <2>1. \A t \in Pt3Slots : t - L3(StartPage) = t
    BY <1>2, SMT DEF Pt3Slots
  <2> QED BY <2>1 DEF NormalMap
<1>5. \A t \in PmdSlots : BlockAt(t) = IF t \in LinkedBlocks THEN {t} ELSE {}
  BY <1>2 DEF BlockAt
<1>6. \A t \in PmdSlots : pmd'[t] = IF t \in LinkedBlocks THEN t ELSE pmd[t]
  <2>1. \A t : (CHOOSE i \in {t} : TRUE) = t
    OBVIOUS
  <2> QED BY <2>1, <1>3, <1>5
<1>7. TypeOK'
  <2>1. pgd' \in [0 .. Entries - 1 -> BOOLEAN]
    BY <1>3, SlotsOfLevels DEF IInv, TypeOK
  <2>2. pud' \in [0 .. Entries - 1 -> Nat \cup {None}]
    BY <1>3, SlotsOfLevels DEF IInv, TypeOK
  <2>3. pmd' \in [PmdSlots -> Nat \cup {None}]
    <3>1. \A i \in LinkedBlocks : i \in Nat
      BY <1>2, SlotsOfLevels, SMT
    <3>2. pmd' = [t \in PmdSlots |-> pmd'[t]]
      BY <1>3
    <3> QED BY <3>1, <3>2, <1>6 DEF IInv, TypeOK
  <2>4. pt3' \in [Pt3Slots -> Leaves \cup {Unmapped}]
    BY <1>1, <1>4 DEF IInv, TypeOK
  <2> QED BY <2>1, <2>2, <2>3, <2>4 DEF TypeOK
<1>8. LinksInPlace'
  <2>1. pud'[0] \in {None, 0}
    BY <1>3, SlotsOfLevels DEF IInv, TypeOK
  <2>2. ASSUME NEW b \in 0 .. Entries - 1 PROVE pmd'[b] \in {None, b}
    BY <2>2, <1>6, SlotsOfLevels DEF IInv, LinksInPlace
  <2> QED BY <2>1, <2>2 DEF LinksInPlace
<1>9. LeavesLinked'
  <2>1. SUFFICES ASSUME NEW v \in Pages, pt3'[LeafIndex(v)] # Unmapped
                 PROVE  /\ pgd'[L0(StartPage)] /\ pud'[0] # None
                        /\ pmd'[Which2mb(v)] # None
    BY DEF LeavesLinked, LeafIndex, Which2mb, L0, L3
  <2>2. pgd'[L0(StartPage)] /\ pud'[0] # None
    BY <1>3, SlotsOfLevels DEF IInv, TypeOK, None
  <2>3. LeafIndex(v) \in 0 .. BootPages - 1
    <3>1. SUFFICES ASSUME LeafIndex(v) \notin 0 .. BootPages - 1 PROVE FALSE
      OBVIOUS
    <3>2. pt3[LeafIndex(v)] # Unmapped
      BY <3>1, <2>1, <1>4, PageParts
    <3>3. pgd[L0(StartPage)]
      BY <3>2 DEF IInv, LeavesLinked
    <3> QED BY <3>3, SlotsOfLevels DEF NormalMap
  <2>4. Which2mb(v) \in LinkedBlocks
    <3>1. v - StartPage < BootPages
      BY <2>3, <1>1, PageParts, SMT
    <3> QED BY <3>1, <1>1, BlocksInPlace
  <2>5. pmd'[Which2mb(v)] = Which2mb(v) /\ Which2mb(v) \in Nat
    BY <2>4, <1>6, PageParts, SMT
  <2> QED BY <2>2, <2>5 DEF None
<1> QED BY <1>7, <1>8, <1>9 DEF IInv

(* Every step keeps the invariant.                                         *)
LEMMA NextIInv == IInv /\ [Next]_vars => IInv'
<1> SUFFICES ASSUME IInv, [Next]_vars PROVE IInv'
  OBVIOUS
<1>1. CASE NormalMap
  BY <1>1, NormalMapPreserves
<1>2. ASSUME NEW v \in Pages, NEW leaf \in Leaves, MapPage(v, leaf) PROVE IInv'
  BY <1>2, MapPagePreserves
<1>3. CASE UNCHANGED vars
  BY <1>3 DEF vars, IInv, TypeOK, LinksInPlace, LeavesLinked, LeafIndex, Which2mb, L0, L3
<1> QED BY <1>1, <1>2, <1>3 DEF Next

(* The invariant holds in every reachable state.                           *)
LEMMA AlwaysIInv == Spec => []IInv
BY InitIInv, NextIInv, PTL DEF Spec

(* The tables stay tables: links are numbers of tables, leaves are leaves. *)
THEOREM TypeCorrect == Spec => []TypeOK
<1>1. IInv => TypeOK
  BY DEF IInv
<1> QED BY <1>1, AlwaysIInv, PTL

(* What the processor reads for a page is the leaf page_table_map writes   *)
(* for it, however the links came about.                                   *)
THEOREM WalkAgrees == Spec => []WalkFindsLeaf
<1>1. IInv => WalkFindsLeaf
  BY WalkOfPage DEF WalkFindsLeaf
<1> QED BY <1>1, AlwaysIInv, PTL

-----------------------------------------------------------------------------
(* What the tables say of each page, as an address map.                    *)
Walks == [v \in Pages |-> Walk(v)]

(* Empty tables are an address map with nothing mapped.                    *)
LEMMA InitRefines == Init => Space!Init
<1> SUFFICES ASSUME Init PROVE Space!Init
  OBVIOUS
<1>1. \A v \in Pages : ~ Linked(v)
  BY PageParts, SlotsOfLevels DEF Init, Linked
<1> QED BY <1>1 DEF Space!Init, Walk

(* The walks of the next state are its leaves.                             *)
LEMMA WalksAreLeaves == IInv => \A v \in Pages : Walk(v) = pt3[LeafIndex(v)]
BY WalkOfPage

(* WalksAreLeaves, of the state after a step.                              *)
LEMMA NextWalks == IInv' => \A v \in Pages : Walk(v)' = pt3'[LeafIndex(v)]
<1>1. (IInv => \A v \in Pages : Walk(v) = pt3[LeafIndex(v)])'
  BY WalksAreLeaves, PTL
<1> QED BY <1>1 DEF LeafIndex, Which2mb, L3

(* page_table_map is Map: it writes the leaf of one page.                  *)
LEMMA MapPageRefines ==
  ASSUME IInv, IInv', NEW v \in Pages, NEW leaf \in Leaves, MapPage(v, leaf)
  PROVE  Space!Map(v, leaf)
<1>1. ASSUME NEW w \in Pages
      PROVE  Walk(w)' = IF w = v THEN leaf ELSE Walk(w)
  <2>1. Walk(w)' = pt3'[LeafIndex(w)] /\ Walk(w) = pt3[LeafIndex(w)]
    BY NextWalks, WalkOfPage
  <2>2. LeafIndex(w) \in Pt3Slots /\ LeafIndex(v) \in Pt3Slots
    BY PageParts
  <2>3. pt3' = [pt3 EXCEPT ![LeafIndex(v)] = leaf]
    BY DEF MapPage
  <2>4. CASE w = v
    BY <2>1, <2>2, <2>3, <2>4 DEF IInv, TypeOK
  <2>5. CASE w # v
    <3>1. LeafIndex(w) # LeafIndex(v)
      BY <2>5, LeavesDistinct
    <3> QED BY <2>1, <2>2, <2>3, <2>5, <3>1 DEF IInv, TypeOK
  <2> QED BY <2>4, <2>5
<1> QED BY <1>1 DEF Space!Map

(* normal_map_kernel_4KB is MapFirst of the pages it covers.               *)
LEMMA NormalMapRefines ==
  ASSUME IInv, IInv', NormalMap
  PROVE  \E S \in SUBSET Pages : Space!MapFirst(S)
<1> DEFINE S == {v \in Pages : LeafIndex(v) \in 0 .. BootPages - 1}
           BootMap == [v \in Pages |-> [oa    |-> StartFrame + (v - StartPage),
                                        flags |-> BootFlags]]
<1>1. \A v \in Pages : Walk(v) = Unmapped
  <2>1. \A v \in Pages : ~ Linked(v)
    BY PageParts, SlotsOfLevels DEF NormalMap, Linked
  <2> QED BY <2>1 DEF Walk
<1>2. ASSUME NEW v \in Pages
      PROVE  Walk(v)' = IF v \in S THEN BootMap[v] ELSE Unmapped
  <2>1. Walk(v)' = pt3'[LeafIndex(v)] /\ pt3[LeafIndex(v)] = Unmapped
    BY NextWalks, WalkOfPage, <1>1
  <2>2. L3(StartPage) = 0 /\ LeafIndex(v) \in Pt3Slots /\ LeafIndex(v) \in Nat
    <3>1. BootPages > 0
      BY DEF NormalMap
    <3> QED BY <3>1, BlocksInPlace, PageParts
  <2>3. LeafIndex(v) - L3(StartPage) = LeafIndex(v)
    BY <2>2, SMT
  <2>4. pt3'[LeafIndex(v)] = IF LeafIndex(v) \in 0 .. BootPages - 1
                             THEN FirstLeaf(LeafIndex(v)) ELSE pt3[LeafIndex(v)]
    BY <2>2, <2>3 DEF NormalMap
  <2>5. FirstLeaf(LeafIndex(v)) = BootMap[v]
    BY PageParts DEF FirstLeaf
  <2> QED BY <2>1, <2>4, <2>5
<1>3. S \in SUBSET Pages
  OBVIOUS
<1> HIDE DEF S
<1>4. Space!MapFirst(S)
  BY <1>1, <1>2 DEF Space!MapFirst
<1> QED BY <1>3, <1>4

(* Every step is a step of the address map, or changes no walk.            *)
LEMMA NextRefines == IInv /\ IInv' /\ [Next]_vars => [Space!Next]_Walks
<1> SUFFICES ASSUME IInv, IInv', [Next]_vars PROVE [Space!Next]_Walks
  OBVIOUS
<1>1. CASE NormalMap
  BY <1>1, NormalMapRefines DEF Space!Next
<1>2. ASSUME NEW v \in Pages, NEW leaf \in Leaves, MapPage(v, leaf)
      PROVE  Space!Next
  BY <1>2, MapPageRefines DEF Space!Next
<1>3. CASE UNCHANGED vars
  BY <1>3 DEF vars, Walks, Walk, Linked, LeafSlot, L0, L1, L2, L3
<1> QED BY <1>1, <1>2, <1>3 DEF Next

(* Mapping a page, or mapping it again, changes its translation and no     *)
(* other: page_table_map over normal_map_kernel_4KB is an address map.     *)
THEOREM Refinement == Spec => RefinesAddressMap
<1>1. IInv /\ IInv' /\ [Next]_vars => [Space!Next]_Walks
  BY NextRefines
<1> QED BY <1>1, InitRefines, AlwaysIInv, PTL
      DEF Spec, RefinesAddressMap, Space!Spec, Walks

-----------------------------------------------------------------------------
(* The loader: arithmetic of pages.                                        *)

(* The sizes of the tables, the stack and a page.                          *)
LEMMA Sizes ==
  /\ UnitsPerPage \in Nat \ {0} /\ TablePages \in Nat /\ MaxFrames \in Nat
  /\ StackBase \in Nat /\ StackPages \in Nat \ {0}
  /\ StackPages < StackBase /\ StackBase <= TablePages
  BY LoaderAssumption

(* A program's headers are what the assumption says of all programs.       *)
LEMMA Headers ==
  ASSUME program \in Programs
  PROVE  /\ Segments \in Seq(Header) /\ Len(Segments) \in Nat
         /\ \A k \in 1 .. Len(Segments) :
              /\ Segments[k] \in Header
              /\ Segments[k].filesz <= Segments[k].memsz
<1>1. Segments \in Seq(Header)
  BY LoaderAssumption DEF Segments
<1>2. \A k \in 1 .. Len(Segments) : Segments[k].filesz <= Segments[k].memsz
  BY LoaderAssumption DEF Segments
<1>3. Len(Segments) \in Nat /\ \A k \in 1 .. Len(Segments) : Segments[k] \in Header
  BY <1>1, LenProperties, ElementOfSeq
<1> QED
  BY <1>1, <1>2, <1>3

(* Rounding up reaches every unit below.                                   *)
LEMMA RoundedUp ==
  ASSUME NEW d \in Nat \ {0}, NEW m \in Nat, NEW u \in Nat, u < m
  PROVE  u \div d < (m + d - 1) \div d
<1> DEFINE n == (m + d - 1) \div d
           q == u \div d
           r == (m + d - 1) % d
<1>1. m + d - 1 \in Nat
  OBVIOUS
<1>2. n \in Nat /\ r \in 0 .. d - 1 /\ m + d - 1 = (n * d) + r
  BY <1>1, Division
<1>3. q \in Nat /\ q * d <= u
  <2>1. q \in Nat /\ u % d \in 0 .. d - 1 /\ u = (q * d) + (u % d)
    BY Division
  <2> HIDE DEF q
  <2>2. q * d \in Int
    BY <2>1
  <2> QED
    BY <2>1, <2>2
<1> HIDE DEF n, q, r
<1>4. n * d \in Int /\ q * d \in Int
  BY <1>2, <1>3
<1>5. q * d < n * d
  BY <1>2, <1>3, <1>4
<1>6. q < n
  <2>1. SUFFICES ASSUME q >= n PROVE FALSE
    BY <1>2, <1>3
  <2>2. (q - n) * d >= 0
    BY <2>1, <1>2, <1>3
  <2>3. (q - n) * d = q * d - n * d
    BY <1>2, <1>3
  <2> QED
    BY <2>2, <2>3, <1>4, <1>5
<1> QED
  BY <1>6 DEF n, q

(* A multiple is divided apart from what is added to it.                   *)
LEMMA MultipleApart ==
  ASSUME NEW d \in Nat \ {0}, NEW v \in Nat, v % d = 0, NEW u \in Nat
  PROVE  (v + u) \div d = (v \div d) + (u \div d) /\ (v + u) % d = u % d
<1> DEFINE b == v \div d
           q == u \div d
           r == u % d
<1>1. b \in Nat /\ v = (b * d) + (v % d)
  BY Division
<1>2. q \in Nat /\ r \in 0 .. d - 1 /\ u = (q * d) + r
  BY Division
<1> HIDE DEF b, q, r
<1>3. v = b * d
  <2>1. b * d \in Int
    BY <1>1
  <2> QED
    BY <1>1, <2>1
<1>4. v + u = (b + q) * d + r
  BY <1>1, <1>2, <1>3
<1>5. b + q \in Int
  BY <1>1, <1>2
<1>6. ((b + q) * d + r) \div d = b + q /\ ((b + q) * d + r) % d = r
  BY <1>2, <1>5, QuotientRemainder
<1> QED
  BY <1>4, <1>6 DEF b, q, r

(* Every unit of a segment is in one of its pages.                         *)
LEMMA SegmentPages ==
  ASSUME NEW s \in Header
  PROVE  /\ Base(s) \in Nat /\ LoadPages(s) \in Nat
         /\ \A u \in 0 .. s.memsz - 1 :
              /\ PageDown(u) \in 0 .. LoadPages(s) - 1
              /\ u % UnitsPerPage \in Units
         /\ s.memsz > 0 => LoadPages(s) > 0
<1>1. UnitsPerPage \in Nat \ {0} /\ s.vaddr \in Nat /\ s.memsz \in Nat
  BY Sizes DEF Header
<1>2. s.memsz + UnitsPerPage - 1 \in Nat
  BY <1>1
<1>3. Base(s) \in Nat /\ LoadPages(s) \in Nat
  BY <1>1, <1>2, Division DEF Base, LoadPages, PageUp, PageDown
<1>4. ASSUME NEW u \in 0 .. s.memsz - 1
      PROVE  /\ PageDown(u) \in Nat /\ PageDown(u) < LoadPages(s)
             /\ u % UnitsPerPage \in Units
  <2>1. u \in Nat /\ u < s.memsz
    BY <1>1
  <2> QED
    BY <1>1, <2>1, Division, RoundedUp DEF LoadPages, PageUp, PageDown, Units
<1>5. \A u \in 0 .. s.memsz - 1 :
        PageDown(u) \in 0 .. LoadPages(s) - 1 /\ u % UnitsPerPage \in Units
  <2> TAKE u \in 0 .. s.memsz - 1
  <2> QED
    BY <1>3, <1>4
<1>6. s.memsz > 0 => LoadPages(s) > 0
  <2>1. s.memsz > 0 => 0 \in 0 .. s.memsz - 1
    BY <1>1
  <2>2. s.memsz > 0 => PageDown(0) \in 0 .. LoadPages(s) - 1
    BY <2>1, <1>5
  <2> QED
    BY <2>2, <1>3
<1> QED
  BY <1>3, <1>5, <1>6

(* In a segment that begins at a page, units and pages are counted from    *)
(* its base.                                                               *)
LEMMA AlignedUnits ==
  ASSUME NEW s \in Header, s.vaddr % UnitsPerPage = 0, NEW u \in Nat
  PROVE  /\ PageDown(s.vaddr + u) = Base(s) + PageDown(u)
         /\ (s.vaddr + u) % UnitsPerPage = u % UnitsPerPage
<1>1. UnitsPerPage \in Nat \ {0} /\ s.vaddr \in Nat
  BY Sizes DEF Header
<1> QED
  BY <1>1, MultipleApart DEF Base, PageDown

-----------------------------------------------------------------------------
(* The loader: no frame is behind two pages.                               *)

(* Page p has a leaf.                                                      *)
Mapped(p) == map[p] # NoPage

(* What a stage relies on: there is a header left, and the pages of the    *)
(* one that is copied are mapped.                                          *)
Progress ==
  /\ stage \in {"mmap", "copy", "protect"} => segment <= Len(Segments)
  /\ stage \in {"copy", "protect"} =>
       /\ LoadPages(Segments[segment]) > 0
       /\ \A p \in PagesOf(Segments[segment]) : p \in UserPages /\ Mapped(p)

(* Frames are handed out once, in order.                                   *)
FramesApart ==
  /\ \A p \in UserPages : Mapped(p) => map[p].frame < used_frames
  /\ OnePagePerFrame

(* The invariant of every program, whether a linker made it or not.        *)
SafeInv == LoaderTypeOK /\ Progress /\ FramesApart

(* The outcome of an mmap that does not end the VM.                        *)
MapsRange(base, size, access) ==
  /\ used_frames + size <= frames
  /\ \A p \in base .. base + size - 1 : p \in UserPages
  /\ map' = [p \in UserPages |->
               IF p \in base .. base + size - 1
               THEN [frame |-> used_frames + (p - base), access |-> access]
               ELSE map[p]]
  /\ used_frames' = used_frames + size
  /\ regions' = IF regions = << >> THEN <<[base |-> base, size |-> size]>>
                ELSE <<Head(regions)>> \o
                       Inserted(Tail(regions), [base |-> base, size |-> size])
  /\ UNCHANGED <<program, frames, segment, memory, process_state,
                 process_head, fd_table>>

(* The VM has ended.                                                       *)
Ends ==
  /\ stage' \in {"crashed", "faulted"}
  /\ UNCHANGED <<program, frames, segment, regions, map, used_frames, memory,
                 process_state, process_head, fd_table>>

(* generic_mmap maps all of the range or ends the VM: the loop over its    *)
(* pages stops only in a fault or a crash.                                 *)
LEMMA MapOutcome ==
  ASSUME LoaderTypeOK, NEW base \in Nat, NEW size \in Nat, NEW access, NEW next,
         MapPages(base, size, access, next)
  PROVE  Ends \/ (MapsRange(base, size, access) /\ stage' = next)
<1>1. CASE \E how \in {"crashed", "faulted"} : Stop(how)
  BY <1>1 DEF Stop, Ends
<1>2. CASE ~ \E how \in {"crashed", "faulted"} : Stop(how)
  <2>1. ~ OutOfTables(base, size) /\ ~ OutOfFrames(size)
    BY <1>2, Zenon DEF MapPages
  <2>2. used_frames \in Nat /\ frames \in Nat /\ TablePages \in Nat
    BY Sizes, LoaderAssumption DEF LoaderTypeOK
  <2>3. used_frames + size <= frames
    BY <2>1, <2>2 DEF OutOfFrames
  <2>4. ASSUME NEW p \in base .. base + size - 1 PROVE p \in UserPages
    <3>1. p - base \in 0 .. size - 1 /\ base + (p - base) = p /\ p \in Nat
      OBVIOUS
    <3>2. used_frames + (p - base) < frames
      BY <2>2, <2>3, <3>1
    <3>3. ~ (base + (p - base) >= TablePages)
      BY <2>1, <3>1, <3>2 DEF OutOfTables
    <3> QED
      BY <2>2, <3>1, <3>3 DEF UserPages
  <2>5. LET r == [base |-> base, size |-> size]
        IN  /\ map' = [p \in UserPages |->
                         IF p \in base .. base + size - 1
                         THEN [frame  |-> used_frames + (p - base),
                               access |-> access]
                         ELSE map[p]]
            /\ used_frames' = used_frames + size
            /\ regions' = IF regions = << >> THEN <<r>>
                          ELSE <<Head(regions)>> \o Inserted(Tail(regions), r)
            /\ stage' = next
            /\ UNCHANGED <<program, frames, segment, memory, process_state,
                           process_head, fd_table>>
    BY <1>2, <2>1, Zenon DEF MapPages
  <2> QED
    BY <2>3, <2>4, <2>5, Zenon DEF MapsRange
<1> QED
  BY <1>1, <1>2

(* First finds the least of a set of positions.                            *)
LEMMA FirstIsLeast ==
  ASSUME NEW S \in SUBSET Nat, S # {}
  PROVE  First(S) \in S /\ \A j \in S : First(S) <= j
<1> DEFINE R == OpToRel(<, Nat)
<1>1. IsWellFoundedOn(R, Nat)
  BY NatLessThanWellFounded
<1>2. ASSUME NEW i \in Nat, NEW j \in Nat, j < i
      PROVE  <<j, i>> \in R
  BY <1>2 DEF OpToRel
<1> HIDE DEF R
<1>3. PICK i \in S : \A j \in S : ~ (<<j, i>> \in R)
  BY <1>1, WFMin
<1>4. \A j \in S : i <= j
  <2>1. ASSUME NEW j \in S, ~ (i <= j) PROVE FALSE
    <3>1. j \in Nat /\ i \in Nat /\ j < i
      BY <2>1
    <3> QED
      BY <3>1, <1>2, <1>3
  <2> QED
    BY <2>1
<1> QED
  BY <1>4 DEF First

(* An insertion leaves a list of regions.                                  *)
LEMMA InsertedTyped ==
  ASSUME NEW R, NEW list \in Seq(R), NEW r \in R
  PROVE  Inserted(list, r) \in Seq(R)
<1>1. Len(list) \in Nat
  BY LenProperties
<1>2. ASSUME NEW place \in 0 .. Len(list)
      PROVE  InsertedBehind(list, r, place) \in Seq(R)
  <2>1. SubSeq(list, 1, place) \in Seq(R)
    BY <1>1, SubSeqProperties, ElementOfSeq
  <2>2. SubSeq(list, place + 1, Len(list)) \in Seq(R)
    BY <1>1, SubSeqProperties, ElementOfSeq
  <2>3. <<r>> \in Seq(R)
    OBVIOUS
  <2> QED
    BY <2>1, <2>2, <2>3, ConcatProperties DEF InsertedBehind
<1>3. CASE Openings(list, r) # {}
  <2>1. Openings(list, r) \in SUBSET Nat
    BY <1>1 DEF Openings
  <2>2. First(Openings(list, r)) \in 1 .. Len(list) - 1
    BY <2>1, <1>3, FirstIsLeast DEF Openings
  <2>3. InsertedAtOpening(list, r) \in Seq(R)
    BY <1>1, <1>2, <2>2 DEF InsertedAtOpening
  <2>4. list # << >>
    BY <1>3 DEF Openings
  <2> QED
    BY <1>3, <2>3, <2>4, Zenon DEF Inserted
<1>4. CASE Openings(list, r) = {}
  <2>1. CASE list = << >>
    BY <2>1, <1>4 DEF Inserted
  <2>2. CASE list # << >>
    <3>1. Inserted(list, r) \in {Append(list, r), list}
      BY <2>2, <1>4, Zenon DEF Inserted
    <3> QED
      BY <3>1, AppendProperties
  <2> QED
    BY <2>1, <2>2
<1> QED
  BY <1>3, <1>4

(* The regions of the list.                                                *)
Region == [base : Nat, size : Nat \ {0}]

(* What is the case of types alone.                                        *)
LEMMA TypesOf ==
  ASSUME LoaderTypeOK
  PROVE  /\ program \in Programs
         /\ Len(Segments) \in Nat /\ segment \in 1 .. Len(Segments) + 1
         /\ used_frames \in Nat /\ frames \in Nat /\ frames <= MaxFrames
         /\ used_frames <= frames
         /\ map \in [UserPages -> UserLeaves \cup {NoPage}]
         /\ regions \in Seq(Region)
         /\ \A p \in UserPages : Mapped(p) =>
              /\ map[p] \in UserLeaves
              /\ map[p].frame \in 0 .. MaxFrames - 1
<1>1. program \in Programs /\ Len(Segments) \in Nat
  BY Headers DEF LoaderTypeOK
<1>2. frames \in 0 .. MaxFrames /\ MaxFrames \in Nat
  BY LoaderAssumption DEF LoaderTypeOK
<1>3. map \in [UserPages -> UserLeaves \cup {NoPage}]
  BY DEF LoaderTypeOK
<1>4. \A p \in UserPages : Mapped(p) =>
        map[p] \in UserLeaves /\ map[p].frame \in 0 .. MaxFrames - 1
  BY <1>3 DEF Mapped, UserLeaves
<1> QED
  BY <1>1, <1>2, <1>3, <1>4 DEF LoaderTypeOK, Region

(* An mmap hands out frames nobody has.                                    *)
LEMMA MapsApart ==
  ASSUME LoaderTypeOK, FramesApart, NEW base \in Nat, NEW size \in Nat \ {0},
         MapsRange(base, size, "rw")
  PROVE  /\ map' \in [UserPages -> UserLeaves \cup {NoPage}]
         /\ used_frames' \in 0 .. frames
         /\ regions' \in Seq(Region)
         /\ FramesApart'
         /\ \A p \in base .. base + size - 1 :
              p \in UserPages /\ map'[p] # NoPage /\ map'[p].access = "rw"
         /\ \A p \in UserPages \ (base .. base + size - 1) : map'[p] = map[p]
<1> DEFINE new == base .. base + size - 1
<1>1. /\ used_frames \in Nat /\ frames \in Nat /\ frames <= MaxFrames
      /\ map \in [UserPages -> UserLeaves \cup {NoPage}]
      /\ regions \in Seq(Region) /\ MaxFrames \in Nat
      /\ \A p \in UserPages : Mapped(p) => map[p].frame \in 0 .. MaxFrames - 1
  BY TypesOf, Sizes
<1>2. used_frames + size <= frames /\ used_frames' = used_frames + size
  BY DEF MapsRange
<1>3. /\ new \subseteq UserPages
      /\ \A p \in new :
           map'[p] = [frame |-> used_frames + (p - base), access |-> "rw"]
      /\ \A p \in UserPages \ new : map'[p] = map[p]
      /\ DOMAIN map' = UserPages
      /\ map' = [p \in UserPages |-> map'[p]]
  BY DEF MapsRange
<1> HIDE DEF new
<1>4. ASSUME NEW p \in new
      PROVE  /\ p \in Int /\ p - base \in 0 .. size - 1
             /\ used_frames + (p - base) \in 0 .. MaxFrames - 1
             /\ used_frames + (p - base) >= used_frames
             /\ used_frames + (p - base) < used_frames + size
  <2>1. p \in base .. base + size - 1
    BY DEF new
  <2>2. p \in Int /\ p - base \in 0 .. size - 1
    BY <2>1
  <2> QED
    BY <2>2, <1>1, <1>2
<1>5. ASSUME NEW p \in new
      PROVE  /\ map'[p] \in UserLeaves /\ map'[p] # NoPage
             /\ map'[p].frame = used_frames + (p - base)
             /\ map'[p].frame \in Nat /\ map'[p].access = "rw"
             /\ map'[p].frame >= used_frames /\ map'[p].frame < used_frames'
  <2> DEFINE f == used_frames + (p - base)
  <2>1. /\ f \in 0 .. MaxFrames - 1 /\ f \in Nat
        /\ f >= used_frames /\ f < used_frames'
    BY <1>4, <1>1, <1>2
  <2>2. map'[p] = [frame |-> f, access |-> "rw"]
    BY <1>3
  <2> HIDE DEF f
  <2>3. map'[p].frame = f /\ map'[p].access = "rw" /\ map'[p] \in UserLeaves
    BY <2>1, <2>2 DEF UserLeaves
  <2>4. f # -1
    BY <2>1
  <2>5. map'[p] # NoPage
    BY <2>3, <2>4 DEF NoPage
  <2> QED
    BY <2>1, <2>3, <2>5 DEF f
<1>6. map' \in [UserPages -> UserLeaves \cup {NoPage}]
  <2>1. \A p \in UserPages : map'[p] \in UserLeaves \cup {NoPage}
    BY <1>1, <1>3, <1>5
  <2> QED
    BY <1>3, <2>1
<1>7. used_frames' \in 0 .. frames
  BY <1>1, <1>2
<1>8. regions' \in Seq(Region)
  <2>1. [base |-> base, size |-> size] \in Region
    BY DEF Region
  <2>2. CASE regions = << >>
    <3>1. regions' = <<[base |-> base, size |-> size]>>
      BY <2>2 DEF MapsRange
    <3> QED
      BY <3>1, <2>1
  <2>3. CASE regions # << >>
    <3>1. Head(regions) \in Region /\ Tail(regions) \in Seq(Region)
      BY <1>1, <2>3, HeadTailProperties
    <3>2. Inserted(Tail(regions), [base |-> base, size |-> size]) \in Seq(Region)
      BY <2>1, <3>1, InsertedTyped
    <3>3. <<Head(regions)>> \in Seq(Region)
      BY <3>1
    <3>4. regions' = <<Head(regions)>> \o
                       Inserted(Tail(regions), [base |-> base, size |-> size])
      BY <2>3 DEF MapsRange
    <3> QED
      BY <3>2, <3>3, <3>4, ConcatProperties
  <2> QED
    BY <2>2, <2>3
<1>9. \A p \in UserPages : map'[p] # NoPage =>
        /\ map'[p].frame < used_frames'
        /\ p \notin new => map[p] # NoPage /\ map'[p].frame < used_frames
  <2> SUFFICES ASSUME NEW p \in UserPages, map'[p] # NoPage
               PROVE  /\ map'[p].frame < used_frames'
                      /\ p \notin new => map[p] # NoPage /\ map'[p].frame < used_frames
    OBVIOUS
  <2>1. CASE p \in new
    BY <2>1, <1>5
  <2>2. CASE p \notin new
    <3>1. map'[p] = map[p] /\ map[p] # NoPage /\ map[p].frame < used_frames
      BY <2>2, <1>3 DEF FramesApart, Mapped
    <3>2. map[p].frame \in Int
      BY <3>1, <1>1 DEF Mapped
    <3>3. map[p].frame < used_frames'
      BY <3>1, <3>2, <1>1, <1>2
    <3> QED
      BY <3>1, <3>3
  <2> QED
    BY <2>1, <2>2
<1>10. ASSUME NEW p \in UserPages, NEW q \in UserPages, p # q, map'[p] # NoPage
       PROVE  map'[p].frame # map'[q].frame
  <2>1. CASE p \in new /\ q \in new
    <3>1. /\ map'[p].frame = used_frames + (p - base)
          /\ map'[q].frame = used_frames + (q - base)
      BY <2>1, <1>5
    <3> QED
      BY <2>1, <3>1, <1>1, <1>4, <1>10, SMTT(30)
  <2>2. CASE p \in new /\ q \notin new
    <3>1. map'[p].frame >= used_frames
      BY <2>2, <1>5
    <3>2. map'[p].frame \in Nat
      BY <2>2, <1>5
    <3>3. map'[q].frame < used_frames /\ map'[q].frame \in Int
      <4>1. CASE map'[q] = NoPage
        BY <4>1, <1>1 DEF NoPage
      <4>2. CASE map'[q] # NoPage
        BY <4>2, <2>2, <1>1, <1>3, <1>9 DEF Mapped
      <4> QED
        BY <4>1, <4>2
    <3> QED
      BY <3>1, <3>2, <3>3, <1>1
  <2>3. CASE p \notin new /\ q \in new
    <3>1. map'[q].frame >= used_frames /\ map'[q].frame \in Nat
      BY <2>3, <1>5
    <3>2. map'[p].frame < used_frames /\ map'[p].frame \in Int
      BY <2>3, <1>1, <1>3, <1>9, <1>10 DEF Mapped
    <3> QED
      BY <3>1, <3>2, <1>1
  <2>4. CASE p \notin new /\ q \notin new
    BY <2>4, <1>3, <1>10 DEF FramesApart, OnePagePerFrame
  <2> QED
    BY <2>1, <2>2, <2>3, <2>4
<1>11. FramesApart'
  BY <1>9, <1>10 DEF FramesApart, OnePagePerFrame, Mapped
<1> QED
  BY <1>3, <1>5, <1>6, <1>7, <1>8, <1>11 DEF new

(* The first page of a segment that is being loaded.                       *)
LEMMA FirstPage ==
  ASSUME LoaderTypeOK, Progress, stage \in {"mmap", "copy", "protect"}
  PROVE  /\ segment \in 1 .. Len(Segments) /\ Segments[segment] \in Header
         /\ Base(Segments[segment]) \in Nat /\ LoadPages(Segments[segment]) \in Nat
         /\ stage \in {"copy", "protect"} =>
              /\ Base(Segments[segment]) \in PagesOf(Segments[segment])
              /\ Base(Segments[segment]) \in UserPages
              /\ Mapped(Base(Segments[segment]))
<1>1. segment \in 1 .. Len(Segments)
  BY TypesOf DEF Progress
<1>2. Segments[segment] \in Header
  BY <1>1, TypesOf, Headers
<1>3. Base(Segments[segment]) \in Nat /\ LoadPages(Segments[segment]) \in Nat
  BY <1>2, SegmentPages
<1>4. CASE stage \in {"copy", "protect"}
  <2>1. Base(Segments[segment]) \in PagesOf(Segments[segment])
    BY <1>3, <1>4 DEF Progress, PagesOf
  <2> QED
    BY <1>1, <1>2, <1>3, <1>4, <2>1 DEF Progress
<1> QED
  BY <1>1, <1>2, <1>3, <1>4

(* A page that is mapped again keeps its frame.                            *)
LEMMA ProtectKeepsFrames ==
  ASSUME SafeInv, ProtectSegment
  PROVE  /\ map' \in [UserPages -> UserLeaves \cup {NoPage}]
         /\ \A p \in UserPages : /\ map'[p].frame = map[p].frame
                                 /\ map'[p] # NoPage <=> Mapped(p)
                                 /\ p # Base(Segments[segment]) => map'[p] = map[p]
         /\ map'[Base(Segments[segment])].access = Access(Segments[segment].flags)
<1> DEFINE b == Base(Segments[segment])
           f == map[b].frame
           a == Access(Segments[segment].flags)
<1>1. b \in UserPages /\ Mapped(b)
  BY FirstPage DEF SafeInv, ProtectSegment
<1>2. map \in [UserPages -> UserLeaves \cup {NoPage}]
  BY DEF SafeInv, LoaderTypeOK
<1>3. f \in 0 .. MaxFrames - 1
  BY <1>1, TypesOf DEF SafeInv
<1>4. a \in {"ro", "rw"}
  BY DEF Access
<1>5. map' = [map EXCEPT ![b] = [frame |-> f, access |-> a]]
  BY DEF ProtectSegment, PhysicalAddress
<1> HIDE DEF a, f, b
<1>6. [frame |-> f, access |-> a] \in UserLeaves /\ [frame |-> f, access |-> a] # NoPage
  BY <1>3, <1>4 DEF UserLeaves, NoPage
<1>7. map' \in [UserPages -> UserLeaves \cup {NoPage}]
  BY <1>2, <1>5, <1>6
<1>8. map'[b] = [frame |-> f, access |-> a] /\ \A p \in UserPages : p # b => map'[p] = map[p]
  BY <1>1, <1>2, <1>5
<1>9. \A p \in UserPages : map'[p].frame = map[p].frame /\ (map'[p] # NoPage <=> Mapped(p))
  <2> SUFFICES ASSUME NEW p \in UserPages
               PROVE  map'[p].frame = map[p].frame /\ (map'[p] # NoPage <=> Mapped(p))
    OBVIOUS
  <2>1. CASE p = b
    BY <2>1, <1>1, <1>6, <1>8 DEF f
  <2>2. CASE p # b
    BY <2>2, <1>8 DEF Mapped
  <2> QED
    BY <2>1, <2>2
<1> QED
  BY <1>7, <1>8, <1>9 DEF a, b

(* Nothing is mapped and no frame handed out when sys_execve begins.       *)
LEMMA InitSafe == LoaderInit => SafeInv
<1> SUFFICES ASSUME LoaderInit PROVE SafeInv
  OBVIOUS
<1>1. program \in Programs /\ Len(Segments) \in Nat
  BY Headers DEF LoaderInit
<1>2. frames \in 0 .. MaxFrames /\ MaxFrames \in Nat
  BY LoaderAssumption DEF LoaderInit
<1>3. /\ stage \in {"mmap", "stack", "scheduler"}
      /\ stage = "mmap" => Segments # << >>
  BY DEF LoaderInit, Segments
<1>4. Segments # << >> => 1 <= Len(Segments)
  BY <1>1, Headers, EmptySeq
<1>5. /\ map \in [UserPages -> UserLeaves \cup {NoPage}]
      /\ \A p \in UserPages : ~ Mapped(p)
  BY DEF LoaderInit, Mapped
<1>6. memory \in [0 .. MaxFrames - 1 -> [Units -> Int \X Int]]
  BY DEF LoaderInit, Fresh
<1>7. regions \in Seq(Region) /\ segment = 1 /\ used_frames = 0
  BY DEF LoaderInit
<1>8. LoaderTypeOK
  <2>1. program \in Programs /\ frames \in FreeFrames
    BY DEF LoaderInit
  <2>2. segment \in 1 .. Len(Segments) + 1 /\ used_frames \in 0 .. frames
    BY <1>1, <1>2, <1>7
  <2>3. process_state = "NONE" /\ process_head = FALSE /\ fd_table = << >>
    BY DEF LoaderInit
  <2> QED
    BY <2>1, <2>2, <2>3, <1>3, <1>5, <1>6, <1>7 DEF LoaderTypeOK, Region
<1>9. Progress
  BY <1>3, <1>4, <1>7 DEF Progress
<1>10. FramesApart
  BY <1>5 DEF FramesApart, OnePagePerFrame, Mapped
<1> QED
  BY <1>8, <1>9, <1>10 DEF SafeInv

(* The end of the VM, and steps that leave the pages alone.                *)
LEMMA PagesKept ==
  ASSUME SafeInv, UNCHANGED <<program, frames, segment, regions, map, used_frames>>,
         stage' \in {"stack", "arguments", "insert", "scheduler", "crashed", "faulted"}
           \/ (stage = "copy" /\ stage' = "protect") \/ stage' = stage,
         memory' \in [0 .. MaxFrames - 1 -> [Units -> Int \X Int]],
         process_state' \in {"NONE", "READY", "RUNNING"}, process_head' \in BOOLEAN,
         fd_table' \in {<< >>, StandardFds(Pid)}
  PROVE  SafeInv'
<1>1. Segments' = Segments
  BY DEF Segments
<1>2. LoaderTypeOK'
  BY <1>1 DEF SafeInv, LoaderTypeOK
<1>3. FramesApart'
  BY DEF SafeInv, FramesApart, OnePagePerFrame, Mapped
<1>4. Progress'
  BY <1>1 DEF SafeInv, Progress, Mapped
<1> QED
  BY <1>2, <1>3, <1>4 DEF SafeInv

(* An mmap, of a segment or of the stack.                                  *)
LEMMA MapsSafe ==
  ASSUME SafeInv, NEW base \in Nat, NEW size \in Nat \ {0},
         MapsRange(base, size, "rw"),
         \/ stage' \in {"scheduler", "arguments"}
         \/ /\ stage' = "copy" /\ stage = "mmap"
            /\ base = Base(Segments[segment]) /\ size = LoadPages(Segments[segment])
  PROVE  SafeInv'
<1>1. UNCHANGED <<program, frames, segment, memory, process_state, process_head, fd_table>>
  BY DEF MapsRange
<1>2. Segments' = Segments
  BY <1>1 DEF Segments
<1>3. /\ map' \in [UserPages -> UserLeaves \cup {NoPage}]
      /\ used_frames' \in 0 .. frames /\ regions' \in Seq(Region)
      /\ FramesApart'
      /\ \A p \in base .. base + size - 1 : p \in UserPages /\ map'[p] # NoPage
  BY MapsApart DEF SafeInv
<1>4. stage' \in {"scheduler", "arguments", "copy"}
  OBVIOUS
<1>5. LoaderTypeOK'
  BY <1>1, <1>2, <1>3, <1>4 DEF SafeInv, LoaderTypeOK, Region
<1>6. Progress'
  <2>1. CASE stage' \in {"scheduler", "arguments"}
    BY <2>1 DEF Progress
  <2>2. CASE stage' = "copy"
    <3>1. segment' <= Len(Segments')
      BY <2>2, <1>1, <1>2 DEF SafeInv, Progress
    <3>2. base .. base + size - 1 = PagesOf(Segments[segment])'
      BY <2>2, <1>1, <1>2 DEF PagesOf, Base, LoadPages
    <3>3. LoadPages(Segments[segment])' > 0
      BY <2>2, <1>1, <1>2 DEF LoadPages
    <3> QED
      BY <2>2, <3>1, <3>2, <3>3, <1>3 DEF Progress, Mapped
  <2> QED
    BY <1>4, <2>1, <2>2
<1> QED
  BY <1>3, <1>5, <1>6 DEF SafeInv

(* Each stage of sys_execve, and schedule, preserves the invariant.        *)
LEMMA NextSafe == SafeInv /\ [LoaderNext]_loader => SafeInv'
<1> SUFFICES ASSUME SafeInv, [LoaderNext]_loader PROVE SafeInv'
  OBVIOUS
<1>0. LoaderTypeOK
  BY DEF SafeInv
<1>1. CASE UNCHANGED loader
  BY <1>1, <1>0, PagesKept DEF loader, LoaderTypeOK
<1>2. ASSUME Ends PROVE SafeInv'
  BY <1>2, <1>0, PagesKept DEF Ends, LoaderTypeOK
<1>3. CASE MmapSegment
  <2> DEFINE s == Segments[segment]
             next == IF Base(s) = 0 THEN "scheduler" ELSE "copy"
  <2>1. stage = "mmap"
    BY <1>3 DEF MmapSegment
  <2>2. Base(s) \in Nat /\ LoadPages(s) \in Nat
    BY <2>1, FirstPage DEF SafeInv
  <2>3. CASE LoadPages(s) = 0
    <3>1. /\ stage' = "scheduler"
          /\ UNCHANGED <<program, frames, segment, regions, map, used_frames,
                         memory, process_state, process_head, fd_table>>
      BY <1>3, <2>3 DEF MmapSegment
    <3> QED
      BY <3>1, <1>0, PagesKept DEF LoaderTypeOK
  <2>4. CASE LoadPages(s) # 0
    <3>1. MapPages(Base(s), LoadPages(s), "rw", next)
      BY <1>3, <2>4 DEF MmapSegment
    <3>2. Ends \/ (MapsRange(Base(s), LoadPages(s), "rw") /\ stage' = next)
      <4> HIDE DEF next, s
      <4> QED
        BY <3>1, <2>2, <1>0, MapOutcome
    <3>3. ASSUME MapsRange(Base(s), LoadPages(s), "rw"), stage' = next PROVE SafeInv'
      <4>1. LoadPages(s) \in Nat \ {0}
        BY <2>2, <2>4
      <4> QED
        BY <4>1, <2>1, <2>2, <3>3, MapsSafe
    <3> QED
      BY <3>2, <3>3, <1>2
  <2> QED
    BY <2>3, <2>4
<1>4. CASE CopySegment
  <2>1. memory' \in [0 .. MaxFrames - 1 -> [Units -> Int \X Int]]
    <3>1. ASSUME NEW f \in 0 .. MaxFrames - 1, NEW u \in Units
          PROVE  (IF CopiedTo(Segments[segment], f, u) = {} THEN memory[f][u]
                  ELSE <<segment, CHOOSE i \in CopiedTo(Segments[segment], f, u) : TRUE>>)
                 \in Int \X Int
      <4> DEFINE C == CopiedTo(Segments[segment], f, u)
      <4>1. C \subseteq Int
        <5>1. C \subseteq 0 .. Segments[segment].filesz - 1
          BY DEF CopiedTo
        <5>2. Segments[segment] \in Header
          BY <1>4, FirstPage DEF SafeInv, CopySegment
        <5> QED
          BY <5>1, <5>2 DEF Header
      <4>2. memory[f][u] \in Int \X Int
        BY <1>0 DEF LoaderTypeOK
      <4>3. segment \in Int
        BY <1>0, TypesOf
      <4> HIDE DEF C
      <4>4. C # {} => (CHOOSE i \in C : TRUE) \in Int
        BY <4>1
      <4> QED
        BY <4>2, <4>3, <4>4 DEF C
    <3>2. memory' = [f \in 0 .. MaxFrames - 1 |-> [u \in Units |->
                      IF CopiedTo(Segments[segment], f, u) = {} THEN memory[f][u]
                      ELSE <<segment, CHOOSE i \in CopiedTo(Segments[segment], f, u) : TRUE>>]]
      BY <1>4 DEF CopySegment
    <3> QED
      BY <3>1, <3>2
  <2> QED
    BY <2>1, <1>0, <1>4, PagesKept DEF CopySegment, LoaderTypeOK
<1>5. CASE ProtectSegment
  <2>1. /\ map' \in [UserPages -> UserLeaves \cup {NoPage}]
        /\ \A p \in UserPages : /\ map'[p].frame = map[p].frame
                                /\ map'[p] # NoPage <=> Mapped(p)
    BY <1>5, ProtectKeepsFrames
  <2>2. /\ UNCHANGED <<program, frames, regions, used_frames, memory,
                       process_state, process_head, fd_table>>
        /\ segment' = segment + 1
        /\ stage' = IF segment = Len(Segments) THEN "stack" ELSE "mmap"
    BY <1>5 DEF ProtectSegment
  <2>3. segment \in 1 .. Len(Segments) /\ Len(Segments) \in Nat
    BY <1>5, <1>0, FirstPage, TypesOf DEF SafeInv, ProtectSegment
  <2>4. Segments' = Segments
    BY <2>2 DEF Segments
  <2>5. segment' \in 1 .. Len(Segments) + 1 /\ (stage' = "mmap" => segment' <= Len(Segments))
    BY <2>2, <2>3
  <2>6. LoaderTypeOK'
    BY <2>1, <2>2, <2>4, <2>5, <1>0 DEF LoaderTypeOK
  <2>7. Progress'
    BY <2>2, <2>4, <2>5 DEF Progress
  <2>8. FramesApart'
    BY <2>1, <2>2 DEF SafeInv, FramesApart, OnePagePerFrame, Mapped
  <2> QED
    BY <2>6, <2>7, <2>8 DEF SafeInv
<1>6. CASE MmapStack
  <2>1. MapPages(StackBase - StackPages, StackPages, "rw", "arguments")
    BY <1>6 DEF MmapStack
  <2>2. StackBase - StackPages \in Nat /\ StackPages \in Nat \ {0}
    BY Sizes
  <2>3. Ends \/ (MapsRange(StackBase - StackPages, StackPages, "rw") /\ stage' = "arguments")
    BY <2>1, <2>2, <1>0, MapOutcome
  <2> QED
    BY <2>2, <2>3, <1>2, MapsSafe
<1>7. CASE BuildArguments
  <2> DEFINE f == map[StackBase - 1].frame
             w == UnitsPerPage - 1
             F == 0 .. MaxFrames - 1
  <2>1. memory' \in [F -> [Units -> Int \X Int]]
    <3>1. memory \in [F -> [Units -> Int \X Int]]
      BY <1>0 DEF LoaderTypeOK
    <3>2. memory' = [memory EXCEPT ![f][w] = Argument] /\ Argument \in Int \X Int
      BY <1>7 DEF BuildArguments, Argument
    <3> HIDE DEF f, w, F
    <3>3. ASSUME NEW g \in F PROVE memory'[g] \in [Units -> Int \X Int]
      <4>1. memory'[g] = IF g = f THEN [memory[g] EXCEPT ![w] = Argument] ELSE memory[g]
        BY <3>1, <3>2
      <4> QED
        BY <4>1, <3>1, <3>2
    <3>4. memory' = [g \in F |-> memory'[g]]
      BY <3>1, <3>2
    <3> QED
      BY <3>3, <3>4
  <2> QED
    BY <2>1, <1>0, <1>7, PagesKept DEF BuildArguments, LoaderTypeOK
<1>8. CASE InsertProcess
  BY <1>0, <1>8, PagesKept DEF InsertProcess, LoaderTypeOK
<1>9. CASE Schedule
  BY <1>0, <1>9, PagesKept DEF Schedule, LoaderTypeOK
<1> QED
  BY <1>1, <1>3, <1>4, <1>5, <1>6, <1>7, <1>8, <1>9 DEF LoaderNext

(* SafeInv holds of every behaviour.                                       *)
LEMMA Safe == LoaderSpec => []SafeInv
  BY InitSafe, NextSafe, PTL DEF LoaderSpec

(* Whatever the program, sys_execve keeps its state in range:              *)
(* load_executable is at a header there is or behind the last, no more     *)
(* frames are handed out than kframe_allocate_secure has, and every leaf   *)
(* names one of them.                                                      *)
THEOREM LoaderTypeCorrect == LoaderSpec => []LoaderTypeOK
<1>1. SafeInv => LoaderTypeOK
  BY DEF SafeInv
<1> QED
  BY <1>1, Safe, PTL

(* Whatever the program, no frame is behind two pages: generic_mmap takes  *)
(* a fresh frame for each page, and the frame that get_physical_address    *)
(* finds for the second page_table_map_user is the one the page already    *)
(* has.                                                                    *)
THEOREM FramesOnce == LoaderSpec => []OnePagePerFrame
<1>1. SafeInv => OnePagePerFrame
  BY DEF SafeInv, FramesApart
<1> QED
  BY <1>1, Safe, PTL

-----------------------------------------------------------------------------
(* The loader: a program the linker made is in place.                      *)

(* The page behind the last of segment k.                                  *)
Top(k) == Base(Segments[k]) + LoadPages(Segments[k])

(* The headers of a well-formed program.                                   *)
LEMMA WellFormedHeaders ==
  ASSUME program \in Programs, WellFormed, NEW k \in 1 .. Len(Segments)
  PROVE  /\ Segments[k] \in Header /\ Segments[k].vaddr % UnitsPerPage = 0
         /\ Segments[k].memsz > 0 /\ Segments[k].filesz <= Segments[k].memsz
         /\ Base(Segments[k]) \in Nat \ {0} /\ LoadPages(Segments[k]) \in Nat \ {0}
         /\ Top(k) \in Nat /\ Top(k) <= StackBase - StackPages
         /\ k < Len(Segments) => Top(k) <= Base(Segments[k + 1])
<1>1. Segments[k] \in Header /\ Segments[k].filesz <= Segments[k].memsz
  BY Headers
<1>2. /\ Segments[k].vaddr % UnitsPerPage = 0
      /\ Base(Segments[k]) > 0 /\ Segments[k].memsz > 0
      /\ Top(k) <= StackBase - StackPages
      /\ k < Len(Segments) => Top(k) <= Base(Segments[k + 1])
  BY DEF WellFormed, Top
<1>3. /\ Base(Segments[k]) \in Nat /\ LoadPages(Segments[k]) \in Nat
      /\ LoadPages(Segments[k]) > 0
  BY <1>1, <1>2, SegmentPages
<1> QED
  BY <1>1, <1>2, <1>3 DEF Top

(* What holds of neighbours holds of all: one segment ends before another  *)
(* begins.                                                                 *)
LEMMA SegmentsAscend ==
  ASSUME program \in Programs, WellFormed,
         NEW j \in 1 .. Len(Segments), NEW k \in 1 .. Len(Segments), j < k
  PROVE  Top(j) <= Base(Segments[k])
<1> DEFINE Wrong == {h \in 1 .. Len(Segments) : j < h /\ ~ (Top(j) <= Base(Segments[h]))}
<1>1. Len(Segments) \in Nat
  BY Headers
<1>2. Wrong \in SUBSET Nat
  BY <1>1
<1>3. ASSUME Wrong # {} PROVE FALSE
  <2> DEFINE h == First(Wrong)
  <2>1. h \in Wrong /\ \A i \in Wrong : h <= i
    <3> HIDE DEF Wrong
    <3> QED
      BY <1>2, <1>3, FirstIsLeast
  <2>2. /\ h \in 1 .. Len(Segments) /\ j < h /\ ~ (Top(j) <= Base(Segments[h]))
        /\ h - 1 \in 1 .. Len(Segments) /\ h - 1 < Len(Segments)
    BY <2>1, <1>1
  <2>3. h - 1 \notin Wrong
    <3>1. ~ (h <= h - 1)
      BY <2>2
    <3> HIDE DEF Wrong, h
    <3> QED
      BY <2>1, <3>1
  <2>4. Top(h - 1) <= Base(Segments[h])
    <3>1. h - 1 + 1 = h
      BY <2>2
    <3> HIDE DEF h
    <3> QED
      BY <2>2, <3>1, WellFormedHeaders
  <2>5. /\ Top(j) \in Nat /\ Top(h - 1) \in Nat /\ Base(Segments[h]) \in Nat
        /\ Base(Segments[h - 1]) \in Nat /\ Base(Segments[h - 1]) <= Top(h - 1)
    <3> HIDE DEF h
    <3>1. LoadPages(Segments[h - 1]) \in Nat /\ Base(Segments[h - 1]) \in Nat
      BY <2>2, WellFormedHeaders
    <3>2. Base(Segments[h - 1]) <= Top(h - 1) /\ Top(h - 1) \in Nat
      BY <3>1 DEF Top
    <3>3. Top(j) \in Nat
      BY WellFormedHeaders
    <3>4. Base(Segments[h]) \in Nat
      BY <2>2, WellFormedHeaders
    <3> QED
      BY <3>1, <3>2, <3>3, <3>4
  <2>6. CASE h - 1 = j
    BY <2>2, <2>4, <2>6
  <2>7. CASE h - 1 # j
    <3>1. Top(j) <= Base(Segments[h - 1])
      BY <2>2, <2>3, <2>7
    <3> HIDE DEF h
    <3> QED
      BY <3>1, <2>2, <2>4, <2>5
  <2> QED
    BY <2>6, <2>7
<1> QED
  BY <1>3

(* A page of a well-formed program belongs to one segment, or to the stack.*)
LEMMA PagesDisjoint ==
  ASSUME program \in Programs, WellFormed, NEW k \in 1 .. Len(Segments),
         NEW p \in PagesOf(Segments[k])
  PROVE  /\ p \in UserPages /\ p \notin StackRange
         /\ \A j \in 1 .. Len(Segments) : j # k => p \notin PagesOf(Segments[j])
<1>1. /\ Base(Segments[k]) \in Nat /\ LoadPages(Segments[k]) \in Nat
      /\ Top(k) <= StackBase - StackPages /\ Top(k) \in Nat
  BY WellFormedHeaders
<1>2. p \in Nat /\ p >= Base(Segments[k]) /\ p < Top(k)
  BY <1>1 DEF PagesOf, Top
<1>3. p \in UserPages /\ p \notin StackRange
  BY <1>1, <1>2, Sizes DEF UserPages, StackRange
<1>4. ASSUME NEW j \in 1 .. Len(Segments), j # k, p \in PagesOf(Segments[j])
      PROVE  FALSE
  <2>1. /\ Base(Segments[j]) \in Nat /\ LoadPages(Segments[j]) \in Nat /\ Top(j) \in Nat
    BY WellFormedHeaders
  <2>2. p >= Base(Segments[j]) /\ p < Top(j)
    BY <2>1, <1>4 DEF PagesOf, Top
  <2>3. j < k \/ k < j
    BY <1>4, Headers
  <2>4. Top(j) <= Base(Segments[k]) \/ Top(k) <= Base(Segments[j])
    BY <2>3, SegmentsAscend
  <2> QED
    BY <1>1, <1>2, <2>1, <2>2, <2>4
<1> QED
  BY <1>3, <1>4

(* Where a unit of the file of a segment is to be.                         *)
PageOfUnit(k, u) == Base(Segments[k]) + PageDown(u)

(* It is on a page of the segment.                                         *)
LEMMA UnitsInPages ==
  ASSUME program \in Programs, WellFormed, NEW k \in 1 .. Len(Segments),
         NEW u \in 0 .. Segments[k].filesz - 1
  PROVE  /\ PageOfUnit(k, u) \in PagesOf(Segments[k])
         /\ u % UnitsPerPage \in Units /\ PageDown(u) \in Nat /\ u \in Nat
<1>1. /\ Segments[k] \in Header /\ Segments[k].filesz <= Segments[k].memsz
      /\ Base(Segments[k]) \in Nat /\ LoadPages(Segments[k]) \in Nat
  BY WellFormedHeaders
<1>2. Segments[k].filesz \in Nat /\ Segments[k].memsz \in Nat
  BY <1>1 DEF Header
<1>3. u \in 0 .. Segments[k].memsz - 1 /\ u \in Nat
  BY <1>1, <1>2
<1>4. PageDown(u) \in 0 .. LoadPages(Segments[k]) - 1 /\ u % UnitsPerPage \in Units
  BY <1>1, <1>3, SegmentPages
<1> QED
  BY <1>1, <1>3, <1>4 DEF PageOfUnit, PagesOf

(* The regions of segment k and of the stack.                              *)
RegionOf(k) == [base |-> Base(Segments[k]), size |-> LoadPages(Segments[k])]
StackRegion == [base |-> StackBase - StackPages, size |-> StackPages]

(* The list has a region for each of the first m segments, in order, and   *)
(* one for the stack behind them.                                          *)
RegionsAre(m, stack) ==
  /\ Len(regions) = m + IF stack THEN 1 ELSE 0
  /\ \A k \in 1 .. m : regions[k] = RegionOf(k)
  /\ stack => regions[m + 1] = StackRegion

(* Their pages and no others are mapped, and can be written if they have   *)
(* to be.                                                                  *)
PagesAre(m, stack) ==
  /\ \A p \in UserPages :
       Mapped(p) <=> \/ \E k \in 1 .. m : p \in PagesOf(Segments[k])
                     \/ stack /\ p \in StackRange
  /\ \A k \in 1 .. m : "W" \in Segments[k].flags =>
       \A p \in PagesOf(Segments[k]) : map[p].access = "rw"
  /\ stack => \A p \in StackRange : map[p].access = "rw"

(* And the first m have their files in them.                               *)
InPlaceSoFar(m) ==
  \A k \in 1 .. m : \A u \in 0 .. Segments[k].filesz - 1 :
    memory[map[PageOfUnit(k, u)].frame][u % UnitsPerPage] = <<k, u>>

(* The argument that create_new_process writes is on top of the stack.     *)
ArgumentsInPlace == memory[map[StackBase - 1].frame][UnitsPerPage - 1] = Argument

(* m segments are mapped, n of them copied, and the stack mapped or not.   *)
Loaded(m, stack, n) == RegionsAre(m, stack) /\ PagesAre(m, stack) /\ InPlaceSoFar(n)

(* How much is loaded at each stage of a well-formed program's way.        *)
StageLoaded ==
  /\ \A m \in 0 .. Len(Segments) :
       /\ stage = "mmap" /\ segment = m + 1 => Loaded(m, FALSE, m)
       /\ stage = "copy" /\ segment = m + 1 => Loaded(m + 1, FALSE, m)
       /\ stage = "protect" /\ segment = m => Loaded(m, FALSE, m)
       /\ m = Len(Segments) =>
            /\ stage = "stack" => Loaded(m, FALSE, m)
            /\ stage \in {"arguments", "insert", "scheduler"} => Loaded(m, TRUE, m)
  /\ stage \in {"insert", "scheduler"} => ArgumentsInPlace
  /\ process_state # "NONE" => stage = "scheduler"

(* The invariant of the programs a linker makes.                           *)
LoadedInv ==
  WellFormed /\ stage \notin {"crashed", "faulted"} => StageLoaded

(* A region above all others goes to the end of the list.                  *)
LEMMA InsertedLast ==
  ASSUME NEW list \in Seq(Region), NEW r \in Region,
         \A k \in 1 .. Len(list) : End(list[k]) <= r.base
  PROVE  Inserted(list, r) = IF list = << >> THEN <<r>> ELSE Append(list, r)
<1>1. Len(list) \in Nat /\ \A k \in 1 .. Len(list) : list[k] \in Region
  BY LenProperties, ElementOfSeq
<1>2. ASSUME NEW k \in Openings(list, r) PROVE FALSE
  <2>1. k \in 1 .. Len(list) /\ k + 1 \in 1 .. Len(list)
    BY <1>1 DEF Openings
  <2>2. IsAbove(list, r, k) \/ IsGapFor(list, r, k)
    BY DEF Openings
  <2>3. /\ list[k] \in Region /\ list[k + 1] \in Region
        /\ End(list[k]) <= r.base /\ End(list[k + 1]) <= r.base
    BY <1>1, <2>1
  <2>4. \A x \in Region : x.base \in Nat /\ x.size \in Nat /\ x.size > 0
    BY DEF Region
  <2>5. ~ (list[k].base > r.base)
    BY <2>3, <2>4 DEF End
  <2>6. ~ (End(r) < list[k + 1].base)
    BY <2>3, <2>4 DEF End
  <2> QED
    BY <2>2, <2>5, <2>6 DEF IsAbove, IsGapFor
<1>3. Openings(list, r) = {}
  BY <1>2
<1>4. CASE list = << >>
  BY <1>3, <1>4, Zenon DEF Inserted
<1>5. CASE list # << >>
  <2>1. Len(list) \in 1 .. Len(list)
    BY <1>1, <1>5, EmptySeq
  <2>2. End(list[Len(list)]) <= r.base
    BY <2>1
  <2> QED
    BY <1>3, <1>5, <2>2, Zenon DEF Inserted
<1> QED
  BY <1>4, <1>5

(* mmap above all regions leaves the list as it is and adds one region.    *)
LEMMA RegionAppended ==
  ASSUME regions \in Seq(Region), NEW base \in Nat, NEW size \in Nat \ {0},
         MapsRange(base, size, "rw"),
         \A k \in 1 .. Len(regions) : End(regions[k]) <= base
  PROVE  /\ Len(regions') = Len(regions) + 1
         /\ \A k \in 1 .. Len(regions) : regions'[k] = regions[k]
         /\ regions'[Len(regions) + 1] = [base |-> base, size |-> size]
<1> DEFINE r == [base |-> base, size |-> size]
<1>1. r \in Region /\ r.base = base
  BY DEF Region
<1>2. CASE regions = << >>
  BY <1>2 DEF MapsRange
<1>3. CASE regions # << >>
  <2>1. regions' = <<Head(regions)>> \o Inserted(Tail(regions), r)
    BY <1>3 DEF MapsRange
  <2>2. /\ Head(regions) \in Region /\ Tail(regions) \in Seq(Region)
        /\ Len(regions) \in Nat /\ Len(Tail(regions)) = Len(regions) - 1
        /\ \A k \in 1 .. Len(Tail(regions)) : Tail(regions)[k] = regions[k + 1]
    BY <1>3, HeadTailProperties, LenProperties
  <2> HIDE DEF r
  <2>3. ASSUME NEW k \in 1 .. Len(Tail(regions)) PROVE End(Tail(regions)[k]) <= r.base
    <3>1. k + 1 \in 1 .. Len(regions) /\ Tail(regions)[k] = regions[k + 1]
      BY <2>2
    <3> QED
      BY <3>1, <1>1
  <2>4. Inserted(Tail(regions), r) =
          IF Tail(regions) = << >> THEN <<r>> ELSE Append(Tail(regions), r)
    BY <1>1, <2>2, <2>3, InsertedLast
  <2> DEFINE t == Tail(regions)
             T == Inserted(t, r)
  <2>5. /\ T \in Seq(Region) /\ Len(T) = Len(t) + 1
        /\ \A k \in 1 .. Len(t) : T[k] = t[k]
        /\ T[Len(t) + 1] = r
    <3>1. CASE t = << >>
      <4>1. T = <<r>> /\ Len(t) = 0
        BY <3>1, <2>4
      <4> HIDE DEF T, t
      <4> QED
        BY <4>1, <1>1
    <3>2. CASE t # << >>
      <4>1. T = Append(t, r) /\ t \in Seq(Region)
        BY <3>2, <2>2, <2>4
      <4> HIDE DEF T, t
      <4> QED
        BY <4>1, <1>1, AppendProperties
    <3> QED
      BY <3>1, <3>2
  <2> HIDE DEF T
  <2>6. regions' = <<Head(regions)>> \o T
    BY <2>1 DEF T
  <2>7. /\ <<Head(regions)>> \in Seq(Region) /\ Len(<<Head(regions)>>) = 1
        /\ <<Head(regions)>>[1] = regions[1]
    BY <2>2, <1>3
  <2>8. /\ Len(regions') = 1 + Len(T)
        /\ \A k \in 1 .. 1 + Len(T) :
             regions'[k] = IF k <= 1 THEN <<Head(regions)>>[k] ELSE T[k - 1]
    BY <2>5, <2>6, <2>7, ConcatProperties, SMTT(30)
  <2>9. Len(T) = Len(regions)
    BY <2>2, <2>5
  <2>10. ASSUME NEW k \in 1 .. Len(regions) PROVE regions'[k] = regions[k]
    <3>1. CASE k = 1
      BY <3>1, <2>2, <2>7, <2>8, <2>9
    <3>2. CASE k # 1
      <4>1. k - 1 \in 1 .. Len(t) /\ (k - 1) + 1 = k /\ ~ (k <= 1)
        BY <3>2, <2>2
      <4>2. regions'[k] = T[k - 1] /\ T[k - 1] = t[k - 1] /\ t[k - 1] = regions[k]
        BY <4>1, <2>2, <2>5, <2>8, <2>9
      <4> QED
        BY <4>2
    <3> QED
      BY <3>1, <3>2
  <2>11. regions'[Len(regions) + 1] = r
    <3>1. /\ Len(regions) + 1 \in 1 .. 1 + Len(T) /\ ~ (Len(regions) + 1 <= 1)
          /\ Len(regions) + 1 - 1 = Len(t) + 1
      BY <2>2, <2>9, <1>3, EmptySeq
    <3> QED
      BY <3>1, <2>5, <2>8
  <2> QED
    BY <2>8, <2>9, <2>10, <2>11, <2>2 DEF r
<1> QED
  BY <1>2, <1>3

(* What is in place stays there when other pages get frames.               *)
LEMMA FilesKept ==
  ASSUME program \in Programs, WellFormed, UNCHANGED <<program, memory>>,
         NEW n \in 0 .. Len(Segments), InPlaceSoFar(n),
         \A k \in 1 .. n : \A p \in PagesOf(Segments[k]) :
           map'[p].frame = map[p].frame
  PROVE  InPlaceSoFar(n)'
<1>1. Segments' = Segments
  BY DEF Segments
<1>2. SUFFICES ASSUME NEW k \in 1 .. n, NEW u \in 0 .. Segments[k].filesz - 1
               PROVE  memory'[map'[PageOfUnit(k, u)].frame][u % UnitsPerPage] = <<k, u>>
  BY <1>1 DEF InPlaceSoFar, PageOfUnit, Base
<1>3. k \in 1 .. Len(Segments)
  BY Headers
<1>4. PageOfUnit(k, u) \in PagesOf(Segments[k])
  BY <1>3, UnitsInPages
<1>5. memory[map[PageOfUnit(k, u)].frame][u % UnitsPerPage] = <<k, u>>
  BY DEF InPlaceSoFar
<1> QED
  BY <1>4, <1>5

(* A segment gets its region and its pages.                                *)
LEMMA SegmentMapped ==
  ASSUME SafeInv, WellFormed, NEW m \in 0 .. Len(Segments) - 1,
         Loaded(m, FALSE, m),
         MapsRange(Base(Segments[m + 1]), LoadPages(Segments[m + 1]), "rw")
  PROVE  Loaded(m + 1, FALSE, m)'
<1> DEFINE s == Segments[m + 1]
<1>1. /\ program \in Programs /\ Len(Segments) \in Nat
      /\ regions \in Seq(Region) /\ map \in [UserPages -> UserLeaves \cup {NoPage}]
  BY TypesOf DEF SafeInv
<1>2. m + 1 \in 1 .. Len(Segments) /\ m \in Nat
  BY <1>1
<1>3. Base(s) \in Nat /\ LoadPages(s) \in Nat \ {0}
  BY <1>1, <1>2, WellFormedHeaders
<1>4. UNCHANGED <<program, memory>> /\ Segments' = Segments
  BY DEF MapsRange, Segments
<1>5. Len(regions) = m /\ \A k \in 1 .. m : regions[k] = RegionOf(k)
  BY <1>2 DEF Loaded, RegionsAre
<1>6. ASSUME NEW k \in 1 .. m
      PROVE  /\ k \in 1 .. Len(Segments) /\ Top(k) <= Base(s)
             /\ PagesOf(Segments[k]) \subseteq UserPages
             /\ PagesOf(Segments[k]) \cap PagesOf(s) = {}
  <2>1. k \in 1 .. Len(Segments) /\ k < m + 1 /\ k # m + 1
    BY <1>1, <1>2
  <2> QED
    BY <1>1, <1>2, <2>1, SegmentsAscend, PagesDisjoint
<1>7. \A k \in 1 .. Len(regions) : End(regions[k]) <= Base(s)
  BY <1>5, <1>6 DEF End, RegionOf, Top
<1>8. /\ Len(regions') = m + 1
      /\ \A k \in 1 .. m : regions'[k] = regions[k]
      /\ regions'[m + 1] = [base |-> Base(s), size |-> LoadPages(s)]
  <2> HIDE DEF s
  <2>1. MapsRange(Base(s), LoadPages(s), "rw")
    BY DEF s
  <2> QED
    BY <1>1, <1>3, <1>5, <1>7, <2>1, RegionAppended
<1>9. RegionsAre(m + 1, FALSE)'
  <2>1. ASSUME NEW k \in 1 .. m + 1 PROVE regions'[k] = RegionOf(k)
    <3>1. CASE k = m + 1
      BY <3>1, <1>8 DEF RegionOf
    <3>2. CASE k \in 1 .. m
      BY <3>2, <1>5, <1>8
    <3> QED
      BY <3>1, <3>2, <1>2
  <2>2. \A k \in 1 .. m + 1 : regions'[k] = RegionOf(k)'
    BY <2>1, <1>4 DEF RegionOf, Base, LoadPages
  <2> QED
    BY <2>2, <1>2, <1>8 DEF RegionsAre
<1>10. /\ \A p \in PagesOf(s) : p \in UserPages /\ map'[p] # NoPage /\ map'[p].access = "rw"
       /\ \A p \in UserPages \ PagesOf(s) : map'[p] = map[p]
  <2>1. PagesOf(s) = Base(s) .. Base(s) + LoadPages(s) - 1
    BY DEF PagesOf
  <2>2. LoaderTypeOK /\ FramesApart
    BY DEF SafeInv
  <2> HIDE DEF s
  <2>3. MapsRange(Base(s), LoadPages(s), "rw")
    BY DEF s
  <2>4. /\ \A p \in Base(s) .. Base(s) + LoadPages(s) - 1 :
             p \in UserPages /\ map'[p] # NoPage /\ map'[p].access = "rw"
        /\ \A p \in UserPages \ (Base(s) .. Base(s) + LoadPages(s) - 1) : map'[p] = map[p]
    BY <1>3, <2>2, <2>3, MapsApart
  <2> QED
    BY <2>1, <2>4
<1>11. ASSUME NEW k \in 1 .. m, NEW p \in PagesOf(Segments[k])
       PROVE  map'[p] = map[p]
  BY <1>6, <1>10
<1> HIDE DEF s
<1>12. PagesAre(m + 1, FALSE)'
  <2>1. ASSUME NEW p \in UserPages
        PROVE  map'[p] # NoPage <=> \E k \in 1 .. m + 1 : p \in PagesOf(Segments[k])
    <3>1. CASE p \in PagesOf(s)
      BY <3>1, <1>2, <1>10 DEF s
    <3>2. CASE p \notin PagesOf(s)
      <4>1. map[p] # NoPage <=> \E k \in 1 .. m : p \in PagesOf(Segments[k])
        BY DEF Loaded, PagesAre, Mapped
      <4>2. map'[p] = map[p]
        BY <3>2, <1>10
      <4>3. \A k \in 1 .. m + 1 : k \in 1 .. m \/ k = m + 1
        BY <1>2
      <4>4. 1 .. m \subseteq 1 .. m + 1
        BY <1>2
      <4>5. p \notin PagesOf(Segments[m + 1])
        BY <3>2 DEF s
      <4> QED
        BY <4>1, <4>2, <4>3, <4>4, <4>5
    <3> QED
      BY <3>1, <3>2
  <2>2. ASSUME NEW k \in 1 .. m + 1, "W" \in Segments[k].flags, NEW p \in PagesOf(Segments[k])
        PROVE  map'[p].access = "rw"
    <3>1. CASE k = m + 1
      BY <3>1, <1>10 DEF s
    <3>2. CASE k \in 1 .. m
      <4>1. map[p].access = "rw"
        BY <2>2, <3>2 DEF Loaded, PagesAre
      <4> QED
        BY <4>1, <3>2, <1>11
    <3> QED
      BY <3>1, <3>2, <1>2
  <2>3. \A k : PagesOf(Segments[k])' = PagesOf(Segments[k])
    BY <1>4 DEF PagesOf, Base, LoadPages
  <2> QED
    BY <2>1, <2>2, <2>3, <1>4 DEF PagesAre, Mapped, StackRange
<1>13. InPlaceSoFar(m)'
  <2>1. m \in 0 .. Len(Segments) /\ InPlaceSoFar(m)
    BY <1>1, <1>2 DEF Loaded
  <2> QED
    BY <2>1, <1>1, <1>4, <1>11, FilesKept
<1> QED
  BY <1>9, <1>12, <1>13 DEF Loaded

(* The stack gets its region and its pages.                                *)
LEMMA StackIsMapped ==
  ASSUME SafeInv, WellFormed, NEW n \in Nat, n = Len(Segments), Loaded(n, FALSE, n),
         MapsRange(StackBase - StackPages, StackPages, "rw")
  PROVE  Loaded(n, TRUE, n)'
<1> DEFINE base == StackBase - StackPages
<1>1. /\ program \in Programs /\ regions \in Seq(Region)
      /\ map \in [UserPages -> UserLeaves \cup {NoPage}]
  BY TypesOf DEF SafeInv
<1>2. base \in Nat /\ StackPages \in Nat \ {0} /\ base + StackPages - 1 = StackBase - 1
  BY Sizes
<1>3. UNCHANGED <<program, memory>> /\ Segments' = Segments
  BY DEF MapsRange, Segments
<1>4. Len(regions) = n /\ \A k \in 1 .. n : regions[k] = RegionOf(k)
  BY DEF Loaded, RegionsAre
<1>5. ASSUME NEW k \in 1 .. n
      PROVE  /\ Top(k) <= base
             /\ PagesOf(Segments[k]) \subseteq UserPages
             /\ PagesOf(Segments[k]) \cap StackRange = {}
  BY <1>1, WellFormedHeaders, PagesDisjoint
<1>6. \A k \in 1 .. Len(regions) : End(regions[k]) <= base
  <2>1. \A k : End(RegionOf(k)) = Top(k)
    BY DEF End, RegionOf, Top
  <2> HIDE DEF base
  <2> QED
    BY <1>4, <1>5, <2>1
<1> HIDE DEF base
<1>7. MapsRange(base, StackPages, "rw")
  BY DEF base
<1>8. /\ Len(regions') = n + 1
      /\ \A k \in 1 .. n : regions'[k] = regions[k]
      /\ regions'[n + 1] = [base |-> base, size |-> StackPages]
  BY <1>1, <1>2, <1>4, <1>6, <1>7, RegionAppended
<1>9. RegionsAre(n, TRUE)'
  <2>1. \A k \in 1 .. n : regions'[k] = RegionOf(k)'
    BY <1>3, <1>4, <1>8 DEF RegionOf, Base, LoadPages
  <2> QED
    BY <2>1, <1>8 DEF RegionsAre, StackRegion, base
<1>10. /\ \A p \in StackRange : p \in UserPages /\ map'[p] # NoPage /\ map'[p].access = "rw"
       /\ \A p \in UserPages \ StackRange : map'[p] = map[p]
  <2>1. StackRange = base .. base + StackPages - 1
    BY <1>2 DEF StackRange, base
  <2>2. LoaderTypeOK /\ FramesApart
    BY DEF SafeInv
  <2>3. /\ \A p \in base .. base + StackPages - 1 :
             p \in UserPages /\ map'[p] # NoPage /\ map'[p].access = "rw"
        /\ \A p \in UserPages \ (base .. base + StackPages - 1) : map'[p] = map[p]
    BY <1>2, <1>7, <2>2, MapsApart
  <2> QED
    BY <2>1, <2>3
<1>11. ASSUME NEW k \in 1 .. n, NEW p \in PagesOf(Segments[k])
       PROVE  map'[p] = map[p]
  BY <1>5, <1>10
<1>12. PagesAre(n, TRUE)'
  <2>1. ASSUME NEW p \in UserPages
        PROVE  map'[p] # NoPage <=>
                 (\E k \in 1 .. n : p \in PagesOf(Segments[k])) \/ p \in StackRange
    <3>1. CASE p \in StackRange
      BY <3>1, <1>10
    <3>2. CASE p \notin StackRange
      <4>1. map[p] # NoPage <=> \E k \in 1 .. n : p \in PagesOf(Segments[k])
        BY DEF Loaded, PagesAre, Mapped
      <4> QED
        BY <4>1, <3>2, <1>10
    <3> QED
      BY <3>1, <3>2
  <2>2. ASSUME NEW k \in 1 .. n, "W" \in Segments[k].flags, NEW p \in PagesOf(Segments[k])
        PROVE  map'[p].access = "rw"
    <3>1. map[p].access = "rw"
      BY <2>2 DEF Loaded, PagesAre
    <3> QED
      BY <3>1, <1>11
  <2>3. \A k : PagesOf(Segments[k])' = PagesOf(Segments[k])
    BY <1>3 DEF PagesOf, Base, LoadPages
  <2> QED
    BY <2>1, <2>2, <2>3, <1>3, <1>10 DEF PagesAre, Mapped, StackRange
<1>13. InPlaceSoFar(n)'
  <2>1. n \in 0 .. Len(Segments) /\ InPlaceSoFar(n)
    BY DEF Loaded
  <2> QED
    BY <2>1, <1>1, <1>3, <1>11, FilesKept
<1> QED
  BY <1>9, <1>12, <1>13 DEF Loaded

(* The pages and the regions do not depend on what the memory holds.       *)
LEMMA PagesAreKept ==
  ASSUME UNCHANGED <<program, regions, map>>, NEW m, NEW stack,
         RegionsAre(m, stack), PagesAre(m, stack)
  PROVE  RegionsAre(m, stack)' /\ PagesAre(m, stack)'
<1>1. Segments' = Segments
  BY DEF Segments
<1>2. \A k : RegionOf(k)' = RegionOf(k) /\ PagesOf(Segments[k])' = PagesOf(Segments[k])
  BY <1>1 DEF RegionOf, PagesOf, Base, LoadPages
<1> QED
  BY <1>1, <1>2 DEF RegionsAre, PagesAre, Mapped, StackRange

(* The copy writes the segment's pages and, as no frame is behind two      *)
(* pages, no others.                                                       *)
LEMMA SegmentCopied ==
  ASSUME SafeInv, WellFormed, CopySegment, NEW m \in 1 .. Len(Segments), m = segment,
         Loaded(m, FALSE, m - 1)
  PROVE  Loaded(m, FALSE, m)'
<1> DEFINE s == Segments[m]
<1>1. /\ program \in Programs /\ Len(Segments) \in Nat
      /\ \A p \in UserPages : Mapped(p) => map[p].frame \in 0 .. MaxFrames - 1
  BY TypesOf DEF SafeInv
<1>2. memory' = [f \in 0 .. MaxFrames - 1 |-> [u \in Units |->
                   IF CopiedTo(s, f, u) = {} THEN memory[f][u]
                   ELSE <<m, CHOOSE i \in CopiedTo(s, f, u) : TRUE>>]]
  BY DEF CopySegment
<1>3. UNCHANGED <<program, regions, map>> /\ Segments' = Segments
  BY DEF CopySegment, Segments
<1>4. RegionsAre(m, FALSE)' /\ PagesAre(m, FALSE)'
  BY <1>3, PagesAreKept DEF Loaded
<1>5. ASSUME NEW k \in 1 .. m, NEW u \in 0 .. Segments[k].filesz - 1
      PROVE  /\ k \in 1 .. Len(Segments)
             /\ PageOfUnit(k, u) \in PagesOf(Segments[k])
             /\ PageOfUnit(k, u) \in UserPages /\ Mapped(PageOfUnit(k, u))
             /\ u % UnitsPerPage \in Units /\ PageDown(u) \in Nat /\ u \in Nat
  <2>1. k \in 1 .. Len(Segments)
    BY <1>1
  <2>2. /\ PageOfUnit(k, u) \in PagesOf(Segments[k])
        /\ u % UnitsPerPage \in Units /\ PageDown(u) \in Nat /\ u \in Nat
    BY <1>1, <2>1, UnitsInPages
  <2>3. PageOfUnit(k, u) \in UserPages
    BY <1>1, <2>1, <2>2, PagesDisjoint
  <2>4. Mapped(PageOfUnit(k, u))
    BY <2>2, <2>3 DEF Loaded, PagesAre
  <2> QED
    BY <2>1, <2>2, <2>3, <2>4
<1>6. ASSUME NEW p \in UserPages, NEW q \in UserPages, Mapped(p), Mapped(q),
             map[p].frame = map[q].frame
      PROVE  p = q
  BY <1>6 DEF SafeInv, FramesApart, OnePagePerFrame, Mapped
<1>7. m \in 1 .. m
  BY <1>1
<1>8. \A f, w : CopiedTo(s, f, w) =
        {i \in 0 .. s.filesz - 1 : map[PageOfUnit(m, i)].frame = f /\ i % UnitsPerPage = w}
  BY DEF CopiedTo, PageOfUnit
<1>9. ASSUME NEW u \in 0 .. s.filesz - 1
      PROVE  CopiedTo(s, map[PageOfUnit(m, u)].frame, u % UnitsPerPage) = {u}
  <2> DEFINE f == map[PageOfUnit(m, u)].frame
             w == u % UnitsPerPage
  <2>1. u \in CopiedTo(s, f, w)
    BY <1>8
  <2>2. ASSUME NEW i \in CopiedTo(s, f, w) PROVE i = u
    <3>1. i \in 0 .. s.filesz - 1 /\ map[PageOfUnit(m, i)].frame = f /\ i % UnitsPerPage = w
      BY <1>8
    <3>2. PageOfUnit(m, i) = PageOfUnit(m, u)
      BY <1>5, <1>6, <1>7, <3>1
    <3>3. PageDown(i) = PageDown(u) /\ i \in Nat /\ u \in Nat
      <4>1. /\ PageDown(i) \in Nat /\ PageDown(u) \in Nat /\ i \in Nat /\ u \in Nat
            /\ Base(s) \in Nat
        BY <1>1, <1>5, <1>7, <3>1, WellFormedHeaders
      <4> QED
        BY <3>2, <4>1 DEF PageOfUnit
    <3>4. i = PageDown(i) * UnitsPerPage + (i % UnitsPerPage)
      BY <3>3, Sizes, Division DEF PageDown
    <3>5. u = PageDown(u) * UnitsPerPage + (u % UnitsPerPage)
      BY <3>3, Sizes, Division DEF PageDown
    <3> QED
      BY <3>1, <3>3, <3>4, <3>5
  <2> QED
    BY <2>1, <2>2
<1>10. ASSUME NEW k \in 1 .. m - 1, NEW u \in 0 .. Segments[k].filesz - 1
       PROVE  CopiedTo(s, map[PageOfUnit(k, u)].frame, u % UnitsPerPage) = {}
  <2> SUFFICES ASSUME NEW i \in CopiedTo(s, map[PageOfUnit(k, u)].frame, u % UnitsPerPage)
               PROVE  FALSE
    OBVIOUS
  <2>1. k \in 1 .. m /\ k # m
    BY <1>1
  <2>2. i \in 0 .. s.filesz - 1 /\ map[PageOfUnit(m, i)].frame = map[PageOfUnit(k, u)].frame
    BY <1>8
  <2>3. PageOfUnit(m, i) = PageOfUnit(k, u)
    BY <1>5, <1>6, <1>7, <2>1, <2>2
  <2>4. PageOfUnit(m, i) \in PagesOf(s) /\ PageOfUnit(k, u) \in PagesOf(Segments[k])
        /\ k \in 1 .. Len(Segments)
    BY <1>5, <1>7, <2>1, <2>2
  <2> QED
    BY <1>1, <2>1, <2>3, <2>4, PagesDisjoint
<1>11. ASSUME NEW k \in 1 .. m, NEW u \in 0 .. Segments[k].filesz - 1
       PROVE  memory'[map[PageOfUnit(k, u)].frame][u % UnitsPerPage] = <<k, u>>
  <2> DEFINE f == map[PageOfUnit(k, u)].frame
             w == u % UnitsPerPage
  <2>1. f \in 0 .. MaxFrames - 1 /\ w \in Units
    BY <1>1, <1>5
  <2> HIDE DEF f, w, s
  <2>2. memory'[f][w] = IF CopiedTo(s, f, w) = {} THEN memory[f][w]
                        ELSE <<m, CHOOSE i \in CopiedTo(s, f, w) : TRUE>>
    BY <1>2, <2>1
  <2>3. CASE k = m
    <3>1. CopiedTo(s, f, w) = {u}
      BY <2>3, <1>9 DEF f, w, s
    <3>2. (CHOOSE i \in {u} : TRUE) = u
      OBVIOUS
    <3> QED
      BY <2>2, <2>3, <3>1, <3>2 DEF f, w
  <2>4. CASE k # m
    <3>1. k \in 1 .. m - 1
      BY <2>4, <1>1
    <3>2. CopiedTo(s, f, w) = {}
      BY <3>1, <1>10 DEF f, w, s
    <3>3. memory[f][w] = <<k, u>>
      BY <3>1 DEF f, w, Loaded, InPlaceSoFar
    <3> QED
      BY <2>2, <3>2, <3>3 DEF f, w
  <2> QED
    BY <2>3, <2>4
<1>12. InPlaceSoFar(m)'
  BY <1>3, <1>11 DEF InPlaceSoFar, PageOfUnit, Base
<1> QED
  BY <1>4, <1>12 DEF Loaded

(* The first page keeps its frame and may be written if it has to be.      *)
LEMMA SegmentProtected ==
  ASSUME SafeInv, WellFormed, ProtectSegment, NEW m \in 1 .. Len(Segments), m = segment,
         Loaded(m, FALSE, m)
  PROVE  Loaded(m, FALSE, m)'
<1> DEFINE b == Base(Segments[m])
<1>1. program \in Programs /\ Len(Segments) \in Nat
  BY TypesOf DEF SafeInv
<1>2. UNCHANGED <<program, regions, memory>> /\ Segments' = Segments
  BY DEF ProtectSegment, Segments
<1>3. /\ \A p \in UserPages : /\ map'[p].frame = map[p].frame
                              /\ map'[p] # NoPage <=> Mapped(p)
                              /\ p # b => map'[p] = map[p]
      /\ map'[b].access = Access(Segments[m].flags)
  BY ProtectKeepsFrames
<1>4. b \in PagesOf(Segments[m])
  <2>1. b \in Nat /\ LoadPages(Segments[m]) \in Nat \ {0}
    BY <1>1, WellFormedHeaders
  <2> QED
    BY <2>1 DEF PagesOf
<1>5. ASSUME NEW k \in 1 .. m
      PROVE  k \in 1 .. Len(Segments) /\ PagesOf(Segments[k]) \subseteq UserPages
  BY <1>1, PagesDisjoint
<1> HIDE DEF b
<1>6. \A k : RegionOf(k)' = RegionOf(k) /\ PagesOf(Segments[k])' = PagesOf(Segments[k])
  BY <1>2 DEF RegionOf, PagesOf, Base, LoadPages
<1>7. RegionsAre(m, FALSE)'
  BY <1>2, <1>6 DEF Loaded, RegionsAre
<1>8. PagesAre(m, FALSE)'
  <2>1. ASSUME NEW k \in 1 .. m, "W" \in Segments[k].flags, NEW p \in PagesOf(Segments[k])
        PROVE  map'[p].access = "rw"
    <3>1. p \in UserPages /\ map[p].access = "rw"
      BY <1>5, <2>1 DEF Loaded, PagesAre
    <3>2. CASE p # b
      BY <3>1, <3>2, <1>3
    <3>3. CASE p = b
      <4>1. k = m
        BY <3>3, <1>1, <1>4, <1>5, PagesDisjoint
      <4>2. Access(Segments[m].flags) = "rw"
        BY <4>1, <2>1 DEF Access
      <4> QED
        BY <3>3, <4>2, <1>3
    <3> QED
      BY <3>2, <3>3
  <2>2. \A p \in UserPages : map'[p] # NoPage <=> \E k \in 1 .. m : p \in PagesOf(Segments[k])
    BY <1>3 DEF Loaded, PagesAre
  <2> QED
    BY <2>1, <2>2, <1>2, <1>6 DEF PagesAre, Mapped
<1>9. InPlaceSoFar(m)'
  <2>1. m \in 0 .. Len(Segments) /\ InPlaceSoFar(m)
    BY <1>1 DEF Loaded
  <2>2. \A k \in 1 .. m : \A p \in PagesOf(Segments[k]) : map'[p].frame = map[p].frame
    BY <1>3, <1>5
  <2> QED
    BY <2>1, <2>2, <1>1, <1>2, FilesKept
<1> QED
  BY <1>7, <1>8, <1>9 DEF Loaded

(* The arguments go to the last unit of the stack and into no segment.     *)
LEMMA ArgumentsBuilt ==
  ASSUME SafeInv, WellFormed, BuildArguments, NEW n \in Nat, n = Len(Segments),
         Loaded(n, TRUE, n)
  PROVE  Loaded(n, TRUE, n)' /\ ArgumentsInPlace'
<1> DEFINE top == StackBase - 1
           w == UnitsPerPage - 1
<1>1. /\ program \in Programs
      /\ \A p \in UserPages : Mapped(p) => map[p].frame \in 0 .. MaxFrames - 1
      /\ memory \in [0 .. MaxFrames - 1 -> [Units -> Int \X Int]]
  BY TypesOf DEF SafeInv, LoaderTypeOK
<1>2. UNCHANGED <<program, regions, map>> /\ Segments' = Segments
  BY DEF BuildArguments, Segments
<1>3. RegionsAre(n, TRUE)' /\ PagesAre(n, TRUE)'
  BY <1>2, PagesAreKept DEF Loaded
<1>4. top \in StackRange /\ top \in UserPages /\ w \in Units
  BY Sizes DEF StackRange, UserPages, Units
<1>5. memory' = [memory EXCEPT ![map[top].frame][w] = Argument]
  BY DEF BuildArguments
<1> HIDE DEF top, w
<1>6. Mapped(top) /\ map[top].frame \in 0 .. MaxFrames - 1
  BY <1>1, <1>4 DEF Loaded, PagesAre
<1>7. memory'[map[top].frame][w] = Argument
  <2> DEFINE f == map[top].frame
  <2>1. f \in 0 .. MaxFrames - 1
    BY <1>6
  <2> HIDE DEF f
  <2>2. memory' = [memory EXCEPT ![f][w] = Argument]
    BY <1>5 DEF f
  <2>3. memory'[f] = [memory[f] EXCEPT ![w] = Argument]
    BY <1>1, <2>1, <2>2
  <2>4. memory'[f][w] = Argument
    BY <1>1, <1>4, <2>1, <2>3
  <2> QED
    BY <2>4 DEF f
<1>8. ASSUME NEW k \in 1 .. n, NEW u \in 0 .. Segments[k].filesz - 1
      PROVE  memory'[map[PageOfUnit(k, u)].frame][u % UnitsPerPage] = <<k, u>>
  <2> DEFINE p == PageOfUnit(k, u)
  <2>1. p \in PagesOf(Segments[k])
    BY <1>1, UnitsInPages
  <2>2. p \in UserPages /\ p \notin StackRange
    BY <1>1, <2>1, PagesDisjoint
  <2>3. Mapped(p)
    BY <2>1, <2>2 DEF Loaded, PagesAre
  <2>4. map[p].frame # map[top].frame /\ map[p].frame \in 0 .. MaxFrames - 1
    BY <1>1, <1>4, <2>2, <2>3 DEF SafeInv, FramesApart, OnePagePerFrame, Mapped
  <2>5. memory[map[p].frame][u % UnitsPerPage] = <<k, u>>
    BY DEF Loaded, InPlaceSoFar
  <2> HIDE DEF p
  <2>6. memory'[map[p].frame] = memory[map[p].frame]
    BY <1>1, <1>5, <2>4
  <2>7. memory'[map[p].frame][u % UnitsPerPage] = <<k, u>>
    BY <2>5, <2>6
  <2> QED
    BY <2>7 DEF p
<1>9. InPlaceSoFar(n)'
  BY <1>2, <1>8 DEF InPlaceSoFar, PageOfUnit, Base
<1>10. ArgumentsInPlace'
  BY <1>2, <1>7 DEF ArgumentsInPlace, top, w
<1> QED
  BY <1>3, <1>9, <1>10 DEF Loaded

(* Nothing is loaded at first.                                             *)
LEMMA InitLoaded == LoaderInit => LoadedInv
<1> SUFFICES ASSUME LoaderInit, WellFormed PROVE StageLoaded
  BY DEF LoadedInv
<1>1. Len(Segments) \in Nat
  BY Headers DEF LoaderInit
<1>2. /\ segment = 1 /\ process_state = "NONE" /\ regions = << >>
      /\ stage = IF Segments = << >> THEN "stack" ELSE "mmap"
      /\ \A p \in UserPages : ~ Mapped(p)
  BY DEF LoaderInit, WellFormed, Segments, Mapped
<1>3. Loaded(0, FALSE, 0)
  BY <1>2 DEF Loaded, RegionsAre, PagesAre, InPlaceSoFar
<1>4. ASSUME NEW m \in 0 .. Len(Segments), 1 = m + 1 PROVE m = 0
  BY <1>4
<1>5. Segments = << >> => Len(Segments) = 0
  OBVIOUS
<1> QED
  BY <1>1, <1>2, <1>3, <1>4, <1>5 DEF StageLoaded

(* A step that changes nothing of the image.                               *)
LEMMA ImageKept ==
  ASSUME UNCHANGED <<program, regions, map, memory>>, NEW m, NEW stack,
         Loaded(m, stack, m)
  PROVE  Loaded(m, stack, m)'
<1>1. Segments' = Segments
  BY DEF Segments
<1>2. RegionsAre(m, stack)' /\ PagesAre(m, stack)'
  BY PagesAreKept DEF Loaded
<1>3. InPlaceSoFar(m)'
  BY <1>1 DEF Loaded, InPlaceSoFar, PageOfUnit, Base
<1> QED
  BY <1>2, <1>3 DEF Loaded

(* The program stays what the build made it.                               *)
LEMMA ProgramKept ==
  ASSUME [LoaderNext]_loader
  PROVE  program' = program /\ Segments' = Segments /\ (WellFormed' <=> WellFormed)
<1>1. program' = program
  BY DEF LoaderNext, loader, MmapSegment, MapPages, Stop, CopySegment, ProtectSegment,
         MmapStack, BuildArguments, InsertProcess, Schedule
<1> QED
  BY <1>1 DEF Segments, WellFormed, Base, LoadPages

(* Each stage takes what is loaded to what the next one relies on.         *)
LEMMA NextLoaded == SafeInv /\ LoadedInv /\ [LoaderNext]_loader => LoadedInv'
<1> SUFFICES ASSUME SafeInv, LoadedInv, [LoaderNext]_loader, WellFormed,
                    stage' \notin {"crashed", "faulted"}
             PROVE  StageLoaded'
  BY ProgramKept DEF LoadedInv
<1>1. Segments' = Segments /\ program \in Programs /\ Len(Segments) \in Nat
  BY ProgramKept, TypesOf DEF SafeInv
<1>2. CASE MmapSegment
  <2>1. stage = "mmap" /\ process_state = "NONE"
    BY <1>2 DEF MmapSegment, LoadedInv, StageLoaded
  <2>2. segment \in 1 .. Len(Segments)
    BY <2>1, FirstPage DEF SafeInv
  <2>3. PICK m \in 0 .. Len(Segments) - 1 : segment = m + 1
    <3>1. segment - 1 \in 0 .. Len(Segments) - 1 /\ segment = (segment - 1) + 1
      BY <2>2, <1>1
    <3> QED
      BY <3>1
  <2> DEFINE s == Segments[m + 1]
  <2>4. m + 1 \in 1 .. Len(Segments) /\ m \in 0 .. Len(Segments)
    BY <1>1, <2>3
  <2>5. Base(s) \in Nat \ {0} /\ LoadPages(s) \in Nat \ {0}
    BY <1>1, <2>4, WellFormedHeaders
  <2>6. Loaded(m, FALSE, m)
    BY <2>1, <2>3, <2>4 DEF LoadedInv, StageLoaded
  <2>7. MapPages(Base(s), LoadPages(s), "rw", IF Base(s) = 0 THEN "scheduler" ELSE "copy")
    BY <1>2, <2>3, <2>5 DEF MmapSegment
  <2>8. MapPages(Base(s), LoadPages(s), "rw", "copy")
    <3>1. Base(s) # 0
      BY <2>5
    <3> QED
      BY <2>7, <3>1
  <2>9. MapsRange(Base(s), LoadPages(s), "rw") /\ stage' = "copy"
    <3> HIDE DEF s
    <3>1. LoaderTypeOK /\ LoadPages(s) \in Nat /\ Base(s) \in Nat
      BY <2>5 DEF SafeInv
    <3>2. Ends \/ (MapsRange(Base(s), LoadPages(s), "rw") /\ stage' = "copy")
      BY <2>8, <3>1, MapOutcome
    <3> QED
      BY <3>2 DEF Ends
  <2>10. Loaded(m + 1, FALSE, m)'
    BY <2>3, <2>6, <2>9, SegmentMapped
  <2>11. segment' = m + 1 /\ process_state' = "NONE"
    BY <2>1, <2>3, <2>9 DEF MapsRange
  <2>12. ASSUME NEW k \in 0 .. Len(Segments)', segment' = k + 1 PROVE k = m
    BY <1>1, <2>3, <2>11, <2>12
  <2> QED
    BY <2>9, <2>10, <2>11, <2>12 DEF StageLoaded
<1>3. CASE CopySegment
  <2>1. /\ stage = "copy" /\ stage' = "protect"
        /\ segment' = segment /\ process_state' = process_state
    BY <1>3 DEF CopySegment
  <2>2. process_state' = "NONE"
    BY <2>1 DEF LoadedInv, StageLoaded
  <2>3. segment \in 1 .. Len(Segments)
    BY <2>1, FirstPage DEF SafeInv
  <2>4. PICK m \in 1 .. Len(Segments) : m = segment
    BY <2>3
  <2>5. m - 1 \in 0 .. Len(Segments) /\ segment = (m - 1) + 1 /\ (m - 1) + 1 = m
    BY <1>1, <2>4
  <2>6. Loaded(m, FALSE, m - 1)
    BY <2>1, <2>5 DEF LoadedInv, StageLoaded
  <2>7. Loaded(m, FALSE, m)'
    BY <1>3, <2>4, <2>6, SegmentCopied
  <2> QED
    BY <2>1, <2>2, <2>4, <2>7 DEF StageLoaded
<1>4. CASE ProtectSegment
  <2>1. /\ stage = "protect" /\ segment' = segment + 1
        /\ stage' = IF segment = Len(Segments) THEN "stack" ELSE "mmap"
        /\ process_state' = process_state
    BY <1>4 DEF ProtectSegment
  <2>2. process_state' = "NONE"
    BY <2>1 DEF LoadedInv, StageLoaded
  <2>3. segment \in 1 .. Len(Segments)
    BY <2>1, FirstPage DEF SafeInv
  <2>4. PICK m \in 1 .. Len(Segments) : m = segment
    BY <2>3
  <2>5. m \in 0 .. Len(Segments)
    BY <1>1, <2>4
  <2>6. Loaded(m, FALSE, m)
    BY <2>1, <2>4, <2>5 DEF LoadedInv, StageLoaded
  <2>7. Loaded(m, FALSE, m)'
    BY <1>4, <2>4, <2>6, SegmentProtected
  <2>8. segment' = m + 1 /\ stage' = IF m = Len(Segments) THEN "stack" ELSE "mmap"
    BY <2>1, <2>4
  <2>9. ASSUME NEW k \in 0 .. Len(Segments), segment' = k + 1 PROVE k = m
    BY <1>1, <2>4, <2>8, <2>9
  <2> QED
    BY <1>1, <2>2, <2>7, <2>8, <2>9 DEF StageLoaded
<1>5. PICK n \in Nat : n = Len(Segments)
  BY <1>1
<1>6. n \in 0 .. Len(Segments)
  BY <1>5
<1>7. CASE MmapStack
  <2>1. stage = "stack" /\ process_state = "NONE"
    BY <1>7 DEF MmapStack, LoadedInv, StageLoaded
  <2>2. Loaded(n, FALSE, n)
    BY <1>5, <1>6, <2>1 DEF LoadedInv, StageLoaded
  <2>3. MapPages(StackBase - StackPages, StackPages, "rw", "arguments")
    BY <1>7 DEF MmapStack
  <2>4. LoaderTypeOK /\ StackBase - StackPages \in Nat /\ StackPages \in Nat
    BY Sizes DEF SafeInv
  <2>5. Ends \/ (MapsRange(StackBase - StackPages, StackPages, "rw") /\ stage' = "arguments")
    BY <2>3, <2>4, MapOutcome
  <2>6. MapsRange(StackBase - StackPages, StackPages, "rw") /\ stage' = "arguments"
    BY <2>5 DEF Ends
  <2>7. Loaded(n, TRUE, n)'
    BY <1>5, <2>2, <2>6, StackIsMapped
  <2>8. process_state' = "NONE"
    BY <2>1, <2>6 DEF MapsRange
  <2> QED
    BY <1>1, <1>5, <2>6, <2>7, <2>8 DEF StageLoaded
<1>8. CASE BuildArguments
  <2>1. stage = "arguments" /\ stage' = "insert" /\ process_state' = process_state
    BY <1>8 DEF BuildArguments
  <2>2. process_state' = "NONE" /\ Loaded(n, TRUE, n)
    BY <1>5, <1>6, <2>1 DEF LoadedInv, StageLoaded
  <2>3. Loaded(n, TRUE, n)' /\ ArgumentsInPlace'
    BY <1>5, <1>8, <2>2, ArgumentsBuilt
  <2> QED
    BY <1>1, <1>5, <2>1, <2>2, <2>3 DEF StageLoaded
<1>9. CASE InsertProcess \/ Schedule
  <2>1. /\ stage \in {"insert", "scheduler"} /\ stage' = "scheduler"
        /\ UNCHANGED <<program, regions, map, memory>>
    BY <1>9 DEF InsertProcess, Schedule
  <2>2. Loaded(n, TRUE, n) /\ ArgumentsInPlace
    BY <1>5, <1>6, <2>1 DEF LoadedInv, StageLoaded
  <2>3. Loaded(n, TRUE, n)'
    BY <2>1, <2>2, ImageKept
  <2>4. ArgumentsInPlace'
    BY <2>1, <2>2 DEF ArgumentsInPlace
  <2> QED
    BY <1>1, <1>5, <2>1, <2>3, <2>4 DEF StageLoaded
<1>10. CASE UNCHANGED loader
  <2>1. UNCHANGED <<program, stage, segment, process_state, regions, map, memory>>
    BY <1>10 DEF loader
  <2>2. StageLoaded
    BY <2>1 DEF LoadedInv
  <2>3. \A m : \A stack : Loaded(m, stack, m) => Loaded(m, stack, m)'
    BY <2>1, ImageKept
  <2>4. \A m : Loaded(m + 1, FALSE, m) => Loaded(m + 1, FALSE, m)'
    <3> SUFFICES ASSUME NEW m, Loaded(m + 1, FALSE, m) PROVE Loaded(m + 1, FALSE, m)'
      OBVIOUS
    <3>1. RegionsAre(m + 1, FALSE)' /\ PagesAre(m + 1, FALSE)'
      BY <2>1, PagesAreKept DEF Loaded
    <3>2. InPlaceSoFar(m)'
      BY <1>1, <2>1 DEF Loaded, InPlaceSoFar, PageOfUnit, Base
    <3> QED
      BY <3>1, <3>2 DEF Loaded
  <2>5. ArgumentsInPlace => ArgumentsInPlace'
    BY <2>1 DEF ArgumentsInPlace
  <2> QED
    BY <1>1, <2>1, <2>2, <2>3, <2>4, <2>5 DEF StageLoaded
<1> QED
  BY <1>2, <1>3, <1>4, <1>7, <1>8, <1>9, <1>10 DEF LoaderNext

(* Nothing is in the list of processes before all of it is there, nor      *)
(* after a crash.                                                          *)
Scheduled == process_state # "NONE" => stage = "scheduler"

(* InsertProcess and Schedule set the state, and leave it at that stage.   *)
LEMMA NextScheduled == Scheduled /\ [LoaderNext]_loader => Scheduled'
  BY DEF Scheduled, LoaderNext, loader, MmapSegment, MapPages, Stop, CopySegment,
         ProtectSegment, MmapStack, BuildArguments, InsertProcess, Schedule

(* The inductive invariant of the loader.                                  *)
LoaderInv == SafeInv /\ LoadedInv /\ Scheduled

(* LoaderInv holds of every behaviour.                                     *)
LEMMA LoaderInvariant == LoaderSpec => []LoaderInv
<1>1. LoaderInit => LoaderInv
  BY InitSafe, InitLoaded DEF LoaderInv, LoaderInit, Scheduled
<1>2. LoaderInv /\ [LoaderNext]_loader => LoaderInv'
  BY NextSafe, NextLoaded, NextScheduled DEF LoaderInv
<1> QED
  BY <1>1, <1>2, PTL DEF LoaderSpec

(* The list is the map, as far as the program is loaded.                   *)
LEMMA ListIsMap ==
  ASSUME SafeInv, WellFormed, NEW m \in 0 .. Len(Segments), NEW stack \in BOOLEAN,
         RegionsAre(m, stack), PagesAre(m, stack)
  PROVE  /\ {p \in UserPages : map[p] # NoPage} =
              UNION {regions[i].base .. End(regions[i]) - 1 : i \in 1 .. Len(regions)}
         /\ \A i \in 1 .. Len(regions) - 1 : End(regions[i]) <= regions[i + 1].base
<1> DEFINE PagesIn(i) == regions[i].base .. End(regions[i]) - 1
<1>1. program \in Programs /\ Len(Segments) \in Nat /\ m \in Nat
  BY TypesOf DEF SafeInv
<1>2. ASSUME NEW k \in 1 .. m
      PROVE  /\ k \in 1 .. Len(Segments)
             /\ regions[k].base = Base(Segments[k]) /\ End(regions[k]) = Top(k)
             /\ PagesIn(k) = PagesOf(Segments[k]) /\ PagesOf(Segments[k]) \subseteq UserPages
             /\ Top(k) <= StackBase - StackPages
  <2>1. k \in 1 .. Len(Segments)
    BY <1>1
  <2>2. regions[k].base = Base(Segments[k]) /\ End(regions[k]) = Top(k)
    <3>1. regions[k] = RegionOf(k)
      BY DEF RegionsAre
    <3>2. RegionOf(k).base = Base(Segments[k]) /\ End(RegionOf(k)) = Top(k)
      BY DEF RegionOf, End, Top
    <3> QED
      BY <3>1, <3>2
  <2>3. PagesIn(k) = PagesOf(Segments[k])
    <3>1. Base(Segments[k]) \in Nat /\ LoadPages(Segments[k]) \in Nat
      BY <1>1, <2>1, WellFormedHeaders
    <3>2. PagesOf(Segments[k]) = Base(Segments[k]) .. Top(k) - 1
      BY <3>1 DEF PagesOf, Top
    <3> QED
      BY <2>2, <3>2
  <2>4. PagesOf(Segments[k]) \subseteq UserPages /\ Top(k) <= StackBase - StackPages
    BY <1>1, <2>1, PagesDisjoint, WellFormedHeaders
  <2> QED
    BY <2>1, <2>2, <2>3, <2>4
<1>3. stack => /\ regions[m + 1].base = StackBase - StackPages
               /\ PagesIn(m + 1) = StackRange /\ StackRange \subseteq UserPages
  <2>1. ASSUME stack PROVE regions[m + 1] = StackRegion
    BY <2>1 DEF RegionsAre
  <2>2. End(StackRegion) = StackBase
    BY Sizes DEF End, StackRegion
  <2>3. StackRange \subseteq UserPages
    BY Sizes DEF StackRange, UserPages
  <2> QED
    BY <2>1, <2>2, <2>3 DEF StackRegion, StackRange
<1>4. Len(regions) = m + IF stack THEN 1 ELSE 0
  BY DEF RegionsAre
<1>5. \A i : i \in 1 .. Len(regions) <=> i \in 1 .. m \/ (stack /\ i = m + 1)
  BY <1>1, <1>4
<1>6. {p \in UserPages : map[p] # NoPage} = UNION {PagesIn(i) : i \in 1 .. Len(regions)}
  <2> HIDE DEF PagesIn
  <2>1. ASSUME NEW p \in UserPages, map[p] # NoPage
        PROVE  \E i \in 1 .. Len(regions) : p \in PagesIn(i)
    <3>1. (\E k \in 1 .. m : p \in PagesOf(Segments[k])) \/ (stack /\ p \in StackRange)
      BY <2>1 DEF PagesAre, Mapped
    <3> QED
      BY <3>1, <1>2, <1>3, <1>5
  <2>2. ASSUME NEW i \in 1 .. Len(regions), NEW p \in PagesIn(i)
        PROVE  p \in UserPages /\ map[p] # NoPage
    <3>1. CASE i \in 1 .. m
      BY <3>1, <1>2 DEF PagesAre, Mapped
    <3>2. CASE stack /\ i = m + 1
      BY <3>2, <1>3 DEF PagesAre, Mapped
    <3> QED
      BY <1>5, <3>1, <3>2
  <2> QED
    BY <2>1, <2>2
<1>7. ASSUME NEW i \in 1 .. Len(regions) - 1
      PROVE  End(regions[i]) <= regions[i + 1].base
  <2>1. i \in 1 .. m /\ (i + 1 \in 1 .. m \/ (stack /\ i + 1 = m + 1)) /\ i < i + 1
    BY <1>1, <1>4
  <2>2. CASE i + 1 \in 1 .. m
    <3>1. Top(i) <= Base(Segments[i + 1])
      BY <1>1, <1>2, <2>1, <2>2, SegmentsAscend
    <3> QED
      BY <3>1, <1>2, <2>1, <2>2
  <2>3. CASE stack /\ i + 1 = m + 1
    <3>1. regions[i + 1].base = StackBase - StackPages
      BY <2>3, <1>3
    <3> QED
      BY <3>1, <1>2, <2>1
  <2> QED
    BY <2>1, <2>2, <2>3
<1> QED
  BY <1>6, <1>7

(* mmap decides by the list of regions and never looks at the tables: of a *)
(* program the linker made, what the one and the other say is the same.    *)
THEOREM ListSound == LoaderSpec => []RegionsTrackMap
<1>1. LoaderInv => RegionsTrackMap
  <2> SUFFICES ASSUME SafeInv, LoadedInv, WellFormed, stage \notin {"crashed", "faulted"}
               PROVE  \E m \in 0 .. Len(Segments), stack \in BOOLEAN :
                        RegionsAre(m, stack) /\ PagesAre(m, stack)
    BY ListIsMap DEF RegionsTrackMap, LoaderInv
  <2>1. Len(Segments) \in Nat /\ segment \in 1 .. Len(Segments) + 1 /\ StageLoaded
    BY TypesOf DEF SafeInv, LoadedInv
  <2>2. CASE stage \in {"mmap", "copy", "protect"}
    <3>1. segment \in 1 .. Len(Segments)
      BY <2>2, FirstPage DEF SafeInv
    <3>2. /\ segment \in 0 .. Len(Segments) /\ segment - 1 \in 0 .. Len(Segments)
          /\ segment = (segment - 1) + 1
      BY <2>1, <3>1
    <3>3. CASE stage = "mmap"
      <4>1. Loaded(segment - 1, FALSE, segment - 1)
        BY <2>1, <3>2, <3>3 DEF StageLoaded
      <4> QED
        BY <4>1, <3>2 DEF Loaded
    <3>4. CASE stage = "copy"
      <4>1. Loaded((segment - 1) + 1, FALSE, segment - 1)
        BY <2>1, <3>2, <3>4 DEF StageLoaded
      <4> QED
        BY <4>1, <3>2 DEF Loaded
    <3>5. CASE stage = "protect"
      <4>1. Loaded(segment, FALSE, segment)
        BY <2>1, <3>2, <3>5 DEF StageLoaded
      <4> QED
        BY <4>1, <3>2 DEF Loaded
    <3> QED
      BY <2>2, <3>3, <3>4, <3>5
  <2>3. CASE stage \in {"stack", "arguments", "insert", "scheduler"}
    <3>1. Len(Segments) \in 0 .. Len(Segments)
      BY <2>1
    <3>2. \E stack \in BOOLEAN : Loaded(Len(Segments), stack, Len(Segments))
      BY <2>1, <2>3, <3>1 DEF StageLoaded
    <3> QED
      BY <3>1, <3>2 DEF Loaded
  <2>4. stage \in {"mmap", "copy", "protect", "stack", "arguments", "insert",
                   "scheduler", "crashed", "faulted"}
    BY DEF SafeInv, LoaderTypeOK
  <2> QED
    BY <2>2, <2>3, <2>4
<1> QED
  BY <1>1, LoaderInvariant, PTL

(* A program the linker made that can be scheduled is in its memory as it  *)
(* was linked, whatever its segments are.                                  *)
THEOREM LoaderSound == LoaderSpec => []ImageInPlace
<1>1. LoaderInv => ImageInPlace
  <2> SUFFICES ASSUME LoaderInv, WellFormed, process_state # "NONE"
               PROVE  /\ \A k \in 1 .. Len(Segments) :
                           /\ \A p \in Segments[k].vaddr \div UnitsPerPage ..
                                (Segments[k].vaddr + Segments[k].memsz - 1) \div UnitsPerPage :
                                /\ map[p] # NoPage
                                /\ "W" \in Segments[k].flags => map[p].access = "rw"
                           /\ \A u \in 0 .. Segments[k].filesz - 1 :
                                Contents(Segments[k].vaddr + u) = <<k, u>>
                      /\ \A p \in StackRange : map[p].access = "rw"
                      /\ Contents(StackBase * UnitsPerPage - 1) = Argument
    BY Zenon DEF ImageInPlace
  <2>1. program \in Programs /\ Len(Segments) \in Nat
    BY TypesOf DEF LoaderInv, SafeInv
  <2>2. PICK n \in 0 .. Len(Segments) : n = Len(Segments)
    BY <2>1
  <2>3. stage = "scheduler" /\ StageLoaded
    BY DEF LoaderInv, LoadedInv, Scheduled
  <2>4. Loaded(n, TRUE, n) /\ ArgumentsInPlace
    BY <2>2, <2>3 DEF StageLoaded
  <2>5. UnitsPerPage \in Nat \ {0} /\ StackBase \in Nat \ {0}
    BY Sizes
  <2>6. ASSUME NEW k \in 1 .. Len(Segments)
        PROVE  /\ Segments[k] \in Header /\ Segments[k].vaddr \in Nat
               /\ Segments[k].memsz \in Nat \ {0} /\ Segments[k].vaddr % UnitsPerPage = 0
               /\ k \in 1 .. n
    <3>1. /\ Segments[k] \in Header /\ Segments[k].vaddr % UnitsPerPage = 0
          /\ Segments[k].memsz > 0
      BY <2>1, WellFormedHeaders
    <3> QED
      BY <3>1, <2>2 DEF Header
  <2>7. ASSUME NEW k \in 1 .. Len(Segments),
               NEW p \in Segments[k].vaddr \div UnitsPerPage ..
                         (Segments[k].vaddr + Segments[k].memsz - 1) \div UnitsPerPage
        PROVE  /\ map[p] # NoPage
               /\ "W" \in Segments[k].flags => map[p].access = "rw"
    <3> DEFINE s == Segments[k]
               last == s.memsz - 1
    <3>1. last \in Nat /\ last \in 0 .. s.memsz - 1 /\ s.vaddr + s.memsz - 1 = s.vaddr + last
      BY <2>6
    <3>2. PageDown(s.vaddr + last) = Base(s) + PageDown(last)
      BY <2>6, <3>1, AlignedUnits
    <3>3. PageDown(last) \in 0 .. LoadPages(s) - 1 /\ Base(s) \in Nat /\ LoadPages(s) \in Nat
      BY <2>6, <3>1, SegmentPages
    <3>4. p \in Base(s) .. PageDown(s.vaddr + last)
      BY <3>1 DEF Base, PageDown
    <3> HIDE DEF last, s
    <3>5. p \in PagesOf(s)
      BY <3>2, <3>3, <3>4 DEF PagesOf
    <3>6. p \in UserPages
      BY <2>1, <3>5, PagesDisjoint DEF s
    <3> QED
      BY <2>4, <2>6, <3>5, <3>6 DEF s, Loaded, PagesAre, Mapped
  <2>8. ASSUME NEW k \in 1 .. Len(Segments), NEW u \in 0 .. Segments[k].filesz - 1
        PROVE  Contents(Segments[k].vaddr + u) = <<k, u>>
    <3>1. u \in Nat
      BY <2>1, UnitsInPages
    <3>2. /\ PageDown(Segments[k].vaddr + u) = PageOfUnit(k, u)
          /\ (Segments[k].vaddr + u) % UnitsPerPage = u % UnitsPerPage
      BY <2>6, <3>1, AlignedUnits DEF PageOfUnit
    <3>3. memory[map[PageOfUnit(k, u)].frame][u % UnitsPerPage] = <<k, u>>
      BY <2>4, <2>6 DEF Loaded, InPlaceSoFar
    <3> QED
      BY <3>2, <3>3 DEF Contents
  <2>9. \A p \in StackRange : map[p].access = "rw"
    BY <2>4 DEF Loaded, PagesAre
  <2>10. Contents(StackBase * UnitsPerPage - 1) = Argument
    <3> DEFINE q == StackBase - 1
               r == UnitsPerPage - 1
    <3>1. q \in Int /\ r \in 0 .. UnitsPerPage - 1
      BY <2>5
    <3>2. StackBase * UnitsPerPage - 1 = q * UnitsPerPage + r
      BY <2>5
    <3> HIDE DEF q, r
    <3>3. /\ (q * UnitsPerPage + r) \div UnitsPerPage = q
          /\ (q * UnitsPerPage + r) % UnitsPerPage = r
      BY <3>1, <2>5, QuotientRemainder
    <3>4. memory[map[q].frame][r] = Argument
      BY <2>4 DEF ArgumentsInPlace, q, r
    <3> QED
      BY <3>2, <3>3, <3>4 DEF Contents, PageDown
  <2> QED
    BY <2>7, <2>8, <2>9, <2>10
<1> QED
  BY <1>1, LoaderInvariant, PTL

=============================================================================
