-------------------------- MODULE KernelHeapProofs ---------------------------
(***************************************************************************)
(* The heap of KernelHeap, for every size of heap, header and request: the *)
(* types, the list that tiles its part of the heap however it is split and *)
(* coalesced, and what growth by sbrk can lay over what.                   *)
(***************************************************************************)
EXTENDS KernelHeap, SequenceTheorems, TLAPS

(* A chunk as _malloc and _free leave it.                                  *)
Chunks == [at : Nat, size : Nat, used : BOOLEAN, block : Nat \cup {NoBlock}]

(* ListTiles of any list.                                                  *)
Tiles(s) ==
  /\ s # << >> /\ s[1].at = 0
  /\ \A i \in 1 .. Len(s) :
       s[i].at + s[i].size = IF i = Len(s) THEN HeadSize ELSE s[i + 1].at

(* Two grown chunks lie as far apart as the later one is long, and none    *)
(* begins above the break: sbrk hands out the break it has moved.          *)
GrownApart ==
  /\ \A c \in grown : c.at <= brk
  /\ \A c, d \in grown : c.at < d.at => c.at + d.size <= d.at

(* The list t is s with the chunks i to k replaced by m.                   *)
IsReplaced(t, s, i, k, m) ==
  /\ Len(t) = Len(s) - (k + 1 - i) + Len(m)
  /\ \A j \in 1 .. Len(t) :
       t[j] = IF j < i THEN s[j]
              ELSE IF j < i + Len(m) THEN m[j + 1 - i]
              ELSE s[j - Len(m) + (k + 1 - i)]

(* The list c is a, then m, then b.                                        *)
IsConcat3(c, a, m, b, S) ==
  /\ c \in Seq(S)
  /\ Len(c) = Len(a) + Len(m) + Len(b)
  /\ \A j \in 1 .. Len(a) + Len(m) + Len(b) :
       c[j] = IF j <= Len(a) THEN a[j]
              ELSE IF j <= Len(a) + Len(m) THEN m[j - Len(a)]
              ELSE b[j - (Len(a) + Len(m))]

(* The chunks m cover the words from the address first to the address last.*)
Covers(m, first, last) ==
  /\ m[1].at = first
  /\ \A j \in 1 .. Len(m) :
       m[j].at + m[j].size = IF j = Len(m) THEN last ELSE m[j + 1].at

ListTyped ==
  /\ chunks \in Seq(Chunks)
  /\ grown \subseteq Chunks
  /\ live \subseteq Chunks
  /\ brk \in 0 .. HeapSize
  /\ broken \in {"", "overlaid", "faulted"}

IInv == ListTyped /\ Tiles(chunks) /\ GrownApart

-----------------------------------------------------------------------------
(* Three lists in a row.                                                   *)
LEMMA Concat3 ==
  ASSUME NEW S, NEW a \in Seq(S), NEW m \in Seq(S), NEW b \in Seq(S)
  PROVE  IsConcat3(a \o m \o b, a, m, b, S)
<1> DEFINE c == a \o m
<1>1. /\ c \in Seq(S) /\ Len(c) = Len(a) + Len(m)
      /\ \A j \in 1 .. Len(a) + Len(m) :
           c[j] = IF j <= Len(a) THEN a[j] ELSE m[j - Len(a)]
  BY ConcatProperties
<1>2. Len(a) \in Nat /\ Len(m) \in Nat /\ Len(b) \in Nat
  BY LenProperties
<1> HIDE DEF c
<1>3. /\ c \o b \in Seq(S) /\ Len(c \o b) = Len(c) + Len(b)
      /\ \A j \in 1 .. Len(c) + Len(b) :
           (c \o b)[j] = IF j <= Len(c) THEN c[j] ELSE b[j - Len(c)]
  <2>1. c \in Seq(S)
    BY <1>1
  <2> QED
    BY <2>1, ConcatProperties
<1>4. ASSUME NEW j \in 1 .. Len(a) + Len(m) + Len(b)
      PROVE  (c \o b)[j] =
                IF j <= Len(a) THEN a[j]
                ELSE IF j <= Len(a) + Len(m) THEN m[j - Len(a)]
                ELSE b[j - (Len(a) + Len(m))]
  <2>1. CASE j <= Len(a) + Len(m)
    <3>1. j \in 1 .. Len(a) + Len(m)
      BY <2>1, <1>2
    <3> QED
      BY <2>1, <3>1, <1>1, <1>2, <1>3
  <2>2. CASE ~ (j <= Len(a) + Len(m))
    <3>1. ~ (j <= Len(a))
      BY <2>2, <1>2
    <3> QED
      BY <2>2, <3>1, <1>1, <1>2, <1>3
  <2> QED
    BY <2>1, <2>2
<1> QED
  BY <1>1, <1>2, <1>3, <1>4 DEF c, IsConcat3

(* What _malloc and _free do to the list: the chunks i to k are replaced   *)
(* by the chunks m.                                                        *)
LEMMA Replaced ==
  ASSUME NEW S, NEW s \in Seq(S), NEW i \in 1 .. Len(s), NEW k \in i .. Len(s),
         NEW m \in Seq(S), NEW t,
         t = SubSeq(s, 1, i - 1) \o m \o SubSeq(s, k + 1, Len(s))
  PROVE  t \in Seq(S) /\ IsReplaced(t, s, i, k, m)
<1> DEFINE a == SubSeq(s, 1, i - 1)
           b == SubSeq(s, k + 1, Len(s))
<1>0. Len(s) \in Nat /\ Len(m) \in Nat /\ i \in Nat /\ k \in Nat
  BY LenProperties
<1>1. a \in Seq(S) /\ Len(a) = i - 1 /\ \A j \in 1 .. i - 1 : a[j] = s[j]
  BY <1>0
<1>2. /\ b \in Seq(S) /\ Len(b) = Len(s) - k
      /\ \A j \in 1 .. Len(s) - k : b[j] = s[j + k]
  BY <1>0
<1> HIDE DEF a, b
<1>3. t = a \o m \o b
  BY DEF a, b
<1>4. /\ t \in Seq(S) /\ Len(t) = (i - 1) + Len(m) + (Len(s) - k)
      /\ \A j \in 1 .. (i - 1) + Len(m) + (Len(s) - k) :
           t[j] = IF j <= i - 1 THEN a[j]
                  ELSE IF j <= (i - 1) + Len(m) THEN m[j - (i - 1)]
                  ELSE b[j - ((i - 1) + Len(m))]
  <2>1. a \in Seq(S) /\ b \in Seq(S)
    BY <1>1, <1>2
  <2>2. Len(a) = i - 1 /\ Len(b) = Len(s) - k
    BY <1>1, <1>2
  <2>3. IsConcat3(a \o m \o b, a, m, b, S)
    BY <2>1, Concat3
  <2>4. IsConcat3(t, a, m, b, S)
    BY <2>3, <1>3
  <2> QED
    BY <2>2, <2>4 DEF IsConcat3
<1>5. ASSUME NEW j \in 1 .. Len(t)
      PROVE  t[j] = IF j < i THEN s[j]
                    ELSE IF j < i + Len(m) THEN m[j + 1 - i]
                    ELSE s[j - Len(m) + (k + 1 - i)]
  <2>0. j \in 1 .. (i - 1) + Len(m) + (Len(s) - k)
    BY <1>4
  <2>1. CASE j < i
    <3>1. j \in 1 .. i - 1 /\ j <= i - 1
      BY <2>1, <2>0, <1>0
    <3>2. t[j] = a[j]
      BY <2>0, <3>1, <1>4, Zenon
    <3>3. a[j] = s[j]
      BY <3>1, <1>1, Zenon
    <3> QED
      BY <2>1, <3>2, <3>3, Zenon
  <2>2. CASE ~ (j < i) /\ j < i + Len(m)
    <3>1. j - (i - 1) = j + 1 - i
      BY <1>0
    <3>2. ~ (j <= i - 1) /\ j <= (i - 1) + Len(m)
      BY <2>2, <1>0
    <3>3. t[j] = m[j - (i - 1)]
      BY <2>0, <3>2, <1>4
    <3> QED
      BY <2>2, <3>1, <3>3
  <2>3. CASE ~ (j < i) /\ ~ (j < i + Len(m))
    <3>1. /\ j - ((i - 1) + Len(m)) \in 1 .. Len(s) - k
          /\ (j - ((i - 1) + Len(m))) + k = j - Len(m) + (k + 1 - i)
      BY <2>0, <2>3, <1>0
    <3>2. ~ (j <= i - 1) /\ ~ (j <= (i - 1) + Len(m))
      BY <2>3, <1>0
    <3>3. t[j] = b[j - ((i - 1) + Len(m))]
      BY <2>0, <3>2, <1>4
    <3> QED
      BY <2>3, <3>1, <3>3, <1>2
  <2> QED
    BY <2>1, <2>2, <2>3
<1>6. (i - 1) + Len(m) + (Len(s) - k) = Len(s) - (k + 1 - i) + Len(m)
  BY <1>0
<1> QED
  BY <1>4, <1>5, <1>6 DEF IsReplaced

(* A list that tiles still does when a run of chunks is replaced by chunks *)
(* that tile the same words.                                               *)
LEMMA TilesReplaced ==
  ASSUME NEW s \in Seq(Chunks), Tiles(s),
         NEW i \in 1 .. Len(s), NEW k \in i .. Len(s),
         NEW m \in Seq(Chunks), Len(m) > 0,
         Covers(m, s[i].at, s[k].at + s[k].size),
         NEW t \in Seq(Chunks), IsReplaced(t, s, i, k, m)
  PROVE  Tiles(t)
<1> DEFINE N == Len(s)
           M == Len(m)
           T == Len(t)
<1>0. N \in Nat /\ M \in Nat \ {0} /\ i \in 1 .. N /\ k \in i .. N
  BY LenProperties
<1>1. T = N - (k + 1 - i) + M
  BY DEF IsReplaced
<1>2. \A j \in 1 .. T :
        t[j] = IF j < i THEN s[j]
               ELSE IF j < i + M THEN m[j + 1 - i]
               ELSE s[j - M + (k + 1 - i)]
  BY DEF IsReplaced
<1>3. /\ s[1].at = 0
      /\ \A n \in 1 .. N : s[n].at + s[n].size = IF n = N THEN HeadSize ELSE s[n + 1].at
  BY DEF Tiles
<1>4. /\ m[1].at = s[i].at
      /\ \A q \in 1 .. M :
           m[q].at + m[q].size = IF q = M THEN s[k].at + s[k].size ELSE m[q + 1].at
  BY DEF Covers
<1> HIDE DEF N, M, T
<1>5. \A j \in 1 .. i - 1 : j \in 1 .. T /\ t[j] = s[j]
  <2> SUFFICES ASSUME NEW j \in 1 .. i - 1 PROVE j \in 1 .. T /\ t[j] = s[j]
    OBVIOUS
  <2>1. j \in 1 .. T /\ j < i
    BY <1>0, <1>1
  <2> QED
    BY <2>1, <1>2
<1>6. \A q \in 1 .. M : q + i - 1 \in 1 .. T /\ t[q + i - 1] = m[q]
  <2> SUFFICES ASSUME NEW q \in 1 .. M
               PROVE  q + i - 1 \in 1 .. T /\ t[q + i - 1] = m[q]
    OBVIOUS
  <2>1. /\ q + i - 1 \in 1 .. T /\ ~ (q + i - 1 < i) /\ q + i - 1 < i + M
        /\ (q + i - 1) + 1 - i = q
    BY <1>0, <1>1
  <2> QED
    BY <2>1, <1>2
<1>7. \A n \in k + 1 .. N :
        n + T - N \in 1 .. T /\ t[n + T - N] = s[n]
  <2> SUFFICES ASSUME NEW n \in k + 1 .. N
               PROVE  n + T - N \in 1 .. T /\ t[n + T - N] = s[n]
    OBVIOUS
  <2>1. /\ n + T - N \in 1 .. T /\ ~ (n + T - N < i) /\ ~ (n + T - N < i + M)
        /\ (n + T - N) - M + (k + 1 - i) = n
    BY <1>0, <1>1
  <2> QED
    BY <2>1, <1>2
<1>8. t[1].at = 0
  <2>1. CASE i = 1
    <3>1. t[1 + i - 1] = m[1] /\ 1 + i - 1 = 1
      BY <2>1, <1>0, <1>6
    <3> QED
      BY <2>1, <3>1, <1>3, <1>4
  <2>2. CASE i # 1
    <3>1. 1 \in 1 .. i - 1
      BY <2>2, <1>0
    <3> QED
      BY <3>1, <1>3, <1>5
  <2> QED
    BY <2>1, <2>2
<1>9. ASSUME NEW j \in 1 .. T
      PROVE  t[j].at + t[j].size = IF j = T THEN HeadSize ELSE t[j + 1].at
  <2>1. CASE j + 1 < i
    <3>1. j \in 1 .. i - 1 /\ j + 1 \in 1 .. i - 1 /\ j \in 1 .. N /\ j # N /\ j # T
      BY <2>1, <1>0, <1>1
    <3> QED
      BY <3>1, <1>3, <1>5
  <2>2. CASE j + 1 = i
    <3>1. j \in 1 .. i - 1 /\ j \in 1 .. N /\ j # N /\ j # T /\ 1 \in 1 .. M
      BY <2>2, <1>0, <1>1
    <3>2. t[1 + i - 1] = m[1] /\ 1 + i - 1 = j + 1
      BY <3>1, <2>2, <1>0, <1>6
    <3>3. s[j].at + s[j].size = s[j + 1].at
      BY <3>1, <1>3
    <3> QED
      BY <2>2, <3>1, <3>2, <3>3, <1>4, <1>5
  <2>3. CASE i <= j /\ j < i + M
    <3> DEFINE q == j + 1 - i
    <3>1. q \in 1 .. M /\ q + i - 1 = j
      BY <2>3, <1>0
    <3>2. CASE q < M
      <4>1. q + 1 \in 1 .. M /\ (q + 1) + i - 1 = j + 1 /\ q # M /\ j # T
        BY <3>1, <3>2, <1>0, <1>1
      <4>2. t[j] = m[q] /\ t[j + 1] = m[q + 1]
        <5> HIDE DEF q
        <5> QED
          BY <3>1, <4>1, <1>6
      <4> HIDE DEF q
      <4> QED
        BY <3>1, <4>1, <4>2, <1>4
    <3>3. CASE q = M
      <4>1. t[j] = m[M]
        <5> HIDE DEF q
        <5> QED
          BY <3>1, <3>3, <1>6
      <4>2. t[j].at + t[j].size = s[k].at + s[k].size
        BY <4>1, <1>0, <1>4
      <4>3. s[k].at + s[k].size = IF k = N THEN HeadSize ELSE s[k + 1].at
        BY <1>0, <1>3
      <4>4. j = T <=> k = N
        BY <3>3, <1>0, <1>1
      <4>5. k # N => t[j + 1] = s[k + 1]
        <5>1. k # N => k + 1 \in k + 1 .. N
          BY <1>0
        <5>2. (k + 1) + T - N = j + 1
          BY <3>3, <1>0, <1>1
        <5> QED
          BY <5>1, <5>2, <1>7
      <4> QED
        BY <4>2, <4>3, <4>4, <4>5
    <3> QED
      BY <3>1, <3>2, <3>3, <1>0
  <2>4. CASE i + M <= j
    <3> DEFINE n == j + N - T
    <3>1. /\ n \in k + 1 .. N /\ n \in 1 .. N /\ n + T - N = j
          /\ j = T <=> n = N
      BY <2>4, <1>0, <1>1
    <3>2. n # N => n + 1 \in k + 1 .. N /\ (n + 1) + T - N = j + 1
      BY <3>1, <1>0, <1>1
    <3> HIDE DEF n
    <3>3. t[j] = s[n] /\ (n # N => t[j + 1] = s[n + 1])
      BY <3>1, <3>2, <1>7
    <3> QED
      BY <3>1, <3>3, <1>3
  <2> QED
    BY <2>1, <2>2, <2>3, <2>4, <1>0
<1>10. t # << >>
  BY <1>0, <1>1 DEF T
<1> QED
  BY <1>8, <1>9, <1>10 DEF Tiles, T

-----------------------------------------------------------------------------
LEMMA Constants ==
  /\ Header \in Nat /\ Header > 0
  /\ MinSize \in 0 .. HeapSize /\ HeadSize \in Nat /\ HeapSize \in Nat
BY HeapAssumption

LEMMA Pair ==
  ASSUME NEW S, NEW x \in S, NEW y \in S
  PROVE  <<x>> \o <<y>> = <<x, y>>
<1> DEFINE s == <<x>>
           t == <<y>>
           u == <<x, y>>
<1>1. /\ s \in Seq(S) /\ Len(s) = 1 /\ s[1] = x
      /\ t \in Seq(S) /\ Len(t) = 1 /\ t[1] = y
      /\ u \in Seq(S) /\ Len(u) = 2 /\ u[1] = x /\ u[2] = y
  OBVIOUS
<1> HIDE DEF s, t, u
<1>2. s \o t \in Seq(S) /\ Len(s \o t) = 2
  <2>1. Len(s \o t) = Len(s) + Len(t)
    BY <1>1, ConcatProperties
  <2> QED
    BY <2>1, <1>1, ConcatProperties
<1>3. (s \o t)[1] = x /\ (s \o t)[2] = y
  <2>1. \A i \in 1 .. 2 : (s \o t)[i] = IF i <= 1 THEN s[i] ELSE t[i - 1]
    BY <1>1, ConcatProperties, SMTT(30)
  <2>2. 1 \in 1 .. 2 /\ 2 \in 1 .. 2 /\ 1 <= 1 /\ ~ (2 <= 1) /\ 2 - 1 = 1
    OBVIOUS
  <2>3. (s \o t)[1] = s[1]
    BY <2>1, <2>2, Zenon
  <2>4. (s \o t)[2] = t[2 - 1]
    BY <2>1, <2>2, Zenon
  <2> QED
    BY <2>2, <2>3, <2>4, <1>1
<1>4. \A i \in 1 .. 2 : (s \o t)[i] = u[i]
  <2>1. \A i \in 1 .. 2 : i = 1 \/ i = 2
    OBVIOUS
  <2> QED
    BY <2>1, <1>1, <1>3
<1> QED
  BY <1>1, <1>2, <1>4, SeqEqual DEF s, t, u

LEMMA RequestSize ==
  ASSUME NEW size \in Requests
  PROVE  AllocSize(size) \in Nat /\ AllocSize(size) > 0
BY HeapAssumption DEF AllocSize

LEMMA InitInv == Init => IInv
<1> SUFFICES ASSUME Init PROVE IInv
  OBVIOUS
<1> DEFINE c == Chunk(0, HeadSize, FALSE, NoBlock)
<1>1. c \in Chunks /\ c.at = 0 /\ c.size = HeadSize
  BY Constants DEF Chunk, Chunks
<1>2. chunks = <<c>>
  BY DEF Init
<1> HIDE DEF c
<1>3. chunks \in Seq(Chunks) /\ Len(chunks) = 1 /\ chunks[1] = c
  BY <1>1, <1>2
<1>4. Tiles(chunks)
  <2>1. chunks # << >> /\ chunks[1].at = 0
    <3>1. chunks # << >>
      BY <1>2
    <3> QED
      BY <3>1, <1>1, <1>3
  <2>2. chunks[1].at + chunks[1].size = HeadSize
    BY <1>1, <1>3, Constants
  <2>3. \A i \in 1 .. Len(chunks) : i = 1 /\ i = Len(chunks)
    BY <1>3
  <2> QED
    BY <2>1, <2>2, <2>3 DEF Tiles
<1>5. ListTyped
  BY <1>3, Constants DEF ListTyped, Init
<1>6. GrownApart
  BY DEF GrownApart, Init
<1> QED
  BY <1>4, <1>5, <1>6 DEF IInv

(* The piece _malloc hands out, and the rest when it splits, are the words *)
(* of the chunk found.                                                     *)
LEMMA FromList ==
  ASSUME IInv, NEW size \in Requests, MallocFromList(size)
  PROVE  IInv'
<1>0. /\ chunks \in Seq(Chunks) /\ Tiles(chunks)
      /\ grown \subseteq Chunks /\ live \subseteq Chunks
  BY ZenonT(40) DEF IInv, ListTyped
<1>p. PICK i \in Index :
      /\ FirstFit(i, size)
      /\ LET c      == chunks[i]
             need   == AllocSize(size)
             splits == c.size > need + MinAlloc
             mine   == HandedOut(c, IF splits THEN need ELSE c.size)
             rest   == IF splits
                       THEN <<Chunk(c.at + need, c.size - need, FALSE, NoBlock)>>
                       ELSE << >>
         IN  /\ chunks' = SubSeq(chunks, 1, i - 1) \o <<mine>> \o rest
                            \o SubSeq(chunks, i + 1, Len(chunks))
             /\ Place(mine, IF splits THEN HeaderOf(rest[1]) ELSE {},
                      ChunkSet \ {c})
  BY DEF MallocFromList
<1> DEFINE c      == chunks[i]
           need   == AllocSize(size)
           splits == c.size > need + MinAlloc
           mine   == HandedOut(c, IF splits THEN need ELSE c.size)
           r      == Chunk(c.at + need, c.size - need, FALSE, NoBlock)
           rest   == IF splits THEN <<r>> ELSE << >>
           a      == SubSeq(chunks, 1, i - 1)
           b      == SubSeq(chunks, i + 1, Len(chunks))
<1>1. /\ i \in 1 .. Len(chunks) /\ Len(chunks) \in Nat
      /\ c \in Chunks /\ c.at \in Nat /\ c.size \in Nat
  BY <1>0, LenProperties, ElementOfSeq, ZenonT(60) DEF Index, Chunks
<1>2. need \in Nat /\ need > 0 /\ c.at + Header \in Nat /\ c.at + need \in Nat
  BY <1>1, Constants, RequestSize
<1>3. splits => c.size - need \in Nat
  BY <1>1, <1>2, Constants DEF MinAlloc
<1>4. /\ mine \in Chunks /\ mine.at = c.at
      /\ mine.size = IF splits THEN need ELSE c.size
  BY <1>1, <1>2 DEF HandedOut, Chunk, Chunks
<1>5. splits => r \in Chunks /\ r.at = c.at + need /\ r.size = c.size - need
  BY <1>2, <1>3 DEF Chunk, Chunks
<1>6. a \in Seq(Chunks) /\ b \in Seq(Chunks)
  BY <1>0, <1>1
<1>7. chunks' = a \o <<mine>> \o rest \o b
  BY <1>p
<1>8. live' = live \cup {mine} /\ broken' \in {"", "overlaid"}
  BY <1>p DEF Place
<1>9. UNCHANGED <<brk, grown>>
  BY DEF MallocFromList
<1> HIDE DEF c, need, splits, mine, r, rest, a, b
<1>10. PICK m \in Seq(Chunks) :
         /\ Len(m) > 0 /\ Covers(m, c.at, c.at + c.size)
         /\ chunks' = a \o m \o b
  <2>1. CASE splits
    <3> DEFINE w == <<mine, r>>
    <3>1. w \in Seq(Chunks) /\ Len(w) = 2 /\ w[1] = mine /\ w[2] = r
      BY <2>1, <1>4, <1>5
    <3>2. Covers(w, c.at, c.at + c.size)
      <4> HIDE DEF w
      <4> QED
        BY <2>1, <3>1, <1>1, <1>2, <1>4, <1>5, SMTT(30) DEF Covers
    <3>3. (a \o <<mine>>) \o <<r>> = a \o w
      <4>1. <<mine>> \in Seq(Chunks) /\ <<r>> \in Seq(Chunks)
        BY <2>1, <1>4, <1>5
      <4>2. (a \o <<mine>>) \o <<r>> = a \o (<<mine>> \o <<r>>)
        BY <4>1, <1>6, ConcatAssociative
      <4>3. <<mine>> \o <<r>> = w
        BY <2>1, <1>4, <1>5, Pair
      <4> QED
        BY <4>2, <4>3
    <3>4. chunks' = a \o w \o b
      BY <2>1, <3>3, <1>7 DEF rest
    <3> HIDE DEF w
    <3>5. w \in Seq(Chunks) /\ Len(w) > 0
      BY <3>1
    <3> QED
      BY <3>2, <3>4, <3>5
  <2>2. CASE ~ splits
    <3> DEFINE w == <<mine>>
    <3>1. w \in Seq(Chunks) /\ Len(w) = 1 /\ w[1] = mine
      BY <1>4
    <3>2. Covers(w, c.at, c.at + c.size)
      <4> HIDE DEF w
      <4> QED
        BY <2>2, <3>1, <1>4 DEF Covers
    <3>3. (a \o w) \o << >> = a \o w
      <4>1. a \o w \in Seq(Chunks)
        BY <3>1, <1>6, ConcatProperties
      <4> QED
        BY <4>1, ConcatEmptySeq
    <3>4. chunks' = a \o w \o b
      BY <2>2, <3>3, <1>7 DEF rest
    <3> HIDE DEF w
    <3>5. w \in Seq(Chunks) /\ Len(w) > 0
      BY <3>1
    <3> QED
      BY <3>2, <3>4, <3>5
  <2> QED
    BY <2>1, <2>2
<1>11. chunks' \in Seq(Chunks) /\ IsReplaced(chunks', chunks, i, i, m)
  <2>1. i \in i .. Len(chunks)
    BY <1>1
  <2> QED
    BY <2>1, <1>0, <1>1, <1>10, Replaced DEF a, b
<1>12. Tiles(chunks')
  <2>1. i \in i .. Len(chunks) /\ Covers(m, chunks[i].at, chunks[i].at + chunks[i].size)
    BY <1>1, <1>10 DEF c
  <2> QED
    BY <2>1, <1>0, <1>1, <1>10, <1>11, TilesReplaced
<1>13. ListTyped'
  BY <1>4, <1>8, <1>9, <1>11 DEF ListTyped, IInv
<1>14. GrownApart'
  BY <1>9 DEF GrownApart, IInv
<1> QED
  BY <1>12, <1>13, <1>14 DEF IInv

(* sbrk's new break is above every grown chunk, by the new chunk's length. *)
LEMMA Grow ==
  ASSUME IInv, NEW size \in Requests, MallocGrow(size)
  PROVE  IInv'
<1> DEFINE c == Chunk(brk', AllocSize(size), TRUE, brk' + Header)
<1>1. /\ brk \in Nat /\ HeapSize \in Nat /\ AllocSize(size) \in Nat
      /\ AllocSize(size) > 0 /\ Header \in Nat
  <2>1. HeapSize \in Nat /\ Header \in Nat
    BY Constants
  <2>2. brk \in 0 .. HeapSize
    BY DEF IInv, ListTyped
  <2> QED
    BY <2>1, <2>2, RequestSize
<1>2. brk' = brk + AllocSize(size) /\ brk' \in 0 .. HeapSize /\ brk' + Header \in Nat
  <2>1. brk' = NewBreak(size) /\ ~ (NewBreak(size) > HeapSize)
    BY DEF MallocGrow, OutOfHeap
  <2> QED
    BY <1>1, <2>1 DEF NewBreak
<1>3. c \in Chunks /\ c.at = brk' /\ c.size = AllocSize(size)
  BY <1>1, <1>2 DEF Chunk, Chunks
<1>4. /\ grown' = grown \cup {c} /\ live' = live \cup {c}
      /\ broken' \in {"", "overlaid"} /\ chunks' = chunks
  BY DEF MallocGrow, Place
<1> HIDE DEF c
<1>5. ListTyped'
  BY <1>2, <1>3, <1>4 DEF IInv, ListTyped
<1>6. \A d \in grown : d.at \in Nat /\ d.size \in Nat /\ d.at <= brk
  <2>1. \A d \in grown : d \in Chunks /\ d.at <= brk
    BY DEF IInv, ListTyped, GrownApart
  <2> QED
    BY <2>1 DEF Chunks
<1>7. ASSUME NEW d \in grown' PROVE d.at <= brk'
  <2>1. CASE d \in grown
    <3>1. d.at \in Nat /\ d.at <= brk
      BY <2>1, <1>6
    <3> QED
      BY <3>1, <1>1, <1>2
  <2>2. CASE d = c
    BY <2>2, <1>2, <1>3
  <2> QED
    BY <2>1, <2>2, <1>4
<1>8. ASSUME NEW d \in grown', NEW e \in grown', d.at < e.at
      PROVE  d.at + e.size <= e.at
  <2>1. CASE d = c
    <3>1. e \in grown /\ d.at = brk'
      <4>1. \A b \in Nat : ~ (b < b)
        OBVIOUS
      <4>2. brk' \in Nat
        BY <1>2
      <4> QED
        BY <4>1, <4>2, <2>1, <1>3, <1>4, <1>8
    <3> QED
      BY <3>1, <1>1, <1>2, <1>6, <1>8
  <2>2. CASE d \in grown /\ e = c
    BY <2>2, <1>1, <1>2, <1>3, <1>6
  <2>3. CASE d \in grown /\ e \in grown
    BY <2>3, <1>8 DEF IInv, GrownApart
  <2> QED
    BY <2>1, <2>2, <2>3, <1>4
<1>9. GrownApart'
  BY <1>7, <1>8 DEF GrownApart
<1> QED
  BY <1>4, <1>5, <1>9 DEF IInv

-----------------------------------------------------------------------------
(* A chunk that absorbs its successor covers the words of both.            *)
LEMMA Coalesced ==
  ASSUME NEW s \in Seq(Chunks), Tiles(s), NEW i \in 1 .. Len(s) - 1,
         NEW c \in Chunks, c.at = s[i].at, c.size = s[i].size + s[i + 1].size,
         NEW t, t = SubSeq(s, 1, i - 1) \o <<c>> \o SubSeq(s, i + 2, Len(s))
  PROVE  t \in Seq(Chunks) /\ Tiles(t) /\ Len(t) = Len(s) - 1
<1> DEFINE m == <<c>>
<1>0. Len(s) \in Nat /\ i \in 1 .. Len(s) /\ i + 1 \in i .. Len(s)
      /\ (i + 1) + 1 = i + 2
  BY LenProperties
<1>1. m \in Seq(Chunks) /\ Len(m) = 1 /\ m[1] = c
  OBVIOUS
<1> HIDE DEF m
<1>2. t = SubSeq(s, 1, i - 1) \o m \o SubSeq(s, (i + 1) + 1, Len(s))
  BY <1>0 DEF m
<1>3. t \in Seq(Chunks) /\ IsReplaced(t, s, i, i + 1, m)
  <2>1. i \in 1 .. Len(s) /\ i + 1 \in i .. Len(s)
    BY <1>0
  <2> QED
    BY <2>1, <1>1, <1>2, Replaced
<1>4. Len(t) = Len(s) - 1
  <2>1. Len(t) = Len(s) - ((i + 1) + 1 - i) + 1
    BY <1>1, <1>3 DEF IsReplaced
  <2>2. (i + 1) + 1 - i = 2
    BY <1>0
  <2>3. Len(t) = Len(s) - 2 + 1
    BY <2>1, <2>2
  <2>4. \A n \in Nat : n - 2 + 1 = n - 1
    OBVIOUS
  <2>5. Len(s) \in Nat
    BY <1>0
  <2> QED
    BY <2>3, <2>4, <2>5, Zenon
<1>5. /\ s[i].at \in Nat /\ s[i].size \in Nat
      /\ s[i + 1].size \in Nat /\ s[i + 1].at = s[i].at + s[i].size
  <2>1. s[i] \in Chunks /\ s[i + 1] \in Chunks
    BY <1>0, ElementOfSeq
  <2>2. i # Len(s)
    BY <1>0
  <2> QED
    BY <2>1, <2>2, <1>0 DEF Tiles, Chunks
<1>6. c.at + c.size = s[i + 1].at + s[i + 1].size
  BY <1>5
<1>7. Covers(m, s[i].at, s[i + 1].at + s[i + 1].size)
  BY <1>1, <1>6 DEF Covers
<1>8. Tiles(t)
  <2>1. Len(m) > 0
    BY <1>1
  <2> QED
    BY <2>1, <1>0, <1>1, <1>3, <1>7, TilesReplaced
<1> QED
  BY <1>3, <1>4, <1>8

LEMMA Enlarged ==
  ASSUME NEW c \in Chunks, NEW n \in Nat, NEW block \in Nat \cup {NoBlock}
  PROVE  LET d == [c EXCEPT !.size = @ + n]
             e == [c EXCEPT !.size = @ + n, !.block = block]
         IN  /\ d \in Chunks /\ d.at = c.at /\ d.size = c.size + n
             /\ e \in Chunks /\ e.at = c.at /\ e.size = c.size + n
<1>1. c.size + n \in Nat
  BY DEF Chunks
<1> QED
  BY <1>1 DEF Chunks

LEMMA NextAbsorbed ==
  ASSUME NEW s \in Seq(Chunks), Tiles(s), NEW i \in 1 .. Len(s)
  PROVE  /\ AbsorbNext(s, i) \in Seq(Chunks) /\ Tiles(AbsorbNext(s, i))
         /\ i \in 1 .. Len(AbsorbNext(s, i))
<1>1. CASE i < Len(s) /\ ~ s[i + 1].used
  <2> DEFINE c == [s[i] EXCEPT !.size = @ + s[i + 1].size]
             t == SubSeq(s, 1, i - 1) \o <<c>> \o SubSeq(s, i + 2, Len(s))
  <2>1. /\ Len(s) \in Nat /\ i \in 1 .. Len(s) - 1
        /\ s[i] \in Chunks /\ s[i + 1] \in Chunks
    BY <1>1, LenProperties, ElementOfSeq
  <2>2. c \in Chunks /\ c.at = s[i].at /\ c.size = s[i].size + s[i + 1].size
    BY <2>1, Enlarged DEF Chunks
  <2>3. AbsorbNext(s, i) = t
    BY <1>1 DEF AbsorbNext
  <2> HIDE DEF c
  <2>4. t \in Seq(Chunks) /\ Tiles(t) /\ Len(t) = Len(s) - 1
    BY <2>1, <2>2, Coalesced
  <2> QED
    BY <2>1, <2>3, <2>4
<1>2. CASE ~ (i < Len(s) /\ ~ s[i + 1].used)
  BY <1>2 DEF AbsorbNext
<1> QED
  BY <1>1, <1>2

LEMMA AbsorbedByPrevious ==
  ASSUME NEW s \in Seq(Chunks), Tiles(s), NEW i \in 1 .. Len(s)
  PROVE  AbsorbIntoPrevious(s, i) \in Seq(Chunks) /\ Tiles(AbsorbIntoPrevious(s, i))
<1>1. CASE i > 1 /\ ~ s[i - 1].used
  <2> DEFINE p == i - 1
             c == [s[p] EXCEPT !.size = @ + s[i].size, !.block = NoBlock]
             t == SubSeq(s, 1, p - 1) \o <<c>> \o SubSeq(s, p + 2, Len(s))
  <2>1. /\ Len(s) \in Nat /\ p \in 1 .. Len(s) - 1 /\ p + 1 = i
        /\ p - 1 = i - 2 /\ p + 2 = i + 1
    BY <1>1, LenProperties
  <2>2. s[p] \in Chunks /\ s[i] \in Chunks
    BY <2>1, ElementOfSeq
  <2>3. c \in Chunks /\ c.at = s[p].at /\ c.size = s[p].size + s[p + 1].size
    BY <2>1, <2>2, Enlarged DEF Chunks
  <2>4. AbsorbIntoPrevious(s, i) = t
    BY <1>1, <2>1 DEF AbsorbIntoPrevious
  <2> HIDE DEF c, p
  <2>5. t \in Seq(Chunks) /\ Tiles(t)
    BY <2>1, <2>3, Coalesced
  <2> QED
    BY <2>4, <2>5
<1>2. CASE ~ (i > 1 /\ ~ s[i - 1].used)
  BY <1>2 DEF AbsorbIntoPrevious
<1> QED
  BY <1>1, <1>2

LEMMA Freed ==
  ASSUME IInv, NEW c \in live, Free(c)
  PROVE  IInv'
<1>0. chunks \in Seq(Chunks) /\ Tiles(chunks)
  BY DEF IInv, ListTyped
<1>1. chunks' \in Seq(Chunks) /\ Tiles(chunks')
  <2>1. CASE \E i \in Index : chunks[i].block = c.block
    <3> DEFINE i == CHOOSE j \in Index : chunks[j].block = c.block
    <3>1. i \in Index
      BY <2>1
    <3>2. chunks' = AbsorbIntoPrevious(AbsorbNext(chunks, i), i)
      BY <2>1 DEF Free
    <3> HIDE DEF i
    <3>3. i \in 1 .. Len(chunks)
      BY <3>1 DEF Index
    <3>4. /\ AbsorbNext(chunks, i) \in Seq(Chunks) /\ Tiles(AbsorbNext(chunks, i))
          /\ i \in 1 .. Len(AbsorbNext(chunks, i))
      BY <3>3, <1>0, NextAbsorbed
    <3> QED
      BY <3>2, <3>4, AbsorbedByPrevious
  <2>2. CASE ~ \E i \in Index : chunks[i].block = c.block
    BY <2>2, <1>0 DEF Free
  <2> QED
    BY <2>1, <2>2
<1>2. live' \subseteq live /\ UNCHANGED <<brk, grown, broken>>
  BY DEF Free
<1>3. ListTyped'
  BY <1>1, <1>2 DEF IInv, ListTyped
<1>4. GrownApart'
  BY <1>2 DEF IInv, GrownApart
<1> QED
  BY <1>1, <1>3, <1>4 DEF IInv

LEMMA NextInv == IInv /\ [Next]_vars => IInv'
<1> SUFFICES ASSUME IInv, [Next]_vars PROVE IInv'
  OBVIOUS
<1>1. ASSUME NEW size \in Requests, MallocFromList(size) PROVE IInv'
  BY <1>1, FromList
<1>2. ASSUME NEW size \in Requests, MallocGrow(size) PROVE IInv'
  BY <1>2, Grow
<1>3. ASSUME NEW size \in Requests, MallocExhausted(size) PROVE IInv'
  BY <1>3 DEF MallocExhausted, IInv, ListTyped, GrownApart, Tiles
<1>4. ASSUME NEW c \in live, Free(c) PROVE IInv'
  BY <1>4, Freed
<1>5. CASE UNCHANGED vars
  BY <1>5 DEF vars, IInv, ListTyped, GrownApart, Tiles
<1> QED
  BY <1>1, <1>2, <1>3, <1>4, <1>5 DEF Next

LEMMA Invariant == Spec => []IInv
BY InitInv, NextInv, PTL DEF Spec

-----------------------------------------------------------------------------
(* heap.c's lists hold chunks of the shape _malloc writes, the break stays *)
(* inside the heap whatever is requested and freed, and the model's flag   *)
(* has one of its three values.                                            *)
THEOREM TypeCorrect == Spec => []TypeOK
<1>1. IInv => TypeOK
  <2> SUFFICES ASSUME IInv PROVE TypeOK
    OBVIOUS
  <2>1. ChunkSet \subseteq Chunks
    BY ElementOfSeq DEF IInv, ListTyped, ChunkSet, Index
  <2>2. ChunkSet \cup grown \cup live \subseteq Chunks
    BY <2>1 DEF IInv, ListTyped
  <2> QED
    BY <2>2 DEF TypeOK, Chunks, IInv, ListTyped
<1> QED
  BY <1>1, Invariant, PTL

(* However requests are split (_malloc) and chunks coalesced (_free), for  *)
(* any sizes and in any order, the list covers exactly the words heap_init *)
(* gave the first chunk: none is lost and none is in two chunks.           *)
THEOREM ListSound == Spec => []ListTiles
<1>1. IInv => ListTiles
  BY DEF IInv, Tiles, ListTiles, Index
<1> QED
  BY <1>1, Invariant, PTL

(* k_sbrk and shared_sbrk return the break they have moved: of two chunks  *)
(* placed by growth that overlap, the later one is the smaller, whatever   *)
(* was requested and freed in between.                                     *)
THEOREM GrowthSound == Spec => []GrowthOverlapsOnlyWhenShrinking
<1>1. IInv => GrowthOverlapsOnlyWhenShrinking
  <2> SUFFICES ASSUME IInv, NEW c \in grown, NEW d \in grown,
                      c.at < d.at, Overlap(c, d)
               PROVE  d.size < c.size
    BY DEF GrowthOverlapsOnlyWhenShrinking
  <2>1. /\ c.at \in Nat /\ c.size \in Nat /\ d.at \in Nat /\ d.size \in Nat
    BY DEF IInv, ListTyped, Chunks
  <2>2. c.at + d.size <= d.at
    BY DEF IInv, GrownApart
  <2>3. d.at <= c.at + c.size - 1
    BY <2>1 DEF Overlap, Extent
  <2> QED
    BY <2>1, <2>2, <2>3
<1> QED
  BY <1>1, Invariant, PTL
=============================================================================
