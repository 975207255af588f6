----------------------------- MODULE HeapProofs -----------------------------
(***************************************************************************)
(* Proofs about Heap, for every size of the pages, the area, the header    *)
(* and the words, when one thread calls malloc and free and the tick frees *)
(* whenever it likes.                                                      *)
(*                                                                         *)
(* The argument: what malloc has seen to be clear stays clear, since the   *)
(* tick only clears bits; a word that is read and written back has at      *)
(* least the bits of all blocks that still are owned, since the tick only  *)
(* takes blocks away.  So bits are lost to nobody, never to two.           *)
(***************************************************************************)
EXTENDS Heap, TLAPS

OneThread == \A t, u \in Thread : t = u

Scanning(t) == pc[t] = "scan"
Marking(t)  == pc[t] \in {"mark", "marking"}
Freeing(t)  == pc[t] \in {"free", "freeing"}

\* The last byte of the block that is being marked.
End(t) == i[t] + size[t] + HEADER - n[t]

\* The n bytes before i are clear.
ScanInv(t) == Scanning(t) =>
    /\ size[t] \in Size
    /\ n[t] <= i[t] /\ n[t] < size[t] + HEADER
    /\ \A x \in i[t] - n[t]..i[t] - 1 : x \notin bits[page[t]]

\* The block lies in the area, and the bytes after i are marked.
MarkInv(t) == Marking(t) =>
    /\ size[t] \in Size
    /\ 1 <= n[t] /\ n[t] <= i[t] + 1 /\ n[t] <= size[t] + HEADER
    /\ End(t) < ALLOC_AREA
    /\ \A x \in i[t] + 1..End(t) : x \in bits[page[t]]

FreeInv(t) == Freeing(t) =>
    1 <= n[t] /\ i[t] + n[t] <= ALLOC_AREA /\ from[t] <= i[t]

\* The word that was read has all bits that must not be lost.
WordInv(t) ==
    /\ pc[t] \in {"marking", "freeing"} =>
          \A b \in blocks : b.page = page[t] =>
              Owned(b) \cap WordWith(i[t], from[t]) \subseteq word[t]
    /\ pc[t] = "marking" =>
          \A x \in i[t] + 1..End(t) : x \in WordWith(i[t], from[t]) => x \in word[t]

\* The heap uses its own pages.
PagesInv ==
    /\ Base \in pages
    /\ \A p \in Page : next[p] \in pages \cup {None, Junk}
    /\ \A t \in Thread : page[t] \in pages
    /\ \A b \in blocks : b.page \in pages

BlocksFit == \A b \in blocks : b.at + HEADER + b.size <= ALLOC_AREA

ThreadInv == \A t \in Thread : ScanInv(t) /\ MarkInv(t) /\ FreeInv(t) /\ WordInv(t)

IInv == /\ TypeOK /\ PagesInv /\ BlocksFit /\ ThreadInv
        /\ NoOverlap /\ OwnedMarked

-----------------------------------------------------------------------------
\* Constants and the shape of blocks.
LEMMA Constants ==
    /\ PAGE_SIZE \in Nat /\ BMAP_AREA \in Nat /\ ALLOC_AREA \in Nat \ {0}
    /\ NEXT_PTR_SIZE \in Nat /\ HEADER \in Nat \ {0}
    /\ BITS_PER_BYTE \in Nat \ {0} /\ BITS_PER_WORD \in Nat \ {0}
    /\ \A s \in Size : s \in Nat
    /\ NumPages \in Nat \ {0} /\ Base \in Page /\ 0 \in Byte
<1>1. /\ PAGE_SIZE \in Nat /\ BMAP_AREA \in Nat /\ ALLOC_AREA \in Nat \ {0}
      /\ NEXT_PTR_SIZE \in Nat /\ HEADER \in Nat \ {0}
      /\ BITS_PER_BYTE \in Nat \ {0} /\ BITS_PER_WORD \in Nat \ {0}
  BY AreaAssumption
<1>2. \A s \in Size : s \in Nat
  BY <1>1, SizeAssumption
<1>3. NumPages \in Nat \ {0} /\ Base \in Page
  BY PagesAssumption DEF Base, Page
<1>4. 0 \in Byte
  BY <1>1 DEF Byte
<1> QED BY <1>1, <1>2, <1>3, <1>4

LEMMA BlockShape ==
    ASSUME NEW b \in Block
    PROVE  b.page \in Page /\ b.at \in Byte /\ b.size \in Size /\ b.size \in Nat
           /\ b.at \in Nat
<1>1. b.page \in Page /\ b.at \in Byte /\ b.size \in Size
  BY DEF Block
<1> QED BY <1>1, Constants DEF Byte

\* The bit at which free's first word begins.
LEMMA Aligned ==
    ASSUME NEW a \in Byte
    PROVE  a - (a % BITS_PER_BYTE) \in Byte
<1>1. a \in Nat /\ a < ALLOC_AREA
  BY Constants DEF Byte
<1>2. a % BITS_PER_BYTE \in Nat
  BY <1>1, Constants
<1>3. a % BITS_PER_BYTE <= a
  BY <1>1, Constants
<1> QED BY <1>1, <1>2, <1>3, Constants DEF Byte

LEMMA InitIInv == Init => IInv
<1> SUFFICES ASSUME Init PROVE IInv
  OBVIOUS
<1>1. TypeOK
  BY Constants DEF Init, TypeOK
<1>2. PagesInv /\ BlocksFit /\ NoOverlap /\ OwnedMarked
  BY Constants DEF Init, PagesInv, BlocksFit, NoOverlap, OwnedMarked
<1>3. ThreadInv
  BY DEF Init, ThreadInv, ScanInv, MarkInv, FreeInv, WordInv, Scanning, Marking, Freeing
<1> QED BY <1>1, <1>2, <1>3 DEF IInv

-----------------------------------------------------------------------------
(* One lemma for each action.                                              *)

\* Actions that change no block and no bit, and take t to scanning or to
\* where it was, keep what is said about blocks.
LEMMA ScanStep ==
    ASSUME IInv, OneThread, NEW t \in Thread, Scan(t)
    PROVE  IInv'
<1> USE Constants DEF IInv, TypeOK, At
<1>1. /\ pc[t] = "scan" /\ i[t] \in Byte /\ n[t] \in Nat /\ size[t] \in Size
      /\ n[t] <= i[t] /\ n[t] < size[t] + HEADER /\ page[t] \in Page
      /\ \A x \in i[t] - n[t]..i[t] - 1 : x \notin bits[page[t]]
  BY DEF Scan, ThreadInv, ScanInv, Scanning, LastByte, Byte
<1>2. /\ bits' = bits /\ blocks' = blocks /\ page' = page /\ size' = size
      /\ next' = next /\ pages' = pages /\ word' = word
  BY DEF Scan
<1>3. InARow(t) \in 0..i[t] + 1 /\ InARow(t) <= size[t] + HEADER /\ n'[t] = InARow(t)
  BY <1>1 DEF Scan, InARow, Byte
<1>4. \A x \in i[t] + 1 - InARow(t)..i[t] : x \notin bits[page[t]]
  BY <1>1, <1>3 DEF InARow, Byte
<1>5. TypeOK'
  <2>1. i' \in [Thread -> 0..ALLOC_AREA]
    BY <1>1 DEF Scan, Byte
  <2>2. n' \in [Thread -> 0..ALLOC_AREA]
    BY <1>1, <1>3 DEF Scan, Byte
  <2>3. pc' \in [Thread -> {"idle", "scan", "mark", "marking", "free", "freeing"}]
    BY DEF Scan
  <2>4. from' \in [Thread -> Byte]
    BY DEF Scan
  <2> QED BY <2>1, <2>2, <2>3, <2>4, <1>2 DEF Scan
<1>6. PagesInv' /\ BlocksFit' /\ OwnedMarked'
  BY <1>2 DEF PagesInv, BlocksFit, OwnedMarked, Owned, BytesOf
<1>7. CASE InARow(t) = size[t] + HEADER
  <2>1. pc'[t] = "mark" /\ i'[t] = i[t] /\ n'[t] = size[t] + HEADER
    BY <1>1, <1>3, <1>7 DEF Scan
  <2>2. ThreadInv'
    <3> SUFFICES (ScanInv(t) /\ MarkInv(t) /\ FreeInv(t) /\ WordInv(t))'
      BY DEF OneThread, ThreadInv
    <3>1. MarkInv(t)'
      BY <2>1, <1>1, <1>2, <1>3 DEF MarkInv, End, Byte
    <3> QED BY <3>1, <2>1 DEF ScanInv, Scanning, FreeInv, Freeing, WordInv
  <2>3. InHand(t)' = i[t] + 1 - InARow(t)..i[t]
    <3>1. InHand(t)' = BytesOf(i'[t] + 1 - n'[t], size'[t])
      BY <2>1 DEF InHand, BytesOf
    <3>2. /\ i[t] \in Nat /\ size[t] \in Nat /\ size'[t] = size[t]
          /\ i'[t] = i[t] /\ n'[t] = size[t] + HEADER /\ InARow(t) = size[t] + HEADER
      BY <2>1, <1>1, <1>2, <1>7 DEF Byte
    <3>3. /\ i'[t] + 1 - n'[t] = i[t] + 1 - InARow(t)
          /\ i'[t] + 1 - n'[t] + HEADER + size'[t] - 1 = i[t]
      BY <3>2
    <3> QED BY <3>1, <3>3 DEF BytesOf
  <2>4. ASSUME NEW b \in blocks, b.page = page[t]
        PROVE  InHand(t)' \cap Owned(b) = {}
    <3>1. \A x \in Owned(b) : x \in bits[page[t]]
      BY <2>4 DEF OwnedMarked
    <3> QED BY <3>1, <2>3, <1>4
  <2>5. NoOverlap'
    BY <2>4, <1>2 DEF OneThread, NoOverlap, Owned, BytesOf
  <2> QED BY <2>2, <2>5, <1>5, <1>6
<1>8. CASE InARow(t) # size[t] + HEADER
  <2>1. pc'[t] = "scan" /\ i'[t] = i[t] + 1
    BY <1>1, <1>8 DEF Scan
  <2>2. ThreadInv'
    <3> SUFFICES (ScanInv(t) /\ MarkInv(t) /\ FreeInv(t) /\ WordInv(t))'
      BY DEF OneThread, ThreadInv
    <3>1. ScanInv(t)'
      <4>1. \A x \in i'[t] - n'[t]..i'[t] - 1 : x \notin bits'[page'[t]]
        <5>1. i[t] \in Nat /\ InARow(t) \in Nat /\ i'[t] = i[t] + 1 /\ n'[t] = InARow(t)
          BY <2>1, <1>1, <1>3 DEF Byte
        <5>2. /\ i'[t] - n'[t] = i[t] + 1 - InARow(t)
              /\ i'[t] - 1 = i[t]
          BY <5>1
        <5> QED BY <5>2, <1>2, <1>4
      <4>2. n'[t] <= i'[t] /\ n'[t] < size'[t] + HEADER /\ size'[t] \in Size
        BY <2>1, <1>1, <1>2, <1>3, <1>8 DEF Byte
      <4> QED BY <4>1, <4>2 DEF ScanInv
    <3> QED BY <3>1, <2>1 DEF MarkInv, Marking, FreeInv, Freeing, WordInv
  <2>3. InHand(t)' = {}
    BY <2>1 DEF InHand
  <2>4. NoOverlap'
    BY <2>3, <1>2 DEF OneThread, NoOverlap, Owned, BytesOf
  <2> QED BY <2>2, <2>4, <1>5, <1>6
<1> QED BY <1>7, <1>8

LEMMA StartScanStep ==
    ASSUME IInv, OneThread, NEW t \in Thread, NEW p \in pages',
           StartScan(t, p), pc'[t] = "scan", size'[t] \in Size,
           pc' \in [Thread -> {"idle", "scan", "mark", "marking", "free", "freeing"}],
           size' \in [Thread -> Size \cup {0}],
           pages' \subseteq Page, pages \subseteq pages',
           others' = others, blocks' = blocks, chain' \in {"sound", "cut"},
           from' = from, word' = word,
           bits' \in [Page -> SUBSET Byte],
           next' \in [Page -> Page \cup {None, Junk}],
           \A q \in pages : bits'[q] = bits[q],
           \A q \in Page : next'[q] \in pages' \cup {None, Junk}
    PROVE  IInv'
<1> USE Constants DEF IInv, TypeOK
<1>1. i'[t] = 0 /\ n'[t] = 0 /\ page'[t] = p
  BY DEF StartScan
<1>2. TypeOK'
  <2>1. i' \in [Thread -> 0..ALLOC_AREA] /\ n' \in [Thread -> 0..ALLOC_AREA]
    BY DEF StartScan
  <2>2. page' \in [Thread -> Page]
    BY DEF StartScan
  <2> QED BY <2>1, <2>2
<1>3. PagesInv'
  BY <1>1 DEF PagesInv, OneThread
<1>4. BlocksFit'
  BY DEF BlocksFit
<1>5. ThreadInv'
  <2> SUFFICES (ScanInv(t) /\ MarkInv(t) /\ FreeInv(t) /\ WordInv(t))'
    BY DEF OneThread, ThreadInv
  <2> QED BY <1>1 DEF ScanInv, MarkInv, Marking, FreeInv, Freeing, WordInv
<1>6. InHand(t)' = {}
  BY DEF InHand
<1>7. NoOverlap'
  BY <1>6 DEF OneThread, NoOverlap, Owned, BytesOf
<1>8. OwnedMarked'
  BY DEF OwnedMarked, PagesInv, Owned, BytesOf
<1> QED BY <1>2, <1>3, <1>4, <1>5, <1>7, <1>8

LEMMA MallocStep ==
    ASSUME IInv, OneThread, NEW t \in Thread, NEW s \in Size, Malloc(t, s)
    PROVE  IInv'
<1> USE DEF IInv, TypeOK, PagesInv
<1>1. pc'[t] = "scan" /\ size'[t] = s /\ StartScan(t, Base)
  BY DEF Malloc
<1>2. /\ pc' \in [Thread -> {"idle", "scan", "mark", "marking", "free", "freeing"}]
      /\ size' \in [Thread -> Size \cup {0}]
  BY DEF Malloc
<1> QED BY <1>1, <1>2, StartScanStep DEF Malloc

LEMMA NextPageStep ==
    ASSUME IInv, OneThread, NEW t \in Thread, NextPage(t)
    PROVE  IInv'
<1> USE DEF IInv, TypeOK, PagesInv
<1>1. pc[t] = "scan" /\ size[t] \in Size /\ page[t] \in pages
  BY DEF NextPage, At, ThreadInv, ScanInv, Scanning
<1>2. CASE next[page[t]] = Junk
  <2>1. chain' = "cut" /\ UNCHANGED <<bits, next, pages, others, blocks, local>>
    BY <1>2 DEF NextPage, local
  <2> QED BY <2>1 DEF local, BlocksFit, ThreadInv, ScanInv, MarkInv, FreeInv, WordInv,
                      Scanning, Marking, Freeing, End, WordWith, NoOverlap, OwnedMarked,
                      InHand, Owned, BytesOf
<1>3. CASE next[page[t]] # Junk
  <2>1. StartScan(t, next[page[t]]) /\ next[page[t]] \in pages
    BY <1>1, <1>3 DEF NextPage
  <2> QED BY <1>1, <2>1, StartScanStep DEF NextPage
<1> QED BY <1>2, <1>3

LEMMA GrowStep ==
    ASSUME IInv, OneThread, NEW t \in Thread, Grow(t)
    PROVE  IInv'
<1> USE DEF IInv, TypeOK, PagesInv
<1>1. pc[t] = "scan" /\ size[t] \in Size /\ page[t] \in pages
  BY DEF Grow, At, ThreadInv, ScanInv, Scanning
<1>2. PICK p \in Page : FirstFree(p) /\ pages' = pages \cup {p}
             /\ next' = [next EXCEPT ![page[t]] = p]
             /\ bits' = [bits EXCEPT ![p] = {}] /\ StartScan(t, p)
  BY DEF Grow, LastPage
<1>3. p \notin pages
  BY <1>2 DEF FirstFree
<1>4. bits' \in [Page -> SUBSET Byte] /\ \A q \in pages : bits'[q] = bits[q]
  BY <1>2, <1>3
<1>5. next' \in [Page -> Page \cup {None, Junk}]
  BY <1>2
<1>6. p \in pages'
  BY <1>2
<1>7. \A q \in Page : next'[q] \in pages' \cup {None, Junk}
  <2> TAKE q \in Page
  <2>1. CASE q = page[t]
    BY <2>1, <1>1, <1>2
  <2>2. CASE q # page[t]
    BY <2>2, <1>2
  <2> QED BY <2>1, <2>2
<1> QED BY <1>1, <1>2, <1>4, <1>5, <1>6, <1>7, StartScanStep DEF Grow

LEMMA ReadWordStep ==
    ASSUME IInv, OneThread, NEW t \in Thread, ReadWord(t)
    PROVE  IInv'
<1> USE Constants DEF IInv, TypeOK, At
<1>1. UNCHANGED <<bits, next, pages, others, blocks, chain, size, page, i, n, from>>
  BY DEF ReadWord
<1>2. word'[t] = bits[page[t]] \cap WordWith(i[t], from[t])
  BY DEF ReadWord
<1>3. \/ pc[t] = "mark" /\ pc'[t] = "marking"
      \/ pc[t] = "free" /\ pc'[t] = "freeing"
  BY DEF ReadWord
<1>4. TypeOK'
  <2>1. pc' \in [Thread -> {"idle", "scan", "mark", "marking", "free", "freeing"}]
    BY DEF ReadWord
  <2>2. word' \in [Thread -> SUBSET Byte]
    BY DEF ReadWord, WordWith
  <2> QED BY <2>1, <2>2, <1>1
<1>5. PagesInv' /\ BlocksFit' /\ OwnedMarked'
  BY <1>1 DEF PagesInv, BlocksFit, OwnedMarked, Owned, BytesOf
<1>6. InHand(t)' = InHand(t)
  BY <1>1, <1>3 DEF InHand, BytesOf
<1>7. NoOverlap'
  BY <1>1, <1>6 DEF NoOverlap, OneThread, Owned, BytesOf
<1>8. ThreadInv'
  <2> SUFFICES (ScanInv(t) /\ MarkInv(t) /\ FreeInv(t) /\ WordInv(t))'
    BY DEF OneThread, ThreadInv
  <2>1. ScanInv(t)' /\ MarkInv(t)' /\ FreeInv(t)'
    BY <1>1, <1>3 DEF ThreadInv, ScanInv, MarkInv, FreeInv, Scanning, Marking, Freeing, End
  <2>2. \A b \in blocks : b.page = page[t] =>
            Owned(b) \cap WordWith(i[t], from[t]) \subseteq word'[t]
    BY <1>2 DEF OwnedMarked
  <2>3. pc[t] = "mark" =>
            \A x \in i[t] + 1..End(t) : x \in WordWith(i[t], from[t]) => x \in word'[t]
    BY <1>2 DEF ThreadInv, MarkInv, Marking
  <2>4. WordInv(t)'
    BY <2>2, <2>3, <1>1, <1>3 DEF WordInv, End, Owned, BytesOf, WordWith
  <2> QED BY <2>1, <2>4
<1> QED BY <1>4, <1>5, <1>7, <1>8

\* A word is written back: no owned byte is lost but those in hand.
LEMMA WriteWordKeeps ==
    ASSUME IInv, NEW t \in Thread, pc[t] \in {"marking", "freeing"},
           NEW w \in SUBSET Byte, word[t] \ {i[t]} \subseteq w, WriteWord(t, w),
           NEW b \in blocks, i[t] \in InHand(t)
    PROVE  Owned(b) \subseteq bits'[b.page]
<1> USE DEF IInv, TypeOK
<1>1. page[t] \in Page /\ b.page \in Page
  BY BlockShape
<1>2. CASE b.page = page[t]
  <2>1. bits'[b.page] = (bits[b.page] \ WordWith(i[t], from[t])) \cup w
    BY <1>1, <1>2 DEF WriteWord
  <2>2. Owned(b) \cap WordWith(i[t], from[t]) \subseteq word[t]
    BY <1>2 DEF ThreadInv, WordInv
  <2>3. i[t] \notin Owned(b)
    BY <1>2 DEF NoOverlap
  <2>4. Owned(b) \subseteq bits[b.page]
    BY DEF OwnedMarked
  <2> QED BY <2>1, <2>2, <2>3, <2>4
<1>3. CASE b.page # page[t]
  BY <1>1, <1>3 DEF WriteWord, OwnedMarked
<1> QED BY <1>2, <1>3

LEMMA ClearStep ==
    ASSUME IInv, OneThread, NEW t \in Thread, Clear(t)
    PROVE  IInv'
<1> USE Constants DEF IInv, TypeOK, At
<1>1. UNCHANGED <<next, pages, others, blocks, chain, size, page, from>>
  BY DEF Clear
<1>2. /\ pc[t] = "freeing" /\ i[t] \in Nat /\ n[t] \in Nat
      /\ 1 <= n[t] /\ i[t] + n[t] <= ALLOC_AREA
  BY DEF Clear, ThreadInv, FreeInv, Freeing
<1>3. InHand(t) = i[t]..i[t] + n[t] - 1
  BY <1>2 DEF InHand
<1>4. /\ n'[t] = n[t] - 1
      /\ \/ n[t] > 1 /\ pc'[t] = "free" /\ i'[t] = i[t] + 1
         \/ n[t] = 1 /\ pc'[t] = "idle" /\ i'[t] = i[t]
  BY <1>2 DEF Clear
<1>5. TypeOK'
  <2>1. pc' \in [Thread -> {"idle", "scan", "mark", "marking", "free", "freeing"}]
    BY DEF Clear
  <2>2. i' \in [Thread -> 0..ALLOC_AREA] /\ n' \in [Thread -> 0..ALLOC_AREA]
    BY <1>2 DEF Clear
  <2>3. word' \in [Thread -> SUBSET Byte]
    BY DEF Clear
  <2>4. bits' \in [Page -> SUBSET Byte]
    BY DEF Clear, WriteWord
  <2> QED BY <2>1, <2>2, <2>3, <2>4, <1>1
<1>6. PagesInv' /\ BlocksFit'
  BY <1>1 DEF PagesInv, BlocksFit
<1>7. OwnedMarked'
  <2> SUFFICES ASSUME NEW b \in blocks PROVE Owned(b) \subseteq bits'[b.page]
    BY <1>1 DEF OwnedMarked, Owned, BytesOf
  <2>1. i[t] \in InHand(t)
    BY <1>2, <1>3
  <2> QED BY <2>1, <1>2, WriteWordKeeps DEF Clear
<1>8. InHand(t)' \subseteq InHand(t)
  <2>1. CASE n[t] > 1
    <3>1. InHand(t)' = i'[t]..i'[t] + n'[t] - 1
      BY <2>1, <1>4 DEF InHand
    <3> QED BY <3>1, <2>1, <1>2, <1>3, <1>4
  <2>2. CASE n[t] = 1
    BY <2>2, <1>4 DEF InHand
  <2> QED BY <2>1, <2>2, <1>2
<1>9. NoOverlap'
  BY <1>1, <1>8 DEF NoOverlap, OneThread, Owned, BytesOf
<1>10. ThreadInv'
  <2> SUFFICES (ScanInv(t) /\ MarkInv(t) /\ FreeInv(t) /\ WordInv(t))'
    BY DEF OneThread, ThreadInv
  <2>1. from[t] <= i[t] /\ from[t] \in Nat
    BY <1>2 DEF ThreadInv, FreeInv, Freeing, Byte
  <2>2. FreeInv(t)'
    <3>1. from'[t] <= i'[t] /\ i'[t] + n'[t] <= ALLOC_AREA
      BY <2>1, <1>1, <1>2, <1>4
    <3>2. pc'[t] = "free" => 1 <= n'[t]
      BY <1>2, <1>4
    <3> QED BY <3>1, <3>2, <1>4 DEF FreeInv, Freeing
  <2> QED BY <2>2, <1>4 DEF ScanInv, MarkInv, WordInv, Scanning, Marking
<1> QED BY <1>5, <1>6, <1>7, <1>9, <1>10

LEMMA FreeStep ==
    ASSUME IInv, OneThread, NEW t \in Thread, NEW b \in blocks, Free(t, b)
    PROVE  IInv'
<1> USE Constants DEF IInv, TypeOK, At
<1>1. /\ UNCHANGED <<bits, next, pages, others, chain, size, word>>
      /\ blocks' = blocks \ {b}
  BY DEF Free
<1>2. /\ b.page \in Page /\ b.at \in Byte /\ b.at \in Nat /\ b.size \in Nat
      /\ b.at + HEADER + b.size <= ALLOC_AREA
  BY BlockShape DEF BlocksFit
<1>3. /\ pc'[t] = "free" /\ page'[t] = b.page /\ i'[t] = b.at
      /\ n'[t] = b.size + HEADER
  BY DEF Free, Freed
<1>4. TypeOK'
  <2>1. pc' \in [Thread -> {"idle", "scan", "mark", "marking", "free", "freeing"}]
    BY DEF Free
  <2>2. page' \in [Thread -> Page]
    BY <1>2 DEF Free
  <2>3. i' \in [Thread -> 0..ALLOC_AREA] /\ n' \in [Thread -> 0..ALLOC_AREA]
    BY <1>2 DEF Free, Freed
  <2>4. from' \in [Thread -> Byte]
    BY <1>2, Aligned DEF Free
  <2> QED BY <2>1, <2>2, <2>3, <2>4, <1>1
<1>5. PagesInv' /\ BlocksFit' /\ OwnedMarked'
  BY <1>1, <1>3 DEF PagesInv, OneThread, BlocksFit, OwnedMarked, Owned, BytesOf
<1>6. InHand(t)' = Owned(b)
  <2>1. InHand(t)' = b.at..b.at + (b.size + HEADER) - 1
    BY <1>3 DEF InHand
  <2>2. b.at + (b.size + HEADER) - 1 = b.at + HEADER + b.size - 1
    BY <1>2
  <2> QED BY <2>1, <2>2 DEF Owned, BytesOf
<1>7. NoOverlap'
  <2>1. \A c \in blocks' : \A u \in Thread : page'[u] = c.page => InHand(u)' \cap Owned(c) = {}
    BY <1>1, <1>3, <1>6 DEF NoOverlap, OneThread
  <2>2. \A c, e \in blocks' : c # e /\ c.page = e.page => Owned(c) \cap Owned(e) = {}
    BY <1>1 DEF NoOverlap
  <2> QED BY <2>1, <2>2 DEF NoOverlap, Owned, BytesOf
<1>8. ThreadInv'
  <2> SUFFICES (ScanInv(t) /\ MarkInv(t) /\ FreeInv(t) /\ WordInv(t))'
    BY DEF OneThread, ThreadInv
  <2>1. from'[t] <= i'[t]
    <3>1. from'[t] = b.at - (b.at % BITS_PER_BYTE)
      BY DEF Free
    <3>2. b.at % BITS_PER_BYTE \in Nat
      BY <1>2
    <3> QED BY <3>1, <3>2, <1>2, <1>3
  <2>2. FreeInv(t)'
    BY <1>2, <1>3, <2>1 DEF FreeInv, Freeing
  <2> QED BY <2>2, <1>3 DEF ScanInv, MarkInv, WordInv, Scanning, Marking
<1> QED BY <1>4, <1>5, <1>7, <1>8

LEMMA MarkStep ==
    ASSUME IInv, OneThread, NEW t \in Thread, Mark(t)
    PROVE  IInv'
<1> USE Constants DEF IInv, TypeOK, At
<1>1. UNCHANGED <<next, pages, others, size, page, from>>
  BY DEF Mark
<1>2. /\ pc[t] = "marking" /\ i[t] \in Nat /\ n[t] \in Nat /\ page[t] \in Page
      /\ size[t] \in Size /\ size[t] \in Nat
      /\ 1 <= n[t] /\ n[t] <= i[t] + 1 /\ n[t] <= size[t] + HEADER
      /\ End(t) < ALLOC_AREA
  BY DEF Mark, ThreadInv, MarkInv, Marking
<1>3. InHand(t) = i[t] + 1 - n[t]..End(t)
  <2>1. i[t] + 1 - n[t] + HEADER + size[t] - 1 = End(t)
    BY <1>2 DEF End
  <2> QED BY <2>1, <1>2 DEF InHand, BytesOf
<1>4. i[t] \in InHand(t) /\ i[t] \in Byte /\ End(t) \in Nat /\ End(t) >= i[t]
  BY <1>2, <1>3 DEF End, Byte
<1>5. n'[t] = n[t] - 1
  BY DEF Mark
<1>6. TypeOK'
  <2>1. pc' \in [Thread -> {"idle", "scan", "mark", "marking", "free", "freeing"}]
    BY DEF Mark
  <2>2. i' \in [Thread -> 0..ALLOC_AREA] /\ n' \in [Thread -> 0..ALLOC_AREA]
    BY <1>2 DEF Mark
  <2>3. word' \in [Thread -> SUBSET Byte]
    BY DEF Mark
  <2>4. bits' \in [Page -> SUBSET Byte]
    BY <1>4 DEF Mark, WriteWord
  <2>5. chain' \in {"sound", "cut"}
    BY DEF Mark
  <2>6. blocks' \subseteq Block
    BY <1>2, <1>4 DEF Mark, Block
  <2> QED BY <2>1, <2>2, <2>3, <2>4, <2>5, <2>6, <1>1
<1>7. ASSUME NEW b \in blocks PROVE Owned(b) \subseteq bits'[b.page]
  <2>1. word[t] \cup {i[t]} \in SUBSET Byte
    BY <1>4
  <2> QED BY <2>1, <1>2, <1>4, WriteWordKeeps DEF Mark
<1>8. \A x \in i[t]..End(t) : x \in bits'[page[t]]
  <2> TAKE x \in i[t]..End(t)
  <2>1. bits'[page[t]] = (bits[page[t]] \ WordWith(i[t], from[t])) \cup (word[t] \cup {i[t]})
    BY <1>2 DEF Mark, WriteWord
  <2>2. CASE x = i[t]
    BY <2>1, <2>2
  <2>3. CASE x # i[t]
    <3>1. x \in i[t] + 1..End(t)
      BY <2>3, <1>2, <1>4
    <3>2. x \in bits[page[t]]
      BY <3>1, <1>2 DEF ThreadInv, MarkInv, Marking
    <3>3. x \in WordWith(i[t], from[t]) => x \in word[t]
      BY <3>1, <1>2 DEF ThreadInv, WordInv
    <3> QED BY <3>2, <3>3, <2>1
  <2> QED BY <2>2, <2>3
<1>9. CASE n[t] > 1
  <2>1. pc'[t] = "mark" /\ i'[t] = i[t] - 1 /\ blocks' = blocks
    BY <1>2, <1>9 DEF Mark
  <2>2. End(t)' = End(t) /\ i'[t] + 1 = i[t] /\ i'[t] + 1 - n'[t] = i[t] + 1 - n[t]
    BY <2>1, <1>1, <1>2, <1>5 DEF End
  <2>3. InHand(t)' = InHand(t)
    BY <2>1, <2>2, <1>1, <1>2 DEF InHand, BytesOf
  <2>4. PagesInv' /\ BlocksFit' /\ OwnedMarked'
    BY <2>1, <1>1, <1>7 DEF PagesInv, BlocksFit, OwnedMarked, Owned, BytesOf
  <2>5. NoOverlap'
    BY <2>1, <2>3, <1>1 DEF NoOverlap, OneThread, Owned, BytesOf
  <2>6. ThreadInv'
    <3> SUFFICES (ScanInv(t) /\ MarkInv(t) /\ FreeInv(t) /\ WordInv(t))'
      BY DEF OneThread, ThreadInv
    <3>1. \A x \in i'[t] + 1..End(t)' : x \in bits'[page'[t]]
      BY <2>2, <1>1, <1>8
    <3>2. 1 <= n'[t] /\ n'[t] <= i'[t] + 1 /\ n'[t] <= size'[t] + HEADER
      BY <2>1, <1>1, <1>2, <1>5, <1>9
    <3>3. End(t)' < ALLOC_AREA /\ size'[t] \in Size
      BY <2>2, <1>1, <1>2
    <3>4. MarkInv(t)'
      BY <3>1, <3>2, <3>3 DEF MarkInv
    <3> QED BY <3>4, <2>1 DEF ScanInv, FreeInv, WordInv, Scanning, Freeing
  <2> QED BY <2>4, <2>5, <2>6, <1>6
<1>10. CASE n[t] = 1
  <2> DEFINE b == [page |-> page[t], at |-> i[t], size |-> size[t]]
  <2>1. pc'[t] = "idle" /\ i'[t] = i[t] /\ blocks' = blocks \cup {b}
    BY <1>2, <1>10 DEF Mark
  <2>2. b.page = page[t] /\ b.at = i[t] /\ b.size = size[t]
    OBVIOUS
  <2> HIDE DEF b
  <2>3. Owned(b) = InHand(t) /\ Owned(b) = i[t]..End(t)
    <3>1. i[t] + 1 - n[t] = i[t] /\ i[t] + HEADER + size[t] - 1 = End(t)
      BY <1>2, <1>10 DEF End
    <3> QED BY <3>1, <2>2, <1>3 DEF Owned, BytesOf
  <2>4. PagesInv'
    BY <2>1, <2>2, <1>1 DEF PagesInv
  <2>5. BlocksFit'
    <3>1. b.at + HEADER + b.size <= ALLOC_AREA
      BY <2>2, <1>2, <1>10 DEF End
    <3> QED BY <3>1, <2>1 DEF BlocksFit
  <2>6. OwnedMarked'
    <3>1. Owned(b) \subseteq bits'[b.page]
      BY <2>2, <2>3, <1>8
    <3> QED BY <3>1, <2>1, <1>7 DEF OwnedMarked, Owned, BytesOf
  <2>7. InHand(t)' = {}
    BY <2>1 DEF InHand
  <2>8. \A c \in blocks : c.page = b.page => Owned(b) \cap Owned(c) = {}
    BY <2>2, <2>3 DEF NoOverlap
  <2>9. NoOverlap'
    BY <2>1, <2>7, <2>8 DEF NoOverlap, OneThread, Owned, BytesOf
  <2>10. ThreadInv'
    BY <2>1 DEF OneThread, ThreadInv, ScanInv, MarkInv, FreeInv, WordInv,
                Scanning, Marking, Freeing
  <2> QED BY <2>4, <2>5, <2>6, <2>9, <2>10, <1>6
<1> QED BY <1>9, <1>10, <1>2

LEMMA FreeInTickStep ==
    ASSUME IInv, OneThread, NEW b \in blocks, FreeInTick(b)
    PROVE  IInv'
<1> USE Constants DEF IInv, TypeOK
<1>1. UNCHANGED <<next, pages, others, chain, local>> /\ blocks' = blocks \ {b}
  BY DEF FreeInTick
<1>2. bits' = [bits EXCEPT ![b.page] = @ \ Owned(b)]
  <2>1. b.at + (b.size + HEADER) - 1 = b.at + HEADER + b.size - 1
    BY BlockShape
  <2> QED BY <2>1 DEF FreeInTick, Freed, Owned, BytesOf
<1>3. TypeOK' /\ PagesInv' /\ BlocksFit'
  <2>1. bits' \in [Page -> SUBSET Byte]
    BY <1>2
  <2> QED BY <2>1, <1>1 DEF PagesInv, BlocksFit, local
<1>4. \A p \in Page : \A x \in bits[p] : ~(p = b.page /\ x \in Owned(b)) => x \in bits'[p]
  BY <1>2
<1>5. \A p \in Page : bits'[p] \subseteq bits[p]
  BY <1>2
<1>6. OwnedMarked'
  <2> SUFFICES ASSUME NEW c \in blocks, c # b, NEW x \in Owned(c) PROVE x \in bits'[c.page]
    BY <1>1 DEF OwnedMarked, Owned, BytesOf
  <2>1. c.page \in Page /\ x \in bits[c.page]
    BY BlockShape DEF OwnedMarked
  <2>2. c.page = b.page => x \notin Owned(b)
    BY DEF NoOverlap
  <2> QED BY <2>1, <2>2, <1>4
<1>7. NoOverlap'
  BY <1>1 DEF NoOverlap, InHand, Owned, BytesOf, local
<1>8. ThreadInv'
  <2> SUFFICES ASSUME NEW t \in Thread
               PROVE  (ScanInv(t) /\ MarkInv(t) /\ FreeInv(t) /\ WordInv(t))'
    BY DEF ThreadInv
  <2>1. page[t] \in Page
    OBVIOUS
  <2>2. ScanInv(t)'
    BY <2>1, <1>1, <1>5 DEF ThreadInv, ScanInv, Scanning, local
  <2>3. Marking(t) => \A x \in i[t] + 1..End(t) : x \in bits'[page[t]]
    <3> SUFFICES ASSUME Marking(t), NEW x \in i[t] + 1..End(t) PROVE x \in bits'[page[t]]
      OBVIOUS
    <3>1. x \in bits[page[t]]
      BY DEF ThreadInv, MarkInv
    <3>2. x \in InHand(t)
      <4>1. i[t] \in Nat /\ n[t] \in Nat /\ 1 <= n[t] /\ size[t] \in Nat
        BY DEF ThreadInv, MarkInv
      <4>2. InHand(t) = i[t] + 1 - n[t]..i[t] + 1 - n[t] + HEADER + size[t] - 1
        BY DEF InHand, BytesOf, Marking
      <4> QED BY <4>1, <4>2 DEF End
    <3>3. page[t] = b.page => x \notin Owned(b)
      BY <3>2 DEF NoOverlap
    <3> QED BY <2>1, <3>1, <3>3, <1>4
  <2>4. MarkInv(t)'
    BY <2>3, <1>1 DEF ThreadInv, MarkInv, Marking, End, local
  <2>5. FreeInv(t)'
    BY <1>1 DEF ThreadInv, FreeInv, Freeing, local
  <2>6. WordInv(t)'
    BY <1>1 DEF ThreadInv, WordInv, End, Owned, BytesOf, WordWith, local
  <2> QED BY <2>2, <2>4, <2>5, <2>6
<1> QED BY <1>3, <1>6, <1>7, <1>8

\* Nothing that the invariant is about changes but the pointer in a page the
\* heap does not have.
LEMMA OthersStep ==
    ASSUME IInv, \/ \E t \in Thread : Palloc(t)
                 \/ Pfree
                 \/ UNCHANGED vars
    PROVE  IInv'
<1> USE DEF IInv, TypeOK
<1>1. UNCHANGED <<bits, pages, blocks, chain, local>>
  BY DEF Palloc, Pfree, vars
<1>2. others' \subseteq Page
  BY DEF Palloc, Pfree, vars
<1>3. /\ next' \in [Page -> Page \cup {None, Junk}]
      /\ \A p \in Page : next'[p] \in pages \cup {None, Junk}
  <2>1. CASE \E t \in Thread : Palloc(t)
    <3>1. PICK p \in Page, x \in {None, Junk} : next' = [next EXCEPT ![p] = x]
      BY <2>1 DEF Palloc
    <3> QED BY <3>1 DEF PagesInv
  <2>2. CASE UNCHANGED next
    BY <2>2 DEF PagesInv
  <2> QED BY <2>1, <2>2 DEF Pfree, vars
<1>4. TypeOK' /\ PagesInv'
  BY <1>1, <1>2, <1>3 DEF PagesInv, local
<1>5. BlocksFit' /\ NoOverlap' /\ OwnedMarked'
  BY <1>1 DEF BlocksFit, NoOverlap, OwnedMarked, InHand, Owned, BytesOf, local
<1>6. ThreadInv'
  BY <1>1 DEF ThreadInv, ScanInv, MarkInv, FreeInv, WordInv, Scanning, Marking,
              Freeing, End, Owned, BytesOf, WordWith, local
<1> QED BY <1>4, <1>5, <1>6

-----------------------------------------------------------------------------
(* The theorems.                                                           *)

\* The strengthened invariant holds in every state, when one thread at a time
\* is in malloc and free and switch_proc frees in the tick.
THEOREM Invariance ==
    ASSUME OneThread
    PROVE  Spec => []IInv
<1>1. Init => IInv
  BY InitIInv
<1>2. IInv /\ [Next]_vars => IInv'
  <2> SUFFICES ASSUME IInv, [Next]_vars PROVE IInv'
    OBVIOUS
  <2>1. CASE \E t \in Thread, s \in Size : Malloc(t, s)
    BY <2>1, MallocStep
  <2>2. CASE \E t \in Thread, b \in blocks : Free(t, b)
    BY <2>2, FreeStep
  <2>3. ASSUME NEW t \in Thread, Step(t) PROVE IInv'
    BY <2>3, ScanStep, NextPageStep, GrowStep, ReadWordStep, MarkStep, ClearStep,
       OthersStep DEF Step
  <2>4. CASE \E b \in blocks : FreeInTick(b)
    BY <2>4, FreeInTickStep
  <2>5. CASE Pfree \/ UNCHANGED vars
    BY <2>5, OthersStep
  <2> QED BY <2>1, <2>2, <2>3, <2>4, <2>5 DEF Next
<1> QED BY <1>1, <1>2, PTL DEF Spec

\* The counters of the scan and of the loops stay in the area, whatever its
\* size (dmemory.c:77-115, 168-176).
THEOREM TypeCorrect == ASSUME OneThread PROVE Spec => []TypeOK
<1>1. IInv => TypeOK
  BY DEF IInv
<1> QED BY <1>1, Invariance, PTL

\* malloc never gives away a byte that somebody has (dmemory.c:77-115).
THEOREM OneOwner == ASSUME OneThread PROVE Spec => []NoOverlap
<1>1. IInv => NoOverlap
  BY DEF IInv
<1> QED BY <1>1, Invariance, PTL

\* A tick that frees between a read and a write of a word loses no bit of a
\* block that is owned (dmemory.c:102, 169).
THEOREM MapCovers == ASSUME OneThread PROVE Spec => []OwnedMarked
<1>1. IInv => OwnedMarked
  BY DEF IInv
<1> QED BY <1>1, Invariance, PTL

-----------------------------------------------------------------------------
(* The chain.                                                              *)

\* The pages of the heap are closed under the pointers they have.
LEMMA ChainStep ==
    ASSUME IInv, AllLinked, OneThread, Next
    PROVE  AllLinked'
<1> USE DEF IInv, TypeOK, PagesInv
<1>1. ASSUME pages' = pages, \A q \in pages : next'[q] = next[q]
      PROVE  AllLinked'
  <2> SUFFICES ASSUME NEW p \in pages, NEW S \in SUBSET Page, Closed(S)'
               PROVE  p \in S
    BY <1>1 DEF AllLinked, OnChain
  <2>1. Closed(S \cap pages)
    BY <1>1 DEF Closed
  <2> QED BY <2>1 DEF AllLinked, OnChain
<1>2. ASSUME NEW t \in Thread, Grow(t) PROVE AllLinked'
  <2>1. PICK q \in Page : /\ q \notin pages /\ pages' = pages \cup {q}
                          /\ next' = [next EXCEPT ![page[t]] = q]
    BY <1>2 DEF Grow, LastPage, FirstFree
  <2>2. next[page[t]] = None /\ page[t] \in pages /\ page[t] \in Page
    BY <1>2 DEF Grow
  <2> SUFFICES ASSUME NEW p \in pages', NEW S \in SUBSET Page, Closed(S)'
               PROVE  p \in S
    BY DEF AllLinked, OnChain
  <2>3. None \notin pages
    BY DEF Page, None
  <2>4. Closed(S \cap pages)
    <3>1. Base \in S
      BY DEF Closed
    <3>2. ASSUME NEW x \in S \cap pages, next[x] \in pages PROVE next[x] \in S
      <4>1. x # page[t]
        BY <3>2, <2>2, <2>3
      <4>2. next'[x] = next[x] /\ next'[x] \in pages'
        BY <3>2, <4>1, <2>1
      <4> QED BY <4>2 DEF Closed
    <3> QED BY <3>1, <3>2 DEF Closed
  <2>5. pages \subseteq S
    BY <2>4 DEF AllLinked, OnChain
  <2>6. next'[page[t]] = q /\ q \in pages'
    BY <2>1, <2>2
  <2>7. q \in S
    BY <2>2, <2>5, <2>6 DEF Closed
  <2> QED BY <2>1, <2>5, <2>7
<1>3. ASSUME NEW t \in Thread, Palloc(t) PROVE AllLinked'
  <2>1. pages' = pages /\ \E p \in Page : FirstFree(p) /\ \E x \in {None, Junk} :
                             next' = [next EXCEPT ![p] = x]
    BY <1>3 DEF Palloc
  <2>2. \A q \in pages : next'[q] = next[q]
    BY <2>1 DEF FirstFree
  <2> QED BY <2>1, <2>2, <1>1
<1>4. CASE UNCHANGED <<next, pages>>
  BY <1>4, <1>1
<1>5. \/ UNCHANGED <<next, pages>>
      \/ \E t \in Thread : Grow(t) \/ Palloc(t)
  BY DEF Next, Step, Malloc, Free, Scan, NextPage, ReadWord, Mark, Clear, FreeInTick, Pfree
<1> QED BY <1>2, <1>3, <1>4, <1>5

\* Every page of the heap is found from the first one, so free finds the page
\* of every block and no page of the heap is lost (dmemory.c:117-127, 153-160).
THEOREM ChainHasAll == ASSUME OneThread PROVE Spec => []AllLinked
<1>1. Init => AllLinked
  BY DEF Init, AllLinked, OnChain, Closed
<1>2. IInv /\ AllLinked /\ [Next]_vars => AllLinked'
  <2>1. ASSUME AllLinked, UNCHANGED vars PROVE AllLinked'
    BY <2>1 DEF AllLinked, OnChain, Closed, vars
  <2> QED BY <2>1, ChainStep
<1> QED BY <1>1, <1>2, Invariance, PTL DEF Spec

-----------------------------------------------------------------------------
(* The bytes nobody has.                                                   *)

\* Whether a thread has the byte x of the page p in hand, or a block has it.
Held(p, x) ==
    \/ \E b \in blocks : b.page = p /\ x \in Owned(b)
    \/ \E t \in Thread : page[t] = p /\ x \in InHand(t)

LEMMA LeakedHeld ==
    \A p \in Page : \A x : x \in Leaked(p) <=> x \in bits[p] /\ ~Held(p, x)
<1> TAKE p \in Page
<1> TAKE x
<1> DEFINE A == UNION {Owned(b) : b \in {c \in blocks : c.page = p}}
           B == UNION {InHand(t) : t \in {u \in Thread : page[u] = p}}
<1>1. x \in A <=> \E b \in blocks : b.page = p /\ x \in Owned(b)
  OBVIOUS
<1>2. x \in B <=> \E t \in Thread : page[t] = p /\ x \in InHand(t)
  OBVIOUS
<1>3. Leaked(p) = bits[p] \ (A \cup B)
  BY DEF Leaked
<1> HIDE DEF A, B
<1> QED BY <1>1, <1>2, <1>3 DEF Held

\* The same of the next state.
LEMMA LeakedHeldNext ==
    \A p \in Page : \A x : x \in Leaked(p)' <=> x \in bits'[p] /\ ~Held(p, x)'
<1> TAKE p \in Page
<1> TAKE x
<1> DEFINE A == UNION {Owned(b) : b \in {c \in blocks : c.page = p}}
           B == UNION {InHand(t) : t \in {u \in Thread : page[u] = p}}
<1>1. x \in A' <=> \E b \in blocks' : b.page = p /\ x \in Owned(b)'
  BY DEF Owned, BytesOf
<1>2. x \in B' <=> \E t \in Thread : page'[t] = p /\ x \in InHand(t)'
  OBVIOUS
<1>3. Leaked(p)' = bits'[p] \ (A' \cup B')
  BY DEF Leaked
<1> HIDE DEF A, B
<1> QED BY <1>1, <1>2, <1>3 DEF Held

\* The word that is written back has no bit but those that were read and that
\* of a byte in hand.
LEMMA WriteLeaks ==
    ASSUME IInv, NEW t \in Thread, NEW w \in SUBSET Byte, WriteWord(t, w),
           NEW p \in Page, NEW x \in bits'[p], x \notin bits[p]
    PROVE  page[t] = p /\ x \in w
<1> USE DEF IInv, TypeOK
<1>1. page[t] \in Page
  OBVIOUS
<1> QED BY <1>1 DEF WriteWord

LEMMA LeakStep ==
    ASSUME IInv, OneThread, Next,
           NEW p \in Page, NEW x, x \in bits'[p], ~Held(p, x)', ~(x \in bits[p] /\ ~Held(p, x))
    PROVE  \E t \in Thread : page[t] = p /\ x \in word[t] \ bits[p]
<1> USE Constants DEF IInv, TypeOK
<1>1. ASSUME UNCHANGED bits, Held(p, x) => Held(p, x)' PROVE FALSE
  BY <1>1
<1>2. ASSUME NEW t \in Thread, UNCHANGED <<blocks, page>>, InHand(t) \subseteq InHand(t)'
      PROVE  Held(p, x) => Held(p, x)'
  BY <1>2 DEF Held, OneThread, Owned, BytesOf
<1>3. ASSUME NEW t \in Thread, InHand(t) = {}, UNCHANGED blocks
      PROVE  Held(p, x) => Held(p, x)'
  BY <1>3 DEF Held, OneThread, Owned, BytesOf
<1>4. ASSUME NEW t \in Thread, NEW s \in Size, Malloc(t, s) PROVE FALSE
  <2>1. InHand(t) = {} /\ UNCHANGED <<bits, blocks>>
    BY <1>4 DEF Malloc, At, InHand
  <2> QED BY <2>1, <1>1, <1>3
<1>5. ASSUME NEW t \in Thread, Scan(t) \/ NextPage(t) PROVE FALSE
  <2>1. InHand(t) = {} /\ UNCHANGED <<bits, blocks>>
    BY <1>5 DEF Scan, NextPage, At, InHand
  <2> QED BY <2>1, <1>1, <1>3
<1>6. ASSUME NEW t \in Thread, Grow(t) PROVE FALSE
  <2>1. InHand(t) = {} /\ UNCHANGED blocks
    BY <1>6 DEF Grow, At, InHand
  <2>2. PICK q \in Page : bits' = [bits EXCEPT ![q] = {}]
    BY <1>6 DEF Grow
  <2>3. x \in bits[p]
    BY <2>2
  <2> QED BY <2>1, <2>3, <1>3
<1>7. ASSUME NEW t \in Thread, ReadWord(t) PROVE FALSE
  <2>1. InHand(t)' = InHand(t)
    BY <1>7 DEF ReadWord, At, InHand, BytesOf
  <2> QED BY <2>1, <1>1, <1>2, <1>7 DEF ReadWord
<1>8. ASSUME NEW t \in Thread, NEW b \in blocks, Free(t, b) PROVE FALSE
  <2>1. /\ InHand(t) = {} /\ page'[t] = b.page /\ pc'[t] = "free"
        /\ i'[t] = b.at /\ n'[t] = b.size + HEADER /\ blocks' = blocks \ {b}
        /\ bits' = bits
    BY <1>8 DEF Free, Freed, At, InHand
  <2>2. b.at \in Nat /\ b.size \in Nat
    BY BlockShape
  <2>3. InHand(t)' = Owned(b)
    <3>1. InHand(t)' = b.at..b.at + (b.size + HEADER) - 1
      BY <2>1 DEF InHand
    <3>2. b.at + (b.size + HEADER) - 1 = b.at + HEADER + b.size - 1
      BY <2>2
    <3> QED BY <3>1, <3>2 DEF Owned, BytesOf
  <2>4. Held(p, x) => Held(p, x)'
    BY <2>1, <2>3 DEF Held, OneThread, Owned, BytesOf
  <2> QED BY <2>1, <2>4, <1>1
<1>9. ASSUME NEW b \in blocks, FreeInTick(b) PROVE FALSE
  <2>1. /\ blocks' = blocks \ {b} /\ UNCHANGED local
        /\ bits' = [bits EXCEPT ![b.page] = @ \ (b.at..b.at + (b.size + HEADER) - 1)]
    BY <1>9 DEF FreeInTick, Freed
  <2>2. b.at \in Nat /\ b.size \in Nat /\ b.page \in Page
    BY BlockShape
  <2>3. b.at..b.at + (b.size + HEADER) - 1 = Owned(b)
    <3>1. b.at + (b.size + HEADER) - 1 = b.at + HEADER + b.size - 1
      BY <2>2
    <3> QED BY <3>1 DEF Owned, BytesOf
  <2>4. x \in bits[p] /\ ~(p = b.page /\ x \in Owned(b))
    BY <2>1, <2>2, <2>3
  <2>5. Held(p, x) => Held(p, x)'
    BY <2>1, <2>4 DEF Held, InHand, Owned, BytesOf, local
  <2> QED BY <2>4, <2>5
<1>10. ASSUME NEW t \in Thread, Clear(t)
       PROVE  page[t] = p /\ x \in word[t] \ bits[p]
  <2>1. /\ pc[t] = "freeing" /\ UNCHANGED <<blocks, page>>
        /\ i[t] \in Nat /\ n[t] \in Nat /\ 1 <= n[t] /\ from[t] <= i[t] /\ from[t] \in Nat
        /\ i[t] \in Byte /\ WriteWord(t, word[t] \ {i[t]})
    BY <1>10 DEF Clear, At, ThreadInv, FreeInv, Freeing, Byte
  <2>2. InHand(t) \subseteq InHand(t)' \cup {i[t]}
    <3>1. InHand(t) = i[t]..i[t] + n[t] - 1
      BY <2>1 DEF InHand
    <3>2. CASE n[t] > 1
      <4>1. pc'[t] = "free" /\ i'[t] = i[t] + 1 /\ n'[t] = n[t] - 1
        BY <1>10, <2>1, <3>2 DEF Clear
      <4>2. InHand(t)' = i[t] + 1..i[t] + 1 + (n[t] - 1) - 1
        BY <4>1 DEF InHand
      <4> QED BY <2>1, <3>1, <4>2
    <3>3. CASE n[t] = 1
      BY <2>1, <3>1, <3>3
    <3> QED BY <2>1, <3>2, <3>3
  <2>3. page[t] = p => i[t] \notin bits'[p]
    <3>1. i[t] \in WordWith(i[t], from[t])
      BY <2>1 DEF WordWith
    <3> QED BY <2>1, <3>1 DEF WriteWord
  <2>4. Held(p, x) => Held(p, x)'
    BY <2>1, <2>2, <2>3 DEF Held, OneThread, Owned, BytesOf
  <2>5. word[t] \ {i[t]} \in SUBSET Byte
    OBVIOUS
  <2> QED BY <2>1, <2>4, <2>5, WriteLeaks
<1>11. ASSUME NEW t \in Thread, Mark(t)
       PROVE  page[t] = p /\ x \in word[t] \ bits[p]
  <2>1. /\ pc[t] = "marking" /\ i[t] \in Nat /\ n[t] \in Nat
        /\ size[t] \in Size /\ size[t] \in Nat
        /\ 1 <= n[t] /\ n[t] <= i[t] + 1 /\ n[t] <= size[t] + HEADER
        /\ i[t] < ALLOC_AREA /\ page' = page /\ size' = size
        /\ WriteWord(t, word[t] \cup {i[t]})
    BY <1>11 DEF Mark, At, ThreadInv, MarkInv, Marking, End
  <2>2. InHand(t) = i[t] + 1 - n[t]..i[t] + 1 - n[t] + HEADER + size[t] - 1
    BY <2>1 DEF InHand, BytesOf
  <2>3. i[t] \in InHand(t)
    BY <2>1, <2>2
  <2>4. ASSUME NEW y \in InHand(t), page[t] = p PROVE Held(p, y)'
    <3>1. CASE n[t] > 1
      <4>1. pc'[t] = "mark" /\ i'[t] = i[t] - 1 /\ n'[t] = n[t] - 1
        BY <1>11, <2>1, <3>1 DEF Mark
      <4>2. i'[t] + 1 - n'[t] = i[t] + 1 - n[t]
        BY <4>1, <2>1
      <4>3. InHand(t)' = InHand(t)
        BY <4>1, <4>2, <2>1, <2>2 DEF InHand, BytesOf
      <4> QED BY <4>3, <2>1, <2>4 DEF Held
    <3>2. CASE n[t] = 1
      <4> DEFINE b == [page |-> page[t], at |-> i[t], size |-> size[t]]
      <4>1. b \in blocks'
        BY <1>11, <2>1, <3>2 DEF Mark
      <4>2. b.page = p /\ b.at = i[t] /\ b.size = size[t]
        BY <2>4
      <4> HIDE DEF b
      <4>3. i[t] + 1 - n[t] = i[t]
        BY <2>1, <3>2
      <4>4. y \in Owned(b)
        BY <4>2, <4>3, <2>2, <2>4 DEF Owned, BytesOf
      <4> QED BY <4>1, <4>2, <4>4 DEF Held, Owned, BytesOf
    <3> QED BY <2>1, <3>1, <3>2
  <2>5. blocks \subseteq blocks'
    BY <1>11 DEF Mark
  <2>6. Held(p, x) => Held(p, x)'
    BY <2>1, <2>4, <2>5 DEF Held, OneThread, Owned, BytesOf
  <2>7. x \notin bits[p]
    BY <2>6
  <2>8. word[t] \cup {i[t]} \in SUBSET Byte
    BY <2>1 DEF Byte
  <2>9. page[t] = p /\ x \in word[t] \cup {i[t]}
    BY <2>1, <2>7, <2>8, WriteLeaks
  <2>10. x # i[t]
    BY <2>3, <2>4, <2>9
  <2> QED BY <2>7, <2>9, <2>10
<1>12. ASSUME (\E t \in Thread : Palloc(t)) \/ Pfree PROVE FALSE
  <2>1. UNCHANGED <<bits, blocks, local>>
    BY <1>12 DEF Palloc, Pfree
  <2>2. Held(p, x)' <=> Held(p, x)
    BY <2>1 DEF Held, InHand, Owned, BytesOf, local
  <2> QED BY <2>1, <2>2, <1>1
<1> QED BY <1>4, <1>5, <1>6, <1>7, <1>8, <1>9, <1>10, <1>11, <1>12 DEF Next, Step

\* A byte is lost only if the tick frees it after a thread read its word and
\* before the thread writes it back (dmemory.c:102, 169).
THEOREM LostOnlyRaced == ASSUME OneThread PROVE Spec => LeaksOnlyRaced
<1> DEFINE A == \A p \in Page : \A x \in Leaked(p)' \ Leaked(p) :
                   \E t \in Thread : page[t] = p /\ x \in word[t] \ bits[p]
<1>1. IInv /\ [Next]_vars => [A]_vars
  <2> SUFFICES ASSUME IInv, Next, NEW p \in Page, NEW x \in Leaked(p)' \ Leaked(p)
               PROVE  \E t \in Thread : page[t] = p /\ x \in word[t] \ bits[p]
    OBVIOUS
  <2>1. x \in bits'[p] /\ ~Held(p, x)'
    BY LeakedHeldNext
  <2>2. ~(x \in bits[p] /\ ~Held(p, x))
    BY LeakedHeld
  <2> QED BY <2>1, <2>2, LeakStep
<1> QED BY <1>1, Invariance, PTL DEF Spec, LeaksOnlyRaced

=============================================================================
