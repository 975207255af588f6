-------------------------------- MODULE Heap --------------------------------
(***************************************************************************)
(* The heap of the kernel (dmemory.c): a chain of pages, each with a map   *)
(* that has a bit for every byte of its area, on top of palloc (memory.c). *)
(*                                                                         *)
(* malloc looks for clear bits one by one and then sets them one by one,   *)
(* each by a read and a write of the word that has it.  The tick comes in  *)
(* between, and switch_proc frees the nodes of dead threads in it.         *)
(*                                                                         *)
(* BMAP_AREA and ALLOC_AREA are more than a page: bytes at the end of the  *)
(* area are those of the pointer to the next page.  Once they are cleared, *)
(* or the pointer is what another user left there, the chain leads         *)
(* anywhere: "chain" says so, and nothing is modelled after it.            *)
(***************************************************************************)
EXTENDS Integers, FiniteSets

CONSTANTS
    PAGE_SIZE,      \* 4096 in the code
    BMAP_AREA,      \* bytes of a page before its area, 484
    ALLOC_AREA,     \* bytes of the area, 3632
    NEXT_PTR_SIZE,  \* bytes of the pointer at the end of a page, 4
    HEADER,         \* sizeof (size_t), 4
    BITS_PER_BYTE,  \* 8
    BITS_PER_WORD,  \* of a uint32_t, 32
    Size,           \* bound: sizes that are asked for
    NumPages,       \* bound: pages palloc can give
    Thread,         \* threads that call malloc and free
    WithOthers      \* whether pages are used for anything else

ASSUME AreaAssumption ==
    /\ {PAGE_SIZE, BMAP_AREA, ALLOC_AREA, NEXT_PTR_SIZE, HEADER} \subseteq Nat \ {0}
    /\ {BITS_PER_BYTE, BITS_PER_WORD} \subseteq Nat \ {0}
\* malloc returns NULL for more than a page (dmemory.c:63).
ASSUME SizeAssumption == Size \subseteq 0..PAGE_SIZE
ASSUME PagesAssumption == NumPages \in Nat \ {0} /\ WithOthers \in BOOLEAN

Page  == 1..NumPages
Base  == 1            \* base_page
None  == 0
Junk  == -1           \* what another user of a page left in it
Byte  == 0..ALLOC_AREA - 1
Block == [page : Page, at : Byte, size : Size]

VARIABLES
    bits,    \* the map of each page: the bytes that are allocated
    next,    \* the last word of each page
    pages,   \* the pages palloc gave to the heap ...
    others,  \* ... and to stacks, page tables and buffers
    blocks,  \* what malloc returned and is not yet freed
    chain,   \* "sound", or "cut": a pointer to a next page is not one
    pc,      \* "idle", "scan", "mark", "marking", "free", "freeing"
    size,    \* malloc's argument
    page, i, n,  \* malloc's variables; in free, i is ptr and n is size
    from,    \* the bit at which the first word p points to begins
    word     \* what was read of the word that is being changed

local == <<pc, size, page, i, n, from, word>>
vars  == <<bits, next, pages, others, blocks, chain, local>>

Init ==
    /\ bits = [p \in Page |-> {}]
    /\ next = [p \in Page |-> None]
    /\ pages = {Base}
    /\ others = {}
    /\ blocks = {}
    /\ chain = "sound"
    /\ pc = [t \in Thread |-> "idle"]
    /\ size = [t \in Thread |-> 0]
    /\ page = [t \in Thread |-> Base]
    /\ i = [t \in Thread |-> 0]
    /\ n = [t \in Thread |-> 0]
    /\ from = [t \in Thread |-> 0]
    /\ word = [t \in Thread |-> {}]

At(t, where) == chain = "sound" /\ pc[t] = where

-----------------------------------------------------------------------------
(* malloc.                                                                 *)

\* A scan of the page begins.
StartScan(t, p) ==
    /\ page' = [page EXCEPT ![t] = p]
    /\ i' = [i EXCEPT ![t] = 0]
    /\ n' = [n EXCEPT ![t] = 0]

Malloc(t, s) ==
    /\ At(t, "idle")
    /\ pc' = [pc EXCEPT ![t] = "scan"]
    /\ size' = [size EXCEPT ![t] = s]
    /\ StartScan(t, Base)
    /\ UNCHANGED <<bits, next, pages, others, blocks, chain, from, word>>

\* How many clear bits there are in a row.
InARowAll(t) == IF i[t] \in bits[page[t]] THEN n[t] ELSE n[t] + 1
    \* mutant: not set back to zero
InARow(t) == IF i[t] \in bits[page[t]] THEN 0 ELSE n[t] + 1

\* The last byte that is looked at.
LastByte == ALLOC_AREA - 1

Scan(t) ==
    /\ At(t, "scan")
    /\ i[t] <= LastByte
    /\ n' = [n EXCEPT ![t] = InARow(t)]
    /\ \/ /\ InARow(t) = size[t] + HEADER
          /\ pc' = [pc EXCEPT ![t] = "mark"]
          /\ from' = [from EXCEPT ![t] = 0]
          /\ i' = i
       \/ /\ InARow(t) # size[t] + HEADER
          /\ i' = [i EXCEPT ![t] = @ + 1]
          /\ UNCHANGED <<pc, from>>
    /\ UNCHANGED <<bits, next, pages, others, blocks, chain, size, page, word>>

NextPage(t) ==
    /\ At(t, "scan")
    /\ i[t] > LastByte
    /\ next[page[t]] # None
    /\ \/ /\ next[page[t]] = Junk
          /\ chain' = "cut"
          /\ UNCHANGED <<page, i, n>>
       \/ /\ next[page[t]] # Junk
          /\ StartScan(t, next[page[t]])
          /\ chain' = chain
    /\ UNCHANGED <<bits, next, pages, others, blocks, pc, size, from, word>>

\* palloc gives the first free page and clears the first bytes of it, the map
\* among them, but not the pointer to the next page.
FirstFree(p) ==
    /\ p \notin pages \cup others
    /\ \A q \in 1..p - 1 : q \in pages \cup others

\* The page that gets the pointer to a new one.
LastPage(t) == page[t]

Grow(t) ==
    /\ At(t, "scan")
    /\ i[t] > LastByte
    /\ next[page[t]] = None
    /\ \E p \in Page :
          /\ FirstFree(p)
          /\ pages' = pages \cup {p}
          /\ next' = [next EXCEPT ![LastPage(t)] = p]
          /\ bits' = [bits EXCEPT ![p] = {}]
          /\ StartScan(t, p)
    /\ UNCHANGED <<others, blocks, chain, pc, size, from, word>>

-----------------------------------------------------------------------------
(* The words of the map.                                                   *)

\* The word with the bit x, if words are counted from the bit f.
WordWith(x, f) ==
    {y \in Byte : y >= f /\ (y - f) \div BITS_PER_WORD = (x - f) \div BITS_PER_WORD}

ReadWord(t) ==
    /\ \/ At(t, "mark") /\ pc' = [pc EXCEPT ![t] = "marking"]
       \/ At(t, "free") /\ pc' = [pc EXCEPT ![t] = "freeing"]
    /\ word' = [word EXCEPT ![t] = bits[page[t]] \cap WordWith(i[t], from[t])]
    /\ UNCHANGED <<bits, next, pages, others, blocks, chain, size, page, i, n, from>>

WriteWord(t, w) ==
    bits' = [bits EXCEPT ![page[t]] = (@ \ WordWith(i[t], from[t])) \cup w]

\* Whether a byte of the area is a part of the pointer to the next page, or of
\* what comes after the page.
NoByteOfArea(x) == BMAP_AREA + x >= PAGE_SIZE - NEXT_PTR_SIZE

\* Bits are set and bytes cleared from the last to the first, and then the
\* size is written in front.
Mark(t) ==
    /\ At(t, "marking")
    /\ WriteWord(t, word[t] \cup {i[t]})
    /\ word' = [word EXCEPT ![t] = {}]
    /\ chain' = IF NoByteOfArea(i[t]) THEN "cut" ELSE chain
    /\ n' = [n EXCEPT ![t] = @ - 1]
    /\ \/ /\ n[t] > 1
          /\ pc' = [pc EXCEPT ![t] = "mark"]
          /\ i' = [i EXCEPT ![t] = @ - 1]
          /\ blocks' = blocks
       \/ /\ n[t] = 1
          /\ pc' = [pc EXCEPT ![t] = "idle"]
          /\ i' = i
          /\ blocks' = blocks \cup {[page |-> page[t], at |-> i[t], size |-> size[t]]}
    /\ UNCHANGED <<next, pages, others, size, page, from>>

-----------------------------------------------------------------------------
(* free, by a thread and in the tick.                                      *)

BytesOf(at, s) == at..at + HEADER + s - 1

\* Whether a page is found from the first one: it is in every set of pages
\* that the pointers do not lead out of.
Closed(S) == Base \in S /\ \A p \in S : next[p] \in pages => next[p] \in S
OnChain(p) == \A S \in SUBSET Page : Closed(S) => p \in S

\* How many bits are cleared: the header counts.
FreedNoHeader(b) == b.size  \* mutant: it does not
FreedMore(b) == b.size + HEADER + 1  \* mutant: one more
Freed(b) == b.size + HEADER

Free(t, b) ==
    /\ At(t, "idle")
    /\ b \in blocks
    /\ OnChain(b.page)
    /\ blocks' = blocks \ {b}
    /\ pc' = [pc EXCEPT ![t] = "free"]
    /\ page' = [page EXCEPT ![t] = b.page]
    /\ i' = [i EXCEPT ![t] = b.at]
    /\ n' = [n EXCEPT ![t] = Freed(b)]
    /\ from' = [from EXCEPT ![t] = b.at - (b.at % BITS_PER_BYTE)]
    /\ UNCHANGED <<bits, next, pages, others, chain, size, word>>

Clear(t) ==
    /\ At(t, "freeing")
    /\ WriteWord(t, word[t] \ {i[t]})
    /\ word' = [word EXCEPT ![t] = {}]
    /\ n' = [n EXCEPT ![t] = @ - 1]
    /\ \/ /\ n[t] > 1
          /\ pc' = [pc EXCEPT ![t] = "free"]
          /\ i' = [i EXCEPT ![t] = @ + 1]
       \/ /\ n[t] = 1
          /\ pc' = [pc EXCEPT ![t] = "idle"]
          /\ i' = i
    /\ UNCHANGED <<next, pages, others, blocks, chain, size, page, from>>

\* The tick frees in one step, whatever the threads are doing.
FreeInTick(b) ==
    /\ chain = "sound"
    /\ b \in blocks
    /\ OnChain(b.page)
    /\ blocks' = blocks \ {b}
    /\ bits' = [bits EXCEPT ![b.page] = @ \ (b.at..b.at + Freed(b) - 1)]
    /\ UNCHANGED <<next, pages, others, chain, local>>

-----------------------------------------------------------------------------
(* Other users of pages: palloc by threads, pfree also in the tick.        *)

Palloc(t) ==
    /\ WithOthers /\ At(t, "idle")
    /\ \E p \in Page :
          /\ FirstFree(p)
          /\ others' = others \cup {p}
          /\ \E x \in {None, Junk} : next' = [next EXCEPT ![p] = x]
    /\ UNCHANGED <<bits, pages, blocks, chain, local>>

Pfree ==
    /\ WithOthers /\ chain = "sound"
    /\ \E p \in others : others' = others \ {p}
    /\ UNCHANGED <<bits, next, pages, blocks, chain, local>>

-----------------------------------------------------------------------------
Step(t) ==
    \/ Scan(t) \/ NextPage(t) \/ Grow(t)
    \/ ReadWord(t) \/ Mark(t) \/ Clear(t)
    \/ Palloc(t)

Next ==
    \/ \E t \in Thread, s \in Size : Malloc(t, s)
    \/ \E t \in Thread, b \in blocks : Free(t, b)
    \/ \E t \in Thread : Step(t)
    \/ \E b \in blocks : FreeInTick(b)
    \/ Pfree

Spec == Init /\ [][Next]_vars

-----------------------------------------------------------------------------
(* Properties.                                                             *)

\* The types of the variables.
TypeOK ==
    /\ bits \in [Page -> SUBSET Byte]
    /\ next \in [Page -> Page \cup {None, Junk}]
    /\ pages \in SUBSET Page /\ others \in SUBSET Page
    /\ blocks \in SUBSET Block
    /\ chain \in {"sound", "cut"}
    /\ pc \in [Thread -> {"idle", "scan", "mark", "marking", "free", "freeing"}]
    /\ size \in [Thread -> Size \cup {0}]
    /\ page \in [Thread -> Page]
    /\ i \in [Thread -> 0..ALLOC_AREA]
    /\ n \in [Thread -> 0..ALLOC_AREA]
    /\ from \in [Thread -> Byte]
    /\ word \in [Thread -> SUBSET Byte]

Owned(b) == BytesOf(b.at, b.size)

\* The bytes a thread is about to get, or to give back.
InHand(t) ==
    CASE pc[t] \in {"mark", "marking"} -> BytesOf(i[t] + 1 - n[t], size[t])
      [] pc[t] \in {"free", "freeing"} -> i[t]..i[t] + n[t] - 1
      [] OTHER -> {}

\* No byte of the heap has two owners, those that wait for their block or are
\* giving it back included (dmemory.c:77-115).
NoOverlap ==
    \A b \in blocks :
        /\ \A c \in blocks : b # c /\ b.page = c.page => Owned(b) \cap Owned(c) = {}
        /\ \A t \in Thread : page[t] = b.page => InHand(t) \cap Owned(b) = {}

\* No byte that is owned shows as free, although free and the tick change
\* words between a read and a write of malloc (dmemory.c:102, 169).
OwnedMarked ==
    \A b \in blocks : Owned(b) \subseteq bits[b.page]

\* The bytes that are allocated and that nobody has.
Leaked(p) ==
    bits[p] \ ((UNION {Owned(b) : b \in {c \in blocks : c.page = p}})
                 \cup (UNION {InHand(t) : t \in {u \in Thread : page[u] = p}}))

\* A byte is lost only if the tick frees it after a thread read its word and
\* before the thread writes it back (dmemory.c:102, 169).
LeaksOnlyRaced ==
    [][\A p \in Page : \A x \in Leaked(p)' \ Leaked(p) :
          \E t \in Thread : page[t] = p /\ x \in word[t] \ bits[p]]_vars

\* free finds the page of each block by going through the chain, and the next
\* malloc its free bytes (dmemory.c:117-127, 153-160).
AllLinked == \A p \in pages : OnChain(p)

=============================================================================
