--------------------------- MODULE BlockAllocator ---------------------------
(***************************************************************************)
(* The block allocator of edenfs.c: balloc, find_in_level and bfree on the *)
(* hierarchy of bitmaps that format_edenfs lays out.                       *)
(*                                                                         *)
(* A bit of the last level stands for a block, a bit of the level above    *)
(* for a whole bitmap block below it.  Every access to the device puts the *)
(* thread to sleep (read_bbb and write_bbb end in wait_ticks) and there is *)
(* no lock, so each access is an action; in between the thread holds       *)
(* copies of bitmap blocks, one per level, on its heap.  Power can fail    *)
(* between any two accesses.                                               *)
(*                                                                         *)
(* A block is linked after balloc gave it.  delete and create free all     *)
(* blocks of a chain first, one after the other, and only then write the   *)
(* entry that leads to the chain: in between the entry leads to free       *)
(* blocks, and a power failure leaves it so.                               *)
(*                                                                         *)
(* The LBA offset * BITMAP_SIZE + bit is the pair <<offset, bit>>.         *)
(***************************************************************************)
EXTENDS Integers

CONSTANTS
    BITMAP_SIZE,   \* bits in a bitmap block, 4096 in the code
    BITMAPS,       \* bitmap blocks in the last level
    FIRST_BITMAP,  \* LBA of the first bitmap block: the boot area is before it
    Thread         \* threads that use the file system

ASSUME SizeAssumption ==
    BITMAP_SIZE \in Nat \ {0} /\ BITMAPS \in Nat \ {0} /\ FIRST_BITMAP \in Nat

\* block_count has 32 bits: a third level would need 2^36 blocks.
ASSUME LevelsAssumption == BITMAPS < BITMAP_SIZE * BITMAP_SIZE

\* A level exists while it has a whole bitmap block.
LEVELS == IF BITMAPS < BITMAP_SIZE THEN 1 ELSE 2
Level  == 0..LEVELS - 1
Bottom == LEVELS - 1
level_size(l) == IF l = Bottom THEN BITMAPS ELSE BITMAPS \div BITMAP_SIZE

\* The blocks before the root: the boot area and the bitmaps.
Formatted == FIRST_BITMAP + BITMAPS + (IF LEVELS = 2 THEN level_size(0) ELSE 0)

Bit    == 0..BITMAP_SIZE - 1
Offset == 0..BITMAPS - 1
Block  == Offset \X Bit
NoBlock == <<0, 0>>   \* LBA 0: the boot sector, and "no block" as a result

Loc == {"idle", "read", "scan", "clear", "link", "fread", "fwrite", "freed"}

VARIABLES
    bitmap,   \* on the device: the bits set in each bitmap block of each level
    pc,       \* where each thread is; "idle" outside balloc and bfree
    level,    \* the level a thread works at
    off,      \* the bitmap block it looks at in each level
    copy,     \* its copy of that bitmap block
    lba,      \* the block it takes or frees
    linked,   \* the blocks that entries and other blocks lead to
    freed,    \* those of them that the thread's delete or create has freed
    torn,     \* linked blocks a power failure left free, with their entry
    shared    \* torn blocks that were given and linked once more

tree  == <<linked, freed, torn, shared>>
vars  == <<bitmap, pc, level, off, copy, lba, tree>>

\* format_edenfs sets the bits of the blocks in use, level by level, and then
\* takes the next block for the root with balloc.
Init ==
    /\ bitmap = [l \in Level |-> [o \in 0..level_size(l) - 1 |->
                    IF l = Bottom
                    THEN {b \in Bit : o * BITMAP_SIZE + b <= Formatted}
                    ELSE {b \in Bit : (o * BITMAP_SIZE + b + 1) * BITMAP_SIZE
                                         <= Formatted}]]
    /\ pc = [t \in Thread |-> "idle"]
    /\ level = [t \in Thread |-> 0]
    /\ off = [t \in Thread |-> [l \in Level |-> 0]]
    /\ copy = [t \in Thread |-> [l \in Level |-> {}]]
    /\ lba = [t \in Thread |-> NoBlock]
    /\ linked = {} /\ torn = {} /\ shared = {}
    /\ freed = [t \in Thread |-> {}]

\* write_bbb of the thread's copy, with the bits in s, at level l.
WriteCopy(t, l, s) ==
    /\ bitmap' = [bitmap EXCEPT ![l][off[t][l]] = s]
    /\ copy' = [copy EXCEPT ![t][l] = s]

-----------------------------------------------------------------------------
(* balloc and find_in_level.                                               *)

Balloc(t) ==
    /\ pc[t] = "idle"
    /\ pc' = [pc EXCEPT ![t] = "read"]
    /\ level' = [level EXCEPT ![t] = 0]
    /\ off' = [off EXCEPT ![t][0] = 0]
    /\ UNCHANGED <<bitmap, copy, lba, tree>>

ReadBitmap(t) ==
    /\ pc[t] = "read"
    /\ copy' = [copy EXCEPT ![t][level[t]] = bitmap[level[t]][off[t][level[t]]]]
    /\ pc' = [pc EXCEPT ![t] = "scan"]
    /\ UNCHANGED <<bitmap, level, off, lba, tree>>

\* The first clear bit of the bitmap block the thread looks at.
FirstClearAny(t, b) == b \in Bit  \* mutant: the bit is not tested
FirstClear(t, b) ==
    /\ b \in Bit \ copy[t][level[t]]
    /\ \A c \in 0..b - 1 : c \in copy[t][level[t]]

MarkedNot(t, b) == copy[t][Bottom]  \* mutant: the bit is not set
Marked(t, b) == copy[t][Bottom] \cup {b}

\* At the last level the bit is set and written.
TakeBit(t) ==
    /\ pc[t] = "scan"
    /\ level[t] = Bottom
    /\ \E b \in Bit :
          /\ FirstClear(t, b)
          /\ WriteCopy(t, Bottom, Marked(t, b))
          /\ lba' = [lba EXCEPT ![t] = <<off[t][Bottom], b>>]
    /\ pc' = [pc EXCEPT ![t] = "clear"]
    /\ UNCHANGED <<level, off, tree>>

\* Above it the bitmap block the bit stands for is searched.
Descend(t) ==
    /\ pc[t] = "scan"
    /\ level[t] # Bottom
    /\ \E b \in Bit :
          /\ FirstClear(t, b)
          /\ off' = [off EXCEPT ![t][level[t] + 1] = b]
    /\ level' = [level EXCEPT ![t] = @ + 1]
    /\ pc' = [pc EXCEPT ![t] = "read"]
    /\ UNCHANGED <<bitmap, copy, lba, tree>>

NoneClearButLast(t) == Bit \ {BITMAP_SIZE - 1} \subseteq copy[t][level[t]]
    \* mutant: the last bit is not looked at
NoneClear(t) == Bit \subseteq copy[t][level[t]]

\* The bitmap block of the level above with the bit of this one set.
WithFullBit(t) == copy[t][level[t] - 1] \cup {off[t][level[t]]}

\* Nothing is clear here: back to the level above, which marks the bit ...
MarkFull(t) ==
    /\ pc[t] = "scan"
    /\ level[t] # 0
    /\ NoneClear(t)
    /\ WriteCopy(t, level[t] - 1, WithFullBit(t))
    /\ level' = [level EXCEPT ![t] = @ - 1]
    /\ UNCHANGED <<pc, off, lba, tree>>

\* ... and at the top balloc returns 0.
Fail(t) ==
    /\ pc[t] = "scan"
    /\ level[t] = 0
    /\ NoneClear(t)
    /\ pc' = [pc EXCEPT ![t] = "idle"]
    /\ UNCHANGED <<bitmap, level, off, copy, lba, tree>>

\* balloc zeroes the block and returns it ...  (LBA 0 would read as a
\* failure; its bit is set for ever, as nobody links it.)
ClearBlock(t) ==
    /\ pc[t] = "clear"
    /\ pc' = [pc EXCEPT ![t] = "link"]
    /\ UNCHANGED <<bitmap, level, off, copy, lba, tree>>

\* ... and its caller writes the entry or the part that leads to it.
Link(t) ==
    /\ pc[t] = "link"
    /\ linked' = linked \cup {lba[t]}
    /\ shared' = shared \cup ({lba[t]} \cap torn)
    /\ torn' = torn \ {lba[t]}
    /\ pc' = [pc EXCEPT ![t] = "idle"]
    /\ UNCHANGED <<bitmap, level, off, copy, lba, freed>>

-----------------------------------------------------------------------------
(* bfree: from the top level down.                                         *)

\* The bit of a block at level l, as <<offset, bit>>.
BitAt(b, l) == IF l = Bottom THEN b
               ELSE <<b[1] \div BITMAP_SIZE, b[1] % BITMAP_SIZE>>

\* The levels in the order bfree visits them.
BfreeLevel(i) == i

\* delete_chain_parts frees the first or the next block of a chain, which is
\* linked until the entry is written.
Bfree(t) ==
    /\ pc[t] \in {"idle", "freed"}
    /\ \E b \in linked \ freed[t] : lba' = [lba EXCEPT ![t] = b]
    /\ level' = [level EXCEPT ![t] = 0]
    /\ pc' = [pc EXCEPT ![t] = "fread"]
    /\ UNCHANGED <<bitmap, off, copy, tree>>

BfreeRead(t) ==
    /\ pc[t] = "fread"
    /\ LET l == BfreeLevel(level[t])
           o == BitAt(lba[t], l)[1]
       IN  /\ off' = [off EXCEPT ![t][l] = o]
           /\ copy' = [copy EXCEPT ![t][l] = bitmap[l][o]]
    /\ pc' = [pc EXCEPT ![t] = "fwrite"]
    /\ UNCHANGED <<bitmap, level, lba, tree>>

\* The bits of the thread's copy without the one of its block.
WithoutBit(t, l) == copy[t][l] \ {BitAt(lba[t], l)[2]}

BfreeWrite(t) ==
    /\ pc[t] = "fwrite"
    /\ LET l == BfreeLevel(level[t])
       IN  WriteCopy(t, l, WithoutBit(t, l))
    /\ IF level[t] = Bottom
       THEN /\ pc' = [pc EXCEPT ![t] = "freed"]
            /\ freed' = [freed EXCEPT ![t] = @ \cup {lba[t]}]
            /\ level' = level
       ELSE /\ level' = [level EXCEPT ![t] = @ + 1]
            /\ pc' = [pc EXCEPT ![t] = "fread"]
            /\ freed' = freed
    /\ UNCHANGED <<off, lba, linked, torn, shared>>

\* The entry is written without the chain.  A shared block has another entry.
Unlink(t) ==
    /\ pc[t] = "freed"
    /\ linked' = linked \ (freed[t] \ shared)
    /\ torn' = torn \ freed[t]
    /\ freed' = [freed EXCEPT ![t] = {}]
    /\ pc' = [pc EXCEPT ![t] = "idle"]
    /\ UNCHANGED <<bitmap, level, off, copy, lba, shared>>

-----------------------------------------------------------------------------
\* The blocks that were freed and are still linked.
InDeletion == UNION {freed[t] : t \in Thread}

\* Power fails and the machine boots again: what is on the device stays, an
\* entry that was to be written too.
PowerFails ==
    /\ torn' = torn \cup (InDeletion \ shared)
    /\ freed' = [t \in Thread |-> {}]
    /\ pc' = [t \in Thread |-> "idle"]
    /\ UNCHANGED <<bitmap, level, off, copy, lba, linked, shared>>

Step(t) == \/ ReadBitmap(t) \/ TakeBit(t) \/ Descend(t) \/ MarkFull(t)
           \/ Fail(t) \/ ClearBlock(t) \/ Link(t)
           \/ BfreeRead(t) \/ BfreeWrite(t) \/ Unlink(t)

Next == \/ \E t \in Thread : Balloc(t) \/ Bfree(t) \/ Step(t)
        \/ PowerFails

Spec == Init /\ [][Next]_vars

-----------------------------------------------------------------------------
(* Properties.                                                             *)

\* balloc has taken a block for the thread, which is not linked yet.
Allocating(t) == pc[t] \in {"clear", "link"}

\* Blocks that a power failure in the middle of a delete may have spoiled.
Spoiled == torn \cup shared

\* The blocks whose bit is set.
Used == {b \in Block : b[2] \in bitmap[Bottom][b[1]]}

\* The blocks find_in_level can reach: it starts at the first bitmap block.
Reachable == IF LEVELS = 1 THEN {0} \X Bit ELSE Bit \X Bit

\* The types; a block between balloc and its caller is in one thread only.
TypeOK ==
    /\ DOMAIN bitmap = Level
    /\ \A l \in Level : bitmap[l] \in [0..level_size(l) - 1 -> SUBSET Bit]
    /\ pc \in [Thread -> Loc]
    /\ level \in [Thread -> Level]
    /\ off \in [Thread -> [Level -> Offset]]
    /\ copy \in [Thread -> [Level -> SUBSET Bit]]
    /\ lba \in [Thread -> Block]
    /\ linked \subseteq Block /\ torn \subseteq Block /\ shared \subseteq Block
    /\ freed \in [Thread -> SUBSET Block]

\* A bit above the last level is set only while the bitmap block below it is
\* full, so no free block is ever hidden, after a power failure too
\* (edenfs.c:1092-1094, 1025-1039).
UpperFull ==
    LEVELS = 2 => \A o \in 0..level_size(0) - 1 : \A b \in bitmap[0][o] :
                     Bit \subseteq bitmap[1][o * BITMAP_SIZE + b]

\* A block the file system leads to, or is about to, is in use.  It is free
\* only while a delete or create is between freeing it and writing the entry
\* (edenfs.c:328-333, 438-446), or when power failed just there.
LinkedUsed ==
    /\ linked \subseteq Used \cup InDeletion \cup Spoiled
    /\ \A t \in Thread : Allocating(t) => lba[t] \in Used

\* balloc never gives a block that something leads to, or two threads the
\* same: "The function allocates a block." (edenfs.c:975, 983-995).  Only the
\* blocks a power failure left free in the middle of a delete are given again.
NoSharing ==
    \A t \in Thread : Allocating(t) =>
        /\ lba[t] \notin linked \ Spoiled
        /\ \A u \in Thread \ {t} : Allocating(u) => lba[u] # lba[t]

\* balloc gives up only when everything it can reach is in use: clear bits
\* are found wherever they are (edenfs.c:1074-1099).
FailOnlyWhenFull ==
    [][\A t \in Thread : Fail(t) => Reachable \subseteq Used]_vars

\* The allocator is a pool of blocks: each write takes, links, frees or unlinks
\* what BlockPool says, and a power failure does no more than Crash.
Pool == INSTANCE BlockPool WITH used <- Used, freed <- InDeletion
PoolSpec == Pool!Spec

=============================================================================
