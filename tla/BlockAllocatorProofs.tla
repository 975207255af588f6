------------------------ MODULE BlockAllocatorProofs ------------------------
(***************************************************************************)
(* Proofs about BlockAllocator, for every size of the volume, when one     *)
(* thread uses the file system.                                            *)
(*                                                                         *)
(* The argument: the copies of the bitmap blocks on the way from the top   *)
(* level to where find_in_level is are equal to the blocks on the device,  *)
(* because nobody else writes them; so what it sees clear or full is clear *)
(* or full.  bfree clears the bit of the upper level first, so the lower   *)
(* block it then makes non-full is not marked.                             *)
(***************************************************************************)
EXTENDS BlockAllocator, TLAPS

OneThread == \A t, u \in Thread : t = u

Searching(t) == pc[t] \in {"read", "scan"}
Freeing(t)   == pc[t] \in {"fread", "fwrite"}

\* The search begins at the first bitmap block of the top level, so all
\* blocks that were ever given out are within its reach.
ReachInv ==
    /\ linked \subseteq Reachable
    /\ \A t \in Thread :
          /\ pc[t] \in {"clear", "link", "fread", "fwrite"} => lba[t] \in Reachable
          /\ Searching(t) => /\ off[t][0] = 0
                             /\ level[t] = 1 => off[t][1] \in Bit

Same(t, l) == copy[t][l] = bitmap[l][off[t][l]]

\* The copies a thread is going to write back are up to date.
CopyInv ==
    \A t \in Thread :
        /\ pc[t] = "scan" => Same(t, level[t])
        /\ Searching(t) /\ level[t] = 1 => Same(t, 0)
        /\ pc[t] = "fwrite" => /\ off[t][level[t]] = BitAt(lba[t], level[t])[1]
                               /\ Same(t, level[t])

\* bfree works from the top level down on a block that is still linked, and
\* what a delete freed stays linked until its end.
FreeInv ==
    \A t \in Thread :
        /\ Freeing(t) => /\ lba[t] \in linked \ freed[t]
                         /\ level[t] = 1 => lba[t][1] \notin bitmap[0][0]
        /\ freed[t] \subseteq linked
        /\ pc[t] \notin {"fread", "fwrite", "freed"} => freed[t] = {}

IInv == /\ TypeOK /\ ReachInv /\ CopyInv /\ FreeInv
        /\ UpperFull /\ LinkedUsed /\ NoSharing

-----------------------------------------------------------------------------
\* Arithmetic.
LEMMA Division ==
    ASSUME NEW a \in Nat
    PROVE  /\ a \div BITMAP_SIZE \in Nat
           /\ BITMAP_SIZE * (a \div BITMAP_SIZE) <= a
           /\ a < BITMAP_SIZE * (a \div BITMAP_SIZE) + BITMAP_SIZE
           /\ a % BITMAP_SIZE \in Bit
BY SizeAssumption DEF Bit

LEMMA SmallDivision ==
    ASSUME NEW b \in Bit
    PROVE  b \div BITMAP_SIZE = 0 /\ b % BITMAP_SIZE = b
BY SizeAssumption DEF Bit

\* A bitmap block of the last level that a bit of the top level stands for.
LEMMA Below ==
    ASSUME LEVELS = 2, NEW o \in 0..level_size(0) - 1, NEW b \in Bit
    PROVE  /\ o * BITMAP_SIZE + b \in Offset
           /\ o = 0 => o * BITMAP_SIZE + b = b
           /\ o # 0 => o * BITMAP_SIZE + b \notin Bit
<1>1. BITMAP_SIZE \in Nat \ {0} /\ BITMAPS \in Nat \ {0} /\ BITMAPS >= BITMAP_SIZE
  BY SizeAssumption DEF LEVELS
<1>2. level_size(0) = BITMAPS \div BITMAP_SIZE
  BY DEF level_size, LEVELS, Bottom
<1> DEFINE q == BITMAPS \div BITMAP_SIZE
<1>3. q \in Nat /\ BITMAP_SIZE * q <= BITMAPS
  BY <1>1, Division
<1> HIDE DEF q
<1>4. o \in Nat /\ o + 1 <= q /\ b \in Nat /\ b < BITMAP_SIZE
  BY <1>1, <1>2, <1>3 DEF Bit, q
<1>5. BITMAP_SIZE * (o + 1) <= BITMAP_SIZE * q
  BY <1>1, <1>3, <1>4
<1>6. BITMAP_SIZE * (o + 1) = o * BITMAP_SIZE + BITMAP_SIZE
  BY <1>1, <1>4
<1>7. o * BITMAP_SIZE \in Nat /\ (o # 0 => o * BITMAP_SIZE >= BITMAP_SIZE)
  BY <1>1, <1>4
<1> QED BY <1>1, <1>3, <1>4, <1>5, <1>6, <1>7 DEF Offset, Bit

LEMMA LevelFacts ==
    /\ Bottom \in Level
    /\ LEVELS = 1 => Level = {0} /\ Bottom = 0
    /\ LEVELS = 2 => Level = {0, 1} /\ Bottom = 1
    /\ LEVELS \in {1, 2}
    /\ 0 \in Level
    /\ level_size(Bottom) = BITMAPS
    /\ \A l \in Level : level_size(l) \in Nat \ {0} /\ level_size(l) <= BITMAPS
    /\ LEVELS = 2 => Bit \subseteq Offset
<1>1. LEVELS = 2 => BITMAPS >= BITMAP_SIZE
  BY SizeAssumption DEF LEVELS
<1>2. LEVELS = 2 => /\ BITMAPS \div BITMAP_SIZE \in Nat \ {0}
                    /\ BITMAPS \div BITMAP_SIZE <= BITMAPS
  BY <1>1, SizeAssumption, Division
<1> QED BY <1>1, <1>2, SizeAssumption DEF Level, Bottom, level_size, LEVELS, Offset, Bit

LEMMA BitAtFacts ==
    ASSUME NEW b \in Reachable, NEW l \in Level
    PROVE  /\ BitAt(b, l)[1] \in 0..level_size(l) - 1
           /\ BitAt(b, l)[2] \in Bit
           /\ l = Bottom => BitAt(b, l) = b
           /\ l # Bottom => LEVELS = 2 /\ l = 0 /\ BitAt(b, l) = <<0, b[1]>>
           /\ b \in Block
<1>1. CASE LEVELS = 1
  BY <1>1, LevelFacts, SizeAssumption DEF Reachable, BitAt, Block, Offset
<1>2. CASE LEVELS = 2
  <2>1. b[1] \in Bit /\ b[2] \in Bit /\ b \in Block
    BY <1>2, LevelFacts DEF Reachable, Block
  <2>2. b[1] \div BITMAP_SIZE = 0 /\ b[1] % BITMAP_SIZE = b[1]
    BY <2>1, SmallDivision
  <2>3. BitAt(b, 0) = <<0, b[1]>> /\ BitAt(b, 1) = b
    BY <1>2, <2>2, LevelFacts DEF BitAt
  <2>4. b[1] \in 0..BITMAPS - 1
    BY <2>1, <1>2, LevelFacts DEF Offset
  <2> QED BY <1>2, <2>1, <2>3, <2>4, LevelFacts
<1> QED BY <1>1, <1>2, LevelFacts

\* What writing a copy back changes.
LEMMA WriteCopyFacts ==
    ASSUME TypeOK, NEW t \in Thread, NEW l \in Level, NEW s \in SUBSET Bit,
           off[t][l] \in 0..level_size(l) - 1, WriteCopy(t, l, s)
    PROVE  /\ DOMAIN bitmap' = Level
           /\ \A m \in Level :
                 /\ bitmap'[m] \in [0..level_size(m) - 1 -> SUBSET Bit]
                 /\ \A o \in 0..level_size(m) - 1 :
                       bitmap'[m][o] = IF m = l /\ o = off[t][l] THEN s
                                       ELSE bitmap[m][o]
           /\ copy' \in [Thread -> [Level -> SUBSET Bit]]
           /\ \A m \in Level : copy'[t][m] = IF m = l THEN s ELSE copy[t][m]
<1>1. copy' \in [Thread -> [Level -> SUBSET Bit]]
      /\ \A m \in Level : copy'[t][m] = IF m = l THEN s ELSE copy[t][m]
  BY DEF TypeOK, WriteCopy
<1>2. DOMAIN bitmap' = Level
  BY DEF TypeOK, WriteCopy
<1>3. ASSUME NEW m \in Level
      PROVE  /\ bitmap'[m] \in [0..level_size(m) - 1 -> SUBSET Bit]
             /\ \A o \in 0..level_size(m) - 1 :
                   bitmap'[m][o] = IF m = l /\ o = off[t][l] THEN s
                                   ELSE bitmap[m][o]
  <2> DEFINE S == 0..level_size(m) - 1
  <2>1. bitmap[m] \in [S -> SUBSET Bit]
    BY DEF TypeOK
  <2>2. bitmap' = [bitmap EXCEPT ![l] = [bitmap[l] EXCEPT ![off[t][l]] = s]]
    BY DEF WriteCopy
  <2>3. bitmap'[m] = IF m = l THEN [bitmap[m] EXCEPT ![off[t][l]] = s] ELSE bitmap[m]
    BY <2>2 DEF TypeOK
  <2>4. l = m => off[t][l] \in S
    OBVIOUS
  <2> HIDE DEF S
  <2>5. /\ bitmap'[m] \in [S -> SUBSET Bit]
        /\ \A o \in S : bitmap'[m][o] = IF m = l /\ o = off[t][l] THEN s
                                        ELSE bitmap[m][o]
    BY <2>1, <2>3, <2>4
  <2> QED BY <2>5 DEF S
<1> QED BY <1>1, <1>2, <1>3

-----------------------------------------------------------------------------
\* The bits the format sets above the last level.
LEMMA InitInv == ASSUME OneThread, Init PROVE IInv
<1>1. Formatted \in Nat
  BY LevelFacts, SizeAssumption DEF Formatted, Level
<1>2. TypeOK
  <2>1. ASSUME NEW l \in Level
        PROVE  bitmap[l] \in [0..level_size(l) - 1 -> SUBSET Bit]
    BY DEF Init
  <2>2. DOMAIN bitmap = Level /\ 0 \in Offset /\ NoBlock \in Block
    BY SizeAssumption DEF Init, Offset, NoBlock, Block, Bit
  <2> QED BY <2>1, <2>2, LevelFacts DEF Init, TypeOK, Loc
<1>3. UpperFull
  <2> SUFFICES ASSUME LEVELS = 2, NEW o \in 0..level_size(0) - 1,
                      NEW b \in bitmap[0][o], NEW c \in Bit
               PROVE  c \in bitmap[1][o * BITMAP_SIZE + b]
    BY DEF UpperFull
  <2> DEFINE x == o * BITMAP_SIZE + b
  <2>1. Bottom = 1 /\ 0 \in Level /\ 1 \in Level
    BY LevelFacts
  <2>2. b \in Bit /\ (x + 1) * BITMAP_SIZE <= Formatted
    BY <2>1 DEF Init
  <2>3. x \in Offset
    BY <2>2, Below
  <2>4. bitmap[1][x] = {d \in Bit : x * BITMAP_SIZE + d <= Formatted}
    BY <2>1, <2>3, LevelFacts DEF Init, Offset
  <2>5. x \in Nat /\ c \in Nat /\ c < BITMAP_SIZE
    BY <2>3, SizeAssumption DEF Offset, Bit
  <2> HIDE DEF x
  <2>6. (x + 1) * BITMAP_SIZE = x * BITMAP_SIZE + BITMAP_SIZE
        /\ x * BITMAP_SIZE \in Nat
    BY <2>5, SizeAssumption
  <2>7. x * BITMAP_SIZE + c <= Formatted
    BY <2>2, <2>5, <2>6, <1>1, SizeAssumption
  <2> QED BY <2>4, <2>7 DEF x
<1>4. ReachInv /\ CopyInv /\ FreeInv /\ LinkedUsed /\ NoSharing
  BY DEF Init, ReachInv, CopyInv, FreeInv, LinkedUsed, NoSharing, Searching,
         Freeing, Allocating, Spoiled
<1> QED BY <1>2, <1>3, <1>4 DEF IInv

\* The thread that moves is the only one.
LEMMA OnlyOne ==
    ASSUME OneThread, NEW t \in Thread
    PROVE  Thread = {t}
BY DEF OneThread

\* What follows from the pieces of the invariant that name the blocks only.
LEMMA UsedSame == ASSUME bitmap' = bitmap PROVE Used' = Used
BY DEF Used

\* With one thread, what is being deleted is its own.
LEMMA OwnDeletion ==
    ASSUME OneThread, NEW t \in Thread
    PROVE  InDeletion = freed[t] /\ InDeletion' = freed'[t]
BY OnlyOne DEF InDeletion

\* The bitmap blocks a search looks at exist.
LEMMA Positions ==
    ASSUME IInv, NEW t \in Thread, Searching(t)
    PROVE  /\ level[t] \in Level
           /\ \A l \in Level : l <= level[t] => off[t][l] \in 0..level_size(l) - 1
<1>1. level[t] \in Level /\ \A l \in Level : off[t][l] \in Offset
  BY DEF IInv, TypeOK
<1>2. off[t][0] = 0
  BY DEF IInv, ReachInv
<1>3. off[t][Bottom] \in 0..level_size(Bottom) - 1
  BY <1>1, LevelFacts DEF Offset
<1>4. 0 \in 0..level_size(0) - 1
  BY LevelFacts
<1> QED BY <1>1, <1>2, <1>3, <1>4, LevelFacts

LEMMA BallocInv ==
    ASSUME OneThread, IInv, NEW t \in Thread, Balloc(t)
    PROVE  IInv'
<1>1. TypeOK'
  BY LevelFacts, SizeAssumption DEF IInv, TypeOK, Balloc, Loc, Offset, tree
<1>2. pc'[t] = "read" /\ level'[t] = 0 /\ off'[t][0] = 0
  BY LevelFacts DEF IInv, TypeOK, Balloc, tree
<1>3. UpperFull' /\ LinkedUsed' /\ NoSharing'
  BY <1>2, UsedSame, OnlyOne, OwnDeletion
     DEF IInv, Balloc, UpperFull, LinkedUsed, NoSharing, Allocating, tree, Spoiled
<1>4. ReachInv' /\ CopyInv' /\ FreeInv'
  BY <1>2, OnlyOne DEF IInv, Balloc, ReachInv, CopyInv, FreeInv, Searching, Freeing, tree
<1> QED BY <1>1, <1>3, <1>4 DEF IInv

LEMMA ReadBitmapInv ==
    ASSUME OneThread, IInv, NEW t \in Thread, ReadBitmap(t)
    PROVE  IInv'
<1> DEFINE l == level[t]
<1>1. l \in Level /\ off[t][l] \in 0..level_size(l) - 1
  <2>1. Searching(t)
    BY DEF ReadBitmap, Searching, tree
  <2>2. l \in Int /\ l <= l
    BY <2>1, Positions, LevelFacts
  <2> QED BY <2>1, <2>2, Positions
<1>2. bitmap[l][off[t][l]] \in SUBSET Bit
  BY <1>1 DEF IInv, TypeOK
<1>3. TypeOK'
  BY <1>1, <1>2 DEF IInv, TypeOK, ReadBitmap, Loc, tree
<1>4. /\ pc'[t] = "scan"
      /\ copy'[t][l] = bitmap[l][off[t][l]]
      /\ \A m \in Level \ {l} : copy'[t][m] = copy[t][m]
  BY <1>1 DEF IInv, TypeOK, ReadBitmap, tree
<1>5. UpperFull' /\ LinkedUsed' /\ NoSharing'
  BY <1>4, UsedSame, OnlyOne, OwnDeletion
     DEF IInv, ReadBitmap, UpperFull, LinkedUsed, NoSharing, Allocating, tree, Spoiled
<1>6. CopyInv'
  BY <1>1, <1>4, OnlyOne, LevelFacts
     DEF IInv, ReadBitmap, CopyInv, Same, Searching, tree
<1>7. ReachInv' /\ FreeInv'
  BY <1>4, OnlyOne
     DEF IInv, ReadBitmap, ReachInv, FreeInv, Searching, Freeing, tree
<1> QED BY <1>3, <1>5, <1>6, <1>7 DEF IInv

LEMMA DescendInv ==
    ASSUME OneThread, IInv, NEW t \in Thread, Descend(t)
    PROVE  IInv'
<1>1. LEVELS = 2 /\ level[t] = 0 /\ 0 \in Level /\ 1 \in Level
  BY LevelFacts DEF IInv, TypeOK, Descend, tree
<1>2. PICK b \in Bit : off' = [off EXCEPT ![t][1] = b]
  <2>1. level[t] + 1 = 1
    BY <1>1
  <2>2. \E b \in Bit : off' = [off EXCEPT ![t][level[t] + 1] = b]
    BY DEF Descend, tree
  <2> QED BY <2>1, <2>2
<1>3. TypeOK'
  BY <1>1, <1>2, LevelFacts DEF IInv, TypeOK, Descend, Loc, tree
<1>4. /\ pc'[t] = "read" /\ level'[t] = 1
      /\ off'[t][0] = off[t][0] /\ off'[t][1] = b
  BY <1>1, <1>2 DEF IInv, TypeOK, Descend, tree
<1>5. UpperFull' /\ LinkedUsed' /\ NoSharing'
  BY <1>4, UsedSame, OnlyOne, OwnDeletion
     DEF IInv, Descend, UpperFull, LinkedUsed, NoSharing, Allocating, tree, Spoiled
<1>6. CopyInv'
  BY <1>1, <1>4, OnlyOne DEF IInv, Descend, CopyInv, Same, Searching, tree
<1>7. ReachInv' /\ FreeInv'
  BY <1>4, OnlyOne DEF IInv, Descend, ReachInv, FreeInv, Searching, Freeing, tree
<1> QED BY <1>3, <1>5, <1>6, <1>7 DEF IInv

LEMMA TakeBitInv ==
    ASSUME OneThread, IInv, NEW t \in Thread, TakeBit(t)
    PROVE  \E x \in Block \ Used : Used' = Used \cup {x} /\ IInv'
<1> DEFINE o == off[t][Bottom]
<1>1. /\ Bottom \in Level /\ o \in 0..level_size(Bottom) - 1 /\ o \in Offset
      /\ level_size(Bottom) = BITMAPS
  BY LevelFacts DEF IInv, TypeOK, Offset
<1>2. PICK b \in Bit : /\ FirstClear(t, b)
                       /\ WriteCopy(t, Bottom, Marked(t, b))
                       /\ lba' = [lba EXCEPT ![t] = <<o, b>>]
  BY DEF TakeBit, tree
<1>3. copy[t][Bottom] = bitmap[Bottom][o] /\ b \notin copy[t][Bottom]
  BY <1>2 DEF IInv, CopyInv, Same, TakeBit, FirstClear, tree
<1> DEFINE s == bitmap[Bottom][o] \cup {b}
<1>4. Marked(t, b) = s /\ s \in SUBSET Bit
  BY <1>1, <1>3 DEF Marked, IInv, TypeOK
<1>5. /\ DOMAIN bitmap' = Level
      /\ \A m \in Level :
            /\ bitmap'[m] \in [0..level_size(m) - 1 -> SUBSET Bit]
            /\ \A p \in 0..level_size(m) - 1 :
                  bitmap'[m][p] = IF m = Bottom /\ p = o THEN s ELSE bitmap[m][p]
      /\ copy' \in [Thread -> [Level -> SUBSET Bit]]
  BY <1>1, <1>2, <1>4, WriteCopyFacts DEF IInv
<1>6. pc'[t] = "clear" /\ lba'[t] = <<o, b>> /\ <<o, b>> \in Block
  BY <1>1, <1>2 DEF IInv, TypeOK, TakeBit, Block, tree
<1>7. TypeOK'
  BY <1>1, <1>2, <1>5, <1>6 DEF IInv, TypeOK, TakeBit, Loc, tree
<1>8. Used' = Used \cup {<<o, b>>}
  <2>1. \A x \in Block : x[1] \in 0..level_size(Bottom) - 1
    BY <1>1 DEF Block, Offset
  <2>2. \A x \in Block : x[2] \in bitmap'[Bottom][x[1]]
             <=> x[2] \in bitmap[Bottom][x[1]] \/ x = <<o, b>>
    BY <2>1, <1>1, <1>5 DEF Block
  <2> QED BY <2>2, <1>6 DEF Used
<1>9. <<o, b>> \notin Used
  BY <1>3 DEF Used
<1>10. UpperFull'
  <2> SUFFICES ASSUME LEVELS = 2, NEW p \in 0..level_size(0) - 1,
                      NEW c \in bitmap'[0][p]
               PROVE  Bit \subseteq bitmap'[1][p * BITMAP_SIZE + c]
    BY DEF UpperFull
  <2>1. Bottom = 1 /\ 0 \in Level /\ 1 \in Level
    BY LevelFacts
  <2>2. c \in bitmap[0][p] /\ c \in Bit
    <3>1. bitmap'[0][p] = bitmap[0][p]
      BY <2>1, <1>5
    <3>2. bitmap[0][p] \in SUBSET Bit
      BY <2>1 DEF IInv, TypeOK
    <3> QED BY <3>1, <3>2
  <2>3. p * BITMAP_SIZE + c \in 0..level_size(1) - 1
    BY <2>1, <2>2, <1>1, Below DEF Offset
  <2>4. Bit \subseteq bitmap[1][p * BITMAP_SIZE + c]
    BY <2>2 DEF IInv, UpperFull
  <2> QED BY <2>1, <2>3, <2>4, <1>5
<1>11. LinkedUsed' /\ NoSharing'
  <2>1. UNCHANGED <<linked, Spoiled>> /\ InDeletion = {} /\ InDeletion' = {}
    BY OwnDeletion DEF IInv, FreeInv, TakeBit, tree, Spoiled
  <2>2. pc'[t] = "clear" /\ lba'[t] \in Used'
    BY <1>6, <1>8
  <2>3. LinkedUsed'
    BY <2>1, <2>2, <1>8, OnlyOne DEF IInv, LinkedUsed
  <2>4. lba'[t] \notin linked \ Spoiled
    BY <2>1, <1>6, <1>9 DEF IInv, LinkedUsed
  <2> QED BY <2>1, <2>3, <2>4, OnlyOne DEF NoSharing
<1>12. <<o, b>> \in Reachable
  BY LevelFacts DEF IInv, TypeOK, ReachInv, TakeBit, Reachable, Searching, tree
<1>13. ReachInv' /\ CopyInv' /\ FreeInv'
  BY <1>6, <1>12, OnlyOne
     DEF IInv, TakeBit, ReachInv, CopyInv, FreeInv, Searching, Freeing, tree
<1> QED BY <1>6, <1>7, <1>8, <1>9, <1>10, <1>11, <1>13 DEF IInv

LEMMA MarkFullInv ==
    ASSUME OneThread, IInv, NEW t \in Thread, MarkFull(t)
    PROVE  Used' = Used /\ IInv'
<1>1. /\ LEVELS = 2 /\ level[t] = 1 /\ Bottom = 1
      /\ Level = {0, 1} /\ level_size(1) = BITMAPS
  BY LevelFacts DEF IInv, TypeOK, MarkFull, tree
<1>2. Searching(t) /\ level[t] - 1 = 0
  BY <1>1 DEF MarkFull, Searching, tree
<1> DEFINE c == off[t][1]
           s == bitmap[0][0] \cup {c}
<1>3. off[t][0] = 0 /\ c \in Bit /\ 0 \in 0..level_size(0) - 1
  BY <1>1, <1>2, Positions DEF IInv, ReachInv
<1>4. bitmap[0][0] \in SUBSET Bit /\ s \in SUBSET Bit
  <2>1. bitmap[0] \in [0..level_size(0) - 1 -> SUBSET Bit]
    BY <1>1 DEF IInv, TypeOK
  <2>2. bitmap[0][0] \in SUBSET Bit
    BY <2>1, <1>3
  <2> QED BY <2>2, <1>3
<1>5. Same(t, 0) /\ Same(t, 1) /\ Bit \subseteq copy[t][1]
  BY <1>1, <1>2 DEF IInv, CopyInv, MarkFull, NoneClear, tree
<1>6. WriteCopy(t, 0, s)
  <2>1. WithFullBit(t) = s
    BY <1>1, <1>2, <1>3, <1>5 DEF WithFullBit, Same
  <2> QED BY <2>1, <1>2 DEF MarkFull, tree
<1>7. /\ DOMAIN bitmap' = Level
      /\ \A m \in Level :
            /\ bitmap'[m] \in [0..level_size(m) - 1 -> SUBSET Bit]
            /\ \A p \in 0..level_size(m) - 1 :
                  bitmap'[m][p] = IF m = 0 /\ p = 0 THEN s ELSE bitmap[m][p]
      /\ copy' \in [Thread -> [Level -> SUBSET Bit]]
      /\ \A m \in Level : copy'[t][m] = IF m = 0 THEN s ELSE copy[t][m]
  BY <1>1, <1>3, <1>4, <1>6, WriteCopyFacts DEF IInv
<1>8. level'[t] = 0 /\ pc'[t] = "scan" /\ level' \in [Thread -> Level]
  BY <1>1, <1>2 DEF IInv, TypeOK, MarkFull, tree
<1>9. TypeOK'
  BY <1>7, <1>8 DEF IInv, TypeOK, MarkFull, tree
<1>10. \A p \in 0..level_size(1) - 1 : bitmap'[1][p] = bitmap[1][p]
  BY <1>1, <1>7
<1>11. Used' = Used
  <2>1. \A x \in Block : x[1] \in 0..level_size(1) - 1
    BY <1>1 DEF Block, Offset
  <2> QED BY <2>1, <1>1, <1>10 DEF Used
<1>12. UpperFull'
  <2> SUFFICES ASSUME NEW p \in 0..level_size(0) - 1, NEW d \in bitmap'[0][p]
               PROVE  Bit \subseteq bitmap'[1][p * BITMAP_SIZE + d]
    BY DEF UpperFull
  <2>1. CASE d \in bitmap[0][p]
    <3>1. d \in Bit
      BY <2>1, <1>1 DEF IInv, TypeOK
    <3>2. p * BITMAP_SIZE + d \in 0..level_size(1) - 1
      BY <3>1, <1>1, Below DEF Offset
    <3> QED BY <2>1, <3>2, <1>1, <1>10 DEF IInv, UpperFull
  <2>2. CASE d \notin bitmap[0][p]
    <3>1. p = 0 /\ d = c
      BY <2>2, <1>1, <1>7
    <3>2. p * BITMAP_SIZE + d = c /\ c \in 0..level_size(1) - 1
      BY <3>1, <1>1, <1>3, Below DEF Offset
    <3>3. Bit \subseteq bitmap[1][c]
      BY <1>5 DEF Same
    <3> QED BY <3>2, <3>3, <1>10
  <2> QED BY <2>1, <2>2
<1>13. LinkedUsed' /\ NoSharing'
  <2>1. UNCHANGED <<linked, Spoiled, InDeletion>>
    BY DEF MarkFull, tree, Spoiled, InDeletion
  <2> QED BY <2>1, <1>8, <1>11, OnlyOne
          DEF IInv, LinkedUsed, NoSharing, Allocating
<1>14. ReachInv' /\ FreeInv'
  BY <1>2, <1>8, OnlyOne
     DEF IInv, MarkFull, ReachInv, FreeInv, Searching, Freeing, tree
<1>15. CopyInv'
  <2>1. copy'[t][0] = bitmap'[0][off'[t][0]]
    BY <1>1, <1>3, <1>7 DEF MarkFull, tree
  <2> QED BY <2>1, <1>8, OnlyOne DEF CopyInv, Same, Searching
<1> QED BY <1>9, <1>11, <1>12, <1>13, <1>14, <1>15 DEF IInv

LEMMA FailInv ==
    ASSUME OneThread, IInv, NEW t \in Thread, Fail(t)
    PROVE  IInv' /\ Reachable \subseteq Used
<1>1. pc'[t] = "idle" /\ pc' \in [Thread -> Loc]
  BY DEF IInv, TypeOK, Fail, Loc, tree
<1>2. IInv'
  BY <1>1, UsedSame, OnlyOne, OwnDeletion
     DEF Fail, IInv, TypeOK, ReachInv, CopyInv, FreeInv, UpperFull, LinkedUsed,
         NoSharing, Searching, Freeing, Allocating, tree, Spoiled
<1>3. Searching(t) /\ off[t][0] = 0 /\ 0 \in 0..level_size(0) - 1
  BY LevelFacts DEF Fail, Searching, IInv, ReachInv, tree
<1>4. Bit \subseteq bitmap[0][0]
  BY <1>3 DEF Fail, NoneClear, IInv, CopyInv, Same, tree
<1>5. CASE LEVELS = 1
  <2>1. Bottom = 0 /\ 0 \in Offset /\ Reachable = {0} \X Bit
    BY <1>5, LevelFacts, SizeAssumption DEF Reachable, Offset
  <2>2. \A b \in Bit : <<0, b>> \in Block /\ b \in bitmap[Bottom][0]
    BY <2>1, <1>4 DEF Block
  <2> QED BY <2>1, <2>2, <1>2 DEF Used
<1>6. CASE LEVELS = 2
  <2>1. ASSUME NEW c \in Bit, NEW b \in Bit PROVE <<c, b>> \in Used
    <3>1. Bit \subseteq bitmap[1][0 * BITMAP_SIZE + c]
      BY <1>3, <1>4, <1>6 DEF IInv, UpperFull
    <3>2. 0 * BITMAP_SIZE + c = c /\ c \in Offset
      BY <1>3, <1>6, Below, LevelFacts
    <3> QED BY <3>1, <3>2, <1>6, LevelFacts DEF Used, Block
  <2>2. Reachable = Bit \X Bit
    BY <1>6 DEF Reachable
  <2> QED BY <2>1, <2>2, <1>2
<1> QED BY <1>2, <1>5, <1>6, LevelFacts

LEMMA ClearBlockInv ==
    ASSUME OneThread, IInv, NEW t \in Thread, ClearBlock(t)
    PROVE  IInv'
<1>1. pc'[t] = "link" /\ pc' \in [Thread -> Loc]
  BY DEF IInv, TypeOK, ClearBlock, Loc
<1>2. TypeOK' /\ UpperFull' /\ CopyInv'
  BY <1>1, OnlyOne DEF ClearBlock, tree, IInv, TypeOK, UpperFull, CopyInv, Searching
<1>3. LinkedUsed' /\ NoSharing' /\ ReachInv' /\ FreeInv'
  BY <1>1, UsedSame, OnlyOne, OwnDeletion
     DEF ClearBlock, tree, IInv, LinkedUsed, NoSharing, ReachInv, FreeInv,
         Searching, Freeing, Allocating, Spoiled
<1> QED BY <1>2, <1>3 DEF IInv

LEMMA LinkInv ==
    ASSUME OneThread, IInv, NEW t \in Thread, Link(t)
    PROVE  IInv'
<1>1. pc'[t] = "idle" /\ pc' \in [Thread -> Loc]
  BY DEF IInv, TypeOK, Link, Loc
<1>2. lba[t] \in Block /\ lba[t] \in Reachable /\ lba[t] \in Used /\ freed[t] = {}
  BY DEF IInv, TypeOK, ReachInv, LinkedUsed, FreeInv, Allocating, Link
<1>3. linked' = linked \cup {lba[t]} /\ Spoiled \subseteq Spoiled'
  BY DEF Link, Spoiled
<1>4. TypeOK' /\ UpperFull' /\ CopyInv'
  BY <1>1, <1>2, <1>3, OnlyOne
     DEF Link, IInv, TypeOK, UpperFull, CopyInv, Searching
<1>5. NoSharing' /\ ReachInv' /\ FreeInv'
  BY <1>1, <1>2, <1>3, OnlyOne
     DEF Link, IInv, NoSharing, ReachInv, FreeInv, Searching, Freeing, Allocating
<1>6. LinkedUsed'
  BY <1>1, <1>2, <1>3, UsedSame, OnlyOne, OwnDeletion
     DEF Link, IInv, LinkedUsed, Allocating
<1> QED BY <1>4, <1>5, <1>6 DEF IInv

LEMMA BfreeInv ==
    ASSUME OneThread, IInv, NEW t \in Thread, Bfree(t)
    PROVE  IInv'
<1>1. PICK b \in linked \ freed[t] : lba' = [lba EXCEPT ![t] = b]
  BY DEF Bfree
<1>2. b \in Block /\ b \in Reachable
  BY DEF IInv, TypeOK, ReachInv
<1>3. lba'[t] = b /\ pc'[t] = "fread" /\ level'[t] = 0
  BY <1>1, LevelFacts DEF IInv, TypeOK, Bfree
<1>4. TypeOK'
  BY <1>1, <1>2, LevelFacts DEF IInv, TypeOK, Bfree, Loc, tree
<1>5. UpperFull' /\ CopyInv'
  BY <1>3, OnlyOne DEF Bfree, tree, IInv, UpperFull, CopyInv, Searching
<1>6. NoSharing' /\ ReachInv' /\ FreeInv'
  BY <1>1, <1>2, <1>3, OnlyOne
     DEF Bfree, tree, IInv, NoSharing, ReachInv, FreeInv, Searching, Freeing,
         Allocating
<1>7. LinkedUsed'
  BY <1>3, UsedSame, OnlyOne, OwnDeletion
     DEF Bfree, tree, IInv, LinkedUsed, Allocating, Spoiled
<1> QED BY <1>4, <1>5, <1>6, <1>7 DEF IInv

LEMMA BfreeReadInv ==
    ASSUME OneThread, IInv, NEW t \in Thread, BfreeRead(t)
    PROVE  IInv'
<1> DEFINE l == level[t]
           o == BitAt(lba[t], l)[1]
<1>1. l \in Level /\ lba[t] \in Reachable /\ Freeing(t)
  BY DEF IInv, TypeOK, ReachInv, BfreeRead, Freeing, tree
<1>2. o \in 0..level_size(l) - 1 /\ o \in Offset
  BY <1>1, BitAtFacts, LevelFacts DEF Offset
<1>3. bitmap[l][o] \in SUBSET Bit
  BY <1>1, <1>2 DEF IInv, TypeOK
<1>4. /\ off' = [off EXCEPT ![t][l] = o]
      /\ copy' = [copy EXCEPT ![t][l] = bitmap[l][o]]
      /\ pc' = [pc EXCEPT ![t] = "fwrite"]
  BY DEF BfreeRead, BfreeLevel, tree
<1>5. off'[t][l] = o /\ copy'[t][l] = bitmap[l][o] /\ pc'[t] = "fwrite"
  BY <1>1, <1>4 DEF IInv, TypeOK
<1>6. TypeOK'
  <2>1. off' \in [Thread -> [Level -> Offset]]
    BY <1>1, <1>2, <1>4 DEF IInv, TypeOK
  <2>2. copy' \in [Thread -> [Level -> SUBSET Bit]]
    <3> DEFINE s == bitmap[l][o]
    <3> HIDE DEF s
    <3>1. copy' = [copy EXCEPT ![t][l] = s] /\ s \in SUBSET Bit
      BY <1>3, <1>4 DEF s
    <3> QED BY <3>1, <1>1 DEF IInv, TypeOK
  <2>3. pc' \in [Thread -> Loc]
    BY <1>4 DEF IInv, TypeOK, Loc
  <2> QED BY <2>1, <2>2, <2>3 DEF IInv, TypeOK, BfreeRead, tree
<1>7. CopyInv'
  BY <1>5, OnlyOne DEF BfreeRead, CopyInv, Same, Searching, tree
<1>8. UpperFull' /\ LinkedUsed' /\ NoSharing' /\ ReachInv' /\ FreeInv'
  BY <1>1, <1>5, UsedSame, OnlyOne, OwnDeletion
     DEF BfreeRead, IInv, UpperFull, LinkedUsed, NoSharing, ReachInv, FreeInv,
         Searching, Freeing, Allocating, tree, Spoiled
<1> QED BY <1>6, <1>7, <1>8 DEF IInv

LEMMA BfreeWriteInv ==
    ASSUME OneThread, IInv, NEW t \in Thread, BfreeWrite(t)
    PROVE  /\ IInv'
           /\ linked' = linked /\ torn' = torn /\ shared' = shared
           /\ \/ Used' = Used /\ freed' = freed
              \/ /\ Used' = Used \ {lba[t]}
                 /\ freed' = [freed EXCEPT ![t] = @ \cup {lba[t]}]
<1> DEFINE l == level[t]
           b == lba[t]
           o == BitAt(b, l)[1]
           d == BitAt(b, l)[2]
           s == bitmap[l][o] \ {d}
<1>1. l \in Level /\ b \in Reachable /\ Freeing(t) /\ b \in Block
  BY DEF IInv, TypeOK, ReachInv, BfreeWrite, Freeing, tree
<1>2. o \in 0..level_size(l) - 1 /\ d \in Bit
  BY <1>1, BitAtFacts
<1>3. off[t][l] = o /\ copy[t][l] = bitmap[l][o]
  BY DEF IInv, CopyInv, Same, BfreeWrite, tree
<1>4. bitmap[l] \in [0..level_size(l) - 1 -> SUBSET Bit]
  BY <1>1 DEF IInv, TypeOK
<1>5. s \in SUBSET Bit
  BY <1>2, <1>4
<1>6. WriteCopy(t, l, s)
  BY <1>3 DEF BfreeWrite, BfreeLevel, WithoutBit, tree
<1>7. /\ DOMAIN bitmap' = Level
      /\ \A m \in Level :
            /\ bitmap'[m] \in [0..level_size(m) - 1 -> SUBSET Bit]
            /\ \A p \in 0..level_size(m) - 1 :
                  bitmap'[m][p] = IF m = l /\ p = o THEN s ELSE bitmap[m][p]
      /\ copy' \in [Thread -> [Level -> SUBSET Bit]]
  <2> HIDE DEF s, o, l
  <2> QED BY <1>1, <1>2, <1>3, <1>5, <1>6, WriteCopyFacts DEF IInv
<1>8. /\ l = Bottom  => /\ pc'[t] = "freed" /\ level' = level
                       /\ freed' = [freed EXCEPT ![t] = @ \cup {b}]
      /\ l # Bottom => /\ LEVELS = 2 /\ l = 0 /\ level'[t] = 1
                       /\ pc'[t] = "fread" /\ level' \in [Thread -> Level]
                       /\ freed' = freed
      /\ pc' \in [Thread -> Loc]
  <2>1. l # Bottom => LEVELS = 2 /\ l = 0 /\ l + 1 = 1 /\ 1 \in Level
    BY <1>1, LevelFacts
  <2> QED BY <2>1 DEF IInv, TypeOK, BfreeWrite, Loc, tree
<1>9. TypeOK'
  <2>1. level' \in [Thread -> Level] /\ freed' \in [Thread -> SUBSET Block]
    BY <1>1, <1>8 DEF IInv, TypeOK
  <2> QED BY <2>1, <1>7, <1>8 DEF IInv, TypeOK, BfreeWrite, tree
<1>10. b \in linked \ freed[t] /\ freed[t] \in SUBSET Block
  BY <1>1 DEF IInv, FreeInv, TypeOK
<1>11. \A x \in Block : x[1] \in 0..level_size(Bottom) - 1
  BY LevelFacts DEF Block, Offset
<1>12. CASE l = Bottom
  <2>1. o = b[1] /\ d = b[2] /\ b = <<b[1], b[2]>>
    BY <1>1, <1>12, BitAtFacts DEF Block
  <2>2. Used' = Used \ {b}
    <3>1. ASSUME NEW x \in Block
          PROVE  x[2] \in bitmap'[Bottom][x[1]]
                     <=> x[2] \in bitmap[Bottom][x[1]] /\ x # b
      <4>1. x[1] \in 0..level_size(Bottom) - 1 /\ Bottom \in Level
        BY <1>11, LevelFacts
      <4>2. bitmap'[Bottom][x[1]] = IF x[1] = o THEN s ELSE bitmap[Bottom][x[1]]
        BY <4>1, <1>7, <1>12
      <4>3. x = b <=> x[1] = o /\ x[2] = d
        BY <2>1 DEF Block
      <4>4. x[1] = o => s = bitmap[Bottom][x[1]] \ {d}
        BY <1>12
      <4> HIDE DEF s, o, d, b
      <4> QED BY <4>2, <4>3, <4>4
    <3> QED BY <3>1 DEF Used
  <2>3. UpperFull'
    <3> SUFFICES ASSUME LEVELS = 2, NEW p \in 0..level_size(0) - 1,
                        NEW c \in bitmap'[0][p]
                 PROVE  Bit \subseteq bitmap'[1][p * BITMAP_SIZE + c]
      BY DEF UpperFull
    <3>1. Bottom = 1 /\ 0 \in Level /\ 1 \in Level /\ level_size(1) = BITMAPS
      BY LevelFacts
    <3>2. bitmap'[0][p] = bitmap[0][p]
      BY <3>1, <1>7, <1>12
    <3>3. c \in bitmap[0][p] /\ c \in Bit
      <4>1. bitmap[0][p] \in SUBSET Bit
        BY <3>1 DEF IInv, TypeOK
      <4> QED BY <3>2, <4>1
    <3>4. p * BITMAP_SIZE + c \in 0..level_size(1) - 1
      BY <3>1, <3>3, Below DEF Offset
    <3>5. Bit \subseteq bitmap[1][p * BITMAP_SIZE + c]
      BY <3>3 DEF IInv, UpperFull
    <3>6. p * BITMAP_SIZE + c # o
      <4>1. b[1] \notin bitmap[0][0] /\ b[1] \in Bit
        BY <3>1, <1>1, <1>12, LevelFacts DEF IInv, FreeInv, Reachable
      <4> QED BY <4>1, <2>1, <3>3, Below
    <3> QED BY <3>1, <3>4, <3>5, <3>6, <1>7
  <2>4. linked \subseteq Used \cup freed[t] \cup Spoiled
        /\ UNCHANGED <<linked, Spoiled>> /\ InDeletion' = freed[t] \cup {b}
    BY <1>8, <1>12, OwnDeletion DEF IInv, TypeOK, LinkedUsed, BfreeWrite, Spoiled
  <2>5. LinkedUsed' /\ NoSharing'
    BY <2>2, <2>4, <1>8, <1>12, OnlyOne DEF LinkedUsed, NoSharing, Allocating
  <2>6. ReachInv' /\ CopyInv' /\ FreeInv'
    BY <1>8, <1>10, <1>12, OnlyOne
       DEF BfreeWrite, IInv, TypeOK, ReachInv, CopyInv, FreeInv, Searching, Freeing
  <2> QED BY <2>2, <2>3, <2>5, <2>6, <1>8, <1>9, <1>12 DEF IInv, BfreeWrite
<1>13. CASE l # Bottom
  <2>1. /\ LEVELS = 2 /\ l = 0 /\ o = 0 /\ d = b[1]
        /\ Bottom = 1 /\ 0 \in Level /\ 1 \in Level /\ level_size(1) = BITMAPS
    BY <1>1, <1>13, BitAtFacts, LevelFacts
  <2>2. \A p \in 0..level_size(1) - 1 : bitmap'[1][p] = bitmap[1][p]
    BY <2>1, <1>7
  <2>3. Used' = Used
    BY <2>1, <2>2, <1>11 DEF Used
  <2>4. b[1] \notin bitmap'[0][0]
    BY <2>1, <1>2, <1>7
  <2>5. UpperFull'
    <3> SUFFICES ASSUME NEW p \in 0..level_size(0) - 1, NEW c \in bitmap'[0][p]
                 PROVE  Bit \subseteq bitmap'[1][p * BITMAP_SIZE + c]
      BY DEF UpperFull
    <3>1. c \in bitmap[0][p]
      BY <2>1, <1>7
    <3>2. c \in Bit
      <4>1. bitmap[0][p] \in SUBSET Bit
        BY <2>1 DEF IInv, TypeOK
      <4> QED BY <3>1, <4>1
    <3>3. p * BITMAP_SIZE + c \in 0..level_size(1) - 1
      BY <2>1, <3>2, Below DEF Offset
    <3>4. Bit \subseteq bitmap[1][p * BITMAP_SIZE + c]
      BY <2>1, <3>1 DEF IInv, UpperFull
    <3> QED BY <2>2, <3>3, <3>4
  <2>6. UNCHANGED <<linked, Spoiled, InDeletion>>
    BY <1>8, <1>13 DEF BfreeWrite, Spoiled, InDeletion
  <2>7. LinkedUsed' /\ NoSharing'
    BY <2>3, <2>6, <1>8, <1>13, OnlyOne DEF IInv, LinkedUsed, NoSharing, Allocating
  <2>8. ReachInv' /\ CopyInv' /\ FreeInv'
    BY <2>4, <1>1, <1>8, <1>10, <1>13, OnlyOne
       DEF BfreeWrite, IInv, ReachInv, CopyInv, FreeInv, Searching, Freeing
  <2> QED BY <2>3, <2>5, <2>7, <2>8, <1>8, <1>9, <1>13 DEF IInv, BfreeWrite
<1> QED BY <1>12, <1>13

LEMMA UnlinkInv ==
    ASSUME OneThread, IInv, NEW t \in Thread, Unlink(t)
    PROVE  IInv'
<1>1. pc'[t] = "idle" /\ pc' \in [Thread -> Loc]
  BY DEF IInv, TypeOK, Unlink, Loc
<1>2. freed' \in [Thread -> SUBSET Block] /\ freed'[t] = {}
  BY DEF IInv, TypeOK, Unlink
<1>3. TypeOK' /\ UpperFull' /\ CopyInv'
  BY <1>1, <1>2, OnlyOne DEF Unlink, IInv, TypeOK, UpperFull, CopyInv, Searching
<1>4. NoSharing' /\ ReachInv' /\ FreeInv'
  BY <1>1, <1>2, OnlyOne
     DEF Unlink, IInv, NoSharing, ReachInv, FreeInv, Searching, Freeing, Allocating
<1>5. LinkedUsed'
  BY <1>1, <1>2, UsedSame, OnlyOne, OwnDeletion
     DEF Unlink, IInv, LinkedUsed, Allocating, Spoiled
<1> QED BY <1>3, <1>4, <1>5 DEF IInv

LEMMA PowerFailsInv ==
    ASSUME IInv, PowerFails
    PROVE  IInv' /\ Used' = Used
<1>1. \A t \in Thread : pc'[t] = "idle" /\ freed'[t] = {}
  BY DEF PowerFails
<1>2. pc' \in [Thread -> Loc] /\ freed' \in [Thread -> SUBSET Block]
  BY DEF PowerFails, Loc
<1>3. InDeletion \in SUBSET Block /\ InDeletion' = {}
  BY <1>1 DEF InDeletion, IInv, TypeOK
<1>4. TypeOK'
  BY <1>2, <1>3 DEF PowerFails, IInv, TypeOK
<1>5. LinkedUsed'
  BY <1>1, <1>3, UsedSame DEF PowerFails, IInv, LinkedUsed, Allocating, Spoiled
<1> QED BY <1>1, <1>4, <1>5, UsedSame
        DEF PowerFails, IInv, ReachInv, CopyInv, FreeInv, UpperFull,
            NoSharing, Searching, Freeing, Allocating

LEMMA StutterInv ==
    ASSUME IInv, UNCHANGED vars
    PROVE  IInv' /\ Used' = Used
<1>1. TypeOK' /\ UpperFull' /\ Used' = Used
  BY UsedSame DEF vars, tree, IInv, TypeOK, UpperFull
<1>2. LinkedUsed' /\ NoSharing'
  BY <1>1 DEF vars, tree, IInv, LinkedUsed, NoSharing, Allocating, Spoiled, InDeletion
<1>3. ReachInv' /\ CopyInv' /\ FreeInv'
  BY DEF vars, tree, IInv, ReachInv, CopyInv, FreeInv, Searching, Freeing, Same
<1> QED BY <1>1, <1>2, <1>3 DEF IInv

-----------------------------------------------------------------------------
LEMMA StepInv == ASSUME OneThread PROVE IInv /\ [Next]_vars => IInv'
<1> SUFFICES ASSUME IInv, [Next]_vars PROVE IInv'
  OBVIOUS
<1>1. ASSUME NEW t \in Thread, Balloc(t) \/ Bfree(t) \/ Step(t) PROVE IInv'
  BY <1>1, BallocInv, BfreeInv, ReadBitmapInv, TakeBitInv, DescendInv,
     MarkFullInv, FailInv, ClearBlockInv, LinkInv, BfreeReadInv, BfreeWriteInv,
     UnlinkInv DEF Step
<1> QED BY <1>1, PowerFailsInv, StutterInv DEF Next

\* The inductive invariant holds in every reachable state.
THEOREM Invariance == ASSUME OneThread PROVE Spec => []IInv
<1>1. Init => IInv
  BY InitInv
<1>2. IInv /\ [Next]_vars => IInv'
  BY StepInv
<1> QED BY <1>1, <1>2, PTL DEF Spec

\* Every variable keeps its type.
THEOREM TypeCorrect == ASSUME OneThread PROVE Spec => []TypeOK
<1>1. IInv => TypeOK
  BY DEF IInv
<1> QED BY <1>1, Invariance, PTL

\* A set bit of the upper level never hides a free block.
THEOREM NothingHidden == ASSUME OneThread PROVE Spec => []UpperFull
<1>1. IInv => UpperFull
  BY DEF IInv
<1> QED BY <1>1, Invariance, PTL

\* A block the file system leads to is in use, but between its bfree and the
\* write of the entry, or after power failed in between.
THEOREM LinkedStayUsed == ASSUME OneThread PROVE Spec => []LinkedUsed
<1>1. IInv => LinkedUsed
  BY DEF IInv
<1> QED BY <1>1, Invariance, PTL

\* balloc never gives a block that something leads to, but one that a power
\* failure in the middle of a delete left free.
THEOREM BlocksGivenOnce == ASSUME OneThread PROVE Spec => []NoSharing
<1>1. IInv => NoSharing
  BY DEF IInv
<1> QED BY <1>1, Invariance, PTL

\* balloc fails only when all it can reach is in use.
THEOREM FailsOnlyWhenFull == ASSUME OneThread PROVE Spec => FailOnlyWhenFull
<1>1. IInv /\ [Next]_vars =>
        [\A t \in Thread : Fail(t) => Reachable \subseteq Used]_vars
  BY FailInv
<1> QED BY <1>1, Invariance, PTL DEF Spec, FailOnlyWhenFull

\* The bitmaps implement a pool of blocks: every step of the allocator takes,
\* links or frees one block, unlinks what a delete freed, or changes nothing of
\* the pool, and a power failure leaves torn what was being deleted.
THEOREM IsPool == ASSUME OneThread PROVE Spec => PoolSpec
<1> DEFINE pool == <<Used, linked, InDeletion, torn, shared>>
<1>1. Init => Pool!Init
  <2> SUFFICES ASSUME Init PROVE Pool!Init
    OBVIOUS
  <2>1. Used \in SUBSET Block
    BY DEF Used
  <2>2. InDeletion = {}
    BY DEF Init, InDeletion
  <2> QED BY <2>1, <2>2 DEF Init, Pool!Init
<1>2. IInv /\ [Next]_vars => [Pool!Next]_pool
  <2> SUFFICES ASSUME IInv, [Next]_vars
               PROVE  Pool!Next \/ UNCHANGED pool
    OBVIOUS
  <2>1. ASSUME NEW t \in Thread, Balloc(t) \/ ReadBitmap(t) \/ Descend(t) \/ Fail(t)
                                 \/ ClearBlock(t) \/ Bfree(t) \/ BfreeRead(t)
        PROVE  UNCHANGED pool
    BY <2>1, UsedSame
       DEF Balloc, ReadBitmap, Descend, Fail, ClearBlock, Bfree, BfreeRead, tree,
           InDeletion
  <2>2. ASSUME NEW t \in Thread, TakeBit(t) PROVE Pool!Next
    <3>1. PICK x \in Block \ Used : Used' = Used \cup {x}
      BY <2>2, TakeBitInv
    <3>2. InDeletion = {} /\ InDeletion' = InDeletion
      BY <2>2, OwnDeletion DEF IInv, FreeInv, TakeBit, tree, InDeletion
    <3>3. Pool!Available(x)
      BY <3>1, <3>2 DEF Pool!Available, IInv, LinkedUsed, Spoiled
    <3>4. Pool!Take(x)
      BY <3>1, <3>2, <3>3, <2>2 DEF Pool!Take, TakeBit, tree
    <3> QED BY <3>1, <3>4 DEF Pool!Next
  <2>3. ASSUME NEW t \in Thread, MarkFull(t) PROVE UNCHANGED pool
    BY <2>3, MarkFullInv DEF MarkFull, tree, InDeletion
  <2>4. ASSUME NEW t \in Thread, Link(t) PROVE Pool!Next
    <3>1. lba[t] \in Used /\ Pool!Available(lba[t]) /\ lba[t] \in Block
      BY <2>4
         DEF Link, IInv, TypeOK, LinkedUsed, NoSharing, Allocating, Spoiled,
             Pool!Available
    <3>2. Pool!Link(lba[t])
      BY <3>1, <2>4, UsedSame DEF Pool!Link, Link, InDeletion
    <3> QED BY <3>1, <3>2 DEF Pool!Next
  <2>5. ASSUME NEW t \in Thread, BfreeWrite(t)
        PROVE  Pool!Next \/ UNCHANGED pool
    <3>1. linked' = linked /\ torn' = torn /\ shared' = shared
      BY <2>5, BfreeWriteInv
    <3>2. CASE Used' = Used /\ freed' = freed
      BY <3>1, <3>2 DEF InDeletion
    <3>3. CASE /\ Used' = Used \ {lba[t]}
               /\ freed' = [freed EXCEPT ![t] = @ \cup {lba[t]}]
      <4>1. lba[t] \in Block /\ lba[t] \in linked \ freed[t]
        BY <2>5 DEF BfreeWrite, IInv, TypeOK, FreeInv, Freeing
      <4>2. InDeletion = freed[t] /\ InDeletion' = InDeletion \cup {lba[t]}
        BY <3>3, OwnDeletion DEF IInv, TypeOK
      <4>3. Pool!Free(lba[t])
        BY <3>1, <3>3, <4>1, <4>2 DEF Pool!Free
      <4> QED BY <4>1, <4>3 DEF Pool!Next
    <3> QED BY <2>5, <3>2, <3>3, BfreeWriteInv
  <2>6. ASSUME NEW t \in Thread, Unlink(t) PROVE Pool!Next
    <3>1. InDeletion = freed[t] /\ InDeletion' = {}
      BY <2>6, OwnDeletion DEF Unlink, IInv, TypeOK
    <3>2. Pool!Unlink
      BY <3>1, <2>6, UsedSame DEF Pool!Unlink, Unlink
    <3> QED BY <3>2 DEF Pool!Next
  <2>7. CASE PowerFails
    <3>1. InDeletion' = {}
      BY <2>7 DEF PowerFails, InDeletion
    <3>2. Pool!Crash
      BY <3>1, <2>7, PowerFailsInv DEF Pool!Crash, PowerFails
    <3> QED BY <3>2 DEF Pool!Next
  <2>8. CASE UNCHANGED vars
    BY <2>8, StutterInv DEF vars, tree, InDeletion
  <2> QED BY <2>1, <2>2, <2>3, <2>4, <2>5, <2>6, <2>7, <2>8 DEF Next, Step
<1> QED BY <1>1, <1>2, Invariance, PTL DEF Spec, PoolSpec, Pool!Spec

=============================================================================
