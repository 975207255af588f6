---------------------------- MODULE EdenFSProofs -----------------------------
(***************************************************************************)
(* Proofs about EdenFS, for volumes and parts of any size and any names.   *)
(*                                                                         *)
(* A pointer is an address in a part: that of the next part or that of an  *)
(* entry.  The invariant says that no two pointers lead to the same block  *)
(* and none to the root.  From that alone follows, by induction along the  *)
(* chains, that chains never meet; so what is freed takes nothing from     *)
(* others.                                                                 *)
(***************************************************************************)
EXTENDS EdenFSReads, FiniteSetTheorems, SequenceTheorems, WellFoundedInduction, TLAPS

AddrType  == [lba : 0..BLOCKS, flags : Flags]
EntryType == [name : Name \cup {NoName}, addr : AddrType]
PartType  == [part_size : 0..SizeMax, entry : [Slot -> EntryType],
              data : [1..FILE_DATA_PER_PART -> 0..MAX_WRITE], next : AddrType]
Volumes   == [part : [Block -> PartType], used : SUBSET Block,
              volume : {"sound", "boot", "wild"}]

\* The pointers of a part: 0 is to the next one, the others are the entries.
Port == 0..DIR_ENTRIES_PER_PART
Pointer(s, b, k) == IF k = 0 THEN s.part[b].next ELSE s.part[b].entry[k].addr
Leads(s, b, k)   == Linked(Pointer(s, b, k))
Target(s, b, k)  == Pointer(s, b, k).lba

\* The directories that have a part.
Dirs(s) == {Root} \cup {Target(s, Root, i) :
                         i \in {i \in Slot : Leads(s, Root, i) /\ IsDir(Pointer(s, Root, i))}}

PresentIn(p) == {i \in Slot : Present(p.entry[i].addr)}

DirShape(p) ==
    /\ ~Linked(p.next)
    /\ p.part_size = Cardinality(PresentIn(p))
    /\ \A i, j \in PresentIn(p) : p.entry[i].name = p.entry[j].name => i = j
    /\ \A i \in PresentIn(p) : p.entry[i].addr.lba # Boot => Linked(p.entry[i].addr)

FileShape(p) ==
    /\ PresentIn(p) = {}
    /\ p.part_size <= FILE_DATA_PER_PART
    /\ Linked(p.next) => p.part_size = FILE_DATA_PER_PART

Blank(s)   == \A b \in Block \ s.used : s.part[b] = ZeroPart
Leading(s) == \A b \in Block, k \in Port : Leads(s, b, k) => Target(s, b, k) \in s.used \ {Root}
OneWay(s)  == \A b, c \in Block, k, l \in Port :
                 Leads(s, b, k) /\ Leads(s, c, l) /\ Target(s, b, k) = Target(s, c, l)
                    => b = c /\ k = l
Shaped(s)  == /\ \A b \in Dirs(s) : DirShape(s.part[b])
              /\ \A b \in Block \ Dirs(s) : FileShape(s.part[b])
              /\ \A b \in Dirs(s) \ {Root}, i \in Slot :
                    Leads(s, b, i) => ~IsDir(Pointer(s, b, i))

Shape(s) == Root \in s.used /\ Blank(s) /\ Leading(s) /\ OneWay(s) /\ Shaped(s)

\* The path of an entry of that name in a directory.
PathTo(s, b, name, path) ==
    \/ b = Root /\ path = <<name>>
    \/ \E k \in Slot : /\ Leads(s, Root, k) /\ IsDir(Pointer(s, Root, k))
                       /\ Target(s, Root, k) = b
                       /\ path = <<s.part[Root].entry[k].name, name>>

\* The file that is open has an entry, and nothing is in it yet.
Opened(s, e) == /\ e[1] \in Dirs(s) /\ e[2] \in PresentIn(s.part[e[1]])
                /\ ~IsDir(EntryAt(s, e).addr) /\ ~Linked(EntryAt(s, e).addr)
                /\ \E path \in Path : PathTo(s, e[1], EntryAt(s, e).name, path)

Inv ==
    /\ state \in Volumes
    /\ f \in (Block \X Slot) \cup {NoFile}
    /\ volume = "sound" => Shape(state) /\ (f # NoFile => Opened(state, f))

-----------------------------------------------------------------------------
(* Chains.                                                                 *)

LEMMA Sizes ==
  /\ SizeMax \in Nat /\ BLOCKS \in Nat /\ BLOCKS > 0 /\ DIR_ENTRIES_PER_PART \in 1..SizeMax
  /\ FILE_DATA_PER_PART \in 1..SizeMax /\ MAX_WRITE \in Nat
<1>1. {BLOCKS, DIR_ENTRIES_PER_PART, FILE_DATA_PER_PART} \subseteq Nat \ {0}
  BY SizeAssumption DEF SizeAssumption
<1>2. {DIR_ENTRIES_PER_PART, FILE_DATA_PER_PART} \subseteq 1..SizeMax /\ MAX_WRITE \in Nat
  BY SizeAssumption DEF SizeAssumption
<1>3. SizeMax \in Nat
  BY DEF SizeMax
<1> QED BY <1>1, <1>2, <1>3

LEMMA Induction ==
  ASSUME NEW T, 0 \in T, \A n \in Nat : n \in T => n + 1 \in T
  PROVE  \A n \in Nat : n \in T
<1>1. SUFFICES ASSUME NEW m \in Nat, m \notin T PROVE FALSE
  OBVIOUS
<1> DEFINE Out == {n \in Nat : n \notin T}
<1>2. Out \subseteq Nat /\ Out # {}
  <2>1. m \in Out
    BY <1>1
  <2> QED BY <2>1
<1>3. PICK n \in Out : \A y \in Out : ~ (<<y, n>> \in OpToRel(<, Nat))
  BY <1>2, NatLessThanWellFounded, WFMin
<1>4. n \in Nat /\ n \notin T /\ n # 0
  BY <1>3
<1>5. n - 1 \in Nat /\ n - 1 < n
  BY <1>4
<1>6. n - 1 \notin Out
  BY <1>3, <1>4, <1>5 DEF OpToRel
<1>7. (n - 1) + 1 \in T
  BY <1>5, <1>6
<1> QED BY <1>4, <1>5, <1>7

\* The blocks of a chain, one after the other, and 0 from its end on.
At(s, lba) ==
    CHOOSE at : at = [k \in 1..BLOCKS + 1 |->
                         IF k = 1 THEN lba ELSE NextPart(s, at[k - 1])]

\* The recursion of Chain is defined: there are all of its beginnings.
Begun(at, s, lba, m) ==
    at = [k \in 1..m |-> IF k = 1 THEN lba ELSE NextPart(s, at[k - 1])]

LEMMA AtIs ==
  ASSUME NEW s, NEW lba
  PROVE  Begun(At(s, lba), s, lba, BLOCKS + 1)
<1> DEFINE Has == {m \in Nat : \E g : Begun(g, s, lba, m)}
<1>1. 0 \in Has
  <2>1. PICK g : g = [k \in 1..0 |-> lba]
    OBVIOUS
  <2>2. g = [k \in 1..0 |-> IF k = 1 THEN lba ELSE NextPart(s, g[k - 1])]
    BY <2>1
  <2> QED BY <2>2 DEF Begun
<1>2. ASSUME NEW m \in Nat, m \in Has PROVE m + 1 \in Has
  <2>1. PICK g : Begun(g, s, lba, m)
    BY <1>2
  <2>2. PICK h : h = [k \in 1..m + 1 |-> IF k = 1 THEN lba
                                         ELSE IF k = m + 1 THEN NextPart(s, g[m]) ELSE g[k]]
    OBVIOUS
  <2>3. ASSUME NEW k \in 1..m + 1
        PROVE  h[k] = IF k = 1 THEN lba ELSE NextPart(s, h[k - 1])
    <3>1. CASE k = 1
      BY <3>1, <2>2
    <3>2. CASE k # 1
      <4>1. k - 1 \in 1..m /\ k - 1 \in 1..m + 1 /\ k - 1 # m + 1
        BY <3>2
      <4>2. h[k - 1] = g[k - 1]
        <5>1. CASE k - 1 = 1
          <6>1. g[1] = lba
            BY <5>1, <4>1, <2>1 DEF Begun
          <6> QED BY <5>1, <6>1, <4>1, <2>2
        <5>2. CASE k - 1 # 1
          BY <5>2, <4>1, <2>2
        <5> QED BY <5>1, <5>2
      <4>3. CASE k = m + 1
        <5>1. k - 1 = m
          BY <4>3
        <5>2. h[k] = NextPart(s, g[m])
          BY <3>2, <4>3, <2>2
        <5> QED BY <5>1, <5>2, <4>2, <3>2
      <4>4. CASE k # m + 1
        <5>1. k \in 1..m
          BY <4>4
        <5>2. g[k] = NextPart(s, g[k - 1])
          BY <5>1, <3>2, <2>1 DEF Begun
        <5>3. h[k] = g[k]
          BY <5>1, <3>2, <4>4, <2>2
        <5> QED BY <5>2, <5>3, <4>2, <3>2
      <4> QED BY <4>3, <4>4
    <3> QED BY <3>1, <3>2
  <2>4. h = [k \in 1..m + 1 |-> h[k]]
    BY <2>2
  <2>5. Begun(h, s, lba, m + 1)
    BY <2>3, <2>4 DEF Begun
  <2> QED BY <2>5
<1>3. BLOCKS + 1 \in Has
  <2> HIDE DEF Has
  <2>1. \A m \in Nat : m \in Has
    BY <1>1, <1>2, Induction
  <2> QED BY <2>1, Sizes
<1>4. PICK g : g = [k \in 1..BLOCKS + 1 |-> IF k = 1 THEN lba ELSE NextPart(s, g[k - 1])]
  BY <1>3 DEF Begun
<1> QED BY <1>4, Zenon DEF At, Begun

LEMMA AtFirst == ASSUME NEW s, NEW lba PROVE At(s, lba)[1] = lba
<1>1. PICK g : g = At(s, lba) /\ Begun(g, s, lba, BLOCKS + 1)
  BY AtIs
<1>2. 1 \in 1..BLOCKS + 1
  BY Sizes
<1> QED BY <1>1, <1>2 DEF Begun

LEMMA AtNext ==
  ASSUME NEW s, NEW lba, NEW k \in 2..BLOCKS + 1
  PROVE  At(s, lba)[k] = NextPart(s, At(s, lba)[k - 1])
<1>1. PICK g : g = At(s, lba) /\ Begun(g, s, lba, BLOCKS + 1)
  BY AtIs
<1>2. k \in 1..BLOCKS + 1 /\ k # 1
  BY Sizes
<1> QED BY <1>1, <1>2 DEF Begun

LEMMA ChainIs ==
  ASSUME NEW s, NEW lba
  PROVE  Chain(s, lba) = [k \in {k \in 1..BLOCKS + 1 : At(s, lba)[k] # Boot} |->
                            At(s, lba)[k]]
BY Zenon DEF Chain, At

LEMMA Pointers ==
  ASSUME NEW s \in Volumes, NEW b \in Block, NEW k \in Port
  PROVE  Pointer(s, b, k) \in AddrType /\ Target(s, b, k) \in 0..BLOCKS
<1>1. s.part[b] \in PartType
  BY DEF Volumes
<1>2. k # 0 => k \in Slot
  BY Sizes DEF Port, Slot
<1>3. Pointer(s, b, k) \in AddrType
  <2>1. CASE k = 0
    BY <1>1, <2>1 DEF Pointer, PartType
  <2>2. CASE k # 0
    <3>1. s.part[b].entry[k] \in EntryType
      BY <1>1, <1>2, <2>2 DEF PartType
    <3> QED BY <2>2, <3>1 DEF Pointer, EntryType
  <2> QED BY <2>1, <2>2
<1> QED BY <1>3 DEF Target, AddrType

LEMMA Before ==
  ASSUME NEW s \in Volumes, NEW lba \in 0..BLOCKS, NEW k \in 2..BLOCKS + 1,
         At(s, lba)[k - 1] \in 0..BLOCKS
  PROVE  /\ At(s, lba)[k] \in 0..BLOCKS
         /\ At(s, lba)[k] # Boot =>
              /\ At(s, lba)[k - 1] \in Block /\ Leads(s, At(s, lba)[k - 1], 0)
              /\ Target(s, At(s, lba)[k - 1], 0) = At(s, lba)[k]
<1>1. PICK b \in 0..BLOCKS : b = At(s, lba)[k - 1]
  OBVIOUS
<1>2. At(s, lba)[k] = NextPart(s, b)
  BY <1>1, AtNext
<1>3. b # Boot => b \in Block /\ Target(s, b, 0) \in 0..BLOCKS
  <2>1. b # Boot => b \in Block
    BY Sizes DEF Boot, Block
  <2>2. 0 \in Port
    BY Sizes DEF Port
  <2> QED BY <2>1, <2>2, Pointers
<1>4. Boot \in 0..BLOCKS
  BY Sizes DEF Boot
<1> QED BY <1>1, <1>2, <1>3, <1>4 DEF NextPart, Leads, Target, Pointer

LEMMA StepTypes ==
  ASSUME NEW s \in Volumes, NEW lba \in 0..BLOCKS
  PROVE  \A k \in 1..BLOCKS + 1 : At(s, lba)[k] \in 0..BLOCKS
<1> DEFINE Good == {n \in Nat : n + 1 \in 1..BLOCKS + 1 => At(s, lba)[n + 1] \in 0..BLOCKS}
<1>1. 0 \in Good
  <2>1. At(s, lba)[1] = lba
    BY AtFirst
  <2> QED BY <2>1
<1>2. ASSUME NEW n \in Nat, n \in Good PROVE n + 1 \in Good
  <2>1. SUFFICES ASSUME n + 1 + 1 \in 1..BLOCKS + 1
                 PROVE  At(s, lba)[n + 1 + 1] \in 0..BLOCKS
    OBVIOUS
  <2>2. PICK k \in 2..BLOCKS + 1 : k = n + 1 + 1
    BY <2>1, Sizes
  <2>3. k - 1 = n + 1 /\ n + 1 \in 1..BLOCKS + 1
    BY <2>1, <2>2, Sizes
  <2>4. At(s, lba)[k - 1] \in 0..BLOCKS
    BY <2>3, <1>2
  <2> QED BY <2>2, <2>4, Before
<1>3. \A n \in Nat : n \in Good
  <2> HIDE DEF Good
  <2> QED BY <1>1, <1>2, Induction
<1>4. ASSUME NEW k \in 1..BLOCKS + 1 PROVE At(s, lba)[k] \in 0..BLOCKS
  <2>1. PICK n \in Nat : n + 1 = k
    <3>1. k - 1 \in Nat /\ (k - 1) + 1 = k
      BY Sizes
    <3> QED BY <3>1
  <2> QED BY <2>1, <1>3
<1> QED BY <1>4

\* Chains of different pointers never meet, and none meets itself.
LEMMA Apart ==
  ASSUME NEW s \in Volumes, Leading(s), OneWay(s),
         NEW b \in Block, NEW i \in Slot, Leads(s, b, i),
         NEW c \in Block, NEW j \in Slot, Leads(s, c, j)
  PROVE  \A m, n \in 1..BLOCKS + 1 :
            At(s, Target(s, b, i))[m] # Boot
            /\ At(s, Target(s, b, i))[m] = At(s, Target(s, c, j))[n]
               => b = c /\ i = j /\ m = n
<1>1. PICK x \in 0..BLOCKS : x = Target(s, b, i)
  BY Pointers, Sizes DEF Port, Slot
<1>2. PICK y \in 0..BLOCKS : y = Target(s, c, j)
  BY Pointers, Sizes DEF Port, Slot
<1>3. 0 \in Port /\ i \in Port /\ j \in Port /\ i # 0 /\ j # 0
  BY Sizes DEF Port, Slot
<1> DEFINE Good == {m \in Nat : \A n \in 1..BLOCKS + 1 :
                      m + 1 \in 1..BLOCKS + 1 /\ At(s, x)[m + 1] # Boot
                      /\ At(s, x)[m + 1] = At(s, y)[n] => b = c /\ i = j /\ m + 1 = n}
<1>4. \A k \in 1..BLOCKS + 1 : At(s, x)[k] \in 0..BLOCKS /\ At(s, y)[k] \in 0..BLOCKS
  BY StepTypes
<1>5. \A k \in 2..BLOCKS + 1 : k - 1 \in 1..BLOCKS + 1 /\ k \in 1..BLOCKS + 1
  BY Sizes
<1>6. \A k \in 2..BLOCKS + 1 :
         /\ At(s, x)[k] # Boot =>
              /\ At(s, x)[k - 1] \in Block /\ Leads(s, At(s, x)[k - 1], 0)
              /\ Target(s, At(s, x)[k - 1], 0) = At(s, x)[k]
         /\ At(s, y)[k] # Boot =>
              /\ At(s, y)[k - 1] \in Block /\ Leads(s, At(s, y)[k - 1], 0)
              /\ Target(s, At(s, y)[k - 1], 0) = At(s, y)[k]
  BY <1>4, <1>5, Before
<1>7. At(s, x)[1] = x /\ At(s, y)[1] = y
  BY AtFirst
<1>8. 0 \in Good
  <2>1. SUFFICES ASSUME NEW n \in 1..BLOCKS + 1, At(s, x)[1] # Boot, At(s, x)[1] = At(s, y)[n]
                 PROVE  b = c /\ i = j /\ n = 1
    OBVIOUS
  <2>2. CASE n = 1
    BY <2>1, <2>2, <1>1, <1>2, <1>3, <1>7 DEF OneWay
  <2>3. CASE n # 1
    <3>1. n \in 2..BLOCKS + 1 /\ At(s, y)[n] # Boot
      BY <2>1, <2>3
    <3>2. PICK d \in Block : d = At(s, y)[n - 1] /\ Leads(s, d, 0) /\ Target(s, d, 0) = x
      BY <3>1, <2>1, <1>6, <1>7
    <3> QED BY <3>2, <1>1, <1>3 DEF OneWay
  <2> QED BY <2>2, <2>3
<1>9. ASSUME NEW m \in Nat, m \in Good PROVE m + 1 \in Good
  <2>1. SUFFICES ASSUME NEW n \in 1..BLOCKS + 1, m + 1 + 1 \in 1..BLOCKS + 1,
                        At(s, x)[m + 1 + 1] # Boot, At(s, x)[m + 1 + 1] = At(s, y)[n]
                 PROVE  b = c /\ i = j /\ m + 1 + 1 = n
    OBVIOUS
  <2>2. PICK k \in 2..BLOCKS + 1 : k = m + 1 + 1
    BY <2>1, Sizes
  <2>3. k - 1 = m + 1 /\ m + 1 \in 1..BLOCKS + 1
    BY <2>1, <2>2, Sizes
  <2>4. PICK d \in Block : /\ d = At(s, x)[k - 1] /\ Leads(s, d, 0)
                           /\ Target(s, d, 0) = At(s, x)[k]
    BY <2>1, <2>2, <1>6
  <2>5. CASE n = 1
    <3>1. Target(s, d, 0) = Target(s, c, j)
      BY <2>1, <2>2, <2>4, <2>5, <1>2, <1>7
    <3> QED BY <3>1, <2>4, <1>3 DEF OneWay
  <2>6. CASE n # 1
    <3>1. n \in 2..BLOCKS + 1 /\ At(s, y)[n] # Boot
      BY <2>1, <2>6
    <3>2. PICK e \in Block : /\ e = At(s, y)[n - 1] /\ Leads(s, e, 0)
                             /\ Target(s, e, 0) = At(s, y)[n]
      BY <3>1, <1>6
    <3>3. d = e
      BY <3>2, <2>1, <2>2, <2>4, <1>3 DEF OneWay
    <3>4. n - 1 \in 1..BLOCKS + 1
      BY <3>1, <1>5
    <3>5. At(s, x)[m + 1] # Boot /\ At(s, x)[m + 1] = At(s, y)[n - 1]
      <4>1. d # Boot
        BY Sizes DEF Block, Boot
      <4> QED BY <4>1, <3>2, <3>3, <2>3, <2>4
    <3>6. b = c /\ i = j /\ m + 1 = n - 1
      BY <3>4, <3>5, <2>3, <1>9
    <3> QED BY <3>6
  <2> QED BY <2>5, <2>6
<1>10. \A m \in Nat : m \in Good
  <2> HIDE DEF Good
  <2> QED BY <1>8, <1>9, Induction
<1>11. ASSUME NEW m \in 1..BLOCKS + 1, NEW n \in 1..BLOCKS + 1,
              At(s, x)[m] # Boot, At(s, x)[m] = At(s, y)[n]
       PROVE  b = c /\ i = j /\ m = n
  <2>1. PICK k \in Nat : k + 1 = m
    <3>1. m - 1 \in Nat /\ (m - 1) + 1 = m
      BY Sizes
    <3> QED BY <3>1
  <2>2. k \in Good
    BY <1>10
  <2> QED BY <2>1, <2>2, <1>11
<1> QED BY <1>1, <1>2, <1>11

LEMMA InChain ==
  ASSUME NEW s \in Volumes, NEW lba \in 0..BLOCKS
  PROVE  /\ ToSet(Chain(s, lba)) \subseteq Block
         /\ \A x : x \in ToSet(Chain(s, lba)) <=>
                      x # Boot /\ \E k \in 1..BLOCKS + 1 : x = At(s, lba)[k]
<1> DEFINE dom == {k \in 1..BLOCKS + 1 : At(s, lba)[k] # Boot}
<1>1. PICK at : at = At(s, lba)
  OBVIOUS
<1>2. Chain(s, lba) = [k \in dom |-> at[k]]
  BY <1>1, ChainIs
<1>3. ToSet(Chain(s, lba)) = {at[k] : k \in dom}
  BY <1>2 DEF ToSet
<1>4. \A k \in 1..BLOCKS + 1 : at[k] \in 0..BLOCKS
  BY <1>1, StepTypes
<1>5. \A x : x \in 0..BLOCKS /\ x # Boot => x \in Block
  BY Sizes DEF Boot, Block
<1> QED BY <1>1, <1>3, <1>4, <1>5

LEMMA Owned ==
  ASSUME NEW s \in Volumes, Leading(s), NEW b \in Block, NEW i \in Slot, Leads(s, b, i)
  PROVE  ToSet(Chain(s, Target(s, b, i))) \subseteq s.used \ {Root}
<1>1. i \in Port /\ 0 \in Port
  BY Sizes DEF Port, Slot
<1>2. PICK lba \in 0..BLOCKS : lba = Target(s, b, i)
  BY <1>1, Pointers
<1>3. SUFFICES ASSUME NEW k \in 1..BLOCKS + 1, At(s, lba)[k] # Boot
               PROVE  At(s, lba)[k] \in s.used \ {Root}
  BY <1>2, InChain
<1>4. CASE k = 1
  BY <1>1, <1>2, <1>4, AtFirst DEF Leading
<1>5. CASE k # 1
  <2>1. k \in 2..BLOCKS + 1 /\ k - 1 \in 1..BLOCKS + 1
    BY <1>5, Sizes
  <2>2. At(s, lba)[k - 1] \in 0..BLOCKS
    BY <2>1, StepTypes
  <2>3. /\ At(s, lba)[k - 1] \in Block /\ Leads(s, At(s, lba)[k - 1], 0)
        /\ Target(s, At(s, lba)[k - 1], 0) = At(s, lba)[k]
    BY <1>3, <2>1, <2>2, Before
  <2> QED BY <1>1, <2>3 DEF Leading
<1> QED BY <1>4, <1>5

\* What leads into a chain is its pointer or a part of the chain.
LEMMA Sources ==
  ASSUME NEW s \in Volumes, Leading(s), OneWay(s),
         NEW b \in Block, NEW i \in Slot, Leads(s, b, i),
         NEW c \in Block, NEW k \in Port, Leads(s, c, k),
         Target(s, c, k) \in ToSet(Chain(s, Target(s, b, i)))
  PROVE  \/ c = b /\ k = i
         \/ k = 0 /\ c \in ToSet(Chain(s, Target(s, b, i)))
<1>1. i \in Port /\ 0 \in Port
  BY Sizes DEF Port, Slot
<1>2. PICK lba \in 0..BLOCKS : lba = Target(s, b, i)
  BY <1>1, Pointers
<1>3. PICK m \in 1..BLOCKS + 1 : At(s, lba)[m] # Boot /\ At(s, lba)[m] = Target(s, c, k)
  <2>1. PICK x : x = Target(s, c, k)
    OBVIOUS
  <2>2. x \in ToSet(Chain(s, lba))
    BY <1>2, <2>1
  <2>3. x # Boot /\ \E n \in 1..BLOCKS + 1 : x = At(s, lba)[n]
    BY <2>2, InChain
  <2> QED BY <2>1, <2>3
<1>4. CASE m = 1
  <2>1. Target(s, c, k) = Target(s, b, i)
    BY <1>2, <1>3, <1>4, AtFirst
  <2> QED BY <2>1, <1>1 DEF OneWay
<1>5. CASE m # 1
  <2>1. m \in 2..BLOCKS + 1 /\ m - 1 \in 1..BLOCKS + 1
    BY <1>5, Sizes
  <2>2. At(s, lba)[m - 1] \in 0..BLOCKS
    BY <2>1, StepTypes
  <2>3. PICK d \in Block : /\ d = At(s, lba)[m - 1] /\ Leads(s, d, 0)
                           /\ Target(s, d, 0) = At(s, lba)[m]
    BY <1>3, <2>1, <2>2, Before
  <2>4. c = d /\ k = 0
    BY <2>3, <1>1, <1>3 DEF OneWay
  <2>5. d # Boot
    BY Sizes DEF Block, Boot
  <2>6. d \in ToSet(Chain(s, lba))
    BY <2>1, <2>3, <2>5, InChain
  <2> QED BY <2>4, <2>6, <1>2
<1> QED BY <1>4, <1>5

\* A chain without a second part.
LEMMA ShortChain ==
  ASSUME NEW s \in Volumes, NEW lba \in Block, ~Leads(s, lba, 0)
  PROVE  Chain(s, lba) = [k \in {1} |-> lba] /\ ToSet(Chain(s, lba)) = {lba}
<1>1. lba # Boot /\ lba \in 0..BLOCKS
  BY Sizes DEF Block, Boot
<1>2. At(s, lba)[1] = lba
  BY AtFirst
<1>3. \A k \in 2..BLOCKS + 1 : At(s, lba)[k] = NextPart(s, At(s, lba)[k - 1])
  BY AtNext
<1>4. NextPart(s, lba) = Boot /\ NextPart(s, Boot) = Boot
  BY <1>1 DEF NextPart, Leads, Pointer
<1> DEFINE Good == {n \in Nat : n + 2 \in 2..BLOCKS + 1 => At(s, lba)[n + 2] = Boot}
<1>5. 0 \in Good
  <2>1. SUFFICES ASSUME 0 + 2 \in 2..BLOCKS + 1 PROVE At(s, lba)[0 + 2] = Boot
    OBVIOUS
  <2>2. PICK k \in 2..BLOCKS + 1 : k = 2
    BY <2>1
  <2>3. k - 1 = 1 /\ 0 + 2 = k
    BY <2>2
  <2> QED BY <2>3, <1>2, <1>3, <1>4
<1>6. ASSUME NEW n \in Nat, n \in Good PROVE n + 1 \in Good
  <2>1. SUFFICES ASSUME n + 1 + 2 \in 2..BLOCKS + 1 PROVE At(s, lba)[n + 1 + 2] = Boot
    OBVIOUS
  <2>2. PICK k \in 2..BLOCKS + 1 : k = n + 1 + 2
    BY <2>1
  <2>3. k - 1 = n + 2 /\ n + 2 \in 2..BLOCKS + 1
    BY <2>2, Sizes
  <2>4. At(s, lba)[n + 2] = Boot
    BY <2>3, <1>6
  <2> QED BY <2>2, <2>3, <2>4, <1>3, <1>4
<1>7. \A n \in Nat : n \in Good
  <2> HIDE DEF Good
  <2> QED BY <1>5, <1>6, Induction
<1>8. ASSUME NEW k \in 2..BLOCKS + 1 PROVE At(s, lba)[k] = Boot
  <2>1. PICK n \in Nat : n + 2 = k
    <3>1. k - 2 \in Nat /\ (k - 2) + 2 = k
      BY Sizes
    <3> QED BY <3>1
  <2> QED BY <2>1, <1>7
<1>9. {k \in 1..BLOCKS + 1 : At(s, lba)[k] # Boot} = {1}
  <2>1. 1 \in 1..BLOCKS + 1
    BY Sizes
  <2>2. \A k \in 1..BLOCKS + 1 : k # 1 => k \in 2..BLOCKS + 1
    BY Sizes
  <2> QED BY <2>1, <2>2, <1>1, <1>2, <1>8
<1>10. Chain(s, lba) = [k \in {1} |-> lba]
  <2>1. PICK at : at = At(s, lba)
    OBVIOUS
  <2>2. Chain(s, lba) = [k \in {1} |-> at[k]]
    BY <2>1, <1>9, ChainIs
  <2>3. at[1] = lba
    BY <2>1, <1>2
  <2> QED BY <2>2, <2>3
<1> QED BY <1>10 DEF ToSet

-----------------------------------------------------------------------------
(* Looking up.                                                             *)

LEMMA LeastOfOne == ASSUME NEW n \in Int PROVE Min({n}) = n
BY DEF Min

LEMMA PresentFinite ==
  ASSUME NEW p
  PROVE  /\ PresentIn(p) \in SUBSET Slot /\ IsFiniteSet(PresentIn(p))
         /\ Cardinality(PresentIn(p)) \in 0..DIR_ENTRIES_PER_PART
<1>1. PresentIn(p) \in SUBSET Slot
  BY DEF PresentIn
<1>2. IsFiniteSet(Slot) /\ Cardinality(Slot) = DIR_ENTRIES_PER_PART
  <2>1. DIR_ENTRIES_PER_PART \in Int /\ ~(1 > DIR_ENTRIES_PER_PART)
    BY Sizes
  <2>2. IsFiniteSet(1..DIR_ENTRIES_PER_PART)
        /\ Cardinality(1..DIR_ENTRIES_PER_PART) = DIR_ENTRIES_PER_PART - 1 + 1
    BY <2>1, FS_Interval
  <2> QED BY <2>1, <2>2 DEF Slot
<1>3. IsFiniteSet(PresentIn(p)) /\ Cardinality(PresentIn(p)) <= DIR_ENTRIES_PER_PART
  BY <1>1, <1>2, FS_Subset
<1>4. Cardinality(PresentIn(p)) \in Nat
  BY <1>3, FS_CardinalityType
<1> QED BY <1>1, <1>3, <1>4, Sizes

\* Before an entry there are fewer than there are.
LEMMA ScanReaches ==
  ASSUME NEW p, DirShape(p), NEW i \in PresentIn(p)
  PROVE  InScan(p, i)
<1> DEFINE before == {j \in 1..i - 1 : Present(p.entry[j].addr)}
<1>1. i \in Slot /\ i \in Int /\ i - 1 < i
  BY Sizes, PresentFinite DEF Slot
<1>2. before \in SUBSET (PresentIn(p) \ {i})
  <2>1. ASSUME NEW j \in 1..i - 1 PROVE j \in Slot /\ j # i
    BY <1>1, Sizes DEF Slot
  <2> QED BY <2>1 DEF PresentIn
<1>3. /\ IsFiniteSet(PresentIn(p) \ {i})
      /\ Cardinality(PresentIn(p) \ {i}) = Cardinality(PresentIn(p)) - 1
  BY PresentFinite, FS_RemoveElement
<1>4. Cardinality(before) <= Cardinality(PresentIn(p)) - 1 /\ Cardinality(before) \in Nat
  BY <1>2, <1>3, FS_Subset, FS_CardinalityType
<1>5. Cardinality(PresentIn(p)) \in Nat
  BY PresentFinite, Sizes
<1>6. p.part_size = Cardinality(PresentIn(p))
  BY DEF DirShape
<1>7. Cardinality(before) < p.part_size
  BY <1>4, <1>5, <1>6
<1> QED BY <1>7 DEF InScan

Matches(p, i, name, type, not_empty) ==
    /\ i \in PresentIn(p) /\ TypeFits(p.entry[i].addr, type)
    /\ not_empty => Linked(p.entry[i].addr)
    /\ p.entry[i].name = name

LEMMA HitsAre ==
  ASSUME NEW p, DirShape(p), NEW name, NEW type, NEW not_empty \in BOOLEAN
  PROVE  /\ \A i : i \in Hits(p, name, type, not_empty) <=> Matches(p, i, name, type, not_empty)
         /\ \A i, j \in Hits(p, name, type, not_empty) : i = j
<1>1. \A i \in PresentIn(p) : InScan(p, i)
  BY ScanReaches
<1>2. \A i : i \in Hits(p, name, type, not_empty) <=> Matches(p, i, name, type, not_empty)
  BY <1>1 DEF Hits, Matches, PresentIn
<1> QED BY <1>2 DEF Matches, DirShape

LEMMA DirsAre ==
  ASSUME NEW s \in Volumes, Shape(s)
  PROVE  /\ Root \in Dirs(s) /\ Dirs(s) \subseteq Block /\ Dirs(s) \subseteq s.used
         /\ \A b \in Dirs(s) : ~Leads(s, b, 0) /\ DirShape(s.part[b])
         /\ \A b \in Dirs(s) \ {Root} : \E j \in Slot :
               Leads(s, Root, j) /\ IsDir(Pointer(s, Root, j)) /\ Target(s, Root, j) = b
         /\ \A j \in Slot : Leads(s, Root, j) /\ IsDir(Pointer(s, Root, j)) =>
               Target(s, Root, j) \in Dirs(s) \ {Root}
<1>1. Root \in Block /\ s.used \subseteq Block
  BY Sizes DEF Root, Block, Volumes
<1>2. \A j \in Slot : j \in Port
  BY Sizes DEF Slot, Port
<1>3. \A j \in Slot : Leads(s, Root, j) => Target(s, Root, j) \in s.used \ {Root}
  BY <1>1, <1>2 DEF Shape, Leading
<1>4. Root \in s.used
  BY DEF Shape
<1>5. Dirs(s) \subseteq s.used
  BY <1>3, <1>4 DEF Dirs
<1>6. \A b \in Dirs(s) : ~Leads(s, b, 0) /\ DirShape(s.part[b])
  BY DEF Shape, Shaped, DirShape, Leads, Pointer
<1> QED BY <1>1, <1>3, <1>5, <1>6 DEF Dirs

\* A directory is one part, in which a name is found once.
LEMMA FindIs ==
  ASSUME NEW s \in Volumes, Shape(s), NEW b \in Dirs(s), NEW name, NEW type,
         NEW not_empty \in BOOLEAN
  PROVE  LET pos == FindInDir(s, b, name, type, not_empty)
         IN  /\ \/ pos = NotFound
                \/ \E i \in PresentIn(s.part[b]) :
                      pos = <<b, i>> /\ Matches(s.part[b], i, name, type, not_empty)
             /\ \A i \in PresentIn(s.part[b]) :
                   Matches(s.part[b], i, name, type, not_empty) => pos = <<b, i>>
<1>1. b \in Block /\ ~Leads(s, b, 0) /\ DirShape(s.part[b])
  BY DirsAre
<1>2. Chain(s, b) = [k \in {1} |-> b]
  BY <1>1, ShortChain
<1> DEFINE parts == Chain(s, b)
           hits == Hits(s.part[b], name, type, not_empty)
           where == {k \in DOMAIN parts : Hits(s.part[parts[k]], name, type, not_empty) # {}}
<1>3. DOMAIN parts = {1} /\ parts[1] = b
  BY <1>2
<1>4. where = IF hits = {} THEN {} ELSE {1}
  BY <1>3
<1>5. Min({1}) = 1
  BY LeastOfOne
<1>6. FindInDir(s, b, name, type, not_empty) =
        IF where = {} THEN NotFound
        ELSE <<parts[Min(where)], Min(Hits(s.part[parts[Min(where)]], name, type, not_empty))>>
  BY DEF FindInDir
<1>7. FindInDir(s, b, name, type, not_empty) = IF hits = {} THEN NotFound ELSE <<b, Min(hits)>>
  <2>1. CASE hits = {}
    BY <2>1, <1>4, <1>6
  <2>2. CASE hits # {}
    <3>1. where = {1} /\ where # {}
      BY <2>2, <1>4
    <3>2. Min(where) = 1
      BY <3>1, <1>5
    <3> HIDE DEF where, parts, hits
    <3> QED BY <2>2, <3>1, <3>2, <1>3, <1>6 DEF hits
  <2> QED BY <2>1, <2>2
<1>8. /\ \A i : i \in hits <=> Matches(s.part[b], i, name, type, not_empty)
      /\ \A i, j \in hits : i = j
  BY <1>1, HitsAre
<1>9. ASSUME NEW i \in hits PROVE Min(hits) = i
  <2>1. hits = {i}
    BY <1>8, <1>9
  <2>2. i \in Int
    BY <1>8, <1>9, Sizes, PresentFinite DEF Matches, Slot
  <2> QED BY <2>1, <2>2, LeastOfOne
<1>10. \A i \in hits : i \in PresentIn(s.part[b])
  BY <1>8 DEF Matches
<1> HIDE DEF hits
<1> QED BY <1>7, <1>8, <1>9, <1>10

LEMMA FindThis ==
  ASSUME NEW s \in Volumes, Shape(s), NEW b \in Dirs(s), NEW name, NEW type,
         NEW not_empty \in BOOLEAN, NEW i,
         Matches(s.part[b], i, name, type, not_empty)
  PROVE  FindInDir(s, b, name, type, not_empty) = <<b, i>>
<1>1. i \in PresentIn(s.part[b])
  BY DEF Matches
<1> QED BY <1>1, FindIs

\* Every entry is found under its name, and a directory with parts as such.
LEMMA FindAny ==
  ASSUME NEW s \in Volumes, Shape(s), NEW b \in Dirs(s), NEW i \in PresentIn(s.part[b])
  PROVE  FindInDir(s, b, s.part[b].entry[i].name, "undefined", FALSE) = <<b, i>>
<1>1. PICK any \in BOOLEAN : any = FALSE
  OBVIOUS
<1>2. PICK name, type : name = s.part[b].entry[i].name /\ type = "undefined"
  OBVIOUS
<1>3. Matches(s.part[b], i, name, type, any)
  BY <1>1, <1>2 DEF Matches, TypeFits
<1>4. PICK j : j = i /\ Matches(s.part[b], j, name, type, any)
  BY <1>3
<1>5. FindInDir(s, b, name, type, any) = <<b, j>>
  BY <1>4, FindThis
<1> QED BY <1>1, <1>2, <1>4, <1>5

LEMMA FindSub ==
  ASSUME NEW s \in Volumes, Shape(s), NEW i \in PresentIn(s.part[Root]),
         Leads(s, Root, i), IsDir(Pointer(s, Root, i))
  PROVE  FindInDir(s, Root, s.part[Root].entry[i].name, "dir", TRUE) = <<Root, i>>
<1>1. PICK b \in Dirs(s), linked \in BOOLEAN : b = Root /\ linked = TRUE
  BY DirsAre
<1>2. PICK name, type : name = s.part[b].entry[i].name /\ type = "dir"
  OBVIOUS
<1>3. i # 0
  BY PresentFinite, Sizes DEF Slot
<1>4. Matches(s.part[b], i, name, type, linked)
  BY <1>1, <1>2, <1>3 DEF Matches, TypeFits, Leads, Pointer
<1>5. FindInDir(s, b, name, type, linked) = <<b, i>>
  BY <1>4, FindThis
<1> QED BY <1>1, <1>2, <1>5

LEMMA Paths ==
  ASSUME NEW path \in Path
  PROVE  \/ Len(path) = 1 /\ path[1] \in Name /\ path = <<path[1]>>
         \/ Len(path) = 2 /\ path[1] \in Name /\ path[2] \in Name /\ path = <<path[1], path[2]>>
<1>1. PICK n \in 1..2 : path \in [1..n -> Name]
  BY DEF Path
<1>2. n = 1 \/ n = 2
  BY <1>1
<1>3. Len(path) = n /\ 1 \in 1..n /\ path \in Seq(Name)
  BY <1>1
<1>4. n = 1 => path = <<path[1]>>
  BY <1>3
<1>5. n = 2 => path = <<path[1], path[2]>>
  BY <1>3
<1> QED BY <1>1, <1>2, <1>3, <1>4, <1>5

LEMMA FindPathIs ==
  ASSUME NEW s \in Volumes, Shape(s), NEW path \in Path, NEW type,
         NEW not_empty \in BOOLEAN
  PROVE  LET pos == FindPath(s, path, type, not_empty)
         IN  \/ pos = NotFound
             \/ \E b \in Dirs(s) : \E i \in PresentIn(s.part[b]) :
                   /\ pos = <<b, i>> /\ Matches(s.part[b], i, path[Len(path)], type, not_empty)
                   /\ PathTo(s, b, path[Len(path)], path)
<1>1. CASE Len(path) = 1
  <2>1. FindPath(s, path, type, not_empty) = FindInDir(s, Root, path[1], type, not_empty)
    BY <1>1 DEF FindPath
  <2>2. Root \in Dirs(s)
    BY DirsAre
  <2>3. PathTo(s, Root, path[Len(path)], path)
    BY <1>1, Paths DEF PathTo
  <2> QED BY <1>1, <2>1, <2>2, <2>3, FindIs
<1>2. CASE Len(path) = 2
  <2>1. PICK d : d = FindInDir(s, Root, path[1], "dir", TRUE)
    OBVIOUS
  <2>2. FindPath(s, path, type, not_empty) =
          IF d = NotFound THEN NotFound
          ELSE FindInDir(s, EntryAt(s, d).addr.lba, path[2], type, not_empty)
    <3>1. Len(path) # 1
      BY <1>2
    <3> QED BY <2>1, <3>1, Zenon DEF FindPath
  <2>3. CASE d # NotFound
    <3>1. Root \in Dirs(s) /\ TRUE \in BOOLEAN
      BY DirsAre
    <3>2. PICK j \in PresentIn(s.part[Root]) :
             d = <<Root, j>> /\ Matches(s.part[Root], j, path[1], "dir", TRUE)
      BY <2>1, <2>3, <3>1, FindIs
    <3>3. /\ j \in Slot /\ Leads(s, Root, j) /\ IsDir(Pointer(s, Root, j))
          /\ EntryAt(s, d).addr.lba = Target(s, Root, j)
      BY <3>2, Sizes, PresentFinite
         DEF Matches, TypeFits, Leads, Pointer, Target, EntryAt, Slot
    <3>4. PICK b \in Dirs(s) : b = EntryAt(s, d).addr.lba
      BY <3>3, DirsAre
    <3>5. FindPath(s, path, type, not_empty) = FindInDir(s, b, path[2], type, not_empty)
      BY <2>2, <2>3, <3>4
    <3>6. s.part[Root].entry[j].name = path[1] /\ path = <<path[1], path[2]>>
      BY <1>2, <3>2, Paths DEF Matches
    <3>7. PathTo(s, b, path[Len(path)], path)
      BY <1>2, <3>3, <3>4, <3>6 DEF PathTo
    <3> QED BY <1>2, <3>5, <3>7, FindIs
  <2> QED BY <2>2, <2>3
<1> QED BY <1>1, <1>2, Paths

\* What has a path is found under it.
LEMMA FindEntry ==
  ASSUME NEW s \in Volumes, Shape(s), NEW b \in Dirs(s), NEW i \in PresentIn(s.part[b]),
         NEW path, PathTo(s, b, s.part[b].entry[i].name, path)
  PROVE  FindPath(s, path, "undefined", FALSE) = <<b, i>>
<1>1. PICK name : name = s.part[b].entry[i].name
  OBVIOUS
<1>2. FindInDir(s, b, name, "undefined", FALSE) = <<b, i>>
  BY <1>1, FindAny
<1>3. CASE b = Root /\ path = <<name>>
  <2>1. Len(path) = 1 /\ path[1] = name
    BY <1>3
  <2> QED BY <2>1, <1>2, <1>3 DEF FindPath
<1>4. CASE \E k \in Slot : /\ Leads(s, Root, k) /\ IsDir(Pointer(s, Root, k))
                          /\ Target(s, Root, k) = b
                          /\ path = <<s.part[Root].entry[k].name, name>>
  <2>1. PICK k \in Slot : /\ Leads(s, Root, k) /\ IsDir(Pointer(s, Root, k))
                          /\ Target(s, Root, k) = b
                          /\ path = <<s.part[Root].entry[k].name, name>>
    BY <1>4
  <2>2. k # 0
    BY Sizes DEF Slot
  <2>3. k \in PresentIn(s.part[Root])
    BY <2>1, <2>2 DEF Leads, Linked, Pointer, PresentIn
  <2>4. PICK d : d = FindInDir(s, Root, path[1], "dir", TRUE)
    OBVIOUS
  <2>5. d = <<Root, k>>
    BY <2>1, <2>3, <2>4, FindSub
  <2>6. ~(d = NotFound) /\ EntryAt(s, d).addr.lba = b
    BY <2>1, <2>2, <2>5 DEF NotFound, EntryAt, Target, Pointer
  <2>7. Len(path) = 2 /\ ~(Len(path) = 1) /\ path[2] = name
    BY <2>1
  <2>8. FindPath(s, path, "undefined", FALSE) = FindInDir(s, b, name, "undefined", FALSE)
    BY <2>4, <2>6, <2>7, Zenon DEF FindPath
  <2> QED BY <2>8, <1>2
<1> QED BY <1>1, <1>3, <1>4 DEF PathTo

-----------------------------------------------------------------------------
(* What the invariant says of the entries.                                 *)

LEMMA EntriesAre ==
  ASSUME state \in Volumes, Shape(state)
  PROVE  /\ RootEntries = {<<Root, i>> : i \in PresentIn(part[Root])}
         /\ \A i \in PresentIn(part[Root]) :
               SubEntries(<<Root, i>>) =
                 IF Leads(state, Root, i) /\ IsDir(Pointer(state, Root, i))
                 THEN {<<Target(state, Root, i), j>> :
                         j \in PresentIn(part[Target(state, Root, i)])}
                 ELSE {}
<1>1. state.part = part
  BY DEF state
<1>2. ASSUME NEW b \in Dirs(state)
      PROVE  EntriesIn(b) = {<<b, i>> : i \in PresentIn(part[b])}
  <2>1. b \in Block /\ ~Leads(state, b, 0)
    BY DirsAre
  <2>2. ToSet(Chain(state, b)) = {b}
    BY <2>1, ShortChain
  <2>3. EntriesIn(b) = {e \in {b} \X Slot : Present(EntryAt(state, e).addr)}
    BY <2>2 DEF EntriesIn
  <2> QED BY <2>3, <1>1 DEF EntryAt, PresentIn
<1>3. RootEntries = {<<Root, i>> : i \in PresentIn(part[Root])}
  BY <1>2, DirsAre DEF RootEntries
<1>4. ASSUME NEW i \in PresentIn(part[Root])
      PROVE  SubEntries(<<Root, i>>) =
                 IF Leads(state, Root, i) /\ IsDir(Pointer(state, Root, i))
                 THEN {<<Target(state, Root, i), j>> :
                         j \in PresentIn(part[Target(state, Root, i)])}
                 ELSE {}
  <2>1. AddrOf(<<Root, i>>) = Pointer(state, Root, i)
    <3>1. i \in Slot /\ i # 0
      BY Sizes, PresentFinite DEF Slot
    <3> QED BY <3>1 DEF AddrOf, EntryAt, Pointer
  <2>2. CASE Leads(state, Root, i) /\ IsDir(Pointer(state, Root, i))
    <3>1. i \in Slot
      BY PresentFinite
    <3>2. PICK b \in Dirs(state) : b = Target(state, Root, i)
      BY <2>2, <3>1, DirsAre
    <3>3. SubEntries(<<Root, i>>) = EntriesIn(b)
      BY <2>1, <2>2, <3>2 DEF SubEntries, Leads, Target
    <3> QED BY <2>2, <3>2, <3>3, <1>2
  <2>3. CASE ~(Leads(state, Root, i) /\ IsDir(Pointer(state, Root, i)))
    BY <2>1, <2>3 DEF SubEntries, Leads
  <2> QED BY <2>2, <2>3
<1> QED BY <1>3, <1>4

LEMMA SubEntryIs ==
  ASSUME state \in Volumes, Shape(state), NEW i \in PresentIn(part[Root]), NEW g
  PROVE  g \in SubEntries(<<Root, i>>) <=>
            /\ Leads(state, Root, i) /\ IsDir(Pointer(state, Root, i))
            /\ \E j \in PresentIn(part[Target(state, Root, i)]) :
                  g = <<Target(state, Root, i), j>>
<1>1. CASE Leads(state, Root, i) /\ IsDir(Pointer(state, Root, i))
  <2>1. SubEntries(<<Root, i>>) = {<<Target(state, Root, i), j>> :
                                    j \in PresentIn(part[Target(state, Root, i)])}
    BY <1>1, EntriesAre
  <2> QED BY <1>1, <2>1
<1>2. CASE ~(Leads(state, Root, i) /\ IsDir(Pointer(state, Root, i)))
  <2>1. SubEntries(<<Root, i>>) = {}
    BY <1>2, EntriesAre
  <2> QED BY <1>2, <2>1
<1> QED BY <1>1, <1>2

LEMMA EntryIs ==
  ASSUME state \in Volumes, Shape(state), NEW e \in Entries
  PROVE  \E b \in Dirs(state) : \E i \in PresentIn(part[b]) :
            /\ e = <<b, i>> /\ i \in Slot /\ i # 0
            /\ AddrOf(e) = Pointer(state, b, i)
            /\ NameOf(e) = part[b].entry[i].name
<1>1. \E b \in Dirs(state) : \E i \in PresentIn(part[b]) : e = <<b, i>>
  <2>1. CASE e \in RootEntries
    BY <2>1, EntriesAre, DirsAre
  <2>2. CASE e \notin RootEntries
    <3>1. PICK r \in RootEntries : e \in SubEntries(r)
      BY <2>2 DEF Entries
    <3>2. PICK i \in PresentIn(part[Root]) : r = <<Root, i>>
      BY <3>1, EntriesAre
    <3>3. i \in Slot
      BY PresentFinite
    <3>4. /\ Leads(state, Root, i) /\ IsDir(Pointer(state, Root, i))
          /\ \E j \in PresentIn(part[Target(state, Root, i)]) : e = <<Target(state, Root, i), j>>
      BY <3>1, <3>2, SubEntryIs
    <3>5. Target(state, Root, i) \in Dirs(state)
      BY <3>3, <3>4, DirsAre
    <3> QED BY <3>4, <3>5
  <2> QED BY <2>1, <2>2
<1>2. PICK b \in Dirs(state), i \in Slot : i \in PresentIn(part[b]) /\ e = <<b, i>>
  BY <1>1, PresentFinite
<1>3. i \in Slot /\ i # 0
  BY Sizes, PresentFinite DEF Slot
<1> QED BY <1>2, <1>3 DEF AddrOf, NameOf, EntryAt, Pointer, state

LEMMA ShapeOneOwner ==
  ASSUME state \in Volumes, Shape(state)
  PROVE  OneOwner
<1>1. ASSUME NEW e \in LinkedEntries
      PROVE  \E b \in Block : \E i \in Slot :
                /\ e = <<b, i>> /\ Leads(state, b, i)
                /\ ChainOf(e) = Chain(state, Target(state, b, i))
  <2>1. e \in Entries /\ Linked(AddrOf(e))
    BY <1>1 DEF LinkedEntries
  <2>2. PICK b \in Dirs(state), i \in Slot : e = <<b, i>> /\ AddrOf(e) = Pointer(state, b, i)
    BY <2>1, EntryIs
  <2> QED BY <2>1, <2>2, DirsAre DEF Leads, Target, ChainOf
<1>2. Leading(state) /\ OneWay(state) /\ state.used = used
  BY DEF Shape, state
<1>3. ASSUME NEW e \in LinkedEntries
      PROVE  /\ IsInjective(ChainOf(e))
             /\ ToSet(ChainOf(e)) \subseteq used \ {Root}
  <2>1. PICK b \in Block, i \in Slot :
           /\ e = <<b, i>> /\ Leads(state, b, i)
           /\ ChainOf(e) = Chain(state, Target(state, b, i))
    BY <1>1
  <2>2. PICK at : at = At(state, Target(state, b, i))
    OBVIOUS
  <2>3. ChainOf(e) = [k \in {k \in 1..BLOCKS + 1 : at[k] # Boot} |-> at[k]]
    BY <2>1, <2>2, ChainIs
  <2>4. \A m, n \in 1..BLOCKS + 1 : at[m] # Boot /\ at[m] = at[n] => m = n
    BY <1>2, <2>1, <2>2, Apart
  <2>5. IsInjective(ChainOf(e))
    BY <2>3, <2>4 DEF IsInjective
  <2> QED BY <1>2, <2>1, <2>5, Owned
<1>4. ASSUME NEW e \in LinkedEntries, NEW g \in LinkedEntries, e # g
      PROVE  ToSet(ChainOf(e)) \cap ToSet(ChainOf(g)) = {}
  <2>1. PICK b \in Block, i \in Slot :
           /\ e = <<b, i>> /\ Leads(state, b, i)
           /\ ChainOf(e) = Chain(state, Target(state, b, i))
    BY <1>1
  <2>2. PICK c \in Block, j \in Slot :
           /\ g = <<c, j>> /\ Leads(state, c, j)
           /\ ChainOf(g) = Chain(state, Target(state, c, j))
    BY <1>1
  <2>3. i \in Port /\ j \in Port
    BY Sizes DEF Slot, Port
  <2>4. Target(state, b, i) \in 0..BLOCKS /\ Target(state, c, j) \in 0..BLOCKS
    BY <2>3, Pointers
  <2>5. ASSUME NEW x \in ToSet(ChainOf(e)), x \in ToSet(ChainOf(g)) PROVE FALSE
    <3>1. PICK m \in 1..BLOCKS + 1 : x # Boot /\ x = At(state, Target(state, b, i))[m]
      BY <2>1, <2>4, <2>5, InChain
    <3>2. PICK n \in 1..BLOCKS + 1 : x = At(state, Target(state, c, j))[n]
      BY <2>2, <2>4, <2>5, InChain
    <3>3. /\ At(state, Target(state, b, i))[m] # Boot
          /\ At(state, Target(state, b, i))[m] = At(state, Target(state, c, j))[n]
      BY <3>1, <3>2
    <3>4. b = c /\ i = j
      BY <1>2, <2>1, <2>2, <3>3, Apart
    <3> QED BY <1>4, <2>1, <2>2, <3>4
  <2> QED BY <2>5
<1> QED BY <1>3, <1>4 DEF OneOwner

\* A chain has no gap.
LEMMA ChainSeq ==
  ASSUME NEW s \in Volumes, NEW lba \in Block
  PROVE  \E n \in 1..BLOCKS + 1 :
            /\ Chain(s, lba) = [k \in 1..n |-> At(s, lba)[k]]
            /\ \A k \in 1..n : At(s, lba)[k] \in Block
<1>1. lba \in 0..BLOCKS /\ lba # Boot /\ BLOCKS \in Nat /\ \A x \in 0..BLOCKS : x # Boot => x \in Block
  BY Sizes DEF Block, Boot
<1>2. PICK at : at = At(s, lba)
  OBVIOUS
<1>3. at[1] = lba /\ \A k \in 1..BLOCKS + 1 : at[k] \in 0..BLOCKS
  BY <1>1, <1>2, AtFirst, StepTypes
<1>4. ASSUME NEW k \in 2..BLOCKS + 1, at[k - 1] = Boot PROVE at[k] = Boot
  BY <1>2, <1>4, AtNext DEF NextPart
<1> DEFINE dom(m) == {k \in 1..m : at[k] # Boot}
           Good == {m \in Nat : m + 1 \in 1..BLOCKS + 1 =>
                      \E n \in 1..m + 1 : dom(m + 1) = 1..n /\ (at[m + 1] # Boot => n = m + 1)}
<1>5. 0 \in Good
  <2>1. dom(1) = 1..1
    BY <1>1, <1>3
  <2>2. 0 + 1 = 1 /\ 1 \in 1..1
    OBVIOUS
  <2> HIDE DEF dom
  <2> QED BY <2>1, <2>2
<1>6. ASSUME NEW m \in Nat, m \in Good PROVE m + 1 \in Good
  <2>1. SUFFICES ASSUME m + 1 + 1 \in 1..BLOCKS + 1
                 PROVE  \E n \in 1..m + 1 + 1 : /\ dom(m + 1 + 1) = 1..n
                                                /\ at[m + 1 + 1] # Boot => n = m + 1 + 1
    OBVIOUS
  <2>2. PICK j \in 2..BLOCKS + 1 : j = m + 1 + 1
    BY <2>1, <1>1
  <2>3. j - 1 = m + 1 /\ m + 1 \in 1..BLOCKS + 1
    BY <2>1, <2>2, <1>1
  <2>4. PICK n \in 1..m + 1 : dom(m + 1) = 1..n /\ (at[m + 1] # Boot => n = m + 1)
    BY <2>3, <1>6
  <2>5. \A k : k \in 1..j <=> k \in 1..m + 1 \/ k = j
    BY <2>2
  <2>6. CASE at[j] = Boot
    <3>1. dom(j) = dom(m + 1)
      BY <2>5, <2>6
    <3>2. n \in 1..j
      BY <2>2
    <3> HIDE DEF dom
    <3> QED BY <3>1, <3>2, <2>2, <2>4, <2>6
  <2>7. CASE at[j] # Boot
    <3>1. at[m + 1] # Boot
      BY <2>2, <2>3, <2>7, <1>4
    <3>2. dom(m + 1) = 1..m + 1
      BY <2>4, <3>1
    <3>3. dom(j) = 1..j
      BY <3>2, <2>5, <2>7
    <3>4. j \in 1..j
      BY <2>2
    <3> HIDE DEF dom
    <3> QED BY <3>3, <3>4, <2>2
  <2> QED BY <2>6, <2>7
<1>7. \A m \in Nat : m \in Good
  <2> HIDE DEF Good
  <2> QED BY <1>5, <1>6, Induction
<1>8. PICK n \in 1..BLOCKS + 1 : dom(BLOCKS + 1) = 1..n
  <2>1. BLOCKS \in Good /\ BLOCKS + 1 \in 1..BLOCKS + 1
    BY <1>1, <1>7
  <2> HIDE DEF dom
  <2> QED BY <2>1
<1>9. Chain(s, lba) = [k \in 1..n |-> at[k]]
  BY <1>2, <1>8, ChainIs
<1>10. \A k \in 1..n : k \in 1..BLOCKS + 1 /\ at[k] # Boot
  BY <1>8
<1> QED BY <1>1, <1>2, <1>3, <1>9, <1>10

\* The parts of a file are no directories.
LEMMA FileChain ==
  ASSUME NEW s \in Volumes, Shape(s), NEW b \in Block, NEW i \in Slot,
         Leads(s, b, i), ~IsDir(Pointer(s, b, i))
  PROVE  ToSet(Chain(s, Target(s, b, i))) \cap Dirs(s) = {}
<1>1. SUFFICES ASSUME NEW d \in Dirs(s), d \in ToSet(Chain(s, Target(s, b, i)))
               PROVE  FALSE
  OBVIOUS
<1>2. Leading(s) /\ OneWay(s)
  BY DEF Shape
<1>3. d # Root
  BY <1>1, <1>2, Owned
<1>4. PICK j \in Slot : Leads(s, Root, j) /\ IsDir(Pointer(s, Root, j)) /\ Target(s, Root, j) = d
  BY <1>3, DirsAre
<1>5. j \in Port /\ j # 0 /\ Root \in Block
  BY Sizes DEF Slot, Port, Root, Block
<1> QED BY <1>1, <1>2, <1>4, <1>5, Sources

LEMMA ShapePartSizes ==
  ASSUME state \in Volumes, Shape(state)
  PROVE  PartSizes
<1>1. state.part = part
  BY DEF state
<1>2. ASSUME NEW b \in Dirs(state)
      PROVE  part[b].part_size = Cardinality({i \in Slot : Present(part[b].entry[i].addr)})
  BY <1>1, DirsAre DEF DirShape, PresentIn
<1>3. ASSUME NEW e \in LinkedEntries \ Files
      PROVE  ToSet(ChainOf(e)) \subseteq Dirs(state)
  <2>1. e \in Entries /\ Linked(AddrOf(e)) /\ IsDir(AddrOf(e))
    BY <1>3 DEF LinkedEntries, Files
  <2>2. PICK b \in Dirs(state), i \in Slot : e = <<b, i>> /\ AddrOf(e) = Pointer(state, b, i)
    BY <2>1, EntryIs
  <2>3. Leads(state, b, i) /\ IsDir(Pointer(state, b, i))
    BY <2>1, <2>2 DEF Leads
  <2>4. b = Root
    BY <2>3 DEF Shape, Shaped
  <2>5. PICK d \in Dirs(state) : d = Target(state, b, i)
    BY <2>3, <2>4, DirsAre
  <2>6. ToSet(Chain(state, d)) = {d}
    BY ShortChain, DirsAre
  <2> QED BY <2>2, <2>5, <2>6 DEF ChainOf, Target
<1>4. ASSUME NEW e \in LinkedEntries \cap Files
      PROVE  LET ps == PartsOf(e)
             IN  /\ \A k \in 1..Len(ps) - 1 : ps[k].part_size = FILE_DATA_PER_PART
                 /\ Last(ps).part_size <= FILE_DATA_PER_PART
  <2>1. e \in Entries /\ Linked(AddrOf(e)) /\ ~IsDir(AddrOf(e))
    BY <1>4 DEF LinkedEntries, Files
  <2>2. PICK b \in Dirs(state), i \in Slot : e = <<b, i>> /\ AddrOf(e) = Pointer(state, b, i)
    BY <2>1, EntryIs
  <2>3. Leads(state, b, i) /\ ~IsDir(Pointer(state, b, i)) /\ b \in Block
    BY <2>1, <2>2, DirsAre DEF Leads
  <2>4. PICK lba \in Block : lba = Target(state, b, i)
    <3>1. i \in Port /\ state.used \subseteq Block
      BY Sizes DEF Slot, Port, Volumes
    <3> QED BY <3>1, <2>3 DEF Shape, Leading
  <2>5. PICK at : at = At(state, lba)
    OBVIOUS
  <2>6. PICK n \in 1..BLOCKS + 1 : /\ Chain(state, lba) = [k \in 1..n |-> at[k]]
                                   /\ \A k \in 1..n : at[k] \in Block
    BY <2>5, ChainSeq
  <2>7. ChainOf(e) = Chain(state, lba)
    BY <2>2, <2>4 DEF ChainOf, Target
  <2>8. n \in Nat /\ Len(ChainOf(e)) = n
    BY <2>6, <2>7, Sizes
  <2>9. PartsOf(e) = [k \in 1..n |-> part[at[k]]]
    BY <2>6, <2>7, <2>8 DEF PartsOf
  <2>10. Len(PartsOf(e)) = n
    BY <2>8, <2>9
  <2>11. ASSUME NEW k \in 1..n PROVE FileShape(part[at[k]])
    <3>1. ToSet(Chain(state, lba)) \cap Dirs(state) = {}
      BY <2>3, <2>4, FileChain
    <3>2. at[k] \in ToSet(Chain(state, lba)) /\ at[k] \in Block
      BY <2>6 DEF ToSet
    <3> QED BY <3>1, <3>2, <1>1 DEF Shape, Shaped
  <2>12. ASSUME NEW k \in 1..n - 1 PROVE part[at[k]].part_size = FILE_DATA_PER_PART
    <3>1. PICK m \in 2..BLOCKS + 1 : m = k + 1 /\ m \in 1..n
      BY <2>8, Sizes
    <3>2. m - 1 = k /\ k \in 1..n /\ k \in 1..BLOCKS + 1
      BY <3>1, <2>8, Sizes
    <3>3. at[m] # Boot /\ lba \in 0..BLOCKS
      <4>1. at[m] \in Block
        BY <3>1, <2>6
      <4> QED BY <4>1, Sizes DEF Block, Boot
    <3>4. at[m - 1] \in 0..BLOCKS
      BY <3>2, <3>3, <2>5, StepTypes
    <3>5. Leads(state, at[k], 0)
      BY <3>2, <3>3, <3>4, <2>5, Before
    <3> QED BY <3>2, <3>5, <2>11, <1>1 DEF FileShape, Leads, Pointer
  <2>13. Last(PartsOf(e)).part_size <= FILE_DATA_PER_PART
    <3>1. n \in 1..n
      BY <2>8
    <3>2. Last(PartsOf(e)) = part[at[n]]
      BY <3>1, <2>9, <2>10 DEF Last
    <3> QED BY <3>1, <3>2, <2>11 DEF FileShape
  <2> QED BY <2>9, <2>10, <2>12, <2>13, <2>8
<1>5. Root \in Dirs(state)
  BY DirsAre
<1> QED BY <1>2, <1>3, <1>4, <1>5 DEF PartSizes

LEMMA ShapeFindsAll ==
  ASSUME state \in Volumes, Shape(state)
  PROVE  FindsAll
<1>1. state.part = part
  BY DEF state
<1>2. ASSUME NEW e \in RootEntries
      PROVE  FindPath(state, <<NameOf(e)>>, "undefined", FALSE) = e
  <2>1. PICK i \in PresentIn(part[Root]) : e = <<Root, i>>
    BY <1>2, EntriesAre
  <2>2. NameOf(e) = part[Root].entry[i].name
    BY <2>1, <1>1 DEF NameOf, EntryAt
  <2>3. FindInDir(state, Root, NameOf(e), "undefined", FALSE) = e
    BY <2>1, <2>2, <1>1, DirsAre, FindAny
  <2>4. Len(<<NameOf(e)>>) = 1 /\ <<NameOf(e)>>[1] = NameOf(e)
    OBVIOUS
  <2> QED BY <2>3, <2>4 DEF FindPath
<1>3. ASSUME NEW e \in RootEntries, NEW g \in SubEntries(e)
      PROVE  FindPath(state, <<NameOf(e), NameOf(g)>>, "undefined", FALSE) = g
  <2>1. PICK i \in PresentIn(part[Root]) : e = <<Root, i>>
    BY <1>3, EntriesAre
  <2>2. i \in Slot /\ i # 0
    BY PresentFinite, Sizes DEF Slot
  <2>3. /\ Leads(state, Root, i) /\ IsDir(Pointer(state, Root, i))
        /\ \E j \in PresentIn(part[Target(state, Root, i)]) : g = <<Target(state, Root, i), j>>
    BY <1>3, <2>1, SubEntryIs
  <2>4. PICK d \in Dirs(state) : d = Target(state, Root, i)
    BY <2>2, <2>3, DirsAre
  <2>5. PICK j \in PresentIn(part[d]) : g = <<d, j>>
    BY <2>3, <2>4
  <2>6. NameOf(e) = part[Root].entry[i].name /\ NameOf(g) = part[d].entry[j].name
    BY <2>1, <2>5, <1>1 DEF NameOf, EntryAt
  <2>7. FindInDir(state, Root, NameOf(e), "dir", TRUE) = e
    BY <2>1, <2>3, <2>6, <1>1, FindSub
  <2>8. FindInDir(state, d, NameOf(g), "undefined", FALSE) = g
    BY <2>5, <2>6, <1>1, FindAny
  <2>9. EntryAt(state, e).addr.lba = d /\ e # NotFound
    BY <2>1, <2>2, <2>4 DEF EntryAt, Target, Pointer, NotFound
  <2>10. PICK p : p = <<NameOf(e), NameOf(g)>>
    OBVIOUS
  <2>11. Len(p) # 1 /\ p[1] = NameOf(e) /\ p[2] = NameOf(g)
    BY <2>10
  <2>12. FindPath(state, p, "undefined", FALSE) = g
    BY <2>7, <2>8, <2>9, <2>11, Zenon DEF FindPath
  <2> QED BY <2>10, <2>12
<1> QED BY <1>2, <1>3 DEF FindsAll

LEMMA InvVolumeSound == Inv => VolumeSound
<1>1. SUFFICES ASSUME Inv PROVE VolumeSound
  OBVIOUS
<1>2. TypeOK
  <2>1. state.part = part /\ state.used = used /\ state.volume = volume
    BY DEF state
  <2>2. /\ part \in [Block -> PartType] /\ used \in SUBSET Block
        /\ volume \in {"sound", "boot", "wild"}
    BY <1>1, <2>1 DEF Inv, Volumes
  <2>3. f \in (Block \X Slot) \cup {NoFile}
    BY <1>1 DEF Inv
  <2> QED BY <2>2, <2>3 DEF TypeOK, PartType, EntryType, AddrType
<1>3. CASE volume = "sound"
  <2>1. state \in Volumes /\ Shape(state)
    BY <1>1, <1>3 DEF Inv
  <2> QED BY <2>1, <1>2, ShapeOneOwner, ShapePartSizes, ShapeFindsAll DEF VolumeSound
<1>4. CASE volume # "sound"
  BY <1>2, <1>4 DEF VolumeSound, OneOwner, PartSizes, FindsAll
<1> QED BY <1>3, <1>4

-----------------------------------------------------------------------------
(* What is reached.                                                        *)

\* The blocks of the chains of the entries, and those that no command reaches.
Chained(s) == {x \in Block : \E d \in Dirs(s), j \in Slot :
                                Leads(s, d, j) /\ x \in ToSet(Chain(s, Target(s, d, j)))}
Lost(s) == s.used \ ({Root} \cup Chained(s))

\* A block of what was in a directory that is none any more.
Orphaned(s, t, x) ==
    \E i, j \in Slot :
        /\ Leads(s, Root, i) /\ IsDir(Pointer(s, Root, i)) /\ ~Linked(Pointer(t, Root, i))
        /\ Leads(s, Target(s, Root, i), j)
        /\ x \in ToSet(Chain(s, Target(s, Target(s, Root, i), j)))

Loses(s, t) == \A x \in Lost(t) \ Lost(s) : Orphaned(s, t, x)

LEMMA SubTarget ==
  ASSUME NEW s \in Volumes, Shape(s), NEW d \in Dirs(s), NEW j \in Slot, Leads(s, d, j)
  PROVE  d \in Block /\ Target(s, d, j) \in Block /\ Leading(s) /\ OneWay(s)
<1>1. j \in Port /\ d \in Block
  BY DirsAre, Sizes DEF Slot, Port
<1> QED BY <1>1 DEF Shape, Leading, Volumes

\* A chain stays in a chain while its parts lead where they led.
LEMMA ChainKept ==
  ASSUME NEW s \in Volumes, NEW t \in Volumes, NEW lba \in 0..BLOCKS,
         \A c \in ToSet(Chain(s, lba)) : Leads(s, c, 0) => Pointer(t, c, 0) = Pointer(s, c, 0)
  PROVE  ToSet(Chain(s, lba)) \subseteq ToSet(Chain(t, lba))
<1>1. PICK at, bt : at = At(s, lba) /\ bt = At(t, lba)
  OBVIOUS
<1>2. at[1] = lba /\ bt[1] = lba /\ \A k \in 1..BLOCKS + 1 : at[k] \in 0..BLOCKS
  BY <1>1, AtFirst, StepTypes
<1> DEFINE Good == {n \in Nat : n + 1 \in 1..BLOCKS + 1 /\ at[n + 1] # Boot
                                  => bt[n + 1] = at[n + 1]}
<1>3. 0 \in Good
  <2>1. 0 + 1 = 1
    OBVIOUS
  <2> QED BY <2>1, <1>2
<1>4. ASSUME NEW n \in Nat, n \in Good PROVE n + 1 \in Good
  <2>1. SUFFICES ASSUME n + 1 + 1 \in 1..BLOCKS + 1, at[n + 1 + 1] # Boot
                 PROVE  bt[n + 1 + 1] = at[n + 1 + 1]
    OBVIOUS
  <2>2. PICK k \in 2..BLOCKS + 1 : k = n + 1 + 1
    BY <2>1, Sizes
  <2>3. k - 1 = n + 1 /\ n + 1 \in 1..BLOCKS + 1
    BY <2>1, <2>2, Sizes
  <2>4. PICK c \in Block : c = at[k - 1] /\ Leads(s, c, 0) /\ Target(s, c, 0) = at[k]
    BY <2>1, <2>2, <2>3, <1>1, <1>2, Before
  <2>5. c # Boot
    BY Sizes DEF Block, Boot
  <2>6. c \in ToSet(Chain(s, lba))
    BY <2>3, <2>4, <2>5, <1>1, InChain
  <2>7. Pointer(t, c, 0) = Pointer(s, c, 0)
    BY <2>4, <2>6
  <2>8. bt[k - 1] = c
    BY <2>3, <2>4, <2>5, <1>4
  <2>9. bt[k] = NextPart(t, c)
    BY <2>8, <1>1, AtNext
  <2>10. NextPart(t, c) = Target(s, c, 0)
    BY <2>4, <2>5, <2>7 DEF NextPart, Leads, Target, Pointer
  <2> QED BY <2>2, <2>4, <2>9, <2>10
<1>5. \A n \in Nat : n \in Good
  <2> HIDE DEF Good
  <2> QED BY <1>3, <1>4, Induction
<1>6. ASSUME NEW x \in ToSet(Chain(s, lba)) PROVE x \in ToSet(Chain(t, lba))
  <2>1. PICK k \in 1..BLOCKS + 1 : x # Boot /\ x = at[k]
    BY <1>1, InChain
  <2>2. PICK n \in Nat : n + 1 = k
    <3>1. k - 1 \in Nat /\ (k - 1) + 1 = k
      BY Sizes
    <3> QED BY <3>1
  <2>3. bt[k] = x
    BY <2>1, <2>2, <1>5
  <2> QED BY <2>1, <2>3, <1>1, InChain
<1> QED BY <1>6

\* A chain has at most as many parts as there are blocks, so the scan of it
\* misses none.
LEMMA ChainGoesOn ==
  ASSUME NEW s \in Volumes, Leading(s), OneWay(s), NEW b \in Block, NEW i \in Slot,
         Leads(s, b, i), NEW c \in ToSet(Chain(s, Target(s, b, i))), Leads(s, c, 0)
  PROVE  Target(s, c, 0) \in ToSet(Chain(s, Target(s, b, i)))
<1>1. i \in Port /\ 0 \in Port /\ BLOCKS \in Nat /\ s.used \subseteq Block /\ Boot \notin Block
  BY Sizes DEF Port, Slot, Volumes, Block, Boot
<1>2. PICK lba \in Block : lba = Target(s, b, i)
  BY <1>1 DEF Leading
<1>3. lba \in 0..BLOCKS
  BY <1>1 DEF Block
<1>4. PICK at : at = At(s, lba)
  OBVIOUS
<1>5. PICK n \in 1..BLOCKS + 1 : /\ Chain(s, lba) = [k \in 1..n |-> at[k]]
                                 /\ \A k \in 1..n : at[k] \in Block
  BY <1>4, ChainSeq
<1>6. \A m, k \in 1..BLOCKS + 1 : at[m] # Boot /\ at[m] = at[k] => m = k
  BY <1>2, <1>4, Apart
<1>7. n <= BLOCKS
  <2>1. SUFFICES ASSUME n = BLOCKS + 1 PROVE FALSE
    BY <1>1
  <2>2. IsFiniteSet(Block) /\ Cardinality(Block) = BLOCKS
    <3>1. BLOCKS \in Int /\ ~(1 > BLOCKS)
      BY Sizes
    <3>2. IsFiniteSet(1..BLOCKS) /\ Cardinality(1..BLOCKS) = BLOCKS - 1 + 1
      BY <3>1, FS_Interval
    <3> QED BY <3>1, <3>2 DEF Block
  <2>3. IsFiniteSet(1..BLOCKS + 1) /\ Cardinality(1..BLOCKS + 1) = BLOCKS + 1
    <3>1. PICK m \in Nat : m = BLOCKS + 1
      BY <1>1
    <3>2. ~(1 > m)
      BY <3>1, Sizes
    <3>3. IsFiniteSet(1..m) /\ Cardinality(1..m) = m - 1 + 1
      BY <3>1, <3>2, FS_Interval
    <3> QED BY <3>1, <3>3
  <2>4. PICK g, S : S = 1..BLOCKS + 1 /\ g = [k \in S |-> at[k]]
    OBVIOUS
  <2>5. g \in [S -> Block]
    BY <2>1, <2>4, <1>5
  <2>6. IsFiniteSet(S) /\ Cardinality(Block) < Cardinality(S)
    BY <2>2, <2>3, <2>4, <1>1
  <2>7. \E x, y \in S : x # y /\ g[x] = g[y]
    BY <2>2, <2>5, <2>6, FS_PigeonHole
  <2>8. PICK x, y \in 1..BLOCKS + 1 : x # y /\ g[x] = g[y]
    BY <2>4, <2>7
  <2>9. at[x] = at[y] /\ at[x] # Boot
    BY <2>1, <2>4, <2>8, <1>1, <1>5
  <2> QED BY <2>8, <2>9, <1>6
<1>8. PICK m \in 1..n : c = at[m]
  <2>1. ToSet(Chain(s, lba)) = {at[k] : k \in 1..n}
    BY <1>5 DEF ToSet
  <2> QED BY <2>1, <1>2
<1>9. PICK k \in 2..BLOCKS + 1 : k - 1 = m /\ k \in 1..BLOCKS + 1
  <2>1. m + 1 \in 2..BLOCKS + 1 /\ (m + 1) - 1 = m /\ m + 1 \in 1..BLOCKS + 1
    BY <1>1, <1>7
  <2> QED BY <2>1
<1>10. c \in Block /\ c # Boot
  BY <1>1, <1>5, <1>8
<1>11. at[k] = NextPart(s, c)
  BY <1>4, <1>8, <1>9, AtNext
<1>12. at[k] = Target(s, c, 0)
  BY <1>10, <1>11 DEF NextPart, Leads, Target, Pointer
<1>13. Target(s, c, 0) # Boot
  BY <1>1, <1>10 DEF Leading
<1> QED BY <1>2, <1>3, <1>4, <1>9, <1>12, <1>13, InChain

LEMMA TargetChained ==
  ASSUME NEW s \in Volumes, NEW lba \in Block
  PROVE  lba \in ToSet(Chain(s, lba))
<1>1. lba \in 0..BLOCKS /\ lba # Boot /\ 1 \in 1..BLOCKS + 1
  BY Sizes DEF Block, Boot
<1>2. At(s, lba)[1] = lba
  BY AtFirst
<1> QED BY <1>1, <1>2, InChain

LEMMA ChainedIs ==
  ASSUME NEW s \in Volumes, Shape(s)
  PROVE  /\ \A d \in Dirs(s), j \in Slot :
               Leads(s, d, j) => /\ ToSet(Chain(s, Target(s, d, j))) \subseteq Chained(s)
                                 /\ Target(s, d, j) \in Chained(s)
         /\ \A c \in Chained(s) : Leads(s, c, 0) => Target(s, c, 0) \in Chained(s)
<1>1. ASSUME NEW d \in Dirs(s), NEW j \in Slot, Leads(s, d, j)
      PROVE  /\ ToSet(Chain(s, Target(s, d, j))) \subseteq Chained(s)
             /\ Target(s, d, j) \in ToSet(Chain(s, Target(s, d, j)))
  <2>1. PICK lba \in Block : lba = Target(s, d, j)
    BY <1>1, SubTarget
  <2>2. lba \in 0..BLOCKS
    BY Sizes DEF Block
  <2>3. ToSet(Chain(s, lba)) \subseteq Block
    BY <2>2, InChain
  <2>4. lba \in ToSet(Chain(s, lba))
    BY TargetChained
  <2> QED BY <1>1, <2>1, <2>3, <2>4 DEF Chained
<1>2. ASSUME NEW c \in Chained(s), Leads(s, c, 0) PROVE Target(s, c, 0) \in Chained(s)
  <2>1. PICK d \in Dirs(s), j \in Slot : Leads(s, d, j) /\ c \in ToSet(Chain(s, Target(s, d, j)))
    BY DEF Chained
  <2>2. Target(s, c, 0) \in ToSet(Chain(s, Target(s, d, j)))
    BY <2>1, <1>2, SubTarget, ChainGoesOn
  <2> QED BY <2>1, <2>2, <1>1
<1> QED BY <1>1, <1>2

-----------------------------------------------------------------------------
(* Changing an entry.                                                      *)

LEMMA ZeroIs ==
  /\ NoAddr \in AddrType /\ NoEntry \in EntryType /\ ZeroPart \in PartType
  /\ PresentIn(ZeroPart) = {} /\ ~Linked(ZeroPart.next)
  /\ \A i \in Slot : ZeroPart.entry[i].addr = NoAddr
  /\ DirShape(ZeroPart) /\ FileShape(ZeroPart)
<1>1. NoAddr \in AddrType
  BY Sizes DEF NoAddr, Addr, AddrType, Boot, Flags
<1>2. NoEntry \in EntryType
  BY <1>1 DEF NoEntry, EntryType
<1>3. 0 \in 0..SizeMax /\ 0 \in 0..MAX_WRITE
  BY Sizes
<1>4. ZeroPart \in PartType
  BY <1>1, <1>2, <1>3 DEF ZeroPart, PartType
<1>5. ~Present(NoAddr) /\ ~Linked(NoAddr)
  BY DEF NoAddr, Addr, Present, Linked
<1>6. \A i \in Slot : ZeroPart.entry[i].addr = NoAddr
  BY DEF ZeroPart, NoEntry
<1>7. ZeroPart.next = NoAddr /\ ZeroPart.part_size = 0
  BY DEF ZeroPart
<1>8. PresentIn(ZeroPart) = {}
  BY <1>5, <1>6 DEF PresentIn
<1>9. DirShape(ZeroPart)
  BY <1>5, <1>7, <1>8, FS_EmptySet DEF DirShape
<1>10. FileShape(ZeroPart)
  BY <1>5, <1>7, <1>8, Sizes DEF FileShape
<1> QED BY <1>1, <1>2, <1>4, <1>5, <1>6, <1>7, <1>8, <1>9, <1>10

LEMMA NewAddrIs ==
  ASSUME NEW type
  PROVE  /\ NewAddr(type) \in AddrType /\ Present(NewAddr(type)) /\ ~Linked(NewAddr(type))
         /\ NewAddr(type).lba = Boot
BY Sizes DEF NewAddr, Addr, AddrType, Boot, Flags, Present, Linked

\* The volume with a part changed and some made free.
WithPart(s, freed, b, q) ==
    [part |-> [c \in Block |-> IF c \in freed THEN ZeroPart
                              ELSE IF c = b THEN q ELSE s.part[c]],
     used |-> s.used \ freed, volume |-> s.volume]

\* An entry is all that changes in it.
EntryOnly(p, q, i) == /\ q.next = p.next
                      /\ \A j \in Slot : j # i => q.entry[j] = p.entry[j]

\* An entry has changed: the other entries are what they were and lead to what
\* they led to, those in the directory that it led to apart.
Edited(s, t, b, i) ==
    /\ t \in Volumes
    /\ \A j \in Slot : j # i => t.part[b].entry[j] = s.part[b].entry[j]
    /\ \A d \in Dirs(s) : ~(Leads(s, b, i) /\ Target(s, b, i) = d) =>
          /\ d # b => t.part[d] = s.part[d]
          /\ \A j \in Slot : /\ Leads(s, d, j) /\ ~IsDir(Pointer(s, d, j))
                              /\ ~(d = b /\ j = i)
                => \A c \in ToSet(Chain(s, Target(s, d, j))) : t.part[c] = s.part[c]

\* What a path leads to has changed, to an entry of that name or to none.
Entered(s, t, path, name, addr) ==
    \E b \in Dirs(s), i \in Slot :
        /\ PathTo(s, b, name, path)
        /\ \A j \in PresentIn(s.part[b]) : s.part[b].entry[j].name = name <=> j = i
        /\ Edited(s, t, b, i)
        /\ t.part[b].entry[i].addr = addr
        /\ Present(addr) => t.part[b].entry[i].name = name

PartChanged(s, t, freed, b, i, q) ==
    /\ t \in Volumes /\ t.used = s.used \ freed /\ t.volume = s.volume
    /\ \A c \in freed : t.part[c] = ZeroPart
    /\ \A c \in Block \ (freed \cup {b}) : t.part[c] = s.part[c]
    /\ t.part[b] = q
    /\ \A c \in freed, k \in Port : ~Leads(t, c, k)
    /\ Pointer(t, b, i) = q.entry[i].addr
    /\ \A c \in Block \ freed, k \in Port :
          c # b \/ k # i => Pointer(t, c, k) = Pointer(s, c, k)

LEMMA WithPartIs ==
  ASSUME NEW s \in Volumes, NEW freed \in SUBSET Block, NEW b \in Block, NEW i \in Slot,
         NEW q \in PartType, EntryOnly(s.part[b], q, i), b \notin freed
  PROVE  PartChanged(s, WithPart(s, freed, b, q), freed, b, i, q)
<1> DEFINE t == WithPart(s, freed, b, q)
<1>1. s.part[b] \in PartType /\ s.part \in [Block -> PartType]
  BY DEF Volumes
<1>2. t \in Volumes
  BY <1>1, ZeroIs DEF WithPart, Volumes
<1>3. /\ t.used = s.used \ freed /\ t.volume = s.volume
      /\ \A c \in freed : t.part[c] = ZeroPart
      /\ \A c \in Block \ (freed \cup {b}) : t.part[c] = s.part[c]
      /\ t.part[b] = q
  BY DEF WithPart
<1>4. i \in Port /\ i # 0 /\ \A k \in Port : k # 0 => k \in Slot
  BY Sizes DEF Port, Slot
<1>5. ASSUME NEW c \in freed, NEW k \in Port PROVE ~Leads(t, c, k)
  <2>1. Pointer(t, c, k) = NoAddr
    <3>1. t.part[c] = ZeroPart
      BY <1>3
    <3>2. ZeroPart.next = NoAddr
      BY DEF ZeroPart
    <3> QED BY <3>1, <3>2, <1>4, ZeroIs DEF Pointer
  <2> QED BY <2>1 DEF Leads, Linked, Present, NoAddr, Addr
<1>6. Pointer(t, b, i) = q.entry[i].addr
  BY <1>3, <1>4 DEF Pointer
<1>7. ASSUME NEW c \in Block \ freed, NEW k \in Port, c # b \/ k # i
      PROVE  Pointer(t, c, k) = Pointer(s, c, k)
  <2>1. CASE c # b
    BY <2>1, <1>3 DEF Pointer
  <2>2. CASE c = b
    BY <2>2, <1>3, <1>4, <1>7 DEF Pointer, EntryOnly
  <2> QED BY <2>1, <2>2
<1> QED BY <1>2, <1>3, <1>5, <1>6, <1>7 DEF PartChanged

\* An entry takes the place of one whose chain, if it had one, is freed.
LEMMA WithPartShape ==
  ASSUME NEW s \in Volumes, Shape(s), NEW b \in Dirs(s), NEW i \in Slot,
         NEW freed \in SUBSET Block, b \notin freed, Root \notin freed,
         \A c \in Block \ freed, k \in Port :
            Leads(s, c, k) /\ Target(s, c, k) \in freed => c = b /\ k = i,
         Leads(s, b, i) => Target(s, b, i) \in freed,
         NEW q \in PartType, EntryOnly(s.part[b], q, i), ~Linked(q.entry[i].addr),
         DirShape(q)
  PROVE  LET t == WithPart(s, freed, b, q)
         IN  Shape(t) /\ t \in Volumes /\ t.volume = s.volume
<1> DEFINE t == WithPart(s, freed, b, q)
<1>1. b \in Block /\ Root \in Block /\ i \in Port
  BY DirsAre, Sizes DEF Root, Block, Slot, Port
<1>2. PartChanged(s, t, freed, b, i, q)
  BY <1>1, WithPartIs
<1> HIDE DEF t
<1>3. /\ t \in Volumes /\ t.used = s.used \ freed /\ t.volume = s.volume
      /\ \A c \in freed : t.part[c] = ZeroPart
      /\ \A c \in Block \ (freed \cup {b}) : t.part[c] = s.part[c]
      /\ t.part[b] = q
      /\ \A c \in freed, k \in Port : ~Leads(t, c, k)
      /\ Pointer(t, b, i) = q.entry[i].addr
      /\ \A c \in Block \ freed, k \in Port :
            c # b \/ k # i => Pointer(t, c, k) = Pointer(s, c, k)
  BY <1>2 DEF PartChanged
<1>4. ASSUME NEW c \in Block, NEW k \in Port, Leads(t, c, k)
      PROVE  /\ c \notin freed /\ Leads(s, c, k) /\ Target(t, c, k) = Target(s, c, k)
             /\ Pointer(t, c, k) = Pointer(s, c, k) /\ ~(c = b /\ k = i)
             /\ Target(s, c, k) \notin freed
  <2>1. c \notin freed /\ ~(c = b /\ k = i)
    BY <1>3, <1>4 DEF Leads
  <2>2. Pointer(t, c, k) = Pointer(s, c, k)
    BY <2>1, <1>3
  <2> QED BY <2>1, <2>2, <1>4 DEF Leads, Target
<1>5. Root \in t.used
  BY <1>3 DEF Shape
<1>6. Blank(t)
  <2>1. SUFFICES ASSUME NEW c \in Block \ t.used PROVE t.part[c] = ZeroPart
    BY DEF Blank
  <2>2. CASE c \in freed
    BY <2>2, <1>3
  <2>3. CASE c \notin freed
    <3>1. c \notin s.used /\ c # b
      BY <2>3, <1>3, DirsAre
    <3> QED BY <2>3, <3>1, <1>3 DEF Shape, Blank
  <2> QED BY <2>2, <2>3
<1>7. Leading(t)
  BY <1>3, <1>4 DEF Shape, Leading
<1>8. OneWay(t)
  <2>1. OneWay(s)
    BY DEF Shape
  <2> QED BY <2>1, <1>4 DEF OneWay
<1>9. \A j \in Slot : j \in Port
  BY Sizes DEF Slot, Port
<1>10. Dirs(t) \subseteq Dirs(s)
  BY <1>1, <1>4, <1>9 DEF Dirs
<1>11. ASSUME NEW d \in Dirs(s) \ Dirs(t) PROVE d \in freed
  <2>1. d # Root
    BY DEF Dirs
  <2>2. PICK j \in Slot : Leads(s, Root, j) /\ IsDir(Pointer(s, Root, j)) /\ Target(s, Root, j) = d
    BY <2>1, <1>11, DirsAre
  <2>3. CASE Root = b /\ j = i
    BY <2>2, <2>3
  <2>4. CASE ~(Root = b /\ j = i)
    <3>1. Pointer(t, Root, j) = Pointer(s, Root, j)
      BY <2>4, <1>1, <1>3, <1>9
    <3>2. d \in Dirs(t)
      BY <2>2, <3>1 DEF Dirs, Leads, Target
    <3> QED BY <3>2, <1>11
  <2> QED BY <2>3, <2>4
<1>12. Shaped(t)
  <2>1. ASSUME NEW d \in Dirs(t) PROVE DirShape(t.part[d])
    <3>1. d \in Dirs(s) /\ d \in Block
      BY <1>10, DirsAre
    <3>2. CASE d \in freed
      BY <3>2, <1>3, ZeroIs
    <3>3. CASE d = b
      BY <3>3, <1>3
    <3>4. CASE d \notin freed /\ d # b
      BY <3>1, <3>4, <1>3, DirsAre
    <3> QED BY <3>2, <3>3, <3>4
  <2>2. ASSUME NEW c \in Block \ Dirs(t) PROVE FileShape(t.part[c])
    <3>1. CASE c \in freed
      BY <3>1, <1>3, ZeroIs
    <3>2. CASE c \notin freed
      <4>1. c \notin Dirs(s) /\ c # b
        BY <3>2, <1>11
      <4> QED BY <3>2, <4>1, <1>3 DEF Shape, Shaped
    <3> QED BY <3>1, <3>2
  <2>3. ASSUME NEW d \in Dirs(t) \ {Root}, NEW j \in Slot, Leads(t, d, j)
        PROVE  ~IsDir(Pointer(t, d, j))
    <3>1. d \in Dirs(s) \ {Root} /\ d \in Block
      BY <1>10, DirsAre
    <3>2. Leads(s, d, j) /\ Pointer(t, d, j) = Pointer(s, d, j)
      BY <3>1, <2>3, <1>4, <1>9
    <3> QED BY <3>1, <3>2 DEF Shape, Shaped
  <2> QED BY <2>1, <2>2, <2>3 DEF Shaped
<1> QED BY <1>3, <1>5, <1>6, <1>7, <1>8, <1>12 DEF Shape, t

Without(s, freed) ==
    [part |-> [c \in Block |-> IF c \in freed THEN ZeroPart ELSE s.part[c]],
     used |-> s.used \ freed, volume |-> s.volume]

\* What may be freed with an entry: nothing else leads there.
Separate(s, freed, b, i) ==
    /\ b \notin freed /\ Root \notin freed
    /\ \A c \in Block \ freed, k \in Port :
          Leads(s, c, k) /\ Target(s, c, k) \in freed => c = b /\ k = i
    /\ Leads(s, b, i) => Target(s, b, i) \in freed
    /\ freed = IF Leads(s, b, i) THEN ToSet(Chain(s, Target(s, b, i))) ELSE {}

\* The directory of the entry stays, under its path.
LEMMA PathKept ==
  ASSUME NEW s \in Volumes, Shape(s), NEW b \in Dirs(s), NEW i \in Slot, NEW t, Edited(s, t, b, i),
         NEW name, NEW path, PathTo(s, b, name, path)
  PROVE  b \in Dirs(t) /\ PathTo(t, b, name, path)
<1>1. Root \in Dirs(s) /\ b \in Block /\ \A k \in Slot : k \in Port /\ k # 0
  BY DirsAre, Sizes DEF Slot, Port
<1>2. Leads(s, b, i) => Target(s, b, i) # Root
  BY <1>1 DEF Shape, Leading
<1>3. CASE b = Root
  <2>1. path = <<name>>
    BY <1>3, DirsAre DEF PathTo
  <2> QED BY <2>1, <1>3 DEF PathTo, Dirs
<1>4. CASE b # Root
  <2>1. PICK k \in Slot : /\ Leads(s, Root, k) /\ IsDir(Pointer(s, Root, k))
                          /\ Target(s, Root, k) = b
                          /\ path = <<s.part[Root].entry[k].name, name>>
    BY <1>4 DEF PathTo
  <2>2. t.part[Root] = s.part[Root]
    BY <1>1, <1>2, <1>4 DEF Edited
  <2>3. Pointer(t, Root, k) = Pointer(s, Root, k)
    BY <2>2 DEF Pointer
  <2> QED BY <2>1, <2>2, <2>3 DEF PathTo, Dirs, Leads, Target
<1> QED BY <1>3, <1>4

\* What other entries lead to is not freed, unless it is a directory.
LEMMA Spared ==
  ASSUME NEW s \in Volumes, Shape(s), NEW b \in Dirs(s), NEW i \in Slot,
         NEW freed \in SUBSET Block, Separate(s, freed, b, i), NEW d \in Dirs(s)
  PROVE  /\ d \in freed => b = Root /\ Leads(s, b, i) /\ Target(s, b, i) = d
         /\ \A j \in Slot : Leads(s, d, j) /\ ~(d = b /\ j = i) =>
               ToSet(Chain(s, Target(s, d, j))) \subseteq Block \ freed
<1>1. /\ Root \notin freed
      /\ \A c \in Block \ freed, k \in Port :
            Leads(s, c, k) /\ Target(s, c, k) \in freed => c = b /\ k = i
      /\ Leads(s, b, i) => freed = ToSet(Chain(s, Target(s, b, i)))
      /\ ~Leads(s, b, i) => freed = {}
  BY DEF Separate
<1>2. /\ b \in Block /\ Root \in Block /\ d \in Block /\ Leading(s) /\ OneWay(s)
      /\ \A j \in Slot : j \in Port
  BY DirsAre, Sizes DEF Slot, Port, Root, Block, Shape
<1>3. ASSUME d \in freed PROVE b = Root /\ Leads(s, b, i) /\ Target(s, b, i) = d
  <2>1. PICK k \in Slot : /\ Leads(s, Root, k) /\ IsDir(Pointer(s, Root, k))
                          /\ Target(s, Root, k) = d
    BY <1>1, <1>3, DirsAre
  <2>2. Root = b /\ k = i
    BY <2>1, <1>1, <1>2, <1>3
  <2> QED BY <2>1, <2>2
<1>4. ASSUME NEW j \in Slot, Leads(s, d, j), ~(d = b /\ j = i),
             NEW c \in ToSet(Chain(s, Target(s, d, j)))
      PROVE  c \in Block \ freed
  <2>1. PICK lba \in Block : lba = Target(s, d, j) /\ lba \in 0..BLOCKS
    <3>1. Target(s, d, j) \in Block
      BY <1>4, SubTarget
    <3> QED BY <3>1, Sizes DEF Block
  <2>2. c \in Block
    BY <2>1, <1>4, InChain
  <2>3. SUFFICES ASSUME c \in freed PROVE FALSE
    BY <2>2
  <2>4. Leads(s, b, i) /\ c \in ToSet(Chain(s, Target(s, b, i)))
    BY <2>3, <1>1
  <2>5. PICK y \in Block : y = Target(s, b, i) /\ y \in 0..BLOCKS
    <3>1. Target(s, b, i) \in Block
      BY <2>4, SubTarget
    <3> QED BY <3>1, Sizes DEF Block
  <2>6. PICK m \in 1..BLOCKS + 1 : c # Boot /\ c = At(s, lba)[m]
    BY <2>1, <1>4, InChain
  <2>7. PICK n \in 1..BLOCKS + 1 : c = At(s, y)[n]
    BY <2>4, <2>5, InChain
  <2>8. At(s, Target(s, d, j))[m] # Boot
        /\ At(s, Target(s, d, j))[m] = At(s, Target(s, b, i))[n]
    BY <2>1, <2>5, <2>6, <2>7
  <2>9. \A u, v \in 1..BLOCKS + 1 :
           At(s, Target(s, d, j))[u] # Boot
           /\ At(s, Target(s, d, j))[u] = At(s, Target(s, b, i))[v]
              => d = b /\ j = i /\ u = v
    <3>1. /\ d \in Block /\ j \in Slot /\ Leads(s, d, j) /\ b \in Block /\ i \in Slot
          /\ Leads(s, b, i) /\ Leading(s) /\ OneWay(s)
      BY <2>4, <1>2, <1>4
    <3> QED BY <3>1, Apart
  <2> QED BY <2>8, <2>9, <1>4
<1> QED BY <1>3, <1>4

LEMMA WithPartEdits ==
  ASSUME NEW s \in Volumes, Shape(s), NEW b \in Dirs(s), NEW i \in Slot,
         NEW freed \in SUBSET Block, Separate(s, freed, b, i),
         NEW q \in PartType, EntryOnly(s.part[b], q, i)
  PROVE  LET t == WithPart(s, freed, b, q)
         IN  Edited(s, t, b, i) /\ t.part[b].entry[i] = q.entry[i]
<1>1. b \in Block /\ b \notin freed
  BY DirsAre DEF Separate
<1>2. PICK t : t = WithPart(s, freed, b, q) /\ PartChanged(s, t, freed, b, i, q)
  BY <1>1, WithPartIs
<1>3. /\ t \in Volumes /\ t.part[b] = q
      /\ \A c \in Block \ (freed \cup {b}) : t.part[c] = s.part[c]
  BY <1>2 DEF PartChanged
<1>4. \A j \in Slot : j # i => t.part[b].entry[j] = s.part[b].entry[j]
  BY <1>3 DEF EntryOnly
<1>5. ASSUME NEW d \in Dirs(s), ~(Leads(s, b, i) /\ Target(s, b, i) = d), d # b
      PROVE  t.part[d] = s.part[d]
  <2>1. d \notin freed /\ d \in Block
    BY <1>5, Spared, DirsAre
  <2> QED BY <2>1, <1>3, <1>5
<1>6. ASSUME NEW d \in Dirs(s), NEW j \in Slot, Leads(s, d, j), ~IsDir(Pointer(s, d, j)),
             ~(d = b /\ j = i), NEW c \in ToSet(Chain(s, Target(s, d, j)))
      PROVE  t.part[c] = s.part[c]
  <2>1. c \in Block \ freed
    BY <1>6, Spared
  <2>2. d \in Block
    BY DirsAre
  <2>3. c # b
    BY <1>6, <2>2, FileChain
  <2> QED BY <2>1, <2>3, <1>3
<1>7. Edited(s, t, b, i)
  BY <1>3, <1>4, <1>5, <1>6 DEF Edited
<1> QED BY <1>2, <1>3, <1>7

\* Only what was in a directory that is freed is lost.
LEMMA WithPartLoses ==
  ASSUME NEW s \in Volumes, Shape(s), NEW b \in Dirs(s), NEW i \in Slot,
         NEW freed \in SUBSET Block, Separate(s, freed, b, i),
         NEW q \in PartType, EntryOnly(s.part[b], q, i), ~Linked(q.entry[i].addr)
  PROVE  Loses(s, WithPart(s, freed, b, q))
<1>1. /\ b \notin freed /\ Root \notin freed
      /\ \A c \in Block \ freed, k \in Port :
            Leads(s, c, k) /\ Target(s, c, k) \in freed => c = b /\ k = i
      /\ Leads(s, b, i) => /\ Target(s, b, i) \in freed
                           /\ freed = ToSet(Chain(s, Target(s, b, i)))
      /\ ~Leads(s, b, i) => freed = {}
  BY DEF Separate
<1>2. /\ b \in Block /\ Root \in Block /\ 0 \in Port /\ i # 0 /\ Leading(s) /\ OneWay(s)
      /\ \A j \in Slot : j \in Port
  BY DirsAre, Sizes DEF Slot, Port, Root, Block, Shape
<1>3. PICK t : t = WithPart(s, freed, b, q) /\ PartChanged(s, t, freed, b, i, q)
  BY <1>1, <1>2, WithPartIs
<1>4. /\ t \in Volumes /\ t.used = s.used \ freed /\ ~Linked(Pointer(t, b, i))
      /\ \A c \in Block \ freed, k \in Port :
            c # b \/ k # i => Pointer(t, c, k) = Pointer(s, c, k)
  BY <1>3 DEF PartChanged
<1>5. SUFFICES ASSUME NEW x \in Lost(t), x \notin Lost(s) PROVE Orphaned(s, t, x)
  BY <1>3 DEF Loses
<1>6. x \in s.used /\ x \notin freed /\ x \notin Chained(t) /\ x # Root /\ x \in Chained(s)
  BY <1>4, <1>5 DEF Lost
<1>7. PICK d \in Dirs(s), j \in Slot :
         Leads(s, d, j) /\ x \in ToSet(Chain(s, Target(s, d, j)))
  BY <1>6 DEF Chained
<1>8. ~(d = b /\ j = i)
  BY <1>1, <1>6, <1>7
<1>9. PICK lba \in Block : lba = Target(s, d, j) /\ d \in Block /\ lba \in 0..BLOCKS
  <2>1. Target(s, d, j) \in Block /\ d \in Block
    BY <1>7, SubTarget
  <2> QED BY <2>1, Sizes DEF Block
<1>10. CASE d \in freed
  <2>1. PICK k \in Slot : /\ Leads(s, Root, k) /\ IsDir(Pointer(s, Root, k))
                          /\ Target(s, Root, k) = d
    BY <1>1, <1>10, DirsAre
  <2>2. Root = b /\ k = i
    BY <2>1, <1>1, <1>2, <1>10
  <2>3. ~Linked(Pointer(t, Root, k))
    BY <2>2, <1>4
  <2> QED BY <2>1, <2>3, <1>7 DEF Orphaned
<1>11. CASE d \notin freed
  <2>1. d \in Dirs(t)
    <3>1. CASE d = Root
      BY <3>1 DEF Dirs
    <3>2. CASE d # Root
      <4>1. PICK k \in Slot : /\ Leads(s, Root, k) /\ IsDir(Pointer(s, Root, k))
                              /\ Target(s, Root, k) = d
        BY <3>2, DirsAre
      <4>2. ~(Root = b /\ k = i)
        BY <4>1, <1>1, <1>11
      <4>3. Pointer(t, Root, k) = Pointer(s, Root, k)
        BY <4>2, <1>1, <1>2, <1>4
      <4> QED BY <4>1, <4>3 DEF Dirs, Leads, Target
    <3> QED BY <3>1, <3>2
  <2>2. Leads(t, d, j) /\ Target(t, d, j) = lba
    <3>1. Pointer(t, d, j) = Pointer(s, d, j)
      BY <1>2, <1>4, <1>8, <1>9, <1>11
    <3> QED BY <3>1, <1>7, <1>9 DEF Leads, Target
  <2>3. ToSet(Chain(s, lba)) \subseteq Block \ freed
    BY <1>7, <1>8, <1>9, Spared
  <2>4. \A c \in ToSet(Chain(s, lba)) : Pointer(t, c, 0) = Pointer(s, c, 0)
    BY <2>3, <1>2, <1>4
  <2>5. x \in ToSet(Chain(t, lba))
    BY <2>4, <1>4, <1>7, <1>9, ChainKept
  <2>6. x \in Block
    BY <1>6 DEF Chained
  <2>7. x \in Chained(t)
    BY <2>1, <2>2, <2>5, <2>6 DEF Chained
  <2> QED BY <2>7, <1>6
<1> QED BY <1>10, <1>11

LEMMA Pruned ==
  ASSUME NEW s \in Volumes, Shape(s), NEW b \in Dirs(s), NEW i \in PresentIn(s.part[b])
  PROVE  \E freed \in SUBSET Block :
            /\ DeleteChainParts(s, s.part[b].entry[i].addr) = Without(s, freed)
            /\ Separate(s, freed, b, i)
<1>1. /\ i \in Slot /\ i # 0 /\ i \in Port /\ 0 \in Port /\ b \in Block /\ Root \in Block
  BY PresentFinite, DirsAre, Sizes DEF Slot, Port, Root, Block
<1>2. PICK addr : addr = s.part[b].entry[i].addr
  OBVIOUS
<1>3. Pointer(s, b, i) = addr /\ Present(addr)
  BY <1>1, <1>2 DEF Pointer, PresentIn
<1>4. Leads(s, b, i) <=> "NOT_EMPTY" \in addr.flags
  BY <1>3 DEF Leads, Linked
<1>5. CASE "NOT_EMPTY" \notin addr.flags
  <2>1. DeleteChainParts(s, addr) = s
    BY <1>5 DEF DeleteChainParts
  <2>2. s = Without(s, {})
    <3>1. s.part = [c \in Block |-> IF c \in {} THEN ZeroPart ELSE s.part[c]]
      BY DEF Volumes
    <3>2. s.used = s.used \ {} /\ s = [part |-> s.part, used |-> s.used, volume |-> s.volume]
      BY DEF Volumes
    <3> QED BY <3>1, <3>2 DEF Without
  <2>3. Separate(s, {}, b, i)
    BY <1>4, <1>5 DEF Separate
  <2> QED BY <1>2, <2>1, <2>2, <2>3
<1>6. CASE "NOT_EMPTY" \in addr.flags
  <2>1. PICK freed : freed = ToSet(Chain(s, Target(s, b, i)))
    OBVIOUS
  <2>2. Leads(s, b, i) /\ addr.lba = Target(s, b, i) /\ Leading(s) /\ OneWay(s)
    BY <1>3, <1>4, <1>6 DEF Target, Shape
  <2>3. PICK lba \in 0..BLOCKS : lba = Target(s, b, i) /\ lba # Boot /\ lba # Root
    <3>1. Target(s, b, i) \in 0..BLOCKS
      BY <1>1, Pointers
    <3>2. Target(s, b, i) \in s.used \ {Root} /\ s.used \subseteq Block
      BY <1>1, <2>2 DEF Leading, Volumes
    <3>3. Boot \notin Block
      BY Sizes DEF Boot, Block
    <3> QED BY <3>1, <3>2, <3>3
  <2>4. freed \in SUBSET Block /\ Root \notin freed
    BY <1>1, <2>1, <2>2, <2>3, InChain, Owned
  <2>5. DeleteChainParts(s, addr) = Without(s, freed)
    <3>1. Freed(s, addr.lba) = freed
      BY <2>1, <2>2 DEF Freed
    <3>2. DeleteChainParts(s, addr) =
             [s EXCEPT !.used = @ \ freed,
                       !.part = [c \in Block |-> IF c \in freed THEN ZeroPart ELSE @[c]]]
      BY <1>6, <3>1, Zenon DEF DeleteChainParts
    <3> QED BY <3>2 DEF Without, Volumes
  <2>6. lba \in freed
    <3>1. At(s, lba)[1] = lba /\ 1 \in 1..BLOCKS + 1
      BY AtFirst, Sizes
    <3> QED BY <3>1, <2>1, <2>3, InChain
  <2>7. ASSUME NEW c \in Block \ freed, NEW k \in Port, Leads(s, c, k), Target(s, c, k) \in freed
        PROVE  c = b /\ k = i
    <3>1. \/ c = b /\ k = i
          \/ k = 0 /\ c \in ToSet(Chain(s, Target(s, b, i)))
      BY <1>1, <2>1, <2>2, <2>7, Sources
    <3> QED BY <3>1, <2>1, <2>7
  <2>8. b \notin freed
    <3>1. CASE b = Root
      BY <3>1, <2>4
    <3>2. CASE b # Root
      <4>1. PICK j \in Slot : Leads(s, Root, j) /\ Target(s, Root, j) = b
        BY <3>2, DirsAre
      <4>2. j \in Port
        BY Sizes DEF Slot, Port
      <4> QED BY <4>1, <4>2, <3>2, <1>1, <2>4, <2>7
    <3> QED BY <3>1, <3>2
  <2>9. Separate(s, freed, b, i)
    BY <2>1, <2>2, <2>3, <2>4, <2>6, <2>7, <2>8 DEF Separate
  <2> QED BY <1>2, <2>4, <2>5, <2>9
<1> QED BY <1>5, <1>6

LEMMA AddrChanged ==
  ASSUME NEW p, NEW u, NEW v, NEW b, NEW i, NEW a
  PROVE  [[part |-> p, used |-> u, volume |-> v] EXCEPT !.part[b].entry[i].addr = a] =
         [part |-> [p EXCEPT ![b] = [p[b] EXCEPT !.entry[i].addr = a]],
          used |-> u, volume |-> v]
OBVIOUS

LEMMA OverwrittenShape ==
  ASSUME NEW s \in Volumes, Shape(s), NEW b \in Dirs(s), NEW i \in PresentIn(s.part[b]),
         NEW type
  PROVE  LET t == Overwritten(s, <<b, i>>, type)
         IN  /\ t \in Volumes /\ Shape(t) /\ t.volume = s.volume /\ Loses(s, t)
             /\ Edited(s, t, b, i)
             /\ t.part[b].entry[i].addr = NewAddr(type)
             /\ t.part[b].entry[i].name = s.part[b].entry[i].name
<1>1. /\ i \in Slot /\ b \in Block /\ DirShape(s.part[b]) /\ s.part[b] \in PartType
  BY PresentFinite, DirsAre DEF Volumes
<1>2. PICK freed \in SUBSET Block :
         /\ DeleteChainParts(s, s.part[b].entry[i].addr) = Without(s, freed)
         /\ Separate(s, freed, b, i)
  BY Pruned
<1>3. PICK q : q = [s.part[b] EXCEPT !.entry[i].addr = NewAddr(type)]
  OBVIOUS
<1>4. q \in PartType
  BY <1>1, <1>3, NewAddrIs DEF PartType, EntryType
<1>5. /\ q.next = s.part[b].next /\ q.part_size = s.part[b].part_size
      /\ q.entry[i].addr = NewAddr(type)
      /\ \A j \in Slot : q.entry[j].name = s.part[b].entry[j].name
      /\ \A j \in Slot : j # i => q.entry[j] = s.part[b].entry[j]
  BY <1>1, <1>3 DEF PartType, EntryType
<1>6. EntryOnly(s.part[b], q, i) /\ ~Linked(q.entry[i].addr)
  BY <1>5, NewAddrIs DEF EntryOnly
<1>7. PresentIn(q) = PresentIn(s.part[b])
  BY <1>5, NewAddrIs DEF PresentIn
<1>8. DirShape(q)
  <2>1. \A j \in PresentIn(q) : j \in Slot
    BY PresentFinite
  <2> QED BY <1>1, <1>5, <1>7, <2>1, NewAddrIs DEF DirShape
<1>9. Overwritten(s, <<b, i>>, type) = WithPart(s, freed, b, q)
  <2>1. EntryAt(s, <<b, i>>).addr = s.part[b].entry[i].addr
    BY DEF EntryAt
  <2>2. Overwritten(s, <<b, i>>, type) =
           [Without(s, freed) EXCEPT !.part[b].entry[i].addr = NewAddr(type)]
    BY <1>2, <2>1 DEF Overwritten
  <2>3. PICK p : p = [c \in Block |-> IF c \in freed THEN ZeroPart ELSE s.part[c]]
    OBVIOUS
  <2>4. p[b] = s.part[b]
    BY <2>3, <1>1, <1>2 DEF Separate
  <2>5. Overwritten(s, <<b, i>>, type) =
           [part |-> [p EXCEPT ![b] = q], used |-> s.used \ freed, volume |-> s.volume]
    BY <2>2, <2>3, <2>4, <1>3, AddrChanged DEF Without
  <2>6. [p EXCEPT ![b] = q] =
           [c \in Block |-> IF c \in freed THEN ZeroPart ELSE IF c = b THEN q ELSE s.part[c]]
    BY <2>3, <1>1, <1>2 DEF Separate
  <2> QED BY <2>5, <2>6 DEF WithPart
<1>10. Loses(s, WithPart(s, freed, b, q))
  BY <1>1, <1>2, <1>4, <1>6, WithPartLoses
<1>11. PICK t : t = WithPart(s, freed, b, q)
  OBVIOUS
<1>12. /\ b \notin freed /\ Root \notin freed
       /\ \A c \in Block \ freed, k \in Port :
             Leads(s, c, k) /\ Target(s, c, k) \in freed => c = b /\ k = i
       /\ Leads(s, b, i) => Target(s, b, i) \in freed
  BY <1>2 DEF Separate
<1>13. t \in Volumes /\ Shape(t) /\ t.volume = s.volume
  BY <1>1, <1>4, <1>6, <1>8, <1>11, <1>12, WithPartShape
<1>14. Edited(s, t, b, i) /\ t.part[b].entry[i] = q.entry[i]
  BY <1>1, <1>2, <1>4, <1>6, <1>11, WithPartEdits
<1> QED BY <1>1, <1>5, <1>9, <1>10, <1>11, <1>13, <1>14

LEMMA DeletedShape ==
  ASSUME NEW s \in Volumes, Shape(s), NEW b \in Dirs(s), NEW i \in PresentIn(s.part[b])
  PROVE  LET t == Deleted(s, <<b, i>>)
         IN  /\ t \in Volumes /\ Shape(t) /\ t.volume = s.volume /\ Loses(s, t)
             /\ Edited(s, t, b, i) /\ t.part[b].entry[i] = NoEntry
<1>1. /\ i \in Slot /\ b \in Block /\ DirShape(s.part[b]) /\ s.part[b] \in PartType
  BY PresentFinite, DirsAre DEF Volumes
<1>2. PICK freed \in SUBSET Block :
         /\ DeleteChainParts(s, s.part[b].entry[i].addr) = Without(s, freed)
         /\ Separate(s, freed, b, i)
  BY Pruned
<1>3. PICK n \in Int : n = s.part[b].part_size - 1
  BY <1>1, Sizes DEF PartType
<1>4. PICK q : q = [s.part[b] EXCEPT !.entry[i] = NoEntry, !.part_size = n]
  OBVIOUS
<1>5. /\ q.next = s.part[b].next /\ q.part_size = n /\ q.entry[i] = NoEntry
      /\ \A j \in Slot : j # i => q.entry[j] = s.part[b].entry[j]
  BY <1>1, <1>4 DEF PartType
<1>6. ~Linked(NoEntry.addr) /\ ~Present(NoEntry.addr)
  BY DEF NoEntry, NoAddr, Addr, Linked, Present
<1>7. EntryOnly(s.part[b], q, i) /\ ~Linked(q.entry[i].addr)
  BY <1>5, <1>6 DEF EntryOnly
<1>8. PresentIn(q) = PresentIn(s.part[b]) \ {i}
  BY <1>5, <1>6 DEF PresentIn
<1>9. Cardinality(PresentIn(q)) = n /\ n \in 0..SizeMax
  <2>1. Cardinality(PresentIn(q)) = Cardinality(PresentIn(s.part[b])) - 1
    <3>1. PICK P : P = PresentIn(s.part[b])
      OBVIOUS
    <3>2. IsFiniteSet(P) /\ i \in P /\ PresentIn(q) = P \ {i}
      BY <3>1, <1>8, PresentFinite
    <3>3. Cardinality(P \ {i}) = Cardinality(P) - 1
      BY <3>2, FS_RemoveElement
    <3> QED BY <3>1, <3>2, <3>3
  <2>2. Cardinality(PresentIn(q)) \in 0..DIR_ENTRIES_PER_PART
    BY PresentFinite
  <2>3. Cardinality(PresentIn(q)) = n
    BY <2>1, <1>1, <1>3 DEF DirShape
  <2> QED BY <2>2, <2>3, Sizes
<1>10. q \in PartType
  BY <1>1, <1>4, <1>9, ZeroIs DEF PartType
<1>11. DirShape(q)
  <2>1. \A j \in PresentIn(q) : /\ j \in Slot /\ j # i /\ j \in PresentIn(s.part[b])
                                /\ q.entry[j] = s.part[b].entry[j]
    BY <1>5, <1>8, PresentFinite
  <2> QED BY <1>1, <1>5, <1>9, <2>1 DEF DirShape
<1>12. Deleted(s, <<b, i>>) = WithPart(s, freed, b, q)
  <2>1. EntryAt(s, <<b, i>>).addr = s.part[b].entry[i].addr
    BY DEF EntryAt
  <2>2. Deleted(s, <<b, i>>) =
           [Without(s, freed) EXCEPT !.part[b].entry[i] = NoEntry, !.part[b].part_size = n]
    BY <1>2, <1>3, <2>1 DEF Deleted, OneLess
  <2>3. PICK p : p = [c \in Block |-> IF c \in freed THEN ZeroPart ELSE s.part[c]]
    OBVIOUS
  <2>4. p[b] = s.part[b]
    BY <2>3, <1>1, <1>2 DEF Separate
  <2>5. p \in [Block -> PartType]
    BY <2>3, ZeroIs DEF Volumes
  <2>6. PICK p1, s1 : /\ p1 = [p EXCEPT ![b] = [p[b] EXCEPT !.entry[i] = NoEntry]]
                      /\ s1 = [part |-> p1, used |-> s.used \ freed, volume |-> s.volume]
    OBVIOUS
  <2>7. Deleted(s, <<b, i>>) =
           [part |-> [p EXCEPT ![b] = q], used |-> s.used \ freed, volume |-> s.volume]
    <3>1. p1[b] = [p[b] EXCEPT !.entry[i] = NoEntry]
      BY <2>5, <2>6, <1>1
    <3>2. [Without(s, freed) EXCEPT !.part[b].entry[i] = NoEntry] = s1
      <4>1. PICK u, v, e : u = s.used \ freed /\ v = s.volume /\ e = NoEntry
        OBVIOUS
      <4>2. Without(s, freed) = [part |-> p, used |-> u, volume |-> v]
        BY <2>3, <4>1 DEF Without
      <4>3. [[part |-> p, used |-> u, volume |-> v] EXCEPT !.part[b].entry[i] = e] =
              [part |-> [p EXCEPT ![b] = [p[b] EXCEPT !.entry[i] = e]], used |-> u, volume |-> v]
        OBVIOUS
      <4> QED BY <4>1, <4>2, <4>3, <2>6
    <3>3. [s1 EXCEPT !.part[b].part_size = n] =
             [part |-> [p1 EXCEPT ![b] = [p1[b] EXCEPT !.part_size = n]],
              used |-> s.used \ freed, volume |-> s.volume]
      BY <2>6
    <3>4. [p1[b] EXCEPT !.part_size = n] = q
      BY <3>1, <2>4, <1>4
    <3>5. [p1 EXCEPT ![b] = q] = [p EXCEPT ![b] = q]
      BY <2>6
    <3> QED BY <2>2, <3>2, <3>3, <3>4, <3>5
  <2>8. [p EXCEPT ![b] = q] =
           [c \in Block |-> IF c \in freed THEN ZeroPart ELSE IF c = b THEN q ELSE s.part[c]]
    BY <2>3, <1>1, <1>2 DEF Separate
  <2> QED BY <2>7, <2>8 DEF WithPart
<1>13. Loses(s, WithPart(s, freed, b, q))
  BY <1>1, <1>2, <1>7, <1>10, WithPartLoses
<1>14. PICK t : t = WithPart(s, freed, b, q)
  OBVIOUS
<1>15. /\ b \notin freed /\ Root \notin freed
       /\ \A c \in Block \ freed, k \in Port :
             Leads(s, c, k) /\ Target(s, c, k) \in freed => c = b /\ k = i
       /\ Leads(s, b, i) => Target(s, b, i) \in freed
  BY <1>2 DEF Separate
<1>16. t \in Volumes /\ Shape(t) /\ t.volume = s.volume
  BY <1>1, <1>7, <1>10, <1>11, <1>14, <1>15, WithPartShape
<1>17. Edited(s, t, b, i) /\ t.part[b].entry[i] = q.entry[i]
  BY <1>1, <1>2, <1>7, <1>10, <1>14, WithPartEdits
<1> QED BY <1>5, <1>12, <1>13, <1>14, <1>16, <1>17

LEMMA Least ==
  ASSUME NEW S \in SUBSET Nat, S # {}
  PROVE  Min(S) \in S
<1>1. PICK n \in S : \A y \in S : ~ (<<y, n>> \in OpToRel(<, Nat))
  BY NatLessThanWellFounded, WFMin
<1>2. ASSUME NEW y \in S PROVE n <= y
  <2>1. y \in Nat /\ n \in Nat
    OBVIOUS
  <2>2. ~ (y < n)
    BY <1>1, <2>1 DEF OpToRel
  <2> QED BY <2>1, <2>2
<1> QED BY <1>2 DEF Min

Allocated(s, lba, t) ==
    /\ t \in Volumes /\ lba \in 0..BLOCKS /\ t.part = s.part /\ t.volume = s.volume
    /\ lba # Boot => lba \in Block \ s.used /\ t.used = s.used \cup {lba}

\* The block that is allocated was free, so it was empty.
LEMMA BallocIs ==
  ASSUME NEW s \in Volumes, Shape(s)
  PROVE  Allocated(s, Balloc(s).lba, Balloc(s).s)
<1> DEFINE free == Block \ s.used
<1>1. Boot \in 0..BLOCKS /\ Block \subseteq 0..BLOCKS /\ Block \subseteq Nat
  BY Sizes DEF Boot, Block
<1>2. CASE free = {}
  <2>1. Balloc(s) = [lba |-> Boot, s |-> s]
    BY <1>2 DEF Balloc
  <2>2. Balloc(s).lba = Boot /\ Balloc(s).s = s
    BY <2>1
  <2>3. Allocated(s, Boot, s)
    BY <1>1 DEF Allocated
  <2> QED BY <2>2, <2>3
<1>3. CASE free # {}
  <2>1. PICK x \in free : x = Min(free)
    <3>1. free \in SUBSET Nat
      BY <1>1
    <3> QED BY <3>1, <1>3, Least
  <2>2. Balloc(s) = [lba |-> x, s |-> [s EXCEPT !.used = s.used \cup {x}, !.part[x] = ZeroPart]]
    BY <1>3, <2>1 DEF Balloc, WithBit
  <2>3. s.part[x] = ZeroPart
    BY DEF Shape, Blank
  <2>4. [s.part EXCEPT ![x] = ZeroPart] = s.part
    BY <2>3 DEF Volumes
  <2>5. [s EXCEPT !.used = s.used \cup {x}, !.part[x] = ZeroPart] =
          [part |-> s.part, used |-> s.used \cup {x}, volume |-> s.volume]
    <3>1. PICK p, u, v : s = [part |-> p, used |-> u, volume |-> v]
      BY DEF Volumes
    <3>2. p = s.part /\ u = s.used /\ v = s.volume
      BY <3>1
    <3>3. PICK w, z : w = s.used \cup {x} /\ z = ZeroPart
      OBVIOUS
    <3>4. [s EXCEPT !.used = w] = [part |-> p, used |-> w, volume |-> v]
      BY <3>1
    <3>5. [[part |-> p, used |-> w, volume |-> v] EXCEPT !.part[x] = z] =
             [part |-> [p EXCEPT ![x] = z], used |-> w, volume |-> v]
      OBVIOUS
    <3> QED BY <3>2, <3>3, <3>4, <3>5, <2>4
  <2>6. Balloc(s) = [lba |-> x, s |-> [part |-> s.part, used |-> s.used \cup {x},
                                       volume |-> s.volume]]
    BY <2>2, <2>5
  <2>7. [part |-> s.part, used |-> s.used \cup {x}, volume |-> s.volume] \in Volumes
    BY DEF Volumes
  <2>8. PICK t : t = [part |-> s.part, used |-> s.used \cup {x}, volume |-> s.volume]
    OBVIOUS
  <2>9. Allocated(s, x, t)
    BY <2>7, <2>8, <1>1 DEF Allocated
  <2> QED BY <2>6, <2>8, <2>9
<1> QED BY <1>2, <1>3

\* In a part that has room an entry is added; a full one is continued wrongly.
LEMMA AddEntryShape ==
  ASSUME NEW s \in Volumes, Shape(s), NEW b \in Dirs(s), NEW name \in Name, NEW type,
         \A i \in PresentIn(s.part[b]) : s.part[b].entry[i].name # name
  PROVE  LET t == AddEntry(s, b, name, type)
         IN  t \in Volumes /\ (t.volume = "wild"
                               \/ /\ t.volume = s.volume /\ Shape(t) /\ Loses(s, t)
                                  /\ \E i \in Slot \ PresentIn(s.part[b]) :
                                        /\ Edited(s, t, b, i)
                                        /\ t.part[b].entry[i].addr = NewAddr(type)
                                        /\ t.part[b].entry[i].name = name)
<1> DEFINE p == s.part[b]
           empty == {i \in Slot : ~Present(p.entry[i].addr)}
<1>1. /\ b \in Block /\ DirShape(p) /\ p \in PartType /\ p.entry \in [Slot -> EntryType]
      /\ s.part \in [Block -> PartType]
  BY DirsAre DEF Volumes, PartType
<1>2. CASE empty # {}
  <2>1. PICK i \in Slot : i = Min(empty) /\ i \notin PresentIn(p)
    <3>1. empty \in SUBSET Nat
      BY Sizes DEF Slot
    <3>2. Min(empty) \in empty
      BY <3>1, <1>2, Least
    <3> QED BY <3>2 DEF PresentIn
  <2>2. PICK n \in Int : n = p.part_size + 1
    BY <1>1, Sizes DEF PartType
  <2>3. PICK e : e = [name |-> name, addr |-> NewAddr(type)]
    OBVIOUS
  <2>4. PICK q : q = [p EXCEPT !.entry[i] = e, !.part_size = n]
    OBVIOUS
  <2>5. /\ q.next = p.next /\ q.part_size = n /\ q.entry[i] = e
        /\ \A j \in Slot : j # i => q.entry[j] = p.entry[j]
    BY <1>1, <2>4 DEF PartType
  <2>6. e \in EntryType /\ e.name = name /\ Present(e.addr) /\ ~Linked(e.addr) /\ e.addr.lba = Boot
    BY <2>3, NewAddrIs DEF EntryType
  <2>7. EntryOnly(p, q, i) /\ ~Linked(q.entry[i].addr)
    BY <2>5, <2>6 DEF EntryOnly
  <2>8. PresentIn(q) = PresentIn(p) \cup {i}
    BY <2>5, <2>6 DEF PresentIn
  <2>9. Cardinality(PresentIn(q)) = n /\ n \in 0..SizeMax
    <3>1. PICK P : P = PresentIn(p)
      OBVIOUS
    <3>2. IsFiniteSet(P) /\ i \notin P /\ PresentIn(q) = P \cup {i}
      BY <3>1, <2>1, <2>8, PresentFinite
    <3>3. Cardinality(P \cup {i}) = Cardinality(P) + 1
      BY <3>2, FS_AddElement
    <3>4. Cardinality(PresentIn(q)) \in 0..DIR_ENTRIES_PER_PART
      BY PresentFinite
    <3>5. Cardinality(PresentIn(q)) = n
      BY <3>1, <3>2, <3>3, <2>2, <1>1 DEF DirShape
    <3> QED BY <3>4, <3>5, Sizes
  <2>10. q \in PartType
    BY <1>1, <2>4, <2>6, <2>9 DEF PartType
  <2>11. DirShape(q)
    <3>1. \A j \in PresentIn(q) : j # i => /\ j \in Slot /\ j \in PresentIn(p)
                                           /\ q.entry[j] = p.entry[j] /\ q.entry[j].name # name
      BY <2>5, <2>8, PresentFinite
    <3> QED BY <1>1, <2>5, <2>6, <2>9, <3>1 DEF DirShape
  <2>12. AddEntry(s, b, name, type) = WithPart(s, {}, b, q)
    <3>1. AddEntry(s, b, name, type) =
             [s EXCEPT !.part[b] = [p EXCEPT !.entry[Min(empty)] =
                                               [name |-> name, addr |-> NewAddr(type)],
                                             !.part_size = OneMore(p)]]
      BY <1>2 DEF AddEntry
    <3>2. AddEntry(s, b, name, type) = [s EXCEPT !.part[b] = q]
      BY <3>1, <2>1, <2>2, <2>3, <2>4 DEF OneMore
    <3>3. [s EXCEPT !.part[b] = q] =
             [part |-> [s.part EXCEPT ![b] = q], used |-> s.used, volume |-> s.volume]
      BY DEF Volumes
    <3>4. [s.part EXCEPT ![b] = q] =
             [c \in Block |-> IF c \in {} THEN ZeroPart ELSE IF c = b THEN q ELSE s.part[c]]
      BY <1>1
    <3>5. s.used \ {} = s.used
      OBVIOUS
    <3> QED BY <3>2, <3>3, <3>4, <3>5 DEF WithPart
  <2>13. ~Leads(s, b, i)
    <3>1. i # 0
      BY Sizes DEF Slot
    <3> QED BY <3>1, <2>1 DEF Leads, Linked, Pointer, PresentIn
  <2>14. LET t == WithPart(s, {}, b, q)
         IN  Loses(s, t) /\ Edited(s, t, b, i) /\ t.part[b].entry[i] = q.entry[i]
    <3>1. PICK none \in SUBSET Block : none = {}
      OBVIOUS
    <3>2. Separate(s, none, b, i)
      BY <3>1, <2>13 DEF Separate
    <3>3. Loses(s, WithPart(s, none, b, q))
      BY <3>2, <2>7, <2>10, WithPartLoses
    <3>4. LET t == WithPart(s, none, b, q)
          IN  Edited(s, t, b, i) /\ t.part[b].entry[i] = q.entry[i]
      BY <3>2, <2>7, <2>10, WithPartEdits
    <3> QED BY <3>1, <3>3, <3>4
  <2>15. PICK t : t = WithPart(s, {}, b, q)
    OBVIOUS
  <2>16. t \in Volumes /\ Shape(t) /\ t.volume = s.volume
    BY <1>1, <2>7, <2>10, <2>11, <2>13, <2>15, WithPartShape
  <2>17. /\ Edited(s, t, b, i) /\ t.part[b].entry[i].addr = NewAddr(type)
         /\ t.part[b].entry[i].name = name
    BY <2>3, <2>5, <2>14, <2>15
  <2> QED BY <2>1, <2>12, <2>14, <2>15, <2>16, <2>17
<1>3. CASE empty = {} /\ ~Present(p.next)
  <2>1. PICK lba, t : lba = Balloc(s).lba /\ t = Balloc(s).s
    OBVIOUS
  <2>2. Allocated(s, lba, t)
    BY <2>1, BallocIs
  <2>3. PICK a : a = Addr(lba, {"PRESENT", "IS_DIR", "NOT_EMPTY"})
    OBVIOUS
  <2>4. a \in AddrType
    BY <2>2, <2>3 DEF Allocated, Addr, AddrType, Flags
  <2>5. AddEntry(s, b, name, type) = [t EXCEPT !.part[b].next = a, !.volume = "wild"]
    BY <1>3, <2>1, <2>3 DEF AddEntry
  <2>6. [p EXCEPT !.next = a] \in PartType
    BY <1>1, <2>4 DEF PartType
  <2>7. t.part = s.part /\ t \in Volumes
    BY <2>2 DEF Allocated
  <2>8. AddEntry(s, b, name, type) =
          [part |-> [t.part EXCEPT ![b] = [p EXCEPT !.next = a]], used |-> t.used,
           volume |-> "wild"]
    <3>1. PICK x, u, v : t = [part |-> x, used |-> u, volume |-> v]
      BY <2>7 DEF Volumes
    <3>2. x = t.part /\ u = t.used /\ x[b] = p
      BY <3>1, <2>7
    <3>3. PICK y : y = [x EXCEPT ![b] = [x[b] EXCEPT !.next = a]]
      OBVIOUS
    <3>4. [t EXCEPT !.part[b].next = a] = [part |-> y, used |-> u, volume |-> v]
      BY <3>1, <3>3
    <3>5. [[part |-> y, used |-> u, volume |-> v] EXCEPT !.volume = "wild"] =
            [part |-> y, used |-> u, volume |-> "wild"]
      OBVIOUS
    <3> QED BY <2>5, <3>2, <3>3, <3>4, <3>5
  <2> QED BY <1>1, <2>6, <2>7, <2>8 DEF Volumes
<1>4. CASE empty = {} /\ Present(p.next)
  <2>1. AddEntry(s, b, name, type) = [s EXCEPT !.volume = "wild"]
    BY <1>4 DEF AddEntry
  <2> QED BY <2>1 DEF Volumes
<1> QED BY <1>2, <1>3, <1>4

\* What an operation that follows pointers leaves: a sound volume that has its
\* shape, or one that is no more sound.
Kept(s, t) == /\ t \in Volumes
              /\ \/ t.volume \in {"boot", "wild"}
                 \/ t.volume = s.volume /\ Shape(t) /\ Loses(s, t)

LEMMA Absent ==
  ASSUME NEW s \in Volumes, Shape(s), NEW b \in Dirs(s), NEW name,
         FindInDir(s, b, name, "undefined", FALSE) = NotFound
  PROVE  \A i \in PresentIn(s.part[b]) : s.part[b].entry[i].name # name
<1>1. SUFFICES ASSUME NEW i \in PresentIn(s.part[b]), s.part[b].entry[i].name = name
               PROVE  FALSE
  OBVIOUS
<1>2. FindInDir(s, b, name, "undefined", FALSE) = <<b, i>>
  BY <1>1, FindAny
<1>3. b # 0
  <2>1. b \in Block
    BY DirsAre
  <2> QED BY <2>1, Sizes DEF Block
<1>4. <<b, i>> = <<0, 0>>
  BY <1>2, Zenon DEF NotFound
<1> QED BY <1>3, <1>4

\* An object is made where the path says, or there is no such directory.
Made(s, t, path, type) ==
    \/ t = s /\ FindPath(s, path, "undefined", FALSE) = NotFound
    \/ Entered(s, t, path, path[Len(path)], NewAddr(type))

LEMMA AddedMakes ==
  ASSUME NEW s \in Volumes, Shape(s), s.volume = "sound", NEW b \in Dirs(s), NEW path,
         NEW name \in Name,
         name = path[Len(path)], PathTo(s, b, name, path), NEW type,
         \A j \in PresentIn(s.part[b]) : s.part[b].entry[j].name # name
  PROVE  LET t == AddEntry(s, b, name, type)
         IN  Kept(s, t) /\ (t.volume = "sound" => Made(s, t, path, type))
<1>1. PICK t : t = AddEntry(s, b, name, type)
  OBVIOUS
<1>2. /\ t \in Volumes
      /\ \/ t.volume = "wild"
         \/ /\ t.volume = s.volume /\ Shape(t) /\ Loses(s, t)
            /\ \E i \in Slot \ PresentIn(s.part[b]) :
                  /\ Edited(s, t, b, i) /\ t.part[b].entry[i].addr = NewAddr(type)
                  /\ t.part[b].entry[i].name = name
  BY <1>1, AddEntryShape
<1>3. Kept(s, t)
  BY <1>2 DEF Kept
<1>4. ASSUME NEW i \in Slot \ PresentIn(s.part[b]), Edited(s, t, b, i),
             t.part[b].entry[i].addr = NewAddr(type), t.part[b].entry[i].name = name
      PROVE  Made(s, t, path, type)
  BY <1>4 DEF Made, Entered
<1> QED BY <1>1, <1>2, <1>3, <1>4

LEMMA CreatedShape ==
  ASSUME NEW s \in Volumes, Shape(s), s.volume = "sound", NEW path \in Path, NEW type
  PROVE  LET t == Created(s, path, type)
         IN  Kept(s, t) /\ (t.volume = "sound" => Made(s, t, path, type))
<1>1. PICK pos, d : /\ pos = FindPath(s, path, "undefined", FALSE)
                    /\ d = FindPath(s, <<path[1]>>, "dir", FALSE)
  OBVIOUS
<1>2. PICK any \in BOOLEAN, linked \in BOOLEAN : any = FALSE /\ linked = TRUE
  OBVIOUS
<1>3. PICK all, dir : all = "undefined" /\ dir = "dir"
  OBVIOUS
<1>4. Root \in Dirs(s)
  BY DirsAre
<1>5. Len(<<path[1]>>) = 1 /\ <<path[1]>>[1] = path[1]
  OBVIOUS
<1>6. d = FindInDir(s, Root, path[1], dir, any)
  BY <1>1, <1>2, <1>3, <1>5 DEF FindPath
<1>7. CASE pos # NotFound
  <2>1. Created(s, path, type) = Overwritten(s, pos, type)
    BY <1>1, <1>7 DEF Created
  <2>2. PICK b \in Dirs(s) : \E i \in PresentIn(s.part[b]) :
           /\ pos = <<b, i>> /\ Matches(s.part[b], i, path[Len(path)], all, any)
           /\ PathTo(s, b, path[Len(path)], path)
    <3>1. pos = FindPath(s, path, all, any)
      BY <1>1, <1>2, <1>3
    <3> QED BY <3>1, <1>7, FindPathIs
  <2>3. PICK i \in PresentIn(s.part[b]) :
           /\ pos = <<b, i>> /\ Matches(s.part[b], i, path[Len(path)], all, any)
           /\ PathTo(s, b, path[Len(path)], path)
    BY <2>2
  <2>4. PICK t : t = Overwritten(s, <<b, i>>, type)
    OBVIOUS
  <2>5. /\ t \in Volumes /\ Shape(t) /\ t.volume = s.volume /\ Loses(s, t)
        /\ Edited(s, t, b, i) /\ t.part[b].entry[i].addr = NewAddr(type)
        /\ t.part[b].entry[i].name = s.part[b].entry[i].name
    BY <2>4, OverwrittenShape
  <2>6. PICK name : name = path[Len(path)]
    OBVIOUS
  <2>7. i \in Slot /\ s.part[b].entry[i].name = name /\ DirShape(s.part[b])
    BY <2>3, <2>6, DirsAre, PresentFinite DEF Matches
  <2>8. \A j \in PresentIn(s.part[b]) : s.part[b].entry[j].name = name <=> j = i
    BY <2>7 DEF DirShape
  <2>9. Entered(s, t, path, name, NewAddr(type))
    BY <2>3, <2>5, <2>6, <2>7, <2>8 DEF Entered
  <2> QED BY <2>1, <2>3, <2>4, <2>5, <2>6, <2>9 DEF Kept, Made
<1>8. CASE pos = NotFound /\ Len(path) = 1
  <2>1. Created(s, path, type) = AddEntry(s, Root, path[1], type)
    <3>1. pos = NotFound /\ Len(path) = 1 /\ ~(Len(path) = 2)
      BY <1>8
    <3> QED BY <1>1, <3>1, Zenon DEF Created
  <2>2. FindInDir(s, Root, path[1], "undefined", FALSE) = NotFound
    BY <1>1, <1>8 DEF FindPath
  <2>3. path[1] \in Name
    BY <1>8, Paths
  <2>4. \A i \in PresentIn(s.part[Root]) : s.part[Root].entry[i].name # path[1]
    BY <1>4, <2>2, Absent
  <2>5. path[1] = path[Len(path)] /\ PathTo(s, Root, path[1], path)
    BY <1>8, Paths DEF PathTo
  <2> QED BY <1>4, <2>1, <2>3, <2>4, <2>5, AddedMakes
<1>9. CASE pos = NotFound /\ Len(path) = 2 /\ d = NotFound
  <2>1. Created(s, path, type) = s
    <3>1. pos = NotFound /\ Len(path) = 2 /\ ~(Len(path) = 1) /\ d = NotFound
      BY <1>9
    <3> QED BY <1>1, <3>1, Zenon DEF Created
  <2>2. Loses(s, s)
    BY DEF Loses
  <2> QED BY <2>1, <2>2, <1>1, <1>9 DEF Kept, Made
<1>10. CASE pos = NotFound /\ Len(path) = 2 /\ d # NotFound
  <2>1. PICK lba : lba = EntryAt(s, d).addr.lba
    OBVIOUS
  <2>2. Created(s, path, type) = IF lba = Boot THEN [s EXCEPT !.volume = "boot"]
                                 ELSE AddEntry(s, lba, path[2], type)
    <3>1. pos = NotFound /\ Len(path) = 2 /\ ~(Len(path) = 1) /\ ~(d = NotFound)
      BY <1>10
    <3> QED BY <1>1, <2>1, <3>1, Zenon DEF Created
  <2>3. CASE lba = Boot
    <3>1. Created(s, path, type) = [s EXCEPT !.volume = "boot"]
      BY <2>2, <2>3
    <3> QED BY <3>1 DEF Kept, Volumes
  <2>4. CASE lba # Boot
    <3>1. PICK i \in PresentIn(s.part[Root]) :
             d = <<Root, i>> /\ Matches(s.part[Root], i, path[1], dir, any)
      BY <1>4, <1>6, <1>10, FindIs
    <3>2. i \in Slot /\ i # 0
      BY PresentFinite, Sizes DEF Slot
    <3>3. /\ IsDir(s.part[Root].entry[i].addr) /\ s.part[Root].entry[i].name = path[1]
          /\ s.part[Root].entry[i].addr = Pointer(s, Root, i)
      BY <3>1, <3>2, <1>3 DEF Matches, TypeFits, Pointer
    <3>4. lba = s.part[Root].entry[i].addr.lba
      BY <2>1, <3>1 DEF EntryAt
    <3>5. Leads(s, Root, i)
      BY <2>4, <3>3, <3>4, <1>4, DirsAre DEF DirShape, Leads
    <3>6. FindInDir(s, Root, path[1], "dir", TRUE) = <<Root, i>>
      BY <3>3, <3>5, FindSub
    <3>7. PICK b \in Dirs(s) : b = lba
      BY <3>2, <3>3, <3>4, <3>5, DirsAre DEF Target
    <3>8. FindPath(s, path, "undefined", FALSE) =
             FindInDir(s, lba, path[2], "undefined", FALSE)
      <4>1. <<Root, i>> # NotFound
        BY <3>2 DEF NotFound
      <4>2. EntryAt(s, <<Root, i>>).addr.lba = lba
        BY <2>1, <3>1
      <4>3. Len(path) # 1
        BY <1>10
      <4> QED BY <3>6, <4>1, <4>2, <4>3, Zenon DEF FindPath
    <3>9. \A j \in PresentIn(s.part[b]) : s.part[b].entry[j].name # path[2]
      BY <1>1, <1>10, <3>7, <3>8, Absent
    <3>10. path[2] \in Name
      BY <1>10, Paths
    <3>11. path[2] = path[Len(path)] /\ path = <<path[1], path[2]>>
      BY <1>10, Paths
    <3>12. PathTo(s, b, path[2], path)
      BY <3>2, <3>3, <3>4, <3>5, <3>7, <3>11 DEF PathTo, Target
    <3> QED BY <2>2, <2>4, <3>7, <3>9, <3>10, <3>11, <3>12, AddedMakes
  <2> QED BY <2>3, <2>4
<1> QED BY <1>7, <1>8, <1>9, <1>10, Paths

-----------------------------------------------------------------------------
(* Writing.                                                                *)

NewPart(x) == Addr(x, {"PRESENT", "NOT_EMPTY"})

LEMMA NewPartIs ==
  ASSUME NEW x \in 0..BLOCKS
  PROVE  /\ NewPart(x) \in AddrType /\ NewPart(x).lba = x
         /\ Linked(NewPart(x)) /\ ~IsDir(NewPart(x))
<1>1. NewPart(x) \in AddrType
  BY DEF NewPart, Addr, AddrType, Flags
<1>2. NewPart(x).lba = x /\ Linked(NewPart(x)) /\ ~IsDir(NewPart(x))
  BY DEF NewPart, Addr, Linked, Present, IsDir
<1> QED BY <1>1, <1>2

\* One part has changed, at most one pointer in it, and that leads to a block
\* that was free.
Grown(s, t, b, k, x) ==
    /\ t \in Volumes /\ s.used \subseteq t.used
    /\ \A c \in Block \ {b} : t.part[c] = s.part[c]
    /\ \A c \in Block, l \in Port :
          \/ Pointer(t, c, l) = Pointer(s, c, l)
          \/ /\ c = b /\ l = k /\ ~Leads(s, b, k)
             /\ Pointer(t, b, k) = NewPart(x) /\ x \in t.used \ s.used
    /\ \A y \in t.used \ s.used : y = x /\ Pointer(t, b, k) = NewPart(x)

LEMMA GrownShape ==
  ASSUME NEW s \in Volumes, Shape(s), NEW b \in s.used, NEW k, NEW x, NEW t,
         Grown(s, t, b, k, x),
         b \in Dirs(s) => DirShape(t.part[b]), b \notin Dirs(s) => FileShape(t.part[b])
  PROVE  Shape(t) /\ Dirs(t) = Dirs(s)
<1>1. /\ t \in Volumes /\ s.used \subseteq t.used /\ b \in Block /\ Root \in Block
      /\ \A c \in Block \ {b} : t.part[c] = s.part[c]
  BY DirsAre DEF Grown, Volumes
<1>2. ASSUME NEW c \in Block, NEW l \in Port
      PROVE  \/ Pointer(t, c, l) = Pointer(s, c, l)
             \/ /\ c = b /\ l = k /\ ~Leads(s, b, k)
                /\ Pointer(t, b, k) = NewPart(x) /\ x \in t.used \ s.used
  BY DEF Grown
<1>3. NewPart(x).lba = x /\ Linked(NewPart(x)) /\ ~IsDir(NewPart(x))
  BY DEF NewPart, Addr, Linked, Present, IsDir
<1>4. ASSUME NEW c \in Block, NEW l \in Port
      PROVE  /\ Leads(s, c, l) => Leads(t, c, l) /\ Pointer(t, c, l) = Pointer(s, c, l)
             /\ Leads(t, c, l) /\ ~Leads(s, c, l) =>
                   /\ c = b /\ l = k /\ x \in t.used \ s.used
                   /\ Target(t, c, l) = x /\ ~IsDir(Pointer(t, c, l))
             /\ Leads(s, c, l) => Target(t, c, l) = Target(s, c, l)
  <2>1. CASE Pointer(t, c, l) = Pointer(s, c, l)
    BY <2>1 DEF Leads, Target
  <2>2. CASE Pointer(t, c, l) # Pointer(s, c, l)
    <3>1. /\ c = b /\ l = k /\ ~Leads(s, c, l) /\ Pointer(t, c, l) = NewPart(x)
          /\ x \in t.used \ s.used
      BY <2>2, <1>2
    <3> QED BY <3>1, <1>3 DEF Target
  <2> QED BY <2>1, <2>2
<1>5. /\ Leading(s) /\ OneWay(s) /\ Blank(s) /\ Root \in s.used /\ Shaped(s)
  BY DEF Shape
<1>6. Root \in t.used
  BY <1>1, <1>5
<1>7. Blank(t)
  BY <1>1, <1>5 DEF Blank
<1>8. Leading(t)
  <2>1. SUFFICES ASSUME NEW c \in Block, NEW l \in Port, Leads(t, c, l)
                 PROVE  Target(t, c, l) \in t.used \ {Root}
    BY DEF Leading
  <2>2. CASE Leads(s, c, l)
    <3>1. Target(s, c, l) \in s.used \ {Root}
      BY <2>2, <1>5 DEF Leading
    <3> QED BY <3>1, <2>2, <1>1, <1>4
  <2>3. CASE ~Leads(s, c, l)
    BY <2>1, <2>3, <1>4, <1>5
  <2> QED BY <2>2, <2>3
<1>9. OneWay(t)
  <2>1. SUFFICES ASSUME NEW c \in Block, NEW d \in Block, NEW l \in Port, NEW m \in Port,
                        Leads(t, c, l), Leads(t, d, m), Target(t, c, l) = Target(t, d, m)
                 PROVE  c = d /\ l = m
    BY DEF OneWay
  <2>2. CASE Leads(s, c, l) /\ Leads(s, d, m)
    BY <2>1, <2>2, <1>4, <1>5 DEF OneWay
  <2>3. CASE Leads(s, c, l) /\ ~Leads(s, d, m)
    <3>1. Target(s, c, l) \in s.used
      BY <2>3, <1>5 DEF Leading
    <3> QED BY <3>1, <2>1, <2>3, <1>4
  <2>4. CASE ~Leads(s, c, l) /\ Leads(s, d, m)
    <3>1. Target(s, d, m) \in s.used
      BY <2>4, <1>5 DEF Leading
    <3> QED BY <3>1, <2>1, <2>4, <1>4
  <2>5. CASE ~Leads(s, c, l) /\ ~Leads(s, d, m)
    BY <2>1, <2>5, <1>4
  <2> QED BY <2>2, <2>3, <2>4, <2>5
<1>10. \A j \in Slot : j \in Port
  BY Sizes DEF Slot, Port
<1>11. Dirs(t) = Dirs(s)
  <2>1. ASSUME NEW j \in Slot
        PROVE  /\ Leads(t, Root, j) /\ IsDir(Pointer(t, Root, j))
                    <=> Leads(s, Root, j) /\ IsDir(Pointer(s, Root, j))
               /\ Leads(s, Root, j) => Target(t, Root, j) = Target(s, Root, j)
    BY <1>1, <1>4, <1>10
  <2> QED BY <2>1 DEF Dirs
<1>12. Shaped(t)
  <2>1. ASSUME NEW d \in Dirs(t) PROVE DirShape(t.part[d])
    BY <1>1, <1>11, DirsAre
  <2>2. ASSUME NEW c \in Block \ Dirs(t) PROVE FileShape(t.part[c])
    BY <1>1, <1>5, <1>11 DEF Shaped
  <2>3. ASSUME NEW d \in Dirs(t) \ {Root}, NEW i \in Slot, Leads(t, d, i)
        PROVE  ~IsDir(Pointer(t, d, i))
    <3>1. d \in Dirs(s) \ {Root} /\ d \in Block
      BY <1>11, DirsAre
    <3> QED BY <3>1, <2>3, <1>4, <1>5, <1>10 DEF Shaped
  <2> QED BY <2>1, <2>2, <2>3 DEF Shaped
<1> QED BY <1>6, <1>7, <1>8, <1>9, <1>11, <1>12 DEF Shape

\* A chain that grows loses nothing, and gets the block that is new.
LEMMA GrownChained ==
  ASSUME NEW s \in Volumes, Shape(s), NEW b \in Block, NEW k \in Port, NEW x, NEW t,
         Grown(s, t, b, k, x), Shape(t), Dirs(t) = Dirs(s),
         (k = 0 /\ b \in Chained(s)) \/ (k \in Slot /\ b \in Dirs(s))
  PROVE  /\ Chained(s) \subseteq Chained(t) /\ Lost(t) \subseteq Lost(s)
         /\ t.used \ s.used \subseteq Chained(t)
<1>1. /\ t \in Volumes /\ s.used \subseteq t.used
      /\ \A y \in t.used \ s.used : y = x /\ Pointer(t, b, k) = NewPart(x)
  BY DEF Grown
<1>2. 0 \in Port /\ \A j \in Slot : j \in Port
  BY Sizes DEF Slot, Port
<1>3. ASSUME NEW c \in Block, NEW l \in Port, Leads(s, c, l)
      PROVE  Pointer(t, c, l) = Pointer(s, c, l)
  BY <1>3 DEF Grown
<1>4. ASSUME NEW y \in Chained(s) PROVE y \in Chained(t)
  <2>1. PICK d \in Dirs(s), j \in Slot :
           Leads(s, d, j) /\ y \in ToSet(Chain(s, Target(s, d, j)))
    BY DEF Chained
  <2>2. PICK lba \in Block : lba = Target(s, d, j) /\ d \in Block /\ lba \in 0..BLOCKS
    <3>1. Target(s, d, j) \in Block /\ d \in Block
      BY <2>1, SubTarget
    <3> QED BY <3>1, Sizes DEF Block
  <2>3. Leads(t, d, j) /\ Target(t, d, j) = lba
    <3>1. Pointer(t, d, j) = Pointer(s, d, j)
      BY <2>1, <2>2, <1>2, <1>3
    <3> QED BY <3>1, <2>1, <2>2 DEF Leads, Target
  <2>4. \A c \in ToSet(Chain(s, lba)) : Leads(s, c, 0) => Pointer(t, c, 0) = Pointer(s, c, 0)
    <3>1. ToSet(Chain(s, lba)) \subseteq Block
      BY <2>2, InChain
    <3> QED BY <3>1, <1>2, <1>3
  <2>5. y \in ToSet(Chain(t, lba))
    BY <2>1, <2>2, <2>4, <1>1, ChainKept
  <2>6. y \in Block
    BY DEF Chained
  <2> QED BY <2>1, <2>3, <2>5, <2>6 DEF Chained
<1>5. ASSUME NEW y \in t.used \ s.used PROVE y \in Chained(t)
  <2>1. y = x /\ Pointer(t, b, k) = NewPart(x)
    BY <1>1
  <2>2. Leads(t, b, k) /\ Target(t, b, k) = y
    BY <2>1 DEF Leads, Target, NewPart, Addr, Linked, Present
  <2>3. CASE k = 0 /\ b \in Chained(s)
    BY <2>2, <2>3, <1>1, <1>4, ChainedIs
  <2>4. CASE k \in Slot /\ b \in Dirs(s)
    BY <2>2, <2>4, <1>1, ChainedIs
  <2> QED BY <2>3, <2>4
<1>6. Lost(t) \subseteq Lost(s)
  BY <1>1, <1>4, <1>5 DEF Lost
<1> QED BY <1>4, <1>5, <1>6

-----------------------------------------------------------------------------
(* The bytes of a file: parts that are full, each leading to the next one,  *)
(* and a last one.                                                         *)

\* What is in the file at an address.
PartData(p) == Bytes(p, 1, p.part_size)
DataIn(s, addr) ==
    IF IsDir(addr) \/ ~Linked(addr) THEN <<>>
    ELSE FlattenSeq([k \in 1..Len(Chain(s, addr.lba)) |->
                        PartData(s.part[Chain(s, addr.lba)[k]])])

\* That part of a sequence, from after one of its elements on.
Piece(whole, from, size) == [i \in 1..size |-> whole[from + i]]

\* Sequences joined one after another are joined.
LEMMA Joined ==
  ASSUME NEW T, NEW n \in Nat, n > 0, NEW seqs \in Seq(Seq(T)), Len(seqs) = n,
         NEW g \in [1..n -> Seq(T)], g[1] = seqs[1],
         \A k \in 2..n : g[k] = g[k - 1] \o seqs[k]
  PROVE  FlattenSeq(seqs) = g[n]
<1> DEFINE Steps(h) == h = [k \in 1..Len(seqs) |-> IF k = 1 THEN seqs[k] ELSE h[k - 1] \o seqs[k]]
<1>1. Steps(g)
  <2>1. \A k \in 1..n : g[k] = IF k = 1 THEN seqs[k] ELSE g[k - 1] \o seqs[k]
    <3>1. \A k \in 1..n : k = 1 \/ k \in 2..n
      OBVIOUS
    <3> QED BY <3>1
  <2> QED BY <2>1
<1>2. PICK h : h = (CHOOSE r : Steps(r)) /\ Steps(h)
  <2> HIDE DEF Steps
  <2> QED BY <1>1
<1>3. FlattenSeq(seqs) = h[n]
  <2>1. ~(Len(seqs) = 0)
    OBVIOUS
  <2>2. FlattenSeq(seqs) = h[Len(seqs)]
    BY <1>2, <2>1, Zenon DEF FlattenSeq
  <2> QED BY <2>2
<1> DEFINE Good == {m \in Nat : m + 1 \in 1..n => h[m + 1] = g[m + 1]}
<1>4. h = [k \in 1..n |-> IF k = 1 THEN seqs[k] ELSE h[k - 1] \o seqs[k]]
  BY <1>2
<1>5. 0 \in Good
  <2>1. 1 \in 1..n
    OBVIOUS
  <2>2. h[1] = seqs[1]
    BY <1>4, <2>1
  <2> QED BY <2>2
<1>6. ASSUME NEW m \in Nat, m \in Good PROVE m + 1 \in Good
  <2>1. SUFFICES ASSUME m + 1 + 1 \in 1..n PROVE h[m + 1 + 1] = g[m + 1 + 1]
    OBVIOUS
  <2>2. PICK k \in 2..n : k = m + 1 + 1
    BY <2>1
  <2>3. k - 1 = m + 1 /\ m + 1 \in 1..n /\ k \in 1..n /\ k # 1
    BY <2>2
  <2>4. h[k] = h[k - 1] \o seqs[k]
    BY <1>4, <2>3
  <2>5. h[k - 1] = g[k - 1]
    BY <1>6, <2>3
  <2> QED BY <2>2, <2>4, <2>5
<1>7. \A m \in Nat : m \in Good
  <2> HIDE DEF Good
  <2> QED BY <1>5, <1>6, Induction
<1>8. PICK m \in Nat : m + 1 = n
  <2>1. n - 1 \in Nat /\ (n - 1) + 1 = n
    OBVIOUS
  <2> QED BY <2>1
<1>9. h[n] = g[n]
  <2>1. m \in Good /\ m + 1 \in 1..n
    BY <1>7, <1>8
  <2> QED BY <1>8, <2>1
<1> QED BY <1>3, <1>9

\* A piece of a text is a text of its length.
LEMMA PieceIs ==
  ASSUME NEW n \in Nat, NEW whole \in Seq(0..n), NEW a \in Nat, NEW b \in Nat, a + b <= Len(whole)
  PROVE  Piece(whole, a, b) \in Seq(0..n) /\ Len(Piece(whole, a, b)) = b
<1>1. \A i \in 1..b : whole[a + i] \in 0..n
  OBVIOUS
<1> QED BY <1>1 DEF Piece

\* Two pieces that follow each other are one.
LEMMA Extended ==
  ASSUME NEW n \in Nat, NEW whole \in Seq(0..n), NEW a \in Nat, NEW b \in Nat, a + b <= Len(whole)
  PROVE  Piece(whole, 0, a) \o Piece(whole, a, b) = Piece(whole, 0, a + b)
<1>1. PICK c \in Nat : c = a + b
  OBVIOUS
<1>2. PICK u \in Seq(0..n) : u = Piece(whole, 0, a) /\ Len(u) = a
  BY PieceIs
<1>3. PICK v \in Seq(0..n) : v = Piece(whole, a, b) /\ Len(v) = b
  BY PieceIs
<1>4. PICK w \in Seq(0..n) : w = Piece(whole, 0, c) /\ Len(w) = c
  BY <1>1, PieceIs
<1>5. /\ u \o v \in Seq(0..n) /\ Len(u \o v) = Len(u) + Len(v)
      /\ \A i \in 1..Len(u) + Len(v) :
            (u \o v)[i] = IF i <= Len(u) THEN u[i] ELSE v[i - Len(u)]
  BY ConcatProperties
<1>6. PICK z \in Seq(0..n) :
         /\ z = u \o v /\ Len(z) = c
         /\ \A i \in 1..c : z[i] = IF i <= a THEN u[i] ELSE v[i - a]
  <2>1. Len(u) + Len(v) = c
    BY <1>1, <1>2, <1>3
  <2>2. PICK z : z = u \o v
    OBVIOUS
  <2>3. /\ z \in Seq(0..n) /\ Len(z) = c
        /\ \A i \in 1..c : z[i] = IF i <= a THEN u[i] ELSE v[i - a]
    BY <2>1, <2>2, <1>2, <1>5, Zenon
  <2> QED BY <2>2, <2>3
<1>7. ASSUME NEW i \in 1..c PROVE z[i] = w[i]
  <2>1. w[i] = whole[i]
    BY <1>4 DEF Piece
  <2>2. CASE i <= a
    <3>1. u[i] = whole[i]
      BY <2>2, <1>2 DEF Piece
    <3> QED BY <2>1, <2>2, <3>1, <1>6
  <2>3. CASE i > a
    <3>1. PICK j \in 1..b : j = i - a
      BY <2>3, <1>1
    <3>2. a + j = i
      BY <3>1
    <3>3. v[j] = whole[i]
      <4>1. v = [l \in 1..b |-> whole[a + l]]
        BY <1>3 DEF Piece
      <4> QED BY <4>1, <3>2
    <3>4. ~(i <= a)
      BY <2>3
    <3>5. z[i] = v[i - a]
      BY <3>4, <1>6
    <3> QED BY <2>1, <3>1, <3>3, <3>5
  <2>4. i <= a \/ i > a
    OBVIOUS
  <2> QED BY <2>2, <2>3, <2>4
<1>8. z = w
  BY <1>4, <1>6, <1>7, SeqEqual
<1> QED BY <1>1, <1>2, <1>3, <1>4, <1>6, <1>8

\* The pieces of a text, joined in their order, are the text.
LEMMA Whole ==
  ASSUME NEW l \in Nat, NEW whole \in Seq(0..l), NEW n \in Nat, n > 0,
         NEW off \in [0..n -> 0..Len(whole)], off[0] = 0, off[n] = Len(whole),
         \A k \in 1..n : off[k - 1] <= off[k]
  PROVE  FlattenSeq([k \in 1..n |-> Piece(whole, off[k - 1], off[k] - off[k - 1])]) = whole
<1>1. \A a, b \in Nat : a + b <= Len(whole) =>
         Piece(whole, 0, a) \o Piece(whole, a, b) = Piece(whole, 0, a + b)
  BY Extended
<1>2. PICK seqs : seqs = [k \in 1..n |-> Piece(whole, off[k - 1], off[k] - off[k - 1])]
  OBVIOUS
<1>3. PICK g : g = [k \in 1..n |-> Piece(whole, 0, off[k])]
  OBVIOUS
<1>4. ASSUME NEW k \in 1..n
      PROVE  \E a, b \in Nat : /\ a = off[k - 1] /\ b = off[k] - off[k - 1] /\ off[k] = a + b
                               /\ a + b <= Len(whole)
  <2>1. k - 1 \in 0..n /\ k \in 0..n
    OBVIOUS
  <2>2. off[k - 1] \in 0..Len(whole) /\ off[k] \in 0..Len(whole) /\ off[k - 1] <= off[k]
    BY <2>1
  <2>3. PICK a \in Nat, c \in Nat : a = off[k - 1] /\ c = off[k] /\ a <= c /\ c <= Len(whole)
    BY <2>2
  <2>4. PICK b \in Nat : b = c - a
    BY <2>3
  <2>5. c = a + b
    BY <2>4
  <2> QED BY <2>3, <2>4, <2>5
<1>5. \A k \in 1..n : seqs[k] \in Seq(0..l)
  <2>1. SUFFICES ASSUME NEW k \in 1..n PROVE Piece(whole, off[k - 1], off[k] - off[k - 1]) \in Seq(0..l)
    BY <1>2
  <2> QED BY <1>4, PieceIs
<1>6. \A k \in 1..n : g[k] \in Seq(0..l)
  <2>1. SUFFICES ASSUME NEW k \in 1..n PROVE Piece(whole, 0, off[k]) \in Seq(0..l)
    BY <1>3
  <2>2. PICK c \in Nat : c = off[k] /\ c <= Len(whole)
    BY <1>4
  <2>3. 0 \in Nat /\ 0 + c <= Len(whole)
    BY <2>2
  <2> QED BY <2>2, <2>3, PieceIs
<1>7. seqs \in Seq(Seq(0..l)) /\ Len(seqs) = n
  BY <1>2, <1>5
<1>8. g \in [1..n -> Seq(0..l)]
  BY <1>3, <1>6
<1>9. g[1] = seqs[1]
  <2>1. 1 \in 1..n /\ 1 - 1 = 0
    OBVIOUS
  <2>2. off[1] - off[1 - 1] = off[1]
    <3>1. 1 \in 0..n
      OBVIOUS
    <3> QED BY <3>1, <2>1
  <2>3. seqs[1] = Piece(whole, off[0], off[1])
    BY <1>2, <2>1, <2>2
  <2> QED BY <1>3, <2>1, <2>3
<1>10. ASSUME NEW k \in 2..n PROVE g[k] = g[k - 1] \o seqs[k]
  <2>1. k \in 1..n /\ k - 1 \in 1..n
    OBVIOUS
  <2>2. PICK a \in Nat, b \in Nat : /\ a = off[k - 1] /\ b = off[k] - off[k - 1]
                                    /\ off[k] = a + b /\ a + b <= Len(whole)
    BY <2>1, <1>4
  <2>3. g[k] = Piece(whole, 0, a + b)
    BY <1>3, <2>1, <2>2
  <2>4. g[k - 1] = Piece(whole, 0, a)
    BY <1>3, <2>1, <2>2
  <2>5. seqs[k] = Piece(whole, a, b)
    BY <1>2, <2>1, <2>2
  <2>6. Piece(whole, 0, a) \o Piece(whole, a, b) = Piece(whole, 0, a + b)
    BY <2>2, <1>1, Zenon
  <2>7. g[k - 1] \o seqs[k] = Piece(whole, 0, a) \o Piece(whole, a, b)
    BY <2>4, <2>5, Zenon
  <2> QED BY <2>3, <2>6, <2>7, Zenon
<1>11. FlattenSeq(seqs) = g[n]
  <2>1. PICK T : T = 0..l
    OBVIOUS
  <2>2. seqs \in Seq(Seq(T)) /\ g \in [1..n -> Seq(T)]
    BY <1>7, <1>8, <2>1, Zenon
  <2> QED BY <1>7, <1>9, <1>10, <2>2, Joined
<1>12. g[n] = whole
  <2>1. n \in 1..n
    OBVIOUS
  <2>2. g[n] = [i \in 1..Len(whole) |-> whole[0 + i]]
    BY <1>3, <2>1 DEF Piece
  <2>3. \A i \in 1..Len(whole) : whole[0 + i] = whole[i]
    OBVIOUS
  <2>4. whole = [i \in 1..Len(whole) |-> whole[i]]
    BY LenProperties
  <2> QED BY <2>2, <2>3, <2>4
<1> QED BY <1>2, <1>11, <1>12

\* A part that holds that many elements of what is written, from after one on.
Holds(p, whole, from, size) ==
    /\ size \in 0..FILE_DATA_PER_PART /\ p.part_size = size
    /\ \A i \in 1..size : p.data[i] = whole[from + i]

\* Parts that each lead to the next one.
Joins(s, way, m) ==
    way \in [0..m -> Block] /\ \A k \in 0..m - 1 : s.part[way[k]].next = NewPart(way[k + 1])

\* The parts that a write has filled, and how much was written before each.
Laid(s, way, off, m, whole) ==
    /\ Joins(s, way, m)
    /\ off \in [0..m -> 0..Len(whole)] /\ off[0] = 0
    /\ \A k \in 0..m - 1 : /\ Holds(s.part[way[k]], whole, off[k], FILE_DATA_PER_PART)
                           /\ off[k + 1] = off[k] + FILE_DATA_PER_PART

LEMMA PartDataIs ==
  ASSUME NEW p \in PartType, NEW whole, NEW from, NEW size, Holds(p, whole, from, size)
  PROVE  PartData(p) = Piece(whole, from, size)
<1>1. /\ size \in Nat /\ size <= FILE_DATA_PER_PART /\ p.part_size = size
      /\ \A i \in 1..size : p.data[i] = whole[from + i]
  BY Sizes DEF Holds
<1>2. PICK data : data = [i \in 1..FILE_DATA_PER_PART |-> p.data[i]]
  OBVIOUS
<1>3. SubSeq(data, 1, size) = [i \in 1..size |-> data[i]]
  <2>1. SubSeq(data, 1, size) = [i \in 1..1 + size - 1 |-> data[1 + i - 1]]
    BY <1>1
  <2>2. 1 + size - 1 = size /\ \A i \in 1..size : 1 + i - 1 = i
    BY <1>1
  <2> QED BY <2>1, <2>2
<1>4. \A i \in 1..size : data[i] = whole[from + i]
  BY <1>1, <1>2, Sizes
<1> QED BY <1>1, <1>2, <1>3, <1>4 DEF PartData, Bytes, Piece

\* A chain goes along the parts that lead to each other from where it begins.
LEMMA WayIs ==
  ASSUME NEW s \in Volumes, NEW m \in Nat, NEW way, Joins(s, way, m), NEW x, x = way[0]
  PROVE  \A k \in Nat : k \in 0..m /\ k + 1 \in 1..BLOCKS + 1 => At(s, x)[k + 1] = way[k]
<1>1. way \in [0..m -> Block] /\ \A k \in 0..m - 1 : s.part[way[k]].next = NewPart(way[k + 1])
  BY DEF Joins
<1> DEFINE Good == {k \in Nat : k \in 0..m /\ k + 1 \in 1..BLOCKS + 1 => At(s, x)[k + 1] = way[k]}
<1>2. 0 \in Good
  <2>1. At(s, x)[1] = way[0]
    BY AtFirst
  <2>2. 0 + 1 = 1
    OBVIOUS
  <2> QED BY <2>1, <2>2
<1>3. ASSUME NEW k \in Nat, k \in Good PROVE k + 1 \in Good
  <2>1. SUFFICES ASSUME k + 1 \in 0..m, k + 1 + 1 \in 1..BLOCKS + 1
                 PROVE  At(s, x)[k + 1 + 1] = way[k + 1]
    OBVIOUS
  <2>2. PICK i \in 2..BLOCKS + 1 : i = k + 1 + 1
    BY <2>1, Sizes
  <2>3. i - 1 = k + 1 /\ k + 1 \in 1..BLOCKS + 1 /\ k \in 0..m - 1 /\ k \in 0..m
    BY <2>1, <2>2, Sizes
  <2>4. PICK b \in Block, c \in Block : b = way[k] /\ c = way[k + 1] /\ s.part[b].next = NewPart(c)
    BY <2>1, <2>3, <1>1
  <2>5. At(s, x)[i - 1] = b
    BY <2>3, <2>4, <1>3
  <2>6. b # Boot /\ c \in 0..BLOCKS
    BY Sizes DEF Block, Boot
  <2>7. At(s, x)[i] = c
    <3>1. At(s, x)[i] = NextPart(s, b)
      BY <2>5, AtNext
    <3> QED BY <3>1, <2>4, <2>6, NewPartIs DEF NextPart
  <2> QED BY <2>2, <2>4, <2>7
<1>4. \A k \in Nat : k \in Good
  <2> HIDE DEF Good
  <2> QED BY <1>2, <1>3, Induction
<1> QED BY <1>4

\* The chain goes that way.
Goes(s, x, way, m) == Chain(s, x) = [k \in 1..m + 1 |-> way[k - 1]]

\* And is all of them if the last leads nowhere: none comes twice, so that there
\* are no more of them than the chain is followed for.
LEMMA WayEnds ==
  ASSUME NEW s \in Volumes, Leading(s), OneWay(s), NEW d \in Block, NEW j \in Slot,
         Leads(s, d, j), NEW m \in Nat, NEW way, Joins(s, way, m),
         way[0] = Target(s, d, j), ~Leads(s, way[m], 0)
  PROVE  Goes(s, Target(s, d, j), way, m)
<1>1. way \in [0..m -> Block]
  BY DEF Joins
<1>2. PICK x \in Block : x = Target(s, d, j) /\ x = way[0]
  BY <1>1
<1>3. BLOCKS \in Nat /\ BLOCKS > 0 /\ \A b \in Block : b # Boot
  BY Sizes DEF Block, Boot
<1>4. PICK at : at = At(s, x)
  OBVIOUS
<1>5. \A k \in Nat : k \in 0..m /\ k + 1 \in 1..BLOCKS + 1 => at[k + 1] = way[k]
  BY <1>2, <1>4, WayIs
<1>6. m + 1 <= BLOCKS
  <2>1. SUFFICES ASSUME BLOCKS <= m PROVE FALSE
    BY <1>3
  <2>2. ASSUME NEW k \in 1..BLOCKS + 1 PROVE at[k] \in Block
    <3>1. PICK i \in Nat : i = k - 1
      BY <2>2, <1>3
    <3>2. i \in 0..m /\ i + 1 = k
      BY <3>1, <2>1, <1>3
    <3>3. at[k] = way[i]
      BY <3>2, <1>5
    <3> QED BY <3>2, <3>3, <1>1
  <2>3. PICK g : g = [k \in 1..BLOCKS + 1 |-> at[k]]
    OBVIOUS
  <2>4. g \in [1..BLOCKS + 1 -> Block]
    BY <2>2, <2>3
  <2>5. ASSUME NEW k \in 1..BLOCKS + 1, NEW l \in 1..BLOCKS + 1, g[k] = g[l] PROVE k = l
    <3>1. at[k] = at[l] /\ at[k] # Boot
      BY <2>2, <2>3, <2>5, <1>3
    <3> QED BY <3>1, <1>2, <1>4, Apart
  <2>6. /\ IsFiniteSet(1..BLOCKS + 1) /\ Cardinality(1..BLOCKS + 1) = BLOCKS + 1
        /\ IsFiniteSet(1..BLOCKS) /\ Cardinality(1..BLOCKS) = BLOCKS
    <3>1. 1 \in Int /\ BLOCKS \in Int /\ BLOCKS + 1 \in Int
      BY <1>3
    <3>2. /\ IsFiniteSet(1..BLOCKS + 1)
          /\ Cardinality(1..BLOCKS + 1) = IF 1 > BLOCKS + 1 THEN 0 ELSE BLOCKS + 1 - 1 + 1
      BY <3>1, FS_Interval
    <3>3. IsFiniteSet(1..BLOCKS) /\ Cardinality(1..BLOCKS) = IF 1 > BLOCKS THEN 0 ELSE BLOCKS - 1 + 1
      BY <3>1, FS_Interval
    <3> QED BY <3>2, <3>3, <1>3
  <2>7. Cardinality(Block) < Cardinality(1..BLOCKS + 1) /\ IsFiniteSet(Block)
    BY <2>6, <1>3 DEF Block
  <2>8. PICK S : S = 1..BLOCKS + 1
    OBVIOUS
  <2>9. \E k \in S, l \in S : k # l /\ g[k] = g[l]
    <3>1. IsFiniteSet(S) /\ Cardinality(Block) < Cardinality(S) /\ g \in [S -> Block]
      BY <2>4, <2>6, <2>7, <2>8, Zenon
    <3> QED BY <3>1, <2>7, FS_PigeonHole
  <2> QED BY <2>5, <2>8, <2>9
<1>7. PICK n \in 1..BLOCKS + 1 : /\ Chain(s, x) = [k \in 1..n |-> at[k]]
                                 /\ \A k \in 1..n : at[k] \in Block
  BY <1>4, ChainSeq
<1>8. \A k \in 1..BLOCKS + 1 : k \in 1..n <=> at[k] # Boot
  <2>1. DOMAIN Chain(s, x) = {k \in 1..BLOCKS + 1 : at[k] # Boot}
    BY <1>4, ChainIs
  <2>2. DOMAIN Chain(s, x) = 1..n
    BY <1>7
  <2> QED BY <2>1, <2>2
<1>9. at[m + 1] = way[m] /\ way[m] \in Block
  <2>1. m \in 0..m /\ m + 1 \in 1..BLOCKS + 1
    BY <1>3, <1>6
  <2> QED BY <2>1, <1>5, <1>1
<1>10. at[m + 2] = Boot
  <2>1. PICK i \in 2..BLOCKS + 1 : i = m + 2
    BY <1>3, <1>6
  <2>2. i - 1 = m + 1
    BY <2>1
  <2>3. at[i] = NextPart(s, way[m])
    BY <2>2, <1>4, <1>9, AtNext
  <2> QED BY <2>1, <2>3, <1>9 DEF NextPart, Leads, Pointer
<1>11. n = m + 1
  <2>1. m + 1 \in 1..BLOCKS + 1 /\ m + 2 \in 1..BLOCKS + 1
    BY <1>3, <1>6
  <2>2. m + 1 \in 1..n /\ m + 2 \notin 1..n
    BY <2>1, <1>3, <1>8, <1>9, <1>10
  <2> QED BY <2>2, <1>3
<1>12. ASSUME NEW k \in 1..n PROVE at[k] = way[k - 1]
  <2>1. PICK i \in Nat : i = k - 1
    BY <1>3
  <2>2. i \in 0..m /\ i + 1 \in 1..BLOCKS + 1 /\ i + 1 = k
    BY <2>1, <1>3, <1>6, <1>11
  <2>3. at[i + 1] = way[i]
    BY <2>2, <1>5
  <2> QED BY <2>1, <2>2, <2>3
<1>13. Chain(s, x) = [k \in 1..m + 1 |-> way[k - 1]]
  BY <1>7, <1>11, <1>12
<1> QED BY <1>2, <1>13 DEF Goes

\* What was written is what is read.
LEMMA LaidIs ==
  ASSUME NEW s \in Volumes, Leading(s), OneWay(s), NEW d \in Block, NEW j \in Slot,
         Leads(s, d, j), ~IsDir(Pointer(s, d, j)), NEW x \in Block, x = Target(s, d, j),
         NEW l \in Nat, NEW whole \in Seq(0..l), NEW m \in Nat, NEW way, NEW off,
         Laid(s, way, off, m, whole), way[0] = x, ~Leads(s, way[m], 0),
         Holds(s.part[way[m]], whole, off[m], Len(whole) - off[m])
  PROVE  DataIn(s, Pointer(s, d, j)) = whole
<1>1. /\ Joins(s, way, m) /\ way \in [0..m -> Block]
      /\ off \in [0..m -> 0..Len(whole)] /\ off[0] = 0
  BY DEF Laid, Joins
<1>2. ASSUME NEW k \in 0..m - 1
      PROVE  /\ Holds(s.part[way[k]], whole, off[k], FILE_DATA_PER_PART)
             /\ off[k + 1] = off[k] + FILE_DATA_PER_PART
  BY DEF Laid
<1>3. PICK n \in Nat : n = m + 1 /\ n > 0
  OBVIOUS
<1>4. Chain(s, x) = [k \in 1..n |-> way[k - 1]]
  <2>1. Chain(s, x) = [k \in 1..m + 1 |-> way[k - 1]]
    <3>1. way[0] = Target(s, d, j)
      OBVIOUS
    <3>2. Goes(s, Target(s, d, j), way, m)
      BY <1>1, <3>1, WayEnds
    <3> QED BY <3>2, Zenon DEF Goes
  <2> QED BY <2>1, <1>3
<1>5. PICK end : end = [k \in 0..n |-> IF k = n THEN Len(whole) ELSE off[k]]
  OBVIOUS
<1>6. /\ end[0] = 0 /\ end[n] = Len(whole) /\ end \in [0..n -> 0..Len(whole)]
      /\ \A k \in 0..m : end[k] = off[k]
  <2>1. Len(whole) \in Nat /\ \A k \in 0..n : k # n => k \in 0..m
    BY <1>3
  <2>2. ASSUME NEW k \in 0..n PROVE (IF k = n THEN Len(whole) ELSE off[k]) \in 0..Len(whole)
    <3>1. CASE k = n
      BY <2>1, <3>1
    <3>2. CASE k # n
      BY <2>1, <3>2, <1>1
    <3> QED BY <3>1, <3>2
  <2>3. 0 \in 0..n /\ n \in 0..n /\ 0 # n /\ \A k \in 0..m : k \in 0..n /\ k # n
    BY <1>3
  <2> QED BY <2>2, <2>3, <1>1, <1>5
<1>7. ASSUME NEW i \in 0..m
      PROVE  /\ Holds(s.part[way[i]], whole, end[i], end[i + 1] - end[i])
             /\ end[i] <= end[i + 1]
  <2>1. PICK a \in 0..Len(whole) : a = off[i] /\ a = end[i]
    BY <1>1, <1>6
  <2>2. CASE i = m
    <3>1. end[i + 1] = Len(whole)
      BY <2>2, <1>3, <1>6
    <3>2. Holds(s.part[way[i]], whole, a, Len(whole) - a)
      BY <2>1, <2>2, Zenon
    <3>3. a <= Len(whole)
      BY <2>1
    <3> QED BY <2>1, <3>1, <3>2, <3>3, Zenon
  <2>3. CASE i # m
    <3>1. i \in 0..m - 1 /\ i + 1 \in 0..m
      BY <2>3
    <3>2. end[i + 1] = a + FILE_DATA_PER_PART
      BY <3>1, <2>1, <1>2, <1>6
    <3>3. PICK e : e = end[i + 1]
      OBVIOUS
    <3>4. Holds(s.part[way[i]], whole, a, FILE_DATA_PER_PART)
      BY <3>1, <2>1, <1>2, Zenon
    <3>5. e - a = FILE_DATA_PER_PART /\ a <= e
      <4>1. e = a + FILE_DATA_PER_PART /\ a \in Nat /\ FILE_DATA_PER_PART \in Nat
        BY <3>2, <3>3, Sizes
      <4> QED BY <4>1
    <3>6. Holds(s.part[way[i]], whole, a, e - a)
      BY <3>4, <3>5, Zenon
    <3> QED BY <2>1, <3>3, <3>5, <3>6, Zenon
  <2> QED BY <2>2, <2>3
<1>8. ASSUME NEW k \in 1..n
      PROVE  /\ PartData(s.part[Chain(s, x)[k]]) = Piece(whole, end[k - 1], end[k] - end[k - 1])
             /\ end[k - 1] <= end[k]
  <2>1. PICK i \in 0..m : i = k - 1 /\ i + 1 = k
    <3>1. k - 1 \in 0..m /\ (k - 1) + 1 = k
      BY <1>3
    <3> QED BY <3>1
  <2>2. PICK b \in Block : b = way[i] /\ b = Chain(s, x)[k]
    BY <2>1, <1>1, <1>4
  <2>3. s.part[b] \in PartType
    BY DEF Volumes
  <2>4. Holds(s.part[b], whole, end[i], end[i + 1] - end[i]) /\ end[i] <= end[i + 1]
    BY <2>2, <1>7
  <2>5. PartData(s.part[b]) = Piece(whole, end[i], end[i + 1] - end[i])
    BY <2>3, <2>4, PartDataIs
  <2> QED BY <2>1, <2>2, <2>4, <2>5
<1>9. Len(Chain(s, x)) = n
  BY <1>3, <1>4
<1>10. DataIn(s, Pointer(s, d, j)) =
         FlattenSeq([k \in 1..n |-> PartData(s.part[Chain(s, x)[k]])])
  <2>1. PICK addr : addr = Pointer(s, d, j) /\ addr.lba = x /\ ~IsDir(addr) /\ Linked(addr)
    BY DEF Target, Leads
  <2> QED BY <2>1, <1>9, Zenon DEF DataIn
<1>11. [k \in 1..n |-> PartData(s.part[Chain(s, x)[k]])] =
       [k \in 1..n |-> Piece(whole, end[k - 1], end[k] - end[k - 1])]
  BY <1>8, Zenon
<1>12. \A k \in 1..n : end[k - 1] <= end[k]
  BY <1>8
<1>13. FlattenSeq([k \in 1..n |-> Piece(whole, end[k - 1], end[k] - end[k - 1])]) = whole
  BY <1>3, <1>6, <1>12, Whole, Zenon
<1> QED BY <1>10, <1>11, <1>13, Zenon

-----------------------------------------------------------------------------
(* Writing: the loop.                                                      *)

\* What holds after every round of the loop, o being the volume before.
\* Between two rounds: the part that is next is new, and the blocks that were in
\* use when the write began hold p.
Round(o, p, w) ==
    /\ w.s \in Volumes /\ w.lba \in 0..BLOCKS /\ w.data \in Seq(0..MAX_WRITE)
    /\ w.lba = Boot => w.data # <<>> \/ w.s.volume = "boot"
    /\ w.lba # Boot => /\ w.s.volume = "sound" /\ Shape(w.s)
                       /\ w.lba \in w.s.used \ Dirs(w.s) /\ ~Leads(w.s, w.lba, 0)
                       /\ w.lba \in Chained(w.s) /\ Lost(w.s) \subseteq Lost(o)
                       /\ w.lba \notin o.used /\ o.used \subseteq w.s.used
                       /\ \A c \in o.used : w.s.part[c] = p[c]

\* A round that fills the last part, and one that fills a part and goes on.
Fills(w, v) ==
    LET p == w.s.part[w.lba]
        q == v.s.part[w.lba]
    IN  /\ v.data = <<>> /\ v.lba = w.lba
        /\ \A c \in Block \ {w.lba} : v.s.part[c] = w.s.part[c]
        /\ q.data = Filled(p, w.data)
        /\ q.part_size = IF Len(w.data) > p.part_size THEN Len(w.data) ELSE p.part_size
FillsUp(w, v) ==
    LET p == w.s.part[w.lba]
        q == v.s.part[w.lba]
    IN  /\ v.data = Rest(w.data)
        /\ \A c \in Block \ {w.lba} : v.s.part[c] = w.s.part[c]
        /\ q.data = Filled(p, w.data) /\ q.part_size = FILE_DATA_PER_PART
        /\ q.next = NewPart(v.lba)
        /\ v.lba # Boot => v.lba # w.lba /\ v.s.part[v.lba] = ZeroPart

LEMMA FilledIs ==
  ASSUME NEW p \in PartType, NEW bytes \in Seq(0..MAX_WRITE)
  PROVE  Filled(p, bytes) \in [1..FILE_DATA_PER_PART -> 0..MAX_WRITE]
<1>1. ASSUME NEW i \in 1..FILE_DATA_PER_PART
      PROVE  (IF i <= Len(bytes) THEN bytes[i] ELSE p.data[i]) \in 0..MAX_WRITE
  <2>1. p.data[i] \in 0..MAX_WRITE
    BY DEF PartType
  <2>2. i <= Len(bytes) => bytes[i] \in 0..MAX_WRITE
    BY Sizes
  <2> QED BY <2>1, <2>2
<1> QED BY <1>1 DEF Filled

LEMMA SuffixIs ==
  ASSUME NEW n \in Nat, NEW data \in Seq(0..n), NEW m \in Nat, m < Len(data)
  PROVE  /\ SubSeq(data, m + 1, Len(data)) \in Seq(0..n)
         /\ Len(SubSeq(data, m + 1, Len(data))) = Len(data) - m
<1>1. SubSeq(data, m + 1, Len(data)) = [i \in 1..(Len(data) - m) |-> data[m + i]]
  OBVIOUS
<1>2. PICK k \in Nat : k = Len(data) - m
  OBVIOUS
<1>3. \A i \in 1..k : data[m + i] \in 0..n
  BY <1>2
<1>4. SubSeq(data, m + 1, Len(data)) \in [1..k -> 0..n]
  BY <1>1, <1>2, <1>3
<1> QED BY <1>2, <1>4

LEMMA RestIs ==
  ASSUME NEW data \in Seq(0..MAX_WRITE), Len(data) > FILE_DATA_PER_PART
  PROVE  /\ Rest(data) \in Seq(0..MAX_WRITE) /\ Rest(data) # <<>>
         /\ Len(Rest(data)) + 1 <= Len(data)
<1>1. /\ Len(data) \in Nat /\ FILE_DATA_PER_PART \in Nat /\ FILE_DATA_PER_PART > 0
      /\ FILE_DATA_PER_PART < Len(data) /\ MAX_WRITE \in Nat
  BY Sizes
<1>2. Rest(data) \in Seq(0..MAX_WRITE) /\ Len(Rest(data)) = Len(data) - FILE_DATA_PER_PART
  BY <1>1, SuffixIs DEF Rest
<1>3. Len(Rest(data)) # 0
  BY <1>1, <1>2
<1> QED BY <1>1, <1>2, <1>3

\* A block that is new is no directory.
LEMMA NewBlock ==
  ASSUME NEW s \in Volumes, Shape(s), NEW b, NEW k, NEW x, NEW t, Grown(s, t, b, k, x),
         x \in t.used \ s.used
  PROVE  x \in t.used \ Dirs(s)
BY DirsAre

LEMMA LastPart ==
  ASSUME NEW o, NEW kept, NEW w, Round(o, kept, w), w.lba # Boot, w.data # <<>>,
         Len(w.data) <= FILE_DATA_PER_PART, o.used \in SUBSET Block
  PROVE  Round(o, kept, WritePart(w)) /\ Fills(w, WritePart(w))
<1>1. PICK s \in Volumes, b \in Block, data \in Seq(0..MAX_WRITE) :
         s = w.s /\ b = w.lba /\ data = w.data
  <2>1. w.lba \in Block
    BY Sizes DEF Round, Boot, Block
  <2> QED BY <2>1 DEF Round
<1>2. /\ s.volume = "sound" /\ Shape(s) /\ b \in s.used \ Dirs(s) /\ ~Leads(s, b, 0)
      /\ b \in Chained(s) /\ Lost(s) \subseteq Lost(o)
      /\ b \notin o.used /\ o.used \subseteq s.used /\ \A c \in o.used : s.part[c] = kept[c]
  BY <1>1 DEF Round
<1>3. PICK p \in PartType : p = s.part[b]
  BY DEF Volumes
<1>4. PICK n \in Nat : n = IF Len(data) > p.part_size THEN Len(data) ELSE p.part_size
  BY Sizes DEF PartType
<1>5. PICK q : q = [p EXCEPT !.data = Filled(p, data), !.part_size = n]
  OBVIOUS
<1>6. FileShape(p)
  BY <1>2, <1>3 DEF Shape, Shaped
<1>7. n <= FILE_DATA_PER_PART /\ n \in 0..SizeMax
      /\ (p.part_size = FILE_DATA_PER_PART => n = FILE_DATA_PER_PART)
  <2>1. Len(data) <= FILE_DATA_PER_PART /\ p.part_size <= FILE_DATA_PER_PART
    BY <1>1, <1>6 DEF FileShape
  <2>2. n <= FILE_DATA_PER_PART
    BY <2>1, <1>4
  <2>3. p.part_size \in Nat /\ Len(data) \in Nat
    BY Sizes DEF PartType
  <2> QED BY <2>1, <2>2, <2>3, <1>4, Sizes
<1>8. q \in PartType
  BY <1>5, <1>7, FilledIs DEF PartType
<1>9. q.entry = p.entry /\ q.next = p.next /\ q.part_size = n
  BY <1>5 DEF PartType
<1>10. FileShape(q)
  BY <1>6, <1>7, <1>9 DEF FileShape, PresentIn
<1>11. PICK t : t = [part |-> [s.part EXCEPT ![b] = q], used |-> s.used, volume |-> s.volume]
  OBVIOUS
<1>12. WritePart(w) = [s |-> t, lba |-> b, data |-> <<>>]
  <2>1. WritePart(w) =
          [s |-> [s EXCEPT !.part[b] =
                     [p EXCEPT !.data = Filled(p, data),
                               !.part_size = IF Len(data) > @ THEN Len(data) ELSE @]],
           lba |-> b, data |-> <<>>]
    <3>1. /\ w.data # <<>> /\ ~(w.lba = Boot) /\ Len(w.data) <= FILE_DATA_PER_PART
          /\ ~(Len(w.data) > FILE_DATA_PER_PART)
      BY <1>1, Sizes
    <3> QED BY <1>1, <1>3, <3>1, Zenon DEF WritePart
  <2>2. [p EXCEPT !.data = Filled(p, data),
                  !.part_size = IF Len(data) > @ THEN Len(data) ELSE @] = q
    BY <1>4, <1>5 DEF PartType
  <2>3. [s EXCEPT !.part[b] = q] = t
    BY <1>11 DEF Volumes
  <2> QED BY <2>1, <2>3, <2>2
<1>13. /\ t.part = [s.part EXCEPT ![b] = q] /\ t.used = s.used /\ t.volume = s.volume
       /\ s.part \in [Block -> PartType] /\ t.part[b] = q
       /\ \A c \in Block \ {b} : t.part[c] = s.part[c]
  BY <1>11 DEF Volumes
<1>14. t \in Volumes
  BY <1>8, <1>11, <1>13 DEF Volumes
<1>15. Grown(s, t, b, 0, 0)
  <2>1. ASSUME NEW c \in Block, NEW l \in Port PROVE Pointer(t, c, l) = Pointer(s, c, l)
    <3>1. CASE c = b
      BY <3>1, <1>3, <1>9, <1>13 DEF Pointer
    <3>2. CASE c # b
      BY <3>2, <1>13 DEF Pointer
    <3> QED BY <3>1, <3>2
  <2> QED BY <2>1, <1>13, <1>14 DEF Grown
<1>16. Shape(t) /\ Dirs(t) = Dirs(s)
  BY <1>2, <1>10, <1>13, <1>15, GrownShape
<1>17. b \in Chained(t) /\ Lost(t) \subseteq Lost(o)
  <2>1. PICK k \in Port : k = 0
    BY Sizes DEF Port
  <2>2. Grown(s, t, b, k, 0)
    BY <2>1, <1>15
  <2> QED BY <2>1, <2>2, <1>2, <1>16, GrownChained
<1>18. <<>> \in Seq(0..MAX_WRITE) /\ b \in 0..BLOCKS /\ b # Boot
  BY <1>1, Sizes DEF Block
<1>19. PICK v : v = [s |-> t, lba |-> b, data |-> <<>>]
  OBVIOUS
<1>20. ~Leads(t, b, 0) /\ \A c \in o.used : t.part[c] = kept[c]
  BY <1>2, <1>3, <1>9, <1>13 DEF Leads, Pointer
<1>21. Round(o, kept, v)
  BY <1>2, <1>13, <1>14, <1>16, <1>18, <1>19, <1>17, <1>20 DEF Round
<1>22. Fills(w, v)
  <2>1. q.data = Filled(p, data) /\ n = IF Len(data) > p.part_size THEN Len(data) ELSE p.part_size
    BY <1>4, <1>5 DEF PartType
  <2> QED BY <2>1, <1>1, <1>3, <1>9, <1>13, <1>19 DEF Fills
<1> QED BY <1>12, <1>19, <1>21, <1>22

LEMMA FullPart ==
  ASSUME NEW o, NEW kept, NEW w, Round(o, kept, w), w.lba # Boot,
         Len(w.data) > FILE_DATA_PER_PART, o.used \in SUBSET Block
  PROVE  /\ Round(o, kept, WritePart(w))
         /\ FillsUp(w, WritePart(w))
<1>1. PICK s \in Volumes, b \in Block, data \in Seq(0..MAX_WRITE) :
         s = w.s /\ b = w.lba /\ data = w.data
  <2>1. w.lba \in Block
    BY Sizes DEF Round, Boot, Block
  <2> QED BY <2>1 DEF Round
<1>2. /\ s.volume = "sound" /\ Shape(s) /\ b \in s.used \ Dirs(s) /\ ~Leads(s, b, 0)
      /\ b \in Chained(s) /\ Lost(s) \subseteq Lost(o)
      /\ b \notin o.used /\ o.used \subseteq s.used /\ \A c \in o.used : s.part[c] = kept[c]
  BY <1>1 DEF Round
<1>3. PICK p \in PartType : p = s.part[b]
  BY DEF Volumes
<1>4. FileShape(p)
  BY <1>2, <1>3 DEF Shape, Shaped
<1>5. PICK rest \in Seq(0..MAX_WRITE) : rest = Rest(data) /\ rest # <<>>
  BY <1>1, RestIs
<1>6. /\ w.data # <<>> /\ ~(w.data = <<>>) /\ ~(w.lba = Boot) /\ Len(w.data) > FILE_DATA_PER_PART
      /\ ~(Len(w.data) <= FILE_DATA_PER_PART)
  BY <1>1, Sizes
<1>7. 0 \in Port
  BY Sizes DEF Port
<1>8. Pointer(s, b, 0) = p.next
  BY <1>3 DEF Pointer
<1>9. ~Linked(p.next)
  BY <1>2, <1>8 DEF Leads
<1>10. PICK x, r : x = Balloc(s).lba /\ r = Balloc(s).s
  OBVIOUS
<1>11. Allocated(s, x, r)
  BY <1>2, <1>10, BallocIs
<1>12. /\ r \in Volumes /\ x \in 0..BLOCKS /\ r.part = s.part /\ r.volume = s.volume
       /\ x # Boot => x \in Block \ s.used /\ r.used = s.used \cup {x}
  BY <1>11 DEF Allocated
<1>13. PICK q : q = [p EXCEPT !.data = Filled(p, data), !.part_size = FILE_DATA_PER_PART,
                             !.next = NewPart(x)]
  OBVIOUS
<1>14. NewPart(x) \in AddrType
  BY <1>12, NewPartIs
<1>15. q \in PartType
  <2>1. FILE_DATA_PER_PART \in 0..SizeMax
    BY Sizes
  <2>2. Filled(p, data) \in [1..FILE_DATA_PER_PART -> 0..MAX_WRITE]
    BY FilledIs
  <2> QED BY <2>1, <2>2, <1>13, <1>14 DEF PartType
<1>16. q.entry = p.entry /\ q.next = NewPart(x) /\ q.part_size = FILE_DATA_PER_PART
  BY <1>13 DEF PartType
<1>17. FileShape(q)
  BY <1>4, <1>15, <1>16, Sizes DEF FileShape, PresentIn
<1>18. PICK t : t = [part |-> [s.part EXCEPT ![b] = q], used |-> r.used, volume |-> s.volume]
  OBVIOUS
<1>19. WritePart(w) = [s |-> t, lba |-> x, data |-> rest]
  <2>1. WritePart(w) =
          [s |-> [r EXCEPT !.part[b] =
                     [p EXCEPT !.data = Filled(p, data), !.part_size = FILE_DATA_PER_PART,
                               !.next = Addr(x, {"PRESENT", "NOT_EMPTY"})]],
           lba |-> x, data |-> rest]
    BY <1>1, <1>3, <1>5, <1>6, <1>9, <1>10, Zenon DEF WritePart
  <2>2. [r EXCEPT !.part[b] = q] = t
    BY <1>12, <1>18 DEF Volumes
  <2> QED BY <2>1, <2>2, <1>13 DEF NewPart
<1>20. /\ t.part = [s.part EXCEPT ![b] = q] /\ t.used = r.used /\ t.volume = s.volume
       /\ s.part \in [Block -> PartType] /\ t.part[b] = q
       /\ \A c \in Block \ {b} : t.part[c] = s.part[c]
  BY <1>18 DEF Volumes
<1>21. t \in Volumes
  BY <1>12, <1>15, <1>18, <1>20 DEF Volumes
<1>22. PICK v : v = [s |-> t, lba |-> x, data |-> rest]
  OBVIOUS
<1>23. x # Boot => /\ Shape(t) /\ x \in t.used \ Dirs(t)
                   /\ x \in Chained(t) /\ Lost(t) \subseteq Lost(o)
  <2>1. SUFFICES ASSUME x # Boot
                 PROVE  /\ Shape(t) /\ x \in t.used \ Dirs(t)
                        /\ x \in Chained(t) /\ Lost(t) \subseteq Lost(o)
    OBVIOUS
  <2>2. x \in t.used \ s.used /\ s.used \subseteq t.used
    BY <2>1, <1>12, <1>20
  <2>3. ~Leads(s, b, 0) /\ Pointer(t, b, 0) = NewPart(x)
    BY <1>8, <1>9, <1>16, <1>20 DEF Leads, Pointer
  <2>4. ASSUME NEW c \in Block, NEW l \in Port, ~(c = b /\ l = 0)
        PROVE  Pointer(t, c, l) = Pointer(s, c, l)
    <3>1. CASE c = b
      BY <3>1, <2>4, <1>3, <1>16, <1>20 DEF Pointer
    <3>2. CASE c # b
      BY <3>2, <1>20 DEF Pointer
    <3> QED BY <3>1, <3>2
  <2>5. Grown(s, t, b, 0, x)
    BY <2>1, <2>2, <2>3, <2>4, <1>12, <1>20, <1>21 DEF Grown
  <2>6. Shape(t) /\ Dirs(t) = Dirs(s)
    BY <1>2, <1>17, <1>20, <2>5, GrownShape
  <2>7. x \in t.used \ Dirs(t)
    BY <1>2, <2>2, <2>5, <2>6, NewBlock
  <2>8. x \in Chained(t) /\ Lost(t) \subseteq Lost(o)
    <3>1. PICK k \in Port : k = 0 /\ Grown(s, t, b, k, x)
      BY <1>7, <2>5
    <3>2. Lost(t) \subseteq Lost(s) /\ t.used \ s.used \subseteq Chained(t)
      BY <1>2, <2>6, <3>1, GrownChained
    <3> QED BY <1>2, <2>2, <3>2
  <2> QED BY <2>6, <2>7, <2>8
<1>24. x # Boot => /\ x \notin o.used /\ o.used \subseteq t.used /\ ~Leads(t, x, 0)
                   /\ \A c \in o.used : t.part[c] = kept[c]
  <2>1. SUFFICES ASSUME x # Boot
                 PROVE  /\ x \notin o.used /\ o.used \subseteq t.used /\ ~Leads(t, x, 0)
                        /\ \A c \in o.used : t.part[c] = kept[c]
    OBVIOUS
  <2>2. x \in Block \ s.used /\ x # b /\ s.used \subseteq t.used
    BY <2>1, <1>2, <1>12, <1>20
  <2>3. t.part[x] = ZeroPart
    BY <2>2, <1>2, <1>20 DEF Shape, Blank
  <2> QED BY <2>2, <2>3, <1>2, <1>20, ZeroIs DEF Leads, Pointer
<1>25. Round(o, kept, v)
  BY <1>2, <1>5, <1>12, <1>20, <1>21, <1>22, <1>23, <1>24 DEF Round
<1>26. x # Boot => x # b /\ t.part[x] = ZeroPart
  <2>1. SUFFICES ASSUME x # Boot PROVE x # b /\ t.part[x] = ZeroPart
    OBVIOUS
  <2>2. x \in Block \ s.used /\ x # b
    BY <2>1, <1>2, <1>12
  <2> QED BY <2>2, <1>2, <1>20 DEF Shape, Blank
<1>27. FillsUp(w, v)
  <2>1. q.data = Filled(p, data)
    BY <1>13 DEF PartType
  <2> QED BY <2>1, <1>1, <1>3, <1>5, <1>16, <1>20, <1>22, <1>26 DEF FillsUp
<1> QED BY <1>19, <1>22, <1>25, <1>27

\* What is left to write, from after one element on.
Leaves(data, whole, from) ==
    /\ from \in Nat /\ from + Len(data) = Len(whole)
    /\ \A i \in 1..Len(data) : data[i] = whole[from + i]

\* The parts from x on hold what was written, and the rest goes into an empty one.
LaidOut(x, whole, w) ==
    w.lba # Boot =>
        \E m \in Nat : \E way, off :
            /\ Laid(w.s, way, off, m, whole) /\ way[0] = x /\ way[m] = w.lba
            /\ \/ /\ w.data # <<>> /\ Leaves(w.data, whole, off[m])
                  /\ w.s.part[w.lba].part_size = 0
               \/ /\ w.data = <<>>
                  /\ Holds(w.s.part[w.lba], whole, off[m], Len(whole) - off[m])

\* The way to a part that leads to no other has it at its end only.
LEMMA WayKept ==
  ASSUME NEW s, NEW t, NEW m \in Nat, NEW way, NEW off, NEW whole, NEW b, Laid(s, way, off, m, whole),
         way[m] = b, ~Leads(s, b, 0), \A c \in Block \ {b} : t.part[c] = s.part[c]
  PROVE  Laid(t, way, off, m, whole)
<1>1. /\ way \in [0..m -> Block]
      /\ \A k \in 0..m - 1 : /\ s.part[way[k]].next = NewPart(way[k + 1])
                             /\ Holds(s.part[way[k]], whole, off[k], FILE_DATA_PER_PART)
                             /\ off[k + 1] = off[k] + FILE_DATA_PER_PART
      /\ off \in [0..m -> 0..Len(whole)] /\ off[0] = 0
  BY DEF Laid, Joins
<1>2. ASSUME NEW k \in 0..m - 1 PROVE t.part[way[k]] = s.part[way[k]]
  <2>1. way[k] \in Block /\ k + 1 \in 0..m
    BY <1>1
  <2>2. Linked(NewPart(way[k + 1]))
    BY DEF NewPart, Addr, Linked, Present
  <2>3. way[k] # b
    BY <2>2, <1>1 DEF Leads, Pointer
  <2> QED BY <2>1, <2>3
<1>3. \A k \in 0..m - 1 : /\ t.part[way[k]].next = NewPart(way[k + 1])
                          /\ Holds(t.part[way[k]], whole, off[k], FILE_DATA_PER_PART)
                          /\ off[k + 1] = off[k] + FILE_DATA_PER_PART
  BY <1>1, <1>2
<1> QED BY <1>1, <1>3 DEF Laid, Joins

\* What is left to write is in the part, as far as it goes.
LEMMA FilledHolds ==
  ASSUME NEW p, NEW q, NEW data \in Seq(0..MAX_WRITE), NEW whole, NEW from, Leaves(data, whole, from),
         q.data = Filled(p, data), NEW size \in 0..FILE_DATA_PER_PART, size <= Len(data),
         q.part_size = size
  PROVE  Holds(q, whole, from, size)
<1>1. ASSUME NEW i \in 1..size PROVE q.data[i] = whole[from + i]
  <2>1. i \in 1..FILE_DATA_PER_PART /\ i <= Len(data) /\ i \in 1..Len(data)
    BY Sizes
  <2>2. q.data[i] = data[i]
    BY <2>1 DEF Filled
  <2> QED BY <2>1, <2>2 DEF Leaves
<1> QED BY <1>1 DEF Holds

LEMMA LaidLast ==
  ASSUME NEW o, NEW kept, NEW w, Round(o, kept, w), w.lba # Boot, w.data # <<>>,
         Len(w.data) <= FILE_DATA_PER_PART, NEW v, Fills(w, v), NEW x,
         NEW whole \in Seq(0..MAX_WRITE), LaidOut(x, whole, w)
  PROVE  LaidOut(x, whole, v)
<1>1. PICK data, b : data \in Seq(0..MAX_WRITE) /\ data = w.data /\ b = w.lba /\ ~Leads(w.s, b, 0)
  BY DEF Round
<1>2. PICK m \in Nat :
         \E way, off : /\ Laid(w.s, way, off, m, whole) /\ way[0] = x /\ way[m] = b
                       /\ Leaves(data, whole, off[m]) /\ w.s.part[b].part_size = 0
  BY <1>1 DEF LaidOut
<1>3. PICK way, off : /\ Laid(w.s, way, off, m, whole) /\ way[0] = x /\ way[m] = b
                      /\ Leaves(data, whole, off[m]) /\ w.s.part[b].part_size = 0
  BY <1>2
<1>4. /\ v.data = <<>> /\ v.lba = b /\ \A c \in Block \ {b} : v.s.part[c] = w.s.part[c]
      /\ v.s.part[b].data = Filled(w.s.part[b], data)
      /\ v.s.part[b].part_size = IF Len(data) > 0 THEN Len(data) ELSE 0
  BY <1>1, <1>3 DEF Fills
<1>5. Laid(v.s, way, off, m, whole)
  BY <1>1, <1>3, <1>4, WayKept
<1>6. PICK size \in 0..FILE_DATA_PER_PART :
         size = Len(data) /\ v.s.part[b].part_size = size /\ Len(whole) - off[m] = size
  <2>1. Len(data) \in Nat /\ Len(whole) \in Nat /\ off[m] \in Nat /\ off[m] + Len(data) = Len(whole)
    BY <1>3 DEF Leaves
  <2>2. Len(data) \in 0..FILE_DATA_PER_PART
    BY <2>1, <1>1, Sizes
  <2>3. v.s.part[b].part_size = Len(data)
    BY <2>1, <1>4
  <2>4. Len(whole) - off[m] = Len(data)
    BY <2>1
  <2> QED BY <2>2, <2>3, <2>4
<1>7. Holds(v.s.part[b], whole, off[m], size)
  <2>1. size <= Len(data)
    BY <1>6, Sizes
  <2> QED BY <1>1, <2>1, <1>3, <1>4, <1>6, FilledHolds
<1>8. Holds(v.s.part[b], whole, off[m], Len(whole) - off[m])
  BY <1>6, <1>7, Zenon
<1> QED BY <1>3, <1>4, <1>5, <1>8, Zenon DEF LaidOut

LEMMA RestLeaves ==
  ASSUME NEW data \in Seq(0..MAX_WRITE), Len(data) > FILE_DATA_PER_PART, NEW whole, NEW from,
         Leaves(data, whole, from), Len(whole) \in Nat
  PROVE  /\ Rest(data) # <<>> /\ Leaves(Rest(data), whole, from + FILE_DATA_PER_PART)
         /\ from + FILE_DATA_PER_PART \in 0..Len(whole)
<1>1. /\ Len(data) \in Nat /\ FILE_DATA_PER_PART \in Nat /\ from \in Nat
      /\ from + Len(data) = Len(whole) /\ \A i \in 1..Len(data) : data[i] = whole[from + i]
  BY Sizes DEF Leaves
<1>2. PICK n \in Nat : n = Len(data) - FILE_DATA_PER_PART
  BY <1>1
<1>3. PICK rest : rest = Rest(data) /\ rest # <<>> /\ Len(rest) = n
  <2>1. Rest(data) # <<>>
    BY RestIs
  <2>2. Len(Rest(data)) = Len(data) - FILE_DATA_PER_PART
    BY <1>1, Sizes, SuffixIs DEF Rest
  <2> QED BY <2>1, <2>2, <1>2
<1>4. ASSUME NEW i \in 1..n
      PROVE  rest[i] = whole[(from + FILE_DATA_PER_PART) + i]
  <2>1. PICK j \in 1..Len(data) : j = FILE_DATA_PER_PART + i
    BY <1>1, <1>2
  <2>2. rest[i] = data[j]
    <3>1. SubSeq(data, FILE_DATA_PER_PART + 1, Len(data)) =
            [k \in 1..Len(data) - FILE_DATA_PER_PART |-> data[FILE_DATA_PER_PART + k]]
      BY <1>1
    <3> QED BY <3>1, <2>1, <1>2, <1>3 DEF Rest
  <2>3. from + j = (from + FILE_DATA_PER_PART) + i
    BY <2>1, <1>1
  <2> QED BY <2>2, <2>3, <1>1
<1>5. from + FILE_DATA_PER_PART \in Nat /\ (from + FILE_DATA_PER_PART) + n = Len(whole)
  BY <1>1, <1>2
<1>6. Leaves(rest, whole, from + FILE_DATA_PER_PART)
  BY <1>3, <1>4, <1>5 DEF Leaves
<1>7. from + FILE_DATA_PER_PART \in 0..Len(whole)
  BY <1>2, <1>5
<1> QED BY <1>3, <1>6, <1>7

LEMMA LaidFull ==
  ASSUME NEW o, NEW kept, NEW w, Round(o, kept, w), w.lba # Boot,
         Len(w.data) > FILE_DATA_PER_PART, NEW v, FillsUp(w, v), Round(o, kept, v), NEW x,
         NEW whole \in Seq(0..MAX_WRITE), LaidOut(x, whole, w)
  PROVE  LaidOut(x, whole, v)
<1>1. PICK data, b : data \in Seq(0..MAX_WRITE) /\ data = w.data /\ b = w.lba /\ ~Leads(w.s, b, 0)
  BY DEF Round
<1>2. SUFFICES ASSUME v.lba # Boot PROVE LaidOut(x, whole, v)
  BY DEF LaidOut
<1>3. PICK c \in Block : c = v.lba
  BY <1>2, Sizes DEF Round, Boot, Block
<1>4. data # <<>>
  BY <1>1, Sizes
<1>5. PICK m \in Nat :
         \E way, off : /\ Laid(w.s, way, off, m, whole) /\ way[0] = x /\ way[m] = b
                       /\ Leaves(data, whole, off[m])
  BY <1>1, <1>4 DEF LaidOut
<1>6. PICK way, off : /\ Laid(w.s, way, off, m, whole) /\ way[0] = x /\ way[m] = b
                      /\ Leaves(data, whole, off[m])
  BY <1>5
<1>7. /\ v.data = Rest(data) /\ \A e \in Block \ {b} : v.s.part[e] = w.s.part[e]
      /\ v.s.part[b].data = Filled(w.s.part[b], data)
      /\ v.s.part[b].part_size = FILE_DATA_PER_PART
      /\ v.s.part[b].next = NewPart(c) /\ v.s.part[c] = ZeroPart
  BY <1>1, <1>2, <1>3 DEF FillsUp
<1>8. Laid(v.s, way, off, m, whole)
  BY <1>1, <1>6, <1>7, WayKept
<1>9. PICK a \in Nat : a = off[m] /\ Len(whole) \in Nat
  BY <1>6 DEF Leaves
<1>10. PICK l \in 0..Len(whole) : l = a + FILE_DATA_PER_PART
  <2>1. Leaves(data, whole, a) /\ Len(data) > FILE_DATA_PER_PART
    BY <1>1, <1>6, <1>9
  <2>2. a + FILE_DATA_PER_PART \in 0..Len(whole)
    BY <1>1, <2>1, <1>9, RestLeaves, Zenon
  <2> QED BY <2>2, Zenon
<1>11. PICK n \in Nat : n = m + 1
  OBVIOUS
<1>12. n = m + 1 /\ l = a + FILE_DATA_PER_PART
  BY <1>10, <1>11
<1>13. Holds(v.s.part[b], whole, a, FILE_DATA_PER_PART)
  <2>1. FILE_DATA_PER_PART \in 0..FILE_DATA_PER_PART /\ FILE_DATA_PER_PART <= Len(data)
    BY <1>1, Sizes
  <2> QED BY <1>1, <2>1, <1>6, <1>7, <1>9, FilledHolds
<1>14. PICK road : road = [k \in 0..n |-> IF k = n THEN c ELSE way[k]]
  OBVIOUS
<1>15. PICK end : end = [k \in 0..n |-> IF k = n THEN l ELSE off[k]]
  OBVIOUS
<1>16. /\ way \in [0..m -> Block] /\ off \in [0..m -> 0..Len(whole)] /\ off[0] = 0
       /\ \A k \in 0..m - 1 : /\ v.s.part[way[k]].next = NewPart(way[k + 1])
                              /\ Holds(v.s.part[way[k]], whole, off[k], FILE_DATA_PER_PART)
                              /\ off[k + 1] = off[k] + FILE_DATA_PER_PART
  BY <1>8 DEF Laid, Joins
<1>17. /\ road[n] = c /\ end[n] = l /\ \A k \in 0..m : road[k] = way[k] /\ end[k] = off[k]
       /\ 0 \in 0..m /\ m \in 0..m
  <2>1. n \in 0..n /\ 0 \in 0..m /\ m \in 0..m /\ \A k \in 0..m : k \in 0..n /\ k # n
    BY <1>12
  <2> QED BY <2>1, <1>14, <1>15
<1>18. road \in [0..n -> Block] /\ end \in [0..n -> 0..Len(whole)]
  <2>1. \A k \in 0..n : k = n \/ k \in 0..m
    BY <1>12
  <2> QED BY <2>1, <1>14, <1>15, <1>16
<1>19. ASSUME NEW k \in 0..n - 1
       PROVE  /\ v.s.part[road[k]].next = NewPart(road[k + 1])
              /\ Holds(v.s.part[road[k]], whole, end[k], FILE_DATA_PER_PART)
              /\ end[k + 1] = end[k] + FILE_DATA_PER_PART
  <2>1. CASE k = m
    <3>1. k + 1 = n /\ road[k] = b /\ end[k] = a
      BY <2>1, <1>6, <1>9, <1>12, <1>17
    <3>2. road[k + 1] = c /\ end[k + 1] = a + FILE_DATA_PER_PART
      BY <3>1, <1>12, <1>17
    <3> QED BY <3>1, <3>2, <1>7, <1>13, Zenon
  <2>2. CASE k # m
    <3>1. k \in 0..m - 1 /\ k \in 0..m /\ k + 1 \in 0..m
      BY <2>2, <1>12
    <3> QED BY <3>1, <1>16, <1>17, Zenon
  <2> QED BY <2>1, <2>2
<1>20. Laid(v.s, road, end, n, whole) /\ road[0] = x /\ road[n] = v.lba
  <2>1. road[0] = x /\ end[0] = 0
    BY <1>6, <1>16, <1>17
  <2>2. Joins(v.s, road, n)
    BY <1>18, <1>19 DEF Joins
  <2> QED BY <2>1, <2>2, <1>3, <1>17, <1>18, <1>19 DEF Laid
<1>21. v.data # <<>> /\ Leaves(v.data, whole, end[n]) /\ v.s.part[v.lba].part_size = 0
  <2>1. Rest(data) # <<>> /\ Leaves(Rest(data), whole, a + FILE_DATA_PER_PART)
    BY <1>1, <1>6, <1>9, RestLeaves
  <2> QED BY <2>1, <1>3, <1>7, <1>12, <1>17, ZeroIs DEF ZeroPart
<1> QED BY <1>20, <1>21, Zenon DEF LaidOut

\* What holds after every round, whole being what is written.
Writing(o, p, x, whole, w) ==
    Round(o, p, w) /\ whole \in Seq(0..MAX_WRITE) /\ LaidOut(x, whole, w)

LEMMA RoundKept ==
  ASSUME NEW o, o.used \in SUBSET Block, NEW kept, NEW x, NEW whole, NEW w,
         Writing(o, kept, x, whole, w)
  PROVE  /\ Writing(o, kept, x, whole, WritePart(w))
         /\ \/ WritePart(w).data = <<>>
            \/ Len(WritePart(w).data) + 1 <= Len(w.data)
<1>1. Round(o, kept, w) /\ whole \in Seq(0..MAX_WRITE) /\ LaidOut(x, whole, w)
  BY DEF Writing
<1>2. PICK data \in Seq(0..MAX_WRITE) : data = w.data
  BY <1>1 DEF Round
<1>3. Len(data) \in Nat /\ FILE_DATA_PER_PART \in Nat
  BY Sizes
<1>4. CASE w.data = <<>>
  <2>1. WritePart(w) = w
    <3>1. ~(Len(w.data) > FILE_DATA_PER_PART)
      BY <1>3, <1>4
    <3> QED BY <1>4, <3>1, Zenon DEF WritePart
  <2> QED BY <1>4, <2>1
<1>5. CASE w.data # <<>> /\ w.lba = Boot
  <2>1. WritePart(w) = [s |-> [w.s EXCEPT !.volume = "boot"], lba |-> Boot, data |-> <<>>]
    BY <1>5 DEF WritePart
  <2>2. PICK s \in Volumes : s = w.s
    BY <1>1 DEF Round
  <2>3. [s EXCEPT !.volume = "boot"] \in Volumes /\ [s EXCEPT !.volume = "boot"].volume = "boot"
    BY DEF Volumes
  <2>4. PICK t \in Volumes : t = [s EXCEPT !.volume = "boot"] /\ t.volume = "boot"
    BY <2>3
  <2>5. PICK v : v = [s |-> t, lba |-> Boot, data |-> <<>>]
    OBVIOUS
  <2>6. Boot \in 0..BLOCKS /\ <<>> \in Seq(0..MAX_WRITE)
    BY Sizes DEF Boot
  <2>7. Round(o, kept, v) /\ v.data = <<>> /\ LaidOut(x, whole, v)
    BY <2>4, <2>5, <2>6 DEF Round, LaidOut
  <2> QED BY <2>1, <2>2, <2>4, <2>5, <2>7, <1>1 DEF Writing
<1>6. CASE w.data # <<>> /\ w.lba # Boot /\ Len(w.data) <= FILE_DATA_PER_PART
  <2>1. Round(o, kept, WritePart(w)) /\ Fills(w, WritePart(w))
    BY <1>6, <1>1, LastPart
  <2>2. Writing(o, kept, x, whole, WritePart(w))
    BY <2>1, <1>6, <1>1, LaidLast DEF Writing
  <2>3. WritePart(w).data = <<>>
    <3>1. ~(w.lba = Boot) /\ ~(Len(w.data) > FILE_DATA_PER_PART)
      BY <1>2, <1>3, <1>6
    <3>2. PICK t : WritePart(w) = [s |-> t, lba |-> w.lba, data |-> <<>>]
      BY <1>6, <3>1, Zenon DEF WritePart
    <3> QED BY <3>2
  <2> QED BY <2>3, <2>2
<1>7. CASE w.data # <<>> /\ w.lba # Boot /\ Len(w.data) > FILE_DATA_PER_PART
  <2>1. Round(o, kept, WritePart(w)) /\ FillsUp(w, WritePart(w))
    BY <1>2, <1>7, <1>1, FullPart
  <2>2. Writing(o, kept, x, whole, WritePart(w))
    BY <2>1, <1>7, <1>1, LaidFull DEF Writing
  <2>3. WritePart(w).data = Rest(data)
    BY <2>1, <1>2 DEF FillsUp
  <2>4. Len(Rest(data)) + 1 <= Len(data)
    BY <1>2, <1>7, RestIs
  <2> QED BY <1>2, <2>4, <2>2, <2>3
<1> QED BY <1>2, <1>3, <1>4, <1>5, <1>6, <1>7

\* What is left after each round, up to the m-th.
Rounds(after, w, m) ==
    after = [k \in 0..m |-> IF k = 0 THEN w ELSE WritePart(after[k - 1])]

LEMMA RoundsExist ==
  ASSUME NEW w
  PROVE  \A n \in Nat : \E after : Rounds(after, w, n)
<1> DEFINE Has == {m \in Nat : \E after : Rounds(after, w, m)}
<1>1. 0 \in Has
  <2>1. PICK g : g = [k \in 0..0 |-> w]
    OBVIOUS
  <2>2. g = [k \in 0..0 |-> IF k = 0 THEN w ELSE WritePart(g[k - 1])]
    BY <2>1
  <2> QED BY <2>2 DEF Rounds
<1>2. ASSUME NEW m \in Nat, m \in Has PROVE m + 1 \in Has
  <2>1. PICK g : Rounds(g, w, m)
    BY <1>2
  <2>2. PICK h : h = [k \in 0..m + 1 |-> IF k = 0 THEN w
                                         ELSE IF k = m + 1 THEN WritePart(g[m]) ELSE g[k]]
    OBVIOUS
  <2>3. ASSUME NEW k \in 0..m + 1
        PROVE  h[k] = IF k = 0 THEN w ELSE WritePart(h[k - 1])
    <3>1. CASE k = 0
      BY <3>1, <2>2
    <3>2. CASE k # 0
      <4>1. k - 1 \in 0..m /\ k - 1 \in 0..m + 1 /\ k - 1 # m + 1
        BY <3>2
      <4>2. h[k - 1] = g[k - 1]
        <5>1. CASE k - 1 = 0
          <6>1. g[0] = w
            BY <5>1, <4>1, <2>1 DEF Rounds
          <6> QED BY <5>1, <6>1, <4>1, <2>2
        <5>2. CASE k - 1 # 0
          BY <5>2, <4>1, <2>2
        <5> QED BY <5>1, <5>2
      <4>3. CASE k = m + 1
        <5>1. k - 1 = m
          BY <4>3
        <5>2. h[k] = WritePart(g[m])
          BY <3>2, <4>3, <2>2
        <5> QED BY <5>1, <5>2, <4>2, <3>2
      <4>4. CASE k # m + 1
        <5>1. k \in 0..m
          BY <4>4
        <5>2. g[k] = WritePart(g[k - 1])
          BY <5>1, <3>2, <2>1 DEF Rounds
        <5>3. h[k] = g[k]
          BY <5>1, <3>2, <4>4, <2>2
        <5> QED BY <5>2, <5>3, <4>2, <3>2
      <4> QED BY <4>3, <4>4
    <3> QED BY <3>1, <3>2
  <2>4. h = [k \in 0..m + 1 |-> h[k]]
    BY <2>2
  <2>5. Rounds(h, w, m + 1)
    BY <2>3, <2>4 DEF Rounds
  <2> QED BY <2>5
<1>3. \A m \in Nat : m \in Has
  <2> HIDE DEF Has
  <2> QED BY <1>1, <1>2, Induction
<1> QED BY <1>3

\* The loop ends: each round leaves less, and at the end the chain is whole or
\* the boot sector was taken.
LEMMA RoundsEnd ==
  ASSUME NEW o, o.used \in SUBSET Block, NEW kept, NEW x, NEW whole, NEW w,
         Writing(o, kept, x, whole, w),
         NEW n \in Nat, Len(w.data) = n, NEW after, Rounds(after, w, n)
  PROVE  Writing(o, kept, x, whole, after[n]) /\ after[n].data = <<>>
<1> DEFINE Left(v, k) == v.data = <<>> \/ Len(v.data) + k <= n
           Good == {k \in Nat : k \in 0..n => Writing(o, kept, x, whole, after[k]) /\ Left(after[k], k)}
<1>1. 0 \in Good
  <2>1. after[0] = w
    BY DEF Rounds
  <2> QED BY <2>1
<1>2. ASSUME NEW k \in Nat, k \in Good PROVE k + 1 \in Good
  <2>1. PICK l \in Nat : l = k + 1
    OBVIOUS
  <2>2. SUFFICES ASSUME l \in 0..n PROVE Writing(o, kept, x, whole, after[l]) /\ Left(after[l], l)
    <3> HIDE DEF Left
    <3> QED BY <2>1
  <2>3. k \in 0..n /\ l - 1 = k /\ l # 0
    BY <2>1, <2>2
  <2>4. PICK v : v = after[k] /\ Writing(o, kept, x, whole, v) /\ Left(v, k)
    BY <1>2, <2>3
  <2>5. PICK u : u = WritePart(v) /\ Writing(o, kept, x, whole, u) /\ (u.data = <<>> \/ Len(u.data) + 1 <= Len(v.data))
    BY <2>4, RoundKept
  <2>6. after[l] = u
    <3>1. after[l] = WritePart(after[l - 1])
      BY <2>2, <2>3 DEF Rounds
    <3> QED BY <2>3, <2>4, <2>5, <3>1
  <2>7. PICK y, z \in Seq(0..MAX_WRITE) : y = u.data /\ z = v.data
    BY <2>4, <2>5 DEF Writing, Round
  <2>8. Left(u, l)
    <3>1. y = <<>> \/ Len(y) + 1 <= Len(z)
      BY <2>5, <2>7
    <3>2. z = <<>> \/ Len(z) + k <= n
      BY <2>4, <2>7
    <3>3. Len(y) \in Nat /\ Len(z) \in Nat /\ (z = <<>> => Len(z) = 0)
      OBVIOUS
    <3>4. y = <<>> \/ Len(y) + l <= n
      BY <3>1, <3>2, <3>3, <2>1
    <3> QED BY <3>4, <2>7
  <2> QED BY <2>5, <2>6, <2>8
<1>3. n \in Good
  <2> HIDE DEF Good
  <2> QED BY <1>1, <1>2, Induction
<1>4. Writing(o, kept, x, whole, after[n]) /\ Len(after[n].data) \in Nat
      /\ (after[n].data = <<>> \/ Len(after[n].data) + n <= n)
  BY <1>3 DEF Writing, Round
<1>5. PICK data \in Seq(0..MAX_WRITE) : data = after[n].data
  BY <1>4 DEF Writing, Round
<1>6. Len(data) = 0 => data = <<>>
  OBVIOUS
<1> QED BY <1>4, <1>5, <1>6

\* The parts from x on hold it all.
InParts(s, x, whole) ==
    \E m \in Nat : \E way, off :
        /\ Laid(s, way, off, m, whole) /\ way[0] = x /\ ~Leads(s, way[m], 0)
        /\ Holds(s.part[way[m]], whole, off[m], Len(whole) - off[m])

\* The write has ended, with all written or at the boot sector.
AllWritten(o, p, x, whole, t) ==
    /\ t \in Volumes
    /\ \/ t.volume = "boot"
       \/ /\ t.volume = "sound" /\ Shape(t) /\ Lost(t) \subseteq Lost(o)
          /\ \A c \in o.used : t.part[c] = p[c]
          /\ InParts(t, x, whole)

LEMMA WritePartsKept ==
  ASSUME NEW o, o.used \in SUBSET Block, NEW kept, NEW s, NEW lba, NEW data,
         NEW x, NEW whole, Writing(o, kept, x, whole, [s |-> s, lba |-> lba, data |-> data])
  PROVE  AllWritten(o, kept, x, whole, WriteParts(s, lba, data))
<1>1. PICK w : w = [s |-> s, lba |-> lba, data |-> data] /\ Writing(o, kept, x, whole, w)
  OBVIOUS
<1>2. PICK n \in Nat : n = Len(data)
  BY DEF Writing, Round
<1>3. PICK after : after = CHOOSE g : Rounds(g, w, n)
  OBVIOUS
<1>4. Rounds(after, w, n)
  BY <1>3, RoundsExist
<1>5. WriteParts(s, lba, data) = after[n].s
  BY <1>1, <1>2, <1>3, Zenon DEF WriteParts, Rounds
<1>6. Writing(o, kept, x, whole, after[n]) /\ after[n].data = <<>>
  BY <1>1, <1>2, <1>4, RoundsEnd
<1>7. Round(o, kept, after[n]) /\ (after[n].lba # Boot => InParts(after[n].s, x, whole))
  BY <1>6 DEF Writing, LaidOut, InParts, Round
<1> QED BY <1>5, <1>6, <1>7 DEF Round, AllWritten

\* The open file has got its first part, and what was written is in it.
FirstPart(s, e, data, t) ==
    \E path \in Path, x \in 0..BLOCKS :
        /\ PathTo(s, e[1], EntryAt(s, e).name, path)
        /\ Entered(s, t, path, EntryAt(s, e).name, NewPart(x))
        /\ EntryAt(t, e).addr = NewPart(x) /\ DataIn(t, NewPart(x)) = data

\* Before the first round.
LEMMA FirstLaid ==
  ASSUME NEW t, NEW x \in 0..BLOCKS, NEW data \in Seq(0..MAX_WRITE), NEW w,
         w = [s |-> t, lba |-> x, data |-> data], x # Boot => t.part[x] = ZeroPart
  PROVE  LaidOut(x, data, w)
<1>1. SUFFICES ASSUME x # Boot PROVE LaidOut(x, data, w)
  BY DEF LaidOut
<1>2. x \in Block /\ t.part[x].part_size = 0
  BY <1>1, Sizes DEF Block, Boot, ZeroPart
<1>3. PICK way, off : way = [k \in 0..0 |-> x] /\ off = [k \in 0..0 |-> 0]
  OBVIOUS
<1>4. way[0] = x /\ off[0] = 0 /\ Len(data) \in Nat
  BY <1>3
<1>5. Laid(t, way, off, 0, data)
  <2>1. way \in [0..0 -> Block] /\ off \in [0..0 -> 0..Len(data)]
    BY <1>2, <1>3, <1>4
  <2>2. \A k \in 0..0 - 1 : FALSE
    OBVIOUS
  <2> QED BY <1>4, <2>1, <2>2 DEF Laid, Joins
<1>6. \/ data # <<>> /\ Leaves(data, data, off[0])
      \/ data = <<>> /\ Holds(t.part[x], data, off[0], Len(data) - off[0])
  <2>1. CASE data # <<>>
    <3>1. 0 + Len(data) = Len(data) /\ \A i \in 1..Len(data) : 0 + i = i
      OBVIOUS
    <3> QED BY <2>1, <3>1, <1>4 DEF Leaves
  <2>2. CASE data = <<>>
    <3>1. Len(data) - off[0] = 0 /\ 0 \in 0..FILE_DATA_PER_PART
      BY <2>2, <1>4, Sizes
    <3>2. \A i \in 1..0 : FALSE
      OBVIOUS
    <3>3. Holds(t.part[x], data, off[0], 0)
      BY <3>1, <3>2, <1>2 DEF Holds
    <3> QED BY <2>2, <3>1, <3>3
  <2> QED BY <2>1, <2>2
<1>7. 0 \in Nat /\ w.s = t /\ w.lba = x /\ w.data = data
  OBVIOUS
<1> QED BY <1>2, <1>4, <1>5, <1>6, <1>7, Zenon DEF LaidOut

LEMMA InPartsIs ==
  ASSUME NEW s \in Volumes, Leading(s), OneWay(s), NEW d \in Block, NEW j \in Slot,
         Leads(s, d, j), ~IsDir(Pointer(s, d, j)), NEW whole \in Seq(0..MAX_WRITE),
         InParts(s, Target(s, d, j), whole)
  PROVE  DataIn(s, Pointer(s, d, j)) = whole
<1>1. PICK m \in Nat :
         \E way, off :
            /\ Laid(s, way, off, m, whole) /\ way[0] = Target(s, d, j) /\ ~Leads(s, way[m], 0)
            /\ Holds(s.part[way[m]], whole, off[m], Len(whole) - off[m])
  BY DEF InParts
<1>2. PICK way, off :
         /\ Laid(s, way, off, m, whole) /\ way[0] = Target(s, d, j) /\ ~Leads(s, way[m], 0)
         /\ Holds(s.part[way[m]], whole, off[m], Len(whole) - off[m])
  BY <1>1
<1>3. PICK x \in Block : x = Target(s, d, j)
  BY <1>2 DEF Laid, Joins
<1> QED BY <1>2, <1>3, Sizes, LaidIs

LEMMA WrittenKept ==
  ASSUME NEW s \in Volumes, Shape(s), s.volume = "sound", NEW e, Opened(s, e),
         NEW data \in Seq(0..MAX_WRITE)
  PROVE  /\ Written(s, e, data) \in Volumes
         /\ \/ Written(s, e, data).volume = "boot"
            \/ /\ Written(s, e, data).volume = "sound" /\ Shape(Written(s, e, data))
               /\ Lost(Written(s, e, data)) \subseteq Lost(s)
               /\ FirstPart(s, e, data, Written(s, e, data))
<1>1. PICK b \in Dirs(s) : /\ b = e[1] /\ e[2] \in PresentIn(s.part[b])
                           /\ ~IsDir(EntryAt(s, e).addr) /\ ~Linked(EntryAt(s, e).addr)
  BY DEF Opened
<1>2. PICK i \in PresentIn(s.part[b]) : i = e[2]
  BY <1>1
<1>3. /\ i \in Slot /\ i # 0 /\ i \in Port /\ b \in Block /\ b \in s.used
      /\ DirShape(s.part[b]) /\ s.part[b] \in PartType
  BY PresentFinite, DirsAre, Sizes DEF Slot, Port, Volumes
<1>4. PICK addr : /\ addr = EntryAt(s, e).addr /\ addr = s.part[b].entry[i].addr
                  /\ addr = Pointer(s, b, i) /\ ~Linked(addr)
  BY <1>1, <1>2, <1>3 DEF EntryAt, Pointer
<1>5. PICK x, r : x = Balloc(s).lba /\ r = Balloc(s).s
  OBVIOUS
<1>6. Allocated(s, x, r)
  BY <1>5, BallocIs
<1>7. /\ r \in Volumes /\ x \in 0..BLOCKS /\ r.part = s.part /\ r.volume = s.volume
      /\ x # Boot => x \in Block \ s.used /\ r.used = s.used \cup {x}
  BY <1>6 DEF Allocated
<1>8. PICK p : p = s.part[b] /\ p \in PartType
  BY <1>3
<1>9. PICK q : q = [p EXCEPT !.entry[i].addr = NewPart(x)]
  OBVIOUS
<1>10. NewPart(x) \in AddrType /\ NewPart(x).lba = x /\ Linked(NewPart(x))
  BY <1>7, NewPartIs
<1>11. q \in PartType
  <2>1. PICK a \in AddrType : a = NewPart(x)
    BY <1>10
  <2>2. PICK g \in [Slot -> EntryType] : g = p.entry
    BY <1>8 DEF PartType
  <2>3. PICK n : n = [g EXCEPT ![i].addr = a]
    OBVIOUS
  <2>4. n \in [Slot -> EntryType]
    BY <2>2, <2>3, <1>3 DEF EntryType
  <2>5. q = [p EXCEPT !.entry = n]
    BY <1>9, <2>1, <2>2, <2>3
  <2> QED BY <1>8, <2>4, <2>5 DEF PartType
<1>12. /\ q.next = p.next /\ q.part_size = p.part_size /\ q.entry[i].addr = NewPart(x)
       /\ \A j \in Slot : q.entry[j].name = p.entry[j].name
       /\ \A j \in Slot : j # i => q.entry[j] = p.entry[j]
  BY <1>3, <1>8, <1>9 DEF PartType, EntryType
<1>13. Present(NewPart(x))
  BY <1>10 DEF Linked
<1>14. PresentIn(q) = PresentIn(p)
  BY <1>2, <1>8, <1>12, <1>13 DEF PresentIn
<1>15. DirShape(q)
  <2>1. \A j \in PresentIn(q) : j \in Slot
    BY PresentFinite
  <2> QED BY <1>3, <1>8, <1>10, <1>12, <1>14, <2>1 DEF DirShape
<1>16. PICK v \in {"sound", "boot"} : v = IF x = Boot THEN "boot" ELSE "sound"
  OBVIOUS
<1>17. PICK t : t = [part |-> [s.part EXCEPT ![b] = q], used |-> r.used, volume |-> v]
  OBVIOUS
<1>18. Written(s, e, data) = WriteParts(t, x, data)
  <2>1. Written(s, e, data) =
          WriteParts([r EXCEPT !.part[e[1]].entry[e[2]].addr = NewPart(x),
                               !.volume = IF x = Boot THEN "boot" ELSE @], x, data)
    BY <1>4, <1>5, Zenon DEF Written, NewPart
  <2>2. PICK y, u, z : r = [part |-> y, used |-> u, volume |-> z]
    BY <1>7 DEF Volumes
  <2>3. y = s.part /\ u = r.used /\ z = "sound" /\ y[b] = p
    BY <2>2, <1>7, <1>8
  <2>4. PICK a : a = NewPart(x)
    OBVIOUS
  <2>5. PICK n : n = [y EXCEPT ![b] = [y[b] EXCEPT !.entry[i].addr = a]]
    OBVIOUS
  <2>6. [r EXCEPT !.part[b].entry[i].addr = a] = [part |-> n, used |-> u, volume |-> z]
    BY <2>2, <2>5, AddrChanged
  <2>7. [[part |-> n, used |-> u, volume |-> z] EXCEPT
           !.volume = IF x = Boot THEN "boot" ELSE @] =
        [part |-> n, used |-> u, volume |-> v]
    BY <2>3, <1>16
  <2>8. [r EXCEPT !.part[b].entry[i].addr = a, !.volume = IF x = Boot THEN "boot" ELSE @] =
        [part |-> n, used |-> u, volume |-> v]
    BY <2>6, <2>7
  <2>9. t = [part |-> n, used |-> u, volume |-> v]
    BY <2>3, <2>4, <2>5, <1>9, <1>17
  <2> QED BY <1>1, <1>2, <2>1, <2>4, <2>8, <2>9
<1>19. /\ t.part = [s.part EXCEPT ![b] = q] /\ t.used = r.used /\ t.volume = v
       /\ s.part \in [Block -> PartType] /\ t.part[b] = q
       /\ \A c \in Block \ {b} : t.part[c] = s.part[c]
  BY <1>3, <1>17 DEF Volumes
<1>20. t \in Volumes
  BY <1>7, <1>11, <1>16, <1>17, <1>19 DEF Volumes
<1>21. x # Boot => /\ Shape(t) /\ x \in t.used \ Dirs(t)
                   /\ x \in Chained(t) /\ Lost(t) \subseteq Lost(s)
  <2>1. SUFFICES ASSUME x # Boot
                 PROVE  /\ Shape(t) /\ x \in t.used \ Dirs(t)
                        /\ x \in Chained(t) /\ Lost(t) \subseteq Lost(s)
    OBVIOUS
  <2>2. x \in t.used \ s.used /\ s.used \subseteq t.used
    BY <2>1, <1>7, <1>19
  <2>3. ~Leads(s, b, i) /\ Pointer(t, b, i) = NewPart(x)
    BY <1>3, <1>4, <1>12, <1>19 DEF Leads, Pointer
  <2>4. ASSUME NEW c \in Block, NEW l \in Port, ~(c = b /\ l = i)
        PROVE  Pointer(t, c, l) = Pointer(s, c, l)
    <3>1. CASE c = b
      <4>1. l = 0 \/ l \in Slot
        BY Sizes DEF Slot, Port
      <4> QED BY <3>1, <4>1, <2>4, <1>8, <1>12, <1>19 DEF Pointer
    <3>2. CASE c # b
      BY <3>2, <1>19 DEF Pointer
    <3> QED BY <3>1, <3>2
  <2>5. Grown(s, t, b, i, x)
    BY <2>1, <2>2, <2>3, <2>4, <1>7, <1>19, <1>20 DEF Grown
  <2>6. Shape(t) /\ Dirs(t) = Dirs(s)
    BY <1>3, <1>15, <1>19, <2>5, GrownShape
  <2>7. x \in t.used \ Dirs(t)
    BY <2>2, <2>5, <2>6, NewBlock
  <2>8. Lost(t) \subseteq Lost(s) /\ t.used \ s.used \subseteq Chained(t)
    BY <1>3, <2>5, <2>6, GrownChained
  <2> QED BY <2>2, <2>6, <2>7, <2>8
<1>22. PICK w : w = [s |-> t, lba |-> x, data |-> data]
  OBVIOUS
<1>23. x # Boot => x \notin s.used /\ s.used \subseteq t.used /\ ~Leads(t, x, 0)
  <2>1. SUFFICES ASSUME x # Boot
                 PROVE  x \notin s.used /\ s.used \subseteq t.used /\ ~Leads(t, x, 0)
    OBVIOUS
  <2>2. x \in Block \ s.used /\ x # b /\ s.used \subseteq t.used
    BY <2>1, <1>3, <1>7, <1>19
  <2>3. t.part[x] = ZeroPart
    BY <2>2, <1>19 DEF Shape, Blank
  <2> QED BY <2>2, <2>3, ZeroIs DEF Leads, Pointer
<1>24. Round(s, t.part, w)
  BY <1>7, <1>16, <1>19, <1>20, <1>21, <1>22, <1>23 DEF Round
<1>25. x # Boot => t.part[x] = ZeroPart
  <2>1. SUFFICES ASSUME x # Boot PROVE t.part[x] = ZeroPart
    OBVIOUS
  <2>2. x \in Block \ s.used /\ x # b
    BY <2>1, <1>3, <1>7
  <2> QED BY <2>2, <1>19 DEF Shape, Blank
<1>26. Writing(s, t.part, x, data, w)
  BY <1>7, <1>22, <1>24, <1>25, FirstLaid DEF Writing
<1>27. PICK u : u = Written(s, e, data)
  OBVIOUS
<1>28. s.used \in SUBSET Block
  BY DEF Volumes
<1>29. /\ u \in Volumes
       /\ \/ u.volume = "boot"
          \/ /\ u.volume = "sound" /\ Shape(u) /\ Lost(u) \subseteq Lost(s)
             /\ \A c \in s.used : u.part[c] = t.part[c]
             /\ InParts(u, x, data)
  <2>1. Writing(s, t.part, x, data, [s |-> t, lba |-> x, data |-> data])
    BY <1>22, <1>26
  <2>2. u = WriteParts(t, x, data)
    BY <1>18, <1>27
  <2>3. AllWritten(s, t.part, x, data, WriteParts(t, x, data))
    BY <2>1, <1>28, WritePartsKept
  <2> QED BY <2>2, <2>3 DEF AllWritten
<1>30. ASSUME \A c \in s.used : u.part[c] = t.part[c]
       PROVE  Edited(s, u, b, i) /\ u.part[b].entry[i] = q.entry[i]
  <2>1. u.part[b] = q /\ \A c \in s.used \ {b} : u.part[c] = s.part[c]
    BY <1>3, <1>19, <1>28, <1>30
  <2>2. \A j \in Slot : j # i => u.part[b].entry[j] = s.part[b].entry[j]
    BY <2>1, <1>8, <1>12
  <2>3. ASSUME NEW d \in Dirs(s), NEW j \in Slot, Leads(s, d, j), ~IsDir(Pointer(s, d, j)),
               NEW c \in ToSet(Chain(s, Target(s, d, j)))
        PROVE  u.part[c] = s.part[c]
    <3>1. d \in Block /\ Leading(s)
      BY <2>3, SubTarget
    <3>2. c \in s.used /\ c # b
      BY <2>3, <3>1, Owned, FileChain
    <3> QED BY <3>2, <2>1
  <2>4. \A d \in Dirs(s) : d # b => u.part[d] = s.part[d]
    BY <2>1, DirsAre
  <2>5. Edited(s, u, b, i)
    BY <2>2, <2>3, <2>4, <1>29 DEF Edited
  <2> QED BY <2>1, <2>5
<1>31. PICK path \in Path : PathTo(s, b, EntryAt(s, e).name, path)
  BY <1>1 DEF Opened
<1>32. PICK name : name = EntryAt(s, e).name /\ name = s.part[b].entry[i].name
  BY <1>1, <1>2 DEF EntryAt
<1>33. \A j \in PresentIn(s.part[b]) : s.part[b].entry[j].name = name <=> j = i
  BY <1>3, <1>32 DEF DirShape
<1>34. ASSUME \A c \in s.used : u.part[c] = t.part[c]
       PROVE  Entered(s, u, path, name, NewPart(x))
  <2>1. Edited(s, u, b, i) /\ u.part[b].entry[i] = q.entry[i]
    BY <1>30, <1>34
  <2>2. u.part[b].entry[i].addr = NewPart(x) /\ u.part[b].entry[i].name = name
    BY <2>1, <1>3, <1>8, <1>12, <1>32
  <2> QED BY <2>1, <2>2, <1>3, <1>31, <1>32, <1>33, Zenon DEF Entered
<1>35. ASSUME \A c \in s.used : u.part[c] = t.part[c], Shape(u), InParts(u, x, data)
       PROVE  EntryAt(u, e).addr = NewPart(x) /\ DataIn(u, NewPart(x)) = data
  <2>1. u.part[b].entry[i] = q.entry[i]
    BY <1>30, <1>35
  <2>2. EntryAt(u, e).addr = NewPart(x) /\ Pointer(u, b, i) = NewPart(x)
    BY <2>1, <1>1, <1>2, <1>3, <1>12 DEF EntryAt, Pointer
  <2>3. Leads(u, b, i) /\ ~IsDir(Pointer(u, b, i)) /\ Target(u, b, i) = x
    BY <2>2, <1>7, NewPartIs DEF Leads, Target
  <2>4. DataIn(u, Pointer(u, b, i)) = data
    BY <2>3, <1>3, <1>29, <1>35, InPartsIs DEF Shape
  <2> QED BY <2>2, <2>4
<1>36. ASSUME \A c \in s.used : u.part[c] = t.part[c], Shape(u), InParts(u, x, data)
       PROVE  FirstPart(s, e, data, u)
  <2>1. Entered(s, u, path, name, NewPart(x))
    BY <1>34, <1>36
  <2>2. name = EntryAt(s, e).name /\ PathTo(s, e[1], name, path) /\ x \in 0..BLOCKS
    BY <1>1, <1>7, <1>31, <1>32
  <2>3. path \in Path
    BY <1>31
  <2>4. EntryAt(u, e).addr = NewPart(x) /\ DataIn(u, NewPart(x)) = data
    BY <1>36, <1>35
  <2> QED BY <2>1, <2>2, <2>3, <2>4, Zenon DEF FirstPart
<1>37. /\ u \in Volumes
       /\ \/ u.volume = "boot"
          \/ /\ u.volume = "sound" /\ Shape(u) /\ Lost(u) \subseteq Lost(s)
             /\ FirstPart(s, e, data, u)
  BY <1>29, <1>36
<1> QED BY <1>27, <1>37

-----------------------------------------------------------------------------
(* The invariant.                                                          *)

\* A volume without addresses that lead anywhere.
LEMMA FreshShape ==
  ASSUME NEW s, s = [part |-> FreshPart, used |-> {Root}, volume |-> "sound"]
  PROVE  s \in Volumes /\ Shape(s)
<1>1. /\ s.part = FreshPart /\ s.used = {Root} /\ s.volume = "sound" /\ Root \in Block
  BY Sizes DEF Root, Block
<1>2. s \in Volumes
  BY <1>1, ZeroIs DEF Volumes, FreshPart
<1>3. \A b \in Block : s.part[b] = ZeroPart
  BY <1>1 DEF FreshPart
<1>4. ASSUME NEW b \in Block, NEW k \in Port PROVE ~Leads(s, b, k)
  <2>1. k = 0 \/ k \in Slot
    BY Sizes DEF Slot, Port
  <2>2. Pointer(s, b, k) = NoAddr
    <3>1. ZeroPart.next = NoAddr
      BY DEF ZeroPart
    <3> QED BY <2>1, <3>1, <1>3, ZeroIs DEF Pointer
  <2> QED BY <2>2 DEF Leads, Linked, Present, NoAddr, Addr
<1>5. \A i \in Slot : i \in Port
  BY Sizes DEF Slot, Port
<1>6. Dirs(s) = {Root}
  BY <1>1, <1>4, <1>5 DEF Dirs
<1>7. Blank(s) /\ Leading(s) /\ OneWay(s) /\ Root \in s.used
  BY <1>1, <1>3, <1>4 DEF Blank, Leading, OneWay
<1>8. Shaped(s)
  <2>1. \A b \in Block : DirShape(s.part[b]) /\ FileShape(s.part[b])
    BY <1>3, ZeroIs
  <2> QED BY <1>1, <1>6, <2>1 DEF Shaped
<1> QED BY <1>2, <1>7, <1>8 DEF Shape

\* A part with one entry, the first.
OneEntry(name, addr) == [ZeroPart EXCEPT !.part_size = 1,
                                         !.entry[1] = [name |-> name, addr |-> addr]]

LEMMA OneEntryIs ==
  ASSUME NEW name \in Name, NEW addr \in AddrType, Present(addr),
         addr.lba # Boot => Linked(addr)
  PROVE  /\ OneEntry(name, addr) \in PartType /\ DirShape(OneEntry(name, addr))
         /\ OneEntry(name, addr).next = NoAddr /\ OneEntry(name, addr).entry[1].addr = addr
         /\ \A i \in Slot \ {1} : OneEntry(name, addr).entry[i].addr = NoAddr
<1>1. 1 \in Slot /\ 1 \in 0..SizeMax
  <2>1. PICK m \in 1..SizeMax : m = DIR_ENTRIES_PER_PART
    BY Sizes
  <2>2. 1 \in 1..m /\ 1 \in 0..SizeMax
    BY <2>1, Sizes
  <2> QED BY <2>1, <2>2 DEF Slot
<1>2. PICK e : e = [name |-> name, addr |-> addr] /\ e \in EntryType
  <2>1. [name |-> name, addr |-> addr] \in EntryType
    BY DEF EntryType
  <2> QED BY <2>1
<1>3. PICK p : p = OneEntry(name, addr) /\ p = [ZeroPart EXCEPT !.part_size = 1, !.entry[1] = e]
  BY <1>2 DEF OneEntry
<1>4. p \in PartType
  <2>1. PICK x : x = [ZeroPart.entry EXCEPT ![1] = e]
    OBVIOUS
  <2>2. x \in [Slot -> EntryType]
    BY <2>1, <1>1, <1>2, ZeroIs DEF PartType
  <2>3. p = [part_size |-> 1, entry |-> x, data |-> ZeroPart.data, next |-> ZeroPart.next]
    BY <2>1, <1>3, ZeroIs DEF PartType
  <2> QED BY <2>2, <2>3, <1>1, ZeroIs DEF PartType
<1>5. /\ p.next = ZeroPart.next /\ p.part_size = 1 /\ p.entry[1] = e
      /\ \A i \in Slot \ {1} : p.entry[i] = ZeroPart.entry[i]
  BY <1>1, <1>3, ZeroIs DEF PartType
<1>6. /\ p.next = NoAddr /\ p.entry[1].addr = addr
      /\ \A i \in Slot \ {1} : p.entry[i].addr = NoAddr
  <2>1. ZeroPart.next = NoAddr
    BY DEF ZeroPart
  <2> QED BY <1>2, <1>5, <2>1, ZeroIs
<1>7. ~Present(NoAddr) /\ ~Linked(NoAddr)
  BY DEF Linked, Present, NoAddr, Addr
<1>8. PresentIn(p) = {1}
  BY <1>1, <1>6, <1>7 DEF PresentIn
<1>9. Cardinality({1}) = 1
  BY FS_Singleton
<1>10. DirShape(p)
  BY <1>5, <1>6, <1>7, <1>8, <1>9 DEF DirShape
<1> QED BY <1>3, <1>4, <1>6, <1>10

\* The host has made a directory with a file in it.
LEMMA HostShape ==
  ASSUME NEW s, BLOCKS > 1, NEW d \in Name, NEW n \in Name,
         s = [part |-> [FreshPart EXCEPT
                           ![Root].part_size = 1,
                           ![Root].entry[1] = [name |-> d, addr |->
                                               Addr(2, {"PRESENT", "IS_DIR", "NOT_EMPTY"})],
                           ![2].part_size = 1,
                           ![2].entry[1] = [name |-> n, addr |-> NewAddr("file")]],
              used |-> {Root, 2}, volume |-> "sound"]
  PROVE  s \in Volumes /\ Shape(s)
<1>1. Root \in Block /\ 2 \in Block /\ Root # 2 /\ 2 # Boot
  <2>1. BLOCKS \in Nat /\ BLOCKS > 1
    BY Sizes
  <2>2. 1 \in 1..BLOCKS /\ 2 \in 1..BLOCKS
    BY <2>1
  <2> QED BY <2>2 DEF Root, Block, Boot
<1>2. PICK a \in AddrType : a = Addr(2, {"PRESENT", "IS_DIR", "NOT_EMPTY"})
  <2>1. 2 \in 0..BLOCKS
    BY Sizes
  <2>2. Addr(2, {"PRESENT", "IS_DIR", "NOT_EMPTY"}) \in AddrType
    BY <2>1 DEF Addr, AddrType, Flags
  <2> QED BY <2>2
<1>3. /\ a.lba = 2 /\ Present(a) /\ Linked(a) /\ IsDir(a)
  BY <1>2 DEF Addr, Linked, Present, IsDir
<1>4. PICK c \in AddrType : c = NewAddr("file") /\ Present(c) /\ ~Linked(c) /\ c.lba = Boot
  BY NewAddrIs
<1>5. PICK p \in PartType :
         /\ p = OneEntry(d, a) /\ DirShape(p) /\ p.next = NoAddr /\ p.entry[1].addr = a
         /\ \A i \in Slot \ {1} : p.entry[i].addr = NoAddr
  BY <1>3, OneEntryIs
<1>6. PICK q \in PartType :
         /\ q = OneEntry(n, c) /\ DirShape(q) /\ q.next = NoAddr /\ q.entry[1].addr = c
         /\ \A i \in Slot \ {1} : q.entry[i].addr = NoAddr
  BY <1>4, OneEntryIs
<1>7. /\ s.used = {Root, 2} /\ s.volume = "sound" /\ s.part \in [Block -> PartType]
      /\ s.part[Root] = p /\ s.part[2] = q
      /\ \A b \in Block \ {Root, 2} : s.part[b] = ZeroPart
  <2>1. PICK x, y : x = [name |-> d, addr |-> a] /\ y = [name |-> n, addr |-> c]
    OBVIOUS
  <2>2. PICK g \in [Block -> PartType] : g = FreshPart /\ \A b \in Block : g[b] = ZeroPart
    BY ZeroIs DEF FreshPart
  <2>3. PICK g1 : g1 = [g EXCEPT ![Root].part_size = 1]
    OBVIOUS
  <2>4. PICK g2 : g2 = [g1 EXCEPT ![Root].entry[1] = x]
    OBVIOUS
  <2>5. PICK g3 : g3 = [g2 EXCEPT ![2].part_size = 1]
    OBVIOUS
  <2>6. PICK g4 : g4 = [g3 EXCEPT ![2].entry[1] = y]
    OBVIOUS
  <2>7. s.part = g4
    BY <2>1, <2>2, <2>3, <2>4, <2>5, <2>6, <1>2, <1>4
  <2>8. /\ DOMAIN g1 = Block /\ g1[Root] = [ZeroPart EXCEPT !.part_size = 1]
        /\ g1 = [b \in Block |-> g1[b]] /\ \A b \in Block \ {Root} : g1[b] = ZeroPart
    BY <2>2, <2>3, <1>1
  <2>9. /\ g2 = [b \in Block |-> g2[b]] /\ \A b \in Block \ {Root} : g2[b] = ZeroPart
        /\ g2[Root] = [[ZeroPart EXCEPT !.part_size = 1] EXCEPT !.entry[1] = x]
    BY <2>4, <2>8, <1>1
  <2>10. /\ g3 = [b \in Block |-> g3[b]] /\ \A b \in Block \ {Root, 2} : g3[b] = ZeroPart
         /\ g3[2] = [ZeroPart EXCEPT !.part_size = 1] /\ g3[Root] = g2[Root]
    BY <2>5, <2>9, <1>1
  <2>11. /\ g4 = [b \in Block |-> g4[b]] /\ \A b \in Block \ {Root, 2} : g4[b] = ZeroPart
         /\ g4[2] = [[ZeroPart EXCEPT !.part_size = 1] EXCEPT !.entry[1] = y]
         /\ g4[Root] = g2[Root]
    BY <2>6, <2>10, <1>1
  <2>12. g4[Root] = p /\ g4[2] = q
    BY <2>1, <2>9, <2>11, <1>5, <1>6 DEF OneEntry
  <2>13. g4 \in [Block -> PartType]
    BY <2>11, <2>12, <1>1, ZeroIs
  <2> QED BY <2>7, <2>11, <2>12, <2>13
<1>8. s \in Volumes
  <2>1. s = [part |-> s.part, used |-> s.used, volume |-> s.volume]
    OBVIOUS
  <2> QED BY <2>1, <1>1, <1>7 DEF Volumes
<1>9. 1 \in Slot /\ \A i \in Slot : i \in Port /\ i # 0
  BY Sizes DEF Slot, Port
<1>10. ~Linked(NoAddr) /\ NoAddr = ZeroPart.next
  BY DEF Linked, Present, NoAddr, Addr, ZeroPart
<1>11. ASSUME NEW b \in Block, NEW k \in Port
       PROVE  /\ Leads(s, b, k) => b = Root /\ k = 1
              /\ b = Root /\ k = 1 => Pointer(s, b, k) = a
  <2>1. k = 0 \/ (k # 0 /\ k \in Slot)
    BY Sizes DEF Slot, Port
  <2>2. CASE b = Root
    <3>1. k # 1 => Pointer(s, b, k) = NoAddr
      BY <2>1, <2>2, <1>5, <1>7, Zenon DEF Pointer
    <3>2. k = 1 => Pointer(s, b, k) = a
      <4>1. Pointer(s, b, 1) = s.part[b].entry[1].addr
        BY DEF Pointer
      <4> QED BY <4>1, <2>2, <1>5, <1>7
    <3> QED BY <2>2, <3>1, <3>2, <1>10 DEF Leads
  <2>3. CASE b = 2
    <3>1. k # 1 => Pointer(s, b, k) = NoAddr
      BY <2>1, <2>3, <1>6, <1>7, Zenon DEF Pointer
    <3>2. k = 1 => Pointer(s, b, k) = c
      <4>1. Pointer(s, b, 1) = s.part[b].entry[1].addr
        BY DEF Pointer
      <4> QED BY <4>1, <2>3, <1>6, <1>7
    <3> QED BY <2>3, <3>1, <3>2, <1>1, <1>4, <1>10 DEF Leads
  <2>4. CASE b # Root /\ b # 2
    <3>1. Pointer(s, b, k) = NoAddr
      BY <2>1, <2>4, <1>7, <1>10, ZeroIs DEF Pointer
    <3> QED BY <2>4, <3>1, <1>10 DEF Leads
  <2> QED BY <2>2, <2>3, <2>4
<1>12. Leads(s, Root, 1) /\ Pointer(s, Root, 1) = a /\ Target(s, Root, 1) = 2
  BY <1>1, <1>3, <1>9, <1>11 DEF Leads, Target
<1>13. Dirs(s) = {Root, 2}
  <2>1. \A i \in Slot : Leads(s, Root, i) => i = 1
    BY <1>1, <1>9, <1>11
  <2>2. {i \in Slot : Leads(s, Root, i) /\ IsDir(Pointer(s, Root, i))} = {1}
    BY <2>1, <1>3, <1>9, <1>12
  <2> QED BY <2>2, <1>12 DEF Dirs
<1>14. Blank(s) /\ Root \in s.used
  <2>1. ASSUME NEW b \in Block \ s.used PROVE s.part[b] = ZeroPart
    BY <1>7
  <2>2. Root \in s.used
    BY <1>7
  <2> QED BY <2>1, <2>2, Zenon DEF Blank
<1>15. Leading(s) /\ OneWay(s)
  <2>1. \A b \in Block, k \in Port : Leads(s, b, k) => b = Root /\ k = 1 /\ Target(s, b, k) = 2
    BY <1>11, <1>12
  <2>2. 2 \in s.used \ {Root}
    BY <1>1, <1>7
  <2>3. Leading(s)
    BY <2>1, <2>2 DEF Leading
  <2>4. OneWay(s)
    BY <2>1 DEF OneWay
  <2> QED BY <2>3, <2>4
<1>16. Shaped(s)
  <2>1. \A b \in Dirs(s) : DirShape(s.part[b])
    BY <1>5, <1>6, <1>7, <1>13
  <2>2. \A b \in Block \ Dirs(s) : FileShape(s.part[b])
    BY <1>7, <1>13, ZeroIs
  <2>3. \A b \in Dirs(s) \ {Root}, i \in Slot : ~Leads(s, b, i)
    BY <1>1, <1>9, <1>11, <1>13
  <2> QED BY <2>1, <2>2, <2>3 DEF Shaped
<1> QED BY <1>8, <1>14, <1>15, <1>16 DEF Shape

LEMMA InitInv == Init => Inv
<1>1. SUFFICES ASSUME Init PROVE Inv
  OBVIOUS
<1>2. volume = "sound" /\ f = NoFile
  BY <1>1 DEF Init
<1>3. CASE part = FreshPart /\ used = {Root}
  <2>1. PICK s : s = [part |-> FreshPart, used |-> {Root}, volume |-> "sound"]
    OBVIOUS
  <2>2. s \in Volumes /\ Shape(s)
    BY <2>1, FreshShape
  <2>3. state = s
    BY <1>2, <1>3, <2>1 DEF state
  <2> QED BY <1>2, <2>2, <2>3 DEF Inv
<1>4. CASE ~(part = FreshPart /\ used = {Root})
  <2>1. /\ WithHost /\ used = {Root, 2}
        /\ \E d, n \in Name :
              part = [FreshPart EXCEPT
                    ![Root].part_size = 1,
                    ![Root].entry[1] = [name |-> d, addr |->
                                        Addr(2, {"PRESENT", "IS_DIR", "NOT_EMPTY"})],
                    ![2].part_size = 1,
                    ![2].entry[1] = [name |-> n, addr |-> NewAddr("file")]]
    BY <1>1, <1>4, Zenon DEF Init
  <2>2. BLOCKS > 1
    BY <2>1, HostAssumption DEF HostAssumption
  <2>3. PICK d, n \in Name :
           part = [FreshPart EXCEPT
                    ![Root].part_size = 1,
                    ![Root].entry[1] = [name |-> d, addr |->
                                        Addr(2, {"PRESENT", "IS_DIR", "NOT_EMPTY"})],
                    ![2].part_size = 1,
                    ![2].entry[1] = [name |-> n, addr |-> NewAddr("file")]]
    BY <2>1, Zenon
  <2>4. PICK s : s = [part |-> part, used |-> {Root, 2}, volume |-> "sound"]
    OBVIOUS
  <2>5. s \in Volumes /\ Shape(s)
    BY <2>2, <2>3, <2>4, HostShape
  <2>6. state = s
    BY <1>2, <2>1, <2>4 DEF state
  <2> QED BY <1>2, <2>5, <2>6 DEF Inv
<1> QED BY <1>3, <1>4

LEMMA BecomesIs ==
  ASSUME NEW t \in Volumes, Becomes(t)
  PROVE  state' = t /\ volume' = t.volume /\ part' = t.part /\ used' = t.used
BY DEF Becomes, Volumes, state

LEMMA CreatedInv ==
  ASSUME Inv, Ready, NEW path \in Path, NEW type
  PROVE  /\ state \in Volumes /\ Shape(state) /\ Created(state, path, type) \in Volumes
         /\ Created(state, path, type).volume = "sound" =>
               /\ Shape(Created(state, path, type))
               /\ Loses(state, Created(state, path, type))
               /\ Made(state, Created(state, path, type), path, type)
<1>1. state \in Volumes /\ Shape(state) /\ state.volume = "sound"
  BY DEF Inv, Ready, state
<1>2. PICK t : /\ t = Created(state, path, type) /\ Kept(state, t)
               /\ t.volume = "sound" => Made(state, t, path, type)
  BY <1>1, CreatedShape
<1> QED BY <1>1, <1>2 DEF Kept

LEMMA MakeDirInv == ASSUME Inv, NEW path \in Path, MakeDir(path) PROVE Inv'
<1>1. PICK t \in Volumes : t = Created(state, path, "dir") /\ (t.volume = "sound" => Shape(t))
  BY CreatedInv DEF MakeDir
<1>2. state' = t /\ volume' = t.volume
  BY <1>1, BecomesIs DEF MakeDir
<1>3. f' = NoFile
  BY DEF MakeDir, Ready
<1> QED BY <1>1, <1>2, <1>3 DEF Inv

LEMMA DeleteInv == ASSUME Inv, NEW path \in Path, Delete(path) PROVE Inv'
<1>1. PICK s \in Volumes : s = state /\ Shape(s) /\ s.volume = "sound"
  BY DEF Inv, Delete, Ready, state
<1>2. PICK any \in BOOLEAN : any = FALSE
  OBVIOUS
<1>3. PICK type : type = "undefined"
  OBVIOUS
<1>4. any = FALSE /\ type = "undefined"
  BY <1>2, <1>3
<1>5. PICK pos : pos = FindPath(s, path, type, any) /\ pos # NotFound
                 /\ Becomes(Deleted(s, pos))
  BY <1>1, <1>4 DEF Delete
<1>6. PICK b \in Dirs(s) : \E i \in PresentIn(s.part[b]) : pos = <<b, i>>
  BY <1>1, <1>5, FindPathIs
<1>7. PICK i \in PresentIn(s.part[b]) : pos = <<b, i>>
  BY <1>6
<1>8. PICK t : t = Deleted(s, <<b, i>>)
  OBVIOUS
<1>9. t \in Volumes /\ Shape(t)
  BY <1>1, <1>8, DeletedShape
<1>10. state' = t
  BY <1>5, <1>7, <1>8, <1>9, BecomesIs
<1>11. f' = NoFile
  BY DEF Delete, Ready
<1> QED BY <1>9, <1>10, <1>11 DEF Inv

LEMMA FoundFile ==
  ASSUME NEW t \in Volumes, Shape(t), NEW path \in Path, NEW type, type = "file",
         NEW any \in BOOLEAN, NEW pos, pos = FindPath(t, path, type, any), pos # NotFound
  PROVE  \E c \in Dirs(t) : \E j \in PresentIn(t.part[c]) :
            /\ pos = <<c, j>>
            /\ PathTo(t, c, path[Len(path)], path)
            /\ t.part[c].entry[j].name = path[Len(path)] /\ ~IsDir(t.part[c].entry[j].addr)
            /\ j \in Slot /\ c \in Block
<1>1. PICK c \in Dirs(t) : \E j \in PresentIn(t.part[c]) :
         /\ pos = <<c, j>> /\ Matches(t.part[c], j, path[Len(path)], type, any)
         /\ PathTo(t, c, path[Len(path)], path)
  BY FindPathIs
<1>2. PICK j \in PresentIn(t.part[c]) :
         /\ pos = <<c, j>> /\ Matches(t.part[c], j, path[Len(path)], type, any)
         /\ PathTo(t, c, path[Len(path)], path)
  BY <1>1
<1>3. /\ t.part[c].entry[j].name = path[Len(path)] /\ ~IsDir(t.part[c].entry[j].addr)
      /\ j \in Slot /\ c \in Block
  BY <1>2, PresentFinite, DirsAre DEF Matches, TypeFits
<1> QED BY <1>2, <1>3

\* The file that is opened is the one that was made.
LEMMA OpenedIs ==
  ASSUME NEW s \in Volumes, Shape(s), NEW t \in Volumes, Shape(t), NEW path \in Path,
         NEW type, type = "file", Made(s, t, path, type), NEW any \in BOOLEAN,
         NEW e, e = FindPath(t, path, type, any), e # NotFound
  PROVE  e \in Block \X Slot /\ Opened(t, e)
<1>1. PICK c \in Dirs(t) : \E j \in PresentIn(t.part[c]) :
         /\ e = <<c, j>> /\ PathTo(t, c, path[Len(path)], path)
         /\ t.part[c].entry[j].name = path[Len(path)] /\ ~IsDir(t.part[c].entry[j].addr)
         /\ j \in Slot /\ c \in Block
  BY FoundFile
<1>2. PICK j \in PresentIn(t.part[c]) :
         /\ e = <<c, j>> /\ PathTo(t, c, path[Len(path)], path)
         /\ t.part[c].entry[j].name = path[Len(path)] /\ ~IsDir(t.part[c].entry[j].addr)
         /\ j \in Slot /\ c \in Block
  BY <1>1
<1>3. FindPath(t, path, "undefined", FALSE) = <<c, j>>
  BY <1>2, FindEntry
<1>4. CASE t = s /\ FindPath(s, path, "undefined", FALSE) = NotFound
  BY <1>2, <1>3, <1>4
<1>5. CASE Entered(s, t, path, path[Len(path)], NewAddr(type))
  <2>1. PICK name : name = path[Len(path)]
    OBVIOUS
  <2>2. PICK b \in Dirs(s), i \in Slot :
           /\ PathTo(s, b, name, path) /\ Edited(s, t, b, i)
           /\ t.part[b].entry[i].addr = NewAddr(type)
           /\ Present(NewAddr(type)) => t.part[b].entry[i].name = name
    BY <2>1, <1>5 DEF Entered
  <2>3. b \in Dirs(t) /\ PathTo(t, b, name, path)
    BY <2>2, PathKept
  <2>4. i \in PresentIn(t.part[b]) /\ t.part[b].entry[i].name = name
    BY <2>2, NewAddrIs DEF PresentIn
  <2>5. FindPath(t, path, "undefined", FALSE) = <<b, i>>
    BY <2>3, <2>4, FindEntry
  <2>6. b = c /\ i = j
    <3>1. <<b, i>> = <<c, j>>
      BY <2>5, <1>3, Zenon
    <3> QED BY <3>1
  <2>7. ~Linked(t.part[c].entry[j].addr)
    <3>1. ~Linked(t.part[b].entry[i].addr)
      BY <2>2, NewAddrIs
    <3> QED BY <2>6, <3>1
  <2>8. EntryAt(t, e) = t.part[c].entry[j] /\ e[1] = c /\ e[2] = j
    BY <1>2 DEF EntryAt
  <2>9. Opened(t, e)
    <3>1. PathTo(t, c, t.part[c].entry[j].name, path)
      BY <1>2
    <3> QED BY <2>7, <2>8, <3>1, <1>2, Zenon DEF Opened
  <2> QED BY <2>9, <1>2
<1> QED BY <1>4, <1>5 DEF Made

LEMMA OpenInv == ASSUME Inv, NEW path \in Path, Open(path) PROVE Inv'
<1>1. PICK t \in Volumes : /\ t = Created(state, path, "file")
                           /\ t.volume = "sound" => Shape(t) /\ Made(state, t, path, "file")
  BY CreatedInv DEF Open
<1>2. Becomes(t) /\ f' = IF t.volume # "sound" THEN NoFile ELSE FindPath(t, path, "file", FALSE)
  BY <1>1 DEF Open
<1>3. state' = t /\ volume' = t.volume /\ state \in Volumes /\ Shape(state)
  BY <1>2, BecomesIs DEF Inv, Open, Ready
<1>4. CASE t.volume # "sound"
  BY <1>2, <1>3, <1>4 DEF Inv
<1>5. CASE t.volume = "sound"
  <2>1. PICK type : type = "file"
    OBVIOUS
  <2>2. PICK any \in BOOLEAN : any = FALSE
    OBVIOUS
  <2>3. PICK e : e = FindPath(t, path, type, any) /\ f' = e
    BY <1>2, <1>5, <2>1, <2>2
  <2>4. PICK s \in Volumes : s = state /\ Shape(s)
    BY <1>3
  <2>5. Shape(t) /\ Made(s, t, path, type)
    BY <1>1, <1>5, <2>1, <2>4
  <2>6. CASE e = NotFound
    <3>1. f' = NoFile
      BY <2>3, <2>6 DEF NotFound, NoFile
    <3> QED BY <1>3, <2>5, <3>1 DEF Inv
  <2>7. CASE e # NotFound
    <3>1. e \in Block \X Slot /\ Opened(t, e)
      BY <2>1, <2>3, <2>4, <2>5, <2>7, OpenedIs
    <3> QED BY <1>3, <2>3, <2>5, <3>1 DEF Inv
  <2> QED BY <2>6, <2>7
<1> QED BY <1>4, <1>5

\* The text that is written.
LEMMA TextIs ==
  ASSUME NEW n \in 0..MAX_WRITE
  PROVE  [i \in 1..n |-> i] \in Seq(0..MAX_WRITE)
<1>1. n \in Nat /\ \A i \in 1..n : i \in 0..MAX_WRITE
  BY Sizes
<1>2. PICK m \in Nat : m = n
  BY <1>1
<1>3. [i \in 1..m |-> i] \in Seq(0..MAX_WRITE)
  BY <1>1, <1>2
<1> QED BY <1>2, <1>3

LEMMA WriteToFileInv == ASSUME Inv, NEW n \in 0..MAX_WRITE, WriteToFile(n) PROVE Inv'
<1>1. PICK s \in Volumes : s = state /\ Shape(s) /\ s.volume = "sound" /\ Opened(s, f)
  BY DEF Inv, WriteToFile, state
<1>2. PICK data : data = [i \in 1..n |-> i]
  OBVIOUS
<1>3. data \in Seq(0..MAX_WRITE)
  BY <1>2, TextIs
<1>4. PICK t : t = Written(s, f, data)
  OBVIOUS
<1>5. t \in Volumes /\ (t.volume = "boot" \/ (t.volume = "sound" /\ Shape(t)))
  BY <1>1, <1>3, <1>4, WrittenKept
<1>6. state' = t /\ volume' = t.volume
  BY <1>1, <1>2, <1>4, <1>5, BecomesIs DEF WriteToFile
<1>7. f' = NoFile
  BY DEF WriteToFile
<1> QED BY <1>5, <1>6, <1>7 DEF Inv

LEMMA NextInv == Inv /\ [Next]_vars => Inv'
<1>1. SUFFICES ASSUME Inv, [Next]_vars PROVE Inv'
  OBVIOUS
<1>2. CASE \E path \in Path : MakeDir(path) \/ Delete(path) \/ Open(path)
  <2>1. PICK path \in Path : MakeDir(path) \/ Delete(path) \/ Open(path)
    BY <1>2
  <2> QED BY <1>1, <2>1, MakeDirInv, DeleteInv, OpenInv
<1>3. CASE \E n \in 0..MAX_WRITE : WriteToFile(n)
  BY <1>1, <1>3, WriteToFileInv
<1>4. CASE UNCHANGED vars
  <2>1. state' = state /\ volume' = volume /\ f' = f
    BY <1>4 DEF vars, state
  <2> QED BY <1>1, <2>1 DEF Inv
<1> QED BY <1>1, <1>2, <1>3, <1>4 DEF Next

\* The volume stays sound as long as no command takes the boot sector for a
\* part: whatever is made, overwritten, deleted and written (create, delete and
\* write), no two chains of blocks share a block, every block of a chain is in
\* use and belongs to it once, the sizes of the parts are right and each entry
\* is found under its name.
THEOREM VolumeStaysSound == Spec => []VolumeSound
<1>1. Spec => []Inv
  BY InitInv, NextInv, PTL DEF Spec
<1> QED BY <1>1, InvVolumeSound, PTL

-----------------------------------------------------------------------------
(* What is lost.                                                           *)

LEMMA LinkedAre ==
  ASSUME state \in Volumes, Shape(state), NEW d \in Dirs(state), NEW j \in Slot,
         Leads(state, d, j)
  PROVE  /\ <<d, j>> \in LinkedEntries
         /\ AddrOf(<<d, j>>) = Pointer(state, d, j)
         /\ ChainOf(<<d, j>>) = Chain(state, Target(state, d, j))
         /\ d = Root => <<d, j>> \in RootEntries
         /\ \A i \in Slot : Leads(state, Root, i) /\ IsDir(Pointer(state, Root, i))
                            /\ Target(state, Root, i) = d => <<d, j>> \in SubEntries(<<Root, i>>)
<1>1. j # 0 /\ state.part = part
  BY Sizes DEF Slot, state
<1>2. AddrOf(<<d, j>>) = Pointer(state, d, j)
  BY <1>1 DEF AddrOf, EntryAt, Pointer
<1>3. ChainOf(<<d, j>>) = Chain(state, Target(state, d, j))
  BY <1>2 DEF ChainOf, Target
<1>4. j \in PresentIn(part[d])
  BY <1>1 DEF Leads, Linked, Pointer, PresentIn
<1>5. d = Root => <<d, j>> \in RootEntries
  BY <1>4, EntriesAre
<1>6. ASSUME NEW i \in Slot, Leads(state, Root, i), IsDir(Pointer(state, Root, i)),
             Target(state, Root, i) = d
      PROVE  <<d, j>> \in SubEntries(<<Root, i>>) /\ <<Root, i>> \in RootEntries
  <2>1. i # 0
    BY Sizes DEF Slot
  <2>2. i \in PresentIn(part[Root])
    BY <1>1, <1>6, <2>1 DEF Leads, Linked, Pointer, PresentIn
  <2>3. SubEntries(<<Root, i>>) = {<<d, k>> : k \in PresentIn(part[d])}
    BY <1>6, <2>2, EntriesAre
  <2>4. <<Root, i>> \in RootEntries
    BY <2>2, EntriesAre
  <2> QED BY <2>3, <2>4, <1>4
<1>7. <<d, j>> \in Entries
  <2>1. CASE d = Root
    BY <2>1, <1>5 DEF Entries
  <2>2. CASE d # Root
    <3>1. PICK i \in Slot : /\ Leads(state, Root, i) /\ IsDir(Pointer(state, Root, i))
                            /\ Target(state, Root, i) = d
      BY <2>2, DirsAre
    <3>2. <<d, j>> \in SubEntries(<<Root, i>>) /\ <<Root, i>> \in RootEntries
      BY <3>1, <1>6
    <3> QED BY <3>2 DEF Entries
  <2> QED BY <2>1, <2>2
<1>8. <<d, j>> \in LinkedEntries
  BY <1>2, <1>7 DEF LinkedEntries, Leads
<1> QED BY <1>2, <1>3, <1>5, <1>6, <1>8

LEMMA ReachedIs ==
  ASSUME state \in Volumes, Shape(state)
  PROVE  Reached = {Root} \cup Chained(state)
<1>1. ToSet(Chain(state, Root)) = {Root}
  BY DirsAre, ShortChain
<1>2. ASSUME NEW e \in LinkedEntries PROVE ToSet(ChainOf(e)) \subseteq Chained(state)
  <2>1. e \in Entries /\ Linked(AddrOf(e))
    BY <1>2 DEF LinkedEntries
  <2>2. PICK d \in Dirs(state), j \in Slot : e = <<d, j>> /\ AddrOf(e) = Pointer(state, d, j)
    BY <2>1, EntryIs
  <2>3. Leads(state, d, j) /\ ChainOf(e) = Chain(state, Target(state, d, j))
    BY <2>1, <2>2 DEF Leads, Target, ChainOf
  <2> QED BY <2>3, ChainedIs
<1>3. ASSUME NEW x \in Chained(state) PROVE \E e \in LinkedEntries : x \in ToSet(ChainOf(e))
  <2>1. PICK d \in Dirs(state), j \in Slot :
           Leads(state, d, j) /\ x \in ToSet(Chain(state, Target(state, d, j)))
    BY DEF Chained
  <2>2. <<d, j>> \in LinkedEntries /\ ChainOf(<<d, j>>) = Chain(state, Target(state, d, j))
    BY <2>1, LinkedAre
  <2> QED BY <2>1, <2>2
<1> QED BY <1>1, <1>2, <1>3 DEF Reached

LEMMA LeakedIs == Inv => (volume = "sound" => Leaked = Lost(state))
<1>1. SUFFICES ASSUME Inv, volume = "sound" PROVE Leaked = Lost(state)
  OBVIOUS
<1>2. state \in Volumes /\ Shape(state) /\ state.used = used
  BY <1>1 DEF Inv, state
<1>3. Reached = {Root} \cup Chained(state)
  BY <1>2, ReachedIs
<1> QED BY <1>1, <1>2, <1>3 DEF Leaked, Lost

LEMMA CreatedLoses ==
  ASSUME Inv, Ready, NEW path \in Path, NEW type, Becomes(Created(state, path, type)),
         volume' = "sound"
  PROVE  Loses(state, state')
<1>1. PICK t \in Volumes : /\ t = Created(state, path, type)
                           /\ t.volume = "sound" => Loses(state, t)
  BY CreatedInv
<1> QED BY <1>1, BecomesIs

LEMMA NextLoses ==
  ASSUME Inv, [Next]_vars, volume' = "sound"
  PROVE  volume = "sound" /\ Loses(state, state')
<1>1. CASE \E path \in Path : MakeDir(path) \/ Delete(path) \/ Open(path)
  <2>1. PICK path \in Path : MakeDir(path) \/ Delete(path) \/ Open(path)
    BY <1>1
  <2>2. CASE MakeDir(path)
    BY <2>2, CreatedLoses DEF MakeDir, Ready
  <2>3. CASE Open(path)
    BY <2>3, CreatedLoses DEF Open, Ready
  <2>4. CASE Delete(path)
    <3>1. PICK s \in Volumes : s = state /\ Shape(s) /\ volume = "sound"
      BY <2>4 DEF Inv, Delete, Ready
    <3>2. PICK any \in BOOLEAN : any = FALSE
      OBVIOUS
    <3>3. PICK type : type = "undefined"
      OBVIOUS
    <3>4. PICK pos : pos = FindPath(s, path, type, any) /\ pos # NotFound
                     /\ Becomes(Deleted(s, pos))
      BY <2>4, <3>1, <3>2, <3>3 DEF Delete
    <3>5. PICK b \in Dirs(s) : \E i \in PresentIn(s.part[b]) : pos = <<b, i>>
      BY <3>1, <3>4, FindPathIs
    <3>6. PICK i \in PresentIn(s.part[b]) : pos = <<b, i>>
      BY <3>5
    <3>7. PICK t : t = Deleted(s, <<b, i>>)
      OBVIOUS
    <3>8. t \in Volumes /\ Loses(s, t)
      BY <3>1, <3>7, DeletedShape
    <3> QED BY <3>1, <3>4, <3>6, <3>7, <3>8, BecomesIs
  <2> QED BY <2>1, <2>2, <2>3, <2>4
<1>2. CASE \E n \in 0..MAX_WRITE : WriteToFile(n)
  <2>1. PICK n \in 0..MAX_WRITE : WriteToFile(n)
    BY <1>2
  <2>2. PICK s \in Volumes : /\ s = state /\ Shape(s) /\ s.volume = "sound" /\ volume = "sound"
                             /\ Opened(s, f)
    BY <2>1 DEF Inv, WriteToFile, state
  <2>3. PICK data \in Seq(0..MAX_WRITE) : data = [i \in 1..n |-> i]
    BY TextIs
  <2>4. PICK t : t = Written(s, f, data)
    OBVIOUS
  <2>5. t \in Volumes /\ (t.volume = "boot" \/ Lost(t) \subseteq Lost(s))
    BY <2>2, <2>4, WrittenKept
  <2>6. state' = t /\ volume' = t.volume
    BY <2>1, <2>2, <2>3, <2>4, <2>5, BecomesIs DEF WriteToFile
  <2>7. Lost(t) \subseteq Lost(s)
    BY <2>5, <2>6
  <2> QED BY <2>2, <2>6, <2>7 DEF Loses
<1>3. CASE UNCHANGED vars
  <2>1. state' = state /\ volume' = volume
    BY <1>3 DEF vars, state
  <2> QED BY <2>1 DEF Loses
<1> QED BY <1>1, <1>2, <1>3 DEF Next

\* The entry of the directory that is none any more, and the one in it.
LEMMA OrphanedIs ==
  ASSUME Inv, volume = "sound", NEW x, Orphaned(state, state', x)
  PROVE  \E e \in RootEntries :
            /\ ~IsDir(AddrOf(e)') \/ ~Linked(AddrOf(e)')
            /\ \E g \in SubEntries(e) : Linked(AddrOf(g)) /\ x \in ToSet(ChainOf(g))
<1>1. state \in Volumes /\ Shape(state)
  BY DEF Inv
<1>2. PICK i \in Slot, j \in Slot :
         /\ Leads(state, Root, i) /\ IsDir(Pointer(state, Root, i)) /\ ~Linked(Pointer(state', Root, i))
         /\ Leads(state, Target(state, Root, i), j)
         /\ x \in ToSet(Chain(state, Target(state, Target(state, Root, i), j)))
  BY DEF Orphaned
<1>3. PICK d \in Dirs(state) : d = Target(state, Root, i)
  BY <1>1, <1>2, DirsAre
<1>4. /\ <<d, j>> \in SubEntries(<<Root, i>>)
      /\ Linked(AddrOf(<<d, j>>)) /\ x \in ToSet(ChainOf(<<d, j>>))
  BY <1>1, <1>2, <1>3, LinkedAre DEF Leads
<1>5. <<Root, i>> \in RootEntries
  BY <1>1, <1>2, DirsAre, LinkedAre
<1>6. ~Linked(AddrOf(<<Root, i>>)')
  <2>1. i # 0 /\ <<Root, i>>[1] = Root /\ <<Root, i>>[2] = i
    BY Sizes DEF Slot
  <2>2. AddrOf(<<Root, i>>)' = Pointer(state', Root, i)
    BY <2>1 DEF AddrOf, EntryAt, Pointer
  <2> QED BY <2>2, <1>2
<1> QED BY <1>4, <1>5, <1>6

\* No command loses blocks but those of what is in a directory that it deletes
\* or overwrites (delete and create): all that was in a chain still is, or is
\* free, and what balloc gave while a file was written is in its chain.
THEOREM LosesOnlyBelow == Spec => LeaksOnlyBelow
<1>1. Spec => []Inv
  BY InitInv, NextInv, PTL DEF Spec
<1> DEFINE Known == volume = "sound" => Leaked = Lost(state)
           Below == volume' = "sound" =>
                      \A b \in Leaked' \ Leaked : \E e \in RootEntries :
                         /\ ~IsDir(AddrOf(e)') \/ ~Linked(AddrOf(e)')
                         /\ \E g \in SubEntries(e) : Linked(AddrOf(g)) /\ b \in ToSet(ChainOf(g))
<1>2. Inv => Known
  BY LeakedIs
<1>3. Inv /\ Known /\ Known' /\ [Next]_vars => Below
  <2>1. SUFFICES ASSUME Inv, Known, Known', [Next]_vars, volume' = "sound",
                        NEW b \in Leaked' \ Leaked
                 PROVE  \E e \in RootEntries :
                           /\ ~IsDir(AddrOf(e)') \/ ~Linked(AddrOf(e)')
                           /\ \E g \in SubEntries(e) : Linked(AddrOf(g)) /\ b \in ToSet(ChainOf(g))
    OBVIOUS
  <2>2. volume = "sound" /\ Loses(state, state')
    BY <2>1, NextLoses
  <2>3. Leaked' = Lost(state') /\ Leaked = Lost(state)
    BY <2>1, <2>2
  <2>4. Orphaned(state, state', b)
    BY <2>1, <2>2, <2>3 DEF Loses
  <2> QED BY <2>1, <2>2, <2>4, OrphanedIs
<1>4. Spec => [][Below]_vars
  <2> HIDE DEF Known, Below
  <2> QED BY <1>1, <1>2, <1>3, PTL DEF Spec
<1> QED BY <1>4, Zenon DEF LeaksOnlyBelow

-----------------------------------------------------------------------------
(* The tree of files.  Each command changes one entry and leaves alone     *)
(* what the others lead to, but for the directory that the entry led to.   *)
(* So the tree loses what is below the path of the entry, and gets that    *)
(* entry.                                                                  *)

\* An entry of a directory that has that path.
Named(s, b, i, path) == /\ b \in Dirs(s) /\ i \in PresentIn(s.part[b])
                        /\ PathTo(s, b, s.part[b].entry[i].name, path)

NodeOf(s, b, i, path) == FT!Node(path, IsDir(Pointer(s, b, i)), DataIn(s, Pointer(s, b, i)))
InTree(s, n) == \E b, i, path : Named(s, b, i, path) /\ n = NodeOf(s, b, i, path)

\* What was below the path is gone, and others have come.
Replaced(s, t, path, others) ==
    \A n : InTree(t, n) <=> (InTree(s, n) /\ ~FT!Leads(path, n.path)) \/ n \in others

-----------------------------------------------------------------------------
(* Paths.                                                                  *)

LEMMA Tuples ==
  ASSUME NEW S, NEW b \in S, NEW c \in S
  PROVE  <<b>> \in Seq(S) /\ <<b, c>> \in Seq(S)
<1>1. [i \in 1..2 |-> IF i = 1 THEN b ELSE c] = <<b, c>> /\ [i \in 1..1 |-> b] = <<b>>
  OBVIOUS
<1>2. [i \in 1..2 |-> IF i = 1 THEN b ELSE c] \in Seq(S) /\ [i \in 1..1 |-> b] \in Seq(S)
  OBVIOUS
<1> QED BY <1>1, <1>2

LEMMA Beginnings ==
  ASSUME NEW b, NEW c
  PROVE  /\ SubSeq(<<b>>, 1, 1) = <<b>> /\ SubSeq(<<b, c>>, 1, 1) = <<b>>
         /\ SubSeq(<<b, c>>, 1, 2) = <<b, c>>
<1>1. PICK S : b \in S /\ c \in S
  <2>1. b \in {b, c} /\ c \in {b, c}
    OBVIOUS
  <2> QED BY <2>1
<1>2. PICK p \in Seq(S), q \in Seq(S) : p = <<b>> /\ q = <<b, c>>
  BY <1>1, Tuples
<1>3. Len(p) = 1 /\ p[1] = b /\ Len(q) = 2 /\ q[1] = b /\ q[2] = c
  BY <1>2
<1>4. PICK r, u, v : r = SubSeq(p, 1, 1) /\ u = SubSeq(q, 1, 1) /\ v = SubSeq(q, 1, 2)
  OBVIOUS
<1>5. /\ r \in Seq(S) /\ Len(r) = 1 /\ r[1] = b /\ u \in Seq(S) /\ Len(u) = 1 /\ u[1] = b
      /\ v \in Seq(S) /\ Len(v) = 2 /\ v[1] = b /\ v[2] = c
  BY <1>3, <1>4
<1>6. r = <<b>>
  BY <1>5
<1>7. u = <<b>>
  BY <1>5
<1>8. v = <<b, c>>
  BY <1>5
<1> QED BY <1>2, <1>4, <1>6, <1>7, <1>8

LEMMA LeadsIs ==
  ASSUME NEW a, NEW b, NEW c, NEW d
  PROVE  /\ FT!Leads(<<a>>, <<b>>) <=> a = b
         /\ FT!Leads(<<a>>, <<b, c>>) <=> a = b
         /\ ~FT!Leads(<<a, b>>, <<c>>)
         /\ FT!Leads(<<a, b>>, <<c, d>>) <=> a = c /\ b = d
<1>1. /\ Len(<<a>>) = 1 /\ Len(<<b>>) = 1 /\ Len(<<c>>) = 1
      /\ Len(<<b, c>>) = 2 /\ Len(<<a, b>>) = 2 /\ Len(<<c, d>>) = 2
  OBVIOUS
<1>2. SubSeq(<<b>>, 1, 1) = <<b>> /\ SubSeq(<<b, c>>, 1, 1) = <<b>>
  BY Beginnings
<1>3. SubSeq(<<c, d>>, 1, 2) = <<c, d>>
  BY Beginnings
<1>4. FT!Leads(<<a>>, <<b>>) <=> a = b
  BY <1>1, <1>2 DEF FT!Leads
<1>5. FT!Leads(<<a>>, <<b, c>>) <=> a = b
  BY <1>1, <1>2 DEF FT!Leads
<1>6. ~FT!Leads(<<a, b>>, <<c>>)
  BY <1>1 DEF FT!Leads
<1>7. FT!Leads(<<a, b>>, <<c, d>>) <=> a = c /\ b = d
  BY <1>1, <1>3 DEF FT!Leads
<1> QED BY <1>4, <1>5, <1>6, <1>7

LEMMA LeadsTwo ==
  ASSUME NEW a, NEW b, NEW c, NEW d, NEW p, NEW q, p = <<a, b>>, q = <<c, d>>
  PROVE  FT!Leads(p, q) <=> a = c /\ b = d
<1>1. Len(p) = 2 /\ Len(q) = 2
  OBVIOUS
<1>2. SubSeq(q, 1, 2) = q
  BY Beginnings
<1> QED BY <1>1, <1>2 DEF FT!Leads

\* A path leads to what has it, and to what is in a directory that has it.
LEMMA PathLeads ==
  ASSUME NEW s \in Volumes, Shape(s), NEW b \in Dirs(s), NEW name, NEW path,
         PathTo(s, b, name, path), NEW c, NEW j, NEW r, Named(s, c, j, r)
  PROVE  FT!Leads(path, r) <=>
           \/ c = b /\ s.part[c].entry[j].name = name
           \/ /\ b = Root /\ c # Root
              /\ \E k \in Slot : /\ Leads(s, Root, k) /\ IsDir(Pointer(s, Root, k))
                                 /\ Target(s, Root, k) = c
                                 /\ s.part[Root].entry[k].name = name
<1>1. /\ c \in Dirs(s) /\ j \in PresentIn(s.part[c])
      /\ PathTo(s, c, s.part[c].entry[j].name, r)
  BY DEF Named
<1>2. ASSUME NEW k \in Slot, Leads(s, Root, k), IsDir(Pointer(s, Root, k))
      PROVE  k \in PresentIn(s.part[Root]) /\ k \in Port /\ Target(s, Root, k) # Root
  <2>1. k # 0 /\ k \in Port
    BY Sizes DEF Slot, Port
  <2>2. k \in PresentIn(s.part[Root])
    BY <1>2, <2>1 DEF Leads, Linked, Pointer, PresentIn
  <2> QED BY <1>2, <2>1, <2>2, DirsAre
<1>3. /\ Root \in Block /\ OneWay(s) /\ DirShape(s.part[Root])
  BY DirsAre DEF Shape
<1>4. ASSUME NEW k \in Slot, Leads(s, Root, k), IsDir(Pointer(s, Root, k)),
             NEW m \in Slot, Leads(s, Root, m), IsDir(Pointer(s, Root, m))
      PROVE  s.part[Root].entry[k].name = s.part[Root].entry[m].name
                <=> Target(s, Root, k) = Target(s, Root, m)
  <2>1. s.part[Root].entry[k].name = s.part[Root].entry[m].name => k = m
    BY <1>2, <1>3, <1>4 DEF DirShape
  <2>2. Target(s, Root, k) = Target(s, Root, m) => k = m
    BY <1>2, <1>3, <1>4 DEF OneWay
  <2> QED BY <2>1, <2>2
<1>5. PICK own : own = s.part[c].entry[j].name
  OBVIOUS
<1>6. CASE b = Root /\ c = Root
  <2>1. path = <<name>> /\ r = <<own>>
    BY <1>1, <1>2, <1>5, <1>6 DEF PathTo
  <2>2. FT!Leads(path, r) <=> name = own
    BY <2>1, LeadsIs
  <2> QED BY <2>2, <1>5, <1>6
<1>7. CASE b = Root /\ c # Root
  <2>1. path = <<name>>
    BY <1>2, <1>7 DEF PathTo
  <2>2. PICK k \in Slot : /\ Leads(s, Root, k) /\ IsDir(Pointer(s, Root, k))
                          /\ Target(s, Root, k) = c
                          /\ r = <<s.part[Root].entry[k].name, own>>
    BY <1>1, <1>5, <1>7 DEF PathTo
  <2>3. PICK dir : dir = s.part[Root].entry[k].name
    OBVIOUS
  <2>4. FT!Leads(path, r) <=> name = dir
    <3>1. r = <<dir, own>>
      BY <2>2, <2>3
    <3> QED BY <2>1, <3>1, LeadsIs
  <2> QED BY <2>2, <2>3, <2>4, <1>4, <1>7
<1>8. CASE b # Root /\ c = Root
  <2>1. PICK k \in Slot : path = <<s.part[Root].entry[k].name, name>>
    BY <1>8 DEF PathTo
  <2>2. PICK dir : dir = s.part[Root].entry[k].name
    OBVIOUS
  <2>3. r = <<own>> /\ path = <<dir, name>>
    BY <1>1, <1>2, <1>5, <1>8, <2>1, <2>2 DEF PathTo
  <2>4. ~FT!Leads(path, r)
    BY <2>3, LeadsIs
  <2> QED BY <2>4, <1>8
<1>9. CASE b # Root /\ c # Root
  <2>1. PICK k \in Slot : /\ Leads(s, Root, k) /\ IsDir(Pointer(s, Root, k))
                          /\ Target(s, Root, k) = b
                          /\ path = <<s.part[Root].entry[k].name, name>>
    BY <1>9 DEF PathTo
  <2>2. PICK m \in Slot : /\ Leads(s, Root, m) /\ IsDir(Pointer(s, Root, m))
                          /\ Target(s, Root, m) = c
                          /\ r = <<s.part[Root].entry[m].name, own>>
    BY <1>1, <1>5, <1>9 DEF PathTo
  <2>3. PICK dir, other : dir = s.part[Root].entry[k].name /\ other = s.part[Root].entry[m].name
    OBVIOUS
  <2>4. FT!Leads(path, r) <=> dir = other /\ name = own
    <3>1. path = <<dir, name>> /\ r = <<other, own>>
      BY <2>1, <2>2, <2>3
    <3> QED BY <3>1, LeadsTwo
  <2>5. dir = other <=> b = c
    BY <2>1, <2>2, <2>3, <1>4
  <2> QED BY <2>4, <2>5, <1>5, <1>9
<1> QED BY <1>6, <1>7, <1>8, <1>9

\* No two entries have the same path, and none has two.
LEMMA NamedOnce ==
  ASSUME NEW s \in Volumes, Shape(s), NEW b, NEW i, NEW path, Named(s, b, i, path),
         NEW c, NEW j, NEW r, Named(s, c, j, r)
  PROVE  path = r <=> b = c /\ i = j
<1>1. /\ b \in Dirs(s) /\ i \in PresentIn(s.part[b]) /\ c \in Dirs(s) /\ j \in PresentIn(s.part[c])
      /\ PathTo(s, b, s.part[b].entry[i].name, path) /\ PathTo(s, c, s.part[c].entry[j].name, r)
  BY DEF Named
<1>2. Root \in Block /\ OneWay(s) /\ DirShape(s.part[b]) /\ \A k \in Slot : k \in Port
  BY <1>1, DirsAre, Sizes DEF Shape, Slot, Port
<1>3. \A k \in Slot : Leads(s, Root, k) /\ IsDir(Pointer(s, Root, k)) => Target(s, Root, k) # Root
  BY DirsAre
<1>4. ASSUME b = c, i = j PROVE path = r
  BY <1>1, <1>2, <1>3, <1>4 DEF PathTo, OneWay
<1>5. ASSUME path = r PROVE b = c /\ i = j
  <2>1. b = c
    <3>1. CASE b = Root
      <4>1. path = <<s.part[b].entry[i].name>>
        BY <1>1, <1>3, <3>1 DEF PathTo
      <4>2. c # Root => \E k \in Slot : r = <<s.part[Root].entry[k].name, s.part[c].entry[j].name>>
        BY <1>1 DEF PathTo
      <4> QED BY <4>1, <4>2, <1>5, <3>1
    <3>2. CASE b # Root
      <4>1. PICK k \in Slot : /\ Leads(s, Root, k) /\ IsDir(Pointer(s, Root, k))
                              /\ Target(s, Root, k) = b
                              /\ path = <<s.part[Root].entry[k].name, s.part[b].entry[i].name>>
        BY <1>1, <3>2 DEF PathTo
      <4>2. c # Root
        BY <1>1, <1>3, <1>5, <4>1 DEF PathTo
      <4>3. PICK m \in Slot : /\ Leads(s, Root, m) /\ IsDir(Pointer(s, Root, m))
                              /\ Target(s, Root, m) = c
                              /\ r = <<s.part[Root].entry[m].name, s.part[c].entry[j].name>>
        BY <1>1, <4>2 DEF PathTo
      <4>4. s.part[Root].entry[k].name = s.part[Root].entry[m].name
        BY <4>1, <4>3, <1>5
      <4>5. k \in PresentIn(s.part[Root]) /\ m \in PresentIn(s.part[Root])
        <5>1. k # 0 /\ m # 0
          BY Sizes DEF Slot
        <5> QED BY <4>1, <4>3, <5>1 DEF Leads, Linked, Pointer, PresentIn
      <4>6. DirShape(s.part[Root])
        BY DirsAre
      <4>7. k = m
        BY <4>4, <4>5, <4>6 DEF DirShape
      <4> QED BY <4>1, <4>3, <4>7
    <3> QED BY <3>1, <3>2
  <2>2. s.part[b].entry[i].name = s.part[b].entry[j].name
    BY <1>1, <1>3, <1>5, <2>1 DEF PathTo
  <2> QED BY <1>1, <1>2, <2>1, <2>2 DEF DirShape
<1> QED BY <1>4, <1>5

-----------------------------------------------------------------------------
(* Data.                                                                   *)

\* A chain whose parts are what they were is what it was.
LEMMA SameChain ==
  ASSUME NEW s \in Volumes, NEW t \in Volumes, NEW lba \in 0..BLOCKS,
         \A c \in ToSet(Chain(s, lba)) : t.part[c] = s.part[c]
  PROVE  Chain(t, lba) = Chain(s, lba)
<1>1. PICK at, bt : at = At(s, lba) /\ bt = At(t, lba)
  OBVIOUS
<1>2. at[1] = lba /\ bt[1] = lba
  BY <1>1, AtFirst
<1> DEFINE Good == {n \in Nat : n + 1 \in 1..BLOCKS + 1 => bt[n + 1] = at[n + 1]}
<1>3. 0 \in Good
  <2>1. 0 + 1 = 1
    OBVIOUS
  <2> QED BY <2>1, <1>2
<1>4. ASSUME NEW n \in Nat, n \in Good PROVE n + 1 \in Good
  <2>1. SUFFICES ASSUME n + 1 + 1 \in 1..BLOCKS + 1
                 PROVE  bt[n + 1 + 1] = at[n + 1 + 1]
    OBVIOUS
  <2>2. PICK k \in 2..BLOCKS + 1 : k = n + 1 + 1
    BY <2>1, Sizes
  <2>3. k - 1 = n + 1 /\ n + 1 \in 1..BLOCKS + 1
    BY <2>1, <2>2, Sizes
  <2>4. PICK c : c = at[k - 1] /\ c = bt[k - 1]
    BY <2>3, <1>4
  <2>5. at[k] = NextPart(s, c) /\ bt[k] = NextPart(t, c)
    <3>1. at[k] = NextPart(s, at[k - 1])
      BY <1>1, AtNext
    <3>2. bt[k] = NextPart(t, bt[k - 1])
      BY <1>1, AtNext
    <3> QED BY <2>4, <3>1, <3>2
  <2>6. c # Boot => t.part[c] = s.part[c]
    BY <2>3, <2>4, <1>1, InChain
  <2> QED BY <2>2, <2>5, <2>6 DEF NextPart
<1>5. \A n \in Nat : n \in Good
  <2> HIDE DEF Good
  <2> QED BY <1>3, <1>4, Induction
<1>6. ASSUME NEW k \in 1..BLOCKS + 1 PROVE bt[k] = at[k]
  <2>1. k - 1 \in Nat /\ (k - 1) + 1 = k
    BY Sizes
  <2> QED BY <2>1, <1>5
<1>7. Chain(t, lba) = [k \in {k \in 1..BLOCKS + 1 : bt[k] # Boot} |-> bt[k]]
  BY <1>1, ChainIs
<1>8. Chain(s, lba) = [k \in {k \in 1..BLOCKS + 1 : at[k] # Boot} |-> at[k]]
  BY <1>1, ChainIs
<1>9. {k \in 1..BLOCKS + 1 : bt[k] # Boot} = {k \in 1..BLOCKS + 1 : at[k] # Boot}
  BY <1>6
<1> QED BY <1>6, <1>7, <1>8, <1>9

LEMMA SameData ==
  ASSUME NEW s \in Volumes, NEW t \in Volumes, NEW addr \in AddrType,
         ~IsDir(addr) /\ Linked(addr) =>
            addr.lba \in Block /\ \A c \in ToSet(Chain(s, addr.lba)) : t.part[c] = s.part[c]
  PROVE  DataIn(t, addr) = DataIn(s, addr)
<1>1. CASE IsDir(addr) \/ ~Linked(addr)
  BY <1>1 DEF DataIn
<1>2. CASE ~IsDir(addr) /\ Linked(addr)
  <2>1. PICK lba \in Block : lba = addr.lba
    BY <1>2
  <2>2. lba \in 0..BLOCKS
    BY Sizes DEF Block
  <2>3. PICK chain : chain = Chain(s, lba) /\ chain = Chain(t, lba)
    BY <1>2, <2>1, <2>2, SameChain
  <2>4. PICK n \in 1..BLOCKS + 1 : /\ Chain(s, lba) = [k \in 1..n |-> At(s, lba)[k]]
                                 /\ \A k \in 1..n : At(s, lba)[k] \in Block
    BY ChainSeq
  <2>5. Len(chain) = n /\ \A k \in 1..n : chain[k] \in ToSet(chain)
    <3>1. n \in Nat /\ \A k \in 1..n : k \in Nat
      BY Sizes
    <3>2. PICK at : chain = [k \in 1..n |-> at[k]]
      BY <2>3, <2>4
    <3>3. DOMAIN chain = 1..n /\ Len(chain) = n
      BY <3>1, <3>2
    <3> QED BY <3>3 DEF ToSet
  <2>6. \A k \in 1..n : t.part[chain[k]] = s.part[chain[k]]
    BY <1>2, <2>1, <2>3, <2>5
  <2>7. [k \in 1..Len(chain) |-> PartData(t.part[chain[k]])] =
        [k \in 1..Len(chain) |-> PartData(s.part[chain[k]])]
    BY <2>5, <2>6
  <2>8. DataIn(s, addr) = FlattenSeq([k \in 1..Len(chain) |-> PartData(s.part[chain[k]])])
    BY <1>2, <2>1, <2>3, Zenon DEF DataIn
  <2>9. DataIn(t, addr) = FlattenSeq([k \in 1..Len(chain) |-> PartData(t.part[chain[k]])])
    BY <1>2, <2>1, <2>3, Zenon DEF DataIn
  <2> QED BY <2>7, <2>8, <2>9
<1> QED BY <1>1, <1>2

-----------------------------------------------------------------------------
(* An entry changes.                                                       *)

\* The directory that an entry led to.
Gone(s, b, i, d) == Leads(s, b, i) /\ Target(s, b, i) = d

Changes(s, t, b, i, name, path, addr) ==
    /\ s \in Volumes /\ Shape(s) /\ t \in Volumes /\ Shape(t)
    /\ b \in Dirs(s) /\ i \in Slot /\ PathTo(s, b, name, path)
    /\ \A j \in PresentIn(s.part[b]) : s.part[b].entry[j].name = name <=> j = i
    /\ Edited(s, t, b, i) /\ t.part[b].entry[i].addr = addr
    /\ Present(addr) => t.part[b].entry[i].name = name
    /\ ~(IsDir(addr) /\ Linked(addr))

LEMMA SlotsArePorts == \A k \in Slot : k \in Port /\ k # 0
BY Sizes DEF Slot, Port

LEMMA GoneIs ==
  ASSUME NEW s \in Volumes, Shape(s), NEW b \in Dirs(s), NEW i \in Slot, NEW d \in Dirs(s),
         Gone(s, b, i, d)
  PROVE  b = Root /\ d # Root /\ IsDir(Pointer(s, b, i))
<1>1. b \in Block /\ Root \in Block /\ Leading(s) /\ OneWay(s) /\ i \in Port
  BY DirsAre, SlotsArePorts DEF Shape
<1>2. Leads(s, b, i) /\ Target(s, b, i) = d
  BY DEF Gone
<1>3. d # Root
  BY <1>1, <1>2 DEF Leading
<1>4. PICK j \in Slot : /\ Leads(s, Root, j) /\ IsDir(Pointer(s, Root, j))
                        /\ Target(s, Root, j) = d
  BY <1>3, DirsAre
<1>5. Root = b /\ j = i
  BY <1>1, <1>2, <1>4, SlotsArePorts DEF OneWay
<1> QED BY <1>3, <1>4, <1>5

LEMMA EntryStays ==
  ASSUME NEW s, NEW t, NEW b, NEW i, NEW name, NEW path, NEW addr,
         Changes(s, t, b, i, name, path, addr),
         NEW d \in Dirs(s), ~Gone(s, b, i, d), NEW j \in Slot, ~(d = b /\ j = i)
  PROVE  /\ t.part[d].entry[j] = s.part[d].entry[j]
         /\ Pointer(t, d, j) = Pointer(s, d, j)
<1>1. Edited(s, t, b, i)
  BY DEF Changes
<1>2. t.part[d].entry[j] = s.part[d].entry[j]
  <2>1. CASE d = b
    BY <1>1, <2>1 DEF Edited
  <2>2. CASE d # b
    <3>1. t.part[d] = s.part[d]
      BY <1>1, <2>2 DEF Edited, Gone
    <3> QED BY <3>1
  <2> QED BY <2>1, <2>2
<1>3. j # 0
  BY SlotsArePorts
<1> QED BY <1>2, <1>3 DEF Pointer

\* What changes is no directory with a part, nor are the others but the one
\* that is gone.
LEMMA SubEntryStays ==
  ASSUME NEW s, NEW t, NEW b, NEW i, NEW name, NEW path, NEW addr,
         Changes(s, t, b, i, name, path, addr),
         NEW d, ~Gone(s, b, i, d), NEW j \in Slot
  PROVE  /\ Leads(s, Root, j) /\ IsDir(Pointer(s, Root, j)) /\ Target(s, Root, j) = d
            <=> Leads(t, Root, j) /\ IsDir(Pointer(t, Root, j)) /\ Target(t, Root, j) = d
         /\ Leads(s, Root, j) /\ IsDir(Pointer(s, Root, j)) /\ Target(s, Root, j) = d =>
               t.part[Root].entry[j] = s.part[Root].entry[j]
<1>1. /\ s \in Volumes /\ Shape(s) /\ b \in Dirs(s) /\ i \in Slot /\ Root \in Dirs(s)
      /\ t.part[b].entry[i].addr = addr /\ ~(IsDir(addr) /\ Linked(addr))
  BY DirsAre DEF Changes
<1>2. ~Gone(s, b, i, Root)
  BY <1>1, GoneIs
<1>3. CASE Root = b /\ j = i
  <2>1. j # 0
    BY SlotsArePorts
  <2>2. Pointer(t, Root, j) = addr
    BY <1>1, <1>3, <2>1 DEF Pointer
  <2>3. ~(Leads(t, Root, j) /\ IsDir(Pointer(t, Root, j)))
    BY <1>1, <2>2 DEF Leads
  <2>4. ~(Leads(s, Root, j) /\ Target(s, Root, j) = d)
    BY <1>3 DEF Gone
  <2> QED BY <2>3, <2>4
<1>4. CASE ~(Root = b /\ j = i)
  <2>1. /\ t.part[Root].entry[j] = s.part[Root].entry[j]
        /\ Pointer(t, Root, j) = Pointer(s, Root, j)
    BY <1>1, <1>2, <1>4, EntryStays
  <2> QED BY <2>1 DEF Leads, Target
<1> QED BY <1>3, <1>4

LEMMA DirsStay ==
  ASSUME NEW s, NEW t, NEW b, NEW i, NEW name, NEW path, NEW addr,
         Changes(s, t, b, i, name, path, addr), NEW d
  PROVE  d \in Dirs(t) <=> d \in Dirs(s) /\ ~Gone(s, b, i, d)
<1>1. /\ s \in Volumes /\ Shape(s) /\ b \in Dirs(s) /\ i \in Slot /\ Root \in Dirs(s)
      /\ Root \in Dirs(t) /\ t.part[b].entry[i].addr = addr /\ ~(IsDir(addr) /\ Linked(addr))
  BY DirsAre DEF Changes
<1>2. ~Gone(s, b, i, Root)
  BY <1>1, GoneIs
<1>3. CASE d = Root
  BY <1>1, <1>2, <1>3
<1>4. CASE d # Root /\ ~Gone(s, b, i, d)
  <2>1. d \in Dirs(s) <=> \E j \in Slot : /\ Leads(s, Root, j) /\ IsDir(Pointer(s, Root, j))
                                          /\ Target(s, Root, j) = d
    BY <1>4 DEF Dirs
  <2>2. d \in Dirs(t) <=> \E j \in Slot : /\ Leads(t, Root, j) /\ IsDir(Pointer(t, Root, j))
                                          /\ Target(t, Root, j) = d
    BY <1>4 DEF Dirs
  <2> QED BY <2>1, <2>2, <1>4, SubEntryStays
<1>5. CASE d # Root /\ Gone(s, b, i, d)
  <2>1. SUFFICES ASSUME d \in Dirs(t) PROVE FALSE
    BY <1>5
  <2>2. PICK j \in Slot : /\ Leads(t, Root, j) /\ IsDir(Pointer(t, Root, j))
                          /\ Target(t, Root, j) = d
    BY <1>5, <2>1 DEF Dirs
  <2>3. j # 0 /\ j \in Port /\ i \in Port
    BY <1>1, SlotsArePorts
  <2>4. ~(Root = b /\ j = i)
    BY <1>1, <2>2, <2>3 DEF Leads, Pointer
  <2>5. Pointer(t, Root, j) = Pointer(s, Root, j)
    BY <1>1, <1>2, <2>4, EntryStays
  <2>6. Leads(s, Root, j) /\ Target(s, Root, j) = d
    BY <2>2, <2>5 DEF Leads, Target
  <2>7. Leads(s, b, i) /\ Target(s, b, i) = d /\ b \in Block /\ Root \in Block /\ OneWay(s)
    BY <1>1, <1>5, DirsAre DEF Gone, Shape
  <2> QED BY <2>3, <2>4, <2>6, <2>7 DEF OneWay
<1> QED BY <1>3, <1>4, <1>5

LEMMA PathsStay ==
  ASSUME NEW s, NEW t, NEW b, NEW i, NEW name, NEW path, NEW addr,
         Changes(s, t, b, i, name, path, addr), NEW d, ~Gone(s, b, i, d),
         NEW own, NEW r
  PROVE  PathTo(t, d, own, r) <=> PathTo(s, d, own, r)
<1>1. ASSUME NEW k \in Slot
      PROVE  (/\ Leads(s, Root, k) /\ IsDir(Pointer(s, Root, k)) /\ Target(s, Root, k) = d
              /\ r = <<s.part[Root].entry[k].name, own>>)
             <=> (/\ Leads(t, Root, k) /\ IsDir(Pointer(t, Root, k)) /\ Target(t, Root, k) = d
                  /\ r = <<t.part[Root].entry[k].name, own>>)
  BY SubEntryStays
<1> QED BY <1>1 DEF PathTo

LEMMA OthersStay ==
  ASSUME NEW s, NEW t, NEW b, NEW i, NEW name, NEW path, NEW addr,
         Changes(s, t, b, i, name, path, addr), NEW d \in Dirs(s), ~Gone(s, b, i, d),
         NEW j \in Slot, ~(d = b /\ j = i), NEW r
  PROVE  /\ Named(t, d, j, r) <=> Named(s, d, j, r)
         /\ NodeOf(t, d, j, r) = NodeOf(s, d, j, r)
<1>1. /\ t.part[d].entry[j] = s.part[d].entry[j]
      /\ Pointer(t, d, j) = Pointer(s, d, j)
  BY EntryStays
<1>2. d \in Dirs(t)
  BY DirsStay
<1>3. j \in PresentIn(t.part[d]) <=> j \in PresentIn(s.part[d])
  BY <1>1 DEF PresentIn
<1>4. PICK own : own = s.part[d].entry[j].name
  OBVIOUS
<1>5. PathTo(t, d, own, r) <=> PathTo(s, d, own, r)
  BY PathsStay
<1>6. Named(t, d, j, r) <=> Named(s, d, j, r)
  BY <1>1, <1>2, <1>3, <1>4, <1>5 DEF Named
<1>7. PICK a : a = Pointer(s, d, j)
  OBVIOUS
<1>8. DataIn(t, a) = DataIn(s, a)
  <2>1. s \in Volumes /\ t \in Volumes /\ Shape(s) /\ Edited(s, t, b, i)
    BY DEF Changes
  <2>2. a \in AddrType
    BY <2>1, <1>7, DirsAre, Pointers, SlotsArePorts
  <2>3. ASSUME ~IsDir(a), Linked(a)
        PROVE  a.lba \in Block /\ \A c \in ToSet(Chain(s, a.lba)) : t.part[c] = s.part[c]
    <3>1. Leads(s, d, j) /\ ~IsDir(Pointer(s, d, j)) /\ Target(s, d, j) = a.lba
      BY <2>3, <1>7 DEF Leads, Target
    <3>2. a.lba \in Block
      BY <2>1, <3>1, SubTarget
    <3>3. \A c \in ToSet(Chain(s, Target(s, d, j))) : t.part[c] = s.part[c]
      BY <2>1, <3>1 DEF Edited, Gone
    <3> QED BY <3>1, <3>2, <3>3
  <2> QED BY <2>1, <2>2, <2>3, SameData
<1>9. NodeOf(s, d, j, r) = FT!Node(r, IsDir(a), DataIn(s, a))
  BY <1>7 DEF NodeOf
<1>10. NodeOf(t, d, j, r) = FT!Node(r, IsDir(a), DataIn(t, a))
  BY <1>1, <1>7 DEF NodeOf
<1> QED BY <1>6, <1>8, <1>9, <1>10

LEMMA LeadsGone ==
  ASSUME NEW s, NEW t, NEW b, NEW i, NEW name, NEW path, NEW addr,
         Changes(s, t, b, i, name, path, addr),
         NEW c, NEW j, NEW r, Named(s, c, j, r)
  PROVE  FT!Leads(path, r) <=> (c = b /\ j = i) \/ Gone(s, b, i, c)
<1>1. /\ s \in Volumes /\ Shape(s) /\ b \in Dirs(s) /\ i \in Slot /\ PathTo(s, b, name, path)
      /\ \A k \in PresentIn(s.part[b]) : s.part[b].entry[k].name = name <=> k = i
  BY DEF Changes
<1>2. c \in Dirs(s) /\ j \in PresentIn(s.part[c])
  BY DEF Named
<1>3. FT!Leads(path, r) <=>
        \/ c = b /\ s.part[c].entry[j].name = name
        \/ /\ b = Root /\ c # Root
           /\ \E k \in Slot : /\ Leads(s, Root, k) /\ IsDir(Pointer(s, Root, k))
                              /\ Target(s, Root, k) = c
                              /\ s.part[Root].entry[k].name = name
  BY <1>1, PathLeads
<1>4. c = b => (s.part[c].entry[j].name = name <=> j = i)
  BY <1>1, <1>2
<1>5. ASSUME NEW k \in Slot, Leads(s, Root, k) PROVE k \in PresentIn(s.part[Root])
  BY <1>5, SlotsArePorts DEF Leads, Linked, Pointer, PresentIn
<1>6. ASSUME b = Root, NEW k \in Slot, Leads(s, Root, k), Target(s, Root, k) = c,
             s.part[Root].entry[k].name = name
      PROVE  Gone(s, b, i, c)
  <2>1. k = i
    BY <1>1, <1>5, <1>6
  <2> QED BY <1>6, <2>1 DEF Gone
<1>7. ASSUME Gone(s, b, i, c)
      PROVE  /\ b = Root /\ c # Root /\ Leads(s, Root, i) /\ IsDir(Pointer(s, Root, i))
             /\ Target(s, Root, i) = c /\ s.part[Root].entry[i].name = name
  <2>1. b = Root /\ c # Root /\ IsDir(Pointer(s, b, i))
    BY <1>1, <1>2, <1>7, GoneIs
  <2>2. Leads(s, Root, i) /\ Target(s, Root, i) = c
    BY <1>7, <2>1 DEF Gone
  <2>3. s.part[Root].entry[i].name = name
    BY <1>1, <1>5, <2>1, <2>2
  <2> QED BY <2>1, <2>2, <2>3
<1> QED BY <1>1, <1>3, <1>4, <1>6, <1>7

LEMMA NewNamed ==
  ASSUME NEW s, NEW t, NEW b, NEW i, NEW name, NEW path, NEW addr,
         Changes(s, t, b, i, name, path, addr), NEW r
  PROVE  Named(t, b, i, r) <=> Present(addr) /\ r = path
<1>1. /\ s \in Volumes /\ Shape(s) /\ t \in Volumes /\ Shape(t)
      /\ b \in Dirs(s) /\ i \in Slot /\ PathTo(s, b, name, path) /\ Edited(s, t, b, i)
      /\ t.part[b].entry[i].addr = addr
      /\ Present(addr) => t.part[b].entry[i].name = name
  BY DEF Changes
<1>2. b \in Dirs(t) /\ PathTo(t, b, name, path)
  BY <1>1, PathKept
<1>3. i \in PresentIn(t.part[b]) <=> Present(addr)
  BY <1>1 DEF PresentIn
<1>4. Present(addr) => Named(t, b, i, path)
  BY <1>1, <1>2, <1>3 DEF Named
<1>5. ASSUME Named(t, b, i, r) PROVE Present(addr) /\ r = path
  <2>1. Present(addr)
    BY <1>3, <1>5 DEF Named
  <2> QED BY <2>1, <1>1, <1>4, <1>5, NamedOnce
<1> QED BY <1>4, <1>5

\* The tree loses what is below the path, and gets the entry.
LEMMA TreeChanges ==
  ASSUME NEW s, NEW t, NEW b, NEW i, NEW name, NEW path, NEW addr,
         Changes(s, t, b, i, name, path, addr)
  PROVE  Replaced(s, t, path, IF Present(addr)
                              THEN {FT!Node(path, IsDir(addr), DataIn(t, addr))} ELSE {})
<1>1. /\ s \in Volumes /\ Shape(s) /\ t \in Volumes /\ Shape(t)
      /\ b \in Dirs(s) /\ i \in Slot /\ t.part[b].entry[i].addr = addr
  BY DEF Changes
<1>2. PICK others : others = IF Present(addr)
                             THEN {FT!Node(path, IsDir(addr), DataIn(t, addr))} ELSE {}
  OBVIOUS
<1>3. NodeOf(t, b, i, path) = FT!Node(path, IsDir(addr), DataIn(t, addr))
  <2>1. Pointer(t, b, i) = addr
    BY <1>1, SlotsArePorts DEF Pointer
  <2> QED BY <2>1 DEF NodeOf
<1>4. \A n : n \in others <=> Present(addr) /\ n = NodeOf(t, b, i, path)
  BY <1>2, <1>3
<1>5. ASSUME NEW n, InTree(t, n)
      PROVE  (InTree(s, n) /\ ~FT!Leads(path, n.path)) \/ n \in others
  <2>1. PICK c, j, r : Named(t, c, j, r) /\ n = NodeOf(t, c, j, r)
    BY <1>5 DEF InTree
  <2>2. CASE c = b /\ j = i
    <3>1. Present(addr) /\ r = path
      BY <2>1, <2>2, NewNamed
    <3> QED BY <2>1, <2>2, <3>1, <1>4
  <2>3. CASE ~(c = b /\ j = i)
    <3>1. c \in Dirs(t) /\ j \in Slot
      BY <2>1, PresentFinite DEF Named
    <3>2. c \in Dirs(s) /\ ~Gone(s, b, i, c)
      BY <3>1, DirsStay
    <3>3. Named(s, c, j, r) /\ n = NodeOf(s, c, j, r)
      BY <2>1, <2>3, <3>1, <3>2, OthersStay
    <3>4. ~FT!Leads(path, r)
      BY <2>3, <3>2, <3>3, LeadsGone
    <3>5. n.path = r
      BY <3>3 DEF NodeOf, FT!Node
    <3> QED BY <3>3, <3>4, <3>5 DEF InTree
  <2> QED BY <2>2, <2>3
<1>6. ASSUME NEW n, InTree(s, n), ~FT!Leads(path, n.path) PROVE InTree(t, n)
  <2>1. PICK c, j, r : Named(s, c, j, r) /\ n = NodeOf(s, c, j, r)
    BY <1>6 DEF InTree
  <2>2. n.path = r
    BY <2>1 DEF NodeOf, FT!Node
  <2>3. ~(c = b /\ j = i) /\ ~Gone(s, b, i, c)
    BY <1>6, <2>1, <2>2, LeadsGone
  <2>4. c \in Dirs(s) /\ j \in Slot
    BY <2>1, PresentFinite DEF Named
  <2>5. Named(t, c, j, r) /\ n = NodeOf(t, c, j, r)
    BY <2>1, <2>3, <2>4, OthersStay
  <2> QED BY <2>5 DEF InTree
<1>7. ASSUME NEW n, n \in others PROVE InTree(t, n)
  <2>1. Present(addr) /\ n = NodeOf(t, b, i, path)
    BY <1>4, <1>7
  <2>2. Named(t, b, i, path)
    BY <2>1, NewNamed
  <2> QED BY <2>1, <2>2 DEF InTree
<1>8. Replaced(s, t, path, others)
  BY <1>5, <1>6, <1>7 DEF Replaced
<1> QED BY <1>2, <1>8

-----------------------------------------------------------------------------
(* Commands.                                                               *)

Members(s, T) == \A n : n \in T <=> InTree(s, n)

\* What creating an object and what writing does to the tree.
TreeCreates(T, U, path) ==
    \E d \in BOOLEAN :
        /\ Len(path) > 1 => FT!Node(SubSeq(path, 1, Len(path) - 1), TRUE, <<>>) \in T
        /\ U = {n \in T : ~FT!Leads(path, n.path)} \cup {FT!Node(path, d, <<>>)}
TreeWrites(T, U, path) ==
    /\ FT!Node(path, FALSE, <<>>) \in T
    /\ \E n \in U : /\ n.path = path /\ ~n.dir
                    /\ U = {m \in T : ~FT!Leads(path, m.path)} \cup {n}

LEMMA EnteredTree ==
  ASSUME NEW s \in Volumes, Shape(s), NEW t \in Volumes, Shape(t),
         NEW path, NEW name, NEW addr, Entered(s, t, path, name, addr),
         ~(IsDir(addr) /\ Linked(addr)),
         NEW T, NEW U, Members(s, T), Members(t, U), NEW others,
         others = IF Present(addr)
                  THEN {FT!Node(path, IsDir(addr), DataIn(t, addr))} ELSE {}
  PROVE  U = {n \in T : ~FT!Leads(path, n.path)} \cup others
<1>1. PICK b \in Dirs(s), i \in Slot :
         /\ PathTo(s, b, name, path)
         /\ \A j \in PresentIn(s.part[b]) : s.part[b].entry[j].name = name <=> j = i
         /\ Edited(s, t, b, i)
         /\ t.part[b].entry[i].addr = addr
         /\ Present(addr) => t.part[b].entry[i].name = name
  BY DEF Entered
<1>2. Changes(s, t, b, i, name, path, addr)
  BY <1>1 DEF Changes
<1>3. Replaced(s, t, path, others)
  BY <1>2, TreeChanges
<1> QED BY <1>3 DEF Replaced, Members

\* What the path of an entry leads through is a directory.
LEMMA Parent ==
  ASSUME NEW s \in Volumes, Shape(s), NEW path \in Path, NEW b \in Dirs(s), NEW name,
         PathTo(s, b, name, path), NEW T, Members(s, T)
  PROVE  Len(path) > 1 => FT!Node(SubSeq(path, 1, Len(path) - 1), TRUE, <<>>) \in T
<1>1. CASE b = Root /\ path = <<name>>
  BY <1>1
<1>2. CASE \E k \in Slot : /\ Leads(s, Root, k) /\ IsDir(Pointer(s, Root, k))
                           /\ path = <<s.part[Root].entry[k].name, name>>
  <2>1. PICK k \in Slot : /\ Leads(s, Root, k) /\ IsDir(Pointer(s, Root, k))
                          /\ path = <<s.part[Root].entry[k].name, name>>
    BY <1>2
  <2>2. PICK dir : dir = s.part[Root].entry[k].name
    OBVIOUS
  <2>3. path = <<dir, name>>
    BY <2>1, <2>2
  <2>4. Len(path) = 2 /\ Len(path) - 1 = 1
    BY <2>3
  <2>5. SubSeq(path, 1, 1) = <<dir>>
    BY <2>3, Beginnings
  <2>6. k \in PresentIn(s.part[Root]) /\ Root \in Dirs(s)
    BY <2>1, SlotsArePorts, DirsAre DEF Leads, Linked, Pointer, PresentIn
  <2>7. Named(s, Root, k, <<dir>>)
    BY <2>2, <2>6 DEF Named, PathTo
  <2>8. NodeOf(s, Root, k, <<dir>>) = FT!Node(<<dir>>, TRUE, <<>>)
    <3>1. IsDir(Pointer(s, Root, k)) = TRUE
      BY <2>1 DEF IsDir
    <3>2. DataIn(s, Pointer(s, Root, k)) = <<>>
      BY <2>1 DEF DataIn
    <3> QED BY <3>1, <3>2 DEF NodeOf
  <2>9. FT!Node(<<dir>>, TRUE, <<>>) \in T
    BY <2>7, <2>8 DEF InTree, Members
  <2> QED BY <2>4, <2>5, <2>9
<1> QED BY <1>1, <1>2 DEF PathTo

LEMMA MadeTree ==
  ASSUME NEW s \in Volumes, Shape(s), NEW t \in Volumes, Shape(t), NEW path \in Path,
         NEW type, Made(s, t, path, type), NEW T, NEW U, Members(s, T), Members(t, U)
  PROVE  U = T \/ TreeCreates(T, U, path)
<1>1. CASE t = s
  BY <1>1 DEF Members
<1>2. CASE Entered(s, t, path, path[Len(path)], NewAddr(type))
  <2>1. PICK name, addr : name = path[Len(path)] /\ addr = NewAddr(type)
    OBVIOUS
  <2>2. Present(addr) /\ ~Linked(addr)
    BY <2>1, NewAddrIs
  <2>3. PICK d \in BOOLEAN : d = IsDir(addr)
    <3>1. IsDir(addr) \in BOOLEAN
      BY DEF IsDir
    <3> QED BY <3>1, Zenon
  <2>4. DataIn(t, addr) = <<>>
    BY <2>2 DEF DataIn
  <2>5. PICK others : others = {FT!Node(path, d, <<>>)}
    OBVIOUS
  <2>6. others = IF Present(addr) THEN {FT!Node(path, IsDir(addr), DataIn(t, addr))} ELSE {}
    BY <2>2, <2>3, <2>4, <2>5
  <2>7. Entered(s, t, path, name, addr)
    BY <1>2, <2>1
  <2>8. U = {n \in T : ~FT!Leads(path, n.path)} \cup others
    BY <2>2, <2>6, <2>7, EnteredTree
  <2>9. PICK b \in Dirs(s) : PathTo(s, b, name, path)
    BY <2>7 DEF Entered
  <2>10. Len(path) > 1 => FT!Node(SubSeq(path, 1, Len(path) - 1), TRUE, <<>>) \in T
    BY <2>9, Parent
  <2> QED BY <2>5, <2>8, <2>10 DEF TreeCreates
<1> QED BY <1>1, <1>2 DEF Made

LEMMA DeletedTree ==
  ASSUME NEW s \in Volumes, Shape(s), NEW path \in Path, NEW b \in Dirs(s),
         NEW i \in PresentIn(s.part[b]), PathTo(s, b, s.part[b].entry[i].name, path),
         NEW t, t = Deleted(s, <<b, i>>),
         NEW T, NEW U, Members(s, T), Members(t, U)
  PROVE  /\ \E n \in T : n.path = path
         /\ U = {n \in T : ~FT!Leads(path, n.path)}
<1>1. t \in Volumes /\ Shape(t) /\ Edited(s, t, b, i) /\ t.part[b].entry[i] = NoEntry
  BY DeletedShape
<1>2. PICK name : name = s.part[b].entry[i].name
  OBVIOUS
<1>3. \A j \in PresentIn(s.part[b]) : s.part[b].entry[j].name = name <=> j = i
  <2>1. DirShape(s.part[b])
    BY DirsAre
  <2> QED BY <1>2, <2>1 DEF DirShape
<1>4. PICK addr : /\ addr = NoAddr /\ t.part[b].entry[i].addr = addr
                  /\ ~Present(addr) /\ ~Linked(addr)
  BY <1>1 DEF NoEntry, NoAddr, Addr, Present, Linked
<1>5. i \in Slot
  BY PresentFinite
<1>6. Entered(s, t, path, name, addr)
  BY <1>1, <1>2, <1>3, <1>4, <1>5 DEF Entered
<1>7. PICK others : others = IF Present(addr)
                             THEN {FT!Node(path, IsDir(addr), DataIn(t, addr))} ELSE {}
  OBVIOUS
<1>8. U = {n \in T : ~FT!Leads(path, n.path)} \cup others
  BY <1>1, <1>4, <1>6, <1>7, EnteredTree
<1>9. U = {n \in T : ~FT!Leads(path, n.path)}
  BY <1>4, <1>7, <1>8
<1>10. NodeOf(s, b, i, path) \in T
  <2>1. Named(s, b, i, path)
    BY DEF Named
  <2> QED BY <2>1 DEF InTree, Members
<1>11. NodeOf(s, b, i, path).path = path
  BY DEF NodeOf, FT!Node
<1> QED BY <1>9, <1>10, <1>11

LEMMA WrittenTree ==
  ASSUME NEW s \in Volumes, Shape(s), NEW e, Opened(s, e), NEW data, NEW t \in Volumes, Shape(t),
         FirstPart(s, e, data, t), NEW T, NEW U, Members(s, T), Members(t, U)
  PROVE  \E path \in Path : TreeWrites(T, U, path)
<1>1. PICK name : name = EntryAt(s, e).name
  OBVIOUS
<1>2. PICK path \in Path, x \in 0..BLOCKS :
         PathTo(s, e[1], name, path) /\ Entered(s, t, path, name, NewPart(x))
  BY <1>1 DEF FirstPart
<1>3. PICK b \in Dirs(s) : b = e[1] /\ e[2] \in PresentIn(s.part[b])
  BY DEF Opened
<1>4. PICK i \in PresentIn(s.part[b]) : i = e[2]
  BY <1>3
<1>5. /\ b = e[1] /\ name = s.part[b].entry[i].name
      /\ ~IsDir(s.part[b].entry[i].addr) /\ ~Linked(s.part[b].entry[i].addr)
  BY <1>1, <1>3, <1>4 DEF Opened, EntryAt
<1>6. FT!Node(path, FALSE, <<>>) \in T
  <2>1. i \in Slot /\ i # 0
    BY PresentFinite, SlotsArePorts
  <2>2. PICK addr : addr = Pointer(s, b, i) /\ addr = s.part[b].entry[i].addr
    BY <2>1 DEF Pointer
  <2>3. IsDir(addr) = FALSE /\ DataIn(s, addr) = <<>>
    BY <2>2, <1>5 DEF IsDir, DataIn
  <2>4. NodeOf(s, b, i, path) = FT!Node(path, FALSE, <<>>)
    BY <2>2, <2>3 DEF NodeOf
  <2>5. Named(s, b, i, path)
    BY <1>2, <1>5 DEF Named
  <2> QED BY <2>4, <2>5 DEF InTree, Members
<1>7. PICK addr : addr = NewPart(x) /\ Linked(addr) /\ ~IsDir(addr) /\ Present(addr)
  BY NewPartIs DEF Linked
<1>8. PICK n : n = FT!Node(path, IsDir(addr), DataIn(t, addr))
  OBVIOUS
<1>9. PICK others : others = {n}
  OBVIOUS
<1>10. others = IF Present(addr) THEN {FT!Node(path, IsDir(addr), DataIn(t, addr))} ELSE {}
  BY <1>7, <1>8, <1>9
<1>11. U = {m \in T : ~FT!Leads(path, m.path)} \cup others
  BY <1>2, <1>7, <1>10, EnteredTree
<1>12. n.path = path /\ ~n.dir
  BY <1>7, <1>8 DEF FT!Node
<1>13. TreeWrites(T, U, path)
  BY <1>6, <1>9, <1>11, <1>12 DEF TreeWrites
<1> QED BY <1>13

-----------------------------------------------------------------------------
(* The tree that the properties name.                                      *)

LEMMA NodeIs ==
  ASSUME NEW b, NEW i \in Slot, NEW path
  PROVE  NodeAt(<<b, i>>, path) = NodeOf(state, b, i, path)
<1>1. i # 0 /\ <<b, i>>[1] = b /\ <<b, i>>[2] = i /\ state.part = part
  BY SlotsArePorts DEF state
<1>2. PICK a : a = AddrOf(<<b, i>>) /\ a = Pointer(state, b, i)
  BY <1>1 DEF AddrOf, EntryAt, Pointer
<1>3. ~IsDir(a) => Content(a) = DataIn(state, a)
  <2>1. CASE Linked(a) /\ ~IsDir(a)
    <3>1. PICK chain : chain = Chain(state, a.lba)
      OBVIOUS
    <3>2. Content(a) = FlattenSeq([k \in 1..Len(chain) |->
                                     Bytes(part[chain[k]], 1, part[chain[k]].part_size)])
      BY <2>1, <3>1, Zenon DEF Content
    <3>3. DataIn(state, a) = FlattenSeq([k \in 1..Len(chain) |-> PartData(state.part[chain[k]])])
      BY <2>1, <3>1, Zenon DEF DataIn
    <3>4. \A p : PartData(p) = Bytes(p, 1, p.part_size)
      BY DEF PartData
    <3>5. [k \in 1..Len(chain) |-> Bytes(part[chain[k]], 1, part[chain[k]].part_size)] =
          [k \in 1..Len(chain) |-> PartData(state.part[chain[k]])]
      BY <1>1, <3>4
    <3> QED BY <3>2, <3>3, <3>5
  <2>2. CASE ~Linked(a)
    BY <2>2 DEF Content, DataIn
  <2> QED BY <2>1, <2>2
<1>4. PICK data : data = IF IsDir(a) THEN <<>> ELSE Content(a)
  OBVIOUS
<1>5. data = DataIn(state, a)
  BY <1>3, <1>4 DEF DataIn
<1>6. NodeAt(<<b, i>>, path) = [path |-> path, dir |-> IsDir(a), data |-> data]
  BY <1>2, <1>4, Zenon DEF NodeAt
<1>7. NodeOf(state, b, i, path) = [path |-> path, dir |-> IsDir(a), data |-> DataIn(state, a)]
  BY <1>2, Zenon DEF NodeOf, FT!Node
<1> QED BY <1>5, <1>6, <1>7

LEMMA NameIs ==
  ASSUME NEW b, NEW i
  PROVE  NameOf(<<b, i>>) = state.part[b].entry[i].name
BY DEF NameOf, EntryAt

TreeIs == volume = "sound" => Members(state, Tree)

LEMMA InvTree == Inv => TreeIs
<1>1. SUFFICES ASSUME Inv, volume = "sound", NEW n PROVE n \in Tree <=> InTree(state, n)
  BY DEF TreeIs, Members
<1>2. state \in Volumes /\ Shape(state) /\ state.part = part
  BY <1>1 DEF Inv, state
<1>3. Tree = {NodeAt(e, <<NameOf(e)>>) : e \in RootEntries}
             \cup UNION {{NodeAt(g, <<NameOf(e), NameOf(g)>>) : g \in SubEntries(e)} :
                          e \in RootEntries}
  BY <1>1 DEF Tree
<1>4. \A e : e \in RootEntries <=> \E i \in PresentIn(part[Root]) : e = <<Root, i>>
  BY <1>2, EntriesAre
<1>5. ASSUME NEW i \in PresentIn(part[Root]), NEW g
      PROVE  g \in SubEntries(<<Root, i>>) <=>
                /\ Leads(state, Root, i) /\ IsDir(Pointer(state, Root, i))
                /\ \E j \in PresentIn(part[Target(state, Root, i)]) :
                      g = <<Target(state, Root, i), j>>
  BY <1>2, SubEntryIs
<1>6. ASSUME NEW i \in PresentIn(part[Root])
      PROVE  /\ Named(state, Root, i, <<NameOf(<<Root, i>>)>>)
             /\ NodeAt(<<Root, i>>, <<NameOf(<<Root, i>>)>>) =
                   NodeOf(state, Root, i, <<NameOf(<<Root, i>>)>>)
  <2>1. i \in Slot /\ Root \in Dirs(state)
    BY <1>2, PresentFinite, DirsAre
  <2>2. NameOf(<<Root, i>>) = state.part[Root].entry[i].name
    BY NameIs
  <2>3. Named(state, Root, i, <<NameOf(<<Root, i>>)>>)
    BY <1>2, <2>1, <2>2 DEF Named, PathTo
  <2> QED BY <2>1, <2>3, NodeIs
<1>7. ASSUME NEW i \in PresentIn(part[Root]), Leads(state, Root, i), IsDir(Pointer(state, Root, i)),
             NEW d, d = Target(state, Root, i), NEW j \in PresentIn(part[d])
      PROVE  /\ Named(state, d, j, <<NameOf(<<Root, i>>), NameOf(<<d, j>>)>>)
             /\ NodeAt(<<d, j>>, <<NameOf(<<Root, i>>), NameOf(<<d, j>>)>>) =
                   NodeOf(state, d, j, <<NameOf(<<Root, i>>), NameOf(<<d, j>>)>>)
  <2>1. i \in Slot /\ j \in Slot
    BY PresentFinite
  <2>2. d \in Dirs(state)
    BY <1>2, <1>7, <2>1, DirsAre
  <2>3. PICK dir, own : /\ dir = NameOf(<<Root, i>>) /\ own = NameOf(<<d, j>>)
                        /\ dir = state.part[Root].entry[i].name
                        /\ own = state.part[d].entry[j].name
    BY NameIs
  <2>4. PathTo(state, d, own, <<dir, own>>)
    BY <1>7, <2>1, <2>3 DEF PathTo
  <2>5. Named(state, d, j, <<dir, own>>)
    BY <1>2, <2>2, <2>3, <2>4 DEF Named
  <2>6. NodeAt(<<d, j>>, <<dir, own>>) = NodeOf(state, d, j, <<dir, own>>)
    BY <2>1, NodeIs
  <2> QED BY <2>3, <2>5, <2>6
<1>8. ASSUME n \in Tree PROVE InTree(state, n)
  <2>1. CASE \E e \in RootEntries : n = NodeAt(e, <<NameOf(e)>>)
    <3>1. PICK i \in PresentIn(part[Root]) : n = NodeAt(<<Root, i>>, <<NameOf(<<Root, i>>)>>)
      BY <2>1, <1>4
    <3> QED BY <3>1, <1>6 DEF InTree
  <2>2. CASE \E e \in RootEntries : \E g \in SubEntries(e) :
                n = NodeAt(g, <<NameOf(e), NameOf(g)>>)
    <3>1. PICK i \in PresentIn(part[Root]) : \E g \in SubEntries(<<Root, i>>) :
                n = NodeAt(g, <<NameOf(<<Root, i>>), NameOf(g)>>)
      BY <2>2, <1>4
    <3>2. PICK g \in SubEntries(<<Root, i>>) : n = NodeAt(g, <<NameOf(<<Root, i>>), NameOf(g)>>)
      BY <3>1
    <3>3. PICK d : d = Target(state, Root, i)
      OBVIOUS
    <3>4. PICK j \in PresentIn(part[d]) : /\ g = <<d, j>> /\ Leads(state, Root, i)
                                          /\ IsDir(Pointer(state, Root, i))
      BY <3>2, <3>3, <1>5
    <3>5. n = NodeAt(<<d, j>>, <<NameOf(<<Root, i>>), NameOf(<<d, j>>)>>)
      BY <3>2, <3>4
    <3> QED BY <3>3, <3>4, <3>5, <1>7 DEF InTree
  <2> QED BY <2>1, <2>2, <1>3, <1>8
<1>9. ASSUME InTree(state, n) PROVE n \in Tree
  <2>1. PICK b, j, r : Named(state, b, j, r) /\ n = NodeOf(state, b, j, r)
    BY <1>9 DEF InTree
  <2>2. /\ b \in Dirs(state) /\ j \in PresentIn(part[b]) /\ j \in Slot
        /\ PathTo(state, b, state.part[b].entry[j].name, r)
    BY <2>1, <1>2, PresentFinite DEF Named
  <2>3. NodeAt(<<b, j>>, r) = n
    BY <2>1, <2>2, NodeIs
  <2>4. PICK own : own = NameOf(<<b, j>>) /\ own = state.part[b].entry[j].name
    BY NameIs
  <2>5. CASE b = Root
    <3>1. \A k \in Slot : Leads(state, Root, k) /\ IsDir(Pointer(state, Root, k)) =>
             Target(state, Root, k) # Root
      BY <1>2, DirsAre
    <3>2. r = <<own>>
      BY <2>2, <2>4, <2>5, <3>1 DEF PathTo
    <3>3. <<Root, j>> \in RootEntries
      BY <2>2, <2>5, <1>4
    <3> QED BY <2>3, <2>4, <2>5, <3>2, <3>3, <1>3
  <2>6. CASE b # Root
    <3>1. PICK k \in Slot : /\ Leads(state, Root, k) /\ IsDir(Pointer(state, Root, k))
                            /\ Target(state, Root, k) = b
                            /\ r = <<state.part[Root].entry[k].name, own>>
      BY <2>2, <2>4, <2>6 DEF PathTo
    <3>2. k \in PresentIn(part[Root])
      BY <1>2, <3>1, SlotsArePorts DEF Leads, Linked, Pointer, PresentIn
    <3>3. PICK e : e = <<Root, k>> /\ e \in RootEntries
      BY <3>2, <1>4
    <3>4. PICK g : g = <<b, j>> /\ g \in SubEntries(e)
      BY <2>2, <3>1, <3>2, <3>3, <1>5
    <3>5. n = NodeAt(g, <<NameOf(e), NameOf(g)>>)
      <4>1. NameOf(e) = state.part[Root].entry[k].name /\ NameOf(g) = own
        BY <2>4, <3>3, <3>4, NameIs
      <4> QED BY <2>3, <3>1, <3>4, <4>1
    <3> QED BY <3>3, <3>4, <3>5, <1>3
  <2> QED BY <2>5, <2>6
<1> QED BY <1>8, <1>9

-----------------------------------------------------------------------------
(* The steps.                                                              *)

LEMMA CreateStep ==
  ASSUME Inv, Ready, NEW path \in Path, NEW type, Becomes(Created(state, path, type)),
         volume' = "sound", Members(state, Tree), Members(state', Tree')
  PROVE  Tree' = Tree \/ \E d \in BOOLEAN : FT!Create(path, d)
<1>1. PICK s \in Volumes : s = state /\ Shape(s)
  BY DEF Inv, Ready
<1>2. PICK t \in Volumes : /\ t = Created(state, path, type)
                           /\ t.volume = "sound" => Shape(t) /\ Made(state, t, path, type)
  BY CreatedInv
<1>3. state' = t /\ Shape(t) /\ Made(s, t, path, type)
  BY <1>1, <1>2, BecomesIs
<1>4. PICK T, U : T = Tree /\ U = Tree' /\ Members(s, T) /\ Members(t, U)
  BY <1>1, <1>3
<1>5. U = T \/ TreeCreates(T, U, path)
  BY <1>1, <1>3, <1>4, MadeTree
<1> QED BY <1>4, <1>5 DEF TreeCreates, FT!Create, FT!Without

LEMMA DeleteStep ==
  ASSUME Inv, NEW path \in Path, Delete(path),
         Members(state, Tree), Members(state', Tree')
  PROVE  FT!Delete(path)
<1>1. PICK s \in Volumes : s = state /\ Shape(s)
  BY DEF Inv, Delete, Ready
<1>2. PICK any \in BOOLEAN : any = FALSE
  OBVIOUS
<1>3. PICK type : type = "undefined"
  OBVIOUS
<1>4. PICK pos : pos = FindPath(s, path, type, any) /\ pos # NotFound
                 /\ Becomes(Deleted(s, pos))
  BY <1>1, <1>2, <1>3 DEF Delete
<1>5. PICK b \in Dirs(s) : \E i \in PresentIn(s.part[b]) :
         /\ pos = <<b, i>> /\ Matches(s.part[b], i, path[Len(path)], type, any)
         /\ PathTo(s, b, path[Len(path)], path)
  BY <1>1, <1>4, FindPathIs
<1>6. PICK i \in PresentIn(s.part[b]) : pos = <<b, i>> /\ PathTo(s, b, s.part[b].entry[i].name, path)
  BY <1>5 DEF Matches
<1>7. PICK t : t = Deleted(s, <<b, i>>)
  OBVIOUS
<1>8. state' = t
  BY <1>1, <1>4, <1>6, <1>7, DeletedShape, BecomesIs
<1>9. PICK T, U : T = Tree /\ U = Tree' /\ Members(s, T) /\ Members(t, U)
  BY <1>1, <1>8
<1>10. (\E n \in T : n.path = path) /\ U = {n \in T : ~FT!Leads(path, n.path)}
  BY <1>1, <1>6, <1>7, <1>9, DeletedTree
<1> QED BY <1>9, <1>10 DEF FT!Delete, FT!Without

LEMMA WriteStep ==
  ASSUME Inv, NEW n \in 0..MAX_WRITE, WriteToFile(n), volume' = "sound",
         Members(state, Tree), Members(state', Tree')
  PROVE  \E path \in Path : FT!Write(path)
<1>1. PICK s \in Volumes : /\ s = state /\ Shape(s) /\ s.volume = "sound" /\ Opened(s, f)
  BY DEF Inv, WriteToFile, state
<1>2. PICK data \in Seq(0..MAX_WRITE) : data = [i \in 1..n |-> i]
  BY TextIs
<1>3. PICK e, t : e = f /\ t = Written(s, e, data)
  OBVIOUS
<1>4. /\ t \in Volumes
      /\ t.volume = "boot" \/ (Shape(t) /\ FirstPart(s, e, data, t))
  BY <1>1, <1>3, WrittenKept
<1>5. state' = t /\ volume' = t.volume
  BY <1>1, <1>2, <1>3, <1>4, BecomesIs DEF WriteToFile
<1>6. Shape(t) /\ FirstPart(s, e, data, t)
  BY <1>4, <1>5
<1>7. PICK T, U : T = Tree /\ U = Tree' /\ Members(s, T) /\ Members(t, U)
  BY <1>1, <1>5
<1>8. PICK path \in Path : TreeWrites(T, U, path)
  BY <1>1, <1>3, <1>4, <1>6, <1>7, WrittenTree
<1>9. FT!Write(path)
  BY <1>7, <1>8 DEF TreeWrites, FT!Write, FT!Without
<1> QED BY <1>9

LEMMA TreeStep ==
  ASSUME Inv, TreeIs, TreeIs', [Next]_vars
  PROVE  [FT!Next]_<<Tree, volume = "sound">>
<1>1. CASE volume' # "sound"
  BY <1>1 DEF FT!Next, FT!Break
<1>2. CASE volume' = "sound"
  <2>1. volume = "sound"
    BY <1>2, NextLoses
  <2>2. Members(state, Tree) /\ Members(state', Tree')
    BY <1>2, <2>1 DEF TreeIs
  <2>3. CASE Tree' = Tree
    BY <1>2, <2>1, <2>3
  <2>4. ASSUME NEW path \in Path, (\E d \in BOOLEAN : FT!Create(path, d)) \/ FT!Delete(path)
                                   \/ FT!Write(path)
        PROVE  FT!Next
    BY <1>2, <2>1, <2>4 DEF FT!Next
  <2>5. ASSUME NEW path \in Path, MakeDir(path)
        PROVE  Tree' = Tree \/ \E d \in BOOLEAN : FT!Create(path, d)
    BY <1>2, <2>2, <2>5, CreateStep DEF MakeDir
  <2>6. ASSUME NEW path \in Path, Open(path)
        PROVE  Tree' = Tree \/ \E d \in BOOLEAN : FT!Create(path, d)
    BY <1>2, <2>2, <2>6, CreateStep DEF Open
  <2>7. ASSUME NEW path \in Path, Delete(path) PROVE FT!Delete(path)
    BY <2>2, <2>7, DeleteStep
  <2>8. ASSUME NEW n \in 0..MAX_WRITE, WriteToFile(n) PROVE \E path \in Path : FT!Write(path)
    BY <1>2, <2>2, <2>8, WriteStep
  <2>9. CASE UNCHANGED vars
    <3>1. state' = state
      BY <2>9 DEF vars, state
    <3>2. Tree' = Tree
      BY <2>2, <3>1 DEF Members
    <3> QED BY <2>3, <3>2
  <2> QED BY <2>3, <2>4, <2>5, <2>6, <2>7, <2>8, <2>9 DEF Next
<1> QED BY <1>1, <1>2

\* As long as the volume is sound, what the user finds on it is a tree of files
\* (FileTree): making an object puts it in place of what had its path and all
\* below (create), deleting one takes all below it along (delete), what is
\* written changes that file alone (write), and no other file or directory.
THEOREM IsFileTree == Spec => TreeSpec
<1>1. Spec => []Inv
  BY InitInv, NextInv, PTL DEF Spec
<1>2. Inv => TreeIs
  BY InvTree
<1>3. Init => FT!Init
  BY DEF Init, FT!Init
<1>4. Inv /\ TreeIs /\ TreeIs' /\ [Next]_vars => [FT!Next]_<<Tree, volume = "sound">>
  BY TreeStep
<1> QED BY <1>1, <1>2, <1>3, <1>4, PTL DEF Spec, TreeSpec, FT!Spec

-----------------------------------------------------------------------------
(* What is written to a file.                                              *)

\* A write leaves in the open file the text it was given.
LEMMA WriteFills ==
  ASSUME Inv, NEW e \in Block \X Slot, NEW n \in 0..MAX_WRITE,
         e = f, WriteToFile(n), volume' = "sound"
  PROVE  Content(AddrOf(e))' = [i \in 1..n |-> i]
<1>1. PICK s \in Volumes : s = state /\ Shape(s) /\ s.volume = "sound" /\ Opened(s, e)
  BY DEF Inv, WriteToFile, state
<1>2. PICK data \in Seq(0..MAX_WRITE) : data = [i \in 1..n |-> i]
  BY TextIs
<1>3. PICK t : t = Written(s, e, data)
  OBVIOUS
<1>4. t \in Volumes /\ (t.volume = "boot" \/ FirstPart(s, e, data, t))
  BY <1>1, <1>3, WrittenKept
<1>5. state' = t /\ volume' = t.volume
  BY <1>1, <1>2, <1>3, <1>4, BecomesIs DEF WriteToFile
<1>6. FirstPart(s, e, data, t)
  BY <1>4, <1>5
<1>7. PICK x \in 0..BLOCKS : EntryAt(t, e).addr = NewPart(x) /\ DataIn(t, NewPart(x)) = data
  BY <1>6 DEF FirstPart
<1>8. PICK addr : /\ addr = NewPart(x) /\ Linked(addr) /\ ~IsDir(addr) /\ DataIn(t, addr) = data
  BY <1>7, NewPartIs
<1>9. AddrOf(e)' = addr /\ part' = t.part
  BY <1>5, <1>7, <1>8 DEF AddrOf, state
<1>10. Content(AddrOf(e))' = DataIn(t, addr)
  BY <1>5, <1>8, <1>9, Zenon DEF Content, DataIn, PartData
<1> QED BY <1>2, <1>8, <1>10

\* What is written to a file just created is all in it, in order, over as many
\* parts as it takes and whatever the size of a part (write_to_file): a part that
\* is full is continued in one that was free, and the chain is read in that order.
THEOREM WritesWhole == Spec => WritesAll
<1>1. Spec => []Inv
  BY InitInv, NextInv, PTL DEF Spec
<1>2. ASSUME Inv
      PROVE  \A e \in Block \X Slot, n \in 0..MAX_WRITE :
                e = f /\ WriteToFile(n) /\ volume' = "sound" =>
                    Content(AddrOf(e))' = [i \in 1..n |-> i]
  BY <1>2, WriteFills
<1> QED BY <1>1, <1>2, PTL DEF WritesAll

-----------------------------------------------------------------------------
(* Reading.  The offsets of the parts say where in the file each begins.   *)
(* A reader is at a place in a part, and what it has copied is what is in  *)
(* the file between the place where it began and that one.                 *)

Size == FILE_DATA_PER_PART

\* The parts of a chain, where each begins, and what they hold.
Parts(s, n, way) ==
    /\ n \in 1..BLOCKS /\ way \in [1..n -> Block]
    /\ \A k \in 1..n : FileShape(s.part[way[k]])
    /\ \A k \in 1..n - 1 : Leads(s, way[k], 0) /\ Target(s, way[k], 0) = way[k + 1]
    /\ ~Leads(s, way[n], 0)

Offsets(s, n, way, off) ==
    /\ off \in [0..n -> Nat] /\ off[0] = 0
    /\ \A k \in 1..n : off[k] = off[k - 1] + s.part[way[k]].part_size

Spread(s, n, way, off, c) ==
    /\ Parts(s, n, way) /\ Offsets(s, n, way, off)
    /\ c \in Seq(0..MAX_WRITE) /\ off[n] = Len(c)
    /\ \A k \in 1..n : Holds(s.part[way[k]], c, off[k - 1], s.part[way[k]].part_size)
    /\ Len(c) <= BLOCKS * Size
    /\ s.part[way[n]].part_size \in {0, Size} => Len(c) % Size = 0

-----------------------------------------------------------------------------
(* The parts of a file.                                                    *)

\* A file has one chain, which ends, of parts that are full but for the last.
LEMMA FileParts ==
  ASSUME NEW s \in Volumes, Shape(s), NEW b \in Block, NEW i \in Slot,
         Leads(s, b, i), ~IsDir(Pointer(s, b, i)), NEW x, x = Target(s, b, i)
  PROVE  x \in Block /\ \E n, way : Parts(s, n, way) /\ way[1] = x /\ Chain(s, x) = way
<1>1. i \in Port /\ 0 \in Port /\ BLOCKS \in Nat /\ s.used \subseteq Block /\ Boot \notin Block
  BY Sizes DEF Port, Slot, Volumes, Block, Boot
<1>2. Leading(s) /\ OneWay(s)
  BY DEF Shape
<1>3. x \in Block /\ x \in 0..BLOCKS
  BY <1>1, <1>2 DEF Leading, Block
<1>4. PICK at : at = At(s, x)
  OBVIOUS
<1>5. PICK n \in 1..BLOCKS + 1 : /\ Chain(s, x) = [k \in 1..n |-> at[k]]
                                 /\ \A k \in 1..n : at[k] \in Block
  BY <1>3, <1>4, ChainSeq
<1>6. \A m, k \in 1..BLOCKS + 1 : at[m] # Boot /\ at[m] = at[k] => m = k
  BY <1>2, <1>4, Apart
<1>7. n <= BLOCKS
  <2>1. SUFFICES ASSUME n = BLOCKS + 1 PROVE FALSE
    BY <1>1
  <2>2. IsFiniteSet(Block) /\ Cardinality(Block) = BLOCKS
    <3>1. BLOCKS \in Int /\ ~(1 > BLOCKS)
      BY Sizes
    <3>2. IsFiniteSet(1..BLOCKS) /\ Cardinality(1..BLOCKS) = BLOCKS - 1 + 1
      BY <3>1, FS_Interval
    <3> QED BY <3>1, <3>2 DEF Block
  <2>3. IsFiniteSet(1..BLOCKS + 1) /\ Cardinality(1..BLOCKS + 1) = BLOCKS + 1
    <3>1. PICK m \in Nat : m = BLOCKS + 1
      BY <1>1
    <3>2. ~(1 > m)
      BY <3>1, Sizes
    <3>3. IsFiniteSet(1..m) /\ Cardinality(1..m) = m - 1 + 1
      BY <3>1, <3>2, FS_Interval
    <3> QED BY <3>1, <3>3
  <2>4. PICK g, S : S = 1..BLOCKS + 1 /\ g = [k \in S |-> at[k]]
    OBVIOUS
  <2>5. g \in [S -> Block]
    BY <2>1, <2>4, <1>5
  <2>6. IsFiniteSet(S) /\ Cardinality(Block) < Cardinality(S)
    BY <2>2, <2>3, <2>4, <1>1
  <2>7. \E y, z \in S : y # z /\ g[y] = g[z]
    BY <2>2, <2>5, <2>6, FS_PigeonHole
  <2>8. PICK y, z \in 1..BLOCKS + 1 : y # z /\ g[y] = g[z]
    BY <2>4, <2>7
  <2>9. at[y] = at[z] /\ at[y] # Boot
    BY <2>1, <2>4, <2>8, <1>1, <1>5
  <2> QED BY <2>8, <2>9, <1>6
<1>8. PICK way \in [1..n -> Block] : way = Chain(s, x) /\ \A k \in 1..n : way[k] = at[k]
  BY <1>5
<1>9. n \in 1..BLOCKS /\ n \in Nat
  BY <1>1, <1>7
<1>10. way[1] = x
  BY <1>4, <1>8, <1>9, AtFirst
<1>11. ASSUME NEW k \in 1..n PROVE FileShape(s.part[way[k]])
  <2>1. ToSet(Chain(s, x)) \cap Dirs(s) = {}
    BY FileChain
  <2>2. way[k] \in ToSet(Chain(s, x)) /\ way[k] \in Block
    BY <1>5, <1>8 DEF ToSet
  <2> QED BY <2>1, <2>2 DEF Shape, Shaped
<1>12. ASSUME NEW k \in 1..n - 1 PROVE Leads(s, way[k], 0) /\ Target(s, way[k], 0) = way[k + 1]
  <2>1. PICK m \in 2..BLOCKS + 1 : m = k + 1 /\ m \in 1..n
    BY <1>9, <1>1
  <2>2. m - 1 = k /\ k \in 1..n
    BY <2>1, <1>9
  <2>3. at[m] = way[m] /\ at[m - 1] = way[k] /\ way[m] # Boot /\ at[m - 1] \in 0..BLOCKS
    <3>1. at[m] = way[m] /\ at[m - 1] = way[k] /\ way[m] \in Block /\ way[k] \in Block
      BY <2>1, <2>2, <1>8
    <3> QED BY <3>1, <1>1 DEF Block
  <2> QED BY <2>1, <2>2, <2>3, <1>3, <1>4, Before
<1>13. ~Leads(s, way[n], 0)
  <2>1. SUFFICES ASSUME Leads(s, way[n], 0) PROVE FALSE
    OBVIOUS
  <2>2. PICK m \in 2..BLOCKS + 1 : m = n + 1 /\ m - 1 = n /\ m \in 1..BLOCKS + 1 /\ m \notin 1..n
    BY <1>9, <1>1
  <2>3. PICK e \in Block : e = way[n] /\ e = at[n] /\ Leads(s, e, 0)
    BY <1>8, <1>9, <2>1
  <2>4. at[m] = NextPart(s, e)
    BY <1>4, <2>2, <2>3, AtNext
  <2>5. Target(s, e, 0) \in Block
    BY <2>3, <1>1, <1>2 DEF Leading
  <2>6. at[m] # Boot
    BY <2>3, <2>4, <2>5, <1>1 DEF NextPart, Leads, Target, Pointer
  <2>7. m \in DOMAIN Chain(s, x)
    BY <2>2, <2>6, <1>4, ChainIs
  <2> QED BY <2>2, <2>7, <1>5
<1> QED BY <1>3, <1>8, <1>9, <1>10, <1>11, <1>12, <1>13 DEF Parts

\* What is known of the sizes of parts.
LEMMA PartSize ==
  ASSUME NEW s \in Volumes, NEW n, NEW way, Parts(s, n, way), NEW k \in 1..n
  PROVE  /\ s.part[way[k]].part_size \in 0..Size /\ Size \in Nat \ {0}
         /\ n \in Nat /\ n > 0 /\ way[k] \in Block /\ s.part[way[k]] \in PartType
         /\ k \in 1..n - 1 \/ k = n
         /\ k \in 1..n - 1 => s.part[way[k]].part_size = Size
<1>1. n \in Nat /\ n > 0 /\ way[k] \in Block /\ FileShape(s.part[way[k]])
  BY Sizes DEF Parts
<1>2. s.part[way[k]] \in PartType
  BY <1>1 DEF Volumes
<1>3. k \in 1..n - 1 \/ k = n
  BY <1>1
<1>4. s.part[way[k]].part_size \in 0..Size /\ Size \in Nat \ {0}
  BY <1>1, <1>2, Sizes DEF FileShape, PartType, Size
<1>5. k \in 1..n - 1 => Linked(s.part[way[k]].next)
  BY DEF Parts, Leads, Pointer
<1> QED BY <1>1, <1>2, <1>3, <1>4, <1>5 DEF FileShape, Size

LEMMA Times ==
  ASSUME NEW a \in Nat, NEW b \in Nat, NEW c \in Nat \ {0}
  PROVE  /\ a * c \in Nat /\ (a + 1) * c = a * c + c /\ a <= b => a * c <= b * c
         /\ (a * c) % c = 0
OBVIOUS

\* The parts begin at multiples of their size.
LEMMA OffsetsExist ==
  ASSUME NEW s \in Volumes, NEW n, NEW way, Parts(s, n, way)
  PROVE  \E off : /\ Offsets(s, n, way, off)
                  /\ off[n] <= BLOCKS * Size
                  /\ s.part[way[n]].part_size \in {0, Size} => off[n] % Size = 0
<1>1. n \in Nat /\ n > 0 /\ n <= BLOCKS /\ BLOCKS \in Nat /\ n \in 1..n /\ Size \in Nat \ {0}
  BY Sizes DEF Parts, Size
<1>2. PICK m \in Nat : m = n - 1 /\ m + 1 = n
  BY <1>1
<1>3. PICK size \in 0..Size : size = s.part[way[n]].part_size
  BY <1>1, PartSize
<1>4. PICK low \in Nat : low = m * Size
  BY <1>1, <1>2, Times
<1>5. PICK off : off = [k \in 0..n |-> IF k = n THEN low + size ELSE k * Size]
  OBVIOUS
<1>6. off \in [0..n -> Nat] /\ off[0] = 0 /\ off[n] = low + size /\ off[m] = low
  <2>1. ASSUME NEW k \in 0..n PROVE (IF k = n THEN low + size ELSE k * Size) \in Nat
    <3>1. k * Size \in Nat
      BY <1>1, Times
    <3>2. low + size \in Nat
      BY <1>1
    <3> QED BY <3>1, <3>2
  <2>2. 0 * Size = 0
    BY <1>1
  <2>3. 0 \in 0..n /\ 0 # n /\ n \in 0..n /\ m \in 0..n /\ m # n
    BY <1>1, <1>2
  <2> QED BY <2>1, <2>2, <2>3, <1>4, <1>5
<1>7. ASSUME NEW k \in 1..n PROVE off[k] = off[k - 1] + s.part[way[k]].part_size
  <2>1. CASE k = n
    <3>1. k - 1 = m
      BY <2>1, <1>2
    <3> QED BY <2>1, <3>1, <1>3, <1>6
  <2>2. CASE k # n
    <3>1. PICK j \in Nat : j = k - 1 /\ k = j + 1 /\ j \in 0..n /\ j # n /\ k \in 0..n
      BY <2>2, <1>1
    <3>2. k \in 1..n - 1
      BY <2>2, <1>1
    <3>3. s.part[way[k]].part_size = Size
      BY <3>2, PartSize
    <3>4. (j + 1) * Size = j * Size + Size
      BY <1>1, Times
    <3>5. off[k] = k * Size /\ off[j] = j * Size
      BY <3>1, <2>2, <1>5
    <3> QED BY <3>1, <3>3, <3>4, <3>5
  <2> QED BY <2>1, <2>2
<1>8. off[n] <= BLOCKS * Size
  <2>1. PICK high \in Nat, all \in Nat : high = n * Size /\ all = BLOCKS * Size /\ high <= all
    BY <1>1, Times
  <2>2. high = low + Size
    BY <1>1, <1>2, <1>4, <2>1, Times
  <2>3. off[n] <= all
    BY <1>1, <1>6, <2>1, <2>2
  <2> QED BY <2>1, <2>3
<1>9. size \in {0, Size} => off[n] % Size = 0
  <2>1. (m * Size) % Size = 0 /\ (n * Size) % Size = 0 /\ n * Size = m * Size + Size
    BY <1>1, <1>2, Times
  <2>2. size = 0 => off[n] = m * Size
    BY <1>4, <1>6
  <2>3. size = Size => off[n] = n * Size
    BY <1>4, <1>6, <2>1
  <2> QED BY <2>1, <2>2, <2>3
<1> QED BY <1>3, <1>6, <1>7, <1>8, <1>9 DEF Offsets

\* Of two parts the later one begins where the other ends or after that.
LEMMA OffsetsGrow ==
  ASSUME NEW s \in Volumes, NEW n, NEW way, NEW off, Parts(s, n, way), Offsets(s, n, way, off)
  PROVE  /\ \A k \in 0..n : off[k] \in Nat /\ off[k] <= off[n]
         /\ \A j, k \in 0..n : j <= k => off[j] <= off[k]
<1>1. n \in Nat /\ n > 0 /\ off \in [0..n -> Nat]
  BY Sizes DEF Parts, Offsets
<1>2. ASSUME NEW k \in 1..n PROVE off[k - 1] \in Nat /\ off[k] \in Nat /\ off[k - 1] <= off[k]
  <2>1. PICK size \in Nat : size = s.part[way[k]].part_size
    BY PartSize
  <2>2. k - 1 \in 0..n /\ k \in 0..n
    BY <1>1
  <2>3. off[k] = off[k - 1] + size
    BY <2>1 DEF Offsets
  <2> QED BY <2>2, <2>3, <1>1
<1>3. ASSUME NEW j \in 0..n PROVE \A k \in 0..n : j <= k => off[j] <= off[k]
  <2> DEFINE Good == {m \in Nat : m \in 0..n /\ j <= m => off[j] <= off[m]}
  <2>1. 0 \in Good
    <3>1. j <= 0 => j = 0
      BY <1>1
    <3>2. off[j] \in Nat
      BY <1>1
    <3> QED BY <3>1, <3>2
  <2>2. ASSUME NEW m \in Nat, m \in Good PROVE m + 1 \in Good
    <3>1. SUFFICES ASSUME m + 1 \in 0..n, j <= m + 1 PROVE off[j] <= off[m + 1]
      OBVIOUS
    <3>2. PICK k \in 1..n : k = m + 1 /\ k - 1 = m /\ m \in 0..n
      BY <3>1, <1>1
    <3>3. off[m] \in Nat /\ off[k] \in Nat /\ off[m] <= off[k] /\ off[j] \in Nat
      BY <1>1, <1>2, <3>2
    <3>4. CASE j = k
      BY <3>2, <3>3, <3>4
    <3>5. CASE j # k
      <4>1. j <= m
        BY <3>1, <3>2, <3>5
      <4>2. off[j] <= off[m]
        BY <4>1, <3>2, <2>2
      <4> QED BY <4>2, <3>2, <3>3
    <3> QED BY <3>4, <3>5
  <2>3. \A m \in Nat : m \in Good
    <3> HIDE DEF Good
    <3> QED BY <2>1, <2>2, Induction
  <2> QED BY <2>3, <1>1
<1>4. \A k \in 0..n : k <= n /\ n \in 0..n
  BY <1>1
<1> QED BY <1>1, <1>3, <1>4

\* Each place in a file is in a part.
LEMMA PlaceIs ==
  ASSUME NEW s \in Volumes, NEW n, NEW way, NEW off, Parts(s, n, way), Offsets(s, n, way, off),
         NEW i \in 1..off[n]
  PROVE  \E k \in 1..n : off[k - 1] < i /\ i <= off[k]
<1>1. n \in Nat /\ off \in [0..n -> Nat] /\ off[0] = 0 /\ i \in Nat /\ i <= off[n] /\ i > 0
  <2>1. off[n] \in Nat
    BY Sizes, OffsetsGrow DEF Parts
  <2> QED BY <2>1, Sizes DEF Parts, Offsets
<1> DEFINE Good == {m \in Nat : m \in 0..n /\ i <= off[m] =>
                                   \E k \in 1..n : off[k - 1] < i /\ i <= off[k]}
<1>2. 0 \in Good
  BY <1>1
<1>3. ASSUME NEW m \in Nat, m \in Good PROVE m + 1 \in Good
  <2>1. SUFFICES ASSUME m + 1 \in 0..n, i <= off[m + 1]
                 PROVE  \E k \in 1..n : off[k - 1] < i /\ i <= off[k]
    OBVIOUS
  <2>2. PICK j \in 1..n : j = m + 1 /\ j - 1 = m /\ m \in 0..n
    BY <2>1, <1>1
  <2>3. off[m] \in Nat
    BY <2>2, <1>1
  <2>4. CASE i <= off[m]
    BY <2>2, <2>4, <1>3
  <2>5. CASE off[m] < i
    BY <2>1, <2>2, <2>5
  <2> QED BY <2>3, <2>4, <2>5, <1>1
<1>4. \A m \in Nat : m \in Good
  <2> HIDE DEF Good
  <2> QED BY <1>2, <1>3, Induction
<1>5. n \in 0..n
  BY <1>1
<1> QED BY <1>1, <1>4, <1>5

\* And in one only.
LEMMA PlaceOnce ==
  ASSUME NEW s \in Volumes, NEW n, NEW way, NEW off, Parts(s, n, way), Offsets(s, n, way, off),
         NEW i \in Nat, NEW j \in 1..n, NEW k \in 1..n,
         off[j - 1] < i, i <= off[j], off[k - 1] < i, i <= off[k]
  PROVE  j = k
<1>1. /\ j - 1 \in 0..n /\ k - 1 \in 0..n /\ j \in 0..n /\ k \in 0..n
      /\ j <= k - 1 \/ k <= j - 1 \/ j = k
  BY Sizes DEF Parts
<1>2. off[j] \in Nat /\ off[k] \in Nat /\ off[j - 1] \in Nat /\ off[k - 1] \in Nat
  BY <1>1, OffsetsGrow
<1>3. j <= k - 1 => off[j] <= off[k - 1]
  BY <1>1, OffsetsGrow
<1>4. k <= j - 1 => off[k] <= off[j - 1]
  BY <1>1, OffsetsGrow
<1> QED BY <1>1, <1>2, <1>3, <1>4

\* So there is one text whose pieces the parts hold.
LEMMA TextExists ==
  ASSUME NEW s \in Volumes, NEW n, NEW way, NEW off, Parts(s, n, way), Offsets(s, n, way, off)
  PROVE  \E c \in Seq(0..MAX_WRITE) :
            /\ Len(c) = off[n]
            /\ \A k \in 1..n : Holds(s.part[way[k]], c, off[k - 1], s.part[way[k]].part_size)
<1>1. n \in Nat /\ n > 0 /\ n \in 0..n
  BY Sizes DEF Parts
<1>2. PICK l \in Nat : l = off[n]
  BY <1>1, OffsetsGrow
<1>3. ASSUME NEW k \in 1..n, NEW i \in Nat, off[k - 1] < i, i <= off[k]
      PROVE  /\ i - off[k - 1] \in 1..s.part[way[k]].part_size
             /\ s.part[way[k]].data[i - off[k - 1]] \in 0..MAX_WRITE
  <2>1. PICK size \in 0..Size : size = s.part[way[k]].part_size
    BY PartSize
  <2>2. k - 1 \in 0..n /\ k \in 0..n
    BY <1>1
  <2>3. PICK a \in Nat : a = off[k - 1]
    BY <2>2, OffsetsGrow
  <2>4. off[k] = a + size
    BY <2>1, <2>3 DEF Offsets
  <2>5. i - a \in 1..size /\ i - a \in 1..Size
    BY <2>1, <2>3, <2>4, <1>3, Sizes DEF Size
  <2>6. s.part[way[k]].data \in [1..Size -> 0..MAX_WRITE]
    BY PartSize DEF PartType, Size
  <2> QED BY <2>1, <2>3, <2>5, <2>6
<1> DEFINE In(k, i) == off[k - 1] < i /\ i <= off[k]
           Of(i) == CHOOSE k \in 1..n : In(k, i)
<1>4. PICK c : c = [i \in 1..l |-> s.part[way[Of(i)]].data[i - off[Of(i) - 1]]]
  OBVIOUS
<1>5. ASSUME NEW i \in 1..l PROVE Of(i) \in 1..n /\ In(Of(i), i)
  <2>1. \E k \in 1..n : In(k, i)
    BY <1>2, PlaceIs
  <2> HIDE DEF In
  <2> QED BY <2>1
<1>6. ASSUME NEW i \in 1..l PROVE c[i] \in 0..MAX_WRITE
  <2>1. i \in Nat /\ c[i] = s.part[way[Of(i)]].data[i - off[Of(i) - 1]]
    BY <1>4
  <2>2. PICK k \in 1..n : k = Of(i) /\ In(k, i)
    BY <1>5
  <2> QED BY <2>1, <2>2, <1>3
<1>7. c \in Seq(0..MAX_WRITE) /\ Len(c) = l
  <2>1. c \in [1..l -> 0..MAX_WRITE]
    BY <1>4, <1>6
  <2>2. PICK t : t = c
    OBVIOUS
  <2>3. t \in [1..l -> 0..MAX_WRITE]
    BY <2>1, <2>2
  <2>4. t \in Seq(0..MAX_WRITE) /\ Len(t) = l
    <3>1. t \in Seq(0..MAX_WRITE)
      BY <2>3, SeqDef
    <3>2. DOMAIN t = 1..l
      BY <2>3
    <3> QED BY <3>1, <3>2, LenProperties
  <2> QED BY <2>2, <2>4
<1>8. ASSUME NEW k \in 1..n
      PROVE  Holds(s.part[way[k]], c, off[k - 1], s.part[way[k]].part_size)
  <2>1. PICK size \in 0..Size : size = s.part[way[k]].part_size
    BY PartSize
  <2>2. k - 1 \in 0..n /\ k \in 0..n
    BY <1>1
  <2>3. PICK a \in Nat : a = off[k - 1]
    BY <2>2, OffsetsGrow
  <2>4. off[k] = a + size /\ off[k] <= l
    <3>1. off[k] <= off[n]
      BY <2>2, OffsetsGrow
    <3> QED BY <2>1, <2>3, <3>1, <1>2 DEF Offsets
  <2>5. ASSUME NEW q \in 1..size PROVE s.part[way[k]].data[q] = c[a + q]
    <3>1. PICK i \in 1..l : i = a + q /\ i \in Nat /\ a < i /\ i <= a + size /\ i - a = q
      BY <2>1, <2>3, <2>4, Sizes DEF Size
    <3>2. In(k, i)
      BY <3>1, <2>3, <2>4
    <3>3. Of(i) \in 1..n /\ In(Of(i), i)
      BY <1>5
    <3>4. Of(i) = k
      <4> HIDE DEF Of
      <4> QED BY <3>1, <3>2, <3>3, PlaceOnce
    <3>5. c[i] = s.part[way[k]].data[i - off[k - 1]]
      BY <3>4, <1>4
    <3> QED BY <3>1, <3>5, <2>3
  <2> QED BY <2>1, <2>3, <2>5 DEF Holds, Size
<1> QED BY <1>2, <1>7, <1>8

\* It is what is in the file.
LEMMA FileSpread ==
  ASSUME NEW s \in Volumes, Shape(s), NEW d \in Block, NEW j \in Slot,
         Leads(s, d, j), ~IsDir(Pointer(s, d, j))
  PROVE  \E n, way, off : /\ Spread(s, n, way, off, DataIn(s, Pointer(s, d, j)))
                          /\ way[1] = Target(s, d, j)
<1>1. PICK x \in Block : x = Target(s, d, j) /\ \E n, way : /\ Parts(s, n, way) /\ way[1] = x
                                                            /\ Chain(s, x) = way
  BY FileParts
<1>2. PICK n, way : Parts(s, n, way) /\ way[1] = x /\ Chain(s, x) = way
  BY <1>1
<1>3. PICK off : /\ Offsets(s, n, way, off)
                 /\ off[n] <= BLOCKS * Size
                 /\ s.part[way[n]].part_size \in {0, Size} => off[n] % Size = 0
  BY <1>2, OffsetsExist
<1>4. PICK c \in Seq(0..MAX_WRITE) :
         /\ Len(c) = off[n]
         /\ \A k \in 1..n : Holds(s.part[way[k]], c, off[k - 1], s.part[way[k]].part_size)
  BY <1>2, <1>3, TextExists
<1>5. n \in Nat /\ n > 0 /\ way \in [1..n -> Block] /\ off \in [0..n -> Nat] /\ off[0] = 0
  BY <1>2, <1>3, Sizes DEF Parts, Offsets
<1>6. ASSUME NEW k \in 1..n
      PROVE  /\ off[k - 1] \in Nat /\ off[k] \in Nat /\ off[k - 1] <= off[k]
             /\ PartData(s.part[way[k]]) = Piece(c, off[k - 1], off[k] - off[k - 1])
  <2>1. PICK size \in Nat : size = s.part[way[k]].part_size
    BY <1>2, PartSize
  <2>2. k - 1 \in 0..n /\ k \in 0..n
    BY <1>5
  <2>3. PICK a \in Nat, b \in Nat : a = off[k - 1] /\ b = off[k]
    BY <2>2, <1>5
  <2>4. b = a + size
    BY <2>1, <2>3, <1>3 DEF Offsets
  <2>5. b - a = size /\ a <= b
    BY <2>4
  <2>6. s.part[way[k]] \in PartType
    BY <1>2, PartSize
  <2>7. PartData(s.part[way[k]]) = Piece(c, a, size)
    BY <2>1, <2>3, <2>6, <1>4, PartDataIs
  <2> QED BY <2>3, <2>5, <2>7
<1>7. FlattenSeq([k \in 1..n |-> Piece(c, off[k - 1], off[k] - off[k - 1])]) = c
  <2>1. off \in [0..n -> 0..Len(c)]
    <3>1. \A k \in 0..n : off[k] \in Nat /\ off[k] <= off[n]
      BY <1>2, <1>3, OffsetsGrow
    <3> QED BY <3>1, <1>4, <1>5
  <2> QED BY <2>1, <1>4, <1>5, <1>6, Sizes, Whole
<1>8. [k \in 1..n |-> PartData(s.part[way[k]])] =
      [k \in 1..n |-> Piece(c, off[k - 1], off[k] - off[k - 1])]
  BY <1>6, Zenon
<1>9. Len(way) = n
  BY <1>5
<1>10. DataIn(s, Pointer(s, d, j)) = c
  <2>1. PICK addr : addr = Pointer(s, d, j) /\ addr.lba = x /\ ~IsDir(addr) /\ Linked(addr)
    BY <1>1 DEF Target, Leads
  <2>2. DataIn(s, addr) = FlattenSeq([k \in 1..n |-> PartData(s.part[way[k]])])
    BY <2>1, <1>2, <1>9, Zenon DEF DataIn
  <2> QED BY <2>1, <2>2, <1>7, <1>8, Zenon
<1>11. Spread(s, n, way, off, c)
  BY <1>2, <1>3, <1>4 DEF Spread
<1> QED BY <1>1, <1>2, <1>10, <1>11

-----------------------------------------------------------------------------
(* A round of the loops of read_from_file.                                 *)

LEMMA PiecesJoin ==
  ASSUME NEW c \in Seq(0..MAX_WRITE), NEW a \in Nat, NEW m \in Nat, NEW q \in Nat,
         a + m + q <= Len(c)
  PROVE  Piece(c, a, m) \o Piece(c, a + m, q) = Piece(c, a, m + q)
<1>1. PICK b \in Nat, l \in Nat : b = a + m /\ l = m + q /\ a + l <= Len(c) /\ b + q <= Len(c)
  OBVIOUS
<1>2. PICK u \in Seq(0..MAX_WRITE) : u = Piece(c, a, m) /\ Len(u) = m
  <2>1. a + m <= Len(c) /\ MAX_WRITE \in Nat
    BY <1>1, Sizes
  <2> QED BY <2>1, PieceIs
<1>3. PICK v \in Seq(0..MAX_WRITE) : v = Piece(c, b, q) /\ Len(v) = q
  BY <1>1, Sizes, PieceIs
<1>4. PICK w \in Seq(0..MAX_WRITE) : w = Piece(c, a, l) /\ Len(w) = l
  BY <1>1, Sizes, PieceIs
<1>5. u \o v \in Seq(0..MAX_WRITE) /\ Len(u \o v) = l
  <2>1. u \o v \in Seq(0..MAX_WRITE) /\ Len(u \o v) = Len(u) + Len(v)
    BY ConcatProperties
  <2> QED BY <2>1, <1>1, <1>2, <1>3
<1>6. ASSUME NEW i \in 1..l PROVE (u \o v)[i] = w[i]
  <2>1. w[i] = c[a + i]
    BY <1>4 DEF Piece
  <2>2. CASE i <= m
    <3>1. (u \o v)[i] = u[i] /\ i \in 1..m
      BY <2>2, <1>2, <1>3
    <3>2. u[i] = c[a + i]
      BY <3>1, <1>2 DEF Piece
    <3> QED BY <2>1, <3>1, <3>2
  <2>3. CASE i > m
    <3>1. PICK j \in 1..q : j = i - m
      BY <2>3, <1>1
    <3>2. (u \o v)[i] = v[j]
      BY <2>3, <3>1, <1>1, <1>2, <1>3
    <3>3. v[j] = c[b + j]
      BY <1>3 DEF Piece
    <3>4. b + j = a + i
      BY <3>1, <1>1
    <3> QED BY <2>1, <3>2, <3>3, <3>4, Zenon
  <2>4. i <= m \/ i > m
    OBVIOUS
  <2> QED BY <2>2, <2>3, <2>4, Zenon
<1> QED BY <1>1, <1>2, <1>3, <1>4, <1>5, <1>6, SeqEqual

\* What is copied from a part is that much of the file.
BytesOf(p, seek, q) == Bytes(p, seek + 1, seek + q)

LEMMA BytesAre ==
  ASSUME NEW p \in PartType, NEW c, NEW a \in Nat, NEW size, Holds(p, c, a, size),
         NEW seek \in Nat, NEW q \in Nat, seek + q <= size, NEW b, b = a + seek
  PROVE  BytesOf(p, seek, q) = Piece(c, b, q)
<1>1. /\ size \in Nat /\ size <= FILE_DATA_PER_PART /\ FILE_DATA_PER_PART \in Nat
      /\ \A i \in 1..size : p.data[i] = c[a + i]
  BY Sizes DEF Holds
<1>2. PICK data : data = [i \in 1..FILE_DATA_PER_PART |-> p.data[i]]
  OBVIOUS
<1>3. PICK from \in Nat, to \in Nat : from = seek + 1 /\ to = seek + q
  OBVIOUS
<1>4. SubSeq(data, from, to) = [i \in 1..q |-> data[seek + i]]
  <2>1. SubSeq(data, from, to) = [i \in 1..to - from + 1 |-> data[from + i - 1]]
    BY <1>3
  <2>2. to - from + 1 = q /\ \A i \in 1..q : from + i - 1 = seek + i
    BY <1>3
  <2> QED BY <2>1, <2>2
<1>5. ASSUME NEW i \in 1..q PROVE data[seek + i] = c[a + seek + i]
  <2>1. PICK k \in 1..size : k = seek + i /\ k \in 1..FILE_DATA_PER_PART /\ a + k = a + seek + i
    BY <1>1
  <2> QED BY <2>1, <1>1, <1>2
<1>6. [i \in 1..q |-> data[seek + i]] = [i \in 1..q |-> c[a + seek + i]]
  BY <1>5, Zenon
<1> QED BY <1>2, <1>3, <1>4, <1>6, Zenon DEF BytesOf, Bytes, Piece

\* The cases of a round.
OnTo(s, p, lba, seek, count, n, bytes) ==
    IF Linked(p.next) THEN Reader(p.next.lba, seek, count, n, bytes)
    ELSE Reader(lba, 0, 0, n, bytes)

Copied(p, seek, count) ==
    IF p.part_size < Size /\ count > p.part_size - seek THEN p.part_size - seek ELSE count

\* A part is enough if it is the last one or has all that is wanted.
Enough(p, seek, count) ==
    \/ p.part_size < Size /\ (seek = 0 \/ seek < p.part_size)
    \/ p.part_size = Size /\ seek < Size /\ count <= Size - seek

RoundIs(s, p, lba, seek, count, total, bytes, v) ==
    /\ p.part_size < Size /\ seek > 0 /\ seek >= p.part_size => v = Reader(lba, 0, 0, 0, <<>>)
    /\ p.part_size = Size /\ seek >= Size =>
          v = OnTo(s, p, lba, seek - Size, count, total, bytes)
    /\ seek + count > 0 /\ Enough(p, seek, count) =>
          v = Reader(lba, 0, 0, total + Copied(p, seek, count),
                     bytes \o BytesOf(p, seek, Copied(p, seek, count)))
    /\ p.part_size = Size /\ seek < Size /\ count > Size - seek =>
          v = OnTo(s, p, lba, 0, count - (Size - seek),
                   IF seek > 0 THEN total + (Size - seek) ELSE total,
                   bytes \o BytesOf(p, seek, Size - seek))

LEMMA ReadPartIs ==
  ASSUME NEW s, NEW lba, NEW seek \in Nat, NEW count \in Nat, NEW total, NEW bytes,
         NEW p, p = s.part[lba], p.part_size \in 0..Size,
         NEW r, r = Reader(lba, seek, count, total, bytes), NEW v, v = ReadPart(s, r)
  PROVE  RoundIs(s, p, lba, seek, count, total, bytes, v)
<1>1. /\ r.lba = lba /\ r.seek = seek /\ r.count = count /\ r.n = total /\ r.bytes = bytes
      /\ s.part[r.lba] = p
  BY DEF Reader
<1>2. Size \in Nat /\ Size > 0 /\ Size = FILE_DATA_PER_PART /\ p.part_size \in Nat /\ p.part_size <= Size
  BY Sizes DEF Size
<1>3. seek + (Size - seek) = Size
  BY <1>2
<1>4. ASSUME p.part_size < Size, seek > 0, seek >= p.part_size
      PROVE  ReadPart(s, r) = Reader(lba, 0, 0, 0, <<>>)
  <2>1. ~(seek = 0) /\ ~(~(p.part_size < Size))
    BY <1>4
  <2> QED BY <1>1, <1>2, <1>4, <2>1 DEF ReadPart
<1>5. ASSUME p.part_size = Size, seek >= Size
      PROVE  ReadPart(s, r) = OnTo(s, p, lba, seek - Size, count, total, bytes)
  <2>1. ~(seek = 0) /\ ~(p.part_size < Size)
    BY <1>2, <1>5
  <2> QED BY <1>1, <1>2, <1>5, <2>1 DEF ReadPart, OnTo
<1>6. ASSUME seek + count > 0, Enough(p, seek, count)
      PROVE  ReadPart(s, r) =
               Reader(lba, 0, 0, total + Copied(p, seek, count),
                      bytes \o BytesOf(p, seek, Copied(p, seek, count)))
  <2>1. /\ ~(seek = 0 /\ count = 0) /\ ~(p.part_size < Size /\ seek > 0 /\ seek >= p.part_size)
        /\ ~(~(p.part_size < Size) /\ seek >= Size)
        /\ p.part_size < Size \/ count <= Size - seek
    BY <1>2, <1>6 DEF Enough
  <2> QED BY <1>1, <1>2, <2>1 DEF ReadPart, InPart, Copied, BytesOf
<1>7. ASSUME p.part_size = Size, seek < Size, count > Size - seek
      PROVE  ReadPart(s, r) = OnTo(s, p, lba, 0, count - (Size - seek),
                                   IF seek > 0 THEN total + (Size - seek) ELSE total,
                                   bytes \o BytesOf(p, seek, Size - seek))
  <2>1. /\ ~(seek = 0 /\ count = 0) /\ ~(p.part_size < Size) /\ ~(seek >= Size)
        /\ ~(count <= Size - seek)
    BY <1>2, <1>7
  <2>2. PICK room \in Int : room = Size - seek /\ room = InPart(seek) /\ ~(count <= room)
    BY <1>2, <2>1 DEF InPart
  <2>3. ReadPart(s, r) = OnTo(s, p, lba, 0, count - room, IF seek > 0 THEN total + room ELSE total,
                              bytes \o Bytes(p, seek + 1, Size))
    BY <1>1, <1>2, <2>1, <2>2 DEF ReadPart, OnTo
  <2>4. Bytes(p, seek + 1, Size) = BytesOf(p, seek, Size - seek)
    BY <1>3, Zenon DEF BytesOf
  <2> QED BY <2>2, <2>3, <2>4
<1> QED BY <1>4, <1>5, <1>6, <1>7, Zenon DEF RoundIs

\* A reader that began at from, to read count bytes, has copied m of them.
HasRead(c, from, count, m, r) ==
    /\ r = Reader(r.lba, r.seek, r.count, r.n, r.bytes)
    /\ m \in Nat /\ m <= count /\ from + m <= Len(c)
    /\ r.bytes = Piece(c, from, m) /\ r.n \in Nat /\ r.n <= m

\* It has finished, with all it was to read or at the end of the file.  If it counted
\* nothing, the last part is empty or full.
Finished(s, n, way, c, from, count, m, r) ==
    /\ r.seek = 0 /\ r.count = 0
    /\ m = count \/ from + m = Len(c)
    /\ m > 0 /\ s.part[way[n]].part_size \notin {0, Size} => r.n > 0

\* Or it is in a part, at the place after that.  It copies from a part once it has
\* nothing more to skip.
Within(n, way, off, from, count, m, r) ==
    \E k \in 1..n :
        /\ r.lba = way[k] /\ r.seek \in Nat /\ r.count = count - m
        /\ off[k - 1] + r.seek = from + m
        /\ r.seek > 0 => m = 0
        /\ m > 0 => r.count > 0

Reading(s, n, way, off, c, from, count, r) ==
    \E m : /\ HasRead(c, from, count, m, r)
           /\ \/ Finished(s, n, way, c, from, count, m, r)
              \/ Within(n, way, off, from, count, m, r)

Over(r) == r.seek = 0 /\ r.count = 0

\* What a round leads to: less is left.
Advances(s, n, way, off, c, from, count, r, v) ==
    /\ Reading(s, n, way, off, c, from, count, v)
    /\ Over(v) \/ v.seek + v.count + 1 <= r.seek + r.count

\* What there is to know of a part.
PartAt(s, n, way, off, c, k, p, a, size) ==
    /\ p \in PartType /\ a \in Nat /\ size \in 0..Size
    /\ p = s.part[way[k]] /\ size = p.part_size /\ a = off[k - 1] /\ off[k] = a + size
    /\ Holds(p, c, a, size) /\ a + size <= Len(c)
    /\ Linked(p.next) => k + 1 \in 1..n /\ p.next.lba = way[k + 1] /\ size = Size
    /\ ~Linked(p.next) => k = n /\ a + size = Len(c)

LEMMA PartIs ==
  ASSUME NEW s \in Volumes, NEW n, NEW way, NEW off, NEW c, Spread(s, n, way, off, c),
         NEW k \in 1..n
  PROVE  \E p, a, size : PartAt(s, n, way, off, c, k, p, a, size)
<1>1. Parts(s, n, way) /\ Offsets(s, n, way, off) /\ off[n] = Len(c)
  BY DEF Spread
<1>2. PICK p \in PartType, size \in 0..Size : p = s.part[way[k]] /\ size = p.part_size
  BY <1>1, PartSize
<1>3. n \in Nat /\ n > 0 /\ k - 1 \in 0..n /\ k \in 0..n
  BY <1>1, Sizes DEF Parts
<1>4. PICK a \in Nat : a = off[k - 1]
  BY <1>1, <1>3, OffsetsGrow
<1>5. off[k] = a + size /\ Holds(p, c, a, size)
  BY <1>1, <1>2, <1>4 DEF Offsets, Spread
<1>6. off[k] <= Len(c)
  BY <1>1, <1>3, OffsetsGrow
<1>7. k \in 1..n - 1 => Linked(p.next) /\ p.next.lba = way[k + 1] /\ size = Size /\ k + 1 \in 1..n
  <2>1. k \in 1..n - 1 => Leads(s, way[k], 0) /\ Target(s, way[k], 0) = way[k + 1]
    BY <1>1 DEF Parts
  <2>2. k \in 1..n - 1 => size = Size
    BY <1>1, <1>2, PartSize
  <2>3. k \in 1..n - 1 => k + 1 \in 1..n
    BY <1>3
  <2> QED BY <2>1, <2>2, <2>3, <1>2 DEF Leads, Target, Pointer
<1>8. k = n => ~Linked(p.next) /\ a + size = Len(c)
  BY <1>1, <1>2, <1>5 DEF Parts, Leads, Pointer
<1>9. k \in 1..n - 1 \/ k = n
  BY <1>3
<1> QED BY <1>2, <1>4, <1>5, <1>6, <1>7, <1>8, <1>9 DEF PartAt

\* A reader goes on to the next part, or finishes.
MovedOn(s, n, way, off, c, from, count, k, p, seek, left, m, total, v) ==
    /\ Reading(s, n, way, off, c, from, count, v)
    /\ Over(v) \/ (v.seek = seek /\ v.count = left)

LEMMA OnToIs ==
  ASSUME NEW s \in Volumes, NEW n, NEW way, NEW off, NEW c, Spread(s, n, way, off, c),
         NEW from \in Nat, NEW count \in Nat,
         NEW k \in 1..n, NEW p, p = s.part[way[k]], p.part_size = Size,
         NEW seek \in Nat, NEW left \in Nat, NEW m \in Nat, NEW total \in Nat,
         left = count - m, total <= m, from + m = off[k] + seek,
         from + m <= Len(c), seek > 0 => m = 0, m > 0 => left > 0,
         NEW v, v = OnTo(s, p, way[k], seek, left, total, Piece(c, from, m))
  PROVE  MovedOn(s, n, way, off, c, from, count, k, p, seek, left, m, total, v)
<1>1. PICK a \in Nat : /\ a = off[k - 1] /\ off[k] = a + Size
                       /\ Linked(p.next) => k + 1 \in 1..n /\ p.next.lba = way[k + 1]
                       /\ ~Linked(p.next) => k = n /\ a + Size = Len(c)
  <2>1. PICK q, a, size : PartAt(s, n, way, off, c, k, q, a, size)
    BY PartIs
  <2> QED BY <2>1 DEF PartAt
<1>2. PICK l \in Nat : l = Len(c)
  BY DEF Spread
<1>3. Size \in Nat \ {0} /\ m <= count
  BY Sizes DEF Size
<1>4. CASE Linked(p.next)
  <2>1. v = Reader(way[k + 1], seek, left, total, Piece(c, from, m))
    BY <1>1, <1>4 DEF OnTo
  <2>2. HasRead(c, from, count, m, v)
    BY <2>1, <1>3 DEF HasRead, Reader
  <2>3. PICK j \in 1..n : j = k + 1 /\ j - 1 = k
    BY <1>1, <1>4, Sizes DEF Spread, Parts
  <2>4. off[j - 1] + seek = from + m
    BY <2>3, <1>1
  <2>5. Within(n, way, off, from, count, m, v)
    BY <2>1, <2>3, <2>4 DEF Within, Reader
  <2> QED BY <2>1, <2>2, <2>5 DEF MovedOn, Reading, Reader
<1>5. CASE ~Linked(p.next)
  <2>1. v = Reader(way[k], 0, 0, total, Piece(c, from, m))
    BY <1>5 DEF OnTo
  <2>2. HasRead(c, from, count, m, v)
    BY <2>1, <1>3 DEF HasRead, Reader
  <2>3. from + m = Len(c)
    <3>1. l = a + Size /\ off[k] = a + Size
      BY <1>1, <1>2, <1>5
    <3>2. PICK z \in Nat : z = from + m /\ z <= l /\ z = a + Size + seek
      BY <3>1, <1>2
    <3>3. z = l
      BY <3>1, <3>2, <1>3
    <3> QED BY <3>2, <3>3, <1>2
  <2>4. s.part[way[n]].part_size = Size
    BY <1>1, <1>5
  <2>5. Finished(s, n, way, c, from, count, m, v)
    <3>1. v.seek = 0 /\ v.count = 0
      BY <2>1 DEF Reader
    <3>2. s.part[way[n]].part_size \in {0, Size}
      BY <2>4
    <3> QED BY <3>1, <3>2, <2>3, Zenon DEF Finished
  <2> QED BY <2>1, <2>2, <2>5 DEF MovedOn, Reading, Over, Reader
<1> QED BY <1>4, <1>5

\* Where a reader is, in numbers.
Stands(a, size, l, from, count, seek, left, m, total) ==
    /\ a + seek = from + m /\ from + m <= l /\ a + size <= l
    /\ left = count - m /\ m <= count /\ total <= m
    /\ seek > 0 => m = 0
    /\ m > 0 => left > 0
    /\ size < Size => a + size = l

InPlace(s, n, way, off, c, from, m, r, k, p, a, size, l, seek, left, total) ==
    /\ PartAt(s, n, way, off, c, k, p, a, size) /\ l = Len(c) /\ m \in Nat
    /\ r = Reader(way[k], seek, left, total, Piece(c, from, m))
    /\ r.seek = seek /\ r.count = left
    /\ size < Size => k = n

LEMMA WithinIs ==
  ASSUME NEW s \in Volumes, NEW n, NEW way, NEW off, NEW c, Spread(s, n, way, off, c),
         NEW from \in Nat, NEW count \in Nat, NEW m, NEW r, HasRead(c, from, count, m, r),
         Within(n, way, off, from, count, m, r)
  PROVE  \E k \in 1..n, total, seek, left \in Nat, a, l \in Nat : \E p, size :
            /\ Stands(a, size, l, from, count, seek, left, m, total)
            /\ InPlace(s, n, way, off, c, from, m, r, k, p, a, size, l, seek, left, total)
<1>1. PICK k \in 1..n :
         /\ r.lba = way[k] /\ r.seek \in Nat /\ r.count = count - m
         /\ off[k - 1] + r.seek = from + m
         /\ r.seek > 0 => m = 0
         /\ m > 0 => r.count > 0
  BY DEF Within
<1>2. /\ r = Reader(r.lba, r.seek, r.count, r.n, r.bytes)
      /\ m \in Nat /\ m <= count /\ from + m <= Len(c)
      /\ r.bytes = Piece(c, from, m) /\ r.n \in Nat /\ r.n <= m
  BY DEF HasRead
<1>3. PICK total \in Nat, seek \in Nat, left \in Nat :
         total = r.n /\ seek = r.seek /\ left = r.count
  BY <1>1, <1>2
<1>4. PICK p, a, size : PartAt(s, n, way, off, c, k, p, a, size)
  BY PartIs
<1>10. /\ a \in Nat /\ size \in 0..Size /\ a = off[k - 1] /\ off[k] = a + size /\ a + size <= Len(c)
       /\ Linked(p.next) => size = Size
       /\ ~Linked(p.next) => k = n /\ a + size = Len(c)
  BY <1>4 DEF PartAt
<1>5. PICK l \in Nat : l = Len(c)
  BY DEF Spread
<1>6. size < Size => k = n /\ a + size = l
  BY <1>10, <1>5, Sizes DEF Size
<1>7. Stands(a, size, l, from, count, seek, left, m, total)
  <2>1. a + seek = from + m /\ from + m <= l /\ a + size <= l
    BY <1>1, <1>2, <1>3, <1>10, <1>5
  <2>2. left = count - m /\ m <= count /\ total <= m /\ (seek > 0 => m = 0) /\ (m > 0 => left > 0)
    BY <1>1, <1>2, <1>3
  <2> QED BY <2>1, <2>2, <1>6 DEF Stands
<1>8. r = Reader(way[k], seek, left, total, Piece(c, from, m))
  BY <1>1, <1>2, <1>3
<1>9. InPlace(s, n, way, off, c, from, m, r, k, p, a, size, l, seek, left, total)
  BY <1>2, <1>3, <1>4, <1>5, <1>6, <1>8 DEF InPlace
<1> QED BY <1>3, <1>5, <1>7, <1>9, <1>10

\* What the part has of what is wanted.
Takes(p, size, seek, left, l, from, count, m, total, q, z) ==
    /\ q = Copied(p, seek, left) /\ seek + q <= size /\ z = m + q
    /\ z <= count /\ from + z <= l /\ total + q <= z
    /\ z = count \/ from + z = l
    /\ z > 0 /\ size # 0 => total + q > 0

LEMMA CopiedIs ==
  ASSUME NEW p, NEW size \in 0..Size, size = p.part_size, NEW seek \in Nat, NEW left \in Nat,
         NEW a \in Nat, NEW l \in Nat, NEW from \in Nat, NEW count \in Nat, NEW m \in Nat,
         NEW total \in Nat, Stands(a, size, l, from, count, seek, left, m, total),
         Enough(p, seek, left)
  PROVE  \E q, z \in Nat : Takes(p, size, seek, left, l, from, count, m, total, q, z)
<1>1. Size \in Nat \ {0} /\ size \in Nat /\ size <= Size
  BY Sizes DEF Size
<1>2. /\ a + seek = from + m /\ from + m <= l /\ a + size <= l
      /\ left = count - m /\ m <= count /\ total <= m
      /\ (seek > 0 => m = 0) /\ (m > 0 => left > 0) /\ (size < Size => a + size = l)
  BY DEF Stands
<1>3. CASE size < Size /\ (seek = 0 \/ seek < size)
  <2>1. a + size = l /\ seek <= size
    BY <1>1, <1>2, <1>3
  <2>2. PICK q \in Nat : q = IF left > size - seek THEN size - seek ELSE left
    BY <1>1, <2>1
  <2>3. q = Copied(p, seek, left)
    BY <1>3, <2>2 DEF Copied
  <2>4. seek + q <= size /\ q <= left /\ (q = left \/ a + seek + q = l)
        /\ (size # 0 /\ q = 0 => left = 0)
    BY <1>1, <1>3, <2>1, <2>2
  <2>5. PICK z \in Nat : z = m + q
    OBVIOUS
  <2> QED BY <1>1, <1>2, <1>3, <2>3, <2>4, <2>5 DEF Takes
<1>4. CASE size = Size /\ seek < Size /\ left <= Size - seek
  <2>1. left = Copied(p, seek, left)
    BY <1>1, <1>4 DEF Copied
  <2>2. PICK z \in Nat : z = m + left
    OBVIOUS
  <2> QED BY <1>1, <1>2, <1>4, <2>1, <2>2 DEF Takes
<1> QED BY <1>3, <1>4 DEF Enough

LEMMA ReadPartKept ==
  ASSUME NEW s \in Volumes, NEW n, NEW way, NEW off, NEW c, Spread(s, n, way, off, c),
         NEW from \in Nat, NEW count \in Nat, NEW r, Reading(s, n, way, off, c, from, count, r)
  PROVE  Advances(s, n, way, off, c, from, count, r, ReadPart(s, r))
<1>1. PICK m : /\ HasRead(c, from, count, m, r)
               /\ \/ Finished(s, n, way, c, from, count, m, r)
                  \/ Within(n, way, off, from, count, m, r)
  BY DEF Reading
<1>2. CASE r.seek = 0 /\ r.count = 0
  <2>1. ReadPart(s, r) = r
    BY <1>2, Zenon DEF ReadPart
  <2> QED BY <1>2, <2>1 DEF Advances, Over
<1>3. CASE ~(r.seek = 0 /\ r.count = 0)
  <2>1. Within(n, way, off, from, count, m, r)
    BY <1>1, <1>3 DEF Finished
  <2>2. PICK k \in 1..n, total, seek, left \in Nat, a, l \in Nat : \E p, size :
            /\ Stands(a, size, l, from, count, seek, left, m, total)
            /\ InPlace(s, n, way, off, c, from, m, r, k, p, a, size, l, seek, left, total)
    BY <1>1, <2>1, WithinIs
  <2>14. PICK p, size :
            /\ Stands(a, size, l, from, count, seek, left, m, total)
            /\ InPlace(s, n, way, off, c, from, m, r, k, p, a, size, l, seek, left, total)
    BY <2>2
  <2>15. /\ PartAt(s, n, way, off, c, k, p, a, size) /\ l = Len(c) /\ m \in Nat
         /\ r.seek = seek /\ r.count = left
         /\ size < Size => k = n
    BY <2>14 DEF InPlace
  <2>16. /\ p = s.part[way[k]] /\ size = p.part_size /\ off[k] = a + size /\ Holds(p, c, a, size)
         /\ p \in PartType /\ size \in 0..Size
    BY <2>15 DEF PartAt
  <2>3. Size \in Nat \ {0} /\ size \in Nat /\ size <= Size /\ m \in Nat
    BY <2>15, <2>16, Sizes DEF Size
  <2>4. c \in Seq(0..MAX_WRITE)
    BY DEF Spread
  <2>5. /\ a + seek = from + m /\ from + m <= l /\ a + size <= l
        /\ left = count - m /\ m <= count /\ total <= m
        /\ (seek > 0 => m = 0) /\ (m > 0 => left > 0) /\ (size < Size => a + size = l)
    BY <2>14 DEF Stands
  <2>6. seek + left > 0
    <3>1. ~(seek = 0 /\ left = 0)
      BY <2>15, <1>3
    <3> QED BY <3>1
  <2>7. PICK v : v = ReadPart(s, r)
    OBVIOUS
  <2>8. PICK bytes, lba : /\ bytes = Piece(c, from, m) /\ lba = way[k] /\ p = s.part[lba]
                          /\ r = Reader(lba, seek, left, total, bytes)
                          /\ p.part_size = size
    BY <2>14, <2>16 DEF InPlace
  <2>17. RoundIs(s, p, lba, seek, left, total, bytes, v)
    BY <2>7, <2>8, <2>16, ReadPartIs
  \* Nothing is left to read.
  <2>9. CASE size < Size /\ seek > 0 /\ seek >= size
    <3>1. v = Reader(lba, 0, 0, 0, <<>>)
      BY <2>8, <2>9, <2>17 DEF RoundIs
    <3>2. m = 0 /\ from + 0 = l
      BY <2>3, <2>5, <2>9
    <3>3. Piece(c, from, 0) = <<>>
      BY DEF Piece
    <3>4. HasRead(c, from, count, 0, v)
      BY <3>1, <3>2, <3>3, <2>15 DEF HasRead, Reader
    <3>5. Finished(s, n, way, c, from, count, 0, v)
      BY <3>1, <3>2, <2>15 DEF Finished, Reader
    <3> QED BY <2>7, <3>1, <3>4, <3>5 DEF Advances, Reading, Over, Reader
  \* The part is skipped.
  <2>10. CASE size = Size /\ seek >= Size
    <3>1. PICK rest \in Nat : rest = seek - Size
      BY <2>3, <2>10
    <3>2. v = OnTo(s, p, lba, rest, left, total, bytes)
      BY <2>8, <2>10, <2>17, <3>1 DEF RoundIs
    <3>3. from + m = (a + size) + rest /\ m = 0 /\ (rest > 0 => m = 0) /\ (m > 0 => left > 0)
      BY <2>3, <2>5, <2>10, <3>1
    <3>4. v = OnTo(s, p, way[k], rest, left, total, Piece(c, from, m))
      BY <2>8, <3>2
    <3>5. from + m = off[k] + rest /\ p.part_size = Size /\ from + m <= Len(c)
      BY <2>5, <2>8, <2>10, <2>15, <2>16, <3>3
    <3>6. MovedOn(s, n, way, off, c, from, count, k, p, rest, left, m, total, v)
      BY <2>3, <2>5, <2>16, <3>3, <3>4, <3>5, OnToIs
    <3>7. rest + left + 1 <= seek + left
      BY <2>3, <2>10, <3>1
    <3> QED BY <2>7, <2>15, <3>6, <3>7 DEF Advances, MovedOn
  \* The part has all there is to read.
  <2>11. CASE Enough(p, seek, left)
    <3>9. \E q, z \in Nat : Takes(p, size, seek, left, l, from, count, m, total, q, z)
      BY <2>3, <2>11, <2>14, <2>16, CopiedIs
    <3>1. PICK q, z \in Nat :
            /\ q = Copied(p, seek, left) /\ seek + q <= size /\ z = m + q
            /\ z <= count /\ from + z <= l /\ total + q <= z
            /\ z = count \/ from + z = l
            /\ z > 0 /\ size # 0 => total + q > 0
      BY <3>9 DEF Takes
    <3>2. v = Reader(lba, 0, 0, total + q, bytes \o BytesOf(p, seek, q))
      BY <2>6, <2>11, <2>17, <3>1 DEF RoundIs
    <3>3. bytes \o BytesOf(p, seek, q) = Piece(c, from, z)
      <4>1. BytesOf(p, seek, q) = Piece(c, from + m, q)
        BY <2>5, <2>16, <3>1, BytesAre
      <4>2. from + m + q <= Len(c)
        BY <2>3, <2>15, <3>1
      <4>3. Piece(c, from, m) \o Piece(c, from + m, q) = Piece(c, from, m + q)
        BY <2>3, <2>4, <4>2, PiecesJoin
      <4> QED BY <2>8, <3>1, <4>1, <4>3, Zenon
    <3>4. total + q \in Nat
      OBVIOUS
    <3>5. HasRead(c, from, count, z, v)
      BY <3>1, <3>2, <3>3, <3>4, <2>15 DEF HasRead, Reader
    <3>6. z > 0 /\ s.part[way[n]].part_size \notin {0, Size} => total + q > 0
      <4>1. size = 0 => k = n
        BY <2>3, <2>15
      <4> QED BY <4>1, <2>16, <3>1
    <3>7. Finished(s, n, way, c, from, count, z, v)
      <4>1. v.seek = 0 /\ v.count = 0 /\ v.n = total + q
        BY <3>2 DEF Reader
      <4> QED BY <4>1, <3>1, <3>6, <2>15 DEF Finished
    <3> QED BY <2>7, <3>5, <3>7 DEF Advances, Reading, Over, Finished
  \* All of the part is copied, and more is to be read.
  <2>12. CASE size = Size /\ seek < Size /\ left > Size - seek
    <3>1. PICK room \in Nat : room = Size - seek /\ room > 0 /\ seek + room = size /\ seek + room = Size
      BY <2>3, <2>12
    <3>2. PICK more \in Nat : more = left - room /\ more > 0
      BY <2>12, <3>1
    <3>3. PICK sum \in Nat : sum = IF seek > 0 THEN total + room ELSE total
      OBVIOUS
    <3>4. v = OnTo(s, p, lba, 0, more, sum, bytes \o BytesOf(p, seek, room))
      BY <2>8, <2>12, <2>17, <3>1, <3>2, <3>3 DEF RoundIs
    <3>5. PICK z \in Nat : /\ z = m + room /\ sum <= z /\ more = count - z /\ from + z <= l
                           /\ from + z = (a + size) + 0
      BY <2>3, <2>5, <3>1, <3>2, <3>3
    <3>6. bytes \o BytesOf(p, seek, room) = Piece(c, from, z)
      <4>1. BytesOf(p, seek, room) = Piece(c, from + m, room)
        BY <2>3, <2>5, <2>16, <3>1, BytesAre
      <4>2. from + m + room <= Len(c)
        BY <2>3, <2>15, <3>5
      <4>3. Piece(c, from, m) \o Piece(c, from + m, room) = Piece(c, from, m + room)
        BY <2>3, <2>4, <4>2, PiecesJoin
      <4> QED BY <2>8, <3>5, <4>1, <4>3, Zenon
    <3>7. from + z = off[k] + 0 /\ p.part_size = Size /\ from + z <= Len(c)
      BY <2>8, <2>12, <2>15, <2>16, <3>5
    <3>8. v = OnTo(s, p, way[k], 0, more, sum, Piece(c, from, z))
      BY <2>8, <3>4, <3>6
    <3>9. 0 > 0 => z = 0
      OBVIOUS
    <3>10. MovedOn(s, n, way, off, c, from, count, k, p, 0, more, z, sum, v)
      BY <2>16, <3>2, <3>5, <3>7, <3>8, <3>9, OnToIs
    <3>11. 0 + more + 1 <= seek + left
      BY <3>1, <3>2
    <3> QED BY <2>7, <2>15, <3>10, <3>11 DEF Advances, MovedOn
  <2>13. \/ size < Size /\ seek > 0 /\ seek >= size
         \/ size = Size /\ seek >= Size
         \/ Enough(p, seek, left)
         \/ size = Size /\ seek < Size /\ left > Size - seek
    <3>1. p.part_size = size
      BY <2>8
    <3> QED BY <3>1, <2>3 DEF Enough
  <2> QED BY <2>9, <2>10, <2>11, <2>12, <2>13
<1> QED BY <1>2, <1>3


-----------------------------------------------------------------------------
(* read_from_file.                                                          *)

\* Where the reader is after each round, up to the m-th.
Turns(after, s, r, m) ==
    after = [k \in 0..m |-> IF k = 0 THEN r ELSE ReadPart(s, after[k - 1])]

LEMMA TurnsExist ==
  ASSUME NEW s, NEW r
  PROVE  \A n \in Nat : \E after : Turns(after, s, r, n)
<1> DEFINE Has == {m \in Nat : \E after : Turns(after, s, r, m)}
<1>1. 0 \in Has
  <2>1. PICK g : g = [k \in 0..0 |-> r]
    OBVIOUS
  <2>2. g = [k \in 0..0 |-> IF k = 0 THEN r ELSE ReadPart(s, g[k - 1])]
    BY <2>1
  <2> QED BY <2>2 DEF Turns
<1>2. ASSUME NEW m \in Nat, m \in Has PROVE m + 1 \in Has
  <2>1. PICK g : Turns(g, s, r, m)
    BY <1>2
  <2>2. PICK h : h = [k \in 0..m + 1 |-> IF k = 0 THEN r
                                         ELSE IF k = m + 1 THEN ReadPart(s, g[m]) ELSE g[k]]
    OBVIOUS
  <2>3. ASSUME NEW k \in 0..m + 1
        PROVE  h[k] = IF k = 0 THEN r ELSE ReadPart(s, h[k - 1])
    <3>1. CASE k = 0
      BY <3>1, <2>2
    <3>2. CASE k # 0
      <4>1. k - 1 \in 0..m /\ k - 1 \in 0..m + 1 /\ k - 1 # m + 1
        BY <3>2
      <4>2. h[k - 1] = g[k - 1]
        <5>1. CASE k - 1 = 0
          <6>1. g[0] = r
            BY <5>1, <4>1, <2>1 DEF Turns
          <6> QED BY <5>1, <6>1, <4>1, <2>2
        <5>2. CASE k - 1 # 0
          BY <5>2, <4>1, <2>2
        <5> QED BY <5>1, <5>2
      <4>3. CASE k = m + 1
        <5>1. k - 1 = m
          BY <4>3
        <5>2. h[k] = ReadPart(s, g[m])
          BY <3>2, <4>3, <2>2
        <5> QED BY <5>1, <5>2, <4>2, <3>2
      <4>4. CASE k # m + 1
        <5>1. k \in 0..m
          BY <4>4
        <5>2. g[k] = ReadPart(s, g[k - 1])
          BY <5>1, <3>2, <2>1 DEF Turns
        <5>3. h[k] = g[k]
          BY <5>1, <3>2, <4>4, <2>2
        <5> QED BY <5>2, <5>3, <4>2, <3>2
      <4> QED BY <4>3, <4>4
    <3> QED BY <3>1, <3>2
  <2>4. h = [k \in 0..m + 1 |-> h[k]]
    BY <2>2
  <2>5. Turns(h, s, r, m + 1)
    BY <2>3, <2>4 DEF Turns
  <2> QED BY <2>5
<1>3. \A m \in Nat : m \in Has
  <2> HIDE DEF Has
  <2> QED BY <1>1, <1>2, Induction
<1> QED BY <1>3

\* The loops end: each round leaves less to skip or to read.
LEMMA TurnsEnd ==
  ASSUME NEW s \in Volumes, NEW n, NEW way, NEW off, NEW c, Spread(s, n, way, off, c),
         NEW from \in Nat, NEW count \in Nat, NEW r, Reading(s, n, way, off, c, from, count, r),
         r.seek \in Nat, r.count \in Nat,
         NEW l \in Nat, l = r.seek + r.count, NEW after, Turns(after, s, r, l)
  PROVE  Reading(s, n, way, off, c, from, count, after[l]) /\ Over(after[l])
<1> DEFINE Left(v, k) == Over(v) \/ v.seek + v.count + k <= l
           Fit(v, k) == /\ Reading(s, n, way, off, c, from, count, v)
                        /\ v.seek \in Nat /\ v.count \in Nat /\ Left(v, k)
           Good == {k \in Nat : k \in 0..l => Fit(after[k], k)}
<1>1. 0 \in Good
  <2>1. after[0] = r
    BY DEF Turns
  <2> QED BY <2>1
<1>2. ASSUME NEW k \in Nat, k \in Good PROVE k + 1 \in Good
  <2>1. PICK j \in Nat : j = k + 1
    OBVIOUS
  <2>2. SUFFICES ASSUME j \in 0..l PROVE Fit(after[j], j)
    <3> HIDE DEF Fit
    <3> QED BY <2>1
  <2>3. k \in 0..l /\ j - 1 = k /\ j # 0
    BY <2>1, <2>2
  <2>4. PICK v : v = after[k] /\ Fit(v, k)
    BY <1>2, <2>3
  <2>5. PICK u : u = ReadPart(s, v) /\ Advances(s, n, way, off, c, from, count, v, u)
    BY <2>4, ReadPartKept
  <2>6. after[j] = u
    <3>1. after[j] = ReadPart(s, after[j - 1])
      BY <2>2, <2>3 DEF Turns
    <3> QED BY <2>3, <2>4, <2>5, <3>1
  <2>7. /\ Reading(s, n, way, off, c, from, count, u)
        /\ Over(u) \/ u.seek + u.count + 1 <= v.seek + v.count
    BY <2>5 DEF Advances
  <2>8. u.seek \in Nat /\ u.count \in Nat
    <3>1. PICK m : /\ HasRead(c, from, count, m, u)
                   /\ \/ Finished(s, n, way, c, from, count, m, u)
                      \/ Within(n, way, off, from, count, m, u)
      BY <2>7 DEF Reading
    <3>2. m \in Nat /\ m <= count
      BY <3>1 DEF HasRead
    <3>3. Finished(s, n, way, c, from, count, m, u) => u.seek = 0 /\ u.count = 0
      BY DEF Finished
    <3>4. Within(n, way, off, from, count, m, u) => u.seek \in Nat /\ u.count = count - m
      BY DEF Within
    <3> QED BY <3>1, <3>2, <3>3, <3>4
  <2>9. Left(u, j)
    <3>1. CASE Over(u)
      BY <3>1
    <3>2. CASE ~Over(u)
      <4>1. u.seek + u.count + 1 <= v.seek + v.count
        BY <2>7, <3>2
      <4>2. ~Over(v)
        BY <4>1, <2>8 DEF Over
      <4>3. v.seek + v.count + k <= l
        BY <4>2, <2>4
      <4> QED BY <4>1, <4>3, <2>1, <2>4, <2>8
    <3> QED BY <3>1, <3>2
  <2> QED BY <2>6, <2>7, <2>8, <2>9
<1>3. l \in Good
  <2> HIDE DEF Good
  <2> QED BY <1>1, <1>2, Induction
<1>4. Fit(after[l], l)
  BY <1>3
<1>5. PICK a, b \in Nat : a = after[l].seek /\ b = after[l].count
  BY <1>4
<1>6. a + b + l <= l => a = 0 /\ b = 0
  OBVIOUS
<1> QED BY <1>4, <1>5, <1>6 DEF Over

\* What read_from_file gives: what there is from that place on, and no more than
\* it was to read, with a count that is not too high.
Got(s, n, way, c, from, count, bytes, total) ==
    \E m \in Nat :
        /\ bytes = Piece(c, from, m) /\ m <= count /\ from + m <= Len(c)
        /\ m = count \/ from + m = Len(c)
        /\ total \in Nat /\ total <= m
        /\ m > 0 /\ s.part[way[n]].part_size \notin {0, Size} => total > 0

LEMMA ReadPartsKept ==
  ASSUME NEW s \in Volumes, NEW n, NEW way, NEW off, NEW c, Spread(s, n, way, off, c),
         NEW from \in Nat, NEW count \in Nat, from <= Len(c),
         NEW r, r = ReadParts(s, way[1], from, count)
  PROVE  Got(s, n, way, c, from, count, r.bytes, r.n)
<1>1. PICK first : first = Reader(way[1], from, count, 0, <<>>)
  OBVIOUS
<1>2. PICK l \in Nat : l = from + count
  OBVIOUS
<1>3. PICK after : after = CHOOSE g : Turns(g, s, first, l)
  OBVIOUS
<1>4. Turns(after, s, first, l)
  BY <1>3, TurnsExist
<1>5. r = after[l]
  BY <1>1, <1>2, <1>3, Zenon DEF ReadParts, Turns
<1>6. Reading(s, n, way, off, c, from, count, first)
  <2>1. HasRead(c, from, count, 0, first)
    <3>1. Piece(c, from, 0) = <<>>
      BY DEF Piece
    <3> QED BY <3>1, <1>1 DEF HasRead, Reader
  <2>2. Within(n, way, off, from, count, 0, first)
    <3>1. PICK k \in 1..n : k = 1 /\ k - 1 = 0 /\ off[k - 1] = 0
      BY Sizes DEF Spread, Parts, Offsets
    <3>2. /\ first.lba = way[k] /\ first.seek = from /\ first.count = count
          /\ off[k - 1] + from = from + 0 /\ count = count - 0
      BY <3>1, <1>1 DEF Reader
    <3> QED BY <3>2 DEF Within
  <2> QED BY <2>1, <2>2 DEF Reading
<1>7. first.seek \in Nat /\ first.count \in Nat /\ l = first.seek + first.count
  BY <1>1, <1>2 DEF Reader
<1>8. Reading(s, n, way, off, c, from, count, r) /\ Over(r)
  BY <1>4, <1>5, <1>6, <1>7, TurnsEnd
<1>9. PICK m : /\ HasRead(c, from, count, m, r)
               /\ \/ Finished(s, n, way, c, from, count, m, r)
                  \/ Within(n, way, off, from, count, m, r)
  BY <1>8 DEF Reading
<1>10. /\ m \in Nat /\ r.bytes = Piece(c, from, m) /\ m <= count /\ from + m <= Len(c)
       /\ r.n \in Nat /\ r.n <= m
  BY <1>9 DEF HasRead
<1>11. /\ m = count \/ from + m = Len(c)
       /\ m > 0 /\ s.part[way[n]].part_size \notin {0, Size} => r.n > 0
  <2>1. CASE Finished(s, n, way, c, from, count, m, r)
    BY <2>1 DEF Finished
  <2>2. CASE Within(n, way, off, from, count, m, r)
    <3>1. 0 = count - m /\ ~(m > 0)
      BY <2>2, <1>8, <1>10 DEF Within, Over
    <3> QED BY <3>1, <1>10
  <2> QED BY <2>1, <2>2, <1>9
<1> QED BY <1>10, <1>11 DEF Got

-----------------------------------------------------------------------------
(* The files that the property names.                                      *)

\* The parts of a file, or none if it has no part.
Stored(s, addr, c) ==
    \/ ~Linked(addr) /\ c = <<>>
    \/ /\ Linked(addr)
       /\ \E n, way, off : Spread(s, n, way, off, c) /\ way[1] = addr.lba

LEMMA StoredIs ==
  ASSUME Inv, volume = "sound", NEW e \in Files
  PROVE  Stored(state, AddrOf(e), Content(AddrOf(e))) /\ state \in Volumes
<1>1. state \in Volumes /\ Shape(state) /\ state.part = part
  BY DEF Inv, state
<1>2. e \in Entries /\ ~IsDir(AddrOf(e))
  BY DEF Files
<1>3. PICK b \in Dirs(state), i \in Slot : e = <<b, i>> /\ i # 0 /\ AddrOf(e) = Pointer(state, b, i)
  BY <1>1, <1>2, EntryIs
<1>4. b \in Block
  BY <1>1, DirsAre
<1>5. PICK a : a = AddrOf(e) /\ a = Pointer(state, b, i) /\ ~IsDir(a)
  BY <1>2, <1>3
<1>6. PICK c : c = Content(a)
  OBVIOUS
<1>7. CASE ~Linked(a)
  BY <1>1, <1>5, <1>6, <1>7 DEF Content, Stored
<1>8. CASE Linked(a)
  <2>1. c = DataIn(state, a)
    <3>1. NodeAt(<<b, i>>, <<>>) = NodeOf(state, b, i, <<>>)
      BY NodeIs
    <3>2. NodeAt(e, <<>>).data = c
      BY <1>5, <1>6 DEF NodeAt
    <3>3. NodeOf(state, b, i, <<>>).data = DataIn(state, a)
      BY <1>5, Zenon DEF NodeOf, FT!Node
    <3> QED BY <1>3, <3>1, <3>2, <3>3
  <2>2. \E n, way, off : /\ Spread(state, n, way, off, DataIn(state, Pointer(state, b, i)))
                         /\ way[1] = Target(state, b, i)
    BY <1>1, <1>4, <1>5, <1>8, FileSpread DEF Leads
  <2>3. Target(state, b, i) = a.lba
    BY <1>5 DEF Target
  <2>4. \E n, way, off : Spread(state, n, way, off, c) /\ way[1] = a.lba
    BY <1>5, <2>1, <2>2, <2>3
  <2> QED BY <1>1, <1>5, <1>6, <1>8, <2>4 DEF Stored
<1> QED BY <1>7, <1>8

LEMMA StoredText ==
  ASSUME NEW s, NEW addr, NEW c, Stored(s, addr, c)
  PROVE  c \in Seq(0..MAX_WRITE) /\ Len(c) <= BLOCKS * Size
<1>1. CASE c = <<>>
  <2>1. PICK all \in Nat : all = BLOCKS * Size
    BY Sizes, Times DEF Size
  <2>2. <<>> \in Seq(0..MAX_WRITE) /\ Len(<<>>) = 0
    OBVIOUS
  <2> QED BY <1>1, <2>1, <2>2
<1>2. CASE c # <<>>
  <2>1. PICK n, way, off : Spread(s, n, way, off, c)
    BY <1>2 DEF Stored
  <2> QED BY <2>1 DEF Spread
<1> QED BY <1>1, <1>2

\* What is read of a file.
Gives(c, from, count, bytes, total) ==
    \E m \in Nat :
        /\ bytes = Piece(c, from, m) /\ m <= count /\ from + m <= Len(c)
        /\ m = count \/ from + m = Len(c)
        /\ total \in Nat /\ total <= m
        /\ m > 0 /\ Len(c) % Size # 0 => total > 0

LEMMA ReadIs ==
  ASSUME NEW s \in Volumes, NEW addr, NEW c, Stored(s, addr, c), NEW from \in Nat,
         NEW count \in Nat, from <= Len(c), NEW r, r = ReadFromFile(s, addr, from, count)
  PROVE  Gives(c, from, count, r.bytes, r.n)
<1>1. CASE ~Linked(addr)
  <2>1. c = <<>> /\ r = Taken(0, <<>>)
    BY <1>1, Zenon DEF Stored, ReadFromFile
  <2>2. Piece(c, from, 0) = <<>> /\ Len(c) = 0 /\ from = 0
    BY <2>1 DEF Piece
  <2>3. r.bytes = <<>> /\ r.n = 0
    BY <2>1 DEF Taken
  <2> QED BY <2>2, <2>3 DEF Gives
<1>2. CASE Linked(addr)
  <2>1. PICK n, way, off : Spread(s, n, way, off, c) /\ way[1] = addr.lba
    BY <1>2 DEF Stored
  <2>2. PICK v : v = ReadParts(s, way[1], from, count)
    OBVIOUS
  <2>3. r = Taken(v.n, v.bytes)
    BY <1>2, <2>1, <2>2, Zenon DEF ReadFromFile
  <2>4. Got(s, n, way, c, from, count, v.bytes, v.n)
    BY <2>1, <2>2, ReadPartsKept
  <2>5. Len(c) % Size # 0 => s.part[way[n]].part_size \notin {0, Size}
    BY <2>1 DEF Spread
  <2>6. r.bytes = v.bytes /\ r.n = v.n
    BY <2>3 DEF Taken
  <2> QED BY <2>4, <2>5, <2>6 DEF Got, Gives
<1> QED BY <1>1, <1>2

\* Pieces as sequences say them.
LEMMA SubPiece ==
  ASSUME NEW c \in Seq(0..MAX_WRITE), NEW a \in Nat, NEW m \in Nat, a + m <= Len(c),
         NEW t \in 0..m
  PROVE  SubSeq(Piece(c, a, m), 1, t) = Piece(c, a, t)
<1>1. PICK u \in Seq(0..MAX_WRITE) : u = Piece(c, a, m) /\ Len(u) = m
  BY Sizes, PieceIs
<1>2. SubSeq(u, 1, t) = [i \in 1..t |-> u[i]]
  <2>1. SubSeq(u, 1, t) = [i \in 1..t - 1 + 1 |-> u[1 + i - 1]]
    OBVIOUS
  <2>2. t - 1 + 1 = t /\ \A i \in 1..t : 1 + i - 1 = i
    OBVIOUS
  <2> QED BY <2>1, <2>2
<1>3. ASSUME NEW i \in 1..t PROVE u[i] = c[a + i]
  <2>1. i \in 1..m
    OBVIOUS
  <2> QED BY <2>1, <1>1 DEF Piece
<1>4. [i \in 1..t |-> u[i]] = [i \in 1..t |-> c[a + i]]
  BY <1>3, Zenon
<1> QED BY <1>1, <1>2, <1>4 DEF Piece

LEMMA PieceSub ==
  ASSUME NEW c \in Seq(0..MAX_WRITE), NEW a \in Nat, NEW m \in Nat, a + m <= Len(c),
         NEW b, b = a + m
  PROVE  Piece(c, a, m) = SubSeq(c, a + 1, b)
<1>1. PICK from \in Nat, to \in Nat : from = a + 1 /\ to = b /\ to - from + 1 = m
  OBVIOUS
<1>2. SubSeq(c, from, to) = [i \in 1..to - from + 1 |-> c[from + i - 1]]
  OBVIOUS
<1>3. ASSUME NEW i \in 1..m PROVE c[from + i - 1] = c[a + i]
  <2>1. from + i - 1 = a + i
    BY <1>1
  <2> QED BY <2>1
<1>4. [i \in 1..m |-> c[from + i - 1]] = [i \in 1..m |-> c[a + i]]
  BY <1>3, Zenon
<1> QED BY <1>1, <1>2, <1>4, Zenon DEF Piece

LEMMA LeastIs ==
  ASSUME NEW a \in Nat, NEW b \in Nat
  PROVE  Min({a, b}) = IF a <= b THEN a ELSE b
<1>1. PICK m \in Nat : m = (IF a <= b THEN a ELSE b)
  OBVIOUS
<1>2. m \in {a, b} /\ \A y \in {a, b} : m <= y
  BY <1>1
<1>3. \A x \in {a, b} : (\A y \in {a, b} : x <= y) => x = m
  BY <1>1
<1>4. Min({a, b}) = m
  BY <1>2, <1>3 DEF Min
<1> QED BY <1>1, <1>4

LEMMA InvReadsRight == Inv => ReadsRight
<1>1. SUFFICES ASSUME Inv, volume = "sound", NEW e \in Files,
                      NEW seek \in 0..Len(Content(AddrOf(e))),
                      NEW count \in 0..Len(Content(AddrOf(e))) + 1
               PROVE  LET c == Content(AddrOf(e))
                          r == ReadFromFile(state, AddrOf(e), seek, count)
                      IN  /\ r.bytes = SubSeq(c, seek + 1, Min({seek + count, Len(c)}))
                          /\ r.n <= Len(r.bytes)
  BY DEF ReadsRight
<1>2. PICK c, addr : c = Content(addr) /\ addr = AddrOf(e)
  OBVIOUS
<1>3. Stored(state, addr, c) /\ state \in Volumes
  BY <1>1, <1>2, StoredIs
<1>4. c \in Seq(0..MAX_WRITE)
  BY <1>3, StoredText
<1>5. PICK l \in Nat : l = Len(c)
  BY <1>4
<1>6. seek \in Nat /\ seek <= l /\ count \in Nat
  BY <1>1, <1>2, <1>5
<1>7. PICK r : r = ReadFromFile(state, addr, seek, count)
  OBVIOUS
<1>8. PICK m \in Nat :
        /\ r.bytes = Piece(c, seek, m) /\ m <= count /\ seek + m <= l
        /\ m = count \/ seek + m = l
        /\ r.n \in Nat /\ r.n <= m
  <2>1. Gives(c, seek, count, r.bytes, r.n)
    BY <1>3, <1>5, <1>6, <1>7, ReadIs
  <2> QED BY <2>1, <1>5 DEF Gives
<1>9. Min({seek + count, l}) = seek + m
  <2>1. seek + count \in Nat
    BY <1>6
  <2>2. Min({seek + count, l}) = IF seek + count <= l THEN seek + count ELSE l
    BY <2>1, LeastIs
  <2>3. (IF seek + count <= l THEN seek + count ELSE l) = seek + m
    BY <1>6, <1>8
  <2> QED BY <2>2, <2>3
<1>10. Piece(c, seek, m) = SubSeq(c, seek + 1, seek + m)
  <2>1. PICK b : b = seek + m
    OBVIOUS
  <2>2. Piece(c, seek, m) = SubSeq(c, seek + 1, b)
    <3>1. seek + m <= Len(c)
      BY <1>5, <1>8
    <3> QED BY <1>4, <1>6, <2>1, <3>1, PieceSub
  <2> QED BY <2>1, <2>2
<1>11. Len(r.bytes) = m
  BY <1>4, <1>5, <1>6, <1>8, Sizes, PieceIs
<1>12. /\ r.bytes = SubSeq(c, seek + 1, Min({seek + count, Len(c)}))
       /\ r.n <= Len(r.bytes)
  BY <1>5, <1>8, <1>9, <1>10, <1>11
<1> QED BY <1>2, <1>7, <1>12

-----------------------------------------------------------------------------
(* The read command.                                                       *)

\* What the read command has shown after each round, up to the m-th.
Pieces(after, s, addr, w, m) ==
    after = [k \in 0..m |-> IF k = 0 THEN w ELSE ReadPiece(s, addr, after[k - 1])]

LEMMA PiecesExist ==
  ASSUME NEW s, NEW addr, NEW w
  PROVE  \A n \in Nat : \E after : Pieces(after, s, addr, w, n)
<1> DEFINE Has == {m \in Nat : \E after : Pieces(after, s, addr, w, m)}
<1>1. 0 \in Has
  <2>1. PICK g : g = [k \in 0..0 |-> w]
    OBVIOUS
  <2>2. g = [k \in 0..0 |-> IF k = 0 THEN w ELSE ReadPiece(s, addr, g[k - 1])]
    BY <2>1
  <2> QED BY <2>2 DEF Pieces
<1>2. ASSUME NEW m \in Nat, m \in Has PROVE m + 1 \in Has
  <2>1. PICK g : Pieces(g, s, addr, w, m)
    BY <1>2
  <2>2. PICK h : h = [k \in 0..m + 1 |-> IF k = 0 THEN w
                                         ELSE IF k = m + 1 THEN ReadPiece(s, addr, g[m]) ELSE g[k]]
    OBVIOUS
  <2>3. ASSUME NEW k \in 0..m + 1
        PROVE  h[k] = IF k = 0 THEN w ELSE ReadPiece(s, addr, h[k - 1])
    <3>1. CASE k = 0
      BY <3>1, <2>2
    <3>2. CASE k # 0
      <4>1. k - 1 \in 0..m /\ k - 1 \in 0..m + 1 /\ k - 1 # m + 1
        BY <3>2
      <4>2. h[k - 1] = g[k - 1]
        <5>1. CASE k - 1 = 0
          <6>1. g[0] = w
            BY <5>1, <4>1, <2>1 DEF Pieces
          <6> QED BY <5>1, <6>1, <4>1, <2>2
        <5>2. CASE k - 1 # 0
          BY <5>2, <4>1, <2>2
        <5> QED BY <5>1, <5>2
      <4>3. CASE k = m + 1
        <5>1. k - 1 = m
          BY <4>3
        <5>2. h[k] = ReadPiece(s, addr, g[m])
          BY <3>2, <4>3, <2>2
        <5> QED BY <5>1, <5>2, <4>2, <3>2
      <4>4. CASE k # m + 1
        <5>1. k \in 0..m
          BY <4>4
        <5>2. g[k] = ReadPiece(s, addr, g[k - 1])
          BY <5>1, <3>2, <2>1 DEF Pieces
        <5>3. h[k] = g[k]
          BY <5>1, <3>2, <4>4, <2>2
        <5> QED BY <5>2, <5>3, <4>2, <3>2
      <4> QED BY <4>3, <4>4
    <3> QED BY <3>1, <3>2
  <2>4. h = [k \in 0..m + 1 |-> h[k]]
    BY <2>2
  <2>5. Pieces(h, s, addr, w, m + 1)
    BY <2>3, <2>4 DEF Pieces
  <2> QED BY <2>5
<1>3. \A m \in Nat : m \in Has
  <2> HIDE DEF Has
  <2> QED BY <1>1, <1>2, Induction
<1> QED BY <1>3

\* It has shown the file up to where it has read, and each round showed a byte at
\* least unless it is at the end.
Shown(c, k, w) ==
    /\ w.r_seek \in Nat /\ w.r_seek <= Len(c) /\ w.shown = Piece(c, 0, w.r_seek)
    /\ w.r_seek = Len(c) \/ w.r_seek >= k

LEMMA ReadPieceKept ==
  ASSUME NEW s \in Volumes, NEW addr, NEW c, Stored(s, addr, c), Len(c) % Size # 0,
         NEW k \in Nat, NEW w, Shown(c, k, w), NEW j, j = k + 1
  PROVE  Shown(c, j, ReadPiece(s, addr, w))
<1>1. c \in Seq(0..MAX_WRITE)
  BY StoredText
<1>2. PICK l \in Nat, a \in Nat : /\ l = Len(c) /\ a = w.r_seek /\ a <= l
                                  /\ w.shown = Piece(c, 0, a) /\ (a = l \/ a >= k)
  BY <1>1 DEF Shown
<1>3. BUFFER \in Nat /\ BUFFER > 0
  <2>1. {BLOCKS, DIR_ENTRIES_PER_PART, FILE_DATA_PER_PART, BUFFER} \subseteq Nat \ {0}
    BY SizeAssumption DEF SizeAssumption
  <2> QED BY <2>1
<1>4. PICK r : r = ReadFromFile(s, addr, a, BUFFER)
  OBVIOUS
<1>5. PICK m, t \in Nat :
        /\ r.bytes = Piece(c, a, m) /\ a + m <= l /\ (m = BUFFER \/ a + m = l)
        /\ t = r.n /\ t <= m /\ (m > 0 => t > 0)
  <2>1. Gives(c, a, BUFFER, r.bytes, r.n)
    BY <1>2, <1>3, <1>4, ReadIs
  <2> QED BY <2>1, <1>2 DEF Gives
<1>6. PICK b \in Nat : b = a + t /\ b <= l /\ (b = l \/ b >= j)
  BY <1>2, <1>3, <1>5
<1>7. ReadPiece(s, addr, w) = [r_seek |-> b, shown |-> Piece(c, 0, a) \o SubSeq(r.bytes, 1, t)]
  <2>1. Advanced(w.r_seek, r.n) = b
    BY <1>2, <1>5, <1>6 DEF Advanced
  <2> QED BY <2>1, <1>2, <1>4, <1>5, Zenon DEF ReadPiece
<1>8. Piece(c, 0, a) \o SubSeq(r.bytes, 1, t) = Piece(c, 0, b)
  <2>1. SubSeq(r.bytes, 1, t) = Piece(c, a, t)
    <3>1. t \in 0..m /\ a + m <= Len(c)
      BY <1>2, <1>5
    <3>2. SubSeq(Piece(c, a, m), 1, t) = Piece(c, a, t)
      BY <1>1, <3>1, SubPiece
    <3> QED BY <1>5, <3>2
  <2>2. 0 + a + t <= Len(c) /\ 0 \in Nat /\ 0 + a = a
    BY <1>2, <1>6
  <2>3. Piece(c, 0, a) \o Piece(c, 0 + a, t) = Piece(c, 0, a + t)
    BY <1>1, <2>2, PiecesJoin
  <2>4. Piece(c, 0, a) \o Piece(c, a, t) = Piece(c, 0, b)
    BY <2>2, <2>3, <1>6
  <2> QED BY <2>1, <2>4
<1>9. PICK text : text = Piece(c, 0, b)
  OBVIOUS
<1>10. PICK v : v = ReadPiece(s, addr, w)
  OBVIOUS
<1>11. v = [r_seek |-> b, shown |-> text]
  BY <1>7, <1>8, <1>9, <1>10, Zenon
<1>12. v.r_seek = b /\ v.shown = text
  BY <1>11
<1> QED BY <1>2, <1>6, <1>9, <1>10, <1>12 DEF Shown

LEMMA ReadCmdIs ==
  ASSUME NEW s \in Volumes, NEW addr, NEW c, Stored(s, addr, c), Len(c) % Size # 0
  PROVE  ReadCmd(s, addr) = c
<1>1. c \in Seq(0..MAX_WRITE)
  BY StoredText
<1>2. PICK l \in Nat, n \in Nat : l = Len(c) /\ n = BLOCKS * Size /\ l <= n
  <2>1. BLOCKS * Size \in Nat
    BY Sizes, Times DEF Size
  <2>2. Len(c) <= BLOCKS * Size
    BY StoredText
  <2> QED BY <1>1, <2>1, <2>2
<1>3. PICK w : w = [r_seek |-> 0, shown |-> <<>>]
  OBVIOUS
<1>4. PICK after : after = CHOOSE g : Pieces(g, s, addr, w, n)
  OBVIOUS
<1>5. Pieces(after, s, addr, w, n)
  BY <1>4, PiecesExist
<1>6. ReadCmd(s, addr) = after[n].shown
  BY <1>2, <1>3, <1>4, Zenon DEF ReadCmd, Pieces, Size
<1> DEFINE Good == {k \in Nat : k \in 0..n => Shown(c, k, after[k])}
<1>7. 0 \in Good
  <2>1. after[0] = w
    BY <1>5 DEF Pieces
  <2>2. Piece(c, 0, 0) = <<>>
    BY DEF Piece
  <2>3. w.r_seek = 0 /\ w.shown = <<>>
    BY <1>3
  <2>4. Shown(c, 0, w)
    BY <2>2, <2>3, <1>2 DEF Shown
  <2> QED BY <2>1, <2>4
<1>8. ASSUME NEW k \in Nat, k \in Good PROVE k + 1 \in Good
  <2>1. PICK j \in Nat : j = k + 1
    OBVIOUS
  <2>2. SUFFICES ASSUME j \in 0..n PROVE Shown(c, j, after[j])
    BY <2>1
  <2>3. k \in 0..n /\ j - 1 = k /\ j # 0
    BY <2>1, <2>2
  <2>4. PICK v : v = after[k] /\ Shown(c, k, v)
    BY <1>8, <2>3
  <2>5. after[j] = ReadPiece(s, addr, v)
    <3>1. after[j] = ReadPiece(s, addr, after[j - 1])
      BY <2>2, <2>3, <1>5 DEF Pieces
    <3> QED BY <2>3, <2>4, <3>1
  <2>6. Shown(c, j, ReadPiece(s, addr, v))
    BY <2>1, <2>4, ReadPieceKept
  <2> QED BY <2>5, <2>6
<1>9. n \in Good
  <2> HIDE DEF Good
  <2> QED BY <1>7, <1>8, Induction
<1>10. Shown(c, n, after[n])
  BY <1>9
<1>11. PICK a \in Nat : a = after[n].r_seek /\ a = l /\ after[n].shown = Piece(c, 0, a)
  <2>1. PICK a \in Nat : /\ a = after[n].r_seek /\ a <= l /\ (a = l \/ a >= n)
                         /\ after[n].shown = Piece(c, 0, a)
    BY <1>2, <1>10 DEF Shown
  <2>2. a = l
    BY <2>1, <1>2
  <2> QED BY <2>1, <2>2
<1>12. Piece(c, 0, l) = c
  <2>1. \A i \in 1..l : 0 + i = i
    OBVIOUS
  <2>2. Piece(c, 0, l) = [i \in 1..l |-> c[i]]
    BY <2>1 DEF Piece
  <2>3. c = [i \in 1..l |-> c[i]]
    BY <1>1, <1>2
  <2> QED BY <2>2, <2>3
<1> QED BY <1>6, <1>11, <1>12

LEMMA InvReadCmdRight == Inv => ReadCmdRight
<1>1. SUFFICES ASSUME Inv, volume = "sound", NEW e \in Files,
                      NEW c, c = Content(AddrOf(e)), Len(c) % FILE_DATA_PER_PART # 0
               PROVE  ReadCmd(state, AddrOf(e)) = c
  BY DEF ReadCmdRight
<1>2. Stored(state, AddrOf(e), c) /\ state \in Volumes
  BY <1>1, StoredIs
<1> QED BY <1>1, <1>2, ReadCmdIs DEF Size

\* Reading gives what is stored, whatever the size of a part, of a file and of the
\* buffer, from any place and in pieces of any length (read_from_file), although the
\* count it returns may be too low; and the read command, which goes on by that count,
\* shows all of a file whose last part is neither empty nor full.
THEOREM ReadsWhole == Spec => []FilesRead
<1>1. Spec => []Inv
  BY InitInv, NextInv, PTL DEF Spec
<1>2. Inv => FilesRead
  BY InvReadsRight, InvReadCmdRight DEF FilesRead
<1> QED BY <1>1, <1>2, PTL

=============================================================================
