------------------------------- MODULE EdenFS -------------------------------
(***************************************************************************)
(* The file system of the kernel (edenfs.c): directories and files are     *)
(* chains of parts, one part to a block, and an address holds the LBA of   *)
(* the first part of a chain and three flags.                              *)
(*                                                                         *)
(* An operation is one action: one command at a time uses the file system  *)
(* here.  (BlockAllocator shows what several do to each other.)            *)
(*                                                                         *)
(* balloc gives the first free block, or 0, and 0 is the boot sector.  An  *)
(* operation that treats the boot sector as a part, or goes on at an       *)
(* address that is no LBA, leaves the volume undefined: "volume" says      *)
(* which, and nothing is modelled after it.                                *)
(***************************************************************************)
EXTENDS FiniteSetsExt, SequencesExt, Integers

CONSTANTS
    Name,                  \* names of directories and files
    BLOCKS,                \* blocks that balloc can give, the root included
    DIR_ENTRIES_PER_PART,  \* 31 in the code
    FILE_DATA_PER_PART,    \* 506 in the code
    BUFFER,                \* bytes the read command asks for, 4096 in the code
    MAX_WRITE,             \* bound on the bytes written to a file
    TargetType,            \* types that are created: "dir", "file"
    WithHost               \* whether the host may have made a directory before

SizeMax == 2^16 - 1  \* part_size is a uint16_t

ASSUME SizeAssumption ==
    /\ {BLOCKS, DIR_ENTRIES_PER_PART, FILE_DATA_PER_PART, BUFFER} \subseteq Nat \ {0}
    /\ {DIR_ENTRIES_PER_PART, FILE_DATA_PER_PART} \subseteq 1..SizeMax
    /\ MAX_WRITE \in Nat
ASSUME TypeAssumption == TargetType \subseteq {"dir", "file"}
ASSUME HostAssumption == WithHost \in BOOLEAN /\ (WithHost => BLOCKS > 1)

Root  == 1
Boot  == 0
Block == 1..BLOCKS
Slot  == 1..DIR_ENTRIES_PER_PART
Path  == UNION {[1..n -> Name] : n \in 1..2}

Flags     == SUBSET {"PRESENT", "IS_DIR", "NOT_EMPTY"}
Addr(lba, flags) == [lba |-> lba, flags |-> flags]
NoAddr    == Addr(Boot, {})
NoName    == "none"
NoEntry   == [name |-> NoName, addr |-> NoAddr]
NotFound  == <<0, 0>>
NoFile    == <<0, 0>>

\* A block of zeroes.  Directory parts use "entry", file parts "data".
ZeroPart == [part_size |-> 0,
             entry |-> [s \in Slot |-> NoEntry],
             data  |-> [i \in 1..FILE_DATA_PER_PART |-> 0],
             next  |-> NoAddr]

VARIABLES
    part,     \* the block contents
    used,     \* the blocks that are not free
    volume,   \* "sound", "boot" (boot sector taken for a part) or "wild"
    f         \* the file the text command has open, <<base_lba, offset>>

vars == <<part, used, volume, f>>

\* An operation computes the state of the volume after it.
state == [part |-> part, used |-> used, volume |-> volume]

Present(addr) == "PRESENT" \in addr.flags
IsDir(addr)   == "IS_DIR" \in addr.flags
Linked(addr)  == Present(addr) /\ "NOT_EMPTY" \in addr.flags

-----------------------------------------------------------------------------
(* Blocks.                                                                 *)

\* The bitmap with the bit of a block set.
WithBit(s, b) == s.used \cup {b}

Balloc(s) ==
    LET free == Block \ s.used
    IN  IF free = {} THEN [lba |-> Boot, s |-> s]
        ELSE [lba |-> Min(free),
              s   |-> [s EXCEPT !.used = WithBit(s, Min(free)),
                                !.part[Min(free)] = ZeroPart]]

\* The blocks of the chain that starts at lba, from part to part until one
\* has no next one.  One with more parts than blocks has no end.
NextPart(s, lba) == IF lba # Boot /\ Linked(s.part[lba].next)
                    THEN s.part[lba].next.lba ELSE Boot
Chain(s, lba) ==
    LET at[k \in 1..BLOCKS + 1] == IF k = 1 THEN lba ELSE NextPart(s, at[k - 1])
    IN  [k \in {k \in 1..BLOCKS + 1 : at[k] # Boot} |-> at[k]]

\* bfree of each.  (A free block is not read before balloc zeroes it.)
FreedFirst(s, lba) == {lba}  \* mutant: only the first part is freed
Freed(s, lba) == ToSet(Chain(s, lba))

DeleteChainParts(s, addr) ==
    IF "NOT_EMPTY" \notin addr.flags THEN s
    ELSE LET freed == Freed(s, addr.lba)
         IN  [s EXCEPT !.used = @ \ freed,
                       !.part = [b \in Block |-> IF b \in freed THEN ZeroPart
                                                 ELSE @[b]]]

-----------------------------------------------------------------------------
(* Looking up.                                                             *)

TypeFitsAny(addr, type) == TRUE  \* mutant: the type is not looked at
TypeFits(addr, type) ==
    \/ type = "undefined"
    \/ type = "dir" /\ IsDir(addr)
    \/ type = "file" /\ ~IsDir(addr)

\* The scan of a part ends after part_size entries that are present.
InScanNoHoles(p, i) == i <= p.part_size  \* mutant: every slot counts
InScan(p, i) ==
    Cardinality({j \in 1..i - 1 : Present(p.entry[j].addr)}) < p.part_size

Hits(p, name, type, not_empty) ==
    {i \in Slot : /\ InScan(p, i)
                  /\ Present(p.entry[i].addr)
                  /\ TypeFits(p.entry[i].addr, type)
                  /\ not_empty => Linked(p.entry[i].addr)
                  /\ p.entry[i].name = name}

\* The first hit in the first part that has one.
FindInDir(s, lba, name, type, not_empty) ==
    LET parts == Chain(s, lba)
        hits(k) == Hits(s.part[parts[k]], name, type, not_empty)
        where == {k \in DOMAIN parts : hits(k) # {}}
    IN  IF where = {} THEN NotFound ELSE <<parts[Min(where)], Min(hits(Min(where)))>>

EntryAt(s, pos) == s.part[pos[1]].entry[pos[2]]

FindPath(s, path, type, not_empty) ==
    IF Len(path) = 1 THEN FindInDir(s, Root, path[1], type, not_empty)
    ELSE LET d == FindInDir(s, Root, path[1], "dir", TRUE)
         IN  IF d = NotFound THEN NotFound
             ELSE FindInDir(s, EntryAt(s, d).addr.lba, path[2], type, not_empty)

-----------------------------------------------------------------------------
(* Creating and deleting.                                                  *)

NewAddr(type) ==
    Addr(Boot, {"PRESENT"} \cup (IF type = "dir" THEN {"IS_DIR"} ELSE {}))

\* The size of a part that gets another entry.
OneMore(p) == p.part_size + 1

\* find_empty_entry, and the entry create fills in.  A part that is full is
\* continued, but at the address in place of the LBA in it.
AddEntry(s, lba, name, type) ==
    LET p     == s.part[lba]
        empty == {i \in Slot : ~Present(p.entry[i].addr)}
        r     == Balloc(s)
    IN  CASE empty # {} ->
               [s EXCEPT !.part[lba] =
                   [p EXCEPT !.entry[Min(empty)] = [name |-> name, addr |-> NewAddr(type)],
                             !.part_size = OneMore(p)]]
          [] empty = {} /\ ~Present(p.next) ->
               [r.s EXCEPT !.part[lba].next =
                               Addr(r.lba, {"PRESENT", "IS_DIR", "NOT_EMPTY"}),
                           !.volume = "wild"]
          [] OTHER -> [s EXCEPT !.volume = "wild"]

\* An object that exists is overwritten in its entry.
Overwritten(s, pos, type) ==
    LET t == DeleteChainParts(s, EntryAt(s, pos).addr)
    IN  [t EXCEPT !.part[pos[1]].entry[pos[2]].addr = NewAddr(type)]

\* A directory without parts has LBA 0 in its entry, and no part is allocated
\* for it: the condition (addr | NOT_EMPTY) always holds.
Created(s, path, type) ==
    LET pos == FindPath(s, path, "undefined", FALSE)
        d   == FindPath(s, <<path[1]>>, "dir", FALSE)
    IN  CASE pos # NotFound -> Overwritten(s, pos, type)
          [] pos = NotFound /\ Len(path) = 1 -> AddEntry(s, Root, path[1], type)
          [] pos = NotFound /\ Len(path) = 2 /\ d = NotFound -> s
          [] OTHER -> IF EntryAt(s, d).addr.lba = Boot
                      THEN [s EXCEPT !.volume = "boot"]
                      ELSE AddEntry(s, EntryAt(s, d).addr.lba, path[2], type)

OneLess(p) == p.part_size - 1

Deleted(s, pos) ==
    LET t == DeleteChainParts(s, EntryAt(s, pos).addr)
    IN  [t EXCEPT !.part[pos[1]].entry[pos[2]] = NoEntry,
                  !.part[pos[1]].part_size = OneLess(s.part[pos[1]])]

-----------------------------------------------------------------------------
(* Writing.  Nothing moves w_seek from 0 (edenfs.c:121).                   *)

Filled(p, bytes) ==
    [i \in 1..FILE_DATA_PER_PART |-> IF i <= Len(bytes) THEN bytes[i] ELSE p.data[i]]

\* What is left to write after a full part.
RestAll(data) == SubSeq(data, FILE_DATA_PER_PART, Len(data))
    \* mutant: off by one
Rest(data) == SubSeq(data, FILE_DATA_PER_PART + 1, Len(data))

\* A round of the loop; a part is written back when it is the last one or
\* was given a next one.  w is the volume, the part and what is left.
WritePart(w) ==
    LET s == w.s
        p == s.part[w.lba]
        r == Balloc(s)
    IN  CASE w.data = <<>> -> w
          [] w.data # <<>> /\ w.lba = Boot ->
               [s |-> [s EXCEPT !.volume = "boot"], lba |-> Boot, data |-> <<>>]
          [] w.data # <<>> /\ w.lba # Boot /\ Len(w.data) <= FILE_DATA_PER_PART ->
               [s |-> [s EXCEPT !.part[w.lba] =
                          [p EXCEPT !.data = Filled(p, w.data),
                                    !.part_size = IF Len(w.data) > @ THEN Len(w.data) ELSE @]],
                lba |-> w.lba, data |-> <<>>]
          [] w.lba # Boot /\ Len(w.data) > FILE_DATA_PER_PART /\ Linked(p.next) ->
               [s |-> s, lba |-> p.next.lba, data |-> Rest(w.data)]
          [] OTHER ->
               [s |-> [r.s EXCEPT !.part[w.lba] =
                          [p EXCEPT !.data = Filled(p, w.data),
                                    !.part_size = FILE_DATA_PER_PART,
                                    !.next = Addr(r.lba, {"PRESENT", "NOT_EMPTY"})]],
                lba |-> r.lba, data |-> Rest(w.data)]

\* Each round writes a byte at least.
WriteParts(s, lba, data) ==
    LET after[k \in 0..Len(data)] ==
            IF k = 0 THEN [s |-> s, lba |-> lba, data |-> data]
            ELSE WritePart(after[k - 1])
    IN  after[Len(data)].s

Written(s, pos, data) ==
    LET r    == Balloc(s)
        addr == EntryAt(s, pos).addr
        t    == [r.s EXCEPT
                   !.part[pos[1]].entry[pos[2]].addr = Addr(r.lba, {"PRESENT", "NOT_EMPTY"}),
                   !.volume = IF r.lba = Boot THEN "boot" ELSE @]
    IN  IF Linked(addr) THEN WriteParts(s, addr.lba, data)
        ELSE WriteParts(t, r.lba, data)

-----------------------------------------------------------------------------
(* The actions: the commands.                                              *)

FreshPart == [b \in Block |-> ZeroPart]

\* A formatted volume, or one on which the host made a directory and a file
\* in it: that directory has a part.
Init ==
    /\ volume = "sound" /\ f = NoFile
    /\ \/ part = FreshPart /\ used = {Root}
       \/ /\ WithHost
          /\ used = {Root, 2}
          /\ \E d, n \in Name :
                part = [FreshPart EXCEPT
                    ![Root].part_size = 1,
                    ![Root].entry[1] = [name |-> d, addr |->
                                        Addr(2, {"PRESENT", "IS_DIR", "NOT_EMPTY"})],
                    ![2].part_size = 1,
                    ![2].entry[1] = [name |-> n, addr |-> NewAddr("file")]]

Becomes(s) == part' = s.part /\ used' = s.used /\ volume' = s.volume

Ready == volume = "sound" /\ f = NoFile

\* make_dir_cmd
MakeDir(path) ==
    /\ Ready /\ "dir" \in TargetType
    /\ Becomes(Created(state, path, "dir"))
    /\ f' = f

\* delete_cmd
Delete(path) ==
    /\ Ready
    /\ FindPath(state, path, "undefined", FALSE) # NotFound
    /\ Becomes(Deleted(state, FindPath(state, path, "undefined", FALSE)))
    /\ f' = f

\* free_text_cmd: the file is opened with 'w', the user types, and when done
\* the text is written.
Open(path) ==
    /\ Ready /\ "file" \in TargetType
    /\ LET s == Created(state, path, "file")
       IN  /\ Becomes(s)
           /\ f' = IF s.volume # "sound" THEN NoFile
                   ELSE FindPath(s, path, "file", FALSE)

WriteToFile(n) ==
    /\ volume = "sound" /\ f # NoFile
    /\ Becomes(Written(state, f, [i \in 1..n |-> i]))
    /\ f' = NoFile

Next == \/ \E path \in Path : MakeDir(path) \/ Delete(path) \/ Open(path)
        \/ \E n \in 0..MAX_WRITE : WriteToFile(n)

Spec == Init /\ [][Next]_vars

-----------------------------------------------------------------------------
(* Properties.                                                             *)

EntriesIn(lba) ==
    {e \in ToSet(Chain(state, lba)) \X Slot : Present(EntryAt(state, e).addr)}

AddrOf(e)    == EntryAt(state, e).addr
NameOf(e)    == EntryAt(state, e).name
RootEntries  == EntriesIn(Root)
SubEntries(e) == IF IsDir(AddrOf(e)) /\ Linked(AddrOf(e))
                 THEN EntriesIn(AddrOf(e).lba) ELSE {}
Entries      == RootEntries \cup UNION {SubEntries(e) : e \in RootEntries}
LinkedEntries == {e \in Entries : Linked(AddrOf(e))}
ChainOf(e)   == Chain(state, AddrOf(e).lba)

\* The blocks that some chain contains, and those that no command can reach.
Reached == ToSet(Chain(state, Root)) \cup UNION {ToSet(ChainOf(e)) : e \in LinkedEntries}
Leaked  == IF volume = "sound" THEN used \ Reached ELSE {}

\* What is in a file, from part to part.
Bytes(p, from, to) == SubSeq([i \in 1..FILE_DATA_PER_PART |-> p.data[i]], from, to)
Content(addr) ==
    IF ~Linked(addr) THEN <<>>
    ELSE LET c == Chain(state, addr.lba)
         IN  FlattenSeq([k \in 1..Len(c) |->
                            Bytes(part[c[k]], 1, part[c[k]].part_size)])

PartsOf(e) == [k \in 1..Len(ChainOf(e)) |-> part[ChainOf(e)[k]]]
Files == {e \in Entries : ~IsDir(AddrOf(e))}

\* The types of the variables.
TypeOK ==
    /\ used \in SUBSET Block
    /\ volume \in {"sound", "boot", "wild"}
    /\ f \in Block \X Slot \cup {NoFile}
    /\ DOMAIN part = Block
    /\ \A b \in Block :
          /\ part[b].part_size \in 0..SizeMax
          /\ part[b].entry \in [Slot -> [name : Name \cup {NoName},
                                        addr : [lba : 0..BLOCKS, flags : Flags]]]
          /\ part[b].data \in [1..FILE_DATA_PER_PART -> 0..MAX_WRITE]
          /\ part[b].next \in [lba : 0..BLOCKS, flags : Flags]

\* Every block belongs to one chain, once, is in use, and no chain runs
\* through the root directory: what balloc gave, delete_chain_parts frees
\* (edenfs.c:388, 588, 620, 642, 954-969).
OneOwner ==
    volume = "sound" =>
        /\ \A e \in LinkedEntries :
              /\ IsInjective(ChainOf(e))
              /\ ToSet(ChainOf(e)) \subseteq used \ {Root}
        /\ \A e, g \in LinkedEntries :
              e # g => ToSet(ChainOf(e)) \cap ToSet(ChainOf(g)) = {}

\* The size of a directory part is the number of its entries, and all parts
\* of a file but the last are full: get_size, the scans and the reads rely on
\* it (edenfs.c:203, 281, 494, 785).
PartSizes ==
    volume = "sound" =>
        /\ \A b \in {Root} \cup UNION {ToSet(ChainOf(e)) : e \in LinkedEntries \ Files} :
              part[b].part_size =
                  Cardinality({i \in Slot : Present(part[b].entry[i].addr)})
        /\ \A e \in LinkedEntries \cap Files :
              LET ps == PartsOf(e)
              IN  /\ \A k \in 1..Len(ps) - 1 : ps[k].part_size = FILE_DATA_PER_PART
                  /\ Last(ps).part_size <= FILE_DATA_PER_PART

\* Each entry is found under its name, wherever deleted entries left holes,
\* so no name is there twice either (edenfs.c:784-806).
FindsAll ==
    volume = "sound" =>
        \A e \in RootEntries :
            /\ FindPath(state, <<NameOf(e)>>, "undefined", FALSE) = e
            /\ \A g \in SubEntries(e) :
                  FindPath(state, <<NameOf(e), NameOf(g)>>, "undefined", FALSE) = g

\* What every command relies on and keeps: the shape of the directories and
\* of the chains of parts, whatever was created, overwritten and deleted.
VolumeSound == TypeOK /\ OneOwner /\ PartSizes /\ FindsAll

\* No command loses blocks, except those of what is in a directory that it
\* deletes or overwrites (edenfs.c:328-329, 438-440).
LeaksOnlyBelow ==
    [][volume' = "sound" =>
          \A b \in Leaked' \ Leaked : \E e \in RootEntries :
              /\ ~IsDir(AddrOf(e)') \/ ~Linked(AddrOf(e)')
              /\ \E g \in SubEntries(e) : Linked(AddrOf(g)) /\ b \in ToSet(ChainOf(g))]_vars

\* What is written to a file just created is all in it, in order, over as
\* many parts as it takes (edenfs.c:626-647).
WritesAll ==
    [][\A e \in Block \X Slot, n \in 0..MAX_WRITE :
          e = f /\ WriteToFile(n) /\ volume' = "sound" =>
              Content(AddrOf(e))' = [i \in 1..n |-> i]]_vars

\* The tree the entries make up; by FindsAll it is what the user sees.
NodeAt(e, path) ==
    [path |-> path, dir |-> IsDir(AddrOf(e)),
     data |-> IF IsDir(AddrOf(e)) THEN <<>> ELSE Content(AddrOf(e))]
Tree ==
    IF volume # "sound" THEN {}
    ELSE {NodeAt(e, <<NameOf(e)>>) : e \in RootEntries}
         \cup UNION {{NodeAt(g, <<NameOf(e), NameOf(g)>>) : g \in SubEntries(e)} :
                      e \in RootEntries}

\* As long as the volume is sound the commands do what a tree of files would.
FT == INSTANCE FileTree WITH tree <- Tree, sound <- volume = "sound"
TreeSpec == FT!Spec

\* "Find an empty entry for the target in the directory specified in the
\* path" (edenfs.c:374-375): the boot sector is not that directory.
BootIntact == volume # "boot"

=============================================================================
