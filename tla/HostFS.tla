------------------------------- MODULE HostFS -------------------------------
(***************************************************************************)
(* The host's file system (EdenFSManager.py) on the volume of the kernel:  *)
(* the disk goes back and forth between the machine and the host, and each *)
(* side works on what the other one left.                                  *)
(*                                                                         *)
(* The two are written separately.  The host gives a directory its first   *)
(* part when something is created in it, deletes what is in a directory,   *)
(* and keeps the old LBA in an entry it overwrites; a file grows piece by  *)
(* piece, each from where the last one ended.  When no block is free,      *)
(* balloc gives None and the command ends in an exception: what it has     *)
(* written so far stays.                                                   *)
(***************************************************************************)
EXTENDS EdenFSReads

Full == FILE_DATA_PER_PART
Done(s)   == [s |-> s, ok |-> TRUE]
Raised(s) == [s |-> s, ok |-> FALSE]

-----------------------------------------------------------------------------
(* Looking up: attr are the flags that the entry must have.                *)

HasAttr(addr, attr) == attr \subseteq addr.flags

RECURSIVE HostFindInDir(_, _, _, _)
HostFindInDir(s, lba, name, attr) ==
    LET p == s.part[lba]
        hits == {i \in Slot : /\ InScan(p, i)
                              /\ HasAttr(p.entry[i].addr, attr)
                              /\ p.entry[i].name = name}
    IN  IF hits # {} THEN <<lba, Min(hits)>>
        ELSE IF ~HasAttr(p.next, {"PRESENT", "IS_DIR", "NOT_EMPTY"}) THEN NotFound
        ELSE HostFindInDir(s, p.next.lba, name, attr)

HostFindPath(s, path, attr) ==
    IF Len(path) = 1 THEN HostFindInDir(s, Root, path[1], attr)
    ELSE LET d == HostFindInDir(s, Root, path[1], {"PRESENT", "IS_DIR", "NOT_EMPTY"})
         IN  IF d = NotFound THEN NotFound
             ELSE HostFindInDir(s, EntryAt(s, d).addr.lba, path[2], attr)

\* What list shows of an entry: its name, its type and its size.
HostSize(s, addr) ==
    IF ~Linked(addr) THEN 0
    ELSE MapThenSumSet(LAMBDA b : s.part[b].part_size, ToSet(Chain(s, addr.lba)))

HostList(s, lba) ==
    {[name |-> EntryAt(s, e).name, dir |-> IsDir(EntryAt(s, e).addr),
      size |-> HostSize(s, EntryAt(s, e).addr)] :
        e \in {e \in ToSet(Chain(s, lba)) \X Slot :
                 InScan(s.part[e[1]], e[2]) /\ Present(EntryAt(s, e).addr)}}

-----------------------------------------------------------------------------
(* Creating and deleting.                                                  *)

\* The blocks below an address, those of directories in it included.
HostFreedFlat(s, addr) == ToSet(Chain(s, addr.lba))  \* mutant: those are left
RECURSIVE HostFreed(_, _)
HostFreed(s, addr) ==
    LET own == ToSet(Chain(s, addr.lba))
        below == {e \in own \X Slot : /\ InScan(s.part[e[1]], e[2])
                                      /\ Linked(EntryAt(s, e).addr)}
    IN  IF ~IsDir(addr) THEN own
        ELSE own \cup UNION {HostFreed(s, EntryAt(s, e).addr) : e \in below}

HostDeleteChain(s, addr) ==
    IF ~Linked(addr) THEN s
    ELSE LET freed == HostFreed(s, addr)
         IN  [s EXCEPT !.used = @ \ freed,
                       !.part = [b \in Block |-> IF b \in freed THEN ZeroPart ELSE @[b]]]

\* The name and the flags are written, the LBA in the entry stays.
HostPutKeeps(s, pos, name, type) ==  \* mutant: the flags that were set stay too
    [s EXCEPT !.part[pos[1]].entry[pos[2]] =
        [name |-> name, addr |-> Addr(@.addr.lba, @.addr.flags \cup NewAddr(type).flags)]]
HostPut(s, pos, name, type) ==
    [s EXCEPT !.part[pos[1]].entry[pos[2]] =
        [name |-> name, addr |-> Addr(@.addr.lba, NewAddr(type).flags)]]

HostOneMore(size) == size + 1
HostAdd(s, lba, name, type) ==
    LET i == Min({i \in Slot : ~Present(s.part[lba].entry[i].addr)})
    IN  Done(HostPut([s EXCEPT !.part[lba].part_size = HostOneMore(@)],
                     <<lba, i>>, name, type))

\* A full part that has a next one is given a new, empty one in its place.
HostAddEntry(s, lba, name, type) ==
    LET p == s.part[lba]
        r == Balloc(s)
    IN  IF p.part_size < DIR_ENTRIES_PER_PART THEN HostAdd(s, lba, name, type)
        ELSE IF ~HasAttr(p.next, {"PRESENT", "IS_DIR", "NOT_EMPTY"}) \/ r.lba = Boot
        THEN Raised(s)
        ELSE HostAdd([r.s EXCEPT !.part[lba].next =
                        Addr(r.lba, {"PRESENT", "IS_DIR", "NOT_EMPTY"})],
                     r.lba, name, type)

HostCreateIn(s, lba, name, type, overwrite) ==
    LET pos == HostFindInDir(s, lba, name, {"PRESENT"})
    IN  IF pos = NotFound THEN HostAddEntry(s, lba, name, type)
        ELSE IF ~overwrite THEN Raised(s)
        ELSE Done(HostPut(HostDeleteChain(s, EntryAt(s, pos).addr), pos, name, type))

HostCreated(s, path, type, overwrite) ==
    LET d == HostFindPath(s, <<path[1]>>, {"PRESENT", "IS_DIR"})
        r == Balloc(s)
        t == [r.s EXCEPT !.part[d[1]].entry[d[2]].addr =
                Addr(r.lba, {"PRESENT", "IS_DIR", "NOT_EMPTY"})]
    IN  IF Len(path) = 1 THEN HostCreateIn(s, Root, path[1], type, overwrite)
        ELSE IF d = NotFound THEN Raised(s)
        ELSE IF Linked(EntryAt(s, d).addr)
        THEN HostCreateIn(s, EntryAt(s, d).addr.lba, path[2], type, overwrite)
        ELSE IF r.lba = Boot THEN Raised(s)
        ELSE HostCreateIn(t, r.lba, path[2], type, overwrite)

\* The name stays in the entry, where nobody reads it.
HostDeleted(s, pos) ==
    [HostDeleteChain(s, EntryAt(s, pos).addr) EXCEPT
        !.part[pos[1]].entry[pos[2]] = NoEntry,
        !.part[pos[1]].part_size = s.part[pos[1]].part_size - 1]

-----------------------------------------------------------------------------
(* Writing and reading.                                                    *)

\* The next part, which is made if there is none.
HostNextPart(s, lba) ==
    LET r == Balloc(s)
        next == s.part[lba].next
    IN  IF Linked(next) THEN Done(s) @@ [lba |-> next.lba]
        ELSE IF r.lba = Boot THEN Raised(s) @@ [lba |-> Boot]
        ELSE Done([r.s EXCEPT !.part[lba].next = Addr(r.lba, {"PRESENT", "NOT_EMPTY"})])
             @@ [lba |-> r.lba]

SkippedPartsLate(seek) == (seek + 1) \div Full  \* mutant: off by one
SkippedParts(seek) == seek \div Full

\* The part that a position is in, also when it is read from.
RECURSIVE HostSeek(_, _, _)
HostSeek(s, lba, parts) ==
    IF parts = 0 THEN Done(s) @@ [lba |-> lba]
    ELSE LET n == HostNextPart([s EXCEPT !.part[lba].part_size = Full], lba)
         IN  IF n.ok THEN HostSeek(n.s, n.lba, parts - 1) ELSE n

Put(p, skip, bytes) ==
    [p EXCEPT !.data = [i \in 1..Full |-> IF i - skip \in 1..Len(bytes)
                                          THEN bytes[i - skip] ELSE @[i]],
              !.part_size = IF skip + Len(bytes) > @ THEN skip + Len(bytes) ELSE @]

RECURSIVE HostWriteParts(_, _, _, _)
HostWriteParts(s, lba, data, skip) ==
    LET now == SubSeq(data, 1, Min({Full - skip, Len(data)}))
        t   == [s EXCEPT !.part[lba] = Put(@, skip, now)]
        n   == HostNextPart(t, lba)
    IN  IF Len(now) = Len(data) THEN Done(t)
        ELSE IF ~n.ok THEN n
        ELSE HostWriteParts(n.s, n.lba, SubSeq(data, Len(now) + 1, Len(data)), 0)

HostWriteToFile(s, pos, data, seek) ==
    LET addr == EntryAt(s, pos).addr
        r == Balloc(s)
        t == [r.s EXCEPT !.part[pos[1]].entry[pos[2]].addr =
                Addr(r.lba, {"PRESENT", "NOT_EMPTY"})]
        at == IF Linked(addr) THEN HostSeek(s, addr.lba, SkippedParts(seek))
              ELSE HostSeek(t, r.lba, SkippedParts(seek))
    IN  IF ~Linked(addr) /\ r.lba = Boot THEN Raised(s)
        ELSE IF ~at.ok THEN at
        ELSE HostWriteParts(at.s, at.lba, data, seek % Full)

RECURSIVE HostWriteAll(_, _, _, _)
HostWriteAll(s, pos, data, w_seek) ==
    LET piece == SubSeq(data, w_seek + 1, Min({w_seek + BUFFER, Len(data)}))
        r == HostWriteToFile(s, pos, piece, w_seek)
    IN  IF piece = <<>> \/ ~r.ok THEN (IF piece = <<>> THEN s ELSE r.s)
        ELSE HostWriteAll(r.s, pos, data, w_seek + Len(piece))

RECURSIVE HostReadParts(_, _, _, _)
HostReadParts(s, lba, count, skip) ==
    LET p == s.part[lba]
        size == p.part_size - skip
    IN  IF size >= count THEN Bytes(p, skip + 1, skip + count)
        ELSE IF size < Full \/ ~Linked(p.next) THEN Bytes(p, skip + 1, p.part_size)
        ELSE Bytes(p, 1, Full) \o HostReadParts(s, p.next.lba, count - Full, 0)

\* export: pieces are read until one is empty, the last at the end of the file.
RECURSIVE HostExported(_, _, _)
HostExported(s, addr, r_seek) ==
    LET at == HostSeek(s, addr.lba, SkippedParts(r_seek))
        piece == HostReadParts(at.s, at.lba, BUFFER, r_seek % Full)
        rest == HostExported(at.s, addr, r_seek + Len(piece))
    IN  IF ~Linked(addr) THEN [s |-> s, bytes |-> <<>>]
        ELSE IF ~at.ok \/ piece = <<>> THEN [s |-> at.s, bytes |-> <<>>]
        ELSE [s |-> rest.s, bytes |-> piece \o rest.bytes]

-----------------------------------------------------------------------------
(* The commands of the browser (FSBrowser.py).                             *)

HostMakeDir(path) ==
    /\ Ready
    /\ Becomes(HostCreated(state, path, "dir", FALSE).s)
    /\ f' = f

HostDelete(path) ==
    /\ Ready
    /\ HostFindPath(state, path, {"PRESENT"}) # NotFound
    /\ Becomes(HostDeleted(state, HostFindPath(state, path, {"PRESENT"})))
    /\ f' = f

\* The directory that the file goes to exists.
IsDirPath(path) ==
    path # <<>> => HostFindPath(state, path, {"PRESENT", "IS_DIR"}) # NotFound
HostData(n) == [i \in 1..n |-> i]

HostImported(s, path, data) ==
    LET r == HostCreated(s, path, "file", TRUE)
    IN  IF ~r.ok THEN r.s
        ELSE HostWriteAll(r.s, HostFindPath(r.s, path, {"PRESENT"}), data, 0)

HostImport(path, n) ==
    /\ Ready /\ IsDirPath(Front(path))
    /\ Becomes(HostImported(state, path, HostData(n)))
    /\ f' = f

HostExport(path) ==
    /\ Ready
    /\ LET pos == HostFindPath(state, path, {"PRESENT"})
       IN  /\ pos # NotFound /\ ~IsDir(EntryAt(state, pos).addr)
           /\ Becomes(HostExported(state, EntryAt(state, pos).addr, 0).s)
    /\ f' = f

HostFormat ==
    /\ Ready
    /\ Becomes([part |-> FreshPart, used |-> {Root}, volume |-> "sound"])
    /\ f' = f

HostStep ==
    \/ \E path \in Path : \/ HostMakeDir(path) \/ HostDelete(path) \/ HostExport(path)
                          \/ \E n \in 0..MAX_WRITE : HostImport(path, n)
    \/ HostFormat

SharedSpec == Init /\ [][Next \/ HostStep]_vars

-----------------------------------------------------------------------------
(* Properties.                                                             *)

\* The list command of the host (EdenFSManager.py:367) shows all that is on
\* the volume and nothing else, with the sizes of files and directories.
HostShows ==
    LET Shown(entries) ==
            {[name |-> NameOf(e), dir |-> IsDir(AddrOf(e)),
              size |-> IF e \in Files THEN Len(Content(AddrOf(e)))
                       ELSE Cardinality(SubEntries(e))] : e \in entries}
    IN  volume = "sound" =>
            /\ HostList(state, Root) = Shown(RootEntries)
            /\ \A e \in LinkedEntries \ Files :
                  HostList(state, AddrOf(e).lba) = Shown(SubEntries(e))

\* Whichever side wrote a file, in whatever pieces, what the host exports
\* (EdenFSManager.py:184) is the file; and the volume stays as it is, except
\* that the read at the end of a file whose last part is full gives it one
\* more part (EdenFSManager.py:315-320).
ExportsAll ==
    volume = "sound" =>
        \A e \in Files : LET r == HostExported(state, AddrOf(e), 0)  c == Content(AddrOf(e)) IN
            /\ r.bytes = c
            /\ Len(c) % Full # 0 \/ c = <<>> => r.s = state

\* What either program wrote the other one reads as it is: the host lists and
\* exports it (EdenFSManager.py:299-411), the kernel reads it (edenfs.c:464-549).
BothRead == HostShows /\ ExportsAll /\ FilesRead

\* The volume after a command.
After(s) == INSTANCE EdenFSReads
    WITH part <- s.part, used <- s.used, volume <- s.volume, f <- NoFile

\* What is imported (EdenFSManager.py:164) takes the place of what the path
\* led to and is there whole, or cut off where no block was left, and nothing
\* else changes; or the directory has no entry for it, and nothing changes.  In
\* each case no block is lost.
ImportsAll ==
    Ready => \A path \in Path, n \in 0..MAX_WRITE :
        IsDirPath(Front(path)) =>
            LET s == HostImported(state, path, HostData(n))
                With(k) == FT!Without(path) \cup {FT!Node(path, FALSE, HostData(k))}
            IN  /\ \/ After(s)!Tree = With(n)
                   \/ s.used = Block /\ \E k \in 0..n - 1 : After(s)!Tree = With(k)
                   \/ After(s)!Tree = Tree /\ ~HostCreated(state, path, "file", TRUE).ok
                /\ After(s)!Leaked \subseteq Leaked

\* What is deleted on the host is gone with all that was below it, nothing
\* else is, and no block is lost (EdenFSManager.py:153, 579).
HostDeletesAll ==
    Ready => \A path \in Path :
        LET pos == HostFindPath(state, path, {"PRESENT"})  s == HostDeleted(state, pos) IN
        pos # NotFound =>
            /\ After(s)!Tree = FT!Without(path)
            /\ After(s)!Leaked \subseteq Leaked

\* What the host writes or deletes is all that changes, for the kernel too.
HostWrites == ImportsAll /\ HostDeletesAll
=============================================================================
