---------------------------- MODULE EdenFSReads -----------------------------
(***************************************************************************)
(* Reading the files of EdenFS: read_from_file and the read command.       *)
(***************************************************************************)
EXTENDS EdenFS

-----------------------------------------------------------------------------
(* Reading.  The result is the count that is returned and the bytes that   *)
(* were put into the buffer.                                               *)

Taken(n, bytes) == [n |-> n, bytes |-> bytes]

\* read_from_file between two rounds: the part it is at, how much it has still
\* to skip and to read, and what it has counted and copied.
Reader(lba, seek, count, n, bytes) ==
    [lba |-> lba, seek |-> seek, count |-> count, n |-> n, bytes |-> bytes]

InPartShort(seek) == FILE_DATA_PER_PART - seek - 1  \* mutant: off by one
InPart(seek) == FILE_DATA_PER_PART - seek

\* A round of its loops.  Both end when nothing is left to skip or to read.  A
\* full part that is read on from is counted if it was not read from its start.
ReadPart(s, r) ==
    LET p      == s.part[r.lba]
        last   == p.part_size < FILE_DATA_PER_PART
        past   == last /\ r.seek > 0 /\ r.seek >= p.part_size
        skip   == ~last /\ r.seek >= FILE_DATA_PER_PART
        enough == last \/ r.count <= InPart(r.seek)
        n      == IF last /\ r.count > p.part_size - r.seek THEN p.part_size - r.seek
                  ELSE r.count
        OnTo(seek, count, total, bytes) ==
            IF Linked(p.next) THEN Reader(p.next.lba, seek, count, total, bytes)
            ELSE Reader(r.lba, 0, 0, total, bytes)
    IN  IF r.seek = 0 /\ r.count = 0 THEN r
        ELSE CASE past -> Reader(r.lba, 0, 0, 0, <<>>)
               [] skip -> OnTo(r.seek - FILE_DATA_PER_PART, r.count, r.n, r.bytes)
               [] ~past /\ ~skip /\ enough ->
                    Reader(r.lba, 0, 0, r.n + n, r.bytes \o Bytes(p, r.seek + 1, r.seek + n))
               [] OTHER ->
                    OnTo(0, r.count - InPart(r.seek),
                         IF r.seek > 0 THEN r.n + InPart(r.seek) ELSE r.n,
                         r.bytes \o Bytes(p, r.seek + 1, FILE_DATA_PER_PART))

\* Each round skips or reads a byte at least.
ReadParts(s, lba, seek, count) ==
    LET after[k \in 0..seek + count] ==
            IF k = 0 THEN Reader(lba, seek, count, 0, <<>>) ELSE ReadPart(s, after[k - 1])
    IN  after[seek + count]

ReadFromFile(s, addr, seek, count) ==
    LET r == ReadParts(s, addr.lba, seek, count)
    IN  IF ~Linked(addr) THEN Taken(0, <<>>) ELSE Taken(r.n, r.bytes)

Advanced(r_seek, n) == r_seek + n

\* A round of the read command: it prints what it gets.  w is how far it has read
\* and what it has printed.
ReadPiece(s, addr, w) ==
    LET r == ReadFromFile(s, addr, w.r_seek, BUFFER)
    IN  [r_seek |-> Advanced(w.r_seek, r.n), shown |-> w.shown \o SubSeq(r.bytes, 1, r.n)]

\* It goes on until it gets nothing, and there are no more bytes than fit in the
\* blocks.
ReadCmd(s, addr) ==
    LET after[k \in 0..BLOCKS * FILE_DATA_PER_PART] ==
            IF k = 0 THEN [r_seek |-> 0, shown |-> <<>>] ELSE ReadPiece(s, addr, after[k - 1])
    IN  after[BLOCKS * FILE_DATA_PER_PART].shown

-----------------------------------------------------------------------------
(* Properties.                                                             *)

\* Whatever is read of a file, from wherever, is what is there
\* (edenfs.c:490-559).
ReadsRight ==
    volume = "sound" =>
        \A e \in Files : LET c == Content(AddrOf(e)) IN
            \A seek \in 0..Len(c), count \in 0..Len(c) + 1 :
                LET r == ReadFromFile(state, AddrOf(e), seek, count)
                IN  /\ r.bytes = SubSeq(c, seek + 1, Min({seek + count, Len(c)}))
                    /\ r.n <= Len(r.bytes)

\* The read command shows the file, although read_from_file returns too low
\* counts, unless its last part is full (cmd.c:558-570).
ReadCmdRight ==
    volume = "sound" =>
        \A e \in Files : LET c == Content(AddrOf(e)) IN
            Len(c) % FILE_DATA_PER_PART # 0 => ReadCmd(state, AddrOf(e)) = c

\* What is stored is what is read, piece by piece or by the read command.
FilesRead == ReadsRight /\ ReadCmdRight
=============================================================================
