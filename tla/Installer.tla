----------------------------- MODULE Installer -----------------------------
(***************************************************************************)
(* The installation of EdenOS on a device from the host: EdenOSManager's   *)
(* analyse, the client in EdenOSClient.py, the thread of EdenOSServer.py   *)
(* that serves its connection, and the file with the kernel, which may be  *)
(* built anew while it is read.                                            *)
(*                                                                         *)
(* The unit is a block of 512 bytes, RECV_LEN and READ_SIZE are two of     *)
(* them; the part of a block at an image's end counts as a block.  Of the  *)
(* boot sector, block 0, the fields of EdenFS and FIRST_BITMAP_LBA are in  *)
(* `boot', the rest in dev[0].  A receive returns at least a byte of what  *)
(* is there; when it is short, blocks are shifted or torn (Junk).  A       *)
(* header of four bytes comes as a whole.                                  *)
(***************************************************************************)
EXTENDS Naturals, Sequences

CONSTANTS
  Size,     \* Size[v] is the length of the image v of the kernel
  Base,     \* FIRST_BITMAP_LBA of every image
  Bases     \* what a device may hold there before its first installation

\* An image is longer than one receive and ends before the file system: the
\* code relies on both and tests neither.
ASSUME SizesFit == /\ Base \in Nat
                   /\ Size \in Seq(2 .. Base)
                   /\ Size # <<>>
                   /\ Bases \subseteq 0 .. Base

Versions == DOMAIN Size
RECV_LEN == 2
READ_SIZE == 2
GET_MD5 == 1
GET_OS == 2
NoReq == 3

\* What a block may hold: a block of an image, or one of these.
Junk == <<0, 0>>
Bitmap == <<0, 1>>
Dir == <<0, 2>>
Lbas == 0 .. Base + 1
\* `made' says which of the block count and the number of levels are there.
Fields == [sign: BOOLEAN, made: SUBSET {"count", "levels"}, root: Lbas, base: 0 .. Base]

VARIABLES
  kernel,   \* the image in KERNEL_FILENAME
  srv,      \* handle_client: at, req, the bytes left, the place in the file, md5
  net,      \* to the client: is it open, the number that comes first, the rest
  dev,      \* the device's blocks
  boot,     \* fields of its boot sector
  fs,       \* first_bitmap_lba of the manager's EdenFS object
  pc,       \* where analyse is
  len, lba, \* locals of install_edenos
  short,    \* a receive of this check or this installation was short
  rebuilt,  \* the kernel was built anew since analyse began
  stale,    \* analyse formatted at a place that is not the boot sector's
  home,     \* where format_edenfs was last at work
  damaged   \* a receive that tore a block went over the fields of EdenFS since

vars == <<kernel, srv, net, dev, boot, fs, pc, len, lba,
          short, rebuilt, stale, home, damaged>>
client == <<dev, boot, fs, len, lba, short, stale, home, damaged>>

Stopped == {"off", "cut", "refused", "done"}
Running == {"ask", "hash", "get", "size", "boot", "chunk",
            "check", "format", "root", "count", "levels", "fields", "sign"}
Least(a, b) == IF a < b THEN a ELSE b
\* How much of what is left the loops of both programs take at a time.
Share(left) == Least(READ_SIZE, left)

Idle == [at |-> "idle", req |-> NoReq, left |-> 0, pos |-> 0, md5 |-> <<>>]
Closed == [open |-> FALSE, head |-> 0, data |-> <<>>]

Init ==
  /\ kernel \in Versions
  /\ srv = Idle
  /\ net = Closed
  /\ dev = [l \in Lbas |-> Junk]
  /\ boot \in [sign: {FALSE}, made: {{}}, root: {0}, base: Bases]
  /\ fs = 0
  /\ pc = "off"
  /\ len = 0
  /\ lba = 0
  /\ short = FALSE
  /\ rebuilt = FALSE
  /\ stale = FALSE
  /\ home = 0
  /\ damaged = FALSE

----------------------------------------------------------------------------
(* The server *)

\* What a read of n blocks at place p of the file returns.
FileRead(p, n) ==
  SubSeq([i \in 1 .. Size[kernel] |-> <<kernel, i>>], p + 1, Least(p + n, Size[kernel]))

ServedLess(req) == 0 < req /\ req < 2   \* mutant: the last request is left out
Served(req) == 0 < req /\ req < 3

\* The request's number is received, the length of the file taken and, by
\* send_os, sent.
Handle ==
  /\ srv.at = "asked"
  /\ IF Served(srv.req)
     THEN /\ srv' = [srv EXCEPT !.at = "read", !.left = Size[kernel]]
          /\ net' = [net EXCEPT !.head = IF srv.req = GET_OS THEN Size[kernel] ELSE 0]
     ELSE /\ srv' = Idle
          /\ net' = Closed
  /\ UNCHANGED <<kernel, client, pc, rebuilt>>

\* One read of the loops of send_md5 and send_os.
ReadFile ==
  /\ srv.at = "read" /\ srv.left > 0
  /\ LET n == Share(srv.left)
         got == FileRead(srv.pos, n)
         next == [srv EXCEPT !.left = @ - n, !.pos = @ + n]
     IN  IF srv.req = GET_OS
         THEN /\ srv' = next
              /\ net' = [net EXCEPT !.data = @ \o got]
         ELSE /\ srv' = [next EXCEPT !.md5 = @ \o got]
              /\ UNCHANGED net
  /\ UNCHANGED <<kernel, client, pc, rebuilt>>

\* send_md5's one message is sent; handle_client closes the connection.
Answer ==
  /\ srv.at = "read" /\ srv.left = 0
  /\ net' = IF srv.req = GET_OS
            THEN [net EXCEPT !.open = FALSE]
            ELSE [open |-> FALSE, head |-> srv.pos, data |-> srv.md5]
  /\ srv' = Idle
  /\ UNCHANGED <<kernel, client, pc, rebuilt>>

\* make writes a new kernel32.img over the old one.
Rebuild ==
  /\ kernel' \in Versions \ {kernel}
  /\ rebuilt' = TRUE
  /\ UNCHANGED <<srv, net, client, pc>>

----------------------------------------------------------------------------
(* The client and the manager *)

\* EdenOSManager's constructor makes the EdenFS object, which reads
\* FIRST_BITMAP_LBA; analyse is called next.
Start ==
  /\ pc \in Stopped
  /\ fs' = boot.base
  /\ short' = FALSE
  /\ rebuilt' = FALSE
  /\ stale' = FALSE
  /\ pc' = "ask"
  /\ UNCHANGED <<kernel, srv, net, dev, boot, len, lba, home, damaged>>

Connect(req) ==
  /\ srv' = [Idle EXCEPT !.at = "asked", !.req = req]
  /\ net' = [Closed EXCEPT !.open = TRUE]

\* The client's end is closed, which ends a thread that still sends to it.
Disconnect ==
  /\ srv' = Idle
  /\ net' = Closed
  /\ len' = 0
  /\ lba' = 0

Ask ==
  /\ pc = "ask"
  /\ Connect(GET_MD5)
  /\ pc' = "hash"
  /\ UNCHANGED <<kernel, client, rebuilt>>

\* What is_edenos hashes of the device: when EdenFS is there its fields count
\* as zeros, as they are in an image.
Hashed(n) ==
  LET plain == boot.base = Base /\ (boot.sign \/ (boot.made = {} /\ boot.root = 0))
  IN  [i \in 1 .. n |-> IF i = 1 /\ ~plain THEN Junk ELSE dev[i - 1]]

\* The answer to GET_MD5 has come, its digest perhaps in part.
IsEdenOS ==
  /\ pc = "hash" /\ net.head > 0
  /\ short' \in BOOLEAN
  /\ pc' = IF ~short' /\ Hashed(net.head) = net.data THEN "check" ELSE "get"
  /\ Disconnect
  /\ UNCHANGED <<kernel, dev, boot, fs, rebuilt, stale, home, damaged>>

Get ==
  /\ pc = "get"
  /\ Connect(GET_OS)
  /\ short' = FALSE
  /\ pc' = "size"
  /\ UNCHANGED <<kernel, dev, boot, fs, len, lba, rebuilt, stale, home, damaged>>

LengthPlain ==   \* mutant: an installation does not look for EdenFS
  /\ pc = "size" /\ net.head > 0
  /\ len' = net.head
  /\ lba' = 0
  /\ pc' = "chunk"
  /\ UNCHANGED <<kernel, srv, net, dev, boot, fs, rebuilt, short, stale, home, damaged>>
Length ==
  /\ pc = "size" /\ net.head > 0
  /\ len' = net.head
  /\ lba' = 0
  /\ pc' = IF boot.sign THEN "boot" ELSE "chunk"
  /\ UNCHANGED <<kernel, srv, net, dev, boot, fs, rebuilt, short, stale, home, damaged>>

\* The connection is closed before a number came: unpack raises an error.
Refused ==
  /\ pc \in {"hash", "size"}
  /\ net.head = 0 /\ ~net.open
  /\ Disconnect
  /\ pc' = "refused"

\* recv(n) returns k blocks, none once all has been read and the server closed.
Recv(n, k, torn) ==
  /\ k \in 0 .. Least(n, Len(net.data))
  /\ k = 0 => net.data = <<>> /\ ~net.open
  /\ short' = (short \/ k < n)
  /\ torn => short' /\ k > 0
  /\ net' = [net EXCEPT !.data = SubSeq(@, k + 1, Len(@))]

\* The device after k blocks of the connection were written from block l on.
StoredFirst(l, k, torn) ==   \* mutant: the address of the block is left out
  [b \in Lbas |-> IF b \notin 0 .. k - 1 THEN dev[b]
                  ELSE IF torn THEN Junk ELSE net.data[b + 1]]
Stored(l, k, torn) ==
  [b \in Lbas |-> IF b \notin l .. l + k - 1 THEN dev[b]
                  ELSE IF torn THEN Junk ELSE net.data[b - l + 1]]

\* The fields of a new image.
ImageFields == [sign |-> FALSE, made |-> {}, root |-> 0, base |-> Base]

\* The fields lie in the order block count, signature, levels, root: what is
\* written ends before them or goes over the first so many.
Overlaid ==
  LET one == [boot EXCEPT !.made = @ \ {"count"}]
      two == [one EXCEPT !.sign = FALSE]
      three == [two EXCEPT !.made = {}]
  IN  {boot, one, two, three, [three EXCEPT !.root = 0]}

\* The first receive on a device with EdenFS: the fields of the device take
\* the place of the image's.
BootChunk ==
  /\ pc = "boot"
  /\ \E k \in 0 .. RECV_LEN, torn \in BOOLEAN :
       /\ Recv(RECV_LEN, k, torn)
       /\ dev' = IF k = 0 THEN [dev EXCEPT ![0] = Junk] ELSE Stored(0, k, torn)
       /\ IF torn
          THEN boot' \in Overlaid \cup {[boot EXCEPT !.base = Base]}
          ELSE boot' = [boot EXCEPT !.base = IF k = 0 THEN @ ELSE Base]
       /\ damaged' = (damaged \/ torn)
  /\ lba' = RECV_LEN
  /\ len' = len - RECV_LEN
  /\ pc' = "chunk"
  /\ UNCHANGED <<kernel, srv, fs, rebuilt, stale, home>>

\* One receive of the loop or, of what is less than RECV_LEN, the last one.
Chunk ==
  /\ pc = "chunk" /\ len > 0
  /\ LET n == Share(len)
     IN  /\ \E k \in 0 .. n, torn \in BOOLEAN :
              /\ Recv(n, k, torn)
              /\ dev' = Stored(lba, k, torn)
              /\ IF lba > 0 \/ k = 0 THEN UNCHANGED boot
                 ELSE IF torn
                 THEN boot' \in Overlaid \cup {ImageFields}
                 ELSE boot' = ImageFields
         /\ len' = len - n
         /\ lba' = lba + n
  /\ UNCHANGED <<kernel, srv, fs, pc, rebuilt, stale, home, damaged>>

InstallEnds ==
  /\ pc = "chunk" /\ len = 0
  /\ Disconnect
  /\ pc' = "check"

IsEdenFS ==
  /\ pc = "check"
  /\ pc' = IF boot.sign THEN "done" ELSE "format"

\* format_edenfs, on a device with one block of bitmap, at the place that the
\* EdenFS object knows.  First the bitmap is written.
Format ==
  /\ pc = "format"
  /\ dev' = [dev EXCEPT ![fs] = Bitmap]
  /\ boot' = IF fs = 0 THEN [sign |-> FALSE, made |-> {}, root |-> 0, base |-> 0] ELSE boot
  /\ stale' = (fs # boot.base)
  /\ home' = fs
  /\ damaged' = FALSE
  /\ pc' = "root"
  /\ UNCHANGED <<kernel, srv, net, fs, len, lba, rebuilt, short>>

\* balloc gives the block behind it, which becomes the root.
MakeRoot ==
  /\ pc = "root"
  /\ dev' = [dev EXCEPT ![fs + 1] = Dir]
  /\ pc' = "count"
  /\ UNCHANGED <<kernel, srv, net, boot, fs, len, lba, rebuilt, short, stale,
                 home, damaged>>

\* Then the fields, a write of the device each, and the signature last.
WriteCount ==
  /\ pc = "count"
  /\ boot' = [boot EXCEPT !.made = @ \cup {"count"}]
  /\ pc' = "levels"

WriteLevels ==
  /\ pc = "levels"
  /\ boot' = [boot EXCEPT !.made = @ \cup {"levels"}]
  /\ pc' = "fields"

WriteRootLess ==   \* mutant: the levels of the bitmap are not added
  /\ pc = "fields"
  /\ boot' = [boot EXCEPT !.root = fs]
  /\ pc' = "sign"
WriteRoot ==
  /\ pc = "fields"
  /\ boot' = [boot EXCEPT !.root = fs + 1]
  /\ pc' = "sign"

Sign ==
  /\ pc = "sign"
  /\ boot' = [boot EXCEPT !.sign = TRUE]
  /\ pc' = "done"

\* The program is killed or the connection breaks, which nothing handles.
Crash ==
  /\ pc \in Running
  /\ pc' = "cut"
  /\ Disconnect

----------------------------------------------------------------------------
Server == Handle \/ ReadFile \/ Answer
Kept == <<kernel, dev, fs, short, rebuilt, stale, home, damaged>>

Client ==
  \/ Ask \/ IsEdenOS \/ Get \/ Length \/ BootChunk \/ Chunk
  \/ Format \/ MakeRoot
  \/ (Refused \/ InstallEnds) /\ UNCHANGED <<Kept, boot>>
  \/ (WriteCount \/ WriteLevels \/ WriteRoot \/ Sign) /\ UNCHANGED <<Kept, srv, net, len, lba>>
  \/ IsEdenFS /\ UNCHANGED <<Kept, srv, net, len, lba, boot>>

Next ==
  \/ Start \/ Client \/ Server \/ Rebuild
  \/ Crash /\ UNCHANGED <<Kept, boot>>

Spec == Init /\ [][Next]_vars
FairSpec == Spec /\ WF_vars(Client) /\ WF_vars(Server)

----------------------------------------------------------------------------
\* Every variable stays among the values the programs give it; no block of an
\* image is at Base or behind it, where the file system goes.
TypeOK ==
  /\ kernel \in Versions
  /\ srv.at \in {"idle", "asked", "read"} /\ srv.left \in 0 .. Base
  /\ net.open \in BOOLEAN /\ net.head \in 0 .. Base /\ Len(net.data) <= Base
  /\ \A l \in Lbas : dev[l] \in {Junk, Bitmap, Dir} \cup (Versions \X (1 .. Base))
  /\ \A l \in Base .. Base + 1 : dev[l] \in {Junk, Bitmap, Dir}
  /\ boot \in Fields
  /\ fs \in 0 .. Base /\ home \in 0 .. Base
  /\ pc \in Stopped \cup Running
  /\ len \in 0 .. Base /\ lba \in 0 .. Base + 1

\* Image v is on the device.
Holds(v) ==
  /\ \A i \in 1 .. Size[v] : dev[i - 1] = <<v, i>>
  /\ boot.base = Base

\* However the device was left by earlier installations, cut ones too, at the
\* end of analyse the server's kernel is on it, unless a receive of the
\* installation was short, the kernel was built anew meanwhile, or the EdenFS
\* object was older than the boot sector when it formatted (EdenOSManager.py 29-53).
Installed ==
  pc = "done" /\ ~short /\ ~rebuilt /\ ~stale => Holds(kernel)

\* An up-to-date device with EdenFS is not installed again: the fields that
\* the file system put into the boot sector do not count (EdenOSClient.py 64-71).
Recognised ==
  pc = "get" /\ ~short /\ ~rebuilt /\ boot.sign => ~Holds(kernel)

\* A file system made at Base, where the boot sector of every image has it, is
\* not written into by checks, installations of other images or crashes, and
\* its fields survive unless a receive was short (EdenOSClient.py 107-116).
\* One made elsewhere is left out: see FilesThere.
Untouched ==
  /\ \A l \in home .. home + 1 : dev'[l] = dev[l]
  /\ ~short' => boot' = [boot EXCEPT !.base = boot'.base]
FilesKept == [][boot.sign /\ home = Base => Untouched]_vars

\* A device with the signature has a bitmap and a root where the kernel, which
\* reads the root's address, and the host, which computes it, both find them,
\* and all the fields, wherever a crash fell (EdenFSManager.py 57-76 and
\* 115-124); a device whose file system is not at Base or was damaged excepted.
FsWhole ==
  boot.sign /\ home = Base /\ ~damaged =>
    /\ boot.root = boot.base + 1
    /\ boot.made = {"count", "levels"}
    /\ dev[boot.base] = Bitmap
    /\ dev[boot.root] = Dir

\* After an analysis the signature stands for a file system, as is_edenfs takes
\* it to (EdenFSManager.py 46), if it was made at Base.  One that the first
\* format of an empty device put at block 0 is there, over the boot sector just
\* installed, until the next analysis writes the kernel over bitmap and root and
\* keeps the signature (EdenOSManager.py 26, EdenOSClient.py 107-121).
FilesThere ==
  pc = "done" /\ ~damaged /\ ~short /\ home \in {0, Base} =>
    /\ boot.sign
    /\ dev[home] = Bitmap /\ dev[boot.root] = Dir <=> home = Base \/ stale
    /\ home # Base /\ stale => ~Holds(kernel)

\* Every analyse that is not cut comes to its end with its requests served,
\* also when the file became shorter while it was sent (EdenOSServer.py 57-85).
AnalysisEnds == (pc \in Running) ~> (pc \in {"done", "cut"})
=============================================================================
