-------------------------- MODULE InstallerProofs --------------------------
(***************************************************************************)
(* For every image and every place of the file system: Installed,          *)
(* Recognised, FsWhole and FilesKept of Installer.                         *)
(*                                                                         *)
(* The inductive invariant IInv says, of each place of the client, what    *)
(* the server has read of the file, what is on the way and what is on the  *)
(* device fit together: Digest for GET_MD5, Sent for GET_OS.  Placed and   *)
(* Disk carry their results to the end of analyse and beyond.              *)
(***************************************************************************)
EXTENDS Installer, SequenceTheorems, TLAPS

Block == Versions \X (1 .. Base)
Free == {Junk, Bitmap, Dir}
Cell == Free \cup Block
SrvType == [at: {"idle", "asked", "read"}, req: 0 .. 3, left: 0 .. Base,
            pos: 0 .. Base, md5: Seq(Block)]
NetType == [open: BOOLEAN, head: 0 .. Base, data: Seq(Block)]

\* TypeOK, with the data on the way as sequences of blocks of images.
Types ==
  /\ kernel \in Versions
  /\ srv \in SrvType
  /\ net \in NetType
  /\ dev \in [Lbas -> Cell]
  /\ dev[Base] \in Free /\ dev[Base + 1] \in Free
  /\ boot \in Fields
  /\ fs \in 0 .. Base /\ home \in 0 .. Base
  /\ pc \in Stopped \cup Running
  /\ len \in 0 .. Base
  /\ lba \in 0 .. Base
  /\ short \in BOOLEAN /\ rebuilt \in BOOLEAN
  /\ stale \in BOOLEAN /\ damaged \in BOOLEAN

\* The server works for the request that the client waits for.
Serving ==
  /\ srv.at # "idle" => \/ pc = "hash" /\ srv.req = GET_MD5
                        \/ pc \in {"size", "boot", "chunk"} /\ srv.req = GET_OS
  /\ srv.at = "asked" => /\ pc \in {"hash", "size"}
                         /\ srv.pos = 0 /\ srv.md5 = <<>>
                         /\ net.data = <<>> /\ net.head = 0
  /\ srv.at = "read" => /\ srv.pos + srv.left \in 2 .. Base
                        /\ Len(srv.md5) <= srv.pos
                        /\ Len(net.data) <= srv.pos
  /\ pc = "hash" /\ srv.at # "idle" => net.head = 0 /\ net.data = <<>>
  /\ net.head # 1 /\ Len(net.data) <= Base

\* What is left of an installation ends before the file system.
Bounds ==
  /\ pc \in {"boot", "chunk"} => lba + len <= Base
  /\ pc \notin {"boot", "chunk"} => lba = 0 /\ len = 0
  /\ pc = "boot" => lba = 0 /\ len >= 2

\* The answer to GET_MD5 is the whole file.
Digest ==
  pc = "hash" /\ ~rebuilt =>
    /\ srv.at = "read" => /\ srv.pos + srv.left = Size[kernel]
                          /\ Len(srv.md5) = srv.pos
                          /\ \A i \in 1 .. srv.pos : srv.md5[i] = <<kernel, i>>
    /\ net.head > 0 => /\ net.head = Size[kernel]
                       /\ Len(net.data) = net.head
                       /\ \A i \in 1 .. net.head : net.data[i] = <<kernel, i>>

\* What is on the way goes on where the device's blocks of the image end, and
\* the server goes on where that ends.
Sent ==
  pc \in {"size", "boot", "chunk"} /\ ~rebuilt /\ ~short =>
    /\ srv.at = "read" => /\ srv.pos + srv.left = Size[kernel]
                          /\ lba + Len(net.data) = srv.pos
    /\ \A i \in 1 .. Len(net.data) : net.data[i] = <<kernel, lba + i>>
    /\ net.head > 0 => net.head = Size[kernel]
    /\ pc # "size" => lba + len = Size[kernel]
    /\ \A i \in 1 .. lba : dev[i - 1] = <<kernel, i>>
    /\ lba > 0 => boot.base = Base

\* Where analyse is after the bitmap was made.
Making == {"root", "count", "levels", "fields", "sign"}

Placed ==
  pc \in Making \cup {"check", "format", "done"}
      /\ ~short /\ ~rebuilt /\ ~stale => Holds(kernel)

\* The file system was made at its place and its fields are not torn.
Intact == home = Base /\ ~damaged

\* The file system is made where the boot sector says, and the signature comes
\* after all else.
Disk ==
  /\ pc \in Making \cup {"format"} => ~boot.sign
  /\ pc = "chunk" /\ lba = 0 => ~boot.sign
  /\ pc \in Running \ Making => ~stale
  /\ pc \in Running /\ fs = Base => boot.base = Base
  /\ pc \in Making => home = fs /\ (~stale => fs = boot.base)
  /\ (boot.sign \/ pc \in Making) /\ Intact => boot.base = Base /\ dev[Base] = Bitmap
  /\ (boot.sign \/ pc \in Making \ {"root"}) /\ Intact => dev[Base + 1] = Dir
  /\ (boot.sign \/ pc \in {"levels", "fields", "sign"}) /\ Intact => "count" \in boot.made
  /\ (boot.sign \/ pc \in {"fields", "sign"}) /\ Intact => "levels" \in boot.made
  /\ (boot.sign \/ pc = "sign") /\ Intact => boot.root = Base + 1

\* An up-to-date device is not sent another image.
NotAgain == Recognised

IInv == Types /\ Serving /\ Bounds /\ Digest /\ Sent /\ Placed /\ Disk /\ NotAgain

----------------------------------------------------------------------------
\* What is received is taken from what is on the way.
LEMMA Shifted ==
  ASSUME NEW a \in Nat, NEW b \in Nat, NEW c \in Nat
  PROVE  (a + c) + (b - c) = a + b
OBVIOUS

\* What the assumption on the constants says of the image v.
LEMMA Sizes ==
  /\ Base \in Nat /\ Base >= 2
  /\ Versions # {} /\ Versions \subseteq Nat \ {0}
  /\ \A v \in Versions : Size[v] \in 2 .. Base
<1>1. Versions = 1 .. Len(Size) /\ Len(Size) \in Nat
  BY SizesFit DEF Versions
<1>2. \A v \in Versions : Size[v] \in 2 .. Base
  BY SizesFit DEF Versions
<1>3. 1 \in Versions
  BY <1>1, SizesFit
<1>4. Base >= 2
  BY <1>2, <1>3, SizesFit
<1> QED
  BY <1>1, <1>2, <1>3, <1>4, SizesFit

\* A read returns blocks of the file, from its place on, at most as many as
\* were asked for and exactly so many before the file's end.
LEMMA FileReadFacts ==
  ASSUME kernel \in Versions, NEW p \in Nat, NEW n \in Nat
  PROVE  /\ FileRead(p, n) \in Seq(Block)
         /\ Len(FileRead(p, n)) <= n
         /\ p + n <= Size[kernel] => Len(FileRead(p, n)) = n
         /\ \A i \in 1 .. Len(FileRead(p, n)) : FileRead(p, n)[i] = <<kernel, p + i>>
<1> DEFINE file == [i \in 1 .. Size[kernel] |-> <<kernel, i>>]
           e == Least(p + n, Size[kernel])
<1>1. Size[kernel] \in 2 .. Base /\ Base \in Nat
  BY Sizes
<1>2. e \in Nat /\ e <= p + n /\ e <= Size[kernel]
  BY <1>1 DEF Least
<1>3. file \in Seq(Block) /\ Len(file) = Size[kernel]
  BY <1>1 DEF Block
<1>4. FileRead(p, n) = SubSeq(file, p + 1, e)
  BY DEF FileRead
<1>5. p + n <= Size[kernel] => e = p + n
  BY <1>1 DEF Least
<1> HIDE DEF e, file
<1>6. CASE e <= p
  <2>1. SubSeq(file, p + 1, e) = <<>>
    BY <1>2, <1>3, <1>6
  <2> QED
    BY <2>1, <1>1, <1>2, <1>4, <1>5, <1>6
<1>7. CASE e > p
  <2> DEFINE got == SubSeq(file, p + 1, e)
  <2>1. \A i \in (p + 1) .. e : file[i] \in Block /\ file[i] = <<kernel, i>>
    <3> TAKE i \in (p + 1) .. e
    <3>1. i \in 1 .. Size[kernel] /\ i \in 1 .. Base
      BY <1>1, <1>2
    <3>2. file[i] = <<kernel, i>>
      BY <3>1 DEF file
    <3> QED
      BY <3>1, <3>2 DEF Block
  <2>2. /\ got \in Seq(Block)
        /\ Len(got) = e - p
        /\ \A i \in 1 .. (e - p) : got[i] = file[p + i]
    BY <2>1, <1>2, <1>7, SubSeqProperties
  <2>3. \A i \in 1 .. (e - p) : got[i] = <<kernel, p + i>>
    <3> TAKE i \in 1 .. (e - p)
    <3>1. p + i \in (p + 1) .. e
      BY <1>2
    <3> QED
      BY <2>1, <2>2, <3>1
  <2> HIDE DEF got
  <2>4. Len(got) <= n /\ (p + n <= Size[kernel] => Len(got) = n)
    BY <2>2, <1>1, <1>2, <1>5, <1>7
  <2>5. FileRead(p, n) = got
    BY <1>4 DEF got
  <2> QED
    BY <2>2, <2>3, <2>4, <2>5
<1> QED
  BY <1>2, <1>6, <1>7

\* A receive takes blocks from the front, all that were asked for unless it
\* was short.
LEMMA RecvFacts ==
  ASSUME net \in NetType, short \in BOOLEAN,
         NEW n \in Nat, NEW k \in 0 .. n, NEW torn \in BOOLEAN, Recv(n, k, torn)
  PROVE  /\ net' \in NetType /\ short' \in BOOLEAN
         /\ k <= Len(net.data)
         /\ net'.head = net.head
         /\ Len(net'.data) = Len(net.data) - k
         /\ \A i \in 1 .. Len(net'.data) : net'.data[i] = net.data[k + i]
         /\ ~short' => ~short /\ k = n /\ ~torn
         /\ torn => short' /\ k > 0
<1>1. net.data \in Seq(Block) /\ Len(net.data) \in Nat
  BY DEF NetType
<1>2. k <= Len(net.data)
  BY <1>1 DEF Recv, Least
<1>3. net' = [net EXCEPT !.data = SubSeq(net.data, k + 1, Len(net.data))]
  BY DEF Recv
<1> DEFINE rest == SubSeq(net.data, k + 1, Len(net.data))
<1>4. /\ rest \in Seq(Block)
      /\ Len(rest) = Len(net.data) - k
      /\ \A i \in 1 .. Len(rest) : rest[i] = net.data[k + i]
  <2>1. \A i \in (k + 1) .. Len(net.data) : net.data[i] \in Block
    BY <1>1
  <2>2. /\ rest \in Seq(Block)
        /\ Len(rest) = Len(net.data) - k
        /\ \A i \in 1 .. Len(net.data) - k : rest[i] = net.data[k + i]
    BY <2>1, <1>1, <1>2, SubSeqProperties
  <2> QED
    BY <2>2
<1>5. net'.data = rest
  BY <1>3 DEF NetType
<1> HIDE DEF rest
<1>6. net' \in NetType /\ net'.head = net.head
  BY <1>3, <1>4 DEF NetType, rest
<1>7. short' \in BOOLEAN /\ (~short' => ~short /\ k = n /\ ~torn) /\ (torn => short' /\ k > 0)
  <2>1. short' = (short \/ k < n) /\ (torn => short' /\ k > 0)
    BY DEF Recv
  <2>2. CASE k < n
    <3>1. short' = TRUE
      BY <2>1, <2>2, Zenon
    <3> QED
      BY <2>1, <3>1
  <2>3. CASE ~(k < n)
    <3>1. short' = short
      BY <2>1, <2>3, Zenon
    <3>2. k = n
      BY <2>3
    <3> QED
      BY <2>1, <3>1, <3>2, Zenon
  <2> QED
    BY <2>2, <2>3
<1> QED
  BY <1>2, <1>4, <1>5, <1>6, <1>7

\* Blocks are stored where they belong, and nowhere else.
LEMMA StoredFacts ==
  ASSUME net \in NetType, dev \in [Lbas -> Cell],
         NEW l \in Nat, NEW k \in Nat, NEW torn \in BOOLEAN,
         l + k <= Base, k <= Len(net.data)
  PROVE  /\ Stored(l, k, torn) \in [Lbas -> Cell]
         /\ \A b \in Lbas : b < l \/ b >= l + k => Stored(l, k, torn)[b] = dev[b]
         /\ ~torn => \A i \in 1 .. k : Stored(l, k, torn)[l + i - 1] = net.data[i]
<1>1. Base \in Nat
  BY Sizes
<1>2. net.data \in Seq(Block) /\ Len(net.data) \in Nat
  BY DEF NetType
<1>3. \A i \in 1 .. k : net.data[i] \in Cell
  BY <1>2 DEF Cell
<1>4. Junk \in Cell
  BY DEF Cell, Free
<1>5. \A b \in l .. l + k - 1 : b - l + 1 \in 1 .. k
  BY SMT
<1> HIDE DEF Cell, Junk
<1>6. Stored(l, k, torn) \in [Lbas -> Cell]
  BY <1>1, <1>3, <1>4, <1>5 DEF Stored, Lbas
<1>7. \A b \in Lbas : b < l \/ b >= l + k => Stored(l, k, torn)[b] = dev[b]
  BY <1>1 DEF Stored, Lbas
<1>8. ASSUME ~torn PROVE \A i \in 1 .. k : Stored(l, k, torn)[l + i - 1] = net.data[i]
  BY <1>1, <1>8 DEF Stored, Lbas
<1> QED
  BY <1>6, <1>7, <1>8

----------------------------------------------------------------------------
\* A fresh connection and a closed one are of their types.
LEMMA IdleFacts ==
  /\ Idle \in SrvType /\ Closed \in NetType
  /\ [Closed EXCEPT !.open = TRUE] \in NetType
  /\ \A req \in 0 .. 3 : [Idle EXCEPT !.at = "asked", !.req = req] \in SrvType
<1>1. <<>> \in Seq(Block)
  BY EmptySeq
<1>2. Idle \in SrvType
  BY <1>1, Sizes DEF Idle, SrvType, NoReq
<1>3. Closed \in NetType
  BY <1>1, Sizes DEF Closed, NetType
<1>4. [Closed EXCEPT !.open = TRUE] \in NetType
  BY <1>3 DEF NetType
<1>5. \A req \in 0 .. 3 : [Idle EXCEPT !.at = "asked", !.req = req] \in SrvType
  BY <1>2 DEF SrvType
<1> QED
  BY <1>2, <1>3, <1>4, <1>5

----------------------------------------------------------------------------
(* The steps *)

\* analyse begins.
LEMMA StartStep ==
  ASSUME IInv, Start
  PROVE  IInv'
<1>1. Types'
  BY Sizes DEF IInv, Types, Fields, Lbas, Stopped, Running, Start, vars, client
<1>2. Serving'
  BY Sizes DEF IInv, Serving, Types, SrvType, NetType, Stopped, Start, vars, client
<1>3. Bounds'
  BY Sizes DEF IInv, Bounds, Types, Stopped, Start, vars, client
<1>4. Digest'
  BY Sizes DEF IInv, Digest, Types, SrvType, NetType, Start, vars, client
<1>5. Sent'
  BY Sizes DEF IInv, Sent, Types, SrvType, NetType, Start, vars, client
<1>6. Placed'
  BY Sizes DEF IInv, Placed, Making, Types, Holds, Start, vars, client
<1>7. Disk'
  BY Sizes DEF IInv, Disk, Making, Intact, Types, Running, Stopped, Fields, Start, vars, client
<1>8. NotAgain'
  BY Sizes DEF IInv, NotAgain, Types, Recognised, Holds, Start, vars, client
<1> QED
  BY <1>1, <1>2, <1>3, <1>4, <1>5, <1>6, <1>7, <1>8 DEF IInv

\* GET_MD5 is sent.
LEMMA AskStep ==
  ASSUME IInv, Ask
  PROVE  IInv'
<1>1. Types'
  BY Sizes, IdleFacts DEF IInv, Types, Fields, Lbas, Stopped, Running, Ask, Connect,
    client, GET_MD5
<1>2. Serving'
  BY Sizes DEF IInv, Serving, Types, SrvType, NetType, Stopped, Ask, Connect, Idle,
    Closed, client, GET_MD5
<1>3. Bounds'
  BY Sizes DEF IInv, Bounds, Types, Stopped, Ask, Connect, Idle, Closed, client,
    GET_MD5
<1>4. Digest'
  BY Sizes DEF IInv, Digest, Types, SrvType, NetType, Ask, Connect, Idle, Closed,
    client, GET_MD5
<1>5. Sent'
  BY Sizes DEF IInv, Sent, Types, SrvType, NetType, Ask, Connect, Idle, Closed,
    client, GET_MD5
<1>6. Placed'
  BY Sizes DEF IInv, Placed, Making, Types, Holds, Ask, Connect, Idle, Closed, client,
    GET_MD5
<1>7. Disk'
  BY Sizes DEF IInv, Disk, Making, Intact, Types, Running, Stopped, Fields, Ask, Connect, Idle,
    Closed, client, GET_MD5
<1>8. NotAgain'
  BY Sizes DEF IInv, NotAgain, Types, Recognised, Holds, Ask, Connect, Idle, Closed,
    client, GET_MD5
<1> QED
  BY <1>1, <1>2, <1>3, <1>4, <1>5, <1>6, <1>7, <1>8 DEF IInv

\* GET_OS is sent.
LEMMA GetStep ==
  ASSUME IInv, Get
  PROVE  IInv'
<1>1. Types'
  <2>1. srv' \in SrvType /\ net' \in NetType
    BY IdleFacts DEF Get, Connect, GET_OS
  <2> QED
    BY <2>1 DEF IInv, Types, Get, Stopped, Running
<1>2. Serving'
  BY Sizes DEF IInv, Serving, Types, SrvType, NetType, Stopped, Get, Connect, Idle,
    Closed, GET_OS
<1>3. Bounds'
  BY Sizes DEF IInv, Bounds, Types, Stopped, Get, Connect, Idle, Closed, GET_OS
<1>4. Digest'
  BY Sizes DEF IInv, Digest, Types, SrvType, NetType, Get, Connect, Idle, Closed,
    GET_OS
<1>5. Sent'
  BY Sizes DEF IInv, Sent, Types, Bounds, SrvType, NetType, Get, Connect, Idle,
    Closed, GET_OS
<1>6. Placed'
  BY Sizes DEF IInv, Placed, Making, Types, Holds, Get, Connect, Idle, Closed, GET_OS
<1>7. Disk'
  BY Sizes DEF IInv, Disk, Making, Intact, Types, Running, Stopped, Fields, Get, Connect, Idle,
    Closed, GET_OS
<1>8. NotAgain'
  BY Sizes DEF IInv, NotAgain, Types, Recognised, Holds, Get, Connect, Idle, Closed,
    GET_OS
<1> QED
  BY <1>1, <1>2, <1>3, <1>4, <1>5, <1>6, <1>7, <1>8 DEF IInv

\* The length has come, which is no less than a receive.
LEMMA LengthStep ==
  ASSUME IInv, Length
  PROVE  IInv'
<1>1. Types'
  BY Sizes DEF IInv, Types, NetType, Fields, Lbas, Stopped, Running, Length
<1>2. Serving'
  BY Sizes DEF IInv, Serving, Types, SrvType, NetType, Stopped, Length
<1>3. Bounds'
  BY Sizes DEF IInv, Bounds, Types, Serving, NetType, Stopped, Length
<1>4. Digest'
  BY Sizes DEF IInv, Digest, Types, SrvType, NetType, Length
<1>5. Sent'
  BY Sizes DEF IInv, Sent, Types, Bounds, SrvType, NetType, Length
<1>6. Placed'
  BY Sizes DEF IInv, Placed, Making, Types, Holds, Length
<1>7. Disk'
  BY Sizes DEF IInv, Disk, Making, Intact, Types, Running, Stopped, Fields, Length
<1>8. NotAgain'
  BY Sizes DEF IInv, NotAgain, Types, Recognised, Holds, Length
<1> QED
  BY <1>1, <1>2, <1>3, <1>4, <1>5, <1>6, <1>7, <1>8 DEF IInv

\* The server closed before a number came.
LEMMA RefusedStep ==
  ASSUME IInv, Refused, UNCHANGED <<Kept, boot>>
  PROVE  IInv'
<1>1. Types'
  BY Sizes, IdleFacts DEF IInv, Types, Fields, Lbas, Stopped, Running, Refused,
    Kept, Disconnect
<1>2. Serving'
  BY Sizes DEF IInv, Serving, Types, SrvType, NetType, Stopped, Refused, Kept,
    Disconnect, Idle, Closed
<1>3. Bounds'
  BY Sizes DEF IInv, Bounds, Types, Stopped, Refused, Kept, Disconnect, Idle, Closed
<1>4. Digest'
  BY Sizes DEF IInv, Digest, Types, SrvType, NetType, Refused, Kept, Disconnect,
    Idle, Closed
<1>5. Sent'
  BY Sizes DEF IInv, Sent, Types, SrvType, NetType, Refused, Kept, Disconnect, Idle,
    Closed
<1>6. Placed'
  BY Sizes DEF IInv, Placed, Making, Types, Holds, Refused, Kept, Disconnect, Idle, Closed
<1>7. Disk'
  BY Sizes DEF IInv, Disk, Making, Intact, Types, Running, Stopped, Fields, Refused, Kept,
    Disconnect, Idle, Closed
<1>8. NotAgain'
  BY Sizes DEF IInv, NotAgain, Types, Recognised, Holds, Refused, Kept, Disconnect,
    Idle, Closed
<1> QED
  BY <1>1, <1>2, <1>3, <1>4, <1>5, <1>6, <1>7, <1>8 DEF IInv

\* All of the image has been received.
LEMMA InstallEndsStep ==
  ASSUME IInv, InstallEnds, UNCHANGED <<Kept, boot>>
  PROVE  IInv'
<1>1. Types'
  BY Sizes, IdleFacts DEF IInv, Types, Fields, Lbas, Stopped, Running, InstallEnds,
    Kept, Disconnect
<1>2. Serving'
  BY Sizes DEF IInv, Serving, Types, SrvType, NetType, Stopped, InstallEnds, Kept,
    Disconnect, Idle, Closed
<1>3. Bounds'
  BY Sizes DEF IInv, Bounds, Types, Stopped, InstallEnds, Kept, Disconnect, Idle,
    Closed
<1>4. Digest'
  BY Sizes DEF IInv, Digest, Types, SrvType, NetType, InstallEnds, Kept, Disconnect,
    Idle, Closed
<1>5. Sent'
  BY Sizes DEF IInv, Sent, Types, SrvType, NetType, InstallEnds, Kept, Disconnect,
    Idle, Closed
<1>6. Placed'
  <2> SUFFICES ASSUME ~short, ~rebuilt, ~stale
               PROVE  Holds(kernel)
    BY DEF Placed, InstallEnds, Kept, Holds
  <2>1. /\ lba + len = Size[kernel] /\ (lba > 0 => boot.base = Base)
        /\ \A i \in 1 .. lba : dev[i - 1] = <<kernel, i>>
    BY DEF IInv, Sent, InstallEnds
  <2>2. lba = Size[kernel] /\ lba > 0
    BY <2>1, Sizes DEF IInv, Types, InstallEnds
  <2> QED
    BY <2>1, <2>2 DEF Holds
<1>7. Disk'
  BY Sizes DEF IInv, Disk, Making, Intact, Types, Running, Stopped, Fields, InstallEnds, Kept,
    Disconnect, Idle, Closed
<1>8. NotAgain'
  BY Sizes DEF IInv, NotAgain, Types, Recognised, Holds, InstallEnds, Kept,
    Disconnect, Idle, Closed
<1> QED
  BY <1>1, <1>2, <1>3, <1>4, <1>5, <1>6, <1>7, <1>8 DEF IInv

\* EdenFS is looked for.
LEMMA IsEdenFSStep ==
  ASSUME IInv, IsEdenFS, UNCHANGED <<Kept, srv, net, len, lba, boot>>
  PROVE  IInv'
<1>1. Types'
  BY Sizes DEF IInv, Types, Fields, Lbas, Stopped, Running, IsEdenFS, Kept
<1>2. Serving'
  BY Sizes DEF IInv, Serving, Types, SrvType, NetType, Stopped, IsEdenFS, Kept
<1>3. Bounds'
  BY Sizes DEF IInv, Bounds, Types, Stopped, IsEdenFS, Kept
<1>4. Digest'
  BY Sizes DEF IInv, Digest, Types, SrvType, NetType, IsEdenFS, Kept
<1>5. Sent'
  BY Sizes DEF IInv, Sent, Types, SrvType, NetType, IsEdenFS, Kept
<1>6. Placed'
  BY Sizes DEF IInv, Placed, Making, Types, Holds, IsEdenFS, Kept
<1>7. Disk'
  BY Sizes DEF IInv, Disk, Making, Intact, Types, Running, Stopped, Fields, IsEdenFS, Kept
<1>8. NotAgain'
  BY Sizes DEF IInv, NotAgain, Types, Recognised, Holds, IsEdenFS, Kept
<1> QED
  BY <1>1, <1>2, <1>3, <1>4, <1>5, <1>6, <1>7, <1>8 DEF IInv

\* A field is written.
LEMMA WriteFieldStep ==
  ASSUME IInv, WriteCount \/ WriteLevels \/ WriteRoot, UNCHANGED <<Kept, srv, net, len, lba>>
  PROVE  IInv'
<1>a. /\ boot' \in Fields
      /\ boot'.sign = boot.sign /\ boot'.base = boot.base
      /\ \/ /\ pc = "count" /\ pc' = "levels"
            /\ boot'.made = boot.made \cup {"count"}
         \/ /\ pc = "levels" /\ pc' = "fields"
            /\ boot'.made = boot.made \cup {"levels"}
         \/ /\ pc = "fields" /\ pc' = "sign"
            /\ boot'.made = boot.made /\ boot'.root = fs + 1
  <2>1. fs + 1 \in Lbas
    BY Sizes DEF IInv, Types, Lbas
  <2>2. boot \in Fields
    BY DEF IInv, Types
  <2> HIDE DEF Lbas
  <2> QED
    BY <2>1, <2>2 DEF Fields, WriteCount, WriteLevels, WriteRoot
<1>1. Types'
  BY <1>a DEF IInv, Types, Kept, Stopped, Running
<1>2. Serving'
  BY <1>a DEF IInv, Serving, Types, Kept
<1>3. Bounds'
  BY <1>a DEF IInv, Bounds, Kept
<1>4. Digest'
  BY <1>a DEF IInv, Digest, Kept
<1>5. Sent'
  BY <1>a DEF IInv, Sent, Kept
<1>6. Placed'
  BY <1>a DEF IInv, Placed, Making, Holds, Kept
<1>7. Disk'
  BY <1>a, Sizes DEF IInv, Disk, Making, Intact, Types, Running, Kept
<1>8. NotAgain'
  BY <1>a DEF IInv, NotAgain, Recognised, Kept
<1> QED
  BY <1>1, <1>2, <1>3, <1>4, <1>5, <1>6, <1>7, <1>8 DEF IInv

\* The signature is written.
LEMMA SignStep ==
  ASSUME IInv, Sign, UNCHANGED <<Kept, srv, net, len, lba>>
  PROVE  IInv'
<1>1. Types'
  BY Sizes DEF IInv, Types, Fields, Lbas, Stopped, Running, Sign, Kept
<1>2. Serving'
  BY Sizes DEF IInv, Serving, Types, SrvType, NetType, Stopped, Sign, Kept
<1>3. Bounds'
  BY Sizes DEF IInv, Bounds, Types, Stopped, Sign, Kept
<1>4. Digest'
  BY Sizes DEF IInv, Digest, Types, SrvType, NetType, Sign, Kept
<1>5. Sent'
  BY Sizes DEF IInv, Sent, Types, SrvType, NetType, Sign, Kept
<1>6. Placed'
  BY Sizes DEF IInv, Placed, Making, Types, Holds, Sign, Kept
<1>7. Disk'
  BY Sizes DEF IInv, Disk, Making, Intact, Types, Running, Stopped, Fields, Sign, Kept
<1>8. NotAgain'
  BY Sizes DEF IInv, NotAgain, Types, Recognised, Holds, Sign, Kept
<1> QED
  BY <1>1, <1>2, <1>3, <1>4, <1>5, <1>6, <1>7, <1>8 DEF IInv

\* The program ends anywhere.
LEMMA CrashStep ==
  ASSUME IInv, Crash, UNCHANGED <<Kept, boot>>
  PROVE  IInv'
<1>1. Types'
  BY Sizes, IdleFacts DEF IInv, Types, Fields, Lbas, Stopped, Running, Crash, Kept,
    Disconnect
<1>2. Serving'
  BY Sizes DEF IInv, Serving, Types, SrvType, NetType, Stopped, Crash, Kept,
    Disconnect, Idle, Closed
<1>3. Bounds'
  BY Sizes DEF IInv, Bounds, Types, Stopped, Crash, Kept, Disconnect, Idle, Closed
<1>4. Digest'
  BY Sizes DEF IInv, Digest, Types, SrvType, NetType, Crash, Kept, Disconnect, Idle,
    Closed
<1>5. Sent'
  BY Sizes DEF IInv, Sent, Types, SrvType, NetType, Crash, Kept, Disconnect, Idle,
    Closed
<1>6. Placed'
  BY Sizes DEF IInv, Placed, Making, Types, Holds, Crash, Kept, Disconnect, Idle, Closed
<1>7. Disk'
  BY Sizes DEF IInv, Disk, Making, Intact, Types, Running, Stopped, Fields, Crash, Kept, Disconnect,
    Idle, Closed
<1>8. NotAgain'
  BY Sizes DEF IInv, NotAgain, Types, Recognised, Holds, Crash, Kept, Disconnect,
    Idle, Closed
<1> QED
  BY <1>1, <1>2, <1>3, <1>4, <1>5, <1>6, <1>7, <1>8 DEF IInv

\* The kernel is built anew.
LEMMA RebuildStep ==
  ASSUME IInv, Rebuild
  PROVE  IInv'
<1>1. Types'
  BY Sizes DEF IInv, Types, Fields, Lbas, Stopped, Running, Rebuild, client
<1>2. Serving'
  BY Sizes DEF IInv, Serving, Types, SrvType, NetType, Stopped, Rebuild, client
<1>3. Bounds'
  BY Sizes DEF IInv, Bounds, Types, Stopped, Rebuild, client
<1>4. Digest'
  BY Sizes DEF IInv, Digest, Types, SrvType, NetType, Rebuild, client
<1>5. Sent'
  BY Sizes DEF IInv, Sent, Types, SrvType, NetType, Rebuild, client
<1>6. Placed'
  BY Sizes DEF IInv, Placed, Making, Types, Holds, Rebuild, client
<1>7. Disk'
  BY Sizes DEF IInv, Disk, Making, Intact, Types, Running, Stopped, Fields, Rebuild, client
<1>8. NotAgain'
  BY Sizes DEF IInv, NotAgain, Types, Recognised, Holds, Rebuild, client
<1> QED
  BY <1>1, <1>2, <1>3, <1>4, <1>5, <1>6, <1>7, <1>8 DEF IInv

\* The device's digest is compared with the answer.
LEMMA IsEdenOSStep ==
  ASSUME IInv, IsEdenOS
  PROVE  IInv'
<1>1. Types'
  BY Sizes, IdleFacts DEF IInv, Types, Fields, Lbas, Stopped, Running, IsEdenOS,
    Disconnect
<1>2. Serving'
  BY Sizes DEF IInv, Serving, Types, SrvType, NetType, Stopped, IsEdenOS,
    Disconnect, Idle, Closed
<1>3. Bounds'
  BY Sizes DEF IInv, Bounds, Types, Stopped, IsEdenOS, Disconnect, Idle, Closed
<1>4. Digest'
  BY Sizes DEF IInv, Digest, Types, SrvType, NetType, IsEdenOS, Disconnect, Idle,
    Closed
<1>5. Sent'
  BY Sizes DEF IInv, Sent, Types, SrvType, NetType, IsEdenOS, Disconnect, Idle,
    Closed
<1>6. Placed'
  <2> SUFFICES ASSUME ~short', ~rebuilt, Hashed(net.head) = net.data
               PROVE  Holds(kernel)
    BY DEF Placed, Making, IsEdenOS, Holds
  <2>1. Size[kernel] \in 2 .. Base /\ kernel \in Nat \ {0}
    BY Sizes DEF IInv, Types
  <2>2. net.head = Size[kernel]
        /\ \A i \in 1 .. net.head : net.data[i] = <<kernel, i>>
    BY DEF IInv, Digest, IsEdenOS
  <2>3. \A i \in 1 .. Size[kernel] : Hashed(net.head)[i] = <<kernel, i>>
    BY <2>2
  <2>4. boot.base = Base /\ Hashed(net.head)[1] = dev[0]
    <3>1. Hashed(net.head)[1] = <<kernel, 1>> /\ <<kernel, 1>> # Junk
      BY <2>1, <2>3 DEF Junk
    <3> DEFINE plain == boot.base = Base /\ (boot.sign \/ (boot.made = {} /\ boot.root = 0))
    <3>2. Hashed(net.head)[1] = IF ~plain THEN Junk ELSE dev[0]
      BY <2>1, <2>2 DEF Hashed
    <3>3. plain
      BY <3>1, <3>2, Zenon
    <3> QED
      BY <3>2, <3>3
  <2>5. \A i \in 1 .. Size[kernel] : Hashed(net.head)[i] = dev[i - 1]
    BY <2>1, <2>2, <2>4 DEF Hashed
  <2> QED
    BY <2>3, <2>4, <2>5 DEF Holds
<1>7. Disk'
  BY Sizes DEF IInv, Disk, Making, Intact, Types, Running, Stopped, Fields, IsEdenOS, Disconnect,
    Idle, Closed
<1>8. NotAgain'
  <2> SUFFICES ASSUME ~short', ~rebuilt, boot.sign, Holds(kernel)
               PROVE  Hashed(net.head) = net.data
    BY DEF NotAgain, Recognised, IsEdenOS, Holds
  <2>1. Size[kernel] \in 2 .. Base
    BY Sizes DEF IInv, Types
  <2>2. /\ net.head = Size[kernel] /\ Len(net.data) = net.head
        /\ \A i \in 1 .. net.head : net.data[i] = <<kernel, i>>
    BY DEF IInv, Digest, IsEdenOS
  <2>3. Hashed(net.head) = [i \in 1 .. net.head |-> <<kernel, i>>]
    BY <2>1, <2>2 DEF Hashed, Holds
  <2>4. net.data \in Seq(Block)
    BY DEF IInv, Types, NetType
  <2>5. net.data = [i \in 1 .. net.head |-> net.data[i]]
    BY <2>2, <2>4
  <2> QED
    BY <2>2, <2>3, <2>5
<1> QED
  BY <1>1, <1>2, <1>3, <1>4, <1>5, <1>6, <1>7, <1>8 DEF IInv

\* A block of the file system is written at l.
LEMMA MadeFacts ==
  ASSUME IInv, NEW l \in Lbas, NEW c \in {Bitmap, Dir}, dev' = [dev EXCEPT ![l] = c]
  PROVE  /\ dev' \in [Lbas -> Cell]
         /\ dev'[Base] \in Free /\ dev'[Base + 1] \in Free
         /\ dev'[l] = c /\ \A b \in Lbas : b # l => dev'[b] = dev[b]
<1>1. dev \in [Lbas -> Cell] /\ dev[Base] \in Free /\ dev[Base + 1] \in Free
  BY DEF IInv, Types
<1>2. c \in Free /\ c \in Cell
  BY DEF Free, Cell
<1>3. Base \in Lbas /\ Base + 1 \in Lbas
  BY Sizes DEF Lbas
<1> HIDE DEF Cell, Free, Lbas, Bitmap, Dir
<1> QED
  BY <1>1, <1>2, <1>3

\* The bitmap is made.
LEMMA FormatStep ==
  ASSUME IInv, Format
  PROVE  IInv'
<1>a. fs \in Lbas /\ Base \in Lbas /\ Base \in Nat /\ Base >= 2 /\ fs \in Nat
  BY Sizes DEF IInv, Types, Lbas
<1>b. /\ dev' \in [Lbas -> Cell]
      /\ dev'[Base] \in Free /\ dev'[Base + 1] \in Free
      /\ dev'[fs] = Bitmap /\ \A b \in Lbas : b # fs => dev'[b] = dev[b]
  BY <1>a, MadeFacts DEF Format
<1>c. /\ pc = "format" /\ pc' = "root" /\ ~boot.sign /\ ~boot'.sign
      /\ fs = Base => boot' = boot /\ boot.base = Base
      /\ home' = fs /\ ~damaged' /\ stale' = (fs # boot.base)
      /\ UNCHANGED <<kernel, srv, net, fs, len, lba, rebuilt, short>>
  BY <1>a DEF IInv, Disk, Format, Running, Making
<1>1. Types'
  <2>1. boot' \in Fields
    BY Sizes DEF IInv, Types, Format, Fields, Lbas
  <2>2. stale' \in BOOLEAN /\ damaged' \in BOOLEAN /\ home' \in 0 .. Base
    BY DEF Format, IInv, Types
  <2> QED
    BY <1>b, <1>c, <2>1, <2>2 DEF IInv, Types, Stopped, Running
<1>2. Serving'
  BY <1>c DEF IInv, Serving, Types
<1>3. Bounds'
  BY <1>c DEF IInv, Bounds
<1>4. Digest'
  BY <1>c DEF IInv, Digest
<1>5. Sent'
  BY <1>c DEF IInv, Sent
<1>6. Placed'
  <2> SUFFICES ASSUME ~short, ~rebuilt, fs = boot.base
               PROVE  Holds(kernel)'
    BY <1>c DEF Placed
  <2>1. Holds(kernel)
    BY DEF IInv, Placed, Disk, Format, Running, Making
  <2>2. boot.base = Base /\ Size[kernel] \in 2 .. Base
    BY <2>1, Sizes DEF Holds, IInv, Types
  <2>3. boot' = boot /\ kernel' = kernel
    BY <2>2, <1>c
  <2>4. \A i \in 1 .. Size[kernel] : i - 1 \in Lbas /\ i - 1 # fs
    BY <2>2, <1>a DEF Lbas
  <2> QED
    BY <1>b, <2>1, <2>2, <2>3, <2>4 DEF Holds
<1>7. Disk'
  <2>1. ~stale' => fs = boot'.base
    <3>1. CASE fs = 0
      BY <3>1 DEF Format
    <3>2. CASE fs # 0
      BY <3>2 DEF Format
    <3> QED
      BY <3>1, <3>2
  <2>2. home' = fs' /\ fs' = fs /\ (Intact' => fs = Base)
    BY <1>c DEF Intact
  <2> QED
    BY <2>1, <2>2, <1>a, <1>b, <1>c DEF Disk, Making, Running
<1>8. NotAgain'
  BY <1>c DEF NotAgain, Recognised
<1> QED
  BY <1>1, <1>2, <1>3, <1>4, <1>5, <1>6, <1>7, <1>8 DEF IInv

\* The root is made.
LEMMA MakeRootStep ==
  ASSUME IInv, MakeRoot
  PROVE  IInv'
<1>a. /\ fs + 1 \in Lbas /\ Base \in Lbas /\ Base \in Nat /\ Base >= 2
      /\ fs \in 0 .. Base
  BY Sizes DEF IInv, Types, Lbas
<1>b. /\ dev' \in [Lbas -> Cell]
      /\ dev'[Base] \in Free /\ dev'[Base + 1] \in Free
      /\ dev'[fs + 1] = Dir /\ \A b \in Lbas : b # fs + 1 => dev'[b] = dev[b]
  BY <1>a, MadeFacts DEF MakeRoot
<1>c. /\ pc = "root" /\ pc' = "count"
      /\ UNCHANGED <<kernel, srv, net, boot, fs, len, lba, rebuilt, short, stale,
                     home, damaged>>
  BY DEF MakeRoot
<1>1. Types'
  BY <1>b, <1>c DEF IInv, Types, Stopped, Running
<1>2. Serving'
  BY <1>c DEF IInv, Serving, Types
<1>3. Bounds'
  BY <1>c DEF IInv, Bounds
<1>4. Digest'
  BY <1>c DEF IInv, Digest
<1>5. Sent'
  BY <1>c DEF IInv, Sent
<1>6. Placed'
  <2> SUFFICES ASSUME ~short, ~rebuilt, ~stale
               PROVE  Holds(kernel)'
    BY <1>c DEF Placed
  <2>1. Holds(kernel) /\ (fs = Base => boot.base = Base)
    BY <1>c DEF IInv, Placed, Disk, Making, Running
  <2>2. Size[kernel] \in 2 .. Base
    BY Sizes DEF IInv, Types
  <2>3. fs = Base
    BY <1>c, <2>1 DEF IInv, Disk, Making, Holds
  <2>4. \A i \in 1 .. Size[kernel] : i - 1 \in Lbas /\ i - 1 # fs + 1
    BY <2>2, <2>3, <1>a DEF Lbas
  <2> QED
    BY <1>b, <1>c, <2>1, <2>2, <2>4 DEF Holds
<1>7. Disk'
  BY <1>a, <1>b, <1>c DEF IInv, Disk, Making, Intact, Running
<1>8. NotAgain'
  BY <1>c DEF NotAgain, Recognised
<1> QED
  BY <1>1, <1>2, <1>3, <1>4, <1>5, <1>6, <1>7, <1>8 DEF IInv

\* The server takes the length of the file.
LEMMA HandleStep ==
  ASSUME IInv, Handle
  PROVE  IInv'
<1>a. /\ srv.at = "asked" /\ srv.req \in {GET_MD5, GET_OS}
      /\ srv \in SrvType /\ net \in NetType
      /\ Size[kernel] \in 2 .. Base /\ Base \in Nat
  BY Sizes DEF Handle, IInv, Types, Serving
<1>b. /\ srv' = [srv EXCEPT !.at = "read", !.left = Size[kernel]]
      /\ net' = [net EXCEPT !.head = IF srv.req = GET_OS THEN Size[kernel] ELSE 0]
  BY <1>a DEF Handle, Served, GET_OS, GET_MD5
<1>c. /\ srv' \in SrvType /\ net' \in NetType
      /\ srv'.at = "read" /\ srv'.left = Size[kernel]
      /\ srv'.pos = srv.pos /\ srv'.md5 = srv.md5 /\ srv'.req = srv.req
      /\ net'.head = (IF srv.req = GET_OS THEN Size[kernel] ELSE 0) /\ net'.data = net.data
  <2>1. \E h \in 0 .. Base : /\ h = (IF srv.req = GET_OS THEN Size[kernel] ELSE 0)
                            /\ net' = [net EXCEPT !.head = h]
    BY <1>a, <1>b
  <2>2. PICK h \in 0 .. Base : /\ h = (IF srv.req = GET_OS THEN Size[kernel] ELSE 0)
                              /\ net' = [net EXCEPT !.head = h]
    BY <2>1
  <2>3. net' \in NetType /\ net'.head = h /\ net'.data = net.data
    BY <2>2, <1>a DEF NetType
  <2>4. Size[kernel] \in 0 .. Base
    BY <1>a
  <2>5. srv' \in SrvType
    BY <2>4, <1>a, <1>b DEF SrvType
  <2>6. /\ srv'.at = "read" /\ srv'.left = Size[kernel]
        /\ srv'.pos = srv.pos /\ srv'.md5 = srv.md5 /\ srv'.req = srv.req
    BY <1>a, <1>b DEF SrvType
  <2> QED
    BY <2>2, <2>3, <2>5, <2>6
<1>d. UNCHANGED <<kernel, client, pc, rebuilt>>
  BY DEF Handle
<1>1. Types'
  BY <1>c, <1>d DEF IInv, Types, client
<1>2. Serving'
  BY Sizes, <1>a, <1>c, <1>d DEF IInv, Serving, Types, SrvType, NetType, Stopped,
    client, GET_OS, GET_MD5
<1>3. Bounds'
  BY Sizes, <1>a, <1>c, <1>d DEF IInv, Bounds, Types, Stopped, client, GET_OS,
    GET_MD5
<1>4. Digest'
  BY Sizes, <1>a, <1>c, <1>d DEF IInv, Digest, Types, Serving, SrvType, NetType,
    client, GET_OS, GET_MD5
<1>5. Sent'
  BY Sizes, <1>a, <1>c, <1>d DEF IInv, Sent, Types, Serving, Bounds, SrvType,
    NetType, client, GET_OS, GET_MD5
<1>6. Placed'
  BY Sizes, <1>a, <1>c, <1>d DEF IInv, Placed, Making, Types, Holds, client, GET_OS, GET_MD5
<1>7. Disk'
  BY Sizes, <1>a, <1>c, <1>d DEF IInv, Disk, Making, Intact, Types, Running, Stopped, Fields,
    client, GET_OS, GET_MD5
<1>8. NotAgain'
  BY Sizes, <1>a, <1>c, <1>d DEF IInv, NotAgain, Types, Recognised, Holds, client,
    GET_OS, GET_MD5
<1> QED
  BY <1>1, <1>2, <1>3, <1>4, <1>5, <1>6, <1>7, <1>8 DEF IInv

\* send_os sends a part of the file.
LEMMA SendStep ==
  ASSUME IInv, ReadFile, srv.req = GET_OS
  PROVE  IInv'
<1> DEFINE n == Share(srv.left)
           got == FileRead(srv.pos, n)
           old == net.data
           new == old \o got
<1>a. /\ srv.at = "read" /\ srv.left \in 1 .. Base /\ srv.pos \in Nat
      /\ srv \in SrvType /\ net \in NetType
      /\ Size[kernel] \in 2 .. Base /\ Base \in Nat
      /\ srv.pos + srv.left <= Base
  BY Sizes DEF ReadFile, IInv, Types, Serving, SrvType
<1>b. n \in 1 .. srv.left
  BY <1>a DEF Share, Least, READ_SIZE
<1>c. /\ got \in Seq(Block) /\ Len(got) \in Nat /\ Len(got) <= n
      /\ srv.pos + n <= Size[kernel] => Len(got) = n
      /\ \A i \in 1 .. Len(got) : got[i] = <<kernel, srv.pos + i>>
  <2> HIDE DEF n
  <2>1. kernel \in Versions /\ n \in Nat /\ srv.pos \in Nat
    BY <1>a, <1>b DEF IInv, Types
  <2>2. /\ FileRead(srv.pos, n) \in Seq(Block)
        /\ Len(FileRead(srv.pos, n)) <= n
        /\ srv.pos + n <= Size[kernel] => Len(FileRead(srv.pos, n)) = n
        /\ \A i \in 1 .. Len(FileRead(srv.pos, n)) :
             FileRead(srv.pos, n)[i] = <<kernel, srv.pos + i>>
    BY <2>1, FileReadFacts
  <2> QED
    BY <2>2
<1>d. old \in Seq(Block) /\ Len(old) \in Nat
  BY <1>a DEF SrvType, NetType
<1>e. /\ srv' = [srv EXCEPT !.left = @ - n, !.pos = @ + n]
      /\ net' = [net EXCEPT !.data = new]
      /\ UNCHANGED <<kernel, client, pc, rebuilt>>
  BY <1>a DEF ReadFile, GET_OS, GET_MD5
<1> HIDE DEF got, n
<1>f. /\ new \in Seq(Block) /\ Len(new) = Len(old) + Len(got)
      /\ \A i \in 1 .. Len(old) : new[i] = old[i]
      /\ \A i \in 1 .. Len(got) : new[Len(old) + i] = <<kernel, srv.pos + i>>
  <2>1. /\ new \in Seq(Block) /\ Len(new) = Len(old) + Len(got)
        /\ \A i \in 1 .. Len(old) + Len(got) :
             new[i] = IF i <= Len(old) THEN old[i] ELSE got[i - Len(old)]
    BY <1>c, <1>d, ConcatProperties
  <2> HIDE DEF new, old
  <2>2. \A i \in 1 .. Len(got) : new[Len(old) + i] = got[i]
    BY <2>1, <1>c, <1>d
  <2>3. \A i \in 1 .. Len(old) : new[i] = old[i]
    BY <2>1, <1>c, <1>d
  <2>4. \A i \in 1 .. Len(got) : got[i] = <<kernel, srv.pos + i>>
    BY <1>c
  <2> QED
    BY <2>1, <2>2, <2>3, <2>4
<1> HIDE DEF new
<1>g. srv'.left = srv.left - n /\ srv'.pos = srv.pos + n
  BY <1>a, <1>b, <1>e DEF SrvType
<1>h. srv'.left \in 0 .. Base /\ srv'.pos \in 0 .. Base
  BY <1>a, <1>b, <1>g
<1>i. /\ srv' \in SrvType /\ net' \in NetType
      /\ srv'.at = "read" /\ srv'.req = srv.req
      /\ net'.data = new /\ srv'.md5 = srv.md5 /\ net'.head = net.head
  BY <1>a, <1>e, <1>f, <1>g, <1>h DEF SrvType, NetType
<1>1. Types'
  BY <1>i, <1>e DEF IInv, Types, client
<1>2. Serving'
  <2>1. /\ pc \in {"size", "boot", "chunk"} /\ srv.req = GET_OS
        /\ srv.pos + srv.left \in 2 .. Base /\ Len(srv.md5) <= srv.pos
        /\ Len(net.data) <= srv.pos /\ net.head # 1
    BY <1>a DEF IInv, Serving, GET_OS, GET_MD5
  <2>2. srv.md5 \in Seq(Block) /\ Len(srv.md5) \in Nat
    BY <1>a DEF SrvType
  <2>3. /\ srv'.pos + srv'.left = srv.pos + srv.left
        /\ Len(net'.data) <= srv'.pos /\ Len(srv'.md5) <= srv'.pos
        /\ Len(net'.data) <= Base
    <3>1. /\ Len(net'.data) = Len(net.data) + Len(got) /\ srv'.md5 = srv.md5
          /\ Len(net.data) \in Nat
      BY <1>d, <1>f, <1>i
    <3>2. Len(got) \in Nat /\ Len(got) <= n
      BY <1>c
    <3>3. /\ srv.left \in Nat /\ srv.pos \in Nat /\ n \in Nat /\ n <= srv.left
          /\ Base \in Nat /\ srv.pos + srv.left <= Base
      BY <1>a, <1>b
    <3>4. Len(net.data) <= srv.pos /\ Len(srv.md5) <= srv.pos
      BY <2>1
    <3>5. Len(net'.data) \in Nat /\ Len(net'.data) <= srv.pos + n
      BY <3>1, <3>2, <3>3, <3>4
    <3>6. srv'.pos = srv.pos + n /\ srv'.left = srv.left - n
      BY <1>g
    <3>7. Len(srv.md5) \in Nat /\ srv'.md5 = srv.md5
      BY <2>2, <3>1
    <3> HIDE DEF n, new, old
    <3> QED
      BY <3>3, <3>4, <3>5, <3>6, <3>7
  <2> QED
    BY <2>1, <2>3, <1>e, <1>i DEF Serving
<1>3. Bounds'
  BY Sizes, <1>a, <1>b, <1>c, <1>d, <1>e, <1>f, <1>g, <1>i DEF IInv, Bounds, Types,
    Stopped, client, GET_OS, GET_MD5
<1>4. Digest'
  BY Sizes, <1>a, <1>b, <1>c, <1>d, <1>e, <1>f, <1>g, <1>i DEF IInv, Digest, Types,
    Serving, SrvType, NetType, client, GET_OS, GET_MD5
<1>5. Sent'
  <2> SUFFICES ASSUME ~rebuilt, ~short, pc \in {"size", "boot", "chunk"}
               PROVE  /\ srv'.pos + srv'.left = Size[kernel]
                      /\ lba + Len(net'.data) = srv'.pos
                      /\ \A i \in 1 .. Len(net'.data) : net'.data[i] = <<kernel, lba + i>>
    BY <1>e, <1>i DEF IInv, Sent, client
  <2>1. /\ srv.pos + srv.left = Size[kernel] /\ lba + Len(net.data) = srv.pos
        /\ \A i \in 1 .. Len(net.data) : net.data[i] = <<kernel, lba + i>>
        /\ lba \in Nat
    BY <1>a, Sizes DEF IInv, Sent, Types
  <2>2. Len(got) = n
    BY <2>1, <1>a, <1>b, <1>c
  <2>3. ASSUME NEW i \in 1 .. Len(new) PROVE new[i] = <<kernel, lba + i>>
    <3>1. CASE i <= Len(net.data)
      <4>1. i \in 1 .. Len(old)
        BY <3>1, <1>c, <1>d, <1>f
      <4>2. new[i] = old[i]
        BY <4>1, <1>f
      <4> QED
        BY <2>1, <4>1, <4>2
    <3>2. CASE i > Len(net.data)
      <4> DEFINE j == i - Len(net.data)
      <4>1. j \in 1 .. Len(got) /\ Len(old) + j = i /\ srv.pos + j = lba + i
        BY <2>1, <3>2, <1>a, <1>c, <1>d, <1>f
      <4>2. new[Len(old) + j] = <<kernel, srv.pos + j>>
        BY <4>1, <1>f
      <4> QED
        BY <4>1, <4>2
    <3> QED
      BY <3>1, <3>2, <1>c, <1>d, <1>f
  <2>4. Len(new) = Len(net.data) + n /\ Len(net.data) \in Nat /\ net'.data = new
    BY <2>2, <1>d, <1>f, <1>i
  <2>5. srv'.pos + srv'.left = Size[kernel] /\ lba + Len(new) = srv'.pos
    BY SMTT(30), <2>1, <2>4, <1>a, <1>b, <1>g
  <2> QED
    BY <2>3, <2>4, <2>5
<1>6. Placed'
  BY Sizes, <1>a, <1>b, <1>c, <1>d, <1>e, <1>f, <1>g, <1>i DEF IInv, Placed, Making, Types,
    Holds, client, GET_OS, GET_MD5
<1>7. Disk'
  BY Sizes, <1>a, <1>b, <1>c, <1>d, <1>e, <1>f, <1>g, <1>i DEF IInv, Disk, Making, Intact, Types,
    Running, Stopped, Fields, client, GET_OS, GET_MD5
<1>8. NotAgain'
  BY Sizes, <1>a, <1>b, <1>c, <1>d, <1>e, <1>f, <1>g, <1>i DEF IInv, NotAgain,
    Types, Recognised, Holds, client, GET_OS, GET_MD5
<1> QED
  BY <1>1, <1>2, <1>3, <1>4, <1>5, <1>6, <1>7, <1>8 DEF IInv

\* send_md5 hashes a part of the file.
LEMMA HashStep ==
  ASSUME IInv, ReadFile, srv.req = GET_MD5
  PROVE  IInv'
<1> DEFINE n == Share(srv.left)
           got == FileRead(srv.pos, n)
           old == srv.md5
           new == old \o got
<1>a. /\ srv.at = "read" /\ srv.left \in 1 .. Base /\ srv.pos \in Nat
      /\ srv \in SrvType /\ net \in NetType
      /\ Size[kernel] \in 2 .. Base /\ Base \in Nat
      /\ srv.pos + srv.left <= Base
  BY Sizes DEF ReadFile, IInv, Types, Serving, SrvType
<1>b. n \in 1 .. srv.left
  BY <1>a DEF Share, Least, READ_SIZE
<1>c. /\ got \in Seq(Block) /\ Len(got) \in Nat /\ Len(got) <= n
      /\ srv.pos + n <= Size[kernel] => Len(got) = n
      /\ \A i \in 1 .. Len(got) : got[i] = <<kernel, srv.pos + i>>
  <2> HIDE DEF n
  <2>1. kernel \in Versions /\ n \in Nat /\ srv.pos \in Nat
    BY <1>a, <1>b DEF IInv, Types
  <2>2. /\ FileRead(srv.pos, n) \in Seq(Block)
        /\ Len(FileRead(srv.pos, n)) <= n
        /\ srv.pos + n <= Size[kernel] => Len(FileRead(srv.pos, n)) = n
        /\ \A i \in 1 .. Len(FileRead(srv.pos, n)) :
             FileRead(srv.pos, n)[i] = <<kernel, srv.pos + i>>
    BY <2>1, FileReadFacts
  <2> QED
    BY <2>2
<1>d. old \in Seq(Block) /\ Len(old) \in Nat
  BY <1>a DEF SrvType, NetType
<1>e. /\ srv' = [srv EXCEPT !.left = @ - n, !.pos = @ + n, !.md5 = new]
      /\ net' = net
      /\ UNCHANGED <<kernel, client, pc, rebuilt>>
  BY <1>a DEF ReadFile, GET_OS, GET_MD5
<1> HIDE DEF got, n
<1>f. /\ new \in Seq(Block) /\ Len(new) = Len(old) + Len(got)
      /\ \A i \in 1 .. Len(old) : new[i] = old[i]
      /\ \A i \in 1 .. Len(got) : new[Len(old) + i] = <<kernel, srv.pos + i>>
  <2>1. /\ new \in Seq(Block) /\ Len(new) = Len(old) + Len(got)
        /\ \A i \in 1 .. Len(old) + Len(got) :
             new[i] = IF i <= Len(old) THEN old[i] ELSE got[i - Len(old)]
    BY <1>c, <1>d, ConcatProperties
  <2> HIDE DEF new, old
  <2>2. \A i \in 1 .. Len(got) : new[Len(old) + i] = got[i]
    BY <2>1, <1>c, <1>d
  <2>3. \A i \in 1 .. Len(old) : new[i] = old[i]
    BY <2>1, <1>c, <1>d
  <2>4. \A i \in 1 .. Len(got) : got[i] = <<kernel, srv.pos + i>>
    BY <1>c
  <2> QED
    BY <2>1, <2>2, <2>3, <2>4
<1> HIDE DEF new
<1>g. srv'.left = srv.left - n /\ srv'.pos = srv.pos + n
  BY <1>a, <1>b, <1>e DEF SrvType
<1>h. srv'.left \in 0 .. Base /\ srv'.pos \in 0 .. Base
  BY <1>a, <1>b, <1>g
<1>i. /\ srv' \in SrvType /\ net' \in NetType
      /\ srv'.at = "read" /\ srv'.req = srv.req
      /\ srv'.md5 = new /\ net' = net
  BY <1>a, <1>e, <1>f, <1>g, <1>h DEF SrvType, NetType
<1>1. Types'
  BY <1>i, <1>e DEF IInv, Types, client
<1>2. Serving'
  <2>1. /\ pc = "hash" /\ net.head = 0 /\ net.data = <<>>
        /\ srv.pos + srv.left \in 2 .. Base /\ Len(srv.md5) <= srv.pos
    BY <1>a DEF IInv, Serving, GET_OS, GET_MD5
  <2>2. /\ srv'.pos + srv'.left = srv.pos + srv.left
        /\ Len(net'.data) <= srv'.pos /\ Len(srv'.md5) <= srv'.pos
        /\ Len(net'.data) <= Base
    <3>1. /\ Len(srv'.md5) = Len(srv.md5) + Len(got) /\ net'.data = <<>>
          /\ Len(srv.md5) \in Nat
      BY <2>1, <1>d, <1>f, <1>i
    <3>2. Len(got) \in Nat /\ Len(got) <= n /\ Len(<<>>) = 0
      BY <1>c
    <3> QED
      BY SMTT(30), <2>1, <3>1, <3>2, <1>a, <1>b, <1>g
  <2> QED
    BY <2>1, <2>2, <1>e, <1>i DEF Serving
<1>3. Bounds'
  BY Sizes, <1>a, <1>b, <1>c, <1>d, <1>e, <1>f, <1>g, <1>i DEF IInv, Bounds, Types,
    Stopped, client, GET_OS, GET_MD5
<1>4. Digest'
  <2> SUFFICES ASSUME pc = "hash", ~rebuilt
               PROVE  /\ srv'.pos + srv'.left = Size[kernel]
                      /\ Len(srv'.md5) = srv'.pos
                      /\ \A i \in 1 .. srv'.pos : srv'.md5[i] = <<kernel, i>>
    BY <1>e, <1>i DEF IInv, Digest
  <2>1. /\ srv.pos + srv.left = Size[kernel] /\ Len(srv.md5) = srv.pos
        /\ \A i \in 1 .. srv.pos : srv.md5[i] = <<kernel, i>>
    BY <1>a DEF IInv, Digest
  <2>2. Len(got) = n
    BY <2>1, <1>a, <1>b, <1>c
  <2>3. ASSUME NEW i \in 1 .. Len(new) PROVE new[i] = <<kernel, i>>
    <3>1. CASE i <= srv.pos
      BY <2>1, <3>1, <1>d, <1>f
    <3>2. CASE i > srv.pos
      <4> DEFINE j == i - srv.pos
      <4>1. j \in 1 .. Len(got) /\ Len(old) + j = i /\ srv.pos + j = i
        BY SMTT(30), <2>1, <3>2, <1>a, <1>c, <1>d, <1>f
      <4>2. new[Len(old) + j] = <<kernel, srv.pos + j>>
        BY <4>1, <1>f
      <4> QED
        BY <4>1, <4>2
    <3> QED
      BY <3>1, <3>2, <1>a, <1>c, <1>d, <1>f
  <2> QED
    BY SMTT(30), <2>1, <2>2, <2>3, <1>a, <1>b, <1>d, <1>f, <1>g, <1>i
<1>5. Sent'
  BY Sizes, <1>a, <1>b, <1>c, <1>d, <1>e, <1>f, <1>g, <1>i DEF IInv, Sent, Types,
    Serving, Bounds, SrvType, NetType, client, GET_OS, GET_MD5
<1>6. Placed'
  BY Sizes, <1>a, <1>b, <1>c, <1>d, <1>e, <1>f, <1>g, <1>i DEF IInv, Placed, Making, Types,
    Holds, client, GET_OS, GET_MD5
<1>7. Disk'
  BY Sizes, <1>a, <1>b, <1>c, <1>d, <1>e, <1>f, <1>g, <1>i DEF IInv, Disk, Making, Intact, Types,
    Running, Stopped, Fields, client, GET_OS, GET_MD5
<1>8. NotAgain'
  BY Sizes, <1>a, <1>b, <1>c, <1>d, <1>e, <1>f, <1>g, <1>i DEF IInv, NotAgain,
    Types, Recognised, Holds, client, GET_OS, GET_MD5
<1> QED
  BY <1>1, <1>2, <1>3, <1>4, <1>5, <1>6, <1>7, <1>8 DEF IInv

\* send_os is through; the connection is closed.
LEMMA SentStep ==
  ASSUME IInv, Answer, srv.req = GET_OS
  PROVE  IInv'
<1>a. /\ srv.at = "read" /\ srv.left = 0
      /\ srv \in SrvType /\ net \in NetType
      /\ Size[kernel] \in 2 .. Base /\ Base \in Nat
      /\ srv.pos + srv.left \in 2 .. Base
  BY Sizes DEF Answer, IInv, Types, Serving, SrvType
<1>b. /\ srv' = Idle
      /\ net' = [net EXCEPT !.open = FALSE]
      /\ UNCHANGED <<kernel, client, pc, rebuilt>>
  BY <1>a DEF Answer, GET_OS, GET_MD5
<1>c. /\ srv' \in SrvType /\ srv'.at = "idle" /\ net' \in NetType
      /\ net'.head = net.head /\ net'.data = net.data
  BY <1>a, <1>b, IdleFacts DEF Idle, SrvType, NetType
<1>1. Types'
  BY <1>b, <1>c DEF IInv, Types, client
<1>2. Serving'
  BY Sizes, <1>a, <1>b, <1>c DEF IInv, Serving, Types, SrvType, NetType, Stopped,
    client, GET_OS, GET_MD5
<1>3. Bounds'
  BY Sizes, <1>a, <1>b, <1>c DEF IInv, Bounds, Types, Stopped, client, GET_OS,
    GET_MD5
<1>4. Digest'
  BY Sizes, <1>a, <1>b, <1>c DEF IInv, Digest, Types, Serving, SrvType, NetType,
    client, GET_OS, GET_MD5
<1>5. Sent'
  BY Sizes, <1>a, <1>b, <1>c DEF IInv, Sent, Types, Serving, Bounds, SrvType,
    NetType, client, GET_OS, GET_MD5
<1>6. Placed'
  BY Sizes, <1>a, <1>b, <1>c DEF IInv, Placed, Making, Types, Holds, client, GET_OS, GET_MD5
<1>7. Disk'
  BY Sizes, <1>a, <1>b, <1>c DEF IInv, Disk, Making, Intact, Types, Running, Stopped, Fields,
    client, GET_OS, GET_MD5
<1>8. NotAgain'
  BY Sizes, <1>a, <1>b, <1>c DEF IInv, NotAgain, Types, Recognised, Holds, client,
    GET_OS, GET_MD5
<1> QED
  BY <1>1, <1>2, <1>3, <1>4, <1>5, <1>6, <1>7, <1>8 DEF IInv

\* send_md5 sends the digest of the whole file.
LEMMA AnswerStep ==
  ASSUME IInv, Answer, srv.req = GET_MD5
  PROVE  IInv'
<1>a. /\ srv.at = "read" /\ srv.left = 0
      /\ srv \in SrvType /\ net \in NetType
      /\ Size[kernel] \in 2 .. Base /\ Base \in Nat
      /\ srv.pos + srv.left \in 2 .. Base
  BY Sizes DEF Answer, IInv, Types, Serving, SrvType
<1>b. /\ srv' = Idle
      /\ net' = [open |-> FALSE, head |-> srv.pos, data |-> srv.md5]
      /\ UNCHANGED <<kernel, client, pc, rebuilt>>
  BY <1>a DEF Answer, GET_OS, GET_MD5
<1>c. /\ srv' \in SrvType /\ srv'.at = "idle" /\ net' \in NetType
      /\ net'.head = srv.pos /\ net'.data = srv.md5
  BY <1>a, <1>b, IdleFacts DEF Idle, SrvType, NetType
<1>1. Types'
  BY <1>b, <1>c DEF IInv, Types, client
<1>2. Serving'
  BY Sizes, <1>a, <1>b, <1>c DEF IInv, Serving, Types, SrvType, NetType, Stopped,
    client, GET_OS, GET_MD5
<1>3. Bounds'
  BY Sizes, <1>a, <1>b, <1>c DEF IInv, Bounds, Types, Stopped, client, GET_OS,
    GET_MD5
<1>4. Digest'
  BY Sizes, <1>a, <1>b, <1>c DEF IInv, Digest, Types, Serving, SrvType, NetType,
    client, GET_OS, GET_MD5
<1>5. Sent'
  BY Sizes, <1>a, <1>b, <1>c DEF IInv, Sent, Types, Serving, Bounds, SrvType,
    NetType, client, GET_OS, GET_MD5
<1>6. Placed'
  BY Sizes, <1>a, <1>b, <1>c DEF IInv, Placed, Making, Types, Holds, client, GET_OS, GET_MD5
<1>7. Disk'
  BY Sizes, <1>a, <1>b, <1>c DEF IInv, Disk, Making, Intact, Types, Running, Stopped, Fields,
    client, GET_OS, GET_MD5
<1>8. NotAgain'
  BY Sizes, <1>a, <1>b, <1>c DEF IInv, NotAgain, Types, Recognised, Holds, client,
    GET_OS, GET_MD5
<1> QED
  BY <1>1, <1>2, <1>3, <1>4, <1>5, <1>6, <1>7, <1>8 DEF IInv

\* What is written over the fields takes fields away.
LEMMA OverlaidFacts ==
  ASSUME boot \in Fields, NEW b \in Overlaid
  PROVE  /\ b \in Fields /\ b.base = boot.base
         /\ b.sign => boot.sign
<1>1. 0 \in Lbas /\ Base \in Nat
  BY Sizes DEF Lbas
<1> HIDE DEF Lbas
<1> QED
  BY <1>1 DEF Overlaid, Fields

\* The first receive where EdenFS is: the device's fields stay.
LEMMA BootChunkStep ==
  ASSUME IInv, BootChunk
  PROVE  IInv' /\ (boot.sign /\ home = Base => Untouched)
<1>a. /\ pc = "boot" /\ lba = 0 /\ len >= 2 /\ net \in NetType /\ dev \in [Lbas -> Cell]
      /\ Base \in Nat /\ Base >= 2 /\ Size[kernel] \in 2 .. Base
      /\ len \in Nat /\ lba \in Nat /\ lba + len <= Base /\ Len(net.data) \in Nat
  BY Sizes DEF BootChunk, IInv, Types, Bounds, NetType, Lbas
<1> DEFINE n == RECV_LEN
<1>b. PICK k \in 0 .. n, torn \in BOOLEAN :
        /\ Recv(n, k, torn)
        /\ dev' = IF k = 0 THEN [dev EXCEPT ![0] = Junk] ELSE Stored(0, k, torn)
        /\ IF torn
           THEN boot' \in Overlaid \cup {[boot EXCEPT !.base = Base]}
           ELSE boot' = [boot EXCEPT !.base = IF k = 0 THEN @ ELSE Base]
        /\ damaged' = (damaged \/ torn)
  BY DEF BootChunk
<1>c. n \in Nat /\ n = 2 /\ n <= len
  BY <1>a DEF RECV_LEN
<1> HIDE DEF n
<1>d. /\ net' \in NetType /\ short' \in BOOLEAN
      /\ k <= Len(net.data)
      /\ net'.head = net.head
      /\ Len(net'.data) = Len(net.data) - k
      /\ \A i \in 1 .. Len(net'.data) : net'.data[i] = net.data[k + i]
      /\ ~short' => ~short /\ k = n /\ ~torn
      /\ torn => short' /\ k > 0
  BY <1>a, <1>b, <1>c, RecvFacts DEF IInv, Types
<1>e. /\ Stored(lba, k, torn) \in [Lbas -> Cell]
      /\ \A b \in Lbas : b < lba \/ b >= lba + k => Stored(lba, k, torn)[b] = dev[b]
      /\ ~torn => \A i \in 1 .. k : Stored(lba, k, torn)[lba + i - 1] = net.data[i]
  <2>1. lba + k <= Base
    BY <1>a, <1>b, <1>c
  <2>2. k \in Nat /\ lba \in Nat /\ torn \in BOOLEAN
    BY <1>a, <1>b, <1>c
  <2>3. k <= Len(net.data) /\ net \in NetType /\ dev \in [Lbas -> Cell]
    BY <1>a, <1>d
  <2> QED
    BY <2>1, <2>2, <2>3, StoredFacts
<1>f. /\ pc' = "chunk" /\ lba' = lba + n /\ len' = len - n
      /\ UNCHANGED <<kernel, srv, fs, rebuilt, stale, home>>
      /\ k > 0 => dev' = Stored(lba, k, torn)
  BY <1>a, <1>b, <1>c DEF BootChunk, RECV_LEN, n
<1>g. /\ boot' \in Fields
      /\ ~torn => boot' = [boot EXCEPT !.base = boot'.base]
      /\ boot'.base \in {boot.base, Base}
      /\ ~torn /\ k > 0 => boot'.base = Base
  <2>1. boot \in Fields /\ Base \in 0 .. Base /\ 0 \in Lbas
    BY <1>a DEF IInv, Types, Lbas
  <2> HIDE DEF Lbas
  <2>2. CASE torn
    BY <2>1, <2>2, <1>b, OverlaidFacts DEF Fields
  <2>3. CASE ~torn
    <3>1. boot' = [boot EXCEPT !.base = IF k = 0 THEN boot.base ELSE Base]
      BY <2>3, <1>b
    <3> QED
      BY <2>1, <2>3, <3>1, <1>b, <1>c DEF Fields
  <2> QED
    BY <2>2, <2>3
<1>h. /\ dev' \in [Lbas -> Cell]
      /\ \A b \in Lbas : b >= 2 => dev'[b] = dev[b]
  <2>1. Junk \in Cell /\ 0 \in Lbas /\ \A b \in Lbas : b \in Nat
    BY <1>a DEF Cell, Lbas
  <2> HIDE DEF Cell, Junk, Lbas
  <2>2. CASE k = 0
    BY <2>1, <2>2, <1>a, <1>b
  <2>3. CASE k > 0
    BY <2>1, <2>3, <1>a, <1>b, <1>c, <1>e, <1>f
  <2> QED
    BY <2>2, <2>3, <1>b, <1>c
<1>i. damaged' \in BOOLEAN /\ (~damaged' => ~damaged /\ ~torn)
  BY <1>b DEF IInv, Types
<1>1. Types'
  <2>1. len' \in 0 .. Base /\ lba' \in 0 .. Base
    BY <1>a, <1>c, <1>f
  <2>2. dev'[Base] = dev[Base] /\ dev'[Base + 1] = dev[Base + 1]
    BY <1>a, <1>h DEF Lbas
  <2> QED
    BY <2>1, <2>2, <1>d, <1>f, <1>g, <1>h, <1>i DEF IInv, Types, Running
<1>2. Serving'
  <2>1. Len(net'.data) <= Len(net.data) /\ Len(net'.data) \in Nat
    BY <1>a, <1>b, <1>c, <1>d
  <2>2. srv.pos \in Nat
    BY DEF IInv, Types, SrvType
  <2> QED
    BY SMTT(30), <2>1, <2>2, <1>a, <1>d, <1>f DEF IInv, Serving
<1>3. Bounds'
  BY <1>a, <1>c, <1>f DEF Bounds
<1>4. Digest'
  BY <1>f DEF Digest
<1>5. Sent'
  <2> SUFFICES ASSUME ~rebuilt, ~short'
               PROVE  Sent'
    BY <1>f DEF Sent
  <2>1. ~short /\ k = n /\ ~torn
    BY <1>d
  <2>2. /\ \A i \in 1 .. Len(net.data) : net.data[i] = <<kernel, lba + i>>
        /\ lba + len = Size[kernel]
        /\ \A i \in 1 .. lba : dev[i - 1] = <<kernel, i>>
        /\ net.head > 0 => net.head = Size[kernel]
        /\ lba > 0 => boot.base = Base
        /\ srv.at = "read" => /\ srv.pos + srv.left = Size[kernel]
                              /\ lba + Len(net.data) = srv.pos
    BY <2>1, <1>a DEF IInv, Sent
  <2>0. dev' = Stored(lba, k, torn)
    BY <2>1, <1>b, <1>c, <1>f
  <2>3. ASSUME NEW i \in 1 .. lba + k PROVE dev'[i - 1] = <<kernel, i>>
    <3>1. i - 1 \in Lbas
      BY <1>a, <1>b, <1>c DEF Lbas
    <3>2. CASE i <= lba
      BY <2>1, <2>2, <3>1, <3>2, <1>a, <1>b, <1>c, <1>e, <2>0
    <3>3. CASE i > lba
      <4> DEFINE j == i - lba
      <4>1. j \in 1 .. k /\ lba + j = i /\ j \in 1 .. Len(net.data)
        BY <3>3, <1>a, <1>b, <1>c, <1>d
      <4>3. lba + j - 1 = i - 1
        BY <4>1, <1>a
      <4>2. dev'[lba + j - 1] = net.data[j] /\ net.data[j] = <<kernel, lba + j>>
        BY <4>1, <2>1, <2>2, <1>b, <1>e, <2>0
      <4> HIDE DEF j
      <4> QED
        BY <4>1, <4>2, <4>3
    <3> QED
      BY <3>2, <3>3, <1>a, <1>b, <1>c
  <2>4. ASSUME NEW i \in 1 .. Len(net'.data) PROVE net'.data[i] = <<kernel, lba' + i>>
    <3>1. k + i \in 1 .. Len(net.data) /\ lba + (k + i) = lba' + i
      BY <2>1, <1>a, <1>b, <1>c, <1>d, <1>f
    <3>2. net.data[k + i] = <<kernel, lba + (k + i)>> /\ net'.data[i] = net.data[k + i]
      BY <3>1, <2>2, <1>d
    <3> QED
      BY <3>1, <3>2
  <2>5. lba' = lba + k /\ len' = len - k
    BY <2>1, <1>b, <1>f
  <2>6. lba' + len' = Size[kernel]
    BY <2>2, <2>5, <1>a, <1>b, <1>c
  <2>7. srv.at = "read" => lba' + Len(net'.data) = srv.pos
    BY <2>2, <2>5, <1>a, <1>b, <1>c, <1>d
  <2>8. lba' > 0 => boot'.base = Base
    BY <2>1, <2>2, <2>5, <1>a, <1>b, <1>c, <1>g
  <2>9. /\ srv' = srv /\ kernel' = kernel /\ net'.head = net.head
        /\ \A i \in 1 .. lba' : dev'[i - 1] = <<kernel, i>>
    BY <2>3, <2>5, <1>d, <1>f
  <2> QED
    BY <2>2, <2>4, <2>6, <2>7, <2>8, <2>9 DEF Sent
<1>6. Placed'
  BY <1>f DEF Placed, Making
<1>7. Disk'
  <2>1. Base \in Lbas /\ Base + 1 \in Lbas
    BY <1>a DEF Lbas
  <2>2. dev'[Base] = dev[Base] /\ dev'[Base + 1] = dev[Base + 1]
    BY <2>1, <1>a, <1>h
  <2>3. lba' # 0
    BY <1>a, <1>c, <1>f
  <2> QED
    <3>1. Intact' => Intact /\ ~torn
      BY <1>f, <1>i DEF Intact
    <3>2. boot \in Fields
      BY DEF IInv, Types
    <3>3. ~torn => boot'.sign = boot.sign /\ boot'.made = boot.made /\ boot'.root = boot.root
      BY <3>2, <1>g DEF Fields
    <3> HIDE DEF n
    <3> QED
      BY <3>1, <3>3, <2>2, <2>3, <1>a, <1>f, <1>g DEF IInv, Disk, Making, Running
<1>8. NotAgain'
  BY <1>f DEF NotAgain, Recognised
<1>9. boot.sign /\ home = Base => Untouched
  <2>1. \A l \in Base .. Base + 1 : l \in Lbas /\ l >= 2
    BY <1>a DEF Lbas
  <2> QED
    BY <2>1, <1>d, <1>g, <1>h DEF Untouched
<1> QED
  BY <1>1, <1>2, <1>3, <1>4, <1>5, <1>6, <1>7, <1>8, <1>9 DEF IInv

\* A receive of the loop.
LEMMA ChunkStep ==
  ASSUME IInv, Chunk
  PROVE  IInv' /\ (boot.sign /\ home = Base => Untouched)
<1>a. /\ pc = "chunk" /\ len > 0 /\ net \in NetType /\ dev \in [Lbas -> Cell]
      /\ Base \in Nat /\ Base >= 2 /\ Size[kernel] \in 2 .. Base
      /\ len \in Nat /\ lba \in Nat /\ lba + len <= Base /\ Len(net.data) \in Nat
  BY Sizes DEF Chunk, IInv, Types, Bounds, NetType, Lbas
<1> DEFINE n == Share(len)
<1>b. PICK k \in 0 .. n, torn \in BOOLEAN :
        /\ Recv(n, k, torn)
        /\ dev' = Stored(lba, k, torn)
        /\ IF lba > 0 \/ k = 0 THEN UNCHANGED boot
           ELSE IF torn
           THEN boot' \in Overlaid \cup {ImageFields}
           ELSE boot' = ImageFields
  BY DEF Chunk
<1>c. n \in Nat /\ n >= 1 /\ n <= len
  BY <1>a DEF Share, Least, READ_SIZE
<1>f. /\ pc' = "chunk" /\ lba' = lba + n /\ len' = len - n
      /\ UNCHANGED <<kernel, srv, fs, rebuilt, stale, home, damaged>>
      /\ pc = "chunk"
  BY <1>a DEF Chunk
<1> HIDE DEF n
<1>d. /\ net' \in NetType /\ short' \in BOOLEAN
      /\ k <= Len(net.data)
      /\ net'.head = net.head
      /\ Len(net'.data) = Len(net.data) - k
      /\ \A i \in 1 .. Len(net'.data) : net'.data[i] = net.data[k + i]
      /\ ~short' => ~short /\ k = n /\ ~torn
      /\ torn => short' /\ k > 0
  BY <1>a, <1>b, <1>c, RecvFacts DEF IInv, Types
<1>e. /\ Stored(lba, k, torn) \in [Lbas -> Cell]
      /\ \A b \in Lbas : b < lba \/ b >= lba + k => Stored(lba, k, torn)[b] = dev[b]
      /\ ~torn => \A i \in 1 .. k : Stored(lba, k, torn)[lba + i - 1] = net.data[i]
  <2>1. lba + k <= Base
    BY <1>a, <1>b, <1>c
  <2>2. k \in Nat /\ lba \in Nat /\ torn \in BOOLEAN
    BY <1>a, <1>b, <1>c
  <2>3. k <= Len(net.data) /\ net \in NetType /\ dev \in [Lbas -> Cell]
    BY <1>a, <1>d
  <2> QED
    BY <2>1, <2>2, <2>3, StoredFacts
<1>g. /\ boot' \in Fields
      /\ lba > 0 => boot' = boot
      /\ lba = 0 => ~boot'.sign
      /\ boot'.base \in {boot.base, Base}
      /\ ~torn /\ k > 0 => boot'.base = Base \/ lba > 0
  <2>1. boot \in Fields /\ Base \in 0 .. Base /\ 0 \in Lbas
    BY <1>a DEF IInv, Types, Lbas
  <2>2. lba = 0 => ~boot.sign
    BY <1>f DEF IInv, Disk
  <2> HIDE DEF Lbas
  <2>3. ImageFields \in Fields /\ ~ImageFields.sign /\ ImageFields.base = Base
    BY <2>1 DEF Fields, ImageFields
  <2>4. CASE lba > 0 \/ k = 0
    <3>1. boot' = boot
      BY <2>4, <1>b
    <3>2. ~torn /\ k > 0 => lba > 0
      BY <2>4
    <3> QED
      BY <2>1, <2>2, <3>1, <3>2
  <2>5. CASE ~(lba > 0 \/ k = 0) /\ torn
    BY <2>1, <2>2, <2>5, <2>3, <1>a, <1>b, OverlaidFacts
  <2>6. CASE ~(lba > 0 \/ k = 0) /\ ~torn
    BY <2>6, <2>3, <1>b
  <2> QED
    BY <2>4, <2>5, <2>6
<1>h. dev' \in [Lbas -> Cell] /\ dev'[Base] = dev[Base] /\ dev'[Base + 1] = dev[Base + 1]
  BY <1>a, <1>b, <1>c, <1>e DEF Lbas
<1>1. Types'
  <2>1. len' \in 0 .. Base /\ lba' \in 0 .. Base
    BY <1>a, <1>c, <1>f
  <2> QED
    BY <2>1, <1>d, <1>f, <1>g, <1>h DEF IInv, Types, Running
<1>2. Serving'
  <2>1. Len(net'.data) <= Len(net.data) /\ Len(net'.data) \in Nat
    BY <1>a, <1>b, <1>c, <1>d
  <2>2. srv.pos \in Nat
    BY DEF IInv, Types, SrvType
  <2> QED
    BY SMTT(30), <2>1, <2>2, <1>a, <1>d, <1>f DEF IInv, Serving
<1>3. Bounds'
  BY <1>a, <1>c, <1>f DEF Bounds
<1>4. Digest'
  BY <1>f DEF Digest
<1>5. Sent'
  <2> SUFFICES ASSUME ~rebuilt, ~short'
               PROVE  Sent'
    BY <1>f DEF Sent
  <2>1. ~short /\ k = n /\ ~torn
    BY <1>d
  <2>2. /\ \A i \in 1 .. Len(net.data) : net.data[i] = <<kernel, lba + i>>
        /\ lba + len = Size[kernel]
        /\ \A i \in 1 .. lba : dev[i - 1] = <<kernel, i>>
        /\ net.head > 0 => net.head = Size[kernel]
        /\ lba > 0 => boot.base = Base
        /\ srv.at = "read" => /\ srv.pos + srv.left = Size[kernel]
                              /\ lba + Len(net.data) = srv.pos
    BY <2>1, <1>a DEF IInv, Sent
  <2>3. ASSUME NEW i \in 1 .. lba + k PROVE dev'[i - 1] = <<kernel, i>>
    <3>1. i - 1 \in Lbas
      BY <1>a, <1>b, <1>c DEF Lbas
    <3>2. CASE i <= lba
      <4>1. i - 1 < lba /\ i \in 1 .. lba
        BY <3>2, <1>a
      <4>2. dev'[i - 1] = dev[i - 1]
        BY <4>1, <3>1, <1>b, <1>e
      <4> QED
        BY <4>1, <4>2, <2>2
    <3>3. CASE i > lba
      <4> DEFINE j == i - lba
      <4>1. j \in 1 .. k /\ lba + j = i /\ j \in 1 .. Len(net.data)
        BY <3>3, <1>a, <1>b, <1>c, <1>d
      <4>3. lba + j - 1 = i - 1
        BY <4>1, <1>a
      <4>2. dev'[lba + j - 1] = net.data[j] /\ net.data[j] = <<kernel, lba + j>>
        BY <4>1, <2>1, <2>2, <1>b, <1>e
      <4> HIDE DEF j
      <4> QED
        BY <4>1, <4>2, <4>3
    <3> QED
      BY <3>2, <3>3, <1>a, <1>b, <1>c
  <2>4. ASSUME NEW i \in 1 .. Len(net'.data) PROVE net'.data[i] = <<kernel, lba' + i>>
    <3>1. k + i \in 1 .. Len(net.data) /\ lba + (k + i) = lba' + i
      BY SMTT(30), <2>1, <1>a, <1>b, <1>c, <1>d, <1>f
    <3>2. net.data[k + i] = <<kernel, lba + (k + i)>> /\ net'.data[i] = net.data[k + i]
      BY <3>1, <2>2, <1>d
    <3> QED
      BY <3>1, <3>2
  <2>5. lba' = lba + k /\ len' = len - k
    BY <2>1, <1>b, <1>f
  <2>6. lba' + len' = Size[kernel]
    BY <2>2, <2>5, <1>a, <1>b, <1>c
  <2>7. srv.at = "read" => lba' + Len(net'.data) = srv.pos
    <3>1. Len(net'.data) = Len(net.data) - k /\ k \in Nat
      BY <1>b, <1>c, <1>d
    <3>2. srv.at = "read" => lba + Len(net.data) = srv.pos
      BY <2>2
    <3>3. lba \in Nat /\ Len(net.data) \in Nat
      BY <1>a
    <3>4. lba' + Len(net'.data) = lba + Len(net.data)
      <4>1. lba' = lba + k /\ Len(net'.data) = Len(net.data) - k
        BY <3>1, <2>5
      <4>2. (lba + k) + (Len(net.data) - k) = lba + Len(net.data)
        BY <3>1, <3>3, Shifted
      <4> QED
        BY <4>1, <4>2
    <3> QED
      BY <3>2, <3>4
  <2>8. lba' > 0 => boot'.base = Base
    BY <2>1, <2>2, <2>5, <1>a, <1>b, <1>c, <1>g
  <2>9. /\ srv' = srv /\ kernel' = kernel /\ net'.head = net.head
        /\ \A i \in 1 .. lba' : dev'[i - 1] = <<kernel, i>>
    BY <2>3, <2>5, <1>d, <1>f
  <2> QED
    BY <2>2, <2>4, <2>6, <2>7, <2>8, <2>9 DEF Sent
<1>6. Placed'
  BY <1>f DEF Placed, Making
<1>7. Disk'
  <2>1. lba' # 0
    BY <1>a, <1>c, <1>f
  <2>2. lba > 0 \/ lba = 0
    BY <1>a
  <2> QED
    <3>1. Intact' = Intact
      BY <1>f DEF Intact
    <3>2. pc \notin Making \cup {"format"} /\ pc' \notin Making \cup {"format"}
      BY <1>f DEF Making
    <3> HIDE DEF n
    <3> QED
      BY <3>1, <3>2, <2>1, <2>2, <1>a, <1>f, <1>g, <1>h DEF IInv, Disk, Running, Making
<1>8. NotAgain'
  BY <1>f DEF NotAgain, Recognised
<1>9. boot.sign /\ home = Base => Untouched
  <2>1. boot.sign => lba > 0
    BY <1>a, <1>f DEF IInv, Disk
  <2>2. \A l \in Base .. Base + 1 : l = Base \/ l = Base + 1
    BY <1>a
  <2>3. boot = [boot EXCEPT !.base = boot.base]
    BY DEF IInv, Types, Fields
  <2> QED
    BY <2>1, <2>2, <2>3, <1>g, <1>h DEF Untouched
<1> QED
  BY <1>1, <1>2, <1>3, <1>4, <1>5, <1>6, <1>7, <1>8, <1>9 DEF IInv

----------------------------------------------------------------------------
\* The invariant holds at first, every step keeps it.
LEMMA Invariance == Spec => []IInv
<1>1. Init => IInv
  <2> SUFFICES ASSUME Init PROVE IInv
    OBVIOUS
  <2>1. Types
    <3>1. /\ Junk \in Cell /\ 0 \in Lbas /\ 0 \in 0 .. Base
          /\ \A b \in Bases : b \in 0 .. Base
      BY Sizes, SizesFit DEF Cell, Free, Lbas
    <3>2. boot \in Fields
      <4> HIDE DEF Lbas
      <4> QED
        BY <3>1 DEF Init, Fields
    <3>3. dev \in [Lbas -> Cell]
      <4> HIDE DEF Cell, Junk, Lbas
      <4> QED
        BY <3>1 DEF Init
    <3>4. dev[Base] \in Free /\ dev[Base + 1] \in Free
      BY Sizes DEF Init, Free, Lbas
    <3> QED
      BY <3>1, <3>2, <3>3, <3>4, IdleFacts DEF Init, Types, Stopped
  <2>2. boot.sign = FALSE
    BY DEF Init
  <2>3. Serving /\ Bounds
    BY Sizes DEF Init, Serving, Bounds, Idle, Closed
  <2>4. Digest /\ Sent /\ Placed /\ NotAgain
    BY DEF Init, Digest, Sent, Placed, Making, NotAgain, Recognised
  <2>5. Disk
    BY <2>2 DEF Init, Disk, Making, Running
  <2> QED
    BY <2>1, <2>3, <2>4, <2>5 DEF IInv
<1>2. IInv /\ [Next]_vars => IInv'
  <2> SUFFICES ASSUME IInv, [Next]_vars PROVE IInv'
    OBVIOUS
  <2>1. CASE Start
    BY <2>1, StartStep
  <2>2. CASE Ask \/ IsEdenOS \/ Get \/ Length
    BY <2>2, AskStep, IsEdenOSStep, GetStep, LengthStep
  <2>3. CASE BootChunk \/ Chunk \/ Format \/ MakeRoot
    BY <2>3, BootChunkStep, ChunkStep, FormatStep, MakeRootStep
  <2>4. CASE (Refused \/ InstallEnds) /\ UNCHANGED <<Kept, boot>>
    BY <2>4, RefusedStep, InstallEndsStep
  <2>5. CASE (WriteCount \/ WriteLevels \/ WriteRoot \/ Sign) /\ UNCHANGED <<Kept, srv, net, len, lba>>
    BY <2>5, WriteFieldStep, SignStep
  <2>6. CASE IsEdenFS /\ UNCHANGED <<Kept, srv, net, len, lba, boot>>
    BY <2>6, IsEdenFSStep
  <2>7. CASE Handle
    BY <2>7, HandleStep
  <2>8. CASE ReadFile \/ Answer
    <3>1. srv.req \in {GET_MD5, GET_OS}
      BY <2>8 DEF IInv, Serving, ReadFile, Answer
    <3> QED
      BY <2>8, <3>1, SendStep, HashStep, SentStep, AnswerStep
  <2>9. CASE Rebuild
    BY <2>9, RebuildStep
  <2>10. CASE Crash /\ UNCHANGED <<Kept, boot>>
    BY <2>10, CrashStep
  <2>11. CASE UNCHANGED vars
    <3>1. /\ Types' /\ Serving' /\ Bounds' /\ Digest' /\ Disk'
      BY <2>11 DEF vars, IInv, Types, Serving, Bounds, Digest, Disk, Intact
    <3>2. Holds(kernel)' <=> Holds(kernel)
      BY <2>11 DEF vars, Holds
    <3>3. Placed' /\ NotAgain'
      BY <2>11, <3>2 DEF vars, IInv, Placed, NotAgain, Recognised
    <3>4. Sent'
      BY <2>11 DEF vars, IInv, Sent
    <3> QED
      BY <3>1, <3>3, <3>4 DEF IInv
  <2> QED
    BY <2>1, <2>2, <2>3, <2>4, <2>5, <2>6, <2>7, <2>8, <2>9, <2>10, <2>11
      DEF Next, Client, Server
<1> QED
  BY <1>1, <1>2, PTL DEF Spec

----------------------------------------------------------------------------
\* Every variable stays among the values the programs give it, and no block of
\* an image is ever at Base or behind it, whatever the lengths of the images:
\* the receives of an installation end before the file system.
THEOREM TypeCorrect == Spec => []TypeOK
<1>1. IInv => TypeOK
  <2> SUFFICES ASSUME IInv PROVE TypeOK
    OBVIOUS
  <2>1. dev \in [Lbas -> Cell] /\ \A l \in Lbas : dev[l] \in Cell
    BY DEF IInv, Types
  <2>2. Len(net.data) <= Base
    BY DEF IInv, Serving
  <2>3. lba \in 0 .. Base + 1
    BY Sizes DEF IInv, Types
  <2>4. \A l \in Base .. Base + 1 : dev[l] \in Free
    <3>1. \A l \in Base .. Base + 1 : l = Base \/ l = Base + 1
      BY Sizes
    <3> QED
      BY <3>1 DEF IInv, Types
  <2> QED
    BY <2>1, <2>2, <2>3, <2>4 DEF TypeOK, IInv, Types, SrvType, NetType, Cell, Block, Free
<1> QED
  BY <1>1, Invariance, PTL

\* For every kernel, every place of the file system and every history of the
\* device: what analyse leaves is the server's kernel, unless a receive was
\* short, the kernel was built anew or the EdenFS object was stale.
THEOREM InstalledRight == Spec => []Installed
<1>1. IInv => Installed
  BY DEF IInv, Placed, Installed
<1> QED
  BY <1>1, Invariance, PTL

\* An up-to-date device with EdenFS is never sent the kernel again.
THEOREM RecognisedRight == Spec => []Recognised
<1>1. IInv => Recognised
  BY DEF IInv, NotAgain
<1> QED
  BY <1>1, Invariance, PTL

\* A device with the signature, whose file system was made at Base and whose
\* fields no receive tore, has all the fields, and its bitmap and its root
\* where kernel and host look for them.
THEOREM FsStaysWhole == Spec => []FsWhole
<1>1. IInv => FsWhole
  <2> SUFFICES ASSUME IInv, boot.sign, Intact
               PROVE  /\ boot.root = boot.base + 1
                      /\ boot.made = {"count", "levels"}
                      /\ dev[boot.base] = Bitmap
                      /\ dev[boot.root] = Dir
    BY DEF FsWhole, Intact
  <2>1. boot.base = Base /\ boot.root = Base + 1
        /\ dev[Base] = Bitmap /\ dev[Base + 1] = Dir
        /\ "count" \in boot.made /\ "levels" \in boot.made
    BY DEF IInv, Disk
  <2>2. boot.made \in SUBSET {"count", "levels"}
    BY DEF IInv, Types, Fields
  <2> QED
    BY <2>1, <2>2
<1> QED
  BY <1>1, Invariance, PTL

\* No check, installation or crash writes a block of a file system made at
\* Base, or loses its fields without a short receive.  Of one made elsewhere,
\* at block 0 by a new device's first analysis, nothing is claimed: it is lost,
\* as FilesThere says.
THEOREM FilesStay == Spec => FilesKept
<1>1. IInv /\ [Next]_vars => [boot.sign /\ home = Base => Untouched]_vars
  <2> SUFFICES ASSUME IInv, Next, boot.sign, home = Base
               PROVE  Untouched
    OBVIOUS
  <2>1. pc \notin {"format", "root", "count", "levels", "fields", "sign"}
        /\ (pc = "chunk" => lba # 0)
    BY DEF IInv, Disk, Making
  <2>2. CASE BootChunk
    BY <2>2, BootChunkStep
  <2>3. CASE Chunk
    BY <2>3, ChunkStep
  <2>4. CASE dev' = dev /\ boot' = boot
    <3>1. boot = [boot EXCEPT !.base = boot.base]
      BY DEF IInv, Types, Fields
    <3> QED
      BY <2>4, <3>1 DEF Untouched
  <2>5. BootChunk \/ Chunk \/ (dev' = dev /\ boot' = boot)
    BY <2>1 DEF Next, Client, Server, Start, Ask, IsEdenOS, Get, Length, Refused,
      InstallEnds, Format, MakeRoot, WriteCount, WriteLevels, WriteRoot, Sign,
      IsEdenFS, Crash, Handle, ReadFile, Answer, Rebuild, Kept, client
  <2> QED
    BY <2>2, <2>3, <2>4, <2>5
<1> QED
  BY <1>1, Invariance, PTL DEF Spec, FilesKept
=============================================================================
