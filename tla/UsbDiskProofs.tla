---------------------------- MODULE UsbDiskProofs ----------------------------
(***************************************************************************)
(* Proofs about UsbDisk with one thread, for every number of packets of a  *)
(* block, of descriptors, of blocks and of faults.                         *)
(*                                                                         *)
(* The argument: of the k descriptors that add_td has linked, the first e  *)
(* are done, the controller points to the next one or to nothing, and the  *)
(* device is where the first e packets of the command lead it.  That e is  *)
(* all of k when run_qh returns follows from the polls, although they      *)
(* leave out the first descriptor: it is done before the second is.        *)
(***************************************************************************)
EXTENDS UsbDisk, SequenceTheorems, WellFoundedInduction, TLAPS

\* Nothing locks the queue: the theorems are about one thread at a time.
OneThread == \E t : Threads = {t}

\* Requests, packets and the names of buffers.
Words == GetDescs \cup Sets \cup {"none", "read", "write", "old", "new", "junk", "0", "1",
                                 "setup", "status", "desc", "cbw", "csw", "data",
                                 "detect", "ready", "gone"}

Pipes == {"ctrl", "bulk"}
Pids  == {"SETUP", "IN", "OUT"}
Tds   == [pipe : Pipes, pid : Pids, tog : {"in", "out", "DATA0", "DATA1"},
          buf : Words, n : Nat, val : Words]
Slot  == [pipe : Pipes, pid : Pids, tog : {0, 1}, buf : Words, n : Nat,
          val : Words, status : {"active", "done", "error"}, link : 0..NTD,
          addr : {0, 1}, who : Nat, whole : BOOLEAN]
Dev   == [addr : {0, 1}, req : Words, next : {"none", "cbw", "in", "out", "csw"},
          block : Nat, n : 0..DATA+1, tin : {0, 1}, tout : {0, 1},
          works : BOOLEAN, dead : BOOLEAN]
Calls == [op : Words, block : Nat, val : Words]
Buffs == [data : [1..DATA -> Words], csw : Words, desc : Words]
Pc    == {"idle", "link", "activate", "fill", "run", "poll", "reset", "return"}
Phase == GetDescs \cup Sets \cup {"detect", "ready", "gone"}

QueueTypes ==
    /\ next_td \in Nat /\ last_td \in 0..NTD
    /\ qh \in [Pipes -> 0..NTD]
    /\ slots \in [1..NTD -> Slot]

ThreadTypes ==
    /\ pc \in [Threads -> Pc]
    /\ todo \in [Threads -> Seq(Tds)]
    /\ cur \in [Threads -> 0..NTD]
    /\ td \in [Threads -> Nat]
    /\ passed \in [Threads -> {0, 1}]
    /\ call \in [Threads -> Calls]

DriverTypes ==
    /\ phase \in Phase
    /\ data_in \in {0, 1} /\ data_out \in {0, 1}
    /\ halted \in BOOLEAN /\ running \in BOOLEAN
    /\ dev = [addr |-> dev.addr, inter |-> dev.inter,
              in_endp |-> dev.in_endp, out_endp |-> dev.out_endp]
    /\ dev.addr \in {0, 1}

DeviceTypes ==
    /\ d \in Dev
    /\ d.next \in {"in", "out"} => d.n < DATA
    /\ d.next = "csw" => d.n = DATA
    /\ faults \in 0..MaxFaults
    /\ torn \in BOOLEAN /\ early \in BOOLEAN

Types == QueueTypes /\ ThreadTypes /\ DriverTypes /\ DeviceTypes

\* The descriptors of the transfer that t is in.
List(t) == IF phase # "ready" THEN Control(phase)
           ELSE IF call[t].op = "read" THEN ReadBbb(call[t].block)
           ELSE WriteBbb(call[t].block, call[t].val)
Size(t) == Len(List(t))
Pipe == IF phase = "ready" THEN "bulk" ELSE "ctrl"

\* What t still has to add is the list without its first j descriptors.
Rest(t, j) == /\ Len(todo[t]) = Size(t) - j
              /\ \A i \in 1..Size(t) - j : todo[t][i] = List(t)[i + j]

\* What t has added, by where it is.
Adding(t) ==
    /\ next_td = last_td + 1
    /\ pc[t] = "link" => last_td < Size(t) /\ Rest(t, last_td)
    /\ pc[t] \in {"activate", "fill"} =>
          /\ 1 <= last_td /\ last_td <= Size(t)
          /\ cur[t] = last_td
          /\ ~slots[last_td].whole
          /\ Rest(t, last_td - 1)
          /\ passed[t] = Toggle(List(t)[last_td].tog, data_in, data_out)
    /\ pc[t] \in {"run", "poll", "reset"} => last_td = Size(t)
    /\ pc[t] \in {"idle", "return"} => last_td = 0

Asking(t) ==
    /\ phase \in {"detect", "gone"} => pc[t] = "idle"
    /\ pc[t] # "poll" => ~halted
    /\ pc[t] = "poll" => running
    /\ phase \in GetDescs \cup Sets /\ pc[t] # "idle" => call[t].op = phase
    /\ phase = "ready" /\ pc[t] # "idle" =>
          call[t].op \in {"read", "write"} /\ call[t].block \in Blocks

\* The machine stops only for a cause.
Cause == /\ halted => faults > 0 \/ torn \/ early
         /\ d.dead => faults > 0

\* The places up to which descriptors were made active.
Activated(t) == IF pc[t] = "activate" THEN last_td - 1 ELSE last_td

\* The controller has executed the first e descriptors and no other one.
Executed(t, e) ==
    /\ \A i \in 1..e : slots[i].status = "done"
    /\ \A i \in e+1..Activated(t) :
          \/ slots[i].status = "active"
          \/ i = e + 1 /\ slots[i].status = "error" /\ (faults > 0 \/ torn)
    /\ \A i \in Activated(t)+1..NTD : slots[i].status = "done"

\* It goes on with the next one, or is lost because it came too early.
Pointed(t, e) ==
    /\ \A i \in 1..last_td-1 : slots[i].link = i + 1
    /\ last_td > 0 => slots[last_td].link = None
    /\ \A q \in Pipes : qh[q] # None => q = Pipe /\ qh[q] = e + 1 /\ e < last_td
    /\ qh[Pipe] = None /\ last_td > 0 /\ (e < last_td \/ MoreToCome(t)) => early

\* The polls are behind the controller.
Polled(t, e) ==
    /\ pc[t] = "poll" => td[t] \in 2..last_td+1 /\ (td[t] = 2 \/ td[t] <= e + 1)
    /\ pc[t] = "reset" => e = last_td

\* The packets in and out among the first i of a command.
Reads(t)   == call[t].op = "read"
Ins(t, i)  == IF Reads(t) THEN IF i = 0 THEN 0 ELSE i - 1
              ELSE IF i = DATA + 2 THEN 1 ELSE 0
Outs(t, i) == i - Ins(t, i)

\* The toggle v after n flips.
Flip(v, n) == (v + n) % 2

\* The toggle of the i-th descriptor.
TogOf(t, i) ==
    CASE List(t)[i].tog = "in" -> Flip(data_in, Ins(t, last_td) - Ins(t, i))
      [] List(t)[i].tog = "out" -> Flip(data_out, Outs(t, last_td) - Outs(t, i))
      [] List(t)[i].tog = "DATA0" -> 0
      [] List(t)[i].tog = "DATA1" -> 1

\* The places up to which descriptors are completely written.
Written(t) == IF pc[t] \in {"activate", "fill"} THEN last_td - 1 ELSE last_td

\* What is written is what was to be added.
Holds(t, i) == LET x == slots[i]  y == List(t)[i] IN
    /\ x.pipe = y.pipe /\ x.pid = y.pid /\ x.buf = y.buf
    /\ x.n = y.n /\ x.val = y.val
    /\ x.addr = dev.addr /\ x.who = t /\ x.whole
Content(t) == \A i \in 1..Written(t) : Holds(t, i) /\ slots[i].tog = TogOf(t, i)

\* The next packets of the device have the toggles of the next descriptors.
Toggled(t, e) ==
    phase = "ready" =>
        /\ d.tin = Flip(1 - data_in, Ins(t, last_td) - Ins(t, e))
        /\ d.tout = Flip(1 - data_out, Outs(t, last_td) - Outs(t, e))

\* The descriptors of the transfer that are executed, once it is over too.
Through(t, e) == IF pc[t] = "return" THEN Size(t) ELSE e

\* The address, after j descriptors of the transfer.
Address(j) ==
    /\ phase \in {"detect", "get_dev_desc", "set_addr"} => dev.addr = 0
    /\ phase \in {"get_config_desc", "set_config", "set_inter", "bbb_reset", "ready"} =>
          dev.addr = 1
    /\ phase \notin {"detect", "gone"} =>
          d.addr = IF phase = "set_addr" /\ j = 2 THEN 1 ELSE dev.addr

\* The device during the configuration.
Configured(j) == phase \in {"set_inter", "bbb_reset"} \/ (phase = "set_config" /\ j = 2)
Configuring(t, j) ==
    phase \in GetDescs \cup Sets =>
        /\ j >= 1 => d.req = phase
        /\ phase \in GetDescs /\ j >= 2 => buff[t].desc = phase
        /\ d.next = IF Configured(j) THEN "cbw" ELSE "none"
        /\ Configured(j) => d.tin = 0 /\ d.tout = 0
        /\ phase = "bbb_reset" /\ pc[t] # "idle" => data_in = 1 /\ data_out = 1

\* What the driver knows of a disk is what one of its walks over the
\* configuration found.
Takes(known, found) ==
    /\ IsDisk(found)
    /\ known.inter = found.inter
    /\ known.in_endp = found.in_endp /\ known.out_endp = found.out_endp
Kept ==
    phase \in {"set_config", "set_inter", "bbb_reset", "ready"} =>
        \E found \in Parsed(device) : Takes(dev, found)

\* The device during a command.
Stage(t, j) ==
    phase = "ready" =>
        /\ j \in {0, DATA + 2} => d.next = "cbw"
        /\ j \in 1..DATA+1 =>
              /\ d.next = IF j = DATA + 1 THEN "csw" ELSE IF Reads(t) THEN "in" ELSE "out"
              /\ d.block = call[t].block /\ d.n = j - 1

\* What has come in or gone out.
Moved(t, j) ==
    phase = "ready" /\ pc[t] # "idle" =>
        /\ buff[t].csw = IF j < DATA + 2 THEN "none" ELSE IF d.works THEN "0" ELSE "1"
        /\ d.works => \A i \in 1..DATA : i < j =>
              disk[call[t].block][i] = IF Reads(t) THEN buff[t].data[i] ELSE call[t].val

Memory == /\ buff \in [Threads -> Buffs]
          /\ disk \in [Blocks -> [1..DATA -> Words]]

Outside(t, j) == /\ Address(j) /\ Configuring(t, j) /\ Kept
                 /\ Stage(t, j) /\ Moved(t, j)

\* As long as no half-written descriptor was executed.
InStep(t, e) == /\ Memory
                /\ pc[t] = "fill" => e < last_td
                /\ Content(t)
                /\ Toggled(t, e)
                /\ Outside(t, Through(t, e))

At(t, e) == /\ e \in 0..Activated(t)
            /\ Executed(t, e) /\ Pointed(t, e) /\ Polled(t, e)
            /\ torn \/ InStep(t, e)

IInv == /\ Types /\ Cause
        /\ \A t \in Threads : Adding(t) /\ Asking(t) /\ \E e \in Nat : At(t, e)

-----------------------------------------------------------------------------
(* The lists of descriptors.                                               *)

LEMMA Numbers == DATA \in Nat \ {0} /\ NTD \in Nat \ {0} /\ DATA + 2 <= NTD
BY UsbAssumption

LEMMA ControlList ==
    ASSUME NEW req \in Words
    PROVE  /\ Control(req) \in Seq(Tds)
           /\ Len(Control(req)) = IF req \in GetDescs THEN 3 ELSE 2
           /\ Control(req)[1] = Setup(req)
           /\ Control(req)[2] = IF req \in GetDescs THEN DescIn ELSE StatusIn
           /\ req \in GetDescs => Control(req)[3] = StatusOut
<1>1. /\ Setup(req) \in Tds /\ DescIn \in Tds /\ StatusIn \in Tds /\ StatusOut \in Tds
  BY DEF Setup, DescIn, StatusIn, StatusOut, Td, Tds, Pipes, Pids, Words
<1> QED BY <1>1 DEF Control

\* A command: the wrapper, one packet for each place of the block, the status.
Framed(first, mid, last) == <<first>> \o mid \o <<last>>

LEMMA Between ==
    ASSUME NEW first \in Tds, NEW mid \in Seq(Tds), NEW last \in Tds, Len(mid) = DATA
    PROVE  /\ Framed(first, mid, last) \in Seq(Tds)
           /\ Len(Framed(first, mid, last)) = DATA + 2
           /\ Framed(first, mid, last)[1] = first
           /\ Framed(first, mid, last)[DATA + 2] = last
           /\ \A i \in 2..DATA+1 : Framed(first, mid, last)[i] = mid[i - 1]
<1> DEFINE a == <<first>>
           b == a \o mid
           c == <<last>>
           s == Framed(first, mid, last)
<1>1. a \in Seq(Tds) /\ Len(a) = 1 /\ a[1] = first
  OBVIOUS
<1>2. c \in Seq(Tds) /\ Len(c) = 1 /\ c[1] = last
  OBVIOUS
<1>3. mid \in Seq(Tds) /\ Len(mid) = DATA
  OBVIOUS
<1> HIDE DEF a, c
<1>4. /\ b \in Seq(Tds) /\ Len(b) = DATA + 1
      /\ \A i \in 1..DATA+1 : b[i] = IF i <= 1 THEN a[i] ELSE mid[i - 1]
  <2>1. /\ b \in Seq(Tds) /\ Len(b) = Len(a) + Len(mid)
        /\ \A i \in 1..Len(a) + Len(mid) :
              b[i] = IF i <= Len(a) THEN a[i] ELSE mid[i - Len(a)]
    BY <1>1, <1>3, ConcatProperties
  <2> HIDE DEF b
  <2> QED BY <2>1, <1>1, <1>3, Numbers
<1> HIDE DEF b
<1>5. /\ b \o c \in Seq(Tds) /\ Len(b \o c) = Len(b) + Len(c)
      /\ \A i \in 1..Len(b) + Len(c) :
            (b \o c)[i] = IF i <= Len(b) THEN b[i] ELSE c[i - Len(b)]
  BY <1>2, <1>4, ConcatProperties
<1>6. s = b \o c
  BY DEF a, b, c, Framed
<1> HIDE DEF s
<1>7. s \in Seq(Tds) /\ Len(s) = DATA + 2
  BY <1>2, <1>4, <1>5, <1>6, Numbers
<1>8. \A i \in 1..DATA+2 : s[i] = IF i <= DATA + 1 THEN b[i] ELSE c[i - (DATA + 1)]
  BY <1>2, <1>4, <1>5, <1>6, Numbers
<1>9. s[1] = first
  BY <1>1, <1>4, <1>8, Numbers
<1>10. s[DATA + 2] = last
  <2>1. s[DATA + 2] = c[(DATA + 2) - (DATA + 1)]
    BY <1>8, Numbers
  <2> QED BY <2>1, <1>2, Numbers
<1>11. \A i \in 2..DATA+1 : s[i] = mid[i - 1]
  BY <1>4, <1>8, Numbers
<1> QED BY <1>7, <1>9, <1>10, <1>11 DEF s

LEMMA ReadList ==
    ASSUME NEW b \in Nat
    PROVE  /\ ReadBbb(b) \in Seq(Tds) /\ Len(ReadBbb(b)) = DATA + 2
           /\ ReadBbb(b)[1] = Cbw("read", b) /\ ReadBbb(b)[DATA + 2] = CswIn
           /\ \A i \in 2..DATA+1 :
                 ReadBbb(b)[i] = Td("bulk", "IN", "in", "data", i - 1, "none")
<1>1. Cbw("read", b) \in Tds /\ CswIn \in Tds
  BY DEF Cbw, CswIn, Td, Tds, Pipes, Pids, Words
<1>2. DataIn \in Seq(Tds) /\ Len(DataIn) = DATA
  <2>1. DataIn \in [1..DATA -> Tds]
    BY Numbers DEF DataIn, Td, Tds, Pipes, Pids, Words
  <2> HIDE DEF DataIn
  <2> QED BY <2>1, Numbers
<1>3. \A i \in 2..DATA+1 : DataIn[i - 1] = Td("bulk", "IN", "in", "data", i - 1, "none")
  BY Numbers DEF DataIn
<1>4. ReadBbb(b) = Framed(Cbw("read", b), DataIn, CswIn)
  BY DEF ReadBbb, Framed
<1> DEFINE f == Framed(Cbw("read", b), DataIn, CswIn)
<1>5. /\ f \in Seq(Tds) /\ Len(f) = DATA + 2
      /\ f[1] = Cbw("read", b) /\ f[DATA + 2] = CswIn
      /\ \A i \in 2..DATA+1 : f[i] = DataIn[i - 1]
  <2>1. f \in Seq(Tds)
    BY <1>1, <1>2, Between
  <2>2. Len(f) = DATA + 2
    BY <1>1, <1>2, Between
  <2>3. f[1] = Cbw("read", b)
    BY <1>1, <1>2, Between
  <2>4. f[DATA + 2] = CswIn
    BY <1>1, <1>2, Between
  <2>5. \A i \in 2..DATA+1 : f[i] = DataIn[i - 1]
    BY <1>1, <1>2, Between
  <2> QED BY <2>1, <2>2, <2>3, <2>4, <2>5
<1> HIDE DEF f
<1>6. ReadBbb(b) = f
  BY <1>4 DEF f
<1> QED BY <1>3, <1>5, <1>6

LEMMA WriteList ==
    ASSUME NEW b \in Nat, NEW v \in Words
    PROVE  /\ WriteBbb(b, v) \in Seq(Tds) /\ Len(WriteBbb(b, v)) = DATA + 2
           /\ WriteBbb(b, v)[1] = Cbw("write", b) /\ WriteBbb(b, v)[DATA + 2] = CswIn
           /\ \A i \in 2..DATA+1 :
                 WriteBbb(b, v)[i] = Td("bulk", "OUT", "out", "data", i - 1, v)
<1>1. Cbw("write", b) \in Tds /\ CswIn \in Tds
  BY DEF Cbw, CswIn, Td, Tds, Pipes, Pids, Words
<1>2. DataOut(v) \in Seq(Tds) /\ Len(DataOut(v)) = DATA
  <2>1. DataOut(v) \in [1..DATA -> Tds]
    BY Numbers DEF DataOut, Td, Tds, Pipes, Pids, Words
  <2> HIDE DEF DataOut
  <2> QED BY <2>1, Numbers
<1>3. \A i \in 2..DATA+1 : DataOut(v)[i - 1] = Td("bulk", "OUT", "out", "data", i - 1, v)
  BY Numbers DEF DataOut
<1>4. WriteBbb(b, v) = Framed(Cbw("write", b), DataOut(v), CswIn)
  BY DEF WriteBbb, Framed
<1> DEFINE f == Framed(Cbw("write", b), DataOut(v), CswIn)
<1>5. /\ f \in Seq(Tds) /\ Len(f) = DATA + 2
      /\ f[1] = Cbw("write", b) /\ f[DATA + 2] = CswIn
      /\ \A i \in 2..DATA+1 : f[i] = DataOut(v)[i - 1]
  <2>1. f \in Seq(Tds)
    BY <1>1, <1>2, Between
  <2>2. Len(f) = DATA + 2
    BY <1>1, <1>2, Between
  <2>3. f[1] = Cbw("write", b)
    BY <1>1, <1>2, Between
  <2>4. f[DATA + 2] = CswIn
    BY <1>1, <1>2, Between
  <2>5. \A i \in 2..DATA+1 : f[i] = DataOut(v)[i - 1]
    BY <1>1, <1>2, Between
  <2> QED BY <2>1, <2>2, <2>3, <2>4, <2>5
<1> HIDE DEF f
<1>6. WriteBbb(b, v) = f
  BY <1>4 DEF f
<1> QED BY <1>3, <1>5, <1>6

\* The list of a transfer, whatever it is.
LEMMA ListFacts ==
    ASSUME Types, NEW t \in Threads
    PROVE  /\ List(t) \in Seq(Tds)
           /\ Size(t) \in 2..NTD
           /\ phase = "ready" => Size(t) = DATA + 2
           /\ phase \in Sets => Size(t) = 2
           /\ \A i \in 1..Size(t) : List(t)[i] \in Tds /\ List(t)[i].pipe = Pipe
<1>1. phase \in Words
  BY DEF Types, DriverTypes, Phase, Words
<1>0. call[t].op \in Words /\ call[t].block \in Nat /\ call[t].val \in Words
  BY DEF Types, ThreadTypes, Calls
<1>2. CASE phase # "ready"
  <2>1. List(t) = Control(phase) /\ Pipe = "ctrl"
    BY <1>2 DEF List, Pipe
  <2>2. /\ Control(phase) \in Seq(Tds)
        /\ Len(Control(phase)) = (IF phase \in GetDescs THEN 3 ELSE 2)
    BY <1>1, ControlList
  <2>3. ASSUME NEW i \in 1..Len(Control(phase)) PROVE Control(phase)[i].pipe = "ctrl"
    <3>1. i = 1 \/ i = 2 \/ (i = 3 /\ phase \in GetDescs)
      BY <2>2
    <3>2. Control(phase)[i] \in {Setup(phase), DescIn, StatusIn, StatusOut}
      BY <1>1, <3>1, ControlList
    <3> QED BY <3>2 DEF Setup, DescIn, StatusIn, StatusOut, Td
  <2>4. \A i \in 1..Len(Control(phase)) : Control(phase)[i] \in Tds
    BY <2>2, ElementOfSeq
  <2> QED BY <1>2, <2>1, <2>2, <2>3, <2>4, Numbers DEF Size, Sets, GetDescs
<1>3. CASE phase = "ready" /\ call[t].op = "read"
  <2>1. List(t) = ReadBbb(call[t].block) /\ Pipe = "bulk"
    BY <1>3 DEF List, Pipe
  <2>2. ASSUME NEW i \in 1..DATA+2 PROVE List(t)[i].pipe = "bulk"
    <3>1. i = 1 \/ i = DATA + 2 \/ i \in 2..DATA+1
      BY Numbers
    <3>2. List(t)[i] \in {Cbw("read", call[t].block), CswIn,
                         Td("bulk", "IN", "in", "data", i - 1, "none")}
      BY <1>0, <2>1, <3>1, ReadList
    <3> QED BY <3>2 DEF Cbw, CswIn, Td
  <2>3. List(t) \in Seq(Tds) /\ Len(List(t)) = DATA + 2
    BY <1>0, <2>1, ReadList
  <2>4. \A i \in 1..Len(List(t)) : List(t)[i] \in Tds
    BY <2>3, ElementOfSeq
  <2> QED BY <1>3, <2>1, <2>2, <2>3, <2>4, Numbers DEF Size, Sets
<1>4. CASE phase = "ready" /\ call[t].op # "read"
  <2>1. List(t) = WriteBbb(call[t].block, call[t].val) /\ Pipe = "bulk"
    BY <1>4 DEF List, Pipe
  <2>2. ASSUME NEW i \in 1..DATA+2 PROVE List(t)[i].pipe = "bulk"
    <3>1. i = 1 \/ i = DATA + 2 \/ i \in 2..DATA+1
      BY Numbers
    <3>2. List(t)[i] \in {Cbw("write", call[t].block), CswIn,
                         Td("bulk", "OUT", "out", "data", i - 1, call[t].val)}
      BY <1>0, <2>1, <3>1, WriteList
    <3> QED BY <3>2 DEF Cbw, CswIn, Td
  <2>3. List(t) \in Seq(Tds) /\ Len(List(t)) = DATA + 2
    BY <1>0, <2>1, WriteList
  <2>4. \A i \in 1..Len(List(t)) : List(t)[i] \in Tds
    BY <2>3, ElementOfSeq
  <2> QED BY <1>4, <2>1, <2>2, <2>3, <2>4, Numbers DEF Size, Sets
<1> QED BY <1>2, <1>3, <1>4

-----------------------------------------------------------------------------
(* Toggles.                                                                *)

LEMMA FlipFacts ==
    ASSUME NEW v \in {0, 1}, NEW n \in Nat
    PROVE  /\ Flip(v, n) \in {0, 1} /\ Flip(v, 0) = v
           /\ Flip(1 - v, n + 1) = Flip(v, n)
           /\ 1 - Flip(v, n + 1) = Flip(v, n)
BY DEF Flip

\* Outside a command the toggles are fixed.
LEMMA FixedTogs ==
    ASSUME Types, NEW t \in Threads, phase # "ready", NEW i \in 1..Size(t)
    PROVE  List(t)[i].tog \in {"DATA0", "DATA1"}
<1>1. phase \in Words
  BY DEF Types, DriverTypes, Phase, Words
<1>2. List(t) = Control(phase)
  BY DEF List
<1>0. Size(t) = IF phase \in GetDescs THEN 3 ELSE 2
  BY <1>1, <1>2, ControlList DEF Size
<1>3. i = 1 \/ i = 2 \/ (i = 3 /\ phase \in GetDescs)
  BY <1>0
<1>4. List(t)[i] \in {Setup(phase), DescIn, StatusIn, StatusOut}
  BY <1>1, <1>2, <1>3, ControlList
<1> QED BY <1>4 DEF Setup, DescIn, StatusIn, StatusOut, Td

\* In a command the next descriptor is one packet in or one packet out.
LEMMA NextTog ==
    ASSUME Types, NEW t \in Threads, phase = "ready", NEW i \in 0..DATA+1
    PROVE  \/ /\ List(t)[i + 1].tog = "in"
              /\ Ins(t, i + 1) = Ins(t, i) + 1 /\ Outs(t, i + 1) = Outs(t, i)
           \/ /\ List(t)[i + 1].tog = "out"
              /\ Ins(t, i + 1) = Ins(t, i) /\ Outs(t, i + 1) = Outs(t, i) + 1
<1>1. call[t].block \in Nat /\ call[t].val \in Words
  BY DEF Types, ThreadTypes, Calls
<1>2. i = 0 \/ i = DATA + 1 \/ i \in 1..DATA
  BY Numbers
<1>3. CASE Reads(t)
  <2>1. List(t) = ReadBbb(call[t].block)
    BY <1>3 DEF List, Reads
  <2>2. List(t)[i + 1].tog = IF i = 0 THEN "out" ELSE "in"
    <3>1. CASE i = 0
      <4>1. i + 1 = 1
        BY <3>1
      <4>2. List(t)[1] = Cbw("read", call[t].block)
        BY <1>1, <2>1, ReadList
      <4> QED BY <3>1, <4>1, <4>2 DEF Cbw, Td
    <3>2. CASE i = DATA + 1
      <4>1. i + 1 = DATA + 2 /\ i # 0
        BY <3>2, Numbers
      <4> QED BY <4>1, <1>1, <2>1, ReadList DEF CswIn, Td
    <3>3. CASE i \in 1..DATA
      <4>1. i + 1 \in 2..DATA+1 /\ i # 0
        BY <3>3, Numbers
      <4>2. List(t)[i + 1] = Td("bulk", "IN", "in", "data", i + 1 - 1, "none")
        BY <4>1, <1>1, <2>1, ReadList
      <4> QED BY <4>1, <4>2 DEF Td
    <3> QED BY <1>2, <3>1, <3>2, <3>3
  <2> QED BY <1>3, <2>2, Numbers DEF Ins, Outs
<1>4. CASE ~Reads(t)
  <2>1. List(t) = WriteBbb(call[t].block, call[t].val)
    BY <1>4 DEF List, Reads
  <2>2. List(t)[i + 1].tog = IF i = DATA + 1 THEN "in" ELSE "out"
    <3>1. CASE i = 0
      <4>1. i + 1 = 1 /\ i # DATA + 1
        BY <3>1, Numbers
      <4>2. List(t)[1] = Cbw("write", call[t].block)
        BY <1>1, <2>1, WriteList
      <4> QED BY <4>1, <4>2 DEF Cbw, Td
    <3>2. CASE i = DATA + 1
      <4>1. i + 1 = DATA + 2
        BY <3>2, Numbers
      <4> QED BY <3>2, <4>1, <1>1, <2>1, WriteList DEF CswIn, Td
    <3>3. CASE i \in 1..DATA
      <4>1. i + 1 \in 2..DATA+1 /\ i # DATA + 1
        BY <3>3, Numbers
      <4>2. List(t)[i + 1] = Td("bulk", "OUT", "out", "data", i + 1 - 1, call[t].val)
        BY <4>1, <1>1, <2>1, WriteList
      <4> QED BY <4>1, <4>2 DEF Td
    <3> QED BY <1>2, <3>1, <3>2, <3>3
  <2> QED BY <1>4, <2>2, Numbers DEF Ins, Outs
<1> QED BY <1>3, <1>4

LEMMA CountsGrow ==
    ASSUME NEW t \in Threads, NEW j \in 0..DATA+2, NEW i \in 0..j
    PROVE  /\ Ins(t, j) - Ins(t, i) \in Nat
           /\ Outs(t, j) - Outs(t, i) \in Nat
BY Numbers DEF Ins, Outs

\* A descriptor more flips the toggle of the driver and leaves those of the
\* descriptors before, and what the device must expect, as they were.
LEMMA LinkToggles ==
    ASSUME Types, NEW t \in Threads, last_td < Size(t),
           data_in' = IF List(t)[last_td + 1].tog = "in" THEN 1 - data_in ELSE data_in,
           data_out' = IF List(t)[last_td + 1].tog = "out" THEN 1 - data_out ELSE data_out,
           last_td' = last_td + 1, UNCHANGED <<phase, call, d>>
    PROVE  /\ data_in' \in {0, 1} /\ data_out' \in {0, 1}
           /\ phase # "ready" => UNCHANGED <<data_in, data_out>>
           /\ \A i \in 1..last_td : TogOf(t, i)' = TogOf(t, i)
           /\ \A e \in 0..last_td : Toggled(t, e) => Toggled(t, e)'
<1>1. List(t)' = List(t) /\ \A i : Ins(t, i)' = Ins(t, i) /\ Outs(t, i)' = Outs(t, i)
  BY DEF List, Ins, Outs, Reads
<1>0. /\ Ins(t, last_td)' = Ins(t, last_td + 1)
      /\ Outs(t, last_td)' = Outs(t, last_td + 1)
  BY DEF Ins, Outs, Reads
<1>2. /\ Size(t) \in Nat /\ last_td \in Nat /\ data_in \in {0, 1} /\ data_out \in {0, 1}
      /\ phase = "ready" => Size(t) = DATA + 2
  BY ListFacts DEF Types, QueueTypes, DriverTypes
<1>3. data_in' \in {0, 1} /\ data_out' \in {0, 1}
  BY <1>2
<1>4. CASE phase # "ready"
  <2>1. List(t)[last_td + 1].tog \in {"DATA0", "DATA1"}
    BY <1>2, <1>4, FixedTogs
  <2>2. UNCHANGED <<data_in, data_out>>
    BY <2>1
  <2>3. ASSUME NEW i \in 1..last_td PROVE TogOf(t, i)' = TogOf(t, i)
    <3>1. List(t)[i].tog \in {"DATA0", "DATA1"}
      BY <1>2, <1>4, FixedTogs
    <3> QED BY <1>1, <3>1 DEF TogOf
  <2> QED BY <1>3, <1>4, <2>2, <2>3 DEF Toggled
<1>5. CASE phase = "ready"
  <2> DEFINE k == last_td
  <2>1. k \in 0..DATA+1
    BY <1>2, <1>5, Numbers
  <2>2. ASSUME NEW i \in 0..k
        PROVE  /\ Flip(data_in', Ins(t, k + 1) - Ins(t, i)) = Flip(data_in, Ins(t, k) - Ins(t, i))
               /\ Flip(1 - data_in', Ins(t, k + 1) - Ins(t, i))
                    = Flip(1 - data_in, Ins(t, k) - Ins(t, i))
               /\ Flip(data_out', Outs(t, k + 1) - Outs(t, i))
                    = Flip(data_out, Outs(t, k) - Outs(t, i))
               /\ Flip(1 - data_out', Outs(t, k + 1) - Outs(t, i))
                    = Flip(1 - data_out, Outs(t, k) - Outs(t, i))
    <3> DEFINE m == Ins(t, k) - Ins(t, i)
               n == Outs(t, k) - Outs(t, i)
    <3>1. m \in Nat /\ n \in Nat
      BY <2>1, Numbers, CountsGrow
    <3>2. Ins(t, k) \in Int /\ Ins(t, i) \in Int /\ Outs(t, k) \in Int /\ Outs(t, i) \in Int
      BY <2>1, Numbers DEF Ins, Outs
    <3>3. CASE List(t)[k + 1].tog = "in"
      <4>1. data_in' = 1 - data_in /\ data_out' = data_out
        BY <3>3
      <4>2. Ins(t, k + 1) - Ins(t, i) = m + 1 /\ Outs(t, k + 1) - Outs(t, i) = n
        BY <3>2, <3>3, <2>1, <1>5, NextTog
      <4> HIDE DEF k, m, n
      <4>3. Flip(1 - data_in, m + 1) = Flip(data_in, m)
        BY <1>2, <3>1, FlipFacts
      <4>4. Flip(1 - (1 - data_in), m + 1) = Flip(1 - data_in, m)
        BY <1>2, <3>1, FlipFacts
      <4> QED BY <4>1, <4>2, <4>3, <4>4 DEF k, m, n
    <3>4. CASE List(t)[k + 1].tog = "out"
      <4>1. data_out' = 1 - data_out /\ data_in' = data_in
        BY <3>4
      <4>2. Outs(t, k + 1) - Outs(t, i) = n + 1 /\ Ins(t, k + 1) - Ins(t, i) = m
        BY <3>2, <3>4, <2>1, <1>5, NextTog
      <4> HIDE DEF k, m, n
      <4>3. Flip(1 - data_out, n + 1) = Flip(data_out, n)
        BY <1>2, <3>1, FlipFacts
      <4>4. Flip(1 - (1 - data_out), n + 1) = Flip(1 - data_out, n)
        BY <1>2, <3>1, FlipFacts
      <4> QED BY <4>1, <4>2, <4>3, <4>4 DEF k, m, n
    <3> QED BY <2>1, <1>5, <3>3, <3>4, NextTog
  <2>3. ASSUME NEW i \in 1..last_td PROVE TogOf(t, i)' = TogOf(t, i)
    <3>1. i \in 0..k
      BY <1>2
    <3>2. /\ Flip(data_in, Ins(t, last_td) - Ins(t, i))'
               = Flip(data_in, Ins(t, last_td) - Ins(t, i))
          /\ Flip(data_out, Outs(t, last_td) - Outs(t, i))'
               = Flip(data_out, Outs(t, last_td) - Outs(t, i))
      BY <1>0, <1>1, <2>2, <3>1 DEF Flip
    <3> QED BY <1>1, <3>2 DEF TogOf
  <2>4. ASSUME NEW e \in 0..last_td, Toggled(t, e) PROVE Toggled(t, e)'
    BY <1>0, <1>1, <1>5, <2>2, <2>4 DEF Toggled
  <2> QED BY <1>3, <1>5, <2>3, <2>4
<1> QED BY <1>4, <1>5

-----------------------------------------------------------------------------
(* What the steps of a transfer have in common.                            *)

LEMMA Conclude ==
    ASSUME NEW t, Threads = {t}, NEW e \in Nat,
           Types', Cause', Adding(t)', Asking(t)', At(t, e)'
    PROVE  IInv'
BY DEF IInv

\* The frame of the thread's steps: they touch nothing outside.
LEMMA SameOutside ==
    ASSUME NEW t, Threads = {t}, NEW e, NEW f, NEW j, InStep(t, e),
           UNCHANGED <<phase, device, dev, call, buff, d, disk>>,
           pc[t] # "idle", pc'[t] # "idle",
           j = Through(t, e), Through(t, f)' = j,
           phase = "bbb_reset" => UNCHANGED <<data_in, data_out>>,
           pc'[t] = "fill" => f < last_td',
           Content(t)', Toggled(t, f)'
    PROVE  InStep(t, f)'
<1>1. Memory'
  BY DEF InStep, Memory, Blocks
<1>2. Outside(t, j)
  BY DEF InStep
<1>3. Address(j)'
  BY <1>2 DEF Outside, Address
<1>4. Configuring(t, j)'
  BY <1>2 DEF Outside, Configuring, Configured
<1>5. Stage(t, j)'
  BY <1>2 DEF Outside, Stage, Reads
<1>6. Moved(t, j)'
  BY <1>2 DEF Outside, Moved, Reads
<1>0. Kept'
  BY <1>2 DEF Outside, Kept
<1>7. Outside(t, Through(t, f))'
  BY <1>0, <1>3, <1>4, <1>5, <1>6 DEF Outside
<1> QED BY <1>1, <1>7 DEF InStep

\* Two descriptors ask for the same packet.
SamePacket(x, y) ==
    /\ x.pipe = y.pipe /\ x.pid = y.pid /\ x.tog = y.tog /\ x.buf = y.buf
    /\ x.n = y.n /\ x.val = y.val /\ x.addr = y.addr /\ x.who = y.who

Linking(x, l)    == [x EXCEPT !.link = l]
Starting(x)      == [x EXCEPT !.link = None, !.whole = FALSE]
Marking(x, mark) == [x EXCEPT !.status = mark]

LEMMA SlotFields ==
    ASSUME NEW x \in Slot
    PROVE  /\ \A l \in 0..NTD : /\ Linking(x, l) \in Slot
                                /\ Linking(x, l).link = l
                                /\ Linking(x, l).status = x.status
                                /\ Linking(x, l).whole = x.whole
                                /\ SamePacket(Linking(x, l), x)
           /\ /\ Starting(x) \in Slot
              /\ Starting(x).link = None
              /\ Starting(x).status = x.status
              /\ Starting(x).whole = FALSE
              /\ SamePacket(Starting(x), x)
           /\ \A mark \in {"active", "done", "error"} :
                 /\ Marking(x, mark) \in Slot
                 /\ Marking(x, mark).link = x.link
                 /\ Marking(x, mark).status = mark
                 /\ Marking(x, mark).whole = x.whole
                 /\ SamePacket(Marking(x, mark), x)
<1>1. ASSUME NEW l \in 0..NTD
      PROVE  /\ Linking(x, l) \in Slot
             /\ Linking(x, l).link = l
             /\ Linking(x, l).status = x.status
             /\ Linking(x, l).whole = x.whole
             /\ SamePacket(Linking(x, l), x)
  BY DEF Slot, Linking, SamePacket
<1>2. /\ Starting(x) \in Slot
      /\ Starting(x).link = None
      /\ Starting(x).status = x.status
      /\ Starting(x).whole = FALSE
      /\ SamePacket(Starting(x), x)
  <2>1. None \in 0..NTD
    BY Numbers DEF None
  <2> QED BY <2>1 DEF Slot, Starting, SamePacket
<1>3. ASSUME NEW mark \in {"active", "done", "error"}
      PROVE  /\ Marking(x, mark) \in Slot
             /\ Marking(x, mark).link = x.link
             /\ Marking(x, mark).status = mark
             /\ Marking(x, mark).whole = x.whole
             /\ SamePacket(Marking(x, mark), x)
  BY DEF Slot, Marking, SamePacket
<1> QED BY <1>1, <1>2, <1>3

\* The queue after add_td has linked the descriptor at k + 1.
LEMMA LinkSlots ==
    ASSUME NEW t, Threads = {t}, Types, Adding(t), Link(t)
    PROVE  /\ slots' \in [1..NTD -> Slot]
           /\ last_td + 1 \in 1..NTD
           /\ slots'[last_td + 1].whole = FALSE
           /\ slots'[last_td + 1].link = None
           /\ last_td # 0 => slots'[last_td].link = last_td + 1
           /\ \A i \in 1..NTD :
                 /\ i \notin {last_td, last_td + 1} => slots'[i].link = slots[i].link
                 /\ i # last_td + 1 => slots'[i].whole = slots[i].whole
                 /\ slots'[i].status = slots[i].status
                 /\ SamePacket(slots'[i], slots[i])
<1> DEFINE k == last_td
<1>1. /\ k \in 0..NTD /\ next_td = k + 1 /\ k + 1 \in 1..NTD /\ k \in Nat
      /\ slots \in [1..NTD -> Slot] /\ NTD \in Nat
  BY Numbers DEF Types, QueueTypes, Adding, Link
<1>2. slots' = IF k = 0 THEN [slots EXCEPT ![k + 1].link = None, ![k + 1].whole = FALSE]
               ELSE [slots EXCEPT ![k].link = k + 1, ![k + 1].link = None,
                                  ![k + 1].whole = FALSE]
  BY <1>1 DEF Link, None
<1> HIDE DEF k
<1>3. k # 0 => k \in 1..NTD /\ k # k + 1
  BY <1>1
<1>4. slots' = [i \in 1..NTD |-> IF i = k + 1 THEN Starting(slots[i])
                                 ELSE IF i = k THEN Linking(slots[i], k + 1)
                                 ELSE slots[i]]
  <2>1. CASE k = 0
    <3>1. slots' = [slots EXCEPT ![k + 1] = Starting(slots[k + 1])]
      BY <2>1, <1>1, <1>2 DEF Starting
    <3>2. \A i \in 1..NTD : i # k
      BY <2>1
    <3> QED BY <3>1, <3>2, <1>1
  <2>2. CASE k # 0
    <3>1. slots' = [slots EXCEPT ![k] = Linking(slots[k], k + 1),
                                 ![k + 1] = Starting(slots[k + 1])]
      BY <2>2, <1>1, <1>2, <1>3 DEF Starting, Linking
    <3> QED BY <2>2, <3>1, <1>1, <1>3
  <2> QED BY <2>1, <2>2
<1>5. k + 1 \in 0..NTD
  BY <1>1
<1>6. slots' \in [1..NTD -> Slot]
  BY <1>1, <1>4, <1>5, SlotFields
<1>7. slots'[k + 1].whole = FALSE /\ slots'[k + 1].link = None
  BY <1>1, <1>4, SlotFields
<1>8. ASSUME k # 0 PROVE slots'[k].link = k + 1
  <2>1. slots'[k] = Linking(slots[k], k + 1) /\ slots[k] \in Slot
    BY <1>1, <1>3, <1>4, <1>8
  <2>2. \A l \in 0..NTD : Linking(slots[k], l).link = l
    BY <2>1, SlotFields
  <2> QED BY <2>1, <2>2, <1>5
<1>9. ASSUME NEW i \in 1..NTD
      PROVE  /\ i \notin {k, k + 1} => slots'[i].link = slots[i].link
             /\ i # k + 1 => slots'[i].whole = slots[i].whole
             /\ slots'[i].status = slots[i].status
             /\ SamePacket(slots'[i], slots[i])
  <2>1. slots[i] \in Slot /\ SamePacket(slots[i], slots[i])
    BY <1>1 DEF SamePacket
  <2> QED BY <2>1, <1>4, <1>5, SlotFields
<1> QED BY <1>1, <1>6, <1>7, <1>8, <1>9 DEF k

LEMMA LinkInv ==
    ASSUME NEW t, Threads = {t}, IInv, Link(t)
    PROVE  IInv'
<1>1. t \in Threads /\ Types /\ Cause /\ Adding(t) /\ Asking(t)
  BY DEF IInv
<1>2. PICK e \in Nat : At(t, e)
  BY <1>1 DEF IInv
<1>k. PICK k \in Nat : k = last_td
  BY <1>1 DEF Types, QueueTypes
<1>L. /\ slots' \in [1..NTD -> Slot]
      /\ slots'[k + 1].whole = FALSE
      /\ slots'[k + 1].link = None
      /\ k # 0 => slots'[k].link = k + 1
      /\ \A i \in 1..NTD :
            /\ i \notin {k, k + 1} => slots'[i].link = slots[i].link
            /\ i # k + 1 => slots'[i].whole = slots[i].whole
            /\ slots'[i].status = slots[i].status
            /\ SamePacket(slots'[i], slots[i])
  BY <1>1, <1>k, LinkSlots
<1>3. /\ last_td = k /\ pc[t] = "link" /\ ~halted /\ next_td = k + 1
      /\ k < Size(t) /\ Rest(t, k)
      /\ k \in 0..NTD /\ Size(t) \in 2..NTD /\ NTD \in Nat
  BY <1>1, <1>k, ListFacts, Numbers DEF Link, Adding, Types, QueueTypes
<1>4. Head(todo[t]) = List(t)[k + 1] /\ todo[t] \in Seq(Tds)
  <2>1. todo[t] \in Seq(Tds) /\ Len(todo[t]) = Size(t) - k /\ todo[t][1] = List(t)[1 + k]
    BY <1>1, <1>3 DEF Types, ThreadTypes, Rest
  <2>2. Head(todo[t]) = todo[t][1] /\ 1 + k = k + 1
    BY <1>3, <2>1
  <2> QED BY <2>1, <2>2
<1>5. /\ last_td' = k + 1 /\ next_td' = k + 2
      /\ cur' = [cur EXCEPT ![t] = k + 1]
      /\ pc' = [pc EXCEPT ![t] = "activate"]
      /\ data_in' = IF List(t)[k + 1].tog = "in" THEN 1 - data_in ELSE data_in
      /\ data_out' = IF List(t)[k + 1].tog = "out" THEN 1 - data_out ELSE data_out
      /\ passed' = [passed EXCEPT ![t] = Toggle(List(t)[k + 1].tog, data_in', data_out')]
      /\ qh' = IF k = 0 THEN [qh EXCEPT ![Pipe] = 1] ELSE qh
  <2>1. List(t)[k + 1].pipe = Pipe
    BY <1>1, <1>3, ListFacts
  <2>2. /\ last_td' = next_td /\ next_td' = next_td + 1
        /\ cur' = [cur EXCEPT ![t] = next_td]
        /\ pc' = [pc EXCEPT ![t] = "activate"]
    BY DEF Link, Goto
  <2>3. /\ data_in' = IF Head(todo[t]).tog = "in" THEN 1 - data_in ELSE data_in
        /\ data_out' = IF Head(todo[t]).tog = "out" THEN 1 - data_out ELSE data_out
        /\ passed' = [passed EXCEPT ![t] = Toggle(Head(todo[t]).tog, data_in', data_out')]
    BY DEF Link
  <2>4. qh' = IF last_td # 0 THEN qh ELSE [qh EXCEPT ![Head(todo[t]).pipe] = next_td]
    BY DEF Link, None
  <2>5. Head(todo[t]).pipe = Pipe
    BY <2>1, <1>4
  <2>6. qh' = IF k = 0 THEN [qh EXCEPT ![Pipe] = 1] ELSE qh
    <3>1. CASE k = 0
      <4>1. last_td = 0 /\ next_td = 1
        BY <3>1, <1>3
      <4> QED BY <3>1, <4>1, <2>4, <2>5
    <3>2. CASE k # 0
      BY <3>2, <1>3, <2>4
    <3> QED BY <3>1, <3>2
  <2>7. next_td + 1 = k + 2
    BY <1>3
  <2>8. last_td' = k + 1 /\ next_td' = k + 2 /\ cur' = [cur EXCEPT ![t] = k + 1]
    BY <2>2, <2>7, <1>3
  <2>9. /\ data_in' = IF List(t)[k + 1].tog = "in" THEN 1 - data_in ELSE data_in
        /\ data_out' = IF List(t)[k + 1].tog = "out" THEN 1 - data_out ELSE data_out
        /\ passed' = [passed EXCEPT ![t] = Toggle(List(t)[k + 1].tog, data_in', data_out')]
    BY <2>3, <1>4
  <2> QED BY <2>2, <2>6, <2>8, <2>9
<1>6. UNCHANGED <<phase, port, device, dev, running, halted, todo, td, call, buff,
                  d, disk, faults, torn, early>>
  BY DEF Link, outside
<1>7. /\ List(t)' = List(t) /\ Size(t)' = Size(t) /\ Pipe' = Pipe
      /\ pc'[t] = "activate" /\ cur'[t] = k + 1
  BY <1>1, <1>5, <1>6 DEF List, Size, Pipe, Types, ThreadTypes
<1>8. /\ data_in' \in {0, 1} /\ data_out' \in {0, 1}
      /\ phase # "ready" => UNCHANGED <<data_in, data_out>>
      /\ \A i \in 1..k : TogOf(t, i)' = TogOf(t, i)
      /\ \A f \in 0..k : Toggled(t, f) => Toggled(t, f)'
  BY <1>1, <1>3, <1>5, <1>6, LinkToggles
<1>9. Types'
  <2>1. QueueTypes'
    <3>1. qh' \in [Pipes -> 0..NTD]
      BY <1>1, <1>3, <1>5 DEF Types, QueueTypes, Pipes, Pipe
    <3>2. next_td' \in Nat /\ last_td' \in 0..NTD
      BY <1>3, <1>5
    <3> QED BY <3>1, <3>2, <1>L DEF QueueTypes
  <2>2. ThreadTypes'
    <3>1. List(t)[k + 1].tog \in {"in", "out", "DATA0", "DATA1"}
      BY <1>1, <1>3, ListFacts DEF Tds
    <3>2. Toggle(List(t)[k + 1].tog, data_in', data_out') \in {0, 1}
      BY <3>1, <1>8 DEF Toggle
    <3> QED BY <3>2, <1>1, <1>3, <1>5, <1>6 DEF Types, ThreadTypes, Pc
  <2>3. DriverTypes'
    BY <1>1, <1>6, <1>8 DEF Types, DriverTypes
  <2>4. DeviceTypes'
    BY <1>1, <1>6 DEF Types, DeviceTypes
  <2> QED BY <2>1, <2>2, <2>3, <2>4 DEF Types
<1>10. Cause'
  BY <1>1, <1>6 DEF Cause
<1>11. Adding(t)'
  <2>1. Rest(t, k)'
    BY <1>3, <1>6, <1>7 DEF Rest
  <2>2. last_td' - 1 = k /\ next_td' = last_td' + 1
    BY <1>3, <1>5
  <2>3. ~slots'[last_td'].whole
    BY <1>1, <1>3, <1>5, <1>L
  <2>4. Rest(t, last_td - 1)'
    BY <2>1, <2>2 DEF Rest
  <2>5. 1 <= last_td' /\ last_td' <= Size(t)' /\ cur'[t] = last_td'
    BY <1>3, <1>5, <1>7
  <2>6. passed'[t] = Toggle(List(t)[k + 1].tog, data_in', data_out')
    BY <1>1, <1>5 DEF Types, ThreadTypes
  <2>7. passed'[t] = Toggle(List(t)[last_td].tog, data_in, data_out)'
    BY <2>6, <1>5, <1>7 DEF Toggle
  <2> QED BY <2>2, <2>3, <2>4, <2>5, <2>7, <1>7 DEF Adding
<1>12. Asking(t)'
  BY <1>1, <1>3, <1>6, <1>7 DEF Asking, Blocks
<1>13. Activated(t)' = k /\ Activated(t) = k /\ e \in 0..k
  BY <1>2, <1>3, <1>5, <1>7 DEF Activated, At
<1>14. Executed(t, e)'
  <2>1. \A i \in 1..NTD : slots'[i].status = slots[i].status
    BY <1>1, <1>L
  <2>2. Executed(t, e)
    BY <1>2 DEF At
  <2> QED BY <2>1, <2>2, <1>3, <1>6, <1>13 DEF Executed
<1>15. Pointed(t, e)'
  <2>0. Pointed(t, e)
    BY <1>2 DEF At
  <2>1. \A i \in 1..last_td'-1 : slots'[i].link = i + 1
    BY <2>0, <1>1, <1>3, <1>5, <1>L DEF Pointed
  <2>2. slots'[last_td'].link = None
    BY <1>1, <1>3, <1>5, <1>L
  <2>3. ASSUME NEW q \in Pipes, qh'[q] # None
        PROVE  q = Pipe' /\ qh'[q] = e + 1 /\ e < last_td'
    BY <2>0, <2>3, <1>1, <1>3, <1>5, <1>7, <1>13
       DEF Pointed, Types, QueueTypes
  <2>4. ASSUME qh'[Pipe'] = None PROVE early'
    <3>1. k # 0
      BY <2>4, <1>1, <1>5, <1>7 DEF Types, QueueTypes, Pipes, Pipe, None
    <3>2. qh[Pipe] = None /\ k > 0
      BY <2>4, <3>1, <1>3, <1>5, <1>7
    <3> QED BY <2>0, <3>2, <1>3, <1>6 DEF Pointed, MoreToCome
  <2> QED BY <2>1, <2>2, <2>3, <2>4 DEF Pointed
<1>16. Polled(t, e)'
  BY <1>7 DEF Polled
<1>17. torn' \/ InStep(t, e)'
  <2> SUFFICES ASSUME ~torn PROVE InStep(t, e)'
    BY <1>6
  <2>1. InStep(t, e)
    BY <1>2 DEF At
  <2>2. Written(t) = k /\ Written(t)' = k
    BY <1>3, <1>5, <1>7 DEF Written
  <2>3. Content(t)'
    <3> SUFFICES ASSUME NEW i \in 1..k
                 PROVE  Holds(t, i)' /\ slots'[i].tog = TogOf(t, i)'
      BY <2>2 DEF Content
    <3>1. Holds(t, i) /\ slots[i].tog = TogOf(t, i)
      BY <2>1, <2>2 DEF InStep, Content
    <3>2. Holds(t, i)'
      BY <3>1, <1>1, <1>3, <1>6, <1>7, <1>L DEF Holds, SamePacket
    <3> QED BY <3>1, <3>2, <1>1, <1>3, <1>8, <1>L DEF SamePacket
  <2>4. Toggled(t, e)'
    BY <2>1, <1>8, <1>13 DEF InStep
  <2>5. Through(t, e) = e /\ Through(t, e)' = e
    BY <1>3, <1>7 DEF Through
  <2> QED BY <2>1, <2>3, <2>4, <2>5, <1>3, <1>6, <1>7, <1>8, SameOutside
<1>18. At(t, e)'
  BY <1>13, <1>14, <1>15, <1>16, <1>17 DEF At
<1> QED BY <1>9, <1>10, <1>11, <1>12, <1>18, Conclude

LEMMA ActivateInv ==
    ASSUME NEW t, Threads = {t}, IInv, Activate(t)
    PROVE  IInv'
<1>1. t \in Threads /\ Types /\ Cause /\ Adding(t) /\ Asking(t)
  BY DEF IInv
<1>2. PICK e \in Nat : At(t, e)
  BY <1>1 DEF IInv
<1>k. PICK k \in Nat : k = last_td
  BY <1>1 DEF Types, QueueTypes
<1>3. /\ last_td = k /\ k \in 1..NTD /\ next_td = k + 1
      /\ pc[t] = "activate" /\ ~halted /\ cur[t] = k
      /\ k <= Size(t) /\ ~slots[k].whole /\ Rest(t, k - 1)
      /\ NTD \in Nat
  BY <1>1, <1>k, Numbers DEF Activate, Adding, Types, QueueTypes
<1>4. UNCHANGED <<phase, port, device, dev, running, halted, data_in, data_out,
                  next_td, last_td, qh, todo, cur, td, passed, call, buff,
                  d, disk, faults, torn, early>>
  BY DEF Activate, driver, outside
<1>5. /\ List(t)' = List(t) /\ Size(t)' = Size(t) /\ Pipe' = Pipe
      /\ pc' = [pc EXCEPT ![t] = "fill"] /\ pc'[t] = "fill"
  BY <1>1, <1>4 DEF List, Size, Pipe, Types, ThreadTypes, Activate, Goto
<1>6. slots' = [slots EXCEPT ![k] = Marking(slots[k], "active")]
  BY <1>3 DEF Activate, Marking
<1>7. slots \in [1..NTD -> Slot] /\ slots[k] \in Slot
  BY <1>1, <1>3 DEF Types, QueueTypes
<1>8. /\ Marking(slots[k], "active") \in Slot
      /\ slots'[k].status = "active" /\ slots'[k].whole = slots[k].whole
      /\ slots'[k].link = slots[k].link
      /\ \A i \in 1..NTD : i # k => slots'[i] = slots[i]
  BY <1>3, <1>6, <1>7, SlotFields
<1>9. Types'
  <2>1. QueueTypes'
    BY <1>1, <1>4, <1>6, <1>8 DEF Types, QueueTypes
  <2>2. ThreadTypes'
    BY <1>1, <1>4, <1>5 DEF Types, ThreadTypes, Pc
  <2> QED BY <2>1, <2>2, <1>1, <1>4 DEF Types, DriverTypes, DeviceTypes
<1>10. Cause'
  BY <1>1, <1>4 DEF Cause
<1>11. Adding(t)'
  <2>1. Rest(t, last_td - 1)'
    BY <1>3, <1>4, <1>5 DEF Rest
  <2>2. passed[t] = Toggle(List(t)[last_td].tog, data_in, data_out)
    BY <1>1, <1>3 DEF Adding
  <2>3. (passed[t] = Toggle(List(t)[last_td].tog, data_in, data_out))'
    BY <2>2, <1>4, <1>5 DEF Toggle
  <2> QED BY <2>1, <2>3, <1>3, <1>4, <1>5, <1>8 DEF Adding
<1>12. Asking(t)'
  BY <1>1, <1>3, <1>4, <1>5 DEF Asking, Blocks
<1>13. Activated(t)' = k /\ Activated(t) = k - 1 /\ e \in 0..k-1
  BY <1>2, <1>3, <1>4, <1>5 DEF Activated, At
<1>14. Executed(t, e)'
  <2>1. Executed(t, e)
    BY <1>2 DEF At
  <2>2. \A i \in 1..e : slots'[i].status = "done"
    BY <2>1, <1>3, <1>8, <1>13 DEF Executed
  <2>3. ASSUME NEW i \in e+1..k
        PROVE  \/ slots'[i].status = "active"
               \/ i = e + 1 /\ slots'[i].status = "error" /\ (faults > 0 \/ torn)
    <3>1. CASE i = k
      BY <3>1, <1>8
    <3>2. CASE i # k
      <4>1. i \in e+1..k-1 /\ i \in 1..NTD
        BY <3>2, <1>3, <1>13
      <4> QED BY <3>2, <4>1, <2>1, <1>8, <1>13 DEF Executed
    <3> QED BY <3>1, <3>2
  <2>4. \A i \in k+1..NTD : slots'[i].status = "done"
    BY <2>1, <1>3, <1>8, <1>13 DEF Executed
  <2> QED BY <2>2, <2>3, <2>4, <1>4, <1>13 DEF Executed
<1>15. Pointed(t, e)'
  <2>1. Pointed(t, e)
    BY <1>2 DEF At
  <2>2. \A i \in 1..k-1 : slots'[i].link = i + 1
    BY <2>1, <1>3, <1>8 DEF Pointed
  <2>3. slots'[k].link = None
    BY <2>1, <1>3, <1>8 DEF Pointed
  <2>4. qh[Pipe] = None => early
    BY <2>1, <1>3, <1>13 DEF Pointed
  <2> QED BY <2>1, <2>2, <2>3, <2>4, <1>3, <1>4, <1>5 DEF Pointed
<1>16. Polled(t, e)'
  BY <1>5 DEF Polled
<1>17. torn' \/ InStep(t, e)'
  <2> SUFFICES ASSUME ~torn PROVE InStep(t, e)'
    BY <1>4
  <2>1. InStep(t, e)
    BY <1>2 DEF At
  <2>2. Written(t) = k - 1 /\ Written(t)' = k - 1
    BY <1>3, <1>4, <1>5 DEF Written
  <2>3. Content(t)'
    <3> SUFFICES ASSUME NEW i \in 1..k-1
                 PROVE  Holds(t, i)' /\ slots'[i].tog = TogOf(t, i)'
      BY <2>2 DEF Content
    <3>1. Holds(t, i) /\ slots[i].tog = TogOf(t, i)
      BY <2>1, <2>2 DEF InStep, Content
    <3>2. slots'[i] = slots[i] /\ TogOf(t, i)' = TogOf(t, i)
      BY <1>3, <1>4, <1>5, <1>8 DEF TogOf, Ins, Outs, Reads
    <3> QED BY <3>1, <3>2, <1>4, <1>5 DEF Holds
  <2>4. Toggled(t, e)'
    BY <2>1, <1>4 DEF InStep, Toggled, Ins, Outs, Reads
  <2>5. Through(t, e) = e /\ Through(t, e)' = e
    BY <1>3, <1>5 DEF Through
  <2> QED BY <2>1, <2>3, <2>4, <2>5, <1>3, <1>4, <1>5, <1>13, SameOutside
<1>18. At(t, e)'
  BY <1>13, <1>14, <1>15, <1>16, <1>17 DEF At
<1> QED BY <1>9, <1>10, <1>11, <1>12, <1>18, Conclude

LEMMA FillInv ==
    ASSUME NEW t, Threads = {t}, IInv, Fill(t)
    PROVE  IInv'
<1>1. t \in Threads /\ Types /\ Cause /\ Adding(t) /\ Asking(t)
  BY DEF IInv
<1>2. PICK e \in Nat : At(t, e)
  BY <1>1 DEF IInv
<1>k. PICK k \in Nat : k = last_td
  BY <1>1 DEF Types, QueueTypes
<1>3. /\ last_td = k /\ k \in 1..NTD /\ next_td = k + 1
      /\ pc[t] = "fill" /\ ~halted /\ cur[t] = k
      /\ k <= Size(t) /\ Rest(t, k - 1)
      /\ NTD \in Nat /\ Size(t) \in 2..NTD
  BY <1>1, <1>k, ListFacts, Numbers DEF Fill, Adding, Types, QueueTypes
<1>4. UNCHANGED <<phase, port, device, dev, running, halted, data_in, data_out,
                  next_td, last_td, qh, cur, td, passed, call, buff,
                  d, disk, faults, torn, early>>
  BY DEF Fill, driver, outside
<1>5. List(t)' = List(t) /\ Size(t)' = Size(t) /\ Pipe' = Pipe
  BY <1>4 DEF List, Size, Pipe
<1>6. /\ todo[t] \in Seq(Tds) /\ Len(todo[t]) = Size(t) - (k - 1)
      /\ todo[t] # <<>> /\ Head(todo[t]) = List(t)[k]
      /\ Tail(todo[t]) \in Seq(Tds) /\ Len(Tail(todo[t])) = Size(t) - k
      /\ \A i \in 1..Size(t) - k : Tail(todo[t])[i] = List(t)[i + k]
  <2>1. todo[t] \in Seq(Tds) /\ Len(todo[t]) = Size(t) - (k - 1)
    BY <1>1, <1>3 DEF Types, ThreadTypes, Rest
  <2>2. todo[t] # <<>>
    BY <2>1, <1>3
  <2>3. todo[t][1] = List(t)[1 + (k - 1)] /\ 1 + (k - 1) = k
    <3>1. 1 \in 1..Size(t) - (k - 1) /\ 1 + (k - 1) = k
      BY <1>3
    <3>2. todo[t][1] = List(t)[1 + (k - 1)]
      BY <3>1, <1>3 DEF Rest
    <3> QED BY <3>1, <3>2
  <2>4. Head(todo[t]) = todo[t][1]
    BY <2>1, <2>2
  <2>5. /\ Tail(todo[t]) \in Seq(Tds) /\ Len(Tail(todo[t])) = Len(todo[t]) - 1
        /\ \A i \in 1..Len(Tail(todo[t])) : Tail(todo[t])[i] = todo[t][i + 1]
    BY <2>1, <2>2, HeadTailProperties
  <2>6. Len(Tail(todo[t])) = Size(t) - k
    BY <2>1, <2>5, <1>3
  <2>7. ASSUME NEW i \in 1..Size(t) - k PROVE Tail(todo[t])[i] = List(t)[i + k]
    <3>1. i + 1 \in 1..Size(t) - (k - 1) /\ (i + 1) + (k - 1) = i + k
      BY <1>3
    <3> QED BY <3>1, <2>5, <2>6, <1>3 DEF Rest
  <2> QED BY <2>1, <2>2, <2>3, <2>4, <2>5, <2>6, <2>7
<1>7. /\ todo' = [todo EXCEPT ![t] = Tail(todo[t])]
      /\ pc' = [pc EXCEPT ![t] = IF k = Size(t) THEN "run" ELSE "link"]
  <2>1. Len(todo[t]) = 1 <=> k = Size(t)
    <3>1. Len(todo[t]) = Size(t) - (k - 1)
      BY <1>6
    <3>2. PICK n \in Nat : n = Size(t)
      BY <1>3
    <3>3. k \in Nat
      OBVIOUS
    <3> QED BY <3>1, <3>2, <3>3
  <2>2. pc' = [pc EXCEPT ![t] = IF Len(todo[t]) = 1 THEN "run" ELSE "link"]
    BY DEF Fill, Goto
  <2>3. todo' = [todo EXCEPT ![t] = Tail(todo[t])]
    BY DEF Fill
  <2>4. pc' = [pc EXCEPT ![t] = IF k = Size(t) THEN "run" ELSE "link"]
    <3>1. CASE k = Size(t)
      BY <3>1, <2>1, <2>2
    <3>2. CASE k # Size(t)
      BY <3>2, <2>1, <2>2
    <3> QED BY <3>1, <3>2
  <2> QED BY <2>3, <2>4
<1>8. /\ todo'[t] = Tail(todo[t])
      /\ pc'[t] = IF k = Size(t) THEN "run" ELSE "link"
  BY <1>1, <1>7 DEF Types, ThreadTypes
<1> DEFINE y == List(t)[k]
           x == [pipe |-> y.pipe, pid |-> y.pid, tog |-> passed[t],
                 buf |-> y.buf, n |-> y.n, val |-> y.val,
                 status |-> slots[k].status, link |-> slots[k].link,
                 addr |-> dev.addr, who |-> t, whole |-> TRUE]
<1>9. slots' = [slots EXCEPT ![k] = x]
  BY <1>3, <1>6 DEF Fill
<1>10. /\ slots \in [1..NTD -> Slot] /\ slots[k] \in Slot
       /\ y \in Tds /\ t \in Nat /\ dev.addr \in {0, 1}
  BY <1>1, <1>3, ListFacts, UsbAssumption DEF Types, QueueTypes, DriverTypes
<1>11. passed[t] \in {0, 1} /\ passed[t] = Toggle(y.tog, data_in, data_out)
  BY <1>1, <1>3 DEF Types, ThreadTypes, Adding
<1>12. x \in Slot
  BY <1>10, <1>11 DEF Slot, Tds
<1>13. /\ slots'[k] = x
       /\ \A i \in 1..NTD : i # k => slots'[i] = slots[i]
  BY <1>3, <1>9, <1>10
<1>14. \A i \in 1..NTD : slots'[i].status = slots[i].status /\ slots'[i].link = slots[i].link
  BY <1>13
<1>15. Types'
  <2>1. QueueTypes'
    BY <1>1, <1>4, <1>9, <1>12 DEF Types, QueueTypes
  <2>2. ThreadTypes'
    BY <1>1, <1>4, <1>6, <1>7 DEF Types, ThreadTypes, Pc
  <2> QED BY <2>1, <2>2, <1>1, <1>4 DEF Types, DriverTypes, DeviceTypes
<1>16. Cause'
  BY <1>1, <1>4 DEF Cause
<1>17. Adding(t)'
  <2>1. Rest(t, last_td)'
    BY <1>3, <1>4, <1>5, <1>6, <1>8 DEF Rest
  <2> QED BY <2>1, <1>3, <1>4, <1>5, <1>8 DEF Adding
<1>18. Asking(t)'
  BY <1>1, <1>3, <1>4, <1>5, <1>8 DEF Asking, Blocks
<1>19. Activated(t)' = k /\ Activated(t) = k /\ e \in 0..k
  BY <1>2, <1>3, <1>4, <1>8 DEF Activated, At
<1>20. Executed(t, e)'
  BY <1>2, <1>3, <1>4, <1>14, <1>19 DEF At, Executed
<1>21. Pointed(t, e)'
  <2>1. Pointed(t, e)
    BY <1>2 DEF At
  <2>2. MoreToCome(t)' => MoreToCome(t)
    BY <1>3, <1>6, <1>8 DEF MoreToCome
  <2>3. \A i \in 1..k-1 : slots'[i].link = i + 1
    BY <2>1, <1>3, <1>14 DEF Pointed
  <2>4. slots'[k].link = None
    BY <2>1, <1>3, <1>14 DEF Pointed
  <2> QED BY <2>1, <2>2, <2>3, <2>4, <1>3, <1>4, <1>5 DEF Pointed
<1>22. Polled(t, e)'
  BY <1>8 DEF Polled
<1>23. torn' \/ InStep(t, e)'
  <2> SUFFICES ASSUME ~torn PROVE InStep(t, e)'
    BY <1>4
  <2>1. InStep(t, e)
    BY <1>2 DEF At
  <2>2. Written(t) = k - 1 /\ Written(t)' = k
    BY <1>3, <1>4, <1>8 DEF Written
  <2>3. Content(t)'
    <3> SUFFICES ASSUME NEW i \in 1..k
                 PROVE  Holds(t, i)' /\ slots'[i].tog = TogOf(t, i)'
      BY <2>2 DEF Content
    <3>1. TogOf(t, i)' = TogOf(t, i)
      BY <1>4, <1>5 DEF TogOf, Ins, Outs, Reads
    <3>2. CASE i # k
      <4>1. i \in 1..k-1
        BY <3>2, <1>3
      <4>2. Holds(t, i) /\ slots[i].tog = TogOf(t, i)
        BY <4>1, <2>1, <2>2 DEF InStep, Content
      <4>3. slots'[i] = slots[i]
        BY <4>1, <1>3, <1>13
      <4> QED BY <3>1, <4>2, <4>3, <1>4, <1>5 DEF Holds
    <3>3. CASE i = k
      <4>1. Holds(t, i)'
        BY <3>3, <1>4, <1>5, <1>13 DEF Holds
      <4>2. TogOf(t, k) = passed[t]
        <5>1. Ins(t, k) - Ins(t, k) = 0 /\ Outs(t, k) - Outs(t, k) = 0
          BY <1>3, Numbers DEF Ins, Outs
        <5>2. Flip(data_in, 0) = data_in /\ Flip(data_out, 0) = data_out
          BY <1>1, FlipFacts DEF Types, DriverTypes
        <5>3. y.tog \in {"in", "out", "DATA0", "DATA1"}
          BY <1>10 DEF Tds
        <5> QED BY <5>1, <5>2, <5>3, <1>3, <1>11 DEF TogOf, Toggle
      <4> QED BY <3>1, <3>3, <4>1, <4>2, <1>13
    <3> QED BY <3>2, <3>3
  <2>4. Toggled(t, e)'
    BY <2>1, <1>4 DEF InStep, Toggled, Ins, Outs, Reads
  <2>5. Through(t, e) = e /\ Through(t, e)' = e
    BY <1>3, <1>8 DEF Through
  <2> QED BY <2>1, <2>3, <2>4, <2>5, <1>3, <1>4, <1>8, SameOutside
<1>24. At(t, e)'
  BY <1>19, <1>20, <1>21, <1>22, <1>23 DEF At
<1> QED BY <1>15, <1>16, <1>17, <1>18, <1>24, Conclude

LEMMA RunInv ==
    ASSUME NEW t, Threads = {t}, IInv, Run(t)
    PROVE  IInv'
<1>1. t \in Threads /\ Types /\ Cause /\ Adding(t) /\ Asking(t)
  BY DEF IInv
<1>2. PICK e \in Nat : At(t, e)
  BY <1>1 DEF IInv
<1>3. /\ pc[t] = "run" /\ ~halted /\ running' = TRUE
      /\ last_td = Size(t) /\ Size(t) \in 2..NTD
  BY <1>1, ListFacts DEF Run, RunBit, Adding
<1>4. UNCHANGED <<phase, port, device, dev, halted, data_in, data_out, slots,
                  next_td, last_td, qh, cur, passed, todo, call, buff,
                  d, disk, faults, torn, early>>
  BY DEF Run, queue, outside
<1>5. List(t)' = List(t) /\ Size(t)' = Size(t) /\ Pipe' = Pipe
  BY <1>4 DEF List, Size, Pipe
<1>6. pc' = [pc EXCEPT ![t] = "poll"] /\ td' = [td EXCEPT ![t] = 2]
  BY DEF Run, Goto, FirstPolled
<1>7. pc'[t] = "poll" /\ td'[t] = 2
  BY <1>1, <1>6 DEF Types, ThreadTypes
<1>8. Types'
  <2>1. ThreadTypes'
    BY <1>1, <1>4, <1>6 DEF Types, ThreadTypes, Pc
  <2>2. DriverTypes'
    BY <1>1, <1>3, <1>4 DEF Types, DriverTypes
  <2> QED BY <2>1, <2>2, <1>1, <1>4 DEF Types, QueueTypes, DeviceTypes
<1>9. Cause'
  BY <1>1, <1>4 DEF Cause
<1>10. Adding(t)'
  BY <1>1, <1>3, <1>4, <1>5, <1>7 DEF Adding
<1>11. Asking(t)'
  BY <1>1, <1>3, <1>4, <1>7 DEF Asking, Blocks
<1>12. Activated(t)' = Activated(t) /\ e \in 0..Activated(t)
  BY <1>2, <1>3, <1>4, <1>7 DEF Activated, At
<1>13. Executed(t, e)'
  BY <1>2, <1>4, <1>12 DEF At, Executed
<1>14. Pointed(t, e)'
  <2>1. MoreToCome(t)' => MoreToCome(t)
    BY <1>7 DEF MoreToCome
  <2> QED BY <2>1, <1>2, <1>4, <1>5 DEF At, Pointed
<1>15. Polled(t, e)'
  BY <1>3, <1>4, <1>7 DEF Polled
<1>16. torn' \/ InStep(t, e)'
  <2> SUFFICES ASSUME ~torn PROVE InStep(t, e)'
    BY <1>4
  <2>1. InStep(t, e)
    BY <1>2 DEF At
  <2>2. Content(t)'
    <3>1. Written(t)' = Written(t)
      BY <1>3, <1>4, <1>7 DEF Written
    <3>2. \A i : TogOf(t, i)' = TogOf(t, i) /\ (Holds(t, i) => Holds(t, i)')
      BY <1>4, <1>5 DEF TogOf, Ins, Outs, Reads, Holds
    <3> QED BY <2>1, <3>1, <3>2, <1>4 DEF InStep, Content
  <2>3. Toggled(t, e)'
    BY <2>1, <1>4 DEF InStep, Toggled, Ins, Outs, Reads
  <2>4. Through(t, e) = e /\ Through(t, e)' = e
    BY <1>3, <1>7 DEF Through
  <2> QED BY <2>1, <2>2, <2>3, <2>4, <1>3, <1>4, <1>7, SameOutside
<1>17. At(t, e)'
  BY <1>12, <1>13, <1>14, <1>15, <1>16 DEF At
<1> QED BY <1>8, <1>9, <1>10, <1>11, <1>17, Conclude

\* A descriptor that run_qh polls and that is done is behind the controller.
LEMMA PolledDone ==
    ASSUME NEW t, Threads = {t}, Types, Adding(t), NEW e \in Nat, At(t, e),
           pc[t] = "poll", Polling(t)
    PROVE  /\ td[t] \in 2..last_td /\ last_td \in 0..NTD
           /\ slots[td[t]].status = "done" <=> td[t] <= e
           /\ slots[td[t]].status = "error" => td[t] = e + 1 /\ (faults > 0 \/ torn)
<1>1. /\ last_td \in 0..NTD /\ NTD \in Nat /\ td[t] \in 2..last_td
  BY Numbers DEF Types, QueueTypes, At, Polled, Polling
<1>2. Activated(t) = last_td /\ e \in 0..last_td
  BY DEF Activated, At
<1>3. CASE td[t] <= e
  <2>1. td[t] \in 1..e
    BY <1>1, <1>2, <1>3
  <2> QED BY <2>1, <1>1 DEF At, Executed
<1>4. CASE ~(td[t] <= e)
  <2>1. td[t] \in e+1..last_td
    BY <1>1, <1>2, <1>4
  <2> QED BY <2>1, <1>1, <1>2, <1>4 DEF At, Executed
<1> QED BY <1>3, <1>4

\* What the three outcomes of a poll, and giving up, leave as it is.
LEMMA PollFrame ==
    ASSUME NEW t, Threads = {t}, IInv, NEW e \in Nat, At(t, e),
           pc[t] = "poll", pc' = [pc EXCEPT ![t] = pc'[t]], pc'[t] \in {"poll", "reset"},
           td' = [td EXCEPT ![t] = td'[t]], td'[t] \in Nat,
           halted' \in BOOLEAN, halted' => pc'[t] = "poll" /\ (faults > 0 \/ torn \/ early),
           Polled(t, e)',
           UNCHANGED <<queue, phase, port, device, dev, running, data_in, data_out,
                       todo, cur, passed, call, buff, outside>>
    PROVE  IInv'
<1>1. t \in Threads /\ Types /\ Cause /\ Adding(t) /\ Asking(t)
  BY DEF IInv
<1>2. UNCHANGED <<phase, port, device, dev, running, data_in, data_out, slots,
                  next_td, last_td, qh, cur, passed, todo, call, buff,
                  d, disk, faults, torn, early>>
  BY DEF queue, outside
<1>3. List(t)' = List(t) /\ Size(t)' = Size(t) /\ Pipe' = Pipe
  BY <1>2 DEF List, Size, Pipe
<1>4. Types'
  <2>1. ThreadTypes'
    BY <1>1, <1>2 DEF Types, ThreadTypes, Pc
  <2>2. DriverTypes'
    BY <1>1, <1>2 DEF Types, DriverTypes
  <2> QED BY <2>1, <2>2, <1>1, <1>2 DEF Types, QueueTypes, DeviceTypes
<1>5. Cause'
  BY <1>1, <1>2 DEF Cause
<1>6. Adding(t)'
  BY <1>1, <1>2, <1>3 DEF Adding
<1>7. Asking(t)'
  BY <1>1, <1>2 DEF Asking, Blocks
<1>8. Activated(t)' = Activated(t) /\ e \in 0..Activated(t)
  BY <1>2 DEF Activated, At
<1>9. Executed(t, e)'
  BY <1>2, <1>8 DEF At, Executed
<1>10. Pointed(t, e)'
  <2>1. MoreToCome(t)' => MoreToCome(t)
    BY DEF MoreToCome
  <2> QED BY <2>1, <1>2, <1>3 DEF At, Pointed
<1>11. torn' \/ InStep(t, e)'
  <2> SUFFICES ASSUME ~torn PROVE InStep(t, e)'
    BY <1>2
  <2>1. InStep(t, e)
    BY DEF At
  <2>2. Content(t)'
    <3>1. Written(t)' = Written(t)
      BY <1>2 DEF Written
    <3>2. \A i : TogOf(t, i)' = TogOf(t, i) /\ (Holds(t, i) => Holds(t, i)')
      BY <1>2, <1>3 DEF TogOf, Ins, Outs, Reads, Holds
    <3> QED BY <2>1, <3>1, <3>2, <1>2 DEF InStep, Content
  <2>3. Toggled(t, e)'
    BY <2>1, <1>2 DEF InStep, Toggled, Ins, Outs, Reads
  <2>4. Through(t, e) = e /\ Through(t, e)' = e
    BY DEF Through
  <2> QED BY <2>1, <2>2, <2>3, <2>4, <1>2, SameOutside
<1>12. At(t, e)'
  BY <1>8, <1>9, <1>10, <1>11 DEF At
<1> QED BY <1>4, <1>5, <1>6, <1>7, <1>12, Conclude

LEMMA PollInv ==
    ASSUME NEW t, Threads = {t}, IInv, Poll(t)
    PROVE  IInv'
<1>1. t \in Threads /\ Types /\ Cause /\ Adding(t) /\ Asking(t)
  BY DEF IInv
<1>2. PICK e \in Nat : At(t, e)
  BY <1>1 DEF IInv
<1>3. /\ pc[t] = "poll" /\ ~halted /\ last_td = Size(t) /\ Size(t) \in 2..NTD
      /\ td[t] \in Nat /\ td \in [Threads -> Nat] /\ pc \in [Threads -> Pc] /\ NTD \in Nat
  BY <1>1, ListFacts, Numbers DEF Poll, Adding, Types, ThreadTypes
<1>4. UNCHANGED <<queue, phase, port, device, dev, running, data_in, data_out,
                  todo, cur, passed, call, buff, outside>>
  BY DEF Poll
<1>5. last_td' = last_td
  BY <1>4 DEF queue
<1>6. CASE Polling(t) /\ slots[td[t]].status = "done" /\ td' = [td EXCEPT ![t] = @ + 1]
           /\ UNCHANGED <<pc, halted>>
  <2>1. td[t] \in 2..last_td /\ td[t] <= e
    BY <1>1, <1>2, <1>3, <1>6, PolledDone
  <2>2. td'[t] = td[t] + 1 /\ td' = [td EXCEPT ![t] = td'[t]]
    BY <1>3, <1>6
  <2>3. Polled(t, e)'
    BY <2>1, <2>2, <1>2, <1>3, <1>5, <1>6 DEF Polled
  <2>4. pc' = [pc EXCEPT ![t] = pc'[t]] /\ pc'[t] = "poll" /\ halted' = FALSE
    BY <1>1, <1>3, <1>6 DEF Types, DriverTypes
  <2>5. td'[t] \in Nat
    BY <1>3, <2>2
  <2> QED BY <2>2, <2>3, <2>4, <2>5, <1>2, <1>3, <1>4, PollFrame
<1>7. CASE Polling(t) /\ slots[td[t]].status = "error" /\ halted' = TRUE
           /\ UNCHANGED <<pc, td>>
  <2>1. faults > 0 \/ torn
    BY <1>1, <1>2, <1>3, <1>7, PolledDone
  <2>2. Polled(t, e)'
    BY <1>2, <1>3, <1>5, <1>7 DEF At, Polled
  <2> QED BY <2>1, <2>2, <1>2, <1>3, <1>4, <1>7, PollFrame
<1>8. CASE ~Polling(t) /\ Goto(t, "reset") /\ UNCHANGED <<td, halted>>
  <2>1. pc' = [pc EXCEPT ![t] = "reset"] /\ pc'[t] = "reset"
    BY <1>3, <1>8 DEF Goto
  <2>2. e = last_td
    <3>1. td[t] \in 2..last_td+1 /\ (td[t] = 2 \/ td[t] <= e + 1)
      BY <1>2, <1>3 DEF At, Polled
    <3>2. td[t] = last_td + 1 /\ last_td >= 2
      BY <3>1, <1>3, <1>8 DEF Polling, None
    <3>3. e <= last_td
      BY <1>2, <1>3 DEF At, Activated
    <3> QED BY <3>1, <3>2, <3>3, <1>3
  <2>3. Polled(t, e)'
    BY <2>1, <2>2, <1>5 DEF Polled
  <2>4. td' = [td EXCEPT ![t] = td'[t]] /\ td'[t] \in Nat /\ halted' = FALSE
    BY <1>1, <1>3, <1>8 DEF Types, DriverTypes
  <2>5. pc' = [pc EXCEPT ![t] = pc'[t]]
    BY <1>3, <2>1
  <2> QED BY <2>1, <2>3, <2>4, <2>5, <1>2, <1>3, <1>4, PollFrame
<1> QED BY <1>6, <1>7, <1>8 DEF Poll

LEMMA ResetQhInv ==
    ASSUME NEW t, Threads = {t}, IInv, ResetQh(t)
    PROVE  IInv'
<1>1. t \in Threads /\ Types /\ Cause /\ Adding(t) /\ Asking(t)
  BY DEF IInv
<1>2. PICK e \in Nat : At(t, e)
  BY <1>1 DEF IInv
<1>3. /\ pc[t] = "reset" /\ ~halted /\ last_td = Size(t) /\ Size(t) \in 2..NTD
      /\ NTD \in Nat /\ e = last_td
      /\ phase = "ready" => Size(t) = DATA + 2
  BY <1>1, <1>2, ListFacts, Numbers DEF ResetQh, Adding, At, Polled
<1>4. UNCHANGED <<phase, port, device, dev, running, halted, data_in, data_out, slots,
                  cur, td, passed, todo, call, buff, d, disk, faults, torn, early>>
  BY DEF ResetQh, driver, outside
<1>5. /\ pc' = [pc EXCEPT ![t] = "return"] /\ last_td' = 0 /\ next_td' = 1
      /\ qh' = [q \in DOMAIN qh |-> 0]
  BY DEF ResetQh, Goto, None
<1>6. /\ List(t)' = List(t) /\ Size(t)' = Size(t) /\ Pipe' = Pipe
      /\ pc'[t] = "return"
  BY <1>1, <1>4, <1>5 DEF List, Size, Pipe, Types, ThreadTypes
<1>7. qh' \in [Pipes -> 0..NTD] /\ \A q \in Pipes : qh'[q] = 0
  BY <1>1, <1>3, <1>5 DEF Types, QueueTypes
<1>8. Types'
  <2>1. QueueTypes'
    BY <1>1, <1>3, <1>4, <1>5, <1>7 DEF Types, QueueTypes
  <2>2. ThreadTypes'
    BY <1>1, <1>4, <1>5 DEF Types, ThreadTypes, Pc
  <2> QED BY <2>1, <2>2, <1>1, <1>4 DEF Types, DriverTypes, DeviceTypes
<1>9. Cause'
  BY <1>1, <1>4 DEF Cause
<1>10. Adding(t)'
  BY <1>5, <1>6 DEF Adding
<1>11. Asking(t)'
  BY <1>1, <1>3, <1>4, <1>6 DEF Asking, Blocks
<1>12. Activated(t)' = 0 /\ Activated(t) = last_td
  BY <1>3, <1>5, <1>6 DEF Activated
<1>13. Executed(t, 0)'
  <2>1. \A i \in 1..NTD : slots[i].status = "done"
    BY <1>2, <1>3, <1>12 DEF At, Executed
  <2> QED BY <2>1, <1>3, <1>4, <1>12 DEF Executed
<1>14. Pointed(t, 0)'
  BY <1>5, <1>7 DEF Pointed, None
<1>15. Polled(t, 0)'
  BY <1>6 DEF Polled
<1>16. torn' \/ InStep(t, 0)'
  <2> SUFFICES ASSUME ~torn PROVE InStep(t, 0)'
    BY <1>4
  <2>1. InStep(t, e)
    BY <1>2 DEF At
  <2>2. Content(t)'
    BY <1>5, <1>6 DEF Content, Written
  <2>3. Toggled(t, 0)'
    <3> SUFFICES ASSUME phase = "ready"
                 PROVE  /\ d.tin = Flip(1 - data_in, 0)
                        /\ d.tout = Flip(1 - data_out, 0)
      <4>1. /\ (Ins(t, last_td) - Ins(t, 0))' = 0
            /\ (Outs(t, last_td) - Outs(t, 0))' = 0
        BY <1>5, Numbers DEF Ins, Outs
      <4> QED BY <4>1, <1>4 DEF Toggled, Flip
    <3>1. Ins(t, last_td) - Ins(t, e) = 0 /\ Outs(t, last_td) - Outs(t, e) = 0
      BY <1>3, Numbers DEF Ins, Outs
    <3> QED BY <2>1, <3>1 DEF InStep, Toggled
  <2>4. PICK j \in Nat : j = Size(t)
    BY <1>3
  <2>5. j = Through(t, e) /\ Through(t, 0)' = j
    BY <2>4, <1>3, <1>6 DEF Through
  <2> QED BY <2>1, <2>2, <2>3, <2>5, <1>3, <1>4, <1>6, SameOutside
<1>17. At(t, 0)'
  BY <1>12, <1>13, <1>14, <1>15, <1>16 DEF At
<1> QED BY <1>8, <1>9, <1>10, <1>11, <1>17, Conclude

-----------------------------------------------------------------------------
(* What the controller executes next.                                      *)

\* The descriptor that follows the first i of a command.
LEMMA NextPacket ==
    ASSUME Types, NEW t \in Threads, phase = "ready", NEW i \in 0..DATA+1
    PROVE  \/ /\ i = 0
              /\ List(t)[i + 1] = Cbw(IF Reads(t) THEN "read" ELSE "write", call[t].block)
           \/ /\ i \in 1..DATA /\ Reads(t)
              /\ List(t)[i + 1] = Td("bulk", "IN", "in", "data", i, "none")
           \/ /\ i \in 1..DATA /\ ~Reads(t)
              /\ List(t)[i + 1] = Td("bulk", "OUT", "out", "data", i, call[t].val)
           \/ i = DATA + 1 /\ List(t)[i + 1] = CswIn
<1>1. call[t].block \in Nat /\ call[t].val \in Words
  BY DEF Types, ThreadTypes, Calls
<1>2. i = 0 \/ i = DATA + 1 \/ i \in 1..DATA
  BY Numbers
<1>3. List(t) = IF Reads(t) THEN ReadBbb(call[t].block)
                ELSE WriteBbb(call[t].block, call[t].val)
  BY DEF List, Reads
<1>4. CASE i = 0
  <2>1. i + 1 = 1
    BY <1>4
  <2>2. List(t)[1] = Cbw(IF Reads(t) THEN "read" ELSE "write", call[t].block)
    BY <1>1, <1>3, ReadList, WriteList
  <2> QED BY <1>4, <2>1, <2>2
<1>5. CASE i = DATA + 1
  <2>1. i + 1 = DATA + 2
    BY <1>5, Numbers
  <2> QED BY <1>1, <1>3, <1>5, <2>1, ReadList, WriteList
<1>6. CASE i \in 1..DATA
  <2>1. i + 1 \in 2..DATA+1
    BY <1>6, Numbers
  <2>0. (i + 1) - 1 = i
    OBVIOUS
  <2>2. CASE Reads(t)
    <3>1. List(t)[i + 1] = Td("bulk", "IN", "in", "data", (i + 1) - 1, "none")
      BY <1>1, <1>3, <2>1, <2>2, ReadList
    <3> QED BY <1>6, <2>0, <2>2, <3>1
  <2>3. CASE ~Reads(t)
    <3>1. List(t) = WriteBbb(call[t].block, call[t].val)
      BY <1>3, <2>3
    <3>2. \A k \in 2..DATA+1 : WriteBbb(call[t].block, call[t].val)[k]
                                 = Td("bulk", "OUT", "out", "data", k - 1, call[t].val)
      BY <1>1, WriteList
    <3>3. List(t)[i + 1] = Td("bulk", "OUT", "out", "data", (i + 1) - 1, call[t].val)
      BY <2>1, <3>1, <3>2
    <3> QED BY <1>6, <2>0, <2>3, <3>3
  <2> QED BY <2>2, <2>3
<1> QED BY <1>2, <1>4, <1>5, <1>6

\* The packet that x asks for is the one that the device expects or sends
\* when the first e packets of the command of t are through.
Due(t, e, x) ==
    \/ /\ e = 0 /\ d.next = "cbw" /\ x.tog = d.tout
       /\ x.pid = "OUT" /\ x.buf = "cbw" /\ x.n = call[t].block
       /\ x.val = IF Reads(t) THEN "read" ELSE "write"
    \/ /\ e \in 1..DATA /\ Reads(t) /\ d.next = "in" /\ x.tog = d.tin
       /\ x.pid = "IN" /\ x.buf = "data" /\ x.n = e
    \/ /\ e \in 1..DATA /\ ~Reads(t) /\ d.next = "out" /\ x.tog = d.tout
       /\ x.pid = "OUT" /\ x.buf = "data" /\ x.val = call[t].val
    \/ /\ e = DATA + 1 /\ d.next = "csw" /\ x.tog = d.tin
       /\ x.pid = "IN" /\ x.buf = "csw"

\* The device expects the next descriptor, once it is completely written.
LEMMA NextDue ==
    ASSUME NEW t, Threads = {t}, Types, Adding(t), Asking(t), NEW e \in Nat, At(t, e),
           ~torn, pc[t] \notin {"idle", "return"}, e + 1 <= Written(t)
    PROVE  /\ e + 1 \in 1..NTD /\ e + 1 \in 1..Size(t) /\ Holds(t, e + 1)
           /\ slots[e + 1].addr = d.addr
           /\ phase = "ready" => e \in 0..DATA+1 /\ Due(t, e, slots[e + 1])
<1>1. /\ last_td \in 0..NTD /\ Size(t) \in 2..NTD /\ NTD \in Nat /\ t \in Threads
      /\ last_td <= Size(t)
      /\ phase = "ready" => Size(t) = DATA + 2
      /\ phase \in Sets => Size(t) = 2
  BY ListFacts, Numbers DEF Types, QueueTypes, ThreadTypes, Adding, Pc
<1>2. e + 1 \in 1..last_td
  BY <1>1 DEF Written
<1>3. InStep(t, e)
  BY DEF At
<1>4. Holds(t, e + 1) /\ slots[e + 1].tog = TogOf(t, e + 1)
  BY <1>2, <1>3 DEF InStep, Content
<1>5. Outside(t, e)
  BY <1>3 DEF InStep, Through
<1>6. slots[e + 1].addr = d.addr
  <2>1. phase \notin {"detect", "gone"}
    BY DEF Asking
  <2>2. d.addr = IF phase = "set_addr" /\ e = 2 THEN 1 ELSE dev.addr
    BY <1>5, <2>1 DEF Outside, Address
  <2>3. ~(phase = "set_addr" /\ e = 2)
    BY <1>1, <1>2 DEF Sets
  <2> QED BY <2>2, <2>3, <1>4 DEF Holds
<1>7. ASSUME phase = "ready" PROVE e \in 0..DATA+1 /\ Due(t, e, slots[e + 1])
  <2>1. e \in 0..DATA+1 /\ last_td \in 0..DATA+2 /\ e + 1 \in 0..last_td
    BY <1>1, <1>2, <1>7, Numbers
  <2> DEFINE x == slots[e + 1]
             y == List(t)[e + 1]
             m == Ins(t, last_td) - Ins(t, e + 1)
             n == Outs(t, last_td) - Outs(t, e + 1)
  <2>2. m \in Nat /\ n \in Nat
    BY <2>1, CountsGrow
  <2>3. /\ Ins(t, last_td) \in Int /\ Outs(t, last_td) \in Int
        /\ Ins(t, e) \in Int /\ Outs(t, e) \in Int
    BY <2>1, Numbers DEF Ins, Outs
  <2>4. data_in \in {0, 1} /\ data_out \in {0, 1}
    BY DEF Types, DriverTypes
  <2>5. y.tog = "in" => x.tog = d.tin
    <3> SUFFICES ASSUME y.tog = "in" PROVE x.tog = d.tin
      OBVIOUS
    <3>1. Ins(t, e + 1) = Ins(t, e) + 1
      BY <1>7, <2>1, NextTog
    <3>2. d.tin = Flip(1 - data_in, m + 1)
      <4>1. Ins(t, last_td) - Ins(t, e) = m + 1
        BY <2>3, <3>1
      <4> QED BY <1>3, <1>7, <4>1 DEF InStep, Toggled
    <3>3. x.tog = Flip(data_in, m)
      BY <1>4 DEF TogOf
    <3> HIDE DEF m
    <3> QED BY <3>2, <3>3, <2>2, <2>4, FlipFacts
  <2>6. y.tog = "out" => x.tog = d.tout
    <3> SUFFICES ASSUME y.tog = "out" PROVE x.tog = d.tout
      OBVIOUS
    <3>1. Outs(t, e + 1) = Outs(t, e) + 1
      BY <1>7, <2>1, NextTog
    <3>2. d.tout = Flip(1 - data_out, n + 1)
      <4>1. Outs(t, last_td) - Outs(t, e) = n + 1
        BY <2>3, <3>1
      <4> QED BY <1>3, <1>7, <4>1 DEF InStep, Toggled
    <3>3. x.tog = Flip(data_out, n)
      BY <1>4 DEF TogOf
    <3> HIDE DEF n
    <3> QED BY <3>2, <3>3, <2>2, <2>4, FlipFacts
  <2>7. /\ x.pid = y.pid /\ x.buf = y.buf /\ x.n = y.n /\ x.val = y.val
    BY <1>4 DEF Holds
  <2>8. Stage(t, e)
    BY <1>5 DEF Outside
  <2>0. \/ e = 0 /\ y = Cbw(IF Reads(t) THEN "read" ELSE "write", call[t].block)
        \/ e \in 1..DATA /\ Reads(t) /\ y = Td("bulk", "IN", "in", "data", e, "none")
        \/ e \in 1..DATA /\ ~Reads(t) /\ y = Td("bulk", "OUT", "out", "data", e, call[t].val)
        \/ e = DATA + 1 /\ y = CswIn
    BY <1>1, <1>7, <2>1, NextPacket
  <2> HIDE DEF x, y
  <2>9. CASE e = 0
    <3>1. y = Cbw(IF Reads(t) THEN "read" ELSE "write", call[t].block)
      BY <2>0, <2>9, Numbers
    <3>2. d.next = "cbw"
      BY <2>8, <2>9, <1>7 DEF Stage
    <3> QED BY <2>1, <2>6, <2>7, <2>9, <3>1, <3>2 DEF Due, Cbw, Td, x
  <2>10. CASE e \in 1..DATA /\ Reads(t)
    <3>1. y = Td("bulk", "IN", "in", "data", e, "none")
      BY <2>0, <2>10, Numbers
    <3>2. d.next = "in"
      BY <2>8, <2>10, <1>7, Numbers DEF Stage
    <3> QED BY <2>1, <2>5, <2>7, <2>10, <3>1, <3>2 DEF Due, Td, x
  <2>11. CASE e \in 1..DATA /\ ~Reads(t)
    <3>1. y = Td("bulk", "OUT", "out", "data", e, call[t].val)
      BY <2>0, <2>11, Numbers
    <3>2. d.next = "out"
      BY <2>8, <2>11, <1>7, Numbers DEF Stage
    <3> QED BY <2>1, <2>6, <2>7, <2>11, <3>1, <3>2 DEF Due, Td, x
  <2>12. CASE e = DATA + 1
    <3>1. y = CswIn
      BY <2>0, <2>12, Numbers
    <3>2. d.next = "csw"
      BY <2>8, <2>12, <1>7, Numbers DEF Stage
    <3> QED BY <2>1, <2>5, <2>7, <2>12, <3>1, <3>2 DEF Due, CswIn, Td, x
  <2> QED BY <2>1, <2>9, <2>10, <2>11, <2>12, Numbers
<1> QED BY <1>1, <1>2, <1>4, <1>6, <1>7

\* Giving up has a cause: what run_qh waits for would have been executed.
LEMMA TimeoutInv ==
    ASSUME NEW t, Threads = {t}, IInv, Timeout(t)
    PROVE  IInv'
<1>1. t \in Threads /\ Types /\ Cause /\ Adding(t) /\ Asking(t)
  BY DEF IInv
<1>2. PICK e \in Nat : At(t, e)
  BY <1>1 DEF IInv
<1>3. /\ pc[t] = "poll" /\ ~halted /\ halted' = TRUE /\ running
      /\ Polling(t) /\ slots[td[t]].status = "active" /\ Stuck
      /\ td[t] \in Nat /\ td \in [Threads -> Nat] /\ pc \in [Threads -> Pc]
  BY <1>1 DEF Timeout, GivesUp, Types, ThreadTypes, Asking
<1>4. UNCHANGED <<queue, phase, port, device, dev, running, data_in, data_out,
                  thread, outside>>
  BY DEF Timeout
<1>5. UNCHANGED <<pc, todo, cur, td, passed, call, buff, last_td>>
  BY <1>4 DEF queue, thread
<1>6. faults > 0 \/ torn \/ early
  <2> SUFFICES ASSUME ~torn, ~early, ~(faults > 0) PROVE FALSE
    OBVIOUS
  <2>1. td[t] \in 2..last_td /\ ~(td[t] <= e) /\ last_td \in 0..NTD
    BY <1>1, <1>2, <1>3, PolledDone
  <2>2. e + 1 \in 1..last_td /\ e < last_td /\ last_td > 0
    BY <2>1
  <2>3. slots[e + 1].status = "active"
    <3>1. Activated(t) = last_td /\ e + 1 \in e+1..last_td
      BY <1>3, <2>1, <2>2 DEF Activated
    <3>2. \/ slots[e + 1].status = "active"
          \/ slots[e + 1].status = "error" /\ (faults > 0 \/ torn)
      BY <1>2, <3>1 DEF At, Executed
    <3> QED BY <3>2
  <2>4. qh[Pipe] = e + 1 /\ Pipe \in DOMAIN qh /\ Pipe \in Pipes
    <3>1. Pipe \in DOMAIN qh /\ Pipe \in Pipes
      BY <1>1 DEF Types, QueueTypes, Pipe, Pipes
    <3>2. qh[Pipe] # None
      BY <1>2, <2>2 DEF At, Pointed
    <3> QED BY <1>2, <3>1, <3>2 DEF At, Pointed
  <2>5. Reached(Pipe)
    BY <1>3, <2>3, <2>4 DEF Reached, None
  <2>6. e + 1 <= Written(t)
    BY <1>3, <2>2 DEF Written
  <2>7. /\ Holds(t, e + 1) /\ e + 1 \in 1..Size(t)
        /\ slots[e + 1].addr = d.addr
        /\ phase = "ready" => Due(t, e, slots[e + 1])
    BY <1>1, <1>2, <1>3, <2>6, NextDue
  <2>8. ~d.dead
    BY <1>1 DEF Cause
  <2>9. phase # "ready" => slots[e + 1].pipe = "ctrl"
    <3>1. List(t)[e + 1].pipe = Pipe
      BY <1>1, <2>7, ListFacts
    <3> QED BY <2>7, <3>1 DEF Holds, Pipe
  <2>10. Answers(slots[e + 1])
    BY <2>7, <2>8, <2>9 DEF Answers, Due
  <2> QED BY <1>3, <2>4, <2>5, <2>10 DEF Stuck
<1>7. Polled(t, e)'
  BY <1>2, <1>3, <1>5 DEF At, Polled
<1>8. pc' = [pc EXCEPT ![t] = pc'[t]] /\ pc'[t] = "poll" /\ td' = [td EXCEPT ![t] = td'[t]]
      /\ td'[t] \in Nat
  BY <1>3, <1>5
<1> QED BY <1>2, <1>3, <1>4, <1>5, <1>6, <1>7, <1>8, PollFrame

-----------------------------------------------------------------------------
(* Between two transfers.                                                  *)

\* The queue is empty and the device ready for the next transfer.
AtRest(t) ==
    /\ next_td = 1 /\ last_td = 0 /\ ~halted
    /\ \A i \in 1..NTD : slots[i].status = "done"
    /\ \A q \in Pipes : qh[q] = None
    /\ torn \/ (Memory /\ Toggled(t, 0) /\ Outside(t, 0))

LEMMA RestFacts ==
    ASSUME NEW t, Threads = {t}, IInv, pc[t] = "idle"
    PROVE  AtRest(t)
<1>1. t \in Threads /\ Types /\ Adding(t) /\ Asking(t)
  BY DEF IInv
<1>2. PICK e \in Nat : At(t, e)
  BY <1>1 DEF IInv
<1>3. last_td = 0 /\ next_td = 1 /\ ~halted /\ Activated(t) = 0
  BY <1>1 DEF Adding, Asking, Activated
<1>4. e = 0
  BY <1>2, <1>3 DEF At
<1>5. \A i \in 1..NTD : slots[i].status = "done"
  BY <1>2, <1>3, <1>4, Numbers DEF At, Executed
<1>6. \A q \in Pipes : qh[q] = None
  BY <1>2, <1>3, <1>4 DEF At, Pointed
<1>7. ASSUME ~torn PROVE Memory /\ Toggled(t, 0) /\ Outside(t, 0)
  <2>1. InStep(t, 0)
    BY <1>2, <1>4, <1>7 DEF At
  <2>2. Through(t, 0) = 0
    BY DEF Through
  <2> QED BY <2>1, <2>2 DEF InStep
<1> QED BY <1>3, <1>5, <1>6, <1>7 DEF AtRest

LEMMA RestInv ==
    ASSUME NEW t, Threads = {t}, Types', Cause', pc'[t] = "idle", AtRest(t)'
    PROVE  IInv'
<1>1. Adding(t)' /\ Asking(t)'
  BY DEF Adding, Asking, AtRest
<1>2. Activated(t)' = 0
  BY DEF Activated, AtRest
<1>3. Executed(t, 0)'
  BY <1>2 DEF Executed, AtRest
<1>4. Pointed(t, 0)'
  <2>1. last_td' = 0
    BY DEF AtRest
  <2>2. \A i \in 1..last_td'-1 : slots'[i].link = i + 1
    BY <2>1
  <2>3. \A q \in Pipes : qh'[q] = None
    BY DEF AtRest
  <2> QED BY <2>1, <2>2, <2>3 DEF Pointed
<1>5. Polled(t, 0)'
  BY DEF Polled
<1>6. torn' \/ InStep(t, 0)'
  <2>1. Content(t)'
    BY DEF Content, Written, AtRest
  <2>2. Through(t, 0)' = 0
    BY DEF Through
  <2> QED BY <2>1, <2>2 DEF InStep, AtRest
<1>7. At(t, 0)'
  BY <1>2, <1>3, <1>4, <1>5, <1>6 DEF At
<1>8. 0 \in Nat
  OBVIOUS
<1> QED BY <1>1, <1>7, <1>8, Conclude

LEMMA DeviceStarts == Device0 \in Dev /\ ~Device0.dead /\ Device0.addr = 0
                      /\ Device0.next = "none"
BY Numbers DEF Device0, Dev, Words

LEMMA DetectInv ==
    ASSUME NEW t, Threads = {t}, IInv, Detect(t)
    PROVE  IInv'
<1>1. t \in Threads /\ Types /\ Cause
  BY DEF IInv
<1>2. AtRest(t)
  BY RestFacts DEF Detect
<1>3. /\ phase = "detect" /\ pc[t] = "idle"
      /\ \/ phase' = "gone" /\ UNCHANGED <<running, d>>
         \/ phase' = "get_dev_desc" /\ running' = FALSE /\ d' = Device0
      /\ UNCHANGED <<slots, next_td, last_td, qh, dev, data_in, data_out, halted,
                     pc, todo, cur, td, passed, call, buff, disk, faults, torn, early>>
  BY DEF Detect, queue, thread
<1>4. Types'
  <2>1. QueueTypes'
    BY <1>1, <1>3 DEF Types, QueueTypes
  <2>2. ThreadTypes'
    BY <1>1, <1>3 DEF Types, ThreadTypes
  <2>3. DriverTypes'
    BY <1>1, <1>3 DEF Types, DriverTypes, Phase, GetDescs
  <2>4. DeviceTypes'
    BY <1>1, <1>3, DeviceStarts DEF Types, DeviceTypes
  <2> QED BY <2>1, <2>2, <2>3, <2>4 DEF Types
<1>5. Cause'
  BY <1>1, <1>3, DeviceStarts DEF Cause
<1>6. ASSUME ~torn PROVE (Memory /\ Toggled(t, 0) /\ Outside(t, 0))'
  <2>1. Memory /\ Address(0)
    BY <1>2, <1>6 DEF AtRest, Outside
  <2>2. Memory'
    BY <1>3, <2>1 DEF Memory, Blocks
  <2>3. Address(0)'
    BY <1>3, <2>1, DeviceStarts DEF Address
  <2>4. Configuring(t, 0)'
    BY <1>3, DeviceStarts DEF Configuring, Configured, GetDescs, Sets
  <2>5. Toggled(t, 0)' /\ Kept' /\ Stage(t, 0)' /\ Moved(t, 0)'
    BY <1>3 DEF Toggled, Kept, Stage, Moved
  <2> QED BY <2>2, <2>3, <2>4, <2>5 DEF Outside
<1>7. AtRest(t)'
  BY <1>2, <1>3, <1>6 DEF AtRest
<1> QED BY <1>3, <1>4, <1>5, <1>7, RestInv

\* A transfer begins with an empty queue.
LEMMA BeginInv ==
    ASSUME NEW t, Threads = {t}, IInv, NEW what \in Calls, NEW list,
           Begin(t, what, list), phase \notin {"detect", "gone"},
           List(t)' = list,
           IF phase = "ready" THEN what.op \in {"read", "write"} /\ what.block \in Blocks
           ELSE what.op = phase,
           data_in' \in {0, 1}, data_out' \in {0, 1},
           IF phase = "bbb_reset" THEN data_in' = 1 /\ data_out' = 1
           ELSE UNCHANGED <<data_in, data_out>>
    PROVE  IInv'
<1>1. t \in Threads /\ Types /\ Cause
  BY DEF IInv
<1>2. AtRest(t)
  BY RestFacts DEF Begin
<1>3. /\ call' = [call EXCEPT ![t] = what]
      /\ todo' = [todo EXCEPT ![t] = list]
      /\ buff' = [buff EXCEPT ![t] = NoBuff]
      /\ pc' = [pc EXCEPT ![t] = "link"]
      /\ UNCHANGED <<slots, next_td, last_td, qh, phase, device, dev, running, halted, cur, td,
                     passed, d, disk, faults, torn, early>>
  BY DEF Begin, Goto, queue, outside
<1>4. /\ call'[t] = what /\ todo'[t] = list /\ pc'[t] = "link"
  BY <1>1, <1>3 DEF Types, ThreadTypes
<1>5. next_td' = 1 /\ last_td' = 0 /\ ~halted'
  BY <1>2, <1>3 DEF AtRest
<1>6. QueueTypes' /\ DriverTypes' /\ DeviceTypes'
  <2>1. QueueTypes'
    BY <1>1, <1>3 DEF Types, QueueTypes
  <2>2. DriverTypes'
    BY <1>1, <1>3 DEF Types, DriverTypes
  <2>3. DeviceTypes'
    BY <1>1, <1>3 DEF Types, DeviceTypes
  <2> QED BY <2>1, <2>2, <2>3
<1>7. list \in Seq(Tds) /\ Len(list) \in 2..NTD
  <2>1. CASE phase = "ready"
    <3>1. list = IF what.op = "read" THEN ReadBbb(what.block) ELSE WriteBbb(what.block, what.val)
      BY <1>3, <1>4, <2>1 DEF List
    <3>2. what.block \in Nat /\ what.val \in Words
      BY DEF Calls
    <3>3. list \in Seq(Tds) /\ Len(list) = DATA + 2
      BY <3>1, <3>2, ReadList, WriteList
    <3> QED BY <3>3, Numbers
  <2>2. CASE phase # "ready"
    <3>1. list = Control(phase)
      BY <1>3, <2>2 DEF List
    <3>2. phase \in Words
      BY <1>1 DEF Types, DriverTypes, Phase, Words
    <3>3. list \in Seq(Tds) /\ Len(list) = IF phase \in GetDescs THEN 3 ELSE 2
      BY <3>1, <3>2, ControlList
    <3> QED BY <3>3, Numbers
  <2> QED BY <2>1, <2>2
<1>8. Types'
  <2>1. ThreadTypes'
    BY <1>1, <1>3, <1>7 DEF Types, ThreadTypes, Pc
  <2> QED BY <1>6, <2>1 DEF Types
<1>9. Cause'
  BY <1>1, <1>3 DEF Cause
<1>10. Size(t)' = Len(list)
  BY DEF Size
<1>11. Adding(t)'
  <2>1. Rest(t, last_td)'
    BY <1>4, <1>5, <1>7, <1>10 DEF Rest
  <2> QED BY <2>1, <1>4, <1>5, <1>7, <1>10 DEF Adding
<1>12. Asking(t)'
  BY <1>3, <1>4, <1>5 DEF Asking, GetDescs, Sets, Blocks
<1>13. Activated(t)' = 0
  BY <1>4, <1>5 DEF Activated
<1>14. Executed(t, 0)'
  BY <1>2, <1>3, <1>13 DEF Executed, AtRest
<1>15. Pointed(t, 0)'
  BY <1>2, <1>3, <1>5 DEF Pointed, AtRest
<1>16. Polled(t, 0)'
  BY <1>4 DEF Polled
<1>17. torn' \/ InStep(t, 0)'
  <2> SUFFICES ASSUME ~torn PROVE InStep(t, 0)'
    BY <1>3
  <2>1. Memory /\ Toggled(t, 0) /\ Outside(t, 0)
    BY <1>2 DEF AtRest
  <2>2. Memory'
    <3>1. NoBuff \in Buffs
      BY DEF NoBuff, Buffs, Words
    <3> QED BY <3>1, <2>1, <1>3 DEF Memory, Blocks
  <2>3. Content(t)'
    BY <1>4, <1>5 DEF Content, Written
  <2>4. Toggled(t, 0)'
    <3> SUFFICES ASSUME phase = "ready"
                 PROVE  d.tin = Flip(1 - data_in, 0) /\ d.tout = Flip(1 - data_out, 0)
      <4>1. /\ (Ins(t, last_td) - Ins(t, 0))' = 0
            /\ (Outs(t, last_td) - Outs(t, 0))' = 0
        BY <1>5, Numbers DEF Ins, Outs
      <4> QED BY <4>1, <1>3 DEF Toggled, Flip
    <3>1. last_td = 0
      BY <1>2 DEF AtRest
    <3>2. Ins(t, last_td) - Ins(t, 0) = 0 /\ Outs(t, last_td) - Outs(t, 0) = 0
      BY <3>1, Numbers DEF Ins, Outs
    <3> QED BY <2>1, <3>2 DEF Toggled
  <2>5. Address(0)'
    BY <1>3, <2>1 DEF Outside, Address
  <2>6. Configuring(t, 0)'
    BY <1>3, <2>1 DEF Outside, Configuring, Configured
  <2>7. Stage(t, 0)' /\ Kept'
    BY <1>3, <2>1, Numbers DEF Outside, Stage, Kept
  <2>8. Moved(t, 0)'
    <3>1. buff'[t].csw = "none"
      BY <1>1, <1>3, <2>1 DEF Memory, NoBuff
    <3>2. \A i \in 1..DATA : ~(i < 0)
      BY Numbers
    <3> QED BY <3>1, <3>2, Numbers DEF Moved
  <2>9. Through(t, 0)' = 0
    BY <1>4 DEF Through
  <2> QED BY <1>4, <2>2, <2>3, <2>4, <2>5, <2>6, <2>7, <2>8, <2>9 DEF InStep, Outside
<1>18. At(t, 0)'
  BY <1>13, <1>14, <1>15, <1>16, <1>17 DEF At
<1>19. 0 \in Nat
  OBVIOUS
<1> QED BY <1>8, <1>9, <1>11, <1>12, <1>18, <1>19, Conclude

LEMMA BeginControlInv ==
    ASSUME NEW t, Threads = {t}, IInv, BeginControl(t)
    PROVE  IInv'
<1> DEFINE what == [NoCall EXCEPT !.op = phase]
<1>1. /\ phase \in GetDescs \cup Sets
      /\ Begin(t, what, Control(phase))
      /\ IF phase = "bbb_reset" THEN data_in' = 1 /\ data_out' = 1
         ELSE UNCHANGED <<data_in, data_out>>
  BY DEF BeginControl, NextIsDATA0
<1>2. what \in Calls /\ what.op = phase
  BY <1>1 DEF NoCall, Calls, Words
<1>3. phase \notin {"detect", "gone", "ready"}
  BY <1>1 DEF GetDescs, Sets
<1>4. phase' = phase
  BY <1>1 DEF Begin
<1>5. List(t)' = Control(phase)
  BY <1>3, <1>4 DEF List
<1>6. data_in' \in {0, 1} /\ data_out' \in {0, 1}
  BY <1>1 DEF IInv, Types, DriverTypes
<1> HIDE DEF what
<1> QED BY <1>1, <1>2, <1>3, <1>5, <1>6, BeginInv

LEMMA BlockNumbers == Blocks \subseteq Nat
BY UsbAssumption DEF Blocks

LEMMA ReadInv ==
    ASSUME NEW t, Threads = {t}, IInv, Read(t)
    PROVE  IInv'
<1>1. PICK b \in Uses[t] :
         /\ phase = "ready"
         /\ Begin(t, [op |-> "read", block |-> b, val |-> "none"], ReadBbb(b))
         /\ UNCHANGED <<data_in, data_out>>
  BY DEF Read
<1> DEFINE what == [op |-> "read", block |-> b, val |-> "none"]
<1>2. b \in Blocks /\ b \in Nat
  BY <1>1, BlockNumbers DEF Blocks
<1>3. what \in Calls /\ what.op = "read" /\ what.block = b
  BY <1>2 DEF Calls, Words
<1>4. Begin(t, what, ReadBbb(b))
  BY <1>1
<1> HIDE DEF what
<1>5. phase' = phase /\ call'[t] = what
  BY <1>4 DEF Begin, IInv, Types, ThreadTypes
<1>6. List(t)' = ReadBbb(b)
  BY <1>1, <1>3, <1>5 DEF List
<1>7. data_in' \in {0, 1} /\ data_out' \in {0, 1}
  BY <1>1 DEF IInv, Types, DriverTypes
<1> QED BY <1>1, <1>2, <1>3, <1>4, <1>6, <1>7, BeginInv

LEMMA WriteInv ==
    ASSUME NEW t, Threads = {t}, IInv, Write(t)
    PROVE  IInv'
<1>1. PICK b \in Uses[t], v \in {"old", "new"} :
         /\ phase = "ready"
         /\ Begin(t, [op |-> "write", block |-> b, val |-> v], WriteBbb(b, v))
         /\ UNCHANGED <<data_in, data_out>>
  BY DEF Write
<1> DEFINE what == [op |-> "write", block |-> b, val |-> v]
<1>2. b \in Blocks /\ b \in Nat
  BY <1>1, BlockNumbers DEF Blocks
<1>3. what \in Calls /\ what.op = "write" /\ what.block = b /\ what.val = v
  BY <1>2 DEF Calls, Words
<1>4. Begin(t, what, WriteBbb(b, v))
  BY <1>1
<1> HIDE DEF what
<1>5. phase' = phase /\ call'[t] = what
  BY <1>4 DEF Begin, IInv, Types, ThreadTypes
<1>6. List(t)' = WriteBbb(b, v)
  BY <1>1, <1>3, <1>5 DEF List
<1>7. data_in' \in {0, 1} /\ data_out' \in {0, 1}
  BY <1>1 DEF IInv, Types, DriverTypes
<1> QED BY <1>1, <1>2, <1>3, <1>4, <1>6, <1>7, BeginInv

\* What holds when a transfer is over, before its caller goes on.
LEMMA ReturnFacts ==
    ASSUME NEW t, Threads = {t}, IInv, pc[t] = "return"
    PROVE  /\ next_td = 1 /\ last_td = 0 /\ ~halted
           /\ \A i \in 1..NTD : slots[i].status = "done"
           /\ \A q \in Pipes : qh[q] = None
           /\ torn \/ (Memory /\ Toggled(t, 0) /\ Outside(t, Size(t)))
<1>1. t \in Threads /\ Types /\ Adding(t) /\ Asking(t)
  BY DEF IInv
<1>2. PICK e \in Nat : At(t, e)
  BY <1>1 DEF IInv
<1>3. last_td = 0 /\ next_td = 1 /\ ~halted /\ Activated(t) = 0
  BY <1>1 DEF Adding, Asking, Activated
<1>4. e = 0
  BY <1>2, <1>3 DEF At
<1>5. \A i \in 1..NTD : slots[i].status = "done"
  BY <1>2, <1>3, <1>4, Numbers DEF At, Executed
<1>6. \A q \in Pipes : qh[q] = None
  BY <1>2, <1>3, <1>4 DEF At, Pointed
<1>7. ASSUME ~torn PROVE Memory /\ Toggled(t, 0) /\ Outside(t, Size(t))
  <2>1. InStep(t, 0)
    BY <1>2, <1>4, <1>7 DEF At
  <2>2. Through(t, 0) = Size(t)
    BY DEF Through
  <2> QED BY <2>1, <2>2 DEF InStep
<1> QED BY <1>3, <1>5, <1>6, <1>7

LEMMA ReturnInv ==
    ASSUME NEW t, Threads = {t}, IInv, Return(t)
    PROVE  IInv'
<1>1. t \in Threads /\ Types /\ Cause
  BY DEF IInv
<1>2. /\ pc[t] = "return" /\ phase = "ready"
      /\ pc' = [pc EXCEPT ![t] = "idle"]
      /\ UNCHANGED <<phase, port, device, dev, running, halted, data_in, data_out, slots,
                     next_td, last_td, qh, cur, td, passed, todo, call, buff,
                     d, disk, faults, torn, early>>
  BY DEF Return, Goto, queue, driver, outside
<1>3. /\ next_td = 1 /\ last_td = 0 /\ ~halted
      /\ \A i \in 1..NTD : slots[i].status = "done"
      /\ \A q \in Pipes : qh[q] = None
      /\ torn \/ (Memory /\ Toggled(t, 0) /\ Outside(t, Size(t)))
  BY <1>2, ReturnFacts
<1>4. Size(t) = DATA + 2
  BY <1>1, <1>2, ListFacts
<1>5. pc'[t] = "idle"
  BY <1>1, <1>2 DEF Types, ThreadTypes
<1>6. Types'
  <2>1. ThreadTypes'
    BY <1>1, <1>2 DEF Types, ThreadTypes, Pc
  <2> QED BY <2>1, <1>1, <1>2 DEF Types, QueueTypes, DriverTypes, DeviceTypes
<1>7. Cause'
  BY <1>1, <1>2 DEF Cause
<1>8. ASSUME ~torn PROVE (Memory /\ Toggled(t, 0) /\ Outside(t, 0))'
  <2>1. Memory /\ Toggled(t, 0) /\ Address(Size(t)) /\ Stage(t, Size(t)) /\ Kept
    BY <1>3, <1>8 DEF Outside
  <2>2. Memory'
    BY <1>2, <2>1 DEF Memory, Blocks
  <2>3. Toggled(t, 0)'
    BY <1>2, <2>1 DEF Toggled, Ins, Outs, Reads
  <2>4. Address(0)'
    BY <1>2, <2>1 DEF Address
  <2>5. Configuring(t, 0)'
    BY <1>2 DEF Configuring, GetDescs, Sets
  <2>6. Stage(t, 0)' /\ Kept'
    BY <1>2, <1>4, <2>1, Numbers DEF Stage, Kept
  <2>7. Moved(t, 0)'
    BY <1>5 DEF Moved
  <2> QED BY <2>2, <2>3, <2>4, <2>5, <2>6, <2>7 DEF Outside
<1>9. AtRest(t)'
  BY <1>2, <1>3, <1>8 DEF AtRest
<1> QED BY <1>5, <1>6, <1>7, <1>9, RestInv

LEMMA EndControlInv ==
    ASSUME NEW t, Threads = {t}, IInv, EndControl(t)
    PROVE  IInv'
<1>1. t \in Threads /\ Types /\ Cause
  BY DEF IInv
<1>2. /\ pc[t] = "return" /\ phase \in GetDescs \cup Sets
      /\ pc' = [pc EXCEPT ![t] = "idle"]
      /\ UNCHANGED <<port, device, running, halted, data_in, data_out, slots,
                     next_td, last_td, qh, cur, td, passed, todo, call, buff,
                     d, disk, faults, torn, early>>
  BY DEF EndControl, Goto, queue, outside
<1>3. /\ next_td = 1 /\ last_td = 0 /\ ~halted
      /\ \A i \in 1..NTD : slots[i].status = "done"
      /\ \A q \in Pipes : qh[q] = None
      /\ torn \/ (Memory /\ Toggled(t, 0) /\ Outside(t, Size(t)))
  BY <1>2, ReturnFacts
<1>4. (phase \in Sets => Size(t) = 2) /\ Size(t) \in 2..NTD
  BY <1>1, ListFacts
<1>5. pc'[t] = "idle"
  BY <1>1, <1>2 DEF Types, ThreadTypes
<1>6. \/ phase = "get_dev_desc" /\ phase' \in {"gone", "set_addr"}
      \/ phase = "set_addr" /\ phase' = "get_config_desc"
      \/ phase = "get_config_desc" /\ phase' \in {"gone", "set_config"}
      \/ phase = "set_config" /\ phase' = "set_inter"
      \/ phase = "set_inter" /\ phase' = "bbb_reset"
      \/ phase = "bbb_reset" /\ phase' = "ready"
  BY <1>2 DEF EndControl, After, GetDescs, Sets
<1>7. /\ dev' = [addr |-> dev'.addr, inter |-> dev'.inter,
                 in_endp |-> dev'.in_endp, out_endp |-> dev'.out_endp]
      /\ dev'.addr = IF phase = "set_addr" THEN 1 ELSE dev.addr
  <2>1. dev = [addr |-> dev.addr, inter |-> dev.inter,
               in_endp |-> dev.in_endp, out_endp |-> dev.out_endp]
    BY <1>1 DEF Types, DriverTypes
  <2>2. PICK desc \in Heard(t) : dev' \in Known(desc)
    BY DEF EndControl
  <2>3. CASE phase = "set_addr"
    <3>1. dev' = [dev EXCEPT !.addr = 1]
      BY <2>2, <2>3 DEF Known
    <3> QED BY <2>1, <2>3, <3>1
  <2>4. CASE phase = "get_config_desc"
    <3>1. PICK found \in Parsed(desc) :
             dev' = [dev EXCEPT !.inter = found.inter, !.in_endp = found.in_endp,
                                !.out_endp = found.out_endp]
      BY <2>2, <2>4 DEF Known
    <3> QED BY <2>1, <2>4, <3>1
  <2>5. CASE phase \notin {"set_addr", "get_config_desc"}
    <3>1. dev' = dev
      BY <2>2, <2>5 DEF Known
    <3> QED BY <2>1, <2>5, <3>1
  <2> QED BY <2>3, <2>4, <2>5
<1>8. Types'
  <2>1. ThreadTypes'
    BY <1>1, <1>2 DEF Types, ThreadTypes, Pc
  <2>2. DriverTypes'
    <3>1. dev'.addr \in {0, 1}
      BY <1>1, <1>7 DEF Types, DriverTypes
    <3>2. phase' \in Phase
      BY <1>6 DEF Phase, GetDescs, Sets
    <3> QED BY <3>1, <3>2, <1>1, <1>2, <1>7 DEF Types, DriverTypes
  <2> QED BY <2>1, <2>2, <1>1, <1>2 DEF Types, QueueTypes, DeviceTypes
<1>9. Cause'
  BY <1>1, <1>2 DEF Cause
<1>10. ASSUME ~torn PROVE (Memory /\ Toggled(t, 0) /\ Outside(t, 0))'
  <2>1. /\ Memory /\ Address(Size(t)) /\ Configuring(t, Size(t)) /\ Kept
    BY <1>3, <1>10 DEF Outside
  <2>2. Memory'
    BY <1>2, <2>1 DEF Memory, Blocks
  <2>3. Address(0)'
    BY <1>2, <1>4, <1>6, <1>7, <2>1 DEF Address, Sets
  <2>4. Configuring(t, 0)'
    BY <1>2, <1>4, <1>5, <1>6, <2>1 DEF Configuring, Configured, GetDescs, Sets
  <2>5. ASSUME phase' = "ready"
        PROVE  d.next = "cbw" /\ d.tin = 0 /\ d.tout = 0 /\ data_in = 1 /\ data_out = 1
    BY <1>2, <1>6, <2>1, <2>5 DEF Configuring, Configured, Sets
  <2>6. Toggled(t, 0)'
    <3>1. /\ (Ins(t, last_td) - Ins(t, 0))' = 0
          /\ (Outs(t, last_td) - Outs(t, 0))' = 0
      BY <1>2, <1>3, Numbers DEF Ins, Outs
    <3> QED BY <1>2, <2>5, <3>1 DEF Toggled, Flip
  <2>7. Stage(t, 0)'
    BY <1>2, <2>5, Numbers DEF Stage
  <2>8. Moved(t, 0)'
    BY <1>5 DEF Moved
  <2>9. Kept'
    <3>1. PICK desc \in Heard(t) : dev' \in Known(desc) /\ phase' = After(desc, dev')
      BY DEF EndControl
    <3>2. CASE phase = "get_config_desc"
      <4>1. buff[t].desc = phase
        BY <1>4, <2>1, <3>2 DEF Configuring, GetDescs
      <4>2. desc = device
        BY <4>1 DEF Heard
      <4>3. dev = [addr |-> dev.addr, inter |-> dev.inter,
                   in_endp |-> dev.in_endp, out_endp |-> dev.out_endp]
        BY <1>1 DEF Types, DriverTypes
      <4>4. PICK found \in Parsed(device) :
               dev' = [dev EXCEPT !.inter = found.inter, !.in_endp = found.in_endp,
                                  !.out_endp = found.out_endp]
        BY <3>1, <3>2, <4>2 DEF Known
      <4>5. /\ dev'.inter = found.inter
            /\ dev'.in_endp = found.in_endp /\ dev'.out_endp = found.out_endp
        BY <4>3, <4>4
      <4>6. phase' = "set_config" => IsDisk(found)
        BY <3>1, <3>2, <4>5 DEF After, IsDisk
      <4> QED BY <1>2, <1>6, <3>2, <4>5, <4>6 DEF Kept, Takes
    <3>3. CASE phase # "get_config_desc"
      <4>1. phase \notin {"set_addr", "get_config_desc"} => dev' = dev
        BY <3>1, <3>3 DEF Known
      <4> QED BY <1>2, <1>6, <2>1, <3>3, <4>1 DEF Kept
    <3> QED BY <3>2, <3>3
  <2> QED BY <2>2, <2>3, <2>4, <2>6, <2>7, <2>8, <2>9 DEF Outside
<1>11. AtRest(t)'
  BY <1>2, <1>3, <1>10 DEF AtRest
<1> QED BY <1>5, <1>8, <1>9, <1>11, RestInv

-----------------------------------------------------------------------------
(* The steps of the controller.                                            *)

\* The descriptor that a queue has reached is the one after those executed.
LEMMA ReachedFacts ==
    ASSUME NEW t, Threads = {t}, Types, Adding(t), NEW e \in Nat, At(t, e),
           NEW q \in Pipes, Reached(q)
    PROVE  /\ q = Pipe /\ qh[q] = e + 1 /\ pc[t] \notin {"idle", "return"}
           /\ e + 1 \in 1..Activated(t) /\ e + 1 \in 1..last_td /\ e + 1 \in 1..NTD
           /\ last_td \in 1..NTD /\ Activated(t) \in 1..last_td
           /\ slots[e + 1] \in Slot /\ slots[e + 1].status = "active"
           /\ slots[e + 1].link = IF e + 1 < last_td THEN e + 2 ELSE None
<1>1. last_td \in 0..NTD /\ NTD \in Nat /\ slots \in [1..NTD -> Slot] /\ t \in Threads
  BY Numbers DEF Types, QueueTypes
<1>2. q = Pipe /\ qh[q] = e + 1 /\ e < last_td /\ slots[e + 1].status = "active"
  BY DEF At, Pointed, Reached
<1>3. last_td \in 1..NTD /\ e + 1 \in 1..last_td /\ e + 1 \in 1..NTD
  BY <1>1, <1>2
<1>4. Activated(t) \in 0..last_td
  BY <1>3 DEF Activated
<1>5. e + 1 <= Activated(t)
  <2> SUFFICES ASSUME ~(e + 1 <= Activated(t)) PROVE FALSE
    OBVIOUS
  <2>1. e + 1 \in Activated(t)+1..NTD
    BY <1>1, <1>3, <1>4
  <2>2. slots[e + 1].status = "done"
    BY <2>1 DEF At, Executed
  <2> QED BY <1>2, <2>2
<1>6. pc[t] \notin {"idle", "return"}
  BY <1>3 DEF Adding
<1>7. slots[e + 1].link = IF e + 1 < last_td THEN e + 2 ELSE None
  <2>1. CASE e + 1 < last_td
    <3>1. e + 1 \in 1..last_td-1
      BY <1>3, <2>1
    <3> QED BY <2>1, <3>1 DEF At, Pointed
  <2>2. CASE ~(e + 1 < last_td)
    <3>1. e + 1 = last_td /\ last_td > 0
      BY <1>3, <2>2
    <3> QED BY <2>2, <3>1 DEF At, Pointed
  <2> QED BY <2>1, <2>2
<1> QED BY <1>1, <1>2, <1>3, <1>4, <1>5, <1>6, <1>7

\* What the controller does to a descriptor leaves the thread where it is.
LEMMA Marked ==
    ASSUME NEW t, Threads = {t}, Types, Adding(t), Asking(t),
           NEW i \in 1..NTD, NEW mark \in {"active", "done", "error"},
           slots' = [slots EXCEPT ![i] = Marking(slots[i], mark)],
           UNCHANGED <<next_td, last_td, driver, pc, todo, cur, td, passed, call>>
    PROVE  /\ Adding(t)' /\ Asking(t)' /\ ThreadTypes' /\ DriverTypes'
           /\ slots' \in [1..NTD -> Slot]
           /\ slots'[i].status = mark
           /\ \A k \in 1..NTD : slots'[k].link = slots[k].link
           /\ \A k \in 1..NTD : k # i => slots'[k].status = slots[k].status
           /\ Activated(t)' = Activated(t) /\ MoreToCome(t)' = MoreToCome(t)
           /\ Pipe' = Pipe
           /\ Content(t) => Content(t)'
<1>1. UNCHANGED <<phase, port, device, dev, running, data_in, data_out, halted>>
  BY DEF driver
<1>2. List(t)' = List(t) /\ Size(t)' = Size(t) /\ Pipe' = Pipe
  BY <1>1 DEF List, Size, Pipe
<1>3. slots \in [1..NTD -> Slot] /\ slots[i] \in Slot /\ last_td \in 0..NTD
  BY DEF Types, QueueTypes
<1>4. slots' \in [1..NTD -> Slot]
  BY <1>3, SlotFields
<1>5. ASSUME NEW k \in 1..NTD
      PROVE  /\ slots'[k].link = slots[k].link /\ slots'[k].whole = slots[k].whole
             /\ slots'[k].status = IF k = i THEN mark ELSE slots[k].status
             /\ SamePacket(slots'[k], slots[k])
  <2>1. CASE k = i
    <3>1. slots'[k] = Marking(slots[k], mark) /\ slots[k] \in Slot
      BY <2>1, <1>3
    <3>2. /\ Marking(slots[k], mark).link = slots[k].link
          /\ Marking(slots[k], mark).status = mark
          /\ Marking(slots[k], mark).whole = slots[k].whole
          /\ SamePacket(Marking(slots[k], mark), slots[k])
      BY <3>1, SlotFields
    <3> QED BY <2>1, <3>1, <3>2
  <2>2. CASE k # i
    BY <2>2, <1>3 DEF SamePacket
  <2> QED BY <2>1, <2>2
<1>6. Adding(t)'
  <2>1. Rest(t, last_td)' = Rest(t, last_td) /\ Rest(t, last_td - 1)' = Rest(t, last_td - 1)
    BY <1>2 DEF Rest
  <2>2. last_td \in 1..NTD => slots'[last_td].whole = slots[last_td].whole
    BY <1>5
  <2>3. Toggle(List(t)[last_td].tog, data_in, data_out)'
          = Toggle(List(t)[last_td].tog, data_in, data_out)
    BY <1>1, <1>2 DEF Toggle
  <2> QED BY <2>1, <2>2, <2>3, <1>2, <1>3 DEF Adding
<1>7. Asking(t)'
  BY <1>1 DEF Asking, Blocks
<1>8. ThreadTypes' /\ DriverTypes'
  BY <1>1 DEF Types, ThreadTypes, DriverTypes
<1>9. Activated(t)' = Activated(t) /\ MoreToCome(t)' = MoreToCome(t) /\ Written(t)' = Written(t)
  BY DEF Activated, MoreToCome, Written
<1>10. ASSUME Content(t) PROVE Content(t)'
  <2> SUFFICES ASSUME NEW k \in 1..Written(t)
               PROVE  Holds(t, k)' /\ slots'[k].tog = TogOf(t, k)'
    BY <1>9 DEF Content
  <2>1. k \in 1..NTD
    BY <1>3, Numbers DEF Written
  <2>2. Holds(t, k) /\ slots[k].tog = TogOf(t, k)
    BY <1>10 DEF Content
  <2>3. TogOf(t, k)' = TogOf(t, k)
    BY <1>1, <1>2 DEF TogOf, Ins, Outs, Reads
  <2>4. Holds(t, k)'
    BY <1>1, <1>2, <1>5, <2>1, <2>2 DEF Holds, SamePacket
  <2> QED BY <2>1, <2>2, <2>3, <2>4, <1>5 DEF SamePacket
<1> QED BY <1>2, <1>4, <1>5, <1>6, <1>7, <1>8, <1>9, <1>10

\* A packet fails: the queue stops at the descriptor.
LEMMA FailedInv ==
    ASSUME NEW t, Threads = {t}, IInv, NEW q \in Pipes, Reached(q), Failed(qh[q]),
           UNCHANGED <<next_td, last_td, driver, thread, d, disk>>,
           torn' \in BOOLEAN, early' \in BOOLEAN, torn => torn', early => early',
           faults' \in faults..MaxFaults, faults' > 0 \/ torn'
    PROVE  IInv'
<1>1. t \in Threads /\ Types /\ Cause /\ Adding(t) /\ Asking(t)
  BY DEF IInv
<1>2. PICK e \in Nat : At(t, e)
  BY <1>1 DEF IInv
<1>3. /\ q = Pipe /\ qh[q] = e + 1 /\ pc[t] \notin {"idle", "return"}
      /\ e + 1 \in 1..Activated(t) /\ e + 1 \in 1..NTD
      /\ Activated(t) \in 1..last_td /\ last_td \in 1..NTD /\ NTD \in Nat
  BY <1>1, <1>2, ReachedFacts, Numbers
<1>4. slots' = [slots EXCEPT ![e + 1] = Marking(slots[e + 1], "error")] /\ qh' = qh
  BY <1>3 DEF Failed, Marking
<1>5. UNCHANGED <<pc, todo, cur, td, passed, call, buff>>
  BY DEF thread
<1>6. /\ Adding(t)' /\ Asking(t)' /\ ThreadTypes' /\ DriverTypes'
      /\ slots' \in [1..NTD -> Slot]
      /\ slots'[e + 1].status = "error"
      /\ \A k \in 1..NTD : slots'[k].link = slots[k].link
      /\ \A k \in 1..NTD : k # e + 1 => slots'[k].status = slots[k].status
      /\ Activated(t)' = Activated(t) /\ MoreToCome(t)' = MoreToCome(t)
      /\ Pipe' = Pipe
      /\ Content(t) => Content(t)'
  BY <1>1, <1>3, <1>4, <1>5, Marked
<1>7. faults \in 0..MaxFaults /\ faults' \in 0..MaxFaults /\ (faults > 0 => faults' > 0)
  BY <1>1, UsbAssumption DEF Types, DeviceTypes
<1>8. Types'
  <2>1. QueueTypes'
    BY <1>1, <1>4, <1>6 DEF Types, QueueTypes
  <2>2. DeviceTypes'
    BY <1>1, <1>7 DEF Types, DeviceTypes
  <2> QED BY <2>1, <2>2, <1>6 DEF Types
<1>9. Cause'
  BY <1>1, <1>7 DEF Cause, driver
<1>10. Executed(t, e)'
  <2>1. Executed(t, e)
    BY <1>2 DEF At
  <2>2. \A i \in 1..e : slots'[i].status = "done"
    BY <2>1, <1>3, <1>6 DEF Executed
  <2>3. ASSUME NEW i \in e+1..Activated(t)
        PROVE  \/ slots'[i].status = "active"
               \/ i = e + 1 /\ slots'[i].status = "error" /\ (faults' > 0 \/ torn')
    <3>1. CASE i = e + 1
      BY <3>1, <1>6
    <3>2. CASE i # e + 1
      <4>1. i \in 1..NTD
        BY <1>3
      <4> QED BY <3>2, <4>1, <2>1, <1>6 DEF Executed
    <3> QED BY <3>1, <3>2
  <2>4. \A i \in Activated(t)+1..NTD : slots'[i].status = "done"
    BY <2>1, <1>3, <1>6 DEF Executed
  <2> QED BY <2>2, <2>3, <2>4, <1>6 DEF Executed
<1>11. Pointed(t, e)'
  <2>1. Pointed(t, e)
    BY <1>2 DEF At
  <2>2. \A i \in 1..last_td-1 : slots'[i].link = i + 1
    BY <2>1, <1>3, <1>6 DEF Pointed
  <2>3. slots'[last_td].link = None
    BY <2>1, <1>3, <1>6 DEF Pointed
  <2>4. qh'[Pipe'] # None
    BY <1>3, <1>4, <1>6 DEF None
  <2> QED BY <2>1, <2>2, <2>3, <2>4, <1>4, <1>6 DEF Pointed
<1>12. Polled(t, e)'
  BY <1>2, <1>5 DEF At, Polled
<1>13. torn' \/ InStep(t, e)'
  <2> SUFFICES ASSUME ~torn' PROVE InStep(t, e)'
    OBVIOUS
  <2>1. InStep(t, e)
    BY <1>2 DEF At
  <2>2. UNCHANGED <<phase, device, dev, data_in, data_out>>
    BY DEF driver
  <2>3. Content(t)'
    BY <2>1, <1>6 DEF InStep
  <2>4. Toggled(t, e)'
    BY <2>1, <2>2, <1>5 DEF InStep, Toggled, Ins, Outs, Reads
  <2>5. Through(t, e) = e /\ Through(t, e)' = e
    BY <1>3, <1>5 DEF Through
  <2>6. pc'[t] = "fill" => e < last_td'
    BY <2>1, <1>5 DEF InStep
  <2> QED BY <2>1, <2>2, <2>3, <2>4, <2>5, <2>6, <1>3, <1>5, SameOutside
<1>14. At(t, e)'
  BY <1>3, <1>6, <1>10, <1>11, <1>12, <1>13 DEF At
<1> QED BY <1>6, <1>8, <1>9, <1>14, Conclude

\* The controller goes past the descriptor, or, if the packet had the wrong
\* toggle, tries it again.
LEMMA DoneInv ==
    ASSUME NEW t, Threads = {t}, IInv, NEW e \in Nat, At(t, e), NEW q \in Pipes, Reached(q),
           \/ Done(q, e + 1)
           \/ UNCHANGED <<slots, qh>> /\ torn',
           UNCHANGED <<next_td, last_td, driver, pc, todo, cur, td, passed, call, faults>>,
           torn' = (torn \/ ~slots[e + 1].whole),
           early' = (early \/ (slots[e + 1].link = None /\ MoreToCome(t))),
           DeviceTypes', d'.dead = d.dead,
           torn' \/ (Memory /\ Toggled(t, e + 1) /\ Outside(t, e + 1))'
    PROVE  IInv'
<1>1. t \in Threads /\ Types /\ Cause /\ Adding(t) /\ Asking(t)
  BY DEF IInv
<1>2. /\ q = Pipe /\ qh[q] = e + 1 /\ pc[t] \notin {"idle", "return"}
      /\ e + 1 \in 1..Activated(t) /\ e + 1 \in 1..NTD /\ e + 1 \in 1..last_td
      /\ Activated(t) \in 1..last_td /\ last_td \in 1..NTD
      /\ slots[e + 1] \in Slot /\ slots[e + 1].status = "active"
      /\ slots[e + 1].link = IF e + 1 < last_td THEN e + 2 ELSE None
      /\ NTD \in Nat
  BY <1>1, ReachedFacts, Numbers
<1>3. Cause'
  <2>1. early => early'
    BY DEF Types, DeviceTypes
  <2>2. torn => torn'
    OBVIOUS
  <2>3. halted' = halted
    BY DEF driver
  <2> QED BY <1>1, <2>1, <2>2, <2>3 DEF Cause
<1>4. CASE UNCHANGED <<slots, qh>> /\ torn'
  <2>1. slots' = [slots EXCEPT ![e + 1] = Marking(slots[e + 1], "active")]
    BY <1>1, <1>2, <1>4 DEF Types, QueueTypes, Marking, Slot
  <2>2. /\ Adding(t)' /\ Asking(t)' /\ ThreadTypes' /\ DriverTypes'
        /\ Activated(t)' = Activated(t) /\ MoreToCome(t)' = MoreToCome(t)
        /\ Pipe' = Pipe
    BY <1>1, <1>2, <2>1, Marked
  <2>3. Types'
    BY <1>1, <1>4, <2>2 DEF Types, QueueTypes
  <2>4. Executed(t, e)'
    BY <1>4, <2>2 DEF At, Executed
  <2>5. Pointed(t, e)'
    <3>1. qh[Pipe] # None
      BY <1>2 DEF None
    <3> QED BY <1>4, <2>2, <3>1 DEF At, Pointed
  <2>6. Polled(t, e)'
    BY DEF At, Polled
  <2>7. At(t, e)'
    BY <1>2, <1>4, <2>2, <2>4, <2>5, <2>6 DEF At
  <2> QED BY <1>3, <2>2, <2>3, <2>7, Conclude
<1>5. CASE Done(q, e + 1)
  <2>1. /\ slots' = [slots EXCEPT ![e + 1] = Marking(slots[e + 1], "done")]
        /\ qh' = [qh EXCEPT ![q] = IF e + 1 < last_td THEN e + 2 ELSE None]
    BY <1>2, <1>5 DEF Done, Marking
  <2>2. /\ Adding(t)' /\ Asking(t)' /\ ThreadTypes' /\ DriverTypes'
        /\ slots' \in [1..NTD -> Slot]
        /\ slots'[e + 1].status = "done"
        /\ \A k \in 1..NTD : slots'[k].link = slots[k].link
        /\ \A k \in 1..NTD : k # e + 1 => slots'[k].status = slots[k].status
        /\ Activated(t)' = Activated(t) /\ MoreToCome(t)' = MoreToCome(t)
        /\ Pipe' = Pipe
        /\ Content(t) => Content(t)'
    BY <1>1, <1>2, <2>1, Marked
  <2>3. qh \in [Pipes -> 0..NTD] /\ qh' \in [Pipes -> 0..NTD]
    <3>1. qh \in [Pipes -> 0..NTD]
      BY <1>1 DEF Types, QueueTypes
    <3>2. (IF e + 1 < last_td THEN e + 2 ELSE None) \in 0..NTD
      BY <1>2 DEF None
    <3> QED BY <2>1, <3>1, <3>2
  <2>4. Types'
    <3>1. QueueTypes'
      BY <1>1, <2>2, <2>3 DEF Types, QueueTypes
    <3> QED BY <2>2, <3>1 DEF Types
  <2>5. Executed(t, e + 1)'
    <3>1. Executed(t, e)
      BY DEF At
    <3>2. ASSUME NEW i \in 1..e+1 PROVE slots'[i].status = "done"
      <4>1. CASE i = e + 1
        BY <4>1, <2>2
      <4>2. CASE i # e + 1
        <5>1. i \in 1..e /\ i \in 1..NTD
          BY <4>2, <1>2
        <5> QED BY <4>2, <5>1, <3>1, <2>2 DEF Executed
      <4> QED BY <4>1, <4>2
    <3>3. ASSUME NEW i \in (e + 1)+1..Activated(t) PROVE slots'[i].status = "active"
      <4>1. i \in e+1..Activated(t) /\ i # e + 1 /\ i \in 1..NTD
        BY <1>2
      <4> QED BY <4>1, <3>1, <2>2 DEF Executed
    <3>4. \A i \in Activated(t)+1..NTD : slots'[i].status = "done"
      BY <3>1, <1>2, <2>2 DEF Executed
    <3> QED BY <3>2, <3>3, <3>4, <2>2 DEF Executed
  <2>6. Pointed(t, e + 1)'
    <3>1. Pointed(t, e)
      BY DEF At
    <3>2. \A i \in 1..last_td-1 : slots'[i].link = i + 1
      BY <3>1, <1>2, <2>2 DEF Pointed
    <3>3. slots'[last_td].link = None
      BY <3>1, <1>2, <2>2 DEF Pointed
    <3>4. ASSUME NEW p \in Pipes, qh'[p] # None
          PROVE  p = Pipe /\ qh'[p] = (e + 1) + 1 /\ e + 1 < last_td
      <4>1. CASE p = q
        <5>1. qh'[q] = IF e + 1 < last_td THEN e + 2 ELSE None
          BY <3>4, <4>1, <2>1, <2>3
        <5>2. e + 1 < last_td /\ qh'[q] = e + 2
          BY <5>1, <4>1, <3>4
        <5>3. e + 2 = (e + 1) + 1
          OBVIOUS
        <5> QED BY <4>1, <5>2, <5>3, <1>2
      <4>2. CASE p # q
        BY <4>2, <3>4, <3>1, <1>2, <2>1, <2>3 DEF Pointed
      <4> QED BY <4>1, <4>2
    <3>5. ASSUME qh'[Pipe] = None, e + 1 < last_td \/ MoreToCome(t) PROVE early'
      <4>1. ~(e + 1 < last_td)
        BY <3>5, <1>2, <2>1, <2>3 DEF None
      <4> QED BY <3>5, <4>1, <1>2
    <3> QED BY <3>2, <3>3, <3>4, <3>5, <2>2 DEF Pointed
  <2>7. Polled(t, e + 1)'
    <3>1. Polled(t, e)
      BY DEF At
    <3>2. pc[t] = "poll" => td[t] \in 2..last_td+1 /\ (td[t] = 2 \/ td[t] <= (e + 1) + 1)
      BY <3>1, <1>2 DEF Polled
    <3>3. pc[t] # "reset"
      BY <3>1, <1>2 DEF Polled
    <3> QED BY <3>2, <3>3 DEF Polled
  <2>8. torn' \/ InStep(t, e + 1)'
    <3> SUFFICES ASSUME ~torn' PROVE InStep(t, e + 1)'
      OBVIOUS
    <3>1. InStep(t, e) /\ slots[e + 1].whole
      BY DEF At
    <3>2. pc'[t] = "fill" => e + 1 < last_td'
      BY <3>1, <1>1, <1>2 DEF Adding
    <3>3. Through(t, e + 1)' = e + 1
      BY <1>2 DEF Through
    <3> QED BY <3>1, <3>2, <3>3, <2>2 DEF InStep
  <2>9. e + 1 \in 0..Activated(t)'
    BY <1>2, <2>2
  <2>10. At(t, e + 1)' /\ e + 1 \in Nat
    BY <2>5, <2>6, <2>7, <2>8, <2>9 DEF At
  <2> QED BY <1>3, <2>2, <2>4, <2>10, Conclude
<1> QED BY <1>4, <1>5

LEMMA FaultInv ==
    ASSUME NEW t, Threads = {t}, IInv, NEW q \in Pipes, Fault(q)
    PROVE  IInv'
<1>1. t \in Threads /\ Types /\ Cause /\ Adding(t) /\ Asking(t)
  BY DEF IInv
<1>2. /\ faults < MaxFaults /\ faults' = faults + 1 /\ Reached(q)
      /\ UNCHANGED <<next_td, last_td, driver, thread, disk, torn, early>>
  BY DEF Fault
<1>3. faults \in Nat /\ MaxFaults \in Nat /\ torn \in BOOLEAN /\ early \in BOOLEAN
  BY <1>1, UsbAssumption DEF Types, DeviceTypes
<1>4. faults' \in faults..MaxFaults /\ faults' > 0 /\ faults' \in 0..MaxFaults
  BY <1>2, <1>3
<1>5. CASE Failed(qh[q]) /\ UNCHANGED d
  BY <1>2, <1>3, <1>4, <1>5, FailedInv
<1>6. CASE d' = [d EXCEPT !.dead = TRUE] /\ UNCHANGED <<slots, qh>>
  <2>1. PICK e \in Nat : At(t, e)
    BY <1>1 DEF IInv
  <2>2. /\ pc[t] \notin {"idle", "return"} /\ e + 1 \in 1..NTD
        /\ slots[e + 1] \in Slot /\ slots[e + 1].status = "active"
    BY <1>1, <1>2, <2>1, ReachedFacts
  <2>3. slots' = [slots EXCEPT ![e + 1] = Marking(slots[e + 1], "active")]
    BY <1>1, <1>6, <2>2 DEF Types, QueueTypes, Marking, Slot
  <2>4. UNCHANGED <<pc, todo, cur, td, passed, call, buff>>
    BY <1>2 DEF thread
  <2>5. /\ Adding(t)' /\ Asking(t)' /\ ThreadTypes' /\ DriverTypes'
        /\ Activated(t)' = Activated(t) /\ MoreToCome(t)' = MoreToCome(t)
        /\ Pipe' = Pipe /\ (Content(t) => Content(t)')
    BY <1>1, <1>2, <2>2, <2>3, <2>4, Marked
  <2>6. /\ d' \in Dev
        /\ d'.addr = d.addr /\ d'.req = d.req /\ d'.next = d.next /\ d'.block = d.block
        /\ d'.n = d.n /\ d'.tin = d.tin /\ d'.tout = d.tout /\ d'.works = d.works
    BY <1>1, <1>6 DEF Types, DeviceTypes, Dev
  <2>7. Types'
    <3>1. QueueTypes'
      BY <1>1, <1>2, <1>6 DEF Types, QueueTypes
    <3>2. DeviceTypes'
      BY <1>1, <1>2, <1>4, <2>6 DEF Types, DeviceTypes
    <3> QED BY <2>5, <3>1, <3>2 DEF Types
  <2>8. Cause'
    BY <1>4 DEF Cause
  <2>9. Executed(t, e)'
    BY <1>4, <1>6, <2>1, <2>5, <1>2 DEF At, Executed
  <2>10. Pointed(t, e)'
    BY <1>2, <1>6, <2>1, <2>5 DEF At, Pointed
  <2>11. Polled(t, e)'
    BY <1>2, <2>1, <2>4 DEF At, Polled
  <2>12. torn' \/ InStep(t, e)'
    <3> SUFFICES ASSUME ~torn PROVE InStep(t, e)'
      BY <1>2
    <3>1. InStep(t, e)
      BY <2>1 DEF At
    <3>2. UNCHANGED <<phase, device, dev, data_in, data_out>>
      BY <1>2 DEF driver
    <3>3. Memory'
      BY <3>1, <1>2, <2>4 DEF InStep, Memory, Blocks
    <3>4. Toggled(t, e)'
      BY <3>1, <3>2, <1>2, <2>4, <2>6 DEF InStep, Toggled, Ins, Outs, Reads
    <3>5. Through(t, e) = e /\ Through(t, e)' = e
      BY <2>2, <2>4 DEF Through
    <3>6. Outside(t, e)
      BY <3>1, <3>5 DEF InStep
    <3>7. Address(e)' /\ Configuring(t, e)' /\ Kept'
      BY <3>2, <3>6, <2>4, <2>6 DEF Outside, Address, Configuring, Configured, Kept
    <3>8. Stage(t, e)'
      BY <3>2, <3>6, <2>4, <2>6 DEF Outside, Stage, Reads
    <3>9. Moved(t, e)'
      BY <3>2, <3>6, <1>2, <2>4, <2>6 DEF Outside, Moved, Reads
    <3>10. pc'[t] = "fill" => e < last_td'
      BY <3>1, <1>2, <2>4 DEF InStep
    <3> QED BY <3>1, <3>3, <3>4, <3>5, <3>7, <3>8, <3>9, <3>10, <2>5 DEF InStep, Outside
  <2>13. At(t, e)'
    BY <2>1, <2>5, <2>9, <2>10, <2>11, <2>12 DEF At
  <2> QED BY <2>5, <2>7, <2>8, <2>13, Conclude
<1> QED BY <1>5, <1>6 DEF Fault

-----------------------------------------------------------------------------
(* What a packet does to the device and to the buffers.                    *)

LEMMA ControlTypes ==
    ASSUME NEW x \in Slot, DeviceTypes, ControlPacket(x), UNCHANGED faults,
           torn' \in BOOLEAN, early' \in BOOLEAN
    PROVE  DeviceTypes' /\ d'.dead = d.dead
<1>1. d \in Dev /\ x.val \in Words
  BY DEF DeviceTypes, Slot
<1>2. \/ d' = [d EXCEPT !.req = x.val]
      \/ d' = [d EXCEPT !.addr = 1]
      \/ d' = [d EXCEPT !.tin = 0, !.tout = 0, !.next = "cbw"]
      \/ d' = [d EXCEPT !.next = "cbw"]
      \/ d' = d
  BY DEF ControlPacket, Obey
<1>3. /\ d' \in Dev /\ d'.dead = d.dead /\ d'.n = d.n
      /\ d'.next = d.next \/ d'.next = "cbw"
  BY <1>1, <1>2 DEF Dev
<1> QED BY <1>3 DEF DeviceTypes

LEMMA OutTypes ==
    ASSUME NEW x \in Slot, DeviceTypes, x.pid = "OUT", Answers(x), x.pipe # "ctrl",
           ~Unexpected(x), PacketOut(x), UNCHANGED faults,
           torn' \in BOOLEAN, early' \in BOOLEAN
    PROVE  DeviceTypes' /\ d'.dead = d.dead
<1>1. d \in Dev /\ x.n \in Nat /\ DATA \in Nat \ {0}
  BY Numbers DEF DeviceTypes, Slot
<1>2. CASE x.tog # d.tout
  <2>1. d' = d
    BY <1>2 DEF PacketOut
  <2> QED BY <2>1 DEF DeviceTypes
<1>3. CASE x.tog = d.tout /\ d.next = "cbw"
  <2>1. PICK works \in BOOLEAN :
           d' = [d EXCEPT !.tout = 1 - d.tout, !.block = x.n, !.n = 0, !.works = works,
                          !.next = IF x.val = "read" THEN "in" ELSE "out"]
    BY <1>3 DEF PacketOut
  <2> DEFINE next == IF x.val = "read" THEN "in" ELSE "out"
  <2>2. next \in {"in", "out"} /\ 1 - d.tout \in {0, 1} /\ 0 \in 0..DATA+1
    BY <1>1 DEF Dev
  <2>3. d' = [d EXCEPT !.tout = 1 - d.tout, !.block = x.n, !.n = 0, !.works = works,
                       !.next = next]
    BY <2>1
  <2> HIDE DEF next
  <2>4. /\ d' \in Dev /\ d'.dead = d.dead /\ d'.n = 0 /\ d'.next \in {"in", "out"}
    BY <1>1, <2>2, <2>3 DEF Dev
  <2> QED BY <1>1, <2>4 DEF DeviceTypes
<1>4. CASE x.tog = d.tout /\ d.next # "cbw"
  <2>1. d.next = "out"
    BY <1>1, <1>4 DEF Unexpected, Answers, Dev
  <2>2. d.n \in 0..DATA-1
    BY <1>1, <2>1 DEF DeviceTypes, Dev
  <2>3. d' = [d EXCEPT !.tout = 1 - d.tout, !.n = d.n + 1,
                       !.next = IF d.n + 1 = DATA THEN "csw" ELSE "out"]
    BY <1>4 DEF PacketOut
  <2> DEFINE next == IF d.n + 1 = DATA THEN "csw" ELSE "out"
             n == d.n + 1
  <2>4. /\ next \in {"csw", "out"} /\ 1 - d.tout \in {0, 1} /\ n \in 1..DATA
        /\ next = "csw" <=> n = DATA
    BY <1>1, <2>2 DEF Dev
  <2>5. d' = [d EXCEPT !.tout = 1 - d.tout, !.n = n, !.next = next]
    BY <2>3
  <2> HIDE DEF n, next
  <2>6. n \in 0..DATA+1 /\ next \in {"none", "cbw", "in", "out", "csw"} /\ 1 - d.tout \in {0, 1}
    BY <1>1, <2>4
  <2>7. /\ d' \in Dev /\ d'.dead = d.dead /\ d'.n = n /\ d'.next = next
    BY <1>1, <2>5, <2>6 DEF Dev
  <2> QED BY <1>1, <2>4, <2>7 DEF DeviceTypes
<1> QED BY <1>2, <1>3, <1>4

LEMMA InTypes ==
    ASSUME NEW x \in Slot, DeviceTypes, x.pid # "OUT", Answers(x), x.pipe # "ctrl",
           PacketIn(x), UNCHANGED faults,
           torn' \in BOOLEAN, early' \in BOOLEAN
    PROVE  DeviceTypes' /\ d'.dead = d.dead
<1>1. d \in Dev /\ DATA \in Nat \ {0}
  BY Numbers DEF DeviceTypes
<1>2. d.next \in {"in", "csw"}
  BY DEF Answers
<1>3. d.n \in 0..DATA /\ (d.next = "in" => d.n < DATA)
  BY <1>1, <1>2 DEF DeviceTypes, Dev
<1> DEFINE next == CASE d.next = "csw" -> "cbw"
                     [] d.n + 1 = DATA -> "csw"
                     [] OTHER -> "in"
           n == d.n + 1
<1>4. d' = [d EXCEPT !.tin = 1 - d.tin, !.n = n, !.next = next]
  BY DEF PacketIn
<1>5. /\ n \in 1..DATA+1 /\ 1 - d.tin \in {0, 1}
      /\ \/ next = "cbw"
         \/ next = "csw" /\ n = DATA
         \/ next = "in" /\ n < DATA
  BY <1>1, <1>2, <1>3 DEF Dev
<1> HIDE DEF n, next
<1>6. n \in 0..DATA+1 /\ next \in {"none", "cbw", "in", "out", "csw"} /\ 1 - d.tin \in {0, 1}
  BY <1>1, <1>5
<1>7. /\ d' \in Dev /\ d'.dead = d.dead /\ d'.n = n /\ d'.next = next
  BY <1>1, <1>4, <1>6 DEF Dev
<1> QED BY <1>1, <1>5, <1>7 DEF DeviceTypes

\* A packet more flips the toggle of the device that it went by.
LEMMA ToggledNext ==
    ASSUME Types, NEW t \in Threads, phase = "ready", NEW e \in 0..DATA+1,
           last_td \in e+1..DATA+2, Toggled(t, e),
           d'.tin = IF List(t)[e + 1].pid = "IN" THEN 1 - d.tin ELSE d.tin,
           d'.tout = IF List(t)[e + 1].pid = "OUT" THEN 1 - d.tout ELSE d.tout,
           UNCHANGED <<phase, call, data_in, data_out, last_td>>
    PROVE  Toggled(t, e + 1)'
<1>1. DATA \in Nat \ {0} /\ e \in 0..last_td /\ e + 1 \in 0..last_td /\ last_td \in 0..DATA+2
  BY Numbers
<1>2. /\ Ins(t, last_td)' = Ins(t, last_td) /\ Ins(t, e + 1)' = Ins(t, e + 1)
      /\ Outs(t, last_td)' = Outs(t, last_td) /\ Outs(t, e + 1)' = Outs(t, e + 1)
  BY DEF Ins, Outs, Reads
<1>3. /\ Ins(t, last_td) \in Int /\ Ins(t, e) \in Int
      /\ Outs(t, last_td) \in Int /\ Outs(t, e) \in Int
  BY <1>1 DEF Ins, Outs
<1>4. data_in \in {0, 1} /\ data_out \in {0, 1}
  BY DEF Types, DriverTypes
<1> DEFINE m == Ins(t, last_td) - Ins(t, e + 1)
           n == Outs(t, last_td) - Outs(t, e + 1)
<1>5. m \in Nat /\ n \in Nat
  BY <1>1, CountsGrow
<1>6. /\ d.tin = Flip(1 - data_in, Ins(t, last_td) - Ins(t, e))
      /\ d.tout = Flip(1 - data_out, Outs(t, last_td) - Outs(t, e))
  BY DEF Toggled
<1>7. \/ /\ List(t)[e + 1].tog = "in" /\ List(t)[e + 1].pid = "IN"
      \/ /\ List(t)[e + 1].tog = "out" /\ List(t)[e + 1].pid = "OUT"
  <2>1. List(t)[e + 1] \in {Cbw(IF Reads(t) THEN "read" ELSE "write", call[t].block),
                           Td("bulk", "IN", "in", "data", e, "none"),
                           Td("bulk", "OUT", "out", "data", e, call[t].val), CswIn}
    BY NextPacket
  <2> QED BY <2>1 DEF Cbw, Td, CswIn
<1>8. 1 - data_in \in {0, 1} /\ 1 - data_out \in {0, 1}
  BY <1>4
<1>9. CASE List(t)[e + 1].tog = "in" /\ List(t)[e + 1].pid = "IN"
  <2>1. Ins(t, e + 1) = Ins(t, e) + 1 /\ Outs(t, e + 1) = Outs(t, e)
    BY <1>9, NextTog
  <2>2. Ins(t, last_td) - Ins(t, e) = m + 1 /\ Outs(t, last_td) - Outs(t, e) = n
    BY <1>3, <2>1
  <2> HIDE DEF m, n
  <2>3. 1 - Flip(1 - data_in, m + 1) = Flip(1 - data_in, m)
    BY <1>5, <1>8, FlipFacts
  <2>4. d'.tin = Flip(1 - data_in, m) /\ d'.tout = Flip(1 - data_out, n)
    BY <1>6, <1>9, <2>2, <2>3
  <2> QED BY <1>2, <2>4 DEF Toggled, m, n, Flip
<1>10. CASE List(t)[e + 1].tog = "out" /\ List(t)[e + 1].pid = "OUT"
  <2>1. Outs(t, e + 1) = Outs(t, e) + 1 /\ Ins(t, e + 1) = Ins(t, e)
    BY <1>10, NextTog
  <2>2. Outs(t, last_td) - Outs(t, e) = n + 1 /\ Ins(t, last_td) - Ins(t, e) = m
    BY <1>3, <2>1
  <2> HIDE DEF m, n
  <2>3. 1 - Flip(1 - data_out, n + 1) = Flip(1 - data_out, n)
    BY <1>5, <1>8, FlipFacts
  <2>4. d'.tin = Flip(1 - data_in, m) /\ d'.tout = Flip(1 - data_out, n)
    BY <1>6, <1>10, <2>2, <2>3
  <2> QED BY <1>2, <2>4 DEF Toggled, m, n, Flip
<1> QED BY <1>7, <1>9, <1>10

\* A control transfer goes on.
LEMMA ControlNext ==
    ASSUME NEW t, Threads = {t}, Types, Adding(t), Asking(t), NEW e \in Nat, At(t, e),
           ~torn, phase # "ready", pc[t] \notin {"idle", "return"}, e + 1 <= Written(t),
           ControlPacket(slots[e + 1]),
           UNCHANGED <<phase, device, dev, data_in, data_out, pc, call>>
    PROVE  (Memory /\ Toggled(t, e + 1) /\ Outside(t, e + 1))'
<1>1. /\ e + 1 \in 1..Size(t) /\ Holds(t, e + 1) /\ t \in Threads
  BY NextDue
<1>2. phase \in GetDescs \cup Sets /\ phase \in Words
  BY DEF Asking, Types, DriverTypes, Phase, GetDescs, Sets, Words
<1>3. InStep(t, e) /\ d \in Dev
  BY DEF At, Types, DeviceTypes
<1>4. Memory /\ Outside(t, e)
  BY <1>3 DEF InStep, Through
<1>5. List(t) = Control(phase) /\ Size(t) = IF phase \in GetDescs THEN 3 ELSE 2
  BY <1>2, ControlList DEF List, Size
<1> DEFINE x == slots[e + 1]
<1>6. /\ x.pid = Control(phase)[e + 1].pid /\ x.buf = Control(phase)[e + 1].buf
      /\ x.val = Control(phase)[e + 1].val /\ x.who = t /\ x.whole
  BY <1>1, <1>5 DEF Holds
<1>7. ControlPacket(x)
  OBVIOUS
<1> HIDE DEF x
<1>8. Toggled(t, e + 1)' /\ Stage(t, e + 1)' /\ Moved(t, e + 1)' /\ Kept'
  BY <1>4 DEF Toggled, Stage, Moved, Outside, Kept
<1>9. Address(e) /\ Configuring(t, e)
  BY <1>4 DEF Outside
<1>10. CASE e = 0
  <2>1. Control(phase)[e + 1] = Setup(phase)
    <3>1. e + 1 = 1
      BY <1>10
    <3> QED BY <3>1, <1>2, ControlList
  <2>2. x.pid = "SETUP" /\ x.buf = "setup" /\ x.val = phase
    BY <1>6, <2>1 DEF Setup, Td
  <2>3. d' = [d EXCEPT !.req = phase] /\ buff' = buff /\ disk' = disk
    BY <1>7, <2>2 DEF ControlPacket
  <2>4. /\ d'.req = phase /\ d'.addr = d.addr /\ d'.next = d.next
        /\ d'.tin = d.tin /\ d'.tout = d.tout
    BY <1>3, <2>3 DEF Dev
  <2>5. Memory'
    BY <1>4, <2>3 DEF Memory, Blocks
  <2>6. Address(e + 1)'
    BY <1>9, <1>10, <2>4 DEF Address
  <2>7. Configuring(t, e + 1)'
    BY <1>9, <1>10, <2>4 DEF Configuring, Configured
  <2> QED BY <1>8, <2>5, <2>6, <2>7 DEF Outside
<1>11. CASE e = 1 /\ phase \in GetDescs
  <2>1. Control(phase)[e + 1] = DescIn
    <3>1. e + 1 = 2
      BY <1>11
    <3> QED BY <3>1, <1>2, <1>11, ControlList
  <2>2. x.pid = "IN" /\ x.buf = "desc"
    BY <1>6, <2>1 DEF DescIn, Td
  <2>3. d' = d /\ buff' = [buff EXCEPT ![t].desc = d.req] /\ disk' = disk
    BY <1>6, <1>7, <2>2 DEF ControlPacket
  <2>4. Memory'
    <3>1. buff[t] \in Buffs /\ d.req \in Words
      BY <1>1, <1>3, <1>4 DEF Memory, Dev
    <3>2. [buff[t] EXCEPT !.desc = d.req] \in Buffs
      BY <3>1 DEF Buffs
    <3>3. buff' = [buff EXCEPT ![t] = [buff[t] EXCEPT !.desc = d.req]]
      BY <2>3
    <3> QED BY <1>4, <2>3, <3>2, <3>3 DEF Memory, Blocks
  <2>5. Address(e + 1)'
    BY <1>9, <1>11, <2>3 DEF Address, GetDescs
  <2>6. Configuring(t, e + 1)'
    <3>1. buff'[t].desc = phase
      <4>1. d.req = phase
        BY <1>2, <1>9, <1>11 DEF Configuring
      <4>2. buff[t] \in Buffs /\ buff \in [Threads -> Buffs]
        BY <1>1, <1>4 DEF Memory
      <4> QED BY <1>1, <2>3, <4>1, <4>2 DEF Buffs
    <3> QED BY <3>1, <1>9, <1>11, <2>3 DEF Configuring, Configured, GetDescs
  <2> QED BY <1>8, <2>4, <2>5, <2>6 DEF Outside
<1>12. CASE e = 1 /\ phase \in Sets
  <2>0. phase \notin GetDescs
    BY <1>12 DEF GetDescs, Sets
  <2>1. Control(phase)[e + 1] = StatusIn
    <3>1. e + 1 = 2
      BY <1>12
    <3> QED BY <3>1, <1>2, <2>0, ControlList
  <2>2. x.pid = "IN" /\ x.buf = "status"
    BY <1>6, <2>1 DEF StatusIn, Td
  <2>3. Obey(d.req) /\ buff' = buff /\ disk' = disk
    BY <1>7, <2>2 DEF ControlPacket
  <2>4. d.req = phase
    BY <1>2, <1>9, <1>12 DEF Configuring
  <2>5. Memory'
    BY <1>4, <2>3 DEF Memory, Blocks
  <2>6. /\ d'.req = phase
        /\ d'.addr = IF phase = "set_addr" THEN 1 ELSE d.addr
        /\ d'.next = IF phase \in {"set_config", "bbb_reset"} THEN "cbw" ELSE d.next
        /\ d'.tin = IF phase = "set_config" THEN 0 ELSE d.tin
        /\ d'.tout = IF phase = "set_config" THEN 0 ELSE d.tout
    <3>1. CASE phase = "set_addr"
      <4>1. d' = [d EXCEPT !.addr = 1]
        BY <2>3, <2>4, <3>1 DEF Obey
      <4> QED BY <1>3, <2>4, <3>1, <4>1 DEF Dev
    <3>2. CASE phase = "set_config"
      <4>1. d' = [d EXCEPT !.tin = 0, !.tout = 0, !.next = "cbw"]
        BY <2>3, <2>4, <3>2 DEF Obey
      <4> QED BY <1>3, <2>4, <3>2, <4>1 DEF Dev
    <3>3. CASE phase = "bbb_reset"
      <4>1. d' = [d EXCEPT !.next = "cbw"]
        BY <2>3, <2>4, <3>3 DEF Obey
      <4> QED BY <1>3, <2>4, <3>3, <4>1 DEF Dev
    <3>4. CASE phase = "set_inter"
      <4>1. d' = d
        BY <2>3, <2>4, <3>4 DEF Obey
      <4> QED BY <2>4, <3>4, <4>1
    <3> QED BY <1>12, <3>1, <3>2, <3>3, <3>4 DEF Sets
  <2>7. Address(e + 1)'
    BY <1>9, <1>12, <2>6 DEF Address, Sets
  <2>8. Configuring(t, e + 1)'
    BY <1>9, <1>12, <2>0, <2>6 DEF Configuring, Configured, Sets
  <2> QED BY <1>8, <2>5, <2>7, <2>8 DEF Outside
<1>13. CASE e = 2 /\ phase \in GetDescs
  <2>1. Control(phase)[e + 1] = StatusOut
    <3>1. e + 1 = 3
      BY <1>13
    <3> QED BY <3>1, <1>2, <1>13, ControlList
  <2>2. x.pid = "OUT" /\ x.buf = "status"
    BY <1>6, <2>1 DEF StatusOut, Td
  <2>3. Obey(d.req) /\ buff' = buff /\ disk' = disk
    BY <1>7, <2>2 DEF ControlPacket
  <2>4. d.req = phase
    BY <1>2, <1>9, <1>13 DEF Configuring
  <2>5. d' = d
    BY <2>3, <2>4, <1>13 DEF Obey, GetDescs
  <2>6. Memory'
    BY <1>4, <2>3 DEF Memory, Blocks
  <2>7. Address(e + 1)'
    BY <1>9, <1>13, <2>5 DEF Address, GetDescs
  <2>8. Configuring(t, e + 1)'
    BY <1>9, <1>13, <2>3, <2>5 DEF Configuring, Configured, GetDescs
  <2> QED BY <1>8, <2>6, <2>7, <2>8 DEF Outside
<1> QED BY <1>1, <1>2, <1>5, <1>10, <1>11, <1>12, <1>13

\* A command of the bulk transport goes on.
LEMMA BulkNext ==
    ASSUME NEW t, Threads = {t}, Types, Adding(t), Asking(t), NEW e \in Nat, At(t, e),
           ~torn, phase = "ready", pc[t] \notin {"idle", "return"}, e + 1 <= Written(t),
           IF slots[e + 1].pid = "OUT" THEN PacketOut(slots[e + 1])
           ELSE PacketIn(slots[e + 1]),
           UNCHANGED <<phase, device, dev, data_in, data_out, pc, call, last_td>>
    PROVE  (Memory /\ Toggled(t, e + 1) /\ Outside(t, e + 1))'
<1>1. /\ e + 1 \in 1..Size(t) /\ Holds(t, e + 1) /\ t \in Threads
      /\ e \in 0..DATA+1 /\ Due(t, e, slots[e + 1])
  BY NextDue
<1>2. /\ InStep(t, e) /\ d \in Dev /\ call[t].block \in Blocks
      /\ call[t].val \in Words
  BY <1>1 DEF At, Types, ThreadTypes, Calls, DeviceTypes, Asking
<1>3. Memory /\ Outside(t, e) /\ Toggled(t, e)
  BY <1>2 DEF InStep, Through
<1>4. buff[t] \in Buffs /\ buff \in [Threads -> Buffs] /\ disk \in [Blocks -> [1..DATA -> Words]]
  BY <1>1, <1>3 DEF Memory
<1> DEFINE x == slots[e + 1]
<1>5. x.pid = List(t)[e + 1].pid /\ x.who = t /\ x.whole
  BY <1>1 DEF Holds
<1>6. last_td \in e+1..DATA+2
  <2>1. last_td \in 0..NTD /\ last_td <= Size(t) /\ Size(t) = DATA + 2
    BY <1>1, ListFacts, Numbers DEF Adding, Types, QueueTypes, ThreadTypes, Pc
  <2>2. e + 1 <= last_td
    BY <2>1, Numbers DEF Written
  <2> QED BY <2>1, <2>2, Numbers
<1>7. /\ Due(t, e, x)
      /\ IF x.pid = "OUT" THEN PacketOut(x) ELSE PacketIn(x)
  BY <1>1
<1> HIDE DEF x
<1>8. Address(e) /\ Stage(t, e) /\ Moved(t, e)
  BY <1>3 DEF Outside
<1>9. Configuring(t, e + 1)' /\ Kept'
  BY <1>3 DEF Configuring, GetDescs, Sets, Outside, Kept
<1>10. ASSUME d'.addr = d.addr PROVE Address(e + 1)'
  BY <1>8, <1>10 DEF Address
<1>11. DATA \in Nat \ {0}
  BY Numbers
<1>12. Reads(t)' = Reads(t)
  BY DEF Reads
<1>13. CASE e = 0
  <2>1. /\ d.next = "cbw" /\ x.tog = d.tout
        /\ x.pid = "OUT" /\ x.buf = "cbw" /\ x.n = call[t].block
        /\ x.val = IF Reads(t) THEN "read" ELSE "write"
    BY <1>7, <1>11, <1>13 DEF Due
  <2> DEFINE next == IF x.val = "read" THEN "in" ELSE "out"
  <2>2. PICK works \in BOOLEAN :
           d' = [d EXCEPT !.tout = 1 - d.tout, !.block = x.n, !.n = 0, !.works = works,
                          !.next = next]
    BY <1>7, <2>1 DEF PacketOut
  <2>3. buff' = buff /\ disk' = disk
    BY <1>7, <2>1 DEF PacketOut
  <2>4. next = IF Reads(t) THEN "in" ELSE "out"
    BY <2>1
  <2> HIDE DEF next
  <2>5. /\ d'.addr = d.addr /\ d'.tin = d.tin /\ d'.tout = 1 - d.tout
        /\ d'.block = call[t].block /\ d'.n = 0 /\ d'.next = next
    BY <1>2, <2>1, <2>2 DEF Dev
  <2>6. Toggled(t, e + 1)'
    BY <1>1, <1>3, <1>5, <1>6, <2>1, <2>5, ToggledNext
  <2>7. Stage(t, e + 1)'
    BY <1>11, <1>12, <1>13, <2>4, <2>5 DEF Stage
  <2>8. Moved(t, e + 1)'
    <3>1. buff[t].csw = "none"
      BY <1>8, <1>11, <1>13 DEF Moved
    <3>2. \A i \in 1..DATA : ~(i < e + 1)
      BY <1>11, <1>13
    <3> QED BY <1>11, <1>13, <2>3, <3>1, <3>2 DEF Moved
  <2>9. Memory'
    BY <1>3, <2>3 DEF Memory, Blocks
  <2> QED BY <1>9, <1>10, <2>5, <2>6, <2>7, <2>8, <2>9 DEF Outside
<1>14. CASE e \in 1..DATA /\ Reads(t)
  <2>1. /\ d.next = "in" /\ x.tog = d.tin
        /\ x.pid = "IN" /\ x.buf = "data" /\ x.n = e
    BY <1>7, <1>11, <1>14 DEF Due
  <2>2. d.block = call[t].block /\ d.n = e - 1
    BY <1>8, <1>11, <1>14 DEF Stage
  <2> DEFINE next == IF e = DATA THEN "csw" ELSE "in"
             got == IF d.works THEN disk[call[t].block][e] ELSE "junk"
             new == [buff[t] EXCEPT !.data = [buff[t].data EXCEPT ![e] = got]]
  <2>3. d.n + 1 = e
    BY <1>14, <2>2
  <2>4. d' = [d EXCEPT !.tin = 1 - d.tin, !.n = e, !.next = next]
    BY <1>7, <2>1, <2>3 DEF PacketIn
  <2>5. Sent = got
    BY <2>1, <2>2, <2>3 DEF Sent
  <2>6. buff' = [buff EXCEPT ![t] = new] /\ disk' = disk
    <3>1. buff' = Store(x, Sent) /\ disk' = disk
      BY <1>7, <2>1 DEF PacketIn
    <3>2. Store(x, Sent) = [buff EXCEPT ![t].data[e] = Sent]
      BY <1>5, <2>1 DEF Store
    <3>3. [buff EXCEPT ![t].data[e] = got] = [buff EXCEPT ![t] = new]
      BY <1>1, <1>4
    <3> QED BY <2>5, <3>1, <3>2, <3>3
  <2>7. got \in Words
    <3>1. disk[call[t].block] \in [1..DATA -> Words]
      BY <1>2, <1>4
    <3>2. disk[call[t].block][e] \in Words
      BY <3>1, <1>14
    <3>3. "junk" \in Words
      BY DEF Words
    <3> QED BY <3>2, <3>3
  <2> HIDE DEF next, got
  <2>8. /\ d'.addr = d.addr /\ d'.tin = 1 - d.tin /\ d'.tout = d.tout
        /\ d'.block = d.block /\ d'.n = e /\ d'.next = next /\ d'.works = d.works
    BY <1>2, <2>4 DEF Dev
  <2>9. /\ new \in Buffs /\ new.csw = buff[t].csw
        /\ \A i \in 1..DATA : new.data[i] = IF i = e THEN got ELSE buff[t].data[i]
    BY <1>4, <1>14, <2>7 DEF Buffs
  <2> HIDE DEF new
  <2>10. buff'[t] = new
    BY <1>1, <1>4, <2>6
  <2>11. Memory'
    BY <1>4, <2>6, <2>9 DEF Memory, Blocks
  <2>12. Toggled(t, e + 1)'
    BY <1>1, <1>3, <1>5, <1>6, <2>1, <2>8, ToggledNext
  <2>13. Stage(t, e + 1)'
    BY <1>11, <1>12, <1>14, <2>2, <2>8 DEF Stage, next
  <2>14. Moved(t, e + 1)'
    <3>1. buff'[t].csw = "none"
      BY <1>8, <1>11, <1>14, <2>9, <2>10 DEF Moved
    <3>2. ASSUME d.works, NEW i \in 1..DATA, i < e + 1
          PROVE  disk[call[t].block][i] = buff'[t].data[i]
      <4>1. CASE i = e
        BY <3>2, <4>1, <2>9, <2>10 DEF got
      <4>2. CASE i # e
        <5>1. i < e
          BY <3>2, <4>2, <1>14
        <5> QED BY <3>2, <4>2, <5>1, <1>8, <1>14, <2>9, <2>10 DEF Moved
      <4> QED BY <4>1, <4>2
    <3> QED BY <1>11, <1>12, <1>14, <2>6, <2>8, <3>1, <3>2 DEF Moved
  <2> QED BY <1>9, <1>10, <2>8, <2>11, <2>12, <2>13, <2>14 DEF Outside
<1>15. CASE e \in 1..DATA /\ ~Reads(t)
  <2>1. /\ d.next = "out" /\ x.tog = d.tout
        /\ x.pid = "OUT" /\ x.buf = "data" /\ x.val = call[t].val
    BY <1>7, <1>11, <1>15 DEF Due
  <2>2. d.block = call[t].block /\ d.n = e - 1
    BY <1>8, <1>11, <1>15 DEF Stage
  <2> DEFINE next == IF e = DATA THEN "csw" ELSE "out"
             new == [disk[call[t].block] EXCEPT ![e] = call[t].val]
  <2>3. d.n + 1 = e
    BY <1>15, <2>2
  <2>4. d' = [d EXCEPT !.tout = 1 - d.tout, !.n = e, !.next = next]
    BY <1>7, <2>1, <2>3 DEF PacketOut
  <2>5. /\ buff' = buff
        /\ disk' = IF d.works THEN [disk EXCEPT ![call[t].block] = new] ELSE disk
    BY <1>7, <2>1, <2>2, <2>3 DEF PacketOut
  <2> HIDE DEF next
  <2>6. /\ d'.addr = d.addr /\ d'.tin = d.tin /\ d'.tout = 1 - d.tout
        /\ d'.block = d.block /\ d'.n = e /\ d'.next = next /\ d'.works = d.works
    BY <1>2, <2>4 DEF Dev
  <2>7. /\ new \in [1..DATA -> Words]
        /\ \A i \in 1..DATA : new[i] = IF i = e THEN call[t].val ELSE disk[call[t].block][i]
    BY <1>2, <1>4, <1>15
  <2> HIDE DEF new
  <2>8. Memory'
    BY <1>4, <2>5, <2>7 DEF Memory, Blocks
  <2>9. Toggled(t, e + 1)'
    BY <1>1, <1>3, <1>5, <1>6, <2>1, <2>6, ToggledNext
  <2>10. Stage(t, e + 1)'
    BY <1>11, <1>12, <1>15, <2>2, <2>6 DEF Stage, next
  <2>11. Moved(t, e + 1)'
    <3>1. buff'[t].csw = "none"
      BY <1>8, <1>11, <1>15, <2>5 DEF Moved
    <3>2. ASSUME d.works, NEW i \in 1..DATA, i < e + 1
          PROVE  disk'[call[t].block][i] = call[t].val
      <4>0. disk'[call[t].block] = new
        BY <3>2, <1>2, <1>4, <2>5
      <4>1. CASE i = e
        BY <4>0, <4>1, <2>7
      <4>2. CASE i # e
        <5>1. i < e
          BY <3>2, <4>2, <1>15
        <5> QED BY <3>2, <4>0, <4>2, <5>1, <1>8, <1>15, <2>7 DEF Moved
      <4> QED BY <4>1, <4>2
    <3> QED BY <1>11, <1>12, <1>15, <2>6, <3>1, <3>2 DEF Moved
  <2> QED BY <1>9, <1>10, <2>6, <2>8, <2>9, <2>10, <2>11 DEF Outside
<1>16. CASE e = DATA + 1
  <2>1. d.next = "csw" /\ x.tog = d.tin /\ x.pid = "IN" /\ x.buf = "csw"
    BY <1>7, <1>11, <1>16 DEF Due
  <2> DEFINE got == IF d.works THEN "0" ELSE "1"
             new == [buff[t] EXCEPT !.csw = got]
  <2>0. d.n = DATA
    BY <2>1 DEF Types, DeviceTypes
  <2>2. d' = [d EXCEPT !.tin = 1 - d.tin, !.n = d.n + 1, !.next = "cbw"]
    <3>1. d.n + 1 # DATA
      BY <2>0, <1>11
    <3> QED BY <1>7, <2>1, <3>1 DEF PacketIn
  <2>3. buff' = [buff EXCEPT ![t] = new] /\ disk' = disk
    <3>1. buff' = Store(x, Sent) /\ disk' = disk
      BY <1>7, <2>1 DEF PacketIn
    <3>2. Store(x, Sent) = [buff EXCEPT ![t].csw = Sent]
      BY <1>5, <2>1 DEF Store
    <3>3. Sent = got
      BY <2>1 DEF Sent
    <3> QED BY <3>1, <3>2, <3>3
  <2>4. /\ d'.addr = d.addr /\ d'.tin = 1 - d.tin /\ d'.tout = d.tout
        /\ d'.next = "cbw" /\ d'.works = d.works
    BY <1>2, <2>2 DEF Dev
  <2>5. got \in Words
    BY DEF Words
  <2> HIDE DEF got
  <2>6. new \in Buffs /\ new.csw = got /\ new.data = buff[t].data
    BY <1>4, <2>5 DEF Buffs
  <2> HIDE DEF new
  <2>7. buff'[t] = new
    BY <1>1, <1>4, <2>3
  <2>8. Memory'
    BY <1>4, <2>3, <2>6 DEF Memory, Blocks
  <2>9. Toggled(t, e + 1)'
    BY <1>1, <1>3, <1>5, <1>6, <2>1, <2>4, ToggledNext
  <2>10. Stage(t, e + 1)'
    <3>1. e + 1 = DATA + 2 /\ e + 1 \notin 1..DATA+1
      BY <1>11, <1>16
    <3> QED BY <3>1, <2>4 DEF Stage
  <2>11. Moved(t, e + 1)'
    <3>1. e + 1 = DATA + 2 /\ ~(e + 1 < DATA + 2)
      BY <1>11, <1>16
    <3>2. ASSUME d.works, NEW i \in 1..DATA
          PROVE  disk[call[t].block][i]
                   = IF Reads(t) THEN buff'[t].data[i] ELSE call[t].val
      <4>1. i < e
        BY <1>11, <1>16
      <4> QED BY <3>2, <4>1, <1>8, <2>6, <2>7 DEF Moved
    <3>3. buff'[t].csw = IF d'.works THEN "0" ELSE "1"
      BY <2>4, <2>6, <2>7 DEF got
    <3> QED BY <1>12, <2>3, <2>4, <3>1, <3>2, <3>3 DEF Moved
  <2> QED BY <1>9, <1>10, <2>4, <2>8, <2>9, <2>10, <2>11 DEF Outside
<1> QED BY <1>1, <1>11, <1>13, <1>14, <1>15, <1>16

LEMMA ExecuteInv ==
    ASSUME NEW t, Threads = {t}, IInv, NEW q \in Pipes, Execute(q)
    PROVE  IInv'
<1>1. t \in Threads /\ Types /\ Cause /\ Adding(t) /\ Asking(t)
  BY DEF IInv
<1>2. PICK e \in Nat : At(t, e)
  BY <1>1 DEF IInv
<1>3. Reached(q)
  BY DEF Execute
<1>4. /\ q = Pipe /\ qh[q] = e + 1 /\ pc[t] \notin {"idle", "return"}
      /\ e + 1 \in 1..Activated(t) /\ e + 1 \in 1..last_td /\ last_td \in 1..NTD
      /\ slots[e + 1] \in Slot /\ NTD \in Nat
  BY <1>1, <1>2, <1>3, ReachedFacts, Numbers
<1> DEFINE x == slots[e + 1]
<1>5. /\ Answers(x)
      /\ IF x.pipe = "ctrl" THEN ControlPacket(x) /\ Done(q, e + 1)
         ELSE IF Unexpected(x) THEN Failed(e + 1) /\ UNCHANGED <<d, disk, buff>>
         ELSE IF x.pid = "OUT" THEN PacketOut(x) /\ Done(q, e + 1)
         ELSE PacketIn(x) /\ IF x.tog = d.tin THEN Done(q, e + 1) ELSE UNCHANGED <<slots, qh>>
      /\ torn' = (torn \/ ~x.whole)
      /\ UNCHANGED <<next_td, last_td, driver, pc, todo, cur, td, passed, call, faults>>
  BY <1>4 DEF Execute
<1>6. early' = (early \/ (x.link = None /\ MoreToCome(t)))
  BY <1>4 DEF Execute
<1>7. UNCHANGED <<phase, device, dev, data_in, data_out, halted>>
  BY <1>5 DEF driver
<1>8. /\ torn \in BOOLEAN /\ early \in BOOLEAN /\ faults \in 0..MaxFaults
      /\ DeviceTypes /\ x \in Slot
  BY <1>1, <1>4 DEF Types, DeviceTypes
<1>9. torn' \in BOOLEAN /\ early' \in BOOLEAN
  BY <1>5, <1>6
<1>10. ASSUME ~torn'
       PROVE  /\ ~torn /\ e + 1 <= Written(t) /\ Holds(t, e + 1)
              /\ phase = "ready" => Due(t, e, x)
  <2>1. ~torn /\ x.whole
    BY <1>5, <1>8, <1>10
  <2>2. pc[t] \in {"activate", "fill"} => e + 1 # last_td
    BY <1>1, <2>1 DEF Adding
  <2>3. e + 1 <= Written(t)
    BY <1>4, <2>2 DEF Written
  <2> QED BY <1>1, <1>2, <1>4, <2>1, <2>3, NextDue
<1>11. ASSUME ~torn' PROVE x.pipe = Pipe
  <2>1. List(t)[e + 1].pipe = Pipe
    <3>1. e + 1 \in 1..Size(t)
      BY <1>1, <1>2, <1>4, <1>10, <1>11, NextDue
    <3> QED BY <3>1, <1>1, ListFacts
  <2> QED BY <2>1, <1>10, <1>11 DEF Holds
<1>12. CASE x.pipe # "ctrl" /\ Unexpected(x)
  <2>1. torn'
    <3> SUFFICES ASSUME ~torn' PROVE FALSE
      OBVIOUS
    <3>1. phase = "ready"
      BY <1>11, <1>12 DEF Pipe
    <3>2. Due(t, e, x)
      BY <1>10, <3>1
    <3> HIDE DEF x
    <3> QED BY <1>12, <3>2, Numbers DEF Due, Unexpected
  <2>2. Failed(qh[q]) /\ UNCHANGED <<d, disk, buff>>
    BY <1>4, <1>5, <1>12
  <2>3. UNCHANGED <<next_td, last_td, driver, thread, d, disk>>
    BY <1>5, <2>2 DEF thread
  <2>4. (torn => torn') /\ (early => early') /\ faults' \in faults..MaxFaults
    BY <1>5, <1>6, <1>8, UsbAssumption
  <2> QED BY <1>3, <1>9, <2>1, <2>2, <2>3, <2>4, FailedInv
<1>13. CASE x.pipe = "ctrl"
  <2>1. ControlPacket(x) /\ Done(q, e + 1)
    BY <1>5, <1>13
  <2>2. DeviceTypes' /\ d'.dead = d.dead
    BY <1>5, <1>8, <1>9, <2>1, ControlTypes
  <2>3. torn' \/ (Memory /\ Toggled(t, e + 1) /\ Outside(t, e + 1))'
    <3> SUFFICES ASSUME ~torn'
                 PROVE  (Memory /\ Toggled(t, e + 1) /\ Outside(t, e + 1))'
      OBVIOUS
    <3>1. phase # "ready"
      BY <1>11, <1>13 DEF Pipe
    <3> QED BY <1>1, <1>2, <1>4, <1>5, <1>7, <1>10, <2>1, <3>1, ControlNext
  <2> QED BY <1>2, <1>3, <1>5, <1>6, <2>1, <2>2, <2>3, DoneInv
<1>14. CASE x.pipe # "ctrl" /\ ~Unexpected(x)
  <2>1. IF x.pid = "OUT" THEN PacketOut(x) ELSE PacketIn(x)
    BY <1>5, <1>14
  <2>2. DeviceTypes' /\ d'.dead = d.dead
    BY <1>5, <1>8, <1>9, <1>14, <2>1, OutTypes, InTypes
  <2>3. torn' \/ (Memory /\ Toggled(t, e + 1) /\ Outside(t, e + 1))'
    <3> SUFFICES ASSUME ~torn'
                 PROVE  (Memory /\ Toggled(t, e + 1) /\ Outside(t, e + 1))'
      OBVIOUS
    <3>1. phase = "ready"
      BY <1>11, <1>14 DEF Pipe
    <3> QED BY <1>1, <1>2, <1>4, <1>5, <1>7, <1>10, <2>1, <3>1, BulkNext
  <2>4. Done(q, e + 1) \/ (UNCHANGED <<slots, qh>> /\ torn')
    <3>1. CASE x.pid = "OUT" \/ x.tog = d.tin
      BY <1>5, <1>14, <3>1
    <3>2. CASE x.pid # "OUT" /\ x.tog # d.tin
      <4>1. UNCHANGED <<slots, qh>>
        BY <1>5, <1>14, <3>2
      <4>2. torn'
        <5> SUFFICES ASSUME ~torn' PROVE FALSE
          OBVIOUS
        <5>1. phase = "ready"
          BY <1>11, <1>14 DEF Pipe
        <5>2. Due(t, e, x)
          BY <1>10, <5>1
        <5> QED BY <3>2, <5>2 DEF Due
      <4> QED BY <4>1, <4>2
    <3> QED BY <3>1, <3>2
  <2> QED BY <1>2, <1>3, <1>5, <1>6, <2>2, <2>3, <2>4, DoneInv
<1> QED BY <1>12, <1>13, <1>14

-----------------------------------------------------------------------------
(* The invariant.                                                          *)

LEMMA InitInv ==
    ASSUME NEW t, Threads = {t}, Init
    PROVE  IInv
<1>1. /\ InitRest /\ phase = "detect" /\ dev = Dev0 /\ running = FALSE
      /\ data_in = 0 /\ data_out = 0 /\ d = Device0
  BY DEF Init
<1>2. /\ slots = [i \in 1..NTD |-> Slot0]
      /\ next_td = 1 /\ last_td = 0
      /\ qh = [q \in Pipes |-> 0]
      /\ pc = [s \in Threads |-> "idle"]
      /\ todo = [s \in Threads |-> <<>>]
      /\ cur = [s \in Threads |-> 0] /\ td = [s \in Threads |-> 0]
      /\ passed = [s \in Threads |-> 0]
      /\ call = [s \in Threads |-> NoCall]
      /\ buff = [s \in Threads |-> NoBuff]
      /\ halted = FALSE
      /\ disk = [b \in Blocks |-> Packets("old")]
      /\ faults = 0 /\ torn = FALSE /\ early = FALSE
  BY <1>1 DEF InitRest, None, Pipes
<1>3. NTD \in Nat /\ 0 \in 0..NTD /\ DATA \in Nat /\ MaxFaults \in Nat
  BY Numbers, UsbAssumption
<1>4. Slot0 \in Slot /\ Slot0.status = "done"
  BY <1>3 DEF Slot0, Slot, Pipes, Pids, Words, None
<1>5. Types
  <2>1. QueueTypes
    BY <1>2, <1>3, <1>4 DEF QueueTypes
  <2>2. ThreadTypes
    <3>1. NoCall \in Calls
      BY DEF NoCall, Calls, Words
    <3>2. <<>> \in Seq(Tds)
      OBVIOUS
    <3> QED BY <1>2, <1>3, <3>1, <3>2 DEF ThreadTypes, Pc
  <2>3. DriverTypes
    BY <1>1, <1>2 DEF DriverTypes, Dev0, Phase
  <2>4. DeviceTypes
    <3>1. d \in Dev /\ d.next = "none"
      BY <1>1, DeviceStarts
    <3>2. faults = 0 /\ torn = FALSE /\ early = FALSE
      BY <1>2
    <3>3. faults \in 0..MaxFaults
      BY <3>2, <1>3
    <3> QED BY <3>1, <3>2, <3>3 DEF DeviceTypes
  <2> QED BY <2>1, <2>2, <2>3, <2>4 DEF Types
<1>6. Cause
  BY <1>1, <1>2, DeviceStarts DEF Cause
<1>7. pc[t] = "idle"
  BY <1>2
<1>8. Adding(t) /\ Asking(t)
  BY <1>2, <1>7 DEF Adding, Asking
<1>9. Activated(t) = 0
  BY <1>2, <1>7 DEF Activated
<1>10. Executed(t, 0)
  BY <1>2, <1>4, <1>9 DEF Executed
<1>11. Pointed(t, 0)
  <2>1. \A i \in 1..last_td-1 : slots[i].link = i + 1
    BY <1>2
  <2> QED BY <2>1, <1>2 DEF Pointed, None
<1>12. Polled(t, 0)
  BY <1>7 DEF Polled
<1>13. InStep(t, 0)
  <2>1. Memory
    <3>1. NoBuff \in Buffs /\ Packets("old") \in [1..DATA -> Words]
      BY DEF NoBuff, Buffs, Words, Packets
    <3> QED BY <1>2, <3>1 DEF Memory
  <2>2. Content(t)
    BY <1>2, <1>7 DEF Content, Written
  <2>3. Toggled(t, 0)
    BY <1>1 DEF Toggled
  <2>4. Address(0)
    BY <1>1 DEF Address, Dev0
  <2>5. Configuring(t, 0) /\ Kept /\ Stage(t, 0) /\ Moved(t, 0)
    BY <1>1 DEF Configuring, GetDescs, Sets, Kept, Stage, Moved
  <2>6. Through(t, 0) = 0
    BY <1>7 DEF Through
  <2> QED BY <2>1, <2>2, <2>3, <2>4, <2>5, <2>6, <1>7 DEF InStep, Outside
<1>14. At(t, 0)
  BY <1>9, <1>10, <1>11, <1>12, <1>13 DEF At
<1>15. 0 \in Nat
  OBVIOUS
<1> QED BY <1>5, <1>6, <1>8, <1>14, <1>15 DEF IInv

LEMMA StepInv ==
    ASSUME OneThread, IInv, [Next]_vars
    PROVE  IInv'
<1>1. PICK t : Threads = {t}
  BY DEF OneThread
<1>2. CASE UNCHANGED vars
  <2>1. UNCHANGED <<phase, port, device, dev, slots, next_td, last_td, qh, running,
                    data_in, data_out, pc, todo, cur, td, passed, call, buff, halted,
                    d, disk, faults, torn, early>>
    BY <1>2 DEF vars, queue, driver, thread, outside
  <2>2. Types' /\ Cause'
    <3>1. Types /\ Cause
      BY DEF IInv
    <3> QED BY <2>1, <3>1 DEF Types, QueueTypes, ThreadTypes, DriverTypes, DeviceTypes, Cause
  <2>3. Adding(t) /\ Asking(t)
    BY <1>1 DEF IInv
  <2>4. PICK e \in Nat : At(t, e)
    BY <1>1 DEF IInv
  <2>5. List(t)' = List(t) /\ Size(t)' = Size(t) /\ Pipe' = Pipe
    BY <2>1 DEF List, Size, Pipe
  <2>6. Adding(t)'
    BY <2>1, <2>3, <2>5 DEF Adding, Rest
  <2>7. Asking(t)'
    BY <2>1, <2>3 DEF Asking, Blocks
  <2>8. Executed(t, e)' /\ Polled(t, e)' /\ e \in 0..Activated(t)'
    BY <2>1, <2>4 DEF At, Executed, Polled, Activated
  <2>9. Pointed(t, e)'
    BY <2>1, <2>4, <2>5 DEF At, Pointed, MoreToCome
  <2>10. torn' \/ InStep(t, e)'
    <3> SUFFICES ASSUME ~torn PROVE InStep(t, e)'
      BY <2>1
    <3>1. InStep(t, e)
      BY <2>4 DEF At
    <3>2. Memory'
      BY <2>1, <3>1 DEF InStep, Memory, Blocks
    <3>3. Content(t)'
      <4>1. \A i : TogOf(t, i)' = TogOf(t, i) /\ (Holds(t, i) => Holds(t, i)')
        BY <2>1, <2>5 DEF TogOf, Ins, Outs, Reads, Holds
      <4>2. Written(t)' = Written(t)
        BY <2>1 DEF Written
      <4> QED BY <2>1, <3>1, <4>1, <4>2 DEF InStep, Content
    <3>4. Toggled(t, e)'
      BY <2>1, <3>1 DEF InStep, Toggled, Ins, Outs, Reads
    <3>5. PICK j : j = Through(t, e)
      OBVIOUS
    <3>6. Through(t, e)' = j
      BY <2>1, <2>5, <3>5 DEF Through
    <3>7. Outside(t, j)
      BY <3>1, <3>5 DEF InStep
    <3>8. Address(j)' /\ Configuring(t, j)' /\ Kept'
      BY <2>1, <3>7 DEF Outside, Address, Configuring, Configured, Kept
    <3>9. Stage(t, j)' /\ Moved(t, j)'
      BY <2>1, <3>7 DEF Outside, Stage, Moved, Reads
    <3> QED BY <2>1, <3>1, <3>2, <3>3, <3>4, <3>6, <3>8, <3>9 DEF InStep, Outside
  <2>11. At(t, e)'
    BY <2>8, <2>9, <2>10 DEF At
  <2> QED BY <1>1, <2>2, <2>6, <2>7, <2>11, Conclude
<1>3. ASSUME NEW q \in Pipes, Execute(q) \/ Fault(q) PROVE IInv'
  BY <1>1, <1>3, ExecuteInv, FaultInv
<1>4. ASSUME ThreadStep(t) PROVE IInv'
  BY <1>1, <1>4, DetectInv, BeginControlInv, EndControlInv, ReadInv, WriteInv,
     ReturnInv, LinkInv, ActivateInv, FillInv, RunInv, PollInv, ResetQhInv,
     TimeoutInv DEF ThreadStep, Transfer
<1> QED BY <1>1, <1>2, <1>3, <1>4 DEF Next, Controller, Pipes

LEMMA Invariance == OneThread /\ Spec => []IInv
<1> SUFFICES ASSUME OneThread PROVE Spec => []IInv
  OBVIOUS
<1>1. Init => IInv
  BY InitInv DEF OneThread
<1>2. IInv /\ [Next]_vars => IInv'
  BY StepInv
<1> QED BY <1>1, <1>2, PTL DEF Spec

-----------------------------------------------------------------------------
(* What is proved of every state.                                          *)

\* The places on data_page, the descriptors and the toggles stay in their
\* bounds, whatever the controller executes: add_td (usb.c) never runs past
\* the page, because reset_qh gives all its places back.
THEOREM TypeCorrect == OneThread /\ Spec => []TypeOK
<1>1. ASSUME OneThread, IInv PROVE TypeOK
  <2>1. PICK t : Threads = {t}
    BY <1>1 DEF OneThread
  <2>2. Types /\ Adding(t) /\ t \in Threads
    BY <1>1, <2>1 DEF IInv
  <2>3. phase \in GetDescs \cup Sets \cup {"detect", "ready", "gone"}
    BY <2>2 DEF Types, DriverTypes, Phase
  <2>4. next_td \in 1..(NTD + 1) /\ last_td \in 0..NTD
    BY <2>2, Numbers DEF Types, QueueTypes, Adding
  <2>5. \A q \in DOMAIN qh : qh[q] \in 0..NTD
    BY <2>2 DEF Types, QueueTypes
  <2>6. \A i \in 1..NTD : /\ slots[i].status \in {"active", "done", "error"}
                          /\ slots[i].link \in 0..NTD /\ slots[i].tog \in {0, 1}
    <3>1. \A i \in 1..NTD : slots[i] \in Slot
      BY <2>2 DEF Types, QueueTypes
    <3> QED BY <3>1 DEF Slot
  <2>7. pc[t] \in {"idle", "link", "activate", "fill", "run", "poll", "reset", "return"}
    BY <2>2 DEF Types, ThreadTypes, Pc
  <2>8. Size(t) \in 2..NTD /\ todo[t] \in Seq(Tds) /\ last_td \in 0..NTD /\ NTD \in Nat
    BY <2>2, ListFacts, Numbers DEF Types, ThreadTypes, QueueTypes
  <2>9. ASSUME pc[t] \in {"link", "activate", "fill"} PROVE todo[t] # <<>>
    <3>1. Len(todo[t]) > 0
      BY <2>2, <2>8, <2>9 DEF Adding, Rest
    <3>2. ASSUME todo[t] = <<>> PROVE FALSE
      <4>1. Len(todo[t]) = 0
        BY <3>2
      <4> QED BY <3>1, <4>1
    <3> QED BY <3>2
  <2>10. ASSUME pc[t] = "link" PROVE next_td + Len(todo[t]) <= NTD + 1
    <3>1. Len(todo[t]) = Size(t) - last_td /\ next_td = last_td + 1
      BY <2>2, <2>10 DEF Adding, Rest
    <3> QED BY <3>1, <2>8
  <2>11. d \in Dev /\ faults \in 0..MaxFaults /\ torn \in BOOLEAN /\ early \in BOOLEAN
    BY <2>2 DEF Types, DeviceTypes
  <2>12. {data_in, data_out, d.tin, d.tout} \subseteq {0, 1} /\ d.n \in 0..(DATA + 1)
    BY <2>2, <2>11 DEF Types, DriverTypes, Dev
  <2>13. {halted, running, torn, early} \subseteq BOOLEAN
    BY <2>2, <2>11 DEF Types, DriverTypes
  <2> QED BY <2>1, <2>3, <2>4, <2>5, <2>6, <2>7, <2>9, <2>10, <2>11, <2>12, <2>13 DEF TypeOK
<1> SUFFICES ASSUME OneThread PROVE Spec => []TypeOK
  OBVIOUS
<1>2. Spec => []IInv
  BY Invariance
<1>3. IInv => TypeOK
  BY <1>1
<1> QED BY <1>2, <1>3, PTL

\* Between two commands the toggles of DATA_IN and DATA_OUT (bbb.h) are those
\* that the device expects, however many commands it refused.
THEOREM TogglesRight == OneThread /\ Spec => []TogglesAgree
<1>1. ASSUME OneThread, IInv, phase = "ready", ~torn, \A t \in Threads : pc[t] = "idle"
      PROVE  d.tin = 1 - data_in /\ d.tout = 1 - data_out
  <2>1. PICK t : Threads = {t}
    BY <1>1 DEF OneThread
  <2>2. AtRest(t)
    BY <1>1, <2>1, RestFacts
  <2>3. Toggled(t, 0) /\ last_td = 0
    BY <1>1, <2>2 DEF AtRest
  <2>4. Ins(t, last_td) - Ins(t, 0) = 0 /\ Outs(t, last_td) - Outs(t, 0) = 0
    BY <2>3, Numbers DEF Ins, Outs
  <2>5. 1 - data_in \in {0, 1} /\ 1 - data_out \in {0, 1}
    BY <1>1 DEF IInv, Types, DriverTypes
  <2>6. Flip(1 - data_in, 0) = 1 - data_in /\ Flip(1 - data_out, 0) = 1 - data_out
    BY <2>5, FlipFacts
  <2> QED BY <1>1, <2>3, <2>4, <2>6 DEF Toggled
<1> SUFFICES ASSUME OneThread PROVE Spec => []TogglesAgree
  OBVIOUS
<1>2. Spec => []IInv
  BY Invariance
<1>3. IInv => TogglesAgree
  BY <1>1 DEF TogglesAgree
<1> QED BY <1>2, <1>3, PTL

\* When run_qh (usb.c) returns, no descriptor is left to execute, although it
\* polls from the second on; and it stops the machine only if the device
\* failed or the controller came too early.
THEOREM PollsSound == OneThread /\ Spec => []PollsRight
<1>1. ASSUME OneThread, IInv PROVE PollsRight
  <2>1. PICK t : Threads = {t}
    BY <1>1 DEF OneThread
  <2>2. Types /\ Cause /\ Adding(t)
    BY <1>1, <2>1 DEF IInv
  <2>3. ASSUME pc[t] \in {"reset", "return", "idle"}, NEW i \in 1..NTD
        PROVE  slots[i].status # "active"
    <3>1. CASE pc[t] = "idle"
      BY <1>1, <2>1, <2>3, <3>1, RestFacts DEF AtRest
    <3>2. CASE pc[t] = "return"
      BY <1>1, <2>1, <2>3, <3>2, ReturnFacts
    <3>3. CASE pc[t] = "reset"
      <4>1. PICK e \in Nat : At(t, e)
        BY <1>1, <2>1 DEF IInv
      <4>2. e = last_td /\ Activated(t) = last_td /\ last_td \in 0..NTD
        BY <2>2, <3>3, <4>1 DEF At, Polled, Activated, Types, QueueTypes
      <4>3. i \in 1..e \/ i \in Activated(t)+1..NTD
        BY <4>2, Numbers
      <4> QED BY <4>1, <4>3 DEF At, Executed
    <3> QED BY <2>3, <3>1, <3>2, <3>3
  <2>4. QuietWhenReset
    BY <2>1, <2>3 DEF QuietWhenReset
  <2>5. HaltsOnlyForCause
    BY <2>2 DEF HaltsOnlyForCause, Cause
  <2> QED BY <2>4, <2>5 DEF PollsRight
<1> SUFFICES ASSUME OneThread PROVE Spec => []PollsRight
  OBVIOUS
<1>2. Spec => []IInv
  BY Invariance
<1>3. IInv => PollsRight
  BY <1>1
<1> QED BY <1>2, <1>3, PTL

LEMMA SameBlock ==
    ASSUME NEW f \in [1..DATA -> Words], NEW g \in [1..DATA -> Words],
           \A i \in 1..DATA : f[i] = g[i]
    PROVE  f = g
<1>1. f = [i \in 1..DATA |-> g[i]]
  OBVIOUS
<1>2. g = [i \in 1..DATA |-> g[i]]
  OBVIOUS
<1> QED BY <1>1, <1>2

\* What read_bbb and write_bbb (bbb.c) report as done was done: the block and
\* the buffer agree packet by packet, unless a descriptor was executed
\* half-written.
THEOREM TransfersSound == OneThread /\ Spec => []TransferRight
<1>1. ASSUME OneThread, IInv, NEW t \in Threads,
             pc[t] = "return", phase = "ready", buff[t].csw = "0", ~torn
      PROVE  disk[call[t].block] = IF call[t].op = "read" THEN buff[t].data
                                   ELSE Packets(call[t].val)
  <2>1. Threads = {t}
    BY <1>1 DEF OneThread
  <2>2. Types /\ Asking(t)
    BY <1>1 DEF IInv
  <2>3. Memory /\ Outside(t, Size(t)) /\ Size(t) = DATA + 2
    BY <1>1, <2>1, <2>2, ReturnFacts, ListFacts
  <2>4. Moved(t, DATA + 2)
    BY <2>3 DEF Outside
  <2>5. d.works
    <3>1. buff[t].csw = IF d.works THEN "0" ELSE "1"
      BY <1>1, <2>4, Numbers DEF Moved
    <3> QED BY <1>1, <3>1
  <2>6. \A i \in 1..DATA : disk[call[t].block][i]
                             = IF Reads(t) THEN buff[t].data[i] ELSE call[t].val
    BY <1>1, <2>4, <2>5, Numbers DEF Moved
  <2>7. disk[call[t].block] \in [1..DATA -> Words] /\ buff[t].data \in [1..DATA -> Words]
    <3>1. call[t].block \in Blocks
      BY <1>1, <2>2 DEF Asking
    <3>2. buff[t] \in Buffs
      BY <2>3 DEF Memory
    <3>3. disk[call[t].block] \in [1..DATA -> Words]
      BY <2>3, <3>1 DEF Memory
    <3>4. buff[t].data \in [1..DATA -> Words]
      BY <3>2 DEF Buffs
    <3> QED BY <3>3, <3>4
  <2>8. CASE Reads(t)
    <3>1. \A i \in 1..DATA : disk[call[t].block][i] = buff[t].data[i]
      BY <2>6, <2>8
    <3>2. disk[call[t].block] = buff[t].data
      BY <2>7, <3>1, SameBlock
    <3> QED BY <3>2, <2>8 DEF Reads
  <2>9. CASE ~Reads(t)
    <3>1. disk[call[t].block] = [i \in 1..DATA |-> call[t].val]
      BY <2>6, <2>7, <2>9
    <3> QED BY <3>1, <2>9 DEF Reads, Packets
  <2> QED BY <2>8, <2>9
<1> SUFFICES ASSUME OneThread PROVE Spec => []TransferRight
  OBVIOUS
<1>2. Spec => []IInv
  BY Invariance
<1>3. IInv => TransferRight
  BY <1>1 DEF TransferRight
<1> QED BY <1>2, <1>3, PTL

\* The interface and the endpoints of dev are those that config_uhci (usb.c)
\* finds in the device's own configuration descriptor, never in what an
\* earlier request has left in the buffer.
OwnDescriptor ==
    phase \in {"set_config", "set_inter", "bbb_reset", "ready"} /\ ~torn =>
        \E found \in Parsed(device) : Takes(dev, found)

\* config_uhci (usb.c) never configures a disk from a stale buffer.
LEMMA DescriptorKept == OneThread /\ Spec => []OwnDescriptor
<1>1. ASSUME OneThread, IInv, ~torn PROVE Kept
  <2>1. PICK t : Threads = {t}
    BY <1>1 DEF OneThread
  <2>2. PICK e \in Nat : At(t, e)
    BY <1>1, <2>1 DEF IInv
  <2> QED BY <1>1, <2>2 DEF At, InStep, Outside
<1> SUFFICES ASSUME OneThread PROVE Spec => []OwnDescriptor
  OBVIOUS
<1>2. Spec => []IInv
  BY Invariance
<1>3. IInv => OwnDescriptor
  BY <1>1 DEF OwnDescriptor, Kept
<1> QED BY <1>2, <1>3, PTL

-----------------------------------------------------------------------------
(* The parse of the configuration, an interface after the other.           *)

LEMMA Induction ==
  ASSUME NEW T, 0 \in T, \A n \in Nat : n \in T => n + 1 \in T
  PROVE  \A n \in Nat : n \in T
<1>1. SUFFICES ASSUME NEW m \in Nat, m \notin T PROVE FALSE
  OBVIOUS
<1> DEFINE Out == {n \in Nat : n \notin T}
<1>2. Out \subseteq Nat /\ Out # {}
  <2>1. m \in Out
    BY <1>1
  <2> QED BY <2>1
<1>3. PICK n \in Out : \A y \in Out : ~ (<<y, n>> \in OpToRel(<, Nat))
  BY <1>2, NatLessThanWellFounded, WFMin
<1>4. n \in Nat /\ n \notin T /\ n # 0
  BY <1>3
<1>5. n - 1 \in Nat /\ n - 1 < n
  BY <1>4
<1>6. n - 1 \notin Out
  BY <1>3, <1>4, <1>5 DEF OpToRel
<1>7. (n - 1) + 1 \in T
  BY <1>5, <1>6
<1> QED BY <1>4, <1>5, <1>7

\* TakeEndpoints after n of the endpoints.
AfterEndps(desc, c, m) ==
    CHOOSE after : after = [j \in 0..m |->
        IF j = 0 THEN {c} ELSE UNION {NextEndpoint(desc, x) : x \in after[j - 1]}]

EndpsBegun(f, desc, c, m) ==
    f = [j \in 0..m |-> IF j = 0 THEN {c} ELSE UNION {NextEndpoint(desc, x) : x \in f[j - 1]}]

LEMMA AfterEndpsIs ==
  ASSUME NEW desc, NEW c, NEW m \in Nat
  PROVE  /\ TakeEndpoints(desc, c, m) = AfterEndps(desc, c, m)[m]
         /\ AfterEndps(desc, c, m)[0] = {c}
         /\ \A j \in 1..m : AfterEndps(desc, c, m)[j]
                = UNION {NextEndpoint(desc, x) : x \in AfterEndps(desc, c, m)[j - 1]}
<1> DEFINE Starts == {k \in Nat : \E f : EndpsBegun(f, desc, c, k)}
<1>1. 0 \in Starts
  <2>1. PICK f : f = [j \in 0..0 |-> {c}]
    OBVIOUS
  <2>2. f = [j \in 0..0 |-> IF j = 0 THEN {c}
                            ELSE UNION {NextEndpoint(desc, x) : x \in f[j - 1]}]
    BY <2>1
  <2> QED BY <2>2 DEF EndpsBegun
<1>2. ASSUME NEW k \in Nat, k \in Starts PROVE k + 1 \in Starts
  <2>1. PICK f : EndpsBegun(f, desc, c, k)
    BY <1>2
  <2>2. PICK new : new = UNION {NextEndpoint(desc, x) : x \in f[k]}
    OBVIOUS
  <2>3. PICK g : g = [j \in 0..k + 1 |-> IF j = k + 1 THEN new ELSE f[j]]
    OBVIOUS
  <2>4. ASSUME NEW j \in 0..k + 1
        PROVE  g[j] = IF j = 0 THEN {c} ELSE UNION {NextEndpoint(desc, x) : x \in g[j - 1]}
    <3>1. CASE j = 0
      <4>1. j \in 0..k /\ j # k + 1
        BY <3>1
      <4> QED BY <3>1, <4>1, <2>1, <2>3 DEF EndpsBegun
    <3>2. CASE j # 0 /\ j # k + 1
      <4>1. j \in 0..k /\ j - 1 \in 0..k /\ j - 1 \in 0..k + 1 /\ j - 1 # k + 1
        BY <3>2
      <4>2. f[j] = UNION {NextEndpoint(desc, x) : x \in f[j - 1]}
        BY <3>2, <4>1, <2>1 DEF EndpsBegun
      <4>3. g[j] = f[j] /\ g[j - 1] = f[j - 1]
        BY <3>2, <4>1, <2>3
      <4> QED BY <3>2, <4>2, <4>3
    <3>3. CASE j = k + 1
      <4>1. j - 1 = k /\ k \in 0..k + 1 /\ k # k + 1 /\ j # 0
        BY <3>3
      <4>2. g[k] = f[k] /\ g[j] = new
        BY <3>3, <4>1, <2>3
      <4> QED BY <3>3, <4>1, <4>2, <2>2
    <3> QED BY <3>1, <3>2, <3>3
  <2>5. g = [j \in 0..k + 1 |-> g[j]]
    BY <2>3
  <2>6. EndpsBegun(g, desc, c, k + 1)
    BY <2>4, <2>5 DEF EndpsBegun
  <2> QED BY <2>6
<1>3. m \in Starts
  <2> HIDE DEF Starts
  <2> QED BY <1>1, <1>2, Induction
<1>4. PICK f : f = [j \in 0..m |-> IF j = 0 THEN {c}
                                   ELSE UNION {NextEndpoint(desc, x) : x \in f[j - 1]}]
  BY <1>3 DEF EndpsBegun
<1>5. AfterEndps(desc, c, m)
        = [j \in 0..m |-> IF j = 0 THEN {c}
                          ELSE UNION {NextEndpoint(desc, x) : x \in AfterEndps(desc, c, m)[j - 1]}]
  BY <1>4, Zenon DEF AfterEndps
<1>6. TakeEndpoints(desc, c, m) = AfterEndps(desc, c, m)[m]
  BY DEF TakeEndpoints, AfterEndps
<1> QED BY <1>5, <1>6

\* Parsed after n of the interfaces.
AfterInters(desc, m) ==
    CHOOSE after : after = [j \in 0..m |->
        IF j = 0 THEN {Cursor(CONFIG, Dev0)} ELSE UNION {NextInterface(desc, x) : x \in after[j - 1]}]

IntersBegun(f, desc, m) ==
    f = [j \in 0..m |-> IF j = 0 THEN {Cursor(CONFIG, Dev0)} ELSE UNION {NextInterface(desc, x) : x \in f[j - 1]}]

LEMMA AfterIntersIs ==
  ASSUME NEW desc, NEW m \in Nat, m = desc.num_inter
  PROVE  /\ Parsed(desc) = {c.found : c \in AfterInters(desc, m)[m]}
         /\ AfterInters(desc, m)[0] = {Cursor(CONFIG, Dev0)}
         /\ \A j \in 1..m : AfterInters(desc, m)[j]
                = UNION {NextInterface(desc, x) : x \in AfterInters(desc, m)[j - 1]}
<1> DEFINE Starts == {k \in Nat : \E f : IntersBegun(f, desc, k)}
<1>1. 0 \in Starts
  <2>1. PICK f : f = [j \in 0..0 |-> {Cursor(CONFIG, Dev0)}]
    OBVIOUS
  <2>2. f = [j \in 0..0 |-> IF j = 0 THEN {Cursor(CONFIG, Dev0)}
                            ELSE UNION {NextInterface(desc, x) : x \in f[j - 1]}]
    BY <2>1
  <2> QED BY <2>2 DEF IntersBegun
<1>2. ASSUME NEW k \in Nat, k \in Starts PROVE k + 1 \in Starts
  <2>1. PICK f : IntersBegun(f, desc, k)
    BY <1>2
  <2>2. PICK new : new = UNION {NextInterface(desc, x) : x \in f[k]}
    OBVIOUS
  <2>3. PICK g : g = [j \in 0..k + 1 |-> IF j = k + 1 THEN new ELSE f[j]]
    OBVIOUS
  <2>4. ASSUME NEW j \in 0..k + 1
        PROVE  g[j] = IF j = 0 THEN {Cursor(CONFIG, Dev0)} ELSE UNION {NextInterface(desc, x) : x \in g[j - 1]}
    <3>1. CASE j = 0
      <4>1. j \in 0..k /\ j # k + 1
        BY <3>1
      <4> QED BY <3>1, <4>1, <2>1, <2>3 DEF IntersBegun
    <3>2. CASE j # 0 /\ j # k + 1
      <4>1. j \in 0..k /\ j - 1 \in 0..k /\ j - 1 \in 0..k + 1 /\ j - 1 # k + 1
        BY <3>2
      <4>2. f[j] = UNION {NextInterface(desc, x) : x \in f[j - 1]}
        BY <3>2, <4>1, <2>1 DEF IntersBegun
      <4>3. g[j] = f[j] /\ g[j - 1] = f[j - 1]
        BY <3>2, <4>1, <2>3
      <4> QED BY <3>2, <4>2, <4>3
    <3>3. CASE j = k + 1
      <4>1. j - 1 = k /\ k \in 0..k + 1 /\ k # k + 1 /\ j # 0
        BY <3>3
      <4>2. g[k] = f[k] /\ g[j] = new
        BY <3>3, <4>1, <2>3
      <4> QED BY <3>3, <4>1, <4>2, <2>2
    <3> QED BY <3>1, <3>2, <3>3
  <2>5. g = [j \in 0..k + 1 |-> g[j]]
    BY <2>3
  <2>6. IntersBegun(g, desc, k + 1)
    BY <2>4, <2>5 DEF IntersBegun
  <2> QED BY <2>6
<1>3. m \in Starts
  <2> HIDE DEF Starts
  <2> QED BY <1>1, <1>2, Induction
<1>4. PICK f : f = [j \in 0..m |-> IF j = 0 THEN {Cursor(CONFIG, Dev0)}
                                   ELSE UNION {NextInterface(desc, x) : x \in f[j - 1]}]
  BY <1>3 DEF IntersBegun
<1>5. AfterInters(desc, m)
        = [j \in 0..m |-> IF j = 0 THEN {Cursor(CONFIG, Dev0)}
                          ELSE UNION {NextInterface(desc, x) : x \in AfterInters(desc, m)[j - 1]}]
  BY <1>4, Zenon DEF AfterInters
<1>6. Parsed(desc) = {c.found : c \in AfterInters(desc, m)[m]}
  BY DEF Parsed, AfterInters
<1> QED BY <1>5, <1>6


\* A cursor in interface i, which config_uhci took with f behind j of its
\* endpoints: what is found came from them, or was found before.
InEndps(i, f, c, j) ==
    /\ c = Cursor(i.at + INTER + ENDP * j,
                  [addr |-> f.addr, inter |-> f.inter,
                   in_endp |-> c.found.in_endp, out_endp |-> c.found.out_endp])
    /\ c.found.in_endp = f.in_endp \/ Has(i, TRUE, c.found.in_endp)
    /\ c.found.out_endp = f.out_endp \/ Has(i, FALSE, c.found.out_endp)
    /\ \A e \in i.endps : e.at < c.at =>
          IF e.in THEN Has(i, TRUE, c.found.in_endp) ELSE Has(i, FALSE, c.found.out_endp)

\* In a readable configuration there is one endpoint where the next is read.
LEMMA OneEndpoint ==
  ASSUME NEW desc \in Devices, Readable(desc), NEW i \in desc.inters,
         NEW j \in 0..i.num_endp - 1
  PROVE  \E e \in i.endps : /\ e.at = i.at + INTER + ENDP * j
                            /\ e.in \in BOOLEAN
                            /\ EndpsAt(desc, i.at + INTER + ENDP * j) = {e}
<1> DEFINE p == i.at + INTER + ENDP * j
<1>1. IsInterface(i)
  BY DevicesAssumption
<1>2. p \in EndpPlaces(i)
  BY DEF EndpPlaces
<1>3. PICK e \in i.endps : e.at = p
  BY <1>2 DEF Readable
<1>4. IsEndpoint(e)
  BY <1>1 DEF IsInterface
<1>5. p + ENDP <= WANTED
  <2>1. i.at \in Nat /\ i.num_endp \in Nat /\ desc.total \in Nat /\ j \in Nat
        /\ j <= i.num_endp - 1
    BY <1>1, DevicesAssumption DEF IsInterface
  <2>2. i.at + INTER + ENDP * i.num_endp <= desc.total /\ desc.total <= WANTED
    BY DEF Readable
  <2> QED BY <2>1, <2>2 DEF INTER, ENDP, WANTED
<1>6. e \in UNION {x.endps : x \in desc.inters}
  BY <1>3
<1>7. ASSUME NEW f \in UNION {x.endps : x \in desc.inters}, f.at = p PROVE f = e
  <2>1. PICK x \in desc.inters : f \in x.endps
    BY <1>7
  <2> QED BY <2>1, <1>3, <1>7, DevicesAssumption
<1>8. {f \in UNION {x.endps : x \in desc.inters} : f.at = p /\ p + ENDP <= WANTED} = {e}
  BY <1>3, <1>5, <1>6, <1>7
<1>9. EndpsAt(desc, p) = {e}
  BY <1>8, Zenon DEF EndpsAt
<1> QED BY <1>3, <1>4, <1>9 DEF IsEndpoint

LEMMA NextInEndps ==
  ASSUME NEW desc \in Devices, Readable(desc), NEW i \in desc.inters,
         NEW j \in 0..i.num_endp - 1, NEW f, NEW c, InEndps(i, f, c, j),
         NEW x \in NextEndpoint(desc, c)
  PROVE  InEndps(i, f, x, j + 1)
<1>1. /\ i.at \in Nat /\ i.num_endp \in Nat /\ desc.total \in Nat
      /\ \A e \in i.endps : e.at \in Nat /\ e.in \in BOOLEAN
  BY DevicesAssumption DEF IsInterface, IsEndpoint
<1>2. c.at = i.at + INTER + ENDP * j
  BY DEF InEndps, Cursor
<1>3. desc.total > c.at
  <2>1. i.at + INTER + ENDP * i.num_endp <= desc.total
    BY DEF Readable
  <2> QED BY <1>1, <1>2, <2>1 DEF INTER, ENDP
<1>4. PICK e \in i.endps : e.at = c.at /\ EndpsAt(desc, c.at) = {e}
  BY <1>2, OneEndpoint
<1>5. x = Cursor(c.at + ENDP, TakeEndpoint(c.found, e))
  BY <1>3, <1>4 DEF NextEndpoint
<1>6. c.at + ENDP = i.at + INTER + ENDP * (j + 1)
  BY <1>1, <1>2 DEF INTER, ENDP
<1>7. c.found = [addr |-> f.addr, inter |-> f.inter,
                 in_endp |-> c.found.in_endp, out_endp |-> c.found.out_endp]
  BY DEF InEndps, Cursor
<1>8. x.at = c.at + ENDP /\ x.found = TakeEndpoint(c.found, e)
  BY <1>5 DEF Cursor
<1>9. ASSUME NEW o \in i.endps, o.at < x.at PROVE o.at < c.at \/ o = e
  <2>1. o.at \in {y.at : y \in i.endps}
    BY <1>9
  <2>2. PICK k \in 0..i.num_endp - 1 : o.at = i.at + INTER + ENDP * k
    BY <2>1 DEF Readable, EndpPlaces
  <2>3. k < j + 1
    BY <1>1, <1>6, <1>8, <1>9, <2>2 DEF INTER, ENDP
  <2>4. CASE k = j
    <3>1. o.at = e.at
      BY <2>2, <2>4, <1>2, <1>4
    <3> QED BY <3>1, DevicesAssumption
  <2>5. CASE k < j
    BY <2>2, <2>5, <1>1, <1>2 DEF INTER, ENDP
  <2> QED BY <1>1, <2>3, <2>4, <2>5
<1>10. CASE e.in
  <2>1. x.found = [addr |-> f.addr, inter |-> f.inter,
                   in_endp |-> e.num, out_endp |-> c.found.out_endp]
    BY <1>7, <1>8, <1>10 DEF TakeEndpoint
  <2>2. Has(i, TRUE, x.found.in_endp) /\ x.found.out_endp = c.found.out_endp
    BY <2>1, <1>1, <1>10 DEF Has
  <2>3. x = Cursor(i.at + INTER + ENDP * (j + 1),
                   [addr |-> f.addr, inter |-> f.inter,
                    in_endp |-> x.found.in_endp, out_endp |-> x.found.out_endp])
    BY <2>1, <1>5, <1>6, <1>8
  <2>4. ASSUME NEW o \in i.endps, o.at < x.at
        PROVE  IF o.in THEN Has(i, TRUE, x.found.in_endp) ELSE Has(i, FALSE, x.found.out_endp)
    BY <2>2, <2>4, <1>9, <1>10 DEF InEndps
  <2> QED BY <2>2, <2>3, <2>4 DEF InEndps
<1>11. CASE ~e.in
  <2>1. x.found = [addr |-> f.addr, inter |-> f.inter,
                   in_endp |-> c.found.in_endp, out_endp |-> e.num]
    BY <1>7, <1>8, <1>11 DEF TakeEndpoint
  <2>2. Has(i, FALSE, x.found.out_endp) /\ x.found.in_endp = c.found.in_endp
    BY <2>1, <1>1, <1>11 DEF Has
  <2>3. x = Cursor(i.at + INTER + ENDP * (j + 1),
                   [addr |-> f.addr, inter |-> f.inter,
                    in_endp |-> x.found.in_endp, out_endp |-> x.found.out_endp])
    BY <2>1, <1>5, <1>6, <1>8
  <2>4. ASSUME NEW o \in i.endps, o.at < x.at
        PROVE  IF o.in THEN Has(i, TRUE, x.found.in_endp) ELSE Has(i, FALSE, x.found.out_endp)
    BY <2>2, <2>4, <1>9, <1>11 DEF InEndps
  <2> QED BY <2>2, <2>3, <2>4 DEF InEndps
<1> QED BY <1>10, <1>11

\* What config_uhci has of an interface when it has walked over its endpoints.
LEMMA EndpsTaken ==
  ASSUME NEW desc \in Devices, Readable(desc), NEW i \in desc.inters, NEW f, NEW c0,
         InEndps(i, f, c0, 0), NEW c \in TakeEndpoints(desc, c0, i.num_endp)
  PROVE  InEndps(i, f, c, i.num_endp)
<1> DEFINE m == i.num_endp
           A == AfterEndps(desc, c0, m)
           Good == {j \in Nat : j \in 0..m => \A x \in A[j] : InEndps(i, f, x, j)}
<1>1. m \in Nat
  BY DevicesAssumption DEF IsInterface
<1>2. /\ TakeEndpoints(desc, c0, m) = A[m]
      /\ A[0] = {c0}
      /\ \A j \in 1..m : A[j] = UNION {NextEndpoint(desc, x) : x \in A[j - 1]}
  BY <1>1, AfterEndpsIs
<1> HIDE DEF A
<1>3. 0 \in Good
  BY <1>2
<1>4. ASSUME NEW j \in Nat, j \in Good PROVE j + 1 \in Good
  <2>1. SUFFICES ASSUME j + 1 \in 0..m, NEW x \in A[j + 1] PROVE InEndps(i, f, x, j + 1)
    OBVIOUS
  <2>2. j + 1 \in 1..m /\ j \in 0..m - 1 /\ j \in 0..m /\ (j + 1) - 1 = j
    BY <1>1, <2>1
  <2>3. A[j + 1] = UNION {NextEndpoint(desc, y) : y \in A[j]}
    BY <1>2, <2>2
  <2>4. PICK y \in A[j] : x \in NextEndpoint(desc, y)
    BY <2>1, <2>3
  <2>5. InEndps(i, f, y, j)
    BY <1>4, <2>2
  <2> QED BY <2>2, <2>4, <2>5, NextInEndps
<1>5. m \in Good
  <2> HIDE DEF Good
  <2> QED BY <1>1, <1>3, <1>4, Induction
<1> QED BY <1>1, <1>2, <1>5

\* A cursor between two interfaces, and what was found before it.
Disks(desc) == {i \in desc.inters : i.bbb}
Walked(desc, c) ==
    /\ Begins(desc, c.at)
    /\ c = Cursor(c.at, [addr |-> 0, inter |-> c.found.inter,
                         in_endp |-> c.found.in_endp, out_endp |-> c.found.out_endp])
    /\ c.found.inter # 0 => \E i \in Disks(desc) : i.num = c.found.inter
    /\ c.found.in_endp # 0 => \E i \in Disks(desc) : Has(i, TRUE, c.found.in_endp)
    /\ c.found.out_endp # 0 => \E i \in Disks(desc) : Has(i, FALSE, c.found.out_endp)
    /\ (\A i \in Disks(desc) : Ways(i) = BOOLEAN) /\ c.found.inter # 0 =>
          \E i \in Disks(desc) : /\ i.num = c.found.inter
                                 /\ Has(i, TRUE, c.found.in_endp)
                                 /\ Has(i, FALSE, c.found.out_endp)

\* In a readable configuration there is one interface where the next is read.
LEMMA OneInterface ==
  ASSUME NEW desc \in Devices, Readable(desc), NEW p \in Nat, Begins(desc, p),
         desc.total > p
  PROVE  \E i \in desc.inters : i.at = p /\ IntersAt(desc, p) = {i}
<1>1. desc.total \in Nat
  BY DevicesAssumption
<1>2. PICK i \in desc.inters : i.at = p
  BY <1>1 DEF Begins
<1>3. p + INTER <= WANTED
  <2>1. i.at \in Nat /\ i.num_endp \in Nat
    BY DevicesAssumption DEF IsInterface
  <2>2. i.at + INTER + ENDP * i.num_endp <= desc.total /\ desc.total <= WANTED
    BY DEF Readable
  <2> QED BY <1>1, <1>2, <2>1, <2>2 DEF INTER, ENDP, WANTED
<1>4. {x \in desc.inters : x.at = p /\ p + INTER <= WANTED} = {i}
  BY <1>2, <1>3, DevicesAssumption
<1>5. IntersAt(desc, p) = {i}
  BY <1>4, Zenon DEF IntersAt
<1> QED BY <1>2, <1>5

LEMMA NextBetween ==
  ASSUME NEW desc \in Devices, Readable(desc), NEW c, Walked(desc, c),
         NEW x \in NextInterface(desc, c)
  PROVE  Walked(desc, x)
<1>1. CASE ~(desc.total > c.at)
  BY <1>1 DEF NextInterface
<1>2. CASE desc.total > c.at
  <2>1. c.at \in Nat
    BY DevicesAssumption DEF Walked, Begins, IsInterface
  <2>2. PICK i \in desc.inters : i.at = c.at /\ IntersAt(desc, c.at) = {i}
    BY <1>2, <2>1, OneInterface DEF Walked
  <2>3. x \in TakeInterface(desc, c, i)
    BY <1>2, <2>2 DEF NextInterface
  <2>4. /\ i.at \in Nat /\ i.num_endp \in Nat /\ i.num \in Nat \ {0}
        /\ \A e \in i.endps : e.at \in Nat /\ e.in \in BOOLEAN
    BY DevicesAssumption DEF IsInterface, IsEndpoint
  <2>5. Begins(desc, i.at + INTER + ENDP * i.num_endp)
    BY DEF Readable
  <2>6. c.found = [addr |-> 0, inter |-> c.found.inter,
                   in_endp |-> c.found.in_endp, out_endp |-> c.found.out_endp]
    BY DEF Walked, Cursor
  <2>7. CASE ~i.bbb
    <3>1. x = Cursor(i.at + INTER + ENDP * i.num_endp, c.found)
      BY <2>2, <2>3, <2>7 DEF TakeInterface, PassOver
    <3>2. x.at = i.at + INTER + ENDP * i.num_endp /\ x.found = c.found
      BY <3>1 DEF Cursor
    <3> QED BY <2>5, <2>6, <3>1, <3>2 DEF Walked
  <2>8. CASE i.bbb
    <3> DEFINE f == [c.found EXCEPT !.inter = i.num]
               c0 == Cursor(c.at + INTER, f)
    <3>1. f = [addr |-> 0, inter |-> i.num,
               in_endp |-> c.found.in_endp, out_endp |-> c.found.out_endp]
      BY <2>6
    <3>2. x \in TakeEndpoints(desc, c0, i.num_endp)
      BY <2>3, <2>8 DEF TakeInterface
    <3>3. InEndps(i, f, c0, 0)
      <4>1. c0.at = c.at + INTER /\ c0.found = f
        BY DEF Cursor
      <4>2. i.at + INTER + ENDP * 0 = c.at + INTER
        BY <2>1, <2>2 DEF INTER, ENDP
      <4>3. c0 = Cursor(i.at + INTER + ENDP * 0,
                        [addr |-> f.addr, inter |-> f.inter,
                         in_endp |-> c0.found.in_endp, out_endp |-> c0.found.out_endp])
        BY <3>1, <4>1, <4>2
      <4>4. ASSUME NEW e \in i.endps PROVE ~(e.at < c0.at)
        <5>1. e.at \in EndpPlaces(i)
          BY DEF Readable
        <5>2. PICK k \in 0..i.num_endp - 1 : e.at = i.at + INTER + ENDP * k
          BY <5>1 DEF EndpPlaces
        <5> QED BY <5>2, <4>1, <2>1, <2>2, <2>4 DEF INTER, ENDP
      <4> HIDE DEF c0, f
      <4> QED BY <4>1, <4>3, <4>4 DEF InEndps
    <3> HIDE DEF c0
    <3>4. InEndps(i, f, x, i.num_endp)
      <4> HIDE DEF f
      <4> QED BY <3>2, <3>3, EndpsTaken
    <3>5. f.addr = 0 /\ f.inter = i.num /\ f.in_endp = c.found.in_endp
          /\ f.out_endp = c.found.out_endp
      BY <3>1
    <3> HIDE DEF f
    <3>6. /\ x = Cursor(i.at + INTER + ENDP * i.num_endp,
                        [addr |-> 0, inter |-> i.num,
                         in_endp |-> x.found.in_endp, out_endp |-> x.found.out_endp])
          /\ x.found.in_endp = c.found.in_endp \/ Has(i, TRUE, x.found.in_endp)
          /\ x.found.out_endp = c.found.out_endp \/ Has(i, FALSE, x.found.out_endp)
      BY <3>4, <3>5 DEF InEndps
    <3>7. x.at = i.at + INTER + ENDP * i.num_endp /\ x.found.inter = i.num
      BY <3>6 DEF Cursor
    <3>8. i \in Disks(desc)
      BY <2>8 DEF Disks
    <3>9. ASSUME Ways(i) = BOOLEAN
          PROVE  Has(i, TRUE, x.found.in_endp) /\ Has(i, FALSE, x.found.out_endp)
      <4>1. \A e \in i.endps : e.at < x.at
        <5>1. SUFFICES ASSUME NEW e \in i.endps PROVE e.at < x.at
          OBVIOUS
        <5>2. e.at \in EndpPlaces(i)
          BY DEF Readable
        <5>3. PICK k \in 0..i.num_endp - 1 : e.at = i.at + INTER + ENDP * k
          BY <5>2 DEF EndpPlaces
        <5> QED BY <5>3, <3>7, <2>4 DEF INTER, ENDP
      <4>2. PICK e \in i.endps : e.in = TRUE
        <5>1. TRUE \in Ways(i)
          BY <3>9
        <5> QED BY <5>1 DEF Ways
      <4>3. PICK o \in i.endps : o.in = FALSE
        <5>1. FALSE \in Ways(i)
          BY <3>9
        <5> QED BY <5>1 DEF Ways
      <4> QED BY <3>4, <4>1, <4>2, <4>3 DEF InEndps
    <3>10. x = Cursor(x.at, [addr |-> 0, inter |-> x.found.inter,
                             in_endp |-> x.found.in_endp, out_endp |-> x.found.out_endp])
      BY <3>6, <3>7
    <3>11. Begins(desc, x.at)
      BY <2>5, <3>7
    <3>12. x.found.in_endp # 0 => \E k \in Disks(desc) : Has(k, TRUE, x.found.in_endp)
      BY <3>6, <3>8 DEF Walked
    <3>13. x.found.out_endp # 0 => \E k \in Disks(desc) : Has(k, FALSE, x.found.out_endp)
      BY <3>6, <3>8 DEF Walked
    <3> QED BY <3>7, <3>8, <3>9, <3>10, <3>11, <3>12, <3>13 DEF Walked
  <2> QED BY <2>7, <2>8
<1> QED BY <1>1, <1>2

LEMMA ParsedRight ==
  ASSUME NEW desc \in Devices, Readable(desc), NEW found \in Parsed(desc)
  PROVE  \E c : c.found = found /\ Walked(desc, c)
<1> DEFINE m == desc.num_inter
           A == AfterInters(desc, m)
           Good == {j \in Nat : j \in 0..m => \A x \in A[j] : Walked(desc, x)}
<1>1. m \in Nat
  BY DevicesAssumption
<1>2. /\ Parsed(desc) = {c.found : c \in A[m]}
      /\ A[0] = {Cursor(CONFIG, Dev0)}
      /\ \A j \in 1..m : A[j] = UNION {NextInterface(desc, x) : x \in A[j - 1]}
  BY <1>1, AfterIntersIs
<1> HIDE DEF A
<1>3. 0 \in Good
  <2>1. Walked(desc, Cursor(CONFIG, Dev0))
    BY DEF Walked, Cursor, Dev0, Readable
  <2> QED BY <1>2, <2>1
<1>4. ASSUME NEW j \in Nat, j \in Good PROVE j + 1 \in Good
  <2>1. SUFFICES ASSUME j + 1 \in 0..m, NEW x \in A[j + 1] PROVE Walked(desc, x)
    OBVIOUS
  <2>2. j + 1 \in 1..m /\ j \in 0..m /\ (j + 1) - 1 = j
    BY <1>1, <2>1
  <2>3. A[j + 1] = UNION {NextInterface(desc, y) : y \in A[j]}
    BY <1>2, <2>2
  <2>4. PICK y \in A[j] : x \in NextInterface(desc, y)
    BY <2>1, <2>3
  <2>5. Walked(desc, y)
    BY <1>4, <2>2
  <2> QED BY <2>4, <2>5, NextBetween
<1>5. m \in Good
  <2> HIDE DEF Good
  <2> QED BY <1>1, <1>3, <1>4, Induction
<1> QED BY <1>1, <1>2, <1>5

-----------------------------------------------------------------------------
(* What config_uhci keeps.                                                 *)

\* The interface and the endpoints that config_uhci keeps are the device's:
\* EndpointsRight, for every device whose configuration is readable.
THEOREM EndpointsSound == OneThread /\ Spec => []EndpointsRight
<1>1. ASSUME OwnDescriptor, device \in Devices PROVE EndpointsRight
  <2>1. SUFFICES ASSUME phase \in {"set_config", "set_inter", "bbb_reset", "ready"},
                        ~torn, Readable(device)
                 PROVE  /\ \E i \in Disks(device) : i.num = dev.inter
                        /\ \E i, j \in Disks(device) : /\ Has(i, TRUE, dev.in_endp)
                                                       /\ Has(j, FALSE, dev.out_endp)
                        /\ (\A i \in Disks(device) : Ways(i) = BOOLEAN) =>
                              \E i \in Disks(device) : /\ i.num = dev.inter
                                                       /\ Has(i, TRUE, dev.in_endp)
                                                       /\ Has(i, FALSE, dev.out_endp)
    BY DEF EndpointsRight, Disks
  <2>2. PICK found \in Parsed(device) : Takes(dev, found)
    BY <1>1, <2>1 DEF OwnDescriptor
  <2>3. PICK c : c.found = found /\ Walked(device, c)
    BY <1>1, <2>1, ParsedRight
  <2>4. /\ found.inter # 0 /\ found.in_endp # 0 /\ found.out_endp # 0
        /\ dev.inter = found.inter
        /\ dev.in_endp = found.in_endp /\ dev.out_endp = found.out_endp
    BY <2>2 DEF Takes, IsDisk
  <2> QED BY <2>3, <2>4 DEF Walked
<1>2. Spec => [](device \in Devices)
  <2>1. Init => device \in Devices
    BY DEF Init, InitRest
  <2>2. device \in Devices /\ [Next]_vars => (device \in Devices)'
    <3>1. ASSUME [Next]_vars PROVE UNCHANGED device
      <4>1. CASE UNCHANGED vars
        BY <4>1 DEF vars, driver
      <4>2. ASSUME NEW q \in {"ctrl", "bulk"}, Execute(q) \/ Fault(q) PROVE UNCHANGED device
        BY <4>2 DEF Execute, Fault, driver
      <4>3. ASSUME NEW t \in Threads, Detect(t) \/ BeginControl(t) \/ EndControl(t)
            PROVE  UNCHANGED device
        BY <4>3 DEF Detect, BeginControl, EndControl, Begin
      <4>4. ASSUME NEW t \in Threads, Read(t) \/ Write(t) \/ Return(t) PROVE UNCHANGED device
        BY <4>4 DEF Read, Write, Return, Begin, driver
      <4>5. ASSUME NEW t \in Threads, Transfer(t) PROVE UNCHANGED device
        BY <4>5 DEF Transfer, Link, Activate, Fill, Run, Poll, ResetQh, driver
      <4>6. ASSUME NEW t \in Threads, Timeout(t) PROVE UNCHANGED device
        BY <4>6 DEF Timeout
      <4> QED BY <3>1, <4>1, <4>2, <4>3, <4>4, <4>5, <4>6 DEF Next, Controller, ThreadStep
    <3> QED BY <3>1
  <2> QED BY <2>1, <2>2, PTL DEF Spec
<1> SUFFICES ASSUME OneThread PROVE Spec => []EndpointsRight
  OBVIOUS
<1>3. Spec => []OwnDescriptor
  BY DescriptorKept
<1>4. OwnDescriptor /\ device \in Devices => EndpointsRight
  BY <1>1
<1> QED BY <1>2, <1>3, <1>4, PTL

\* What one transfer leaves to the next on the page of descriptors and in the
\* toggles (usb.c, bbb.c) fits the device: PipesRight.
THEOREM PipesSound == OneThread /\ Spec => []PipesRight
<1> SUFFICES ASSUME OneThread PROVE Spec => []PipesRight
  OBVIOUS
<1>1. Spec => []TypeOK /\ []TogglesAgree
  BY TypeCorrect, TogglesRight
<1> QED BY <1>1, PTL DEF PipesRight
=============================================================================
