------------------------------ MODULE UsbDisk -------------------------------
(***************************************************************************)
(* The USB disk: the queue of transfer descriptors that the driver and the *)
(* host controller share (usb.c), the bulk-only transport on top of it     *)
(* (bbb.c) and the configuration of a device at boot.                      *)
(*                                                                         *)
(* The driver adds a descriptor in three steps: it links it, marks it as   *)
(* active, and then writes its token and buffer (add_td).  The controller  *)
(* executes an active descriptor that it reaches in any step: run_qh takes *)
(* the run bit out of its copy of USBCMD and never writes it back, so from *)
(* the second transfer on the controller runs while descriptors are added. *)
(*                                                                         *)
(* The controller and the device are external.  A packet is stood for by   *)
(* the buffer it goes to or comes from; a block has DATA packets.  Tags,   *)
(* signatures and the layout of commands are left out.  The descriptors of *)
(* a device are records at their places among the bytes of the             *)
(* configuration: config_uhci walks these bytes and takes what it comes to *)
(* for a descriptor, be it one or not.                                     *)
(***************************************************************************)
EXTENDS Integers, FiniteSets, SequencesExt

CONSTANTS
    Threads,
    Uses,       \* the blocks that each thread reads and writes
    DATA,       \* packets of a block: BLOCK_LEN / maxp, 8 in the code
    NTD,        \* bound: descriptors on data_page, 126
    Devices,    \* bound: what can be plugged in, see Device below
    Junk,       \* bound: what bytes that are no descriptor look like
    MaxFaults   \* bound: times the device stalls or stops answering

ASSUME UsbAssumption ==
    /\ {DATA, NTD} \subseteq Nat \ {0} /\ MaxFaults \in Nat
    /\ DATA + 2 <= NTD
    /\ Threads \subseteq Nat \ {0} /\ Uses \in [Threads -> SUBSET (Nat \ {0})]

\* Interfaces and endpoints count from 1: 0 stands for one that was not found
\* (b_inter, b_endp_in and b_endp_out of config_uhci).  A descriptor is at a
\* place in the configuration; between those of interfaces and endpoints there
\* may be others, which a keyboard has for one.  DevicesAssumption: no two
\* descriptors are at one place.
IsEndpoint(e) == e.at \in Nat /\ e.in \in BOOLEAN /\ e.num \in Nat \ {0}
IsInterface(i) ==
    /\ {i.at, i.num_endp} \subseteq Nat /\ i.bbb \in BOOLEAN /\ i.num \in Nat \ {0}
    /\ \A e \in i.endps : IsEndpoint(e)

ASSUME DevicesAssumption ==
    \A desc \in Devices :
        /\ {desc.num_config, desc.total, desc.num_inter} \subseteq Nat
        /\ \A i \in desc.inters : IsInterface(i)
        /\ \A i, j \in desc.inters : i.at = j.at => i = j
        /\ \A i, j \in desc.inters : \A e \in i.endps, f \in j.endps :
              e.at = f.at => i = j /\ e = f

ASSUME JunkAssumption ==
    Junk \subseteq [bbb : BOOLEAN, num : Nat \ {0}, num_endp : Nat, in : BOOLEAN]

VARIABLES
    phase,            \* what config_uhci does next, "ready" or "gone"
    port,             \* PORTSC1: "empty", "connected" or "enabled"
    device,           \* the descriptors of the device
    dev,              \* what the driver knows of it
    slots,            \* the descriptors on data_page from its third place on
    next_td, last_td, \* places in slots; 0 is a null pointer
    qh,               \* the element pointers of ctrl_qh and bulk_in_qh
    running,          \* USBCMD_RUN
    data_in, data_out,
    pc, todo, cur, td,\* for each thread: what it does next, the descriptors
                      \* it still has to add, the one it adds or polls
    passed,           \* the toggle that add_td was called with
    call, buff,       \* what it was asked for, and what came in for it
    halted,           \* run_qh has stopped the machine
    d,                \* the device: see Device0
    disk,             \* the packets of each block
    faults,
    torn,             \* the controller executed a descriptor that was not
                      \* completely written
    early             \* or came to the end of the queue before all were in it

queue  == <<slots, next_td, last_td, qh>>
driver == <<phase, port, device, dev, running, data_in, data_out, halted>>
thread == <<pc, todo, cur, td, passed, call, buff>>
outside == <<d, disk, faults, torn, early>>
vars == <<queue, driver, thread, outside>>

None == 0
Blocks == UNION {Uses[t] : t \in Threads}

\* A descriptor before it is added; tog is "in" or "out" for the toggles
\* that DATA_IN and DATA_OUT flip.
Td(pipe, pid, tog, buf, n, val) ==
    [pipe |-> pipe, pid |-> pid, tog |-> tog, buf |-> buf, n |-> n, val |-> val]
Slot0 == [pipe |-> "ctrl", pid |-> "OUT", tog |-> 0, buf |-> "none", n |-> 0,
          val |-> "none", status |-> "done", link |-> None, addr |-> 0, who |-> 0,
          whole |-> TRUE]

NoCall == [op |-> "none", block |-> 0, val |-> "none"]
NoBuff == [data |-> [i \in 1..DATA |-> "none"], csw |-> "none", desc |-> "none"]

\* The device: its address, the request it was sent, the packet of the bulk
\* transport it expects or sends next, how many data packets went over, its
\* toggles, and whether the command works and the device answers.
Device0 == [addr |-> 0, req |-> "none", next |-> "none", block |-> 0,
            n |-> 0, tin |-> 0, tout |-> 0, works |-> TRUE, dead |-> FALSE]

Dev0 == [addr |-> 0, inter |-> 0, in_endp |-> 0, out_endp |-> 0]

Packets(val) == [i \in 1..DATA |-> val]

InitRest ==
    /\ device \in Devices
    /\ slots = [i \in 1..NTD |-> Slot0]
    /\ next_td = 1 /\ last_td = None
    /\ qh = [q \in {"ctrl", "bulk"} |-> None]
    /\ pc = [t \in Threads |-> "idle"]
    /\ todo = [t \in Threads |-> <<>>]
    /\ cur = [t \in Threads |-> None] /\ td = [t \in Threads |-> None]
    /\ passed = [t \in Threads |-> 0]
    /\ call = [t \in Threads |-> NoCall]
    /\ buff = [t \in Threads |-> NoBuff]
    /\ halted = FALSE
    /\ disk = [b \in Blocks |-> Packets("old")]
    /\ faults = 0 /\ torn = FALSE /\ early = FALSE

Init ==
    /\ InitRest
    /\ phase = "detect"
    /\ port \in {"empty", "connected", "enabled"}
    /\ dev = Dev0
    /\ running = FALSE
    /\ data_in = 0 /\ data_out = 0
    /\ d = Device0

Goto(t, label) == pc' = [pc EXCEPT ![t] = label]

-----------------------------------------------------------------------------
(* The descriptors of each transfer.                                       *)

Setup(req) == Td("ctrl", "SETUP", "DATA0", "setup", 0, req)
StatusIn   == Td("ctrl", "IN", "DATA1", "status", 0, "none")
StatusOut  == Td("ctrl", "OUT", "DATA1", "status", 0, "none")
DescIn     == Td("ctrl", "IN", "DATA1", "desc", 0, "none")

Cbw(op, b) == Td("bulk", "OUT", "out", "cbw", b, op)
CswIn      == Td("bulk", "IN", "in", "csw", 0, "none")
DataInOne  == [i \in 1..DATA |-> Td("bulk", "IN", "in", "data", 1, "none")] \* mutant
DataIn     == [i \in 1..DATA |-> Td("bulk", "IN", "in", "data", i, "none")]
DataOut(v) == [i \in 1..DATA |-> Td("bulk", "OUT", "out", "data", i, v)]

GetDescs == {"get_dev_desc", "get_config_desc"}
Sets     == {"set_addr", "set_config", "set_inter", "bbb_reset"}

Control(req) == IF req \in GetDescs THEN <<Setup(req), DescIn, StatusOut>>
                ELSE <<Setup(req), StatusIn>>
ReadBbb(b)     == <<Cbw("read", b)>> \o DataIn \o <<CswIn>>
WriteBbb(b, v) == <<Cbw("write", b)>> \o DataOut(v) \o <<CswIn>>

-----------------------------------------------------------------------------
(* add_td, run_qh, reset_qh.                                               *)

\* DATA_IN and DATA_OUT flip as the arguments of add_td are evaluated.
Toggle(tog, in, out) == CASE tog = "in" -> in [] tog = "out" -> out
                          [] tog = "DATA0" -> 0 [] tog = "DATA1" -> 1

\* The element pointer or the last descriptor is made to point to it.
Link(t) ==
    /\ pc[t] = "link" /\ ~halted /\ next_td <= NTD
    /\ LET new == Head(todo[t]) IN
       /\ data_in'  = IF new.tog = "in" THEN 1 - data_in ELSE data_in
       /\ data_out' = IF new.tog = "out" THEN 1 - data_out ELSE data_out
       /\ passed' = [passed EXCEPT ![t] = Toggle(new.tog, data_in', data_out')]
       /\ cur' = [cur EXCEPT ![t] = next_td]
       /\ next_td' = next_td + 1
       /\ IF last_td # None
          THEN /\ slots' = [slots EXCEPT ![last_td].link = next_td,
                                         ![next_td].link = None,
                                         ![next_td].whole = FALSE]
               /\ UNCHANGED qh
          ELSE /\ qh' = [qh EXCEPT ![new.pipe] = next_td]
               /\ slots' = [slots EXCEPT ![next_td].link = None,
                                         ![next_td].whole = FALSE]
       /\ last_td' = next_td
    /\ Goto(t, "activate")
    /\ UNCHANGED <<phase, port, device, dev, running, halted, todo, td, call, buff, outside>>

Activate(t) ==
    /\ pc[t] = "activate" /\ ~halted
    /\ slots' = [slots EXCEPT ![cur[t]].status = "active"]
    /\ Goto(t, "fill")
    /\ UNCHANGED <<next_td, last_td, qh, driver, todo, cur, td, passed, call, buff, outside>>

Fill(t) ==
    /\ pc[t] = "fill" /\ ~halted
    /\ LET new == Head(todo[t]) IN
       slots' = [slots EXCEPT ![cur[t]] =
                    [pipe |-> new.pipe, pid |-> new.pid, tog |-> passed[t],
                     buf |-> new.buf, n |-> new.n, val |-> new.val,
                     status |-> @.status, link |-> @.link,
                     addr |-> dev.addr, who |-> t, whole |-> TRUE]]
    /\ todo' = [todo EXCEPT ![t] = Tail(@)]
    /\ Goto(t, IF Len(todo[t]) = 1 THEN "run" ELSE "link")
    /\ UNCHANGED <<next_td, last_td, qh, driver, cur, td, passed, call, buff, outside>>

\* run_qh polls from the second descriptor on (data_page + 3 * sizeof (TD)).
FirstPolledLate == DATA + 3  \* mutant: no descriptor is waited for
FirstPolled == 2
RunBit == TRUE
Run(t) ==
    /\ pc[t] = "run" /\ ~halted
    /\ running' = RunBit
    /\ td' = [td EXCEPT ![t] = FirstPolled]
    /\ Goto(t, "poll")
    /\ UNCHANGED <<queue, phase, port, device, dev, data_in, data_out, halted,
                   todo, cur, passed, call, buff, outside>>

Polling(t) == td[t] <= last_td /\ last_td # None

Poll(t) ==
    /\ pc[t] = "poll" /\ ~halted
    /\ \/ /\ Polling(t) /\ slots[td[t]].status = "done"
          /\ td' = [td EXCEPT ![t] = @ + 1]
          /\ UNCHANGED <<pc, halted>>
       \/ /\ Polling(t) /\ slots[td[t]].status = "error"
          /\ halted' = TRUE
          /\ UNCHANGED <<pc, td>>
       \/ /\ ~Polling(t)
          /\ Goto(t, "reset")
          /\ UNCHANGED <<td, halted>>
    /\ UNCHANGED <<queue, phase, port, device, dev, running, data_in, data_out,
                   todo, cur, passed, call, buff, outside>>

ResetQh(t) ==
    /\ pc[t] = "reset" /\ ~halted
    /\ qh' = [q \in DOMAIN qh |-> None]
    /\ last_td' = None
    /\ next_td' = 1
    /\ Goto(t, "return")
    /\ UNCHANGED <<slots, driver, todo, cur, td, passed, call, buff, outside>>

Transfer(t) == Link(t) \/ Activate(t) \/ Fill(t) \/ Run(t) \/ Poll(t) \/ ResetQh(t)

-----------------------------------------------------------------------------
(* config_uhci and init_bbb: the control transfers at boot.                *)

Detect(t) ==
    /\ phase = "detect" /\ pc[t] = "idle"
    /\ IF port = "enabled"
       THEN /\ running' = FALSE
            /\ d' = Device0
            /\ phase' = "get_dev_desc"
       ELSE phase' = "gone" /\ UNCHANGED <<running, d>>
    /\ UNCHANGED <<queue, port, device, dev, data_in, data_out, halted, thread,
                   disk, faults, torn, early>>

Begin(t, what, list) ==
    /\ pc[t] = "idle"
    /\ call' = [call EXCEPT ![t] = what]
    /\ todo' = [todo EXCEPT ![t] = list]
    /\ buff' = [buff EXCEPT ![t] = NoBuff]
    /\ Goto(t, "link")
    /\ UNCHANGED <<queue, phase, port, device, dev, running, halted, cur, td, passed, outside>>

NextIsDATA1 == 0  \* mutant: the macros flip before the first use
NextIsDATA0 == 1
BeginControl(t) ==
    /\ phase \in GetDescs \cup Sets /\ ~halted
    /\ Begin(t, [NoCall EXCEPT !.op = phase], Control(phase))
    /\ IF phase = "bbb_reset"  \* init_bbb
       THEN data_in' = NextIsDATA0 /\ data_out' = NextIsDATA0
       ELSE UNCHANGED <<data_in, data_out>>

\* The bytes of a configuration descriptor, of one of an interface and of an
\* endpoint, and those that get_config_desc asks for.
CONFIG == 9
INTER  == 9
ENDP   == 7
WANTED == 64

\* What the bytes at a place are taken for, by whoever reads them as an
\* interface or as an endpoint.  Nothing checks their type, and behind what was
\* asked for there is what memory holds.
IntersAt(desc, p) == LET at == {i \in desc.inters : i.at = p /\ p + INTER <= WANTED}
                     IN  IF at # {} THEN at ELSE Junk
EndpsAt(desc, p) == LET at == {e \in UNION {i.endps : i \in desc.inters} :
                                  e.at = p /\ p + ENDP <= WANTED}
                    IN  IF at # {} THEN at ELSE Junk

\* The place that config_uhci has come to (next_desc) and what it has found.
Cursor(at, found) == [at |-> at, found |-> found]

\* An endpoint is taken by its direction, the last one of each.
TakeEndpoint(found, e) ==
    IF e.in THEN [found EXCEPT !.in_endp = e.num] ELSE [found EXCEPT !.out_endp = e.num]
NextEndpoint(desc, c) ==
    IF desc.total > c.at
    THEN {Cursor(c.at + ENDP, TakeEndpoint(c.found, e)) : e \in EndpsAt(desc, c.at)}
    ELSE {c}
TakeEndpoints(desc, c, n) ==
    LET after[j \in 0..n] ==
            IF j = 0 THEN {c} ELSE UNION {NextEndpoint(desc, x) : x \in after[j - 1]}
    IN  after[n]

\* Those of a bulk-only interface are taken, those of another one passed over.
PassHeader(c, i) == {Cursor(c.at + INTER, c.found)}  \* mutant: not its endpoints
PassOver(c, i) == {Cursor(c.at + INTER + ENDP * i.num_endp, c.found)}
TakeInterface(desc, c, i) ==
    IF i.bbb THEN TakeEndpoints(desc, Cursor(c.at + INTER, [c.found EXCEPT !.inter = i.num]),
                                i.num_endp)
    ELSE PassOver(c, i)
NextInterface(desc, c) ==
    IF desc.total > c.at
    THEN UNION {TakeInterface(desc, c, i) : i \in IntersAt(desc, c.at)}
    ELSE {c}
Parsed(desc) ==
    LET after[k \in 0..desc.num_inter] ==
            IF k = 0 THEN {Cursor(CONFIG, Dev0)}
            ELSE UNION {NextInterface(desc, c) : c \in after[k - 1]}
    IN  {c.found : c \in after[desc.num_inter]}
IsDisk(found) == found.inter # 0 /\ found.in_endp # 0 /\ found.out_endp # 0

\* What comes in for another request, or not at all, can look like anything.
Heard(t) == IF buff[t].desc = phase THEN {device} ELSE Devices

\* What the driver knows once a request is done.
Known(desc) ==
    CASE phase = "set_addr" -> {[dev EXCEPT !.addr = 1]}
      [] phase = "get_config_desc" ->
           {[dev EXCEPT !.inter = found.inter, !.in_endp = found.in_endp,
                        !.out_endp = found.out_endp] : found \in Parsed(desc)}
      [] OTHER -> {dev}

After(desc, known) ==
    CASE phase = "get_dev_desc" -> IF desc.num_config = 0 THEN "gone" ELSE "set_addr"
      [] phase = "set_addr" -> "get_config_desc"
      [] phase = "get_config_desc" -> IF IsDisk(known) THEN "set_config" ELSE "gone"
      [] phase = "set_config" -> "set_inter"
      [] phase = "set_inter" -> "bbb_reset"
      [] phase = "bbb_reset" -> "ready"

EndControl(t) == \E desc \in Heard(t) : \E known \in Known(desc) :
    /\ pc[t] = "return" /\ phase \in GetDescs \cup Sets
    /\ dev' = known
    /\ phase' = After(desc, known)
    /\ Goto(t, "idle")
    /\ UNCHANGED <<queue, port, device, running, data_in, data_out, halted,
                   todo, cur, td, passed, call, buff, outside>>

-----------------------------------------------------------------------------
(* read_bbb and write_bbb.                                                 *)

Read(t) == \E b \in Uses[t] :
    /\ phase = "ready" /\ ~halted
    /\ Begin(t, [op |-> "read", block |-> b, val |-> "none"], ReadBbb(b))
    /\ UNCHANGED <<data_in, data_out>>

Write(t) == \E b \in Uses[t], v \in {"old", "new"} :
    /\ phase = "ready" /\ ~halted
    /\ Begin(t, [op |-> "write", block |-> b, val |-> v], WriteBbb(b, v))
    /\ UNCHANGED <<data_in, data_out>>

\* The status in the CSW is what the caller gets.
Return(t) ==
    /\ pc[t] = "return" /\ phase = "ready"
    /\ Goto(t, "idle")
    /\ UNCHANGED <<queue, driver, todo, cur, td, passed, call, buff, outside>>

-----------------------------------------------------------------------------
(* The controller and the device.                                          *)

MoreToCome(t) == pc[t] = "link" \/ (pc[t] \in {"activate", "fill"} /\ Len(todo[t]) > 1)

\* The descriptor is done, and the queue goes on to the one it links to.
Done(q, i) ==
    /\ slots' = [slots EXCEPT ![i].status = "done"]
    /\ qh' = [qh EXCEPT ![q] = slots[i].link]

\* It failed, and the queue stops at it.
Failed(i) == slots' = [slots EXCEPT ![i].status = "error"] /\ UNCHANGED qh

\* A request of the control pipe takes effect with its status.
Obey(req) ==
    d' = CASE req = "set_addr" -> [d EXCEPT !.addr = 1]
           [] req = "set_config" -> [d EXCEPT !.tin = 0, !.tout = 0, !.next = "cbw"]
           [] req = "bbb_reset" -> [d EXCEPT !.next = "cbw"]
           [] OTHER -> d

ControlPacket(x) ==
    /\ CASE x.pid = "SETUP" -> d' = [d EXCEPT !.req = x.val]
         [] x.buf = "status" -> Obey(d.req)
         [] OTHER -> UNCHANGED d
    /\ buff' = IF x.buf = "desc" /\ x.whole THEN [buff EXCEPT ![x.who].desc = d.req] ELSE buff
    /\ UNCHANGED disk

\* A packet out with the wrong toggle is taken for one that was sent again
\* and dropped.
PacketOut(x) ==
    /\ UNCHANGED buff
    /\ IF x.tog # d.tout THEN UNCHANGED <<d, disk>>
       ELSE IF d.next = "cbw"
       THEN /\ \E works \in BOOLEAN :
                 d' = [d EXCEPT !.tout = 1 - @, !.block = x.n, !.n = 0, !.works = works,
                                !.next = IF x.val = "read" THEN "in" ELSE "out"]
            /\ UNCHANGED disk
       ELSE /\ disk' = IF d.works THEN [disk EXCEPT ![d.block][d.n + 1] = x.val] ELSE disk
            /\ d' = [d EXCEPT !.tout = 1 - @, !.n = @ + 1,
                              !.next = IF d.n + 1 = DATA THEN "csw" ELSE "out"]

Sent == IF d.next = "csw" THEN (IF d.works THEN "0" ELSE "1")
        ELSE IF d.works THEN disk[d.block][d.n + 1] ELSE "junk"

\* Where a packet in goes; one for a half-written descriptor goes to memory
\* that is no longer anybody's.
Store(x, what) ==
    CASE ~x.whole -> buff
      [] x.buf = "csw" -> [buff EXCEPT ![x.who].csw = what]
      [] x.buf = "data" -> [buff EXCEPT ![x.who].data[x.n] = what]

\* A packet in with the wrong toggle is dropped by the controller, and the
\* device goes on.
PacketIn(x) ==
    /\ d' = [d EXCEPT !.tin = 1 - @,
                      !.n = @ + 1,
                      !.next = CASE d.next = "csw" -> "cbw"
                                 [] d.n + 1 = DATA -> "csw"
                                 [] OTHER -> "in"]
    /\ buff' = IF x.tog = d.tin THEN Store(x, Sent) ELSE buff
    /\ UNCHANGED disk

\* The device stalls what it does not expect, and more than the buffer takes
\* is an error.
Unexpected(x) ==
    \/ /\ x.pid = "OUT" /\ x.tog = d.tout
       /\ d.next \in {"in", "csw"} \/ (d.next = "cbw" /\ x.buf # "cbw")
    \/ x.pid = "IN" /\ x.tog = d.tin /\ x.buf = "csw" /\ d.next = "in"

\* It has nothing to send before it has a command and its data.
Answers(x) ==
    /\ ~d.dead /\ x.addr = d.addr
    /\ \/ x.pipe = "ctrl"
       \/ x.pid = "OUT" /\ d.next # "none"
       \/ x.pid = "IN" /\ d.next \in {"in", "csw"}

Reached(q) == running /\ qh[q] # None /\ slots[qh[q]].status = "active"

Execute(q) ==
    /\ Reached(q)
    /\ LET i == qh[q]  x == slots[i] IN
       /\ Answers(x)
       /\ IF x.pipe = "ctrl" THEN ControlPacket(x) /\ Done(q, i)
          ELSE IF Unexpected(x) THEN Failed(i) /\ UNCHANGED <<d, disk, buff>>
          ELSE IF x.pid = "OUT" THEN PacketOut(x) /\ Done(q, i)
          ELSE PacketIn(x) /\ IF x.tog = d.tin THEN Done(q, i) ELSE UNCHANGED <<slots, qh>>
       /\ torn' = (torn \/ ~x.whole)
       /\ early' = (early \/ (slots[i].link = None /\ \E t \in Threads : MoreToCome(t)))
    /\ UNCHANGED <<next_td, last_td, driver, pc, todo, cur, td, passed, call, faults>>

\* The device stalls a packet, or stops answering for good.
Fault(q) ==
    /\ faults < MaxFaults /\ faults' = faults + 1
    /\ Reached(q) /\ ~d.dead
    /\ \/ Failed(qh[q]) /\ UNCHANGED d
       \/ d' = [d EXCEPT !.dead = TRUE] /\ UNCHANGED <<slots, qh>>
    /\ UNCHANGED <<next_td, last_td, driver, thread, disk, torn, early>>

\* 256 polls of 8 ticks are two seconds: they end only if nothing happens.
Stuck == \A q \in DOMAIN qh : ~(Reached(q) /\ Answers(slots[qh[q]]))
Never(t) == FALSE  \* mutant: the polls are not counted
GivesUp(t) == Polling(t) /\ slots[td[t]].status = "active" /\ Stuck
Timeout(t) ==
    /\ pc[t] = "poll" /\ ~halted
    /\ GivesUp(t)
    /\ halted' = TRUE
    /\ UNCHANGED <<queue, phase, port, device, dev, running, data_in, data_out,
                   thread, outside>>

-----------------------------------------------------------------------------
ThreadStep(t) ==
    \/ Detect(t) \/ BeginControl(t) \/ EndControl(t)
    \/ Read(t) \/ Write(t) \/ Return(t)
    \/ Transfer(t) \/ Timeout(t)

Controller == \E q \in {"ctrl", "bulk"} : Execute(q) \/ Fault(q)

Next == Controller \/ \E t \in Threads : ThreadStep(t)

Spec == Init /\ [][Next]_vars

\* A thread that waits in run_qh is woken by the ticks; the controller goes
\* through the frames on its own.
FairSpec == Spec /\ (\A t \in Threads : WF_vars(ThreadStep(t)))
                 /\ WF_vars(\E q \in DOMAIN qh : Execute(q))

\* The device is configured, and threads come to read and write.
ReadyInit ==
    /\ InitRest
    /\ phase = "ready" /\ port = "enabled"
    /\ \E found \in Parsed(device) : IsDisk(found) /\ dev = [found EXCEPT !.addr = 1]
    /\ running = TRUE
    /\ data_in = 1 /\ data_out = 1
    /\ d = [Device0 EXCEPT !.addr = 1, !.next = "cbw"]
ReadySpec == ReadyInit /\ [][Next]_vars

-----------------------------------------------------------------------------
(* The descriptors, the queue and the threads stay in their bounds: reset  *)
(* gives back the places on data_page before the next transfer (usb.c).    *)
TypeOK ==
    /\ phase \in GetDescs \cup Sets \cup {"detect", "ready", "gone"}
    /\ next_td \in 1..(NTD + 1) /\ last_td \in 0..NTD
    /\ \A q \in DOMAIN qh : qh[q] \in 0..NTD
    /\ \A i \in 1..NTD : /\ slots[i].status \in {"active", "done", "error"}
                         /\ slots[i].link \in 0..NTD /\ slots[i].tog \in {0, 1}
    /\ \A t \in Threads :
          /\ pc[t] \in {"idle", "link", "activate", "fill", "run", "poll", "reset", "return"}
          /\ pc[t] \in {"link", "activate", "fill"} => todo[t] # <<>>
          /\ pc[t] = "link" => next_td + Len(todo[t]) <= NTD + 1
    /\ {data_in, data_out, d.tin, d.tout} \subseteq {0, 1}
    /\ d.n \in 0..(DATA + 1) /\ faults \in 0..MaxFaults
    /\ {halted, running, torn, early} \subseteq BOOLEAN

\* A read that returns 0 leaves in memory what is in the block, and a write
\* that returns 0 has left in the block what it was given, if no other
\* thread uses the block, whatever came before and in whatever order the
\* controller and read_bbb or write_bbb (bbb.c) take their steps, if no
\* descriptor was executed half-written.
TransferRight ==
    \A t \in Threads :
        pc[t] = "return" /\ phase = "ready" /\ buff[t].csw = "0" /\ ~torn =>
            disk[call[t].block] = IF call[t].op = "read" THEN buff[t].data
                                  ELSE Packets(call[t].val)

\* When run_qh is done with its polls, which leave out the first descriptor
\* (usb.c:277), the controller has none left to execute: none is executed
\* while the buffers are given back or the queue is built again.
QuietWhenReset ==
    \A t \in Threads : pc[t] \in {"reset", "return", "idle"} =>
        \A i \in 1..NTD : slots[i].status # "active"

\* Between two transfers the toggles that DATA_IN and DATA_OUT (bbb.h) flip
\* to are those the device expects, whether the transfers before succeeded
\* or were refused: what they send is not dropped as sent before.
TogglesAgree ==
    phase = "ready" /\ ~torn /\ ~halted /\ (\A t \in Threads : pc[t] = "idle") =>
        d.tin = 1 - data_in /\ d.tout = 1 - data_out

\* All of the configuration comes in with the bytes asked for, its interfaces
\* begin behind its header and each one's endpoints are right behind it, up to
\* the next interface: nothing else is in it.
EndpPlaces(i) == {i.at + INTER + ENDP * j : j \in 0..i.num_endp - 1}
Begins(desc, p) == p = desc.total \/ \E i \in desc.inters : i.at = p
Readable(desc) ==
    /\ desc.total <= WANTED
    /\ Begins(desc, CONFIG)
    /\ \A i \in desc.inters :
          /\ {e.at : e \in i.endps} = EndpPlaces(i)
          /\ i.at + INTER + ENDP * i.num_endp <= desc.total
          /\ Begins(desc, i.at + INTER + ENDP * i.num_endp)

Ways(i) == {e.in : e \in i.endps}
Has(i, in, num) == \E e \in i.endps : e.in = in /\ e.num = num

\* The interface and the two endpoints that config_uhci (usb.c:163) keeps are
\* those of bulk-only interfaces of the device, and of one and the same if each
\* bulk-only interface has endpoints both ways.  This is so for devices whose
\* configuration is readable: descriptors of other kinds (a keyboard's) and
\* those past the 64 bytes asked for are taken for interfaces and endpoints.
EndpointsRight ==
    phase \in {"set_config", "set_inter", "bbb_reset", "ready"} /\ ~torn
    /\ Readable(device) =>
        LET disks == {i \in device.inters : i.bbb} IN
        /\ \E i \in disks : i.num = dev.inter
        /\ \E i, j \in disks : Has(i, TRUE, dev.in_endp) /\ Has(j, FALSE, dev.out_endp)
        /\ (\A i \in disks : Ways(i) = BOOLEAN) =>
              \E i \in disks : /\ i.num = dev.inter
                              /\ Has(i, TRUE, dev.in_endp) /\ Has(i, FALSE, dev.out_endp)

\* The state that one transfer leaves to the next one fits the device's.
PipesRight == TypeOK /\ TogglesAgree

\* run_qh stops the machine (usb.c:290) only if the device failed, or if the
\* controller came to the end of the queue before the transfer was all in it.
HaltsOnlyForCause == halted => faults > 0 \/ torn \/ early

\* run_qh takes neither an unfinished transfer for done nor one that goes on
\* for lost.
PollsRight == QuietWhenReset /\ HaltsOnlyForCause

\* Every transfer ends: run_qh returns, or it gives up after 256 polls of a
\* descriptor and stops the machine (usb.c:279-290).
TransferEnds ==
    \A t \in Threads : pc[t] # "idle" ~> pc[t] = "idle" \/ halted
=============================================================================
