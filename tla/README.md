# EdenOS in TLA+

TLA+ modules that model EdenOS (the kernel under `src/OS/kernel`, the host tools
under `src/EdenOS Manager` and `src/EdenOSServer`), TLC configurations that check
them on small instances, and proofs checked by TLAPS. Every definition is
translated from the source; `PROJECT.json` ties each to the lines it stands for.

## Inventory

EdenOS is a 32-bit x86 kernel for one CPU. It boots from a USB stick, starts one
process ("kernel") whose main thread runs a command prompt, and runs each command
in a thread of its own. Interrupt gates are `0x8E` (`include/idt.h`), so handlers
run with interrupts off: a handler is atomic, and everything else can be
interrupted after any instruction outside a `cli`/`sti` pair.

| Part | State | Operations | Interacts with |
|---|---|---|---|
| Scheduler (`processing.c`, tick in `time.c`) | list of `ThreadNode`s, `current_node`, `switch_counter` | `init_processing`, `switch_proc`, `new_thread`, `dispose_thread`, `wait`, `kill_th`, `set_idle` | called from the tick; allocates nodes (heap) and stacks (pages) |
| Command prompt (`cmd.c`) | `working_dir`, command table | `command_prompt`, `exec_command`, fourteen commands | only caller of `new_thread` and `wait`; commands call everything else |
| Clock (`time.c`) | `ticks`, `secs`, `mins`, `hrs`, `current_time` | `handle_tick`, `advance_clock`, `wait_ticks` | tick interrupt against threads that sleep; draws on the console |
| Keyboard (`keyboard.c`) | `last`, `kbhit`, `caps`, `shift`, `kb_status` | `handle_keystroke` (interrupt), `getc`, `gets` | a one-slot mailbox between the interrupt and the thread that reads |
| Console (`console.c`) | cursor, start, end, attributes, video memory | `putc`, `puts`, `puts_at`, scrolling | called from threads and, for the clock, from the tick |
| Pages (`memory.c`) | bitmap at 1 MB | `init_palloc`, `palloc`, `pfree` | stacks, heap, page tables, USB and file buffers; no lock |
| Heap (`dmemory.c`) | chain of pages with a byte map | `malloc`, `free` | every module, and `switch_proc` in interrupt context; no lock |
| Paging (`paging.c`) | page directory and tables | `init_paging`, `create_entry`, `remove_entry`, `dup_dir` | pages; boot |
| USB (`usb.c`), bulk-only transport (`bbb.c`), SCSI (`scsi.c`) | UHCI schedule, one control and one bulk queue, data toggles, tag | `config_uhci`, `add_td`, `run_qh`, `reset_qh`, `read_bbb`, `write_bbb` | sleeps in `wait_ticks`, so other threads run in the middle of a transfer; no lock |
| File system (`edenfs.c`) | volume geometry, bitmap hierarchy, chains of parts | `init_fs`, `open`, `list`, `create`, `delete`, `read_from_file`, `write_to_file` | one block at a time through `bbb.c` |
| Host file system (`EdenFSManager.py`) | the same volume, from the host | `format`, `create`, `delete`, `read`, `write` | must agree with `edenfs.c` on the layout |
| Installer and server (`EdenOSManager.py`, `EdenOSClient.py`, `EdenOSServer.py`) | the device's boot sector and blocks, the kernel's file, a socket | `analyse`, `is_edenos`, `install_edenos`, `format_edenfs`; `handle_client`, `send_md5`, `send_os` | TCP request and answer, one server thread for each connection; leaves the volume that kernel and host file system use |
| Boot, interrupt tables, PCI, strings, host UI | | | I/O, formats and drawing |

### What is hard here, and what makes each part correct

* **Scheduler.** `new_thread` is a fork whose copy happens later, in the tick. A
  dead thread stands on a freed page until it is switched out, and its node is
  freed by the thread before it while the shell may still poll it. Correct: the
  copy is the creator's, no dead thread is resumed, no freed node is read, stacks
  are disjoint, every live thread runs, the shell comes back.
* **Clock.** `wait_ticks` reads four words, one by one, that a tick changes
  together. Correct: it never returns before its time, the clock shows the time.
* **Keyboard.** The mailbox holds one key and is not read atomically. Correct:
  each key is delivered once and in order.
* **Pages and heap.** Scans and updates are not atomic and take no lock, and run
  in threads and in the tick. Correct: no page or block has two owners.
* **File system.** No lock, no free list to rebuild, errors of the allocator not
  checked; blocks are freed before the entry that leads to them is changed. Correct: a
  block has one owner, chains hold allocated blocks but for the moment between the two,
  a bit of an upper bitmap is set only above full ones, what was written is read back.
* **Console.** The tick prints with the functions that it interrupts, on the same
  `start`, `end` and `current`. Correct: a call leaves what it would have left alone.
* **USB.** One queue per pipe, shared by all threads that sleep while it runs; the
  controller executes a descriptor while it is being added. Correct: a transfer that
  returns 0 took place, the toggles agree, and every transfer ends.
* **Host file system.** A second program, written separately, on the same volume.
  Correct: each side finds, reads and lists what the other one left.
* **Installer.** Receives may be short, the kernel is built anew while it is read, and
  the program is cut anywhere. Correct: what is recognised or installed is the
  server's kernel, the files on a device survive an update, the signature comes last.

`PROJECT.json` lists the hazards line by line.

## Modules

| Module | Models | Extends or uses |
|---|---|---|
| `Scheduler` | threads, the tick, the shell that creates and waits | |
| `SchedulerProofs` | its theorems | `Scheduler` |
| `BlockPool` | abstract: a set of blocks that are taken, linked, freed and unlinked | |
| `BlockAllocator` | `balloc`, `find_in_level`, `bfree`, access by access, and power failures | `BlockPool` (refines it) |
| `BlockAllocatorProofs` | its theorems | `BlockAllocator` |
| `Heap` | `malloc` and `free` bit by bit, the chain of heap pages, `palloc` and `pfree` by others | |
| `HeapProofs` | its theorems | `Heap` |
| `FileTree` | abstract: a tree of directories and files | |
| `EdenFS` | directories, files, and the commands that make, write and delete them | `FileTree` (refines it) |
| `EdenFSReads` | reading | `EdenFS` |
| `EdenFSProofs` | the theorems about `EdenFS` and `EdenFSReads` | `EdenFSReads` |
| `Clock` | the clock in the tick, `wait_ticks` | |
| `ClockProofs` | its theorems | `Clock` |
| `TextScreen` | what the console's functions do when nothing comes in between | |
| `Console` | the same functions step by step, against the tick | `TextScreen` |
| `Keyboard` | the interrupt handler and `getc` | |
| `Terminal` | `gets` and the loop of the text command, with the echo on the screen | `Keyboard`, `TextScreen` |
| `ScreenProofs` | the theorems of `Console`, `Keyboard` and `Terminal`, on lemmas about the operators of `TextScreen` | `Console`, `Terminal` |
| `UsbDisk` | the transfer queue, the controller, `config_uhci`, the bulk-only transport | |
| `UsbDiskProofs` | its theorems | `UsbDisk` |
| `HostFS` | the host's commands on the volume of the kernel | `EdenFSReads` |
| `Installer` | the manager's `analyse`, the client and the server | |
| `InstallerProofs` | its theorems | `Installer` |
| `MC...` | the instances TLC checks | the module of the same name |

The operators named `...Not`, `...Lost`, `...Twice` and the like, with a comment
"mutant", are plausible bugs. Nothing uses them; each replaces the definition
after it to show that a property notices.

### Scheduler

One process, one CPU, one list `threads`. `current_node`, `status`, `init`,
`p_stack_page`, `switch_counter` are the fields of the same names; `bitmap` is
the set of pages taken; `ints` is the interrupt flag. A thread's stack is reduced
to where it is (`pc`) and to `new_thread`'s local `thread`, because these are what
the fork copies: `SwitchProc` copies both from the running thread to one that has
never run. `NewThread` is `exec_command` up to the loop of `new_thread` (interrupts
are off in it), `Wait` and `WaitReturn` are `wait`, `DisposeThread`, `InfLoopCmd`,
`PrintProcData` and `KillTh` are what commands do to threads, `HandleTick` is the
tick with the reaping loop of `switch_proc` in it. A freed node reads as zero,
because `free` clears it, which is `DEAD`: `wait` would return on it, and
`WaitedNodeListed` says that it never comes to that.
`killed` is there for the properties only: it says that `killth` has run. `kill_th`
frees the page of the thread that runs it instead of the one it kills
(processing.c:357), so `StacksDisjoint` is about the time before.
`Midway` keeps a switch out of the few instructions between two `HALT`s of
`new_thread` and `wait`, since a thread has at least five ticks from each switch.

### BlockAllocator

A hierarchy of bitmaps on the device; `bitmap` is what is there, and each thread
has a copy of the block it looks at on each level of the recursion. Reading and
writing a block are actions of their own, since a thread sleeps in the driver for
each: `ReadBitmap`, `TakeBit`, `Descend`, `MarkFull`, `Fail`, `ClearBlock` for
`balloc`, `BfreeRead` and `BfreeWrite` for `bfree`. `Link` is the write that makes an
entry or a part lead to the new block. `delete` and `create` free a chain first, block by
block, and change the entry after that (edenfs.c:328-333, 438-446): `Bfree` begins the
next block of the chain, `Unlink` writes the entry. In between the entry leads to free
blocks (`freed`), and `PowerFails`, which forgets the threads between any two accesses and
keeps the device, leaves it so: `torn` are the blocks that were freed but are still linked, and
`shared` those that were given and linked a second time after that, a file with two
entries. These two are for the properties only, which are about all other blocks: no
step of the code repairs what power left there. A chain is any set of linked blocks,
whole as soon as its first block is freed.
The run and the theorems have one thread. Two are given the same block, because nothing locks
the bitmaps between the read and the write: with a second thread in `Thread` TLC finds
`NoSharing` violated in eleven states. So nothing is claimed of two threads. The top level is one
bitmap: `find_in_level` starts each level in the bitmap of its caller's bit and never
goes on to a second one of the top level, so blocks behind that one are never found.
`BlockPool` is what users of the allocator think of it: blocks are taken, linked, freed
and unlinked, in this order, and a crash may fall between any two.

### Heap

`bits` is the map of each page, `next` the word at its end, `blocks` what was
given out. `Scan` looks at one bit, `NextPage` and `Grow` are the end of a
page, `ReadWord` with `Mark` or `Clear` the read and the write of `*p |= b` and
`*p &= ~b`, which are instructions of their own without optimisation. `FreeInTick` is
the `free` of `switch_proc`, whole, since handlers are not interrupted, and of any block:
which nodes it frees is `Scheduler`'s business. `Palloc` and `Pfree` stand for the
other users of pages, who leave anything in the word that `palloc` does not
clear. Once the chain of pages is cut (the word given away, or taken from another
user) nothing is modelled, so `CHECK_DEADLOCK` is `FALSE`. That happens with the last
bytes of any page: the area is larger than what is left before the pointer
(dmemory.c:77). A page beyond the last is
never given: what `palloc` does then is listed as a hazard. Requests above a page
return before anything changes.

### EdenFS

`part` holds the blocks, each with the fields of `DirPart` and `FilePart`; an
address is an LBA and a set of flags. Commands are atomic (`MakeDir`, `Delete`) or,
for the text command, two actions with the user's typing between (`Open`,
`WriteToFile`); while a file is open nothing else runs. The operators have the names of the
functions, and an action computes the volume after the whole handler. Where the code would take
the boot sector for a part (`balloc`'s 0, or the LBA 0 of a directory without
parts) or go on at an address that is no LBA, `volume` becomes `"boot"` or
`"wild"` and nothing is modelled after it: that is why the configurations have
`CHECK_DEADLOCK FALSE`. Every property is about the sound volumes. The code leaves
them when something is created in a directory that the kernel made (`fs_subdir`), when
a directory has more entries than a part (edenfs.c:937 takes the address of the next
part from the wrong block) and when no block is free (edenfs.c:588, 643 take
`balloc`'s 0 for a block).
Reading is in `EdenFSReads`. A round of either loop of `read_from_file` is `ReadPart`, a
round of the read command is `ReadPiece`, and recursive functions take them as often as
the code can (`ReadParts`, `ReadCmd`): each round skips or reads a byte at least.
`SizeMax` is the largest value of the field `part_size`; `HostAssumption` gives the
volume that the host prepared its second block.
Abstractions: names are model values; data are the numbers of the bytes; paths
have one or two names; `bfree` also clears the block (`balloc` does, before
anyone reads it); `w_seek` is always 0, since nothing in the kernel moves it.

### Clock

The counters and the digits change in one action per tick. `wait_ticks` is
read by read, since the kernel is compiled without optimisation and each read is
a memory access of its own: `ReadPrev` (four), `Poll` (up to four, `&&`), the
`HALT` that a tick or a keystroke ends, `ReadPassed` and `CountPassed` (four, from
the hours down, modulo the word). Between two `HALT`s there are far fewer
instructions than fit in a tick, so ticks come in at one place there, `MaxAway`
of them at most if the tick switched the thread out. `waited`, `asked` and `torn`
are there for the properties only.

### TextScreen and Console

`TextScreen` says what `putc`, `puts` and `puts_at` do to a screen, each as one
operator; colours are left out. `Console` takes `putc`, `puts`, `puts_at`, `putc_at` and
the clearing of the screen a statement or a round of a loop at a time, and `Tick` draws the clock
with the operator of `TextScreen` between any two of them, since it is a handler.
`want` is what the screen has to be whenever no thread is printing: `AsIfAlone`
compares the two. The tick's `puts_at` puts `start`, `end` and `current` back, but
turns `update_cursor_bool` on whatever it was, so that a title printed meanwhile
moves the cursor that is shown (console.c:244): `CursorOffOnlyTorn` says that nothing
else does. The instance has one printing thread: two share `current` without a lock.
`ArgsAssumption` says what the callers pass: `puts_at` only gets titles, rules and the
clock, which have no control characters and fit into their rows (console.c:56-58,
cmd.c:118-119, time.c:62); what is printed at the cursor may be anything.

### Keyboard and Terminal

`HandleKeystroke` is the handler: shift, caps and the tables, for a letter, a digit
and the keys without a character; a key stands for its scancode. `getc` tests `kbhit`,
goes to sleep, halts, clears `kbhit` and reads `last` in steps of their own: between the
test and the `HLT` (keyboard.c:165-166) interrupts are on, and a key that comes there does
not end the `HLT` that follows. The next tick or key does, which is why `KeyTaken` holds. `Terminal` adds the two
readers, which act on the key that `getc` returned. A mailbox of one loses a key that
is followed by another before it is taken, and delivers one twice that comes between
the two accesses of `getc` (keyboard.c:168-169); `ReadsWhatWasTyped` is about the keys
for which neither happened (`raced`).

Each time round, `text` writes a null behind the text, at `buff + n` (cmd.c:332, 337,
348): `Store` is every write to a buffer, `past` says whether one of them was behind the buffer. With
`n` at 4096 the null is: it goes to the first byte behind the page. `StoresInside` says that this
happens whenever a character is taken back from a full page, all are, or the text ends, and that nothing
else is ever written outside of a buffer. This is an error of the code, which the property describes.

After a tab screen and buffer may differ, and `BufferShown` says only what is left: `gets`
counts to the next tab stop from the beginning of the line (keyboard.c:201), `putc` from
the edge of the screen (console.c:120), and the prompt before the line ends where the
name of the directory makes it end, so that the two may take a tab for different numbers of
spaces. `plain` and `tabbed` remember whether a tab was typed or the text scrolled.

### UsbDisk

`slots`, `next_td`, `last_td` and `qh` are the queue; `Link`, `Activate` and `Fill` are
the three steps in which `add_td` adds a descriptor, and `Execute` is the controller, which takes
any active descriptor it reaches in any state: the run bit stays on after the first
transfer, because `run_qh` never writes its change of USBCMD back. `Run`, `Poll`,
`Timeout` (256 polls) and `ResetQh` are the rest of the driver, `Detect`, `BeginControl`
and `EndControl` the requests of `config_uhci` from the port's status to a configured disk,
`Read`, `Write` and `Return` the calls of `read_bbb` and `write_bbb`. The toggle of a
packet is evaluated when `add_td` is called (`passed`) and written when the descriptor is
filled. The device may fail (stall or go silent) `MaxFaults` times and may refuse a
command whenever it likes. What the controller makes of half-written descriptors is
noted in `torn` and `early`: the properties are about transfers to which it did not
happen, and it is the one hazard of this part that time alone keeps away.

A device's configuration has its interfaces and endpoints at places, in bytes, with anything
in between: descriptors of other kinds (usb.c:190 adds the lengths of interfaces and
endpoints only), alternate settings, bytes past the 64 that were asked for (usb.c:446).
`Parsed` walks over it as `config_uhci` does, with the bounds on `total_len` (usb.c:166,
175), and takes what is not a descriptor there for one of `Junk`: the result is a set, as it
depends on what those bytes are. `dev` starts with 0 for interface and endpoints, and the flags of
usb.c:164 stay set from one interface to the next, so an endpoint may be combined with
another interface's number. `EndpointsRight` says that what is found are endpoints of bulk-only
interfaces of the device, the right way round, when the configuration is `Readable` (a
descriptor at each place the walk looks at), and of the one whose number is kept when
every bulk-only interface has both directions. On the others nothing is claimed; three of
the ten devices of the instance are such, so that what the driver does with them takes part in all
other properties.

### HostFS

The commands of the browser, `mkdir`, `del`, `import`, `export`, `list` and `format`,
written from the Python code and not from the kernel's, on the volume `EdenFS` works
on; `SharedSpec` takes steps of either side. A command that finds no free block
ends in an exception with what it has written so far. Properties of `EdenFS` are
checked again on these volumes; `BothRead` is the host's listing and export and the kernel's
reading (`FilesRead`) in one.

### Installer

The unit is a block of 512 bytes; a receive takes two, a short one fewer, and may
tear a block. The boot sector has the fields of EdenFS beside its first block, since
`is_edenos` and `install_edenos` treat them separately. The header with the length
comes as a whole and sends are complete. The lengths of the images are parameters:
longer than one receive and no longer than `Base`, which the code relies on and does
not test. `Rebuild` replaces the file while the server reads it; `Crash` ends the
client in any step. The format is a step for the bitmap, one for the root, and one for each of
the writes of the fields (EdenFSManager.py:121-124): block count and levels (`made`), the root's
address, the signature. A torn receive goes over the first so many of the fields
(`Overlaid`), in the order in which they lie. `short`, `rebuilt`, `stale`, `home` and `damaged` are
there for the properties: they name the things after which the code does not keep its word.

`stale` and `home` come from `EdenOSManager.py:26`: the `EdenFS` object reads
`FIRST_BITMAP_LBA` when it is made, which is before a new device is installed. So on
such a device the first format puts the bitmap at the place that was there before: block 0 of an
empty one, over the boot sector just installed, and the root behind it.
The next analysis finds no EdenOS, sees the signature, and writes the kernel over bitmap and
root while it keeps the fields: the files are lost, and `is_edenfs` stays
true. `FilesThere` says both of these, and that they happen to no file system made at `Base`. What `FilesKept` and `FsWhole` say is therefore said of file systems made at `Base`, and
of no others. `Bases` is what a device may hold at `FIRST_BITMAP_LBA` at first; values above
`Base` are left out. `keep_alive` has number 0, which the server's test `0 < req` refuses.

## Runs

| Run | Bounds | Shows |
|---|---|---|
| `scheduler` | 3 threads next to the main one, 3 pages, quanta 1 and 2 | `ForkCopiesCreator`, `WaitedNodeListed`, `StacksDisjoint`, `NoSwitchToDead`; under `FairSpec` `Progress` (no live thread starves, the dead are reaped) and `ShellResumes` |
| `blocks_safety` | 1 thread, 2 levels of bitmaps of 3 bits, 3 on the lower level | `NoSharing`, `FailOnlyWhenFull` across power failures, `BlockPool` implemented (`PoolSpec`) |
| `heap` | 1 thread, 3 pages with areas of 7 bytes, words of 4 bits, headers of 1 byte, sizes 1 and 3 | `NoOverlap`, `OwnedMarked`, `LeaksOnlyRaced` |
| `fs_safety` | 4 blocks, 2 entries or bytes to a part, 5 bytes, 2 names, volumes the host prepared too | `VolumeSound` (one owner per block, sizes, lookups), `FilesRead`, `WritesAll`, `LeaksOnlyBelow`, `FileTree` implemented (`TreeSpec`) |
| `fs_subdir` | 6 blocks, volumes of the kernel alone | violation of `BootIntact`: an entry is written to the boot sector |
| `clock` | seconds of 4 ticks, minutes of 2, hours of 2, words of 6 values | `ShowsTime`, `EarlyOnlyTorn`, and under `FairSpec` `WaitEnds` |
| `console` | 4 columns, 2 rows of text, tabs of 2, 1 thread | `AsIfAlone`, `StaysInside`, `CursorOffOnlyTorn` |
| `terminal` | 4 keys out of 9, 4 columns, 3 rows of text, lines of 4, texts of 2, prompts at a tab stop, between two, and in the last row | `BufferShown`, `StoresInside`, `ReadsWhatWasTyped`; under `FairSpec` `KeyTaken` |
| `usb` | 10 devices, 2 blocks of 2 packets, 4 descriptors, 1 fault | `TransferRight`, `PipesRight`, `EndpointsRight`, `PollsRight`; under `FairSpec` `TransferEnds` |
| `usb_race` | 2 threads, 1 packet to a block | violation of `TransferRight`: a call returns 0 and its block was not transferred |
| `hostfs` | 3 blocks, 2 entries or bytes to a part, 4 bytes, 2 names (symmetric) | `VolumeSound`, `BothRead`, `HostWrites` |
| `install` | images of 3 and 4 blocks, file system at 4, old place 0 or 4 | `Installed`, `FsWhole`, `FilesThere`, `FilesKept`; under `FairSpec` `AnalysisEnds` |

Types are proved (see below) or are a conjunct of a property of the run: `VolumeSound`,
`StaysInside` and `PipesRight` begin with `TypeOK`, `BufferShown` with `SizesOK`.

Why the bounds are enough. Scheduler: with three threads next to the main one there can be
a dead thread, a live one after it and a new one before it; threads use pages
of earlier ones again. Allocator: two levels of bitmaps with three bits make
every carry between levels happen, and there are blocks to give after a torn one. File system: with two bytes to a part, five
make files of one, two and three parts, ending full and not; two entries make
holes before and after an entry; four blocks run out. Clock: every carry happens, and
the hours wrap. Console and terminal: lines wrap, tabs end in the middle and at the end
of a row, the text scrolls while a line is edited, and the line fills up before and in a tab. USB: a block of two
packets has a first, a last and both toggles; all four descriptors of the page are in
use at once; the devices have one interface or two, with other descriptors before, among
and after the endpoints, an alternate setting, both directions in one interface or in two, and
more than 64 bytes. Host: three blocks run out within one command. Installer: one image ends with
a whole receive and one with half of one, which goes over every branch of the loops.

`CHECK_DEADLOCK` is `FALSE` where the model ends: `Heap`, `EdenFS` and `HostFS` stop at
a volume or a chain that is no longer sound, and `run_qh` stops the whole machine on an
error (usb.c:290).

Facts that a reader of the code should know are stated as properties that hold:
`LeaksOnlyRaced` (the heap loses bytes that the tick frees while a thread is
between the read and the write of their word, dmemory.c:102, 169, and only then),
`LeaksOnlyBelow` (deleting or overwriting a directory loses the blocks of the
files in it, edenfs.c:440, and that is the only leak), `EarlyOnlyTorn`
(`wait_ticks` can return at once, when a second ends between two of its reads,
time.c:183-192, and only then), `CursorOffOnlyTorn`, and `Installed` with its three
exceptions. `FilesRead` excludes, for the read command, files whose last part is full:
for those it shows too little, as `read_from_file` does not count the
full parts it copies (edenfs.c:549). What the violations say is quoted in
`PROJECT.json` under `findings`.

## Fairness

* `Scheduler!FairSpec`: weak fairness of the tick (the RTC interrupts 1024 times a
  second and is never masked for good: `print_proc_data` clears the flag, but its
  thread then ends and sets it) and of code that is running. None for the user or
  for commands, which need not end.
* `Clock!FairSpec`: weak fairness of the tick and of the thread; that it gets its
  turn is `NoStarvation` of `Scheduler`. `WaitEnds` exempts endless keystrokes: each
  restarts the reads at a point where ticks may come in.
* `Terminal!FairSpec`: weak fairness of the tick, which ends `getc`'s `HALT`, and of the
  thread that reads; none of the keys.
* `UsbDisk!FairSpec`: weak fairness of the thread, which the tick wakes in `wait_ticks`,
  and of the controller, which goes through its frames without the CPU; none of the device, which
  may stop answering: `run_qh` then counts 256 polls and stops the machine.
* `Installer!FairSpec`: weak fairness of the client and of the server's thread, two
  programs that run and a connection that delivers; none of `Start`, `Rebuild` or
  `Crash`. A connection that breaks is a `Crash`: the client has no timeout.

## Proofs

TLAPS proves, for every value of the constants that satisfies the `ASSUME`s:

* `SchedulerProofs`: `TypeCorrect`, `ForkCorrect`, `WaitSafe`, `DeadStayOff`,
  `OwnStacks` (`StacksDisjoint`). The
  invariant that carries them (`Invariance`) adds to the types the shape of the
  list (no thread twice, main thread first, current thread in it), that ids not
  yet given out are in no list, which places a thread can be in, and the fact
  that matters: only the main thread creates threads, it inserts the new one right
  after itself, and as long as it has to look at that thread the next node is it.
  The reaping loop frees only nodes after the *current* one, so the node that main
  polls can be freed only in main's own switch, and then main polls what was
  cleared only after it was dead. For the stacks it adds that a page is given back
  once (`DisposedOnce`): a thread that is disposed of is out of the list, or is the
  one whose reaping is going on.
* `BlockAllocatorProofs`: `TypeCorrect`, `NothingHidden`, `LinkedStayUsed`,
  `BlocksGivenOnce`, `FailsOnlyWhenFull`, and `IsPool` (the refinement of
  `BlockPool`), under `OneThread`: with two threads they are false. The
  invariant adds that the copies a thread will write back are equal to what is on the
  device, that levels above the one it is in are on the way to it, and which linked blocks may be
  free: those of the chain that is being freed, until the entry is written (`InDeletion`), and
  those that a power failure left in between (`Spoiled`). `LinkedStayUsed` and `BlocksGivenOnce`
  are about all others; that those exist is what the order of the code makes of a power failure.
* `HeapProofs`: `TypeCorrect`, `OneOwner` (`NoOverlap`), `MapCovers`
  (`OwnedMarked`), `ChainHasAll` (`AllLinked`) and `LostOnlyRaced` (`LeaksOnlyRaced`),
  under `OneThread` and with the tick's frees anywhere. The invariant adds
  that the run of bits the scan has counted is clear, that the part of a block
  that is marked stays marked, and that the word a thread will write back has the bits
  of all blocks still owned. The chain is the least set of pages that has the first and
  is closed under the pointers, so that a page is on it if every such set has it:
  no induction is needed to see that linking a page at the end adds exactly that page.
  For the leaks: a bit that a write puts back into the map is one that the thread had
  read and a free has cleared since.
* `ClockProofs`: `TypeCorrect`, `ClockRight` (`ShowsTime`) and `WaitsLongEnough`
  (`EarlyOnlyTorn`). For the last the invariant names the ticks `e` since the counters
  were first read: what was counted of each unit is the number of times that unit
  has begun since then, modulo the word, and so never more than `e` makes. It holds for
  every word and every time away, wrap-around included; `MaxAway` plays no part in it.
* `UsbDiskProofs`: `TypeCorrect`, `TogglesRight`, `PollsSound` (`PollsRight`),
  `TransfersSound` (`TransferRight`), `PipesSound` (`PipesRight`) and `EndpointsSound`
  (`EndpointsRight`), under `OneThread`. Of the `k` descriptors a transfer has linked the first `e` are done; the controller points to the
  one after them, or to nothing; and the device, its toggles and the buffer are where
  the first `e` packets of the command lead them. That `e` is `k` when `run_qh` returns
  follows from its polls although they leave out the first descriptor: descriptors are
  done in their order. A descriptor executed half-written is followed by the flag
  the properties except. `EndpointsSound` is for devices with any interfaces and endpoints at
  any places and any `Junk`, what the code misreads included: the invariant of the walk
  says of each interface it has passed which endpoints it can have left behind, and that at
  a readable configuration it is at the first byte of a descriptor; the induction is over
  the interfaces and, in each, its endpoints.
* `ScreenProofs`, of the keyboard: `KeysInOrder` (`ReadsWhatWasTyped`), and of the buffers `OnlyNullPastPage` (`StoresInside`), for any
  keys, however many, and any size of the buffers: whatever is stored is stored inside, but
  for the null behind a text that fills its page, which is written there. As long as no key was raced, what is
  owed to the reader is what is in the mailbox: `last`, if `kbhit` is set or `getc` is
  between clearing it and reading, and nothing otherwise; `shift` is set exactly if a
  shift key is down, so that the table chosen is the right one.
* `ScreenProofs`, of the console: `CallsAsIfAlone` (`AsIfAlone`), `PrintsInside` (`StaysInside`) and
  `CursorWhereItIs` (`CursorOffOnlyTorn`), under `OneThread`, for a screen of any size,
  any text and every tick. This is the refinement of `TextScreen` by the loops of
  `console.c`: `Todo` says, from each place in `putc`, what the screen will be when it
  returns, and the invariant that this, with the rest of the string put to it, is
  `want`. A round of a loop leaves `Todo` as it is. A tick draws the clock in the screen
  and in `want`, and nothing that is left to do sees it (`TodoText`, `PutSText`): it is
  in a row that text is neither written to nor read from, erasing and scrolling
  included. In a title, `Titled` says that what is left of the string is all that the
  screen lacks. `puts` is a recursion over its string; `Induction`, from the
  well-foundedness of the naturals, stands in for the library's theorem, which takes an
  operator.
* `ScreenProofs`, of the terminal: `BufferIsShown` (`BufferShown`), for a screen, buffers and
  keys of any kind and number. Every screen that anything is printed to is `Neat`: it shows
  nothing from the cursor on, and the cursor is at the beginning of a row or after a
  character, which is where erasing stops. On such screens erasing undoes a printed
  character, the end of a row and a new line in the middle of one included
  (`SameTakenBack`), although the cells may differ in what cannot be seen: zeros that
  scrolling left against blanks that erasing wrote. The invariant `Shows` says this of
  every beginning of the buffer, so that it survives characters taken back in any
  number; `Line` follows the line of `gets` up the screen when it scrolls.
* `InstallerProofs`: `TypeCorrect`, `InstalledRight`, `RecognisedRight`, `FsStaysWhole` and
  `FilesStay`: the safety properties of `Installer` but for `FilesThere`, for every list of images and
  every `Base` that satisfy `SizesFit`. `FsStaysWhole` and `FilesStay` are about file systems made
  at `Base`: for others they are false, as `FilesThere` says. The invariant relates four places: what the
  server has read of the file, what is on the way, what is on the device and what the
  client still expects. `Digest` says for `GET_MD5` that the hash covers what was read,
  `Sent` for `GET_OS` that block `i` on the way is the next after what is on the
  device; `Bounds`, that what is left of an image ends before the file system, so that no block of an
  image is ever at `Base` or behind it (`TypeCorrect`);
  `Disk`, that bitmap, root, fields and signature are written in this order and at one place.

* `EdenFSProofs`: `VolumeStaysSound` (`VolumeSound`), for volumes and parts of any size,
  any names and files of any length. A pointer is an address in a part, that of the
  next part or that of an entry. `Shape`, which carries the proof, speaks of single
  pointers only: those that lead anywhere lead to blocks in use, none to the root
  (`Leading`), no two to the same block (`OneWay`), a free block is blank (`Blank`), and
  the block of a directory is no file's part and the other way round (`Shaped`). That
  says nothing of chains and is what an operation can be seen to keep. The chains follow
  by induction on their length (`Apart`): two that met, or one that came back to itself,
  would have to come from one pointer in the block before, and so on back to the entries
  where they begin. So what is freed with an entry is all that this entry led to and
  nothing else did (`Pruned`); a new block is linked once (`GrownShape`); and the loop of
  `write_to_file` leaves, after each of its rounds, a sound volume and a part of a
  file, or the boot sector in the place of one, which its next round notices (`Round`).
  A scan of a directory that stops after `part_size` entries reaches them all, since
  before an entry there are fewer of them than there are (`ScanReaches`).
  From the same invariant `LosesOnlyBelow` (`LeaksOnlyBelow`), an action property: a block
  is lost if it is in use and in no chain of an entry (`Chained`, `Lost`). What a deletion
  frees is exactly one chain (`Separate`), and the others are kept (`ChainKept`) unless the
  entry they begin at was in what was freed (`WithPartLoses`), which is the case the
  property allows. A block that a write adds is linked to a part that is in its file's
  chain, and the chain does go on to it (`GrownChained`): it has no more parts than the
  volume has blocks, so following it for as long as there are blocks does not stop short
  (`ChainGoesOn`, by the pigeonhole principle).
  And `IsFileTree` (`TreeSpec`), the refinement of `FileTree`. The tree is a function of
  the volume (`InTree`), and the path of an entry says where it is and nothing else does
  (`NamedOnce`). Every command changes one entry, the one its path leads to (`Entered`),
  and leaves the others as they were, with the parts of their files, except those in the
  directory that the entry led to (`Edited`). From this alone follows what the tree loses
  and gets (`TreeChanges`): an entry is below the path if it is the one that changed or
  is in the directory that is gone (`LeadsGone`), and the data of the others are
  what they were, since a chain whose parts have not changed has not (`SameChain`).
  While a file is written, the parts of all others stay as they were through the rounds
  of the loop (`Round`). For this the invariant says of the open file that a path leads
  to it and that it has no part yet (`Opened`).
  And `WritesWhole` (`WritesAll`). The invariant of the loop of `write_to_file` (`LaidOut`)
  follows the parts laid so far: all are full, each leads to the next, each holds the bytes
  of the text from its place on, and what is left goes to an empty part at the end
  (`RoundsEnd`). A chain that starts where these start cannot leave them (`WayIs`) and,
  since they are no more than the volume has blocks, is all of them (`WayEnds`); joining
  pieces that are all full but the last gives back the text (`Whole`). The joining is a
  recursive function, of which the prover can use the defining equation (`Joined`), and
  the induction is over the parts.
  And `ReadsWhole` (`FilesRead`). The chain of a file ends, within as many parts as
  there are blocks, and all of them but the last are full (`FileParts`). So the parts
  begin at multiples of their size (`OffsetsExist`), each place of the file is in one
  part and in no other (`PlaceIs`, `PlaceOnce`), and the file is the text that the parts
  hold one after another (`FileSpread`). The invariant of the loops of `read_from_file`
  (`Reading`) has the reader at a place in a part, with the text copied that lies
  between the place where it began and that one, and a count that is not above that; or
  at the end, with all it was to read or all there was. Each round keeps it and leaves
  less to skip or to read (`ReadPartKept`, `TurnsEnd`). For the read command, which goes
  on by the count, what matters is that the count is not 0 while there is something to
  read. The part it stops in is counted, unless it is full and has no next part, so this
  holds if the last part is neither empty nor full, which the length of the file tells
  (`ReadPieceKept`, `ReadCmdIs`).

Only model-checked: all liveness (fairness and `ENABLED` are out of the prover's reach); `FilesThere`;
and all of `HostFS`, whose operators are `RECURSIVE` over the directories
and parts, which the provers have no theory for.

Only proved, and in no run: that linked blocks stay in use (`LinkedUsed`, which follows from the pool),
that all pages of the heap are linked (`AllLinked`), and that an installed device is recognised
(`Recognised`).

## Not modelled, and the plan

Left to do, in this order:

1. **Proofs**: the same for `HostFS`, whose steps keep a slightly different shape (an entry
   that is overwritten keeps its old LBA).
2. **Pages**: two threads in `palloc` and `malloc`, which nothing locks (hazards
   memory.c:161 and dmemory.c:77).
3. **EdenFS block by block**: `delete`, `write_to_file` and `create` as single
   reads and writes with a power failure between them, and a stale file handle
   (edenfs.c:587).

Not modelled, and why:

* **Boot, interrupt tables, paging**: run once, before interrupts are on; nothing
  interleaves with them and nothing changes their tables later. What matters of them
  for the rest, that a handler is atomic and that addresses are physical, is in the
  models. `remove_entry` and `dup_dir` are never called.
* **PCI**: reads and writes of configuration registers, without a state of its own.
* **Strings and types, formats** of sizes, paths and tables (`help`, `mmap`, `ls`, `cd`):
  pure functions on bytes; where a name or a number matters it is a value of the model.
* **USB**: the handover from the BIOS and the EHCI companion (delays and register
  writes), more than one port, packet sizes, tags and the layout of wrappers.
* **The volume's geometry**: `init_fs` (edenfs.c:56-79) computes the number of blocks of each
  level once, and the host's constructor does the same with other code
  (EdenFSManager.py:62-72). `BlockAllocator` has the sizes that follow from it as constants;
  the computing, what `init_fs` does with a device without the signature, and whether the two agree
  on every capacity are not checked.
* **Host**: the menus and progress bars; `find_devs`, which asks `lsblk`; names of twelve
  characters; host directories of several parts; `import_dir`, which calls `make_dir` and
  `import_file` for what a directory of the host holds, and so the import that may follow a format.
