----------------------------- MODULE Scheduler -----------------------------
(***************************************************************************)
(* Threads of the kernel process: processing.c, the tick of time.c that    *)
(* drives it, and the command prompt of cmd.c that creates the threads and *)
(* waits for them.                                                         *)
(*                                                                         *)
(* There is one process ("kernel") and one CPU.  ThreadNodes form a list   *)
(* that starts with the main thread, which runs the command prompt.  Every *)
(* command runs in a thread of its own, made by new_thread in the style of *)
(* fork: the first switch to the new thread copies the stack of whichever  *)
(* thread is then running.  Interrupt handlers run with interrupts off     *)
(* (gates 0x8E), so a tick is one action.                                  *)
(***************************************************************************)
EXTENDS Integers, Sequences, FiniteSets

CONSTANTS
    MaxTid,      \* bound: thread ids 0..MaxTid are ever given out
    NumPages,    \* bound: pages 1..NumPages can be allocated for stacks
    IdleTicks,   \* status_ticks[IDLE], 4 in the code
    ActiveTicks  \* status_ticks[ACTIVE], 64 in the code

ASSUME BoundsAssumption == MaxTid \in Nat /\ NumPages \in Nat
ASSUME TicksAssumption == IdleTicks \in Nat /\ ActiveTicks \in Nat

Tid  == 0..MaxTid
Main == 0             \* tid of "kernel_main"
Page == 0..NumPages   \* page 0 stands for the boot stack at 0x1F000

\* The enum of processing.h; wait() relies on DEAD being zero.
DEAD   == 0
IDLE   == 1
ACTIVE == 2
Status == {DEAD, IDLE, ACTIVE}

\* Where a thread is: "prompt" in command_prompt, "spawning" in the loop of
\* new_thread, "created" between new_thread and wait, "waiting" in wait,
\* "command" inside a command, "loop" in inf_loop_cmd, "done" between the
\* end of a command and dispose_thread, "dead" in the loop of dispose_thread.
Loc == {"prompt", "spawning", "created", "waiting",
        "command", "loop", "done", "dead"}

VARIABLES
    threads,        \* the ThreadNode list of the process, as tids
    current_node,
    status,         \* ThreadNode.status
    init,           \* the tids whose ThreadNode.init is set
    p_stack_page,   \* ThreadNode.p_stack_page
    next_tid,
    bitmap,         \* pages that are allocated
    switch_counter, \* ticks left before the next switch
    ints,           \* the interrupt flag of the CPU
    pc,             \* where each thread's stack says it is
    thread,         \* new_thread's local of that name, on the stack; wait's
                    \* status pointer leads to the same node
    w,              \* exec_command's argument of that name: wait for it
    killed          \* killth has freed its own page

node  == <<threads, status, init, p_stack_page, next_tid>>
stack == <<pc, thread, w>>
vars  == <<threads, current_node, status, init, p_stack_page, next_tid,
           bitmap, switch_counter, ints, pc, thread, w, killed>>

status_ticks(s) == CASE s = DEAD -> 0 [] s = IDLE -> IdleTicks
                     [] s = ACTIVE -> ActiveTicks

\* init_processing, up to command_prompt.
Init ==
    /\ threads = <<Main>>
    /\ current_node = Main
    /\ status = [t \in Tid |-> IF t = Main THEN ACTIVE ELSE DEAD]
    /\ init = {Main}
    /\ p_stack_page = [t \in Tid |-> 0]
    /\ next_tid = 1
    /\ bitmap = {0}
    /\ switch_counter = status_ticks(ACTIVE)
    /\ ints = TRUE
    /\ pc = [t \in Tid |-> "prompt"]
    /\ thread = [t \in Tid |-> Main]
    /\ w = FALSE
    /\ killed = FALSE

-----------------------------------------------------------------------------
(* Threads: exec_command, new_thread, wait, dispose_thread, the commands.  *)

\* The first free page (palloc); the caller has interrupts off.
FirstFree(p) == /\ p \in Page \ bitmap
                /\ \A q \in 0..p-1 : q \in bitmap

\* palloc sets the page's bit.
TakePageLost(p) == bitmap  \* mutant: the bit is not set
TakePage(p) == bitmap \cup {p}

\* The list with t inserted after the node at position k.
InsertAfter(t, k) == SubSeq(threads, 1, k) \o <<t>>
                        \o SubSeq(threads, k + 1, Len(threads))

\* Where new_thread links the new node: right after the current one.
LinkedLast(t) == threads' = InsertAfter(t, Len(threads))  \* mutant: at the end
Linked(t) == \E k \in 1..Len(threads) :
                /\ threads[k] = current_node
                /\ threads' = InsertAfter(t, k)

\* command_prompt reads a command, exec_command finds it and calls
\* new_thread, which works with interrupts off and then waits for init.
NewThread(wait_for_it) ==
    /\ pc[current_node] = "prompt"
    /\ next_tid \in Tid
    /\ \E p \in Page :
          /\ FirstFree(p)
          /\ bitmap' = TakePage(p)
          /\ p_stack_page' = [p_stack_page EXCEPT ![next_tid] = p]
    /\ Linked(next_tid)
    /\ status' = [status EXCEPT ![next_tid] = ACTIVE]
    /\ next_tid' = next_tid + 1
    /\ pc' = [pc EXCEPT ![current_node] = "spawning"]
    /\ thread' = [thread EXCEPT ![current_node] = next_tid]
    /\ w' = wait_for_it
    /\ ints' = TRUE
    /\ UNCHANGED <<current_node, init, switch_counter, killed>>

\* new_thread returns 1 in the new thread, which runs the command, and 0 in
\* its creator, which waits or goes back to the prompt.
NewThreadReturn ==
    /\ pc[current_node] = "spawning"
    /\ thread[current_node] \in init
    /\ pc' = [pc EXCEPT ![current_node] =
                IF thread[current_node] = current_node THEN "command"
                ELSE IF w THEN "created" ELSE "prompt"]
    /\ UNCHANGED <<node, current_node, bitmap, switch_counter, ints, thread, w, killed>>

Wait ==
    /\ pc[current_node] = "created"
    /\ status' = [status EXCEPT ![current_node] = IDLE]
    /\ pc' = [pc EXCEPT ![current_node] = "waiting"]
    /\ UNCHANGED <<threads, current_node, init, p_stack_page, next_tid, bitmap,
                   switch_counter, ints, thread, w, killed>>

\* The word the status pointer of wait() leads to: a freed node reads as
\* zero, because free() clears what it frees.
PolledOwnStatus == status[current_node]  \* mutant: the wrong node
PolledStatus == status[thread[current_node]]

WaitReturn ==
    /\ pc[current_node] = "waiting"
    /\ PolledStatus = DEAD
    /\ status' = [status EXCEPT ![current_node] = ACTIVE]
    /\ pc' = [pc EXCEPT ![current_node] = "prompt"]
    /\ UNCHANGED <<threads, current_node, init, p_stack_page, next_tid, bitmap,
                   switch_counter, ints, thread, w, killed>>

\* A command ended (or ended after killth or pview) and the thread is
\* disposed of; its own page is freed while it still stands on it.
DisposeThread ==
    /\ pc[current_node] \in {"command", "done"}
    /\ status' = [status EXCEPT ![current_node] = DEAD]
    /\ bitmap' = bitmap \ {p_stack_page[current_node]}
    /\ ints' = TRUE
    /\ pc' = [pc EXCEPT ![current_node] = "dead"]
    /\ UNCHANGED <<threads, current_node, init, p_stack_page, next_tid,
                   switch_counter, thread, w, killed>>

\* The command "inf": set_idle, then while (1).
InfLoopCmd ==
    /\ pc[current_node] = "command"
    /\ status' = [status EXCEPT ![current_node] = IDLE]
    /\ pc' = [pc EXCEPT ![current_node] = "loop"]
    /\ UNCHANGED <<threads, current_node, init, p_stack_page, next_tid, bitmap,
                   switch_counter, ints, thread, w, killed>>

\* The command "pview": print_proc_data clears the interrupt flag and leaves
\* it so; dispose_thread sets it again.
PrintProcData ==
    /\ pc[current_node] = "command"
    /\ ints' = FALSE
    /\ pc' = [pc EXCEPT ![current_node] = "done"]
    /\ UNCHANGED <<node, current_node, bitmap, switch_counter, thread, w, killed>>

\* The command "killth": any tid the user types, the main thread's refused.
\* The page freed is that of the thread that runs the command.
KillTh(tid) ==
    /\ pc[current_node] = "command"
    /\ IF tid # Main /\ \E k \in 1..Len(threads) : threads[k] = tid
       THEN /\ status' = [status EXCEPT ![tid] = DEAD]
            /\ bitmap' = bitmap \ {p_stack_page[current_node]}
            /\ killed' = TRUE
       ELSE UNCHANGED <<status, bitmap, killed>>
    /\ pc' = [pc EXCEPT ![current_node] = "done"]
    /\ ints' = TRUE
    /\ UNCHANGED <<threads, current_node, init, p_stack_page, next_tid,
                   switch_counter, thread, w>>

-----------------------------------------------------------------------------
(* The tick: handle_tick and switch_proc.                                  *)

\* The thread is inside the few instructions between two HALTs of
\* new_thread, exec_command and wait.  A thread gets at least IdleTicks + 1
\* ticks (5 ms) each time, far more than those instructions take: a switch
\* finds it at a HALT, or in the prompt or a command, which can be long.
Midway == \/ pc[current_node] = "spawning" /\ thread[current_node] \in init
          \/ pc[current_node] = "created"
          \/ pc[current_node] = "waiting" /\ PolledStatus = DEAD

\* The nodes at i+1..j, right after the current one, are dead and the one
\* after them, if any, is not: what the reaping loop of switch_proc frees.
DeadRunOfOne(i, j) ==  \* mutant: if instead of while
    /\ threads[i] = current_node
    /\ j = IF i < Len(threads) /\ status[threads[i + 1]] = DEAD
           THEN i + 1 ELSE i
DeadRun(i, j) ==
    /\ threads[i] = current_node
    /\ \A k \in i+1..j : status[threads[k]] = DEAD
    /\ j < Len(threads) => status[threads[j + 1]] # DEAD

\* The list without positions i+1..j.
CutOutAll(i, j) ==  \* mutant: every dead node but the current one
    SelectSeq(threads, LAMBDA t : t = current_node \/ status[t] # DEAD)
CutOut(i, j) == SubSeq(threads, 1, i) \o SubSeq(threads, j + 1, Len(threads))

\* The node after position j, or around to the main thread.  The loop that
\* reaps a dead main thread never runs: kill_th refuses the
\* main thread, and only the thread of a command disposes of itself.
NextNodeNoWrap(j) ==  \* mutant: stays at the end of the list
    IF j < Len(threads) THEN threads[j + 1] ELSE current_node
NextNode(j) == IF j < Len(threads) THEN threads[j + 1] ELSE threads[1]

\* The stack of a thread that has never run is copied from the current one.
CopyStack(t) ==
    IF t \in init THEN UNCHANGED <<pc, thread>>
    ELSE /\ pc' = [pc EXCEPT ![t] = pc[current_node]]
         /\ thread' = [thread EXCEPT ![t] = thread[current_node]]

SwitchProc ==
    \E i \in 1..Len(threads) : \E j \in i..Len(threads) :
        /\ DeadRun(i, j)
        /\ threads' = CutOut(i, j)
        /\ CopyStack(NextNode(j))
        /\ init' = (init \ {threads[k] : k \in i+1..j}) \cup {NextNode(j)}
        /\ current_node' = NextNode(j)
        /\ switch_counter' = status_ticks(status[NextNode(j)])

TicksLeft == switch_counter > 0

\* handle_tick while there is quantum left ...
CountTick ==
    /\ ints
    /\ TicksLeft
    /\ switch_counter' = switch_counter - 1
    /\ UNCHANGED <<node, current_node, bitmap, ints, stack, killed>>

\* ... and when there is none.
SwitchTick ==
    /\ ints
    /\ ~TicksLeft
    /\ ~Midway
    /\ SwitchProc
    /\ UNCHANGED <<status, p_stack_page, next_tid, bitmap, ints, w, killed>>

HandleTick == CountTick \/ SwitchTick

-----------------------------------------------------------------------------
Next ==
    \/ \E b \in BOOLEAN : NewThread(b)
    \/ NewThreadReturn
    \/ Wait
    \/ WaitReturn
    \/ DisposeThread
    \/ InfLoopCmd
    \/ PrintProcData
    \/ \E t \in Tid : KillTh(t)
    \/ HandleTick

Spec == Init /\ [][Next]_vars

\* The timer keeps ticking; code that is running goes on running.  Nothing
\* makes the user type or a command end.
Fairness ==
    /\ WF_vars(HandleTick)
    /\ WF_vars(NewThreadReturn)
    /\ WF_vars(Wait)
    /\ WF_vars(WaitReturn)
    /\ WF_vars(pc[current_node] = "done" /\ DisposeThread)

FairSpec == Spec /\ Fairness

-----------------------------------------------------------------------------
(* Properties.                                                             *)

\* The tids in the list.
Listed == {threads[k] : k \in 1..Len(threads)}

\* A thread that can still run.
Live(t) == t \in Listed /\ status[t] # DEAD

\* The type of every variable; the list holds no node twice, starts with the
\* main thread and holds the running thread (processing.c:22-62).
TypeOK ==
    /\ threads \in Seq(Tid)
    /\ current_node \in Tid
    /\ status \in [Tid -> Status]
    /\ init \in SUBSET Tid
    /\ p_stack_page \in [Tid -> Page]
    /\ next_tid \in Nat
    /\ bitmap \in SUBSET Page
    /\ switch_counter \in Nat
    /\ ints \in BOOLEAN
    /\ pc \in [Tid -> Loc]
    /\ thread \in [Tid -> Tid]
    /\ w \in BOOLEAN
    /\ killed \in BOOLEAN

\* A thread that has never run is the next one to run, and the running
\* thread is its creator, inside new_thread: what switch_proc copies is the
\* frame that new_thread returns 1 from (processing.c:115-125, 179-183).
ForkCopiesCreator ==
    \A t \in Listed \ init :
        /\ pc[current_node] = "spawning"
        /\ thread[current_node] = t
        /\ \E k \in 1..Len(threads) - 1 :
              threads[k] = current_node /\ threads[k + 1] = t

\* While the main thread is about to read the node of the thread it made, in
\* new_thread (init, tid) or through wait's pointer, the node has not been
\* freed by switch_proc (processing.c:92-97 against 179-184 and 225).
WaitedNodeListed ==
    pc[Main] \in {"spawning", "created", "waiting"} => thread[Main] \in Listed

\* Until killth takes a page from under the thread that runs it, two threads
\* that can run never share a stack page, and the page of each is allocated
\* (processing.c:170, 203, 357).
StacksDisjoint ==
    ~killed => \A t \in Listed : Live(t) =>
        /\ p_stack_page[t] \in bitmap
        /\ \A u \in Listed \ {t} :
              Live(u) => p_stack_page[u] # p_stack_page[t]

\* No switch resumes a dead thread, whose stack page is no longer its own
\* (processing.c:92-113).
NoSwitchToDead ==
    [][current_node' # current_node => status'[current_node'] # DEAD]_vars

\* A thread that can run runs again and again until it dies
\* (processing.c:110-113, time.c:85-91).
NoStarvation ==
    \A t \in Tid : []<>(~Live(t) \/ current_node = t)

\* When the command it waits for has ended, the shell comes back to the
\* prompt (processing.c:223-228, cmd.c:128-130).
ShellResumes ==
    (pc[Main] = "waiting" /\ status[thread[Main]] = DEAD) ~> pc[Main] = "prompt"

\* A thread that died is taken off the list and its node freed
\* (processing.c:92-97).
DeadReaped ==
    \A t \in Tid : (t \in Listed /\ status[t] = DEAD) ~> t \notin Listed

\* The list keeps no thread that can run from the CPU and no dead one in it.
Progress == NoStarvation /\ DeadReaped

=============================================================================
