------------------------------- MODULE Clock --------------------------------
(***************************************************************************)
(* The clock of the kernel (time.c): the tick handler that counts time and *)
(* shows it, and wait_ticks, by which a thread lets time pass.             *)
(*                                                                         *)
(* The handler is one action.  The kernel is built without optimisation    *)
(* (OS/makefile), so wait_ticks reads the four counters from memory one    *)
(* at a time and in the order they are written, and ticks come in between. *)
(* From one HALT to the next it takes some hundred instructions, far less  *)
(* than a tick (1 ms), so ticks come in at one place there: one tick, or   *)
(* several if it switches to other threads.  None comes in after a tick    *)
(* that ended the HALT.                                                    *)
(***************************************************************************)
EXTENDS Integers, Sequences

CONSTANTS
    TICKS,    \* ticks in a second, 1024 in the code
    SECS,     \* seconds in a minute, 60
    MINS,     \* minutes in an hour, 60
    DAY,      \* the hour shown as 0, 24
    WORD,     \* values of an unsigned word, 2^32
    MaxWait,  \* bound: wait_ticks is called with 1..MaxWait
    MaxAway   \* bound: ticks that come in at one place

ASSUME UnitsAssumption ==
    /\ {TICKS, SECS, MINS, DAY, WORD, MaxWait} \subseteq Nat \ {0}
    /\ TICKS < WORD /\ SECS < WORD /\ MINS < WORD /\ DAY < WORD /\ DAY <= 100
\* A thread is away for at most a quantum of each other thread: less than a
\* second, unless 15 of them keep computing.
ASSUME AwayAssumption == MaxAway \in 1..TICKS - 2

VARIABLES
    ticks, secs, mins, hrs,
    current_time, \* the digits on the screen, <<hours, minutes, seconds>>
    pc,           \* what wait_ticks is doing: "returned" when nothing
    k,            \* how many words that has read
    prev,         \* prev_hrs, prev_mins, prev_secs and prev_ticks
    passed,
    n,
    away,         \* ticks that came in since the last HALT, or MaxAway if
                  \* no more will
    waited,       \* ticks since wait_ticks was called, as far as they matter
    asked,        \* the number it was called with
    torn          \* a second ended while wait_ticks read the four counters

clock  == <<ticks, secs, mins, hrs, current_time>>
thread == <<pc, k, prev, passed, n, asked>>
vars   == <<clock, thread, away, waited, torn>>

Word == 0..WORD - 1
Digit == 0..99

\* The counters, the units first.
counter == <<ticks, secs, mins, hrs>>
Base    == <<TICKS, SECS, MINS>>

Init ==
    /\ ticks = 0 /\ secs = 0 /\ mins = 0 /\ hrs = 0
    /\ current_time = <<0, 0, 0>>
    /\ pc = "returned" /\ k = 0 /\ prev = <<0, 0, 0, 0>> /\ passed = 0 /\ n = 0
    /\ away = 0 /\ waited = 0 /\ asked = 0 /\ torn = FALSE

-----------------------------------------------------------------------------
(* handle_tick: advance_clock.  (What it does about threads is in          *)
(* Scheduler.)                                                             *)

NewSecond == ticks + 1 = TICKS
NewMinute == NewSecond /\ secs + 1 = SECS
NewHour   == NewMinute /\ mins + 1 = MINS

CountTime ==
    /\ ticks' = IF NewSecond THEN 0 ELSE ticks + 1
    /\ secs'  = IF NewMinute THEN 0 ELSE IF NewSecond THEN secs + 1 ELSE secs
    /\ mins'  = IF NewHour THEN 0 ELSE IF NewMinute THEN mins + 1 ELSE mins
    /\ hrs'   = IF NewHour THEN (hrs + 1) % WORD ELSE hrs

\* The digits that change; hrs is not set back at the end of a day.
ShownMinuteKept == <<current_time[1], mins', current_time[3]>>
    \* mutant: the seconds are left
ShownMinute == <<current_time[1], mins', 0>>
ShownHour == <<IF hrs' = DAY THEN 0 ELSE hrs' % 100, 0, 0>>

ShowTime ==
    current_time' = IF NewHour THEN ShownHour
                    ELSE IF NewMinute THEN ShownMinute
                    ELSE IF NewSecond THEN [current_time EXCEPT ![3] = secs']
                    ELSE current_time

\* An interrupt ends the HALT of wait_ticks.
Wake == IF pc = "halt" THEN "poll" ELSE pc

HandleTick ==
    /\ pc \in {"returned", "halt"} \/ away < MaxAway
    /\ CountTime
    /\ ShowTime
    /\ pc' = Wake
    /\ away' = CASE pc = "returned" -> 0 [] pc = "halt" -> 1 [] OTHER -> away + 1
    /\ waited' = IF waited < asked THEN waited + 1 ELSE waited
    /\ torn' = (torn \/ (NewSecond /\ pc \in {"prev", "passed"} /\ k > 0))
    /\ UNCHANGED <<k, prev, passed, n, asked>>

-----------------------------------------------------------------------------
(* wait_ticks.                                                             *)

Step == /\ away' = IF away > 0 THEN MaxAway ELSE 0
        /\ UNCHANGED <<clock, waited, torn>>

WaitTicks(m) ==
    /\ pc = "returned"
    /\ pc' = "prev" /\ k' = 0 /\ n' = m /\ passed' = 0 /\ prev' = <<0, 0, 0, 0>>
    /\ asked' = m /\ waited' = 0 /\ torn' = FALSE /\ away' = 0
    /\ UNCHANGED clock

\* prev_ticks = ticks, then prev_secs, prev_mins and prev_hrs.
ReadPrev ==
    /\ pc = "prev"
    /\ prev' = [prev EXCEPT ![k + 1] = counter[k + 1]]
    /\ k' = (k + 1) % 4
    /\ pc' = IF k = 3 THEN "poll" ELSE "prev"
    /\ UNCHANGED <<passed, n, asked>>
    /\ Step

\* The && of the inner loop: the first counter that differs ends it.
Same(i) == prev[i] = counter[i]

Poll ==
    /\ pc = "poll"
    /\ IF Same(k + 1)
       THEN /\ k' = (k + 1) % 4
            /\ pc' = IF k = 3 THEN "halt" ELSE "poll"
       ELSE k' = 0 /\ pc' = "passed"
    /\ UNCHANGED <<prev, passed, n, asked>>
    /\ Step

\* An interrupt other than the tick.
Interrupt ==
    /\ pc = "halt"
    /\ pc' = Wake
    /\ away' = 0
    /\ UNCHANGED <<clock, k, prev, passed, n, asked, waited, torn>>

\* passed is computed from the hours down, modulo the word.
PassedFlat(i) ==  \* mutant: a second counts as a tick
    ((IF i = 4 THEN 0 ELSE passed) + counter[i] - prev[i]) % WORD
Passed(i) ==
    ((IF i = 4 THEN 0 ELSE passed * Base[i]) + counter[i] - prev[i]) % WORD

\* What is left to wait.
LeftAll(p) == n  \* mutant: not counted
Left(p) == n - p

ReadPassed ==
    /\ pc = "passed"
    /\ k < 3
    /\ passed' = Passed(4 - k)
    /\ k' = k + 1
    /\ UNCHANGED <<pc, prev, n, asked>>
    /\ Step

\* With ticks, the last word, it is known how many have passed.
CountPassed ==
    /\ pc = "passed"
    /\ k = 3
    /\ passed' = Passed(1)
    /\ k' = 0
    /\ IF passed' >= n
       THEN pc' = "returned" /\ n' = 0
       ELSE pc' = "prev" /\ n' = Left(passed')
    /\ UNCHANGED <<prev, asked>>
    /\ Step

Thread == ReadPrev \/ Poll \/ ReadPassed \/ CountPassed

Next ==
    \/ HandleTick
    \/ \E m \in 1..MaxWait : WaitTicks(m)
    \/ Thread
    \/ Interrupt

Spec == Init /\ [][Next]_vars

\* The timer ticks, and a thread that can run gets its turn (Scheduler,
\* NoStarvation).
FairSpec == Spec /\ WF_vars(HandleTick) /\ WF_vars(Thread)

-----------------------------------------------------------------------------
(* Properties.                                                             *)

\* The types of the variables.
TypeOK ==
    /\ ticks \in 0..TICKS - 1 /\ secs \in 0..SECS - 1 /\ mins \in 0..MINS - 1
    /\ hrs \in Word
    /\ current_time \in Digit \X Nat \X Nat
    /\ pc \in {"returned", "prev", "poll", "halt", "passed"}
    /\ k \in 0..3
    /\ prev \in Word \X Word \X Word \X Word
    /\ passed \in Word
    /\ n \in 0..MaxWait /\ asked \in 0..MaxWait /\ waited \in 0..MaxWait
    /\ away \in 0..MaxAway
    /\ torn \in BOOLEAN

\* Through all the carries only the digits that change are written, and the
\* screen shows the time of day, in the first day and the hour after it
\* (time.c:110-139).
ShowsTime ==
    hrs <= DAY => current_time = <<hrs % DAY, mins, secs>>

\* wait_ticks waits as long as it is asked to, however often it was away and
\* whatever carries in the meantime, unless a second ends between two of its
\* reads of the counters (time.c:182-196).
EarlyOnlyTorn ==
    pc = "returned" => waited = asked \/ torn

\* wait_ticks returns, unless it is kept from it by keystrokes that go on for
\* ever (time.c:182-196).
WaitEnds ==
    []<><<Interrupt>>_vars \/ (pc # "returned" ~> pc = "returned")

=============================================================================
