------------------------------ MODULE Console -------------------------------
(***************************************************************************)
(* The console (console.c) as threads run it, a statement or a round of a  *)
(* loop at a time, while the tick draws the clock with puts_at in between. *)
(*                                                                         *)
(* A thread is switched out in the tick, so with more than one thread any  *)
(* of them may take the next step.  set_cursor, which nothing calls, and   *)
(* set_color are left out.                                                 *)
(***************************************************************************)
EXTENDS TextScreen

CONSTANTS
    Threads,
    Title, Rule, \* what init_console prints around the text
    Times,       \* what the clock can show
    PutsAtArgs,  \* bound: strings printed at a place, as <<string, position>>
    PutsArgs,    \* bound: strings printed at the cursor
    PutcArgs     \* bound: characters printed

ClockAt == At(ROWS - 1, 0)

\* Titles and the clock are put at a place without control characters.
Plain(str) ==
    /\ str \in Seq(STRING)
    /\ \A i \in 1..Len(str) : str[i] \notin {"\n", "\t", "\\b"}

ASSUME ArgsAssumption ==
    \* The clock leaves a cell free after it (time.c:62) ...
    /\ Times # {}
    /\ \A time \in Times : Plain(time) /\ ClockAt + Len(time) < B_END
    \* ... and the other strings stay in the title's row.
    /\ \A a \in PutsAtArgs :
          Plain(a[1]) /\ a[2] \in Nat \ {0} /\ a[2] + Len(a[1]) <= COLUMNS
    /\ Plain(Title) /\ Len(Title) < COLUMNS
    /\ Plain(Rule) /\ Len(Rule) = COLUMNS
    /\ PutsArgs \subseteq Seq(STRING) /\ PutcArgs \subseteq STRING

VARIABLES
    cells,
    start, end, current,
    update_cursor_bool,
    hw,      \* where the video controller shows the cursor
    pc, L,   \* for each thread: what it does next, and its locals
    want,    \* what cells and current are to be when nothing is in progress
    torn     \* a tick came while a thread was in puts_at

video  == <<cells, start, end, current, update_cursor_bool, hw>>
vars   == <<video, pc, L, want, torn>>

FirstTime == CHOOSE time \in Times : TRUE

Locals == [str |-> <<>>, n |-> 0, c |-> Blank, p1 |-> 0, p2 |-> 0,
           copy |-> TRUE, inputs |-> FALSE, prev |-> <<0, 0, 0>>, at |-> 0]

\* init_console, and init_time's first drawing of the clock.
FirstCells ==
    LET blank  == Repeat(Blank, B_END - 1)
        titled == PutsAt(blank, Title, At(0, 0))
        ruled  == PutsAt(titled, Rule, At(1, 0))
        boxed  == PutsAt(ruled, Rule, At(ROWS - 2, 0))
    IN  PutsAt(boxed, FirstTime, ClockAt)

Init ==
    /\ cells = FirstCells
    /\ start = start0 /\ end = end0 /\ current = start0
    /\ update_cursor_bool = TRUE
    /\ hw = start0
    /\ pc = [t \in Threads |-> "idle"]
    /\ L = [t \in Threads |-> Locals]
    /\ want = [cells |-> FirstCells, current |-> start0]
    /\ torn = FALSE

TextArea(s) == [cells |-> s.cells, current |-> s.current,
                start |-> start0, end |-> end0]
Result(s) == [cells |-> s.cells, current |-> s.current]

Goto(t, label) == pc' = [pc EXCEPT ![t] = label]
SetLocals(t, l) == L' = [L EXCEPT ![t] = l]
Returned(t) == IF L[t].inputs THEN "puts" ELSE "idle"

-----------------------------------------------------------------------------
(* The calls.                                                              *)

CallPutc(t) == \E c \in PutcArgs :
    /\ pc[t] = "idle"
    /\ SetLocals(t, [Locals EXCEPT !.c = c])
    /\ Goto(t, "putc")
    /\ want' = Result(PutC(TextArea(want), c))
    /\ torn' = FALSE
    /\ UNCHANGED video

CallPuts(t) == \E str \in PutsArgs :
    /\ pc[t] = "idle"
    /\ SetLocals(t, [Locals EXCEPT !.str = str])
    /\ Goto(t, "enter puts")
    /\ want' = Result(PutS(TextArea(want), str))
    /\ torn' = FALSE
    /\ UNCHANGED video

CallPutsAt(t) == \E a \in PutsAtArgs :
    /\ pc[t] = "idle"
    /\ SetLocals(t, [Locals EXCEPT !.str = a[1], !.at = a[2]])
    /\ Goto(t, "enter puts_at")
    /\ want' = [want EXCEPT !.cells = PutsAt(@, a[1], a[2])]
    /\ UNCHANGED <<video, torn>>

\* putc_at, by which exec_command takes the title of a command back.
PutcAt(t) == \E a \in PutsAtArgs : \E i \in 1..Len(a[1]) :
    /\ pc[t] = "idle"
    /\ cells' = [cells EXCEPT ![a[2] + i - 1] = Blank]
    /\ want' = [want EXCEPT !.cells[a[2] + i - 1] = Blank]
    /\ UNCHANGED <<start, end, current, update_cursor_bool, hw, pc, L, torn>>

CallClear(t) ==
    /\ pc[t] = "idle"
    /\ current' = start
    /\ SetLocals(t, Locals)
    /\ Goto(t, "clear")
    /\ want' = [cells |-> Fill(want.cells, start0, end0, Blank), current |-> start0]
    /\ torn' = FALSE
    /\ UNCHANGED <<cells, start, end, update_cursor_bool, hw>>

-----------------------------------------------------------------------------
(* puts_at and puts.                                                       *)

EnterPutsAt(t) ==
    /\ pc[t] = "enter puts_at"
    /\ SetLocals(t, [L[t] EXCEPT !.prev = <<start, end, current>>])
    /\ start' = B_START /\ end' = B_END /\ current' = L[t].at
    /\ update_cursor_bool' = FALSE
    /\ Goto(t, "enter puts")
    /\ UNCHANGED <<cells, hw, want, torn>>

EnterPuts(t) ==
    /\ pc[t] = "enter puts"
    /\ SetLocals(t, [L[t] EXCEPT !.copy = update_cursor_bool, !.inputs = TRUE])
    /\ update_cursor_bool' = FALSE
    /\ Goto(t, "puts")
    /\ UNCHANGED <<cells, start, end, current, hw, want, torn>>

NextChar(t) ==
    /\ pc[t] = "puts" /\ L[t].str # <<>>
    /\ SetLocals(t, [L[t] EXCEPT !.c = Head(L[t].str), !.str = Tail(@)])
    /\ Goto(t, "putc")
    /\ UNCHANGED <<video, want, torn>>

LeavePuts(t) ==
    /\ pc[t] = "puts" /\ L[t].str = <<>>
    /\ hw' = IF L[t].copy THEN current ELSE hw
    /\ update_cursor_bool' = L[t].copy
    /\ Goto(t, IF L[t].at = 0 THEN "idle" ELSE "leave puts_at")
    /\ UNCHANGED <<cells, start, end, current, L, want, torn>>

LeavePutsAt(t) ==
    /\ pc[t] = "leave puts_at"
    /\ start' = L[t].prev[1] /\ end' = L[t].prev[2] /\ current' = L[t].prev[3]
    /\ update_cursor_bool' = TRUE
    /\ Goto(t, "idle")
    /\ UNCHANGED <<cells, hw, L, want, torn>>

-----------------------------------------------------------------------------
(* putc.                                                                   *)

\* The first statement of each case of the switch.
Putc(t) ==
    /\ pc[t] = "putc"
    /\ \/ /\ L[t].c = "\n"
          /\ SetLocals(t, [L[t] EXCEPT !.n = COLUMNS - ((current - start) % COLUMNS),
                                       !.c = Blank])
          /\ Goto(t, "fill")
          /\ UNCHANGED <<cells, current>>
       \/ /\ L[t].c = "\t"
          /\ SetLocals(t, [L[t] EXCEPT !.n = TAB - ((current - start) % TAB),
                                       !.c = Space])
          /\ Goto(t, "fill")
          /\ UNCHANGED <<cells, current>>
       \/ /\ L[t].c = "\\b"
          /\ IF current > start
             THEN /\ current' = current - 1
                  /\ cells' = [cells EXCEPT ![current - 1] = Blank]
                  /\ Goto(t, "erase")
             ELSE Goto(t, "clamp") /\ UNCHANGED <<cells, current>>
          /\ UNCHANGED L
       \/ /\ L[t].c \notin {"\n", "\t", "\\b"}
          /\ cells' = [cells EXCEPT ![current] = L[t].c]
          /\ current' = current + 1
          /\ Goto(t, "clamp")
          /\ UNCHANGED L
    /\ UNCHANGED <<start, end, update_cursor_bool, hw, want, torn>>

FillCell(t) ==
    /\ pc[t] = "fill"
    /\ IF L[t].n > 0 /\ current < end
       THEN /\ cells' = [cells EXCEPT ![current] = L[t].c]
            /\ current' = current + 1
            /\ SetLocals(t, [L[t] EXCEPT !.n = @ - 1])
            /\ UNCHANGED pc
       ELSE Goto(t, "clamp") /\ UNCHANGED <<cells, current, L>>
    /\ UNCHANGED <<start, end, update_cursor_bool, hw, want, torn>>

GoesBackAll == current > start /\ cells[current - 1] = Blank
    \* mutant: into the row above
GoesBack ==
    /\ current > start
    /\ cells[current - 1] = Blank
    /\ (current - start) % COLUMNS # 0

EraseBlank(t) ==
    /\ pc[t] = "erase"
    /\ IF GoesBack
       THEN current' = current - 1 /\ UNCHANGED pc
       ELSE Goto(t, "clamp") /\ UNCHANGED current
    /\ UNCHANGED <<cells, start, end, update_cursor_bool, hw, L, want, torn>>

PastLast == current > end  \* mutant: one cell too late
PastEnd == current >= end
Clamp(t) ==
    /\ pc[t] = "clamp"
    /\ IF current >= start /\ PastEnd
       THEN /\ SetLocals(t, [L[t] EXCEPT
                   !.p1 = start,
                   !.p2 = start + ScrollOver([current |-> current, end |-> end])])
            /\ Goto(t, "scroll")
            /\ UNCHANGED current
       ELSE /\ current' = Max({current, start})
            /\ Goto(t, "show")
            /\ UNCHANGED L
    /\ UNCHANGED <<cells, start, end, update_cursor_bool, hw, want, torn>>

ScrollCell(t) ==
    /\ pc[t] = "scroll"
    /\ IF L[t].p2 < end
       THEN /\ cells' = [cells EXCEPT ![L[t].p1] = cells[L[t].p2]]
            /\ SetLocals(t, [L[t] EXCEPT !.p1 = @ + 1, !.p2 = @ + 1])
            /\ UNCHANGED <<current, pc>>
       ELSE /\ current' = L[t].p1
            /\ Goto(t, "zero")
            /\ UNCHANGED <<cells, L>>
    /\ UNCHANGED <<start, end, update_cursor_bool, hw, want, torn>>

ZeroCell(t) ==
    /\ pc[t] = "zero"
    /\ IF L[t].p1 < end
       THEN /\ cells' = [cells EXCEPT ![L[t].p1] = Zero]
            /\ SetLocals(t, [L[t] EXCEPT !.p1 = @ + 1])
            /\ UNCHANGED pc
       ELSE Goto(t, "show") /\ UNCHANGED <<cells, L>>
    /\ UNCHANGED <<start, end, current, update_cursor_bool, hw, want, torn>>

\* update_crusor, if it is on.
ShowCursor(t) ==
    /\ pc[t] = "show"
    /\ hw' = IF update_cursor_bool THEN current ELSE hw
    /\ Goto(t, Returned(t))
    /\ UNCHANGED <<cells, start, end, current, update_cursor_bool, L, want, torn>>

-----------------------------------------------------------------------------
(* clear_screen.                                                           *)

ClearCell(t) ==
    /\ pc[t] = "clear"
    /\ IF current < end
       THEN /\ cells' = [cells EXCEPT ![current] = Blank]
            /\ current' = current + 1
            /\ UNCHANGED <<hw, pc>>
       ELSE /\ current' = start
            /\ hw' = start
            /\ Goto(t, "idle")
            /\ UNCHANGED cells
    /\ UNCHANGED <<start, end, update_cursor_bool, L, want, torn>>

-----------------------------------------------------------------------------
(* advance_clock's call of puts_at, in the tick.  putc runs in it with the *)
(* cursor of the clock, which is put back; the video controller is not     *)
(* told.                                                                   *)

InPutsAt(t) == L[t].at # 0 /\ pc[t] # "idle"

DrawClockLeavesCursor(time) ==  \* mutant: current is not put back
    /\ cells' = PutsAt(cells, time, ClockAt)
    /\ current' = ClockAt + Len(time)
    /\ update_cursor_bool' = TRUE
    /\ UNCHANGED <<start, end, hw>>
DrawClock(time) ==
    /\ cells' = PutsAt(cells, time, ClockAt)
    /\ update_cursor_bool' = TRUE
    /\ UNCHANGED <<start, end, current, hw>>

Tick == \E time \in Times :
    /\ DrawClock(time)
    /\ want' = [want EXCEPT !.cells = PutsAt(@, time, ClockAt)]
    /\ torn' = (torn \/ \E t \in Threads : InPutsAt(t))
    /\ UNCHANGED <<pc, L>>

ThreadStep(t) ==
    \/ CallPutc(t) \/ CallPuts(t) \/ CallPutsAt(t) \/ PutcAt(t) \/ CallClear(t)
    \/ EnterPutsAt(t) \/ EnterPuts(t) \/ NextChar(t) \/ LeavePuts(t) \/ LeavePutsAt(t)
    \/ Putc(t) \/ FillCell(t) \/ EraseBlank(t) \/ Clamp(t)
    \/ ScrollCell(t) \/ ZeroCell(t) \/ ShowCursor(t) \/ ClearCell(t)

Next == Tick \/ \E t \in Threads : ThreadStep(t)

Spec == Init /\ [][Next]_vars
-----------------------------------------------------------------------------
Idle == \A t \in Threads : pc[t] = "idle"

\* No step writes outside of the screen, and the area printed to is the
\* text or, in puts_at, all of the screen (puts_at, console.c:226-245).
TypeOK ==
    /\ Len(cells) = B_END - 1
    /\ <<start, end>> \in {<<start0, end0>>, <<B_START, B_END>>}
    /\ current \in start..end
    /\ hw \in B_START..B_END - 1
    /\ update_cursor_bool \in BOOLEAN /\ torn \in BOOLEAN

\* Whatever ticks came while it ran, a call of the console leaves the cells
\* and the cursor that the text alone calls for, lines filled, erased and
\* scrolled, with the clock in its place (putc, puts, puts_at, clear_screen
\* against the tick's puts_at).
AsIfAlone ==
    Idle => /\ [cells |-> cells, current |-> current] = want
            /\ <<start, end>> = <<start0, end0>>

\* While text is printed, before and after each step, the title and the
\* rules stay (init_console sets start and end to keep text off them).
FrameIntact ==
    (\A t \in Threads : ~InPutsAt(t)) =>
        \A i \in DOMAIN cells \ (start0..end0 - 1) : cells[i] = want.cells[i]

\* No step of a thread or of the tick leaves the part of the screen it is for.
StaysInside == TypeOK /\ FrameIntact

\* Between calls the video controller shows the cursor where the next
\* character goes, unless a tick came into a thread's puts_at and turned
\* update_cursor_bool on under it (console.c:244).
CursorOffOnlyTorn == Idle /\ hw # current => torn
=============================================================================
