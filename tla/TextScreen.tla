----------------------------- MODULE TextScreen -----------------------------
(***************************************************************************)
(* What the console's functions (console.c) do to the text on the screen   *)
(* when nothing comes in between.  A screen is a record of the cells, the  *)
(* part of them that is printed to (start and end) and the current cell.   *)
(* Console takes the same functions step by step and is checked against    *)
(* this module; Terminal prints with it.                                   *)
(*                                                                         *)
(* A cell holds a character; its colour is left out, so that a cell with   *)
(* the colour and no character is Blank and one with neither is Zero.      *)
(***************************************************************************)
EXTENDS Integers, Sequences, FiniteSetsExt

CONSTANTS
    COLUMNS, \* NUM_OF_COLUMNS, 80 in the code
    ROWS,    \* NUM_OF_ROWS, 25
    TAB      \* 4

ASSUME ScreenAssumption ==
    /\ {COLUMNS, TAB} \subseteq Nat \ {0}
    /\ ROWS \in Nat /\ ROWS > 4

\* Cells are counted from 1, row by row.
At(row, column) == row * COLUMNS + column + 1
B_START == At(0, 0)
B_END   == At(ROWS, 0)
Blank == "blank"
Zero  == "zero"
Space == " "

\* The part threads print to: between the title with the rule under it and
\* the rule with the clock under it.
start0 == At(2, 0)
end0   == At(ROWS - 2, 0)

Repeat(c, n) == [i \in 1..n |-> c]
Fill(cells, from, to, c) ==
    SubSeq(cells, 1, from - 1) \o Repeat(c, to - from) \o SubSeq(cells, to, Len(cells))

\* How far it is to the next multiple of w.
ToNext(s, w) == w - ((s.current - s.start) % w)

\* Fills the cells up to the next multiple of w, or to the end.
FillTo(s, w, c) ==
    LET to == Min({s.current + ToNext(s, w), s.end})
    IN  [s EXCEPT !.cells = Fill(@, s.current, to, c), !.current = to]

EraseOne(s) ==  \* mutant: the blanks stay
    IF s.current = s.start THEN s
    ELSE [s EXCEPT !.cells[s.current - 1] = Blank, !.current = @ - 1]
\* Takes back a character and the blanks before it in its row.
Erase(s) ==
    IF s.current = s.start THEN s
    ELSE LET p == s.current - 1
             cells == [s.cells EXCEPT ![p] = Blank]
             stops == {q \in s.start..p :
                          \/ (q - s.start) % COLUMNS = 0
                          \/ cells[q - 1] # Blank}
         IN  [s EXCEPT !.cells = cells, !.current = Max(stops)]

\* Moves the text up by rows until the current cell is before the end.
ScrollOver(s) == ((s.current - s.end) \div COLUMNS + 1) * COLUMNS
Scroll(s) ==
    IF s.current < s.end THEN s
    ELSE LET up == ScrollOver(s)
         IN  [s EXCEPT
                !.cells = SubSeq(@, 1, s.start - 1)
                          \o SubSeq(@, s.start + up, s.end - 1) \o Repeat(Zero, up)
                          \o SubSeq(@, s.end, Len(@)),
                !.current = s.end - up]

Write(s, c) ==
    CASE c = "\n"  -> FillTo(s, COLUMNS, Blank)
      [] c = "\t"  -> FillTo(s, TAB, Space)
      [] c = "\\b" -> Erase(s)
      [] OTHER     -> [s EXCEPT !.cells[s.current] = c, !.current = @ + 1]

PutC(s, c) == Scroll(Write(s, c))

\* One character after the other.
PutS(s, str) ==
    LET after[n \in 0..Len(str)] ==
            IF n = 0 THEN s ELSE PutC(after[n - 1], str[n])
    IN  after[Len(str)]

\* The cells after puts_at, which prints as if the whole screen were text.
PutsAt(cells, str, pos) ==
    PutS([cells |-> cells, start |-> B_START, end |-> B_END, current |-> pos], str).cells
=============================================================================
