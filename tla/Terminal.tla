------------------------------ MODULE Terminal ------------------------------
(***************************************************************************)
(* A user at the terminal: gets (keyboard.c), which the command prompt     *)
(* reads its lines with, and the loop of the text command (cmd.c), on top  *)
(* of getc.  What they print goes to the screen; putc is one action here   *)
(* (Console takes it step by step).                                        *)
(***************************************************************************)
EXTENDS Keyboard, TextScreen, SequencesExt

CONSTANTS
    MAX_INPUT,   \* size of gets' buffer, 1000 in the code
    MAX_TEXT,    \* characters text takes, and bytes of its page: 4096
    Before       \* bound: what was printed before the first prompt

ASSUME SizesAssumption ==
    /\ MAX_INPUT \in Nat \ {0} /\ MAX_TEXT \in Nat \ {0}
    /\ Before \subseteq Seq(Printable)

VARIABLES
    in,     \* what reads: "gets" or "text", or "prompt" between two lines
    buff,   \* the characters before s, or before buff + n
    screen, \* see TextScreen
    base,   \* the screen when the reading began
    tabbed, \* a tab was typed since then
    plain,  \* none was, and the text did not scroll
    past    \* the last key made the program write behind the buffer

tvars == <<in, buff, screen, base, tabbed, plain, past>>
allvars == <<kvars, tvars>>

Prompt == <<">", " ">>

EmptyScreen == [cells |-> Repeat(Blank, B_END - 1),
                start |-> start0, end |-> end0, current |-> start0]

TInit ==
    /\ KInit
    /\ in = "gets" /\ buff = <<>>
    /\ \E str \in Before : screen = PutS(EmptyScreen, str \o Prompt)
    /\ base = screen
    /\ tabbed = FALSE /\ plain = TRUE /\ past = FALSE

Begin(what, s) ==
    /\ in' = what /\ buff' = <<>>
    /\ screen' = s /\ base' = s
    /\ tabbed' = FALSE /\ plain' = TRUE

Echo(c) ==
    /\ screen' = PutC(screen, c)
    /\ tabbed' = (tabbed \/ c = "\t")
    /\ plain' = (plain /\ c # "\t" /\ Write(screen, c).current < end0)
    /\ UNCHANGED base

KeepScreen == UNCHANGED <<screen, base, tabbed, plain>>

\* Bytes of the buffer are written, at these offsets from its start.
Size == IF in = "text" THEN MAX_TEXT ELSE MAX_INPUT
Store(offsets) == past' = (\E i \in offsets : i >= Size)
-----------------------------------------------------------------------------
(* gets: what is done about the key got.                                   *)

FullLate == Len(buff) >= MAX_INPUT  \* mutant: without max -= 1
Full == Len(buff) >= MAX_INPUT - 1

EndLine ==
    /\ got = "\n" \/ Full
    /\ Echo("\n")
    /\ in' = "prompt"
    /\ Store({Len(buff)})   \* the null
    /\ UNCHANGED buff

EditLine ==
    /\ got # "\n" /\ ~Full
    /\ \/ /\ got = "\\b" /\ buff # <<>>
          /\ buff' = Front(buff)
          /\ Store({Len(buff) - 1})
          /\ Echo("\\b")
       \/ /\ got = "\\b" /\ buff = <<>>
          /\ Store({}) /\ KeepScreen /\ UNCHANGED buff
       \/ /\ got = "\t"
          /\ buff' = buff \o Repeat(Space, Min({TAB - (Len(buff) % TAB),
                                         MAX_INPUT - 1 - Len(buff)}))
          /\ Store(Len(buff)..Len(buff') - 1)
          /\ Echo("\t")
       \/ /\ got \notin NoAscii \cup {"\\b", "\t"}
          /\ buff' = Append(buff, got)
          /\ Store({Len(buff)})
          /\ Echo(got)
       \/ /\ got \in NoAscii
          /\ Store({}) /\ KeepScreen /\ UNCHANGED buff
    /\ UNCHANGED in

Gets == in = "gets" /\ (EndLine \/ EditLine)

\* The command prompt runs the line and asks for another; the line may
\* start the text command.
NextLine ==
    /\ in = "prompt"
    /\ Begin("gets", PutS(screen, Prompt)) \/ Begin("text", screen)
    /\ UNCHANGED <<kvars, past>>

-----------------------------------------------------------------------------
(* text_cmd.                                                               *)

EraseAll(s, n) == PutS(s, Repeat("\\b", n))

\* The null goes to buff + n, before n is counted down: behind the page when n
\* is 4096.
EndText ==
    /\ got = "esc"
    /\ Store({Len(buff)})
    /\ Begin("gets", PutS(PutC(screen, "\n"), Prompt))

EraseText ==
    /\ got = "prtsc"
    /\ screen' = EraseAll(screen, Len(buff))
    /\ Store(1..Len(buff))
    /\ buff' = <<>>
    /\ UNCHANGED <<in, base, tabbed, plain>>

EditText ==
    /\ got \notin {"esc", "prtsc"}
    /\ \/ /\ got = "\\b" /\ buff # <<>>
          /\ Echo("\\b")
          /\ Store({Len(buff)})
          /\ buff' = Front(buff)
       \/ /\ got \notin NoAscii \cup {"\\b"} /\ Len(buff) < MAX_TEXT
          /\ Echo(got)
          /\ Store({Len(buff)})
          /\ buff' = Append(buff, got)
       \/ /\ \/ got = "\\b" /\ buff = <<>>
             \/ got \in NoAscii
             \/ got # "\\b" /\ Len(buff) >= MAX_TEXT
          /\ Store({}) /\ KeepScreen /\ UNCHANGED buff
    /\ UNCHANGED in

Text == in = "text" /\ (EndText \/ EraseText \/ EditText)

Edit ==
    /\ rd = "out" /\ in # "prompt"
    /\ Gets \/ Text
    /\ rd' = "test" /\ got' = "none"
    /\ UNCHANGED <<keyboard, ghosts>>

TNext ==
    \/ (HandleKeystroke \/ HandleTick) /\ UNCHANGED tvars
    \/ in # "prompt" /\ Getc /\ UNCHANGED tvars
    \/ Edit
    \/ NextLine

TSpec == TInit /\ [][TNext]_allvars

\* The clock interrupts for ever, and the thread that reads is switched to
\* again and again (Scheduler's NoStarvation).
FairSpec ==
    /\ TSpec
    /\ WF_allvars(HandleTick /\ UNCHANGED tvars)
    /\ WF_allvars(in # "prompt" /\ Getc /\ UNCHANGED tvars)
    /\ WF_allvars(Edit)
    /\ WF_allvars(NextLine)
-----------------------------------------------------------------------------
\* The types.
SizesOK ==
    /\ {caps, shift, kbhit, raced, tabbed, plain, past} \subseteq BOOLEAN
    /\ kb_status \subseteq ShiftKeys /\ nkeys \in 0..MaxKeys
    /\ rd \in {"test", "sleep", "halt", "clear", "read", "out"}
    /\ Len(owed) <= nkeys
    /\ in \in {"gets", "text", "prompt"}
    /\ Len(buff) <= IF in = "text" THEN MAX_TEXT ELSE MAX_INPUT - 1
    /\ screen.current \in start0..end0 - 1

Seen(c) == IF c = Zero THEN Blank ELSE c

\* The screen shows what is in the buffer, across the ends of rows, new
\* lines and any characters taken back: as long as no tab was typed and the
\* text did not scroll, printing the buffer once gives the same screen and
\* cursor (gets and text_cmd against putc's erasing, console.c:128-134).
ScreenShowsBuffer ==
    plain /\ in # "prompt" =>
        LET s == PutS(base, buff)
        IN  /\ s.current = screen.current
            /\ \A i \in DOMAIN s.cells : Seen(s.cells[i]) = Seen(screen.cells[i])

\* The end of the line that gets reads is before the cursor, scrolled or
\* not, unless a tab was typed: gets counts to the next stop from the start
\* of the line (keyboard.c:201), putc from the edge of the screen.
LineBeforeCursor ==
    in = "gets" /\ ~tabbed =>
        \A i \in 1..Len(buff) :
            LET cell == screen.current - Len(buff) + i - 1
            IN  cell >= start0 => screen.cells[cell] = buff[i]

\* The screen agrees with the buffer.
BufferShown == SizesOK /\ ScreenShowsBuffer /\ LineBeforeCursor

\* Nothing is written behind gets' buffer, whatever is typed or taken back
\* and wherever a tab ends, the null included (keyboard.c:190-216).  Behind
\* the page of text goes a null, and nothing else: when the page is full and a
\* character is taken back, all are, or the text ends (cmd.c:332, 337, 348).
StoresInside ==
    [][rd = "out" /\ rd' = "test" =>
          (past' <=> /\ in = "text" /\ Len(buff) = MAX_TEXT
                     /\ got \in {"\\b", "prtsc", "esc"})]_allvars
=============================================================================
