----------------------------- MODULE Keyboard -------------------------------
(***************************************************************************)
(* The keyboard (keyboard.c): the interrupt handler, which leaves the last *)
(* key in a mailbox of one, and getc, by which a thread takes it.          *)
(*                                                                         *)
(* The handler runs with interrupts off and is one action.  getc tests     *)
(* kbhit, halts, clears kbhit and reads last in steps of their own, with   *)
(* interrupts in between: one that comes after the test and before the     *)
(* halt does not end the halt.  Keys stand for their scancodes; of kb_status    *)
(* only the two shift keys matter.                                         *)
(***************************************************************************)
EXTENDS Integers, Sequences

CONSTANTS
    Keys,    \* bound: the keys that are pressed
    MaxKeys  \* bound: how many are

ShiftKeys == {"lshift", "rshift"}   \* scancodes 42 and 54
NoAscii == ShiftKeys \cup {"caps", "esc", "prtsc"}
Printable == {"a", "1", "\n", "\t", "\\b"}
\* Keys whose make code is between KEYS_COUNT and 127, such as F11: the
\* handler takes it for a break code and clears a byte before kb_status.
\* What lies there depends on the link; no variable of keyboard.c does.
Beyond == {"f11"}

ASSUME KeysAssumption ==
    Keys \subseteq NoAscii \cup Printable \cup Beyond /\ MaxKeys \in Nat

VARIABLES
    caps, shift, kbhit,
    last,        \* a character, or a key, which stands for its code << 8
    kb_status,   \* the shift keys that are marked as pressed
    rd,          \* where the reader is in getc: "test", "sleep" (it found
                 \* nothing and is about to halt), "halt", "clear", "read",
                 \* or "out" of it
    got,         \* what getc returned last
    nkeys,       \* keys pressed so far
    owed,        \* characters typed since the reader last found nothing ...
    raced        \* ... of which one came before another was taken

keyboard == <<caps, shift, kbhit, last, kb_status, nkeys>>
ghosts   == <<owed, raced>>
kvars    == <<keyboard, rd, got, ghosts>>

\* init_keyboard.
KInit ==
    /\ caps = FALSE /\ shift = FALSE /\ kbhit = FALSE
    /\ last = "none" /\ kb_status = {}
    /\ rd = "test" /\ got = "none" /\ nkeys = 0
    /\ owed = <<>> /\ raced = FALSE

\* The four tables from scancodes to characters.
Upper == [key \in {"a", "1"} |-> IF key = "a" THEN "A" ELSE "!"]
ShiftedByEither(key) == key \in {"a", "1"} /\ (caps \/ shift)
    \* mutant: one table for caps and for caps with shift
Shifted(key) ==
    IF key = "a" THEN caps # shift ELSE key = "1" /\ shift
CharOf(key) == IF Shifted(key) THEN Upper[key] ELSE key

-----------------------------------------------------------------------------
(* handle_keystroke.                                                       *)

\* What the key means by what is held down, whatever the handler made of it.
Meant(key) ==
    IF \/ key = "a" /\ caps # (kb_status # {})
       \/ key = "1" /\ kb_status # {}
    THEN Upper[key] ELSE key

Press(key) ==
    /\ nkeys < MaxKeys
    /\ nkeys' = nkeys + 1
    /\ IF key \in Beyond
       THEN UNCHANGED <<last, caps, kb_status, kbhit, ghosts>>
       ELSE /\ last' = CharOf(key)
            /\ caps' = (caps # (key = "caps"))
            /\ kb_status' = kb_status \cup ({key} \cap ShiftKeys)
            /\ kbhit' = TRUE
            /\ owed' = Append(owed, Meant(key))
            /\ raced' = (raced \/ kbhit \/ rd = "read")
    /\ shift' = (kb_status' # {})

Release(key) ==
    /\ key \in kb_status
    /\ kb_status' = kb_status \ {key}
    /\ shift' = (kb_status' # {})
    /\ UNCHANGED <<caps, kbhit, last, nkeys, ghosts>>

\* An interrupt ends the HALT the reader is in, not one it is about to begin.
Woken == rd' = IF rd = "halt" THEN "test" ELSE rd

HandleKeystroke ==
    /\ \/ \E key \in Keys : Press(key)
       \/ \E key \in ShiftKeys : Release(key)
    /\ Woken
    /\ UNCHANGED got

\* An interrupt of the clock.
HandleTickMasked ==  \* mutant: it is masked while the reader waits
    rd = "halt" /\ UNCHANGED kvars
HandleTick == rd = "halt" /\ Woken /\ UNCHANGED <<keyboard, got, ghosts>>

-----------------------------------------------------------------------------
(* getc.                                                                   *)

TestKbhit ==
    /\ rd = "test"
    /\ rd' = IF kbhit THEN "clear" ELSE "sleep"
    /\ IF kbhit THEN UNCHANGED ghosts
       ELSE owed' = <<>> /\ raced' = FALSE
    /\ UNCHANGED <<keyboard, got>>

Halt ==
    /\ rd = "sleep"
    /\ rd' = "halt"
    /\ UNCHANGED <<keyboard, got, ghosts>>

ClearKbhit ==
    /\ rd = "clear"
    /\ kbhit' = FALSE
    /\ rd' = "read"
    /\ UNCHANGED <<caps, shift, last, kb_status, nkeys, got, ghosts>>

ReadLast ==
    /\ rd = "read"
    /\ got' = last
    /\ owed' = IF owed = <<>> THEN owed ELSE Tail(owed)
    /\ rd' = "out"
    /\ UNCHANGED <<keyboard, raced>>

Getc == TestKbhit \/ Halt \/ ClearKbhit \/ ReadLast
-----------------------------------------------------------------------------
\* Keys that come one at a time are returned by getc one at a time, in
\* their order and in the case that caps and the shift keys held make it;
\* a key is lost or returned twice only if it or the next one came before
\* it was taken (handle_keystroke against getc, keyboard.c:166-169).
ReadsWhatWasTyped ==
    [][rd = "read" /\ rd' = "out" /\ ~raced => owed = <<got'>>]_kvars

\* A key does not stay in the mailbox: a reader that looked before the key
\* came and halts after it, so that the key's own interrupt does not wake it,
\* still takes it, by the next tick (keyboard.c:165-168).
KeyTaken == kbhit ~> ~kbhit
=============================================================================
