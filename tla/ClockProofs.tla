---------------------------- MODULE ClockProofs -----------------------------
(***************************************************************************)
(* Proofs about Clock, for every size of its units and its word.           *)
(***************************************************************************)
EXTENDS Clock, TLAPS

\* An integer modulo the word is a word.
LEMMA ModWord == ASSUME NEW i \in Int PROVE i % WORD \in Word
  BY UnitsAssumption, SMT DEF Word

\* The hour that is shown of an hour of the first day.
LEMMA ModHour ==
  ASSUME NEW h \in Nat, h < DAY
  PROVE  h % DAY = h /\ h % 100 = h /\ DAY % DAY = 0
  BY UnitsAssumption, SMT

LEMMA TwoDigits == ASSUME NEW h \in Nat PROVE h % 100 \in Digit
  BY SMT DEF Digit

\* No sum or difference leaves the range of its variable; the screen is
\* right together with that, for it is not redrawn but amended.
TimeOK == hrs \in Word /\ mins \in 0..MINS - 1 /\ secs \in 0..SECS - 1
          /\ ticks \in 0..TICKS - 1 /\ current_time \in Digit \X Nat \X Nat

LEMMA ZeroWord == 0 \in Word /\ <<0, 0, 0, 0>> \in Word \X Word \X Word \X Word
<1>1. 0 \in Word
  BY UnitsAssumption DEF Word
<1> QED BY <1>1

LEMMA InitTypeOK == Init => TypeOK
<1> SUFFICES ASSUME Init PROVE TypeOK
  OBVIOUS
<1> USE UnitsAssumption, AwayAssumption DEF Init
<1>1. /\ ticks \in 0..TICKS - 1 /\ secs \in 0..SECS - 1 /\ mins \in 0..MINS - 1
      /\ n \in 0..MaxWait /\ asked \in 0..MaxWait /\ waited \in 0..MaxWait
      /\ away \in 0..MaxAway /\ k \in 0..3
  OBVIOUS
<1>2. hrs \in Word /\ passed \in Word /\ prev \in Word \X Word \X Word \X Word
  BY ZeroWord
<1>3. current_time \in Digit \X Nat \X Nat
  BY DEF Digit
<1> QED BY <1>1, <1>2, <1>3 DEF TypeOK

LEMMA TickTime ==
  ASSUME TimeOK, CountTime, ShowTime
  PROVE  TimeOK'
<1> USE UnitsAssumption DEF TimeOK
<1>1. ticks' \in 0..TICKS - 1
  BY DEF CountTime, NewSecond
<1>2. secs' \in 0..SECS - 1
  BY DEF CountTime, NewMinute, NewSecond
<1>3. mins' \in 0..MINS - 1
  BY DEF CountTime, NewHour, NewMinute, NewSecond
<1>4. hrs' \in Word
  <2>1. hrs + 1 \in Int
    BY DEF Word
  <2> QED BY <2>1, ModWord DEF CountTime
<1>5. current_time' \in Digit \X Nat \X Nat
  <2>1. hrs' % 100 \in Digit
    <3>1. hrs' \in Nat
      BY <1>4 DEF Word
    <3> QED BY <3>1, TwoDigits
  <2>2. CASE NewHour
    BY <2>1, <2>2 DEF ShowTime, ShownHour, Digit
  <2>3. CASE NewMinute /\ ~NewHour
    BY <1>3, <2>3 DEF ShowTime, ShownMinute
  <2>4. CASE NewSecond /\ ~NewMinute /\ ~NewHour
    BY <1>2, <2>4 DEF ShowTime
  <2>5. CASE ~NewSecond
    BY <2>5 DEF ShowTime, NewMinute, NewHour
  <2> QED BY <2>2, <2>3, <2>4, <2>5 DEF NewMinute, NewHour
<1> QED BY <1>1, <1>2, <1>3, <1>4, <1>5

LEMMA StepTypeOK == TypeOK /\ [Next]_vars => TypeOK'
<1> SUFFICES ASSUME TypeOK, [Next]_vars PROVE TypeOK'
  OBVIOUS
<1> USE UnitsAssumption, AwayAssumption DEF TypeOK
<1>0. TimeOK
  BY DEF TimeOK
<1>1. CASE HandleTick
  <2>1. TimeOK'
    BY <1>0, <1>1, TickTime DEF HandleTick
  <2>2. /\ pc' \in {"returned", "prev", "poll", "halt", "passed"}
        /\ away' \in 0..MaxAway /\ waited' \in 0..MaxWait /\ torn' \in BOOLEAN
    BY <1>1 DEF HandleTick, Wake
  <2> QED BY <1>1, <2>1, <2>2 DEF HandleTick, TimeOK
<1>2. ASSUME NEW m \in 1..MaxWait, WaitTicks(m) PROVE TypeOK'
  <2>1. /\ k' \in 0..3 /\ n' \in 0..MaxWait /\ asked' \in 0..MaxWait
        /\ waited' \in 0..MaxWait /\ away' \in 0..MaxAway
    <3>1. k' = 0 /\ n' = m /\ asked' = m /\ waited' = 0 /\ away' = 0
      BY <1>2 DEF WaitTicks
    <3> QED BY <3>1
  <2>3. torn' \in BOOLEAN
    BY <1>2 DEF WaitTicks
  <2>2. passed' \in Word /\ prev' \in Word \X Word \X Word \X Word
    <3>1. passed' = 0 /\ prev' = <<0, 0, 0, 0>>
      BY <1>2 DEF WaitTicks
    <3> QED BY <3>1, ZeroWord
  <2> QED BY <1>2, <2>1, <2>2, <2>3 DEF WaitTicks, clock
<1>3. counter \in Word \X Word \X Word \X Word
  BY DEF counter, Word
<1>4. CASE ReadPrev
  <2>1. k \in {0, 1, 2, 3}
    OBVIOUS
  <2>2. prev' \in Word \X Word \X Word \X Word
    BY <1>3, <1>4, <2>1 DEF ReadPrev
  <2>3. k' \in 0..3
    BY <1>4, <2>1 DEF ReadPrev
  <2> QED BY <1>4, <2>2, <2>3 DEF ReadPrev, Step, clock
<1>5. CASE Poll
  <2>1. k' \in 0..3 /\ pc' \in {"poll", "halt", "passed"}
    BY <1>5 DEF Poll
  <2> QED BY <1>5, <2>1 DEF Poll, Step, clock
<1>6. CASE Interrupt
  BY <1>6 DEF Interrupt, Wake, clock
<1>7. ASSUME NEW i \in 1..4 PROVE Passed(i) \in Word
  <2>1. counter[i] \in Int /\ prev[i] \in Int /\ passed \in Int
    BY <1>3 DEF Word
  <2>2. (IF i = 4 THEN 0 ELSE passed * Base[i]) \in Int
    BY <2>1 DEF Base
  <2> DEFINE a == IF i = 4 THEN 0 ELSE passed * Base[i]
             d == a + counter[i] - prev[i]
  <2>3. d \in Int
    <3> HIDE DEF a
    <3>1. a \in Int
      BY <2>2 DEF a
    <3> QED BY <2>1, <3>1
  <2> HIDE DEF d
  <2>4. d % WORD \in Word
    BY <2>3, ModWord
  <2> QED BY <2>4 DEF Passed, d
<1>8. CASE ReadPassed
  <2>1. passed' \in Word
    <3>1. 4 - k \in 1..4
      OBVIOUS
    <3> QED BY <1>7, <1>8, <3>1 DEF ReadPassed
  <2> QED BY <1>8, <2>1 DEF ReadPassed, Step, clock
<1>9. CASE CountPassed
  <2>1. passed' \in Word
    BY <1>7, <1>9 DEF CountPassed
  <2>2. n' \in 0..MaxWait /\ pc' \in {"returned", "prev"}
    BY <1>9, <2>1 DEF CountPassed, Left, Word
  <2> QED BY <1>9, <2>1, <2>2 DEF CountPassed, Step, clock
<1>10. CASE UNCHANGED vars
  BY <1>10 DEF vars, clock, thread
<1> QED
  BY <1>1, <1>2, <1>4, <1>5, <1>6, <1>8, <1>9, <1>10 DEF Next, Thread

\* The counters and what wait_ticks computes from them stay in their ranges
\* (time.c:77-141, 175-197).
THEOREM TypeCorrect == Spec => []TypeOK
<1> QED BY InitTypeOK, StepTypeOK, PTL DEF Spec

-----------------------------------------------------------------------------

LEMMA TickShows ==
  ASSUME TypeOK, ShowsTime, CountTime, ShowTime
  PROVE  ShowsTime'
<1> USE UnitsAssumption DEF TypeOK
<1> SUFFICES ASSUME hrs' <= DAY
             PROVE  current_time' = <<hrs' % DAY, mins', secs'>>
  BY DEF ShowsTime
<1>1. CASE NewHour
  <2>1. mins' = 0 /\ secs' = 0 /\ hrs' \in Nat
    <3>1. hrs + 1 \in Int /\ hrs' = (hrs + 1) % WORD
      BY <1>1 DEF CountTime, Word
    <3>2. hrs' \in Word
      BY <3>1, ModWord
    <3> QED BY <1>1, <3>2 DEF CountTime, NewHour, NewMinute, NewSecond, Word
  <2>2. CASE hrs' < DAY
    BY <1>1, <2>1, <2>2, ModHour DEF ShowTime, ShownHour
  <2>3. CASE hrs' = DAY
    <3>1. DAY % DAY = 0
      BY ModHour
    <3> QED BY <1>1, <2>1, <2>3, <3>1 DEF ShowTime, ShownHour
  <2> QED BY <2>1, <2>2, <2>3
<1>2. CASE ~NewHour
  <2>1. hrs' = hrs
    BY <1>2 DEF CountTime
  <2>2. current_time = <<hrs % DAY, mins, secs>>
    BY <2>1 DEF ShowsTime
  <2>3. CASE NewMinute
    BY <1>2, <2>1, <2>2, <2>3 DEF CountTime, ShowTime, ShownMinute
  <2>4. CASE NewSecond /\ ~NewMinute
    BY <1>2, <2>1, <2>2, <2>4 DEF CountTime, ShowTime
  <2>5. CASE ~NewSecond
    BY <1>2, <2>1, <2>2, <2>5 DEF CountTime, ShowTime, NewMinute
  <2> QED BY <2>3, <2>4, <2>5
<1> QED BY <1>1, <1>2

LEMMA StepShows == TypeOK /\ ShowsTime /\ [Next]_vars => ShowsTime'
<1> SUFFICES ASSUME TypeOK, ShowsTime, [Next]_vars PROVE ShowsTime'
  OBVIOUS
<1>1. CASE HandleTick
  BY <1>1, TickShows DEF HandleTick
<1>2. CASE UNCHANGED clock
  BY <1>2 DEF clock, ShowsTime
<1>3. HandleTick \/ UNCHANGED clock
  BY DEF Next, Thread, WaitTicks, ReadPrev, Poll, Interrupt, ReadPassed,
         CountPassed, Step, vars
<1> QED BY <1>1, <1>2, <1>3

\* The digits on the screen are the time of day, for the first day and the
\* hour after it, whatever ticks, seconds and minutes there are (time.c:110-139).
THEOREM ClockRight == Spec => []ShowsTime
<1>1. Init => ShowsTime
  <2>1. 0 % DAY = 0
    BY UnitsAssumption, ModHour
  <2> QED BY <2>1 DEF Init, ShowsTime
<1> QED BY <1>1, InitTypeOK, StepTypeOK, StepShows, PTL DEF Spec

-----------------------------------------------------------------------------
(* wait_ticks: the time since it read prev_ticks.                          *)

\* A counter that was p has counted d more, and is x after c carries of u.
Carry(x, c, u, p, d) == x + c * u = p + d

\* The hours, of which h have begun since p.
Hour(x, p, h) == x = (p + h) % WORD

\* That e ticks, and with them s seconds, m minutes and h hours have begun
\* since the counters were what is in prev.
Since(e, s, m, h) ==
    /\ Carry(ticks, s, TICKS, prev[1], e)
    /\ Carry(secs, m, SECS, prev[2], s)
    /\ Carry(mins, h, MINS, prev[3], m)
    /\ Hour(hrs, prev[4], h)

\* What was counted and these e ticks are no more than the time waited.
Counted(e) == waited = asked \/ asked - n + e <= waited

\* While prev is read, nothing carries; of passed, each unit is computed as
\* the number of times it began.
Waiting(e, s, m, h) ==
    /\ Counted(e)
    /\ pc = "prev" => /\ k = 0 => e = 0
                      /\ k >= 1 => ticks = prev[1] + e
                      /\ k >= 2 => prev[2] = secs
                      /\ k >= 3 => prev[3] = mins
    /\ pc # "prev" => Since(e, s, m, h)
    /\ pc = "passed" => /\ k = 1 => passed = h % WORD
                        /\ k = 2 => passed = m % WORD
                        /\ k = 3 => passed = s % WORD

Honest == pc # "returned" /\ ~torn => \E e, s, m, h \in Nat : Waiting(e, s, m, h)

EarlyInv == /\ waited <= asked
            /\ Honest
            /\ EarlyOnlyTorn

\* Dividing with a remainder.
LEMMA Euclid ==
    ASSUME NEW w \in Nat, w > 0, NEW x \in Int
    PROVE  \E q \in Int, r \in Int : 0 <= r /\ r < w /\ x % w = r /\ x = w * q + r
<1>1. x \div w \in Int
  BY Z3
<1>2. x % w \in Int /\ 0 <= x % w /\ x % w < w
  BY Z3
<1>3. x = w * (x \div w) + (x % w)
  BY Z3
<1>4. \E q \in Int, r \in Int : q = x \div w /\ r = x % w
  BY <1>1, <1>2, Zenon
<1> QED BY <1>1, <1>2, <1>3, Zenon

\* A remainder is the only number of its class below the divisor.
LEMMA ModUnique ==
    ASSUME NEW w \in Nat, w > 0, NEW q \in Int, NEW r \in Int, 0 <= r, r < w
    PROVE  (w * q + r) % w = r
<1> DEFINE y == w * q + r
<1>1. y \in Int
  OBVIOUS
<1> HIDE DEF y
<1>2. PICK p \in Int, s \in Int : 0 <= s /\ s < w /\ y % w = s /\ y = w * p + s
  BY <1>1, Euclid
<1>3. y % w = r
  <2>1. w * (q - p) = s - r
    BY <1>2 DEF y
  <2>2. CASE q > p
    <3>1. w * (q - p) >= w
      BY <2>2
    <3> QED BY <3>1, <2>1, <1>2
  <2>3. CASE q < p
    <3>1. w * (q - p) <= -w
      BY <2>3
    <3> QED BY <3>1, <2>1, <1>2
  <2>4. CASE q = p
    <3>1. w * (q - p) = 0
      BY <2>4
    <3> QED BY <3>1, <2>1, <1>2
  <2> QED BY <2>2, <2>3, <2>4
<1> QED BY <1>3 DEF y

\* Multiples of the word do not count.
LEMMA ModShift ==
    ASSUME NEW w \in Nat, w > 0, NEW x \in Int, NEW q \in Int
    PROVE  (x + w * q) % w = x % w
<1>1. PICK p \in Int, r \in Int : 0 <= r /\ r < w /\ x % w = r /\ x = w * p + r
  BY Euclid
<1>2. x + w * q = w * (p + q) + r
  BY <1>1
<1>3. p + q \in Int
  OBVIOUS
<1>4. (w * (p + q) + r) % w = r
  BY <1>1, <1>3, ModUnique
<1> QED BY <1>1, <1>2, <1>4

LEMMA Units ==
    /\ TICKS \in Nat /\ SECS \in Nat /\ MINS \in Nat
    /\ WORD \in Nat /\ WORD > 0 /\ MaxWait \in Nat
  BY UnitsAssumption

\* A factor of a sum may be taken modulo the word first.
Reduced(a, m, b) == ((a % WORD) * m + b) % WORD
Full(a, m, b)    == (a * m + b) % WORD

LEMMA ModMul ==
    ASSUME NEW a \in Int, NEW m \in Int, NEW b \in Int
    PROVE  Reduced(a, m, b) = Full(a, m, b)
<1>1. PICK p \in Int, r \in Int : 0 <= r /\ r < WORD /\ a % WORD = r /\ a = WORD * p + r
  BY Units, Euclid
<1>2. PICK y \in Int, z \in Int : y = r * m + b /\ z = p * m
  BY <1>1
<1>3. a * m + b = y + WORD * z
  BY <1>1, <1>2, Units
<1>4. (y + WORD * z) % WORD = y % WORD
  BY <1>2, Units, ModShift
<1> QED BY <1>1, <1>2, <1>3, <1>4 DEF Reduced, Full

LEMMA Counters ==
    ASSUME TypeOK
    PROVE  /\ ticks \in Nat /\ secs \in Nat /\ mins \in Nat /\ hrs \in Nat /\ hrs < WORD
           /\ prev[1] \in Nat /\ prev[2] \in Nat /\ prev[3] \in Nat /\ prev[4] \in Nat
           /\ k \in {0, 1, 2, 3} /\ passed \in Nat
           /\ n \in Nat /\ asked \in Nat /\ waited \in Nat
<1>1. k \in {0, 1, 2, 3}
  BY DEF TypeOK
<1> QED BY <1>1, Units DEF TypeOK, Word

\* A carry, or none.
LEMMA OneMore ==
    ASSUME NEW x \in Int, NEW u \in Int, NEW p \in Int, NEW c \in Int, NEW d \in Int,
           Carry(x, c, u, p, d)
    PROVE  /\ Carry(x + 1, c, u, p, d + 1)
           /\ x + 1 = u => Carry(0, c + 1, u, p, d + 1)
<1>1. PICK a \in Int : a = c * u
  OBVIOUS
<1>2. (c + 1) * u = a + u
  BY <1>1
<1> QED BY <1>1, <1>2 DEF Carry

\* What wait_ticks computes of it, from c modulo the word.
Difference(x, c, u, p) == ((c % WORD) * u + x - p) % WORD

LEMMA Carried ==
    ASSUME NEW x \in Int, NEW u \in Int, NEW p \in Int, NEW c \in Int, NEW d \in Int,
           Carry(x, c, u, p, d)
    PROVE  Difference(x, c, u, p) = d % WORD
<1>1. PICK b \in Int : b = x - p
  OBVIOUS
<1>2. Reduced(c, u, b) = Full(c, u, b)
  BY <1>1, ModMul
<1>3. PICK a \in Int : a = c * u
  OBVIOUS
<1>4. c * u + b = d
  BY <1>1, <1>3 DEF Carry
<1>5. PICK f \in Int : f = (c % WORD) * u
  <2>1. c % WORD \in Int
    BY Units
  <2> QED BY <2>1
<1>6. (c % WORD) * u + x - p = (c % WORD) * u + b
  BY <1>1, <1>5
<1> QED BY <1>2, <1>4, <1>6 DEF Difference, Reduced, Full

\* The hours go round with the word.
LEMMA Hours ==
    ASSUME NEW p \in Int, NEW h \in Int, NEW b \in Int
    PROVE  (((p + h) % WORD) + b) % WORD = (p + h + b) % WORD
<1>1. PICK a \in Int : a = p + h
  OBVIOUS
<1>2. PICK r \in Int : r = a % WORD
  BY <1>1, Units
<1>3. Reduced(a, 1, b) = Full(a, 1, b)
  BY <1>1, ModMul
<1>4. (r + b) % WORD = (a + b) % WORD
  BY <1>1, <1>2, <1>3 DEF Reduced, Full
<1> QED BY <1>1, <1>2, <1>4

LEMMA HoursPassed ==
    ASSUME NEW x, NEW p \in Int, NEW h \in Int, Hour(x, p, h)
    PROVE  Hour((x + 1) % WORD, p, h + 1) /\ (0 + x - p) % WORD = h % WORD
<1>0. x = (p + h) % WORD
  BY DEF Hour
<1>1. x \in Int
  BY <1>0, Units
<1>2. (x + 1) % WORD = (p + h + 1) % WORD
  BY <1>0, Hours
<1>3. PICK b \in Int : b = 0 - p
  OBVIOUS
<1>4. (x + b) % WORD = (p + h + b) % WORD
  BY <1>0, <1>3, Hours
<1>5. p + h + 1 = p + (h + 1) /\ p + h + b = h /\ 0 + x - p = x + b
  BY <1>1, <1>3
<1> QED BY <1>2, <1>4, <1>5 DEF Hour

\* A tick begins what it carries to.
LEMMA TickSince ==
    ASSUME TypeOK, CountTime, UNCHANGED prev,
           NEW e \in Nat, NEW s \in Nat, NEW m \in Nat, NEW h \in Nat, Since(e, s, m, h)
    PROVE  \E s1, m1, h1 \in Nat :
              /\ Since(e + 1, s1, m1, h1)'
              /\ ~NewSecond => s1 = s /\ m1 = m /\ h1 = h
<1>0. prev' = prev /\ s + 1 \in Nat /\ m + 1 \in Nat /\ h + 1 \in Nat
  OBVIOUS
<1>1. /\ Carry(ticks, s, TICKS, prev[1], e)
      /\ Carry(secs, m, SECS, prev[2], s)
      /\ Carry(mins, h, MINS, prev[3], m)
      /\ Hour(hrs, prev[4], h)
  BY DEF Since
<1>T. /\ ticks \in Int /\ secs \in Int /\ mins \in Int /\ e \in Int /\ s \in Int /\ m \in Int
      /\ h \in Int /\ TICKS \in Int /\ SECS \in Int /\ MINS \in Int
      /\ prev[1] \in Int /\ prev[2] \in Int /\ prev[3] \in Int /\ prev[4] \in Int
  BY Units, Counters
<1>2. /\ Carry(ticks + 1, s, TICKS, prev[1], e + 1)
      /\ ticks + 1 = TICKS => Carry(0, s + 1, TICKS, prev[1], e + 1)
  BY <1>1, <1>T, OneMore
<1>3. /\ Carry(secs + 1, m, SECS, prev[2], s + 1)
      /\ secs + 1 = SECS => Carry(0, m + 1, SECS, prev[2], s + 1)
  BY <1>1, <1>T, OneMore
<1>4. /\ Carry(mins + 1, h, MINS, prev[3], m + 1)
      /\ mins + 1 = MINS => Carry(0, h + 1, MINS, prev[3], m + 1)
  BY <1>1, <1>T, OneMore
<1>5. Hour((hrs + 1) % WORD, prev[4], h + 1)
  BY <1>1, <1>T, HoursPassed
<1>6. CASE ~NewSecond
  <2>1. ticks' = ticks + 1 /\ secs' = secs /\ mins' = mins /\ hrs' = hrs
    BY <1>6 DEF CountTime, NewHour, NewMinute
  <2>2. Since(e + 1, s, m, h)'
    BY <2>1, <1>0, <1>1, <1>2, Zenon DEF Since
  <2> QED BY <2>2
<1>7. CASE NewSecond /\ ~NewMinute
  <2>1. ticks' = 0 /\ ticks + 1 = TICKS /\ secs' = secs + 1 /\ mins' = mins /\ hrs' = hrs
    BY <1>7 DEF CountTime, NewHour, NewSecond
  <2>2. Since(e + 1, s + 1, m, h)'
    BY <2>1, <1>0, <1>1, <1>2, <1>3, Zenon DEF Since
  <2> QED BY <1>0, <1>7, <2>2
<1>8. CASE NewMinute /\ ~NewHour
  <2>1. /\ ticks' = 0 /\ ticks + 1 = TICKS /\ secs' = 0 /\ secs + 1 = SECS
        /\ mins' = mins + 1 /\ hrs' = hrs /\ NewSecond
    BY <1>8 DEF CountTime, NewMinute, NewSecond
  <2>2. Since(e + 1, s + 1, m + 1, h)'
    BY <2>1, <1>0, <1>1, <1>2, <1>3, <1>4, Zenon DEF Since
  <2> QED BY <1>0, <2>1, <2>2
<1>9. CASE NewHour
  <2>1. /\ ticks' = 0 /\ ticks + 1 = TICKS /\ secs' = 0 /\ secs + 1 = SECS
        /\ mins' = 0 /\ mins + 1 = MINS /\ hrs' = (hrs + 1) % WORD /\ NewSecond
    BY <1>9 DEF CountTime, NewHour, NewMinute, NewSecond
  <2>2. Since(e + 1, s + 1, m + 1, h + 1)'
    BY <2>1, <1>0, <1>2, <1>3, <1>4, <1>5, Zenon DEF Since
  <2> QED BY <1>0, <2>1, <2>2
<1> QED BY <1>6, <1>7, <1>8, <1>9 DEF NewHour, NewMinute

LEMMA TickEarly ==
    ASSUME TypeOK, EarlyInv, HandleTick
    PROVE  EarlyInv'
<1> USE Units, Counters
<1>1. /\ UNCHANGED <<k, prev, passed, n, asked>> /\ CountTime
      /\ waited' = IF waited < asked THEN waited + 1 ELSE waited
      /\ torn' = (torn \/ (NewSecond /\ pc \in {"prev", "passed"} /\ k > 0))
      /\ pc' = IF pc = "halt" THEN "poll" ELSE pc
  BY DEF HandleTick, Wake
<1>2. waited' <= asked'
  BY <1>1 DEF EarlyInv
<1>3. EarlyOnlyTorn'
  <2>1. pc' = "returned" => pc = "returned"
    BY <1>1
  <2>2. torn => torn'
    BY <1>1
  <2>3. waited = asked => waited' = asked'
    BY <1>1
  <2> QED BY <2>1, <2>2, <2>3 DEF EarlyInv, EarlyOnlyTorn
<1>4. ASSUME pc # "returned", ~torn' PROVE \E e, s, m, h \in Nat : Waiting(e, s, m, h)'
  <2>1. PICK e, s, m, h \in Nat : Waiting(e, s, m, h)
    BY <1>1, <1>4 DEF EarlyInv, Honest
  <2>2. Counted(e + 1)' /\ (e = 0 => Counted(0)')
    BY <2>1, <1>1, <1>2 DEF Waiting, Counted
  <2> e + 1 \in Nat
    OBVIOUS
  <2>3. CASE pc = "prev"
    <3>0. pc' = "prev" /\ k' = k
      BY <2>3, <1>1
    <3>1. CASE k = 0
      <4>1. e = 0 /\ Counted(0)'
        BY <3>1, <2>1, <2>2, <2>3 DEF Waiting
      <4>2. Waiting(0, s, m, h)'
        BY <4>1, <3>0, <3>1 DEF Waiting
      <4> QED BY <4>2
    <3>2. CASE k >= 1
      <4>1. ticks' = ticks + 1 /\ secs' = secs /\ mins' = mins
        <5>1. ~NewSecond
          <6>1. k > 0
            BY <3>2
          <6> QED BY <6>1, <2>3, <1>1, <1>4
        <5>2. ~NewMinute /\ ~NewHour
          BY <5>1 DEF NewMinute, NewHour
        <5> QED BY <5>1, <5>2, <1>1, Zenon DEF CountTime
      <4>2. prev' = prev /\ ticks = prev[1] + e
        BY <3>2, <2>1, <2>3, <1>1 DEF Waiting
      <4>3. ticks' = prev'[1] + (e + 1)
        BY <4>1, <4>2
      <4>4. (k >= 2 => prev[2] = secs) /\ (k >= 3 => prev[3] = mins)
        BY <2>1, <2>3 DEF Waiting
      <4>5. Waiting(e + 1, s, m, h)'
        BY <4>1, <4>2, <4>3, <4>4, <3>0, <3>2, <2>2 DEF Waiting
      <4> QED BY <4>5
    <3> QED BY <3>1, <3>2
  <2>4. CASE pc # "prev"
    <3>1. PICK s1, m1, h1 \in Nat : /\ Since(e + 1, s1, m1, h1)'
                                    /\ ~NewSecond => s1 = s /\ m1 = m /\ h1 = h
      BY <2>1, <2>4, <1>1, TickSince DEF Waiting
    <3>2. pc = "passed" /\ k > 0 => ~NewSecond
      BY <1>1, <1>4
    <3>3. pc' # "prev" /\ (pc' = "passed" => pc = "passed")
      BY <2>4, <1>1
    <3>4. pc = "passed" => /\ k = 1 => passed = h % WORD
                           /\ k = 2 => passed = m % WORD
                           /\ k = 3 => passed = s % WORD
      BY <2>1 DEF Waiting
    <3>5. pc' = "passed" => /\ k' = 1 => passed' = h1 % WORD
                            /\ k' = 2 => passed' = m1 % WORD
                            /\ k' = 3 => passed' = s1 % WORD
      <4>1. CASE pc = "passed" /\ k > 0
        <5>1. s1 = s /\ m1 = m /\ h1 = h
          BY <4>1, <3>1, <3>2
        <5> QED BY <5>1, <3>4, <4>1, <1>1
      <4>2. CASE ~(pc = "passed" /\ k > 0)
        BY <4>2, <3>3, <1>1
      <4> QED BY <4>1, <4>2
    <3>6. Waiting(e + 1, s1, m1, h1)'
      BY <3>1, <3>3, <3>5, <2>2 DEF Waiting
    <3> QED BY <3>6
  <2> QED BY <2>3, <2>4
<1> QED BY <1>1, <1>2, <1>3, <1>4 DEF EarlyInv, Honest

\* passed counts, modulo the word, how often each unit has begun.
LEMMA PassedCounts ==
    ASSUME TypeOK, NEW e \in Nat, NEW s \in Nat, NEW m \in Nat, NEW h \in Nat,
           Since(e, s, m, h)
    PROVE  /\ Passed(4) = h % WORD
           /\ passed = h % WORD => Passed(3) = m % WORD
           /\ passed = m % WORD => Passed(2) = s % WORD
           /\ passed = s % WORD => Passed(1) = e % WORD
<1>1. /\ Carry(ticks, s, TICKS, prev[1], e)
      /\ Carry(secs, m, SECS, prev[2], s)
      /\ Carry(mins, h, MINS, prev[3], m)
      /\ Hour(hrs, prev[4], h)
  BY DEF Since
<1>2. /\ ticks \in Int /\ secs \in Int /\ mins \in Int /\ e \in Int /\ s \in Int /\ m \in Int
      /\ h \in Int /\ TICKS \in Int /\ SECS \in Int /\ MINS \in Int
      /\ prev[1] \in Int /\ prev[2] \in Int /\ prev[3] \in Int /\ prev[4] \in Int
  BY Units, Counters
<1>3. /\ Passed(4) = (0 + hrs - prev[4]) % WORD
      /\ Passed(3) = (passed * MINS + mins - prev[3]) % WORD
      /\ Passed(2) = (passed * SECS + secs - prev[2]) % WORD
      /\ Passed(1) = (passed * TICKS + ticks - prev[1]) % WORD
  <2>1. counter[1] = ticks /\ counter[2] = secs /\ counter[3] = mins /\ counter[4] = hrs
    BY DEF counter
  <2>2. Base[1] = TICKS /\ Base[2] = SECS /\ Base[3] = MINS
    BY DEF Base
  <2>3. Passed(4) = (0 + hrs - prev[4]) % WORD
    BY <2>1 DEF Passed
  <2>4. /\ Passed(3) = (passed * MINS + mins - prev[3]) % WORD
        /\ Passed(2) = (passed * SECS + secs - prev[2]) % WORD
        /\ Passed(1) = (passed * TICKS + ticks - prev[1]) % WORD
    BY <2>1, <2>2 DEF Passed
  <2> QED BY <2>3, <2>4
<1>4. Passed(4) = h % WORD
  BY <1>1, <1>2, <1>3, HoursPassed
<1>5. passed = h % WORD => Passed(3) = m % WORD
  <2>1. Difference(mins, h, MINS, prev[3]) = m % WORD
    BY <1>1, <1>2, Carried
  <2> QED BY <2>1, <1>3 DEF Difference
<1>6. passed = m % WORD => Passed(2) = s % WORD
  <2>1. Difference(secs, m, SECS, prev[2]) = s % WORD
    BY <1>1, <1>2, Carried
  <2> QED BY <2>1, <1>3 DEF Difference
<1>7. passed = s % WORD => Passed(1) = e % WORD
  <2>1. Difference(ticks, s, TICKS, prev[1]) = e % WORD
    BY <1>1, <1>2, Carried
  <2> QED BY <2>1, <1>3 DEF Difference
<1> QED BY <1>4, <1>5, <1>6, <1>7

\* A remainder is no larger than the number.
LEMMA ModLess == ASSUME NEW e \in Nat PROVE e % WORD \in Nat /\ e % WORD <= e
<1>1. PICK q \in Int, r \in Int : 0 <= r /\ r < WORD /\ e % WORD = r /\ e = WORD * q + r
  BY Units, Euclid
<1>2. CASE q < 0
  <2>1. WORD * q <= -WORD
    BY <1>2, Units
  <2> QED BY <2>1, <1>1, Units
<1>3. CASE q >= 0
  <2>1. WORD * q >= 0
    BY <1>3, Units
  <2> QED BY <2>1, <1>1, Units
<1> QED BY <1>2, <1>3

\* wait_ticks reads the counters one by one, and the first difference ends
\* its halts.
LEMMA ReadPrevEarly ==
    ASSUME TypeOK, EarlyInv, ReadPrev
    PROVE  EarlyInv'
<1> USE Units, Counters
<1>1. /\ UNCHANGED <<clock, waited, torn, passed, n, asked>> /\ pc = "prev"
      /\ prev' = [prev EXCEPT ![k + 1] = counter[k + 1]]
      /\ k' = (k + 1) % 4
      /\ pc' = IF k = 3 THEN "poll" ELSE "prev"
  BY DEF ReadPrev, Step
<1>2. ticks' = ticks /\ secs' = secs /\ mins' = mins /\ hrs' = hrs
  BY <1>1 DEF clock
<1>P. prev \in Word \X Word \X Word \X Word
  BY DEF TypeOK
<1>C. counter[1] = ticks /\ counter[2] = secs /\ counter[3] = mins /\ counter[4] = hrs
  BY DEF counter
<1>3. ASSUME ~torn PROVE \E e, s, m, h \in Nat : Waiting(e, s, m, h)'
  <2>1. PICK e, s, m, h \in Nat : Waiting(e, s, m, h)
    BY <1>1, <1>3 DEF EarlyInv, Honest
  <2>2. Counted(e)'
    BY <2>1, <1>1 DEF Waiting, Counted
  <2>3. CASE k = 0
    <3>0. prev' = [prev EXCEPT ![1] = counter[1]]
      BY <2>3, <1>1
    <3>1. prev'[1] = ticks /\ k' = 1 /\ pc' = "prev"
      BY <2>3, <3>0, <1>1, <1>P, <1>C
    <3>2. Waiting(e, s, m, h)'
      BY <3>1, <2>1, <2>2, <2>3, <1>1, <1>2 DEF Waiting
    <3> QED BY <3>2
  <2>4. CASE k = 1
    <3>0. prev' = [prev EXCEPT ![2] = counter[2]]
      BY <2>4, <1>1
    <3>1. prev'[1] = prev[1] /\ prev'[2] = secs /\ k' = 2 /\ pc' = "prev"
      BY <2>4, <3>0, <1>1, <1>P, <1>C
    <3>2. Waiting(e, s, m, h)'
      BY <3>1, <2>1, <2>2, <2>4, <1>1, <1>2 DEF Waiting
    <3> QED BY <3>2
  <2>5. CASE k = 2
    <3>0. prev' = [prev EXCEPT ![3] = counter[3]]
      BY <2>5, <1>1
    <3>1. prev'[1] = prev[1] /\ prev'[2] = prev[2] /\ prev'[3] = mins /\ k' = 3 /\ pc' = "prev"
      BY <2>5, <3>0, <1>1, <1>P, <1>C
    <3>2. Waiting(e, s, m, h)'
      BY <3>1, <2>1, <2>2, <2>5, <1>1, <1>2 DEF Waiting
    <3> QED BY <3>2
  <2>6. CASE k = 3
    <3>0. prev' = [prev EXCEPT ![4] = counter[4]]
      BY <2>6, <1>1
    <3>1. /\ prev'[1] = prev[1] /\ prev'[2] = prev[2] /\ prev'[3] = prev[3]
          /\ prev'[4] = hrs /\ pc' = "poll"
      BY <2>6, <3>0, <1>1, <1>P, <1>C
    <3>2. ticks = prev[1] + e /\ prev[2] = secs /\ prev[3] = mins
      BY <2>1, <2>6, <1>1 DEF Waiting
    <3>3. (hrs + 0) % WORD = hrs
      <4>1. (WORD * 0 + hrs) % WORD = hrs
        <5>1. 0 \in Int /\ hrs \in Int /\ 0 <= hrs
          OBVIOUS
        <5> QED BY <5>1, ModUnique
      <4>2. WORD * 0 + hrs = hrs + 0
        OBVIOUS
      <4> QED BY <4>1, <4>2
    <3>4. Since(e, 0, 0, 0)'
      BY <3>1, <3>2, <3>3, <1>2 DEF Since, Carry, Hour
    <3>5. Waiting(e, 0, 0, 0)'
      BY <3>1, <3>4, <2>2 DEF Waiting
    <3> QED BY <3>5
  <2> QED BY <2>3, <2>4, <2>5, <2>6
<1> QED BY <1>1, <1>3 DEF EarlyInv, Honest, EarlyOnlyTorn

LEMMA ComparedEarly ==
    ASSUME TypeOK, EarlyInv, Poll \/ Interrupt
    PROVE  EarlyInv'
<1> USE Units, Counters
<1>1. /\ UNCHANGED <<clock, prev, passed, n, asked, waited, torn>>
      /\ pc \in {"poll", "halt"} /\ pc' \in {"poll", "halt", "passed"}
      /\ pc' = "passed" => k' = 0
  BY DEF Poll, Interrupt, Wake, Step
<1>2. ASSUME ~torn PROVE \E e, s, m, h \in Nat : Waiting(e, s, m, h)'
  <2>1. PICK e, s, m, h \in Nat : Waiting(e, s, m, h)
    BY <1>1, <1>2 DEF EarlyInv, Honest
  <2>2. Waiting(e, s, m, h)'
    BY <2>1, <1>1 DEF Waiting, Since, Counted, clock
  <2> QED BY <2>2
<1> QED BY <1>1, <1>2 DEF EarlyInv, Honest, EarlyOnlyTorn

LEMMA ReadPassedEarly ==
    ASSUME TypeOK, EarlyInv, ReadPassed
    PROVE  EarlyInv'
<1> USE Units, Counters
<1>1. /\ UNCHANGED <<clock, waited, torn, pc, prev, n, asked>> /\ pc = "passed"
      /\ passed' = Passed(4 - k) /\ k' = k + 1 /\ k < 3
  BY DEF ReadPassed, Step
<1>2. ASSUME ~torn PROVE \E e, s, m, h \in Nat : Waiting(e, s, m, h)'
  <2>1. PICK e, s, m, h \in Nat : Waiting(e, s, m, h)
    BY <1>1, <1>2 DEF EarlyInv, Honest
  <2>2. Since(e, s, m, h)
    BY <2>1, <1>1 DEF Waiting
  <2>3. Since(e, s, m, h)' /\ Counted(e)'
    BY <2>1, <2>2, <1>1 DEF Waiting, Since, Counted, clock
  <2>4. /\ k = 0 => Passed(4 - k) = Passed(4)
        /\ k = 1 => Passed(4 - k) = Passed(3)
        /\ k = 2 => Passed(4 - k) = Passed(2)
    OBVIOUS
  <2>P. /\ Passed(4) = h % WORD
        /\ passed = h % WORD => Passed(3) = m % WORD
        /\ passed = m % WORD => Passed(2) = s % WORD
    BY <2>2, PassedCounts
  <2>Q. (k = 1 => passed = h % WORD) /\ (k = 2 => passed = m % WORD)
    BY <2>1, <1>1 DEF Waiting
  <2>5. /\ k' = 1 => passed' = h % WORD
        /\ k' = 2 => passed' = m % WORD
        /\ k' = 3 => passed' = s % WORD
    <3>1. CASE k = 0
      BY <3>1, <2>P, <2>4, <1>1
    <3>2. CASE k = 1
      BY <3>2, <2>P, <2>Q, <2>4, <1>1
    <3>3. CASE k = 2
      BY <3>3, <2>P, <2>Q, <2>4, <1>1
    <3> QED BY <3>1, <3>2, <3>3, <1>1
  <2>6. Waiting(e, s, m, h)'
    BY <2>3, <2>5, <1>1 DEF Waiting
  <2> QED BY <2>6
<1> QED BY <1>1, <1>2 DEF EarlyInv, Honest, EarlyOnlyTorn

LEMMA CountPassedEarly ==
    ASSUME TypeOK, EarlyInv, CountPassed
    PROVE  EarlyInv'
<1> USE Units, Counters
<1>1. /\ UNCHANGED <<clock, waited, torn, prev, asked>> /\ pc = "passed" /\ k = 3
      /\ passed' = Passed(1) /\ k' = 0
      /\ IF passed' >= n THEN pc' = "returned" /\ n' = 0
         ELSE pc' = "prev" /\ n' = n - passed'
  BY DEF CountPassed, Step, Left
<1>2. waited <= asked
  BY DEF EarlyInv
<1>3. ASSUME ~torn
      PROVE  /\ pc' = "returned" => waited = asked
             /\ pc' = "prev" => \E e, s, m, h \in Nat : Waiting(e, s, m, h)'
  <2>1. PICK e, s, m, h \in Nat : Waiting(e, s, m, h)
    BY <1>1, <1>3 DEF EarlyInv, Honest
  <2>2. passed' = e % WORD
    BY <2>1, <1>1, PassedCounts DEF Waiting
  <2>3. passed' \in Nat /\ passed' <= e
    BY <2>2, ModLess
  <2>4. pc' = "returned" => waited = asked
    BY <2>1, <2>3, <1>1, <1>2 DEF Waiting, Counted
  <2>5. ASSUME pc' = "prev" PROVE Waiting(0, s, m, h)'
    <3>1. Counted(0)'
      BY <2>1, <2>3, <2>5, <1>1 DEF Waiting, Counted
    <3> QED BY <3>1, <2>5, <1>1 DEF Waiting
  <2> QED BY <2>4, <2>5
<1> QED BY <1>1, <1>2, <1>3 DEF EarlyInv, Honest, EarlyOnlyTorn

LEMMA WaitTicksEarly ==
    ASSUME TypeOK, NEW m \in 1..MaxWait, WaitTicks(m)
    PROVE  EarlyInv'
<1> USE Units
<1>1. pc' = "prev" /\ k' = 0 /\ n' = m /\ asked' = m /\ waited' = 0 /\ m \in Nat
  BY DEF WaitTicks
<1>2. Counted(0)'
  BY <1>1 DEF Counted
<1>3. Waiting(0, 0, 0, 0)'
  BY <1>1, <1>2 DEF Waiting
<1> QED BY <1>1, <1>3 DEF EarlyInv, Honest, EarlyOnlyTorn

LEMMA StepEarly == TypeOK /\ EarlyInv /\ [Next]_vars => EarlyInv'
<1> SUFFICES ASSUME TypeOK, EarlyInv, [Next]_vars PROVE EarlyInv'
  OBVIOUS
<1>1. CASE UNCHANGED vars
  <2>1. UNCHANGED <<ticks, secs, mins, hrs, pc, k, prev, passed, n, asked, waited, torn>>
    BY <1>1 DEF vars, clock, thread
  <2> QED BY <2>1 DEF EarlyInv, Honest, EarlyOnlyTorn, Waiting, Since, Counted
<1> QED BY <1>1, TickEarly, ReadPrevEarly, ComparedEarly, ReadPassedEarly,
           CountPassedEarly, WaitTicksEarly DEF Next, Thread

\* wait_ticks never returns before its time but when a second ended between
\* two of its reads, whatever carries there are, also over the end of the
\* word, and however long the thread was away (time.c:182-196).
THEOREM WaitsLongEnough == Spec => []EarlyOnlyTorn
<1>1. Init => EarlyInv
  BY DEF Init, EarlyInv, Honest, EarlyOnlyTorn
<1>2. EarlyInv => EarlyOnlyTorn
  BY DEF EarlyInv
<1> QED BY <1>1, <1>2, InitTypeOK, StepTypeOK, StepEarly, PTL DEF Spec

=============================================================================
