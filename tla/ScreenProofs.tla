---------------------------- MODULE ScreenProofs -----------------------------
(***************************************************************************)
(* Proofs about what prints to the screen: Console, and Keyboard with      *)
(* Terminal, for a screen of any size, any strings, any keys and any size  *)
(* of the buffers; about Console with one thread beside the tick.          *)
(*                                                                         *)
(* The first part says of TextScreen's operators which cell they leave     *)
(* where, and that drawing the clock before or after makes no difference.  *)
(* Console's invariant then relates the screen as it is, with what the     *)
(* running call has left to do (Todo), to the screen as it is to be        *)
(* (want): every call does a statement at a time what TextScreen says it   *)
(* does at once.  Terminal's relates the screen to what printing the       *)
(* buffer once would give.                                                 *)
(***************************************************************************)
EXTENDS Console, Terminal, SequenceTheorems, WellFoundedInduction, TLAPS

\* Every character that is printed, and what an empty cell holds.
Typed  == NoAscii \cup Printable \cup Beyond \cup {"A", "!", "none", ">", Space}
Glyphs == STRING \cup Typed \cup {Blank, Zero}
Cells  == [1..B_END - 1 -> Glyphs]

-----------------------------------------------------------------------------
(* Places.                                                                 *)

\* The rows: the title and the rule, the text, the rule, the clock.
LEMMA Places ==
  /\ COLUMNS \in Nat /\ COLUMNS > 0
  /\ {start0, end0, ClockAt, B_START, B_END} \subseteq Nat
  /\ B_START = 1 /\ start0 = 2 * COLUMNS + 1 /\ start0 + COLUMNS <= end0
  /\ end0 + COLUMNS = ClockAt /\ ClockAt + COLUMNS = B_END
<1>1. COLUMNS \in Nat /\ COLUMNS > 0 /\ ROWS \in Nat /\ ROWS > 4
  BY ScreenAssumption DEF ScreenAssumption
<1>2. B_START = 1
  <2>1. 0 * COLUMNS = 0
    BY <1>1
  <2> QED BY <2>1 DEF B_START, At
<1>3. start0 = 2 * COLUMNS + 1
  BY <1>1 DEF start0, At
<1>4. PICK m \in Nat : m = ROWS - 5
  BY <1>1
<1>5. PICK p \in Nat : p = m * COLUMNS
  BY <1>1
<1>6. /\ (ROWS - 2) * COLUMNS = p + 3 * COLUMNS
      /\ (ROWS - 1) * COLUMNS = p + 4 * COLUMNS
      /\ ROWS * COLUMNS = p + 5 * COLUMNS
  <2>1. ROWS = m + 5
    BY <1>1, <1>4
  <2>2. /\ (m + 3) * COLUMNS = m * COLUMNS + 3 * COLUMNS
        /\ (m + 4) * COLUMNS = m * COLUMNS + 4 * COLUMNS
        /\ (m + 5) * COLUMNS = m * COLUMNS + 5 * COLUMNS
    BY <1>1, <1>4, Z3
  <2>3. ROWS - 2 = m + 3 /\ ROWS - 1 = m + 4
    BY <1>1, <2>1
  <2> QED BY <1>5, <2>1, <2>2, <2>3
<1>7. /\ end0 = p + 3 * COLUMNS + 1
      /\ ClockAt = p + 4 * COLUMNS + 1
      /\ B_END = p + 5 * COLUMNS + 1
  <2>1. PICK a \in Nat, b \in Nat, c \in Nat :
          a = (ROWS - 2) * COLUMNS /\ b = (ROWS - 1) * COLUMNS /\ c = ROWS * COLUMNS
    BY <1>1
  <2>2. end0 = a + 0 + 1 /\ ClockAt = b + 0 + 1 /\ B_END = c + 0 + 1
    BY <2>1 DEF end0, ClockAt, B_END, At
  <2>3. a = p + 3 * COLUMNS /\ b = p + 4 * COLUMNS /\ c = p + 5 * COLUMNS
    BY <1>6, <2>1
  <2> QED BY <1>1, <1>5, <2>1, <2>2, <2>3
<1> QED BY <1>1, <1>2, <1>3, <1>5, <1>7

-----------------------------------------------------------------------------
(* Induction.                                                              *)

LEMMA Induction ==
  ASSUME NEW T, 0 \in T, \A n \in Nat : n \in T => n + 1 \in T
  PROVE  \A n \in Nat : n \in T
<1>1. SUFFICES ASSUME NEW m \in Nat, m \notin T PROVE FALSE
  OBVIOUS
<1> DEFINE Out == {n \in Nat : n \notin T}
<1>2. Out \subseteq Nat /\ Out # {}
  <2>1. m \in Out
    BY <1>1
  <2> QED BY <2>1
<1>3. PICK n \in Out : \A y \in Out : ~ (<<y, n>> \in OpToRel(<, Nat))
  BY <1>2, NatLessThanWellFounded, WFMin
<1>4. n \in Nat /\ n \notin T /\ n # 0
  BY <1>3
<1>5. n - 1 \in Nat /\ n - 1 < n
  BY <1>4
<1>6. n - 1 \notin Out
  BY <1>3, <1>4, <1>5 DEF OpToRel
<1>7. (n - 1) + 1 \in T
  BY <1>5, <1>6
<1> QED BY <1>4, <1>5, <1>7
-----------------------------------------------------------------------------
(* The operators of TextScreen, cell by cell.                              *)

T(cs, p) == [cells |-> cs, start |-> start0, end |-> end0, current |-> p]
Filled(cs, from, to, c) ==
    [i \in 1..B_END - 1 |-> IF i \in from..to - 1 THEN c ELSE cs[i]]
Up(cs) ==
    [i \in 1..B_END - 1 |->
        IF i \notin start0..end0 - 1 THEN cs[i]
        ELSE IF i + COLUMNS < end0 THEN cs[i + COLUMNS] ELSE Zero]
Over(cs, str, pos) ==
    [i \in 1..B_END - 1 |->
        IF i \in pos..pos + Len(str) - 1 THEN str[i - pos + 1] ELSE cs[i]]

LEMMA CellsSeq ==
  ASSUME NEW cs \in Cells
  PROVE  cs \in Seq(Glyphs) /\ Len(cs) = B_END - 1
<1>1. B_END - 1 \in Nat
  BY Places
<1> QED BY <1>1 DEF Cells

LEMMA SeqCells ==
  ASSUME NEW cs \in Seq(Glyphs), Len(cs) = B_END - 1
  PROVE  cs \in Cells
  BY DEF Cells

LEMMA Three ==
  ASSUME NEW a \in Seq(Glyphs), NEW b \in Seq(Glyphs), NEW c \in Seq(Glyphs)
  PROVE  /\ a \o b \o c \in Seq(Glyphs)
         /\ Len(a \o b \o c) = Len(a) + Len(b) + Len(c)
         /\ \A i \in 1..Len(a) : (a \o b \o c)[i] = a[i]
         /\ \A i \in Len(a) + 1..Len(a) + Len(b) : (a \o b \o c)[i] = b[i - Len(a)]
         /\ \A i \in Len(a) + Len(b) + 1..Len(a) + Len(b) + Len(c) :
               (a \o b \o c)[i] = c[i - Len(a) - Len(b)]
<1>1. a \o b \in Seq(Glyphs) /\ Len(a \o b) = Len(a) + Len(b)
  OBVIOUS
<1>2. /\ \A i \in 1..Len(a) : (a \o b)[i] = a[i]
      /\ \A i \in Len(a) + 1..Len(a) + Len(b) : (a \o b)[i] = b[i - Len(a)]
  OBVIOUS
<1>3. PICK ab \in Seq(Glyphs) : ab = a \o b
  BY <1>1
<1>4. /\ ab \o c \in Seq(Glyphs) /\ Len(ab \o c) = Len(ab) + Len(c)
      /\ \A i \in 1..Len(ab) : (ab \o c)[i] = ab[i]
      /\ \A i \in Len(ab) + 1..Len(ab) + Len(c) : (ab \o c)[i] = c[i - Len(ab)]
  OBVIOUS
<1> QED BY <1>1, <1>2, <1>3, <1>4

LEMMA PartOf ==
  ASSUME NEW s \in Seq(Glyphs), NEW m \in Nat, NEW n \in Nat,
         1 <= m, m <= n + 1, n <= Len(s)
  PROVE  /\ SubSeq(s, m, n) \in Seq(Glyphs)
         /\ Len(SubSeq(s, m, n)) = n - m + 1
         /\ \A i \in 1..n - m + 1 : SubSeq(s, m, n)[i] = s[m + i - 1]
  OBVIOUS

LEMMA RepeatIs ==
  ASSUME NEW c \in Glyphs, NEW n \in Nat
  PROVE  /\ Repeat(c, n) \in Seq(Glyphs) /\ Len(Repeat(c, n)) = n
         /\ \A i \in 1..n : Repeat(c, n)[i] = c
  BY DEF Repeat

LEMMA Shift ==
  ASSUME NEW i \in Int, NEW j \in Int, NEW k \in Int, NEW m \in Int, j + k = m - 1
  PROVE  i - j - k = i - (m - 1)
  OBVIOUS

LEMMA FillIs ==
  ASSUME NEW cs \in Cells, NEW c \in Glyphs, NEW from \in Nat, NEW to \in Nat,
         1 <= from, from <= to, to <= B_END
  PROVE  Fill(cs, from, to, c) = Filled(cs, from, to, c) /\ Filled(cs, from, to, c) \in Cells
<1>0. PICK N \in Nat : N = B_END - 1 /\ B_END = N + 1
  BY Places
<1>1. cs \in Seq(Glyphs) /\ Len(cs) = N
  BY <1>0, CellsSeq
<1>2. from - 1 \in Nat /\ to - from \in Nat
  OBVIOUS
<1>a. to \in 1..N + 1 /\ from \in 1..to
  BY <1>0
<1>3. PICK x \in Seq(Glyphs) : /\ x = SubSeq(cs, 1, from - 1) /\ Len(x) = from - 1
                               /\ \A i \in 1..from - 1 : x[i] = cs[i]
  <2>1. PICK n \in Nat : n = from - 1
    BY <1>2
  <2>2. /\ SubSeq(cs, 1, n) \in Seq(Glyphs) /\ Len(SubSeq(cs, 1, n)) = n
        /\ \A i \in 1..n : SubSeq(cs, 1, n)[i] = cs[i]
    <3>1. n <= Len(cs) /\ 1 <= n + 1 /\ n - 1 + 1 = n
      BY <1>1, <1>a, <2>1
    <3> QED BY <1>1, <3>1, PartOf
  <2> QED BY <2>1, <2>2
<1>4. PICK y \in Seq(Glyphs) : /\ y = Repeat(c, to - from) /\ Len(y) = to - from
                               /\ \A i \in 1..to - from : y[i] = c
  BY <1>2, RepeatIs
<1>5. PICK z \in Seq(Glyphs) : /\ z = SubSeq(cs, to, Len(cs)) /\ Len(z) = N - to + 1
                               /\ \A i \in 1..N - to + 1 : z[i] = cs[to + i - 1]
  <2>1. 1 <= to /\ to <= N + 1 /\ N <= Len(cs)
    BY <1>1, <1>a
  <2>2. /\ SubSeq(cs, to, N) \in Seq(Glyphs)
        /\ Len(SubSeq(cs, to, N)) = N - to + 1
        /\ \A i \in 1..N - to + 1 : SubSeq(cs, to, N)[i] = cs[to + i - 1]
    BY <1>1, <2>1, PartOf
  <2> QED BY <1>1, <2>2
<1>6. PICK f \in Seq(Glyphs) :
        /\ f = Fill(cs, from, to, c) /\ Len(f) = N
        /\ \A i \in 1..N : f[i] = IF i \in from..to - 1 THEN c ELSE cs[i]
  <2>1. Fill(cs, from, to, c) = x \o y \o z
    BY <1>3, <1>4, <1>5 DEF Fill
  <2>2. PICK f \in Seq(Glyphs) :
        /\ f = x \o y \o z
        /\ Len(f) = Len(x) + Len(y) + Len(z)
        /\ \A i \in 1..Len(x) : f[i] = x[i]
        /\ \A i \in Len(x) + 1..Len(x) + Len(y) : f[i] = y[i - Len(x)]
        /\ \A i \in Len(x) + Len(y) + 1..Len(x) + Len(y) + Len(z) :
               f[i] = z[i - Len(x) - Len(y)]
    <3> DEFINE g == x \o y \o z
    <3>1. /\ g \in Seq(Glyphs)
          /\ Len(g) = Len(x) + Len(y) + Len(z)
          /\ \A i \in 1..Len(x) : g[i] = x[i]
          /\ \A i \in Len(x) + 1..Len(x) + Len(y) : g[i] = y[i - Len(x)]
          /\ \A i \in Len(x) + Len(y) + 1..Len(x) + Len(y) + Len(z) :
               g[i] = z[i - Len(x) - Len(y)]
      BY Three
    <3> HIDE DEF g
    <3> QED BY <3>1 DEF g
  <2>a. /\ Len(x) = from - 1 /\ Len(x) + Len(y) = to - 1
        /\ Len(x) + Len(y) + Len(z) = N
    <3>1. Len(x) = from - 1 /\ Len(y) = to - from /\ Len(z) = N - to + 1
      BY <1>3, <1>4, <1>5
    <3>2. (from - 1) + (to - from) = to - 1 /\ (to - 1) + (N - to + 1) = N
      BY <1>0
    <3> QED BY <3>1, <3>2
  <2>3. Len(f) = N
    BY <2>2, <2>a
  <2>4. ASSUME NEW i \in 1..N PROVE f[i] = IF i \in from..to - 1 THEN c ELSE cs[i]
    <3>1. CASE i < from
      BY <3>1, <2>2, <1>3, <1>a
    <3>2. CASE from <= i /\ i < to
      BY <3>2, <2>2, <1>3, <1>4, <1>a
    <3>3. CASE to <= i
      <4>1. i - (to - 1) \in 1..N - to + 1 /\ to + (i - (to - 1)) - 1 = i
        BY <3>3, <1>a
      <4>2. f[i] = z[i - (to - 1)]
        <5>1. i \in Len(x) + Len(y) + 1..Len(x) + Len(y) + Len(z)
          BY <3>3, <2>a
        <5>2. f[i] = z[i - Len(x) - Len(y)]
          BY <2>2, <5>1
        <5>3. i - Len(x) - Len(y) = i - (to - 1)
          <6>1. PICK j \in Nat, k \in Nat : j = Len(x) /\ k = Len(y)
            <7>1. from - 1 \in Nat /\ to - from \in Nat
              BY <1>a
            <7> QED BY <1>3, <1>4, <7>1
          <6>2. i \in Int /\ j + k = to - 1
            BY <2>a, <6>1
          <6>3. i - j - k = i - (to - 1)
            <7>1. i \in Int
              BY <6>2
            <7>2. j \in Int /\ k \in Int
              BY <6>1
            <7>3. to \in Int
              OBVIOUS
            <7>4. j + k = to - 1
              BY <6>2
            <7> QED BY <7>1, <7>2, <7>3, <7>4, Shift
          <6> QED BY <6>1, <6>3
        <5> QED BY <5>2, <5>3
      <4>3. f[i] = cs[i]
        BY <4>1, <4>2, <1>5
      <4> QED BY <3>3, <4>3
    <3> QED BY <3>1, <3>2, <3>3
  <2> QED BY <2>1, <2>2, <2>3, <2>4
<1>7. f = [i \in 1..N |-> f[i]]
  BY <1>6
<1>8. f = Filled(cs, from, to, c)
  BY <1>0, <1>6, <1>7 DEF Filled
<1>9. f \in Cells
  BY <1>0, <1>6, SeqCells
<1> QED BY <1>6, <1>8, <1>9

LEMMA Joined ==
  ASSUME NEW a \in Seq(Glyphs), NEW b \in Seq(Glyphs)
  PROVE  /\ a \o b \in Seq(Glyphs) /\ Len(a \o b) = Len(a) + Len(b)
         /\ \A i \in 1..Len(a) : (a \o b)[i] = a[i]
         /\ \A i \in 1..Len(b) : (a \o b)[Len(a) + i] = b[i]
  OBVIOUS

\* Scrolling by a row.
LEMMA UpIs ==
  ASSUME NEW cs \in Cells
  PROVE  /\ Scroll(T(cs, end0)) = T(Up(cs), end0 - COLUMNS)
         /\ Up(cs) \in Cells
<1>0. PICK N \in Nat, lo \in Nat, hi \in Nat, w \in Nat :
        /\ N = B_END - 1 /\ lo = start0 /\ hi = end0 /\ w = COLUMNS
        /\ lo > 1 /\ w > 0 /\ lo + w <= hi /\ hi <= N
  BY Places
<1>1. cs \in Seq(Glyphs) /\ Len(cs) = N
  BY <1>0, CellsSeq
<1>2. PICK p \in Nat, q \in Nat, r \in Nat :
        p = lo - 1 /\ q = hi - lo - w /\ r = N - hi + 1
  <2>1. lo - 1 \in Nat /\ hi - lo - w \in Nat /\ N - hi + 1 \in Nat
    BY <1>0
  <2> QED BY <2>1
<1>3. PICK a \in Seq(Glyphs) : /\ a = SubSeq(cs, 1, lo - 1) /\ Len(a) = p
                               /\ \A i \in 1..p : a[i] = cs[i]
  <2>1. 1 <= p + 1 /\ p <= Len(cs) /\ p - 1 + 1 = p
    BY <1>0, <1>1, <1>2
  <2>2. /\ SubSeq(cs, 1, p) \in Seq(Glyphs) /\ Len(SubSeq(cs, 1, p)) = p
        /\ \A i \in 1..p : SubSeq(cs, 1, p)[i] = cs[i]
    BY <1>1, <1>2, <2>1, PartOf
  <2> QED BY <1>2, <2>2
<1>4. PICK b \in Seq(Glyphs) : /\ b = SubSeq(cs, lo + w, hi - 1) /\ Len(b) = q
                               /\ \A i \in 1..q : b[i] = cs[lo + w + i - 1]
  <2>1. PICK m \in Nat, n \in Nat : m = lo + w /\ n = hi - 1
    BY <1>0
  <2>2. 1 <= m /\ m <= n + 1 /\ n <= Len(cs) /\ n - m + 1 = q
    BY <1>0, <1>1, <1>2, <2>1
  <2>3. /\ SubSeq(cs, m, n) \in Seq(Glyphs) /\ Len(SubSeq(cs, m, n)) = q
        /\ \A i \in 1..q : SubSeq(cs, m, n)[i] = cs[m + i - 1]
    BY <1>1, <2>1, <2>2, PartOf
  <2> QED BY <2>1, <2>3
<1>5. PICK z \in Seq(Glyphs) : /\ z = Repeat(Zero, w) /\ Len(z) = w
                               /\ \A i \in 1..w : z[i] = Zero
  <2>1. Zero \in Glyphs
    BY DEF Glyphs
  <2>2. /\ Repeat(Zero, w) \in Seq(Glyphs) /\ Len(Repeat(Zero, w)) = w
        /\ \A i \in 1..w : Repeat(Zero, w)[i] = Zero
    BY <1>0, <2>1, RepeatIs
  <2> QED BY <2>2
<1>6. PICK e \in Seq(Glyphs) : /\ e = SubSeq(cs, hi, Len(cs)) /\ Len(e) = r
                               /\ \A i \in 1..r : e[i] = cs[hi + i - 1]
  <2>1. 1 <= hi /\ hi <= N + 1 /\ N <= Len(cs) /\ N - hi + 1 = r
    BY <1>0, <1>1, <1>2
  <2>2. /\ SubSeq(cs, hi, N) \in Seq(Glyphs) /\ Len(SubSeq(cs, hi, N)) = r
        /\ \A i \in 1..r : SubSeq(cs, hi, N)[i] = cs[hi + i - 1]
    BY <1>0, <1>1, <2>1, PartOf
  <2> QED BY <1>1, <2>2
<1>7. PICK ab : ab = a \o b
  OBVIOUS
<1>8. PICK m \in Nat : m = p + q
  BY <1>2
<1>a. /\ ab \in Seq(Glyphs) /\ Len(ab) = m
      /\ \A i \in 1..p : ab[i] = cs[i]
      /\ \A i \in 1..q : ab[p + i] = cs[lo + w + i - 1]
  <2>1. /\ ab \in Seq(Glyphs) /\ Len(ab) = p + q
        /\ \A i \in 1..p : ab[i] = a[i]
        /\ \A i \in 1..q : ab[p + i] = b[i]
    <3>1. a \in Seq(Glyphs) /\ b \in Seq(Glyphs) /\ p \in Nat /\ q \in Nat
      BY <1>2, <1>3, <1>4, <1>7
    <3>2. Len(a) = p /\ Len(b) = q
      BY <1>2, <1>3, <1>4, <1>7
    <3>3. /\ a \o b \in Seq(Glyphs) /\ Len(a \o b) = Len(a) + Len(b)
          /\ \A i \in 1..Len(a) : (a \o b)[i] = a[i]
          /\ \A i \in 1..Len(b) : (a \o b)[Len(a) + i] = b[i]
      BY <3>1, Joined
    <3> QED BY <3>2, <3>3, <1>7, Zenon
  <2> QED BY <2>1, <1>3, <1>4, <1>8
<1>9. PICK abz : abz = ab \o z
  OBVIOUS
<1>10. PICK n \in Nat : n = m + w
  BY <1>0, <1>8
<1>b. /\ abz \in Seq(Glyphs) /\ Len(abz) = n
      /\ \A i \in 1..m : abz[i] = ab[i]
      /\ \A i \in 1..w : abz[m + i] = Zero
  <2>1. /\ abz \in Seq(Glyphs) /\ Len(abz) = m + w
        /\ \A i \in 1..m : abz[i] = ab[i]
        /\ \A i \in 1..w : abz[m + i] = z[i]
    <3>1. ab \in Seq(Glyphs) /\ z \in Seq(Glyphs) /\ m \in Nat /\ w \in Nat
      BY <1>0, <1>5, <1>8, <1>a, <1>9
    <3>2. Len(ab) = m /\ Len(z) = w
      BY <1>0, <1>5, <1>8, <1>a, <1>9
    <3>3. /\ ab \o z \in Seq(Glyphs) /\ Len(ab \o z) = Len(ab) + Len(z)
          /\ \A i \in 1..Len(ab) : (ab \o z)[i] = ab[i]
          /\ \A i \in 1..Len(z) : (ab \o z)[Len(ab) + i] = z[i]
      BY <3>1, Joined
    <3> QED BY <3>2, <3>3, <1>9, Zenon
  <2> QED BY <2>1, <1>5, <1>10
<1>c. PICK f : f = abz \o e
  OBVIOUS
<1>11. /\ f \in Seq(Glyphs) /\ Len(f) = n + r
       /\ \A i \in 1..n : f[i] = abz[i]
       /\ \A i \in 1..r : f[n + i] = cs[hi + i - 1]
  <2>1. /\ f \in Seq(Glyphs) /\ Len(f) = n + r
        /\ \A i \in 1..n : f[i] = abz[i]
        /\ \A i \in 1..r : f[n + i] = e[i]
    <3>1. abz \in Seq(Glyphs) /\ e \in Seq(Glyphs) /\ n \in Nat /\ r \in Nat
      BY <1>2, <1>6, <1>b, <1>10, <1>c
    <3>2. Len(abz) = n /\ Len(e) = r
      BY <1>2, <1>6, <1>b, <1>10, <1>c
    <3>3. /\ abz \o e \in Seq(Glyphs) /\ Len(abz \o e) = Len(abz) + Len(e)
          /\ \A i \in 1..Len(abz) : (abz \o e)[i] = abz[i]
          /\ \A i \in 1..Len(e) : (abz \o e)[Len(abz) + i] = e[i]
      BY <3>1, Joined
    <3> QED BY <3>2, <3>3, <1>c, Zenon
  <2> QED BY <2>1, <1>6
<1>12. p = lo - 1 /\ m = hi - w - 1 /\ n = hi - 1 /\ n + r = N
  BY <1>0, <1>2, <1>8, <1>10
<1>13. ASSUME NEW i \in 1..N
       PROVE  f[i] = IF i \notin lo..hi - 1 THEN cs[i]
                     ELSE IF i + w < hi THEN cs[i + w] ELSE Zero
  <2>1. CASE i < lo
    <3>1. i \in 1..n /\ i \in 1..m /\ i \in 1..p
      BY <1>0, <1>12, <2>1
    <3>2. f[i] = cs[i]
      BY <3>1, <1>a, <1>b, <1>11
    <3> QED BY <2>1, <3>2
  <2>2. CASE lo <= i /\ i + w < hi
    <3>1. PICK k \in 1..q : i = p + k
      <4>1. i - p \in 1..q /\ i = p + (i - p)
        BY <1>0, <1>2, <2>2
      <4> QED BY <4>1
    <3>2. i \in 1..n /\ i \in 1..m /\ lo + w + k - 1 = i + w
      BY <1>0, <1>2, <1>12, <2>2, <3>1
    <3>3. f[i] = cs[lo + w + k - 1]
      BY <3>1, <3>2, <1>a, <1>b, <1>11
    <3>4. i \in lo..hi - 1 /\ i + w < hi
      BY <1>0, <2>2
    <3> QED BY <3>2, <3>3, <3>4
  <2>3. CASE hi <= i + w /\ i < hi
    <3>1. PICK k \in 1..w : i = m + k
      <4>1. i - m \in 1..w /\ i = m + (i - m)
        BY <1>0, <1>12, <2>3
      <4> QED BY <4>1
    <3>2. i \in 1..n /\ i \in lo..hi - 1 /\ ~ (i + w < hi)
      BY <1>0, <1>12, <2>3
    <3>3. f[i] = Zero
      BY <3>1, <3>2, <1>b, <1>11
    <3> QED BY <3>2, <3>3
  <2>4. CASE hi <= i
    <3>1. PICK k \in 1..r : i = n + k
      <4>1. i - n \in 1..r /\ i = n + (i - n)
        BY <1>0, <1>2, <1>12, <2>4
      <4> QED BY <4>1
    <3>2. i \notin lo..hi - 1 /\ hi + k - 1 = i
      BY <1>0, <1>12, <2>4, <3>1
    <3>3. f[i] = cs[i]
      BY <3>1, <3>2, <1>11
    <3> QED BY <3>2, <3>3
  <2>5. i < lo \/ (lo <= i /\ i + w < hi) \/ (hi <= i + w /\ i < hi) \/ hi <= i
    BY <1>0
  <2> QED BY <2>1, <2>2, <2>3, <2>4, <2>5
<1>14. f = Up(cs)
  <2>1. f = [i \in 1..N |-> f[i]]
    <3>1. Len(f) = N
      BY <1>11, <1>12
    <3> QED BY <3>1, <1>11
  <2> QED BY <2>1, <1>0, <1>13 DEF Up
<1>15. f \in Cells
  BY <1>0, <1>11, <1>12, SeqCells
<1>16. Scroll(T(cs, end0)) = T(f, end0 - COLUMNS)
  <2>1. ScrollOver(T(cs, end0)) = w
    <3>1. (hi - hi) \div w = 0
      BY <1>0
    <3>2. (0 + 1) * w = w
      BY <1>0
    <3>3. ScrollOver(T(cs, end0)) = ((hi - hi) \div w + 1) * w
      BY <1>0 DEF ScrollOver, T
    <3> QED BY <3>1, <3>2, <3>3
  <2>2. ~ (T(cs, end0).current < T(cs, end0).end)
    BY <1>0 DEF T
  <2>3. /\ T(cs, end0).cells = cs /\ T(cs, end0).start = lo /\ T(cs, end0).end = hi
        /\ T(cs, end0).current = hi
    BY <1>0 DEF T
  <2>4. Scroll(T(cs, end0)) = [T(cs, end0) EXCEPT !.cells = f, !.current = hi - w]
    BY <2>1, <2>2, <2>3, <1>3, <1>4, <1>5, <1>6, <1>7, <1>9, <1>c DEF Scroll
  <2> QED BY <2>4, <1>0 DEF T
<1> QED BY <1>14, <1>15, <1>16

-----------------------------------------------------------------------------
(* putc on the text.                                                       *)

LEMMA MinTwo ==
  ASSUME NEW a \in Nat, NEW b \in Nat
  PROVE  Min({a, b}) = IF a <= b THEN a ELSE b
<1> DEFINE m == IF a <= b THEN a ELSE b
<1>1. m \in {a, b} /\ \A y \in {a, b} : m <= y
  OBVIOUS
<1>2. \A x \in {a, b} : (\A y \in {a, b} : x <= y) => x = m
  OBVIOUS
<1> HIDE DEF m
<1>3. Min({a, b}) = m
  BY <1>1, <1>2 DEF Min
<1> QED BY <1>3 DEF m

LEMMA Largest ==
  ASSUME NEW p \in Nat, NEW S, S \subseteq 0..p, NEW a \in S
  PROVE  \E x \in S : \A y \in S : x >= y
<1> DEFINE D == {k \in Nat : p - k \in S}
<1>1. p - a \in Nat /\ p - (p - a) = a
  OBVIOUS
<1>2. D \subseteq Nat /\ D # {}
  BY <1>1
<1>3. PICK k \in D : \A j \in D : ~ (<<j, k>> \in OpToRel(<, Nat))
  BY <1>2, NatLessThanWellFounded, WFMin
<1>4. k \in Nat /\ p - k \in S
  BY <1>3
<1>5. ASSUME NEW y \in S PROVE p - k >= y
  <2>1. p - y \in Nat /\ p - (p - y) = y
    BY <1>5
  <2>2. p - y \in D
    BY <1>5, <2>1
  <2>3. ~ (p - y < k)
    BY <1>3, <1>4, <2>1, <2>2 DEF OpToRel
  <2> QED BY <1>4, <1>5, <2>1, <2>3
<1> QED BY <1>4, <1>5

To(p, n) == IF p + n <= end0 THEN p + n ELSE end0
FillBy(s, n, c) ==
    LET to == Min({s.current + n, s.end})
    IN  [s EXCEPT !.cells = Fill(@, s.current, to, c), !.current = to]

LEMMA FillByIs ==
  ASSUME NEW cs \in Cells, NEW p \in start0..end0, NEW n \in Nat, NEW c \in Glyphs
  PROVE  /\ FillBy(T(cs, p), n, c) = T(Filled(cs, p, To(p, n), c), To(p, n))
         /\ To(p, n) \in start0..end0 /\ p <= To(p, n)
         /\ Filled(cs, p, To(p, n), c) \in Cells
<1>0. PICK lo \in Nat, hi \in Nat : /\ lo = start0 /\ hi = end0 /\ 1 <= lo /\ lo <= hi
                                    /\ hi <= B_END /\ B_END \in Nat
  BY Places
<1>1. p \in Nat /\ lo <= p /\ p <= hi /\ p + n \in Nat
  BY <1>0
<1>2. PICK to \in Nat : to = To(p, n) /\ p <= to /\ to <= hi /\ to = Min({p + n, hi})
  <2>1. Min({p + n, hi}) = IF p + n <= hi THEN p + n ELSE hi
    BY <1>0, <1>1, MinTwo
  <2>2. To(p, n) = IF p + n <= hi THEN p + n ELSE hi
    BY <1>0 DEF To
  <2> QED BY <1>0, <1>1, <2>1, <2>2
<1>3. Fill(cs, p, to, c) = Filled(cs, p, to, c) /\ Filled(cs, p, to, c) \in Cells
  <2>1. 1 <= p /\ to <= B_END
    BY <1>0, <1>1, <1>2
  <2> QED BY <1>1, <1>2, <2>1, FillIs
<1>4. /\ T(cs, p).cells = cs /\ T(cs, p).current = p /\ T(cs, p).end = hi
  BY <1>0 DEF T
<1>5. FillBy(T(cs, p), n, c)
        = [T(cs, p) EXCEPT !.cells = Filled(cs, p, to, c), !.current = to]
  BY <1>2, <1>3, <1>4 DEF FillBy
<1>6. FillBy(T(cs, p), n, c) = T(Filled(cs, p, to, c), to)
  BY <1>5 DEF T
<1>7. to \in lo..hi
  BY <1>0, <1>1, <1>2
<1> QED BY <1>0, <1>2, <1>3, <1>6, <1>7

Stops(cs, p) ==
    {q \in start0..p : (q - start0) % COLUMNS = 0 \/ cs[q - 1] # Blank}
Back(cs, p) == Max(Stops(cs, p))

LEMMA FirstStops == ASSUME NEW cs, NEW p \in start0..end0 PROVE start0 \in Stops(cs, p)
<1>1. start0 \in start0..p
  BY Places
<1>2. (start0 - start0) % COLUMNS = 0
  <2>1. PICK w \in Nat : w = COLUMNS /\ w > 0
    BY Places
  <2>2. 0 % w = 0
    BY <2>1
  <2>3. start0 - start0 = 0
    BY Places
  <2> QED BY <2>1, <2>2, <2>3
<1> QED BY <1>1, <1>2 DEF Stops

LEMMA BackIs ==
  ASSUME NEW cs, NEW p \in start0..end0
  PROVE  /\ Back(cs, p) \in start0..p /\ Back(cs, p) \in Stops(cs, p)
         /\ \A q \in Stops(cs, p) : q <= Back(cs, p)
<1>1. PICK S : S = Stops(cs, p)
  OBVIOUS
<1>2. S \subseteq start0..p /\ S \subseteq 0..p /\ p \in Nat /\ start0 \in S
  BY <1>1, FirstStops, Places DEF Stops
<1>3. \E x \in S : \A y \in S : x >= y
  BY <1>2, Largest
<1>4. Max(S) \in S /\ \A y \in S : Max(S) >= y
  BY <1>3 DEF Max
<1> QED BY <1>1, <1>2, <1>4 DEF Back

LEMMA BackStays ==
  ASSUME NEW cs, NEW p \in start0..end0, p \in Stops(cs, p)
  PROVE  Back(cs, p) = p
<1>1. Back(cs, p) \in start0..p /\ p <= Back(cs, p)
  BY BackIs
<1> QED BY <1>1, Places

LEMMA BackGoes ==
  ASSUME NEW cs, NEW p \in start0..end0, p \notin Stops(cs, p)
  PROVE  p - 1 \in start0..end0 /\ Back(cs, p) = Back(cs, p - 1)
<1>1. p # start0
  BY FirstStops
<1>2. p - 1 \in start0..end0
  BY <1>1, Places
<1>3. \A q : q \in Stops(cs, p) <=> q \in Stops(cs, p - 1)
  <2>1. \A q : q \in start0..p <=> q \in start0..p - 1 \/ q = p
    BY <1>2, Places
  <2> QED BY <2>1 DEF Stops
<1>4. Stops(cs, p) = Stops(cs, p - 1)
  BY <1>3
<1> QED BY <1>2, <1>4 DEF Back

LEMMA WriteLine ==
  ASSUME NEW s PROVE Write(s, "\n") = FillBy(s, ToNext(s, COLUMNS), Blank)
  BY DEF Write, FillTo, FillBy

LEMMA WriteTab ==
  ASSUME NEW s PROVE Write(s, "\t") = FillBy(s, ToNext(s, TAB), Space)
  BY DEF Write, FillTo, FillBy

LEMMA WriteErase ==
  ASSUME NEW cs \in Cells, NEW p \in start0..end0
  PROVE  /\ p = start0 => Write(T(cs, p), "\\b") = T(cs, p)
         /\ p # start0 =>
              Write(T(cs, p), "\\b")
                = T([cs EXCEPT ![p - 1] = Blank], Back([cs EXCEPT ![p - 1] = Blank], p - 1))
<1>1. Write(T(cs, p), "\\b") = Erase(T(cs, p))
  BY DEF Write
<1>2. T(cs, p).cells = cs /\ T(cs, p).current = p /\ T(cs, p).start = start0
  BY DEF T
<1>3. CASE p = start0
  BY <1>1, <1>2, <1>3 DEF Erase
<1>4. CASE p # start0
  <2>1. PICK ds : ds = [cs EXCEPT ![p - 1] = Blank]
    OBVIOUS
  <2>2. Erase(T(cs, p)) = [T(cs, p) EXCEPT !.cells = ds, !.current = Back(ds, p - 1)]
    BY <1>2, <1>4, <2>1 DEF Erase, Back, Stops
  <2>3. Erase(T(cs, p)) = T(ds, Back(ds, p - 1))
    BY <2>2 DEF T
  <2> QED BY <1>1, <1>4, <2>1, <2>3
<1> QED BY <1>3, <1>4

LEMMA WritePlain ==
  ASSUME NEW cs, NEW p, NEW c, c \notin {"\n", "\t", "\\b"}
  PROVE  Write(T(cs, p), c) = T([cs EXCEPT ![p] = c], p + 1)
  BY DEF Write, T

-----------------------------------------------------------------------------
(* The clock can be drawn before or after: it is in no row of the text.    *)

Clock(time) == Plain(time) /\ ClockAt + Len(time) < B_END
D(cs, time) == Over(cs, time, ClockAt)

LEMMA StringsSeq == ASSUME NEW str \in Seq(STRING)
  PROVE  /\ str \in Seq(Glyphs) /\ Len(str) \in Nat
         /\ \A i \in 1..Len(str) : str[i] \in Glyphs
<1>1. STRING \subseteq Glyphs
  BY DEF Glyphs
<1>2. PICK n \in Nat : n = Len(str) /\ str \in [1..n -> STRING]
  <2>1. Len(str) \in Nat /\ str \in [1..Len(str) -> STRING]
    BY <1>1
  <2> QED BY <2>1
<1>3. str \in [1..n -> Glyphs]
  BY <1>1, <1>2
<1>4. str \in Seq(Glyphs)
  BY <1>2, <1>3
<1> QED BY <1>2, <1>3, <1>4

LEMMA StringsGlyphs == ASSUME NEW str, Plain(str)
  PROVE  /\ str \in Seq(Glyphs) /\ Len(str) \in Nat
         /\ \A i \in 1..Len(str) : str[i] \in Glyphs
BY StringsSeq DEF Plain

LEMMA OverIs ==
  ASSUME NEW cs \in Cells, NEW str, Plain(str), NEW pos \in Nat
  PROVE  Over(cs, str, pos) \in Cells
<1>1. PICK N \in Nat : N = B_END - 1
  BY Places
<1>2. ASSUME NEW i \in 1..N
      PROVE  (IF i \in pos..pos + Len(str) - 1 THEN str[i - pos + 1] ELSE cs[i]) \in Glyphs
  <2>1. cs[i] \in Glyphs
    BY <1>1, <1>2 DEF Cells
  <2>2. CASE i \in pos..pos + Len(str) - 1
    <3>1. PICK n \in Nat : n = Len(str)
      BY StringsGlyphs
    <3>2. i - pos + 1 \in 1..n
      BY <2>2, <3>1
    <3> QED BY <2>2, <3>1, <3>2, StringsGlyphs
  <2> QED BY <2>1, <2>2
<1> QED BY <1>1, <1>2 DEF Over, Cells

LEMMA DrawnBelow ==
  ASSUME NEW cs, NEW time
  PROVE  \A i \in 1..end0 : D(cs, time)[i] = cs[i]
<1>1. SUFFICES ASSUME NEW i \in 1..end0 PROVE D(cs, time)[i] = cs[i]
  OBVIOUS
<1>2. i \in 1..B_END - 1 /\ i < ClockAt /\ ClockAt \in Nat /\ i \in Nat
  BY Places
<1>3. i \notin ClockAt..ClockAt + Len(time) - 1
  BY <1>2
<1> QED BY <1>2, <1>3 DEF D, Over

LEMMA DrawnCells ==
  ASSUME NEW cs \in Cells, NEW time, Clock(time) PROVE D(cs, time) \in Cells
<1>1. ClockAt \in Nat
  BY Places
<1> QED BY <1>1, OverIs DEF D, Clock

LEMMA DrawnFilled ==
  ASSUME NEW cs \in Cells, NEW time, NEW c, NEW p \in Nat, NEW to \in Nat, to <= end0
  PROVE  Filled(D(cs, time), p, to, c) = D(Filled(cs, p, to, c), time)
<1>1. PICK N \in Nat, k \in Nat, hi \in Nat :
        N = B_END - 1 /\ k = ClockAt /\ hi = end0 /\ hi < k
  BY Places
<1>2. ASSUME NEW i \in 1..N
      PROVE  (IF i \in p..to - 1 THEN c ELSE D(cs, time)[i])
               = IF i \in k..k + Len(time) - 1 THEN time[i - k + 1]
                 ELSE Filled(cs, p, to, c)[i]
  <2>1. CASE i \in p..to - 1
    <3>1. i \notin k..k + Len(time) - 1
      BY <1>1, <2>1
    <3> QED BY <1>1, <2>1, <3>1 DEF Filled
  <2>2. CASE i \notin p..to - 1
    BY <1>1, <2>2 DEF Filled, D, Over
  <2> QED BY <2>1, <2>2
<1>3. Filled(D(cs, time), p, to, c)
        = [i \in 1..N |-> IF i \in p..to - 1 THEN c ELSE D(cs, time)[i]]
  BY <1>1 DEF Filled
<1>4. D(Filled(cs, p, to, c), time)
        = [i \in 1..N |-> IF i \in k..k + Len(time) - 1 THEN time[i - k + 1]
                          ELSE Filled(cs, p, to, c)[i]]
  BY <1>1 DEF D, Over
<1> QED BY <1>2, <1>3, <1>4

LEMMA DrawnSet ==
  ASSUME NEW cs \in Cells, NEW time, Clock(time), NEW c, NEW p \in 1..end0
  PROVE  [D(cs, time) EXCEPT ![p] = c] = D([cs EXCEPT ![p] = c], time)
<1>1. PICK N \in Nat, k \in Nat, hi \in Nat :
        N = B_END - 1 /\ k = ClockAt /\ hi = end0 /\ hi < k
  BY Places
<1>2. /\ DOMAIN D(cs, time) = 1..N /\ DOMAIN cs = 1..N
      /\ D(cs, time) = [i \in 1..N |-> IF i \in k..k + Len(time) - 1 THEN time[i - k + 1]
                                       ELSE cs[i]]
  BY <1>1 DEF D, Over, Cells
<1>3. PICK ds : ds = [cs EXCEPT ![p] = c]
  OBVIOUS
<1>4. \A i \in 1..N : ds[i] = IF i = p THEN c ELSE cs[i]
  BY <1>2, <1>3
<1>5. ASSUME NEW i \in 1..N
      PROVE  [D(cs, time) EXCEPT ![p] = c][i]
               = IF i \in k..k + Len(time) - 1 THEN time[i - k + 1] ELSE ds[i]
  <2>1. [D(cs, time) EXCEPT ![p] = c][i] = IF i = p THEN c ELSE D(cs, time)[i]
    BY <1>2
  <2>2. p \notin k..k + Len(time) - 1
    BY <1>1
  <2> QED BY <1>2, <1>4, <2>1, <2>2
<1>6. [D(cs, time) EXCEPT ![p] = c] = [i \in 1..N |-> [D(cs, time) EXCEPT ![p] = c][i]]
  BY <1>2
<1>7. D(ds, time) = [i \in 1..N |-> IF i \in k..k + Len(time) - 1 THEN time[i - k + 1]
                                   ELSE ds[i]]
  BY <1>1 DEF D, Over
<1>8. [D(cs, time) EXCEPT ![p] = c] = D(ds, time)
  BY <1>5, <1>6, <1>7
<1> QED BY <1>3, <1>8

\* The cells from k on, a row up.
Moved(cs, k) ==
    [i \in 1..B_END - 1 |->
        IF i \notin k..end0 - 1 THEN cs[i]
        ELSE IF i + COLUMNS < end0 THEN cs[i + COLUMNS] ELSE Zero]

LEMMA DrawnMoved ==
  ASSUME NEW cs \in Cells, NEW time, NEW m \in Nat
  PROVE  Moved(D(cs, time), m) = D(Moved(cs, m), time)
<1>1. PICK N \in Nat, k \in Nat, hi \in Nat, w \in Nat :
        N = B_END - 1 /\ k = ClockAt /\ hi = end0 /\ w = COLUMNS /\ hi < k /\ hi <= N
  BY Places
<1>2. ASSUME NEW i \in 1..N
      PROVE  (IF i \notin m..hi - 1 THEN D(cs, time)[i]
              ELSE IF i + w < hi THEN D(cs, time)[i + w] ELSE Zero)
               = IF i \in k..k + Len(time) - 1 THEN time[i - k + 1] ELSE Moved(cs, m)[i]
  <2>1. CASE i \notin m..hi - 1
    BY <1>1, <2>1 DEF Moved, D, Over
  <2>2. CASE i \in m..hi - 1
    <3>1. i \notin k..k + Len(time) - 1
      BY <1>1, <2>2
    <3>2. CASE i + w < hi
      <4>1. D(cs, time)[i + w] = cs[i + w]
        <5>1. i + w \in 1..hi
          BY <3>2
        <5> QED BY <1>1, <5>1, DrawnBelow
      <4>2. Moved(cs, m)[i] = cs[i + w]
        BY <1>1, <2>2, <3>2 DEF Moved
      <4> QED BY <2>2, <3>1, <3>2, <4>1, <4>2
    <3>3. CASE ~ (i + w < hi)
      BY <1>1, <2>2, <3>1, <3>3 DEF Moved
    <3> QED BY <3>2, <3>3
  <2> QED BY <2>1, <2>2
<1>3. Moved(D(cs, time), m)
        = [i \in 1..N |-> IF i \notin m..hi - 1 THEN D(cs, time)[i]
                          ELSE IF i + w < hi THEN D(cs, time)[i + w] ELSE Zero]
  BY <1>1 DEF Moved
<1>4. D(Moved(cs, m), time)
        = [i \in 1..N |-> IF i \in k..k + Len(time) - 1 THEN time[i - k + 1]
                          ELSE Moved(cs, m)[i]]
  BY <1>1 DEF D, Over
<1> QED BY <1>2, <1>3, <1>4

LEMMA DrawnBack ==
  ASSUME NEW cs, NEW time, NEW p \in start0..end0
  PROVE  /\ Stops(D(cs, time), p) = Stops(cs, p)
         /\ Back(D(cs, time), p) = Back(cs, p)
<1>1. ASSUME NEW q \in start0..p PROVE D(cs, time)[q - 1] = cs[q - 1]
  <2>1. q - 1 \in 1..end0
    BY Places
  <2> QED BY <2>1, DrawnBelow
<1>2. Stops(D(cs, time), p) = Stops(cs, p)
  BY <1>1 DEF Stops
<1> QED BY <1>2 DEF Back

-----------------------------------------------------------------------------
(* Screens of text, and what putc makes of them.                           *)

OnText(s)      == \E cs \in Cells, q \in start0..end0 - 1 : s = T(cs, q)
TextOrEnd(s) == \E cs \in Cells, q \in start0..end0 : s = T(cs, q)
Drawn(s, time) == T(D(s.cells, time), s.current)
Frame(cs, ds) == \A i \in 1..B_END - 1 : i \notin start0..end0 - 1 => ds[i] = cs[i]

LEMMA TextIsText == ASSUME NEW s, OnText(s) PROVE TextOrEnd(s)
<1>1. start0..end0 - 1 \subseteq start0..end0
  BY Places
<1> QED BY <1>1 DEF OnText, TextOrEnd

LEMMA FieldsOfT ==
  ASSUME NEW cs, NEW q
  PROVE  /\ T(cs, q).cells = cs /\ T(cs, q).current = q
         /\ T(cs, q).start = start0 /\ T(cs, q).end = end0
  BY DEF T

LEMMA UpMoved == ASSUME NEW cs PROVE Up(cs) = Moved(cs, start0)
  BY DEF Up, Moved

LEMMA ScrollText ==
  ASSUME NEW s, TextOrEnd(s)
  PROVE  /\ OnText(s) => Scroll(s) = s
         /\ OnText(Scroll(s)) /\ Frame(s.cells, Scroll(s).cells)
         /\ \A time : Clock(time) => Scroll(Drawn(s, time)) = Drawn(Scroll(s), time)
<1>1. PICK cs \in Cells, q \in start0..end0 : s = T(cs, q)
  BY DEF TextOrEnd
<1>2. s.cells = cs /\ s.current = q /\ s.end = end0
  BY <1>1, FieldsOfT
<1>3. ASSUME OnText(s) PROVE Scroll(s) = s /\ q < end0
  <2>1. PICK ds \in Cells, p \in start0..end0 - 1 : s = T(ds, p)
    BY <1>3 DEF OnText
  <2>2. q = p
    BY <1>2, <2>1, FieldsOfT
  <2>3. q < end0
    BY <2>2, Places
  <2> QED BY <1>2, <2>3 DEF Scroll
<1>4. CASE q # end0
  <2>1. q \in start0..end0 - 1
    BY <1>4, Places
  <2>2. OnText(s)
    BY <1>1, <2>1 DEF OnText
  <2>3. Scroll(s) = s
    BY <1>3, <2>2
  <2>4. ASSUME NEW time, Clock(time) PROVE Scroll(Drawn(s, time)) = Drawn(s, time)
    <3>1. Drawn(s, time) = T(D(cs, time), q)
      BY <1>2 DEF Drawn
    <3>2. Drawn(s, time).current = q /\ Drawn(s, time).end = end0 /\ q < end0
      BY <1>3, <2>2, <3>1, FieldsOfT
    <3> QED BY <3>2 DEF Scroll
  <2> QED BY <2>2, <2>3, <2>4 DEF Frame
<1>5. CASE q = end0
  <2>1. Scroll(s) = T(Up(cs), end0 - COLUMNS) /\ Up(cs) \in Cells
    BY <1>1, <1>5, UpIs
  <2>2. end0 - COLUMNS \in start0..end0 - 1
    BY Places
  <2>3. OnText(Scroll(s))
    BY <2>1, <2>2 DEF OnText
  <2>4. Frame(s.cells, Scroll(s).cells)
    <3>1. Scroll(s).cells = Up(cs)
      BY <2>1, FieldsOfT
    <3> QED BY <1>2, <3>1 DEF Frame, Up
  <2>5. ASSUME NEW time, Clock(time) PROVE Scroll(Drawn(s, time)) = Drawn(Scroll(s), time)
    <3>1. Drawn(s, time) = T(D(cs, time), end0) /\ D(cs, time) \in Cells
      BY <1>2, <1>5, <2>5, DrawnCells DEF Drawn
    <3>2. Scroll(Drawn(s, time)) = T(Up(D(cs, time)), end0 - COLUMNS)
      BY <3>1, UpIs
    <3>3. Up(D(cs, time)) = D(Up(cs), time)
      <4>1. start0 \in Nat
        BY Places
      <4> QED BY <4>1, UpMoved, DrawnMoved
    <3>4. Drawn(Scroll(s), time) = T(D(Up(cs), time), end0 - COLUMNS)
      BY <2>1, FieldsOfT DEF Drawn
    <3> QED BY <3>2, <3>3, <3>4
  <2>6. ~ OnText(s)
    <3>1. ~ (q < end0)
      BY <1>5, Places
    <3> QED BY <1>3, <3>1
  <2> QED BY <2>3, <2>4, <2>5, <2>6
<1> QED BY <1>4, <1>5

LEMMA FillText ==
  ASSUME NEW s, TextOrEnd(s), NEW n \in Nat, NEW c \in Glyphs
  PROVE  /\ TextOrEnd(FillBy(s, n, c)) /\ Frame(s.cells, FillBy(s, n, c).cells)
         /\ \A time : Clock(time) => FillBy(Drawn(s, time), n, c) = Drawn(FillBy(s, n, c), time)
<1>1. PICK cs \in Cells, q \in start0..end0 : s = T(cs, q)
  BY DEF TextOrEnd
<1>2. s.cells = cs /\ s.current = q
  BY <1>1, FieldsOfT
<1>3. PICK to : to = To(q, n)
  OBVIOUS
<1>4. /\ FillBy(s, n, c) = T(Filled(cs, q, to, c), to)
      /\ to \in start0..end0 /\ q <= to /\ Filled(cs, q, to, c) \in Cells
  BY <1>1, <1>3, FillByIs
<1>5. FillBy(s, n, c).cells = Filled(cs, q, to, c) /\ FillBy(s, n, c).current = to
  BY <1>4, FieldsOfT
<1>6. Frame(cs, Filled(cs, q, to, c))
  <2>1. q..to - 1 \subseteq start0..end0 - 1
    BY <1>4, Places
  <2> QED BY <2>1 DEF Frame, Filled
<1>7. ASSUME NEW time, Clock(time) PROVE FillBy(Drawn(s, time), n, c) = Drawn(FillBy(s, n, c), time)
  <2>1. Drawn(s, time) = T(D(cs, time), q) /\ D(cs, time) \in Cells
    BY <1>2, <1>7, DrawnCells DEF Drawn
  <2>2. FillBy(Drawn(s, time), n, c) = T(Filled(D(cs, time), q, to, c), to)
    BY <1>3, <2>1, FillByIs
  <2>3. Filled(D(cs, time), q, to, c) = D(Filled(cs, q, to, c), time)
    <3>1. q \in Nat /\ to \in Nat /\ to <= end0
      BY <1>4, Places
    <3> QED BY <3>1, DrawnFilled
  <2>4. Drawn(FillBy(s, n, c), time) = T(D(Filled(cs, q, to, c), time), to)
    BY <1>5 DEF Drawn
  <2> QED BY <2>2, <2>3, <2>4
<1>8. TextOrEnd(FillBy(s, n, c))
  BY <1>4 DEF TextOrEnd
<1> QED BY <1>2, <1>5, <1>6, <1>7, <1>8

\* How far it is to a multiple of w: at least one cell.
LEMMA ToNextIs ==
  ASSUME NEW s, TextOrEnd(s), NEW w \in Nat \ {0}
  PROVE  /\ ToNext(s, w) \in Nat
         /\ \A time : ToNext(Drawn(s, time), w) = ToNext(s, w)
<1>1. PICK cs \in Cells, q \in start0..end0 : s = T(cs, q)
  BY DEF TextOrEnd
<1>2. s.cells = cs /\ s.current = q /\ s.start = start0
  BY <1>1, FieldsOfT
<1>3. PICK d \in Nat : d = q - start0
  BY Places
<1>4. w - (d % w) \in Nat
  BY Z3
<1>5. ToNext(s, w) = w - (d % w)
  BY <1>2, <1>3 DEF ToNext
<1>6. ASSUME NEW time PROVE ToNext(Drawn(s, time), w) = ToNext(s, w)
  BY <1>2 DEF Drawn, T, ToNext
<1> QED BY <1>4, <1>5, <1>6

LEMMA ErasedText ==
  ASSUME NEW s, OnText(s)
  PROVE  /\ OnText(Write(s, "\\b")) /\ Frame(s.cells, Write(s, "\\b").cells)
         /\ \A time : Clock(time) =>
               Write(Drawn(s, time), "\\b") = Drawn(Write(s, "\\b"), time)
<1>1. PICK cs \in Cells, q \in start0..end0 - 1 : s = T(cs, q)
  BY DEF OnText
<1>2. s.cells = cs /\ s.current = q /\ q \in start0..end0
  BY <1>1, FieldsOfT, Places
<1>3. CASE q = start0
  <2>1. Write(s, "\\b") = s
    BY <1>1, <1>2, <1>3, WriteErase
  <2>2. ASSUME NEW time, Clock(time) PROVE Write(Drawn(s, time), "\\b") = Drawn(s, time)
    <3>1. Drawn(s, time) = T(D(cs, time), q) /\ D(cs, time) \in Cells
      BY <1>2, <2>2, DrawnCells DEF Drawn
    <3> QED BY <1>2, <1>3, <3>1, WriteErase
  <2> QED BY <2>1, <2>2 DEF Frame
<1>4. CASE q # start0
  <2>1. PICK ds : ds = [cs EXCEPT ![q - 1] = Blank]
    OBVIOUS
  <2>2. q - 1 \in start0..end0 /\ q - 1 \in 1..end0 /\ q - 1 \in 1..B_END - 1
        /\ q - 1 \in start0..end0 - 1 /\ start0..q - 1 \subseteq start0..end0 - 1
    BY <1>1, <1>4, Places
  <2>3. ds \in Cells
    BY <2>1, <2>2 DEF Cells, Glyphs
  <2>4. Write(s, "\\b") = T(ds, Back(ds, q - 1))
    BY <1>1, <1>2, <1>4, <2>1, WriteErase
  <2>5. Back(ds, q - 1) \in start0..end0 - 1
    BY <2>2, BackIs
  <2>6. OnText(Write(s, "\\b"))
    BY <2>3, <2>4, <2>5 DEF OnText
  <2>7. Frame(s.cells, Write(s, "\\b").cells)
    <3>1. Write(s, "\\b").cells = ds
      BY <2>4, FieldsOfT
    <3> QED BY <1>2, <2>1, <2>2, <3>1 DEF Frame, Cells
  <2>8. ASSUME NEW time, Clock(time)
        PROVE  Write(Drawn(s, time), "\\b") = Drawn(Write(s, "\\b"), time)
    <3>1. Drawn(s, time) = T(D(cs, time), q) /\ D(cs, time) \in Cells
      BY <1>2, <2>8, DrawnCells DEF Drawn
    <3>2. [D(cs, time) EXCEPT ![q - 1] = Blank] = D(ds, time)
      <4>1. PICK k \in 1..end0 : k = q - 1
        BY <2>2
      <4>2. [D(cs, time) EXCEPT ![k] = Blank] = D([cs EXCEPT ![k] = Blank], time)
        BY <2>8, DrawnSet
      <4> QED BY <2>1, <4>1, <4>2
    <3>3. Write(Drawn(s, time), "\\b") = T(D(ds, time), Back(D(ds, time), q - 1))
      BY <1>2, <1>4, <3>1, <3>2, WriteErase
    <3>4. Back(D(ds, time), q - 1) = Back(ds, q - 1)
      BY <2>2, DrawnBack
    <3>5. Drawn(Write(s, "\\b"), time) = T(D(ds, time), Back(ds, q - 1))
      BY <2>4, FieldsOfT DEF Drawn
    <3> QED BY <3>3, <3>4, <3>5
  <2> QED BY <2>6, <2>7, <2>8
<1> QED BY <1>3, <1>4

LEMMA PlainText ==
  ASSUME NEW s, OnText(s), NEW c \in Glyphs, c \notin {"\n", "\t", "\\b"}
  PROVE  /\ TextOrEnd(Write(s, c)) /\ Frame(s.cells, Write(s, c).cells)
         /\ \A time : Clock(time) => Write(Drawn(s, time), c) = Drawn(Write(s, c), time)
<1>1. PICK cs \in Cells, q \in start0..end0 - 1 : s = T(cs, q)
  BY DEF OnText
<1>2. s.cells = cs /\ s.current = q
  BY <1>1, FieldsOfT
<1>3. q \in 1..end0 /\ q \in 1..B_END - 1 /\ q + 1 \in start0..end0
  BY Places
<1>4. PICK ds : ds = [cs EXCEPT ![q] = c]
  OBVIOUS
<1>5. ds \in Cells
  BY <1>4 DEF Cells
<1>6. Write(s, c) = T(ds, q + 1)
  BY <1>1, <1>4, WritePlain
<1>7. TextOrEnd(Write(s, c))
  BY <1>3, <1>5, <1>6 DEF TextOrEnd
<1>8. Frame(s.cells, Write(s, c).cells)
  <2>1. Write(s, c).cells = ds
    BY <1>6, FieldsOfT
  <2> QED BY <1>2, <1>3, <1>4, <2>1 DEF Frame, Cells
<1>9. ASSUME NEW time, Clock(time) PROVE Write(Drawn(s, time), c) = Drawn(Write(s, c), time)
  <2>1. Drawn(s, time) = T(D(cs, time), q)
    BY <1>2 DEF Drawn
  <2>2. Write(Drawn(s, time), c) = T([D(cs, time) EXCEPT ![q] = c], q + 1)
    BY <2>1, WritePlain
  <2>3. [D(cs, time) EXCEPT ![q] = c] = D(ds, time)
    <3>1. PICK p \in 1..end0 : p = q
      BY <1>3
    <3>2. [D(cs, time) EXCEPT ![p] = c] = D([cs EXCEPT ![p] = c], time)
      BY <1>9, DrawnSet
    <3> QED BY <1>4, <3>1, <3>2
  <2>4. Drawn(Write(s, c), time) = T(D(ds, time), q + 1)
    BY <1>6, FieldsOfT DEF Drawn
  <2> QED BY <2>2, <2>3, <2>4
<1> QED BY <1>7, <1>8, <1>9

LEMMA WriteText ==
  ASSUME NEW s, OnText(s), NEW c \in Glyphs
  PROVE  /\ TextOrEnd(Write(s, c)) /\ Frame(s.cells, Write(s, c).cells)
         /\ \A time : Clock(time) => Write(Drawn(s, time), c) = Drawn(Write(s, c), time)
<1>0. TextOrEnd(s) /\ COLUMNS \in Nat \ {0} /\ TAB \in Nat \ {0}
      /\ Blank \in Glyphs /\ Space \in Glyphs
  BY TextIsText, ScreenAssumption DEF ScreenAssumption, Glyphs, Typed
<1>1. CASE c = "\n"
  <2>1. PICK n \in Nat : /\ n = ToNext(s, COLUMNS)
                         /\ \A time : ToNext(Drawn(s, time), COLUMNS) = n
    BY <1>0, ToNextIs
  <2>2. Write(s, c) = FillBy(s, n, Blank)
    BY <1>1, <2>1, WriteLine
  <2>3. \A time : Write(Drawn(s, time), c) = FillBy(Drawn(s, time), n, Blank)
    BY <1>1, <2>1, WriteLine
  <2> QED BY <1>0, <2>2, <2>3, FillText
<1>2. CASE c = "\t"
  <2>1. PICK n \in Nat : /\ n = ToNext(s, TAB)
                         /\ \A time : ToNext(Drawn(s, time), TAB) = n
    BY <1>0, ToNextIs
  <2>2. Write(s, c) = FillBy(s, n, Space)
    BY <1>2, <2>1, WriteTab
  <2>3. \A time : Write(Drawn(s, time), c) = FillBy(Drawn(s, time), n, Space)
    BY <1>2, <2>1, WriteTab
  <2> QED BY <1>0, <2>2, <2>3, FillText
<1>3. CASE c = "\\b"
  BY <1>3, ErasedText, TextIsText
<1>4. CASE c \notin {"\n", "\t", "\\b"}
  BY <1>4, PlainText
<1> QED BY <1>1, <1>2, <1>3, <1>4

LEMMA PutCText ==
  ASSUME NEW s, OnText(s), NEW c \in Glyphs
  PROVE  /\ OnText(PutC(s, c)) /\ Frame(s.cells, PutC(s, c).cells)
         /\ \A time : Clock(time) => PutC(Drawn(s, time), c) = Drawn(PutC(s, c), time)
<1>1. PICK w : w = Write(s, c)
  OBVIOUS
<1>2. /\ TextOrEnd(w) /\ Frame(s.cells, w.cells)
      /\ \A time : Clock(time) => Write(Drawn(s, time), c) = Drawn(w, time)
  BY <1>1, WriteText
<1>3. PutC(s, c) = Scroll(w)
  BY <1>1 DEF PutC
<1>4. /\ OnText(Scroll(w)) /\ Frame(w.cells, Scroll(w).cells)
      /\ \A time : Clock(time) => Scroll(Drawn(w, time)) = Drawn(Scroll(w), time)
  BY <1>2, ScrollText
<1>5. Frame(s.cells, Scroll(w).cells)
  BY <1>2, <1>4 DEF Frame
<1>6. ASSUME NEW time, Clock(time) PROVE PutC(Drawn(s, time), c) = Drawn(Scroll(w), time)
  BY <1>2, <1>4, <1>6 DEF PutC
<1> QED BY <1>3, <1>4, <1>5, <1>6

-----------------------------------------------------------------------------
(* puts, a character after the other.                                      *)

After(s, str) ==
    CHOOSE after : after = [n \in 0..Len(str) |->
                                IF n = 0 THEN s ELSE PutC(after[n - 1], str[n])]

\* The recursion of PutS is defined: there are all of its beginnings.
Begun(f, s, str, m) ==
    f = [n \in 0..m |-> IF n = 0 THEN s ELSE PutC(f[n - 1], str[n])]

LEMMA AfterIs ==
  ASSUME NEW s, NEW str, Len(str) \in Nat
  PROVE  /\ PutS(s, str) = After(s, str)[Len(str)]
         /\ After(s, str)[0] = s
         /\ \A n \in 1..Len(str) : After(s, str)[n] = PutC(After(s, str)[n - 1], str[n])
<1> DEFINE Has == {m \in Nat : \E f : Begun(f, s, str, m)}
<1>1. 0 \in Has
  <2>1. PICK f : f = [n \in 0..0 |-> s]
    OBVIOUS
  <2>2. f = [n \in 0..0 |-> IF n = 0 THEN s ELSE PutC(f[n - 1], str[n])]
    BY <2>1
  <2> QED BY <2>2 DEF Begun
<1>2. ASSUME NEW m \in Nat, m \in Has PROVE m + 1 \in Has
  <2>1. PICK f : Begun(f, s, str, m)
    BY <1>2
  <2>2. PICK g : g = [n \in 0..m + 1 |-> IF n = m + 1 THEN PutC(f[m], str[m + 1]) ELSE f[n]]
    OBVIOUS
  <2>3. ASSUME NEW n \in 0..m + 1
        PROVE  g[n] = IF n = 0 THEN s ELSE PutC(g[n - 1], str[n])
    <3>1. CASE n = 0
      <4>1. n \in 0..m /\ n # m + 1
        BY <3>1
      <4> QED BY <3>1, <4>1, <2>1, <2>2 DEF Begun
    <3>2. CASE n # 0 /\ n # m + 1
      <4>1. n \in 0..m /\ n - 1 \in 0..m /\ n - 1 \in 0..m + 1 /\ n - 1 # m + 1
        BY <3>2
      <4>2. f[n] = PutC(f[n - 1], str[n])
        BY <3>2, <4>1, <2>1 DEF Begun
      <4>3. g[n] = f[n] /\ g[n - 1] = f[n - 1]
        BY <3>2, <4>1, <2>2
      <4> QED BY <3>2, <4>2, <4>3
    <3>3. CASE n = m + 1
      <4>1. n - 1 = m /\ m \in 0..m + 1 /\ m # m + 1 /\ n # 0
        BY <3>3
      <4>2. g[m] = f[m] /\ g[n] = PutC(f[m], str[n])
        BY <3>3, <4>1, <2>2
      <4> QED BY <4>1, <4>2
    <3> QED BY <3>1, <3>2, <3>3
  <2>4. g = [n \in 0..m + 1 |-> g[n]]
    BY <2>2
  <2>5. Begun(g, s, str, m + 1)
    BY <2>3, <2>4 DEF Begun
  <2> QED BY <2>5
<1>3. Len(str) \in Has
  <2> HIDE DEF Has
  <2> QED BY <1>1, <1>2, Induction
<1>4. PICK f : f = [n \in 0..Len(str) |-> IF n = 0 THEN s ELSE PutC(f[n - 1], str[n])]
  BY <1>3 DEF Begun
<1>5. After(s, str) = [n \in 0..Len(str) |->
                         IF n = 0 THEN s ELSE PutC(After(s, str)[n - 1], str[n])]
  BY <1>4, Zenon DEF After
<1>6. PutS(s, str) = After(s, str)[Len(str)]
  BY DEF PutS, After
<1> QED BY <1>5, <1>6

LEMMA PutSNone == ASSUME NEW s PROVE PutS(s, <<>>) = s
<1>1. Len(<<>>) = 0
  OBVIOUS
<1> QED BY <1>1, AfterIs

LEMMA PutSFirst ==
  ASSUME NEW s, NEW str \in Seq(Glyphs), str # <<>>
  PROVE  PutS(s, str) = PutS(PutC(s, Head(str)), Tail(str))
<1>1. PICK k \in Nat : /\ Len(str) = k + 1 /\ Len(Tail(str)) = k
                       /\ \A n \in 1..k : Tail(str)[n] = str[n + 1]
                       /\ Head(str) = str[1]
  <2>1. /\ Tail(str) \in Seq(Glyphs) /\ Len(Tail(str)) = Len(str) - 1
        /\ \A n \in 1..Len(Tail(str)) : Tail(str)[n] = str[n + 1]
    BY HeadTailProperties, Zenon
  <2>2. PICK tl \in Seq(Glyphs) : tl = Tail(str)
    BY <2>1
  <2>3. PICK k \in Nat, m \in Nat : k = Len(tl) /\ m = Len(str)
    OBVIOUS
  <2>4. m = k + 1
    BY <2>1, <2>2, <2>3
  <2>5. Head(str) = str[1]
    OBVIOUS
  <2> QED BY <2>1, <2>2, <2>3, <2>4, <2>5
<1>2. PICK f : f = After(s, str)
  OBVIOUS
<1>3. PICK g : g = After(PutC(s, Head(str)), Tail(str))
  OBVIOUS
<1>4. /\ PutS(s, str) = f[k + 1] /\ f[0] = s
      /\ \A n \in 1..k + 1 : f[n] = PutC(f[n - 1], str[n])
  <2>1. Len(str) \in Nat
    BY <1>1
  <2> QED BY <2>1, <1>1, <1>2, AfterIs
<1>5. /\ PutS(PutC(s, Head(str)), Tail(str)) = g[k] /\ g[0] = PutC(s, str[1])
      /\ \A n \in 1..k : g[n] = PutC(g[n - 1], str[n + 1])
  <2>1. Len(Tail(str)) \in Nat
    BY <1>1
  <2>2. /\ PutS(PutC(s, Head(str)), Tail(str)) = g[Len(Tail(str))]
        /\ g[0] = PutC(s, Head(str))
        /\ \A n \in 1..Len(Tail(str)) : g[n] = PutC(g[n - 1], Tail(str)[n])
    <3>1. PICK r, tl : r = PutC(s, Head(str)) /\ tl = Tail(str)
      OBVIOUS
    <3>2. Len(tl) \in Nat /\ g = After(r, tl)
      BY <2>1, <1>3, <3>1
    <3>3. /\ PutS(r, tl) = g[Len(tl)] /\ g[0] = r
          /\ \A n \in 1..Len(tl) : g[n] = PutC(g[n - 1], tl[n])
      BY <3>2, AfterIs
    <3> QED BY <3>1, <3>3
  <2> QED BY <1>1, <2>2
<1> DEFINE Same == {n \in Nat : n <= k => g[n] = f[n + 1]}
<1>6. 0 \in Same
  <2>1. f[0 + 1] = PutC(f[0], str[1])
    BY <1>4
  <2> QED BY <1>4, <1>5, <2>1
<1>7. ASSUME NEW n \in Nat, n \in Same PROVE n + 1 \in Same
  <2>1. SUFFICES ASSUME n + 1 <= k PROVE g[n + 1] = f[(n + 1) + 1]
    OBVIOUS
  <2>2. g[n] = f[n + 1]
    BY <1>7, <2>1
  <2>3. n + 1 \in 1..k /\ (n + 1) - 1 = n
    BY <2>1
  <2>4. g[n + 1] = PutC(g[n], str[(n + 1) + 1])
    BY <1>5, <2>3
  <2>5. (n + 1) + 1 \in 1..k + 1 /\ ((n + 1) + 1) - 1 = n + 1
    BY <2>1
  <2>6. f[(n + 1) + 1] = PutC(f[n + 1], str[(n + 1) + 1])
    BY <1>4, <2>5
  <2> QED BY <2>2, <2>4, <2>6
<1>8. k \in Same
  <2> HIDE DEF Same
  <2> QED BY <1>6, <1>7, Induction
<1> QED BY <1>4, <1>5, <1>8

LEMMA PutSText ==
  ASSUME NEW s, OnText(s), NEW str \in Seq(Glyphs)
  PROVE  /\ OnText(PutS(s, str)) /\ Frame(s.cells, PutS(s, str).cells)
         /\ \A time : Clock(time) => PutS(Drawn(s, time), str) = Drawn(PutS(s, str), time)
<1>1. PICK k \in Nat : Len(str) = k
  OBVIOUS
<1>2. PICK f : f = After(s, str)
  OBVIOUS
<1>3. /\ PutS(s, str) = f[k] /\ f[0] = s
      /\ \A n \in 1..k : f[n] = PutC(f[n - 1], str[n])
  BY <1>1, <1>2, AfterIs
<1>4. \A n \in 1..k : str[n] \in Glyphs
  BY <1>1
<1>5. OnText(f[k]) /\ Frame(s.cells, f[k].cells)
  <2> DEFINE Good == {n \in Nat : n <= k => OnText(f[n]) /\ Frame(s.cells, f[n].cells)}
  <2>1. 0 \in Good
    BY <1>3 DEF Frame
  <2>2. ASSUME NEW n \in Nat, n \in Good PROVE n + 1 \in Good
    <3>1. SUFFICES ASSUME n + 1 <= k
                   PROVE  OnText(f[n + 1]) /\ Frame(s.cells, f[n + 1].cells)
      OBVIOUS
    <3>2. OnText(f[n]) /\ Frame(s.cells, f[n].cells)
      BY <2>2, <3>1
    <3>3. n + 1 \in 1..k /\ (n + 1) - 1 = n
      BY <3>1
    <3>4. f[n + 1] = PutC(f[n], str[n + 1]) /\ str[n + 1] \in Glyphs
      BY <1>3, <1>4, <3>3
    <3>5. OnText(f[n + 1]) /\ Frame(f[n].cells, f[n + 1].cells)
      BY <3>2, <3>4, PutCText
    <3> QED BY <3>2, <3>5 DEF Frame
  <2>3. k \in Good
    <3> HIDE DEF Good
    <3> QED BY <2>1, <2>2, Induction
  <2> QED BY <2>3
<1>6. ASSUME NEW time, Clock(time) PROVE PutS(Drawn(s, time), str) = Drawn(f[k], time)
  <2>1. PICK r, g : r = Drawn(s, time) /\ g = After(r, str)
    OBVIOUS
  <2>2. /\ PutS(Drawn(s, time), str) = g[k] /\ g[0] = Drawn(s, time)
        /\ \A n \in 1..k : g[n] = PutC(g[n - 1], str[n])
    <3>1. /\ PutS(r, str) = g[k] /\ g[0] = r
          /\ \A n \in 1..k : g[n] = PutC(g[n - 1], str[n])
      BY <1>1, <2>1, AfterIs
    <3> QED BY <2>1, <3>1
  <2> DEFINE Same == {n \in Nat : n <= k => OnText(f[n]) /\ g[n] = Drawn(f[n], time)}
  <2>3. 0 \in Same
    BY <1>3, <2>2
  <2>4. ASSUME NEW n \in Nat, n \in Same PROVE n + 1 \in Same
    <3>1. SUFFICES ASSUME n + 1 <= k
                   PROVE  OnText(f[n + 1]) /\ g[n + 1] = Drawn(f[n + 1], time)
      OBVIOUS
    <3>2. OnText(f[n]) /\ g[n] = Drawn(f[n], time)
      BY <2>4, <3>1
    <3>3. n + 1 \in 1..k /\ (n + 1) - 1 = n
      BY <3>1
    <3>4. /\ f[n + 1] = PutC(f[n], str[n + 1]) /\ str[n + 1] \in Glyphs
          /\ g[n + 1] = PutC(g[n], str[n + 1])
      BY <1>3, <1>4, <2>2, <3>3
    <3> QED BY <1>6, <3>2, <3>4, PutCText
  <2>5. k \in Same
    <3> HIDE DEF Same
    <3> QED BY <2>3, <2>4, Induction
  <2> QED BY <2>2, <2>5
<1> QED BY <1>3, <1>5, <1>6

-----------------------------------------------------------------------------
(* puts_at, of a string without control characters.                        *)

W(cs, p) == [cells |-> cs, start |-> B_START, end |-> B_END, current |-> p]

\* The first n characters.
OverFor(cs, str, pos, n) ==
    [i \in 1..B_END - 1 |-> IF i \in pos..pos + n - 1 THEN str[i - pos + 1] ELSE cs[i]]

LEMMA PutPlain ==
  ASSUME NEW cs, NEW p, p + 1 < B_END, NEW c, c \notin {"\n", "\t", "\\b"}
  PROVE  PutC(W(cs, p), c) = W([cs EXCEPT ![p] = c], p + 1)
<1>1. Write(W(cs, p), c) = W([cs EXCEPT ![p] = c], p + 1)
  BY DEF Write, W
<1>2. W([cs EXCEPT ![p] = c], p + 1).current = p + 1
      /\ W([cs EXCEPT ![p] = c], p + 1).end = B_END
  BY DEF W
<1> QED BY <1>1, <1>2 DEF PutC, Scroll

LEMMA OverStep ==
  ASSUME NEW cs \in Cells, NEW str, NEW pos \in Nat \ {0}, NEW n \in Nat,
         pos + n < B_END, NEW q, q = pos + n, NEW c, c = str[n + 1],
         NEW a, a = OverFor(cs, str, pos, n)
  PROVE  [a EXCEPT ![q] = c] = OverFor(cs, str, pos, n + 1)
<1>1. PICK N \in Nat : N = B_END - 1 /\ pos + n <= N
  BY Places
<1>2. PICK b : b = OverFor(cs, str, pos, n + 1)
  OBVIOUS
<1>3. /\ a = [i \in 1..N |-> IF i \in pos..pos + n - 1 THEN str[i - pos + 1] ELSE cs[i]]
      /\ b = [i \in 1..N |-> IF i \in pos..pos + (n + 1) - 1 THEN str[i - pos + 1] ELSE cs[i]]
  BY <1>1, <1>2 DEF OverFor
<1>4. PICK d : d = [a EXCEPT ![q] = c]
  OBVIOUS
<1>5. d = [i \in 1..N |-> IF i = pos + n THEN str[n + 1] ELSE a[i]]
  BY <1>3, <1>4
<1>6. ASSUME NEW i \in 1..N PROVE d[i] = b[i]
  <2>1. CASE i = pos + n
    <3>1. i - pos + 1 = n + 1 /\ i \in pos..pos + (n + 1) - 1
      BY <2>1
    <3> QED BY <1>3, <1>5, <2>1, <3>1
  <2>2. CASE i # pos + n
    <3>1. i \in pos..pos + (n + 1) - 1 <=> i \in pos..pos + n - 1
      BY <2>2
    <3> QED BY <1>3, <1>5, <2>2, <3>1
  <2> QED BY <2>1, <2>2
<1>7. d = b
  <2>1. d = [i \in 1..N |-> d[i]] /\ b = [i \in 1..N |-> b[i]]
    BY <1>3, <1>5
  <2> QED BY <1>6, <2>1
<1> QED BY <1>2, <1>4, <1>7

LEMMA PutsAtIs ==
  ASSUME NEW cs \in Cells, NEW str, Plain(str), NEW pos \in Nat \ {0},
         pos + Len(str) < B_END
  PROVE  PutsAt(cs, str, pos) = Over(cs, str, pos)
<1>1. PICK k \in Nat : Len(str) = k
  BY StringsGlyphs
<1>2. PICK f : f = After(W(cs, pos), str)
  OBVIOUS
<1>3. /\ PutS(W(cs, pos), str) = f[k] /\ f[0] = W(cs, pos)
      /\ \A n \in 1..k : f[n] = PutC(f[n - 1], str[n])
  BY <1>1, <1>2, AfterIs
<1> DEFINE Good == {n \in Nat : n <= k => f[n] = W(OverFor(cs, str, pos, n), pos + n)}
<1>4. 0 \in Good
  <2>1. OverFor(cs, str, pos, 0) = cs
    <3>1. pos..pos + 0 - 1 = {}
      OBVIOUS
    <3>2. OverFor(cs, str, pos, 0) = [i \in 1..B_END - 1 |-> cs[i]]
      BY <3>1 DEF OverFor
    <3> QED BY <3>2 DEF Cells
  <2>2. pos + 0 = pos
    OBVIOUS
  <2> QED BY <1>3, <2>1, <2>2
<1>5. ASSUME NEW n \in Nat, n \in Good PROVE n + 1 \in Good
  <2>1. SUFFICES ASSUME n + 1 <= k
                 PROVE  f[n + 1] = W(OverFor(cs, str, pos, n + 1), pos + (n + 1))
    OBVIOUS
  <2>2. f[n] = W(OverFor(cs, str, pos, n), pos + n)
    BY <1>5, <2>1
  <2>3. n + 1 \in 1..k /\ (n + 1) - 1 = n
    BY <2>1
  <2>4. f[n + 1] = PutC(f[n], str[n + 1]) /\ str[n + 1] \notin {"\n", "\t", "\\b"}
    BY <1>1, <1>3, <2>3 DEF Plain
  <2>5. (pos + n) + 1 < B_END /\ pos + n < B_END /\ pos + (n + 1) = (pos + n) + 1
    BY <1>1, <2>1, Places
  <2>6. PICK ds, q, c : ds = OverFor(cs, str, pos, n) /\ q = pos + n /\ c = str[n + 1]
    OBVIOUS
  <2>7. q + 1 < B_END /\ c \notin {"\n", "\t", "\\b"}
    BY <2>4, <2>5, <2>6
  <2>8. PutC(W(ds, q), c) = W([ds EXCEPT ![q] = c], q + 1)
    BY <2>7, PutPlain
  <2>9. [ds EXCEPT ![q] = c] = OverFor(cs, str, pos, n + 1)
    BY <2>5, <2>6, OverStep
  <2> QED BY <2>2, <2>4, <2>5, <2>6, <2>8, <2>9
<1>6. k \in Good
  <2> HIDE DEF Good
  <2> QED BY <1>4, <1>5, Induction
<1>7. f[k].cells = OverFor(cs, str, pos, k)
  BY <1>6 DEF W
<1>8. PutsAt(cs, str, pos) = f[k].cells
  BY <1>3 DEF PutsAt, W
<1>9. OverFor(cs, str, pos, k) = Over(cs, str, pos)
  BY <1>1 DEF OverFor, Over
<1> QED BY <1>7, <1>8, <1>9

LEMMA OverNone == ASSUME NEW cs \in Cells, NEW p \in Nat PROVE Over(cs, <<>>, p) = cs
<1>1. Len(<<>>) = 0
  OBVIOUS
<1>2. p..p + Len(<<>>) - 1 = {}
  BY <1>1
<1>3. Over(cs, <<>>, p) = [i \in 1..B_END - 1 |-> cs[i]]
  BY <1>2 DEF Over
<1> QED BY <1>3 DEF Cells

LEMMA OverFirst ==
  ASSUME NEW cs \in Cells, NEW str \in Seq(Glyphs), str # <<>>, NEW p \in 1..B_END - 1
  PROVE  Over(cs, str, p) = Over([cs EXCEPT ![p] = Head(str)], Tail(str), p + 1)
<1>1. PICK N \in Nat : N = B_END - 1
  BY Places
<1>2. PICK tl \in Seq(Glyphs), n \in Nat :
        /\ tl = Tail(str) /\ Len(tl) = n /\ Len(str) = n + 1
        /\ \A i \in 1..n : tl[i] = str[i + 1]
  <2>1. /\ Tail(str) \in Seq(Glyphs) /\ Len(Tail(str)) = Len(str) - 1
        /\ \A n \in 1..Len(Tail(str)) : Tail(str)[n] = str[n + 1]
    BY HeadTailProperties, Zenon
  <2>2. PICK tl \in Seq(Glyphs) : tl = Tail(str)
    BY <2>1
  <2>3. PICK k \in Nat, m \in Nat : k = Len(tl) /\ m = Len(str)
    OBVIOUS
  <2>4. m = k + 1
    BY <2>1, <2>2, <2>3
  <2> QED BY <2>1, <2>2, <2>3, <2>4
<1>3. Head(str) = str[1]
  OBVIOUS
<1>4. PICK ds : ds = [cs EXCEPT ![p] = Head(str)]
  OBVIOUS
<1>5. \A i \in 1..N : ds[i] = IF i = p THEN str[1] ELSE cs[i]
  BY <1>1, <1>3, <1>4 DEF Cells
<1>6. ASSUME NEW i \in 1..N
      PROVE  (IF i \in p..p + (n + 1) - 1 THEN str[i - p + 1] ELSE cs[i])
               = IF i \in p + 1..p + 1 + n - 1 THEN tl[i - (p + 1) + 1] ELSE ds[i]
  <2>1. CASE i = p
    <3>1. i \in p..p + (n + 1) - 1 /\ i \notin p + 1..p + 1 + n - 1 /\ i - p + 1 = 1
      BY <1>1, <1>2, <2>1
    <3> QED BY <1>5, <2>1, <3>1
  <2>2. CASE i # p
    <3>1. p \in Nat
      OBVIOUS
    <3>2. i \in p..p + (n + 1) - 1 <=> i \in p + 1..p + 1 + n - 1
      BY <1>2, <2>2, <3>1
    <3>3. CASE i \in p + 1..p + 1 + n - 1
      <4>1. i - (p + 1) + 1 \in 1..n /\ i - (p + 1) + 1 + 1 = i - p + 1
        BY <1>2, <3>1, <3>3
      <4> QED BY <1>2, <3>2, <3>3, <4>1
    <3>4. CASE i \notin p + 1..p + 1 + n - 1
      BY <1>5, <2>2, <3>2, <3>4
    <3> QED BY <3>3, <3>4
  <2> QED BY <2>1, <2>2
<1>7. Over(cs, str, p)
        = [i \in 1..N |-> IF i \in p..p + (n + 1) - 1 THEN str[i - p + 1] ELSE cs[i]]
  BY <1>1, <1>2 DEF Over
<1>8. Over(ds, tl, p + 1)
        = [i \in 1..N |-> IF i \in p + 1..p + 1 + n - 1 THEN tl[i - (p + 1) + 1] ELSE ds[i]]
  BY <1>1, <1>2 DEF Over
<1>9. Over(cs, str, p) = Over(ds, tl, p + 1)
  <2> SUFFICES [i \in 1..N |-> IF i \in p..p + (n + 1) - 1 THEN str[i - p + 1] ELSE cs[i]]
                 = [i \in 1..N |-> IF i \in p + 1..p + 1 + n - 1 THEN tl[i - (p + 1) + 1]
                                  ELSE ds[i]]
    BY <1>7, <1>8
  <2> QED BY <1>6
<1> QED BY <1>2, <1>4, <1>9

\* The title is above the text, the clock below.
LEMMA DrawnOver ==
  ASSUME NEW cs \in Cells, NEW time, NEW str, NEW p \in Nat, Len(str) \in Nat,
         p + Len(str) <= ClockAt
  PROVE  Over(D(cs, time), str, p) = D(Over(cs, str, p), time)
<1>1. PICK N \in Nat, k \in Nat, n \in Nat :
        N = B_END - 1 /\ k = ClockAt /\ n = Len(str)
  BY Places
<1>2. ASSUME NEW i \in 1..N
      PROVE  (IF i \in p..p + n - 1 THEN str[i - p + 1] ELSE D(cs, time)[i])
               = IF i \in k..k + Len(time) - 1 THEN time[i - k + 1] ELSE Over(cs, str, p)[i]
  <2>1. CASE i \in p..p + n - 1
    <3>1. i \notin k..k + Len(time) - 1
      BY <1>1, <2>1
    <3> QED BY <1>1, <2>1, <3>1 DEF Over
  <2>2. CASE i \notin p..p + n - 1
    BY <1>1, <2>2 DEF Over, D
  <2> QED BY <2>1, <2>2
<1>3. Over(D(cs, time), str, p)
        = [i \in 1..N |-> IF i \in p..p + n - 1 THEN str[i - p + 1] ELSE D(cs, time)[i]]
  BY <1>1 DEF Over
<1>4. D(Over(cs, str, p), time)
        = [i \in 1..N |-> IF i \in k..k + Len(time) - 1 THEN time[i - k + 1]
                          ELSE Over(cs, str, p)[i]]
  BY <1>1 DEF Over, D
<1> QED BY <1>2, <1>3, <1>4

-----------------------------------------------------------------------------
(* The loops: a round more or less makes no difference to the end.         *)

LEMMA FilledStep ==
  ASSUME NEW cs \in Cells, NEW c, NEW p \in Nat, NEW to \in Nat, 1 <= p, p < to, to <= B_END
  PROVE  Filled([cs EXCEPT ![p] = c], p + 1, to, c) = Filled(cs, p, to, c)
<1>1. PICK N \in Nat : N = B_END - 1 /\ p \in 1..N
  BY Places
<1>2. PICK ds : ds = [cs EXCEPT ![p] = c]
  OBVIOUS
<1>3. \A i \in 1..N : ds[i] = IF i = p THEN c ELSE cs[i]
  BY <1>1, <1>2 DEF Cells
<1>4. ASSUME NEW i \in 1..N
      PROVE  (IF i \in p + 1..to - 1 THEN c ELSE ds[i]) = IF i \in p..to - 1 THEN c ELSE cs[i]
  <2>1. i \in p..to - 1 <=> i \in p + 1..to - 1 \/ i = p
    OBVIOUS
  <2> QED BY <1>3, <2>1
<1>5. /\ Filled(ds, p + 1, to, c) = [i \in 1..N |-> IF i \in p + 1..to - 1 THEN c ELSE ds[i]]
      /\ Filled(cs, p, to, c) = [i \in 1..N |-> IF i \in p..to - 1 THEN c ELSE cs[i]]
  BY <1>1 DEF Filled
<1> QED BY <1>2, <1>4, <1>5

LEMMA FilledNone ==
  ASSUME NEW cs \in Cells, NEW c, NEW p \in Nat
  PROVE  Filled(cs, p, p, c) = cs
<1>1. p..p - 1 = {}
  OBVIOUS
<1>2. Filled(cs, p, p, c) = [i \in 1..B_END - 1 |-> cs[i]]
  BY <1>1 DEF Filled
<1> QED BY <1>2 DEF Cells

LEMMA MovedStep ==
  ASSUME NEW cs \in Cells, NEW p \in Nat, NEW q \in Nat, 1 <= p, q = p + COLUMNS, q < end0
  PROVE  Moved([cs EXCEPT ![p] = cs[q]], p + 1) = Moved(cs, p)
<1>1. PICK N \in Nat, hi \in Nat, w \in Nat :
        /\ N = B_END - 1 /\ hi = end0 /\ w = COLUMNS /\ w > 0 /\ hi <= N
        /\ p \in 1..N /\ q = p + w
  BY Places
<1>2. PICK ds : ds = [cs EXCEPT ![p] = cs[q]]
  OBVIOUS
<1>3. \A i \in 1..N : ds[i] = IF i = p THEN cs[q] ELSE cs[i]
  BY <1>1, <1>2 DEF Cells
<1>4. ASSUME NEW i \in 1..N
      PROVE  (IF i \notin p + 1..hi - 1 THEN ds[i]
              ELSE IF i + w < hi THEN ds[i + w] ELSE Zero)
               = IF i \notin p..hi - 1 THEN cs[i]
                 ELSE IF i + w < hi THEN cs[i + w] ELSE Zero
  <2>1. CASE i = p
    <3>1. i \in p..hi - 1 /\ i \notin p + 1..hi - 1 /\ i + w < hi /\ i + w = q
      BY <1>1, <2>1
    <3> QED BY <1>3, <2>1, <3>1
  <2>2. CASE i # p
    <3>1. i \in p..hi - 1 <=> i \in p + 1..hi - 1
      BY <1>1, <2>2
    <3>2. CASE i \in p + 1..hi - 1 /\ i + w < hi
      <4>1. i + w \in 1..N /\ i + w # p
        BY <1>1, <3>2
      <4> QED BY <1>3, <3>1, <3>2, <4>1
    <3>3. CASE i \notin p + 1..hi - 1
      BY <1>3, <2>2, <3>1, <3>3
    <3>4. CASE i \in p + 1..hi - 1 /\ ~ (i + w < hi)
      BY <3>1, <3>4
    <3> QED BY <3>2, <3>3, <3>4
  <2> QED BY <2>1, <2>2
<1>5. /\ Moved(ds, p + 1) = [i \in 1..N |-> IF i \notin p + 1..hi - 1 THEN ds[i]
                                          ELSE IF i + w < hi THEN ds[i + w] ELSE Zero]
      /\ Moved(cs, p) = [i \in 1..N |-> IF i \notin p..hi - 1 THEN cs[i]
                                       ELSE IF i + w < hi THEN cs[i + w] ELSE Zero]
  BY <1>1 DEF Moved
<1>6. Moved(ds, p + 1) = Moved(cs, p)
  <2> SUFFICES [i \in 1..N |-> IF i \notin p + 1..hi - 1 THEN ds[i]
                              ELSE IF i + w < hi THEN ds[i + w] ELSE Zero]
                 = [i \in 1..N |-> IF i \notin p..hi - 1 THEN cs[i]
                                  ELSE IF i + w < hi THEN cs[i + w] ELSE Zero]
    BY <1>5
  <2> QED BY <1>4
<1> QED BY <1>2, <1>6

LEMMA MovedLast ==
  ASSUME NEW cs, NEW p \in Nat, p = end0 - COLUMNS
  PROVE  Moved(cs, p) = Filled(cs, p, end0, Zero)
<1>1. PICK N \in Nat, hi \in Nat, w \in Nat :
        N = B_END - 1 /\ hi = end0 /\ w = COLUMNS /\ p = hi - w
  BY Places
<1>2. \A i \in 1..N : i \in p..hi - 1 => ~ (i + w < hi)
  BY <1>1
<1>3. Moved(cs, p) = [i \in 1..N |-> IF i \notin p..hi - 1 THEN cs[i]
                                    ELSE IF i + w < hi THEN cs[i + w] ELSE Zero]
  BY <1>1 DEF Moved
<1>4. Filled(cs, p, end0, Zero) = [i \in 1..N |-> IF i \in p..hi - 1 THEN Zero ELSE cs[i]]
  BY <1>1 DEF Filled
<1> QED BY <1>2, <1>3, <1>4

LEMMA MovedIs ==
  ASSUME NEW cs \in Cells, NEW p \in Nat, 1 <= p PROVE Moved(cs, p) \in Cells
<1>1. PICK N \in Nat, hi \in Nat, w \in Nat :
        N = B_END - 1 /\ hi = end0 /\ w = COLUMNS /\ hi <= N
  BY Places
<1>2. Zero \in Glyphs /\ \A i \in 1..N : cs[i] \in Glyphs
  BY <1>1 DEF Glyphs, Cells
<1>3. \A i \in 1..N : i + w < hi => i + w \in 1..N
  BY <1>1
<1> QED BY <1>1, <1>2, <1>3 DEF Moved, Cells

-----------------------------------------------------------------------------
(* The invariant.                                                          *)

\* What the screen will be when the running putc is over.
Todo(label, l, cs, p) ==
    CASE label = "putc"   -> PutC(T(cs, p), l.c)
      [] label = "fill"   -> Scroll(FillBy(T(cs, p), l.n, l.c))
      [] label = "erase"  -> T(cs, Back(cs, p))
      [] label = "clamp"  -> Scroll(T(cs, p))
      [] label = "scroll" -> T(Moved(cs, l.p1), end0 - COLUMNS)
      [] label = "zero"   -> T(Filled(cs, l.p1, end0, Zero), end0 - COLUMNS)
      [] OTHER            -> T(cs, p)

\* Where current and the pointers of the scroll are at each label.
Within(label, l, p) ==
    /\ p \in start0..end0
    /\ label \notin {"fill", "clamp", "scroll"} => p # end0
    /\ label = "scroll" => /\ p = end0 /\ l.p1 \in start0..end0 - COLUMNS
                           /\ l.p2 = l.p1 + COLUMNS
    /\ label = "zero" => /\ p = end0 - COLUMNS
                         /\ l.p1 \in end0 - COLUMNS..end0

TextLabels  == {"enter puts", "puts", "putc", "fill", "erase", "clamp", "scroll", "zero", "show"}
TitleLabels == {"enter puts_at", "enter puts", "puts", "putc", "clamp", "show", "leave puts_at"}
Labels      == {"idle", "clear"} \cup TextLabels \cup TitleLabels

LocalsSet == [str : Seq(Glyphs), n : Nat, c : Glyphs, p1 : Nat, p2 : Nat,
              copy : BOOLEAN, inputs : BOOLEAN, prev : Nat \X Nat \X Nat, at : Nat]

Shape(t) ==
    /\ Threads = {t}
    /\ cells \in Cells
    /\ want \in [cells : Cells, current : start0..end0 - 1]
    /\ hw \in B_START..B_END - 1
    /\ update_cursor_bool \in BOOLEAN /\ torn \in BOOLEAN
    /\ pc \in [Threads -> Labels]
    /\ L \in [Threads -> LocalsSet]

InText == start = start0 /\ end = end0
Shown  == torn \/ hw = want.current

IdleInv(t) ==
    pc[t] = "idle" =>
        /\ InText /\ update_cursor_bool = TRUE /\ Shown
        /\ cells = want.cells /\ current = want.current

ClearInv(t) ==
    pc[t] = "clear" =>
        /\ InText /\ update_cursor_bool = TRUE /\ L[t].at = 0
        /\ current \in start0..end0
        /\ want.cells = Filled(cells, current, end0, Blank) /\ want.current = start0

TextInv(t) ==
    pc[t] \in TextLabels /\ L[t].at = 0 =>
        /\ InText
        /\ Within(pc[t], L[t], current)
        /\ PutS(Todo(pc[t], L[t], cells, current), L[t].str) = T(want.cells, want.current)
        /\ L[t].inputs => L[t].copy = TRUE /\ pc[t] # "enter puts"
        /\ ~L[t].inputs => /\ update_cursor_bool = TRUE /\ pc[t] # "puts"
                           /\ pc[t] # "enter puts" => L[t].str = <<>>

Easy(str) == \A i \in 1..Len(str) : str[i] \notin {"\n", "\t", "\\b"}

\* On the way from cell p on: a title of which str is left.
Titled(str, cs, p) ==
    /\ Easy(str) /\ p \in Nat \ {0} /\ p + Len(str) <= COLUMNS
    /\ Over(cs, str, p) = want.cells

Entering(t) ==
    /\ InText /\ current = want.current /\ update_cursor_bool = TRUE /\ Shown
    /\ Titled(L[t].str, cells, L[t].at)

Inside(t) ==
    /\ start = B_START /\ end = B_END
    /\ L[t].prev = <<start0, end0, want.current>>
    /\ torn \/ /\ hw = want.current /\ update_cursor_bool = FALSE
               /\ pc[t] # "enter puts" => L[t].copy = FALSE
    /\ pc[t] # "enter puts" => L[t].inputs = TRUE
    /\ current \in Nat \ {0} /\ current <= COLUMNS
    /\ pc[t] = "leave puts_at" => cells = want.cells
    /\ pc[t] = "putc" => /\ L[t].c \notin {"\n", "\t", "\\b"}
                         /\ Titled(L[t].str, [cells EXCEPT ![current] = L[t].c], current + 1)
    /\ pc[t] \notin {"putc", "leave puts_at"} => Titled(L[t].str, cells, current)

TitleInv(t) ==
    pc[t] # "idle" /\ L[t].at # 0 =>
        /\ pc[t] \in TitleLabels
        /\ pc[t] = "enter puts_at" => Entering(t)
        /\ pc[t] # "enter puts_at" => Inside(t)

AtInv(t) == L[t].at = 0 => pc[t] \notin {"enter puts_at", "leave puts_at"}

Modes(t) == IdleInv(t) /\ ClearInv(t) /\ TextInv(t) /\ TitleInv(t) /\ AtInv(t)
IInv(t)  == Shape(t) /\ Modes(t)
-----------------------------------------------------------------------------
(* What is left to do keeps off the frame and does not see the clock.      *)

LEMMA TIsText ==
  ASSUME NEW cs \in Cells, NEW p \in start0..end0
  PROVE  /\ TextOrEnd(T(cs, p))
         /\ p # end0 => OnText(T(cs, p))
         /\ \A time : Drawn(T(cs, p), time) = T(D(cs, time), p)
<1>1. p # end0 => p \in start0..end0 - 1
  BY Places
<1>2. TextOrEnd(T(cs, p))
  BY DEF TextOrEnd
<1>3. p # end0 => OnText(T(cs, p))
  BY <1>1 DEF OnText
<1>4. \A time : Drawn(T(cs, p), time) = T(D(cs, time), p)
  BY FieldsOfT DEF Drawn
<1> QED BY <1>2, <1>3, <1>4

LEMMA TodoFill ==
  ASSUME NEW cs \in Cells, NEW p \in start0..end0, NEW n \in Nat, NEW c \in Glyphs,
         NEW td, td = Scroll(FillBy(T(cs, p), n, c))
  PROVE  /\ OnText(td) /\ Frame(cs, td.cells)
         /\ \A time : Clock(time) =>
               Scroll(FillBy(T(D(cs, time), p), n, c)) = Drawn(td, time)
<1>1. PICK s, fs : s = T(cs, p) /\ fs = FillBy(s, n, c)
  OBVIOUS
<1>2. TextOrEnd(s) /\ s.cells = cs
  <2>1. s.cells = cs
    BY <1>1, FieldsOfT
  <2>2. TextOrEnd(s)
    BY <1>1, TIsText
  <2> QED BY <2>1, <2>2
<1>3. /\ TextOrEnd(fs) /\ Frame(s.cells, fs.cells)
      /\ \A time : Clock(time) => FillBy(Drawn(s, time), n, c) = Drawn(fs, time)
  BY <1>1, <1>2, FillText
<1>4. /\ OnText(td) /\ Frame(fs.cells, td.cells)
      /\ \A time : Clock(time) => Scroll(Drawn(fs, time)) = Drawn(td, time)
  BY <1>1, <1>3, ScrollText
<1>5. Frame(cs, td.cells)
  BY <1>2, <1>3, <1>4 DEF Frame
<1>6. \A time : Drawn(s, time) = T(D(cs, time), p)
  BY <1>1, TIsText
<1> QED BY <1>3, <1>4, <1>5, <1>6

LEMMA TodoScroll ==
  ASSUME NEW cs \in Cells, NEW p1 \in start0..end0 - COLUMNS,
         NEW td, td = T(Moved(cs, p1), end0 - COLUMNS)
  PROVE  /\ OnText(td) /\ Frame(cs, td.cells)
         /\ \A time : Clock(time) =>
               T(Moved(D(cs, time), p1), end0 - COLUMNS) = Drawn(td, time)
<1>1. /\ end0 - COLUMNS \in start0..end0 - 1 /\ p1 \in Nat /\ 1 <= p1 /\ start0 <= p1
      /\ start0 \in Nat /\ end0 \in Nat
  BY Places
<1>2. Moved(cs, p1) \in Cells /\ td.cells = Moved(cs, p1)
  BY <1>1, MovedIs, FieldsOfT
<1>3. OnText(td)
  BY <1>1, <1>2 DEF OnText
<1>4. Frame(cs, Moved(cs, p1))
  BY <1>1 DEF Frame, Moved
<1>5. \A time : Moved(D(cs, time), p1) = D(Moved(cs, p1), time)
  BY <1>1, DrawnMoved
<1>6. \A time : Drawn(td, time) = T(D(Moved(cs, p1), time), end0 - COLUMNS)
  BY FieldsOfT DEF Drawn
<1> QED BY <1>2, <1>3, <1>4, <1>5, <1>6

LEMMA TodoZero ==
  ASSUME NEW cs \in Cells, NEW p1 \in end0 - COLUMNS..end0,
         NEW td, td = T(Filled(cs, p1, end0, Zero), end0 - COLUMNS)
  PROVE  /\ OnText(td) /\ Frame(cs, td.cells)
         /\ \A time : Clock(time) =>
               T(Filled(D(cs, time), p1, end0, Zero), end0 - COLUMNS) = Drawn(td, time)
<1>1. /\ end0 - COLUMNS \in start0..end0 - 1 /\ p1 \in Nat /\ 1 <= p1 /\ start0 <= p1
      /\ start0 \in Nat /\ end0 \in Nat /\ p1 <= end0 /\ end0 <= B_END
  BY Places
<1>2. Zero \in Glyphs
  BY DEF Glyphs
<1>3. Filled(cs, p1, end0, Zero) \in Cells /\ td.cells = Filled(cs, p1, end0, Zero)
  BY <1>1, <1>2, FillIs, FieldsOfT
<1>4. OnText(td)
  BY <1>1, <1>3 DEF OnText
<1>5. Frame(cs, Filled(cs, p1, end0, Zero))
  BY <1>1 DEF Frame, Filled
<1>6. \A time : Filled(D(cs, time), p1, end0, Zero) = D(Filled(cs, p1, end0, Zero), time)
  BY <1>1, DrawnFilled
<1>7. \A time : Drawn(td, time) = T(D(Filled(cs, p1, end0, Zero), time), end0 - COLUMNS)
  BY FieldsOfT DEF Drawn
<1> QED BY <1>3, <1>4, <1>5, <1>6, <1>7

LEMMA TodoErase ==
  ASSUME NEW cs \in Cells, NEW p \in start0..end0, p # end0,
         NEW td, td = T(cs, Back(cs, p))
  PROVE  /\ OnText(td) /\ Frame(cs, td.cells)
         /\ \A time : Clock(time) => T(D(cs, time), Back(D(cs, time), p)) = Drawn(td, time)
<1>1. Back(cs, p) \in start0..p
  BY BackIs
<1>2. Back(cs, p) \in start0..end0 - 1
  BY <1>1, Places
<1>3. OnText(td)
  BY <1>2 DEF OnText
<1>4. td.cells = cs
  BY FieldsOfT
<1>5. \A time : Back(D(cs, time), p) = Back(cs, p)
  BY DrawnBack
<1>6. \A time : Drawn(td, time) = T(D(cs, time), Back(cs, p))
  BY FieldsOfT DEF Drawn
<1> QED BY <1>3, <1>4, <1>5, <1>6 DEF Frame

LEMMA TodoPutc ==
  ASSUME NEW cs \in Cells, NEW p \in start0..end0, p # end0, NEW c \in Glyphs,
         NEW td, td = PutC(T(cs, p), c)
  PROVE  /\ OnText(td) /\ Frame(cs, td.cells)
         /\ \A time : Clock(time) => PutC(T(D(cs, time), p), c) = Drawn(td, time)
<1>1. PICK s : s = T(cs, p)
  OBVIOUS
<1>2. OnText(s) /\ s.cells = cs /\ \A time : Drawn(s, time) = T(D(cs, time), p)
  <2>1. s.cells = cs
    BY <1>1, FieldsOfT
  <2>2. OnText(s) /\ \A time : Drawn(s, time) = T(D(cs, time), p)
    BY <1>1, TIsText
  <2> QED BY <2>1, <2>2
<1>3. /\ OnText(td) /\ Frame(s.cells, td.cells)
      /\ \A time : Clock(time) => PutC(Drawn(s, time), c) = Drawn(td, time)
  BY <1>1, <1>2, PutCText
<1> QED BY <1>2, <1>3

LEMMA TodoClamp ==
  ASSUME NEW cs \in Cells, NEW p \in start0..end0,
         NEW td, td = Scroll(T(cs, p))
  PROVE  /\ OnText(td) /\ Frame(cs, td.cells)
         /\ \A time : Clock(time) => Scroll(T(D(cs, time), p)) = Drawn(td, time)
<1>1. PICK s : s = T(cs, p)
  OBVIOUS
<1>2. TextOrEnd(s) /\ s.cells = cs /\ \A time : Drawn(s, time) = T(D(cs, time), p)
  <2>1. s.cells = cs
    BY <1>1, FieldsOfT
  <2>2. TextOrEnd(s) /\ \A time : Drawn(s, time) = T(D(cs, time), p)
    BY <1>1, TIsText
  <2> QED BY <2>1, <2>2
<1>3. /\ OnText(td) /\ Frame(s.cells, td.cells)
      /\ \A time : Clock(time) => Scroll(Drawn(s, time)) = Drawn(td, time)
  BY <1>1, <1>2, ScrollText
<1> QED BY <1>2, <1>3

LEMMA TodoText ==
  ASSUME NEW cs \in Cells, NEW l \in LocalsSet, NEW label \in TextLabels, NEW p,
         Within(label, l, p)
  PROVE  /\ OnText(Todo(label, l, cs, p)) /\ Frame(cs, Todo(label, l, cs, p).cells)
         /\ \A time : Clock(time) =>
               Todo(label, l, D(cs, time), p) = Drawn(Todo(label, l, cs, p), time)
<1> p \in start0..end0
  BY DEF Within
<1>1. CASE label = "putc"
  <2>1. l.c \in Glyphs /\ p # end0
    BY <1>1 DEF LocalsSet, Within
  <2>2. \A ds : Todo(label, l, ds, p) = PutC(T(ds, p), l.c)
    BY <1>1 DEF Todo
  <2> QED BY <2>1, <2>2, TodoPutc
<1>2. CASE label = "fill"
  <2>1. l.c \in Glyphs /\ l.n \in Nat
    BY DEF LocalsSet
  <2>2. \A ds : Todo(label, l, ds, p) = Scroll(FillBy(T(ds, p), l.n, l.c))
    BY <1>2 DEF Todo
  <2> QED BY <2>1, <2>2, TodoFill
<1>3. CASE label = "erase"
  <2>1. p # end0
    BY <1>3 DEF Within
  <2>2. \A ds : Todo(label, l, ds, p) = T(ds, Back(ds, p))
    BY <1>3 DEF Todo
  <2> QED BY <2>1, <2>2, TodoErase
<1>4. CASE label = "clamp"
  <2>1. \A ds : Todo(label, l, ds, p) = Scroll(T(ds, p))
    BY <1>4 DEF Todo
  <2> QED BY <2>1, TodoClamp
<1>5. CASE label = "scroll"
  <2>1. l.p1 \in start0..end0 - COLUMNS
    BY <1>5 DEF Within
  <2>2. \A ds : Todo(label, l, ds, p) = T(Moved(ds, l.p1), end0 - COLUMNS)
    BY <1>5 DEF Todo
  <2> QED BY <2>1, <2>2, TodoScroll
<1>6. CASE label = "zero"
  <2>1. l.p1 \in end0 - COLUMNS..end0
    BY <1>6 DEF Within
  <2>2. \A ds : Todo(label, l, ds, p) = T(Filled(ds, l.p1, end0, Zero), end0 - COLUMNS)
    BY <1>6 DEF Todo
  <2> QED BY <2>1, <2>2, TodoZero
<1>7. CASE label \in {"enter puts", "puts", "show"}
  <2>1. p # end0
    BY <1>7 DEF Within
  <2>2. \A ds : Todo(label, l, ds, p) = T(ds, p)
    BY <1>7 DEF Todo
  <2>3. T(cs, p).cells = cs
    BY FieldsOfT
  <2>4. OnText(T(cs, p)) /\ \A time : Drawn(T(cs, p), time) = T(D(cs, time), p)
    BY <2>1, TIsText
  <2>5. Frame(cs, cs)
    BY DEF Frame
  <2> QED BY <2>2, <2>3, <2>4, <2>5
<1> QED BY <1>1, <1>2, <1>3, <1>4, <1>5, <1>6, <1>7 DEF TextLabels

-----------------------------------------------------------------------------
(* The invariant is inductive.                                             *)

LEMMA GotoIs ==
  ASSUME NEW t, Shape(t), NEW label \in Labels, Goto(t, label)
  PROVE  pc'[t] = label /\ pc' \in [Threads -> Labels]
BY DEF Shape, Goto

LEMMA SetIs ==
  ASSUME NEW t, Shape(t), NEW l \in LocalsSet, SetLocals(t, l)
  PROVE  L'[t] = l /\ L' \in [Threads -> LocalsSet]
BY DEF Shape, SetLocals

LEMMA LocalsIn == Locals \in LocalsSet
<1>1. <<>> \in Seq(Glyphs)
  OBVIOUS
<1>2. Blank \in Glyphs
  BY DEF Glyphs
<1> QED BY <1>1, <1>2 DEF Locals, LocalsSet

LEMMA SetN ==
  ASSUME NEW l \in LocalsSet, NEW n \in Nat
  PROVE  [l EXCEPT !.n = n] \in LocalsSet
BY DEF LocalsSet

LEMMA SetNC ==
  ASSUME NEW l \in LocalsSet, NEW n \in Nat, NEW c \in Glyphs
  PROVE  [l EXCEPT !.n = n, !.c = c] \in LocalsSet
BY DEF LocalsSet

LEMMA SetPointer ==
  ASSUME NEW l \in LocalsSet, NEW p \in Nat
  PROVE  [l EXCEPT !.p1 = p] \in LocalsSet
BY DEF LocalsSet

LEMMA SetPointers ==
  ASSUME NEW l \in LocalsSet, NEW p \in Nat, NEW q \in Nat
  PROVE  [l EXCEPT !.p1 = p, !.p2 = q] \in LocalsSet
BY DEF LocalsSet

\* What the locals of the thread are.
LEMMA LocalsAre ==
  ASSUME NEW t, Shape(t)
  PROVE  L[t] \in LocalsSet /\ pc[t] \in Labels
BY DEF Shape

LEMMA FieldsIn ==
  ASSUME NEW l \in LocalsSet
  PROVE  /\ l.str \in Seq(Glyphs) /\ Len(l.str) \in Nat
         /\ l.n \in Nat /\ l.c \in Glyphs /\ l.p1 \in Nat /\ l.p2 \in Nat
         /\ l.at \in Nat
<1>1. /\ l.str \in Seq(Glyphs) /\ l.n \in Nat /\ l.c \in Glyphs
      /\ l.p1 \in Nat /\ l.p2 \in Nat /\ l.at \in Nat
  BY DEF LocalsSet
<1>2. Len(l.str) \in Nat
  BY <1>1
<1> QED BY <1>1, <1>2

LEMMA TInjective ==
  ASSUME NEW cs, NEW p, NEW ds, NEW q, T(cs, p) = T(ds, q)
  PROVE  cs = ds /\ p = q
<1>1. T(cs, p).cells = T(ds, q).cells /\ T(cs, p).current = T(ds, q).current
  OBVIOUS
<1> QED BY <1>1, FieldsOfT

\* A step in a putc of text that changes nothing of what is to come.
Kept(t) ==
    /\ L'[t].str = L[t].str /\ L'[t].at = 0
    /\ L'[t].copy = L[t].copy /\ L'[t].inputs = L[t].inputs

LEMMA TextStep ==
  ASSUME NEW t, IInv(t), L[t].at = 0, pc[t] \in TextLabels \ {"enter puts"},
         cells' \in Cells, hw' \in B_START..B_END - 1,
         pc' \in [Threads -> Labels], pc'[t] \in TextLabels \ {"enter puts"},
         pc'[t] = "puts" => L[t].inputs,
         L' \in [Threads -> LocalsSet], Kept(t),
         UNCHANGED <<start, end, update_cursor_bool, want, torn>>,
         Within(pc'[t], L'[t], current'),
         Todo(pc'[t], L'[t], cells', current') = Todo(pc[t], L[t], cells, current)
  PROVE  IInv(t)'
<1>1. Shape(t)'
  BY DEF IInv, Shape
<1>2. pc'[t] \notin {"idle", "clear", "enter puts_at", "leave puts_at"} /\ L'[t].at = 0
  BY DEF TextLabels, Kept
<1>3. /\ InText
      /\ PutS(Todo(pc[t], L[t], cells, current), L[t].str) = T(want.cells, want.current)
      /\ L[t].inputs => L[t].copy = TRUE
      /\ ~L[t].inputs => update_cursor_bool = TRUE /\ L[t].str = <<>>
  BY DEF IInv, Modes, TextInv
<1>4. InText'
  BY <1>3 DEF InText
<1>5. PutS(Todo(pc'[t], L'[t], cells', current'), L'[t].str) = T(want'.cells, want'.current)
  BY <1>3 DEF Kept
<1>6. /\ L'[t].inputs => L'[t].copy = TRUE /\ pc'[t] # "enter puts"
      /\ ~L'[t].inputs => /\ update_cursor_bool' = TRUE /\ pc'[t] # "puts"
                          /\ pc'[t] # "enter puts" => L'[t].str = <<>>
  BY <1>3 DEF Kept
<1>7. TextInv(t)'
  BY <1>4, <1>5, <1>6 DEF TextInv
<1>8. IdleInv(t)' /\ ClearInv(t)' /\ TitleInv(t)' /\ AtInv(t)'
  BY <1>2 DEF IdleInv, ClearInv, TitleInv, AtInv
<1> QED BY <1>1, <1>7, <1>8 DEF IInv, Modes

\* Where a putc of text is.
LEMMA TextFacts ==
  ASSUME NEW t, IInv(t), L[t].at = 0, pc[t] \in TextLabels
  PROVE  /\ start = start0 /\ end = end0 /\ cells \in Cells
         /\ current \in start0..end0 /\ Within(pc[t], L[t], current)
         /\ hw \in B_START..B_END - 1 /\ L[t] \in LocalsSet
BY DEF IInv, Modes, Shape, TextInv, InText, Within

\* Only a putc of text fills, erases and scrolls.
LEMMA OnlyText ==
  ASSUME NEW t, IInv(t), pc[t] \in {"fill", "erase", "scroll", "zero"}
  PROVE  L[t].at = 0 /\ pc[t] \in TextLabels
BY DEF IInv, Modes, TitleInv, TitleLabels, TextLabels

LEMMA SetCell ==
  ASSUME NEW cs \in Cells, NEW p, NEW c \in Glyphs
  PROVE  [cs EXCEPT ![p] = c] \in Cells
BY DEF Cells

LEMMA TextLabelsIn == TextLabels \subseteq Labels
BY DEF Labels

LEMMA FillRound ==
  ASSUME NEW cs \in Cells, NEW p \in start0..end0, p < end0, NEW n \in Nat, n > 0,
         NEW c \in Glyphs
  PROVE  FillBy(T([cs EXCEPT ![p] = c], p + 1), n - 1, c) = FillBy(T(cs, p), n, c)
<1>1. PICK ds : ds = [cs EXCEPT ![p] = c]
  OBVIOUS
<1>2. ds \in Cells /\ p + 1 \in start0..end0 /\ n - 1 \in Nat /\ p \in Nat /\ 1 <= p
  <2>1. ds \in Cells
    BY <1>1, SetCell
  <2>2. p + 1 \in start0..end0 /\ n - 1 \in Nat /\ p \in Nat /\ 1 <= p
    BY Places
  <2> QED BY <2>1, <2>2
<1>3. To(p + 1, n - 1) = To(p, n) /\ To(p, n) \in Nat /\ p < To(p, n) /\ To(p, n) <= B_END
  BY <1>2, Places DEF To
<1>4. Filled(ds, p + 1, To(p, n), c) = Filled(cs, p, To(p, n), c)
  BY <1>1, <1>2, <1>3, FilledStep
<1>5. FillBy(T(ds, p + 1), n - 1, c) = T(Filled(ds, p + 1, To(p, n), c), To(p, n))
  BY <1>2, <1>3, FillByIs
<1>6. FillBy(T(cs, p), n, c) = T(Filled(cs, p, To(p, n), c), To(p, n))
  BY FillByIs
<1> QED BY <1>1, <1>4, <1>5, <1>6

LEMMA FillOver ==
  ASSUME NEW cs \in Cells, NEW p \in start0..end0, NEW n \in Nat, n = 0 \/ p = end0,
         NEW c \in Glyphs
  PROVE  FillBy(T(cs, p), n, c) = T(cs, p)
<1>1. To(p, n) = p /\ p \in Nat
  BY Places DEF To
<1>2. FillBy(T(cs, p), n, c) = T(Filled(cs, p, p, c), p)
  BY <1>1, FillByIs
<1>3. Filled(cs, p, p, c) = cs
  BY <1>1, FilledNone
<1> QED BY <1>2, <1>3

LEMMA FillCellStep ==
  ASSUME NEW t, IInv(t), FillCell(t) PROVE IInv(t)'
<1>1. pc[t] = "fill"
  BY DEF FillCell
<1>2. L[t].at = 0 /\ pc[t] \in TextLabels \ {"enter puts"}
  BY <1>1, OnlyText
<1>3. /\ start = start0 /\ end = end0 /\ cells \in Cells
      /\ current \in start0..end0 /\ hw \in B_START..B_END - 1
  BY <1>2, TextFacts
<1>4. Shape(t) /\ L[t] \in LocalsSet
  BY LocalsAre DEF IInv
<1>5. L[t].n \in Nat /\ L[t].c \in Glyphs
  BY <1>4, FieldsIn
<1>6. UNCHANGED <<start, end, update_cursor_bool, hw, want, torn>>
  BY DEF FillCell
<1>7. CASE L[t].n > 0 /\ current < end
  <2>1. /\ cells' = [cells EXCEPT ![current] = L[t].c] /\ current' = current + 1
        /\ SetLocals(t, [L[t] EXCEPT !.n = @ - 1]) /\ UNCHANGED pc
    BY <1>7 DEF FillCell
  <2>2. [L[t] EXCEPT !.n = @ - 1] \in LocalsSet
    <3>1. L[t].n - 1 \in Nat
      BY <1>5, <1>7
    <3> QED BY <1>4, <3>1, SetN
  <2>3. L'[t] = [L[t] EXCEPT !.n = @ - 1] /\ L' \in [Threads -> LocalsSet]
    BY <1>4, <2>1, <2>2, SetIs
  <2>4. L'[t].n = L[t].n - 1 /\ L'[t].c = L[t].c
    BY <1>4, <2>3 DEF LocalsSet
  <2>5. Kept(t)
    BY <1>2, <1>4, <2>3 DEF LocalsSet, Kept
  <2>6. cells' \in Cells
    BY <1>3, <1>5, <2>1, SetCell
  <2>7. pc'[t] = "fill" /\ pc' \in [Threads -> Labels]
    BY <1>1, <1>4, <2>1 DEF Shape
  <2>8. Within(pc'[t], L'[t], current')
    BY <1>3, <1>7, <2>1, <2>7, Places DEF Within
  <2>9. FillBy(T(cells', current'), L'[t].n, L'[t].c) = FillBy(T(cells, current), L[t].n, L[t].c)
    BY <1>3, <1>5, <1>7, <2>1, <2>4, FillRound
  <2>10. Todo(pc'[t], L'[t], cells', current') = Todo(pc[t], L[t], cells, current)
    BY <1>1, <2>7, <2>9 DEF Todo
  <2> QED BY <1>1, <1>2, <1>3, <1>6, <2>3, <2>5, <2>6, <2>7, <2>8, <2>10, TextStep
<1>8. CASE ~(L[t].n > 0 /\ current < end)
  <2>1. Goto(t, "clamp") /\ UNCHANGED <<cells, current, L>>
    BY <1>8 DEF FillCell
  <2>2. pc'[t] = "clamp" /\ pc' \in [Threads -> Labels]
    BY <1>4, <2>1, GotoIs DEF Labels, TextLabels
  <2>3. Kept(t) /\ L' \in [Threads -> LocalsSet]
    BY <1>2, <1>4, <2>1 DEF Kept, Shape
  <2>4. L[t].n = 0 \/ current = end0
    BY <1>3, <1>5, <1>8, Places
  <2>5. FillBy(T(cells, current), L[t].n, L[t].c) = T(cells, current)
    BY <1>3, <1>5, <2>4, FillOver
  <2>6. Todo(pc'[t], L'[t], cells', current') = Todo(pc[t], L[t], cells, current)
    BY <1>1, <2>1, <2>2, <2>5 DEF Todo
  <2>7. Within(pc'[t], L'[t], current')
    BY <1>3, <2>1, <2>2 DEF Within
  <2>8. pc'[t] \in TextLabels \ {"enter puts"}
    BY <2>2 DEF TextLabels
  <2> QED BY <1>2, <1>3, <1>6, <2>1, <2>2, <2>3, <2>6, <2>7, <2>8, TextStep
<1> QED BY <1>7, <1>8

LEMMA StopsIs ==
  ASSUME NEW cs, NEW p \in start0..end0
  PROVE  p \in Stops(cs, p) <=> (p = start0 \/ cs[p - 1] # Blank \/ (p - start0) % COLUMNS = 0)
<1>1. p = start0 => p \in Stops(cs, p)
  BY FirstStops
<1>2. p \in start0..p
  BY Places
<1> QED BY <1>1, <1>2 DEF Stops

LEMMA EraseBlankStep ==
  ASSUME NEW t, IInv(t), EraseBlank(t) PROVE IInv(t)'
<1>1. pc[t] = "erase"
  BY DEF EraseBlank
<1>2. L[t].at = 0 /\ pc[t] \in TextLabels \ {"enter puts"}
  BY <1>1, OnlyText
<1>3. /\ start = start0 /\ end = end0 /\ cells \in Cells
      /\ current \in start0..end0 /\ hw \in B_START..B_END - 1
      /\ Within("erase", L[t], current)
  BY <1>1, <1>2, TextFacts
<1>4. Shape(t) /\ current # end0
  BY <1>3 DEF IInv, Within
<1>5. UNCHANGED <<cells, start, end, update_cursor_bool, hw, L, want, torn>>
  BY DEF EraseBlank
<1>6. Kept(t) /\ L' \in [Threads -> LocalsSet]
  BY <1>2, <1>4, <1>5 DEF Kept, Shape
<1>7. GoesBack <=> current \notin Stops(cells, current)
  BY <1>3, StopsIs, Places DEF GoesBack
<1>8. CASE GoesBack
  <2>1. current' = current - 1 /\ UNCHANGED pc
    BY <1>8 DEF EraseBlank
  <2>2. current - 1 \in start0..end0 /\ Back(cells, current) = Back(cells, current - 1)
    BY <1>3, <1>7, <1>8, BackGoes
  <2>3. pc'[t] = "erase" /\ pc' \in [Threads -> Labels]
    BY <1>1, <1>4, <2>1 DEF Shape
  <2>4. current - 1 # end0
    BY <1>3, Places
  <2>5. Within(pc'[t], L'[t], current')
    BY <2>1, <2>2, <2>3, <2>4 DEF Within
  <2>6. Todo(pc'[t], L'[t], cells', current') = Todo(pc[t], L[t], cells, current)
    BY <1>1, <1>5, <2>1, <2>2, <2>3 DEF Todo
  <2> QED BY <1>1, <1>2, <1>3, <1>5, <1>6, <2>3, <2>5, <2>6, TextStep
<1>9. CASE ~GoesBack
  <2>1. Goto(t, "clamp") /\ UNCHANGED current
    BY <1>9 DEF EraseBlank
  <2>2. pc'[t] = "clamp" /\ pc' \in [Threads -> Labels]
    BY <1>4, <2>1, GotoIs DEF Labels, TextLabels
  <2>3. Back(cells, current) = current
    BY <1>3, <1>7, <1>9, BackStays
  <2>4. OnText(T(cells, current)) /\ TextOrEnd(T(cells, current))
    BY <1>3, <1>4, TIsText
  <2>5. Scroll(T(cells, current)) = T(cells, current)
    BY <2>4, ScrollText
  <2>6. Todo(pc'[t], L'[t], cells', current') = Todo(pc[t], L[t], cells, current)
    BY <1>1, <1>5, <2>1, <2>2, <2>3, <2>5 DEF Todo
  <2>7. Within(pc'[t], L'[t], current')
    BY <1>3, <2>1, <2>2 DEF Within
  <2>8. pc'[t] \in TextLabels \ {"enter puts"}
    BY <2>2 DEF TextLabels
  <2> QED BY <1>2, <1>3, <1>5, <1>6, <2>2, <2>6, <2>7, <2>8, TextStep
<1> QED BY <1>8, <1>9

LEMMA MaxTwo ==
  ASSUME NEW a \in Nat, NEW b \in Nat, b <= a
  PROVE  Max({a, b}) = a
<1>1. a \in {a, b} /\ \A y \in {a, b} : a >= y
  OBVIOUS
<1>2. \A x \in {a, b} : (\A y \in {a, b} : x >= y) => x = a
  OBVIOUS
<1> QED BY <1>1, <1>2 DEF Max

LEMMA ClampText ==
  ASSUME NEW t, IInv(t), Clamp(t), L[t].at = 0 PROVE IInv(t)'
<1>1. pc[t] = "clamp"
  BY DEF Clamp
<1>2. pc[t] \in TextLabels \ {"enter puts"}
  BY <1>1 DEF TextLabels
<1>3. /\ start = start0 /\ end = end0 /\ cells \in Cells
      /\ current \in start0..end0 /\ hw \in B_START..B_END - 1
  BY <1>2, TextFacts
<1>4. Shape(t) /\ L[t] \in LocalsSet
  BY LocalsAre DEF IInv
<1>5. UNCHANGED <<cells, start, end, update_cursor_bool, hw, want, torn>>
  BY DEF Clamp
<1>6. CASE current = end0
  <2>1. current >= start /\ PastEnd
    BY <1>3, <1>6, Places DEF PastEnd
  <2>2. SetLocals(t, [L[t] EXCEPT !.p1 = start,
                   !.p2 = start + ScrollOver([current |-> current, end |-> end])])
    BY <2>1 DEF Clamp
  <2>3. Goto(t, "scroll") /\ UNCHANGED current
    BY <2>1 DEF Clamp
  <2>4. ScrollOver([current |-> current, end |-> end]) = COLUMNS
    <3>1. ScrollOver([current |-> current, end |-> end]) = ((end0 - end0) \div COLUMNS + 1) * COLUMNS
      BY <1>3, <1>6 DEF ScrollOver
    <3>2. end0 - end0 = 0 /\ 0 \div COLUMNS = 0
      BY Places
    <3> QED BY <3>1, <3>2, Places
  <2>5. SetLocals(t, [L[t] EXCEPT !.p1 = start0, !.p2 = start0 + COLUMNS])
    BY <1>3, <2>2, <2>4
  <2>6. start0 \in Nat /\ start0 + COLUMNS \in Nat
    BY Places
  <2>7. [L[t] EXCEPT !.p1 = start0, !.p2 = start0 + COLUMNS] \in LocalsSet
    BY <1>4, <2>6, SetPointers
  <2>8. /\ L'[t] = [L[t] EXCEPT !.p1 = start0, !.p2 = start0 + COLUMNS]
        /\ L' \in [Threads -> LocalsSet]
    BY <1>4, <2>5, <2>7, SetIs
  <2>9. L'[t].p1 = start0 /\ L'[t].p2 = start0 + COLUMNS
    BY <1>4, <2>8 DEF LocalsSet
  <2>10. Kept(t)
    BY <1>4, <2>8 DEF LocalsSet, Kept
  <2>11. pc'[t] = "scroll" /\ pc' \in [Threads -> Labels]
    BY <1>4, <2>3, GotoIs DEF Labels, TextLabels
  <2>12. Within(pc'[t], L'[t], current')
    BY <1>6, <2>3, <2>9, <2>11, Places DEF Within
  <2>13. Scroll(T(cells, end0)) = T(Moved(cells, start0), end0 - COLUMNS)
    BY <1>3, UpIs, UpMoved
  <2>14. Todo(pc'[t], L'[t], cells', current') = Todo(pc[t], L[t], cells, current)
    BY <1>1, <1>5, <1>6, <2>9, <2>11, <2>13 DEF Todo
  <2>15. pc'[t] \in TextLabels \ {"enter puts"}
    BY <2>11 DEF TextLabels
  <2> QED BY <1>2, <1>3, <1>5, <2>8, <2>10, <2>11, <2>12, <2>14, <2>15, TextStep
<1>7. CASE current # end0
  <2>1. ~(current >= start /\ PastEnd)
    BY <1>3, <1>7, Places DEF PastEnd
  <2>2. current' = Max({current, start}) /\ Goto(t, "show") /\ UNCHANGED L
    BY <2>1 DEF Clamp
  <2>3. current \in Nat /\ start \in Nat /\ start <= current
    BY <1>3, Places
  <2>4. current' = current
    BY <2>2, <2>3, MaxTwo
  <2>5. pc'[t] = "show" /\ pc' \in [Threads -> Labels]
    BY <1>4, <2>2, GotoIs DEF Labels, TextLabels
  <2>6. Kept(t) /\ L' \in [Threads -> LocalsSet]
    BY <1>4, <2>2 DEF Kept, Shape
  <2>7. OnText(T(cells, current)) /\ TextOrEnd(T(cells, current))
    BY <1>3, <1>7, TIsText
  <2>8. Scroll(T(cells, current)) = T(cells, current)
    BY <2>7, ScrollText
  <2>9. Todo(pc'[t], L'[t], cells', current') = Todo(pc[t], L[t], cells, current)
    BY <1>1, <1>5, <2>4, <2>5, <2>8 DEF Todo
  <2>10. Within(pc'[t], L'[t], current')
    BY <1>3, <1>7, <2>4, <2>5 DEF Within
  <2>11. pc'[t] \in TextLabels \ {"enter puts"}
    BY <2>5 DEF TextLabels
  <2> QED BY <1>2, <1>3, <1>5, <2>5, <2>6, <2>9, <2>10, <2>11, TextStep
<1> QED BY <1>6, <1>7

LEMMA ScrollCellStep ==
  ASSUME NEW t, IInv(t), ScrollCell(t) PROVE IInv(t)'
<1>1. pc[t] = "scroll"
  BY DEF ScrollCell
<1>2. L[t].at = 0 /\ pc[t] \in TextLabels \ {"enter puts"}
  BY <1>1, OnlyText
<1>3. /\ start = start0 /\ end = end0 /\ cells \in Cells
      /\ hw \in B_START..B_END - 1 /\ Within("scroll", L[t], current)
  BY <1>1, <1>2, TextFacts
<1>4. Shape(t) /\ L[t] \in LocalsSet
  BY LocalsAre DEF IInv
<1>5. /\ L[t].p1 \in start0..end0 - COLUMNS /\ L[t].p2 = L[t].p1 + COLUMNS
      /\ current = end0
  BY <1>3 DEF Within
<1>6. UNCHANGED <<start, end, update_cursor_bool, hw, want, torn>>
  BY DEF ScrollCell
<1>7. PICK p, q : p = L[t].p1 /\ q = L[t].p2
  OBVIOUS
<1>8. p \in Nat /\ q \in Nat /\ 1 <= p /\ start0 <= p /\ p <= end0 - COLUMNS /\ q = p + COLUMNS
  BY <1>5, <1>7, Places
<1>9. CASE q < end0
  <2>1. /\ cells' = [cells EXCEPT ![p] = cells[q]]
        /\ SetLocals(t, [L[t] EXCEPT !.p1 = @ + 1, !.p2 = @ + 1])
        /\ UNCHANGED <<current, pc>>
    BY <1>3, <1>7, <1>9 DEF ScrollCell
  <2>2. p + 1 \in Nat /\ q + 1 \in Nat
    BY <1>8
  <2>3. [L[t] EXCEPT !.p1 = p + 1, !.p2 = q + 1] \in LocalsSet
    BY <1>4, <2>2, SetPointers
  <2>4. SetLocals(t, [L[t] EXCEPT !.p1 = p + 1, !.p2 = q + 1])
    BY <1>7, <2>1
  <2>5. L'[t] = [L[t] EXCEPT !.p1 = p + 1, !.p2 = q + 1] /\ L' \in [Threads -> LocalsSet]
    BY <1>4, <2>3, <2>4, SetIs
  <2>6. L'[t].p1 = p + 1 /\ L'[t].p2 = q + 1
    BY <1>4, <2>5 DEF LocalsSet
  <2>7. Kept(t)
    BY <1>2, <1>4, <2>5 DEF LocalsSet, Kept
  <2>8. cells[q] \in Glyphs
    <3>1. q \in 1..B_END - 1
      BY <1>8, <1>9, Places
    <3> QED BY <1>3, <3>1 DEF Cells
  <2>9. cells' \in Cells
    BY <1>3, <2>1, <2>8, SetCell
  <2>10. pc'[t] = "scroll" /\ pc' \in [Threads -> Labels]
    BY <1>1, <1>4, <2>1 DEF Shape
  <2>11. p + 1 \in start0..end0 - COLUMNS /\ q + 1 = (p + 1) + COLUMNS
    BY <1>8, <1>9, Places
  <2>12. current' \in start0..end0 /\ current' = end0
    BY <1>5, <2>1, Places
  <2>13. Within(pc'[t], L'[t], current')
    BY <2>6, <2>10, <2>11, <2>12 DEF Within
  <2>14. Moved(cells', p + 1) = Moved(cells, p)
    BY <1>3, <1>8, <1>9, <2>1, MovedStep
  <2>15. Todo(pc'[t], L'[t], cells', current') = Todo(pc[t], L[t], cells, current)
    BY <1>1, <1>7, <2>6, <2>10, <2>14 DEF Todo
  <2> QED BY <1>1, <1>2, <1>3, <1>6, <2>5, <2>7, <2>9, <2>10, <2>13, <2>15, TextStep
<1>10. CASE ~(q < end0)
  <2>1. current' = p /\ Goto(t, "zero") /\ UNCHANGED <<cells, L>>
    BY <1>3, <1>7, <1>10 DEF ScrollCell
  <2>2. p = end0 - COLUMNS /\ p \in end0 - COLUMNS..end0 /\ p \in start0..end0 /\ p # end0
    BY <1>8, <1>10, Places
  <2>3. pc'[t] = "zero" /\ pc' \in [Threads -> Labels]
    BY <1>4, <2>1, GotoIs DEF Labels, TextLabels
  <2>4. Kept(t) /\ L' \in [Threads -> LocalsSet]
    BY <1>2, <1>4, <2>1 DEF Kept, Shape
  <2>5. Moved(cells, p) = Filled(cells, p, end0, Zero)
    BY <1>8, <2>2, MovedLast
  <2>6. Todo(pc'[t], L'[t], cells', current') = Todo(pc[t], L[t], cells, current)
    BY <1>1, <1>7, <2>1, <2>3, <2>5 DEF Todo
  <2>7. Within(pc'[t], L'[t], current')
    BY <1>7, <2>1, <2>2, <2>3 DEF Within
  <2>8. pc'[t] \in TextLabels \ {"enter puts"}
    BY <2>3 DEF TextLabels
  <2> QED BY <1>2, <1>3, <1>6, <2>1, <2>3, <2>4, <2>6, <2>7, <2>8, TextStep
<1> QED BY <1>9, <1>10

LEMMA ZeroCellStep ==
  ASSUME NEW t, IInv(t), ZeroCell(t) PROVE IInv(t)'
<1>1. pc[t] = "zero"
  BY DEF ZeroCell
<1>2. L[t].at = 0 /\ pc[t] \in TextLabels \ {"enter puts"}
  BY <1>1, OnlyText
<1>3. /\ start = start0 /\ end = end0 /\ cells \in Cells
      /\ hw \in B_START..B_END - 1 /\ Within("zero", L[t], current)
  BY <1>1, <1>2, TextFacts
<1>4. Shape(t) /\ L[t] \in LocalsSet
  BY LocalsAre DEF IInv
<1>5. /\ L[t].p1 \in end0 - COLUMNS..end0 /\ current = end0 - COLUMNS
      /\ current \in start0..end0 /\ current # end0
  BY <1>3 DEF Within
<1>6. UNCHANGED <<start, end, current, update_cursor_bool, hw, want, torn>>
  BY DEF ZeroCell
<1>7. PICK p : p = L[t].p1
  OBVIOUS
<1>8. p \in Nat /\ end0 \in Nat /\ 1 <= p /\ end0 - COLUMNS <= p /\ p <= end0 /\ end0 <= B_END
  BY <1>5, <1>7, Places
<1>9. Zero \in Glyphs
  BY DEF Glyphs
<1>10. CASE p < end0
  <2>1. /\ cells' = [cells EXCEPT ![p] = Zero]
        /\ SetLocals(t, [L[t] EXCEPT !.p1 = @ + 1]) /\ UNCHANGED pc
    BY <1>3, <1>7, <1>10 DEF ZeroCell
  <2>2. p + 1 \in Nat /\ p + 1 \in end0 - COLUMNS..end0
    BY <1>8, <1>10, Places
  <2>3. [L[t] EXCEPT !.p1 = p + 1] \in LocalsSet
    BY <1>4, <2>2, SetPointer
  <2>4. SetLocals(t, [L[t] EXCEPT !.p1 = p + 1])
    BY <1>7, <2>1
  <2>5. L'[t] = [L[t] EXCEPT !.p1 = p + 1] /\ L' \in [Threads -> LocalsSet]
    BY <1>4, <2>3, <2>4, SetIs
  <2>6. L'[t].p1 = p + 1
    BY <1>4, <2>5 DEF LocalsSet
  <2>7. Kept(t)
    BY <1>2, <1>4, <2>5 DEF LocalsSet, Kept
  <2>8. cells' \in Cells
    BY <1>3, <1>9, <2>1, SetCell
  <2>9. pc'[t] = "zero" /\ pc' \in [Threads -> Labels]
    BY <1>1, <1>4, <2>1 DEF Shape
  <2>10. Within(pc'[t], L'[t], current')
    BY <1>5, <1>6, <2>2, <2>6, <2>9 DEF Within
  <2>11. Filled(cells', p + 1, end0, Zero) = Filled(cells, p, end0, Zero)
    BY <1>3, <1>8, <1>10, <2>1, FilledStep
  <2>12. Todo(pc'[t], L'[t], cells', current') = Todo(pc[t], L[t], cells, current)
    BY <1>1, <1>7, <2>6, <2>9, <2>11 DEF Todo
  <2> QED BY <1>1, <1>2, <1>3, <1>6, <2>5, <2>7, <2>8, <2>9, <2>10, <2>12, TextStep
<1>11. CASE ~(p < end0)
  <2>1. Goto(t, "show") /\ UNCHANGED <<cells, L>>
    BY <1>3, <1>7, <1>11 DEF ZeroCell
  <2>2. p = end0
    BY <1>8, <1>11
  <2>3. pc'[t] = "show" /\ pc' \in [Threads -> Labels]
    BY <1>4, <2>1, GotoIs DEF Labels, TextLabels
  <2>4. Kept(t) /\ L' \in [Threads -> LocalsSet]
    BY <1>2, <1>4, <2>1 DEF Kept, Shape
  <2>5. Filled(cells, p, end0, Zero) = cells
    BY <1>3, <1>8, <2>2, FilledNone
  <2>6. Todo(pc'[t], L'[t], cells', current') = Todo(pc[t], L[t], cells, current)
    BY <1>1, <1>5, <1>6, <1>7, <2>1, <2>3, <2>5 DEF Todo
  <2>7. Within(pc'[t], L'[t], current')
    BY <1>5, <1>6, <2>3 DEF Within
  <2>8. pc'[t] \in TextLabels \ {"enter puts"}
    BY <2>3 DEF TextLabels
  <2> QED BY <1>2, <1>3, <1>6, <2>1, <2>3, <2>4, <2>6, <2>7, <2>8, TextStep
<1> QED BY <1>10, <1>11

LEMMA ShowText ==
  ASSUME NEW t, IInv(t), ShowCursor(t), L[t].at = 0 PROVE IInv(t)'
<1>1. pc[t] = "show"
  BY DEF ShowCursor
<1>2. pc[t] \in TextLabels \ {"enter puts"}
  BY <1>1 DEF TextLabels
<1>3. /\ start = start0 /\ end = end0 /\ cells \in Cells
      /\ current \in start0..end0 /\ hw \in B_START..B_END - 1
      /\ Within("show", L[t], current)
  BY <1>1, <1>2, TextFacts
<1>4. Shape(t) /\ L[t] \in LocalsSet /\ current # end0
  BY <1>3, LocalsAre DEF IInv, Within
<1>5. UNCHANGED <<cells, start, end, current, update_cursor_bool, L, want, torn>>
  BY DEF ShowCursor
<1>6. hw' = (IF update_cursor_bool THEN current ELSE hw) /\ Goto(t, Returned(t))
  BY DEF ShowCursor
<1>7. hw' \in B_START..B_END - 1
  <2>1. current \in B_START..B_END - 1
    BY <1>3, <1>4, Places
  <2> QED BY <1>3, <1>6, <2>1
<1>8. Kept(t) /\ L' \in [Threads -> LocalsSet]
  BY <1>4, <1>5 DEF Kept, Shape
<1>9. CASE L[t].inputs
  <2>1. pc'[t] = "puts" /\ pc' \in [Threads -> Labels]
    <3>1. Goto(t, "puts")
      BY <1>6, <1>9 DEF Returned
    <3> QED BY <1>4, <3>1, GotoIs DEF Labels, TextLabels
  <2>2. Todo(pc'[t], L'[t], cells', current') = Todo(pc[t], L[t], cells, current)
    BY <1>1, <1>5, <2>1 DEF Todo
  <2>3. Within(pc'[t], L'[t], current')
    BY <1>3, <1>4, <1>5, <2>1 DEF Within
  <2>4. pc'[t] \in TextLabels \ {"enter puts"}
    BY <2>1 DEF TextLabels
  <2> QED BY <1>2, <1>3, <1>5, <1>7, <1>8, <1>9, <2>1, <2>2, <2>3, <2>4, TextStep
<1>10. CASE ~L[t].inputs
  <2>1. pc'[t] = "idle" /\ pc' \in [Threads -> Labels]
    <3>1. Goto(t, "idle")
      BY <1>6, <1>10 DEF Returned
    <3> QED BY <1>4, <3>1, GotoIs DEF Labels
  <2>2. /\ update_cursor_bool = TRUE /\ L[t].str = <<>>
        /\ PutS(Todo("show", L[t], cells, current), L[t].str) = T(want.cells, want.current)
    BY <1>1, <1>2, <1>10 DEF IInv, Modes, TextInv
  <2>3. Todo("show", L[t], cells, current) = T(cells, current)
    BY DEF Todo
  <2>4. T(cells, current) = T(want.cells, want.current)
    BY <2>2, <2>3, PutSNone
  <2>5. cells = want.cells /\ current = want.current
    BY <2>4, TInjective
  <2>6. hw' = current
    BY <1>6, <2>2
  <2>7. Shape(t)'
    BY <1>4, <1>5, <1>7, <1>8, <2>1 DEF Shape
  <2>8. IdleInv(t)'
    BY <1>3, <1>5, <2>2, <2>5, <2>6 DEF IdleInv, InText, Shown
  <2>9. ClearInv(t)' /\ TextInv(t)' /\ TitleInv(t)' /\ AtInv(t)'
    BY <2>1 DEF ClearInv, TextInv, TitleInv, AtInv, TextLabels
  <2> QED BY <2>7, <2>8, <2>9 DEF IInv, Modes
<1> QED BY <1>9, <1>10

\* The first statement of putc, of text.
LEMMA PutcText ==
  ASSUME NEW t, IInv(t), Putc(t), L[t].at = 0 PROVE IInv(t)'
<1>1. pc[t] = "putc"
  BY DEF Putc
<1>2. pc[t] \in TextLabels \ {"enter puts"}
  BY <1>1 DEF TextLabels
<1>3. /\ start = start0 /\ end = end0 /\ cells \in Cells
      /\ current \in start0..end0 /\ hw \in B_START..B_END - 1
      /\ Within("putc", L[t], current)
  BY <1>1, <1>2, TextFacts
<1>4. Shape(t) /\ L[t] \in LocalsSet /\ current # end0
  BY <1>3, LocalsAre DEF IInv, Within
<1>5. UNCHANGED <<start, end, update_cursor_bool, hw, want, torn>>
  BY DEF Putc
<1>6. L[t].c \in Glyphs /\ current \in Nat /\ start \in Nat /\ start <= current
      /\ current \in start0..end0 - 1 /\ current + 1 \in start0..end0
  <2>1. L[t].c \in Glyphs
    BY <1>4, FieldsIn
  <2>2. /\ current \in Nat /\ start \in Nat /\ start <= current
        /\ current \in start0..end0 - 1 /\ current + 1 \in start0..end0
    BY <1>3, <1>4, Places
  <2> QED BY <2>1, <2>2
<1>7. PICK s : s = T(cells, current)
  OBVIOUS
<1>8. Todo(pc[t], L[t], cells, current) = Scroll(Write(s, L[t].c))
  BY <1>1, <1>7 DEF Todo, PutC
<1>9. TextOrEnd(s)
  BY <1>3, <1>7, TIsText
<1>10. s.current = current /\ s.start = start
  BY <1>3, <1>7, FieldsOfT
<1>11. ASSUME NEW w \in Nat \ {0}, NEW c \in Glyphs,
              SetLocals(t, [L[t] EXCEPT !.n = w - ((current - start) % w), !.c = c]),
              Goto(t, "fill"), UNCHANGED <<cells, current>>,
              Write(s, L[t].c) = FillBy(s, ToNext(s, w), c)
       PROVE  IInv(t)'
  <2>1. ToNext(s, w) = w - ((current - start) % w) /\ ToNext(s, w) \in Nat
    BY <1>9, <1>10, <1>11, ToNextIs DEF ToNext
  <2>2. PICK n \in Nat : n = ToNext(s, w)
    BY <2>1
  <2>3. SetLocals(t, [L[t] EXCEPT !.n = n, !.c = c])
    BY <1>11, <2>1, <2>2
  <2>4. [L[t] EXCEPT !.n = n, !.c = c] \in LocalsSet
    BY <1>4, SetNC
  <2>5. L'[t] = [L[t] EXCEPT !.n = n, !.c = c] /\ L' \in [Threads -> LocalsSet]
    BY <1>4, <2>3, <2>4, SetIs
  <2>6. L'[t].n = n /\ L'[t].c = c
    BY <1>4, <2>5 DEF LocalsSet
  <2>7. Kept(t)
    BY <1>4, <2>5 DEF LocalsSet, Kept
  <2>8. pc'[t] = "fill" /\ pc' \in [Threads -> Labels]
    BY <1>4, <1>11, GotoIs DEF Labels, TextLabels
  <2>9. Todo(pc'[t], L'[t], cells', current') = Todo(pc[t], L[t], cells, current)
    BY <1>7, <1>8, <1>11, <2>2, <2>6, <2>8 DEF Todo
  <2>10. Within(pc'[t], L'[t], current')
    BY <1>3, <1>11, <2>8 DEF Within
  <2>11. pc'[t] \in TextLabels \ {"enter puts"}
    BY <2>8 DEF TextLabels
  <2> QED BY <1>2, <1>3, <1>5, <1>11, <2>5, <2>7, <2>8, <2>9, <2>10, <2>11, TextStep
<1>12. CASE L[t].c = "\n"
  <2>1. /\ SetLocals(t, [L[t] EXCEPT !.n = COLUMNS - ((current - start) % COLUMNS), !.c = Blank])
        /\ Goto(t, "fill") /\ UNCHANGED <<cells, current>>
    BY <1>12 DEF Putc
  <2>2. Write(s, L[t].c) = FillBy(s, ToNext(s, COLUMNS), Blank)
    BY <1>12, WriteLine
  <2>3. Blank \in Glyphs /\ COLUMNS \in Nat \ {0}
    BY ScreenAssumption DEF Glyphs, Typed, ScreenAssumption
  <2> QED BY <1>11, <2>1, <2>2, <2>3
<1>13. CASE L[t].c = "\t"
  <2>1. /\ SetLocals(t, [L[t] EXCEPT !.n = TAB - ((current - start) % TAB), !.c = Space])
        /\ Goto(t, "fill") /\ UNCHANGED <<cells, current>>
    BY <1>13 DEF Putc
  <2>2. Write(s, L[t].c) = FillBy(s, ToNext(s, TAB), Space)
    BY <1>13, WriteTab
  <2>3. Space \in Glyphs /\ TAB \in Nat \ {0}
    BY ScreenAssumption DEF Glyphs, Typed, ScreenAssumption
  <2> QED BY <1>11, <2>1, <2>2, <2>3
<1>14. CASE L[t].c = "\\b"
  <2>1. UNCHANGED L
    BY <1>14 DEF Putc
  <2>2. Kept(t) /\ L' \in [Threads -> LocalsSet]
    BY <1>4, <2>1 DEF Kept, Shape
  <2>3. CASE current > start
    <3>1. /\ current' = current - 1 /\ cells' = [cells EXCEPT ![current - 1] = Blank]
          /\ Goto(t, "erase")
      BY <1>14, <2>3 DEF Putc
    <3>2. pc'[t] = "erase" /\ pc' \in [Threads -> Labels]
      BY <1>4, <3>1, GotoIs DEF Labels, TextLabels
    <3>3. Blank \in Glyphs
      BY DEF Glyphs
    <3>4. cells' \in Cells
      BY <1>3, <3>1, <3>3, SetCell
    <3>5. current' \in start0..end0 /\ current' # end0 /\ current # start0
      BY <1>3, <2>3, <3>1, Places
    <3>6. Write(s, L[t].c) = T(cells', Back(cells', current'))
      <4>1. Write(T(cells, current), "\\b")
              = T([cells EXCEPT ![current - 1] = Blank],
                  Back([cells EXCEPT ![current - 1] = Blank], current - 1))
        BY <1>3, <3>5, WriteErase
      <4> QED BY <1>7, <1>14, <3>1, <4>1
    <3>7. Back(cells', current') \in start0..current'
      BY <3>4, <3>5, BackIs
    <3>8. Back(cells', current') \in start0..end0 /\ Back(cells', current') # end0
      BY <3>5, <3>7, Places
    <3>9. /\ OnText(T(cells', Back(cells', current')))
          /\ TextOrEnd(T(cells', Back(cells', current')))
      BY <3>4, <3>8, TIsText
    <3>10. Scroll(T(cells', Back(cells', current'))) = T(cells', Back(cells', current'))
      BY <3>9, ScrollText
    <3>11. Todo(pc'[t], L'[t], cells', current') = Todo(pc[t], L[t], cells, current)
      BY <1>8, <3>2, <3>6, <3>10 DEF Todo
    <3>12. Within(pc'[t], L'[t], current')
      BY <3>2, <3>5 DEF Within
    <3>13. pc'[t] \in TextLabels \ {"enter puts"}
      BY <3>2 DEF TextLabels
    <3> QED BY <1>2, <1>3, <1>5, <2>2, <3>2, <3>4, <3>11, <3>12, <3>13, TextStep
  <2>4. CASE ~(current > start)
    <3>1. Goto(t, "clamp") /\ UNCHANGED <<cells, current>>
      BY <1>14, <2>4 DEF Putc
    <3>2. pc'[t] = "clamp" /\ pc' \in [Threads -> Labels]
      BY <1>4, <3>1, GotoIs DEF Labels, TextLabels
    <3>3. current = start0
      BY <1>3, <2>4, Places
    <3>4. Write(s, L[t].c) = T(cells, current)
      BY <1>3, <1>7, <1>14, <3>3, WriteErase
    <3>5. Todo(pc'[t], L'[t], cells', current') = Todo(pc[t], L[t], cells, current)
      BY <1>8, <3>1, <3>2, <3>4 DEF Todo
    <3>6. Within(pc'[t], L'[t], current')
      BY <1>3, <3>1, <3>2 DEF Within
    <3>7. pc'[t] \in TextLabels \ {"enter puts"}
      BY <3>2 DEF TextLabels
    <3> QED BY <1>2, <1>3, <1>5, <2>2, <3>1, <3>2, <3>5, <3>6, <3>7, TextStep
  <2> QED BY <2>3, <2>4
<1>15. CASE L[t].c \notin {"\n", "\t", "\\b"}
  <2>1. /\ cells' = [cells EXCEPT ![current] = L[t].c] /\ current' = current + 1
        /\ Goto(t, "clamp") /\ UNCHANGED L
    BY <1>15 DEF Putc
  <2>2. pc'[t] = "clamp" /\ pc' \in [Threads -> Labels]
    BY <1>4, <2>1, GotoIs DEF Labels, TextLabels
  <2>3. Kept(t) /\ L' \in [Threads -> LocalsSet]
    BY <1>4, <2>1 DEF Kept, Shape
  <2>4. cells' \in Cells
    BY <1>3, <1>6, <2>1, SetCell
  <2>5. Write(s, L[t].c) = T(cells', current')
    BY <1>7, <1>15, <2>1, WritePlain
  <2>6. Todo(pc'[t], L'[t], cells', current') = Todo(pc[t], L[t], cells, current)
    BY <1>8, <2>2, <2>5 DEF Todo
  <2>7. Within(pc'[t], L'[t], current')
    BY <1>6, <2>1, <2>2 DEF Within
  <2>8. pc'[t] \in TextLabels \ {"enter puts"}
    BY <2>2 DEF TextLabels
  <2> QED BY <1>2, <1>3, <1>5, <2>2, <2>3, <2>4, <2>6, <2>7, <2>8, TextStep
<1> QED BY <1>12, <1>13, <1>14, <1>15

-----------------------------------------------------------------------------
(* puts and puts_at.                                                       *)

LEMMA SetPrev ==
  ASSUME NEW l \in LocalsSet, NEW prev \in Nat \X Nat \X Nat
  PROVE  [l EXCEPT !.prev = prev] \in LocalsSet
BY DEF LocalsSet

LEMMA SetFlags ==
  ASSUME NEW l \in LocalsSet, NEW b \in BOOLEAN
  PROVE  [l EXCEPT !.copy = b, !.inputs = TRUE] \in LocalsSet
BY DEF LocalsSet

LEMMA SetChar ==
  ASSUME NEW l \in LocalsSet, NEW c \in Glyphs, NEW str \in Seq(Glyphs)
  PROVE  [l EXCEPT !.c = c, !.str = str] \in LocalsSet
BY DEF LocalsSet

\* A step that leads into a puts of text.
LEMMA IntoText ==
  ASSUME NEW t, Shape(t)', L'[t].at = 0, pc'[t] \in TextLabels, TextInv(t)'
  PROVE  IInv(t)'
<1>1. pc'[t] \notin {"idle", "clear", "enter puts_at", "leave puts_at"}
  BY DEF TextLabels
<1>2. IdleInv(t)' /\ ClearInv(t)' /\ TitleInv(t)' /\ AtInv(t)'
  BY <1>1 DEF IdleInv, ClearInv, TitleInv, AtInv
<1> QED BY <1>2 DEF IInv, Modes

\* A step of a puts_at.
LEMMA IntoTitle ==
  ASSUME NEW t, Shape(t)', L'[t].at # 0,
         pc'[t] \in TitleLabels \ {"enter puts_at"}, Inside(t)'
  PROVE  IInv(t)'
<1>1. pc'[t] \notin {"idle", "clear", "enter puts_at"}
  BY DEF TitleLabels
<1>2. IdleInv(t)' /\ ClearInv(t)' /\ TitleInv(t)' /\ AtInv(t)' /\ TextInv(t)'
  BY <1>1 DEF IdleInv, ClearInv, TitleInv, AtInv, TextInv
<1> QED BY <1>2 DEF IInv, Modes

LEMMA EnterPutsAtStep ==
  ASSUME NEW t, IInv(t), EnterPutsAt(t) PROVE IInv(t)'
<1>1. pc[t] = "enter puts_at"
  BY DEF EnterPutsAt
<1>2. L[t].at # 0 /\ Entering(t)
  BY <1>1 DEF IInv, Modes, AtInv, TitleInv
<1>3. Shape(t) /\ L[t] \in LocalsSet
  BY LocalsAre DEF IInv
<1>4. /\ start = start0 /\ end = end0 /\ current = want.current
      /\ torn \/ hw = want.current
  BY <1>2 DEF Entering, InText, Shown
<1>5. Titled(L[t].str, cells, L[t].at)
  BY <1>2 DEF Entering
<1>6. want.current \in Nat /\ start0 \in Nat /\ end0 \in Nat
  <2>1. want.current \in start0..end0 - 1
    BY <1>3 DEF Shape
  <2> QED BY <2>1, Places
<1>7. /\ SetLocals(t, [L[t] EXCEPT !.prev = <<start0, end0, want.current>>])
      /\ start' = B_START /\ end' = B_END /\ current' = L[t].at
      /\ update_cursor_bool' = FALSE /\ Goto(t, "enter puts")
      /\ UNCHANGED <<cells, hw, want, torn>>
  BY <1>4 DEF EnterPutsAt
<1>8. <<start0, end0, want.current>> \in Nat \X Nat \X Nat
  BY <1>6
<1>9. [L[t] EXCEPT !.prev = <<start0, end0, want.current>>] \in LocalsSet
  BY <1>3, <1>8, SetPrev
<1>10. /\ L'[t] = [L[t] EXCEPT !.prev = <<start0, end0, want.current>>]
       /\ L' \in [Threads -> LocalsSet]
  BY <1>3, <1>7, <1>9, SetIs
<1>11. /\ L'[t].prev = <<start0, end0, want.current>> /\ L'[t].at = L[t].at
       /\ L'[t].str = L[t].str
  BY <1>3, <1>10 DEF LocalsSet
<1>12. pc'[t] = "enter puts" /\ pc' \in [Threads -> Labels]
  BY <1>3, <1>7, GotoIs DEF Labels, TextLabels
<1>13. Shape(t)'
  BY <1>3, <1>7, <1>10, <1>12 DEF Shape
<1>15. L[t].at \in Nat \ {0} /\ L[t].at <= COLUMNS
  <2>1. Len(L[t].str) \in Nat
    BY <1>3, FieldsIn
  <2>2. L[t].at \in Nat \ {0} /\ L[t].at + Len(L[t].str) <= COLUMNS
    BY <1>5 DEF Titled
  <2> QED BY <2>1, <2>2, Places
<1>16. Titled(L[t].str, cells, current)'
  BY <1>5, <1>7, <1>11 DEF Titled
<1>17. Inside(t)'
  BY <1>4, <1>7, <1>11, <1>12, <1>15, <1>16 DEF Inside
<1>18. pc'[t] \in TitleLabels \ {"enter puts_at"}
  BY <1>12 DEF TitleLabels
<1> QED BY <1>2, <1>11, <1>13, <1>17, <1>18, IntoTitle

\* What holds in a puts_at.
LEMMA TitleFacts ==
  ASSUME NEW t, IInv(t), L[t].at # 0, pc[t] \notin {"idle", "enter puts_at"}
  PROVE  Inside(t) /\ pc[t] \in TitleLabels
BY DEF IInv, Modes, TitleInv

LEMMA EnterPutsTitle ==
  ASSUME NEW t, IInv(t), EnterPuts(t), L[t].at # 0 PROVE IInv(t)'
<1>1. pc[t] = "enter puts"
  BY DEF EnterPuts
<1>2. Inside(t) /\ Shape(t) /\ L[t] \in LocalsSet
  BY <1>1, TitleFacts, LocalsAre DEF IInv
<1>3. /\ SetLocals(t, [L[t] EXCEPT !.copy = update_cursor_bool, !.inputs = TRUE])
      /\ update_cursor_bool' = FALSE /\ Goto(t, "puts")
      /\ UNCHANGED <<cells, start, end, current, hw, want, torn>>
  BY DEF EnterPuts
<1>4. update_cursor_bool \in BOOLEAN
  BY <1>2 DEF Shape
<1>5. [L[t] EXCEPT !.copy = update_cursor_bool, !.inputs = TRUE] \in LocalsSet
  BY <1>2, <1>4, SetFlags
<1>6. /\ L'[t] = [L[t] EXCEPT !.copy = update_cursor_bool, !.inputs = TRUE]
      /\ L' \in [Threads -> LocalsSet]
  BY <1>2, <1>3, <1>5, SetIs
<1>7. /\ L'[t].prev = L[t].prev /\ L'[t].at = L[t].at /\ L'[t].str = L[t].str
      /\ L'[t].copy = update_cursor_bool /\ L'[t].inputs = TRUE
  BY <1>2, <1>6 DEF LocalsSet
<1>8. pc'[t] = "puts" /\ pc' \in [Threads -> Labels]
  BY <1>2, <1>3, GotoIs DEF Labels, TextLabels
<1>9. Shape(t)'
  BY <1>2, <1>3, <1>6, <1>8 DEF Shape
<1>10. Titled(L[t].str, cells, current)
  BY <1>1, <1>2 DEF Inside
<1>11. Titled(L[t].str, cells, current)'
  BY <1>3, <1>7, <1>10 DEF Titled
<1>12. Inside(t)'
  BY <1>2, <1>3, <1>7, <1>8, <1>11 DEF Inside
<1>13. pc'[t] \in TitleLabels \ {"enter puts_at"}
  BY <1>8 DEF TitleLabels
<1> QED BY <1>7, <1>9, <1>12, <1>13, IntoTitle

LEMMA EnterPutsText ==
  ASSUME NEW t, IInv(t), EnterPuts(t), L[t].at = 0 PROVE IInv(t)'
<1>1. pc[t] = "enter puts" /\ pc[t] \in TextLabels
  BY DEF EnterPuts, TextLabels
<1>2. TextInv(t) /\ Shape(t) /\ L[t] \in LocalsSet
  BY LocalsAre DEF IInv, Modes
<1>3. /\ SetLocals(t, [L[t] EXCEPT !.copy = update_cursor_bool, !.inputs = TRUE])
      /\ update_cursor_bool' = FALSE /\ Goto(t, "puts")
      /\ UNCHANGED <<cells, start, end, current, hw, want, torn>>
  BY DEF EnterPuts
<1>4. update_cursor_bool = TRUE
  BY <1>1, <1>2 DEF TextInv
<1>5. [L[t] EXCEPT !.copy = update_cursor_bool, !.inputs = TRUE] \in LocalsSet
  BY <1>2, <1>4, SetFlags
<1>6. /\ L'[t] = [L[t] EXCEPT !.copy = update_cursor_bool, !.inputs = TRUE]
      /\ L' \in [Threads -> LocalsSet]
  BY <1>2, <1>3, <1>5, SetIs
<1>7. /\ L'[t].at = L[t].at /\ L'[t].str = L[t].str
      /\ L'[t].copy = TRUE /\ L'[t].inputs = TRUE
  BY <1>2, <1>4, <1>6 DEF LocalsSet
<1>8. pc'[t] = "puts" /\ pc' \in [Threads -> Labels]
  BY <1>2, <1>3, GotoIs DEF Labels, TextLabels
<1>9. Shape(t)'
  BY <1>2, <1>3, <1>6, <1>8 DEF Shape
<1>10. /\ InText /\ Within("enter puts", L[t], current)
       /\ PutS(Todo("enter puts", L[t], cells, current), L[t].str) = T(want.cells, want.current)
  BY <1>1, <1>2 DEF TextInv
<1>11. Within("puts", L'[t], current')
  BY <1>3, <1>10 DEF Within
<1>12. Todo("puts", L'[t], cells', current') = Todo("enter puts", L[t], cells, current)
  BY <1>3 DEF Todo
<1>13. PutS(Todo("puts", L'[t], cells', current'), L'[t].str) = T(want'.cells, want'.current)
  BY <1>3, <1>7, <1>10, <1>12
<1>14. InText'
  BY <1>3, <1>10 DEF InText
<1>15. TextInv(t)'
  BY <1>7, <1>8, <1>11, <1>13, <1>14 DEF TextInv
<1>16. pc'[t] \in TextLabels
  BY <1>8 DEF TextLabels
<1> QED BY <1>7, <1>9, <1>15, <1>16, IntoText

LEMMA HeadAndTail ==
  ASSUME NEW str \in Seq(Glyphs), str # <<>>
  PROVE  /\ Head(str) = str[1] /\ Head(str) \in Glyphs
         /\ Tail(str) \in Seq(Glyphs) /\ Len(str) \in Nat /\ Len(str) > 0
         /\ Len(Tail(str)) = Len(str) - 1
         /\ \A i \in 1..Len(Tail(str)) : Tail(str)[i] = str[i + 1]
OBVIOUS

\* A character of the string is taken; it is the next to be put.
LEMMA NextCharLocals ==
  ASSUME NEW t, IInv(t), NextChar(t)
  PROVE  /\ L[t].str \in Seq(Glyphs) /\ L[t].str # <<>>
         /\ Head(L[t].str) \in Glyphs /\ Tail(L[t].str) \in Seq(Glyphs)
         /\ L'[t].c = Head(L[t].str) /\ L'[t].str = Tail(L[t].str)
         /\ L'[t].prev = L[t].prev /\ L'[t].at = L[t].at
         /\ L'[t].copy = L[t].copy /\ L'[t].inputs = L[t].inputs
         /\ pc[t] = "puts" /\ pc'[t] = "putc"
         /\ UNCHANGED <<video, want, torn>> /\ Shape(t)'
<1>1. /\ SetLocals(t, [L[t] EXCEPT !.c = Head(L[t].str), !.str = Tail(@)])
      /\ pc[t] = "puts" /\ L[t].str # <<>> /\ Goto(t, "putc")
      /\ UNCHANGED <<video, want, torn>>
  BY DEF NextChar
<1>2. Shape(t) /\ L[t] \in LocalsSet
  BY LocalsAre DEF IInv
<1>3. L[t].str \in Seq(Glyphs)
  BY <1>2, FieldsIn
<1>4. Head(L[t].str) \in Glyphs /\ Tail(L[t].str) \in Seq(Glyphs)
  BY <1>1, <1>3, HeadAndTail
<1>5. [L[t] EXCEPT !.c = Head(L[t].str), !.str = Tail(L[t].str)] \in LocalsSet
  BY <1>2, <1>4, SetChar
<1>6. SetLocals(t, [L[t] EXCEPT !.c = Head(L[t].str), !.str = Tail(L[t].str)])
  BY <1>1
<1>7. /\ L'[t] = [L[t] EXCEPT !.c = Head(L[t].str), !.str = Tail(L[t].str)]
      /\ L' \in [Threads -> LocalsSet]
  BY <1>2, <1>5, <1>6, SetIs
<1>8. /\ L'[t].c = Head(L[t].str) /\ L'[t].str = Tail(L[t].str)
      /\ L'[t].prev = L[t].prev /\ L'[t].at = L[t].at
      /\ L'[t].copy = L[t].copy /\ L'[t].inputs = L[t].inputs
  BY <1>2, <1>7 DEF LocalsSet
<1>9. pc'[t] = "putc" /\ pc' \in [Threads -> Labels]
  BY <1>1, <1>2, GotoIs DEF Labels, TextLabels
<1>10. Shape(t)'
  BY <1>1, <1>2, <1>7, <1>9 DEF Shape, video
<1> QED BY <1>1, <1>3, <1>4, <1>8, <1>9, <1>10

LEMMA NextCharText ==
  ASSUME NEW t, IInv(t), NextChar(t), L[t].at = 0 PROVE IInv(t)'
<1>1. /\ L[t].str \in Seq(Glyphs) /\ L[t].str # <<>>
      /\ L'[t].c = Head(L[t].str) /\ L'[t].str = Tail(L[t].str)
      /\ L'[t].at = 0 /\ L'[t].copy = L[t].copy /\ L'[t].inputs = L[t].inputs
      /\ pc[t] = "puts" /\ pc'[t] = "putc" /\ Shape(t)'
  BY NextCharLocals
<1>2. UNCHANGED <<cells, start, end, current, update_cursor_bool, hw, want, torn>>
  BY NextCharLocals DEF video
<1>3. pc[t] \in TextLabels /\ pc'[t] \in TextLabels
  BY <1>1 DEF TextLabels
<1>4. /\ InText /\ Within("puts", L[t], current)
      /\ PutS(Todo("puts", L[t], cells, current), L[t].str) = T(want.cells, want.current)
      /\ L[t].inputs /\ L[t].copy = TRUE
  BY <1>1, <1>3 DEF IInv, Modes, TextInv
<1>5. Within("putc", L'[t], current')
  BY <1>2, <1>4 DEF Within
<1>6. Todo("puts", L[t], cells, current) = T(cells, current)
  BY DEF Todo
<1>7. Todo("putc", L'[t], cells', current') = PutC(T(cells, current), Head(L[t].str))
  BY <1>1, <1>2 DEF Todo
<1>8. PutS(T(cells, current), L[t].str)
        = PutS(PutC(T(cells, current), Head(L[t].str)), Tail(L[t].str))
  BY <1>1, PutSFirst
<1>9. PutS(Todo("putc", L'[t], cells', current'), L'[t].str) = T(want'.cells, want'.current)
  BY <1>1, <1>2, <1>4, <1>6, <1>7, <1>8
<1>10. InText'
  BY <1>2, <1>4 DEF InText
<1>11. TextInv(t)'
  BY <1>1, <1>4, <1>5, <1>9, <1>10 DEF TextInv
<1> QED BY <1>1, <1>3, <1>11, IntoText

LEMMA NextCharTitle ==
  ASSUME NEW t, IInv(t), NextChar(t), L[t].at # 0 PROVE IInv(t)'
<1>1. /\ L[t].str \in Seq(Glyphs) /\ L[t].str # <<>>
      /\ L'[t].c = Head(L[t].str) /\ L'[t].str = Tail(L[t].str)
      /\ L'[t].prev = L[t].prev /\ L'[t].at = L[t].at
      /\ L'[t].copy = L[t].copy /\ L'[t].inputs = L[t].inputs
      /\ pc[t] = "puts" /\ pc'[t] = "putc" /\ Shape(t)'
  BY NextCharLocals
<1>2. UNCHANGED <<cells, start, end, current, update_cursor_bool, hw, want, torn>>
  BY NextCharLocals DEF video
<1>3. Inside(t)
  BY <1>1, TitleFacts
<1>4. Titled(L[t].str, cells, current)
  BY <1>1, <1>3 DEF Inside
<1>5. current \in Nat \ {0} /\ current <= COLUMNS /\ cells \in Cells
  BY <1>3 DEF Inside, IInv, Shape
<1>6. PICK str, h, q : str = L[t].str /\ h = Head(str) /\ q = Tail(str)
  OBVIOUS
<1>7. /\ str \in Seq(Glyphs) /\ str # <<>> /\ h = str[1] /\ Len(str) \in Nat /\ Len(str) > 0
      /\ Len(q) = Len(str) - 1 /\ \A i \in 1..Len(q) : q[i] = str[i + 1]
  BY <1>1, <1>6, HeadAndTail
<1>8. h \notin {"\n", "\t", "\\b"}
  <2>1. 1 \in 1..Len(str)
    BY <1>7
  <2> QED BY <1>4, <1>6, <1>7, <2>1 DEF Titled, Easy
<1>9. Easy(q)
  <2> SUFFICES ASSUME NEW i \in 1..Len(q) PROVE q[i] \notin {"\n", "\t", "\\b"}
    BY DEF Easy
  <2>1. i + 1 \in 1..Len(str) /\ q[i] = str[i + 1]
    BY <1>7
  <2> QED BY <1>4, <1>6, <2>1 DEF Titled, Easy
<1>10. current + 1 \in Nat \ {0} /\ (current + 1) + Len(q) <= COLUMNS
  <2>1. current + Len(str) <= COLUMNS
    BY <1>4, <1>6 DEF Titled
  <2> QED BY <1>5, <1>7, <2>1, Places
<1>11. Over([cells EXCEPT ![current] = h], q, current + 1) = want.cells
  <2>1. current \in 1..B_END - 1
    BY <1>5, Places
  <2>2. Over(cells, str, current) = Over([cells EXCEPT ![current] = h], q, current + 1)
    BY <1>5, <1>6, <1>7, <2>1, OverFirst
  <2> QED BY <1>4, <1>6, <2>2 DEF Titled
<1>12. Titled(L[t].str, [cells EXCEPT ![current] = L[t].c], current + 1)'
  BY <1>1, <1>2, <1>6, <1>9, <1>10, <1>11 DEF Titled
<1>13. Inside(t)'
  BY <1>1, <1>2, <1>3, <1>6, <1>8, <1>12 DEF Inside
<1>14. pc'[t] \in TitleLabels \ {"enter puts_at"}
  BY <1>1 DEF TitleLabels
<1> QED BY <1>1, <1>13, <1>14, IntoTitle

LEMMA PutcTitle ==
  ASSUME NEW t, IInv(t), Putc(t), L[t].at # 0 PROVE IInv(t)'
<1>1. pc[t] = "putc"
  BY DEF Putc
<1>2. Inside(t) /\ Shape(t) /\ L[t] \in LocalsSet
  BY <1>1, TitleFacts, LocalsAre DEF IInv
<1>3. /\ L[t].c \notin {"\n", "\t", "\\b"}
      /\ Titled(L[t].str, [cells EXCEPT ![current] = L[t].c], current + 1)
  BY <1>1, <1>2 DEF Inside
<1>4. /\ cells' = [cells EXCEPT ![current] = L[t].c] /\ current' = current + 1
      /\ Goto(t, "clamp")
      /\ UNCHANGED <<start, end, update_cursor_bool, hw, want, torn, L>>
  BY <1>3 DEF Putc
<1>5. pc'[t] = "clamp" /\ pc' \in [Threads -> Labels]
  BY <1>2, <1>4, GotoIs DEF Labels, TextLabels
<1>6. L[t].c \in Glyphs /\ Len(L[t].str) \in Nat
  BY <1>2, FieldsIn
<1>7. cells' \in Cells
  <2>1. cells \in Cells
    BY <1>2 DEF Shape
  <2> QED BY <1>4, <1>6, <2>1, SetCell
<1>8. Shape(t)'
  BY <1>2, <1>4, <1>5, <1>7 DEF Shape
<1>9. Titled(L[t].str, cells, current)'
  BY <1>3, <1>4 DEF Titled
<1>10. current' \in Nat \ {0} /\ current' <= COLUMNS
  <2>1. current + 1 \in Nat \ {0} /\ (current + 1) + Len(L[t].str) <= COLUMNS
    BY <1>3 DEF Titled
  <2> QED BY <1>4, <1>6, <2>1, Places
<1>11. Inside(t)'
  BY <1>1, <1>2, <1>4, <1>5, <1>9, <1>10 DEF Inside
<1>12. pc'[t] \in TitleLabels \ {"enter puts_at"}
  BY <1>5 DEF TitleLabels
<1> QED BY <1>4, <1>8, <1>11, <1>12, IntoTitle

\* In a title the cells do not run out: nothing is scrolled.
LEMMA ClampTitle ==
  ASSUME NEW t, IInv(t), Clamp(t), L[t].at # 0 PROVE IInv(t)'
<1>1. pc[t] = "clamp"
  BY DEF Clamp
<1>2. Inside(t) /\ Shape(t)
  BY <1>1, TitleFacts DEF IInv
<1>3. start = 1 /\ end = B_END /\ current \in Nat \ {0} /\ current <= COLUMNS
  BY <1>2, Places DEF Inside
<1>4. ~(current >= start /\ PastEnd)
  BY <1>3, Places DEF PastEnd
<1>5. current' = Max({current, start}) /\ Goto(t, "show") /\ UNCHANGED L
  BY <1>4 DEF Clamp
<1>6. UNCHANGED <<cells, start, end, update_cursor_bool, hw, want, torn>>
  BY DEF Clamp
<1>7. current' = current
  <2>1. current \in Nat /\ start \in Nat /\ start <= current
    BY <1>3
  <2> QED BY <1>5, <2>1, MaxTwo
<1>8. pc'[t] = "show" /\ pc' \in [Threads -> Labels]
  BY <1>2, <1>5, GotoIs DEF Labels, TextLabels
<1>9. Shape(t)'
  BY <1>2, <1>5, <1>6, <1>8 DEF Shape
<1>10. Titled(L[t].str, cells, current)
  BY <1>1, <1>2 DEF Inside
<1>11. Titled(L[t].str, cells, current)'
  BY <1>5, <1>6, <1>7, <1>10 DEF Titled
<1>12. Inside(t)'
  BY <1>1, <1>2, <1>5, <1>6, <1>7, <1>8, <1>11 DEF Inside
<1>13. pc'[t] \in TitleLabels \ {"enter puts_at"}
  BY <1>8 DEF TitleLabels
<1> QED BY <1>5, <1>9, <1>12, <1>13, IntoTitle

LEMMA ShowTitle ==
  ASSUME NEW t, IInv(t), ShowCursor(t), L[t].at # 0 PROVE IInv(t)'
<1>1. pc[t] = "show"
  BY DEF ShowCursor
<1>2. Inside(t) /\ Shape(t)
  BY <1>1, TitleFacts DEF IInv
<1>3. UNCHANGED <<cells, start, end, current, update_cursor_bool, L, want, torn>>
  BY DEF ShowCursor
<1>4. hw' = (IF update_cursor_bool THEN current ELSE hw) /\ Goto(t, "puts")
  <2>1. L[t].inputs = TRUE
    BY <1>1, <1>2 DEF Inside
  <2> QED BY <2>1 DEF ShowCursor, Returned
<1>5. pc'[t] = "puts" /\ pc' \in [Threads -> Labels]
  BY <1>2, <1>4, GotoIs DEF Labels, TextLabels
<1>6. hw' \in B_START..B_END - 1
  <2>1. current \in Nat \ {0} /\ current <= COLUMNS
    BY <1>2 DEF Inside
  <2>2. current \in B_START..B_END - 1
    BY <2>1, Places
  <2>3. hw \in B_START..B_END - 1
    BY <1>2 DEF Shape
  <2> QED BY <1>4, <2>2, <2>3
<1>7. Shape(t)'
  BY <1>2, <1>3, <1>5, <1>6 DEF Shape
<1>8. Titled(L[t].str, cells, current)
  BY <1>1, <1>2 DEF Inside
<1>9. Titled(L[t].str, cells, current)'
  BY <1>3, <1>8 DEF Titled
<1>10. torn \/ hw' = hw
  BY <1>2, <1>4 DEF Inside
<1>11. Inside(t)'
  BY <1>1, <1>2, <1>3, <1>5, <1>9, <1>10 DEF Inside
<1>12. pc'[t] \in TitleLabels \ {"enter puts_at"}
  BY <1>5 DEF TitleLabels
<1> QED BY <1>3, <1>7, <1>11, <1>12, IntoTitle

\* A step after which the thread is idle.
LEMMA IntoIdle ==
  ASSUME NEW t, Shape(t)', pc'[t] = "idle", IdleInv(t)' PROVE IInv(t)'
<1>1. ClearInv(t)' /\ TextInv(t)' /\ TitleInv(t)' /\ AtInv(t)'
  BY DEF ClearInv, TextInv, TitleInv, AtInv, TextLabels
<1> QED BY <1>1 DEF IInv, Modes

LEMMA LeavePutsTitle ==
  ASSUME NEW t, IInv(t), LeavePuts(t), L[t].at # 0 PROVE IInv(t)'
<1>1. pc[t] = "puts" /\ L[t].str = <<>>
  BY DEF LeavePuts
<1>2. Inside(t) /\ Shape(t) /\ L[t] \in LocalsSet
  BY <1>1, TitleFacts, LocalsAre DEF IInv
<1>3. /\ hw' = (IF L[t].copy THEN current ELSE hw)
      /\ update_cursor_bool' = L[t].copy
      /\ UNCHANGED <<cells, start, end, current, L, want, torn>>
  BY DEF LeavePuts
<1>4. Goto(t, "leave puts_at")
  BY DEF LeavePuts
<1>5. pc'[t] = "leave puts_at" /\ pc' \in [Threads -> Labels]
  BY <1>2, <1>4, GotoIs DEF Labels, TitleLabels
<1>6. current \in Nat \ {0} /\ current <= COLUMNS /\ cells \in Cells
  BY <1>2 DEF Inside, Shape
<1>7. hw' \in B_START..B_END - 1
  <2>1. current \in B_START..B_END - 1
    BY <1>6, Places
  <2>2. hw \in B_START..B_END - 1
    BY <1>2 DEF Shape
  <2> QED BY <1>3, <2>1, <2>2
<1>8. update_cursor_bool' \in BOOLEAN
  BY <1>2, <1>3 DEF LocalsSet
<1>9. Shape(t)'
  BY <1>2, <1>3, <1>5, <1>7, <1>8 DEF Shape
<1>10. cells = want.cells
  <2>1. Titled(<<>>, cells, current)
    BY <1>1, <1>2 DEF Inside
  <2>2. Over(cells, <<>>, current) = cells
    BY <1>6, OverNone
  <2> QED BY <2>1, <2>2 DEF Titled
<1>11. torn \/ (hw' = want.current /\ update_cursor_bool' = FALSE)
  <2>1. torn \/ (hw = want.current /\ L[t].copy = FALSE)
    BY <1>1, <1>2 DEF Inside
  <2> QED BY <1>3, <2>1
<1>12. Inside(t)'
  <2>1. torn' \/ /\ hw' = want'.current /\ update_cursor_bool' = FALSE
                 /\ pc'[t] # "enter puts" => L'[t].copy = FALSE
    BY <1>1, <1>2, <1>3, <1>11 DEF Inside
  <2> QED BY <1>1, <1>2, <1>3, <1>5, <1>10, <2>1 DEF Inside
<1>13. pc'[t] \in TitleLabels \ {"enter puts_at"}
  BY <1>5 DEF TitleLabels
<1> QED BY <1>3, <1>9, <1>12, <1>13, IntoTitle

LEMMA LeavePutsText ==
  ASSUME NEW t, IInv(t), LeavePuts(t), L[t].at = 0 PROVE IInv(t)'
<1>1. pc[t] = "puts" /\ L[t].str = <<>> /\ pc[t] \in TextLabels
  BY DEF LeavePuts, TextLabels
<1>2. /\ start = start0 /\ end = end0 /\ current \in start0..end0
      /\ Within("puts", L[t], current)
  BY <1>1, TextFacts
<1>3. Shape(t) /\ L[t] \in LocalsSet
  BY LocalsAre DEF IInv
<1>4. /\ PutS(Todo("puts", L[t], cells, current), L[t].str) = T(want.cells, want.current)
      /\ L[t].copy = TRUE
  BY <1>1 DEF IInv, Modes, TextInv
<1>5. /\ hw' = current /\ update_cursor_bool' = TRUE /\ Goto(t, "idle")
      /\ UNCHANGED <<cells, start, end, current, L, want, torn>>
  BY <1>4 DEF LeavePuts
<1>6. pc'[t] = "idle" /\ pc' \in [Threads -> Labels]
  BY <1>3, <1>5, GotoIs DEF Labels
<1>7. hw' \in B_START..B_END - 1
  <2>1. current # end0
    BY <1>2 DEF Within
  <2>2. current \in B_START..B_END - 1
    BY <1>2, <2>1, Places
  <2> QED BY <1>5, <2>2
<1>8. Shape(t)'
  BY <1>3, <1>5, <1>6, <1>7 DEF Shape
<1>9. cells = want.cells /\ current = want.current
  <2>1. Todo("puts", L[t], cells, current) = T(cells, current)
    BY DEF Todo
  <2>2. T(cells, current) = T(want.cells, want.current)
    BY <1>1, <1>4, <2>1, PutSNone
  <2> QED BY <2>2, TInjective
<1>10. IdleInv(t)'
  BY <1>2, <1>5, <1>9 DEF IdleInv, InText, Shown
<1> QED BY <1>6, <1>8, <1>10, IntoIdle

LEMMA LeavePutsAtStep ==
  ASSUME NEW t, IInv(t), LeavePutsAt(t) PROVE IInv(t)'
<1>1. pc[t] = "leave puts_at"
  BY DEF LeavePutsAt
<1>2. L[t].at # 0
  BY <1>1 DEF IInv, Modes, AtInv
<1>3. Inside(t) /\ Shape(t)
  BY <1>1, <1>2, TitleFacts DEF IInv
<1>4. /\ L[t].prev = <<start0, end0, want.current>> /\ cells = want.cells
      /\ torn \/ hw = want.current
  BY <1>1, <1>3 DEF Inside
<1>5. /\ start' = start0 /\ end' = end0 /\ current' = want.current
      /\ update_cursor_bool' = TRUE /\ Goto(t, "idle")
      /\ UNCHANGED <<cells, hw, L, want, torn>>
  <2>1. /\ L[t].prev[1] = start0 /\ L[t].prev[2] = end0
        /\ L[t].prev[3] = want.current
    BY <1>4
  <2> QED BY <2>1 DEF LeavePutsAt
<1>6. pc'[t] = "idle" /\ pc' \in [Threads -> Labels]
  BY <1>3, <1>5, GotoIs DEF Labels
<1>7. Shape(t)'
  BY <1>3, <1>5, <1>6 DEF Shape
<1>8. IdleInv(t)'
  BY <1>4, <1>5 DEF IdleInv, InText, Shown
<1> QED BY <1>6, <1>7, <1>8, IntoIdle

-----------------------------------------------------------------------------
(* The calls, clear_screen and the tick.                                   *)

\* Between calls the screen is as wanted.
LEMMA IdleFacts ==
  ASSUME NEW t, IInv(t), pc[t] = "idle"
  PROVE  /\ start = start0 /\ end = end0 /\ update_cursor_bool = TRUE
         /\ torn \/ hw = want.current
         /\ cells = want.cells /\ current = want.current
         /\ cells \in Cells /\ current \in start0..end0 - 1
         /\ current \in start0..end0 /\ current # end0
<1>1. /\ start = start0 /\ end = end0 /\ update_cursor_bool = TRUE
      /\ torn \/ hw = want.current
      /\ cells = want.cells /\ current = want.current
  BY DEF IInv, Modes, IdleInv, InText, Shown
<1>2. cells \in Cells /\ want.current \in start0..end0 - 1
  BY DEF IInv, Shape
<1>3. current \in start0..end0 /\ current # end0
  BY <1>1, <1>2, Places
<1> QED BY <1>1, <1>2, <1>3

LEMMA TextIsWanted ==
  ASSUME NEW s, OnText(s)
  PROVE  /\ Result(s) \in [cells : Cells, current : start0..end0 - 1]
         /\ s = T(Result(s).cells, Result(s).current)
<1>1. PICK cs \in Cells, q \in start0..end0 - 1 : s = T(cs, q)
  BY DEF OnText
<1>2. Result(s) = [cells |-> cs, current |-> q]
  BY <1>1, FieldsOfT DEF Result
<1> QED BY <1>1, <1>2

LEMMA CallPutcStep ==
  ASSUME NEW t, IInv(t), CallPutc(t) PROVE IInv(t)'
<1>1. PICK c \in PutcArgs :
         /\ pc[t] = "idle" /\ SetLocals(t, [Locals EXCEPT !.c = c]) /\ Goto(t, "putc")
         /\ want' = Result(PutC(TextArea(want), c)) /\ torn' = FALSE /\ UNCHANGED video
  BY DEF CallPutc
<1>2. /\ start = start0 /\ end = end0 /\ update_cursor_bool = TRUE
      /\ cells = want.cells /\ current = want.current /\ cells \in Cells
      /\ current \in start0..end0 /\ current # end0
  BY <1>1, IdleFacts
<1>3. Shape(t)
  BY DEF IInv
<1>4. c \in Glyphs
  BY ArgsAssumption DEF ArgsAssumption, Glyphs
<1>5. PICK l : l = [Locals EXCEPT !.c = c]
  OBVIOUS
<1>6. l \in LocalsSet
  BY <1>4, <1>5, LocalsIn DEF LocalsSet
<1>7. l.c = c /\ l.str = <<>> /\ l.at = 0 /\ l.inputs = FALSE
  BY <1>5 DEF Locals
<1>8. L'[t] = l /\ L' \in [Threads -> LocalsSet]
  BY <1>1, <1>3, <1>5, <1>6, SetIs
<1>9. pc'[t] = "putc" /\ pc' \in [Threads -> Labels]
  BY <1>1, <1>3, GotoIs DEF Labels, TextLabels
<1>10. PICK s : s = PutC(T(cells, current), c)
  OBVIOUS
<1>11. OnText(T(cells, current))
  BY <1>2, TIsText
<1>12. OnText(s)
  BY <1>4, <1>10, <1>11, PutCText
<1>13. TextArea(want) = T(cells, current)
  BY <1>2 DEF TextArea, T
<1>14. want' = Result(s)
  BY <1>1, <1>10, <1>13
<1>15. /\ want' \in [cells : Cells, current : start0..end0 - 1]
       /\ s = T(want'.cells, want'.current)
  BY <1>12, <1>14, TextIsWanted
<1>16. UNCHANGED <<cells, start, end, current, update_cursor_bool, hw>>
  BY <1>1 DEF video
<1>17. Shape(t)'
  BY <1>1, <1>3, <1>8, <1>9, <1>15, <1>16 DEF Shape
<1>18. Todo("putc", L'[t], cells', current') = s
  BY <1>7, <1>8, <1>10, <1>16 DEF Todo
<1>19. PutS(Todo("putc", L'[t], cells', current'), L'[t].str) = T(want'.cells, want'.current)
  BY <1>7, <1>8, <1>15, <1>18, PutSNone
<1>20. Within("putc", L'[t], current')
  BY <1>2, <1>16 DEF Within
<1>21. InText'
  BY <1>2, <1>16 DEF InText
<1>22. TextInv(t)'
  BY <1>2, <1>7, <1>8, <1>9, <1>16, <1>19, <1>20, <1>21 DEF TextInv
<1>23. pc'[t] \in TextLabels
  BY <1>9 DEF TextLabels
<1> QED BY <1>7, <1>8, <1>17, <1>22, <1>23, IntoText

LEMMA CallPutsStep ==
  ASSUME NEW t, IInv(t), CallPuts(t) PROVE IInv(t)'
<1>1. PICK str \in PutsArgs :
         /\ pc[t] = "idle" /\ SetLocals(t, [Locals EXCEPT !.str = str])
         /\ Goto(t, "enter puts")
         /\ want' = Result(PutS(TextArea(want), str)) /\ torn' = FALSE /\ UNCHANGED video
  BY DEF CallPuts
<1>2. /\ start = start0 /\ end = end0 /\ update_cursor_bool = TRUE
      /\ cells = want.cells /\ current = want.current /\ cells \in Cells
      /\ current \in start0..end0 /\ current # end0
  BY <1>1, IdleFacts
<1>3. Shape(t)
  BY DEF IInv
<1>4. str \in Seq(Glyphs)
  <2>1. str \in Seq(STRING)
    BY ArgsAssumption DEF ArgsAssumption
  <2> QED BY <2>1, StringsSeq
<1>5. PICK l : l = [Locals EXCEPT !.str = str]
  OBVIOUS
<1>6. l \in LocalsSet
  BY <1>4, <1>5, LocalsIn DEF LocalsSet
<1>7. l.str = str /\ l.at = 0 /\ l.inputs = FALSE
  BY <1>5 DEF Locals
<1>8. L'[t] = l /\ L' \in [Threads -> LocalsSet]
  BY <1>1, <1>3, <1>5, <1>6, SetIs
<1>9. pc'[t] = "enter puts" /\ pc' \in [Threads -> Labels]
  BY <1>1, <1>3, GotoIs DEF Labels, TextLabels
<1>10. PICK s : s = PutS(T(cells, current), str)
  OBVIOUS
<1>11. OnText(T(cells, current))
  BY <1>2, TIsText
<1>12. OnText(s)
  BY <1>4, <1>10, <1>11, PutSText
<1>13. TextArea(want) = T(cells, current)
  BY <1>2 DEF TextArea, T
<1>14. want' = Result(s)
  BY <1>1, <1>10, <1>13
<1>15. /\ want' \in [cells : Cells, current : start0..end0 - 1]
       /\ s = T(want'.cells, want'.current)
  BY <1>12, <1>14, TextIsWanted
<1>16. UNCHANGED <<cells, start, end, current, update_cursor_bool, hw>>
  BY <1>1 DEF video
<1>17. Shape(t)'
  BY <1>1, <1>3, <1>8, <1>9, <1>15, <1>16 DEF Shape
<1>18. Todo("enter puts", L'[t], cells', current') = T(cells, current)
  BY <1>16 DEF Todo
<1>19. PutS(Todo("enter puts", L'[t], cells', current'), L'[t].str)
         = T(want'.cells, want'.current)
  BY <1>7, <1>8, <1>10, <1>15, <1>18
<1>20. Within("enter puts", L'[t], current')
  BY <1>2, <1>16 DEF Within
<1>21. InText'
  BY <1>2, <1>16 DEF InText
<1>22. TextInv(t)'
  BY <1>2, <1>7, <1>8, <1>9, <1>16, <1>19, <1>20, <1>21 DEF TextInv
<1>23. pc'[t] \in TextLabels
  BY <1>9 DEF TextLabels
<1> QED BY <1>7, <1>8, <1>17, <1>22, <1>23, IntoText

\* puts_at of a string that stays in the title's row.
LEMMA TitleArgs ==
  ASSUME NEW a \in PutsAtArgs
  PROVE  /\ Plain(a[1]) /\ a[1] \in Seq(Glyphs) /\ Len(a[1]) \in Nat /\ Easy(a[1])
         /\ a[2] \in Nat \ {0} /\ a[2] + Len(a[1]) <= COLUMNS
         /\ a[2] + Len(a[1]) < B_END
<1>1. Plain(a[1]) /\ a[2] \in Nat \ {0} /\ a[2] + Len(a[1]) <= COLUMNS
  BY ArgsAssumption DEF ArgsAssumption
<1>2. a[1] \in Seq(Glyphs) /\ Len(a[1]) \in Nat
  BY <1>1, StringsGlyphs
<1>3. Easy(a[1])
  BY <1>1 DEF Plain, Easy
<1>4. a[2] + Len(a[1]) < B_END
  BY <1>1, <1>2, Places
<1> QED BY <1>1, <1>2, <1>3, <1>4

LEMMA CallPutsAtStep ==
  ASSUME NEW t, IInv(t), CallPutsAt(t) PROVE IInv(t)'
<1>1. PICK a \in PutsAtArgs :
         /\ pc[t] = "idle" /\ SetLocals(t, [Locals EXCEPT !.str = a[1], !.at = a[2]])
         /\ Goto(t, "enter puts_at")
         /\ want' = [want EXCEPT !.cells = PutsAt(@, a[1], a[2])]
         /\ UNCHANGED <<video, torn>>
  BY DEF CallPutsAt
<1>2. /\ start = start0 /\ end = end0 /\ update_cursor_bool = TRUE
      /\ cells = want.cells /\ current = want.current /\ cells \in Cells
      /\ torn \/ hw = want.current
  BY <1>1, IdleFacts
<1>3. Shape(t)
  BY DEF IInv
<1>4. PICK str, at : str = a[1] /\ at = a[2]
  OBVIOUS
<1>5. /\ Plain(str) /\ str \in Seq(Glyphs) /\ Easy(str)
      /\ at \in Nat \ {0} /\ at + Len(str) <= COLUMNS /\ at + Len(str) < B_END
  BY <1>4, TitleArgs
<1>6. PICK l : l = [Locals EXCEPT !.str = str, !.at = at]
  OBVIOUS
<1>7. l \in LocalsSet
  BY <1>5, <1>6, LocalsIn DEF LocalsSet
<1>8. l.str = str /\ l.at = at
  BY <1>6 DEF Locals
<1>9. L'[t] = l /\ L' \in [Threads -> LocalsSet]
  BY <1>1, <1>3, <1>4, <1>6, <1>7, SetIs
<1>10. pc'[t] = "enter puts_at" /\ pc' \in [Threads -> Labels]
  BY <1>1, <1>3, GotoIs DEF Labels, TitleLabels
<1>11. want.cells \in Cells
  BY <1>3 DEF Shape
<1>12. PutsAt(want.cells, str, at) = Over(want.cells, str, at)
  BY <1>5, <1>11, PutsAtIs
<1>13. Over(want.cells, str, at) \in Cells
  BY <1>5, <1>11, OverIs
<1>14. want' = [want EXCEPT !.cells = Over(want.cells, str, at)]
  BY <1>1, <1>4, <1>12
<1>15. /\ want' \in [cells : Cells, current : start0..end0 - 1]
       /\ want'.cells = Over(want.cells, str, at) /\ want'.current = want.current
  BY <1>3, <1>13, <1>14 DEF Shape
<1>16. UNCHANGED <<cells, start, end, current, update_cursor_bool, hw, torn>>
  BY <1>1 DEF video
<1>17. Shape(t)'
  BY <1>3, <1>9, <1>10, <1>15, <1>16 DEF Shape
<1>18. Titled(L[t].str, cells, L[t].at)'
  BY <1>2, <1>5, <1>8, <1>9, <1>15, <1>16 DEF Titled
<1>19. Entering(t)'
  BY <1>2, <1>15, <1>16, <1>18 DEF Entering, InText, Shown
<1>20. L'[t].at # 0
  BY <1>5, <1>8, <1>9
<1>21. TitleInv(t)'
  BY <1>10, <1>19 DEF TitleInv, TitleLabels
<1>22. IdleInv(t)' /\ ClearInv(t)' /\ TextInv(t)' /\ AtInv(t)'
  BY <1>10, <1>20 DEF IdleInv, ClearInv, TextInv, AtInv
<1> QED BY <1>17, <1>21, <1>22 DEF IInv, Modes

LEMMA PutcAtStep ==
  ASSUME NEW t, IInv(t), PutcAt(t) PROVE IInv(t)'
<1>1. PICK a, i :
         /\ pc[t] = "idle"
         /\ cells' = [cells EXCEPT ![a[2] + i - 1] = Blank]
         /\ want' = [want EXCEPT !.cells[a[2] + i - 1] = Blank]
         /\ UNCHANGED <<start, end, current, update_cursor_bool, hw, pc, L, torn>>
  BY DEF PutcAt
<1>2. /\ start = start0 /\ end = end0 /\ update_cursor_bool = TRUE
      /\ torn \/ hw = want.current
      /\ cells = want.cells /\ current = want.current /\ cells \in Cells
  BY <1>1, IdleFacts
<1>3. Shape(t)
  BY DEF IInv
<1>4. PICK ds : ds = [cells EXCEPT ![a[2] + i - 1] = Blank]
  OBVIOUS
<1>5. Blank \in Glyphs
  BY DEF Glyphs
<1>6. ds \in Cells
  BY <1>2, <1>4, <1>5, SetCell
<1>7. /\ want' \in [cells : Cells, current : start0..end0 - 1]
      /\ want'.cells = ds /\ want'.current = want.current
  <2>1. want' = [want EXCEPT !.cells = ds]
    BY <1>1, <1>2, <1>4
  <2> QED BY <1>3, <1>6, <2>1 DEF Shape
<1>8. Shape(t)'
  BY <1>1, <1>3, <1>4, <1>6, <1>7 DEF Shape
<1>9. IdleInv(t)'
  BY <1>1, <1>2, <1>4, <1>7 DEF IdleInv, InText, Shown
<1>10. pc'[t] = "idle"
  BY <1>1
<1> QED BY <1>8, <1>9, <1>10, IntoIdle

\* A step of clear_screen.
LEMMA IntoClear ==
  ASSUME NEW t, Shape(t)', pc'[t] = "clear", ClearInv(t)' PROVE IInv(t)'
<1>1. IdleInv(t)' /\ TextInv(t)' /\ AtInv(t)'
  BY DEF IdleInv, TextInv, AtInv, TextLabels
<1>2. L'[t].at = 0
  BY DEF ClearInv
<1>3. TitleInv(t)'
  BY <1>2 DEF TitleInv
<1> QED BY <1>1, <1>3 DEF IInv, Modes

LEMMA CallClearStep ==
  ASSUME NEW t, IInv(t), CallClear(t) PROVE IInv(t)'
<1>1. /\ pc[t] = "idle" /\ current' = start /\ SetLocals(t, Locals) /\ Goto(t, "clear")
      /\ want' = [cells |-> Fill(want.cells, start0, end0, Blank), current |-> start0]
      /\ torn' = FALSE
      /\ UNCHANGED <<cells, start, end, update_cursor_bool, hw>>
  BY DEF CallClear
<1>2. /\ start = start0 /\ end = end0 /\ update_cursor_bool = TRUE
      /\ cells = want.cells /\ cells \in Cells
  BY <1>1, IdleFacts
<1>3. Shape(t)
  BY DEF IInv
<1>4. L'[t] = Locals /\ L' \in [Threads -> LocalsSet]
  BY <1>1, <1>3, LocalsIn, SetIs
<1>5. L'[t].at = 0
  BY <1>4 DEF Locals
<1>6. pc'[t] = "clear" /\ pc' \in [Threads -> Labels]
  BY <1>1, <1>3, GotoIs DEF Labels
<1>7. /\ start0 \in Nat /\ end0 \in Nat /\ 1 <= start0 /\ start0 <= end0 /\ end0 <= B_END
      /\ start0 \in start0..end0 - 1 /\ start0 \in start0..end0
  BY Places
<1>8. Blank \in Glyphs
  BY DEF Glyphs
<1>9. /\ Fill(cells, start0, end0, Blank) = Filled(cells, start0, end0, Blank)
      /\ Filled(cells, start0, end0, Blank) \in Cells
  BY <1>2, <1>7, <1>8, FillIs
<1>10. /\ want'.cells = Filled(cells, start0, end0, Blank) /\ want'.current = start0
       /\ want' \in [cells : Cells, current : start0..end0 - 1]
  BY <1>1, <1>2, <1>7, <1>9
<1>11. Shape(t)'
  BY <1>1, <1>3, <1>4, <1>6, <1>10 DEF Shape
<1>12. ClearInv(t)'
  BY <1>1, <1>2, <1>5, <1>7, <1>10 DEF ClearInv, InText
<1> QED BY <1>6, <1>11, <1>12, IntoClear

LEMMA ClearCellStep ==
  ASSUME NEW t, IInv(t), ClearCell(t) PROVE IInv(t)'
<1>1. pc[t] = "clear"
  BY DEF ClearCell
<1>2. /\ start = start0 /\ end = end0 /\ update_cursor_bool = TRUE /\ L[t].at = 0
      /\ current \in start0..end0
      /\ want.cells = Filled(cells, current, end0, Blank) /\ want.current = start0
  BY <1>1 DEF IInv, Modes, ClearInv, InText
<1>3. Shape(t) /\ cells \in Cells
  BY DEF IInv, Shape
<1>4. UNCHANGED <<start, end, update_cursor_bool, L, want, torn>>
  BY DEF ClearCell
<1>5. /\ current \in Nat /\ end0 \in Nat /\ 1 <= current /\ current <= end0 /\ end0 <= B_END
  BY <1>2, Places
<1>6. CASE current < end0
  <2>1. /\ cells' = [cells EXCEPT ![current] = Blank] /\ current' = current + 1
        /\ UNCHANGED <<hw, pc>>
    BY <1>2, <1>6 DEF ClearCell
  <2>2. Blank \in Glyphs
    BY DEF Glyphs
  <2>3. cells' \in Cells
    BY <1>3, <2>1, <2>2, SetCell
  <2>4. Filled(cells', current + 1, end0, Blank) = Filled(cells, current, end0, Blank)
    BY <1>3, <1>5, <1>6, <2>1, FilledStep
  <2>5. current' \in start0..end0
    BY <1>2, <1>6, <2>1, Places
  <2>6. Shape(t)'
    BY <1>3, <1>4, <2>1, <2>3 DEF Shape
  <2>7. ClearInv(t)'
    BY <1>2, <1>4, <2>1, <2>4, <2>5 DEF ClearInv, InText
  <2> QED BY <1>1, <2>1, <2>6, <2>7, IntoClear
<1>7. CASE ~(current < end0)
  <2>1. current' = start0 /\ hw' = start0 /\ Goto(t, "idle") /\ UNCHANGED cells
    BY <1>2, <1>7 DEF ClearCell
  <2>2. pc'[t] = "idle" /\ pc' \in [Threads -> Labels]
    BY <1>3, <2>1, GotoIs DEF Labels
  <2>3. current = end0
    BY <1>5, <1>7
  <2>4. cells = want.cells
    BY <1>2, <1>3, <1>5, <2>3, FilledNone
  <2>5. hw' \in B_START..B_END - 1
    BY <2>1, Places
  <2>6. Shape(t)'
    BY <1>3, <1>4, <2>1, <2>2, <2>5 DEF Shape
  <2>7. IdleInv(t)'
    BY <1>2, <1>4, <2>1, <2>4 DEF IdleInv, InText, Shown
  <2> QED BY <2>2, <2>6, <2>7, IntoIdle
<1> QED BY <1>6, <1>7

\* A tick draws the clock, whatever the thread is about to do.
LEMMA TickText ==
  ASSUME NEW t, IInv(t), pc[t] \in TextLabels, L[t].at = 0, NEW time, Clock(time),
         cells' = D(cells, time), update_cursor_bool' = TRUE,
         want'.cells = D(want.cells, time), want'.current = want.current,
         UNCHANGED <<start, end, current, hw, pc, L>>
  PROVE  TextInv(t)'
<1>1. /\ start = start0 /\ end = end0 /\ cells \in Cells
      /\ Within(pc[t], L[t], current) /\ L[t] \in LocalsSet
  BY TextFacts
<1>2. /\ PutS(Todo(pc[t], L[t], cells, current), L[t].str) = T(want.cells, want.current)
      /\ L[t].inputs => L[t].copy = TRUE /\ pc[t] # "enter puts"
      /\ ~L[t].inputs => /\ update_cursor_bool = TRUE /\ pc[t] # "puts"
                         /\ pc[t] # "enter puts" => L[t].str = <<>>
  BY DEF IInv, Modes, TextInv
<1>3. PICK td : td = Todo(pc[t], L[t], cells, current)
  OBVIOUS
<1>4. OnText(td) /\ Todo(pc[t], L[t], D(cells, time), current) = Drawn(td, time)
  BY <1>1, <1>3, TodoText
<1>5. L[t].str \in Seq(Glyphs)
  BY <1>1, FieldsIn
<1>6. PutS(Drawn(td, time), L[t].str) = Drawn(PutS(td, L[t].str), time)
  BY <1>4, <1>5, PutSText
<1>7. Drawn(T(want.cells, want.current), time) = T(D(want.cells, time), want.current)
  BY FieldsOfT DEF Drawn
<1>8. PutS(Todo(pc[t], L[t], D(cells, time), current), L[t].str)
        = T(D(want.cells, time), want.current)
  BY <1>2, <1>3, <1>4, <1>6, <1>7
<1>9. PutS(Todo(pc'[t], L'[t], cells', current'), L'[t].str) = T(want'.cells, want'.current)
  BY <1>8
<1>10. InText' /\ Within(pc'[t], L'[t], current')
  BY <1>1 DEF InText
<1> QED BY <1>2, <1>9, <1>10 DEF TextInv

\* The clock is below the title: it is drawn beside what is left of it.
LEMMA TickTitled ==
  ASSUME NEW cs \in Cells, NEW time, NEW str, Len(str) \in Nat, NEW p, Titled(str, cs, p)
  PROVE  Over(D(cs, time), str, p) = D(want.cells, time)
<1>1. p \in Nat \ {0} /\ p + Len(str) <= COLUMNS /\ Over(cs, str, p) = want.cells
  BY DEF Titled
<1>2. p \in Nat /\ p + Len(str) <= ClockAt
  BY <1>1, Places
<1> QED BY <1>1, <1>2, DrawnOver

LEMMA TickTitle ==
  ASSUME NEW t, IInv(t), pc[t] # "idle", L[t].at # 0, NEW time, Clock(time),
         cells' = D(cells, time), update_cursor_bool' = TRUE, torn' = TRUE,
         want'.cells = D(want.cells, time), want'.current = want.current,
         UNCHANGED <<start, end, current, hw, pc, L>>
  PROVE  TitleInv(t)'
<1>1. cells \in Cells /\ L[t] \in LocalsSet /\ pc[t] \in TitleLabels
  BY DEF IInv, Shape, Modes, TitleInv
<1>2. Len(L[t].str) \in Nat
  BY <1>1, FieldsIn
<1>3. CASE pc[t] = "enter puts_at"
  <2>1. Entering(t)
    BY <1>3 DEF IInv, Modes, TitleInv
  <2>2. Titled(L[t].str, cells, L[t].at)
    BY <2>1 DEF Entering
  <2>3. Over(D(cells, time), L[t].str, L[t].at) = D(want.cells, time)
    BY <1>1, <1>2, <2>2, TickTitled
  <2>4. Titled(L[t].str, cells, L[t].at)'
    BY <2>2, <2>3 DEF Titled
  <2>5. Entering(t)'
    BY <2>1, <2>4 DEF Entering, InText, Shown
  <2> QED BY <1>1, <1>3, <2>5 DEF TitleInv
<1>4. CASE pc[t] # "enter puts_at"
  <2>1. Inside(t)
    BY <1>4 DEF IInv, Modes, TitleInv
  <2>2. pc[t] = "leave puts_at" => cells' = want'.cells
    BY <2>1 DEF Inside
  <2>3. ASSUME pc[t] = "putc"
        PROVE  Titled(L[t].str, [cells EXCEPT ![current] = L[t].c], current + 1)'
    <3>1. Titled(L[t].str, [cells EXCEPT ![current] = L[t].c], current + 1)
      BY <2>1, <2>3 DEF Inside
    <3>2. PICK ds : ds = [cells EXCEPT ![current] = L[t].c]
      OBVIOUS
    <3>3. L[t].c \in Glyphs
      BY <1>1, FieldsIn
    <3>4. ds \in Cells
      BY <1>1, <3>2, <3>3, SetCell
    <3>5. Over(D(ds, time), L[t].str, current + 1) = D(want.cells, time)
      BY <1>2, <3>1, <3>2, <3>4, TickTitled
    <3>6. current \in 1..end0
      <4>1. current \in Nat \ {0} /\ current <= COLUMNS
        BY <2>1 DEF Inside
      <4> QED BY <4>1, Places
    <3>7. [D(cells, time) EXCEPT ![current] = L[t].c] = D(ds, time)
      <4>1. PICK p \in 1..end0 : p = current
        BY <3>6
      <4>2. PICK cs \in Cells : cs = cells
        BY <1>1
      <4>3. PICK c : c = L[t].c
        OBVIOUS
      <4>4. [D(cs, time) EXCEPT ![p] = c] = D([cs EXCEPT ![p] = c], time)
        BY DrawnSet
      <4> QED BY <3>2, <4>1, <4>2, <4>3, <4>4
    <3> QED BY <3>1, <3>5, <3>7 DEF Titled
  <2>4. ASSUME pc[t] \notin {"putc", "leave puts_at"}
        PROVE  Titled(L[t].str, cells, current)'
    <3>1. Titled(L[t].str, cells, current)
      BY <2>1, <2>4 DEF Inside
    <3>2. Over(D(cells, time), L[t].str, current) = D(want.cells, time)
      BY <1>1, <1>2, <3>1, TickTitled
    <3> QED BY <3>1, <3>2 DEF Titled
  <2>5. Inside(t)'
    BY <2>1, <2>2, <2>3, <2>4 DEF Inside
  <2> QED BY <1>1, <1>4, <2>5 DEF TitleInv
<1> QED BY <1>3, <1>4

LEMMA TickStep ==
  ASSUME NEW t, IInv(t), Tick PROVE IInv(t)'
<1>1. PICK time \in Times :
         /\ DrawClock(time)
         /\ want' = [want EXCEPT !.cells = PutsAt(@, time, ClockAt)]
         /\ torn' = (torn \/ \E u \in Threads : InPutsAt(u))
         /\ UNCHANGED <<pc, L>>
  BY DEF Tick
<1>2. Clock(time)
  BY ArgsAssumption DEF ArgsAssumption, Clock
<1>3. Shape(t) /\ cells \in Cells /\ want.cells \in Cells
  BY DEF IInv, Shape
<1>4. Plain(time) /\ ClockAt + Len(time) < B_END /\ ClockAt \in Nat \ {0}
  BY <1>2, Places DEF Clock
<1>5. PutsAt(cells, time, ClockAt) = D(cells, time)
  BY <1>3, <1>4, PutsAtIs DEF D
<1>6. PutsAt(want.cells, time, ClockAt) = D(want.cells, time)
  BY <1>3, <1>4, PutsAtIs DEF D
<1>7. D(cells, time) \in Cells /\ D(want.cells, time) \in Cells
  BY <1>2, <1>3, DrawnCells
<1>8. /\ cells' = D(cells, time) /\ update_cursor_bool' = TRUE
      /\ UNCHANGED <<start, end, current, hw, pc, L>>
  BY <1>1, <1>5 DEF DrawClock
<1>9. /\ want'.cells = D(want.cells, time) /\ want'.current = want.current
      /\ want' \in [cells : Cells, current : start0..end0 - 1]
  <2>1. want' = [want EXCEPT !.cells = D(want.cells, time)]
    BY <1>1, <1>6
  <2> QED BY <1>3, <1>7, <2>1 DEF Shape
<1>10. torn' \in BOOLEAN /\ (torn => torn')
  BY <1>1, <1>3 DEF Shape
<1>11. Shape(t)'
  BY <1>3, <1>7, <1>8, <1>9, <1>10 DEF Shape
<1>12. CASE pc[t] = "idle"
  <2>1. /\ start = start0 /\ end = end0 /\ (torn \/ hw = want.current)
        /\ cells = want.cells /\ current = want.current
    BY <1>12, IdleFacts
  <2>2. IdleInv(t)'
    BY <1>8, <1>9, <1>10, <2>1 DEF IdleInv, InText, Shown
  <2> QED BY <1>8, <1>11, <1>12, <2>2, IntoIdle
<1>13. CASE pc[t] = "clear"
  <2>1. /\ start = start0 /\ end = end0 /\ L[t].at = 0 /\ current \in start0..end0
        /\ want.cells = Filled(cells, current, end0, Blank) /\ want.current = start0
    BY <1>13 DEF IInv, Modes, ClearInv, InText
  <2>2. current \in Nat /\ end0 \in Nat /\ end0 <= end0
    BY <2>1, Places
  <2>3. Filled(D(cells, time), current, end0, Blank) = D(Filled(cells, current, end0, Blank), time)
    BY <1>3, <2>2, DrawnFilled
  <2>4. ClearInv(t)'
    BY <1>8, <1>9, <2>1, <2>3 DEF ClearInv, InText
  <2> QED BY <1>8, <1>11, <1>13, <2>4, IntoClear
<1>14. CASE pc[t] \in TextLabels /\ L[t].at = 0
  <2>1. TextInv(t)'
    BY <1>2, <1>8, <1>9, <1>14, TickText
  <2> QED BY <1>8, <1>11, <1>14, <2>1, IntoText
<1>15. CASE pc[t] # "idle" /\ L[t].at # 0
  <2>1. torn' = TRUE
    BY <1>1, <1>3, <1>15 DEF InPutsAt, Shape
  <2>2. TitleInv(t)'
    BY <1>2, <1>8, <1>9, <1>15, <2>1, TickTitle
  <2>3. pc[t] # "clear"
    BY <1>15 DEF IInv, Modes, TitleInv, TitleLabels
  <2>4. IdleInv(t)' /\ ClearInv(t)' /\ TextInv(t)' /\ AtInv(t)'
    BY <1>8, <1>15, <2>3 DEF IdleInv, ClearInv, TextInv, AtInv
  <2> QED BY <1>11, <2>2, <2>4 DEF IInv, Modes
<1>16. \/ pc[t] = "idle" \/ pc[t] = "clear"
       \/ pc[t] \in TextLabels /\ L[t].at = 0
       \/ pc[t] # "idle" /\ L[t].at # 0
  <2>1. pc[t] \in Labels
    BY <1>3, LocalsAre
  <2>2. L[t].at = 0 => pc[t] \notin {"enter puts_at", "leave puts_at"}
    BY DEF IInv, Modes, AtInv
  <2> QED BY <2>1, <2>2 DEF Labels, TextLabels, TitleLabels
<1> QED BY <1>12, <1>13, <1>14, <1>15, <1>16

LEMMA FirstIs == FirstCells \in Cells
<1>1. PICK n \in Nat : n = B_END - 1
  BY Places
<1>2. Repeat(Blank, B_END - 1) \in Cells
  <2>1. Blank \in Glyphs
    BY DEF Glyphs
  <2>2. Repeat(Blank, n) \in Seq(Glyphs) /\ Len(Repeat(Blank, n)) = n
    BY <2>1, RepeatIs
  <2> QED BY <1>1, <2>2, SeqCells
<1>3. ASSUME NEW cs \in Cells, NEW str, Plain(str), NEW pos \in Nat \ {0},
             pos + Len(str) < B_END
      PROVE  PutsAt(cs, str, pos) \in Cells
  <2>1. PutsAt(cs, str, pos) = Over(cs, str, pos)
    BY <1>3, PutsAtIs
  <2> QED BY <1>3, <2>1, OverIs
<1>4. Plain(Title) /\ Len(Title) < COLUMNS /\ Plain(Rule) /\ Len(Rule) = COLUMNS
  BY ArgsAssumption DEF ArgsAssumption
<1>5. Len(Title) \in Nat
  BY <1>4, StringsGlyphs
<1>6. /\ At(0, 0) = 1 /\ At(1, 0) = COLUMNS + 1 /\ At(ROWS - 2, 0) = end0
      /\ 1 + Len(Title) < B_END /\ (COLUMNS + 1) + COLUMNS < B_END
      /\ end0 + COLUMNS < B_END /\ COLUMNS + 1 \in Nat \ {0} /\ end0 \in Nat \ {0}
  <2>1. At(0, 0) = 1 /\ At(1, 0) = COLUMNS + 1 /\ At(ROWS - 2, 0) = end0
    BY Places DEF At, end0, B_START
  <2> QED BY <1>4, <1>5, <2>1, Places
<1>7. Plain(FirstTime) /\ ClockAt + Len(FirstTime) < B_END /\ ClockAt \in Nat \ {0}
  <2>1. FirstTime \in Times
    BY ArgsAssumption DEF ArgsAssumption, FirstTime
  <2>2. ClockAt \in Nat \ {0}
    BY Places
  <2> QED BY <2>1, <2>2, ArgsAssumption DEF ArgsAssumption
<1>8. PICK ts : ts = PutsAt(Repeat(Blank, B_END - 1), Title, At(0, 0))
  OBVIOUS
<1>9. ts \in Cells
  BY <1>2, <1>3, <1>4, <1>6, <1>8
<1>10. PICK rs : rs = PutsAt(ts, Rule, At(1, 0))
  OBVIOUS
<1>11. rs \in Cells
  BY <1>3, <1>4, <1>6, <1>9, <1>10
<1>12. PICK bs : bs = PutsAt(rs, Rule, At(ROWS - 2, 0))
  OBVIOUS
<1>13. bs \in Cells
  BY <1>3, <1>4, <1>6, <1>11, <1>12
<1>14. FirstCells = PutsAt(bs, FirstTime, ClockAt)
  BY <1>8, <1>10, <1>12 DEF FirstCells
<1> QED BY <1>3, <1>7, <1>13, <1>14

LEMMA InitInv ==
  ASSUME NEW t, Threads = {t}, Init
  PROVE  IInv(t)
<1>1. /\ cells = FirstCells /\ start = start0 /\ end = end0 /\ current = start0
      /\ update_cursor_bool = TRUE /\ hw = start0
      /\ pc = [u \in Threads |-> "idle"] /\ L = [u \in Threads |-> Locals]
      /\ want = [cells |-> FirstCells, current |-> start0] /\ torn = FALSE
  BY DEF Init
<1>2. start0 \in start0..end0 - 1 /\ start0 \in B_START..B_END - 1
  BY Places
<1>3. pc[t] = "idle" /\ L[t].at = 0
  BY <1>1 DEF Locals
<1>4. Shape(t)
  <2>1. pc \in [Threads -> Labels]
    BY <1>1 DEF Labels
  <2>2. L \in [Threads -> LocalsSet]
    BY <1>1, LocalsIn
  <2>3. want \in [cells : Cells, current : start0..end0 - 1]
    BY <1>1, <1>2, FirstIs
  <2> QED BY <1>1, <1>2, <2>1, <2>2, <2>3, FirstIs DEF Shape
<1>5. IdleInv(t)
  BY <1>1 DEF IdleInv, InText, Shown
<1>6. ClearInv(t) /\ TextInv(t) /\ TitleInv(t) /\ AtInv(t)
  BY <1>3 DEF ClearInv, TextInv, TitleInv, AtInv, TextLabels
<1> QED BY <1>4, <1>5, <1>6 DEF IInv, Modes

LEMMA StepInv ==
  ASSUME NEW t, IInv(t), [Next]_vars
  PROVE  IInv(t)'
<1>1. CASE Tick
  BY <1>1, TickStep
<1>2. CASE \E u \in Threads : ThreadStep(u)
  <2>1. ThreadStep(t)
    BY <1>2 DEF IInv, Shape
  <2>2. CASE CallPutc(t) \/ CallPuts(t) \/ CallPutsAt(t) \/ PutcAt(t) \/ CallClear(t)
    BY <2>2, CallPutcStep, CallPutsStep, CallPutsAtStep, PutcAtStep, CallClearStep
  <2>3. CASE EnterPutsAt(t) \/ EnterPuts(t) \/ NextChar(t) \/ LeavePuts(t) \/ LeavePutsAt(t)
    BY <2>3, EnterPutsAtStep, EnterPutsText, EnterPutsTitle, NextCharText, NextCharTitle,
       LeavePutsText, LeavePutsTitle, LeavePutsAtStep
  <2>4. CASE Putc(t) \/ FillCell(t) \/ EraseBlank(t) \/ Clamp(t)
    BY <2>4, PutcText, PutcTitle, FillCellStep, EraseBlankStep, ClampText, ClampTitle
  <2>5. CASE ScrollCell(t) \/ ZeroCell(t) \/ ShowCursor(t) \/ ClearCell(t)
    BY <2>5, ScrollCellStep, ZeroCellStep, ShowText, ShowTitle, ClearCellStep
  <2> QED BY <2>1, <2>2, <2>3, <2>4, <2>5 DEF ThreadStep
<1>3. CASE UNCHANGED vars
  <2>1. UNCHANGED <<cells, start, end, current, update_cursor_bool, hw, pc, L, want, torn>>
    BY <1>3 DEF vars, video
  <2>2. Shape(t)'
    BY <2>1 DEF IInv, Shape
  <2>3. Modes(t)'
    BY <2>1 DEF IInv, Modes, IdleInv, ClearInv, TextInv, TitleInv, AtInv, Entering, Inside,
                Titled, InText, Shown
  <2> QED BY <2>2, <2>3 DEF IInv
<1> QED BY <1>1, <1>2, <1>3 DEF Next

-----------------------------------------------------------------------------
(* What follows.                                                           *)

OneThread == \E t : Threads = {t}

LEMMA Invariance ==
  ASSUME NEW t, Threads = {t}
  PROVE  Spec => []IInv(t)
<1>1. Init => IInv(t)
  BY InitInv
<1>2. IInv(t) /\ [Next]_vars => IInv(t)'
  BY StepInv
<1> QED BY <1>1, <1>2, PTL DEF Spec

\* Outside of the text the screen is as wanted, except in a puts_at.
LEMMA FrameKept ==
  ASSUME NEW t, IInv(t)
  PROVE  FrameIntact
<1>1. cells \in Cells /\ DOMAIN cells = 1..B_END - 1 /\ Threads = {t}
  BY DEF IInv, Shape, Cells
<1> SUFFICES ASSUME ~InPutsAt(t) PROVE Frame(want.cells, cells)
  BY <1>1 DEF FrameIntact, Frame
<1>2. CASE pc[t] = "idle"
  <2>1. cells = want.cells
    BY <1>2, IdleFacts
  <2> QED BY <2>1 DEF Frame
<1>3. CASE pc[t] = "clear"
  <2>1. want.cells = Filled(cells, current, end0, Blank) /\ current \in start0..end0
    BY <1>3 DEF IInv, Modes, ClearInv
  <2>2. SUFFICES ASSUME NEW i \in 1..B_END - 1, i \notin start0..end0 - 1
                 PROVE  cells[i] = want.cells[i]
    BY DEF Frame
  <2>3. i \notin current..end0 - 1
    BY <2>1, <2>2, Places
  <2> QED BY <2>1, <2>2, <2>3 DEF Filled
<1>4. CASE pc[t] \in TextLabels /\ L[t].at = 0
  <2>1. /\ PutS(Todo(pc[t], L[t], cells, current), L[t].str) = T(want.cells, want.current)
        /\ Within(pc[t], L[t], current) /\ L[t] \in LocalsSet
    BY <1>4, TextFacts DEF IInv, Modes, TextInv
  <2>2. PICK td : td = Todo(pc[t], L[t], cells, current)
    OBVIOUS
  <2>3. OnText(td) /\ Frame(cells, td.cells)
    BY <1>1, <1>4, <2>1, <2>2, TodoText
  <2>4. L[t].str \in Seq(Glyphs)
    BY <2>1, FieldsIn
  <2>5. Frame(td.cells, PutS(td, L[t].str).cells)
    BY <2>3, <2>4, PutSText
  <2>6. PutS(td, L[t].str).cells = want.cells
    BY <2>1, <2>2, FieldsOfT
  <2> QED BY <2>3, <2>5, <2>6 DEF Frame
<1>5. pc[t] = "idle" \/ pc[t] = "clear" \/ (pc[t] \in TextLabels /\ L[t].at = 0)
  <2>1. pc[t] = "idle" \/ L[t].at = 0
    BY DEF InPutsAt
  <2>2. pc[t] \in Labels
    BY LocalsAre DEF IInv
  <2>3. L[t].at = 0 => pc[t] \notin {"enter puts_at", "leave puts_at"}
    BY DEF IInv, Modes, AtInv
  <2> QED BY <2>1, <2>2, <2>3 DEF Labels, TextLabels, TitleLabels
<1> QED BY <1>2, <1>3, <1>4, <1>5

LEMMA TypesKept ==
  ASSUME NEW t, IInv(t)
  PROVE  TypeOK
<1>1. /\ cells \in Cells /\ hw \in B_START..B_END - 1
      /\ update_cursor_bool \in BOOLEAN /\ torn \in BOOLEAN
  BY DEF IInv, Shape
<1>2. Len(cells) = B_END - 1
  BY <1>1, CellsSeq
<1>3. /\ <<start, end>> \in {<<start0, end0>>, <<B_START, B_END>>}
      /\ current \in start..end
  <2>1. CASE pc[t] = "idle"
    BY <2>1, IdleFacts
  <2>2. CASE pc[t] = "clear"
    BY <2>2 DEF IInv, Modes, ClearInv, InText
  <2>3. CASE pc[t] \in TextLabels /\ L[t].at = 0
    BY <2>3, TextFacts
  <2>4. CASE pc[t] = "enter puts_at" /\ L[t].at # 0
    <3>1. start = start0 /\ end = end0 /\ current = want.current
      BY <2>4 DEF IInv, Modes, TitleInv, Entering, InText
    <3>2. want.current \in start0..end0 - 1
      BY DEF IInv, Shape
    <3> QED BY <3>1, <3>2, Places
  <2>5. CASE pc[t] \notin {"idle", "enter puts_at"} /\ L[t].at # 0
    <3>1. start = B_START /\ end = B_END /\ current \in Nat \ {0} /\ current <= COLUMNS
      BY <2>5, TitleFacts DEF Inside
    <3> QED BY <3>1, Places
  <2>6. L[t].at = 0 => pc[t] \notin {"enter puts_at", "leave puts_at"}
    BY DEF IInv, Modes, AtInv
  <2>7. pc[t] \in Labels
    BY LocalsAre DEF IInv
  <2> QED BY <2>1, <2>2, <2>3, <2>4, <2>5, <2>6, <2>7 DEF Labels, TextLabels, TitleLabels
<1> QED BY <1>1, <1>2, <1>3 DEF TypeOK

\* On a screen of any size, and whatever is printed to it, no statement of
\* the console writes outside of the cells or takes the cursor out of the part
\* it prints to, and text leaves the title and the rules alone, although the
\* tick borrows start, end and current at any point (console.c:107-158,
\* 226-245).
THEOREM PrintsInside == ASSUME OneThread PROVE Spec => []StaysInside
<1>1. PICK t : Threads = {t}
  BY DEF OneThread
<1>2. IInv(t) => StaysInside
  BY FrameKept, TypesKept DEF StaysInside
<1>3. Spec => []IInv(t)
  BY <1>1, Invariance
<1> QED BY <1>2, <1>3, PTL

\* The loops of putc, puts, puts_at and clear_screen, however many ticks come
\* into them, end with what TextScreen says of the whole call, and with the
\* text's start and end (console.c:78-87, 107-183, 226-245; time.c:139).
THEOREM CallsAsIfAlone == ASSUME OneThread PROVE Spec => []AsIfAlone
<1>1. PICK t : Threads = {t}
  BY DEF OneThread
<1>2. IInv(t) => AsIfAlone
  <2> SUFFICES ASSUME IInv(t), pc[t] = "idle"
               PROVE  /\ [cells |-> cells, current |-> current] = want
                      /\ <<start, end>> = <<start0, end0>>
    BY <1>1 DEF AsIfAlone, Idle
  <2>1. start = start0 /\ end = end0 /\ cells = want.cells /\ current = want.current
    BY IdleFacts
  <2>2. want \in [cells : Cells, current : start0..end0 - 1]
    BY DEF IInv, Shape
  <2> QED BY <2>1, <2>2
<1>3. Spec => []IInv(t)
  BY <1>1, Invariance
<1> QED BY <1>2, <1>3, PTL

\* Between calls the video controller shows the cursor where the next
\* character goes, unless a tick came into a thread's puts_at and turned
\* update_cursor_bool on under it (console.c:226-245).
THEOREM CursorWhereItIs == ASSUME OneThread PROVE Spec => []CursorOffOnlyTorn
<1>1. PICK t : Threads = {t}
  BY DEF OneThread
<1>2. IInv(t) => CursorOffOnlyTorn
  <2> SUFFICES ASSUME IInv(t), pc[t] = "idle" PROVE torn \/ hw = current
    BY <1>1 DEF CursorOffOnlyTorn, Idle
  <2> QED BY IdleFacts
<1>3. Spec => []IInv(t)
  BY <1>1, Invariance
<1> QED BY <1>2, <1>3, PTL

-----------------------------------------------------------------------------
(* Keyboard and Terminal: the mailbox.                                      *)

\* What last and a buffer hold.
Chars == Keys \cup {"A", "!", "none", Space}

\* The parts of TypeOK that the proofs need, and the buffers as sequences.
MailboxOK ==
    /\ caps \in BOOLEAN /\ kbhit \in BOOLEAN /\ raced \in BOOLEAN
    /\ kb_status \subseteq ShiftKeys
    /\ nkeys \in 0..MaxKeys
    /\ rd \in {"test", "sleep", "halt", "clear", "read", "out"}
    /\ last \in Chars /\ got \in Chars
    /\ owed \in Seq(Chars) /\ Len(owed) <= nkeys

Limit == IF in = "text" THEN MAX_TEXT ELSE MAX_INPUT - 1
BuffersOK ==
    /\ in \in {"gets", "text", "prompt"}
    /\ buff \in Seq(Chars) /\ Len(buff) <= Limit
    /\ past \in BOOLEAN

\* What is owed to the reader is what is in the mailbox, as long as no key
\* came before another was taken.
Waiting == IF kbhit \/ rd = "read" THEN <<last>> ELSE <<>>
MailboxInv ==
    /\ shift = (kb_status # {})
    /\ rd = "clear" => kbhit
    /\ ~raced => /\ rd = "read" => ~kbhit
                 /\ owed = Waiting

TermInv == MailboxOK /\ BuffersOK /\ MailboxInv

-----------------------------------------------------------------------------
\* shift is what is held down: the tables the handler chooses by it are the
\* right ones.
LEMMA CharIsMeant ==
  ASSUME NEW key, shift = (kb_status # {}), caps \in BOOLEAN
  PROVE  CharOf(key) = Meant(key)
<1>1. CASE key = "a"
  BY <1>1 DEF CharOf, Meant, Shifted
<1>2. CASE key = "1"
  BY <1>2 DEF CharOf, Meant, Shifted
<1>3. CASE key \notin {"a", "1"}
  BY <1>3 DEF CharOf, Meant, Shifted
<1> QED BY <1>1, <1>2, <1>3

LEMMA CharInChars == ASSUME NEW key \in Keys PROVE CharOf(key) \in Chars
<1>1. CASE Shifted(key)
  <2>1. key \in {"a", "1"}
    BY <1>1 DEF Shifted
  <2> QED BY <1>1, <2>1 DEF CharOf, Upper, Chars
<1>2. CASE ~Shifted(key)
  BY <1>2 DEF CharOf, Chars
<1> QED BY <1>1, <1>2

LEMMA PressMailbox ==
  ASSUME MailboxOK, MailboxInv, NEW key \in Keys, Press(key), Woken, got' = got
  PROVE  MailboxOK' /\ MailboxInv'
<1> USE KeysAssumption
<1>1. CASE key \in Beyond
  <2>1. /\ last' = last /\ caps' = caps /\ kb_status' = kb_status /\ kbhit' = kbhit
        /\ owed' = owed /\ raced' = raced
        /\ nkeys' = nkeys + 1 /\ nkeys' \in 0..MaxKeys
        /\ shift' = (kb_status' # {})
    BY <1>1 DEF Press, ghosts, MailboxOK
  <2>2. /\ rd' \in {"test", "sleep", "halt", "clear", "read", "out"}
        /\ rd' = "read" <=> rd = "read"
        /\ rd' = "clear" <=> rd = "clear"
    BY DEF Woken, MailboxOK
  <2>3. MailboxOK'
    BY <2>1, <2>2 DEF MailboxOK
  <2>4. MailboxInv'
    BY <2>1, <2>2 DEF MailboxInv, Waiting
  <2> QED BY <2>3, <2>4
<1>2. CASE key \notin Beyond
  <2>1. /\ last' = CharOf(key)
        /\ caps' = (caps # (key = "caps"))
        /\ kb_status' = kb_status \cup ({key} \cap ShiftKeys)
        /\ kbhit' = TRUE
        /\ owed' = Append(owed, Meant(key))
        /\ raced' = (raced \/ kbhit \/ rd = "read")
        /\ nkeys' = nkeys + 1 /\ nkeys' \in 0..MaxKeys
        /\ shift' = (kb_status' # {})
    BY <1>2 DEF Press, MailboxOK
  <2>2. /\ rd' \in {"test", "sleep", "halt", "clear", "read", "out"}
        /\ rd' = "read" <=> rd = "read"
    BY DEF Woken, MailboxOK
  <2>3. CharOf(key) \in Chars /\ CharOf(key) = Meant(key)
    BY CharInChars, CharIsMeant DEF MailboxOK, MailboxInv
  <2>4. owed' \in Seq(Chars) /\ Len(owed') <= nkeys'
    BY <2>1, <2>3 DEF MailboxOK
  <2>5. raced' \in BOOLEAN /\ caps' \in BOOLEAN
    BY <2>1 DEF MailboxOK
  <2>6. MailboxOK'
    BY <2>1, <2>2, <2>3, <2>4, <2>5 DEF MailboxOK
  <2>7. ASSUME ~raced' PROVE rd' # "read" /\ owed' = <<last'>>
    <3>1. ~raced /\ ~kbhit /\ rd # "read"
      BY <2>1, <2>7 DEF MailboxOK
    <3>2. owed = <<>>
      BY <3>1 DEF MailboxInv, Waiting
    <3> QED BY <2>1, <2>2, <2>3, <3>1, <3>2
  <2>8. MailboxInv'
    BY <2>1, <2>7 DEF MailboxInv, Waiting
  <2> QED BY <2>6, <2>8
<1> QED BY <1>1, <1>2

LEMMA ReleaseMailbox ==
  ASSUME MailboxOK, MailboxInv, NEW key, Release(key), Woken, got' = got
  PROVE  MailboxOK' /\ MailboxInv'
<1>1. /\ last' = last /\ caps' = caps /\ kbhit' = kbhit /\ nkeys' = nkeys
      /\ owed' = owed /\ raced' = raced
      /\ kb_status' = kb_status \ {key} /\ shift' = (kb_status' # {})
  BY DEF Release, ghosts
<1>2. /\ rd' \in {"test", "sleep", "halt", "clear", "read", "out"}
      /\ rd' = "read" <=> rd = "read"
      /\ rd' = "clear" <=> rd = "clear"
  BY DEF Woken, MailboxOK
<1>3. MailboxOK'
  BY <1>1, <1>2 DEF MailboxOK
<1>4. MailboxInv'
  BY <1>1, <1>2 DEF MailboxInv, Waiting
<1> QED BY <1>3, <1>4

LEMMA HandlersMailbox ==
  ASSUME MailboxOK, MailboxInv, HandleKeystroke \/ HandleTick
  PROVE  MailboxOK' /\ MailboxInv'
<1>1. CASE HandleKeystroke
  BY <1>1, PressMailbox, ReleaseMailbox DEF HandleKeystroke
<1>2. CASE HandleTick
  <2>1. /\ last' = last /\ caps' = caps /\ kbhit' = kbhit /\ nkeys' = nkeys
        /\ owed' = owed /\ raced' = raced /\ got' = got
        /\ kb_status' = kb_status /\ shift' = shift /\ rd' = "test" /\ rd = "halt"
    BY <1>2 DEF HandleTick, Woken, keyboard, ghosts
  <2>2. MailboxOK'
    BY <2>1 DEF MailboxOK
  <2>3. MailboxInv'
    BY <2>1 DEF MailboxInv, Waiting
  <2> QED BY <2>2, <2>3
<1> QED BY <1>1, <1>2

LEMMA GetcMailbox ==
  ASSUME MailboxOK, MailboxInv, Getc
  PROVE  MailboxOK' /\ MailboxInv'
<1>1. CASE TestKbhit
  <2>1. /\ last' = last /\ caps' = caps /\ kbhit' = kbhit /\ nkeys' = nkeys
        /\ got' = got /\ kb_status' = kb_status /\ shift' = shift
        /\ rd = "test" /\ rd' = IF kbhit THEN "clear" ELSE "sleep"
        /\ IF kbhit THEN owed' = owed /\ raced' = raced ELSE owed' = <<>> /\ raced' = FALSE
    BY <1>1 DEF TestKbhit, keyboard, ghosts
  <2>2. MailboxOK'
    <3>0. <<>> \in Seq(Chars) /\ Len(<<>>) = 0 /\ nkeys \in Nat
      BY KeysAssumption DEF MailboxOK, KeysAssumption
    <3>1. raced' \in BOOLEAN
      BY <2>1 DEF MailboxOK
    <3>2. owed' = owed \/ owed' = <<>>
      BY <2>1
    <3>3. owed' \in Seq(Chars) /\ Len(owed') <= nkeys'
      <4>1. CASE owed' = owed
        BY <2>1, <4>1 DEF MailboxOK
      <4>2. CASE owed' = <<>>
        <5>1. Len(owed') = 0 /\ 0 <= nkeys'
          BY <2>1, <3>0, <4>2
        <5> QED BY <3>0, <4>2, <5>1
      <4> QED BY <3>2, <4>1, <4>2
    <3> QED BY <2>1, <3>1, <3>3 DEF MailboxOK
  <2>3. MailboxInv'
    BY <2>1 DEF MailboxInv, Waiting
  <2> QED BY <2>2, <2>3
<1>2. CASE ClearKbhit
  <2>1. /\ last' = last /\ caps' = caps /\ kbhit' = FALSE /\ nkeys' = nkeys
        /\ owed' = owed /\ raced' = raced /\ got' = got
        /\ kb_status' = kb_status /\ shift' = shift /\ rd = "clear" /\ rd' = "read"
    BY <1>2 DEF ClearKbhit, ghosts
  <2>2. MailboxOK'
    BY <2>1 DEF MailboxOK
  <2>3. MailboxInv'
    BY <2>1 DEF MailboxInv, Waiting
  <2> QED BY <2>2, <2>3
<1>3. CASE ReadLast
  <2>1. /\ last' = last /\ caps' = caps /\ kbhit' = kbhit /\ nkeys' = nkeys
        /\ raced' = raced /\ got' = last
        /\ owed' = IF owed = <<>> THEN owed ELSE Tail(owed)
        /\ kb_status' = kb_status /\ shift' = shift /\ rd = "read" /\ rd' = "out"
    BY <1>3 DEF ReadLast, keyboard
  <2>2. MailboxOK'
    <3>1. owed' \in Seq(Chars) /\ Len(owed') <= nkeys'
      BY <2>1 DEF MailboxOK
    <3> QED BY <2>1, <3>1 DEF MailboxOK
  <2>3. ASSUME ~raced PROVE ~kbhit /\ owed' = <<>>
    <3>1. ~kbhit /\ owed = <<last>>
      BY <2>1, <2>3 DEF MailboxInv, Waiting
    <3> QED BY <2>1, <3>1
  <2>4. MailboxInv'
    BY <2>1, <2>3 DEF MailboxInv, Waiting
  <2> QED BY <2>2, <2>4
<1>4. CASE Halt
  <2>1. /\ last' = last /\ caps' = caps /\ kbhit' = kbhit /\ nkeys' = nkeys
        /\ owed' = owed /\ raced' = raced /\ got' = got
        /\ kb_status' = kb_status /\ shift' = shift /\ rd = "sleep" /\ rd' = "halt"
    BY <1>4 DEF Halt, keyboard, ghosts
  <2>2. MailboxOK'
    BY <2>1 DEF MailboxOK
  <2>3. MailboxInv'
    BY <2>1 DEF MailboxInv, Waiting
  <2> QED BY <2>2, <2>3
<1> QED BY <1>1, <1>2, <1>3, <1>4 DEF Getc

-----------------------------------------------------------------------------
(* The buffers.                                                            *)

LEMMA Least ==
  ASSUME NEW a \in Nat, NEW b \in Nat
  PROVE  Min({a, b}) \in Nat /\ Min({a, b}) <= b
<1> DEFINE m == IF a <= b THEN a ELSE b
<1>1. m \in {a, b} /\ \A y \in {a, b} : m <= y
  OBVIOUS
<1> QED BY <1>1 DEF Min

LEMMA FrontShorter ==
  ASSUME NEW s \in Seq(Chars), s # <<>>
  PROVE  Front(s) \in Seq(Chars) /\ Len(Front(s)) <= Len(s)
  BY DEF Front

\* The spaces of a tab.
LEMMA Padded ==
  ASSUME NEW s \in Seq(Chars), NEW n \in Nat
  PROVE  /\ s \o Repeat(Space, n) \in Seq(Chars)
         /\ Len(s \o Repeat(Space, n)) = Len(s) + n
<1>1. Repeat(Space, n) \in Seq(Chars) /\ Len(Repeat(Space, n)) = n
  BY DEF Repeat, Chars
<1> QED BY <1>1

\* The bytes a key makes the program write: behind the buffer the null only,
\* after a full page.
NullAfterPage ==
    in = "text" /\ Len(buff) = MAX_TEXT /\ got \in {"\\b", "prtsc", "esc"}

LEMMA StoreFacts ==
  ASSUME NEW S, Store(S)
  PROVE  past' \in BOOLEAN /\ (past' <=> \E i \in S : i >= Size)
BY DEF Store

LEMMA LineStores ==
  ASSUME BuffersOK, Gets
  PROVE  past' = FALSE
<1> USE SizesAssumption, ScreenAssumption
<1>1. /\ in = "gets" /\ Size = MAX_INPUT /\ buff \in Seq(Chars)
      /\ Len(buff) \in Nat /\ Len(buff) < MAX_INPUT
  BY DEF Gets, Size, BuffersOK, Limit
<1>2. ASSUME NEW S, Store(S), \A i \in S : i < MAX_INPUT /\ i \in Int
      PROVE  past' = FALSE
  <2>1. ~\E i \in S : i >= Size
    BY <1>1, <1>2
  <2> QED BY <2>1, <1>2 DEF Store
<1>3. CASE EndLine
  <2>1. Store({Len(buff)})
    BY <1>3 DEF EndLine
  <2>2. \A i \in {Len(buff)} : i < MAX_INPUT /\ i \in Int
    BY <1>1
  <2> QED BY <2>1, <2>2, <1>2
<1>4. CASE EditLine
  <2>1. Len(buff) < MAX_INPUT - 1
    BY <1>1, <1>4 DEF EditLine, Full
  <2>2. CASE Store({Len(buff) - 1})
    <3>1. \A i \in {Len(buff) - 1} : i < MAX_INPUT /\ i \in Int
      BY <1>1
    <3> QED BY <2>2, <3>1, <1>2
  <2>3. CASE Store({Len(buff)})
    <3>1. \A i \in {Len(buff)} : i < MAX_INPUT /\ i \in Int
      BY <1>1
    <3> QED BY <2>3, <3>1, <1>2
  <2>4. CASE Store({})
    BY <2>4, <1>2
  <2>5. CASE /\ buff' = buff \o Repeat(Space, Min({TAB - (Len(buff) % TAB),
                                             MAX_INPUT - 1 - Len(buff)}))
             /\ Store(Len(buff)..Len(buff') - 1)
    <3>1. TAB - (Len(buff) % TAB) \in Nat
      BY <1>1
    <3>2. MAX_INPUT - 1 - Len(buff) \in Nat
      BY <1>1, <2>1
    <3>3. PICK n \in Nat : /\ n = Min({TAB - (Len(buff) % TAB), MAX_INPUT - 1 - Len(buff)})
                           /\ n <= MAX_INPUT - 1 - Len(buff)
      BY <3>1, <3>2, Least
    <3>4. Len(buff') = Len(buff) + n
      BY <1>1, <2>5, <3>3, Padded
    <3>5. \A i \in Len(buff)..Len(buff') - 1 : i < MAX_INPUT /\ i \in Int
      BY <1>1, <3>3, <3>4
    <3> QED BY <2>5, <3>5, <1>2
  <2> QED BY <1>4, <2>2, <2>3, <2>4, <2>5 DEF EditLine
<1> QED BY <1>3, <1>4 DEF Gets

LEMMA TextStores ==
  ASSUME BuffersOK, Text
  PROVE  past' \in BOOLEAN /\ (past' <=> NullAfterPage)
<1> USE SizesAssumption
<1>1. /\ in = "text" /\ Size = MAX_TEXT /\ buff \in Seq(Chars)
      /\ Len(buff) \in Nat /\ Len(buff) <= MAX_TEXT
  BY DEF Text, Size, BuffersOK, Limit
<1>2. CASE EndText
  <2>1. Store({Len(buff)}) /\ got = "esc"
    BY <1>2 DEF EndText
  <2>2. past' \in BOOLEAN /\ (past' <=> \E i \in {Len(buff)} : i >= Size)
    BY <2>1, StoreFacts
  <2>3. past' <=> Len(buff) = MAX_TEXT
    BY <2>2, <1>1
  <2> QED BY <1>1, <2>1, <2>2, <2>3 DEF NullAfterPage
<1>3. CASE EraseText
  <2>1. Store(1..Len(buff)) /\ got = "prtsc"
    BY <1>3 DEF EraseText
  <2>2. past' \in BOOLEAN /\ (past' <=> \E i \in 1..Len(buff) : i >= Size)
    BY <2>1, StoreFacts
  <2>3. past' <=> Len(buff) = MAX_TEXT
    BY <2>2, <1>1
  <2> QED BY <1>1, <2>1, <2>2, <2>3 DEF NullAfterPage
<1>4. CASE EditText
  <2>1. CASE got = "\\b" /\ Store({Len(buff)})
    <3>1. past' \in BOOLEAN /\ (past' <=> \E i \in {Len(buff)} : i >= Size)
      BY <2>1, StoreFacts
    <3>2. past' <=> Len(buff) = MAX_TEXT
      BY <3>1, <1>1
    <3> QED BY <1>1, <2>1, <3>1, <3>2 DEF NullAfterPage
  <2>2. CASE Len(buff) < MAX_TEXT /\ Store({Len(buff)})
    <3>1. past' \in BOOLEAN /\ (past' <=> \E i \in {Len(buff)} : i >= Size)
      BY <2>2, StoreFacts
    <3>2. ~past' /\ Len(buff) # MAX_TEXT
      BY <3>1, <2>2, <1>1
    <3> QED BY <3>1, <3>2 DEF NullAfterPage
  <2>3. CASE Store({}) /\ \/ got = "\\b" /\ buff = <<>>
                          \/ got \in NoAscii
                          \/ got # "\\b" /\ Len(buff) >= MAX_TEXT
    <3>1. past' \in BOOLEAN /\ ~past'
      BY <2>3, StoreFacts
    <3>2. got \notin {"esc", "prtsc"}
      BY <1>4 DEF EditText
    <3>3. got = "\\b" => Len(buff) # MAX_TEXT
      BY <1>1, <2>3 DEF NoAscii, ShiftKeys
    <3> QED BY <3>1, <3>2, <3>3 DEF NullAfterPage
  <2> QED BY <1>4, <2>1, <2>2, <2>3 DEF EditText
<1> QED BY <1>2, <1>3, <1>4 DEF Text

LEMMA EditStores ==
  ASSUME BuffersOK, Edit
  PROVE  past' \in BOOLEAN /\ (past' <=> NullAfterPage)
<1>1. CASE Gets
  BY <1>1, LineStores DEF Gets, NullAfterPage
<1>2. CASE Text
  BY <1>2, TextStores
<1> QED BY <1>1, <1>2 DEF Edit

LEMMA EditLineBuffer ==
  ASSUME BuffersOK, got \in Chars, in = "gets", EditLine, past' \in BOOLEAN
  PROVE  BuffersOK'
<1> USE SizesAssumption, ScreenAssumption
<1>1. in' = in /\ Len(buff) \in Nat /\ Len(buff) < MAX_INPUT - 1 /\ buff \in Seq(Chars)
  BY DEF EditLine, Full, BuffersOK
<1>2. buff' \in Seq(Chars) /\ Len(buff') <= MAX_INPUT - 1
  <2>1. CASE buff # <<>> /\ buff' = Front(buff)
    BY <1>1, <2>1, FrontShorter
  <2>2. CASE buff' = buff
    BY <1>1, <2>2
  <2>3. CASE buff' = buff \o Repeat(Space, Min({TAB - (Len(buff) % TAB),
                                            MAX_INPUT - 1 - Len(buff)}))
    <3>1. TAB - (Len(buff) % TAB) \in Nat
      BY <1>1
    <3>2. MAX_INPUT - 1 - Len(buff) \in Nat
      BY <1>1
    <3>3. PICK n \in Nat : /\ n = Min({TAB - (Len(buff) % TAB), MAX_INPUT - 1 - Len(buff)})
                           /\ n <= MAX_INPUT - 1 - Len(buff)
      BY <3>1, <3>2, Least
    <3>4. buff' \in Seq(Chars) /\ Len(buff') = Len(buff) + n
      BY <1>1, <2>3, <3>3, Padded
    <3> QED BY <1>1, <3>3, <3>4
  <2>4. CASE buff' = Append(buff, got)
    BY <1>1, <2>4
  <2> QED BY <2>1, <2>2, <2>3, <2>4 DEF EditLine
<1> QED BY <1>1, <1>2 DEF BuffersOK, Limit

LEMMA BeginBuffer ==
  ASSUME NEW what \in {"gets", "text"}, NEW s, Begin(what, s), past' \in BOOLEAN
  PROVE  BuffersOK'
<1>1. in' = what /\ buff' = <<>>
  BY DEF Begin
<1> QED BY <1>1, SizesAssumption DEF BuffersOK, Limit

LEMMA TextBuffer ==
  ASSUME BuffersOK, got \in Chars, Text, past' \in BOOLEAN
  PROVE  BuffersOK'
<1> USE SizesAssumption
<1>1. in = "text" /\ buff \in Seq(Chars) /\ Len(buff) \in Nat /\ Len(buff) <= MAX_TEXT
  BY DEF Text, BuffersOK, Limit
<1>2. CASE EndText
  BY <1>2, BeginBuffer DEF EndText
<1>3. CASE EraseText
  BY <1>1, <1>3 DEF EraseText, BuffersOK, Limit
<1>4. CASE EditText
  <2>1. in' = in
    BY <1>4 DEF EditText
  <2>2. \/ buff # <<>> /\ buff' = Front(buff)
        \/ Len(buff) < MAX_TEXT /\ buff' = Append(buff, got)
        \/ buff' = buff
    BY <1>4 DEF EditText
  <2>3. buff' \in Seq(Chars) /\ Len(buff') <= MAX_TEXT
    BY <1>1, <2>2, FrontShorter
  <2> QED BY <1>1, <2>1, <2>3 DEF BuffersOK, Limit
<1> QED BY <1>2, <1>3, <1>4 DEF Text

LEMMA EditBuffer ==
  ASSUME BuffersOK, got \in Chars, Edit
  PROVE  BuffersOK'
<1>0. past' \in BOOLEAN
  BY EditStores
<1>1. CASE Gets
  <2>1. CASE EndLine
    BY <1>0, <1>1, <2>1 DEF Gets, EndLine, BuffersOK, Limit
  <2>2. CASE EditLine
    BY <1>0, <1>1, <2>2, EditLineBuffer DEF Gets
  <2> QED BY <1>1, <2>1, <2>2 DEF Gets
<1>2. CASE Text
  BY <1>0, <1>2, TextBuffer
<1> QED BY <1>1, <1>2 DEF Edit

LEMMA EditMailbox ==
  ASSUME MailboxOK, MailboxInv, Edit
  PROVE  MailboxOK' /\ MailboxInv'
<1>1. /\ last' = last /\ caps' = caps /\ kbhit' = kbhit /\ nkeys' = nkeys
      /\ owed' = owed /\ raced' = raced /\ got' = "none"
      /\ kb_status' = kb_status /\ shift' = shift /\ rd = "out" /\ rd' = "test"
  BY DEF Edit, keyboard, ghosts
<1>2. MailboxOK'
  BY <1>1 DEF MailboxOK, Chars
<1>3. MailboxInv'
  BY <1>1 DEF MailboxInv, Waiting
<1> QED BY <1>2, <1>3

-----------------------------------------------------------------------------
LEMMA TermInitInv == TInit => TermInv
<1> SUFFICES ASSUME TInit PROVE TermInv
  OBVIOUS
<1> USE KeysAssumption, SizesAssumption DEF KeysAssumption, SizesAssumption
<1>1. MailboxOK
  <2>1. <<>> \in Seq(Chars) /\ Len(<<>>) = 0
    OBVIOUS
  <2>2. caps \in BOOLEAN /\ kbhit \in BOOLEAN /\ raced \in BOOLEAN
    BY DEF TInit, KInit
  <2>3. nkeys \in 0..MaxKeys /\ owed \in Seq(Chars) /\ Len(owed) <= nkeys
    BY <2>1 DEF TInit, KInit
  <2>4. last \in Chars /\ got \in Chars /\ kb_status \subseteq ShiftKeys
    BY DEF TInit, KInit, Chars
  <2>5. rd = "test"
    BY DEF TInit, KInit
  <2> QED BY <2>2, <2>3, <2>4, <2>5 DEF MailboxOK
<1>2. BuffersOK
  <2>1. past \in BOOLEAN
    BY DEF TInit
  <2>2. in = "gets" /\ buff = <<>> /\ <<>> \in Seq(Chars) /\ Len(<<>>) = 0
    BY DEF TInit
  <2> QED BY <2>1, <2>2 DEF BuffersOK, Limit
<1>3. MailboxInv
  BY DEF TInit, KInit, MailboxInv, Waiting
<1> QED BY <1>1, <1>2, <1>3 DEF TermInv

LEMMA TermStepInv == TermInv /\ [TNext]_allvars => TermInv'
<1> SUFFICES ASSUME TermInv, [TNext]_allvars PROVE TermInv'
  OBVIOUS
<1>0. MailboxOK /\ BuffersOK /\ MailboxInv /\ got \in Chars
  BY DEF TermInv, MailboxOK
<1>1. ASSUME UNCHANGED tvars PROVE BuffersOK'
  BY <1>0, <1>1 DEF tvars, BuffersOK, Limit
<1>2. ASSUME UNCHANGED kvars PROVE MailboxOK' /\ MailboxInv'
  BY <1>0, <1>2 DEF kvars, keyboard, ghosts, MailboxOK, MailboxInv, Waiting
<1>3. CASE (HandleKeystroke \/ HandleTick) /\ UNCHANGED tvars
  BY <1>0, <1>1, <1>3, HandlersMailbox DEF TermInv
<1>4. CASE in # "prompt" /\ Getc /\ UNCHANGED tvars
  BY <1>0, <1>1, <1>4, GetcMailbox DEF TermInv
<1>5. CASE Edit
  BY <1>0, <1>5, EditMailbox, EditBuffer DEF TermInv
<1>6. CASE NextLine
  <2>1. past' \in BOOLEAN
    BY <1>0, <1>6 DEF NextLine, BuffersOK
  <2> QED BY <2>1, <1>0, <1>2, <1>6, BeginBuffer DEF NextLine, TermInv
<1>7. CASE UNCHANGED allvars
  BY <1>1, <1>2, <1>7 DEF allvars, TermInv
<1> QED BY <1>3, <1>4, <1>5, <1>6, <1>7 DEF TNext

\* A step that takes a key takes the one in the mailbox, which is the one owed.
LEMMA TakesOwed ==
  ASSUME TermInv, [TNext]_allvars, rd = "read", rd' = "out", ~raced
  PROVE  owed = <<got'>>
<1>1. ~kbhit /\ owed = <<last>>
  BY DEF TermInv, MailboxInv, Waiting
<1>2. CASE HandleKeystroke \/ HandleTick
  BY <1>2 DEF HandleKeystroke, HandleTick, Woken
<1>3. CASE Getc
  BY <1>1, <1>3 DEF Getc, TestKbhit, Halt, ClearKbhit, ReadLast
<1>4. CASE Edit
  BY <1>4 DEF Edit
<1>5. CASE UNCHANGED kvars
  BY <1>5 DEF kvars
<1> QED BY <1>2, <1>3, <1>4, <1>5 DEF TNext, NextLine, allvars

-----------------------------------------------------------------------------
\* Through any typing, keys lost in races included, every byte that gets
\* writes, its nulls too, is in its buffer (keyboard.c:190-216); all that text
\* writes is in its page, but for the null after 4096 characters, one byte
\* behind it, which is written there indeed (cmd.c:332, 337, 348).
THEOREM OnlyNullPastPage == TSpec => StoresInside
<1>1. TermInv /\ [TNext]_allvars =>
        [rd = "out" /\ rd' = "test" =>
            (past' <=> /\ in = "text" /\ Len(buff) = MAX_TEXT
                       /\ got \in {"\\b", "prtsc", "esc"})]_allvars
  <2> SUFFICES ASSUME TermInv, [TNext]_allvars, rd = "out", rd' = "test"
               PROVE  past' <=> NullAfterPage
    BY DEF NullAfterPage
  <2>1. CASE Edit
    BY <2>1, EditStores DEF TermInv
  <2>2. CASE HandleKeystroke \/ HandleTick
    BY <2>2 DEF HandleKeystroke, HandleTick, Woken
  <2>3. CASE Getc
    BY <2>3 DEF Getc, TestKbhit, Halt, ClearKbhit, ReadLast
  <2>4. CASE UNCHANGED kvars
    BY <2>4 DEF kvars
  <2> QED BY <2>1, <2>2, <2>3, <2>4 DEF TNext, NextLine, allvars
<1> QED BY <1>1, TermInitInv, TermStepInv, PTL DEF TSpec, StoresInside

\* getc returns the keys in their order, each once and in the right case,
\* unless one came before another was taken (keyboard.c:163-170).
THEOREM KeysInOrder == TSpec => ReadsWhatWasTyped
<1>1. TermInv /\ [TNext]_allvars =>
        [rd = "read" /\ rd' = "out" /\ ~raced => owed = <<got'>>]_kvars
  BY TakesOwed
<1> QED BY <1>1, TermInitInv, TermStepInv, PTL DEF TSpec, ReadsWhatWasTyped

-----------------------------------------------------------------------------
(* Terminal: what the screen shows.                                        *)

LEMMA Remainder ==
  ASSUME NEW w \in Nat \ {0}, NEW q \in Nat, NEW r \in Nat, r < w
  PROVE  (w * q + r) % w = r
<1>1. PICK d \in Nat : d = w * q + r
  OBVIOUS
<1>2. PICK a \in Nat, b \in Nat : a = d \div w /\ b = d % w /\ b < w /\ d = w * a + b
  <2>1. d \div w \in Nat
    BY Z3
  <2>2. d % w \in Nat /\ d % w < w
    BY Z3
  <2>3. d = w * (d \div w) + (d % w)
    BY Z3
  <2> QED BY <2>1, <2>2, <2>3
<1>3. w * a + b = w * q + r
  BY <1>1, <1>2
<1>4. ASSUME a < q PROVE FALSE
  <2>1. PICK e \in Nat : q = a + 1 + e
    <3>1. q - a - 1 \in Nat /\ q = a + 1 + (q - a - 1)
      BY <1>4
    <3> QED BY <3>1
  <2>2. w * q = w * a + w + w * e /\ w * e \in Nat /\ w * a \in Nat
    BY <2>1, Z3
  <2> QED BY <1>2, <1>3, <2>2
<1>5. ASSUME q < a PROVE FALSE
  <2>1. PICK e \in Nat : a = q + 1 + e
    <3>1. a - q - 1 \in Nat /\ a = q + 1 + (a - q - 1)
      BY <1>5
    <3> QED BY <3>1
  <2>2. w * a = w * q + w + w * e /\ w * e \in Nat /\ w * q \in Nat
    BY <2>1, Z3
  <2> QED BY <1>3, <2>2
<1>6. a = q
  BY <1>4, <1>5
<1>7. w * q \in Nat
  OBVIOUS
<1> QED BY <1>1, <1>2, <1>3, <1>6, <1>7

LEMMA Quotient ==
  ASSUME NEW w \in Nat \ {0}, NEW d \in Nat
  PROVE  \E q \in Nat, r \in Nat : d = w * q + r /\ r < w /\ r = d % w
<1>1. d \div w \in Nat
  BY Z3
<1>2. d % w \in Nat /\ d % w < w
  BY Z3
<1>3. d = w * (d \div w) + (d % w)
  BY Z3
<1> QED BY <1>1, <1>2, <1>3

\* The next multiple of w, and none between.
LEMMA NextMultiple ==
  ASSUME NEW w \in Nat \ {0}, NEW d \in Nat
  PROVE  /\ w - (d % w) \in Nat \ {0}
         /\ (d + (w - (d % w))) % w = 0
         /\ \A x \in Nat : d < x /\ x < d + (w - (d % w)) => x % w # 0
<1>1. PICK q \in Nat, r \in Nat : d = w * q + r /\ r < w /\ r = d % w
  BY Quotient
<1>2. PICK m \in Nat : m = w * q
  OBVIOUS
<1>3. w - (d % w) \in Nat \ {0} /\ d + (w - (d % w)) = m + w
  BY <1>1, <1>2
<1>4. m + w = w * (q + 1) + 0
  <2>1. w * (q + 1) = w * q + w /\ w * (q + 1) \in Nat
    BY Z3
  <2> QED BY <1>2, <2>1
<1>5. (m + w) % w = 0
  <2>1. q + 1 \in Nat /\ 0 \in Nat /\ 0 < w
    OBVIOUS
  <2>2. (w * (q + 1) + 0) % w = 0
    BY <2>1, Remainder
  <2> QED BY <1>4, <2>2
<1>6. ASSUME NEW x \in Nat, d < x, x < m + w PROVE x % w # 0
  <2>1. PICK y \in Nat : x = m + y /\ 0 < y /\ y < w
    <3>1. x - m \in Nat /\ x = m + (x - m) /\ 0 < x - m /\ x - m < w
      BY <1>1, <1>2, <1>6
    <3> QED BY <3>1
  <2>2. (w * q + y) % w = y
    BY <2>1, Remainder
  <2> QED BY <1>2, <2>1, <2>2
<1> QED BY <1>3, <1>5, <1>6

\* The last row of the text begins a whole number of rows after the first.
LEMMA LastRow == (end0 - COLUMNS - start0) % COLUMNS = 0
<1>1. PICK w \in Nat \ {0}, m \in Nat : w = COLUMNS /\ m = ROWS - 5 /\ ROWS = m + 5
  BY ScreenAssumption DEF ScreenAssumption
<1>2. start0 = 2 * w + 1 /\ end0 = (m + 3) * w + 1
  <2>1. ROWS - 2 = m + 3
    BY <1>1
  <2> QED BY <1>1, <2>1 DEF start0, end0, At
<1>3. (m + 3) * w + 1 - w - (2 * w + 1) = w * m
  <2>1. (m + 3) * w = w * m + 3 * w
    BY <1>1, Z3
  <2>2. w * m \in Nat
    BY <1>1
  <2> QED BY <1>1, <2>1, <2>2
<1>4. (w * m) % w = 0
  BY <1>1, Z3
<1> QED BY <1>1, <1>2, <1>3, <1>4

-----------------------------------------------------------------------------
(* Neat screens: nothing is shown from the cursor on, and the cursor is at *)
(* the beginning of a row or after a character.  All that are printed are. *)

Empty(cs, p) == \A i \in p..end0 - 1 : Seen(cs[i]) = Blank
NeatAt(cs, p) == Empty(cs, p) /\ (p < end0 => p \in Stops(cs, p))
Neat(s) == \E cs \in Cells, p \in start0..end0 - 1 : s = T(cs, p) /\ NeatAt(cs, p)

Printed == Glyphs \ {Blank}

LEMMA NeatIsText == ASSUME NEW s, Neat(s) PROVE OnText(s)
  BY DEF Neat, OnText

LEMMA SeenBlank == Seen(Blank) = Blank /\ Seen(Zero) = Blank
  BY DEF Seen

\* What a newline and a tab make of a screen.
LEMMA LineAt ==
  ASSUME NEW cs \in Cells, NEW p \in start0..end0 - 1
  PROVE  \E n \in Nat \ {0} :
           /\ Write(T(cs, p), "\n") = T(Filled(cs, p, To(p, n), Blank), To(p, n))
           /\ Filled(cs, p, To(p, n), Blank) \in Cells
           /\ To(p, n) \in start0..end0 /\ p < To(p, n)
           /\ To(p, n) < end0 => (To(p, n) - start0) % COLUMNS = 0
           /\ \A x \in p + 1..To(p, n) - 1 : (x - start0) % COLUMNS # 0
<1>1. PICK w \in Nat \ {0}, d \in Nat, lo \in Nat, hi \in Nat :
         /\ w = COLUMNS /\ lo = start0 /\ hi = end0 /\ d = p - lo /\ p = lo + d /\ p < hi
  <2>1. /\ COLUMNS \in Nat \ {0} /\ start0 \in Nat /\ end0 \in Nat
        /\ p - start0 \in Nat /\ p = start0 + (p - start0) /\ p < end0
    BY Places
  <2> QED BY <2>1
<1>2. PICK n \in Nat \ {0} : /\ n = w - (d % w) /\ (d + n) % w = 0
                             /\ \A x \in Nat : d < x /\ x < d + n => x % w # 0
  BY NextMultiple
<1>3. p \in start0..end0 /\ Blank \in Glyphs
  BY Places DEF Glyphs
<1>4. ToNext(T(cs, p), COLUMNS) = n
  BY <1>1, <1>2, FieldsOfT DEF ToNext
<1>5. PICK to : to = To(p, n) /\ to = (IF p + n <= hi THEN p + n ELSE hi)
  BY <1>1 DEF To
<1>6. Write(T(cs, p), "\n") = FillBy(T(cs, p), n, Blank)
  BY <1>4, WriteLine
<1>7. /\ FillBy(T(cs, p), n, Blank) = T(Filled(cs, p, to, Blank), to)
      /\ to \in start0..end0 /\ Filled(cs, p, to, Blank) \in Cells
  <2>1. /\ FillBy(T(cs, p), n, Blank) = T(Filled(cs, p, To(p, n), Blank), To(p, n))
        /\ To(p, n) \in start0..end0 /\ Filled(cs, p, To(p, n), Blank) \in Cells
    BY <1>3, FillByIs
  <2> QED BY <1>5, <2>1
<1>8. p < to
  BY <1>1, <1>5
<1>9. ASSUME to < end0 PROVE (to - start0) % COLUMNS = 0
  <2>1. to - lo = d + n
    BY <1>1, <1>5, <1>9
  <2> QED BY <1>1, <1>2, <2>1
<1>10. ASSUME NEW x \in p + 1..to - 1 PROVE (x - start0) % COLUMNS # 0
  <2>1. x - lo \in Nat /\ d < x - lo /\ x - lo < d + n
    BY <1>1, <1>5
  <2> QED BY <1>1, <1>2, <2>1
<1> QED BY <1>5, <1>6, <1>7, <1>8, <1>9, <1>10

LEMMA TabAt ==
  ASSUME NEW cs \in Cells, NEW p \in start0..end0 - 1
  PROVE  \E n \in Nat \ {0} :
           /\ Write(T(cs, p), "\t") = T(Filled(cs, p, To(p, n), Space), To(p, n))
           /\ Filled(cs, p, To(p, n), Space) \in Cells
           /\ To(p, n) \in start0..end0 /\ p < To(p, n)
<1>1. PICK w \in Nat \ {0}, d \in Nat, lo \in Nat, hi \in Nat :
         /\ w = TAB /\ lo = start0 /\ hi = end0 /\ d = p - lo /\ p = lo + d /\ p < hi
  <2>1. /\ TAB \in Nat \ {0} /\ start0 \in Nat /\ end0 \in Nat
        /\ p - start0 \in Nat /\ p = start0 + (p - start0) /\ p < end0
    BY Places, ScreenAssumption DEF ScreenAssumption
  <2> QED BY <2>1
<1>2. PICK n \in Nat \ {0} : n = w - (d % w)
  BY NextMultiple
<1>3. p \in start0..end0 /\ Space \in Glyphs
  BY Places DEF Glyphs, Typed
<1>4. ToNext(T(cs, p), TAB) = n
  BY <1>1, <1>2, FieldsOfT DEF ToNext
<1>5. PICK to : to = To(p, n) /\ to = (IF p + n <= hi THEN p + n ELSE hi)
  BY <1>1 DEF To
<1>6. Write(T(cs, p), "\t") = FillBy(T(cs, p), n, Space)
  BY <1>4, WriteTab
<1>7. /\ FillBy(T(cs, p), n, Space) = T(Filled(cs, p, to, Space), to)
      /\ to \in start0..end0 /\ Filled(cs, p, to, Space) \in Cells
  <2>1. /\ FillBy(T(cs, p), n, Space) = T(Filled(cs, p, To(p, n), Space), To(p, n))
        /\ To(p, n) \in start0..end0 /\ Filled(cs, p, To(p, n), Space) \in Cells
    BY <1>3, FillByIs
  <2> QED BY <1>5, <2>1
<1>8. p < to
  BY <1>1, <1>5
<1> QED BY <1>5, <1>6, <1>7, <1>8

LEMMA ToNextOf ==
  ASSUME NEW cs, NEW p \in start0..end0 - 1
  PROVE  ToNext(T(cs, p), COLUMNS) \in Nat \ {0}
<1>1. PICK w \in Nat \ {0}, d \in Nat : w = COLUMNS /\ d = p - start0
  <2>1. COLUMNS \in Nat \ {0} /\ p - start0 \in Nat
    BY Places
  <2> QED BY <2>1
<1>2. w - (d % w) \in Nat \ {0}
  BY NextMultiple
<1> QED BY <1>1, <1>2, FieldsOfT DEF ToNext

LEMMA NeatWrite ==
  ASSUME NEW s, Neat(s), NEW c \in Printed
  PROVE  \E ds \in Cells, q \in start0..end0 : Write(s, c) = T(ds, q) /\ NeatAt(ds, q)
<1>1. PICK cs \in Cells, p \in start0..end0 - 1 : s = T(cs, p) /\ NeatAt(cs, p)
  BY DEF Neat
<1>2. p \in Nat /\ start0 \in Nat /\ end0 \in Nat /\ B_END \in Nat /\ 1 < start0
      /\ start0 <= p /\ p < end0 /\ end0 < B_END /\ p \in start0..end0
  BY Places
<1>3. c \in Glyphs /\ c # Blank /\ Space # Blank
  BY DEF Printed, Space, Blank
<1>4. CASE c = "\n"
  <2>1. PICK n \in Nat \ {0}, ds \in Cells, q \in start0..end0 :
           /\ q = To(p, n) /\ ds = Filled(cs, p, q, Blank) /\ Write(s, c) = T(ds, q) /\ p < q
           /\ q < end0 => (q - start0) % COLUMNS = 0
    BY <1>1, <1>4, LineAt
  <2>2. \A i \in q..end0 - 1 : ds[i] = cs[i] /\ i \in p..end0 - 1
    BY <1>2, <2>1 DEF Filled
  <2>3. Empty(ds, q)
    BY <1>1, <2>2 DEF Empty, NeatAt
  <2>4. q < end0 => q \in Stops(ds, q)
    BY <1>2, <2>1 DEF Stops
  <2> QED BY <2>1, <2>3, <2>4 DEF NeatAt
<1>5. CASE c = "\t"
  <2>1. PICK n \in Nat \ {0}, ds \in Cells, q \in start0..end0 :
           /\ q = To(p, n) /\ ds = Filled(cs, p, q, Space) /\ Write(s, c) = T(ds, q) /\ p < q
    BY <1>1, <1>5, TabAt
  <2>2. \A i \in q..end0 - 1 : ds[i] = cs[i] /\ i \in p..end0 - 1
    BY <1>2, <2>1 DEF Filled
  <2>3. Empty(ds, q)
    BY <1>1, <2>2 DEF Empty, NeatAt
  <2>4. ds[q - 1] = Space
    <3>1. q - 1 \in 1..B_END - 1 /\ q - 1 \in p..q - 1
      BY <1>2, <2>1
    <3> QED BY <2>1, <3>1 DEF Filled
  <2>5. q < end0 => q \in Stops(ds, q)
    BY <1>2, <1>3, <2>1, <2>4 DEF Stops
  <2> QED BY <2>1, <2>3, <2>5 DEF NeatAt
<1>6. CASE c = "\\b" /\ p = start0
  BY <1>1, <1>2, <1>6, WriteErase
<1>7. CASE c = "\\b" /\ p # start0
  <2>1. PICK ds : ds = [cs EXCEPT ![p - 1] = Blank]
    OBVIOUS
  <2>2. p - 1 \in 1..B_END - 1 /\ p - 1 \in start0..end0
    BY <1>2, <1>7
  <2>3. ds \in Cells /\ ds[p - 1] = Blank /\ \A i \in 1..B_END - 1 : i # p - 1 => ds[i] = cs[i]
    BY <2>1, <2>2 DEF Cells, Glyphs
  <2>4. PICK q : q = Back(ds, p - 1)
    OBVIOUS
  <2>5. /\ q \in start0..p - 1 /\ q \in Stops(ds, p - 1)
        /\ \A y \in Stops(ds, p - 1) : y <= q
    BY <2>2, <2>4, BackIs
  <2>6. Write(s, c) = T(ds, q)
    BY <1>1, <1>2, <1>7, <2>1, <2>4, WriteErase
  <2>7. q \in start0..end0 /\ q \in Stops(ds, q)
    BY <1>2, <2>5 DEF Stops
  <2>8. ASSUME NEW i \in q..end0 - 1 PROVE Seen(ds[i]) = Blank
    <3>1. CASE i >= p
      <4>1. i \in p..end0 - 1 /\ i \in 1..B_END - 1 /\ i # p - 1
        BY <1>2, <3>1, <2>5
      <4> QED BY <1>1, <2>3, <4>1 DEF NeatAt, Empty
    <3>2. CASE i = p - 1
      BY <2>3, <3>2, SeenBlank
    <3>3. CASE i < p - 1
      <4>1. i + 1 \in start0..p - 1 /\ ~ (i + 1 <= q) /\ (i + 1) - 1 = i
        BY <1>2, <2>5, <3>3
      <4>2. i + 1 \notin Stops(ds, p - 1)
        BY <2>5, <4>1
      <4>3. ds[(i + 1) - 1] = Blank
        BY <4>1, <4>2 DEF Stops
      <4> QED BY <4>1, <4>3, SeenBlank
    <3>4. i \in Nat
      BY <1>2, <2>5
    <3> QED BY <1>2, <3>1, <3>2, <3>3, <3>4
  <2> QED BY <2>3, <2>6, <2>7, <2>8 DEF NeatAt, Empty
<1>8. CASE c \notin {"\n", "\t", "\\b"}
  <2>1. PICK ds : ds = [cs EXCEPT ![p] = c]
    OBVIOUS
  <2>2. p \in 1..B_END - 1 /\ p + 1 \in start0..end0 /\ (p + 1) - 1 = p
    BY <1>2
  <2>3. ds \in Cells /\ ds[p] = c /\ \A i \in 1..B_END - 1 : i # p => ds[i] = cs[i]
    BY <1>3, <2>1, <2>2 DEF Cells
  <2>4. Write(s, c) = T(ds, p + 1)
    BY <1>1, <1>8, <2>1, WritePlain
  <2>5. \A i \in p + 1..end0 - 1 : i \in p..end0 - 1 /\ i \in 1..B_END - 1 /\ i # p
    BY <1>2
  <2>6. Empty(ds, p + 1)
    BY <1>1, <2>3, <2>5 DEF NeatAt, Empty
  <2>7. p + 1 \in Stops(ds, p + 1)
    <3>1. p + 1 \in start0..p + 1
      BY <1>2
    <3>2. ds[(p + 1) - 1] # Blank
      BY <1>3, <2>2, <2>3
    <3> QED BY <3>1, <3>2 DEF Stops
  <2> QED BY <2>2, <2>3, <2>4, <2>6, <2>7 DEF NeatAt
<1> QED BY <1>4, <1>5, <1>6, <1>7, <1>8

LEMMA NeatScroll ==
  ASSUME NEW cs \in Cells, NEW p \in start0..end0, NeatAt(cs, p)
  PROVE  Neat(Scroll(T(cs, p)))
<1>0. start0 \in Nat /\ end0 \in Nat /\ COLUMNS \in Nat \ {0} /\ start0 <= end0 - COLUMNS
      /\ end0 < B_END /\ B_END \in Nat /\ 1 < start0
  BY Places
<1>1. CASE p < end0
  <2>1. p \in start0..end0 - 1
    BY <1>0, <1>1
  <2>2. OnText(T(cs, p)) /\ TextOrEnd(T(cs, p))
    BY <2>1, TextIsText DEF OnText
  <2>3. Scroll(T(cs, p)) = T(cs, p)
    BY <2>2, ScrollText
  <2> QED BY <2>1, <2>3 DEF Neat
<1>2. CASE p = end0
  <2>1. Scroll(T(cs, end0)) = T(Up(cs), end0 - COLUMNS) /\ Up(cs) \in Cells
    BY UpIs
  <2>2. end0 - COLUMNS \in start0..end0 - 1
    BY <1>0
  <2>3. ASSUME NEW i \in end0 - COLUMNS..end0 - 1 PROVE Seen(Up(cs)[i]) = Blank
    <3>1. i \in 1..B_END - 1 /\ i \in start0..end0 - 1 /\ ~ (i + COLUMNS < end0)
      BY <1>0
    <3>2. Up(cs)[i] = Zero
      BY <3>1 DEF Up
    <3> QED BY <3>2, SeenBlank
  <2>4. end0 - COLUMNS \in Stops(Up(cs), end0 - COLUMNS)
    <3>1. end0 - COLUMNS \in start0..end0 - COLUMNS
      BY <1>0
    <3> QED BY <3>1, LastRow DEF Stops
  <2> QED BY <1>2, <2>1, <2>2, <2>3, <2>4 DEF Neat, NeatAt, Empty
<1> QED BY <1>0, <1>1, <1>2

LEMMA NeatPutC == ASSUME NEW s, Neat(s), NEW c \in Printed PROVE Neat(PutC(s, c))
<1>1. PICK ds \in Cells, q \in start0..end0 : Write(s, c) = T(ds, q) /\ NeatAt(ds, q)
  BY NeatWrite
<1> QED BY <1>1, NeatScroll DEF PutC

LEMMA NeatAfter ==
  ASSUME NEW s, Neat(s), NEW str, Len(str) \in Nat,
         \A n \in 1..Len(str) : str[n] \in Printed
  PROVE  \A n \in 0..Len(str) : Neat(After(s, str)[n])
<1> DEFINE A == After(s, str)
           Good == {n \in Nat : n \in 0..Len(str) => Neat(A[n])}
<1>1. A[0] = s /\ \A n \in 1..Len(str) : A[n] = PutC(A[n - 1], str[n])
  BY AfterIs
<1> HIDE DEF A
<1>2. 0 \in Good
  BY <1>1
<1>3. ASSUME NEW m \in Nat, m \in Good PROVE m + 1 \in Good
  <2>1. SUFFICES ASSUME m + 1 \in 0..Len(str) PROVE Neat(A[m + 1])
    OBVIOUS
  <2>2. m + 1 \in 1..Len(str) /\ m \in 0..Len(str) /\ (m + 1) - 1 = m
    BY <2>1
  <2>3. Neat(A[m]) /\ A[m + 1] = PutC(A[m], str[m + 1]) /\ str[m + 1] \in Printed
    BY <1>1, <1>3, <2>2
  <2> QED BY <2>3, NeatPutC
<1>4. \A n \in Nat : n \in Good
  <2> HIDE DEF Good
  <2> QED BY <1>2, <1>3, Induction
<1> QED BY <1>4 DEF A

LEMMA NeatPutS ==
  ASSUME NEW s, Neat(s), NEW str, Len(str) \in Nat,
         \A n \in 1..Len(str) : str[n] \in Printed
  PROVE  Neat(PutS(s, str))
<1>1. Neat(After(s, str)[Len(str)])
  BY NeatAfter
<1> QED BY <1>1, AfterIs

-----------------------------------------------------------------------------
(* Two screens that show the same: from the cursor on, nothing.            *)

SameAt(cu, cs, p) ==
    \A i \in 1..B_END - 1 :
        IF i \in p..end0 - 1 THEN Seen(cu[i]) = Blank /\ Seen(cs[i]) = Blank
        ELSE cu[i] = cs[i]
Same(u, s) ==
    \E cu \in Cells, cs \in Cells, p \in start0..end0 - 1 :
        u = T(cu, p) /\ s = T(cs, p) /\ SameAt(cu, cs, p)

LEMMA SameSelf == ASSUME NEW s, Neat(s) PROVE Same(s, s)
<1>1. PICK cs \in Cells, p \in start0..end0 - 1 : s = T(cs, p) /\ NeatAt(cs, p)
  BY DEF Neat
<1>2. SameAt(cs, cs, p)
  BY <1>1 DEF SameAt, NeatAt, Empty
<1> QED BY <1>1, <1>2 DEF Same

\* What is typed and stays: no tab, and the text does not scroll.
Stays(s, c) == c \in Printed /\ c \notin {"\t", "\\b"} /\ Write(s, c).current < end0

LEMMA Unscrolled ==
  ASSUME NEW cs \in Cells, NEW q \in start0..end0 - 1
  PROVE  Scroll(T(cs, q)) = T(cs, q)
<1>1. OnText(T(cs, q))
  BY DEF OnText
<1> QED BY <1>1, TextIsText, ScrollText

\* A character that stays, printed to both.
LEMMA SameStays ==
  ASSUME NEW u, NEW s, Same(u, s), NEW c, Stays(s, c)
  PROVE  Stays(u, c) /\ Same(PutC(u, c), PutC(s, c))
<1>1. PICK cu \in Cells, cs \in Cells, p \in start0..end0 - 1 :
         u = T(cu, p) /\ s = T(cs, p) /\ SameAt(cu, cs, p)
  BY DEF Same
<1>2. p \in Nat /\ start0 \in Nat /\ end0 \in Nat /\ B_END \in Nat /\ 1 < start0
      /\ start0 <= p /\ p < end0 /\ end0 < B_END
  BY Places
<1>3. c \in Printed /\ c \in Glyphs /\ c # Blank /\ c \notin {"\t", "\\b"}
      /\ Write(s, c).current < end0
  BY DEF Stays, Printed
<1>4. SUFFICES \E du \in Cells, ds \in Cells, q \in start0..end0 - 1 :
                  Write(u, c) = T(du, q) /\ Write(s, c) = T(ds, q) /\ SameAt(du, ds, q)
  <2>1. PICK du \in Cells, ds \in Cells, q \in start0..end0 - 1 :
           Write(u, c) = T(du, q) /\ Write(s, c) = T(ds, q) /\ SameAt(du, ds, q)
    BY <1>4
  <2>2. Write(u, c).current = q /\ q < end0
    BY <1>2, <2>1, FieldsOfT
  <2>3. PutC(u, c) = T(du, q) /\ PutC(s, c) = T(ds, q)
    BY <2>1, Unscrolled DEF PutC
  <2>4. Same(PutC(u, c), PutC(s, c))
    BY <2>1, <2>3 DEF Same
  <2> QED BY <1>3, <2>2, <2>4 DEF Stays
<1>5. CASE c = "\n"
  <2>1. PICK n \in Nat \ {0} :
           /\ Write(s, c) = T(Filled(cs, p, To(p, n), Blank), To(p, n))
           /\ Filled(cs, p, To(p, n), Blank) \in Cells
           /\ To(p, n) \in start0..end0 /\ p < To(p, n)
           /\ n = ToNext(s, COLUMNS)
    <3>1. ToNext(s, COLUMNS) \in Nat \ {0}
      BY <1>1, ToNextOf
    <3>2. p \in start0..end0 /\ Blank \in Glyphs /\ start0..end0 \subseteq Nat
      BY <1>2 DEF Glyphs
    <3>3. PICK n \in Nat \ {0} : n = ToNext(s, COLUMNS)
      BY <3>1
    <3>4. Write(s, c) = FillBy(T(cs, p), n, Blank)
      BY <1>1, <1>5, <3>3, WriteLine
    <3>5. /\ FillBy(T(cs, p), n, Blank) = T(Filled(cs, p, To(p, n), Blank), To(p, n))
          /\ To(p, n) \in start0..end0 /\ Filled(cs, p, To(p, n), Blank) \in Cells
      BY <3>2, FillByIs
    <3>6. p < To(p, n)
      BY <1>2 DEF To
    <3> QED BY <3>3, <3>4, <3>5, <3>6
  <2>2. Write(u, c) = T(Filled(cu, p, To(p, n), Blank), To(p, n))
        /\ Filled(cu, p, To(p, n), Blank) \in Cells
    <3>1. ToNext(u, COLUMNS) = n
      BY <1>1, <2>1, FieldsOfT DEF ToNext
    <3>2. Write(u, c) = FillBy(T(cu, p), n, Blank)
      BY <1>1, <1>5, <3>1, WriteLine
    <3>3. p \in start0..end0 /\ Blank \in Glyphs
      BY <1>2 DEF Glyphs
    <3> QED BY <3>2, <3>3, FillByIs
  <2>3. PICK q : q = To(p, n)
    OBVIOUS
  <2>4. q \in start0..end0 - 1 /\ q \in Nat
    <3>1. Write(s, c).current = q
      BY <2>1, <2>3, FieldsOfT
    <3> QED BY <1>2, <1>3, <2>1, <2>3, <3>1
  <2>5. SameAt(Filled(cu, p, q, Blank), Filled(cs, p, q, Blank), q)
    <3>1. SUFFICES ASSUME NEW i \in 1..B_END - 1
          PROVE IF i \in q..end0 - 1
                THEN Seen(Filled(cu, p, q, Blank)[i]) = Blank /\ Seen(Filled(cs, p, q, Blank)[i]) = Blank
                ELSE Filled(cu, p, q, Blank)[i] = Filled(cs, p, q, Blank)[i]
      BY DEF SameAt
    <3>2. CASE i \in p..q - 1
      <4>1. i \notin q..end0 - 1
        BY <1>2, <2>4, <3>2
      <4> QED BY <3>2, <4>1 DEF Filled
    <3>3. CASE i \notin p..q - 1
      <4>1. Filled(cu, p, q, Blank)[i] = cu[i] /\ Filled(cs, p, q, Blank)[i] = cs[i]
        BY <3>3 DEF Filled
      <4>2. i \in p..end0 - 1 <=> i \in q..end0 - 1
        BY <1>2, <2>1, <2>3, <2>4, <3>3
      <4> QED BY <1>1, <4>1, <4>2 DEF SameAt
    <3> QED BY <3>2, <3>3
  <2> QED BY <2>1, <2>2, <2>3, <2>4, <2>5
<1>6. CASE c # "\n"
  <2>1. PICK du, ds : du = [cu EXCEPT ![p] = c] /\ ds = [cs EXCEPT ![p] = c]
    OBVIOUS
  <2>2. Write(u, c) = T(du, p + 1) /\ Write(s, c) = T(ds, p + 1)
    BY <1>1, <1>3, <1>6, <2>1, WritePlain
  <2>3. p \in 1..B_END - 1 /\ p + 1 \in Nat
    BY <1>2
  <2>4. /\ du \in Cells /\ ds \in Cells /\ du[p] = c /\ ds[p] = c
        /\ \A i \in 1..B_END - 1 : i # p => du[i] = cu[i] /\ ds[i] = cs[i]
    BY <1>3, <2>1, <2>3 DEF Cells
  <2>5. p + 1 \in start0..end0 - 1
    <3>1. Write(s, c).current = p + 1
      BY <2>2, FieldsOfT
    <3> QED BY <1>2, <1>3, <3>1
  <2>6. \A i \in 1..B_END - 1 : /\ i \in p + 1..end0 - 1 <=> i \in p..end0 - 1 /\ i # p
                                /\ p \notin p + 1..end0 - 1
    BY <1>2
  <2>7. SameAt(du, ds, p + 1)
    <3>1. SUFFICES ASSUME NEW i \in 1..B_END - 1
          PROVE IF i \in p + 1..end0 - 1
                THEN Seen(du[i]) = Blank /\ Seen(ds[i]) = Blank ELSE du[i] = ds[i]
      BY DEF SameAt
    <3>2. CASE i = p
      BY <2>4, <2>6, <3>2
    <3>3. CASE i # p
      BY <1>1, <2>4, <2>6, <3>3 DEF SameAt
    <3> QED BY <3>2, <3>3
  <2> QED BY <2>2, <2>4, <2>5, <2>7
<1> QED BY <1>5, <1>6

\* Taking it back leads to what shows the same as before: putc finds where
\* the line before ended by the blanks (console.c:131).
LEMMA SameTakenBack ==
  ASSUME NEW u, Neat(u), NEW c, Stays(u, c), NEW s, Same(PutC(u, c), s)
  PROVE  Same(u, PutC(s, "\\b"))
<1>1. PICK cu \in Cells, p \in start0..end0 - 1 : u = T(cu, p) /\ NeatAt(cu, p)
  BY DEF Neat
<1>2. p \in Nat /\ start0 \in Nat /\ end0 \in Nat /\ B_END \in Nat /\ 1 < start0
      /\ start0 <= p /\ p < end0 /\ end0 < B_END
  BY Places
<1>3. c \in Glyphs /\ c # Blank /\ c \notin {"\t", "\\b"} /\ Write(u, c).current < end0
  BY DEF Stays, Printed
<1>4. PICK du \in Cells, ds \in Cells, q \in start0..end0 - 1 :
         PutC(u, c) = T(du, q) /\ s = T(ds, q) /\ SameAt(du, ds, q)
  BY DEF Same
<1>5. /\ Write(u, c) = T(du, q) /\ p < q
      /\ \A i \in 1..p - 1 : du[i] = cu[i]
      /\ \A i \in q..B_END - 1 : du[i] = cu[i]
      /\ \A i \in p..q - 2 : du[i] = Blank
      /\ \A x \in p + 1..q - 1 : (x - start0) % COLUMNS # 0
  <2>1. SUFFICES \E cw \in Cells, r \in start0..end0 :
                    /\ Write(u, c) = T(cw, r) /\ p < r
                    /\ \A i \in 1..p - 1 : cw[i] = cu[i]
                    /\ \A i \in r..B_END - 1 : cw[i] = cu[i]
                    /\ \A i \in p..r - 2 : cw[i] = Blank
                    /\ \A x \in p + 1..r - 1 : (x - start0) % COLUMNS # 0
    <3>1. PICK cw \in Cells, r \in start0..end0 :
                    /\ Write(u, c) = T(cw, r) /\ p < r
                    /\ \A i \in 1..p - 1 : cw[i] = cu[i]
                    /\ \A i \in r..B_END - 1 : cw[i] = cu[i]
                    /\ \A i \in p..r - 2 : cw[i] = Blank
                    /\ \A x \in p + 1..r - 1 : (x - start0) % COLUMNS # 0
      BY <2>1
    <3>2. r \in start0..end0 - 1
      BY <1>2, <1>3, <3>1, FieldsOfT
    <3>3. T(cw, r) = T(du, q)
      BY <1>4, <3>1, <3>2, Unscrolled DEF PutC
    <3>4. cw = du /\ r = q
      BY <3>3, FieldsOfT
    <3> QED BY <3>1, <3>4
  <2>2. CASE c = "\n"
    <3>1. PICK n \in Nat \ {0} :
             /\ Write(T(cu, p), "\n") = T(Filled(cu, p, To(p, n), Blank), To(p, n))
             /\ Filled(cu, p, To(p, n), Blank) \in Cells
             /\ To(p, n) \in start0..end0 /\ p < To(p, n)
             /\ \A x \in p + 1..To(p, n) - 1 : (x - start0) % COLUMNS # 0
      BY LineAt
    <3>2. PICK r \in start0..end0, cw \in Cells :
             r = To(p, n) /\ cw = Filled(cu, p, r, Blank)
      BY <3>1
    <3>3. p < r /\ r \in Nat
      BY <1>2, <3>1, <3>2
    <3>4. \A i \in 1..p - 1 : i \in 1..B_END - 1 /\ i \notin p..r - 1
      BY <1>2, <3>3
    <3>5. \A i \in r..B_END - 1 : i \in 1..B_END - 1 /\ i \notin p..r - 1
      BY <1>2, <3>3
    <3>6. \A i \in p..r - 2 : i \in 1..B_END - 1 /\ i \in p..r - 1
      BY <1>2, <3>2, <3>3
    <3>7. /\ \A i \in 1..p - 1 : cw[i] = cu[i]
          /\ \A i \in r..B_END - 1 : cw[i] = cu[i]
          /\ \A i \in p..r - 2 : cw[i] = Blank
      BY <3>2, <3>4, <3>5, <3>6 DEF Filled
    <3> QED BY <1>1, <2>2, <3>1, <3>2, <3>3, <3>7
  <2>3. CASE c # "\n"
    <3>1. PICK cw : cw = [cu EXCEPT ![p] = c]
      OBVIOUS
    <3>2. p \in 1..B_END - 1 /\ p + 1 \in start0..end0 /\ p < p + 1
      BY <1>2
    <3>3. cw \in Cells /\ \A i \in 1..B_END - 1 : i # p => cw[i] = cu[i]
      BY <1>3, <3>1, <3>2 DEF Cells
    <3>4. Write(u, c) = T(cw, p + 1)
      BY <1>1, <1>3, <2>3, <3>1, WritePlain
    <3>5. /\ \A i \in 1..p - 1 : i \in 1..B_END - 1 /\ i # p
          /\ \A i \in p + 1..B_END - 1 : i \in 1..B_END - 1 /\ i # p
          /\ \A i \in p..p + 1 - 2 : FALSE
          /\ \A x \in p + 1..p + 1 - 1 : FALSE
      BY <1>2
    <3> QED BY <3>2, <3>3, <3>4, <3>5
  <2> QED BY <2>2, <2>3
<1>6. q \in Nat /\ q < end0 /\ q - 1 \in 1..B_END - 1 /\ q - 1 \in start0..end0 /\ q # start0
      /\ p <= q - 1 /\ q \in start0..end0
  BY <1>2, <1>5
<1>7. PICK es : es = [ds EXCEPT ![q - 1] = Blank]
  OBVIOUS
<1>8. es \in Cells /\ es[q - 1] = Blank /\ \A i \in 1..B_END - 1 : i # q - 1 => es[i] = ds[i]
  BY <1>6, <1>7 DEF Cells, Glyphs
<1>9. /\ \A i \in 1..p - 1 : es[i] = cu[i]
      /\ \A i \in p..q - 1 : es[i] = Blank
      /\ \A i \in q..end0 - 1 : Seen(es[i]) = Blank
      /\ \A i \in end0..B_END - 1 : es[i] = cu[i]
  <2>1. ASSUME NEW i \in 1..p - 1 PROVE es[i] = cu[i]
    <3>1. i \in 1..B_END - 1 /\ i # q - 1 /\ i \notin q..end0 - 1
      BY <1>2, <1>6
    <3> QED BY <1>4, <1>5, <1>8, <3>1 DEF SameAt
  <2>2. ASSUME NEW i \in p..q - 1 PROVE es[i] = Blank
    <3>1. CASE i = q - 1
      BY <1>8, <3>1
    <3>2. CASE i # q - 1
      <4>1. i \in p..q - 2 /\ i \in 1..B_END - 1 /\ i \notin q..end0 - 1
        BY <1>2, <1>6, <3>2
      <4> QED BY <1>4, <1>5, <1>8, <3>2, <4>1 DEF SameAt
    <3> QED BY <3>1, <3>2
  <2>3. ASSUME NEW i \in q..end0 - 1 PROVE Seen(es[i]) = Blank
    <3>1. i \in 1..B_END - 1 /\ i # q - 1
      BY <1>2, <1>6
    <3> QED BY <1>4, <1>8, <3>1 DEF SameAt
  <2>4. ASSUME NEW i \in end0..B_END - 1 PROVE es[i] = cu[i]
    <3>1. i \in 1..B_END - 1 /\ i # q - 1 /\ i \notin q..end0 - 1 /\ i \in q..B_END - 1
      BY <1>2, <1>6
    <3> QED BY <1>4, <1>5, <1>8, <3>1 DEF SameAt
  <2> QED BY <2>1, <2>2, <2>3, <2>4
<1>10. Back(es, q - 1) = p
  <2>1. p \in Stops(es, q - 1)
    <3>1. p \in start0..q - 1 /\ p - 1 \in 1..p - 1
      BY <1>2, <1>6
    <3>2. (p - start0) % COLUMNS = 0 \/ cu[p - 1] # Blank
      BY <1>1, <1>2 DEF NeatAt, Stops
    <3> QED BY <1>9, <3>1, <3>2 DEF Stops
  <2>2. ASSUME NEW y \in Stops(es, q - 1), y > p PROVE FALSE
    <3>1. y \in start0..q - 1 /\ ((y - start0) % COLUMNS = 0 \/ es[y - 1] # Blank)
      BY DEF Stops
    <3>2. y \in p + 1..q - 1 /\ y - 1 \in p..q - 1
      BY <1>2, <1>6, <2>2, <3>1
    <3> QED BY <1>5, <1>9, <3>1, <3>2
  <2>3. /\ Back(es, q - 1) \in start0..q - 1 /\ Back(es, q - 1) \in Stops(es, q - 1)
        /\ p <= Back(es, q - 1)
    BY <1>6, <2>1, BackIs
  <2>4. ~ (Back(es, q - 1) > p)
    BY <2>2, <2>3
  <2> QED BY <1>2, <1>6, <2>3, <2>4
<1>11. Write(s, "\\b") = T(es, p)
  BY <1>4, <1>6, <1>7, <1>10, WriteErase
<1>12. PutC(s, "\\b") = T(es, p)
  BY <1>8, <1>11, Unscrolled DEF PutC
<1>13. SameAt(cu, es, p)
  <2>1. SUFFICES ASSUME NEW i \in 1..B_END - 1
        PROVE IF i \in p..end0 - 1
              THEN Seen(cu[i]) = Blank /\ Seen(es[i]) = Blank ELSE cu[i] = es[i]
    BY DEF SameAt
  <2>2. i \in 1..p - 1 \/ i \in p..q - 1 \/ i \in q..end0 - 1 \/ i \in end0..B_END - 1
    BY <1>2, <1>6
  <2>3. i \in p..end0 - 1 <=> i \in p..q - 1 \/ i \in q..end0 - 1
    BY <1>2, <1>6
  <2>4. i \in p..end0 - 1 => Seen(cu[i]) = Blank
    BY <1>1 DEF NeatAt, Empty
  <2> QED BY <1>9, <2>2, <2>3, <2>4, SeenBlank
<1> QED BY <1>1, <1>8, <1>12, <1>13 DEF Same

-----------------------------------------------------------------------------
(* A buffer that the screen shows.                                         *)

\* Printing str from b on does not scroll, and gives what s shows.
Shows(b, str, s) ==
    /\ \A n \in 1..Len(str) : Stays(After(b, str)[n - 1], str[n])
    /\ Same(PutS(b, str), s)

LEMMA TypedPrinted == Typed \subseteq Printed
<1>1. Blank \notin Typed
  BY DEF Typed, NoAscii, ShiftKeys, Printable, Beyond, Space, Blank
<1> QED BY <1>1 DEF Printed, Glyphs

LEMMA CharsPrinted == Chars \subseteq Typed /\ Chars \subseteq Printed
<1>1. Chars \subseteq Typed
  BY KeysAssumption DEF KeysAssumption, Chars, Typed
<1> QED BY <1>1, TypedPrinted

LEMMA CharsOf ==
  ASSUME NEW str \in Seq(Chars)
  PROVE  Len(str) \in Nat /\ \A n \in 1..Len(str) : str[n] \in Chars /\ str[n] \in Printed
  BY CharsPrinted

\* What a string and its beginning print.
LEMMA Beginning ==
  ASSUME NEW s, NEW a, NEW b, Len(a) \in Nat, Len(b) \in Nat,
         NEW m \in Nat, m <= Len(a), m <= Len(b), \A i \in 1..m : a[i] = b[i]
  PROVE  \A n \in 0..m : After(s, a)[n] = After(s, b)[n]
<1> DEFINE A == After(s, a)
           B == After(s, b)
           Good == {n \in Nat : n \in 0..m => A[n] = B[n]}
<1>1. /\ A[0] = s /\ \A n \in 1..Len(a) : A[n] = PutC(A[n - 1], a[n])
      /\ B[0] = s /\ \A n \in 1..Len(b) : B[n] = PutC(B[n - 1], b[n])
  BY AfterIs
<1> HIDE DEF A, B
<1>2. 0 \in Good
  BY <1>1
<1>3. ASSUME NEW n \in Nat, n \in Good PROVE n + 1 \in Good
  <2>1. SUFFICES ASSUME n + 1 \in 0..m PROVE A[n + 1] = B[n + 1]
    OBVIOUS
  <2>2. /\ n \in 0..m /\ n + 1 \in 1..m /\ (n + 1) - 1 = n
        /\ n + 1 \in 1..Len(a) /\ n + 1 \in 1..Len(b)
    BY <2>1
  <2>3. A[n + 1] = PutC(A[n], a[n + 1]) /\ B[n + 1] = PutC(B[n], b[n + 1])
    BY <1>1, <2>2
  <2> QED BY <1>3, <2>2, <2>3
<1>4. \A n \in Nat : n \in Good
  <2> HIDE DEF Good
  <2> QED BY <1>2, <1>3, Induction
<1> QED BY <1>4 DEF A, B

LEMMA ShowsNone == ASSUME NEW s, Neat(s) PROVE Shows(s, <<>>, s)
<1>1. Len(<<>>) = 0 /\ \A n \in 1..0 : FALSE
  OBVIOUS
<1> QED BY <1>1, PutSNone, SameSelf DEF Shows

LEMMA ShowsAppend ==
  ASSUME NEW b, NEW str \in Seq(Chars), NEW s, Shows(b, str, s), NEW c \in Chars, Stays(s, c)
  PROVE  Shows(b, Append(str, c), PutC(s, c))
<1>1. PICK m \in Nat : m = Len(str)
  OBVIOUS
<1>2. PICK new : new = Append(str, c)
  OBVIOUS
<1>3. Len(new) = m + 1 /\ new[m + 1] = c /\ \A i \in 1..m : new[i] = str[i]
  BY <1>1, <1>2
<1>4. \A n \in 0..m : After(b, new)[n] = After(b, str)[n]
  BY <1>1, <1>3, Beginning
<1>5. /\ PutS(b, str) = After(b, str)[m]
      /\ PutS(b, new) = After(b, new)[m + 1]
      /\ After(b, new)[m + 1] = PutC(After(b, new)[m], c)
  <2>1. m + 1 \in Nat /\ m + 1 \in 1..m + 1 /\ (m + 1) - 1 = m
    OBVIOUS
  <2>2. Len(new) \in Nat
    BY <1>3, <2>1
  <2>3. /\ PutS(b, new) = After(b, new)[Len(new)]
        /\ \A n \in 1..Len(new) : After(b, new)[n] = PutC(After(b, new)[n - 1], new[n])
    BY <2>2, AfterIs
  <2>4. PutS(b, str) = After(b, str)[m]
    BY <1>1, AfterIs
  <2> QED BY <1>3, <2>1, <2>3, <2>4
<1>6. PutS(b, new) = PutC(PutS(b, str), c)
  BY <1>4, <1>5
<1>7. Stays(PutS(b, str), c) /\ Same(PutS(b, new), PutC(s, c))
  BY <1>6, SameStays DEF Shows
<1>8. ASSUME NEW n \in 1..m + 1 PROVE Stays(After(b, new)[n - 1], new[n])
  <2>1. CASE n = m + 1
    <3>1. n - 1 = m /\ m \in 0..m
      BY <2>1
    <3> QED BY <1>3, <1>4, <1>5, <1>7, <2>1, <3>1
  <2>2. CASE n # m + 1
    <3>1. n \in 1..m /\ n - 1 \in 0..m
      BY <2>2
    <3> QED BY <1>1, <1>3, <1>4, <3>1 DEF Shows
  <2> QED BY <2>1, <2>2
<1> QED BY <1>2, <1>3, <1>7, <1>8 DEF Shows

\* Taking back the last of those that are shown.
LEMMA ShowsBack ==
  ASSUME NEW b, Neat(b), NEW str \in Seq(Chars), NEW m \in 1..Len(str), NEW s,
         \A n \in 1..Len(str) : Stays(After(b, str)[n - 1], str[n]),
         Same(After(b, str)[m], s)
  PROVE  Same(After(b, str)[m - 1], PutC(s, "\\b"))
<1>1. Len(str) \in Nat /\ m - 1 \in 0..Len(str)
  OBVIOUS
<1>2. Neat(After(b, str)[m - 1])
  BY <1>1, CharsOf, NeatAfter
<1>3. After(b, str)[m] = PutC(After(b, str)[m - 1], str[m])
  BY <1>1, AfterIs
<1> QED BY <1>2, <1>3, SameTakenBack

LEMMA FrontIs ==
  ASSUME NEW str \in Seq(Chars), str # <<>>
  PROVE  /\ Len(str) \in Nat \ {0} /\ Len(Front(str)) = Len(str) - 1
         /\ Front(str) \in Seq(Chars)
         /\ \A i \in 1..Len(str) - 1 : Front(str)[i] = str[i]
<1>1. PICK m \in Nat : m = Len(str)
  OBVIOUS
<1>2. m # 0
  BY <1>1
<1>3. Front(str) = SubSeq(str, 1, m - 1)
  BY <1>1 DEF Front
<1>4. 1 <= m /\ m - 1 \in Nat /\ \A i \in 1..m - 1 : i \in 1..m
  BY <1>2
<1>5. \A i \in 1..m : str[i] \in Chars
  BY <1>1
<1>6. SubSeq(str, 1, m - 1) = [i \in 1..m - 1 |-> str[i]]
  <2>1. SubSeq(str, 1, m - 1) = [i \in 1..1 + (m - 1) - 1 |-> str[1 + i - 1]]
    BY <1>1, <1>4
  <2>2. 1..1 + (m - 1) - 1 = 1..m - 1 /\ \A i \in 1..m - 1 : 1 + i - 1 = i
    BY <1>4
  <2> QED BY <2>1, <2>2
<1>7. [i \in 1..m - 1 |-> str[i]] \in Seq(Chars) /\ Len([i \in 1..m - 1 |-> str[i]]) = m - 1
  BY <1>4, <1>5
<1> QED BY <1>1, <1>2, <1>3, <1>6, <1>7

LEMMA ShowsFront ==
  ASSUME NEW b, Neat(b), NEW str \in Seq(Chars), str # <<>>, NEW s, Shows(b, str, s)
  PROVE  Shows(b, Front(str), PutC(s, "\\b"))
<1>1. PICK m \in Nat : m = Len(str) - 1
  BY FrontIs
<1>2. PICK new : new = Front(str)
  OBVIOUS
<1>3. /\ Len(str) = m + 1 /\ Len(str) \in Nat /\ Len(new) = m
      /\ \A i \in 1..m : new[i] = str[i]
  BY <1>1, <1>2, FrontIs
<1>4. \A n \in 0..m : After(b, new)[n] = After(b, str)[n]
  <2>1. m <= Len(new) /\ m <= Len(str)
    BY <1>3
  <2> QED BY <1>3, <2>1, Beginning
<1>5. PutS(b, new) = After(b, str)[m]
  <2>1. PutS(b, new) = After(b, new)[m]
    BY <1>3, AfterIs
  <2> QED BY <1>4, <2>1
<1>6. Same(PutS(b, new), PutC(s, "\\b"))
  <2>1. PutS(b, str) = After(b, str)[m + 1]
    BY <1>3, AfterIs
  <2>2. m + 1 \in 1..Len(str) /\ (m + 1) - 1 = m
    BY <1>3
  <2>3. Same(After(b, str)[m + 1], s) /\ \A n \in 1..Len(str) : Stays(After(b, str)[n - 1], str[n])
    BY <2>1 DEF Shows
  <2> QED BY <1>5, <2>2, <2>3, ShowsBack
<1>7. ASSUME NEW n \in 1..m PROVE Stays(After(b, new)[n - 1], new[n])
  <2>1. n \in 1..Len(str) /\ n - 1 \in 0..m
    BY <1>3
  <2> QED BY <1>3, <1>4, <2>1 DEF Shows
<1> QED BY <1>2, <1>3, <1>6, <1>7 DEF Shows

\* Taking back all of them, one after the other.
LEMMA ShowsErased ==
  ASSUME NEW b, Neat(b), NEW str \in Seq(Chars), NEW s, Shows(b, str, s)
  PROVE  Shows(b, <<>>, EraseAll(s, Len(str)))
<1>1. PICK m \in Nat : m = Len(str)
  OBVIOUS
<1>2. PICK bs : bs = Repeat("\\b", m) /\ Len(bs) = m /\ \A i \in 1..m : bs[i] = "\\b"
  <2>1. "\\b" \in Glyphs
    BY DEF Glyphs, Typed, Printable
  <2> QED BY <2>1, RepeatIs
<1> DEFINE A == After(b, str)
           E == After(s, bs)
           Good == {k \in Nat : k \in 0..m => Same(A[m - k], E[k])}
<1>3. A[m] = PutS(b, str) /\ A[0] = b
  BY <1>1, AfterIs
<1>4. E[0] = s /\ E[m] = EraseAll(s, m) /\ \A k \in 1..m : E[k] = PutC(E[k - 1], "\\b")
  <2>1. Len(bs) \in Nat
    BY <1>2
  <2>2. /\ PutS(s, bs) = E[Len(bs)] /\ E[0] = s
        /\ \A k \in 1..Len(bs) : E[k] = PutC(E[k - 1], bs[k])
    BY <2>1, AfterIs
  <2> QED BY <1>2, <2>2 DEF EraseAll
<1>5. \A n \in 1..m : Stays(A[n - 1], str[n])
  BY <1>1 DEF Shows
<1>6. ASSUME NEW k \in 1..m, NEW e, Same(A[k], e) PROVE Same(A[k - 1], PutC(e, "\\b"))
  BY <1>1, <1>5, <1>6, ShowsBack
<1> HIDE DEF A, E
<1>7. 0 \in Good
  <2>1. m - 0 = m
    OBVIOUS
  <2> QED BY <1>3, <1>4, <2>1 DEF Shows
<1>8. ASSUME NEW k \in Nat, k \in Good PROVE k + 1 \in Good
  <2>1. SUFFICES ASSUME k + 1 \in 0..m PROVE Same(A[m - (k + 1)], E[k + 1])
    OBVIOUS
  <2>2. k \in 0..m /\ k + 1 \in 1..m /\ m - k \in 1..m /\ (m - k) - 1 = m - (k + 1)
        /\ (k + 1) - 1 = k
    BY <2>1
  <2>3. Same(A[m - k], E[k]) /\ E[k + 1] = PutC(E[k], "\\b")
    BY <1>4, <1>8, <2>2
  <2>4. Same(A[(m - k) - 1], PutC(E[k], "\\b"))
    BY <1>6, <2>2, <2>3
  <2> QED BY <2>2, <2>3, <2>4
<1>9. Same(A[0], E[m])
  <2>1. m \in Good
    <3> HIDE DEF Good
    <3> QED BY <1>7, <1>8, Induction
  <2>2. m \in 0..m /\ m - m = 0
    OBVIOUS
  <2> QED BY <2>1, <2>2
<1>10. Same(PutS(b, <<>>), EraseAll(s, m))
  BY <1>3, <1>4, <1>9, PutSNone
<1>11. Len(<<>>) = 0 /\ \A n \in 1..0 : FALSE
  OBVIOUS
<1> QED BY <1>1, <1>10, <1>11 DEF Shows

-----------------------------------------------------------------------------
(* The line that gets reads, before the cursor.                            *)

Line(s, str) ==
    \A i \in 1..Len(str) :
        LET cell == s.current - Len(str) + i - 1
        IN  cell >= start0 => s.cells[cell] = str[i]

LEMMA LineIs ==
  ASSUME NEW cs, NEW p, NEW str, NEW n, n = Len(str)
  PROVE  Line(T(cs, p), str) <=>
            \A i \in 1..n : p - n + i - 1 >= start0 => cs[p - n + i - 1] = str[i]
<1>1. T(cs, p).cells = cs /\ T(cs, p).current = p
  BY FieldsOfT
<1> QED BY <1>1 DEF Line

LEMMA LineHas ==
  ASSUME NEW s, NEW cs, NEW p \in Int, s = T(cs, p), NEW str, Line(s, str),
         NEW n \in Int, n = Len(str), NEW i \in 1..n, NEW x \in Int,
         x = p - n + i - 1, x >= start0
  PROVE  cs[x] = str[i]
<1>1. s.cells = cs /\ s.current = p
  BY FieldsOfT
<1> QED BY <1>1 DEF Line

LEMMA LineNone == ASSUME NEW s PROVE Line(s, <<>>)
<1>1. Len(<<>>) = 0 /\ \A i \in 1..0 : FALSE
  OBVIOUS
<1> QED BY <1>1 DEF Line

\* A character more, at the end of the screen one row further up.
LEMMA LineAppend ==
  ASSUME NEW s, Neat(s), NEW str \in Seq(Chars), Line(s, str),
         NEW c \in Chars, c \notin {"\n", "\t", "\\b"}
  PROVE  Line(PutC(s, c), Append(str, c))
<1>1. PICK cs \in Cells, p \in start0..end0 - 1 : s = T(cs, p)
  BY DEF Neat
<1>2. /\ start0 \in Nat /\ end0 \in Nat /\ COLUMNS \in Nat \ {0} /\ 1 < start0
      /\ p \in Nat /\ start0 <= p /\ p < end0 /\ end0 < B_END /\ B_END \in Nat
      /\ start0 + COLUMNS <= end0
  BY Places
<1>3. PICK new : new = Append(str, c)
  OBVIOUS
<1>4. PICK m \in Nat : /\ m = Len(str) /\ Len(new) = m + 1 /\ new[m + 1] = c
                       /\ \A i \in 1..m : new[i] = str[i]
  BY <1>3
<1>5. PICK es : es = [cs EXCEPT ![p] = c]
  OBVIOUS
<1>6. es \in Cells /\ es[p] = c /\ \A i \in 1..B_END - 1 : i # p => es[i] = cs[i]
  <2>1. p \in 1..B_END - 1 /\ c \in Glyphs
    BY <1>2, CharsPrinted DEF Printed
  <2> QED BY <1>5, <2>1 DEF Cells
<1>7. PutC(s, c) = Scroll(T(es, p + 1))
  BY <1>1, <1>5, WritePlain DEF PutC
<1>8. ASSUME NEW i \in 1..m + 1, (p + 1) - (m + 1) + i - 1 >= start0
      PROVE  /\ (p + 1) - (m + 1) + i - 1 \in start0..p
             /\ es[(p + 1) - (m + 1) + i - 1] = new[i]
  <2>1. CASE i = m + 1
    <3>1. (p + 1) - (m + 1) + i - 1 = p
      BY <1>2, <2>1
    <3> QED BY <1>2, <1>4, <1>6, <2>1, <3>1
  <2>2. CASE i # m + 1
    <3>1. i \in 1..m
      BY <2>2
    <3>2. PICK x \in Int : x = (p + 1) - (m + 1) + i - 1 /\ x = p - m + i - 1
      BY <1>2
    <3>3. x \in start0..p /\ x # p /\ x \in 1..B_END - 1
      BY <1>2, <1>8, <3>1, <3>2
    <3>4. cs[x] = str[i]
      <4>1. x >= start0
        BY <3>3, <1>2
      <4> QED BY <1>1, <1>4, <3>1, <3>2, <4>1, LineHas
    <3> QED BY <1>4, <1>6, <3>1, <3>2, <3>3, <3>4
  <2> QED BY <2>1, <2>2
<1>9. CASE p + 1 < end0
  <2>1. p + 1 \in start0..end0 - 1
    BY <1>2, <1>9
  <2>2. PutC(s, c) = T(es, p + 1)
    BY <1>6, <1>7, <2>1, Unscrolled
  <2>3. PICK k, r : k = m + 1 /\ r = p + 1
    OBVIOUS
  <2>4. k = Len(new) /\ \A i \in 1..k : r - k + i - 1 >= start0 => es[r - k + i - 1] = new[i]
    BY <1>4, <1>8, <2>3
  <2>5. Line(T(es, r), new)
    BY <2>4, LineIs
  <2> QED BY <1>3, <2>2, <2>3, <2>5
<1>10. CASE p + 1 = end0
  <2>1. PutC(s, c) = T(Up(es), end0 - COLUMNS)
    BY <1>6, <1>7, <1>10, UpIs
  <2>2. ASSUME NEW i \in 1..m + 1, (end0 - COLUMNS) - (m + 1) + i - 1 >= start0
        PROVE  Up(es)[(end0 - COLUMNS) - (m + 1) + i - 1] = new[i]
    <3>1. PICK x \in Int : x = (end0 - COLUMNS) - (m + 1) + i - 1
      BY <1>2
    <3>2. x + COLUMNS = (p + 1) - (m + 1) + i - 1
      BY <1>2, <1>10, <3>1
    <3>3. x + COLUMNS >= start0
      BY <1>2, <2>2, <3>1
    <3>4. x + COLUMNS \in start0..p /\ es[x + COLUMNS] = new[i]
      BY <1>8, <3>2, <3>3
    <3>5. x \in 1..B_END - 1 /\ x \in start0..end0 - 1 /\ x + COLUMNS < end0
      BY <1>2, <2>2, <3>1, <3>4
    <3>6. Up(es)[x] = es[x + COLUMNS]
      BY <3>5 DEF Up
    <3> QED BY <3>1, <3>4, <3>6
  <2>3. Line(T(Up(es), end0 - COLUMNS), new)
    BY <1>4, <2>2, LineIs
  <2> QED BY <1>3, <2>1, <2>3
<1> QED BY <1>2, <1>9, <1>10

\* The last character taken back: the one before it is no blank, so that the
\* cursor goes back by one cell only.
LEMMA LineBack ==
  ASSUME NEW s, Neat(s), NEW str \in Seq(Chars), str # <<>>, Line(s, str)
  PROVE  Line(PutC(s, "\\b"), Front(str))
<1>1. PICK cs \in Cells, p \in start0..end0 - 1 : s = T(cs, p)
  BY DEF Neat
<1>2. /\ start0 \in Nat /\ end0 \in Nat /\ 1 < start0
      /\ p \in Nat /\ start0 <= p /\ p < end0 /\ end0 < B_END /\ B_END \in Nat
      /\ p \in start0..end0
  BY Places
<1>3. PICK new : new = Front(str)
  OBVIOUS
<1>4. PICK m \in Nat : /\ Len(str) = m + 1 /\ Len(new) = m
                       /\ \A i \in 1..m : new[i] = str[i]
  <2>1. Len(str) - 1 \in Nat /\ Len(str) = (Len(str) - 1) + 1
    BY FrontIs
  <2> QED BY <1>3, <2>1, FrontIs
<1>5. CASE p = start0
  <2>1. PutC(s, "\\b") = T(cs, p)
    BY <1>1, <1>2, <1>5, WriteErase, Unscrolled DEF PutC
  <2>2. \A i \in 1..m : ~ (p - m + i - 1 >= start0)
    BY <1>2, <1>5
  <2>3. Line(T(cs, p), new)
    BY <1>4, <2>2, LineIs
  <2> QED BY <1>3, <2>1, <2>3
<1>6. CASE p # start0
  <2>1. p - 1 \in start0..end0 /\ p - 1 \in 1..B_END - 1 /\ p - 1 \in start0..p - 1
    BY <1>2, <1>6
  <2>2. PICK es : es = [cs EXCEPT ![p - 1] = Blank]
    OBVIOUS
  <2>3. es \in Cells /\ \A i \in 1..B_END - 1 : i # p - 1 => es[i] = cs[i]
    BY <2>1, <2>2 DEF Cells, Glyphs
  <2>4. PICK q \in start0..p - 1 : q = Back(es, p - 1)
    BY <2>1, BackIs
  <2>5. PutC(s, "\\b") = T(es, q)
    <3>1. q \in start0..end0 - 1
      BY <1>2
    <3>2. Write(s, "\\b") = T(es, q)
      BY <1>1, <1>2, <1>6, <2>2, <2>4, WriteErase
    <3> QED BY <2>3, <3>1, <3>2, Unscrolled DEF PutC
  <2>6. ASSUME NEW i \in 1..m, p - (m + 1) + i - 1 >= start0
        PROVE  cs[p - (m + 1) + i - 1] = new[i]
    <3>1. PICK k \in Int, x \in Int : k = m + 1 /\ x = p - (m + 1) + i - 1
      BY <1>2
    <3>2. k = Len(str) /\ i \in 1..k /\ x = p - k + i - 1 /\ x >= start0
      BY <1>4, <2>6, <3>1
    <3>3. cs[x] = str[i]
      BY <1>1, <3>2, LineHas
    <3> QED BY <1>4, <3>1, <3>3
  <2>7. CASE m = 0
    <3>1. \A i \in 1..0 : FALSE
      OBVIOUS
    <3> QED BY <1>3, <1>4, <2>7, <3>1 DEF Line
  <2>8. CASE m # 0
    <3>1. q = p - 1
      <4>1. CASE p - 1 = start0
        BY <1>2, <4>1
      <4>2. CASE p - 1 # start0
        <5>1. p - 2 \in 1..B_END - 1 /\ p - 2 # p - 1 /\ p - 2 >= start0 /\ m \in 1..m
              /\ p - (m + 1) + m - 1 = p - 2 /\ (p - 1) - 1 = p - 2
          BY <1>2, <1>6, <2>8, <4>2
        <5>2. cs[p - 2] = new[m] /\ new[m] = str[m] /\ es[p - 2] = cs[p - 2]
          BY <1>4, <2>3, <2>6, <5>1
        <5>3. str[m] # Blank
          <6>1. m \in 1..Len(str)
            BY <1>4, <2>8
          <6> QED BY <6>1, CharsOf DEF Printed
        <5>4. p - 1 \in Stops(es, p - 1)
          BY <2>1, <5>1, <5>2, <5>3 DEF Stops
        <5> QED BY <2>1, <2>4, <5>4, BackStays
      <4> QED BY <4>1, <4>2
    <3>2. ASSUME NEW i \in 1..m, q - m + i - 1 >= start0
          PROVE  es[q - m + i - 1] = new[i]
      <4>1. PICK x \in Int : x = q - m + i - 1 /\ x = p - (m + 1) + i - 1
        BY <1>2, <3>1
      <4>2. x >= start0 /\ x \in 1..B_END - 1 /\ x # p - 1
        BY <1>2, <3>1, <3>2, <4>1
      <4>3. cs[x] = new[i]
        BY <2>6, <4>1, <4>2
      <4> QED BY <2>3, <4>1, <4>2, <4>3
    <3>3. Line(T(es, q), new)
      BY <1>4, <3>2, LineIs
    <3> QED BY <1>3, <2>5, <3>3
  <2> QED BY <2>7, <2>8
<1> QED BY <1>5, <1>6

-----------------------------------------------------------------------------
(* The screen that the user types to.                                      *)

ScreenInv ==
    /\ tabbed \in BOOLEAN /\ plain \in BOOLEAN
    /\ Neat(screen) /\ Neat(base)
    /\ in # "prompt" /\ plain => Shows(base, buff, screen)
    /\ in = "gets" /\ ~tabbed => Line(screen, buff)

\* It says what the run checks.
LEMMA SameShown ==
  ASSUME NEW u, NEW s, Same(u, s)
  PROVE  /\ u.current = s.current
         /\ \A i \in DOMAIN u.cells : Seen(u.cells[i]) = Seen(s.cells[i])
<1>1. PICK cu \in Cells, cs \in Cells, p \in start0..end0 - 1 :
         u = T(cu, p) /\ s = T(cs, p) /\ SameAt(cu, cs, p)
  BY DEF Same
<1>2. u.current = p /\ s.current = p /\ u.cells = cu /\ s.cells = cs
  BY <1>1, FieldsOfT
<1>3. DOMAIN cu = 1..B_END - 1
  BY DEF Cells
<1>4. ASSUME NEW i \in 1..B_END - 1 PROVE Seen(cu[i]) = Seen(cs[i])
  BY <1>1 DEF SameAt
<1> QED BY <1>2, <1>3, <1>4

LEMMA ScreenIsShown ==
  ASSUME MailboxOK, BuffersOK, MailboxInv, ScreenInv
  PROVE  BufferShown
<1>1. SizesOK
  <2>1. screen.current \in start0..end0 - 1
    BY FieldsOfT DEF ScreenInv, Neat
  <2>2. shift \in BOOLEAN
    BY DEF MailboxInv
  <2> QED BY <2>1, <2>2 DEF SizesOK, MailboxOK, BuffersOK, Limit, ScreenInv
<1>2. ScreenShowsBuffer
  <2>1. SUFFICES ASSUME plain, in # "prompt"
        PROVE /\ PutS(base, buff).current = screen.current
              /\ \A i \in DOMAIN PutS(base, buff).cells :
                    Seen(PutS(base, buff).cells[i]) = Seen(screen.cells[i])
    BY DEF ScreenShowsBuffer
  <2>2. Same(PutS(base, buff), screen)
    BY <2>1 DEF ScreenInv, Shows
  <2> QED BY <2>2, SameShown
<1>3. LineBeforeCursor
  BY DEF ScreenInv, Line, LineBeforeCursor
<1> QED BY <1>1, <1>2, <1>3 DEF BufferShown

LEMMA PromptIn == Prompt \in Seq(Typed)
<1>1. PICK a \in Typed, b \in Typed : a = ">" /\ b = " "
  BY DEF Typed, Space
<1>2. <<a, b>> \in Seq(Typed)
  OBVIOUS
<1> QED BY <1>1, <1>2 DEF Prompt

LEMMA PrintedNeat ==
  ASSUME NEW s, Neat(s), NEW str \in Seq(Typed) PROVE Neat(PutS(s, str))
<1>1. Len(str) \in Nat /\ \A n \in 1..Len(str) : str[n] \in Printed
  BY TypedPrinted
<1> QED BY <1>1, NeatPutS

LEMMA EmptyNeat == Neat(EmptyScreen)
<1>1. PICK cs : cs = Repeat(Blank, B_END - 1)
  OBVIOUS
<1>2. start0 \in Nat /\ end0 \in Nat /\ B_END \in Nat /\ 1 < start0 /\ start0 < end0 /\ end0 < B_END
  BY Places
<1>3. cs \in Cells /\ \A i \in 1..B_END - 1 : cs[i] = Blank
  BY <1>1 DEF Cells, Repeat, Glyphs
<1>4. Empty(cs, start0)
  <2>1. \A i \in start0..end0 - 1 : i \in 1..B_END - 1
    BY <1>2
  <2> QED BY <1>3, <2>1, SeenBlank DEF Empty
<1>5. start0 \in start0..end0 /\ start0 \in start0..end0 - 1
  BY <1>2
<1>6. NeatAt(cs, start0)
  BY <1>4, <1>5, FirstStops DEF NeatAt
<1>7. EmptyScreen = T(cs, start0)
  BY <1>1 DEF EmptyScreen, T
<1> QED BY <1>3, <1>5, <1>6, <1>7 DEF Neat

LEMMA InitScreen == TInit => ScreenInv
<1> SUFFICES ASSUME TInit PROVE ScreenInv
  OBVIOUS
<1>1. in = "gets" /\ buff = <<>> /\ base = screen /\ tabbed = FALSE /\ plain = TRUE
  BY DEF TInit
<1>2. PICK str \in Before : screen = PutS(EmptyScreen, str \o Prompt)
  BY DEF TInit
<1>3. str \in Seq(Typed)
  <2>1. Printable \subseteq Typed
    BY DEF Typed
  <2>2. str \in Seq(Printable)
    BY SizesAssumption DEF SizesAssumption
  <2>3. Len(str) \in Nat /\ \A n \in 1..Len(str) : str[n] \in Typed
    BY <2>1, <2>2
  <2> QED BY <2>2, <2>3
<1>4. str \o Prompt \in Seq(Typed)
  BY <1>3, PromptIn
<1>5. Neat(screen)
  BY <1>2, <1>4, EmptyNeat, PrintedNeat
<1> QED BY <1>1, <1>5, ShowsNone, LineNone DEF ScreenInv

(***************************************************************************)
(* The steps.                                                              *)
(***************************************************************************)
LEMMA Echoed ==
  ASSUME ScreenInv, NEW c \in Typed, Echo(c)
  PROVE  /\ tabbed' \in BOOLEAN /\ plain' \in BOOLEAN
         /\ base' = base /\ screen' = PutC(screen, c)
         /\ Neat(screen') /\ Neat(base')
         /\ ~tabbed' => ~tabbed /\ c # "\t"
         /\ plain' => plain /\ c # "\t" /\ Write(screen, c).current < end0
<1>1. Neat(PutC(screen, c))
  BY TypedPrinted, NeatPutC DEF ScreenInv
<1> QED BY <1>1 DEF Echo, ScreenInv

LEMMA KeptScreen ==
  ASSUME ScreenInv, UNCHANGED <<in, buff, screen, base, tabbed, plain>>
  PROVE  ScreenInv'
  BY DEF ScreenInv

LEMMA KeptEdit ==
  ASSUME ScreenInv, KeepScreen, UNCHANGED <<buff, in>> PROVE ScreenInv'
  BY KeptScreen DEF KeepScreen

LEMMA BeginScreen ==
  ASSUME NEW what \in {"gets", "text"}, NEW s, Neat(s), Begin(what, s) PROVE ScreenInv'
<1>1. in' = what /\ buff' = <<>> /\ screen' = s /\ base' = s /\ tabbed' = FALSE /\ plain' = TRUE
  BY DEF Begin
<1>2. Shows(s, <<>>, s) /\ Line(s, <<>>)
  BY ShowsNone, LineNone
<1> QED BY <1>1, <1>2 DEF ScreenInv

\* The last character taken back.
LEMMA BackScreen ==
  ASSUME ScreenInv, buff \in Seq(Chars), buff # <<>>, in # "prompt",
         buff' = Front(buff), in' = in, Echo("\\b")
  PROVE  ScreenInv'
<1>1. PICK bs \in Typed : bs = "\\b"
  BY DEF Typed, Printable
<1>2. /\ tabbed' \in BOOLEAN /\ plain' \in BOOLEAN
      /\ base' = base /\ screen' = PutC(screen, "\\b")
      /\ Neat(screen') /\ Neat(base')
      /\ ~tabbed' => ~tabbed
      /\ plain' => plain
  BY <1>1, Echoed
<1>3. plain' => Shows(base', buff', screen')
  <2>1. SUFFICES ASSUME plain' PROVE Shows(base', buff', screen')
    OBVIOUS
  <2>2. Shows(base, buff, screen) /\ Neat(base)
    BY <1>2, <2>1 DEF ScreenInv
  <2> QED BY <1>2, <2>2, ShowsFront
<1>4. in' = "gets" /\ ~tabbed' => Line(screen', buff')
  <2>1. SUFFICES ASSUME in = "gets", ~tabbed' PROVE Line(screen', buff')
    OBVIOUS
  <2>2. Line(screen, buff) /\ Neat(screen)
    BY <1>2, <2>1 DEF ScreenInv
  <2> QED BY <1>2, <2>2, LineBack
<1> QED BY <1>2, <1>3, <1>4 DEF ScreenInv

\* A character more, of a line or of the text.
LEMMA MoreScreen ==
  ASSUME ScreenInv, buff \in Seq(Chars), got \in Chars, in # "prompt", got # "\\b",
         in = "gets" => got # "\n", buff' = Append(buff, got), in' = in, Echo(got)
  PROVE  ScreenInv'
<1>1. /\ tabbed' \in BOOLEAN /\ plain' \in BOOLEAN
      /\ base' = base /\ screen' = PutC(screen, got)
      /\ Neat(screen') /\ Neat(base')
      /\ ~tabbed' => ~tabbed /\ got # "\t"
      /\ plain' => plain /\ got # "\t" /\ Write(screen, got).current < end0
  BY CharsPrinted, Echoed
<1>2. plain' => Shows(base', buff', screen')
  <2>1. SUFFICES ASSUME plain' PROVE Shows(base', buff', screen')
    OBVIOUS
  <2>2. Shows(base, buff, screen) /\ Stays(screen, got)
    BY <1>1, <2>1, CharsPrinted DEF ScreenInv, Stays
  <2> QED BY <1>1, <2>2, ShowsAppend
<1>3. in' = "gets" /\ ~tabbed' => Line(screen', buff')
  <2>1. SUFFICES ASSUME in = "gets", ~tabbed' PROVE Line(screen', buff')
    OBVIOUS
  <2>2. Line(screen, buff) /\ Neat(screen) /\ got \notin {"\n", "\t", "\\b"}
    BY <1>1, <2>1 DEF ScreenInv
  <2> QED BY <1>1, <2>2, LineAppend
<1> QED BY <1>1, <1>2, <1>3 DEF ScreenInv

LEMMA EndLineScreen ==
  ASSUME ScreenInv, EndLine PROVE ScreenInv'
<1>1. in' = "prompt" /\ Echo("\n")
  BY DEF EndLine
<1>2. PICK nl \in Typed : nl = "\n"
  BY DEF Typed, Printable
<1>3. tabbed' \in BOOLEAN /\ plain' \in BOOLEAN /\ Neat(screen') /\ Neat(base')
  BY <1>1, <1>2, Echoed
<1> QED BY <1>1, <1>3 DEF ScreenInv

LEMMA EditLineScreen ==
  ASSUME ScreenInv, BuffersOK, got \in Chars, in = "gets", EditLine PROVE ScreenInv'
<1>1. buff \in Seq(Chars) /\ in # "prompt" /\ in' = in /\ got # "\n"
  BY DEF BuffersOK, EditLine
<1>2. CASE got = "\\b" /\ buff # <<>> /\ buff' = Front(buff) /\ Echo("\\b")
  BY <1>1, <1>2, BackScreen
<1>3. CASE KeepScreen /\ UNCHANGED buff
  BY <1>1, <1>3, KeptEdit
<1>4. CASE Echo("\t")
  <2>1. PICK tab \in Typed : tab = "\t"
    BY DEF Typed, Printable
  <2>2. /\ tabbed' \in BOOLEAN /\ plain' \in BOOLEAN /\ Neat(screen') /\ Neat(base')
        /\ tabbed' /\ ~plain'
    BY <1>4, <2>1, Echoed
  <2> QED BY <2>2 DEF ScreenInv
<1>5. CASE got \notin NoAscii \cup {"\\b", "\t"} /\ buff' = Append(buff, got) /\ Echo(got)
  BY <1>1, <1>5, MoreScreen
<1> QED BY <1>2, <1>3, <1>4, <1>5 DEF EditLine

LEMMA EndTextScreen == ASSUME ScreenInv, EndText PROVE ScreenInv'
<1>1. Neat(PutC(screen, "\n"))
  <2>1. PICK nl \in Typed : nl = "\n"
    BY DEF Typed, Printable
  <2> QED BY <2>1, TypedPrinted, NeatPutC DEF ScreenInv
<1>2. Neat(PutS(PutC(screen, "\n"), Prompt))
  BY <1>1, PromptIn, PrintedNeat
<1> QED BY <1>2, BeginScreen DEF EndText

LEMMA EraseTextScreen ==
  ASSUME ScreenInv, BuffersOK, in = "text", EraseText PROVE ScreenInv'
<1>1. /\ screen' = EraseAll(screen, Len(buff)) /\ buff' = <<>>
      /\ in' = in /\ base' = base /\ tabbed' = tabbed /\ plain' = plain
      /\ buff \in Seq(Chars)
  BY DEF EraseText, BuffersOK
<1>2. Neat(screen')
  <2>1. PICK bs \in Typed : bs = "\\b"
    BY DEF Typed, Printable
  <2>2. PICK n \in Nat : n = Len(buff)
    BY <1>1
  <2>3. Repeat(bs, n) \in Seq(Typed)
    BY DEF Repeat
  <2> QED BY <1>1, <2>1, <2>2, <2>3, PrintedNeat DEF ScreenInv, EraseAll
<1>3. plain => Shows(base, <<>>, screen')
  <2>1. SUFFICES ASSUME plain PROVE Shows(base, <<>>, screen')
    OBVIOUS
  <2>2. Shows(base, buff, screen) /\ Neat(base)
    BY <2>1 DEF ScreenInv
  <2> QED BY <1>1, <2>2, ShowsErased
<1> QED BY <1>1, <1>2, <1>3 DEF ScreenInv

LEMMA EditTextScreen ==
  ASSUME ScreenInv, BuffersOK, got \in Chars, in = "text", EditText PROVE ScreenInv'
<1>1. buff \in Seq(Chars) /\ in # "prompt" /\ in # "gets" /\ in' = in
  BY DEF BuffersOK, EditText
<1>2. CASE buff # <<>> /\ Echo("\\b") /\ buff' = Front(buff)
  BY <1>1, <1>2, BackScreen
<1>3. CASE got \notin NoAscii \cup {"\\b"} /\ Echo(got) /\ buff' = Append(buff, got)
  BY <1>1, <1>3, MoreScreen
<1>4. CASE KeepScreen /\ UNCHANGED buff
  BY <1>1, <1>4, KeptEdit
<1> QED BY <1>2, <1>3, <1>4 DEF EditText

LEMMA EditScreen ==
  ASSUME ScreenInv, BuffersOK, got \in Chars, Edit PROVE ScreenInv'
<1>1. CASE Gets
  BY <1>1, EndLineScreen, EditLineScreen DEF Gets
<1>2. CASE Text
  BY <1>2, EndTextScreen, EraseTextScreen, EditTextScreen DEF Text
<1> QED BY <1>1, <1>2 DEF Edit

LEMMA NextLineScreen == ASSUME ScreenInv, NextLine PROVE ScreenInv'
<1>1. Neat(screen) /\ Neat(PutS(screen, Prompt))
  BY PromptIn, PrintedNeat DEF ScreenInv
<1> QED BY <1>1, BeginScreen DEF NextLine

LEMMA StepScreen == TermInv /\ ScreenInv /\ [TNext]_allvars => ScreenInv'
<1> SUFFICES ASSUME TermInv, ScreenInv, [TNext]_allvars PROVE ScreenInv'
  OBVIOUS
<1>1. BuffersOK /\ got \in Chars
  BY DEF TermInv, MailboxOK
<1>2. CASE UNCHANGED tvars
  BY <1>2, KeptScreen DEF tvars
<1>3. CASE Edit
  BY <1>1, <1>3, EditScreen
<1>4. CASE NextLine
  BY <1>4, NextLineScreen
<1> QED BY <1>2, <1>3, <1>4 DEF TNext, allvars

-----------------------------------------------------------------------------
\* The buffers keep their sizes and the screen shows them, for a screen, keys
\* and buffers of any size: printing the buffer of a line or a text at once
\* gives what typing it and taking it back did, as long as no tab was typed
\* and the text did not scroll (console.c:128-134), and a line without a tab
\* is before the cursor even when it did (keyboard.c:190-216).
THEOREM BufferIsShown == TSpec => []BufferShown
<1>1. TermInv /\ ScreenInv => BufferShown
  BY ScreenIsShown DEF TermInv
<1>2. TInit => TermInv /\ ScreenInv
  BY TermInitInv, InitScreen
<1>3. TermInv /\ ScreenInv /\ [TNext]_allvars => TermInv' /\ ScreenInv'
  BY TermStepInv, StepScreen
<1> QED BY <1>1, <1>2, <1>3, PTL DEF TSpec

=============================================================================
