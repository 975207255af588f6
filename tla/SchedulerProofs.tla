--------------------------- MODULE SchedulerProofs ---------------------------
(***************************************************************************)
(* Proofs about Scheduler, for every number of threads and of pages and    *)
(* every quantum.                                                          *)
(*                                                                         *)
(* The argument: only the main thread creates threads, and it links each   *)
(* right after itself.  So the thread it last made stays the second of the *)
(* list for as long as the main thread is in new_thread or wait, it is the *)
(* next to run while it has no stack, and nobody but the main thread can   *)
(* reap it.                                                                *)
(***************************************************************************)
EXTENDS Scheduler, SequenceTheorems, TLAPS

MainLoc  == {"prompt", "spawning", "created", "waiting"}
ChildLoc == {"spawning", "command", "loop", "done", "dead"}

\* The list: no repetition, main thread first, running thread in it, tids
\* given out in order.
ListInv ==
    /\ Len(threads) >= 1
    /\ threads[1] = Main
    /\ \A k, m \in 1..Len(threads) : threads[k] = threads[m] => k = m
    /\ \A k \in 1..Len(threads) : threads[k] < next_tid
    /\ current_node \in Listed
    /\ init \subseteq Listed

\* The main thread lives in the prompt, every other one in its command.
LocInv ==
    /\ Main \in init
    /\ status[Main] # DEAD
    /\ pc[Main] \in MainLoc
    /\ \A t \in Listed \ {Main} : t \in init =>
          /\ pc[t] \in ChildLoc
          /\ pc[t] = "spawning" => thread[t] = t

\* The thread the main thread is making or waiting for is right after it.
SecondInv ==
    pc[Main] \in {"spawning", "created", "waiting"} =>
        Len(threads) >= 2 /\ threads[2] = thread[Main]

\* A thread without a stack has just been made.
NewbornInv ==
    \A t \in Listed \ init :
        /\ current_node = Main
        /\ pc[Main] = "spawning"
        /\ thread[Main] = t
        /\ status[t] # DEAD

IInv == TypeOK /\ ListInv /\ LocInv /\ SecondInv /\ NewbornInv

-----------------------------------------------------------------------------
LEMMA TidIsNat == Tid \subseteq Nat
BY BoundsAssumption DEF Tid

\* A contiguous part of a list of tids.
LEMMA PartOfList ==
    ASSUME NEW s \in Seq(Tid), NEW m \in 1..Len(s)+1, NEW n \in m-1..Len(s)
    PROVE  /\ SubSeq(s, m, n) \in Seq(Tid)
           /\ Len(SubSeq(s, m, n)) = n - m + 1
           /\ \A x \in 1..n-m+1 : SubSeq(s, m, n)[x] = s[m + x - 1]
<1>1. Len(s) \in Nat /\ \A x \in 1..Len(s) : s[x] \in Tid
  BY LenProperties, ElementOfSeq
<1>2. \A x \in m..n : s[x] \in Tid
  BY <1>1
<1>3. /\ SubSeq(s, m, n) \in Seq(Tid)
      /\ Len(SubSeq(s, m, n)) = (IF m <= n THEN n - m + 1 ELSE 0)
      /\ \A x \in 1..n-m+1 : SubSeq(s, m, n)[x] = s[m + x - 1]
  BY <1>1, <1>2, SubSeqProperties
<1> QED BY <1>1, <1>3

\* What the two operations on the list return.
LEMMA InsertAfterList ==
    ASSUME threads \in Seq(Tid), NEW t \in Tid, NEW k \in 1..Len(threads)
    PROVE  /\ InsertAfter(t, k) \in Seq(Tid)
           /\ Len(InsertAfter(t, k)) = Len(threads) + 1
           /\ \A n \in 1..Len(threads) + 1 :
                 InsertAfter(t, k)[n] = IF n <= k THEN threads[n]
                                        ELSE IF n = k + 1 THEN t
                                        ELSE threads[n - 1]
<1> DEFINE a == SubSeq(threads, 1, k)
           b == SubSeq(threads, k + 1, Len(threads))
           c == a \o <<t>>
<1>1. Len(threads) \in Nat
  BY LenProperties
<1>2. /\ a \in Seq(Tid) /\ Len(a) = k
      /\ \A n \in 1..k : a[n] = threads[n]
  BY <1>1, PartOfList
<1>3. /\ b \in Seq(Tid) /\ Len(b) = Len(threads) - k
      /\ \A n \in 1..Len(threads) - k : b[n] = threads[k + n]
  BY <1>1, PartOfList
<1>4. /\ <<t>> \in Seq(Tid) /\ Len(<<t>>) = 1 /\ <<t>>[1] = t
  OBVIOUS
<1>5. /\ c \in Seq(Tid) /\ Len(c) = k + 1
      /\ \A n \in 1..k+1 : c[n] = IF n <= k THEN threads[n] ELSE t
  <2>1. /\ c \in Seq(Tid) /\ Len(c) = Len(a) + Len(<<t>>)
        /\ \A n \in 1..Len(a) + Len(<<t>>) :
              c[n] = IF n <= Len(a) THEN a[n] ELSE <<t>>[n - Len(a)]
    BY <1>2, <1>4, ConcatProperties
  <2> HIDE DEF a, c
  <2> QED BY <2>1, <1>1, <1>2, <1>4
<1>6. /\ c \o b \in Seq(Tid) /\ Len(c \o b) = Len(c) + Len(b)
      /\ \A n \in 1..Len(c) + Len(b) :
            (c \o b)[n] = IF n <= Len(c) THEN c[n] ELSE b[n - Len(c)]
  <2> HIDE DEF b, c
  <2> QED BY <1>3, <1>5, ConcatProperties
<1>7. InsertAfter(t, k) = c \o b
  BY DEF InsertAfter
<1> DEFINE d == c \o b
<1> HIDE DEF a, b, c, d
<1>8. d \in Seq(Tid) /\ Len(d) = Len(threads) + 1
  BY <1>1, <1>3, <1>5, <1>6 DEF d
<1>9. ASSUME NEW n \in 1..Len(threads) + 1
      PROVE  d[n] = IF n <= k THEN threads[n]
                    ELSE IF n = k + 1 THEN t ELSE threads[n - 1]
  <2>1. d[n] = IF n <= k + 1 THEN c[n] ELSE b[n - (k + 1)]
    BY <1>1, <1>3, <1>5, <1>6 DEF d
  <2>2. CASE n <= k + 1
    BY <2>1, <2>2, <1>1, <1>5
  <2>3. CASE n > k + 1
    <3>1. n - (k + 1) \in 1..Len(threads) - k
      BY <2>3, <1>1
    <3>2. b[n - (k + 1)] = threads[k + (n - (k + 1))]
      BY <3>1, <1>3
    <3>3. k + (n - (k + 1)) = n - 1
      BY <1>1
    <3> QED BY <2>1, <2>3, <3>2, <3>3, <1>1
  <2> QED BY <2>2, <2>3, <1>1
<1> QED BY <1>7, <1>8, <1>9 DEF d

LEMMA CutOutList ==
    ASSUME threads \in Seq(Tid),
           NEW i \in 1..Len(threads), NEW j \in i..Len(threads)
    PROVE  /\ CutOut(i, j) \in Seq(Tid)
           /\ Len(CutOut(i, j)) = Len(threads) - (j - i)
           /\ \A n \in 1..Len(threads) - (j - i) :
                 CutOut(i, j)[n] = IF n <= i THEN threads[n]
                                   ELSE threads[n + (j - i)]
<1> DEFINE a == SubSeq(threads, 1, i)
           b == SubSeq(threads, j + 1, Len(threads))
<1>1. Len(threads) \in Nat
  BY LenProperties
<1>2. /\ a \in Seq(Tid) /\ Len(a) = i
      /\ \A n \in 1..i : a[n] = threads[n]
  BY <1>1, PartOfList
<1>3. /\ b \in Seq(Tid) /\ Len(b) = Len(threads) - j
      /\ \A n \in 1..Len(threads) - j : b[n] = threads[j + n]
  BY <1>1, PartOfList
<1>4. /\ a \o b \in Seq(Tid) /\ Len(a \o b) = Len(a) + Len(b)
      /\ \A n \in 1..Len(a) + Len(b) :
            (a \o b)[n] = IF n <= Len(a) THEN a[n] ELSE b[n - Len(a)]
  <2> HIDE DEF a, b
  <2> QED BY <1>2, <1>3, ConcatProperties
<1>5. CutOut(i, j) = a \o b
  BY DEF CutOut
<1> DEFINE d == a \o b
<1> HIDE DEF a, b, d
<1>6. d \in Seq(Tid) /\ Len(d) = Len(threads) - (j - i)
  BY <1>1, <1>2, <1>3, <1>4 DEF d
<1>7. ASSUME NEW n \in 1..Len(threads) - (j - i)
      PROVE  d[n] = IF n <= i THEN threads[n] ELSE threads[n + (j - i)]
  <2>1. d[n] = IF n <= i THEN a[n] ELSE b[n - i]
    BY <1>1, <1>2, <1>3, <1>4 DEF d
  <2>2. CASE n <= i
    BY <2>1, <2>2, <1>1, <1>2
  <2>3. CASE n > i
    <3>1. n - i \in 1..Len(threads) - j
      BY <2>3, <1>1
    <3>2. b[n - i] = threads[j + (n - i)]
      BY <3>1, <1>3
    <3>3. j + (n - i) = n + (j - i)
      BY <1>1
    <3> QED BY <2>1, <2>3, <3>2, <3>3, <1>1
  <2> QED BY <2>2, <2>3, <1>1
<1> QED BY <1>5, <1>6, <1>7 DEF d

-----------------------------------------------------------------------------
\* The initial state.
LEMMA InitInv == Init => IInv
<1> SUFFICES ASSUME Init PROVE IInv
  OBVIOUS
<1> USE DEF Init, Main, DEAD, IDLE, ACTIVE
<1>1. 0 \in Tid
  BY BoundsAssumption DEF Tid
<1>2. threads \in Seq(Tid) /\ Len(threads) = 1 /\ threads[1] = 0
  BY <1>1
<1>3. status_ticks(ACTIVE) \in Nat
  BY TicksAssumption DEF status_ticks
<1>4. TypeOK
  <2>1. 0 \in Page /\ {0} \in SUBSET Page /\ {0} \in SUBSET Tid
    BY <1>1, BoundsAssumption DEF Page
  <2>2. /\ status \in [Tid -> Status] /\ pc \in [Tid -> Loc]
        /\ thread \in [Tid -> Tid] /\ p_stack_page \in [Tid -> Page]
    BY <1>1, <2>1 DEF Status, Loc
  <2> QED BY <1>1, <1>2, <1>3, <2>1, <2>2 DEF TypeOK
<1>5. Listed = {0}
  BY <1>2 DEF Listed
<1>6. ListInv
  BY <1>2, <1>5 DEF ListInv
<1>7. LocInv /\ SecondInv /\ NewbornInv
  BY <1>1, <1>5 DEF LocInv, SecondInv, NewbornInv, MainLoc
<1> QED BY <1>4, <1>6, <1>7 DEF IInv

\* The main thread is in the list and is not the thread it makes.
LEMMA MainFacts ==
    ASSUME IInv
    PROVE  /\ Main \in Tid /\ Main \in Listed
           /\ current_node \in Listed
           /\ pc[Main] \in {"spawning", "created", "waiting"} =>
                 thread[Main] \in Listed /\ thread[Main] # Main
<1> USE DEF IInv, TypeOK, ListInv
<1>1. Len(threads) \in Nat
  BY LenProperties
<1>2. threads[1] \in Tid /\ 1 \in 1..Len(threads)
  BY <1>1, ElementOfSeq
<1>3. Main \in Listed
  BY <1>2 DEF Listed
<1>4. ASSUME pc[Main] \in {"spawning", "created", "waiting"}
      PROVE  thread[Main] \in Listed /\ thread[Main] # Main
  <2>1. 2 \in 1..Len(threads) /\ threads[2] = thread[Main]
    BY <1>1, <1>4 DEF SecondInv
  <2>2. thread[Main] \in Listed
    BY <2>1 DEF Listed
  <2>3. threads[2] # threads[1]
    BY <1>2, <2>1
  <2> QED BY <2>1, <2>2, <2>3
<1> QED BY <1>2, <1>3, <1>4

LEMMA NewThreadInv ==
    ASSUME IInv, NEW b \in BOOLEAN, NewThread(b)
    PROVE  IInv'
<1> USE DEF IInv, TypeOK, ListInv
<1>1. /\ Len(threads) \in Nat /\ next_tid \in Tid
      /\ threads \in Seq(Tid) /\ next_tid \in Nat
  BY LenProperties DEF NewThread
<1>2. current_node = Main /\ pc[Main] = "prompt"
  BY MainFacts DEF NewThread, LocInv, ChildLoc, NewbornInv
<1>3. PICK k \in 1..Len(threads) :
        threads[k] = current_node /\ threads' = InsertAfter(next_tid, k)
  BY DEF NewThread, Linked
<1>4. k = 1
  BY <1>1, <1>2, <1>3
<1>5. /\ threads' \in Seq(Tid)
      /\ Len(threads') = Len(threads) + 1
      /\ \A n \in 1..Len(threads) + 1 :
            threads'[n] = IF n <= 1 THEN threads[n]
                          ELSE IF n = 2 THEN next_tid ELSE threads[n - 1]
  BY <1>1, <1>3, <1>4, InsertAfterList
<1>6. TypeOK'
  <2>1. PICK p \in Page :
          /\ bitmap' = TakePage(p)
          /\ p_stack_page' = [p_stack_page EXCEPT ![next_tid] = p]
    BY DEF NewThread
  <2>2. bitmap' \in SUBSET Page /\ p_stack_page' \in [Tid -> Page]
    BY <2>1 DEF TakePage
  <2>3. /\ status' \in [Tid -> Status] /\ pc' \in [Tid -> Loc]
        /\ thread' \in [Tid -> Tid]
    BY <1>1 DEF NewThread, Status, Loc
  <2>4. /\ current_node' \in Tid /\ init' \in SUBSET Tid /\ next_tid' \in Nat
        /\ switch_counter' \in Nat /\ ints' \in BOOLEAN /\ w' \in BOOLEAN
        /\ killed' \in BOOLEAN
    BY <1>1 DEF NewThread
  <2> QED BY <1>5, <2>2, <2>3, <2>4
<1>7. Listed' = Listed \cup {next_tid}
  <2>1. ASSUME NEW n \in 1..Len(threads) + 1
        PROVE  threads'[n] \in Listed \cup {next_tid}
    <3>1. CASE n = 1
      BY <3>1, <1>1, <1>5 DEF Listed
    <3>2. CASE n = 2
      BY <3>2, <1>1, <1>5
    <3>3. CASE n > 2
      <4>1. n - 1 \in 1..Len(threads) /\ threads'[n] = threads[n - 1]
        BY <3>3, <1>1, <1>5
      <4> QED BY <4>1 DEF Listed
    <3> QED BY <3>1, <3>2, <3>3, <1>1
  <2>2. ASSUME NEW n \in 1..Len(threads)
        PROVE  \E m \in 1..Len(threads) + 1 : threads'[m] = threads[n]
    <3>1. CASE n = 1
      BY <3>1, <1>1, <1>5
    <3>2. CASE n > 1
      <4>1. n + 1 \in 1..Len(threads) + 1 /\ threads'[n + 1] = threads[n + 1 - 1]
        BY <3>2, <1>1, <1>5
      <4> QED BY <4>1, <1>1
    <3> QED BY <3>1, <3>2, <1>1
  <2>3. threads'[2] = next_tid /\ 2 \in 1..Len(threads) + 1
    BY <1>1, <1>5
  <2>4. Listed' \subseteq Listed \cup {next_tid}
    BY <2>1, <1>5, SMTT(20) DEF Listed
  <2>5. Listed \cup {next_tid} \subseteq Listed'
    <3>1. Listed' = {threads'[m] : m \in 1..Len(threads) + 1}
      BY <1>5 DEF Listed
    <3> HIDE DEF TypeOK, ListInv, IInv
    <3> QED BY <3>1, <2>2, <2>3 DEF Listed
  <2> QED BY <2>4, <2>5
<1>8. ListInv'
  <2>1. Len(threads') >= 1 /\ threads'[1] = Main
    BY <1>1, <1>5
  <2>2. ASSUME NEW n \in 1..Len(threads') PROVE threads'[n] < next_tid'
    <3>1. next_tid' = next_tid + 1
      BY DEF NewThread
    <3>2. CASE n = 1
      <4>1. threads'[n] = threads[1] /\ threads[1] < next_tid
        BY <3>2, <1>1, <1>5
      <4> QED BY <4>1, <3>1, <1>1 DEF Main
    <3>3. CASE n = 2
      BY <3>1, <3>3, <1>1, <1>5
    <3>4. CASE n > 2
      <4>1. n - 1 \in 1..Len(threads) /\ threads'[n] = threads[n - 1]
        BY <3>4, <1>1, <1>5
      <4>2. threads[n - 1] \in Tid
        BY <4>1, ElementOfSeq
      <4>3. threads[n - 1] \in Nat
        BY <4>2, TidIsNat
      <4> QED BY <4>1, <4>3, <3>1, <1>1
    <3> QED BY <3>2, <3>3, <3>4, <1>1, <1>5
  <2>3. ASSUME NEW x \in 1..Len(threads'), NEW y \in 1..Len(threads'),
               threads'[x] = threads'[y]
        PROVE  x = y
    <3>1. Len(threads) \in Nat
      OBVIOUS
    <3> QED BY <3>1, <1>1, <1>5, <2>3, SMTT(30) DEF Tid
  <2>4. current_node' \in Listed' /\ init' \subseteq Listed'
    BY <1>7 DEF NewThread
  <2> QED BY <2>1, <2>2, <2>3, <2>4
<1>9. next_tid \notin Listed
  BY <1>1 DEF Listed, Tid
<1>10. /\ pc' = [pc EXCEPT ![Main] = "spawning"]
       /\ thread' = [thread EXCEPT ![Main] = next_tid]
       /\ status' = [status EXCEPT ![next_tid] = ACTIVE]
       /\ init' = init /\ current_node' = Main
  BY <1>2 DEF NewThread
<1>11. LocInv'
  BY <1>7, <1>9, <1>10, MainFacts DEF LocInv, MainLoc
<1>12. SecondInv'
  BY <1>1, <1>5, <1>10, MainFacts DEF SecondInv
<1>13. NewbornInv'
  <2>1. Listed \subseteq init
    BY <1>2 DEF NewbornInv
  <2> QED BY <1>1, <1>7, <1>10, <2>1, MainFacts DEF NewbornInv, ACTIVE, DEAD
<1> QED BY <1>6, <1>8, <1>11, <1>12, <1>13

LEMMA NewThreadReturnInv == IInv /\ NewThreadReturn => IInv'
<1> SUFFICES ASSUME IInv, NewThreadReturn PROVE IInv'
  OBVIOUS
<1> USE DEF IInv, NewThreadReturn, node
<1>1. Listed' = Listed
  BY DEF Listed
<1>2. TypeOK'
  BY DEF TypeOK, Loc
<1>3. ListInv'
  BY <1>1 DEF ListInv
<1>4. CASE current_node = Main
  <2>1. pc' = [pc EXCEPT ![Main] = IF w THEN "created" ELSE "prompt"]
    BY <1>4, MainFacts
  <2>2. pc'[Main] \in {"created", "prompt"} /\ \A t \in Tid \ {Main} : pc'[t] = pc[t]
    BY <2>1, MainFacts DEF TypeOK
  <2>3. Listed \subseteq init
    BY <1>4 DEF NewbornInv
  <2>4. Listed \subseteq Tid
    BY ElementOfSeq DEF TypeOK, Listed
  <2> QED BY <1>1, <1>2, <1>3, <1>4, <2>2, <2>3, <2>4
          DEF LocInv, SecondInv, NewbornInv, MainLoc
<1>5. CASE current_node # Main
  <2>1. current_node \in init
    BY <1>5, MainFacts DEF NewbornInv
  <2>2. thread[current_node] = current_node
    BY <2>1, <1>5, MainFacts DEF LocInv
  <2>3. pc' = [pc EXCEPT ![current_node] = "command"]
    BY <2>2
  <2> QED BY <1>1, <1>2, <1>3, <1>5, <2>3, MainFacts
          DEF LocInv, SecondInv, NewbornInv, ChildLoc, TypeOK
<1> QED BY <1>4, <1>5

LEMMA WaitInv == IInv /\ Wait => IInv'
<1> SUFFICES ASSUME IInv, Wait PROVE IInv'
  OBVIOUS
<1> USE DEF IInv, Wait
<1>1. Listed' = Listed
  BY DEF Listed
<1>2. current_node = Main
  BY MainFacts DEF LocInv, ChildLoc, NewbornInv
<1>3. TypeOK'
  BY DEF TypeOK, Loc, Status
<1>4. ListInv'
  BY <1>1 DEF ListInv
<1>5. /\ Main \in Tid /\ pc'[Main] = "waiting" /\ status'[Main] = IDLE
      /\ \A t \in Tid \ {Main} : pc'[t] = pc[t] /\ status'[t] = status[t]
  BY <1>2, MainFacts DEF TypeOK
<1>6. Listed \subseteq Tid
  BY ElementOfSeq DEF TypeOK, Listed
<1>7. Listed \subseteq init
  BY <1>2 DEF NewbornInv
<1> QED BY <1>1, <1>2, <1>3, <1>4, <1>5, <1>6, <1>7
        DEF LocInv, SecondInv, NewbornInv, MainLoc, IDLE, DEAD

LEMMA WaitReturnInv == IInv /\ WaitReturn => IInv'
<1> SUFFICES ASSUME IInv, WaitReturn PROVE IInv'
  OBVIOUS
<1> USE DEF IInv, WaitReturn
<1>1. Listed' = Listed
  BY DEF Listed
<1>2. current_node = Main
  BY MainFacts DEF LocInv, ChildLoc, NewbornInv
<1>3. TypeOK'
  BY DEF TypeOK, Loc, Status
<1>4. ListInv'
  BY <1>1 DEF ListInv
<1>5. /\ Main \in Tid /\ pc'[Main] = "prompt" /\ status'[Main] = ACTIVE
      /\ \A t \in Tid \ {Main} : pc'[t] = pc[t] /\ status'[t] = status[t]
  BY <1>2, MainFacts DEF TypeOK
<1>6. Listed \subseteq Tid
  BY ElementOfSeq DEF TypeOK, Listed
<1>7. Listed \subseteq init
  BY <1>2 DEF NewbornInv
<1> QED BY <1>1, <1>2, <1>3, <1>4, <1>5, <1>6, <1>7
        DEF LocInv, SecondInv, NewbornInv, MainLoc, ACTIVE, DEAD

\* What the commands and dispose_thread have in common: they run in a thread
\* that is not the main one, and while they run every thread has a stack.
LEMMA CommandFacts ==
    ASSUME IInv, pc[current_node] \in {"command", "done"}
    PROVE  /\ current_node # Main
           /\ current_node \in Tid
           /\ Listed \subseteq init /\ Listed \subseteq Tid
           /\ Main \in Tid
<1> USE DEF IInv
<1>1. current_node # Main
  BY DEF LocInv, MainLoc
<1>2. Listed \subseteq Tid
  BY ElementOfSeq DEF TypeOK, Listed
<1> QED BY <1>1, <1>2, MainFacts DEF NewbornInv, TypeOK

\* A step of a command: it moves its own thread, and may mark dead any
\* thread but the main one.
LEMMA CommandStepInv ==
    ASSUME IInv, pc[current_node] \in {"command", "done"},
           NEW l \in {"loop", "done", "dead"},
           pc' = [pc EXCEPT ![current_node] = l],
           status' \in [Tid -> Status], status'[Main] = status[Main],
           bitmap' \in SUBSET Page, ints' \in BOOLEAN, killed' \in BOOLEAN,
           UNCHANGED <<threads, current_node, init, p_stack_page, next_tid,
                       switch_counter, thread, w>>
    PROVE  IInv'
<1> USE DEF IInv
<1>1. Listed' = Listed
  BY DEF Listed
<1>2. TypeOK'
  BY DEF TypeOK, Loc
<1>3. ListInv'
  BY <1>1 DEF ListInv
<1>4. /\ pc'[Main] = pc[Main] /\ pc'[current_node] = l
      /\ \A t \in Tid \ {current_node} : pc'[t] = pc[t]
  BY CommandFacts DEF TypeOK
<1> QED BY <1>1, <1>2, <1>3, <1>4, CommandFacts
        DEF LocInv, SecondInv, NewbornInv, ChildLoc

LEMMA DisposeThreadInv == IInv /\ DisposeThread => IInv'
<1> SUFFICES ASSUME IInv, DisposeThread PROVE IInv'
  OBVIOUS
<1> USE DEF DisposeThread
<1>1. status' \in [Tid -> Status] /\ status'[Main] = status[Main]
  BY CommandFacts DEF IInv, TypeOK, Status
<1>2. bitmap' \in SUBSET Page /\ killed' \in BOOLEAN
  BY DEF IInv, TypeOK
<1> QED BY <1>1, <1>2, CommandStepInv

LEMMA InfLoopCmdInv == IInv /\ InfLoopCmd => IInv'
<1> SUFFICES ASSUME IInv, InfLoopCmd PROVE IInv'
  OBVIOUS
<1> USE DEF InfLoopCmd
<1>1. status' \in [Tid -> Status] /\ status'[Main] = status[Main]
  BY CommandFacts DEF IInv, TypeOK, Status
<1>2. bitmap' \in SUBSET Page /\ ints' \in BOOLEAN /\ killed' \in BOOLEAN
  BY DEF IInv, TypeOK
<1> QED BY <1>1, <1>2, CommandStepInv

LEMMA PrintProcDataInv == IInv /\ PrintProcData => IInv'
<1> SUFFICES ASSUME IInv, PrintProcData PROVE IInv'
  OBVIOUS
<1> USE DEF PrintProcData, node
<1>1. status' \in [Tid -> Status] /\ status'[Main] = status[Main]
  BY DEF IInv, TypeOK
<1>2. bitmap' \in SUBSET Page /\ ints' \in BOOLEAN /\ killed' \in BOOLEAN
  BY DEF IInv, TypeOK
<1> QED BY <1>1, <1>2, CommandStepInv

LEMMA KillThInv == ASSUME IInv, NEW t \in Tid, KillTh(t) PROVE IInv'
<1> USE DEF KillTh
<1>1. status' \in [Tid -> Status] /\ status'[Main] = status[Main]
  BY CommandFacts DEF IInv, TypeOK, Status
<1>2. bitmap' \in SUBSET Page /\ ints' \in BOOLEAN /\ killed' \in BOOLEAN
  BY DEF IInv, TypeOK
<1> QED BY <1>1, <1>2, CommandStepInv

LEMMA CountTickInv == IInv /\ CountTick => IInv'
<1> SUFFICES ASSUME IInv, CountTick PROVE IInv'
  OBVIOUS
<1> USE DEF IInv, CountTick, TicksLeft, node, stack
<1>1. Listed' = Listed
  BY DEF Listed
<1>2. TypeOK'
  BY DEF TypeOK
<1> QED BY <1>1, <1>2 DEF ListInv, LocInv, SecondInv, NewbornInv

\* A switch: positions i+1..j are reaped and the next node runs.
LEMMA SwitchTickInv ==
    ASSUME IInv, SwitchTick
    PROVE  /\ IInv'
           /\ status'[current_node'] # DEAD
<1> USE DEF IInv
<1> DEFINE Switch(i, j) ==
             /\ DeadRun(i, j)
             /\ threads' = CutOut(i, j)
             /\ CopyStack(NextNode(j))
             /\ init' = (init \ {threads[k] : k \in i+1..j}) \cup {NextNode(j)}
             /\ current_node' = NextNode(j)
             /\ switch_counter' = status_ticks(status[NextNode(j)])
<1>0. PICK i \in 1..Len(threads) : \E j \in i..Len(threads) : Switch(i, j)
  BY DEF SwitchTick, SwitchProc
<1>1. PICK j \in i..Len(threads) : Switch(i, j)
  BY <1>0
<1> DEFINE nxt  == NextNode(j)
           gone == {threads[k] : k \in i+1..j}
<1>2. /\ Len(threads) \in Nat /\ threads \in Seq(Tid)
      /\ i \in Nat /\ j \in Nat /\ 1 <= i /\ i <= j /\ j <= Len(threads)
  BY LenProperties DEF TypeOK
<1>3. /\ threads' \in Seq(Tid)
      /\ Len(threads') = Len(threads) - (j - i)
      /\ \A x \in 1..Len(threads) - (j - i) :
            threads'[x] = IF x <= i THEN threads[x] ELSE threads[x + (j - i)]
  BY <1>1, <1>2, CutOutList
<1>4. /\ threads[i] = current_node
      /\ \A k \in i+1..j : status[threads[k]] = DEAD
      /\ j < Len(threads) => status[threads[j + 1]] # DEAD
      /\ threads[1] = Main
      /\ \A k, m \in 1..Len(threads) : threads[k] = threads[m] => k = m
  BY <1>1 DEF DeadRun, ListInv
<1>5. UNCHANGED <<status, p_stack_page, next_tid, bitmap, ints, w, killed>> /\ ~Midway
  BY DEF SwitchTick
<1>6. /\ Main \in Tid /\ Main \in Listed /\ Listed \subseteq Tid
      /\ Main \in init /\ status[Main] # DEAD
  BY MainFacts, ElementOfSeq DEF LocInv, Listed, TypeOK
<1>7. nxt \in Listed /\ status[nxt] # DEAD
  <2>1. CASE j < Len(threads)
    <3>1. nxt = threads[j + 1] /\ j + 1 \in 1..Len(threads)
      BY <2>1, <1>2 DEF NextNode
    <3> QED BY <3>1, <2>1, <1>4 DEF Listed
  <2>2. CASE ~(j < Len(threads))
    BY <2>2, <1>4, <1>6 DEF NextNode
  <2> QED BY <2>1, <2>2
<1>8. Listed' \subseteq Listed
  <2>1. ASSUME NEW x \in 1..Len(threads')
        PROVE  \E y \in 1..Len(threads) : threads'[x] = threads[y]
    <3>1. CASE x <= i
      BY <3>1, <1>2, <1>3
    <3>2. CASE x > i
      <4>1. x + (j - i) \in 1..Len(threads)
        BY <3>2, <1>2, <1>3
      <4> QED BY <4>1, <3>2, <1>2, <1>3
    <3> QED BY <3>1, <3>2, <1>2
  <2> QED BY <2>1 DEF Listed
<1>9. Listed \ gone \subseteq Listed'
  <2>1. ASSUME NEW y \in 1..Len(threads), threads[y] \notin gone
        PROVE  \E x \in 1..Len(threads') : threads'[x] = threads[y]
    <3>1. CASE y <= i
      BY <3>1, <1>2, <1>3
    <3>2. CASE y > i
      <4>1. y > j
        BY <3>2, <2>1, <1>2
      <4>2. y - (j - i) \in 1..Len(threads') /\ y - (j - i) > i
        BY <4>1, <1>2, <1>3
      <4>3. (y - (j - i)) + (j - i) = y
        BY <1>2
      <4> DEFINE z == y - (j - i)
      <4>4. threads'[z] = threads[z + (j - i)]
        BY <4>2, <1>2, <1>3
      <4>5. threads'[z] = threads[y]
        BY <4>3, <4>4
      <4> HIDE DEF z
      <4>6. z \in 1..Len(threads')
        BY <4>2 DEF z
      <4> QED BY <4>5, <4>6
    <3> QED BY <3>1, <3>2, <1>2
  <2> QED BY <2>1 DEF Listed
<1>10. ASSUME NEW t \in Listed' PROVE t \notin gone
  <2>1. PICK x \in 1..Len(threads') : t = threads'[x]
    BY DEF Listed
  <2>2. CASE x <= i
    <3>1. t = threads[x] /\ x \in 1..Len(threads)
      BY <2>1, <2>2, <1>2, <1>3
    <3>2. ASSUME NEW k \in i+1..j PROVE threads[k] # t
      <4>1. k \in 1..Len(threads) /\ k # x
        BY <2>2, <1>2
      <4> QED BY <3>1, <4>1, <1>4
    <3> QED BY <3>2
  <2>3. CASE x > i
    <3>1. t = threads[x + (j - i)] /\ x + (j - i) \in 1..Len(threads)
      BY <2>1, <2>3, <1>2, <1>3
    <3>2. ASSUME NEW k \in i+1..j PROVE threads[k] # t
      <4>1. k \in 1..Len(threads) /\ k # x + (j - i)
        BY <2>3, <1>2
      <4> QED BY <3>1, <4>1, <1>4
    <3> QED BY <3>2
  <2> QED BY <2>2, <2>3, <1>2
<1>11. nxt \in Listed'
  <2>1. nxt \notin gone
    BY <1>4, <1>7
  <2> QED BY <2>1, <1>7, <1>9
<1>12. Main \notin gone /\ current_node \notin gone
  <2>1. ASSUME NEW k \in i+1..j PROVE threads[k] # threads[1] /\ threads[k] # threads[i]
    BY <1>2, <1>4
  <2> QED BY <2>1, <1>4
<1>13. ASSUME nxt \notin init
       PROVE  /\ current_node = Main /\ pc[Main] = "spawning"
              /\ thread[Main] = nxt /\ nxt # Main
              /\ pc' = [pc EXCEPT ![nxt] = "spawning"]
              /\ thread' = [thread EXCEPT ![nxt] = nxt]
  BY <1>1, <1>6, <1>7, <1>13 DEF NewbornInv, CopyStack
<1>14. ASSUME nxt \in init PROVE pc' = pc /\ thread' = thread
  BY <1>1, <1>14 DEF CopyStack
<1>15. pc'[Main] = pc[Main] /\ thread'[Main] = thread[Main]
  BY <1>6, <1>13, <1>14 DEF TypeOK
<1>16. ASSUME i = 1, pc[Main] \in {"spawning", "created", "waiting"}
       PROVE  j = 1 /\ nxt = thread[Main]
  <2>1. current_node = Main /\ 2 \in 1..Len(threads) /\ threads[2] = thread[Main]
    BY <1>2, <1>4, <1>16 DEF SecondInv
  <2>2. status[thread[Main]] # DEAD
    <3>1. CASE pc[Main] = "spawning"
      BY <2>1, <3>1, <1>5, MainFacts DEF Midway, NewbornInv
    <3>2. CASE pc[Main] = "waiting"
      BY <2>1, <3>2, <1>5 DEF Midway, PolledStatus
    <3> QED BY <2>1, <3>1, <3>2, <1>5, <1>16 DEF Midway
  <2>3. 2 \notin i+1..j
    BY <2>1, <2>2, <1>4
  <2>4. j = 1
    BY <2>3, <1>2, <1>16
  <2> QED BY <2>1, <2>4, <1>2 DEF NextNode
<1>17. TypeOK'
  <2>1. pc' \in [Tid -> Loc] /\ thread' \in [Tid -> Tid]
    BY <1>6, <1>7, <1>13, <1>14 DEF TypeOK, Loc
  <2>2. nxt \in Tid /\ init' \in SUBSET Tid
    BY <1>1, <1>6, <1>7 DEF TypeOK
  <2>3. switch_counter' \in Nat
    <3>1. status[nxt] \in Status
      BY <2>2 DEF TypeOK
    <3> QED BY <1>1, <3>1, TicksAssumption
            DEF status_ticks, Status, DEAD, IDLE, ACTIVE
  <2> QED BY <2>1, <2>2, <2>3, <1>1, <1>3, <1>5 DEF TypeOK
<1>18. ListInv'
  <2>1. Len(threads') >= 1 /\ threads'[1] = Main
    BY <1>2, <1>3, <1>4
  <2>2. ASSUME NEW n \in 1..Len(threads') PROVE threads'[n] < next_tid'
    <3>1. threads'[n] \in Listed
      BY <1>8 DEF Listed
    <3> QED BY <3>1, <1>5 DEF ListInv, Listed
  <2>3. ASSUME NEW x \in 1..Len(threads'), NEW y \in 1..Len(threads'),
               threads'[x] = threads'[y]
        PROVE  x = y
    <3> DEFINE f(n) == IF n <= i THEN n ELSE n + (j - i)
    <3>1. /\ f(x) \in 1..Len(threads) /\ f(y) \in 1..Len(threads)
          /\ threads'[x] = threads[f(x)] /\ threads'[y] = threads[f(y)]
      BY <1>2, <1>3
    <3>2. f(x) = f(y)
      BY <3>1, <2>3, <1>4
    <3> QED BY <3>2, <1>2, <1>3
  <2>4. init' \subseteq Listed'
    BY <1>1, <1>9, <1>11 DEF ListInv
  <2> QED BY <2>1, <2>2, <2>3, <2>4, <1>1, <1>11 DEF ListInv
<1>19. LocInv'
  <2>1. Main \in init' /\ status'[Main] # DEAD /\ pc'[Main] \in MainLoc
    BY <1>1, <1>5, <1>6, <1>12, <1>15 DEF LocInv
  <2>2. ASSUME NEW t \in Listed' \ {Main}, t \in init'
        PROVE  pc'[t] \in ChildLoc /\ (pc'[t] = "spawning" => thread'[t] = t)
    <3>1. CASE nxt \in init
      <4>1. t \in init /\ t \in Listed \ {Main}
        BY <1>1, <1>8, <2>2, <3>1
      <4> QED BY <4>1, <3>1, <1>14 DEF LocInv
    <3>2. CASE nxt \notin init /\ t = nxt
      BY <3>2, <1>6, <1>7, <1>13 DEF TypeOK, ChildLoc
    <3>3. CASE nxt \notin init /\ t # nxt
      <4>1. t \in init /\ t \in Listed \ {Main} /\ t \in Tid
        BY <1>1, <1>6, <1>8, <2>2, <3>3
      <4>2. pc'[t] = pc[t] /\ thread'[t] = thread[t]
        BY <4>1, <3>3, <1>13 DEF TypeOK
      <4> QED BY <4>1, <4>2 DEF LocInv
    <3> QED BY <3>1, <3>2, <3>3
  <2> QED BY <2>1, <2>2 DEF LocInv
<1>20. SecondInv'
  <2>1. SUFFICES ASSUME pc[Main] \in {"spawning", "created", "waiting"}
                 PROVE  Len(threads') >= 2 /\ threads'[2] = thread[Main]
    BY <1>15 DEF SecondInv
  <2>2. Len(threads) >= 2 /\ threads[2] = thread[Main]
    BY <2>1 DEF SecondInv
  <2>3. CASE i = 1
    BY <2>1, <2>2, <2>3, <1>2, <1>3, <1>16
  <2>4. CASE i > 1
    BY <2>2, <2>4, <1>2, <1>3
  <2> QED BY <2>3, <2>4, <1>2
<1>21. NewbornInv'
  <2>1. SUFFICES ASSUME NEW t \in Listed', t \notin init' PROVE FALSE
    BY DEF NewbornInv
  <2>2. t \in Listed /\ t \notin init /\ t # nxt
    BY <2>1, <1>1, <1>8, <1>10
  <2>3. current_node = Main /\ pc[Main] = "spawning" /\ thread[Main] = t
    BY <2>2 DEF NewbornInv
  <2>4. i = 1
    BY <2>3, <1>2, <1>4
  <2> QED BY <2>2, <2>3, <2>4, <1>16
<1> QED BY <1>1, <1>5, <1>7, <1>17, <1>18, <1>19, <1>20, <1>21

-----------------------------------------------------------------------------
LEMMA StepInv == IInv /\ [Next]_vars => IInv'
<1> SUFFICES ASSUME IInv, [Next]_vars PROVE IInv'
  OBVIOUS
<1>1. CASE \E b \in BOOLEAN : NewThread(b)
  BY <1>1, NewThreadInv
<1>2. CASE \E t \in Tid : KillTh(t)
  BY <1>2, KillThInv
<1>3. CASE HandleTick
  BY <1>3, CountTickInv, SwitchTickInv DEF HandleTick
<1>4. CASE UNCHANGED vars
  <2>1. Listed' = Listed
    BY <1>4 DEF Listed, vars
  <2> QED BY <1>4, <2>1
          DEF IInv, TypeOK, ListInv, LocInv, SecondInv, NewbornInv, vars
<1> QED BY <1>1, <1>2, <1>3, <1>4, NewThreadReturnInv, WaitInv, WaitReturnInv,
           DisposeThreadInv, InfLoopCmdInv, PrintProcDataInv DEF Next

\* The inductive invariant holds in every reachable state.
THEOREM Invariance == Spec => []IInv
BY InitInv, StepInv, PTL DEF Spec

\* Every variable keeps its type.
THEOREM TypeCorrect == Spec => []TypeOK
BY Invariance, PTL DEF IInv

\* The stack copied into a new thread is that of its creator, inside
\* new_thread, whatever else runs.
THEOREM ForkCorrect == Spec => []ForkCopiesCreator
<1>1. IInv => ForkCopiesCreator
  <2>1. SUFFICES ASSUME IInv, NEW t \in Listed \ init
                 PROVE /\ pc[current_node] = "spawning"
                       /\ thread[current_node] = t
                       /\ \E k \in 1..Len(threads) - 1 :
                             threads[k] = current_node /\ threads[k + 1] = t
    BY DEF ForkCopiesCreator
  <2>2. current_node = Main /\ pc[Main] = "spawning" /\ thread[Main] = t
    BY <2>1 DEF IInv, NewbornInv
  <2>3. Len(threads) >= 2 /\ threads[2] = t /\ threads[1] = Main
    BY <2>1, <2>2 DEF IInv, SecondInv, ListInv
  <2>4. Len(threads) \in Nat
    BY <2>1, LenProperties DEF IInv, TypeOK
  <2>5. 1 \in 1..Len(threads) - 1 /\ threads[1 + 1] = t
    BY <2>3, <2>4
  <2> QED BY <2>2, <2>3, <2>5
<1> QED BY <1>1, Invariance, PTL

\* The main thread never reads the status or init word of a freed node.
THEOREM WaitSafe == Spec => []WaitedNodeListed
<1>1. IInv => WaitedNodeListed
  BY MainFacts DEF WaitedNodeListed
<1> QED BY <1>1, Invariance, PTL

\* No switch resumes a dead thread.
THEOREM DeadStayOff == Spec => NoSwitchToDead
<1>1. IInv /\ [Next]_vars =>
        [current_node' # current_node => status'[current_node'] # DEAD]_vars
  <2> SUFFICES ASSUME IInv, Next, current_node' # current_node
               PROVE  status'[current_node'] # DEAD
    BY DEF vars
  <2>1. SwitchTick
    BY DEF Next, NewThread, NewThreadReturn, Wait, WaitReturn, DisposeThread,
           InfLoopCmd, PrintProcData, KillTh, HandleTick, CountTick
  <2> QED BY <2>1, SwitchTickInv
<1> QED BY <1>1, Invariance, PTL DEF Spec, NoSwitchToDead

-----------------------------------------------------------------------------
(* Stack pages.  A thread frees its page when it dies and at no other time *)
(* (killth aside), and the page it stood on can be given out again while   *)
(* it waits to be reaped: a dead thread must never free a second time.     *)

\* A thread that is dead has nothing left to dispose of.
DisposedOnce ==
    ~killed => \A t \in Listed : status[t] = DEAD => pc[t] = "dead"

PagesInv == StacksDisjoint /\ DisposedOnce

LEMMA InitPages == Init => PagesInv
<1> SUFFICES ASSUME Init PROVE PagesInv
  OBVIOUS
<1>1. threads = <<0>> /\ Len(threads) = 1 /\ threads[1] = 0
  BY DEF Init, Main
<1>2. Listed = {0}
  BY <1>1 DEF Listed
<1>3. 0 \in Tid
  BY BoundsAssumption DEF Tid
<1> QED BY <1>2, <1>3
        DEF Init, PagesInv, StacksDisjoint, DisposedOnce, Main, ACTIVE, DEAD

\* A step that leaves list, statuses, pages and bitmap alone, and moves only
\* threads that are not dead.
LEMMA QuietPages ==
    ASSUME IInv, PagesInv,
           UNCHANGED <<threads, p_stack_page, bitmap, killed>>,
           \A t \in Listed : status'[t] = DEAD <=> status[t] = DEAD,
           \A t \in Listed : status[t] = DEAD => pc'[t] = pc[t]
    PROVE  PagesInv'
<1>1. Listed' = Listed
  BY DEF Listed
<1>2. \A t \in Listed : Live(t)' <=> Live(t)
  BY <1>1 DEF Live
<1>3. StacksDisjoint'
  BY <1>1, <1>2 DEF PagesInv, StacksDisjoint
<1>4. DisposedOnce'
  BY <1>1 DEF PagesInv, DisposedOnce
<1> QED BY <1>3, <1>4 DEF PagesInv

\* What NewThread does to the list, in terms of its members.
LEMMA NewThreadListed ==
    ASSUME IInv, NEW b \in BOOLEAN, NewThread(b)
    PROVE  /\ current_node = Main
           /\ next_tid \in Tid
           /\ next_tid \notin Listed
           /\ Listed' \subseteq Listed \cup {next_tid}
<1> USE DEF IInv, TypeOK, ListInv
<1>1. /\ Len(threads) \in Nat /\ next_tid \in Tid
      /\ threads \in Seq(Tid) /\ next_tid \in Nat
  BY LenProperties DEF NewThread
<1>2. current_node = Main
  BY MainFacts DEF NewThread, LocInv, ChildLoc, NewbornInv
<1>3. PICK k \in 1..Len(threads) : threads' = InsertAfter(next_tid, k)
  BY DEF NewThread, Linked
<1>4. /\ Len(threads') = Len(threads) + 1
      /\ \A n \in 1..Len(threads) + 1 :
            threads'[n] = IF n <= k THEN threads[n]
                          ELSE IF n = k + 1 THEN next_tid ELSE threads[n - 1]
  BY <1>1, <1>3, InsertAfterList
<1>5. ASSUME NEW n \in 1..Len(threads) + 1
      PROVE  threads'[n] \in Listed \cup {next_tid}
  <2>1. CASE n <= k
    BY <2>1, <1>1, <1>4 DEF Listed
  <2>2. CASE n = k + 1
    BY <2>2, <1>1, <1>4
  <2>3. CASE n > k + 1
    <3>1. n - 1 \in 1..Len(threads) /\ threads'[n] = threads[n - 1]
      BY <2>3, <1>1, <1>4
    <3> QED BY <3>1 DEF Listed
  <2> QED BY <2>1, <2>2, <2>3, <1>1
<1>6. Listed' \subseteq Listed \cup {next_tid}
  <2>1. Listed' = {threads'[m] : m \in 1..Len(threads) + 1}
    BY <1>4 DEF Listed
  <2> QED BY <2>1, <1>5
<1>7. next_tid \notin Listed
  BY <1>1 DEF Listed, Tid
<1> QED BY <1>1, <1>2, <1>6, <1>7

LEMMA NewThreadPages ==
    ASSUME IInv, PagesInv, NEW b \in BOOLEAN, NewThread(b)
    PROVE  PagesInv'
<1>1. PICK p \in Page : /\ FirstFree(p)
                        /\ bitmap' = TakePage(p)
                        /\ p_stack_page' = [p_stack_page EXCEPT ![next_tid] = p]
  BY DEF NewThread
<1>2. p \notin bitmap /\ bitmap' = bitmap \cup {p}
  BY <1>1 DEF FirstFree, TakePage
<1>3. /\ current_node = Main
      /\ next_tid \in Tid /\ next_tid \notin Listed
      /\ Listed' \subseteq Listed \cup {next_tid}
  BY NewThreadListed
<1>4. Listed \subseteq Tid /\ Main \in Listed
  BY MainFacts, ElementOfSeq DEF IInv, TypeOK, Listed
<1>5. /\ status'[next_tid] = ACTIVE /\ p_stack_page'[next_tid] = p
      /\ \A t \in Listed : /\ status'[t] = status[t]
                           /\ p_stack_page'[t] = p_stack_page[t]
                           /\ t # Main => pc'[t] = pc[t]
  BY <1>1, <1>3, <1>4 DEF NewThread, IInv, TypeOK
<1>6. killed' = killed /\ status[Main] # DEAD
  BY DEF NewThread, IInv, LocInv
<1>7. StacksDisjoint'
  <2> SUFFICES ASSUME ~killed, NEW t \in Listed', Live(t)'
               PROVE  /\ p_stack_page'[t] \in bitmap'
                      /\ \A u \in Listed' \ {t} :
                            Live(u)' => p_stack_page'[u] # p_stack_page'[t]
    BY <1>6 DEF StacksDisjoint
  <2>1. \A u \in Listed' : Live(u)' => u = next_tid \/ Live(u)
    BY <1>3, <1>5 DEF Live
  <2>2. \A u \in Listed : Live(u) => p_stack_page[u] \in bitmap
    BY DEF PagesInv, StacksDisjoint
  <2>3. p_stack_page'[t] \in bitmap'
    BY <2>1, <2>2, <1>2, <1>5 DEF Live
  <2>4. ASSUME NEW u \in Listed' \ {t}, Live(u)'
        PROVE  p_stack_page'[u] # p_stack_page'[t]
    <3>1. CASE t = next_tid
      BY <3>1, <2>1, <2>2, <2>4, <1>2, <1>3, <1>5 DEF Live
    <3>2. CASE u = next_tid
      BY <3>2, <2>1, <2>2, <2>4, <1>2, <1>3, <1>5 DEF Live
    <3>3. CASE t # next_tid /\ u # next_tid
      BY <3>3, <2>1, <2>4, <1>3, <1>5 DEF PagesInv, StacksDisjoint, Live
    <3> QED BY <3>1, <3>2, <3>3
  <2> QED BY <2>3, <2>4
<1>8. DisposedOnce'
  BY <1>3, <1>5, <1>6 DEF PagesInv, DisposedOnce, ACTIVE, DEAD
<1> QED BY <1>7, <1>8 DEF PagesInv

\* While killth has not run, no command runs in a dead thread.
LEMMA CommandLives ==
    ASSUME IInv, PagesInv, ~killed, pc[current_node] # "dead"
    PROVE  status[current_node] # DEAD
BY MainFacts DEF PagesInv, DisposedOnce

LEMMA DisposeThreadPages ==
    ASSUME IInv, PagesInv, DisposeThread
    PROVE  PagesInv'
<1>1. current_node \in Listed /\ Listed \subseteq Tid
  BY MainFacts, CommandFacts DEF DisposeThread
<1>2. Listed' = Listed
  BY DEF DisposeThread, Listed
<1>3. /\ status'[current_node] = DEAD /\ pc'[current_node] = "dead"
      /\ \A t \in Listed \ {current_node} : status'[t] = status[t] /\ pc'[t] = pc[t]
      /\ p_stack_page' = p_stack_page
      /\ bitmap' = bitmap \ {p_stack_page[current_node]}
      /\ killed' = killed
  BY <1>1 DEF DisposeThread, IInv, TypeOK
<1>4. ~killed => Live(current_node)
  BY <1>1, CommandLives DEF DisposeThread, Live
<1>5. \A t \in Listed : Live(t)' => t # current_node /\ Live(t)
  BY <1>2, <1>3 DEF Live
<1>6. StacksDisjoint'
  BY <1>1, <1>2, <1>3, <1>4, <1>5 DEF PagesInv, StacksDisjoint
<1>7. DisposedOnce'
  BY <1>2, <1>3 DEF PagesInv, DisposedOnce
<1> QED BY <1>6, <1>7 DEF PagesInv

LEMMA KillThPages ==
    ASSUME IInv, PagesInv, NEW tid \in Tid, KillTh(tid)
    PROVE  PagesInv'
<1>1. CASE killed'
  BY <1>1 DEF PagesInv, StacksDisjoint, DisposedOnce
<1>2. CASE ~killed'
  <2>1. UNCHANGED <<threads, p_stack_page, status, bitmap, killed>>
    BY <1>2 DEF KillTh
  <2>2. status[current_node] # DEAD
    BY <1>2, <2>1, CommandLives DEF KillTh
  <2>3. \A t \in Listed : status[t] = DEAD => pc'[t] = pc[t]
    BY <2>2, CommandFacts DEF KillTh, IInv, TypeOK
  <2> QED BY <2>1, <2>3, QuietPages
<1> QED BY <1>1, <1>2

\* What SwitchProc does to the list, in terms of its members.
LEMMA SwitchListed ==
    ASSUME IInv, SwitchTick
    PROVE  /\ Listed' \subseteq Listed
           /\ \/ UNCHANGED pc
              \/ \E t \in Listed : /\ status[t] # DEAD
                                   /\ pc' = [pc EXCEPT ![t] = "spawning"]
<1> DEFINE Switch(i, j) == threads' = CutOut(i, j) /\ CopyStack(NextNode(j))
<1>a. PICK i \in 1..Len(threads) : \E j \in i..Len(threads) : Switch(i, j)
  BY DEF SwitchTick, SwitchProc
<1>0. PICK j \in i..Len(threads) : Switch(i, j)
  BY <1>a
<1>1. Len(threads) \in Nat /\ threads \in Seq(Tid)
  BY LenProperties DEF IInv, TypeOK
<1>2. /\ Len(threads') = Len(threads) - (j - i)
      /\ \A x \in 1..Len(threads) - (j - i) :
            threads'[x] = IF x <= i THEN threads[x] ELSE threads[x + (j - i)]
  BY <1>0, <1>1, CutOutList
<1>3. ASSUME NEW x \in 1..Len(threads')
      PROVE  \E y \in 1..Len(threads) : threads'[x] = threads[y]
  <2>1. CASE x <= i
    BY <2>1, <1>1, <1>2
  <2>2. CASE x > i
    <3>1. x + (j - i) \in 1..Len(threads)
      BY <2>2, <1>1, <1>2
    <3> QED BY <3>1, <2>2, <1>1, <1>2
  <2> QED BY <2>1, <2>2, <1>1
<1>4. Listed' \subseteq Listed
  BY <1>3 DEF Listed
<1>5. NextNode(j) \in Listed
  <2>1. CASE j < Len(threads)
    BY <2>1, <1>1 DEF NextNode, Listed
  <2>2. CASE ~(j < Len(threads))
    BY <2>2, MainFacts DEF NextNode, IInv, ListInv
  <2> QED BY <2>1, <2>2
<1>6. CASE NextNode(j) \in init
  BY <1>0, <1>4, <1>6 DEF CopyStack
<1>7. CASE NextNode(j) \notin init
  <2>1. /\ current_node = Main /\ pc[Main] = "spawning"
        /\ status[NextNode(j)] # DEAD
    BY <1>5, <1>7 DEF IInv, NewbornInv
  <2>2. pc' = [pc EXCEPT ![NextNode(j)] = "spawning"]
    BY <2>1, <1>0, <1>7 DEF CopyStack
  <2> QED BY <2>1, <2>2, <1>4, <1>5
<1> QED BY <1>6, <1>7

LEMMA SwitchTickPages ==
    ASSUME IInv, PagesInv, SwitchTick
    PROVE  PagesInv'
<1>1. /\ Listed' \subseteq Listed
      /\ UNCHANGED <<status, p_stack_page, bitmap, killed>>
  BY SwitchListed DEF SwitchTick
<1>2. \A t \in Listed' : Live(t)' => Live(t)
  BY <1>1 DEF Live
<1>3. \A t \in Listed : status[t] = DEAD => pc'[t] = pc[t]
  <2>1. Listed \subseteq Tid
    BY ElementOfSeq DEF IInv, TypeOK, Listed
  <2>2. pc \in [Tid -> Loc]
    BY DEF IInv, TypeOK
  <2> QED BY <2>1, <2>2, SwitchListed
<1>4. StacksDisjoint'
  BY <1>1, <1>2 DEF PagesInv, StacksDisjoint
<1>5. DisposedOnce'
  BY <1>1, <1>3 DEF PagesInv, DisposedOnce
<1> QED BY <1>4, <1>5 DEF PagesInv

\* The other operations run in a thread that is not dead, and change neither
\* pages nor which threads are.
LEMMA OtherPages ==
    ASSUME IInv, PagesInv,
           \/ NewThreadReturn \/ Wait \/ WaitReturn \/ InfLoopCmd
           \/ PrintProcData \/ CountTick
    PROVE  PagesInv'
<1> DEFINE other == NewThreadReturn \/ Wait \/ WaitReturn \/ InfLoopCmd
                      \/ PrintProcData
<1>1. CASE killed
  <2>1. killed'
    BY <1>1 DEF NewThreadReturn, Wait, WaitReturn, InfLoopCmd, PrintProcData,
                CountTick
  <2> QED BY <2>1 DEF PagesInv, StacksDisjoint, DisposedOnce
<1>2. CASE ~killed /\ CountTick
  BY <1>2, QuietPages DEF CountTick, node, stack
<1>3. CASE ~killed /\ other
  <2>1. pc[current_node] # "dead"
    BY <1>3 DEF NewThreadReturn, Wait, WaitReturn, InfLoopCmd, PrintProcData
  <2>2. status[current_node] # DEAD /\ current_node \in Listed
    BY <1>3, <2>1, CommandLives, MainFacts
  <2>3. Listed \subseteq Tid /\ status \in [Tid -> Status] /\ pc \in [Tid -> Loc]
    BY ElementOfSeq DEF IInv, TypeOK, Listed
  <2>4. UNCHANGED <<threads, p_stack_page, bitmap, killed>>
    BY <1>3 DEF NewThreadReturn, Wait, WaitReturn, InfLoopCmd, PrintProcData, node
  <2>5. \E s \in {IDLE, ACTIVE} :
           status' = status \/ status' = [status EXCEPT ![current_node] = s]
    BY <1>3 DEF NewThreadReturn, Wait, WaitReturn, InfLoopCmd, PrintProcData, node
  <2>6. \E l \in Loc : pc' = [pc EXCEPT ![current_node] = l]
    BY <1>3 DEF NewThreadReturn, Wait, WaitReturn, InfLoopCmd, PrintProcData, Loc
  <2>7. \A t \in Listed : status'[t] = DEAD <=> status[t] = DEAD
    BY <2>2, <2>3, <2>5 DEF IDLE, ACTIVE, DEAD
  <2>8. \A t \in Listed : status[t] = DEAD => pc'[t] = pc[t]
    BY <2>2, <2>3, <2>6
  <2> QED BY <2>4, <2>7, <2>8, QuietPages
<1> QED BY <1>1, <1>2, <1>3

LEMMA StepPages == IInv /\ PagesInv /\ [Next]_vars => PagesInv'
<1> SUFFICES ASSUME IInv, PagesInv, [Next]_vars PROVE PagesInv'
  OBVIOUS
<1>1. CASE \E b \in BOOLEAN : NewThread(b)
  BY <1>1, NewThreadPages
<1>2. CASE \E t \in Tid : KillTh(t)
  BY <1>2, KillThPages
<1>3. CASE UNCHANGED vars
  BY <1>3, QuietPages DEF vars
<1> QED BY <1>1, <1>2, <1>3, DisposeThreadPages, SwitchTickPages, OtherPages
        DEF Next, HandleTick

\* Until killth takes a page from under a thread, threads that can run stand
\* on different pages, all of them allocated, whoever dies and is reaped.
THEOREM OwnStacks == Spec => []StacksDisjoint
<1>1. IInv /\ PagesInv => StacksDisjoint
  BY DEF PagesInv
<1>2. Spec => []PagesInv
  BY InitPages, StepPages, Invariance, PTL DEF Spec
<1> QED BY <1>1, <1>2, Invariance, PTL

=============================================================================
