--------------------------- MODULE SchedulerProofs ---------------------------
(***************************************************************************)
(* Proofs about Scheduler, for any threads, groups and operations: the     *)
(* list of all threads, which goes by the flags alone; the tree of groups, *)
(* whose lists are held against that list; and the search, which goes past *)
(* all that it has to look at before it gives up.                          *)
(***************************************************************************)
EXTENDS Scheduler, SequenceTheorems, FiniteSetTheorems, WellFoundedInduction, TLAPS

\* The threads that are to be in the list.
QueuedIn(word) == {p \in Thread : Queued(word[p])}

\* q holds each of the threads of the set once, and the main thread last.
Lists(q, set) ==
  /\ q \in Seq(Thread) /\ Len(q) \in Nat \ {0}
  /\ q[Len(q)] = Main
  /\ \A j, k \in 1..Len(q) : q[j] = q[k] => j = k
  /\ \A k \in 1..Len(q) : q[k] \in set
  /\ \A p \in set : \E k \in 1..Len(q) : q[k] = p
  /\ IsFiniteSet(set) /\ Cardinality(set) = Len(q)

\* The words of the main thread.
MainWords == {{"RUNNING"}, {"RUNNING", "USER_SUSPENDED"}}

\* The inductive invariant.
IInv ==
  /\ running \in [Thread -> SUBSET Flag]
  /\ Main \in created /\ running[Main] \in MainWords
  /\ Lists(queue, QueuedIn(running))
  /\ num_running_threads = Len(queue)
-----------------------------------------------------------------------------
\* The list.

LEMMA ListWithFirst ==
  ASSUME NEW q, NEW set, Lists(q, set), NEW p \in Thread \ set
  PROVE  Lists(<<p>> \o q, set \cup {p}) /\ Len(<<p>> \o q) = Len(q) + 1
<1>1. PICK r : r = <<p>> \o q
  OBVIOUS
<1>2. Len(q) \in Nat /\ Len(q) > 0 /\ q \in Seq(Thread)
  BY DEF Lists
<1>3. /\ r \in Seq(Thread) /\ Len(r) = Len(q) + 1 /\ r[1] = p
      /\ \A k \in 2..Len(r) : k - 1 \in 1..Len(q) /\ r[k] = q[k - 1]
  BY <1>1, <1>2
<1>4. \A k \in 1..Len(r) : k = 1 \/ k \in 2..Len(r)
  BY <1>2, <1>3
<1>5. r[Len(r)] = Main
  <2>1. Len(r) \in 2..Len(r) /\ Len(r) - 1 = Len(q)
    BY <1>2, <1>3
  <2>2. QED BY <1>3, <2>1 DEF Lists
<1>6. ASSUME NEW j \in 1..Len(r), NEW k \in 1..Len(r), r[j] = r[k]
      PROVE  j = k
  <2>1. CASE j = 1 \/ k = 1
    BY <1>3, <1>4, <1>6, <2>1 DEF Lists
  <2>2. CASE j \in 2..Len(r) /\ k \in 2..Len(r)
    <3>1. j - 1 = k - 1
      BY <1>3, <1>6, <2>2 DEF Lists
    <3>2. QED BY <2>2, <3>1
  <2>3. QED BY <1>4, <2>1, <2>2
<1>7. \A k \in 1..Len(r) : r[k] \in set \cup {p}
  BY <1>3, <1>4 DEF Lists
<1>8. ASSUME NEW x \in set \cup {p}
      PROVE  \E k \in 1..Len(r) : r[k] = x
  <2>1. CASE x = p
    <3>1. 1 \in 1..Len(r)
      BY <1>2, <1>3
    <3>2. QED BY <1>3, <2>1, <3>1
  <2>2. CASE x \in set
    <3>1. PICK k \in 1..Len(q) : q[k] = x
      BY <2>2 DEF Lists
    <3>2. k + 1 \in 1..Len(r) /\ k + 1 \in 2..Len(r) /\ (k + 1) - 1 = k
      BY <1>2, <1>3
    <3>3. r[k + 1] = x
      BY <1>3, <3>1, <3>2
    <3>4. QED BY <3>2, <3>3
  <2>3. QED BY <2>1, <2>2
<1>9. IsFiniteSet(set \cup {p}) /\ Cardinality(set \cup {p}) = Len(r)
  BY <1>3, FS_AddElement DEF Lists
<1>10. QED BY <1>1, <1>2, <1>3, <1>5, <1>6, <1>7, <1>8, <1>9 DEF Lists

\* What is left of a list without its k-th thread.
LEMMA WithoutOne ==
  ASSUME NEW q \in Seq(Thread), NEW k \in 1..Len(q)
  PROVE  /\ RemoveAt(q, k) \in Seq(Thread)
         /\ Len(RemoveAt(q, k)) = Len(q) - 1
         /\ \A i \in 1..Len(q) - 1 : RemoveAt(q, k)[i] = IF i < k THEN q[i] ELSE q[i + 1]
<1>1. Len(q) \in Nat
  OBVIOUS
<1>2. PICK n \in Nat : n = Len(q) - 1
  BY <1>1
<1>3. PICK a : a = SubSeq(q, 1, k - 1)
  OBVIOUS
<1>4. PICK b : b = SubSeq(q, k + 1, Len(q))
  OBVIOUS
<1>5. /\ a \in Seq(Thread) /\ Len(a) = k - 1
      /\ \A i \in 1..k - 1 : a[i] = q[i]
  BY <1>1, <1>3
<1>6. /\ b \in Seq(Thread) /\ Len(b) = Len(q) - k
      /\ \A i \in 1..Len(q) - k : b[i] = q[i + k]
  <2>1. /\ k + 1 \in Int /\ Len(q) \in Int
        /\ \A i \in k + 1..Len(q) : q[i] \in Thread
    BY <1>1
  <2>2. /\ b \in Seq(Thread)
        /\ Len(b) = IF k + 1 <= Len(q) THEN Len(q) - (k + 1) + 1 ELSE 0
        /\ \A i \in 1..Len(q) - (k + 1) + 1 : b[i] = q[(k + 1) + i - 1]
    BY <1>4, <2>1, SubSeqProperties
  <2>3. Len(b) = Len(q) - k
    BY <1>1, <2>2
  <2>4. ASSUME NEW i \in 1..Len(q) - k
        PROVE  b[i] = q[i + k]
    <3>1. i \in 1..Len(q) - (k + 1) + 1
      BY <1>1
    <3>2. (k + 1) + i - 1 = i + k
      BY <1>1
    <3>3. QED BY <2>2, <3>1, <3>2
  <2>5. QED BY <2>2, <2>3, <2>4
<1>7. PICK r : r = a \o b
  OBVIOUS
<1>8. /\ r \in Seq(Thread) /\ Len(r) = Len(a) + Len(b)
      /\ \A i \in 1..Len(a) + Len(b) : r[i] = IF i <= Len(a) THEN a[i] ELSE b[i - Len(a)]
  BY <1>5, <1>6, <1>7, ConcatProperties
<1>9. Len(a) + Len(b) = Len(q) - 1
  BY <1>1, <1>5, <1>6
<1>10. ASSUME NEW i \in 1..Len(q) - 1
       PROVE  r[i] = IF i < k THEN q[i] ELSE q[i + 1]
  <2>1. CASE i < k
    <3>1. i \in 1..k - 1 /\ i <= Len(a)
      BY <1>1, <1>5, <2>1
    <3>2. QED BY <1>5, <1>8, <1>9, <2>1, <3>1
  <2>2. CASE ~(i < k)
    <3>1. ~(i <= Len(a)) /\ i - Len(a) \in 1..Len(q) - k /\ (i - Len(a)) + k = i + 1
      BY <1>1, <1>5, <2>2
    <3>2. QED BY <1>6, <1>8, <1>9, <2>2, <3>1
  <2>3. QED BY <2>1, <2>2
<1>11. RemoveAt(q, k) = r
  BY <1>3, <1>4, <1>7 DEF RemoveAt
<1>12. QED BY <1>8, <1>9, <1>10, <1>11

LEMMA ListWithout ==
  ASSUME NEW q, NEW set, Lists(q, set), NEW p \in set, p # Main,
         NEW k \in 1..Len(q), q[k] = p
  PROVE  Lists(RemoveAt(q, k), set \ {p}) /\ Len(RemoveAt(q, k)) = Len(q) - 1
<1>1. k \in 1..Len(q) /\ q[k] = p
  OBVIOUS
<1>2. Len(q) \in Nat /\ q \in Seq(Thread) /\ q[Len(q)] = Main
  BY DEF Lists
<1>3. k < Len(q)
  BY <1>1, <1>2
<1>4. PICK r : r = RemoveAt(q, k)
  OBVIOUS
<1>5. /\ r \in Seq(Thread) /\ Len(r) = Len(q) - 1
      /\ \A i \in 1..Len(q) - 1 : r[i] = IF i < k THEN q[i] ELSE q[i + 1]
  BY <1>1, <1>2, <1>4, WithoutOne
<1>6. Len(r) \in Nat \ {0}
  BY <1>1, <1>2, <1>3, <1>5
<1>7. r[Len(r)] = Main
  <2>1. Len(r) \in 1..Len(q) - 1 /\ ~(Len(r) < k) /\ Len(r) + 1 = Len(q)
    BY <1>1, <1>2, <1>3, <1>5
  <2>2. QED BY <1>2, <1>5, <2>1
<1>8. ASSUME NEW i \in 1..Len(r)
      PROVE  \E j \in 1..Len(q) : j # k /\ r[i] = q[j] /\ j = IF i < k THEN i ELSE i + 1
  <2>1. i \in Int /\ k \in Int /\ i \in 1..Len(q) - 1
    BY <1>1, <1>2, <1>5
  <2>2. CASE i < k
    <3>1. i \in 1..Len(q) /\ i # k
      BY <1>2, <2>1, <2>2
    <3>2. r[i] = q[i]
      BY <1>5, <2>1, <2>2
    <3>3. QED BY <2>2, <3>1, <3>2
  <2>3. CASE ~(i < k)
    <3>1. i + 1 \in 1..Len(q) /\ i + 1 # k
      BY <1>2, <2>1, <2>3
    <3>2. r[i] = q[i + 1]
      BY <1>5, <2>1, <2>3
    <3>3. QED BY <2>3, <3>1, <3>2
  <2>4. QED BY <2>2, <2>3
<1>9. ASSUME NEW i \in 1..Len(r), NEW j \in 1..Len(r), r[i] = r[j]
      PROVE  i = j
  <2>1. PICK m \in 1..Len(q) : r[i] = q[m] /\ m = IF i < k THEN i ELSE i + 1
    BY <1>8
  <2>2. PICK n \in 1..Len(q) : r[j] = q[n] /\ n = IF j < k THEN j ELSE j + 1
    BY <1>8
  <2>3. m = n
    BY <1>9, <2>1, <2>2 DEF Lists
  <2>4. i \in Int /\ j \in Int /\ k \in Int
    BY <1>1, <1>2, <1>6
  <2>5. QED BY <2>1, <2>2, <2>3, <2>4
<1>10. ASSUME NEW i \in 1..Len(r)
       PROVE  r[i] \in set \ {p}
  <2>1. PICK j \in 1..Len(q) : j # k /\ r[i] = q[j]
    BY <1>8
  <2>2. q[j] \in set /\ q[j] # q[k]
    BY <1>1, <2>1 DEF Lists
  <2>3. QED BY <1>1, <2>1, <2>2
<1>11. ASSUME NEW x \in set \ {p}
       PROVE  \E i \in 1..Len(r) : r[i] = x
  <2>1. PICK j \in 1..Len(q) : q[j] = x
    BY DEF Lists
  <2>2. CASE j < k
    BY <1>1, <1>2, <1>5, <2>1, <2>2
  <2>3. CASE j > k
    <3>1. j - 1 \in 1..Len(q) - 1 /\ ~(j - 1 < k) /\ (j - 1) + 1 = j
      BY <1>1, <1>2, <2>3
    <3>2. r[j - 1] = x
      BY <1>5, <2>1, <3>1
    <3>3. QED BY <1>5, <3>1, <3>2
  <2>4. j # k
    BY <1>1, <2>1
  <2>5. QED BY <1>1, <1>2, <2>2, <2>3, <2>4
<1>12. IsFiniteSet(set \ {p}) /\ Cardinality(set \ {p}) = Len(r)
  <2>1. IsFiniteSet(set) /\ Cardinality(set) = Len(q)
    BY DEF Lists
  <2>2. IsFiniteSet(set \ {p}) /\ Cardinality(set \ {p}) = Cardinality(set) - 1
    BY <2>1, FS_RemoveElement
  <2>3. QED BY <1>5, <2>1, <2>2
<1>13. /\ \A i, j \in 1..Len(r) : r[i] = r[j] => i = j
       /\ \A i \in 1..Len(r) : r[i] \in set \ {p}
       /\ \A x \in set \ {p} : \E i \in 1..Len(r) : r[i] = x
  BY <1>9, <1>10, <1>11
<1>14. Lists(r, set \ {p})
  BY <1>5, <1>6, <1>7, <1>12, <1>13 DEF Lists
<1>15. QED BY <1>4, <1>5, <1>14
-----------------------------------------------------------------------------
\* The flags.

LEMMA FlagOperators ==
  ASSUME NEW word \in SUBSET Flag
  PROVE  /\ WeakSuspend(word) \in SUBSET Flag
         /\ WeakResume(word) \in SUBSET Flag
         /\ UserSuspend(word) \in SUBSET Flag
         /\ UserResume(word) \in SUBSET Flag
         /\ Kill(word) \in SUBSET Flag
BY DEF Flag, WeakSuspend, WeakResume, UserSuspend, UserResume, Kill, Queued

LEMMA MainStays ==
  ASSUME NEW word \in MainWords
  PROVE  /\ Queued(word) /\ word \in SUBSET Flag
         /\ WeakResume(word) \in MainWords /\ UserResume(word) \in MainWords
         /\ word \cup {"USER_SUSPENDED"} \in MainWords
         /\ "KILLED" \notin word /\ "NEED_KILL_CLEANUP" \notin word
BY DEF MainWords, Queued, Flag, WeakResume, UserResume

\* A thread's word changes, and with it the list.
LEMMA SetFlagsKeeps ==
  ASSUME IInv, NEW p \in Thread, NEW word \in SUBSET Flag, SetFlags(p, word),
         p = Main => word \in MainWords,
         Main \in created'
  PROVE  IInv'
<1>1. running' = [running EXCEPT ![p] = word]
  BY DEF SetFlags
<1>2. running' \in [Thread -> SUBSET Flag] /\ running'[Main] \in MainWords
  BY <1>1, SchedulerAssumption DEF IInv
<1>3. CASE Queued(running[p]) /\ ~Queued(word)
  <2>1. PICK k : k = CHOOSE i \in 1..Len(queue) : queue[i] = p
    OBVIOUS
  <2>2. queue' = RemoveAt(queue, k) /\ num_running_threads' = num_running_threads - 1
    BY <1>3, <2>1 DEF SetFlags, Unlink
  <2>3. QueuedIn(running') = QueuedIn(running) \ {p}
    BY <1>1, <1>3 DEF QueuedIn, IInv
  <2>4. p # Main /\ p \in QueuedIn(running)
    BY <1>3, MainStays DEF QueuedIn
  <2>5. PICK set : set = QueuedIn(running)
    OBVIOUS
  <2>6. Lists(queue, set) /\ p \in set
    BY <2>4, <2>5 DEF IInv
  <2>7. k \in 1..Len(queue) /\ queue[k] = p
    <3>1. \E i \in 1..Len(queue) : queue[i] = p
      BY <2>6 DEF Lists
    <3>2. QED BY <2>1, <3>1
  <2>8. Lists(RemoveAt(queue, k), set \ {p}) /\ Len(RemoveAt(queue, k)) = Len(queue) - 1
    BY <2>4, <2>6, <2>7, ListWithout
  <2>9. Lists(queue', QueuedIn(running')) /\ Len(queue') = Len(queue) - 1
    BY <2>2, <2>3, <2>5, <2>8
  <2>10. QED BY <1>2, <2>2, <2>9 DEF IInv
<1>4. CASE ~Queued(running[p]) /\ Queued(word)
  <2>1. queue' = <<p>> \o queue /\ num_running_threads' = num_running_threads + 1
    BY <1>4 DEF SetFlags, Link
  <2>2. QueuedIn(running') = QueuedIn(running) \cup {p} /\ p \notin QueuedIn(running)
    BY <1>1, <1>4 DEF QueuedIn, IInv
  <2>3. Lists(queue', QueuedIn(running')) /\ Len(queue') = Len(queue) + 1
    BY <2>1, <2>2, ListWithFirst DEF IInv
  <2>4. QED BY <1>2, <2>1, <2>3 DEF IInv
<1>5. CASE Queued(running[p]) <=> Queued(word)
  <2>1. UNCHANGED <<queue, num_running_threads>>
    BY <1>5 DEF SetFlags, lists
  <2>2. QueuedIn(running') = QueuedIn(running)
    BY <1>1, <1>5 DEF QueuedIn, IInv
  <2>3. QED BY <1>2, <2>1, <2>2 DEF IInv
<1>6. QED BY <1>3, <1>4, <1>5

LEMMA Untouched ==
  ASSUME IInv, UNCHANGED <<created, running, queue, num_running_threads>>
  PROVE  IInv'
BY DEF IInv, QueuedIn
-----------------------------------------------------------------------------
LEMMA InitInv ==
  Init => IInv
<1>1. SUFFICES ASSUME Init PROVE IInv
  OBVIOUS
<1>2. running \in [Thread -> SUBSET Flag] /\ running[Main] = {"RUNNING"}
  BY <1>1, SchedulerAssumption DEF Init, Flag
<1>3. QueuedIn(running) = {Main}
  BY <1>1, SchedulerAssumption DEF Init, QueuedIn, Queued
<1>4. IsFiniteSet({Main}) /\ Cardinality({Main}) = 1
  BY FS_Singleton
<1>5. PICK q : q = <<Main>>
  OBVIOUS
<1>6. q \in Seq(Thread) /\ Len(q) = 1 /\ q[1] = Main
  BY <1>5, SchedulerAssumption
<1>7. Lists(q, {Main})
  BY <1>4, <1>6 DEF Lists
<1>8. QED BY <1>1, <1>2, <1>3, <1>5, <1>6, <1>7 DEF Init, IInv, MainWords

LEMMA ProgramStep ==
  ASSUME IInv, NEW p \in Thread, Program(p)
  PROVE  IInv'
<1>1. running[p] \in SUBSET Flag /\ running \in [Thread -> SUBSET Flag] /\ Main \in created
      /\ running[Main] \in MainWords
  BY DEF IInv
<1>2. CASE Block(p)
  BY <1>2, Untouched DEF Block, lists
<1>3. CASE LeaveLine(p)
  <2>1. PICK word : word = running[p] \ {"NEED_KILL_CLEANUP"}
    OBVIOUS
  <2>2. p # Main /\ word \in SUBSET Flag /\ WeakSuspend(word) \in SUBSET Flag
    BY <1>1, <1>3, <2>1, MainStays, FlagOperators DEF LeaveLine
  <2>3. (SetFlags(p, word) \/ SetFlags(p, WeakSuspend(word))) /\ created' = created
    BY <1>3, <2>1 DEF LeaveLine, SwapOut
  <2>4. QED BY <1>1, <2>2, <2>3, SetFlagsKeeps
<1>4. ASSUME NEW q \in Thread, Create(p, q)
      PROVE  IInv'
  <2>1. q # Main /\ Main \in created' /\ SetFlags(q, {"RUNNING"})
    BY <1>1, <1>4 DEF Create
  <2>2. {"RUNNING"} \in SUBSET Flag
    BY DEF Flag
  <2>3. QED BY <2>1, <2>2, SetFlagsKeeps
<1>5. ASSUME NEW q \in Thread, Resume(p, q)
      PROVE  IInv'
  <2>1. SetFlags(q, WeakResume(running[q])) /\ created' = created
    BY <1>5 DEF Resume
  <2>2. QED BY <1>1, <2>1, SetFlagsKeeps, FlagOperators, MainStays
<1>6. ASSUME NEW q \in Thread, Suspend(p, q)
      PROVE  IInv'
  <2>1. SetFlags(q, UserSuspend(running[q])) /\ created' = created /\ q # Main
    BY <1>6 DEF Suspend
  <2>2. QED BY <1>1, <2>1, SetFlagsKeeps, FlagOperators
<1>7. ASSUME NEW q \in Thread, UnSuspend(p, q)
      PROVE  IInv'
  <2>1. SetFlags(q, UserResume(running[q])) /\ created' = created /\ q # Main
    BY <1>7 DEF UnSuspend
  <2>2. QED BY <1>1, <2>1, SetFlagsKeeps, FlagOperators
<1>8. ASSUME NEW q \in Thread, KillOther(p, q)
      PROVE  IInv'
  <2>1. SetFlags(q, Kill(running[q])) /\ created' = created /\ q # Main
    BY <1>8 DEF KillOther
  <2>2. QED BY <1>1, <2>1, SetFlagsKeeps, FlagOperators
<1>9. CASE WaitInLine(p)
  <2>1. /\ SetFlags(p, {"RUNNING", "NEED_KILL_CLEANUP", "SUSPENDED"})
        /\ created' = created /\ p # Main
    BY <1>9 DEF WaitInLine, SwapOut
  <2>2. {"RUNNING", "NEED_KILL_CLEANUP", "SUSPENDED"} \in SUBSET Flag
    BY DEF Flag
  <2>3. QED BY <1>1, <2>1, <2>2, SetFlagsKeeps
<1>10. CASE SuspendSelf(p)
  <2>1. /\ SetFlags(p, {"RUNNING", "USER_SUSPENDED", "SUSPENDED"})
        /\ created' = created /\ p # Main
    BY <1>10 DEF SuspendSelf, SwapOut
  <2>2. {"RUNNING", "USER_SUSPENDED", "SUSPENDED"} \in SUBSET Flag
    BY DEF Flag
  <2>3. QED BY <1>1, <2>1, <2>2, SetFlagsKeeps
<1>11. CASE FreezeMain(p)
  <2>1. SetFlags(Main, running[Main] \cup {"USER_SUSPENDED"}) /\ created' = created
    BY <1>11 DEF FreezeMain
  <2>2. /\ running[Main] \cup {"USER_SUSPENDED"} \in MainWords
        /\ running[Main] \cup {"USER_SUSPENDED"} \in SUBSET Flag
    BY <1>1, MainStays
  <2>3. QED BY <1>1, <2>1, <2>2, SetFlagsKeeps, SchedulerAssumption
<1>12. CASE ThawMain(p)
  <2>1. SetFlags(Main, UserResume(running[Main])) /\ created' = created
    BY <1>12 DEF ThawMain
  <2>2. UserResume(running[Main]) \in MainWords /\ UserResume(running[Main]) \in SUBSET Flag
    BY <1>1, MainStays
  <2>3. QED BY <1>1, <2>1, <2>2, SetFlagsKeeps, SchedulerAssumption
<1>13. CASE End(p)
  <2>1. SetFlags(p, {}) /\ created' = created /\ p # Main
    BY <1>13 DEF End, SwapOut
  <2>2. QED BY <1>1, <2>1, SetFlagsKeeps
<1>14. QED BY <1>2, <1>3, <1>4, <1>5, <1>6, <1>7, <1>8, <1>9, <1>10, <1>11, <1>12, <1>13
           DEF Program

LEMMA SearchStep ==
  ASSUME IInv, Search
  PROVE  IInv'
<1>1. CASE SearchRemovesZombie
  <2>1. at \in Thread /\ "KILLED" \in running[at] /\ SetFlags(at, {}) /\ created' = created
    BY <1>1 DEF SearchRemovesZombie, Zombie
  <2>2. at # Main /\ Main \in created
    BY <2>1, MainStays DEF IInv
  <2>3. QED BY <2>1, <2>2, SetFlagsKeeps
<1>2. CASE SearchInGroup \/ SearchFindsItself \/ SearchFindsThread \/ SearchGoesOn \/ SearchClimbs
  <2>1. UNCHANGED <<created, running, queue, num_running_threads>>
    BY <1>2 DEF SearchInGroup, SearchFindsItself, SearchFindsThread, SearchGoesOn,
                SearchClimbs, lists
  <2>2. QED BY <2>1, Untouched
<1>3. QED BY <1>1, <1>2 DEF Search

LEMMA Step ==
  IInv /\ [Next]_vars => IInv'
<1>1. SUFFICES ASSUME IInv, [Next]_vars PROVE IInv'
  OBVIOUS
<1>2. CASE \E p \in Thread : Yield(p) \/ BecomeReady(p)
  BY <1>1, <1>2, Untouched DEF Yield, BecomeReady, lists
<1>3. CASE Select
  <2>1. UNCHANGED <<created, running, queue, num_running_threads>>
    BY <1>3 DEF Select, SelectInGroup, SelectThread, Deadlock, lists
  <2>2. QED BY <1>1, <2>1, Untouched
<1>4. CASE UNCHANGED vars
  BY <1>1, <1>4, Untouched DEF vars, lists
<1>5. QED BY <1>1, <1>2, <1>3, <1>4, ProgramStep, SearchStep DEF Next

\* The list of all threads holds each thread that can be swapped in, once, and
\* no other; it is as long as num_running_threads says; and the main thread is
\* its last: whoever is woken, suspended, killed or removed, and by whom.
THEOREM QueueAgrees ==
  Spec => []QueueInv
<1>1. IInv => QueueInv
  BY DEF IInv, Lists, QueuedIn, QueueInv
<1>2. QED BY <1>1, InitInv, Step, PTL DEF Spec
-----------------------------------------------------------------------------
\* The tree of groups.

\* S holds the group that x is in, and with every group the one it is in.
IsUp(S, x) ==
  /\ S \subseteq Item
  /\ x # Top => Parent[x] \in S
  /\ \A y \in S \ {Top} : Parent[y] \in S

\* What the assumption on the constants says of each item.
LEMMA ParentType ==
  /\ Top \in Group /\ Main \in Thread /\ Top \in Item
  /\ \A x \in Item : x # Top => Parent[x] \in Group /\ Parent[x] \in Item
  /\ Group \subseteq Item /\ Thread \subseteq Item
  /\ \A x \in Item : x \in Thread <=> x \notin Group
  /\ Null \notin Item
BY SchedulerAssumption DEF Item

\* What an item hands on to what is under it holds for all items.
LEMMA FromTop ==
  ASSUME NEW G \in SUBSET Item, Top \in G,
         \A x \in Item \ {Top} : Parent[x] \in G => x \in G
  PROVE  G = Item
<1>1. PICK B : B = Item \ G
  OBVIOUS
<1>2. B \in SUBSET (Item \ {Top})
  BY <1>1
<1>3. ASSUME B # {} PROVE FALSE
  <2>1. PICK x \in B : Parent[x] \notin B
    BY <1>2, <1>3, SchedulerAssumption
  <2>2. x \in Item \ {Top} /\ Parent[x] \in Item
    BY <1>2, <2>1, ParentType
  <2>3. Parent[x] \in G
    BY <1>1, <2>1, <2>2
  <2>4. QED BY <1>1, <2>1, <2>2, <2>3
<1>4. QED BY <1>1, <1>3

\* There is a function as Above is defined: the least sets that have it all.
LEMMA AboveExists ==
  \E f : f = [x \in Item |-> IF x = Top THEN {} ELSE {Parent[x]} \cup f[Parent[x]]]
<1> DEFINE A(x) == {y \in Item : \A S \in SUBSET Item : IsUp(S, x) => y \in S}
<1>1. \A x \in Item : IsUp(Item, x)
  BY ParentType DEF IsUp
<1>2. \A x \in Item : IsUp(A(x), x)
  BY ParentType DEF IsUp
<1>3. A(Top) = {}
  <2>1. IsUp({}, Top)
    BY DEF IsUp
  <2>2. QED BY <2>1
<1>4. ASSUME NEW x \in Item \ {Top}
      PROVE  A(x) = {Parent[x]} \cup A(Parent[x])
  <2>1. Parent[x] \in Item
    BY ParentType
  <2>2. A(x) \subseteq {Parent[x]} \cup A(Parent[x])
    <3>1. IsUp({Parent[x]} \cup A(Parent[x]), x)
      BY <1>2, <2>1 DEF IsUp
    <3>2. {Parent[x]} \cup A(Parent[x]) \in SUBSET Item
      BY <2>1
    <3>3. QED BY <3>1, <3>2
  <2>3. Parent[x] \in A(x)
    BY <2>1 DEF IsUp
  <2>4. A(Parent[x]) \subseteq A(x)
    <3>1. \A S \in SUBSET Item : IsUp(S, x) => IsUp(S, Parent[x])
      BY <2>1 DEF IsUp
    <3>2. QED BY <3>1
  <2>5. QED BY <2>2, <2>3, <2>4
<1>5. PICK f : f = [x \in Item |-> A(x)]
  OBVIOUS
<1>6. ASSUME NEW x \in Item
      PROVE  A(x) = IF x = Top THEN {} ELSE {Parent[x]} \cup f[Parent[x]]
  <2>1. CASE x = Top
    BY <1>3, <2>1
  <2>2. CASE x # Top
    <3>1. Parent[x] \in Item
      BY <2>2, ParentType
    <3>2. f[Parent[x]] = A(Parent[x])
      BY <1>5, <3>1
    <3>3. QED BY <1>4, <2>2, <3>2
  <2>3. QED BY <2>1, <2>2
<1> HIDE DEF A
<1>7. f = [x \in Item |-> IF x = Top THEN {} ELSE {Parent[x]} \cup f[Parent[x]]]
  BY <1>5, <1>6
<1>8. QED BY <1>7

\* What is above an item: the group it is in, and what is above that.
LEMMA AboveIs ==
  /\ Above[Top] = {}
  /\ \A x \in Item \ {Top} : Above[x] = {Parent[x]} \cup Above[Parent[x]]
<1>1. Above = [x \in Item |-> IF x = Top THEN {} ELSE {Parent[x]} \cup Above[Parent[x]]]
  BY AboveExists, Zenon DEF Above
<1>2. QED BY <1>1, ParentType

\* Only groups are above an item.
LEMMA AboveGroups == \A x \in Item : Above[x] \in SUBSET Group
<1>1. PICK G : G = {x \in Item : Above[x] \subseteq Group}
  OBVIOUS
<1>2. G \in SUBSET Item /\ Top \in G
  BY <1>1, AboveIs, ParentType
<1>3. \A x \in Item \ {Top} : Parent[x] \in G => x \in G
  BY <1>1, AboveIs, ParentType
<1>4. QED BY <1>1, <1>2, <1>3, FromTop

\* What is above something that is above x is above x.
LEMMA AboveAbove == \A x \in Item : \A y \in Above[x] : Above[y] \subseteq Above[x]
<1>1. PICK G : G = {x \in Item : \A y \in Above[x] : Above[y] \subseteq Above[x]}
  OBVIOUS
<1>2. G \in SUBSET Item /\ Top \in G
  BY <1>1, AboveIs, ParentType
<1>3. \A x \in Item \ {Top} : Parent[x] \in G => x \in G
  BY <1>1, AboveIs, ParentType
<1>4. QED BY <1>1, <1>2, <1>3, FromTop

\* With a group, its own group is above.
LEMMA ParentAbove == \A x \in Item : \A y \in Above[x] : y # Top => Parent[y] \in Above[x]
BY AboveAbove, AboveIs, AboveGroups, ParentType

\* The groups have no cycle.
LEMMA NotAboveItself == \A x \in Item : x \notin Above[x]
<1>1. PICK G : G = {x \in Item : x \notin Above[x]}
  OBVIOUS
<1>2. G \in SUBSET Item /\ Top \in G
  BY <1>1, AboveIs, ParentType
<1>3. ASSUME NEW x \in Item \ {Top}, Parent[x] \in G PROVE x \in G
  <2>1. Parent[x] \in Item /\ Above[x] = {Parent[x]} \cup Above[Parent[x]]
    BY AboveIs, ParentType
  <2>2. ASSUME x \in Above[x] PROVE FALSE
    <3>1. x # Parent[x]
      BY <1>1, <1>3, <2>2
    <3>2. x \in Above[Parent[x]]
      BY <2>1, <2>2, <3>1
    <3>3. Parent[x] \in Above[Parent[x]]
      BY <2>1, <3>2, ParentAbove
    <3>4. QED BY <1>1, <1>3, <3>3
  <2>3. QED BY <1>1, <2>2
<1>4. QED BY <1>1, <1>2, <1>3, FromTop

\* Every way up ends at the top.
LEMMA TopAbove == \A x \in Item \ {Top} : Top \in Above[x]
<1>1. PICK G : G = {x \in Item : x = Top \/ Top \in Above[x]}
  OBVIOUS
<1>2. G \in SUBSET Item /\ Top \in G
  BY <1>1, ParentType
<1>3. \A x \in Item \ {Top} : Parent[x] \in G => x \in G
  BY <1>1, AboveIs
<1>4. QED BY <1>1, <1>2, <1>3, FromTop

\* The way up from x: any two of its items are one above the other.
Way(x) == {x} \cup Above[x]

\* It is a line: no way up forks.
LEMMA WayOrdered ==
  \A x \in Item : \A y, z \in Way(x) : y = z \/ y \in Above[z] \/ z \in Above[y]
<1>1. PICK G : G = {x \in Item : \A y, z \in Way(x) : y = z \/ y \in Above[z] \/ z \in Above[y]}
  OBVIOUS
<1>2. G \in SUBSET Item /\ Top \in G
  BY <1>1, AboveIs, ParentType DEF Way
<1>3. \A x \in Item \ {Top} : Parent[x] \in G => x \in G
  <2>1. \A x \in Item \ {Top} : Way(x) = {x} \cup Way(Parent[x]) /\ Above[x] = Way(Parent[x])
    BY AboveIs DEF Way
  <2>2. QED BY <1>1, <2>1
<1>4. QED BY <1>1, <1>2, <1>3, FromTop

\* Each group above x is the parent of one item on the way up.
LEMMA WayChild ==
  ASSUME NEW x \in Item, NEW g \in Above[x]
  PROVE  /\ ChildToward(g, x) \in Way(x) \ {Top} /\ ChildToward(g, x) \in Item
         /\ Parent[ChildToward(g, x)] = g
         /\ \A y \in Way(x) \ {Top} : Parent[y] = g => y = ChildToward(g, x)
<1>1. \A z \in Item : \A h \in Above[z] : \E y \in Way(z) \ {Top} : Parent[y] = h
  <2>1. PICK G : G = {z \in Item : \A h \in Above[z] : \E y \in Way(z) \ {Top} : Parent[y] = h}
    OBVIOUS
  <2>2. G \in SUBSET Item /\ Top \in G
    BY <2>1, AboveIs, ParentType
  <2>3. \A z \in Item \ {Top} : Parent[z] \in G => z \in G
    BY <2>1, AboveIs DEF Way
  <2>4. QED BY <2>1, <2>2, <2>3, FromTop
<1>2. Way(x) \subseteq Item
  BY AboveGroups, ParentType DEF Way
<1>3. ASSUME NEW y \in Way(x) \ {Top}, NEW z \in Way(x) \ {Top}, Parent[y] = g, Parent[z] = g,
             y \in Above[z]
      PROVE  FALSE
  <2>1. y \in Item /\ z \in Item /\ g \in Item
    BY <1>2, <1>3, AboveGroups, ParentType
  <2>2. Above[z] = {g} \cup Above[g] /\ Above[y] = {g} \cup Above[g]
    BY <1>3, <2>1, AboveIs
  <2>3. y \notin Above[y]
    BY <2>1, NotAboveItself
  <2>4. QED BY <1>3, <2>2, <2>3
<1>4. \A y, z \in Way(x) \ {Top} : Parent[y] = g /\ Parent[z] = g => y = z
  BY <1>3, WayOrdered
<1>5. PICK c : c = ChildToward(g, x)
  OBVIOUS
<1>6. c \in Way(x) \ {Top} /\ Parent[c] = g
  <2>1. \E y \in Way(x) : y # Top /\ Parent[y] = g
    BY <1>1
  <2>2. c = CHOOSE y \in Way(x) : y # Top /\ Parent[y] = g
    BY <1>5 DEF ChildToward, Way
  <2>3. QED BY <2>1, <2>2
<1>7. QED BY <1>2, <1>4, <1>5, <1>6
-----------------------------------------------------------------------------
\* The list of a group.

\* The links go through the set in the order of q, from fst on.
Chain(n, q, set, fst, nxt, prv) ==
  /\ \A i, j \in 1..n : q[i] = q[j] => i = j
  /\ \A x \in set : \E i \in 1..n : q[i] = x
  /\ fst = IF n = 0 THEN Null ELSE q[1]
  /\ \A i \in 1..n : nxt[q[i]] = IF i = n THEN Null ELSE q[i + 1]
  /\ \A i \in 1..n : prv[q[i]] = IF i = 1 THEN Null ELSE q[i - 1]

\* The links list just this set.
Listed(set, fst, nxt, prv) ==
  /\ set \subseteq Item
  /\ \E n \in Nat : \E q \in [1..n -> set] : Chain(n, q, set, fst, nxt, prv)

\* What the links of a listed set say.
Linked(set, fst, nxt, prv) ==
  /\ fst = Null <=> set = {}
  /\ fst # Null => fst \in set /\ prv[fst] = Null
  /\ \A x \in set : nxt[x] = Null \/ (nxt[x] \in set /\ prv[nxt[x]] = x)
  /\ \A x \in set : IF prv[x] = Null THEN fst = x ELSE prv[x] \in set /\ nxt[prv[x]] = x
  /\ \A x \in set : nxt[x] # x /\ prv[x] # x
  /\ \A x \in set : nxt[x] = Null /\ prv[x] = Null => set = {x}

\* Why they do: an item and its neighbours in the chain.
LEMMA ListedLinks ==
  ASSUME NEW set, NEW fst, NEW nxt, NEW prv, Listed(set, fst, nxt, prv)
  PROVE  Linked(set, fst, nxt, prv)
<1>1. PICK n \in Nat : \E q \in [1..n -> set] : Chain(n, q, set, fst, nxt, prv)
  BY DEF Listed
<1>2. PICK q \in [1..n -> set] : Chain(n, q, set, fst, nxt, prv)
  BY <1>1
<1>3. Null \notin set
  BY ParentType DEF Listed
<1>4. \A i \in 1..n : q[i] \in set /\ q[i] # Null
  BY <1>3
<1>5. (fst = Null <=> set = {}) /\ (fst # Null => fst \in set /\ prv[fst] = Null)
  <2>1. CASE n = 0
    BY <1>2, <2>1 DEF Chain
  <2>2. CASE n # 0
    <3>1. 1 \in 1..n /\ fst = q[1]
      BY <1>2, <2>2 DEF Chain
    <3>2. QED BY <1>2, <1>4, <3>1 DEF Chain
  <2>3. QED BY <2>1, <2>2
<1>6. ASSUME NEW x \in set
      PROVE  /\ nxt[x] = Null \/ (nxt[x] \in set /\ prv[nxt[x]] = x)
             /\ IF prv[x] = Null THEN fst = x ELSE prv[x] \in set /\ nxt[prv[x]] = x
             /\ nxt[x] # x /\ prv[x] # x
             /\ nxt[x] = Null /\ prv[x] = Null => set = {x}
  <2>1. PICK i \in 1..n : q[i] = x
    BY <1>2 DEF Chain
  <2>2. nxt[x] = Null \/ (nxt[x] \in set /\ prv[nxt[x]] = x /\ nxt[x] # x)
    <3>1. CASE i = n
      <4>1. nxt[q[i]] = Null
        BY <1>2, <3>1 DEF Chain
      <4>2. QED BY <2>1, <4>1
    <3>2. CASE i # n
      <4>1. i + 1 \in 1..n /\ i + 1 # 1 /\ (i + 1) - 1 = i /\ i + 1 # i
        BY <3>2
      <4>2. nxt[x] = q[i + 1] /\ prv[q[i + 1]] = q[(i + 1) - 1] /\ q[i + 1] # q[i]
        BY <1>2, <2>1, <3>2, <4>1 DEF Chain
      <4>3. QED BY <1>4, <2>1, <4>1, <4>2
    <3>3. QED BY <3>1, <3>2
  <2>3. (IF prv[x] = Null THEN fst = x ELSE prv[x] \in set /\ nxt[prv[x]] = x) /\ prv[x] # x
    <3>1. CASE i = 1
      BY <1>2, <1>3, <2>1, <3>1 DEF Chain
    <3>2. CASE i # 1
      <4>1. i - 1 \in 1..n /\ i - 1 # n /\ (i - 1) + 1 = i /\ i - 1 # i
        BY <3>2
      <4>2. prv[x] = q[i - 1] /\ nxt[q[i - 1]] = q[(i - 1) + 1] /\ q[i - 1] # q[i]
        BY <1>2, <2>1, <3>2, <4>1 DEF Chain
      <4>3. QED BY <1>4, <2>1, <4>1, <4>2
    <3>3. QED BY <3>1, <3>2
  <2>4. nxt[x] # x
    BY <1>3, <2>2
  <2>5. ASSUME nxt[x] = Null, prv[x] = Null PROVE set = {x}
    <3>1. i = n
      <4>1. CASE i # n
        <5>1. i + 1 \in 1..n /\ nxt[q[i]] = q[i + 1]
          BY <1>2, <4>1 DEF Chain
        <5>2. QED BY <1>4, <2>1, <2>5, <5>1
      <4>2. QED BY <4>1
    <3>2. i = 1
      <4>1. CASE i # 1
        <5>1. i - 1 \in 1..n /\ prv[q[i]] = q[i - 1]
          BY <1>2, <4>1 DEF Chain
        <5>2. QED BY <1>4, <2>1, <2>5, <5>1
      <4>2. QED BY <4>1
    <3>3. \A j \in 1..n : j = 1
      BY <3>1, <3>2
    <3>4. QED BY <1>2, <2>1, <3>2, <3>3 DEF Chain
  <2>6. QED BY <2>2, <2>3, <2>4, <2>5
<1>7. QED BY <1>5, <1>6 DEF Linked

\* A list depends on the links of its own items only.
LEMMA ListedSame ==
  ASSUME NEW set, NEW fst, NEW nxt, NEW prv, NEW nxt2, NEW prv2,
         Listed(set, fst, nxt, prv),
         \A x \in set : nxt2[x] = nxt[x] /\ prv2[x] = prv[x]
  PROVE  Listed(set, fst, nxt2, prv2)
<1>1. PICK n \in Nat : \E q \in [1..n -> set] : Chain(n, q, set, fst, nxt, prv)
  BY DEF Listed
<1>2. PICK q \in [1..n -> set] : Chain(n, q, set, fst, nxt, prv)
  BY <1>1
<1>3. \A i \in 1..n : nxt2[q[i]] = nxt[q[i]] /\ prv2[q[i]] = prv[q[i]]
  OBVIOUS
<1>4. Chain(n, q, set, fst, nxt2, prv2)
  BY <1>2, <1>3 DEF Chain
<1>5. QED BY <1>4 DEF Listed

\* An item goes to the front.
LEMMA ListedPush ==
  ASSUME NEW set, NEW fst, NEW nxt, NEW prv, NEW nxt2, NEW prv2, NEW x \in Item \ set,
         Listed(set, fst, nxt, prv),
         nxt2[x] = fst, prv2[x] = Null,
         \A y \in set : nxt2[y] = nxt[y] /\ prv2[y] = IF y = fst THEN x ELSE prv[y]
  PROVE  Listed(set \cup {x}, x, nxt2, prv2)
<1>1. PICK n \in Nat : \E q \in [1..n -> set] : Chain(n, q, set, fst, nxt, prv)
  BY DEF Listed
<1>2. PICK q \in [1..n -> set] : Chain(n, q, set, fst, nxt, prv)
  BY <1>1
<1>3. PICK m \in Nat : m = n + 1
  OBVIOUS
<1>4. PICK r : r = [i \in 1..m |-> IF i = 1 THEN x ELSE q[i - 1]]
  OBVIOUS
<1>5. \A i \in 2..m : i - 1 \in 1..n /\ q[i - 1] \in set /\ r[i] = q[i - 1]
  BY <1>3, <1>4
<1>6. 1 \in 1..m /\ r[1] = x /\ \A i \in 1..m : i = 1 \/ i \in 2..m
  BY <1>3, <1>4
<1>7. \A i \in 1..m : (IF i = 1 THEN x ELSE q[i - 1]) \in set \cup {x}
  BY <1>5, <1>6
<1>8. r \in [1..m -> set \cup {x}]
  BY <1>4, <1>7
<1>9. \A i, j \in 1..m : r[i] = r[j] => i = j
  <2>1. \A i, j \in 2..m : r[i] = r[j] => i - 1 = j - 1
    BY <1>2, <1>5 DEF Chain
  <2>2. \A i \in 2..m : r[i] # x
    BY <1>5
  <2>3. QED BY <1>6, <2>1, <2>2
<1>10. ASSUME NEW y \in set \cup {x} PROVE \E i \in 1..m : r[i] = y
  <2>1. CASE y = x
    BY <1>6, <2>1
  <2>2. CASE y \in set
    <3>1. PICK i \in 1..n : q[i] = y
      BY <1>2, <2>2 DEF Chain
    <3>2. i + 1 \in 2..m /\ i + 1 \in 1..m /\ (i + 1) - 1 = i
      BY <1>3
    <3>3. QED BY <1>5, <3>1, <3>2
  <2>3. QED BY <2>1, <2>2
<1>11. x = IF m = 0 THEN Null ELSE r[1]
  BY <1>3, <1>6
<1>12. ASSUME NEW i \in 1..m
       PROVE  nxt2[r[i]] = IF i = m THEN Null ELSE r[i + 1]
  <2>1. CASE i = 1
    <3>1. nxt2[r[i]] = fst
      BY <1>6, <2>1
    <3>2. CASE n = 0
      BY <1>2, <1>3, <2>1, <3>1, <3>2 DEF Chain
    <3>3. CASE n # 0
      <4>1. i # m /\ i + 1 \in 2..m /\ (i + 1) - 1 = 1
        BY <1>3, <2>1, <3>3
      <4>2. r[i + 1] = q[1]
        BY <1>5, <4>1
      <4>3. QED BY <1>2, <3>1, <3>3, <4>1, <4>2 DEF Chain
    <3>4. QED BY <3>2, <3>3
  <2>2. CASE i # 1
    <3>1. PICK j \in 1..n : i = j + 1 /\ r[i] = q[j] /\ q[j] \in set
      BY <1>3, <1>5, <1>6, <2>2
    <3>2. nxt2[r[i]] = IF j = n THEN Null ELSE q[j + 1]
      BY <1>2, <3>1 DEF Chain
    <3>3. CASE j = n
      BY <1>3, <3>1, <3>2, <3>3
    <3>4. CASE j # n
      <4>1. i # m /\ i + 1 \in 2..m /\ (i + 1) - 1 = j + 1
        BY <1>3, <3>1, <3>4
      <4>2. QED BY <1>5, <3>2, <3>4, <4>1
    <3>5. QED BY <3>3, <3>4
  <2>3. QED BY <2>1, <2>2
<1>13. ASSUME NEW i \in 1..m
       PROVE  prv2[r[i]] = IF i = 1 THEN Null ELSE r[i - 1]
  <2>1. CASE i = 1
    BY <1>6, <2>1
  <2>2. CASE i # 1
    <3>1. PICK j \in 1..n : i = j + 1 /\ r[i] = q[j] /\ q[j] \in set /\ i - 1 = j
      BY <1>3, <1>5, <1>6, <2>2
    <3>2. prv2[r[i]] = IF q[j] = fst THEN x ELSE prv[q[j]]
      BY <3>1
    <3>3. 1 \in 1..n /\ fst = q[1]
      BY <1>2, <3>1 DEF Chain
    <3>4. CASE j = 1
      BY <1>6, <2>2, <3>1, <3>2, <3>3, <3>4
    <3>5. CASE j # 1
      <4>1. q[j] # fst /\ prv[q[j]] = q[j - 1]
        BY <1>2, <3>1, <3>3, <3>5 DEF Chain
      <4>2. j \in 2..m /\ r[j] = q[j - 1]
        BY <1>3, <1>5, <3>5
      <4>3. QED BY <2>2, <3>1, <3>2, <4>1, <4>2
    <3>6. QED BY <3>4, <3>5
  <2>3. QED BY <2>1, <2>2
<1>14. Chain(m, r, set \cup {x}, x, nxt2, prv2)
  BY <1>9, <1>10, <1>11, <1>12, <1>13 DEF Chain
<1>15. set \cup {x} \subseteq Item
  BY DEF Listed
<1>16. QED BY <1>8, <1>14, <1>15 DEF Listed

\* An item is taken out.
LEMMA ListedDrop ==
  ASSUME NEW set, NEW fst, NEW fst2, NEW nxt, NEW prv, NEW nxt2, NEW prv2, NEW x \in set,
         Listed(set, fst, nxt, prv),
         fst2 = IF fst = x THEN nxt[x] ELSE fst,
         \A y \in set \ {x} : /\ nxt2[y] = IF nxt[y] = x THEN nxt[x] ELSE nxt[y]
                              /\ prv2[y] = IF prv[y] = x THEN prv[x] ELSE prv[y]
  PROVE  Listed(set \ {x}, fst2, nxt2, prv2)
<1>1. PICK n \in Nat : \E q \in [1..n -> set] : Chain(n, q, set, fst, nxt, prv)
  BY DEF Listed
<1>2. PICK q \in [1..n -> set] : Chain(n, q, set, fst, nxt, prv)
  BY <1>1
<1>3. PICK k \in 1..n : q[k] = x
  BY <1>2 DEF Chain
<1>4. PICK m \in Nat : m = n - 1
  BY <1>3
<1>5. PICK r : r = [i \in 1..m |-> IF i < k THEN q[i] ELSE q[i + 1]]
  OBVIOUS
<1>6. ASSUME NEW i \in 1..m
      PROVE  \E j \in 1..n : j # k /\ r[i] = q[j] /\ j = IF i < k THEN i ELSE i + 1
  <2>1. CASE i < k
    BY <1>3, <1>4, <1>5, <2>1
  <2>2. CASE ~(i < k)
    <3>1. i + 1 \in 1..n /\ i + 1 # k
      BY <1>3, <1>4, <2>2
    <3>2. r[i] = q[i + 1]
      BY <1>5, <2>2
    <3>3. QED BY <2>2, <3>1, <3>2
  <2>3. QED BY <2>1, <2>2

\* Where the items are now.
<1>7. ASSUME NEW j \in 1..n, j # k
      PROVE  \E i \in 1..m : r[i] = q[j] /\ i = IF j < k THEN j ELSE j - 1
  <2>1. CASE j < k
    BY <1>3, <1>4, <1>5, <2>1
  <2>2. CASE ~(j < k)
    <3>1. j - 1 \in 1..m /\ ~(j - 1 < k) /\ (j - 1) + 1 = j
      BY <1>3, <1>4, <1>7, <2>2
    <3>2. r[j - 1] = q[j]
      BY <1>5, <3>1
    <3>3. QED BY <2>2, <3>1, <3>2
  <2>3. QED BY <2>1, <2>2
<1>8. \A i \in 1..m : r[i] \in set \ {x}
  <2>1. ASSUME NEW i \in 1..m PROVE r[i] \in set \ {x}
    <3>1. PICK j \in 1..n : j # k /\ r[i] = q[j]
      BY <1>6
    <3>2. q[j] # q[k]
      BY <1>2, <3>1 DEF Chain
    <3>3. QED BY <1>3, <3>1, <3>2
  <2>2. QED BY <2>1
<1>9. r \in [1..m -> set \ {x}]
  BY <1>5, <1>8
<1>10. ASSUME NEW i \in 1..m, NEW j \in 1..m, r[i] = r[j] PROVE i = j
  <2>1. PICK a \in 1..n : r[i] = q[a] /\ a = IF i < k THEN i ELSE i + 1
    BY <1>6
  <2>2. PICK b \in 1..n : r[j] = q[b] /\ b = IF j < k THEN j ELSE j + 1
    BY <1>6
  <2>3. q[a] = q[b]
    BY <1>10, <2>1, <2>2
  <2>4. a = b
    BY <1>2, <2>3 DEF Chain
  <2>5. QED BY <2>1, <2>2, <2>4
<1>11. ASSUME NEW y \in set \ {x} PROVE \E i \in 1..m : r[i] = y
  <2>1. PICK j \in 1..n : q[j] = y
    BY <1>2 DEF Chain
  <2>2. j # k
    BY <1>3, <2>1
  <2>3. QED BY <1>7, <2>1, <2>2
<1>12. fst2 = IF m = 0 THEN Null ELSE r[1]
  <2>1. 1 \in 1..n /\ fst = q[1] /\ (fst = x <=> k = 1)
    BY <1>2, <1>3 DEF Chain
  <2>2. nxt[x] = IF k = n THEN Null ELSE q[k + 1]
    BY <1>2, <1>3 DEF Chain
  <2>3. CASE k = 1
    <3>1. fst2 = IF n = 1 THEN Null ELSE q[1 + 1]
      BY <2>1, <2>2, <2>3
    <3>2. CASE n = 1
      BY <1>4, <3>1, <3>2
    <3>3. CASE n # 1
      <4>1. 1 \in 1..m /\ ~(1 < k) /\ m # 0
        BY <1>3, <1>4, <2>3, <3>3
      <4>2. QED BY <1>5, <3>1, <3>3, <4>1
    <3>4. QED BY <3>2, <3>3
  <2>4. CASE k # 1
    <3>1. 1 \in 1..m /\ 1 < k /\ m # 0
      BY <1>3, <1>4, <2>4
    <3>2. QED BY <1>5, <2>1, <2>4, <3>1
  <2>5. QED BY <2>3, <2>4
<1>13. ASSUME NEW i \in 1..m
       PROVE  nxt2[r[i]] = IF i = m THEN Null ELSE r[i + 1]
  <2>1. PICK j \in 1..n : j # k /\ r[i] = q[j] /\ j = IF i < k THEN i ELSE i + 1
    BY <1>6
  <2>2. q[j] \in set \ {x} /\ nxt[q[j]] = (IF j = n THEN Null ELSE q[j + 1]) /\ x \in Item
    BY <1>2, <1>8, <2>1 DEF Chain, Listed
  <2>3. nxt2[r[i]] = IF nxt[q[j]] = x THEN nxt[x] ELSE nxt[q[j]]
    BY <2>1, <2>2
  <2>4. Null # x
    BY <2>2, ParentType
  <2>5. CASE j = n
    <3>1. i = m
      BY <1>3, <1>4, <2>1, <2>5
    <3>2. QED BY <2>2, <2>3, <2>4, <2>5, <3>1
  <2>6. CASE j # n /\ j + 1 = k
    <3>1. nxt2[r[i]] = IF k = n THEN Null ELSE q[k + 1]
      BY <1>2, <1>3, <2>2, <2>3, <2>6 DEF Chain
    <3>2. i < k /\ i + 1 = k /\ (k = n <=> i = m)
      BY <1>3, <1>4, <2>1, <2>6
    <3>3. i # m => i + 1 \in 1..m /\ ~(i + 1 < k) /\ (i + 1) + 1 = k + 1
      BY <1>3, <1>4, <3>2
    <3>4. i # m => r[i + 1] = q[k + 1]
      BY <1>5, <3>3
    <3>5. QED BY <3>1, <3>2, <3>4
  <2>7. CASE j # n /\ j + 1 # k
    <3>1. j + 1 \in 1..n
      BY <2>7
    <3>2. q[j + 1] # x
      BY <1>2, <1>3, <2>7, <3>1 DEF Chain
    <3>3. nxt2[r[i]] = q[j + 1]
      BY <2>2, <2>3, <2>7, <3>2
    <3>4. PICK l \in 1..m : r[l] = q[j + 1] /\ l = IF j + 1 < k THEN j + 1 ELSE (j + 1) - 1
      BY <1>7, <2>7, <3>1
    <3>5. l = i + 1 /\ i # m
      BY <1>3, <1>4, <2>1, <2>7, <3>4
    <3>6. QED BY <3>3, <3>4, <3>5
  <2>8. QED BY <2>5, <2>6, <2>7
<1>14. ASSUME NEW i \in 1..m
       PROVE  prv2[r[i]] = IF i = 1 THEN Null ELSE r[i - 1]
  <2>1. PICK j \in 1..n : j # k /\ r[i] = q[j] /\ j = IF i < k THEN i ELSE i + 1
    BY <1>6
  <2>2. q[j] \in set \ {x} /\ prv[q[j]] = (IF j = 1 THEN Null ELSE q[j - 1]) /\ x \in Item
    BY <1>2, <1>8, <2>1 DEF Chain, Listed
  <2>3. prv2[r[i]] = IF prv[q[j]] = x THEN prv[x] ELSE prv[q[j]]
    BY <2>1, <2>2
  <2>4. Null # x
    BY <2>2, ParentType
  <2>5. CASE j = 1
    <3>1. i = 1
      BY <1>3, <1>4, <2>1, <2>5
    <3>2. QED BY <2>2, <2>3, <2>4, <2>5, <3>1
  <2>6. CASE j # 1 /\ j - 1 = k
    <3>1. prv2[r[i]] = IF k = 1 THEN Null ELSE q[k - 1]
      BY <1>2, <1>3, <2>2, <2>3, <2>6 DEF Chain
    <3>2. i = k
      BY <1>3, <1>4, <2>1, <2>6
    <3>3. i # 1 => i - 1 \in 1..m /\ i - 1 < k
      BY <1>3, <1>4, <3>2
    <3>4. i # 1 => r[i - 1] = q[k - 1]
      BY <1>5, <3>2, <3>3
    <3>5. QED BY <3>1, <3>2, <3>4
  <2>7. CASE j # 1 /\ j - 1 # k
    <3>1. j - 1 \in 1..n
      BY <2>7
    <3>2. q[j - 1] # x
      BY <1>2, <1>3, <2>7, <3>1 DEF Chain
    <3>3. prv2[r[i]] = q[j - 1]
      BY <2>2, <2>3, <2>7, <3>2
    <3>4. PICK l \in 1..m : r[l] = q[j - 1] /\ l = IF j - 1 < k THEN j - 1 ELSE (j - 1) - 1
      BY <1>7, <2>7, <3>1
    <3>5. l = i - 1 /\ i # 1
      BY <1>3, <1>4, <2>1, <2>7, <3>4
    <3>6. QED BY <3>3, <3>4, <3>5
  <2>8. QED BY <2>5, <2>6, <2>7
<1>15. Chain(m, r, set \ {x}, fst2, nxt2, prv2)
  BY <1>10, <1>11, <1>12, <1>13, <1>14 DEF Chain
<1>16. set \ {x} \subseteq Item
  BY DEF Listed
<1>17. QED BY <1>9, <1>15, <1>16 DEF Listed
-----------------------------------------------------------------------------
\* The lists of all groups.

\* What is to be in the list of g.
Under(g) == {x \in Item \ {Top} : Parent[x] = g /\ HasToRun(x)}

\* Where links may lead.
LinkTypes ==
  /\ next \in [Item -> Item \cup {Null}] /\ prev \in [Item -> Item \cup {Null}]
  /\ first \in [Group -> Item \cup {Null}] /\ current \in [Group -> Item \cup {Null}]

\* Each group lists what is under it and has to run, its current item is one
\* of these, and what is in no list has no links.
TreeIs ==
  /\ LinkTypes
  /\ \A g \in Group : Listed(Under(g), first[g], next, prev)
  /\ \A g \in Group : IF first[g] = Null THEN current[g] = Null ELSE current[g] \in Under(g)
  /\ \A x \in Item : x = Top \/ ~HasToRun(x) => next[x] = Null /\ prev[x] = Null

\* What is linked and unlinked together: x, and the groups above it, up to the
\* first one that is not in the set.
Part(S, x) ==
  {x} \cup {g \in Above[x] \ {Top} : \A h \in Above[x] : h = g \/ g \in Above[h] => h \in S}

\* Such a part is an unbroken stretch of the way up from x.
LEMMA PartOfWay ==
  ASSUME NEW x \in Item \ {Top}, NEW S
  PROVE  /\ x \in Part(S, x) /\ Part(S, x) \subseteq Item \ {Top}
         /\ \A y \in Part(S, x) : y = x \/ (y \in Group /\ y \in S)
         /\ \A y \in Part(S, x) : Parent[y] \in Above[x] /\ ChildToward(Parent[y], x) = y
         /\ \A g \in Part(S, x) \ {x} : \E y \in Part(S, x) : Parent[y] = g
         /\ \A y \in Part(S, x) : Parent[y] \in S => Parent[y] = Top \/ Parent[y] \in Part(S, x)
<1>1. PICK N : N = Part(S, x)
  OBVIOUS
<1>2. N \subseteq Way(x) \ {Top} /\ Way(x) \subseteq Item /\ Above[x] \subseteq Group
  BY <1>1, AboveGroups, ParentType DEF Part, Way
<1>8. \A y \in N \ {x} : \A h \in Above[x] : h = y \/ y \in Above[h] => h \in S
  BY <1>1 DEF Part
<1>3. \A y \in N : y = x \/ (y \in Group /\ y \in S)
  BY <1>1, <1>2 DEF Part
<1>4. ASSUME NEW y \in N
      PROVE  Parent[y] \in Above[x] /\ ChildToward(Parent[y], x) = y
  <2>1. Parent[y] \in Above[x]
    BY <1>2, AboveIs, ParentAbove DEF Way
  <2>2. QED BY <1>2, <2>1, WayChild
<1>5. ASSUME NEW g \in N \ {x}
      PROVE  \E y \in N : Parent[y] = g
  <2>1. g \in Above[x]
    BY <1>1 DEF Part
  <2>2. PICK c : c \in Way(x) \ {Top} /\ c \in Item /\ Parent[c] = g
    BY <2>1, WayChild
  <2>3. CASE c = x
    BY <1>1, <2>2, <2>3 DEF Part
  <2>4. CASE c # x
    <3>1. c \in Above[x] \ {Top} /\ g \in Above[c]
      BY <2>2, <2>4, AboveIs DEF Way
    <3>2. ASSUME NEW h \in Above[x], h = c \/ c \in Above[h]
          PROVE  h \in S
      <4>1. g \in Above[h]
        BY <1>2, <3>1, <3>2, AboveAbove, ParentType
      <4>2. QED BY <1>1, <4>1 DEF Part
    <3>3. c \in N
      BY <1>1, <3>1, <3>2 DEF Part
    <3>4. QED BY <2>2, <3>3
  <2>5. QED BY <2>3, <2>4
<1>6. ASSUME NEW y \in N, Parent[y] \in S, Parent[y] # Top
      PROVE  Parent[y] \in N
  <2>1. PICK g : g = Parent[y]
    OBVIOUS
  <2>2. g \in Above[x] \ {Top} /\ g \in Item /\ y \in Way(x) /\ y \in Item \ {Top}
    BY <1>2, <1>4, <1>6, <2>1, ParentType
  <2>3. ASSUME NEW h \in Above[x], g \in Above[h]
        PROVE  h \in S
    <3>1. h \in Item /\ h \in Way(x)
      BY <1>2, ParentType DEF Way
    <3>2. h \notin Above[y]
      <4>1. Above[y] = {g} \cup Above[g]
        BY <2>1, <2>2, AboveIs
      <4>2. h # g
        BY <2>2, <2>3, NotAboveItself
      <4>3. h \in Above[g] => g \in Above[g]
        BY <2>2, <2>3, AboveAbove
      <4>4. QED BY <2>2, <4>1, <4>2, <4>3, NotAboveItself
    <3>3. h = y \/ y \in Above[h]
      BY <2>2, <3>1, <3>2, WayOrdered
    <3>4. y # x
      BY <3>2
    <3>5. QED BY <1>8, <3>3, <3>4
  <2>4. QED BY <1>1, <1>6, <2>1, <2>2, <2>3 DEF Part
<1>7. QED BY <1>1, <1>2, <1>3, <1>4, <1>5, <1>6 DEF Part

\* Both walks of the scheduler up the tree take such a part.
LEMMA LinkParts ==
  ASSUME NEW p \in Thread
  PROVE  /\ LinkedWith(p) = Part({h \in Group : current[h] = Null}, p)
         /\ UnlinkedWith(p) = Part({h \in Group : HoldsOnly(h, p)}, p)
         /\ p \in Item \ {Top}
BY AboveGroups, ParentType DEF LinkedWith, UnlinkedWith, Part

\* The links of each group.
LEMMA GroupLinks ==
  ASSUME TreeIs, NEW g \in Group
  PROVE  /\ Linked(Under(g), first[g], next, prev)
         /\ first[g] = Null <=> Under(g) = {}
         /\ first[g] = Null <=> current[g] = Null
         /\ \A x \in Under(g) : x \in Item \ {Top} /\ Parent[x] = g /\ HasToRun(x) /\ x # Null
<1>1. Listed(Under(g), first[g], next, prev)
  BY DEF TreeIs
<1>2. Linked(Under(g), first[g], next, prev)
  BY <1>1, ListedLinks
<1>3. \A x \in Under(g) : x \in Item \ {Top} /\ Parent[x] = g /\ HasToRun(x) /\ x # Null
  BY ParentType DEF Under
<1>4. QED BY <1>2, <1>3 DEF Linked, TreeIs

\* Whatever has to run is listed in its group, and that in the group above.
LEMMA UpLinked ==
  ASSUME TreeIs, NEW x \in Item \ {Top}, HasToRun(x), NEW g \in Above[x]
  PROVE  /\ ChildToward(g, x) \in Under(g)
         /\ first[g] # Null
<1>1. PICK G : G = {y \in Item : y = Top \/ ~HasToRun(y) \/ \A z \in Way(y) \ {Top} : HasToRun(z)}
  OBVIOUS
<1>2. G \in SUBSET Item /\ Top \in G
  BY <1>1, ParentType
<1>3. ASSUME NEW y \in Item \ {Top}, Parent[y] \in G PROVE y \in G
  <2>1. SUFFICES ASSUME HasToRun(y) PROVE y \in G
    BY <1>1
  <2>2. Parent[y] \in Group /\ Parent[y] \in Item /\ Parent[y] \notin Thread
    BY ParentType
  <2>3. y \in Under(Parent[y])
    BY <2>1 DEF Under
  <2>4. Parent[y] = Top \/ HasToRun(Parent[y])
    BY <2>2, <2>3, GroupLinks DEF HasToRun
  <2>5. Way(y) = {y} \cup Way(Parent[y])
    BY AboveIs DEF Way
  <2>6. Way(Top) = {Top}
    BY AboveIs DEF Way
  <2>7. QED BY <1>1, <1>3, <2>1, <2>4, <2>5, <2>6
<1>4. x \in G
  BY <1>2, <1>3, FromTop
<1>5. PICK c : c = ChildToward(g, x)
  OBVIOUS
<1>6. c \in Way(x) \ {Top} /\ c \in Item /\ Parent[c] = g
  BY <1>5, WayChild
<1>7. HasToRun(c)
  BY <1>1, <1>4, <1>6
<1>8. c \in Under(g)
  BY <1>6, <1>7 DEF Under
<1>9. g \in Group
  BY AboveGroups
<1>10. QED BY <1>5, <1>8, <1>9, GroupLinks
-----------------------------------------------------------------------------
\* A queued thread is linked.
LEMMA LinkTree ==
  ASSUME TreeIs, NEW p \in Thread, ~Queued(running[p]),
         \A u \in Thread : Queued(running'[u]) <=> Queued(running[u]) \/ u = p,
         Link(p)
  PROVE  TreeIs'
<1>1. PICK new : new = LinkedWith(p)
  OBVIOUS
<1>2. PICK into : into = {Parent[x] : x \in new}
  OBVIOUS
<1>3. p \in Item \ {Top} /\ new = Part({h \in Group : current[h] = Null}, p)
  BY <1>1, LinkParts
<1>4. /\ p \in new /\ new \subseteq Item \ {Top}
      /\ \A y \in new : y = p \/ (y \in Group /\ current[y] = Null)
      /\ \A y \in new : Parent[y] \in Above[p] /\ ChildToward(Parent[y], p) = y
      /\ \A g \in new \ {p} : \E y \in new : Parent[y] = g
      /\ \A y \in new : Parent[y] \in Group /\ current[Parent[y]] = Null
                          => Parent[y] = Top \/ Parent[y] \in new
  <2>1. PICK S : S = {h \in Group : current[h] = Null}
    OBVIOUS
  <2>2. /\ p \in Part(S, p) /\ Part(S, p) \subseteq Item \ {Top}
        /\ \A y \in Part(S, p) : y = p \/ (y \in Group /\ y \in S)
        /\ \A y \in Part(S, p) : Parent[y] \in Above[p] /\ ChildToward(Parent[y], p) = y
        /\ \A g \in Part(S, p) \ {p} : \E y \in Part(S, p) : Parent[y] = g
        /\ \A y \in Part(S, p) : Parent[y] \in S => Parent[y] = Top \/ Parent[y] \in Part(S, p)
    BY <1>3, PartOfWay
  <2>3. new = Part(S, p)
    BY <1>3, <2>1
  <2>4. QED BY <2>1, <2>2, <2>3
<1>5. PICK child : child = [g \in Group |-> ChildToward(g, p)]
  OBVIOUS
<1>6. /\ into \subseteq Group
      /\ \A g \in into : child[g] \in new /\ Parent[child[g]] = g
      /\ \A y \in new : Parent[y] \in into /\ child[Parent[y]] = y
  BY <1>2, <1>4, <1>5, ParentType
<1>7. /\ next' = [x \in Item |-> IF x \in new THEN first[Parent[x]] ELSE next[x]]
      /\ prev' = [x \in Item |->
           IF x # Top /\ Parent[x] \in into /\ first[Parent[x]] = x
             THEN child[Parent[x]] ELSE prev[x]]
      /\ first' = [g \in Group |-> IF g \in into THEN child[g] ELSE first[g]]
      /\ current' = [g \in Group |->
           IF g \in into /\ current[g] = Null THEN child[g] ELSE current[g]]
  <2>1. \A x \in Item : x # Top => ChildToward(Parent[x], p) = child[Parent[x]]
    BY <1>5, ParentType
  <2>2. \A g \in Group : ChildToward(g, p) = child[g]
    BY <1>5
  <2>3. QED BY <1>1, <1>2, <2>1, <2>2 DEF Link

\* What is linked had nothing to run, and has now.
<1>8. \A x \in new : ~HasToRun(x) /\ x # Null /\ x \in Item
  BY <1>4, GroupLinks, ParentType DEF HasToRun
<1>9. \A x \in Item \ {Top} : HasToRun(x)' <=> HasToRun(x) \/ x \in new
  <2>1. ASSUME NEW x \in Item \ {Top}, x \in Thread
        PROVE  HasToRun(x)' <=> HasToRun(x) \/ x \in new
    BY <1>4, <2>1, ParentType DEF HasToRun
  <2>2. ASSUME NEW x \in Item \ {Top}, x \in Group
        PROVE  HasToRun(x)' <=> HasToRun(x) \/ x \in new
    <3>1. HasToRun(x)' <=> first'[x] # Null
      BY <2>2, ParentType DEF HasToRun
    <3>2. HasToRun(x) <=> first[x] # Null
      BY <2>2, ParentType DEF HasToRun
    <3>3. x \in into => first'[x] # Null
      BY <1>6, <1>7, <1>8
    <3>4. x \notin into => first'[x] = first[x]
      BY <1>7, <2>2
    <3>5. x \in new => x \in into
      BY <1>2, <1>4, <2>2, ParentType
    <3>6. x \in into /\ first[x] = Null => x \in new
      BY <1>2, <1>4, <2>2, GroupLinks
    <3>7. QED BY <3>1, <3>2, <3>3, <3>4, <3>5, <3>6
  <2>3. QED BY <2>1, <2>2, ParentType
<1>10. \A g \in Group : Under(g)' = IF g \in into THEN Under(g) \cup {child[g]} ELSE Under(g)
  <2>1. \A g : Under(g)' = {x \in Item \ {Top} : Parent[x] = g /\ (HasToRun(x) \/ x \in new)}
    BY <1>9 DEF Under
  <2>2. ASSUME NEW g \in Group
        PROVE  {x \in Item \ {Top} : Parent[x] = g /\ (HasToRun(x) \/ x \in new)}
                 = IF g \in into THEN Under(g) \cup {child[g]} ELSE Under(g)
    BY <1>4, <1>6 DEF Under
  <2>3. QED BY <2>1, <2>2
<1>11. LinkTypes'
  <2>1. \A x \in Item : x # Top => Parent[x] \in Group
    BY ParentType
  <2>2. \A x \in new : first[Parent[x]] \in Item \cup {Null}
    BY <1>4, <2>1 DEF TreeIs, LinkTypes
  <2>3. \A g \in into : child[g] \in Item
    BY <1>4, <1>6
  <2>4. QED BY <1>4, <1>6, <1>7, <2>2, <2>3 DEF TreeIs, LinkTypes
<1>12. ASSUME NEW g \in Group
       PROVE  Listed(Under(g)', first'[g], next', prev')
  <2>1. PICK set : set = Under(g)
    OBVIOUS
  <2>2. Listed(set, first[g], next, prev) /\ Linked(set, first[g], next, prev)
    BY <2>1, GroupLinks DEF TreeIs
  <2>3. \A x \in set : x \in Item \ {Top} /\ Parent[x] = g /\ HasToRun(x) /\ x \notin new
    BY <1>8, <2>1 DEF Under
  <2>4. CASE g \in into
    <3>1. PICK c : c = child[g] /\ c \in new /\ c \in Item \ {Top} /\ Parent[c] = g /\ c \notin set
      BY <1>4, <1>6, <2>3, <2>4
    <3>2. next'[c] = first[g]
      BY <1>7, <3>1
    <3>3. prev'[c] = Null
      <4>1. first[g] # c
        BY <1>8, <2>2, <3>1 DEF Linked
      <4>2. prev[c] = Null
        BY <1>8, <3>1 DEF TreeIs
      <4>3. QED BY <1>7, <3>1, <4>1, <4>2
    <3>4. \A y \in set : next'[y] = next[y] /\ prev'[y] = IF y = first[g] THEN c ELSE prev[y]
      BY <1>7, <2>3, <2>4, <3>1
    <3>5. Listed(set \cup {c}, c, next', prev')
      BY <2>2, <3>1, <3>2, <3>3, <3>4, ListedPush
    <3>6. Under(g)' = set \cup {c} /\ first'[g] = c
      BY <1>7, <1>10, <2>1, <2>4, <3>1
    <3>7. QED BY <3>5, <3>6
  <2>5. CASE g \notin into
    <3>1. \A y \in set : next'[y] = next[y] /\ prev'[y] = prev[y]
      BY <1>7, <2>3, <2>5
    <3>2. Listed(set, first[g], next', prev')
      BY <2>2, <3>1, ListedSame
    <3>3. Under(g)' = set /\ first'[g] = first[g]
      BY <1>7, <1>10, <2>1, <2>5
    <3>4. QED BY <3>2, <3>3
  <2>6. QED BY <2>4, <2>5
<1>13. ASSUME NEW g \in Group
       PROVE  IF first'[g] = Null THEN current'[g] = Null ELSE current'[g] \in Under(g)'
  <2>1. IF first[g] = Null THEN current[g] = Null ELSE current[g] \in Under(g)
    BY DEF TreeIs
  <2>2. CASE g \in into
    <3>1. first'[g] # Null /\ child[g] # Null
      BY <1>6, <1>7, <1>8, <2>2
    <3>2. current'[g] = IF current[g] = Null THEN child[g] ELSE current[g]
      BY <1>7, <2>2
    <3>3. Under(g)' = Under(g) \cup {child[g]}
      BY <1>10, <2>2
    <3>4. QED BY <2>1, <3>1, <3>2, <3>3
  <2>3. CASE g \notin into
    <3>1. current'[g] = current[g] /\ first'[g] = first[g]
      BY <1>7, <2>3
    <3>2. Under(g)' = Under(g)
      BY <1>10, <2>3
    <3>3. QED BY <2>1, <3>1, <3>2
  <2>4. QED BY <2>2, <2>3
<1>14. ASSUME NEW x \in Item, x = Top \/ ~HasToRun(x)'
       PROVE  next'[x] = Null /\ prev'[x] = Null
  <2>1. x \notin new /\ (x = Top \/ ~HasToRun(x))
    BY <1>4, <1>9, <1>14
  <2>2. next[x] = Null /\ prev[x] = Null
    BY <2>1 DEF TreeIs
  <2>3. x # Top => first[Parent[x]] # x
    <3>1. ASSUME x # Top, first[Parent[x]] = x PROVE FALSE
      <4>1. Parent[x] \in Group /\ x # Null
        BY <3>1, ParentType
      <4>2. x \in Under(Parent[x])
        BY <3>1, <4>1, GroupLinks DEF Linked
      <4>3. QED BY <2>1, <3>1, <4>2 DEF Under
    <3>2. QED BY <3>1
  <2>4. QED BY <1>7, <2>1, <2>2, <2>3
<1>15. QED BY <1>11, <1>12, <1>13, <1>14 DEF TreeIs

\* A queued thread is unlinked.
LEMMA UnlinkTree ==
  ASSUME TreeIs, NEW p \in Thread, Queued(running[p]),
         \A u \in Thread : Queued(running'[u]) <=> Queued(running[u]) /\ u # p,
         Unlink(p)
  PROVE  TreeIs'
<1>1. PICK old : old = UnlinkedWith(p)
  OBVIOUS
<1>2. PICK from : from = {Parent[x] : x \in old}
  OBVIOUS
<1>3. p \in Item \ {Top} /\ old = Part({h \in Group : HoldsOnly(h, p)}, p)
  BY <1>1, LinkParts
<1>4. /\ p \in old /\ old \subseteq Item \ {Top}
      /\ \A y \in old : y = p \/ (y \in Group /\ HoldsOnly(y, p))
      /\ \A y \in old : Parent[y] \in Above[p] /\ ChildToward(Parent[y], p) = y
      /\ \A g \in old \ {p} : \E y \in old : Parent[y] = g
      /\ \A y \in old : Parent[y] \in Group /\ HoldsOnly(Parent[y], p)
                          => Parent[y] = Top \/ Parent[y] \in old
  <2>1. PICK S : S = {h \in Group : HoldsOnly(h, p)}
    OBVIOUS
  <2>2. /\ p \in Part(S, p) /\ Part(S, p) \subseteq Item \ {Top}
        /\ \A y \in Part(S, p) : y = p \/ (y \in Group /\ y \in S)
        /\ \A y \in Part(S, p) : Parent[y] \in Above[p] /\ ChildToward(Parent[y], p) = y
        /\ \A g \in Part(S, p) \ {p} : \E y \in Part(S, p) : Parent[y] = g
        /\ \A y \in Part(S, p) : Parent[y] \in S => Parent[y] = Top \/ Parent[y] \in Part(S, p)
    BY <1>3, PartOfWay
  <2>3. old = Part(S, p)
    BY <1>3, <2>1
  <2>4. QED BY <2>1, <2>2, <2>3
<1>5. PICK child : child = [g \in Group |-> ChildToward(g, p)]
  OBVIOUS
<1>6. /\ from \subseteq Group
      /\ \A g \in from : child[g] \in old /\ Parent[child[g]] = g
      /\ \A y \in old : Parent[y] \in from /\ child[Parent[y]] = y
  BY <1>2, <1>4, <1>5, ParentType
<1>7. /\ next' = [x \in Item |-> IF x \in old THEN Null
                                 ELSE IF next[x] \in old THEN next[next[x]] ELSE next[x]]
      /\ prev' = [x \in Item |-> IF x \in old THEN Null
                                 ELSE IF prev[x] \in old THEN prev[prev[x]] ELSE prev[x]]
      /\ first' = [g \in Group |->
           IF g \in from /\ prev[child[g]] = Null THEN next[child[g]] ELSE first[g]]
      /\ current' = [g \in Group |->
           IF g \in from THEN CurrentWithout(g, child[g]) ELSE current[g]]
  <2>1. \A g \in Group : ChildToward(g, p) = child[g]
    BY <1>5
  <2>2. QED BY <1>1, <1>2, <2>1 DEF Unlink

\* What is unlinked was linked.
<1>8. \A g \in from : child[g] \in Under(g) /\ first[g] # Null
  <2>1. HasToRun(p)
    BY ParentType DEF HasToRun
  <2>2. \A g \in from : g \in Above[p] /\ child[g] = ChildToward(g, p)
    BY <1>2, <1>4, <1>5, <1>6
  <2>3. QED BY <1>3, <2>1, <2>2, UpLinked
<1>9. \A g \in from : HoldsOnly(g, p) <=> current[g] = child[g] /\ next[child[g]] = Null
                                           /\ prev[child[g]] = Null
  BY <1>5, <1>6 DEF HoldsOnly
<1>10. \A x \in Item \ {Top} : HasToRun(x)' <=> HasToRun(x) /\ x \notin old
  <2>1. ASSUME NEW x \in Item \ {Top}, x \in Thread
        PROVE  HasToRun(x)' <=> HasToRun(x) /\ x \notin old
    BY <1>4, <2>1, ParentType DEF HasToRun
  <2>2. ASSUME NEW x \in Item \ {Top}, x \in Group
        PROVE  HasToRun(x)' <=> HasToRun(x) /\ x \notin old
    <3>1. HasToRun(x)' <=> first'[x] # Null
      BY <2>2, ParentType DEF HasToRun
    <3>2. HasToRun(x) <=> first[x] # Null
      BY <2>2, ParentType DEF HasToRun
    <3>3. x \in old => x \in from /\ HoldsOnly(x, p)
      BY <1>2, <1>4, <2>2, ParentType
    <3>4. x \in old => first'[x] = Null
      BY <1>7, <1>9, <2>2, <3>3
    <3>5. x \in from /\ HoldsOnly(x, p) => x \in old
      BY <1>2, <1>4, <2>2
    <3>6. x \notin from => first'[x] = first[x]
      BY <1>7, <2>2
    <3>7. ASSUME x \in from, x \notin old PROVE first'[x] # Null
      <4>1. child[x] \in Under(x) /\ first[x] # Null /\ current[x] \in Under(x)
        BY <1>8, <2>2, <3>7 DEF TreeIs
      <4>2. Linked(Under(x), first[x], next, prev)
        BY <2>2, GroupLinks
      <4>3. ASSUME prev[child[x]] = Null, next[child[x]] = Null PROVE FALSE
        <5>1. Under(x) = {child[x]}
          BY <4>1, <4>2, <4>3 DEF Linked
        <5>2. HoldsOnly(x, p)
          BY <1>9, <3>7, <4>1, <4>3, <5>1
        <5>3. QED BY <3>5, <3>7, <5>2
      <4>4. QED BY <1>7, <2>2, <3>7, <4>1, <4>3
    <3>8. QED BY <1>8, <3>1, <3>2, <3>3, <3>4, <3>6, <3>7
  <2>3. QED BY <2>1, <2>2, ParentType
<1>11. \A g \in Group : Under(g)' = IF g \in from THEN Under(g) \ {child[g]} ELSE Under(g)
  <2>1. \A g : Under(g)' = {x \in Item \ {Top} : Parent[x] = g /\ (HasToRun(x) /\ x \notin old)}
    BY <1>10 DEF Under
  <2>2. ASSUME NEW g \in Group
        PROVE  {x \in Item \ {Top} : Parent[x] = g /\ (HasToRun(x) /\ x \notin old)}
                 = IF g \in from THEN Under(g) \ {child[g]} ELSE Under(g)
    BY <1>4, <1>6 DEF Under
  <2>3. QED BY <2>1, <2>2
<1>12. LinkTypes'
  <2>1. \A x \in Item : next[x] \in Item \cup {Null} /\ prev[x] \in Item \cup {Null}
    BY DEF TreeIs, LinkTypes
  <2>2. next' \in [Item -> Item \cup {Null}] /\ prev' \in [Item -> Item \cup {Null}]
    BY <1>4, <1>7, <2>1
  <2>3. \A g \in Group : first[g] \in Item \cup {Null} /\ current[g] \in Item \cup {Null}
    BY DEF TreeIs, LinkTypes
  <2>4. \A g \in from : child[g] \in Item
    BY <1>4, <1>6
  <2>5. first' \in [Group -> Item \cup {Null}]
    BY <1>7, <2>1, <2>3, <2>4
  <2>6. \A g \in from : CurrentWithout(g, child[g]) \in Item \cup {Null}
    BY <1>6, <2>1, <2>3, <2>4 DEF CurrentWithout
  <2>7. current' \in [Group -> Item \cup {Null}]
    BY <1>7, <2>3, <2>6
  <2>8. QED BY <2>2, <2>5, <2>7 DEF LinkTypes
<1>13. ASSUME NEW g \in Group
       PROVE  Listed(Under(g)', first'[g], next', prev')
  <2>1. PICK set : set = Under(g)
    OBVIOUS
  <2>2. Listed(set, first[g], next, prev) /\ Linked(set, first[g], next, prev)
    BY <2>1, GroupLinks DEF TreeIs
  <2>3. \A x \in set : x \in Item \ {Top} /\ Parent[x] = g /\ x # Null
    BY <2>1, ParentType DEF Under
  <2>4. Null \notin old
    BY <1>4, ParentType
  <2>5. CASE g \in from
    <3>1. PICK c : c = child[g] /\ c \in old /\ c \in set
      BY <1>6, <1>8, <2>1, <2>5
    <3>2. \A y \in set : y \in old => y = c
      BY <1>6, <2>3, <3>1
    <3>3. \A y \in set \ {c} : /\ next'[y] = IF next[y] = c THEN next[c] ELSE next[y]
                               /\ prev'[y] = IF prev[y] = c THEN prev[c] ELSE prev[y]
      <4>1. \A y \in set : /\ next[y] = Null \/ next[y] \in set
                           /\ prev[y] = Null \/ prev[y] \in set
        BY <2>2 DEF Linked
      <4>2. QED BY <1>7, <2>3, <2>4, <3>1, <3>2, <4>1
    <3>4. first'[g] = IF first[g] = c THEN next[c] ELSE first[g]
      <4>1. first[g] = c <=> prev[c] = Null
        BY <2>2, <2>3, <3>1 DEF Linked
      <4>2. QED BY <1>7, <2>5, <3>1, <4>1
    <3>5. Listed(set \ {c}, first'[g], next', prev')
      BY <2>2, <3>1, <3>3, <3>4, ListedDrop
    <3>6. Under(g)' = set \ {c}
      BY <1>11, <2>1, <2>5, <3>1
    <3>7. QED BY <3>5, <3>6
  <2>6. CASE g \notin from
    <3>1. \A y \in set : y \notin old
      BY <1>6, <2>3, <2>6
    <3>2. \A y \in set : next'[y] = next[y] /\ prev'[y] = prev[y]
      <4>1. \A y \in set : /\ next[y] = Null \/ next[y] \in set
                           /\ prev[y] = Null \/ prev[y] \in set
        BY <2>2 DEF Linked
      <4>2. QED BY <1>7, <2>3, <2>4, <3>1, <4>1
    <3>3. Listed(set, first[g], next', prev')
      BY <2>2, <3>2, ListedSame
    <3>4. Under(g)' = set /\ first'[g] = first[g]
      BY <1>7, <1>11, <2>1, <2>6
    <3>5. QED BY <3>3, <3>4
  <2>7. QED BY <2>5, <2>6
<1>14. ASSUME NEW g \in Group
       PROVE  IF first'[g] = Null THEN current'[g] = Null ELSE current'[g] \in Under(g)'
  <2>1. IF first[g] = Null THEN current[g] = Null ELSE current[g] \in Under(g)
    BY DEF TreeIs
  <2>2. CASE g \in from
    <3>1. PICK c : c = child[g] /\ c \in Under(g)
      BY <1>8, <2>2
    <3>2. current[g] \in Under(g)
      BY <1>8, <2>1, <2>2
    <3>3. Linked(Under(g), first[g], next, prev) /\ \A x \in Under(g) : x # Null
      BY GroupLinks
    <3>4. Under(g)' = Under(g) \ {c}
      BY <1>11, <2>2, <3>1
    <3>5. first'[g] = Null <=> Under(g) \ {c} = {}
      BY <1>13, <3>4, ListedLinks DEF Linked
    <3>6. current'[g] = IF current[g] # c THEN current[g]
                        ELSE IF next[c] # Null THEN next[c]
                        ELSE IF prev[c] # Null THEN first[g] ELSE Null
      BY <1>7, <2>2, <3>1 DEF CurrentWithout
    <3>7. CASE current[g] # c
      BY <3>2, <3>4, <3>5, <3>6, <3>7
    <3>8. CASE current[g] = c /\ next[c] # Null
      <4>1. next[c] \in Under(g) \ {c}
        BY <3>1, <3>3, <3>8 DEF Linked
      <4>2. QED BY <3>4, <3>5, <3>6, <3>8, <4>1
    <3>9. CASE current[g] = c /\ next[c] = Null /\ prev[c] # Null
      <4>1. first[g] \in Under(g) \ {c}
        BY <3>1, <3>3, <3>9 DEF Linked
      <4>2. QED BY <3>4, <3>5, <3>6, <3>9, <4>1
    <3>10. CASE current[g] = c /\ next[c] = Null /\ prev[c] = Null
      <4>1. Under(g) = {c}
        BY <3>1, <3>3, <3>10 DEF Linked
      <4>2. QED BY <3>5, <3>6, <3>10, <4>1
    <3>11. QED BY <3>7, <3>8, <3>9, <3>10
  <2>3. CASE g \notin from
    <3>1. current'[g] = current[g] /\ first'[g] = first[g]
      BY <1>7, <2>3
    <3>2. Under(g)' = Under(g)
      BY <1>11, <2>3
    <3>3. QED BY <2>1, <3>1, <3>2
  <2>4. QED BY <2>2, <2>3
<1>15. ASSUME NEW x \in Item, x = Top \/ ~HasToRun(x)'
       PROVE  next'[x] = Null /\ prev'[x] = Null
  <2>1. CASE x \in old
    BY <1>7, <2>1
  <2>2. CASE x \notin old
    <3>1. next[x] = Null /\ prev[x] = Null
      BY <1>10, <1>15, <2>2 DEF TreeIs
    <3>2. Null \notin old
      BY <1>4, ParentType
    <3>3. QED BY <1>7, <2>2, <3>1, <3>2
  <2>3. QED BY <2>1, <2>2
<1>16. QED BY <1>12, <1>13, <1>14, <1>15 DEF TreeIs
-----------------------------------------------------------------------------
\* Every change of a word keeps the tree, whether it queues, unqueues or neither.
LEMMA SetFlagsTree ==
  ASSUME IInv, TreeIs, NEW p \in Thread, NEW word, SetFlags(p, word)
  PROVE  TreeIs'
<1>1. running' = [running EXCEPT ![p] = word] /\ running \in [Thread -> SUBSET Flag]
  BY DEF SetFlags, IInv
<1>2. CASE Queued(running[p]) /\ ~Queued(word)
  <2>1. \A u \in Thread : Queued(running'[u]) <=> Queued(running[u]) /\ u # p
    BY <1>1, <1>2
  <2>2. Unlink(p)
    BY <1>2 DEF SetFlags
  <2>3. QED BY <1>2, <2>1, <2>2, UnlinkTree
<1>3. CASE ~Queued(running[p]) /\ Queued(word)
  <2>1. \A u \in Thread : Queued(running'[u]) <=> Queued(running[u]) \/ u = p
    BY <1>1, <1>3
  <2>2. Link(p)
    BY <1>3 DEF SetFlags
  <2>3. QED BY <1>3, <2>1, <2>2, LinkTree
<1>4. CASE Queued(running[p]) <=> Queued(word)
  <2>1. \A u \in Thread : Queued(running'[u]) <=> Queued(running[u])
    BY <1>1, <1>4
  <2>2. UNCHANGED lists
    BY <1>4 DEF SetFlags
  <2>3. \A x \in Item : HasToRun(x)' <=> HasToRun(x)
    BY <2>1, <2>2 DEF HasToRun, lists
  <2>4. \A g : Under(g)' = Under(g)
    BY <2>3 DEF Under
  <2>5. QED BY <2>2, <2>3, <2>4 DEF TreeIs, LinkTypes, lists
<1>5. QED BY <1>2, <1>3, <1>4

\* Only a current item changes, to another one of its group.
LEMMA CurrentTree ==
  ASSUME TreeIs, UNCHANGED <<running, next, prev, first>>,
         current' \in [Group -> Item \cup {Null}],
         \A g \in Group : current'[g] = current[g] \/ (current'[g] \in Under(g) /\ first[g] # Null)
  PROVE  TreeIs'
<1>1. \A x : HasToRun(x)' <=> HasToRun(x)
  BY DEF HasToRun
<1>2. \A g : Under(g)' = Under(g)
  BY <1>1 DEF Under
<1>3. QED BY <1>1, <1>2 DEF TreeIs, LinkTypes

\* A thread that is swapped in, and each group above it, becomes the current one.
LEMMA SwapToTree ==
  ASSUME TreeIs, NEW p \in Thread, Queued(running[p]), SwapTo(p),
         UNCHANGED <<running, next, prev, first>>
  PROVE  TreeIs'
<1>1. p \in Item \ {Top} /\ HasToRun(p) /\ Above[p] \subseteq Group
  BY ParentType, AboveGroups DEF HasToRun
<1>2. current' = [g \in Group |-> IF g \in Above[p] THEN ChildToward(g, p) ELSE current[g]]
  BY DEF SwapTo
<1>3. \A g \in Above[p] : ChildToward(g, p) \in Under(g) /\ first[g] # Null
  BY <1>1, UpLinked
<1>4. \A g \in Above[p] : ChildToward(g, p) \in Item
  BY <1>3 DEF Under
<1>5. \A g \in Group : current'[g] = current[g] \/ (current'[g] \in Under(g) /\ first[g] # Null)
  BY <1>2, <1>3
<1>6. current' \in [Group -> Item \cup {Null}]
  BY <1>2, <1>4 DEF TreeIs, LinkTypes
<1>7. QED BY <1>5, <1>6, CurrentTree

\* Going round a group meets what it lists.
LEMMA Around ==
  ASSUME TreeIs, NEW g \in Group, first[g] # Null
  PROVE  /\ AfterCurrent(g) \in Under(g)
         /\ \A x \in Under(g) : (IF next[x] # Null THEN next[x] ELSE first[g]) \in Under(g)
<1>1. Linked(Under(g), first[g], next, prev) /\ current[g] \in Under(g)
  BY GroupLinks DEF TreeIs
<1>2. \A x \in Under(g) : next[x] = Null \/ next[x] \in Under(g)
  BY <1>1 DEF Linked
<1>3. first[g] \in Under(g)
  BY <1>1 DEF Linked
<1>4. QED BY <1>1, <1>2, <1>3 DEF AfterCurrent

\* The search is on something that has to run, or on the top.
SearchInv ==
  /\ created \subseteq Thread /\ ready \in [Thread -> BOOLEAN]
  /\ search_start \in [Group -> Item \cup {Null}]
  /\ current_thread \in Thread
  /\ pc \in {"run", "search", "climb", "select", "exit"} /\ at \in Item
  /\ pc \in {"search", "climb", "select"} => at = Top \/ HasToRun(at)
  /\ pc = "climb" => at \in Group

\* The inductive invariant of the tree.
FullInv == IInv /\ TreeIs /\ SearchInv

\* The main thread is always queued, so the top is never empty.
LEMMA TopListed ==
  ASSUME IInv, TreeIs
  PROVE  first[Top] # Null
<1>1. Main \in Item \ {Top} /\ Parent[Main] = Top /\ HasToRun(Main)
  BY MainStays, ParentType, SchedulerAssumption DEF IInv, HasToRun
<1>2. Main \in Under(Top)
  BY <1>1 DEF Under
<1>3. QED BY <1>2, GroupLinks, ParentType

\* What a step of the program can do to the tree: one change of a word, or none.
LEMMA ProgramDoes ==
  ASSUME IInv, SearchInv, NEW p \in Thread, Program(p)
  PROVE  /\ (\E q \in Thread : \E word \in SUBSET Flag : SetFlags(q, word)) \/ UNCHANGED <<running, lists>>
         /\ pc = "run" /\ pc' \in {"run", "search", "select"}
         /\ at' = Top \/ (at' = at /\ pc' = "run")
         /\ created' \subseteq Thread /\ ready' \in [Thread -> BOOLEAN]
         /\ UNCHANGED <<search_start, current_thread>>
<1>1. \A q \in Thread : running[q] \in SUBSET Flag
  BY DEF IInv
<1>2. /\ \A q \in Thread : /\ WeakResume(running[q]) \in SUBSET Flag
                            /\ UserSuspend(running[q]) \in SUBSET Flag
                            /\ UserResume(running[q]) \in SUBSET Flag
                            /\ Kill(running[q]) \in SUBSET Flag
                            /\ running[q] \ {"NEED_KILL_CLEANUP"} \in SUBSET Flag
                            /\ WeakSuspend(running[q] \ {"NEED_KILL_CLEANUP"}) \in SUBSET Flag
                            /\ running[q] \cup {"USER_SUSPENDED"} \in SUBSET Flag
      /\ {} \in SUBSET Flag /\ {"RUNNING"} \in SUBSET Flag
      /\ {"RUNNING", "NEED_KILL_CLEANUP", "SUSPENDED"} \in SUBSET Flag
      /\ {"RUNNING", "USER_SUSPENDED", "SUSPENDED"} \in SUBSET Flag
  BY <1>1, FlagOperators DEF Flag
<1>3. created \subseteq Thread /\ ready \in [Thread -> BOOLEAN] /\ Main \in Thread
  BY SchedulerAssumption DEF SearchInv
<1> DEFINE Done == 
         /\ (\E q \in Thread : \E word \in SUBSET Flag : SetFlags(q, word)) \/ UNCHANGED <<running, lists>>
         /\ pc = "run" /\ pc' \in {"run", "search", "select"}
         /\ at' = Top \/ (at' = at /\ pc' = "run")
         /\ created' \subseteq Thread /\ ready' \in [Thread -> BOOLEAN]
         /\ UNCHANGED <<search_start, current_thread>>
<1>4. CASE Block(p)
  BY <1>3, <1>4 DEF Block, Runs
<1>5. CASE LeaveLine(p)
  BY <1>2, <1>3, <1>5 DEF LeaveLine, SwapOut, search
<1>6. ASSUME NEW q \in Thread,
             Create(p, q) \/ Resume(p, q) \/ Suspend(p, q) \/ UnSuspend(p, q) \/ KillOther(p, q)
      PROVE  Done
  <2>1. \E word \in SUBSET Flag : SetFlags(q, word)
    BY <1>2, <1>6 DEF Create, Resume, Suspend, UnSuspend, KillOther
  <2>2. pc = "run" /\ UNCHANGED <<ready, search, current_thread>> /\ created' \subseteq Thread
    BY <1>3, <1>6 DEF Create, Resume, Suspend, UnSuspend, KillOther, Runs
  <2>3. QED BY <1>3, <2>1, <2>2 DEF search
<1>7. CASE WaitInLine(p) \/ SuspendSelf(p) \/ End(p)
  <2>1. \E word \in SUBSET Flag : SwapOut(p, word)
    BY <1>2, <1>7 DEF WaitInLine, SuspendSelf, End
  <2>2. pc = "run"
    BY <1>7 DEF WaitInLine, SuspendSelf, End, Runs
  <2>3. QED BY <1>3, <2>1, <2>2 DEF SwapOut
<1>8. CASE FreezeMain(p)
  BY <1>2, <1>3, <1>8 DEF FreezeMain, Runs
<1>9. CASE ThawMain(p)
  BY <1>2, <1>3, <1>9 DEF ThawMain, Runs, search
<1>10. QED BY <1>4, <1>5, <1>6, <1>7, <1>8, <1>9 DEF Program
-----------------------------------------------------------------------------
\* Where a search goes, there is something to run.
LEMMA GoOn ==
  ASSUME TreeIs, SearchInv, UNCHANGED <<running, first>>,
         at' = Top \/ (at' \in Item /\ HasToRun(at')),
         pc' \in {"run", "search", "climb", "select", "exit"},
         pc' = "climb" => at' \in Group,
         search_start' \in [Group -> Item \cup {Null}],
         current_thread' \in Thread, UNCHANGED <<created, ready>>
  PROVE  SearchInv'
<1>1. HasToRun(at)' <=> HasToRun(at')
  BY DEF HasToRun
<1>2. QED BY <1>1, ParentType DEF SearchInv

\* A step of the search for a ready thread.
LEMMA SearchStepTree ==
  ASSUME IInv, TreeIs, SearchInv, Search
  PROVE  TreeIs' /\ SearchInv'
<1>1. at = Top \/ HasToRun(at)
  BY DEF Search, SearchInGroup, SearchFindsItself, SearchFindsThread, SearchRemovesZombie,
         SearchGoesOn, SearchClimbs, SearchInv
<1>2. at \in Item /\ (at \in Group => first[at] # Null)
  BY <1>1, TopListed, ParentType DEF SearchInv, HasToRun
<1>3. CASE SearchInGroup
  <2>1. PICK y : y = AfterCurrent(at)
    OBVIOUS
  <2>2. at \in Group /\ y \in Under(at) /\ y \in Item /\ HasToRun(y)
    BY <1>2, <1>3, <2>1, Around DEF SearchInGroup, Under
  <2>3. /\ UNCHANGED <<created, running, ready, next, prev, first, pc, current_thread>>
        /\ current' = [current EXCEPT ![at] = y] /\ at' = y
        /\ search_start' = [search_start EXCEPT ![at] = y] /\ pc = "search"
    BY <1>3, <2>1 DEF SearchInGroup
  <2>4. current' \in [Group -> Item \cup {Null}] /\ search_start' \in [Group -> Item \cup {Null}]
    BY <2>2, <2>3 DEF TreeIs, LinkTypes, SearchInv
  <2>5. \A g \in Group : current'[g] = current[g] \/ (current'[g] \in Under(g) /\ first[g] # Null)
    BY <1>2, <2>2, <2>3 DEF TreeIs, LinkTypes
  <2>6. TreeIs'
    BY <2>3, <2>4, <2>5, CurrentTree
  <2>7. SearchInv'
    BY <2>2, <2>3, <2>4, GoOn DEF SearchInv
  <2>8. QED BY <2>6, <2>7
<1>4. CASE SearchFindsItself
  <2>1. UNCHANGED <<created, running, ready, next, prev, first, current, search_start, current_thread>>
        /\ pc' = "run" /\ at' = Top
    BY <1>4 DEF SearchFindsItself, lists
  <2>2. TreeIs'
    BY <2>1, CurrentTree DEF TreeIs, LinkTypes
  <2>3. SearchInv'
    BY <2>1, GoOn DEF SearchInv
  <2>4. QED BY <2>2, <2>3
<1>5. CASE SearchFindsThread
  <2>1. /\ UNCHANGED <<created, running, ready, next, prev, first>> /\ SwapTo(at) /\ at \in Thread
        /\ Queued(running[at]) /\ search_start' = Cleared(at)
        /\ current_thread' = at /\ pc' = "run" /\ at' = Top
    BY <1>5 DEF SearchFindsThread, CanSwapIn, SwapTo
  <2>2. TreeIs'
    BY <2>1, SwapToTree
  <2>3. search_start' \in [Group -> Item \cup {Null}]
    BY <2>1 DEF Cleared, SearchInv
  <2>4. SearchInv'
    BY <2>1, <2>3, GoOn
  <2>5. QED BY <2>2, <2>4
<1>6. CASE SearchRemovesZombie
  <2>1. at \in Thread /\ SetFlags(at, {})
    BY <1>6 DEF SearchRemovesZombie
  <2>2. TreeIs'
    BY <2>1, SetFlagsTree
  <2>3. SearchInv'
    BY <1>6, ParentType DEF SearchRemovesZombie, Cleared, SearchInv
  <2>4. QED BY <2>2, <2>3
<1>7. CASE SearchGoesOn
  <2>1. PICK g : g = Parent[at]
    OBVIOUS
  <2>2. PICK y : y = IF next[at] # Null THEN next[at] ELSE first[g]
    OBVIOUS
  <2>3. at \in Thread /\ pc = "search" /\ at # Top /\ at \in Item /\ HasToRun(at)
    BY <1>1, <1>7, ParentType DEF SearchGoesOn
  <2>4. g \in Group /\ g \in Item /\ at \in Under(g) /\ g \notin Thread
    BY <2>1, <2>3, ParentType DEF Under
  <2>5. first[g] # Null
    BY <2>4, GroupLinks
  <2>6. y \in Under(g) /\ y \in Item /\ HasToRun(y)
    BY <2>2, <2>4, <2>5, Around DEF Under
  <2>7. /\ UNCHANGED <<created, running, ready, next, prev, first, search_start, current_thread>>
        /\ \/ pc' = "climb" /\ at' = g /\ current' = current
           \/ current' = [current EXCEPT ![g] = y] /\ at' = y /\ pc' = pc
    BY <1>7, <2>1, <2>2 DEF SearchGoesOn
  <2>8. current' \in [Group -> Item \cup {Null}]
    BY <2>4, <2>6, <2>7 DEF TreeIs, LinkTypes
  <2>9. \A h \in Group : current'[h] = current[h] \/ (current'[h] \in Under(h) /\ first[h] # Null)
    BY <2>5, <2>6, <2>7 DEF TreeIs, LinkTypes
  <2>10. TreeIs'
    BY <2>7, <2>8, <2>9, CurrentTree
  <2>11. HasToRun(g)
    BY <2>4, <2>5 DEF HasToRun
  <2>12. SearchInv'
    BY <2>3, <2>4, <2>6, <2>7, <2>11, GoOn DEF SearchInv
  <2>13. QED BY <2>10, <2>12
<1>8. CASE SearchClimbs
  <2>1. at \in Group /\ pc = "climb"
    BY <1>8 DEF SearchClimbs, SearchInv
  <2>2. /\ UNCHANGED <<created, running, ready, next, prev, first, current_thread>>
        /\ search_start' = [search_start EXCEPT ![at] = Null]
    BY <1>8 DEF SearchClimbs
  <2>3. search_start' \in [Group -> Item \cup {Null}]
    BY <2>2 DEF SearchInv
  <2>4. CASE at = Top
    <3>1. pc' = "run" /\ UNCHANGED <<current, at>>
      BY <1>8, <2>4 DEF SearchClimbs
    <3>2. TreeIs'
      BY <2>2, <3>1, CurrentTree DEF TreeIs, LinkTypes
    <3>3. SearchInv'
      BY <2>2, <2>3, <2>4, <3>1, GoOn DEF SearchInv
    <3>4. QED BY <3>2, <3>3
  <2>5. CASE at # Top
    <3>1. PICK g : g = Parent[at]
      OBVIOUS
    <3>2. PICK y : y = AfterCurrent(g)
      OBVIOUS
    <3>3. g \in Group /\ g \in Item /\ at \in Under(g) /\ g \notin Thread
      BY <1>1, <1>2, <2>5, <3>1, ParentType DEF Under
    <3>4. first[g] # Null
      BY <3>3, GroupLinks
    <3>5. y \in Under(g) /\ y \in Item /\ HasToRun(y)
      BY <3>2, <3>3, <3>4, Around DEF Under
    <3>6. \/ at' = g /\ UNCHANGED <<pc, current>>
          \/ current' = [current EXCEPT ![g] = y] /\ at' = y /\ pc' = "search"
      BY <1>8, <2>5, <3>1, <3>2 DEF SearchClimbs
    <3>7. current' \in [Group -> Item \cup {Null}]
      BY <3>3, <3>5, <3>6 DEF TreeIs, LinkTypes
    <3>8. \A h \in Group : current'[h] = current[h] \/ (current'[h] \in Under(h) /\ first[h] # Null)
      BY <3>4, <3>5, <3>6 DEF TreeIs, LinkTypes
    <3>9. TreeIs'
      BY <2>2, <3>7, <3>8, CurrentTree
    <3>10. HasToRun(g)
      BY <3>3, <3>4 DEF HasToRun
    <3>11. SearchInv'
      BY <2>1, <2>2, <2>3, <3>3, <3>5, <3>6, <3>10, GoOn DEF SearchInv
    <3>12. QED BY <3>9, <3>11
  <2>6. QED BY <2>4, <2>5
<1>9. QED BY <1>3, <1>4, <1>5, <1>6, <1>7, <1>8 DEF Search

\* A step of the choice among threads when all are blocked.
LEMMA SelectStepTree ==
  ASSUME IInv, TreeIs, SearchInv, Select
  PROVE  TreeIs' /\ SearchInv'
<1>1. at = Top \/ HasToRun(at)
  BY DEF Select, SelectInGroup, SelectThread, Deadlock, SearchInv
<1>2. at \in Item /\ (at \in Group => first[at] # Null)
  BY <1>1, TopListed, ParentType DEF SearchInv, HasToRun
<1>3. CASE SelectInGroup
  <2>1. /\ at' = AfterCurrent(at) /\ at \in Group /\ pc = "select"
        /\ UNCHANGED <<created, running, ready, next, prev, first, current, search_start, pc,
                       current_thread>>
    BY <1>3 DEF SelectInGroup, lists
  <2>2. at' \in Item /\ HasToRun(at')
    BY <1>2, <2>1, Around DEF Under
  <2>3. TreeIs'
    BY <2>1, CurrentTree DEF TreeIs, LinkTypes
  <2>4. SearchInv'
    BY <2>1, <2>2, GoOn DEF SearchInv
  <2>5. QED BY <2>3, <2>4
<1>4. CASE SelectThread
  <2>1. PICK k \in 1..Len(queue) : SwapTo(queue[k])
    <3>1. \A i \in 1..Len(queue) : {k \in i..Len(queue) : Choosable(queue[k])} \subseteq 1..Len(queue)
      OBVIOUS
    <3>2. at \in QueuedIn(running)
      BY <1>1, <1>4, ParentType DEF SelectThread, QueuedIn, HasToRun
    <3>3. \E i \in 1..Len(queue) : queue[i] = at
      BY <3>2 DEF IInv, Lists
    <3>4. (CHOOSE i \in 1..Len(queue) : queue[i] = at) \in 1..Len(queue)
      BY <3>3
    <3>5. 1 \in 1..Len(queue)
      BY DEF IInv, Lists
    <3>6. QED BY <1>4, <3>1, <3>4, <3>5 DEF SelectThread
  <2>2. PICK p \in Thread : p = queue[k] /\ Queued(running[p])
    BY DEF IInv, Lists, QueuedIn
  <2>3. /\ UNCHANGED <<created, running, ready, next, prev, first, search_start>>
        /\ current_thread' = p /\ pc' = "run" /\ at' = Top
    BY <1>4, <2>1, <2>2 DEF SelectThread, SwapTo
  <2>4. TreeIs'
    BY <2>1, <2>2, <2>3, SwapToTree
  <2>5. SearchInv'
    BY <2>3, GoOn DEF SearchInv
  <2>6. QED BY <2>4, <2>5
<1>5. CASE Deadlock
  <2>1. /\ UNCHANGED <<created, running, ready, next, prev, first, current, search_start, at,
                       current_thread>>
        /\ pc' = "exit"
    BY <1>5 DEF Deadlock, lists
  <2>2. TreeIs'
    BY <2>1, CurrentTree DEF TreeIs, LinkTypes
  <2>3. SearchInv'
    BY <1>1, <1>2, <2>1, GoOn DEF SearchInv
  <2>4. QED BY <2>2, <2>3
<1>6. QED BY <1>3, <1>4, <1>5 DEF Select

\* Every step keeps it.
LEMMA FullStep == FullInv /\ [Next]_vars => FullInv'
<1>1. SUFFICES ASSUME IInv, TreeIs, SearchInv, [Next]_vars
               PROVE  TreeIs' /\ SearchInv'
  BY Step DEF FullInv
<1>2. ASSUME NEW p \in Thread, Program(p)
      PROVE  TreeIs' /\ SearchInv'
  <2>1. /\ (\E q \in Thread : \E word \in SUBSET Flag : SetFlags(q, word)) \/ UNCHANGED <<running, lists>>
        /\ pc = "run" /\ pc' \in {"run", "search", "select"}
        /\ at' = Top \/ (at' = at /\ pc' = "run")
        /\ created' \subseteq Thread /\ ready' \in [Thread -> BOOLEAN]
        /\ UNCHANGED <<search_start, current_thread>>
    BY <1>1, <1>2, ProgramDoes
  <2>2. TreeIs'
    <3>1. CASE \E q \in Thread : \E word \in SUBSET Flag : SetFlags(q, word)
      BY <1>1, <3>1, SetFlagsTree
    <3>2. CASE UNCHANGED <<running, lists>>
      BY <1>1, <3>2, CurrentTree DEF TreeIs, LinkTypes, lists
    <3>3. QED BY <2>1, <3>1, <3>2
  <2>3. SearchInv'
    BY <1>1, <2>1, ParentType DEF SearchInv
  <2>4. QED BY <2>2, <2>3
<1>3. ASSUME NEW p \in Thread, Yield(p) \/ BecomeReady(p)
      PROVE  TreeIs' /\ SearchInv'
  <2>1. /\ UNCHANGED <<running, next, prev, first, current, created, search_start, current_thread>>
        /\ pc = "run" /\ ready' \in [Thread -> BOOLEAN]
        /\ (pc' = "search" /\ at' = Top) \/ (pc' = pc /\ at' = at)
    BY <1>1, <1>3 DEF Yield, BecomeReady, lists, search, SearchInv
  <2>2. TreeIs'
    BY <1>1, <2>1, CurrentTree DEF TreeIs, LinkTypes
  <2>3. SearchInv'
    BY <1>1, <2>1, ParentType DEF SearchInv
  <2>4. QED BY <2>2, <2>3
<1>4. CASE UNCHANGED vars
  <2>1. UNCHANGED <<created, running, ready, next, prev, first, current, search_start, pc, at,
                    current_thread>>
    BY <1>4 DEF vars, lists, search
  <2>2. TreeIs'
    BY <1>1, <2>1, CurrentTree DEF TreeIs, LinkTypes
  <2>3. HasToRun(at)' <=> HasToRun(at)
    BY <2>1 DEF HasToRun
  <2>4. SearchInv'
    BY <1>1, <2>1, <2>3 DEF SearchInv
  <2>5. QED BY <2>2, <2>4
<1>5. QED BY <1>1, <1>2, <1>3, <1>4, SearchStepTree, SelectStepTree DEF Next

\* Only the main thread is listed at first.
LEMMA FullInit == Init => FullInv
<1>1. SUFFICES ASSUME Init PROVE TreeIs /\ SearchInv
  BY InitInv DEF FullInv
<1>2. /\ \A p \in Thread : Queued(running[p]) <=> p = Main
      /\ \A g \in Group : first[g] = IF g = Top THEN Main ELSE Null
      /\ current = first /\ first \in [Group -> Item \cup {Null}]
      /\ \A x \in Item : next[x] = Null /\ prev[x] = Null
      /\ next \in [Item -> Item \cup {Null}] /\ prev \in [Item -> Item \cup {Null}]
  BY <1>1, ParentType DEF Init, Queued
<1>3. \A x \in Item \ {Top} : HasToRun(x) <=> x = Main
  BY <1>2, ParentType DEF HasToRun
<1>4. /\ Under(Top) = {Main}
      /\ \A g \in Group \ {Top} : Under(g) = {}
  BY <1>3, ParentType, SchedulerAssumption DEF Under
<1>5. Listed({}, Null, next, prev)
  <2>1. PICK q : q = [i \in 1..0 |-> Main]
    OBVIOUS
  <2>2. q \in [1..0 -> {}] /\ Chain(0, q, {}, Null, next, prev)
    BY <2>1 DEF Chain
  <2>3. QED BY <2>2 DEF Listed
<1>6. Listed({Main}, Main, next, prev)
  <2>1. PICK q : q = [i \in 1..1 |-> Main]
    OBVIOUS
  <2>2. q \in [1..1 -> {Main}] /\ q[1] = Main /\ \A i \in 1..1 : i = 1
    BY <2>1
  <2>3. Chain(1, q, {Main}, Main, next, prev)
    BY <1>2, <2>2, ParentType DEF Chain
  <2>4. {Main} \subseteq Item
    BY ParentType
  <2>5. QED BY <2>2, <2>3, <2>4 DEF Listed
<1>7. \A g \in Group : Listed(Under(g), first[g], next, prev)
  BY <1>2, <1>4, <1>5, <1>6
<1>8. \A g \in Group : IF first[g] = Null THEN current[g] = Null ELSE current[g] \in Under(g)
  BY <1>2, <1>4
<1>9. TreeIs
  BY <1>2, <1>7, <1>8 DEF TreeIs, LinkTypes
<1>10. SearchInv
  BY <1>1, ParentType DEF Init, SearchInv
<1>11. QED BY <1>9, <1>10
-----------------------------------------------------------------------------
\* The list of all threads is never longer than there are threads.
LEMMA CountType ==
  ASSUME IInv
  PROVE  /\ queue \in Seq(Thread)
         /\ num_running_threads \in 1..Cardinality(Thread)
<1>1. PICK set : set = QueuedIn(running)
  OBVIOUS
<1>2. Lists(queue, set) /\ num_running_threads = Len(queue)
  BY <1>1 DEF IInv
<1>3. PICK n \in Nat \ {0} : n = Len(queue) /\ n = Cardinality(set)
  BY <1>2 DEF Lists
<1>4. set \in SUBSET Thread
  BY <1>1 DEF QueuedIn
<1>5. IsFiniteSet(Thread)
  <2>1. Thread \in SUBSET Item /\ IsFiniteSet(Item)
    BY ParentType, SchedulerAssumption
  <2>2. QED BY <2>1, FS_Subset
<1>6. Cardinality(Thread) \in Nat
  BY <1>5, FS_CardinalityType
<1>7. Cardinality(set) <= Cardinality(Thread)
  BY <1>4, <1>5, FS_Subset
<1>8. n \in 1..Cardinality(Thread)
  BY <1>3, <1>6, <1>7
<1>9. queue \in Seq(Thread)
  BY <1>2 DEF Lists
<1>10. QED BY <1>2, <1>3, <1>8, <1>9

\* Every link leads to a thread, a group or nowhere, the search is always on a
\* thread or a group, and the count stays between 1 and the number of threads.
THEOREM TypeCorrect ==
  Spec => []TypeOK
<1>1. FullInv => TypeOK
  <2>1. SUFFICES ASSUME IInv, TreeIs, SearchInv PROVE TypeOK
    BY DEF FullInv
  <2>2. running \in [Thread -> SUBSET Flag]
    BY <2>1 DEF IInv
  <2>3. LinkTypes
    BY <2>1 DEF TreeIs
  <2>4. QED BY <2>1, <2>2, <2>3, CountType DEF TypeOK, LinkTypes, SearchInv
<1>2. QED BY <1>1, FullInit, FullStep, PTL DEF Spec
-----------------------------------------------------------------------------
\* InOrder follows the links.

\* Every set of numbers has a least one: induction, for lack of a rule for it.
LEMMA Least ==
  ASSUME NEW S \in SUBSET Nat, S # {}
  PROVE  \E n \in S : \A m \in S : n <= m
<1>1. IsWellFoundedOn(OpToRel(<, Nat), Nat)
  BY NatLessThanWellFounded
<1>2. OpToRel(<, Nat) = {ss \in Nat \X Nat : ss[1] < ss[2]}
  BY Zenon DEF OpToRel
<1>3. PICK R : R = {ss \in Nat \X Nat : ss[1] < ss[2]}
  OBVIOUS
<1>4. IsWellFoundedOn(R, Nat)
  BY <1>1, <1>2, <1>3, Zenon
<1>5. PICK x \in S : \A y \in S : ~ (<<y, x>> \in R)
  BY <1>4, WFMin
<1>6. \A y \in S : ~ (y < x)
  BY <1>3, <1>5
<1>7. QED BY <1>6

\* A walk from fst along nxt.
Steps(fst, nxt, f) ==
  f = [k \in Nat |-> IF k = 0 THEN fst
                     ELSE LET x == f[k - 1] IN IF x = Null THEN Null ELSE nxt[x]]

\* It takes the items of a list one after the other, and ends in Null.
LEMMA WalkIs ==
  ASSUME NEW n \in Nat, NEW set, NEW q \in [1..n -> set], NEW fst, NEW nxt, NEW prv,
         Chain(n, q, set, fst, nxt, prv), Null \notin set,
         NEW w, w = [k \in Nat |-> IF k < n THEN q[k + 1] ELSE Null]
  PROVE  Steps(fst, nxt, w) /\ \A f : Steps(fst, nxt, f) => f = w
<1>1. w = [k \in Nat |-> IF k < n THEN q[k + 1] ELSE Null]
  OBVIOUS
<1>2. ASSUME NEW k \in Nat
      PROVE  w[k] = IF k = 0 THEN fst
                    ELSE IF w[k - 1] = Null THEN Null ELSE nxt[w[k - 1]]
  <2>1. CASE k = 0
    <3>1. CASE n = 0
      BY <1>1, <2>1, <3>1 DEF Chain
    <3>2. CASE n # 0
      BY <1>1, <2>1, <3>2 DEF Chain
    <3>3. QED BY <3>1, <3>2
  <2>2. CASE k # 0
    <3>1. PICK j \in Nat : j = k - 1 /\ k = j + 1
      BY <2>2
    <3>2. CASE j < n
      <4>1. k \in 1..n /\ w[j] = q[k] /\ q[k] # Null
        BY <1>1, <3>1, <3>2
      <4>2. nxt[q[k]] = IF k = n THEN Null ELSE q[k + 1]
        BY <4>1 DEF Chain
      <4>3. w[k] = IF k = n THEN Null ELSE q[k + 1]
        BY <1>1, <4>1
      <4>4. QED BY <2>2, <3>1, <4>1, <4>2, <4>3
    <3>3. CASE ~(j < n)
      <4>1. w[j] = Null /\ w[k] = Null
        BY <1>1, <3>1, <3>3
      <4>2. QED BY <2>2, <3>1, <4>1
    <3>4. QED BY <3>2, <3>3
  <2>3. QED BY <2>1, <2>2
<1>3. Steps(fst, nxt, w)
  <2>1. w = [k \in Nat |-> w[k]]
    BY <1>1
  <2>2. QED BY <1>2, <2>1 DEF Steps
<1>4. ASSUME NEW f, Steps(fst, nxt, f)
      PROVE  f = w
  <2>1. PICK S : S = {k \in Nat : f[k] # w[k]}
    OBVIOUS
  <2>2. \A k \in Nat : f[k] = IF k = 0 THEN fst
                              ELSE IF f[k - 1] = Null THEN Null ELSE nxt[f[k - 1]]
    BY <1>4 DEF Steps
  <2>3. ASSUME S # {} PROVE FALSE
    <3>1. PICK k \in S : \A m \in S : k <= m
      BY <2>1, <2>3, Least
    <3>2. k # 0
      BY <1>2, <2>1, <2>2
    <3>3. k - 1 \in Nat /\ k - 1 \notin S
      BY <2>1, <3>1, <3>2
    <3>4. f[k - 1] = w[k - 1]
      BY <2>1, <3>3
    <3>5. QED BY <1>2, <2>1, <2>2, <3>2, <3>4
  <2>4. \A k \in Nat : f[k] = w[k]
    BY <2>1, <2>3
  <2>5. f = [k \in Nat |-> f[k]] /\ w = [k \in Nat |-> w[k]]
    BY <1>1, <1>4 DEF Steps
  <2>6. QED BY <2>4, <2>5
<1>5. QED BY <1>3, <1>4

\* Following the links meets what the group lists, and no more.
LEMMA InOrderIs ==
  ASSUME TreeIs, NEW g \in Group
  PROVE  InOrder(g) = Under(g)
<1>1. PICK set : set = Under(g)
  OBVIOUS
<1>2. Listed(set, first[g], next, prev) /\ Null \notin set
  BY <1>1, ParentType DEF TreeIs, Under
<1>3. PICK n \in Nat : \E q \in [1..n -> set] : Chain(n, q, set, first[g], next, prev)
  BY <1>2 DEF Listed
<1>4. PICK q \in [1..n -> set] : Chain(n, q, set, first[g], next, prev)
  BY <1>3
<1>5. PICK w : w = [k \in Nat |-> IF k < n THEN q[k + 1] ELSE Null]
  OBVIOUS
<1>6. Steps(first[g], next, w) /\ \A f : Steps(first[g], next, f) => f = w
  <2>1. PICK fst, nxt, prv : fst = first[g] /\ nxt = next /\ prv = prev
    OBVIOUS
  <2>2. Chain(n, q, set, fst, nxt, prv)
    BY <1>4, <2>1
  <2>3. Steps(fst, nxt, w) /\ \A f : Steps(fst, nxt, f) => f = w
    BY <1>2, <1>5, <2>2, WalkIs
  <2>4. QED BY <2>1, <2>3
<1>7. PICK walk : walk = CHOOSE f : Steps(first[g], next, f)
  OBVIOUS
<1>8. walk = w
  BY <1>6, <1>7
<1>9. InOrder(g) = {walk[k] : k \in 0..Cardinality(Item)} \ {Null}
  BY <1>7 DEF InOrder, Steps
<1>10. n <= Cardinality(Item) /\ Cardinality(Item) \in Nat
  <2>1. IsFiniteSet(Item) /\ set \subseteq Item
    BY <1>2, SchedulerAssumption DEF Listed
  <2>2. q \in Injection(1..n, Item)
    BY <1>4, <2>1 DEF Chain, Injection, IsInjective
  <2>3. Cardinality(1..n) <= Cardinality(Item)
    BY <2>1, <2>2, FS_Injection
  <2>4. Cardinality(1..n) = n
    BY FS_Interval
  <2>5. QED BY <2>1, <2>3, <2>4, FS_CardinalityType
<1>11. ASSUME NEW x \in set PROVE x \in InOrder(g)
  <2>1. PICK i \in 1..n : q[i] = x
    BY <1>4 DEF Chain
  <2>2. i - 1 \in 0..Cardinality(Item) /\ i - 1 < n /\ (i - 1) + 1 = i
    BY <1>10
  <2>3. walk[i - 1] = x
    BY <1>5, <1>8, <2>1, <2>2
  <2>4. QED BY <1>2, <1>9, <2>2, <2>3
<1>12. ASSUME NEW x \in InOrder(g) PROVE x \in set
  <2>1. PICK k \in 0..Cardinality(Item) : x = walk[k] /\ x # Null
    BY <1>9
  <2>2. k \in Nat
    BY <1>10
  <2>3. k < n /\ x = q[k + 1]
    BY <1>5, <1>8, <2>1, <2>2
  <2>4. QED BY <1>10, <2>2, <2>3
<1>13. QED BY <1>1, <1>11, <1>12

\* schedule_in_set and unschedule_in_set: for any tree of groups, whatever is
\* woken, suspended, killed or removed as a zombie in the middle of a search,
\* every group's list holds exactly what is under it and has something to run,
\* linked both ways, and its current item is one of these.
THEOREM TreeAgrees ==
  Spec => []TreeInv
<1>1. FullInv => TreeInv
  <2>1. SUFFICES ASSUME TreeIs PROVE TreeInv
    BY DEF FullInv
  <2>2. ASSUME NEW g \in Group
        PROVE  /\ InOrder(g) = {x \in Item \ {Top} : Parent[x] = g /\ HasToRun(x)}
               /\ current[g] = Null <=> first[g] = Null
               /\ current[g] # Null => current[g] \in InOrder(g)
               /\ first[g] # Null => prev[first[g]] = Null
    <3>1. InOrder(g) = Under(g) /\ Under(g) = {x \in Item \ {Top} : Parent[x] = g /\ HasToRun(x)}
      BY <2>1, InOrderIs DEF Under
    <3>2. IF first[g] = Null THEN current[g] = Null ELSE current[g] \in Under(g)
      BY <2>1 DEF TreeIs
    <3>3. Linked(Under(g), first[g], next, prev) /\ Null \notin Under(g)
      BY <2>1, GroupLinks
    <3>4. first[g] # Null => prev[first[g]] = Null
      BY <3>3 DEF Linked
    <3>5. QED BY <3>1, <3>2, <3>3, <3>4
  <2>3. ASSUME NEW x \in Item, NEW y \in Item
        PROVE  next[x] = y <=> prev[y] = x
    <3>1. x # Null /\ y # Null
      BY ParentType
    <3>2. ASSUME next[x] = y PROVE prev[y] = x
      <4>1. x # Top /\ HasToRun(x)
        BY <2>1, <3>1, <3>2 DEF TreeIs
      <4>2. PICK g \in Group : x \in Under(g)
        BY <4>1, ParentType DEF Under
      <4>3. Linked(Under(g), first[g], next, prev)
        BY <2>1, GroupLinks
      <4>4. QED BY <3>1, <3>2, <4>2, <4>3 DEF Linked
    <3>3. ASSUME prev[y] = x PROVE next[x] = y
      <4>1. y # Top /\ HasToRun(y)
        BY <2>1, <3>1, <3>3 DEF TreeIs
      <4>2. PICK g \in Group : y \in Under(g)
        BY <4>1, ParentType DEF Under
      <4>3. Linked(Under(g), first[g], next, prev)
        BY <2>1, GroupLinks
      <4>4. QED BY <3>1, <3>3, <4>2, <4>3 DEF Linked
    <3>4. QED BY <3>2, <3>3
  <2>4. QED BY <2>2, <2>3 DEF TreeInv
<1>2. QED BY <1>1, FullInit, FullStep, PTL DEF Spec
-----------------------------------------------------------------------------
\* The search.  Its end is right if no thread is linked that was killed and has
\* nothing to clean up: removing it in the middle of a search would leave the
\* current items away from the current thread.

\* Programs can kill a thread that they have suspended, and then break it, which
\* links it.
Together == {"kill", "suspend", "break"} \subseteq Op

\* The words of a thread other than the main one, by what programs do.
Tame(word) ==
  /\ word # {} => "RUNNING" \in word
  /\ "KILLED" \in word => "kill" \in Op
  /\ "USER_SUSPENDED" \in word => "suspend" \in Op
  /\ "SUSPENDED" \in word /\ "NEED_KILL_CLEANUP" \notin word => "suspend" \in Op
  /\ "KILLED" \in word /\ "NEED_KILL_CLEANUP" \notin word => "SUSPENDED" \in word

\* So they are.
TameInv == \A p \in Thread \ {Main} : Tame(running[p])

\* So who is linked is no zombie.
LEMMA NoZombie ==
  ASSUME IInv, TameInv, NEW p \in Thread, Queued(running[p])
  PROVE  ~Zombie(p)
<1>1. CASE p = Main
  BY <1>1, MainStays DEF IInv, Zombie
<1>2. CASE p # Main
  BY <1>2 DEF TameInv, Tame, Zombie, Queued
<1>3. QED BY <1>1, <1>2

\* The changes of a word are to tame ones.
LEMMA TameWords ==
  ASSUME NEW word \in SUBSET Flag, Tame(word)
  PROVE  /\ Tame({}) /\ Tame({"RUNNING"}) /\ Tame({"RUNNING", "NEED_KILL_CLEANUP", "SUSPENDED"})
         /\ ~Together /\ ("break" \in Op \/ "NEED_KILL_CLEANUP" \in word) => Tame(WeakResume(word))
         /\ "KILLED" \notin word => Tame(UserResume(word))
         /\ "suspend" \in Op => Tame({"RUNNING", "USER_SUSPENDED", "SUSPENDED"})
         /\ "suspend" \in Op /\ StillRunning(word) => Tame(UserSuspend(word))
         /\ "kill" \in Op /\ StillRunning(word) => Tame(Kill(word))
         /\ LET left == word \ {"NEED_KILL_CLEANUP"} IN
            "KILLED" \notin word /\ Queued(word) =>
              IF "USER_SUSPENDED" \in left THEN Tame(WeakSuspend(left)) ELSE Tame(left)
<1>1. /\ Tame({}) /\ Tame({"RUNNING"}) /\ Tame({"RUNNING", "NEED_KILL_CLEANUP", "SUSPENDED"})
  BY DEF Tame
<1>2. ASSUME ~Together, "break" \in Op \/ "NEED_KILL_CLEANUP" \in word PROVE Tame(WeakResume(word))
  BY <1>2 DEF Tame, Together, WeakResume
<1>3. ASSUME "KILLED" \notin word PROVE Tame(UserResume(word))
  BY <1>3 DEF Tame, UserResume, WeakResume
<1>4. "suspend" \in Op => Tame({"RUNNING", "USER_SUSPENDED", "SUSPENDED"})
  BY DEF Tame
<1>5. ASSUME "suspend" \in Op, StillRunning(word) PROVE Tame(UserSuspend(word))
  BY <1>5 DEF Tame, StillRunning, UserSuspend, WeakResume, WeakSuspend
<1>6. ASSUME "kill" \in Op, StillRunning(word) PROVE Tame(Kill(word))
  BY <1>6 DEF Tame, Kill, StillRunning, Queued, WeakResume
<1>7. ASSUME "KILLED" \notin word, Queued(word), NEW left, left = word \ {"NEED_KILL_CLEANUP"}
      PROVE  IF "USER_SUSPENDED" \in left THEN Tame(WeakSuspend(left)) ELSE Tame(left)
  BY <1>7 DEF Tame, WeakSuspend, Queued
<1>8. QED BY <1>1, <1>2, <1>3, <1>4, <1>5, <1>6, <1>7

\* One word changes, to a tame one.
LEMMA TameOne ==
  ASSUME IInv, TameInv, NEW p \in Thread, NEW word, SetFlags(p, word), p = Main \/ Tame(word)
  PROVE  TameInv'
BY DEF IInv, SetFlags, TameInv

\* What programs do.
LEMMA TameProgram ==
  ASSUME IInv, TameInv, ~Together, Queued(running[current_thread]), NEW p \in Thread, Program(p)
  PROVE  TameInv'
<1>1. \A q \in Thread \ {Main} : running[q] \in SUBSET Flag /\ Tame(running[q])
  BY DEF IInv, TameInv
<1>2. CASE Block(p)
  BY <1>2 DEF Block, TameInv
<1>3. CASE LeaveLine(p)
  <2>1. p # Main
    BY <1>3, MainStays DEF LeaveLine, IInv
  <2>2. PICK left : left = running[p] \ {"NEED_KILL_CLEANUP"}
    OBVIOUS
  <2>3. "KILLED" \notin running[p] /\ Queued(running[p])
    BY <1>3 DEF LeaveLine
  <2>4. IF "USER_SUSPENDED" \in left THEN Tame(WeakSuspend(left)) ELSE Tame(left)
    BY <1>1, <2>1, <2>2, <2>3, TameWords
  <2>5. \E word : SetFlags(p, word) /\ Tame(word)
    BY <1>3, <2>2, <2>4 DEF LeaveLine, SwapOut
  <2>6. QED BY <2>5, TameOne
<1>4. ASSUME NEW q \in Thread, Create(p, q) PROVE TameInv'
  BY <1>4, TameOne DEF Create, Tame
<1>5. ASSUME NEW q \in Thread, Resume(p, q) PROVE TameInv'
  <2>1. q = Main \/ Tame(WeakResume(running[q]))
    BY <1>1, <1>5, TameWords DEF Resume
  <2>2. QED BY <1>5, <2>1, TameOne DEF Resume
<1>6. ASSUME NEW q \in Thread, "suspend" \in Op, Suspend(p, q) PROVE TameInv'
  <2>1. q # Main /\ StillRunning(running[q]) /\ SetFlags(q, UserSuspend(running[q]))
    BY <1>6 DEF Suspend
  <2>2. Tame(UserSuspend(running[q]))
    BY <1>1, <1>6, <2>1, TameWords
  <2>3. QED BY <2>1, <2>2, TameOne
<1>7. ASSUME NEW q \in Thread, UnSuspend(p, q) PROVE TameInv'
  <2>1. q # Main /\ "KILLED" \notin running[q] /\ SetFlags(q, UserResume(running[q]))
    BY <1>7 DEF UnSuspend, StillRunning
  <2>2. Tame(UserResume(running[q]))
    BY <1>1, <2>1, TameWords
  <2>3. QED BY <2>1, <2>2, TameOne
<1>8. ASSUME NEW q \in Thread, "kill" \in Op, KillOther(p, q) PROVE TameInv'
  <2>1. q # Main /\ StillRunning(running[q]) /\ SetFlags(q, Kill(running[q]))
    BY <1>8 DEF KillOther
  <2>2. Tame(Kill(running[q]))
    BY <1>1, <1>8, <2>1, TameWords
  <2>3. QED BY <2>1, <2>2, TameOne
<1>9. CASE WaitInLine(p)
  BY <1>9, TameOne DEF WaitInLine, SwapOut, Tame
<1>10. CASE "suspend" \in Op /\ SuspendSelf(p)
  BY <1>10, TameOne DEF SuspendSelf, SwapOut, Tame
<1>11. CASE FreezeMain(p)
  BY <1>11, TameOne, ParentType DEF FreezeMain
<1>12. CASE ThawMain(p)
  BY <1>12, TameOne, ParentType DEF ThawMain
<1>13. CASE End(p)
  BY <1>13, TameOne DEF End, SwapOut, Tame
<1>14. QED BY <1>2, <1>3, <1>4, <1>5, <1>6, <1>7, <1>8, <1>9, <1>10, <1>11, <1>12, <1>13
           DEF Program

-----------------------------------------------------------------------------
\* The current items lead to the current thread while it runs.

\* Two ways up come together: x is the last item of p's that q does not share.
LEMMA Fork ==
  ASSUME NEW p \in Thread, NEW q \in Thread, p # q
  PROVE  \E x \in Way(p) \ Way(q) :
           /\ x \in Item \ {Top} /\ Parent[x] \in Above[p] /\ Parent[x] \in Above[q]
           /\ x = ChildToward(Parent[x], p)
<1>1. PICK B : B = Way(p) \ Way(q)
  OBVIOUS
<1>2. p \in Item \ {Top} /\ q \in Item \ {Top} /\ Above[p] \subseteq Group /\ Above[q] \subseteq Group
  BY ParentType, AboveGroups
<1>3. p \in B
  BY <1>1, <1>2, ParentType DEF Way
<1>4. Top \in Above[q]
  BY <1>2, TopAbove
<1>5. B \in SUBSET (Item \ {Top})
  BY <1>1, <1>2, <1>4, ParentType DEF Way
<1>6. PICK x \in B : Parent[x] \notin B
  BY <1>3, <1>5, SchedulerAssumption
<1>7. x \in Item \ {Top} /\ x \in Way(p) /\ x \notin Way(q)
  BY <1>1, <1>5, <1>6
<1>8. Parent[x] \in Above[p]
  BY <1>2, <1>7, AboveIs, ParentAbove DEF Way
<1>9. Parent[x] \in Way(q)
  BY <1>1, <1>6, <1>8 DEF Way
<1>10. Parent[x] \in Above[q]
  BY <1>2, <1>8, <1>9, ParentType DEF Way
<1>11. x = ChildToward(Parent[x], p)
  BY <1>2, <1>7, <1>8, WayChild
<1>12. QED BY <1>7, <1>8, <1>10, <1>11

\* The groups above p have the way to p as current items.
Leads(p) == \A g \in Above[p] : current[g] = ChildToward(g, p)

\* So it is for the current thread while it runs.
RunInv == pc = "run" => Queued(running[current_thread]) /\ Leads(current_thread)

\* A thread is swapped in.
LEMMA SwapLeads ==
  ASSUME NEW p \in Thread, SwapTo(p)
  PROVE  Leads(p)'
BY AboveGroups, ParentType DEF SwapTo, Leads

\* What is linked or unlinked elsewhere does not change that.
LEMMA UnlinkLeads ==
  ASSUME NEW p \in Thread, NEW q \in Thread, p # q, Leads(p), Unlink(q)
  PROVE  Leads(p)'
<1>1. PICK old : old = UnlinkedWith(q)
  OBVIOUS
<1>2. old = Part({h \in Group : HoldsOnly(h, q)}, q)
  BY <1>1, LinkParts
<1>3. p \in Item \ {Top} /\ q \in Item \ {Top} /\ Above[p] \subseteq Group
  BY ParentType, AboveGroups
<1>4. current' = [g \in Group |-> IF g \in {Parent[x] : x \in old}
                                    THEN CurrentWithout(g, ChildToward(g, q)) ELSE current[g]]
  BY <1>1 DEF Unlink
<1>5. ASSUME NEW g \in Above[p], NEW y \in old, g = Parent[y]
      PROVE  current[g] # y
  <2>1. SUFFICES ASSUME current[g] = y PROVE FALSE
    OBVIOUS
  <2>2. y = ChildToward(g, p) /\ y \in Way(p) \ {Top} /\ y \in Item
    BY <1>3, <2>1, WayChild DEF Leads
  <2>3. y # q
    BY <1>3, <2>2, ParentType DEF Way
  <2>4. y \in Above[q] /\ \A h \in Above[q] : h = y \/ y \in Above[h] => HoldsOnly(h, q)
    BY <1>2, <2>3 DEF Part
  <2>5. PICK x \in Way(p) \ Way(q) :
           /\ x \in Item \ {Top} /\ Parent[x] \in Above[p] /\ Parent[x] \in Above[q]
           /\ x = ChildToward(Parent[x], p)
    BY Fork
  <2>6. PICK h : h = Parent[x]
    OBVIOUS
  <2>7. h \in Above[p] /\ h \in Above[q] /\ current[h] = x /\ h \in Way(p)
    BY <2>5, <2>6 DEF Leads, Way
  <2>8. ChildToward(h, q) \in Way(q)
    BY <1>3, <2>7, WayChild
  <2>9. ~HoldsOnly(h, q)
    BY <2>5, <2>7, <2>8 DEF HoldsOnly
  <2>10. h \in Above[y]
    BY <1>3, <2>2, <2>4, <2>7, <2>9, WayOrdered
  <2>11. ChildToward(h, y) \in Way(y) \ {Top} /\ Parent[ChildToward(h, y)] = h
    BY <2>2, <2>10, WayChild
  <2>12. Way(y) \subseteq Way(p) /\ Way(y) \subseteq Way(q)
    BY <1>3, <2>2, <2>4, AboveAbove DEF Way
  <2>13. ChildToward(h, y) = x
    BY <1>3, <2>5, <2>6, <2>7, <2>11, <2>12, WayChild
  <2>14. QED BY <2>5, <2>11, <2>12, <2>13
<1>6. ASSUME NEW g \in Above[p] PROVE current'[g] = current[g]
  <2>1. CASE g \in {Parent[x] : x \in old}
    <3>1. PICK y \in old : g = Parent[y]
      BY <2>1
    <3>2. ChildToward(g, q) = y
      BY <1>2, <1>3, <3>1, PartOfWay
    <3>3. QED BY <1>3, <1>4, <1>5, <2>1, <3>1, <3>2 DEF CurrentWithout
  <2>2. QED BY <1>3, <1>4, <2>1
<1>7. QED BY <1>6 DEF Leads

\* Nor does any other change of a word, as long as p stays linked.
LEMMA SetFlagsLeads ==
  ASSUME IInv, NEW p \in Thread, Queued(running[p]), Leads(p),
         NEW q \in Thread, NEW word, SetFlags(q, word), q = p => Queued(word)
  PROVE  Queued(running'[p]) /\ Leads(p)'
<1>1. p \in Item /\ Above[p] \subseteq Group
  BY ParentType, AboveGroups
<1>2. Queued(running'[p])
  BY DEF IInv, SetFlags
<1>3. CASE Queued(running[q]) /\ ~Queued(word)
  BY <1>3, UnlinkLeads DEF SetFlags
<1>4. CASE ~Queued(running[q]) /\ Queued(word)
  <2>1. Link(q)
    BY <1>4 DEF SetFlags
  <2>2. \A g \in Group : current[g] = Null \/ current'[g] = current[g]
    BY <2>1 DEF Link
  <2>3. \A g \in Above[p] : current[g] # Null
    BY <1>1, WayChild, ParentType DEF Leads
  <2>4. QED BY <1>1, <1>2, <2>2, <2>3 DEF Leads
<1>5. CASE (Queued(running[q]) => Queued(word)) /\ (Queued(word) => Queued(running[q]))
  BY <1>2, <1>5 DEF SetFlags, lists, Leads
<1>6. QED BY <1>3, <1>4, <1>5

-----------------------------------------------------------------------------
\* What a search has been past.

\* The item after x in group g, going round.
After(g, x) == IF next[x] # Null THEN next[x] ELSE first[g]

\* There is nothing to be found in x.
Spent(x) == \A p \in Thread : x \in Way(p) => p # current_thread /\ ~CanSwapIn(p)

\* From where the search of group g began up to its current item all is spent:
\* D is what the search went past.
Trail(g) ==
  \E D \in SUBSET Under(g) :
    /\ search_start[g] \in D \cup {current[g]}
    /\ \A x \in D : After(g, x) \in D \cup {current[g]} /\ Spent(x)

\* The current items lead to where the search is.  In a group that it is in, and
\* that holds the current thread, it began right after that; what leads to the
\* current thread is still as it was in the groups that it has not come to.
Passing ==
  /\ Queued(running[current_thread])
  /\ \A x \in Way(at) \ {Top} : current[Parent[x]] = x
  /\ \A g \in Above[at] : Trail(g)
  /\ \A g \in Above[current_thread] : LET y == ChildToward(g, current_thread) IN
       IF g \in Above[at] THEN search_start[g] = After(g, y) ELSE current[g] = y
  /\ pc = "climb" => \A x \in Under(at) : Spent(x)

\* So it is while a search is on.
PassInv == pc \in {"search", "climb"} => Passing

\* Who goes round a group from anywhere comes to all of it.
LEMMA RoundIs ==
  ASSUME TreeIs, NEW g \in Group, NEW D \in SUBSET Under(g), D # {},
         \A x \in D : After(g, x) \in D
  PROVE  D = Under(g)
<1>1. Listed(Under(g), first[g], next, prev) /\ Null \notin Under(g)
  BY GroupLinks DEF TreeIs
<1>2. PICK n \in Nat : \E q \in [1..n -> Under(g)] : Chain(n, q, Under(g), first[g], next, prev)
  BY <1>1 DEF Listed
<1>3. PICK q \in [1..n -> Under(g)] : Chain(n, q, Under(g), first[g], next, prev)
  BY <1>2
<1>4. /\ \A x \in Under(g) : \E i \in 1..n : q[i] = x
      /\ first[g] = IF n = 0 THEN Null ELSE q[1]
      /\ \A i \in 1..n : next[q[i]] = IF i = n THEN Null ELSE q[i + 1]
  BY <1>3 DEF Chain
<1>5. \A i \in 1..n - 1 : q[i] \in D => q[i + 1] \in D
  <2>1. SUFFICES ASSUME NEW i \in 1..n - 1, q[i] \in D PROVE q[i + 1] \in D
    OBVIOUS
  <2>2. i \in 1..n /\ i + 1 \in 1..n /\ i # n
    BY <1>2
  <2>3. next[q[i]] = q[i + 1] /\ q[i + 1] # Null
    BY <1>1, <1>3, <1>4, <2>2
  <2>4. QED BY <2>1, <2>3 DEF After
<1>6. ASSUME NEW i \in 1..n, q[i] \in D, NEW j \in 1..n, i <= j PROVE q[j] \in D
  <2>1. PICK S : S = {k \in i..n : q[k] \notin D}
    OBVIOUS
  <2>2. SUFFICES ASSUME S # {} PROVE FALSE
    BY <1>6, <2>1
  <2>3. S \in SUBSET Nat
    BY <1>2, <2>1
  <2>4. PICK m \in S : \A k \in S : m <= k
    BY <2>2, <2>3, Least
  <2>5. m \in i..n /\ q[m] \notin D /\ m # i
    BY <1>6, <2>1, <2>4
  <2>6. m - 1 \in i..n /\ m - 1 \in 1..n - 1 /\ (m - 1) + 1 = m /\ ~(m <= m - 1)
    BY <1>2, <2>5
  <2>7. q[m - 1] \in D
    BY <2>1, <2>4, <2>6
  <2>8. q[m] \in D
    BY <1>5, <2>6, <2>7
  <2>9. QED BY <2>5, <2>8
<1>7. PICK i \in 1..n : q[i] \in D
  BY <1>4
<1>8. n \in 1..n /\ 1 \in 1..n /\ i <= n /\ n # 0
  BY <1>2, <1>7
<1>9. q[n] \in D
  BY <1>6, <1>7, <1>8
<1>10. next[q[n]] = Null /\ first[g] = q[1]
  BY <1>4, <1>8
<1>11. q[1] \in D
  BY <1>9, <1>10 DEF After
<1>12. \A j \in 1..n : q[j] \in D
  <2>1. \A j \in 1..n : 1 <= j
    BY <1>2
  <2>2. QED BY <1>6, <1>8, <1>11, <2>1
<1>13. QED BY <1>4, <1>12

\* A group all of which is spent is spent, and the current thread is not in it.
LEMMA Exhausted ==
  ASSUME TreeIs, SearchInv, Queued(running[current_thread]), NEW g \in Group,
         \A x \in Under(g) : Spent(x)
  PROVE  Spent(g) /\ g \notin Above[current_thread]
<1>1. ASSUME NEW p \in Thread, g \in Way(p), Queued(running[p])
      PROVE  p # current_thread /\ ~CanSwapIn(p)
  <2>1. p \in Item \ {Top} /\ HasToRun(p) /\ g \in Above[p]
    BY <1>1, ParentType DEF HasToRun, Way
  <2>2. ChildToward(g, p) \in Under(g) /\ ChildToward(g, p) \in Way(p)
    BY <2>1, UpLinked, WayChild
  <2>3. QED BY <2>2 DEF Spent
<1>2. ASSUME NEW p \in Thread, ~Queued(running[p])
      PROVE  p # current_thread /\ ~CanSwapIn(p)
  BY <1>2 DEF CanSwapIn
<1>3. Spent(g)
  BY <1>1, <1>2 DEF Spent
<1>4. g \notin Above[current_thread]
  BY <1>1 DEF SearchInv, Way
<1>5. QED BY <1>3, <1>4

\* Where the search is, is spent: then the trail has one more, and if what comes
\* next is where it began, the group is spent.
LEMMA TrailGrows ==
  ASSUME TreeIs, SearchInv, Passing, at # Top, HasToRun(at), Spent(at),
         NEW g \in Group, g = Parent[at], NEW y, y = After(g, at)
  PROVE  /\ \E D \in SUBSET Under(g) :
              /\ search_start[g] \in D \cup {y}
              /\ \A x \in D : After(g, x) \in D \cup {y} /\ Spent(x)
         /\ y = search_start[g] => \A x \in Under(g) : Spent(x)
<1>1. at \in Item \ {Top} /\ g \in Above[at] /\ at \in Under(g) /\ current[g] = at
  BY AboveIs DEF SearchInv, Under, Passing, Way
<1>2. PICK D \in SUBSET Under(g) :
         /\ search_start[g] \in D \cup {at}
         /\ \A x \in D : After(g, x) \in D \cup {at} /\ Spent(x)
  BY <1>1 DEF Passing, Trail
<1>3. PICK E : E = D \cup {at}
  OBVIOUS
<1>4. E \in SUBSET Under(g) /\ E # {} /\ search_start[g] \in E /\ \A x \in E : Spent(x)
  BY <1>1, <1>2, <1>3
<1>5. \A x \in E : After(g, x) \in E \cup {y}
  BY <1>2, <1>3
<1>6. ASSUME y = search_start[g] PROVE \A x \in Under(g) : Spent(x)
  <2>1. \A x \in E : After(g, x) \in E
    BY <1>4, <1>5, <1>6
  <2>2. E = Under(g)
    BY <1>4, <2>1, RoundIs
  <2>3. QED BY <1>4, <2>2
<1>7. QED BY <1>4, <1>5, <1>6

\* The search comes back to the current thread only past all others.
LEMMA AtHome ==
  ASSUME TreeIs, SearchInv, Passing, at = current_thread, NEW p \in Thread, p # current_thread
  PROVE  ~CanSwapIn(p)
<1>1. SUFFICES ASSUME Queued(running[p]) PROVE ~CanSwapIn(p)
  BY DEF CanSwapIn
<1>2. PICK q \in Thread : q = current_thread /\ Queued(running[q])
  BY DEF SearchInv, Passing
<1>3. PICK x \in Way(p) \ Way(q) :
         /\ x \in Item \ {Top} /\ Parent[x] \in Above[p] /\ Parent[x] \in Above[q]
         /\ x = ChildToward(Parent[x], p)
  BY <1>2, Fork
<1>4. PICK g : g = Parent[x]
  OBVIOUS
<1>5. p \in Item \ {Top} /\ q \in Item \ {Top} /\ HasToRun(p) /\ HasToRun(q) /\ g \in Group
  BY <1>1, <1>2, <1>3, <1>4, ParentType, AboveGroups DEF HasToRun
<1>6. x \in Under(g)
  BY <1>3, <1>4, <1>5, UpLinked
<1>7. PICK y : y = ChildToward(g, q)
  OBVIOUS
<1>8. y \in Under(g) /\ y \in Way(q) \ {Top} /\ Parent[y] = g
  BY <1>3, <1>4, <1>5, <1>7, UpLinked, WayChild
<1>9. current[g] = y /\ search_start[g] = After(g, y)
  BY <1>2, <1>3, <1>4, <1>7, <1>8 DEF Passing
<1>10. PICK D \in SUBSET Under(g) :
         /\ After(g, y) \in D \cup {y}
         /\ \A z \in D : After(g, z) \in D \cup {y} /\ Spent(z)
  BY <1>2, <1>3, <1>4, <1>9 DEF Passing, Trail
<1>11. PICK E : E = D \cup {y}
  OBVIOUS
<1>12. E = Under(g)
  <2>1. E \in SUBSET Under(g) /\ E # {} /\ \A z \in E : After(g, z) \in E
    BY <1>8, <1>10, <1>11
  <2>2. QED BY <1>5, <2>1, RoundIs
<1>13. x \in D
  BY <1>3, <1>6, <1>8, <1>11, <1>12
<1>14. QED BY <1>3, <1>10, <1>13 DEF Spent

-----------------------------------------------------------------------------
\* The steps of the search.

\* What it has been past looks the same from the next state.
LEMMA SameView ==
  ASSUME UNCHANGED <<running, ready, next, first, current_thread>>
  PROVE  /\ \A x : Spent(x)' <=> Spent(x)
         /\ \A g, x : After(g, x)' = After(g, x)
         /\ \A g : Under(g)' = Under(g)
BY DEF Spent, CanSwapIn, After, Under, HasToRun

\* To the next item of the group.
LEMMA Advance ==
  ASSUME TreeIs, SearchInv, Passing, at # Top, HasToRun(at), Spent(at),
         NEW g \in Group, g = Parent[at], NEW y \in Item \ {Top}, Parent[y] = g, y = After(g, at),
         UNCHANGED <<running, ready, next, first, current_thread>>,
         current' = [current EXCEPT ![g] = y], at' = y, pc' = "search",
         \A h \in Group \ {at} : search_start'[h] = search_start[h]
  PROVE  Passing'
<1>1. at \in Item \ {Top} /\ current \in [Group -> Item \cup {Null}]
  BY DEF SearchInv, TreeIs, LinkTypes
<1>2. Above[at] = {g} \cup Above[g] /\ Above[y] = Above[at] /\ Above[at] \subseteq Group
  BY <1>1, AboveIs, AboveGroups
<1>3. g \notin Above[g] /\ at \notin Above[at] /\ g \in Item
  BY <1>1, NotAboveItself, ParentType
<1>4. Queued(running[current_thread])'
  BY DEF Passing
<1>5. ASSUME NEW x \in Way(y) \ {Top} PROVE current'[Parent[x]] = x
  <2>1. CASE x = y
    BY <1>1, <2>1
  <2>2. CASE x # y
    <3>1. x \in Above[at] /\ x \in Item \ {Top} /\ Parent[x] \in Group
      BY <1>2, <1>5, <2>2, ParentType DEF Way
    <3>2. Parent[x] # g
      <4>1. CASE x = g
        BY <1>3, <3>1, <4>1, AboveIs
      <4>2. CASE x # g
        BY <1>2, <1>3, <3>1, <4>2, ParentAbove
      <4>3. QED BY <4>1, <4>2
    <3>3. current[Parent[x]] = x
      BY <3>1 DEF Passing, Way
    <3>4. QED BY <1>1, <3>1, <3>2, <3>3
  <2>3. QED BY <2>1, <2>2
<1>6. ASSUME NEW h \in Above[at] PROVE Trail(h)'
  <2>1. h \in Group /\ search_start'[h] = search_start[h]
    BY <1>2, <1>3
  <2>2. CASE h = g
    <3>1. PICK D \in SUBSET Under(g) :
              /\ search_start[g] \in D \cup {y}
              /\ \A x \in D : After(g, x) \in D \cup {y} /\ Spent(x)
      BY TrailGrows
    <3>2. current'[g] = y
      BY <1>1
    <3>3. QED BY <2>1, <2>2, <3>1, <3>2, SameView DEF Trail
  <2>3. CASE h # g
    <3>1. current'[h] = current[h]
      BY <1>1, <2>1, <2>3
    <3>2. PICK D \in SUBSET Under(h) :
              /\ search_start[h] \in D \cup {current[h]}
              /\ \A x \in D : After(h, x) \in D \cup {current[h]} /\ Spent(x)
      BY DEF Passing, Trail
    <3>3. QED BY <2>1, <3>1, <3>2, SameView DEF Trail
  <2>4. QED BY <2>2, <2>3
<1>7. ASSUME NEW h \in Above[current_thread], NEW z, z = ChildToward(h, current_thread)
      PROVE  IF h \in Above[y] THEN search_start'[h] = After(h, z)' ELSE current'[h] = z
  <2>1. IF h \in Above[at] THEN search_start[h] = After(h, z) ELSE current[h] = z
    BY <1>7 DEF Passing
  <2>2. CASE h \in Above[at]
    BY <1>2, <1>3, <2>1, <2>2, SameView
  <2>3. CASE h \notin Above[at]
    <3>1. h # g /\ h \in Group
      BY <1>2, <2>3, AboveGroups, ParentType DEF SearchInv
    <3>2. QED BY <1>1, <1>2, <2>1, <2>3, <3>1
  <2>4. QED BY <2>2, <2>3
<1>8. \A h \in Above[current_thread] : LET z == ChildToward(h, current_thread) IN
         IF h \in Above[y] THEN search_start'[h] = After(h, z)' ELSE current'[h] = z
  BY <1>7
<1>9. QED BY <1>2, <1>4, <1>5, <1>6, <1>8 DEF Passing

\* Up, when the next one is where the search of the group began.
LEMMA Ascend ==
  ASSUME TreeIs, SearchInv, Passing, at # Top, HasToRun(at), Spent(at),
         NEW g \in Group, g = Parent[at], search_start[g] = After(g, at),
         UNCHANGED <<running, ready, next, first, current_thread, current>>,
         at' = g, pc' = "climb",
         \A h \in Group \ {at} : search_start'[h] = search_start[h]
  PROVE  Passing'
<1>1. at \in Item \ {Top} /\ Above[at] = {g} \cup Above[g] /\ Above[at] \subseteq Group
  BY AboveIs, AboveGroups DEF SearchInv
<1>2. at \notin Above[at]
  BY <1>1, NotAboveItself
<1>3. \A x \in Under(g) : Spent(x)
  BY TrailGrows
<1>4. g \notin Above[current_thread]
  BY <1>3, Exhausted DEF Passing
<1>5. \A x \in Way(g) \ {Top} : current'[Parent[x]] = x
  BY <1>1 DEF Passing, Way
<1>6. ASSUME NEW h \in Above[g] PROVE Trail(h)'
  <2>1. h \in Above[at] /\ search_start'[h] = search_start[h]
    BY <1>1, <1>2
  <2>2. PICK D \in SUBSET Under(h) :
              /\ search_start[h] \in D \cup {current[h]}
              /\ \A x \in D : After(h, x) \in D \cup {current[h]} /\ Spent(x)
    BY <2>1 DEF Passing, Trail
  <2>3. QED BY <2>1, <2>2, SameView DEF Trail
<1>7. \A h \in Above[current_thread] : LET z == ChildToward(h, current_thread) IN
        IF h \in Above[g] THEN search_start'[h] = After(h, z)' ELSE current'[h] = z
  <2>1. SUFFICES ASSUME NEW h \in Above[current_thread], NEW z, z = ChildToward(h, current_thread)
                 PROVE  IF h \in Above[g] THEN search_start'[h] = After(h, z)' ELSE current'[h] = z
    OBVIOUS
  <2>2. IF h \in Above[at] THEN search_start[h] = After(h, z) ELSE current[h] = z
    BY <2>1 DEF Passing
  <2>3. h \in Above[g] <=> h \in Above[at]
    BY <1>1, <1>4, <2>1
  <2>4. h \in Above[at] => search_start'[h] = search_start[h]
    BY <1>1, <1>2
  <2>5. QED BY <2>2, <2>3, <2>4, SameView
<1>8. \A x \in Under(g)' : Spent(x)'
  BY <1>3, SameView
<1>9. QED BY <1>5, <1>6, <1>7, <1>8 DEF Passing

\* Into a group.
LEMMA Descend ==
  ASSUME IInv, TreeIs, SearchInv, Passing, SearchInGroup
  PROVE  Passing'
<1>1. PICK y : y = AfterCurrent(at)
  OBVIOUS
<1>2. at \in Group /\ at \in Item /\ first[at] # Null
  BY TopListed, ParentType DEF SearchInGroup, SearchInv, HasToRun
<1>3. y \in Under(at) /\ y \in Item \ {Top} /\ Parent[y] = at
  BY <1>1, <1>2, Around DEF Under
<1>4. /\ UNCHANGED <<running, ready, next, first, current_thread, pc>> /\ pc = "search"
      /\ current' = [current EXCEPT ![at] = y] /\ at' = y
      /\ search_start' = [search_start EXCEPT ![at] = y]
  BY <1>1 DEF SearchInGroup
<1>5. current'[at] = y /\ search_start'[at] = y
      /\ \A h \in Group \ {at} : current'[h] = current[h] /\ search_start'[h] = search_start[h]
  BY <1>2, <1>4 DEF TreeIs, LinkTypes, SearchInv
<1>6. Above[y] = {at} \cup Above[at] /\ at \notin Above[at] /\ Above[at] \subseteq Group
  BY <1>2, <1>3, AboveIs, NotAboveItself, AboveGroups
<1>7. ASSUME NEW x \in Way(y) \ {Top} PROVE current'[Parent[x]] = x
  <2>1. CASE x = y
    BY <1>3, <1>5, <2>1
  <2>2. CASE x # y
    <3>1. x \in Way(at) \ {Top} /\ x \in Item
      BY <1>2, <1>6, <1>7, <2>2, ParentType DEF Way
    <3>2. Parent[x] \in Above[at]
      BY <1>2, <3>1, AboveIs, ParentAbove DEF Way
    <3>3. Parent[x] \in Group \ {at}
      BY <1>6, <3>2
    <3>4. QED BY <1>5, <3>1, <3>3 DEF Passing
  <2>3. QED BY <2>1, <2>2
<1>8. ASSUME NEW h \in Above[y] PROVE Trail(h)'
  <2>1. CASE h = at
    <3>1. search_start'[h] \in {} \cup {current'[h]} /\ {} \in SUBSET Under(h)'
      BY <1>5, <2>1
    <3>2. QED BY <3>1 DEF Trail
  <2>2. CASE h # at
    <3>1. h \in Above[at] /\ h \in Group \ {at}
      BY <1>6, <2>2
    <3>2. PICK D \in SUBSET Under(h) :
              /\ search_start[h] \in D \cup {current[h]}
              /\ \A x \in D : After(h, x) \in D \cup {current[h]} /\ Spent(x)
      BY <3>1 DEF Passing, Trail
    <3>3. QED BY <1>4, <1>5, <3>1, <3>2, SameView DEF Trail
  <2>3. QED BY <2>1, <2>2
<1>9. ASSUME NEW h \in Above[current_thread], NEW z, z = ChildToward(h, current_thread)
      PROVE  IF h \in Above[y] THEN search_start'[h] = After(h, z)' ELSE current'[h] = z
  <2>1. IF h \in Above[at] THEN search_start[h] = After(h, z) ELSE current[h] = z
    BY <1>9 DEF Passing
  <2>2. After(h, z)' = After(h, z) /\ h \in Group
    BY <1>4, SameView, AboveGroups, ParentType DEF SearchInv
  <2>3. CASE h = at
    BY <1>1, <1>5, <1>6, <2>1, <2>2, <2>3 DEF AfterCurrent, After
  <2>4. CASE h # at
    BY <1>5, <1>6, <2>1, <2>2, <2>4
  <2>5. QED BY <2>3, <2>4
<1>10. \A h \in Above[current_thread] : LET z == ChildToward(h, current_thread) IN
         IF h \in Above[y] THEN search_start'[h] = After(h, z)' ELSE current'[h] = z
  BY <1>4, <1>9
<1>11. Queued(running'[current_thread'])
  BY <1>4 DEF Passing
<1>12. pc' # "climb"
  BY <1>4
<1>13. QED BY <1>4, <1>7, <1>8, <1>10, <1>11, <1>12 DEF Passing

-----------------------------------------------------------------------------
\* The invariant of searches.
WholeInv == FullInv /\ TameInv /\ RunInv /\ PassInv

\* At first the main thread runs, and is all that the top holds.
LEMMA WholeInit == Init => WholeInv
<1>1. SUFFICES ASSUME Init PROVE TameInv /\ RunInv /\ PassInv
  BY FullInit DEF WholeInv
<1>2. TameInv
  BY <1>1 DEF Init, TameInv, Tame
<1>3. Above[Main] = {Top} /\ ChildToward(Top, Main) = Main
  <2>1. Main \in Item \ {Top} /\ Above[Main] = {Top}
    BY ParentType, AboveIs, SchedulerAssumption
  <2>2. QED BY <2>1, WayChild, SchedulerAssumption DEF Way
<1>4. RunInv
  BY <1>1, <1>3, ParentType DEF Init, RunInv, Leads, Queued
<1>5. PassInv
  BY <1>1 DEF Init, PassInv
<1>6. QED BY <1>2, <1>4, <1>5

\* A search begins at the top, with what leads to the current thread as it was.
LEMMA Begins ==
  ASSUME Queued(running[current_thread])', Leads(current_thread)', at' = Top, pc' = "search"
  PROVE  Passing'
<1>1. Above[Top] = {} /\ Way(Top) = {Top}
  BY AboveIs DEF Way
<1>2. QED BY <1>1 DEF Passing, Leads

\* A step of the program.
LEMMA WholeProgram ==
  ASSUME IInv, TreeIs, SearchInv, TameInv, RunInv, ~Together, NEW p \in Thread, Program(p)
  PROVE  TameInv' /\ RunInv' /\ PassInv'
<1>1. /\ pc = "run" /\ pc' \in {"run", "search", "select"}
      /\ at' = Top \/ (at' = at /\ pc' = "run")
      /\ UNCHANGED <<search_start, current_thread>>
  BY ProgramDoes
<1>2. PICK t \in Thread : t = current_thread /\ Queued(running[t]) /\ Leads(t)
  BY <1>1 DEF RunInv, SearchInv
<1>3. TameInv'
  BY <1>2, TameProgram
<1>4. ASSUME NEW q \in Thread, NEW word, SetFlags(q, word), q = t => Queued(word)
      PROVE  Queued(running'[t]) /\ Leads(t)'
  BY <1>2, <1>4, SetFlagsLeads
<1>5. pc' = "select" \/ (Queued(running'[t]) /\ Leads(t)')
  <2>1. CASE Block(p)
    BY <1>2, <2>1 DEF Block, lists, Leads
  <2>2. CASE LeaveLine(p)
    <3>1. t = p
      BY <1>2, <2>2 DEF LeaveLine
    <3>2. PICK left : left = running[p] \ {"NEED_KILL_CLEANUP"}
      OBVIOUS
    <3>3. pc' = "select" \/ SetFlags(p, left)
      BY <2>2, <3>2 DEF LeaveLine, SwapOut
    <3>4. "RUNNING" \in running[p]
      BY <2>2, MainStays DEF LeaveLine, IInv, TameInv, Tame
    <3>5. QED BY <1>2, <1>4, <3>1, <3>2, <3>3, <3>4 DEF Queued
  <2>3. ASSUME NEW q \in Thread, Create(p, q)
        PROVE  Queued(running'[t]) /\ Leads(t)'
    BY <1>4, <2>3 DEF Create, Queued
  <2>4. ASSUME NEW q \in Thread, Resume(p, q)
        PROVE  Queued(running'[t]) /\ Leads(t)'
    BY <1>2, <1>4, <2>4 DEF Resume, Runs, WeakResume, Queued
  <2>5. ASSUME NEW q \in Thread, Suspend(p, q) \/ KillOther(p, q)
        PROVE  Queued(running'[t]) /\ Leads(t)'
    BY <1>2, <1>4, <2>5 DEF Suspend, KillOther, Runs
  <2>6. ASSUME NEW q \in Thread, UnSuspend(p, q)
        PROVE  Queued(running'[t]) /\ Leads(t)'
    BY <1>2, <1>4, <2>6 DEF UnSuspend, Runs
  <2>7. CASE WaitInLine(p) \/ SuspendSelf(p) \/ End(p)
    BY <2>7 DEF WaitInLine, SuspendSelf, End, SwapOut
  <2>8. CASE FreezeMain(p)
    BY <1>2, <1>4, <2>8, ParentType DEF FreezeMain, Runs
  <2>9. CASE ThawMain(p)
    BY <1>2, <1>4, <2>9, ParentType DEF ThawMain, Runs, UserResume, WeakResume, Queued
  <2>10. QED BY <2>1, <2>2, <2>3, <2>4, <2>5, <2>6, <2>7, <2>8, <2>9 DEF Program
<1>6. RunInv'
  BY <1>1, <1>2, <1>5 DEF RunInv, Leads
<1>7. PassInv'
  <2>1. SUFFICES ASSUME pc' = "search" PROVE Passing'
    BY <1>1 DEF PassInv
  <2>2. Queued(running[current_thread])' /\ Leads(current_thread)'
    BY <1>1, <1>2, <1>5, <2>1 DEF Leads
  <2>3. QED BY <1>1, <2>1, <2>2, Begins
<1>8. QED BY <1>3, <1>6, <1>7

\* What a step of the search finds and where it goes.
LEMMA WholeSearch ==
  ASSUME IInv, TreeIs, SearchInv, TameInv, PassInv, Search
  PROVE  TameInv' /\ RunInv' /\ PassInv'
<1>1. pc \in {"search", "climb"} /\ Passing
  BY DEF Search, SearchInGroup, SearchFindsItself, SearchFindsThread, SearchRemovesZombie,
         SearchGoesOn, SearchClimbs, PassInv
<1>2. at = Top \/ HasToRun(at)
  BY <1>1 DEF SearchInv
<1>3. PICK t \in Thread : t = current_thread /\ Queued(running[t])
  BY <1>1 DEF SearchInv, Passing
<1>4. CASE SearchInGroup
  <2>1. pc' = "search" /\ running' = running
    BY <1>4 DEF SearchInGroup
  <2>2. QED BY <1>1, <1>4, <2>1, Descend DEF TameInv, RunInv, PassInv
<1>5. CASE SearchFindsItself
  <2>1. /\ at = t /\ pc' = "run" /\ UNCHANGED <<running, current, current_thread>>
    BY <1>3, <1>5 DEF SearchFindsItself, lists
  <2>2. \A g \in Above[t] : current[g] = ChildToward(g, t)
    <3>1. t \in Item
      BY ParentType
    <3>2. ASSUME NEW g \in Above[t] PROVE current[g] = ChildToward(g, t)
      BY <1>1, <2>1, <3>1, WayChild DEF Passing
    <3>3. QED BY <3>2
  <2>3. QED BY <1>3, <2>1, <2>2 DEF TameInv, RunInv, Leads, PassInv
<1>6. CASE SearchFindsThread
  <2>1. PICK p \in Thread : p = at
    BY <1>6 DEF SearchFindsThread
  <2>2. SwapTo(p) /\ Queued(running[p]) /\ running' = running /\ pc' = "run" /\ current_thread' = p
    BY <1>6, <2>1 DEF SearchFindsThread, SwapTo, CanSwapIn
  <2>3. Leads(p)'
    BY <2>2, SwapLeads
  <2>4. QED BY <2>2, <2>3 DEF TameInv, RunInv, Leads, PassInv
<1>7. CASE SearchRemovesZombie
  BY <1>2, <1>7, NoZombie, ParentType DEF SearchRemovesZombie, HasToRun
<1>8. CASE SearchGoesOn
  <2>1. PICK g : g = Parent[at]
    OBVIOUS
  <2>2. PICK y : y = After(g, at)
    OBVIOUS
  <2>3. at \in Thread \ {t} /\ at # Top /\ at \in Item /\ HasToRun(at) /\ g \in Group /\ ~CanSwapIn(at)
    BY <1>2, <1>3, <1>8, <2>1, ParentType DEF SearchGoesOn
  <2>4. Spent(at)
    <3>1. \A p \in Thread : at \in Way(p) => p = at
      BY <2>3, AboveGroups, ParentType DEF Way
    <3>2. QED BY <1>3, <2>3, <3>1 DEF Spent
  <2>5. at \in Under(g)
    BY <2>1, <2>3 DEF Under
  <2>6. y \in Item \ {Top} /\ Parent[y] = g
    BY <2>2, <2>3, <2>5, GroupLinks, Around DEF After
  <2>7. /\ UNCHANGED <<running, ready, next, first, current_thread, search_start>> /\ pc = "search"
        /\ IF y = search_start[g] THEN pc' = "climb" /\ at' = g /\ UNCHANGED current
           ELSE current' = [current EXCEPT ![g] = y] /\ at' = y /\ pc' = "search"
    BY <1>8, <2>1, <2>2 DEF SearchGoesOn, After
  <2>8. Passing'
    <3>1. CASE y = search_start[g]
      BY <1>1, <2>1, <2>2, <2>3, <2>4, <2>7, <3>1, Ascend
    <3>2. CASE y # search_start[g]
      BY <1>1, <2>1, <2>2, <2>3, <2>4, <2>6, <2>7, <3>2, Advance
    <3>3. QED BY <3>1, <3>2
  <2>9. pc' # "run"
    BY <2>7
  <2>10. QED BY <2>7, <2>8, <2>9 DEF TameInv, RunInv, PassInv
<1>9. CASE SearchClimbs
  <2>1. at \in Group /\ at \in Item /\ pc = "climb"
    BY <1>9, ParentType DEF SearchClimbs, SearchInv
  <2>2. Spent(at) /\ at \notin Above[t]
    BY <1>1, <1>3, <2>1, Exhausted DEF Passing
  <2>3. at # Top
    BY <1>3, <2>2, TopAbove, ParentType
  <2>4. PICK g : g = Parent[at]
    OBVIOUS
  <2>5. g \in Group /\ HasToRun(at)
    BY <1>2, <2>1, <2>3, <2>4, ParentType
  <2>6. at \in Under(g)
    BY <2>1, <2>3, <2>4, <2>5 DEF Under
  <2>7. PICK y : y = After(g, at)
    OBVIOUS
  <2>8. y \in Item \ {Top} /\ Parent[y] = g
    BY <2>5, <2>6, <2>7, GroupLinks, Around DEF After
  <2>9. current[g] = at
    BY <1>1, <2>3, <2>4 DEF Passing, Way
  <2>10. AfterCurrent(g) = y
    BY <2>7, <2>9 DEF AfterCurrent, After
  <2>11. /\ UNCHANGED <<running, ready, next, first, current_thread>>
         /\ search_start' = [search_start EXCEPT ![at] = Null]
         /\ IF y = search_start[g] THEN at' = g /\ pc' = "climb" /\ UNCHANGED current
            ELSE current' = [current EXCEPT ![g] = y] /\ at' = y /\ pc' = "search"
    BY <1>9, <2>1, <2>3, <2>4, <2>10 DEF SearchClimbs
  <2>12. \A h \in Group \ {at} : search_start'[h] = search_start[h]
    BY <2>1, <2>11 DEF SearchInv
  <2>13. Passing'
    <3>1. CASE y = search_start[g]
      BY <1>1, <2>2, <2>3, <2>4, <2>5, <2>7, <2>11, <2>12, <3>1, Ascend
    <3>2. CASE y # search_start[g]
      BY <1>1, <2>2, <2>3, <2>4, <2>5, <2>7, <2>8, <2>11, <2>12, <3>2, Advance
    <3>3. QED BY <3>1, <3>2
  <2>14. pc' # "run"
    BY <2>11
  <2>15. QED BY <2>11, <2>13, <2>14 DEF TameInv, RunInv, PassInv
<1>10. QED BY <1>4, <1>5, <1>6, <1>7, <1>8, <1>9 DEF Search

\* A thread is chosen from the list of all.
LEMMA WholeSelect ==
  ASSUME IInv, SearchInv, TreeIs, TameInv, Select
  PROVE  TameInv' /\ RunInv' /\ PassInv'
<1>1. TameInv'
  BY DEF Select, SelectInGroup, SelectThread, Deadlock, TameInv
<1>2. CASE SelectInGroup \/ Deadlock
  BY <1>1, <1>2 DEF SelectInGroup, Deadlock, RunInv, PassInv
<1>3. CASE SelectThread
  <2>1. PICK k \in 1..Len(queue) : SwapTo(queue[k])
    <3>1. at = Top \/ HasToRun(at)
      BY <1>3 DEF SelectThread, SearchInv
    <3>2. at \in QueuedIn(running)
      BY <1>3, <3>1, ParentType DEF SelectThread, QueuedIn, HasToRun
    <3>3. \E j \in 1..Len(queue) : queue[j] = at
      BY <3>2 DEF IInv, Lists
    <3>4. (CHOOSE j \in 1..Len(queue) : queue[j] = at) \in 1..Len(queue)
      BY <3>3
    <3>5. \A j \in 1..Len(queue) : {l \in j..Len(queue) : Choosable(queue[l])} \subseteq 1..Len(queue)
      OBVIOUS
    <3>6. 1 \in 1..Len(queue)
      BY DEF IInv, Lists
    <3>7. QED BY <1>3, <3>4, <3>5, <3>6 DEF SelectThread
  <2>2. PICK p \in Thread : p = queue[k] /\ Queued(running[p])
    BY DEF IInv, Lists, QueuedIn
  <2>3. running' = running /\ current_thread' = p /\ pc' = "run"
    BY <1>3, <2>1, <2>2 DEF SelectThread, SwapTo
  <2>4. Leads(p)'
    BY <2>1, <2>2, SwapLeads
  <2>5. QED BY <1>1, <2>2, <2>3, <2>4 DEF RunInv, Leads, PassInv
<1>4. QED BY <1>2, <1>3 DEF Select

\* Every step keeps it.
LEMMA WholeStep ==
  ASSUME ~Together, WholeInv, [Next]_vars
  PROVE  WholeInv'
<1>1. IInv /\ TreeIs /\ SearchInv /\ TameInv /\ RunInv /\ PassInv
  BY DEF WholeInv, FullInv
<1>2. FullInv'
  BY FullStep DEF WholeInv
<1>3. ASSUME NEW p \in Thread, Yield(p) PROVE TameInv' /\ RunInv' /\ PassInv'
  <2>1. /\ pc = "run" /\ pc' = "search" /\ at' = Top /\ UNCHANGED <<running, current, current_thread>>
    BY <1>3 DEF Yield, lists
  <2>2. Queued(running[current_thread])' /\ Leads(current_thread)'
    BY <1>1, <2>1 DEF RunInv, Leads
  <2>3. Passing'
    BY <2>1, <2>2, Begins
  <2>4. QED BY <1>1, <2>1, <2>3 DEF TameInv, RunInv, PassInv
<1>4. ASSUME NEW p \in Thread, BecomeReady(p) PROVE TameInv' /\ RunInv' /\ PassInv'
  BY <1>1, <1>4 DEF BecomeReady, lists, search, TameInv, RunInv, Leads, PassInv
<1>5. ASSUME UNCHANGED vars PROVE TameInv' /\ RunInv' /\ PassInv'
  <2>1. UNCHANGED <<running, ready, next, first, current, current_thread, search_start, pc, at>>
    BY <1>5 DEF vars, lists, search
  <2>2. TameInv' /\ RunInv'
    BY <1>1, <2>1 DEF TameInv, RunInv, Leads
  <2>3. Passing => Passing'
    <3>1. SUFFICES ASSUME Passing PROVE \A g \in Above[at] : Trail(g)'
      BY <2>1, SameView DEF Passing
    <3>2. ASSUME NEW g, Trail(g) PROVE Trail(g)'
      BY <2>1, <3>2, SameView DEF Trail
    <3>3. QED BY <3>1, <3>2 DEF Passing
  <2>4. QED BY <1>1, <2>1, <2>2, <2>3 DEF PassInv
<1>6. TameInv' /\ RunInv' /\ PassInv'
  BY <1>1, <1>3, <1>4, <1>5, WholeProgram, WholeSearch, WholeSelect DEF Next
<1>7. QED BY <1>2, <1>6 DEF WholeInv

\* When a search gives up there is no thread to swap in.
LEMMA GivesUp ==
  ASSUME WholeInv, Next, pc \in {"search", "climb"}, pc' = "run", current_thread' = current_thread,
         running' = running, NEW p \in Thread \ {current_thread}
  PROVE  ~CanSwapIn(p)
<1>1. IInv /\ TreeIs /\ SearchInv /\ Passing
  BY DEF WholeInv, FullInv, PassInv
<1>2. Search
  <2>1. ASSUME NEW q \in Thread PROVE ~(Program(q) \/ Yield(q) \/ BecomeReady(q))
    BY <1>1, ProgramDoes DEF Yield, BecomeReady
  <2>2. ~Select
    BY DEF Select, SelectInGroup, SelectThread, Deadlock
  <2>3. QED BY <2>1, <2>2 DEF Next
<1>3. CASE SearchFindsItself
  BY <1>1, <1>3, AtHome DEF SearchFindsItself
<1>4. CASE SearchClimbs
  <2>1. at = Top /\ pc = "climb"
    BY <1>4 DEF SearchClimbs
  <2>2. Top \notin Above[current_thread]
    BY <1>1, <2>1, Exhausted, ParentType DEF Passing
  <2>3. QED BY <1>1, <2>2, TopAbove, ParentType DEF SearchInv
<1>5. ~SearchRemovesZombie
  <2>1. SUFFICES ASSUME SearchRemovesZombie PROVE FALSE
    OBVIOUS
  <2>2. at \in Thread /\ running' = [running EXCEPT ![at] = {}] /\ "KILLED" \in running[at]
    BY <2>1 DEF SearchRemovesZombie, SetFlags, Zombie
  <2>3. QED BY <1>1, <2>2 DEF IInv
<1>6. ~SearchInGroup /\ ~SearchFindsThread /\ ~SearchGoesOn
  BY DEF SearchInGroup, SearchFindsThread, SwapTo, SearchGoesOn
<1>7. QED BY <1>2, <1>3, <1>4, <1>5, <1>6 DEF Search

\* The search in scheme_thread_block: for any tree of groups and wherever the
\* current items are, a search that gives up, so that the current thread goes on
\* or the process sleeps, has been at every other thread, and none of them could
\* be swapped in; unless programs can kill a thread that they have suspended and
\* then break it.
THEOREM SearchesAreComplete ==
  ASSUME ~({"kill", "suspend", "break"} \subseteq Op)
  PROVE  Spec => SearchIsComplete
<1>1. ~Together
  BY DEF Together
<1>2. Init => WholeInv
  BY WholeInit
<1>3. WholeInv /\ [Next]_vars => WholeInv'
  BY <1>1, WholeStep
<1>4. WholeInv /\ [Next]_vars
        => [(pc \in {"search", "climb"} /\ pc' = "run" /\ current_thread' = current_thread)
             => (running' # running \/ \A p \in Thread \ {current_thread} : ~CanSwapIn(p))]_vars
  BY GivesUp
<1>5. QED BY <1>2, <1>3, <1>4, PTL DEF Spec, SearchIsComplete
==============================================================================
