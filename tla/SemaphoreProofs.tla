-------------------------- MODULE SemaphoreProofs --------------------------
(***************************************************************************)
(* Proofs about Semaphore, for any threads, semaphores and maximum count;  *)
(* the last part proves that it implements AbstractSemaphore: each segment *)
(* of the C code is one of the steps that AbstractSemaphore allows, or     *)
(* none.                                                                   *)
(***************************************************************************)
EXTENDS Semaphore, FiniteSetTheorems, SequenceTheorems, TLAPS

\* What SubSeq leaves of a line after its first k threads.
LEMMA RestOfLine ==
  ASSUME NEW S, NEW q \in Seq(S), NEW k \in 1..Len(q)
  PROVE  LET r == SubSeq(q, k + 1, Len(q))
         IN  /\ r \in Seq(S)
             /\ Len(r) = Len(q) - k
             /\ \A i \in 1..Len(r) : r[i] = q[i + k] /\ i + k \in 1..Len(q)
<1>1. Len(q) \in Nat
  BY LenProperties
<1>2. \A i \in k + 1 .. Len(q) : q[i] \in S
  BY <1>1, ElementOfSeq
<1> DEFINE r == SubSeq(q, k + 1, Len(q))
<1>3. /\ r \in Seq(S)
      /\ Len(r) = IF k + 1 <= Len(q) THEN Len(q) - (k + 1) + 1 ELSE 0
      /\ \A i \in 1 .. Len(q) - (k + 1) + 1 : r[i] = q[(k + 1) + i - 1]
  BY <1>1, <1>2, SubSeqProperties
<1>4. Len(r) = Len(q) - k
  BY <1>1, <1>3
<1>5. \A i \in 1..Len(r) : r[i] = q[i + k] /\ i + k \in 1..Len(q)
  BY <1>1, <1>3, <1>4
<1> QED
  BY <1>3, <1>4, <1>5

\* What is left of a line without its k-th thread.
LEMMA LineWithoutOne ==
  ASSUME NEW S, NEW q \in Seq(S), NEW k \in 1..Len(q)
  PROVE  LET r == RemoveAt(q, k)
         IN  /\ r \in Seq(S)
             /\ Len(r) = Len(q) - 1
             /\ \A i \in 1..Len(r) : r[i] = q[IF i < k THEN i ELSE i + 1]
<1>1. Len(q) \in Nat
  BY LenProperties
<1> DEFINE a == SubSeq(q, 1, k - 1)
           b == SubSeq(q, k + 1, Len(q))
<1>2. /\ \A i \in 1 .. k - 1 : q[i] \in S
      /\ k - 1 \in Int
  BY <1>1, ElementOfSeq
<1>3. /\ a \in Seq(S)
      /\ Len(a) = IF 1 <= k - 1 THEN (k - 1) - 1 + 1 ELSE 0
      /\ \A i \in 1 .. (k - 1) - 1 + 1 : a[i] = q[1 + i - 1]
  BY <1>2, SubSeqProperties
<1>4. Len(a) = k - 1 /\ \A i \in 1 .. k - 1 : a[i] = q[i]
  BY <1>1, <1>3
<1>5. /\ b \in Seq(S) /\ Len(b) = Len(q) - k
      /\ \A i \in 1..Len(b) : b[i] = q[i + k]
  BY RestOfLine
<1>6. /\ a \o b \in Seq(S)
      /\ Len(a \o b) = Len(a) + Len(b)
      /\ \A i \in 1 .. Len(a) + Len(b) :
           (a \o b)[i] = IF i <= Len(a) THEN a[i] ELSE b[i - Len(a)]
  BY <1>3, <1>5, ConcatProperties
<1>7. RemoveAt(q, k) = a \o b
  BY DEF RemoveAt
<1> HIDE DEF a, b
<1>8. Len(a \o b) = Len(q) - 1
  BY <1>1, <1>4, <1>5, <1>6
<1>9. \A i \in 1..Len(a \o b) : (a \o b)[i] = q[IF i < k THEN i ELSE i + 1]
  <2> TAKE i \in 1..Len(a \o b)
  <2>1. CASE i < k
    BY <2>1, <1>1, <1>4, <1>6, <1>8
  <2>2. CASE ~(i < k)
    <3>1. (a \o b)[i] = b[i - Len(a)] /\ i - Len(a) \in 1..Len(b)
      BY <2>2, <1>1, <1>4, <1>5, <1>6, <1>8
    <3>2. b[i - Len(a)] = q[(i - Len(a)) + k]
      BY <3>1, <1>5
    <3>3. (i - Len(a)) + k = i + 1
      BY <1>1, <1>4, <1>8
    <3> QED
      BY <2>2, <3>1, <3>2, <3>3
  <2> QED
    BY <2>1, <2>2
<1> QED
  BY <1>6, <1>7, <1>8, <1>9

-----------------------------------------------------------------------------
\* The shapes that a flag word takes, which the other invariants rest on.
FlagInv ==
  \A t \in Thread :
    /\ running[t] # {} => "RUNNING" \in running[t]
    /\ "NEED_KILL_CLEANUP" \in running[t]
         <=> t # Main /\ pc[t] = "wait" /\ running[t] # {}
    /\ t = Main => running[t] \in {{"RUNNING"}, {"RUNNING", "USER_SUSPENDED"}}
    /\ "KILLED" \in running[t] =>
         /\ "USER_SUSPENDED" \notin running[t]
         /\ {"NEED_KILL_CLEANUP", "SUSPENDED"} \notin SUBSET running[t]

\* A main thread that is suspended in a wait will notice when it is resumed.
MainInv ==
  "USER_SUSPENDED" \in running[Main] /\ pc[Main] = "wait" => main_was_once_suspended

IInv == TypeOK /\ FlagInv /\ MainInv /\ LineInv /\ SleeperInLine

LEMMA FlagOperators ==
  ASSUME NEW word \in SUBSET Flag
  PROVE  /\ WeakSuspend(word) \in SUBSET Flag
         /\ WeakResume(word) \in SUBSET Flag
         /\ UserSuspend(word) \in SUBSET Flag
         /\ UserResume(word) \in SUBSET Flag
         /\ Kill(word) \in SUBSET Flag
BY DEF Flag, WeakSuspend, WeakResume, UserSuspend, UserResume, Kill, Queued

LEMMA PickWaiterType ==
  ASSUME TypeOK, NEW s \in AnySema, NEW v \in 0..MaxCount,
         NEW word \in [Thread -> SUBSET Flag], PickWaiter(s, v, word)
  PROVE  /\ value' \in [AnySema -> -1..MaxCount]
         /\ line' \in [AnySema -> Seq(Thread)]
         /\ running' \in [Thread -> SUBSET Flag]
         /\ picked' \in [Thread -> BOOLEAN]
<1> USE ConstantsAssumption
<1>1. CASE NobodyPicked(s, v, word)
  BY <1>1 DEF TypeOK, NobodyPicked
<1>2. CASE \E k \in Pickable(s) : FirstPicked(s, v, word, k)
  <2>1. PICK k \in Pickable(s) : FirstPicked(s, v, word, k)
    BY <1>2
  <2> DEFINE w == line[s][k]
  <2>2. line[s] \in Seq(Thread) /\ k \in 1..Len(line[s])
    BY DEF TypeOK, Pickable
  <2>3. w \in Thread
    BY <2>2, ElementOfSeq
  <2>4. SubSeq(line[s], k + 1, Len(line[s])) \in Seq(Thread)
    BY <2>2, RestOfLine
  <2>5. line' \in [AnySema -> Seq(Thread)]
    BY <2>1, <2>4 DEF TypeOK, FirstPicked
  <2>6. WeakResume(word[w]) \in SUBSET Flag
    BY <2>3, FlagOperators
  <2>7. running' \in [Thread -> SUBSET Flag]
    BY <2>1, <2>3, <2>6 DEF FirstPicked
  <2>8. (IF fair[w] THEN v - 1 ELSE v) \in -1..MaxCount
    BY <2>3
  <2> QED
    BY <2>1, <2>5, <2>7, <2>8 DEF TypeOK, FirstPicked
<1> QED
  BY <1>1, <1>2 DEF PickWaiter

LEMMA TypeInit == Init => TypeOK
<1> SUFFICES ASSUME Init PROVE TypeOK
  OBVIOUS
<1>1. value \in [AnySema -> -1..MaxCount]
  <2>1. InitCount \subseteq -1..MaxCount
    BY ConstantsAssumption
  <2> QED
    BY <2>1 DEF Init
<1>2. line \in [AnySema -> Seq(Thread)]
  <2>1. <<>> \in Seq(Thread)
    BY EmptySeq
  <2> QED
    BY <2>1 DEF Init
<1> QED
  BY <1>1, <1>2 DEF Init, TypeOK, Flag

LEMMA TakenType == ASSUME NEW v \in -1..MaxCount PROVE Taken(v) \in -1..MaxCount
BY ConstantsAssumption DEF Taken

LEMMA ThreadBlockType ==
  ASSUME TypeOK, NEW t \in Thread, NEW word \in SUBSET Flag, ThreadBlock(t, word)
  PROVE  /\ running' \in [Thread -> SUBSET Flag]
         /\ pc' \in [Thread -> {"run", "wait", "block"}]
         /\ external_break' \in [Thread -> BOOLEAN]
         /\ enabled' \in [Thread -> BOOLEAN]
         /\ fair' \in [Thread -> BOOLEAN]
BY FlagOperators DEF TypeOK, ThreadBlock, WaitOver

LEMMA SleepInLineType ==
  ASSUME TypeOK, NEW t \in Thread, NEW s \in AnySema, SleepInLine(t, s)
  PROVE  /\ line' \in [AnySema -> Seq(Thread)]
         /\ running' \in [Thread -> SUBSET Flag]
         /\ pc' \in [Thread -> {"run", "wait", "block"}]
         /\ picked' \in [Thread -> BOOLEAN]
         /\ main_was_once_suspended' \in BOOLEAN
<1>1. Append(line[s], t) \in Seq(Thread)
  BY DEF TypeOK
<1>2. running[t] \cup {"NEED_KILL_CLEANUP", "SUSPENDED"} \in SUBSET Flag
  BY DEF TypeOK, Flag
<1> QED
  BY <1>1, <1>2 DEF TypeOK, SleepInLine

LEMMA LineWithoutType ==
  ASSUME TypeOK, NEW t \in Thread, NEW s \in AnySema
  PROVE  LineWithout(t, s) \in Seq(Thread)
<1>1. CASE \E k \in 1..Len(line[s]) : line[s][k] = t
  BY <1>1, LineWithoutOne DEF TypeOK, LineWithout
<1>2. CASE ~\E k \in 1..Len(line[s]) : line[s][k] = t
  BY <1>2 DEF TypeOK, LineWithout
<1> QED
  BY <1>1, <1>2

\* The type invariant is inductive.
LEMMA TypeStep == TypeOK /\ [Next]_vars => TypeOK'
<1> SUFFICES ASSUME TypeOK, [Next]_vars PROVE TypeOK'
  OBVIOUS
<1> USE ConstantsAssumption
<1>1. ASSUME NEW t \in Thread, Resume(t) PROVE TypeOK'
  <2> DEFINE s == sema[t]
  <2>0. s \in AnySema /\ value[s] \in -1..MaxCount /\ Taken(value[s]) \in -1..MaxCount
    BY TakenType DEF TypeOK
  <2>1. CASE ReturnWithPost(t)
    BY <2>0, <2>1 DEF TypeOK, ReturnWithPost, WaitOver
  <2>2. CASE PostStolen(t)
    BY <2>0, <2>2, SleepInLineType DEF TypeOK, PostStolen
  <2>3. CASE DieAfterPick(t)
    <3> DEFINE word == [running EXCEPT ![t] = {}]
    <3>1. word \in [Thread -> SUBSET Flag]
      BY DEF TypeOK
    <3>2. CASE ~fair[t] /\ Taken(value[s]) > 0
      <4>1. Taken(value[s]) \in 0..MaxCount /\ PickWaiter(s, Taken(value[s]), word)
        BY <2>0, <2>3, <3>2 DEF DieAfterPick
      <4> QED
        BY <2>0, <2>3, <3>1, <4>1, PickWaiterType DEF TypeOK, DieAfterPick, WaitOver
    <3>3. CASE ~(~fair[t] /\ Taken(value[s]) > 0)
      <4>1. /\ value' = [value EXCEPT ![s] = IF fair[t] THEN value[s] ELSE Taken(value[s])]
            /\ running' = word /\ line' = line /\ picked' = picked
        BY <2>3, <3>3 DEF DieAfterPick
      <4>2. value' \in [AnySema -> -1..MaxCount]
        BY <2>0, <4>1 DEF TypeOK
      <4> QED
        BY <2>3, <3>1, <4>1, <4>2 DEF TypeOK, DieAfterPick, WaitOver
    <3> QED
      BY <3>2, <3>3
  <2>4. CASE LeaveLine(t)
    <3>1. running[t] \ {"NEED_KILL_CLEANUP"} \in SUBSET Flag
      BY DEF TypeOK
    <3> QED
      BY <2>0, <2>4, <3>1, ThreadBlockType, LineWithoutType DEF TypeOK, LeaveLine
  <2>5. CASE BreakAfterBlock(t)
    BY <2>5, ThreadBlockType DEF TypeOK, BreakAfterBlock
  <2>6. CASE PollAfterBlock(t)
    BY <2>0, <2>6 DEF TypeOK, PollAfterBlock, WaitOver
  <2>7. CASE WaitAgain(t)
    BY <2>0, <2>7, SleepInLineType DEF TypeOK, WaitAgain
  <2> QED
    BY <1>1, <2>1, <2>2, <2>3, <2>4, <2>5, <2>6, <2>7 DEF Resume
<1>2. ASSUME NEW t \in Thread, Primitive(t) PROVE TypeOK'
  <2>1. ASSUME NEW s \in AnySema, SemaphorePost(t, s) PROVE TypeOK'
    <3>1. value[s] \in -1..MaxCount /\ value[s] + 1 \in 0..MaxCount
      BY <2>1 DEF TypeOK, SemaphorePost
    <3> QED
      BY <2>1, <3>1, PickWaiterType DEF TypeOK, SemaphorePost
  <2>2. ASSUME NEW s \in AnySema, PostSemaAll(t, s) PROVE TypeOK'
    <3>1. \A u \in Thread : WeakResume(running[u]) \in SUBSET Flag
      BY FlagOperators DEF TypeOK
    <3>2. running' \in [Thread -> SUBSET Flag]
      BY <2>2, <3>1 DEF TypeOK, PostSemaAll
    <3>3. line' \in [AnySema -> Seq(Thread)]
      BY <2>2 DEF TypeOK, PostSemaAll
    <3>4. picked' \in [Thread -> BOOLEAN]
      BY <2>2 DEF TypeOK, PostSemaAll
    <3> QED
      BY <2>2, <3>2, <3>3, <3>4 DEF TypeOK, PostSemaAll
  <2>3. ASSUME NEW s \in AnySema, TakeNow(t, s) PROVE TypeOK'
    BY <2>3, TakenType DEF TypeOK, TakeNow
  <2>4. ASSUME NEW s \in AnySema, NEW e \in BOOLEAN, Wait(t, s, e) PROVE TypeOK'
    BY <2>4, SleepInLineType DEF TypeOK, Wait
  <2>5. CASE RaiseBreak(t)
    BY <2>5 DEF TypeOK, RaiseBreak
  <2> QED
    BY <1>2, <2>1, <2>2, <2>3, <2>4, <2>5 DEF Primitive
<1>3. ASSUME NEW t \in Thread, Signals(t) PROVE TypeOK'
  <2>1. ASSUME NEW p \in Thread, BreakThread(t, p) PROVE TypeOK'
    BY <2>1, FlagOperators DEF TypeOK, BreakThread
  <2>2. ASSUME NEW p \in Thread, ThreadSuspend(t, p) PROVE TypeOK'
    <3>1. running[p] \cup {"USER_SUSPENDED"} \in SUBSET Flag /\ UserSuspend(running[p]) \in SUBSET Flag
      BY FlagOperators DEF TypeOK, Flag
    <3> QED
      BY <2>2, <3>1 DEF TypeOK, ThreadSuspend
  <2>3. ASSUME NEW p \in Thread, ThreadResume(t, p) PROVE TypeOK'
    BY <2>3, FlagOperators DEF TypeOK, ThreadResume
  <2>4. ASSUME NEW p \in Thread, KillThread(t, p) PROVE TypeOK'
    BY <2>4, FlagOperators DEF TypeOK, KillThread
  <2> QED
    BY <1>3, <2>1, <2>2, <2>3, <2>4 DEF Signals
<1>4. ASSUME NEW t \in Thread, ReapKilled(t) PROVE TypeOK'
  BY <1>4 DEF TypeOK, ReapKilled
<1>5. CASE UNCHANGED vars
  BY <1>5 DEF TypeOK, vars
<1> QED
  BY <1>1, <1>2, <1>3, <1>4, <1>5 DEF Next

THEOREM TypeCorrect == Spec => []TypeOK
<1> QED
  BY TypeInit, TypeStep, PTL DEF Spec

-----------------------------------------------------------------------------
\* Flags.

LEMMA FlagInit == Init => FlagInv /\ MainInv
BY ConstantsAssumption DEF Init, FlagInv, MainInv

\* A post wakes one thread at most, and changes no other flag word.
LEMMA PickWaiterFlags ==
  ASSUME TypeOK, NEW s \in AnySema, NEW v, NEW word \in [Thread -> SUBSET Flag],
         PickWaiter(s, v, word), NEW u \in Thread
  PROVE  /\ running'[u] = word[u] \/ running'[u] = WeakResume(word[u])
         /\ picked'[u] = picked[u] \/ running'[u] = WeakResume(word[u])
<1>1. CASE NobodyPicked(s, v, word)
  BY <1>1 DEF NobodyPicked
<1>2. CASE \E k \in Pickable(s) : FirstPicked(s, v, word, k)
  <2>1. PICK k \in Pickable(s) : FirstPicked(s, v, word, k)
    BY <1>2
  <2>2. line[s][k] \in Thread
    BY ElementOfSeq DEF TypeOK, Pickable
  <2> QED
    BY <2>1, <2>2 DEF FirstPicked, TypeOK
<1> QED
  BY <1>1, <1>2 DEF PickWaiter

\* Waking a thread keeps its flags in shape.
FlagsOf(t, word, at) ==
  /\ word # {} => "RUNNING" \in word
  /\ "NEED_KILL_CLEANUP" \in word <=> t # Main /\ at = "wait" /\ word # {}
  /\ t = Main => word \in {{"RUNNING"}, {"RUNNING", "USER_SUSPENDED"}}
  /\ "KILLED" \in word =>
       /\ "USER_SUSPENDED" \notin word
       /\ {"NEED_KILL_CLEANUP", "SUSPENDED"} \notin SUBSET word

LEMMA FlagInvIs == FlagInv <=> \A t \in Thread : FlagsOf(t, running[t], pc[t])
BY DEF FlagInv, FlagsOf

LEMMA FlagInvNext == FlagInv' <=> \A t \in Thread : FlagsOf(t, running'[t], pc'[t])
BY DEF FlagInv, FlagsOf

LEMMA WakeFlags ==
  ASSUME NEW t \in Thread, NEW word \in SUBSET Flag, NEW at, FlagsOf(t, word, at)
  PROVE  FlagsOf(t, WeakResume(word), at)
BY DEF FlagsOf, WeakResume

LEMMA FlagStep == TypeOK /\ FlagInv /\ [Next]_vars => FlagInv'
<1> SUFFICES ASSUME TypeOK, FlagInv, [Next]_vars,
                    NEW u \in Thread
             PROVE  FlagsOf(u, running'[u], pc'[u])
  BY FlagInvNext
<1> USE ConstantsAssumption
<1>0. FlagsOf(u, running[u], pc[u]) /\ running[u] \in SUBSET Flag
  BY FlagInvIs DEF TypeOK
<1>1. ASSUME NEW t \in Thread, Resume(t) PROVE FlagsOf(u, running'[u], pc'[u])
  <2>0. FlagsOf(t, running[t], pc[t]) /\ running[t] \in SUBSET Flag
    BY FlagInvIs DEF TypeOK
  <2>1. CASE ReturnWithPost(t)
    BY <1>0, <2>0, <2>1 DEF TypeOK, ReturnWithPost, WaitOver, FlagsOf, Awake
  <2>2. CASE PostStolen(t)
    <3>1. /\ pc'[t] = "wait" /\ pc[t] = "wait" /\ "KILLED" \notin running[t]
          /\ running'[t] = IF t = Main THEN running[t]
                           ELSE running[t] \cup {"NEED_KILL_CLEANUP", "SUSPENDED"}
          /\ u # t => running'[u] = running[u] /\ pc'[u] = pc[u]
      BY <2>2 DEF TypeOK, PostStolen, SleepInLine, Awake
    <3>2. FlagsOf(t, running'[t], pc'[t])
      <4>1. running[t] # {}
        BY <2>0, <2>2 DEF PostStolen, Awake, Queued
      <4> QED
        BY <2>0, <3>1, <4>1 DEF FlagsOf
    <3> QED
      BY <1>0, <3>1, <3>2
  <2>3. CASE DieAfterPick(t)
    <3> DEFINE word == [running EXCEPT ![t] = {}]
    <3>1. word \in [Thread -> SUBSET Flag] /\ t # Main
      BY <2>0, <2>3 DEF TypeOK, DieAfterPick, FlagsOf
    <3>2. FlagsOf(u, word[u], pc'[u]) /\ word[u] \in SUBSET Flag
      BY <1>0, <2>3, <3>1 DEF TypeOK, DieAfterPick, WaitOver, FlagsOf
    <3>3. running'[u] = word[u] \/ running'[u] = WeakResume(word[u])
      <4>1. CASE PickWaiter(sema[t], Taken(value[sema[t]]), word)
        <5>1. sema[t] \in AnySema
          BY DEF TypeOK
        <5> QED
          BY <3>1, <4>1, <5>1, PickWaiterFlags
      <4>2. CASE running' = word
        BY <4>2
      <4> QED
        BY <2>3, <4>1, <4>2 DEF DieAfterPick
    <3> QED
      BY <3>2, <3>3, WakeFlags
  <2>4. CASE LeaveLine(t)
    <3>1. PICK word \in SUBSET Flag : word = running[t] \ {"NEED_KILL_CLEANUP"}
      BY <2>0
    <3>2. CASE u # t
      <4>1. running'[u] = running[u] /\ pc'[u] = pc[u]
        BY <2>4, <3>2 DEF TypeOK, LeaveLine, ThreadBlock, WaitOver
      <4> QED
        BY <1>0, <4>1
    <3>3. pc[t] = "wait" /\ running[t] # {}
      BY <2>0, <2>4 DEF LeaveLine, Awake, Queued
    <3>4. /\ pc'[t] \in {"run", "block"}
          /\ \/ running'[t] = {} /\ "KILLED" \in word
             \/ running'[t] = WeakSuspend(word) /\ {"KILLED", "USER_SUSPENDED"} \cap word = {"USER_SUSPENDED"}
             \/ running'[t] = word
      BY <2>4, <3>1 DEF TypeOK, LeaveLine, ThreadBlock, WaitOver
    <3>5. t = Main => running[t] = {"RUNNING"}
      BY <2>4 DEF LeaveLine, Awake
    <3>6. CASE running'[t] = {} /\ "KILLED" \in word
      <4>1. t # Main
        BY <3>1, <3>5, <3>6
      <4> QED
        BY <3>2, <3>4, <3>6, <4>1 DEF FlagsOf
    <3>7. CASE /\ running'[t] = WeakSuspend(word)
               /\ {"KILLED", "USER_SUSPENDED"} \cap word = {"USER_SUSPENDED"}
      <4>1. t # Main
        BY <3>1, <3>5, <3>7
      <4> QED
        BY <2>0, <3>1, <3>2, <3>3, <3>4, <3>7, <4>1 DEF FlagsOf, WeakSuspend
    <3>8. CASE running'[t] = word
      BY <2>0, <3>1, <3>2, <3>3, <3>4, <3>5, <3>8 DEF FlagsOf
    <3> QED
      BY <3>4, <3>6, <3>7, <3>8
  <2>5. CASE BreakAfterBlock(t)
    <3>1. running' = running /\ pc' = [pc EXCEPT ![t] = "run"] /\ pc[t] = "block"
      BY <2>5 DEF TypeOK, BreakAfterBlock, Blocked, ThreadBlock, WaitOver
    <3> QED
      BY <1>0, <2>0, <3>1 DEF TypeOK, FlagsOf
  <2>6. CASE PollAfterBlock(t)
    BY <1>0, <2>0, <2>6 DEF TypeOK, PollAfterBlock, Blocked, WaitOver, FlagsOf
  <2>7. CASE WaitAgain(t)
    BY <1>0, <2>0, <2>7 DEF TypeOK, WaitAgain, Blocked, SleepInLine, FlagsOf
  <2> QED
    BY <1>1, <2>1, <2>2, <2>3, <2>4, <2>5, <2>6, <2>7 DEF Resume
<1>2. ASSUME NEW t \in Thread, Primitive(t) PROVE FlagsOf(u, running'[u], pc'[u])
  <2>1. ASSUME NEW s \in AnySema, SemaphorePost(t, s) PROVE FlagsOf(u, running'[u], pc'[u])
    <3>1. running'[u] = running[u] \/ running'[u] = WeakResume(running[u])
      BY <2>1, PickWaiterFlags DEF SemaphorePost, TypeOK
    <3> QED
      BY <1>0, <2>1, <3>1, WakeFlags DEF SemaphorePost
  <2>2. ASSUME NEW s \in AnySema, PostSemaAll(t, s) PROVE FlagsOf(u, running'[u], pc'[u])
    BY <1>0, <2>2, WakeFlags DEF PostSemaAll
  <2>3. ASSUME NEW s \in AnySema, TakeNow(t, s) PROVE FlagsOf(u, running'[u], pc'[u])
    BY <1>0, <2>3 DEF TakeNow
  <2>4. ASSUME NEW s \in AnySema, NEW e \in BOOLEAN, Wait(t, s, e)
        PROVE  FlagsOf(u, running'[u], pc'[u])
    BY <1>0, <2>4 DEF TypeOK, Wait, Runs, SleepInLine, FlagsOf
  <2>5. CASE RaiseBreak(t)
    BY <1>0, <2>5 DEF RaiseBreak
  <2> QED
    BY <1>2, <2>1, <2>2, <2>3, <2>4, <2>5 DEF Primitive
<1>3. ASSUME NEW t \in Thread, Signals(t) PROVE FlagsOf(u, running'[u], pc'[u])
  <2>1. ASSUME NEW p \in Thread, BreakThread(t, p) PROVE FlagsOf(u, running'[u], pc'[u])
    BY <1>0, <2>1, WakeFlags DEF TypeOK, BreakThread
  <2>2. ASSUME NEW p \in Thread, ThreadSuspend(t, p) PROVE FlagsOf(u, running'[u], pc'[u])
    BY <1>0, <2>2 DEF TypeOK, ThreadSuspend, StillRunning, UserSuspend, WeakResume, WeakSuspend, FlagsOf
  <2>3. ASSUME NEW p \in Thread, ThreadResume(t, p) PROVE FlagsOf(u, running'[u], pc'[u])
    BY <1>0, <2>3 DEF TypeOK, ThreadResume, StillRunning, UserResume, WeakResume, FlagsOf
  <2>4. ASSUME NEW p \in Thread, KillThread(t, p) PROVE FlagsOf(u, running'[u], pc'[u])
    BY <1>0, <2>4 DEF TypeOK, KillThread, StillRunning, Kill, Queued, WeakResume, FlagsOf, Runs
  <2> QED
    BY <1>3, <2>1, <2>2, <2>3, <2>4 DEF Signals
<1>4. ASSUME NEW t \in Thread, ReapKilled(t) PROVE FlagsOf(u, running'[u], pc'[u])
  BY <1>0, <1>4, FlagInvIs DEF TypeOK, ReapKilled, FlagsOf
<1>5. CASE UNCHANGED vars
  BY <1>0, <1>5 DEF vars
<1> QED
  BY <1>1, <1>2, <1>3, <1>4, <1>5 DEF Next

LEMMA MainStep == TypeOK /\ FlagInv /\ MainInv /\ [Next]_vars => MainInv'
<1> SUFFICES ASSUME TypeOK, FlagInv, MainInv, [Next]_vars PROVE MainInv'
  OBVIOUS
<1> USE ConstantsAssumption
\* A step that leaves Main where it is, or takes it out of its wait.
<1>0. ASSUME "USER_SUSPENDED" \in running'[Main] => "USER_SUSPENDED" \in running[Main],
             pc'[Main] = "wait" => pc[Main] = "wait",
             main_was_once_suspended' = main_was_once_suspended
      PROVE  MainInv'
  BY <1>0 DEF MainInv
\* A step in which a thread gets in line.
<1>00. ASSUME NEW t \in Thread, NEW s \in AnySema, SleepInLine(t, s), running[t] = {"RUNNING"} \/ t # Main
       PROVE  MainInv'
  BY <1>00 DEF TypeOK, MainInv, SleepInLine
<1>1. ASSUME NEW t \in Thread, Resume(t) PROVE MainInv'
  <2>0. sema[t] \in AnySema
    BY DEF TypeOK
  <2>1. CASE ReturnWithPost(t)
    BY <1>0, <2>1 DEF TypeOK, ReturnWithPost, WaitOver
  <2>2. CASE PostStolen(t)
    BY <1>00, <2>0, <2>2 DEF PostStolen, Awake
  <2>3. CASE DieAfterPick(t)
    <3> DEFINE word == [running EXCEPT ![t] = {}]
    <3>1. word \in [Thread -> SUBSET Flag]
      BY DEF TypeOK
    <3>2. running'[Main] = word[Main] \/ running'[Main] = WeakResume(word[Main])
      BY <2>0, <2>3, <3>1, PickWaiterFlags DEF DieAfterPick
    <3>3. "USER_SUSPENDED" \in running'[Main] => "USER_SUSPENDED" \in running[Main]
      BY <3>1, <3>2 DEF WeakResume, TypeOK
    <3> QED
      BY <1>0, <2>3, <3>3 DEF DieAfterPick, WaitOver, TypeOK
  <2>4. CASE LeaveLine(t)
    BY <1>0, <2>4 DEF TypeOK, LeaveLine, ThreadBlock, WaitOver, WeakSuspend
  <2>5. CASE BreakAfterBlock(t)
    BY <1>0, <2>5 DEF TypeOK, BreakAfterBlock, Blocked, ThreadBlock, WaitOver
  <2>6. CASE PollAfterBlock(t)
    BY <1>0, <2>6 DEF TypeOK, PollAfterBlock, WaitOver
  <2>7. CASE WaitAgain(t)
    BY <1>00, <2>0, <2>7 DEF WaitAgain, Blocked
  <2> QED
    BY <1>1, <2>1, <2>2, <2>3, <2>4, <2>5, <2>6, <2>7 DEF Resume
<1>2. ASSUME NEW t \in Thread, Primitive(t) PROVE MainInv'
  <2>1. ASSUME NEW s \in AnySema, SemaphorePost(t, s) PROVE MainInv'
    <3>1. running'[Main] = running[Main] \/ running'[Main] = WeakResume(running[Main])
      BY <2>1, PickWaiterFlags DEF SemaphorePost, TypeOK
    <3> QED
      BY <1>0, <2>1, <3>1 DEF SemaphorePost, WeakResume
  <2>2. ASSUME NEW s \in AnySema, PostSemaAll(t, s) PROVE MainInv'
    BY <1>0, <2>2 DEF PostSemaAll, WeakResume
  <2>3. ASSUME NEW s \in AnySema, TakeNow(t, s) PROVE MainInv'
    BY <1>0, <2>3 DEF TakeNow
  <2>4. ASSUME NEW s \in AnySema, NEW e \in BOOLEAN, Wait(t, s, e) PROVE MainInv'
    BY <1>00, <2>4 DEF Wait, Runs
  <2>5. CASE RaiseBreak(t)
    BY <1>0, <2>5 DEF RaiseBreak
  <2> QED
    BY <1>2, <2>1, <2>2, <2>3, <2>4, <2>5 DEF Primitive
<1>3. ASSUME NEW t \in Thread, Signals(t) PROVE MainInv'
  <2>1. ASSUME NEW p \in Thread, BreakThread(t, p) PROVE MainInv'
    BY <1>0, <2>1 DEF TypeOK, BreakThread, WeakResume
  <2>2. ASSUME NEW p \in Thread, ThreadSuspend(t, p) PROVE MainInv'
    BY <1>0, <2>2 DEF TypeOK, ThreadSuspend, MainInv
  <2>3. ASSUME NEW p \in Thread, ThreadResume(t, p) PROVE MainInv'
    BY <1>0, <2>3 DEF TypeOK, ThreadResume, UserResume, WeakResume
  <2>4. ASSUME NEW p \in Thread, KillThread(t, p) PROVE MainInv'
    BY <1>0, <2>4 DEF TypeOK, KillThread
  <2> QED
    BY <1>3, <2>1, <2>2, <2>3, <2>4 DEF Signals
<1>4. ASSUME NEW t \in Thread, ReapKilled(t) PROVE MainInv'
  BY <1>0, <1>4 DEF TypeOK, ReapKilled
<1>5. CASE UNCHANGED vars
  BY <1>5 DEF vars, MainInv
<1> QED
  BY <1>1, <1>2, <1>3, <1>4, <1>5 DEF Next

-----------------------------------------------------------------------------
\* Lines.

\* What LineInv says of the thread u that stands at k in the line of s.
LEMMA LineInvIs ==
  ASSUME LineInv, NEW s \in AnySema, NEW k \in 1..Len(line[s])
  PROVE  /\ pc[line[s][k]] = "wait" /\ sema[line[s][k]] = s
         /\ ~picked[line[s][k]] /\ running[line[s][k]] # {}
         /\ \A j \in 1..Len(line[s]) : line[s][j] = line[s][k] => j = k
BY DEF LineInv

LEMMA InLineThread ==
  ASSUME TypeOK, NEW s \in AnySema, NEW k \in 1..Len(line[s])
  PROVE  line[s][k] \in Thread
BY ElementOfSeq DEF TypeOK

LEMMA OnceInLine ==
  ASSUME LineInv, NEW s \in AnySema, NEW j \in 1..Len(line[s]), NEW k \in 1..Len(line[s]),
         line[s][j] = line[s][k]
  PROVE  j = k
BY DEF LineInv

LEMMA SameLine ==
  ASSUME LineInv, NEW s \in AnySema, line'[s] = line[s], NEW i \in 1..Len(line'[s])
  PROVE  \E k \in 1..Len(line[s]) :
           /\ line'[s][i] = line[s][k]
           /\ \A j \in 1..Len(line'[s]) : line'[s][j] = line[s][k] => j = i
<1>1. i \in 1..Len(line[s]) /\ line'[s][i] = line[s][i]
  OBVIOUS
<1>2. \A j \in 1..Len(line'[s]) : line'[s][j] = line[s][i] => j = i
  BY <1>1, OnceInLine
<1> QED
  BY <1>1, <1>2

\* A step that takes threads out of lines, or none, and does nothing else to
\* those that stay, keeps the lines in order.
LEMMA LinesShrink ==
  ASSUME TypeOK, LineInv,
         \A s \in AnySema : \A i \in 1..Len(line'[s]) :
           \E k \in 1..Len(line[s]) :
             /\ line'[s][i] = line[s][k]
             /\ \A j \in 1..Len(line'[s]) : line'[s][j] = line[s][k] => j = i,
         \A s \in AnySema : \A i \in 1..Len(line'[s]) :
           LET u == line'[s][i] IN
             /\ pc'[u] = pc[u] /\ sema'[u] = sema[u]
             /\ picked'[u] = picked[u] /\ (running[u] # {} => running'[u] # {})
  PROVE  LineInv'
<1> SUFFICES ASSUME NEW s \in AnySema, NEW i \in 1..Len(line'[s])
             PROVE  /\ pc'[line'[s][i]] = "wait" /\ sema'[line'[s][i]] = s
                    /\ ~picked'[line'[s][i]] /\ running'[line'[s][i]] # {}
                    /\ \A j \in 1..Len(line'[s]) : line'[s][j] = line'[s][i] => j = i
  BY DEF LineInv
<1>1. PICK k \in 1..Len(line[s]) :
        /\ line'[s][i] = line[s][k]
        /\ \A j \in 1..Len(line'[s]) : line'[s][j] = line[s][k] => j = i
  OBVIOUS
<1>2. /\ pc[line[s][k]] = "wait" /\ sema[line[s][k]] = s
      /\ ~picked[line[s][k]] /\ running[line[s][k]] # {}
  BY LineInvIs
<1>3. /\ pc'[line'[s][i]] = pc[line'[s][i]] /\ sema'[line'[s][i]] = sema[line'[s][i]]
      /\ picked'[line'[s][i]] = picked[line'[s][i]]
      /\ running[line'[s][i]] # {} => running'[line'[s][i]] # {}
  OBVIOUS
<1>4. /\ pc'[line'[s][i]] = "wait" /\ sema'[line'[s][i]] = s
      /\ ~picked'[line'[s][i]] /\ running'[line'[s][i]] # {}
  BY <1>1, <1>2, <1>3
<1> QED
  BY <1>1, <1>4

\* A step that changes no line.
LEMMA LinesKept ==
  ASSUME TypeOK, LineInv, line' = line,
         \A s \in AnySema : \A k \in 1..Len(line[s]) :
           LET u == line[s][k] IN
             /\ pc'[u] = pc[u] /\ sema'[u] = sema[u]
             /\ picked'[u] = picked[u] /\ (running[u] # {} => running'[u] # {})
  PROVE  LineInv'
<1>1. \A s \in AnySema : \A i \in 1..Len(line'[s]) :
        \E k \in 1..Len(line[s]) :
          /\ line'[s][i] = line[s][k]
          /\ \A j \in 1..Len(line'[s]) : line'[s][j] = line[s][k] => j = i
  BY LineInvIs
<1>2. \A s \in AnySema : \A i \in 1..Len(line'[s]) :
        LET u == line'[s][i] IN
          /\ pc'[u] = pc[u] /\ sema'[u] = sema[u]
          /\ picked'[u] = picked[u] /\ (running[u] # {} => running'[u] # {})
  OBVIOUS
<1> QED
  BY <1>1, <1>2, LinesShrink

\* A step that picks a waiter, done by a thread that stands in no line.
LEMMA LinesPick ==
  ASSUME TypeOK, LineInv, NEW s \in AnySema, NEW v, NEW word \in [Thread -> SUBSET Flag],
         PickWaiter(s, v, word), sema' = sema,
         \A z \in AnySema : \A k \in 1..Len(line[z]) :
           word[line[z][k]] = running[line[z][k]] /\ pc'[line[z][k]] = pc[line[z][k]]
  PROVE  LineInv'
<1>1. CASE NobodyPicked(s, v, word)
  <2>1. line' = [line EXCEPT ![s] = <<>>] /\ running' = word /\ picked' = picked
    BY <1>1 DEF NobodyPicked
  <2>2. \A z \in AnySema : \A i \in 1..Len(line'[z]) :
          line'[z] = line[z] /\ i \in 1..Len(line[z])
    BY <2>1, EmptySeq DEF TypeOK
  <2>3. \A z \in AnySema : \A i \in 1..Len(line'[z]) :
          \E k \in 1..Len(line[z]) :
            /\ line'[z][i] = line[z][k]
            /\ \A j \in 1..Len(line'[z]) : line'[z][j] = line[z][k] => j = i
    BY <2>2, LineInvIs
  <2>4. \A z \in AnySema : \A i \in 1..Len(line'[z]) :
          LET u == line'[z][i] IN
            /\ pc'[u] = pc[u] /\ sema'[u] = sema[u]
            /\ picked'[u] = picked[u] /\ (running[u] # {} => running'[u] # {})
    BY <2>1, <2>2
  <2> QED
    BY <2>3, <2>4, LinesShrink
<1>2. CASE \E k \in Pickable(s) : FirstPicked(s, v, word, k)
  <2>1. PICK k \in Pickable(s) : FirstPicked(s, v, word, k)
    BY <1>2
  <2> DEFINE w == line[s][k]
             rest == SubSeq(line[s], k + 1, Len(line[s]))
  <2>2. k \in 1..Len(line[s]) /\ line[s] \in Seq(Thread) /\ w \in Thread
    BY InLineThread DEF Pickable, TypeOK
  <2>3. /\ rest \in Seq(Thread) /\ Len(rest) = Len(line[s]) - k
        /\ \A i \in 1..Len(rest) : rest[i] = line[s][i + k] /\ i + k \in 1..Len(line[s])
    BY <2>2, RestOfLine
  <2>4. /\ line' = [line EXCEPT ![s] = rest]
        /\ running' = [word EXCEPT ![w] = WeakResume(@)]
        /\ picked' = [picked EXCEPT ![w] = TRUE]
    BY <2>1 DEF FirstPicked
  <2>5. \A z \in AnySema : z # s => line'[z] = line[z]
    BY <2>4 DEF TypeOK
  <2>6. line'[s] = rest
    BY <2>4 DEF TypeOK
  <2> HIDE DEF rest
  <2>7. \A z \in AnySema : \A i \in 1..Len(line'[z]) :
          \E m \in 1..Len(line[z]) :
            /\ line'[z][i] = line[z][m]
            /\ \A j \in 1..Len(line'[z]) : line'[z][j] = line[z][m] => j = i
    <3> SUFFICES ASSUME NEW z \in AnySema, NEW i \in 1..Len(line'[z])
                 PROVE  \E m \in 1..Len(line[z]) :
                          /\ line'[z][i] = line[z][m]
                          /\ \A j \in 1..Len(line'[z]) : line'[z][j] = line[z][m] => j = i
      OBVIOUS
    <3>1. CASE z # s
      BY <2>5, <3>1, LineInvIs
    <3>2. CASE z = s
      <4>1. i \in 1..Len(rest) /\ i + k \in 1..Len(line[s]) /\ rest[i] = line[s][i + k]
        BY <2>3, <2>6, <3>2
      <4>2. ASSUME NEW j \in 1..Len(rest), rest[j] = line[s][i + k] PROVE j = i
        <5>1. rest[j] = line[s][j + k] /\ j + k \in 1..Len(line[s])
          BY <2>3
        <5>2. j + k = i + k
          BY <4>1, <4>2, <5>1, OnceInLine
        <5>3. Len(rest) \in Nat /\ Len(line[s]) \in Nat
          BY <2>2, <2>3, LenProperties
        <5> QED
          BY <2>2, <4>1, <5>2, <5>3
      <4> QED
        BY <2>6, <3>2, <4>1, <4>2
    <3> QED
      BY <3>1, <3>2
  <2>8. \A z \in AnySema : \A i \in 1..Len(line'[z]) : line'[z][i] # w
    <3> SUFFICES ASSUME NEW z \in AnySema, NEW i \in 1..Len(line'[z]), line'[z][i] = w
                 PROVE  FALSE
      OBVIOUS
    <3>1. CASE z # s
      BY <2>2, <2>5, <3>1, LineInvIs
    <3>2. CASE z = s
      <4>1. rest[i] = line[s][i + k] /\ i + k \in 1..Len(line[s]) /\ i \in 1..Len(rest)
        BY <2>3, <2>6, <3>2
      <4>2. i + k = k
        BY <2>2, <2>6, <3>2, <4>1, LineInvIs
      <4>3. Len(rest) \in Nat /\ Len(line[s]) \in Nat
        BY <2>2, <2>3, LenProperties
      <4> QED
        BY <2>2, <4>1, <4>2, <4>3
    <3> QED
      BY <3>1, <3>2
  <2>9. \A z \in AnySema : \A i \in 1..Len(line'[z]) :
          LET u == line'[z][i] IN
            /\ pc'[u] = pc[u] /\ sema'[u] = sema[u]
            /\ picked'[u] = picked[u] /\ (running[u] # {} => running'[u] # {})
    <3> TAKE z \in AnySema
    <3> TAKE i \in 1..Len(line'[z])
    <3>1. PICK m \in 1..Len(line[z]) : line'[z][i] = line[z][m]
      BY <2>7
    <3> DEFINE u == line[z][m]
    <3>2. u \in Thread /\ u # w
      BY <2>8, <3>1, InLineThread
    <3>3. word[u] = running[u] /\ pc'[u] = pc[u]
      OBVIOUS
    <3>4. running'[u] = word[u] /\ picked'[u] = picked[u]
      BY <2>2, <2>4, <3>2 DEF TypeOK
    <3> QED
      BY <3>1, <3>3, <3>4
  <2> QED
    BY <2>7, <2>9, LinesShrink
<1> QED
  BY <1>1, <1>2 DEF PickWaiter

\* A thread that stands in no line gets into one.
LEMMA LinesGrow ==
  ASSUME TypeOK, LineInv, NEW t \in Thread, NEW s \in AnySema, SleepInLine(t, s),
         pc[t] # "wait" \/ picked[t], running[t] # {},
         sema' = [sema EXCEPT ![t] = s]
  PROVE  LineInv'
<1>1. /\ line' = [line EXCEPT ![s] = Append(line[s], t)]
      /\ picked' = [picked EXCEPT ![t] = FALSE]
      /\ pc' = [pc EXCEPT ![t] = "wait"]
      /\ running'[t] # {} /\ (\A u \in Thread : u # t => running'[u] = running[u])
  BY DEF SleepInLine, TypeOK
<1>2. /\ line[s] \in Seq(Thread) /\ Len(line[s]) \in Nat
      /\ line'[s] = Append(line[s], t)
      /\ \A z \in AnySema : z # s => line'[z] = line[z]
  BY <1>1 DEF TypeOK
<1>3. \A z \in AnySema : \A k \in 1..Len(line[z]) : line[z][k] # t
  BY LineInvIs
<1> SUFFICES ASSUME NEW z \in AnySema, NEW i \in 1..Len(line'[z])
             PROVE  /\ pc'[line'[z][i]] = "wait" /\ sema'[line'[z][i]] = z
                    /\ ~picked'[line'[z][i]] /\ running'[line'[z][i]] # {}
                    /\ \A j \in 1..Len(line'[z]) : line'[z][j] = line'[z][i] => j = i
  BY DEF LineInv
<1>4. CASE z # s
  <2>1. line'[z] = line[z] /\ i \in 1..Len(line[z])
    BY <1>2, <1>4
  <2> DEFINE u == line[z][i]
  <2>2. u \in Thread /\ u # t
    BY <1>3, <2>1, InLineThread
  <2>3. /\ pc'[u] = pc[u] /\ sema'[u] = sema[u]
        /\ picked'[u] = picked[u] /\ running'[u] = running[u]
    BY <1>1, <2>2 DEF TypeOK
  <2>4. /\ pc[u] = "wait" /\ sema[u] = z /\ ~picked[u] /\ running[u] # {}
        /\ \A j \in 1..Len(line[z]) : line[z][j] = u => j = i
    BY <2>1, LineInvIs
  <2> QED
    BY <2>1, <2>3, <2>4
<1>5. CASE z = s /\ i = Len(line[s]) + 1
  <2>1. line'[z][i] = t
    BY <1>2, <1>5
  <2>2. \A j \in 1..Len(line'[z]) : line'[z][j] = t => j = i
    BY <1>2, <1>3, <1>5
  <2> QED
    BY <1>1, <1>5, <2>1, <2>2 DEF TypeOK
<1>6. CASE z = s /\ i # Len(line[s]) + 1
  <2>1. i \in 1..Len(line[s]) /\ line'[z][i] = line[s][i]
    BY <1>2, <1>6
  <2>2. line[s][i] \in Thread /\ line[s][i] # t
    BY <1>3, <2>1, InLineThread
  <2> DEFINE u == line[s][i]
  <2>3. /\ pc[u] = "wait" /\ sema[u] = s /\ ~picked[u] /\ running[u] # {}
        /\ \A j \in 1..Len(line[s]) : line[s][j] = u => j = i
    BY <2>1, LineInvIs
  <2>4. \A j \in 1..Len(line'[s]) : line'[s][j] = u => j = i
    BY <1>2, <2>2, <2>3
  <2>5. /\ pc'[u] = pc[u] /\ sema'[u] = sema[u]
        /\ picked'[u] = picked[u] /\ running'[u] = running[u]
    BY <1>1, <2>2 DEF TypeOK
  <2> QED
    BY <1>6, <2>1, <2>3, <2>4, <2>5
<1> QED
  BY <1>4, <1>5, <1>6

\* A thread that leaves the line it stands in, or has been dropped from.
LEMMA LinesLeave ==
  ASSUME TypeOK, LineInv, NEW t \in Thread, pc[t] = "wait", sema' = sema, picked' = picked,
         line' = [line EXCEPT ![sema[t]] = LineWithout(t, sema[t])],
         \A u \in Thread : u # t => pc'[u] = pc[u] /\ running'[u] = running[u]
  PROVE  LineInv'
<1> DEFINE s == sema[t]
<1>1. s \in AnySema /\ line[s] \in Seq(Thread) /\ Len(line[s]) \in Nat
  BY DEF TypeOK
<1>2. /\ line'[s] = LineWithout(t, s)
      /\ \A z \in AnySema : z # s => line'[z] = line[z]
  BY <1>1 DEF TypeOK
<1>3. \A z \in AnySema : z # s => \A k \in 1..Len(line[z]) : line[z][k] # t
  BY LineInvIs
<1>4. \A i \in 1..Len(line'[s]) :
        /\ line'[s][i] # t
        /\ \E k \in 1..Len(line[s]) :
             /\ line'[s][i] = line[s][k]
             /\ \A j \in 1..Len(line'[s]) : line'[s][j] = line[s][k] => j = i
  <2>1. CASE ~\E k \in 1..Len(line[s]) : line[s][k] = t
    BY <1>1, <1>2, <2>1, LineInvIs DEF LineWithout
  <2>2. CASE \E k \in 1..Len(line[s]) : line[s][k] = t
    <3> DEFINE h == CHOOSE k \in 1..Len(line[s]) : line[s][k] = t
               at(i) == IF i < h THEN i ELSE i + 1
    <3>1. h \in 1..Len(line[s]) /\ line[s][h] = t
      BY <2>2
    <3>2. line'[s] = RemoveAt(line[s], h)
      BY <1>2, <2>2 DEF LineWithout
    <3> HIDE DEF h
    <3>3. /\ Len(line'[s]) = Len(line[s]) - 1
          /\ \A i \in 1..Len(line'[s]) : line'[s][i] = line[s][at(i)]
      BY <1>1, <3>1, <3>2, LineWithoutOne
    <3>4. \A i \in 1..Len(line'[s]) : at(i) \in 1..Len(line[s]) /\ at(i) # h
      BY <1>1, <3>1, <3>3
    <3>5. \A i, j \in 1..Len(line'[s]) : at(i) = at(j) => i = j
      BY <1>1, <3>1, <3>3
    <3> HIDE DEF at
    <3>6. \A i \in 1..Len(line'[s]) : line'[s][i] # t
      BY <1>1, <3>1, <3>3, <3>4, OnceInLine
    <3>7. \A i, j \in 1..Len(line'[s]) : line[s][at(j)] = line[s][at(i)] => j = i
      BY <1>1, <3>4, <3>5, OnceInLine
    <3> QED
      BY <3>3, <3>4, <3>6, <3>7
  <2> QED
    BY <2>1, <2>2
<1>5. \A z \in AnySema : \A i \in 1..Len(line'[z]) :
        \E k \in 1..Len(line[z]) :
          /\ line'[z][i] = line[z][k]
          /\ \A j \in 1..Len(line'[z]) : line'[z][j] = line[z][k] => j = i
  BY <1>2, <1>4, SameLine
<1>6. \A z \in AnySema : \A i \in 1..Len(line'[z]) : line'[z][i] # t /\ line'[z][i] \in Thread
  BY <1>2, <1>3, <1>4, <1>5, InLineThread
<1> QED
  BY <1>5, <1>6, LinesShrink

LEMMA LineInit == Init => LineInv
BY EmptySeq DEF Init, LineInv

\* Nobody in a line runs its program, or has been picked.
LEMMA NotInLine ==
  ASSUME LineInv, NEW t \in Thread, pc[t] # "wait" \/ picked[t],
         NEW s \in AnySema, NEW k \in 1..Len(line[s])
  PROVE  line[s][k] # t
BY LineInvIs

LEMMA LineStep == TypeOK /\ FlagInv /\ LineInv /\ [Next]_vars => LineInv'
<1> SUFFICES ASSUME TypeOK, FlagInv, LineInv, [Next]_vars PROVE LineInv'
  OBVIOUS
<1> USE ConstantsAssumption
\* A step that changes no line, and nothing that matters of threads but t.
<1>0. ASSUME NEW t \in Thread, pc[t] # "wait" \/ picked[t], line' = line,
             \A u \in Thread : u # t => /\ pc'[u] = pc[u] /\ sema'[u] = sema[u]
                                       /\ picked'[u] = picked[u] /\ running'[u] = running[u]
      PROVE  LineInv'
  BY <1>0, LinesKept, NotInLine, InLineThread
\* A step that changes flags only.
<1>00. ASSUME line' = line, pc' = pc, sema' = sema, picked' = picked,
              \A u \in Thread : pc[u] = "wait" /\ running[u] # {} => running'[u] # {}
       PROVE  LineInv'
  BY <1>00, LinesKept, LineInvIs, InLineThread
<1>1. ASSUME NEW t \in Thread, Resume(t) PROVE LineInv'
  <2>0. sema[t] \in AnySema /\ sema = [sema EXCEPT ![t] = sema[t]]
    BY DEF TypeOK
  <2>1. CASE ReturnWithPost(t)
    BY <1>0, <2>1 DEF TypeOK, ReturnWithPost, WaitOver
  <2>2. CASE PostStolen(t)
    <3>1. running[t] # {}
      BY <2>2 DEF PostStolen, Awake, Queued
    <3> QED
      BY <2>0, <2>2, <3>1, LinesGrow DEF PostStolen
  <2>3. CASE DieAfterPick(t)
    <3> DEFINE word == [running EXCEPT ![t] = {}]
    <3>1. word \in [Thread -> SUBSET Flag]
      BY DEF TypeOK
    <3>2. CASE PickWaiter(sema[t], Taken(value[sema[t]]), word)
      <4>1. \A z \in AnySema : \A k \in 1..Len(line[z]) :
              word[line[z][k]] = running[line[z][k]] /\ pc'[line[z][k]] = pc[line[z][k]]
        BY <2>3, NotInLine, InLineThread DEF DieAfterPick, WaitOver, TypeOK
      <4> QED
        BY <2>0, <2>3, <3>1, <3>2, <4>1, LinesPick DEF DieAfterPick
    <3>3. CASE running' = word /\ line' = line /\ picked' = picked
      BY <1>0, <2>3, <3>3 DEF TypeOK, DieAfterPick, WaitOver
    <3> QED
      BY <2>3, <3>2, <3>3 DEF DieAfterPick
  <2>4. CASE LeaveLine(t)
    <3>1. \A u \in Thread : u # t => pc'[u] = pc[u] /\ running'[u] = running[u]
      BY <2>4 DEF TypeOK, LeaveLine, ThreadBlock, WaitOver
    <3> QED
      BY <2>4, <3>1, LinesLeave DEF LeaveLine, Awake
  <2>5. CASE BreakAfterBlock(t)
    BY <1>0, <2>5 DEF TypeOK, BreakAfterBlock, Blocked, ThreadBlock, WaitOver
  <2>6. CASE PollAfterBlock(t)
    BY <1>0, <2>6 DEF TypeOK, PollAfterBlock, Blocked, WaitOver
  <2>7. CASE WaitAgain(t)
    BY <2>0, <2>7, LinesGrow DEF WaitAgain, Blocked
  <2> QED
    BY <1>1, <2>1, <2>2, <2>3, <2>4, <2>5, <2>6, <2>7 DEF Resume
<1>2. ASSUME NEW t \in Thread, Primitive(t) PROVE LineInv'
  <2>1. ASSUME NEW s \in AnySema, SemaphorePost(t, s) PROVE LineInv'
    BY <2>1, LinesPick DEF SemaphorePost, TypeOK
  <2>2. ASSUME NEW s \in AnySema, PostSemaAll(t, s) PROVE LineInv'
    <3>1. line' = [line EXCEPT ![s] = <<>>] /\ pc' = pc /\ sema' = sema
      BY <2>2 DEF PostSemaAll
    <3>2. \A u \in Thread : running'[u] = running[u] \/ running'[u] = WeakResume(running[u])
      BY <2>2 DEF PostSemaAll
    <3>3. \A u \in Thread : running[u] # {} => running'[u] # {}
      <4>1. \A u \in Thread : running[u] # {} => "RUNNING" \in running[u]
        BY DEF FlagInv
      <4>2. \A u \in Thread : "RUNNING" \in running[u] => "RUNNING" \in running'[u]
        BY <3>2 DEF WeakResume
      <4> QED
        BY <4>1, <4>2
    <3>4. \A z \in AnySema : \A i \in 1..Len(line'[z]) :
            z # s /\ line'[z] = line[z] /\ i \in 1..Len(line[z])
      BY <3>1, EmptySeq DEF TypeOK
    <3>5. \A z \in AnySema : \A i \in 1..Len(line'[z]) :
            \E k \in 1..Len(line[z]) :
              /\ line'[z][i] = line[z][k]
              /\ \A j \in 1..Len(line'[z]) : line'[z][j] = line[z][k] => j = i
      BY <3>4, SameLine
    <3>6. \A z \in AnySema : \A i \in 1..Len(line'[z]) :
            picked'[line'[z][i]] = picked[line'[z][i]] /\ line'[z][i] \in Thread
      <4> SUFFICES ASSUME NEW z \in AnySema, NEW i \in 1..Len(line'[z])
                   PROVE  picked'[line'[z][i]] = picked[line'[z][i]] /\ line'[z][i] \in Thread
        OBVIOUS
      <4>1. z # s /\ line'[z][i] = line[z][i] /\ i \in 1..Len(line[z]) /\ line[z][i] \in Thread
        BY <3>4, InLineThread
      <4>2. sema[line[z][i]] = z /\ ~picked[line[z][i]]
        BY <4>1, LineInvIs
      <4>3. \A k \in Pickable(s) : line[s][k] # line[z][i]
        BY <4>1, <4>2, LineInvIs DEF Pickable
      <4> QED
        BY <2>2, <4>1, <4>2, <4>3 DEF PostSemaAll, TypeOK
    <3> QED
      BY <3>1, <3>3, <3>5, <3>6, LinesShrink
  <2>3. ASSUME NEW s \in AnySema, TakeNow(t, s) PROVE LineInv'
    BY <1>00, <2>3 DEF TakeNow
  <2>4. ASSUME NEW s \in AnySema, NEW e \in BOOLEAN, Wait(t, s, e) PROVE LineInv'
    BY <2>4, LinesGrow DEF Wait, Runs
  <2>5. CASE RaiseBreak(t)
    BY <1>00, <2>5 DEF RaiseBreak
  <2> QED
    BY <1>2, <2>1, <2>2, <2>3, <2>4, <2>5 DEF Primitive
<1>3. ASSUME NEW t \in Thread, Signals(t) PROVE LineInv'
  <2>1. ASSUME NEW p \in Thread, BreakThread(t, p) PROVE LineInv'
    BY <1>00, <2>1 DEF TypeOK, BreakThread, WeakResume, FlagInv
  <2>2. ASSUME NEW p \in Thread, ThreadSuspend(t, p) PROVE LineInv'
    BY <1>00, <2>2 DEF TypeOK, ThreadSuspend, UserSuspend, WeakSuspend
  <2>3. ASSUME NEW p \in Thread, ThreadResume(t, p) PROVE LineInv'
    BY <1>00, <2>3 DEF TypeOK, ThreadResume, UserResume, WeakResume, FlagInv
  <2>4. ASSUME NEW p \in Thread, KillThread(t, p) PROVE LineInv'
    BY <1>00, <2>4 DEF TypeOK, KillThread, Kill, WeakResume, FlagInv, Runs
  <2> QED
    BY <1>3, <2>1, <2>2, <2>3, <2>4 DEF Signals
<1>4. ASSUME NEW t \in Thread, ReapKilled(t) PROVE LineInv'
  <2>1. "KILLED" \in running[t] /\ "NEED_KILL_CLEANUP" \notin running[t]
    BY <1>4 DEF ReapKilled
  <2>2. t # Main
    BY <2>1 DEF FlagInv
  <2>3. pc[t] # "wait"
    BY <2>1, <2>2 DEF FlagInv
  <2>4. \A u \in Thread : u # t => running'[u] = running[u]
    BY <1>4 DEF TypeOK, ReapKilled
  <2> QED
    BY <1>00, <1>4, <2>3, <2>4 DEF ReapKilled
<1>5. CASE UNCHANGED vars
  BY <1>00, <1>5 DEF vars
<1> QED
  BY <1>1, <1>2, <1>3, <1>4, <1>5 DEF Next

\* Whoever stands in a line waits for that semaphore, has not been picked and
\* has not died, and stands in no other place of any line: for any number of
\* threads and semaphores, and through every signal.
THEOREM LinesInOrder == Spec => []LineInv
<1>1. Init => TypeOK /\ FlagInv /\ LineInv
  BY TypeInit, FlagInit, LineInit
<1>2. TypeOK /\ FlagInv /\ LineInv /\ [Next]_vars => (TypeOK /\ FlagInv /\ LineInv)'
  BY TypeStep, FlagStep, LineStep
<1> QED
  BY <1>1, <1>2, PTL DEF Spec

-----------------------------------------------------------------------------
\* Sleepers.

\* A thread that only a post can get going.
Sleeper(u) ==
  /\ pc[u] = "wait" /\ running[u] # {} /\ "USER_SUSPENDED" \notin running[u]
  /\ ~picked[u] /\ ~BreakDue(u)
  /\ IF u = Main THEN ~main_was_once_suspended ELSE "SUSPENDED" \in running[u]

LEMMA SleeperIs ==
  ASSUME FlagInv, NEW u \in Thread
  PROVE  Sleeper(u) <=> Asleep(u) /\ ~picked[u] /\ ~BreakDue(u)
<1>1. u = Main /\ running[u] # {} /\ "USER_SUSPENDED" \notin running[u] => running[u] = {"RUNNING"}
  BY DEF FlagInv
<1> QED
  BY <1>1 DEF Sleeper, Asleep, Awake, Queued, out_of_line

LEMMA SleeperIsNext ==
  ASSUME FlagInv', NEW u \in Thread
  PROVE  Sleeper(u)' <=> (Asleep(u) /\ ~picked[u] /\ ~BreakDue(u))'
<1>1. u = Main /\ running'[u] # {} /\ "USER_SUSPENDED" \notin running'[u] => running'[u] = {"RUNNING"}
  BY DEF FlagInv
<1> QED
  BY <1>1 DEF Sleeper, Asleep, Awake, Queued, out_of_line

\* No signal puts to sleep, without suspending it, a thread that does not
\* sleep in its wait.
LEMMA SleepsByItself ==
  ASSUME NEW u \in Thread, NEW word \in SUBSET Flag, FlagsOf(u, word, "wait"), u # Main,
         NEW next \in {word, WeakResume(word), UserSuspend(word), UserResume(word), Kill(word)},
         "SUSPENDED" \in next, "USER_SUSPENDED" \notin next
  PROVE  "SUSPENDED" \in word /\ "USER_SUSPENDED" \notin word
<1>1. CASE next = word
  BY <1>1
<1>2. CASE next = WeakResume(word)
  BY <1>2 DEF WeakResume
<1>3. CASE next = UserSuspend(word)
  BY <1>3 DEF UserSuspend, WeakSuspend
<1>4. CASE next = UserResume(word)
  BY <1>4 DEF UserResume, WeakResume
<1>5. CASE next = Kill(word)
  <2>1. word = {} \/ "NEED_KILL_CLEANUP" \in word
    BY DEF FlagsOf
  <2> QED
    BY <1>5, <2>1 DEF Kill, WeakResume, Queued
<1> QED
  BY <1>1, <1>2, <1>3, <1>4, <1>5

\* A sleeper is not skipped by a post.
LEMMA SleeperIsPickable ==
  ASSUME FlagInv, NEW u \in Thread, Sleeper(u)
  PROVE  ~pending_break(u)
BY DEF FlagInv, Sleeper, pending_break

\* A post that does not pick a sleeper leaves it in line.
LEMMA PickKeepsSleeper ==
  ASSUME TypeOK, FlagInv, NEW u \in Thread, Sleeper(u), NEW z \in AnySema, InLine(u, z),
         NEW s \in AnySema, NEW v, NEW word, PickWaiter(s, v, word), ~picked'[u]
  PROVE  InLine(u, z)'
<1>1. PICK i \in 1..Len(line[z]) : line[z][i] = u
  BY DEF InLine
<1>2. CASE z # s
  BY <1>1, <1>2 DEF PickWaiter, NobodyPicked, FirstPicked, InLine, TypeOK
<1>3. CASE z = s
  <2>1. i \in Pickable(s)
    BY <1>1, <1>3, SleeperIsPickable DEF Pickable
  <2>2. PICK k \in Pickable(s) : FirstPicked(s, v, word, k)
    BY <2>1 DEF PickWaiter, NobodyPicked
  <2> DEFINE rest == SubSeq(line[s], k + 1, Len(line[s]))
  <2>3. line[s] \in Seq(Thread) /\ Len(line[s]) \in Nat /\ k \in 1..Len(line[s]) /\ k <= i
    BY <2>1, <2>2 DEF TypeOK, Pickable, FirstPicked
  <2>4. i # k
    BY <1>1, <1>3, <2>2 DEF FirstPicked, TypeOK
  <2>5. Len(rest) = Len(line[s]) - k /\ \A j \in 1..Len(rest) : rest[j] = line[s][j + k]
    BY <2>3, RestOfLine
  <2>6. line'[s] = rest
    BY <2>2 DEF FirstPicked, TypeOK
  <2> HIDE DEF rest
  <2>7. i - k \in 1..Len(rest) /\ (i - k) + k = i
    BY <1>1, <1>3, <2>3, <2>4, <2>5
  <2>8. rest[i - k] = u
    BY <1>1, <1>3, <2>5, <2>7
  <2> QED
    BY <1>3, <2>6, <2>7, <2>8 DEF InLine
<1> QED
  BY <1>2, <1>3

\* Leaving the line leaves the others in it.
LEMMA OthersStay ==
  ASSUME TypeOK, NEW t \in Thread, NEW u \in Thread, u # t, NEW z \in AnySema, InLine(u, z),
         line' = [line EXCEPT ![sema[t]] = LineWithout(t, sema[t])]
  PROVE  InLine(u, z)'
<1>1. PICK i \in 1..Len(line[z]) : line[z][i] = u
  BY DEF InLine
<1> DEFINE s == sema[t]
<1>2. s \in AnySema /\ line[s] \in Seq(Thread) /\ Len(line[s]) \in Nat
  BY DEF TypeOK
<1>3. line'[s] = LineWithout(t, s) /\ (z # s => line'[z] = line[z])
  BY <1>2 DEF TypeOK
<1>4. CASE z # s \/ ~\E k \in 1..Len(line[s]) : line[s][k] = t
  BY <1>1, <1>3, <1>4 DEF InLine, LineWithout
<1>5. CASE z = s /\ \E k \in 1..Len(line[s]) : line[s][k] = t
  <2> DEFINE h == CHOOSE k \in 1..Len(line[s]) : line[s][k] = t
  <2>1. h \in 1..Len(line[s]) /\ line[s][h] = t
    BY <1>5
  <2>2. line'[s] = RemoveAt(line[s], h)
    BY <1>3, <1>5 DEF LineWithout
  <2> HIDE DEF h
  <2>3. /\ Len(line'[s]) = Len(line[s]) - 1
        /\ \A j \in 1..Len(line'[s]) : line'[s][j] = line[s][IF j < h THEN j ELSE j + 1]
    BY <1>2, <2>1, <2>2, LineWithoutOne
  <2>4. i # h
    BY <1>1, <1>5, <2>1
  <2> DEFINE j == IF i < h THEN i ELSE i - 1
  <2>5. j \in 1..Len(line'[s]) /\ (IF j < h THEN j ELSE j + 1) = i
    BY <1>1, <1>2, <1>5, <2>1, <2>3, <2>4
  <2> HIDE DEF j
  <2>6. line'[s][j] = u
    BY <1>1, <1>5, <2>3, <2>5
  <2> QED
    BY <1>5, <2>5, <2>6 DEF InLine
<1> QED
  BY <1>4, <1>5

\* Whoever gets in line is in it, and so are those who were.
LEMMA JoinLine ==
  ASSUME TypeOK, NEW t \in Thread, NEW s \in AnySema, SleepInLine(t, s)
  PROVE  /\ InLine(t, s)'
         /\ \A u \in Thread, z \in AnySema : InLine(u, z) => InLine(u, z)'
<1>1. /\ line[s] \in Seq(Thread) /\ Len(line[s]) \in Nat
      /\ line'[s] = Append(line[s], t)
      /\ \A z \in AnySema : z # s => line'[z] = line[z]
  BY DEF TypeOK, SleepInLine
<1>2. InLine(t, s)'
  <2>1. Len(line'[s]) = Len(line[s]) + 1 /\ line'[s][Len(line[s]) + 1] = t
    BY <1>1
  <2> QED
    BY <1>1, <2>1 DEF InLine
<1>3. ASSUME NEW u \in Thread, NEW z \in AnySema, InLine(u, z) PROVE InLine(u, z)'
  <2>1. PICK i \in 1..Len(line[z]) : line[z][i] = u
    BY <1>3 DEF InLine
  <2>2. i \in 1..Len(line'[z]) /\ line'[z][i] = u
    BY <1>1, <2>1
  <2> QED
    BY <2>2 DEF InLine
<1> QED
  BY <1>2, <1>3

LEMMA SleeperInit == Init => SleeperInLine
BY DEF Init, SleeperInLine, Asleep

LEMMA SleeperStep ==
  TypeOK /\ FlagInv /\ FlagInv' /\ MainInv /\ LineInv /\ SleeperInLine /\ [Next]_vars => SleeperInLine'
<1> SUFFICES ASSUME TypeOK, FlagInv, FlagInv', MainInv, LineInv, SleeperInLine, [Next]_vars,
                    NEW u \in Thread, Sleeper(u)'
             PROVE  InLine(u, sema[u])'
  BY SleeperIsNext DEF SleeperInLine
<1> USE ConstantsAssumption
<1>a. FlagsOf(u, running[u], pc[u]) /\ running[u] \in SUBSET Flag /\ sema[u] \in AnySema
  BY FlagInvIs DEF TypeOK
<1>b. /\ pc'[u] = "wait" /\ running'[u] # {} /\ "USER_SUSPENDED" \notin running'[u]
      /\ ~picked'[u]
      /\ u = Main => ~main_was_once_suspended'
      /\ u # Main => "SUSPENDED" \in running'[u]
  BY DEF Sleeper
\* A thread that only others could have done something to was a sleeper before.
<1>c. ASSUME pc[u] = "wait", sema'[u] = sema[u], enabled'[u] = enabled[u],
             picked[u] => picked'[u], external_break[u] => external_break'[u],
             main_was_once_suspended => main_was_once_suspended',
             u # Main => running'[u] \in {running[u], WeakResume(running[u]), UserSuspend(running[u]),
                                          UserResume(running[u]), Kill(running[u])}
      PROVE  Sleeper(u) /\ InLine(u, sema[u])
  <2>1. ~BreakDue(u)
    <3>1. ~BreakDue(u)'
      BY DEF Sleeper
    <3> QED
      BY <1>b, <1>c, <3>1 DEF BreakDue, CanBreak
  <2>2. CASE u = Main
    <3>1. "USER_SUSPENDED" \notin running[u] /\ running[u] # {}
      BY <1>b, <1>c, <2>2 DEF MainInv, FlagInv
    <3> QED
      BY <1>b, <1>c, <2>1, <2>2, <3>1, SleeperIs DEF Sleeper, SleeperInLine
  <2>3. CASE u # Main
    <3>1. "SUSPENDED" \in running[u] /\ "USER_SUSPENDED" \notin running[u]
      BY <1>a, <1>b, <1>c, <2>3, SleepsByItself
    <3>2. Sleeper(u)
      BY <1>b, <1>c, <2>1, <2>3, <3>1 DEF Sleeper
    <3> QED
      BY <3>2, SleeperIs DEF SleeperInLine
  <2> QED
    BY <2>2, <2>3
\* A step that changes no line.
<1>d. ASSUME Sleeper(u) /\ InLine(u, sema[u]), sema'[u] = sema[u], line' = line
      PROVE  InLine(u, sema[u])'
  BY <1>d DEF InLine
\* A step in which a thread gets in line.
<1>e. ASSUME NEW t \in Thread, NEW s \in AnySema, SleepInLine(t, s), sema' = [sema EXCEPT ![t] = s],
             u # t => enabled'[u] = enabled[u], external_break' = external_break
      PROVE  InLine(u, sema[u])'
  <2>1. CASE u = t
    BY <1>e, <2>1, JoinLine DEF TypeOK, InLine
  <2>2. CASE u # t
    <3>1. /\ pc[u] = "wait" /\ sema'[u] = sema[u] /\ picked'[u] = picked[u] /\ running'[u] = running[u]
          /\ main_was_once_suspended => main_was_once_suspended' \/ u # Main
      BY <1>b, <1>e, <2>2 DEF SleepInLine, TypeOK
    <3>2. Sleeper(u) /\ InLine(u, sema[u])
      <4>1. CASE t # Main
        BY <1>c, <1>e, <2>2, <3>1, <4>1 DEF SleepInLine
      <4>2. CASE t = Main
        <5>1. ~BreakDue(u)' /\ "SUSPENDED" \in running'[u]
          BY <1>b, <2>2, <4>2 DEF Sleeper
        <5>2. ~BreakDue(u)
          BY <1>b, <1>e, <2>2, <3>1, <5>1 DEF BreakDue, CanBreak
        <5>3. Sleeper(u)
          BY <1>b, <2>2, <3>1, <4>2, <5>1, <5>2 DEF Sleeper
        <5> QED
          BY <5>3, SleeperIs DEF SleeperInLine
      <4> QED
        BY <4>1, <4>2
    <3> QED
      BY <1>a, <1>e, <3>1, <3>2, JoinLine DEF InLine
  <2> QED
    BY <2>1, <2>2
\* A step that picks a waiter.
<1>f. ASSUME Sleeper(u) /\ InLine(u, sema[u]), sema' = sema,
             NEW s \in AnySema, NEW v, NEW word, PickWaiter(s, v, word)
      PROVE  InLine(u, sema[u])'
  BY <1>a, <1>b, <1>f, PickKeepsSleeper DEF InLine
<1>1. ASSUME NEW t \in Thread, Resume(t) PROVE InLine(u, sema[u])'
  <2>0. sema[t] \in AnySema /\ sema = [sema EXCEPT ![t] = sema[t]]
    BY DEF TypeOK
  <2>1. CASE ReturnWithPost(t)
    BY <1>b, <1>c, <1>d, <2>1 DEF TypeOK, ReturnWithPost, WaitOver
  <2>2. CASE PostStolen(t)
    BY <1>e, <2>0, <2>2 DEF PostStolen
  <2>3. CASE DieAfterPick(t)
    <3>1. /\ u # t /\ pc[u] = "wait" /\ enabled'[u] = enabled[u] /\ sema' = sema
          /\ external_break' = external_break /\ main_was_once_suspended' = main_was_once_suspended
      BY <1>b, <2>3 DEF TypeOK, DieAfterPick, WaitOver
    <3> DEFINE word == [running EXCEPT ![t] = {}]
    <3>2. word \in [Thread -> SUBSET Flag] /\ word[u] = running[u]
      BY <3>1 DEF TypeOK
    <3>3. CASE PickWaiter(sema[t], Taken(value[sema[t]]), word)
      <4>1. /\ running'[u] = word[u] \/ running'[u] = WeakResume(word[u])
            /\ picked[u] => picked'[u]
        <5> HIDE DEF word
        <5>1. running'[u] = word[u] \/ running'[u] = WeakResume(word[u])
          <6>1. sema[t] \in AnySema
            BY <2>0
          <6> QED
            BY <3>2, <3>3, <6>1, PickWaiterFlags
        <5>2. picked[u] => picked'[u]
          BY <3>3 DEF PickWaiter, NobodyPicked, FirstPicked, TypeOK
        <5> QED
          BY <5>1, <5>2
      <4>2. Sleeper(u) /\ InLine(u, sema[u])
        BY <1>c, <3>1, <3>2, <4>1
      <4> QED
        BY <1>f, <2>0, <3>1, <3>3, <4>2
    <3>4. CASE running' = word /\ line' = line /\ picked' = picked
      BY <1>c, <1>d, <3>1, <3>2, <3>4
    <3> QED
      BY <2>3, <3>3, <3>4 DEF DieAfterPick
  <2>4. CASE LeaveLine(t)
    <3>1. u # t
      BY <1>b, <2>4 DEF TypeOK, LeaveLine, ThreadBlock, WaitOver
    <3>2. /\ pc[u] = "wait" /\ sema' = sema /\ picked' = picked
          /\ enabled'[u] = enabled[u] /\ external_break'[u] = external_break[u]
          /\ running'[u] = running[u] /\ main_was_once_suspended' = main_was_once_suspended
      BY <1>b, <2>4, <3>1 DEF TypeOK, LeaveLine, ThreadBlock, WaitOver
    <3>3. Sleeper(u) /\ InLine(u, sema[u])
      BY <1>c, <3>2
    <3>4. line' = [line EXCEPT ![sema[t]] = LineWithout(t, sema[t])]
      BY <2>4 DEF LeaveLine
    <3>5. InLine(u, sema[u])' <=> \E k \in 1..Len(line'[sema[u]]) : line'[sema[u]][k] = u
      BY <3>2 DEF InLine
    <3>6. \E k \in 1..Len(line'[sema[u]]) : line'[sema[u]][k] = u
      <4>1. PICK z \in AnySema : z = sema[u] /\ InLine(u, z)
        BY <1>a, <3>3
      <4>2. InLine(u, z)'
        BY <3>1, <3>4, <4>1, OthersStay
      <4> QED
        BY <4>1, <4>2 DEF InLine
    <3> QED
      BY <3>5, <3>6
  <2>5. CASE BreakAfterBlock(t)
    BY <1>b, <1>c, <1>d, <2>5 DEF TypeOK, BreakAfterBlock, Blocked, ThreadBlock, WaitOver
  <2>6. CASE PollAfterBlock(t)
    BY <1>b, <1>c, <1>d, <2>6 DEF TypeOK, PollAfterBlock, Blocked, WaitOver
  <2>7. CASE WaitAgain(t)
    BY <1>e, <2>0, <2>7 DEF WaitAgain
  <2> QED
    BY <1>1, <2>1, <2>2, <2>3, <2>4, <2>5, <2>6, <2>7 DEF Resume
<1>2. ASSUME NEW t \in Thread, Primitive(t) PROVE InLine(u, sema[u])'
  <2>1. ASSUME NEW s \in AnySema, SemaphorePost(t, s) PROVE InLine(u, sema[u])'
    <3>1. /\ pc' = pc /\ sema' = sema /\ enabled' = enabled /\ external_break' = external_break
          /\ main_was_once_suspended' = main_was_once_suspended
          /\ PickWaiter(s, value[s] + 1, running)
      BY <2>1 DEF SemaphorePost
    <3>2. running'[u] = running[u] \/ running'[u] = WeakResume(running[u])
      BY <3>1, PickWaiterFlags DEF TypeOK
    <3>3. picked[u] => picked'[u]
      BY <3>1 DEF PickWaiter, NobodyPicked, FirstPicked, TypeOK
    <3> QED
      BY <1>b, <1>c, <1>f, <3>1, <3>2, <3>3
  <2>2. ASSUME NEW s \in AnySema, PostSemaAll(t, s) PROVE InLine(u, sema[u])'
    <3>1. /\ pc' = pc /\ sema' = sema /\ enabled' = enabled /\ external_break' = external_break
          /\ main_was_once_suspended' = main_was_once_suspended
          /\ line' = [line EXCEPT ![s] = <<>>]
          /\ running'[u] = running[u] \/ running'[u] = WeakResume(running[u])
          /\ picked'[u] = (picked[u] \/ \E k \in Pickable(s) : line[s][k] = u)
      BY <2>2 DEF PostSemaAll
    <3>2. Sleeper(u) /\ InLine(u, sema[u])
      BY <1>b, <1>c, <3>1
    <3>3. sema[u] # s
      BY <1>b, <3>1, <3>2, SleeperIsPickable DEF InLine, Pickable
    <3> QED
      BY <1>a, <3>1, <3>2, <3>3 DEF InLine, TypeOK
  <2>3. ASSUME NEW s \in AnySema, TakeNow(t, s) PROVE InLine(u, sema[u])'
    BY <1>b, <1>c, <1>d, <2>3 DEF TakeNow
  <2>4. ASSUME NEW s \in AnySema, NEW e \in BOOLEAN, Wait(t, s, e) PROVE InLine(u, sema[u])'
    BY <1>e, <2>4 DEF Wait, TypeOK
  <2>5. CASE RaiseBreak(t)
    BY <1>b, <1>c, <1>d, <2>5 DEF RaiseBreak, TypeOK
  <2> QED
    BY <1>2, <2>1, <2>2, <2>3, <2>4, <2>5 DEF Primitive
<1>3. ASSUME NEW t \in Thread, Signals(t) PROVE InLine(u, sema[u])'
  <2>1. ASSUME NEW p \in Thread, BreakThread(t, p) PROVE InLine(u, sema[u])'
    BY <1>b, <1>c, <1>d, <2>1 DEF TypeOK, BreakThread
  <2>2. ASSUME NEW p \in Thread, ThreadSuspend(t, p) PROVE InLine(u, sema[u])'
    BY <1>b, <1>c, <1>d, <2>2 DEF TypeOK, ThreadSuspend
  <2>3. ASSUME NEW p \in Thread, ThreadResume(t, p) PROVE InLine(u, sema[u])'
    BY <1>b, <1>c, <1>d, <2>3 DEF TypeOK, ThreadResume
  <2>4. ASSUME NEW p \in Thread, KillThread(t, p) PROVE InLine(u, sema[u])'
    BY <1>b, <1>c, <1>d, <2>4 DEF TypeOK, KillThread
  <2> QED
    BY <1>3, <2>1, <2>2, <2>3, <2>4 DEF Signals
<1>4. ASSUME NEW t \in Thread, ReapKilled(t) PROVE InLine(u, sema[u])'
  BY <1>b, <1>c, <1>d, <1>4 DEF TypeOK, ReapKilled
<1>5. CASE UNCHANGED vars
  BY <1>b, <1>c, <1>d, <1>5 DEF vars
<1> QED
  BY <1>1, <1>2, <1>3, <1>4, <1>5 DEF Next

\* A thread that sleeps in a wait without having been picked, and without a
\* break to raise, stands in the line: no post and no signal to it or to
\* others leaves it asleep where no post will find it.
THEOREM NoSleeperLost == Spec => []SleeperInLine
<1>1. Init => IInv
  BY TypeInit, FlagInit, LineInit, SleeperInit DEF IInv
<1>2. IInv /\ [Next]_vars => IInv'
  <2>1. IInv /\ [Next]_vars => TypeOK' /\ FlagInv' /\ MainInv' /\ LineInv'
    BY TypeStep, FlagStep, MainStep, LineStep DEF IInv
  <2> QED
    BY <2>1, SleeperStep DEF IInv
<1>3. IInv => SleeperInLine
  BY DEF IInv
<1> QED
  BY <1>1, <1>2, <1>3, PTL DEF Spec

-----------------------------------------------------------------------------
\* The posts in a count, and the threads that were picked for them.

\* A thread that was woken for a post but does not own it.
IsTaker(t, s) ==
  pc[t] = "wait" /\ sema[t] = s /\ picked[t] /\ ~fair[t] /\ running[t] # {}

Takers(s) == {t \in Thread : IsTaker(t, s)}

Backed(q, v, C) == q # <<>> => v >= 0 /\ v <= Cardinality(C)

BackedAt(s) == Backed(line[s], value[s], Takers(s))

LEMMA BackedIs == EveryPostHasTaker <=> \A s \in AnySema : BackedAt(s)
BY DEF EveryPostHasTaker, BackedAt, Backed, Takers, IsTaker

LEMMA BackedNext == EveryPostHasTaker' <=> \A s \in AnySema : BackedAt(s)'
BY DEF EveryPostHasTaker, BackedAt, Backed, Takers, IsTaker

\* With as many takers as before, a count that has not grown is backed.
LEMMA KeepBacked ==
  ASSUME NEW C, NEW D, IsFiniteSet(D), C \subseteq D, NEW q, NEW q2,
         NEW v \in Int, NEW v2, v2 = v \/ v2 = Taken(v),
         q2 # <<>> => q # <<>>, Backed(q, v, C)
  PROVE  Backed(q2, v2, D)
<1>1. IsFiniteSet(C) /\ Cardinality(C) <= Cardinality(D)
  BY FS_Subset
<1>2. Cardinality(C) \in Nat /\ Cardinality(D) \in Nat
  BY <1>1, FS_CardinalityType
<1> QED
  BY <1>1, <1>2 DEF Backed, Taken

\* A new taker backs one more post.
LEMMA GainBacked ==
  ASSUME NEW C, NEW D, IsFiniteSet(D), NEW x \in D, x \notin C, C \subseteq D,
         NEW q, NEW q2, NEW v \in Int, q # <<>>, Backed(q, v, C)
  PROVE  Backed(q2, v + 1, D)
<1>1. C \cup {x} \in SUBSET D
  OBVIOUS
<1>2. IsFiniteSet(C) /\ IsFiniteSet(C \cup {x}) /\ Cardinality(C \cup {x}) <= Cardinality(D)
  BY <1>1, FS_Subset
<1>3. Cardinality(C \cup {x}) = Cardinality(C) + 1
  BY <1>2, FS_AddElement
<1>4. Cardinality(C) \in Nat /\ Cardinality(D) \in Nat
  BY <1>2, FS_CardinalityType
<1> QED
  BY <1>2, <1>3, <1>4 DEF Backed

\* A taker that leaves with a post leaves the other posts backed.
LEMMA LoseBacked ==
  ASSUME NEW C, IsFiniteSet(C), NEW D, IsFiniteSet(D), NEW x, C \ {x} \subseteq D,
         NEW q, NEW q2, NEW v \in Int, v # 0,
         q2 # <<>> => q # <<>>, Backed(q, v, C)
  PROVE  Backed(q2, Taken(v), D)
<1>1. IsFiniteSet(C \ {x}) /\ Cardinality(C \ {x}) <= Cardinality(D)
  BY FS_Subset
<1>2. Cardinality(C) - 1 <= Cardinality(C \ {x})
  <2>1. Cardinality(C) \in Nat
    BY FS_CardinalityType
  <2>2. Cardinality(C \ {x}) = IF x \in C THEN Cardinality(C) - 1 ELSE Cardinality(C)
    BY FS_RemoveElement
  <2> QED
    BY <2>1, <2>2
<1>3. Cardinality(C) \in Nat /\ Cardinality(D) \in Nat /\ Cardinality(C \ {x}) \in Nat
  BY <1>1, FS_CardinalityType
<1> QED
  BY <1>1, <1>2, <1>3 DEF Backed, Taken

LEMMA TakersFinite == \A s : IsFiniteSet(Takers(s)) /\ IsFiniteSet(Takers(s)')
<1> SUFFICES ASSUME NEW s PROVE IsFiniteSet(Takers(s)) /\ IsFiniteSet(Takers(s)')
  OBVIOUS
<1>1. Takers(s) \in SUBSET Thread
  BY DEF Takers
<1>2. Takers(s)' \in SUBSET Thread
  BY DEF Takers
<1>3. IsFiniteSet(Thread)
  BY ConstantsAssumption
<1> QED
  BY <1>1, <1>2, <1>3, FS_Subset

\* A step that adds no post and takes no taker away.
LEMMA StepKeeps ==
  ASSUME TypeOK, NEW s \in AnySema, BackedAt(s),
         \A u \in Thread : IsTaker(u, s) => IsTaker(u, s)',
         line'[s] # <<>> => line[s] # <<>>,
         value'[s] = value[s] \/ value'[s] = Taken(value[s])
  PROVE  BackedAt(s)'
<1>1. Takers(s) \subseteq Takers(s)'
  BY DEF Takers
<1>2. value[s] \in Int
  BY ConstantsAssumption DEF TypeOK
<1>3. PICK C, D : C = Takers(s) /\ D = Takers(s)'
  OBVIOUS
<1>4. IsFiniteSet(D) /\ C \subseteq D /\ Backed(line[s], value[s], C)
  BY <1>1, <1>3, TakersFinite DEF BackedAt
<1>5. Backed(line'[s], value'[s], D)
  BY <1>2, <1>4, KeepBacked
<1> QED
  BY <1>3, <1>5 DEF BackedAt

\* A step that makes one of the takers leave, with a post or when there is
\* none.
LEMMA StepTakes ==
  ASSUME TypeOK, NEW s \in AnySema, BackedAt(s), NEW t \in Thread,
         \A u \in Thread \ {t} : IsTaker(u, s) => IsTaker(u, s)',
         line'[s] # <<>> => line[s] # <<>>,
         value[s] # 0, value'[s] = Taken(value[s])
  PROVE  BackedAt(s)'
<1>1. Takers(s) \ {t} \subseteq Takers(s)'
  BY DEF Takers
<1>2. value[s] \in Int
  BY ConstantsAssumption DEF TypeOK
<1>3. PICK C, D : C = Takers(s) /\ D = Takers(s)'
  OBVIOUS
<1>4. IsFiniteSet(C) /\ IsFiniteSet(D) /\ C \ {t} \subseteq D /\ Backed(line[s], value[s], C)
  BY <1>1, <1>3, TakersFinite DEF BackedAt
<1>5. Backed(line'[s], value'[s], D)
  BY <1>2, <1>4, LoseBacked
<1> QED
  BY <1>3, <1>5 DEF BackedAt

\* A thread that gets in line finds no post.
LEMMA StepJoins ==
  ASSUME TypeOK, NEW s \in AnySema, value'[s] = 0
  PROVE  BackedAt(s)'
<1>1. PICK D : D = Takers(s)'
  OBVIOUS
<1>2. Cardinality(D) \in Nat
  BY <1>1, TakersFinite, FS_CardinalityType
<1> QED
  BY <1>1, <1>2 DEF BackedAt, Backed

\* A post that finds the takers C: the waiter that it picks becomes one more,
\* or takes the post over.
LEMMA StepPicks ==
  ASSUME TypeOK, NEW s \in AnySema, NEW v \in Int,
         NEW word \in [Thread -> SUBSET Flag], PickWaiter(s, v, word),
         NEW C, IsFiniteSet(C), C \subseteq Takers(s)',
         line[s] # <<>> => v > 0 /\ v - 1 <= Cardinality(C),
         \A w \in Thread : InLine(w, s) =>
           /\ w \notin C /\ sema'[w] = s /\ pc'[w] = "wait"
           /\ fair'[w] = fair[w] /\ "RUNNING" \in word[w]
  PROVE  BackedAt(s)'
<1>1. PICK D : D = Takers(s)'
  OBVIOUS
<1>2. IsFiniteSet(D) /\ C \subseteq D
  BY <1>1, TakersFinite
<1>3. CASE NobodyPicked(s, v, word)
  BY <1>3 DEF NobodyPicked, BackedAt, Backed, TypeOK
<1>4. CASE \E k \in Pickable(s) : FirstPicked(s, v, word, k)
  <2>1. PICK k \in Pickable(s) : FirstPicked(s, v, word, k)
    BY <1>4
  <2>2. PICK w \in Thread : w = line[s][k]
    BY ElementOfSeq DEF TypeOK, Pickable
  <2>3. k \in 1..Len(line[s]) /\ InLine(w, s) /\ line[s] # <<>>
    BY <2>2 DEF Pickable, InLine, TypeOK
  <2>4. value'[s] = IF fair[w] THEN v - 1 ELSE v
    BY <2>1, <2>2 DEF FirstPicked, TypeOK
  <2>5. picked'[w] /\ "RUNNING" \in running'[w]
    BY <2>1, <2>2, <2>3 DEF FirstPicked, TypeOK, WeakResume
  <2>6. CASE fair[w]
    <3>1. PICK x : x = v - 1 /\ x \in Int /\ x >= 0 /\ x <= Cardinality(C)
      BY <2>3
    <3>2. Backed(line[s], x, C)
      BY <3>1 DEF Backed
    <3>3. Backed(line'[s], x, D)
      BY <1>2, <2>3, <3>1, <3>2, KeepBacked
    <3> QED
      BY <1>1, <2>4, <2>6, <3>1, <3>3 DEF BackedAt
  <2>7. CASE ~fair[w]
    <3>1. w \notin C /\ w \in D
      BY <1>1, <2>3, <2>5, <2>7 DEF Takers, IsTaker
    <3>2. PICK x : x = v - 1 /\ x \in Int /\ x >= 0 /\ x <= Cardinality(C)
      BY <2>3
    <3>3. Backed(line[s], x, C)
      BY <3>2 DEF Backed
    <3>4. Backed(line'[s], x + 1, D)
      BY <1>2, <2>3, <3>1, <3>2, <3>3, GainBacked
    <3>5. value'[s] = x + 1
      BY <2>4, <2>7, <3>2
    <3> QED
      BY <1>1, <3>4, <3>5 DEF BackedAt
  <2> QED
    BY <2>6, <2>7
<1> QED
  BY <1>3, <1>4 DEF PickWaiter

\* A post leaves the takers of a semaphore where they are.
LEMMA PickKeepsTaker ==
  ASSUME TypeOK, NEW s \in AnySema, NEW v,
         NEW word \in [Thread -> SUBSET Flag], PickWaiter(s, v, word),
         NEW u \in Thread, NEW z, IsTaker(u, z), "RUNNING" \in word[u],
         pc'[u] = pc[u], sema'[u] = sema[u], fair'[u] = fair[u]
  PROVE  IsTaker(u, z)'
<1>1. "RUNNING" \in running'[u]
  BY PickWaiterFlags DEF WeakResume
<1>2. picked'[u]
  BY DEF PickWaiter, NobodyPicked, FirstPicked, TypeOK, IsTaker
<1> QED
  BY <1>1, <1>2 DEF IsTaker

LEMMA InLineIs ==
  ASSUME TypeOK, FlagInv, LineInv, NEW s \in AnySema, NEW w \in Thread, InLine(w, s)
  PROVE  pc[w] = "wait" /\ sema[w] = s /\ ~picked[w] /\ "RUNNING" \in running[w]
BY DEF LineInv, InLine, FlagInv

LEMMA TakersInit == Init => EveryPostHasTaker
BY DEF Init, EveryPostHasTaker

LEMMA TakersStep == IInv /\ EveryPostHasTaker /\ [Next]_vars => EveryPostHasTaker'
<1> SUFFICES ASSUME TypeOK, FlagInv, LineInv, EveryPostHasTaker, [Next]_vars,
                    NEW z \in AnySema
             PROVE  BackedAt(z)'
  BY BackedNext DEF IInv
<1>a. BackedAt(z)
  BY BackedIs
\* Steps that neither post nor take, seen by each thread.
<1>b. ASSUME line'[z] # <<>> => line[z] # <<>>, value'[z] = value[z],
             \A u \in Thread : IsTaker(u, z) =>
               /\ pc'[u] = pc[u] /\ sema'[u] = sema[u] /\ picked'[u] = picked[u]
               /\ fair'[u] = fair[u] /\ running'[u] # {}
      PROVE  BackedAt(z)'
  <2>1. \A u \in Thread : IsTaker(u, z) => IsTaker(u, z)'
    BY <1>b DEF IsTaker
  <2> QED
    BY <1>a, <1>b, <2>1, StepKeeps
\* A thread gets in line.
<1>c. ASSUME NEW t \in Thread, NEW s \in AnySema, SleepInLine(t, s), value[s] = 0,
             value' = value, sema' = [sema EXCEPT ![t] = s],
             fair' = [fair EXCEPT ![t] = fair'[t]],
             pc[t] = "wait" => sema[t] = s
      PROVE  BackedAt(z)'
  <2>1. CASE z = s
    BY <1>c, <2>1, StepJoins
  <2>2. CASE z # s
    <3>1. line'[z] = line[z]
      BY <1>c, <2>2 DEF SleepInLine, TypeOK
    <3>2. ASSUME NEW u \in Thread, IsTaker(u, z)
          PROVE  /\ pc'[u] = pc[u] /\ sema'[u] = sema[u] /\ picked'[u] = picked[u]
                 /\ fair'[u] = fair[u] /\ running'[u] # {}
      <4>1. u # t
        BY <1>c, <2>2, <3>2 DEF IsTaker
      <4> QED
        BY <1>c, <3>2, <4>1 DEF SleepInLine, TypeOK, IsTaker
    <3> QED
      BY <1>b, <1>c, <3>1, <3>2
  <2> QED
    BY <2>1, <2>2
<1>1. ASSUME NEW t \in Thread, Resume(t) PROVE BackedAt(z)'
  <2> DEFINE s == sema[t]
  <2>0. s \in AnySema /\ sema = [sema EXCEPT ![t] = s]
    BY DEF TypeOK
  <2>1. CASE ReturnWithPost(t)
    <3>1. \A u \in Thread \ {t} : IsTaker(u, z) => IsTaker(u, z)'
      BY <2>1 DEF ReturnWithPost, WaitOver, TypeOK, IsTaker
    <3>2. CASE IsTaker(t, z)
      <4>1. value[z] # 0 /\ value'[z] = Taken(value[z]) /\ line' = line
        BY <2>0, <2>1, <3>2 DEF ReturnWithPost, TypeOK, IsTaker
      <4> QED
        BY <1>a, <3>1, <4>1, StepTakes
    <3>3. CASE ~IsTaker(t, z)
      <4>1. value'[z] = value[z] \/ value'[z] = Taken(value[z])
        BY <2>0, <2>1 DEF ReturnWithPost, TypeOK
      <4>2. line' = line
        BY <2>1 DEF ReturnWithPost
      <4> QED
        BY <1>a, <3>1, <3>3, <4>1, <4>2, StepKeeps
    <3> QED
      BY <3>2, <3>3
  <2>2. CASE PostStolen(t)
    BY <1>c, <2>0, <2>2 DEF PostStolen, TypeOK
  <2>3. CASE DieAfterPick(t)
    <3> DEFINE word == [running EXCEPT ![t] = {}]
    <3>1. /\ word \in [Thread -> SUBSET Flag]
          /\ \A u \in Thread \ {t} : word[u] = running[u]
      BY DEF TypeOK
    <3>2. /\ pc[t] = "wait" /\ picked[t] /\ sema' = sema
          /\ \A u \in Thread \ {t} : pc'[u] = pc[u] /\ fair'[u] = fair[u]
      BY <2>3 DEF DieAfterPick, Awake, WaitOver, TypeOK
    <3>3. CASE ~fair[t] /\ Taken(value[s]) > 0
      <4> HIDE DEF word
      <4>1. PickWaiter(s, Taken(value[s]), word)
        BY <2>3, <3>3 DEF DieAfterPick, word
      <4>2. \A u \in Thread \ {t} : IsTaker(u, z) => IsTaker(u, z)'
        <5> SUFFICES ASSUME NEW u \in Thread \ {t}, IsTaker(u, z) PROVE IsTaker(u, z)'
          OBVIOUS
        <5>1. "RUNNING" \in word[u]
          BY <3>1 DEF IsTaker, FlagInv
        <5>2. pc'[u] = pc[u] /\ sema'[u] = sema[u] /\ fair'[u] = fair[u]
          BY <3>2
        <5> QED
          BY <2>0, <3>1, <4>1, <5>1, <5>2, PickKeepsTaker
      <4>3. CASE z = s
        <5>1. PICK C : C = Takers(z) \ {t}
          OBVIOUS
        <5>2. t \in Takers(z)
          BY <2>3, <3>2, <3>3, <4>3 DEF Takers, IsTaker, DieAfterPick
        <5>3. IsFiniteSet(C) /\ IsFiniteSet(Takers(z)) /\ Cardinality(C) = Cardinality(Takers(z)) - 1
          BY <5>1, <5>2, TakersFinite, FS_RemoveElement
        <5>4. PICK v \in Int : v = Taken(value[s])
          BY <2>0, TakenType DEF TypeOK
        <5>5. v > 0 /\ (line[s] # <<>> => v - 1 <= Cardinality(C))
          <6>1. value[s] \in Int /\ Cardinality(Takers(z)) \in Nat
            BY <2>0, <5>3, FS_CardinalityType, ConstantsAssumption DEF TypeOK
          <6> QED
            BY <1>a, <3>3, <4>3, <5>3, <5>4, <6>1 DEF BackedAt, Backed, Taken
        <5>6. C \subseteq Takers(z)'
          BY <4>2, <5>1 DEF Takers
        <5>7. ASSUME NEW w \in Thread, InLine(w, s)
              PROVE  /\ w \notin C /\ sema'[w] = s /\ pc'[w] = "wait"
                     /\ fair'[w] = fair[w] /\ "RUNNING" \in word[w]
          <6>1. pc[w] = "wait" /\ sema[w] = s /\ ~picked[w] /\ "RUNNING" \in running[w]
            BY <2>0, <5>7, InLineIs
          <6> QED
            BY <3>1, <3>2, <5>1, <6>1 DEF Takers, IsTaker
        <5>8. PickWaiter(s, v, word)
          BY <4>1, <5>4
        <5> QED
          BY <2>0, <3>1, <4>3, <5>3, <5>5, <5>6, <5>7, <5>8, StepPicks
      <4>4. CASE z # s
        <5>1. value'[z] = value[z] /\ line'[z] = line[z]
          BY <4>1, <4>4 DEF PickWaiter, NobodyPicked, FirstPicked, TypeOK
        <5>2. ~IsTaker(t, z)
          BY <4>4 DEF IsTaker
        <5> QED
          BY <1>a, <4>2, <5>1, <5>2, StepKeeps
      <4> QED
        BY <4>3, <4>4
    <3>4. CASE ~(~fair[t] /\ Taken(value[s]) > 0)
      <4>1. /\ value' = [value EXCEPT ![s] = IF fair[t] THEN value[s] ELSE Taken(value[s])]
            /\ running' = word /\ line' = line /\ picked' = picked
        BY <2>3, <3>4 DEF DieAfterPick
      <4>2. \A u \in Thread \ {t} : IsTaker(u, z) => IsTaker(u, z)'
        BY <3>1, <3>2, <4>1 DEF IsTaker
      <4>3. value'[z] = value[z] \/ value'[z] = Taken(value[z])
        BY <2>0, <4>1 DEF TypeOK
      <4>4. CASE IsTaker(t, z) /\ value[z] # 0
        <5>1. value'[z] = Taken(value[z])
          BY <2>0, <4>1, <4>4 DEF TypeOK, IsTaker
        <5> QED
          BY <1>a, <4>1, <4>2, <4>4, <5>1, StepTakes
      <4>5. CASE value[z] = 0
        BY <4>3, <4>5, StepJoins DEF Taken
      <4>6. CASE ~IsTaker(t, z)
        BY <1>a, <4>1, <4>2, <4>3, <4>6, StepKeeps
      <4> QED
        BY <4>4, <4>5, <4>6
    <3> QED
      BY <3>3, <3>4
  <2>4. CASE LeaveLine(t)
    <3>1. /\ ~picked[t] /\ value' = value /\ sema' = sema /\ picked' = picked
          /\ \A u \in Thread \ {t} : pc'[u] = pc[u] /\ fair'[u] = fair[u] /\ running'[u] = running[u]
      BY <2>4 DEF LeaveLine, ThreadBlock, WaitOver, TypeOK
    <3>2. line'[z] # <<>> => line[z] # <<>>
      <4>1. line[s] = <<>> => LineWithout(t, s) = <<>>
        BY DEF LineWithout
      <4> QED
        BY <2>0, <2>4, <4>1 DEF LeaveLine, TypeOK
    <3> QED
      BY <1>b, <3>1, <3>2 DEF IsTaker
  <2>5. CASE BreakAfterBlock(t)
    <3>1. /\ pc[t] = "block" /\ value' = value /\ line' = line /\ sema' = sema /\ picked' = picked
          /\ \A u \in Thread \ {t} : pc'[u] = pc[u] /\ fair'[u] = fair[u] /\ running'[u] = running[u]
      BY <2>5 DEF BreakAfterBlock, Blocked, ThreadBlock, WaitOver, TypeOK
    <3> QED
      BY <1>b, <3>1 DEF IsTaker
  <2>6. CASE PollAfterBlock(t)
    <3>1. /\ pc[t] = "block" /\ line' = line
          /\ \A u \in Thread \ {t} : IsTaker(u, z) => IsTaker(u, z)'
      BY <2>6 DEF PollAfterBlock, Blocked, WaitOver, TypeOK, IsTaker
    <3>2. value'[z] = value[z] \/ value'[z] = Taken(value[z])
      BY <2>0, <2>6 DEF PollAfterBlock, TypeOK
    <3> QED
      BY <1>a, <3>1, <3>2, StepKeeps DEF IsTaker
  <2>7. CASE WaitAgain(t)
    BY <1>c, <2>0, <2>7 DEF WaitAgain, Blocked, TypeOK
  <2> QED
    BY <1>1, <2>1, <2>2, <2>3, <2>4, <2>5, <2>6, <2>7 DEF Resume
<1>2. ASSUME NEW t \in Thread, Primitive(t) PROVE BackedAt(z)'
  <2>1. ASSUME NEW s \in AnySema, SemaphorePost(t, s) PROVE BackedAt(z)'
    <3>1. pc' = pc /\ sema' = sema /\ fair' = fair /\ PickWaiter(s, value[s] + 1, running)
      BY <2>1 DEF SemaphorePost
    <3>2. \A u \in Thread : IsTaker(u, z) => IsTaker(u, z)'
      <4> SUFFICES ASSUME NEW u \in Thread, IsTaker(u, z) PROVE IsTaker(u, z)'
        OBVIOUS
      <4>1. "RUNNING" \in running[u]
        BY DEF IsTaker, FlagInv
      <4>2. pc'[u] = pc[u] /\ sema'[u] = sema[u] /\ fair'[u] = fair[u]
        BY <3>1
      <4>3. running \in [Thread -> SUBSET Flag]
        BY DEF TypeOK
      <4> QED
        BY <3>1, <4>1, <4>2, <4>3, PickKeepsTaker
    <3>3. CASE z = s
      <4>1. PICK C : C = Takers(s)
        OBVIOUS
      <4>2. IsFiniteSet(C) /\ C \subseteq Takers(s)'
        BY <3>2, <3>3, <4>1, TakersFinite DEF Takers
      <4>3. PICK v \in Int : v = value[s] + 1 /\ (line[s] # <<>> => v > 0 /\ v - 1 <= Cardinality(C))
        <5>1. value[s] \in Int
          BY ConstantsAssumption DEF TypeOK
        <5> QED
          BY <1>a, <3>3, <4>1, <5>1 DEF BackedAt, Backed
      <4>4. ASSUME NEW w \in Thread, InLine(w, s)
            PROVE  /\ w \notin C /\ sema'[w] = s /\ pc'[w] = "wait"
                   /\ fair'[w] = fair[w] /\ "RUNNING" \in running[w]
        <5>1. pc[w] = "wait" /\ sema[w] = s /\ ~picked[w] /\ "RUNNING" \in running[w]
          BY <4>4, InLineIs
        <5> QED
          BY <3>1, <4>1, <5>1 DEF Takers, IsTaker
      <4>5. PickWaiter(s, v, running) /\ running \in [Thread -> SUBSET Flag]
        BY <3>1, <4>3 DEF TypeOK
      <4> QED
        BY <3>3, <4>2, <4>3, <4>4, <4>5, StepPicks
    <3>4. CASE z # s
      <4>1. value'[z] = value[z] /\ line'[z] = line[z]
        BY <3>1, <3>4 DEF PickWaiter, NobodyPicked, FirstPicked, TypeOK
      <4> QED
        BY <1>a, <3>2, <4>1, StepKeeps
    <3> QED
      BY <3>3, <3>4
  <2>2. ASSUME NEW s \in AnySema, PostSemaAll(t, s) PROVE BackedAt(z)'
    <3>1. CASE z = s
      BY <2>2, <3>1 DEF PostSemaAll, TypeOK, BackedAt, Backed
    <3>2. CASE z # s
      <4>1. value'[z] = value[z] /\ line'[z] = line[z]
        BY <2>2, <3>2 DEF PostSemaAll, TypeOK
      <4>2. ASSUME NEW u \in Thread, IsTaker(u, z) PROVE IsTaker(u, z)'
        <5>1. /\ pc' = pc /\ sema' = sema /\ fair' = fair
              /\ running'[u] = running[u] \/ running'[u] = WeakResume(running[u])
              /\ picked[u] => picked'[u]
          BY <2>2 DEF PostSemaAll
        <5>2. "RUNNING" \in running[u]
          BY <4>2 DEF IsTaker, FlagInv
        <5> QED
          BY <4>2, <5>1, <5>2 DEF IsTaker, WeakResume
      <4> QED
        BY <1>a, <4>1, <4>2, StepKeeps
    <3> QED
      BY <3>1, <3>2
  <2>3. ASSUME NEW s \in AnySema, TakeNow(t, s) PROVE BackedAt(z)'
    <3>1. /\ line' = line
          /\ \A u \in Thread : IsTaker(u, z) => IsTaker(u, z)'
      BY <2>3 DEF TakeNow, IsTaker
    <3>2. value'[z] = value[z] \/ value'[z] = Taken(value[z])
      BY <2>3 DEF TakeNow, TypeOK
    <3> QED
      BY <1>a, <3>1, <3>2, StepKeeps
  <2>4. ASSUME NEW s \in AnySema, NEW e \in BOOLEAN, Wait(t, s, e) PROVE BackedAt(z)'
    BY <1>c, <2>4 DEF Wait, Runs, TypeOK
  <2>5. CASE RaiseBreak(t)
    BY <1>b, <2>5 DEF RaiseBreak, IsTaker
  <2> QED
    BY <1>2, <2>1, <2>2, <2>3, <2>4, <2>5 DEF Primitive
\* A signal never empties the flags of a waiting thread.
<1>3. ASSUME NEW t \in Thread, Signals(t) PROVE BackedAt(z)'
  <2>0. ASSUME NEW u \in Thread, IsTaker(u, z)
        PROVE  "RUNNING" \in running[u] /\ pc[u] = "wait"
    BY <2>0 DEF IsTaker, FlagInv
  <2>1. ASSUME NEW p \in Thread, BreakThread(t, p) PROVE BackedAt(z)'
    <3>1. \A u \in Thread : "RUNNING" \in running[u] => "RUNNING" \in running'[u]
      BY <2>1 DEF BreakThread, TypeOK, WeakResume
    <3>2. \A u \in Thread : IsTaker(u, z) => running'[u] # {}
      BY <2>0, <3>1
    <3>3. UNCHANGED <<value, line, pc, sema, picked, fair>>
      BY <2>1 DEF BreakThread
    <3> QED
      BY <1>b, <3>2, <3>3
  <2>2. ASSUME NEW p \in Thread, ThreadSuspend(t, p) PROVE BackedAt(z)'
    <3>1. \A u \in Thread : "RUNNING" \in running[u] => "RUNNING" \in running'[u]
      BY <2>2 DEF ThreadSuspend, TypeOK, UserSuspend, WeakSuspend, WeakResume
    <3>2. \A u \in Thread : IsTaker(u, z) => running'[u] # {}
      BY <2>0, <3>1
    <3>3. UNCHANGED <<value, line, pc, sema, picked, fair>>
      BY <2>2 DEF ThreadSuspend
    <3> QED
      BY <1>b, <3>2, <3>3
  <2>3. ASSUME NEW p \in Thread, ThreadResume(t, p) PROVE BackedAt(z)'
    <3>1. \A u \in Thread : "RUNNING" \in running[u] => "RUNNING" \in running'[u]
      BY <2>3 DEF ThreadResume, TypeOK, UserResume, WeakResume
    <3>2. \A u \in Thread : IsTaker(u, z) => running'[u] # {}
      BY <2>0, <3>1
    <3>3. UNCHANGED <<value, line, pc, sema, picked, fair>>
      BY <2>3 DEF ThreadResume
    <3> QED
      BY <1>b, <3>2, <3>3
  <2>4. ASSUME NEW p \in Thread, KillThread(t, p) PROVE BackedAt(z)'
    <3>1. \A u \in Thread : pc[u] = "wait" /\ "RUNNING" \in running[u] => "RUNNING" \in running'[u]
      BY <2>4 DEF KillThread, TypeOK, FlagInv, Kill, WeakResume, Runs
    <3>2. \A u \in Thread : IsTaker(u, z) => running'[u] # {}
      BY <2>0, <3>1
    <3> QED
      BY <1>b, <2>4, <3>2 DEF KillThread
  <2> QED
    BY <1>3, <2>1, <2>2, <2>3, <2>4 DEF Signals
<1>4. ASSUME NEW t \in Thread, ReapKilled(t) PROVE BackedAt(z)'
  <2>1. ~IsTaker(t, z)
    BY <1>4 DEF ReapKilled, FlagInv, IsTaker
  <2> QED
    BY <1>b, <1>4, <2>1 DEF ReapKilled, TypeOK, IsTaker
<1>5. CASE UNCHANGED vars
  BY <1>b, <1>5 DEF vars, IsTaker
<1> QED
  BY <1>1, <1>2, <1>3, <1>4, <1>5 DEF Next

\* While threads stand in line, there is a thread on its way for every post in
\* the count: whoever takes a post by chance, or is killed after it was
\* picked, leaves a taker behind or a count that has gone down.
THEOREM PostsHaveTakers == Spec => []EveryPostHasTaker
<1>1. Init => IInv /\ EveryPostHasTaker
  BY TypeInit, FlagInit, LineInit, SleeperInit, TakersInit DEF IInv
<1>2. IInv /\ EveryPostHasTaker /\ [Next]_vars => IInv' /\ EveryPostHasTaker'
  <2>1. IInv /\ [Next]_vars => TypeOK' /\ FlagInv' /\ MainInv' /\ LineInv'
    BY TypeStep, FlagStep, MainStep, LineStep DEF IInv
  <2> QED
    BY <2>1, SleeperStep, TakersStep DEF IInv
<1> QED
  BY <1>1, <1>2, PTL DEF Spec

-----------------------------------------------------------------------------
\* The refinement of AbstractSemaphore.

\* A thread that is about to poll, or to get in line again, has no post.
BlockInv == \A t \in Thread : pc[t] = "block" => ~picked[t]

\* All that the step of BlockInv and the mapping of steps rest on.
RInv == TypeOK /\ FlagInv /\ LineInv /\ BlockInv

\* A flag word of a thread that is there has RUNNING in it.
Shaped(word) == word # {} => "RUNNING" \in word

LEMMA ShapedFlags ==
  ASSUME FlagInv, NEW t \in Thread
  PROVE  Shaped(running[t])
BY DEF FlagInv, Shaped

LEMMA ShapedWake ==
  ASSUME NEW word \in SUBSET Flag, Shaped(word)
  PROVE  WeakResume(word) = {} <=> word = {}
BY DEF Shaped, WeakResume

-----------------------------------------------------------------------------
\* What a post does to the threads in line: it picks an unfair one, or none,
\* and leaves the count as it was raised, or picks a fair one and hands it over.
LEMMA PickIs ==
  ASSUME TypeOK, LineInv, NEW s \in AnySema, NEW v \in 0..MaxCount,
         NEW word \in [Thread -> SUBSET Flag], \A u \in Thread : Shaped(word[u]),
         PickWaiter(s, v, word)
  PROVE  /\ \A u \in Thread : running'[u] = {} <=> word[u] = {}
         /\ \A u \in Thread : pc[u] # "wait" => picked'[u] = picked[u]
         /\ \/ /\ value' = [value EXCEPT ![s] = v]
               /\ \A u \in Thread : fair[u] => picked'[u] = picked[u]
            \/ \E w \in Thread :
                 /\ fair[w] /\ ~picked[w] /\ picked'[w]
                 /\ pc[w] = "wait" /\ sema[w] = s /\ running[w] # {}
                 /\ value' = [value EXCEPT ![s] = v - 1]
                 /\ \A u \in Thread : u # w => picked'[u] = picked[u]
<1>1. CASE NobodyPicked(s, v, word)
  BY <1>1 DEF NobodyPicked
<1>2. CASE \E k \in Pickable(s) : FirstPicked(s, v, word, k)
  <2>1. PICK k \in Pickable(s) : FirstPicked(s, v, word, k)
    BY <1>2
  <2>2. PICK w : w = line[s][k]
    OBVIOUS
  <2>3. k \in 1..Len(line[s]) /\ w \in Thread
    BY <2>2, InLineThread DEF Pickable
  <2>4. pc[w] = "wait" /\ sema[w] = s /\ ~picked[w] /\ running[w] # {}
    BY <2>2, <2>3, LineInvIs
  <2>5. /\ value' = [value EXCEPT ![s] = IF fair[w] THEN v - 1 ELSE v]
        /\ running' = [word EXCEPT ![w] = WeakResume(word[w])]
        /\ picked' = [picked EXCEPT ![w] = TRUE]
    BY <2>1, <2>2 DEF FirstPicked
  <2>6. WeakResume(word[w]) = {} <=> word[w] = {}
    BY <2>3, ShapedWake
  <2>7. \A u \in Thread : running'[u] = {} <=> word[u] = {}
    BY <2>3, <2>5, <2>6
  <2>8. picked'[w] /\ \A u \in Thread : u # w => picked'[u] = picked[u]
    BY <2>3, <2>5 DEF TypeOK
  <2>9. CASE fair[w]
    BY <2>3, <2>4, <2>5, <2>7, <2>8, <2>9
  <2>10. CASE ~fair[w]
    BY <2>3, <2>4, <2>5, <2>7, <2>8, <2>10
  <2>11. QED BY <2>9, <2>10
<1>3. QED BY <1>1, <1>2 DEF PickWaiter

LEMMA AllPicked ==
  ASSUME RInv, NEW t \in Thread, NEW s \in AnySema, PostSemaAll(t, s)
  PROVE  /\ \A u \in Thread : running'[u] = {} <=> running[u] = {}
         /\ \A u \in Thread :
              \/ picked'[u] = picked[u]
              \/ pc[u] = "wait" /\ sema[u] = s /\ ~picked[u] /\ running[u] # {} /\ picked'[u]
<1>1. PICK woken : woken = {line[s][k] : k \in Pickable(s)}
  OBVIOUS
<1>2. /\ running' = [u \in Thread |-> IF u \in woken THEN WeakResume(running[u]) ELSE running[u]]
      /\ picked' = [u \in Thread |-> picked[u] \/ u \in woken]
  BY <1>1 DEF PostSemaAll
<1>3. \A u \in Thread : WeakResume(running[u]) = {} <=> running[u] = {}
  BY ShapedWake, ShapedFlags DEF RInv, TypeOK
<1>4. \A u \in woken : pc[u] = "wait" /\ sema[u] = s /\ ~picked[u] /\ running[u] # {}
  BY <1>1, LineInvIs DEF RInv, Pickable
<1>5. ASSUME NEW u \in Thread
      PROVE  \/ picked'[u] = picked[u]
             \/ pc[u] = "wait" /\ sema[u] = s /\ ~picked[u] /\ running[u] # {} /\ picked'[u]
  <2>1. CASE u \in woken
    BY <1>2, <1>4, <2>1
  <2>2. CASE u \notin woken
    BY <1>2, <2>2 DEF RInv, TypeOK
  <2>3. QED BY <2>1, <2>2
<1>6. QED BY <1>2, <1>3, <1>5

LEMMA DyingWord ==
  ASSUME TypeOK, FlagInv, NEW t \in Thread, NEW word, word = [running EXCEPT ![t] = {}]
  PROVE  /\ word \in [Thread -> SUBSET Flag] /\ word[t] = {}
         /\ \A u \in Thread : Shaped(word[u]) /\ (u # t => word[u] = running[u])
BY ShapedFlags DEF TypeOK, Shaped

LEMMA TakenCount ==
  ASSUME NEW v \in -1..MaxCount
  PROVE  /\ Taken(v) \in -1..MaxCount
         /\ Taken(v) > 0 => Taken(v) \in 0..MaxCount /\ v > 1 /\ Taken(v) = v - 1 /\ v # 0
         /\ v = 0 => Taken(v) = v
BY ConstantsAssumption DEF Taken

LEMMA PostedCount ==
  ASSUME TypeOK, NEW t \in Thread, NEW s \in AnySema, SemaphorePost(t, s)
  PROVE  /\ value[s] \in -1..MaxCount /\ value[s] + 1 \in 0..MaxCount
         /\ (value[s] + 1) - 1 = value[s]
<1>1. value[s] \in -1..MaxCount /\ value[s] < MaxCount
  BY DEF TypeOK, SemaphorePost
<1>2. QED BY <1>1, ConstantsAssumption

LEMMA BlockStep ==
  ASSUME RInv, [Next]_vars
  PROVE  BlockInv'
<1> SUFFICES ASSUME NEW u \in Thread, pc'[u] = "block"
             PROVE  ~picked'[u]
  BY DEF BlockInv
<1> USE DEF RInv
<1>0. pc[u] = "block" /\ picked'[u] = picked[u] => ~picked'[u]
  BY DEF BlockInv
<1>1. ASSUME NEW t \in Thread, Resume(t)
      PROVE  ~picked'[u]
  <2>1. CASE ReturnWithPost(t)
    BY <1>0, <2>1 DEF ReturnWithPost, WaitOver, TypeOK
  <2>2. CASE PostStolen(t)
    BY <1>0, <2>2 DEF PostStolen, SleepInLine, TypeOK
  <2>3. CASE DieAfterPick(t)
    <3>1. u # t /\ pc[u] = "block"
      BY <2>3 DEF DieAfterPick, WaitOver, TypeOK
    <3>2. PICK word : word = [running EXCEPT ![t] = {}]
      OBVIOUS
    <3>3. CASE PickWaiter(sema[t], Taken(value[sema[t]]), word) /\ Taken(value[sema[t]]) > 0
      <4>1. sema[t] \in AnySema /\ value[sema[t]] \in -1..MaxCount
        BY DEF TypeOK
      <4>2. Taken(value[sema[t]]) \in 0..MaxCount
        BY <3>3, <4>1, TakenCount
      <4>3. word \in [Thread -> SUBSET Flag] /\ \A w \in Thread : Shaped(word[w])
        BY <3>2, DyingWord
      <4>4. picked'[u] = picked[u]
        BY <3>1, <3>3, <4>1, <4>2, <4>3, PickIs
      <4>5. QED BY <1>0, <3>1, <4>4
    <3>4. CASE picked' = picked
      BY <1>0, <3>1, <3>4
    <3>5. QED BY <2>3, <3>2, <3>3, <3>4 DEF DieAfterPick
  <2>4. CASE LeaveLine(t)
    BY <1>0, <2>4 DEF LeaveLine, ThreadBlock, WaitOver, TypeOK
  <2>5. CASE BreakAfterBlock(t)
    BY <1>0, <2>5 DEF BreakAfterBlock, Blocked, ThreadBlock, WaitOver, TypeOK
  <2>6. CASE PollAfterBlock(t)
    BY <1>0, <2>6 DEF PollAfterBlock, WaitOver, TypeOK
  <2>7. CASE WaitAgain(t)
    BY <1>0, <2>7 DEF WaitAgain, SleepInLine, TypeOK
  <2>8. QED BY <1>1, <2>1, <2>2, <2>3, <2>4, <2>5, <2>6, <2>7 DEF Resume
<1>2. ASSUME NEW t \in Thread, NEW s \in AnySema, SemaphorePost(t, s)
      PROVE  ~picked'[u]
  <2>1. pc[u] = "block"
    BY <1>2 DEF SemaphorePost
  <2>2. picked'[u] = picked[u]
    BY <1>2, <2>1, PostedCount, PickIs, ShapedFlags DEF SemaphorePost, TypeOK
  <2>3. QED BY <1>0, <2>1, <2>2
<1>3. ASSUME NEW t \in Thread, NEW s \in AnySema, PostSemaAll(t, s)
      PROVE  ~picked'[u]
  BY <1>0, <1>3, AllPicked DEF PostSemaAll
<1>4. ASSUME NEW t \in Thread, NEW s \in AnySema, NEW e \in BOOLEAN, Wait(t, s, e)
      PROVE  ~picked'[u]
  BY <1>0, <1>4 DEF Wait, SleepInLine, TypeOK
<1>5. ASSUME NEW t \in Thread,
             \/ \E s \in AnySema : TakeNow(t, s)
             \/ RaiseBreak(t) \/ Signals(t) \/ ReapKilled(t)
      PROVE  ~picked'[u]
  BY <1>0, <1>5 DEF TakeNow, RaiseBreak, Signals, BreakThread, ThreadSuspend, ThreadResume,
                    KillThread, ReapKilled
<1>6. CASE UNCHANGED vars
  BY <1>0, <1>6 DEF vars
<1>7. QED BY <1>1, <1>2, <1>3, <1>4, <1>5, <1>6 DEF Next, Primitive

-----------------------------------------------------------------------------
\* Clients.

Clients == [t \in Thread |-> ClientOf(t)]

\* What clients see of a thread does not change.
Same(u) ==
  /\ running'[u] = {} <=> running[u] = {}
  /\ pc'[u] = "run" <=> pc[u] = "run"
  /\ fair'[u] /\ picked'[u] <=> fair[u] /\ picked[u]

LEMMA ClientIs ==
  ASSUME NEW t \in Thread
  PROVE  /\ running[t] = {} => ClientOf(t) = "gone"
         /\ running[t] # {} /\ pc[t] = "run" => ClientOf(t) = "out"
         /\ running[t] # {} /\ pc[t] # "run" =>
              ClientOf(t) = IF fair[t] /\ picked[t] THEN "granted" ELSE "asking"
BY DEF ClientOf

LEMMA ClientNext ==
  ASSUME NEW t \in Thread
  PROVE  /\ running'[t] = {} => ClientOf(t)' = "gone"
         /\ running'[t] # {} /\ pc'[t] = "run" => ClientOf(t)' = "out"
         /\ running'[t] # {} /\ pc'[t] # "run" =>
              ClientOf(t)' = IF fair'[t] /\ picked'[t] THEN "granted" ELSE "asking"
BY DEF ClientOf

LEMMA SameClient ==
  ASSUME NEW u \in Thread, Same(u)
  PROVE  ClientOf(u)' = ClientOf(u)
<1>1. CASE running[u] = {}
  BY <1>1, ClientIs, ClientNext DEF Same
<1>2. CASE running[u] # {} /\ pc[u] = "run"
  BY <1>2, ClientIs, ClientNext DEF Same
<1>3. CASE running[u] # {} /\ pc[u] # "run"
  <2>1. running'[u] # {} /\ pc'[u] # "run"
    BY <1>3 DEF Same
  <2>2. CASE fair[u] /\ picked[u]
    BY <1>3, <2>1, <2>2, ClientIs, ClientNext DEF Same
  <2>3. CASE ~(fair[u] /\ picked[u])
    BY <1>3, <2>1, <2>3, ClientIs, ClientNext DEF Same
  <2>4. QED BY <2>2, <2>3
<1>4. QED BY <1>1, <1>2, <1>3

LEMMA NoClient ==
  ASSUME \A u \in Thread : Same(u)
  PROVE  Clients' = Clients
BY SameClient DEF Clients

LEMMA OneClient ==
  ASSUME NEW t \in Thread, \A u \in Thread : u # t => Same(u)
  PROVE  Clients' = [Clients EXCEPT ![t] = ClientOf(t)']
BY SameClient DEF Clients

LEMMA TwoClients ==
  ASSUME NEW t \in Thread, NEW w \in Thread, t # w,
         \A u \in Thread : u # t /\ u # w => Same(u)
  PROVE  Clients' = [Clients EXCEPT ![t] = ClientOf(t)', ![w] = ClientOf(w)']
BY SameClient DEF Clients

\* Steps that clients do not see.
LEMMA Unseen ==
  ASSUME \A u \in Thread : Same(u), value' = value, sema' = sema
  PROVE  UNCHANGED Abstract!vars
BY NoClient DEF Clients, Abstract!vars

LEMMA HandedOut ==
  ASSUME TypeOK, NEW s \in AnySema, value[s] # 0, value' = [value EXCEPT ![s] = Taken(@)]
  PROVE  Abstract!HandOut(s)
BY DEF TypeOK, Taken, Abstract!HandOut

-----------------------------------------------------------------------------
\* Threads that get to run in a wait.

LEMMA ReturnIs ==
  ASSUME RInv, NEW t \in Thread, ReturnWithPost(t)
  PROVE  Abstract!Return(t) \/ Abstract!Grant(t)
<1> USE DEF RInv
<1>1. /\ pc[t] = "wait" /\ running[t] # {} /\ picked[t] /\ sema[t] \in AnySema
      /\ value \in [AnySema -> -1..MaxCount]
  BY DEF ReturnWithPost, Awake, Queued, TypeOK
<1>2. running'[t] # {} /\ pc'[t] = "run" /\ sema' = sema
  <2>1. running'[t] = running[t] \ {"NEED_KILL_CLEANUP"} /\ pc'[t] = "run" /\ sema' = sema
    BY DEF ReturnWithPost, WaitOver, TypeOK
  <2>2. "RUNNING" \in running[t]
    BY <1>1, ShapedFlags DEF Shaped
  <2>3. QED BY <2>1, <2>2
<1>3. \A u \in Thread : u # t => Same(u)
  BY DEF ReturnWithPost, WaitOver, Same, TypeOK
<1>4. Clients' = [Clients EXCEPT ![t] = "out"]
  BY <1>2, <1>3, OneClient, ClientNext
<1>5. CASE fair[t]
  <2>1. ClientOf(t) = "granted" /\ value' = value
    BY <1>1, <1>5, ClientIs DEF ReturnWithPost
  <2>2. QED BY <1>2, <1>4, <2>1 DEF Clients, Abstract!Return
<1>6. CASE ~fair[t]
  <2>1. ClientOf(t) = "asking"
    BY <1>1, <1>6, ClientIs
  <2>2. value[sema[t]] # 0 /\ value' = [value EXCEPT ![sema[t]] = Taken(@)]
    BY <1>6 DEF ReturnWithPost
  <2>3. Abstract!HandOut(sema[t])
    BY <1>1, <2>2, HandedOut
  <2>4. QED BY <1>2, <1>4, <2>1, <2>3 DEF Clients, Abstract!Grant
<1>7. QED BY <1>5, <1>6

LEMMA StolenIs ==
  ASSUME RInv, NEW t \in Thread, PostStolen(t) \/ WaitAgain(t)
  PROVE  UNCHANGED Abstract!vars
<1> USE DEF RInv
<1>1. /\ pc[t] # "run" /\ running[t] # {} /\ ~(fair[t] /\ picked[t])
      /\ value' = value /\ sema' = sema
  BY DEF PostStolen, WaitAgain, Blocked, BlockInv, Awake, Queued
<1>2. pc'[t] # "run" /\ running'[t] # {} /\ ~picked'[t]
  <2>1. SleepInLine(t, sema[t])
    BY DEF PostStolen, WaitAgain
  <2>2. pc'[t] = "wait" /\ ~picked'[t]
    BY <2>1 DEF SleepInLine, TypeOK
  <2>3. running[t] \subseteq running'[t]
    BY <2>1 DEF SleepInLine, TypeOK
  <2>4. QED BY <1>1, <2>2, <2>3
<1>3. Same(t)
  BY <1>1, <1>2 DEF Same
<1>4. \A u \in Thread : u # t => Same(u)
  BY DEF PostStolen, WaitAgain, SleepInLine, Same, TypeOK
<1>5. QED BY <1>1, <1>3, <1>4, Unseen

LEMMA DieIs ==
  ASSUME RInv, NEW t \in Thread, DieAfterPick(t)
  PROVE  \/ Abstract!Die(t) \/ Abstract!DieWithPost(t)
         \/ \E w \in Thread : Abstract!DieAndPass(t, w)
<1> USE DEF RInv
<1>1. PICK s \in AnySema : s = sema[t]
  BY DEF TypeOK
<1>2. /\ pc[t] = "wait" /\ running[t] # {} /\ picked[t] /\ sema' = sema
      /\ value \in [AnySema -> -1..MaxCount] /\ value[s] \in -1..MaxCount
  BY <1>1 DEF DieAfterPick, Awake, Queued, TypeOK
<1>3. /\ \A u \in Thread : u # t => pc'[u] = pc[u] /\ fair'[u] = fair[u]
      /\ pc' \in [Thread -> {"run", "wait", "block"}]
  BY DEF DieAfterPick, WaitOver, TypeOK
<1>4. PICK word : word = [running EXCEPT ![t] = {}]
  OBVIOUS
<1>5. CASE ~(~fair[t] /\ Taken(value[s]) > 0)
  <2>1. /\ value' = [value EXCEPT ![s] = IF fair[t] THEN @ ELSE Taken(@)]
        /\ running' = [running EXCEPT ![t] = {}] /\ picked' = picked
    BY <1>1, <1>5 DEF DieAfterPick
  <2>2. running'[t] = {} /\ \A u \in Thread : u # t => Same(u)
    BY <1>3, <2>1 DEF Same, TypeOK
  <2>3. Clients' = [Clients EXCEPT ![t] = "gone"]
    BY <2>2, OneClient, ClientNext
  <2>4. CASE fair[t] \/ value[s] = 0
    <3>1. value' = value
      BY <1>2, <2>1, <2>4, TakenCount
    <3>2. ClientOf(t) # "gone"
      BY <1>2, ClientIs
    <3>3. QED BY <1>2, <2>3, <3>1, <3>2 DEF Clients, Abstract!Die
  <2>5. CASE ~fair[t] /\ value[s] # 0
    <3>1. Abstract!HandOut(sema[t])
      BY <1>1, <2>1, <2>5, HandedOut
    <3>2. ClientOf(t) = "asking"
      BY <1>2, <2>5, ClientIs
    <3>3. QED BY <1>2, <2>3, <3>1, <3>2 DEF Clients, Abstract!DieWithPost
  <2>6. QED BY <2>4, <2>5
<1>6. CASE ~fair[t] /\ Taken(value[s]) > 0
  <2>1. PickWaiter(s, Taken(value[s]), word)
    BY <1>1, <1>4, <1>6 DEF DieAfterPick
  <2>2. /\ Taken(value[s]) \in 0..MaxCount /\ Taken(value[s]) = value[s] - 1
        /\ value[s] > 1 /\ value[s] # 0
    BY <1>2, <1>6, TakenCount
  <2>3. /\ word \in [Thread -> SUBSET Flag] /\ word[t] = {}
        /\ \A u \in Thread : Shaped(word[u]) /\ (u # t => word[u] = running[u])
    BY <1>4, DyingWord
  <2>4. ClientOf(t) = "asking"
    BY <1>2, <1>6, ClientIs
  <2>5. \A u \in Thread : running'[u] = {} <=> word[u] = {}
    BY <2>1, <2>2, <2>3, PickIs
  <2>6. ClientOf(t)' = "gone"
    BY <2>3, <2>5, ClientNext
  <2>7. CASE /\ value' = [value EXCEPT ![s] = Taken(value[s])]
             /\ \A u \in Thread : fair[u] => picked'[u] = picked[u]
    <3>1. \A u \in Thread : u # t => Same(u)
      BY <1>3, <2>3, <2>5, <2>7 DEF Same
    <3>2. Clients' = [Clients EXCEPT ![t] = "gone"]
      BY <2>6, <3>1, OneClient
    <3>3. Abstract!HandOut(sema[t])
      BY <1>1, <2>2, <2>7, HandedOut
    <3>4. QED BY <1>2, <2>4, <3>2, <3>3 DEF Clients, Abstract!DieWithPost
  <2>8. ASSUME NEW w \in Thread,
               fair[w], ~picked[w], picked'[w],
               pc[w] = "wait", sema[w] = s, running[w] # {},
               value' = [value EXCEPT ![s] = Taken(value[s]) - 1],
               \A u \in Thread : u # w => picked'[u] = picked[u]
        PROVE  Abstract!DieAndPass(t, w)
    <3>1. w # t
      BY <1>2, <2>8
    <3>2. \A u \in Thread : u # t /\ u # w => Same(u)
      BY <1>3, <2>3, <2>5, <2>8 DEF Same
    <3>3. ClientOf(w) = "asking"
      BY <2>8, ClientIs
    <3>4. running'[w] # {} /\ pc'[w] # "run" /\ fair'[w]
      BY <1>3, <2>3, <2>5, <2>8, <3>1
    <3>5. ClientOf(w)' = "granted"
      BY <2>8, <3>4, ClientNext
    <3>6. Clients' = [Clients EXCEPT ![t] = "gone", ![w] = "granted"]
      BY <2>6, <3>1, <3>2, <3>5, TwoClients
    <3>7. Taken(value[s]) - 1 = value[s] - 2
      BY <1>2, <2>2
    <3>8. value' = [value EXCEPT ![s] = @ - 2]
      BY <2>8, <3>7
    <3>9. QED BY <1>1, <1>2, <2>2, <2>4, <2>8, <3>1, <3>3, <3>6, <3>8
              DEF Clients, Abstract!DieAndPass, Abstract!Asking
  <2>9. QED BY <2>1, <2>2, <2>3, <2>7, <2>8, PickIs
<1>7. QED BY <1>5, <1>6

LEMMA LeaveIs ==
  ASSUME RInv, NEW t \in Thread, LeaveLine(t) \/ BreakAfterBlock(t)
  PROVE  \/ Abstract!Die(t) \/ Abstract!GiveUp(t)
         \/ UNCHANGED Abstract!vars
<1> USE DEF RInv
<1>1. /\ pc[t] # "run" /\ running[t] # {} /\ ~picked[t]
      /\ value' = value /\ sema' = sema /\ picked' = picked
  BY DEF LeaveLine, BreakAfterBlock, Blocked, BlockInv, Awake, Queued
<1>2. ClientOf(t) = "asking"
  BY <1>1, ClientIs
<1>3. PICK word : /\ word # {}
                  /\ ThreadBlock(t, word)
  <2>1. CASE LeaveLine(t)
    <3>1. running[t] \ {"NEED_KILL_CLEANUP"} # {}
      BY <1>1, ShapedFlags DEF Shaped
    <3>2. QED BY <2>1, <3>1 DEF LeaveLine
  <2>2. CASE BreakAfterBlock(t)
    BY <1>1, <2>2 DEF BreakAfterBlock
  <2>3. QED BY <2>1, <2>2
<1>4. \A u \in Thread : u # t => Same(u)
  BY <1>1, <1>3 DEF ThreadBlock, WaitOver, Same, TypeOK
<1>5. Clients' = [Clients EXCEPT ![t] = ClientOf(t)']
  BY <1>4, OneClient
<1>6. CASE running'[t] = {}
  <2>1. ClientOf(t)' = "gone"
    BY <1>6, ClientNext
  <2>2. QED BY <1>1, <1>2, <1>5, <2>1 DEF Clients, Abstract!Die
<1>7. CASE running'[t] # {} /\ pc'[t] = "run"
  <2>1. ClientOf(t)' = "out"
    BY <1>7, ClientNext
  <2>2. QED BY <1>1, <1>2, <1>5, <2>1 DEF Clients, Abstract!GiveUp
<1>8. CASE running'[t] # {} /\ pc'[t] # "run"
  <2>1. Same(t)
    BY <1>1, <1>8 DEF Same
  <2>2. QED BY <1>1, <1>4, <2>1, Unseen
<1>9. QED BY <1>6, <1>7, <1>8

LEMMA PollIs ==
  ASSUME RInv, NEW t \in Thread, PollAfterBlock(t)
  PROVE  Abstract!Grant(t)
<1> USE DEF RInv
<1>1. /\ pc[t] # "run" /\ running[t] # {} /\ ~picked[t] /\ sema[t] \in AnySema
      /\ UNCHANGED <<sema, running, picked>>
  BY DEF PollAfterBlock, Blocked, BlockInv, TypeOK
<1>2. ClientOf(t) = "asking"
  BY <1>1, ClientIs
<1>3. pc'[t] = "run" /\ \A u \in Thread : u # t => Same(u)
  BY <1>1 DEF PollAfterBlock, WaitOver, Same, TypeOK
<1>4. Clients' = [Clients EXCEPT ![t] = "out"]
  BY <1>1, <1>3, OneClient, ClientNext
<1>5. Abstract!HandOut(sema[t])
  BY <1>1, HandedOut DEF PollAfterBlock
<1>6. QED BY <1>1, <1>2, <1>4, <1>5 DEF Clients, Abstract!Grant

LEMMA ResumeIs ==
  ASSUME RInv, NEW t \in Thread, Resume(t)
  PROVE  [Abstract!Next]_(Abstract!vars)
<1>1. CASE ReturnWithPost(t)
  BY <1>1, ReturnIs DEF Abstract!Next
<1>2. CASE PostStolen(t) \/ WaitAgain(t)
  BY <1>2, StolenIs
<1>3. CASE DieAfterPick(t)
  BY <1>3, DieIs DEF Abstract!Next
<1>4. CASE LeaveLine(t) \/ BreakAfterBlock(t)
  BY <1>4, LeaveIs DEF Abstract!Next
<1>5. CASE PollAfterBlock(t)
  BY <1>5, PollIs DEF Abstract!Next
<1>6. QED BY <1>1, <1>2, <1>3, <1>4, <1>5 DEF Resume

-----------------------------------------------------------------------------
\* Threads that run their program.

LEMMA PostIs ==
  ASSUME RInv, NEW t \in Thread, NEW s \in AnySema, SemaphorePost(t, s)
  PROVE  Abstract!Post(s) \/ \E w \in Thread : Abstract!PostTo(w, s)
<1> USE DEF RInv
<1>1. /\ PickWaiter(s, value[s] + 1, running) /\ s \in Sema
      /\ UNCHANGED <<pc, sema, fair>>
  BY DEF SemaphorePost
<1>2. /\ value[s] + 1 \in 0..MaxCount /\ (value[s] + 1) - 1 = value[s]
      /\ value \in [AnySema -> -1..MaxCount]
  BY PostedCount DEF TypeOK
<1>3. running \in [Thread -> SUBSET Flag] /\ \A u \in Thread : Shaped(running[u])
  BY ShapedFlags DEF TypeOK
<1>4. \A u \in Thread : running'[u] = {} <=> running[u] = {}
  BY <1>1, <1>2, <1>3, PickIs
<1>5. CASE /\ value' = [value EXCEPT ![s] = value[s] + 1]
           /\ \A u \in Thread : fair[u] => picked'[u] = picked[u]
  <2>1. \A u \in Thread : Same(u)
    BY <1>1, <1>4, <1>5 DEF Same
  <2>2. Clients' = Clients
    BY <2>1, NoClient
  <2>3. QED BY <1>1, <1>5, <2>2 DEF Clients, Abstract!Post
<1>6. ASSUME NEW w \in Thread,
             fair[w], ~picked[w], picked'[w],
             pc[w] = "wait", sema[w] = s, running[w] # {},
             value' = [value EXCEPT ![s] = (value[s] + 1) - 1],
             \A u \in Thread : u # w => picked'[u] = picked[u]
      PROVE  Abstract!PostTo(w, s)
  <2>1. \A u \in Thread : u # w => Same(u)
    BY <1>1, <1>4, <1>6 DEF Same
  <2>2. ClientOf(w) = "asking"
    BY <1>6, ClientIs
  <2>3. ClientOf(w)' = "granted"
    BY <1>1, <1>4, <1>6, ClientNext
  <2>4. Clients' = [Clients EXCEPT ![w] = "granted"]
    BY <2>1, <2>3, OneClient
  <2>5. value' = value
    BY <1>2, <1>6
  <2>6. QED BY <1>1, <1>6, <2>2, <2>4, <2>5 DEF Clients, Abstract!PostTo, Abstract!Asking
<1>7. QED BY <1>1, <1>2, <1>3, <1>5, <1>6, PickIs

LEMMA PostAllIs ==
  ASSUME RInv, NEW t \in Thread, NEW s \in AnySema, PostSemaAll(t, s)
  PROVE  Abstract!PostForGood(s)
<1> USE DEF RInv
<1>1. /\ s \in EvtSema /\ value' = [value EXCEPT ![s] = -1]
      /\ UNCHANGED <<pc, sema, fair>>
  BY DEF PostSemaAll
<1>2. PICK served : served = {u \in Thread : fair[u] /\ picked'[u] /\ ~picked[u]}
  OBVIOUS
<1>3. ASSUME NEW u \in Thread
      PROVE  /\ u \in served => Abstract!Asking(u, s)
             /\ ClientOf(u)' = IF u \in served THEN "granted" ELSE ClientOf(u)
  <2>1. CASE u \in served
    <3>1. /\ pc[u] = "wait" /\ sema[u] = s /\ running[u] # {} /\ running'[u] # {}
          /\ fair[u] /\ picked'[u] /\ ~picked[u]
      BY <1>2, <2>1, AllPicked
    <3>2. ClientOf(u) = "asking" /\ ClientOf(u)' = "granted"
      BY <1>1, <3>1, ClientIs, ClientNext
    <3>3. QED BY <2>1, <3>1, <3>2 DEF Abstract!Asking
  <2>2. CASE u \notin served
    <3>1. Same(u)
      <4>1. running'[u] = {} <=> running[u] = {}
        BY AllPicked
      <4>2. fair'[u] /\ picked'[u] <=> fair[u] /\ picked[u]
        BY <1>1, <1>2, <2>2, AllPicked
      <4>3. QED BY <1>1, <4>1, <4>2 DEF Same
    <3>2. QED BY <2>2, <3>1, SameClient
  <2>3. QED BY <2>1, <2>2
<1>4. served \in SUBSET {c \in Thread : Abstract!Asking(c, s)}
  BY <1>2, <1>3
<1>5. Clients' = [c \in Thread |-> IF c \in served THEN "granted" ELSE Clients[c]]
  BY <1>3 DEF Clients
<1>6. QED BY <1>1, <1>4, <1>5 DEF Clients, Abstract!PostForGood

LEMMA TakeIs ==
  ASSUME RInv, NEW t \in Thread, NEW s \in AnySema, TakeNow(t, s)
  PROVE  Abstract!Take(t, s)
<1> USE DEF RInv
<1>1. UNCHANGED <<running, pc, sema, fair, picked>>
  BY DEF TakeNow
<1>2. ClientOf(t) = "out"
  BY ClientIs DEF TakeNow, Runs
<1>3. Clients' = Clients
  BY <1>1, NoClient DEF Same
<1>4. Abstract!HandOut(s)
  BY HandedOut DEF TakeNow
<1>5. QED BY <1>1, <1>2, <1>3, <1>4 DEF Clients, Abstract!Take

LEMMA WaitIs ==
  ASSUME RInv, NEW t \in Thread, NEW s \in AnySema, NEW e \in BOOLEAN, Wait(t, s, e)
  PROVE  Abstract!Ask(t, s)
<1> USE DEF RInv
<1>1. /\ value[s] = 0 /\ value' = value /\ sema' = [sema EXCEPT ![t] = s]
      /\ running[t] = {"RUNNING"} /\ pc[t] = "run"
  BY DEF Wait, Runs
<1>2. ClientOf(t) = "out"
  BY <1>1, ClientIs
<1>3. pc'[t] = "wait" /\ ~picked'[t] /\ running[t] \subseteq running'[t]
  BY DEF Wait, SleepInLine, TypeOK
<1>4. ClientOf(t)' = "asking"
  BY <1>1, <1>3, ClientNext
<1>5. \A u \in Thread : u # t => Same(u)
  BY DEF Wait, SleepInLine, Same, TypeOK
<1>6. Clients' = [Clients EXCEPT ![t] = "asking"]
  BY <1>4, <1>5, OneClient
<1>7. QED BY <1>1, <1>2, <1>6 DEF Clients, Abstract!Ask

\* A step that changes flag words only, and takes no thread away, is not seen.
LEMMA FlagsUnseen ==
  ASSUME UNCHANGED <<value, sema, pc, fair, picked>>,
         \A u \in Thread : running'[u] = {} <=> running[u] = {}
  PROVE  UNCHANGED Abstract!vars
BY Unseen DEF Same

\* A step that takes one thread away.
LEMMA DiesIs ==
  ASSUME UNCHANGED <<value, sema, pc, fair, picked>>,
         NEW p \in Thread, running[p] # {}, running'[p] = {},
         \A u \in Thread : u # p => running'[u] = running[u]
  PROVE  Abstract!Die(p)
<1>1. ClientOf(p) # "gone"
  BY ClientIs
<1>2. \A u \in Thread : u # p => Same(u)
  BY DEF Same
<1>3. Clients' = [Clients EXCEPT ![p] = "gone"]
  BY <1>2, OneClient, ClientNext
<1>4. QED BY <1>1, <1>3 DEF Clients, Abstract!Die

LEMMA SignalIs ==
  ASSUME RInv, NEW t \in Thread, RaiseBreak(t) \/ Signals(t) \/ ReapKilled(t)
  PROVE  UNCHANGED Abstract!vars \/ \E p \in Thread : Abstract!Die(p)
<1> USE DEF RInv
<1>1. CASE RaiseBreak(t)
  BY <1>1, FlagsUnseen DEF RaiseBreak
<1>2. ASSUME NEW p \in Thread, BreakThread(t, p)
      PROVE  UNCHANGED Abstract!vars
  <2>1. running' = [running EXCEPT ![p] = WeakResume(running[p])]
    BY <1>2 DEF BreakThread
  <2>2. WeakResume(running[p]) = {} <=> running[p] = {}
    BY ShapedWake, ShapedFlags DEF TypeOK
  <2>3. \A u \in Thread : running'[u] = {} <=> running[u] = {}
    BY <2>1, <2>2 DEF TypeOK
  <2>4. QED BY <1>2, <2>3, FlagsUnseen DEF BreakThread
<1>3. ASSUME NEW p \in Thread, ThreadSuspend(t, p)
      PROVE  UNCHANGED Abstract!vars
  <2>1. PICK word : /\ word = IF p = Main THEN running[p] \cup {"USER_SUSPENDED"}
                                         ELSE UserSuspend(running[p])
                    /\ running' = [running EXCEPT ![p] = word]
    BY <1>3 DEF ThreadSuspend
  <2>2. word # {}
    BY <2>1 DEF UserSuspend, WeakSuspend
  <2>3. running[p] # {}
    BY <1>3 DEF ThreadSuspend, StillRunning
  <2>4. \A u \in Thread : running'[u] = {} <=> running[u] = {}
    BY <2>1, <2>2, <2>3 DEF TypeOK
  <2>5. QED BY <1>3, <2>4, FlagsUnseen DEF ThreadSuspend
<1>4. ASSUME NEW p \in Thread, ThreadResume(t, p)
      PROVE  UNCHANGED Abstract!vars
  <2>1. running' = [running EXCEPT ![p] = UserResume(running[p])] /\ running[p] # {}
    BY <1>4 DEF ThreadResume, StillRunning
  <2>2. "RUNNING" \in running[p]
    BY <2>1, ShapedFlags DEF Shaped
  <2>3. UserResume(running[p]) # {}
    BY <2>2 DEF UserResume, WeakResume
  <2>4. \A u \in Thread : running'[u] = {} <=> running[u] = {}
    BY <2>1, <2>3 DEF TypeOK
  <2>5. QED BY <1>4, <2>4, FlagsUnseen DEF ThreadResume
<1>5. ASSUME NEW p \in Thread, KillThread(t, p)
      PROVE  UNCHANGED Abstract!vars \/ Abstract!Die(p)
  <2>1. PICK word : running' = [running EXCEPT ![p] = word]
    BY <1>5 DEF KillThread
  <2>2. running[p] # {} /\ UNCHANGED <<value, sema, pc, fair, picked>>
    BY <1>5 DEF KillThread, StillRunning
  <2>3. running'[p] = word /\ \A u \in Thread : u # p => running'[u] = running[u]
    BY <2>1 DEF TypeOK
  <2>4. CASE word = {}
    BY <2>2, <2>3, <2>4, DiesIs
  <2>5. CASE word # {}
    <3>1. \A u \in Thread : running'[u] = {} <=> running[u] = {}
      BY <2>2, <2>3, <2>5
    <3>2. QED BY <2>2, <3>1, FlagsUnseen
  <2>6. QED BY <2>4, <2>5
<1>6. CASE ReapKilled(t)
  <2>1. /\ running' = [running EXCEPT ![t] = {}] /\ running[t] # {}
        /\ UNCHANGED <<value, sema, pc, fair, picked>>
    BY <1>6 DEF ReapKilled, Queued
  <2>2. running'[t] = {} /\ \A u \in Thread : u # t => running'[u] = running[u]
    BY <2>1 DEF TypeOK
  <2>3. QED BY <2>1, <2>2, DiesIs
<1>7. QED BY <1>1, <1>2, <1>3, <1>4, <1>5, <1>6 DEF Signals

-----------------------------------------------------------------------------
LEMMA AbstractInit ==
  Init => Abstract!Init
<1>1. SUFFICES ASSUME Init PROVE Abstract!Init
  OBVIOUS
<1>2. value \in [Sema \cup EvtSema -> InitCount \cup {0}]
  BY <1>1 DEF Init, AnySema
<1>3. \A t \in Thread : ClientOf(t) = "out"
  BY <1>1, ClientIs DEF Init
<1>4. QED BY <1>1, <1>2, <1>3 DEF Init, AnySema, Abstract!Init

LEMMA AbstractStep ==
  ASSUME RInv, [Next]_vars
  PROVE  [Abstract!Next]_(Abstract!vars)
<1>1. ASSUME NEW t \in Thread, Resume(t)
      PROVE  [Abstract!Next]_(Abstract!vars)
  BY <1>1, ResumeIs
<1>2. ASSUME NEW t \in Thread, NEW s \in AnySema,
             \/ SemaphorePost(t, s) \/ PostSemaAll(t, s) \/ TakeNow(t, s)
             \/ \E e \in BOOLEAN : Wait(t, s, e)
      PROVE  Abstract!Next
  BY <1>2, PostIs, PostAllIs, TakeIs, WaitIs DEF AnySema, Abstract!Next
<1>3. ASSUME NEW t \in Thread, RaiseBreak(t) \/ Signals(t) \/ ReapKilled(t)
      PROVE  [Abstract!Next]_(Abstract!vars)
  BY <1>3, SignalIs DEF Abstract!Next
<1>4. CASE UNCHANGED vars
  BY <1>4, FlagsUnseen DEF vars
<1>5. QED BY <1>1, <1>2, <1>3, <1>4 DEF Next, Primitive

\* Whatever the order of posts, waits, breaks, kills and suspensions, a
\* semaphore hands out each post once, and a wait ends with a post of its own or
\* with a break and none; a post that a thread was handed goes to nobody else.
THEOREM AbstractRefined ==
  Spec => ImplementsAbstract
<1>1. Init => RInv
  BY TypeInit, FlagInit, LineInit DEF RInv, Init, BlockInv
<1>2. RInv /\ [Next]_vars => RInv'
  BY TypeStep, FlagStep, LineStep, BlockStep DEF RInv
<1>3. QED BY <1>1, <1>2, AbstractInit, AbstractStep, PTL
          DEF Spec, ImplementsAbstract, Abstract!Spec
=============================================================================
