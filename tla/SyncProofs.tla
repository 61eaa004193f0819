----------------------------- MODULE SyncProofs ----------------------------
(***************************************************************************)
(* Proofs about Sync: types, lines and nacks, that nobody is missed, and   *)
(* that Sync implements AbstractSwap.                                      *)
(* The inductive invariant IInv says what is known of the lines (Good, of  *)
(* SyncLineProofs), of each thread (ThreadInv), of each call of sync       *)
(* (CallInv), of each syncer (SyncerInv), and of who stands in line with   *)
(* whom (Met).  A step changes one or two threads; Fine collects what the  *)
(* invariant says of one, and most lemmas say that a thread stays Fine.    *)
(* The refinement needs to know of breaks, too (BalanceInv).               *)
(***************************************************************************)
EXTENDS SyncLineProofs, SequenceTheorems

-----------------------------------------------------------------------------
\* The invariant.

\* The word of a thread, and the signals that its program allows for.
WordInv(t) ==
  /\ running[t] # {} => "RUNNING" \in running[t]
  /\ "NEED_KILL_CLEANUP" \in running[t] <=> pc[t] = "wait"
  /\ external_break[t] => "break" \in program[t].signals
  /\ "USER_SUSPENDED" \in running[t] => "suspend" \in program[t].signals
  /\ running[t] = {} \/ "KILLED" \in running[t] => "kill" \in program[t].signals

\* Where a thread stands in its current sync.
StageInv(t) ==
  /\ call[t] <= Len(program[t].syncs)
  /\ pc[t] # "run" =>
       /\ call[t] # 0 /\ start[t] < Len(SyncOf(Current(t)).evts)
       /\ pc[t] = "block" => result[Current(t)] = 0
       /\ pc[t] = "poll" => Deferred(Current(t))
       /\ \/ outcome[Current(t)] = "going"
          \/ /\ outcome[Current(t)] = "killed" /\ pc[t] # "wait"
             /\ running[t] = {} \/ "KILLED" \in running[t]
       /\ pc[t] # "wait" /\ outcome[Current(t)] = "going" =>
            running[t] # {} /\ "KILLED" \notin running[t]

\* Only a choice raises suspend_break above 0, and only for the current sync.
BreakInv(t) ==
  /\ suspend_break[t] >= 0 - (IF pc[t] = "run" THEN call[t] ELSE call[t] - 1)
  /\ suspend_break[t] <= 1
  /\ suspend_break[t] = 1 =>
       \/ running[t] = {}
       \/ pc[t] # "run" /\ result[Current(t)] # 0 /\ SyncOf(Current(t)).enable

ThreadInv(t) == WordInv(t) /\ StageInv(t) /\ BreakInv(t)

\* What is known of a call.
CallInv(c) ==
  /\ c[2] > call[c[1]] <=> outcome[c] = "none"
  /\ outcome[c] = "going" => c = Current(c[1]) /\ pc[c[1]] # "run"
  /\ result[c] # 0 => outcome[c] # "none" /\ result[c] <= Len(SyncOf(c).evts)
  /\ outcome[c] = "evt" => result[c] # 0

\* The nack of an event.
NackInv(w) ==
  nack[w] # "none" =>
    /\ Real(w) /\ outcome[CallOf(w)] # "none"
    /\ nack[w] = "made" <=>
         /\ outcome[CallOf(w)] = "going" /\ result[CallOf(w)] = 0
         /\ "KILLED" \notin running[w[1]]
    /\ nack[w] = "kept" <=> w[3] = result[CallOf(w)]

\* Who is in line, and who has to be.
PlaceInv(w) ==
  w \in links.in_line =>
    /\ Real(w) /\ CallOf(w) = Current(w[1]) /\ outcome[CallOf(w)] = "going"
    /\ pc[w[1]] = "wait" \/ (pc[w[1]] = "poll" /\ ~OnSema(w) /\ result[CallOf(w)] = 0)

\* A thread that waits for a choice: it sleeps, or the scheduler polls it.
Sleeps(t) == pc[t] = "wait" /\ "SUSPENDED" \in running[t]
InPoll(t) == pc[t] = "poll" /\ "suspend" \notin program[t].signals

KeptInv(w) ==
  /\ Real(w) /\ CallOf(w) = Current(w[1])
  /\ outcome[CallOf(w)] = "going" /\ result[CallOf(w)] = 0 /\ ~pending_break(w[1])
  /\ Sleeps(w[1]) \/ (InPoll(w[1]) /\ ~OnSema(w))
  => w \in links.in_line

SyncerInv(w) == NackInv(w) /\ PlaceInv(w) /\ KeptInv(w)

\* No two syncs wait in the two lines of a channel, and nobody waits for a post
\* that is there.
Facing(L) ==
  \A w \in L.in_line, x \in L.in_line :
    ~OnSema(w) /\ LineOf(x) = Opposite(LineOf(w)) => CallOf(x) = CallOf(w)

Drained(L) == \A w \in L.in_line : OnSema(w) => value[EvtOf(w).on] = 0

Met == Drained(links) /\ (Attentive(program) => Facing(links))

\* Types.
Types ==
  /\ program \in Programs /\ Apart(program)
  /\ call \in [Thread -> 0..MaxCalls]
  /\ pc \in [Thread -> {"run", "wait", "poll", "block"}]
  /\ start \in [Thread -> 0..(MaxEvts - 1)]
  /\ running \in [Thread -> SUBSET Flag]
  /\ external_break \in [Thread -> BOOLEAN]
  /\ suspend_break \in [Thread -> Int]
  /\ value \in [Sema -> 0..MaxCount]
  /\ result \in [Call -> 0..MaxEvts]
  /\ got \in [Call -> Call \cup {Null}]
  /\ nack \in [Syncer -> {"none", "made", "posted", "kept"}]
  /\ outcome \in [Call -> {"none", "going", "evt", "false", "break", "killed"}]

IInv ==
  /\ Types /\ Good(links)
  /\ \A t \in Thread : ThreadInv(t)
  /\ \A c \in Call : CallInv(c)
  /\ \A w \in Syncer : SyncerInv(w)
  /\ Met

\* The least number of a set of them.
LEMMA MinIs ==
  ASSUME NEW S \in SUBSET Nat, S # {}
  PROVE  Min(S) \in S /\ \A n \in S : Min(S) <= n
<1>1. \E n \in S : \A m \in S : n <= m
  BY Least
<1>2. QED BY <1>1 DEF Min

\* What try_channel does to the lines, and whom it finds.
Tried(L, e, c, t) ==
  /\ Good(t.links) /\ t.links.in_line \in SUBSET L.in_line
  /\ \A w \in L.in_line \ t.links.in_line : LineOf(w) = e /\ CallOf(w) # c /\ ~CanTake(w)
  /\ t.taker = Null => \A w \in t.links.in_line : LineOf(w) = e => CallOf(w) = c
  /\ t.taker # Null => /\ t.taker \in t.links.in_line /\ LineOf(t.taker) = e
                       /\ CallOf(t.taker) # c /\ CanTake(t.taker)

\* try_channel does what Tried says.
LEMMA TryIs ==
  ASSUME program \in Programs, NEW L, Good(L), NEW e \in Line, NEW c
  PROVE  Tried(L, e, c, Try(L, e, c))
<1>1. PICK pos, B : Sorted(L, pos, B) /\ Alone(L)
  BY DEF Good
<1>2. PICK walk, n : walk = Walk(L, e) /\ n = Len(walk)
  OBVIOUS
<1>3. n \in Nat
  BY <1>1, <1>2, WalkSorted
<1>4. walk \in Seq(OnLine(L, e))
  BY <1>1, <1>2, WalkSorted
<1>5. \A w \in OnLine(L, e) : \E k \in 1..n : walk[k] = w
  BY <1>1, <1>2, WalkSorted
<1>6. \A j, k \in 1..n : j < k => pos[walk[j]] < pos[walk[k]]
  BY <1>1, <1>2, WalkSorted
<1>7. PICK found, k, ws, S : /\ found = {h \in 1..n : CallOf(walk[h]) # c /\ CanTake(walk[h])}
                             /\ k = Min(found \cup {n + 1}) /\ ws = SubSeq(walk, 1, k - 1)
                             /\ S = {w \in Syncer : CallOf(w) # c}
  OBVIOUS
<1>8. /\ k \in 1..(n + 1) /\ k \in found \cup {n + 1}
      /\ \A h \in found : k <= h
      /\ found = {} => k = n + 1
      /\ found # {} => k \in found
  <2>1. found \cup {n + 1} \in SUBSET Nat /\ found \cup {n + 1} # {}
    BY <1>3, <1>7
  <2>2. k \in found \cup {n + 1} /\ \A h \in found \cup {n + 1} : k <= h
    BY <1>7, <2>1, MinIs
  <2>3. found \in SUBSET 1..n
    BY <1>7
  <2>4. k \in 1..(n + 1)
    BY <1>3, <2>2, <2>3
  <2>5. ASSUME found # {} PROVE k \in found
    <3>1. PICK h \in found : TRUE
      BY <2>5
    <3>2. h <= n /\ h \in 1..n
      BY <2>3
    <3>3. k <= h
      BY <2>2
    <3>4. k # n + 1
      BY <1>3, <2>4, <3>2, <3>3
    <3>5. QED BY <2>2, <3>4
  <2>6. QED BY <2>2, <2>4, <2>5
<1>9. PICK m : m = k - 1 /\ m \in Nat /\ m <= n /\ m \in 0..n
  BY <1>3, <1>8
<1>10. Len(ws) = m /\ \A j \in 1..m : ws[j] = walk[j]
  <2>1. \A j \in 1..m : j \in 1..n
    BY <1>3, <1>9
  <2>2. \A j \in 1..m : walk[j] \in OnLine(L, e)
    BY <1>2, <1>3, <1>4, <2>1
  <2>3. ws = SubSeq(walk, 1, m)
    BY <1>7, <1>9
  <2>4. 1 \in Int /\ m \in Int
    BY <1>9
  <2>5. Len(ws) = IF 1 <= m THEN m - 1 + 1 ELSE 0
    BY <2>2, <2>3, <2>4, SubSeqProperties
  <2>6. \A j \in 1..(m - 1 + 1) : ws[j] = walk[1 + j - 1]
    BY <2>2, <2>3, <2>4, SubSeqProperties
  <2>7. QED BY <1>9, <2>5, <2>6
<1>11. \A j \in 1..n : walk[j] \in OnLine(L, e) /\ walk[j] \in L.in_line /\ LineOf(walk[j]) = e
                       /\ walk[j] \in Syncer
  <2>1. \A j \in 1..n : walk[j] \in OnLine(L, e)
    BY <1>2, <1>3, <1>4
  <2>2. QED BY <2>1, GoodIs DEF OnLine
<1>12. \A j \in 1..m : j \in 1..n /\ j < k /\ j \notin found
  BY <1>3, <1>8, <1>9
<1>13. \A i, j \in 1..n : walk[i] = walk[j] => i = j
  <2>1. SUFFICES ASSUME NEW i \in 1..n, NEW j \in 1..n, walk[i] = walk[j] PROVE i = j
    BY Zenon
  <2>2. pos[walk[i]] \in Nat
    BY <1>1, <1>11 DEF Sorted
  <2>3. ~(i < j) /\ ~(j < i)
    BY <1>6, <2>1, <2>2
  <2>4. QED BY <1>3, <2>3
<1>14. m = Len(ws) /\ \A j \in 1..m : ws[j] \in S => ws[j] \in L.in_line
  BY <1>10, <1>11, <1>12
<1>15. \A i, j \in 1..m : ws[i] = ws[j] => i = j
  BY <1>10, <1>12, <1>13
<1>16. PICK M : M = OutOfLines(L, ws, S)
  OBVIOUS
<1>17. Sorted(M, pos, B)
  BY <1>1, <1>9, <1>14, <1>15, <1>16, OutOfLinesSorted
<1>18. Alone(M)
  BY <1>1, <1>9, <1>14, <1>15, <1>16, OutOfLinesSorted
<1>19. M.in_line = L.in_line \ UpToIn(ws, S, m)
  <2>1. m \in Nat /\ m = Len(ws) /\ \A j \in 1..m : ws[j] \in S => ws[j] \in L.in_line
    BY <1>9, <1>14
  <2>2. OutOfLines(L, ws, S).in_line = L.in_line \ UpToIn(ws, S, m)
    BY <1>1, <1>15, <2>1, OutOfLinesSorted
  <2>3. QED BY <1>16, <2>2
<1>20. PICK t : t = Try(L, e, c)
  OBVIOUS
<1>21. t = [links |-> M, taker |-> IF found = {} THEN Null ELSE walk[k]]
  BY <1>2, <1>7, <1>16, <1>20 DEF Try
<1>22. t.links = M /\ t.taker = IF found = {} THEN Null ELSE walk[k]
  BY <1>21
<1>23. Good(t.links)
  BY <1>17, <1>18, <1>22 DEF Good
<1>24. t.links.in_line \in SUBSET L.in_line
  BY <1>19, <1>22
<1>25. ASSUME NEW w \in L.in_line \ t.links.in_line
       PROVE  LineOf(w) = e /\ CallOf(w) # c /\ ~CanTake(w)
  <2>1. w \in UpToIn(ws, S, m)
    BY <1>19, <1>22, <1>25
  <2>2. PICK j \in 1..m : ws[j] = w /\ w \in S
    BY <2>1 DEF UpToIn
  <2>3. j \in 1..n /\ walk[j] = w /\ j \notin found
    BY <1>10, <1>12, <2>2
  <2>4. CallOf(w) # c
    BY <1>7, <2>2
  <2>5. QED BY <1>7, <1>11, <2>3, <2>4
<1>26. ASSUME t.taker = Null, NEW w \in t.links.in_line, LineOf(w) = e
       PROVE  CallOf(w) = c
  <2>1. found = {}
    <3>1. SUFFICES ASSUME found # {} PROVE FALSE
      OBVIOUS
    <3>2. k \in 1..n
      BY <1>7, <1>8, <3>1
    <3>3. walk[k] = Null
      BY <1>22, <1>26, <3>1
    <3>4. QED BY <1>11, <3>2, <3>3, SyncerFinite
  <2>2. m = n
    BY <1>3, <1>8, <1>9, <2>1
  <2>3. w \in L.in_line /\ w \in OnLine(L, e)
    BY <1>24, <1>26 DEF OnLine
  <2>4. PICK j \in 1..n : walk[j] = w
    BY <1>5, <2>3
  <2>5. w \notin UpToIn(ws, S, m)
    BY <1>19, <1>22, <1>26
  <2>6. w \notin S
    BY <1>10, <2>2, <2>4, <2>5 DEF UpToIn
  <2>7. QED BY <1>7, <1>11, <2>4, <2>6
<1>27. ASSUME t.taker # Null
       PROVE  /\ t.taker \in t.links.in_line /\ LineOf(t.taker) = e /\ CallOf(t.taker) # c
              /\ CanTake(t.taker)
  <2>1. found # {} /\ t.taker = walk[k] /\ k \in found /\ k \in 1..n
    BY <1>7, <1>8, <1>22, <1>27
  <2>2. CallOf(walk[k]) # c /\ CanTake(walk[k])
    BY <1>7, <2>1
  <2>3. walk[k] \in L.in_line /\ LineOf(walk[k]) = e
    BY <1>11, <2>1
  <2>4. walk[k] \notin UpToIn(ws, S, m)
    <3>1. SUFFICES ASSUME NEW j \in 1..m, ws[j] = walk[k] PROVE FALSE
      BY DEF UpToIn
    <3>2. j \in 1..n /\ walk[j] = walk[k] /\ j < k
      BY <1>10, <1>12, <3>1
    <3>3. j = k
      BY <1>13, <2>1, <3>2
    <3>4. QED BY <1>3, <1>8, <3>2, <3>3
  <2>5. QED BY <1>19, <1>22, <2>1, <2>2, <2>3, <2>4
<1>28. QED BY <1>20, <1>23, <1>24, <1>25, <1>26, <1>27 DEF Tried

\* The remainder of a number below n and of the next but n.
LEMMA ModIs ==
  ASSUME NEW n \in Nat, n > 0, NEW x \in Nat, x < n
  PROVE  x % n = x /\ (x + n) % n = x
OBVIOUS

\* A remainder is below n.
LEMMA ModRange ==
  ASSUME NEW n \in Nat, n > 0, NEW x \in Nat
  PROVE  x % n \in 0..(n - 1)
OBVIOUS

\* A poll goes over all events of the sync.
LEMMA RotatedIs ==
  ASSUME program \in Programs, NEW c \in Call, Made(c), NEW s \in Nat, s < Len(SyncOf(c).evts)
  PROVE  /\ Len(Rotated(c, s)) \in Nat
         /\ \A j \in 1..Len(Rotated(c, s)) : Rotated(c, s)[j] \in OfCall(c)
         /\ \A w \in OfCall(c) : \E j \in 1..Len(Rotated(c, s)) : Rotated(c, s)[j] = w
         /\ \A i, j \in 1..Len(Rotated(c, s)) : Rotated(c, s)[i] = Rotated(c, s)[j] => i = j
<1>1. PICK n \in Nat : n = Len(SyncOf(c).evts) /\ n \in 1..MaxEvts /\ n > 0
  BY SyncIs, ConstantsAssumption
<1>2. PICK o : o = Rotated(c, s)
  OBVIOUS
<1>3. o = [j \in 1..n |-> <<c[1], c[2], ((s + j - 1) % n) + 1>>]
  BY <1>1, <1>2 DEF Rotated
<1>4. Len(o) = n
  BY <1>3
<1>5. c[1] \in Thread /\ c[2] \in 1..MaxCalls /\ c = <<c[1], c[2]>>
  BY DEF Call
<1>6. ASSUME NEW j \in 1..n
      PROVE  o[j] \in OfCall(c)
  <2>1. PICK x : x = (s + j - 1) % n
    OBVIOUS
  <2>2. s + j - 1 \in Nat
    OBVIOUS
  <2>3. x \in 0..(n - 1)
    BY <1>1, <2>1, <2>2, ModRange
  <2>4. x + 1 \in 1..n /\ x + 1 \in 1..MaxEvts
    BY <1>1, <2>3, ConstantsAssumption
  <2>5. o[j] = <<c[1], c[2], x + 1>>
    BY <1>3, <2>1
  <2>6. o[j] \in Syncer
    BY <1>5, <2>4, <2>5 DEF Syncer
  <2>7. CallOf(o[j]) = c /\ o[j][3] = x + 1
    BY <1>5, <2>5 DEF CallOf
  <2>8. Real(o[j])
    BY <1>1, <2>4, <2>7 DEF Real
  <2>9. QED BY <2>6, <2>7, <2>8 DEF OfCall
<1>7. ASSUME NEW w \in OfCall(c)
      PROVE  \E j \in 1..n : o[j] = w
  <2>1. w \in Syncer /\ Real(w) /\ CallOf(w) = c
    BY DEF OfCall
  <2>2. w = <<c[1], c[2], w[3]>> /\ w[3] \in 1..n
    BY <1>1, <2>1, SyncerIs, EvtIs
  <2>3. PICK x \in Nat : x + 1 = w[3] /\ x < n
    <3>1. w[3] - 1 \in Nat /\ w[3] - 1 + 1 = w[3] /\ w[3] - 1 < n
      BY <2>2
    <3>2. QED BY <3>1
  <2>4. x % n = x /\ (x + n) % n = x
    BY <1>1, <2>3, ModIs
  <2>5. CASE x >= s
    <3>1. PICK j : j = x - s + 1
      OBVIOUS
    <3>2. j \in 1..n /\ s + j - 1 = x
      BY <1>1, <2>3, <2>5, <3>1
    <3>3. o[j] = <<c[1], c[2], x + 1>>
      BY <1>3, <2>4, <3>2
    <3>4. QED BY <2>2, <2>3, <3>2, <3>3
  <2>6. CASE x < s
    <3>1. PICK j : j = x - s + 1 + n
      OBVIOUS
    <3>2. j \in 1..n /\ s + j - 1 = x + n
      <4>1. s < n
        BY <1>1
      <4>2. QED BY <2>3, <2>6, <3>1, <4>1
    <3>3. o[j] = <<c[1], c[2], x + 1>>
      BY <1>3, <2>4, <3>2
    <3>4. QED BY <2>2, <2>3, <3>2, <3>3
  <2>7. QED BY <2>3, <2>5, <2>6
<1>8. \A j \in 1..n :
         (s + j - 1) % n = IF s + j - 1 < n THEN s + j - 1 ELSE s + j - 1 - n
  <2>1. SUFFICES ASSUME NEW j \in 1..n
                 PROVE  (s + j - 1) % n = IF s + j - 1 < n THEN s + j - 1 ELSE s + j - 1 - n
    OBVIOUS
  <2>2. PICK y \in Nat : y = s + j - 1
    OBVIOUS
  <2>3. CASE y < n
    BY <1>1, <2>2, <2>3, ModIs
  <2>4. CASE y >= n
    <3>1. PICK x \in Nat : x = y - n
      BY <2>4
    <3>2. s < n
      BY <1>1
    <3>3. x < n /\ y = x + n
      BY <2>2, <3>1, <3>2
    <3>4. (x + n) % n = x
      BY <1>1, <3>3, ModIs
    <3>5. QED BY <2>2, <2>4, <3>1, <3>3, <3>4
  <2>5. QED BY <2>3, <2>4
<1>9. ASSUME NEW i \in 1..n, NEW j \in 1..n, o[i] = o[j]
      PROVE  i = j
  <2>1. ((s + i - 1) % n) + 1 = o[i][3] /\ ((s + j - 1) % n) + 1 = o[j][3]
    BY <1>3
  <2>2. ((s + i - 1) % n) + 1 = ((s + j - 1) % n) + 1
    BY <1>9, <2>1
  <2>3. PICK a, b : a = (s + i - 1) % n /\ b = (s + j - 1) % n
    OBVIOUS
  <2>4. /\ a = IF s + i - 1 < n THEN s + i - 1 ELSE s + i - 1 - n
        /\ b = IF s + j - 1 < n THEN s + j - 1 ELSE s + j - 1 - n
    BY <1>8, <2>3
  <2>5. a + 1 = b + 1
    BY <2>2, <2>3
  <2>6. s < n
    BY <1>1
  <2>7. QED BY <2>4, <2>5, <2>6
<1>10. QED BY <1>2, <1>4, <1>6, <1>7, <1>9

\* A signal is pending only if the program sends the thread one.
LEMMA PendingIs ==
  ASSUME IInv, NEW t \in Thread, pending_break(t)
  PROVE  program[t].signals # {}
<1>1. WordInv(t)
  BY DEF IInv, ThreadInv
<1>2. QED BY <1>1 DEF WordInv, pending_break, BreakDue

\* A thread that is polled, has not been chosen for and gets no signals stands in
\* the lines of its channels.
LEMMA KeptIs ==
  ASSUME IInv, NEW w \in Syncer, Real(w), ~OnSema(w), CallOf(w) = Current(w[1]), pc[w[1]] = "poll",
         result[CallOf(w)] = 0, program[w[1]].signals = {}
  PROVE  w \in links.in_line
<1>1. PICK t \in Thread : t = w[1]
  BY SyncerIs
<1>2. ~pending_break(t)
  BY <1>1, PendingIs
<1>3. WordInv(t) /\ StageInv(t) /\ KeptInv(w)
  BY DEF IInv, ThreadInv, SyncerInv
<1>4. running[t] # {} /\ "KILLED" \notin running[t]
  BY <1>1, <1>3 DEF WordInv
<1>5. outcome[CallOf(w)] = "going"
  BY <1>1, <1>3, <1>4 DEF StageInv
<1>6. InPoll(t)
  BY <1>1 DEF InPoll
<1>7. QED BY <1>1, <1>2, <1>3, <1>5, <1>6 DEF KeptInv

\* Lines from which only those that cannot be taken have got out, and into which
\* only those of c have got.
Within(L, c) ==
  /\ Good(L) /\ L.in_line \in SUBSET (links.in_line \cup OfCall(c))
  /\ \A w \in links.in_line \ L.in_line : ~CanTake(w)

\* The thread of c is in no line.
Out(c) == \A x \in links.in_line : x[1] # c[1]

\* A syncer of another sync, if nothing was chosen for it, can be taken out with
\* all others of its sync.
LEMMA TakeableIs ==
  ASSUME IInv, NEW c, Out(c), NEW L, Within(L, c), NEW w \in L.in_line, CallOf(w) # c,
         result[CallOf(w)] = 0
  PROVE  /\ Takeable(L, CallOf(w)) /\ w \in links.in_line /\ w[1] # c[1]
         /\ OneSync(L, CallOf(w))
<1>1. w \in links.in_line /\ w \in Syncer /\ Real(w) /\ w[1] # c[1]
  BY GoodIs DEF IInv, Within, OfCall, Out
<1>2. PICK d : d = CallOf(w)
  OBVIOUS
<1>3. d \in Call /\ d[1] = w[1] /\ d[2] = w[2] /\ w[1] \in Thread /\ Made(d)
  BY <1>1, <1>2, SyncerIs DEF Real
<1>4. \A x \in links.in_line : x \in Syncer /\ Real(x) /\ CallOf(x) = Current(x[1])
  BY GoodIs DEF IInv, SyncerInv, PlaceInv
<1>5. d = Current(d[1]) /\ call[d[1]] = d[2]
  <2>1. d = Current(d[1])
    BY <1>1, <1>2, <1>3, <1>4
  <2>2. QED BY <2>1 DEF Current
<1>6. OneSync(L, d)
  <2>1. SUFFICES ASSUME NEW x \in L.in_line, x[1] = d[1] PROVE CallOf(x) = d
    BY DEF OneSync
  <2>2. x \in Syncer /\ (x \in links.in_line \/ CallOf(x) = c)
    BY GoodIs DEF Within, OfCall
  <2>3. x \in links.in_line
    BY <1>1, <1>3, <2>1, <2>2, SyncerIs
  <2>4. CallOf(x) = Current(d[1])
    BY <1>4, <2>1, <2>3
  <2>5. QED BY <1>5, <2>4
<1>7. ASSUME Polling(d)
      PROVE  /\ Deferred(d)
             /\ \/ program[d[1]].signals # {}
                \/ \A x \in OfCall(d) : OnSema(x) \/ x \in L.in_line
  <2>1. pc[d[1]] = "poll"
    BY <1>7 DEF Polling
  <2>2. Deferred(d)
    <3>1. StageInv(d[1])
      BY <1>3 DEF IInv, ThreadInv
    <3>2. QED BY <1>5, <2>1, <3>1 DEF StageInv
  <2>3. ASSUME program[d[1]].signals = {}, NEW x \in OfCall(d), ~OnSema(x)
        PROVE  x \in L.in_line
    <3>1. x \in Syncer /\ Real(x) /\ CallOf(x) = d /\ x[1] = d[1]
      BY SyncerIs DEF OfCall
    <3>2. CallOf(x) = Current(x[1]) /\ result[CallOf(x)] = 0
      BY <1>2, <1>5, <3>1
    <3>3. x \in links.in_line
      BY <2>1, <2>3, <3>1, <3>2, KeptIs
    <3>4. CanTake(x)
      <4>1. ~pending_break(x[1])
        BY <1>3, <2>3, <3>1, PendingIs
      <4>2. QED BY <1>2, <3>1, <4>1 DEF CanTake
    <3>5. QED BY <3>3, <3>4 DEF Within
  <2>4. QED BY <2>2, <2>3
<1>8. QED BY <1>1, <1>2, <1>6, <1>7 DEF Takeable

IsPoll(a) == a = [links |-> a.links, ready |-> a.ready, taker |-> a.taker, seen |-> a.seen]

\* What is known when a poll of c has found that nothing of W is ready.
NoneReady(a, c, joins, W) ==
  /\ IsPoll(a) /\ a.ready = Null /\ a.taker = Null /\ a.seen = W
  /\ Within(a.links, c)
  /\ a.links.in_line \in SUBSET (links.in_line \cup (IF joins THEN {w \in W : ~OnSema(w)} ELSE {}))
  /\ \A w \in W : OnSema(w) => ~Posted(w)
  /\ \A w \in W : ~OnSema(w) =>
       /\ joins => w \in a.links.in_line
       /\ \A x \in a.links.in_line : LineOf(x) = Opposite(EvtOf(w)) => CallOf(x) = c

\* And when it has found that something is.
OneReady(a, c) ==
  /\ a.ready \in OfCall(c) /\ a.ready \in a.seen /\ a.seen \in SUBSET OfCall(c)
  /\ Good(a.links) /\ a.links.in_line \in SUBSET (links.in_line \cup OfCall(c))
  /\ a.taker = Null => Posted(a.ready) /\ Within(a.links, c)
  /\ a.taker # Null =>
       /\ ~OnSema(a.ready) /\ a.taker \in links.in_line /\ CallOf(a.taker) # c
       /\ CanTake(a.taker) /\ LineOf(a.taker) = Opposite(EvtOf(a.ready))
       /\ \E L : /\ Within(L, c) /\ a.taker \in L.in_line
                 /\ a.links.in_line =
                      L.in_line \ (PollSyncers(CallOf(a.taker), a.taker[3]) \cup {a.taker})

\* The other side of a channel.
LEMMA OppositeIs ==
  ASSUME NEW e \in Line, e.kind \in {"get", "put"}
  PROVE  Opposite(e) \in Line /\ Opposite(e).kind \in {"get", "put"} /\ Opposite(e) # e
BY DEF Line, Opposite

\* One event.
LEMMA PolledIs ==
  ASSUME IInv, NEW c \in Call, Made(c), Out(c), NEW joins \in BOOLEAN, NEW W \in SUBSET OfCall(c),
         NEW a, NoneReady(a, c, joins, W), NEW w \in OfCall(c), w \notin W,
         NEW b, b = Polled(a, w, joins)
  PROVE  /\ b.ready = Null => NoneReady(b, c, joins, W \cup {w})
         /\ b.ready # Null => OneReady(b, c)
         /\ b.ready # Null /\ ~joins => b.links.in_line \in SUBSET links.in_line
<1>1. program \in Programs /\ Apart(program)
  BY DEF IInv, Types
<1>2. w \in Syncer /\ Real(w) /\ CallOf(w) = c /\ w # Null
  BY SyncerFinite DEF OfCall
<1>3. /\ IsPoll(a) /\ a.ready = Null /\ a.taker = Null /\ a.seen = W /\ Within(a.links, c)
      /\ a.links.in_line \in SUBSET (links.in_line \cup (IF joins THEN {x \in W : ~OnSema(x)} ELSE {}))
      /\ \A x \in W : OnSema(x) => ~Posted(x)
      /\ \A x \in W : ~OnSema(x) =>
           /\ joins => x \in a.links.in_line
           /\ \A y \in a.links.in_line : LineOf(y) = Opposite(EvtOf(x)) => CallOf(y) = c
  BY DEF NoneReady
<1>4. \A x \in OfCall(c) : x \notin links.in_line
  BY SyncerIs DEF OfCall, Out
<1>5. CASE OnSema(w)
  <2>1. b = [a EXCEPT !.ready = IF Posted(w) THEN w ELSE Null, !.seen = @ \cup {w}]
    BY <1>5 DEF Polled
  <2>2. /\ b.links = a.links /\ b.taker = Null /\ b.seen = W \cup {w} /\ IsPoll(b)
        /\ b.ready = IF Posted(w) THEN w ELSE Null
    BY <1>3, <2>1 DEF IsPoll
  <2>3. CASE Posted(w)
    <3>1. b.ready = w
      BY <2>2, <2>3
    <3>2. OneReady(b, c)
      BY <1>3, <2>2, <2>3, <3>1 DEF OneReady, Within
    <3>4. ~joins => b.links.in_line \in SUBSET links.in_line
      BY <1>3, <2>2
    <3>3. QED BY <1>2, <3>1, <3>2, <3>4
  <2>4. CASE ~Posted(w)
    <3>1. {x \in W \cup {w} : ~OnSema(x)} = {x \in W : ~OnSema(x)}
      BY <1>5
    <3>2. NoneReady(b, c, joins, W \cup {w})
      BY <1>3, <1>5, <2>2, <2>4, <3>1 DEF NoneReady
    <3>3. QED BY <2>2, <2>4, <3>2
  <2>5. QED BY <2>3, <2>4
<1>6. CASE ~OnSema(w)
  <2>1. PICK e, t : e = Opposite(EvtOf(w)) /\ t = Try(a.links, e, c)
    OBVIOUS
  <2>2. e \in Line
    <3>1. EvtOf(w) \in Line /\ EvtOf(w).kind \in {"get", "put"}
      BY <1>1, <1>2, <1>6, EvtIs
    <3>2. QED BY <2>1, <3>1, OppositeIs
  <2>3. Good(a.links)
    BY <1>3 DEF Within
  <2>14. Tried(a.links, e, c, t)
    BY <1>1, <2>1, <2>2, <2>3, TryIs
  <2>4. Good(t.links)
    BY <2>14 DEF Tried
  <2>5. t.links.in_line \in SUBSET a.links.in_line
    BY <2>14 DEF Tried
  <2>6. \A x \in a.links.in_line \ t.links.in_line : ~CanTake(x)
    BY <2>14 DEF Tried
  <2>7. t.taker = Null => \A x \in t.links.in_line : LineOf(x) = e => CallOf(x) = c
    BY <2>14 DEF Tried
  <2>8. t.taker # Null =>
              /\ t.taker \in t.links.in_line
              /\ LineOf(t.taker) = e /\ CallOf(t.taker) # c
              /\ CanTake(t.taker)
    BY <2>14 DEF Tried
  <2>9. Within(t.links, c)
    BY <1>3, <2>4, <2>5, <2>6 DEF Within
  <2>10. b = IF t.taker = Null
               THEN [a EXCEPT !.links = IF joins THEN get_into_line(t.links, w) ELSE t.links,
                              !.seen = @ \cup {w}]
               ELSE [links |-> TakenOut(t.links, t.taker), ready |-> w,
                     taker |-> t.taker, seen |-> a.seen \cup {w}]
    BY <1>2, <1>6, <2>1 DEF Polled
  <2>11. CASE t.taker = Null
    <3>1. /\ b.links = IF joins THEN get_into_line(t.links, w) ELSE t.links
          /\ b.seen = W \cup {w} /\ b.ready = Null /\ b.taker = Null /\ IsPoll(b)
      BY <1>3, <2>10, <2>11 DEF IsPoll
    <3>2. ~joins => b.links = t.links
      BY <3>1
    <3>3. ASSUME joins
          PROVE  Good(b.links) /\ b.links.in_line = t.links.in_line \cup {w}
      <4>1. w \notin t.links.in_line
        BY <1>3, <1>4, <2>5
      <4>2. OneSync(t.links, c)
        <5>1. \A x \in t.links.in_line : x \in links.in_line \/ CallOf(x) = c
          BY <2>9 DEF Within, OfCall
        <5>2. QED BY <5>1 DEF OneSync, Out
      <4>3. Good(get_into_line(t.links, w))
        BY <1>1, <1>2, <2>4, <4>1, <4>2, IntoGood
      <4>4. get_into_line(t.links, w).in_line = t.links.in_line \cup {w}
        BY <1>1, <1>2, <2>4, <4>1, <4>2, IntoGood
      <4>5. QED BY <3>1, <3>3, <4>3, <4>4
    <3>4. /\ Good(b.links) /\ b.links.in_line = t.links.in_line \cup (IF joins THEN {w} ELSE {})
      BY <2>4, <3>2, <3>3
    <3>5. Within(b.links, c)
      BY <2>9, <3>4 DEF Within
    <3>6. b.links.in_line \in SUBSET (links.in_line \cup
            (IF joins THEN {x \in W \cup {w} : ~OnSema(x)} ELSE {}))
      <4>1. CASE joins
        BY <1>3, <1>6, <2>5, <3>4, <4>1
      <4>2. CASE ~joins
        BY <1>3, <2>5, <3>4, <4>2
      <4>3. QED BY <4>1, <4>2
    <3>7. ASSUME NEW x \in W \cup {w}, ~OnSema(x)
          PROVE  /\ joins => x \in b.links.in_line
                 /\ \A y \in b.links.in_line : LineOf(y) = Opposite(EvtOf(x)) => CallOf(y) = c
      <4>1. joins => x \in b.links.in_line
        <5>1. CASE x = w
          BY <3>4, <5>1
        <5>2. CASE x # w
          <6>1. SUFFICES ASSUME joins PROVE x \in t.links.in_line
            BY <3>4
          <6>2. x \in W /\ x \in a.links.in_line
            BY <1>3, <3>7, <5>2, <6>1
          <6>3. CallOf(x) = c
            BY <6>2 DEF OfCall
          <6>4. \A y \in a.links.in_line \ t.links.in_line : CallOf(y) # c
            BY <2>14 DEF Tried
          <6>5. QED BY <6>2, <6>3, <6>4
        <5>3. QED BY <5>1, <5>2
      <4>2. ASSUME NEW y \in b.links.in_line, LineOf(y) = Opposite(EvtOf(x))
            PROVE  CallOf(y) = c
        <5>1. y = w \/ y \in t.links.in_line
          BY <3>4
        <5>2. CASE y = w
          BY <1>2, <5>2
        <5>3. CASE y \in t.links.in_line /\ x = w
          BY <2>1, <2>7, <2>11, <4>2, <5>3
        <5>4. CASE y \in t.links.in_line /\ x # w
          BY <1>3, <2>5, <3>7, <4>2, <5>4
        <5>5. QED BY <5>1, <5>2, <5>3, <5>4
      <4>3. QED BY <4>1, <4>2
    <3>8. \A x \in W \cup {w} : OnSema(x) => ~Posted(x)
      BY <1>3, <1>6
    <3>9. NoneReady(b, c, joins, W \cup {w})
      BY <3>1, <3>5, <3>6, <3>7, <3>8 DEF NoneReady
    <3>10. QED BY <3>1, <3>9
  <2>12. CASE t.taker # Null
    <3>1. PICK y : y = t.taker
      OBVIOUS
    <3>2. /\ b.links = TakenOut(t.links, y) /\ b.ready = w /\ b.taker = y /\ b.seen = W \cup {w}
      BY <1>3, <2>10, <2>12, <3>1
    <3>3. y \in t.links.in_line /\ LineOf(y) = e /\ CallOf(y) # c /\ CanTake(y)
      BY <2>8, <2>12, <3>1
    <3>4. result[CallOf(y)] = 0
      BY <3>3 DEF CanTake
    <3>5. Takeable(t.links, CallOf(y)) /\ y \in links.in_line
      BY <2>9, <3>3, <3>4, TakeableIs
    <3>6. Good(TakenOut(t.links, y))
      BY <1>1, <2>4, <3>3, <3>5, TakenOutGood
    <3>7. TakenOut(t.links, y).in_line = t.links.in_line \ (PollSyncers(CallOf(y), y[3]) \cup {y})
      BY <1>1, <2>4, <3>3, <3>5, TakenOutGood
    <3>8. t.links.in_line \in SUBSET (links.in_line \cup OfCall(c))
      BY <2>9 DEF Within
    <3>9. y # Null
      BY <2>12, <3>1
    <3>10. OneReady(b, c)
      BY <1>6, <2>1, <2>9, <3>2, <3>3, <3>5, <3>6, <3>7, <3>8, <3>9 DEF OneReady
    <3>12. ~joins => b.links.in_line \in SUBSET links.in_line
      BY <1>3, <2>5, <3>2, <3>7
    <3>11. QED BY <1>2, <3>2, <3>10, <3>12
  <2>13. QED BY <2>11, <2>12
<1>7. QED BY <1>5, <1>6

\* What is known of a poll that has looked at W.
PollStage(a, c, joins, W) ==
  /\ a.ready = Null => NoneReady(a, c, joins, W)
  /\ a.ready # Null => OneReady(a, c)
  /\ a.ready # Null /\ ~joins => a.links.in_line \in SUBSET links.in_line

\* A poll of all events.
LEMMA PollIs ==
  ASSUME IInv, NEW c \in Call, Made(c), Out(c), NEW joins \in BOOLEAN,
         NEW s \in Nat, s < Len(SyncOf(c).evts), NEW p, p = Poll(c, s, joins)
  PROVE  PollStage(p, c, joins, OfCall(c))
<1>1. program \in Programs
  BY DEF IInv, Types
<1>2. PICK o, n : o = Rotated(c, s) /\ n = Len(o)
  OBVIOUS
<1>3. /\ n \in Nat
      /\ \A j \in 1..n : o[j] \in OfCall(c)
      /\ \A w \in OfCall(c) : \E j \in 1..n : o[j] = w
      /\ \A i, j \in 1..n : o[i] = o[j] => i = j
  BY <1>1, <1>2, RotatedIs
<1>12. PICK L : L = links
  OBVIOUS
<1>13. Len(o) \in Nat /\ o = Rotated(c, s)
  BY <1>2, <1>3
<1>14. \E g : /\ g[0] = [links |-> L, ready |-> Null, taker |-> Null, seen |-> {}]
              /\ Poll(c, s, joins) = g[Len(o)]
              /\ \A k \in 1..Len(o) : g[k] = IF g[k - 1].ready # Null THEN g[k - 1]
                                             ELSE Polled(g[k - 1], o[k], joins)
  BY <1>12, <1>13, PollsIs
<1>4. PICK g : /\ g[0] = [links |-> links, ready |-> Null, taker |-> Null, seen |-> {}]
               /\ Poll(c, s, joins) = g[n]
               /\ \A k \in 1..n : g[k] = IF g[k - 1].ready # Null THEN g[k - 1]
                                         ELSE Polled(g[k - 1], o[k], joins)
  BY <1>2, <1>12, <1>14
<1>5. PICK W : W = [k \in 0..n |-> {w \in OfCall(c) : \E j \in 1..k : o[j] = w}]
  OBVIOUS
<1>6. PICK P : P = {k \in 0..n : PollStage(g[k], c, joins, W[k])}
  OBVIOUS
<1>7. 0 \in P
  <2>1. 0 \in 0..n /\ W[0] = {}
    BY <1>3, <1>5
  <2>2. g[0].ready = Null /\ g[0].links = links /\ g[0].taker = Null /\ g[0].seen = {} /\ IsPoll(g[0])
    BY <1>4 DEF IsPoll
  <2>3. Within(links, c)
    BY DEF Within, IInv
  <2>4. NoneReady(g[0], c, joins, W[0])
    BY <2>1, <2>2, <2>3 DEF NoneReady
  <2>6. PollStage(g[0], c, joins, W[0])
    BY <2>2, <2>4 DEF PollStage
  <2>5. QED BY <1>6, <2>1, <2>6
<1>8. ASSUME NEW k \in 0..(n - 1), k \in P
      PROVE  k + 1 \in P
  <2>1. k + 1 \in 1..n /\ (k + 1) - 1 = k /\ k + 1 \in 0..n /\ k \in 0..n
    BY <1>3
  <2>2. g[k + 1] = IF g[k].ready # Null THEN g[k] ELSE Polled(g[k], o[k + 1], joins)
    BY <1>4, <2>1
  <2>3. PollStage(g[k], c, joins, W[k])
    BY <1>6, <1>8
  <2>4. CASE g[k].ready # Null
    <3>1. g[k + 1] = g[k]
      BY <2>2, <2>4
    <3>2. PollStage(g[k + 1], c, joins, W[k + 1])
      BY <2>3, <2>4, <3>1 DEF PollStage
    <3>3. QED BY <1>6, <2>1, <3>2
  <2>5. CASE g[k].ready = Null
    <3>1. PICK w : w = o[k + 1] /\ w \in OfCall(c)
      BY <1>3, <2>1
    <3>2. W[k] = {x \in OfCall(c) : \E j \in 1..k : o[j] = x} /\ W[k] \in SUBSET OfCall(c)
      BY <1>5, <2>1
    <3>3. W[k + 1] = {x \in OfCall(c) : \E j \in 1..(k + 1) : o[j] = x}
      BY <1>5, <2>1
    <3>4. /\ \A j \in 1..(k + 1) : j \in 1..k \/ j = k + 1
          /\ \A j \in 1..k : j \in 1..n /\ j # k + 1 /\ j \in 1..(k + 1)
          /\ k + 1 \in 1..(k + 1)
      BY <1>3
    <3>5. W[k + 1] = W[k] \cup {w}
      BY <3>1, <3>2, <3>3, <3>4
    <3>6. w \notin W[k]
      BY <1>3, <2>1, <3>1, <3>2, <3>4
    <3>7. PICK V : V = W[k] /\ V \in SUBSET OfCall(c)
      BY <3>2
    <3>8. PICK a, b : a = g[k] /\ b = g[k + 1]
      OBVIOUS
    <3>9. b = Polled(a, w, joins) /\ NoneReady(a, c, joins, V) /\ w \notin V
      BY <2>2, <2>3, <2>5, <3>1, <3>6, <3>7, <3>8 DEF PollStage
    <3>10. PollStage(b, c, joins, V \cup {w})
      BY <3>1, <3>7, <3>9, PolledIs DEF PollStage
    <3>11. QED BY <1>6, <2>1, <3>5, <3>7, <3>8, <3>10
  <2>6. QED BY <2>4, <2>5
<1>9. \A k \in 0..n : k \in P
  BY <1>3, <1>7, <1>8, UpTo
<1>10. n \in P /\ W[n] = OfCall(c)
  BY <1>3, <1>5, <1>9
<1>11. QED BY <1>4, <1>6, <1>10

-----------------------------------------------------------------------------
\* The loop of scheme_post_sema, when it is done with the syncers W.
Serving(a, W) ==
  /\ a = [links |-> a.links, takers |-> a.takers, left |-> a.left]
  /\ Good(a.links) /\ a.links.in_line = links.in_line \ W
  /\ a.takers \in SUBSET W
  /\ \A w \in a.takers : CanTake(w)
  /\ \A w, x \in a.takers : CallOf(w) = CallOf(x) => w = x
  /\ \A w \in W : CanTake(w) => \E x \in a.takers : CallOf(x) = CallOf(w)
  /\ a.left \in {0, 1}
  /\ a.left = 1 => \A w \in a.takers : EvtOf(w).kind # "sema"
  /\ a.left = 0 => \E w \in a.takers : /\ EvtOf(w).kind = "sema"
                                       /\ \A x \in a.takers : EvtOf(x).kind = "sema" => x = w

\* One syncer.
LEMMA ServedIs ==
  ASSUME IInv, NEW s \in Sema, NEW W \in SUBSET OnLine(links, [kind |-> "sema", on |-> s]),
         NEW a, Serving(a, W), a.left = 1,
         NEW w \in OnLine(links, [kind |-> "sema", on |-> s]), w \notin W,
         NEW b, b = Served(a, w)
  PROVE  Serving(b, W \cup {w})
<1>1. program \in Programs /\ Apart(program) /\ Good(links)
  BY DEF IInv, Types
<1>2. w \in links.in_line /\ LineOf(w) = [kind |-> "sema", on |-> s] /\ w \in Syncer /\ Real(w)
  BY <1>1, GoodIs DEF OnLine
<1>3. OnSema(w)
  <2>1. SUFFICES ASSUME ~OnSema(w) PROVE FALSE
    OBVIOUS
  <2>2. LineOf(w) = EvtOf(w) /\ EvtOf(w).kind \in {"get", "put"}
    BY <1>1, <1>2, <2>1, EvtIs
  <2>3. LineOf(w).kind = "sema"
    BY <1>2
  <2>4. QED BY <2>2, <2>3
<1>4. PICK d : d = CallOf(w)
  OBVIOUS
<1>5. d \in Call /\ d[1] = w[1] /\ d[2] = w[2] /\ Made(d)
  BY <1>2, <1>4, SyncerIs DEF Real
<1>6. \A x \in links.in_line : x \in Syncer /\ CallOf(x) = Current(x[1])
  BY GoodIs DEF IInv, SyncerInv, PlaceInv
<1>7. pc[w[1]] = "wait"
  BY <1>2, <1>3 DEF IInv, SyncerInv, PlaceInv
<1>8. /\ Good(a.links) /\ a.links.in_line = links.in_line \ W
      /\ a.takers \in SUBSET W
      /\ \A x \in a.takers : CanTake(x)
      /\ \A y, x \in a.takers : CallOf(y) = CallOf(x) => y = x
      /\ \A y \in W : CanTake(y) => \E x \in a.takers : CallOf(x) = CallOf(y)
      /\ \A x \in a.takers : EvtOf(x).kind # "sema"
  BY DEF Serving
<1>9. w \in a.links.in_line
  BY <1>2, <1>8
<1>10. CASE CanTake(w) /\ \A x \in a.takers : CallOf(x) # CallOf(w)
  <2>1. b = [links |-> TakenOut(a.links, w), takers |-> a.takers \cup {w},
             left |-> IF EvtOf(w).kind = "sema" THEN 0 ELSE 1]
    BY <1>10 DEF Served
  <2>2. /\ b.links = TakenOut(a.links, w) /\ b.takers = a.takers \cup {w}
        /\ b.left = IF EvtOf(w).kind = "sema" THEN 0 ELSE 1
        /\ b = [links |-> b.links, takers |-> b.takers, left |-> b.left]
    BY <2>1
  <2>3. ~Polling(d)
    BY <1>5, <1>7 DEF Polling
  <2>4. OneSync(a.links, d)
    <3>1. d = Current(d[1])
      BY <1>2, <1>4, <1>5, <1>6
    <3>2. QED BY <1>6, <1>8, <3>1 DEF OneSync
  <2>5. Takeable(a.links, CallOf(w))
    BY <1>4, <2>3, <2>4 DEF Takeable
  <2>6. Good(b.links)
    BY <1>1, <1>8, <1>9, <2>2, <2>5, TakenOutGood
  <2>7. TakenOut(a.links, w).in_line = a.links.in_line \ (PollSyncers(CallOf(w), w[3]) \cup {w})
    BY <1>1, <1>8, <1>9, <2>5, TakenOutGood
  <2>8. PollSyncers(d, w[3]) = {}
    BY <1>1, <1>5, <2>3, PollSyncersIs
  <2>9. b.links.in_line = links.in_line \ (W \cup {w})
    BY <1>4, <1>8, <2>2, <2>7, <2>8
  <2>10. /\ b.takers \in SUBSET (W \cup {w}) /\ \A x \in b.takers : CanTake(x)
         /\ \A y, x \in b.takers : CallOf(y) = CallOf(x) => y = x
    BY <1>8, <1>10, <2>2
  <2>11. \A y \in W \cup {w} : CanTake(y) => \E x \in b.takers : CallOf(x) = CallOf(y)
    BY <1>8, <2>2
  <2>12. /\ b.left \in {0, 1}
         /\ b.left = 1 => \A x \in b.takers : EvtOf(x).kind # "sema"
         /\ b.left = 0 => \E y \in b.takers : /\ EvtOf(y).kind = "sema"
                                              /\ \A x \in b.takers : EvtOf(x).kind = "sema" => x = y
    BY <1>8, <2>2
  <2>13. QED BY <2>2, <2>6, <2>9, <2>10, <2>11, <2>12 DEF Serving
<1>11. CASE ~(CanTake(w) /\ \A x \in a.takers : CallOf(x) # CallOf(w))
  <2>1. b = [a EXCEPT !.links = get_outof_line(@, w)]
    BY <1>11 DEF Served
  <2>2. /\ b.links = get_outof_line(a.links, w) /\ b.takers = a.takers /\ b.left = 1
        /\ b = [links |-> b.links, takers |-> b.takers, left |-> b.left]
    BY <2>1 DEF Serving
  <2>3. PICK pos, B : Sorted(a.links, pos, B) /\ Alone(a.links)
    BY <1>8 DEF Good
  <2>4. Sorted(get_outof_line(a.links, w), pos, B)
    BY <1>1, <1>9, <2>3, OutSorted
  <2>5. get_outof_line(a.links, w).in_line = a.links.in_line \ {w}
    BY <1>1, <1>9, <2>3, OutSorted
  <2>6. Alone(get_outof_line(a.links, w))
    BY <1>1, <1>9, <2>3, OutAlone
  <2>7. Good(b.links) /\ b.links.in_line = links.in_line \ (W \cup {w})
    BY <1>8, <2>2, <2>4, <2>5, <2>6 DEF Good
  <2>8. \A y \in W \cup {w} : CanTake(y) => \E x \in b.takers : CallOf(x) = CallOf(y)
    BY <1>8, <1>11, <2>2
  <2>9. b.takers \in SUBSET (W \cup {w})
    BY <1>8, <2>2
  <2>10. QED BY <1>8, <2>2, <2>7, <2>8, <2>9 DEF Serving
<1>12. QED BY <1>10, <1>11

\* All of them.
LEMMA ServeIs ==
  ASSUME IInv, NEW s \in Sema
  PROVE  \E W \in SUBSET OnLine(links, [kind |-> "sema", on |-> s]) :
           /\ Serving(Serve(s), W)
           /\ Serve(s).left = 1 => W = OnLine(links, [kind |-> "sema", on |-> s])
<1>1. program \in Programs /\ Apart(program) /\ Good(links)
  BY DEF IInv, Types
<1>2. PICK e, line, n : e = [kind |-> "sema", on |-> s] /\ line = Walk(links, e) /\ n = Len(line)
  OBVIOUS
<1>3. e \in Line
  BY <1>2 DEF Line
<1>4. PICK pos, B : Sorted(links, pos, B) /\ Alone(links)
  BY <1>1 DEF Good
<1>5. n \in Nat
  BY <1>1, <1>2, <1>3, <1>4, WalkSorted
<1>6. line \in Seq(OnLine(links, e))
  BY <1>1, <1>2, <1>3, <1>4, WalkSorted
<1>7. \A w \in OnLine(links, e) : \E k \in 1..n : line[k] = w
  BY <1>1, <1>2, <1>3, <1>4, WalkSorted
<1>8. \A j, k \in 1..n : j < k => pos[line[j]] < pos[line[k]]
  BY <1>1, <1>2, <1>3, <1>4, WalkSorted
<1>9. PICK g : /\ g[0] = [links |-> links, takers |-> {}, left |-> 1] /\ Serve(s) = g[n]
               /\ \A k \in 1..n : g[k] = Served(g[k - 1], line[k])
  BY <1>2, <1>5, ServesIs
<1>10. PICK D : D = [k \in 0..n |-> {w \in OnLine(links, e) : \E j \in 1..k : line[j] = w}]
  OBVIOUS
<1>11. PICK P : P = {k \in 0..n : \E W \in SUBSET OnLine(links, e) :
                        Serving(g[k], W) /\ (g[k].left = 1 => W = D[k])}
  OBVIOUS
<1>12. 0 \in P
  <2>1. 0 \in 0..n /\ D[0] = {}
    BY <1>5, <1>10
  <2>2. /\ g[0].links = links /\ g[0].takers = {} /\ g[0].left = 1
        /\ g[0] = [links |-> g[0].links, takers |-> g[0].takers, left |-> g[0].left]
    BY <1>9
  <2>3. Serving(g[0], {})
    BY <1>1, <2>2 DEF Serving
  <2>4. QED BY <1>11, <2>1, <2>3
<1>13. ASSUME NEW k \in 0..(n - 1), k \in P
       PROVE  k + 1 \in P
  <2>1. k + 1 \in 1..n /\ (k + 1) - 1 = k /\ k + 1 \in 0..n /\ k \in 0..n
    BY <1>5
  <2>2. PICK a, b, w : a = g[k] /\ b = g[k + 1] /\ w = line[k + 1]
    OBVIOUS
  <2>3. b = Served(a, w)
    BY <1>9, <2>1, <2>2
  <2>4. PICK W \in SUBSET OnLine(links, e) : Serving(a, W) /\ (a.left = 1 => W = D[k])
    BY <1>11, <1>13, <2>2
  <2>5. CASE a.left = 0
    <3>1. b = a
      BY <2>3, <2>5 DEF Served
    <3>2. Serving(g[k + 1], W) /\ g[k + 1].left # 1
      BY <2>2, <2>4, <2>5, <3>1
    <3>3. \E V \in SUBSET OnLine(links, e) :
            Serving(g[k + 1], V) /\ (g[k + 1].left = 1 => V = D[k + 1])
      BY <3>2
    <3>4. QED BY <1>11, <2>1, <3>3
  <2>6. CASE a.left = 1
    <3>1. D[k] = {x \in OnLine(links, e) : \E j \in 1..k : line[j] = x} /\ W = D[k]
      BY <1>10, <2>1, <2>4, <2>6
    <3>2. D[k + 1] = {x \in OnLine(links, e) : \E j \in 1..(k + 1) : line[j] = x}
      BY <1>10, <2>1
    <3>3. /\ \A j \in 1..(k + 1) : j \in 1..k \/ j = k + 1
          /\ \A j \in 1..k : j \in 1..n /\ j < k + 1 /\ j \in 1..(k + 1)
          /\ k + 1 \in 1..(k + 1)
      BY <1>5
    <3>4. w \in OnLine(links, e)
      BY <1>2, <1>5, <1>6, <2>1, <2>2
    <3>5. D[k + 1] = W \cup {w}
      BY <2>2, <3>1, <3>2, <3>3, <3>4
    <3>6. w \notin W
      <4>1. SUFFICES ASSUME NEW j \in 1..k, line[j] = w PROVE FALSE
        BY <3>1
      <4>2. j \in 1..n /\ pos[line[j]] < pos[line[k + 1]]
        BY <1>8, <2>1, <3>3
      <4>3. w \in Syncer
        BY <1>1, <3>4, GoodIs DEF OnLine
      <4>4. pos[w] \in Nat
        BY <1>4, <4>3 DEF Sorted
      <4>5. QED BY <2>2, <4>1, <4>2, <4>4
    <3>7. Serving(b, W \cup {w})
      BY <1>2, <2>3, <2>4, <2>6, <3>4, <3>6, ServedIs
    <3>8. W \cup {w} \in SUBSET OnLine(links, e)
      BY <3>4
    <3>9. QED BY <1>11, <2>1, <2>2, <3>5, <3>7, <3>8
  <2>7. QED BY <2>4, <2>5, <2>6 DEF Serving
<1>14. \A k \in 0..n : k \in P
  BY <1>5, <1>12, <1>13, UpTo
<1>15. n \in P
  BY <1>5, <1>14
<1>16. D[n] = OnLine(links, e)
  BY <1>5, <1>7, <1>10
<1>17. QED BY <1>2, <1>9, <1>11, <1>15, <1>16

\* The program stays, and so does what is said of it.
LEMMA Primes ==
  ASSUME program' = program
  PROVE  /\ \A c : (Made(c)' <=> Made(c)) /\ SyncOf(c)' = SyncOf(c)
         /\ \A c : Deferred(c)' <=> Deferred(c)
         /\ \A w : EvtOf(w)' = EvtOf(w) /\ LineOf(w)' = LineOf(w)
         /\ \A w : OnSema(w)' <=> OnSema(w)
         /\ \A w : Real(w)' <=> Real(w)
         /\ \A w : Lonely(w)' <=> Lonely(w)
         /\ \A c : OfCall(c)' = OfCall(c)
<1>1. \A c : (Made(c)' <=> Made(c)) /\ SyncOf(c)' = SyncOf(c)
  BY DEF Made, SyncOf
<1>2. \A c : Deferred(c)' <=> Deferred(c)
  BY <1>1 DEF Deferred, Defers
<1>3. \A w : EvtOf(w)' = EvtOf(w)
  BY <1>1 DEF EvtOf
<1>4. \A w : LineOf(w)' = LineOf(w)
  BY <1>3 DEF LineOf
<1>5. \A w : OnSema(w)' <=> OnSema(w)
  BY <1>3 DEF OnSema
<1>6. \A w : Real(w)' <=> Real(w)
  BY <1>1 DEF Real
<1>7. \A w : Lonely(w)' <=> Lonely(w)
  BY <1>2, <1>5, <1>6 DEF Lonely
<1>8. \A c : OfCall(c)' = OfCall(c)
  BY <1>6 DEF OfCall
<1>9. QED BY <1>1, <1>2, <1>3, <1>4, <1>5, <1>6, <1>7, <1>8

\* The program never changes, and so the next links are good if they are now.
LEMMA GoodNext ==
  ASSUME program' = program, NEW L, Good(L), links' = L
  PROVE  Good(links)'
<1>1. PICK pos, B : Sorted(L, pos, B) /\ Alone(L)
  BY DEF Good
<1>2. \A e : OnLine(links, e)' = OnLine(L, e)
  BY Primes DEF OnLine
<1>3. Sorted(links, pos, B)'
  BY <1>1, <1>2, Primes DEF Sorted, Above, Below, Apiece, Links
<1>4. Alone(links)'
  BY <1>1, Primes DEF Alone
<1>5. QED BY <1>3, <1>4 DEF Good

-----------------------------------------------------------------------------
\* A thread that a step leaves as it is.

SameThread(u) ==
  /\ call'[u] = call[u] /\ pc'[u] = pc[u] /\ running'[u] = running[u] /\ start'[u] = start[u]
  /\ external_break'[u] = external_break[u] /\ suspend_break'[u] = suspend_break[u]

SameCalls(u) ==
  \A c \in Call : c[1] = u => result'[c] = result[c] /\ outcome'[c] = outcome[c]

SameNacks(u) == \A w \in Syncer : w[1] = u => nack'[w] = nack[w]

\* It gets into no line, and out of one only if it cannot be taken.
SamePlaces(u) ==
  \A w \in Syncer : w[1] = u =>
    /\ w \in links'.in_line => w \in links.in_line
    /\ w \in links.in_line /\ w \notin links'.in_line => ~CanTake(w)

\* All that the invariant says of thread u.
Fine(u) ==
  /\ ThreadInv(u)
  /\ \A c \in Call : c[1] = u => CallInv(c)
  /\ \A w \in Syncer : w[1] = u => SyncerInv(w)

\* A thread that is not running is in a sync that it has.
LEMMA CurrentIs ==
  ASSUME IInv, NEW t \in Thread, pc[t] # "run"
  PROVE  /\ Current(t) \in Call /\ Made(Current(t)) /\ Current(t)[1] = t
         /\ Current(t)[2] = call[t]
<1>1. call[t] # 0 /\ call[t] <= Len(program[t].syncs) /\ call[t] \in 0..MaxCalls
  BY DEF IInv, ThreadInv, StageInv, Types
<1>2. QED BY <1>1, ConstantsAssumption DEF Current, Call, Made

\* And the other way round.
LEMMA AllFine ==
  ASSUME IInv, NEW u \in Thread
  PROVE  Fine(u)
BY DEF IInv, Fine

\* A thread that stays as it is.  Its nacks may be looked at again.
LEMMA StaysFine ==
  ASSUME IInv, program' = program, NEW u \in Thread,
         SameThread(u), SameCalls(u), SameNacks(u), SamePlaces(u)
  PROVE  Fine(u)'
<1>1. WordInv(u)'
  <2>1. WordInv(u)
    BY DEF IInv, ThreadInv
  <2>2. QED BY <2>1 DEF WordInv, SameThread
<1>2. Current(u)' = Current(u)
  BY DEF Current, SameThread
<1>3. pc[u] # "run" => Current(u) \in Call /\ Current(u)[1] = u
  BY CurrentIs
<1>4. pc[u] # "run" => result'[Current(u)] = result[Current(u)] /\ outcome'[Current(u)] = outcome[Current(u)]
  BY <1>3 DEF SameCalls
<1>5. StageInv(u)'
  <2>1. StageInv(u)
    BY DEF IInv, ThreadInv
  <2>2. QED BY <1>2, <1>4, <2>1, Primes DEF StageInv, SameThread
<1>6. BreakInv(u)'
  <2>1. BreakInv(u)
    BY DEF IInv, ThreadInv
  <2>2. QED BY <1>2, <1>4, <2>1, Primes DEF BreakInv, SameThread
<1>7. ASSUME NEW c \in Call, c[1] = u
      PROVE  CallInv(c)'
  <2>1. CallInv(c)
    BY DEF IInv
  <2>2. QED BY <1>2, <1>7, <2>1, Primes DEF CallInv, SameThread, SameCalls
<1>8. ASSUME NEW w \in Syncer, w[1] = u
      PROVE  SyncerInv(w)'
  <2>1. NackInv(w) /\ PlaceInv(w) /\ KeptInv(w)
    BY DEF IInv, SyncerInv
  <2>2. /\ CallOf(w) \in Call /\ CallOf(w)[1] = u
    BY <1>8, SyncerIs
  <2>3. result'[CallOf(w)] = result[CallOf(w)] /\ outcome'[CallOf(w)] = outcome[CallOf(w)]
    BY <2>2 DEF SameCalls
  <2>4. NackInv(w)'
    BY <1>8, <2>1, <2>3, Primes DEF NackInv, SameNacks, SameThread
  <2>5. PlaceInv(w)'
    BY <1>2, <1>8, <2>1, <2>3, Primes DEF PlaceInv, SamePlaces, SameThread
  <2>6. KeptInv(w)'
    <3>1. pending_break(u)' <=> pending_break(u)
      BY <1>2, Primes DEF pending_break, BreakDue, CanBreak, SameThread
    <3>2. (Sleeps(u)' <=> Sleeps(u)) /\ (InPoll(u)' <=> InPoll(u))
      BY DEF Sleeps, InPoll, SameThread
    <3>3. SUFFICES ASSUME /\ Real(w) /\ CallOf(w) = Current(u)
                          /\ outcome[CallOf(w)] = "going" /\ result[CallOf(w)] = 0 /\ ~pending_break(u)
                          /\ Sleeps(u) \/ (InPoll(u) /\ ~OnSema(w))
                   PROVE  w \in links'.in_line
      BY <1>2, <1>8, <2>3, <3>1, <3>2, Primes DEF KeptInv
    <3>4. w \in links.in_line /\ CanTake(w)
      BY <1>8, <2>1, <3>3 DEF KeptInv, CanTake
    <3>5. QED BY <1>8, <3>4 DEF SamePlaces
  <2>7. QED BY <2>4, <2>5, <2>6 DEF SyncerInv
<1>9. QED BY <1>1, <1>5, <1>6, <1>7, <1>8 DEF Fine, ThreadInv

\* A thread that is chosen for by a step of another one.
LEMMA ChosenFine ==
  ASSUME IInv, program' = program, NEW w \in links.in_line, CanTake(w), NEW u, u = w[1],
         call'[u] = call[u] /\ pc'[u] = pc[u] /\ external_break'[u] = external_break[u] /\ start'[u] = start[u],
         running'[u] = WeakResume(running[u]),
         suspend_break'[u] = suspend_break[u] + (IF SyncOf(CallOf(w)).enable THEN 1 ELSE 0),
         \A c \in Call : c[1] = u => outcome'[c] = outcome[c],
         \A c \in Call : c[1] = u => result'[c] = IF c = CallOf(w) THEN w[3] ELSE result[c],
         \A x \in Syncer : x[1] = u =>
           nack'[x] = IF nack[x] = "made" /\ CallOf(x) = CallOf(w)
                        THEN IF x = w THEN "kept" ELSE "posted" ELSE nack[x],
         \A x \in Syncer : x[1] = u /\ x \in links'.in_line => x \in links.in_line /\ pc[u] = "wait"
  PROVE  Fine(u)'
<1>1. w \in Syncer /\ Real(w) /\ u \in Thread /\ w[3] # 0 /\ w[3] \in Nat
      /\ CallOf(w) \in Call /\ CallOf(w)[1] = u /\ CallOf(w)[2] = w[2]
  <2>1. w \in Syncer /\ Real(w)
    BY GoodIs DEF IInv
  <2>2. QED BY <2>1, SyncerIs
<1>2. PICK d : d = CallOf(w)
  OBVIOUS
<1>3. /\ d = Current(u) /\ outcome[d] = "going" /\ result[d] = 0
      /\ pc[u] \in {"wait", "poll"} /\ ~pending_break(u)
  BY <1>1, <1>2 DEF IInv, SyncerInv, PlaceInv, CanTake
<1>4. "KILLED" \notin running[u] /\ "USER_SUSPENDED" \notin running[u]
  BY <1>3 DEF pending_break
<1>5. running'[u] = running[u] \ {"SUSPENDED"}
  BY <1>4 DEF WeakResume
<1>6. Current(u)' = d
  BY <1>3 DEF Current
<1>7. result'[d] = w[3] /\ outcome'[d] = outcome[d]
  BY <1>1, <1>2
<1>8. StageInv(u) /\ WordInv(u) /\ BreakInv(u)
  BY <1>1 DEF IInv, ThreadInv
<1>9. "RUNNING" \in running[u] /\ "RUNNING" \in running'[u]
  <2>1. running[u] # {}
    BY <1>3, <1>8 DEF WordInv, StageInv
  <2>2. QED BY <1>5, <1>8, <2>1 DEF WordInv
<1>10. WordInv(u)'
  BY <1>4, <1>5, <1>8, <1>9 DEF WordInv
<1>11. StageInv(u)'
  BY <1>3, <1>4, <1>5, <1>6, <1>7, <1>8, <1>9, Primes DEF StageInv
<1>12. BreakInv(u)'
  <2>1. suspend_break[u] \in Int /\ call[u] \in Int
    BY <1>1 DEF IInv, Types
  <2>2. suspend_break[u] # 1
    BY <1>3, <1>8, <1>9 DEF BreakInv
  <2>3. suspend_break'[u] <= 1 /\ suspend_break'[u] >= suspend_break[u]
    BY <1>8, <2>1, <2>2 DEF BreakInv
  <2>4. pc'[u] # "run" /\ result'[Current(u)'] # 0
    BY <1>1, <1>3, <1>6, <1>7
  <2>6. SyncOf(d)' = SyncOf(d) /\ suspend_break'[u] = suspend_break[u] + (IF SyncOf(d).enable THEN 1 ELSE 0)
    BY <1>2, Primes
  <2>7. suspend_break'[u] = 1 => SyncOf(Current(u))'.enable
    BY <1>6, <1>8, <2>1, <2>2, <2>6 DEF BreakInv
  <2>5. QED BY <1>6, <1>8, <2>1, <2>3, <2>4, <2>7 DEF BreakInv
<1>13. ASSUME NEW c \in Call, c[1] = u
       PROVE  CallInv(c)'
  <2>1. CallInv(c)
    BY DEF IInv
  <2>2. outcome'[c] = outcome[c] /\ result'[c] = IF c = d THEN w[3] ELSE result[c]
    BY <1>2, <1>13
  <2>3. w[3] <= Len(SyncOf(d).evts)
    BY <1>1, <1>2 DEF Real
  <2>4. Current(c[1])' = Current(c[1])
    BY <1>13 DEF Current
  <2>5. QED BY <1>3, <1>13, <2>1, <2>2, <2>3, <2>4, Primes DEF CallInv
<1>14. ASSUME NEW x \in Syncer, x[1] = u
       PROVE  SyncerInv(x)'
  <2>1. NackInv(x) /\ PlaceInv(x) /\ KeptInv(x)
    BY DEF IInv, SyncerInv
  <2>2. CallOf(x) \in Call /\ CallOf(x)[1] = u /\ x = <<CallOf(x)[1], CallOf(x)[2], x[3]>>
        /\ w = <<CallOf(w)[1], CallOf(w)[2], w[3]>>
    BY <1>1, <1>14, SyncerIs
  <2>3. /\ result'[CallOf(x)] = IF CallOf(x) = d THEN w[3] ELSE result[CallOf(x)]
        /\ outcome'[CallOf(x)] = outcome[CallOf(x)]
    BY <1>2, <2>2
  <2>4. CallOf(x) = d /\ x[3] = w[3] => x = w
    BY <1>2, <2>2
  <2>5. nack'[x] = IF nack[x] = "made" /\ CallOf(x) = d
                     THEN IF x = w THEN "kept" ELSE "posted" ELSE nack[x]
    BY <1>2, <1>14
  <2>6. NackInv(x)'
    <3>1. CASE CallOf(x) = d
      <4>1. nack[x] # "none" => nack[x] = "made"
        BY <1>3, <1>4, <1>14, <2>1, <3>1 DEF NackInv
      <4>2. QED BY <1>1, <1>2, <1>14, <2>1, <2>3, <2>4, <2>5, <3>1, <4>1, Primes DEF NackInv
    <3>2. CASE CallOf(x) # d
      BY <1>5, <1>14, <2>1, <2>3, <2>5, <3>2, Primes DEF NackInv
    <3>3. QED BY <3>1, <3>2
  <2>7. PlaceInv(x)'
    BY <1>6, <1>3, <1>14, <2>1, <2>3, Primes DEF PlaceInv
  <2>8. KeptInv(x)'
    BY <1>1, <1>6, <1>14, <2>3, Primes DEF KeptInv
  <2>9. QED BY <2>6, <2>7, <2>8 DEF SyncerInv
<1>15. QED BY <1>1, <1>10, <1>11, <1>12, <1>13, <1>14 DEF Fine, ThreadInv

\* A chosen thread that the scheduler polls has left all lines.
LEMMA ChosenPlaces ==
  ASSUME IInv, NEW w \in links.in_line, NEW x \in links.in_line, x[1] = w[1],
         x \notin PollSyncers(CallOf(w), w[3]) \cup {w}
  PROVE  pc[x[1]] = "wait"
<1>1. w \in Syncer /\ x \in Syncer /\ Real(w) /\ Real(x)
  BY GoodIs DEF IInv
<1>2. PICK d : d = CallOf(w)
  OBVIOUS
<1>3. d \in Call /\ Made(d) /\ d[1] = w[1] /\ d[2] = w[2]
  BY <1>1, <1>2, SyncerIs DEF Real
<1>4. CallOf(w) = Current(w[1]) /\ CallOf(x) = d
  BY <1>1, <1>2 DEF IInv, SyncerInv, PlaceInv
<1>5. x \in OfCall(d)
  BY <1>1, <1>4 DEF OfCall
<1>6. SUFFICES ASSUME pc[x[1]] # "wait" PROVE FALSE
  OBVIOUS
<1>7. pc[x[1]] = "poll" /\ ~OnSema(x)
  BY <1>1, <1>6 DEF IInv, SyncerInv, PlaceInv
<1>8. Polling(d)
  BY <1>2, <1>3, <1>4, <1>7 DEF Polling, Current
<1>9. program \in Programs
  BY DEF IInv, Types
<1>10. x \in PollSyncers(d, w[3]) \/ x[3] = w[3]
  BY <1>3, <1>5, <1>7, <1>8, <1>9, PollSyncersIs
<1>11. x = <<d[1], d[2], x[3]>> /\ w = <<d[1], d[2], w[3]>>
  BY <1>1, <1>2, <1>4, SyncerIs
<1>12. QED BY <1>2, <1>10, <1>11

-----------------------------------------------------------------------------
\* Lines and posts.

\* The line of a syncer that has one.
LEMMA LineOfIs ==
  ASSUME IInv, NEW w \in Syncer, Real(w)
  PROVE  /\ OnSema(w) => EvtOf(w).on \in Sema
         /\ OnSema(w) => LineOf(w).kind = "sema"
         /\ ~OnSema(w) => LineOf(w) = EvtOf(w) /\ LineOf(w) \in Line /\ LineOf(w).kind \in {"get", "put"}
<1>1. program \in Programs
  BY DEF IInv, Types
<1>2. QED BY <1>1, EvtIs DEF LineOf, OnSema

\* Each channel has two sides, each the opposite of the other.
LEMMA Opposites ==
  ASSUME NEW e \in Line, e.kind \in {"get", "put"}
  PROVE  Opposite(e).kind \in {"get", "put"} /\ Opposite(Opposite(e)) = e
<1>1. e = [kind |-> e.kind, on |-> e.on]
  BY DEF Line
<1>2. Opposite(e) = [kind |-> IF e.kind = "get" THEN "put" ELSE "get", on |-> e.on]
  BY <1>1 DEF Opposite
<1>3. PICK o : o = Opposite(e)
  OBVIOUS
<1>4. o = [kind |-> o.kind, on |-> o.on]
  BY <1>2, <1>3
<1>5. Opposite(o) = [kind |-> IF o.kind = "get" THEN "put" ELSE "get", on |-> o.on]
  BY <1>4 DEF Opposite
<1>6. QED BY <1>1, <1>2, <1>3, <1>5

\* Whoever stands in a line has an event.
LEMMA RealNext ==
  ASSUME program' = program, Good(links)'
  PROVE  \A x \in links'.in_line : x \in Syncer /\ Real(x)
<1>1. PICK pos, B : Sorted(links, pos, B)'
  BY DEF Good
<1>2. links' \in Links /\ \A x \in links'.in_line : Real(x)'
  BY <1>1 DEF Sorted
<1>3. QED BY <1>2, Primes DEF Links

\* A step after which nobody new stands in the line of a channel.
LEMMA MetDrained ==
  ASSUME IInv, program' = program, Good(links)', Drained(links)',
         \A x \in links'.in_line : ~OnSema(x) /\ Attentive(program) => x \in links.in_line
  PROVE  Met'
<1>1. \A x \in links'.in_line : x \in Syncer /\ Real(x)
  BY RealNext
<1>2. ASSUME Attentive(program) PROVE Facing(links)'
  <2>1. SUFFICES ASSUME NEW w \in links'.in_line, NEW x \in links'.in_line,
                        ~OnSema(w), LineOf(x) = Opposite(LineOf(w))
                 PROVE  CallOf(x) = CallOf(w)
    BY Primes DEF Facing, CallOf
  <2>2. LineOf(w) \in Line /\ LineOf(w).kind \in {"get", "put"}
    BY <1>1, <2>1, LineOfIs
  <2>3. LineOf(x).kind \in {"get", "put"}
    BY <2>1, <2>2, Opposites
  <2>4. ~OnSema(x)
    BY <1>1, <2>3, LineOfIs
  <2>5. w \in links.in_line /\ x \in links.in_line /\ Facing(links)
    BY <1>2, <2>1, <2>4 DEF IInv, Met
  <2>6. QED BY <2>1, <2>5 DEF Facing
<1>3. Attentive(program)' => Attentive(program)
  BY DEF Attentive, Defers
<1>4. QED BY <1>2, <1>3 DEF Met

\* Or in the line of a semaphore, but where there is no post, and no semaphore
\* without a post has got one.
LEMMA MetNext ==
  ASSUME IInv, program' = program, Good(links)',
         \A x \in links'.in_line : OnSema(x) => x \in links.in_line \/ value'[EvtOf(x).on] = 0,
         \A x \in links'.in_line : ~OnSema(x) /\ Attentive(program) => x \in links.in_line,
         \A s \in Sema : value[s] = 0 => value'[s] = 0
  PROVE  Met'
<1>1. SUFFICES ASSUME NEW x \in links'.in_line, OnSema(x) PROVE value'[EvtOf(x).on] = 0
  BY MetDrained, Primes DEF Drained
<1>2. EvtOf(x).on \in Sema
  BY <1>1, RealNext, LineOfIs
<1>3. x \in links.in_line => value[EvtOf(x).on] = 0
  BY <1>1 DEF IInv, Met, Drained
<1>4. QED BY <1>1, <1>2, <1>3

\* A step after which nobody new stands anywhere, and no semaphore gets a post.
LEMMA MetStays ==
  ASSUME IInv, program' = program, Good(links)', \A x \in links'.in_line : x \in links.in_line,
         \A s \in Sema : value[s] = 0 => value'[s] = 0
  PROVE  Met'
BY MetNext

\* A poll after which sync c stands in lines: it has met nobody, and no post.
LEMMA MetJoins ==
  ASSUME IInv, program' = program, Good(links)', NEW c, NEW joins, NEW p,
         NoneReady(p, c, joins, OfCall(c)),
         \A x \in links'.in_line : x \in p.links.in_line \cup OfCall(c), value' = value
  PROVE  Met'
<1>1. \A x \in links'.in_line : x \in Syncer /\ Real(x)
  BY RealNext
<1>2. \A x \in links'.in_line : x \in links.in_line \/ x \in OfCall(c)
  BY DEF NoneReady, Within
<1>3. \A x \in OfCall(c) : CallOf(x) = c
  BY DEF OfCall
<1>4. /\ \A w \in OfCall(c) : OnSema(w) => ~Posted(w)
      /\ \A w \in OfCall(c) : ~OnSema(w) =>
           \A x \in p.links.in_line : LineOf(x) = Opposite(EvtOf(w)) => CallOf(x) = c
  BY DEF NoneReady
<1>5. Drained(links)'
  <2>1. SUFFICES ASSUME NEW x \in links'.in_line, OnSema(x) PROVE value[EvtOf(x).on] = 0
    BY Primes DEF Drained
  <2>2. EvtOf(x).on \in Sema /\ value[EvtOf(x).on] \in Nat
    BY <1>1, <2>1, LineOfIs, ConstantsAssumption DEF IInv, Types
  <2>3. x \in links.in_line => value[EvtOf(x).on] = 0
    BY <2>1 DEF IInv, Met, Drained
  <2>4. x \in OfCall(c) => value[EvtOf(x).on] = 0
    BY <1>4, <2>1, <2>2 DEF Posted
  <2>5. QED BY <1>2, <2>3, <2>4
<1>6. ASSUME Attentive(program) PROVE Facing(links)'
  <2>1. SUFFICES ASSUME NEW w \in links'.in_line, NEW x \in links'.in_line,
                        ~OnSema(w), LineOf(x) = Opposite(LineOf(w))
                 PROVE  CallOf(x) = CallOf(w)
    BY Primes DEF Facing, CallOf
  <2>2. LineOf(w) \in Line /\ LineOf(w).kind \in {"get", "put"} /\ LineOf(w) = EvtOf(w)
    BY <1>1, <2>1, LineOfIs
  <2>3. LineOf(x).kind \in {"get", "put"} /\ Opposite(LineOf(x)) = LineOf(w)
    BY <2>1, <2>2, Opposites
  <2>4. ~OnSema(x)
    BY <1>1, <2>3, LineOfIs
  <2>5. LineOf(x) = EvtOf(x)
    BY <1>1, <2>4, LineOfIs
  <2>6. CASE w \in OfCall(c)
    <3>1. x \in p.links.in_line => CallOf(x) = c
      BY <1>4, <2>1, <2>2, <2>6
    <3>2. x \in p.links.in_line \/ x \in OfCall(c)
      BY <2>1
    <3>3. QED BY <1>3, <2>6, <3>1, <3>2
  <2>7. CASE x \in OfCall(c)
    <3>1. w \in p.links.in_line => CallOf(w) = c
      BY <1>4, <2>3, <2>4, <2>5, <2>7
    <3>2. w \in p.links.in_line \/ w \in OfCall(c)
      BY <2>1
    <3>3. QED BY <1>3, <2>7, <3>1, <3>2
  <2>8. CASE w \notin OfCall(c) /\ x \notin OfCall(c)
    <3>1. w \in links.in_line /\ x \in links.in_line /\ Facing(links)
      BY <1>2, <1>6, <2>1, <2>8 DEF IInv, Met
    <3>2. QED BY <2>1, <3>1 DEF Facing
  <2>9. QED BY <2>6, <2>7, <2>8
<1>7. Attentive(program)' => Attentive(program)
  BY DEF Attentive, Defers
<1>8. QED BY <1>5, <1>6, <1>7 DEF Met

NackType == {"none", "made", "posted", "kept"}

\* A choice, thread by thread and call by call.
Chosen(chosen, N, c) ==
  /\ result' \in [Call -> 0..MaxEvts] /\ got' \in [Call -> Call \cup {Null}]
  /\ nack' \in [Syncer -> NackType] /\ suspend_break' \in [Thread -> Int]
  /\ running' \in [Thread -> SUBSET Flag]
  /\ \A w \in chosen : result'[CallOf(w)] = w[3]
  /\ \A d \in Call : (\A w \in chosen : CallOf(w) # d) => result'[d] = result[d]
  /\ \A x \in Syncer :
       nack'[x] = IF N[x] = "made" /\ \E w \in chosen : CallOf(w) = CallOf(x)
                    THEN IF x \in chosen THEN "kept" ELSE "posted" ELSE N[x]
  /\ \A u \in Thread : u # c[1] /\ (\A w \in chosen : w[1] # u) =>
       running'[u] = running[u] /\ suspend_break'[u] = suspend_break[u]
  /\ \A w \in chosen : w[1] # c[1] =>
       /\ running'[w[1]] = WeakResume(running[w[1]])
       /\ suspend_break'[w[1]] = suspend_break[w[1]] + (IF SyncOf(CallOf(w)).enable THEN 1 ELSE 0)
  /\ c[1] \in Thread =>
       /\ running'[c[1]] = running[c[1]]
       /\ (\E w \in chosen : CallOf(w) = c) => suspend_break'[c[1]] = suspend_break[c[1]]

\* Choose does what Chosen says, when no two of the chosen are of one thread.
LEMMA ChooseIs ==
  ASSUME IInv, NEW chosen \in SUBSET Syncer, NEW N \in [Syncer -> NackType], NEW c,
         Choose(chosen, N, c),
         \A w \in chosen, x \in chosen : w[1] = x[1] => w = x,
         \A w \in chosen : EvtOf(w).kind = "get" => \E x \in chosen : CallOf(x) # CallOf(w)
  PROVE  Chosen(chosen, N, c)
<1>1. /\ result' = [d \in Call |->
           IF \E w \in chosen : CallOf(w) = d
             THEN (CHOOSE w \in chosen : CallOf(w) = d)[3] ELSE result[d]]
      /\ got' = Received(chosen, c)
      /\ nack' = NacksPosted(N, {CallOf(w) : w \in chosen}, chosen)
      /\ suspend_break' = Breaks(chosen, c)
      /\ running' = Woken(chosen, c)
  BY DEF Choose
<1>2. \A w \in chosen : /\ CallOf(w) \in Call /\ CallOf(w)[1] = w[1] /\ w[1] \in Thread
                        /\ w[3] \in 0..MaxEvts
  BY SyncerIs, ConstantsAssumption
<1>3. \A w, x \in chosen : CallOf(w) = CallOf(x) => w = x
  BY <1>2
<1>4. /\ running \in [Thread -> SUBSET Flag] /\ suspend_break \in [Thread -> Int]
      /\ result \in [Call -> 0..MaxEvts] /\ got \in [Call -> Call \cup {Null}]
  BY DEF IInv, Types
<1>5. \A w \in chosen : result'[CallOf(w)] = w[3]
  <2>1. SUFFICES ASSUME NEW w \in chosen PROVE result'[CallOf(w)] = w[3]
    OBVIOUS
  <2>2. PICK x : x = CHOOSE y \in chosen : CallOf(y) = CallOf(w)
    OBVIOUS
  <2>3. x \in chosen /\ CallOf(x) = CallOf(w)
    BY <2>2
  <2>4. x = w
    BY <1>3, <2>3
  <2>5. result'[CallOf(w)] = x[3]
    BY <1>1, <1>2, <2>2
  <2>6. QED BY <2>4, <2>5
<1>6. \A d \in Call : (\A w \in chosen : CallOf(w) # d) => result'[d] = result[d]
  BY <1>1
<1>7. result' \in [Call -> 0..MaxEvts]
  <2>1. \A d \in Call : result'[d] \in 0..MaxEvts
    BY <1>2, <1>4, <1>5, <1>6
  <2>2. QED BY <1>1, <2>1
<1>8. got' \in [Call -> Call \cup {Null}]
  <2>1. \A d \in Call : got'[d] \in Call \cup {Null}
    <3>1. SUFFICES ASSUME NEW d \in Call PROVE got'[d] \in Call \cup {Null}
      OBVIOUS
    <3>2. CASE \E w \in chosen : CallOf(w) = d /\ EvtOf(w).kind = "get"
      <4>1. \E x \in chosen : CallOf(x) # d
        BY <3>2
      <4>2. (CHOOSE x \in chosen : CallOf(x) # d) \in chosen
        BY <4>1
      <4>3. got'[d] = CallOf(CHOOSE x \in chosen : CallOf(x) # d)
        BY <1>1, <3>2 DEF Received
      <4>4. QED BY <1>2, <4>2, <4>3
    <3>3. CASE ~\E w \in chosen : CallOf(w) = d /\ EvtOf(w).kind = "get"
      BY <1>1, <1>4, <3>3 DEF Received
    <3>4. QED BY <3>2, <3>3
  <2>2. QED BY <1>1, <2>1 DEF Received
<1>9. \A x \in Syncer :
        nack'[x] = IF N[x] = "made" /\ \E w \in chosen : CallOf(w) = CallOf(x)
                     THEN IF x \in chosen THEN "kept" ELSE "posted" ELSE N[x]
  BY <1>1 DEF NacksPosted
<1>10. nack' \in [Syncer -> NackType]
  <2>1. \A x \in Syncer : nack'[x] \in NackType
    BY <1>9 DEF NackType
  <2>2. QED BY <1>1, <2>1 DEF NacksPosted
<1>11. \A t \in Thread : suspend_break'[t] = suspend_break[t]
         + (IF \E w \in chosen : w[1] = t /\ SyncOf(CallOf(w)).enable THEN 1 ELSE 0)
         - (IF t = c[1] /\ SyncOf(c).enable THEN 1 ELSE 0)
  BY <1>1 DEF Breaks
<1>12. suspend_break' \in [Thread -> Int]
  <2>1. \A t \in Thread : suspend_break'[t] \in Int
    BY <1>4, <1>11
  <2>2. QED BY <1>1, <2>1 DEF Breaks
<1>13. \A t \in Thread :
         running'[t] = IF t # c[1] /\ \E w \in chosen : w[1] = t THEN WeakResume(running[t])
                       ELSE running[t]
  BY <1>1 DEF Woken
<1>14. running' \in [Thread -> SUBSET Flag]
  <2>1. \A t \in Thread : running'[t] \in SUBSET Flag
    BY <1>4, <1>13 DEF WeakResume
  <2>2. QED BY <1>1, <2>1 DEF Woken
<1>15. ASSUME NEW u \in Thread, u # c[1], \A w \in chosen : w[1] # u
       PROVE  running'[u] = running[u] /\ suspend_break'[u] = suspend_break[u]
  BY <1>4, <1>11, <1>13, <1>15
<1>16. ASSUME NEW w \in chosen, w[1] # c[1]
       PROVE  /\ running'[w[1]] = WeakResume(running[w[1]])
              /\ suspend_break'[w[1]] = suspend_break[w[1]] + (IF SyncOf(CallOf(w)).enable THEN 1 ELSE 0)
  <2>1. PICK u \in Thread : u = w[1] /\ u # c[1]
    BY <1>2, <1>16
  <2>2. running'[u] = WeakResume(running[u])
    BY <1>13, <2>1
  <2>3. (\E x \in chosen : x[1] = u /\ SyncOf(CallOf(x)).enable) <=> SyncOf(CallOf(w)).enable
    BY <2>1
  <2>4. suspend_break'[u] = suspend_break[u] + (IF SyncOf(CallOf(w)).enable THEN 1 ELSE 0)
    BY <1>4, <1>11, <2>1, <2>3
  <2>5. QED BY <2>1, <2>2, <2>4
<1>17. ASSUME c[1] \in Thread
       PROVE  /\ running'[c[1]] = running[c[1]]
              /\ (\E w \in chosen : CallOf(w) = c) => suspend_break'[c[1]] = suspend_break[c[1]]
  <2>1. running'[c[1]] = running[c[1]]
    BY <1>13, <1>17
  <2>2. ASSUME NEW w \in chosen, CallOf(w) = c PROVE suspend_break'[c[1]] = suspend_break[c[1]]
    <3>1. w[1] = c[1]
      BY <1>2, <2>2
    <3>2. (\E x \in chosen : x[1] = c[1] /\ SyncOf(CallOf(x)).enable) <=> SyncOf(c).enable
      BY <2>2, <3>1
    <3>3. PICK n : n = suspend_break[c[1]] /\ n \in Int
      BY <1>4, <1>17
    <3>4. suspend_break'[c[1]] = n + (IF SyncOf(c).enable THEN 1 ELSE 0) - (IF SyncOf(c).enable THEN 1 ELSE 0)
      BY <1>11, <1>17, <3>2, <3>3
    <3>5. QED BY <3>3, <3>4
  <2>3. QED BY <2>1, <2>2
<1>18. QED BY <1>5, <1>6, <1>7, <1>8, <1>9, <1>10, <1>12, <1>14, <1>15, <1>16, <1>17 DEF Chosen

\* Thread t is about to begin sync c, or is in it.
At(t, c) ==
  /\ t \in Thread /\ c \in Call /\ Made(c) /\ c[1] = t /\ running[t] # {}
  /\ \/ pc[t] = "run" /\ c[2] = call[t] + 1
     \/ pc[t] # "run" /\ c = Current(t)

\* What a step of t in sync c does to the rest of the thread.
Steps(t, c) ==
  /\ call'[t] = c[2]
  /\ \A d \in Call : d[1] = t /\ d # c => result'[d] = result[d] /\ outcome'[d] = outcome[d]
  /\ \A w \in Syncer : w[1] = t /\ CallOf(w) # c => nack'[w] = nack[w]

\* The sync that t is in after such a step.
LEMMA StepsCurrent ==
  ASSUME NEW t, NEW c, At(t, c), Steps(t, c)
  PROVE  Current(t)' = c
<1>1. c = <<t, c[2]>>
  BY DEF At, Call
<1>2. QED BY <1>1 DEF Steps, Current

\* What the invariant says of the other calls of t.
LEMMA StepsCalls ==
  ASSUME IInv, program' = program, NEW t, NEW c, At(t, c), Steps(t, c)
  PROVE  /\ \A d \in Call : d[1] = t /\ d # c => CallInv(d)' /\ outcome[d] # "going"
         /\ \A w \in Syncer : w[1] = t /\ CallOf(w) # c => NackInv(w)'
<1>1. c \in Call /\ c[1] = t /\ c[2] \in Nat /\ c = <<t, c[2]>> /\ t \in Thread /\ call'[t] = c[2]
  BY DEF At, Call, Steps
<1>2. call[t] \in Nat
  BY <1>1 DEF IInv, Types
<1>3. pc[t] # "run" => c[2] = call[t]
  BY <1>1 DEF At, Current
<1>4. ASSUME NEW d \in Call, d[1] = t, d # c
      PROVE  CallInv(d)' /\ outcome[d] # "going"
  <2>1. CallInv(d) /\ d[2] \in Nat /\ d = <<t, d[2]>>
    BY <1>4 DEF IInv, Call
  <2>2. d[2] # c[2]
    BY <1>1, <1>4, <2>1
  <2>3. d[2] > call[t] <=> d[2] > c[2]
    BY <1>1, <1>2, <1>3, <2>1, <2>2 DEF At
  <2>4. outcome[d] # "going"
    <3>1. SUFFICES ASSUME outcome[d] = "going" PROVE FALSE
      OBVIOUS
    <3>2. d = Current(t) /\ pc[t] # "run"
      BY <1>4, <2>1, <3>1 DEF CallInv
    <3>3. QED BY <1>1, <1>3, <2>2, <3>2 DEF Current
  <2>5. result'[d] = result[d] /\ outcome'[d] = outcome[d]
    BY <1>4 DEF Steps
  <2>6. QED BY <1>1, <1>4, <2>1, <2>3, <2>4, <2>5, Primes DEF CallInv
<1>5. ASSUME NEW w \in Syncer, w[1] = t, CallOf(w) # c
      PROVE  NackInv(w)'
  <2>1. CallOf(w) \in Call /\ CallOf(w)[1] = t
    BY <1>5, SyncerIs
  <2>2. outcome[CallOf(w)] # "going"
    BY <1>4, <1>5, <2>1
  <2>3. /\ result'[CallOf(w)] = result[CallOf(w)] /\ outcome'[CallOf(w)] = outcome[CallOf(w)]
        /\ nack'[w] = nack[w]
    BY <1>5, <2>1 DEF Steps
  <2>4. NackInv(w)
    BY DEF IInv, SyncerInv
  <2>5. QED BY <2>2, <2>3, <2>4, Primes DEF NackInv
<1>6. QED BY <1>4, <1>5

\* A sync is over.
Over(t, c) ==
  /\ pc'[t] = "run"
  /\ outcome'[c] \in {"evt", "false", "break", "killed"}
  /\ result'[c] \in 0..Len(SyncOf(c).evts)
  /\ outcome'[c] = "evt" => result'[c] # 0
  /\ \A w \in Syncer : CallOf(w) = c /\ nack'[w] # "none" =>
       Real(w) /\ nack'[w] = IF w[3] = result'[c] THEN "kept" ELSE "posted"
  /\ \A w \in links'.in_line : w[1] # t
  /\ suspend_break'[t] >= suspend_break[t] - 1
  /\ suspend_break'[t] <= 0 \/ (running'[t] = {} /\ suspend_break'[t] <= 1)

\* A thread whose sync ends keeps its part of the invariant.
LEMMA OverFine ==
  ASSUME IInv, program' = program, NEW t, NEW c, At(t, c), Steps(t, c), Over(t, c),
         WordInv(t)', suspend_break'[t] \in Int
  PROVE  Fine(t)'
<1>1. c \in Call /\ c[1] = t /\ c[2] \in Nat /\ t \in Thread /\ Made(c) /\ c[2] > 0
  BY DEF At, Call
<1>2. Current(t)' = c /\ call'[t] = c[2] /\ pc'[t] = "run"
  BY StepsCurrent DEF Steps, Over
<1>3. StageInv(t)'
  BY <1>1, <1>2 DEF StageInv, Made
<1>4. BreakInv(t)'
  <2>1. BreakInv(t) /\ suspend_break[t] \in Int /\ call[t] \in Nat
    BY <1>1 DEF IInv, ThreadInv, Types
  <2>2. suspend_break'[t] >= 0 - c[2]
    <3>1. CASE pc[t] = "run"
      <4>1. suspend_break[t] >= 0 - call[t] /\ c[2] = call[t] + 1
        BY <2>1, <3>1 DEF BreakInv, At
      <4>2. QED BY <1>1, <2>1, <4>1 DEF Over
    <3>2. CASE pc[t] # "run"
      <4>1. suspend_break[t] >= 0 - (call[t] - 1) /\ c[2] = call[t]
        BY <1>1, <2>1, <3>2 DEF BreakInv, At, Current
      <4>2. QED BY <1>1, <2>1, <4>1 DEF Over
    <3>3. QED BY <3>1, <3>2
  <2>3. suspend_break'[t] <= 1 /\ (suspend_break'[t] = 1 => running'[t] = {})
    BY DEF Over
  <2>4. QED BY <1>2, <2>2, <2>3 DEF BreakInv
<1>5. ASSUME NEW d \in Call, d[1] = t
      PROVE  CallInv(d)'
  <2>1. CASE d = c
    BY <1>1, <1>2, <2>1, Primes DEF CallInv, Over
  <2>2. QED BY <1>5, <2>1, StepsCalls
<1>6. ASSUME NEW w \in Syncer, w[1] = t
      PROVE  SyncerInv(w)'
  <2>1. NackInv(w)'
    <3>1. CASE CallOf(w) = c
      <4>1. outcome'[c] # "none" /\ outcome'[c] # "going"
        BY DEF Over
      <4>2. nack'[w] # "none" => Real(w) /\ nack'[w] = IF w[3] = result'[c] THEN "kept" ELSE "posted"
        BY <3>1 DEF Over
      <4>3. QED BY <3>1, <4>1, <4>2, Primes DEF NackInv
    <3>2. QED BY <1>6, <3>1, StepsCalls
  <2>2. PlaceInv(w)' /\ KeptInv(w)'
    BY <1>2, <1>6 DEF PlaceInv, KeptInv, Over
  <2>3. QED BY <2>1, <2>2 DEF SyncerInv
<1>7. QED BY <1>3, <1>4, <1>5, <1>6 DEF Fine, ThreadInv

\* A sync goes on.
GoesOn(t, c) ==
  /\ pc'[t] \in {"wait", "poll", "block"} /\ start'[t] < Len(SyncOf(c).evts)
  /\ pc'[t] = "poll" => Deferred(c)
  /\ running'[t] # {} /\ "KILLED" \notin running'[t]
  /\ outcome'[c] = "going" /\ result'[c] = 0
  /\ \A w \in Syncer : CallOf(w) = c /\ nack'[w] # "none" => Real(w) /\ nack'[w] = "made"
  /\ \A w \in links'.in_line : w[1] = t =>
       w \in OfCall(c) /\ (pc'[t] = "wait" \/ (pc'[t] = "poll" /\ ~OnSema(w)))
  /\ pc'[t] # "block" => \A w \in OfCall(c) : pc'[t] = "wait" \/ ~OnSema(w) => w \in links'.in_line
  /\ suspend_break'[t] = suspend_break[t]

\* And so does a thread whose sync goes on.
LEMMA GoesOnFine ==
  ASSUME IInv, program' = program, NEW t, NEW c, At(t, c), Steps(t, c), GoesOn(t, c),
         WordInv(t)', pc[t] # "run" => result[c] = 0
  PROVE  Fine(t)'
<1>1. c \in Call /\ c[1] = t /\ c[2] \in Nat /\ t \in Thread /\ Made(c) /\ c[2] > 0
  BY DEF At, Call
<1>2. Current(t)' = c /\ call'[t] = c[2] /\ pc'[t] # "run"
  BY StepsCurrent DEF Steps, GoesOn
<1>3. StageInv(t)'
  <2>1. c[2] <= Len(program[t].syncs) /\ c[2] # 0
    BY <1>1 DEF Made
  <2>2. (Deferred(c)' <=> Deferred(c)) /\ SyncOf(c)' = SyncOf(c)
    BY Primes
  <2>3. QED BY <1>2, <2>1, <2>2 DEF StageInv, GoesOn
<1>4. BreakInv(t)'
  <2>1. BreakInv(t) /\ suspend_break[t] \in Int /\ call[t] \in Nat
    BY <1>1 DEF IInv, ThreadInv, Types
  <2>2. suspend_break[t] >= 0 - (c[2] - 1)
    <3>1. CASE pc[t] = "run"
      <4>1. suspend_break[t] >= 0 - call[t] /\ c[2] = call[t] + 1
        BY <2>1, <3>1 DEF BreakInv, At
      <4>2. QED BY <1>1, <2>1, <4>1
    <3>2. CASE pc[t] # "run"
      <4>1. suspend_break[t] >= 0 - (call[t] - 1) /\ c[2] = call[t]
        BY <1>1, <2>1, <3>2 DEF BreakInv, At, Current
      <4>2. QED BY <4>1
    <3>3. QED BY <3>1, <3>2
  <2>3. suspend_break[t] = 1 => running[t] = {}
    <3>1. CASE pc[t] = "run"
      BY <2>1, <3>1 DEF BreakInv
    <3>2. CASE pc[t] # "run"
      BY <2>1, <3>2 DEF BreakInv, At
    <3>3. QED BY <3>1, <3>2
  <2>4. suspend_break[t] # 1
    BY <2>3 DEF At
  <2>5. suspend_break[t] <= 1
    BY <2>1 DEF BreakInv
  <2>6. QED BY <1>2, <2>1, <2>2, <2>4, <2>5 DEF BreakInv, GoesOn
<1>5. ASSUME NEW d \in Call, d[1] = t
      PROVE  CallInv(d)'
  <2>1. CASE d = c
    BY <1>1, <1>2, <2>1, Primes DEF CallInv, GoesOn
  <2>2. QED BY <1>5, <2>1, StepsCalls
<1>6. ASSUME NEW w \in Syncer, w[1] = t
      PROVE  SyncerInv(w)'
  <2>1. w[3] # 0
    BY SyncerIs
  <2>2. NackInv(w)'
    <3>1. CASE CallOf(w) = c
      <4>1. nack'[w] # "none" => Real(w) /\ nack'[w] = "made"
        BY <3>1 DEF GoesOn
      <4>2. QED BY <1>6, <2>1, <3>1, <4>1, Primes DEF NackInv, GoesOn
    <3>2. QED BY <1>6, <3>1, StepsCalls
  <2>3. PlaceInv(w)'
    <3>1. SUFFICES ASSUME w \in links'.in_line PROVE PlaceInv(w)'
      BY DEF PlaceInv
    <3>2. CallOf(w) = c /\ Real(w) /\ (pc'[t] = "wait" \/ (pc'[t] = "poll" /\ ~OnSema(w)))
      BY <1>6, <3>1 DEF GoesOn, OfCall
    <3>3. QED BY <1>2, <1>6, <3>2, Primes DEF PlaceInv, GoesOn
  <2>4. KeptInv(w)'
    <3>1. SUFFICES ASSUME Real(w), CallOf(w) = c, pc'[t] = "wait" \/ (pc'[t] = "poll" /\ ~OnSema(w))
                   PROVE  w \in links'.in_line
      BY <1>2, <1>6, Primes DEF KeptInv, Sleeps, InPoll
    <3>2. w \in OfCall(c)
      BY <3>1 DEF OfCall
    <3>3. QED BY <3>1, <3>2 DEF GoesOn
  <2>5. QED BY <2>2, <2>3, <2>4 DEF SyncerInv
<1>7. QED BY <1>3, <1>4, <1>5, <1>6 DEF Fine, ThreadInv

\* What a step of thread t leaves of the others as it is.
Apartly(t) ==
  \A u \in Thread : u # t =>
    call'[u] = call[u] /\ pc'[u] = pc[u] /\ external_break'[u] = external_break[u] /\ start'[u] = start[u]

Elsewhere(t) == \A d \in Call : d[1] # t => outcome'[d] = outcome[d]

PlacesKept(t) == \A u \in Thread : u # t => SamePlaces(u)

Rest(t) == \A u \in Thread : u # t => SameThread(u) /\ SameCalls(u) /\ SameNacks(u) /\ SamePlaces(u)

\* Nacks to begin with: those of other syncs are as they were, and those of c
\* have just been made.
NewNacks(N, c) ==
  /\ \A x \in Syncer : CallOf(x) # c => N[x] = nack[x]
  /\ \A x \in Syncer : CallOf(x) = c /\ N[x] # "none" => Real(x) /\ N[x] = "made"

PlacesAs(L, t) == \A x \in Syncer : x[1] # t => (x \in links'.in_line <=> x \in L.in_line)
OutNext(t) == \A w \in links'.in_line : w[1] # t

\* The step of thread t that ends sync c by choosing one of its events.
Ends1(t, c) ==
  /\ running[t] = {"RUNNING"} /\ (pc[t] # "run" => result[c] = 0) /\ OutNext(t)
  /\ call'[t] = c[2] /\ pc' = [pc EXCEPT ![t] = "run"] /\ outcome' = [outcome EXCEPT ![c] = "evt"]
  /\ external_break' = external_break

\* The other threads keep theirs when the step leaves them as they are.
LEMMA RestFine ==
  ASSUME IInv, program' = program, NEW t, Rest(t)
  PROVE  \A u \in Thread : u # t => Fine(u)'
BY StaysFine DEF Rest

\* A step that ends with Choose, after a poll of c that found a partner.
LEMMA MeetFine ==
  ASSUME IInv, program' = program, NEW c, NEW t, At(t, c), Out(c),
         NEW p, OneReady(p, c), p.taker # Null,
         NEW N, NewNacks(N, c), Chosen({p.ready, p.taker}, N, c),
         PlacesAs(p.links, t), Apartly(t), Elsewhere(t)
  PROVE  \A u \in Thread : u # t => Fine(u)'
<1>0. /\ c \in Call /\ Made(c) /\ c[1] = t /\ t \in Thread
      /\ \A x \in Syncer : x[1] # c[1] => N[x] = nack[x]
      /\ \A x \in Syncer : x[1] # c[1] => (x \in links'.in_line <=> x \in p.links.in_line)
      /\ Apartly(c[1]) /\ Elsewhere(c[1])
  <2>1. c \in Call /\ Made(c) /\ c[1] = t /\ t \in Thread
    BY DEF At
  <2>2. \A x \in Syncer : x[1] # c[1] => N[x] = nack[x]
    BY SyncerIs DEF NewNacks
  <2>3. \A x \in Syncer : x[1] # c[1] => (x \in links'.in_line <=> x \in p.links.in_line)
    BY <2>1 DEF PlacesAs
  <2>4. QED BY <2>1, <2>2, <2>3
<1>1. PICK w, v : w = p.taker /\ v = p.ready
  OBVIOUS
<1>2. /\ v \in OfCall(c) /\ w \in links.in_line /\ CallOf(w) # c /\ CanTake(w)
      /\ w[1] # c[1]
  BY <1>0, <1>1 DEF OneReady, Out
<1>3. PICK L : /\ Within(L, c) /\ w \in L.in_line
               /\ p.links.in_line = L.in_line \ (PollSyncers(CallOf(w), w[3]) \cup {w})
  BY <1>0, <1>1 DEF OneReady
<1>4. w \in Syncer /\ Real(w) /\ v \in Syncer /\ CallOf(v) = c
  BY <1>0, <1>2, GoodIs DEF IInv, OfCall
<1>5. /\ CallOf(w) \in Call /\ CallOf(w)[1] = w[1] /\ w[1] \in Thread
      /\ v[1] = c[1] /\ Made(CallOf(w))
  BY <1>0, <1>4, SyncerIs DEF Real
<1>6. \A x \in PollSyncers(CallOf(w), w[3]) : x[1] = w[1]
  <2>1. program \in Programs
    BY DEF IInv, Types
  <2>2. PollSyncers(CallOf(w), w[3]) \in SUBSET OfCall(CallOf(w))
    BY <1>0, <1>5, <2>1, PollSyncersIs
  <2>3. \A x \in OfCall(CallOf(w)) : x[1] = w[1]
    BY <1>0, <1>5, SyncerIs DEF OfCall
  <2>4. QED BY <1>0, <2>2, <2>3
<1>7. \A x \in Syncer : x \in OfCall(c) => x[1] = c[1]
  BY SyncerIs DEF OfCall
<1>8. /\ result'[CallOf(w)] = w[3]
      /\ \A d \in Call : d # c /\ d # CallOf(w) => result'[d] = result[d]
      /\ running'[w[1]] = WeakResume(running[w[1]])
      /\ suspend_break'[w[1]] = suspend_break[w[1]] + (IF SyncOf(CallOf(w)).enable THEN 1 ELSE 0)
      /\ \A x \in Syncer :
           nack'[x] = IF N[x] = "made" /\ (CallOf(x) = c \/ CallOf(x) = CallOf(w))
                        THEN IF x = v \/ x = w THEN "kept" ELSE "posted" ELSE N[x]
      /\ \A u \in Thread : u # c[1] /\ u # w[1] =>
           running'[u] = running[u] /\ suspend_break'[u] = suspend_break[u]
  <2>1. Chosen({v, w}, N, c)
    BY <1>0, <1>1
  <2>2. \A y \in {v, w} : y = v \/ y = w
    OBVIOUS
  <2>3. v \in {v, w} /\ w \in {v, w}
    OBVIOUS
  <2>4. result'[CallOf(w)] = w[3]
    BY <1>0, <2>1, <2>3 DEF Chosen
  <2>5. \A d \in Call : d # c /\ d # CallOf(w) => result'[d] = result[d]
    BY <1>0, <1>4, <2>1 DEF Chosen
  <2>6. /\ running'[w[1]] = WeakResume(running[w[1]])
        /\ suspend_break'[w[1]] = suspend_break[w[1]] + (IF SyncOf(CallOf(w)).enable THEN 1 ELSE 0)
    BY <1>0, <1>2, <2>1, <2>3 DEF Chosen
  <2>7. \A x \in Syncer : (\E y \in {v, w} : CallOf(y) = CallOf(x)) <=> (CallOf(x) = c \/ CallOf(x) = CallOf(w))
    BY <1>0, <1>4
  <2>8. \A x \in Syncer : x \in {v, w} <=> (x = v \/ x = w)
    OBVIOUS
  <2>9. \A x \in Syncer :
           nack'[x] = IF N[x] = "made" /\ \E y \in {v, w} : CallOf(y) = CallOf(x)
                        THEN IF x \in {v, w} THEN "kept" ELSE "posted" ELSE N[x]
    BY <1>0, <2>1 DEF Chosen
  <2>10. \A x \in Syncer :
           nack'[x] = IF N[x] = "made" /\ (CallOf(x) = c \/ CallOf(x) = CallOf(w))
                        THEN IF x = v \/ x = w THEN "kept" ELSE "posted" ELSE N[x]
    BY <1>0, <2>7, <2>8, <2>9
  <2>11. \A u \in Thread : u # c[1] /\ u # w[1] =>
           running'[u] = running[u] /\ suspend_break'[u] = suspend_break[u]
    BY <1>0, <1>5, <2>1, <2>2 DEF Chosen
  <2>12. QED BY <1>0, <2>4, <2>5, <2>6, <2>10, <2>11
<1>9. ASSUME NEW u \in Thread, u # c[1]
      PROVE  Fine(u)'
  <2>1. CASE u = w[1]
    <3>1. \A d \in Call : d[1] = u => /\ outcome'[d] = outcome[d]
                                      /\ result'[d] = IF d = CallOf(w) THEN w[3] ELSE result[d]
      BY <1>0, <1>8, <1>9 DEF Elsewhere
    <3>2. \A x \in Syncer : x[1] = u =>
            nack'[x] = IF nack[x] = "made" /\ CallOf(x) = CallOf(w)
                         THEN IF x = w THEN "kept" ELSE "posted" ELSE nack[x]
      <4>1. \A x \in Syncer : x[1] = u => N[x] = nack[x] /\ CallOf(x) # c /\ x # v
        BY <1>0, <1>5, <1>9, SyncerIs
      <4>2. QED BY <1>0, <1>8, <4>1
    <3>3. \A x \in Syncer : x[1] = u /\ x \in links'.in_line => x \in links.in_line /\ pc[u] = "wait"
      <4>1. SUFFICES ASSUME NEW x \in Syncer, x[1] = u, x \in links'.in_line
                     PROVE  x \in links.in_line /\ pc[u] = "wait"
        OBVIOUS
      <4>2. x \in L.in_line /\ x \notin PollSyncers(CallOf(w), w[3]) \cup {w}
        BY <1>0, <1>3, <1>9, <4>1
      <4>3. x \in links.in_line
        BY <1>0, <1>3, <1>7, <1>9, <4>1, <4>2 DEF Within
      <4>4. QED BY <1>0, <1>2, <2>1, <4>1, <4>2, <4>3, ChosenPlaces
    <3>4. call'[u] = call[u] /\ pc'[u] = pc[u] /\ external_break'[u] = external_break[u] /\ start'[u] = start[u]
      BY <1>0, <1>9 DEF Apartly
    <3>5. QED BY <1>0, <1>2, <1>8, <2>1, <3>1, <3>2, <3>3, <3>4, ChosenFine
  <2>2. CASE u # w[1]
    <3>1. SameThread(u)
      BY <1>0, <1>8, <1>9, <2>2 DEF SameThread, Apartly
    <3>2. SameCalls(u)
      BY <1>0, <1>5, <1>8, <1>9, <2>2 DEF SameCalls, Elsewhere
    <3>3. SameNacks(u)
      <4>1. \A x \in Syncer : x[1] = u => N[x] = nack[x] /\ CallOf(x) # c /\ CallOf(x) # CallOf(w)
        BY <1>0, <1>5, <1>9, <2>2, SyncerIs
      <4>2. QED BY <1>0, <1>8, <4>1 DEF SameNacks
    <3>4. SamePlaces(u)
      <4>1. SUFFICES ASSUME NEW x \in Syncer, x[1] = u
                     PROVE  /\ x \in links'.in_line => x \in links.in_line
                            /\ x \in links.in_line /\ x \notin links'.in_line => ~CanTake(x)
        BY DEF SamePlaces
      <4>2. x \in links'.in_line <=> x \in L.in_line
        BY <1>0, <1>3, <1>6, <1>9, <2>2, <4>1
      <4>3. QED BY <1>0, <1>3, <1>7, <1>9, <4>1, <4>2 DEF Within
    <3>5. QED BY <1>0, <1>9, <3>1, <3>2, <3>3, <3>4, StaysFine
  <2>3. QED BY <1>0, <2>1, <2>2
<1>10. QED BY <1>0, <1>9

\* A step that ends with Choose, of an event of c that needs no partner.
LEMMA TakeFine ==
  ASSUME IInv, program' = program, NEW c, NEW t, At(t, c),
         NEW v \in OfCall(c), NEW N, NewNacks(N, c), Chosen({v}, N, c),
         PlacesKept(t), Apartly(t), Elsewhere(t)
  PROVE  \A u \in Thread : u # t => Fine(u)'
<1>0. /\ c \in Call /\ c[1] = t /\ t \in Thread
      /\ \A x \in Syncer : x[1] # c[1] => N[x] = nack[x]
  <2>1. c \in Call /\ c[1] = t /\ t \in Thread
    BY DEF At
  <2>2. \A x \in Syncer : x[1] # c[1] => N[x] = nack[x]
    BY SyncerIs DEF NewNacks
  <2>4. QED BY <2>1, <2>2
<1>1. v \in Syncer /\ CallOf(v) = c /\ v[1] = c[1]
  BY SyncerIs DEF OfCall
<1>2. ASSUME NEW u \in Thread, u # c[1]
      PROVE  SameThread(u) /\ SameCalls(u) /\ SameNacks(u)
  <2>1. running'[u] = running[u] /\ suspend_break'[u] = suspend_break[u]
    BY <1>0, <1>1, <1>2 DEF Chosen
  <2>2. \A d \in Call : d[1] = u => result'[d] = result[d]
    BY <1>0, <1>1, <1>2 DEF Chosen
  <2>3. \A x \in Syncer : x[1] = u => nack'[x] = nack[x]
    <3>1. SUFFICES ASSUME NEW x \in Syncer, x[1] = u PROVE nack'[x] = nack[x]
      OBVIOUS
    <3>2. N[x] = nack[x] /\ CallOf(x) # c
      BY <1>0, <1>2, <3>1, SyncerIs
    <3>3. nack'[x] = IF N[x] = "made" /\ \E y \in {v} : CallOf(y) = CallOf(x)
                        THEN IF x \in {v} THEN "kept" ELSE "posted" ELSE N[x]
      BY DEF Chosen
    <3>4. QED BY <1>0, <1>1, <3>2, <3>3
  <2>4. QED BY <1>0, <1>2, <2>1, <2>2, <2>3 DEF SameThread, SameCalls, SameNacks, Apartly, Elsewhere
<1>3. Rest(c[1])
  BY <1>0, <1>2 DEF Rest, PlacesKept
<1>4. QED BY <1>0, <1>3, RestFine

\* The sync that chooses is over.
LEMMA ChooserOver ==
  ASSUME IInv, program' = program, NEW t, NEW c, At(t, c), NEW chosen \in SUBSET Syncer, NEW N,
         Chosen(chosen, N, c), NEW v \in chosen, v \in OfCall(c),
         \A x \in chosen : x[1] = t => x = v, NewNacks(N, c), Ends1(t, c)
  PROVE  Fine(t)'
<1>0. /\ \A x \in Syncer : CallOf(x) # c => N[x] = nack[x]
      /\ \A x \in Syncer : CallOf(x) = c /\ N[x] # "none" => Real(x) /\ N[x] = "made"
      /\ call'[t] = c[2] /\ pc' = [pc EXCEPT ![t] = "run"] /\ outcome' = [outcome EXCEPT ![c] = "evt"]
      /\ external_break' = external_break
      /\ running[t] = {"RUNNING"} /\ (pc[t] # "run" => result[c] = 0) /\ \A w \in links'.in_line : w[1] # t
  BY DEF NewNacks, Ends1, OutNext
<1>1. /\ c \in Call /\ c[1] = t /\ t \in Thread /\ Made(c) /\ v \in Syncer /\ CallOf(v) = c /\ v[1] = t
      /\ Real(v) /\ v[3] # 0 /\ v[3] \in Nat /\ v[3] <= Len(SyncOf(c).evts)
  BY SyncerIs DEF At, OfCall, Real
<1>2. result'[c] = v[3]
  BY <1>0, <1>1 DEF Chosen
<1>3. pc'[t] = "run" /\ outcome'[c] = "evt" /\ \A d \in Call : d # c => outcome'[d] = outcome[d]
  BY <1>0, <1>1 DEF IInv, Types
<1>4. running'[t] = running[t] /\ suspend_break'[t] = suspend_break[t]
  BY <1>0, <1>1 DEF Chosen
<1>5. \A x \in chosen : CallOf(x)[1] = x[1]
  BY SyncerIs
<1>6. Steps(t, c)
  <2>1. \A d \in Call : d[1] = t /\ d # c => result'[d] = result[d]
    BY <1>0, <1>1, <1>5 DEF Chosen
  <2>2. ASSUME NEW x \in Syncer, x[1] = t, CallOf(x) # c PROVE nack'[x] = nack[x]
    <3>1. \A y \in chosen : CallOf(y) # CallOf(x)
      BY <1>0, <1>1, <1>5, <2>2, SyncerIs
    <3>2. nack'[x] = IF N[x] = "made" /\ \E w \in chosen : CallOf(w) = CallOf(x)
                       THEN IF x \in chosen THEN "kept" ELSE "posted" ELSE N[x]
      BY DEF Chosen
    <3>3. QED BY <1>0, <2>2, <3>1, <3>2
  <2>3. QED BY <1>0, <1>3, <2>1, <2>2 DEF Steps
<1>7. ASSUME NEW x \in Syncer, CallOf(x) = c, nack'[x] # "none"
      PROVE  Real(x) /\ nack'[x] = IF x[3] = result'[c] THEN "kept" ELSE "posted"
  <2>1. nack'[x] = IF N[x] = "made" /\ \E w \in chosen : CallOf(w) = CallOf(x)
                       THEN IF x \in chosen THEN "kept" ELSE "posted" ELSE N[x]
    BY DEF Chosen
  <2>2. Real(x) /\ N[x] = "made"
    BY <1>0, <1>1, <1>7, <2>1
  <2>3. x \in chosen <=> x[3] = v[3]
    <3>1. x = <<CallOf(x)[1], CallOf(x)[2], x[3]>> /\ v = <<CallOf(v)[1], CallOf(v)[2], v[3]>> /\ x[1] = t
      BY <1>0, <1>1, <1>7, SyncerIs
    <3>2. x[3] = v[3] => x = v
      BY <1>0, <1>1, <1>7, <3>1
    <3>3. QED BY <1>0, <3>1, <3>2
  <2>4. QED BY <1>0, <1>1, <1>2, <1>7, <2>1, <2>2, <2>3
<1>8. suspend_break[t] \in Int /\ suspend_break[t] <= 0
  <2>1. BreakInv(t) /\ StageInv(t) /\ suspend_break[t] \in Int
    BY <1>0, <1>1 DEF IInv, ThreadInv, Types
  <2>2. QED BY <1>0, <2>1 DEF BreakInv, At
<1>9. Over(t, c)
  BY <1>0, <1>1, <1>2, <1>3, <1>4, <1>7, <1>8 DEF Over
<1>10. WordInv(t)'
  <2>1. WordInv(t)
    BY <1>0, <1>1 DEF IInv, ThreadInv
  <2>2. QED BY <1>0, <1>3, <1>4, <2>1 DEF WordInv
<1>11. QED BY <1>0, <1>4, <1>6, <1>8, <1>9, <1>10, OverFine

PcType == [Thread -> {"run", "wait", "poll", "block"}]
OutcomeType == [Call -> {"none", "going", "evt", "false", "break", "killed"}]

\* The types after a step.
LEMMA TypesNext ==
  ASSUME IInv, program' = program, call' \in [Thread -> 0..MaxCalls], pc' \in PcType,
         start' \in [Thread -> 0..(MaxEvts - 1)], running' \in [Thread -> SUBSET Flag],
         external_break' \in [Thread -> BOOLEAN], suspend_break' \in [Thread -> Int],
         value' \in [Sema -> 0..MaxCount], result' \in [Call -> 0..MaxEvts],
         got' \in [Call -> Call \cup {Null}], nack' \in [Syncer -> NackType],
         outcome' \in OutcomeType
  PROVE  Types'
<1>1. program \in Programs /\ Apart(program)
  BY DEF IInv, Types
<1>2. Apart(program)'
  <2>1. Apart(program')
    BY <1>1
  <2>2. QED BY <2>1
<1>3. QED BY <1>1, <1>2 DEF Types, PcType, NackType, OutcomeType

\* Thread by thread, the invariant holds after a step.
LEMMA FineNext ==
  ASSUME Types', Good(links)', \A u \in Thread : Fine(u)', Met'
  PROVE  IInv'
<1>1. \A t \in Thread : ThreadInv(t)'
  BY DEF Fine
<1>2. \A c \in Call : CallInv(c)'
  BY DEF Fine, Call
<1>3. \A w \in Syncer : SyncerInv(w)'
  BY SyncerIs DEF Fine
<1>4. QED BY <1>1, <1>2, <1>3 DEF IInv

\* A thread calls sync c.
Called(t, c, s) ==
  /\ At(t, c) /\ Out(c) /\ pc[t] = "run" /\ running[t] = {"RUNNING"}
  /\ outcome[c] = "none" /\ result[c] = 0 /\ \A w \in Syncer : CallOf(w) = c => nack[w] = "none"
  /\ s \in Nat /\ s < Len(SyncOf(c).evts)
  /\ program' = program /\ external_break' = external_break
  /\ call'[t] = c[2] /\ \A u \in Thread : u # t => call'[u] = call[u] /\ start'[u] = start[u]
  /\ start'[t] < Len(SyncOf(c).evts)
  /\ call' \in [Thread -> 0..MaxCalls] /\ start' \in [Thread -> 0..(MaxEvts - 1)]
  /\ suspend_break[t] \in Int /\ suspend_break[t] <= 0

\* do_sync starts as Called says.
LEMMA CallsIs ==
  ASSUME IInv, NEW c \in Call, NEW t, t = c[1], NEW s \in 0..(MaxEvts - 1), Calls(t, c, s)
  PROVE  Called(t, c, s)
<1>1. t \in Thread /\ c[2] \in 1..MaxCalls /\ c = <<t, c[2]>> /\ c[2] \in Nat
  BY DEF Call
<1>2. /\ pc[t] = "run" /\ running[t] = {"RUNNING"} /\ c = <<t, call[t] + 1>>
      /\ c[2] <= Len(program[t].syncs) /\ s < Len(SyncOf(c).evts)
      /\ program' = program /\ external_break' = external_break
      /\ call' = [call EXCEPT ![t] = c[2]] /\ start' = [start EXCEPT ![t] = s]
  BY DEF Calls, Runs
<1>3. c[2] = call[t] + 1 /\ call[t] \in Nat
  BY <1>1, <1>2 DEF IInv, Types
<1>4. At(t, c)
  BY <1>1, <1>2, <1>3 DEF At, Made
<1>5. outcome[c] = "none" /\ result[c] = 0
  <2>1. CallInv(c) /\ c[2] > call[c[1]]
    BY <1>1, <1>3 DEF IInv
  <2>2. QED BY <2>1 DEF CallInv
<1>6. \A w \in Syncer : CallOf(w) = c => nack[w] = "none"
  BY <1>5 DEF IInv, SyncerInv, NackInv
<1>7. Out(c)
  <2>1. SUFFICES ASSUME NEW x \in links.in_line, x[1] = c[1] PROVE FALSE
    BY DEF Out
  <2>2. x \in Syncer
    BY GoodIs DEF IInv
  <2>3. pc[x[1]] # "run"
    BY <2>1, <2>2 DEF IInv, SyncerInv, PlaceInv
  <2>4. QED BY <1>2, <2>1, <2>3
<1>8. /\ call' \in [Thread -> 0..MaxCalls] /\ start' \in [Thread -> 0..(MaxEvts - 1)]
      /\ call'[t] = c[2] /\ \A u \in Thread : u # t => call'[u] = call[u] /\ start'[u] = start[u]
      /\ start'[t] < Len(SyncOf(c).evts)
  <2>1. call \in [Thread -> 0..MaxCalls] /\ start \in [Thread -> 0..(MaxEvts - 1)]
    BY DEF IInv, Types
  <2>2. QED BY <1>1, <1>2, <2>1
<1>9. suspend_break[t] \in Int /\ suspend_break[t] <= 0
  <2>1. BreakInv(t) /\ suspend_break[t] \in Int
    BY <1>1 DEF IInv, ThreadInv, Types
  <2>2. QED BY <1>2, <2>1 DEF BreakInv
<1>10. s \in Nat
  OBVIOUS
<1>11. QED BY <1>2, <1>4, <1>5, <1>6, <1>7, <1>8, <1>9, <1>10 DEF Called

\* A thread that is in sync c, and is not gone.
Inside(t, c, how) ==
  /\ At(t, c) /\ pc[t] = how /\ c = Current(t) /\ outcome[c] \in {"going", "killed"}
  /\ outcome[c] # "going" => "KILLED" \in running[t] /\ pc[t] # "wait"
  /\ pc[t] = "wait" \/ outcome[c] # "going" \/ "KILLED" \notin running[t]
  /\ how = "poll" => Deferred(c)
  /\ how = "block" => result[c] = 0 /\ Out(c)
  /\ program' = program /\ call' = call /\ start' = start
  /\ call'[t] = c[2] /\ \A u \in Thread : u # t => call'[u] = call[u] /\ start'[u] = start[u]
  /\ start'[t] < Len(SyncOf(c).evts)
  /\ call' \in [Thread -> 0..MaxCalls] /\ start' \in [Thread -> 0..(MaxEvts - 1)]
  /\ suspend_break[t] \in Int /\ suspend_break[t] <= 1
  /\ suspend_break[t] = 1 => result[c] # 0 /\ SyncOf(c).enable
  /\ result[c] <= Len(SyncOf(c).evts) /\ result[c] \in Nat
  /\ WordInv(t)

\* A thread that is in a sync, and is not gone, is as Inside says.
LEMMA InIs ==
  ASSUME IInv, NEW c \in Call, NEW t, t = c[1], NEW how \in {"wait", "poll", "block"}, In(t, c, how),
         running[t] # {}
  PROVE  Inside(t, c, how)
<1>1. t \in Thread
  BY DEF Call
<1>2. /\ pc[t] = how /\ c = Current(t) /\ program' = program /\ call' = call /\ start' = start /\ pc[t] # "run"
  BY DEF In
<1>3. At(t, c)
  BY <1>1, <1>2, CurrentIs DEF At
<1>4. StageInv(t) /\ BreakInv(t) /\ CallInv(c) /\ WordInv(t)
  BY <1>1 DEF IInv, ThreadInv
<1>5. /\ outcome[c] \in {"going", "killed"}
      /\ outcome[c] # "going" => "KILLED" \in running[t] /\ pc[t] # "wait"
      /\ pc[t] = "wait" \/ outcome[c] # "going" \/ "KILLED" \notin running[t]
      /\ how = "poll" => Deferred(c)
      /\ how = "block" => result[c] = 0
      /\ start'[t] < Len(SyncOf(c).evts)
  BY <1>2, <1>4 DEF StageInv
<1>6. how = "block" => Out(c)
  <2>1. SUFFICES ASSUME how = "block", NEW x \in links.in_line, x[1] = c[1] PROVE FALSE
    BY DEF Out
  <2>2. x \in Syncer
    BY GoodIs DEF IInv
  <2>3. pc[x[1]] # "block"
    BY <2>1, <2>2 DEF IInv, SyncerInv, PlaceInv
  <2>4. QED BY <1>2, <2>1, <2>3
<1>7. call'[t] = c[2]
  BY <1>2 DEF Current
<1>8. /\ call \in [Thread -> 0..MaxCalls] /\ start \in [Thread -> 0..(MaxEvts - 1)]
      /\ suspend_break[t] \in Int /\ result[c] \in 0..MaxEvts
  BY <1>1 DEF IInv, Types
<1>9. /\ suspend_break[t] <= 1
      /\ suspend_break[t] = 1 => result[c] # 0 /\ SyncOf(c).enable
  BY <1>2, <1>4 DEF BreakInv
<1>10. result[c] <= Len(SyncOf(c).evts) /\ result[c] \in Nat
  <2>1. Len(SyncOf(c).evts) \in 1..MaxEvts
    BY <1>3, SyncIs DEF IInv, Types, At
  <2>2. result[c] # 0 => result[c] <= Len(SyncOf(c).evts)
    BY <1>4 DEF CallInv
  <2>3. QED BY <1>8, <2>1, <2>2
<1>11. QED BY <1>2, <1>3, <1>4, <1>5, <1>6, <1>7, <1>8, <1>9, <1>10 DEF Inside

\* Posting the nacks of c, of which the result is chosen, if any.
LEMMA PostedIs ==
  ASSUME IInv, NEW c \in Call, NEW N \in [Syncer -> NackType],
         nack' = NacksPosted(N, {c}, {})
  PROVE  /\ nack' \in [Syncer -> NackType]
         /\ \A w \in Syncer : CallOf(w) # c => nack'[w] = N[w]
         /\ \A w \in Syncer : CallOf(w) = c => nack'[w] = IF N[w] = "made" THEN "posted" ELSE N[w]
<1>1. \A w \in Syncer : nack'[w] = IF N[w] = "made" /\ CallOf(w) = c THEN "posted" ELSE N[w]
  BY DEF NacksPosted
<1>2. \A w \in Syncer : nack'[w] \in NackType
  BY <1>1 DEF NackType
<1>3. nack' \in [Syncer -> NackType]
  BY <1>2 DEF NacksPosted
<1>4. QED BY <1>1, <1>3

\* After that, or when it has been done, they are right.
LEMMA PostedRight ==
  ASSUME IInv, NEW c \in Call, NEW w \in Syncer, CallOf(w) = c, NEW n,
         n = (IF nack[w] = "made" THEN "posted" ELSE nack[w]), n # "none"
  PROVE  Real(w) /\ n = IF w[3] = result[c] THEN "kept" ELSE "posted"
<1>1. NackInv(w) /\ nack[w] \in NackType
  BY DEF IInv, SyncerInv, Types, NackType
<1>2. nack[w] # "none"
  OBVIOUS
<1>3. w[3] # 0
  BY SyncerIs
<1>4. QED BY <1>1, <1>2, <1>3 DEF NackInv, NackType

\* What becomes of suspend_break when c returns.
LEMMA BreaksIs ==
  ASSUME IInv, NEW c \in Call, NEW t, t = c[1], suspend_break' = Breaks({}, c)
  PROVE  /\ suspend_break' \in [Thread -> Int]
         /\ suspend_break'[t] = suspend_break[t] - (IF SyncOf(c).enable THEN 1 ELSE 0)
         /\ \A u \in Thread : u # t => suspend_break'[u] = suspend_break[u]
<1>1. suspend_break \in [Thread -> Int] /\ t \in Thread
  BY DEF IInv, Types, Call
<1>2. \A u \in Thread : suspend_break'[u] = suspend_break[u] + 0 - (IF u = t /\ SyncOf(c).enable THEN 1 ELSE 0)
  BY DEF Breaks
<1>3. \A u \in Thread : suspend_break'[u] \in Int
  BY <1>1, <1>2
<1>4. suspend_break' \in [Thread -> Int]
  BY <1>3 DEF Breaks
<1>5. QED BY <1>1, <1>2, <1>4

\* The choices that a sync makes.
LEMMA MeetChosen ==
  ASSUME IInv, NEW c \in Call, Made(c), Out(c), NEW p, OneReady(p, c), p.taker # Null,
         NEW N \in [Syncer -> NackType], Choose({p.ready, p.taker}, N, c)
  PROVE  /\ Chosen({p.ready, p.taker}, N, c)
         /\ p.ready \in OfCall(c) /\ p.ready \in Syncer /\ p.ready[1] = c[1]
         /\ p.taker \in Syncer /\ p.taker[1] # c[1]
<1>1. PICK v, w : v = p.ready /\ w = p.taker
  OBVIOUS
<1>2. /\ v \in OfCall(c) /\ w \in links.in_line /\ CallOf(w) # c
      /\ w[1] # c[1]
  BY <1>1 DEF OneReady, Out
<1>3. w \in Syncer /\ v \in Syncer /\ CallOf(v) = c /\ v[1] = c[1]
  BY <1>2, SyncerIs, GoodIs DEF IInv, OfCall
<1>4. PICK chosen : chosen = {v, w}
  OBVIOUS
<1>5. chosen \in SUBSET Syncer /\ Choose(chosen, N, c)
  BY <1>1, <1>3, <1>4
<1>6. \A x \in chosen, y \in chosen : x[1] = y[1] => x = y
  BY <1>2, <1>3, <1>4
<1>7. \A x \in chosen : \E y \in chosen : CallOf(y) # CallOf(x)
  BY <1>2, <1>3, <1>4
<1>8. Chosen(chosen, N, c)
  BY <1>5, <1>6, <1>7, ChooseIs
<1>9. QED BY <1>1, <1>2, <1>3, <1>4, <1>8

\* One that takes a post is chosen for.
LEMMA TakeChosen ==
  ASSUME IInv, NEW c \in Call, NEW v \in OfCall(c), OnSema(v),
         NEW N \in [Syncer -> NackType], Choose({v}, N, c)
  PROVE  Chosen({v}, N, c)
<1>1. PICK chosen : chosen = {v}
  OBVIOUS
<1>2. chosen \in SUBSET Syncer /\ Choose(chosen, N, c)
  BY <1>1 DEF OfCall
<1>3. \A x \in chosen : EvtOf(x).kind # "get"
  BY <1>1 DEF OnSema
<1>4. \A x \in chosen, y \in chosen : x[1] = y[1] => x = y
  BY <1>1
<1>5. Chosen(chosen, N, c)
  BY <1>2, <1>3, <1>4, ChooseIs
<1>6. QED BY <1>1, <1>5

\* The post that a sync takes.
LEMMA PostTakenIs ==
  ASSUME IInv, NEW v \in Syncer, Real(v), OnSema(v) => Posted(v), value' = PostTaken(v)
  PROVE  /\ value' \in [Sema -> 0..MaxCount]
         /\ \A s \in Sema : value[s] = 0 => value'[s] = 0
<1>1. value \in [Sema -> 0..MaxCount] /\ program \in Programs
  BY DEF IInv, Types
<1>2. CASE EvtOf(v).kind = "sema"
  <2>1. OnSema(v)
    BY <1>2 DEF OnSema
  <2>2. EvtOf(v).on \in Sema /\ value[EvtOf(v).on] > 0
    BY <1>1, <2>1, EvtIs DEF Posted
  <2>3. value' = [value EXCEPT ![EvtOf(v).on] = value[EvtOf(v).on] - 1]
    BY <1>2 DEF PostTaken
  <2>4. value[EvtOf(v).on] - 1 \in 0..MaxCount
    BY <1>1, <2>2, ConstantsAssumption
  <2>5. QED BY <1>1, <2>2, <2>3, <2>4
<1>3. CASE EvtOf(v).kind # "sema"
  BY <1>1, <1>3 DEF PostTaken
<1>4. QED BY <1>2, <1>3

\* The nacks that a first poll makes.
LEMMA MadeIs ==
  ASSUME IInv, NEW c \in Call, NEW S \in SUBSET OfCall(c),
         \A w \in Syncer : CallOf(w) = c => nack[w] = "none"
  PROVE  /\ NacksMade(c, S) \in [Syncer -> NackType]
         /\ NewNacks(NacksMade(c, S), c)
<1>1. nack \in [Syncer -> NackType]
  BY DEF IInv, Types, NackType
<1>2. \A w \in Syncer : NacksMade(c, S)[w] = IF SyncOf(c).nacks /\ w \in S THEN "made" ELSE nack[w]
  BY DEF NacksMade
<1>3. \A w \in Syncer : NacksMade(c, S)[w] \in NackType
  BY <1>1, <1>2 DEF NackType
<1>4. NacksMade(c, S) \in [Syncer -> NackType]
  BY <1>3 DEF NacksMade
<1>5. \A w \in S : CallOf(w) = c /\ Real(w)
  BY DEF OfCall
<1>6. QED BY <1>2, <1>4, <1>5 DEF NewNacks

\* Nacks that a poll after a signal finds.
LEMMA StillMade ==
  ASSUME IInv, NEW c \in Call, outcome[c] = "going", result[c] = 0, "KILLED" \notin running[c[1]]
  PROVE  NewNacks(nack, c)
<1>1. SUFFICES ASSUME NEW w \in Syncer, CallOf(w) = c, nack[w] # "none"
               PROVE  Real(w) /\ nack[w] = "made"
  BY DEF NewNacks
<1>2. NackInv(w) /\ w[1] = c[1]
  BY <1>1, SyncerIs DEF IInv, SyncerInv
<1>3. QED BY <1>1, <1>2 DEF NackInv

\* Return.
LEMMA ReturnIs ==
  ASSUME IInv, NEW c \in Call, NEW t, t = c[1],
         NEW how \in {"evt", "false", "break", "killed"}, Return(c, how)
  PROVE  /\ pc' = [pc EXCEPT ![t] = "run"] /\ outcome' = [outcome EXCEPT ![c] = how]
         /\ pc' \in PcType /\ outcome' \in OutcomeType /\ t \in Thread
         /\ pc'[t] = "run" /\ \A u \in Thread : u # t => pc'[u] = pc[u]
         /\ outcome'[c] = how /\ \A d \in Call : d # c => outcome'[d] = outcome[d]
         /\ Elsewhere(t)
<1>1. pc \in PcType /\ outcome \in OutcomeType /\ t \in Thread
  BY DEF IInv, Types, PcType, OutcomeType, Call
<1>2. pc' = [pc EXCEPT ![t] = "run"] /\ outcome' = [outcome EXCEPT ![c] = how]
  BY DEF Return
<1>3. pc' \in PcType
  BY <1>1, <1>2 DEF PcType
<1>4. outcome' \in OutcomeType
  BY <1>1, <1>2 DEF OutcomeType
<1>5. /\ pc'[t] = "run" /\ \A u \in Thread : u # t => pc'[u] = pc[u]
      /\ outcome'[c] = how /\ \A d \in Call : d # c => outcome'[d] = outcome[d]
  BY <1>1, <1>2 DEF PcType, OutcomeType
<1>6. QED BY <1>1, <1>2, <1>3, <1>4, <1>5 DEF Elsewhere

-----------------------------------------------------------------------------
\* A sync finds an event ready at once.
LEMMA AtOnce ==
  ASSUME IInv, NEW c \in Call, NEW t, t = c[1], NEW s \in 0..(MaxEvts - 1), SyncAtOnce(t, c, s)
  PROVE  IInv'
<1>1. PICK p : p = Poll(c, s, TRUE)
  OBVIOUS
<1>2. /\ Calls(t, c, s) /\ p.ready # Null
      /\ links' = Leave(p.links, c) /\ value' = PostTaken(p.ready)
      /\ Choose({p.ready, p.taker} \ {Null}, NacksMade(c, p.seen), c)
      /\ Return(c, "evt")
  BY <1>1 DEF SyncAtOnce
<1>3. /\ At(t, c) /\ Out(c) /\ pc[t] = "run" /\ running[t] = {"RUNNING"}
      /\ \A w \in Syncer : CallOf(w) = c => nack[w] = "none"
      /\ s \in Nat /\ s < Len(SyncOf(c).evts)
      /\ program' = program /\ external_break' = external_break
      /\ call'[t] = c[2] /\ \A u \in Thread : u # t => call'[u] = call[u] /\ start'[u] = start[u]
      /\ call' \in [Thread -> 0..MaxCalls] /\ start' \in [Thread -> 0..(MaxEvts - 1)]
  <2>1. Called(t, c, s)
    BY <1>2, CallsIs
  <2>2. QED BY <2>1 DEF Called
<1>4. Made(c)
  BY <1>3 DEF At
<1>5. OneReady(p, c)
  <2>1. PollStage(p, c, TRUE, OfCall(c))
    BY <1>1, <1>3, <1>4, PollIs
  <2>2. QED BY <1>2, <2>1 DEF PollStage
<1>6. PICK v, N : v = p.ready /\ N = NacksMade(c, p.seen)
  OBVIOUS
<1>7. v \in OfCall(c) /\ Good(p.links) /\ p.seen \in SUBSET OfCall(c)
  BY <1>5, <1>6 DEF OneReady
<1>8. v \in Syncer /\ Real(v) /\ CallOf(v) = c /\ v[1] = t /\ v # Null
  BY <1>7, SyncerIs DEF OfCall
<1>9. N \in [Syncer -> NackType] /\ NewNacks(N, c)
  BY <1>3, <1>6, <1>7, MadeIs
<1>10. Good(Leave(p.links, c)) /\ links'.in_line = p.links.in_line \ OfCall(c)
  BY <1>2, <1>4, <1>7, LeaveGood DEF IInv, Types
<1>11. Good(links)'
  BY <1>2, <1>3, <1>10, GoodNext
<1>12. /\ pc' \in PcType /\ outcome' \in OutcomeType /\ t \in Thread
       /\ pc' = [pc EXCEPT ![t] = "run"] /\ outcome' = [outcome EXCEPT ![c] = "evt"]
       /\ \A u \in Thread : u # t => pc'[u] = pc[u]
       /\ Elsewhere(t)
  BY <1>2, ReturnIs
<1>13. Apartly(t)
  BY <1>3, <1>12 DEF Apartly
<1>14. \A x \in OfCall(c) : x[1] = t
  BY SyncerIs DEF OfCall
<1>15. PlacesAs(p.links, t)
  BY <1>10, <1>14 DEF PlacesAs
<1>16. OutNext(t)
  <2>1. SUFFICES ASSUME NEW w \in links'.in_line, w[1] = t PROVE FALSE
    BY DEF OutNext
  <2>2. w \in links.in_line
    BY <1>5, <1>10, <2>1 DEF OneReady
  <2>3. QED BY <1>3, <2>1, <2>2 DEF Out
<1>23. Ends1(t, c)
  BY <1>3, <1>12, <1>16 DEF Ends1
<1>17. OnSema(v) => Posted(v)
  BY <1>5, <1>6 DEF OneReady
<1>18. value' \in [Sema -> 0..MaxCount] /\ \A x \in Sema : value[x] = 0 => value'[x] = 0
  BY <1>2, <1>6, <1>8, <1>17, PostTakenIs
<1>19. external_break' \in [Thread -> BOOLEAN]
  BY <1>3 DEF IInv, Types
<1>24. Met'
  BY <1>3, <1>5, <1>10, <1>11, <1>18, MetStays DEF OneReady
<1>20. CASE p.taker # Null
  <2>1. {p.ready, p.taker} \ {Null} = {p.ready, p.taker}
    BY <1>6, <1>8, <1>20
  <2>2. Choose({p.ready, p.taker}, N, c)
    BY <1>2, <1>6, <2>1
  <2>3. /\ Chosen({p.ready, p.taker}, N, c)
        /\ p.taker \in Syncer /\ p.taker[1] # t
    BY <1>3, <1>4, <1>5, <1>9, <1>20, <2>2, MeetChosen
  <2>4. \A u \in Thread : u # t => Fine(u)'
    BY <1>3, <1>5, <1>9, <1>12, <1>13, <1>15, <1>20, <2>3, MeetFine
  <2>5. PICK chosen : chosen = {p.ready, p.taker}
    OBVIOUS
  <2>6. /\ chosen \in SUBSET Syncer /\ Chosen(chosen, N, c) /\ v \in chosen
        /\ \A x \in chosen : x[1] = t => x = v
    BY <1>6, <1>8, <2>3, <2>5
  <2>7. Fine(t)'
    BY <1>3, <1>7, <1>9, <1>23, <2>6, ChooserOver
  <2>8. Types'
    BY <1>3, <1>12, <1>18, <1>19, <2>6, TypesNext DEF Chosen
  <2>9. QED BY <1>11, <2>4, <2>7, <2>8, <1>24, FineNext
<1>21. CASE p.taker = Null
  <2>1. {p.ready, p.taker} \ {Null} = {v}
    BY <1>6, <1>8, <1>21
  <2>2. Posted(v) /\ Within(p.links, c)
    BY <1>5, <1>6, <1>21 DEF OneReady
  <2>3. OnSema(v) /\ Choose({v}, N, c)
    BY <1>2, <1>6, <2>1, <2>2 DEF Posted
  <2>4. Chosen({v}, N, c)
    BY <1>7, <1>9, <2>3, TakeChosen
  <2>5. PlacesKept(t)
    <3>1. SUFFICES ASSUME NEW u \in Thread, u # t, NEW x \in Syncer, x[1] = u
                   PROVE  /\ x \in links'.in_line => x \in links.in_line
                          /\ x \in links.in_line /\ x \notin links'.in_line => ~CanTake(x)
      BY DEF SamePlaces, PlacesKept
    <3>2. QED BY <1>14, <1>15, <2>2, <3>1 DEF Within, PlacesAs
  <2>6. \A u \in Thread : u # t => Fine(u)'
    BY <1>3, <1>7, <1>9, <1>12, <1>13, <2>4, <2>5, TakeFine
  <2>7. Fine(t)'
    <3>1. PICK chosen : chosen = {v}
      OBVIOUS
    <3>2. /\ chosen \in SUBSET Syncer /\ Chosen(chosen, N, c) /\ v \in chosen
          /\ \A x \in chosen : x[1] = t => x = v
      BY <1>8, <2>4, <3>1
    <3>3. QED BY <1>3, <1>7, <1>9, <1>23, <3>2, ChooserOver
  <2>8. Types'
    BY <1>3, <1>12, <1>18, <1>19, <2>4, TypesNext DEF Chosen
  <2>9. QED BY <1>11, <2>6, <2>7, <2>8, <1>24, FineNext
<1>22. QED BY <1>20, <1>21

\* What a step of thread t does not do to the others, and to other syncs.
Others(t) ==
  \A u \in Thread : u # t =>
    /\ call'[u] = call[u] /\ running'[u] = running[u] /\ start'[u] = start[u]
    /\ external_break'[u] = external_break[u] /\ suspend_break'[u] = suspend_break[u]

OtherPcs(t) == \A u \in Thread : u # t => pc'[u] = pc[u]

OtherSyncs(c) ==
  /\ result' = result
  /\ \A d \in Call : d # c => outcome'[d] = outcome[d]
  /\ \A w \in Syncer : CallOf(w) # c => nack'[w] = nack[w]

NacksOver(c) ==
  \A w \in Syncer : CallOf(w) = c /\ nack'[w] # "none" =>
    Real(w) /\ nack'[w] = IF w[3] = result[c] THEN "kept" ELSE "posted"

BreaksOver(t) ==
  /\ suspend_break'[t] \in Int /\ suspend_break'[t] >= suspend_break[t] - 1
  /\ suspend_break'[t] <= 0 \/ (running'[t] = {} /\ suspend_break'[t] <= 1)

\* A step of t that chooses for nobody else leaves the others as they should be.
LEMMA QuietFine ==
  ASSUME IInv, program' = program, NEW t, NEW c, At(t, c), Others(t), OtherPcs(t), OtherSyncs(c),
         PlacesKept(t)
  PROVE  \A u \in Thread : u # t => Fine(u)'
<1>1. c[1] = t
  BY DEF At
<1>2. ASSUME NEW u \in Thread, u # t
      PROVE  SameThread(u) /\ SameCalls(u) /\ SameNacks(u) /\ SamePlaces(u)
  <2>1. SameThread(u) /\ SamePlaces(u)
    BY <1>2 DEF SameThread, Others, OtherPcs, PlacesKept
  <2>2. SameCalls(u)
    BY <1>1, <1>2 DEF SameCalls, OtherSyncs
  <2>3. SameNacks(u)
    BY <1>1, <1>2, SyncerIs DEF SameNacks, OtherSyncs
  <2>4. QED BY <2>1, <2>2, <2>3
<1>3. QED BY <1>2, RestFine DEF Rest

\* A sync that ends without a choice of its own.
LEMMA EndedFine ==
  ASSUME IInv, program' = program, NEW t, NEW c, At(t, c), Others(t), OtherSyncs(c), PlacesKept(t),
         NEW how \in {"evt", "false", "break", "killed"}, Return(c, how), how = "evt" => result[c] # 0,
         call'[t] = c[2], NacksOver(c), OutNext(t), BreaksOver(t), WordInv(t)'
  PROVE  /\ \A u \in Thread : Fine(u)'
         /\ pc' \in PcType /\ outcome' \in OutcomeType
<1>1. c \in Call /\ t = c[1] /\ Made(c)
  BY DEF At
<1>2. /\ pc'[t] = "run" /\ OtherPcs(t) /\ outcome'[c] = how
      /\ pc' \in PcType /\ outcome' \in OutcomeType
  BY <1>1, ReturnIs DEF OtherPcs
<1>3. Steps(t, c)
  BY <1>1 DEF Steps, OtherSyncs
<1>4. result[c] \in 0..Len(SyncOf(c).evts)
  <2>1. result[c] \in Nat /\ program \in Programs /\ CallInv(c)
    BY <1>1, ConstantsAssumption DEF IInv, Types
  <2>2. Len(SyncOf(c).evts) \in Nat
    BY <1>1, <2>1, SyncIs
  <2>3. QED BY <2>1, <2>2 DEF CallInv
<1>5. Over(t, c)
  <2>1. result' = result
    BY DEF OtherSyncs
  <2>2. /\ pc'[t] = "run"
        /\ outcome'[c] \in {"evt", "false", "break", "killed"}
        /\ result'[c] \in 0..Len(SyncOf(c).evts)
        /\ outcome'[c] = "evt" => result'[c] # 0
    BY <1>2, <1>4, <2>1
  <2>3. \A w \in Syncer : CallOf(w) = c /\ nack'[w] # "none" =>
          Real(w) /\ nack'[w] = IF w[3] = result'[c] THEN "kept" ELSE "posted"
    BY <2>1 DEF NacksOver
  <2>4. \A w \in links'.in_line : w[1] # t
    BY DEF OutNext
  <2>5. QED BY <2>2, <2>3, <2>4 DEF Over, BreaksOver
<1>6. Fine(t)'
  BY <1>3, <1>5, OverFine DEF BreaksOver
<1>7. QED BY <1>2, <1>6, QuietFine

\* A sync that goes on.
LEMMA GoingFine ==
  ASSUME IInv, program' = program, NEW t, NEW c, At(t, c), Others(t), OtherPcs(t), OtherSyncs(c),
         PlacesKept(t), call'[t] = c[2], GoesOn(t, c), WordInv(t)', result[c] = 0
  PROVE  \A u \in Thread : Fine(u)'
<1>1. Steps(t, c)
  BY DEF Steps, OtherSyncs, At
<1>2. Fine(t)'
  BY <1>1, GoesOnFine
<1>3. QED BY <1>2, QuietFine

\* Lines that nobody but t, and those that cannot be taken, has left.
LEMMA WithinKept ==
  ASSUME IInv, NEW c \in Call, NEW t, t = c[1], NEW L, Within(L, c), PlacesAs(L, t)
  PROVE  PlacesKept(t)
<1>1. \A x \in OfCall(c) : x[1] = t
  BY SyncerIs DEF OfCall
<1>2. SUFFICES ASSUME NEW u \in Thread, u # t, NEW x \in Syncer, x[1] = u
               PROVE  /\ x \in links'.in_line => x \in links.in_line
                      /\ x \in links.in_line /\ x \notin links'.in_line => ~CanTake(x)
  BY DEF SamePlaces, PlacesKept
<1>3. QED BY <1>1, <1>2 DEF Within, PlacesAs

\* The lines themselves are such.
LEMMA LinksWithin ==
  ASSUME IInv, NEW c
  PROVE  Within(links, c)
BY DEF Within, IInv

\* The thread leaves its lines.
LEMMA LeftIs ==
  ASSUME IInv, NEW c \in Call, NEW t, At(t, c), NEW L, Within(L, c), links' = Leave(L, c), program' = program
  PROVE  /\ Good(links)' /\ PlacesKept(t) /\ OutNext(t)
         /\ \A x \in links'.in_line : x \in links.in_line
<1>1. Made(c) /\ c[1] = t /\ program \in Programs
  BY DEF At, IInv, Types
<1>2. Good(L)
  BY DEF Within
<1>3. Good(Leave(L, c)) /\ Leave(L, c).in_line = L.in_line \ OfCall(c)
  BY <1>1, <1>2, LeaveGood
<1>4. Good(links)'
  BY <1>3, GoodNext
<1>5. \A x \in Syncer : x \in OfCall(c) => x[1] = t
  BY <1>1, SyncerIs DEF OfCall
<1>6. PlacesAs(L, t)
  BY <1>3, <1>5 DEF PlacesAs
<1>7. PlacesKept(t)
  BY <1>1, <1>6, WithinKept
<1>8. OutNext(t)
  <2>1. SUFFICES ASSUME NEW x \in links'.in_line, x[1] = t PROVE FALSE
    BY DEF OutNext
  <2>2. x \in L.in_line /\ x \notin OfCall(c)
    BY <1>3, <2>1
  <2>3. x \in Syncer /\ Real(x) /\ x \in links.in_line
    BY <1>2, <2>2, GoodIs DEF Within
  <2>4. CallOf(x) = Current(t) /\ pc[t] # "run"
    BY <2>1, <2>3 DEF IInv, SyncerInv, PlaceInv
  <2>5. CallOf(x) = c
    BY <2>4 DEF At
  <2>6. QED BY <2>2, <2>3, <2>5 DEF OfCall
<1>9. \A x \in links'.in_line : x \in links.in_line
  BY <1>3 DEF Within
<1>10. QED BY <1>4, <1>7, <1>8, <1>9

\* A polled thread leaves the lines of its channels.
LEMMA PollTakeable ==
  ASSUME IInv, NEW c \in Call, Made(c), NEW t, c[1] = t, c = Current(t), pc[t] # "run",
         result[c] = 0 \/ program[t].signals # {}
  PROVE  Takeable(links, c)
<1>1. t \in Thread
  BY DEF Call
<1>2. OneSync(links, c)
  <2>1. \A x \in links.in_line : CallOf(x) = Current(x[1])
    BY GoodIs DEF IInv, SyncerInv, PlaceInv
  <2>2. QED BY <2>1 DEF OneSync
<1>3. ASSUME Polling(c)
      PROVE  /\ Deferred(c)
             /\ \/ program[t].signals # {}
                \/ \A w \in OfCall(c) : OnSema(w) \/ w \in links.in_line
  <2>1. pc[t] = "poll"
    BY <1>3 DEF Polling
  <2>2. Deferred(c)
    BY <1>1, <2>1 DEF IInv, ThreadInv, StageInv
  <2>3. ASSUME program[t].signals = {}, NEW w \in OfCall(c), ~OnSema(w)
        PROVE  w \in links.in_line
    <3>1. w \in Syncer /\ Real(w) /\ CallOf(w) = c /\ w[1] = t
      BY SyncerIs DEF OfCall
    <3>2. result[c] = 0
      BY <2>3
    <3>3. QED BY <2>1, <2>3, <3>1, <3>2, KeptIs
  <2>4. QED BY <2>2, <2>3
<1>4. QED BY <1>2, <1>3 DEF Takeable

\* The lines after scheme_post_syncing_nacks.
LEMMA NackedIs ==
  ASSUME IInv, program' = program, NEW c \in Call, Made(c), NEW t, c[1] = t, c = Current(t), pc[t] # "run",
         result[c] = 0 \/ program[t].signals # {}, links' = OutByNacks(links, c, result[c])
  PROVE  /\ Good(links)' /\ PlacesKept(t) /\ (pc[t] = "poll" \/ pc[t] = "block" => OutNext(t))
         /\ \A w \in links'.in_line : w \in links.in_line
<1>1. program \in Programs /\ Apart(program) /\ Good(links)
  BY DEF IInv, Types
<1>2. Takeable(links, c)
  BY PollTakeable
<1>3. PICK r : r = result[c]
  OBVIOUS
<1>4. Good(OutByNacks(links, c, r)) /\ OutByNacks(links, c, r).in_line = links.in_line \ PollSyncers(c, r)
  BY <1>1, <1>2, OutByNacksGood
<1>5. PollSyncers(c, r) \in SUBSET OfCall(c)
  BY <1>1, PollSyncersIs
<1>6. Good(links)' /\ links'.in_line = links.in_line \ PollSyncers(c, r)
  BY <1>3, <1>4, GoodNext
<1>7. \A x \in Syncer : x \in OfCall(c) => x[1] = t
  BY SyncerIs DEF OfCall
<1>8. PlacesAs(links, t)
  BY <1>5, <1>6, <1>7 DEF PlacesAs
<1>9. PlacesKept(t)
  BY <1>8, LinksWithin, WithinKept
<1>10. ASSUME pc[t] = "poll" \/ pc[t] = "block" PROVE OutNext(t)
  <2>1. SUFFICES ASSUME NEW x \in links'.in_line, x[1] = t PROVE FALSE
    BY DEF OutNext
  <2>2. x \in links.in_line /\ x \notin PollSyncers(c, r)
    BY <1>6, <2>1
  <2>3. x \in Syncer /\ Real(x)
    BY <1>1, <2>2, GoodIs
  <2>4. CallOf(x) = c /\ pc[t] = "poll" /\ ~OnSema(x) /\ result[c] = 0
    BY <1>10, <2>1, <2>2, <2>3 DEF IInv, SyncerInv, PlaceInv
  <2>5. Polling(c)
    BY <2>4 DEF Polling, Current
  <2>6. x \in OfCall(c)
    BY <2>3, <2>4 DEF OfCall
  <2>7. x[3] = r
    BY <1>1, <2>2, <2>4, <2>5, <2>6, PollSyncersIs
  <2>8. QED BY <1>3, <2>3, <2>4, <2>7, SyncerIs
<1>11. QED BY <1>6, <1>9, <1>10

\* The rest of the types.
LEMMA TypesIs ==
  ASSUME IInv
  PROVE  /\ call \in [Thread -> 0..MaxCalls] /\ pc \in PcType
         /\ start \in [Thread -> 0..(MaxEvts - 1)] /\ running \in [Thread -> SUBSET Flag]
         /\ external_break \in [Thread -> BOOLEAN] /\ suspend_break \in [Thread -> Int]
         /\ value \in [Sema -> 0..MaxCount] /\ result \in [Call -> 0..MaxEvts]
         /\ got \in [Call -> Call \cup {Null}] /\ nack \in [Syncer -> NackType]
         /\ outcome \in OutcomeType
BY DEF IInv, Types, PcType, NackType, OutcomeType

\* The word of a thread that runs, or is to, in a sync that is over.
LEMMA WordRuns ==
  ASSUME NEW t, WordInv(t), program' = program, pc'[t] = "run",
         external_break'[t] => external_break[t],
         running'[t] = running[t] \ {"NEED_KILL_CLEANUP"}, "RUNNING" \in running[t]
  PROVE  WordInv(t)'
BY DEF WordInv

\* A first poll that finds nothing.
LEMMA FirstPoll ==
  ASSUME IInv, NEW c \in Call, NEW t, t = c[1], NEW s \in 0..(MaxEvts - 1), Called(t, c, s),
         NEW p, p = Poll(c, s, TRUE), p.ready = Null
  PROVE  /\ Within(p.links, c) /\ NoneReady(p, c, TRUE, OfCall(c))
         /\ \A w \in p.links.in_line : w[1] = t => w \in OfCall(c) /\ ~OnSema(w)
         /\ \A w \in OfCall(c) : ~OnSema(w) => w \in p.links.in_line
         /\ NacksMade(c, p.seen) \in [Syncer -> NackType] /\ NewNacks(NacksMade(c, p.seen), c)
<1>1. Made(c) /\ Out(c) /\ s \in Nat /\ s < Len(SyncOf(c).evts)
      /\ \A w \in Syncer : CallOf(w) = c => nack[w] = "none"
  BY DEF Called, At
<1>2. PollStage(p, c, TRUE, OfCall(c))
  BY <1>1, PollIs
<1>3. NoneReady(p, c, TRUE, OfCall(c))
  BY <1>2 DEF PollStage
<1>4. /\ Within(p.links, c) /\ p.seen = OfCall(c)
      /\ p.links.in_line \in SUBSET (links.in_line \cup {w \in OfCall(c) : ~OnSema(w)})
      /\ \A w \in OfCall(c) : ~OnSema(w) => w \in p.links.in_line
  BY <1>3 DEF NoneReady
<1>5. \A w \in p.links.in_line : w[1] = t => w \in OfCall(c) /\ ~OnSema(w)
  BY <1>1, <1>4 DEF Out
<1>6. NacksMade(c, p.seen) \in [Syncer -> NackType] /\ NewNacks(NacksMade(c, p.seen), c)
  BY <1>1, <1>4, MadeIs
<1>7. QED BY <1>3, <1>4, <1>5, <1>6

\* The timeout is 0.
LEMMA TimesOut ==
  ASSUME IInv, NEW c \in Call, NEW t, t = c[1], NEW s \in 0..(MaxEvts - 1), SyncTimesOut(t, c, s)
  PROVE  IInv'
<1>1. PICK p, N : p = Poll(c, s, TRUE) /\ N = NacksMade(c, p.seen)
  OBVIOUS
<1>2. /\ Calls(t, c, s) /\ p.ready = Null
      /\ links' = Leave(p.links, c) /\ nack' = NacksPosted(N, {c}, {})
      /\ suspend_break' = Breaks({}, c) /\ Return(c, "false")
      /\ result' = result /\ got' = got /\ running' = running /\ value' = value
  BY <1>1 DEF SyncTimesOut, NothingChosen
<1>3. Called(t, c, s)
  BY <1>2, CallsIs
<1>4. /\ At(t, c) /\ pc[t] = "run" /\ running[t] = {"RUNNING"}
      /\ program' = program /\ external_break' = external_break
      /\ result[c] = 0
      /\ start'[t] < Len(SyncOf(c).evts)
      /\ call'[t] = c[2] /\ \A u \in Thread : u # t => call'[u] = call[u] /\ start'[u] = start[u]
      /\ call' \in [Thread -> 0..MaxCalls] /\ start' \in [Thread -> 0..(MaxEvts - 1)]
      /\ suspend_break[t] \in Int /\ suspend_break[t] <= 0
  BY <1>3 DEF Called
<1>5. Within(p.links, c) /\ N \in [Syncer -> NackType] /\ NewNacks(N, c)
  BY <1>1, <1>2, <1>3, FirstPoll
<1>6. /\ nack' \in [Syncer -> NackType]
      /\ \A w \in Syncer : CallOf(w) # c => nack'[w] = N[w]
      /\ \A w \in Syncer : CallOf(w) = c => nack'[w] = IF N[w] = "made" THEN "posted" ELSE N[w]
  BY <1>2, <1>5, PostedIs
<1>7. Good(links)' /\ PlacesKept(t) /\ OutNext(t) /\ \A x \in links'.in_line : x \in links.in_line
  BY <1>2, <1>4, <1>5, LeftIs
<1>8. /\ suspend_break' \in [Thread -> Int]
      /\ suspend_break'[t] = suspend_break[t] - (IF SyncOf(c).enable THEN 1 ELSE 0)
      /\ \A u \in Thread : u # t => suspend_break'[u] = suspend_break[u]
  BY <1>2, BreaksIs
<1>9. Others(t)
  BY <1>2, <1>4, <1>8 DEF Others
<1>10. NacksOver(c)
  BY <1>4, <1>5, <1>6, SyncerIs DEF NacksOver, NewNacks
<1>11. BreaksOver(t)
  BY <1>4, <1>8 DEF BreaksOver
<1>12. t \in Thread /\ pc'[t] = "run" /\ \A d \in Call : d # c => outcome'[d] = outcome[d]
  BY <1>2, ReturnIs
<1>13. OtherSyncs(c)
  BY <1>2, <1>5, <1>6, <1>12 DEF OtherSyncs, NewNacks
<1>14. WordInv(t)'
  <2>1. WordInv(t)
    BY <1>12 DEF IInv, ThreadInv
  <2>2. QED BY <1>2, <1>4, <1>12, <2>1, WordRuns
<1>15. /\ \A u \in Thread : Fine(u)'
       /\ pc' \in PcType /\ outcome' \in OutcomeType
  BY <1>2, <1>4, <1>7, <1>9, <1>10, <1>11, <1>13, <1>14, EndedFine
<1>16. Types'
  BY <1>2, <1>4, <1>6, <1>8, <1>15, TypesIs, TypesNext
<1>17. Met'
  BY <1>2, <1>4, <1>7, MetStays
<1>18. QED BY <1>7, <1>15, <1>16, <1>17, FineNext

\* It leaves it to the scheduler to poll.
LEMMA PollsNext ==
  ASSUME IInv, NEW c \in Call, NEW t, t = c[1], NEW s \in 0..(MaxEvts - 1), SyncPolls(t, c, s)
  PROVE  IInv'
<1>1. PICK p, N : p = Poll(c, s, TRUE) /\ N = NacksMade(c, p.seen)
  OBVIOUS
<1>2. /\ Calls(t, c, s) /\ p.ready = Null /\ Deferred(c)
      /\ links' = p.links /\ nack' = N
      /\ pc' = [pc EXCEPT ![t] = "poll"] /\ outcome' = [outcome EXCEPT ![c] = "going"]
      /\ result' = result /\ got' = got /\ running' = running /\ value' = value
      /\ suspend_break' = suspend_break
  BY <1>1 DEF SyncPolls, NothingChosen
<1>3. Called(t, c, s)
  BY <1>2, CallsIs
<1>4. /\ At(t, c) /\ pc[t] = "run" /\ running[t] = {"RUNNING"}
      /\ program' = program /\ external_break' = external_break
      /\ result[c] = 0
      /\ start'[t] < Len(SyncOf(c).evts)
      /\ call'[t] = c[2] /\ \A u \in Thread : u # t => call'[u] = call[u] /\ start'[u] = start[u]
      /\ call' \in [Thread -> 0..MaxCalls] /\ start' \in [Thread -> 0..(MaxEvts - 1)]
  BY <1>3 DEF Called
<1>5. /\ Within(p.links, c) /\ N \in [Syncer -> NackType] /\ NewNacks(N, c)
      /\ NoneReady(p, c, TRUE, OfCall(c))
      /\ \A w \in p.links.in_line : w[1] = t => w \in OfCall(c) /\ ~OnSema(w)
      /\ \A w \in OfCall(c) : ~OnSema(w) => w \in p.links.in_line
  BY <1>1, <1>2, <1>3, FirstPoll
<1>6. Good(links)'
  BY <1>2, <1>4, <1>5, GoodNext DEF Within
<1>7. PlacesKept(t)
  BY <1>2, <1>5, WithinKept DEF PlacesAs
<1>8. t \in Thread /\ pc \in PcType /\ outcome \in OutcomeType
  BY TypesIs DEF Call
<1>9. /\ pc' \in PcType /\ outcome' \in OutcomeType
      /\ pc'[t] = "poll" /\ \A u \in Thread : u # t => pc'[u] = pc[u]
      /\ outcome'[c] = "going" /\ \A d \in Call : d # c => outcome'[d] = outcome[d]
  BY <1>2, <1>8 DEF PcType, OutcomeType
<1>10. Others(t) /\ OtherPcs(t) /\ OtherSyncs(c)
  BY <1>2, <1>4, <1>5, <1>9 DEF Others, OtherPcs, OtherSyncs, NewNacks
<1>11. GoesOn(t, c)
  BY <1>2, <1>4, <1>5, <1>9 DEF GoesOn, NewNacks
<1>12. WordInv(t)'
  <2>1. WordInv(t)
    BY <1>8 DEF IInv, ThreadInv
  <2>2. QED BY <1>2, <1>4, <1>9, <2>1 DEF WordInv
<1>13. \A u \in Thread : Fine(u)'
  BY <1>4, <1>7, <1>10, <1>11, <1>12, GoingFine
<1>14. Types'
  BY <1>2, <1>4, <1>5, <1>9, TypesIs, TypesNext
<1>15. Met'
  BY <1>2, <1>4, <1>5, <1>6, MetJoins
<1>16. QED BY <1>6, <1>13, <1>14, <1>15, FineNext

\* A thread sleeps.
LEMMA SleepIs ==
  ASSUME IInv, NEW t \in Thread, Sleep(t)
  PROVE  /\ pc' \in PcType /\ running' \in [Thread -> SUBSET Flag]
         /\ pc'[t] = "wait" /\ \A u \in Thread : u # t => pc'[u] = pc[u]
         /\ running'[t] = running[t] \cup {"NEED_KILL_CLEANUP", "SUSPENDED"}
         /\ \A u \in Thread : u # t => running'[u] = running[u]
<1>1. pc \in PcType /\ running \in [Thread -> SUBSET Flag]
  BY TypesIs
<1>2. /\ pc' = [pc EXCEPT ![t] = "wait"]
      /\ running' = [running EXCEPT ![t] = running[t] \cup {"NEED_KILL_CLEANUP", "SUSPENDED"}]
  BY DEF Sleep
<1>3. running[t] \cup {"NEED_KILL_CLEANUP", "SUSPENDED"} \in SUBSET Flag
  BY <1>1 DEF Flag
<1>4. running' \in [Thread -> SUBSET Flag]
  BY <1>1, <1>2, <1>3
<1>5. QED BY <1>1, <1>2, <1>4 DEF PcType

\* It gets into its lines.
LEMMA JoinedIs ==
  ASSUME IInv, NEW c \in Call, NEW t, At(t, c), NEW L, Within(L, c), program' = program,
         links' = Join(L, c), \A x \in links.in_line : x[1] = t => CallOf(x) = c
  PROVE  /\ Good(links)' /\ PlacesKept(t) /\ \A w \in links'.in_line : w[1] = t => w \in OfCall(c)
         /\ links'.in_line = L.in_line \cup OfCall(c)
<1>1. Made(c) /\ c[1] = t /\ program \in Programs /\ Apart(program)
  BY DEF At, IInv, Types
<1>2. Good(L) /\ L.in_line \in SUBSET (links.in_line \cup OfCall(c))
  BY DEF Within
<1>3. OneSync(L, c)
  BY <1>1, <1>2 DEF OneSync, OfCall
<1>4. Good(Join(L, c)) /\ Join(L, c).in_line = L.in_line \cup OfCall(c)
  BY <1>1, <1>2, <1>3, JoinGood
<1>5. Good(links)'
  BY <1>4, GoodNext
<1>6. \A x \in Syncer : x \in OfCall(c) => x[1] = t
  BY <1>1, SyncerIs DEF OfCall
<1>7. PlacesAs(L, t)
  BY <1>4, <1>6 DEF PlacesAs
<1>8. PlacesKept(t)
  BY <1>1, <1>7, WithinKept
<1>9. \A w \in links'.in_line : w[1] = t => w \in OfCall(c)
  <2>1. \A w \in L.in_line : w \in Syncer /\ Real(w)
    BY <1>2, GoodIs
  <2>2. QED BY <1>2, <1>4, <2>1 DEF OfCall
<1>10. QED BY <1>4, <1>5, <1>8, <1>9

\* It sleeps at once.
LEMMA SleepsNext ==
  ASSUME IInv, NEW c \in Call, NEW t, t = c[1], NEW s \in 0..(MaxEvts - 1), SyncSleeps(t, c, s)
  PROVE  IInv'
<1>1. PICK p : p = Poll(c, s, TRUE)
  OBVIOUS
<1>2. /\ Calls(t, c, s) /\ p.ready = Null
      /\ links' = Join(p.links, c) /\ nack' = nack
      /\ Sleep(t) /\ outcome' = [outcome EXCEPT ![c] = "going"]
      /\ result' = result /\ got' = got /\ value' = value
      /\ suspend_break' = suspend_break
  BY <1>1 DEF SyncSleeps, NothingChosen
<1>3. Called(t, c, s)
  BY <1>2, CallsIs
<1>4. /\ At(t, c) /\ pc[t] = "run" /\ running[t] = {"RUNNING"}
      /\ program' = program /\ external_break' = external_break
      /\ result[c] = 0 /\ Out(c) /\ \A w \in Syncer : CallOf(w) = c => nack[w] = "none"
      /\ start'[t] < Len(SyncOf(c).evts)
      /\ call'[t] = c[2] /\ \A u \in Thread : u # t => call'[u] = call[u] /\ start'[u] = start[u]
      /\ call' \in [Thread -> 0..MaxCalls] /\ start' \in [Thread -> 0..(MaxEvts - 1)]
  BY <1>3 DEF Called
<1>5. Within(p.links, c) /\ NoneReady(p, c, TRUE, OfCall(c))
  BY <1>1, <1>2, <1>3, FirstPoll
<1>6. \A x \in links.in_line : x[1] = t => CallOf(x) = c
  BY <1>4 DEF Out
<1>7. /\ Good(links)' /\ PlacesKept(t) /\ \A w \in links'.in_line : w[1] = t => w \in OfCall(c)
      /\ links'.in_line = p.links.in_line \cup OfCall(c)
  BY <1>2, <1>4, <1>5, <1>6, JoinedIs
<1>8. t \in Thread /\ outcome \in OutcomeType
  BY TypesIs DEF Call
<1>9. /\ pc' \in PcType /\ running' \in [Thread -> SUBSET Flag]
      /\ pc'[t] = "wait" /\ \A u \in Thread : u # t => pc'[u] = pc[u]
      /\ running'[t] = running[t] \cup {"NEED_KILL_CLEANUP", "SUSPENDED"}
      /\ \A u \in Thread : u # t => running'[u] = running[u]
  BY <1>2, <1>8, SleepIs
<1>10. /\ outcome' \in OutcomeType
       /\ outcome'[c] = "going" /\ \A d \in Call : d # c => outcome'[d] = outcome[d]
  BY <1>2, <1>8 DEF OutcomeType
<1>11. Others(t) /\ OtherPcs(t) /\ OtherSyncs(c)
  BY <1>2, <1>4, <1>9, <1>10 DEF Others, OtherPcs, OtherSyncs
<1>12. GoesOn(t, c)
  BY <1>2, <1>4, <1>7, <1>9, <1>10 DEF GoesOn
<1>13. WordInv(t)'
  <2>1. WordInv(t)
    BY <1>8 DEF IInv, ThreadInv
  <2>2. QED BY <1>4, <1>9, <2>1 DEF WordInv
<1>14. \A u \in Thread : Fine(u)'
  BY <1>4, <1>7, <1>11, <1>12, <1>13, GoingFine
<1>15. Types'
  BY <1>2, <1>4, <1>9, <1>10, TypesIs, TypesNext
<1>16. Met'
  BY <1>2, <1>4, <1>5, <1>7, MetJoins
<1>17. QED BY <1>7, <1>14, <1>15, <1>16, FineNext

\* Posting the nacks when the sync is over.
LEMMA PostedOver ==
  ASSUME IInv, NEW c \in Call, nack' = NacksPosted(nack, {c}, {})
  PROVE  /\ nack' \in [Syncer -> NackType] /\ NacksOver(c)
         /\ \A w \in Syncer : CallOf(w) # c => nack'[w] = nack[w]
<1>1. nack \in [Syncer -> NackType]
  BY TypesIs
<1>2. /\ nack' \in [Syncer -> NackType]
      /\ \A w \in Syncer : CallOf(w) # c => nack'[w] = nack[w]
      /\ \A w \in Syncer : CallOf(w) = c => nack'[w] = IF nack[w] = "made" THEN "posted" ELSE nack[w]
  BY <1>1, PostedIs
<1>3. NacksOver(c)
  BY <1>2, PostedRight DEF NacksOver
<1>4. QED BY <1>2, <1>3

\* Or when they have been posted.
LEMMA AlreadyOver ==
  ASSUME IInv, NEW c \in Call, nack' = nack, result[c] # 0
  PROVE  nack' \in [Syncer -> NackType] /\ NacksOver(c)
<1>1. nack \in [Syncer -> NackType]
  BY TypesIs
<1>2. ASSUME NEW w \in Syncer, CallOf(w) = c, nack[w] # "none"
      PROVE  Real(w) /\ nack[w] = IF w[3] = result[c] THEN "kept" ELSE "posted"
  <2>1. NackInv(w) /\ nack[w] \in NackType
    BY <1>1 DEF IInv, SyncerInv
  <2>2. QED BY <1>2, <2>1 DEF NackInv, NackType
<1>3. QED BY <1>1, <1>2 DEF NacksOver

\* A break is raised in the sync.
Raised(t, c) ==
  /\ external_break' \in [Thread -> BOOLEAN] /\ external_break'[t] = FALSE
  /\ \A u \in Thread : u # t => external_break'[u] = external_break[u]
  /\ nack' \in [Syncer -> NackType] /\ NacksOver(c)
  /\ \A w \in Syncer : CallOf(w) # c => nack'[w] = nack[w]
  /\ Return(c, "break") /\ suspend_break[t] = 0 /\ program[t].signals # {}

\* A break that is raised inside a sync ends it as Raised says.
LEMMA RaiseIs ==
  ASSUME IInv, NEW c \in Call, NEW t, t = c[1], RaiseInSync(t, c), BreakDue(t)
  PROVE  Raised(t, c)
<1>1. t \in Thread /\ external_break \in [Thread -> BOOLEAN]
  BY TypesIs DEF Call
<1>2. /\ external_break' = [external_break EXCEPT ![t] = FALSE]
      /\ nack' = NacksPosted(nack, {c}, {}) /\ Return(c, "break")
  BY DEF RaiseInSync
<1>3. external_break[t] /\ suspend_break[t] = 0
  BY DEF BreakDue, CanBreak
<1>4. program[t].signals # {}
  BY <1>1, <1>3 DEF IInv, ThreadInv, WordInv
<1>5. /\ nack' \in [Syncer -> NackType] /\ NacksOver(c)
      /\ \A w \in Syncer : CallOf(w) # c => nack'[w] = nack[w]
  BY <1>2, PostedOver
<1>6. QED BY <1>1, <1>2, <1>3, <1>4, <1>5 DEF Raised

\* The running word of t alone changes.
LEMMA RunningIs ==
  ASSUME IInv, NEW t \in Thread, NEW word \in SUBSET Flag, running' = [running EXCEPT ![t] = word]
  PROVE  /\ running' \in [Thread -> SUBSET Flag] /\ running'[t] = word
         /\ \A u \in Thread : u # t => running'[u] = running[u]
BY TypesIs

\* A thread that was chosen for, and woken, returns.
LEMMA ReturnsChosen ==
  ASSUME IInv, NEW c \in Call, NEW t, t = c[1], ReturnChosen(t, c)
  PROVE  IInv'
<1>1. /\ In(t, c, "wait") /\ Queued(running[t]) /\ result[c] # 0 /\ "KILLED" \notin running[t]
      /\ links' = Leave(links, c)
      /\ running' = [running EXCEPT ![t] = running[t] \ {"NEED_KILL_CLEANUP"}]
      /\ result' = result /\ got' = got /\ value' = value
      /\ \/ BreakDue(t) /\ RaiseInSync(t, c) /\ suspend_break' = suspend_break
         \/ /\ Return(c, "evt") /\ suspend_break' = Breaks({}, c)
            /\ external_break' = external_break /\ nack' = nack
  BY DEF ReturnChosen, Awake, NothingChosen
<1>2. Inside(t, c, "wait")
  BY <1>1, InIs DEF Queued
<1>3. /\ At(t, c) /\ program' = program
      /\ call'[t] = c[2] /\ \A u \in Thread : u # t => call'[u] = call[u] /\ start'[u] = start[u]
      /\ call' \in [Thread -> 0..MaxCalls] /\ start' \in [Thread -> 0..(MaxEvts - 1)]
      /\ suspend_break[t] \in Int /\ suspend_break[t] <= 1
      /\ suspend_break[t] = 1 => result[c] # 0 /\ SyncOf(c).enable
      /\ WordInv(t)
  BY <1>2 DEF Inside
<1>4. t \in Thread /\ running[t] \in SUBSET Flag /\ running[t] # {}
  BY <1>1, TypesIs DEF Call, Queued
<1>5. /\ running' \in [Thread -> SUBSET Flag] /\ running'[t] = running[t] \ {"NEED_KILL_CLEANUP"}
      /\ \A u \in Thread : u # t => running'[u] = running[u]
  <2>1. PICK word \in SUBSET Flag : word = running[t] \ {"NEED_KILL_CLEANUP"}
    BY <1>4
  <2>2. running' = [running EXCEPT ![t] = word]
    BY <1>1, <2>1
  <2>3. QED BY <1>4, <2>1, <2>2, RunningIs
<1>6. Good(links)' /\ PlacesKept(t) /\ OutNext(t) /\ \A x \in links'.in_line : x \in links.in_line
  BY <1>1, <1>3, LinksWithin, LeftIs
<1>11. Met'
  BY <1>1, <1>3, <1>6, MetStays
<1>7. ASSUME NEW how \in {"evt", "break"}, Return(c, how),
             external_break' \in [Thread -> BOOLEAN], external_break'[t] => external_break[t],
             \A u \in Thread : u # t => external_break'[u] = external_break[u],
             nack' \in [Syncer -> NackType], NacksOver(c),
             \A w \in Syncer : CallOf(w) # c => nack'[w] = nack[w],
             suspend_break' \in [Thread -> Int],
             \A u \in Thread : u # t => suspend_break'[u] = suspend_break[u],
             suspend_break'[t] <= 0, suspend_break'[t] >= suspend_break[t] - 1
      PROVE  IInv'
  <2>1. how \in {"evt", "false", "break", "killed"}
    OBVIOUS
  <2>2. pc'[t] = "run" /\ \A d \in Call : d # c => outcome'[d] = outcome[d]
    BY <1>7, <2>1, ReturnIs
  <2>3. Others(t) /\ OtherSyncs(c)
    BY <1>1, <1>3, <1>5, <1>7, <2>2 DEF Others, OtherSyncs
  <2>4. BreaksOver(t)
    BY <1>4, <1>7 DEF BreaksOver
  <2>5. WordInv(t)'
    <3>1. "RUNNING" \in running[t]
      BY <1>3, <1>4 DEF WordInv
    <3>2. QED BY <1>3, <1>5, <1>7, <2>2, <3>1, WordRuns
  <2>6. /\ \A u \in Thread : Fine(u)'
        /\ pc' \in PcType /\ outcome' \in OutcomeType
    BY <1>1, <1>3, <1>6, <1>7, <2>1, <2>3, <2>4, <2>5, EndedFine
  <2>7. Types'
    BY <1>1, <1>3, <1>5, <1>7, <2>6, TypesIs, TypesNext
  <2>8. QED BY <1>6, <2>6, <2>7, <1>11, FineNext
<1>8. CASE BreakDue(t) /\ RaiseInSync(t, c) /\ suspend_break' = suspend_break
  <2>1. /\ external_break' \in [Thread -> BOOLEAN] /\ external_break'[t] = FALSE
        /\ \A u \in Thread : u # t => external_break'[u] = external_break[u]
        /\ nack' \in [Syncer -> NackType] /\ NacksOver(c)
        /\ \A w \in Syncer : CallOf(w) # c => nack'[w] = nack[w]
        /\ Return(c, "break") /\ suspend_break[t] = 0
    <3>1. Raised(t, c)
      BY <1>8, RaiseIs
    <3>2. QED BY <3>1 DEF Raised
  <2>2. /\ suspend_break' \in [Thread -> Int]
        /\ \A u \in Thread : u # t => suspend_break'[u] = suspend_break[u]
        /\ suspend_break'[t] <= 0 /\ suspend_break'[t] >= suspend_break[t] - 1
    BY <1>8, <2>1, TypesIs
  <2>3. QED BY <1>7, <2>1, <2>2
<1>9. CASE /\ Return(c, "evt") /\ suspend_break' = Breaks({}, c)
           /\ external_break' = external_break /\ nack' = nack
  <2>1. nack' \in [Syncer -> NackType] /\ NacksOver(c)
    BY <1>1, <1>9, AlreadyOver
  <2>2. /\ suspend_break' \in [Thread -> Int]
        /\ suspend_break'[t] = suspend_break[t] - (IF SyncOf(c).enable THEN 1 ELSE 0)
        /\ \A u \in Thread : u # t => suspend_break'[u] = suspend_break[u]
    BY <1>9, BreaksIs
  <2>3. suspend_break'[t] <= 0 /\ suspend_break'[t] >= suspend_break[t] - 1
    BY <1>3, <2>2
  <2>4. external_break' \in [Thread -> BOOLEAN]
    BY <1>9, TypesIs
  <2>5. QED BY <1>7, <1>9, <2>1, <2>2, <2>3, <2>4
<1>10. QED BY <1>1, <1>8, <1>9

\* It was chosen for, then killed.
LEMMA DiesChosen ==
  ASSUME IInv, NEW c \in Call, NEW t, t = c[1], DieChosen(t, c)
  PROVE  IInv'
<1>1. /\ In(t, c, "wait") /\ Queued(running[t]) /\ result[c] # 0 /\ "KILLED" \in running[t]
      /\ links' = Leave(links, c)
      /\ running' = [running EXCEPT ![t] = {}]
      /\ result' = result /\ got' = got /\ value' = value /\ Return(c, "killed")
      /\ external_break' = external_break /\ suspend_break' = suspend_break /\ nack' = nack
  BY DEF DieChosen, Awake, NothingChosen
<1>2. Inside(t, c, "wait")
  BY <1>1, InIs DEF Queued
<1>3. /\ At(t, c) /\ program' = program
      /\ call'[t] = c[2] /\ \A u \in Thread : u # t => call'[u] = call[u] /\ start'[u] = start[u]
      /\ call' \in [Thread -> 0..MaxCalls] /\ start' \in [Thread -> 0..(MaxEvts - 1)]
      /\ suspend_break[t] \in Int /\ suspend_break[t] <= 1
      /\ WordInv(t)
  BY <1>2 DEF Inside
<1>4. t \in Thread /\ running[t] \in SUBSET Flag /\ running[t] # {}
  BY <1>1, TypesIs DEF Call, Queued
<1>5. /\ running' \in [Thread -> SUBSET Flag] /\ running'[t] = {}
      /\ \A u \in Thread : u # t => running'[u] = running[u]
  <2>1. {} \in SUBSET Flag
    OBVIOUS
  <2>2. QED BY <1>1, <1>4, <2>1, RunningIs
<1>6. Good(links)' /\ PlacesKept(t) /\ OutNext(t) /\ \A x \in links'.in_line : x \in links.in_line
  BY <1>1, <1>3, LinksWithin, LeftIs
<1>7. pc'[t] = "run" /\ \A d \in Call : d # c => outcome'[d] = outcome[d]
  BY <1>1, ReturnIs
<1>8. Others(t) /\ OtherSyncs(c)
  BY <1>1, <1>3, <1>5, <1>7 DEF Others, OtherSyncs
<1>9. BreaksOver(t)
  BY <1>1, <1>3, <1>5 DEF BreaksOver
<1>10. WordInv(t)'
  BY <1>1, <1>3, <1>5, <1>7 DEF WordInv
<1>11. nack' \in [Syncer -> NackType] /\ NacksOver(c)
  BY <1>1, AlreadyOver
<1>12. /\ \A u \in Thread : Fine(u)'
       /\ pc' \in PcType /\ outcome' \in OutcomeType
  BY <1>1, <1>3, <1>6, <1>8, <1>9, <1>10, <1>11, EndedFine
<1>13. Types'
  BY <1>1, <1>3, <1>5, <1>11, <1>12, TypesIs, TypesNext
<1>14. Met'
  BY <1>1, <1>3, <1>6, MetStays
<1>15. QED BY <1>6, <1>12, <1>13, <1>14, FineNext

\* The nacks of a killed thread have been posted.
LEMMA KilledOver ==
  ASSUME IInv, NEW c \in Call, nack' = nack, outcome[c] # "going" \/ "KILLED" \in running[c[1]]
  PROVE  nack' \in [Syncer -> NackType] /\ NacksOver(c)
<1>1. nack \in [Syncer -> NackType]
  BY TypesIs
<1>2. ASSUME NEW w \in Syncer, CallOf(w) = c, nack[w] # "none"
      PROVE  Real(w) /\ nack[w] = IF w[3] = result[c] THEN "kept" ELSE "posted"
  <2>1. NackInv(w) /\ nack[w] \in NackType /\ w[1] = c[1]
    BY <1>1, <1>2, SyncerIs DEF IInv, SyncerInv
  <2>2. QED BY <1>2, <2>1 DEF NackInv, NackType
<1>3. QED BY <1>1, <1>2 DEF NacksOver

\* A signal woke it.
LEMMA LeavesLines ==
  ASSUME IInv, NEW c \in Call, NEW t, t = c[1], LeaveLines(t, c)
  PROVE  IInv'
<1>1. PICK word : word = running[t] \ {"NEED_KILL_CLEANUP"}
  OBVIOUS
<1>2. /\ In(t, c, "wait") /\ Queued(running[t]) /\ result[c] = 0
      /\ links' = Leave(links, c)
      /\ result' = result /\ got' = got /\ value' = value /\ suspend_break' = suspend_break
      /\ ThreadBlock(t, c, word)
  BY <1>1 DEF LeaveLines, Awake, NothingChosen
<1>3. Inside(t, c, "wait")
  BY <1>2, InIs DEF Queued
<1>4. /\ At(t, c) /\ program' = program
      /\ start'[t] < Len(SyncOf(c).evts)
      /\ call'[t] = c[2] /\ \A u \in Thread : u # t => call'[u] = call[u] /\ start'[u] = start[u]
      /\ call' \in [Thread -> 0..MaxCalls] /\ start' \in [Thread -> 0..(MaxEvts - 1)]
      /\ suspend_break[t] \in Int /\ suspend_break[t] <= 1
      /\ suspend_break[t] = 1 => result[c] # 0 /\ SyncOf(c).enable
      /\ WordInv(t) /\ outcome[c] = "going" /\ pc[t] = "wait"
  BY <1>3 DEF Inside
<1>5. suspend_break[t] <= 0
  BY <1>2, <1>4
<1>6. t \in Thread /\ running[t] \in SUBSET Flag /\ running[t] # {} /\ word \in SUBSET Flag
  BY <1>1, <1>2, TypesIs DEF Call, Queued
<1>7. "RUNNING" \in running[t] /\ "RUNNING" \in word
  BY <1>1, <1>4, <1>6 DEF WordInv
<1>8. Good(links)' /\ PlacesKept(t) /\ OutNext(t) /\ \A x \in links'.in_line : x \in links.in_line
  BY <1>2, <1>4, LinksWithin, LeftIs
<1>13. Met'
  BY <1>2, <1>4, <1>8, MetStays
<1>9. CASE /\ "KILLED" \in word
           /\ running' = [running EXCEPT ![t] = {}]
           /\ Return(c, "killed")
           /\ UNCHANGED <<external_break, nack>>
  <2>1. PICK gone \in SUBSET Flag : gone = {}
    OBVIOUS
  <2>2. /\ running' \in [Thread -> SUBSET Flag] /\ running'[t] = {}
        /\ \A u \in Thread : u # t => running'[u] = running[u]
    BY <1>6, <1>9, <2>1, RunningIs
  <2>3. pc'[t] = "run" /\ \A d \in Call : d # c => outcome'[d] = outcome[d]
    BY <1>9, ReturnIs
  <2>4. Others(t) /\ OtherSyncs(c)
    BY <1>2, <1>4, <1>9, <2>2, <2>3 DEF Others, OtherSyncs
  <2>5. BreaksOver(t)
    BY <1>2, <1>4, <2>2 DEF BreaksOver
  <2>6. WordInv(t)'
    BY <1>1, <1>4, <1>9, <2>2, <2>3 DEF WordInv
  <2>7. nack' \in [Syncer -> NackType] /\ NacksOver(c)
    BY <1>1, <1>9, KilledOver
  <2>8. /\ \A u \in Thread : Fine(u)'
        /\ pc' \in PcType /\ outcome' \in OutcomeType
    BY <1>4, <1>8, <1>9, <2>4, <2>5, <2>6, <2>7, EndedFine
  <2>9. Types'
    BY <1>2, <1>4, <1>9, <2>2, <2>7, <2>8, TypesIs, TypesNext
  <2>10. QED BY <1>8, <2>8, <2>9, <1>13, FineNext
<1>10. CASE /\ "KILLED" \notin word /\ "USER_SUSPENDED" \notin word /\ BreakDue(t)
            /\ running' = [running EXCEPT ![t] = word]
            /\ RaiseInSync(t, c)
  <2>1. /\ running' \in [Thread -> SUBSET Flag] /\ running'[t] = word
        /\ \A u \in Thread : u # t => running'[u] = running[u]
    BY <1>6, <1>10, RunningIs
  <2>2. /\ external_break' \in [Thread -> BOOLEAN] /\ external_break'[t] = FALSE
        /\ \A u \in Thread : u # t => external_break'[u] = external_break[u]
        /\ nack' \in [Syncer -> NackType] /\ NacksOver(c)
        /\ \A w \in Syncer : CallOf(w) # c => nack'[w] = nack[w]
        /\ Return(c, "break")
    <3>1. Raised(t, c)
      BY <1>10, RaiseIs
    <3>2. QED BY <3>1 DEF Raised
  <2>3. pc'[t] = "run" /\ \A d \in Call : d # c => outcome'[d] = outcome[d]
    BY <2>2, ReturnIs
  <2>4. Others(t) /\ OtherSyncs(c)
    BY <1>2, <1>4, <2>1, <2>2, <2>3 DEF Others, OtherSyncs
  <2>5. BreaksOver(t)
    BY <1>2, <1>4, <1>5 DEF BreaksOver
  <2>6. WordInv(t)'
    BY <1>1, <1>4, <1>7, <2>1, <2>2, <2>3, WordRuns
  <2>8. /\ \A u \in Thread : Fine(u)'
        /\ pc' \in PcType /\ outcome' \in OutcomeType
    BY <1>4, <1>8, <2>2, <2>4, <2>5, <2>6, EndedFine
  <2>9. Types'
    BY <1>2, <1>4, <2>1, <2>2, <2>8, TypesIs, TypesNext
  <2>10. QED BY <1>8, <2>8, <2>9, <1>13, FineNext
<1>11. CASE /\ "KILLED" \notin word /\ ("USER_SUSPENDED" \in word \/ ~BreakDue(t))
            /\ running' = [running EXCEPT ![t] =
                 IF "USER_SUSPENDED" \in word THEN WeakSuspend(word) ELSE word]
            /\ pc' = [pc EXCEPT ![t] = "block"]
            /\ UNCHANGED <<external_break, nack, outcome>>
  <2>1. PICK to \in SUBSET Flag : to = IF "USER_SUSPENDED" \in word THEN WeakSuspend(word) ELSE word
    BY <1>6 DEF WeakSuspend, Flag
  <2>2. running' = [running EXCEPT ![t] = to]
    BY <1>11, <2>1
  <2>3. /\ running' \in [Thread -> SUBSET Flag] /\ running'[t] = to
        /\ \A u \in Thread : u # t => running'[u] = running[u]
    BY <1>6, <2>2, RunningIs
  <2>4. /\ "RUNNING" \in to /\ "KILLED" \notin to /\ "NEED_KILL_CLEANUP" \notin to
        /\ "USER_SUSPENDED" \in to => "USER_SUSPENDED" \in running[t]
    BY <1>1, <1>7, <1>11, <2>1 DEF WeakSuspend
  <2>5. /\ pc' \in PcType /\ pc'[t] = "block" /\ \A u \in Thread : u # t => pc'[u] = pc[u]
    BY <1>6, <1>11, TypesIs DEF PcType
  <2>6. Others(t) /\ OtherPcs(t) /\ OtherSyncs(c)
    BY <1>2, <1>4, <1>11, <2>3, <2>5 DEF Others, OtherPcs, OtherSyncs
  <2>7. "KILLED" \notin running[t]
    BY <1>1, <1>11
  <2>8. NewNacks(nack, c)
    BY <1>2, <1>4, <2>7, StillMade
  <2>9. GoesOn(t, c)
    BY <1>2, <1>4, <1>8, <1>11, <2>3, <2>4, <2>5, <2>8 DEF GoesOn, NewNacks, OutNext
  <2>10. WordInv(t)'
    BY <1>4, <1>11, <2>3, <2>4, <2>5 DEF WordInv
  <2>11. \A u \in Thread : Fine(u)'
    BY <1>2, <1>4, <1>8, <2>6, <2>9, <2>10, GoingFine
  <2>12. Types'
    BY <1>2, <1>4, <1>11, <2>3, <2>5, TypesIs, TypesNext
  <2>13. QED BY <1>8, <2>11, <2>12, <1>13, FineNext
<1>12. QED BY <1>2, <1>9, <1>10, <1>11 DEF ThreadBlock

\* A thread that has blocked.
BlockedNow(t, c) ==
  /\ At(t, c) /\ program' = program
  /\ start'[t] < Len(SyncOf(c).evts) /\ start[t] < Len(SyncOf(c).evts)
  /\ call'[t] = c[2] /\ \A u \in Thread : u # t => call'[u] = call[u] /\ start'[u] = start[u]
  /\ call' \in [Thread -> 0..MaxCalls] /\ start' \in [Thread -> 0..(MaxEvts - 1)]
  /\ suspend_break[t] \in Int /\ suspend_break[t] <= 0
  /\ WordInv(t) /\ outcome[c] = "going" /\ pc[t] = "block" /\ result[c] = 0 /\ Out(c)
  /\ running[t] = {"RUNNING"} /\ t \in Thread /\ Made(c)
  /\ NewNacks(nack, c)

\* A thread that is back from scheme_thread_block is as BlockedNow says.
LEMMA BlockedIs ==
  ASSUME IInv, NEW c \in Call, NEW t, t = c[1], Blocked(t, c)
  PROVE  BlockedNow(t, c)
<1>1. In(t, c, "block") /\ running[t] = {"RUNNING"}
  BY DEF Blocked
<1>2. Inside(t, c, "block")
  BY <1>1, InIs
<1>3. outcome[c] = "going" /\ result[c] = 0
  BY <1>1, <1>2 DEF Inside
<1>4. NewNacks(nack, c)
  BY <1>1, <1>3, StillMade
<1>5. QED BY <1>1, <1>2, <1>3, <1>4 DEF BlockedNow, Inside, At

\* A break is raised after scheme_thread_block.
LEMMA BreaksAfterBlock ==
  ASSUME IInv, NEW c \in Call, NEW t, t = c[1], BreakAfterBlock(t, c)
  PROVE  IInv'
<1>1. /\ Blocked(t, c) /\ BreakDue(t) /\ RaiseInSync(t, c)
      /\ result' = result /\ got' = got /\ value' = value /\ suspend_break' = suspend_break
      /\ running' = running /\ links' = links
  BY DEF BreakAfterBlock, NothingChosen
<1>2. BlockedNow(t, c)
  BY <1>1, BlockedIs
<1>3. /\ At(t, c) /\ program' = program
      /\ start'[t] < Len(SyncOf(c).evts)
      /\ call'[t] = c[2] /\ \A u \in Thread : u # t => call'[u] = call[u] /\ start'[u] = start[u]
      /\ call' \in [Thread -> 0..MaxCalls] /\ start' \in [Thread -> 0..(MaxEvts - 1)]
      /\ suspend_break[t] \in Int /\ suspend_break[t] <= 0
      /\ WordInv(t) /\ result[c] = 0 /\ Out(c)
      /\ running[t] = {"RUNNING"} /\ t \in Thread
  BY <1>2 DEF BlockedNow
<1>4. /\ external_break' \in [Thread -> BOOLEAN] /\ external_break'[t] = FALSE
      /\ \A u \in Thread : u # t => external_break'[u] = external_break[u]
      /\ nack' \in [Syncer -> NackType] /\ NacksOver(c)
      /\ \A w \in Syncer : CallOf(w) # c => nack'[w] = nack[w]
      /\ Return(c, "break")
  <2>1. Raised(t, c)
    BY <1>1, RaiseIs
  <2>2. QED BY <2>1 DEF Raised
<1>5. pc'[t] = "run" /\ \A d \in Call : d # c => outcome'[d] = outcome[d]
  BY <1>4, ReturnIs
<1>6. Others(t) /\ OtherSyncs(c)
  BY <1>1, <1>3, <1>4, <1>5 DEF Others, OtherSyncs
<1>7. BreaksOver(t)
  BY <1>1, <1>3 DEF BreaksOver
<1>8. WordInv(t)'
  BY <1>1, <1>3, <1>4, <1>5, WordRuns
<1>9. PlacesKept(t)
  BY <1>1, LinksWithin, WithinKept DEF PlacesAs
<1>10. OutNext(t)
  BY <1>1, <1>3 DEF OutNext, Out
<1>11. Good(links)'
  BY <1>1, <1>3, GoodNext DEF IInv
<1>12. /\ \A u \in Thread : Fine(u)'
       /\ pc' \in PcType /\ outcome' \in OutcomeType
  BY <1>3, <1>4, <1>6, <1>7, <1>8, <1>9, <1>10, EndedFine
<1>13. Types'
  BY <1>1, <1>3, <1>4, <1>12, TypesIs, TypesNext
<1>14. Met'
  BY <1>1, <1>3, <1>11, MetStays
<1>15. QED BY <1>11, <1>12, <1>13, <1>14, FineNext

\* The poll after that.
LEMMA PollAgain ==
  ASSUME IInv, NEW c \in Call, NEW t, t = c[1], BlockedNow(t, c), NEW p, p = Poll(c, start[t], FALSE)
  PROVE  /\ p.ready = Null => Within(p.links, c) /\ NoneReady(p, c, FALSE, OfCall(c))
         /\ p.ready # Null => OneReady(p, c) /\ p.links.in_line \in SUBSET links.in_line
<1>1. t \in Thread /\ Made(c) /\ Out(c) /\ program \in Programs
  BY DEF BlockedNow, IInv, Types
<1>2. start[t] \in Nat
  BY <1>1, TypesIs
<1>3. start[t] < Len(SyncOf(c).evts)
  BY DEF BlockedNow
<1>4. PollStage(p, c, FALSE, OfCall(c))
  BY <1>1, <1>2, <1>3, PollIs
<1>5. QED BY <1>4 DEF PollStage, NoneReady

\* The poll after a block finds a partner.
LEMMA MeetsAfterBlock ==
  ASSUME IInv, NEW c \in Call, NEW t, t = c[1], MeetAfterBlock(t, c)
  PROVE  IInv'
<1>1. PICK p : p = Poll(c, start[t], FALSE)
  OBVIOUS
<1>2. /\ Blocked(t, c) /\ p.ready # Null /\ p.taker # Null
      /\ links' = p.links /\ Choose({p.ready, p.taker}, nack, c) /\ Return(c, "evt")
      /\ external_break' = external_break /\ value' = value
  BY <1>1 DEF MeetAfterBlock
<1>3. BlockedNow(t, c)
  BY <1>2, BlockedIs
<1>4. /\ At(t, c) /\ program' = program /\ start'[t] < Len(SyncOf(c).evts)
      /\ call'[t] = c[2] /\ \A u \in Thread : u # t => call'[u] = call[u] /\ start'[u] = start[u]
      /\ call' \in [Thread -> 0..MaxCalls] /\ start' \in [Thread -> 0..(MaxEvts - 1)]
      /\ result[c] = 0 /\ Out(c) /\ Made(c)
      /\ running[t] = {"RUNNING"} /\ t \in Thread /\ NewNacks(nack, c)
  BY <1>3 DEF BlockedNow
<1>5. OneReady(p, c) /\ p.links.in_line \in SUBSET links.in_line
  BY <1>1, <1>2, <1>3, PollAgain
<1>6. nack \in [Syncer -> NackType]
  BY TypesIs
<1>7. /\ Chosen({p.ready, p.taker}, nack, c)
      /\ p.ready \in OfCall(c) /\ p.ready \in Syncer /\ p.ready[1] = t
      /\ p.taker \in Syncer /\ p.taker[1] # t
  BY <1>2, <1>4, <1>5, <1>6, MeetChosen
<1>8. Good(links)'
  BY <1>2, <1>4, <1>5, GoodNext DEF OneReady
<1>9. /\ pc' \in PcType /\ outcome' \in OutcomeType
      /\ pc' = [pc EXCEPT ![t] = "run"] /\ outcome' = [outcome EXCEPT ![c] = "evt"]
      /\ \A u \in Thread : u # t => pc'[u] = pc[u]
      /\ Elsewhere(t)
  BY <1>2, ReturnIs
<1>10. Apartly(t)
  BY <1>2, <1>4, <1>9 DEF Apartly
<1>11. PlacesAs(p.links, t)
  BY <1>2 DEF PlacesAs
<1>12. OutNext(t)
  <2>1. SUFFICES ASSUME NEW w \in links'.in_line, w[1] = t PROVE FALSE
    BY DEF OutNext
  <2>2. w \in links.in_line
    BY <1>2, <1>5, <2>1
  <2>3. QED BY <1>4, <2>1, <2>2 DEF Out, At
<1>13. Ends1(t, c)
  BY <1>2, <1>4, <1>9, <1>12 DEF Ends1
<1>14. \A u \in Thread : u # t => Fine(u)'
  BY <1>2, <1>4, <1>5, <1>7, <1>9, <1>10, <1>11, MeetFine
<1>15. PICK chosen, v : chosen = {p.ready, p.taker} /\ v = p.ready
  OBVIOUS
<1>16. /\ chosen \in SUBSET Syncer /\ Chosen(chosen, nack, c) /\ v \in chosen /\ v \in OfCall(c)
       /\ \A x \in chosen : x[1] = t => x = v
  BY <1>7, <1>15
<1>17. Fine(t)'
  BY <1>4, <1>13, <1>16, ChooserOver
<1>18. Types'
  BY <1>2, <1>4, <1>9, <1>16, TypesIs, TypesNext DEF Chosen
<1>19. Met'
  BY <1>2, <1>4, <1>5, <1>8, MetStays
<1>20. QED BY <1>8, <1>14, <1>17, <1>18, <1>19, FineNext

\* It finds a post.
LEMMA TakesAfterBlock ==
  ASSUME IInv, NEW c \in Call, NEW t, t = c[1], TakeAfterBlock(t, c)
  PROVE  IInv'
<1>1. PICK p : p = Poll(c, start[t], FALSE)
  OBVIOUS
<1>2. /\ Blocked(t, c) /\ p.ready # Null /\ p.taker = Null
      /\ links' = p.links /\ value' = PostTaken(p.ready)
      /\ nack' = NacksPosted(nack, {c}, {}) /\ suspend_break' = Breaks({}, c)
      /\ Return(c, "false") /\ result' = result /\ got' = got /\ running' = running
      /\ external_break' = external_break
  BY <1>1 DEF TakeAfterBlock, NothingChosen
<1>3. BlockedNow(t, c)
  BY <1>2, BlockedIs
<1>4. /\ At(t, c) /\ program' = program
      /\ call'[t] = c[2] /\ \A u \in Thread : u # t => call'[u] = call[u] /\ start'[u] = start[u]
      /\ call' \in [Thread -> 0..MaxCalls] /\ start' \in [Thread -> 0..(MaxEvts - 1)]
      /\ suspend_break[t] \in Int /\ suspend_break[t] <= 0
      /\ WordInv(t) /\ result[c] = 0 /\ Out(c) /\ Made(c)
      /\ running[t] = {"RUNNING"} /\ t \in Thread
  BY <1>3 DEF BlockedNow
<1>5. OneReady(p, c) /\ p.links.in_line \in SUBSET links.in_line
  BY <1>1, <1>2, <1>3, PollAgain
<1>6. /\ p.ready \in OfCall(c) /\ Posted(p.ready) /\ Within(p.links, c)
  BY <1>2, <1>5 DEF OneReady
<1>7. Good(links)'
  BY <1>2, <1>4, <1>6, GoodNext DEF Within
<1>8. PlacesKept(t)
  BY <1>2, <1>6, WithinKept DEF PlacesAs
<1>9. OutNext(t)
  BY <1>2, <1>4, <1>5 DEF OutNext, Out, At
<1>10. value' \in [Sema -> 0..MaxCount] /\ \A s \in Sema : value[s] = 0 => value'[s] = 0
  BY <1>2, <1>6, PostTakenIs DEF OfCall
<1>11. /\ nack' \in [Syncer -> NackType] /\ NacksOver(c)
       /\ \A w \in Syncer : CallOf(w) # c => nack'[w] = nack[w]
  BY <1>2, PostedOver
<1>12. /\ suspend_break' \in [Thread -> Int]
       /\ suspend_break'[t] = suspend_break[t] - (IF SyncOf(c).enable THEN 1 ELSE 0)
       /\ \A u \in Thread : u # t => suspend_break'[u] = suspend_break[u]
  BY <1>2, BreaksIs
<1>13. pc'[t] = "run" /\ \A d \in Call : d # c => outcome'[d] = outcome[d]
  BY <1>2, ReturnIs
<1>14. Others(t) /\ OtherSyncs(c)
  BY <1>2, <1>4, <1>11, <1>12, <1>13 DEF Others, OtherSyncs
<1>15. BreaksOver(t)
  BY <1>4, <1>12 DEF BreaksOver
<1>16. WordInv(t)'
  BY <1>2, <1>4, <1>13, WordRuns
<1>17. /\ \A u \in Thread : Fine(u)'
       /\ pc' \in PcType /\ outcome' \in OutcomeType
  BY <1>2, <1>4, <1>8, <1>9, <1>11, <1>14, <1>15, <1>16, EndedFine
<1>18. Types'
  BY <1>2, <1>4, <1>10, <1>11, <1>12, <1>17, TypesIs, TypesNext
<1>19. Met'
  BY <1>2, <1>4, <1>5, <1>7, <1>10, MetStays
<1>20. QED BY <1>7, <1>17, <1>18, <1>19, FineNext

\* It finds nothing.
LEMMA SleepsAgain ==
  ASSUME IInv, NEW c \in Call, NEW t, t = c[1], SleepAgain(t, c)
  PROVE  IInv'
<1>1. PICK p : p = Poll(c, start[t], FALSE)
  OBVIOUS
<1>2. /\ Blocked(t, c) /\ p.ready = Null
      /\ links' = Join(p.links, c) /\ Sleep(t)
      /\ value' = value /\ nack' = nack /\ suspend_break' = suspend_break
      /\ outcome' = outcome /\ result' = result /\ got' = got
      /\ external_break' = external_break
  BY <1>1 DEF SleepAgain, NothingChosen
<1>3. BlockedNow(t, c)
  BY <1>2, BlockedIs
<1>4. /\ At(t, c) /\ program' = program /\ start'[t] < Len(SyncOf(c).evts)
      /\ call'[t] = c[2] /\ \A u \in Thread : u # t => call'[u] = call[u] /\ start'[u] = start[u]
      /\ call' \in [Thread -> 0..MaxCalls] /\ start' \in [Thread -> 0..(MaxEvts - 1)]
      /\ WordInv(t) /\ result[c] = 0 /\ Out(c) /\ outcome[c] = "going"
      /\ running[t] = {"RUNNING"} /\ t \in Thread /\ NewNacks(nack, c)
  BY <1>3 DEF BlockedNow
<1>5. Within(p.links, c) /\ NoneReady(p, c, FALSE, OfCall(c))
  BY <1>1, <1>2, <1>3, PollAgain
<1>6. \A x \in links.in_line : x[1] = t => CallOf(x) = c
  BY <1>4 DEF Out
<1>7. /\ Good(links)' /\ PlacesKept(t) /\ \A w \in links'.in_line : w[1] = t => w \in OfCall(c)
      /\ links'.in_line = p.links.in_line \cup OfCall(c)
  BY <1>2, <1>4, <1>5, <1>6, JoinedIs
<1>8. /\ pc' \in PcType /\ running' \in [Thread -> SUBSET Flag]
      /\ pc'[t] = "wait" /\ \A u \in Thread : u # t => pc'[u] = pc[u]
      /\ running'[t] = running[t] \cup {"NEED_KILL_CLEANUP", "SUSPENDED"}
      /\ \A u \in Thread : u # t => running'[u] = running[u]
  BY <1>2, <1>4, SleepIs
<1>9. Others(t) /\ OtherPcs(t) /\ OtherSyncs(c)
  BY <1>2, <1>4, <1>8 DEF Others, OtherPcs, OtherSyncs
<1>10. GoesOn(t, c)
  BY <1>2, <1>4, <1>7, <1>8 DEF GoesOn, NewNacks
<1>11. WordInv(t)'
  BY <1>2, <1>4, <1>8 DEF WordInv
<1>12. \A u \in Thread : Fine(u)'
  BY <1>4, <1>7, <1>9, <1>10, <1>11, GoingFine
<1>13. Types'
  BY <1>2, <1>4, <1>8, TypesIs, TypesNext
<1>14. Met'
  BY <1>2, <1>4, <1>5, <1>7, MetJoins
<1>15. QED BY <1>7, <1>12, <1>13, <1>14, FineNext

\* A thread that the scheduler polls.
LooksNow(t, c) ==
  /\ At(t, c) /\ program' = program /\ start'[t] < Len(SyncOf(c).evts) /\ start[t] < Len(SyncOf(c).evts)
  /\ call'[t] = c[2] /\ \A u \in Thread : u # t => call'[u] = call[u] /\ start'[u] = start[u]
  /\ call' \in [Thread -> 0..MaxCalls] /\ start' \in [Thread -> 0..(MaxEvts - 1)]
  /\ suspend_break[t] \in Int /\ suspend_break[t] <= 1
  /\ suspend_break[t] = 1 => result[c] # 0 /\ SyncOf(c).enable
  /\ WordInv(t) /\ outcome[c] = "going" /\ pc[t] = "poll" /\ c = Current(t)
  /\ running[t] = {"RUNNING"} /\ t \in Thread /\ Made(c) /\ c[1] = t

\* A thread that the scheduler polls is as LooksNow says.
LEMMA LooksIs ==
  ASSUME IInv, NEW c \in Call, NEW t, t = c[1], Looks(t, c)
  PROVE  LooksNow(t, c)
<1>1. In(t, c, "poll") /\ running[t] = {"RUNNING"}
  BY DEF Looks
<1>2. Inside(t, c, "poll")
  BY <1>1, InIs
<1>3. start[t] < Len(SyncOf(c).evts)
  BY <1>2 DEF Inside
<1>4. QED BY <1>1, <1>2, <1>3 DEF LooksNow, Inside, At

\* The scheduler finds a break for a polled thread.
LEMMA PollBreaks ==
  ASSUME IInv, NEW c \in Call, NEW t, t = c[1], PollBreak(t, c)
  PROVE  IInv'
<1>1. /\ Looks(t, c) /\ BreakDue(t) /\ links' = OutByNacks(links, c, result[c]) /\ RaiseInSync(t, c)
      /\ result' = result /\ got' = got /\ value' = value /\ suspend_break' = suspend_break
      /\ running' = running
  BY DEF PollBreak, NothingChosen
<1>2. LooksNow(t, c)
  BY <1>1, LooksIs
<1>3. /\ At(t, c) /\ program' = program
      /\ call'[t] = c[2] /\ \A u \in Thread : u # t => call'[u] = call[u] /\ start'[u] = start[u]
      /\ call' \in [Thread -> 0..MaxCalls] /\ start' \in [Thread -> 0..(MaxEvts - 1)]
      /\ WordInv(t) /\ pc[t] = "poll" /\ c = Current(t) /\ Made(c) /\ c[1] = t
      /\ running[t] = {"RUNNING"} /\ t \in Thread
  BY <1>2 DEF LooksNow
<1>4. /\ external_break' \in [Thread -> BOOLEAN] /\ external_break'[t] = FALSE
      /\ \A u \in Thread : u # t => external_break'[u] = external_break[u]
      /\ nack' \in [Syncer -> NackType] /\ NacksOver(c)
      /\ \A w \in Syncer : CallOf(w) # c => nack'[w] = nack[w]
      /\ Return(c, "break") /\ suspend_break[t] = 0 /\ program[t].signals # {}
  <2>1. Raised(t, c)
    BY <1>1, RaiseIs
  <2>2. QED BY <2>1 DEF Raised
<1>5. pc'[t] = "run" /\ \A d \in Call : d # c => outcome'[d] = outcome[d]
  BY <1>4, ReturnIs
<1>6. Others(t) /\ OtherSyncs(c)
  BY <1>1, <1>3, <1>4, <1>5 DEF Others, OtherSyncs
<1>7. BreaksOver(t)
  BY <1>1, <1>4 DEF BreaksOver
<1>8. WordInv(t)'
  BY <1>1, <1>3, <1>4, <1>5, WordRuns
<1>9. Good(links)' /\ PlacesKept(t) /\ OutNext(t) /\ \A x \in links'.in_line : x \in links.in_line
  BY <1>1, <1>3, <1>4, NackedIs
<1>10. /\ \A u \in Thread : Fine(u)'
       /\ pc' \in PcType /\ outcome' \in OutcomeType
  BY <1>3, <1>4, <1>6, <1>7, <1>8, <1>9, EndedFine
<1>11. Types'
  BY <1>1, <1>3, <1>4, <1>10, TypesIs, TypesNext
<1>12. Met'
  BY <1>1, <1>3, <1>9, MetStays
<1>13. QED BY <1>9, <1>10, <1>11, <1>12, FineNext

\* It finds that a partner or a post has chosen for it.
LEMMA PollsReturn ==
  ASSUME IInv, NEW c \in Call, NEW t, t = c[1], PollReturns(t, c)
  PROVE  IInv'
<1>1. /\ Looks(t, c) /\ result[c] # 0 /\ suspend_break' = Breaks({}, c) /\ Return(c, "evt")
      /\ result' = result /\ got' = got /\ value' = value /\ running' = running
      /\ external_break' = external_break /\ links' = links /\ nack' = nack
  BY DEF PollReturns, NothingChosen
<1>2. LooksNow(t, c)
  BY <1>1, LooksIs
<1>3. /\ At(t, c) /\ program' = program
      /\ call'[t] = c[2] /\ \A u \in Thread : u # t => call'[u] = call[u] /\ start'[u] = start[u]
      /\ call' \in [Thread -> 0..MaxCalls] /\ start' \in [Thread -> 0..(MaxEvts - 1)]
      /\ suspend_break[t] \in Int /\ suspend_break[t] <= 1
      /\ suspend_break[t] = 1 => SyncOf(c).enable
      /\ WordInv(t) /\ pc[t] = "poll" /\ c = Current(t)
      /\ running[t] = {"RUNNING"} /\ t \in Thread
  BY <1>2 DEF LooksNow
<1>4. nack' \in [Syncer -> NackType] /\ NacksOver(c)
  BY <1>1, AlreadyOver
<1>5. /\ suspend_break' \in [Thread -> Int]
      /\ suspend_break'[t] = suspend_break[t] - (IF SyncOf(c).enable THEN 1 ELSE 0)
      /\ \A u \in Thread : u # t => suspend_break'[u] = suspend_break[u]
  BY <1>1, BreaksIs
<1>6. pc'[t] = "run" /\ \A d \in Call : d # c => outcome'[d] = outcome[d]
  BY <1>1, ReturnIs
<1>7. Others(t) /\ OtherSyncs(c)
  BY <1>1, <1>3, <1>5, <1>6 DEF Others, OtherSyncs
<1>8. BreaksOver(t)
  BY <1>3, <1>5 DEF BreaksOver
<1>9. WordInv(t)'
  BY <1>1, <1>3, <1>6, WordRuns
<1>10. PlacesKept(t)
  BY <1>1, LinksWithin, WithinKept DEF PlacesAs
<1>11. OutNext(t)
  <2>1. SUFFICES ASSUME NEW w \in links.in_line, w[1] = t PROVE FALSE
    BY <1>1 DEF OutNext
  <2>2. w \in Syncer
    BY GoodIs DEF IInv
  <2>3. CallOf(w) = c /\ (pc[t] = "wait" \/ result[CallOf(w)] = 0)
    BY <1>3, <2>1, <2>2 DEF IInv, SyncerInv, PlaceInv
  <2>4. QED BY <1>1, <1>3, <2>3
<1>12. Good(links)'
  BY <1>1, <1>3, GoodNext DEF IInv
<1>13. /\ \A u \in Thread : Fine(u)'
       /\ pc' \in PcType /\ outcome' \in OutcomeType
  BY <1>1, <1>3, <1>4, <1>7, <1>8, <1>9, <1>10, <1>11, EndedFine
<1>14. Types'
  BY <1>1, <1>3, <1>4, <1>5, <1>13, TypesIs, TypesNext
<1>15. Met'
  BY <1>1, <1>3, <1>12, MetStays
<1>16. QED BY <1>12, <1>13, <1>14, <1>15, FineNext

\* It finds that its time is over.
LEMMA PollsTimeOut ==
  ASSUME IInv, NEW c \in Call, NEW t, t = c[1], PollTimesOut(t, c)
  PROVE  IInv'
<1>1. /\ Looks(t, c) /\ result[c] = 0 /\ suspend_break' = Breaks({}, c) /\ Return(c, "false")
      /\ result' = result /\ got' = got /\ value' = value /\ running' = running
      /\ external_break' = external_break /\ links' = OutByNacks(links, c, result[c])
      /\ nack' = NacksPosted(nack, {c}, {})
  BY DEF PollTimesOut, Unready, NothingChosen
<1>2. LooksNow(t, c)
  BY <1>1, LooksIs
<1>3. /\ At(t, c) /\ program' = program
      /\ call'[t] = c[2] /\ \A u \in Thread : u # t => call'[u] = call[u] /\ start'[u] = start[u]
      /\ call' \in [Thread -> 0..MaxCalls] /\ start' \in [Thread -> 0..(MaxEvts - 1)]
      /\ suspend_break[t] \in Int /\ suspend_break[t] <= 1
      /\ suspend_break[t] = 1 => result[c] # 0
      /\ WordInv(t) /\ pc[t] = "poll" /\ c = Current(t) /\ Made(c) /\ c[1] = t
      /\ running[t] = {"RUNNING"} /\ t \in Thread
  BY <1>2 DEF LooksNow
<1>4. /\ nack' \in [Syncer -> NackType] /\ NacksOver(c)
      /\ \A w \in Syncer : CallOf(w) # c => nack'[w] = nack[w]
  BY <1>1, PostedOver
<1>5. /\ suspend_break' \in [Thread -> Int]
      /\ suspend_break'[t] = suspend_break[t] - (IF SyncOf(c).enable THEN 1 ELSE 0)
      /\ \A u \in Thread : u # t => suspend_break'[u] = suspend_break[u]
  BY <1>1, BreaksIs
<1>6. pc'[t] = "run" /\ \A d \in Call : d # c => outcome'[d] = outcome[d]
  BY <1>1, ReturnIs
<1>7. Others(t) /\ OtherSyncs(c)
  BY <1>1, <1>3, <1>4, <1>5, <1>6 DEF Others, OtherSyncs
<1>8. BreaksOver(t)
  BY <1>1, <1>3, <1>5 DEF BreaksOver
<1>9. WordInv(t)'
  BY <1>1, <1>3, <1>6, WordRuns
<1>10. Good(links)' /\ PlacesKept(t) /\ OutNext(t) /\ \A x \in links'.in_line : x \in links.in_line
  BY <1>1, <1>3, NackedIs
<1>13. /\ \A u \in Thread : Fine(u)'
       /\ pc' \in PcType /\ outcome' \in OutcomeType
  BY <1>1, <1>3, <1>4, <1>7, <1>8, <1>9, <1>10, EndedFine
<1>14. Types'
  BY <1>1, <1>3, <1>4, <1>5, <1>13, TypesIs, TypesNext
<1>15. Met'
  BY <1>1, <1>3, <1>10, MetStays
<1>16. QED BY <1>10, <1>13, <1>14, <1>15, FineNext

\* The thread takes a post.
LEMMA PollsTake ==
  ASSUME IInv, NEW c \in Call, NEW t, t = c[1], PollTakes(t, c)
  PROVE  IInv'
<1>1. PICK order, posted, v : /\ order = Rotated(c, start[t])
                              /\ posted = {k \in 1..Len(order) : Posted(order[k])}
                              /\ v = order[Min(posted)]
  OBVIOUS
<1>2. /\ Looks(t, c) /\ result[c] = 0 /\ posted # {}
      /\ links' = OutByNacks(links, c, result[c]) /\ value' = PostTaken(v)
      /\ Choose({v}, nack, c) /\ Return(c, "evt") /\ external_break' = external_break
  BY <1>1 DEF PollTakes
<1>3. LooksNow(t, c)
  BY <1>2, LooksIs
<1>4. /\ At(t, c) /\ program' = program /\ start[t] < Len(SyncOf(c).evts)
      /\ call'[t] = c[2] /\ \A u \in Thread : u # t => call'[u] = call[u] /\ start'[u] = start[u]
      /\ call' \in [Thread -> 0..MaxCalls] /\ start' \in [Thread -> 0..(MaxEvts - 1)]
      /\ WordInv(t) /\ outcome[c] = "going" /\ pc[t] = "poll" /\ c = Current(t) /\ Made(c) /\ c[1] = t
      /\ running[t] = {"RUNNING"} /\ t \in Thread
  BY <1>3 DEF LooksNow
<1>5. v \in OfCall(c) /\ Posted(v) /\ OnSema(v)
  <2>1. program \in Programs /\ start[t] \in Nat
    BY <1>4, TypesIs DEF IInv, Types
  <2>2. Len(order) \in Nat /\ \A j \in 1..Len(order) : order[j] \in OfCall(c)
    BY <1>1, <1>4, <2>1, RotatedIs
  <2>3. posted \in SUBSET Nat
    BY <1>1, <2>2
  <2>4. Min(posted) \in posted
    BY <1>2, <2>3, MinIs
  <2>5. QED BY <1>1, <2>2, <2>4 DEF Posted
<1>6. v \in Syncer /\ Real(v) /\ CallOf(v) = c /\ v[1] = t
  BY <1>4, <1>5, SyncerIs DEF OfCall
<1>7. nack \in [Syncer -> NackType] /\ NewNacks(nack, c)
  <2>1. "KILLED" \notin running[c[1]]
    BY <1>4
  <2>2. NewNacks(nack, c)
    BY <1>2, <1>4, <2>1, StillMade
  <2>3. QED BY <2>2, TypesIs
<1>8. Chosen({v}, nack, c)
  BY <1>2, <1>5, <1>7, TakeChosen
<1>9. Good(links)' /\ PlacesKept(t) /\ OutNext(t) /\ \A x \in links'.in_line : x \in links.in_line
  BY <1>2, <1>4, NackedIs
<1>10. /\ pc' \in PcType /\ outcome' \in OutcomeType
       /\ pc' = [pc EXCEPT ![t] = "run"] /\ outcome' = [outcome EXCEPT ![c] = "evt"]
       /\ \A u \in Thread : u # t => pc'[u] = pc[u]
       /\ Elsewhere(t)
  BY <1>2, ReturnIs
<1>11. Apartly(t)
  BY <1>2, <1>4, <1>10 DEF Apartly
<1>12. Ends1(t, c)
  BY <1>2, <1>4, <1>9, <1>10 DEF Ends1
<1>13. \A u \in Thread : u # t => Fine(u)'
  BY <1>4, <1>5, <1>7, <1>8, <1>9, <1>10, <1>11, TakeFine
<1>14. PICK chosen : chosen = {v}
  OBVIOUS
<1>15. /\ chosen \in SUBSET Syncer /\ Chosen(chosen, nack, c) /\ v \in chosen
       /\ \A x \in chosen : x[1] = t => x = v
  BY <1>6, <1>8, <1>14
<1>16. Fine(t)'
  BY <1>4, <1>5, <1>7, <1>12, <1>15, ChooserOver
<1>17. value' \in [Sema -> 0..MaxCount] /\ \A s \in Sema : value[s] = 0 => value'[s] = 0
  BY <1>2, <1>5, <1>6, PostTakenIs
<1>18. Types'
  BY <1>2, <1>4, <1>10, <1>15, <1>17, TypesIs, TypesNext DEF Chosen
<1>19. Met'
  BY <1>4, <1>9, <1>17, MetStays
<1>20. QED BY <1>9, <1>13, <1>16, <1>18, <1>19, FineNext

\* It finds nothing, and the thread goes to sleep.
LEMMA PollsSleep ==
  ASSUME IInv, NEW c \in Call, NEW t, t = c[1], PollSleeps(t, c)
  PROVE  IInv'
<1>1. /\ Looks(t, c) /\ result[c] = 0 /\ ~BreakDue(t)
      /\ \A i \in 1..Len(SyncOf(c).evts) :
           SyncOf(c).evts[i].kind \in {"sema", "peek"} => value[SyncOf(c).evts[i].on] = 0
      /\ links' = Join(links, c) /\ Sleep(t)
      /\ value' = value /\ nack' = nack /\ suspend_break' = suspend_break
      /\ outcome' = outcome /\ result' = result /\ got' = got
      /\ external_break' = external_break
  BY DEF PollSleeps, Unready, NothingChosen
<1>2. LooksNow(t, c)
  BY <1>1, LooksIs
<1>3. /\ At(t, c) /\ program' = program /\ start'[t] < Len(SyncOf(c).evts)
      /\ call'[t] = c[2] /\ \A u \in Thread : u # t => call'[u] = call[u] /\ start'[u] = start[u]
      /\ call' \in [Thread -> 0..MaxCalls] /\ start' \in [Thread -> 0..(MaxEvts - 1)]
      /\ WordInv(t) /\ c = Current(t) /\ outcome[c] = "going"
      /\ running[t] = {"RUNNING"} /\ t \in Thread
  BY <1>2 DEF LooksNow
<1>4. NewNacks(nack, c)
  BY <1>1, <1>3, StillMade
<1>5. Within(links, c)
  BY LinksWithin
<1>6. \A x \in links.in_line : x[1] = t => CallOf(x) = c
  BY <1>3, GoodIs DEF IInv, SyncerInv, PlaceInv
<1>7. /\ Good(links)' /\ PlacesKept(t) /\ \A w \in links'.in_line : w[1] = t => w \in OfCall(c)
      /\ links'.in_line = links.in_line \cup OfCall(c)
  BY <1>1, <1>3, <1>5, <1>6, JoinedIs
<1>8. /\ pc' \in PcType /\ running' \in [Thread -> SUBSET Flag]
      /\ pc'[t] = "wait" /\ \A u \in Thread : u # t => pc'[u] = pc[u]
      /\ running'[t] = running[t] \cup {"NEED_KILL_CLEANUP", "SUSPENDED"}
      /\ \A u \in Thread : u # t => running'[u] = running[u]
  BY <1>1, <1>3, SleepIs
<1>9. Others(t) /\ OtherPcs(t) /\ OtherSyncs(c)
  BY <1>1, <1>3, <1>8 DEF Others, OtherPcs, OtherSyncs
<1>10. GoesOn(t, c)
  BY <1>1, <1>3, <1>4, <1>7, <1>8 DEF GoesOn, NewNacks
<1>11. WordInv(t)'
  BY <1>1, <1>3, <1>8 DEF WordInv
<1>12. \A u \in Thread : Fine(u)'
  BY <1>1, <1>3, <1>7, <1>9, <1>10, <1>11, GoingFine
<1>13. Types'
  BY <1>1, <1>3, <1>8, TypesIs, TypesNext
<1>14. ASSUME NEW x \in OfCall(c)
       PROVE  /\ OnSema(x) => value[EvtOf(x).on] = 0
              /\ ~OnSema(x) /\ Attentive(program) => x \in links.in_line
  <2>1. x \in Syncer /\ Real(x) /\ CallOf(x) = c /\ x[1] = t /\ x[3] \in 1..Len(SyncOf(c).evts)
        /\ EvtOf(x) = SyncOf(c).evts[x[3]]
    <3>1. x \in Syncer /\ Real(x) /\ CallOf(x) = c
      BY DEF OfCall
    <3>2. x[3] \in 1..Len(SyncOf(c).evts) /\ x[1] = t
      BY <3>1, EvtIs, SyncerIs DEF IInv, Types
    <3>3. QED BY <3>1, <3>2 DEF EvtOf
  <2>2. OnSema(x) => value[EvtOf(x).on] = 0
    BY <1>1, <2>1 DEF OnSema
  <2>3. ASSUME ~OnSema(x), Attentive(program) PROVE x \in links.in_line
    <3>1. KeptInv(x)
      BY <2>1 DEF IInv, SyncerInv
    <3>2. Deferred(c) /\ Made(c) /\ c = <<t, call[t]>>
      BY <1>2 DEF LooksNow, IInv, ThreadInv, StageInv, Current
    <3>3. "suspend" \notin program[t].signals
      <4>1. c[2] \in 1..Len(program[t].syncs) /\ Defers(program[t].syncs[c[2]])
        BY <1>3, <3>2 DEF Made, Deferred, SyncOf, Call
      <4>2. QED BY <1>3, <2>3, <4>1 DEF Attentive
    <3>4. ~pending_break(t)
      BY <1>1, <1>3 DEF pending_break
    <3>5. InPoll(t)
      BY <1>2, <3>3 DEF InPoll, LooksNow
    <3>6. QED BY <1>1, <1>3, <2>1, <2>3, <3>1, <3>4, <3>5 DEF KeptInv
  <2>4. QED BY <2>2, <2>3
<1>15. Met'
  BY <1>1, <1>3, <1>7, <1>14, MetNext
<1>16. QED BY <1>7, <1>12, <1>13, <1>15, FineNext

\* semaphore-post
LEMMA Posts ==
  ASSUME IInv, NEW t \in Thread, NEW s \in Sema, Post(t, s)
  PROVE  IInv'
<1>1. PICK a, c, e : a = Serve(s) /\ c = <<Null, 0>> /\ e = [kind |-> "sema", on |-> s]
  OBVIOUS
<1>2. /\ value[s] < MaxCount /\ links' = a.links /\ value' = [value EXCEPT ![s] = value[s] + a.left]
      /\ Choose(a.takers, nack, c)
      /\ program' = program /\ call' = call /\ pc' = pc /\ start' = start
      /\ external_break' = external_break /\ outcome' = outcome
  BY <1>1 DEF Post
<1>3. PICK W \in SUBSET OnLine(links, e) : Serving(a, W) /\ (a.left = 1 => W = OnLine(links, e))
  BY <1>1, ServeIs
<1>4. /\ Good(a.links) /\ a.links.in_line = links.in_line \ W
      /\ a.takers \in SUBSET W /\ \A w \in a.takers : CanTake(w)
      /\ \A w, x \in a.takers : CallOf(w) = CallOf(x) => w = x
      /\ \A w \in W : CanTake(w) => \E x \in a.takers : CallOf(x) = CallOf(w)
      /\ a.left \in {0, 1}
  BY <1>3 DEF Serving
<1>5. \A w \in W : /\ w \in links.in_line /\ w \in Syncer /\ Real(w) /\ OnSema(w)
                   /\ CallOf(w) = Current(w[1]) /\ pc[w[1]] = "wait"
  <2>1. SUFFICES ASSUME NEW w \in W
                 PROVE  /\ w \in links.in_line /\ w \in Syncer /\ Real(w) /\ OnSema(w)
                        /\ CallOf(w) = Current(w[1]) /\ pc[w[1]] = "wait"
    OBVIOUS
  <2>2. w \in links.in_line /\ LineOf(w) = e
    BY <1>3 DEF OnLine
  <2>3. w \in Syncer /\ Real(w)
    BY <2>2, GoodIs DEF IInv
  <2>4. OnSema(w)
    <3>1. SUFFICES ASSUME ~OnSema(w) PROVE FALSE
      OBVIOUS
    <3>2. LineOf(w) = EvtOf(w) /\ EvtOf(w).kind \in {"get", "put"}
      BY <2>3, <3>1, EvtIs DEF IInv, Types
    <3>3. LineOf(w).kind = "sema"
      BY <1>1, <2>2
    <3>4. QED BY <3>2, <3>3
  <2>5. CallOf(w) = Current(w[1]) /\ pc[w[1]] = "wait"
    BY <2>2, <2>3, <2>4 DEF IInv, SyncerInv, PlaceInv
  <2>6. QED BY <2>2, <2>3, <2>4, <2>5
<1>6. PICK chosen : chosen = a.takers
  OBVIOUS
<1>7. /\ chosen \in SUBSET Syncer
      /\ \A w \in chosen, x \in chosen : w[1] = x[1] => w = x
      /\ \A w \in chosen : EvtOf(w).kind # "get"
  <2>1. chosen \in SUBSET Syncer
    BY <1>4, <1>5, <1>6
  <2>2. \A w \in chosen : EvtOf(w).kind # "get"
    BY <1>4, <1>5, <1>6 DEF OnSema
  <2>3. \A w \in chosen, x \in chosen : w[1] = x[1] => w = x
    <3>1. SUFFICES ASSUME NEW w \in chosen, NEW x \in chosen, w[1] = x[1] PROVE w = x
      OBVIOUS
    <3>2. CallOf(w) = CallOf(x)
      BY <1>4, <1>5, <1>6, <3>1
    <3>3. QED BY <1>4, <1>6, <3>2
  <2>4. QED BY <2>1, <2>2, <2>3
<1>8. Chosen(chosen, nack, c)
  <2>1. nack \in [Syncer -> NackType] /\ Choose(chosen, nack, c)
    BY <1>2, <1>6, TypesIs
  <2>2. QED BY <1>7, <2>1, ChooseIs
<1>9. c[1] \notin Thread
  BY <1>1, ConstantsAssumption
<1>10. ASSUME NEW u \in Thread
       PROVE  Fine(u)'
  <2>1. CASE \E w \in chosen : w[1] = u
    <3>1. PICK w \in chosen : w[1] = u
      BY <2>1
    <3>2. /\ w \in links.in_line /\ CanTake(w) /\ w \in Syncer /\ CallOf(w) \in Call
          /\ CallOf(w)[1] = u /\ pc[u] = "wait" /\ w[1] # c[1]
      BY <1>4, <1>5, <1>6, <1>9, <3>1, SyncerIs
    <3>3. /\ running'[u] = WeakResume(running[u])
          /\ suspend_break'[u] = suspend_break[u] + (IF SyncOf(CallOf(w)).enable THEN 1 ELSE 0)
          /\ result'[CallOf(w)] = w[3]
      BY <1>8, <3>1, <3>2 DEF Chosen
    <3>4. ASSUME NEW d \in Call, d[1] = u
          PROVE  result'[d] = IF d = CallOf(w) THEN w[3] ELSE result[d]
      <4>1. CASE d = CallOf(w)
        BY <3>3, <4>1
      <4>2. CASE d # CallOf(w)
        <5>1. \A x \in chosen : CallOf(x) # d
          BY <1>7, <3>1, <3>4, <4>2, SyncerIs
        <5>2. QED BY <1>8, <4>2, <5>1 DEF Chosen
      <4>3. QED BY <4>1, <4>2
    <3>5. ASSUME NEW x \in Syncer, x[1] = u
          PROVE  nack'[x] = IF nack[x] = "made" /\ CallOf(x) = CallOf(w)
                              THEN IF x = w THEN "kept" ELSE "posted" ELSE nack[x]
      <4>1. nack'[x] = IF nack[x] = "made" /\ \E y \in chosen : CallOf(y) = CallOf(x)
                         THEN IF x \in chosen THEN "kept" ELSE "posted" ELSE nack[x]
        BY <1>8 DEF Chosen
      <4>2. x \in chosen <=> x = w
        BY <1>7, <3>1, <3>5
      <4>3. (\E y \in chosen : CallOf(y) = CallOf(x)) <=> CallOf(x) = CallOf(w)
        BY <1>7, <3>1, <3>5, SyncerIs
      <4>4. QED BY <4>1, <4>2, <4>3
    <3>6. \A x \in Syncer : x[1] = u /\ x \in links'.in_line => x \in links.in_line /\ pc[u] = "wait"
      BY <1>2, <1>4, <3>2
    <3>7. QED BY <1>2, <3>1, <3>2, <3>3, <3>4, <3>5, <3>6, ChosenFine
  <2>2. CASE \A w \in chosen : w[1] # u
    <3>1. SameThread(u)
      BY <1>2, <1>8, <1>9, <2>2 DEF SameThread, Chosen
    <3>2. SameCalls(u)
      <4>1. \A d \in Call : d[1] = u => result'[d] = result[d]
        BY <1>7, <1>8, <2>2, SyncerIs DEF Chosen
      <4>2. QED BY <1>2, <4>1 DEF SameCalls
    <3>3. SameNacks(u)
      <4>1. SUFFICES ASSUME NEW x \in Syncer, x[1] = u PROVE nack'[x] = nack[x]
        BY DEF SameNacks
      <4>2. \A y \in chosen : CallOf(y) # CallOf(x)
        BY <1>7, <2>2, <4>1, SyncerIs
      <4>3. nack'[x] = IF nack[x] = "made" /\ \E y \in chosen : CallOf(y) = CallOf(x)
                         THEN IF x \in chosen THEN "kept" ELSE "posted" ELSE nack[x]
        BY <1>8 DEF Chosen
      <4>4. QED BY <4>2, <4>3
    <3>4. SamePlaces(u)
      <4>1. SUFFICES ASSUME NEW x \in Syncer, x[1] = u
                     PROVE  /\ x \in links'.in_line => x \in links.in_line
                            /\ x \in links.in_line /\ x \notin links'.in_line => ~CanTake(x)
        BY DEF SamePlaces
      <4>2. ASSUME x \in W PROVE ~CanTake(x)
        BY <1>4, <1>6, <1>7, <2>2, <4>1, <4>2, SyncerIs
      <4>3. QED BY <1>2, <1>4, <4>2
    <3>5. QED BY <1>2, <3>1, <3>2, <3>3, <3>4, StaysFine
  <2>3. QED BY <2>1, <2>2
<1>11. Good(links)'
  BY <1>2, <1>4, GoodNext
<1>12. value' \in [Sema -> 0..MaxCount]
  <2>1. value \in [Sema -> 0..MaxCount] /\ MaxCount \in Nat
    BY TypesIs, ConstantsAssumption
  <2>2. value[s] + a.left \in 0..MaxCount
    BY <1>2, <1>4, <2>1
  <2>3. QED BY <1>2, <2>1, <2>2
<1>13. Types'
  BY <1>2, <1>8, <1>12, TypesIs, TypesNext DEF Chosen
<1>14. Drained(links)'
  <2>1. SUFFICES ASSUME NEW x \in links'.in_line, OnSema(x) PROVE value'[EvtOf(x).on] = 0
    BY <1>2, Primes DEF Drained
  <2>2. x \in links.in_line /\ x \notin W
    BY <1>2, <1>4, <2>1
  <2>3. x \in Syncer /\ Real(x)
    BY <2>2, GoodIs DEF IInv
  <2>4. LineOf(x) = [kind |-> "sema", on |-> EvtOf(x).on] /\ EvtOf(x).on \in Sema
    BY <2>1, <2>3, EvtIs DEF IInv, Types
  <2>5. value[EvtOf(x).on] = 0
    BY <2>1, <2>2 DEF IInv, Met, Drained
  <2>6. value'[EvtOf(x).on] = value[EvtOf(x).on] + (IF EvtOf(x).on = s THEN a.left ELSE 0)
    BY <1>2, <2>4, <2>5, TypesIs
  <2>7. EvtOf(x).on = s => a.left = 0
    BY <1>1, <1>3, <1>4, <2>2, <2>4 DEF OnLine
  <2>8. QED BY <2>5, <2>6, <2>7
<1>15. Met'
  BY <1>2, <1>4, <1>11, <1>14, MetDrained
<1>16. QED BY <1>10, <1>11, <1>13, <1>15, FineNext

-----------------------------------------------------------------------------
\* A signal that changes only the word of p, or its external_break.
Signalled(p) ==
  /\ program' = program /\ call' = call /\ pc' = pc /\ start' = start
  /\ suspend_break' = suspend_break /\ value' = value /\ links' = links
  /\ result' = result /\ got' = got /\ nack' = nack /\ outcome' = outcome
  /\ running' \in [Thread -> SUBSET Flag] /\ external_break' \in [Thread -> BOOLEAN]
  /\ \A u \in Thread : u # p => running'[u] = running[u] /\ external_break'[u] = external_break[u]

\* It does not leave p asleep outside its lines: a thread that sleeps is woken, and
\* one that is polled has not been out of them.
Wakes(p) ==
  \/ pc[p] = "run" \/ outcome[Current(p)] # "going" \/ pending_break(p)'
  \/ ~Sleeps(p)' /\ (InPoll(p) => ~pending_break(p))

\* Such a signal keeps the invariant.
LEMMA SignalFine ==
  ASSUME IInv, NEW p \in Thread, Signalled(p), WordInv(p)', Wakes(p),
         running[p] # {},
         \/ running'[p] # {} /\ ("KILLED" \in running'[p] <=> "KILLED" \in running[p])
         \/ running'[p] = {} /\ "KILLED" \in running[p] /\ pc[p] # "wait"
         \/ pc[p] = "run"
  PROVE  IInv'
<1>1. /\ program' = program /\ call' = call /\ pc' = pc /\ start' = start
      /\ suspend_break' = suspend_break /\ value' = value /\ links' = links
      /\ result' = result /\ got' = got /\ nack' = nack /\ outcome' = outcome
      /\ running' \in [Thread -> SUBSET Flag] /\ external_break' \in [Thread -> BOOLEAN]
      /\ \A u \in Thread : u # p => running'[u] = running[u] /\ external_break'[u] = external_break[u]
  BY DEF Signalled
<1>2. Types'
  BY <1>1, TypesIs, TypesNext
<1>3. Good(links)'
  BY <1>1, GoodNext DEF IInv
<1>4. ASSUME NEW u \in Thread, u # p PROVE Fine(u)'
  <2>1. SameThread(u) /\ SameCalls(u) /\ SameNacks(u) /\ SamePlaces(u)
    BY <1>1, <1>4 DEF SameThread, SameCalls, SameNacks, SamePlaces
  <2>2. QED BY <1>1, <2>1, StaysFine
<1>5. Current(p)' = Current(p)
  BY <1>1 DEF Current
<1>6. StageInv(p) /\ BreakInv(p)
  BY DEF IInv, ThreadInv
<1>7. StageInv(p)'
  BY <1>1, <1>5, <1>6, Primes DEF StageInv
<1>8. BreakInv(p)'
  BY <1>1, <1>5, <1>6, Primes DEF BreakInv
<1>9. ASSUME NEW d \in Call, d[1] = p PROVE CallInv(d)'
  <2>1. CallInv(d)
    BY DEF IInv
  <2>2. QED BY <1>1, <1>5, <1>9, <2>1, Primes DEF CallInv
<1>10. ASSUME NEW w \in Syncer, w[1] = p PROVE SyncerInv(w)'
  <2>1. NackInv(w) /\ PlaceInv(w) /\ KeptInv(w) /\ CallInv(CallOf(w)) /\ CallOf(w)[1] = p
    BY <1>10, SyncerIs DEF IInv, SyncerInv
  <2>2. outcome[CallOf(w)] = "going" => ("KILLED" \in running'[p] <=> "KILLED" \in running[p])
    <3>1. outcome[CallOf(w)] = "going" => CallOf(w) = Current(p) /\ pc[p] # "run"
      BY <2>1 DEF CallInv
    <3>2. QED BY <1>6, <3>1 DEF StageInv
  <2>3. NackInv(w)'
    BY <1>1, <1>10, <2>1, <2>2, Primes DEF NackInv
  <2>4. PlaceInv(w)'
    BY <1>1, <1>5, <1>10, <2>1, Primes DEF PlaceInv
  <2>5. KeptInv(w)'
    <3>1. SUFFICES ASSUME /\ Real(w) /\ CallOf(w) = Current(p)
                          /\ outcome[CallOf(w)] = "going" /\ result[CallOf(w)] = 0 /\ ~pending_break(p)'
                          /\ Sleeps(p)' \/ (InPoll(p)' /\ ~OnSema(w))
                   PROVE  w \in links.in_line
      BY <1>1, <1>5, <1>10, Primes DEF KeptInv
    <3>2. pc[p] # "run"
      BY <2>1, <3>1 DEF CallInv
    <3>3. InPoll(p)' <=> InPoll(p)
      BY <1>1 DEF InPoll
    <3>4. InPoll(p) /\ ~OnSema(w) /\ ~pending_break(p)
      BY <3>1, <3>2, <3>3 DEF Wakes
    <3>5. QED BY <1>10, <2>1, <3>1, <3>4 DEF KeptInv
  <2>6. QED BY <2>3, <2>4, <2>5 DEF SyncerInv
<1>11. Fine(p)'
  BY <1>7, <1>8, <1>9, <1>10 DEF Fine, ThreadInv
<1>12. Met'
  BY <1>1, <1>3, MetStays
<1>13. QED BY <1>2, <1>3, <1>4, <1>11, <1>12, FineNext

\* Words stay words.
LEMMA WordsAre ==
  ASSUME NEW word \in SUBSET Flag
  PROVE  /\ WeakResume(word) \in SUBSET Flag /\ UserSuspend(word) \in SUBSET Flag
         /\ UserResume(word) \in SUBSET Flag /\ Kill(word) \in SUBSET Flag
         /\ \A f \in {"RUNNING", "KILLED", "NEED_KILL_CLEANUP", "USER_SUSPENDED"} :
              f \in WeakResume(word) <=> f \in word
         /\ "RUNNING" \in UserSuspend(word) <=> "RUNNING" \in word
         /\ "KILLED" \in UserSuspend(word) <=> "KILLED" \in word
         /\ "NEED_KILL_CLEANUP" \in UserSuspend(word) <=> "NEED_KILL_CLEANUP" \in word
         /\ "RUNNING" \in UserResume(word) <=> "RUNNING" \in word
         /\ "KILLED" \in UserResume(word) <=> "KILLED" \in word
         /\ "NEED_KILL_CLEANUP" \in UserResume(word) <=> "NEED_KILL_CLEANUP" \in word
         /\ "SUSPENDED" \in WeakResume(word) => "USER_SUSPENDED" \in word
         /\ "USER_SUSPENDED" \in UserSuspend(word)
         /\ "USER_SUSPENDED" \notin UserResume(word) /\ "SUSPENDED" \notin UserResume(word)
BY DEF WeakResume, UserSuspend, WeakSuspend, UserResume, Kill, Queued, Flag

\* A thread raises its break between two syncs.
LEMMA RaisesBreak ==
  ASSUME IInv, NEW t \in Thread, RaiseBreak(t)
  PROVE  IInv'
<1>1. /\ pc[t] = "run" /\ running[t] = {"RUNNING"}
      /\ external_break' = [external_break EXCEPT ![t] = FALSE]
      /\ program' = program /\ call' = call /\ pc' = pc /\ start' = start
      /\ result' = result /\ got' = got /\ running' = running /\ suspend_break' = suspend_break
      /\ value' = value /\ links' = links /\ nack' = nack /\ outcome' = outcome
  BY DEF RaiseBreak, NoSyncGoesOn, NothingChosen
<1>2. external_break \in [Thread -> BOOLEAN] /\ running \in [Thread -> SUBSET Flag] /\ WordInv(t)
  BY TypesIs DEF IInv, ThreadInv
<1>3. /\ external_break' \in [Thread -> BOOLEAN] /\ external_break'[t] = FALSE
      /\ \A u \in Thread : u # t => external_break'[u] = external_break[u]
  BY <1>1, <1>2
<1>4. Signalled(t)
  BY <1>1, <1>2, <1>3 DEF Signalled
<1>5. WordInv(t)'
  BY <1>1, <1>2, <1>3 DEF WordInv
<1>6. running[t] # {}
  BY <1>1
<1>7. Wakes(t)
  BY <1>1 DEF Wakes
<1>8. QED BY <1>1, <1>4, <1>5, <1>6, <1>7, SignalFine

\* A new word for p, and nothing else.
Reworded(p, word) ==
  /\ running' = [running EXCEPT ![p] = word] /\ external_break' = external_break
  /\ program' = program /\ call' = call /\ pc' = pc /\ start' = start
  /\ result' = result /\ got' = got /\ suspend_break' = suspend_break
  /\ value' = value /\ links' = links /\ nack' = nack /\ outcome' = outcome

\* This is such a signal.
LEMMA RewordedIs ==
  ASSUME IInv, NEW p \in Thread, NEW word \in SUBSET Flag, Reworded(p, word)
  PROVE  Signalled(p) /\ running'[p] = word
<1>1. running \in [Thread -> SUBSET Flag] /\ external_break \in [Thread -> BOOLEAN]
  BY TypesIs
<1>2. /\ running' \in [Thread -> SUBSET Flag] /\ running'[p] = word
      /\ \A u \in Thread : u # p => running'[u] = running[u]
  BY <1>1 DEF Reworded
<1>3. QED BY <1>1, <1>2 DEF Signalled, Reworded

\* break-thread
LEMMA BreaksThread ==
  ASSUME IInv, NEW t \in Thread, NEW p \in Thread, BreakThread(t, p)
  PROVE  IInv'
<1>1. PICK word : word = WeakResume(running[p])
  OBVIOUS
<1>2. /\ "break" \in program[p].signals /\ running[p] # {}
      /\ external_break' = [external_break EXCEPT ![p] = TRUE]
      /\ running' = [running EXCEPT ![p] = word]
      /\ program' = program /\ call' = call /\ pc' = pc /\ start' = start
      /\ result' = result /\ got' = got /\ suspend_break' = suspend_break
      /\ value' = value /\ links' = links /\ nack' = nack /\ outcome' = outcome
  BY <1>1 DEF BreakThread, Sends, NoSyncGoesOn, NothingChosen
<1>3. external_break \in [Thread -> BOOLEAN] /\ running \in [Thread -> SUBSET Flag] /\ WordInv(p)
  BY TypesIs DEF IInv, ThreadInv
<1>4. /\ word \in SUBSET Flag
      /\ \A f \in {"RUNNING", "KILLED", "NEED_KILL_CLEANUP", "USER_SUSPENDED"} :
           f \in word <=> f \in running[p]
      /\ "SUSPENDED" \in word => "USER_SUSPENDED" \in running[p]
  BY <1>1, <1>3, WordsAre
<1>5. /\ external_break' \in [Thread -> BOOLEAN] /\ running' \in [Thread -> SUBSET Flag]
      /\ \A u \in Thread : u # p => external_break'[u] = external_break[u] /\ running'[u] = running[u]
      /\ running'[p] = word
  BY <1>2, <1>3, <1>4
<1>6. Signalled(p)
  BY <1>2, <1>5 DEF Signalled
<1>7. "RUNNING" \in word
  BY <1>2, <1>3, <1>4 DEF WordInv
<1>8. WordInv(p)'
  BY <1>2, <1>3, <1>4, <1>5, <1>7 DEF WordInv
<1>9. running'[p] # {} /\ ("KILLED" \in running'[p] <=> "KILLED" \in running[p])
  BY <1>4, <1>5, <1>7
<1>10. Wakes(p)
  <2>1. SUFFICES ASSUME ~pending_break(p)' PROVE ~Sleeps(p)' /\ ~pending_break(p)
    BY DEF Wakes
  <2>2. "KILLED" \notin word /\ "USER_SUSPENDED" \notin word /\ ~BreakDue(p)'
    BY <1>5, <2>1 DEF pending_break
  <2>3. ~Sleeps(p)'
    BY <1>4, <1>5, <2>2 DEF Sleeps
  <2>4. CanBreak(p)' <=> CanBreak(p)
    BY <1>2, Primes DEF CanBreak, Current
  <2>5. external_break'[p]
    BY <1>2, <1>3
  <2>6. ~BreakDue(p)
    BY <2>2, <2>4, <2>5 DEF BreakDue
  <2>7. QED BY <1>4, <2>2, <2>3, <2>6 DEF pending_break
<1>11. QED BY <1>2, <1>6, <1>8, <1>9, <1>10, SignalFine

\* thread-suspend
LEMMA SuspendsThread ==
  ASSUME IInv, NEW t \in Thread, NEW p \in Thread, ThreadSuspend(t, p)
  PROVE  IInv'
<1>1. PICK word : word = UserSuspend(running[p])
  OBVIOUS
<1>2. /\ "suspend" \in program[p].signals /\ running[p] # {} /\ "KILLED" \notin running[p]
      /\ Reworded(p, word)
  BY <1>1 DEF ThreadSuspend, Sends, StillRunning, NoSyncGoesOn, NothingChosen, Reworded
<1>3. running[p] \in SUBSET Flag /\ WordInv(p)
  BY TypesIs DEF IInv, ThreadInv
<1>4. /\ word \in SUBSET Flag
      /\ \A f \in {"RUNNING", "KILLED", "NEED_KILL_CLEANUP"} : f \in word <=> f \in running[p]
      /\ "USER_SUSPENDED" \in word
  BY <1>1, <1>3, WordsAre
<1>5. Signalled(p) /\ running'[p] = word
  BY <1>2, <1>4, RewordedIs
<1>6. "RUNNING" \in word
  BY <1>2, <1>3, <1>4 DEF WordInv
<1>7. program' = program /\ pc' = pc /\ external_break' = external_break
  BY <1>2 DEF Reworded
<1>8. WordInv(p)'
  BY <1>2, <1>3, <1>4, <1>5, <1>6, <1>7 DEF WordInv
<1>9. running'[p] # {} /\ ("KILLED" \in running'[p] <=> "KILLED" \in running[p])
  BY <1>4, <1>5, <1>6
<1>10. Wakes(p)
  BY <1>4, <1>5 DEF Wakes, pending_break
<1>11. QED BY <1>2, <1>5, <1>8, <1>9, <1>10, SignalFine

\* thread-resume
LEMMA ResumesThread ==
  ASSUME IInv, NEW t \in Thread, NEW p \in Thread, ThreadResume(t, p)
  PROVE  IInv'
<1>1. PICK word : word = UserResume(running[p])
  OBVIOUS
<1>2. /\ "suspend" \in program[p].signals /\ running[p] # {} /\ "KILLED" \notin running[p]
      /\ Reworded(p, word)
  BY <1>1 DEF ThreadResume, Sends, StillRunning, NoSyncGoesOn, NothingChosen, Reworded
<1>3. running[p] \in SUBSET Flag /\ WordInv(p)
  BY TypesIs DEF IInv, ThreadInv
<1>4. /\ word \in SUBSET Flag /\ "USER_SUSPENDED" \notin word /\ "SUSPENDED" \notin word
      /\ \A f \in {"RUNNING", "KILLED", "NEED_KILL_CLEANUP"} : f \in word <=> f \in running[p]
  BY <1>1, <1>3, WordsAre
<1>5. Signalled(p) /\ running'[p] = word
  BY <1>2, <1>4, RewordedIs
<1>6. "RUNNING" \in word
  BY <1>2, <1>3, <1>4 DEF WordInv
<1>7. program' = program /\ pc' = pc /\ external_break' = external_break
  BY <1>2 DEF Reworded
<1>8. WordInv(p)'
  BY <1>2, <1>3, <1>4, <1>5, <1>6, <1>7 DEF WordInv
<1>9. running'[p] # {} /\ ("KILLED" \in running'[p] <=> "KILLED" \in running[p])
  BY <1>4, <1>5, <1>6
<1>10. Wakes(p)
  BY <1>2, <1>4, <1>5 DEF Wakes, Sleeps, InPoll
<1>11. QED BY <1>2, <1>5, <1>8, <1>9, <1>10, SignalFine

\* The scheduler removes a killed thread.
LEMMA Reaps ==
  ASSUME IInv, NEW p \in Thread, ReapKilled(p)
  PROVE  IInv'
<1>1. PICK gone \in SUBSET Flag : gone = {}
  OBVIOUS
<1>2. /\ "KILLED" \in running[p] /\ "NEED_KILL_CLEANUP" \notin running[p] /\ Reworded(p, gone)
  BY <1>1 DEF ReapKilled, NoSyncGoesOn, NothingChosen, Reworded
<1>3. WordInv(p) /\ pc[p] # "wait"
  BY <1>2 DEF IInv, ThreadInv, WordInv
<1>4. Signalled(p) /\ running'[p] = {}
  BY <1>1, <1>2, RewordedIs
<1>5. program' = program /\ pc' = pc /\ external_break' = external_break
  BY <1>2 DEF Reworded
<1>6. WordInv(p)'
  BY <1>2, <1>3, <1>4, <1>5 DEF WordInv
<1>7. running[p] # {}
  BY <1>2
<1>8. Wakes(p)
  BY <1>2, <1>3 DEF Wakes, IInv, ThreadInv, StageInv
<1>9. QED BY <1>2, <1>3, <1>4, <1>6, <1>7, <1>8, SignalFine

\* What kill-thread does to the word.
LEMMA KillIs ==
  ASSUME NEW word \in SUBSET Flag, "KILLED" \notin word
  PROVE  /\ Kill(word) \in SUBSET Flag /\ "USER_SUSPENDED" \notin Kill(word)
         /\ "NEED_KILL_CLEANUP" \in word <=> "NEED_KILL_CLEANUP" \in Kill(word)
         /\ Kill(word) = {} \/ ("KILLED" \in Kill(word) /\ ("RUNNING" \in Kill(word) <=> "RUNNING" \in word))
         /\ "NEED_KILL_CLEANUP" \in word => Kill(word) # {}
BY DEF Kill, WeakResume, Queued, Flag

\* kill-thread
LEMMA KillsThread ==
  ASSUME IInv, NEW t \in Thread, NEW p \in Thread, KillThread(t, p)
  PROVE  IInv'
<1>1. PICK word, c : word = Kill(running[p]) /\ c = Current(p)
  OBVIOUS
<1>2. /\ "kill" \in program[p].signals /\ running[p] # {} /\ "KILLED" \notin running[p]
      /\ running' = [running EXCEPT ![p] = word]
      /\ IF pc[p] = "run" THEN links' = links /\ nack' = nack /\ outcome' = outcome
         ELSE /\ links' = OutByNacks(links, c, result[c])
              /\ nack' = NacksPosted(nack, {c}, {})
              /\ outcome' = [outcome EXCEPT ![c] =
                   IF "NEED_KILL_CLEANUP" \in running[p] THEN outcome[c] ELSE "killed"]
      /\ program' = program /\ call' = call /\ pc' = pc /\ start' = start
      /\ result' = result /\ got' = got /\ suspend_break' = suspend_break
      /\ value' = value /\ external_break' = external_break
  BY <1>1 DEF KillThread, Sends, StillRunning, NoSyncGoesOn, NothingChosen
<1>3. running \in [Thread -> SUBSET Flag] /\ running[p] \in SUBSET Flag /\ WordInv(p)
  BY TypesIs DEF IInv, ThreadInv
<1>4. /\ word \in SUBSET Flag /\ "USER_SUSPENDED" \notin word
      /\ "NEED_KILL_CLEANUP" \in running[p] <=> "NEED_KILL_CLEANUP" \in word
      /\ word = {} \/ ("KILLED" \in word /\ ("RUNNING" \in word <=> "RUNNING" \in running[p]))
      /\ "NEED_KILL_CLEANUP" \in running[p] => word # {}
  BY <1>1, <1>2, <1>3, KillIs
<1>5. /\ running' \in [Thread -> SUBSET Flag] /\ running'[p] = word
      /\ \A u \in Thread : u # p => running'[u] = running[u]
  BY <1>2, <1>3, <1>4
<1>6. "RUNNING" \in running[p] /\ ("NEED_KILL_CLEANUP" \in running[p] <=> pc[p] = "wait")
  BY <1>2, <1>3 DEF WordInv
<1>7. WordInv(p)'
  BY <1>2, <1>3, <1>4, <1>5, <1>6 DEF WordInv
<1>8. CASE pc[p] = "run"
  <2>1. Signalled(p)
    <3>1. external_break \in [Thread -> BOOLEAN]
      BY TypesIs
    <3>2. QED BY <1>2, <1>5, <1>8, <3>1 DEF Signalled
  <2>2. Wakes(p)
    BY <1>8 DEF Wakes
  <2>3. QED BY <1>2, <1>7, <1>8, <2>1, <2>2, SignalFine
<1>9. CASE pc[p] # "run"
  <2>1. c \in Call /\ Made(c) /\ c[1] = p /\ c[2] = call[p]
    BY <1>1, <1>9, CurrentIs
  <2>2. At(p, c)
    BY <1>1, <1>2, <1>9, <2>1 DEF At
  <2>3. /\ links' = OutByNacks(links, c, result[c]) /\ nack' = NacksPosted(nack, {c}, {})
        /\ outcome' = [outcome EXCEPT ![c] = IF pc[p] = "wait" THEN outcome[c] ELSE "killed"]
    BY <1>2, <1>6, <1>9
  <2>4. /\ Good(links)' /\ PlacesKept(p) /\ (pc[p] = "poll" \/ pc[p] = "block" => OutNext(p))
        /\ \A w \in links'.in_line : w \in links.in_line
    <3>1. result[c] = 0 \/ program[p].signals # {}
      BY <1>2
    <3>2. QED BY <1>1, <1>2, <1>9, <2>1, <2>3, <3>1, NackedIs
  <2>5. /\ nack' \in [Syncer -> NackType] /\ NacksOver(c)
        /\ \A w \in Syncer : CallOf(w) # c => nack'[w] = nack[w]
    BY <2>1, <2>3, PostedOver
  <2>6. outcome \in OutcomeType
    BY TypesIs
  <2>7. /\ outcome' \in OutcomeType
        /\ outcome'[c] = IF pc[p] = "wait" THEN outcome[c] ELSE "killed"
        /\ \A d \in Call : d # c => outcome'[d] = outcome[d]
    BY <2>1, <2>3, <2>6 DEF OutcomeType
  <2>8. Types'
    <3>1. /\ call \in [Thread -> 0..MaxCalls] /\ pc \in PcType
          /\ start \in [Thread -> 0..(MaxEvts - 1)]
          /\ external_break \in [Thread -> BOOLEAN] /\ suspend_break \in [Thread -> Int]
          /\ value \in [Sema -> 0..MaxCount] /\ result \in [Call -> 0..MaxEvts]
          /\ got \in [Call -> Call \cup {Null}]
      BY TypesIs
    <3>2. QED BY <1>2, <1>5, <2>5, <2>7, <3>1, TypesNext
  <2>9. ASSUME NEW u \in Thread, u # p PROVE Fine(u)'
    <3>1. Others(p) /\ OtherPcs(p) /\ OtherSyncs(c)
      BY <1>2, <1>5, <2>5, <2>7 DEF Others, OtherPcs, OtherSyncs
    <3>2. QED BY <1>2, <2>2, <2>4, <2>9, <3>1, QuietFine
  <2>10. Current(p)' = c
    BY <1>1, <1>2 DEF Current
  <2>11. StageInv(p) /\ BreakInv(p) /\ CallInv(c)
    BY <2>1 DEF IInv, ThreadInv
  <2>12. StageInv(p)'
    <3>1. /\ call[p] <= Len(program[p].syncs) /\ call[p] # 0 /\ start[p] < Len(SyncOf(c).evts)
          /\ pc[p] = "block" => result[c] = 0
          /\ pc[p] = "poll" => Deferred(c)
          /\ pc[p] = "wait" => outcome[c] = "going"
      BY <1>1, <1>9, <2>11 DEF StageInv
    <3>2. outcome'[c] = "going" \/ (outcome'[c] = "killed" /\ pc[p] # "wait")
      BY <2>7, <3>1
    <3>3. running'[p] = {} \/ "KILLED" \in running'[p]
      BY <1>4, <1>5
    <3>4. pc[p] # "wait" => outcome'[c] # "going"
      BY <2>7
    <3>5. /\ SyncOf(c)' = SyncOf(c) /\ (Deferred(c)' <=> Deferred(c))
      BY <1>2, Primes
    <3>6. QED BY <1>2, <2>10, <3>1, <3>2, <3>3, <3>4, <3>5 DEF StageInv
  <2>13. BreakInv(p)'
    <3>1. SyncOf(c)' = SyncOf(c)
      BY <1>2, Primes
    <3>2. QED BY <1>1, <1>2, <1>9, <2>10, <2>11, <3>1 DEF BreakInv
  <2>14. ASSUME NEW d \in Call, d[1] = p PROVE CallInv(d)'
    <3>1. CallInv(d) /\ SyncOf(d)' = SyncOf(d)
      BY <1>2, Primes DEF IInv
    <3>2. CASE d # c
      <4>1. outcome'[d] = outcome[d]
        BY <2>7, <3>2
      <4>2. QED BY <1>2, <2>14, <3>1, <4>1, Primes DEF CallInv, Current
    <3>3. CASE d = c
      <4>1. outcome[c] # "none" /\ outcome'[c] # "none"
        <5>1. outcome[c] # "none"
          BY <1>1, <1>9, <2>11 DEF StageInv
        <5>2. QED BY <2>7, <5>1
      <4>2. outcome'[c] \in {outcome[c], "killed"}
        BY <2>7
      <4>3. QED BY <1>1, <1>2, <1>9, <2>1, <2>10, <3>1, <3>3, <4>1, <4>2 DEF CallInv
    <3>4. QED BY <3>2, <3>3
  <2>15. ASSUME NEW w \in Syncer, w[1] = p PROVE SyncerInv(w)'
    <3>1. NackInv(w) /\ PlaceInv(w) /\ KeptInv(w) /\ CallInv(CallOf(w)) /\ CallOf(w) \in Call /\ CallOf(w)[1] = p
      BY <2>15, SyncerIs DEF IInv, SyncerInv
    <3>2. /\ Real(w)' <=> Real(w)
          /\ OnSema(w)' <=> OnSema(w)
      BY <1>2, Primes
    <3>3. NackInv(w)'
      <4>1. CASE CallOf(w) = c
        <5>1. SUFFICES ASSUME nack'[w] # "none" PROVE NackInv(w)'
          BY DEF NackInv
        <5>2. Real(w) /\ nack'[w] = IF w[3] = result[c] THEN "kept" ELSE "posted"
          BY <2>5, <4>1, <5>1 DEF NacksOver
        <5>3. outcome'[c] # "none"
          <6>1. outcome[c] # "none"
            BY <1>1, <1>9, <2>11 DEF StageInv
          <6>2. QED BY <2>7, <6>1
        <5>4. outcome'[c] # "going" \/ "KILLED" \in running'[p]
          BY <1>4, <1>5, <1>6, <2>7
        <5>5. QED BY <1>2, <2>15, <3>2, <4>1, <5>2, <5>3, <5>4 DEF NackInv
      <4>2. CASE CallOf(w) # c
        <5>1. outcome[CallOf(w)] # "going"
          BY <1>1, <3>1, <4>2 DEF CallInv
        <5>2. nack'[w] = nack[w] /\ outcome'[CallOf(w)] = outcome[CallOf(w)]
          BY <2>5, <2>7, <3>1, <4>2
        <5>3. QED BY <1>2, <3>1, <3>2, <5>1, <5>2, Primes DEF NackInv
      <4>3. QED BY <4>1, <4>2
    <3>4. PlaceInv(w)'
      <4>1. SUFFICES ASSUME w \in links'.in_line PROVE PlaceInv(w)'
        BY DEF PlaceInv
      <4>2. w \in links.in_line
        BY <2>4, <4>1
      <4>3. /\ Real(w) /\ CallOf(w) = c /\ outcome[c] = "going"
            /\ pc[p] = "wait" \/ pc[p] = "poll"
        BY <1>1, <2>15, <3>1, <4>2 DEF PlaceInv
      <4>4. pc[p] = "wait"
        BY <2>4, <2>15, <4>1, <4>3 DEF OutNext
      <4>5. outcome'[c] = "going"
        BY <2>7, <4>3, <4>4
      <4>6. QED BY <1>2, <2>10, <2>15, <3>2, <4>3, <4>4, <4>5 DEF PlaceInv
    <3>5. KeptInv(w)'
      <4>1. SUFFICES ASSUME CallOf(w) = c, outcome'[c] = "going" PROVE pending_break(p)'
        BY <2>10, <2>15 DEF KeptInv
      <4>2. pc[p] = "wait"
        BY <2>7, <4>1
      <4>3. "KILLED" \in word
        BY <1>4, <1>6, <4>2
      <4>4. QED BY <1>5, <4>3 DEF pending_break
    <3>6. QED BY <3>3, <3>4, <3>5 DEF SyncerInv
  <2>16. Fine(p)'
    BY <1>7, <2>12, <2>13, <2>14, <2>15 DEF Fine, ThreadInv
  <2>17. Met'
    BY <1>2, <2>4, MetStays
  <2>18. QED BY <2>4, <2>8, <2>9, <2>16, <2>17, FineNext
<1>10. QED BY <1>8, <1>9

\* Lines in which nobody has stood yet.
LEMMA EmptyGood ==
  Good(Empty)
<1>1. PICK pos \in [Syncer -> Nat] : pos = [w \in Syncer |-> 0]
  OBVIOUS
<1>2. /\ Empty \in Links /\ Empty.in_line = {}
      /\ \A e \in Line : Empty.first[e] = Null /\ Empty.last[e] = Null
      /\ \A w \in Syncer : Empty.prev[w] = Null /\ Empty.next[w] = Null
  BY DEF Empty, Links
<1>3. Sorted(Empty, pos, 0)
  <2>1. \A e : OnLine(Empty, e) = {}
    BY <1>2 DEF OnLine
  <2>2. Apiece(Empty.in_line, pos)
    BY <1>2 DEF Apiece
  <2>3. QED BY <1>2, <2>1, <2>2 DEF Sorted, Above, Below
<1>4. Alone(Empty)
  BY <1>2 DEF Alone
<1>5. QED BY <1>3, <1>4 DEF Good

\* The invariant holds at the start.
LEMMA InvInit ==
  ASSUME \A prog \in Programs : Apart(prog), Init
  PROVE  IInv
<1>1. /\ program \in Programs /\ Apart(program)
      /\ \A t \in Thread : program[t].syncs \in Seq(SyncType) /\ Len(program[t].syncs) \in Nat
  BY ConstantsAssumption DEF Init, Program
<1>2. /\ call = [t \in Thread |-> 0] /\ pc = [t \in Thread |-> "run"] /\ start = [t \in Thread |-> 0]
      /\ running = [t \in Thread |-> {"RUNNING"}] /\ external_break = [t \in Thread |-> FALSE]
      /\ suspend_break = [t \in Thread |-> 0] /\ value = [s \in Sema |-> 0] /\ links = Empty
      /\ result = [c \in Call |-> 0] /\ got = [c \in Call |-> Null]
      /\ nack = [w \in Syncer |-> "none"] /\ outcome = [c \in Call |-> "none"]
  BY DEF Init
<1>3. MaxCalls \in Nat /\ MaxEvts \in Nat /\ MaxCount \in Nat
  BY ConstantsAssumption
<1>4. start \in [Thread -> 0..(MaxEvts - 1)]
  <2>1. ASSUME NEW t \in Thread PROVE 0 \in 0..(MaxEvts - 1)
    BY <1>1, <1>3, ConstantsAssumption
  <2>2. QED BY <1>2, <2>1
<1>5. Types
  <2>1. running \in [Thread -> SUBSET Flag]
    BY <1>2 DEF Flag
  <2>2. /\ call \in [Thread -> 0..MaxCalls] /\ value \in [Sema -> 0..MaxCount]
        /\ result \in [Call -> 0..MaxEvts] /\ suspend_break \in [Thread -> Int]
    BY <1>2, <1>3
  <2>3. /\ pc \in [Thread -> {"run", "wait", "poll", "block"}]
        /\ external_break \in [Thread -> BOOLEAN]
        /\ got \in [Call -> Call \cup {Null}]
        /\ nack \in [Syncer -> {"none", "made", "posted", "kept"}]
        /\ outcome \in [Call -> {"none", "going", "evt", "false", "break", "killed"}]
    BY <1>2
  <2>4. QED BY <1>1, <1>4, <2>1, <2>2, <2>3 DEF Types
<1>6. Good(links)
  BY <1>2, EmptyGood
<1>7. ASSUME NEW t \in Thread PROVE ThreadInv(t)
  BY <1>1, <1>2 DEF ThreadInv, WordInv, StageInv, BreakInv
<1>8. ASSUME NEW c \in Call PROVE CallInv(c)
  <2>1. c[1] \in Thread /\ c[2] \in 1..MaxCalls
    BY DEF Call
  <2>2. QED BY <1>2, <1>3, <2>1 DEF CallInv
<1>9. ASSUME NEW w \in Syncer PROVE SyncerInv(w)
  <2>1. w \notin links.in_line
    BY <1>2 DEF Empty
  <2>2. pc[w[1]] = "run" /\ nack[w] = "none"
    BY <1>2, SyncerIs
  <2>3. QED BY <2>1, <2>2 DEF SyncerInv, NackInv, PlaceInv, KeptInv, Sleeps, InPoll
<1>10. Met
  BY <1>2 DEF Met, Drained, Facing, Empty
<1>11. QED BY <1>5, <1>6, <1>7, <1>8, <1>9, <1>10 DEF IInv

-----------------------------------------------------------------------------
\* A step of nobody keeps the invariant.
LEMMA Stutters ==
  ASSUME IInv, UNCHANGED vars
  PROVE  IInv'
<1>1. /\ program' = program /\ call' = call /\ pc' = pc /\ start' = start
      /\ external_break' = external_break /\ running' = running
      /\ suspend_break' = suspend_break /\ value' = value /\ links' = links
      /\ result' = result /\ got' = got /\ nack' = nack /\ outcome' = outcome
  BY DEF vars
<1>2. Types'
  BY <1>1, TypesIs, TypesNext
<1>3. Good(links)'
  BY <1>1, GoodNext DEF IInv
<1>4. ASSUME NEW u \in Thread PROVE Fine(u)'
  <2>1. SameThread(u) /\ SameCalls(u) /\ SameNacks(u) /\ SamePlaces(u)
    BY <1>1 DEF SameThread, SameCalls, SameNacks, SamePlaces
  <2>2. QED BY <1>1, <2>1, StaysFine
<1>5. Met'
  BY <1>1, <1>3, MetStays
<1>6. QED BY <1>2, <1>3, <1>4, <1>5, FineNext

\* The steps that begin a sync keep it.
LEMMA SyncsKeep ==
  ASSUME IInv, NEW c \in Call, NEW s \in 0..(MaxEvts - 1), Sync(c[1], c, s)
  PROVE  IInv'
<1>1. PICK t : t = c[1]
  OBVIOUS
<1>2. CASE SyncAtOnce(t, c, s)
  BY <1>1, <1>2, AtOnce
<1>3. CASE SyncTimesOut(t, c, s)
  BY <1>1, <1>3, TimesOut
<1>4. CASE SyncPolls(t, c, s)
  BY <1>1, <1>4, PollsNext
<1>5. CASE SyncSleeps(t, c, s)
  BY <1>1, <1>5, SleepsNext
<1>6. QED BY <1>1, <1>2, <1>3, <1>4, <1>5 DEF Sync

\* The steps inside a sync keep it.
LEMMA ResumesKeep ==
  ASSUME IInv, NEW c \in Call, Resume(c[1], c)
  PROVE  IInv'
<1>1. PICK t : t = c[1]
  OBVIOUS
<1>2. CASE ReturnChosen(t, c)
  BY <1>1, <1>2, ReturnsChosen
<1>3. CASE DieChosen(t, c)
  BY <1>1, <1>3, DiesChosen
<1>4. CASE LeaveLines(t, c)
  BY <1>1, <1>4, LeavesLines
<1>5. CASE BreakAfterBlock(t, c)
  BY <1>1, <1>5, BreaksAfterBlock
<1>6. CASE MeetAfterBlock(t, c)
  BY <1>1, <1>6, MeetsAfterBlock
<1>7. CASE TakeAfterBlock(t, c)
  BY <1>1, <1>7, TakesAfterBlock
<1>8. CASE SleepAgain(t, c)
  BY <1>1, <1>8, SleepsAgain
<1>9. CASE PollBreak(t, c)
  BY <1>1, <1>9, PollBreaks
<1>10. CASE PollReturns(t, c)
  BY <1>1, <1>10, PollsReturn
<1>11. CASE PollTakes(t, c)
  BY <1>1, <1>11, PollsTake
<1>12. CASE PollTimesOut(t, c)
  BY <1>1, <1>12, PollsTimeOut
<1>13. CASE PollSleeps(t, c)
  BY <1>1, <1>13, PollsSleep
<1>14. QED
  BY <1>1, <1>2, <1>3, <1>4, <1>5, <1>6, <1>7, <1>8, <1>9, <1>10, <1>11, <1>12, <1>13 DEF Resume

\* Every step preserves the invariant.
LEMMA InvNext ==
  ASSUME IInv, [Next]_vars
  PROVE  IInv'
<1>1. CASE Next
  <2>1. CASE \E c \in Call : \E s \in 0..(MaxEvts - 1) : Sync(c[1], c, s)
    BY <2>1, SyncsKeep
  <2>2. CASE \E c \in Call : Resume(c[1], c)
    BY <2>2, ResumesKeep
  <2>3. CASE \E t \in Thread : \E s \in Sema : Post(t, s)
    BY <2>3, Posts
  <2>4. CASE \E t \in Thread : \E p \in Thread : Signals(t, p)
    <3>1. PICK t \in Thread, p \in Thread : Signals(t, p)
      BY <2>4
    <3>2. CASE BreakThread(t, p)
      BY <3>2, BreaksThread
    <3>3. CASE ThreadSuspend(t, p)
      BY <3>3, SuspendsThread
    <3>4. CASE ThreadResume(t, p)
      BY <3>4, ResumesThread
    <3>5. CASE KillThread(t, p)
      BY <3>5, KillsThread
    <3>6. QED BY <3>1, <3>2, <3>3, <3>4, <3>5 DEF Signals
  <2>5. CASE \E t \in Thread : RaiseBreak(t) \/ ReapKilled(t)
    BY <2>5, RaisesBreak, Reaps
  <2>6. QED BY <1>1, <2>1, <2>2, <2>3, <2>4, <2>5 DEF Next
<1>2. CASE UNCHANGED vars
  BY <1>2, Stutters
<1>3. QED BY <1>1, <1>2

-----------------------------------------------------------------------------
\* The invariant gives the types.
LEMMA InvTypes ==
  ASSUME IInv
  PROVE  TypeOK
<1>1. ASSUME NEW t \in Thread PROVE suspend_break[t] \in (-MaxCalls)..1
  <2>1. suspend_break[t] \in Int /\ call[t] \in 0..MaxCalls /\ BreakInv(t) /\ MaxCalls \in Nat
    BY TypesIs, ConstantsAssumption DEF IInv, ThreadInv
  <2>2. suspend_break[t] >= 0 - call[t] /\ suspend_break[t] <= 1
    BY <2>1 DEF BreakInv
  <2>3. QED BY <2>1, <2>2
<1>2. suspend_break \in [Thread -> (-MaxCalls)..1]
  BY <1>1, TypesIs
<1>3. links \in Links
  BY GoodIs DEF IInv
<1>4. QED BY <1>2, <1>3 DEF IInv, Types, TypeOK, Links

\* The line e can be walked both ways, and meets those who stand in it, once each.
WalkRight(e, s) ==
  /\ {s[k] : k \in 1..Len(s)} = {w \in links.in_line : LineOf(w) = e}
  /\ Len(s) = Cardinality({s[k] : k \in 1..Len(s)})
  /\ links.last[e] = IF s = <<>> THEN Null ELSE s[Len(s)]
  /\ \A k \in 1..Len(s) : links.prev[s[k]] = IF k = 1 THEN Null ELSE s[k-1]

\* It gives LineInv: Good has a position for each syncer, by which every line is
\* sorted, so a walk meets each of them once.
LEMMA InvLines ==
  ASSUME IInv
  PROVE  LineInv
<1>1. program \in Programs
  BY DEF IInv, Types
<1>2. PICK pos, B : Sorted(links, pos, B)
  BY DEF IInv, Good
<1>3. ASSUME NEW e \in Line PROVE WalkRight(e, Walk(links, e))
  <2>0. PICK s : s = Walk(links, e)
    OBVIOUS
  <2>1. PICK S : S = OnLine(links, e)
    OBVIOUS
  <2>2. /\ s \in Seq(S) /\ Len(s) \in Nat /\ DOMAIN s = 1..Len(s)
        /\ \A w \in S : \E k \in 1..Len(s) : s[k] = w
        /\ \A j, k \in 1..Len(s) : j < k => pos[s[j]] < pos[s[k]]
        /\ \A k \in 1..Len(s) : links.prev[s[k]] = IF k = 1 THEN Null ELSE s[k - 1]
        /\ links.last[e] = IF Len(s) = 0 THEN Null ELSE s[Len(s)]
    BY <1>1, <1>2, <2>0, <2>1, WalkSorted
  <2>3. \A k \in 1..Len(s) : s[k] \in S
    BY <2>2
  <2>4. {s[k] : k \in 1..Len(s)} = S
    BY <2>2, <2>3
  <2>5. \A k \in 1..Len(s) : pos[s[k]] \in Nat
    <3>1. S \in SUBSET Syncer /\ pos \in [Syncer -> Nat]
      BY <1>2, <2>1 DEF Sorted, OnLine, Links
    <3>2. QED BY <2>3, <3>1
  <2>6. \A j, k \in 1..Len(s) : s[j] = s[k] => j = k
    <3>1. SUFFICES ASSUME NEW j \in 1..Len(s), NEW k \in 1..Len(s), s[j] = s[k], j # k PROVE FALSE
      OBVIOUS
    <3>2. j \in Nat /\ k \in Nat /\ (j < k \/ k < j)
      BY <2>2, <3>1
    <3>3. pos[s[j]] < pos[s[k]] \/ pos[s[k]] < pos[s[j]]
      BY <2>2, <3>2
    <3>4. QED BY <2>5, <3>1, <3>3
  <2>7. Len(s) = Cardinality(S)
    <3>1. PICK f : f = [k \in 1..Len(s) |-> s[k]]
      OBVIOUS
    <3>2. f \in Bijection(1..Len(s), S)
      BY <2>2, <2>3, <2>6, <3>1 DEF Bijection, Injection, Surjection, IsInjective
    <3>3. ExistsBijection(1..Len(s), S)
      BY <3>2 DEF ExistsBijection
    <3>4. QED BY <2>2, <3>3, FS_CountingElements
  <2>8. s = <<>> <=> Len(s) = 0
    BY <2>2
  <2>9. /\ {s[k] : k \in 1..Len(s)} = {w \in links.in_line : LineOf(w) = e}
        /\ Len(s) = Cardinality({s[k] : k \in 1..Len(s)})
        /\ links.last[e] = IF s = <<>> THEN Null ELSE s[Len(s)]
        /\ \A k \in 1..Len(s) : links.prev[s[k]] = IF k = 1 THEN Null ELSE s[k-1]
    BY <2>1, <2>2, <2>4, <2>7, <2>8 DEF OnLine
  <2>10. WalkRight(e, s)
    BY <2>9 DEF WalkRight
  <2>11. QED BY <2>0, <2>10
<1>4. ASSUME NEW w \in links.in_line
      PROVE  CallOf(w) = Current(w[1]) /\ pc[w[1]] \in {"wait", "poll"} /\ running[w[1]] # {}
  <2>1. w \in Syncer /\ w[1] \in Thread
    BY <1>4, GoodIs, SyncerIs DEF IInv
  <2>2. /\ CallOf(w) = Current(w[1]) /\ outcome[CallOf(w)] = "going"
        /\ pc[w[1]] \in {"wait", "poll"}
    BY <1>4, <2>1 DEF IInv, SyncerInv, PlaceInv
  <2>3. WordInv(w[1]) /\ StageInv(w[1])
    BY <2>1 DEF IInv, ThreadInv
  <2>4. running[w[1]] # {}
    BY <2>2, <2>3 DEF WordInv, StageInv
  <2>5. QED BY <2>2, <2>4
<1>5. QED BY <1>3, <1>4 DEF LineInv, WalkRight

\* It gives NacksRight.
LEMMA InvNacks ==
  ASSUME IInv
  PROVE  NacksRight
<1>1. SUFFICES ASSUME NEW w \in Syncer, nack[w] # "none", NEW c, c = CallOf(w)
               PROVE  /\ outcome[c] # "going" \/ result[c] # 0 =>
                           nack[w] = IF w[3] = result[c] THEN "kept" ELSE "posted"
                      /\ outcome[c] = "going" /\ result[c] = 0 /\ "KILLED" \notin running[c[1]] =>
                           nack[w] = "made"
  BY DEF NacksRight
<1>2. /\ nack[w] \in NackType /\ c[1] = w[1]
      /\ nack[w] = "made" <=>
           outcome[c] = "going" /\ result[c] = 0 /\ "KILLED" \notin running[w[1]]
      /\ nack[w] = "kept" <=> w[3] = result[c]
  BY <1>1, TypesIs, SyncerIs DEF IInv, SyncerInv, NackInv
<1>3. QED BY <1>1, <1>2 DEF NackType

\* Two that sleep stand in the lines of their channels.
LEMMA InvMissed ==
  ASSUME IInv, Attentive(program)
  PROVE  NobodyMissed
<1>1. ASSUME NEW t \in Thread, Asleep(t), NEW i \in 1..Len(SyncOf(Current(t)).evts),
             SyncOf(Current(t)).evts[i].kind \in {"get", "put"},
             NEW w, w = <<t, call[t], i>>
      PROVE  /\ w \in links.in_line /\ ~OnSema(w) /\ LineOf(w) = SyncOf(Current(t)).evts[i]
             /\ CallOf(w) = Current(t)
  <2>1. /\ pc[t] # "run" /\ ~pending_break(t) /\ result[Current(t)] = 0
        /\ \/ pc[t] = "wait" /\ "SUSPENDED" \in running[t]
           \/ pc[t] = "poll" /\ running[t] = {"RUNNING"}
    BY <1>1 DEF Asleep
  <2>2. Current(t) \in Call /\ Made(Current(t)) /\ Len(SyncOf(Current(t)).evts) \in 1..MaxEvts
    BY <2>1, CurrentIs, SyncIs DEF IInv, Types
  <2>3. w \in Syncer /\ CallOf(w) = Current(t) /\ w[1] = t /\ w[3] = i
    BY <1>1, <2>2, ConstantsAssumption DEF Syncer, CallOf, Current, Call
  <2>4. Real(w) /\ EvtOf(w) = SyncOf(Current(t)).evts[i]
    BY <2>2, <2>3 DEF Real, EvtOf
  <2>5. ~OnSema(w) /\ LineOf(w) = EvtOf(w)
    BY <1>1, <2>4 DEF OnSema, LineOf
  <2>6. StageInv(t) /\ KeptInv(w) /\ WordInv(t)
    BY <2>3 DEF IInv, ThreadInv, SyncerInv
  <2>7. outcome[Current(t)] = "going"
    <3>1. running[t] # {} /\ "KILLED" \notin running[t]
      BY <2>1 DEF pending_break
    <3>2. QED BY <2>1, <2>6, <3>1 DEF StageInv
  <2>8. Sleeps(t) \/ InPoll(t)
    <3>1. CASE pc[t] = "poll"
      <4>1. Defers(program[t].syncs[call[t]])
        BY <2>6, <3>1 DEF StageInv, Deferred, SyncOf, Current
      <4>2. call[t] \in 1..Len(program[t].syncs)
        BY <2>2 DEF Made, Current, Call
      <4>3. QED BY <3>1, <4>1, <4>2 DEF Attentive, InPoll
    <3>2. QED BY <2>1, <3>1 DEF Sleeps
  <2>9. w \in links.in_line
    BY <2>1, <2>3, <2>4, <2>5, <2>6, <2>7, <2>8 DEF KeptInv
  <2>10. QED BY <2>3, <2>4, <2>5, <2>9
<1>2. ASSUME NEW t \in Thread, NEW u \in Thread, t # u, Asleep(t), Asleep(u),
             NEW i \in 1..Len(SyncOf(Current(t)).evts), NEW j \in 1..Len(SyncOf(Current(u)).evts),
             NEW e, e = SyncOf(Current(t)).evts[i], e.kind \in {"get", "put"}
      PROVE  SyncOf(Current(u)).evts[j] # Opposite(e)
  <2>1. SUFFICES ASSUME SyncOf(Current(u)).evts[j] = Opposite(e) PROVE FALSE
    OBVIOUS
  <2>2. PICK w, x : w = <<t, call[t], i>> /\ x = <<u, call[u], j>>
    OBVIOUS
  <2>3. w \in links.in_line /\ ~OnSema(w) /\ LineOf(w) = e /\ CallOf(w) = Current(t)
    BY <1>1, <1>2, <2>2
  <2>4. e \in Line
    <3>1. w \in Syncer /\ Real(w)
      BY <2>3, GoodIs DEF IInv
    <3>2. QED BY <2>3, <3>1, LineOfIs
  <2>5. SyncOf(Current(u)).evts[j].kind \in {"get", "put"}
    BY <1>2, <2>1, <2>4, OppositeIs
  <2>6. x \in links.in_line /\ LineOf(x) = Opposite(e) /\ CallOf(x) = Current(u)
    BY <1>1, <1>2, <2>1, <2>2, <2>5
  <2>7. CallOf(x) = CallOf(w)
    BY <2>3, <2>6 DEF IInv, Met, Facing
  <2>8. QED BY <1>2, <2>3, <2>6, <2>7 DEF Current
<1>3. ASSUME NEW s \in Sema, value[s] > 0
      PROVE  links.first[[kind |-> "sema", on |-> s]] = Null
  <2>1. PICK e : e = [kind |-> "sema", on |-> s]
    OBVIOUS
  <2>2. OnLine(links, e) = {}
    <3>1. SUFFICES ASSUME NEW w \in links.in_line, LineOf(w) = e PROVE FALSE
      BY DEF OnLine
    <3>2. w \in Syncer /\ Real(w)
      BY GoodIs DEF IInv
    <3>3. OnSema(w)
      BY <2>1, <3>1, <3>2, LineOfIs
    <3>4. EvtOf(w).on = s
      BY <2>1, <3>1, <3>2, <3>3, EvtIs DEF IInv, Types
    <3>5. QED BY <1>3, <3>1, <3>3, <3>4 DEF IInv, Met, Drained
  <2>3. PICK pos, B : Sorted(links, pos, B)
    BY DEF IInv, Good
  <2>4. e \in Line
    BY <2>1 DEF Line
  <2>5. Above(OnLine(links, e), pos, 0, links.first[e])
    BY <2>3, <2>4 DEF Sorted
  <2>6. links.first[e] = Null
    BY <2>2, <2>5 DEF Above
  <2>7. QED BY <2>1, <2>6
<1>4. QED BY <1>2, <1>3 DEF NobodyMissed

\* The invariant holds always.  The code behaviour: all steps of do_sync,
\* syncing_ready, scheme_wait_semas_chs, try_channel and the signals keep the
\* lines, the choices, the nacks and the words of the threads together.
THEOREM Invariant ==
  ASSUME \A prog \in Programs : Apart(prog)
  PROVE  Spec => []IInv
<1>1. Init => IInv
  BY InvInit
<1>2. IInv /\ [Next]_vars => IInv'
  BY InvNext
<1>3. QED BY <1>1, <1>2, PTL DEF Spec

\* Types, for every program whose polled syncs keep to themselves: no syncer, result
\* or count is out of range, and a choice raises suspend_break to 1 at most.
THEOREM TypesHold ==
  ASSUME \A prog \in Programs : Apart(prog)
  PROVE  Spec => []TypeOK
<1>1. IInv => TypeOK
  BY InvTypes
<1>2. QED BY <1>1, Invariant, PTL

\* The lines of channels and semaphores (get_into_line, get_outof_line) are always
\* lists that can be walked both ways, of exactly the syncers that have in_line
\* set, and these are of threads that wait in that sync.
THEOREM LinesHold ==
  ASSUME \A prog \in Programs : Apart(prog)
  PROVE  Spec => []LineInv
<1>1. IInv => LineInv
  BY InvLines
<1>2. QED BY <1>1, Invariant, PTL

\* When a sync is over, exactly the nacks of the events that were not chosen have
\* been posted (scheme_post_syncing_nacks), and none is while it goes on, unless
\* its thread is killed.
THEOREM NacksHold ==
  ASSUME \A prog \in Programs : Apart(prog)
  PROVE  Spec => []NacksRight
<1>1. IInv => NacksRight
  BY InvNacks
<1>2. QED BY <1>1, Invariant, PTL

\* Two threads that could meet on a channel never both sleep in its lines, and no
\* thread sleeps where there is a post, for every program whose polled syncs keep
\* to themselves and stay in line (channel_get_ready, scheme_wait_semas_chs).
THEOREM NobodyIsMissed ==
  ASSUME \A prog \in Programs : Apart(prog) /\ Attentive(prog)
  PROVE  Spec => []NobodyMissed
<1>1. IInv => NobodyMissed
  BY InvMissed DEF IInv, Types
<1>2. \A prog \in Programs : Apart(prog)
  OBVIOUS
<1>3. QED BY <1>1, <1>2, Invariant, PTL

-----------------------------------------------------------------------------
\* The refinement of AbstractSwap: what it needs to know of breaks.

\* Breaks are suspended from the choice of an event on, and never too little when
\* a sync that enables them is there or is still to come.
SuspendInv(t) ==
  /\ pc[t] # "run" /\ result[Current(t)] # 0 /\ SyncOf(Current(t)).enable => suspend_break[t] = 1
  /\ suspend_break[t] < 0 => \A l \in 1..Len(program[t].syncs) :
       l > call[t] \/ (l = call[t] /\ pc[t] # "run") => ~program[t].syncs[l].enable

\* A thread leaves its lines without a choice for signals only.
BlockInv(t) ==
  pc[t] = "block" \/ (pc[t] = "wait" /\ result[Current(t)] = 0 /\ "SUSPENDED" \notin running[t]) =>
    program[t].signals # {}

BalanceInv == Balanced(program) /\ \A t \in Thread : SuspendInv(t) /\ BlockInv(t)

\* They hold at the beginning.
LEMMA BalanceInit ==
  ASSUME \A prog \in Programs : Balanced(prog), Init
  PROVE  BalanceInv
BY DEF Init, BalanceInv, SuspendInv, BlockInv

\* A thread that the step leaves as it is.
LEMMA BalanceStays ==
  ASSUME IInv, BalanceInv, program' = program, NEW u \in Thread, SameThread(u), SameCalls(u)
  PROVE  SuspendInv(u)' /\ BlockInv(u)'
<1>1. SuspendInv(u) /\ BlockInv(u)
  BY DEF BalanceInv
<1>2. Current(u)' = Current(u) /\ SyncOf(Current(u))' = SyncOf(Current(u))
  BY Primes DEF SameThread, Current
<1>3. pc[u] # "run" => result'[Current(u)] = result[Current(u)]
  BY CurrentIs DEF SameCalls
<1>4. SuspendInv(u)'
  BY <1>1, <1>2, <1>3 DEF SuspendInv, SameThread
<1>5. BlockInv(u)'
  BY <1>1, <1>2, <1>3 DEF BlockInv, SameThread
<1>6. QED BY <1>4, <1>5

\* A thread that is chosen for.
LEMMA BalanceTaken ==
  ASSUME IInv, BalanceInv, program' = program, NEW w \in links.in_line, CanTake(w), NEW u, u = w[1],
         call'[u] = call[u] /\ pc'[u] = pc[u],
         suspend_break'[u] = suspend_break[u] + (IF SyncOf(CallOf(w)).enable THEN 1 ELSE 0),
         result'[CallOf(w)] = w[3]
  PROVE  SuspendInv(u)' /\ BlockInv(u)'
<1>1. w \in Syncer /\ Real(w) /\ u \in Thread /\ w[3] # 0 /\ CallOf(w) \in Call /\ Made(CallOf(w))
  <2>1. w \in Syncer /\ Real(w)
    BY GoodIs DEF IInv
  <2>2. QED BY <2>1, SyncerIs DEF Real
<1>2. PICK d : d = CallOf(w)
  OBVIOUS
<1>3. /\ d = Current(u) /\ outcome[d] = "going" /\ result[d] = 0
      /\ pc[u] \in {"wait", "poll"}
  BY <1>1, <1>2 DEF IInv, SyncerInv, PlaceInv, CanTake
<1>4. StageInv(u) /\ WordInv(u) /\ BreakInv(u) /\ SuspendInv(u) /\ BlockInv(u)
  BY <1>1 DEF IInv, ThreadInv, BalanceInv
<1>5. running[u] # {}
  BY <1>3, <1>4 DEF WordInv, StageInv
<1>6. suspend_break[u] \in Int /\ call[u] \in Int
  BY <1>1 DEF IInv, Types
<1>7. suspend_break[u] <= 0
  BY <1>3, <1>4, <1>5, <1>6 DEF BreakInv
<1>8. Current(u)' = d /\ SyncOf(d)' = SyncOf(d) /\ result'[d] # 0
  BY <1>1, <1>2, <1>3, Primes DEF Current
<1>9. SyncOf(d) = program[u].syncs[call[u]] /\ call[u] \in 1..Len(program[u].syncs)
  BY <1>1, <1>2, <1>3 DEF SyncOf, Current, Made, Call
<1>10. SyncOf(d).enable => suspend_break[u] = 0
  BY <1>3, <1>4, <1>6, <1>7, <1>9 DEF SuspendInv
<1>11. suspend_break'[u] = suspend_break[u] + (IF SyncOf(d).enable THEN 1 ELSE 0)
  BY <1>2
<1>12. SuspendInv(u)'
  <2>1. SyncOf(d).enable => suspend_break'[u] = 1
    BY <1>10, <1>11
  <2>2. suspend_break'[u] < 0 => suspend_break[u] < 0
    BY <1>6, <1>11
  <2>3. QED BY <1>4, <1>8, <2>1, <2>2 DEF SuspendInv
<1>13. BlockInv(u)'
  BY <1>3, <1>8 DEF BlockInv
<1>14. QED BY <1>12, <1>13

\* No later sync of its thread enables breaks.
NoneLater(c) ==
  \A l \in 1..Len(program[c[1]].syncs) : l > c[2] => ~program[c[1]].syncs[l].enable

\* A thread whose sync c ends.
LEMMA BalanceOver ==
  ASSUME IInv, BalanceInv, program' = program, NEW c \in Call, NEW t, At(t, c),
         pc'[t] = "run", call'[t] = c[2],
         \/ suspend_break'[t] = suspend_break[t]
         \/ /\ suspend_break'[t] = suspend_break[t] - (IF SyncOf(c).enable THEN 1 ELSE 0)
            /\ SyncOf(c).enable => suspend_break[t] = 1 \/ NoneLater(c)
  PROVE  SuspendInv(t)' /\ BlockInv(t)'
<1>1. t \in Thread /\ c[1] = t /\ Made(c) /\ c[2] \in Nat /\ call[t] \in Nat /\ suspend_break[t] \in Int
  <2>1. t \in Thread /\ c[1] = t /\ Made(c)
    BY DEF At
  <2>2. c[2] \in Nat /\ call[t] \in Nat /\ suspend_break[t] \in Int
    BY <2>1, ConstantsAssumption DEF Call, IInv, Types
  <2>3. QED BY <2>1, <2>2
<1>2. SuspendInv(t)
  BY <1>1 DEF BalanceInv
<1>3. (pc[t] = "run" /\ c[2] = call[t] + 1) \/ (pc[t] # "run" /\ c[2] = call[t])
  BY DEF At, Current
<1>4. suspend_break[t] < 0 => NoneLater(c)
  <2>1. SUFFICES ASSUME suspend_break[t] < 0, NEW l \in 1..Len(program[t].syncs), l > c[2]
                 PROVE  ~program[t].syncs[l].enable
    BY <1>1 DEF NoneLater
  <2>2. l > call[t]
    BY <1>1, <1>3, <2>1
  <2>3. QED BY <1>2, <2>1, <2>2 DEF SuspendInv
<1>5. suspend_break'[t] < 0 => NoneLater(c)
  BY <1>1, <1>4
<1>6. SuspendInv(t)'
  BY <1>1, <1>5 DEF SuspendInv, NoneLater
<1>7. BlockInv(t)'
  BY DEF BlockInv
<1>8. QED BY <1>6, <1>7

\* Thread by thread.
LEMMA BalanceNext ==
  ASSUME BalanceInv, program' = program, \A u \in Thread : SuspendInv(u)' /\ BlockInv(u)'
  PROVE  BalanceInv'
BY DEF BalanceInv, Balanced

\* A choice, for the threads other than that of c.
LEMMA BalanceChosen ==
  ASSUME IInv, BalanceInv, program' = program, NEW c, NEW N, NEW chosen \in SUBSET Syncer,
         Chosen(chosen, N, c),
         \A w \in chosen, x \in chosen : w[1] = x[1] => w = x,
         \A w \in chosen : w[1] # c[1] => w \in links.in_line /\ CanTake(w),
         NEW u \in Thread, u # c[1],
         call'[u] = call[u] /\ pc'[u] = pc[u] /\ start'[u] = start[u] /\ external_break'[u] = external_break[u],
         \A d \in Call : d[1] = u => outcome'[d] = outcome[d]
  PROVE  SuspendInv(u)' /\ BlockInv(u)'
<1>1. CASE \E w \in chosen : w[1] = u
  <2>1. PICK w \in chosen : w[1] = u
    BY <1>1
  <2>2. w \in links.in_line /\ CanTake(w) /\ w[1] # c[1]
    BY <2>1
  <2>3. /\ suspend_break'[u] = suspend_break[u] + (IF SyncOf(CallOf(w)).enable THEN 1 ELSE 0)
        /\ result'[CallOf(w)] = w[3]
    BY <2>1, <2>2 DEF Chosen
  <2>4. QED BY <2>1, <2>2, <2>3, BalanceTaken
<1>2. CASE \A w \in chosen : w[1] # u
  <2>1. SameThread(u)
    BY <1>2 DEF SameThread, Chosen
  <2>2. \A d \in Call : d[1] = u => \A w \in chosen : CallOf(w) # d
    BY <1>2, SyncerIs
  <2>3. SameCalls(u)
    BY <2>2 DEF SameCalls, Chosen
  <2>4. QED BY <2>1, <2>3, BalanceStays
<1>3. QED BY <1>1, <1>2

-----------------------------------------------------------------------------
\* What AbstractSwap sees of the calls.
Seen == [c \in Call |-> StatusOf(c)]
Picked == [c \in Call |-> IF result[c] = 0 THEN Null ELSE ChosenEvt(c)]
Offered == [c \in Call |-> IF Made(c) THEN ToSet(SyncOf(c).evts) ELSE {}]
Enabled == {c \in Call : Made(c) /\ SyncOf(c).enable}

\* The request of c can be decided.
MayGo(c) ==
  \/ Seen[c] = "asking"
  \/ Seen[c] = "new" /\ \A d \in Call : d[1] = c[1] => Seen[d] \notin {"asking", "chosen"}

\* The status of a call.
LEMMA StatusIs ==
  ASSUME NEW c \in Call
  PROVE  /\ Seen[c] = StatusOf(c)
         /\ outcome[c] = "none" => StatusOf(c) = "new"
         /\ outcome[c] = "going" /\ result[c] = 0 => StatusOf(c) = "asking"
         /\ outcome[c] = "going" /\ result[c] # 0 => StatusOf(c) = "chosen"
         /\ outcome[c] = "evt" => StatusOf(c) = "done"
         /\ outcome[c] = "false" => StatusOf(c) = "failed"
         /\ outcome[c] = "break" => StatusOf(c) = "failed"
         /\ outcome[c] = "killed" => StatusOf(c) = "killed"
<1>1. Seen[c] = StatusOf(c)
  BY DEF Seen
<1>2. outcome[c] = "none" => StatusOf(c) = "new"
  BY DEF StatusOf
<1>3. outcome[c] = "going" /\ result[c] = 0 => StatusOf(c) = "asking"
  BY DEF StatusOf
<1>4. outcome[c] = "going" /\ result[c] # 0 => StatusOf(c) = "chosen"
  BY DEF StatusOf
<1>5. outcome[c] = "evt" => StatusOf(c) = "done"
  BY DEF StatusOf
<1>6. outcome[c] = "false" => StatusOf(c) = "failed"
  BY DEF StatusOf
<1>7. outcome[c] = "break" => StatusOf(c) = "failed"
  BY DEF StatusOf
<1>8. outcome[c] = "killed" => StatusOf(c) = "killed"
  BY DEF StatusOf
<1>9. QED BY <1>1, <1>2, <1>3, <1>4, <1>5, <1>6, <1>7, <1>8

\* And after the step.
LEMMA StatusNext ==
  ASSUME NEW c \in Call
  PROVE  /\ Seen'[c] = StatusOf(c)'
         /\ outcome'[c] = "going" /\ result'[c] = 0 => StatusOf(c)' = "asking"
         /\ outcome'[c] = "going" /\ result'[c] # 0 => StatusOf(c)' = "chosen"
         /\ outcome'[c] = "evt" => StatusOf(c)' = "done"
         /\ outcome'[c] \in {"false", "break"} => StatusOf(c)' = "failed"
         /\ outcome'[c] = "killed" => StatusOf(c)' = "killed"
<1>1. Seen'[c] = StatusOf(c)'
  BY DEF Seen
<1>2. outcome'[c] = "going" /\ result'[c] = 0 => StatusOf(c)' = "asking"
  BY DEF StatusOf
<1>3. outcome'[c] = "going" /\ result'[c] # 0 => StatusOf(c)' = "chosen"
  BY DEF StatusOf
<1>4. outcome'[c] = "evt" => StatusOf(c)' = "done"
  BY DEF StatusOf
<1>5. outcome'[c] = "false" => StatusOf(c)' = "failed"
  BY DEF StatusOf
<1>6. outcome'[c] = "break" => StatusOf(c)' = "failed"
  BY DEF StatusOf
<1>7. outcome'[c] = "killed" => StatusOf(c)' = "killed"
  BY DEF StatusOf
<1>8. QED BY <1>1, <1>2, <1>3, <1>4, <1>5, <1>6, <1>7

\* A call that the step does not touch.
LEMMA SeenSame ==
  ASSUME program' = program, NEW d \in Call, outcome'[d] = outcome[d], result'[d] = result[d]
  PROVE  Seen'[d] = Seen[d] /\ Picked'[d] = Picked[d]
<1>1. StatusOf(d)' = StatusOf(d)
  BY DEF StatusOf
<1>2. ChosenEvt(d)' = ChosenEvt(d)
  BY Primes DEF ChosenEvt
<1>3. QED BY <1>1, <1>2 DEF Seen, Picked

\* What is offered stays.
LEMMA OffersSame ==
  ASSUME program' = program
  PROVE  Offered' = Offered /\ Enabled' = Enabled
<1>1. \A c : (Made(c)' <=> Made(c)) /\ SyncOf(c)' = SyncOf(c)
  BY Primes
<1>2. Offered' = Offered
  BY <1>1 DEF Offered
<1>3. Enabled' = Enabled
  BY <1>1 DEF Enabled
<1>4. QED BY <1>2, <1>3

\* A step that decides about c only, and chooses nothing.
LEMMA SeenOne ==
  ASSUME program' = program, NEW c \in Call, result' = result,
         \A d \in Call : d # c => outcome'[d] = outcome[d]
  PROVE  Seen' = [Seen EXCEPT ![c] = StatusOf(c)'] /\ Picked' = Picked
<1>1. \A d \in Call : d # c => Seen'[d] = Seen[d]
  BY SeenSame
<1>2. Seen'[c] = StatusOf(c)'
  BY StatusNext
<1>3. \A d \in Call : ChosenEvt(d)' = ChosenEvt(d)
  BY Primes DEF ChosenEvt
<1>4. Picked' = Picked
  BY <1>3 DEF Picked
<1>5. Seen' = [Seen EXCEPT ![c] = StatusOf(c)']
  BY <1>1, <1>2 DEF Seen
<1>6. QED BY <1>4, <1>5

\* The calls of a thread that runs are over, or new.
LEMMA MayGoIs ==
  ASSUME IInv, NEW t, NEW c, At(t, c), pc[t] = "run" \/ (outcome[c] = "going" /\ result[c] = 0)
  PROVE  MayGo(c)
<1>1. c \in Call /\ t \in Thread /\ c[1] = t
  BY DEF At
<1>2. CASE pc[t] = "run"
  <2>1. c[2] = call[t] + 1 /\ call[t] \in Nat
    BY <1>1, <1>2, ConstantsAssumption DEF At, IInv, Types
  <2>2. outcome[c] = "none"
    BY <1>1, <2>1 DEF IInv, CallInv
  <2>3. Seen[c] = "new"
    BY <1>1, <2>2, StatusIs
  <2>4. ASSUME NEW d \in Call, d[1] = t PROVE Seen[d] \notin {"asking", "chosen"}
    <3>1. outcome[d] # "going"
      BY <1>2, <2>4 DEF IInv, CallInv
    <3>2. outcome[d] \in {"none", "evt", "false", "break", "killed"}
      BY <3>1 DEF IInv, Types
    <3>3. Seen[d] \in {"new", "done", "failed", "killed"}
      BY <3>2, StatusIs
    <3>4. QED BY <3>3
  <2>5. QED BY <1>1, <2>3, <2>4 DEF MayGo
<1>3. CASE outcome[c] = "going" /\ result[c] = 0
  BY <1>1, <1>3, StatusIs DEF MayGo
<1>4. QED BY <1>2, <1>3

\* The steps of AbstractSwap, in these words.
LEMMA IsStutter ==
  ASSUME program' = program, result' = result, outcome' = outcome, got' = got, value' = value
  PROVE  UNCHANGED Abstract!vars
<1>1. \A d \in Call : StatusOf(d)' = StatusOf(d) /\ ChosenEvt(d)' = ChosenEvt(d)
  BY Primes DEF StatusOf, ChosenEvt
<1>2. Seen' = Seen /\ Picked' = Picked /\ Offered' = Offered /\ Enabled' = Enabled
  BY <1>1, OffersSame DEF Seen, Picked
<1>3. QED BY <1>2 DEF Abstract!vars, Seen, Picked, Offered, Enabled

\* A request is made.
LEMMA IsAsk ==
  ASSUME NEW c \in Call, Seen[c] = "new", MayGo(c),
         Seen' = [Seen EXCEPT ![c] = "asking"], Picked' = Picked, got' = got, value' = value,
         Offered' = Offered /\ Enabled' = Enabled
  PROVE  Abstract!Next
<1>1. Abstract!Ask(c)
  BY DEF Abstract!Ask, Abstract!Goes, MayGo, Seen, Picked
<1>2. QED BY <1>1 DEF Abstract!Next, Offered, Enabled

\* It returns what was chosen for it.
LEMMA IsReturn ==
  ASSUME NEW c \in Call, Seen[c] = "chosen",
         Seen' = [Seen EXCEPT ![c] = "done"], Picked' = Picked, got' = got, value' = value,
         Offered' = Offered /\ Enabled' = Enabled
  PROVE  Abstract!Next
<1>1. Abstract!Return(c)
  BY DEF Abstract!Return, Seen, Picked
<1>2. QED BY <1>1 DEF Abstract!Next, Offered, Enabled

\* It does not get to return that.
LEMMA IsLose ==
  ASSUME NEW c \in Call, Seen[c] = "chosen",
         NEW how \in {"failed", "killed"}, how = "failed" => c \notin Enabled,
         Seen' = [Seen EXCEPT ![c] = how], Picked' = Picked, got' = got, value' = value,
         Offered' = Offered /\ Enabled' = Enabled
  PROVE  Abstract!Next
<1>1. Abstract!Lose(c)
  BY DEF Abstract!Lose, Seen, Picked, Enabled
<1>2. QED BY <1>1 DEF Abstract!Next, Offered, Enabled

\* It comes to nothing.
LEMMA IsFail ==
  ASSUME NEW c \in Call, MayGo(c), NEW how \in {"failed", "killed"},
         Seen' = [Seen EXCEPT ![c] = how], Picked' = Picked, got' = got,
         \/ value' = value
         \/ \E s \in Sema : /\ [kind |-> "sema", on |-> s] \in Offered[c] /\ value[s] > 0
                            /\ value' = [value EXCEPT ![s] = @ - 1],
         Offered' = Offered /\ Enabled' = Enabled
  PROVE  Abstract!Next
<1>1. Abstract!Fail(c)
  BY DEF Abstract!Fail, Abstract!Goes, MayGo, Seen, Picked, Offered
<1>2. QED BY <1>1 DEF Abstract!Next, Offered, Enabled

\* It takes a post, or sees one.
LEMMA IsTake ==
  ASSUME NEW c \in Call, MayGo(c), NEW o \in Offered[c], o.kind \in {"sema", "peek"}, value[o.on] > 0,
         Seen' = [Seen EXCEPT ![c] = "done"], Picked' = [Picked EXCEPT ![c] = o], got' = got,
         value' = IF o.kind = "sema" THEN [value EXCEPT ![o.on] = @ - 1] ELSE value,
         Offered' = Offered /\ Enabled' = Enabled
  PROVE  Abstract!Next
<1>1. Abstract!Take(c)
  BY DEF Abstract!Take, Abstract!Goes, MayGo, Seen, Picked, Offered
<1>2. QED BY <1>1 DEF Abstract!Next, Offered, Enabled

\* It meets another one.
LEMMA IsMeet ==
  ASSUME NEW c \in Call, NEW d \in Call, MayGo(c), Seen[d] = "asking", c[1] # d[1],
         NEW o \in Offered[c], NEW p \in Offered[d], o.on = p.on, {o.kind, p.kind} = {"get", "put"},
         Seen' = [Seen EXCEPT ![c] = "done", ![d] = "chosen"],
         Picked' = [Picked EXCEPT ![c] = o, ![d] = p],
         got' = (IF o.kind = "get" THEN [got EXCEPT ![c] = d] ELSE [got EXCEPT ![d] = c]),
         value' = value, Offered' = Offered /\ Enabled' = Enabled
  PROVE  Abstract!Next
<1>1. Abstract!Meet(c, d)
  BY DEF Abstract!Meet, Abstract!Goes, Abstract!Matches, MayGo, Seen, Picked, Offered
<1>2. QED BY <1>1 DEF Abstract!Next, Offered, Enabled

\* A post, as AbstractSwap has it.
Asking(kind, s) == {r \in Call : Seen[r] = "asking" /\ [kind |-> kind, on |-> s] \in Offered[r]}

PostSeen(s) ==
  \E seen \in SUBSET Asking("peek", s), taken \in {{}} \cup {{r} : r \in Asking("sema", s)} :
    /\ Seen' = [r \in Call |-> IF r \in seen \cup taken THEN "chosen" ELSE Seen[r]]
    /\ Picked' = [r \in Call |->
         IF r \in taken THEN [kind |-> "sema", on |-> s]
         ELSE IF r \in seen THEN [kind |-> "peek", on |-> s] ELSE Picked[r]]
    /\ value' = IF taken = {} THEN [value EXCEPT ![s] = @ + 1] ELSE value
    /\ UNCHANGED got

\* A post is shared.
LEMMA IsPost ==
  ASSUME NEW s \in Sema, NEW peeks \in SUBSET Call, NEW takes \in SUBSET Call,
         \A d \in peeks : Seen[d] = "asking" /\ [kind |-> "peek", on |-> s] \in Offered[d],
         \A d \in takes : Seen[d] = "asking" /\ [kind |-> "sema", on |-> s] \in Offered[d],
         \A d, e \in takes : d = e,
         Seen' = [d \in Call |-> IF d \in peeks \cup takes THEN "chosen" ELSE Seen[d]],
         Picked' = [d \in Call |-> IF d \in takes THEN [kind |-> "sema", on |-> s]
                                   ELSE IF d \in peeks THEN [kind |-> "peek", on |-> s] ELSE Picked[d]],
         got' = got,
         value' = (IF takes = {} THEN [value EXCEPT ![s] = @ + 1] ELSE value),
         Offered' = Offered /\ Enabled' = Enabled
  PROVE  Abstract!Next
<1>1. peeks \in SUBSET Asking("peek", s) /\ takes \in SUBSET Asking("sema", s)
  BY DEF Asking
<1>2. takes \in {{}} \cup {{d} : d \in Asking("sema", s)}
  <2>1. ASSUME takes # {} PROVE \E d \in Asking("sema", s) : takes = {d}
    BY <1>1, <2>1
  <2>2. QED BY <2>1
<1>3. PostSeen(s)
  BY <1>1, <1>2 DEF PostSeen
<1>4. Abstract!Post(s)
  BY <1>3 DEF Abstract!Post, PostSeen, Asking, Seen, Picked, Offered
<1>5. QED BY <1>4 DEF Abstract!Next, Offered, Enabled

\* A step of t in sync c that chooses nothing.
Only(t, c) ==
  /\ program' = program /\ result' = result /\ got' = got /\ call'[t] = c[2]
  /\ \A u \in Thread : u # t => SameThread(u)
  /\ \A d \in Call : d # c => outcome'[d] = outcome[d]

\* For the other threads nothing changes.
LEMMA OnlyBalance ==
  ASSUME IInv, BalanceInv, NEW t, NEW c, At(t, c), Only(t, c), SuspendInv(t)' /\ BlockInv(t)'
  PROVE  BalanceInv'
<1>1. c[1] = t /\ program' = program
  BY DEF At, Only
<1>2. ASSUME NEW u \in Thread, u # t PROVE SuspendInv(u)' /\ BlockInv(u)'
  <2>1. SameThread(u)
    BY <1>2 DEF Only
  <2>2. SameCalls(u)
    BY <1>1, <1>2 DEF SameCalls, Only
  <2>3. QED BY <1>1, <2>1, <2>2, BalanceStays
<1>3. QED BY <1>1, <1>2, BalanceNext

\* And AbstractSwap sees a change of c only.
LEMMA OnlySeen ==
  ASSUME NEW t, NEW c, At(t, c), Only(t, c)
  PROVE  /\ Seen' = [Seen EXCEPT ![c] = StatusOf(c)'] /\ Picked' = Picked /\ got' = got
         /\ Offered' = Offered /\ Enabled' = Enabled
BY SeenOne, OffersSame DEF At, Only

\* The sync ends.
LEMMA OnlyEnds ==
  ASSUME IInv, BalanceInv, NEW t, NEW c, At(t, c), Only(t, c), pc'[t] = "run",
         \/ suspend_break'[t] = suspend_break[t]
         \/ /\ suspend_break'[t] = suspend_break[t] - (IF SyncOf(c).enable THEN 1 ELSE 0)
            /\ SyncOf(c).enable => suspend_break[t] = 1 \/ NoneLater(c)
  PROVE  BalanceInv'
<1>1. program' = program /\ c \in Call /\ call'[t] = c[2]
  BY DEF At, Only
<1>2. SuspendInv(t)' /\ BlockInv(t)'
  BY <1>1, BalanceOver
<1>3. QED BY <1>2, OnlyBalance

\* It begins, or goes on.
LEMMA OnlyGoes ==
  ASSUME IInv, BalanceInv, NEW t, NEW c, At(t, c), Only(t, c), result[c] = 0,
         suspend_break'[t] = suspend_break[t], BlockInv(t)'
  PROVE  BalanceInv'
<1>1. t \in Thread /\ c \in Call /\ c = <<t, c[2]>> /\ program' = program /\ result' = result /\ call'[t] = c[2]
  BY DEF At, Only, Call
<1>2. call[t] \in Nat /\ c[2] \in Nat
  BY <1>1, ConstantsAssumption DEF IInv, Types, Call
<1>3. (pc[t] = "run" /\ c[2] = call[t] + 1) \/ (pc[t] # "run" /\ c[2] = call[t])
  BY DEF At, Current
<1>4. SuspendInv(t)
  BY <1>1 DEF BalanceInv
<1>5. Current(t)' = c
  BY <1>1 DEF Current
<1>6. SuspendInv(t)'
  <2>1. \A l \in 1..Len(program[t].syncs) : l > c[2] \/ l = c[2] => l > call[t] \/ (l = call[t] /\ pc[t] # "run")
    BY <1>2, <1>3
  <2>2. suspend_break[t] < 0 => \A l \in 1..Len(program[t].syncs) :
          l > c[2] \/ l = c[2] => ~program[t].syncs[l].enable
    BY <1>4, <2>1 DEF SuspendInv
  <2>3. QED BY <1>1, <1>5, <2>2 DEF SuspendInv
<1>7. QED BY <1>6, OnlyBalance

\* Among the syncs that enable breaks, only the last one of a thread comes to nothing.
LEMMA LastIs ==
  ASSUME IInv, BalanceInv, NEW c \in Call, Made(c), SyncOf(c).enable,
         \/ SyncOf(c).timed
         \/ /\ program[c[1]].signals # {}
            /\ \E i \in 1..Len(SyncOf(c).evts) : SyncOf(c).evts[i].kind \notin {"get", "put"}
  PROVE  NoneLater(c)
<1>1. c[1] \in Thread /\ c[2] \in 1..Len(program[c[1]].syncs)
  BY DEF Made, Call
<1>2. Balanced(program)
  BY DEF BalanceInv
<1>3. SUFFICES ASSUME NEW l \in 1..Len(program[c[1]].syncs), l > c[2], program[c[1]].syncs[l].enable
               PROVE  FALSE
  BY DEF NoneLater
<1>4. SyncOf(c) = program[c[1]].syncs[c[2]] /\ c[2] < l
  BY <1>1, <1>3 DEF SyncOf
<1>5. /\ ~SyncOf(c).timed
      /\ program[c[1]].signals = {} \/ \A i \in 1..Len(SyncOf(c).evts) : SyncOf(c).evts[i].kind \in {"get", "put"}
  BY <1>1, <1>2, <1>3, <1>4 DEF Balanced
<1>6. QED BY <1>5

\* The event of a syncer is offered by its sync, and is what is chosen with it.
LEMMA OfferIs ==
  ASSUME IInv, program' = program, NEW w \in Syncer, Real(w)
  PROVE  /\ EvtOf(w) \in Offered[CallOf(w)]
         /\ result'[CallOf(w)] = w[3] => Picked'[CallOf(w)] = EvtOf(w)
<1>1. CallOf(w) \in Call /\ w[3] # 0 /\ Made(CallOf(w)) /\ w[3] \in 1..Len(SyncOf(CallOf(w)).evts)
  BY SyncerIs, EvtIs DEF IInv, Types, Real
<1>2. SyncOf(CallOf(w)).evts \in Seq(Evt)
  BY <1>1, SyncIs DEF IInv, Types, SyncType
<1>3. EvtOf(w) \in Offered[CallOf(w)]
  BY <1>1, <1>2 DEF Offered, EvtOf, ToSet
<1>4. ASSUME result'[CallOf(w)] = w[3] PROVE Picked'[CallOf(w)] = EvtOf(w)
  <2>1. ChosenEvt(CallOf(w))' = EvtOf(w)
    BY <1>4, Primes DEF ChosenEvt, EvtOf
  <2>2. QED BY <1>1, <1>4, <2>1 DEF Picked
<1>5. QED BY <1>3, <1>4

\* What a choice changes for AbstractSwap.
LEMMA ChosenSeen ==
  ASSUME IInv, program' = program, NEW c, NEW N, NEW chosen \in SUBSET Syncer, Chosen(chosen, N, c),
         NEW d \in Call, outcome'[d] = outcome[d], \A w \in chosen : CallOf(w) # d
  PROVE  Seen'[d] = Seen[d] /\ Picked'[d] = Picked[d]
<1>1. result'[d] = result[d]
  BY DEF Chosen
<1>2. QED BY <1>1, SeenSame

\* The one that is taken was asking, and has been chosen for.
LEMMA TakerSeen ==
  ASSUME IInv, program' = program, NEW c, NEW N, NEW chosen \in SUBSET Syncer, Chosen(chosen, N, c),
         NEW w \in chosen, w \in links.in_line, CanTake(w), outcome'[CallOf(w)] = outcome[CallOf(w)]
  PROVE  /\ Seen[CallOf(w)] = "asking" /\ Seen'[CallOf(w)] = "chosen"
         /\ EvtOf(w) \in Offered[CallOf(w)] /\ Picked'[CallOf(w)] = EvtOf(w)
<1>1. w \in Syncer /\ Real(w) /\ CallOf(w) \in Call /\ w[3] # 0
  <2>1. w \in Syncer /\ Real(w)
    BY GoodIs DEF IInv
  <2>2. QED BY <2>1, SyncerIs
<1>2. outcome[CallOf(w)] = "going" /\ result[CallOf(w)] = 0
  BY <1>1 DEF IInv, SyncerInv, PlaceInv, CanTake
<1>3. result'[CallOf(w)] = w[3]
  BY DEF Chosen
<1>4. Seen[CallOf(w)] = "asking"
  BY <1>1, <1>2, StatusIs
<1>5. Seen'[CallOf(w)] = "chosen"
  BY <1>1, <1>2, <1>3, StatusNext
<1>6. QED BY <1>1, <1>3, <1>4, <1>5, OfferIs

\* A sync that chooses ends, and leaves the other threads in theirs.
Chooses(t, c) ==
  /\ program' = program /\ call'[t] = c[2] /\ pc'[t] = "run" /\ outcome'[c] = "evt"
  /\ \A u \in Thread : u # t => /\ call'[u] = call[u] /\ pc'[u] = pc[u] /\ start'[u] = start[u]
                                /\ external_break'[u] = external_break[u]
  /\ \A d \in Call : d # c => outcome'[d] = outcome[d]

\* Breaks stay in balance.
LEMMA ChoosesBalance ==
  ASSUME IInv, BalanceInv, NEW t, NEW c, At(t, c), Chooses(t, c), NEW N, NEW chosen \in SUBSET Syncer,
         Chosen(chosen, N, c), \E w \in chosen : CallOf(w) = c,
         \A w \in chosen, x \in chosen : w[1] = x[1] => w = x,
         \A w \in chosen : w[1] # t => w \in links.in_line /\ CanTake(w)
  PROVE  BalanceInv'
<1>1. /\ program' = program /\ call'[t] = c[2] /\ pc'[t] = "run"
      /\ c[1] = t /\ c \in Call /\ t \in Thread
  BY DEF Chooses, At
<1>2. suspend_break'[t] = suspend_break[t]
  BY <1>1 DEF Chosen
<1>3. SuspendInv(t)' /\ BlockInv(t)'
  BY <1>1, <1>2, BalanceOver
<1>4. ASSUME NEW u \in Thread, u # t PROVE SuspendInv(u)' /\ BlockInv(u)'
  <2>1. /\ call'[u] = call[u] /\ pc'[u] = pc[u] /\ start'[u] = start[u]
        /\ external_break'[u] = external_break[u]
    BY <1>4 DEF Chooses
  <2>2. \A d \in Call : d[1] = u => outcome'[d] = outcome[d]
    BY <1>1, <1>4 DEF Chooses
  <2>3. QED BY <1>1, <1>4, <2>1, <2>2, BalanceChosen
<1>5. QED BY <1>1, <1>3, <1>4, BalanceNext

\* A partner is found.
LEMMA MeetMaps ==
  ASSUME IInv, BalanceInv, NEW t, NEW c, At(t, c), Chooses(t, c), Out(c), MayGo(c),
         NEW p, OneReady(p, c), p.taker # Null,
         NEW N \in [Syncer -> NackType], Choose({p.ready, p.taker}, N, c), value' = value
  PROVE  BalanceInv' /\ Abstract!Next
<1>1. PICK v, w, chosen : v = p.ready /\ w = p.taker /\ chosen = {v, w}
  OBVIOUS
<1>2. c \in Call /\ Made(c) /\ c[1] = t /\ t \in Thread /\ program' = program
  BY DEF At, Chooses
<1>3. /\ Chosen(chosen, N, c) /\ v \in OfCall(c) /\ v \in Syncer /\ v[1] = t
      /\ w \in Syncer /\ w[1] # t
  BY <1>1, <1>2, MeetChosen
<1>4. /\ ~OnSema(v) /\ w \in links.in_line /\ CallOf(w) # c /\ CanTake(w)
      /\ LineOf(w) = Opposite(EvtOf(v))
  BY <1>1 DEF OneReady
<1>5. v \in chosen /\ w \in chosen /\ chosen \in SUBSET Syncer /\ v # w
      /\ \A x \in chosen, y \in chosen : x[1] = y[1] => x = y
  BY <1>1, <1>3
<1>6. Real(v) /\ CallOf(v) = c /\ Real(w)
  BY <1>3, <1>4, GoodIs DEF OfCall, IInv
<1>7. BalanceInv'
  BY <1>1, <1>3, <1>4, <1>5, <1>6, ChoosesBalance
<1>8. PICK d \in Call : d = CallOf(w) /\ d # c /\ d[1] = w[1]
  BY <1>3, <1>4, SyncerIs
<1>9. outcome'[d] = outcome[d] /\ outcome'[c] = "evt"
  BY <1>8 DEF Chooses
<1>10. /\ Seen[d] = "asking" /\ Seen'[d] = "chosen"
       /\ EvtOf(w) \in Offered[d] /\ Picked'[d] = EvtOf(w)
  BY <1>2, <1>3, <1>4, <1>5, <1>8, <1>9, TakerSeen
<1>11. Seen'[c] = "done" /\ EvtOf(v) \in Offered[c] /\ Picked'[c] = EvtOf(v)
  <2>1. Seen'[c] = "done"
    BY <1>2, <1>9, StatusNext
  <2>2. result'[CallOf(v)] = v[3]
    BY <1>3, <1>5 DEF Chosen
  <2>3. QED BY <1>2, <1>3, <1>6, <2>1, <2>2, OfferIs
<1>12. ASSUME NEW e \in Call, e # c, e # d PROVE Seen'[e] = Seen[e] /\ Picked'[e] = Picked[e]
  <2>1. outcome'[e] = outcome[e]
    BY <1>12 DEF Chooses
  <2>2. \A x \in chosen : CallOf(x) # e
    BY <1>1, <1>6, <1>8, <1>12
  <2>3. QED BY <1>2, <1>3, <1>5, <2>1, <2>2, ChosenSeen
<1>13. Seen' = [Seen EXCEPT ![c] = "done", ![d] = "chosen"]
  BY <1>8, <1>10, <1>11, <1>12 DEF Seen
<1>14. Picked' = [Picked EXCEPT ![c] = EvtOf(v), ![d] = EvtOf(w)]
  BY <1>8, <1>10, <1>11, <1>12 DEF Picked
<1>15. /\ EvtOf(v).on = EvtOf(w).on /\ {EvtOf(v).kind, EvtOf(w).kind} = {"get", "put"}
       /\ EvtOf(v).kind = "get" <=> EvtOf(w).kind # "get"
  <2>1. EvtOf(v).kind \in {"get", "put"} /\ EvtOf(v) \in Line /\ LineOf(v) = EvtOf(v)
    BY <1>3, <1>4, <1>6, EvtIs DEF IInv, Types
  <2>2. LineOf(w).kind = (IF EvtOf(v).kind = "get" THEN "put" ELSE "get") /\ LineOf(w).on = EvtOf(v).on
    BY <1>4, <2>1 DEF Opposite, Line
  <2>3. ~OnSema(w)
    BY <1>3, <1>6, <2>1, <2>2, LineOfIs
  <2>4. LineOf(w) = EvtOf(w)
    BY <1>3, <1>6, <2>3, LineOfIs
  <2>5. QED BY <2>1, <2>2, <2>4
<1>16. got' = IF EvtOf(v).kind = "get" THEN [got EXCEPT ![c] = d] ELSE [got EXCEPT ![d] = c]
  <2>1. got' = Received(chosen, c)
    BY <1>1 DEF Choose
  <2>2. got \in [Call -> Call \cup {Null}]
    BY TypesIs
  <2>3. \A e \in Call : got'[e] = IF \E x \in chosen : CallOf(x) = e /\ EvtOf(x).kind = "get"
                                    THEN CallOf(CHOOSE x \in chosen : CallOf(x) # e) ELSE got[e]
    BY <2>1 DEF Received
  <2>4. (CHOOSE x \in chosen : CallOf(x) # c) = w /\ (CHOOSE x \in chosen : CallOf(x) # d) = v
    BY <1>1, <1>6, <1>8
  <2>5. \A e \in Call : (\E x \in chosen : CallOf(x) = e /\ EvtOf(x).kind = "get") <=>
          \/ e = c /\ EvtOf(v).kind = "get"
          \/ e = d /\ EvtOf(w).kind = "get"
    BY <1>1, <1>6, <1>8
  <2>6. CASE EvtOf(v).kind = "get"
    <3>1. \A e \in Call : got'[e] = IF e = c THEN d ELSE got[e]
      BY <1>8, <1>15, <2>3, <2>4, <2>5, <2>6
    <3>2. got' = [got EXCEPT ![c] = d]
      BY <2>1, <2>2, <3>1 DEF Received
    <3>3. QED BY <2>6, <3>2
  <2>7. CASE EvtOf(v).kind # "get"
    <3>1. \A e \in Call : got'[e] = IF e = d THEN c ELSE got[e]
      BY <1>6, <1>8, <1>15, <2>3, <2>4, <2>5, <2>7
    <3>2. got' = [got EXCEPT ![d] = c]
      BY <2>1, <2>2, <3>1 DEF Received
    <3>3. QED BY <2>7, <3>2
  <2>8. QED BY <2>6, <2>7
<1>17. Offered' = Offered /\ Enabled' = Enabled
  BY <1>2, OffersSame
<1>18. c[1] # d[1]
  BY <1>2, <1>3, <1>8
<1>19. Abstract!Next
  BY <1>2, <1>10, <1>11, <1>13, <1>14, <1>15, <1>16, <1>17, <1>18, IsMeet
<1>20. QED BY <1>7, <1>19

\* A post is found.
LEMMA TakeMaps ==
  ASSUME IInv, BalanceInv, NEW t, NEW c, At(t, c), Chooses(t, c), MayGo(c),
         NEW v \in OfCall(c), Posted(v),
         NEW N \in [Syncer -> NackType], Choose({v}, N, c), value' = PostTaken(v)
  PROVE  BalanceInv' /\ Abstract!Next
<1>1. PICK chosen : chosen = {v}
  OBVIOUS
<1>2. c \in Call /\ Made(c) /\ c[1] = t /\ t \in Thread /\ program' = program
  BY DEF At, Chooses
<1>3. v \in Syncer /\ Real(v) /\ CallOf(v) = c /\ v[1] = t
  BY <1>2, SyncerIs DEF OfCall
<1>4. OnSema(v) /\ value[EvtOf(v).on] > 0
  BY DEF Posted
<1>5. EvtOf(v).kind \in {"sema", "peek"} /\ EvtOf(v).on \in Sema
  BY <1>3, <1>4, LineOfIs DEF OnSema
<1>6. Chosen(chosen, N, c)
  BY <1>1, <1>2, <1>4, TakeChosen
<1>7. v \in chosen /\ chosen \in SUBSET Syncer /\ \A x \in chosen : x = v
  BY <1>1, <1>3
<1>8. BalanceInv'
  BY <1>3, <1>6, <1>7, ChoosesBalance
<1>9. Seen'[c] = "done" /\ EvtOf(v) \in Offered[c] /\ Picked'[c] = EvtOf(v)
  <2>1. Seen'[c] = "done"
    BY <1>2, StatusNext DEF Chooses
  <2>2. result'[CallOf(v)] = v[3]
    BY <1>6, <1>7 DEF Chosen
  <2>3. QED BY <1>2, <1>3, <2>1, <2>2, OfferIs
<1>10. ASSUME NEW e \in Call, e # c PROVE Seen'[e] = Seen[e] /\ Picked'[e] = Picked[e]
  <2>1. outcome'[e] = outcome[e]
    BY <1>10 DEF Chooses
  <2>2. \A x \in chosen : CallOf(x) # e
    BY <1>3, <1>7, <1>10
  <2>3. QED BY <1>2, <1>6, <1>7, <2>1, <2>2, ChosenSeen
<1>11. Seen' = [Seen EXCEPT ![c] = "done"]
  BY <1>9, <1>10 DEF Seen
<1>12. Picked' = [Picked EXCEPT ![c] = EvtOf(v)]
  BY <1>9, <1>10 DEF Picked
<1>13. got' = got
  <2>1. got' = Received(chosen, c) /\ got \in [Call -> Call \cup {Null}]
    BY <1>1, TypesIs DEF Choose
  <2>2. \A x \in chosen : EvtOf(x).kind # "get"
    BY <1>5, <1>7
  <2>3. QED BY <2>1, <2>2 DEF Received
<1>14. value' = IF EvtOf(v).kind = "sema" THEN [value EXCEPT ![EvtOf(v).on] = @ - 1] ELSE value
  BY DEF PostTaken
<1>15. Offered' = Offered /\ Enabled' = Enabled
  BY <1>2, OffersSame
<1>16. Abstract!Next
  BY <1>2, <1>4, <1>5, <1>9, <1>11, <1>12, <1>13, <1>14, <1>15, IsTake
<1>17. QED BY <1>8, <1>16

\* Whoever stands in the line of a semaphore waits for it, or peeks.
LEMMA InSemaLine ==
  ASSUME IInv, NEW s \in Sema, NEW w \in OnLine(links, [kind |-> "sema", on |-> s])
  PROVE  /\ w \in links.in_line /\ w \in Syncer /\ Real(w)
         /\ CallOf(w) = Current(w[1])
         /\ EvtOf(w) = [kind |-> "sema", on |-> s] \/ EvtOf(w) = [kind |-> "peek", on |-> s]
<1>1. w \in links.in_line /\ LineOf(w) = [kind |-> "sema", on |-> s]
  BY DEF OnLine
<1>2. w \in Syncer /\ Real(w)
  BY <1>1, GoodIs DEF IInv
<1>3. CallOf(w) = Current(w[1])
  BY <1>1, <1>2 DEF IInv, SyncerInv, PlaceInv
<1>4. OnSema(w)
  BY <1>1, <1>2, LineOfIs
<1>5. EvtOf(w).on = s /\ EvtOf(w) \in Evt /\ EvtOf(w).kind \in {"sema", "peek"}
  <2>1. LineOf(w) = [kind |-> "sema", on |-> EvtOf(w).on] /\ EvtOf(w) \in Evt
    BY <1>2, <1>4, EvtIs DEF IInv, Types
  <2>2. QED BY <1>1, <1>4, <2>1 DEF OnSema
<1>6. EvtOf(w) = [kind |-> "sema", on |-> s] \/ EvtOf(w) = [kind |-> "peek", on |-> s]
  BY <1>5 DEF Evt, Line
<1>7. QED BY <1>1, <1>2, <1>3, <1>6

\* semaphore-post
LEMMA PostMaps ==
  ASSUME IInv, BalanceInv, NEW t \in Thread, NEW s \in Sema, Post(t, s)
  PROVE  BalanceInv' /\ Abstract!Next
<1>1. PICK a, c, e : a = Serve(s) /\ c = <<Null, 0>> /\ e = [kind |-> "sema", on |-> s]
  OBVIOUS
<1>2. /\ value' = [value EXCEPT ![s] = value[s] + a.left]
      /\ Choose(a.takers, nack, c)
      /\ program' = program /\ call' = call /\ pc' = pc /\ start' = start
      /\ external_break' = external_break /\ outcome' = outcome
  BY <1>1 DEF Post
<1>3. PICK W \in SUBSET OnLine(links, e) : Serving(a, W)
  BY <1>1, ServeIs
<1>4. PICK chosen : chosen = a.takers
  OBVIOUS
<1>5. /\ chosen \in SUBSET W /\ \A w \in chosen : CanTake(w)
      /\ \A w, x \in chosen : CallOf(w) = CallOf(x) => w = x
      /\ a.left \in {0, 1}
      /\ a.left = 1 => \A w \in chosen : EvtOf(w).kind # "sema"
      /\ a.left = 0 => \E w \in chosen : /\ EvtOf(w).kind = "sema"
                                         /\ \A x \in chosen : EvtOf(x).kind = "sema" => x = w
  BY <1>3, <1>4 DEF Serving
<1>6. \A w \in chosen : /\ w \in links.in_line /\ w \in Syncer /\ CallOf(w) = Current(w[1])
                        /\ EvtOf(w) = [kind |-> "sema", on |-> s] \/ EvtOf(w) = [kind |-> "peek", on |-> s]
  BY <1>1, <1>3, <1>5, InSemaLine
<1>7. chosen \in SUBSET Syncer /\ \A w \in chosen, x \in chosen : w[1] = x[1] => w = x
  <2>1. chosen \in SUBSET Syncer
    BY <1>6
  <2>2. SUFFICES ASSUME NEW w \in chosen, NEW x \in chosen, w[1] = x[1] PROVE w = x
    BY <2>1
  <2>3. CallOf(w) = CallOf(x)
    BY <1>6, <2>2
  <2>4. QED BY <1>5, <2>3
<1>8. \A w \in chosen : EvtOf(w).kind # "get"
  BY <1>6
<1>9. Chosen(chosen, nack, c)
  <2>1. nack \in [Syncer -> NackType] /\ Choose(chosen, nack, c)
    BY <1>2, <1>4, TypesIs
  <2>2. QED BY <1>7, <1>8, <2>1, ChooseIs
<1>10. c[1] \notin Thread
  BY <1>1, ConstantsAssumption
<1>11. BalanceInv'
  <2>1. ASSUME NEW u \in Thread PROVE SuspendInv(u)' /\ BlockInv(u)'
    <3>1. u # c[1]
      BY <1>10
    <3>2. \A w \in chosen : w \in links.in_line /\ CanTake(w)
      BY <1>5, <1>6
    <3>3. QED BY <1>2, <1>7, <1>9, <3>1, <3>2, BalanceChosen
  <2>2. QED BY <1>2, <2>1, BalanceNext
<1>12. PICK peeks, takes : /\ peeks = {CallOf(w) : w \in {x \in chosen : EvtOf(x).kind = "peek"}}
                           /\ takes = {CallOf(w) : w \in {x \in chosen : EvtOf(x).kind = "sema"}}
  OBVIOUS
<1>13. ASSUME NEW w \in chosen
       PROVE  /\ CallOf(w) \in Call /\ Seen[CallOf(w)] = "asking" /\ Seen'[CallOf(w)] = "chosen"
              /\ EvtOf(w) \in Offered[CallOf(w)] /\ Picked'[CallOf(w)] = EvtOf(w)
  BY <1>2, <1>5, <1>6, <1>7, <1>9, TakerSeen, SyncerIs
<1>14. /\ peeks \in SUBSET Call /\ takes \in SUBSET Call
       /\ \A d \in peeks : Seen[d] = "asking" /\ [kind |-> "peek", on |-> s] \in Offered[d]
       /\ \A d \in takes : Seen[d] = "asking" /\ [kind |-> "sema", on |-> s] \in Offered[d]
  BY <1>6, <1>12, <1>13
<1>15. \A d, f \in takes : d = f
  BY <1>5, <1>12
<1>16. takes = {} <=> a.left = 1
  BY <1>5, <1>12
<1>17. ASSUME NEW d \in Call
       PROVE  /\ Seen'[d] = IF d \in peeks \cup takes THEN "chosen" ELSE Seen[d]
              /\ Picked'[d] = IF d \in takes THEN [kind |-> "sema", on |-> s]
                              ELSE IF d \in peeks THEN [kind |-> "peek", on |-> s] ELSE Picked[d]
  <2>1. CASE \E w \in chosen : CallOf(w) = d
    <3>1. PICK w \in chosen : CallOf(w) = d
      BY <2>1
    <3>2. d \in takes <=> EvtOf(w).kind = "sema"
      BY <1>5, <1>12, <3>1
    <3>3. d \in peeks <=> EvtOf(w).kind = "peek"
      BY <1>5, <1>12, <3>1
    <3>4. EvtOf(w) = [kind |-> "sema", on |-> s] \/ EvtOf(w) = [kind |-> "peek", on |-> s]
      BY <1>6
    <3>5. Seen'[d] = "chosen" /\ Picked'[d] = EvtOf(w)
      BY <1>13, <3>1
    <3>6. QED BY <3>2, <3>3, <3>4, <3>5
  <2>2. CASE \A w \in chosen : CallOf(w) # d
    <3>1. d \notin takes /\ d \notin peeks
      BY <1>12, <2>2
    <3>2. Seen'[d] = Seen[d] /\ Picked'[d] = Picked[d]
      BY <1>2, <1>7, <1>9, <2>2, ChosenSeen
    <3>3. QED BY <3>1, <3>2
  <2>3. QED BY <2>1, <2>2
<1>18. Seen' = [d \in Call |-> IF d \in peeks \cup takes THEN "chosen" ELSE Seen[d]]
  BY <1>17 DEF Seen
<1>19. Picked' = [d \in Call |-> IF d \in takes THEN [kind |-> "sema", on |-> s]
                                 ELSE IF d \in peeks THEN [kind |-> "peek", on |-> s] ELSE Picked[d]]
  BY <1>17 DEF Picked
<1>20. got' = got
  <2>1. got' = Received(chosen, c) /\ got \in [Call -> Call \cup {Null}]
    BY <1>2, <1>4, TypesIs DEF Choose
  <2>2. QED BY <1>8, <2>1 DEF Received
<1>21. value' = IF takes = {} THEN [value EXCEPT ![s] = @ + 1] ELSE value
  <2>1. value \in [Sema -> 0..MaxCount] /\ MaxCount \in Nat
    BY TypesIs, ConstantsAssumption
  <2>2. a.left = 1 \/ a.left = 0
    BY <1>5
  <2>3. value[s] + 0 = value[s]
    BY <2>1
  <2>4. QED BY <1>2, <1>16, <2>1, <2>2, <2>3
<1>22. Offered' = Offered /\ Enabled' = Enabled
  BY <1>2, OffersSame
<1>23. Abstract!Next
  BY <1>14, <1>15, <1>18, <1>19, <1>20, <1>21, <1>22, IsPost
<1>24. QED BY <1>11, <1>23

-----------------------------------------------------------------------------
\* A signal that changes only the word of a thread.
LEMMA SignalMaps ==
  ASSUME IInv, BalanceInv, NEW p \in Thread, Signalled(p), program[p].signals # {} \/ pc[p] = "run"
  PROVE  BalanceInv' /\ UNCHANGED Abstract!vars
<1>1. /\ program' = program /\ call' = call /\ pc' = pc /\ start' = start
      /\ suspend_break' = suspend_break /\ value' = value
      /\ result' = result /\ got' = got /\ outcome' = outcome
  BY DEF Signalled
<1>2. SuspendInv(p)'
  BY <1>1, Primes DEF BalanceInv, SuspendInv, Current
<1>3. BlockInv(p)'
  BY <1>1 DEF BlockInv
<1>4. ASSUME NEW u \in Thread, u # p PROVE SuspendInv(u)' /\ BlockInv(u)'
  <2>1. SameThread(u) /\ SameCalls(u)
    BY <1>1, <1>4 DEF Signalled, SameThread, SameCalls
  <2>2. QED BY <1>1, <2>1, BalanceStays
<1>5. BalanceInv'
  BY <1>1, <1>2, <1>3, <1>4, BalanceNext
<1>6. QED BY <1>1, <1>5, IsStutter

-----------------------------------------------------------------------------
\* A step that leaves the other threads alone, and chooses nothing.
LEMMA OnlyIs ==
  ASSUME NEW t, NEW c, Others(t), OtherPcs(t), program' = program, result' = result, got' = got,
         call'[t] = c[2], \A d \in Call : d # c => outcome'[d] = outcome[d]
  PROVE  Only(t, c)
BY DEF Only, Others, OtherPcs, SameThread

\* Sync c comes to nothing.
LEMMA FailMaps ==
  ASSUME IInv, BalanceInv, NEW t, NEW c, At(t, c), Only(t, c), pc'[t] = "run",
         pc[t] = "run" \/ outcome[c] = "going", result[c] = 0,
         outcome'[c] \in {"false", "break", "killed"},
         \/ suspend_break'[t] = suspend_break[t]
         \/ /\ suspend_break'[t] = suspend_break[t] - (IF SyncOf(c).enable THEN 1 ELSE 0)
            /\ SyncOf(c).enable => NoneLater(c),
         \/ value' = value
         \/ \E s \in Sema : /\ [kind |-> "sema", on |-> s] \in Offered[c] /\ value[s] > 0
                            /\ value' = [value EXCEPT ![s] = @ - 1]
  PROVE  BalanceInv' /\ Abstract!Next
<1>1. BalanceInv'
  BY OnlyEnds
<1>2. MayGo(c) /\ c \in Call
  BY MayGoIs DEF At
<1>3. PICK how \in {"failed", "killed"} : StatusOf(c)' = how
  BY <1>2, StatusNext
<1>4. /\ Seen' = [Seen EXCEPT ![c] = how] /\ Picked' = Picked /\ got' = got
      /\ Offered' = Offered /\ Enabled' = Enabled
  BY <1>3, OnlySeen
<1>5. Abstract!Next
  BY <1>2, <1>4, IsFail
<1>6. QED BY <1>1, <1>5

\* Sync c has been chosen for: breaks are suspended if it enables them.
LEMMA ChosenIs ==
  ASSUME IInv, BalanceInv, NEW t, NEW c, At(t, c), pc[t] # "run", outcome[c] = "going", result[c] # 0
  PROVE  /\ c \in Call /\ Seen[c] = "chosen" /\ c = Current(t)
         /\ SyncOf(c).enable => suspend_break[t] = 1
         /\ BreakDue(t) => ~SyncOf(c).enable /\ c \notin Enabled
<1>1. c \in Call /\ c = Current(t) /\ t \in Thread
  BY DEF At
<1>2. Seen[c] = "chosen"
  BY <1>1, StatusIs
<1>3. SyncOf(c).enable => suspend_break[t] = 1
  BY <1>1 DEF BalanceInv, SuspendInv
<1>4. BreakDue(t) => suspend_break[t] = 0
  BY DEF BreakDue, CanBreak
<1>5. QED BY <1>1, <1>2, <1>3, <1>4 DEF Enabled

\* It returns the event.
LEMMA ReturnMaps ==
  ASSUME IInv, BalanceInv, NEW t, NEW c, At(t, c), Only(t, c), pc'[t] = "run",
         pc[t] # "run", outcome[c] = "going", result[c] # 0, outcome'[c] = "evt", value' = value,
         suspend_break'[t] = suspend_break[t] - (IF SyncOf(c).enable THEN 1 ELSE 0)
  PROVE  BalanceInv' /\ Abstract!Next
<1>1. /\ c \in Call /\ Seen[c] = "chosen"
      /\ SyncOf(c).enable => suspend_break[t] = 1
  BY ChosenIs
<1>2. BalanceInv'
  BY <1>1, OnlyEnds
<1>3. StatusOf(c)' = "done"
  BY <1>1, StatusNext
<1>4. /\ Seen' = [Seen EXCEPT ![c] = "done"] /\ Picked' = Picked /\ got' = got
      /\ Offered' = Offered /\ Enabled' = Enabled
  BY <1>3, OnlySeen
<1>5. Abstract!Next
  BY <1>1, <1>4, IsReturn
<1>6. QED BY <1>2, <1>5

\* It does not come to that: the thread is killed, or a break is raised.
LEMMA LoseMaps ==
  ASSUME IInv, BalanceInv, NEW t, NEW c, At(t, c), Only(t, c),
         pc[t] # "run", outcome[c] = "going", result[c] # 0, value' = value, BalanceInv',
         \/ outcome'[c] = "killed"
         \/ outcome'[c] = "break" /\ BreakDue(t)
  PROVE  Abstract!Next
<1>1. c \in Call /\ Seen[c] = "chosen" /\ (BreakDue(t) => c \notin Enabled)
  BY ChosenIs
<1>2. PICK how \in {"failed", "killed"} : StatusOf(c)' = how /\ (how = "failed" => c \notin Enabled)
  BY <1>1, StatusNext
<1>3. /\ Seen' = [Seen EXCEPT ![c] = how] /\ Picked' = Picked /\ got' = got
      /\ Offered' = Offered /\ Enabled' = Enabled
  BY <1>2, OnlySeen
<1>4. QED BY <1>1, <1>2, <1>3, IsLose

\* It goes on.
LEMMA GoesMaps ==
  ASSUME IInv, BalanceInv, NEW t, NEW c, At(t, c), Only(t, c), result[c] = 0,
         outcome' = outcome, value' = value, suspend_break'[t] = suspend_break[t], BlockInv(t)'
  PROVE  BalanceInv' /\ UNCHANGED Abstract!vars
<1>1. BalanceInv'
  BY OnlyGoes
<1>2. UNCHANGED Abstract!vars
  BY IsStutter DEF Only
<1>3. QED BY <1>1, <1>2

\* Or begins.
LEMMA AskMaps ==
  ASSUME IInv, BalanceInv, NEW t, NEW c, At(t, c), Only(t, c), pc[t] = "run", outcome[c] = "none",
         result[c] = 0, outcome'[c] = "going", value' = value,
         suspend_break'[t] = suspend_break[t], BlockInv(t)'
  PROVE  BalanceInv' /\ Abstract!Next
<1>1. BalanceInv'
  BY OnlyGoes
<1>2. MayGo(c) /\ c \in Call
  BY MayGoIs DEF At
<1>3. Seen[c] = "new"
  BY <1>2, StatusIs
<1>4. result'[c] = 0
  BY DEF Only
<1>5. StatusOf(c)' = "asking"
  BY <1>2, <1>4, StatusNext
<1>6. /\ Seen' = [Seen EXCEPT ![c] = "asking"] /\ Picked' = Picked /\ got' = got
      /\ Offered' = Offered /\ Enabled' = Enabled
  BY <1>5, OnlySeen
<1>7. Abstract!Next
  BY <1>2, <1>3, <1>6, IsAsk
<1>8. QED BY <1>1, <1>7

-----------------------------------------------------------------------------
\* An event is ready at once: a partner's, or a post.
LEMMA AtOnceMaps ==
  ASSUME IInv, BalanceInv, NEW c \in Call, NEW t, t = c[1], NEW s \in 0..(MaxEvts - 1), SyncAtOnce(t, c, s)
  PROVE  BalanceInv' /\ Abstract!Next
<1>1. PICK p, N : p = Poll(c, s, TRUE) /\ N = NacksMade(c, p.seen)
  OBVIOUS
<1>2. /\ Calls(t, c, s) /\ p.ready # Null /\ value' = PostTaken(p.ready)
      /\ Choose({p.ready, p.taker} \ {Null}, N, c)
      /\ Return(c, "evt")
  BY <1>1 DEF SyncAtOnce
<1>3. Called(t, c, s)
  BY <1>2, CallsIs
<1>4. /\ At(t, c) /\ Out(c) /\ pc[t] = "run" /\ Made(c)
      /\ \A w \in Syncer : CallOf(w) = c => nack[w] = "none"
      /\ s \in Nat /\ s < Len(SyncOf(c).evts)
      /\ program' = program /\ external_break' = external_break
      /\ call'[t] = c[2] /\ \A u \in Thread : u # t => call'[u] = call[u] /\ start'[u] = start[u]
  BY <1>3 DEF Called, At
<1>5. OneReady(p, c)
  <2>1. PollStage(p, c, TRUE, OfCall(c))
    BY <1>1, <1>4, PollIs
  <2>2. QED BY <1>2, <2>1 DEF PollStage
<1>6. p.ready \in OfCall(c) /\ p.seen \in SUBSET OfCall(c)
  BY <1>5 DEF OneReady
<1>7. N \in [Syncer -> NackType]
  BY <1>1, <1>4, <1>6, MadeIs
<1>8. Chooses(t, c)
  <2>1. /\ pc'[t] = "run" /\ \A u \in Thread : u # t => pc'[u] = pc[u]
        /\ outcome'[c] = "evt" /\ \A d \in Call : d # c => outcome'[d] = outcome[d]
    BY <1>2, ReturnIs
  <2>2. QED BY <1>4, <2>1 DEF Chooses
<1>9. MayGo(c)
  BY <1>4, MayGoIs
<1>10. CASE p.taker # Null
  <2>1. {p.ready, p.taker} \ {Null} = {p.ready, p.taker}
    BY <1>2, <1>10
  <2>2. Choose({p.ready, p.taker}, N, c)
    BY <1>2, <2>1
  <2>3. value' = value
    BY <1>2, <1>5, <1>10 DEF OneReady, PostTaken, OnSema
  <2>4. QED BY <1>4, <1>5, <1>7, <1>8, <1>9, <1>10, <2>2, <2>3, MeetMaps
<1>11. CASE p.taker = Null
  <2>1. PICK v : v = p.ready
    OBVIOUS
  <2>2. {p.ready, p.taker} \ {Null} = {v}
    BY <1>2, <1>11, <2>1
  <2>3. Choose({v}, N, c) /\ value' = PostTaken(v)
    BY <1>2, <2>1, <2>2
  <2>4. v \in OfCall(c) /\ Posted(v)
    BY <1>5, <1>6, <1>11, <2>1 DEF OneReady
  <2>5. QED BY <1>4, <1>7, <1>8, <1>9, <2>3, <2>4, TakeMaps
<1>12. QED BY <1>10, <1>11

\* The timeout is 0.
LEMMA TimesOutMaps ==
  ASSUME IInv, BalanceInv, NEW c \in Call, NEW t, t = c[1], NEW s \in 0..(MaxEvts - 1), SyncTimesOut(t, c, s)
  PROVE  BalanceInv' /\ Abstract!Next
<1>1. /\ Calls(t, c, s) /\ SyncOf(c).timed
      /\ suspend_break' = Breaks({}, c) /\ Return(c, "false")
      /\ result' = result /\ got' = got /\ running' = running /\ value' = value
  BY DEF SyncTimesOut, NothingChosen
<1>2. Called(t, c, s)
  BY <1>1, CallsIs
<1>3. /\ At(t, c) /\ pc[t] = "run" /\ Made(c) /\ result[c] = 0
      /\ program' = program /\ external_break' = external_break
      /\ call'[t] = c[2] /\ \A u \in Thread : u # t => call'[u] = call[u] /\ start'[u] = start[u]
  BY <1>2 DEF Called, At
<1>4. /\ suspend_break'[t] = suspend_break[t] - (IF SyncOf(c).enable THEN 1 ELSE 0)
      /\ \A u \in Thread : u # t => suspend_break'[u] = suspend_break[u]
  BY <1>1, BreaksIs
<1>5. Others(t)
  BY <1>1, <1>3, <1>4 DEF Others
<1>6. /\ pc'[t] = "run" /\ OtherPcs(t) /\ outcome'[c] = "false"
      /\ \A d \in Call : d # c => outcome'[d] = outcome[d]
  BY <1>1, ReturnIs DEF OtherPcs
<1>7. Only(t, c) /\ pc'[t] = "run"
  BY <1>1, <1>3, <1>5, <1>6, OnlyIs
<1>8. SyncOf(c).enable => NoneLater(c)
  BY <1>1, <1>3, LastIs
<1>9. QED BY <1>1, <1>3, <1>4, <1>6, <1>7, <1>8, FailMaps

\* It leaves it to the scheduler to poll.
LEMMA PollsMaps ==
  ASSUME IInv, BalanceInv, NEW c \in Call, NEW t, t = c[1], NEW s \in 0..(MaxEvts - 1), SyncPolls(t, c, s)
  PROVE  BalanceInv' /\ Abstract!Next
<1>1. /\ Calls(t, c, s)
      /\ pc' = [pc EXCEPT ![t] = "poll"] /\ outcome' = [outcome EXCEPT ![c] = "going"]
      /\ result' = result /\ got' = got /\ running' = running /\ value' = value
      /\ suspend_break' = suspend_break
  BY DEF SyncPolls, NothingChosen
<1>2. Called(t, c, s)
  BY <1>1, CallsIs
<1>3. /\ At(t, c) /\ pc[t] = "run" /\ result[c] = 0 /\ outcome[c] = "none"
      /\ program' = program /\ external_break' = external_break
      /\ call'[t] = c[2] /\ \A u \in Thread : u # t => call'[u] = call[u] /\ start'[u] = start[u]
  BY <1>2 DEF Called
<1>4. /\ pc'[t] = "poll" /\ OtherPcs(t) /\ outcome'[c] = "going"
      /\ \A d \in Call : d # c => outcome'[d] = outcome[d]
  BY <1>1, <1>3, TypesIs DEF OutcomeType, PcType, OtherPcs, At
<1>5. Others(t)
  BY <1>1, <1>3 DEF Others
<1>6. Only(t, c) /\ pc'[t] = "poll"
  BY <1>1, <1>3, <1>4, <1>5, OnlyIs
<1>7. BlockInv(t)'
  BY <1>6 DEF BlockInv
<1>8. QED BY <1>1, <1>3, <1>4, <1>6, <1>7, AskMaps

\* It sleeps at once.
LEMMA SleepsMaps ==
  ASSUME IInv, BalanceInv, NEW c \in Call, NEW t, t = c[1], NEW s \in 0..(MaxEvts - 1), SyncSleeps(t, c, s)
  PROVE  BalanceInv' /\ Abstract!Next
<1>1. /\ Calls(t, c, s)
      /\ Sleep(t) /\ outcome' = [outcome EXCEPT ![c] = "going"]
      /\ result' = result /\ got' = got /\ value' = value
      /\ suspend_break' = suspend_break
  BY DEF SyncSleeps, NothingChosen
<1>2. Called(t, c, s)
  BY <1>1, CallsIs
<1>3. /\ At(t, c) /\ pc[t] = "run" /\ result[c] = 0 /\ outcome[c] = "none" /\ t \in Thread
      /\ program' = program /\ external_break' = external_break
      /\ call'[t] = c[2] /\ \A u \in Thread : u # t => call'[u] = call[u] /\ start'[u] = start[u]
  BY <1>2 DEF Called, At
<1>4. outcome'[c] = "going" /\ \A d \in Call : d # c => outcome'[d] = outcome[d]
  BY <1>1, TypesIs DEF OutcomeType
<1>5. /\ pc'[t] = "wait" /\ OtherPcs(t)
      /\ "SUSPENDED" \in running'[t] /\ \A u \in Thread : u # t => running'[u] = running[u]
  BY <1>1, <1>3, SleepIs DEF OtherPcs
<1>6. Others(t)
  BY <1>1, <1>3, <1>5 DEF Others
<1>7. Only(t, c) /\ pc'[t] = "wait"
  BY <1>1, <1>3, <1>4, <1>5, <1>6, OnlyIs
<1>8. BlockInv(t)'
  BY <1>5, <1>7 DEF BlockInv
<1>9. QED BY <1>1, <1>3, <1>4, <1>7, <1>8, AskMaps

-----------------------------------------------------------------------------
\* A thread that was chosen for, and woken, returns, or a break is raised.
LEMMA ReturnChosenMaps ==
  ASSUME IInv, BalanceInv, NEW c \in Call, NEW t, t = c[1], ReturnChosen(t, c)
  PROVE  BalanceInv' /\ Abstract!Next
<1>1. /\ In(t, c, "wait") /\ Queued(running[t]) /\ result[c] # 0
      /\ running' = [running EXCEPT ![t] = running[t] \ {"NEED_KILL_CLEANUP"}]
      /\ result' = result /\ got' = got /\ value' = value
      /\ \/ BreakDue(t) /\ RaiseInSync(t, c) /\ suspend_break' = suspend_break
         \/ /\ Return(c, "evt") /\ suspend_break' = Breaks({}, c)
            /\ external_break' = external_break
  BY DEF ReturnChosen, Awake, NothingChosen
<1>2. Inside(t, c, "wait")
  BY <1>1, InIs DEF Queued
<1>3. /\ At(t, c) /\ program' = program /\ outcome[c] = "going" /\ pc[t] # "run"
      /\ call'[t] = c[2] /\ \A u \in Thread : u # t => call'[u] = call[u] /\ start'[u] = start[u]
  BY <1>2 DEF Inside
<1>4. \A u \in Thread : u # t => running'[u] = running[u]
  BY <1>1, TypesIs
<1>5. CASE BreakDue(t) /\ RaiseInSync(t, c) /\ suspend_break' = suspend_break
  <2>1. Return(c, "break") /\ \A u \in Thread : u # t => external_break'[u] = external_break[u]
    <3>1. Raised(t, c)
      BY <1>5, RaiseIs
    <3>2. QED BY <3>1 DEF Raised
  <2>2. /\ pc'[t] = "run" /\ OtherPcs(t) /\ outcome'[c] = "break"
        /\ \A d \in Call : d # c => outcome'[d] = outcome[d]
    BY <2>1, ReturnIs DEF OtherPcs
  <2>3. Others(t)
    BY <1>3, <1>4, <1>5, <2>1 DEF Others
  <2>4. Only(t, c) /\ pc'[t] = "run"
    BY <1>1, <1>3, <2>2, <2>3, OnlyIs
  <2>5. BalanceInv'
    BY <1>3, <1>5, <2>4, OnlyEnds
  <2>6. QED BY <1>1, <1>3, <1>5, <2>2, <2>4, <2>5, LoseMaps
<1>6. CASE Return(c, "evt") /\ suspend_break' = Breaks({}, c) /\ external_break' = external_break
  <2>1. /\ pc'[t] = "run" /\ OtherPcs(t) /\ outcome'[c] = "evt"
        /\ \A d \in Call : d # c => outcome'[d] = outcome[d]
    BY <1>6, ReturnIs DEF OtherPcs
  <2>2. /\ suspend_break'[t] = suspend_break[t] - (IF SyncOf(c).enable THEN 1 ELSE 0)
        /\ \A u \in Thread : u # t => suspend_break'[u] = suspend_break[u]
    BY <1>6, BreaksIs
  <2>3. Others(t)
    BY <1>3, <1>4, <1>6, <2>2 DEF Others
  <2>4. Only(t, c) /\ pc'[t] = "run"
    BY <1>1, <1>3, <2>1, <2>3, OnlyIs
  <2>5. QED BY <1>1, <1>3, <2>1, <2>2, <2>4, ReturnMaps
<1>7. QED BY <1>1, <1>5, <1>6

\* It was chosen for, then killed.
LEMMA DieChosenMaps ==
  ASSUME IInv, BalanceInv, NEW c \in Call, NEW t, t = c[1], DieChosen(t, c)
  PROVE  BalanceInv' /\ Abstract!Next
<1>1. /\ In(t, c, "wait") /\ Queued(running[t]) /\ result[c] # 0
      /\ running' = [running EXCEPT ![t] = {}]
      /\ result' = result /\ got' = got /\ value' = value /\ Return(c, "killed")
      /\ external_break' = external_break /\ suspend_break' = suspend_break
  BY DEF DieChosen, Awake, NothingChosen
<1>2. Inside(t, c, "wait")
  BY <1>1, InIs DEF Queued
<1>3. /\ At(t, c) /\ program' = program /\ outcome[c] = "going" /\ pc[t] # "run"
      /\ call'[t] = c[2] /\ \A u \in Thread : u # t => call'[u] = call[u] /\ start'[u] = start[u]
  BY <1>2 DEF Inside
<1>4. \A u \in Thread : u # t => running'[u] = running[u]
  BY <1>1, TypesIs
<1>5. /\ pc'[t] = "run" /\ OtherPcs(t) /\ outcome'[c] = "killed"
      /\ \A d \in Call : d # c => outcome'[d] = outcome[d]
  BY <1>1, ReturnIs DEF OtherPcs
<1>6. Others(t)
  BY <1>1, <1>3, <1>4 DEF Others
<1>7. Only(t, c) /\ pc'[t] = "run"
  BY <1>1, <1>3, <1>5, <1>6, OnlyIs
<1>8. BalanceInv'
  BY <1>1, <1>3, <1>7, OnlyEnds
<1>9. QED BY <1>1, <1>3, <1>5, <1>7, <1>8, LoseMaps

\* A thread that a signal has woken leaves its lines.
LEMMA LeaveMaps ==
  ASSUME IInv, BalanceInv, NEW c \in Call, NEW t, t = c[1], LeaveLines(t, c)
  PROVE  BalanceInv' /\ [Abstract!Next]_(Abstract!vars)
<1>1. PICK word : word = running[t] \ {"NEED_KILL_CLEANUP"}
  OBVIOUS
<1>2. /\ In(t, c, "wait") /\ Queued(running[t]) /\ result[c] = 0
      /\ result' = result /\ got' = got /\ value' = value /\ suspend_break' = suspend_break
      /\ ThreadBlock(t, c, word)
  BY <1>1 DEF LeaveLines, Awake, NothingChosen
<1>3. Inside(t, c, "wait")
  BY <1>2, InIs DEF Queued
<1>4. /\ At(t, c) /\ program' = program /\ outcome[c] = "going" /\ pc[t] = "wait" /\ c = Current(t)
      /\ call'[t] = c[2] /\ \A u \in Thread : u # t => call'[u] = call[u] /\ start'[u] = start[u]
      /\ t \in Thread
  BY <1>3 DEF Inside, At
<1>5. \A u \in Thread : u # t => running'[u] = running[u]
  BY <1>2, TypesIs DEF ThreadBlock
<1>6. CASE "KILLED" \in word /\ Return(c, "killed") /\ external_break' = external_break
  <2>1. /\ pc'[t] = "run" /\ OtherPcs(t) /\ outcome'[c] = "killed"
        /\ \A d \in Call : d # c => outcome'[d] = outcome[d]
    BY <1>6, ReturnIs DEF OtherPcs
  <2>2. Others(t)
    BY <1>2, <1>4, <1>5, <1>6 DEF Others
  <2>3. Only(t, c)
    BY <1>2, <1>4, <2>1, <2>2, OnlyIs
  <2>4. QED BY <1>2, <1>4, <2>1, <2>3, FailMaps
<1>7. CASE BreakDue(t) /\ RaiseInSync(t, c)
  <2>1. Return(c, "break") /\ \A u \in Thread : u # t => external_break'[u] = external_break[u]
    <3>1. Raised(t, c)
      BY <1>7, RaiseIs
    <3>2. QED BY <3>1 DEF Raised
  <2>2. /\ pc'[t] = "run" /\ OtherPcs(t) /\ outcome'[c] = "break"
        /\ \A d \in Call : d # c => outcome'[d] = outcome[d]
    BY <2>1, ReturnIs DEF OtherPcs
  <2>3. Others(t)
    BY <1>2, <1>4, <1>5, <2>1 DEF Others
  <2>4. Only(t, c)
    BY <1>2, <1>4, <2>2, <2>3, OnlyIs
  <2>5. QED BY <1>2, <1>4, <2>2, <2>4, FailMaps
<1>8. CASE pc' = [pc EXCEPT ![t] = "block"] /\ external_break' = external_break /\ outcome' = outcome
  <2>1. OtherPcs(t) /\ Others(t)
    BY <1>2, <1>4, <1>5, <1>8, TypesIs DEF Others, OtherPcs, PcType
  <2>2. Only(t, c)
    BY <1>2, <1>4, <1>8, <2>1, OnlyIs
  <2>3. program[t].signals # {}
    BY <1>2, <1>4 DEF BalanceInv, BlockInv, Queued
  <2>4. BlockInv(t)'
    BY <1>4, <2>3 DEF BlockInv
  <2>5. QED BY <1>2, <1>4, <1>8, <2>2, <2>4, GoesMaps
<1>9. QED BY <1>2, <1>6, <1>7, <1>8 DEF ThreadBlock

\* A break is raised after scheme_thread_block.
LEMMA BreakAfterBlockMaps ==
  ASSUME IInv, BalanceInv, NEW c \in Call, NEW t, t = c[1], BreakAfterBlock(t, c)
  PROVE  BalanceInv' /\ Abstract!Next
<1>1. /\ Blocked(t, c) /\ BreakDue(t) /\ RaiseInSync(t, c)
      /\ result' = result /\ got' = got /\ value' = value /\ suspend_break' = suspend_break
      /\ running' = running
  BY DEF BreakAfterBlock, NothingChosen
<1>2. BlockedNow(t, c)
  BY <1>1, BlockedIs
<1>3. /\ At(t, c) /\ program' = program /\ outcome[c] = "going" /\ result[c] = 0
      /\ call'[t] = c[2] /\ \A u \in Thread : u # t => call'[u] = call[u] /\ start'[u] = start[u]
  BY <1>2 DEF BlockedNow
<1>4. Return(c, "break") /\ \A u \in Thread : u # t => external_break'[u] = external_break[u]
  <2>1. Raised(t, c)
    BY <1>1, RaiseIs
  <2>2. QED BY <2>1 DEF Raised
<1>5. /\ pc'[t] = "run" /\ OtherPcs(t) /\ outcome'[c] = "break"
      /\ \A d \in Call : d # c => outcome'[d] = outcome[d]
  BY <1>4, ReturnIs DEF OtherPcs
<1>6. Others(t)
  BY <1>1, <1>3, <1>4 DEF Others
<1>7. Only(t, c)
  BY <1>1, <1>3, <1>5, <1>6, OnlyIs
<1>8. QED BY <1>1, <1>3, <1>5, <1>7, FailMaps

\* The poll after that finds a partner.
LEMMA MeetAfterBlockMaps ==
  ASSUME IInv, BalanceInv, NEW c \in Call, NEW t, t = c[1], MeetAfterBlock(t, c)
  PROVE  BalanceInv' /\ Abstract!Next
<1>1. PICK p : p = Poll(c, start[t], FALSE)
  OBVIOUS
<1>2. /\ Blocked(t, c) /\ p.ready # Null /\ p.taker # Null
      /\ Choose({p.ready, p.taker}, nack, c) /\ Return(c, "evt")
      /\ external_break' = external_break /\ value' = value
  BY <1>1 DEF MeetAfterBlock
<1>3. BlockedNow(t, c)
  BY <1>2, BlockedIs
<1>4. /\ At(t, c) /\ program' = program /\ outcome[c] = "going" /\ result[c] = 0 /\ Out(c)
      /\ call'[t] = c[2] /\ \A u \in Thread : u # t => call'[u] = call[u] /\ start'[u] = start[u]
  BY <1>3 DEF BlockedNow
<1>5. OneReady(p, c)
  BY <1>1, <1>2, <1>3, PollAgain
<1>6. nack \in [Syncer -> NackType]
  BY TypesIs
<1>7. MayGo(c)
  BY <1>4, MayGoIs
<1>8. Chooses(t, c)
  <2>1. /\ pc'[t] = "run" /\ \A u \in Thread : u # t => pc'[u] = pc[u]
        /\ outcome'[c] = "evt" /\ \A d \in Call : d # c => outcome'[d] = outcome[d]
    BY <1>2, ReturnIs
  <2>2. QED BY <1>2, <1>4, <2>1 DEF Chooses
<1>9. QED BY <1>2, <1>4, <1>5, <1>6, <1>7, <1>8, MeetMaps

\* It finds a post, which it takes for nothing.
LEMMA TakeAfterBlockMaps ==
  ASSUME IInv, BalanceInv, NEW c \in Call, NEW t, t = c[1], TakeAfterBlock(t, c)
  PROVE  BalanceInv' /\ Abstract!Next
<1>1. PICK p : p = Poll(c, start[t], FALSE)
  OBVIOUS
<1>2. /\ Blocked(t, c) /\ p.ready # Null /\ p.taker = Null
      /\ value' = PostTaken(p.ready) /\ suspend_break' = Breaks({}, c)
      /\ Return(c, "false") /\ result' = result /\ got' = got /\ running' = running
      /\ external_break' = external_break
  BY <1>1 DEF TakeAfterBlock, NothingChosen
<1>3. BlockedNow(t, c)
  BY <1>2, BlockedIs
<1>4. /\ At(t, c) /\ program' = program /\ outcome[c] = "going" /\ result[c] = 0 /\ Made(c)
      /\ call'[t] = c[2] /\ \A u \in Thread : u # t => call'[u] = call[u] /\ start'[u] = start[u]
      /\ pc[t] = "block" /\ t \in Thread
  BY <1>3 DEF BlockedNow
<1>5. PICK v : v = p.ready
  OBVIOUS
<1>6. v \in OfCall(c) /\ Posted(v)
  <2>1. OneReady(p, c)
    BY <1>1, <1>2, <1>3, PollAgain
  <2>2. QED BY <1>2, <1>5, <2>1 DEF OneReady
<1>7. v \in Syncer /\ Real(v) /\ CallOf(v) = c
  BY <1>6 DEF OfCall
<1>8. /\ v[3] \in 1..Len(SyncOf(c).evts) /\ EvtOf(v) = SyncOf(c).evts[v[3]]
      /\ EvtOf(v) \in Evt /\ EvtOf(v).on \in Sema
      /\ EvtOf(v).kind \in {"sema", "peek"} /\ value[EvtOf(v).on] > 0
  BY <1>6, <1>7, EvtIs DEF IInv, Types, Posted, OnSema, EvtOf
<1>9. SyncOf(c).enable => NoneLater(c)
  <2>1. program[t].signals # {}
    BY <1>4 DEF BalanceInv, BlockInv
  <2>2. SyncOf(c).evts[v[3]].kind \notin {"get", "put"}
    BY <1>8
  <2>3. QED BY <1>4, <1>8, <2>1, <2>2, LastIs
<1>10. \/ value' = value
       \/ \E s \in Sema : /\ [kind |-> "sema", on |-> s] \in Offered[c] /\ value[s] > 0
                          /\ value' = [value EXCEPT ![s] = @ - 1]
  <2>1. CASE EvtOf(v).kind = "sema"
    <3>1. EvtOf(v) \in Offered[c]
      BY <1>4, <1>7, OfferIs
    <3>2. EvtOf(v) = [kind |-> "sema", on |-> EvtOf(v).on]
      BY <1>8, <2>1 DEF Evt, Line
    <3>3. value' = [value EXCEPT ![EvtOf(v).on] = @ - 1]
      BY <1>2, <1>5, <2>1 DEF PostTaken
    <3>4. QED BY <1>8, <3>1, <3>2, <3>3
  <2>2. CASE EvtOf(v).kind # "sema"
    BY <1>2, <1>5, <2>2 DEF PostTaken
  <2>3. QED BY <2>1, <2>2
<1>11. /\ suspend_break'[t] = suspend_break[t] - (IF SyncOf(c).enable THEN 1 ELSE 0)
       /\ \A u \in Thread : u # t => suspend_break'[u] = suspend_break[u]
  BY <1>2, BreaksIs
<1>12. /\ pc'[t] = "run" /\ OtherPcs(t) /\ outcome'[c] = "false"
       /\ \A d \in Call : d # c => outcome'[d] = outcome[d]
  BY <1>2, ReturnIs DEF OtherPcs
<1>13. Others(t)
  BY <1>2, <1>4, <1>11 DEF Others
<1>14. Only(t, c)
  BY <1>2, <1>4, <1>12, <1>13, OnlyIs
<1>15. QED BY <1>4, <1>9, <1>10, <1>11, <1>12, <1>14, FailMaps

\* It finds nothing.
LEMMA SleepAgainMaps ==
  ASSUME IInv, BalanceInv, NEW c \in Call, NEW t, t = c[1], SleepAgain(t, c)
  PROVE  BalanceInv' /\ UNCHANGED Abstract!vars
<1>1. /\ Blocked(t, c) /\ Sleep(t)
      /\ value' = value /\ suspend_break' = suspend_break
      /\ outcome' = outcome /\ result' = result /\ got' = got
      /\ external_break' = external_break
  BY DEF SleepAgain, NothingChosen
<1>2. BlockedNow(t, c)
  BY <1>1, BlockedIs
<1>3. /\ At(t, c) /\ program' = program /\ result[c] = 0 /\ t \in Thread
      /\ call'[t] = c[2] /\ \A u \in Thread : u # t => call'[u] = call[u] /\ start'[u] = start[u]
  BY <1>2 DEF BlockedNow
<1>4. /\ pc'[t] = "wait" /\ OtherPcs(t)
      /\ "SUSPENDED" \in running'[t] /\ \A u \in Thread : u # t => running'[u] = running[u]
  BY <1>1, <1>3, SleepIs DEF OtherPcs
<1>5. Others(t)
  BY <1>1, <1>3, <1>4 DEF Others
<1>6. Only(t, c)
  BY <1>1, <1>3, <1>4, <1>5, OnlyIs
<1>7. BlockInv(t)'
  BY <1>4 DEF BlockInv
<1>8. QED BY <1>1, <1>3, <1>6, <1>7, GoesMaps

\* The scheduler finds a break for a polled thread.
LEMMA PollBreakMaps ==
  ASSUME IInv, BalanceInv, NEW c \in Call, NEW t, t = c[1], PollBreak(t, c)
  PROVE  BalanceInv' /\ Abstract!Next
<1>1. /\ Looks(t, c) /\ BreakDue(t) /\ RaiseInSync(t, c)
      /\ result' = result /\ got' = got /\ value' = value /\ suspend_break' = suspend_break
      /\ running' = running
  BY DEF PollBreak, NothingChosen
<1>2. LooksNow(t, c)
  BY <1>1, LooksIs
<1>3. /\ At(t, c) /\ program' = program /\ outcome[c] = "going" /\ pc[t] # "run"
      /\ call'[t] = c[2] /\ \A u \in Thread : u # t => call'[u] = call[u] /\ start'[u] = start[u]
  BY <1>2 DEF LooksNow
<1>4. Return(c, "break") /\ \A u \in Thread : u # t => external_break'[u] = external_break[u]
  <2>1. Raised(t, c)
    BY <1>1, RaiseIs
  <2>2. QED BY <2>1 DEF Raised
<1>5. /\ pc'[t] = "run" /\ OtherPcs(t) /\ outcome'[c] = "break"
      /\ \A d \in Call : d # c => outcome'[d] = outcome[d]
  BY <1>4, ReturnIs DEF OtherPcs
<1>6. Others(t)
  BY <1>1, <1>3, <1>4 DEF Others
<1>7. Only(t, c)
  BY <1>1, <1>3, <1>5, <1>6, OnlyIs
<1>8. CASE result[c] = 0
  BY <1>1, <1>3, <1>5, <1>7, <1>8, FailMaps
<1>9. CASE result[c] # 0
  <2>1. BalanceInv'
    BY <1>1, <1>3, <1>5, <1>7, OnlyEnds
  <2>2. QED BY <1>1, <1>3, <1>5, <1>7, <1>9, <2>1, LoseMaps
<1>10. QED BY <1>8, <1>9

\* It finds that a partner or a post has chosen for it.
LEMMA PollReturnsMaps ==
  ASSUME IInv, BalanceInv, NEW c \in Call, NEW t, t = c[1], PollReturns(t, c)
  PROVE  BalanceInv' /\ Abstract!Next
<1>1. /\ Looks(t, c) /\ result[c] # 0 /\ suspend_break' = Breaks({}, c) /\ Return(c, "evt")
      /\ result' = result /\ got' = got /\ value' = value /\ running' = running
      /\ external_break' = external_break
  BY DEF PollReturns, NothingChosen
<1>2. LooksNow(t, c)
  BY <1>1, LooksIs
<1>3. /\ At(t, c) /\ program' = program /\ outcome[c] = "going" /\ pc[t] # "run"
      /\ call'[t] = c[2] /\ \A u \in Thread : u # t => call'[u] = call[u] /\ start'[u] = start[u]
  BY <1>2 DEF LooksNow
<1>4. /\ suspend_break'[t] = suspend_break[t] - (IF SyncOf(c).enable THEN 1 ELSE 0)
      /\ \A u \in Thread : u # t => suspend_break'[u] = suspend_break[u]
  BY <1>1, BreaksIs
<1>5. /\ pc'[t] = "run" /\ OtherPcs(t) /\ outcome'[c] = "evt"
      /\ \A d \in Call : d # c => outcome'[d] = outcome[d]
  BY <1>1, ReturnIs DEF OtherPcs
<1>6. Others(t)
  BY <1>1, <1>3, <1>4 DEF Others
<1>7. Only(t, c)
  BY <1>1, <1>3, <1>5, <1>6, OnlyIs
<1>8. QED BY <1>1, <1>3, <1>4, <1>5, <1>7, ReturnMaps

\* It finds that its time is over.
LEMMA PollTimesOutMaps ==
  ASSUME IInv, BalanceInv, NEW c \in Call, NEW t, t = c[1], PollTimesOut(t, c)
  PROVE  BalanceInv' /\ Abstract!Next
<1>1. /\ Looks(t, c) /\ result[c] = 0 /\ SyncOf(c).timed
      /\ suspend_break' = Breaks({}, c) /\ Return(c, "false")
      /\ result' = result /\ got' = got /\ value' = value /\ running' = running
      /\ external_break' = external_break
  BY DEF PollTimesOut, Unready, NothingChosen
<1>2. LooksNow(t, c)
  BY <1>1, LooksIs
<1>3. /\ At(t, c) /\ program' = program /\ outcome[c] = "going" /\ Made(c)
      /\ call'[t] = c[2] /\ \A u \in Thread : u # t => call'[u] = call[u] /\ start'[u] = start[u]
  BY <1>2 DEF LooksNow
<1>4. /\ suspend_break'[t] = suspend_break[t] - (IF SyncOf(c).enable THEN 1 ELSE 0)
      /\ \A u \in Thread : u # t => suspend_break'[u] = suspend_break[u]
  BY <1>1, BreaksIs
<1>5. /\ pc'[t] = "run" /\ OtherPcs(t) /\ outcome'[c] = "false"
      /\ \A d \in Call : d # c => outcome'[d] = outcome[d]
  BY <1>1, ReturnIs DEF OtherPcs
<1>6. Others(t)
  BY <1>1, <1>3, <1>4 DEF Others
<1>7. Only(t, c)
  BY <1>1, <1>3, <1>5, <1>6, OnlyIs
<1>8. SyncOf(c).enable => NoneLater(c)
  BY <1>1, <1>3, LastIs
<1>9. QED BY <1>1, <1>3, <1>4, <1>5, <1>7, <1>8, FailMaps

\* The thread takes a post.
LEMMA PollTakesMaps ==
  ASSUME IInv, BalanceInv, NEW c \in Call, NEW t, t = c[1], PollTakes(t, c)
  PROVE  BalanceInv' /\ Abstract!Next
<1>1. PICK order, posted, v : /\ order = Rotated(c, start[t])
                              /\ posted = {k \in 1..Len(order) : Posted(order[k])}
                              /\ v = order[Min(posted)]
  OBVIOUS
<1>2. /\ Looks(t, c) /\ result[c] = 0 /\ posted # {} /\ value' = PostTaken(v)
      /\ Choose({v}, nack, c) /\ Return(c, "evt") /\ external_break' = external_break
  BY <1>1 DEF PollTakes
<1>3. LooksNow(t, c)
  BY <1>2, LooksIs
<1>4. /\ At(t, c) /\ program' = program /\ start[t] < Len(SyncOf(c).evts)
      /\ outcome[c] = "going" /\ Made(c) /\ t \in Thread
      /\ call'[t] = c[2] /\ \A u \in Thread : u # t => call'[u] = call[u] /\ start'[u] = start[u]
  BY <1>3 DEF LooksNow
<1>5. v \in OfCall(c) /\ Posted(v)
  <2>1. program \in Programs /\ start[t] \in Nat
    BY <1>4, TypesIs DEF IInv, Types
  <2>2. Len(order) \in Nat /\ \A j \in 1..Len(order) : order[j] \in OfCall(c)
    BY <1>1, <1>4, <2>1, RotatedIs
  <2>3. posted \in SUBSET Nat
    BY <1>1, <2>2
  <2>4. Min(posted) \in posted
    BY <1>2, <2>3, MinIs
  <2>5. QED BY <1>1, <2>2, <2>4
<1>6. nack \in [Syncer -> NackType]
  BY TypesIs
<1>7. MayGo(c)
  BY <1>2, <1>4, MayGoIs
<1>8. Chooses(t, c)
  <2>1. /\ pc'[t] = "run" /\ \A u \in Thread : u # t => pc'[u] = pc[u]
        /\ outcome'[c] = "evt" /\ \A d \in Call : d # c => outcome'[d] = outcome[d]
    BY <1>2, ReturnIs
  <2>2. QED BY <1>2, <1>4, <2>1 DEF Chooses
<1>9. QED BY <1>2, <1>4, <1>5, <1>6, <1>7, <1>8, TakeMaps

\* The scheduler finds nothing, and the thread goes to sleep.
LEMMA PollSleepsMaps ==
  ASSUME IInv, BalanceInv, NEW c \in Call, NEW t, t = c[1], PollSleeps(t, c)
  PROVE  BalanceInv' /\ UNCHANGED Abstract!vars
<1>1. /\ Looks(t, c) /\ result[c] = 0 /\ Sleep(t)
      /\ value' = value /\ suspend_break' = suspend_break
      /\ outcome' = outcome /\ result' = result /\ got' = got
      /\ external_break' = external_break
  BY DEF PollSleeps, Unready, NothingChosen
<1>2. LooksNow(t, c)
  BY <1>1, LooksIs
<1>3. /\ At(t, c) /\ program' = program /\ t \in Thread
      /\ call'[t] = c[2] /\ \A u \in Thread : u # t => call'[u] = call[u] /\ start'[u] = start[u]
  BY <1>2 DEF LooksNow
<1>4. /\ pc'[t] = "wait" /\ OtherPcs(t)
      /\ "SUSPENDED" \in running'[t] /\ \A u \in Thread : u # t => running'[u] = running[u]
  BY <1>1, <1>3, SleepIs DEF OtherPcs
<1>5. Others(t)
  BY <1>1, <1>3, <1>4 DEF Others
<1>6. Only(t, c)
  BY <1>1, <1>3, <1>4, <1>5, OnlyIs
<1>7. BlockInv(t)'
  BY <1>4 DEF BlockInv
<1>8. QED BY <1>1, <1>3, <1>6, <1>7, GoesMaps

-----------------------------------------------------------------------------
\* A word changes, and nothing else, for a reason that others send.
LEMMA RewordedMaps ==
  ASSUME IInv, BalanceInv, NEW p \in Thread, NEW word \in SUBSET Flag, Reworded(p, word),
         program[p].signals # {}
  PROVE  BalanceInv' /\ UNCHANGED Abstract!vars
<1>1. Signalled(p)
  BY RewordedIs
<1>2. QED BY <1>1, SignalMaps

\* A thread raises its break between two syncs.
LEMMA RaiseBreakMaps ==
  ASSUME IInv, BalanceInv, NEW t \in Thread, RaiseBreak(t)
  PROVE  BalanceInv' /\ UNCHANGED Abstract!vars
<1>1. /\ pc[t] = "run" /\ external_break' = [external_break EXCEPT ![t] = FALSE]
      /\ program' = program /\ call' = call /\ pc' = pc /\ start' = start
      /\ result' = result /\ got' = got /\ running' = running /\ suspend_break' = suspend_break
      /\ value' = value /\ links' = links /\ nack' = nack /\ outcome' = outcome
  BY DEF RaiseBreak, NoSyncGoesOn, NothingChosen
<1>2. external_break \in [Thread -> BOOLEAN] /\ running \in [Thread -> SUBSET Flag]
  BY TypesIs
<1>3. external_break' \in [Thread -> BOOLEAN]
      /\ \A u \in Thread : u # t => external_break'[u] = external_break[u]
  BY <1>1, <1>2
<1>4. Signalled(t)
  BY <1>1, <1>2, <1>3 DEF Signalled
<1>5. QED BY <1>1, <1>4, SignalMaps

\* break-thread
LEMMA BreakThreadMaps ==
  ASSUME IInv, BalanceInv, NEW t \in Thread, NEW p \in Thread, BreakThread(t, p)
  PROVE  BalanceInv' /\ UNCHANGED Abstract!vars
<1>1. PICK word : word = WeakResume(running[p])
  OBVIOUS
<1>2. /\ "break" \in program[p].signals
      /\ external_break' = [external_break EXCEPT ![p] = TRUE]
      /\ running' = [running EXCEPT ![p] = word]
      /\ program' = program /\ call' = call /\ pc' = pc /\ start' = start
      /\ result' = result /\ got' = got /\ suspend_break' = suspend_break
      /\ value' = value /\ links' = links /\ nack' = nack /\ outcome' = outcome
  BY <1>1 DEF BreakThread, Sends, NoSyncGoesOn, NothingChosen
<1>3. external_break \in [Thread -> BOOLEAN] /\ running \in [Thread -> SUBSET Flag]
  BY TypesIs
<1>4. word \in SUBSET Flag
  BY <1>1, <1>3, WordsAre
<1>5. /\ external_break' \in [Thread -> BOOLEAN] /\ running' \in [Thread -> SUBSET Flag]
      /\ \A u \in Thread : u # p => external_break'[u] = external_break[u] /\ running'[u] = running[u]
  BY <1>2, <1>3, <1>4
<1>6. Signalled(p)
  BY <1>2, <1>5 DEF Signalled
<1>7. QED BY <1>2, <1>6, SignalMaps

\* thread-suspend and thread-resume
LEMMA SuspendMaps ==
  ASSUME IInv, BalanceInv, NEW t \in Thread, NEW p \in Thread, ThreadSuspend(t, p) \/ ThreadResume(t, p)
  PROVE  BalanceInv' /\ UNCHANGED Abstract!vars
<1>1. "suspend" \in program[p].signals
  BY DEF ThreadSuspend, ThreadResume, Sends
<1>2. running[p] \in SUBSET Flag
  BY TypesIs
<1>3. UserSuspend(running[p]) \in SUBSET Flag /\ UserResume(running[p]) \in SUBSET Flag
  BY <1>2, WordsAre
<1>4. Reworded(p, UserSuspend(running[p])) \/ Reworded(p, UserResume(running[p]))
  BY DEF ThreadSuspend, ThreadResume, NoSyncGoesOn, NothingChosen, Reworded
<1>5. QED BY <1>1, <1>3, <1>4, RewordedMaps

\* The scheduler removes a killed thread.
LEMMA ReapMaps ==
  ASSUME IInv, BalanceInv, NEW p \in Thread, ReapKilled(p)
  PROVE  BalanceInv' /\ UNCHANGED Abstract!vars
<1>1. PICK gone \in SUBSET Flag : gone = {}
  OBVIOUS
<1>2. "KILLED" \in running[p] /\ Reworded(p, gone)
  BY <1>1 DEF ReapKilled, NoSyncGoesOn, NothingChosen, Reworded
<1>3. program[p].signals # {}
  BY <1>2 DEF IInv, ThreadInv, WordInv
<1>4. QED BY <1>2, <1>3, RewordedMaps

\* kill-thread.  A thread that waits is killed when it gets to run; the sync of any
\* other one ends here, also when it has been chosen for.
LEMMA KillMaps ==
  ASSUME IInv, BalanceInv, NEW t \in Thread, NEW p \in Thread, KillThread(t, p)
  PROVE  BalanceInv' /\ [Abstract!Next]_(Abstract!vars)
<1>1. PICK word, c : word = Kill(running[p]) /\ c = Current(p)
  OBVIOUS
<1>2. /\ "kill" \in program[p].signals /\ running[p] # {} /\ "KILLED" \notin running[p]
      /\ running' = [running EXCEPT ![p] = word]
      /\ IF pc[p] = "run" THEN links' = links /\ nack' = nack /\ outcome' = outcome
         ELSE outcome' = [outcome EXCEPT ![c] =
                IF "NEED_KILL_CLEANUP" \in running[p] THEN outcome[c] ELSE "killed"]
      /\ program' = program /\ call' = call /\ pc' = pc /\ start' = start
      /\ result' = result /\ got' = got /\ suspend_break' = suspend_break
      /\ value' = value /\ external_break' = external_break
  BY <1>1 DEF KillThread, Sends, StillRunning, NoSyncGoesOn, NothingChosen
<1>3. running \in [Thread -> SUBSET Flag] /\ running[p] \in SUBSET Flag /\ WordInv(p)
  BY TypesIs DEF IInv, ThreadInv
<1>4. word \in SUBSET Flag
  BY <1>1, <1>2, <1>3, KillIs
<1>5. /\ running' \in [Thread -> SUBSET Flag]
      /\ \A u \in Thread : u # p => running'[u] = running[u]
  BY <1>2, <1>3, <1>4
<1>6. CASE pc[p] = "run"
  <2>1. external_break \in [Thread -> BOOLEAN]
    BY TypesIs
  <2>2. Signalled(p)
    BY <1>2, <1>5, <1>6, <2>1 DEF Signalled
  <2>3. QED BY <1>6, <2>2, SignalMaps
<1>7. CASE pc[p] # "run"
  <2>1. c \in Call /\ Made(c) /\ c[1] = p /\ c[2] = call[p]
    BY <1>1, <1>7, CurrentIs
  <2>2. At(p, c)
    BY <1>1, <1>2, <1>7, <2>1 DEF At
  <2>3. outcome \in OutcomeType
    BY TypesIs
  <2>4. /\ \A d \in Call : d # c => outcome'[d] = outcome[d]
        /\ outcome' = outcome \/ outcome'[c] = "killed"
    BY <1>2, <1>7, <2>1, <2>3 DEF OutcomeType
  <2>5. Others(p) /\ OtherPcs(p)
    BY <1>2, <1>5 DEF Others, OtherPcs
  <2>6. Only(p, c)
    BY <1>2, <2>1, <2>4, <2>5, OnlyIs
  <2>7. outcome[c] = "going"
    BY <1>1, <1>2, <1>7 DEF IInv, ThreadInv, StageInv
  <2>8. BalanceInv'
    <3>1. SuspendInv(p)'
      BY <1>2, Primes DEF BalanceInv, SuspendInv, Current
    <3>2. BlockInv(p)'
      BY <1>2 DEF BlockInv
    <3>3. QED BY <2>2, <2>6, <3>1, <3>2, OnlyBalance
  <2>9. CASE outcome' = outcome
    BY <1>2, <2>8, <2>9, IsStutter
  <2>10. CASE outcome'[c] = "killed" /\ result[c] # 0
    BY <1>2, <1>7, <2>2, <2>6, <2>7, <2>8, <2>10, LoseMaps
  <2>11. CASE outcome'[c] = "killed" /\ result[c] = 0
    <3>1. MayGo(c)
      BY <2>2, <2>7, <2>11, MayGoIs
    <3>2. StatusOf(c)' = "killed"
      BY <2>1, <2>11, StatusNext
    <3>3. /\ Seen' = [Seen EXCEPT ![c] = "killed"] /\ Picked' = Picked /\ got' = got
          /\ Offered' = Offered /\ Enabled' = Enabled
      BY <2>2, <2>6, <3>2, OnlySeen
    <3>4. QED BY <1>2, <2>1, <2>8, <3>1, <3>3, IsFail
  <2>12. QED BY <2>4, <2>9, <2>10, <2>11
<1>8. QED BY <1>6, <1>7

-----------------------------------------------------------------------------
\* The first state of Sync is one of AbstractSwap: every call is a new request.
LEMMA InitMaps ==
  ASSUME Init
  PROVE  Abstract!Init
<1>1. /\ program \in Programs /\ value = [s \in Sema |-> 0] /\ got = [c \in Call |-> Null]
      /\ \A c \in Call : outcome[c] = "none" /\ result[c] = 0
  BY DEF Init
<1>2. Seen = [c \in Call |-> "new"]
  BY <1>1, StatusIs DEF Seen
<1>3. Picked = [c \in Call |-> Null]
  BY <1>1 DEF Picked
<1>4. Enabled \in SUBSET Call
  BY DEF Enabled
<1>5. Offered \in [Call -> SUBSET Abstract!Offer]
  <2>1. ASSUME NEW c \in Call, Made(c) PROVE ToSet(SyncOf(c).evts) \in SUBSET Abstract!Offer
    <3>1. SyncOf(c).evts \in Seq(Evt)
      BY <1>1, <2>1, SyncIs DEF SyncType
    <3>2. ToSet(SyncOf(c).evts) \in SUBSET Evt
      BY <3>1 DEF ToSet
    <3>3. Evt \subseteq Abstract!Offer
      BY DEF Evt, Line, Abstract!Offer
    <3>4. QED BY <3>2, <3>3
  <2>2. QED BY <2>1 DEF Offered
<1>6. QED BY <1>1, <1>2, <1>3, <1>4, <1>5 DEF Abstract!Init, Seen, Picked, Offered, Enabled

\* A step that changes nothing.
LEMMA StutterMaps ==
  ASSUME IInv, BalanceInv, UNCHANGED vars
  PROVE  BalanceInv' /\ UNCHANGED Abstract!vars
<1>1. /\ program' = program /\ call' = call /\ pc' = pc /\ start' = start
      /\ external_break' = external_break /\ running' = running
      /\ suspend_break' = suspend_break /\ value' = value
      /\ result' = result /\ got' = got /\ outcome' = outcome
  BY DEF vars
<1>2. ASSUME NEW u \in Thread PROVE SuspendInv(u)' /\ BlockInv(u)'
  <2>1. SameThread(u) /\ SameCalls(u)
    BY <1>1 DEF SameThread, SameCalls
  <2>2. QED BY <1>1, <2>1, BalanceStays
<1>3. BalanceInv'
  BY <1>1, <1>2, BalanceNext
<1>4. QED BY <1>1, <1>3, IsStutter

\* The steps that begin a sync.
LEMMA SyncMaps ==
  ASSUME IInv, BalanceInv, NEW c \in Call, NEW s \in 0..(MaxEvts - 1), Sync(c[1], c, s)
  PROVE  BalanceInv' /\ [Abstract!Next]_(Abstract!vars)
<1>1. PICK t : t = c[1]
  OBVIOUS
<1>2. CASE SyncAtOnce(t, c, s)
  BY <1>1, <1>2, AtOnceMaps
<1>3. CASE SyncTimesOut(t, c, s)
  BY <1>1, <1>3, TimesOutMaps
<1>4. CASE SyncPolls(t, c, s)
  BY <1>1, <1>4, PollsMaps
<1>5. CASE SyncSleeps(t, c, s)
  BY <1>1, <1>5, SleepsMaps
<1>6. QED BY <1>1, <1>2, <1>3, <1>4, <1>5 DEF Sync

\* The steps inside a sync.
LEMMA ResumeMaps ==
  ASSUME IInv, BalanceInv, NEW c \in Call, Resume(c[1], c)
  PROVE  BalanceInv' /\ [Abstract!Next]_(Abstract!vars)
<1>1. PICK t : t = c[1]
  OBVIOUS
<1>2. CASE ReturnChosen(t, c)
  BY <1>1, <1>2, ReturnChosenMaps
<1>3. CASE DieChosen(t, c)
  BY <1>1, <1>3, DieChosenMaps
<1>4. CASE LeaveLines(t, c)
  BY <1>1, <1>4, LeaveMaps
<1>5. CASE BreakAfterBlock(t, c)
  BY <1>1, <1>5, BreakAfterBlockMaps
<1>6. CASE MeetAfterBlock(t, c)
  BY <1>1, <1>6, MeetAfterBlockMaps
<1>7. CASE TakeAfterBlock(t, c)
  BY <1>1, <1>7, TakeAfterBlockMaps
<1>8. CASE SleepAgain(t, c)
  BY <1>1, <1>8, SleepAgainMaps
<1>9. CASE PollBreak(t, c)
  BY <1>1, <1>9, PollBreakMaps
<1>10. CASE PollReturns(t, c)
  BY <1>1, <1>10, PollReturnsMaps
<1>11. CASE PollTakes(t, c)
  BY <1>1, <1>11, PollTakesMaps
<1>12. CASE PollTimesOut(t, c)
  BY <1>1, <1>12, PollTimesOutMaps
<1>13. CASE PollSleeps(t, c)
  BY <1>1, <1>13, PollSleepsMaps
<1>14. QED
  BY <1>1, <1>2, <1>3, <1>4, <1>5, <1>6, <1>7, <1>8, <1>9, <1>10, <1>11, <1>12, <1>13 DEF Resume

\* Every step is one of AbstractSwap, or changes nothing that it sees.
LEMMA StepMaps ==
  ASSUME IInv, BalanceInv, [Next]_vars
  PROVE  BalanceInv' /\ [Abstract!Next]_(Abstract!vars)
<1>1. CASE Next
  <2>1. CASE \E c \in Call : \E s \in 0..(MaxEvts - 1) : Sync(c[1], c, s)
    BY <2>1, SyncMaps
  <2>2. CASE \E c \in Call : Resume(c[1], c)
    BY <2>2, ResumeMaps
  <2>3. CASE \E t \in Thread : \E s \in Sema : Post(t, s)
    BY <2>3, PostMaps
  <2>4. CASE \E t \in Thread : \E p \in Thread : Signals(t, p)
    <3>1. PICK t \in Thread, p \in Thread : Signals(t, p)
      BY <2>4
    <3>2. CASE BreakThread(t, p)
      BY <3>2, BreakThreadMaps
    <3>3. CASE ThreadSuspend(t, p) \/ ThreadResume(t, p)
      BY <3>3, SuspendMaps
    <3>4. CASE KillThread(t, p)
      BY <3>4, KillMaps
    <3>5. QED BY <3>1, <3>2, <3>3, <3>4 DEF Signals
  <2>5. CASE \E t \in Thread : RaiseBreak(t) \/ ReapKilled(t)
    BY <2>5, RaiseBreakMaps, ReapMaps
  <2>6. QED BY <1>1, <2>1, <2>2, <2>3, <2>4, <2>5 DEF Next
<1>2. CASE UNCHANGED vars
  BY <1>2, StutterMaps
<1>3. QED BY <1>1, <1>2

\* Synchronous channels keep what AbstractSwap promises, for every program whose
\* polled syncs keep to themselves, and of whose syncs that enable breaks only the
\* last one of a thread can come to nothing: a put and a get are chosen in one step,
\* what was chosen stays, a sync that is over is not chosen for, and
\* sync/enable-break raises a break or chooses an event, not both (do_sync,
\* syncing_ready, scheme_post_syncing_nacks).
THEOREM SwapRefined ==
  ASSUME \A prog \in Programs : Apart(prog) /\ Balanced(prog)
  PROVE  Spec => ImplementsAbstract
<1>1. \A prog \in Programs : Apart(prog)
  OBVIOUS
<1>2. Init => IInv /\ BalanceInv /\ Abstract!Init
  BY <1>1, InvInit, BalanceInit, InitMaps
<1>3. IInv /\ BalanceInv /\ [Next]_vars => IInv' /\ BalanceInv' /\ [Abstract!Next]_(Abstract!vars)
  BY <1>1, InvNext, StepMaps
<1>4. QED BY <1>2, <1>3, PTL DEF Spec, ImplementsAbstract, Abstract!Spec
============================================================================
