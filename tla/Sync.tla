-------------------------------- MODULE Sync --------------------------------
(***************************************************************************)
(* Synchronous channels and sync on several events: do_sync and            *)
(* syncing_ready (thread.c), scheme_wait_semas_chs with a Syncing and      *)
(* try_channel (sema.c).                                                   *)
(*                                                                         *)
(* A thread that has found no event ready waits in one of two ways.  If    *)
(* there is no timeout and there are only semaphores and channels, it      *)
(* suspends itself in all their lines ("wait").  Otherwise its syncers stay *)
(* in the lines of the channels, and the scheduler polls it ("poll").      *)
(* Whoever finds one of its syncers chooses that event for it and posts    *)
(* the nacks of the others.                                                *)
(*                                                                         *)
(* As in Semaphore, an action is what one thread does between two swaps.   *)
(* The threads are other than the main one.  Waits for semaphores alone    *)
(* have no Syncing at first: Semaphore models them.                        *)
(***************************************************************************)
EXTENDS Integers, Sequences, FiniteSets, SequencesExt, ThreadFlags

CONSTANTS
  Thread,
  Chan,          \* channels
  Sema,          \* semaphores
  Null,
  Programs,      \* what the threads may do: one [syncs, signals] for each, the
                 \* syncs it calls, in order, and the signals others send to it.
                 \* A sync is [evts: a sequence of Evt, timed, nacks, enable]:
                 \* it has a timeout; its events come from nack-guard-evts; it
                 \* is a .../enable-break
  MaxCalls,      \* no program has more syncs
  MaxEvts,       \* no sync has more events
  MaxCount,      \* the maximum post count
  BreakEnabled   \* threads that run with breaks enabled

\* An event of a channel or a semaphore, which names the line for it too; a
\* semaphore-peek waits in the line of its semaphore.
Line == [kind : {"get", "put"}, on : Chan] \cup [kind : {"sema"}, on : Sema]
Evt == Line \cup [kind : {"peek"}, on : Sema]

\* The k-th sync of thread t is <<t, k>>; the Scheme_Channel_Syncer for its
\* i-th event is <<t, k, i>>.
Call == Thread \X (1..MaxCalls)
Syncer == Thread \X (1..MaxCalls) \X (1..MaxEvts)

SyncType == [evts : Seq(Evt), timed : BOOLEAN, nacks : BOOLEAN, enable : BOOLEAN]
Program == [syncs : Seq(SyncType), signals : SUBSET {"break", "suspend", "kill"}]

ASSUME ConstantsAssumption ==
  /\ IsFiniteSet(Thread) /\ Null \notin Thread \cup Call \cup Syncer
  /\ MaxCalls \in Nat /\ MaxEvts \in Nat \ {0} /\ MaxCount \in Nat
  /\ Programs \subseteq [Thread -> Program]
  /\ \A prog \in Programs : \A t \in Thread :
       /\ Len(prog[t].syncs) <= MaxCalls
       /\ \A k \in 1..Len(prog[t].syncs) : LET evts == prog[t].syncs[k].evts IN
            /\ Len(evts) \in 1..MaxEvts
            /\ \E i \in 1..Len(evts) : evts[i].kind # "sema"

VARIABLES
  program,         \* a member of Programs, chosen once and for all
  call,            \* [Thread -> 0..MaxCalls]: the thread's last or current sync
  pc,              \* [Thread -> {"run", "wait", "poll", "block"}]
  start,           \* [Thread -> 0..MaxEvts-1]: start_pos of that sync
  running,         \* [Thread -> SUBSET Flag]
  external_break,  \* [Thread -> BOOLEAN]
  suspend_break,   \* [Thread -> Int]
  value,           \* [Sema -> 0..MaxCount]
  links,           \* the lines, doubly linked: see Empty
  result,          \* [Call -> 0..MaxEvts]: the event that was chosen
  got,             \* [Call -> Call \cup {Null}]: the put whose value a get received
  nack,            \* [Syncer -> {"none", "made", "posted", "kept"}]
  outcome          \* [Call -> {"none", "going", "evt", "false", "break", "killed"}]

vars == <<program, call, pc, start, running, external_break, suspend_break,
          value, links, result, got, nack, outcome>>

-----------------------------------------------------------------------------
CallOf(w) == <<w[1], w[2]>>
SyncOf(c) == program[c[1]].syncs[c[2]]
EvtOf(w) == SyncOf(CallOf(w)).evts[w[3]]
Current(t) == <<t, call[t]>>

LineOf(w) == IF EvtOf(w).kind = "peek" THEN [EvtOf(w) EXCEPT !.kind = "sema"] ELSE EvtOf(w)
OnSema(w) == EvtOf(w).kind \in {"sema", "peek"}
Posted(w) == OnSema(w) /\ value[EvtOf(w).on] > 0

\* The syncers of a sync, first to last, and in the order of its polls.
Syncers(c) == [i \in 1..Len(SyncOf(c).evts) |-> <<c[1], c[2], i>>]

\* Mutant: the polls stop short of the last event.
RotatedShort(c, s) == LET n == Len(SyncOf(c).evts) IN
  [j \in 1..(n - 1) |-> <<c[1], c[2], ((s + j - 1) % n) + 1>>]

Rotated(c, s) == LET n == Len(SyncOf(c).evts) IN
  [j \in 1..n |-> <<c[1], c[2], ((s + j - 1) % n) + 1>>]

\* scheme_can_break: inside a sync/enable-break, breaks are enabled.
CanBreak(t) ==
  /\ suspend_break[t] = 0
  /\ t \in BreakEnabled \/ (pc[t] # "run" /\ SyncOf(Current(t)).enable)

BreakDue(t) == external_break[t] /\ CanBreak(t)

pending_break(t) ==
  \/ "KILLED" \in running[t]
  \/ "USER_SUSPENDED" \in running[t]
  \/ BreakDue(t)

Runs(t) == pc[t] = "run" /\ running[t] = {"RUNNING"} /\ ~BreakDue(t)

-----------------------------------------------------------------------------
\* The lines.

Empty ==
  [first |-> [e \in Line |-> Null], last |-> [e \in Line |-> Null],
   prev |-> [w \in Syncer |-> Null], next |-> [w \in Syncer |-> Null],
   in_line |-> {}]

get_into_line(L, w) ==
  LET e == LineOf(w)
      l == L.last[e]
  IN  [first |-> IF l = Null THEN [L.first EXCEPT ![e] = w] ELSE L.first,
       last |-> [L.last EXCEPT ![e] = w],
       prev |-> [L.prev EXCEPT ![w] = l],
       next |-> IF l = Null THEN [L.next EXCEPT ![w] = Null]
                            ELSE [L.next EXCEPT ![l] = w, ![w] = Null],
       in_line |-> L.in_line \cup {w}]

\* It trusts prev and next of w, which it leaves as they are.  (The loop of
\* scheme_post_sema clears them; a syncer of a semaphore is never removed
\* when it is not in line.)
get_outof_line(L, w) ==
  LET e == LineOf(w)
      p == L.prev[w]
      n == L.next[w]
  IN  [first |-> IF p = Null THEN [L.first EXCEPT ![e] = n] ELSE L.first,
       last |-> IF n = Null THEN [L.last EXCEPT ![e] = p] ELSE L.last,
       prev |-> IF n = Null THEN L.prev ELSE [L.prev EXCEPT ![n] = p],
       next |-> IF p = Null THEN L.next ELSE [L.next EXCEPT ![p] = n],
       in_line |-> L.in_line \ {w}]

\* Those of ws that are in S get out of line, first to last.
OutOfLines(L, ws, S) ==
  LET out[k \in 0..Len(ws)] ==
        IF k = 0 THEN L
        ELSE IF ws[k] \in S THEN get_outof_line(out[k - 1], ws[k]) ELSE out[k - 1]
  IN  out[Len(ws)]

\* Mutant: syncers that others have removed are removed again.
LeaveAll(L, c) == OutOfLines(L, Syncers(c), Syncer)

\* "Get out of all lines that we're still in", and back into the others.
Leave(L, c) == OutOfLines(L, Syncers(c), L.in_line)
Join(L, c) ==
  LET ws == Syncers(c)
      in[k \in 0..Len(ws)] ==
        IF k = 0 THEN L
        ELSE IF ws[k] \in L.in_line THEN in[k - 1] ELSE get_into_line(in[k - 1], ws[k])
  IN  in[Len(ws)]

\* What a loop from the first syncer on meets.
Walk(L, e) ==
  LET at[k \in 0..Cardinality(Syncer)] ==
        IF k = 0 THEN L.first[e]
        ELSE LET w == at[k - 1] IN IF w = Null THEN Null ELSE L.next[w]
      length == Cardinality({k \in 1..Cardinality(Syncer) : at[k - 1] # Null})
  IN  [k \in 1..length |-> at[k - 1]]

\* Mutant: a Syncing can be chosen for twice.
CanTakeTwice(w) == ~pending_break(w[1])

CanTake(w) == result[CallOf(w)] = 0 /\ ~pending_break(w[1])

\* try_channel from sync c, for a partner in line e: syncers leave the line,
\* first to last, until one can take it.  Those of c itself are passed by.
Try(L, e, c) ==
  LET walk == Walk(L, e)
      found == {k \in 1..Len(walk) : CallOf(walk[k]) # c /\ CanTake(walk[k])}
      k == Min(found \cup {Len(walk) + 1})
  IN  [links |-> OutOfLines(L, SubSeq(walk, 1, k - 1), {w \in Syncer : CallOf(w) # c}),
       taker |-> IF found = {} THEN Null ELSE walk[k]]

Opposite(e) == [e EXCEPT !.kind = IF @ = "get" THEN "put" ELSE "get"]

\* The syncers that scheme_post_syncing_nacks removes, in line or not: those
\* of channels, as long as the set of events holds them in place of the
\* channels, which is while the scheduler polls.  A received value takes the
\* place of its syncer.
PollSyncers(c, r) ==
  IF pc[c[1]] = "poll" /\ call[c[1]] = c[2]
    THEN {w \in ToSet(Syncers(c)) :
            EvtOf(w).kind = "put" \/ (EvtOf(w).kind = "get" /\ w[3] # r)}
    ELSE {}

OutByNacks(L, c, r) == OutOfLines(L, Syncers(c), PollSyncers(c, r))

\* The syncer w has been chosen by another thread.
TakenOut(L, w) == get_outof_line(OutByNacks(L, CallOf(w), w[3]), w)

-----------------------------------------------------------------------------
\* A poll of all events of c from position s on, up to the first that is
\* ready.  In the first one a thread gets in line for each channel that is not.
Polled(a, w, joins) ==
  IF OnSema(w)
    THEN [a EXCEPT !.ready = IF Posted(w) THEN w ELSE Null,
                   !.seen = @ \cup {w}]
    ELSE LET try == Try(a.links, Opposite(EvtOf(w)), CallOf(w)) IN
         IF try.taker = Null
           THEN [a EXCEPT !.links = IF joins THEN get_into_line(try.links, w) ELSE try.links,
                          !.seen = @ \cup {w}]
           ELSE [links |-> TakenOut(try.links, try.taker), ready |-> w,
                 taker |-> try.taker, seen |-> a.seen \cup {w}]

Poll(c, s, joins) ==
  LET order == Rotated(c, s)
      poll[k \in 0..Len(order)] ==
        IF k = 0 THEN [links |-> links, ready |-> Null, taker |-> Null, seen |-> {}]
        ELSE LET a == poll[k - 1] IN
             IF a.ready # Null THEN a ELSE Polled(a, order[k], joins)
  IN  poll[Len(order)]

\* Mutant: the nack of the chosen event is posted too.
AllNacksPosted(N, C, chosen) ==
  [w \in Syncer |-> IF N[w] = "made" /\ CallOf(w) \in C THEN "posted" ELSE N[w]]

\* scheme_post_syncing_nacks for the syncs in C.
NacksPosted(N, C, chosen) ==
  [w \in Syncer |->
     IF N[w] = "made" /\ CallOf(w) \in C
       THEN IF w \in chosen THEN "kept" ELSE "posted"
       ELSE N[w]]

\* The nack semaphores that the events of c, once looked at, have made.
NacksMade(c, seen) ==
  [w \in Syncer |-> IF SyncOf(c).nacks /\ w \in seen THEN "made" ELSE nack[w]]

\* Mutant: only the thread that finds the partner suspends breaks.
BreaksOwn(chosen, c) ==
  [t \in Thread |-> suspend_break[t]
     + (IF t = c[1] /\ \E w \in chosen : w[1] = t /\ SyncOf(CallOf(w)).enable THEN 1 ELSE 0)
     - (IF t = c[1] /\ SyncOf(c).enable THEN 1 ELSE 0)]

\* Mutant: it stays.
BreaksKept(chosen, c) ==
  [t \in Thread |-> suspend_break[t]
     + (IF \E w \in chosen : w[1] = t /\ SyncOf(CallOf(w)).enable THEN 1 ELSE 0)]

\* A choice suspends breaks, and sync c, which returns, reverses it.
Breaks(chosen, c) ==
  [t \in Thread |-> suspend_break[t]
     + (IF \E w \in chosen : w[1] = t /\ SyncOf(CallOf(w)).enable THEN 1 ELSE 0)
     - (IF t = c[1] /\ SyncOf(c).enable THEN 1 ELSE 0)]

\* Mutant: only a thread that looks receives the value.
ReceivedByLooker(chosen, c) ==
  [d \in Call |->
     IF d = c /\ \E w \in chosen : CallOf(w) = d /\ EvtOf(w).kind = "get"
       THEN CallOf(CHOOSE w \in chosen : CallOf(w) # d) ELSE got[d]]

\* A get that is chosen, by sync c, has the value of the put.
Received(chosen, c) ==
  [d \in Call |->
     IF \E w \in chosen : CallOf(w) = d /\ EvtOf(w).kind = "get"
       THEN CallOf(CHOOSE w \in chosen : CallOf(w) # d) ELSE got[d]]

\* Mutant: the partner is not woken.
WokenNot(chosen, c) == running

\* The threads that are chosen for are woken, other than that of c.
Woken(chosen, c) ==
  [t \in Thread |->
     IF t # c[1] /\ \E w \in chosen : w[1] = t THEN WeakResume(running[t]) ELSE running[t]]

\* The events of `chosen', one or a put and a get, are chosen, while c returns.
Choose(chosen, N, c) ==
  /\ result' = [d \in Call |->
       IF \E w \in chosen : CallOf(w) = d
         THEN (CHOOSE w \in chosen : CallOf(w) = d)[3] ELSE result[d]]
  /\ got' = Received(chosen, c)
  /\ nack' = NacksPosted(N, {CallOf(w) : w \in chosen}, chosen)
  /\ suspend_break' = Breaks(chosen, c)
  /\ running' = Woken(chosen, c)

\* The post that w takes, if it is the syncer of a semaphore.  A peek takes it
\* and posts again, when nobody is in line: see NobodyMissed.
PostTaken(w) ==
  IF EvtOf(w).kind = "sema" THEN [value EXCEPT ![EvtOf(w).on] = @ - 1] ELSE value

Return(c, how) ==
  /\ pc' = [pc EXCEPT ![c[1]] = "run"]
  /\ outcome' = [outcome EXCEPT ![c] = how]

NothingChosen == UNCHANGED <<result, got>>

-----------------------------------------------------------------------------
\* do_sync, up to its first swap.  A break that is already there is raised
\* when breaks get enabled: see RaiseBreak.
Calls(t, c, s) ==
  /\ Runs(t)
  /\ c = <<t, call[t] + 1>> /\ c[2] <= Len(program[t].syncs)
  /\ s < Len(SyncOf(c).evts)
  /\ SyncOf(c).enable => ~(external_break[t] /\ suspend_break[t] = 0)
  /\ call' = [call EXCEPT ![t] = c[2]]
  /\ start' = [start EXCEPT ![t] = s]
  /\ UNCHANGED <<program, external_break>>

\* An event is ready.
SyncAtOnce(t, c, s) ==
  LET poll == Poll(c, s, TRUE) IN
  /\ Calls(t, c, s)
  /\ poll.ready # Null
  /\ links' = Leave(poll.links, c)
  /\ value' = PostTaken(poll.ready)
  /\ Choose({poll.ready, poll.taker} \ {Null}, NacksMade(c, poll.seen), c)
  /\ Return(c, "evt")

\* None is, and the timeout is 0.
SyncTimesOut(t, c, s) ==
  LET poll == Poll(c, s, TRUE) IN
  /\ Calls(t, c, s)
  /\ poll.ready = Null /\ SyncOf(c).timed
  /\ links' = Leave(poll.links, c)
  /\ nack' = NacksPosted(NacksMade(c, poll.seen), {c}, {})
  /\ suspend_break' = Breaks({}, c)
  /\ Return(c, "false")
  /\ NothingChosen /\ UNCHANGED <<running, value>>

\* The scheduler is to poll: there is a timeout, or there were guards or peeks
\* among the events, which have become others by now.
Defers(sync) ==
  \/ sync.timed \/ sync.nacks
  \/ \E i \in 1..Len(sync.evts) : sync.evts[i].kind = "peek"

Deferred(c) == Defers(SyncOf(c))

SyncPolls(t, c, s) ==
  LET poll == Poll(c, s, TRUE) IN
  /\ Calls(t, c, s)
  /\ poll.ready = Null /\ Deferred(c)
  /\ links' = poll.links
  /\ nack' = NacksMade(c, poll.seen)
  /\ pc' = [pc EXCEPT ![t] = "poll"]
  /\ outcome' = [outcome EXCEPT ![c] = "going"]
  /\ NothingChosen /\ UNCHANGED <<suspend_break, running, value>>

\* scheme_wait_semas_chs gets into the lines that the thread is not in and
\* suspends it.
Sleep(t) ==
  /\ pc' = [pc EXCEPT ![t] = "wait"]
  /\ running' = [running EXCEPT ![t] = @ \cup {"NEED_KILL_CLEANUP", "SUSPENDED"}]

SyncSleeps(t, c, s) ==
  LET poll == Poll(c, s, TRUE) IN
  /\ Calls(t, c, s)
  /\ poll.ready = Null /\ ~Deferred(c)
  /\ links' = Join(poll.links, c)
  /\ Sleep(t)
  /\ outcome' = [outcome EXCEPT ![c] = "going"]
  /\ NothingChosen /\ UNCHANGED <<suspend_break, nack, value>>

-----------------------------------------------------------------------------
\* The thread is asleep in its lines, and has been woken.

\* A break escapes from the sync, and so do the nacks.
RaiseInSync(t, c) ==
  /\ external_break' = [external_break EXCEPT ![t] = FALSE]
  /\ nack' = NacksPosted(nack, {c}, {})
  /\ Return(c, "break")

\* The thread goes on with its sync.
In(t, c, how) ==
  /\ pc[t] = how /\ c = Current(t)
  /\ UNCHANGED <<program, call, start>>

Awake(t, c) == In(t, c, "wait") /\ Queued(running[t])

\* It was chosen for.  (A thread that is suspended after it was chosen for
\* does not get here before it is resumed.)
ReturnChosen(t, c) ==
  /\ Awake(t, c) /\ result[c] # 0 /\ "KILLED" \notin running[t]
  /\ links' = Leave(links, c)
  /\ running' = [running EXCEPT ![t] = @ \ {"NEED_KILL_CLEANUP"}]
  /\ IF BreakDue(t)
       THEN RaiseInSync(t, c) /\ UNCHANGED suspend_break
       ELSE /\ Return(c, "evt") /\ suspend_break' = Breaks({}, c)
            /\ UNCHANGED <<external_break, nack>>
  /\ NothingChosen /\ UNCHANGED <<value>>

\* It was chosen for, then killed.
DieChosen(t, c) ==
  /\ Awake(t, c) /\ result[c] # 0 /\ "KILLED" \in running[t]
  /\ links' = Leave(links, c)
  /\ running' = [running EXCEPT ![t] = {}]
  /\ Return(c, "killed")
  /\ NothingChosen /\ UNCHANGED <<external_break, suspend_break, nack, value>>

\* scheme_thread_block with thread flags `word', up to its swap.
ThreadBlock(t, c, word) ==
  \/ /\ "KILLED" \in word
     /\ running' = [running EXCEPT ![t] = {}]
     /\ Return(c, "killed")
     /\ UNCHANGED <<external_break, nack>>
  \/ /\ "KILLED" \notin word /\ "USER_SUSPENDED" \notin word /\ BreakDue(t)
     /\ running' = [running EXCEPT ![t] = word]
     /\ RaiseInSync(t, c)
  \/ /\ "KILLED" \notin word /\ ("USER_SUSPENDED" \in word \/ ~BreakDue(t))
     /\ running' = [running EXCEPT ![t] =
          IF "USER_SUSPENDED" \in word THEN WeakSuspend(word) ELSE word]
     /\ pc' = [pc EXCEPT ![t] = "block"]
     /\ UNCHANGED <<external_break, nack, outcome>>

\* A signal woke it: it leaves the lines and blocks once.
LeaveLines(t, c) ==
  /\ Awake(t, c) /\ result[c] = 0
  /\ links' = Leave(links, c)
  /\ ThreadBlock(t, c, running[t] \ {"NEED_KILL_CLEANUP"})
  /\ NothingChosen /\ UNCHANGED <<suspend_break, value>>

Blocked(t, c) == In(t, c, "block") /\ running[t] = {"RUNNING"}

BreakAfterBlock(t, c) ==
  /\ Blocked(t, c) /\ BreakDue(t)
  /\ RaiseInSync(t, c)
  /\ NothingChosen /\ UNCHANGED <<running, suspend_break, links, value>>

\* It polls again.  A partner is found:
MeetAfterBlock(t, c) ==
  LET poll == Poll(c, start[t], FALSE) IN
  /\ Blocked(t, c) /\ ~BreakDue(t)
  /\ poll.ready # Null /\ poll.taker # Null
  /\ links' = poll.links
  /\ Choose({poll.ready, poll.taker}, nack, c)
  /\ Return(c, "evt")
  /\ UNCHANGED <<external_break, value>>

\* A semaphore has a post: it is taken, but no result is set, and so do_sync
\* posts all nacks and returns #f.
TakeAfterBlock(t, c) ==
  LET poll == Poll(c, start[t], FALSE) IN
  /\ Blocked(t, c) /\ ~BreakDue(t)
  /\ poll.ready # Null /\ poll.taker = Null
  /\ links' = poll.links
  /\ value' = PostTaken(poll.ready)
  /\ nack' = NacksPosted(nack, {c}, {})
  /\ suspend_break' = Breaks({}, c)
  /\ Return(c, "false")
  /\ NothingChosen /\ UNCHANGED <<running, external_break>>

\* There is nothing.
SleepAgain(t, c) ==
  LET poll == Poll(c, start[t], FALSE) IN
  /\ Blocked(t, c) /\ ~BreakDue(t)
  /\ poll.ready = Null
  /\ links' = Join(poll.links, c)
  /\ Sleep(t)
  /\ NothingChosen /\ UNCHANGED <<external_break, suspend_break, nack, outcome, value>>

-----------------------------------------------------------------------------
\* The scheduler polls the thread.  Its syncers stand for its channels, so the
\* channels are not tried again.
Looks(t, c) == In(t, c, "poll") /\ running[t] = {"RUNNING"}

Unready(t, c) ==
  /\ Looks(t, c) /\ ~BreakDue(t) /\ result[c] = 0
  /\ \A i \in 1..Len(SyncOf(c).evts) : LET e == SyncOf(c).evts[i] IN
       e.kind \in {"sema", "peek"} => value[e.on] = 0

PollBreak(t, c) ==
  /\ Looks(t, c) /\ BreakDue(t)
  /\ links' = OutByNacks(links, c, result[c])
  /\ RaiseInSync(t, c)
  /\ NothingChosen /\ UNCHANGED <<running, suspend_break, value>>

PollReturns(t, c) ==
  /\ Looks(t, c) /\ ~BreakDue(t) /\ result[c] # 0
  /\ suspend_break' = Breaks({}, c)
  /\ Return(c, "evt")
  /\ NothingChosen /\ UNCHANGED <<running, external_break, links, nack, value>>

PollTakes(t, c) ==
  LET order == Rotated(c, start[t])
      posted == {k \in 1..Len(order) : Posted(order[k])}
      ready == order[Min(posted)]
  IN
  /\ Looks(t, c) /\ ~BreakDue(t) /\ result[c] = 0
  /\ posted # {}
  /\ links' = OutByNacks(links, c, 0)
  /\ value' = PostTaken(ready)
  /\ Choose({ready}, nack, c)
  /\ Return(c, "evt")
  /\ UNCHANGED <<external_break>>

PollTimesOut(t, c) ==
  /\ Unready(t, c) /\ SyncOf(c).timed
  /\ links' = OutByNacks(links, c, 0)
  /\ nack' = NacksPosted(nack, {c}, {})
  /\ suspend_break' = Breaks({}, c)
  /\ Return(c, "false")
  /\ NothingChosen /\ UNCHANGED <<running, external_break, value>>

\* The guards are gone: there are only semaphores and channels left.
PollSleeps(t, c) ==
  /\ Unready(t, c) /\ ~SyncOf(c).timed
  /\ links' = Join(links, c)
  /\ Sleep(t)
  /\ NothingChosen /\ UNCHANGED <<external_break, suspend_break, nack, outcome, value>>

-----------------------------------------------------------------------------
\* What threads that run their program do to the others.

NoSyncGoesOn == NothingChosen /\ UNCHANGED <<program, call, pc, start>>

\* Mutant: a peek uses the post up.
ServedPeek(a, w) ==
  IF a.left = 0 THEN a
  ELSE IF CanTake(w) /\ \A x \in a.takers : CallOf(x) # CallOf(w)
    THEN [links |-> TakenOut(a.links, w), takers |-> a.takers \cup {w}, left |-> 0]
    ELSE [a EXCEPT !.links = get_outof_line(@, w)]

\* One syncer w in the loop of scheme_post_sema: peeks are told of the post, and
\* the first that waits for it gets it.
Served(a, w) ==
  IF a.left = 0 THEN a
  ELSE IF CanTake(w) /\ \A x \in a.takers : CallOf(x) # CallOf(w)
    THEN [links |-> TakenOut(a.links, w), takers |-> a.takers \cup {w},
          left |-> IF EvtOf(w).kind = "sema" THEN 0 ELSE 1]
    ELSE [a EXCEPT !.links = get_outof_line(@, w)]

Serve(s) ==
  LET line == Walk(links, [kind |-> "sema", on |-> s])
      serve[k \in 0..Len(line)] ==
        IF k = 0 THEN [links |-> links, takers |-> {}, left |-> 1]
        ELSE Served(serve[k - 1], line[k])
  IN  serve[Len(line)]

\* semaphore-post
Post(t, s) ==
  LET served == Serve(s) IN
  /\ Runs(t) /\ value[s] < MaxCount
  /\ links' = served.links
  /\ value' = [value EXCEPT ![s] = @ + served.left]
  /\ Choose(served.takers, nack, <<Null, 0>>)
  /\ UNCHANGED <<program, call, pc, start, external_break, outcome>>

RaiseBreak(t) ==
  /\ pc[t] = "run" /\ running[t] = {"RUNNING"}
  /\ external_break[t] /\ suspend_break[t] = 0
  /\ external_break' = [external_break EXCEPT ![t] = FALSE]
  /\ NoSyncGoesOn
  /\ UNCHANGED <<running, suspend_break, value, links, nack, outcome>>

\* A thread that runs sends p a signal that others send to it.
Sends(t, p, signal) == Runs(t) /\ t # p /\ signal \in program[p].signals

\* break-thread
BreakThread(t, p) ==
  /\ Sends(t, p, "break")
  /\ running[p] # {} /\ ~external_break[p]
  /\ external_break' = [external_break EXCEPT ![p] = TRUE]
  /\ running' = [running EXCEPT ![p] = WeakResume(@)]
  /\ NoSyncGoesOn /\ UNCHANGED <<suspend_break, value, links, nack, outcome>>

\* thread-suspend
ThreadSuspend(t, p) ==
  /\ Sends(t, p, "suspend")
  /\ StillRunning(running[p]) /\ "USER_SUSPENDED" \notin running[p]
  /\ running' = [running EXCEPT ![p] = UserSuspend(@)]
  /\ NoSyncGoesOn
  /\ UNCHANGED <<external_break, suspend_break, value, links, nack, outcome>>

\* thread-resume
ThreadResume(t, p) ==
  /\ Sends(t, p, "suspend")
  /\ StillRunning(running[p]) /\ "USER_SUSPENDED" \in running[p]
  /\ running' = [running EXCEPT ![p] = UserResume(@)]
  /\ NoSyncGoesOn
  /\ UNCHANGED <<external_break, suspend_break, value, links, nack, outcome>>

\* kill-thread.  The kill action that do_sync installs posts the nacks of
\* the thread's sync at once.
KillThread(t, p) ==
  LET c == Current(p) IN
  /\ Sends(t, p, "kill")
  /\ StillRunning(running[p])
  /\ running' = [running EXCEPT ![p] = Kill(@)]
  /\ IF pc[p] = "run" THEN UNCHANGED <<links, nack, outcome>>
     ELSE /\ links' = OutByNacks(links, c, result[c])
          /\ nack' = NacksPosted(nack, {c}, {})
          /\ outcome' = [outcome EXCEPT ![c] =
               IF "NEED_KILL_CLEANUP" \in running[p] THEN @ ELSE "killed"]
  /\ NoSyncGoesOn /\ UNCHANGED <<external_break, suspend_break, value>>

\* The scheduler removes a killed thread that a break has made it find.
ReapKilled(p) ==
  /\ "KILLED" \in running[p] /\ "NEED_KILL_CLEANUP" \notin running[p]
  /\ Queued(running[p])
  /\ running' = [running EXCEPT ![p] = {}]
  /\ NoSyncGoesOn
  /\ UNCHANGED <<external_break, suspend_break, value, links, nack, outcome>>

-----------------------------------------------------------------------------
Init ==
  /\ program \in Programs
  /\ call = [t \in Thread |-> 0]
  /\ pc = [t \in Thread |-> "run"]
  /\ start = [t \in Thread |-> 0]
  /\ running = [t \in Thread |-> {"RUNNING"}]
  /\ external_break = [t \in Thread |-> FALSE]
  /\ suspend_break = [t \in Thread |-> 0]
  /\ value = [s \in Sema |-> 0]
  /\ links = Empty
  /\ result = [c \in Call |-> 0]
  /\ got = [c \in Call |-> Null]
  /\ nack = [w \in Syncer |-> "none"]
  /\ outcome = [c \in Call |-> "none"]

Sync(t, c, s) ==
  \/ SyncAtOnce(t, c, s) \/ SyncTimesOut(t, c, s)
  \/ SyncPolls(t, c, s) \/ SyncSleeps(t, c, s)

Resume(t, c) ==
  \/ ReturnChosen(t, c) \/ DieChosen(t, c) \/ LeaveLines(t, c)
  \/ BreakAfterBlock(t, c) \/ MeetAfterBlock(t, c) \/ TakeAfterBlock(t, c)
  \/ SleepAgain(t, c)
  \/ PollBreak(t, c) \/ PollReturns(t, c) \/ PollTakes(t, c)
  \/ PollTimesOut(t, c) \/ PollSleeps(t, c)

Signals(t, p) ==
  \/ BreakThread(t, p) \/ ThreadSuspend(t, p) \/ ThreadResume(t, p)
  \/ KillThread(t, p)

Next ==
  \/ \E c \in Call :
       \/ \E s \in 0..(MaxEvts - 1) : Sync(c[1], c, s)
       \/ Resume(c[1], c)
  \/ \E t \in Thread :
       \/ \E s \in Sema : Post(t, s)
       \/ \E p \in Thread : Signals(t, p)
       \/ RaiseBreak(t) \/ ReapKilled(t)

Spec == Init /\ [][Next]_vars

\* Assumed: a thread that was chosen for and is linked is reached by the
\* scheduler, which goes round (select_thread does not in all programs).
Ends(t) ==
  \E k \in 1..MaxCalls : ReturnChosen(t, <<t, k>>) \/ PollReturns(t, <<t, k>>)
                          \/ PollBreak(t, <<t, k>>)

FairSpec == Spec /\ \A t \in Thread : WF_vars(Ends(t))

-----------------------------------------------------------------------------
\* Types.  The links are records of the right shape; what they say is in
\* LineInv.  A thread's suspend_break goes no higher than one choice.
TypeOK ==
  /\ program \in Programs
  /\ call \in [Thread -> 0..MaxCalls]
  /\ pc \in [Thread -> {"run", "wait", "poll", "block"}]
  /\ start \in [Thread -> 0..(MaxEvts - 1)]
  /\ running \in [Thread -> SUBSET Flag]
  /\ external_break \in [Thread -> BOOLEAN]
  /\ suspend_break \in [Thread -> (-MaxCalls)..1]
  /\ value \in [Sema -> 0..MaxCount]
  /\ links \in [first : [Line -> Syncer \cup {Null}], last : [Line -> Syncer \cup {Null}],
                prev : [Syncer -> Syncer \cup {Null}], next : [Syncer -> Syncer \cup {Null}],
                in_line : SUBSET Syncer]
  /\ result \in [Call -> 0..MaxEvts]
  /\ got \in [Call -> Call \cup {Null}]
  /\ nack \in [Syncer -> {"none", "made", "posted", "kept"}]
  /\ outcome \in [Call -> {"none", "going", "evt", "false", "break", "killed"}]

-----------------------------------------------------------------------------
\* Every line is a list that can be walked both ways, of exactly the syncers
\* that have in_line set; and these are of threads that wait in that sync.
\* (What getting in and out of several lines, the removals by others and
\* the removals by nacks have to agree on.)
LineInv ==
  /\ \A e \in Line : LET s == Walk(links, e) IN
       /\ {s[k] : k \in 1..Len(s)} = {w \in links.in_line : LineOf(w) = e}
       /\ Len(s) = Cardinality({s[k] : k \in 1..Len(s)})
       /\ links.last[e] = IF s = <<>> THEN Null ELSE s[Len(s)]
       /\ \A k \in 1..Len(s) : links.prev[s[k]] = IF k = 1 THEN Null ELSE s[k-1]
  /\ \A w \in links.in_line :
       CallOf(w) = Current(w[1]) /\ pc[w[1]] \in {"wait", "poll"} /\ running[w[1]] # {}

\* The event that was chosen for a sync.
ChosenEvt(c) == SyncOf(c).evts[result[c]]

\* When a sync is over, by a choice, a timeout, a break or a kill, the nacks of
\* all events but the one that was chosen have been posted, and that one's is
\* not.  While it goes on without a choice none is, unless the thread is killed.
NacksRight ==
  \A w \in Syncer : nack[w] # "none" =>
    LET c == CallOf(w) IN
    /\ outcome[c] # "going" \/ result[c] # 0 =>
         nack[w] = IF w[3] = result[c] THEN "kept" ELSE "posted"
    /\ outcome[c] = "going" /\ result[c] = 0 /\ "KILLED" \notin running[c[1]] =>
         nack[w] = "made"

\* A thread that waits in sync c and goes on only if it is chosen for, or by a
\* timeout.
Asleep(t) ==
  /\ pc[t] # "run" /\ ~pending_break(t) /\ result[Current(t)] = 0
  /\ \/ pc[t] = "wait" /\ "SUSPENDED" \in running[t]
     \/ pc[t] = "poll" /\ running[t] = {"RUNNING"}

\* Two threads that could meet do not both sleep: no getter and putter of the
\* same channel wait for each other.  Nor does anybody sleep in the line of a
\* semaphore that has a post.
NobodyMissed ==
  /\ \A t, u \in Thread : t # u /\ Asleep(t) /\ Asleep(u) =>
       LET evts == SyncOf(Current(t)).evts
           others == SyncOf(Current(u)).evts
       IN  \A i \in 1..Len(evts), j \in 1..Len(others) :
             evts[i].kind \in {"get", "put"} => others[j] # Opposite(evts[i])
  /\ \A s \in Sema : value[s] > 0 => links.first[[kind |-> "sema", on |-> s]] = Null

\* A thread that was chosen for returns from its sync, whatever signals come in
\* between, or is suspended or killed: whoever chooses wakes it, and nothing that
\* it does on its way out puts it to sleep again.
ChosenGoesOn ==
  \A t \in Thread :
    (call[t] # 0 /\ pc[t] # "run" /\ result[Current(t)] # 0)
      ~> (pc[t] = "run" \/ "USER_SUSPENDED" \in running[t] \/ ~StillRunning(running[t]))

\* The calls that the chosen program may make, as requests.
Made(c) == c[2] <= Len(program[c[1]].syncs)
StatusOf(c) ==
  CASE outcome[c] = "none" -> "new"
    [] outcome[c] = "going" -> IF result[c] = 0 THEN "asking" ELSE "chosen"
    [] outcome[c] = "evt" -> "done"
    [] outcome[c] \in {"false", "break"} -> "failed"
    [] outcome[c] = "killed" -> "killed"

Abstract == INSTANCE AbstractSwap WITH
  Request <- Call, Owner <- [c \in Call |-> c[1]],
  offers <- [c \in Call |-> IF Made(c) THEN ToSet(SyncOf(c).evts) ELSE {}],
  enable <- {c \in Call : Made(c) /\ SyncOf(c).enable},
  status <- [c \in Call |-> StatusOf(c)],
  count <- value,
  choice <- [c \in Call |-> IF result[c] = 0 THEN Null ELSE ChosenEvt(c)],
  from <- got

\* Sync implements AbstractSwap: however many lines, signals and re-polls there
\* are in between, a put and a get of two threads are chosen in one step, what
\* was chosen stays, a sync that is over is not chosen for, and
\* sync/enable-break raises a break or chooses an event, not both.
ImplementsAbstract == Abstract!Spec

-----------------------------------------------------------------------------
\* What the properties above ask of the programs.  The removal of a syncer that
\* is not in line is harmless only if nobody else stands in that line, and so,
\* for LineInv and all that rests on it: a sync that the scheduler polls has no
\* event of a channel twice, and no signal is sent to its thread, unless the
\* others leave its side of its channels alone.
Apart(prog) ==
  \A t \in Thread : \A k \in 1..Len(prog[t].syncs) : LET evts == prog[t].syncs[k].evts IN
    Defers(prog[t].syncs[k]) => \A i \in 1..Len(evts) : evts[i].kind \in {"get", "put"} =>
      /\ \A j \in 1..Len(evts) : evts[j] = evts[i] => j = i
      /\ prog[t].signals # {} =>
           \A u \in Thread \ {t} : \A l \in 1..Len(prog[u].syncs) :
             \A j \in 1..Len(prog[u].syncs[l].evts) : prog[u].syncs[l].evts[j] # evts[i]

\* For NobodyMissed, no such thread is suspended: it would be dropped from a
\* line, and not look at the channel again.
Attentive(prog) ==
  \A t \in Thread : "suspend" \in prog[t].signals =>
    \A k \in 1..Len(prog[t].syncs) : ~Defers(prog[t].syncs[k])

\* For ImplementsAbstract, of the syncs of a thread that enable breaks only the
\* last one may come to nothing, by a timeout or by taking a post after a signal:
\* it leaves suspend_break too low, and then a choice does not exclude a break.
Balanced(prog) ==
  \A t \in Thread : \A k, l \in 1..Len(prog[t].syncs) : LET sync == prog[t].syncs[k] IN
    k < l /\ sync.enable /\ prog[t].syncs[l].enable =>
      /\ ~sync.timed
      /\ prog[t].signals = {} \/
           \A i \in 1..Len(sync.evts) : sync.evts[i].kind \in {"get", "put"}

\* sync without a timeout returns only when an event was chosen.
NeverFalse ==
  \A c \in Call : outcome[c] = "false" => SyncOf(c).timed
=============================================================================
