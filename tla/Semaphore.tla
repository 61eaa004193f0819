----------------------------- MODULE Semaphore -----------------------------
(***************************************************************************)
(* Counting semaphores of the MzScheme run time (sema.c) and the threads   *)
(* that post, poll and wait on them, with the signals that reach a waiting *)
(* thread (thread.c): break-thread, kill-thread, thread-suspend and        *)
(* thread-resume.                                                          *)
(*                                                                         *)
(* MzScheme threads are green threads: C code runs without interruption    *)
(* until it reaches a point where it may swap.  An action is one such      *)
(* segment, so every action is what one thread does between two swaps.     *)
(*                                                                         *)
(* The model covers scheme_wait_semas_chs() for one semaphore (n = 1, no   *)
(* Syncing supplied): what semaphore-wait, semaphore-wait/enable-break,    *)
(* and sync on one semaphore call.                                         *)
(***************************************************************************)
EXTENDS Integers, Sequences, FiniteSets, SequencesExt, ThreadFlags

CONSTANTS
  Thread,        \* the threads, all of them already created
  Main,          \* scheme_main_thread, which is never taken off the queue
  Sema,          \* semaphores that programs post and wait on
  EvtSema,       \* semaphores behind thread events and nacks: only ever
                 \* posted for good, by scheme_post_sema_all
  MaxCount,      \* the maximum post count
  InitCount,     \* counts that make-semaphore is called with
  BreakEnabled,  \* threads that run with breaks enabled
  Signal         \* signals that threads send: see Next

ASSUME ConstantsAssumption ==
  /\ IsFiniteSet(Thread) /\ Main \in Thread
  /\ Sema \cap EvtSema = {}
  /\ MaxCount \in Nat \ {0}
  /\ InitCount \subseteq 0..MaxCount
  /\ BreakEnabled \subseteq Thread
  /\ Signal \subseteq {"break", "suspend", "kill"}

AnySema == Sema \cup EvtSema

VARIABLES
  value,           \* [AnySema -> -1..MaxCount]: the count, -1 for "posted for good"
  line,            \* [AnySema -> Seq(Thread)]: threads in line, first to last
  running,         \* [Thread -> SUBSET Flag]
  external_break,  \* [Thread -> BOOLEAN]: a break waits to be raised
  main_was_once_suspended,
  pc,              \* [Thread -> {"run", "wait", "block"}]
  sema,            \* [Thread -> AnySema]: what the thread's last wait is for
  enabled,         \* [Thread -> BOOLEAN]: that wait enables breaks
  picked,          \* [Thread -> BOOLEAN]: a post took the thread out of line
  fair             \* [Thread -> BOOLEAN]: that wait has allocated its Syncing

vars == <<value, line, running, external_break, main_was_once_suspended,
          pc, sema, enabled, picked, fair>>

-----------------------------------------------------------------------------
\* scheme_can_break, apart from suspend_break.
CanBreak(t) == t \in BreakEnabled \/ (pc[t] # "run" /\ enabled[t])

\* external_break is set and would be raised if the thread got to it.
BreakDue(t) == external_break[t] /\ CanBreak(t)

\* A post skips a thread that has something other to do than take it.
pending_break(t) ==
  \/ "KILLED" \in running[t]
  \/ "USER_SUSPENDED" \in running[t]
  \/ BreakDue(t)

\* The thread can execute the next primitive of its program.  (A break that
\* can be raised is raised before the thread gets to run.)
Runs(t) == pc[t] = "run" /\ running[t] = {"RUNNING"} /\ ~BreakDue(t)

Pickable(s) == {k \in 1..Len(line[s]) : ~pending_break(line[s][k])}

\* The loop of scheme_post_sema, for a count that the post has already
\* raised to v, with thread flags `word': waiters leave the line, first to
\* last, until one can take the post.  A fair waiter owns the post from now
\* on; an unfair one is only woken, and somebody else may take the post
\* before it runs.
NobodyPicked(s, v, word) ==
  /\ Pickable(s) = {}
  /\ value' = [value EXCEPT ![s] = v]
  /\ line' = [line EXCEPT ![s] = <<>>]
  /\ running' = word
  /\ UNCHANGED picked

FirstPicked(s, v, word, k) ==
  LET w == line[s][k] IN
  /\ \A j \in Pickable(s) : k <= j
  /\ value' = [value EXCEPT ![s] = IF fair[w] THEN v - 1 ELSE v]
  /\ line' = [line EXCEPT ![s] = SubSeq(@, k + 1, Len(@))]
  /\ running' = [word EXCEPT ![w] = WeakResume(@)]
  /\ picked' = [picked EXCEPT ![w] = TRUE]

PickWaiter(s, v, word) ==
  \/ NobodyPicked(s, v, word)
  \/ \E k \in Pickable(s) : FirstPicked(s, v, word, k)

-----------------------------------------------------------------------------
\* Joining and leaving the line.

\* get_into_line and the suspension that follows it.  The main thread stays
\* queued: it blocks on out_of_line() instead.
SleepInLine(t, s) ==
  /\ line' = [line EXCEPT ![s] = Append(@, t)]
  /\ picked' = [picked EXCEPT ![t] = FALSE]
  /\ pc' = [pc EXCEPT ![t] = "wait"]
  /\ running' = [running EXCEPT ![t] =
       IF t = Main THEN @ ELSE @ \cup {"NEED_KILL_CLEANUP", "SUSPENDED"}]
  /\ main_was_once_suspended' = IF t = Main THEN FALSE ELSE main_was_once_suspended

\* Mutant: the line is popped, whoever is first in it.
LineWithoutFirst(t, s) == IF line[s] = <<>> THEN <<>> ELSE Tail(line[s])

\* get_outof_line, for a thread that may have been dropped from it already.
LineWithout(t, s) ==
  IF \E k \in 1..Len(line[s]) : line[s][k] = t
    THEN RemoveAt(line[s], CHOOSE k \in 1..Len(line[s]) : line[s][k] = t)
    ELSE line[s]

\* A count that a thread takes one post from.
Taken(v) == IF v > 0 THEN v - 1 ELSE v

\* Mutant: the main thread does not notice that it has been suspended.
out_of_line_unnoticed(t) == picked[t] \/ BreakDue(t)

\* The main thread's out_of_line() check.
out_of_line(t) == picked[t] \/ BreakDue(t) \/ main_was_once_suspended

\* A thread asleep in a line gets to run: it was woken, or (main) its
\* out_of_line() check succeeds.
Awake(t) ==
  /\ pc[t] = "wait"
  /\ IF t = Main
       THEN running[t] = {"RUNNING"} /\ out_of_line(t)
       ELSE Queued(running[t])

\* The wait is over: its syncer and its break parameterization are gone.
WaitOver(t) ==
  /\ pc' = [pc EXCEPT ![t] = "run"]
  /\ enabled' = [enabled EXCEPT ![t] = FALSE]
  /\ fair' = [fair EXCEPT ![t] = FALSE]

\* scheme_thread_block(0), entered with the flags `word', up to its swap:
\* the thread dies, suspends itself, raises its break, or lets others run.
ThreadBlock(t, word) ==
  IF "KILLED" \in word
    THEN /\ running' = [running EXCEPT ![t] = {}]
         /\ WaitOver(t)
         /\ UNCHANGED external_break
  ELSE IF "USER_SUSPENDED" \in word
    THEN /\ running' = [running EXCEPT ![t] = WeakSuspend(word)]
         /\ pc' = [pc EXCEPT ![t] = "block"]
         /\ UNCHANGED <<external_break, enabled, fair>>
  ELSE IF BreakDue(t)
    THEN /\ running' = [running EXCEPT ![t] = word]
         /\ WaitOver(t)
         /\ external_break' = [external_break EXCEPT ![t] = FALSE]
    ELSE /\ running' = [running EXCEPT ![t] = word]
         /\ pc' = [pc EXCEPT ![t] = "block"]
         /\ UNCHANGED <<external_break, enabled, fair>>

-----------------------------------------------------------------------------
\* Primitives.

\* Mutant: the maximum is tested after the count has been raised.
SemaphorePostUntested(t, s) ==
  /\ Runs(t) /\ s \in Sema
  /\ value[s] \in 0..MaxCount
  /\ PickWaiter(s, value[s] + 1, running)
  /\ UNCHANGED <<external_break, main_was_once_suspended, pc, sema, enabled, fair>>

\* semaphore-post.  (At the maximum count it raises an exception and
\* changes nothing.)
SemaphorePost(t, s) ==
  /\ Runs(t) /\ s \in Sema
  /\ value[s] < MaxCount
  /\ PickWaiter(s, value[s] + 1, running)
  /\ UNCHANGED <<external_break, main_was_once_suspended, pc, sema, enabled, fair>>

\* scheme_post_sema_all: posts until the line is empty, so every waiter that
\* can take a post gets one, then sets the count for good.
PostSemaAll(t, s) ==
  LET woken == {line[s][k] : k \in Pickable(s)} IN
  /\ Runs(t) /\ s \in EvtSema
  /\ value' = [value EXCEPT ![s] = -1]
  /\ line' = [line EXCEPT ![s] = <<>>]
  /\ running' = [u \in Thread |-> IF u \in woken THEN WeakResume(running[u]) ELSE running[u]]
  /\ picked' = [u \in Thread |-> picked[u] \/ u \in woken]
  /\ UNCHANGED <<external_break, main_was_once_suspended, pc, sema, enabled, fair>>

\* semaphore-try-wait? that succeeds, and the initial poll of a wait that
\* does not have to block.
TakeNow(t, s) ==
  /\ Runs(t)
  /\ value[s] # 0
  /\ value' = [value EXCEPT ![s] = Taken(@)]
  /\ UNCHANGED <<line, running, external_break, main_was_once_suspended,
                 pc, sema, enabled, picked, fair>>

\* semaphore-wait (e = FALSE) or semaphore-wait/enable-break (e = TRUE) that
\* blocks.  The latter raises a pending break before it gets this far.
Wait(t, s, e) ==
  /\ Runs(t) /\ ~(e /\ external_break[t])
  /\ value[s] = 0
  /\ SleepInLine(t, s)
  /\ sema' = [sema EXCEPT ![t] = s]
  /\ enabled' = [enabled EXCEPT ![t] = e]
  /\ fair' = [fair EXCEPT ![t] = FALSE]
  /\ UNCHANGED <<value, external_break>>

\* A break is raised in a thread that runs its program: breaks are enabled,
\* or it has just called semaphore-wait/enable-break.
RaiseBreak(t) ==
  /\ pc[t] = "run" /\ running[t] = {"RUNNING"} /\ external_break[t]
  /\ external_break' = [external_break EXCEPT ![t] = FALSE]
  /\ UNCHANGED <<value, line, running, main_was_once_suspended,
                 pc, sema, enabled, picked, fair>>

-----------------------------------------------------------------------------
\* What a waiting thread does when it gets to run again.

\* Mutant: a fair waiter takes its post a second time.
ReturnTwice(t) ==
  LET s == sema[t] IN
  /\ Awake(t) /\ picked[t] /\ "KILLED" \notin running[t]
  /\ fair[t] \/ value[s] # 0
  /\ value' = [value EXCEPT ![s] = Taken(@)]
  /\ running' = [running EXCEPT ![t] = @ \ {"NEED_KILL_CLEANUP"}]
  /\ WaitOver(t)
  /\ picked' = [picked EXCEPT ![t] = FALSE]
  /\ UNCHANGED <<line, external_break, main_was_once_suspended, sema>>

\* It was picked, and the post is still there: it returns without blocking.
ReturnWithPost(t) ==
  LET s == sema[t] IN
  /\ Awake(t) /\ picked[t] /\ "KILLED" \notin running[t]
  /\ fair[t] \/ value[s] # 0
  /\ value' = [value EXCEPT ![s] = IF fair[t] THEN @ ELSE Taken(@)]
  /\ running' = [running EXCEPT ![t] = @ \ {"NEED_KILL_CLEANUP"}]
  /\ WaitOver(t)
  /\ picked' = [picked EXCEPT ![t] = FALSE]
  /\ UNCHANGED <<line, external_break, main_was_once_suspended, sema>>

\* Mutant: a stolen post leaves the thread in unfair mode.
PostStolenUnfair(t) ==
  LET s == sema[t] IN
  /\ Awake(t) /\ picked[t] /\ "KILLED" \notin running[t]
  /\ ~fair[t] /\ value[s] = 0
  /\ SleepInLine(t, s)
  /\ UNCHANGED <<value, external_break, sema, enabled, fair>>

\* It was picked, but somebody else took the post: it gets back in line,
\* this time with a Syncing that a poster hands the post to.
PostStolen(t) ==
  LET s == sema[t] IN
  /\ Awake(t) /\ picked[t] /\ "KILLED" \notin running[t]
  /\ ~fair[t] /\ value[s] = 0
  /\ SleepInLine(t, s)
  /\ fair' = [fair EXCEPT ![t] = TRUE]
  /\ UNCHANGED <<value, external_break, sema, enabled>>

\* Mutant: a killed thread dies at once, without a look at its post.
DieAtOnce(t) ==
  /\ Awake(t) /\ picked[t] /\ "KILLED" \in running[t]
  /\ running' = [running EXCEPT ![t] = {}]
  /\ WaitOver(t)
  /\ UNCHANGED <<value, line, picked, external_break, main_was_once_suspended, sema>>

\* It was picked, then killed.  An unfair waiter takes a post all the same,
\* and reposts if the count is still not zero; then it dies.
DieAfterPick(t) ==
  LET s == sema[t]
      left == Taken(value[s])
  IN
  /\ Awake(t) /\ picked[t] /\ "KILLED" \in running[t]
  /\ IF ~fair[t] /\ left > 0
       THEN PickWaiter(s, left, [running EXCEPT ![t] = {}])
       ELSE /\ value' = [value EXCEPT ![s] = IF fair[t] THEN @ ELSE left]
            /\ running' = [running EXCEPT ![t] = {}]
            /\ UNCHANGED <<line, picked>>
  /\ WaitOver(t)
  /\ UNCHANGED <<external_break, main_was_once_suspended, sema>>

\* It was not picked: a signal woke it.  It leaves the line and blocks once,
\* which lets the signal take effect.
LeaveLine(t) ==
  LET s == sema[t] IN
  /\ Awake(t) /\ ~picked[t]
  /\ line' = [line EXCEPT ![s] = LineWithout(t, s)]
  /\ ThreadBlock(t, running[t] \ {"NEED_KILL_CLEANUP"})
  /\ UNCHANGED <<value, main_was_once_suspended, sema, picked>>

\* Back from scheme_thread_block: the thread raises its break, or polls, or
\* gets in line again, now in fair mode.
Blocked(t) == pc[t] = "block" /\ running[t] = {"RUNNING"}

BreakAfterBlock(t) ==
  /\ Blocked(t) /\ BreakDue(t)
  /\ ThreadBlock(t, running[t])
  /\ UNCHANGED <<value, line, main_was_once_suspended, sema, picked>>

PollAfterBlock(t) ==
  LET s == sema[t] IN
  /\ Blocked(t) /\ ~BreakDue(t)
  /\ value[s] # 0
  /\ value' = [value EXCEPT ![s] = Taken(@)]
  /\ WaitOver(t)
  /\ UNCHANGED <<line, running, external_break, main_was_once_suspended, sema, picked>>

WaitAgain(t) ==
  LET s == sema[t] IN
  /\ Blocked(t) /\ ~BreakDue(t)
  /\ value[s] = 0
  /\ SleepInLine(t, s)
  /\ fair' = [fair EXCEPT ![t] = TRUE]
  /\ UNCHANGED <<value, external_break, sema, enabled>>

-----------------------------------------------------------------------------
\* Signals that a running thread t sends to p, which may be t itself.

\* break-thread
BreakThread(t, p) ==
  /\ Runs(t) /\ running[p] # {}
  /\ external_break' = [external_break EXCEPT ![p] = TRUE]
  /\ running' = [running EXCEPT ![p] = WeakResume(@)]
  /\ UNCHANGED <<value, line, main_was_once_suspended, pc, sema, enabled, picked, fair>>

\* thread-suspend
ThreadSuspend(t, p) ==
  /\ Runs(t)
  /\ StillRunning(running[p]) /\ "USER_SUSPENDED" \notin running[p]
  /\ running' = [running EXCEPT ![p] =
       IF p = Main THEN @ \cup {"USER_SUSPENDED"} ELSE UserSuspend(@)]
  /\ main_was_once_suspended' = (main_was_once_suspended \/ p = Main)
  /\ UNCHANGED <<value, line, external_break, pc, sema, enabled, picked, fair>>

\* thread-resume, for a thread whose custodian is alive
ThreadResume(t, p) ==
  /\ Runs(t)
  /\ StillRunning(running[p]) /\ "USER_SUSPENDED" \in running[p]
  /\ running' = [running EXCEPT ![p] = UserResume(@)]
  /\ UNCHANGED <<value, line, external_break, main_was_once_suspended,
                 pc, sema, enabled, picked, fair>>

\* kill-thread.  (Killing the main thread ends the process.)
KillThread(t, p) ==
  /\ Runs(t)
  /\ p # Main /\ StillRunning(running[p])
  /\ running' = [running EXCEPT ![p] = IF p = t THEN {} ELSE Kill(@)]
  /\ UNCHANGED <<value, line, external_break, main_was_once_suspended,
                 pc, sema, enabled, picked, fair>>

\* The scheduler finds a killed thread, with nothing to clean up, that a
\* break has put back into the queue.
ReapKilled(p) ==
  /\ "KILLED" \in running[p] /\ "NEED_KILL_CLEANUP" \notin running[p]
  /\ Queued(running[p])
  /\ running' = [running EXCEPT ![p] = {}]
  /\ UNCHANGED <<value, line, external_break, main_was_once_suspended,
                 pc, sema, enabled, picked, fair>>

-----------------------------------------------------------------------------
Init ==
  /\ value \in [AnySema -> InitCount]
  /\ \A s \in EvtSema : value[s] = 0
  /\ line = [s \in AnySema |-> <<>>]
  /\ running = [t \in Thread |-> {"RUNNING"}]
  /\ external_break = [t \in Thread |-> FALSE]
  /\ main_was_once_suspended = FALSE
  /\ pc = [t \in Thread |-> "run"]
  /\ sema \in [Thread -> AnySema]
  /\ \A t, u \in Thread : sema[t] = sema[u]
  /\ enabled = [t \in Thread |-> FALSE]
  /\ picked = [t \in Thread |-> FALSE]
  /\ fair = [t \in Thread |-> FALSE]

\* A waiting thread makes progress.
Resume(t) ==
  \/ ReturnWithPost(t) \/ PostStolen(t) \/ DieAfterPick(t) \/ LeaveLine(t)
  \/ BreakAfterBlock(t) \/ PollAfterBlock(t) \/ WaitAgain(t)

Primitive(t) ==
  \/ \E s \in AnySema :
       \/ SemaphorePost(t, s) \/ PostSemaAll(t, s) \/ TakeNow(t, s)
       \/ \E e \in BOOLEAN : Wait(t, s, e)
  \/ RaiseBreak(t)

Signals(t) ==
  \E p \in Thread :
    \/ "break" \in Signal /\ BreakThread(t, p)
    \/ "suspend" \in Signal /\ (ThreadSuspend(t, p) \/ ThreadResume(t, p))
    \/ "kill" \in Signal /\ KillThread(t, p)

Next == \E t \in Thread : Resume(t) \/ Primitive(t) \/ Signals(t) \/ ReapKilled(t)

Spec == Init /\ [][Next]_vars

-----------------------------------------------------------------------------
\* Types; a count stays between "posted for good" and the maximum, and posts
\* and waits leave no other word of flags behind.
TypeOK ==
  /\ value \in [AnySema -> -1..MaxCount]
  /\ line \in [AnySema -> Seq(Thread)]
  /\ running \in [Thread -> SUBSET Flag]
  /\ external_break \in [Thread -> BOOLEAN]
  /\ main_was_once_suspended \in BOOLEAN
  /\ pc \in [Thread -> {"run", "wait", "block"}]
  /\ sema \in [Thread -> AnySema]
  /\ enabled \in [Thread -> BOOLEAN]
  /\ picked \in [Thread -> BOOLEAN]
  /\ fair \in [Thread -> BOOLEAN]

-----------------------------------------------------------------------------
InLine(t, s) == \E k \in 1..Len(line[s]) : line[s][k] = t

\* Whoever is in a line waits for that semaphore, has not been picked, and
\* stands in it once.  (What post, leaving by signal, and getting back in
\* line after a stolen post have to agree on.)
LineInv ==
  \A s \in AnySema : \A k \in 1..Len(line[s]) :
    /\ pc[line[s][k]] = "wait" /\ sema[line[s][k]] = s
    /\ ~picked[line[s][k]]
    /\ running[line[s][k]] # {}
    /\ \A j \in 1..Len(line[s]) : line[s][j] = line[s][k] => j = k

\* A thread that sleeps in a wait: it runs again only if a post or a signal
\* makes it.
Asleep(t) ==
  /\ pc[t] = "wait" /\ running[t] # {} /\ ~Awake(t)
  /\ "USER_SUSPENDED" \notin running[t]

\* A thread that sleeps in a wait, has not been picked, and has no break
\* coming, is in the line: a post that skipped it because of a signal has not
\* left it behind.
SleeperInLine ==
  \A t \in Thread :
    Asleep(t) /\ ~picked[t] /\ ~BreakDue(t) => InLine(t, sema[t])

\* No thread sleeps in a wait while a break for it is due: the break wakes it,
\* so that it can leave the line and raise the break.
NoBreakSleptThrough == \A t \in Thread : ~(Asleep(t) /\ BreakDue(t))

\* As long as a thread is in line, every post in the count has a waiter that
\* was picked for it, and that takes it or passes it on.
EveryPostHasTaker ==
  \A s \in AnySema : line[s] # <<>> =>
    /\ value[s] >= 0
    /\ value[s] <= Cardinality({t \in Thread :
         pc[t] = "wait" /\ sema[t] = s /\ picked[t] /\ ~fair[t] /\ running[t] # {}})

\* The semaphore as its clients see it.
ClientOf(t) ==
  CASE running[t] = {} -> "gone"
    [] running[t] # {} /\ pc[t] = "run" -> "out"
    [] running[t] # {} /\ pc[t] # "run" ->
         IF fair[t] /\ picked[t] THEN "granted" ELSE "asking"

Abstract == INSTANCE AbstractSemaphore WITH
  Client <- Thread, count <- value, client <- [t \in Thread |-> ClientOf(t)], wants <- sema

\* Semaphore implements AbstractSemaphore.
ImplementsAbstract == Abstract!Spec

-----------------------------------------------------------------------------
\* The thread gets its turns: it does not stay able to run, for ever, without
\* running.  The scheduler does not see to this in all programs (select_thread
\* may pass a thread over as long as others block and wake one another), so it
\* is a hypothesis on the one thread that it is about, not part of Spec.
GetsTurns(t) == WF_vars(Resume(t))

\* Nobody who gets its turns starves in a wait if posts keep coming, whatever
\* the turns of the others: a thread that lost a post to another one waits in
\* fair mode from then on, and the line is served in order.
NoStarvation ==
  \A t \in Thread, s \in Sema :
    GetsTurns(t) /\ []<><<\E u \in Thread : SemaphorePost(u, s)>>_vars =>
      ((pc[t] = "wait" /\ sema[t] = s) ~> pc[t] = "run")
=============================================================================
