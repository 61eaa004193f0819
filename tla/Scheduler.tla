----------------------------- MODULE Scheduler -----------------------------
(***************************************************************************)
(* The scheduler of MzScheme threads (thread.c).  Threads that can be      *)
(* swapped in are linked twice: in the list that starts at                 *)
(* scheme_first_thread, which the main thread ends, and in a tree of       *)
(* thread groups, which a scheduler goes round hierarchically: a group is  *)
(* linked in its parent as long as it holds something to run.              *)
(*                                                                         *)
(* An action is what a running thread does to the lists in one primitive,  *)
(* or one step of the search for the next thread in scheme_thread_block    *)
(* or select_thread; while a search is on, nothing else happens.           *)
(***************************************************************************)
EXTENDS Integers, Sequences, FiniteSets, SequencesExt, ThreadFlags

CONSTANTS
  Thread,
  Main,     \* scheme_main_thread, which is never unlinked
  Group,    \* thread groups (Scheme_Thread_Set)
  Top,      \* thread_set_top
  Parent,   \* [Thread \cup Group \ {Top} -> Group]: t_set_parent, and parent
  Null,
  Op        \* what programs do: a subset of the names in Program

Item == Thread \cup Group

\* A group is made in one that is there already, and a thread too, so the
\* parents make a tree: no set of groups and threads holds all its parents.
ASSUME SchedulerAssumption ==
  /\ IsFiniteSet(Item)
  /\ Main \in Thread /\ Top \in Group
  /\ Thread \cap Group = {} /\ Null \notin Item
  /\ Parent \in [Item \ {Top} -> Group] /\ Parent[Main] = Top
  /\ \A S \in SUBSET (Item \ {Top}) : S # {} => \E x \in S : Parent[x] \notin S
  /\ Op \subseteq {"create", "wait", "break", "suspend", "freeze", "kill"}

\* The groups that a thread or a group is in.
Above[x \in Item] == IF x = Top THEN {} ELSE {Parent[x]} \cup Above[Parent[x]]

VARIABLES
  created,       \* the threads that have been created
  running,       \* [Thread -> SUBSET Flag]
  ready,         \* [Thread -> BOOLEAN]: not blocked, or its block_check holds
  queue,         \* the list that starts at scheme_first_thread
  next, prev,    \* [Item -> Item or Null]: the links in the parent's list
  first, current, search_start,   \* [Group -> Item or Null]
  num_running_threads,
  current_thread,
  pc,            \* "run", or the search that the current thread is in
  at             \* next_in_set in a search, t_set while it climbs, or else Top

lists == <<queue, next, prev, first, current, num_running_threads>>
search == <<search_start, pc, at>>
vars == <<created, running, ready, lists, search, current_thread>>

-----------------------------------------------------------------------------
\* Linking and unlinking.

\* What is linked together with x: the groups above it that were empty.
LinkedWith(x) ==
  {x} \cup {g \in Above[x] \ {Top} :
              \A h \in Above[x] : h = g \/ g \in Above[h] => current[h] = Null}

\* The child of g through which x is reached.
ChildToward(g, x) == CHOOSE y \in {x} \cup Above[x] : y # Top /\ Parent[y] = g

\* schedule_in_set, and the list of all threads.
Link(p) ==
  LET new == LinkedWith(p)
      child(g) == ChildToward(g, p)
      into == {Parent[x] : x \in new}
  IN
  /\ queue' = <<p>> \o queue
  /\ num_running_threads' = num_running_threads + 1
  /\ next' = [x \in Item |-> IF x \in new THEN first[Parent[x]] ELSE next[x]]
  /\ prev' = [x \in Item |->
       IF x # Top /\ Parent[x] \in into /\ first[Parent[x]] = x
         THEN child(Parent[x]) ELSE prev[x]]
  /\ first' = [g \in Group |-> IF g \in into THEN child(g) ELSE first[g]]
  /\ current' = [g \in Group |->
       IF g \in into /\ current[g] = Null THEN child(g) ELSE current[g]]

\* The group holds nothing but the child through which x is reached.
HoldsOnly(g, x) ==
  LET y == ChildToward(g, x) IN current[g] = y /\ next[y] = Null /\ prev[y] = Null

\* What is unlinked together with x: the groups that become empty.
UnlinkedWith(x) ==
  {x} \cup {g \in Above[x] \ {Top} :
              \A h \in Above[x] : h = g \/ g \in Above[h] => HoldsOnly(h, x)}

\* Mutant: current is left on the thread that is unlinked.
CurrentWithoutKept(g, x) == current[g]

\* The current item of g after its child x has been unlinked.
CurrentWithout(g, x) ==
  IF current[g] # x THEN current[g]
  ELSE IF next[x] # Null THEN next[x]
  ELSE IF prev[x] # Null THEN first[g]
  ELSE Null

\* unschedule_in_set, and the list of all threads.
Unlink(p) ==
  LET old == UnlinkedWith(p)
      child(g) == ChildToward(g, p)
      from == {Parent[x] : x \in old}
  IN
  /\ queue' = RemoveAt(queue, CHOOSE k \in 1..Len(queue) : queue[k] = p)
  /\ num_running_threads' = num_running_threads - 1
  /\ next' = [x \in Item |-> IF x \in old THEN Null
                             ELSE IF next[x] \in old THEN next[next[x]] ELSE next[x]]
  /\ prev' = [x \in Item |-> IF x \in old THEN Null
                             ELSE IF prev[x] \in old THEN prev[prev[x]] ELSE prev[x]]
  /\ first' = [g \in Group |->
       IF g \in from /\ prev[child(g)] = Null THEN next[child(g)] ELSE first[g]]
  /\ current' = [g \in Group |->
       IF g \in from THEN CurrentWithout(g, child(g)) ELSE current[g]]

\* The item after the current one, going round.
AfterCurrent(g) == IF next[current[g]] # Null THEN next[current[g]] ELSE first[g]

\* Mutant: the groups above the new thread are not brought up to date.
SwapToStale(p) ==
  /\ current_thread' = p
  /\ pc' = "run" /\ at' = Top
  /\ current' = [current EXCEPT ![Parent[p]] = p]

\* scheme_swap_thread
SwapTo(p) ==
  /\ current_thread' = p
  /\ pc' = "run" /\ at' = Top
  /\ current' = [g \in Group |-> IF g \in Above[p] THEN ChildToward(g, p) ELSE current[g]]

-----------------------------------------------------------------------------
\* Flags and links change together.

\* Mutant: a thread that is woken is linked even if it is linked already.
SetFlagsLinking(p, word) ==
  /\ running' = [running EXCEPT ![p] = word]
  /\ IF Queued(running[p]) /\ ~Queued(word) THEN Unlink(p)
     ELSE IF Queued(word) THEN Link(p)
     ELSE UNCHANGED lists

\* scheme_weak_suspend_thread and scheme_weak_resume_thread link and unlink
\* as they change the SUSPENDED bit, remove_thread as it clears the word.
SetFlags(p, word) ==
  /\ running' = [running EXCEPT ![p] = word]
  /\ IF Queued(running[p]) /\ ~Queued(word) THEN Unlink(p)
     ELSE IF ~Queued(running[p]) /\ Queued(word) THEN Link(p)
     ELSE UNCHANGED lists

-----------------------------------------------------------------------------
\* Primitives of the current thread.

Runs(p) ==
  /\ p = current_thread /\ pc = "run"
  /\ running[p] = {"RUNNING"} /\ ready[p]

\* thread: the new thread is linked, and the current one goes on.
Create(p, q) ==
  /\ Runs(p) /\ q \notin created
  /\ created' = created \cup {q}
  /\ SetFlags(q, {"RUNNING"})
  /\ UNCHANGED <<ready, search, current_thread>>

\* break-thread, or a post to a thread that waits in a line: a weak resume.
Resume(p, q) ==
  /\ Runs(p) /\ q \in created /\ running[q] # {}
  /\ "break" \in Op \/ "NEED_KILL_CLEANUP" \in running[q]
  /\ SetFlags(q, WeakResume(running[q]))
  /\ UNCHANGED <<created, ready, search, current_thread>>

\* Mutant: the main thread is suspended like any other.
SuspendAny(p, q) ==
  /\ Runs(p) /\ q # p
  /\ StillRunning(running[q]) /\ "USER_SUSPENDED" \notin running[q]
  /\ SetFlags(q, UserSuspend(running[q]))
  /\ UNCHANGED <<created, ready, search, current_thread>>

\* thread-suspend and thread-resume on another thread than the main one.
Suspend(p, q) ==
  /\ Runs(p) /\ q \notin {p, Main}
  /\ StillRunning(running[q]) /\ "USER_SUSPENDED" \notin running[q]
  /\ SetFlags(q, UserSuspend(running[q]))
  /\ UNCHANGED <<created, ready, search, current_thread>>

UnSuspend(p, q) ==
  /\ Runs(p) /\ q # Main
  /\ StillRunning(running[q]) /\ "USER_SUSPENDED" \in running[q]
  /\ SetFlags(q, UserResume(running[q]))
  /\ UNCHANGED <<created, ready, search, current_thread>>

\* thread-suspend and thread-resume on the main thread.
FreezeMain(p) ==
  /\ Runs(p) /\ "USER_SUSPENDED" \notin running[Main]
  /\ SetFlags(Main, running[Main] \cup {"USER_SUSPENDED"})
  /\ IF p = Main THEN pc' = "select" /\ at' = Top ELSE UNCHANGED <<pc, at>>
  /\ UNCHANGED <<created, ready, search_start, current_thread>>

ThawMain(p) ==
  /\ Runs(p) /\ "USER_SUSPENDED" \in running[Main]
  /\ SetFlags(Main, UserResume(running[Main]))
  /\ UNCHANGED <<created, ready, search, current_thread>>

\* kill-thread on another thread
KillOther(p, q) ==
  /\ Runs(p) /\ q \notin {p, Main} /\ StillRunning(running[q])
  /\ SetFlags(q, Kill(running[q]))
  /\ UNCHANGED <<created, ready, search, current_thread>>

\* The current thread takes itself off the lists, and selects another one.
SwapOut(p, word) ==
  /\ SetFlags(p, word)
  /\ pc' = "select" /\ at' = Top
  /\ UNCHANGED <<created, ready, search_start, current_thread>>

\* It waits in a line (the main thread blocks instead), or suspends itself.
WaitInLine(p) ==
  /\ Runs(p) /\ p # Main
  /\ SwapOut(p, {"RUNNING", "NEED_KILL_CLEANUP", "SUSPENDED"})

SuspendSelf(p) ==
  /\ Runs(p) /\ p # Main
  /\ SwapOut(p, {"RUNNING", "USER_SUSPENDED", "SUSPENDED"})

\* It ends, or it finds itself killed, when it has cleaned up if it has to.
End(p) ==
  /\ p = current_thread /\ pc = "run" /\ p # Main
  /\ Runs(p) \/ "KILLED" \in running[p]
  /\ SwapOut(p, {})

\* Woken in a line, it leaves it, and suspends itself if that was the reason.
LeaveLine(p) ==
  LET word == running[p] \ {"NEED_KILL_CLEANUP"} IN
  /\ p = current_thread /\ pc = "run"
  /\ "NEED_KILL_CLEANUP" \in running[p] /\ "KILLED" \notin running[p]
  /\ IF "USER_SUSPENDED" \in word
       THEN SwapOut(p, WeakSuspend(word))
       ELSE /\ SetFlags(p, word)
            /\ UNCHANGED <<created, ready, search, current_thread>>

\* It blocks until something becomes true.
Block(p) ==
  /\ Runs(p)
  /\ ready' = [ready EXCEPT ![p] = FALSE]
  /\ pc' = "search" /\ at' = Top
  /\ UNCHANGED <<created, running, lists, search_start, current_thread>>

\* Its time is up, it sleeps for a moment, or it still cannot go on.
Yield(p) ==
  /\ p = current_thread /\ pc = "run" /\ running[p] = {"RUNNING"}
  /\ pc' = "search" /\ at' = Top
  /\ UNCHANGED <<created, running, ready, lists, search_start, current_thread>>

\* What a thread has blocked for becomes true: by what another thread does,
\* by a timer or by input.
BecomeReady(q) ==
  /\ pc = "run" /\ ~ready[q]
  /\ ready' = [ready EXCEPT ![q] = TRUE]
  /\ UNCHANGED <<created, running, lists, search, current_thread>>

-----------------------------------------------------------------------------
\* The search in scheme_thread_block.

\* A thread other than the main one that is still linked though suspended, or
\* killed with something to clean up, is swapped in to see to it.
CanSwapIn(p) ==
  /\ Queued(running[p])
  /\ IF "USER_SUSPENDED" \in running[p] THEN p # Main
     ELSE IF "KILLED" \in running[p] THEN "NEED_KILL_CLEANUP" \in running[p]
     ELSE ready[p]

\* Killed, and nothing to clean up.
Zombie(p) == "KILLED" \in running[p] /\ "NEED_KILL_CLEANUP" \notin running[p]

\* Mutant: where the search of the group started is not remembered.
SearchInGroupForgets ==
  /\ pc = "search" /\ at \in Group
  /\ current' = [current EXCEPT ![at] = AfterCurrent(at)]
  /\ at' = AfterCurrent(at)
  /\ UNCHANGED <<created, running, ready, queue, next, prev, first, num_running_threads,
                 search_start, pc, current_thread>>

\* Into a group, starting after its current item.
SearchInGroup ==
  /\ pc = "search" /\ at \in Group
  /\ current' = [current EXCEPT ![at] = AfterCurrent(at)]
  /\ search_start' = [search_start EXCEPT ![at] = AfterCurrent(at)]
  /\ at' = AfterCurrent(at)
  /\ UNCHANGED <<created, running, ready, queue, next, prev, first, num_running_threads,
                 pc, current_thread>>

\* Back at the current thread: it goes on.
SearchFindsItself ==
  /\ pc = "search" /\ at = current_thread
  /\ pc' = "run" /\ at' = Top
  /\ UNCHANGED <<created, running, ready, lists, search_start, current_thread>>

Cleared(p) == [g \in Group |-> IF g \in Above[p] THEN Null ELSE search_start[g]]

SearchFindsThread ==
  /\ pc = "search" /\ at \in Thread \ {current_thread}
  /\ CanSwapIn(at)
  /\ search_start' = Cleared(at)
  /\ SwapTo(at)
  /\ UNCHANGED <<created, running, ready, queue, next, prev, first, num_running_threads>>

\* A killed thread that has nothing to clean up: it is removed, and the
\* current thread goes on.
SearchRemovesZombie ==
  /\ pc = "search" /\ at \in Thread \ {current_thread}
  /\ Zombie(at)
  /\ SetFlags(at, {})
  /\ search_start' = Cleared(at)
  /\ pc' = "run" /\ at' = Top
  /\ UNCHANGED <<created, ready, current_thread>>

\* The next thread or group of this group, going round; back where the group
\* was entered, its parent is next.
SearchGoesOn ==
  LET g == Parent[at]
      n == IF next[at] # Null THEN next[at] ELSE first[g]
  IN
  /\ pc = "search" /\ at \in Thread \ {current_thread}
  /\ ~CanSwapIn(at) /\ ~Zombie(at)
  /\ IF n = search_start[g]
       THEN /\ pc' = "climb" /\ at' = g
            /\ UNCHANGED current
       ELSE /\ current' = [current EXCEPT ![g] = n]
            /\ at' = n
            /\ UNCHANGED pc
  /\ UNCHANGED <<created, running, ready, queue, next, prev, first, search_start,
                 num_running_threads, current_thread>>

\* Mutant: an exhausted group ends the search.
SearchClimbsNoFurther ==
  /\ pc = "climb"
  /\ search_start' = [search_start EXCEPT ![at] = Null]
  /\ pc' = "run" /\ at' = Top
  /\ UNCHANGED <<created, running, ready, queue, next, prev, first, current,
                 num_running_threads, current_thread>>

SearchClimbs ==
  /\ pc = "climb"
  /\ search_start' = [search_start EXCEPT ![at] = Null]
  /\ IF at = Top
       THEN /\ pc' = "run"
            /\ UNCHANGED <<current, at>>
     ELSE LET g == Parent[at] IN
          IF AfterCurrent(g) = search_start[g]
            THEN /\ at' = g
                 /\ UNCHANGED <<pc, current>>
            ELSE /\ current' = [current EXCEPT ![g] = AfterCurrent(g)]
                 /\ at' = AfterCurrent(g)
                 /\ pc' = "search"
  /\ UNCHANGED <<created, running, ready, queue, next, prev, first,
                 num_running_threads, current_thread>>

Search == SearchInGroup \/ SearchFindsItself \/ SearchFindsThread
            \/ SearchRemovesZombie \/ SearchGoesOn \/ SearchClimbs

-----------------------------------------------------------------------------
\* select_thread: whatever comes after the current items, whether it is
\* ready or not; and if that is suspended, the next one that is not in the
\* list of all threads, going round.

SelectInGroup ==
  /\ pc = "select" /\ at \in Group
  /\ at' = AfterCurrent(at)
  /\ UNCHANGED <<created, running, ready, lists, search_start, pc, current_thread>>

\* A thread that waits in a line is linked though suspended by the user until
\* it has left the line; it is passed over here like the main thread.
Choosable(p) == "USER_SUSPENDED" \notin running[p]

SelectThread ==
  LET from(i) == {k \in i..Len(queue) : Choosable(queue[k])}
      here == CHOOSE i \in 1..Len(queue) : queue[i] = at
      able == IF from(here) # {} THEN from(here) ELSE from(1)
  IN
  /\ pc = "select" /\ at \in Thread
  /\ \E k \in able :
       /\ \A j \in able : k <= j
       /\ SwapTo(queue[k])
  /\ UNCHANGED <<created, running, ready, queue, next, prev, first, num_running_threads,
                 search_start>>

\* "unbreakable deadlock": the process exits.
Deadlock ==
  /\ pc = "select" /\ at \in Thread
  /\ \A k \in 1..Len(queue) : ~Choosable(queue[k])
  /\ pc' = "exit"
  /\ UNCHANGED <<created, running, ready, lists, search_start, at, current_thread>>

Select == SelectInGroup \/ SelectThread \/ Deadlock

-----------------------------------------------------------------------------
Init ==
  /\ created = {Main}
  /\ running = [p \in Thread |-> IF p = Main THEN {"RUNNING"} ELSE {}]
  /\ ready = [p \in Thread |-> TRUE]
  /\ queue = <<Main>>
  /\ next = [x \in Item |-> Null] /\ prev = [x \in Item |-> Null]
  /\ first = [g \in Group |-> IF g = Top THEN Main ELSE Null]
  /\ current = first
  /\ search_start = [g \in Group |-> Null]
  /\ num_running_threads = 1
  /\ current_thread = Main
  /\ pc = "run" /\ at = Top

Program(p) ==
  \/ Block(p) \/ LeaveLine(p)
  \/ \E q \in Thread :
       \/ "create" \in Op /\ Create(p, q)
       \/ {"wait", "break"} \cap Op # {} /\ Resume(p, q)
       \/ "suspend" \in Op /\ (Suspend(p, q) \/ UnSuspend(p, q))
       \/ "kill" \in Op /\ KillOther(p, q)
  \/ "wait" \in Op /\ WaitInLine(p)
  \/ "suspend" \in Op /\ SuspendSelf(p)
  \/ "freeze" \in Op /\ (FreezeMain(p) \/ ThawMain(p))
  \/ "kill" \in Op /\ End(p)

Next == \/ \E p \in Thread : Program(p) \/ Yield(p) \/ BecomeReady(p)
        \/ Search \/ Select

Spec == Init /\ [][Next]_vars

-----------------------------------------------------------------------------
\* Types.  num_running_threads never reaches 0, as the main thread stays linked,
\* and never counts a thread twice.
TypeOK ==
  /\ created \subseteq Thread /\ running \in [Thread -> SUBSET Flag]
  /\ ready \in [Thread -> BOOLEAN]
  /\ queue \in Seq(Thread)
  /\ next \in [Item -> Item \cup {Null}] /\ prev \in [Item -> Item \cup {Null}]
  /\ first \in [Group -> Item \cup {Null}] /\ current \in [Group -> Item \cup {Null}]
  /\ search_start \in [Group -> Item \cup {Null}]
  /\ num_running_threads \in 1..Cardinality(Thread)
  /\ current_thread \in Thread
  /\ pc \in {"run", "search", "climb", "select", "exit"} /\ at \in Item

\* A thread that is queued, or a group that holds something.
HasToRun(x) == IF x \in Thread THEN Queued(running[x]) ELSE first[x] # Null

\* The items of g in the order of their links, as far as they go.
InOrder(g) ==
  LET walk[k \in Nat] == IF k = 0 THEN first[g]
                         ELSE LET x == walk[k - 1] IN IF x = Null THEN Null ELSE next[x]
  IN  {walk[k] : k \in 0..Cardinality(Item)} \ {Null}

\* schedule_in_set and unschedule_in_set: every group's list holds just the
\* threads and groups under it that have something to run, its links agree in
\* both directions, and its current item is one of them; so a search that goes
\* down never meets an empty group.
TreeInv ==
  /\ \A g \in Group :
       /\ InOrder(g) = {x \in Item \ {Top} : Parent[x] = g /\ HasToRun(x)}
       /\ current[g] = Null <=> first[g] = Null
       /\ current[g] # Null => current[g] \in InOrder(g)
       /\ first[g] # Null => prev[first[g]] = Null
  /\ \A x, y \in Item : next[x] = y <=> prev[y] = x

\* The list of all threads and the tree of groups hold the same threads, and
\* the main thread is last in the list: `next == NULL' is how the run time
\* recognises it.
QueueInv ==
  /\ {queue[k] : k \in 1..Len(queue)} = {p \in Thread : Queued(running[p])}
  /\ Len(queue) = num_running_threads
  /\ num_running_threads = Cardinality({p \in Thread : Queued(running[p])})
  /\ queue[Len(queue)] = Main

\* "If we get back to the current thread, then no other thread was ready": when
\* a search gives up and the current thread goes on, or the process sleeps,
\* there is no other thread that could be swapped in.
SearchIsComplete ==
  [][(pc \in {"search", "climb"} /\ pc' = "run" /\ current_thread' = current_thread)
       => (running' # running \/ \A p \in Thread \ {current_thread} : ~CanSwapIn(p))]_vars

\* A search that is on goes on, and the timer interrupts a thread that runs.
FairSpec ==
  /\ Spec
  /\ WF_vars(Search) /\ WF_vars(Select)
  /\ \A p \in Thread : WF_vars(Yield(p))

\* Every search for another thread, in scheme_thread_block and in
\* select_thread, comes to an end, whatever the groups hold and wherever
\* their current items are: each group is gone round once.
SearchEnds == pc \in {"search", "climb", "select"} ~> pc \in {"run", "exit"}
=============================================================================
