----------------------------- MODULE PortCommit -----------------------------
(***************************************************************************)
(* port-commit-peeked on a primitive input port (port.c): a thread that    *)
(* peeked at bytes takes them for good, provided that nobody has read from *)
(* the port since (its progress event is not posted), at the moment that a *)
(* target event is chosen.  The committing threads have no manager thread. *)
(* One of them leads: it locks the port against readers and syncs on its   *)
(* own target and on those of the others, who wait for it.                 *)
(*                                                                         *)
(* The model has one port with MaxPos bytes to read.  A call peeks at the  *)
(* next byte and commits it.  A target is a semaphore (so that a leader    *)
(* waits in lines, after the one poll that turns its own suspend event     *)
(* into a semaphore), and a thread uses the same one in all its calls.     *)
(***************************************************************************)
EXTENDS Integers, FiniteSets

CONSTANTS
  Committer,  \* threads that peek and commit
  Reader,     \* threads that read
  MaxPos,     \* bound: the bytes of the port
  Setting,    \* what others may do: records of
              \*   signal, of "break", "suspend", "kill": what committers get
              \*   window, of "commit", "signal": what may happen, apart from
              \*     reads, while a leader has released the lock to let others
              \*     run; the code allows both
  Null, Orphan

\* What a leader's sync may choose: a target (of the thread in the pair), to give
\* up the lock, its suspend event.
Kind == {"target", "giveup", "suspend"}

ASSUME CommitAssumption ==
  /\ MaxPos \in Nat \ {0}
  /\ Setting \subseteq [signal : SUBSET {"break", "suspend", "kill"},
                         window : SUBSET {"commit", "signal"}]
  /\ Null \notin Committer /\ Orphan \notin Committer \cup {Null}

ASSUME ChoiceAssumption == Null \notin Kind \X Committer

VARIABLES
  leader,     \* the thread that made ip->input_lock and ip->input_giveup, or
              \* Null when they are NULL
  extras,     \* ip->input_extras: the threads whose requests it holds
  abandoned,  \* and those whose request it holds although the call is over
  woken,      \* waiting threads whose input_extras_ready has been posted
  won,        \* waiting threads whose request was selected: yes, no bytes, no
  pc,         \* where a committer is
  choice,     \* what a leader's sync chose: Null, or a pair
  helps,      \* the threads on whose targets a leader syncs, besides its own
  told,       \* leaders whose input_giveup was posted before they stood in line
  again,      \* current_leader: the thread has led and means to go on
  suspended,  \* threads with MZTHREAD_USER_SUSPENDED
  frozen,     \* of those, the ones that are off the run queue
  target,     \* targets that are posted and not taken
  pos,        \* the bytes taken from the port
  at,         \* where a committer peeked
  watching,   \* committers whose progress event is the port's current one
  posted,     \* committers whose progress event is posted
  result,     \* what a committer's last call returned
  lock,       \* where a reader is
  crashed,    \* scheme_post_sema_all was called on NULL
  may         \* the setting, which does not change

port == <<pos, watching, posted>>
signals == <<suspended, frozen>>
vars == <<leader, extras, abandoned, woken, won, pc, choice, helps, told, again,
          suspended, frozen, target, pos, at, watching, posted, result, lock,
          crashed, may>>

-----------------------------------------------------------------------------
Runs(t) == t \notin frozen /\ ~crashed
Waits(t) == pc[t] \in {"extra", "poll", "line"}

\* A leader between two rounds: scheme_thread_block(0.0) with the lock
\* released and current_leader set.
InWindow(t) == pc[t] = "window"

Quiet(what) == what \in may.window \/ \A t \in Committer : ~InWindow(t)

\* scheme_post_sema_all on NULL: no step comes after it.  It happens where
\* input_lock or input_giveup is posted without a test, and there is no leader.
Crash ==
  /\ crashed' = TRUE
  /\ UNCHANGED <<leader, extras, abandoned, woken, won, pc, choice, helps, told, again,
                 signals, target, port, at, result, lock, may>>

\* scheme_post_sema_all(ip->input_giveup): the leader is chosen for this if it
\* stands in line, or finds it when it does.
post_giveup ==
  /\ choice' = IF pc[leader] = "line" /\ choice[leader] = Null
               THEN [choice EXCEPT ![leader] = <<"giveup", leader>>] ELSE choice
  /\ told' = told \cup {leader}

\* Mutant: the lock is taken away from under the readers that wait for it.
release_silently == leader' = Null /\ UNCHANGED lock

\* release_input_lock, with a lock to release.
release_input_lock ==
  /\ lock' = [r \in Reader |-> IF lock[r] = leader THEN "want" ELSE lock[r]]
  /\ leader' = Null

\* Mutant: the list is dropped, and nobody told.
elect_silently == extras' = {} /\ abandoned' = {} /\ UNCHANGED woken

\* elect_new_main: all who wait come back and compete anew.
elect_new_main ==
  /\ woken' = woken \cup {t \in extras : pc[t] = "extra"}
  /\ extras' = {} /\ abandoned' = {}

elect_none == UNCHANGED <<extras, abandoned, woken>>

\* Mutant: the thread that completes a commit does not post the progress event.
take_silently == pos' = pos + 1 /\ UNCHANGED <<watching, posted>>

\* Mutant: the progress event is posted, and stays the port's current one.
take_unreset == pos' = pos + 1 /\ posted' = posted \cup watching /\ UNCHANGED watching

\* The next byte is taken from the port, and the progress event posted.
take ==
  /\ pos' = pos + 1
  /\ posted' = posted \cup watching
  /\ watching' = {}

\* complete_peeked_read_via_get
complete_peeked_read == IF pos < MaxPos THEN take ELSE UNCHANGED port

-----------------------------------------------------------------------------
\* scheme_peeked_read_via_get, from the top of its loop to the next wait.
Refuse(t) ==
  /\ pc' = [pc EXCEPT ![t] = "idle"]
  /\ result' = [result EXCEPT ![t] = "refused"]
  /\ again' = again \ {t}
  /\ IF t \in again THEN elect_new_main
     ELSE woken' = woken \ {t} /\ UNCHANGED <<extras, abandoned>>
  /\ UNCHANGED <<leader, helps, lock, choice, told>>

Join(t) ==
  /\ pc' = [pc EXCEPT ![t] = "extra"]
  /\ extras' = extras \cup {t}
  /\ woken' = woken \ {t}
  /\ post_giveup
  /\ UNCHANGED <<leader, abandoned, helps, again, result, lock>>

\* A new input_lock replaces another that was there: whoever waits for that
\* one waits for good.
Lead(t) ==
  /\ pc' = [pc EXCEPT ![t] = "poll"]
  /\ leader' = t
  /\ lock' = [r \in Reader |-> IF leader # Null /\ lock[r] = leader THEN Orphan ELSE lock[r]]
  /\ helps' = [helps EXCEPT ![t] = extras \cup abandoned]
  /\ told' = told \ {t}
  /\ woken' = woken \ {t}
  /\ UNCHANGED <<extras, abandoned, choice, again, result>>

\* Mutant: a thread that waited does not look at its progress event again.
Enter_unchecked(t) ==
  IF t \notin again /\ leader # Null THEN Join(t) ELSE Lead(t)

Enter(t) ==
  IF t \in posted THEN Refuse(t)
  ELSE IF t \notin again /\ leader # Null THEN Join(t)
  ELSE Lead(t)

\* A program's thread peeks (which gets it the port's progress event) and
\* calls port-commit-peeked.
Peek(t) ==
  /\ pc[t] = "idle" /\ Runs(t)
  /\ pos < MaxPos
  /\ at' = [at EXCEPT ![t] = pos]
  /\ watching' = watching \cup {t}
  /\ posted' = posted \ {t}
  /\ pc' = [pc EXCEPT ![t] = "peeked"]
  /\ result' = [result EXCEPT ![t] = "none"]
  /\ UNCHANGED <<leader, extras, abandoned, woken, won, choice, helps, told, again,
                 signals, target, pos, lock, crashed, may>>

Commit(t) ==
  /\ pc[t] = "peeked" /\ Runs(t)
  /\ Quiet("commit")
  /\ Enter(t)
  /\ UNCHANGED <<won, signals, target, port, at, crashed, may>>

\* A waiting thread finds its input_extras_ready posted.
ExtraReturn(t) ==
  /\ pc[t] = "extra" /\ t \in woken /\ Runs(t)
  /\ Quiet("commit")
  /\ IF won[t] = "no" THEN Enter(t) /\ UNCHANGED won
     ELSE /\ pc' = [pc EXCEPT ![t] = "idle"]
          /\ result' = [result EXCEPT ![t] = IF won[t] = "yes" THEN "committed" ELSE "refused"]
          /\ won' = [won EXCEPT ![t] = "no"]
          /\ woken' = woken \ {t}
          /\ UNCHANGED <<leader, extras, abandoned, choice, helps, told, again, lock>>
  /\ UNCHANGED <<signals, target, port, at, crashed, may>>

-----------------------------------------------------------------------------
\* What a leader's sync may choose now.
Choices(t) ==
  {<<"target", u>> : u \in ({t} \cup helps[t]) \cap target}
    \cup {<<"giveup", t>> : u \in told \cap {t}}
    \cup {<<"suspend", t>> : u \in suspended \cap {t}}

\* syncing_ready, the second time: the leader takes what is ready, or gets in
\* line for it.
GetInLine(t) ==
  /\ pc[t] = "poll" /\ Runs(t)
  /\ pc' = [pc EXCEPT ![t] = "line"]
  /\ IF Choices(t) = {} THEN UNCHANGED <<choice, target>>
     ELSE \E c \in Choices(t) :
            /\ choice' = [choice EXCEPT ![t] = c]
            /\ target' = IF c[1] = "target" THEN target \ {c[2]} ELSE target
  /\ UNCHANGED <<leader, extras, abandoned, woken, won, helps, told, again, signals,
                 port, at, result, lock, crashed, may>>

\* Somebody posts the target of u.  A leader in line for it gets it at once.
Post(u) ==
  LET lined == {p \in Committer : pc[p] = "line" /\ choice[p] = Null
                                  /\ u \in {p} \cup helps[p]}
  IN /\ u \notin target /\ ~crashed
     /\ IF lined = {} THEN target' = target \cup {u} /\ UNCHANGED choice
        ELSE /\ \E p \in lined : choice' = [choice EXCEPT ![p] = <<"target", u>>]
             /\ UNCHANGED target
     /\ UNCHANGED <<leader, extras, abandoned, woken, won, pc, helps, told, again,
                    signals, port, at, result, lock, crashed, may>>

\* The leader's own target was chosen.
CommitOwn(t) ==
  /\ choice[t] = <<"target", t>>
  /\ elect_new_main
  /\ complete_peeked_read
  /\ pc' = [pc EXCEPT ![t] = "idle"]
  /\ result' = [result EXCEPT ![t] = IF pos < MaxPos THEN "committed" ELSE "refused"]
  /\ again' = again \ {t}
  /\ UNCHANGED won

\* A target was chosen for which there is a request in the list, be it that of a
\* call which is over.  Of two with the same target the later one is found, which
\* is that of the call that goes on.
ForAnother(t) == \E u \in (extras \cup abandoned) \ {t} : choice[t] = <<"target", u>>

CommitOther(t) ==
  /\ ForAnother(t)
  /\ elect_new_main
  /\ complete_peeked_read
  /\ won' = IF choice[t][2] \in extras
            THEN [won EXCEPT ![choice[t][2]] = IF pos < MaxPos THEN "yes" ELSE "empty"]
            ELSE won
  /\ pc' = [pc EXCEPT ![t] = "idle"]
  /\ result' = [result EXCEPT ![t] = "refused"]
  /\ again' = again \ {t}

\* Mutant: a suspended leader takes itself for the leader when it is resumed.
GiveUp_leader(t) ==
  /\ choice[t] # <<"target", t>> /\ ~ForAnother(t)
  /\ UNCHANGED <<won, port>>
  /\ IF t \in posted
     THEN /\ elect_new_main
          /\ again' = again \ {t}
          /\ pc' = [pc EXCEPT ![t] = "idle"]
          /\ result' = [result EXCEPT ![t] = "refused"]
     ELSE /\ IF t \in suspended THEN elect_new_main ELSE elect_none
          /\ again' = again \cup {t}
          /\ pc' = [pc EXCEPT ![t] = IF t \in suspended THEN "paused" ELSE "window"]
          /\ UNCHANGED result

\* The leader gives others a chance.
GiveUp(t) ==
  /\ choice[t] # <<"target", t>> /\ ~ForAnother(t)
  /\ UNCHANGED <<won, port>>
  /\ IF t \in suspended
     THEN /\ elect_new_main
          /\ again' = again \ {t}
          /\ pc' = [pc EXCEPT ![t] = "paused"]
          /\ UNCHANGED result
     ELSE IF t \in posted
     THEN /\ elect_new_main
          /\ again' = again \ {t}
          /\ pc' = [pc EXCEPT ![t] = "idle"]
          /\ result' = [result EXCEPT ![t] = "refused"]
     ELSE /\ elect_none
          /\ again' = again \cup {t}
          /\ pc' = [pc EXCEPT ![t] = "window"]
          /\ UNCHANGED result

\* The leader's sync returns.  The lock may be gone, if another has led as well.
\* The thread blocks in check_suspended if it must.
LeadReturn(t) ==
  /\ pc[t] = "line" /\ choice[t] # Null /\ Runs(t)
  /\ IF leader = Null THEN Crash
     ELSE /\ release_input_lock
          /\ CommitOwn(t) \/ CommitOther(t) \/ GiveUp(t)
          /\ choice' = [choice EXCEPT ![t] = Null]
          /\ helps' = [helps EXCEPT ![t] = {}]
          /\ told' = told \ {t}
          /\ frozen' = frozen \cup (suspended \cap {t})
          /\ UNCHANGED <<suspended, target, at, crashed, may>>

\* scheme_thread_block returns, or check_suspended does after thread-resume.
Reenter(t) ==
  /\ pc[t] \in {"window", "paused"} /\ Runs(t)
  /\ InWindow(t) \/ Quiet("commit")
  /\ Enter(t)
  /\ UNCHANGED <<won, signals, target, port, at, crashed, may>>

-----------------------------------------------------------------------------
\* A thread reads the next byte, and waits while the port is locked.
Read(r) ==
  /\ lock[r] \in {"idle", "want"} /\ ~crashed
  /\ pos < MaxPos
  /\ IF leader # Null
     THEN /\ post_giveup
          /\ lock' = [lock EXCEPT ![r] = leader]
          /\ UNCHANGED port
     ELSE /\ take
          /\ lock' = [lock EXCEPT ![r] = "idle"]
          /\ UNCHANGED <<choice, told>>
  /\ UNCHANGED <<leader, extras, abandoned, woken, won, pc, helps, again, signals,
                 target, at, result, crashed, may>>

\* Signals reach committers that wait or are between two rounds.
Signalled(t) ==
  /\ ~crashed
  /\ Waits(t) \/ InWindow(t)
  /\ Quiet("signal")

\* remove_extra: the loop looks for the wrong object, and so the request of a
\* thread that leaves stays.
remove_extra(t) ==
  /\ extras' = extras \ {t}
  /\ abandoned' = abandoned \cup (extras \cap {t})
  /\ woken' = woken \ {t}
  /\ won' = [won EXCEPT ![t] = "no"]
  /\ post_giveup
  /\ UNCHANGED <<leader, lock>>

\* Mutant: a leader that leaves only releases the lock.
leave_release(t) ==
  /\ release_input_lock
  /\ choice' = [choice EXCEPT ![t] = Null]
  /\ told' = told \ {t}
  /\ UNCHANGED <<extras, abandoned, woken, won>>

\* release_input_lock_and_elect_new_main
release_input_lock_and_elect_new_main(t) ==
  /\ release_input_lock
  /\ elect_new_main
  /\ choice' = [choice EXCEPT ![t] = Null]
  /\ told' = told \ {t}
  /\ UNCHANGED won

\* What BEGIN_ESCAPEABLE registered is done when a break or a kill takes the
\* thread out of its wait, and it posts to input_giveup or input_lock whether or
\* not there is a leader.  There is nothing to do for a thread between rounds.
Leave(t, where) ==
  IF Waits(t) /\ leader = Null THEN Crash
  ELSE /\ pc' = [pc EXCEPT ![t] = where]
       /\ again' = again \ {t}
       /\ helps' = [helps EXCEPT ![t] = {}]
       /\ CASE pc[t] = "extra" -> remove_extra(t)
            [] pc[t] \in {"poll", "line"} -> release_input_lock_and_elect_new_main(t)
            [] OTHER -> UNCHANGED <<leader, extras, abandoned, woken, won, choice, told,
                                    lock>>
       /\ suspended' = suspended \ {t} /\ frozen' = frozen \ {t}
       /\ UNCHANGED <<target, port, at, result, crashed, may>>

\* A break ends a wait, also one that is over when the thread gets to see it
\* (scheme_check_break_now).
Break(t) ==
  /\ "break" \in may.signal /\ Signalled(t)
  /\ t \notin suspended
  /\ Leave(t, "idle")

Kill(t) ==
  /\ "kill" \in may.signal /\ Signalled(t)
  /\ Leave(t, "dead")

\* suspend_thread: a leader that stands in line is chosen for its suspend
\* event and gets to run; any other thread is taken off the queue.
Suspend(t) ==
  /\ "suspend" \in may.signal /\ Signalled(t)
  /\ t \notin suspended
  /\ suspended' = suspended \cup {t}
  /\ IF pc[t] = "line" /\ choice[t] = Null
     THEN choice' = [choice EXCEPT ![t] = <<"suspend", t>>] /\ UNCHANGED frozen
     ELSE frozen' = frozen \cup {t} /\ UNCHANGED choice
  /\ UNCHANGED <<leader, extras, abandoned, woken, won, pc, helps, told, again,
                 target, port, at, result, lock, crashed, may>>

Resume(t) ==
  /\ t \in suspended /\ ~crashed
  /\ suspended' = suspended \ {t} /\ frozen' = frozen \ {t}
  /\ UNCHANGED <<leader, extras, abandoned, woken, won, pc, choice, helps, told,
                 again, target, port, at, result, lock, crashed, may>>

-----------------------------------------------------------------------------
Init ==
  /\ leader = Null
  /\ extras = {} /\ abandoned = {} /\ woken = {}
  /\ won = [t \in Committer |-> "no"]
  /\ pc = [t \in Committer |-> "idle"]
  /\ choice = [t \in Committer |-> Null]
  /\ helps = [t \in Committer |-> {}]
  /\ told = {} /\ again = {}
  /\ suspended = {} /\ frozen = {}
  /\ target = {}
  /\ pos = 0
  /\ at = [t \in Committer |-> 0]
  /\ watching = {} /\ posted = {}
  /\ result = [t \in Committer |-> "none"]
  /\ lock = [r \in Reader |-> "idle"]
  /\ crashed = FALSE
  /\ may \in Setting

Next ==
  \/ \E t \in Committer :
       \/ Peek(t) \/ Commit(t) \/ ExtraReturn(t)
       \/ GetInLine(t) \/ LeadReturn(t) \/ Reenter(t)
       \/ Post(t)
       \/ Break(t) \/ Kill(t) \/ Suspend(t) \/ Resume(t)
  \/ \E r \in Reader : Read(r)

Spec == Init /\ [][Next]_vars

\* Assumed: every thread gets to run, and suspended ones are resumed.  With a
\* scheduler that goes round (select_thread does not in all programs) each thread
\* that is ready gets its turn while a leader lets others run, and so a reader
\* that finds the port unlocked ever again will read.
Fairness ==
  /\ \A t \in Committer :
       WF_vars(ExtraReturn(t)) /\ WF_vars(GetInLine(t)) /\ WF_vars(LeadReturn(t))
         /\ WF_vars(Reenter(t)) /\ WF_vars(Resume(t))
  /\ \A r \in Reader : WF_vars(Read(r)) /\ SF_vars(leader = Null /\ Read(r))

FairSpec == Spec /\ Fairness

-----------------------------------------------------------------------------
Where == {"idle", "peeked", "extra", "poll", "line", "window", "paused", "dead"}

\* The bookkeeping is in range; those who have been told are waiting, and an event
\* that has been posted is no longer the port's.
TypeOK ==
  /\ may \in Setting
  /\ leader \in Committer \cup {Null}
  /\ extras \subseteq Committer /\ abandoned \subseteq Committer
  /\ woken \subseteq {t \in Committer : pc[t] = "extra"}
  /\ won \in [Committer -> {"yes", "no", "empty"}]
  /\ pc \in [Committer -> Where]
  /\ choice \in [Committer -> {Null} \cup (Kind \X Committer)]
  /\ helps \in [Committer -> SUBSET Committer]
  /\ told \subseteq Committer /\ again \subseteq Committer
  /\ frozen \subseteq suspended /\ suspended \subseteq Committer
  /\ target \subseteq Committer
  /\ pos \in 0..MaxPos /\ at \in [Committer -> 0..MaxPos]
  /\ watching \subseteq Committer /\ posted \subseteq Committer
  /\ watching \cap posted = {}
  /\ result \in [Committer -> {"none", "committed", "refused"}]
  /\ lock \in [Reader -> {"idle", "want", Orphan} \cup Committer]
  /\ crashed \in BOOLEAN

\* The lock that is there belongs to a thread that waits to release it, and for
\* which it keeps the byte: nobody takes what the thread has peeked at, however
\* many others believe that they lead.  A reader waits for that lock, or for one
\* that was replaced, but not for one that was released.
LockIsHeld ==
  /\ leader # Null => /\ pc[leader] \in {"poll", "line"}
                      /\ leader \in watching /\ at[leader] = pos
  /\ \A r \in Reader : lock[r] \in {"idle", "want", Orphan, leader}

\* A request is not lost: while its thread waits, the next leader finds it in the
\* list, or the thread has been told to come back.
ListedOrTold ==
  \A t \in Committer : pc[t] = "extra" => t \in woken \cup extras

\* Whoever holds the lock is waiting for a target and will release it, and
\* nobody else waits so: two threads never lead at a time ("This one is hereby
\* elected "main"", port.c:1920).
OneLeader ==
  \A t \in Committer : pc[t] \in {"poll", "line"} <=> leader = t

\* Nothing but reads happens between two rounds of a leader.  The code does not
\* see to it; what needs it says so.
Undisturbed == may.window = {}

\* The lock is held by a thread that will release it, and as long as leaders are
\* undisturbed no other thread leads: over all suspensions, breaks and kills of
\* leaders.
LeaderHasLock ==
  /\ LockIsHeld
  /\ Undisturbed => OneLeader

\* Nobody waits for somebody who is not there.  No request is lost; and as long
\* as leaders are undisturbed, there is a leader for those in the list, or one
\* between two rounds who will be it again, and a reader waits for the lock that
\* is there, not for one that is gone.
NobodyForgotten ==
  /\ ListedOrTold
  /\ Undisturbed =>
       /\ \A t \in Committer :
            pc[t] = "extra" => \/ t \in woken
                               \/ leader # Null
                               \/ \E u \in Committer : InWindow(u)
       /\ \A r \in Reader : lock[r] # Orphan

\* t holds the lock, was chosen for and commits.
OwnCommitted(t) ==
  leader = t /\ choice[t] = <<"target", t>>
    /\ result'[t] = "committed" /\ result[t] # "committed"

\* Another thread commits for t.
CommittedByOther(t) == won[t] = "no" /\ won'[t] = "yes"

\* The thread that holds the lock and commits for itself takes the byte that it
\* peeked at, and takes it in that step.
OwnCommitsRight ==
  [][\A t \in Committer : OwnCommitted(t) => pos = at[t] /\ pos' = pos + 1]_vars

\* A byte that is committed for a thread is the one it peeked at, and is taken
\* with that, if the thread holds the lock; and as long as leaders are
\* undisturbed also if another one commits it, that has looked at no progress
\* event but its own, and that before it chose.  So nobody has read in between,
\* and of all who peeked at the same byte one gets it.
CommitsWhatWasPeeked ==
  [][\A t \in Committer :
       OwnCommitted(t) \/ (Undisturbed /\ CommittedByOther(t))
         => pos = at[t] /\ pos' = pos + 1]_vars

\* A reader that wants to read does not wait for ever for threads that want to
\* commit, unless the program crashes: its request makes the leader let go.
ReaderGetsThrough ==
  \A r \in Reader : lock[r] # "idle" ~> lock[r] = "idle" \/ pos = MaxPos \/ crashed

\* A thread that waits for a leader is helped, unless the program crashes: the
\* leader syncs on its target, or it is told to look for itself; and when its
\* commit can no longer succeed it does not wait on.
WaiterIsHelped ==
  \A t \in Committer :
    /\ pc[t] = "extra" ~> pc[t] # "extra" \/ (\E u \in Committer : t \in helps[u]) \/ crashed
    /\ pc[t] = "extra" /\ t \in posted ~> pc[t] # "extra" \/ crashed

\* A request ends with its call: no bytes are taken, and no target, for one that
\* was broken or killed ("Tell the main commit thread to reset", port.c:1788).
AbandonedTakesNothing ==
  [][\A t \in Committer :
       pos' # pos /\ pc[t] = "line" /\ pc'[t] # "line" => choice[t][2] \in extras \cup {t}]_vars

\* Nobody tells a leader who is not there ("Tell the main commit thread to reset",
\* port.c:1788): scheme_post_sema_all is not called on NULL.
NothingPostedToNull == ~crashed
=============================================================================
