---------------------------- MODULE ThreadFlags ----------------------------
(***************************************************************************)
(* The `running' word of a Scheme_Thread and the operations of thread.c    *)
(* that change it.  A flag word is the set of its set bits; the empty set  *)
(* is the word 0 that remove_thread() leaves in a thread that is gone.     *)
(*                                                                         *)
(* A thread other than the main one is linked in scheme_first_thread's     *)
(* list, so the scheduler can find it, exactly when its word is not empty  *)
(* and SUSPENDED is not in it: weak_suspend unlinks it as it sets the bit, *)
(* weak_resume links it as it clears the bit.                              *)
(***************************************************************************)

Flag == {"RUNNING", "SUSPENDED", "KILLED", "NEED_KILL_CLEANUP", "USER_SUSPENDED"}

\* MZTHREAD_STILL_RUNNING
StillRunning(word) == word # {} /\ "KILLED" \notin word

\* The thread is in the scheduler's queue.
Queued(word) == word # {} /\ "SUSPENDED" \notin word

\* scheme_weak_suspend_thread
WeakSuspend(word) == word \cup {"SUSPENDED"}

\* scheme_weak_resume_thread: a user suspension is stronger than a wake-up.
WeakResume(word) ==
  IF "USER_SUSPENDED" \in word THEN word ELSE word \ {"SUSPENDED"}

\* suspend_thread on a thread that is not the main thread.  One that sleeps
\* in a semaphore's line is woken first, so that it leaves the line before
\* it suspends itself.
UserSuspend(word) ==
  IF {"NEED_KILL_CLEANUP", "SUSPENDED"} \subseteq word
    THEN WeakResume(word) \cup {"USER_SUSPENDED"}
    ELSE WeakSuspend(word \cup {"USER_SUSPENDED"})

\* The last part of thread_resume.
UserResume(word) == WeakResume(word \ {"USER_SUSPENDED"})

\* do_kill_thread on a thread that is not the current one: a thread with
\* something to clean up is woken to do it; one that is queued is removed
\* at once; one that is suspended keeps its flags and never runs again.
Kill(word) ==
  LET killed == (word \ {"USER_SUSPENDED"}) \cup {"KILLED"}
  IN  IF "NEED_KILL_CLEANUP" \in word THEN WeakResume(killed)
      ELSE IF Queued(word) THEN {}
      ELSE killed
=============================================================================
