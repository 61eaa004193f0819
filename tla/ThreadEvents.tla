---------------------------- MODULE ThreadEvents ----------------------------
(***************************************************************************)
(* thread-suspend-evt, thread-resume-evt and thread-dead-evt (thread.c).   *)
(* A thread keeps one box of each kind, which it shows to whoever asks and *)
(* replaces as its life goes on, by what programs, other threads that it   *)
(* is yoked to and custodians do to it: Custodian says when.  Here one     *)
(* thread is watched, by one kind of event; programs may hold an event     *)
(* that is not the thread's box any more.                                  *)
(***************************************************************************)
EXTENDS Custodian

CONSTANT Watch   \* the pairs of a thread and a kind that may be watched

ASSUME WatchAssumption == Watch \subseteq Thread \X {"suspend", "resume", "dead"}

VARIABLES
  watch,   \* the member of Watch
  box,     \* suspended_box, resumed_box or dead_box: "none", "waits" or "ready"
  evt      \* the program's event: "none", the thread's "box", or one that is
           \* not its box any more and "waits" or is "ready"

evtVars == <<watch, box, evt>>

Kind(k) == watch[2] = k
From == life[watch[1]]
To == life'[watch[1]]

Suspends == From = "running" /\ To = "suspended"
Resumes == From = "suspended" /\ To = "running"
Dies == Alive(watch[1]) /\ To = "dead"

\* scheme_post_sema_all
Posted ==
  \/ Suspends /\ Kind("suspend")
  \/ Resumes /\ Kind("resume")
  \/ Dies /\ Kind("dead")

\* Mutant: a thread that is suspended keeps the box that says that it runs.
ReplacedOnResume ==
  \/ Resumes /\ Kind("suspend")
  \/ Dies /\ ~Kind("dead")

\* The field is set to NULL.
Replaced ==
  \/ Suspends /\ Kind("resume")
  \/ Resumes /\ Kind("suspend")
  \/ Dies /\ ~Kind("dead")

\* What suspend_thread, thread_resume and thread_is_dead do to the boxes.  (A
\* thread that is killed while it is suspended is not removed, and none is
\* posted.)
BoxesFollow ==
  /\ box' = IF Replaced THEN "none"
            ELSE IF Posted /\ box # "none" THEN "ready" ELSE box
  /\ evt' = IF Replaced /\ evt = "box" THEN box ELSE evt
  /\ UNCHANGED watch

\* A new box shows that the thread is suspended, or runs, or is dead.
Shows ==
  \/ Kind("suspend") /\ From = "suspended"
  \/ Kind("resume") /\ From = "running"
  \/ Kind("dead") /\ From \in {"dead", "killed"}

MakeEvt ==
  /\ evt = "none" /\ From # "new"
  /\ box' = IF box # "none" THEN box ELSE IF Shows THEN "ready" ELSE "waits"
  /\ evt' = "box"
  /\ UNCHANGED <<vars, watch>>

\* The program drops it.
DropEvt ==
  /\ evt # "none"
  /\ evt' = "none"
  /\ UNCHANGED <<vars, watch, box>>

EvtInit == Init /\ watch \in Watch /\ box = "none" /\ evt = "none"

\* Next of Custodian, with the boxes of the thread that is watched.
EvtNext ==
  \/ \E c \in Custodian :
       \/ c # Root /\ MakeCustodian(c) /\ BoxesFollow
       \/ Lose(c) /\ BoxesFollow
       \/ Collect(c) /\ BoxesFollow
       \/ Shutdown(c) /\ BoxesFollow
       \/ \E t \in Thread : MakeThread(t, c) /\ BoxesFollow
       \/ \E t \in Thread : ResumeUnder(t, c) /\ BoxesFollow
  \/ \E t \in Thread :
       \/ KillThread(t) /\ BoxesFollow
       \/ End(t) /\ BoxesFollow
       \/ ThreadSuspend(t) /\ BoxesFollow
       \/ ThreadResume(t) /\ BoxesFollow
       \/ \E to \in Thread : ResumeWith(t, to) /\ BoxesFollow
  \/ MakeEvt \/ DropEvt

EvtSpec == EvtInit /\ [][EvtNext]_<<vars, evtVars>>

-----------------------------------------------------------------------------
\* resume_suspend_ready, dead_ready
Ready == evt = "ready" \/ (evt = "box" /\ box = "ready")

Holds ==
  \/ Kind("suspend") /\ From = "suspended"
  \/ Kind("resume") /\ From = "running"
  \/ Kind("dead") /\ From = "dead"

\* An event of a thread is ready when it is made if the thread is suspended, or
\* runs, or is dead, right then; after that it gets ready when that comes true
\* the next time, by whomever, and stays so through all that happens to the
\* thread.  (thread_resume, suspend_thread, thread_is_dead and the boxes that
\* are made and replaced in between.  Of a thread that was killed while it was
\* suspended nothing is said.)
EventsTell ==
  [][/\ (evt # "none" /\ evt' # "none") => (Ready' <=> (Ready \/ (Holds' /\ ~Holds)))
     /\ (evt = "none" /\ evt' # "none" /\ From # "killed") => (Ready' <=> Holds)
    ]_<<vars, evtVars>>

\* "contains non-zero when the thread is dead" (scheme.h, of dead_box): a
\* thread-dead-evt is ready when the thread was killed, suspended or not.
DeadIsTold ==
  (Kind("dead") /\ evt # "none" /\ From \in {"dead", "killed"}) => Ready
=============================================================================
