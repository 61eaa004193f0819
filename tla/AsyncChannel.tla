---------------------------- MODULE AsyncChannel ----------------------------
(***************************************************************************)
(* The buffered asynchronous channels of MzLib (async-channel.ss): a       *)
(* manager thread with a queue, which meets its users on four synchronous  *)
(* channels.  Module Sync has those meetings in detail; here one is a      *)
(* step.  The manager is a thread/suspend-to-kill thread, and every        *)
(* operation resumes it with the calling thread, so that no custodian but  *)
(* the users' own has a hold on it; the part of module Custodian that      *)
(* matters for this is here with custodians that are all children of the   *)
(* root.                                                                   *)
(***************************************************************************)
EXTENDS Integers, Sequences, FiniteSets, SequencesExt

CONSTANTS
  User,       \* threads that use the channel
  Value,
  Custodian,
  Home,       \* [User -> Custodian]: where each was made
  Creator,    \* the custodian in which make-async-channel was called
  Limits,     \* the limits to make channels with, 0 for none
  MaxQueue,   \* bound on the values put into a channel without a limit
  Operation,  \* the operations that are used
  Early,      \* whether a thread may get other custodians before it first
              \* uses the channel
  Manager, Null

ASSUME AsyncAssumption ==
  /\ Home \in [User -> Custodian] /\ Creator \in Custodian
  /\ Limits \subseteq Nat /\ MaxQueue \in Nat
  /\ Operation \subseteq {"get", "try-get", "put", "try-put"}
  /\ Early \in BOOLEAN
  /\ Manager \notin User
  /\ Null \notin Value /\ Value \cap {"done", "fail"} = {}

VARIABLES
  limit,
  queue,      \* queue-first, without the pair at its end
  met,        \* what the manager's last sync chose, until it is handled
  call,       \* what each user asks for: [op, arg]
  answer,     \* what its sync chose, Null while it waits
  managers,   \* the custodians of each thread, the main one first
  suspended,  \* the manager thread is suspended
  yoked,      \* the users in whose transitive_resumes the manager is
  shut_down

channel == <<limit, queue, met, call, answer>>
threads == <<managers, suspended, yoked, shut_down>>
vars == <<limit, queue, met, call, answer, managers, suspended, yoked, shut_down>>

Gets == {"get", "try-get"}
Puts == {"put", "try-put"}
NoCall == [op |-> "none", arg |-> Null]
Nothing == [with |-> "none", arg |-> Null]

Alive(u) == managers[u] # <<>>

Waits(u, ops) == call[u].op \in ops /\ answer[u] = Null

-----------------------------------------------------------------------------
\* Threads and their custodians (thread.c).

\* promote_thread, for custodians none of which is above another.
Promoted(ms, c) ==
  IF ms = <<>> THEN <<c>>
  ELSE IF Contains(ms, c) THEN ms
  ELSE <<Head(ms), c>> \o Tail(ms)

\* Mutant: the manager is resumed, but with the custodians it has.
thread_resume_alone(u) ==
  /\ suspended' = (managers[Manager] = <<>>)
  /\ UNCHANGED <<managers, yoked, shut_down>>

\* (thread-resume manager (current-thread)), which hands on the main custodian
\* of the current thread only.
thread_resume(u) ==
  /\ managers' = [managers EXCEPT ![Manager] = Promoted(@, Head(managers[u]))]
  /\ yoked' = yoked \cup {u}
  /\ suspended' = FALSE
  /\ UNCHANGED shut_down

\* (thread-resume u c): a thread gets another custodian, and with it the
\* threads that are yoked to it.
Adopt(u, c) ==
  /\ Alive(u) /\ c \notin shut_down
  /\ ~Contains(managers[u], c)
  /\ Early \/ u \in yoked
  /\ managers' = [t \in DOMAIN managers |->
                   IF t = u \/ (t = Manager /\ u \in yoked)
                   THEN Promoted(managers[t], c) ELSE managers[t]]
  /\ UNCHANGED <<channel, suspended, yoked, shut_down>>

\* (No custodian is twice among the ones of a thread.)
Left(ms, c) ==
  IF Contains(ms, c) THEN RemoveAt(ms, CHOOSE i \in DOMAIN ms : ms[i] = c) ELSE ms

\* custodian-shutdown-all.  The users that have no other custodian are killed,
\* wherever they are, and the manager is suspended, wherever it is.
Shutdown(c) ==
  /\ c \notin shut_down
  /\ shut_down' = shut_down \cup {c}
  /\ managers' = [t \in DOMAIN managers |-> Left(managers[t], c)]
  /\ suspended' = (suspended \/ (managers[Manager] # <<>> /\ managers'[Manager] = <<>>))
  /\ call' = [u \in User |-> IF managers'[u] = <<>> THEN NoCall ELSE call[u]]
  /\ answer' = [u \in User |-> IF managers'[u] = <<>> THEN Null ELSE answer[u]]
  /\ yoked' = {u \in yoked : managers'[u] # <<>>}
  /\ UNCHANGED <<limit, queue, met>>

-----------------------------------------------------------------------------
\* The manager: which events each round of its loop syncs on.

\* Mutant: one value more is let in.
MayEnqueue_late == limit = 0 \/ Len(queue) <= limit

MayEnqueue == queue = <<>> \/ limit = 0 \/ Len(queue) < limit

MayDequeue == queue # <<>>

\* Mutant: a poll for a value does not wait for the empty channel.
TellsEmpty_never == FALSE

TellsEmpty == queue = <<>>

TellsFull == queue # <<>> /\ ~MayEnqueue

\* The manager's sync and a user's choose each other.
Meets(u, with, arg, value) ==
  /\ met = Nothing /\ ~suspended
  /\ met' = [with |-> with, arg |-> arg]
  /\ answer' = [answer EXCEPT ![u] = value]
  /\ UNCHANGED <<limit, queue, call, threads>>

MeetPut(u) == Waits(u, Puts) /\ MayEnqueue /\ Meets(u, "enqueue", call[u].arg, "done")

MeetGet(u) == Waits(u, Gets) /\ MayDequeue /\ Meets(u, "dequeue", Null, Head(queue))

\* A poll gets the semaphore that is never ready.
MeetPoll(u) ==
  /\ \/ Waits(u, {"try-get"}) /\ TellsEmpty
     \/ Waits(u, {"try-put"}) /\ TellsFull
  /\ Meets(u, "tell", Null, "fail")

Meet(u) == MeetPut(u) \/ MeetGet(u) \/ MeetPoll(u)

\* Mutant: a value that was handed out stays in the queue.
Handled_keep ==
  IF met.with = "enqueue" THEN Append(queue, met.arg) ELSE queue

\* The handlers of enqueue and mk-dequeue.
Handled ==
  CASE met.with = "enqueue" -> Append(queue, met.arg)
    [] met.with = "dequeue" -> Tail(queue)
    [] met.with \in {"tell", "none"} -> queue

\* The manager runs the handler and goes round its loop.
Loop ==
  /\ met # Nothing /\ ~suspended
  /\ queue' = Handled
  /\ met' = Nothing
  /\ UNCHANGED <<limit, call, answer, threads>>

-----------------------------------------------------------------------------
\* The users.

\* A user resumes the manager and waits for it: async-channel-get or -put, a
\* sync on the channel or on an async-channel-put-evt; or the same as a poll,
\* which waits for the manager (poll->ch) all the same.
Call(u, op, v) ==
  /\ Alive(u) /\ call[u] = NoCall
  /\ op \in Puts /\ limit = 0 =>
       Len(queue) + Cardinality({t \in User : call[t].op \in Puts}) < MaxQueue
  /\ call' = [call EXCEPT ![u] = [op |-> op, arg |-> v]]
  /\ thread_resume(u)
  /\ UNCHANGED <<limit, queue, met, answer>>

Ends(u) ==
  /\ call' = [call EXCEPT ![u] = NoCall]
  /\ answer' = [answer EXCEPT ![u] = Null]
  /\ UNCHANGED <<limit, queue, met, threads>>

\* The call returns what the sync chose.
Return(u) == answer[u] # Null /\ Ends(u)

\* A break, or a timeout, ends the wait.  A break can also come between the
\* inner sync of a poll, or any sync that is not /enable-break, and the return.
Break(u) == call[u] # NoCall /\ Ends(u)

-----------------------------------------------------------------------------
\* make-async-channel
Init ==
  /\ limit \in Limits
  /\ queue = <<>> /\ met = Nothing
  /\ call = [u \in User |-> NoCall]
  /\ answer = [u \in User |-> Null]
  /\ managers = [t \in User \cup {Manager} |->
                  IF t = Manager THEN <<Creator>> ELSE <<Home[t]>>]
  /\ suspended = FALSE
  /\ yoked = {}
  /\ shut_down = {}

Next ==
  \/ Loop
  \/ \E u \in User :
       \/ \E op \in Operation \cap Gets : Call(u, op, Null)
       \/ \E op \in Operation \cap Puts, v \in Value : Call(u, op, v)
       \/ MeetPut(u) \/ MeetGet(u) \/ MeetPoll(u)
       \/ Return(u) \/ Break(u)
       \/ \E c \in Custodian : Adopt(u, c)
  \/ \E c \in Custodian : Shutdown(c)

Spec == Init /\ [][Next]_vars

\* Assumed of the scheduler: the manager gets to run unless it is suspended, and
\* a user that may return does.  Users stand in line at a channel, and a sync
\* starts at a random one of its events, so that nobody is passed over for ever.
Fairness ==
  /\ WF_vars(Loop)
  /\ \A u \in User : SF_vars(Meet(u)) /\ WF_vars(Return(u))

FairSpec == Spec /\ Fairness

-----------------------------------------------------------------------------
\* The bookkeeping is in range, and a value is taken only where there is one.
TypeOK ==
  /\ limit \in Limits
  /\ queue \in Seq(Value)
  /\ limit > 0 => Len(queue) <= limit
  /\ met.with \in {"none", "enqueue", "dequeue", "tell"}
  /\ met.with = "enqueue" <=> met.arg # Null
  /\ met.with = "dequeue" => queue # <<>>
  /\ \A u \in User : call[u].op \in Operation \cup {"none"}
                     /\ (call[u] = NoCall => answer[u] = Null)
  /\ \A t \in DOMAIN managers : ToSet(managers[t]) \subseteq Custodian \ shut_down
  /\ yoked \subseteq User

\* The manager does not stop while somebody waits for it, whichever custodians
\* are shut down: "from the user's perspective, [it] is not bound by any
\* custodian at all" (async-channel.ss:64-68).
ManagerRunsForUsers ==
  \A u \in User : Waits(u, Gets \cup Puts) => ~suspended

\* What is in the queue, with what the manager has yet to do to it.
Abstract == INSTANCE AbstractQueue WITH content <- Handled

\* Whatever happens between the calls, the meetings and the manager's handlers,
\* shutdowns that stop the manager between the two included, the channel is a
\* queue: no value is lost, doubled or overtaken, the limit holds, and a poll
\* fails only when there was nothing, or no room.
ImplementsQueue == Abstract!Spec

\* A thread that waits for a value gets one if there are any left, one that
\* waits for room gets room if any is left, and a poll ends, although it blocks
\* until the manager answers.
WaitersServed ==
  \A u \in User :
    /\ Waits(u, {"try-get", "try-put"}) ~> ~Waits(u, {"try-get", "try-put"})
    /\ Waits(u, Gets) /\ Handled # <<>> ~> ~Waits(u, Gets) \/ Handled = <<>>
    /\ Waits(u, Puts) /\ ~Abstract!Full ~> ~Waits(u, Puts) \/ Abstract!Full
=============================================================================
