------------------------------- MODULE MCSync -------------------------------
(* Programs of three threads that are to meet on one channel or two.       *)
EXTENDS Sync

CONSTANTS t1, t2, t3, c1, c2, s1

Get(c) == [kind |-> "get", on |-> c]
Put(c) == [kind |-> "put", on |-> c]
Wait(s) == [kind |-> "sema", on |-> s]
Peek(s) == [kind |-> "peek", on |-> s]

\* sync and its variants
Plain(evts) == [evts |-> evts, timed |-> FALSE, nacks |-> FALSE, enable |-> FALSE]
Timed(evts) == [evts |-> evts, timed |-> TRUE, nacks |-> FALSE, enable |-> FALSE]
Nacks(evts) == [evts |-> evts, timed |-> FALSE, nacks |-> TRUE, enable |-> FALSE]
TimedNacks(evts) == [evts |-> evts, timed |-> TRUE, nacks |-> TRUE, enable |-> FALSE]
EnableBreak(sync) == [sync EXCEPT !.enable = TRUE]

Does(signals, syncs) == [syncs |-> syncs, signals |-> signals]

Meetings == {
  \* Both threads want either side of a meeting, and a third one joins.
  t1 :> Does({"break", "suspend", "kill"}, <<Plain(<<Get(c1), Put(c1)>>)>>)
   @@ t2 :> Does({}, <<Plain(<<Get(c1), Put(c1)>>)>>)
   @@ t3 :> Does({}, <<Plain(<<Put(c1)>>)>>),
  \* Either of two channels.
  t1 :> Does({"break", "suspend"}, <<EnableBreak(Plain(<<Get(c1), Put(c2)>>))>>)
   @@ t2 :> Does({"break"}, <<Plain(<<Put(c1)>>), Plain(<<Get(c2)>>)>>)
   @@ t3 :> Does({}, <<EnableBreak(Plain(<<Get(c2), Put(c1)>>))>>),
  \* A channel or a semaphore.
  t1 :> Does({"break", "suspend"}, <<Plain(<<Wait(s1), Get(c1)>>)>>)
   @@ t2 :> Does({"kill"}, <<Plain(<<Wait(s1), Get(c1)>>)>>)
   @@ t3 :> Does({}, <<Plain(<<Put(c1)>>), Plain(<<Put(c1)>>)>>),
  \* Peeks before and behind a wait in the line of a semaphore.
  t1 :> Does({}, <<Plain(<<Peek(s1), Get(c1)>>)>>)
   @@ t2 :> Does({"break", "kill"}, <<Plain(<<Wait(s1), Get(c1)>>)>>)
   @@ t3 :> Does({}, <<Timed(<<Put(c1), Peek(s1)>>)>>),
  \* Timeouts and nacks.
  t1 :> Does({}, <<TimedNacks(<<Get(c1), Get(c2)>>)>>)
   @@ t2 :> Does({}, <<Timed(<<Put(c1), Put(c2)>>)>>)
   @@ t3 :> Does({}, <<Nacks(<<Put(c2), Wait(s1)>>)>>),
  t1 :> Does({}, <<EnableBreak(Nacks(<<Get(c1), Get(c2)>>))>>)
   @@ t2 :> Does({}, <<EnableBreak(Plain(<<Put(c1), Put(c2)>>)), EnableBreak(Plain(<<Get(c2)>>))>>)
   @@ t3 :> Does({}, <<TimedNacks(<<Put(c2), Wait(s1)>>)>>),
  \* Two meetings in a row, across two channels.
  t1 :> Does({}, <<Plain(<<Get(c1), Wait(s1)>>), Plain(<<Put(c2)>>)>>)
   @@ t2 :> Does({}, <<Plain(<<Put(c1), Get(c2)>>), Plain(<<Put(c1), Get(c2)>>)>>)
   @@ t3 :> Does({"break"}, <<EnableBreak(Plain(<<Get(c2), Get(c1)>>))>>),
  \* A break while the scheduler polls.
  t1 :> Does({}, <<Plain(<<Put(c1)>>)>>)
   @@ t2 :> Does({}, <<Timed(<<Put(c1)>>)>>)
   @@ t3 :> Does({"break", "kill"}, <<TimedNacks(<<Get(c1), Wait(s1)>>)>>)
}

\* They keep what the theorems about Sync ask for.
ASSUME MeetingsAssumption ==
  \A prog \in Meetings : Apart(prog) /\ Attentive(prog) /\ Balanced(prog)

\* A sync on a semaphore and a channel that is woken by a signal.
Signalled == {
  t1 :> Does({"break"}, <<Plain(<<Wait(s1), Get(c1)>>)>>)
   @@ t2 :> Does({}, <<>>) @@ t3 :> Does({}, <<>>)
}

\* A break after a choice, while the scheduler polls, with another in line.
Broken == {
  t1 :> Does({}, <<Plain(<<Get(c1)>>), Plain(<<Get(c1)>>)>>)
   @@ t2 :> Does({"break"}, <<Timed(<<Put(c1)>>)>>)
   @@ t3 :> Does({}, <<Plain(<<Put(c1)>>)>>)
}
=============================================================================
