-------------------------- MODULE PortCommitProofs --------------------------
(***************************************************************************)
(* Proofs about PortCommit, for any number of committers, readers and      *)
(* bytes, any signals, and anything that may happen while a leader lets    *)
(* others run (any Setting): what is proved is what remains true when two  *)
(* threads lead.                                                           *)
(*                                                                         *)
(* IInv is the inductive invariant.  After its definition come one lemma   *)
(* for each action, the ones of the ways into the wait (Refuse, Join and   *)
(* Lead) first, and at the end the theorems.                               *)
(***************************************************************************)
EXTENDS PortCommit, TLAPS

\* A leader is chosen for while it stands in line, and goes on as the leader from
\* between two rounds only.
LeadInv ==
  /\ \A t \in again : pc[t] \in {"window", "poll", "line"}
  /\ \A t \in Committer : choice[t] # Null => pc[t] = "line"

\* The progress events.  A thread whose event is not posted has peeked at the
\* byte that is next, and whoever tries to commit has an event.
ProgressInv ==
  /\ \A t \in watching : at[t] = pos
  /\ \A t \in Committer : pc[t] \notin {"idle", "dead"} => t \in watching \cup posted

\* The inductive invariant.
IInv == TypeOK /\ LeadInv /\ LockIsHeld /\ ListedOrTold /\ ProgressInv

LEMMA InitHolds == Init => IInv
<1> USE CommitAssumption DEF Init
<1>0. Init => crashed \in BOOLEAN
  OBVIOUS
<1>1. Init => TypeOK
  BY <1>0 DEF TypeOK, Where
<1>2. Init => LeadInv /\ LockIsHeld /\ ListedOrTold /\ ProgressInv
  BY DEF LeadInv, LockIsHeld, ListedOrTold, ProgressInv
<1>3. QED BY <1>1, <1>2 DEF IInv

-----------------------------------------------------------------------------
\* post_giveup with a leader chooses for nobody but a thread in line.
LEMMA GiveupPosted ==
  ASSUME TypeOK, LeadInv, leader # Null, post_giveup
  PROVE  /\ choice' \in [Committer -> {Null} \cup (Kind \X Committer)]
         /\ told' \subseteq Committer
         /\ \A t \in Committer : choice'[t] # Null => pc[t] = "line"
BY CommitAssumption DEF TypeOK, LeadInv, post_giveup, Kind

\* Nothing but the flag changes in a crash.
LEMMA CrashStep ==
  ASSUME IInv, Crash
  PROVE  IInv'
<1> USE DEF Crash, IInv, signals, port
<1>1. TypeOK'
  BY DEF TypeOK
<1>2. LeadInv' /\ LockIsHeld' /\ ListedOrTold' /\ ProgressInv'
  BY DEF LeadInv, LockIsHeld, ListedOrTold, ProgressInv
<1>3. QED BY <1>1, <1>2

LEMMA RefuseStep ==
  ASSUME IInv, NEW t \in Committer, Refuse(t), t \in posted,
         pc[t] \in {"peeked", "extra", "window", "paused"},
         won' = won, UNCHANGED <<signals, target, port, at, crashed, may>>
  PROVE  IInv'
<1> USE CommitAssumption DEF Refuse, IInv, TypeOK, signals, port, Where
<1>1. TypeOK'
  BY DEF elect_new_main, LeadInv
<1>2. LeadInv'
  BY DEF LeadInv
<1>3. LockIsHeld'
  BY DEF LockIsHeld
<1>4. ListedOrTold'
  BY DEF ListedOrTold, elect_new_main
<1>5. ProgressInv'
  BY DEF ProgressInv
<1>6. QED BY <1>1, <1>2, <1>3, <1>4, <1>5

LEMMA JoinStep ==
  ASSUME IInv, NEW t \in Committer, Join(t), leader # Null, t \notin again,
         pc[t] \in {"peeked", "extra", "window", "paused"},
         won' = won, UNCHANGED <<signals, target, port, at, crashed, may>>
  PROVE  IInv'
<1> USE CommitAssumption DEF Join, IInv, TypeOK, signals, port, Where
<1>0. /\ choice' \in [Committer -> {Null} \cup (Kind \X Committer)]
      /\ told' \subseteq Committer
      /\ \A u \in Committer : choice'[u] # Null => pc[u] = "line"
  BY GiveupPosted
<1>1. TypeOK'
  BY <1>0
<1>2. LeadInv'
  BY <1>0 DEF LeadInv
<1>3. LockIsHeld'
  BY DEF LockIsHeld
<1>4. ListedOrTold'
  BY DEF ListedOrTold
<1>5. ProgressInv'
  BY DEF ProgressInv
<1>6. QED BY <1>1, <1>2, <1>3, <1>4, <1>5

LEMMA LeadStep ==
  ASSUME IInv, NEW t \in Committer, Lead(t), t \notin posted,
         pc[t] \in {"peeked", "extra", "window", "paused"},
         won' = won, UNCHANGED <<signals, target, port, at, crashed, may>>
  PROVE  IInv'
<1> USE CommitAssumption DEF Lead, IInv, TypeOK, signals, port, Where
<1>1. TypeOK'
  OBVIOUS
<1>2. LeadInv'
  BY DEF LeadInv
<1>3. LockIsHeld'
  BY DEF LockIsHeld, ProgressInv
<1>4. ListedOrTold'
  BY DEF ListedOrTold
<1>5. ProgressInv'
  BY DEF ProgressInv
<1>6. QED BY <1>1, <1>2, <1>3, <1>4, <1>5

LEMMA EnterStep ==
  ASSUME IInv, NEW t \in Committer, Enter(t),
         pc[t] \in {"peeked", "extra", "window", "paused"},
         won' = won, UNCHANGED <<signals, target, port, at, crashed, may>>
  PROVE  IInv'
<1>1. CASE t \in posted
  BY <1>1, RefuseStep DEF Enter
<1>2. CASE t \notin posted /\ t \notin again /\ leader # Null
  BY <1>2, JoinStep DEF Enter
<1>3. CASE t \notin posted /\ ~(t \notin again /\ leader # Null)
  BY <1>3, LeadStep DEF Enter
<1>4. QED BY <1>1, <1>2, <1>3

LEMMA PeekStep ==
  ASSUME IInv, NEW t \in Committer, Peek(t)
  PROVE  IInv'
<1> USE CommitAssumption DEF Peek, IInv, TypeOK, signals, Where
<1>1. TypeOK'
  OBVIOUS
<1>2. LeadInv'
  BY DEF LeadInv
<1>3. LockIsHeld'
  BY DEF LockIsHeld
<1>4. ListedOrTold'
  BY DEF ListedOrTold
<1>5. ProgressInv'
  BY DEF ProgressInv
<1>6. QED BY <1>1, <1>2, <1>3, <1>4, <1>5

LEMMA CommitStep ==
  ASSUME IInv, NEW t \in Committer, Commit(t)
  PROVE  IInv'
BY EnterStep DEF Commit

LEMMA ExtraReturnStep ==
  ASSUME IInv, NEW t \in Committer, ExtraReturn(t)
  PROVE  IInv'
<1>1. CASE won[t] = "no"
  BY <1>1, EnterStep DEF ExtraReturn
<1>2. CASE won[t] # "no"
  <2> USE <1>2, CommitAssumption DEF ExtraReturn, IInv, TypeOK, signals, port, Where
  <2>1. TypeOK' OBVIOUS
  <2>2. LeadInv'
    BY DEF LeadInv
  <2>3. LockIsHeld'
    BY DEF LockIsHeld
  <2>4. ListedOrTold'
    BY DEF ListedOrTold
  <2>5. ProgressInv'
    BY DEF ProgressInv
  <2>6. QED BY <2>1, <2>2, <2>3, <2>4, <2>5
<1>3. QED BY <1>1, <1>2

LEMMA ReenterStep ==
  ASSUME IInv, NEW t \in Committer, Reenter(t)
  PROVE  IInv'
BY EnterStep DEF Reenter

LEMMA GetInLineStep ==
  ASSUME IInv, NEW t \in Committer, GetInLine(t)
  PROVE  IInv'
<1> USE CommitAssumption DEF GetInLine, IInv, TypeOK, signals, port, Where
<1>0. \A c \in Choices(t) : c \in Kind \X Committer
  BY DEF Choices, Kind
<1>1. TypeOK'
  BY <1>0
<1>2. LeadInv'
  BY DEF LeadInv
<1>3. LockIsHeld'
  BY DEF LockIsHeld
<1>4. ListedOrTold'
  BY DEF ListedOrTold
<1>5. ProgressInv'
  BY DEF ProgressInv
<1>6. QED BY <1>1, <1>2, <1>3, <1>4, <1>5

LEMMA PostStep ==
  ASSUME IInv, NEW u \in Committer, Post(u)
  PROVE  IInv'
<1> USE CommitAssumption DEF IInv, TypeOK, signals, port
<1>1. /\ target' \subseteq Committer
      /\ \/ choice' = choice
         \/ \E t \in Committer, c \in Kind \X Committer :
              pc[t] = "line" /\ choice' = [choice EXCEPT ![t] = c]
  BY DEF Post, Kind
<1>2. UNCHANGED <<leader, extras, abandoned, woken, won, pc, helps, told, again,
                  signals, port, at, result, lock, crashed, may>>
  BY DEF Post
<1>3. TypeOK'
  BY <1>1, <1>2
<1>4. LeadInv'
  BY <1>1, <1>2 DEF LeadInv
<1>5. LockIsHeld' /\ ListedOrTold' /\ ProgressInv'
  BY <1>2 DEF LockIsHeld, ListedOrTold, ProgressInv
<1>6. QED BY <1>3, <1>4, <1>5

LEMMA ReadStep ==
  ASSUME IInv, NEW r \in Reader, Read(r)
  PROVE  IInv'
<1> USE CommitAssumption DEF Read, IInv, TypeOK, signals
<1>1. CASE leader # Null
  <2>0. /\ choice' \in [Committer -> {Null} \cup (Kind \X Committer)]
        /\ told' \subseteq Committer
        /\ \A t \in Committer : choice'[t] # Null => pc[t] = "line"
    BY <1>1, GiveupPosted
  <2>1. TypeOK'
    BY <1>1, <2>0 DEF port
  <2>2. LeadInv'
    BY <1>1, <2>0 DEF LeadInv
  <2>3. LockIsHeld' /\ ListedOrTold' /\ ProgressInv'
    BY <1>1 DEF LockIsHeld, ListedOrTold, ProgressInv, port
  <2>4. QED BY <2>1, <2>2, <2>3
<1>2. CASE leader = Null
  <2>1. TypeOK'
    BY <1>2 DEF take
  <2>2. LeadInv'
    BY <1>2 DEF LeadInv
  <2>3. LockIsHeld' /\ ListedOrTold' /\ ProgressInv'
    BY <1>2 DEF LockIsHeld, ListedOrTold, ProgressInv, take
  <2>4. QED BY <2>1, <2>2, <2>3
<1>3. QED BY <1>1, <1>2

\* When the lock is released, no reader waits for it any more.
LEMMA Released ==
  ASSUME IInv, release_input_lock
  PROVE  /\ leader' = Null
         /\ lock' \in [Reader -> {"idle", "want", Orphan} \cup Committer]
         /\ \A r \in Reader : lock'[r] \in {"idle", "want", Orphan}
BY DEF IInv, TypeOK, LockIsHeld, release_input_lock

LEMMA LeadReturnStep ==
  ASSUME IInv, NEW t \in Committer, LeadReturn(t)
  PROVE  IInv'
<1> USE CommitAssumption DEF IInv, TypeOK, signals, Where
<1>1. CASE leader = Null
  BY <1>1, CrashStep DEF LeadReturn
<1>2. CASE leader # Null
  <2>0. /\ pc[t] = "line"
        /\ CommitOwn(t) \/ CommitOther(t) \/ GiveUp(t)
        /\ choice' = [choice EXCEPT ![t] = Null]
        /\ helps' = [helps EXCEPT ![t] = {}]
        /\ told' = told \ {t}
        /\ frozen' = frozen \cup (suspended \cap {t})
        /\ UNCHANGED <<suspended, target, at, crashed, may>>
    BY <1>2 DEF LeadReturn
  <2>1. /\ leader' = Null
        /\ lock' \in [Reader -> {"idle", "want", Orphan} \cup Committer]
        /\ \A r \in Reader : lock'[r] \in {"idle", "want", Orphan}
    BY <1>2, Released DEF LeadReturn
  <2>2. CASE CommitOwn(t) \/ CommitOther(t)
    <3> USE <2>2 DEF CommitOwn, CommitOther
    <3>1. /\ extras' = {} /\ abandoned' = {}
          /\ woken' = woken \cup {u \in extras : pc[u] = "extra"}
      BY DEF elect_new_main
    <3>2. /\ pos' \in 0..MaxPos
          /\ watching' \cup posted' = watching \cup posted
          /\ watching' \cap posted' = {}
          /\ watching' # {} => UNCHANGED port
      BY DEF complete_peeked_read, take, port
    <3>3. /\ pc' = [pc EXCEPT ![t] = "idle"] /\ again' = again \ {t}
          /\ result' \in [Committer -> {"none", "committed", "refused"}]
      OBVIOUS
    <3>4. won' \in [Committer -> {"yes", "no", "empty"}]
      <4>1. CASE CommitOwn(t)
        BY <4>1 DEF CommitOwn
      <4>2. CASE CommitOther(t)
        <5>1. \E v \in {"yes", "no", "empty"} : \E u : won' \in {won, [won EXCEPT ![u] = v]}
          BY <4>2 DEF CommitOther
        <5>2. QED BY <5>1
      <4>3. QED BY <2>2, <4>1, <4>2
    <3>5. TypeOK'
      <4>1. /\ extras' \subseteq Committer /\ abandoned' \subseteq Committer
            /\ woken' \subseteq {u \in Committer : pc'[u] = "extra"}
            /\ pc' \in [Committer -> Where]
        BY <2>0, <3>1, <3>3
      <4>2. /\ choice' \in [Committer -> {Null} \cup (Kind \X Committer)]
            /\ helps' \in [Committer -> SUBSET Committer]
            /\ told' \subseteq Committer /\ again' \subseteq Committer
            /\ frozen' \subseteq suspended' /\ suspended' \subseteq Committer
            /\ target' \subseteq Committer
        BY <2>0, <3>3
      <4>3. /\ pos' \in 0..MaxPos /\ at' \in [Committer -> 0..MaxPos]
            /\ watching' \subseteq Committer /\ posted' \subseteq Committer
            /\ watching' \cap posted' = {}
        BY <2>0, <3>2
      <4>4. QED BY <2>0, <2>1, <3>3, <3>4, <4>1, <4>2, <4>3
    <3>6. LeadInv'
      BY <2>0, <3>3 DEF LeadInv
    <3>7. LockIsHeld'
      BY <2>1 DEF LockIsHeld
    <3>8. ListedOrTold'
      BY <3>1, <3>3 DEF ListedOrTold
    <3>9. ProgressInv'
      BY <2>0, <3>2, <3>3 DEF ProgressInv, port
    <3>10. QED BY <3>5, <3>6, <3>7, <3>8, <3>9
  <2>3. CASE GiveUp(t)
    <3> USE <2>0, <2>1, <2>3 DEF GiveUp, port, elect_new_main, elect_none
    <3>1. TypeOK' OBVIOUS
    <3>2. LeadInv'
      BY DEF LeadInv
    <3>3. LockIsHeld'
      BY DEF LockIsHeld
    <3>4. ListedOrTold'
      BY DEF ListedOrTold
    <3>5. ProgressInv'
      BY DEF ProgressInv
    <3>6. QED BY <3>1, <3>2, <3>3, <3>4, <3>5
  <2>4. QED BY <2>0, <2>2, <2>3
<1>3. QED BY <1>1, <1>2

\* A break or a kill that takes a thread out of its wait, or a leader from
\* between two rounds.
LEMMA LeaveStep ==
  ASSUME IInv, NEW t \in Committer, NEW where \in {"idle", "dead"},
         Signalled(t), Leave(t, where)
  PROVE  IInv'
<1> USE CommitAssumption DEF IInv, TypeOK, port, Where
<1>1. CASE Waits(t) /\ leader = Null
  BY <1>1, CrashStep DEF Leave
<1>2. CASE ~(Waits(t) /\ leader = Null)
  <2>0. /\ pc' = [pc EXCEPT ![t] = where] /\ again' = again \ {t}
        /\ helps' = [helps EXCEPT ![t] = {}]
        /\ suspended' = suspended \ {t} /\ frozen' = frozen \ {t}
        /\ UNCHANGED <<target, port, at, result, crashed, may>>
    BY <1>2 DEF Leave
  <2>1. CASE pc[t] = "extra"
    <3>1. remove_extra(t) /\ leader # Null
      BY <1>2, <2>1 DEF Leave, Waits
    <3>2. /\ choice' \in [Committer -> {Null} \cup (Kind \X Committer)]
          /\ told' \subseteq Committer
          /\ \A u \in Committer : choice'[u] # Null => pc[u] = "line"
      BY <3>1, GiveupPosted DEF remove_extra
    <3> USE <2>0, <2>1, <3>1, <3>2 DEF remove_extra
    <3>3. TypeOK' OBVIOUS
    <3>4. LeadInv'
      BY DEF LeadInv
    <3>5. LockIsHeld'
      BY DEF LockIsHeld
    <3>6. ListedOrTold'
      BY DEF ListedOrTold
    <3>7. ProgressInv'
      BY DEF ProgressInv
    <3>8. QED BY <3>3, <3>4, <3>5, <3>6, <3>7
  <2>2. CASE pc[t] \in {"poll", "line"}
    <3>1. release_input_lock_and_elect_new_main(t)
      BY <1>2, <2>2 DEF Leave
    <3>2. /\ leader' = Null
          /\ lock' \in [Reader -> {"idle", "want", Orphan} \cup Committer]
          /\ \A r \in Reader : lock'[r] \in {"idle", "want", Orphan}
      BY <3>1, Released DEF release_input_lock_and_elect_new_main
    <3> USE <2>0, <2>2, <3>1, <3>2 DEF release_input_lock_and_elect_new_main, elect_new_main
    <3>3. TypeOK' OBVIOUS
    <3>4. LeadInv'
      BY DEF LeadInv
    <3>5. LockIsHeld'
      BY DEF LockIsHeld
    <3>6. ListedOrTold'
      BY DEF ListedOrTold
    <3>7. ProgressInv'
      BY DEF ProgressInv
    <3>8. QED BY <3>3, <3>4, <3>5, <3>6, <3>7
  <2>3. CASE InWindow(t)
    <3>1. UNCHANGED <<leader, extras, abandoned, woken, won, choice, told, lock>>
      BY <1>2, <2>3 DEF Leave, InWindow
    <3> USE <2>0, <2>3, <3>1 DEF InWindow
    <3>2. TypeOK' OBVIOUS
    <3>3. LeadInv'
      BY DEF LeadInv
    <3>4. LockIsHeld'
      BY DEF LockIsHeld
    <3>5. ListedOrTold'
      BY DEF ListedOrTold
    <3>6. ProgressInv'
      BY DEF ProgressInv
    <3>7. QED BY <3>2, <3>3, <3>4, <3>5, <3>6
  <2>4. QED BY <2>1, <2>2, <2>3 DEF Signalled, Waits
<1>3. QED BY <1>1, <1>2

LEMMA SuspendStep ==
  ASSUME IInv, NEW t \in Committer, Suspend(t)
  PROVE  IInv'
<1> USE CommitAssumption DEF Suspend, IInv, TypeOK, port
<1>1. TypeOK'
  BY DEF Kind
<1>2. LeadInv'
  BY DEF LeadInv
<1>3. LockIsHeld' /\ ListedOrTold' /\ ProgressInv'
  BY DEF LockIsHeld, ListedOrTold, ProgressInv
<1>4. QED BY <1>1, <1>2, <1>3

LEMMA ResumeStep ==
  ASSUME IInv, NEW t \in Committer, Resume(t)
  PROVE  IInv'
<1> USE DEF Resume, IInv, port
<1>1. TypeOK'
  BY DEF TypeOK
<1>2. LeadInv' /\ LockIsHeld' /\ ListedOrTold' /\ ProgressInv'
  BY DEF LeadInv, LockIsHeld, ListedOrTold, ProgressInv
<1>3. QED BY <1>1, <1>2

LEMMA StutterStep ==
  ASSUME IInv, UNCHANGED vars
  PROVE  IInv'
BY DEF vars, port, signals, IInv, TypeOK, LeadInv, LockIsHeld, ListedOrTold, ProgressInv

-----------------------------------------------------------------------------
LEMMA StepHolds ==
  ASSUME IInv, [Next]_vars
  PROVE  IInv'
<1>1. CASE UNCHANGED vars
  BY <1>1, StutterStep
<1>2. CASE \E r \in Reader : Read(r)
  BY <1>2, ReadStep
<1>3. ASSUME NEW t \in Committer, Break(t) \/ Kill(t)
      PROVE  IInv'
  BY <1>3, LeaveStep DEF Break, Kill
<1>4. ASSUME NEW t \in Committer,
             Peek(t) \/ Commit(t) \/ ExtraReturn(t) \/ GetInLine(t) \/ LeadReturn(t)
               \/ Reenter(t) \/ Post(t) \/ Suspend(t) \/ Resume(t)
      PROVE  IInv'
  BY <1>4, PeekStep, CommitStep, ExtraReturnStep, GetInLineStep, LeadReturnStep,
    ReenterStep, PostStep, SuspendStep, ResumeStep
<1>5. QED BY <1>1, <1>2, <1>3, <1>4 DEF Next

LEMMA IInvAlways == Spec => []IInv
<1>1. Init => IInv
  BY InitHolds
<1>2. IInv /\ [Next]_vars => IInv'
  BY StepHolds
<1>3. QED BY <1>1, <1>2, PTL DEF Spec

-----------------------------------------------------------------------------
\* The step in which a thread that was chosen for its own target gets "committed"
\* is its return from the wait.
LEMMA OwnCommit ==
  ASSUME IInv, [Next]_vars, NEW t \in Committer,
         choice[t] = <<"target", t>>, result'[t] = "committed", result[t] # "committed"
  PROVE  LeadReturn(t) /\ CommitOwn(t)
<1> USE CommitAssumption DEF IInv, TypeOK
<1>1. ~UNCHANGED vars /\ Next
  BY DEF vars
<1>2. ~ \E r \in Reader : Read(r)
  BY DEF Read
<1>3. \A u \in Committer : ~Enter(u)
  BY DEF Enter, Refuse, Join, Lead
<1>4. \A u \in Committer : ~(Peek(u) \/ Commit(u) \/ GetInLine(u) \/ Reenter(u)
                             \/ Post(u) \/ Suspend(u) \/ Resume(u))
  BY <1>3 DEF Peek, Commit, GetInLine, Reenter, Post, Suspend, Resume
<1>5. ~Crash
  BY DEF Crash
<1>6. \A u \in Committer : ~(Break(u) \/ Kill(u))
  BY <1>5 DEF Break, Kill, Leave
<1>7. pc[t] = "line"
  <2>1. choice[t] # Null
    BY ChoiceAssumption DEF Kind
  <2>2. QED BY <2>1 DEF LeadInv
<1>8. \A u \in Committer : ~ExtraReturn(u)
  BY <1>3, <1>7 DEF ExtraReturn
<1>9. PICK u \in Committer : LeadReturn(u)
  BY <1>1, <1>2, <1>4, <1>6, <1>8 DEF Next
<1>10. CommitOwn(u) \/ CommitOther(u) \/ GiveUp(u)
  BY <1>5, <1>9 DEF LeadReturn
<1>11. u = t
  BY <1>10 DEF CommitOwn, CommitOther, GiveUp
<1>12. CommitOwn(t)
  BY <1>10, <1>11 DEF CommitOther, ForAnother, GiveUp
<1>13. QED BY <1>9, <1>11, <1>12

LEMMA OwnRight ==
  ASSUME IInv, [Next]_vars, NEW t \in Committer, leader = t,
         choice[t] = <<"target", t>>, result'[t] = "committed", result[t] # "committed"
  PROVE  pos = at[t] /\ pos' = pos + 1
<1> USE CommitAssumption DEF IInv, TypeOK
<1>1. CommitOwn(t)
  BY OwnCommit
<1>2. at[t] = pos
  BY DEF LockIsHeld
<1>3. pos < MaxPos /\ complete_peeked_read
  BY <1>1 DEF CommitOwn
<1>4. QED BY <1>2, <1>3 DEF complete_peeked_read, take

-----------------------------------------------------------------------------
\* The bookkeeping of commits stays in range, whatever breaks, kills, suspensions
\* and commits come between two rounds of a leader.
THEOREM TypeCorrect == Spec => []TypeOK
<1>1. IInv => TypeOK
  BY DEF IInv
<1>2. QED BY <1>1, IInvAlways, PTL

\* While there is a lock, its thread is in the wait that will release it, and the
\* byte it peeked at is kept for it, though other threads may think they lead;
\* and no reader waits for a lock that was released.
THEOREM LockHeld == Spec => []LockIsHeld
<1>1. IInv => LockIsHeld
  BY DEF IInv
<1>2. QED BY <1>1, IInvAlways, PTL

\* Whoever waits for a leader is in the list that the next leader will look at, or
\* has been told to look for itself, whichever way the leaders before went.
THEOREM RequestsKept == Spec => []ListedOrTold
<1>1. IInv => ListedOrTold
  BY DEF IInv
<1>2. QED BY <1>1, IInvAlways, PTL

\* The thread that holds the lock and commits for itself takes the byte it peeked
\* at, in the step in which it succeeds.
THEOREM OwnCommitRight == Spec => OwnCommitsRight
<1> DEFINE Right ==
      \A t \in Committer : OwnCommitted(t) => pos = at[t] /\ pos' = pos + 1
<1>1. IInv /\ [Next]_vars => [Right]_vars
  BY OwnRight DEF OwnCommitted
<1>2. QED BY <1>1, IInvAlways, PTL DEF Spec, OwnCommitsRight
=============================================================================
