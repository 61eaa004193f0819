----------------------------- MODULE Custodian -----------------------------
(***************************************************************************)
(* Custodians and the threads they manage (thread.c).  Custodians form a   *)
(* tree by weak links, and are kept in one global list in which a family   *)
(* is meant to stay together, so that a shutdown can go through it back to *)
(* front.  A custodian that the program has lost is collected, and leaves  *)
(* its children and its threads to its parent.  A thread has a main        *)
(* custodian and extra ones, and dies with the last of them.               *)
(***************************************************************************)
EXTENDS Integers, Sequences, FiniteSets, SequencesExt

CONSTANTS
  Custodian,
  Root,            \* main_custodian
  Under,           \* [Custodian \ {Root} -> Custodian]: under which one it is made
  Thread,
  SuspendToKill,   \* the threads made by thread/suspend-to-kill
  Null,
  Op               \* what programs do: a subset of the names in Next

ASSUME CustodianAssumption ==
  /\ Root \in Custodian /\ Null \notin Custodian
  /\ IsFiniteSet(Custodian) /\ IsFiniteSet(Thread)
  /\ Under \in [Custodian \ {Root} -> Custodian]
  /\ SuspendToKill \subseteq Thread
  /\ Op \subseteq {"collect", "reuse", "control", "promote", "yoke"}

VARIABLES
  held,         \* "none", "held" by the program, "lost" or "gone", per custodian
  shut_down,    \* the custodians whose shut_down is set
  links,        \* the weak links of the custodians, and last_custodian
  managers,     \* [Thread -> Seq(Custodian or Null)]: mref's, then extra_mrefs'
  life,         \* of a thread; "killed" is one that was killed while suspended
  yoked         \* [Thread -> SUBSET Thread]: transitive_resumes

vars == <<held, shut_down, links, managers, life, yoked>>

-----------------------------------------------------------------------------
\* The links.

NoLink == [c \in Custodian |-> Null]

\* c, the custodian that link leads to from there, and so on.
Path(link, c) ==
  LET walk[k \in 0..Cardinality(Custodian)] ==
        IF k = 0 THEN c
        ELSE LET x == walk[k - 1] IN IF x = Null THEN Null ELSE link[x]
      length == Cardinality({k \in 1..Cardinality(Custodian) : walk[k - 1] # Null})
  IN  [k \in 1..length |-> walk[k - 1]]

Supers(L, c) == ToSet(Path(L.parent, c))
Children(L, c) == Path(L.sibling, L.children[c])

\* insert_custodian: directly after its parent, and first of its children.
Inserted(L, m, p) ==
  LET n == L.global_next[p]
      M == [L EXCEPT !.parent[m] = p,
                     !.sibling[m] = L.children[p], !.children[p] = m,
                     !.global_next[m] = n, !.global_prev[m] = p, !.global_next[p] = m]
  IN  IF n = Null THEN [M EXCEPT !.last = m] ELSE [M EXCEPT !.global_prev[n] = m]

\* r out of the list of its parent's children.
WithoutChild(L, r) ==
  LET p == L.parent[r]
      before == {m \in ToSet(Children(L, p)) : L.sibling[m] = r}
  IN  IF L.children[p] = r THEN [L EXCEPT !.children[p] = L.sibling[r]]
      ELSE [L EXCEPT !.sibling = [m \in Custodian |->
                                    IF m \in before THEN L.sibling[r] ELSE L.sibling[m]]]

\* Mutant: the wrong neighbour becomes the last one.
WithoutGlobalSwapped(L, r) ==
  LET n == L.global_next[r]
      q == L.global_prev[r]
      M == IF n = Null THEN [L EXCEPT !.last = n] ELSE [L EXCEPT !.global_prev[n] = q]
  IN  [M EXCEPT !.global_next[q] = n]

\* Mutant: last_custodian is left as it is.
WithoutGlobalKept(L, r) ==
  LET n == L.global_next[r]
      q == L.global_prev[r]
      M == IF n = Null THEN L ELSE [L EXCEPT !.global_prev[n] = q]
  IN  [M EXCEPT !.global_next[q] = n]

\* r out of the global list.
WithoutGlobal(L, r) ==
  LET n == L.global_next[r]
      q == L.global_prev[r]
      M == IF n = Null THEN [L EXCEPT !.last = q] ELSE [L EXCEPT !.global_prev[n] = q]
  IN  [M EXCEPT !.global_next[q] = n]

\* The children of r, one after the other, to the front of its parent's.
Bequeathed(L, r) ==
  LET p == L.parent[r]
      children == Children(L, r)
      moved[k \in 0..Len(children)] ==
        IF k = 0 THEN L
        ELSE LET M == moved[k - 1]
                 m == children[k]
             IN  [M EXCEPT !.parent[m] = p, !.sibling[m] = M.children[p], !.children[p] = m]
  IN  moved[Len(children)]

\* adjust_custodian_family; a shutdown leaves children as they are.
Adjusted(L, r, skip_move) ==
  LET M == IF L.parent[r] = Null THEN L
           ELSE Bequeathed(WithoutGlobal(WithoutChild(L, r), r), r)
      N == [M EXCEPT !.parent[r] = Null, !.sibling[r] = Null,
                     !.global_prev[r] = Null, !.global_next[r] = Null]
  IN  IF skip_move THEN N ELSE [N EXCEPT !.children[r] = Null]

\* Mutant: the last child is taken for the last descendant.
LastChild(L, m) == IF L.children[m] = Null THEN m ELSE Last(Children(L, m))

\* The last of the children's last children, down from m.
LastDescendant(L, m) ==
  LET down[k \in 0..Cardinality(Custodian)] ==
        IF k = 0 THEN m
        ELSE LET c == down[k - 1]
             IN  IF L.children[c] = Null THEN c ELSE Last(Children(L, c))
  IN  down[Cardinality(Custodian)]

\* What a shutdown of m goes through: back from there to m in the global list.
Family(L, m) ==
  LET back == Path(L.global_prev, LastDescendant(L, m))
      to == IF Contains(back, m) THEN CHOOSE k \in DOMAIN back : back[k] = m
            ELSE Len(back)
  IN  SubSeq(back, 1, to)

-----------------------------------------------------------------------------
\* Making and losing custodians and threads.

Usable(c) ==
  /\ held[c] = "held" /\ c \notin shut_down
  /\ "reuse" \in Op \/ links.parent[c] # Null \/ c = Root

\* make-custodian
MakeCustodian(c) ==
  /\ held[c] = "none" /\ Usable(Under[c])
  /\ held' = [held EXCEPT ![c] = "held"]
  /\ links' = Inserted(links, c, Under[c])
  /\ UNCHANGED <<shut_down, managers, life, yoked>>

\* thread and thread/suspend-to-kill, with current-custodian c
MakeThread(t, c) ==
  /\ life[t] = "new" /\ Usable(c)
  /\ life' = [life EXCEPT ![t] = "running"]
  /\ managers' = [managers EXCEPT ![t] = <<c>>]
  /\ UNCHANGED <<held, shut_down, links, yoked>>

\* The program's last reference goes away (external).
Lose(c) ==
  /\ "collect" \in Op /\ held[c] = "held" /\ c # Root
  /\ held' = [held EXCEPT ![c] = "lost"]
  /\ UNCHANGED <<shut_down, links, managers, life, yoked>>

\* Mutant: what the collected custodian managed is forgotten.
CollectForgets(c) ==
  /\ held[c] = "lost"
  /\ held' = [held EXCEPT ![c] = "gone"]
  /\ links' = Adjusted(links, c, FALSE)
  /\ managers' = [t \in Thread |->
       [i \in DOMAIN managers[t] |-> IF managers[t][i] = c THEN Null ELSE managers[t][i]]]
  /\ UNCHANGED <<shut_down, life, yoked>>

\* The collector finds it unreachable; what it manages goes to its parent.
Collect(c) ==
  /\ held[c] = "lost"
  /\ held' = [held EXCEPT ![c] = "gone"]
  /\ links' = Adjusted(links, c, FALSE)
  /\ managers' = [t \in Thread |->
       [i \in DOMAIN managers[t] |->
          IF managers[t][i] = c /\ links.parent[c] # Null
            THEN links.parent[c] ELSE managers[t][i]]]
  /\ UNCHANGED <<shut_down, life, yoked>>

-----------------------------------------------------------------------------
\* Shutting down, killing and suspending.

Killed(t) ==
  IF t \in SuspendToKill THEN "suspended"
  ELSE IF life[t] = "running" THEN "dead" ELSE "killed"

Alive(t) == life[t] \in {"running", "suspended"}

\* What is left of ms, in its order.
Without(ms, gone) ==
  LET left[k \in 0..Len(ms)] ==
        IF k = 0 THEN <<>>
        ELSE IF ms[k] \in gone THEN left[k - 1] ELSE Append(left[k - 1], ms[k])
  IN  left[Len(ms)]

\* Mutant: a thread dies with its main custodian.
LeftMainFirst(t, gone) ==
  IF Head(managers[t]) \in gone THEN <<>> ELSE Without(managers[t], gone)

\* The custodians that a thread keeps when those in gone are shut down: the
\* first one that is left becomes the main one.
LeftManagers(t, gone) == Without(managers[t], gone)

\* scheme_do_close_managed
Shutdown(m) ==
  LET family == Family(links, m)
      gone == ToSet(family)
      dies(t) == Alive(t) /\ LeftManagers(t, gone) = <<>>
      adjusted[k \in 0..Len(family)] ==
        IF k = 0 THEN links
        ELSE IF family[k] = m THEN adjusted[k - 1]
        ELSE Adjusted(adjusted[k - 1], family[k], TRUE)
  IN
  /\ held[m] = "held" /\ m \notin shut_down \cup {Root}
  /\ shut_down' = shut_down \cup {m}
  /\ links' = adjusted[Len(family)]
  /\ managers' = [t \in Thread |->
       IF LeftManagers(t, gone) = <<>> THEN <<Null>> ELSE LeftManagers(t, gone)]
  /\ life' = [t \in Thread |-> IF dies(t) THEN Killed(t) ELSE life[t]]
  /\ yoked' = [t \in Thread |-> IF life'[t] = "dead" THEN {} ELSE yoked[t]]
  /\ UNCHANGED held

\* check_current_custodian_allows, for some current custodian
Allowed(t) ==
  \E c \in Custodian : /\ held[c] = "held"
                       /\ \A m \in ToSet(managers[t]) \ {Null} : c \in Supers(links, m)

\* kill-thread
KillThread(t) ==
  /\ "control" \in Op /\ Alive(t) /\ Allowed(t)
  /\ life' = [life EXCEPT ![t] = Killed(t)]
  /\ managers' = IF t \in SuspendToKill THEN managers
                 ELSE [managers EXCEPT ![t] = <<Null>>]
  /\ yoked' = IF life'[t] = "dead" THEN [yoked EXCEPT ![t] = {}] ELSE yoked
  /\ UNCHANGED <<held, shut_down, links>>

\* The thread's thunk returns.
End(t) ==
  /\ "control" \in Op /\ life[t] = "running"
  /\ life' = [life EXCEPT ![t] = "dead"]
  /\ managers' = [managers EXCEPT ![t] = <<Null>>]
  /\ yoked' = [yoked EXCEPT ![t] = {}]
  /\ UNCHANGED <<held, shut_down, links>>

\* thread-suspend
ThreadSuspend(t) ==
  /\ "control" \in Op /\ life[t] = "running" /\ Allowed(t)
  /\ life' = [life EXCEPT ![t] = "suspended"]
  /\ UNCHANGED <<held, shut_down, links, managers, yoked>>

-----------------------------------------------------------------------------
\* Resuming with a custodian, or yoked to another thread.

\* Some custodian of the thread is above c already.
Covered(ms, c) == ToSet(ms) \cap Supers(links, c) # {}

\* promote_thread for one thread: c is not added if the thread has it, or one
\* above it; it takes the place of the main one if that is not running, or if
\* c is above the custodian looked at last, which is the last of the extra ones.
Promoted(ms, c) ==
  IF ms[1] = Null THEN <<c>> \o Tail(ms)
  ELSE IF Covered(ms, c) THEN ms
  ELSE IF Last(ms) # Null /\ c \in Supers(links, Last(ms)) THEN <<c>> \o Tail(ms)
  ELSE <<ms[1], c>> \o Tail(ms)

Changed(t, c) == Promoted(managers[t], c) # managers[t]

\* Those that can be found from ts along the yokes through threads in via.
Reached(ts, via) ==
  LET reach[k \in 0..Cardinality(Thread)] ==
        IF k = 0 THEN ts
        ELSE LET r == reach[k - 1]
             IN  r \cup UNION {{u \in yoked[t] : life[u] # "dead"} : t \in r \cap via}
  IN  reach[Cardinality(Thread)]

\* Mutant: the threads that are yoked to it are not promoted.
PromotedAlone(t, c) ==
  [u \in Thread |-> IF u = t THEN Promoted(managers[u], c) ELSE managers[u]]

\* promote_thread and transitive_promote: on to the threads that are yoked to
\* one that has changed.
PromotedAll(t, c) ==
  LET changed == {u \in Thread : Changed(u, c)} IN
  [u \in Thread |-> IF u \in Reached({t}, changed) THEN Promoted(managers[u], c)
                    ELSE managers[u]]

\* Mutant: whoever is suspended may be resumed.
WorksAlways(ms) == TRUE

\* A thread that is to be resumed has a custodian that has not been shut down.
Works(ms) == ms[1] # Null /\ ms[1] \notin shut_down

\* The last part of thread_resume, and transitive_resume: t is resumed if it
\* is suspended and has a custodian, and then so are the threads yoked to it.
Resumed(t, ms) ==
  LET able == {u \in Thread : life[u] = "suspended" /\ Works(ms[u])} IN
  [u \in Thread |-> IF u \in able \cap Reached({t}, able) THEN "running" ELSE life[u]]

ThreadResume(t) ==
  /\ Alive(t)
  /\ life' = Resumed(t, managers)
  /\ UNCHANGED <<held, shut_down, links, managers, yoked>>

ResumeUnder(t, c) ==
  /\ "promote" \in Op /\ Alive(t)
  /\ Usable(c)
  /\ managers' = PromotedAll(t, c)
  /\ life' = Resumed(t, managers')
  /\ UNCHANGED <<held, shut_down, links, yoked>>

\* thread-resume with a thread: its main custodian is added, and it drags t
\* along from now on.  A dead one in its table is thrown out.
ResumeWith(t, to) ==
  /\ "yoke" \in Op /\ Alive(t) /\ life[to] # "new"
  /\ managers' = IF managers[to][1] # Null THEN PromotedAll(t, managers[to][1])
                 ELSE managers
  /\ life' = Resumed(t, managers')
  /\ yoked' = IF Alive(to) /\ to # t
                THEN [yoked EXCEPT ![to] = {u \in @ : life[u] # "dead"} \cup {t}]
                ELSE yoked
  /\ UNCHANGED <<held, shut_down, links>>

-----------------------------------------------------------------------------
Init ==
  /\ held = [c \in Custodian |-> IF c = Root THEN "held" ELSE "none"]
  /\ shut_down = {}
  /\ links = [parent |-> NoLink, children |-> NoLink, sibling |-> NoLink,
              global_next |-> NoLink, global_prev |-> NoLink, last |-> Root]
  /\ managers = [t \in Thread |-> <<Null>>]
  /\ life = [t \in Thread |-> "new"]
  /\ yoked = [t \in Thread |-> {}]

Next ==
  \/ \E c \in Custodian : \/ c # Root /\ MakeCustodian(c)
                          \/ Lose(c) \/ Collect(c) \/ Shutdown(c)
                          \/ \E t \in Thread : MakeThread(t, c) \/ ResumeUnder(t, c)
  \/ \E t \in Thread : \/ KillThread(t) \/ End(t) \/ ThreadSuspend(t) \/ ThreadResume(t)
                       \/ \E to \in Thread : ResumeWith(t, to)

Spec == Init /\ [][Next]_vars

-----------------------------------------------------------------------------
\* Types.  The global list never loses its last custodian, and a thread keeps a
\* slot for its main reference, cleared or not.
TypeOK ==
  /\ held \in [Custodian -> {"none", "held", "lost", "gone"}]
  /\ shut_down \subseteq Custodian
  /\ links \in [parent : [Custodian -> Custodian \cup {Null}],
                children : [Custodian -> Custodian \cup {Null}],
                sibling : [Custodian -> Custodian \cup {Null}],
                global_next : [Custodian -> Custodian \cup {Null}],
                global_prev : [Custodian -> Custodian \cup {Null}],
                last : Custodian]
  /\ managers \in [Thread -> Seq(Custodian \cup {Null}) \ {<<>>}]
  /\ life \in [Thread -> {"new", "running", "suspended", "killed", "dead"}]
  /\ yoked \in [Thread -> SUBSET Thread]

Below(c) == {d \in Custodian : held[d] \in {"held", "lost"} /\ c \in Supers(links, d)}

\* insert_custodian and adjust_custodian_family: "families stay together, and
\* the local list stays in the same order as the sibling list", so what a
\* shutdown goes through in the global list, back from the last of the last
\* children, is the custodian and all those below it, each after its parent.
FamilyTogether ==
  \A c \in Custodian : held[c] \in {"held", "lost"} =>
    LET family == Family(links, c) IN
    /\ ToSet(family) = Below(c)
    /\ \A i, j \in DOMAIN family : links.parent[family[i]] = family[j] => i < j

\* custodian-shutdown-all reaches exactly the threads that are left without a
\* custodian: one that all custodians below this one manage is killed, or
\* suspended if it was made so; any other one goes on, under those custodians
\* of its that are not below this one.
ShutdownReaches ==
  [][\A c \in shut_down' \ shut_down : \A t \in Thread : Alive(t) =>
       LET left == ToSet(managers[t]) \ (Below(c) \cup {Null}) IN
       IF left = {} THEN life'[t] \notin {"running"}
       ELSE life'[t] = life[t] /\ ToSet(managers'[t]) = left]_vars

\* "A shut-down custodian is no longer allowed to manage new objects": a thread
\* that runs has a custodian, none of its custodians has been shut down or was
\* below one when it was, and a shutdown of the main custodian would reach it.
RunsManaged ==
  \A t \in Thread : life[t] = "running" =>
    \A m \in ToSet(managers[t]) : /\ m \in Custodian \ shut_down
                                 /\ held[m] # "gone"
                                 /\ Root \in Supers(links, m)

\* for_each_managed, back from last_custodian, meets every custodian that
\* manages something, those below another one before it.
AllVisited ==
  LET seen == Path(links.global_prev, links.last) IN
  /\ \A t \in Thread : Alive(t) => ToSet(managers[t]) \ {Null} \subseteq ToSet(seen)
  /\ \A i, j \in DOMAIN seen : links.parent[seen[i]] = seen[j] => i < j

\* promote_thread: "Changed thread-resume so that it adds custodians to a thread,
\* instead of changing the thread's custodian".  A custodian of a thread goes
\* only as it is shut down or collected, as the thread ends, or for one above it.
ManagersKept ==
  [][\A t \in Thread : Alive(t) /\ Alive(t)' /\ shut_down' = shut_down =>
       \A m \in ToSet(managers[t]) \ {Null} :
         ToSet(managers'[t]) \cap Supers(links, m) # {}]_vars

\* transitive_promote: a custodian that a thread gets is handed on to the threads
\* that are yoked to it, and from them on, unless they have it or one above it.
HandedOn ==
  [][held' = held => \A t \in Thread : \A u \in yoked[t] : Alive(u) =>
       \A m \in ToSet(managers'[t]) \ (ToSet(managers[t]) \cup {Null}) :
         ToSet(managers'[u]) \cap Supers(links, m) # {}]_vars
=============================================================================
