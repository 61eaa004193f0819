---------------------------- MODULE AbstractSwap ----------------------------
(***************************************************************************)
(* What synchronous channels promise to the programs that sync on them.  A *)
(* request offers one or several events.  A put and a get of one channel   *)
(* happen together or not at all: in one step each of the two requests has *)
(* its event, for good, and the get has the value of that put.  Until then *)
(* a request can end without an event, and none of its offers is ever      *)
(* taken up afterwards.  Posts of a semaphore are shared among those that   *)
(* wait for one and those that only peek.                                  *)
(***************************************************************************)
EXTENDS Integers

CONSTANTS
  Request,
  Owner,     \* [Request -> the thread that makes it]
  Chan, Sema,
  Null

Offer == [kind : {"get", "put"}, on : Chan] \cup [kind : {"sema", "peek"}, on : Sema]

VARIABLES
  offers,    \* [Request -> SUBSET Offer]
  enable,    \* the requests of which either a break or an event comes
  status,    \* [Request -> {"new", "asking", "chosen", "done", "failed", "killed"}]
  count,     \* [Sema -> Nat]
  choice,    \* [Request -> Offer \cup {Null}]
  from       \* [Request -> Request \cup {Null}]: the put that a get received

vars == <<offers, enable, status, count, choice, from>>

Matches(o, p) ==
  o.on = p.on /\ {o.kind, p.kind} = {"get", "put"}

\* A thread makes one request at a time.
Goes(r) ==
  \/ status[r] = "asking"
  \/ /\ status[r] = "new"
     /\ \A q \in Request : Owner[q] = Owner[r] => status[q] \notin {"asking", "chosen"}

Ask(r) ==
  /\ status[r] = "new" /\ Goes(r)
  /\ status' = [status EXCEPT ![r] = "asking"]
  /\ UNCHANGED <<count, choice, from>>

\* The thread of r finds that q asks for the other side.
Meet(r, q) ==
  /\ Goes(r) /\ status[q] = "asking" /\ Owner[r] # Owner[q]
  /\ status' = [status EXCEPT ![r] = "done", ![q] = "chosen"]
  /\ UNCHANGED count
  /\ \E o \in offers[r], p \in offers[q] :
       /\ Matches(o, p)
       /\ choice' = [choice EXCEPT ![r] = o, ![q] = p]
       /\ from' = IF o.kind = "get" THEN [from EXCEPT ![r] = q] ELSE [from EXCEPT ![q] = r]

\* A post is there: it is taken, or just seen.
Take(r) ==
  /\ Goes(r)
  /\ status' = [status EXCEPT ![r] = "done"]
  /\ \E o \in offers[r] :
       /\ o.kind \in {"sema", "peek"} /\ count[o.on] > 0
       /\ choice' = [choice EXCEPT ![r] = o]
       /\ count' = IF o.kind = "sema" THEN [count EXCEPT ![o.on] = @ - 1] ELSE count
  /\ UNCHANGED from

\* One comes: requests that peek see it, and at most one takes it.
Post(s) ==
  LET asks(kind) == {r \in Request : status[r] = "asking" /\ [kind |-> kind, on |-> s] \in offers[r]}
  IN
  \E seen \in SUBSET asks("peek"), taken \in {{}} \cup {{r} : r \in asks("sema")} :
    /\ status' = [r \in Request |-> IF r \in seen \cup taken THEN "chosen" ELSE status[r]]
    /\ choice' = [r \in Request |->
         IF r \in taken THEN [kind |-> "sema", on |-> s]
         ELSE IF r \in seen THEN [kind |-> "peek", on |-> s] ELSE choice[r]]
    /\ count' = IF taken = {} THEN [count EXCEPT ![s] = @ + 1] ELSE count
    /\ UNCHANGED from

Return(r) ==
  /\ status[r] = "chosen"
  /\ status' = [status EXCEPT ![r] = "done"]
  /\ UNCHANGED <<count, choice, from>>

\* A timeout, a break or a kill.  (One that should not be: a request that comes
\* to nothing may take a post with it.)
Fail(r) ==
  /\ Goes(r)
  /\ \E how \in {"failed", "killed"} : status' = [status EXCEPT ![r] = how]
  /\ \/ UNCHANGED count
     \/ \E s \in Sema : /\ [kind |-> "sema", on |-> s] \in offers[r] /\ count[s] > 0
                        /\ count' = [count EXCEPT ![s] = @ - 1]
  /\ UNCHANGED <<choice, from>>

\* It comes after the choice: a thread may be killed, and, if breaks do not
\* exclude events, broken.
Lose(r) ==
  /\ status[r] = "chosen"
  /\ \E how \in {"killed"} \cup (IF r \in enable THEN {} ELSE {"failed"}) :
       status' = [status EXCEPT ![r] = how]
  /\ UNCHANGED <<count, choice, from>>

Init ==
  /\ offers \in [Request -> SUBSET Offer]
  /\ enable \in SUBSET Request
  /\ status = [r \in Request |-> "new"]
  /\ count = [s \in Sema |-> 0]
  /\ choice = [r \in Request |-> Null]
  /\ from = [r \in Request |-> Null]

Next ==
  /\ \/ \E r \in Request : \/ Ask(r) \/ Take(r) \/ Return(r) \/ Fail(r) \/ Lose(r)
                           \/ \E q \in Request : Meet(r, q)
     \/ \E s \in Sema : Post(s)
  /\ UNCHANGED <<offers, enable>>

Spec == Init /\ [][Next]_vars
=============================================================================
