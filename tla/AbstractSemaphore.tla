------------------------- MODULE AbstractSemaphore -------------------------
(***************************************************************************)
(* What a semaphore promises its clients.  A client that asks for a post   *)
(* when there is none is served by a later post, gives up without one (a   *)
(* break), or is gone (a kill).  A post that has been handed to a client   *)
(* cannot be taken from it, and its wait can then no longer end in a break.*)
(***************************************************************************)
EXTENDS Integers

CONSTANTS Client, Sema, EvtSema, InitCount

VARIABLES
  count,   \* [Sema \cup EvtSema -> Int]: posts not yet handed out; -1: for good
  client,  \* [Client -> {"out", "asking", "granted", "gone"}]
  wants    \* [Client -> Sema \cup EvtSema]: what a client asks for

vars == <<count, client, wants>>

Asking(c, s) == client[c] = "asking" /\ wants[c] = s

\* One post is handed out.
HandOut(s) ==
  /\ count[s] # 0
  /\ count' = [count EXCEPT ![s] = IF @ > 0 THEN @ - 1 ELSE @]

Init ==
  /\ count \in [Sema \cup EvtSema -> InitCount \cup {0}]
  /\ client = [c \in Client |-> "out"]
  /\ wants \in [Client -> Sema \cup EvtSema]

\* A post is added to the count, or handed to a client that asks for it.
Post(s) ==
  /\ s \in Sema
  /\ count' = [count EXCEPT ![s] = @ + 1]
  /\ UNCHANGED <<client, wants>>

PostTo(c, s) ==
  /\ s \in Sema
  /\ Asking(c, s)
  /\ client' = [client EXCEPT ![c] = "granted"]
  /\ UNCHANGED <<count, wants>>

PostForGood(s) ==
  /\ s \in EvtSema
  /\ count' = [count EXCEPT ![s] = -1]
  /\ \E served \in SUBSET {c \in Client : Asking(c, s)} :
       client' = [c \in Client |-> IF c \in served THEN "granted" ELSE client[c]]
  /\ UNCHANGED wants

\* A client that is served at once.
Take(c, s) ==
  /\ client[c] = "out"
  /\ HandOut(s)
  /\ UNCHANGED <<client, wants>>

\* A client has to wait, only when there is no post.
Ask(c, s) ==
  /\ client[c] = "out" /\ count[s] = 0
  /\ client' = [client EXCEPT ![c] = "asking"]
  /\ wants' = [wants EXCEPT ![c] = s]
  /\ UNCHANGED count

\* The wait ends with a post: now, or with one that was handed over before.
Grant(c) ==
  /\ client[c] = "asking"
  /\ HandOut(wants[c])
  /\ client' = [client EXCEPT ![c] = "out"]
  /\ UNCHANGED wants

Return(c) ==
  /\ client[c] = "granted"
  /\ client' = [client EXCEPT ![c] = "out"]
  /\ UNCHANGED <<count, wants>>

\* The wait ends with a break, and without a post.
GiveUp(c) ==
  /\ client[c] = "asking"
  /\ client' = [client EXCEPT ![c] = "out"]
  /\ UNCHANGED <<count, wants>>

\* A client is killed.
Die(c) ==
  /\ client[c] # "gone"
  /\ client' = [client EXCEPT ![c] = "gone"]
  /\ UNCHANGED <<count, wants>>

\* A client that was about to be served dies with the post, and may pass one
\* more to another client.
DieWithPost(c) ==
  /\ client[c] = "asking"
  /\ HandOut(wants[c])
  /\ client' = [client EXCEPT ![c] = "gone"]
  /\ UNCHANGED wants

DieAndPass(c, d) ==
  LET s == wants[c] IN
  /\ client[c] = "asking" /\ Asking(d, s) /\ c # d
  /\ count[s] > 1
  /\ count' = [count EXCEPT ![s] = @ - 2]
  /\ client' = [client EXCEPT ![c] = "gone", ![d] = "granted"]
  /\ UNCHANGED wants

Next ==
  \/ \E s \in Sema \cup EvtSema :
       \/ Post(s) \/ PostForGood(s)
       \/ \E c \in Client : PostTo(c, s) \/ Take(c, s) \/ Ask(c, s)
  \/ \E c \in Client :
       \/ Grant(c) \/ Return(c) \/ GiveUp(c) \/ Die(c) \/ DieWithPost(c)
       \/ \E d \in Client : DieAndPass(c, d)

Spec == Init /\ [][Next]_vars
=============================================================================
