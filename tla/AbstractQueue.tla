--------------------------- MODULE AbstractQueue ---------------------------
(***************************************************************************)
(* What a buffered asynchronous channel promises, as a queue whose every   *)
(* operation takes effect at one moment between its call and its end: a    *)
(* get takes the first value, a put appends one while the limit allows it, *)
(* and a poll fails only at a moment when the queue is empty, or full.     *)
(***************************************************************************)
EXTENDS Integers, Sequences

CONSTANTS User, Value, Null

VARIABLES
  limit,    \* the most values in the queue, 0 for no limit
  content,
  call,     \* what each user asks for: [op, arg]
  answer    \* what came of it, Null while nothing has

vars == <<limit, content, call, answer>>

Gets == {"get", "try-get"}
Puts == {"put", "try-put"}
Polls == {"try-get", "try-put"}
NoCall == [op |-> "none", arg |-> Null]

Full == limit > 0 /\ Len(content) >= limit

Pending(u, ops) == call[u].op \in ops /\ answer[u] = Null

Init ==
  /\ limit \in Nat
  /\ content = <<>>
  /\ call = [u \in User |-> NoCall]
  /\ answer = [u \in User |-> Null]

Call(u) ==
  /\ call[u] = NoCall
  /\ \/ \E op \in Gets : call' = [call EXCEPT ![u] = [op |-> op, arg |-> Null]]
     \/ \E op \in Puts, v \in Value : call' = [call EXCEPT ![u] = [op |-> op, arg |-> v]]
  /\ UNCHANGED <<limit, content, answer>>

Get(u) ==
  /\ Pending(u, Gets) /\ content # <<>>
  /\ answer' = [answer EXCEPT ![u] = Head(content)]
  /\ content' = Tail(content)
  /\ UNCHANGED <<limit, call>>

Put(u) ==
  /\ Pending(u, Puts) /\ ~Full
  /\ answer' = [answer EXCEPT ![u] = "done"]
  /\ content' = Append(content, call[u].arg)
  /\ UNCHANGED <<limit, call>>

Fail(u) ==
  /\ \/ Pending(u, Polls \cap Gets) /\ content = <<>>
     \/ Pending(u, Polls \cap Puts) /\ Full
  /\ answer' = [answer EXCEPT ![u] = "fail"]
  /\ UNCHANGED <<limit, content, call>>

\* Calls return, or are given up because of a break, a timeout or a kill, at
\* any time; a shutdown can end several at once.
End ==
  /\ \A u \in User : \/ call'[u] = call[u] /\ answer'[u] = answer[u]
                     \/ call'[u] = NoCall /\ answer'[u] = Null
  /\ UNCHANGED <<limit, content>>

Next == End \/ \E u \in User : Call(u) \/ Get(u) \/ Put(u) \/ Fail(u)

Spec == Init /\ [][Next]_vars
=============================================================================
