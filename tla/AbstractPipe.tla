---------------------------- MODULE AbstractPipe ----------------------------
(***************************************************************************)
(* What make-pipe promises: a queue of bytes.  Bytes come out in the order *)
(* they went in, a peek leaves them there, and a pipe with a limit holds   *)
(* at most so many bytes that nobody has peeked at.  A write puts its      *)
(* string in whole, or in parts that follow one another as room comes.     *)
(***************************************************************************)
EXTENDS Integers, Sequences

CONSTANTS Writer, Text, Eof

VARIABLES
  limit,    \* the most unseen bytes, 0 for no limit
  content,  \* the bytes in the pipe
  seen,     \* how many of them, from the first, have been peeked at
  pending,  \* what a writer's blocked call has left to put in, and its mode
  eof,      \* one of the two ports is closed
  out       \* what the last step returned to a reader

vars == <<limit, content, seen, pending, eof, out>>

Done == [rest |-> <<>>, mode |-> 0]

Init ==
  /\ limit \in Nat
  /\ content = <<>> /\ seen = 0
  /\ pending = [w \in Writer |-> Done]
  /\ eof = FALSE
  /\ out = <<>>

\* How many of len bytes there is room for.
Fits(len) ==
  LET room == limit + seen - Len(content)
  IN IF limit = 0 \/ len <= room THEN len ELSE room

\* A writer puts in as much of s as fits.  It is done with that, or has the rest
\* of the string left: in mode 0 it goes on until all of s is in, in mode 1 until
\* some is.
Put(w, s, mode) ==
  LET n == Fits(Len(s))
  IN /\ ~eof
     /\ out' = <<>>
     /\ pending' = [pending EXCEPT ![w] =
                     IF n = Len(s) \/ mode = 2 \/ (mode = 1 /\ n > 0) THEN Done
                     ELSE [rest |-> SubSeq(s, n + 1, Len(s)), mode |-> mode]]
     /\ content' = content \o SubSeq(s, 1, n)
     /\ UNCHANGED <<limit, seen, eof>>

\* A call begins, and goes on.
Write(w) == pending[w] = Done /\ \E s \in Text, mode \in 0..2 : Put(w, s, mode)

WriteOn(w) == pending[w] # Done /\ Put(w, pending[w].rest, pending[w].mode)

\* A blocked call ends without the rest, by a break, a kill or a close.
Stop(w) ==
  /\ pending[w] # Done
  /\ pending' = [pending EXCEPT ![w] = Done]
  /\ out' = <<>>
  /\ UNCHANGED <<limit, content, seen, eof>>

Less(n, m) == IF n > m THEN n - m ELSE 0

\* A reader takes the first n bytes.
Get(n) ==
  /\ n \in 1..Len(content)
  /\ out' = SubSeq(content, 1, n)
  /\ content' = SubSeq(content, n + 1, Len(content))
  /\ seen' = Less(seen, n)
  /\ UNCHANGED <<limit, pending, eof>>

\* A reader looks at n bytes after the first `skip' ones.
Peek(skip, n) ==
  /\ n > 0 /\ skip + n <= Len(content)
  /\ out' = SubSeq(content, skip + 1, skip + n)
  /\ seen' = IF limit > 0 /\ skip + n > seen THEN skip + n ELSE seen
  /\ UNCHANGED <<limit, content, pending, eof>>

\* A reader finds nothing at a position that nothing will ever come to.
End(skip) ==
  /\ eof /\ skip >= Len(content)
  /\ out' = Eof
  /\ UNCHANGED <<limit, content, seen, pending, eof>>

Close ==
  /\ eof' = TRUE
  /\ out' = <<>>
  /\ UNCHANGED <<limit, content, seen, pending>>

\* A step that returns nothing to a reader.
Nothing == out' = <<>> /\ UNCHANGED <<limit, content, seen, pending, eof>>

Next ==
  \/ \E w \in Writer : Write(w) \/ WriteOn(w) \/ Stop(w)
  \/ \E n \in 1..Len(content) : Get(n)
  \/ \E skip \in 0..Len(content), n \in 1..Len(content) : Peek(skip, n)
  \/ \E skip \in {0, Len(content)} : End(skip)
  \/ Close
  \/ Nothing

Spec == Init /\ [][Next]_vars
=============================================================================
