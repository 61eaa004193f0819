-------------------------------- MODULE Pipe --------------------------------
(***************************************************************************)
(* The pipes of make-pipe (portfun.c): a circular buffer between writers   *)
(* and readers, with an optional limit that peeks stretch, and the two     *)
(* lists of semaphores on which a writer waits for room and a peeker for   *)
(* bytes beyond those that are there.                                      *)
(*                                                                         *)
(* A step of a thread runs until the thread has to wait: the C code does   *)
(* not swap threads anywhere else.  The input and output ports' own layers *)
(* (ungotten bytes, positions, the progress event and the commit lock) are *)
(* left out; module PortCommit has the last two.                           *)
(***************************************************************************)
EXTENDS Integers, Sequences, FiniteSets, TLC

CONSTANTS
  Writer, Reader,  \* threads at either end
  Byte,
  Text,            \* the strings to write
  Limits,          \* the limits to make pipes with, 0 for none
  InitLen,         \* the length of a buffer at first (100 in the code)
  MaxLen,          \* bound on the number of bytes to read or peek at once
  MaxPeek,         \* bound on the position that a peek ends at
  MaxContent,      \* bound on what is put into a pipe without a limit
  Blank, Eof       \* not bytes: a cell without one, and end-of-file

ASSUME PipeAssumption ==
  /\ \A s \in Text : s # <<>> /\ s \in Seq(Byte)
  /\ Limits \subseteq Nat
  /\ {InitLen, MaxLen, MaxPeek, MaxContent} \subseteq Nat \ {0}
  /\ {Blank, Eof} \cap Byte = {}

VARIABLES
  buf,              \* 0..buflen-1 -> Byte or Blank
  buflen, bufmax,   \* bufmax is the limit plus one, or 0 for no limit
  bufmaxextra,      \* what peeks have added to the limit
  bufstart, bufend,
  eof,              \* either port is closed
  closed,           \* the ports that are closed: "in", "out"
  wakeup_on_read,   \* the writers that wait on a semaphore of this list
  wakeup_on_write,  \* the readers that wait on a semaphore of this list
  writing,          \* [Writer -> what a blocked write has left, and its mode]
  peeking,          \* [Reader -> what a peek that goes on is to get]
  out               \* the bytes that the last step gave a reader

sleepers == <<wakeup_on_read, wakeup_on_write>>
indices == <<bufstart, bufend>>
vars == <<buf, buflen, bufmax, bufmaxextra, bufstart, bufend, eof, closed,
          wakeup_on_read, wakeup_on_write, writing, peeking, out>>

-----------------------------------------------------------------------------
Lesser(m, n) == IF m < n THEN m ELSE n

\* pipe_length, and what the two halves of pipe_get_or_peek_bytes pass over.
Used ==
  IF bufstart <= bufend THEN bufend - bufstart ELSE bufend + (buflen - bufstart)

Empty == bufstart = bufend

\* The bytes in the pipe, first to last.
Content == [i \in 1..Used |-> buf[(bufstart + i - 1) % buflen]]

\* One half of pipe_get_or_peek_bytes: n bytes lie from bs on; skip some,
\* copy some.
Half(bs, n, skip, size) ==
  LET over == Lesser(n, skip)
      took == Lesser(n - over, size)
  IN [over |-> over, took |-> took, end |-> bs + over + took,
      bytes |-> [i \in 1..took |-> buf[bs + over + i - 1]]]

\* Mutant: what the first half skipped is skipped again in the second.
Copy_skip_twice(skip, size) ==
  LET upper == IF bufstart > bufend
               THEN Half(bufstart, buflen - bufstart, skip, size)
               ELSE Half(bufstart, 0, 0, 0)
      bs == IF upper.end = buflen THEN 0 ELSE upper.end
      lower == IF bs < bufend
               THEN Half(bs, bufend - bs, skip, size - upper.took)
               ELSE Half(bs, 0, 0, 0)
  IN [c |-> upper.took + lower.took, skipped |-> upper.over + lower.over,
      end |-> lower.end, bytes |-> upper.bytes \o lower.bytes]

\* Both halves: a buffer that wraps around has its first bytes at the end.
Copy(skip, size) ==
  LET upper == IF bufstart > bufend
               THEN Half(bufstart, buflen - bufstart, skip, size)
               ELSE Half(bufstart, 0, 0, 0)
      bs == IF upper.end = buflen THEN 0 ELSE upper.end
      lower == IF bs < bufend
               THEN Half(bs, bufend - bs, skip - upper.over, size - upper.took)
               ELSE Half(bs, 0, 0, 0)
  IN [c |-> upper.took + lower.took, skipped |-> upper.over + lower.over,
      end |-> lower.end, bytes |-> upper.bytes \o lower.bytes]

-----------------------------------------------------------------------------
\* Room in the buffer as it is, not counting the cell that tells a full
\* buffer from an empty one.
Avail ==
  IF bufstart <= bufend THEN (buflen - bufend) + bufstart - 1
                        ELSE bufstart - bufend - 1

\* How much longer the buffer is than the limit and the peeks allow; less
\* than 0 when it may still grow.
Excess == buflen - (bufmax + bufmaxextra)

\* A buffer that once grew for peeks keeps its length, but the cells are for
\* peeks only.
Usable == IF bufmax > 0 /\ Excess > 0 THEN Avail - Excess ELSE Avail

\* What pipe_write_bytes can write of len bytes before it has to wait.
Writable(len) ==
  IF bufmax = 0 \/ Usable >= len THEN len
  ELSE Lesser(len, IF Excess < 0 THEN Usable - Excess ELSE Usable)

\* Mutant: the new buffer has no cell to spare.
newlen_tight(len) ==
  IF bufmax = 0 THEN Used + len ELSE Lesser(2 * (buflen + len), bufmax + bufmaxextra)

newlen(len) ==
  IF bufmax = 0 THEN 2 * (buflen + len)
  ELSE Lesser(2 * (buflen + len), bufmax + bufmaxextra)

\* The last part of pipe_write_bytes, for a string that there is room for,
\* in a buffer that is replaced by a longer one when it must be.
Grow(s) ==
  /\ buf' = [i \in 0..newlen(Len(s)) - 1 |->
              IF i < Used + Len(s) THEN (Content \o s)[i + 1] ELSE Blank]
  /\ buflen' = newlen(Len(s))
  /\ bufstart' = 0
  /\ bufend' = Used + Len(s)

\* Mutant: the part at the start of the buffer begins one byte early.
Fill_early(s) ==
  LET firstn == Lesser(Len(s), IF bufstart > bufend THEN Avail
                               ELSE IF bufstart = 0 THEN buflen - bufend - 1
                               ELSE buflen - bufend)
      secondn == Len(s) - firstn
  IN /\ buf' = [i \in DOMAIN buf |->
                 IF i \in bufend..bufend + firstn - 1 THEN s[i - bufend + 1]
                 ELSE IF i < secondn THEN s[firstn + i]
                 ELSE buf[i]]
     /\ bufend' = IF secondn = 0 THEN (bufend + Len(s)) % buflen ELSE secondn
     /\ UNCHANGED <<buflen, bufstart>>

Fill(s) ==
  LET firstn == Lesser(Len(s), IF bufstart > bufend THEN Avail
                               ELSE IF bufstart = 0 THEN buflen - bufend - 1
                               ELSE buflen - bufend)
      secondn == Len(s) - firstn
  IN /\ buf' = [i \in DOMAIN buf |->
                 IF i \in bufend..bufend + firstn - 1 THEN s[i - bufend + 1]
                 ELSE IF i < secondn THEN s[firstn + i + 1]
                 ELSE buf[i]]
     /\ bufend' = IF secondn = 0 THEN (bufend + Len(s)) % buflen ELSE secondn
     /\ UNCHANGED <<buflen, bufstart>>

\* Mutant: only a write into an empty pipe wakes the peekers.
did_write_if_empty == wakeup_on_write' = IF Empty THEN {} ELSE wakeup_on_write

pipe_did_write == wakeup_on_write' = {}

Store(s) ==
  IF s = <<>> THEN UNCHANGED <<buf, buflen, bufstart, bufend, wakeup_on_write>>
  ELSE /\ IF Usable < Len(s) THEN Grow(s) ELSE Fill(s)
       /\ pipe_did_write

-----------------------------------------------------------------------------
Done == [rest |-> <<>>, mode |-> 0]
Quiet == [size |-> 0, skip |-> 0]

\* Mutant: a write that has slept starts its string over.
Rest_whole(s, n) == s

\* What is left of a string when n bytes of it are written.
Rest(s, n) == SubSeq(s, n + 1, Len(s))

\* The writer waits for room, unless there is some after all.
WaitForRoom(w) ==
  wakeup_on_read' = IF Usable' = 0 THEN wakeup_on_read \cup {w} ELSE wakeup_on_read

\* pipe_write_bytes from try_again on.  Mode 0 writes it all, 1 at least
\* some of it (write-bytes-avail), 2 only what there is room for.
Try(w, s, mode) ==
  /\ out' = <<>>
  /\ UNCHANGED <<bufmax, bufmaxextra, eof, closed, peeking>>
  /\ IF eof
     THEN /\ writing' = [writing EXCEPT ![w] = Done]
          /\ UNCHANGED <<buf, buflen, indices, sleepers>>
     ELSE LET n == Writable(Len(s))
          IN /\ Store(SubSeq(s, 1, n))
             /\ IF n = Len(s) \/ mode = 2 \/ (mode = 1 /\ n > 0)
                THEN /\ writing' = [writing EXCEPT ![w] = Done]
                     /\ UNCHANGED wakeup_on_read
                ELSE /\ writing' = [writing EXCEPT ![w] =
                                     [rest |-> Rest(s, n), mode |-> mode]]
                     /\ WaitForRoom(w)

\* write-bytes, write-bytes-avail and write-bytes-avail*.
Write(w, s, mode) ==
  /\ writing[w] = Done
  /\ "out" \notin closed
  /\ bufmax = 0 => Used + Len(s) <= MaxContent
  /\ Try(w, s, mode)

\* A writer whose semaphore was posted looks for room, and sleeps again if
\* others were faster.
Retry(w) ==
  /\ writing[w] # Done /\ w \notin wakeup_on_read
  /\ IF Usable # 0 \/ eof
     THEN Try(w, writing[w].rest, writing[w].mode)
     ELSE /\ out' = <<>>
          /\ UNCHANGED <<buf, buflen, bufmax, bufmaxextra, indices, eof, closed,
                         wakeup_on_write, writing, peeking>>
          /\ WaitForRoom(w)

\* A break or a kill ends a wait for room.  What is written is written.  (The
\* semaphore stays in the list, where a post to it does nothing.)
StopWriter(w) ==
  /\ w \in wakeup_on_read
  /\ wakeup_on_read' = wakeup_on_read \ {w}
  /\ writing' = [writing EXCEPT ![w] = Done]
  /\ out' = <<>>
  /\ UNCHANGED <<buf, buflen, bufmax, bufmaxextra, indices, eof, closed,
                 wakeup_on_write, peeking>>

-----------------------------------------------------------------------------
\* Mutant: a read that leaves bytes behind wakes nobody.
did_read_if_empty(c) == wakeup_on_read' = IF c = Used THEN {} ELSE wakeup_on_read

\* pipe_did_read, after c bytes were read.
pipe_did_read(c) == wakeup_on_read' = {}

\* Mutant: peeks that read all that was peeked keep their room.
Spend_never(c) == bufmaxextra' = bufmaxextra

\* A read uses up room that peeks made.
Spend(c) == bufmaxextra' = IF bufmaxextra > c THEN bufmaxextra - c ELSE 0

\* A reader has what it asked for, or an error, or no bytes.
Returns(result) ==
  /\ out' = result
  /\ UNCHANGED <<buf, buflen, bufmax, bufmaxextra, indices, eof, closed, sleepers,
                 writing>>

\* pipe_get_or_peek_bytes as a read of up to `size' bytes.  A read of an
\* empty pipe waits in scheme_block_until, for bytes or the end of the file.
Get(r, size) ==
  /\ peeking[r] = Quiet
  /\ "in" \notin closed
  /\ ~Empty \/ eof
  /\ UNCHANGED peeking
  /\ IF Empty THEN Returns(Eof)
     ELSE LET got == Copy(0, size)
          IN /\ out' = got.bytes
             /\ buf' = [i \in DOMAIN buf |->
                         IF \E k \in 0..got.c - 1 : i = (bufstart + k) % buflen
                         THEN Blank ELSE buf[i]]
             /\ bufstart' = got.end
             /\ Spend(got.c)
             /\ pipe_did_read(got.c)
             /\ UNCHANGED <<buflen, bufmax, bufend, eof, closed, wakeup_on_write,
                            writing>>

\* What becomes of the limit when a peek ended so far into the content.
Stretch(end) ==
  bufmaxextra' = IF bufmax > 0 /\ bufmaxextra < end THEN end ELSE bufmaxextra

\* pipe_get_or_peek_bytes as a peek.  One that finds nothing at its position
\* sleeps until something is written.  The caller's loop then comes back for
\* what is missing, or (peek-bytes-avail!) is content with what there is.
Look(r, size, skip) ==
  LET got == Copy(skip, size)
      more == [size |-> size - got.c, skip |-> skip + got.c]
  IN IF "in" \in closed
     THEN /\ peeking' = [peeking EXCEPT ![r] = Quiet]
          /\ Returns(<<>>)
     ELSE IF got.c = 0 /\ eof
     THEN /\ peeking' = [peeking EXCEPT ![r] = Quiet]
          /\ Returns(Eof)
     ELSE /\ out' = got.bytes
          /\ \E enough \in {got.c = size, got.c > 0} :
               peeking' = [peeking EXCEPT ![r] = IF enough THEN Quiet ELSE more]
          /\ IF got.c = 0
             THEN /\ wakeup_on_write' = wakeup_on_write \cup {r}
                  /\ UNCHANGED bufmaxextra
             ELSE /\ Stretch(got.c + got.skipped)
                  /\ UNCHANGED wakeup_on_write
          /\ UNCHANGED <<buf, buflen, bufmax, indices, eof, closed, wakeup_on_read,
                         writing>>

\* peek-bytes or peek-bytes-avail!, for `size' bytes after the first `skip'.
Peek(r, size, skip) ==
  /\ peeking[r] = Quiet
  /\ "in" \notin closed
  /\ size + skip <= MaxPeek
  /\ ~Empty \/ eof
  /\ Look(r, size, skip)

PeekOn(r) ==
  /\ peeking[r] # Quiet /\ r \notin wakeup_on_write
  /\ ~Empty \/ eof
  /\ Look(r, peeking[r].size, peeking[r].skip)

StopPeeker(r) ==
  /\ r \in wakeup_on_write
  /\ wakeup_on_write' = wakeup_on_write \ {r}
  /\ peeking' = [peeking EXCEPT ![r] = Quiet]
  /\ out' = <<>>
  /\ UNCHANGED <<buf, buflen, bufmax, bufmaxextra, indices, eof, closed,
                 wakeup_on_read, writing>>

\* Mutant: closing the output port does not wake the writers.
WokenByClose_readers(port) ==
  /\ wakeup_on_read' = IF port = "in" THEN {} ELSE wakeup_on_read
  /\ wakeup_on_write' = {}

WokenByClose(port) == wakeup_on_read' = {} /\ wakeup_on_write' = {}

\* pipe_in_close and pipe_out_close.
Close(port) ==
  /\ port \notin closed
  /\ closed' = closed \cup {port}
  /\ eof' = TRUE
  /\ WokenByClose(port)
  /\ out' = <<>>
  /\ UNCHANGED <<buf, buflen, bufmax, bufmaxextra, indices, writing, peeking>>

-----------------------------------------------------------------------------
\* scheme_pipe_with_limit
Init ==
  \E limit \in Limits :
    /\ bufmax = IF limit > 0 THEN limit + 1 ELSE 0
    /\ buflen = IF limit > 0 THEN Lesser(limit + 1, InitLen) ELSE InitLen
    /\ buf = [i \in 0..buflen - 1 |-> Blank]
    /\ bufmaxextra = 0
    /\ bufstart = 0 /\ bufend = 0
    /\ eof = FALSE /\ closed = {}
    /\ wakeup_on_read = {} /\ wakeup_on_write = {}
    /\ writing = [w \in Writer |-> Done]
    /\ peeking = [r \in Reader |-> Quiet]
    /\ out = <<>>

Next ==
  \/ \E w \in Writer :
       \/ \E s \in Text, mode \in 0..2 : Write(w, s, mode)
       \/ Retry(w)
       \/ StopWriter(w)
  \/ \E r \in Reader :
       \/ \E size \in 1..MaxLen : Get(r, size)
       \/ \E size \in 1..MaxLen, skip \in 0..MaxPeek - 1 : Peek(r, size, skip)
       \/ PeekOn(r)
       \/ StopPeeker(r)
  \/ \E port \in {"in", "out"} : Close(port)

Spec == Init /\ [][Next]_vars

-----------------------------------------------------------------------------
\* The bookkeeping is in range, and no cell in use is blank.
TypeOK ==
  /\ bufmax \in {0} \cup {limit + 1 : limit \in Limits \ {0}}
  /\ buflen \in Nat \ {0}
  /\ buf \in [0..buflen - 1 -> Byte \cup {Blank}]
  /\ bufstart \in 0..buflen - 1 /\ bufend \in 0..buflen - 1
  /\ \A i \in 1..Used : Content[i] # Blank
  /\ bufmaxextra \in 0..MaxPeek
  /\ eof \in BOOLEAN /\ closed \subseteq {"in", "out"}
  /\ wakeup_on_read \subseteq Writer /\ wakeup_on_write \subseteq Reader
  /\ \A w \in Writer : writing[w].rest \in Seq(Byte) /\ writing[w].mode \in 0..1
  /\ \A r \in Reader : peeking[r].size \in 0..MaxLen /\ peeking[r].skip \in 0..MaxPeek

\* Room is never negative: pipe_write_bytes computes it from four indices in
\* three ways and passes it on as a length to copy, so the content of a
\* limited pipe must stay within the limit and what peeks added, whatever
\* order reads, peeks and writes came in; and peeks never add more than they
\* saw of what is still there.
RoomInv ==
  bufmax > 0 => /\ bufmaxextra <= Used
                /\ Used <= bufmax - 1 + bufmaxextra

\* Nobody who sleeps is forgotten.  When a writer sleeps the pipe is open and
\* full up to its limit (room that peeks made is another matter: see
\* PeekMakesRoom); when a peeker sleeps, what it waits for is not there yet and
\* may still come.
SleepersInv ==
  /\ \A w \in wakeup_on_read : writing[w] # Done /\ ~eof /\ Used >= bufmax - 1
  /\ \A r \in wakeup_on_write : peeking[r] # Quiet /\ ~eof /\ Used <= peeking[r].skip

Abstract == INSTANCE AbstractPipe WITH
  limit <- IF bufmax = 0 THEN 0 ELSE bufmax - 1, content <- Content,
  seen <- bufmaxextra, pending <- writing

\* The circular buffer, with its growth, its two-part copies and its limits,
\* is a queue of bytes.  What a write adds is the next part of its own string,
\* all that there is room for, however often it has slept in between; and a
\* write that is broken has added the parts so far, and nothing else.
ImplementsAbstract == Abstract!Spec

\* "Peeking from a limited pipe effectively increases its capacity,
\* temporarily" (notes/mzscheme/HISTORY:101): so a peeker that has seen all
\* there is does not sleep beside a writer that could write more by now.
PeekMakesRoom ==
  \A w \in wakeup_on_read, r \in wakeup_on_write : Used = bufmax - 1 + bufmaxextra
=============================================================================
