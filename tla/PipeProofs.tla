----------------------------- MODULE PipeProofs -----------------------------
(***************************************************************************)
(* Proofs about Pipe, for any threads, bytes, strings, limits and lengths: *)
(* the room, and who sleeps for it, which look at the indices only, and in *)
(* the last part the bytes, that is, that Pipe is a queue of them.         *)
(***************************************************************************)
EXTENDS Pipe, SequenceTheorems, TLAPS

\* The indices are in the buffer, and a limit is at least 1.
IndexInv ==
  /\ bufmax \in Nat \ {1} /\ buflen \in Nat \ {0} /\ bufmaxextra \in Nat
  /\ bufstart \in 0..buflen - 1 /\ bufend \in 0..buflen - 1

\* What a thread is in the middle of.  A writer has to wait only when the pipe
\* has a limit, and after the buffer has once been as long as that.
CallInv ==
  /\ writing \in [Writer -> [rest : Seq(Byte), mode : Nat]]
  /\ peeking \in [Reader -> [size : Nat, skip : Nat]]
  /\ \A w \in Writer : writing[w] # Done => bufmax > 0 /\ buflen >= bufmax
  /\ \A r \in Reader : peeking[r] # Quiet => peeking[r].size > 0
  /\ wakeup_on_read \subseteq Writer /\ wakeup_on_write \subseteq Reader

\* The inductive invariant.
IInv == IndexInv /\ CallInv /\ RoomInv /\ SleepersInv

-----------------------------------------------------------------------------
\* Lengths.

\* Used and the rest of the buffer make up the buffer, but for one cell.
LEMMA UsedAvail ==
  ASSUME IndexInv
  PROVE  /\ Used \in 0..buflen - 1
         /\ Avail = buflen - 1 - Used
         /\ Avail \in Nat /\ Excess \in Int
BY DEF IndexInv, Used, Avail, Excess

LEMMA Distance ==
  ASSUME NEW n \in Nat, NEW a \in 0..n - 1, NEW b \in 0..n - 1
  PROVE  (IF a <= b THEN b - a ELSE b + (n - a)) \in 0..n - 1
OBVIOUS

LEMMA UsedAfter ==
  ASSUME IndexInv'
  PROVE  Used' \in 0..buflen' - 1
<1>1. buflen' \in Nat /\ bufstart' \in 0..buflen' - 1 /\ bufend' \in 0..buflen' - 1
  BY DEF IndexInv
<1>2. (IF bufstart' <= bufend' THEN bufend' - bufstart' ELSE bufend' + (buflen' - bufstart'))
        \in 0..buflen' - 1
  BY <1>1, Distance
<1>3. QED BY <1>2 DEF Used

\* Of the n bytes of a half, those to skip come first, and it gets all of the
\* others or as many as are asked for.
IsHalf(half, bs, n, skip, size) ==
  /\ half.over \in 0..skip /\ half.took \in 0..size
  /\ half.took > 0 => half.over = skip
  /\ half.over + half.took <= n
  /\ half.end = bs + half.over + half.took
  /\ half.over + half.took = n \/ (half.over = skip /\ half.took = size)

LEMMA HalfLengths ==
  ASSUME NEW bs \in Nat, NEW n \in Nat, NEW skip \in Nat, NEW size \in Nat
  PROVE  IsHalf(Half(bs, n, skip, size), bs, n, skip, size)
<1>1. PICK over \in Nat : over = IF n < skip THEN n ELSE skip
  OBVIOUS
<1>2. PICK took \in Nat : took = IF n - over < size THEN n - over ELSE size
  BY <1>1
<1>3. /\ over <= skip /\ took <= size /\ over + took <= n
      /\ over + took = n \/ (over = skip /\ took = size)
      /\ took > 0 => over = skip
  BY <1>1, <1>2
<1>4. /\ Half(bs, n, skip, size).over = over /\ Half(bs, n, skip, size).took = took
      /\ Half(bs, n, skip, size).end = bs + over + took
  BY <1>1, <1>2 DEF Half, Lesser
<1>5. QED BY <1>3, <1>4 DEF IsHalf

\* The two halves of a copy: o and o2 are passed over, t and t2 are taken, the
\* second ones from bs on.
Halves(skip, size, o, t, bs, o2, t2) ==
  /\ o + o2 <= skip /\ t + t2 <= size /\ (t > 0 => o2 = 0)
  /\ IF bufstart > bufend
     THEN /\ o + t <= buflen - bufstart
          /\ o + t = buflen - bufstart \/ (o = skip /\ t = size)
     ELSE o = 0 /\ t = 0
  /\ bs = IF bufstart + o + t = buflen THEN 0 ELSE bufstart + o + t
  /\ IF bs < bufend
     THEN /\ o2 + t2 <= bufend - bs
          /\ o2 + t2 = bufend - bs \/ (o + o2 = skip /\ t + t2 = size)
     ELSE o2 = 0 /\ t2 = 0
  /\ Copy(skip, size).c = t + t2 /\ Copy(skip, size).skipped = o + o2
  /\ Copy(skip, size).end = bs + o2 + t2
  /\ Copy(skip, size).bytes = [i \in 1..t |-> buf[bufstart + o + i - 1]]
                                \o [i \in 1..t2 |-> buf[bs + o2 + i - 1]]

LEMMA CopyHalves ==
  ASSUME IndexInv, NEW skip \in Nat, NEW size \in Nat
  PROVE  \E o, t, bs, o2, t2 \in Nat : Halves(skip, size, o, t, bs, o2, t2)
<1>0. /\ bufstart \in Nat /\ bufend \in Nat /\ buflen \in Nat
      /\ bufstart < buflen /\ bufend < buflen
  BY DEF IndexInv
<1>1. PICK upper, bs, lower :
        /\ upper = IF bufstart > bufend THEN Half(bufstart, buflen - bufstart, skip, size)
                                        ELSE Half(bufstart, 0, 0, 0)
        /\ bs = IF upper.end = buflen THEN 0 ELSE upper.end
        /\ lower = IF bs < bufend
                   THEN Half(bs, bufend - bs, skip - upper.over, size - upper.took)
                   ELSE Half(bs, 0, 0, 0)
        /\ Copy(skip, size).c = upper.took + lower.took
        /\ Copy(skip, size).skipped = upper.over + lower.over
        /\ Copy(skip, size).end = lower.end
        /\ Copy(skip, size).bytes = upper.bytes \o lower.bytes
  BY DEF Copy
<1>2. /\ upper = IF bufstart > bufend THEN Half(bufstart, buflen - bufstart, skip, size)
                                      ELSE Half(bufstart, 0, 0, 0)
      /\ bs = IF upper.end = buflen THEN 0 ELSE upper.end
      /\ lower = IF bs < bufend
                 THEN Half(bs, bufend - bs, skip - upper.over, size - upper.took)
                 ELSE Half(bs, 0, 0, 0)
      /\ Copy(skip, size).c = upper.took + lower.took
      /\ Copy(skip, size).skipped = upper.over + lower.over
      /\ Copy(skip, size).end = lower.end
  BY <1>1
<1>3. Copy(skip, size).bytes = upper.bytes \o lower.bytes
  BY <1>1
<1>4. IF bufstart > bufend THEN IsHalf(upper, bufstart, buflen - bufstart, skip, size)
                           ELSE IsHalf(upper, bufstart, 0, 0, 0)
  <2>1. CASE bufstart > bufend
    <3>1. buflen - bufstart \in Nat
      BY <1>0
    <3>2. upper = Half(bufstart, buflen - bufstart, skip, size)
      BY <1>2, <2>1
    <3>3. IsHalf(upper, bufstart, buflen - bufstart, skip, size)
      BY <1>0, <3>1, <3>2, HalfLengths
    <3>4. QED BY <2>1, <3>3
  <2>2. CASE ~(bufstart > bufend)
    <3>1. upper = Half(bufstart, 0, 0, 0)
      BY <1>2, <2>2
    <3>2. IsHalf(upper, bufstart, 0, 0, 0)
      BY <1>0, <3>1, HalfLengths
    <3>3. QED BY <2>2, <3>2
  <2>3. QED BY <2>1, <2>2
<1>5. PICK o \in Nat, t \in Nat :
        /\ upper.over = o /\ upper.took = t /\ upper.end = bufstart + o + t
        /\ o <= skip /\ t <= size /\ (t > 0 => o = skip)
        /\ IF bufstart > bufend
           THEN /\ o + t <= buflen - bufstart
                /\ o + t = buflen - bufstart \/ (o = skip /\ t = size)
           ELSE o = 0 /\ t = 0
  BY <1>0, <1>4 DEF IsHalf
<1>6. /\ bs \in Nat
      /\ bs = IF bufstart + o + t = buflen THEN 0 ELSE bufstart + o + t
  BY <1>0, <1>2, <1>5
<1>7. IF bs < bufend THEN IsHalf(lower, bs, bufend - bs, skip - o, size - t)
                     ELSE IsHalf(lower, bs, 0, 0, 0)
  <2>1. lower = IF bs < bufend THEN Half(bs, bufend - bs, skip - o, size - t)
                               ELSE Half(bs, 0, 0, 0)
    BY <1>2, <1>5
  <2>2. skip - o \in Nat /\ size - t \in Nat
    BY <1>5
  <2>3. CASE bs < bufend
    <3>1. bufend - bs \in Nat
      BY <1>0, <1>6, <2>3
    <3>2. IsHalf(lower, bs, bufend - bs, skip - o, size - t)
      BY <1>6, <2>1, <2>2, <2>3, <3>1, HalfLengths
    <3>3. QED BY <2>3, <3>2
  <2>4. CASE ~(bs < bufend)
    <3>1. IsHalf(lower, bs, 0, 0, 0)
      BY <1>6, <2>1, <2>4, HalfLengths
    <3>2. QED BY <2>4, <3>1
  <2>5. QED BY <2>3, <2>4
<1>8. PICK o2 \in Nat, t2 \in Nat :
        /\ lower.over = o2 /\ lower.took = t2 /\ lower.end = bs + o2 + t2
        /\ o + o2 <= skip /\ t + t2 <= size
        /\ IF bs < bufend
           THEN /\ o2 + t2 <= bufend - bs
                /\ o2 + t2 = bufend - bs \/ (o + o2 = skip /\ t + t2 = size)
           ELSE o2 = 0 /\ t2 = 0
  BY <1>0, <1>5, <1>6, <1>7 DEF IsHalf
<1>9. /\ Copy(skip, size).c = t + t2 /\ Copy(skip, size).skipped = o + o2
      /\ Copy(skip, size).end = bs + o2 + t2
  BY <1>2, <1>5, <1>8
<1>10. Copy(skip, size).bytes = [i \in 1..t |-> buf[bufstart + o + i - 1]]
                                    \o [i \in 1..t2 |-> buf[bs + o2 + i - 1]]
  <2>1. upper.bytes = [i \in 1..upper.took |-> buf[bufstart + upper.over + i - 1]]
    BY <1>2 DEF Half
  <2>2. lower.bytes = [i \in 1..lower.took |-> buf[bs + lower.over + i - 1]]
    BY <1>2 DEF Half
  <2>3. upper.over = o /\ upper.took = t /\ lower.over = o2 /\ lower.took = t2
    BY <1>5, <1>8
  <2>4. QED BY <1>3, <2>1, <2>2, <2>3, Zenon
<1>11. Halves(skip, size, o, t, bs, o2, t2)
  BY <1>5, <1>6, <1>8, <1>9, <1>10 DEF Halves
<1>12. QED BY <1>6, <1>11

\* What a peek or a read passes over and what it gets lies in the content; it
\* gets something if there is anything beyond what it skips.
LEMMA CopyLengths ==
  ASSUME IndexInv, NEW skip \in Nat, NEW size \in Nat
  PROVE  /\ Copy(skip, size).c \in 0..size /\ Copy(skip, size).skipped \in 0..skip
         /\ Copy(skip, size).c + Copy(skip, size).skipped <= Used
         /\ Copy(skip, size).c = 0 /\ size > 0 => Used <= skip
         /\ skip = 0 => LET end == Copy(skip, size).end
                        IN /\ end \in 0..buflen - 1
                           /\ Used - Copy(skip, size).c =
                                IF end <= bufend THEN bufend - end
                                ELSE bufend + (buflen - end)
<1>0. /\ bufstart \in Nat /\ bufend \in Nat /\ buflen \in Nat
      /\ bufstart < buflen /\ bufend < buflen
  BY DEF IndexInv
<1>1. PICK o, t, bs, o2, t2 \in Nat : Halves(skip, size, o, t, bs, o2, t2)
  BY CopyHalves
<1>2. /\ o + o2 + t + t2 <= Used
      /\ t + t2 = 0 /\ size > 0 => Used <= skip
  BY <1>0, <1>1 DEF Used, Halves
<1>3. skip = 0 => /\ bs + o2 + t2 \in 0..buflen - 1
                  /\ Used - (t + t2) = IF bs + o2 + t2 <= bufend
                                       THEN bufend - (bs + o2 + t2)
                                       ELSE bufend + (buflen - (bs + o2 + t2))
  BY <1>0, <1>1 DEF Used, Halves
<1>4. QED BY <1>1, <1>2, <1>3 DEF Halves

-----------------------------------------------------------------------------
\* Writes.

LEMMA Mod ==
  ASSUME NEW n \in Nat \ {0}, NEW x \in Nat, x <= n
  PROVE  x % n = IF x = n THEN 0 ELSE x
OBVIOUS

\* There is room for n bytes, in the buffer or in a longer one.
RoomFor(n) == bufmax = 0 \/ Usable >= n \/ (Excess < 0 /\ Usable - Excess >= n)

LEMMA UsableRange ==
  ASSUME IndexInv, RoomInv
  PROVE  /\ Usable \in Int
         /\ bufmax > 0 => Usable \in Nat
         /\ bufmax > 0 /\ Excess > 0 => Usable = bufmax + bufmaxextra - 1 - Used
         /\ bufmax = 0 \/ Excess <= 0 => Usable = buflen - 1 - Used
BY UsedAvail DEF IndexInv, RoomInv, Usable, Excess

LEMMA WritableRange ==
  ASSUME IndexInv, RoomInv, NEW len \in Nat
  PROVE  /\ Writable(len) \in 0..len
         /\ RoomFor(Writable(len))
         /\ Writable(len) < len =>
              /\ bufmax > 0
              /\ Writable(len) = IF Excess < 0 THEN Usable - Excess ELSE Usable
BY UsableRange, UsedAvail DEF IndexInv, Writable, RoomFor, Lesser

\* After a string is stored, the indices are as much further apart as it is
\* long, in the old buffer or in the new one.
LEMMA GrowLengths ==
  ASSUME IndexInv, RoomInv, NEW s \in Seq(Byte), RoomFor(Len(s)), Usable < Len(s), Grow(s),
         UNCHANGED <<bufmax, bufmaxextra>>
  PROVE  IndexInv' /\ Used' = Used + Len(s) /\ buflen' >= buflen
<1> DEFINE len == Len(s)
<1>1. len \in Nat
  OBVIOUS
<1>2. buflen' = newlen(len) /\ bufstart' = 0 /\ bufend' = Used + len
  BY DEF Grow
<1> HIDE DEF len
<1>3. newlen(len) \in Nat /\ newlen(len) > Used + len /\ newlen(len) >= buflen
  <2>1. RoomFor(len) /\ Usable < len
    BY DEF len
  <2>2. QED BY <1>1, <2>1, UsedAvail, UsableRange DEF newlen, RoomFor, Lesser, IndexInv, Excess
<1>4. IndexInv'
  BY <1>1, <1>2, <1>3, UsedAvail DEF IndexInv
<1>5. Used' = Used + len
  BY <1>1, <1>2, UsedAvail DEF Used
<1>6. QED BY <1>2, <1>3, <1>4, <1>5, UsedAvail DEF len, IndexInv

LEMMA FillLengths ==
  ASSUME IndexInv, RoomInv, NEW s \in Seq(Byte), Len(s) <= Usable, Fill(s),
         UNCHANGED <<bufmax, bufmaxextra>>
  PROVE  IndexInv' /\ Used' = Used + Len(s) /\ buflen' >= buflen
<1>1. Len(s) \in Nat
  OBVIOUS
<1> DEFINE most == IF bufstart > bufend THEN Avail
                   ELSE IF bufstart = 0 THEN buflen - bufend - 1
                   ELSE buflen - bufend
           firstn == Lesser(Len(s), most)
<1>2. /\ bufend' = IF Len(s) - firstn = 0 THEN (bufend + Len(s)) % buflen ELSE Len(s) - firstn
      /\ UNCHANGED <<buflen, bufstart>>
  BY DEF Fill
<1>3. most \in Nat
  BY UsedAvail DEF IndexInv
<1>4. firstn = IF Len(s) < most THEN Len(s) ELSE most
  BY DEF Lesser
<1> HIDE DEF firstn
<1>5. Used + Len(s) <= buflen - 1
  BY <1>1, UsedAvail, UsableRange DEF Usable, Excess, IndexInv
<1>6. CASE Len(s) = firstn
  <2>1. bufend + Len(s) <= buflen
    BY <1>1, <1>3, <1>4, <1>6, UsedAvail DEF IndexInv, Used
  <2>2. bufend' = IF bufend + Len(s) = buflen THEN 0 ELSE bufend + Len(s)
    <3>1. bufend + Len(s) \in Nat /\ buflen \in Nat \ {0}
      BY <1>1 DEF IndexInv
    <3>2. (bufend + Len(s)) % buflen = IF bufend + Len(s) = buflen THEN 0 ELSE bufend + Len(s)
      BY <2>1, <3>1, Mod
    <3>3. bufend' = (bufend + Len(s)) % buflen
      BY <1>1, <1>2, <1>6
    <3>4. QED BY <3>2, <3>3
  <2>3. QED BY <1>1, <1>2, <1>5, <2>1, <2>2 DEF IndexInv, Used
<1>7. CASE Len(s) # firstn
  <2>1. firstn = most /\ bufend' = Len(s) - most /\ most < Len(s)
    BY <1>1, <1>2, <1>3, <1>4, <1>7
  <2>2. bufstart <= bufend /\ bufstart > 0 /\ most = buflen - bufend
    BY <1>1, <1>5, <2>1, UsedAvail DEF IndexInv, Used
  <2>3. QED BY <1>1, <1>2, <1>5, <2>1, <2>2 DEF IndexInv, Used
<1>8. QED BY <1>6, <1>7

LEMMA StoreLengths ==
  ASSUME IndexInv, RoomInv, NEW s \in Seq(Byte), RoomFor(Len(s)), Store(s),
         UNCHANGED <<bufmax, bufmaxextra>>
  PROVE  /\ IndexInv' /\ Used' = Used + Len(s) /\ buflen' >= buflen
         /\ wakeup_on_write' = IF s = <<>> THEN wakeup_on_write ELSE {}
<1>1. CASE s = <<>>
  <2>1. UNCHANGED <<buf, buflen, bufstart, bufend, wakeup_on_write>> /\ Len(s) = 0
    BY <1>1 DEF Store
  <2>2. QED BY <1>1, <2>1, UsedAvail DEF IndexInv, Used
<1>2. CASE s # <<>>
  <2>1. Len(s) \in Nat /\ Usable \in Int
    BY UsableRange
  <2>2. CASE Usable < Len(s)
    BY <1>2, <2>2, GrowLengths DEF Store, pipe_did_write
  <2>3. CASE Len(s) <= Usable
    <3>1. Fill(s) /\ wakeup_on_write' = {}
      BY <1>2, <2>1, <2>3 DEF Store, pipe_did_write
    <3>2. QED BY <1>2, <2>3, <3>1, FillLengths
  <2>4. QED BY <2>1, <2>2, <2>3
<1>3. QED BY <1>1, <1>2

LEMMA Parts ==
  ASSUME NEW s \in Seq(Byte), NEW n \in 0..Len(s)
  PROVE  /\ SubSeq(s, 1, n) \in Seq(Byte) /\ Len(SubSeq(s, 1, n)) = n
         /\ SubSeq(s, n + 1, Len(s)) \in Seq(Byte)
         /\ Len(SubSeq(s, n + 1, Len(s))) = Len(s) - n
         /\ SubSeq(s, 1, n) = <<>> <=> n = 0
OBVIOUS

\* The room after n bytes are stored is still not negative; and when the writer
\* stored as many as there was room for, in mode 0 and 1, and waits, the pipe is
\* full.
LEMMA TryStep ==
  ASSUME IInv, NEW w \in Writer, NEW s \in Seq(Byte), NEW mode \in Nat, Try(w, s, mode),
         w \notin wakeup_on_read
  PROVE  IInv'
<1> USE DEF IInv
<1>0. UNCHANGED <<bufmax, bufmaxextra, eof, closed, peeking>>
  BY DEF Try
<1>1. CASE eof
  <2>1. /\ writing' = [writing EXCEPT ![w] = Done]
        /\ UNCHANGED <<buf, buflen, indices, sleepers>>
    BY <1>1 DEF Try
  <2>2. IndexInv' /\ RoomInv'
    BY <1>0, <2>1 DEF IndexInv, RoomInv, Used, indices
  <2>3. CallInv'
    BY <1>0, <2>1 DEF CallInv, Done, sleepers
  <2>4. SleepersInv'
    BY <1>0, <1>1, <2>1 DEF SleepersInv, sleepers
  <2>5. QED BY <2>2, <2>3, <2>4
<1>2. CASE ~eof
  <2> DEFINE n == Writable(Len(s))
  <2>1. /\ Len(s) \in Nat /\ n \in 0..Len(s) /\ RoomFor(n)
        /\ n < Len(s) => /\ bufmax > 0
                         /\ n = IF Excess < 0 THEN Usable - Excess ELSE Usable
    BY WritableRange
  <2>2. /\ Store(SubSeq(s, 1, n))
        /\ \/ /\ writing' = [writing EXCEPT ![w] = Done]
              /\ UNCHANGED wakeup_on_read
           \/ /\ n # Len(s)
              /\ writing' = [writing EXCEPT ![w] =
                              [rest |-> SubSeq(s, n + 1, Len(s)), mode |-> mode]]
              /\ WaitForRoom(w)
    BY <1>2 DEF Try, Rest
  <2> HIDE DEF n
  <2>3. /\ IndexInv' /\ Used' = Used + n /\ buflen' >= buflen
        /\ wakeup_on_write' = IF n = 0 THEN wakeup_on_write ELSE {}
    <3> DEFINE part == SubSeq(s, 1, n)
    <3>1. part \in Seq(Byte) /\ Len(part) = n /\ (part = <<>> <=> n = 0)
      BY <2>1, Parts
    <3>2. Store(part)
      BY <2>2
    <3> HIDE DEF part
    <3>3. /\ IndexInv' /\ Used' = Used + n /\ buflen' >= buflen
          /\ wakeup_on_write' = IF part = <<>> THEN wakeup_on_write ELSE {}
      BY <1>0, <2>1, <3>1, <3>2, StoreLengths
    <3>4. QED BY <3>1, <3>3
  <2>4. RoomInv'
    <3>1. bufmax > 0 => Used + n <= bufmax - 1 + bufmaxextra
      BY <2>1, UsableRange, UsedAvail DEF RoomFor, IndexInv, Excess, RoomInv
    <3>2. QED BY <1>0, <2>1, <2>3, <3>1, UsedAvail DEF RoomInv, IndexInv
  <2>5. n < Len(s) => /\ bufmax > 0 /\ buflen' >= bufmax
                      /\ Used' >= bufmax - 1
    <3>1. ASSUME n < Len(s), Excess >= 0
          PROVE  buflen' >= bufmax /\ Used' >= bufmax - 1
      <4>1. n = Usable /\ buflen >= bufmax + bufmaxextra /\ bufmax > 0
        BY <2>1, <3>1, UsedAvail DEF IndexInv, Excess
      <4>2. Used + n >= bufmax - 1
        BY <4>1, UsableRange, UsedAvail DEF IndexInv, Excess
      <4>3. QED BY <2>3, <4>1, <4>2 DEF IndexInv
    <3>2. ASSUME n < Len(s), Excess < 0
          PROVE  Used' = bufmax + bufmaxextra - 1
      <4>1. n = Usable - Excess /\ Usable = buflen - 1 - Used
        BY <2>1, <3>2, UsableRange, UsedAvail
      <4>2. Used + n = bufmax + bufmaxextra - 1
        BY <4>1, UsedAvail DEF IndexInv, Excess
      <4>3. QED BY <2>3, <4>2
    <3>3. ASSUME n < Len(s), Excess < 0
          PROVE  buflen' >= bufmax /\ Used' >= bufmax - 1
      <4>0. IndexInv'
        BY <2>3
      <4>1. Used' \in 0..buflen' - 1
        BY <4>0, UsedAfter
      <4>2. QED BY <2>3, <3>2, <3>3, <4>1 DEF IndexInv
    <3>4. QED BY <2>1, <3>1, <3>3, UsedAvail
  <2>6. CallInv'
    <3>1. CASE writing' = [writing EXCEPT ![w] = Done] /\ UNCHANGED wakeup_on_read
      BY <1>0, <2>3, <3>1 DEF CallInv, Done, IndexInv
    <3>2. CASE /\ n # Len(s)
               /\ writing' = [writing EXCEPT ![w] =
                               [rest |-> SubSeq(s, n + 1, Len(s)), mode |-> mode]]
               /\ WaitForRoom(w)
      <4>1. SubSeq(s, n + 1, Len(s)) \in Seq(Byte)
        BY <2>1, Parts
      <4>2. writing' \in [Writer -> [rest : Seq(Byte), mode : Nat]]
        BY <3>2, <4>1 DEF CallInv
      <4>3. \A u \in Writer : writing'[u] # Done => bufmax' > 0 /\ buflen' >= bufmax'
        BY <1>0, <2>1, <2>3, <2>5, <3>2 DEF CallInv, IndexInv
      <4>4. wakeup_on_read' \subseteq Writer /\ wakeup_on_write' \subseteq Reader
        BY <2>3, <3>2 DEF CallInv, WaitForRoom
      <4>5. QED BY <1>0, <4>2, <4>3, <4>4 DEF CallInv
    <3>3. QED BY <2>2, <3>1, <3>2
  <2>7. SleepersInv'
    <3>1. \A u \in wakeup_on_read' :
            writing'[u] # Done /\ ~eof' /\ Used' >= bufmax' - 1
      <4>1. CASE writing' = [writing EXCEPT ![w] = Done] /\ UNCHANGED wakeup_on_read
        BY <1>0, <1>2, <2>1, <2>3, <4>1, UsedAvail DEF SleepersInv, CallInv, IndexInv
      <4>2. CASE /\ n # Len(s)
                 /\ writing' = [writing EXCEPT ![w] =
                                 [rest |-> SubSeq(s, n + 1, Len(s)), mode |-> mode]]
                 /\ WaitForRoom(w)
        <5>1. SubSeq(s, n + 1, Len(s)) # <<>>
          <6>1. Len(SubSeq(s, n + 1, Len(s))) > 0
            BY <2>1, <4>2, Parts
          <6> DEFINE rest == SubSeq(s, n + 1, Len(s))
          <6>2. Len(rest) > 0
            BY <6>1
          <6> HIDE DEF rest
          <6>3. rest # <<>>
            BY <6>2
          <6>4. QED BY <6>3 DEF rest
        <5>2. writing'[w] # Done
          BY <4>2, <5>1 DEF CallInv, Done
        <5>3. \A u \in wakeup_on_read' : u = w \/ u \in wakeup_on_read
          BY <4>2 DEF WaitForRoom
        <5>4. \A u \in wakeup_on_read : writing'[u] = writing[u]
          BY <4>2 DEF CallInv
        <5>5. Used' >= bufmax' - 1
          BY <1>0, <2>1, <2>5, <4>2
        <5>6. QED BY <1>0, <1>2, <5>2, <5>3, <5>4, <5>5 DEF SleepersInv
      <4>3. QED BY <2>2, <4>1, <4>2
    <3>2. \A r \in wakeup_on_write' :
            peeking'[r] # Quiet /\ ~eof' /\ Used' <= peeking'[r].skip
      BY <1>0, <2>3, UsedAvail DEF SleepersInv
    <3>3. QED BY <3>1, <3>2 DEF SleepersInv
  <2>8. QED BY <2>3, <2>4, <2>6, <2>7
<1>3. QED BY <1>1, <1>2

LEMMA RetryStep ==
  ASSUME IInv, NEW w \in Writer, Retry(w)
  PROVE  IInv'
<1>1. /\ writing[w].rest \in Seq(Byte) /\ writing[w].mode \in Nat
      /\ writing[w] # Done /\ w \notin wakeup_on_read
  BY DEF Retry, IInv, CallInv
<1>2. CASE Usable # 0 \/ eof
  BY <1>1, <1>2, TryStep DEF Retry
<1>3. CASE Usable = 0 /\ ~eof
  <2>1. /\ UNCHANGED <<buf, buflen, bufmax, bufmaxextra, indices, eof, closed,
                       wakeup_on_write, writing, peeking>>
        /\ wakeup_on_read' \subseteq wakeup_on_read \cup {w}
    BY <1>3 DEF Retry, WaitForRoom
  <2>2. Used >= bufmax - 1
    BY <1>1, <1>3, UsableRange, UsedAvail DEF IInv, CallInv, IndexInv
  <2>3. IndexInv' /\ RoomInv' /\ Used' = Used
    BY <2>1 DEF IInv, IndexInv, RoomInv, Used, indices
  <2>4. CallInv'
    BY <2>1 DEF IInv, CallInv
  <2>5. SleepersInv'
    BY <1>1, <1>3, <2>1, <2>2, <2>3 DEF IInv, SleepersInv
  <2>6. QED BY <2>3, <2>4, <2>5 DEF IInv
<1>4. QED BY <1>2, <1>3

LEMMA WriteStep ==
  ASSUME IInv, NEW w \in Writer, NEW s \in Text, NEW mode \in 0..2, Write(w, s, mode)
  PROVE  IInv'
<1>1. s \in Seq(Byte) /\ mode \in Nat
  BY PipeAssumption
<1>2. w \notin wakeup_on_read /\ Try(w, s, mode)
  BY DEF Write, IInv, SleepersInv
<1>3. QED BY <1>1, <1>2, TryStep

\* What changes nothing but who sleeps, and wakes or calls off threads only.
LEMMA CalledOff ==
  ASSUME IInv, UNCHANGED <<buflen, bufmax, bufmaxextra, indices>>,
         wakeup_on_read' \subseteq wakeup_on_read,
         wakeup_on_write' \subseteq wakeup_on_write,
         eof' => eof \/ wakeup_on_read' \cup wakeup_on_write' = {},
         \/ writing' = writing
         \/ \E w \in Writer \ wakeup_on_read' : writing' = [writing EXCEPT ![w] = Done],
         \/ peeking' = peeking
         \/ \E r \in Reader \ wakeup_on_write' : peeking' = [peeking EXCEPT ![r] = Quiet]
  PROVE  IInv'
<1>1. IndexInv' /\ RoomInv' /\ Used' = Used
  BY DEF IInv, IndexInv, RoomInv, Used, indices
<1>2. /\ writing' \in [Writer -> [rest : Seq(Byte), mode : Nat]]
      /\ \A w \in Writer : writing'[w] # Done => writing[w] # Done
      /\ \A w \in wakeup_on_read' : writing'[w] = writing[w]
  <2>1. Done \in [rest : Seq(Byte), mode : Nat]
    BY DEF Done
  <2>2. writing \in [Writer -> [rest : Seq(Byte), mode : Nat]] /\ wakeup_on_read \subseteq Writer
    BY DEF IInv, CallInv
  <2>3. CASE \E w \in Writer \ wakeup_on_read' : writing' = [writing EXCEPT ![w] = Done]
    BY <2>1, <2>2, <2>3
  <2>4. QED BY <2>2, <2>3
<1>3. /\ peeking' \in [Reader -> [size : Nat, skip : Nat]]
      /\ \A r \in Reader : peeking'[r] \in {peeking[r], Quiet}
      /\ \A r \in wakeup_on_write' : peeking'[r] = peeking[r]
  <2>1. Quiet \in [size : Nat, skip : Nat]
    BY DEF Quiet
  <2>2. peeking \in [Reader -> [size : Nat, skip : Nat]] /\ wakeup_on_write \subseteq Reader
    BY DEF IInv, CallInv
  <2>3. CASE \E r \in Reader \ wakeup_on_write' : peeking' = [peeking EXCEPT ![r] = Quiet]
    BY <2>1, <2>2, <2>3
  <2>4. QED BY <2>2, <2>3
<1>4. CallInv'
  BY <1>2, <1>3 DEF IInv, CallInv
<1>5. SleepersInv'
  BY <1>1, <1>2, <1>3 DEF IInv, SleepersInv
<1>6. QED BY <1>1, <1>4, <1>5 DEF IInv

LEMMA StopStep ==
  ASSUME IInv, \/ \E w \in Writer : StopWriter(w)
               \/ \E r \in Reader : StopPeeker(r)
               \/ \E port \in {"in", "out"} : Close(port)
               \/ UNCHANGED vars
  PROVE  IInv'
<1>1. CASE \E w \in Writer : StopWriter(w)
  <2>1. PICK w \in Writer : StopWriter(w)
    BY <1>1
  <2>2. /\ w \in Writer \ wakeup_on_read' /\ wakeup_on_read' \subseteq wakeup_on_read
        /\ writing' = [writing EXCEPT ![w] = Done]
        /\ UNCHANGED <<buflen, bufmax, bufmaxextra, indices, eof, wakeup_on_write, peeking>>
    BY <2>1 DEF StopWriter
  <2>3. QED BY <2>2, CalledOff
<1>2. CASE \E r \in Reader : StopPeeker(r)
  <2>1. PICK r \in Reader : StopPeeker(r)
    BY <1>2
  <2>2. /\ r \in Reader \ wakeup_on_write' /\ wakeup_on_write' \subseteq wakeup_on_write
        /\ peeking' = [peeking EXCEPT ![r] = Quiet]
        /\ UNCHANGED <<buflen, bufmax, bufmaxextra, indices, eof, wakeup_on_read, writing>>
    BY <2>1 DEF StopPeeker
  <2>3. QED BY <2>2, CalledOff
<1>3. CASE \E port \in {"in", "out"} : Close(port)
  BY <1>3, CalledOff DEF Close, WokenByClose
<1>4. CASE UNCHANGED vars
  BY <1>4, CalledOff DEF vars, indices
<1>5. QED BY <1>1, <1>2, <1>3, <1>4

-----------------------------------------------------------------------------
\* Reads and peeks.

\* A read brings the content and the room that peeks made down together.
LEMMA GetStep ==
  ASSUME IInv, NEW r \in Reader, NEW size \in 1..MaxLen, Get(r, size)
  PROVE  IInv'
<1> USE DEF IInv
<1>0. size \in Nat /\ size > 0
  BY PipeAssumption
<1>1. CASE Empty
  BY <1>1, CalledOff DEF Get, Returns, sleepers
<1>2. CASE ~Empty
  <2>1. PICK c \in Nat, end \in 0..buflen - 1 :
          /\ c = Copy(0, size).c /\ end = Copy(0, size).end
          /\ c <= Used
          /\ Used - c = IF end <= bufend THEN bufend - end ELSE bufend + (buflen - end)
    <3>1. 0 \in Nat /\ 0 = 0
      OBVIOUS
    <3>2. /\ Copy(0, size).c \in 0..size /\ Copy(0, size).skipped \in 0..0
          /\ Copy(0, size).c + Copy(0, size).skipped <= Used
          /\ Copy(0, size).end \in 0..buflen - 1
          /\ Used - Copy(0, size).c =
               IF Copy(0, size).end <= bufend THEN bufend - Copy(0, size).end
               ELSE bufend + (buflen - Copy(0, size).end)
      BY <1>0, <3>1, CopyLengths
    <3>3. Copy(0, size).c \in Nat /\ Copy(0, size).c <= Used
      BY <1>0, <3>2
    <3>4. QED BY <3>2, <3>3
  <2>2. /\ bufstart' = end /\ Spend(c) /\ wakeup_on_read' = {}
        /\ UNCHANGED <<buflen, bufmax, bufend, eof, closed, wakeup_on_write, writing, peeking>>
    BY <1>2, <2>1 DEF Get, pipe_did_read
  <2>3. Used' = Used - c
    BY <2>1, <2>2 DEF Used
  <2>4. IndexInv'
    BY <2>1, <2>2 DEF IndexInv, Spend
  <2>5. RoomInv'
    BY <2>1, <2>2, <2>3, UsedAvail DEF RoomInv, Spend, IndexInv
  <2>6. CallInv'
    BY <2>2 DEF CallInv
  <2>7. SleepersInv'
    <3>1. \A q \in wakeup_on_write : Used - c <= peeking[q].skip
      BY <2>1, UsedAvail DEF SleepersInv, CallInv
    <3>2. QED BY <2>2, <2>3, <3>1 DEF SleepersInv
  <2>8. QED BY <2>4, <2>5, <2>6, <2>7
<1>3. QED BY <1>1, <1>2

\* A peek stretches the limit by no more than it saw, and sleeps only when what
\* it asks for is not there.
LEMMA LookStep ==
  ASSUME IInv, NEW r \in Reader, r \notin wakeup_on_write,
         NEW size \in Nat \ {0}, NEW skip \in Nat, Look(r, size, skip)
  PROVE  IInv'
<1> USE DEF IInv
<1>1. PICK c \in Nat, skipped \in Nat :
        /\ c = Copy(skip, size).c /\ skipped = Copy(skip, size).skipped
        /\ c <= size /\ c + skipped <= Used
        /\ c = 0 => Used <= skip
  BY CopyLengths
<1>2. CASE "in" \in closed \/ (c = 0 /\ eof)
  <2>1. /\ peeking' = [peeking EXCEPT ![r] = Quiet]
        /\ UNCHANGED <<buflen, bufmax, bufmaxextra, indices, eof, sleepers, writing>>
    BY <1>1, <1>2 DEF Look, Returns
  <2>2. QED BY <2>1, CalledOff DEF sleepers
<1>3. CASE ~("in" \in closed \/ (c = 0 /\ eof))
  <2> DEFINE more == [size |-> size - c, skip |-> skip + c]
  <2>1. /\ \E enough \in {c = size, c > 0} :
             peeking' = [peeking EXCEPT ![r] = IF enough THEN Quiet ELSE more]
        /\ IF c = 0
           THEN /\ wakeup_on_write' = wakeup_on_write \cup {r}
                /\ UNCHANGED bufmaxextra
           ELSE Stretch(c + skipped) /\ UNCHANGED wakeup_on_write
        /\ UNCHANGED <<buf, buflen, bufmax, indices, eof, closed, wakeup_on_read, writing>>
    BY <1>1, <1>3 DEF Look
  <2>2. /\ more \in [size : Nat, skip : Nat]
        /\ c < size => more.size > 0
        /\ c = 0 => more.skip = skip
    BY <1>1
  <2> HIDE DEF more
  <2>3. /\ peeking' = [peeking EXCEPT ![r] = Quiet]
           \/ (c < size /\ peeking' = [peeking EXCEPT ![r] = more])
        /\ c = 0 => peeking' = [peeking EXCEPT ![r] = more]
    <3>1. \/ peeking' = [peeking EXCEPT ![r] = IF c = size THEN Quiet ELSE more]
          \/ peeking' = [peeking EXCEPT ![r] = IF c > 0 THEN Quiet ELSE more]
      BY <2>1
    <3>2. CASE c = 0
      BY <1>1, <3>1, <3>2
    <3>3. CASE c = size
      BY <1>1, <3>1, <3>3
    <3>4. CASE c # 0 /\ c < size
      BY <1>1, <3>1, <3>4
    <3>5. QED BY <1>1, <3>2, <3>3, <3>4
  <2>4. IndexInv' /\ Used' = Used
    BY <1>1, <2>1, UsedAvail DEF IndexInv, Used, Stretch, indices
  <2>5. RoomInv'
    BY <1>1, <2>1, <2>4, UsedAvail DEF RoomInv, Stretch, IndexInv
  <2>6. CallInv'
    <3>1. /\ peeking' \in [Reader -> [size : Nat, skip : Nat]]
          /\ \A q \in Reader : peeking'[q] # Quiet => peeking'[q].size > 0
      <4>1. Quiet \in [size : Nat, skip : Nat]
        BY DEF Quiet
      <4>2. CASE peeking' = [peeking EXCEPT ![r] = Quiet]
        BY <4>1, <4>2 DEF CallInv
      <4>3. CASE c < size /\ peeking' = [peeking EXCEPT ![r] = more]
        BY <2>2, <4>3 DEF CallInv
      <4>4. QED BY <2>3, <4>2, <4>3
    <3>2. QED BY <2>1, <3>1 DEF CallInv
  <2>7. SleepersInv'
    <3>1. \A q \in wakeup_on_write : peeking'[q] = peeking[q]
      BY <2>3 DEF CallInv
    <3>2. c = 0 => /\ ~eof /\ peeking'[r].skip = skip /\ peeking'[r].size > 0
                   /\ Used <= skip
      BY <1>1, <1>3, <2>2, <2>3 DEF CallInv
    <3>3. \A q \in wakeup_on_write' :
            peeking'[q] # Quiet /\ ~eof' /\ Used' <= peeking'[q].skip
      BY <2>1, <2>4, <3>1, <3>2 DEF SleepersInv, Quiet
    <3>4. \A w \in wakeup_on_read' : writing'[w] # Done /\ ~eof' /\ Used' >= bufmax' - 1
      BY <2>1, <2>4 DEF SleepersInv
    <3>5. QED BY <3>3, <3>4 DEF SleepersInv
  <2>8. QED BY <2>4, <2>5, <2>6, <2>7
<1>4. QED BY <1>2, <1>3

LEMMA PeekStep ==
  ASSUME IInv, NEW r \in Reader, NEW size \in 1..MaxLen, NEW skip \in 0..MaxPeek - 1,
         Peek(r, size, skip)
  PROVE  IInv'
<1>1. size \in Nat \ {0} /\ skip \in Nat
  BY PipeAssumption
<1>2. r \notin wakeup_on_write
  BY DEF Peek, IInv, SleepersInv
<1>3. QED BY <1>1, <1>2, LookStep DEF Peek

LEMMA PeekOnStep ==
  ASSUME IInv, NEW r \in Reader, PeekOn(r)
  PROVE  IInv'
<1>1. peeking[r].size \in Nat \ {0} /\ peeking[r].skip \in Nat
  BY DEF PeekOn, IInv, CallInv
<1>2. QED BY <1>1, LookStep DEF PeekOn

-----------------------------------------------------------------------------
LEMMA InitHolds == Init => IInv
<1> SUFFICES ASSUME Init PROVE IInv
  OBVIOUS
<1>1. PICK limit \in Limits :
        /\ bufmax = IF limit > 0 THEN limit + 1 ELSE 0
        /\ buflen = IF limit > 0 THEN Lesser(limit + 1, InitLen) ELSE InitLen
        /\ bufmaxextra = 0 /\ bufstart = 0 /\ bufend = 0
        /\ wakeup_on_read = {} /\ wakeup_on_write = {}
        /\ writing = [w \in Writer |-> Done]
        /\ peeking = [r \in Reader |-> Quiet]
  BY DEF Init
<1>2. limit \in Nat /\ InitLen \in Nat \ {0}
  BY PipeAssumption
<1>3. IndexInv
  BY <1>1, <1>2 DEF IndexInv, Lesser
<1>4. RoomInv
  BY <1>1, <1>2 DEF RoomInv, Used
<1>5. CallInv /\ SleepersInv
  BY <1>1 DEF CallInv, SleepersInv, Done, Quiet
<1>6. QED BY <1>3, <1>4, <1>5 DEF IInv

LEMMA StepHolds == IInv /\ [Next]_vars => IInv'
<1> SUFFICES ASSUME IInv, [Next]_vars PROVE IInv'
  OBVIOUS
<1>1. ASSUME NEW w \in Writer,
             (\E s \in Text, mode \in 0..2 : Write(w, s, mode)) \/ Retry(w)
      PROVE  IInv'
  BY <1>1, WriteStep, RetryStep
<1>2. ASSUME NEW r \in Reader,
             \/ \E size \in 1..MaxLen : Get(r, size)
             \/ \E size \in 1..MaxLen, skip \in 0..MaxPeek - 1 : Peek(r, size, skip)
             \/ PeekOn(r)
      PROVE  IInv'
  BY <1>2, GetStep, PeekStep, PeekOnStep
<1>3. QED BY <1>1, <1>2, StopStep DEF Next

LEMMA IInvAlways == Spec => []IInv
BY InitHolds, StepHolds, PTL DEF Spec

\* Room is never negative and peeks never add more than they saw of what is
\* still there: for any limit, any buffer at first, strings of any length and
\* any order of reads, peeks, writes, breaks and closes.
THEOREM RoomNeverNegative == Spec => []RoomInv
<1>1. IInv => RoomInv
  BY DEF IInv
<1>2. QED BY <1>1, IInvAlways, PTL

\* Nobody who sleeps on a pipe is forgotten: a writer sleeps only at a full
\* open pipe, and a peeker only before bytes that are not there and may come.
THEOREM SleepersNotForgotten == Spec => []SleepersInv
<1>1. IInv => SleepersInv
  BY DEF IInv
<1>2. QED BY <1>1, IInvAlways, PTL

-----------------------------------------------------------------------------
\* The bytes.  A content is taken as a function of four values - the cells, how
\* many there are, the first and the end - so that what a write or a read does to
\* it is a lemma about values; the lemmas about operations only say which values
\* those are.

\* Where the i-th byte is in a buffer of n cells whose first byte is in cell b.
Cell(n, b, i) == IF b + i - 1 < n THEN b + i - 1 ELSE b + i - 1 - n

UsedOf(n, b, e) == IF b <= e THEN e - b ELSE e + (n - b)

ContentOf(f, n, b, e) == [i \in 1..UsedOf(n, b, e) |-> f[Cell(n, b, i)]]

\* The remainder in the model is one subtraction, as in the code.
LEMMA CellIs ==
  ASSUME NEW n \in Nat \ {0}, NEW b \in 0..n - 1, NEW i \in 1..n
  PROVE  (b + i - 1) % n = Cell(n, b, i) /\ Cell(n, b, i) \in 0..n - 1
<1>1. PICK x \in Nat : x = b + i - 1
  OBVIOUS
<1>2. x < 2 * n
  BY <1>1
<1>3. x % n = IF x < n THEN x ELSE x - n
  <2>1. CASE x < n
    BY <2>1
  <2>2. CASE ~(x < n)
    BY <1>2, <2>2
  <2>3. QED BY <2>1, <2>2
<1>4. QED BY <1>1, <1>2, <1>3 DEF Cell

\* A buffer is never quite full.
LEMMA UsedOfIs ==
  ASSUME NEW n \in Nat \ {0}, NEW b \in 0..n - 1, NEW e \in 0..n - 1
  PROVE  UsedOf(n, b, e) \in 0..n - 1
BY DEF UsedOf

\* Content with the subtraction in place of the remainder.
LEMMA ContentIs ==
  ASSUME NEW f, NEW n \in Nat \ {0}, NEW b \in 0..n - 1, NEW e \in 0..n - 1
  PROVE  [i \in 1..UsedOf(n, b, e) |-> f[(b + i - 1) % n]] = ContentOf(f, n, b, e)
<1>1. UsedOf(n, b, e) \in 0..n - 1
  BY UsedOfIs
<1>2. \A i \in 1..UsedOf(n, b, e) : i \in 1..n
  BY <1>1
<1>3. \A i \in 1..UsedOf(n, b, e) : (b + i - 1) % n = Cell(n, b, i)
  BY <1>2, CellIs
<1>4. QED BY <1>3 DEF ContentOf

\* The content before a step, and after it, is that of the four values.
LEMMA ContentNow ==
  ASSUME IndexInv
  PROVE  Content = ContentOf(buf, buflen, bufstart, bufend) /\ Used = UsedOf(buflen, bufstart, bufend)
<1>1. Used = UsedOf(buflen, bufstart, bufend)
  BY DEF Used, UsedOf
<1>2. Content = [i \in 1..UsedOf(buflen, bufstart, bufend) |-> buf[(bufstart + i - 1) % buflen]]
  BY <1>1 DEF Content
<1>3. QED BY <1>1, <1>2, ContentIs DEF IndexInv

LEMMA ContentThen ==
  ASSUME IndexInv'
  PROVE  /\ Content' = ContentOf(buf', buflen', bufstart', bufend')
         /\ Used' = UsedOf(buflen', bufstart', bufend')
<1>1. PICK f, n, b, e : f = buf' /\ n = buflen' /\ b = bufstart' /\ e = bufend'
  OBVIOUS
<1>2. n \in Nat \ {0} /\ b \in 0..n - 1 /\ e \in 0..n - 1
  BY <1>1 DEF IndexInv
<1>3. Used' = UsedOf(n, b, e)
  BY <1>1 DEF Used, UsedOf
<1>4. Content' = [i \in 1..UsedOf(n, b, e) |-> f[(b + i - 1) % n]]
  BY <1>1, <1>3 DEF Content
<1>5. Content' = ContentOf(f, n, b, e)
  BY <1>2, <1>4, ContentIs
<1>6. QED BY <1>1, <1>3, <1>5

\* Two contents of one length, byte by byte.
LEMMA Appended ==
  ASSUME NEW V, NEW c \in Seq(V), NEW s \in Seq(V), NEW d \in Seq(V),
         Len(d) = Len(c) + Len(s),
         \A i \in 1..Len(c) : d[i] = c[i],
         \A i \in 1..Len(s) : d[Len(c) + i] = s[i]
  PROVE  d = c \o s
<1>1. Len(c) \in Nat /\ Len(s) \in Nat
  OBVIOUS
<1>2. ASSUME NEW i \in 1..Len(d)
      PROVE  d[i] = (c \o s)[i]
  <2>1. (c \o s)[i] = IF i <= Len(c) THEN c[i] ELSE s[i - Len(c)]
    BY ConcatProperties
  <2>2. CASE i <= Len(c)
    BY <2>1, <2>2, <1>1
  <2>3. CASE ~(i <= Len(c))
    <3>1. i - Len(c) \in 1..Len(s) /\ Len(c) + (i - Len(c)) = i
      BY <1>1, <2>3
    <3>2. QED BY <2>1, <2>3, <3>1
  <2>4. QED BY <2>2, <2>3
<1>3. c \o s \in Seq(V) /\ Len(c \o s) = Len(d)
  BY ConcatProperties
<1>4. QED BY <1>2, <1>3, SeqEqual

\* A content is a sequence if its cells hold what it is a sequence of.
LEMMA ContentSeq ==
  ASSUME NEW f, NEW n \in Nat \ {0}, NEW b \in 0..n - 1, NEW e \in 0..n - 1
  PROVE  /\ (\A i \in 1..UsedOf(n, b, e) : f[Cell(n, b, i)] \in Byte)
              => ContentOf(f, n, b, e) \in Seq(Byte)
         /\ ContentOf(f, n, b, e) \in Seq(Byte)
              => /\ Len(ContentOf(f, n, b, e)) = UsedOf(n, b, e)
                 /\ \A i \in 1..UsedOf(n, b, e) : ContentOf(f, n, b, e)[i] = f[Cell(n, b, i)]
<1>1. PICK m \in Nat : m = UsedOf(n, b, e)
  BY UsedOfIs
<1>2. PICK c : c = [i \in 1..m |-> f[Cell(n, b, i)]]
  OBVIOUS
<1>3. ContentOf(f, n, b, e) = c
  BY <1>1, <1>2 DEF ContentOf
<1>4. (\A i \in 1..m : f[Cell(n, b, i)] \in Byte) => c \in Seq(Byte)
  BY <1>2
<1>5. Len(c) = m /\ \A i \in 1..m : c[i] = f[Cell(n, b, i)]
  BY <1>2
<1>6. QED BY <1>1, <1>3, <1>4, <1>5

\* The buffer after the last part of a write, the old one or a new one.
Filled(f, n, e, s, len, k) ==
  [i \in 0..n - 1 |-> IF i \in e..e + k - 1 THEN s[i - e + 1]
                     ELSE IF i < len - k THEN s[k + i + 1] ELSE f[i]]

Grown(c, n, m) == [i \in 0..n - 1 |-> IF i < m THEN c[i + 1] ELSE Blank]

\* A write of s, k bytes of it up to the end of the buffer, that ends at e2.
FillsTo(f, n, b, e, s, len, k, g, e2) ==
  /\ n \in Nat \ {0} /\ b \in 0..n - 1 /\ e \in 0..n - 1
  /\ f \in [0..n - 1 -> Byte \cup {Blank}]
  /\ s \in Seq(Byte) /\ len \in Nat /\ k \in Nat
  /\ ContentOf(f, n, b, e) \in Seq(Byte)
  /\ len = Len(s) /\ UsedOf(n, b, e) + len <= n - 1
  /\ (k = len /\ e + len <= n) \/ (k < len /\ k = n - e /\ b <= e)
  /\ g = Filled(f, n, e, s, len, k)
  /\ e2 = IF e + len < n THEN e + len ELSE e + len - n

Joined(c, s) == c \o s

\* A string that is written into the cells after the content, the rest of it
\* from the first cell on, is appended.
LEMMA FillBytes ==
  ASSUME NEW n, NEW b, NEW e, NEW f, NEW s, NEW len, NEW k, NEW g, NEW e2,
         FillsTo(f, n, b, e, s, len, k, g, e2)
  PROVE  /\ g \in [0..n - 1 -> Byte \cup {Blank}]
         /\ e2 \in 0..n - 1
         /\ ContentOf(g, n, b, e2) = Joined(ContentOf(f, n, b, e), s)
         /\ ContentOf(g, n, b, e2) \in Seq(Byte)
<1> USE DEF Filled
<1>a. /\ n \in Nat \ {0} /\ b \in 0..n - 1 /\ e \in 0..n - 1
      /\ len \in Nat /\ k \in Nat
      /\ UsedOf(n, b, e) + len <= n - 1
      /\ (k = len /\ e + len <= n) \/ (k < len /\ k = n - e /\ b <= e)
      /\ e2 = IF e + len < n THEN e + len ELSE e + len - n
  BY DEF FillsTo
<1>b. /\ f \in [0..n - 1 -> Byte \cup {Blank}] /\ ContentOf(f, n, b, e) \in Seq(Byte)
      /\ s \in Seq(Byte) /\ len = Len(s)
      /\ g = Filled(f, n, e, s, len, k)
  BY DEF FillsTo
<1>0. UsedOf(n, b, e) \in 0..n - 1
  BY <1>a, UsedOfIs
<1>1. PICK m \in Nat : m = UsedOf(n, b, e) /\ m + len <= n - 1
  BY <1>a, <1>0
<1>2. m = IF b <= e THEN e - b ELSE e + (n - b)
  BY <1>1 DEF UsedOf
<1>3. e2 \in 0..n - 1 /\ UsedOf(n, b, e2) = m + len
  BY <1>a, <1>1, <1>2 DEF UsedOf
<1>4. \A j \in 1..len : s[j] \in Byte
  BY <1>b
<1>5. g \in [0..n - 1 -> Byte \cup {Blank}]
  <2>1. ASSUME NEW i \in 0..n - 1
        PROVE  g[i] \in Byte \cup {Blank}
    <3>1. CASE i \in e..e + k - 1
      <4>1. i - e + 1 \in 1..len
        BY <1>a, <3>1
      <4>2. QED BY <1>b, <1>4, <3>1, <4>1
    <3>2. CASE ~(i \in e..e + k - 1) /\ i < len - k
      <4>1. k + i + 1 \in 1..len
        BY <1>a, <3>2
      <4>2. QED BY <1>b, <1>4, <3>2, <4>1
    <3>3. CASE ~(i \in e..e + k - 1) /\ ~(i < len - k)
      BY <1>b, <3>3
    <3>4. QED BY <3>1, <3>2, <3>3
  <2>2. QED BY <1>b, <2>1
<1>6. ASSUME NEW i \in 1..m
      PROVE  g[Cell(n, b, i)] = f[Cell(n, b, i)]
  <2>0. i \in 1..n
    BY <1>a, <1>1
  <2>1. PICK x \in 0..n - 1 : x = Cell(n, b, i)
    BY <1>a, <2>0, CellIs
  <2>2. ~(x \in e..e + k - 1) /\ ~(x < len - k)
    BY <1>a, <1>1, <1>2, <2>1 DEF Cell
  <2>3. QED BY <1>b, <2>1, <2>2
<1>7. ASSUME NEW j \in 1..len
      PROVE  g[Cell(n, b, m + j)] = s[j]
  <2>0. m + j \in 1..n
    BY <1>a, <1>1
  <2>1. PICK x \in 0..n - 1 : x = Cell(n, b, m + j)
    BY <1>a, <2>0, CellIs
  <2>2. x = IF e + j - 1 < n THEN e + j - 1 ELSE e + j - 1 - n
    BY <1>a, <1>1, <1>2, <2>1 DEF Cell
  <2>3. CASE j <= k
    <3>1. x \in e..e + k - 1 /\ x - e + 1 = j
      BY <1>a, <2>2, <2>3
    <3>2. QED BY <1>b, <2>1, <3>1
  <2>4. CASE ~(j <= k)
    <3>1. ~(x \in e..e + k - 1) /\ x < len - k /\ k + x + 1 = j
      BY <1>a, <1>1, <1>2, <2>2, <2>4
    <3>2. QED BY <1>b, <2>1, <3>1
  <2>5. QED BY <2>3, <2>4
<1>8. PICK c \in Seq(Byte) :
        c = ContentOf(f, n, b, e) /\ Len(c) = m /\ \A i \in 1..m : c[i] = f[Cell(n, b, i)]
  <2>1. /\ Len(ContentOf(f, n, b, e)) = UsedOf(n, b, e)
        /\ \A i \in 1..UsedOf(n, b, e) : ContentOf(f, n, b, e)[i] = f[Cell(n, b, i)]
    <3>1. ContentOf(f, n, b, e) \in Seq(Byte)
      BY <1>b
    <3>2. QED BY <1>a, <3>1, ContentSeq
  <2>2. QED BY <1>b, <1>1, <2>1
<1>9. ContentOf(g, n, b, e2) \in Seq(Byte)
  <2>1. ASSUME NEW i \in 1..m + len
        PROVE  g[Cell(n, b, i)] \in Byte
    <3>1. CASE i \in 1..m
      <4>1. c[i] \in Byte
        BY <1>8, <3>1
      <4>2. QED BY <1>6, <1>8, <3>1, <4>1
    <3>2. CASE ~(i \in 1..m)
      <4>1. i - m \in 1..len /\ m + (i - m) = i
        BY <1>a, <3>2
      <4>2. QED BY <1>4, <1>7, <4>1
    <3>3. QED BY <3>1, <3>2
  <2>2. QED BY <1>a, <1>3, <2>1, ContentSeq
<1>10. PICK d \in Seq(Byte) :
         /\ d = ContentOf(g, n, b, e2) /\ Len(d) = m + len
         /\ \A i \in 1..m + len : d[i] = g[Cell(n, b, i)]
  <2>1. PICK d : d = [i \in 1..m + len |-> g[Cell(n, b, i)]]
    OBVIOUS
  <2>2. d = ContentOf(g, n, b, e2)
    BY <1>3, <2>1 DEF ContentOf
  <2>3. Len(d) = m + len /\ \A i \in 1..m + len : d[i] = g[Cell(n, b, i)]
    BY <1>a, <2>1
  <2>4. QED BY <1>9, <2>2, <2>3
<1>11. d = c \o s
  <2>1. \A i \in 1..Len(c) : d[i] = c[i]
    <3>1. ASSUME NEW i \in 1..m
          PROVE  d[i] = c[i]
      <4>1. i \in 1..m + len
        BY <1>a
      <4>2. d[i] = g[Cell(n, b, i)]
        BY <1>10, <4>1
      <4>3. QED BY <1>6, <1>8, <4>2
    <3>2. QED BY <1>8, <3>1
  <2>2. \A j \in 1..Len(s) : d[Len(c) + j] = s[j]
    <3>1. ASSUME NEW j \in 1..len
          PROVE  d[m + j] = s[j]
      <4>1. m + j \in 1..m + len
        BY <1>a
      <4>2. d[m + j] = g[Cell(n, b, m + j)]
        BY <1>10, <4>1
      <4>3. QED BY <1>7, <4>2
    <3>2. QED BY <1>b, <1>8, <3>1
  <2>3. Len(d) = Len(c) + Len(s)
    BY <1>b, <1>8, <1>10
  <2>4. QED BY <1>b, <2>1, <2>2, <2>3, Appended
<1>12. QED BY <1>3, <1>5, <1>8, <1>9, <1>10, <1>11 DEF Joined

\* A new buffer has the content and the string from its first cell on.
LEMMA GrowBytes ==
  ASSUME NEW c \in Seq(Byte), NEW m \in Nat, m = Len(c), NEW n \in Nat \ {0}, m < n,
         NEW g, g = Grown(c, n, m)
  PROVE  /\ g \in [0..n - 1 -> Byte \cup {Blank}]
         /\ ContentOf(g, n, 0, m) = c
<1> USE DEF Grown
<1>1. \A i \in 1..m : c[i] \in Byte
  OBVIOUS
<1>2. g \in [0..n - 1 -> Byte \cup {Blank}]
  <2>1. ASSUME NEW i \in 0..n - 1
        PROVE  g[i] \in Byte \cup {Blank}
    <3>1. i < m => i + 1 \in 1..m
      OBVIOUS
    <3>2. QED BY <1>1, <3>1
  <2>2. QED BY <2>1
<1>3. UsedOf(n, 0, m) = m
  BY DEF UsedOf
<1>4. ASSUME NEW i \in 1..m
      PROVE  g[Cell(n, 0, i)] = c[i]
  <2>1. Cell(n, 0, i) = i - 1 /\ i - 1 \in 0..n - 1 /\ i - 1 < m /\ (i - 1) + 1 = i
    BY DEF Cell
  <2>2. QED BY <2>1
<1>5. PICK z \in 0..n - 1 : z = 0
  OBVIOUS
<1>6. m \in 0..n - 1
  OBVIOUS
<1>7. ContentOf(g, n, z, m) \in Seq(Byte)
  BY <1>1, <1>3, <1>4, <1>5, <1>6, ContentSeq
<1>8. PICK d \in Seq(Byte) :
        d = ContentOf(g, n, z, m) /\ Len(d) = m /\ \A i \in 1..m : d[i] = g[Cell(n, z, i)]
  <2>1. PICK d : d = [i \in 1..m |-> g[Cell(n, z, i)]]
    OBVIOUS
  <2>2. d = ContentOf(g, n, z, m)
    BY <1>3, <1>5, <2>1 DEF ContentOf
  <2>3. Len(d) = m /\ \A i \in 1..m : d[i] = g[Cell(n, z, i)]
    BY <2>1
  <2>4. QED BY <1>7, <2>2, <2>3
<1>9. d = c
  <2>1. ASSUME NEW i \in 1..m
        PROVE  d[i] = c[i]
    <3>1. d[i] = g[Cell(n, 0, i)]
      BY <1>5, <1>8
    <3>2. QED BY <1>4, <3>1
  <2>2. Len(d) = Len(c) /\ \A i \in 1..Len(d) : d[i] = c[i]
    BY <1>8, <2>1
  <2>3. QED BY <2>2, SeqEqual
<1>10. QED BY <1>2, <1>5, <1>8, <1>9

\* The c elements of a sequence after the first a.
LEMMA Part ==
  ASSUME NEW con \in Seq(Byte), NEW a \in Nat, NEW c \in Nat,
         NEW z \in Nat, z = a + c, z <= Len(con)
  PROVE  /\ SubSeq(con, a + 1, z) \in Seq(Byte)
         /\ Len(SubSeq(con, a + 1, z)) = c
         /\ \A i \in 1..c : SubSeq(con, a + 1, z)[i] = con[a + i]
<1>0. PICK lo \in Int : lo = a + 1
  OBVIOUS
<1>1. \A i \in lo..z : con[i] \in Byte
  BY <1>0
<1>2. /\ SubSeq(con, lo, z) \in Seq(Byte)
      /\ Len(SubSeq(con, lo, z)) = IF lo <= z THEN z - lo + 1 ELSE 0
      /\ \A i \in 1..z - lo + 1 : SubSeq(con, lo, z)[i] = con[lo + i - 1]
  <2>1. z \in Int
    OBVIOUS
  <2>2. QED BY <1>1, <2>1, SubSeqProperties
<1>3. (IF lo <= z THEN z - lo + 1 ELSE 0) = c
  BY <1>0
<1>4. ASSUME NEW i \in 1..c
      PROVE  SubSeq(con, lo, z)[i] = con[a + i]
  <2>1. i \in 1..z - lo + 1 /\ lo + i - 1 = a + i
    BY <1>0
  <2>2. QED BY <1>2, <2>1
<1>5. QED BY <1>0, <1>2, <1>3, <1>4

\* What a copy takes are the bytes after those that it passes over.
LEMMA CopyBytes ==
  ASSUME IndexInv, Content \in Seq(Byte), NEW skip \in Nat, NEW size \in Nat,
         NEW c, c = Copy(skip, size).c, NEW k, k = Copy(skip, size).skipped
  PROVE  Copy(skip, size).bytes = SubSeq(Content, k + 1, k + c)
<1>1. PICK o, t, bs, o2, t2 \in Nat : Halves(skip, size, o, t, bs, o2, t2)
  BY CopyHalves
<1>2. PICK n \in Nat \ {0} : n = buflen /\ bufstart \in 0..n - 1 /\ bufend \in 0..n - 1
  BY DEF IndexInv
<1>2a. PICK b \in 0..n - 1, e \in 0..n - 1 : b = bufstart /\ e = bufend
  BY <1>2
<1>3. /\ t > 0 => o2 = 0
      /\ IF b > e THEN o + t <= n - b ELSE o = 0 /\ t = 0
      /\ bs = IF b + o + t = n THEN 0 ELSE b + o + t
      /\ IF bs < e THEN o2 + t2 <= e - bs ELSE o2 = 0 /\ t2 = 0
      /\ c = t + t2 /\ k = o + o2
  BY <1>1, <1>2, <1>2a DEF Halves
<1>4. Copy(skip, size).bytes = [i \in 1..t |-> buf[b + o + i - 1]]
                                 \o [i \in 1..t2 |-> buf[bs + o2 + i - 1]]
  BY <1>1, <1>2, <1>2a DEF Halves
<1>5. PICK m \in 0..n - 1 : m = UsedOf(n, b, e)
  BY <1>2, <1>2a, UsedOfIs
<1>6. m = IF b <= e THEN e - b ELSE e + (n - b)
  BY <1>5 DEF UsedOf
<1>7. Content = ContentOf(buf, n, b, e)
  BY <1>2, <1>2a, ContentNow
<1>8. PICK con \in Seq(Byte) :
        con = Content /\ Len(con) = m /\ \A i \in 1..m : con[i] = buf[Cell(n, b, i)]
  <2>1. ContentOf(buf, n, b, e) \in Seq(Byte)
    BY <1>7
  <2>2. /\ Len(ContentOf(buf, n, b, e)) = UsedOf(n, b, e)
        /\ \A i \in 1..UsedOf(n, b, e) : ContentOf(buf, n, b, e)[i] = buf[Cell(n, b, i)]
    BY <2>1, ContentSeq
  <2>3. QED BY <1>5, <1>7, <2>1, <2>2
<1>9. PICK u, l : /\ u = [i \in 1..t |-> buf[b + o + i - 1]]
                  /\ l = [i \in 1..t2 |-> buf[bs + o2 + i - 1]]
  OBVIOUS
<1>10. k + t + t2 <= m
  BY <1>3, <1>6
<1>11. ASSUME NEW i \in 1..t
       PROVE  u[i] = con[k + i] /\ con[k + i] \in Byte
  <2>1. k + i \in 1..m /\ Cell(n, b, k + i) = b + o + i - 1
    BY <1>3, <1>6, <1>10 DEF Cell
  <2>2. con[k + i] = buf[Cell(n, b, k + i)] /\ con[k + i] \in Byte
    BY <1>8, <2>1
  <2>3. u[i] = buf[b + o + i - 1]
    BY <1>9
  <2>4. QED BY <2>1, <2>2, <2>3
<1>12. ASSUME NEW i \in 1..t2
       PROVE  l[i] = con[k + t + i] /\ con[k + t + i] \in Byte
  <2>1. k + t + i \in 1..m /\ Cell(n, b, k + t + i) = bs + o2 + i - 1
    BY <1>3, <1>6, <1>10 DEF Cell
  <2>2. con[k + t + i] = buf[Cell(n, b, k + t + i)] /\ con[k + t + i] \in Byte
    BY <1>8, <2>1
  <2>3. l[i] = buf[bs + o2 + i - 1]
    BY <1>9
  <2>4. QED BY <2>1, <2>2, <2>3
<1>13. u \in Seq(Byte) /\ Len(u) = t
  <2>1. \A i \in 1..t : buf[b + o + i - 1] \in Byte
    BY <1>9, <1>11
  <2>2. QED BY <1>9, <2>1
<1>14. l \in Seq(Byte) /\ Len(l) = t2
  <2>1. \A i \in 1..t2 : buf[bs + o2 + i - 1] \in Byte
    BY <1>9, <1>12
  <2>2. QED BY <1>9, <2>1
<1>15. k \in Nat /\ c \in Nat /\ k + c <= m
  BY <1>3, <1>10
<1>16. PICK d \in Seq(Byte) :
         /\ d = SubSeq(con, k + 1, k + c) /\ Len(d) = c
         /\ \A i \in 1..c : d[i] = con[k + i]
  <2>1. PICK z \in Nat : z = k + c /\ z <= Len(con)
    BY <1>8, <1>15
  <2>2. PICK kk \in Nat, cc \in Nat : kk = k /\ cc = c
    BY <1>15
  <2>3. z = kk + cc /\ z <= Len(con)
    BY <2>1, <2>2
  <2>4. /\ SubSeq(con, kk + 1, z) \in Seq(Byte)
        /\ Len(SubSeq(con, kk + 1, z)) = cc
        /\ \A i \in 1..cc : SubSeq(con, kk + 1, z)[i] = con[kk + i]
    BY <2>3, Part
  <2>5. QED BY <2>1, <2>2, <2>4
<1>17. d = u \o l
  <2>1. Len(d) = Len(u) + Len(l)
    BY <1>3, <1>13, <1>14, <1>16
  <2>2. \A i \in 1..Len(u) : d[i] = u[i]
    <3>1. ASSUME NEW i \in 1..t
          PROVE  d[i] = u[i]
      <4>1. i \in 1..c
        BY <1>3
      <4>2. QED BY <1>11, <1>16, <4>1
    <3>2. QED BY <1>13, <3>1
  <2>3. \A i \in 1..Len(l) : d[Len(u) + i] = l[i]
    <3>1. ASSUME NEW i \in 1..t2
          PROVE  d[t + i] = l[i]
      <4>1. t + i \in 1..c /\ k + (t + i) = k + t + i
        BY <1>3
      <4>2. d[t + i] = con[k + t + i]
        BY <1>16, <4>1
      <4>3. QED BY <1>12, <4>2
    <3>2. QED BY <1>13, <1>14, <3>1
  <2>4. QED BY <1>13, <1>14, <2>1, <2>2, <2>3, Appended
<1>18. QED BY <1>4, <1>8, <1>9, <1>16, <1>17

\* The buffer after c bytes were read from cell b on.
Emptied(f, n, b, c) ==
  [i \in 0..n - 1 |-> IF \E k \in 0..c - 1 : i = (b + k) % n THEN Blank ELSE f[i]]

\* A read of c of the m bytes that ends at x.
EmptiesTo(f, n, b, e, m, c, x, g) ==
  /\ n \in Nat \ {0} /\ b \in 0..n - 1 /\ e \in 0..n - 1
  /\ f \in [0..n - 1 -> Byte \cup {Blank}] /\ ContentOf(f, n, b, e) \in Seq(Byte)
  /\ m \in Nat /\ m = UsedOf(n, b, e) /\ c \in 0..m
  /\ x \in 0..n - 1 /\ UsedOf(n, x, e) = m - c
  /\ g = Emptied(f, n, b, c)

\* A read that ends at cell x leaves the bytes after those that it took.
LEMMA ReadBytes ==
  ASSUME NEW f, NEW n, NEW b, NEW e, NEW m, NEW c, NEW x, NEW g,
         EmptiesTo(f, n, b, e, m, c, x, g)
  PROVE  /\ g \in [0..n - 1 -> Byte \cup {Blank}]
         /\ ContentOf(g, n, x, e) = SubSeq(ContentOf(f, n, b, e), c + 1, m)
         /\ ContentOf(g, n, x, e) \in Seq(Byte)
<1> USE DEF Emptied
<1>a. /\ n \in Nat \ {0} /\ b \in 0..n - 1 /\ e \in 0..n - 1
      /\ m \in Nat /\ m = UsedOf(n, b, e) /\ c \in 0..m
      /\ x \in 0..n - 1 /\ UsedOf(n, x, e) = m - c
  BY DEF EmptiesTo
<1>b. /\ f \in [0..n - 1 -> Byte \cup {Blank}] /\ ContentOf(f, n, b, e) \in Seq(Byte)
  BY DEF EmptiesTo
<1>c. g = Emptied(f, n, b, c)
  BY DEF EmptiesTo
<1>1. g \in [0..n - 1 -> Byte \cup {Blank}]
  BY <1>b, <1>c
<1>2. UsedOf(n, b, e) \in 0..n - 1
  BY <1>a, UsedOfIs
<1>3. m = (IF b <= e THEN e - b ELSE e + (n - b)) /\ m <= n - 1
  BY <1>a, <1>2 DEF UsedOf
<1>4. m - c = IF x <= e THEN e - x ELSE e + (n - x)
  BY <1>a DEF UsedOf
<1>5. PICK con \in Seq(Byte) :
        /\ con = ContentOf(f, n, b, e) /\ Len(con) = m
        /\ \A i \in 1..m : con[i] = f[Cell(n, b, i)]
  BY <1>a, <1>b, ContentSeq
<1>6. ASSUME NEW i \in 1..m - c
      PROVE  g[Cell(n, x, i)] = con[c + i] /\ con[c + i] \in Byte
  <2>1. c + i \in 1..m /\ c + i \in 1..n
    BY <1>a, <1>3
  <2>2. Cell(n, x, i) = Cell(n, b, c + i)
    BY <1>a, <1>3, <1>4 DEF Cell
  <2>3. PICK y \in 0..n - 1 : y = Cell(n, b, c + i)
    BY <1>a, <2>1, CellIs
  <2>4. ASSUME NEW k \in 0..c - 1
        PROVE  y # (b + k) % n
    <3>1. k + 1 \in 1..n /\ b + (k + 1) - 1 = b + k
      BY <1>a, <1>3
    <3>2. (b + (k + 1) - 1) % n = Cell(n, b, k + 1)
      BY <1>a, <3>1, CellIs
    <3>3. Cell(n, b, k + 1) # y
      BY <1>a, <1>3, <2>1, <2>3 DEF Cell
    <3>4. QED BY <3>1, <3>2, <3>3
  <2>5. g[y] = f[y]
    BY <1>c, <2>3, <2>4
  <2>6. QED BY <1>5, <2>1, <2>2, <2>3, <2>5
<1>7. ContentOf(g, n, x, e) \in Seq(Byte)
  <2>1. \A i \in 1..m - c : g[Cell(n, x, i)] \in Byte
    BY <1>6
  <2>2. QED BY <1>a, <2>1, ContentSeq
<1>8. PICK d : d = [i \in 1..m - c |-> g[Cell(n, x, i)]]
  OBVIOUS
<1>9. d = ContentOf(g, n, x, e)
  BY <1>a, <1>8 DEF ContentOf
<1>10. Len(d) = m - c /\ \A i \in 1..m - c : d[i] = g[Cell(n, x, i)]
  BY <1>a, <1>8
<1>11. /\ SubSeq(con, c + 1, m) \in Seq(Byte)
       /\ Len(SubSeq(con, c + 1, m)) = m - c
       /\ \A i \in 1..m - c : SubSeq(con, c + 1, m)[i] = con[c + i]
  <2>1. PICK r \in Nat : r = m - c
    BY <1>a
  <2>2. c \in Nat /\ m = c + r /\ m <= Len(con)
    BY <1>a, <1>5, <2>1
  <2>3. /\ SubSeq(con, c + 1, m) \in Seq(Byte)
        /\ Len(SubSeq(con, c + 1, m)) = r
        /\ \A i \in 1..r : SubSeq(con, c + 1, m)[i] = con[c + i]
    BY <2>2, Part
  <2>4. QED BY <2>1, <2>3
<1>12. d = SubSeq(con, c + 1, m)
  <2>1. \A i \in 1..m - c : d[i] = SubSeq(con, c + 1, m)[i]
    BY <1>6, <1>10, <1>11
  <2>2. d \in Seq(Byte)
    BY <1>7, <1>9
  <2>3. Len(d) = Len(SubSeq(con, c + 1, m)) /\ \A i \in 1..Len(d) : d[i] = SubSeq(con, c + 1, m)[i]
    BY <1>10, <1>11, <2>1
  <2>4. QED BY <1>11, <2>2, <2>3, SeqEqual
<1>13. QED BY <1>1, <1>5, <1>7, <1>9, <1>12
-----------------------------------------------------------------------------
\* The cells hold bytes, and those that are in use hold the content.
BytesInv ==
  /\ buf \in [0..buflen - 1 -> Byte \cup {Blank}]
  /\ Content \in Seq(Byte)

\* The content is that of the buffer and the indices.
LEMMA SameBytes ==
  ASSUME BytesInv, UNCHANGED <<buf, buflen, bufstart, bufend>>
  PROVE  BytesInv' /\ Content' = Content
BY DEF BytesInv, Content, Used

\* It is as long as pipe_length says, before and after a step.
LEMMA LenContent ==
  ASSUME IndexInv, BytesInv
  PROVE  Len(Content) = Used
<1>1. PICK f, n, b, e : f = buf /\ n = buflen /\ b = bufstart /\ e = bufend
  OBVIOUS
<1>2. n \in Nat \ {0} /\ b \in 0..n - 1 /\ e \in 0..n - 1
  BY <1>1 DEF IndexInv
<1>3. Content = ContentOf(f, n, b, e) /\ Used = UsedOf(n, b, e)
  BY <1>1, ContentNow
<1>4. ContentOf(f, n, b, e) \in Seq(Byte)
  BY <1>3 DEF BytesInv
<1>5. Len(ContentOf(f, n, b, e)) = UsedOf(n, b, e)
  BY <1>2, <1>4, ContentSeq
<1>6. QED BY <1>3, <1>5

LEMMA LenContentThen ==
  ASSUME IndexInv', BytesInv'
  PROVE  Len(Content') = Used'
<1>1. PICK f, n, b, e : f = buf' /\ n = buflen' /\ b = bufstart' /\ e = bufend'
  OBVIOUS
<1>2. n \in Nat \ {0} /\ b \in 0..n - 1 /\ e \in 0..n - 1
  BY <1>1 DEF IndexInv
<1>3. Content' = ContentOf(f, n, b, e) /\ Used' = UsedOf(n, b, e)
  BY <1>1, ContentThen
<1>4. ContentOf(f, n, b, e) \in Seq(Byte)
  BY <1>3 DEF BytesInv
<1>5. Len(ContentOf(f, n, b, e)) = UsedOf(n, b, e)
  BY <1>2, <1>4, ContentSeq
<1>6. QED BY <1>3, <1>5

\* A string goes to the end of the content, into the old buffer or a new one.
LEMMA GrowStores ==
  ASSUME IndexInv, RoomInv, BytesInv, NEW s \in Seq(Byte), RoomFor(Len(s)),
         Usable < Len(s), Grow(s), UNCHANGED <<bufmax, bufmaxextra>>
  PROVE  BytesInv' /\ Content' = Content \o s
<1>1. IndexInv'
  BY GrowLengths
<1>2. PICK c \in Seq(Byte) : c = Content \o s /\ Len(c) = Used + Len(s)
  <2>1. Content \o s \in Seq(Byte) /\ Len(Content \o s) = Len(Content) + Len(s)
    BY ConcatProperties DEF BytesInv
  <2>2. QED BY <2>1, LenContent
<1>3. PICK m \in Nat : m = Used + Len(s)
  BY UsedAvail
<1>4. PICK f, n, b, e : f = buf' /\ n = buflen' /\ b = bufstart' /\ e = bufend'
  OBVIOUS
<1>5. n \in Nat \ {0} /\ b = 0 /\ e = m /\ m < n
  <2>1. n \in Nat \ {0} /\ e \in 0..n - 1
    BY <1>1, <1>4 DEF IndexInv
  <2>2. b = 0 /\ e = m
    BY <1>3, <1>4 DEF Grow
  <2>3. QED BY <2>1, <2>2
<1>6. f = Grown(c, n, m)
  BY <1>2, <1>3, <1>4 DEF Grow, Grown
<1>7. f \in [0..n - 1 -> Byte \cup {Blank}] /\ ContentOf(f, n, 0, m) = c
  <2>1. m = Len(c) /\ n \in Nat \ {0} /\ m < n
    BY <1>2, <1>3, <1>5
  <2>2. QED BY <1>6, <2>1, GrowBytes
<1>8. Content' = ContentOf(f, n, b, e)
  BY <1>1, <1>4, ContentThen
<1>9. Content' = c
  BY <1>5, <1>7, <1>8
<1>10. QED BY <1>2, <1>4, <1>7, <1>9 DEF BytesInv

\* The old buffer: the bytes before the end of it, and the rest from its start.
LEMMA FillStores ==
  ASSUME IndexInv, RoomInv, BytesInv, NEW s \in Seq(Byte), Len(s) <= Usable, Fill(s),
         UNCHANGED <<bufmax, bufmaxextra>>
  PROVE  BytesInv' /\ Content' = Content \o s
<1>1. IndexInv'
  BY FillLengths
<1>2. PICK len \in Nat : len = Len(s)
  OBVIOUS
<1>3. PICK n \in Nat \ {0} : n = buflen /\ bufstart \in 0..n - 1 /\ bufend \in 0..n - 1
  BY DEF IndexInv
<1>4. PICK b \in 0..n - 1, e \in 0..n - 1 : b = bufstart /\ e = bufend
  BY <1>3
<1>5. PICK m \in Nat : m = Used /\ m = (IF b <= e THEN e - b ELSE e + (n - b)) /\ m + len <= n - 1
  <2>1. Used + len <= n - 1
    BY <1>2, <1>3, UsedAvail, UsableRange DEF Usable, Excess, IndexInv
  <2>2. Used \in Nat /\ Used = IF b <= e THEN e - b ELSE e + (n - b)
    BY <1>3, <1>4, UsedAvail DEF Used
  <2>3. QED BY <2>1, <2>2
<1>6. PICK most \in Nat : most = IF b > e THEN b - e - 1
                                  ELSE IF b = 0 THEN n - e - 1 ELSE n - e
  <2>1. (IF b > e THEN b - e - 1 ELSE IF b = 0 THEN n - e - 1 ELSE n - e) \in Nat
    OBVIOUS
  <2>2. QED BY <2>1
<1>7. PICK k \in Nat : k = IF len < most THEN len ELSE most
  BY <1>2, <1>6
<1>8. Lesser(Len(s), IF bufstart > bufend THEN Avail
                     ELSE IF bufstart = 0 THEN buflen - bufend - 1
                     ELSE buflen - bufend) = k
  BY <1>2, <1>3, <1>4, <1>6, <1>7 DEF Lesser, Avail
<1>9. (k = len /\ e + len <= n) \/ (k < len /\ k = n - e /\ b <= e)
  BY <1>2, <1>4, <1>5, <1>6, <1>7
<1>10. PICK e2 : e2 = IF e + len < n THEN e + len ELSE e + len - n
  OBVIOUS
<1>11. bufend' = e2
  <2>1. bufend' = (IF len - k = 0 THEN (e + len) % n ELSE len - k)
    BY <1>2, <1>3, <1>4, <1>8 DEF Fill
  <2>2. CASE len - k = 0
    <3>1. e + len \in Nat /\ e + len <= n
      BY <1>4, <1>9, <2>2
    <3>2. (e + len) % n = IF e + len = n THEN 0 ELSE e + len
      BY <3>1, Mod
    <3>3. e2 = IF e + len = n THEN 0 ELSE e + len
      BY <1>4, <1>10, <3>1
    <3>4. (e + len) % n = e2
      BY <3>2, <3>3
    <3>5. QED BY <2>1, <2>2, <3>4
  <2>3. CASE ~(len - k = 0)
    <3>1. len - k = e2
      BY <1>4, <1>7, <1>9, <1>10, <2>3
    <3>2. QED BY <2>1, <2>3, <3>1
  <2>4. QED BY <2>2, <2>3
<1>12. PICK f \in [0..n - 1 -> Byte \cup {Blank}] : f = buf
  BY <1>3 DEF BytesInv
<1>13. PICK g : g = buf' /\ g = Filled(f, n, e, s, len, k)
  <2>1. buf' = [i \in DOMAIN buf |->
                 IF i \in bufend..bufend + k - 1 THEN s[i - bufend + 1]
                 ELSE IF i < Len(s) - k THEN s[k + i + 1]
                 ELSE buf[i]]
    BY <1>8 DEF Fill
  <2>2. DOMAIN buf = 0..n - 1
    BY <1>12
  <2>3. QED BY <1>2, <1>4, <1>12, <2>1, <2>2, Zenon DEF Filled
<1>14. ContentOf(f, n, b, e) = Content /\ UsedOf(n, b, e) = m /\ Content \in Seq(Byte)
  BY <1>3, <1>4, <1>5, <1>12, ContentNow DEF BytesInv
<1>15. /\ g \in [0..n - 1 -> Byte \cup {Blank}]
       /\ ContentOf(g, n, b, e2) = ContentOf(f, n, b, e) \o s
       /\ ContentOf(g, n, b, e2) \in Seq(Byte)
  <2>1. UsedOf(n, b, e) + len <= n - 1
    BY <1>5, <1>14
  <2>2. ContentOf(f, n, b, e) \in Seq(Byte)
    BY <1>14
  <2>3. (k = len /\ e + len <= n) \/ (k < len /\ k = n - e /\ b <= e)
    BY <1>9
  <2>4. FillsTo(f, n, b, e, s, len, k, g, e2)
    BY <1>2, <1>10, <1>13, <2>1, <2>2, <2>3 DEF FillsTo
  <2>5. /\ g \in [0..n - 1 -> Byte \cup {Blank}]
        /\ ContentOf(g, n, b, e2) = Joined(ContentOf(f, n, b, e), s)
        /\ ContentOf(g, n, b, e2) \in Seq(Byte)
    BY <2>4, FillBytes
  <2>6. QED BY <2>5 DEF Joined
<1>16. Content' = ContentOf(g, n, b, e2) /\ buflen' = n
  <2>1. Content' = ContentOf(buf', buflen', bufstart', bufend')
    BY <1>1, ContentThen
  <2>2. buf' = g /\ buflen' = n /\ bufstart' = b /\ bufend' = e2
    BY <1>3, <1>4, <1>11, <1>13 DEF Fill
  <2>3. QED BY <2>1, <2>2
<1>17. QED BY <1>13, <1>14, <1>15, <1>16 DEF BytesInv

\* Either way, and if there is nothing to store.
LEMMA Stored ==
  ASSUME IndexInv, RoomInv, BytesInv, NEW s \in Seq(Byte), RoomFor(Len(s)), Store(s),
         UNCHANGED <<bufmax, bufmaxextra>>
  PROVE  BytesInv' /\ Content' = Content \o s
<1>1. CASE s = <<>>
  <2>1. BytesInv' /\ Content' = Content
    BY <1>1, SameBytes DEF Store
  <2>2. Content \o <<>> = Content
    BY ConcatEmptySeq DEF BytesInv
  <2>3. QED BY <1>1, <2>1, <2>2
<1>2. CASE s # <<>>
  <2>1. Len(s) \in Nat /\ Usable \in Int
    BY UsableRange
  <2>2. CASE Usable < Len(s)
    BY <1>2, <2>2, GrowStores DEF Store
  <2>3. CASE ~(Usable < Len(s))
    <3>1. Fill(s) /\ Len(s) <= Usable
      BY <1>2, <2>1, <2>3 DEF Store
    <3>2. QED BY <3>1, FillStores
  <2>4. QED BY <2>2, <2>3
<1>3. QED BY <1>1, <1>2

-----------------------------------------------------------------------------
\* What each operation does to the content.

\* A write appends what of its string there is room for, and nothing when a port
\* is closed.
LEMMA TryBytes ==
  ASSUME IndexInv, RoomInv, BytesInv, NEW w \in Writer, NEW s \in Seq(Byte),
         NEW mode \in Nat, Try(w, s, mode)
  PROVE  /\ BytesInv'
         /\ eof => Content' = Content
         /\ ~eof => Content' = Content \o SubSeq(s, 1, Writable(Len(s)))
<1>0. UNCHANGED <<bufmax, bufmaxextra>>
  BY DEF Try
<1>1. CASE eof
  BY <1>1, SameBytes DEF Try, indices
<1>2. CASE ~eof
  <2>1. PICK n \in 0..Len(s) : n = Writable(Len(s)) /\ RoomFor(n)
    BY WritableRange
  <2>2. PICK d \in Seq(Byte) : d = SubSeq(s, 1, n) /\ Len(d) = n
    BY Parts
  <2>3. Store(d)
    BY <1>2, <2>1, <2>2 DEF Try
  <2>4. RoomFor(Len(d))
    BY <2>1, <2>2
  <2>5. BytesInv' /\ Content' = Content \o d
    BY <1>0, <2>3, <2>4, Stored
  <2>6. QED BY <1>2, <2>1, <2>2, <2>5
<1>3. QED BY <1>1, <1>2

\* A read takes its bytes off the front.
LEMMA GetBytes ==
  ASSUME IndexInv, BytesInv, NEW r \in Reader, NEW size \in Nat \ {0}, Get(r, size), ~Empty,
         IndexInv'
  PROVE  /\ BytesInv'
         /\ \E c \in 1..Used :
              /\ out' = SubSeq(Content, 1, c)
              /\ Content' = SubSeq(Content, c + 1, Used)
              /\ Spend(c)
<1>1. PICK n \in Nat \ {0} : n = buflen /\ bufstart \in 0..n - 1 /\ bufend \in 0..n - 1
  BY DEF IndexInv
<1>2. PICK b \in 0..n - 1, e \in 0..n - 1 : b = bufstart /\ e = bufend
  BY <1>1
<1>3. PICK f \in [0..n - 1 -> Byte \cup {Blank}] : f = buf
  BY <1>1 DEF BytesInv
<1>4. PICK m \in Nat : m = Used /\ m = UsedOf(n, b, e) /\ m > 0
  <2>1. Used = UsedOf(n, b, e)
    BY <1>1, <1>2, ContentNow
  <2>2. UsedOf(n, b, e) \in Nat /\ UsedOf(n, b, e) > 0
    BY <1>2 DEF UsedOf, Empty
  <2>3. QED BY <2>1, <2>2
<1>5. PICK z \in Nat : z = 0
  OBVIOUS
<1>6. PICK c, x, k : c = Copy(z, size).c /\ x = Copy(z, size).end /\ k = Copy(z, size).skipped
  OBVIOUS
<1>7. /\ c \in 0..size /\ k \in 0..z /\ c + k <= Used
      /\ c = 0 /\ size > 0 => Used <= z
      /\ x \in 0..n - 1
      /\ Used - c = IF x <= bufend THEN bufend - x ELSE bufend + (n - x)
  <2>1. size \in Nat
    OBVIOUS
  <2>2. /\ Copy(z, size).c \in 0..size /\ Copy(z, size).skipped \in 0..z
        /\ Copy(z, size).c + Copy(z, size).skipped <= Used
        /\ Copy(z, size).c = 0 /\ size > 0 => Used <= z
        /\ Copy(z, size).end \in 0..buflen - 1
        /\ Used - Copy(z, size).c =
             IF Copy(z, size).end <= bufend THEN bufend - Copy(z, size).end
             ELSE bufend + (buflen - Copy(z, size).end)
    BY <1>5, <2>1, CopyLengths
  <2>3. QED BY <1>1, <1>6, <2>2
<1>8. k = 0 /\ c \in 1..m /\ UsedOf(n, x, e) = m - c
  BY <1>2, <1>4, <1>5, <1>7 DEF UsedOf
<1>9. out' = SubSeq(Content, 1, c)
  <2>1. Copy(z, size).bytes = SubSeq(Content, k + 1, k + c)
    BY <1>6, CopyBytes DEF BytesInv
  <2>2. out' = Copy(z, size).bytes
    BY <1>5 DEF Get
  <2>3. k + 1 = 1 /\ k + c = c
    BY <1>8
  <2>4. QED BY <2>1, <2>2, <2>3
<1>10. PICK g : g = buf' /\ g = Emptied(f, n, b, c)
  <2>1. buf' = [i \in DOMAIN buf |->
                 IF \E j \in 0..c - 1 : i = (bufstart + j) % buflen THEN Blank ELSE buf[i]]
    BY <1>5, <1>6 DEF Get
  <2>2. DOMAIN buf = 0..n - 1
    BY <1>3
  <2>3. QED BY <1>1, <1>2, <1>3, <2>1, <2>2, Zenon DEF Emptied
<1>11. /\ g \in [0..n - 1 -> Byte \cup {Blank}]
       /\ ContentOf(g, n, x, e) = SubSeq(ContentOf(f, n, b, e), c + 1, m)
       /\ ContentOf(g, n, x, e) \in Seq(Byte)
  <2>1. ContentOf(f, n, b, e) \in Seq(Byte)
    BY <1>1, <1>2, <1>3, ContentNow DEF BytesInv
  <2>2. EmptiesTo(f, n, b, e, m, c, x, g)
    BY <1>4, <1>7, <1>8, <1>10, <2>1 DEF EmptiesTo
  <2>3. QED BY <2>2, ReadBytes
<1>12. /\ Content' = ContentOf(g, n, x, e) /\ buflen' = n
       /\ Content = ContentOf(f, n, b, e)
  <2>1. Content' = ContentOf(buf', buflen', bufstart', bufend')
    BY ContentThen
  <2>2. buf' = g /\ buflen' = n /\ bufstart' = x /\ bufend' = e
    BY <1>1, <1>2, <1>5, <1>6, <1>10 DEF Get
  <2>3. QED BY <1>1, <1>2, <1>3, <2>1, <2>2, ContentNow
<1>13. BytesInv' /\ Content' = SubSeq(Content, c + 1, Used)
  BY <1>4, <1>10, <1>11, <1>12 DEF BytesInv
<1>14. Spend(c) /\ c \in 1..Used
  BY <1>4, <1>5, <1>6, <1>8 DEF Get
<1>15. QED BY <1>9, <1>13, <1>14

\* A peek gets the bytes after those that it skips and leaves them there.
LEMMA LookBytes ==
  ASSUME IndexInv, BytesInv, NEW r \in Reader, NEW size \in Nat \ {0}, NEW skip \in Nat,
         Look(r, size, skip)
  PROVE  /\ BytesInv' /\ Content' = Content
         /\ UNCHANGED <<bufmax, eof, closed, writing>>
         /\ \/ /\ out' = <<>> \/ (eof /\ out' = Eof)
               /\ UNCHANGED bufmaxextra
            \/ \E s \in 0..Used, c \in 1..Used :
                 /\ s + c <= Used /\ s <= skip /\ c <= size
                 /\ out' = SubSeq(Content, s + 1, s + c)
                 /\ Stretch(s + c)
<1>0. UNCHANGED <<buf, buflen, bufmax, indices, eof, closed, writing>>
  BY DEF Look, Returns
<1>1. BytesInv' /\ Content' = Content
  BY <1>0, SameBytes DEF indices
<1>2. PICK c \in Nat, s \in Nat : c = Copy(skip, size).c /\ s = Copy(skip, size).skipped
                             /\ c <= size /\ s <= skip /\ c + s <= Used
  BY CopyLengths
<1>3. Copy(skip, size).bytes = SubSeq(Content, s + 1, s + c)
  BY <1>2, CopyBytes DEF BytesInv
<1>4. CASE "in" \in closed \/ (c = 0 /\ eof)
  BY <1>0, <1>1, <1>2, <1>4 DEF Look, Returns
<1>5. CASE ~("in" \in closed \/ (c = 0 /\ eof)) /\ c = 0
  <2>1. out' = SubSeq(Content, s + 1, s + c) /\ UNCHANGED bufmaxextra
    BY <1>2, <1>3, <1>5 DEF Look
  <2>2. SubSeq(Content, s + 1, s + c) = <<>>
    <3>1. PICK lo \in Int, hi \in Int : lo = s + 1 /\ hi = s + c /\ hi < lo
      BY <1>5
    <3>2. SubSeq(Content, lo, hi) = <<>>
      BY <3>1, SubSeqEmpty
    <3>3. QED BY <3>1, <3>2
  <2>3. QED BY <1>0, <1>1, <2>1, <2>2
<1>6. CASE ~("in" \in closed \/ (c = 0 /\ eof)) /\ c # 0
  <2>1. out' = SubSeq(Content, s + 1, s + c)
    BY <1>2, <1>3, <1>6 DEF Look
  <2>2. Stretch(c + s)
    BY <1>2, <1>6 DEF Look
  <2>3. c + s = s + c /\ s \in 0..Used /\ c \in 1..Used /\ s + c <= Used
    BY <1>2, <1>6, UsedAvail
  <2>4. Stretch(s + c)
    BY <2>2, <2>3
  <2>5. QED BY <1>0, <1>1, <1>2, <2>1, <2>3, <2>4
<1>7. QED BY <1>4, <1>5, <1>6

-----------------------------------------------------------------------------
\* Types.

\* A peek that goes on ends where it was to end at first; only writes of mode 0
\* and 1 wait.
ShapeInv ==
  /\ bufmax \in {0} \cup {limit + 1 : limit \in Limits \ {0}}
  /\ bufmaxextra <= MaxPeek
  /\ eof \in BOOLEAN /\ closed \subseteq {"in", "out"}
  /\ \A w \in Writer : writing[w].mode \in 0..1
  /\ \A r \in Reader : /\ peeking[r].size <= MaxLen
                      /\ peeking[r].size + peeking[r].skip <= MaxPeek

\* The inductive invariant with the bytes.
FullInv == IInv /\ BytesInv /\ ShapeInv

\* The parts of the invariant make up the type invariant.
LEMMA TypeFollows == FullInv => TypeOK
<1> SUFFICES ASSUME FullInv PROVE TypeOK
  OBVIOUS
<1> USE DEF FullInv, IInv
<1>1. Content \in Seq(Byte) /\ Len(Content) = Used
  BY LenContent DEF BytesInv
<1>2. \A i \in 1..Used : Content[i] # Blank
  <2>1. ASSUME NEW i \in 1..Used
        PROVE  Content[i] # Blank
    <3>1. Content[i] \in Byte
      BY <1>1
    <3>2. QED BY <3>1, PipeAssumption
  <2>2. QED BY <2>1
<1>3. \A w \in Writer : writing[w].rest \in Seq(Byte) /\ writing[w].mode \in 0..1
  BY DEF CallInv, ShapeInv
<1>4. \A r \in Reader : peeking[r].size \in 0..MaxLen /\ peeking[r].skip \in 0..MaxPeek
  <2>1. MaxLen \in Nat /\ MaxPeek \in Nat
    BY PipeAssumption
  <2>2. ASSUME NEW r \in Reader
        PROVE  peeking[r].size \in 0..MaxLen /\ peeking[r].skip \in 0..MaxPeek
    <3>1. peeking[r].size \in Nat /\ peeking[r].skip \in Nat
      BY DEF CallInv
    <3>2. /\ peeking[r].size <= MaxLen
          /\ peeking[r].size + peeking[r].skip <= MaxPeek
      BY DEF ShapeInv
    <3>3. QED BY <2>1, <3>1, <3>2
  <2>3. QED BY <2>2
<1>5. bufmaxextra \in 0..MaxPeek
  BY PipeAssumption DEF IndexInv, ShapeInv
<1>6. QED BY <1>2, <1>3, <1>4, <1>5 DEF TypeOK, IndexInv, CallInv, ShapeInv, BytesInv

\* A write keeps the modes and limits in range.
LEMMA TryShape ==
  ASSUME IInv, ShapeInv, NEW w \in Writer, NEW s \in Seq(Byte), NEW mode \in 0..2,
         Try(w, s, mode)
  PROVE  ShapeInv'
<1>1. UNCHANGED <<bufmax, bufmaxextra, eof, closed, peeking>>
  BY DEF Try
<1>2. \/ writing' = [writing EXCEPT ![w] = Done]
      \/ /\ mode # 2
         /\ \E rest : writing' = [writing EXCEPT ![w] = [rest |-> rest, mode |-> mode]]
  BY DEF Try
<1>3. \A u \in Writer : writing'[u].mode \in 0..1
  <2>1. \A u \in Writer : \/ writing'[u] = writing[u]
                         \/ writing'[u] = Done
                         \/ (writing'[u].mode = mode /\ mode # 2)
    <3>1. CASE writing' = [writing EXCEPT ![w] = Done]
      BY <3>1 DEF IInv, CallInv
    <3>2. CASE \E rest : writing' = [writing EXCEPT ![w] = [rest |-> rest, mode |-> mode]]
                       /\ mode # 2
      <4>1. PICK rest : writing' = [writing EXCEPT ![w] = [rest |-> rest, mode |-> mode]]
                        /\ mode # 2
        BY <3>2
      <4>2. writing'[w].mode = mode /\ \A u \in Writer : u # w => writing'[u] = writing[u]
        BY <4>1 DEF IInv, CallInv
      <4>3. QED BY <4>1, <4>2
    <3>3. QED BY <1>2, <3>1, <3>2
  <2>2. Done.mode \in 0..1 /\ (mode # 2 => mode \in 0..1)
    BY DEF Done
  <2>3. QED BY <2>1, <2>2 DEF ShapeInv
<1>4. QED BY <1>1, <1>3 DEF ShapeInv

\* So does a peek, which never ends beyond MaxPeek.
LEMMA LookShape ==
  ASSUME IInv, BytesInv, ShapeInv, NEW r \in Reader, NEW size \in Nat \ {0},
         NEW skip \in Nat, size <= MaxLen, size + skip <= MaxPeek, Look(r, size, skip)
  PROVE  ShapeInv'
<1>0. MaxPeek \in Nat /\ MaxLen \in Nat
  BY PipeAssumption
<1>1. PICK c \in Nat : c = Copy(skip, size).c /\ c <= size
  BY CopyLengths DEF IInv
<1>2. UNCHANGED <<bufmax, eof, closed, writing>>
  BY LookBytes DEF IInv
<1>3. bufmaxextra' <= MaxPeek
  <2>1. CASE UNCHANGED bufmaxextra
    BY <2>1 DEF ShapeInv
  <2>2. CASE \E s \in 0..Used, n \in 1..Used : s <= skip /\ n <= size /\ Stretch(s + n)
    <3>1. PICK s \in 0..Used, n \in 1..Used : s <= skip /\ n <= size /\ Stretch(s + n)
      BY <2>2
    <3>2. Used \in Nat
      BY UsedAvail DEF IInv
    <3>3. s + n <= MaxPeek
      BY <1>0, <3>1, <3>2
    <3>4. bufmaxextra' = s + n \/ bufmaxextra' = bufmaxextra
      BY <3>1 DEF Stretch
    <3>5. QED BY <3>3, <3>4 DEF ShapeInv
  <2>3. QED BY <2>1, <2>2, LookBytes DEF IInv
<1>4. \/ peeking' = [peeking EXCEPT ![r] = Quiet]
      \/ peeking' = [peeking EXCEPT ![r] = [size |-> size - c, skip |-> skip + c]]
  BY <1>1 DEF Look
<1>5. \A q \in Reader : /\ peeking'[q].size <= MaxLen
                      /\ peeking'[q].size + peeking'[q].skip <= MaxPeek
  <2>1. peeking \in [Reader -> [size : Nat, skip : Nat]]
    BY DEF IInv, CallInv
  <2>2. size - c <= MaxLen /\ (size - c) + (skip + c) <= MaxPeek
    BY <1>0, <1>1
  <2>3. Quiet.size <= MaxLen /\ Quiet.size + Quiet.skip <= MaxPeek
    BY <1>0 DEF Quiet
  <2>4. \A q \in Reader : \/ peeking'[q] = peeking[q] \/ peeking'[q] = Quiet
                         \/ peeking'[q] = [size |-> size - c, skip |-> skip + c]
    BY <1>4, <2>1
  <2>5. QED BY <2>2, <2>3, <2>4 DEF ShapeInv
<1>6. QED BY <1>2, <1>3, <1>5 DEF ShapeInv

\* What neither writes nor peeks.
LEMMA OtherShape ==
  ASSUME IInv, ShapeInv, UNCHANGED bufmax, bufmaxextra' <= bufmaxextra, bufmaxextra' \in Nat,
         eof' \in BOOLEAN, closed' \subseteq {"in", "out"},
         \/ writing' = writing
         \/ \E w \in Writer : writing' = [writing EXCEPT ![w] = Done],
         \/ peeking' = peeking
         \/ \E r \in Reader : peeking' = [peeking EXCEPT ![r] = Quiet]
  PROVE  ShapeInv'
<1>0. MaxPeek \in Nat /\ MaxLen \in Nat
  BY PipeAssumption
<1>1. \A w \in Writer : writing'[w].mode \in 0..1
  <2>1. \A w \in Writer : writing'[w] = writing[w] \/ writing'[w] = Done
    BY DEF IInv, CallInv
  <2>2. Done.mode \in 0..1
    BY DEF Done
  <2>3. QED BY <2>1, <2>2 DEF ShapeInv
<1>2. \A q \in Reader : peeking'[q] = peeking[q] \/ peeking'[q] = Quiet
  BY DEF IInv, CallInv
<1>3. Quiet.size <= MaxLen /\ Quiet.size + Quiet.skip <= MaxPeek
  BY <1>0 DEF Quiet
<1>4. \A q \in Reader : /\ peeking'[q].size <= MaxLen
                      /\ peeking'[q].size + peeking'[q].skip <= MaxPeek
  BY <1>2, <1>3 DEF ShapeInv
<1>5. bufmaxextra' <= MaxPeek
  BY <1>0 DEF IInv, IndexInv, ShapeInv
<1>6. QED BY <1>1, <1>4, <1>5 DEF ShapeInv

-----------------------------------------------------------------------------
\* Every step is one of the abstract pipe or none.

\* What the abstract pipe calls the limit.
AbsLimit == IF bufmax = 0 THEN 0 ELSE bufmax - 1

\* What pipe_write_bytes computes from the indices is the room of the queue.
LEMMA FitsIs ==
  ASSUME IndexInv, RoomInv, BytesInv, NEW len \in Nat
  PROVE  Abstract!Fits(len) = Writable(len)
<1>1. PICK u \in Nat, b \in Nat \ {1}, x \in Nat :
        u = Used /\ u = Len(Content) /\ b = bufmax /\ x = bufmaxextra
  BY UsedAvail, LenContent DEF IndexInv
<1>2. Abstract!Fits(len) = IF b = 0 \/ len <= b - 1 + x - u THEN len ELSE b - 1 + x - u
  BY <1>1 DEF Abstract!Fits
<1>3. PICK y \in Int, z \in Int : y = Usable /\ z = Excess
  BY UsableRange, UsedAvail
<1>4. Writable(len) = IF b = 0 \/ y >= len THEN len
                      ELSE IF len < (IF z < 0 THEN y - z ELSE y) THEN len
                      ELSE IF z < 0 THEN y - z ELSE y
  BY <1>1, <1>3 DEF Writable, Lesser
<1>5. b > 0 => /\ z > 0 => y = b - 1 + x - u
               /\ z <= 0 => y - z = b - 1 + x - u
  <2>1. /\ b > 0 /\ z > 0 => y = b + x - 1 - u
        /\ z <= 0 => y = buflen - 1 - u
        /\ z = buflen - (b + x)
    BY <1>1, <1>3, UsableRange DEF Excess
  <2>2. buflen \in Nat
    BY DEF IndexInv
  <2>3. QED BY <2>1, <2>2
<1>6. QED BY <1>2, <1>4, <1>5

\* One go of pipe_write_bytes is one part of a write of the abstract pipe.
LEMMA TryIs ==
  ASSUME FullInv, NEW w \in Writer, NEW s \in Seq(Byte), NEW mode \in 0..2,
         Try(w, s, mode), ~eof
  PROVE  Abstract!Put(w, s, mode)
<1> USE DEF FullInv, IInv
<1>1. PICK n : n = Writable(Len(s))
  OBVIOUS
<1>2. Abstract!Fits(Len(s)) = n
  BY <1>1, FitsIs
<1>3. mode \in Nat
  OBVIOUS
<1>4. Content' = Content \o SubSeq(s, 1, n)
  BY <1>1, <1>3, TryBytes
<1>5. /\ out' = <<>> /\ UNCHANGED <<bufmax, bufmaxextra, eof>>
      /\ writing' = [writing EXCEPT ![w] =
                      IF n = Len(s) \/ mode = 2 \/ (mode = 1 /\ n > 0) THEN Done
                      ELSE [rest |-> SubSeq(s, n + 1, Len(s)), mode |-> mode]]
  BY <1>1 DEF Try, Rest
<1>6. QED BY <1>2, <1>4, <1>5 DEF Abstract!Put, Abstract!Done, Done

\* A call that finds a port closed ends, if it had begun.
LEMMA CutOff ==
  ASSUME FullInv, NEW w \in Writer, writing' = [writing EXCEPT ![w] = Done],
         UNCHANGED <<bufmax, bufmaxextra, eof>>, Content' = Content, out' = <<>>
  PROVE  Abstract!Stop(w) \/ Abstract!Nothing
<1>1. CASE writing[w] = Done
  <2>1. writing' = writing
    BY <1>1 DEF FullInv, IInv, CallInv
  <2>2. QED BY <2>1 DEF Abstract!Nothing
<1>2. CASE writing[w] # Done
  BY <1>2 DEF Abstract!Stop, Abstract!Done, Done
<1>3. QED BY <1>1, <1>2

\* A step that gives no bytes, and changes nothing that the abstract pipe has.
LEMMA NothingIs ==
  ASSUME UNCHANGED <<bufmax, bufmaxextra, buf, buflen, indices, eof, writing>>, out' = <<>>
  PROVE  Abstract!Nothing
BY DEF Abstract!Nothing, Content, Used, indices

\* Bytes off the front are got.
LEMMA GetIs ==
  ASSUME FullInv, NEW c \in 1..Used, out' = SubSeq(Content, 1, c),
         Content' = SubSeq(Content, c + 1, Used), Spend(c), UNCHANGED <<bufmax, eof, writing>>
  PROVE  \E n \in 1..Len(Content) : Abstract!Get(n)
<1>1. Len(Content) = Used
  BY LenContent DEF FullInv, IInv
<1>2. bufmaxextra' = Abstract!Less(bufmaxextra, c)
  BY DEF Spend, Abstract!Less
<1>3. Abstract!Get(c)
  BY <1>1, <1>2 DEF Abstract!Get
<1>4. QED BY <1>1, <1>3

\* Bytes that stay are peeked at.
LEMMA LookIs ==
  ASSUME FullInv, NEW s \in 0..Used, NEW c \in 1..Used, s + c <= Used,
         out' = SubSeq(Content, s + 1, s + c), Content' = Content, Stretch(s + c),
         UNCHANGED <<bufmax, eof, writing>>
  PROVE  \E k \in 0..Len(Content), n \in 1..Len(Content) : Abstract!Peek(k, n)
<1>1. Len(Content) = Used
  BY LenContent DEF FullInv, IInv
<1>2. PICK b \in Nat \ {1}, x \in Nat, z \in Nat : b = bufmax /\ x = bufmaxextra /\ z = s + c
  BY UsedAvail DEF FullInv, IInv, IndexInv
<1>3. AbsLimit > 0 <=> b > 0
  BY <1>2 DEF AbsLimit
<1>4. bufmaxextra' = IF AbsLimit > 0 /\ s + c > bufmaxextra THEN s + c ELSE bufmaxextra
  BY <1>2, <1>3 DEF Stretch
<1>5. Abstract!Peek(s, c)
  BY <1>1, <1>4 DEF Abstract!Peek, AbsLimit
<1>6. QED BY <1>1, <1>5

\* What a step of Pipe is to the abstract pipe, or to a reader of the types.
Good == BytesInv' /\ ShapeInv' /\ [Abstract!Next]_(Abstract!vars)

\* What a writer does keeps the bytes and the types.
LEMMA TryGood ==
  ASSUME FullInv, NEW w \in Writer, NEW s \in Seq(Byte), NEW mode \in 0..2,
         Try(w, s, mode)
  PROVE  /\ BytesInv' /\ ShapeInv'
         /\ eof => Abstract!Stop(w) \/ Abstract!Nothing
<1> USE DEF FullInv, IInv
<1>1. mode \in Nat
  OBVIOUS
<1>2. BytesInv' /\ (eof => Content' = Content)
  BY <1>1, TryBytes
<1>3. ShapeInv'
  BY TryShape
<1>4. CASE eof
  <2>1. /\ writing' = [writing EXCEPT ![w] = Done]
        /\ UNCHANGED <<bufmax, bufmaxextra, eof>> /\ out' = <<>>
    BY <1>4 DEF Try
  <2>2. QED BY <1>2, <1>3, <1>4, <2>1, CutOff
<1>5. QED BY <1>2, <1>3, <1>4

\* Writers put a part of their string in, stop, or do nothing.
LEMMA WritesGood ==
  ASSUME FullInv, IInv', NEW w \in Writer,
         (\E s \in Text, mode \in 0..2 : Write(w, s, mode)) \/ Retry(w) \/ StopWriter(w)
  PROVE  Good
<1> USE DEF FullInv, IInv
<1>1. ASSUME NEW s \in Text, NEW mode \in 0..2, Write(w, s, mode)
      PROVE  Good
  <2>1. s \in Seq(Byte) /\ Try(w, s, mode) /\ writing[w] = Done
    BY <1>1, PipeAssumption DEF Write
  <2>2. /\ BytesInv' /\ ShapeInv'
        /\ eof => Abstract!Stop(w) \/ Abstract!Nothing
    BY <2>1, TryGood
  <2>3. ~eof => Abstract!Write(w)
    <3>1. ~eof => Abstract!Put(w, s, mode)
      BY <2>1, TryIs
    <3>2. writing[w] = Abstract!Done
      BY <2>1 DEF Abstract!Done, Done
    <3>3. QED BY <3>1, <3>2 DEF Abstract!Write
  <2>4. QED BY <2>2, <2>3 DEF Good, Abstract!Next
<1>2. CASE Retry(w) /\ (Usable # 0 \/ eof)
  <2>1. writing[w].rest \in Seq(Byte) /\ writing[w].mode \in 0..1
    BY DEF CallInv, ShapeInv
  <2>2. /\ Try(w, writing[w].rest, writing[w].mode) /\ writing[w].mode \in 0..2
        /\ writing[w] # Done
    BY <1>2, <2>1 DEF Retry
  <2>3. /\ BytesInv' /\ ShapeInv'
        /\ eof => Abstract!Stop(w) \/ Abstract!Nothing
    BY <2>1, <2>2, TryGood
  <2>4. ~eof => Abstract!WriteOn(w)
    <3>1. ~eof => Abstract!Put(w, writing[w].rest, writing[w].mode)
      BY <2>1, <2>2, TryIs
    <3>2. writing[w] # Abstract!Done
      BY <2>2 DEF Abstract!Done, Done
    <3>3. QED BY <3>1, <3>2 DEF Abstract!WriteOn
  <2>5. QED BY <2>3, <2>4 DEF Good, Abstract!Next
<1>3. CASE (Retry(w) /\ ~(Usable # 0 \/ eof)) \/ StopWriter(w)
  <2>1. /\ out' = <<>>
        /\ UNCHANGED <<buf, buflen, bufmax, bufmaxextra, indices, eof, closed, peeking>>
        /\ writing' = writing \/ writing' = [writing EXCEPT ![w] = Done]
    BY <1>3 DEF Retry, StopWriter
  <2>2. BytesInv' /\ Content' = Content
    BY <2>1, SameBytes DEF indices
  <2>3. Abstract!Stop(w) \/ Abstract!Nothing
    <3>1. CASE writing' = writing
      BY <2>1, <3>1, NothingIs
    <3>2. CASE writing' = [writing EXCEPT ![w] = Done]
      BY <2>1, <2>2, <3>2, CutOff
    <3>3. QED BY <2>1, <3>1, <3>2
  <2>4. bufmaxextra' <= bufmaxextra /\ bufmaxextra' \in Nat
    BY <2>1 DEF IndexInv
  <2>5. ShapeInv'
    BY <2>1, <2>4, OtherShape DEF ShapeInv
  <2>6. QED BY <2>2, <2>3, <2>5 DEF Good, Abstract!Next
<1>4. QED BY <1>1, <1>2, <1>3

\* Readers get bytes, peek at some, find the end or do nothing.
LEMMA ReadsGood ==
  ASSUME FullInv, IInv', NEW r \in Reader,
         \/ \E size \in 1..MaxLen : Get(r, size)
         \/ \E size \in 1..MaxLen, skip \in 0..MaxPeek - 1 : Peek(r, size, skip)
         \/ PeekOn(r)
         \/ StopPeeker(r)
  PROVE  Good
<1> USE DEF FullInv, IInv
<1>0. MaxLen \in Nat /\ MaxPeek \in Nat
  BY PipeAssumption
<1>1. ASSUME NEW size \in 1..MaxLen, Get(r, size), ~Empty
      PROVE  Good
  <2>1. size \in Nat \ {0}
    BY <1>0
  <2>2. /\ BytesInv'
        /\ \E c \in 1..Used : /\ out' = SubSeq(Content, 1, c)
                              /\ Content' = SubSeq(Content, c + 1, Used)
                              /\ Spend(c)
    BY <1>1, <2>1, GetBytes
  <2>3. PICK c \in 1..Used : /\ out' = SubSeq(Content, 1, c)
                             /\ Content' = SubSeq(Content, c + 1, Used)
                             /\ Spend(c)
    BY <2>2
  <2>4. UNCHANGED <<bufmax, eof, closed, writing, peeking>>
    BY <1>1 DEF Get
  <2>5. \E n \in 1..Len(Content) : Abstract!Get(n)
    BY <2>3, <2>4, GetIs
  <2>6. bufmaxextra' <= bufmaxextra /\ bufmaxextra' \in Nat
    <3>1. PICK x \in Nat, u \in Nat : x = bufmaxextra /\ u = Used
      BY UsedAvail DEF IndexInv
    <3>2. c \in Nat /\ bufmaxextra' = IF x > c THEN x - c ELSE 0
      BY <2>3, <3>1 DEF Spend
    <3>3. QED BY <3>1, <3>2
  <2>7. ShapeInv'
    BY <2>4, <2>6, OtherShape DEF ShapeInv
  <2>8. QED BY <2>2, <2>5, <2>7 DEF Good, Abstract!Next
<1>2. ASSUME NEW size \in 1..MaxLen, Get(r, size), Empty
      PROVE  Good
  <2>1. /\ out' = Eof /\ eof
        /\ UNCHANGED <<buf, buflen, bufmax, bufmaxextra, indices, eof, closed, writing, peeking>>
    BY <1>2 DEF Get, Returns
  <2>2. BytesInv' /\ Content' = Content
    BY <2>1, SameBytes DEF indices
  <2>3. Len(Content) \in Nat
    BY DEF BytesInv
  <2>4. Abstract!End(Len(Content))
    BY <2>1, <2>2, <2>3 DEF Abstract!End
  <2>5. bufmaxextra' <= bufmaxextra /\ bufmaxextra' \in Nat
    BY <2>1 DEF IndexInv
  <2>6. ShapeInv'
    BY <2>1, <2>5, OtherShape DEF ShapeInv
  <2>7. QED BY <2>2, <2>4, <2>6 DEF Good, Abstract!Next
<1>3. ASSUME NEW size \in Nat \ {0}, NEW skip \in Nat, size <= MaxLen, size + skip <= MaxPeek,
             Look(r, size, skip)
      PROVE  Good
  <2>1. ShapeInv'
    BY <1>3, LookShape
  <2>2. /\ BytesInv' /\ Content' = Content
        /\ UNCHANGED <<bufmax, eof, closed, writing>>
        /\ \/ /\ out' = <<>> \/ (eof /\ out' = Eof)
              /\ UNCHANGED bufmaxextra
           \/ \E s \in 0..Used, c \in 1..Used :
                /\ s + c <= Used /\ s <= skip /\ c <= size
                /\ out' = SubSeq(Content, s + 1, s + c)
                /\ Stretch(s + c)
    BY <1>3, LookBytes
  <2>3. CASE out' = <<>> /\ UNCHANGED bufmaxextra
    <3>1. Abstract!Nothing
      BY <2>2, <2>3 DEF Abstract!Nothing
    <3>2. QED BY <2>1, <2>2, <3>1 DEF Good, Abstract!Next
  <2>4. CASE eof /\ out' = Eof /\ UNCHANGED bufmaxextra
    <3>1. Len(Content) \in Nat
      BY DEF BytesInv
    <3>2. Abstract!End(Len(Content))
      BY <2>2, <2>4, <3>1 DEF Abstract!End
    <3>3. QED BY <2>1, <2>2, <3>2 DEF Good, Abstract!Next
  <2>5. CASE \E s \in 0..Used, c \in 1..Used :
               /\ s + c <= Used
               /\ out' = SubSeq(Content, s + 1, s + c)
               /\ Stretch(s + c)
    <3>1. \E k \in 0..Len(Content), n \in 1..Len(Content) : Abstract!Peek(k, n)
      BY <2>2, <2>5, LookIs
    <3>2. QED BY <2>1, <2>2, <3>1 DEF Good, Abstract!Next
  <2>6. QED BY <2>2, <2>3, <2>4, <2>5
<1>4. ASSUME NEW size \in 1..MaxLen, NEW skip \in 0..MaxPeek - 1, Peek(r, size, skip)
      PROVE  Good
  <2>1. size \in Nat \ {0} /\ size <= MaxLen /\ skip \in Nat
    BY <1>0
  <2>2. size + skip <= MaxPeek /\ Look(r, size, skip)
    BY <1>4 DEF Peek
  <2>3. QED BY <1>3, <2>1, <2>2
<1>5. CASE PeekOn(r)
  <2>1. peeking[r].size \in Nat \ {0} /\ peeking[r].skip \in Nat
    BY <1>5 DEF PeekOn, CallInv
  <2>2. peeking[r].size <= MaxLen /\ peeking[r].size + peeking[r].skip <= MaxPeek
    BY DEF ShapeInv
  <2>3. Look(r, peeking[r].size, peeking[r].skip)
    BY <1>5 DEF PeekOn
  <2>4. QED BY <1>3, <2>1, <2>2, <2>3
<1>6. CASE StopPeeker(r)
  <2>1. /\ out' = <<>> /\ peeking' = [peeking EXCEPT ![r] = Quiet]
        /\ UNCHANGED <<buf, buflen, bufmax, bufmaxextra, indices, eof, closed, writing>>
    BY <1>6 DEF StopPeeker
  <2>2. BytesInv' /\ Abstract!Nothing
    BY <2>1, SameBytes, NothingIs DEF indices
  <2>3. bufmaxextra' <= bufmaxextra /\ bufmaxextra' \in Nat
    BY <2>1 DEF IndexInv
  <2>4. ShapeInv'
    BY <2>1, <2>3, OtherShape DEF ShapeInv
  <2>5. QED BY <2>2, <2>4 DEF Good, Abstract!Next
<1>7. QED BY <1>1, <1>2, <1>4, <1>5, <1>6

\* A port is closed.
LEMMA CloseGood ==
  ASSUME FullInv, NEW port \in {"in", "out"}, Close(port)
  PROVE  Good
<1> USE DEF FullInv, IInv
<1>1. /\ out' = <<>> /\ eof' = TRUE /\ closed' = closed \cup {port}
      /\ UNCHANGED <<buf, buflen, bufmax, bufmaxextra, indices, writing, peeking>>
  BY DEF Close
<1>2. BytesInv' /\ Content' = Content
  BY <1>1, SameBytes DEF indices
<1>3. Abstract!Close
  BY <1>1, <1>2 DEF Abstract!Close
<1>4. bufmaxextra' <= bufmaxextra /\ bufmaxextra' \in Nat
  BY <1>1 DEF IndexInv
<1>5. ShapeInv'
  BY <1>1, <1>4, OtherShape DEF ShapeInv
<1>6. QED BY <1>2, <1>3, <1>5 DEF Good, Abstract!Next

LEMMA StepGood ==
  ASSUME FullInv, IInv', [Next]_vars
  PROVE  Good
<1>1. CASE UNCHANGED vars
  <2>1. BytesInv' /\ Content' = Content
    BY <1>1, SameBytes DEF vars, indices, FullInv
  <2>2. ShapeInv'
    BY <1>1 DEF vars, ShapeInv, FullInv
  <2>3. UNCHANGED Abstract!vars
    BY <1>1, <2>1 DEF vars, Abstract!vars
  <2>4. QED BY <2>1, <2>2, <2>3 DEF Good
<1>2. QED BY <1>1, WritesGood, ReadsGood, CloseGood DEF Next

LEMMA InitGood == Init => FullInv /\ Abstract!Init
<1> SUFFICES ASSUME Init PROVE FullInv /\ Abstract!Init
  OBVIOUS
<1>1. PICK limit \in Limits :
        /\ bufmax = IF limit > 0 THEN limit + 1 ELSE 0
        /\ buf = [i \in 0..buflen - 1 |-> Blank]
        /\ bufmaxextra = 0 /\ bufstart = 0 /\ bufend = 0
        /\ eof = FALSE /\ closed = {}
        /\ writing = [w \in Writer |-> Done]
        /\ peeking = [r \in Reader |-> Quiet]
        /\ out = <<>>
  BY DEF Init
<1>2. limit \in Nat /\ MaxPeek \in Nat /\ MaxLen \in Nat
  BY PipeAssumption
<1>3. IInv
  BY InitHolds
<1>4. Content = <<>>
  <2>1. Used = 0
    BY <1>1 DEF Used
  <2>2. QED BY <2>1 DEF Content
<1>5. BytesInv
  BY <1>1, <1>4 DEF BytesInv
<1>6. ShapeInv
  <2>1. bufmax \in {0} \cup {l + 1 : l \in Limits \ {0}}
    BY <1>1, <1>2
  <2>2. \A r \in Reader : peeking[r].size <= MaxLen /\ peeking[r].size + peeking[r].skip <= MaxPeek
    BY <1>1, <1>2 DEF Quiet
  <2>3. \A w \in Writer : writing[w].mode \in 0..1
    BY <1>1 DEF Done
  <2>4. bufmaxextra <= MaxPeek
    BY <1>1, <1>2
  <2>5. QED BY <1>1, <2>1, <2>2, <2>3, <2>4 DEF ShapeInv
<1>7. Abstract!Init
  BY <1>1, <1>2, <1>4 DEF Abstract!Init, Abstract!Done, Done
<1>8. QED BY <1>3, <1>5, <1>6, <1>7 DEF FullInv

LEMMA FullInvAlways == Spec => []FullInv
<1>1. FullInv /\ [Next]_vars => FullInv'
  BY StepHolds, StepGood DEF FullInv, Good
<1>2. QED BY <1>1, InitGood, PTL DEF Spec

\* The bookkeeping of a pipe stays in range and no cell in use is blank, for any
\* limit, any buffer at first, and strings, reads and peeks of any length.
THEOREM TypeCorrect == Spec => []TypeOK
BY FullInvAlways, TypeFollows, PTL

\* The circular buffer, as it wraps around, grows and is stretched by peeks, is
\* a queue of bytes: what is read is what was written first and not read yet,
\* what is peeked is what would be read, and no more than the limit is written
\* beyond what was peeked.  A write adds the first part of its own string, as much
\* as there is room for, and when it has waited the part that comes next.
THEOREM QueueOfBytes == Spec => ImplementsAbstract
<1>1. FullInv /\ [Next]_vars => FullInv' /\ [Abstract!Next]_(Abstract!vars)
  BY StepHolds, StepGood DEF FullInv, Good
<1>2. QED BY <1>1, InitGood, PTL DEF Spec, ImplementsAbstract, Abstract!Spec
=============================================================================
