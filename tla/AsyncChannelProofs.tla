------------------------- MODULE AsyncChannelProofs -------------------------
(***************************************************************************)
(* Proofs about AsyncChannel for any users, values, custodians and limits: *)
(* what it keeps is in range, the manager runs while somebody waits for it *)
(* and the whole of it implements AbstractQueue.                           *)
(***************************************************************************)
EXTENDS AsyncChannel, SequenceTheorems, TLAPS

\* A list of custodians, none of them twice.
IsList(ms) ==
  /\ ms \in Seq(Custodian)
  /\ \A i, j \in 1..Len(ms) : ms[i] = ms[j] => i = j

LEMMA Elements ==
  ASSUME NEW ms, IsList(ms), NEW X,
         \A i \in 1..Len(ms) : ms[i] \in X,
         \A x \in X : \E i \in 1..Len(ms) : x = ms[i]
  PROVE  ToSet(ms) = X
BY DEF ToSet, IsList

LEMMA ElementsOf ==
  ASSUME NEW ms, IsList(ms)
  PROVE  /\ \A i \in 1..Len(ms) : ms[i] \in ToSet(ms)
         /\ \A x \in ToSet(ms) : \E i \in 1..Len(ms) : x = ms[i]
BY DEF ToSet, IsList

LEMMA PromotedList ==
  ASSUME NEW ms, IsList(ms), NEW c \in Custodian
  PROVE  IsList(Promoted(ms, c)) /\ ToSet(Promoted(ms, c)) = ToSet(ms) \cup {c}
<1>1. CASE ms = <<>>
  <2>1. Promoted(ms, c) = <<c>>
    BY <1>1 DEF Promoted
  <2>2. PICK p : p = <<c>>
    OBVIOUS
  <2>3. p \in Seq(Custodian) /\ Len(p) = 1 /\ p[1] = c
    BY <2>2
  <2>4. IsList(p)
    BY <2>3 DEF IsList
  <2>5. ToSet(p) = {c}
    <3>1. \A i \in 1..Len(p) : p[i] \in {c}
      BY <2>3
    <3>2. 1 \in 1..Len(p)
      BY <2>3
    <3>3. \A x \in {c} : \E i \in 1..Len(p) : x = p[i]
      BY <2>3, <3>2
    <3>4. QED BY <2>4, <3>1, <3>3, Elements
  <2>6. ToSet(ms) = {}
    BY <1>1, Elements
  <2>7. QED BY <2>1, <2>2, <2>4, <2>5, <2>6
<1>2. CASE ms # <<>> /\ Contains(ms, c)
  <2>1. Promoted(ms, c) = ms
    BY <1>2 DEF Promoted
  <2>2. c \in ToSet(ms)
    BY <1>2 DEF Contains, ToSet
  <2>3. QED BY <2>1, <2>2
<1>3. CASE ms # <<>> /\ ~Contains(ms, c)
  <2>1. PICK p : p = <<Head(ms), c>> \o Tail(ms)
    OBVIOUS
  <2>2. /\ p \in Seq(Custodian) /\ Len(p) = Len(ms) + 1
        /\ p[1] = ms[1] /\ p[2] = c
        /\ \A i \in 3..Len(p) : p[i] = ms[i - 1]
    BY <1>3, <2>1 DEF IsList
  <2>3. \A i \in 1..Len(ms) : ms[i] # c
    BY <1>3 DEF Contains, IsList
  <2>4. Len(ms) \in Nat /\ Len(ms) >= 1
    BY <1>3 DEF IsList
  <2>5. \A i \in 1..Len(p) : \/ i = 1 /\ p[i] = ms[1]
                             \/ i = 2 /\ p[i] = c
                             \/ i > 2 /\ i - 1 \in 2..Len(ms) /\ p[i] = ms[i - 1]
    <3>1. TAKE i \in 1..Len(p)
    <3>2. CASE i = 1
      BY <2>2, <3>2
    <3>3. CASE i = 2
      BY <2>2, <3>3
    <3>4. CASE i > 2
      <4>1. i \in 3..Len(p) /\ i - 1 \in 2..Len(ms)
        BY <2>2, <2>4, <3>4
      <4>2. QED BY <2>2, <3>4, <4>1
    <3>5. QED BY <2>2, <2>4, <3>2, <3>3, <3>4
  <2>6. IsList(p)
    <3>3. ASSUME NEW i \in 1..Len(p), NEW j \in 1..Len(p), p[i] = p[j]
          PROVE  i = j
      <4>1. \A a, b \in 1..Len(ms) : ms[a] = ms[b] => a = b
        BY DEF IsList
      <4>2. CASE i = 2 \/ j = 2
        <5>1. ASSUME NEW k \in 1..Len(p), p[k] = c
              PROVE  k = 2
          BY <2>3, <2>4, <2>5, <5>1
        <5>2. p[i] = c /\ p[j] = c
          BY <2>2, <3>3, <4>2
        <5>3. QED BY <5>1, <5>2
      <4>3. CASE i # 2 /\ j # 2
        <5> DEFINE at(k) == IF k = 1 THEN 1 ELSE k - 1
        <5>1. at(i) \in 1..Len(ms) /\ p[i] = ms[at(i)] /\ at(j) \in 1..Len(ms) /\ p[j] = ms[at(j)]
          BY <2>4, <2>5, <4>3
        <5>2. at(i) = at(j)
          BY <3>3, <4>1, <5>1
        <5>3. QED BY <2>2, <2>4, <4>3, <5>2
      <4>4. QED BY <4>2, <4>3
    <3>4. QED BY <2>2, <3>3 DEF IsList
  <2>7. ToSet(p) = ToSet(ms) \cup {c}
    <3>3. \A i \in 1..Len(p) : p[i] \in ToSet(ms) \cup {c}
      BY <2>4, <2>5, ElementsOf
    <3>4. \A j \in 1..Len(ms) : \E i \in 1..Len(p) : ms[j] = p[i]
      <4>1. TAKE j \in 1..Len(ms)
      <4>2. CASE j = 1
        BY <2>2, <2>4, <4>2
      <4>3. CASE j > 1
        <5>1. j + 1 \in 3..Len(p) /\ (j + 1) - 1 = j
          BY <2>2, <2>4, <4>3
        <5>2. p[j + 1] = ms[j]
          BY <2>2, <5>1
        <5>3. QED BY <2>2, <5>1, <5>2
      <4>4. QED BY <2>4, <4>2, <4>3
    <3>5. \A x \in ToSet(ms) \cup {c} : \E i \in 1..Len(p) : x = p[i]
      BY <2>2, <2>4, <3>4, ElementsOf
    <3>6. QED BY <2>6, <3>3, <3>5, Elements
  <2>8. Promoted(ms, c) = p
    BY <1>3, <2>1 DEF Promoted
  <2>9. QED BY <2>6, <2>7, <2>8
<1>4. QED BY <1>1, <1>2, <1>3

LEMMA LeftList ==
  ASSUME NEW ms, IsList(ms), NEW c
  PROVE  IsList(Left(ms, c)) /\ ToSet(Left(ms, c)) = ToSet(ms) \ {c}
<1>0. DOMAIN ms = 1..Len(ms) /\ Len(ms) \in Nat
  BY DEF IsList
<1>1. CASE ~Contains(ms, c)
  <2>1. Left(ms, c) = ms
    BY <1>1 DEF Left
  <2>2. c \notin ToSet(ms)
    BY <1>0, <1>1 DEF Contains, ToSet
  <2>3. QED BY <2>1, <2>2
<1>2. CASE Contains(ms, c)
  <2>1. PICK k \in 1..Len(ms) : k = CHOOSE i \in DOMAIN ms : ms[i] = c
    BY <1>0, <1>2 DEF Contains
  <2>2. ms[k] = c
    BY <1>0, <1>2, <2>1 DEF Contains
  <2>3. PICK q : q = SubSeq(ms, 1, k - 1) \o SubSeq(ms, k + 1, Len(ms))
    OBVIOUS
  <2>4. Left(ms, c) = q
    BY <1>2, <2>1, <2>3 DEF Left, RemoveAt
  <2>5. /\ q \in Seq(Custodian) /\ Len(q) = Len(ms) - 1
        /\ \A i \in 1..Len(q) : q[i] = IF i < k THEN ms[i] ELSE ms[i + 1]
    <3> DEFINE front == SubSeq(ms, 1, k - 1)
               back == SubSeq(ms, k + 1, Len(ms))
    <3>1. /\ front \in Seq(Custodian) /\ Len(front) = k - 1
          /\ \A i \in 1..k - 1 : front[i] = ms[i]
      BY <1>0 DEF IsList
    <3>2. /\ back \in Seq(Custodian) /\ Len(back) = Len(ms) - k
          /\ \A i \in 1..Len(ms) - k : back[i] = ms[i + k]
      <4>1. /\ k + 1 \in Int /\ Len(ms) \in Int
            /\ \A i \in k + 1..Len(ms) : ms[i] \in Custodian
        BY <1>0 DEF IsList
      <4>2. /\ back \in Seq(Custodian)
            /\ Len(back) = IF k + 1 <= Len(ms) THEN Len(ms) - (k + 1) + 1 ELSE 0
            /\ \A i \in 1..Len(ms) - (k + 1) + 1 : back[i] = ms[(k + 1) + i - 1]
        BY <4>1, SubSeqProperties
      <4> HIDE DEF back
      <4>3. Len(back) = Len(ms) - k
        BY <1>0, <4>2
      <4>4. ASSUME NEW i \in 1..Len(ms) - k
            PROVE  back[i] = ms[i + k]
        <5>1. i \in 1..Len(ms) - (k + 1) + 1
          BY <1>0
        <5>2. back[i] = ms[(k + 1) + i - 1]
          BY <4>2, <5>1
        <5>3. (k + 1) + i - 1 = i + k
          BY <1>0
        <5>4. QED BY <5>2, <5>3
      <4>5. QED BY <4>2, <4>3, <4>4
    <3>3. q = front \o back
      BY <2>3
    <3> HIDE DEF front, back
    <3>4. /\ q \in Seq(Custodian) /\ Len(q) = Len(ms) - 1
          /\ \A i \in 1..Len(q) : q[i] = IF i <= k - 1 THEN front[i] ELSE back[i - (k - 1)]
      <4>1. /\ Len(q) = Len(front) + Len(back)
            /\ \A i \in 1..Len(front) + Len(back) :
                 q[i] = IF i <= Len(front) THEN front[i] ELSE back[i - Len(front)]
            /\ q \in Seq(Custodian)
        BY <3>1, <3>2, <3>3, ConcatProperties
      <4>2. Len(front) + Len(back) = Len(ms) - 1
        BY <1>0, <3>1, <3>2
      <4>3. QED BY <3>1, <4>1, <4>2
    <3>5. ASSUME NEW i \in 1..Len(q)
          PROVE  q[i] = IF i < k THEN ms[i] ELSE ms[i + 1]
      <4>1. CASE i < k
        BY <1>0, <3>1, <3>4, <4>1
      <4>2. CASE i >= k
        <5>1. i - (k - 1) \in 1..Len(ms) - k /\ (i - (k - 1)) + k = i + 1 /\ ~(i <= k - 1)
          BY <1>0, <3>4, <4>2
        <5>2. QED BY <3>2, <3>4, <4>2, <5>1
      <4>3. QED BY <1>0, <4>1, <4>2
    <3>6. QED BY <3>4, <3>5
  <2>6. IsList(q)
    <3>1. ASSUME NEW i \in 1..Len(q), NEW j \in 1..Len(q), q[i] = q[j]
          PROVE  i = j
      <4> DEFINE at(n) == IF n < k THEN n ELSE n + 1
      <4>1. at(i) \in 1..Len(ms) /\ at(j) \in 1..Len(ms)
        BY <1>0, <2>5
      <4>2. ms[at(i)] = ms[at(j)]
        BY <2>5, <3>1
      <4>3. at(i) = at(j)
        BY <4>1, <4>2 DEF IsList
      <4>4. QED BY <1>0, <2>5, <4>3
    <3>2. QED BY <2>5, <3>1 DEF IsList
  <2>7. ToSet(q) = ToSet(ms) \ {c}
    <3>1. \A i \in 1..Len(q) : q[i] # c /\ \E j \in 1..Len(ms) : q[i] = ms[j]
      BY <1>0, <2>2, <2>5 DEF IsList
    <3>2. \A j \in 1..Len(ms) : ms[j] # c => \E i \in 1..Len(q) : q[i] = ms[j]
      <4>1. SUFFICES ASSUME NEW j \in 1..Len(ms), ms[j] # c
                     PROVE  \E i \in 1..Len(q) : q[i] = ms[j]
        OBVIOUS
      <4>2. CASE j < k
        BY <1>0, <2>5, <4>2
      <4>3. CASE j > k
        <5>1. j - 1 \in 1..Len(q) /\ ~(j - 1 < k) /\ (j - 1) + 1 = j
          BY <1>0, <2>5, <4>3
        <5>2. q[j - 1] = ms[j]
          BY <2>5, <5>1
        <5>3. QED BY <5>1, <5>2
      <4>4. QED BY <1>0, <2>2, <4>1, <4>2, <4>3
    <3>3. \A i \in 1..Len(q) : q[i] \in ToSet(ms) \ {c}
      BY <3>1, ElementsOf
    <3>4. \A x \in ToSet(ms) \ {c} : \E i \in 1..Len(q) : x = q[i]
      BY <3>2, ElementsOf
    <3>5. QED BY <2>6, <3>3, <3>4, Elements
  <2>8. QED BY <2>4, <2>6, <2>7
<1>3. QED BY <1>1, <1>2

-----------------------------------------------------------------------------
\* The limit, the queue, and what is left to do to it.

ChannelInv ==
  /\ limit \in Limits
  /\ queue \in Seq(Value)
  /\ met \in [with : {"none", "enqueue", "dequeue", "tell"}, arg : Value \cup {Null}]
  /\ met.with = "enqueue" <=> met.arg # Null
  /\ met.with = "dequeue" => queue # <<>>
  /\ limit > 0 => Len(queue) <= limit
  /\ limit > 0 /\ met.with = "enqueue" => Len(queue) < limit

\* What the users ask for.
UserInv ==
  /\ call \in [User -> [op : Operation \cup {"none"}, arg : Value \cup {Null}]]
  /\ answer \in [User -> Value \cup {Null, "done", "fail"}]
  /\ \A u \in User : call[u].op \in Puts => call[u].arg \in Value
  /\ \A u \in User : call[u] = NoCall => answer[u] = Null

\* A thread is managed by custodians that are not shut down.
CustodyInv ==
  /\ DOMAIN managers = User \cup {Manager}
  /\ \A t \in User \cup {Manager} : IsList(managers[t])
  /\ \A t \in User \cup {Manager} : ToSet(managers[t]) \cap shut_down = {}
  /\ yoked \subseteq User

LEMMA Enqueued ==
  ASSUME NEW q \in Seq(Value), NEW v \in Value
  PROVE  Append(q, v) \in Seq(Value) /\ Len(Append(q, v)) = Len(q) + 1
OBVIOUS

LEMMA Dequeued ==
  ASSUME NEW q \in Seq(Value), q # <<>>
  PROVE  /\ Tail(q) \in Seq(Value) /\ Len(Tail(q)) = Len(q) - 1 /\ Len(q) \in Nat
         /\ Head(q) \in Value
OBVIOUS

LEMMA HandledQueue ==
  ASSUME ChannelInv
  PROVE  Handled \in Seq(Value) /\ (limit > 0 => Len(Handled) <= limit)
<1>1. limit \in Nat /\ Len(queue) \in Nat
  BY AsyncAssumption DEF ChannelInv
<1>2. CASE met.with = "enqueue"
  <2>1. met.arg \in Value
    BY <1>2 DEF ChannelInv
  <2>2. Handled = Append(queue, met.arg)
    BY <1>2 DEF Handled
  <2>3. QED BY <1>1, <1>2, <2>1, <2>2, Enqueued DEF ChannelInv
<1>3. CASE met.with = "dequeue"
  <2>1. Handled = Tail(queue) /\ queue # <<>>
    BY <1>3 DEF Handled, ChannelInv
  <2>2. QED BY <1>1, <2>1, Dequeued DEF ChannelInv
<1>4. CASE met.with \in {"none", "tell"}
  BY <1>1, <1>4 DEF Handled, ChannelInv
<1>5. QED BY <1>2, <1>3, <1>4 DEF ChannelInv

LEMMA LoopChannel ==
  ASSUME ChannelInv, Loop
  PROVE  ChannelInv'
<1>1. queue' \in Seq(Value) /\ (limit' > 0 => Len(queue') <= limit')
  BY HandledQueue DEF Loop
<1>2. met' = [with |-> "none", arg |-> Null] /\ limit' = limit
  BY DEF Loop, Nothing
<1>3. QED BY <1>1, <1>2 DEF ChannelInv

LEMMA PutChannel ==
  ASSUME ChannelInv, UserInv, NEW u \in User, MeetPut(u)
  PROVE  ChannelInv'
<1>1. PICK v : v = call[u].arg
  OBVIOUS
<1>2. v \in Value /\ v # Null
  BY <1>1, AsyncAssumption DEF UserInv, MeetPut, Waits
<1>3. met' = [with |-> "enqueue", arg |-> v] /\ UNCHANGED <<limit, queue>>
  BY <1>1 DEF MeetPut, Meets
<1>4. limit > 0 => Len(queue) < limit
  BY AsyncAssumption DEF MeetPut, MayEnqueue, ChannelInv
<1>5. QED BY <1>2, <1>3, <1>4 DEF ChannelInv

LEMMA GetChannel ==
  ASSUME ChannelInv, NEW u \in User, MeetGet(u)
  PROVE  ChannelInv'
<1>1. met' = [with |-> "dequeue", arg |-> Null] /\ UNCHANGED <<limit, queue>>
  BY DEF MeetGet, Meets
<1>2. queue # <<>>
  BY DEF MeetGet, MayDequeue
<1>3. QED BY <1>1, <1>2 DEF ChannelInv

LEMMA PollChannel ==
  ASSUME ChannelInv, NEW u \in User, MeetPoll(u)
  PROVE  ChannelInv'
<1>1. met' = [with |-> "tell", arg |-> Null] /\ UNCHANGED <<limit, queue>>
  BY DEF MeetPoll, Meets
<1>2. QED BY <1>1 DEF ChannelInv

LEMMA ChannelStep ==
  ASSUME ChannelInv, UserInv, [Next]_vars
  PROVE  ChannelInv'
<1>1. CASE Loop
  BY <1>1, LoopChannel
<1>2. CASE \E u \in User : MeetPut(u) \/ MeetGet(u) \/ MeetPoll(u)
  BY <1>2, PutChannel, GetChannel, PollChannel
<1>3. CASE UNCHANGED <<limit, queue, met>>
  BY <1>3 DEF ChannelInv
<1>4. ASSUME NEW u \in User, NEW op, NEW v, Call(u, op, v)
      PROVE  UNCHANGED <<limit, queue, met>>
  BY <1>4 DEF Call
<1>5. ASSUME NEW u \in User, Return(u) \/ Break(u) \/ \E c \in Custodian : Adopt(u, c)
      PROVE  UNCHANGED <<limit, queue, met>>
  BY <1>5 DEF Return, Break, Ends, Adopt, channel
<1>6. ASSUME NEW c \in Custodian, Shutdown(c)
      PROVE  UNCHANGED <<limit, queue, met>>
  BY <1>6 DEF Shutdown
<1>7. CASE UNCHANGED vars
  BY <1>3, <1>7 DEF vars
<1>8. QED BY <1>1, <1>2, <1>3, <1>4, <1>5, <1>6, <1>7 DEF Next

-----------------------------------------------------------------------------
\* The users' calls.

LEMMA Calls ==
  ASSUME UserInv, NEW u \in User, NEW op \in Operation, NEW v,
         \/ op \in Gets /\ v = Null
         \/ op \in Puts /\ v \in Value,
         Call(u, op, v)
  PROVE  UserInv'
<1>1. call' = [call EXCEPT ![u] = [op |-> op, arg |-> v]] /\ answer' = answer
  BY DEF Call
<1>2. call[u] = NoCall
  BY DEF Call
<1>3. call' \in [User -> [op : Operation \cup {"none"}, arg : Value \cup {Null}]]
  BY <1>1 DEF UserInv
<1>4. \A t \in User : call'[t].op \in Puts => call'[t].arg \in Value
  BY <1>1 DEF UserInv, Puts, Gets
<1>5. \A t \in User : call'[t] = NoCall => answer'[t] = Null
  BY <1>1, <1>2 DEF UserInv
<1>6. QED BY <1>1, <1>3, <1>4, <1>5 DEF UserInv

\* What a sync returns.
LEMMA Answered ==
  ASSUME UserInv, NEW u \in User, call[u] # NoCall, call' = call,
         NEW v \in Value \cup {Null, "done", "fail"},
         answer' = [answer EXCEPT ![u] = v]
  PROVE  UserInv'
BY DEF UserInv

LEMMA Asks ==
  ASSUME NEW u \in User, NEW ops, ops \subseteq Gets \cup Puts, Waits(u, ops)
  PROVE  call[u] # NoCall
BY DEF Waits, Gets, Puts, NoCall

LEMMA Answers ==
  ASSUME ChannelInv, UserInv, NEW u \in User, Meet(u)
  PROVE  UserInv'
<1>1. CASE MeetPut(u)
  <2>1. call[u] # NoCall
    BY <1>1, Asks DEF MeetPut
  <2>2. call' = call /\ answer' = [answer EXCEPT ![u] = "done"]
    BY <1>1 DEF MeetPut, Meets
  <2>3. QED BY <2>1, <2>2, Answered
<1>2. CASE MeetGet(u)
  <2>1. call[u] # NoCall
    BY <1>2, Asks DEF MeetGet
  <2>2. Head(queue) \in Value
    BY <1>2, Dequeued DEF MeetGet, MayDequeue, ChannelInv
  <2>3. call' = call /\ answer' = [answer EXCEPT ![u] = Head(queue)]
    BY <1>2 DEF MeetGet, Meets
  <2>4. QED BY <2>1, <2>2, <2>3, Answered
<1>3. CASE MeetPoll(u)
  <2>1. {"try-get"} \subseteq Gets \cup Puts /\ {"try-put"} \subseteq Gets \cup Puts
    BY DEF Gets, Puts
  <2>2. call[u] # NoCall
    BY <1>3, <2>1, Asks DEF MeetPoll
  <2>3. call' = call /\ answer' = [answer EXCEPT ![u] = "fail"]
    BY <1>3 DEF MeetPoll, Meets
  <2>4. QED BY <2>2, <2>3, Answered
<1>4. QED BY <1>1, <1>2, <1>3 DEF Meet

\* Calls end, of one user or of several.
LEMMA Ended ==
  ASSUME UserInv,
         \/ \E u \in User : Ends(u)
         \/ \E c \in Custodian : Shutdown(c)
  PROVE  /\ UserInv'
         /\ \A u \in User : \/ call'[u] = call[u] /\ answer'[u] = answer[u]
                            \/ call'[u] = NoCall /\ answer'[u] = Null
<1>1. NoCall \in [op : Operation \cup {"none"}, arg : Value \cup {Null}] /\ NoCall.op \notin Puts
  BY DEF NoCall, Puts
<1>2. ASSUME NEW u \in User, Ends(u)
      PROVE  /\ call' \in [User -> [op : Operation \cup {"none"}, arg : Value \cup {Null}]]
             /\ answer' \in [User -> Value \cup {Null, "done", "fail"}]
             /\ \A t \in User : \/ call'[t] = call[t] /\ answer'[t] = answer[t]
                                \/ call'[t] = NoCall /\ answer'[t] = Null
  BY <1>1, <1>2 DEF UserInv, Ends
<1>3. ASSUME NEW c \in Custodian, Shutdown(c)
      PROVE  /\ call' \in [User -> [op : Operation \cup {"none"}, arg : Value \cup {Null}]]
             /\ answer' \in [User -> Value \cup {Null, "done", "fail"}]
             /\ \A t \in User : \/ call'[t] = call[t] /\ answer'[t] = answer[t]
                                \/ call'[t] = NoCall /\ answer'[t] = Null
  BY <1>1, <1>3 DEF UserInv, Shutdown
<1>4. /\ call' \in [User -> [op : Operation \cup {"none"}, arg : Value \cup {Null}]]
      /\ answer' \in [User -> Value \cup {Null, "done", "fail"}]
      /\ \A t \in User : \/ call'[t] = call[t] /\ answer'[t] = answer[t]
                         \/ call'[t] = NoCall /\ answer'[t] = Null
  BY <1>2, <1>3
<1>5. QED BY <1>1, <1>4 DEF UserInv

LEMMA UserStep ==
  ASSUME ChannelInv, UserInv, [Next]_vars
  PROVE  UserInv'
<1>1. ASSUME NEW u \in User, NEW op \in Operation \cap Gets, Call(u, op, Null)
      PROVE  UserInv'
  BY <1>1, Calls
<1>2. ASSUME NEW u \in User, NEW op \in Operation \cap Puts, NEW v \in Value, Call(u, op, v)
      PROVE  UserInv'
  BY <1>2, Calls
<1>3. CASE \E u \in User : Meet(u)
  BY <1>3, Answers
<1>4. CASE \E u \in User : Return(u) \/ Break(u)
  BY <1>4, Ended DEF Return, Break
<1>5. CASE \E c \in Custodian : Shutdown(c)
  BY <1>5, Ended
<1>6. CASE UNCHANGED <<call, answer>>
  BY <1>6 DEF UserInv
<1>7. CASE Loop
  BY <1>6, <1>7 DEF Loop
<1>8. CASE \E u \in User, c \in Custodian : Adopt(u, c)
  BY <1>6, <1>8 DEF Adopt, channel
<1>9. CASE UNCHANGED vars
  BY <1>6, <1>9 DEF vars
<1>10. QED BY <1>1, <1>2, <1>3, <1>4, <1>5, <1>7, <1>8, <1>9 DEF Next, Meet

-----------------------------------------------------------------------------
\* Who is managed by whom.

LEMMA HeadOf ==
  ASSUME NEW ms, IsList(ms)
  PROVE  /\ ms # <<>> => Head(ms) \in ToSet(ms)
         /\ ms = <<>> => ToSet(ms) = {}
         /\ ToSet(ms) \subseteq Custodian
<1>1. ASSUME ms # <<>>
      PROVE  Head(ms) \in ToSet(ms)
  <2>1. 1 \in 1..Len(ms) /\ Head(ms) = ms[1]
    BY <1>1 DEF IsList
  <2>2. QED BY <2>1, ElementsOf
<1>2. ms = <<>> => ToSet(ms) = {}
  BY ElementsOf
<1>3. ToSet(ms) \subseteq Custodian
  BY ElementsOf DEF IsList
<1>4. QED BY <1>1, <1>2, <1>3

LEMMA Resumed ==
  ASSUME CustodyInv, NEW u \in User, Alive(u), thread_resume(u)
  PROVE  /\ CustodyInv'
         /\ \A t \in User : managers'[t] = managers[t]
         /\ ToSet(managers'[Manager]) = ToSet(managers[Manager]) \cup {Head(managers[u])}
<1>1. DOMAIN managers = User \cup {Manager} /\ IsList(managers[u]) /\ IsList(managers[Manager])
  BY DEF CustodyInv
<1>2. PICK c : c = Head(managers[u])
  OBVIOUS
<1>3. c \in Custodian /\ c \in ToSet(managers[u])
  BY <1>1, <1>2, HeadOf DEF Alive
<1>4. c \notin shut_down
  BY <1>3 DEF CustodyInv
<1>5. managers' = [managers EXCEPT ![Manager] = Promoted(managers[Manager], c)]
  BY <1>2 DEF thread_resume
<1>6. /\ DOMAIN managers' = User \cup {Manager}
      /\ \A t \in User : managers'[t] = managers[t]
      /\ managers'[Manager] = Promoted(managers[Manager], c)
  BY <1>1, <1>5, AsyncAssumption
<1>7. /\ IsList(managers'[Manager])
      /\ ToSet(managers'[Manager]) = ToSet(managers[Manager]) \cup {c}
  BY <1>1, <1>3, <1>6, PromotedList
<1>8. yoked' = yoked \cup {u} /\ shut_down' = shut_down
  BY DEF thread_resume
<1>9. CustodyInv'
  BY <1>4, <1>6, <1>7, <1>8 DEF CustodyInv
<1>10. QED BY <1>2, <1>6, <1>7, <1>9

LEMMA Adopted ==
  ASSUME CustodyInv, NEW u \in User, NEW c \in Custodian, Adopt(u, c)
  PROVE  /\ CustodyInv'
         /\ \A t \in User \cup {Manager} :
              IF t = u \/ (t = Manager /\ u \in yoked)
              THEN ToSet(managers'[t]) = ToSet(managers[t]) \cup {c}
              ELSE managers'[t] = managers[t]
<1> DEFINE gets(t) == t = u \/ (t = Manager /\ u \in yoked)
<1>1. /\ DOMAIN managers' = User \cup {Manager}
      /\ \A t \in User \cup {Manager} :
           managers'[t] = IF gets(t) THEN Promoted(managers[t], c) ELSE managers[t]
  BY DEF Adopt, CustodyInv
<1>2. ASSUME NEW t \in User \cup {Manager}
      PROVE  /\ IsList(managers'[t])
             /\ gets(t) => ToSet(managers'[t]) = ToSet(managers[t]) \cup {c}
             /\ ~gets(t) => managers'[t] = managers[t]
  <2>1. IsList(managers[t])
    BY DEF CustodyInv
  <2>2. CASE gets(t)
    <3>1. managers'[t] = Promoted(managers[t], c)
      BY <1>1, <2>2
    <3>2. QED BY <2>1, <2>2, <3>1, PromotedList
  <2>3. CASE ~gets(t)
    BY <1>1, <2>1, <2>3
  <2>4. QED BY <2>2, <2>3
<1>3. c \notin shut_down /\ UNCHANGED <<yoked, shut_down>>
  BY DEF Adopt
<1>4. \A t \in User \cup {Manager} : ToSet(managers'[t]) \cap shut_down' = {}
  BY <1>2, <1>3 DEF CustodyInv
<1>5. CustodyInv'
  BY <1>1, <1>2, <1>3, <1>4 DEF CustodyInv
<1>6. QED BY <1>2, <1>5

LEMMA ShutDown ==
  ASSUME CustodyInv, NEW c \in Custodian, Shutdown(c)
  PROVE  /\ CustodyInv'
         /\ \A t \in User \cup {Manager} :
              ToSet(managers'[t]) = ToSet(managers[t]) \ {c}
<1>1. /\ DOMAIN managers' = User \cup {Manager}
      /\ \A t \in User \cup {Manager} : managers'[t] = Left(managers[t], c)
  BY DEF Shutdown, CustodyInv
<1>2. ASSUME NEW t \in User \cup {Manager}
      PROVE  IsList(managers'[t]) /\ ToSet(managers'[t]) = ToSet(managers[t]) \ {c}
  BY <1>1, LeftList DEF CustodyInv
<1>3. shut_down' = shut_down \cup {c} /\ yoked' \subseteq yoked
  BY DEF Shutdown
<1>4. QED BY <1>1, <1>2, <1>3 DEF CustodyInv

LEMMA CustodyStep ==
  ASSUME CustodyInv, [Next]_vars
  PROVE  CustodyInv'
<1>1. ASSUME NEW u \in User, NEW op, NEW v, Call(u, op, v)
      PROVE  CustodyInv'
  BY <1>1, Resumed DEF Call
<1>2. CASE \E u \in User, c \in Custodian : Adopt(u, c)
  BY <1>2, Adopted
<1>3. CASE \E c \in Custodian : Shutdown(c)
  BY <1>3, ShutDown
<1>4. CASE UNCHANGED threads
  BY <1>4 DEF threads, CustodyInv
<1>5. CASE \/ Loop
           \/ \E u \in User : \/ MeetPut(u) \/ MeetGet(u) \/ MeetPoll(u)
                              \/ Return(u) \/ Break(u)
  BY <1>4, <1>5 DEF Loop, MeetPut, MeetGet, MeetPoll, Meets, Return, Break, Ends
<1>6. CASE UNCHANGED vars
  BY <1>4, <1>6 DEF vars, threads
<1>7. QED BY <1>1, <1>2, <1>3, <1>5, <1>6 DEF Next

-----------------------------------------------------------------------------
\* The manager has every custodian of the users it is yoked to, and a user that
\* it is not yoked to has one at most, which thread_resume hands on.
YokeInv ==
  /\ \A u \in yoked : /\ managers[u] # <<>>
                      /\ ToSet(managers[u]) \subseteq ToSet(managers[Manager])
  /\ \A u \in User \ yoked : \A a, b \in ToSet(managers[u]) : a = b
  /\ \A u \in User : call[u] # NoCall => u \in yoked
  /\ managers[Manager] # <<>> => ~suspended

LEMMA CallYokes ==
  ASSUME CustodyInv, UserInv, YokeInv, NEW u \in User, NEW op, NEW v, Call(u, op, v)
  PROVE  YokeInv'
<1>1. Alive(u) /\ thread_resume(u)
  BY DEF Call
<1>2. /\ \A t \in User : managers'[t] = managers[t]
      /\ ToSet(managers'[Manager]) = ToSet(managers[Manager]) \cup {Head(managers[u])}
  BY <1>1, Resumed
<1>3. yoked' = yoked \cup {u} /\ suspended' = FALSE /\ yoked \subseteq User
  BY <1>1 DEF thread_resume, CustodyInv
<1>4. ToSet(managers[u]) \subseteq ToSet(managers'[Manager])
  <2>1. CASE u \in yoked
    BY <1>2, <2>1 DEF YokeInv
  <2>2. CASE u \notin yoked
    <3>1. Head(managers[u]) \in ToSet(managers[u])
      BY <1>1, HeadOf DEF Alive, CustodyInv
    <3>2. QED BY <1>2, <2>2, <3>1 DEF YokeInv
  <2>3. QED BY <2>1, <2>2
<1>5. \A t \in yoked' : /\ managers'[t] # <<>>
                        /\ ToSet(managers'[t]) \subseteq ToSet(managers'[Manager])
  BY <1>1, <1>2, <1>3, <1>4 DEF YokeInv, Alive
<1>6. \A t \in User \ yoked' : \A a, b \in ToSet(managers'[t]) : a = b
  BY <1>2, <1>3 DEF YokeInv
<1>7. \A t \in User : call'[t] # NoCall => t \in yoked'
  BY <1>3 DEF YokeInv, UserInv, Call
<1>8. QED BY <1>3, <1>5, <1>6, <1>7 DEF YokeInv

LEMMA AdoptYokes ==
  ASSUME Early = FALSE, CustodyInv, YokeInv, NEW u \in User, NEW c \in Custodian, Adopt(u, c)
  PROVE  YokeInv'
<1>1. u \in yoked /\ UNCHANGED <<call, suspended, yoked>>
  BY DEF Adopt, channel
<1>2. u # Manager /\ Manager \notin User /\ yoked \subseteq User
  BY AsyncAssumption DEF CustodyInv
<1>3. /\ ToSet(managers'[u]) = ToSet(managers[u]) \cup {c}
      /\ ToSet(managers'[Manager]) = ToSet(managers[Manager]) \cup {c}
      /\ \A t \in User : t # u => managers'[t] = managers[t]
  BY <1>1, <1>2, Adopted
<1>4. /\ managers'[u] # <<>> /\ managers[Manager] # <<>>
  <2>1. /\ IsList(managers[u]) /\ IsList(managers[Manager]) /\ IsList(managers'[u])
    BY Adopted DEF CustodyInv
  <2>2. ToSet(managers[u]) # {}
    BY <1>1, <2>1, HeadOf DEF YokeInv
  <2>3. ToSet(managers[Manager]) # {}
    BY <1>1, <2>2 DEF YokeInv
  <2>4. QED BY <1>3, <2>1, <2>3, HeadOf
<1>5. \A t \in yoked' : /\ managers'[t] # <<>>
                        /\ ToSet(managers'[t]) \subseteq ToSet(managers'[Manager])
  BY <1>1, <1>2, <1>3, <1>4 DEF YokeInv
<1>6. \A t \in User \ yoked' : \A a, b \in ToSet(managers'[t]) : a = b
  BY <1>1, <1>3 DEF YokeInv
<1>7. QED BY <1>1, <1>4, <1>5, <1>6 DEF YokeInv

LEMMA ShutdownYokes ==
  ASSUME CustodyInv, UserInv, YokeInv, NEW c \in Custodian, Shutdown(c)
  PROVE  YokeInv'
<1>1. \A t \in User \cup {Manager} : ToSet(managers'[t]) = ToSet(managers[t]) \ {c}
  BY ShutDown
<1>2. /\ yoked' = {u \in yoked : managers'[u] # <<>>}
      /\ call' = [u \in User |-> IF managers'[u] = <<>> THEN NoCall ELSE call[u]]
      /\ suspended' = (suspended \/ (managers[Manager] # <<>> /\ managers'[Manager] = <<>>))
      /\ yoked \subseteq User
  BY DEF Shutdown, CustodyInv
<1>3. \A t \in User \cup {Manager} : IsList(managers[t]) /\ IsList(managers'[t])
  BY ShutDown DEF CustodyInv
<1>4. \A t \in yoked' : /\ managers'[t] # <<>>
                        /\ ToSet(managers'[t]) \subseteq ToSet(managers'[Manager])
  BY <1>1, <1>2 DEF YokeInv
<1>5. ASSUME NEW t \in User \ yoked'
      PROVE  \A a, b \in ToSet(managers'[t]) : a = b
  <2>1. CASE t \in yoked
    <3>1. managers'[t] = <<>>
      BY <1>2, <1>5, <2>1
    <3>2. QED BY <1>3, <3>1, HeadOf
  <2>2. CASE t \notin yoked
    BY <1>1, <2>2 DEF YokeInv
  <2>3. QED BY <2>1, <2>2
<1>6. \A t \in User : call'[t] # NoCall => t \in yoked'
  BY <1>2 DEF YokeInv
<1>7. ASSUME managers'[Manager] # <<>>
      PROVE  ~suspended'
  <2>1. ToSet(managers'[Manager]) # {}
    BY <1>3, <1>7, HeadOf
  <2>2. managers[Manager] # <<>>
    BY <1>1, <1>3, <2>1, HeadOf
  <2>3. QED BY <1>2, <1>7, <2>2 DEF YokeInv
<1>8. QED BY <1>4, <1>5, <1>6, <1>7 DEF YokeInv

LEMMA YokeStep ==
  ASSUME Early = FALSE, CustodyInv, UserInv, YokeInv, [Next]_vars
  PROVE  YokeInv'
<1>1. ASSUME NEW u \in User, NEW op, NEW v, Call(u, op, v)
      PROVE  YokeInv'
  BY <1>1, CallYokes
<1>2. CASE \E u \in User, c \in Custodian : Adopt(u, c)
  BY <1>2, AdoptYokes
<1>3. CASE \E c \in Custodian : Shutdown(c)
  BY <1>3, ShutdownYokes
<1>4. CASE UNCHANGED <<call, threads>>
  BY <1>4 DEF threads, YokeInv
<1>5. CASE Loop \/ \E u \in User : MeetPut(u) \/ MeetGet(u) \/ MeetPoll(u)
  BY <1>4, <1>5 DEF Loop, MeetPut, MeetGet, MeetPoll, Meets
<1>6. CASE \E u \in User : Return(u) \/ Break(u)
  <2>1. UNCHANGED threads
    BY <1>6 DEF Return, Break, Ends
  <2>2. \A t \in User : call'[t] = call[t] \/ call'[t] = NoCall
    BY <1>6 DEF Return, Break, Ends, UserInv
  <2>3. QED BY <2>1, <2>2 DEF threads, YokeInv
<1>7. CASE UNCHANGED vars
  BY <1>4, <1>7 DEF vars, threads
<1>8. QED BY <1>1, <1>2, <1>3, <1>5, <1>6, <1>7 DEF Next

-----------------------------------------------------------------------------
\* The inductive invariant, but for the yoking.
IInv == ChannelInv /\ UserInv /\ CustodyInv

LEMMA InitInv ==
  Init => IInv /\ YokeInv
<1>1. SUFFICES ASSUME Init PROVE IInv /\ YokeInv
  OBVIOUS
<1>2. ChannelInv
  BY <1>1, AsyncAssumption DEF Init, ChannelInv, Nothing
<1>3. UserInv
  BY <1>1 DEF Init, UserInv, NoCall, Puts
<1>4. ASSUME NEW c \in Custodian
      PROVE  IsList(<<c>>) /\ ToSet(<<c>>) = {c}
  <2>1. IsList(<<>>)
    BY DEF IsList
  <2>2. Promoted(<<>>, c) = <<c>> /\ ToSet(<<>>) = {}
    BY <2>1, HeadOf DEF Promoted
  <2>3. QED BY <2>1, <2>2, PromotedList
<1>5. \A t \in User \cup {Manager} : \E c \in Custodian : managers[t] = <<c>>
  BY <1>1, AsyncAssumption DEF Init
<1>6. CustodyInv
  BY <1>1, <1>4, <1>5 DEF Init, CustodyInv
<1>7. YokeInv
  <2>1. ASSUME NEW t \in User
        PROVE  \A a, b \in ToSet(managers[t]) : a = b
    <3>1. PICK c \in Custodian : managers[t] = <<c>>
      BY <1>5
    <3>2. ToSet(managers[t]) = {c}
      BY <1>4, <3>1
    <3>3. QED BY <3>2
  <2>2. yoked = {} /\ suspended = FALSE /\ \A u \in User : call[u] = NoCall
    BY <1>1 DEF Init
  <2>3. QED BY <2>1, <2>2 DEF YokeInv
<1>8. QED BY <1>2, <1>3, <1>6, <1>7 DEF IInv

LEMMA IInvAlways ==
  Spec => []IInv
<1>1. IInv /\ [Next]_vars => IInv'
  BY ChannelStep, UserStep, CustodyStep DEF IInv
<1>2. QED BY <1>1, InitInv, PTL DEF Spec

\* The limit holds, a value is taken only where there is one, and no thread is
\* managed by a custodian that is shut down.
THEOREM TypeCorrect ==
  Spec => []TypeOK
<1>1. IInv => TypeOK
  <2>1. SUFFICES ASSUME IInv PROVE TypeOK
    OBVIOUS
  <2>2. \A t \in DOMAIN managers : ToSet(managers[t]) \subseteq Custodian \ shut_down
    BY <2>1, HeadOf DEF IInv, CustodyInv
  <2>3. QED BY <2>1, <2>2 DEF IInv, ChannelInv, UserInv, CustodyInv, TypeOK
<1>2. QED BY <1>1, IInvAlways, PTL

\* Whichever custodians are shut down, the manager is not suspended while
\* somebody waits for it, if threads get no second custodian before they first
\* use the channel.
THEOREM ManagerRuns ==
  ASSUME Early = FALSE
  PROVE  Spec => []ManagerRunsForUsers
<1>1. IInv /\ YokeInv /\ [Next]_vars => (IInv /\ YokeInv)'
  BY ChannelStep, UserStep, CustodyStep, YokeStep DEF IInv
<1>2. IInv /\ YokeInv => ManagerRunsForUsers
  <2>1. SUFFICES ASSUME IInv, YokeInv,
                        NEW u \in User, Waits(u, Gets \cup Puts)
                 PROVE  ~suspended
    BY DEF ManagerRunsForUsers
  <2>2. u \in yoked
    BY <2>1, Asks DEF YokeInv
  <2>3. IsList(managers[u]) /\ IsList(managers[Manager])
    BY <2>1 DEF IInv, CustodyInv
  <2>4. ToSet(managers[u]) # {}
    BY <2>1, <2>2, <2>3, HeadOf DEF YokeInv
  <2>5. managers[Manager] # <<>>
    BY <2>1, <2>2, <2>3, <2>4, HeadOf DEF YokeInv
  <2>6. QED BY <2>1, <2>5 DEF YokeInv
<1>3. QED BY <1>1, <1>2, InitInv, PTL DEF Spec

-----------------------------------------------------------------------------
\* The queue that the channel implements: Handled is what is in it.

LEMMA NothingToHandle ==
  ASSUME met = Nothing
  PROVE  Handled = queue
BY DEF Handled, Nothing

LEMMA AbstractInit ==
  Init => Abstract!Init
<1>1. SUFFICES ASSUME Init PROVE Abstract!Init
  OBVIOUS
<1>2. Handled = <<>>
  BY <1>1, NothingToHandle DEF Init
<1>3. limit \in Nat
  BY <1>1, AsyncAssumption DEF Init
<1>4. QED BY <1>1, <1>2, <1>3 DEF Init, Abstract!Init, NoCall, Abstract!NoCall

\* What is in the queue does not change while the manager does nothing.
LEMMA HandledSame ==
  ASSUME UNCHANGED <<queue, met>>
  PROVE  Handled' = Handled
BY DEF Handled

LEMMA LoopStutters ==
  ASSUME ChannelInv, Loop
  PROVE  UNCHANGED Abstract!vars
<1>1. queue' = Handled /\ met' = [with |-> "none", arg |-> Null]
  BY DEF Loop, Nothing
<1>2. Handled' = queue'
  BY <1>1 DEF Handled
<1>3. QED BY <1>1, <1>2 DEF Loop, Abstract!vars

LEMMA CallIsCall ==
  ASSUME NEW u \in User, NEW op \in Operation, NEW v,
         \/ op \in Gets /\ v = Null
         \/ op \in Puts /\ v \in Value,
         Call(u, op, v)
  PROVE  Abstract!Call(u)
<1>1. Handled' = Handled
  BY HandledSame DEF Call
<1>2. call[u] = Abstract!NoCall /\ call' = [call EXCEPT ![u] = [op |-> op, arg |-> v]]
  BY DEF Call, NoCall, Abstract!NoCall
<1>3. UNCHANGED <<limit, answer>>
  BY DEF Call
<1>4. QED BY <1>1, <1>2, <1>3 DEF Abstract!Call, Gets, Puts, Abstract!Gets, Abstract!Puts

LEMMA MeetPutIsPut ==
  ASSUME ChannelInv, NEW u \in User, MeetPut(u)
  PROVE  Abstract!Put(u)
<1>1. met = Nothing /\ MayEnqueue /\ Waits(u, Puts) /\ Meets(u, "enqueue", call[u].arg, "done")
  BY DEF MeetPut, Meets
<1>2. Handled = queue
  BY <1>1, NothingToHandle
<1>3. Handled' = Append(queue, call[u].arg)
  BY <1>1 DEF Meets, Handled
<1>4. ~Abstract!Full
  <2>1. limit \in Nat /\ queue \in Seq(Value)
    BY AsyncAssumption DEF ChannelInv
  <2>2. ~(limit > 0 /\ Len(queue) >= limit)
    BY <1>1, <2>1 DEF MayEnqueue
  <2>3. QED BY <1>2, <2>2 DEF Abstract!Full
<1>5. Abstract!Pending(u, Abstract!Puts)
  BY <1>1 DEF Waits, Puts, Abstract!Puts, Abstract!Pending
<1>6. QED BY <1>1, <1>2, <1>3, <1>4, <1>5 DEF Meets, Abstract!Put

LEMMA MeetGetIsGet ==
  ASSUME NEW u \in User, MeetGet(u)
  PROVE  Abstract!Get(u)
<1>1. met = Nothing /\ MayDequeue /\ Waits(u, Gets) /\ Meets(u, "dequeue", Null, Head(queue))
  BY DEF MeetGet, Meets
<1>2. Handled = queue
  BY <1>1, NothingToHandle
<1>3. Handled' = Tail(queue)
  BY <1>1 DEF Meets, Handled
<1>4. Abstract!Pending(u, Abstract!Gets)
  BY <1>1 DEF Waits, Gets, Abstract!Gets, Abstract!Pending
<1>5. QED BY <1>1, <1>2, <1>3, <1>4 DEF MayDequeue, Meets, Abstract!Get

LEMMA MeetPollIsFail ==
  ASSUME ChannelInv, NEW u \in User, MeetPoll(u)
  PROVE  Abstract!Fail(u)
<1>1. met = Nothing /\ Meets(u, "tell", Null, "fail")
  BY DEF MeetPoll, Meets
<1>2. Handled = queue
  BY <1>1, NothingToHandle
<1>3. Handled' = Handled
  BY <1>1, <1>2 DEF Meets, Handled
<1>4. \/ Abstract!Pending(u, Abstract!Polls \cap Abstract!Gets) /\ Handled = <<>>
      \/ Abstract!Pending(u, Abstract!Polls \cap Abstract!Puts) /\ Abstract!Full
  <2>1. CASE Waits(u, {"try-get"}) /\ TellsEmpty
    BY <1>2, <2>1
       DEF Waits, TellsEmpty, Abstract!Pending, Abstract!Polls, Abstract!Gets
  <2>2. CASE Waits(u, {"try-put"}) /\ TellsFull
    <3>1. limit \in Nat /\ queue \in Seq(Value)
      BY AsyncAssumption DEF ChannelInv
    <3>2. limit > 0 /\ Len(queue) >= limit
      BY <2>2, <3>1 DEF TellsFull, MayEnqueue
    <3>3. Abstract!Full
      BY <1>2, <3>2 DEF Abstract!Full
    <3>4. Abstract!Pending(u, Abstract!Polls \cap Abstract!Puts)
      BY <2>2 DEF Waits, Abstract!Pending, Abstract!Polls, Abstract!Puts
    <3>5. QED BY <3>3, <3>4
  <2>3. QED BY <2>1, <2>2 DEF MeetPoll
<1>5. QED BY <1>1, <1>3, <1>4 DEF Meets, Abstract!Fail

LEMMA EndIsEnd ==
  ASSUME UserInv,
         \/ \E u \in User : Return(u) \/ Break(u)
         \/ \E c \in Custodian : Shutdown(c)
  PROVE  Abstract!End
<1>1. UNCHANGED <<limit, queue, met>>
  BY DEF Return, Break, Ends, Shutdown
<1>2. Handled' = Handled
  BY <1>1, HandledSame
<1>3. \A u \in User : \/ call'[u] = call[u] /\ answer'[u] = answer[u]
                      \/ call'[u] = NoCall /\ answer'[u] = Null
  BY Ended DEF Return, Break
<1>4. QED BY <1>1, <1>2, <1>3 DEF Abstract!End, NoCall, Abstract!NoCall

LEMMA AbstractStep ==
  ASSUME IInv, [Next]_vars
  PROVE  [Abstract!Next]_(Abstract!vars)
<1> USE DEF IInv
<1>1. CASE Loop
  BY <1>1, LoopStutters
<1>2. ASSUME NEW u \in User, NEW op \in Operation \cap Gets, Call(u, op, Null)
      PROVE  Abstract!Next
  BY <1>2, CallIsCall DEF Abstract!Next
<1>3. ASSUME NEW u \in User, NEW op \in Operation \cap Puts, NEW v \in Value, Call(u, op, v)
      PROVE  Abstract!Next
  BY <1>3, CallIsCall DEF Abstract!Next
<1>4. CASE \E u \in User : MeetPut(u) \/ MeetGet(u) \/ MeetPoll(u)
  BY <1>4, MeetPutIsPut, MeetGetIsGet, MeetPollIsFail DEF Abstract!Next
<1>5. CASE \/ \E u \in User : Return(u) \/ Break(u)
           \/ \E c \in Custodian : Shutdown(c)
  BY <1>5, EndIsEnd DEF Abstract!Next
<1>6. CASE UNCHANGED channel
  BY <1>6, HandledSame DEF channel, Abstract!vars
<1>7. CASE \E u \in User, c \in Custodian : Adopt(u, c)
  BY <1>6, <1>7 DEF Adopt
<1>8. CASE UNCHANGED vars
  BY <1>6, <1>8 DEF vars, channel
<1>9. QED BY <1>1, <1>2, <1>3, <1>4, <1>5, <1>7, <1>8 DEF Next

\* The manager, its four channels and whatever interrupts them are a queue whose
\* operations happen at one moment each: a meeting is that moment.
THEOREM QueueRefined ==
  Spec => ImplementsQueue
<1>1. QED BY AbstractInit, AbstractStep, IInvAlways, PTL
          DEF Spec, ImplementsQueue, Abstract!Spec
=============================================================================
