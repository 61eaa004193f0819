--------------------------- MODULE SyncLineProofs --------------------------
(***************************************************************************)
(* The lines of Sync.  Every syncer has a position, and the first, last,   *)
(* prev and next of the lines are those of the order of the positions      *)
(* (Sorted): so a walk meets all that stand in a line, in order.  To get   *)
(* in line gives the greatest position.  To get out of a line leaves the   *)
(* prev and next of the syncer as they were, so a second removal may do    *)
(* harm; it does none where the neighbours still agree (Gone), or where    *)
(* there never were any (Alone).                                           *)
(***************************************************************************)
EXTENDS Sync, FiniteSetTheorems, WellFoundedInduction, TLAPS

-----------------------------------------------------------------------------
\* Every set of numbers has a least one.
LEMMA Least ==
  ASSUME NEW S \in SUBSET Nat, S # {}
  PROVE  \E n \in S : \A m \in S : n <= m
<1>1. IsWellFoundedOn(OpToRel(<, Nat), Nat)
  BY NatLessThanWellFounded
<1>2. OpToRel(<, Nat) = {ss \in Nat \X Nat : ss[1] < ss[2]}
  BY Zenon DEF OpToRel
<1>3. PICK R : R = {ss \in Nat \X Nat : ss[1] < ss[2]}
  OBVIOUS
<1>4. IsWellFoundedOn(R, Nat)
  BY <1>1, <1>2, <1>3, Zenon
<1>5. PICK x \in S : \A y \in S : ~ (<<y, x>> \in R)
  BY <1>4, WFMin
<1>6. \A y \in S : ~ (y < x)
  BY <1>3, <1>5
<1>7. QED BY <1>6

\* Induction up to n.
LEMMA UpTo ==
  ASSUME NEW n \in Nat, NEW P, 0 \in P, \A k \in 0..(n - 1) : k \in P => k + 1 \in P
  PROVE  \A k \in 0..n : k \in P
<1>1. PICK S : S = {k \in 0..n : k \notin P}
  OBVIOUS
<1>2. ASSUME S # {} PROVE FALSE
  <2>1. S \in SUBSET Nat
    BY <1>1
  <2>2. PICK k \in S : \A m \in S : k <= m
    BY <1>2, <2>1, Least
  <2>3. k \in 0..n /\ k # 0 /\ k \notin P
    BY <1>1, <2>2
  <2>4. k - 1 \in 0..(n - 1) /\ k - 1 \notin S /\ k - 1 \in 0..n
    BY <2>2, <2>3
  <2>5. k - 1 \in P
    BY <1>1, <2>4
  <2>6. (k - 1) + 1 \in P
    BY <2>4, <2>5
  <2>7. QED BY <2>3, <2>6
<1>3. QED BY <1>1, <1>2

\* Induction on a measure.
LEMMA OnRank ==
  ASSUME NEW S, NEW rank \in [S -> Nat], NEW P,
         \A x \in S : (\A y \in S : rank[y] < rank[x] => y \in P) => x \in P
  PROVE  \A x \in S : x \in P
<1>1. PICK N : N = {rank[x] : x \in {y \in S : y \notin P}}
  OBVIOUS
<1>2. ASSUME N # {} PROVE FALSE
  <2>1. N \in SUBSET Nat
    BY <1>1
  <2>2. PICK k \in N : \A m \in N : k <= m
    BY <1>2, <2>1, Least
  <2>3. PICK x \in S : x \notin P /\ rank[x] = k
    BY <1>1, <2>2
  <2>4. \A y \in S : rank[y] < k => y \in P
    <3>1. SUFFICES ASSUME NEW y \in S, rank[y] < k, y \notin P PROVE FALSE
      OBVIOUS
    <3>2. rank[y] \in N /\ rank[y] \in Nat /\ k \in Nat
      BY <1>1, <2>1, <3>1
    <3>3. k <= rank[y]
      BY <2>2, <3>2
    <3>4. QED BY <3>1, <3>2, <3>3
  <2>5. QED BY <2>3, <2>4
<1>3. QED BY <1>1, <1>2

-----------------------------------------------------------------------------
\* Paths.

\* There are finitely many syncers, and Null is none.
LEMMA SyncerFinite == IsFiniteSet(Syncer) /\ Null \notin Syncer /\ Null \notin Call /\ Null \notin Thread
<1>1. IsFiniteSet(Thread) /\ MaxCalls \in Nat /\ MaxEvts \in Nat
  BY ConstantsAssumption
<1>2. IsFiniteSet(1..MaxCalls) /\ IsFiniteSet(1..MaxEvts)
  BY <1>1, FS_Interval
<1>3. IsFiniteSet((Thread \X (1..MaxCalls)) \X (1..MaxEvts))
  BY <1>1, <1>2, FS_Product
<1>4. PICK f : f = [x \in (Thread \X (1..MaxCalls)) \X (1..MaxEvts) |-> <<x[1][1], x[1][2], x[2]>>]
  OBVIOUS
<1>5. f \in Surjection((Thread \X (1..MaxCalls)) \X (1..MaxEvts), Syncer)
  <2>1. f \in [(Thread \X (1..MaxCalls)) \X (1..MaxEvts) -> Syncer]
    BY <1>4 DEF Syncer
  <2>2. ASSUME NEW w \in Syncer
        PROVE  \E x \in (Thread \X (1..MaxCalls)) \X (1..MaxEvts) : f[x] = w
    <3>1. <<<<w[1], w[2]>>, w[3]>> \in (Thread \X (1..MaxCalls)) \X (1..MaxEvts)
      BY DEF Syncer
    <3>2. w = <<w[1], w[2], w[3]>>
      BY DEF Syncer
    <3>3. QED BY <1>4, <3>1, <3>2
  <2>3. QED BY <2>1, <2>2 DEF Surjection
<1>6. IsFiniteSet(Syncer)
  BY <1>3, <1>5, FS_Surjection
<1>7. QED BY <1>6, ConstantsAssumption

\* f goes from c along link, in n steps, and ends in Null.
IsPath(link, c, n, f) ==
  /\ n \in Nat /\ f[0] = c /\ f[n] = Null
  /\ \A k \in 0..(n - 1) : f[k] \in Syncer /\ f[k + 1] = link[f[k]]

Distinct(n, f) == \A j, k \in 0..(n - 1) : f[j] = f[k] => j = k

\* A path without a cycle is not longer than there are custodians.
LEMMA PathLength ==
  ASSUME NEW link, NEW c, NEW n, NEW f, IsPath(link, c, n, f), Distinct(n, f)
  PROVE  n <= Cardinality(Syncer) /\ Cardinality(Syncer) \in Nat
<1>1. IsFiniteSet(Syncer) /\ n \in Nat
  BY SyncerFinite DEF IsPath
<1>2. Cardinality(Syncer) \in Nat
  BY <1>1, FS_CardinalityType
<1>3. PICK g : g = [k \in 0..(n - 1) |-> f[k]]
  OBVIOUS
<1>4. g \in Injection(0..(n - 1), Syncer)
  <2>1. g \in [0..(n - 1) -> Syncer]
    BY <1>3 DEF IsPath
  <2>2. \A j, k \in 0..(n - 1) : g[j] = g[k] => j = k
    BY <1>3 DEF Distinct
  <2>3. QED BY <2>1, <2>2 DEF Injection, IsInjective
<1>5. Cardinality(0..(n - 1)) <= Cardinality(Syncer)
  BY <1>1, <1>4, FS_Injection
<1>6. Cardinality(0..(n - 1)) = IF 0 > n - 1 THEN 0 ELSE (n - 1) - 0 + 1
  BY <1>1, FS_Interval
<1>7. QED BY <1>1, <1>2, <1>5, <1>6

\* The function inside Walk is this one.
Walks(link, c, w) ==
  w = [k \in 0..Cardinality(Syncer) |->
         IF k = 0 THEN c
         ELSE LET x == w[k - 1] IN IF x = Null THEN Null ELSE link[x]]

\* A path without a cycle is what Walk gives.
LEMMA PathIs ==
  ASSUME NEW L, NEW e, NEW link, NEW c, link = L.next, c = L.first[e], NEW n, NEW f, IsPath(link, c, n, f), Distinct(n, f)
  PROVE  Walk(L, e) = [k \in 1..n |-> f[k - 1]]
<1>1. PICK N \in Nat : N = Cardinality(Syncer) /\ n \in 0..N
  BY PathLength DEF IsPath
<1>2. Null \notin Syncer
  BY SyncerFinite
<1>3. PICK w : w = [k \in 0..N |-> IF k < n THEN f[k] ELSE Null]
  OBVIOUS
<1>4. ASSUME NEW k \in 0..N
      PROVE  w[k] = IF k = 0 THEN c ELSE IF w[k - 1] = Null THEN Null ELSE link[w[k - 1]]
  <2>1. CASE k = 0
    <3>1. CASE n = 0
      BY <1>1, <1>3, <2>1, <3>1 DEF IsPath
    <3>2. CASE n # 0
      BY <1>1, <1>3, <2>1, <3>2 DEF IsPath
    <3>3. QED BY <3>1, <3>2
  <2>2. CASE k # 0
    <3>1. PICK j \in 0..N : j = k - 1 /\ k = j + 1
      BY <1>1, <2>2
    <3>2. CASE j < n
      <4>1. j \in 0..(n - 1) /\ w[j] = f[j]
        BY <1>1, <1>3, <3>1, <3>2
      <4>2. f[j] \in Syncer /\ f[k] = link[f[j]]
        BY <3>1, <4>1 DEF IsPath
      <4>3. w[k] = f[k]
        <5>1. CASE k < n
          BY <1>3, <5>1
        <5>2. CASE ~(k < n)
          <6>1. k = n
            BY <1>1, <3>1, <3>2, <5>2
          <6>2. QED BY <1>3, <5>2, <6>1 DEF IsPath
        <5>3. QED BY <5>1, <5>2
      <4>4. QED BY <1>2, <2>2, <3>1, <4>1, <4>2, <4>3
    <3>3. CASE ~(j < n)
      <4>1. w[j] = Null /\ w[k] = Null
        BY <1>1, <1>3, <3>1, <3>3
      <4>2. QED BY <2>2, <3>1, <4>1
    <3>4. QED BY <3>2, <3>3
  <2>3. QED BY <2>1, <2>2
<1>5. Walks(link, c, w)
  <2>1. w = [k \in 0..N |-> w[k]]
    BY <1>3
  <2>2. QED BY <1>1, <1>4, <2>1 DEF Walks
<1>6. ASSUME NEW g, Walks(link, c, g)
      PROVE  g = w
  <2>1. \A k \in 0..N : g[k] = IF k = 0 THEN c
                               ELSE IF g[k - 1] = Null THEN Null ELSE link[g[k - 1]]
    BY <1>1, <1>6 DEF Walks
  <2>2. PICK P : P = {k \in 0..N : g[k] = w[k]}
    OBVIOUS
  <2>3. 0 \in P
    BY <1>1, <1>4, <2>1, <2>2
  <2>4. ASSUME NEW k \in 0..(N - 1), k \in P
        PROVE  k + 1 \in P
    <3>1. k + 1 \in 0..N /\ k + 1 # 0 /\ (k + 1) - 1 = k
      BY <1>1
    <3>2. g[k] = w[k]
      BY <2>2, <2>4
    <3>3. g[k + 1] = w[k + 1]
      BY <1>4, <2>1, <3>1, <3>2
    <3>4. QED BY <2>2, <3>1, <3>3
  <2>5. \A k \in 0..N : k \in P
    BY <2>3, <2>4, UpTo
  <2>6. \A k \in 0..N : g[k] = w[k]
    BY <2>2, <2>5
  <2>7. g = [k \in 0..N |-> g[k]] /\ w = [k \in 0..N |-> w[k]]
    BY <1>1, <1>3, <1>6 DEF Walks
  <2>8. QED BY <2>6, <2>7
<1>7. PICK v : v = CHOOSE g : Walks(link, c, g)
  OBVIOUS
<1>8. v = w
  BY <1>5, <1>6, <1>7
<1>9. {k \in 1..N : v[k - 1] # Null} = 1..n
  <2>1. ASSUME NEW k \in 1..N PROVE v[k - 1] # Null <=> k <= n
    <3>1. PICK j \in 0..N : j = k - 1
      BY <1>1
    <3>2. v[j] = IF j < n THEN f[j] ELSE Null
      BY <1>3, <1>8, <3>1
    <3>3. j < n => f[j] # Null
      <4>1. j < n => j \in 0..(n - 1)
        BY <1>1, <3>1
      <4>2. QED BY <1>2, <4>1 DEF IsPath
    <3>4. j < n <=> k <= n
      BY <1>1, <3>1
    <3>5. QED BY <3>1, <3>2, <3>3, <3>4
  <2>2. QED BY <1>1, <2>1
<1>10. Cardinality({k \in 1..N : v[k - 1] # Null}) = n
  <2>1. Cardinality(1..n) = IF 1 > n THEN 0 ELSE n - 1 + 1
    BY <1>1, FS_Interval
  <2>2. Cardinality(1..n) = n
    BY <1>1, <2>1
  <2>3. QED BY <1>9, <2>2
<1>11. Walk(L, e) = [k \in 1..n |-> v[k - 1]]
  <2>1. Walk(L, e) = [k \in 1..Cardinality({k \in 1..N : v[k - 1] # Null}) |-> v[k - 1]]
    BY <1>1, <1>7 DEF Walk, Walks
  <2>2. QED BY <1>10, <2>1
<1>12. \A k \in 1..n : v[k - 1] = f[k - 1]
  <2>1. SUFFICES ASSUME NEW k \in 1..n PROVE v[k - 1] = f[k - 1]
    OBVIOUS
  <2>2. k - 1 \in 0..N /\ k - 1 < n
    BY <1>1
  <2>3. QED BY <1>3, <1>8, <2>2
<1>13. QED BY <1>11, <1>12

-----------------------------------------------------------------------------
\* Links that lead from higher ranks to lower ones.

Falling(S, link, rank) ==
  /\ S \in SUBSET Syncer /\ rank \in [S -> Nat]
  /\ \A x \in S : link[x] = Null \/ (link[x] \in S /\ rank[link[x]] < rank[x])

\* A path along them.
Falls(S, link, rank, x, n, f) ==
  /\ IsPath(link, x, n, f) /\ n \in Nat \ {0}
  /\ \A k \in 0..(n - 1) : f[k] \in S
  /\ \A j, k \in 0..(n - 1) : j < k => rank[f[k]] < rank[f[j]]

\* It meets nothing twice.
LEMMA FallsDistinct ==
  ASSUME NEW S, NEW link, NEW rank, Falling(S, link, rank), NEW x, NEW n, NEW f,
         Falls(S, link, rank, x, n, f)
  PROVE  Distinct(n, f)
<1>1. SUFFICES ASSUME NEW j \in 0..(n - 1), NEW k \in 0..(n - 1), f[j] = f[k], j # k PROVE FALSE
  BY DEF Distinct
<1>2. n \in Nat
  BY DEF Falls
<1>3. rank[f[j]] \in Nat /\ rank[f[k]] \in Nat
  BY DEF Falling, Falls
<1>4. j < k \/ k < j
  BY <1>1, <1>2
<1>5. rank[f[k]] < rank[f[j]] \/ rank[f[j]] < rank[f[k]]
  BY <1>4 DEF Falls
<1>6. rank[f[k]] = rank[f[j]]
  BY <1>1
<1>7. QED BY <1>3, <1>5, <1>6

\* From an item that leads nowhere.
LEMMA FallsOnce ==
  ASSUME NEW S, NEW link, NEW rank, Falling(S, link, rank), NEW x \in S, link[x] = Null
  PROVE  \E f : Falls(S, link, rank, x, 1, f)
<1>1. PICK f : f = [k \in 0..1 |-> IF k = 0 THEN x ELSE Null]
  OBVIOUS
<1>2. f[0] = x /\ f[1] = Null
  BY <1>1
<1>3. 1 \in Nat \ {0} /\ 0..(1 - 1) = {0}
  OBVIOUS
<1>4. x \in Syncer
  BY DEF Falling
<1>5. \A k \in 0..(1 - 1) : f[k] \in Syncer /\ f[k + 1] = link[f[k]] /\ f[k] \in S
  BY <1>2, <1>3, <1>4
<1>6. \A j, k \in 0..(1 - 1) : ~(j < k)
  BY <1>3
<1>7. QED BY <1>2, <1>3, <1>5, <1>6 DEF Falls, IsPath

\* From an item that leads to one with a path.
LEMMA FallsMore ==
  ASSUME NEW S, NEW link, NEW rank, Falling(S, link, rank), NEW x \in S, link[x] # Null,
         NEW n, NEW f, Falls(S, link, rank, link[x], n, f)
  PROVE  \E g : Falls(S, link, rank, x, n + 1, g) /\ g[0] = x /\ \A k \in 1..(n + 1) : g[k] = f[k - 1]
<1>1. PICK g : g = [k \in 0..(n + 1) |-> IF k = 0 THEN x ELSE f[k - 1]]
  OBVIOUS
<1>2. n \in Nat \ {0} /\ n + 1 \in Nat \ {0} /\ (n + 1) - 1 = n
  BY DEF Falls
<1>3. g[0] = x
  BY <1>1, <1>2
<1>4. \A k \in 1..(n + 1) : g[k] = f[k - 1]
  BY <1>1, <1>2
<1>5. g[n + 1] = Null
  <2>1. n + 1 \in 1..(n + 1) /\ (n + 1) - 1 = n
    BY <1>2
  <2>2. f[n] = Null
    BY DEF Falls, IsPath
  <2>3. QED BY <1>4, <2>1, <2>2
<1>6. ASSUME NEW k \in 0..n
      PROVE  g[k] \in S /\ g[k] \in Syncer /\ g[k + 1] = link[g[k]]
  <2>1. CASE k = 0
    <3>1. 0 + 1 \in 1..(n + 1) /\ (0 + 1) - 1 = 0
      BY <1>2
    <3>2. g[0 + 1] = f[0]
      BY <1>4, <3>1
    <3>3. f[0] = link[x] /\ x \in Syncer
      BY DEF Falls, IsPath, Falling
    <3>4. QED BY <1>3, <2>1, <3>2, <3>3
  <2>2. CASE k # 0
    <3>1. PICK j \in 0..(n - 1) : k = j + 1
      <4>1. k - 1 \in 0..(n - 1) /\ k = (k - 1) + 1
        BY <1>2, <2>2
      <4>2. QED BY <4>1
    <3>2. /\ k \in 1..(n + 1) /\ k + 1 \in 1..(n + 1) /\ k - 1 = j /\ (k + 1) - 1 = j + 1
      BY <1>2, <3>1
    <3>3. g[k] = f[j] /\ g[k + 1] = f[j + 1]
      BY <1>4, <3>2
    <3>4. f[j] \in S /\ f[j] \in Syncer /\ f[j + 1] = link[f[j]]
      BY DEF Falls, IsPath
    <3>5. QED BY <3>3, <3>4
  <2>3. QED BY <2>1, <2>2
<1>7. ASSUME NEW j \in 0..n, NEW k \in 0..n, j < k
      PROVE  rank[g[k]] < rank[g[j]]
  <2>1. PICK i \in 0..(n - 1) : k = i + 1
    <3>1. k - 1 \in 0..(n - 1) /\ k = (k - 1) + 1
      BY <1>2, <1>7
    <3>2. QED BY <3>1
  <2>2. k \in 1..(n + 1) /\ k - 1 = i
    BY <1>2, <2>1
  <2>3. g[k] = f[i] /\ f[i] \in S
    BY <1>4, <2>2 DEF Falls
  <2>4. f[0] = link[x] /\ 0 \in 0..(n - 1)
    BY <1>2 DEF Falls, IsPath
  <2>5. f[0] \in S /\ rank[f[0]] < rank[x] /\ rank \in [S -> Nat]
    BY <2>4 DEF Falling
  <2>6. CASE j = 0
    <3>1. i = 0 \/ 0 < i
      BY <1>2
    <3>2. f[i] = f[0] \/ rank[f[i]] < rank[f[0]]
      BY <2>4, <3>1 DEF Falls
    <3>3. PICK a \in Nat, b \in Nat, c \in Nat : a = rank[f[i]] /\ b = rank[f[0]] /\ c = rank[x]
      BY <2>3, <2>5
    <3>4. b < c /\ (a = b \/ a < b)
      BY <2>5, <3>2, <3>3
    <3>5. a < c
      BY <3>4
    <3>6. QED BY <1>3, <2>3, <2>6, <3>3, <3>5
  <2>7. CASE j # 0
    <3>1. PICK h \in 0..(n - 1) : j = h + 1
      <4>1. j - 1 \in 0..(n - 1) /\ j = (j - 1) + 1
        BY <1>2, <1>7, <2>7
      <4>2. QED BY <4>1
    <3>2. j \in 1..(n + 1) /\ j - 1 = h /\ h < i
      BY <1>2, <1>7, <2>1, <3>1
    <3>3. g[j] = f[h]
      BY <1>4, <3>2
    <3>4. rank[f[i]] < rank[f[h]]
      BY <3>2 DEF Falls
    <3>5. QED BY <2>3, <3>3, <3>4
  <2>8. QED BY <2>6, <2>7
<1>8. Falls(S, link, rank, x, n + 1, g)
  BY <1>2, <1>3, <1>5, <1>6, <1>7 DEF Falls, IsPath
<1>9. QED BY <1>3, <1>4, <1>8

\* There is one.
LEMMA FallsExists ==
  ASSUME NEW S, NEW link, NEW rank, Falling(S, link, rank), NEW x \in S
  PROVE  \E n \in Nat \ {0} : \E f : Falls(S, link, rank, x, n, f)
<1>1. PICK P : P = {y \in S : \E n \in Nat \ {0} : \E f : Falls(S, link, rank, y, n, f)}
  OBVIOUS
<1>2. ASSUME NEW y \in S, \A z \in S : rank[z] < rank[y] => z \in P
      PROVE  y \in P
  <2>1. CASE link[y] = Null
    BY <1>1, <2>1, FallsOnce
  <2>2. CASE link[y] # Null
    <3>1. link[y] \in P
      BY <1>2, <2>2 DEF Falling
    <3>2. PICK n \in Nat \ {0} : \E f : Falls(S, link, rank, link[y], n, f)
      BY <1>1, <3>1
    <3>3. n + 1 \in Nat \ {0}
      OBVIOUS
    <3>4. \E g : Falls(S, link, rank, y, n + 1, g)
      <4>1. PICK f : Falls(S, link, rank, link[y], n, f)
        BY <3>2
      <4>2. QED BY <2>2, <4>1, FallsMore
    <3>5. QED BY <1>1, <3>3, <3>4
  <2>3. QED BY <2>1, <2>2
<1>3. rank \in [S -> Nat]
  BY DEF Falling
<1>4. \A y \in S : y \in P
  BY <1>2, <1>3, OnRank
<1>5. QED BY <1>1, <1>4

\* x is the first of S behind position p, Null if there is none; the last one
\* before it.
Above(S, pos, p, x) ==
  IF x = Null THEN \A y \in S : pos[y] <= p
  ELSE x \in S /\ pos[x] > p /\ \A y \in S : pos[y] > p => pos[x] <= pos[y]

Below(S, pos, p, x) ==
  IF x = Null THEN \A y \in S : pos[y] >= p
  ELSE x \in S /\ pos[x] < p /\ \A y \in S : pos[y] < p => pos[y] <= pos[x]

\* Positions that differ.
Apiece(S, pos) ==
  /\ S \in SUBSET Syncer /\ pos \in [Syncer -> Nat]
  /\ \A x, y \in S : pos[x] = pos[y] => x = y

\* Neighbours know each other.
LEMMA Neighbours ==
  ASSUME NEW S, NEW pos, Apiece(S, pos), NEW x \in S, NEW y \in S
  PROVE  Above(S, pos, pos[x], y) <=> Below(S, pos, pos[y], x)
<1>1. x # Null /\ y # Null
  BY SyncerFinite DEF Apiece
<1>2. \A z \in S : pos[z] \in Nat
  BY DEF Apiece
<1>3. ASSUME Above(S, pos, pos[x], y) PROVE Below(S, pos, pos[y], x)
  <2>1. pos[y] > pos[x] /\ \A z \in S : pos[z] > pos[x] => pos[y] <= pos[z]
    BY <1>1, <1>3 DEF Above
  <2>2. \A z \in S : pos[z] < pos[y] => pos[z] <= pos[x]
    BY <1>2, <2>1
  <2>3. QED BY <1>1, <1>2, <2>1, <2>2 DEF Below
<1>4. ASSUME Below(S, pos, pos[y], x) PROVE Above(S, pos, pos[x], y)
  <2>1. pos[x] < pos[y] /\ \A z \in S : pos[z] < pos[y] => pos[z] <= pos[x]
    BY <1>1, <1>4 DEF Below
  <2>2. \A z \in S : pos[z] > pos[x] => pos[y] <= pos[z]
    BY <1>2, <2>1
  <2>3. QED BY <1>1, <1>2, <2>1, <2>2 DEF Above
<1>5. QED BY <1>3, <1>4

\* There is one neighbour.
LEMMA AboveOnce ==
  ASSUME NEW S, NEW pos, Apiece(S, pos), NEW p \in Int, NEW x, NEW y,
         Above(S, pos, p, x), Above(S, pos, p, y)
  PROVE  x = y
<1>1. \A z \in S : pos[z] \in Nat
  BY DEF Apiece
<1>2. CASE x = Null
  BY <1>1, <1>2 DEF Above
<1>3. CASE y = Null
  BY <1>1, <1>3 DEF Above
<1>4. CASE x # Null /\ y # Null
  <2>1. x \in S /\ y \in S /\ pos[x] <= pos[y] /\ pos[y] <= pos[x]
    BY <1>1, <1>4 DEF Above
  <2>2. pos[x] = pos[y]
    BY <1>1, <2>1
  <2>3. QED BY <2>1, <2>2 DEF Apiece
<1>5. QED BY <1>2, <1>3, <1>4

\* The last one before a position is unique, too.
LEMMA BelowOnce ==
  ASSUME NEW S, NEW pos, Apiece(S, pos), NEW p \in Int, NEW x, NEW y,
         Below(S, pos, p, x), Below(S, pos, p, y)
  PROVE  x = y
<1>1. \A z \in S : pos[z] \in Nat
  BY DEF Apiece
<1>2. CASE x = Null
  BY <1>1, <1>2 DEF Below
<1>3. CASE y = Null
  BY <1>1, <1>3 DEF Below
<1>4. CASE x # Null /\ y # Null
  <2>1. x \in S /\ y \in S /\ pos[x] <= pos[y] /\ pos[y] <= pos[x]
    BY <1>1, <1>4 DEF Below
  <2>2. pos[x] = pos[y]
    BY <1>1, <2>1
  <2>3. QED BY <2>1, <2>2 DEF Apiece
<1>5. QED BY <1>2, <1>3, <1>4

\* Without w, its neighbour takes its place.
LEMMA AboveWithout ==
  ASSUME NEW S, NEW pos, Apiece(S, pos), NEW w \in S, NEW p \in Int, NEW x, NEW n,
         Above(S, pos, p, x), Above(S, pos, pos[w], n)
  PROVE  Above(S \ {w}, pos, p, IF x = w THEN n ELSE x)
<1>1. w # Null /\ \A z \in S : pos[z] \in Nat
  BY SyncerFinite DEF Apiece
<1>2. CASE x = w
  <2>1. pos[w] > p /\ \A y \in S : pos[y] > p => pos[w] <= pos[y]
    BY <1>1, <1>2 DEF Above
  <2>2. \A y \in S \ {w} : pos[y] # pos[w]
    BY DEF Apiece
  <2>3. \A y \in S \ {w} : pos[y] > p <=> pos[y] > pos[w]
    BY <1>1, <2>1, <2>2
  <2>4. CASE n = Null
    <3>1. \A y \in S \ {w} : pos[y] <= pos[w] /\ pos[y] \in Nat
      BY <1>1, <2>4 DEF Above
    <3>2. \A y \in S \ {w} : pos[y] <= p
      BY <1>1, <2>3, <3>1
    <3>3. QED BY <1>2, <2>4, <3>2 DEF Above
  <2>5. CASE n # Null
    <3>1. /\ n \in S /\ pos[n] > pos[w] /\ \A y \in S : pos[y] > pos[w] => pos[n] <= pos[y]
      BY <2>5 DEF Above
    <3>2. n # w /\ pos[n] > p
      BY <1>1, <2>1, <3>1
    <3>3. \A y \in S \ {w} : pos[y] > p => pos[n] <= pos[y]
      BY <2>3, <3>1
    <3>4. QED BY <1>2, <2>5, <3>1, <3>2, <3>3 DEF Above
  <2>6. QED BY <2>4, <2>5
<1>3. CASE x # w
  BY <1>3 DEF Above
<1>4. QED BY <1>2, <1>3

\* And the last one before a position, when w is gone.
LEMMA BelowWithout ==
  ASSUME NEW S, NEW pos, Apiece(S, pos), NEW w \in S, NEW p \in Int, NEW x, NEW n,
         Below(S, pos, p, x), Below(S, pos, pos[w], n)
  PROVE  Below(S \ {w}, pos, p, IF x = w THEN n ELSE x)
<1>1. w # Null /\ \A z \in S : pos[z] \in Nat
  BY SyncerFinite DEF Apiece
<1>2. CASE x = w
  <2>1. pos[w] < p /\ \A y \in S : pos[y] < p => pos[y] <= pos[w]
    BY <1>1, <1>2 DEF Below
  <2>2. \A y \in S \ {w} : pos[y] # pos[w]
    BY DEF Apiece
  <2>3. \A y \in S \ {w} : pos[y] < p <=> pos[y] < pos[w]
    BY <1>1, <2>1, <2>2
  <2>4. CASE n = Null
    <3>1. \A y \in S \ {w} : pos[y] >= pos[w] /\ pos[y] \in Nat
      BY <1>1, <2>4 DEF Below
    <3>2. \A y \in S \ {w} : pos[y] >= p
      BY <1>1, <2>3, <3>1
    <3>3. QED BY <1>2, <2>4, <3>2 DEF Below
  <2>5. CASE n # Null
    <3>1. /\ n \in S /\ pos[n] < pos[w] /\ \A y \in S : pos[y] < pos[w] => pos[y] <= pos[n]
      BY <2>5 DEF Below
    <3>2. n # w /\ pos[n] < p
      BY <1>1, <2>1, <3>1
    <3>3. \A y \in S \ {w} : pos[y] < p => pos[y] <= pos[n]
      BY <2>3, <3>1
    <3>4. QED BY <1>2, <2>5, <3>1, <3>2, <3>3 DEF Below
  <2>6. QED BY <2>4, <2>5
<1>3. CASE x # w
  BY <1>3 DEF Below
<1>4. QED BY <1>2, <1>3

-----------------------------------------------------------------------------
\* Syncers of the program, and their lines.

Real(w) == Made(CallOf(w)) /\ w[3] <= Len(SyncOf(CallOf(w)).evts)

\* What the syncs of a program are.
LEMMA SyncIs ==
  ASSUME program \in Programs, NEW c \in Call, Made(c)
  PROVE  /\ SyncOf(c) \in SyncType /\ Len(SyncOf(c).evts) \in 1..MaxEvts
         /\ \A i \in 1..Len(SyncOf(c).evts) : SyncOf(c).evts[i] \in Evt
<1>1. c[1] \in Thread /\ c[2] \in 1..MaxCalls /\ c[2] \in Nat /\ c[2] >= 1
  BY ConstantsAssumption DEF Call
<1>2. program[c[1]] \in Program
  BY <1>1, ConstantsAssumption
<1>3. program[c[1]].syncs \in Seq(SyncType)
  BY <1>2 DEF Program
<1>4. c[2] \in 1..Len(program[c[1]].syncs)
  BY <1>1, <1>3 DEF Made
<1>5. SyncOf(c) \in SyncType
  BY <1>3, <1>4 DEF SyncOf
<1>6. Len(SyncOf(c).evts) \in 1..MaxEvts
  BY <1>1, <1>4, ConstantsAssumption DEF SyncOf
<1>7. SyncOf(c).evts \in Seq(Evt)
  BY <1>5 DEF SyncType
<1>8. QED BY <1>5, <1>6, <1>7

\* What a syncer is.
LEMMA SyncerIs ==
  ASSUME NEW w \in Syncer
  PROVE  /\ CallOf(w) \in Call /\ w[1] \in Thread /\ w[2] \in 1..MaxCalls /\ w[3] \in 1..MaxEvts
         /\ w[3] \in Nat /\ w[3] >= 1 /\ w[3] # 0
         /\ w = <<CallOf(w)[1], CallOf(w)[2], w[3]>> /\ CallOf(w)[1] = w[1] /\ CallOf(w)[2] = w[2]
         /\ w # Null
<1>1. w[1] \in Thread /\ w[2] \in 1..MaxCalls /\ w[3] \in 1..MaxEvts /\ w = <<w[1], w[2], w[3]>>
  BY DEF Syncer
<1>2. w[3] \in Nat /\ w[3] >= 1 /\ w[3] # 0
  BY <1>1, ConstantsAssumption
<1>3. QED BY <1>1, <1>2, SyncerFinite DEF CallOf, Call

\* The event of a syncer, and its line.
LEMMA EvtIs ==
  ASSUME program \in Programs, NEW w \in Syncer, Real(w)
  PROVE  /\ EvtOf(w) \in Evt /\ LineOf(w) \in Line
         /\ w[3] \in 1..Len(SyncOf(CallOf(w)).evts)
         /\ OnSema(w) => LineOf(w) = [kind |-> "sema", on |-> EvtOf(w).on] /\ EvtOf(w).on \in Sema
         /\ ~OnSema(w) => LineOf(w) = EvtOf(w) /\ EvtOf(w).kind \in {"get", "put"} /\ EvtOf(w).on \in Chan
<1>1. CallOf(w) \in Call /\ Made(CallOf(w)) /\ w[3] \in Nat /\ w[3] >= 1
  BY SyncerIs DEF Real
<1>2. Len(SyncOf(CallOf(w)).evts) \in Nat
  BY <1>1, SyncIs, ConstantsAssumption
<1>3. w[3] \in 1..Len(SyncOf(CallOf(w)).evts)
  BY <1>1, <1>2 DEF Real
<1>4. EvtOf(w) \in Evt
  BY <1>1, <1>3, SyncIs DEF EvtOf
<1>5. CASE EvtOf(w).kind = "peek"
  <2>1. EvtOf(w) \in [kind : {"peek"}, on : Sema]
    BY <1>4, <1>5 DEF Evt, Line
  <2>2. LineOf(w) = [kind |-> "sema", on |-> EvtOf(w).on]
    BY <1>5, <2>1 DEF LineOf
  <2>3. QED BY <1>3, <1>4, <1>5, <2>1, <2>2 DEF OnSema, Line
<1>6. CASE EvtOf(w).kind = "sema"
  <2>1. EvtOf(w) \in [kind : {"sema"}, on : Sema]
    BY <1>4, <1>6 DEF Evt, Line
  <2>2. LineOf(w) = EvtOf(w)
    BY <1>6 DEF LineOf
  <2>3. QED BY <1>3, <1>4, <1>6, <2>1, <2>2 DEF OnSema, Line
<1>7. CASE EvtOf(w).kind \notin {"sema", "peek"}
  <2>1. EvtOf(w) \in [kind : {"get", "put"}, on : Chan]
    BY <1>4, <1>7 DEF Evt, Line
  <2>2. LineOf(w) = EvtOf(w)
    BY <1>7 DEF LineOf
  <2>3. QED BY <1>3, <1>4, <1>7, <2>1, <2>2 DEF OnSema, Line
<1>8. QED BY <1>5, <1>6, <1>7

Links ==
  [first : [Line -> Syncer \cup {Null}], last : [Line -> Syncer \cup {Null}],
   prev : [Syncer -> Syncer \cup {Null}], next : [Syncer -> Syncer \cup {Null}],
   in_line : SUBSET Syncer]

OnLine(L, e) == {w \in L.in_line : LineOf(w) = e}

\* The lines are lists in the order of pos, whose values are up to B.
Sorted(L, pos, B) ==
  /\ L \in Links /\ B \in Nat /\ pos \in [Syncer -> Nat]
  /\ \A w \in L.in_line : Real(w) /\ pos[w] \in 1..B
  /\ Apiece(L.in_line, pos)
  /\ \A e \in Line : /\ Above(OnLine(L, e), pos, 0, L.first[e])
                     /\ Below(OnLine(L, e), pos, B + 1, L.last[e])
  /\ \A w \in L.in_line : /\ Above(OnLine(L, LineOf(w)), pos, pos[w], L.next[w])
                          /\ Below(OnLine(L, LineOf(w)), pos, pos[w], L.prev[w])

\* Those of one line have different positions, as all have.
LEMMA OnLineApiece ==
  ASSUME NEW L, NEW pos, NEW B, Sorted(L, pos, B), NEW e
  PROVE  Apiece(OnLine(L, e), pos)
BY DEF Sorted, Apiece, OnLine

\* What get_outof_line does to a syncer in line.
LEMMA OutSorted ==
  ASSUME program \in Programs, NEW L, NEW pos, NEW B, Sorted(L, pos, B), NEW w \in L.in_line
  PROVE  /\ Sorted(get_outof_line(L, w), pos, B)
         /\ get_outof_line(L, w).in_line = L.in_line \ {w}
<1>1. PICK e \in Line : e = LineOf(w)
  BY EvtIs DEF Sorted, Links
<1>2. PICK S : S = OnLine(L, e)
  OBVIOUS
<1>3. PICK p, n : p = L.prev[w] /\ n = L.next[w]
  OBVIOUS
<1>4. PICK M : M = get_outof_line(L, w)
  OBVIOUS
<1>5. /\ L.first \in [Line -> Syncer \cup {Null}] /\ L.last \in [Line -> Syncer \cup {Null}]
      /\ L.prev \in [Syncer -> Syncer \cup {Null}] /\ L.next \in [Syncer -> Syncer \cup {Null}]
      /\ L.in_line \in SUBSET Syncer /\ w \in Syncer /\ Null \notin Syncer
      /\ pos \in [Syncer -> Nat] /\ B \in Nat
  BY SyncerFinite DEF Sorted, Links
<1>6. p \in Syncer \cup {Null} /\ n \in Syncer \cup {Null}
  BY <1>3, <1>5
<1>7. /\ M.first = IF p = Null THEN [L.first EXCEPT ![e] = n] ELSE L.first
      /\ M.last = IF n = Null THEN [L.last EXCEPT ![e] = p] ELSE L.last
      /\ M.prev = IF n = Null THEN L.prev ELSE [L.prev EXCEPT ![n] = p]
      /\ M.next = IF p = Null THEN L.next ELSE [L.next EXCEPT ![p] = n]
      /\ M.in_line = L.in_line \ {w}
      /\ M = [first |-> M.first, last |-> M.last, prev |-> M.prev, next |-> M.next,
              in_line |-> M.in_line]
  BY <1>1, <1>3, <1>4 DEF get_outof_line
<1>8. M \in Links
  <2>1. M.first \in [Line -> Syncer \cup {Null}] /\ M.last \in [Line -> Syncer \cup {Null}]
    BY <1>5, <1>6, <1>7
  <2>2. M.prev \in [Syncer -> Syncer \cup {Null}] /\ M.next \in [Syncer -> Syncer \cup {Null}]
    BY <1>5, <1>6, <1>7
  <2>3. M.in_line \in SUBSET Syncer
    BY <1>5, <1>7
  <2>4. QED BY <1>7, <2>1, <2>2, <2>3 DEF Links
<1>9. w \in S /\ Apiece(S, pos) /\ Apiece(M.in_line, pos)
  BY <1>1, <1>2, <1>7, OnLineApiece DEF OnLine, Sorted, Apiece
<1>10. Above(S, pos, pos[w], n) /\ Below(S, pos, pos[w], p)
  BY <1>1, <1>2, <1>3 DEF Sorted
<1>11. p \in S \cup {Null} /\ n \in S \cup {Null}
  BY <1>10 DEF Above, Below
<1>12. OnLine(M, e) = S \ {w} /\ \A d : d # e => OnLine(M, d) = OnLine(L, d)
  BY <1>1, <1>2, <1>7 DEF OnLine
<1>13. \A y \in S : pos[y] \in Nat /\ pos[y] \in 1..B
  BY <1>2 DEF OnLine, Sorted
<1>14. ASSUME NEW d \in Line
       PROVE  /\ Above(OnLine(M, d), pos, 0, M.first[d])
              /\ Below(OnLine(M, d), pos, B + 1, M.last[d])
  <2>1. Above(OnLine(L, d), pos, 0, L.first[d]) /\ Below(OnLine(L, d), pos, B + 1, L.last[d])
    BY DEF Sorted
  <2>2. CASE d # e
    BY <1>5, <1>7, <1>12, <2>1, <2>2
  <2>3. CASE d = e
    <3>1. M.first[e] = IF L.first[e] = w THEN n ELSE L.first[e]
      <4>1. p = Null <=> L.first[e] = w
        <5>1. CASE p = Null
          <6>1. Above(S, pos, 0, w)
            <7>1. \A y \in S : pos[y] >= pos[w]
              BY <1>10, <5>1 DEF Below
            <7>2. QED BY <1>5, <1>9, <1>13, <7>1 DEF Above
          <6>2. Above(S, pos, 0, L.first[e])
            BY <1>2, <2>1, <2>3
          <6>3. QED BY <1>9, <5>1, <6>1, <6>2, AboveOnce
        <5>2. CASE p # Null
          <6>1. pos[p] < pos[w] /\ p \in S
            BY <1>10, <5>2 DEF Below
          <6>2. L.first[e] = w => pos[w] <= pos[p]
            BY <1>2, <1>5, <1>13, <2>1, <2>3, <6>1 DEF Above
          <6>3. QED BY <1>9, <1>13, <5>2, <6>1, <6>2
        <5>3. QED BY <5>1, <5>2
      <4>2. QED BY <1>5, <1>7, <4>1
    <3>2. M.last[e] = IF L.last[e] = w THEN p ELSE L.last[e]
      <4>1. n = Null <=> L.last[e] = w
        <5>1. CASE n = Null
          <6>1. Below(S, pos, B + 1, w)
            <7>1. \A y \in S : pos[y] <= pos[w]
              BY <1>10, <5>1 DEF Above
            <7>2. QED BY <1>5, <1>9, <1>13, <7>1 DEF Below
          <6>2. Below(S, pos, B + 1, L.last[e]) /\ B + 1 \in Int
            BY <1>2, <1>5, <2>1, <2>3
          <6>3. QED BY <1>9, <5>1, <6>1, <6>2, BelowOnce
        <5>2. CASE n # Null
          <6>1. pos[n] > pos[w] /\ n \in S
            BY <1>10, <5>2 DEF Above
          <6>2. L.last[e] = w => pos[n] <= pos[w]
            BY <1>2, <1>5, <1>13, <2>1, <2>3, <6>1 DEF Below
          <6>3. QED BY <1>9, <1>13, <5>2, <6>1, <6>2
        <5>3. QED BY <5>1, <5>2
      <4>2. QED BY <1>5, <1>7, <4>1
    <3>3. B + 1 \in Int /\ 0 \in Int
      BY <1>5
    <3>4. Above(S \ {w}, pos, 0, M.first[e])
      BY <1>2, <1>9, <1>10, <2>1, <2>3, <3>1, <3>3, AboveWithout
    <3>5. Below(S \ {w}, pos, B + 1, M.last[e])
      BY <1>2, <1>9, <1>10, <2>1, <2>3, <3>2, <3>3, BelowWithout
    <3>6. QED BY <1>12, <2>3, <3>4, <3>5
  <2>4. QED BY <2>2, <2>3
<1>15. ASSUME NEW y \in M.in_line
       PROVE  /\ Above(OnLine(M, LineOf(y)), pos, pos[y], M.next[y])
              /\ Below(OnLine(M, LineOf(y)), pos, pos[y], M.prev[y])
  <2>1. y \in L.in_line /\ y # w /\ y \in Syncer
    BY <1>5, <1>7
  <2>2. /\ Above(OnLine(L, LineOf(y)), pos, pos[y], L.next[y])
        /\ Below(OnLine(L, LineOf(y)), pos, pos[y], L.prev[y])
    BY <2>1 DEF Sorted
  <2>3. CASE LineOf(y) # e
    <3>1. y \notin S
      BY <1>2, <2>3 DEF OnLine
    <3>2. y # p /\ y # n
      BY <1>5, <1>11, <2>1, <3>1
    <3>3. M.next[y] = L.next[y] /\ M.prev[y] = L.prev[y]
      BY <1>5, <1>7, <2>1, <3>2
    <3>4. QED BY <1>12, <2>2, <2>3, <3>3
  <2>4. CASE LineOf(y) = e
    <3>1. y \in S
      BY <1>2, <2>1, <2>4 DEF OnLine
    <3>2. pos[y] \in Int
      BY <1>13, <3>1
    <3>3. M.next[y] = IF L.next[y] = w THEN n ELSE L.next[y]
      <4>1. y = p <=> L.next[y] = w
        <5>1. ASSUME y = p PROVE L.next[y] = w
          <6>1. Above(S, pos, pos[y], w)
            BY <1>9, <1>10, <3>1, <5>1, Neighbours
          <6>2. QED BY <1>2, <1>9, <2>2, <2>4, <3>2, <6>1, AboveOnce
        <5>2. ASSUME L.next[y] = w PROVE y = p
          <6>1. Below(S, pos, pos[w], y)
            BY <1>2, <1>9, <2>2, <2>4, <3>1, <5>2, Neighbours
          <6>2. pos[w] \in Int
            BY <1>9, <1>13
          <6>3. QED BY <1>9, <1>10, <6>1, <6>2, BelowOnce
        <5>3. QED BY <5>1, <5>2
      <4>2. QED BY <1>5, <1>7, <2>1, <4>1
    <3>4. M.prev[y] = IF L.prev[y] = w THEN p ELSE L.prev[y]
      <4>1. y = n <=> L.prev[y] = w
        <5>1. ASSUME y = n PROVE L.prev[y] = w
          <6>1. Below(S, pos, pos[y], w)
            BY <1>9, <1>10, <3>1, <5>1, Neighbours
          <6>2. QED BY <1>2, <1>9, <2>2, <2>4, <3>2, <6>1, BelowOnce
        <5>2. ASSUME L.prev[y] = w PROVE y = n
          <6>1. Above(S, pos, pos[w], y)
            BY <1>2, <1>9, <2>2, <2>4, <3>1, <5>2, Neighbours
          <6>2. pos[w] \in Int
            BY <1>9, <1>13
          <6>3. QED BY <1>9, <1>10, <6>1, <6>2, AboveOnce
        <5>3. QED BY <5>1, <5>2
      <4>2. QED BY <1>5, <1>7, <2>1, <4>1
    <3>5. Above(S \ {w}, pos, pos[y], M.next[y])
      <4>1. PICK x : x = L.next[y]
        OBVIOUS
      <4>2. Above(S, pos, pos[y], x)
        BY <1>2, <2>2, <2>4, <4>1
      <4>3. Above(S \ {w}, pos, pos[y], IF x = w THEN n ELSE x)
        BY <1>9, <1>10, <3>2, <4>2, AboveWithout
      <4>4. QED BY <3>3, <4>1, <4>3
    <3>6. Below(S \ {w}, pos, pos[y], M.prev[y])
      <4>1. PICK x : x = L.prev[y]
        OBVIOUS
      <4>2. Below(S, pos, pos[y], x)
        BY <1>2, <2>2, <2>4, <4>1
      <4>3. Below(S \ {w}, pos, pos[y], IF x = w THEN p ELSE x)
        BY <1>9, <1>10, <3>2, <4>2, BelowWithout
      <4>4. QED BY <3>4, <4>1, <4>3
    <3>7. QED BY <1>12, <2>4, <3>5, <3>6
  <2>5. QED BY <2>3, <2>4
<1>16. \A y \in M.in_line : Real(y) /\ pos[y] \in 1..B
  BY <1>7 DEF Sorted
<1>17. Sorted(M, pos, B)
  BY <1>5, <1>8, <1>9, <1>14, <1>15, <1>16 DEF Sorted
<1>18. QED BY <1>4, <1>7, <1>17

\* What get_into_line does to a syncer that is not in line.
LEMMA IntoSorted ==
  ASSUME program \in Programs, NEW L, NEW pos, NEW B, Sorted(L, pos, B),
         NEW w \in Syncer, Real(w), w \notin L.in_line
  PROVE  /\ Sorted(get_into_line(L, w), [pos EXCEPT ![w] = B + 1], B + 1)
         /\ get_into_line(L, w).in_line = L.in_line \cup {w}
<1>1. PICK e \in Line : e = LineOf(w)
  BY EvtIs
<1>2. PICK S : S = OnLine(L, e)
  OBVIOUS
<1>3. PICK l : l = L.last[e]
  OBVIOUS
<1>4. PICK M : M = get_into_line(L, w)
  OBVIOUS
<1>5. /\ L.first \in [Line -> Syncer \cup {Null}] /\ L.last \in [Line -> Syncer \cup {Null}]
      /\ L.prev \in [Syncer -> Syncer \cup {Null}] /\ L.next \in [Syncer -> Syncer \cup {Null}]
      /\ L.in_line \in SUBSET Syncer /\ Null \notin Syncer
      /\ pos \in [Syncer -> Nat] /\ B \in Nat
  BY SyncerFinite DEF Sorted, Links
<1>6. l \in Syncer \cup {Null} /\ w # Null
  BY <1>3, <1>5
<1>7. /\ M.first = IF l = Null THEN [L.first EXCEPT ![e] = w] ELSE L.first
      /\ M.last = [L.last EXCEPT ![e] = w]
      /\ M.prev = [L.prev EXCEPT ![w] = l]
      /\ M.next = IF l = Null THEN [L.next EXCEPT ![w] = Null]
                              ELSE [L.next EXCEPT ![l] = w, ![w] = Null]
      /\ M.in_line = L.in_line \cup {w}
      /\ M = [first |-> M.first, last |-> M.last, prev |-> M.prev, next |-> M.next,
              in_line |-> M.in_line]
  BY <1>1, <1>3, <1>4 DEF get_into_line
<1>8. M \in Links
  <2>1. M.first \in [Line -> Syncer \cup {Null}] /\ M.last \in [Line -> Syncer \cup {Null}]
    BY <1>5, <1>6, <1>7
  <2>2. M.prev \in [Syncer -> Syncer \cup {Null}] /\ M.next \in [Syncer -> Syncer \cup {Null}]
    BY <1>5, <1>6, <1>7
  <2>3. M.in_line \in SUBSET Syncer
    BY <1>5, <1>7
  <2>4. QED BY <1>7, <2>1, <2>2, <2>3 DEF Links
<1>9. PICK q : q = [pos EXCEPT ![w] = B + 1]
  OBVIOUS
<1>10. /\ q \in [Syncer -> Nat] /\ q[w] = B + 1 /\ \A y \in Syncer : y # w => q[y] = pos[y]
       /\ B + 1 \in Nat
  BY <1>5, <1>9
<1>11. \A y \in L.in_line : Real(y) /\ pos[y] \in 1..B /\ q[y] = pos[y] /\ y # w /\ y \in Syncer
  BY <1>5, <1>10 DEF Sorted
<1>12. Apiece(M.in_line, q)
  <2>1. \A x, y \in L.in_line : pos[x] = pos[y] => x = y
    BY DEF Sorted, Apiece
  <2>2. \A x, y \in M.in_line : q[x] = q[y] => x = y
    BY <1>5, <1>7, <1>10, <1>11, <2>1
  <2>3. QED BY <1>5, <1>7, <1>10, <2>2 DEF Apiece
<1>13. OnLine(M, e) = S \cup {w} /\ \A d : d # e => OnLine(M, d) = OnLine(L, d)
  BY <1>1, <1>2, <1>7 DEF OnLine
<1>14. \A y \in S : y \in L.in_line /\ pos[y] \in 1..B /\ q[y] = pos[y] /\ y # w /\ y # Null
  BY <1>2, <1>5, <1>11 DEF OnLine
<1>15. Below(S, pos, B + 1, l) /\ Above(S, pos, 0, L.first[e])
  BY <1>2, <1>3 DEF Sorted
<1>16. /\ l = Null => S = {}
       /\ l # Null => l \in S /\ \A y \in S : pos[y] <= pos[l]
  BY <1>5, <1>14, <1>15 DEF Below
<1>17. ASSUME NEW d \in Line
       PROVE  /\ Above(OnLine(M, d), q, 0, M.first[d])
              /\ Below(OnLine(M, d), q, B + 2, M.last[d])
  <2>1. CASE d # e
    <3>1. M.first[d] = L.first[d] /\ M.last[d] = L.last[d] /\ OnLine(M, d) = OnLine(L, d)
      BY <1>5, <1>7, <1>13, <2>1
    <3>2. Above(OnLine(L, d), pos, 0, L.first[d]) /\ Below(OnLine(L, d), pos, B + 1, L.last[d])
      BY DEF Sorted
    <3>3. \A y \in OnLine(L, d) : q[y] = pos[y] /\ pos[y] \in 1..B
      BY <1>11 DEF OnLine
    <3>4. Above(OnLine(L, d), q, 0, L.first[d])
      BY <3>2, <3>3 DEF Above
    <3>5. Below(OnLine(L, d), q, B + 2, L.last[d])
      BY <1>5, <3>2, <3>3 DEF Below
    <3>6. QED BY <3>1, <3>4, <3>5
  <2>2. CASE d = e
    <3>1. Above(S \cup {w}, q, 0, M.first[e])
      <4>1. CASE l = Null
        <5>1. M.first[e] = w
          BY <1>5, <1>7, <4>1
        <5>2. QED BY <1>5, <1>6, <1>10, <1>16, <4>1, <5>1 DEF Above
      <4>2. CASE l # Null
        <5>1. M.first[e] = L.first[e]
          BY <1>7, <4>2
        <5>2. L.first[e] # Null /\ L.first[e] \in S
          BY <1>14, <1>15, <1>16, <4>2 DEF Above
        <5>3. \A y \in S : pos[L.first[e]] <= pos[y]
          BY <1>14, <1>15, <5>2 DEF Above
        <5>4. PICK f \in S : f = L.first[e]
          BY <5>2
        <5>5. q[f] \in 1..B /\ f # Null /\ \A y \in S : q[f] <= q[y]
          BY <1>14, <5>3, <5>4
        <5>6. \A y \in S \cup {w} : q[f] <= q[y]
          BY <1>5, <1>10, <5>5
        <5>7. Above(S \cup {w}, q, 0, f)
          BY <1>5, <5>4, <5>5, <5>6 DEF Above
        <5>8. QED BY <5>1, <5>4, <5>7
      <4>3. QED BY <4>1, <4>2
    <3>2. M.last[e] = w
      BY <1>5, <1>7
    <3>3. Below(S \cup {w}, q, B + 2, w)
      BY <1>5, <1>6, <1>10, <1>14 DEF Below
    <3>4. QED BY <1>13, <2>2, <3>1, <3>2, <3>3
  <2>3. QED BY <2>1, <2>2
<1>18. ASSUME NEW y \in M.in_line
       PROVE  /\ Above(OnLine(M, LineOf(y)), q, q[y], M.next[y])
              /\ Below(OnLine(M, LineOf(y)), q, q[y], M.prev[y])
  <2>1. CASE y = w
    <3>1. M.next[w] = Null /\ M.prev[w] = l
      BY <1>5, <1>6, <1>7
    <3>2. Above(S \cup {w}, q, B + 1, Null)
      BY <1>5, <1>10, <1>14 DEF Above
    <3>3. Below(S \cup {w}, q, B + 1, l)
      BY <1>5, <1>10, <1>14, <1>16 DEF Below
    <3>4. QED BY <1>1, <1>10, <1>13, <2>1, <3>1, <3>2, <3>3
  <2>2. CASE y # w
    <3>1. y \in L.in_line /\ q[y] = pos[y] /\ y \in Syncer /\ pos[y] \in 1..B
      BY <1>7, <1>11, <2>2
    <3>2. /\ Above(OnLine(L, LineOf(y)), pos, pos[y], L.next[y])
          /\ Below(OnLine(L, LineOf(y)), pos, pos[y], L.prev[y])
      BY <3>1 DEF Sorted
    <3>3. M.prev[y] = L.prev[y]
      BY <1>5, <1>7, <2>2, <3>1
    <3>4. M.next[y] = IF y = l THEN w ELSE L.next[y]
      BY <1>5, <1>6, <1>7, <2>2, <3>1
    <3>5. CASE LineOf(y) # e
      <4>1. y # l
        <5>1. y \notin S
          BY <1>2, <3>5 DEF OnLine
        <5>2. QED BY <1>5, <1>16, <3>1, <5>1
      <4>2. \A z \in OnLine(L, LineOf(y)) : q[z] = pos[z]
        BY <1>11 DEF OnLine
      <4>3. PICK T, n, p : T = OnLine(L, LineOf(y)) /\ n = L.next[y] /\ p = L.prev[y]
        OBVIOUS
      <4>4. Above(T, q, q[y], n) /\ Below(T, q, q[y], p)
        BY <3>1, <3>2, <4>2, <4>3 DEF Above, Below
      <4>5. QED BY <1>13, <3>3, <3>4, <3>5, <4>1, <4>3, <4>4
    <3>6. CASE LineOf(y) = e
      <4>1. y \in S
        BY <1>2, <3>1, <3>6 DEF OnLine
      <4>2. PICK n, p : n = L.next[y] /\ p = L.prev[y]
        OBVIOUS
      <4>3. Above(S, pos, pos[y], n) /\ Below(S, pos, pos[y], p)
        BY <1>2, <3>2, <3>6, <4>2
      <4>4. Below(S \cup {w}, q, q[y], p)
        BY <1>5, <1>10, <1>14, <3>1, <4>3 DEF Below
      <4>5. Above(S \cup {w}, q, q[y], IF y = l THEN w ELSE n)
        <5>1. CASE y = l
          <6>1. \A z \in S : q[z] <= q[y]
            BY <1>14, <1>16, <3>1, <4>1, <5>1
          <6>2. Above(S \cup {w}, q, q[y], w)
            BY <1>5, <1>6, <1>10, <1>14, <3>1, <6>1 DEF Above
          <6>3. QED BY <5>1, <6>2
        <5>2. CASE y # l
          <6>1. l # Null /\ l \in S /\ pos[y] <= pos[l]
            BY <1>16, <4>1
          <6>2. pos[y] # pos[l]
            BY <1>14, <3>1, <5>2, <6>1 DEF Sorted, Apiece
          <6>3. pos[y] < pos[l]
            BY <1>14, <3>1, <6>1, <6>2
          <6>4. n # Null
            BY <1>14, <3>1, <4>3, <6>1, <6>3 DEF Above
          <6>5. Above(S \cup {w}, q, q[y], n)
            BY <1>5, <1>10, <1>14, <3>1, <4>3, <6>4 DEF Above
          <6>6. QED BY <5>2, <6>5
        <5>3. QED BY <5>1, <5>2
      <4>6. QED BY <1>13, <3>3, <3>4, <3>6, <4>2, <4>4, <4>5
    <3>7. QED BY <3>5, <3>6
  <2>3. QED BY <2>1, <2>2
<1>19. \A y \in M.in_line : Real(y) /\ q[y] \in 1..(B + 1)
  BY <1>5, <1>7, <1>10, <1>11
<1>20. (B + 1) + 1 = B + 2
  BY <1>5
<1>21. Sorted(M, q, B + 1)
  BY <1>8, <1>10, <1>12, <1>17, <1>18, <1>19, <1>20 DEF Sorted
<1>22. QED BY <1>4, <1>7, <1>9, <1>21

\* What a walk along a line meets: those in line, in their order.
LEMMA WalkSorted ==
  ASSUME program \in Programs, NEW L, NEW pos, NEW B, Sorted(L, pos, B), NEW e \in Line
  PROVE  /\ Walk(L, e) \in Seq(OnLine(L, e)) /\ Len(Walk(L, e)) \in Nat
         /\ DOMAIN Walk(L, e) = 1..Len(Walk(L, e))
         /\ \A w \in OnLine(L, e) : \E k \in 1..Len(Walk(L, e)) : Walk(L, e)[k] = w
         /\ \A j, k \in 1..Len(Walk(L, e)) : j < k => pos[Walk(L, e)[j]] < pos[Walk(L, e)[k]]
         /\ \A k \in 1..Len(Walk(L, e)) :
              L.prev[Walk(L, e)[k]] = IF k = 1 THEN Null ELSE Walk(L, e)[k - 1]
         /\ L.last[e] = IF Len(Walk(L, e)) = 0 THEN Null ELSE Walk(L, e)[Len(Walk(L, e))]
<1>1. PICK S : S = OnLine(L, e)
  OBVIOUS
<1>2. PICK rank : rank = [w \in S |-> B - pos[w]]
  OBVIOUS
<1>3. /\ \A w \in S : pos[w] \in 1..B /\ w \in L.in_line /\ LineOf(w) = e /\ w # Null /\ w \in Syncer
      /\ S \in SUBSET Syncer /\ B \in Nat /\ Null \notin Syncer
  BY <1>1, SyncerFinite DEF Sorted, OnLine, Links
<1>4. \A w \in S : rank[w] \in Nat /\ rank[w] = B - pos[w]
  BY <1>2, <1>3
<1>5. /\ \A w \in S : Above(S, pos, pos[w], L.next[w]) /\ Below(S, pos, pos[w], L.prev[w])
      /\ Above(S, pos, 0, L.first[e]) /\ Below(S, pos, B + 1, L.last[e])
      /\ Apiece(S, pos)
  BY <1>1, <1>3, OnLineApiece DEF Sorted
<1>6. Falling(S, L.next, rank)
  <2>1. ASSUME NEW w \in S PROVE L.next[w] = Null \/ (L.next[w] \in S /\ rank[L.next[w]] < rank[w])
    <3>1. CASE L.next[w] # Null
      <4>1. PICK n \in S : n = L.next[w] /\ pos[n] > pos[w]
        BY <1>5, <3>1 DEF Above
      <4>2. QED BY <1>3, <1>4, <4>1
    <3>2. QED BY <3>1
  <2>2. rank \in [S -> Nat]
    BY <1>2, <1>4
  <2>3. QED BY <1>3, <2>1, <2>2 DEF Falling
<1>7. \E n \in Nat : \E f : /\ IsPath(L.next, L.first[e], n, f) /\ Distinct(n, f)
                            /\ \A k \in 0..(n - 1) : f[k] \in S
                            /\ \A j, k \in 0..(n - 1) : j < k => pos[f[j]] < pos[f[k]]
  <2>1. CASE L.first[e] = Null
    <3>1. PICK f : f = [k \in 0..0 |-> Null]
      OBVIOUS
    <3>2. f[0] = Null /\ 0..(0 - 1) = {} /\ 0 \in Nat
      BY <3>1
    <3>3. IsPath(L.next, L.first[e], 0, f)
      BY <2>1, <3>2 DEF IsPath
    <3>4. Distinct(0, f)
      BY <3>2 DEF Distinct
    <3>5. QED BY <3>2, <3>3, <3>4
  <2>2. CASE L.first[e] # Null
    <3>1. L.first[e] \in S
      BY <1>5, <2>2 DEF Above
    <3>2. PICK n \in Nat \ {0} : \E f : Falls(S, L.next, rank, L.first[e], n, f)
      BY <1>6, <3>1, FallsExists
    <3>3. PICK f : Falls(S, L.next, rank, L.first[e], n, f)
      BY <3>2
    <3>4. Distinct(n, f)
      BY <1>6, <3>3, FallsDistinct
    <3>5. \A j, k \in 0..(n - 1) : j < k => pos[f[j]] < pos[f[k]]
      <4>1. SUFFICES ASSUME NEW j \in 0..(n - 1), NEW k \in 0..(n - 1), j < k
                     PROVE  pos[f[j]] < pos[f[k]]
        OBVIOUS
      <4>2. f[j] \in S /\ f[k] \in S /\ rank[f[k]] < rank[f[j]]
        BY <3>3, <4>1 DEF Falls
      <4>3. PICK x \in S, y \in S : x = f[j] /\ y = f[k]
        BY <4>2
      <4>4. B - pos[y] < B - pos[x] /\ pos[x] \in 1..B /\ pos[y] \in 1..B
        BY <1>3, <1>4, <4>2, <4>3
      <4>5. QED BY <1>3, <4>3, <4>4
    <3>6. IsPath(L.next, L.first[e], n, f) /\ \A k \in 0..(n - 1) : f[k] \in S
      BY <3>3 DEF Falls
    <3>7. QED BY <3>4, <3>5, <3>6
  <2>3. QED BY <2>1, <2>2
<1>8. PICK n \in Nat : \E f : /\ IsPath(L.next, L.first[e], n, f) /\ Distinct(n, f)
                              /\ \A k \in 0..(n - 1) : f[k] \in S
                              /\ \A j, k \in 0..(n - 1) : j < k => pos[f[j]] < pos[f[k]]
  BY <1>7
<1>9. PICK f : /\ IsPath(L.next, L.first[e], n, f) /\ Distinct(n, f)
               /\ \A k \in 0..(n - 1) : f[k] \in S
               /\ \A j, k \in 0..(n - 1) : j < k => pos[f[j]] < pos[f[k]]
  BY <1>8
<1>10. PICK s : s = [k \in 1..n |-> f[k - 1]]
  OBVIOUS
<1>11. Walk(L, e) = s
  BY <1>9, <1>10, PathIs
<1>12. \A k \in 1..n : k - 1 \in 0..(n - 1)
  BY <1>8
<1>13. s \in [1..n -> S] /\ DOMAIN s = 1..n
  BY <1>9, <1>10, <1>12
<1>14. s \in Seq(S) /\ Len(s) = n
  BY <1>8, <1>13
<1>15. \A j, k \in 1..n : j < k => pos[s[j]] < pos[s[k]]
  <2>1. SUFFICES ASSUME NEW j \in 1..n, NEW k \in 1..n, j < k PROVE pos[s[j]] < pos[s[k]]
    OBVIOUS
  <2>2. j - 1 \in 0..(n - 1) /\ k - 1 \in 0..(n - 1) /\ j - 1 < k - 1
    BY <1>8, <1>12, <2>1
  <2>3. QED BY <1>9, <1>10, <2>2
<1>16. ASSUME NEW k \in 1..n
       PROVE  L.prev[s[k]] = IF k = 1 THEN Null ELSE s[k - 1]
  <2>1. PICK x \in S : x = s[k]
    BY <1>13
  <2>2. Below(S, pos, pos[x], L.prev[x]) /\ pos[x] \in Int
    BY <1>3, <1>5
  <2>3. CASE k = 1
    <3>1. x = L.first[e] /\ x # Null
      BY <1>3, <1>9, <1>10, <2>1, <2>3 DEF IsPath
    <3>2. \A y \in S : pos[y] >= pos[x]
      BY <1>3, <1>5, <3>1 DEF Above
    <3>3. Below(S, pos, pos[x], Null)
      BY <3>2 DEF Below
    <3>4. L.prev[x] = Null
      BY <1>5, <2>2, <3>3, BelowOnce
    <3>5. QED BY <2>1, <2>3, <3>4
  <2>4. CASE k # 1
    <3>1. PICK j \in 0..(n - 1) : j = k - 2 /\ j + 1 = k - 1
      BY <1>8, <2>4
    <3>2. f[j] \in S /\ L.next[f[j]] = f[j + 1]
      BY <1>9 DEF IsPath
    <3>3. s[k - 1] = f[j] /\ s[k] = f[j + 1]
      BY <1>8, <1>10, <2>4, <3>1
    <3>4. PICK y \in S : y = f[j] /\ y = s[k - 1]
      BY <3>2, <3>3
    <3>5. Above(S, pos, pos[y], x)
      <4>1. L.next[y] = x
        BY <2>1, <3>2, <3>3, <3>4
      <4>2. QED BY <1>5, <4>1
    <3>6. Below(S, pos, pos[x], y)
      BY <1>5, <3>5, Neighbours
    <3>7. L.prev[x] = y
      BY <1>5, <2>2, <3>6, BelowOnce
    <3>8. QED BY <2>1, <2>4, <3>4, <3>7
  <2>5. QED BY <2>3, <2>4
<1>17. \A w \in S : \E k \in 1..n : s[k] = w
  <2>1. PICK P : P = {w \in S : \E k \in 1..n : s[k] = w}
    OBVIOUS
  <2>2. PICK h : h = [w \in S |-> pos[w]]
    OBVIOUS
  <2>3. h \in [S -> Nat]
    BY <1>3, <2>2
  <2>4. ASSUME NEW x \in S, \A y \in S : h[y] < h[x] => y \in P
        PROVE  x \in P
    <3>1. CASE L.prev[x] = Null
      <4>1. Above(S, pos, 0, x)
        <5>1. \A y \in S : pos[y] >= pos[x]
          BY <1>5, <3>1 DEF Below
        <5>2. QED BY <1>3, <5>1 DEF Above
      <4>2. x = L.first[e]
        BY <1>5, <4>1, AboveOnce
      <4>3. f[0] = x /\ n # 0
        BY <1>3, <1>9, <4>2 DEF IsPath
      <4>4. 1 \in 1..n /\ s[1] = x
        BY <1>8, <1>10, <4>3
      <4>5. QED BY <2>1, <4>4
    <3>2. CASE L.prev[x] # Null
      <4>1. PICK y \in S : y = L.prev[x] /\ pos[y] < pos[x]
        BY <1>5, <3>2 DEF Below
      <4>2. y \in P
        BY <2>2, <2>4, <4>1
      <4>3. PICK k \in 1..n : s[k] = y
        BY <2>1, <4>2
      <4>4. Above(S, pos, pos[y], x)
        BY <1>5, <4>1, Neighbours
      <4>5. L.next[y] = x
        BY <1>3, <1>5, <4>4, AboveOnce
      <4>6. f[k - 1] = y /\ k - 1 \in 0..(n - 1) /\ (k - 1) + 1 = k
        BY <1>8, <1>10, <1>12, <4>3
      <4>7. f[k] = x
        BY <1>9, <4>5, <4>6 DEF IsPath
      <4>8. k # n
        BY <1>3, <1>9, <4>7 DEF IsPath
      <4>9. k + 1 \in 1..n /\ (k + 1) - 1 = k
        BY <1>8, <4>8
      <4>10. s[k + 1] = x
        BY <1>10, <4>7, <4>9
      <4>11. QED BY <2>1, <4>9, <4>10
    <3>3. QED BY <3>1, <3>2
  <2>5. \A x \in S : x \in P
    BY <2>3, <2>4, OnRank
  <2>6. QED BY <2>1, <2>5
<1>18. L.last[e] = IF n = 0 THEN Null ELSE s[n]
  <2>1. CASE n = 0
    <3>1. S = {}
      BY <1>17, <2>1
    <3>2. QED BY <1>5, <2>1, <3>1 DEF Below
  <2>2. CASE n # 0
    <3>1. n \in 1..n
      BY <1>8, <2>2
    <3>2. PICK x \in S : x = s[n]
      BY <1>13, <3>1
    <3>3. \A y \in S : pos[y] <= pos[x]
      <4>1. SUFFICES ASSUME NEW y \in S PROVE pos[y] <= pos[x]
        OBVIOUS
      <4>2. PICK k \in 1..n : s[k] = y
        BY <1>17
      <4>3. k = n \/ k < n
        BY <1>8
      <4>4. QED BY <1>3, <1>15, <3>1, <3>2, <4>2, <4>3
    <3>4. Below(S, pos, B + 1, x)
      BY <1>3, <3>3 DEF Below
    <3>5. L.last[e] = x
      BY <1>3, <1>5, <3>4, BelowOnce
    <3>6. QED BY <2>2, <3>2, <3>5
  <2>3. QED BY <2>1, <2>2
<1>19. QED BY <1>1, <1>8, <1>11, <1>13, <1>14, <1>15, <1>16, <1>17, <1>18

\* A channel's syncer of a sync that the scheduler polls and of a thread to which
\* signals are sent.
Lonely(w) ==
  Real(w) /\ Deferred(CallOf(w)) /\ ~OnSema(w) /\ program[w[1]].signals # {}

\* It has never had a neighbour.
Alone(L) == \A w \in Syncer : Lonely(w) => L.prev[w] = Null /\ L.next[w] = Null

\* The links agree that w, which is not in line, would go between its prev and
\* its next.
Gone(L, w) ==
  LET e == LineOf(w)
      p == L.prev[w]
      n == L.next[w]
  IN  /\ w \notin L.in_line
      /\ IF p = Null THEN L.first[e] = n ELSE p \in OnLine(L, e) /\ L.next[p] = n
      /\ IF n = Null THEN L.last[e] = p ELSE n \in OnLine(L, e) /\ L.prev[n] = p

\* So to remove it again changes nothing.
LEMMA GoneOut ==
  ASSUME program \in Programs, NEW L, L \in Links, NEW w \in Syncer, Real(w), Gone(L, w)
  PROVE  get_outof_line(L, w) = L
<1>1. PICK e \in Line : e = LineOf(w)
  BY EvtIs
<1>2. PICK p, n : p = L.prev[w] /\ n = L.next[w]
  OBVIOUS
<1>3. /\ L.first \in [Line -> Syncer \cup {Null}] /\ L.last \in [Line -> Syncer \cup {Null}]
      /\ L.prev \in [Syncer -> Syncer \cup {Null}] /\ L.next \in [Syncer -> Syncer \cup {Null}]
      /\ L.in_line \in SUBSET Syncer
      /\ L = [first |-> L.first, last |-> L.last, prev |-> L.prev, next |-> L.next,
              in_line |-> L.in_line]
  BY DEF Links
<1>4. /\ w \notin L.in_line
      /\ IF p = Null THEN L.first[e] = n ELSE p \in OnLine(L, e) /\ L.next[p] = n
      /\ IF n = Null THEN L.last[e] = p ELSE n \in OnLine(L, e) /\ L.prev[n] = p
  BY <1>1, <1>2 DEF Gone
<1>5. (p = Null \/ p \in Syncer) /\ (n = Null \/ n \in Syncer)
  BY <1>2, <1>3
<1>6. (IF p = Null THEN [L.first EXCEPT ![e] = n] ELSE L.first) = L.first
  BY <1>3, <1>4
<1>7. (IF n = Null THEN [L.last EXCEPT ![e] = p] ELSE L.last) = L.last
  BY <1>3, <1>4
<1>8. (IF n = Null THEN L.prev ELSE [L.prev EXCEPT ![n] = p]) = L.prev
  BY <1>3, <1>4, <1>5
<1>9. (IF p = Null THEN L.next ELSE [L.next EXCEPT ![p] = n]) = L.next
  BY <1>3, <1>4, <1>5
<1>10. L.in_line \ {w} = L.in_line
  BY <1>4
<1>11. get_outof_line(L, w) =
         [first |-> IF p = Null THEN [L.first EXCEPT ![e] = n] ELSE L.first,
          last |-> IF n = Null THEN [L.last EXCEPT ![e] = p] ELSE L.last,
          prev |-> IF n = Null THEN L.prev ELSE [L.prev EXCEPT ![n] = p],
          next |-> IF p = Null THEN L.next ELSE [L.next EXCEPT ![p] = n],
          in_line |-> L.in_line \ {w}]
  BY <1>1, <1>2 DEF get_outof_line
<1>12. QED BY <1>3, <1>6, <1>7, <1>8, <1>9, <1>10, <1>11

\* The parts of the lines after w got out.
LEMMA OutIs ==
  ASSUME program \in Programs, NEW L, NEW pos, NEW B, Sorted(L, pos, B), NEW w \in L.in_line,
         NEW M, M = get_outof_line(L, w), NEW p, p = L.prev[w], NEW n, n = L.next[w],
         NEW e, e = LineOf(w)
  PROVE  /\ w \in Syncer /\ Real(w) /\ e \in Line
         /\ p \in OnLine(L, e) \cup {Null} /\ n \in OnLine(L, e) \cup {Null}
         /\ p # w /\ n # w /\ (p # Null => p # n)
         /\ \A d \in Line : M.first[d] = IF d = e /\ p = Null THEN n ELSE L.first[d]
         /\ \A d \in Line : M.last[d] = IF d = e /\ n = Null THEN p ELSE L.last[d]
         /\ \A x \in Syncer : M.prev[x] = IF x = n THEN p ELSE L.prev[x]
         /\ \A x \in Syncer : M.next[x] = IF x = p THEN n ELSE L.next[x]
         /\ M.in_line = L.in_line \ {w} /\ M.in_line \in SUBSET Syncer
<1>1. /\ L.first \in [Line -> Syncer \cup {Null}] /\ L.last \in [Line -> Syncer \cup {Null}]
      /\ L.prev \in [Syncer -> Syncer \cup {Null}] /\ L.next \in [Syncer -> Syncer \cup {Null}]
      /\ L.in_line \in SUBSET Syncer /\ w \in Syncer /\ Null \notin Syncer /\ Real(w)
  BY SyncerFinite DEF Sorted, Links
<1>2. e \in Line
  BY <1>1, EvtIs
<1>3. Above(OnLine(L, e), pos, pos[w], n) /\ Below(OnLine(L, e), pos, pos[w], p)
  BY DEF Sorted
<1>4. \A x \in OnLine(L, e) : x \in L.in_line /\ pos[x] \in Nat
  BY DEF OnLine, Sorted
<1>5. pos[w] \in Nat
  BY DEF Sorted
<1>6. p \in OnLine(L, e) \cup {Null} /\ (p # Null => pos[p] < pos[w])
  BY <1>3 DEF Below
<1>7. n \in OnLine(L, e) \cup {Null} /\ (n # Null => pos[n] > pos[w])
  BY <1>3 DEF Above
<1>8. p # w /\ n # w /\ (p # Null => p # n)
  BY <1>1, <1>4, <1>5, <1>6, <1>7
<1>9. /\ M.first = IF p = Null THEN [L.first EXCEPT ![e] = n] ELSE L.first
      /\ M.last = IF n = Null THEN [L.last EXCEPT ![e] = p] ELSE L.last
      /\ M.prev = IF n = Null THEN L.prev ELSE [L.prev EXCEPT ![n] = p]
      /\ M.next = IF p = Null THEN L.next ELSE [L.next EXCEPT ![p] = n]
      /\ M.in_line = L.in_line \ {w}
  BY DEF get_outof_line
<1>10. p \in Syncer \cup {Null} /\ n \in Syncer \cup {Null}
  BY <1>1
<1>11. \A d \in Line : M.first[d] = IF d = e /\ p = Null THEN n ELSE L.first[d]
  BY <1>1, <1>2, <1>9
<1>12. \A d \in Line : M.last[d] = IF d = e /\ n = Null THEN p ELSE L.last[d]
  BY <1>1, <1>2, <1>9
<1>13. \A x \in Syncer : M.prev[x] = IF x = n THEN p ELSE L.prev[x]
  BY <1>1, <1>9, <1>10
<1>14. \A x \in Syncer : M.next[x] = IF x = p THEN n ELSE L.next[x]
  BY <1>1, <1>9, <1>10
<1>15. QED BY <1>1, <1>2, <1>6, <1>7, <1>8, <1>9, <1>11, <1>12, <1>13, <1>14

\* After w got out, the links agree on it.
LEMMA OutGone ==
  ASSUME program \in Programs, NEW L, NEW pos, NEW B, Sorted(L, pos, B), NEW w \in L.in_line
  PROVE  Gone(get_outof_line(L, w), w)
<1>1. PICK M, p, n, e : M = get_outof_line(L, w) /\ p = L.prev[w] /\ n = L.next[w] /\ e = LineOf(w)
  OBVIOUS
<1>2. /\ w \in Syncer /\ Real(w) /\ e \in Line
      /\ p \in OnLine(L, e) \cup {Null} /\ n \in OnLine(L, e) \cup {Null}
      /\ p # w /\ n # w /\ (p # Null => p # n)
      /\ \A d \in Line : M.first[d] = IF d = e /\ p = Null THEN n ELSE L.first[d]
      /\ \A d \in Line : M.last[d] = IF d = e /\ n = Null THEN p ELSE L.last[d]
      /\ \A x \in Syncer : M.prev[x] = IF x = n THEN p ELSE L.prev[x]
      /\ \A x \in Syncer : M.next[x] = IF x = p THEN n ELSE L.next[x]
      /\ M.in_line = L.in_line \ {w} /\ M.in_line \in SUBSET Syncer
  BY <1>1, OutIs
<1>3. M.prev[w] = p /\ M.next[w] = n
  BY <1>1, <1>2
<1>4. OnLine(M, e) = OnLine(L, e) \ {w} /\ OnLine(L, e) \in SUBSET Syncer /\ Null \notin Syncer
  BY <1>2, SyncerFinite DEF OnLine, Sorted, Links
<1>5. IF p = Null THEN M.first[e] = n ELSE p \in OnLine(M, e) /\ M.next[p] = n
  BY <1>2, <1>4
<1>6. IF n = Null THEN M.last[e] = p ELSE n \in OnLine(M, e) /\ M.prev[n] = p
  BY <1>2, <1>4
<1>7. w \notin M.in_line
  BY <1>2
<1>8. Gone(M, w)
  BY <1>1, <1>3, <1>5, <1>6, <1>7 DEF Gone
<1>9. QED BY <1>1, <1>8

\* What happens to another line does not change that.
LEMMA GoneKept ==
  ASSUME program \in Programs, NEW L, NEW pos, NEW B, Sorted(L, pos, B), NEW w \in L.in_line,
         NEW x \in Syncer, Real(x), Gone(L, x), LineOf(x) # LineOf(w)
  PROVE  Gone(get_outof_line(L, w), x)
<1>1. PICK M, p, n, e : M = get_outof_line(L, w) /\ p = L.prev[w] /\ n = L.next[w] /\ e = LineOf(w)
  OBVIOUS
<1>2. /\ w \in Syncer /\ Real(w) /\ e \in Line
      /\ p \in OnLine(L, e) \cup {Null} /\ n \in OnLine(L, e) \cup {Null}
      /\ p # w /\ n # w /\ (p # Null => p # n)
      /\ \A d \in Line : M.first[d] = IF d = e /\ p = Null THEN n ELSE L.first[d]
      /\ \A d \in Line : M.last[d] = IF d = e /\ n = Null THEN p ELSE L.last[d]
      /\ \A y \in Syncer : M.prev[y] = IF y = n THEN p ELSE L.prev[y]
      /\ \A y \in Syncer : M.next[y] = IF y = p THEN n ELSE L.next[y]
      /\ M.in_line = L.in_line \ {w} /\ M.in_line \in SUBSET Syncer
  BY <1>1, OutIs
<1>3. PICK d \in Line : d = LineOf(x)
  BY EvtIs
<1>4. PICK q, m : q = L.prev[x] /\ m = L.next[x]
  OBVIOUS
<1>5. /\ x \notin L.in_line
      /\ IF q = Null THEN L.first[d] = m ELSE q \in OnLine(L, d) /\ L.next[q] = m
      /\ IF m = Null THEN L.last[d] = q ELSE m \in OnLine(L, d) /\ L.prev[m] = q
  BY <1>3, <1>4 DEF Gone
<1>6. d # e /\ Null \notin Syncer
  BY <1>1, <1>3, SyncerFinite
<1>7. OnLine(M, d) = OnLine(L, d)
  BY <1>1, <1>2, <1>6 DEF OnLine
<1>8. \A y \in OnLine(L, d) : y \in Syncer /\ y # p /\ y # n
  BY <1>2, <1>6 DEF OnLine, Sorted, Links
<1>9. x # p /\ x # n
  BY <1>2, <1>5, <1>6 DEF OnLine
<1>10. M.prev[x] = q /\ M.next[x] = m
  BY <1>2, <1>4, <1>9
<1>11. IF q = Null THEN M.first[d] = m ELSE q \in OnLine(M, d) /\ M.next[q] = m
  BY <1>2, <1>5, <1>6, <1>7, <1>8
<1>12. IF m = Null THEN M.last[d] = q ELSE m \in OnLine(M, d) /\ M.prev[m] = q
  BY <1>2, <1>5, <1>6, <1>7, <1>8
<1>13. Gone(M, x)
  BY <1>2, <1>3, <1>5, <1>10, <1>11, <1>12 DEF Gone
<1>14. QED BY <1>1, <1>13

\* The lonely ones stay alone.
LEMMA OutAlone ==
  ASSUME program \in Programs, NEW L, NEW pos, NEW B, Sorted(L, pos, B), Alone(L),
         NEW w \in L.in_line
  PROVE  Alone(get_outof_line(L, w))
<1>1. PICK M, p, n, e : M = get_outof_line(L, w) /\ p = L.prev[w] /\ n = L.next[w] /\ e = LineOf(w)
  OBVIOUS
<1>2. /\ w \in Syncer /\ Real(w) /\ e \in Line
      /\ p \in OnLine(L, e) \cup {Null} /\ n \in OnLine(L, e) \cup {Null}
      /\ p # w /\ n # w /\ (p # Null => p # n)
      /\ \A y \in Syncer : M.prev[y] = IF y = n THEN p ELSE L.prev[y]
      /\ \A y \in Syncer : M.next[y] = IF y = p THEN n ELSE L.next[y]
  BY <1>1, OutIs
<1>3. w # Null /\ w \in OnLine(L, e) /\ Null \notin Syncer
  BY <1>1, <1>2, SyncerFinite DEF OnLine
<1>4. Above(OnLine(L, e), pos, pos[w], n) /\ Below(OnLine(L, e), pos, pos[w], p)
  BY <1>1 DEF Sorted
<1>5. Apiece(OnLine(L, e), pos)
  BY OnLineApiece
<1>6. ASSUME NEW x \in Syncer, Lonely(x) PROVE x # n /\ x # p
  <2>1. L.prev[x] = Null /\ L.next[x] = Null
    BY <1>6 DEF Alone
  <2>2. ASSUME x = n PROVE FALSE
    <3>1. n \in OnLine(L, e) /\ LineOf(n) = e /\ n \in L.in_line
      BY <1>2, <1>3, <2>2 DEF OnLine
    <3>2. Below(OnLine(L, e), pos, pos[n], w)
      BY <1>3, <1>4, <1>5, <3>1, Neighbours
    <3>3. Below(OnLine(L, e), pos, pos[n], Null)
      BY <2>1, <2>2, <3>1 DEF Sorted
    <3>4. pos[n] \in Int
      BY <3>1 DEF Sorted
    <3>5. QED BY <1>3, <1>5, <3>2, <3>3, <3>4, BelowOnce
  <2>3. ASSUME x = p PROVE FALSE
    <3>1. p \in OnLine(L, e) /\ LineOf(p) = e /\ p \in L.in_line
      BY <1>2, <1>3, <2>3 DEF OnLine
    <3>2. Above(OnLine(L, e), pos, pos[p], w)
      BY <1>3, <1>4, <1>5, <3>1, Neighbours
    <3>3. Above(OnLine(L, e), pos, pos[p], Null)
      BY <2>1, <2>3, <3>1 DEF Sorted
    <3>4. pos[p] \in Int
      BY <3>1 DEF Sorted
    <3>5. QED BY <1>3, <1>5, <3>2, <3>3, <3>4, AboveOnce
  <2>4. QED BY <2>2, <2>3
<1>7. Alone(M)
  BY <1>2, <1>6 DEF Alone
<1>8. QED BY <1>1, <1>7

\* A lonely one that gets into an empty line is alone, and one that gets into
\* another line leaves the lonely ones alone.
LEMMA IntoAlone ==
  ASSUME program \in Programs, NEW L, NEW pos, NEW B, Sorted(L, pos, B), Alone(L),
         NEW w \in Syncer, Real(w), w \notin L.in_line,
         \A x \in OnLine(L, LineOf(w)) : ~Lonely(x) /\ ~Lonely(w)
  PROVE  Alone(get_into_line(L, w))
<1>1. PICK M, l, e : M = get_into_line(L, w) /\ l = L.last[e] /\ e = LineOf(w)
  OBVIOUS
<1>2. e \in Line /\ Null \notin Syncer
  BY <1>1, EvtIs, SyncerFinite
<1>3. L.prev \in [Syncer -> Syncer \cup {Null}] /\ L.next \in [Syncer -> Syncer \cup {Null}]
  BY DEF Sorted, Links
<1>4. l \in OnLine(L, e) \cup {Null}
  BY <1>1, <1>2 DEF Sorted, Below
<1>5. \A y \in Syncer : M.prev[y] = IF y = w THEN l ELSE L.prev[y]
  BY <1>1, <1>3 DEF get_into_line
<1>6. \A y \in Syncer : M.next[y] = IF y = w THEN Null ELSE IF y = l THEN w ELSE L.next[y]
  <2>1. M.next = IF l = Null THEN [L.next EXCEPT ![w] = Null]
                             ELSE [L.next EXCEPT ![l] = w, ![w] = Null]
    BY <1>1 DEF get_into_line
  <2>2. l = Null \/ l \in Syncer
    BY <1>4 DEF OnLine, Sorted, Links
  <2>3. QED BY <1>2, <1>3, <2>1, <2>2
<1>7. ASSUME NEW x \in Syncer, Lonely(x) PROVE x # l /\ (x = w => l = Null)
  BY <1>1, <1>2, <1>4, <1>7
<1>8. Alone(M)
  BY <1>5, <1>6, <1>7 DEF Alone
<1>9. QED BY <1>1, <1>8

\* A lonely one that is not in line, and nobody else is.
LEMMA VacantGone ==
  ASSUME program \in Programs, NEW L, NEW pos, NEW B, Sorted(L, pos, B), Alone(L),
         NEW w \in Syncer, Lonely(w), OnLine(L, LineOf(w)) = {}
  PROVE  Gone(L, w)
<1>1. PICK e \in Line : e = LineOf(w)
  BY EvtIs DEF Lonely
<1>2. L.prev[w] = Null /\ L.next[w] = Null
  BY DEF Alone
<1>3. L.first[e] = Null /\ L.last[e] = Null
  BY <1>1 DEF Sorted, Above, Below
<1>4. w \notin L.in_line
  BY DEF OnLine
<1>5. QED BY <1>1, <1>2, <1>3, <1>4 DEF Gone

\* The function inside OutOfLines.
Outs(L, ws, S, n, g) ==
  g = [k \in 0..n |-> IF k = 0 THEN L
                      ELSE IF ws[k] \in S THEN get_outof_line(g[k - 1], ws[k]) ELSE g[k - 1]]

\* It exists.
LEMMA OutsExists ==
  ASSUME NEW L, NEW ws, NEW S, NEW n \in Nat
  PROVE  \E g : Outs(L, ws, S, n, g)
<1>1. PICK P : P = {k \in 0..n : \E g : Outs(L, ws, S, k, g)}
  OBVIOUS
<1>2. 0 \in P
  <2>1. PICK g : g = [k \in 0..0 |-> L]
    OBVIOUS
  <2>2. \A k \in 0..0 : k = 0
    OBVIOUS
  <2>3. Outs(L, ws, S, 0, g)
    BY <2>1, <2>2 DEF Outs
  <2>4. 0 \in 0..n
    OBVIOUS
  <2>5. QED BY <1>1, <2>3, <2>4
<1>3. ASSUME NEW k \in 0..(n - 1), k \in P
      PROVE  k + 1 \in P
  <2>1. PICK g : Outs(L, ws, S, k, g)
    BY <1>1, <1>3
  <2>2. PICK x : x = IF ws[k + 1] \in S THEN get_outof_line(g[k], ws[k + 1]) ELSE g[k]
    OBVIOUS
  <2>3. PICK h : h = [j \in 0..(k + 1) |-> IF j = k + 1 THEN x ELSE g[j]]
    OBVIOUS
  <2>4. h[k + 1] = x /\ \A j \in 0..k : h[j] = g[j]
    BY <2>3
  <2>5. ASSUME NEW j \in 0..(k + 1)
        PROVE  h[j] = IF j = 0 THEN L
                      ELSE IF ws[j] \in S THEN get_outof_line(h[j - 1], ws[j]) ELSE h[j - 1]
    <3>1. CASE j = k + 1
      <4>1. j # 0 /\ j - 1 = k /\ k \in 0..k
        BY <3>1
      <4>2. h[j - 1] = g[k] /\ h[j] = x
        BY <2>4, <3>1, <4>1
      <4>3. QED BY <2>2, <3>1, <4>1, <4>2
    <3>2. CASE j # k + 1
      <4>1. j \in 0..k /\ (j # 0 => j - 1 \in 0..k)
        BY <3>2
      <4>2. h[j] = g[j] /\ (j # 0 => h[j - 1] = g[j - 1])
        BY <2>4, <4>1
      <4>3. g[j] = IF j = 0 THEN L
                   ELSE IF ws[j] \in S THEN get_outof_line(g[j - 1], ws[j]) ELSE g[j - 1]
        BY <2>1, <4>1 DEF Outs
      <4>4. QED BY <4>2, <4>3
    <3>3. QED BY <3>1, <3>2
  <2>6. h = [j \in 0..(k + 1) |-> h[j]]
    BY <2>3
  <2>7. Outs(L, ws, S, k + 1, h)
    BY <2>5, <2>6 DEF Outs
  <2>8. k + 1 \in 0..n
    OBVIOUS
  <2>9. QED BY <1>1, <2>7, <2>8
<1>4. \A k \in 0..n : k \in P
  BY <1>2, <1>3, UpTo
<1>5. n \in 0..n
  OBVIOUS
<1>6. QED BY <1>1, <1>4, <1>5

\* Step by step.
LEMMA OutsIs ==
  ASSUME NEW L, NEW ws, NEW S, Len(ws) \in Nat
  PROVE  \E g : /\ g[0] = L /\ OutOfLines(L, ws, S) = g[Len(ws)]
               /\ \A k \in 1..Len(ws) : g[k] = IF ws[k] \in S THEN get_outof_line(g[k - 1], ws[k]) ELSE g[k - 1]
<1>1. PICK g : g = CHOOSE f : Outs(L, ws, S, Len(ws), f)
  OBVIOUS
<1>2. Outs(L, ws, S, Len(ws), g)
  BY <1>1, OutsExists
<1>3. OutOfLines(L, ws, S) = g[Len(ws)]
  BY <1>1 DEF OutOfLines, Outs
<1>4. PICK m \in Nat : m = Len(ws)
  OBVIOUS
<1>5. g = [k \in 0..m |-> IF k = 0 THEN L
                          ELSE IF ws[k] \in S THEN get_outof_line(g[k - 1], ws[k]) ELSE g[k - 1]]
  BY <1>2, <1>4 DEF Outs
<1>6. g[0] = L
  BY <1>5
<1>7. \A k \in 1..m : g[k] = IF ws[k] \in S THEN get_outof_line(g[k - 1], ws[k]) ELSE g[k - 1]
  <2>1. SUFFICES ASSUME NEW k \in 1..m PROVE g[k] = IF ws[k] \in S THEN get_outof_line(g[k - 1], ws[k]) ELSE g[k - 1]
    OBVIOUS
  <2>2. k \in 0..m /\ k # 0
    OBVIOUS
  <2>3. g[k] = IF k = 0 THEN L ELSE IF ws[k] \in S THEN get_outof_line(g[k - 1], ws[k]) ELSE g[k - 1]
    BY <1>5, <2>2
  <2>4. QED BY <2>2, <2>3
<1>8. QED BY <1>3, <1>4, <1>6, <1>7

\* The function inside Join.
Joins(L, ws, n, g) ==
  g = [k \in 0..n |-> IF k = 0 THEN L
                      ELSE IF ws[k] \in L.in_line THEN g[k - 1] ELSE get_into_line(g[k - 1], ws[k])]

\* It exists.
LEMMA JoinsExists ==
  ASSUME NEW L, NEW ws, NEW n \in Nat
  PROVE  \E g : Joins(L, ws, n, g)
<1>1. PICK P : P = {k \in 0..n : \E g : Joins(L, ws, k, g)}
  OBVIOUS
<1>2. 0 \in P
  <2>1. PICK g : g = [k \in 0..0 |-> L]
    OBVIOUS
  <2>2. \A k \in 0..0 : k = 0
    OBVIOUS
  <2>3. Joins(L, ws, 0, g)
    BY <2>1, <2>2 DEF Joins
  <2>4. 0 \in 0..n
    OBVIOUS
  <2>5. QED BY <1>1, <2>3, <2>4
<1>3. ASSUME NEW k \in 0..(n - 1), k \in P
      PROVE  k + 1 \in P
  <2>1. PICK g : Joins(L, ws, k, g)
    BY <1>1, <1>3
  <2>2. PICK x : x = IF ws[k + 1] \in L.in_line THEN g[k] ELSE get_into_line(g[k], ws[k + 1])
    OBVIOUS
  <2>3. PICK h : h = [j \in 0..(k + 1) |-> IF j = k + 1 THEN x ELSE g[j]]
    OBVIOUS
  <2>4. h[k + 1] = x /\ \A j \in 0..k : h[j] = g[j]
    BY <2>3
  <2>5. ASSUME NEW j \in 0..(k + 1)
        PROVE  h[j] = IF j = 0 THEN L
                      ELSE IF ws[j] \in L.in_line THEN h[j - 1] ELSE get_into_line(h[j - 1], ws[j])
    <3>1. CASE j = k + 1
      <4>1. j # 0 /\ j - 1 = k /\ k \in 0..k
        BY <3>1
      <4>2. h[j - 1] = g[k] /\ h[j] = x
        BY <2>4, <3>1, <4>1
      <4>3. QED BY <2>2, <3>1, <4>1, <4>2
    <3>2. CASE j # k + 1
      <4>1. j \in 0..k /\ (j # 0 => j - 1 \in 0..k)
        BY <3>2
      <4>2. h[j] = g[j] /\ (j # 0 => h[j - 1] = g[j - 1])
        BY <2>4, <4>1
      <4>3. g[j] = IF j = 0 THEN L
                   ELSE IF ws[j] \in L.in_line THEN g[j - 1] ELSE get_into_line(g[j - 1], ws[j])
        BY <2>1, <4>1 DEF Joins
      <4>4. QED BY <4>2, <4>3
    <3>3. QED BY <3>1, <3>2
  <2>6. h = [j \in 0..(k + 1) |-> h[j]]
    BY <2>3
  <2>7. Joins(L, ws, k + 1, h)
    BY <2>5, <2>6 DEF Joins
  <2>8. k + 1 \in 0..n
    OBVIOUS
  <2>9. QED BY <1>1, <2>7, <2>8
<1>4. \A k \in 0..n : k \in P
  BY <1>2, <1>3, UpTo
<1>5. n \in 0..n
  OBVIOUS
<1>6. QED BY <1>1, <1>4, <1>5

\* Step by step.
LEMMA JoinsIs ==
  ASSUME NEW L, NEW c, NEW ws, ws = Syncers(c), Len(ws) \in Nat
  PROVE  \E g : /\ g[0] = L /\ Join(L, c) = g[Len(ws)]
               /\ \A k \in 1..Len(ws) : g[k] = IF ws[k] \in L.in_line THEN g[k - 1] ELSE get_into_line(g[k - 1], ws[k])
<1>1. PICK g : g = CHOOSE f : Joins(L, ws, Len(ws), f)
  OBVIOUS
<1>2. Joins(L, ws, Len(ws), g)
  BY <1>1, JoinsExists
<1>3. Join(L, c) = g[Len(ws)]
  BY <1>1 DEF Join, Joins
<1>4. PICK m \in Nat : m = Len(ws)
  OBVIOUS
<1>5. g = [k \in 0..m |-> IF k = 0 THEN L
                          ELSE IF ws[k] \in L.in_line THEN g[k - 1] ELSE get_into_line(g[k - 1], ws[k])]
  BY <1>2, <1>4 DEF Joins
<1>6. g[0] = L
  BY <1>5
<1>7. \A k \in 1..m : g[k] = IF ws[k] \in L.in_line THEN g[k - 1] ELSE get_into_line(g[k - 1], ws[k])
  <2>1. SUFFICES ASSUME NEW k \in 1..m PROVE g[k] = IF ws[k] \in L.in_line THEN g[k - 1] ELSE get_into_line(g[k - 1], ws[k])
    OBVIOUS
  <2>2. k \in 0..m /\ k # 0
    OBVIOUS
  <2>3. g[k] = IF k = 0 THEN L ELSE IF ws[k] \in L.in_line THEN g[k - 1] ELSE get_into_line(g[k - 1], ws[k])
    BY <1>5, <2>2
  <2>4. QED BY <2>2, <2>3
<1>8. QED BY <1>3, <1>4, <1>6, <1>7

\* The function inside Poll.
Polls(L, order, joins, n, g) ==
  g = [k \in 0..n |-> IF k = 0 THEN [links |-> L, ready |-> Null, taker |-> Null, seen |-> {}]
                      ELSE IF g[k - 1].ready # Null THEN g[k - 1] ELSE Polled(g[k - 1], order[k], joins)]

\* It exists.
LEMMA PollsExists ==
  ASSUME NEW L, NEW order, NEW joins, NEW n \in Nat
  PROVE  \E g : Polls(L, order, joins, n, g)
<1>1. PICK P : P = {k \in 0..n : \E g : Polls(L, order, joins, k, g)}
  OBVIOUS
<1>2. 0 \in P
  <2>1. PICK g : g = [k \in 0..0 |-> [links |-> L, ready |-> Null, taker |-> Null, seen |-> {}]]
    OBVIOUS
  <2>2. \A k \in 0..0 : k = 0
    OBVIOUS
  <2>3. Polls(L, order, joins, 0, g)
    BY <2>1, <2>2 DEF Polls
  <2>4. 0 \in 0..n
    OBVIOUS
  <2>5. QED BY <1>1, <2>3, <2>4
<1>3. ASSUME NEW k \in 0..(n - 1), k \in P
      PROVE  k + 1 \in P
  <2>1. PICK g : Polls(L, order, joins, k, g)
    BY <1>1, <1>3
  <2>2. PICK x : x = IF g[k].ready # Null THEN g[k] ELSE Polled(g[k], order[k + 1], joins)
    OBVIOUS
  <2>3. PICK h : h = [j \in 0..(k + 1) |-> IF j = k + 1 THEN x ELSE g[j]]
    OBVIOUS
  <2>4. h[k + 1] = x /\ \A j \in 0..k : h[j] = g[j]
    BY <2>3
  <2>5. ASSUME NEW j \in 0..(k + 1)
        PROVE  h[j] = IF j = 0 THEN [links |-> L, ready |-> Null, taker |-> Null, seen |-> {}]
                      ELSE IF h[j - 1].ready # Null THEN h[j - 1] ELSE Polled(h[j - 1], order[j], joins)
    <3>1. CASE j = k + 1
      <4>1. j # 0 /\ j - 1 = k /\ k \in 0..k
        BY <3>1
      <4>2. h[j - 1] = g[k] /\ h[j] = x
        BY <2>4, <3>1, <4>1
      <4>3. QED BY <2>2, <3>1, <4>1, <4>2
    <3>2. CASE j # k + 1
      <4>1. j \in 0..k /\ (j # 0 => j - 1 \in 0..k)
        BY <3>2
      <4>2. h[j] = g[j] /\ (j # 0 => h[j - 1] = g[j - 1])
        BY <2>4, <4>1
      <4>3. g[j] = IF j = 0 THEN [links |-> L, ready |-> Null, taker |-> Null, seen |-> {}]
                   ELSE IF g[j - 1].ready # Null THEN g[j - 1] ELSE Polled(g[j - 1], order[j], joins)
        BY <2>1, <4>1 DEF Polls
      <4>4. QED BY <4>2, <4>3
    <3>3. QED BY <3>1, <3>2
  <2>6. h = [j \in 0..(k + 1) |-> h[j]]
    BY <2>3
  <2>7. Polls(L, order, joins, k + 1, h)
    BY <2>5, <2>6 DEF Polls
  <2>8. k + 1 \in 0..n
    OBVIOUS
  <2>9. QED BY <1>1, <2>7, <2>8
<1>4. \A k \in 0..n : k \in P
  BY <1>2, <1>3, UpTo
<1>5. n \in 0..n
  OBVIOUS
<1>6. QED BY <1>1, <1>4, <1>5

\* Step by step.
LEMMA PollsIs ==
  ASSUME NEW c, NEW s, NEW L, L = links, NEW order, order = Rotated(c, s), NEW joins, Len(order) \in Nat
  PROVE  \E g : /\ g[0] = [links |-> L, ready |-> Null, taker |-> Null, seen |-> {}] /\ Poll(c, s, joins) = g[Len(order)]
               /\ \A k \in 1..Len(order) : g[k] = IF g[k - 1].ready # Null THEN g[k - 1] ELSE Polled(g[k - 1], order[k], joins)
<1>1. PICK g : g = CHOOSE f : Polls(L, order, joins, Len(order), f)
  OBVIOUS
<1>2. Polls(L, order, joins, Len(order), g)
  BY <1>1, PollsExists
<1>3. Poll(c, s, joins) = g[Len(order)]
  BY <1>1 DEF Poll, Polls
<1>4. PICK m \in Nat : m = Len(order)
  OBVIOUS
<1>5. g = [k \in 0..m |-> IF k = 0 THEN [links |-> L, ready |-> Null, taker |-> Null, seen |-> {}]
                          ELSE IF g[k - 1].ready # Null THEN g[k - 1] ELSE Polled(g[k - 1], order[k], joins)]
  BY <1>2, <1>4 DEF Polls
<1>6. g[0] = [links |-> L, ready |-> Null, taker |-> Null, seen |-> {}]
  BY <1>5
<1>7. \A k \in 1..m : g[k] = IF g[k - 1].ready # Null THEN g[k - 1] ELSE Polled(g[k - 1], order[k], joins)
  <2>1. SUFFICES ASSUME NEW k \in 1..m PROVE g[k] = IF g[k - 1].ready # Null THEN g[k - 1] ELSE Polled(g[k - 1], order[k], joins)
    OBVIOUS
  <2>2. k \in 0..m /\ k # 0
    OBVIOUS
  <2>3. g[k] = IF k = 0 THEN [links |-> L, ready |-> Null, taker |-> Null, seen |-> {}] ELSE IF g[k - 1].ready # Null THEN g[k - 1] ELSE Polled(g[k - 1], order[k], joins)
    BY <1>5, <2>2
  <2>4. QED BY <2>2, <2>3
<1>8. QED BY <1>3, <1>4, <1>6, <1>7

\* The function inside Serve.
Serves(L, line, n, g) ==
  g = [k \in 0..n |-> IF k = 0 THEN [links |-> L, takers |-> {}, left |-> 1]
                      ELSE Served(g[k - 1], line[k])]

\* It exists.
LEMMA ServesExists ==
  ASSUME NEW L, NEW line, NEW n \in Nat
  PROVE  \E g : Serves(L, line, n, g)
<1>1. PICK P : P = {k \in 0..n : \E g : Serves(L, line, k, g)}
  OBVIOUS
<1>2. 0 \in P
  <2>1. PICK g : g = [k \in 0..0 |-> [links |-> L, takers |-> {}, left |-> 1]]
    OBVIOUS
  <2>2. \A k \in 0..0 : k = 0
    OBVIOUS
  <2>3. Serves(L, line, 0, g)
    BY <2>1, <2>2 DEF Serves
  <2>4. 0 \in 0..n
    OBVIOUS
  <2>5. QED BY <1>1, <2>3, <2>4
<1>3. ASSUME NEW k \in 0..(n - 1), k \in P
      PROVE  k + 1 \in P
  <2>1. PICK g : Serves(L, line, k, g)
    BY <1>1, <1>3
  <2>2. PICK x : x = Served(g[k], line[k + 1])
    OBVIOUS
  <2>3. PICK h : h = [j \in 0..(k + 1) |-> IF j = k + 1 THEN x ELSE g[j]]
    OBVIOUS
  <2>4. h[k + 1] = x /\ \A j \in 0..k : h[j] = g[j]
    BY <2>3
  <2>5. ASSUME NEW j \in 0..(k + 1)
        PROVE  h[j] = IF j = 0 THEN [links |-> L, takers |-> {}, left |-> 1]
                      ELSE Served(h[j - 1], line[j])
    <3>1. CASE j = k + 1
      <4>1. j # 0 /\ j - 1 = k /\ k \in 0..k
        BY <3>1
      <4>2. h[j - 1] = g[k] /\ h[j] = x
        BY <2>4, <3>1, <4>1
      <4>3. QED BY <2>2, <3>1, <4>1, <4>2
    <3>2. CASE j # k + 1
      <4>1. j \in 0..k /\ (j # 0 => j - 1 \in 0..k)
        BY <3>2
      <4>2. h[j] = g[j] /\ (j # 0 => h[j - 1] = g[j - 1])
        BY <2>4, <4>1
      <4>3. g[j] = IF j = 0 THEN [links |-> L, takers |-> {}, left |-> 1]
                   ELSE Served(g[j - 1], line[j])
        BY <2>1, <4>1 DEF Serves
      <4>4. QED BY <4>2, <4>3
    <3>3. QED BY <3>1, <3>2
  <2>6. h = [j \in 0..(k + 1) |-> h[j]]
    BY <2>3
  <2>7. Serves(L, line, k + 1, h)
    BY <2>5, <2>6 DEF Serves
  <2>8. k + 1 \in 0..n
    OBVIOUS
  <2>9. QED BY <1>1, <2>7, <2>8
<1>4. \A k \in 0..n : k \in P
  BY <1>2, <1>3, UpTo
<1>5. n \in 0..n
  OBVIOUS
<1>6. QED BY <1>1, <1>4, <1>5

\* Step by step.
LEMMA ServesIs ==
  ASSUME NEW s, NEW L, L = links, NEW line, line = Walk(links, [kind |-> "sema", on |-> s]), Len(line) \in Nat
  PROVE  \E g : /\ g[0] = [links |-> L, takers |-> {}, left |-> 1] /\ Serve(s) = g[Len(line)]
               /\ \A k \in 1..Len(line) : g[k] = Served(g[k - 1], line[k])
<1>1. PICK g : g = CHOOSE f : Serves(L, line, Len(line), f)
  OBVIOUS
<1>2. Serves(L, line, Len(line), g)
  BY <1>1, ServesExists
<1>3. Serve(s) = g[Len(line)]
  BY <1>1 DEF Serve, Serves
<1>4. PICK m \in Nat : m = Len(line)
  OBVIOUS
<1>5. g = [k \in 0..m |-> IF k = 0 THEN [links |-> L, takers |-> {}, left |-> 1]
                          ELSE Served(g[k - 1], line[k])]
  BY <1>2, <1>4 DEF Serves
<1>6. g[0] = [links |-> L, takers |-> {}, left |-> 1]
  BY <1>5
<1>7. \A k \in 1..m : g[k] = Served(g[k - 1], line[k])
  <2>1. SUFFICES ASSUME NEW k \in 1..m PROVE g[k] = Served(g[k - 1], line[k])
    OBVIOUS
  <2>2. k \in 0..m /\ k # 0
    OBVIOUS
  <2>3. g[k] = IF k = 0 THEN [links |-> L, takers |-> {}, left |-> 1] ELSE Served(g[k - 1], line[k])
    BY <1>5, <2>2
  <2>4. QED BY <2>2, <2>3
<1>8. QED BY <1>3, <1>4, <1>6, <1>7

\* Among those of ws up to the k-th.
UpToIn(ws, S, k) == {w \in S : \E j \in 1..k : ws[j] = w}

\* Those in line get out of line.
LEMMA OutOfLinesSorted ==
  ASSUME program \in Programs, NEW L, NEW pos, NEW B, Sorted(L, pos, B), Alone(L),
         NEW ws, NEW S, NEW n \in Nat, n = Len(ws),
         \A j \in 1..n : ws[j] \in S => ws[j] \in L.in_line,
         \A j, k \in 1..n : ws[j] = ws[k] => j = k
  PROVE  /\ Sorted(OutOfLines(L, ws, S), pos, B) /\ Alone(OutOfLines(L, ws, S))
         /\ OutOfLines(L, ws, S).in_line = L.in_line \ UpToIn(ws, S, n)
<1>1. PICK g : /\ g[0] = L /\ OutOfLines(L, ws, S) = g[n]
               /\ \A k \in 1..n : g[k] = IF ws[k] \in S THEN get_outof_line(g[k - 1], ws[k])
                                         ELSE g[k - 1]
  BY OutsIs
<1>2. PICK P : P = {k \in 0..n : /\ Sorted(g[k], pos, B) /\ Alone(g[k])
                                /\ g[k].in_line = L.in_line \ UpToIn(ws, S, k)}
  OBVIOUS
<1>3. 0 \in P
  <2>1. UpToIn(ws, S, 0) = {} /\ 0 \in 0..n
    BY DEF UpToIn
  <2>2. QED BY <1>1, <1>2, <2>1
<1>4. ASSUME NEW k \in 0..(n - 1), k \in P
      PROVE  k + 1 \in P
  <2>1. /\ Sorted(g[k], pos, B) /\ Alone(g[k])
        /\ g[k].in_line = L.in_line \ UpToIn(ws, S, k)
    BY <1>2, <1>4
  <2>2. k + 1 \in 1..n /\ (k + 1) - 1 = k /\ k + 1 \in 0..n
    OBVIOUS
  <2>3. g[k + 1] = IF ws[k + 1] \in S THEN get_outof_line(g[k], ws[k + 1]) ELSE g[k]
    BY <1>1, <2>2
  <2>4. \A j \in 1..(k + 1) : j \in 1..k \/ j = k + 1
    OBVIOUS
  <2>5. \A j \in 1..k : j \in 1..n /\ j # k + 1 /\ j \in 1..(k + 1)
    OBVIOUS
  <2>6. k + 1 \in 1..(k + 1)
    OBVIOUS
  <2>7. CASE ws[k + 1] \in S
    <3>1. PICK w : w = ws[k + 1]
      OBVIOUS
    <3>2. w \in g[k].in_line
      BY <2>1, <2>2, <2>5, <2>7, <3>1 DEF UpToIn
    <3>3. Sorted(g[k + 1], pos, B) /\ g[k + 1].in_line = g[k].in_line \ {w}
      BY <2>1, <2>3, <2>7, <3>1, <3>2, OutSorted
    <3>4. Alone(g[k + 1])
      BY <2>1, <2>3, <2>7, <3>1, <3>2, OutAlone
    <3>5. UpToIn(ws, S, k + 1) = UpToIn(ws, S, k) \cup {w}
      BY <2>4, <2>5, <2>6, <2>7, <3>1 DEF UpToIn
    <3>6. g[k + 1].in_line = L.in_line \ UpToIn(ws, S, k + 1)
      BY <2>1, <3>3, <3>5
    <3>7. QED BY <1>2, <2>2, <3>3, <3>4, <3>6
  <2>8. CASE ws[k + 1] \notin S
    <3>1. UpToIn(ws, S, k + 1) = UpToIn(ws, S, k)
      BY <2>4, <2>5, <2>8 DEF UpToIn
    <3>2. QED BY <1>2, <2>1, <2>2, <2>3, <2>8, <3>1
  <2>9. QED BY <2>7, <2>8
<1>5. \A k \in 0..n : k \in P
  BY <1>3, <1>4, UpTo
<1>6. n \in P
  BY <1>5
<1>7. QED BY <1>1, <1>2, <1>6

\* Those of different lines, in line or gone, get out of line and are gone.
LEMMA OutOfLinesGone ==
  ASSUME program \in Programs, NEW L, NEW pos, NEW B, Sorted(L, pos, B), Alone(L),
         NEW ws, NEW S, NEW n \in Nat, n = Len(ws),
         \A j \in 1..n : ws[j] \in S => /\ ws[j] \in Syncer /\ Real(ws[j])
                                        /\ ws[j] \in L.in_line \/ Gone(L, ws[j]),
         \A j, k \in 1..n : ws[j] \in S /\ ws[k] \in S /\ LineOf(ws[j]) = LineOf(ws[k]) => j = k
  PROVE  /\ Sorted(OutOfLines(L, ws, S), pos, B) /\ Alone(OutOfLines(L, ws, S))
         /\ OutOfLines(L, ws, S).in_line = L.in_line \ UpToIn(ws, S, n)
         /\ \A j \in 1..n : ws[j] \in S => Gone(OutOfLines(L, ws, S), ws[j])
<1>1. PICK g : /\ g[0] = L /\ OutOfLines(L, ws, S) = g[n]
               /\ \A k \in 1..n : g[k] = IF ws[k] \in S THEN get_outof_line(g[k - 1], ws[k])
                                         ELSE g[k - 1]
  BY OutsIs
<1>2. PICK P : P = {k \in 0..n :
         /\ Sorted(g[k], pos, B) /\ Alone(g[k])
         /\ g[k].in_line = L.in_line \ UpToIn(ws, S, k)
         /\ \A j \in 1..n : ws[j] \in S =>
              Gone(g[k], ws[j]) \/ (j > k /\ ws[j] \in g[k].in_line)}
  OBVIOUS
<1>3. 0 \in P
  <2>1. UpToIn(ws, S, 0) = {} /\ 0 \in 0..n /\ \A j \in 1..n : j > 0
    BY DEF UpToIn
  <2>2. QED BY <1>1, <1>2, <2>1
<1>4. ASSUME NEW k \in 0..(n - 1), k \in P
      PROVE  k + 1 \in P
  <2>1. /\ Sorted(g[k], pos, B) /\ Alone(g[k])
        /\ g[k].in_line = L.in_line \ UpToIn(ws, S, k)
        /\ \A j \in 1..n : ws[j] \in S =>
             Gone(g[k], ws[j]) \/ (j > k /\ ws[j] \in g[k].in_line)
    BY <1>2, <1>4
  <2>2. k + 1 \in 1..n /\ (k + 1) - 1 = k /\ k + 1 \in 0..n
    OBVIOUS
  <2>3. g[k + 1] = IF ws[k + 1] \in S THEN get_outof_line(g[k], ws[k + 1]) ELSE g[k]
    BY <1>1, <2>2
  <2>4. \A j \in 1..(k + 1) : j \in 1..k \/ j = k + 1
    OBVIOUS
  <2>5. \A j \in 1..k : j \in 1..n /\ j # k + 1 /\ j \in 1..(k + 1)
    OBVIOUS
  <2>6. k + 1 \in 1..(k + 1) /\ \A j \in 1..n : j > k /\ j # k + 1 => j > k + 1
    OBVIOUS
  <2>7. CASE ws[k + 1] \in S
    <3>1. PICK w : w = ws[k + 1]
      OBVIOUS
    <3>2. w \in Syncer /\ Real(w)
      BY <2>2, <2>7, <3>1
    <3>3. UpToIn(ws, S, k + 1) = UpToIn(ws, S, k) \cup {w}
      BY <2>4, <2>5, <2>6, <2>7, <3>1 DEF UpToIn
    <3>4. CASE w \in g[k].in_line
      <4>1. Sorted(g[k + 1], pos, B) /\ g[k + 1].in_line = g[k].in_line \ {w}
        BY <2>1, <2>3, <2>7, <3>1, <3>4, OutSorted
      <4>2. Alone(g[k + 1])
        BY <2>1, <2>3, <2>7, <3>1, <3>4, OutAlone
      <4>3. g[k + 1].in_line = L.in_line \ UpToIn(ws, S, k + 1)
        BY <2>1, <3>3, <4>1
      <4>4. ASSUME NEW j \in 1..n, ws[j] \in S
            PROVE  Gone(g[k + 1], ws[j]) \/ (j > k + 1 /\ ws[j] \in g[k + 1].in_line)
        <5>1. PICK x \in Syncer : x = ws[j] /\ Real(x)
          BY <4>4
        <5>2. CASE j = k + 1
          <6>1. Gone(g[k + 1], w)
            BY <2>1, <2>3, <2>7, <3>1, <3>4, OutGone
          <6>2. QED BY <3>1, <5>2, <6>1
        <5>3. CASE j # k + 1
          <6>1. LineOf(x) # LineOf(w)
            BY <2>2, <2>7, <3>1, <4>4, <5>1, <5>3
          <6>2. CASE Gone(g[k], x)
            <7>1. Gone(get_outof_line(g[k], w), x)
              BY <2>1, <3>4, <5>1, <6>1, <6>2, GoneKept
            <7>2. QED BY <2>3, <2>7, <3>1, <5>1, <7>1
          <6>3. CASE j > k /\ x \in g[k].in_line
            BY <2>6, <4>1, <5>1, <5>3, <6>1, <6>3
          <6>4. QED BY <2>1, <4>4, <5>1, <6>2, <6>3
        <5>4. QED BY <5>2, <5>3
      <4>5. QED BY <1>2, <2>2, <4>1, <4>2, <4>3, <4>4
    <3>5. CASE w \notin g[k].in_line
      <4>1. Gone(g[k], w)
        BY <2>1, <2>2, <2>7, <3>1, <3>5
      <4>2. g[k] \in Links
        BY <2>1 DEF Sorted
      <4>3. g[k + 1] = g[k]
        BY <2>3, <2>7, <3>1, <3>2, <4>1, <4>2, GoneOut
      <4>4. g[k].in_line = L.in_line \ UpToIn(ws, S, k + 1)
        BY <2>1, <3>3, <3>5
      <4>5. \A j \in 1..n : ws[j] \in S =>
              Gone(g[k], ws[j]) \/ (j > k + 1 /\ ws[j] \in g[k].in_line)
        BY <2>1, <2>6, <3>1, <4>1
      <4>6. QED BY <1>2, <2>1, <2>2, <4>3, <4>4, <4>5
    <3>6. QED BY <3>4, <3>5
  <2>8. CASE ws[k + 1] \notin S
    <3>1. UpToIn(ws, S, k + 1) = UpToIn(ws, S, k)
      BY <2>4, <2>5, <2>8 DEF UpToIn
    <3>2. \A j \in 1..n : ws[j] \in S =>
            Gone(g[k], ws[j]) \/ (j > k + 1 /\ ws[j] \in g[k].in_line)
      BY <2>1, <2>6, <2>8
    <3>3. QED BY <1>2, <2>1, <2>2, <2>3, <2>8, <3>1, <3>2
  <2>9. QED BY <2>7, <2>8
<1>5. \A k \in 0..n : k \in P
  BY <1>3, <1>4, UpTo
<1>6. n \in P /\ \A j \in 1..n : ~(j > n)
  BY <1>5
<1>7. QED BY <1>1, <1>2, <1>6

-----------------------------------------------------------------------------
\* The syncers of a call.

\* The syncers of a sync are those of its events.
LEMMA SyncersIs ==
  ASSUME program \in Programs, NEW c \in Call, Made(c)
  PROVE  /\ Len(Syncers(c)) = Len(SyncOf(c).evts) /\ Len(Syncers(c)) \in Nat
         /\ DOMAIN Syncers(c) = 1..Len(Syncers(c))
         /\ \A i \in 1..Len(Syncers(c)) :
              /\ Syncers(c)[i] \in Syncer /\ Real(Syncers(c)[i]) /\ CallOf(Syncers(c)[i]) = c
              /\ Syncers(c)[i][3] = i
         /\ \A w \in Syncer : Real(w) /\ CallOf(w) = c =>
              w[3] \in 1..Len(Syncers(c)) /\ Syncers(c)[w[3]] = w
         /\ ToSet(Syncers(c)) = {w \in Syncer : Real(w) /\ CallOf(w) = c}
<1>1. PICK n \in Nat : n = Len(SyncOf(c).evts) /\ n \in 1..MaxEvts
  BY SyncIs, ConstantsAssumption
<1>2. Syncers(c) = [i \in 1..n |-> <<c[1], c[2], i>>]
  BY <1>1 DEF Syncers
<1>3. PICK s : s = Syncers(c)
  OBVIOUS
<1>4. DOMAIN s = 1..n /\ Len(s) = n
  BY <1>2, <1>3
<1>5. c[1] \in Thread /\ c[2] \in 1..MaxCalls /\ c = <<c[1], c[2]>>
  BY DEF Call
<1>6. \A i \in 1..n : i \in 1..MaxEvts
  BY <1>1, ConstantsAssumption
<1>7. ASSUME NEW i \in 1..n
      PROVE  s[i] \in Syncer /\ Real(s[i]) /\ CallOf(s[i]) = c /\ s[i][3] = i
  <2>1. s[i] = <<c[1], c[2], i>>
    BY <1>2, <1>3
  <2>2. s[i] \in Syncer
    BY <1>5, <1>6, <2>1 DEF Syncer
  <2>3. CallOf(s[i]) = c /\ s[i][3] = i
    BY <1>5, <2>1 DEF CallOf
  <2>4. QED BY <1>1, <2>2, <2>3 DEF Real
<1>8. ASSUME NEW w \in Syncer, Real(w), CallOf(w) = c
      PROVE  w[3] \in 1..n /\ s[w[3]] = w
  <2>1. w[3] \in 1..n
    BY <1>1, <1>8, EvtIs
  <2>2. w = <<c[1], c[2], w[3]>>
    BY <1>8, SyncerIs
  <2>3. QED BY <1>2, <1>3, <2>1, <2>2
<1>9. ToSet(s) = {w \in Syncer : Real(w) /\ CallOf(w) = c}
  BY <1>4, <1>7, <1>8 DEF ToSet
<1>10. QED BY <1>1, <1>3, <1>4, <1>7, <1>8, <1>9

\* All syncers of c in S get out of line.
OfCall(c) == {w \in Syncer : Real(w) /\ CallOf(w) = c}

\* All of them, among those of S.
LEMMA UpToSyncers ==
  ASSUME program \in Programs, NEW c \in Call, Made(c), NEW S
  PROVE  UpToIn(Syncers(c), S, Len(Syncers(c))) = S \cap OfCall(c)
<1>1. PICK s, n : s = Syncers(c) /\ n = Len(s)
  OBVIOUS
<1>2. /\ \A i \in 1..n : s[i] \in Syncer /\ Real(s[i]) /\ CallOf(s[i]) = c
      /\ \A w \in Syncer : Real(w) /\ CallOf(w) = c => w[3] \in 1..n /\ s[w[3]] = w
  BY <1>1, SyncersIs
<1>3. UpToIn(s, S, n) = S \cap OfCall(c)
  BY <1>2 DEF UpToIn, OfCall
<1>4. QED BY <1>1, <1>3

\* Leave: none of c stays in line.
LEMMA LeaveSorted ==
  ASSUME program \in Programs, NEW L, NEW pos, NEW B, Sorted(L, pos, B), Alone(L),
         NEW c \in Call, Made(c)
  PROVE  /\ Sorted(Leave(L, c), pos, B) /\ Alone(Leave(L, c))
         /\ Leave(L, c).in_line = L.in_line \ OfCall(c)
<1>1. PICK s, n, S : s = Syncers(c) /\ n = Len(s) /\ S = L.in_line
  OBVIOUS
<1>2. n \in Nat /\ \A i \in 1..n : s[i] \in Syncer /\ s[i][3] = i
  BY <1>1, SyncersIs
<1>3. \A j, k \in 1..n : s[j] = s[k] => j = k
  BY <1>2
<1>4. /\ Sorted(OutOfLines(L, s, S), pos, B) /\ Alone(OutOfLines(L, s, S))
      /\ OutOfLines(L, s, S).in_line = L.in_line \ UpToIn(s, S, n)
  <2>1. n \in Nat
    BY <1>2
  <2>2. n = Len(s)
    BY <1>1
  <2>3. \A j \in 1..n : s[j] \in S => s[j] \in L.in_line
    BY <1>1
  <2>4. Sorted(OutOfLines(L, s, S), pos, B)
    BY <1>3, <2>1, <2>2, <2>3, OutOfLinesSorted
  <2>5. Alone(OutOfLines(L, s, S))
    BY <1>3, <2>1, <2>2, <2>3, OutOfLinesSorted
  <2>6. OutOfLines(L, s, S).in_line = L.in_line \ UpToIn(s, S, n)
    BY <1>3, <2>1, <2>2, <2>3, OutOfLinesSorted
  <2>7. QED BY <2>4, <2>5, <2>6
<1>5. UpToIn(s, S, n) = S \cap OfCall(c)
  BY <1>1, UpToSyncers
<1>6. QED BY <1>1, <1>4, <1>5 DEF Leave

\* The lines are as they should be.
Good(L) == \E pos, B : Sorted(L, pos, B) /\ Alone(L)

\* What Good says of the parts of the links.
LEMMA GoodIs ==
  ASSUME NEW L, Good(L)
  PROVE  /\ L \in Links /\ L.in_line \in SUBSET Syncer /\ \A w \in L.in_line : Real(w)
<1>1. PICK pos, B : Sorted(L, pos, B)
  BY DEF Good
<1>2. QED BY <1>1 DEF Sorted, Links

\* What Apart says of one event of a channel.
LEMMA ApartIs ==
  ASSUME NEW p, Apart(p), NEW t \in Thread, NEW k \in 1..Len(p[t].syncs),
         Defers(p[t].syncs[k]), NEW i \in 1..Len(p[t].syncs[k].evts),
         p[t].syncs[k].evts[i].kind \in {"get", "put"}
  PROVE  /\ \A j \in 1..Len(p[t].syncs[k].evts) :
              p[t].syncs[k].evts[j] = p[t].syncs[k].evts[i] => j = i
         /\ p[t].signals # {} =>
              \A u \in Thread \ {t} : \A l \in 1..Len(p[u].syncs) :
                \A j \in 1..Len(p[u].syncs[l].evts) :
                  p[u].syncs[l].evts[j] # p[t].syncs[k].evts[i]
BY DEF Apart

\* Channel syncers of one polled sync stand in different lines.
LEMMA PolledApart ==
  ASSUME program \in Programs, Apart(program), NEW c \in Call, Made(c), Deferred(c),
         NEW w \in OfCall(c), NEW x \in OfCall(c), ~OnSema(w), LineOf(x) = LineOf(w)
  PROVE  x = w
<1>1. PICK prog, t, k : prog = program /\ t = c[1] /\ k = c[2]
  OBVIOUS
<1>2. /\ w \in Syncer /\ x \in Syncer /\ Real(w) /\ Real(x) /\ CallOf(w) = c /\ CallOf(x) = c
  BY DEF OfCall
<1>3. LineOf(w) = EvtOf(w) /\ EvtOf(w).kind \in {"get", "put"}
  BY <1>2, EvtIs
<1>4. ~OnSema(x)
  <2>1. SUFFICES ASSUME OnSema(x) PROVE FALSE
    OBVIOUS
  <2>2. LineOf(x) = [kind |-> "sema", on |-> EvtOf(x).on]
    BY <1>2, <2>1, EvtIs
  <2>3. LineOf(x).kind = "sema"
    BY <2>2
  <2>4. QED BY <1>3, <2>3
<1>5. EvtOf(x) = EvtOf(w)
  BY <1>2, <1>3, <1>4, EvtIs
<1>6. t \in Thread /\ k \in 1..Len(prog[t].syncs) /\ SyncOf(c) = prog[t].syncs[k]
  <2>1. t \in Thread /\ k \in 1..MaxCalls
    BY <1>1 DEF Call
  <2>2. k <= Len(prog[t].syncs)
    BY <1>1 DEF Made
  <2>3. prog \in [Thread -> Program]
    BY <1>1, ConstantsAssumption
  <2>4. Len(prog[t].syncs) \in Nat
    BY <2>1, <2>3 DEF Program
  <2>5. SyncOf(c) = prog[t].syncs[k]
    BY <1>1 DEF SyncOf
  <2>6. QED BY <2>1, <2>2, <2>4, <2>5, ConstantsAssumption
<1>7. PICK evts : evts = prog[t].syncs[k].evts
  OBVIOUS
<1>8. w[3] \in 1..Len(evts) /\ x[3] \in 1..Len(evts)
  BY <1>2, <1>6, <1>7, EvtIs
<1>9. EvtOf(w) = evts[w[3]] /\ EvtOf(x) = evts[x[3]]
  BY <1>2, <1>6, <1>7 DEF EvtOf
<1>10. Defers(prog[t].syncs[k])
  BY <1>6 DEF Deferred
<1>11. \A i, j \in 1..Len(evts) : evts[i].kind \in {"get", "put"} /\ evts[i] = evts[j] => i = j
  <2>1. Apart(prog)
    BY <1>1
  <2>2. prog[t].syncs[k].evts = evts
    BY <1>7
  <2>3. QED BY <1>6, <1>10, <2>1, <2>2, ApartIs
<1>12. x[3] = w[3]
  BY <1>3, <1>5, <1>8, <1>9, <1>11
<1>13. x = <<c[1], c[2], x[3]>> /\ w = <<c[1], c[2], w[3]>>
  BY <1>2, SyncerIs
<1>14. QED BY <1>12, <1>13

\* Nobody but its own thread, in another sync, can stand in the line of a lonely one.
LEMMA LonelyApart ==
  ASSUME program \in Programs, Apart(program), NEW w \in Syncer, Lonely(w),
         NEW x \in Syncer, Real(x), LineOf(x) = LineOf(w), x # w
  PROVE  x[1] = w[1] /\ CallOf(x) # CallOf(w)
<1>1. /\ Real(w) /\ Deferred(CallOf(w)) /\ ~OnSema(w) /\ program[w[1]].signals # {}
  BY DEF Lonely
<1>2. CallOf(w) \in Call /\ CallOf(w)[1] = w[1] /\ CallOf(w)[2] = w[2]
      /\ CallOf(x) \in Call /\ CallOf(x)[1] = x[1] /\ CallOf(x)[2] = x[2]
  BY SyncerIs
<1>3. CallOf(x) # CallOf(w)
  <2>1. SUFFICES ASSUME CallOf(x) = CallOf(w) PROVE FALSE
    OBVIOUS
  <2>2. Made(CallOf(w)) /\ w \in OfCall(CallOf(w)) /\ x \in OfCall(CallOf(w))
    BY <1>1, <2>1 DEF Real, OfCall
  <2>3. QED BY <1>1, <1>2, <2>2, PolledApart
<1>4. x[1] = w[1]
  <2>1. SUFFICES ASSUME x[1] # w[1] PROVE FALSE
    OBVIOUS
  <2>2. LineOf(w) = EvtOf(w) /\ EvtOf(w).kind \in {"get", "put"}
    BY <1>1, EvtIs
  <2>3. ~OnSema(x)
    <3>1. SUFFICES ASSUME OnSema(x) PROVE FALSE
      OBVIOUS
    <3>2. LineOf(x) = [kind |-> "sema", on |-> EvtOf(x).on]
      BY <3>1, EvtIs
    <3>3. LineOf(x).kind = "sema"
      BY <3>2
    <3>4. QED BY <2>2, <3>3
  <2>4. EvtOf(x) = EvtOf(w)
    BY <2>2, <2>3, EvtIs
  <2>5. PICK prog, t, k, u, l : prog = program /\ t = w[1] /\ k = w[2] /\ u = x[1] /\ l = x[2]
    OBVIOUS
  <2>6. t \in Thread /\ u \in Thread /\ u # t
    BY <2>1, <2>5, SyncerIs
  <2>7. /\ k \in 1..Len(prog[t].syncs) /\ SyncOf(CallOf(w)) = prog[t].syncs[k]
        /\ l \in 1..Len(prog[u].syncs) /\ SyncOf(CallOf(x)) = prog[u].syncs[l]
    <3>1. k \in 1..MaxCalls /\ l \in 1..MaxCalls
      BY <2>5, SyncerIs
    <3>2. k <= Len(prog[t].syncs) /\ l <= Len(prog[u].syncs)
      BY <1>1, <1>2, <2>5 DEF Made, Real
    <3>3. prog \in [Thread -> Program]
      BY <2>5, ConstantsAssumption
    <3>4. Len(prog[t].syncs) \in Nat /\ Len(prog[u].syncs) \in Nat
      BY <2>6, <3>3 DEF Program
    <3>5. SyncOf(CallOf(w)) = prog[t].syncs[k] /\ SyncOf(CallOf(x)) = prog[u].syncs[l]
      BY <1>2, <2>5 DEF SyncOf
    <3>6. QED BY <3>1, <3>2, <3>4, <3>5, ConstantsAssumption
  <2>8. PICK evts, others : evts = prog[t].syncs[k].evts /\ others = prog[u].syncs[l].evts
    OBVIOUS
  <2>9. /\ w[3] \in 1..Len(evts) /\ EvtOf(w) = evts[w[3]]
        /\ x[3] \in 1..Len(others) /\ EvtOf(x) = others[x[3]]
    BY <1>1, <2>7, <2>8, EvtIs DEF EvtOf
  <2>10. Defers(prog[t].syncs[k]) /\ prog[t].signals # {}
    BY <1>1, <2>5, <2>7 DEF Deferred
  <2>11. others[x[3]] # evts[w[3]]
    <3>1. Apart(prog)
      BY <2>5
    <3>2. /\ w[3] \in 1..Len(prog[t].syncs[k].evts)
          /\ prog[t].syncs[k].evts[w[3]].kind \in {"get", "put"}
      BY <2>2, <2>8, <2>9
    <3>3. \A v \in Thread \ {t} : \A m \in 1..Len(prog[v].syncs) :
            \A j \in 1..Len(prog[v].syncs[m].evts) :
              prog[v].syncs[m].evts[j] # prog[t].syncs[k].evts[w[3]]
      BY <2>6, <2>7, <2>10, <3>1, <3>2, ApartIs
    <3>4. u \in Thread \ {t} /\ x[3] \in 1..Len(prog[u].syncs[l].evts)
      BY <2>6, <2>8, <2>9
    <3>5. prog[u].syncs[l].evts[x[3]] # prog[t].syncs[k].evts[w[3]]
      BY <2>7, <3>3, <3>4
    <3>6. QED BY <2>8, <3>5
  <2>12. QED BY <2>2, <2>4, <2>9, <2>11
<1>5. QED BY <1>3, <1>4

\* A thread leaves all its lines.
LEMMA LeaveGood ==
  ASSUME program \in Programs, NEW L, Good(L), NEW c \in Call, Made(c)
  PROVE  Good(Leave(L, c)) /\ Leave(L, c).in_line = L.in_line \ OfCall(c)
<1>1. PICK pos, B : Sorted(L, pos, B) /\ Alone(L)
  BY DEF Good
<1>2. Sorted(Leave(L, c), pos, B) /\ Alone(Leave(L, c))
  BY <1>1, LeaveSorted
<1>3. Leave(L, c).in_line = L.in_line \ OfCall(c)
  BY <1>1, LeaveSorted
<1>4. QED BY <1>2, <1>3 DEF Good

\* A thread stands in line for one sync only.
OneSync(L, c) == \A x \in L.in_line : x[1] = c[1] => CallOf(x) = c

\* A syncer gets into line.
LEMMA IntoGood ==
  ASSUME program \in Programs, Apart(program), NEW L, Good(L),
         NEW w \in Syncer, Real(w), w \notin L.in_line, OneSync(L, CallOf(w))
  PROVE  Good(get_into_line(L, w)) /\ get_into_line(L, w).in_line = L.in_line \cup {w}
<1>1. PICK pos, B : Sorted(L, pos, B) /\ Alone(L)
  BY DEF Good
<1>2. PICK q : q = [pos EXCEPT ![w] = B + 1]
  OBVIOUS
<1>3. Sorted(get_into_line(L, w), q, B + 1)
  BY <1>1, <1>2, IntoSorted
<1>4. get_into_line(L, w).in_line = L.in_line \cup {w}
  BY <1>1, IntoSorted
<1>5. ASSUME NEW x \in OnLine(L, LineOf(w))
      PROVE  ~Lonely(x) /\ ~Lonely(w)
  <2>1. x \in L.in_line /\ x \in Syncer /\ Real(x) /\ LineOf(x) = LineOf(w) /\ x # w
    BY GoodIs DEF OnLine
  <2>2. x[1] = w[1] => CallOf(x) = CallOf(w)
    BY <2>1, SyncerIs DEF OneSync
  <2>3. ~Lonely(x)
    BY <2>1, <2>2, LonelyApart
  <2>4. ~Lonely(w)
    BY <2>1, <2>2, LonelyApart
  <2>5. QED BY <2>3, <2>4
<1>6. Alone(get_into_line(L, w))
  BY <1>1, <1>5, IntoAlone
<1>7. QED BY <1>3, <1>4, <1>6 DEF Good

\* A thread gets into all its lines.
LEMMA JoinGood ==
  ASSUME program \in Programs, Apart(program), NEW L, Good(L), NEW c \in Call, Made(c),
         OneSync(L, c)
  PROVE  Good(Join(L, c)) /\ Join(L, c).in_line = L.in_line \cup OfCall(c)
<1>1. PICK s, n : s = Syncers(c) /\ n = Len(s) /\ n \in Nat
  BY SyncersIs
<1>2. /\ \A i \in 1..n : s[i] \in Syncer /\ Real(s[i]) /\ CallOf(s[i]) = c /\ s[i][3] = i
  BY <1>1, SyncersIs
<1>3. PICK g : /\ g[0] = L /\ Join(L, c) = g[n]
               /\ \A k \in 1..n : g[k] = IF s[k] \in L.in_line THEN g[k - 1]
                                         ELSE get_into_line(g[k - 1], s[k])
  BY <1>1, JoinsIs
<1>4. PICK P : P = {k \in 0..n : Good(g[k]) /\ g[k].in_line = L.in_line \cup UpToIn(s, Syncer, k)}
  OBVIOUS
<1>5. 0 \in P
  <2>1. UpToIn(s, Syncer, 0) = {} /\ 0 \in 0..n
    BY <1>1 DEF UpToIn
  <2>2. QED BY <1>3, <1>4, <2>1
<1>6. ASSUME NEW k \in 0..(n - 1), k \in P
      PROVE  k + 1 \in P
  <2>1. Good(g[k]) /\ g[k].in_line = L.in_line \cup UpToIn(s, Syncer, k)
    BY <1>4, <1>6
  <2>2. k + 1 \in 1..n /\ (k + 1) - 1 = k /\ k + 1 \in 0..n /\ k + 1 \in 1..(k + 1)
    BY <1>1
  <2>3. \A j \in 1..(k + 1) : j \in 1..k \/ j = k + 1
    OBVIOUS
  <2>4. \A j \in 1..k : j \in 1..n /\ j # k + 1 /\ j \in 1..(k + 1)
    BY <1>1
  <2>5. PICK w : w = s[k + 1]
    OBVIOUS
  <2>6. w \in Syncer /\ Real(w) /\ CallOf(w) = c /\ w[3] = k + 1
    BY <1>2, <2>2, <2>5
  <2>7. g[k + 1] = IF w \in L.in_line THEN g[k] ELSE get_into_line(g[k], w)
    BY <1>3, <2>2, <2>5
  <2>8. UpToIn(s, Syncer, k + 1) = UpToIn(s, Syncer, k) \cup {w}
    BY <2>2, <2>3, <2>4, <2>5, <2>6 DEF UpToIn
  <2>9. CASE w \in L.in_line
    <3>1. g[k].in_line = L.in_line \cup UpToIn(s, Syncer, k + 1)
      BY <2>1, <2>8, <2>9
    <3>2. QED BY <1>4, <2>1, <2>2, <2>7, <2>9, <3>1
  <2>10. CASE w \notin L.in_line
    <3>1. w \notin UpToIn(s, Syncer, k)
      <4>1. \A j \in 1..k : s[j][3] = j
        BY <1>2, <2>4
      <4>2. \A j \in 1..k : s[j] # w
        BY <2>4, <2>6, <4>1
      <4>3. QED BY <4>2 DEF UpToIn
    <3>2. w \notin g[k].in_line
      BY <2>1, <2>10, <3>1
    <3>3. OneSync(g[k], CallOf(w))
      <4>1. \A x \in UpToIn(s, Syncer, k) : CallOf(x) = c
        BY <1>2, <2>4 DEF UpToIn
      <4>2. QED BY <2>1, <2>6, <4>1 DEF OneSync
    <3>4. Good(get_into_line(g[k], w)) /\ get_into_line(g[k], w).in_line = g[k].in_line \cup {w}
      BY <2>1, <2>6, <3>2, <3>3, IntoGood
    <3>5. g[k + 1].in_line = L.in_line \cup UpToIn(s, Syncer, k + 1)
      BY <2>1, <2>7, <2>8, <2>10, <3>4
    <3>6. QED BY <1>4, <2>2, <2>7, <2>10, <3>4, <3>5
  <2>11. QED BY <2>9, <2>10
<1>7. \A k \in 0..n : k \in P
  BY <1>1, <1>5, <1>6, UpTo
<1>8. Good(g[n]) /\ g[n].in_line = L.in_line \cup UpToIn(s, Syncer, n)
  BY <1>1, <1>4, <1>7
<1>9. UpToIn(s, Syncer, n) = OfCall(c)
  <2>1. UpToIn(s, Syncer, n) = Syncer \cap OfCall(c)
    BY <1>1, UpToSyncers
  <2>2. QED BY <2>1 DEF OfCall
<1>10. QED BY <1>3, <1>8, <1>9

-----------------------------------------------------------------------------
\* When the syncers of d, which is polled, can be taken out: all are in line, or
\* nobody but they can be.
Polling(d) == pc[d[1]] = "poll" /\ call[d[1]] = d[2]

Takeable(L, d) ==
  /\ OneSync(L, d)
  /\ Polling(d) => /\ Deferred(d)
                   /\ \/ program[d[1]].signals # {}
                      \/ \A w \in OfCall(d) : OnSema(w) \/ w \in L.in_line

\* Whom the nacks remove: only syncers of channels of a sync that is polled, and
\* all of them but the one whose value was received.
LEMMA PollSyncersIs ==
  ASSUME program \in Programs, NEW d \in Call, Made(d), NEW r
  PROVE  /\ PollSyncers(d, r) \in SUBSET OfCall(d)
         /\ \A w \in PollSyncers(d, r) : ~OnSema(w) /\ Polling(d)
         /\ Polling(d) => \A w \in OfCall(d) :
              OnSema(w) \/ w \in PollSyncers(d, r) \/ (EvtOf(w).kind = "get" /\ w[3] = r)
<1>1. ToSet(Syncers(d)) = OfCall(d)
  BY SyncersIs DEF OfCall
<1>2. \A w \in OfCall(d) : OnSema(w) \/ EvtOf(w).kind \in {"get", "put"}
  BY EvtIs DEF OfCall
<1>3. PollSyncers(d, r) = IF Polling(d)
        THEN {w \in OfCall(d) : EvtOf(w).kind = "put" \/ (EvtOf(w).kind = "get" /\ w[3] # r)}
        ELSE {}
  BY <1>1 DEF PollSyncers, Polling
<1>4. \A w \in PollSyncers(d, r) : w \in OfCall(d) /\ ~OnSema(w) /\ Polling(d)
  BY <1>3 DEF OnSema
<1>5. Polling(d) => \A w \in OfCall(d) :
              OnSema(w) \/ w \in PollSyncers(d, r) \/ (EvtOf(w).kind = "get" /\ w[3] = r)
  BY <1>2, <1>3
<1>6. QED BY <1>4, <1>5

\* The removal by nacks.
LEMMA OutByNacksGood ==
  ASSUME program \in Programs, Apart(program), NEW L, Good(L), NEW d \in Call, Made(d),
         Takeable(L, d), NEW r
  PROVE  /\ Good(OutByNacks(L, d, r))
         /\ OutByNacks(L, d, r).in_line = L.in_line \ PollSyncers(d, r)
         /\ \A w \in PollSyncers(d, r) : Gone(OutByNacks(L, d, r), w)
<1>1. PICK pos, B : Sorted(L, pos, B) /\ Alone(L)
  BY DEF Good
<1>2. PICK s, n, S : s = Syncers(d) /\ n = Len(s) /\ S = PollSyncers(d, r)
  OBVIOUS
<1>3. n \in Nat /\ \A i \in 1..n : s[i] \in Syncer /\ Real(s[i]) /\ CallOf(s[i]) = d /\ s[i][3] = i
  BY <1>2, SyncersIs
<1>4. S \in SUBSET OfCall(d) /\ \A w \in S : ~OnSema(w) /\ Polling(d)
  BY <1>2, PollSyncersIs
<1>5. ASSUME NEW j \in 1..n, s[j] \in S
      PROVE  s[j] \in L.in_line \/ Gone(L, s[j])
  <2>1. PICK w : w = s[j]
    OBVIOUS
  <2>2. w \in OfCall(d) /\ ~OnSema(w) /\ Polling(d) /\ w \in Syncer /\ Real(w) /\ CallOf(w) = d
    BY <1>3, <1>4, <1>5, <2>1
  <2>3. SUFFICES ASSUME w \notin L.in_line PROVE Gone(L, w)
    BY <2>1
  <2>4. w[1] = d[1] /\ Deferred(d) /\ program[d[1]].signals # {}
    BY <2>2, <2>3, SyncerIs DEF Takeable
  <2>5. Lonely(w)
    BY <2>2, <2>4 DEF Lonely
  <2>6. OnLine(L, LineOf(w)) = {}
    <3>1. SUFFICES ASSUME NEW x \in OnLine(L, LineOf(w)) PROVE FALSE
      OBVIOUS
    <3>2. x \in L.in_line /\ x \in Syncer /\ Real(x) /\ LineOf(x) = LineOf(w) /\ x # w
      BY <2>3, GoodIs DEF OnLine
    <3>3. x[1] = w[1] /\ CallOf(x) # CallOf(w)
      BY <2>2, <2>5, <3>2, LonelyApart
    <3>4. QED BY <2>2, <2>4, <3>2, <3>3 DEF Takeable, OneSync
  <2>7. QED BY <1>1, <2>2, <2>5, <2>6, VacantGone
<1>6. \A j \in 1..n : s[j] \in S => /\ s[j] \in Syncer /\ Real(s[j])
                                    /\ s[j] \in L.in_line \/ Gone(L, s[j])
  BY <1>3, <1>5
<1>7. \A j, k \in 1..n : s[j] \in S /\ s[k] \in S /\ LineOf(s[j]) = LineOf(s[k]) => j = k
  <2>1. SUFFICES ASSUME NEW j \in 1..n, NEW k \in 1..n, s[j] \in S, s[k] \in S,
                        LineOf(s[j]) = LineOf(s[k])
                 PROVE  j = k
    BY Zenon
  <2>2. s[j] \in OfCall(d) /\ s[k] \in OfCall(d) /\ ~OnSema(s[j]) /\ Polling(d) /\ Deferred(d)
    BY <1>4, <2>1 DEF Takeable
  <2>3. s[j] = s[k]
    BY <2>1, <2>2, PolledApart
  <2>4. QED BY <1>3, <2>3
<1>8. n = Len(s) /\ n \in Nat
  BY <1>2, <1>3
<1>9. Sorted(OutOfLines(L, s, S), pos, B)
  BY <1>1, <1>6, <1>7, <1>8, OutOfLinesGone
<1>10. Alone(OutOfLines(L, s, S))
  BY <1>1, <1>6, <1>7, <1>8, OutOfLinesGone
<1>11. OutOfLines(L, s, S).in_line = L.in_line \ UpToIn(s, S, n)
  BY <1>1, <1>6, <1>7, <1>8, OutOfLinesGone
<1>12. \A j \in 1..n : s[j] \in S => Gone(OutOfLines(L, s, S), s[j])
  BY <1>1, <1>6, <1>7, <1>8, OutOfLinesGone
<1>13. UpToIn(s, S, n) = S
  <2>1. UpToIn(s, S, n) = S \cap OfCall(d)
    BY <1>2, UpToSyncers
  <2>2. QED BY <1>4, <2>1
<1>14. \A w \in S : w[3] \in 1..n /\ s[w[3]] = w
  <2>1. \A w \in OfCall(d) : w \in Syncer /\ Real(w) /\ CallOf(w) = d
    BY DEF OfCall
  <2>2. QED BY <1>2, <1>4, <2>1, SyncersIs
<1>15. OutByNacks(L, d, r) = OutOfLines(L, s, S)
  BY <1>2 DEF OutByNacks
<1>16. QED BY <1>2, <1>9, <1>10, <1>11, <1>12, <1>13, <1>14, <1>15 DEF Good

\* The removal of one that is chosen.
LEMMA TakenOutGood ==
  ASSUME program \in Programs, Apart(program), NEW L, Good(L), NEW w \in L.in_line,
         Takeable(L, CallOf(w))
  PROVE  /\ Good(TakenOut(L, w))
         /\ TakenOut(L, w).in_line = L.in_line \ (PollSyncers(CallOf(w), w[3]) \cup {w})
<1>1. w \in Syncer /\ Real(w)
  BY GoodIs
<1>2. PICK d, r, M : d = CallOf(w) /\ r = w[3] /\ M = OutByNacks(L, d, r)
  OBVIOUS
<1>3. d \in Call /\ Made(d)
  BY <1>1, <1>2, SyncerIs DEF Real
<1>4. Takeable(L, d)
  BY <1>2
<1>5. Good(M)
  BY <1>2, <1>3, <1>4, OutByNacksGood
<1>6. M.in_line = L.in_line \ PollSyncers(d, r)
  BY <1>2, <1>3, <1>4, OutByNacksGood
<1>7. \A x \in PollSyncers(d, r) : Gone(M, x)
  BY <1>2, <1>3, <1>4, OutByNacksGood
<1>8. TakenOut(L, w) = get_outof_line(M, w)
  BY <1>2 DEF TakenOut
<1>9. CASE w \in PollSyncers(d, r)
  <2>1. M \in Links
    BY <1>5, GoodIs
  <2>2. get_outof_line(M, w) = M
    BY <1>1, <1>7, <1>9, <2>1, GoneOut
  <2>3. L.in_line \ PollSyncers(d, r) = L.in_line \ (PollSyncers(d, r) \cup {w})
    BY <1>9
  <2>4. QED BY <1>2, <1>5, <1>6, <1>8, <2>2, <2>3
<1>10. CASE w \notin PollSyncers(d, r)
  <2>1. w \in M.in_line
    BY <1>6, <1>10
  <2>2. PICK pos, B : Sorted(M, pos, B) /\ Alone(M)
    BY <1>5 DEF Good
  <2>3. Sorted(get_outof_line(M, w), pos, B)
    BY <2>1, <2>2, OutSorted
  <2>4. get_outof_line(M, w).in_line = M.in_line \ {w}
    BY <2>1, <2>2, OutSorted
  <2>5. Alone(get_outof_line(M, w))
    BY <2>1, <2>2, OutAlone
  <2>6. L.in_line \ (PollSyncers(d, r) \cup {w}) = M.in_line \ {w}
    BY <1>6
  <2>7. QED BY <1>2, <1>8, <2>3, <2>4, <2>5, <2>6 DEF Good
<1>11. QED BY <1>9, <1>10
============================================================================
