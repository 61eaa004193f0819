--------------------------- MODULE CustodianProofs ---------------------------
(***************************************************************************)
(* Proofs about Custodian and ThreadEvents, for any custodians, threads    *)
(* and tree.  The links are lists in C that nothing keeps from leading in  *)
(* circles; what is proved first is that they do not.  A position for each *)
(* custodian (Tree, Lists) says where it stands in the global list: a      *)
(* parent before its children, a family together, each list in that order. *)
(* insert_custodian and adjust_custodian_family keep that, and from it     *)
(* follows what the walks along the links meet.                            *)
(***************************************************************************)
EXTENDS ThreadEvents, FiniteSetTheorems, WellFoundedInduction, TLAPS

-----------------------------------------------------------------------------
\* Recursion.

\* Every set of numbers has a least one.
LEMMA Least ==
  ASSUME NEW S \in SUBSET Nat, S # {}
  PROVE  \E n \in S : \A m \in S : n <= m
<1>1. IsWellFoundedOn(OpToRel(<, Nat), Nat)
  BY NatLessThanWellFounded
<1>2. OpToRel(<, Nat) = {ss \in Nat \X Nat : ss[1] < ss[2]}
  BY Zenon DEF OpToRel
<1>3. PICK R : R = {ss \in Nat \X Nat : ss[1] < ss[2]}
  OBVIOUS
<1>4. IsWellFoundedOn(R, Nat)
  BY <1>1, <1>2, <1>3, Zenon
<1>5. PICK x \in S : \A y \in S : ~ (<<y, x>> \in R)
  BY <1>4, WFMin
<1>6. \A y \in S : ~ (y < x)
  BY <1>3, <1>5
<1>7. QED BY <1>6

\* Induction up to n.
LEMMA UpTo ==
  ASSUME NEW n \in Nat, NEW P, 0 \in P, \A k \in 0..(n - 1) : k \in P => k + 1 \in P
  PROVE  \A k \in 0..n : k \in P
<1>1. PICK S : S = {k \in 0..n : k \notin P}
  OBVIOUS
<1>2. ASSUME S # {} PROVE FALSE
  <2>1. S \in SUBSET Nat
    BY <1>1
  <2>2. PICK k \in S : \A m \in S : k <= m
    BY <1>2, <2>1, Least
  <2>3. k \in 0..n /\ k # 0 /\ k \notin P
    BY <1>1, <2>2
  <2>4. k - 1 \in 0..(n - 1) /\ k - 1 \notin S /\ k - 1 \in 0..n
    BY <2>2, <2>3
  <2>5. k - 1 \in P
    BY <1>1, <2>4
  <2>6. (k - 1) + 1 \in P
    BY <2>4, <2>5
  <2>7. QED BY <2>3, <2>6
<1>3. QED BY <1>1, <1>2

\* Induction on a measure.
LEMMA OnRank ==
  ASSUME NEW S, NEW rank \in [S -> Nat], NEW P,
         \A x \in S : (\A y \in S : rank[y] < rank[x] => y \in P) => x \in P
  PROVE  \A x \in S : x \in P
<1>1. PICK N : N = {rank[x] : x \in {y \in S : y \notin P}}
  OBVIOUS
<1>2. ASSUME N # {} PROVE FALSE
  <2>1. N \in SUBSET Nat
    BY <1>1
  <2>2. PICK k \in N : \A m \in N : k <= m
    BY <1>2, <2>1, Least
  <2>3. PICK x \in S : x \notin P /\ rank[x] = k
    BY <1>1, <2>2
  <2>4. \A y \in S : rank[y] < k => y \in P
    <3>1. SUFFICES ASSUME NEW y \in S, rank[y] < k, y \notin P PROVE FALSE
      OBVIOUS
    <3>2. rank[y] \in N /\ rank[y] \in Nat /\ k \in Nat
      BY <1>1, <2>1, <3>1
    <3>3. k <= rank[y]
      BY <2>2, <3>2
    <3>4. QED BY <3>1, <3>2, <3>3
  <2>5. QED BY <2>3, <2>4
<1>3. QED BY <1>1, <1>2

-----------------------------------------------------------------------------
\* Paths.

\* f goes from c along link, in n steps, and ends in Null.
IsPath(link, c, n, f) ==
  /\ n \in Nat /\ f[0] = c /\ f[n] = Null
  /\ \A k \in 0..(n - 1) : f[k] \in Custodian /\ f[k + 1] = link[f[k]]

Distinct(n, f) == \A j, k \in 0..(n - 1) : f[j] = f[k] => j = k

\* A path without a cycle is not longer than there are custodians.
LEMMA PathLength ==
  ASSUME NEW link, NEW c, NEW n, NEW f, IsPath(link, c, n, f), Distinct(n, f)
  PROVE  n <= Cardinality(Custodian) /\ Cardinality(Custodian) \in Nat
<1>1. IsFiniteSet(Custodian) /\ n \in Nat
  BY CustodianAssumption DEF IsPath
<1>2. Cardinality(Custodian) \in Nat
  BY <1>1, FS_CardinalityType
<1>3. PICK g : g = [k \in 0..(n - 1) |-> f[k]]
  OBVIOUS
<1>4. g \in Injection(0..(n - 1), Custodian)
  <2>1. g \in [0..(n - 1) -> Custodian]
    BY <1>3 DEF IsPath
  <2>2. \A j, k \in 0..(n - 1) : g[j] = g[k] => j = k
    BY <1>3 DEF Distinct
  <2>3. QED BY <2>1, <2>2 DEF Injection, IsInjective
<1>5. Cardinality(0..(n - 1)) <= Cardinality(Custodian)
  BY <1>1, <1>4, FS_Injection
<1>6. Cardinality(0..(n - 1)) = IF 0 > n - 1 THEN 0 ELSE (n - 1) - 0 + 1
  BY <1>1, FS_Interval
<1>7. QED BY <1>1, <1>2, <1>5, <1>6

\* The walk of Path is this one.
Walks(link, c, w) ==
  w = [k \in 0..Cardinality(Custodian) |->
         IF k = 0 THEN c
         ELSE LET x == w[k - 1] IN IF x = Null THEN Null ELSE link[x]]

\* A path without a cycle is what Path gives.
LEMMA PathIs ==
  ASSUME NEW link, NEW c, NEW n, NEW f, IsPath(link, c, n, f), Distinct(n, f)
  PROVE  Path(link, c) = [k \in 1..n |-> f[k - 1]]
<1>1. PICK N \in Nat : N = Cardinality(Custodian) /\ n \in 0..N
  BY PathLength DEF IsPath
<1>2. Null \notin Custodian
  BY CustodianAssumption
<1>3. PICK w : w = [k \in 0..N |-> IF k < n THEN f[k] ELSE Null]
  OBVIOUS
<1>4. ASSUME NEW k \in 0..N
      PROVE  w[k] = IF k = 0 THEN c ELSE IF w[k - 1] = Null THEN Null ELSE link[w[k - 1]]
  <2>1. CASE k = 0
    <3>1. CASE n = 0
      BY <1>1, <1>3, <2>1, <3>1 DEF IsPath
    <3>2. CASE n # 0
      BY <1>1, <1>3, <2>1, <3>2 DEF IsPath
    <3>3. QED BY <3>1, <3>2
  <2>2. CASE k # 0
    <3>1. PICK j \in 0..N : j = k - 1 /\ k = j + 1
      BY <1>1, <2>2
    <3>2. CASE j < n
      <4>1. j \in 0..(n - 1) /\ w[j] = f[j]
        BY <1>1, <1>3, <3>1, <3>2
      <4>2. f[j] \in Custodian /\ f[k] = link[f[j]]
        BY <3>1, <4>1 DEF IsPath
      <4>3. w[k] = f[k]
        <5>1. CASE k < n
          BY <1>3, <5>1
        <5>2. CASE ~(k < n)
          <6>1. k = n
            BY <1>1, <3>1, <3>2, <5>2
          <6>2. QED BY <1>3, <5>2, <6>1 DEF IsPath
        <5>3. QED BY <5>1, <5>2
      <4>4. QED BY <1>2, <2>2, <3>1, <4>1, <4>2, <4>3
    <3>3. CASE ~(j < n)
      <4>1. w[j] = Null /\ w[k] = Null
        BY <1>1, <1>3, <3>1, <3>3
      <4>2. QED BY <2>2, <3>1, <4>1
    <3>4. QED BY <3>2, <3>3
  <2>3. QED BY <2>1, <2>2
<1>5. Walks(link, c, w)
  <2>1. w = [k \in 0..N |-> w[k]]
    BY <1>3
  <2>2. QED BY <1>1, <1>4, <2>1 DEF Walks
<1>6. ASSUME NEW g, Walks(link, c, g)
      PROVE  g = w
  <2>1. \A k \in 0..N : g[k] = IF k = 0 THEN c
                               ELSE IF g[k - 1] = Null THEN Null ELSE link[g[k - 1]]
    BY <1>1, <1>6 DEF Walks
  <2>2. PICK P : P = {k \in 0..N : g[k] = w[k]}
    OBVIOUS
  <2>3. 0 \in P
    BY <1>1, <1>4, <2>1, <2>2
  <2>4. ASSUME NEW k \in 0..(N - 1), k \in P
        PROVE  k + 1 \in P
    <3>1. k + 1 \in 0..N /\ k + 1 # 0 /\ (k + 1) - 1 = k
      BY <1>1
    <3>2. g[k] = w[k]
      BY <2>2, <2>4
    <3>3. g[k + 1] = w[k + 1]
      BY <1>4, <2>1, <3>1, <3>2
    <3>4. QED BY <2>2, <3>1, <3>3
  <2>5. \A k \in 0..N : k \in P
    BY <2>3, <2>4, UpTo
  <2>6. \A k \in 0..N : g[k] = w[k]
    BY <2>2, <2>5
  <2>7. g = [k \in 0..N |-> g[k]] /\ w = [k \in 0..N |-> w[k]]
    BY <1>1, <1>3, <1>6 DEF Walks
  <2>8. QED BY <2>6, <2>7
<1>7. PICK v : v = CHOOSE g : Walks(link, c, g)
  OBVIOUS
<1>8. v = w
  BY <1>5, <1>6, <1>7
<1>9. {k \in 1..N : v[k - 1] # Null} = 1..n
  <2>1. ASSUME NEW k \in 1..N PROVE v[k - 1] # Null <=> k <= n
    <3>1. PICK j \in 0..N : j = k - 1
      BY <1>1
    <3>2. v[j] = IF j < n THEN f[j] ELSE Null
      BY <1>3, <1>8, <3>1
    <3>3. j < n => f[j] # Null
      <4>1. j < n => j \in 0..(n - 1)
        BY <1>1, <3>1
      <4>2. QED BY <1>2, <4>1 DEF IsPath
    <3>4. j < n <=> k <= n
      BY <1>1, <3>1
    <3>5. QED BY <3>1, <3>2, <3>3, <3>4
  <2>2. QED BY <1>1, <2>1
<1>10. Cardinality({k \in 1..N : v[k - 1] # Null}) = n
  <2>1. Cardinality(1..n) = IF 1 > n THEN 0 ELSE n - 1 + 1
    BY <1>1, FS_Interval
  <2>2. Cardinality(1..n) = n
    BY <1>1, <2>1
  <2>3. QED BY <1>9, <2>2
<1>11. Path(link, c) = [k \in 1..n |-> v[k - 1]]
  <2>1. Path(link, c) = [k \in 1..Cardinality({k \in 1..N : v[k - 1] # Null}) |-> v[k - 1]]
    BY <1>1, <1>7 DEF Path, Walks
  <2>2. QED BY <1>10, <2>1
<1>12. \A k \in 1..n : v[k - 1] = f[k - 1]
  <2>1. SUFFICES ASSUME NEW k \in 1..n PROVE v[k - 1] = f[k - 1]
    OBVIOUS
  <2>2. k - 1 \in 0..N /\ k - 1 < n
    BY <1>1
  <2>3. QED BY <1>3, <1>8, <2>2
<1>13. QED BY <1>11, <1>12

-----------------------------------------------------------------------------
\* Links that lead from higher ranks to lower ones.

Falling(S, link, rank) ==
  /\ S \in SUBSET Custodian /\ rank \in [S -> Nat]
  /\ \A x \in S : link[x] = Null \/ (link[x] \in S /\ rank[link[x]] < rank[x])

\* A path along them.
Falls(S, link, rank, x, n, f) ==
  /\ IsPath(link, x, n, f) /\ n \in Nat \ {0}
  /\ \A k \in 0..(n - 1) : f[k] \in S
  /\ \A j, k \in 0..(n - 1) : j < k => rank[f[k]] < rank[f[j]]

\* It meets nothing twice.
LEMMA FallsDistinct ==
  ASSUME NEW S, NEW link, NEW rank, Falling(S, link, rank), NEW x, NEW n, NEW f,
         Falls(S, link, rank, x, n, f)
  PROVE  Distinct(n, f)
<1>1. SUFFICES ASSUME NEW j \in 0..(n - 1), NEW k \in 0..(n - 1), f[j] = f[k], j # k PROVE FALSE
  BY DEF Distinct
<1>2. n \in Nat
  BY DEF Falls
<1>3. rank[f[j]] \in Nat /\ rank[f[k]] \in Nat
  BY DEF Falling, Falls
<1>4. j < k \/ k < j
  BY <1>1, <1>2
<1>5. rank[f[k]] < rank[f[j]] \/ rank[f[j]] < rank[f[k]]
  BY <1>4 DEF Falls
<1>6. rank[f[k]] = rank[f[j]]
  BY <1>1
<1>7. QED BY <1>3, <1>5, <1>6

\* From an item that leads nowhere.
LEMMA FallsOnce ==
  ASSUME NEW S, NEW link, NEW rank, Falling(S, link, rank), NEW x \in S, link[x] = Null
  PROVE  \E f : Falls(S, link, rank, x, 1, f)
<1>1. PICK f : f = [k \in 0..1 |-> IF k = 0 THEN x ELSE Null]
  OBVIOUS
<1>2. f[0] = x /\ f[1] = Null
  BY <1>1
<1>3. 1 \in Nat \ {0} /\ 0..(1 - 1) = {0}
  OBVIOUS
<1>4. x \in Custodian
  BY DEF Falling
<1>5. \A k \in 0..(1 - 1) : f[k] \in Custodian /\ f[k + 1] = link[f[k]] /\ f[k] \in S
  BY <1>2, <1>3, <1>4
<1>6. \A j, k \in 0..(1 - 1) : ~(j < k)
  BY <1>3
<1>7. QED BY <1>2, <1>3, <1>5, <1>6 DEF Falls, IsPath

\* From an item that leads to one with a path.
LEMMA FallsMore ==
  ASSUME NEW S, NEW link, NEW rank, Falling(S, link, rank), NEW x \in S, link[x] # Null,
         NEW n, NEW f, Falls(S, link, rank, link[x], n, f)
  PROVE  \E g : Falls(S, link, rank, x, n + 1, g) /\ g[0] = x /\ \A k \in 1..(n + 1) : g[k] = f[k - 1]
<1>1. PICK g : g = [k \in 0..(n + 1) |-> IF k = 0 THEN x ELSE f[k - 1]]
  OBVIOUS
<1>2. n \in Nat \ {0} /\ n + 1 \in Nat \ {0} /\ (n + 1) - 1 = n
  BY DEF Falls
<1>3. g[0] = x
  BY <1>1, <1>2
<1>4. \A k \in 1..(n + 1) : g[k] = f[k - 1]
  BY <1>1, <1>2
<1>5. g[n + 1] = Null
  <2>1. n + 1 \in 1..(n + 1) /\ (n + 1) - 1 = n
    BY <1>2
  <2>2. f[n] = Null
    BY DEF Falls, IsPath
  <2>3. QED BY <1>4, <2>1, <2>2
<1>6. ASSUME NEW k \in 0..n
      PROVE  g[k] \in S /\ g[k] \in Custodian /\ g[k + 1] = link[g[k]]
  <2>1. CASE k = 0
    <3>1. 0 + 1 \in 1..(n + 1) /\ (0 + 1) - 1 = 0
      BY <1>2
    <3>2. g[0 + 1] = f[0]
      BY <1>4, <3>1
    <3>3. f[0] = link[x] /\ x \in Custodian
      BY DEF Falls, IsPath, Falling
    <3>4. QED BY <1>3, <2>1, <3>2, <3>3
  <2>2. CASE k # 0
    <3>1. PICK j \in 0..(n - 1) : k = j + 1
      <4>1. k - 1 \in 0..(n - 1) /\ k = (k - 1) + 1
        BY <1>2, <2>2
      <4>2. QED BY <4>1
    <3>2. /\ k \in 1..(n + 1) /\ k + 1 \in 1..(n + 1) /\ k - 1 = j /\ (k + 1) - 1 = j + 1
      BY <1>2, <3>1
    <3>3. g[k] = f[j] /\ g[k + 1] = f[j + 1]
      BY <1>4, <3>2
    <3>4. f[j] \in S /\ f[j] \in Custodian /\ f[j + 1] = link[f[j]]
      BY DEF Falls, IsPath
    <3>5. QED BY <3>3, <3>4
  <2>3. QED BY <2>1, <2>2
<1>7. ASSUME NEW j \in 0..n, NEW k \in 0..n, j < k
      PROVE  rank[g[k]] < rank[g[j]]
  <2>1. PICK i \in 0..(n - 1) : k = i + 1
    <3>1. k - 1 \in 0..(n - 1) /\ k = (k - 1) + 1
      BY <1>2, <1>7
    <3>2. QED BY <3>1
  <2>2. k \in 1..(n + 1) /\ k - 1 = i
    BY <1>2, <2>1
  <2>3. g[k] = f[i] /\ f[i] \in S
    BY <1>4, <2>2 DEF Falls
  <2>4. f[0] = link[x] /\ 0 \in 0..(n - 1)
    BY <1>2 DEF Falls, IsPath
  <2>5. f[0] \in S /\ rank[f[0]] < rank[x] /\ rank \in [S -> Nat]
    BY <2>4 DEF Falling
  <2>6. CASE j = 0
    <3>1. i = 0 \/ 0 < i
      BY <1>2
    <3>2. f[i] = f[0] \/ rank[f[i]] < rank[f[0]]
      BY <2>4, <3>1 DEF Falls
    <3>3. PICK a \in Nat, b \in Nat, c \in Nat : a = rank[f[i]] /\ b = rank[f[0]] /\ c = rank[x]
      BY <2>3, <2>5
    <3>4. b < c /\ (a = b \/ a < b)
      BY <2>5, <3>2, <3>3
    <3>5. a < c
      BY <3>4
    <3>6. QED BY <1>3, <2>3, <2>6, <3>3, <3>5
  <2>7. CASE j # 0
    <3>1. PICK h \in 0..(n - 1) : j = h + 1
      <4>1. j - 1 \in 0..(n - 1) /\ j = (j - 1) + 1
        BY <1>2, <1>7, <2>7
      <4>2. QED BY <4>1
    <3>2. j \in 1..(n + 1) /\ j - 1 = h /\ h < i
      BY <1>2, <1>7, <2>1, <3>1
    <3>3. g[j] = f[h]
      BY <1>4, <3>2
    <3>4. rank[f[i]] < rank[f[h]]
      BY <3>2 DEF Falls
    <3>5. QED BY <2>3, <3>3, <3>4
  <2>8. QED BY <2>6, <2>7
<1>8. Falls(S, link, rank, x, n + 1, g)
  BY <1>2, <1>3, <1>5, <1>6, <1>7 DEF Falls, IsPath
<1>9. QED BY <1>3, <1>4, <1>8

\* There is one.
LEMMA FallsExists ==
  ASSUME NEW S, NEW link, NEW rank, Falling(S, link, rank), NEW x \in S
  PROVE  \E n \in Nat \ {0} : \E f : Falls(S, link, rank, x, n, f)
<1>1. PICK P : P = {y \in S : \E n \in Nat \ {0} : \E f : Falls(S, link, rank, y, n, f)}
  OBVIOUS
<1>2. ASSUME NEW y \in S, \A z \in S : rank[z] < rank[y] => z \in P
      PROVE  y \in P
  <2>1. CASE link[y] = Null
    BY <1>1, <2>1, FallsOnce
  <2>2. CASE link[y] # Null
    <3>1. link[y] \in P
      BY <1>2, <2>2 DEF Falling
    <3>2. PICK n \in Nat \ {0} : \E f : Falls(S, link, rank, link[y], n, f)
      BY <1>1, <3>1
    <3>3. n + 1 \in Nat \ {0}
      OBVIOUS
    <3>4. \E g : Falls(S, link, rank, y, n + 1, g)
      <4>1. PICK f : Falls(S, link, rank, link[y], n, f)
        BY <3>2
      <4>2. QED BY <2>2, <4>1, FallsMore
    <3>5. QED BY <1>1, <3>3, <3>4
  <2>3. QED BY <2>1, <2>2
<1>3. rank \in [S -> Nat]
  BY DEF Falling
<1>4. \A y \in S : y \in P
  BY <1>2, <1>3, OnRank
<1>5. QED BY <1>1, <1>4

\* It is what Path gives.
LEMMA FallsPath ==
  ASSUME NEW S, NEW link, NEW rank, Falling(S, link, rank), NEW x, NEW n, NEW f,
         Falls(S, link, rank, x, n, f)
  PROVE  /\ Path(link, x) = [k \in 1..n |-> f[k - 1]]
         /\ Path(link, x) \in Seq(S) /\ Len(Path(link, x)) = n /\ Path(link, x)[1] = x
         /\ Last(Path(link, x)) = f[n - 1]
         /\ ToSet(Path(link, x)) = {f[k] : k \in 0..(n - 1)}
<1>1. Path(link, x) = [k \in 1..n |-> f[k - 1]]
  BY FallsDistinct, PathIs DEF Falls
<1>2. PICK p : p = Path(link, x)
  OBVIOUS
<1>3. n \in Nat \ {0} /\ \A k \in 0..(n - 1) : f[k] \in S
  BY DEF Falls
<1>4. \A k \in 1..n : k - 1 \in 0..(n - 1)
  BY <1>3
<1>5. p \in [1..n -> S] /\ DOMAIN p = 1..n
  BY <1>1, <1>2, <1>3, <1>4
<1>6. p \in Seq(S) /\ Len(p) = n
  BY <1>3, <1>5
<1>7. 1 \in 1..n /\ n \in 1..n /\ 1 - 1 = 0
  BY <1>3
<1>8. p[1] = x /\ p[n] = f[n - 1]
  BY <1>1, <1>2, <1>7 DEF Falls, IsPath
<1>9. Last(p) = f[n - 1]
  BY <1>6, <1>8 DEF Last
<1>10. ToSet(p) = {f[k] : k \in 0..(n - 1)}
  <2>1. \A k \in 0..(n - 1) : k + 1 \in 1..n /\ (k + 1) - 1 = k
    BY <1>3
  <2>2. \A k \in 0..(n - 1) : p[k + 1] = f[k]
    BY <1>1, <1>2, <2>1
  <2>3. \A k \in 1..n : p[k] = f[k - 1]
    BY <1>1, <1>2
  <2>4. ToSet(p) = {p[k] : k \in 1..n}
    BY <1>5 DEF ToSet
  <2>5. QED BY <1>4, <2>1, <2>2, <2>3, <2>4
<1>11. QED BY <1>1, <1>2, <1>6, <1>8, <1>9, <1>10

\* The path from an item is the item, and then the path from where it leads.
LEMMA PathStep ==
  ASSUME NEW S, NEW link, NEW rank, Falling(S, link, rank), NEW x \in S
  PROVE  /\ Path(link, x) \in Seq(S) /\ Len(Path(link, x)) \in Nat \ {0} /\ Path(link, x)[1] = x
         /\ link[x] = Null => ToSet(Path(link, x)) = {x} /\ Last(Path(link, x)) = x
         /\ link[x] # Null => /\ ToSet(Path(link, x)) = {x} \cup ToSet(Path(link, link[x]))
                              /\ Last(Path(link, x)) = Last(Path(link, link[x]))
<1>1. CASE link[x] = Null
  <2>1. PICK f : Falls(S, link, rank, x, 1, f)
    BY <1>1, FallsOnce
  <2>2. 0..(1 - 1) = {0} /\ f[0] = x /\ 1 - 1 = 0 /\ 1 \in Nat \ {0}
    BY <2>1 DEF Falls, IsPath
  <2>3. ToSet(Path(link, x)) = {f[k] : k \in 0..(1 - 1)} /\ Last(Path(link, x)) = f[1 - 1]
    BY <2>1, FallsPath
  <2>4. QED BY <1>1, <2>1, <2>2, <2>3, FallsPath
<1>2. CASE link[x] # Null
  <2>1. link[x] \in S
    BY <1>2 DEF Falling
  <2>0. PICK n \in Nat \ {0} : \E f : Falls(S, link, rank, link[x], n, f)
    BY <2>1, FallsExists
  <2>2. PICK f : Falls(S, link, rank, link[x], n, f)
    BY <2>0
  <2>3. PICK g : /\ Falls(S, link, rank, x, n + 1, g)
                 /\ g[0] = x /\ \A k \in 1..(n + 1) : g[k] = f[k - 1]
    BY <1>2, <2>2, FallsMore
  <2>4. /\ ToSet(Path(link, x)) = {g[k] : k \in 0..((n + 1) - 1)}
        /\ Last(Path(link, x)) = g[(n + 1) - 1]
        /\ Path(link, x) \in Seq(S) /\ Len(Path(link, x)) = n + 1 /\ Path(link, x)[1] = x
    BY <2>3, FallsPath
  <2>5. /\ ToSet(Path(link, link[x])) = {f[k] : k \in 0..(n - 1)}
        /\ Last(Path(link, link[x])) = f[n - 1]
    BY <2>2, FallsPath
  <2>6. (n + 1) - 1 = n /\ n \in 1..(n + 1) /\ n + 1 \in Nat \ {0}
    OBVIOUS
  <2>7. Last(Path(link, x)) = Last(Path(link, link[x]))
    BY <2>3, <2>4, <2>5, <2>6
  <2>8. \A k \in 0..(n - 1) : k + 1 \in 0..n /\ k + 1 \in 1..(n + 1) /\ (k + 1) - 1 = k
    OBVIOUS
  <2>9. \A k \in 0..(n - 1) : g[k + 1] = f[k]
    BY <2>3, <2>8
  <2>10. \A k \in 0..n : k = 0 \/ (k - 1 \in 0..(n - 1) /\ k \in 1..(n + 1))
    OBVIOUS
  <2>11. \A k \in 0..n : k = 0 \/ g[k] = f[k - 1]
    BY <2>3, <2>10
  <2>12. {g[k] : k \in 0..n} = {x} \cup {f[k] : k \in 0..(n - 1)}
    <3>1. ASSUME NEW z \in {g[k] : k \in 0..n} PROVE z \in {x} \cup {f[k] : k \in 0..(n - 1)}
      BY <2>3, <2>10, <2>11
    <3>2. ASSUME NEW z \in {f[k] : k \in 0..(n - 1)} PROVE z \in {g[k] : k \in 0..n}
      BY <2>8, <2>9
    <3>3. x \in {g[k] : k \in 0..n}
      BY <2>3
    <3>4. QED BY <3>1, <3>2, <3>3
  <2>13. QED BY <1>2, <2>4, <2>5, <2>6, <2>7, <2>12
<1>3. QED BY <1>1, <1>2

\* There is no path from nowhere.
LEMMA PathNull ==
  ASSUME NEW link
  PROVE  Path(link, Null) = <<>>
<1>1. PICK f : f = [k \in {0} |-> Null]
  OBVIOUS
<1>2. IsPath(link, Null, 0, f) /\ Distinct(0, f)
  BY <1>1 DEF IsPath, Distinct
<1>3. Path(link, Null) = [k \in 1..0 |-> f[k - 1]]
  BY <1>2, PathIs
<1>4. QED BY <1>3

-----------------------------------------------------------------------------
\* The tree and its order.

InTree(L) == {c \in Custodian : c = Root \/ L.parent[c] # Null}
Kids(L, p) == {c \in Custodian \ {Root} : L.parent[c] = p}

\* x is the first one of S behind c, or there is none; and the last one before.
After(S, pos, c, x) ==
  /\ x = Null => \A d \in S : pos[d] <= pos[c]
  /\ x # Null => x \in S /\ pos[c] < pos[x] /\ \A d \in S : pos[c] < pos[d] => pos[x] <= pos[d]

Before(S, pos, c, x) ==
  /\ x = Null => \A d \in S : pos[c] <= pos[d]
  /\ x # Null => x \in S /\ pos[x] < pos[c] /\ \A d \in S : pos[d] < pos[c] => pos[d] <= pos[x]

LinkType ==
  [parent : [Custodian -> Custodian \cup {Null}],
   children : [Custodian -> Custodian \cup {Null}],
   sibling : [Custodian -> Custodian \cup {Null}],
   global_next : [Custodian -> Custodian \cup {Null}],
   global_prev : [Custodian -> Custodian \cup {Null}],
   last : Custodian]

\* The tree: a custodian comes after its parent, which is above the one before it.
Tree(L, pos, B) ==
  /\ B \in Nat /\ pos \in [Custodian -> 0..B]
  /\ \A c, d \in InTree(L) : pos[c] = pos[d] => c = d
  /\ L.parent \in [Custodian -> Custodian \cup {Null}] /\ L.parent[Root] = Null
  /\ \A c \in InTree(L) \ {Root} : L.parent[c] \in InTree(L) /\ pos[L.parent[c]] < pos[c]
  /\ \A c \in InTree(L) : Before(InTree(L), pos, c, L.global_prev[c])
  /\ \A c \in InTree(L) \ {Root} : L.parent[c] \in Supers(L, L.global_prev[c])
  /\ \A c \in Custodian \ InTree(L) : L.global_prev[c] = Null

\* The lists: of all, and of the children of each.
Lists(L, pos) ==
  /\ L \in LinkType
  /\ L.last \in InTree(L) /\ \A c \in InTree(L) : pos[c] <= pos[L.last]
  /\ \A c \in InTree(L) : After(InTree(L), pos, c, L.global_next[c])
  /\ \A c \in InTree(L) : After(Kids(L, c), pos, c, L.children[c])
  /\ \A c \in InTree(L) \ {Root} : After(Kids(L, L.parent[c]), pos, c, L.sibling[c])
  /\ \A c \in Custodian \ InTree(L) : L.children[c] = Null

\* The main custodian is always in the tree.
LEMMA RootIn ==
  ASSUME NEW L
  PROVE  Root \in InTree(L) /\ InTree(L) \in SUBSET Custodian /\ Null \notin InTree(L)
BY CustodianAssumption DEF InTree

\* The ranks for the paths up and back.
LEMMA TreeFalls ==
  ASSUME NEW L, NEW pos, NEW B, Tree(L, pos, B)
  PROVE  \E rank : /\ rank \in [InTree(L) -> Nat] /\ \A c \in InTree(L) : rank[c] = pos[c]
                   /\ Falling(InTree(L), L.parent, rank)
                   /\ Falling(InTree(L), L.global_prev, rank)
<1>1. PICK rank : rank = [c \in InTree(L) |-> pos[c]]
  OBVIOUS
<1>2. rank \in [InTree(L) -> Nat] /\ \A c \in InTree(L) : rank[c] = pos[c]
  BY <1>1, RootIn DEF Tree
<1>3. \A c \in InTree(L) : L.parent[c] = Null \/ (L.parent[c] \in InTree(L) /\ pos[L.parent[c]] < pos[c])
  BY DEF Tree
<1>4. \A c \in InTree(L) : L.global_prev[c] = Null
                             \/ (L.global_prev[c] \in InTree(L) /\ pos[L.global_prev[c]] < pos[c])
  BY DEF Tree, Before
<1>5. QED BY <1>2, <1>3, <1>4, RootIn DEF Falling

\* Who is above whom.
LEMMA SupersStep ==
  ASSUME NEW L, NEW pos, NEW B, Tree(L, pos, B)
  PROVE  /\ Supers(L, Root) = {Root}
         /\ \A c \in InTree(L) \ {Root} : Supers(L, c) = {c} \cup Supers(L, L.parent[c])
<1>1. PICK rank : Falling(InTree(L), L.parent, rank)
  BY TreeFalls
<1>2. L.parent[Root] = Null /\ \A c \in InTree(L) \ {Root} : L.parent[c] # Null
  BY DEF Tree, InTree
<1>3. QED BY <1>1, <1>2, PathStep, RootIn DEF Supers

\* Those above a custodian are in the tree, it and the main one among them,
\* and none of them comes after it.
LEMMA SupersIn ==
  ASSUME NEW L, NEW pos, NEW B, Tree(L, pos, B)
  PROVE  \A c \in InTree(L) : /\ Supers(L, c) \in SUBSET InTree(L)
                              /\ c \in Supers(L, c) /\ Root \in Supers(L, c)
                              /\ \A x \in Supers(L, c) : pos[x] <= pos[c]
<1>1. PICK rank : /\ rank \in [InTree(L) -> Nat] /\ \A c \in InTree(L) : rank[c] = pos[c]
  BY TreeFalls
<1>2. PICK P : P = {c \in InTree(L) : /\ Supers(L, c) \in SUBSET InTree(L)
                                      /\ c \in Supers(L, c) /\ Root \in Supers(L, c)
                                      /\ \A x \in Supers(L, c) : pos[x] <= pos[c]}
  OBVIOUS
<1>3. ASSUME NEW c \in InTree(L), \A y \in InTree(L) : rank[y] < rank[c] => y \in P
      PROVE  c \in P
  <2>1. CASE c = Root
    <3>1. Supers(L, c) = {c}
      BY <2>1, SupersStep
    <3>2. pos[c] \in Nat
      BY <1>1
    <3>3. QED BY <1>2, <2>1, <3>1, <3>2
  <2>2. CASE c # Root
    <3>1. L.parent[c] \in InTree(L) /\ pos[L.parent[c]] < pos[c]
      BY <2>2 DEF Tree
    <3>2. L.parent[c] \in P
      BY <1>1, <1>3, <3>1
    <3>3. Supers(L, c) = {c} \cup Supers(L, L.parent[c])
      BY <2>2, SupersStep
    <3>4. \A x \in InTree(L) : pos[x] \in Nat
      BY <1>1
    <3>5. \A x \in Supers(L, L.parent[c]) : x \in InTree(L) /\ pos[x] <= pos[L.parent[c]]
      BY <1>2, <3>2
    <3>6. \A x \in Supers(L, L.parent[c]) : pos[x] <= pos[c]
      BY <3>1, <3>4, <3>5
    <3>7. QED BY <1>2, <3>2, <3>3, <3>4, <3>6
  <2>3. QED BY <2>1, <2>2
<1>4. \A c \in InTree(L) : c \in P
  BY <1>1, <1>3, OnRank
<1>5. QED BY <1>2, <1>4

\* Above one that is above.
LEMMA SupersTrans ==
  ASSUME NEW L, NEW pos, NEW B, Tree(L, pos, B)
  PROVE  \A c \in InTree(L) : \A x \in Supers(L, c) : Supers(L, x) \subseteq Supers(L, c)
<1>1. PICK rank : /\ rank \in [InTree(L) -> Nat] /\ \A c \in InTree(L) : rank[c] = pos[c]
  BY TreeFalls
<1>2. PICK P : P = {c \in InTree(L) : \A x \in Supers(L, c) : Supers(L, x) \subseteq Supers(L, c)}
  OBVIOUS
<1>3. ASSUME NEW c \in InTree(L), \A y \in InTree(L) : rank[y] < rank[c] => y \in P
      PROVE  c \in P
  <2>1. CASE c = Root
    BY <1>2, <2>1, SupersStep
  <2>2. CASE c # Root
    <3>1. L.parent[c] \in InTree(L) /\ pos[L.parent[c]] < pos[c]
      BY <2>2 DEF Tree
    <3>2. L.parent[c] \in P
      BY <1>1, <1>3, <3>1
    <3>3. Supers(L, c) = {c} \cup Supers(L, L.parent[c])
      BY <2>2, SupersStep
    <3>4. QED BY <1>2, <3>2, <3>3
  <2>3. QED BY <2>1, <2>2
<1>4. \A c \in InTree(L) : c \in P
  BY <1>1, <1>3, OnRank
<1>5. QED BY <1>2, <1>4

\* A family is together: what is between c and something below c is below c.
LEMMA SupersBetween ==
  ASSUME NEW L, NEW pos, NEW B, Tree(L, pos, B)
  PROVE  \A x \in InTree(L) : \A c \in Supers(L, x) : \A y \in InTree(L) :
           pos[c] <= pos[y] /\ pos[y] <= pos[x] => c \in Supers(L, y)
<1>1. PICK rank : /\ rank \in [InTree(L) -> Nat] /\ \A c \in InTree(L) : rank[c] = pos[c]
  BY TreeFalls
<1>2. PICK P : P = {x \in InTree(L) : \A c \in Supers(L, x) : \A y \in InTree(L) :
                      pos[c] <= pos[y] /\ pos[y] <= pos[x] => c \in Supers(L, y)}
  OBVIOUS
<1>3. ASSUME NEW x \in InTree(L), \A z \in InTree(L) : rank[z] < rank[x] => z \in P
      PROVE  x \in P
  <2>1. SUFFICES ASSUME NEW c \in Supers(L, x), NEW y \in InTree(L),
                        pos[c] <= pos[y], pos[y] <= pos[x]
                 PROVE  c \in Supers(L, y)
    BY <1>2
  <2>2. c \in InTree(L) /\ pos[c] \in Nat /\ pos[x] \in Nat /\ pos[y] \in Nat
    BY <1>1, SupersIn
  <2>3. CASE pos[y] = pos[x]
    BY <2>1, <2>3 DEF Tree
  <2>4. CASE pos[y] # pos[x]
    <3>1. PICK z : z = L.global_prev[x]
      OBVIOUS
    <3>2. pos[y] < pos[x]
      BY <2>1, <2>2, <2>4
    <3>3. Before(InTree(L), pos, x, z)
      BY <3>1 DEF Tree
    <3>4. z # Null
      BY <2>2, <3>2, <3>3 DEF Before
    <3>5. z \in InTree(L) /\ pos[z] < pos[x] /\ pos[y] <= pos[z]
      BY <3>2, <3>3, <3>4 DEF Before
    <3>6. c # x
      BY <2>1, <2>2, <3>2
    <3>7. x # Root
      BY <3>6, SupersStep
    <3>8. c \in Supers(L, L.parent[x])
      BY <3>6, <3>7, SupersStep
    <3>9. L.parent[x] \in Supers(L, z)
      BY <3>1, <3>7 DEF Tree
    <3>10. c \in Supers(L, z)
      BY <3>5, <3>8, <3>9, SupersTrans
    <3>11. z \in P
      BY <1>1, <1>3, <3>5
    <3>12. QED BY <1>2, <2>1, <3>5, <3>10, <3>11
  <2>5. QED BY <2>3, <2>4
<1>4. \A c \in InTree(L) : c \in P
  BY <1>1, <1>3, OnRank
<1>5. QED BY <1>2, <1>4

\* The way back from z meets all that is before z.
LEMMA BackIs ==
  ASSUME NEW L, NEW pos, NEW B, Tree(L, pos, B)
  PROVE  \A z \in InTree(L) :
           ToSet(Path(L.global_prev, z)) = {x \in InTree(L) : pos[x] <= pos[z]}
<1>1. PICK rank : /\ rank \in [InTree(L) -> Nat] /\ \A c \in InTree(L) : rank[c] = pos[c]
                  /\ Falling(InTree(L), L.global_prev, rank)
  BY TreeFalls
<1>2. PICK P : P = {z \in InTree(L) : ToSet(Path(L.global_prev, z))
                                        = {x \in InTree(L) : pos[x] <= pos[z]}}
  OBVIOUS
<1>3. ASSUME NEW z \in InTree(L), \A y \in InTree(L) : rank[y] < rank[z] => y \in P
      PROVE  z \in P
  <2>1. PICK y : y = L.global_prev[z]
    OBVIOUS
  <2>2. Before(InTree(L), pos, z, y)
    BY <2>1 DEF Tree
  <2>3. \A x \in InTree(L) : pos[x] \in Nat /\ (pos[x] = pos[z] => x = z)
    BY <1>1 DEF Tree
  <2>4. CASE y = Null
    <3>1. ToSet(Path(L.global_prev, z)) = {z}
      <4>1. L.global_prev[z] = Null
        BY <2>1, <2>4
      <4>2. Falling(InTree(L), L.global_prev, rank)
        BY <1>1
      <4>3. QED BY <4>1, <4>2, PathStep
    <3>2. \A x \in InTree(L) : pos[x] <= pos[z] <=> x = z
      BY <2>2, <2>3, <2>4 DEF Before
    <3>3. QED BY <1>2, <3>1, <3>2
  <2>5. CASE y # Null
    <3>1. ToSet(Path(L.global_prev, z)) = {z} \cup ToSet(Path(L.global_prev, y))
      BY <1>1, <2>1, <2>5, PathStep
    <3>2. y \in InTree(L) /\ pos[y] < pos[z]
      BY <2>2, <2>5 DEF Before
    <3>3. y \in P
      BY <1>1, <1>3, <3>2
    <3>4. \A x \in InTree(L) : pos[x] < pos[z] => pos[x] <= pos[y]
      BY <2>2, <2>5 DEF Before
    <3>5. \A x \in InTree(L) : pos[x] <= pos[z] <=> x = z \/ pos[x] <= pos[y]
      BY <2>3, <3>2, <3>4
    <3>6. QED BY <1>2, <3>1, <3>3, <3>5
  <2>6. QED BY <2>4, <2>5
<1>4. \A c \in InTree(L) : c \in P
  BY <1>1, <1>3, OnRank
<1>5. QED BY <1>2, <1>4

-----------------------------------------------------------------------------
\* What a shutdown goes through.

\* Children come after their parent.
LEMMA KidsIn ==
  ASSUME NEW L, NEW pos, NEW B, Tree(L, pos, B), NEW p \in InTree(L)
  PROVE  /\ Kids(L, p) \in SUBSET (InTree(L) \ {Root})
         /\ \A x \in Kids(L, p) : L.parent[x] = p /\ pos[p] < pos[x] /\ pos[x] \in 0..B
<1>1. p \in Custodian /\ p # Null /\ Kids(L, p) \in SUBSET Custodian
  BY RootIn DEF Kids
<1>2. \A x \in Kids(L, p) : x \in InTree(L) \ {Root} /\ L.parent[x] = p
  BY <1>1 DEF Kids, InTree
<1>3. QED BY <1>1, <1>2, RootIn DEF Tree

\* The ranks for the path along the children of p.
KidsRank(L, pos, K, rank) ==
  /\ rank \in [K -> Nat]
  /\ \A x, y \in K : pos[x] < pos[y] => rank[y] < rank[x]
  /\ Falling(K, L.sibling, rank)
  /\ \A x \in K : /\ After(K, pos, x, L.sibling[x])
                  /\ L.sibling[x] # Null => L.sibling[x] \in K

\* The sibling links lead along the order.
LEMMA KidsFall ==
  ASSUME NEW L, NEW pos, NEW B, Tree(L, pos, B), Lists(L, pos), NEW p \in InTree(L)
  PROVE  \E rank : KidsRank(L, pos, Kids(L, p), rank)
<1>1. PICK K : K = Kids(L, p)
  OBVIOUS
<1>2. \A x \in K : x \in Custodian /\ x \in InTree(L) \ {Root} /\ L.parent[x] = p /\ pos[x] \in 0..B
  BY <1>1, KidsIn, RootIn
<1>3. \A x \in K : After(K, pos, x, L.sibling[x])
  BY <1>1, <1>2 DEF Lists
<1>4. PICK rank : rank = [x \in K |-> B - pos[x]]
  OBVIOUS
<1>5. B \in Nat
  BY DEF Tree
<1>6. rank \in [K -> Nat] /\ \A x \in K : rank[x] = B - pos[x]
  BY <1>2, <1>4, <1>5
<1>7. \A x \in K : L.sibling[x] # Null => L.sibling[x] \in K /\ pos[x] < pos[L.sibling[x]]
  BY <1>3 DEF After
<1>8. \A x, y \in K : pos[x] < pos[y] => rank[y] < rank[x]
  BY <1>2, <1>5, <1>6
<1>9. Falling(K, L.sibling, rank)
  BY <1>2, <1>6, <1>7, <1>8 DEF Falling
<1>10. KidsRank(L, pos, K, rank)
  BY <1>3, <1>6, <1>7, <1>8, <1>9 DEF KidsRank
<1>11. QED BY <1>1, <1>10

\* The last child is the last one.
LEMMA LastKid ==
  ASSUME NEW L, NEW pos, NEW B, Tree(L, pos, B), Lists(L, pos), NEW p \in InTree(L),
         L.children[p] # Null
  PROVE  /\ Last(Children(L, p)) \in Kids(L, p)
         /\ \A x \in Kids(L, p) : pos[x] <= pos[Last(Children(L, p))]
<1> DEFINE K == Kids(L, p)
<1>1. PICK rank : KidsRank(L, pos, K, rank)
  BY KidsFall
<1>2. /\ rank \in [K -> Nat]
      /\ \A x, y \in K : pos[x] < pos[y] => rank[y] < rank[x]
      /\ Falling(K, L.sibling, rank)
      /\ \A x \in K : /\ After(K, pos, x, L.sibling[x])
                      /\ L.sibling[x] # Null => L.sibling[x] \in K
  BY <1>1 DEF KidsRank
<1>9. Falling(K, L.sibling, rank)
  BY <1>2
<1>10. PICK P : P = {x \in K : /\ Last(Path(L.sibling, x)) \in K
                               /\ \A y \in K : pos[y] <= pos[Last(Path(L.sibling, x))]}
  OBVIOUS
<1>11. ASSUME NEW x \in K, \A y \in K : rank[y] < rank[x] => y \in P
       PROVE  x \in P
  <2>1. CASE L.sibling[x] = Null
    <3>1. Last(Path(L.sibling, x)) = x
      BY <1>9, <2>1, PathStep
    <3>2. \A y \in K : pos[y] <= pos[x]
      BY <1>2, <2>1 DEF After
    <3>3. QED BY <1>10, <3>1, <3>2
  <2>2. CASE L.sibling[x] # Null
    <3>1. PICK y : y = L.sibling[x]
      OBVIOUS
    <3>2. y \in K /\ rank[y] < rank[x]
      BY <1>2, <2>2, <3>1 DEF After
    <3>3. Last(Path(L.sibling, x)) = Last(Path(L.sibling, y))
      BY <1>9, <2>2, <3>1, PathStep
    <3>4. y \in P
      BY <1>11, <3>2
    <3>5. QED BY <1>10, <3>3, <3>4
  <2>3. QED BY <2>1, <2>2
<1>12. \A x \in K : x \in P
  BY <1>2, <1>11, OnRank
<1>13. L.children[p] \in K
  BY DEF Lists, After
<1>14. Children(L, p) = Path(L.sibling, L.children[p])
  BY DEF Children
<1>15. L.children[p] \in P
  BY <1>12, <1>13
<1>16. QED BY <1>10, <1>14, <1>15

\* The walk of LastDescendant.
Downs(L, m, n, g) ==
  g = [k \in 0..n |-> IF k = 0 THEN m
                      ELSE LET c == g[k - 1]
                           IN  IF L.children[c] = Null THEN c ELSE Last(Children(L, c))]

\* There is such a walk.
LEMMA DownsExists ==
  ASSUME NEW L, NEW m, NEW n \in Nat
  PROVE  \E g : Downs(L, m, n, g)
<1>1. PICK P : P = {k \in 0..n : \E g : Downs(L, m, k, g)}
  OBVIOUS
<1>2. 0 \in P
  <2>1. PICK g : g = [k \in 0..0 |-> m]
    OBVIOUS
  <2>2. \A k \in 0..0 : k = 0
    OBVIOUS
  <2>3. Downs(L, m, 0, g)
    BY <2>1, <2>2 DEF Downs
  <2>4. 0 \in 0..n
    OBVIOUS
  <2>5. QED BY <1>1, <2>3, <2>4
<1>3. ASSUME NEW k \in 0..(n - 1), k \in P
      PROVE  k + 1 \in P
  <2>1. PICK g : Downs(L, m, k, g)
    BY <1>1, <1>3
  <2>2. PICK x : x = IF L.children[g[k]] = Null THEN g[k] ELSE Last(Children(L, g[k]))
    OBVIOUS
  <2>3. PICK h : h = [j \in 0..(k + 1) |-> IF j = k + 1 THEN x ELSE g[j]]
    OBVIOUS
  <2>4. h[k + 1] = x /\ \A j \in 0..k : h[j] = g[j]
    BY <2>3
  <2>5. ASSUME NEW j \in 0..(k + 1)
        PROVE  h[j] = IF j = 0 THEN m
                      ELSE IF L.children[h[j - 1]] = Null THEN h[j - 1]
                           ELSE Last(Children(L, h[j - 1]))
    <3>1. CASE j = k + 1
      <4>1. j # 0 /\ j - 1 = k /\ k \in 0..k
        BY <3>1
      <4>2. h[j - 1] = g[k] /\ h[j] = x
        BY <2>4, <3>1, <4>1
      <4>3. QED BY <2>2, <4>1, <4>2
    <3>2. CASE j # k + 1
      <4>1. j \in 0..k /\ (j # 0 => j - 1 \in 0..k)
        BY <3>2
      <4>2. h[j] = g[j] /\ (j # 0 => h[j - 1] = g[j - 1])
        BY <2>4, <4>1
      <4>3. g[j] = IF j = 0 THEN m
                   ELSE IF L.children[g[j - 1]] = Null THEN g[j - 1]
                        ELSE Last(Children(L, g[j - 1]))
        BY <2>1, <4>1 DEF Downs
      <4>4. QED BY <4>2, <4>3
    <3>3. QED BY <3>1, <3>2
  <2>6. h = [j \in 0..(k + 1) |-> h[j]]
    BY <2>3
  <2>7. Downs(L, m, k + 1, h)
    BY <2>5, <2>6 DEF Downs
  <2>8. k + 1 \in 0..n
    OBVIOUS
  <2>9. QED BY <1>1, <2>7, <2>8
<1>4. \A k \in 0..n : k \in P
  BY <1>2, <1>3, UpTo
<1>5. n \in 0..n
  OBVIOUS
<1>6. QED BY <1>1, <1>4, <1>5

\* e is below m, and nothing below m that is not below e comes after it.
LastSoFar(L, pos, m, e) ==
  /\ e \in InTree(L) /\ m \in Supers(L, e)
  /\ \A x \in InTree(L) : m \in Supers(L, x) /\ pos[e] < pos[x] => e \in Supers(L, x)

\* What is below c is c, or below a child of it.
LEMMA BelowKid ==
  ASSUME NEW L, NEW pos, NEW B, Tree(L, pos, B), NEW c \in InTree(L)
  PROVE  \A x \in InTree(L) : c \in Supers(L, x) /\ x # c => \E k \in Kids(L, c) : k \in Supers(L, x)
<1>1. PICK rank : /\ rank \in [InTree(L) -> Nat] /\ \A y \in InTree(L) : rank[y] = pos[y]
  BY TreeFalls
<1>2. PICK P : P = {x \in InTree(L) : c \in Supers(L, x) /\ x # c
                                        => \E k \in Kids(L, c) : k \in Supers(L, x)}
  OBVIOUS
<1>3. ASSUME NEW x \in InTree(L), \A y \in InTree(L) : rank[y] < rank[x] => y \in P
      PROVE  x \in P
  <2>1. SUFFICES ASSUME c \in Supers(L, x), x # c
                 PROVE  \E k \in Kids(L, c) : k \in Supers(L, x)
    BY <1>2
  <2>2. x # Root
    BY <2>1, SupersStep
  <2>3. Supers(L, x) = {x} \cup Supers(L, L.parent[x]) /\ x \in Custodian
    BY <2>2, SupersStep, RootIn
  <2>4. CASE L.parent[x] = c
    <3>1. x \in Kids(L, c)
      BY <2>2, <2>3, <2>4 DEF Kids
    <3>2. QED BY <2>3, <3>1
  <2>5. CASE L.parent[x] # c
    <3>1. L.parent[x] \in InTree(L) /\ pos[L.parent[x]] < pos[x]
      BY <2>2 DEF Tree
    <3>2. L.parent[x] \in P
      BY <1>1, <1>3, <3>1
    <3>3. c \in Supers(L, L.parent[x])
      BY <2>1, <2>3
    <3>4. QED BY <1>2, <2>3, <2>5, <3>2, <3>3
  <2>6. QED BY <2>4, <2>5
<1>4. \A x \in InTree(L) : x \in P
  BY <1>1, <1>3, OnRank
<1>5. QED BY <1>2, <1>4

\* One step down, to the last child.
LEMMA DownOnce ==
  ASSUME NEW L, NEW pos, NEW B, Tree(L, pos, B), Lists(L, pos), NEW m \in InTree(L),
         NEW c, LastSoFar(L, pos, m, c), L.children[c] # Null
  PROVE  /\ LastSoFar(L, pos, m, Last(Children(L, c)))
         /\ pos[c] < pos[Last(Children(L, c))]
<1>1. PICK d : d = Last(Children(L, c))
  OBVIOUS
<1>2. c \in InTree(L)
  BY DEF LastSoFar
<1>3. d \in Kids(L, c) /\ \A x \in Kids(L, c) : pos[x] <= pos[d]
  BY <1>1, <1>2, LastKid
<1>4. d \in InTree(L) \ {Root} /\ L.parent[d] = c /\ pos[c] < pos[d]
  BY <1>2, <1>3, KidsIn
<1>5. Supers(L, d) = {d} \cup Supers(L, c)
  BY <1>4, SupersStep
<1>6. m \in Supers(L, d)
  BY <1>5 DEF LastSoFar
<1>7. \A y \in InTree(L) : pos[y] \in Nat
  BY RootIn DEF Tree
<1>8. ASSUME NEW x \in InTree(L), m \in Supers(L, x), pos[d] < pos[x]
      PROVE  d \in Supers(L, x)
  <2>1. pos[c] < pos[x] /\ x # c
    BY <1>2, <1>4, <1>7, <1>8
  <2>2. c \in Supers(L, x)
    BY <1>8, <2>1 DEF LastSoFar
  <2>3. PICK k \in Kids(L, c) : k \in Supers(L, x)
    BY <1>2, <2>1, <2>2, BelowKid
  <2>4. k \in InTree(L) /\ L.parent[k] = c /\ pos[c] < pos[k] /\ pos[k] <= pos[d]
    BY <1>2, <1>3, KidsIn
  <2>5. pos[d] <= pos[x]
    BY <1>4, <1>7, <1>8
  <2>6. k \in Supers(L, d)
    BY <1>4, <2>3, <2>4, <2>5, SupersBetween
  <2>7. k \notin Supers(L, c)
    <3>1. SUFFICES ASSUME k \in Supers(L, c) PROVE FALSE
      OBVIOUS
    <3>2. pos[k] <= pos[c]
      BY <1>2, <3>1, SupersIn
    <3>3. QED BY <1>2, <1>7, <2>4, <3>2
  <2>8. QED BY <1>5, <2>3, <2>6, <2>7
<1>9. QED BY <1>1, <1>4, <1>6, <1>8 DEF LastSoFar

\* It ends with the last one below m.
LEMMA LastDescendantIs ==
  ASSUME NEW L, NEW pos, NEW B, Tree(L, pos, B), Lists(L, pos), NEW m \in InTree(L)
  PROVE  /\ LastDescendant(L, m) \in InTree(L) /\ m \in Supers(L, LastDescendant(L, m))
         /\ \A x \in InTree(L) : m \in Supers(L, x) => pos[x] <= pos[LastDescendant(L, m)]
<1>1. PICK N \in Nat : N = Cardinality(Custodian)
  BY CustodianAssumption, FS_CardinalityType
<1>2. PICK g : g = CHOOSE h : Downs(L, m, N, h)
  OBVIOUS
<1>3. Downs(L, m, N, g)
  BY <1>2, DownsExists
<1>4. LastDescendant(L, m) = g[N]
  BY <1>1, <1>2 DEF LastDescendant, Downs
<1>5. \A x \in InTree(L) : pos[x] \in Nat
  BY RootIn DEF Tree
<1>6. g[0] = m
  <2>1. 0 \in 0..N
    BY <1>1
  <2>2. QED BY <1>3, <2>1 DEF Downs
<1>7. \A k \in 0..(N - 1) : g[k + 1] = IF L.children[g[k]] = Null THEN g[k]
                                       ELSE Last(Children(L, g[k]))
  <2>1. SUFFICES ASSUME NEW k \in 0..(N - 1)
                 PROVE  g[k + 1] = IF L.children[g[k]] = Null THEN g[k]
                                   ELSE Last(Children(L, g[k]))
    OBVIOUS
  <2>2. PICK j \in 0..N : j = k + 1 /\ j # 0 /\ j - 1 = k
    BY <1>1
  <2>3. g[j] = IF L.children[g[j - 1]] = Null THEN g[j - 1] ELSE Last(Children(L, g[j - 1]))
    BY <1>3, <2>2 DEF Downs
  <2>4. QED BY <2>2, <2>3
<1>8. \A k \in 0..N : LastSoFar(L, pos, m, g[k])
  <2>1. PICK P : P = {k \in 0..N : LastSoFar(L, pos, m, g[k])}
    OBVIOUS
  <2>2. LastSoFar(L, pos, m, m)
    BY SupersIn DEF LastSoFar
  <2>3. 0 \in P
    <3>1. 0 \in 0..N
      BY <1>1
    <3>2. QED BY <1>6, <2>1, <2>2, <3>1
  <2>4. ASSUME NEW k \in 0..(N - 1), k \in P
        PROVE  k + 1 \in P
    <3>1. k + 1 \in 0..N
      BY <1>1
    <3>2. LastSoFar(L, pos, m, g[k])
      BY <2>1, <2>4
    <3>3. LastSoFar(L, pos, m, g[k + 1])
      BY <1>7, <3>2, DownOnce
    <3>4. QED BY <2>1, <3>1, <3>3
  <2>5. \A k \in 0..N : k \in P
    BY <2>3, <2>4, UpTo
  <2>6. QED BY <2>1, <2>5
<1>9. L.children[g[N]] = Null
  <2>1. SUFFICES ASSUME L.children[g[N]] # Null PROVE FALSE
    OBVIOUS
  <2>2. \A k \in 0..(N - 1) : L.children[g[k]] = Null => L.children[g[k + 1]] = Null
    BY <1>7
  <2>3. ASSUME NEW k \in 0..N PROVE L.children[g[k]] # Null
    <3>1. PICK P : P = {i \in 0..(N - k) : L.children[g[N - i]] # Null}
      OBVIOUS
    <3>2. N - k \in Nat /\ 0 \in 0..(N - k) /\ N - 0 = N
      BY <1>1
    <3>3. 0 \in P
      BY <2>1, <3>1, <3>2
    <3>4. ASSUME NEW i \in 0..((N - k) - 1), i \in P
          PROVE  i + 1 \in P
      <4>1. i + 1 \in 0..(N - k) /\ N - (i + 1) \in 0..(N - 1) /\ (N - (i + 1)) + 1 = N - i
        BY <1>1
      <4>2. L.children[g[N - i]] # Null
        BY <3>1, <3>4
      <4>3. L.children[g[N - (i + 1)]] # Null
        BY <2>2, <4>1, <4>2
      <4>4. QED BY <3>1, <4>1, <4>3
    <3>5. \A i \in 0..(N - k) : i \in P
      BY <3>2, <3>3, <3>4, UpTo
    <3>6. N - k \in 0..(N - k) /\ N - (N - k) = k
      BY <1>1
    <3>7. QED BY <3>1, <3>5, <3>6
  <2>4. \A k \in 0..(N - 1) : pos[g[k]] < pos[g[k + 1]]
    <3>1. SUFFICES ASSUME NEW k \in 0..(N - 1) PROVE pos[g[k]] < pos[g[k + 1]]
      OBVIOUS
    <3>2. k \in 0..N
      BY <1>1
    <3>3. L.children[g[k]] # Null /\ LastSoFar(L, pos, m, g[k])
      BY <1>8, <2>3, <3>2
    <3>4. g[k + 1] = Last(Children(L, g[k]))
      BY <1>7, <3>3
    <3>5. QED BY <3>3, <3>4, DownOnce
  <2>5. \A k \in 0..N : g[k] \in InTree(L) /\ pos[g[k]] \in Nat
    BY <1>5, <1>8 DEF LastSoFar
  <2>6. \A k \in 0..N : \A j \in 0..N : j < k => pos[g[j]] < pos[g[k]]
    <3>1. PICK P : P = {k \in 0..N : \A j \in 0..N : j < k => pos[g[j]] < pos[g[k]]}
      OBVIOUS
    <3>2. 0 \in P
      BY <1>1, <3>1
    <3>3. ASSUME NEW k \in 0..(N - 1), k \in P
          PROVE  k + 1 \in P
      <4>1. k + 1 \in 0..N /\ k \in 0..N
        BY <1>1
      <4>2. ASSUME NEW j \in 0..N, j < k + 1 PROVE pos[g[j]] < pos[g[k + 1]]
        <5>1. PICK a \in Nat, b \in Nat, c \in Nat : a = pos[g[j]] /\ b = pos[g[k]] /\ c = pos[g[k + 1]]
          BY <2>5, <4>1
        <5>2. b < c
          BY <2>4, <5>1
        <5>3. j = k \/ j < k
          BY <1>1, <4>2
        <5>4. a = b \/ a < b
          BY <3>1, <3>3, <5>1, <5>3
        <5>5. a < c
          BY <5>2, <5>4
        <5>6. QED BY <5>1, <5>5
      <4>3. QED BY <3>1, <4>1, <4>2
    <3>4. \A k \in 0..N : k \in P
      BY <3>2, <3>3, UpTo, <1>1
    <3>5. QED BY <3>1, <3>4
  <2>7. PICK h : h = [k \in 0..N |-> g[k]]
    OBVIOUS
  <2>8. h \in [0..N -> Custodian]
    BY <2>5, <2>7, RootIn
  <2>9. \A j, k \in 0..N : h[j] = h[k] => j = k
    <3>1. SUFFICES ASSUME NEW j \in 0..N, NEW k \in 0..N, g[j] = g[k], j # k PROVE FALSE
      BY <2>7
    <3>2. j < k \/ k < j
      BY <1>1, <3>1
    <3>3. pos[g[j]] < pos[g[k]] \/ pos[g[k]] < pos[g[j]]
      BY <2>6, <3>2
    <3>4. QED BY <2>5, <3>1, <3>3
  <2>10. h \in Injection(0..N, Custodian)
    BY <2>8, <2>9 DEF Injection, IsInjective
  <2>11. Cardinality(0..N) <= Cardinality(Custodian)
    BY <2>10, CustodianAssumption, FS_Injection
  <2>12. Cardinality(0..N) = IF 0 > N THEN 0 ELSE N - 0 + 1
    BY <1>1, FS_Interval
  <2>13. QED BY <1>1, <2>11, <2>12
<1>10. PICK e : e = g[N]
  OBVIOUS
<1>11. LastSoFar(L, pos, m, e)
  <2>1. N \in 0..N
    BY <1>1
  <2>2. QED BY <1>8, <1>10, <2>1
<1>12. ASSUME NEW x \in InTree(L), m \in Supers(L, x)
       PROVE  pos[x] <= pos[e]
  <2>1. SUFFICES ASSUME pos[e] < pos[x] PROVE FALSE
    BY <1>5, <1>11 DEF LastSoFar
  <2>2. e \in InTree(L) /\ e \in Supers(L, x)
    BY <1>11, <1>12, <2>1 DEF LastSoFar
  <2>3. x # e
    BY <1>5, <2>1
  <2>4. PICK k \in Kids(L, e) : TRUE
    BY <2>2, <2>3, BelowKid
  <2>5. pos[e] < pos[k]
    BY <2>2, KidsIn
  <2>6. After(Kids(L, e), pos, e, Null)
    BY <1>9, <1>10, <2>2 DEF Lists
  <2>7. pos[k] <= pos[e]
    BY <2>4, <2>6 DEF After
  <2>8. pos[k] \in Nat /\ pos[e] \in Nat
    BY <1>5, <2>2, KidsIn
  <2>9. QED BY <2>5, <2>7, <2>8
<1>13. QED BY <1>4, <1>10, <1>11, <1>12 DEF LastSoFar

-----------------------------------------------------------------------------

\* fam is what a shutdown of m goes through, from the last to m.
FamilySeq(L, pos, m, n, fam) ==
  /\ fam = Family(L, m) /\ n \in Nat \ {0}
  /\ fam \in Seq(InTree(L)) /\ Len(fam) = n /\ DOMAIN fam = 1..n /\ fam[n] = m
  /\ \A j, k \in 1..n : j < k => pos[fam[k]] < pos[fam[j]]
  /\ \A x \in InTree(L) : m \in Supers(L, x) <=> \E k \in 1..n : fam[k] = x

\* A shutdown goes through all that is below, and through nothing else.
LEMMA FamilyIs ==
  ASSUME NEW L, NEW pos, NEW B, Tree(L, pos, B), Lists(L, pos), NEW m \in InTree(L)
  PROVE  \E n : \E fam : FamilySeq(L, pos, m, n, fam)
<1>1. PICK e : e = LastDescendant(L, m)
  OBVIOUS
<1>2. /\ e \in InTree(L) /\ m \in Supers(L, e)
      /\ \A x \in InTree(L) : m \in Supers(L, x) => pos[x] <= pos[e]
  BY <1>1, LastDescendantIs
<1>3. PICK rank : /\ rank \in [InTree(L) -> Nat] /\ \A c \in InTree(L) : rank[c] = pos[c]
                  /\ Falling(InTree(L), L.global_prev, rank)
  BY TreeFalls
<1>4. PICK N \in Nat \ {0} : \E f : Falls(InTree(L), L.global_prev, rank, e, N, f)
  BY <1>2, <1>3, FallsExists
<1>5. PICK f : Falls(InTree(L), L.global_prev, rank, e, N, f)
  BY <1>4
<1>6. PICK back : back = Path(L.global_prev, e)
  OBVIOUS
<1>7. /\ back = [k \in 1..N |-> f[k - 1]]
      /\ back \in Seq(InTree(L)) /\ Len(back) = N
  <2>1. Falling(InTree(L), L.global_prev, rank)
    BY <1>3
  <2>2. /\ Path(L.global_prev, e) = [k \in 1..N |-> f[k - 1]]
        /\ Path(L.global_prev, e) \in Seq(InTree(L)) /\ Len(Path(L.global_prev, e)) = N
    BY <1>5, <2>1, FallsPath
  <2>3. QED BY <1>6, <2>2
<1>8. DOMAIN back = 1..N /\ \A k \in 1..N : back[k] \in InTree(L)
  BY <1>7
<1>9. \A j, k \in 1..N : j < k => pos[back[k]] < pos[back[j]]
  <2>1. SUFFICES ASSUME NEW j \in 1..N, NEW k \in 1..N, j < k
                 PROVE  pos[back[k]] < pos[back[j]]
    OBVIOUS
  <2>2. j - 1 \in 0..(N - 1) /\ k - 1 \in 0..(N - 1) /\ j - 1 < k - 1
    BY <2>1
  <2>3. rank[f[k - 1]] < rank[f[j - 1]]
    BY <1>5, <2>2 DEF Falls
  <2>4. back[k] = f[k - 1] /\ back[j] = f[j - 1]
    BY <1>7
  <2>5. QED BY <1>3, <1>8, <2>3, <2>4
<1>10. ToSet(back) = {x \in InTree(L) : pos[x] <= pos[e]}
  BY <1>2, <1>6, BackIs
<1>11. m \in InTree(L) /\ pos[m] <= pos[e] /\ m \in Supers(L, m)
  BY <1>2, SupersIn
<1>12. PICK n \in 1..N : back[n] = m
  BY <1>8, <1>10, <1>11 DEF ToSet
<1>13. \A x \in InTree(L) : pos[x] \in Nat
  BY <1>3
<1>14. \A k \in 1..N : back[k] = m => k = n
  <2>1. SUFFICES ASSUME NEW k \in 1..N, back[k] = m, k # n PROVE FALSE
    OBVIOUS
  <2>2. k < n \/ n < k
    BY <2>1
  <2>3. pos[m] < pos[m]
    BY <1>9, <1>12, <2>1, <2>2
  <2>4. QED BY <1>13, <2>3
<1>15. Contains(back, m)
  BY <1>7, <1>12 DEF Contains
<1>16. (CHOOSE k \in DOMAIN back : back[k] = m) = n
  BY <1>8, <1>12, <1>14
<1>17. Family(L, m) = SubSeq(back, 1, n)
  BY <1>1, <1>6, <1>15, <1>16 DEF Family
<1>18. PICK fam : fam = Family(L, m)
  OBVIOUS
<1>19. fam = [k \in 1..n |-> back[k]]
  <2>1. SubSeq(back, 1, n) = [k \in 1..(n - 1 + 1) |-> back[k + 1 - 1]]
    BY <1>7
  <2>2. n - 1 + 1 = n /\ \A k \in 1..n : k + 1 - 1 = k
    BY <1>12
  <2>3. QED BY <1>17, <1>18, <2>1, <2>2
<1>20. n \in Nat \ {0} /\ \A k \in 1..n : k \in 1..N
  BY <1>4
<1>21. DOMAIN fam = 1..n /\ fam[n] = m /\ \A k \in 1..n : fam[k] = back[k] /\ fam[k] \in InTree(L)
  BY <1>8, <1>12, <1>19, <1>20
<1>22. fam \in Seq(InTree(L)) /\ Len(fam) = n
  BY <1>19, <1>20, <1>21
<1>23. \A j, k \in 1..n : j < k => pos[fam[k]] < pos[fam[j]]
  BY <1>9, <1>20, <1>21
<1>24. ASSUME NEW x \in InTree(L)
       PROVE  m \in Supers(L, x) <=> \E k \in 1..n : fam[k] = x
  <2>1. ASSUME m \in Supers(L, x) PROVE \E k \in 1..n : fam[k] = x
    <3>1. pos[x] <= pos[e] /\ pos[m] <= pos[x]
      BY <1>2, <2>1, SupersIn
    <3>2. PICK k \in 1..N : back[k] = x
      BY <1>8, <1>10, <3>1 DEF ToSet
    <3>3. ~(n < k)
      <4>1. SUFFICES ASSUME n < k PROVE FALSE
        OBVIOUS
      <4>2. pos[x] < pos[m]
        BY <1>9, <1>12, <3>2, <4>1
      <4>3. QED BY <1>11, <1>13, <3>1, <4>2
    <3>4. k \in 1..n
      BY <3>3
    <3>5. QED BY <1>21, <3>2, <3>4
  <2>2. ASSUME NEW k \in 1..n, fam[k] = x PROVE m \in Supers(L, x)
    <3>1. back[k] = x /\ k \in 1..N
      BY <1>20, <1>21, <2>2
    <3>2. pos[m] <= pos[x]
      <4>1. CASE k = n
        BY <1>11, <1>12, <1>13, <3>1, <4>1
      <4>2. CASE k # n
        <5>1. k < n
          BY <4>2
        <5>2. pos[m] < pos[x]
          BY <1>9, <1>12, <3>1, <5>1
        <5>3. QED BY <1>11, <1>13, <5>2
      <4>3. QED BY <4>1, <4>2
    <3>3. pos[x] <= pos[e]
      BY <1>8, <1>10, <3>1 DEF ToSet
    <3>4. QED BY <1>2, <3>2, <3>3, SupersBetween
  <2>3. QED BY <2>1, <2>2
<1>25. FamilySeq(L, pos, m, n, fam)
  BY <1>18, <1>20, <1>21, <1>22, <1>23, <1>24 DEF FamilySeq
<1>26. QED BY <1>25

\* One that is in no tree is alone.
LEMMA OutOfTree ==
  ASSUME NEW L, NEW pos, NEW B, Tree(L, pos, B), Lists(L, pos), NEW m \in Custodian \ InTree(L)
  PROVE  /\ Supers(L, m) = {m} /\ Path(L.global_prev, m) = <<m>>
         /\ Family(L, m) = <<m>>
         /\ \A x \in Custodian : m \in Supers(L, x) => x = m
<1>1. L.parent[m] = Null /\ L.global_prev[m] = Null /\ L.children[m] = Null /\ m # Root
  BY DEF InTree, Tree, Lists
<1>2. PICK f : f = [k \in 0..1 |-> IF k = 0 THEN m ELSE Null]
  OBVIOUS
<1>3. f[0] = m /\ f[1] = Null /\ 0..(1 - 1) = {0} /\ 0 + 1 = 1
  BY <1>2
<1>4. Distinct(1, f)
  BY <1>3 DEF Distinct
<1>5. IsPath(L.parent, m, 1, f) /\ IsPath(L.global_prev, m, 1, f)
  BY <1>1, <1>3 DEF IsPath
<1>6. Path(L.parent, m) = [k \in 1..1 |-> f[k - 1]] /\ Path(L.global_prev, m) = [k \in 1..1 |-> f[k - 1]]
  BY <1>4, <1>5, PathIs
<1>7. [k \in 1..1 |-> f[k - 1]] = <<m>>
  BY <1>3
<1>8. Supers(L, m) = {m}
  BY <1>6, <1>7 DEF Supers, ToSet
<1>9. LastDescendant(L, m) = m
  <2>1. PICK N \in Nat : N = Cardinality(Custodian)
    BY CustodianAssumption, FS_CardinalityType
  <2>2. PICK g : g = CHOOSE h : Downs(L, m, N, h)
    OBVIOUS
  <2>3. Downs(L, m, N, g)
    BY <2>2, DownsExists
  <2>4. PICK P : P = {k \in 0..N : g[k] = m}
    OBVIOUS
  <2>5. 0 \in P
    BY <2>1, <2>3, <2>4 DEF Downs
  <2>6. ASSUME NEW k \in 0..(N - 1), k \in P PROVE k + 1 \in P
    <3>1. k + 1 \in 0..N /\ k + 1 # 0 /\ (k + 1) - 1 = k
      BY <2>1
    <3>2. g[k + 1] = IF L.children[g[k]] = Null THEN g[k] ELSE Last(Children(L, g[k]))
      BY <2>3, <3>1 DEF Downs
    <3>3. QED BY <1>1, <2>4, <2>6, <3>1, <3>2
  <2>7. \A k \in 0..N : k \in P
    BY <2>5, <2>6, UpTo
  <2>8. g[N] = m
    BY <2>1, <2>4, <2>7
  <2>9. QED BY <2>1, <2>2, <2>8 DEF LastDescendant, Downs
<1>10. Family(L, m) = <<m>>
  <2>1. PICK back : back = <<m>>
    OBVIOUS
  <2>2. Path(L.global_prev, LastDescendant(L, m)) = back
    BY <1>6, <1>7, <1>9, <2>1
  <2>3. DOMAIN back = {1} /\ back[1] = m /\ Len(back) = 1 /\ 1..1 = {1}
    BY <2>1
  <2>4. Contains(back, m)
    BY <2>3 DEF Contains
  <2>5. (CHOOSE k \in DOMAIN back : back[k] = m) = 1
    <3>1. DOMAIN back = {1}
      BY <2>3
    <3>2. \A k \in DOMAIN back : k = 1
      BY <3>1
    <3>3. 1 \in DOMAIN back /\ back[1] = m
      BY <2>3
    <3>4. QED BY <3>2, <3>3, Zenon
  <2>6. SubSeq(back, 1, 1) = back
    <3>1. back \in Seq({m}) /\ back = [k \in 1..1 |-> back[k]]
      BY <2>1
    <3>2. SubSeq(back, 1, 1) = [k \in 1..(1 - 1 + 1) |-> back[k + 1 - 1]]
      BY <3>1
    <3>3. 1 - 1 + 1 = 1 /\ \A k \in 1..1 : k + 1 - 1 = k
      OBVIOUS
    <3>4. QED BY <3>1, <3>2, <3>3
  <2>7. QED BY <2>1, <2>2, <2>4, <2>5, <2>6 DEF Family
<1>11. ASSUME NEW x \in Custodian, m \in Supers(L, x)
       PROVE  x = m
  <2>1. CASE x \in InTree(L)
    BY <1>11, <2>1, SupersIn
  <2>2. CASE x \notin InTree(L)
    <3>1. L.parent[x] = Null
      BY <2>2 DEF InTree
    <3>2. PICK g : g = [k \in 0..1 |-> IF k = 0 THEN x ELSE Null]
      OBVIOUS
    <3>3. g[0] = x /\ g[1] = Null /\ 0..(1 - 1) = {0} /\ 0 + 1 = 1
      BY <3>2
    <3>4. IsPath(L.parent, x, 1, g) /\ Distinct(1, g)
      BY <3>1, <3>3 DEF IsPath, Distinct
    <3>5. Path(L.parent, x) = [k \in 1..1 |-> g[k - 1]]
      BY <3>4, PathIs
    <3>6. [k \in 1..1 |-> g[k - 1]] = <<x>>
      BY <3>3
    <3>7. Supers(L, x) = {x}
      BY <3>5, <3>6 DEF Supers, ToSet
    <3>8. QED BY <1>11, <3>7
  <2>3. QED BY <2>1, <2>2
<1>12. QED BY <1>6, <1>7, <1>8, <1>10, <1>11

-----------------------------------------------------------------------------
\* Links that agree where a path goes give the same path.
LEMMA PathAgree ==
  ASSUME NEW S, NEW link, NEW rank, Falling(S, link, rank), NEW other,
         \A x \in S : other[x] = link[x]
  PROVE  \A x \in S : Path(other, x) = Path(link, x)
<1>1. SUFFICES ASSUME NEW x \in S PROVE Path(other, x) = Path(link, x)
  OBVIOUS
<1>2. PICK n \in Nat \ {0} : \E f : Falls(S, link, rank, x, n, f)
  BY FallsExists
<1>3. PICK f : Falls(S, link, rank, x, n, f)
  BY <1>2
<1>4. Falling(S, other, rank)
  BY DEF Falling
<1>5. Falls(S, other, rank, x, n, f)
  BY <1>3 DEF Falls, IsPath
<1>6. Path(link, x) = [k \in 1..n |-> f[k - 1]]
  BY <1>3, FallsPath
<1>7. Path(other, x) = [k \in 1..n |-> f[k - 1]]
  BY <1>4, <1>5, FallsPath
<1>8. QED BY <1>6, <1>7

\* The list of the children has all of them.
LEMMA ChildrenIs ==
  ASSUME NEW L, NEW pos, NEW B, Tree(L, pos, B), Lists(L, pos), NEW p \in InTree(L)
  PROVE  ToSet(Children(L, p)) = Kids(L, p)
<1> DEFINE K == Kids(L, p)
<1>1. PICK rank : KidsRank(L, pos, K, rank)
  BY KidsFall
<1>2. /\ rank \in [K -> Nat]
      /\ \A x, y \in K : pos[x] < pos[y] => rank[y] < rank[x]
      /\ \A x \in K : /\ After(K, pos, x, L.sibling[x])
                      /\ L.sibling[x] # Null => L.sibling[x] \in K
  BY <1>1 DEF KidsRank
<1>3. Falling(K, L.sibling, rank)
  BY <1>1 DEF KidsRank
<1>4. \A x \in K : x \in InTree(L) /\ pos[x] \in Nat /\ pos[p] < pos[x]
  <2>1. K \in SUBSET (InTree(L) \ {Root}) /\ \A x \in K : pos[p] < pos[x] /\ pos[x] \in 0..B
    BY KidsIn
  <2>2. B \in Nat
    BY DEF Tree
  <2>3. QED BY <2>1, <2>2
<1>5. \A x, y \in K : pos[x] = pos[y] => x = y
  BY <1>4 DEF Tree
<1>6. PICK P : P = {x \in K : ToSet(Path(L.sibling, x)) = {y \in K : pos[x] <= pos[y]}}
  OBVIOUS
<1>7. ASSUME NEW x \in K, \A y \in K : rank[y] < rank[x] => y \in P
      PROVE  x \in P
  <2>1. CASE L.sibling[x] = Null
    <3>1. ToSet(Path(L.sibling, x)) = {x}
      BY <1>3, <2>1, PathStep
    <3>2. \A y \in K : pos[y] <= pos[x]
      BY <1>2, <2>1 DEF After
    <3>3. {y \in K : pos[x] <= pos[y]} = {x}
      BY <1>4, <1>5, <3>2
    <3>4. QED BY <1>6, <3>1, <3>3
  <2>2. CASE L.sibling[x] # Null
    <3>1. PICK y : y = L.sibling[x]
      OBVIOUS
    <3>2. y \in K /\ pos[x] < pos[y] /\ \A d \in K : pos[x] < pos[d] => pos[y] <= pos[d]
      BY <1>2, <2>2, <3>1 DEF After
    <3>3. ToSet(Path(L.sibling, x)) = {x} \cup ToSet(Path(L.sibling, y))
      BY <1>3, <2>2, <3>1, PathStep
    <3>4. y \in P
      BY <1>2, <1>7, <3>2
    <3>5. \A d \in K : pos[x] <= pos[d] <=> d = x \/ pos[y] <= pos[d]
      BY <1>4, <1>5, <3>2
    <3>6. QED BY <1>6, <3>3, <3>4, <3>5
  <2>3. QED BY <2>1, <2>2
<1>8. \A x \in K : x \in P
  BY <1>2, <1>7, OnRank
<1>9. After(K, pos, p, L.children[p])
  BY DEF Lists
<1>10. CASE L.children[p] = Null
  <2>1. K = {}
    <3>1. \A x \in K : pos[x] <= pos[p]
      BY <1>9, <1>10 DEF After
    <3>2. pos[p] \in Nat
      BY RootIn DEF Tree
    <3>3. QED BY <1>4, <3>1, <3>2
  <2>2. Children(L, p) = <<>>
    BY <1>10, PathNull DEF Children
  <2>3. ToSet(Children(L, p)) = {}
    BY <2>2 DEF ToSet
  <2>4. QED BY <2>1, <2>3
<1>11. CASE L.children[p] # Null
  <2>1. PICK x : x = L.children[p]
    OBVIOUS
  <2>2. x \in K /\ \A d \in K : pos[p] < pos[d] => pos[x] <= pos[d]
    BY <1>9, <1>11, <2>1 DEF After
  <2>3. {d \in K : pos[x] <= pos[d]} = K
    BY <1>4, <2>2
  <2>4. ToSet(Path(L.sibling, x)) = K
    BY <1>6, <1>8, <2>2, <2>3
  <2>5. QED BY <2>1, <2>4 DEF Children
<1>12. QED BY <1>10, <1>11

\* What comes next is what this one comes before.
LEMMA NextPrev ==
  ASSUME NEW L, NEW pos, NEW B, Tree(L, pos, B), Lists(L, pos)
  PROVE  \A c, d \in InTree(L) : L.global_next[c] = d <=> L.global_prev[d] = c
<1>1. SUFFICES ASSUME NEW c \in InTree(L), NEW d \in InTree(L)
               PROVE  L.global_next[c] = d <=> L.global_prev[d] = c
  OBVIOUS
<1>2. Null \notin InTree(L) /\ \A x \in InTree(L) : pos[x] \in Nat
  BY RootIn DEF Tree
<1>3. \A x, y \in InTree(L) : pos[x] = pos[y] => x = y
  BY DEF Tree
<1>4. PICK x, y : x = L.global_next[c] /\ y = L.global_prev[d]
  OBVIOUS
<1>5. After(InTree(L), pos, c, x) /\ Before(InTree(L), pos, d, y)
  BY <1>4 DEF Tree, Lists
<1>6. ASSUME x = d PROVE y = c
  <2>1. pos[c] < pos[d] /\ \A e \in InTree(L) : pos[c] < pos[e] => pos[d] <= pos[e]
    BY <1>2, <1>5, <1>6 DEF After
  <2>2. y # Null
    BY <1>2, <1>5, <2>1 DEF Before
  <2>3. y \in InTree(L) /\ pos[y] < pos[d] /\ pos[c] <= pos[y]
    BY <1>5, <2>1, <2>2 DEF Before
  <2>4. ~(pos[c] < pos[y])
    BY <1>2, <2>1, <2>3
  <2>5. QED BY <1>2, <1>3, <2>3, <2>4
<1>7. ASSUME y = c PROVE x = d
  <2>1. pos[c] < pos[d] /\ \A e \in InTree(L) : pos[e] < pos[d] => pos[e] <= pos[c]
    BY <1>2, <1>5, <1>7 DEF Before
  <2>2. x # Null
    BY <1>2, <1>5, <2>1 DEF After
  <2>3. x \in InTree(L) /\ pos[c] < pos[x] /\ pos[x] <= pos[d]
    BY <1>5, <2>1, <2>2 DEF After
  <2>4. ~(pos[x] < pos[d])
    BY <1>2, <2>1, <2>3
  <2>5. QED BY <1>2, <1>3, <2>3, <2>4
<1>8. QED BY <1>4, <1>6, <1>7

\* r is taken out of an order.
LEMMA AfterSkip ==
  ASSUME NEW S, NEW pos, NEW r \in S, NEW c, NEW x, Null \notin S, pos[c] \in Nat,
         \A d \in S : pos[d] \in Nat, \A d \in S : pos[d] = pos[r] => d = r,
         After(S, pos, c, r), After(S, pos, r, x)
  PROVE  After(S \ {r}, pos, c, x)
<1>1. pos[c] < pos[r] /\ \A d \in S : pos[c] < pos[d] => pos[r] <= pos[d]
  BY DEF After
<1>2. CASE x = Null
  <2>1. \A d \in S : pos[d] <= pos[r]
    BY <1>2 DEF After
  <2>2. \A d \in S \ {r} : pos[d] <= pos[c]
    BY <1>1, <2>1
  <2>3. QED BY <1>2, <2>2 DEF After
<1>3. CASE x # Null
  <2>1. x \in S /\ pos[r] < pos[x] /\ \A d \in S : pos[r] < pos[d] => pos[x] <= pos[d]
    BY <1>3 DEF After
  <2>2. x \in S \ {r} /\ pos[c] < pos[x]
    BY <1>1, <2>1
  <2>3. \A d \in S \ {r} : pos[c] < pos[d] => pos[x] <= pos[d]
    <3>1. SUFFICES ASSUME NEW d \in S \ {r}, pos[c] < pos[d] PROVE pos[x] <= pos[d]
      OBVIOUS
    <3>2. pos[r] <= pos[d] /\ pos[d] # pos[r]
      BY <1>1, <3>1
    <3>3. pos[r] < pos[d]
      BY <3>2
    <3>4. QED BY <2>1, <3>3
  <2>4. QED BY <1>3, <2>2, <2>3 DEF After
<1>4. QED BY <1>2, <1>3

\* The same for what comes before.
LEMMA BeforeSkip ==
  ASSUME NEW S, NEW pos, NEW r \in S, NEW c, NEW x, Null \notin S, pos[c] \in Nat,
         \A d \in S : pos[d] \in Nat, \A d \in S : pos[d] = pos[r] => d = r,
         Before(S, pos, c, r), Before(S, pos, r, x)
  PROVE  Before(S \ {r}, pos, c, x)
<1>1. pos[r] < pos[c] /\ \A d \in S : pos[d] < pos[c] => pos[d] <= pos[r]
  BY DEF Before
<1>2. CASE x = Null
  <2>1. \A d \in S : pos[r] <= pos[d]
    BY <1>2 DEF Before
  <2>2. \A d \in S \ {r} : pos[c] <= pos[d]
    BY <1>1, <2>1
  <2>3. QED BY <1>2, <2>2 DEF Before
<1>3. CASE x # Null
  <2>1. x \in S /\ pos[x] < pos[r] /\ \A d \in S : pos[d] < pos[r] => pos[d] <= pos[x]
    BY <1>3 DEF Before
  <2>2. x \in S \ {r} /\ pos[x] < pos[c]
    BY <1>1, <2>1
  <2>3. \A d \in S \ {r} : pos[d] < pos[c] => pos[d] <= pos[x]
    <3>1. SUFFICES ASSUME NEW d \in S \ {r}, pos[d] < pos[c] PROVE pos[d] <= pos[x]
      OBVIOUS
    <3>2. pos[d] <= pos[r] /\ pos[d] # pos[r]
      BY <1>1, <3>1
    <3>3. pos[d] < pos[r]
      BY <3>2
    <3>4. QED BY <2>1, <3>3
  <2>4. QED BY <1>3, <2>2, <2>3 DEF Before
<1>4. QED BY <1>2, <1>3

\* Neighbours stay neighbours when something else is taken out.
LEMMA Keep ==
  ASSUME NEW S, NEW pos, NEW r, NEW c, NEW x, x # r
  PROVE  /\ After(S, pos, c, x) => After(S \ {r}, pos, c, x)
         /\ Before(S, pos, c, x) => Before(S \ {r}, pos, c, x)
BY DEF After, Before

-----------------------------------------------------------------------------
\* A new custodian.

\* insert_custodian, field by field.
LEMMA InsertedIs ==
  ASSUME NEW L \in LinkType, NEW m \in Custodian, NEW p \in Custodian, m # p,
         NEW M, M = Inserted(L, m, p), NEW n, n = L.global_next[p], n # m
  PROVE  /\ M \in LinkType
         /\ M.parent[m] = p /\ M.sibling[m] = L.children[p] /\ M.children[p] = m
         /\ M.global_next[m] = n /\ M.global_prev[m] = p /\ M.global_next[p] = m
         /\ n # Null => M.global_prev[n] = m
         /\ M.last = IF n = Null THEN m ELSE L.last
         /\ \A c \in Custodian \ {m} : /\ M.parent[c] = L.parent[c] /\ M.sibling[c] = L.sibling[c]
                                       /\ c # n => M.global_prev[c] = L.global_prev[c]
         /\ \A c \in Custodian \ {p} : M.children[c] = L.children[c]
         /\ \A c \in Custodian \ {m, p} : M.global_next[c] = L.global_next[c]
<1>1. PICK K : K = [L EXCEPT !.parent[m] = p,
                       !.sibling[m] = L.children[p], !.children[p] = m,
                       !.global_next[m] = n, !.global_prev[m] = p, !.global_next[p] = m]
  OBVIOUS
<1>2. M = IF n = Null THEN [K EXCEPT !.last = m] ELSE [K EXCEPT !.global_prev[n] = m]
  BY <1>1 DEF Inserted
<1>3. /\ n \in Custodian \cup {Null} /\ L.children[p] \in Custodian \cup {Null}
      /\ L.parent \in [Custodian -> Custodian \cup {Null}]
      /\ L.children \in [Custodian -> Custodian \cup {Null}]
      /\ L.sibling \in [Custodian -> Custodian \cup {Null}]
      /\ L.global_next \in [Custodian -> Custodian \cup {Null}]
      /\ L.global_prev \in [Custodian -> Custodian \cup {Null}]
      /\ L.last \in Custodian
  BY DEF LinkType
<1>4. /\ K.parent = [L.parent EXCEPT ![m] = p]
      /\ K.sibling = [L.sibling EXCEPT ![m] = L.children[p]]
      /\ K.children = [L.children EXCEPT ![p] = m]
      /\ K.global_next = [[L.global_next EXCEPT ![m] = n] EXCEPT ![p] = m]
      /\ K.global_prev = [L.global_prev EXCEPT ![m] = p]
      /\ K.last = L.last
      /\ K = [parent |-> K.parent, children |-> K.children, sibling |-> K.sibling,
              global_next |-> K.global_next, global_prev |-> K.global_prev, last |-> K.last]
  BY <1>1 DEF LinkType
<1>5. /\ K.parent \in [Custodian -> Custodian \cup {Null}]
      /\ K.children \in [Custodian -> Custodian \cup {Null}]
      /\ K.sibling \in [Custodian -> Custodian \cup {Null}]
      /\ K.global_next \in [Custodian -> Custodian \cup {Null}]
      /\ K.global_prev \in [Custodian -> Custodian \cup {Null}]
      /\ K.last \in Custodian
  BY <1>3, <1>4
<1>6. /\ M.parent = K.parent /\ M.sibling = K.sibling /\ M.children = K.children
      /\ M.global_next = K.global_next
      /\ M.global_prev = IF n = Null THEN K.global_prev ELSE [K.global_prev EXCEPT ![n] = m]
      /\ M.last = IF n = Null THEN m ELSE L.last
      /\ M = [parent |-> M.parent, children |-> M.children, sibling |-> M.sibling,
              global_next |-> M.global_next, global_prev |-> M.global_prev, last |-> M.last]
  BY <1>2, <1>4
<1>7. M.global_prev \in [Custodian -> Custodian \cup {Null}] /\ M.last \in Custodian
  BY <1>3, <1>5, <1>6
<1>8. M \in LinkType
  BY <1>5, <1>6, <1>7 DEF LinkType
<1>9. /\ M.parent[m] = p /\ M.sibling[m] = L.children[p] /\ M.children[p] = m
      /\ M.global_next[m] = n /\ M.global_next[p] = m
  BY <1>3, <1>4, <1>6
<1>10. M.global_prev[m] = p /\ (n # Null => M.global_prev[n] = m)
  BY <1>3, <1>4, <1>5, <1>6
<1>11. \A c \in Custodian \ {m} : /\ M.parent[c] = L.parent[c] /\ M.sibling[c] = L.sibling[c]
                                  /\ c # n => M.global_prev[c] = L.global_prev[c]
  BY <1>3, <1>4, <1>5, <1>6
<1>12. \A c \in Custodian \ {p} : M.children[c] = L.children[c]
  BY <1>3, <1>4, <1>6
<1>13. \A c \in Custodian \ {m, p} : M.global_next[c] = L.global_next[c]
  BY <1>3, <1>4, <1>6
<1>14. QED BY <1>6, <1>8, <1>9, <1>10, <1>11, <1>12, <1>13

\* m comes directly after p.
Moved(S, pos, m, p, new) ==
  /\ \A c, d \in S : /\ new[c] < new[d] <=> pos[c] < pos[d]
                     /\ new[c] <= new[d] <=> pos[c] <= pos[d]
  /\ \A c \in S : /\ new[c] < new[m] <=> pos[c] <= pos[p]
                  /\ new[c] <= new[m] <=> pos[c] <= pos[p]
                  /\ new[m] < new[c] <=> pos[p] < pos[c]
                  /\ new[m] <= new[c] <=> pos[p] < pos[c]
  /\ new[m] <= new[m] /\ ~(new[m] < new[m])

Moving(S, pos, A, m, p, new) ==
  /\ new \in [Custodian -> 0..A]
  /\ \A c, d \in S \cup {m} : new[c] = new[d] => c = d
  /\ Moved(S, pos, m, p, new)

\* The order with m in it, and its bounds.
LEMMA MoveUp ==
  ASSUME NEW B \in Nat, NEW pos \in [Custodian -> 0..B], NEW S \in SUBSET Custodian,
         NEW m \in Custodian, m \notin S, NEW p \in S,
         \A c, d \in S : pos[c] = pos[d] => c = d
  PROVE  \E new : Moving(S, pos, B + 1, m, p, new)
<1>1. PICK new : new = [c \in Custodian |-> IF c = m THEN pos[p] + 1
                          ELSE IF pos[p] < pos[c] THEN pos[c] + 1 ELSE pos[c]]
  OBVIOUS
<1>2. pos[p] \in 0..B /\ \A c \in Custodian : pos[c] \in 0..B
  OBVIOUS
<1>3. new \in [Custodian -> 0..(B + 1)]
  BY <1>1, <1>2
<1>4. new[m] = pos[p] + 1 /\ \A c \in S : new[c] = IF pos[p] < pos[c] THEN pos[c] + 1 ELSE pos[c]
  BY <1>1
<1>5. ASSUME NEW c \in S, NEW d \in S
      PROVE  /\ new[c] < new[d] <=> pos[c] < pos[d]
             /\ new[c] <= new[d] <=> pos[c] <= pos[d]
             /\ new[c] = new[d] => pos[c] = pos[d]
  BY <1>2, <1>4
<1>6. ASSUME NEW c \in S
      PROVE  /\ new[c] < new[m] <=> pos[c] <= pos[p]
             /\ new[c] <= new[m] <=> pos[c] <= pos[p]
             /\ new[m] < new[c] <=> pos[p] < pos[c]
             /\ new[m] <= new[c] <=> pos[p] < pos[c]
             /\ new[c] # new[m]
  BY <1>2, <1>4
<1>7. new[m] <= new[m] /\ ~(new[m] < new[m])
  BY <1>2, <1>4
<1>8. Moved(S, pos, m, p, new)
  BY <1>5, <1>6, <1>7 DEF Moved
<1>9. \A c, d \in S \cup {m} : new[c] = new[d] => c = d
  BY <1>5, <1>6
<1>10. QED BY <1>3, <1>8, <1>9 DEF Moving

\* The orders with m in them.
LEMMA AfterMoved ==
  ASSUME NEW S, NEW pos, NEW m, NEW p, NEW new, NEW T, T \subseteq S, p \in S, m \notin S,
         Null \notin S, m # Null,
         Moved(S, pos, m, p, new), \A c \in S : pos[c] \in Nat,
         \A c, d \in S : pos[c] = pos[d] => c = d
  PROVE  /\ \A c \in S : \A x : After(T, pos, c, x) => After(T, new, c, x)
         /\ \A c \in S : \A x : /\ Before(T, pos, c, x)
                                => Before(T, new, c, x)
         /\ \A x : After(T, pos, p, x) => After(T \cup {m}, new, m, x)
         /\ After(T \cup {m}, new, p, m) /\ Before(S \cup {m}, new, m, p)
         /\ \A c \in S \ {p} : \A x : (pos[p] < pos[c] \/ p \in T) /\ After(T, pos, c, x)
                                        => After(T \cup {m}, new, c, x)
         /\ \A c \in S : After(S, pos, p, c) => Before(S \cup {m}, new, c, m)
         /\ \A c, x \in S : Before(S, pos, c, x) /\ x # p => Before(S \cup {m}, new, c, x)
         /\ \A c \in S : Before(S, pos, c, Null) => Before(S \cup {m}, new, c, Null)
<1>1. \A c \in S : \A x : After(T, pos, c, x) => After(T, new, c, x)
  BY DEF After, Moved
<1>2. \A c \in S : \A x : Before(T, pos, c, x) => Before(T, new, c, x)
  BY DEF Before, Moved
<1>3. \A x : After(T, pos, p, x) => After(T \cup {m}, new, m, x)
  <2>1. SUFFICES ASSUME NEW x, After(T, pos, p, x) PROVE After(T \cup {m}, new, m, x)
    OBVIOUS
  <2>2. CASE x = Null
    <3>1. \A d \in T : pos[d] <= pos[p]
      BY <2>1, <2>2 DEF After
    <3>2. \A d \in T \cup {m} : new[d] <= new[m]
      BY <3>1 DEF Moved
    <3>3. QED BY <2>2, <3>2 DEF After
  <2>3. CASE x # Null
    <3>1. x \in T /\ pos[p] < pos[x] /\ \A d \in T : pos[p] < pos[d] => pos[x] <= pos[d]
      BY <2>1, <2>3 DEF After
    <3>2. new[m] < new[x] /\ \A d \in T \cup {m} : new[m] < new[d] => new[x] <= new[d]
      BY <3>1 DEF Moved
    <3>3. QED BY <2>3, <3>1, <3>2 DEF After
  <2>4. QED BY <2>2, <2>3
<1>4. After(T \cup {m}, new, p, m)
  <2>1. new[p] < new[m] /\ new[m] <= new[m]
    BY DEF Moved
  <2>2. \A d \in T : new[p] < new[d] => new[m] <= new[d]
    BY DEF Moved
  <2>3. QED BY <2>1, <2>2 DEF After
<1>5. Before(S \cup {m}, new, m, p)
  <2>0. p # Null
    OBVIOUS
  <2>1. new[p] < new[m] /\ ~(new[m] < new[m])
    BY DEF Moved
  <2>2. \A d \in S : new[d] < new[m] => new[d] <= new[p]
    BY DEF Moved
  <2>3. QED BY <2>0, <2>1, <2>2 DEF Before
<1>6. ASSUME NEW c \in S \ {p}, NEW x, pos[p] < pos[c] \/ p \in T, After(T, pos, c, x)
      PROVE  After(T \cup {m}, new, c, x)
  <2>0. pos[c] # pos[p] /\ pos[c] \in Nat /\ pos[p] \in Nat
    OBVIOUS
  <2>1. CASE x = Null
    <3>1. \A d \in T : pos[d] <= pos[c]
      BY <1>6, <2>1 DEF After
    <3>2. pos[p] < pos[c]
      BY <1>6, <2>0, <3>1
    <3>3. \A d \in T \cup {m} : new[d] <= new[c]
      BY <3>1, <3>2 DEF Moved
    <3>4. QED BY <2>1, <3>3 DEF After
  <2>2. CASE x # Null
    <3>1. x \in T /\ pos[c] < pos[x] /\ \A d \in T : pos[c] < pos[d] => pos[x] <= pos[d]
      BY <1>6, <2>2 DEF After
    <3>2. new[c] < new[x] /\ \A d \in T : new[c] < new[d] => new[x] <= new[d]
      BY <3>1 DEF Moved
    <3>3. ASSUME new[c] < new[m] PROVE new[x] <= new[m]
      <4>1. pos[c] <= pos[p]
        BY <3>3 DEF Moved
      <4>2. p \in T /\ pos[c] < pos[p]
        BY <1>6, <2>0, <4>1
      <4>3. pos[x] <= pos[p]
        BY <3>1, <4>2
      <4>4. QED BY <3>1, <4>3 DEF Moved
    <3>4. QED BY <2>2, <3>1, <3>2, <3>3 DEF After
  <2>3. QED BY <2>1, <2>2
<1>7. ASSUME NEW c \in S, After(S, pos, p, c)
      PROVE  Before(S \cup {m}, new, c, m)
  <2>1. c # Null
    OBVIOUS
  <2>2. pos[p] < pos[c] /\ \A d \in S : pos[p] < pos[d] => pos[c] <= pos[d]
    BY <1>7, <2>1 DEF After
  <2>3. new[m] < new[c] /\ new[m] <= new[m]
    BY <2>2 DEF Moved
  <2>4. ASSUME NEW d \in S, new[d] < new[c] PROVE new[d] <= new[m]
    <3>1. pos[d] < pos[c] /\ pos[d] \in Nat /\ pos[c] \in Nat /\ pos[p] \in Nat
      BY <2>4 DEF Moved
    <3>2. pos[d] <= pos[p]
      BY <2>2, <3>1
    <3>3. QED BY <3>2 DEF Moved
  <2>5. QED BY <2>3, <2>4 DEF Before
<1>8. ASSUME NEW c \in S, NEW x \in S, Before(S, pos, c, x), x # p
      PROVE  Before(S \cup {m}, new, c, x)
  <2>1. x # Null
    OBVIOUS
  <2>2. pos[x] < pos[c] /\ \A d \in S : pos[d] < pos[c] => pos[d] <= pos[x]
    BY <1>8, <2>1 DEF Before
  <2>3. new[x] < new[c] /\ \A d \in S : new[d] < new[c] => new[d] <= new[x]
    BY <2>2 DEF Moved
  <2>4. ASSUME new[m] < new[c] PROVE new[m] <= new[x]
    <3>1. pos[p] < pos[c]
      BY <2>4 DEF Moved
    <3>2. pos[p] <= pos[x] /\ pos[p] # pos[x] /\ pos[p] \in Nat /\ pos[x] \in Nat
      BY <1>8, <2>2, <3>1
    <3>3. pos[p] < pos[x]
      BY <3>2
    <3>4. QED BY <3>3 DEF Moved
  <2>5. QED BY <2>1, <2>3, <2>4 DEF Before
<1>9. ASSUME NEW c \in S, Before(S, pos, c, Null)
      PROVE  Before(S \cup {m}, new, c, Null)
  <2>1. \A d \in S : pos[c] <= pos[d]
    BY <1>9 DEF Before
  <2>2. \A d \in S \cup {m} : new[c] <= new[d]
    BY <2>1 DEF Moved
  <2>3. QED BY <2>2 DEF Before
<1>10. QED BY <1>1, <1>2, <1>3, <1>4, <1>5, <1>6, <1>7, <1>8, <1>9

\* insert_custodian keeps the tree and its lists.
LEMMA InsertKeeps ==
  ASSUME NEW L, NEW pos, NEW B, Tree(L, pos, B), Lists(L, pos),
         NEW m \in Custodian \ InTree(L), NEW p \in InTree(L)
  PROVE  /\ InTree(Inserted(L, m, p)) = InTree(L) \cup {m}
         /\ \E new : \E A : Tree(Inserted(L, m, p), new, A) /\ Lists(Inserted(L, m, p), new)
<1>1. PICK S : S = InTree(L)
  OBVIOUS
<1>2. PICK M : M = Inserted(L, m, p)
  OBVIOUS
<1>3. PICK n : n = L.global_next[p]
  OBVIOUS
<1>4. /\ S \in SUBSET Custodian /\ Root \in S /\ Null \notin S /\ m \notin S /\ p \in S
      /\ m \in Custodian /\ m # Null /\ m # Root /\ p # m
  BY <1>1, RootIn, CustodianAssumption
<1>5. After(S, pos, p, n)
  BY <1>1, <1>3 DEF Lists
<1>6. n = Null \/ n \in S
  BY <1>5 DEF After
<1>7. L \in LinkType
  BY DEF Lists
<1>8. /\ M \in LinkType
      /\ M.parent[m] = p /\ M.sibling[m] = L.children[p] /\ M.children[p] = m
      /\ M.global_next[m] = n /\ M.global_prev[m] = p /\ M.global_next[p] = m
      /\ n # Null => M.global_prev[n] = m
      /\ M.last = IF n = Null THEN m ELSE L.last
      /\ \A c \in Custodian \ {m} : /\ M.parent[c] = L.parent[c] /\ M.sibling[c] = L.sibling[c]
                                    /\ c # n => M.global_prev[c] = L.global_prev[c]
      /\ \A c \in Custodian \ {p} : M.children[c] = L.children[c]
      /\ \A c \in Custodian \ {m, p} : M.global_next[c] = L.global_next[c]
  BY <1>2, <1>3, <1>4, <1>6, <1>7, InsertedIs
<1>9. /\ B \in Nat /\ pos \in [Custodian -> 0..B]
      /\ \A c, d \in S : pos[c] = pos[d] => c = d
      /\ L.parent[Root] = Null
      /\ \A c \in S \ {Root} : L.parent[c] \in S /\ pos[L.parent[c]] < pos[c]
      /\ \A c \in S : Before(S, pos, c, L.global_prev[c])
      /\ \A c \in S \ {Root} : L.parent[c] \in Supers(L, L.global_prev[c])
      /\ \A c \in Custodian \ S : L.global_prev[c] = Null
  BY <1>1 DEF Tree
<1>10. \A c \in S : pos[c] \in Nat
  BY <1>4, <1>9
<1>00. PICK new : Moving(S, pos, B + 1, m, p, new)
  <2>1. B \in Nat /\ pos \in [Custodian -> 0..B]
    BY <1>9
  <2>2. S \in SUBSET Custodian /\ m \in Custodian /\ m \notin S /\ p \in S
    BY <1>4
  <2>3. \A c, d \in S : pos[c] = pos[d] => c = d
    BY <1>9
  <2>4. QED BY <2>1, <2>2, <2>3, MoveUp
<1>11. /\ new \in [Custodian -> 0..(B + 1)]
       /\ \A c, d \in S \cup {m} : new[c] = new[d] => c = d
       /\ Moved(S, pos, m, p, new)
  BY <1>00 DEF Moving
<1>12. InTree(M) = S \cup {m}
  <2>1. \A c \in Custodian : c \in InTree(M) <=> c = Root \/ M.parent[c] # Null
    BY DEF InTree
  <2>2. \A c \in Custodian : c \in S <=> c = Root \/ L.parent[c] # Null
    BY <1>1 DEF InTree
  <2>3. p # Null /\ InTree(M) \in SUBSET Custodian
    BY <1>4, RootIn
  <2>4. \A c \in Custodian : c \in InTree(M) <=> c \in S \/ c = m
    BY <1>4, <1>8, <2>1, <2>2, <2>3
  <2>5. QED BY <1>4, <2>3, <2>4
<1>13. Moved(S, pos, m, p, new) /\ \A c, d \in S : pos[c] = pos[d] => c = d
  BY <1>9, <1>11
<1>14. /\ Before(S \cup {m}, new, m, p)
       /\ \A c \in S : After(S, pos, p, c) => Before(S \cup {m}, new, c, m)
       /\ \A c, x \in S : Before(S, pos, c, x) /\ x # p => Before(S \cup {m}, new, c, x)
       /\ \A c \in S : Before(S, pos, c, Null) => Before(S \cup {m}, new, c, Null)
  <2>1. S \subseteq S /\ p \in S /\ m \notin S /\ Null \notin S /\ m # Null
    BY <1>4
  <2>2. Moved(S, pos, m, p, new)
    BY <1>13
  <2>3. \A c, d \in S : pos[c] = pos[d] => c = d
    BY <1>13
  <2>4. QED BY <1>10, <2>1, <2>2, <2>3, AfterMoved
<1>15. ASSUME NEW T, T \subseteq S
       PROVE  /\ \A c \in S : \A x : After(T, pos, c, x) => After(T, new, c, x)
              /\ \A x : After(T, pos, p, x) => After(T \cup {m}, new, m, x)
              /\ After(T \cup {m}, new, p, m)
              /\ \A c \in S \ {p} : \A x : (pos[p] < pos[c] \/ p \in T) /\ After(T, pos, c, x)
                                             => After(T \cup {m}, new, c, x)
  <2>1. T \subseteq S /\ p \in S /\ m \notin S /\ Null \notin S /\ m # Null
    BY <1>4, <1>15
  <2>2. Moved(S, pos, m, p, new)
    BY <1>13
  <2>3. \A c, d \in S : pos[c] = pos[d] => c = d
    BY <1>13
  <2>4. QED BY <1>10, <2>1, <2>2, <2>3, AfterMoved
<1>16. ASSUME NEW c \in S
       PROVE  Supers(M, c) = Supers(L, c)
  <2>1. PICK rank : Falling(S, L.parent, rank)
    BY <1>1, TreeFalls
  <2>2. \A x \in S : M.parent[x] = L.parent[x]
    BY <1>4, <1>8
  <2>3. Path(M.parent, c) = Path(L.parent, c)
    BY <2>1, <2>2, PathAgree
  <2>4. QED BY <2>3 DEF Supers
<1>17. Supers(M, m) = {m} \cup Supers(M, p)
  <2>1. PICK rank : rank = [c \in S \cup {m} |-> new[c]]
    OBVIOUS
  <2>2. \A c \in S \cup {m} : rank[c] = new[c] /\ c \in Custodian
    BY <1>4, <2>1
  <2>3. rank \in [S \cup {m} -> Nat]
    <3>1. \A c \in S \cup {m} : new[c] \in Nat
      BY <1>9, <1>11, <2>2
    <3>2. QED BY <2>1, <3>1
  <2>4. M.parent[m] \in S \cup {m} /\ rank[M.parent[m]] < rank[m]
    <3>1. new[p] < new[m]
      BY <1>4, <1>10, <1>11 DEF Moved
    <3>2. QED BY <1>4, <1>8, <2>2, <3>1
  <2>5. ASSUME NEW c \in S, M.parent[c] # Null
        PROVE  M.parent[c] \in S \cup {m} /\ rank[M.parent[c]] < rank[c]
    <3>1. M.parent[c] = L.parent[c]
      BY <1>4, <1>8
    <3>2. c # Root
      BY <1>9, <2>5, <3>1
    <3>3. L.parent[c] \in S /\ pos[L.parent[c]] < pos[c]
      BY <1>9, <3>2
    <3>4. new[L.parent[c]] < new[c]
      BY <1>11, <3>3 DEF Moved
    <3>5. QED BY <2>2, <3>1, <3>3, <3>4
  <2>6. Falling(S \cup {m}, M.parent, rank)
    BY <2>2, <2>3, <2>4, <2>5 DEF Falling
  <2>7. M.parent[m] # Null
    BY <1>4, <1>8
  <2>8. ToSet(Path(M.parent, m)) = {m} \cup ToSet(Path(M.parent, p))
    BY <1>8, <2>6, <2>7, PathStep
  <2>9. QED BY <2>8 DEF Supers
<1>18. Tree(M, new, B + 1)
  <2>1. B + 1 \in Nat
    BY <1>9
  <2>2. M.parent \in [Custodian -> Custodian \cup {Null}] /\ M.parent[Root] = Null
    BY <1>4, <1>8, <1>9, CustodianAssumption DEF LinkType
  <2>3. \A c \in (S \cup {m}) \ {Root} : M.parent[c] \in S \cup {m} /\ new[M.parent[c]] < new[c]
    <3>1. new[p] < new[m]
      BY <1>4, <1>10, <1>11 DEF Moved
    <3>2. \A c \in S \ {Root} : M.parent[c] = L.parent[c] /\ L.parent[c] \in S
                                /\ pos[L.parent[c]] < pos[c]
      BY <1>4, <1>8, <1>9
    <3>3. \A c \in S \ {Root} : new[L.parent[c]] < new[c]
      BY <1>11, <3>2 DEF Moved
    <3>4. QED BY <1>4, <1>8, <3>1, <3>2, <3>3
  <2>4. \A c \in S \cup {m} : Before(S \cup {m}, new, c, M.global_prev[c])
    <3>1. Before(S \cup {m}, new, m, M.global_prev[m])
      BY <1>8, <1>14
    <3>2. ASSUME NEW c \in S PROVE Before(S \cup {m}, new, c, M.global_prev[c])
      <4>1. CASE c = n
        <5>1. M.global_prev[c] = m
          BY <1>4, <1>8, <4>1
        <5>2. QED BY <1>5, <1>14, <4>1, <5>1
      <4>2. CASE c # n
        <5>1. PICK x : x = L.global_prev[c]
          OBVIOUS
        <5>2. M.global_prev[c] = x /\ Before(S, pos, c, x)
          BY <1>4, <1>8, <1>9, <4>2, <5>1
        <5>3. x # p
          BY <1>1, <1>3, <4>2, <5>1, NextPrev
        <5>4. x = Null \/ x \in S
          BY <5>2 DEF Before
        <5>5. QED BY <1>14, <5>2, <5>3, <5>4
      <4>3. QED BY <4>1, <4>2
    <3>3. QED BY <3>1, <3>2
  <2>5. \A c \in (S \cup {m}) \ {Root} : M.parent[c] \in Supers(M, M.global_prev[c])
    <3>1. p \in Supers(M, p)
      BY <1>1, <1>16, SupersIn
    <3>2. M.parent[m] \in Supers(M, M.global_prev[m])
      BY <1>8, <3>1
    <3>3. ASSUME NEW c \in S \ {Root} PROVE M.parent[c] \in Supers(M, M.global_prev[c])
      <4>1. M.parent[c] = L.parent[c] /\ L.parent[c] \in Supers(L, L.global_prev[c])
        BY <1>4, <1>8, <1>9
      <4>2. CASE c = n
        <5>1. M.global_prev[c] = m /\ L.global_next[p] = c
          BY <1>3, <1>4, <1>8, <4>2
        <5>2. L.global_prev[c] = p
          BY <1>1, <5>1, NextPrev
        <5>3. M.parent[c] \in Supers(M, p)
          BY <1>4, <1>16, <4>1, <5>2
        <5>4. QED BY <1>17, <5>1, <5>3
      <4>3. CASE c # n
        <5>1. PICK x : x = L.global_prev[c]
          OBVIOUS
        <5>2. M.global_prev[c] = x /\ Before(S, pos, c, x)
          BY <1>4, <1>8, <1>9, <4>3, <5>1
        <5>3. x # Null
          <6>1. SUFFICES ASSUME x = Null PROVE FALSE
            OBVIOUS
          <6>2. pos[c] <= pos[L.parent[c]]
            BY <1>9, <5>2, <6>1 DEF Before
          <6>3. QED BY <1>9, <1>10, <6>2
        <5>4. x \in S
          BY <5>2, <5>3 DEF Before
        <5>5. QED BY <1>16, <4>1, <5>1, <5>2, <5>4
      <4>4. QED BY <4>2, <4>3
    <3>4. QED BY <3>2, <3>3
  <2>6. \A c \in Custodian \ (S \cup {m}) : M.global_prev[c] = Null
    BY <1>4, <1>6, <1>8, <1>9, CustodianAssumption
  <2>7. PICK T : T = S \cup {m}
    OBVIOUS
  <2>8. InTree(M) = T
    BY <1>12, <2>7
  <2>9. /\ new \in [Custodian -> 0..(B + 1)]
        /\ \A c, d \in T : new[c] = new[d] => c = d
        /\ \A c \in T \ {Root} : M.parent[c] \in T /\ new[M.parent[c]] < new[c]
        /\ \A c \in T : Before(T, new, c, M.global_prev[c])
        /\ \A c \in T \ {Root} : M.parent[c] \in Supers(M, M.global_prev[c])
        /\ \A c \in Custodian \ T : M.global_prev[c] = Null
    BY <1>11, <2>3, <2>4, <2>5, <2>6, <2>7
  <2>10. QED BY <2>1, <2>2, <2>8, <2>9 DEF Tree
<1>19. ASSUME NEW c \in S \cup {m}
       PROVE  Kids(M, c) = IF c = p THEN Kids(L, p) \cup {m}
                           ELSE IF c = m THEN {} ELSE Kids(L, c)
  <2>1. \A d \in Custodian \ {Root} : d \in Kids(M, c) <=> M.parent[d] = c
    BY DEF Kids
  <2>2. \A d \in Custodian \ {Root} : d \in Kids(L, c) <=> L.parent[d] = c
    BY DEF Kids
  <2>3. Kids(M, c) \in SUBSET (Custodian \ {Root}) /\ Kids(L, c) \in SUBSET (Custodian \ {Root})
    BY DEF Kids
  <2>4. L.parent[m] = Null
    BY <1>1, <1>4 DEF InTree
  <2>5. \A d \in Custodian \ {Root} : L.parent[d] # m
    <3>1. SUFFICES ASSUME NEW d \in Custodian \ {Root}, L.parent[d] = m PROVE FALSE
      OBVIOUS
    <3>2. d \in S
      BY <1>1, <1>4, <3>1 DEF InTree
    <3>3. QED BY <1>4, <1>9, <3>1, <3>2
  <2>6. c # Null
    BY <1>4
  <2>7. \A d \in Custodian \ {Root} : M.parent[d] = c <=> (d = m /\ c = p) \/ (d # m /\ L.parent[d] = c)
    BY <1>4, <1>8
  <2>8. CASE c = p
    BY <1>4, <2>1, <2>2, <2>3, <2>4, <2>6, <2>7, <2>8
  <2>9. CASE c # p
    BY <1>4, <2>1, <2>2, <2>3, <2>4, <2>5, <2>6, <2>7, <2>9
  <2>10. QED BY <2>8, <2>9
<1>20. \A c \in S : Kids(L, c) \subseteq S /\ \A d \in Kids(L, c) : L.parent[d] = c /\ pos[c] < pos[d]
  BY <1>1, KidsIn
<1>21. Lists(M, new)
  <2>1. M.last \in S \cup {m} /\ \A c \in S \cup {m} : new[c] <= new[M.last]
    <3>1. L.last \in S /\ \A c \in S : pos[c] <= pos[L.last]
      BY <1>1 DEF Lists
    <3>2. CASE n = Null
      <4>1. \A c \in S : pos[c] <= pos[p]
        BY <1>5, <3>2 DEF After
      <4>2. \A c \in S : new[c] <= new[m]
        BY <1>11, <4>1 DEF Moved
      <4>3. new[m] <= new[m]
        BY <1>11 DEF Moved
      <4>4. QED BY <1>8, <3>2, <4>2, <4>3
    <3>3. CASE n # Null
      <4>1. n \in S /\ pos[p] < pos[n]
        BY <1>5, <3>3 DEF After
      <4>2. pos[p] < pos[L.last]
        BY <1>4, <1>10, <3>1, <4>1
      <4>3. M.last = L.last
        BY <1>8, <3>3
      <4>4. new[m] <= new[L.last] /\ \A c \in S : new[c] <= new[L.last]
        BY <1>11, <3>1, <4>2 DEF Moved
      <4>5. QED BY <3>1, <4>3, <4>4
    <3>4. QED BY <3>2, <3>3
  <2>2. \A c \in S \cup {m} : After(S \cup {m}, new, c, M.global_next[c])
    <3>1. After(S \cup {m}, new, m, M.global_next[m])
      BY <1>5, <1>8, <1>15
    <3>2. After(S \cup {m}, new, p, M.global_next[p])
      BY <1>8, <1>15
    <3>3. ASSUME NEW c \in S \ {p} PROVE After(S \cup {m}, new, c, M.global_next[c])
      <4>1. After(S, pos, c, L.global_next[c])
        BY <1>1 DEF Lists
      <4>2. M.global_next[c] = L.global_next[c]
        BY <1>4, <1>8
      <4>3. QED BY <1>4, <1>15, <4>1, <4>2
    <3>4. QED BY <3>1, <3>2, <3>3
  <2>3. \A c \in S \cup {m} : After(Kids(M, c), new, c, M.children[c])
    <3>1. After(Kids(M, p), new, p, M.children[p])
      <4>1. Kids(M, p) = Kids(L, p) \cup {m} /\ Kids(L, p) \subseteq S
        BY <1>4, <1>19, <1>20
      <4>2. After(Kids(L, p) \cup {m}, new, p, m)
        BY <1>15, <4>1
      <4>3. QED BY <1>8, <4>1, <4>2
    <3>2. After(Kids(M, m), new, m, M.children[m])
      <4>1. L.children[m] = Null
        BY <1>1, <1>4 DEF Lists
      <4>2. Kids(M, m) = {} /\ M.children[m] = Null
        BY <1>4, <1>8, <1>19, <4>1
      <4>3. QED BY <4>2 DEF After
    <3>3. ASSUME NEW c \in S \ {p} PROVE After(Kids(M, c), new, c, M.children[c])
      <4>1. After(Kids(L, c), pos, c, L.children[c])
        BY <1>1 DEF Lists
      <4>2. M.children[c] = L.children[c] /\ Kids(M, c) = Kids(L, c)
        BY <1>4, <1>8, <1>19
      <4>3. QED BY <1>15, <1>20, <4>1, <4>2
    <3>4. QED BY <3>1, <3>2, <3>3
  <2>4. \A c \in (S \cup {m}) \ {Root} : After(Kids(M, M.parent[c]), new, c, M.sibling[c])
    <3>1. After(Kids(M, M.parent[m]), new, m, M.sibling[m])
      <4>1. After(Kids(L, p), pos, p, L.children[p])
        BY DEF Lists
      <4>2. Kids(M, p) = Kids(L, p) \cup {m} /\ Kids(L, p) \subseteq S
        BY <1>4, <1>19, <1>20
      <4>3. After(Kids(L, p) \cup {m}, new, m, L.children[p])
        BY <1>15, <4>1, <4>2
      <4>4. QED BY <1>8, <4>2, <4>3
    <3>2. ASSUME NEW c \in S \ {Root} PROVE After(Kids(M, M.parent[c]), new, c, M.sibling[c])
      <4>1. PICK q : q = L.parent[c]
        OBVIOUS
      <4>2. q \in S /\ M.parent[c] = q /\ M.sibling[c] = L.sibling[c]
        BY <1>4, <1>8, <1>9, <4>1
      <4>3. After(Kids(L, q), pos, c, L.sibling[c])
        BY <1>1, <4>1 DEF Lists
      <4>4. Kids(L, q) \subseteq S
        BY <1>20, <4>2
      <4>5. CASE q = p
        <5>1. pos[p] < pos[c]
          BY <1>9, <4>1, <4>5
        <5>2. c # p
          BY <1>10, <5>1
        <5>3. After(Kids(L, q) \cup {m}, new, c, L.sibling[c])
          BY <1>15, <4>3, <4>4, <5>1, <5>2
        <5>4. QED BY <1>19, <4>2, <4>5, <5>3
      <4>6. CASE q # p
        <5>1. After(Kids(L, q), new, c, L.sibling[c])
          BY <1>15, <4>3, <4>4
        <5>2. Kids(M, q) = Kids(L, q)
          BY <1>4, <1>19, <4>2, <4>6
        <5>3. QED BY <4>2, <5>1, <5>2
      <4>7. QED BY <4>5, <4>6
    <3>3. QED BY <3>1, <3>2
  <2>5. \A c \in Custodian \ (S \cup {m}) : M.children[c] = Null
    <3>1. \A c \in Custodian \ S : L.children[c] = Null
      BY <1>1 DEF Lists
    <3>2. QED BY <1>4, <1>8, <3>1
  <2>6. QED BY <1>8, <1>12, <2>1, <2>2, <2>3, <2>4, <2>5 DEF Lists
<1>22. QED BY <1>1, <1>2, <1>12, <1>18, <1>21

-----------------------------------------------------------------------------
\* A custodian without children is taken out.

\* Without children nothing is moved.
LEMMA BequeathedNone ==
  ASSUME NEW X, NEW r, X.children[r] = Null
  PROVE  Bequeathed(X, r) = X
<1>1. PICK children : children = Children(X, r)
  OBVIOUS
<1>2. children = <<>> /\ Len(children) = 0
  BY <1>1, PathNull DEF Children
<1>3. PICK p : p = X.parent[r]
  OBVIOUS
<1>4. PICK g : g = CHOOSE moved : moved = [k \in 0..0 |->
          IF k = 0 THEN X
          ELSE [moved[k - 1] EXCEPT !.parent[children[k]] = p,
                                    !.sibling[children[k]] = moved[k - 1].children[p],
                                    !.children[p] = children[k]]]
  OBVIOUS
<1>5. \A k \in 0..0 : k = 0
  OBVIOUS
<1>6. PICK h : h = [k \in 0..0 |-> X]
  OBVIOUS
<1>7. h = [k \in 0..0 |->
          IF k = 0 THEN X
          ELSE [h[k - 1] EXCEPT !.parent[children[k]] = p,
                                !.sibling[children[k]] = h[k - 1].children[p],
                                !.children[p] = children[k]]]
  BY <1>5, <1>6
<1>8. g = [k \in 0..0 |->
          IF k = 0 THEN X
          ELSE [g[k - 1] EXCEPT !.parent[children[k]] = p,
                                !.sibling[children[k]] = g[k - 1].children[p],
                                !.children[p] = children[k]]]
  BY <1>4, <1>7
<1>9. g[0] = X
  <2>1. 0 \in 0..0
    OBVIOUS
  <2>2. QED BY <1>8, <2>1
<1>10. Bequeathed(X, r) = g[0]
  BY <1>1, <1>2, <1>3, <1>4 DEF Bequeathed
<1>11. QED BY <1>9, <1>10

\* adjust_custodian_family for it, field by field.
Taken(L, r, p, q, n, M) ==
  /\ M \in LinkType
  /\ M.parent[r] = Null /\ M.global_prev[r] = Null
  /\ M.last = IF n = Null THEN q ELSE L.last
  /\ \A c \in Custodian \ {r} : M.parent[c] = L.parent[c]
  /\ \A c \in Custodian : M.children[c] = IF c = p /\ L.children[p] = r
                                          THEN L.sibling[r] ELSE L.children[c]
  /\ \A c \in Custodian \ {r} :
       M.sibling[c] = IF L.children[p] # r /\ c \in ToSet(Children(L, p)) /\ L.sibling[c] = r
                      THEN L.sibling[r] ELSE L.sibling[c]
  /\ \A c \in Custodian \ {r} : M.global_next[c] = IF c = q THEN n ELSE L.global_next[c]
  /\ \A c \in Custodian \ {r} : M.global_prev[c] = IF c = n THEN q ELSE L.global_prev[c]

\* adjust_custodian_family does that.
LEMMA WithoutIs ==
  ASSUME NEW L \in LinkType, NEW r \in Custodian, NEW p \in Custodian, p = L.parent[r], p # r,
         L.children[r] = Null,
         NEW q \in Custodian, q = L.global_prev[r], q # r,
         NEW n, n = L.global_next[r], n # r,
         NEW M, M = Adjusted(L, r, TRUE)
  PROVE  Taken(L, r, p, q, n, M)
<1>1. /\ n \in Custodian \cup {Null} /\ L.sibling[r] \in Custodian \cup {Null}
      /\ p # Null /\ q # Null /\ Null \notin Custodian
      /\ L.parent \in [Custodian -> Custodian \cup {Null}]
      /\ L.children \in [Custodian -> Custodian \cup {Null}]
      /\ L.sibling \in [Custodian -> Custodian \cup {Null}]
      /\ L.global_next \in [Custodian -> Custodian \cup {Null}]
      /\ L.global_prev \in [Custodian -> Custodian \cup {Null}]
      /\ L.last \in Custodian
  BY CustodianAssumption DEF LinkType
<1>2. PICK W : W = WithoutChild(L, r)
  OBVIOUS
<1>3. /\ W \in LinkType
      /\ W.parent = L.parent /\ W.global_next = L.global_next /\ W.global_prev = L.global_prev
      /\ W.last = L.last
      /\ \A c \in Custodian : W.children[c] = IF c = p /\ L.children[p] = r
                                              THEN L.sibling[r] ELSE L.children[c]
      /\ \A c \in Custodian :
              W.sibling[c] = IF L.children[p] # r /\ c \in ToSet(Children(L, p)) /\ L.sibling[c] = r
                             THEN L.sibling[r] ELSE L.sibling[c]
  <2>1. PICK before : before = {m \in ToSet(Children(L, p)) : L.sibling[m] = r}
    OBVIOUS
  <2>2. W = IF L.children[p] = r THEN [L EXCEPT !.children[p] = L.sibling[r]]
            ELSE [L EXCEPT !.sibling = [m \in Custodian |->
                                          IF m \in before THEN L.sibling[r] ELSE L.sibling[m]]]
    BY <1>2, <2>1 DEF WithoutChild
  <2>3. CASE L.children[p] = r
    <3>1. W = [L EXCEPT !.children[p] = L.sibling[r]]
      BY <2>2, <2>3
    <3>2. /\ W.parent = L.parent /\ W.global_next = L.global_next /\ W.global_prev = L.global_prev
          /\ W.last = L.last /\ W.sibling = L.sibling
          /\ W.children = [L.children EXCEPT ![p] = L.sibling[r]]
          /\ W = [parent |-> W.parent, children |-> W.children, sibling |-> W.sibling,
                  global_next |-> W.global_next, global_prev |-> W.global_prev, last |-> W.last]
      BY <3>1 DEF LinkType
    <3>3. W.children \in [Custodian -> Custodian \cup {Null}]
      BY <1>1, <3>2
    <3>4. W \in LinkType
      BY <1>1, <3>2, <3>3 DEF LinkType
    <3>5. \A c \in Custodian : W.children[c] = IF c = p THEN L.sibling[r] ELSE L.children[c]
      BY <1>1, <3>2
    <3>6. QED BY <2>3, <3>2, <3>4, <3>5
  <2>4. CASE L.children[p] # r
    <3>0. PICK s : s = [m \in Custodian |-> IF m \in before THEN L.sibling[r] ELSE L.sibling[m]]
      OBVIOUS
    <3>1. W = [L EXCEPT !.sibling = s]
      BY <2>2, <2>4, <3>0
    <3>2. /\ W.parent = L.parent /\ W.global_next = L.global_next /\ W.global_prev = L.global_prev
          /\ W.last = L.last /\ W.children = L.children /\ W.sibling = s
          /\ W = [parent |-> W.parent, children |-> W.children, sibling |-> W.sibling,
                  global_next |-> W.global_next, global_prev |-> W.global_prev, last |-> W.last]
      BY <3>1 DEF LinkType
    <3>3. s \in [Custodian -> Custodian \cup {Null}]
      BY <1>1, <3>0
    <3>4. W \in LinkType
      BY <1>1, <3>2, <3>3 DEF LinkType
    <3>5. \A c \in Custodian : W.sibling[c] =
            IF c \in ToSet(Children(L, p)) /\ L.sibling[c] = r THEN L.sibling[r] ELSE L.sibling[c]
      BY <2>1, <3>0, <3>2
    <3>6. QED BY <2>4, <3>2, <3>4, <3>5
  <2>5. QED BY <2>3, <2>4
<1>4. PICK X : X = WithoutGlobal(W, r)
  OBVIOUS
<1>5. /\ X \in LinkType
      /\ X.parent = L.parent /\ X.children = W.children /\ X.sibling = W.sibling
      /\ X.last = IF n = Null THEN q ELSE L.last
      /\ X.global_next = [L.global_next EXCEPT ![q] = n]
      /\ X.global_prev = IF n = Null THEN L.global_prev ELSE [L.global_prev EXCEPT ![n] = q]
  <2>1. PICK K : K = IF n = Null THEN [W EXCEPT !.last = q] ELSE [W EXCEPT !.global_prev[n] = q]
    OBVIOUS
  <2>2. X = [K EXCEPT !.global_next[q] = n]
    BY <1>3, <1>4, <2>1 DEF WithoutGlobal
  <2>3. /\ K.parent = W.parent /\ K.children = W.children /\ K.sibling = W.sibling
        /\ K.last = IF n = Null THEN q ELSE W.last
        /\ K.global_next = W.global_next
        /\ K.global_prev = IF n = Null THEN W.global_prev ELSE [W.global_prev EXCEPT ![n] = q]
        /\ K = [parent |-> K.parent, children |-> K.children, sibling |-> K.sibling,
                global_next |-> K.global_next, global_prev |-> K.global_prev, last |-> K.last]
    BY <1>3, <2>1 DEF LinkType
  <2>4. /\ X.parent = K.parent /\ X.children = K.children /\ X.sibling = K.sibling
        /\ X.last = K.last /\ X.global_prev = K.global_prev
        /\ X.global_next = [K.global_next EXCEPT ![q] = n]
        /\ X = [parent |-> X.parent, children |-> X.children, sibling |-> X.sibling,
                global_next |-> X.global_next, global_prev |-> X.global_prev, last |-> X.last]
    BY <2>2, <2>3
  <2>5. /\ X.parent \in [Custodian -> Custodian \cup {Null}]
        /\ X.children \in [Custodian -> Custodian \cup {Null}]
        /\ X.sibling \in [Custodian -> Custodian \cup {Null}]
    BY <1>3, <2>3, <2>4 DEF LinkType
  <2>6. X.global_next \in [Custodian -> Custodian \cup {Null}]
    BY <1>1, <1>3, <2>3, <2>4
  <2>7. X.global_prev \in [Custodian -> Custodian \cup {Null}]
    BY <1>1, <1>3, <2>3, <2>4
  <2>8. X.last \in Custodian
    BY <1>1, <1>3, <2>3, <2>4
  <2>9. X \in LinkType
    BY <2>4, <2>5, <2>6, <2>7, <2>8 DEF LinkType
  <2>10. QED BY <1>3, <2>3, <2>4, <2>9
<1>6. Bequeathed(X, r) = X
  <2>1. X.children[r] = Null
    BY <1>3, <1>5
  <2>2. QED BY <2>1, BequeathedNone
<1>7. M = [X EXCEPT !.parent[r] = Null, !.sibling[r] = Null,
                    !.global_prev[r] = Null, !.global_next[r] = Null]
  BY <1>1, <1>2, <1>4, <1>6 DEF Adjusted
<1>20. X.parent[r] \in Custodian \cup {Null}
  BY <1>1, <1>5
<1>8. /\ M.parent = [X.parent EXCEPT ![r] = Null]
      /\ M.sibling = [X.sibling EXCEPT ![r] = Null]
      /\ M.global_prev = [X.global_prev EXCEPT ![r] = Null]
      /\ M.global_next = [X.global_next EXCEPT ![r] = Null]
      /\ M.children = X.children /\ M.last = X.last
  BY <1>5, <1>7 DEF LinkType
<1>21. M = [parent |-> M.parent, children |-> M.children, sibling |-> M.sibling,
            global_next |-> M.global_next, global_prev |-> M.global_prev, last |-> M.last]
  BY <1>5, <1>7 DEF LinkType
<1>9. /\ X.parent \in [Custodian -> Custodian \cup {Null}]
      /\ X.children \in [Custodian -> Custodian \cup {Null}]
      /\ X.sibling \in [Custodian -> Custodian \cup {Null}]
      /\ X.global_next \in [Custodian -> Custodian \cup {Null}]
      /\ X.global_prev \in [Custodian -> Custodian \cup {Null}]
      /\ X.last \in Custodian
  BY <1>5 DEF LinkType
<1>22. ASSUME NEW f \in [Custodian -> Custodian \cup {Null}], NEW g, g = [f EXCEPT ![r] = Null]
       PROVE  /\ g \in [Custodian -> Custodian \cup {Null}] /\ g[r] = Null
              /\ \A c \in Custodian \ {r} : g[c] = f[c]
  BY <1>22
<1>23. /\ M.parent \in [Custodian -> Custodian \cup {Null}] /\ M.parent[r] = Null
       /\ \A c \in Custodian \ {r} : M.parent[c] = X.parent[c]
  BY <1>8, <1>9, <1>22
<1>24. /\ M.sibling \in [Custodian -> Custodian \cup {Null}]
       /\ \A c \in Custodian \ {r} : M.sibling[c] = X.sibling[c]
  BY <1>8, <1>9, <1>22
<1>25. /\ M.global_next \in [Custodian -> Custodian \cup {Null}]
       /\ \A c \in Custodian \ {r} : M.global_next[c] = X.global_next[c]
  BY <1>8, <1>9, <1>22
<1>26. /\ M.global_prev \in [Custodian -> Custodian \cup {Null}] /\ M.global_prev[r] = Null
       /\ \A c \in Custodian \ {r} : M.global_prev[c] = X.global_prev[c]
  BY <1>8, <1>9, <1>22
<1>10. M \in LinkType
  BY <1>8, <1>9, <1>21, <1>23, <1>24, <1>25, <1>26 DEF LinkType
<1>12. \A c \in Custodian \ {r} : M.parent[c] = L.parent[c]
  BY <1>5, <1>23
<1>13. \A c \in Custodian : M.children[c] = IF c = p /\ L.children[p] = r
                                            THEN L.sibling[r] ELSE L.children[c]
  <2>1. \A c \in Custodian : W.children[c] = IF c = p /\ L.children[p] = r
                                             THEN L.sibling[r] ELSE L.children[c]
    BY <1>3
  <2>2. M.children = W.children
    BY <1>5, <1>8
  <2>3. QED BY <2>1, <2>2
<1>14. \A c \in Custodian \ {r} :
         M.sibling[c] = IF L.children[p] # r /\ c \in ToSet(Children(L, p)) /\ L.sibling[c] = r
                        THEN L.sibling[r] ELSE L.sibling[c]
  <2>1. \A c \in Custodian :
          W.sibling[c] = IF L.children[p] # r /\ c \in ToSet(Children(L, p)) /\ L.sibling[c] = r
                         THEN L.sibling[r] ELSE L.sibling[c]
    BY <1>3
  <2>2. \A c \in Custodian \ {r} : M.sibling[c] = W.sibling[c]
    BY <1>5, <1>24
  <2>3. QED BY <2>1, <2>2
<1>15. \A c \in Custodian \ {r} : M.global_next[c] = IF c = q THEN n ELSE L.global_next[c]
  <2>1. \A c \in Custodian : X.global_next[c] = IF c = q THEN n ELSE L.global_next[c]
    BY <1>1, <1>5
  <2>2. QED BY <1>25, <2>1
<1>16. \A c \in Custodian \ {r} : M.global_prev[c] = IF c = n THEN q ELSE L.global_prev[c]
  <2>1. \A c \in Custodian : X.global_prev[c] = IF c = n THEN q ELSE L.global_prev[c]
    BY <1>1, <1>5
  <2>2. QED BY <1>26, <2>1
<1>17. M.last = IF n = Null THEN q ELSE L.last
  BY <1>5, <1>8
<1>18. M.parent[r] = Null /\ M.global_prev[r] = Null
  BY <1>23, <1>26
<1>19. QED BY <1>10, <1>12, <1>13, <1>14, <1>15, <1>16, <1>17, <1>18 DEF Taken

\* It keeps the tree and its lists.
LEMMA RemoveKeeps ==
  ASSUME NEW L, NEW pos, NEW B, Tree(L, pos, B), Lists(L, pos),
         NEW r \in InTree(L) \ {Root}, Kids(L, r) = {}
  PROVE  /\ InTree(Adjusted(L, r, TRUE)) = InTree(L) \ {r}
         /\ \A c \in InTree(L) \ {r} : Adjusted(L, r, TRUE).parent[c] = L.parent[c]
         /\ Tree(Adjusted(L, r, TRUE), pos, B) /\ Lists(Adjusted(L, r, TRUE), pos)
<1>1. PICK S : S = InTree(L)
  OBVIOUS
<1>2. PICK M : M = Adjusted(L, r, TRUE)
  OBVIOUS
<1>3. PICK p, n, q : p = L.parent[r] /\ n = L.global_next[r] /\ q = L.global_prev[r]
  OBVIOUS
<1>4. /\ S \in SUBSET Custodian /\ Root \in S /\ Null \notin S /\ Null \notin Custodian
      /\ r \in S /\ r # Root /\ r \in Custodian /\ r # Null
  BY <1>1, RootIn, CustodianAssumption
<1>5. /\ B \in Nat /\ pos \in [Custodian -> 0..B]
      /\ \A c, d \in S : pos[c] = pos[d] => c = d
      /\ L.parent[Root] = Null
      /\ \A c \in S \ {Root} : L.parent[c] \in S /\ pos[L.parent[c]] < pos[c]
      /\ \A c \in S : Before(S, pos, c, L.global_prev[c])
      /\ \A c \in S \ {Root} : L.parent[c] \in Supers(L, L.global_prev[c])
      /\ \A c \in Custodian \ S : L.global_prev[c] = Null
  BY <1>1 DEF Tree
<1>6. \A c \in S : pos[c] \in Nat
  BY <1>4, <1>5
<1>7. p \in S /\ pos[p] < pos[r] /\ p # r /\ p \in Custodian
  BY <1>3, <1>4, <1>5, <1>6
<1>8. Before(S, pos, r, q) /\ After(S, pos, r, n)
  BY <1>1, <1>3 DEF Tree, Lists
<1>9. q \in S /\ pos[q] < pos[r] /\ q # r /\ q \in Custodian
  <2>1. q # Null
    <3>1. SUFFICES ASSUME q = Null PROVE FALSE
      OBVIOUS
    <3>2. pos[r] <= pos[p]
      BY <1>7, <1>8, <3>1 DEF Before
    <3>3. QED BY <1>4, <1>6, <1>7, <3>2
  <2>2. q \in S /\ pos[q] < pos[r]
    BY <1>8, <2>1 DEF Before
  <2>3. QED BY <1>4, <1>6, <2>2
<1>10. n # Null => n \in S /\ pos[r] < pos[n]
  BY <1>8 DEF After
<1>11. n # r
  BY <1>4, <1>6, <1>10
<1>12. L \in LinkType /\ L.children[r] = Null
  <2>1. After(Kids(L, r), pos, r, L.children[r])
    BY <1>1, <1>4 DEF Lists
  <2>2. QED BY <2>1 DEF Lists, After
<1>13. /\ M \in LinkType
       /\ M.parent[r] = Null /\ M.global_prev[r] = Null
       /\ M.last = IF n = Null THEN q ELSE L.last
       /\ \A c \in Custodian \ {r} : M.parent[c] = L.parent[c]
       /\ \A c \in Custodian : M.children[c] = IF c = p /\ L.children[p] = r
                                               THEN L.sibling[r] ELSE L.children[c]
       /\ \A c \in Custodian \ {r} :
            M.sibling[c] = IF L.children[p] # r /\ c \in ToSet(Children(L, p)) /\ L.sibling[c] = r
                           THEN L.sibling[r] ELSE L.sibling[c]
       /\ \A c \in Custodian \ {r} : M.global_next[c] = IF c = q THEN n ELSE L.global_next[c]
       /\ \A c \in Custodian \ {r} : M.global_prev[c] = IF c = n THEN q ELSE L.global_prev[c]
  <2>1. /\ L \in LinkType /\ r \in Custodian /\ p \in Custodian /\ p = L.parent[r] /\ p # r
        /\ L.children[r] = Null
        /\ q \in Custodian /\ q = L.global_prev[r] /\ q # r
        /\ n = L.global_next[r] /\ n # r /\ M = Adjusted(L, r, TRUE)
    BY <1>2, <1>3, <1>4, <1>7, <1>9, <1>11, <1>12
  <2>2. Taken(L, r, p, q, n, M)
    BY <2>1, WithoutIs
  <2>3. QED BY <2>2 DEF Taken
<1>14. InTree(M) = S \ {r}
  <2>1. \A c \in Custodian : c \in InTree(M) <=> c = Root \/ M.parent[c] # Null
    BY DEF InTree
  <2>2. \A c \in Custodian : c \in S <=> c = Root \/ L.parent[c] # Null
    BY <1>1 DEF InTree
  <2>3. InTree(M) \in SUBSET Custodian
    BY RootIn
  <2>4. \A c \in Custodian : c \in InTree(M) <=> c \in S /\ c # r
    BY <1>4, <1>13, <2>1, <2>2
  <2>5. QED BY <1>4, <2>3, <2>4
<1>15. \A c \in S \ {r} : M.parent[c] = L.parent[c]
  BY <1>4, <1>13
<1>16. \A c \in S \ {Root} : L.parent[c] # r
  <2>1. SUFFICES ASSUME NEW c \in S \ {Root}, L.parent[c] = r PROVE FALSE
    OBVIOUS
  <2>2. c \in Kids(L, r)
    BY <1>4, <2>1 DEF Kids
  <2>3. QED BY <2>2
<1>17. ASSUME NEW c \in S \ {r}
       PROVE  Supers(M, c) = Supers(L, c)
  <2>1. PICK rank : Falling(S, L.parent, rank)
    BY <1>1, TreeFalls
  <2>2. PICK low : low = [x \in S \ {r} |-> rank[x]]
    OBVIOUS
  <2>3. Falling(S \ {r}, L.parent, low)
    <3>1. low \in [S \ {r} -> Nat] /\ \A x \in S \ {r} : low[x] = rank[x]
      BY <2>1, <2>2 DEF Falling
    <3>2. \A x \in S \ {r} : L.parent[x] = Null
                              \/ (L.parent[x] \in S \ {r} /\ rank[L.parent[x]] < rank[x])
      BY <1>5, <1>16, <2>1 DEF Falling
    <3>3. \A x \in S \ {r} : L.parent[x] = Null
                              \/ (L.parent[x] \in S \ {r} /\ low[L.parent[x]] < low[x])
      BY <3>1, <3>2
    <3>4. S \ {r} \in SUBSET Custodian
      BY <1>4
    <3>5. QED BY <3>1, <3>3, <3>4 DEF Falling
  <2>4. Path(M.parent, c) = Path(L.parent, c)
    BY <1>15, <2>3, PathAgree
  <2>5. QED BY <2>4 DEF Supers
<1>18. /\ \A d \in S : pos[d] \in Nat
       /\ \A d \in S : pos[d] = pos[r] => d = r
  BY <1>4, <1>5, <1>6
<1>19. Tree(M, pos, B)
  <2>1. M.parent \in [Custodian -> Custodian \cup {Null}] /\ M.parent[Root] = Null
    BY <1>4, <1>5, <1>13 DEF LinkType
  <2>2. \A c \in (S \ {r}) \ {Root} : M.parent[c] \in S \ {r} /\ pos[M.parent[c]] < pos[c]
    BY <1>5, <1>15, <1>16
  <2>3. \A c \in S \ {r} : Before(S \ {r}, pos, c, M.global_prev[c])
    <3>1. SUFFICES ASSUME NEW c \in S \ {r} PROVE Before(S \ {r}, pos, c, M.global_prev[c])
      OBVIOUS
    <3>2. Before(S, pos, c, L.global_prev[c]) /\ c \in Custodian
      BY <1>4, <1>5
    <3>3. CASE c = n
      <4>1. L.global_prev[c] = r
        BY <1>1, <1>3, <1>4, <3>3, NextPrev
      <4>2. M.global_prev[c] = q
        BY <1>13, <3>2, <3>3
      <4>3. QED BY <1>4, <1>8, <1>18, <3>2, <4>1, <4>2, BeforeSkip
    <3>4. CASE c # n
      <4>1. L.global_prev[c] # r
        BY <1>1, <1>3, <1>4, <3>4, NextPrev
      <4>2. M.global_prev[c] = L.global_prev[c]
        BY <1>13, <3>2, <3>4
      <4>3. QED BY <3>2, <4>1, <4>2, Keep
    <3>5. QED BY <3>3, <3>4
  <2>4. \A c \in (S \ {r}) \ {Root} : M.parent[c] \in Supers(M, M.global_prev[c])
    <3>1. SUFFICES ASSUME NEW c \in (S \ {r}) \ {Root}
                   PROVE  M.parent[c] \in Supers(M, M.global_prev[c])
      OBVIOUS
    <3>2. /\ M.parent[c] = L.parent[c] /\ L.parent[c] \in Supers(L, L.global_prev[c])
          /\ L.parent[c] # r /\ c \in Custodian
      BY <1>4, <1>5, <1>15, <1>16
    <3>3. CASE c = n
      <4>1. L.global_prev[c] = r
        BY <1>1, <1>3, <1>4, <3>3, NextPrev
      <4>2. M.global_prev[c] = q
        BY <1>13, <3>2, <3>3
      <4>3. L.parent[c] \in Supers(L, p)
        BY <1>1, <1>3, <3>2, <4>1, SupersStep
      <4>4. p \in Supers(L, q)
        BY <1>3, <1>4, <1>5
      <4>5. L.parent[c] \in Supers(L, q)
        BY <1>1, <1>9, <4>3, <4>4, SupersTrans
      <4>6. QED BY <1>9, <1>17, <3>2, <4>2, <4>5
    <3>4. CASE c # n
      <4>1. PICK x : x = L.global_prev[c]
        OBVIOUS
      <4>2. x # r /\ M.global_prev[c] = x
        BY <1>1, <1>3, <1>4, <1>13, <3>2, <3>4, <4>1, NextPrev
      <4>3. Before(S, pos, c, x)
        BY <1>5, <4>1
      <4>4. x # Null
        <5>1. SUFFICES ASSUME x = Null PROVE FALSE
          OBVIOUS
        <5>2. L.parent[c] \in S /\ pos[L.parent[c]] < pos[c]
          BY <1>5
        <5>3. pos[c] <= pos[L.parent[c]]
          BY <4>3, <5>1, <5>2 DEF Before
        <5>4. QED BY <1>6, <5>2, <5>3
      <4>5. x \in S \ {r}
        BY <4>2, <4>3, <4>4 DEF Before
      <4>6. QED BY <1>17, <3>2, <4>1, <4>2, <4>5
    <3>5. QED BY <3>3, <3>4
  <2>5. \A c \in Custodian \ (S \ {r}) : M.global_prev[c] = Null
    <3>1. SUFFICES ASSUME NEW c \in Custodian \ (S \ {r}), c # r PROVE M.global_prev[c] = Null
      BY <1>13
    <3>2. c \notin S /\ c # n
      BY <1>4, <1>10, <3>1
    <3>3. QED BY <1>5, <1>13, <3>1, <3>2
  <2>6. PICK T : T = S \ {r}
    OBVIOUS
  <2>7. InTree(M) = T
    BY <1>14, <2>6
  <2>8. /\ \A c, d \in T : pos[c] = pos[d] => c = d
        /\ \A c \in T \ {Root} : M.parent[c] \in T /\ pos[M.parent[c]] < pos[c]
        /\ \A c \in T : Before(T, pos, c, M.global_prev[c])
        /\ \A c \in T \ {Root} : M.parent[c] \in Supers(M, M.global_prev[c])
        /\ \A c \in Custodian \ T : M.global_prev[c] = Null
    BY <1>5, <2>2, <2>3, <2>4, <2>5, <2>6
  <2>9. QED BY <1>5, <2>1, <2>7, <2>8 DEF Tree
<1>20. ASSUME NEW c \in S
       PROVE  /\ Kids(M, c) = Kids(L, c) \ {r}
              /\ Kids(L, c) \subseteq S /\ Null \notin Kids(L, c)
              /\ \A d \in Kids(L, c) : L.parent[d] = c /\ pos[c] < pos[d] /\ pos[d] \in Nat
              /\ r \in Kids(L, c) <=> c = p
  <2>1. Kids(L, c) \subseteq S \ {Root} /\ \A d \in Kids(L, c) : L.parent[d] = c /\ pos[c] < pos[d]
    BY <1>1, KidsIn
  <2>2. \A d \in Custodian \ {Root} : d \in Kids(M, c) <=> M.parent[d] = c
    BY DEF Kids
  <2>3. \A d \in Custodian \ {Root} : d \in Kids(L, c) <=> L.parent[d] = c
    BY DEF Kids
  <2>4. Kids(M, c) \in SUBSET (Custodian \ {Root}) /\ Kids(L, c) \in SUBSET (Custodian \ {Root})
    BY DEF Kids
  <2>5. c # Null
    BY <1>4
  <2>6. Kids(M, c) = Kids(L, c) \ {r}
    BY <1>13, <2>2, <2>3, <2>4, <2>5
  <2>7. r \in Kids(L, c) <=> c = p
    BY <1>3, <1>4, <2>3
  <2>8. QED BY <1>4, <1>6, <2>1, <2>6, <2>7
<1>21. Lists(M, pos)
  <2>1. M.last \in S \ {r} /\ \A c \in S \ {r} : pos[c] <= pos[M.last]
    <3>1. L.last \in S /\ \A c \in S : pos[c] <= pos[L.last]
      BY <1>1 DEF Lists
    <3>2. CASE n = Null
      <4>1. \A c \in S : pos[c] <= pos[r]
        BY <1>8, <3>2 DEF After
      <4>2. \A c \in S \ {r} : pos[c] < pos[r]
        BY <1>4, <1>18, <4>1
      <4>3. \A c \in S \ {r} : pos[c] <= pos[q]
        BY <1>8, <1>9, <4>2, <1>4 DEF Before
      <4>4. QED BY <1>9, <1>13, <3>2, <4>3
    <3>3. CASE n # Null
      <4>1. L.last # r
        BY <1>4, <1>6, <1>10, <3>1, <3>3
      <4>2. QED BY <1>13, <3>1, <3>3, <4>1
    <3>4. QED BY <3>2, <3>3
  <2>2. \A c \in S \ {r} : After(S \ {r}, pos, c, M.global_next[c])
    <3>1. SUFFICES ASSUME NEW c \in S \ {r} PROVE After(S \ {r}, pos, c, M.global_next[c])
      OBVIOUS
    <3>2. After(S, pos, c, L.global_next[c]) /\ c \in Custodian
      BY <1>1, <1>4 DEF Lists
    <3>3. CASE c = q
      <4>1. L.global_next[c] = r
        BY <1>1, <1>3, <1>4, <1>9, <3>3, NextPrev
      <4>2. M.global_next[c] = n
        BY <1>13, <3>2, <3>3
      <4>3. QED BY <1>4, <1>8, <1>18, <3>2, <4>1, <4>2, AfterSkip
    <3>4. CASE c # q
      <4>1. L.global_next[c] # r
        BY <1>1, <1>3, <1>4, <3>4, NextPrev
      <4>2. M.global_next[c] = L.global_next[c]
        BY <1>13, <3>2, <3>4
      <4>3. QED BY <3>2, <4>1, <4>2, Keep
    <3>5. QED BY <3>3, <3>4
  <2>3. After(Kids(L, p), pos, r, L.sibling[r])
    BY <1>1, <1>3, <1>4 DEF Lists
  <2>4. r \in Kids(L, p) /\ \A d \in Kids(L, p) : pos[d] = pos[r] => d = r
    BY <1>7, <1>18, <1>20
  <2>5. \A c \in S \ {r} : After(Kids(M, c), pos, c, M.children[c])
    <3>1. SUFFICES ASSUME NEW c \in S \ {r} PROVE After(Kids(M, c), pos, c, M.children[c])
      OBVIOUS
    <3>2. /\ After(Kids(L, c), pos, c, L.children[c]) /\ c \in Custodian
          /\ Kids(M, c) = Kids(L, c) \ {r}
      BY <1>1, <1>4, <1>20 DEF Lists
    <3>3. CASE c = p /\ L.children[p] = r
      <4>1. M.children[c] = L.sibling[r]
        BY <1>13, <3>2, <3>3
      <4>2. After(Kids(L, p), pos, p, r)
        BY <3>2, <3>3
      <4>3. Null \notin Kids(L, p) /\ pos[p] \in Nat /\ \A d \in Kids(L, p) : pos[d] \in Nat
        BY <1>6, <1>7, <1>20
      <4>4. After(Kids(L, p) \ {r}, pos, p, L.sibling[r])
        BY <2>3, <2>4, <4>2, <4>3, AfterSkip
      <4>5. QED BY <3>2, <3>3, <4>1, <4>4
    <3>4. CASE ~(c = p /\ L.children[p] = r)
      <4>1. M.children[c] = L.children[c]
        BY <1>13, <3>2, <3>4
      <4>2. L.children[c] # r
        <5>1. SUFFICES ASSUME L.children[c] = r PROVE FALSE
          OBVIOUS
        <5>2. r \in Kids(L, c)
          BY <1>4, <3>2, <5>1 DEF After
        <5>3. c = p
          BY <1>20, <5>2
        <5>4. QED BY <3>4, <5>1, <5>3
      <4>3. After(Kids(L, c) \ {r}, pos, c, L.children[c])
        BY <3>2, <4>2, Keep
      <4>4. QED BY <3>2, <4>1, <4>3
    <3>5. QED BY <3>3, <3>4
  <2>6. \A c \in (S \ {r}) \ {Root} : After(Kids(M, M.parent[c]), pos, c, M.sibling[c])
    <3>1. SUFFICES ASSUME NEW c \in (S \ {r}) \ {Root}
                   PROVE  After(Kids(M, M.parent[c]), pos, c, M.sibling[c])
      OBVIOUS
    <3>2. PICK z : z = L.parent[c]
      OBVIOUS
    <3>3. /\ z \in S /\ M.parent[c] = z /\ c \in Custodian \ {r}
          /\ After(Kids(L, z), pos, c, L.sibling[c])
          /\ Kids(M, z) = Kids(L, z) \ {r}
      BY <1>1, <1>4, <1>5, <1>15, <1>20, <3>2 DEF Lists
    <3>4. c \in Kids(L, z)
      BY <1>4, <3>2 DEF Kids
    <3>5. CASE L.sibling[c] = r
      <4>1. r \in Kids(L, z) /\ pos[c] < pos[r]
        BY <1>4, <3>3, <3>5 DEF After
      <4>2. z = p
        BY <1>20, <3>3, <4>1
      <4>3. L.children[p] # r
        <5>1. SUFFICES ASSUME L.children[p] = r PROVE FALSE
          OBVIOUS
        <5>2. After(Kids(L, p), pos, p, r)
          BY <1>1, <1>7, <5>1 DEF Lists
        <5>3. pos[p] < pos[c]
          BY <1>7, <1>20, <3>4, <4>2
        <5>4. pos[r] <= pos[c]
          BY <1>4, <3>4, <4>2, <5>2, <5>3 DEF After
        <5>5. QED BY <1>4, <1>6, <4>1, <5>4
      <4>4. c \in ToSet(Children(L, p))
        BY <1>1, <1>7, <3>4, <4>2, ChildrenIs
      <4>5. M.sibling[c] = L.sibling[r]
        BY <1>13, <3>3, <3>5, <4>3, <4>4
      <4>6. Null \notin Kids(L, p) /\ pos[c] \in Nat /\ \A d \in Kids(L, p) : pos[d] \in Nat
        BY <1>6, <1>7, <1>20
      <4>7. After(Kids(L, p), pos, c, r)
        BY <3>3, <3>5, <4>2
      <4>8. After(Kids(L, p) \ {r}, pos, c, L.sibling[r])
        BY <2>3, <2>4, <4>6, <4>7, AfterSkip
      <4>9. QED BY <3>3, <4>2, <4>5, <4>8
    <3>6. CASE L.sibling[c] # r
      <4>1. M.sibling[c] = L.sibling[c]
        BY <1>13, <3>3, <3>6
      <4>2. After(Kids(L, z) \ {r}, pos, c, L.sibling[c])
        BY <3>3, <3>6, Keep
      <4>3. QED BY <3>3, <4>1, <4>2
    <3>7. QED BY <3>5, <3>6
  <2>7. \A c \in Custodian \ (S \ {r}) : M.children[c] = Null
    <3>1. SUFFICES ASSUME NEW c \in Custodian \ (S \ {r}) PROVE M.children[c] = Null
      OBVIOUS
    <3>2. L.children[c] = Null
      BY <1>1, <1>12, <3>1 DEF Lists
    <3>3. c # p
      BY <1>7, <3>1
    <3>4. QED BY <1>13, <3>1, <3>2, <3>3
  <2>8. PICK T : T = S \ {r}
    OBVIOUS
  <2>9. InTree(M) = T
    BY <1>14, <2>8
  <2>10. /\ M.last \in T /\ \A c \in T : pos[c] <= pos[M.last]
         /\ \A c \in T : After(T, pos, c, M.global_next[c])
         /\ \A c \in T : After(Kids(M, c), pos, c, M.children[c])
         /\ \A c \in T \ {Root} : After(Kids(M, M.parent[c]), pos, c, M.sibling[c])
         /\ \A c \in Custodian \ T : M.children[c] = Null
    BY <2>1, <2>2, <2>5, <2>6, <2>7, <2>8
  <2>11. QED BY <1>13, <2>9, <2>10 DEF Lists
<1>22. QED BY <1>1, <1>2, <1>14, <1>15, <1>19, <1>21

-----------------------------------------------------------------------------
\* A shutdown takes out all that is below.

\* The walk of Shutdown.
Adjusts(L, m, fam, n, g) ==
  g = [k \in 0..n |-> IF k = 0 THEN L
                      ELSE IF fam[k] = m THEN g[k - 1]
                      ELSE Adjusted(g[k - 1], fam[k], TRUE)]

\* There is such a walk.
LEMMA AdjustsExists ==
  ASSUME NEW L, NEW m, NEW fam, NEW n \in Nat
  PROVE  \E g : Adjusts(L, m, fam, n, g)
<1>1. PICK P : P = {k \in 0..n : \E g : Adjusts(L, m, fam, k, g)}
  OBVIOUS
<1>2. 0 \in P
  <2>1. PICK g : g = [k \in 0..0 |-> L]
    OBVIOUS
  <2>2. \A k \in 0..0 : k = 0
    OBVIOUS
  <2>3. Adjusts(L, m, fam, 0, g)
    BY <2>1, <2>2 DEF Adjusts
  <2>4. 0 \in 0..n
    OBVIOUS
  <2>5. QED BY <1>1, <2>3, <2>4
<1>3. ASSUME NEW k \in 0..(n - 1), k \in P
      PROVE  k + 1 \in P
  <2>1. PICK g : Adjusts(L, m, fam, k, g)
    BY <1>1, <1>3
  <2>2. PICK x : x = IF fam[k + 1] = m THEN g[k] ELSE Adjusted(g[k], fam[k + 1], TRUE)
    OBVIOUS
  <2>3. PICK h : h = [j \in 0..(k + 1) |-> IF j = k + 1 THEN x ELSE g[j]]
    OBVIOUS
  <2>4. h[k + 1] = x /\ \A j \in 0..k : h[j] = g[j]
    BY <2>3
  <2>5. ASSUME NEW j \in 0..(k + 1)
        PROVE  h[j] = IF j = 0 THEN L
                      ELSE IF fam[j] = m THEN h[j - 1] ELSE Adjusted(h[j - 1], fam[j], TRUE)
    <3>1. CASE j = k + 1
      <4>1. j # 0 /\ j - 1 = k /\ k \in 0..k
        BY <3>1
      <4>2. h[j - 1] = g[k] /\ h[j] = x
        BY <2>4, <3>1, <4>1
      <4>3. QED BY <2>2, <3>1, <4>1, <4>2
    <3>2. CASE j # k + 1
      <4>1. j \in 0..k /\ (j # 0 => j - 1 \in 0..k)
        BY <3>2
      <4>2. h[j] = g[j] /\ (j # 0 => h[j - 1] = g[j - 1])
        BY <2>4, <4>1
      <4>3. g[j] = IF j = 0 THEN L
                   ELSE IF fam[j] = m THEN g[j - 1] ELSE Adjusted(g[j - 1], fam[j], TRUE)
        BY <2>1, <4>1 DEF Adjusts
      <4>4. QED BY <4>2, <4>3
    <3>3. QED BY <3>1, <3>2
  <2>6. h = [j \in 0..(k + 1) |-> h[j]]
    BY <2>3
  <2>7. Adjusts(L, m, fam, k + 1, h)
    BY <2>5, <2>6 DEF Adjusts
  <2>8. k + 1 \in 0..n
    OBVIOUS
  <2>9. QED BY <1>1, <2>7, <2>8
<1>4. \A k \in 0..n : k \in P
  BY <1>2, <1>3, UpTo
<1>5. n \in 0..n
  OBVIOUS
<1>6. QED BY <1>1, <1>4, <1>5

\* What the links are after a shutdown of m.
ShutLinks(L, m) ==
  LET family == Family(L, m) IN
  (CHOOSE g : Adjusts(L, m, family, Len(family), g))[Len(family)]

\* The links that a shutdown of m leaves behind.
Shut(L, m, pos, B, M) ==
  /\ InTree(M) = {x \in InTree(L) : x = m \/ m \notin Supers(L, x)}
  /\ \A c \in InTree(M) : M.parent[c] = L.parent[c]
  /\ Tree(M, pos, B) /\ Lists(M, pos)

\* A shutdown keeps the tree and its lists.
LEMMA ShutKeeps ==
  ASSUME NEW L, NEW pos, NEW B, Tree(L, pos, B), Lists(L, pos), NEW m \in Custodian \ {Root}
  PROVE  Shut(L, m, pos, B, ShutLinks(L, m))
<1>1. PICK S : S = InTree(L)
  OBVIOUS
<1>2. CASE m \in S
  <2>1. PICK n, fam : FamilySeq(L, pos, m, n, fam)
    BY <1>1, <1>2, FamilyIs
  <2>2. /\ fam = Family(L, m) /\ n \in Nat \ {0} /\ Len(fam) = n /\ fam[n] = m
        /\ \A k \in 1..n : fam[k] \in S
        /\ \A j, k \in 1..n : j < k => pos[fam[k]] < pos[fam[j]]
        /\ \A x \in S : m \in Supers(L, x) <=> \E k \in 1..n : fam[k] = x
    BY <1>1, <2>1 DEF FamilySeq
  <2>3. PICK g : g = CHOOSE h : Adjusts(L, m, fam, n, h)
    OBVIOUS
  <2>4. Adjusts(L, m, fam, n, g)
    BY <2>2, <2>3, AdjustsExists
  <2>5. ShutLinks(L, m) = g[n]
    BY <2>2, <2>3 DEF ShutLinks
  <2>6. g[0] = L
    <3>1. 0 \in 0..n
      BY <2>2
    <3>2. QED BY <2>4, <3>1 DEF Adjusts
  <2>7. ASSUME NEW k \in 0..(n - 1)
        PROVE  g[k + 1] = IF fam[k + 1] = m THEN g[k] ELSE Adjusted(g[k], fam[k + 1], TRUE)
    <3>1. PICK j \in 0..n : j = k + 1 /\ j # 0 /\ j - 1 = k
      BY <2>2
    <3>2. g[j] = IF fam[j] = m THEN g[j - 1] ELSE Adjusted(g[j - 1], fam[j], TRUE)
      BY <2>4, <3>1 DEF Adjusts
    <3>3. QED BY <3>1, <3>2
  <2>8. \A x \in S : pos[x] \in Nat
    BY <1>1, RootIn DEF Tree
  <2>9. \A j, k \in 1..n : fam[j] = fam[k] => j = k
    <3>1. SUFFICES ASSUME NEW j \in 1..n, NEW k \in 1..n, fam[j] = fam[k], j # k PROVE FALSE
      OBVIOUS
    <3>2. j < k \/ k < j
      BY <3>1
    <3>3. QED BY <2>2, <2>8, <3>1, <3>2
  <2>10. n \in 1..n
    BY <2>2
  <2>11. PICK R : R = {k \in 0..n :
           /\ InTree(g[k]) = {x \in S : x = m \/ \A j \in 1..k : fam[j] # x}
           /\ \A c \in InTree(g[k]) : g[k].parent[c] = L.parent[c]
           /\ Tree(g[k], pos, B) /\ Lists(g[k], pos)}
    OBVIOUS
  <2>12. 0 \in R
    <3>1. 0 \in 0..n /\ \A j \in 1..0 : FALSE
      BY <2>2
    <3>2. {x \in S : x = m \/ \A j \in 1..0 : fam[j] # x} = S
      BY <3>1
    <3>3. QED BY <1>1, <2>6, <2>11, <3>1, <3>2
  <2>13. ASSUME NEW k \in 0..(n - 1), k \in R
         PROVE  k + 1 \in R
    <3>1. k + 1 \in 0..n /\ k + 1 \in 1..n /\ \A j \in 1..(k + 1) : j \in 1..k \/ j = k + 1
      BY <2>2
    <3>2. \A j \in 1..k : j \in 1..(k + 1) /\ j \in 1..n /\ j < k + 1
      BY <2>2
    <3>3. PICK M, r : M = g[k] /\ r = fam[k + 1]
      OBVIOUS
    <3>4. /\ InTree(M) = {x \in S : x = m \/ \A j \in 1..k : fam[j] # x}
          /\ \A c \in InTree(M) : M.parent[c] = L.parent[c]
          /\ Tree(M, pos, B) /\ Lists(M, pos)
      BY <2>11, <2>13, <3>3
    <3>5. r \in S /\ m \in Supers(L, r)
      BY <2>2, <3>1, <3>3
    <3>6. CASE r = m
      <4>1. g[k + 1] = M
        BY <2>7, <3>3, <3>6
      <4>2. \A x \in S : (x = m \/ \A j \in 1..k : fam[j] # x)
                           <=> (x = m \/ \A j \in 1..(k + 1) : fam[j] # x)
        BY <3>1, <3>2, <3>3, <3>6
      <4>3. InTree(M) = {x \in S : x = m \/ \A j \in 1..(k + 1) : fam[j] # x}
        BY <3>4, <4>2
      <4>4. QED BY <2>11, <3>1, <3>4, <4>1, <4>3
    <3>7. CASE r # m
      <4>1. g[k + 1] = Adjusted(M, r, TRUE)
        BY <2>7, <3>3, <3>7
      <4>2. \A j \in 1..k : fam[j] # r
        <5>1. SUFFICES ASSUME NEW j \in 1..k, fam[j] = r PROVE FALSE
          OBVIOUS
        <5>2. j = k + 1
          BY <2>9, <3>1, <3>2, <3>3, <5>1
        <5>3. QED BY <3>2, <5>1, <5>2
      <4>3. r \in InTree(M)
        BY <3>4, <3>5, <4>2
      <4>4. r # Root
        <5>1. SUFFICES ASSUME r = Root PROVE FALSE
          OBVIOUS
        <5>2. Supers(L, r) = {r}
          BY <5>1, SupersStep
        <5>3. QED BY <3>5, <3>7, <5>2
      <4>5. Kids(M, r) = {}
        <5>1. SUFFICES ASSUME NEW x \in Kids(M, r) PROVE FALSE
          OBVIOUS
        <5>2. x \in InTree(M) \ {Root} /\ M.parent[x] = r
          BY <3>4, <4>3, <5>1, KidsIn
        <5>3. x \in S \ {Root} /\ L.parent[x] = r
          BY <3>4, <5>2
        <5>4. pos[r] < pos[x] /\ Supers(L, x) = {x} \cup Supers(L, r)
          BY <1>1, <5>3, SupersStep DEF Tree
        <5>5. PICK j \in 1..n : fam[j] = x
          BY <2>2, <3>5, <5>3, <5>4
        <5>6. j \in 1..k
          <6>1. SUFFICES ASSUME ~(j < k + 1) PROVE FALSE
            BY <3>1
          <6>2. j = k + 1 \/ k + 1 < j
            BY <6>1
          <6>3. pos[x] = pos[r] \/ pos[x] < pos[r]
            BY <2>2, <3>1, <3>3, <5>5, <6>2
          <6>4. QED BY <2>8, <3>5, <5>3, <5>4, <6>3
        <5>7. x = m
          BY <3>4, <5>2, <5>5, <5>6
        <5>8. pos[m] <= pos[r]
          BY <1>1, <3>5, SupersIn
        <5>9. QED BY <2>8, <3>5, <5>3, <5>4, <5>7, <5>8
      <4>6. /\ InTree(g[k + 1]) = InTree(M) \ {r}
            /\ \A c \in InTree(M) \ {r} : g[k + 1].parent[c] = M.parent[c]
            /\ Tree(g[k + 1], pos, B) /\ Lists(g[k + 1], pos)
        <5>1. r \in InTree(M) \ {Root}
          BY <4>3, <4>4
        <5>2. Tree(M, pos, B) /\ Lists(M, pos)
          BY <3>4
        <5>3. /\ InTree(Adjusted(M, r, TRUE)) = InTree(M) \ {r}
              /\ \A c \in InTree(M) \ {r} : Adjusted(M, r, TRUE).parent[c] = M.parent[c]
              /\ Tree(Adjusted(M, r, TRUE), pos, B) /\ Lists(Adjusted(M, r, TRUE), pos)
          BY <4>5, <5>1, <5>2, RemoveKeeps
        <5>4. QED BY <4>1, <5>3
      <4>7. \A x \in S : (x = m \/ \A j \in 1..(k + 1) : fam[j] # x)
                           <=> (x = m \/ \A j \in 1..k : fam[j] # x) /\ x # r
        BY <3>1, <3>2, <3>3, <3>7
      <4>8. InTree(g[k + 1]) = {x \in S : x = m \/ \A j \in 1..(k + 1) : fam[j] # x}
        BY <3>4, <4>6, <4>7
      <4>9. \A c \in InTree(g[k + 1]) : g[k + 1].parent[c] = L.parent[c]
        BY <3>4, <4>6
      <4>10. QED BY <2>11, <3>1, <4>6, <4>8, <4>9
    <3>8. QED BY <3>6, <3>7
  <2>14. \A k \in 0..n : k \in R
    BY <2>2, <2>12, <2>13, UpTo
  <2>15. n \in R
    BY <2>2, <2>14
  <2>16. {x \in S : x = m \/ \A j \in 1..n : fam[j] # x} = {x \in S : x = m \/ m \notin Supers(L, x)}
    BY <2>2
  <2>17. QED BY <1>1, <2>5, <2>11, <2>15, <2>16 DEF Shut
<1>3. CASE m \notin S
  <2>1. m \in Custodian \ InTree(L)
    BY <1>1, <1>3
  <2>2. Family(L, m) = <<m>> /\ \A x \in Custodian : m \in Supers(L, x) => x = m
    BY <2>1, OutOfTree
  <2>3. PICK fam : fam = <<m>>
    OBVIOUS
  <2>4. Len(fam) = 1 /\ fam[1] = m
    BY <2>3
  <2>5. PICK g : g = CHOOSE h : Adjusts(L, m, fam, 1, h)
    OBVIOUS
  <2>6. Adjusts(L, m, fam, 1, g)
    BY <2>5, AdjustsExists
  <2>7. ShutLinks(L, m) = g[1]
    BY <2>2, <2>3, <2>4, <2>5 DEF ShutLinks
  <2>8. 0 \in 0..1 /\ 1 \in 0..1 /\ 1 # 0 /\ 1 - 1 = 0
    OBVIOUS
  <2>9. g[0] = L /\ g[1] = g[0]
    BY <2>4, <2>6, <2>8 DEF Adjusts
  <2>10. InTree(L) = {x \in InTree(L) : x = m \/ m \notin Supers(L, x)}
    BY <2>2, RootIn
  <2>11. ShutLinks(L, m) = L
    BY <2>7, <2>9
  <2>12. QED BY <2>10, <2>11 DEF Shut
<1>4. QED BY <1>2, <1>3

-----------------------------------------------------------------------------
\* The custodians a thread keeps.

\* The walk of Without.
Lefts(ms, gone, n, g) ==
  g = [k \in 0..n |-> IF k = 0 THEN <<>>
                      ELSE IF ms[k] \in gone THEN g[k - 1] ELSE Append(g[k - 1], ms[k])]

\* There is such a walk.
LEMMA LeftsExists ==
  ASSUME NEW ms, NEW gone, NEW n \in Nat
  PROVE  \E g : Lefts(ms, gone, n, g)
<1>1. PICK P : P = {k \in 0..n : \E g : Lefts(ms, gone, k, g)}
  OBVIOUS
<1>2. 0 \in P
  <2>1. PICK g : g = [k \in 0..0 |-> <<>>]
    OBVIOUS
  <2>2. \A k \in 0..0 : k = 0
    OBVIOUS
  <2>3. Lefts(ms, gone, 0, g)
    BY <2>1, <2>2 DEF Lefts
  <2>4. 0 \in 0..n
    OBVIOUS
  <2>5. QED BY <1>1, <2>3, <2>4
<1>3. ASSUME NEW k \in 0..(n - 1), k \in P
      PROVE  k + 1 \in P
  <2>1. PICK g : Lefts(ms, gone, k, g)
    BY <1>1, <1>3
  <2>2. PICK x : x = IF ms[k + 1] \in gone THEN g[k] ELSE Append(g[k], ms[k + 1])
    OBVIOUS
  <2>3. PICK h : h = [j \in 0..(k + 1) |-> IF j = k + 1 THEN x ELSE g[j]]
    OBVIOUS
  <2>4. h[k + 1] = x /\ \A j \in 0..k : h[j] = g[j]
    BY <2>3
  <2>5. ASSUME NEW j \in 0..(k + 1)
        PROVE  h[j] = IF j = 0 THEN <<>>
                      ELSE IF ms[j] \in gone THEN h[j - 1] ELSE Append(h[j - 1], ms[j])
    <3>1. CASE j = k + 1
      <4>1. j # 0 /\ j - 1 = k /\ k \in 0..k
        BY <3>1
      <4>2. h[j - 1] = g[k] /\ h[j] = x
        BY <2>4, <3>1, <4>1
      <4>3. QED BY <2>2, <3>1, <4>1, <4>2
    <3>2. CASE j # k + 1
      <4>1. j \in 0..k /\ (j # 0 => j - 1 \in 0..k)
        BY <3>2
      <4>2. h[j] = g[j] /\ (j # 0 => h[j - 1] = g[j - 1])
        BY <2>4, <4>1
      <4>3. g[j] = IF j = 0 THEN <<>>
                   ELSE IF ms[j] \in gone THEN g[j - 1] ELSE Append(g[j - 1], ms[j])
        BY <2>1, <4>1 DEF Lefts
      <4>4. QED BY <4>2, <4>3
    <3>3. QED BY <3>1, <3>2
  <2>6. h = [j \in 0..(k + 1) |-> h[j]]
    BY <2>3
  <2>7. Lefts(ms, gone, k + 1, h)
    BY <2>5, <2>6 DEF Lefts
  <2>8. k + 1 \in 0..n
    OBVIOUS
  <2>9. QED BY <1>1, <2>7, <2>8
<1>4. \A k \in 0..n : k \in P
  BY <1>2, <1>3, UpTo
<1>5. n \in 0..n
  OBVIOUS
<1>6. QED BY <1>1, <1>4, <1>5

\* The custodians that are left are those that are not gone.
LEMMA LeftIs ==
  ASSUME NEW S, NEW ms \in Seq(S), NEW gone
  PROVE  /\ Without(ms, gone) \in Seq(S)
         /\ ToSet(Without(ms, gone)) = ToSet(ms) \ gone
         /\ Without(ms, gone) = <<>> <=> ToSet(ms) \subseteq gone
<1>1. PICK n \in Nat : n = Len(ms) /\ DOMAIN ms = 1..n
  OBVIOUS
<1>2. PICK g : g = CHOOSE h : Lefts(ms, gone, n, h)
  OBVIOUS
<1>3. Lefts(ms, gone, n, g)
  BY <1>2, LeftsExists
<1>4. Without(ms, gone) = g[n]
  BY <1>1, <1>2 DEF Without, Lefts
<1>5. PICK P : P = {k \in 0..n : /\ g[k] \in Seq(S)
                                 /\ ToSet(g[k]) = {ms[j] : j \in 1..k} \ gone}
  OBVIOUS
<1>6. 0 \in P
  <2>1. 0 \in 0..n /\ \A j \in 1..0 : FALSE
    BY <1>1
  <2>2. g[0] = <<>>
    BY <1>3, <2>1 DEF Lefts
  <2>3. {ms[j] : j \in 1..0} = {}
    BY <2>1
  <2>4. ToSet(<<>>) = {}
    BY DEF ToSet
  <2>5. <<>> \in Seq(S)
    OBVIOUS
  <2>6. QED BY <1>5, <2>1, <2>2, <2>3, <2>4, <2>5
<1>7. ASSUME NEW k \in 0..(n - 1), k \in P
      PROVE  k + 1 \in P
  <2>1. PICK i \in 1..n : i = k + 1 /\ i \in 0..n /\ i # 0 /\ i - 1 = k
    BY <1>1
  <2>2. g[i] = IF ms[i] \in gone THEN g[k] ELSE Append(g[k], ms[i])
    BY <1>3, <2>1 DEF Lefts
  <2>3. \A j : j \in 1..i <=> j \in 1..k \/ j = i
    BY <1>1, <2>1
  <2>4. {ms[j] : j \in 1..i} = {ms[j] : j \in 1..k} \cup {ms[i]}
    BY <2>3
  <2>5. ms[i] \in S /\ g[k] \in Seq(S) /\ ToSet(g[k]) = {ms[j] : j \in 1..k} \ gone
    BY <1>1, <1>5, <1>7, <2>1
  <2>6. CASE ms[i] \in gone
    <3>1. g[i] = g[k]
      BY <2>2, <2>6
    <3>2. ToSet(g[i]) = {ms[j] : j \in 1..i} \ gone
      BY <2>4, <2>5, <2>6, <3>1
    <3>3. QED BY <1>5, <2>1, <2>5, <3>1, <3>2
  <2>7. CASE ms[i] \notin gone
    <3>1. PICK old, new : old = g[k] /\ new = Append(g[k], ms[i])
      OBVIOUS
    <3>2. g[i] = new /\ old \in Seq(S) /\ new \in Seq(S)
      BY <2>2, <2>5, <2>7, <3>1
    <3>3. PICK l \in Nat : l = Len(old) /\ DOMAIN old = 1..l
      BY <3>2
    <3>4. DOMAIN new = 1..(l + 1) /\ new[l + 1] = ms[i] /\ \A j \in 1..l : new[j] = old[j]
      BY <2>5, <3>1, <3>2, <3>3
    <3>5. \A j : j \in 1..(l + 1) <=> j \in 1..l \/ j = l + 1
      BY <3>3
    <3>6. ToSet(new) = ToSet(old) \cup {ms[i]}
      BY <3>3, <3>4, <3>5 DEF ToSet
    <3>7. ToSet(g[i]) = {ms[j] : j \in 1..i} \ gone
      BY <2>4, <2>5, <2>7, <3>1, <3>2, <3>6
    <3>8. QED BY <1>5, <2>1, <3>2, <3>7
  <2>8. QED BY <2>6, <2>7
<1>8. \A k \in 0..n : k \in P
  BY <1>1, <1>6, <1>7, UpTo
<1>9. n \in 0..n /\ ToSet(ms) = {ms[j] : j \in 1..n}
  BY <1>1 DEF ToSet
<1>10. PICK left : left = Without(ms, gone)
  OBVIOUS
<1>11. left \in Seq(S) /\ ToSet(left) = ToSet(ms) \ gone
  BY <1>4, <1>5, <1>8, <1>9, <1>10
<1>12. left = <<>> <=> ToSet(left) = {}
  <2>1. ASSUME left = <<>> PROVE ToSet(left) = {}
    BY <2>1 DEF ToSet
  <2>2. ASSUME left # <<>> PROVE ToSet(left) # {}
    <3>1. 1 \in DOMAIN left
      BY <1>11, <2>2
    <3>2. QED BY <3>1 DEF ToSet
  <2>3. QED BY <2>1, <2>2
<1>13. QED BY <1>10, <1>11, <1>12

-----------------------------------------------------------------------------
\* Any path.

\* There is a walk along any link.
LEMMA WalksExists ==
  ASSUME NEW link, NEW c
  PROVE  \E w : Walks(link, c, w)
<1>1. PICK n \in Nat : n = Cardinality(Custodian)
  BY CustodianAssumption, FS_CardinalityType
<1> DEFINE Goes(k, w) == w = [j \in 0..k |-> IF j = 0 THEN c
                               ELSE LET x == w[j - 1] IN IF x = Null THEN Null ELSE link[x]]
<1>2. PICK P : P = {k \in 0..n : \E w : Goes(k, w)}
  OBVIOUS
<1>3. 0 \in P
  <2>1. PICK w : w = [k \in 0..0 |-> c]
    OBVIOUS
  <2>2. \A k \in 0..0 : k = 0
    OBVIOUS
  <2>3. Goes(0, w)
    BY <2>1, <2>2
  <2>4. 0 \in 0..n
    OBVIOUS
  <2>5. QED BY <1>2, <2>3, <2>4
<1>4. ASSUME NEW k \in 0..(n - 1), k \in P
      PROVE  k + 1 \in P
  <2>1. PICK g : Goes(k, g)
    BY <1>2, <1>4
  <2>2. PICK x : x = IF g[k] = Null THEN Null ELSE link[g[k]]
    OBVIOUS
  <2>3. PICK h : h = [j \in 0..(k + 1) |-> IF j = k + 1 THEN x ELSE g[j]]
    OBVIOUS
  <2>4. h[k + 1] = x /\ \A j \in 0..k : h[j] = g[j]
    BY <2>3
  <2>5. ASSUME NEW j \in 0..(k + 1)
        PROVE  h[j] = IF j = 0 THEN c ELSE IF h[j - 1] = Null THEN Null ELSE link[h[j - 1]]
    <3>1. CASE j = k + 1
      <4>1. j # 0 /\ j - 1 = k /\ k \in 0..k
        BY <3>1
      <4>2. h[j - 1] = g[k] /\ h[j] = x
        BY <2>4, <3>1, <4>1
      <4>3. QED BY <2>2, <4>1, <4>2
    <3>2. CASE j # k + 1
      <4>1. j \in 0..k /\ (j # 0 => j - 1 \in 0..k)
        BY <3>2
      <4>2. h[j] = g[j] /\ (j # 0 => h[j - 1] = g[j - 1])
        BY <2>4, <4>1
      <4>3. g[j] = IF j = 0 THEN c ELSE IF g[j - 1] = Null THEN Null ELSE link[g[j - 1]]
        BY <2>1, <4>1
      <4>4. QED BY <4>2, <4>3
    <3>3. QED BY <3>1, <3>2
  <2>6. h = [j \in 0..(k + 1) |-> h[j]]
    BY <2>3
  <2>7. Goes(k + 1, h)
    BY <2>5, <2>6
  <2>8. k + 1 \in 0..n
    OBVIOUS
  <2>9. QED BY <1>2, <2>7, <2>8
<1>5. \A k \in 0..n : k \in P
  BY <1>3, <1>4, UpTo
<1>6. n \in 0..n
  OBVIOUS
<1>7. PICK w : Goes(n, w)
  BY <1>2, <1>5, <1>6
<1>8. Walks(link, c, w)
  BY <1>1, <1>7 DEF Walks
<1>9. QED BY <1>8

\* A path has where it starts, and where the link leads from there.
LEMMA PathStart ==
  ASSUME NEW link, NEW c, c # Null
  PROVE  /\ c \in ToSet(Path(link, c))
         /\ c \in Custodian \ {Root} /\ link[c] # Null => link[c] \in ToSet(Path(link, c))
<1>1. PICK n \in Nat : n = Cardinality(Custodian)
  BY CustodianAssumption, FS_CardinalityType
<1>2. c # Null /\ Root \in Custodian /\ IsFiniteSet(Custodian)
  BY CustodianAssumption
<1>3. PICK w : w = CHOOSE g : Walks(link, c, g)
  OBVIOUS
<1>4. Walks(link, c, w)
  BY <1>3, WalksExists
<1>5. PICK live : live = {k \in 1..n : w[k - 1] # Null}
  OBVIOUS
<1>6. PICK l : l = Cardinality(live)
  OBVIOUS
<1>7. Path(link, c) = [k \in 1..l |-> w[k - 1]]
  BY <1>1, <1>3, <1>5, <1>6 DEF Path, Walks
<1>8. IsFiniteSet(live) /\ l \in Nat
  <2>1. IsFiniteSet(1..n)
    BY FS_Interval
  <2>2. live \in SUBSET (1..n)
    BY <1>5
  <2>3. QED BY <1>6, <2>1, <2>2, FS_Subset, FS_CardinalityType
<1>9. 1 <= n
  <2>1. {Root} \subseteq Custodian /\ Cardinality({Root}) = 1
    BY <1>2, FS_Singleton
  <2>2. QED BY <1>1, <1>2, <2>1, FS_Subset
<1>10. w[0] = c
  <2>1. 0 \in 0..n
    BY <1>1
  <2>2. QED BY <1>1, <1>4, <2>1 DEF Walks
<1>11. 1 \in live
  <2>1. 1 - 1 = 0 /\ 1 \in 1..n
    BY <1>9
  <2>2. QED BY <1>2, <1>5, <1>10, <2>1
<1>12. 1 <= l
  <2>1. Cardinality({1}) = 1 /\ {1} \subseteq live
    BY <1>11, FS_Singleton
  <2>2. QED BY <1>6, <1>8, <2>1, FS_Subset
<1>13. DOMAIN Path(link, c) = 1..l
  BY <1>7
<1>14. c \in ToSet(Path(link, c))
  <2>1. 1 \in 1..l /\ 1 - 1 = 0
    BY <1>8, <1>12
  <2>2. Path(link, c)[1] = c
    BY <1>7, <1>10, <2>1
  <2>3. QED BY <1>13, <2>1, <2>2 DEF ToSet
<1>15. ASSUME c \in Custodian \ {Root}, link[c] # Null
       PROVE  link[c] \in ToSet(Path(link, c))
  <2>1. 2 <= n
    <3>1. {Root, c} \subseteq Custodian /\ Cardinality({Root, c}) = 2
      <4>1. IsFiniteSet({Root}) /\ Cardinality({Root}) = 1
        BY FS_Singleton
      <4>2. Cardinality({Root} \cup {c}) = 1 + 1
        BY <1>15, <4>1, FS_AddElement
      <4>3. {Root} \cup {c} = {Root, c}
        OBVIOUS
      <4>4. QED BY <1>2, <1>15, <4>2, <4>3
    <3>2. QED BY <1>1, <1>2, <3>1, FS_Subset
  <2>2. w[1] = link[c]
    <3>1. 1 \in 0..n /\ 1 # 0 /\ 1 - 1 = 0
      BY <2>1
    <3>2. w[1] = IF w[0] = Null THEN Null ELSE link[w[0]]
      BY <1>1, <1>4, <3>1 DEF Walks
    <3>3. QED BY <1>2, <1>10, <3>2
  <2>3. 2 \in live
    <3>1. 2 \in 1..n /\ 2 - 1 = 1
      BY <2>1
    <3>2. QED BY <1>5, <1>15, <2>2, <3>1
  <2>4. 2 <= l
    <3>1. {1, 2} \subseteq live /\ Cardinality({1, 2}) = 2
      <4>1. IsFiniteSet({1}) /\ Cardinality({1}) = 1
        BY FS_Singleton
      <4>2. Cardinality({1} \cup {2}) = 1 + 1
        BY <4>1, FS_AddElement
      <4>3. {1} \cup {2} = {1, 2}
        OBVIOUS
      <4>4. QED BY <1>11, <2>3, <4>2, <4>3
    <3>2. QED BY <1>6, <1>8, <3>1, FS_Subset
  <2>5. 2 \in 1..l /\ 2 - 1 = 1
    BY <1>8, <2>4
  <2>6. Path(link, c)[2] = link[c]
    BY <1>7, <2>2, <2>5
  <2>7. QED BY <1>13, <2>5, <2>6 DEF ToSet
<1>16. QED BY <1>14, <1>15

-----------------------------------------------------------------------------
\* Along the yokes.

Onward(r, via) == r \cup UNION {{u \in yoked[t] : life[u] # "dead"} : t \in r \cap via}

\* The walk of Reached.
Reaches(ts, via, n, g) ==
  g = [k \in 0..n |-> IF k = 0 THEN ts
                      ELSE LET r == g[k - 1]
                           IN  r \cup UNION {{u \in yoked[t] : life[u] # "dead"} : t \in r \cap via}]

\* There is such a walk.
LEMMA ReachesExists ==
  ASSUME NEW ts, NEW via, NEW n \in Nat
  PROVE  \E g : Reaches(ts, via, n, g)
<1>1. PICK P : P = {k \in 0..n : \E g : Reaches(ts, via, k, g)}
  OBVIOUS
<1>2. 0 \in P
  <2>1. PICK g : g = [k \in 0..0 |-> ts]
    OBVIOUS
  <2>2. \A k \in 0..0 : k = 0
    OBVIOUS
  <2>3. Reaches(ts, via, 0, g)
    BY <2>1, <2>2 DEF Reaches
  <2>4. 0 \in 0..n
    OBVIOUS
  <2>5. QED BY <1>1, <2>3, <2>4
<1>3. ASSUME NEW k \in 0..(n - 1), k \in P
      PROVE  k + 1 \in P
  <2>1. PICK g : Reaches(ts, via, k, g)
    BY <1>1, <1>3
  <2>2. PICK x : x = Onward(g[k], via)
    OBVIOUS
  <2>3. PICK h : h = [j \in 0..(k + 1) |-> IF j = k + 1 THEN x ELSE g[j]]
    OBVIOUS
  <2>4. h[k + 1] = x /\ \A j \in 0..k : h[j] = g[j]
    BY <2>3
  <2>5. ASSUME NEW j \in 0..(k + 1)
        PROVE  h[j] = IF j = 0 THEN ts ELSE Onward(h[j - 1], via)
    <3>1. CASE j = k + 1
      <4>1. j # 0 /\ j - 1 = k /\ k \in 0..k
        BY <3>1
      <4>2. h[j - 1] = g[k] /\ h[j] = x
        BY <2>4, <3>1, <4>1
      <4>3. QED BY <2>2, <4>1, <4>2
    <3>2. CASE j # k + 1
      <4>1. j \in 0..k /\ (j # 0 => j - 1 \in 0..k)
        BY <3>2
      <4>2. h[j] = g[j] /\ (j # 0 => h[j - 1] = g[j - 1])
        BY <2>4, <4>1
      <4>3. g[j] = IF j = 0 THEN ts ELSE Onward(g[j - 1], via)
        BY <2>1, <4>1 DEF Reaches, Onward
      <4>4. QED BY <4>2, <4>3
    <3>3. QED BY <3>1, <3>2
  <2>6. h = [j \in 0..(k + 1) |-> h[j]]
    BY <2>3
  <2>7. Reaches(ts, via, k + 1, h)
    BY <2>5, <2>6 DEF Reaches, Onward
  <2>8. k + 1 \in 0..n
    OBVIOUS
  <2>9. QED BY <1>1, <2>7, <2>8
<1>4. \A k \in 0..n : k \in P
  BY <1>2, <1>3, UpTo
<1>5. n \in 0..n
  OBVIOUS
<1>6. QED BY <1>1, <1>4, <1>5

\* As many steps as there are threads reach all that can be reached.
LEMMA ReachedIs ==
  ASSUME yoked \in [Thread -> SUBSET Thread], NEW ts \in SUBSET Thread, NEW via
  PROVE  /\ ts \subseteq Reached(ts, via) /\ Reached(ts, via) \subseteq Thread
         /\ \A t \in Reached(ts, via) \cap via : \A u \in yoked[t] :
              life[u] # "dead" => u \in Reached(ts, via)
<1>1. PICK n \in Nat : n = Cardinality(Thread)
  BY CustodianAssumption, FS_CardinalityType
<1>2. IsFiniteSet(Thread)
  BY CustodianAssumption
<1>3. PICK g : g = CHOOSE h : Reaches(ts, via, n, h)
  OBVIOUS
<1>4. Reaches(ts, via, n, g)
  BY <1>3, ReachesExists
<1>5. Reached(ts, via) = g[n]
  BY <1>1, <1>3 DEF Reached, Reaches
<1>6. g[0] = ts
  <2>1. 0 \in 0..n
    BY <1>1
  <2>2. QED BY <1>4, <2>1 DEF Reaches
<1>7. ASSUME NEW k \in 0..(n - 1)
      PROVE  g[k + 1] = Onward(g[k], via)
  <2>1. PICK j \in 0..n : j = k + 1 /\ j # 0 /\ j - 1 = k
    BY <1>1
  <2>2. g[j] = Onward(g[j - 1], via)
    BY <1>4, <2>1 DEF Reaches, Onward
  <2>3. QED BY <2>1, <2>2
<1>8. PICK P : P = {k \in 0..n : /\ ts \subseteq g[k] /\ g[k] \subseteq Thread
                                 /\ Onward(g[k], via) = g[k] \/ k <= Cardinality(g[k])}
  OBVIOUS
<1>9. 0 \in P
  <2>1. IsFiniteSet(ts) /\ Cardinality(ts) \in Nat
    BY <1>2, FS_Subset, FS_CardinalityType
  <2>2. 0 \in 0..n /\ 0 <= Cardinality(ts)
    BY <1>1, <2>1
  <2>3. QED BY <1>6, <1>8, <2>2
<1>10. ASSUME NEW k \in 0..(n - 1), k \in P
       PROVE  k + 1 \in P
  <2>1. k + 1 \in 0..n
    BY <1>1
  <2>2. PICK r, s : r = g[k] /\ s = Onward(r, via)
    OBVIOUS
  <2>3. g[k + 1] = s
    BY <1>7, <2>2
  <2>4. ts \subseteq r /\ r \subseteq Thread /\ (s = r \/ k <= Cardinality(r))
    BY <1>8, <1>10, <2>2
  <2>5. r \subseteq s /\ s \subseteq Thread
    BY <2>2, <2>4 DEF Onward
  <2>6. CASE s = r
    BY <1>8, <2>1, <2>2, <2>3, <2>4, <2>5, <2>6
  <2>7. CASE s # r
    <3>1. IsFiniteSet(s) /\ IsFiniteSet(r)
      BY <1>2, <2>4, <2>5, FS_Subset
    <3>2. Cardinality(s) \in Nat /\ Cardinality(r) \in Nat
      BY <3>1, FS_CardinalityType
    <3>3. Cardinality(r) <= Cardinality(s) /\ (Cardinality(r) = Cardinality(s) => r = s)
      BY <2>5, <3>1, FS_Subset
    <3>4. k + 1 <= Cardinality(s)
      BY <2>4, <2>7, <3>2, <3>3
    <3>5. QED BY <1>8, <2>1, <2>3, <2>4, <2>5, <3>4
  <2>8. QED BY <2>6, <2>7
<1>11. \A k \in 0..n : k \in P
  BY <1>1, <1>9, <1>10, UpTo
<1>12. PICK r : r = g[n]
  OBVIOUS
<1>13. ts \subseteq r /\ r \subseteq Thread /\ (Onward(r, via) = r \/ n <= Cardinality(r))
  <2>1. n \in 0..n
    BY <1>1
  <2>2. QED BY <1>8, <1>11, <1>12, <2>1
<1>14. Onward(r, via) = r
  <2>1. SUFFICES ASSUME n <= Cardinality(r) PROVE Onward(r, via) = r
    BY <1>13
  <2>2. Cardinality(r) <= n /\ Cardinality(r) \in Nat /\ (Cardinality(r) = n => r = Thread)
    BY <1>1, <1>2, <1>13, FS_Subset, FS_CardinalityType
  <2>3. r = Thread
    BY <2>1, <2>2
  <2>4. QED BY <2>3 DEF Onward
<1>15. \A t \in r \cap via : \A u \in yoked[t] : life[u] # "dead" => u \in r
  BY <1>14 DEF Onward
<1>16. QED BY <1>5, <1>12, <1>13, <1>15

-----------------------------------------------------------------------------
\* The life of threads, and their events.

\* Steps of Custodian with the boxes, or steps of the program with its event.
LEMMA EvtNextIs ==
  ASSUME EvtNext
  PROVE  (Next /\ BoxesFollow) \/ (MakeEvt /\ UNCHANGED vars) \/ (DropEvt /\ UNCHANGED vars)
BY DEF EvtNext, Next, MakeEvt, DropEvt

\* For Custodian, a step or a stutter.
LEMMA EvtStepIs ==
  ASSUME [EvtNext]_<<vars, evtVars>>
  PROVE  [Next]_vars
BY EvtNextIs DEF EvtNext

LifeInv == life \in [Thread -> {"new", "running", "suspended", "killed", "dead"}]

LifeStep(t) ==
  \/ life'[t] = life[t]
  \/ life[t] = "new" /\ life'[t] = "running"
  \/ life[t] = "running" /\ life'[t] \in {"suspended", "dead"}
  \/ life[t] = "suspended" /\ life'[t] \in {"running", "killed"}

\* What becomes of one that is killed.
LEMMA KilledIs ==
  ASSUME NEW t, Alive(t)
  PROVE  \/ life[t] = "running" /\ Killed(t) \in {"suspended", "dead"}
         \/ life[t] = "suspended" /\ Killed(t) \in {"suspended", "killed"}
BY DEF Alive, Killed

\* Threads are resumed from suspension only, and only with a custodian that works.
LEMMA ResumedIs ==
  ASSUME NEW t, NEW ms, LifeInv
  PROVE  /\ Resumed(t, ms) \in [Thread -> {"new", "running", "suspended", "killed", "dead"}]
         /\ \A u \in Thread : \/ Resumed(t, ms)[u] = life[u]
                              \/ /\ life[u] = "suspended" /\ Resumed(t, ms)[u] = "running"
                                 /\ Works(ms[u])
<1>1. PICK able : able = {u \in Thread : life[u] = "suspended" /\ Works(ms[u])}
  OBVIOUS
<1>2. PICK r : r = Resumed(t, ms)
  OBVIOUS
<1>3. r = [u \in Thread |-> IF u \in able \cap Reached({t}, able) THEN "running" ELSE life[u]]
  BY <1>1, <1>2 DEF Resumed
<1>4. QED BY <1>1, <1>2, <1>3 DEF LifeInv

\* All that happens to threads.
LEMMA LifeSteps ==
  ASSUME LifeInv, [Next]_vars
  PROVE  LifeInv' /\ \A t \in Thread : LifeStep(t)
<1>1. CASE UNCHANGED vars
  BY <1>1 DEF vars, LifeInv, LifeStep
<1>2. ASSUME NEW c \in Custodian, MakeCustodian(c) \/ Lose(c) \/ Collect(c)
      PROVE  LifeInv' /\ \A t \in Thread : LifeStep(t)
  BY <1>2 DEF MakeCustodian, Lose, Collect, LifeInv, LifeStep
<1>3. ASSUME NEW t \in Thread, NEW x,
             /\ life' = [life EXCEPT ![t] = x]
             /\ \/ life[t] = "new" /\ x = "running"
                \/ life[t] = "running" /\ x \in {"suspended", "dead"}
                \/ life[t] = "suspended" /\ x \in {"suspended", "killed"}
      PROVE  LifeInv' /\ \A u \in Thread : LifeStep(u)
  BY <1>3 DEF LifeInv, LifeStep
<1>4. ASSUME NEW c \in Custodian, NEW t \in Thread, MakeThread(t, c)
      PROVE  LifeInv' /\ \A u \in Thread : LifeStep(u)
  <2>1. life[t] = "new" /\ life' = [life EXCEPT ![t] = "running"]
    BY <1>4 DEF MakeThread
  <2>2. QED BY <1>3, <2>1
<1>5. ASSUME NEW t \in Thread, KillThread(t)
      PROVE  LifeInv' /\ \A u \in Thread : LifeStep(u)
  <2>1. Alive(t) /\ life' = [life EXCEPT ![t] = Killed(t)]
    BY <1>5 DEF KillThread
  <2>2. QED BY <1>3, <2>1, KilledIs
<1>6. ASSUME NEW t \in Thread, End(t)
      PROVE  LifeInv' /\ \A u \in Thread : LifeStep(u)
  <2>1. life[t] = "running" /\ life' = [life EXCEPT ![t] = "dead"]
    BY <1>6 DEF End
  <2>2. QED BY <1>3, <2>1
<1>7. ASSUME NEW t \in Thread, ThreadSuspend(t)
      PROVE  LifeInv' /\ \A u \in Thread : LifeStep(u)
  <2>1. life[t] = "running" /\ life' = [life EXCEPT ![t] = "suspended"]
    BY <1>7 DEF ThreadSuspend
  <2>2. QED BY <1>3, <2>1
<1>8. ASSUME NEW t \in Thread, NEW ms, life' = Resumed(t, ms)
      PROVE  LifeInv' /\ \A u \in Thread : LifeStep(u)
  BY <1>8, ResumedIs DEF LifeInv, LifeStep
<1>9. ASSUME NEW t \in Thread, ThreadResume(t)
      PROVE  LifeInv' /\ \A u \in Thread : LifeStep(u)
  BY <1>8, <1>9 DEF ThreadResume
<1>10. ASSUME NEW c \in Custodian, NEW t \in Thread, ResumeUnder(t, c)
       PROVE  LifeInv' /\ \A u \in Thread : LifeStep(u)
  BY <1>8, <1>10 DEF ResumeUnder
<1>11. ASSUME NEW t \in Thread, NEW to \in Thread, ResumeWith(t, to)
       PROVE  LifeInv' /\ \A u \in Thread : LifeStep(u)
  BY <1>8, <1>11 DEF ResumeWith
<1>12. ASSUME NEW c \in Custodian, Shutdown(c)
       PROVE  LifeInv' /\ \A u \in Thread : LifeStep(u)
  <2>1. PICK gone : gone = ToSet(Family(links, c))
    OBVIOUS
  <2>2. life' = [t \in Thread |-> IF Alive(t) /\ LeftManagers(t, gone) = <<>>
                                  THEN Killed(t) ELSE life[t]]
    BY <1>12, <2>1 DEF Shutdown
  <2>3. ASSUME NEW t \in Thread PROVE life'[t] \in {"new", "running", "suspended", "killed", "dead"} /\ LifeStep(t)
    <3>1. life'[t] = IF Alive(t) /\ LeftManagers(t, gone) = <<>> THEN Killed(t) ELSE life[t]
      BY <2>2
    <3>2. CASE Alive(t) /\ LeftManagers(t, gone) = <<>>
      BY <3>1, <3>2, KilledIs DEF LifeStep
    <3>3. CASE ~(Alive(t) /\ LeftManagers(t, gone) = <<>>)
      BY <3>1, <3>3 DEF LifeStep, LifeInv
    <3>4. QED BY <3>2, <3>3
  <2>4. LifeInv'
    <3>1. life' = [t \in Thread |-> life'[t]]
      BY <2>2
    <3>2. QED BY <2>3, <3>1 DEF LifeInv
  <2>5. QED BY <2>3, <2>4
<1>13. QED
  BY <1>1, <1>2, <1>4, <1>5, <1>6, <1>7, <1>9, <1>10, <1>11, <1>12 DEF Next

BoxInv ==
  /\ watch \in Thread \X {"suspend", "resume", "dead"}
  /\ box \in {"none", "waits", "ready"} /\ evt \in {"none", "box", "waits", "ready"}
  /\ From = "new" => box = "none" /\ evt = "none"
  /\ evt = "box" => box # "none"
  /\ box # "none" /\ From # "killed" => (box = "ready" <=> Holds)
  /\ evt = "waits" => From = "dead" /\ ~Kind("dead")

TellStep ==
  /\ (evt # "none" /\ evt' # "none") => (Ready' <=> (Ready \/ (Holds' /\ ~Holds)))
  /\ (evt = "none" /\ evt' # "none" /\ From # "killed") => (Ready' <=> Holds)

\* The box of the kind that is watched is ready just when what it stands for
\* holds, and an event that is not the box any more waits only for what cannot
\* come true again.
LEMMA BoxSteps ==
  ASSUME LifeInv, BoxInv, [EvtNext]_<<vars, evtVars>>
  PROVE  BoxInv' /\ TellStep
<1>1. LifeInv' /\ \A t \in Thread : LifeStep(t)
  BY EvtStepIs, LifeSteps
<1>2. PICK t \in Thread, k \in {"suspend", "resume", "dead"} : watch = <<t, k>>
  BY DEF BoxInv
<1>3. watch' = watch
  BY EvtNextIs DEF evtVars, BoxesFollow, MakeEvt, DropEvt
<1>4. PICK a, b : a = life[t] /\ b = life'[t]
  OBVIOUS
<1>5. From = a /\ To = b /\ watch[1] = t /\ watch[2] = k
  BY <1>2, <1>4 DEF From, To
<1>6. From' = b
  BY <1>2, <1>3, <1>4 DEF From
<1>7. /\ a \in {"new", "running", "suspended", "killed", "dead"}
      /\ \/ b = a
         \/ a = "new" /\ b = "running"
         \/ a = "running" /\ b \in {"suspended", "dead"}
         \/ a = "suspended" /\ b \in {"running", "killed"}
  BY <1>1, <1>4 DEF LifeInv, LifeStep
<1>8. \A x : (Kind(x) <=> k = x) /\ (Kind(x)' <=> k = x)
  BY <1>3, <1>5 DEF Kind
<1>9. Holds <=> \/ k = "suspend" /\ a = "suspended"
                \/ k = "resume" /\ a = "running"
                \/ k = "dead" /\ a = "dead"
  BY <1>5, <1>8 DEF Holds
<1>10. Holds' <=> \/ k = "suspend" /\ b = "suspended"
                  \/ k = "resume" /\ b = "running"
                  \/ k = "dead" /\ b = "dead"
  BY <1>6, <1>8 DEF Holds
<1>11. CASE BoxesFollow
  <2>1. Suspends <=> a = "running" /\ b = "suspended"
    BY <1>5 DEF Suspends
  <2>2. Resumes <=> a = "suspended" /\ b = "running"
    BY <1>5 DEF Resumes
  <2>3. Dies <=> a \in {"running", "suspended"} /\ b = "dead"
    BY <1>4, <1>5 DEF Dies, Alive
  <2>4. Posted <=> \/ a = "running" /\ b = "suspended" /\ k = "suspend"
                   \/ a = "suspended" /\ b = "running" /\ k = "resume"
                   \/ a \in {"running", "suspended"} /\ b = "dead" /\ k = "dead"
    BY <1>8, <2>1, <2>2, <2>3 DEF Posted
  <2>5. Replaced <=> \/ a = "running" /\ b = "suspended" /\ k = "resume"
                     \/ a = "suspended" /\ b = "running" /\ k = "suspend"
                     \/ a \in {"running", "suspended"} /\ b = "dead" /\ k # "dead"
    BY <1>8, <2>1, <2>2, <2>3 DEF Replaced
  <2>6. /\ box' = IF Replaced THEN "none" ELSE IF Posted /\ box # "none" THEN "ready" ELSE box
        /\ evt' = IF Replaced /\ evt = "box" THEN box ELSE evt
    BY <1>11 DEF BoxesFollow
  <2>7. /\ box \in {"none", "waits", "ready"} /\ evt \in {"none", "box", "waits", "ready"}
        /\ a = "new" => box = "none" /\ evt = "none"
        /\ evt = "box" => box # "none"
        /\ box # "none" /\ a # "killed" => (box = "ready" <=> Holds)
        /\ evt = "waits" => a = "dead" /\ k # "dead"
    BY <1>5, <1>8 DEF BoxInv
  <2>8. BoxInv'
    <3>1. watch' \in Thread \X {"suspend", "resume", "dead"}
      BY <1>2, <1>3
    <3>2. box' \in {"none", "waits", "ready"} /\ evt' \in {"none", "box", "waits", "ready"}
      BY <2>6, <2>7
    <3>3. b = "new" => box' = "none" /\ evt' = "none"
      BY <1>7, <2>6, <2>7
    <3>4. evt' = "box" => box' # "none"
      BY <2>6, <2>7
    <3>5. box' # "none" /\ b # "killed" => (box' = "ready" <=> Holds')
      BY <1>2, <1>7, <1>9, <1>10, <2>4, <2>5, <2>6, <2>7
    <3>6. evt' = "waits" => b = "dead" /\ k # "dead"
      BY <1>2, <1>7, <1>9, <2>5, <2>6, <2>7
    <3>7. QED BY <1>6, <1>8, <3>1, <3>2, <3>3, <3>4, <3>5, <3>6 DEF BoxInv
  <2>9. TellStep
    <3>1. Ready <=> evt = "ready" \/ (evt = "box" /\ box = "ready")
      BY DEF Ready
    <3>2. Ready' <=> evt' = "ready" \/ (evt' = "box" /\ box' = "ready")
      BY DEF Ready
    <3>3. evt # "none" /\ evt' # "none" => (Ready' <=> (Ready \/ (Holds' /\ ~Holds)))
      <4>1. CASE evt = "none"
        BY <4>1
      <4>2. CASE evt = "ready"
        BY <2>6, <3>1, <3>2, <4>2
      <4>3. CASE evt = "waits"
        BY <1>7, <1>10, <2>6, <2>7, <3>1, <3>2, <4>3
      <4>4. CASE evt = "box"
        BY <1>2, <1>7, <1>9, <1>10, <2>4, <2>5, <2>6, <2>7, <3>1, <3>2, <4>4
      <4>5. QED BY <2>7, <4>1, <4>2, <4>3, <4>4
    <3>4. evt = "none" => evt' = "none"
      BY <2>6
    <3>5. QED BY <3>3, <3>4 DEF TellStep
  <2>10. QED BY <2>8, <2>9
<1>12. CASE UNCHANGED vars /\ (MakeEvt \/ DropEvt \/ UNCHANGED evtVars)
  <2>1. a = b
    BY <1>4, <1>12 DEF vars
  <2>2. Holds <=> Holds'
    BY <1>9, <1>10, <2>1
  <2>3. /\ box \in {"none", "waits", "ready"} /\ evt \in {"none", "box", "waits", "ready"}
        /\ a = "new" => box = "none" /\ evt = "none"
        /\ evt = "box" => box # "none"
        /\ box # "none" /\ a # "killed" => (box = "ready" <=> Holds)
        /\ evt = "waits" => a = "dead" /\ k # "dead"
    BY <1>5, <1>8 DEF BoxInv
  <2>4. Ready <=> evt = "ready" \/ (evt = "box" /\ box = "ready")
    BY DEF Ready
  <2>5. Ready' <=> evt' = "ready" \/ (evt' = "box" /\ box' = "ready")
    BY DEF Ready
  <2>6. watch' \in Thread \X {"suspend", "resume", "dead"}
    BY <1>2, <1>3
  <2>7. CASE MakeEvt
    <3>1. Shows <=> \/ k = "suspend" /\ a = "suspended"
                    \/ k = "resume" /\ a = "running"
                    \/ k = "dead" /\ a \in {"dead", "killed"}
      BY <1>5, <1>8 DEF Shows
    <3>2. /\ evt = "none" /\ a # "new" /\ evt' = "box"
          /\ box' = IF box # "none" THEN box ELSE IF Shows THEN "ready" ELSE "waits"
      BY <1>5, <2>7 DEF MakeEvt
    <3>3. a # "killed" => (box' = "ready" <=> Holds)
      BY <1>9, <2>3, <3>1, <3>2
    <3>4. box' \in {"waits", "ready"}
      BY <2>3, <3>2
    <3>5. BoxInv'
      BY <1>6, <1>8, <2>1, <2>2, <2>6, <3>2, <3>3, <3>4 DEF BoxInv
    <3>6. TellStep
      BY <1>5, <2>5, <3>2, <3>3 DEF TellStep
    <3>7. QED BY <3>5, <3>6
  <2>8. CASE DropEvt
    <3>1. evt' = "none" /\ box' = box
      BY <2>8 DEF DropEvt
    <3>2. BoxInv'
      BY <1>6, <1>8, <2>1, <2>2, <2>3, <2>6, <3>1 DEF BoxInv
    <3>3. QED BY <3>1, <3>2 DEF TellStep
  <2>9. CASE UNCHANGED evtVars
    <3>1. evt' = evt /\ box' = box
      BY <2>9 DEF evtVars
    <3>2. BoxInv'
      BY <1>6, <1>8, <2>1, <2>2, <2>3, <2>6, <3>1 DEF BoxInv
    <3>3. Ready' <=> Ready
      BY <2>4, <2>5, <3>1
    <3>4. QED BY <2>2, <3>1, <3>2, <3>3 DEF TellStep
  <2>10. QED BY <1>12, <2>7, <2>8, <2>9
<1>13. QED BY <1>11, <1>12, EvtNextIs

\* The events of a thread tell what happens to it, by whomever (suspend_thread,
\* thread_resume, thread_is_dead and the boxes that are made in between),
\* whatever programs do.
THEOREM EventsAreTold == EvtSpec => EventsTell
<1>1. EvtInit => LifeInv /\ BoxInv
  BY WatchAssumption DEF EvtInit, Init, LifeInv, BoxInv, From
<1>2. LifeInv /\ BoxInv /\ [EvtNext]_<<vars, evtVars>> => (LifeInv /\ BoxInv)' /\ TellStep
  BY BoxSteps, EvtStepIs, LifeSteps
<1>3. LifeInv /\ BoxInv /\ [EvtNext]_<<vars, evtVars>>
        => [/\ (evt # "none" /\ evt' # "none") => (Ready' <=> (Ready \/ (Holds' /\ ~Holds)))
            /\ (evt = "none" /\ evt' # "none" /\ From # "killed") => (Ready' <=> Holds)
           ]_<<vars, evtVars>>
  BY <1>2 DEF TellStep
<1>4. QED BY <1>1, <1>2, <1>3, PTL DEF EvtSpec, EventsTell

-----------------------------------------------------------------------------
\* The custodians of threads.

IsList(ms) == \E S : ms \in Seq(S) /\ ms # <<>>

HandInv ==
  /\ LifeInv
  /\ yoked \in [Thread -> SUBSET Thread]
  /\ \A t \in Thread : life[t] = "new" => yoked[t] = {}
  /\ managers = [t \in Thread |-> managers[t]]
  /\ \A t \in Thread : IsList(managers[t])

\* A thread with one custodian.
LEMMA OneIsList ==
  ASSUME NEW x
  PROVE  IsList(<<x>>) /\ ToSet(<<x>>) = {x}
<1>1. <<x>> \in Seq({x}) /\ <<x>> # <<>>
  OBVIOUS
<1>2. PICK s : s = <<x>>
  OBVIOUS
<1>3. DOMAIN s = {1} /\ s[1] = x
  BY <1>2
<1>4. ToSet(s) = {x}
  BY <1>3 DEF ToSet
<1>5. QED BY <1>1, <1>2, <1>4 DEF IsList

\* After a promotion a thread has the custodian or one above it, and no other
\* new one.
LEMMA PromotedIs ==
  ASSUME NEW ms, IsList(ms), NEW c
  PROVE  /\ IsList(Promoted(ms, c))
         /\ ToSet(Promoted(ms, c)) \subseteq ToSet(ms) \cup {c}
         /\ c \in ToSet(Promoted(ms, c)) \/ (Covered(ms, c) /\ Promoted(ms, c) = ms)
         /\ ms = <<Null>> => Promoted(ms, c) = <<c>>
<1>1. PICK S : ms \in Seq(S) /\ ms # <<>>
  BY DEF IsList
<1>2. PICK T : T = S \cup {c}
  OBVIOUS
<1>3. PICK rest : rest = Tail(ms)
  OBVIOUS
<1>4. rest \in Seq(S) /\ ms \in Seq(T) /\ rest \in Seq(T)
  BY <1>1, <1>2, <1>3
<1>5. PICK n \in Nat : n = Len(ms) /\ DOMAIN ms = 1..n /\ 1 \in 1..n
  BY <1>1
<1>6. Len(rest) = n - 1 /\ DOMAIN rest = 1..(n - 1) /\ \A i \in 1..(n - 1) : rest[i] = ms[i + 1]
  BY <1>1, <1>3, <1>5
<1>7. ToSet(rest) \subseteq ToSet(ms) /\ ms[1] \in ToSet(ms) /\ ms[1] \in S
  <2>1. \A i \in 1..(n - 1) : i + 1 \in 1..n
    BY <1>5
  <2>2. QED BY <1>1, <1>5, <1>6, <2>1 DEF ToSet
<1>8. PICK a : a = <<c>> \o rest
  OBVIOUS
<1>9. IsList(a) /\ ToSet(a) \subseteq ToSet(ms) \cup {c} /\ c \in ToSet(a)
  <2>1. a \in Seq(T) /\ Len(a) = n /\ a # <<>> /\ DOMAIN a = 1..n /\ a[1] = c
        /\ \A i \in 2..n : a[i] = rest[i - 1]
    BY <1>2, <1>4, <1>5, <1>6, <1>8
  <2>2. \A i \in 1..n : i = 1 \/ (i \in 2..n /\ i - 1 \in 1..(n - 1))
    BY <1>5
  <2>3. \A i \in 1..n : i = 1 \/ a[i] \in ToSet(rest)
    BY <1>6, <2>1, <2>2 DEF ToSet
  <2>4. QED BY <1>5, <1>7, <2>1, <2>3 DEF ToSet, IsList
<1>10. PICK b : b = <<ms[1], c>> \o rest
  OBVIOUS
<1>11. IsList(b) /\ ToSet(b) \subseteq ToSet(ms) \cup {c} /\ c \in ToSet(b)
  <2>1. b \in Seq(T) /\ Len(b) = n + 1 /\ b # <<>> /\ DOMAIN b = 1..(n + 1) /\ b[1] = ms[1] /\ b[2] = c
        /\ \A i \in 3..(n + 1) : b[i] = rest[i - 2]
    BY <1>2, <1>4, <1>5, <1>6, <1>7, <1>10
  <2>2. \A i \in 1..(n + 1) : i = 1 \/ i = 2 \/ (i \in 3..(n + 1) /\ i - 2 \in 1..(n - 1))
    BY <1>5
  <2>3. \A i \in 1..(n + 1) : i = 1 \/ i = 2 \/ b[i] \in ToSet(rest)
    BY <1>6, <2>1, <2>2 DEF ToSet
  <2>4. 2 \in 1..(n + 1)
    BY <1>5
  <2>5. QED BY <1>7, <2>1, <2>3, <2>4 DEF ToSet, IsList
<1>12. PICK p : p = Promoted(ms, c)
  OBVIOUS
<1>13. p = a \/ p = b \/ (p = ms /\ Covered(ms, c))
  BY <1>3, <1>8, <1>10, <1>12 DEF Promoted
<1>14. ASSUME ms = <<Null>> PROVE p = <<c>>
  <2>1. ms[1] = Null /\ rest = <<>>
    BY <1>3, <1>14
  <2>2. p = <<c>> \o <<>>
    BY <1>3, <1>12, <2>1 DEF Promoted
  <2>3. QED BY <2>2
<1>15. QED BY <1>9, <1>11, <1>12, <1>13, <1>14

\* What a promotion makes of the threads' custodians.
Promotes(all, c) ==
  /\ all = [u \in Thread |-> all[u]]
  /\ \A u \in Thread : all[u] = Promoted(managers[u], c) \/ all[u] = managers[u]
  /\ \A u \in Thread : all[u] # managers[u] =>
       \A v \in yoked[u] : life[v] # "dead" => all[v] = Promoted(managers[v], c)

\* What a promotion does to each thread.
LEMMA PromotedAllIs ==
  ASSUME yoked \in [Thread -> SUBSET Thread], NEW t \in Thread, NEW c, NEW all,
         all = PromotedAll(t, c)
  PROVE  Promotes(all, c)
<1>1. PICK changed : changed = {u \in Thread : Changed(u, c)}
  OBVIOUS
<1>2. PICK r : r = Reached({t}, changed)
  OBVIOUS
<1>3. all = [u \in Thread |-> IF u \in r THEN Promoted(managers[u], c) ELSE managers[u]]
  BY <1>1, <1>2 DEF PromotedAll
<1>4. {t} \in SUBSET Thread
  OBVIOUS
<1>5. /\ r \subseteq Thread
      /\ \A u \in r \cap changed : \A v \in yoked[u] : life[v] # "dead" => v \in r
  BY <1>2, <1>4, ReachedIs
<1>6. ASSUME NEW u \in Thread, all[u] # managers[u], NEW v \in yoked[u], life[v] # "dead"
      PROVE  all[v] = Promoted(managers[v], c)
  <2>1. u \in r /\ Promoted(managers[u], c) # managers[u]
    BY <1>3, <1>6
  <2>2. u \in changed
    BY <1>1, <2>1 DEF Changed
  <2>3. v \in r /\ v \in Thread
    BY <1>5, <1>6, <2>1, <2>2
  <2>4. QED BY <1>3, <2>3
<1>7. all = [u \in Thread |-> all[u]]
  BY <1>3
<1>8. QED BY <1>3, <1>6, <1>7 DEF Promotes

Handed ==
  \A t \in Thread : \A u \in yoked[t] : Alive(u) =>
    \A m \in ToSet(managers'[t]) \ (ToSet(managers[t]) \cup {Null}) :
      ToSet(managers'[u]) \cap Supers(links, m) # {}

\* A promotion hands its custodian on.
LEMMA PromotionHands ==
  ASSUME HandInv, NEW t \in Thread, NEW c, c # Null, managers' = PromotedAll(t, c)
  PROVE  /\ Handed
         /\ managers' = [u \in Thread |-> managers'[u]] /\ \A u \in Thread : IsList(managers'[u])
<1>1. PICK all : all = managers'
  OBVIOUS
<1>2. Promotes(all, c)
  <2>1. yoked \in [Thread -> SUBSET Thread]
    BY DEF HandInv
  <2>2. all = PromotedAll(t, c)
    BY <1>1
  <2>3. QED BY <2>1, <2>2, PromotedAllIs
<1>3. \A u \in Thread : IsList(managers[u]) /\ yoked[u] \subseteq Thread
  BY DEF HandInv
<1>4. \A u \in Thread : IsList(all[u])
  BY <1>2, <1>3, PromotedIs DEF Promotes
<1>5. ASSUME NEW u \in Thread, NEW v \in yoked[u], Alive(v),
             NEW m \in ToSet(all[u]) \ (ToSet(managers[u]) \cup {Null})
      PROVE  ToSet(all[v]) \cap Supers(links, m) # {}
  <2>1. all[u] # managers[u]
    BY <1>5
  <2>2. all[u] = Promoted(managers[u], c)
    BY <1>2, <2>1 DEF Promotes
  <2>3. m = c
    <3>1. ToSet(all[u]) \subseteq ToSet(managers[u]) \cup {c}
      BY <1>3, <2>2, PromotedIs
    <3>2. QED BY <1>5, <3>1
  <2>4. v \in Thread /\ all[v] = Promoted(managers[v], c)
    BY <1>2, <1>3, <1>5, <2>1 DEF Alive, Promotes
  <2>5. c \in ToSet(all[v]) \/ (Covered(managers[v], c) /\ all[v] = managers[v])
    BY <1>3, <2>4, PromotedIs
  <2>6. c \in Supers(links, c)
    BY PathStart DEF Supers
  <2>7. QED BY <2>3, <2>5, <2>6 DEF Covered
<1>6. QED BY <1>1, <1>2, <1>4, <1>5 DEF Handed, Promotes

-----------------------------------------------------------------------------
\* What every step does to the threads' custodians and to the yokes.

HeldInv == held \in [Custodian -> {"none", "held", "lost", "gone"}] /\ held[Root] = "held"

\* The main custodian is never lost.
LEMMA HeldSteps ==
  ASSUME HeldInv, [Next]_vars
  PROVE  HeldInv'
<1>1. CASE UNCHANGED held
  BY <1>1 DEF HeldInv
<1>2. ASSUME NEW c \in Custodian, NEW x \in {"held", "lost", "gone"}, c # Root,
             held' = [held EXCEPT ![c] = x]
      PROVE  HeldInv'
  <2>1. held' \in [Custodian -> {"none", "held", "lost", "gone"}] /\ held'[Root] = held[Root]
    BY <1>2, CustodianAssumption DEF HeldInv
  <2>2. QED BY <2>1 DEF HeldInv
<1>3. ASSUME NEW c \in Custodian, MakeCustodian(c)
      PROVE  HeldInv'
  <2>1. c # Root /\ held' = [held EXCEPT ![c] = "held"]
    BY <1>3 DEF MakeCustodian, HeldInv
  <2>2. QED BY <1>2, <2>1
<1>4. ASSUME NEW c \in Custodian, Lose(c)
      PROVE  HeldInv'
  <2>1. c # Root /\ held' = [held EXCEPT ![c] = "lost"]
    BY <1>4 DEF Lose
  <2>2. QED BY <1>2, <2>1
<1>5. ASSUME NEW c \in Custodian, Collect(c)
      PROVE  HeldInv'
  <2>1. c # Root /\ held' = [held EXCEPT ![c] = "gone"]
    BY <1>5 DEF Collect, HeldInv
  <2>2. QED BY <1>2, <2>1
<1>6. ASSUME NEW c \in Custodian, Shutdown(c)
      PROVE  UNCHANGED held
  BY <1>6 DEF Shutdown
<1>7. ASSUME NEW c \in Custodian, NEW t \in Thread, MakeThread(t, c) \/ ResumeUnder(t, c)
      PROVE  UNCHANGED held
  BY <1>7 DEF MakeThread, ResumeUnder
<1>8. ASSUME NEW t \in Thread, KillThread(t) \/ End(t) \/ ThreadSuspend(t) \/ ThreadResume(t)
      PROVE  UNCHANGED held
  BY <1>8 DEF KillThread, End, ThreadSuspend, ThreadResume
<1>9. ASSUME NEW t \in Thread, NEW to \in Thread, ResumeWith(t, to)
      PROVE  UNCHANGED held
  BY <1>9 DEF ResumeWith
<1>10. QED
  BY <1>1, <1>3, <1>4, <1>5, <1>6, <1>7, <1>8, <1>9 DEF Next, vars

\* One thread's custodians are set.
LEMMA SetIsList ==
  ASSUME HandInv, NEW t \in Thread, NEW x, managers' = [managers EXCEPT ![t] = <<x>>]
  PROVE  /\ managers' = [u \in Thread |-> managers'[u]]
         /\ \A u \in Thread : IsList(managers'[u])
         /\ \A u \in Thread \ {t} : managers'[u] = managers[u]
         /\ ToSet(managers'[t]) = {x}
<1>1. managers = [u \in Thread |-> managers[u]] /\ \A u \in Thread : IsList(managers[u])
  BY DEF HandInv
<1>2. PICK s : s = <<x>>
  OBVIOUS
<1>3. IsList(s) /\ ToSet(s) = {x}
  BY <1>2, OneIsList
<1>4. managers' = [u \in Thread |-> IF u = t THEN s ELSE managers[u]]
  BY <1>1, <1>2
<1>5. QED BY <1>1, <1>3, <1>4

\* The managers of the threads after a collection.
LEMMA CollectedIs ==
  ASSUME HandInv, NEW c \in Custodian, Collect(c)
  PROVE  /\ managers' = [u \in Thread |-> managers'[u]]
         /\ \A u \in Thread : /\ IsList(managers'[u]) /\ DOMAIN managers'[u] = DOMAIN managers[u]
                              /\ \A i \in DOMAIN managers[u] :
                                   managers'[u][i] = IF managers[u][i] = c /\ links.parent[c] # Null
                                                     THEN links.parent[c] ELSE managers[u][i]
<1>1. managers' = [u \in Thread |->
        [i \in DOMAIN managers[u] |-> IF managers[u][i] = c /\ links.parent[c] # Null
                                      THEN links.parent[c] ELSE managers[u][i]]]
  BY DEF Collect
<1>2. PICK p : p = links.parent[c]
  OBVIOUS
<1>3. ASSUME NEW u \in Thread
      PROVE  IsList([i \in DOMAIN managers[u] |-> IF managers[u][i] = c /\ p # Null
                                                  THEN p ELSE managers[u][i]])
  <2>1. PICK ms : ms = managers[u]
    OBVIOUS
  <2>2. PICK S : ms \in Seq(S) /\ ms # <<>>
    BY <2>1 DEF HandInv, IsList
  <2>3. PICK n \in Nat : n = Len(ms) /\ n # 0 /\ DOMAIN ms = 1..n
    BY <2>2
  <2>4. PICK new : new = [i \in 1..n |-> IF ms[i] = c /\ p # Null THEN p ELSE ms[i]]
    OBVIOUS
  <2>5. PICK T : T = S \cup {p}
    OBVIOUS
  <2>6. \A i \in 1..n : ms[i] \in S
    BY <2>2, <2>3
  <2>7. new \in [1..n -> T]
    BY <2>4, <2>5, <2>6
  <2>8. new \in Seq(T) /\ Len(new) = n
    BY <2>3, <2>7
  <2>9. new # <<>>
    BY <2>3, <2>8
  <2>10. IsList(new)
    BY <2>8, <2>9 DEF IsList
  <2>11. QED BY <2>1, <2>3, <2>4, <2>10
<1>4. QED BY <1>1, <1>2, <1>3

\* The managers of the threads after a shutdown.
LEMMA ShutManagersAre ==
  ASSUME HandInv, NEW c \in Custodian, Shutdown(c)
  PROVE  /\ managers' = [u \in Thread |-> managers'[u]]
         /\ \A u \in Thread : /\ IsList(managers'[u])
                              /\ ToSet(managers'[u]) \subseteq ToSet(managers[u]) \cup {Null}
<1>1. PICK gone : gone = ToSet(Family(links, c))
  OBVIOUS
<1>2. managers' = [t \in Thread |->
        IF LeftManagers(t, gone) = <<>> THEN <<Null>> ELSE LeftManagers(t, gone)]
  BY <1>1 DEF Shutdown
<1>3. ASSUME NEW t \in Thread
      PROVE  /\ IsList(managers'[t])
             /\ ToSet(managers'[t]) \subseteq ToSet(managers[t]) \cup {Null}
  <2>1. PICK left : left = LeftManagers(t, gone)
    OBVIOUS
  <2>2. PICK S : managers[t] \in Seq(S)
    BY DEF HandInv, IsList
  <2>3. left \in Seq(S) /\ ToSet(left) = ToSet(managers[t]) \ gone
    BY <2>1, <2>2, LeftIs DEF LeftManagers
  <2>4. managers'[t] = IF left = <<>> THEN <<Null>> ELSE left
    BY <1>2, <2>1
  <2>5. CASE left = <<>>
    <3>1. managers'[t] = <<Null>>
      BY <2>4, <2>5
    <3>2. IsList(<<Null>>) /\ ToSet(<<Null>>) = {Null}
      BY OneIsList
    <3>3. QED BY <3>1, <3>2
  <2>6. CASE left # <<>>
    <3>1. managers'[t] = left
      BY <2>4, <2>6
    <3>2. IsList(left)
      BY <2>3, <2>6 DEF IsList
    <3>3. QED BY <2>3, <3>1, <3>2
  <2>7. QED BY <2>5, <2>6
<1>4. managers' = [u \in Thread |-> managers'[u]]
  BY <1>2
<1>5. QED BY <1>3, <1>4

\* Nobody gets a custodian: nothing is to be handed on.
LEMMA NothingHanded ==
  ASSUME \A t \in Thread : yoked[t] # {} => ToSet(managers'[t]) \subseteq ToSet(managers[t]) \cup {Null}
  PROVE  Handed
BY DEF Handed

-----------------------------------------------------------------------------
\* managers'.
ManagersAreLists ==
  /\ managers' = [u \in Thread |-> managers'[u]]
  /\ \A u \in Thread : IsList(managers'[u])

\* yoked', and what it holds for new threads.
YokesHold ==
  /\ yoked' \in [Thread -> SUBSET Thread]
  /\ \A t \in Thread : life[t] = "new" => yoked'[t] = {}

\* Steps that leave the yokes alone.
LEMMA YokesSame ==
  ASSUME HandInv, UNCHANGED yoked
  PROVE  YokesHold
BY DEF HandInv, YokesHold

\* Steps that clear a table.
LEMMA YokesCleared ==
  ASSUME HandInv, NEW t \in Thread, yoked' = [yoked EXCEPT ![t] = {}]
  PROVE  YokesHold
BY DEF HandInv, YokesHold

\* Steps that leave the custodians of threads alone.
LEMMA ListsSame ==
  ASSUME HandInv, UNCHANGED managers
  PROVE  ManagersAreLists /\ Handed
<1>1. ManagersAreLists
  BY DEF HandInv, ManagersAreLists
<1>2. Handed
  BY NothingHanded
<1>3. QED BY <1>1, <1>2

\* A thread that loses them all.
LEMMA ListsCleared ==
  ASSUME HandInv, NEW t \in Thread, managers' = [managers EXCEPT ![t] = <<Null>>]
  PROVE  ManagersAreLists /\ Handed
<1>1. ManagersAreLists
  BY SetIsList DEF ManagersAreLists
<1>2. ToSet(managers'[t]) = {Null} /\ \A u \in Thread \ {t} : managers'[u] = managers[u]
  BY SetIsList
<1>3. Handed
  BY <1>2, NothingHanded
<1>4. QED BY <1>1, <1>3

\* Every step keeps the lists and the yokes, and hands on what threads get.
LEMMA HandSteps ==
  ASSUME HeldInv, HandInv, [Next]_vars
  PROVE  HandInv' /\ (held' = held => Handed)
<1>1. SUFFICES ManagersAreLists /\ YokesHold /\ (held' = held => Handed)
  <2>1. LifeInv' /\ \A t \in Thread : life'[t] = "new" => life[t] = "new"
    BY LifeSteps DEF HandInv, LifeStep
  <2>2. QED BY <1>1, <2>1 DEF HandInv, ManagersAreLists, YokesHold
<1>2. CASE UNCHANGED vars
  BY <1>2, YokesSame, ListsSame DEF vars
<1>3. ASSUME NEW c \in Custodian, MakeCustodian(c) \/ Lose(c)
      PROVE  ManagersAreLists /\ YokesHold /\ Handed
  <2>1. UNCHANGED managers /\ UNCHANGED yoked
    BY <1>3 DEF MakeCustodian, Lose
  <2>2. QED BY <2>1, YokesSame, ListsSame
<1>4. ASSUME NEW c \in Custodian, Collect(c)
      PROVE  ManagersAreLists /\ YokesHold /\ held' # held
  <2>1. UNCHANGED yoked /\ held[c] = "lost" /\ held' = [held EXCEPT ![c] = "gone"]
    BY <1>4 DEF Collect
  <2>2. held'[c] = "gone"
    BY <2>1 DEF HeldInv
  <2>3. ManagersAreLists
    BY <1>4, CollectedIs DEF ManagersAreLists
  <2>4. QED BY <2>1, <2>2, <2>3, YokesSame
<1>5. ASSUME NEW c \in Custodian, Shutdown(c)
      PROVE  ManagersAreLists /\ YokesHold /\ Handed
  <2>1. ManagersAreLists
    BY <1>5, ShutManagersAre DEF ManagersAreLists
  <2>2. Handed
    <3>1. \A u \in Thread : ToSet(managers'[u]) \subseteq ToSet(managers[u]) \cup {Null}
      BY <1>5, ShutManagersAre
    <3>2. QED BY <3>1, NothingHanded
  <2>3. yoked' = [t \in Thread |-> IF life'[t] = "dead" THEN {} ELSE yoked[t]]
    BY <1>5 DEF Shutdown
  <2>4. YokesHold
    BY <2>3 DEF HandInv, YokesHold
  <2>5. QED BY <2>1, <2>2, <2>4
<1>6. ASSUME NEW c \in Custodian, NEW t \in Thread, MakeThread(t, c)
      PROVE  ManagersAreLists /\ YokesHold /\ Handed
  <2>1. life[t] = "new" /\ managers' = [managers EXCEPT ![t] = <<c>>] /\ UNCHANGED yoked
    BY <1>6 DEF MakeThread
  <2>2. yoked[t] = {}
    BY <2>1 DEF HandInv
  <2>3. ManagersAreLists
    BY <2>1, SetIsList DEF ManagersAreLists
  <2>4. \A u \in Thread \ {t} : managers'[u] = managers[u]
    BY <2>1, SetIsList
  <2>5. Handed
    BY <2>2, <2>4, NothingHanded
  <2>6. QED BY <2>1, <2>3, <2>5, YokesSame
<1>7. ASSUME NEW t \in Thread, KillThread(t)
      PROVE  ManagersAreLists /\ YokesHold /\ Handed
  <2>1. /\ UNCHANGED managers \/ managers' = [managers EXCEPT ![t] = <<Null>>]
        /\ UNCHANGED yoked \/ yoked' = [yoked EXCEPT ![t] = {}]
    BY <1>7 DEF KillThread
  <2>2. ManagersAreLists /\ Handed
    BY <2>1, ListsSame, ListsCleared
  <2>3. QED BY <2>1, <2>2, YokesSame, YokesCleared
<1>8. ASSUME NEW t \in Thread, End(t)
      PROVE  ManagersAreLists /\ YokesHold /\ Handed
  <2>1. managers' = [managers EXCEPT ![t] = <<Null>>] /\ yoked' = [yoked EXCEPT ![t] = {}]
    BY <1>8 DEF End
  <2>2. QED BY <2>1, ListsCleared, YokesCleared
<1>9. ASSUME NEW t \in Thread, ThreadSuspend(t) \/ ThreadResume(t)
      PROVE  ManagersAreLists /\ YokesHold /\ Handed
  <2>1. UNCHANGED managers /\ UNCHANGED yoked
    BY <1>9 DEF ThreadSuspend, ThreadResume
  <2>2. QED BY <2>1, YokesSame, ListsSame
<1>10. ASSUME NEW t \in Thread, NEW c, c # Null, managers' = PromotedAll(t, c)
       PROVE  ManagersAreLists /\ Handed
  BY <1>10, PromotionHands DEF ManagersAreLists
<1>11. ASSUME NEW c \in Custodian, NEW t \in Thread, ResumeUnder(t, c)
       PROVE  ManagersAreLists /\ YokesHold /\ Handed
  <2>1. managers' = PromotedAll(t, c) /\ UNCHANGED yoked
    BY <1>11 DEF ResumeUnder
  <2>2. c # Null
    BY CustodianAssumption
  <2>3. QED BY <1>10, <2>1, <2>2, YokesSame
<1>12. ASSUME NEW t \in Thread, NEW to \in Thread, ResumeWith(t, to)
       PROVE  ManagersAreLists /\ YokesHold /\ Handed
  <2>1. PICK c : c = managers[to][1]
    OBVIOUS
  <2>2. /\ managers' = IF c # Null THEN PromotedAll(t, c) ELSE managers
        /\ life[to] # "new"
        /\ yoked' = IF Alive(to) /\ to # t
                      THEN [yoked EXCEPT ![to] = {u \in @ : life[u] # "dead"} \cup {t}]
                      ELSE yoked
    BY <1>12, <2>1 DEF ResumeWith
  <2>3. ManagersAreLists /\ Handed
    <3>1. CASE c = Null
      <4>1. UNCHANGED managers
        BY <2>2, <3>1
      <4>2. QED BY <4>1, ListsSame
    <3>2. CASE c # Null
      BY <1>10, <2>2, <3>2
    <3>3. QED BY <3>1, <3>2
  <2>4. YokesHold
    <3>1. CASE Alive(to) /\ to # t
      <4>1. PICK x : x = {u \in yoked[to] : life[u] # "dead"} \cup {t}
        OBVIOUS
      <4>2. yoked' = [yoked EXCEPT ![to] = x]
        BY <2>2, <3>1, <4>1
      <4>3. yoked \in [Thread -> SUBSET Thread] /\ \A u \in Thread : life[u] = "new" => yoked[u] = {}
        BY DEF HandInv
      <4>4. x \in SUBSET Thread
        BY <4>1, <4>3
      <4>5. QED BY <2>2, <4>2, <4>3, <4>4 DEF YokesHold
    <3>2. CASE ~(Alive(to) /\ to # t)
      <4>1. UNCHANGED yoked
        BY <2>2, <3>2
      <4>2. QED BY <4>1, YokesSame
    <3>3. QED BY <3>1, <3>2
  <2>5. QED BY <2>3, <2>4
<1>13. QED
  BY <1>2, <1>3, <1>4, <1>5, <1>6, <1>7, <1>8, <1>9, <1>11, <1>12 DEF Next

\* At the start threads have a slot, and no yoke.
LEMMA HandInit ==
  ASSUME Init
  PROVE  HeldInv /\ HandInv
<1>1. HeldInv
  BY CustodianAssumption DEF Init, HeldInv
<1>2. PICK s : s = <<Null>>
  OBVIOUS
<1>3. managers = [t \in Thread |-> s]
  BY <1>2 DEF Init
<1>4. IsList(s)
  BY <1>2, OneIsList
<1>5. QED BY <1>1, <1>3, <1>4 DEF Init, HandInv, LifeInv

\* transitive_promote: a custodian that a thread gets is handed on to the
\* threads that are yoked to it, and from them on, whatever programs do.
THEOREM CustodiansAreHandedOn == Spec => HandedOn
<1>1. Init => HeldInv /\ HandInv
  BY HandInit
<1>2. HeldInv /\ HandInv /\ [Next]_vars
        => (HeldInv /\ HandInv)' /\ (held' = held => Handed)
  BY HeldSteps, HandSteps
<1>3. HeldInv /\ HandInv /\ [Next]_vars
        => [held' = held => \A t \in Thread : \A u \in yoked[t] : Alive(u) =>
              \A m \in ToSet(managers'[t]) \ (ToSet(managers[t]) \cup {Null}) :
                ToSet(managers'[u]) \cap Supers(links, m) # {}]_vars
  BY <1>2 DEF Handed
<1>4. QED BY <1>1, <1>2, <1>3, PTL DEF Spec, HandedOn

\* The runs check the custodians under the specification with the events; all that
\* is proved here of the one without them holds there too.
THEOREM EventsOnTop == EvtSpec => Spec
<1>1. EvtInit => Init
  BY DEF EvtInit
<1>2. [EvtNext]_<<vars, evtVars>> => [Next]_vars
  BY EvtStepIs
<1>3. QED BY <1>1, <1>2, PTL DEF EvtSpec, Spec

-----------------------------------------------------------------------------
\* Custodians that are kept.

KeepStep ==
  \A t \in Thread : Alive(t) /\ Alive(t)' /\ shut_down' = shut_down =>
    \A m \in ToSet(managers[t]) \ {Null} :
      ToSet(managers'[t]) \cap Supers(links, m) # {}

\* A thread whose custodians are left alone.
LEMMA SameKept ==
  ASSUME NEW t, managers'[t] = managers[t]
  PROVE  \A m \in ToSet(managers[t]) \ {Null} :
           ToSet(managers'[t]) \cap Supers(links, m) # {}
BY PathStart DEF Supers

\* Every step keeps what threads have, or what is above it.
LEMMA KeepSteps ==
  ASSUME Op \cap {"promote", "yoke"} = {}, HeldInv, HandInv, [Next]_vars
  PROVE  KeepStep
<1>1. ASSUME UNCHANGED managers PROVE KeepStep
  BY <1>1, SameKept DEF KeepStep
<1>2. ASSUME NEW c \in Custodian, MakeCustodian(c) \/ Lose(c)
      PROVE  UNCHANGED managers
  BY <1>2 DEF MakeCustodian, Lose
<1>3. ASSUME NEW c \in Custodian, Collect(c)
      PROVE  KeepStep
  <2>1. c # Root
    BY <1>3 DEF Collect, HeldInv
  <2>2. ASSUME NEW t \in Thread, NEW m \in ToSet(managers[t]) \ {Null}
        PROVE  ToSet(managers'[t]) \cap Supers(links, m) # {}
    <3>1. PICK i \in DOMAIN managers[t] : managers[t][i] = m
      BY <2>2 DEF ToSet
    <3>2. /\ i \in DOMAIN managers'[t]
          /\ managers'[t][i] = IF m = c /\ links.parent[c] # Null THEN links.parent[c] ELSE m
      BY <1>3, <3>1, CollectedIs
    <3>3. managers'[t][i] \in ToSet(managers'[t])
      BY <3>2 DEF ToSet
    <3>4. m \in Supers(links, m)
      BY <2>2, PathStart DEF Supers
    <3>5. m = c /\ links.parent[c] # Null => links.parent[c] \in Supers(links, m)
      <4>1. c # Null /\ c \in Custodian \ {Root}
        BY <2>1, CustodianAssumption
      <4>2. links.parent[c] # Null => links.parent[c] \in Supers(links, c)
        BY <4>1, PathStart DEF Supers
      <4>3. QED BY <4>2
    <3>6. QED BY <3>2, <3>3, <3>4, <3>5
  <2>3. QED BY <2>2 DEF KeepStep
<1>4. ASSUME NEW c \in Custodian, Shutdown(c)
      PROVE  KeepStep
  <2>1. shut_down' # shut_down
    BY <1>4 DEF Shutdown
  <2>2. QED BY <2>1 DEF KeepStep
<1>5. ASSUME NEW t \in Thread, NEW s, managers' = [managers EXCEPT ![t] = s],
             ~Alive(t) \/ ~Alive(t)'
      PROVE  KeepStep
  <2>1. \A u \in Thread \ {t} : managers'[u] = managers[u]
    BY <1>5 DEF HandInv
  <2>2. QED BY <1>5, <2>1, SameKept DEF KeepStep
<1>6. ASSUME NEW c \in Custodian, NEW t \in Thread, MakeThread(t, c)
      PROVE  KeepStep
  <2>1. life[t] = "new" /\ managers' = [managers EXCEPT ![t] = <<c>>]
    BY <1>6 DEF MakeThread
  <2>2. ~Alive(t)
    BY <2>1 DEF Alive
  <2>3. QED BY <1>5, <2>1, <2>2
<1>7. ASSUME NEW t \in Thread, KillThread(t)
      PROVE  KeepStep
  <2>1. CASE t \in SuspendToKill
    BY <1>1, <1>7, <2>1 DEF KillThread
  <2>2. CASE t \notin SuspendToKill
    <3>1. /\ managers' = [managers EXCEPT ![t] = <<Null>>]
          /\ life' = [life EXCEPT ![t] = Killed(t)] /\ Killed(t) \in {"dead", "killed"}
      BY <1>7, <2>2 DEF KillThread, Killed
    <3>2. life'[t] \in {"dead", "killed"}
      BY <3>1 DEF HandInv, LifeInv
    <3>3. ~Alive(t)'
      BY <3>2 DEF Alive
    <3>4. QED BY <1>5, <3>1, <3>3
  <2>3. QED BY <2>1, <2>2
<1>8. ASSUME NEW t \in Thread, End(t)
      PROVE  KeepStep
  <2>1. managers' = [managers EXCEPT ![t] = <<Null>>] /\ life' = [life EXCEPT ![t] = "dead"]
    BY <1>8 DEF End
  <2>2. life'[t] = "dead"
    BY <2>1 DEF HandInv, LifeInv
  <2>3. ~Alive(t)'
    BY <2>2 DEF Alive
  <2>4. QED BY <1>5, <2>1, <2>3
<1>9. ASSUME NEW t \in Thread, ThreadSuspend(t) \/ ThreadResume(t)
      PROVE  UNCHANGED managers
  BY <1>9 DEF ThreadSuspend, ThreadResume
<1>10. ASSUME NEW c \in Custodian, NEW t \in Thread, ResumeUnder(t, c)
       PROVE  FALSE
  BY <1>10 DEF ResumeUnder
<1>11. ASSUME NEW t \in Thread, NEW to \in Thread, ResumeWith(t, to)
       PROVE  FALSE
  BY <1>11 DEF ResumeWith
<1>12. QED
  BY <1>1, <1>2, <1>3, <1>4, <1>6, <1>7, <1>8, <1>9, <1>10, <1>11 DEF Next, vars

\* promote_thread is the only one to take a custodian from a thread that goes on,
\* but for shutdowns, which this is not about: without promotion one goes only
\* for its parent, when it is collected (adjust_custodian_family, managed lists).
THEOREM CustodiansAreKept ==
  ASSUME Op \cap {"promote", "yoke"} = {}
  PROVE  Spec => ManagersKept
<1>1. Init => HeldInv /\ HandInv
  BY HandInit
<1>2. HeldInv /\ HandInv /\ [Next]_vars => (HeldInv /\ HandInv)' /\ KeepStep
  BY HeldSteps, HandSteps, KeepSteps
<1>3. HeldInv /\ HandInv /\ [Next]_vars
        => [\A t \in Thread : Alive(t) /\ Alive(t)' /\ shut_down' = shut_down =>
              \A m \in ToSet(managers[t]) \ {Null} :
                ToSet(managers'[t]) \cap Supers(links, m) # {}]_vars
  BY <1>2 DEF KeepStep
<1>4. QED BY <1>1, <1>2, <1>3, PTL DEF Spec, ManagersKept

-----------------------------------------------------------------------------
\* The tree while nothing is collected.

TreeIs(L) == \E pos : \E B : Tree(L, pos, B) /\ Lists(L, pos)

\* A thread's custodians are in the tree and not shut down; or it has none.
Managed(L, shut, ms, l) ==
  /\ ToSet(ms) \ {Null} \subseteq InTree(L) \ shut
  /\ Null \in ToSet(ms) => ms = <<Null>>
  /\ l = "running" => Null \notin ToSet(ms)

HeldInTree ==
  \A c \in Custodian : held[c] \in {"none", "held"} /\ (held[c] = "none" => c \notin InTree(links))

FamInv ==
  /\ HeldInv /\ HandInv /\ shut_down \subseteq Custodian
  /\ TreeIs(links) /\ HeldInTree
  /\ \A t \in Thread : Managed(links, shut_down, managers[t], life[t])

\* A list has a first item, and what it has is its type.
LEMMA ListIs ==
  ASSUME NEW ms, IsList(ms)
  PROVE  /\ \E n \in Nat \ {0} : DOMAIN ms = 1..n /\ Len(ms) = n
         /\ ms[1] \in ToSet(ms)
         /\ \A T : ToSet(ms) \subseteq T => ms \in Seq(T) \ {<<>>}
<1>1. PICK S : ms \in Seq(S) /\ ms # <<>>
  BY DEF IsList
<1>2. PICK n \in Nat : n = Len(ms) /\ DOMAIN ms = 1..n /\ n # 0
  BY <1>1
<1>3. ms[1] \in ToSet(ms)
  <2>1. 1 \in DOMAIN ms
    BY <1>2
  <2>2. QED BY <2>1 DEF ToSet
<1>4. ASSUME NEW T, ToSet(ms) \subseteq T
      PROVE  ms \in Seq(T) \ {<<>>}
  <2>1. \A i \in 1..n : ms[i] \in T
    BY <1>2, <1>4 DEF ToSet
  <2>2. ms = [i \in 1..n |-> ms[i]]
    BY <1>1, <1>2
  <2>3. ms \in [1..n -> T]
    BY <2>1, <2>2
  <2>4. QED BY <1>1, <1>2, <2>3
<1>5. QED BY <1>2, <1>3, <1>4

\* A list of one that stays.
LEMMA WithoutOne ==
  ASSUME NEW x, NEW gone, x \notin gone
  PROVE  Without(<<x>>, gone) = <<x>>
<1>1. PICK ms : ms = <<x>>
  OBVIOUS
<1>2. ms \in Seq({x}) /\ Len(ms) = 1 /\ ms[1] = x
  BY <1>1
<1>3. PICK g : g = CHOOSE h : Lefts(ms, gone, 1, h)
  OBVIOUS
<1>4. Lefts(ms, gone, 1, g)
  BY <1>3, LeftsExists
<1>5. Without(ms, gone) = g[1]
  BY <1>2, <1>3 DEF Without, Lefts
<1>6. 0 \in 0..1 /\ 1 \in 0..1 /\ 1 # 0 /\ 1 - 1 = 0
  OBVIOUS
<1>7. g[0] = <<>> /\ g[1] = IF ms[1] \in gone THEN g[0] ELSE Append(g[0], ms[1])
  BY <1>4, <1>6 DEF Lefts
<1>8. g[1] = Append(<<>>, x)
  BY <1>2, <1>7
<1>9. Append(<<>>, x) = <<x>>
  OBVIOUS
<1>10. QED BY <1>1, <1>5, <1>8, <1>9

\* A thread with one custodian that can be used.
LEMMA ManagedOne ==
  ASSUME NEW L, NEW shut, NEW l, NEW c \in InTree(L) \ shut
  PROVE  Managed(L, shut, <<c>>, l)
<1>1. ToSet(<<c>>) = {c} /\ c # Null
  BY OneIsList, RootIn
<1>2. QED BY <1>1 DEF Managed

\* A thread without one does not run.
LEMMA ManagedNone ==
  ASSUME NEW L, NEW shut, NEW l, l # "running"
  PROVE  Managed(L, shut, <<Null>>, l)
<1>1. ToSet(<<Null>>) = {Null}
  BY OneIsList
<1>2. QED BY <1>1 DEF Managed

\* A thread that is suspended, or resumed with a custodian.
LEMMA ManagedLife ==
  ASSUME NEW L, NEW shut, NEW ms, IsList(ms), NEW k, Managed(L, shut, ms, k),
         NEW l, l = k \/ l # "running" \/ ms[1] # Null
  PROVE  Managed(L, shut, ms, l)
<1>1. CASE Null \in ToSet(ms)
  <2>1. ms = <<Null>>
    BY <1>1 DEF Managed
  <2>2. ms[1] = Null
    BY <2>1
  <2>3. QED BY <1>1, <2>1, <2>2 DEF Managed
<1>2. CASE Null \notin ToSet(ms)
  BY <1>2 DEF Managed
<1>3. QED BY <1>1, <1>2

\* A thread that is given one that can be used.
LEMMA ManagedPromoted ==
  ASSUME NEW L, NEW shut, NEW ms, IsList(ms), NEW l, Managed(L, shut, ms, l),
         NEW c \in InTree(L) \ shut
  PROVE  IsList(Promoted(ms, c)) /\ Managed(L, shut, Promoted(ms, c), l)
<1>1. c # Null
  BY RootIn
<1>2. PICK p : p = Promoted(ms, c)
  OBVIOUS
<1>3. /\ IsList(p) /\ ToSet(p) \subseteq ToSet(ms) \cup {c}
      /\ ms = <<Null>> => p = <<c>>
  BY <1>2, PromotedIs
<1>4. CASE ms = <<Null>>
  BY <1>2, <1>3, <1>4, ManagedOne
<1>5. CASE ms # <<Null>>
  <2>1. Null \notin ToSet(ms)
    BY <1>5 DEF Managed
  <2>2. QED BY <1>1, <1>2, <1>3, <2>1 DEF Managed
<1>6. QED BY <1>4, <1>5

\* Threads are promoted, and then resumed.
LEMMA ManagedAll ==
  ASSUME HandInv, \A t \in Thread : Managed(links, shut_down, managers[t], life[t]),
         NEW t \in Thread, NEW c \in InTree(links) \ shut_down,
         managers' = PromotedAll(t, c) \/ managers' = managers, life' = Resumed(t, managers')
  PROVE  \A u \in Thread : Managed(links, shut_down, managers'[u], life'[u])
<1>1. yoked \in [Thread -> SUBSET Thread] /\ LifeInv /\ \A u \in Thread : IsList(managers[u])
  BY DEF HandInv
<1>2. PICK all, lives : all = managers' /\ lives = life'
  OBVIOUS
<1>3. ASSUME NEW u \in Thread PROVE all[u] = Promoted(managers[u], c) \/ all[u] = managers[u]
  <2>1. CASE all = managers
    BY <2>1
  <2>2. CASE all = PromotedAll(t, c)
    BY <1>1, <2>2, PromotedAllIs DEF Promotes
  <2>3. QED BY <1>2, <2>1, <2>2
<1>4. ASSUME NEW u \in Thread PROVE Managed(links, shut_down, all[u], lives[u])
  <2>1. IsList(all[u]) /\ Managed(links, shut_down, all[u], life[u])
    BY <1>1, <1>3, ManagedPromoted
  <2>2. lives[u] = life[u] \/ Works(all[u])
    <3>1. \/ Resumed(t, all)[u] = life[u]
          \/ Works(all[u])
      BY <1>1, ResumedIs
    <3>2. QED BY <1>2, <3>1
  <2>3. lives[u] = life[u] \/ all[u][1] # Null
    BY <2>2 DEF Works
  <2>4. QED BY <2>1, <2>3, ManagedLife
<1>5. QED BY <1>2, <1>4

\* The first custodian of a thread, if there is one.
LEMMA FirstIs ==
  ASSUME HandInv, NEW to \in Thread, Managed(links, shut_down, managers[to], life[to]),
         managers[to][1] # Null
  PROVE  managers[to][1] \in InTree(links) \ shut_down
<1>1. IsList(managers[to])
  BY DEF HandInv
<1>2. managers[to][1] \in ToSet(managers[to])
  BY <1>1, ListIs
<1>3. QED BY <1>2 DEF Managed

-----------------------------------------------------------------------------
AllManaged == \A t \in Thread : Managed(links, shut_down, managers[t], life[t])

\* What a shutdown goes through.
LEMMA FamilySet ==
  ASSUME NEW L, TreeIs(L), NEW m \in Custodian
  PROVE  ToSet(Family(L, m)) = {x \in InTree(L) \cup {m} : m \in Supers(L, x)}
<1>1. PICK pos, B : Tree(L, pos, B) /\ Lists(L, pos)
  BY DEF TreeIs
<1>2. CASE m \in InTree(L)
  <2>1. PICK n, fam : FamilySeq(L, pos, m, n, fam)
    BY <1>1, <1>2, FamilyIs
  <2>2. ToSet(fam) = {x \in InTree(L) : m \in Supers(L, x)}
    <3>1. DOMAIN fam = 1..n /\ \A k \in 1..n : fam[k] \in InTree(L)
      BY <2>1 DEF FamilySeq
    <3>2. \A x \in InTree(L) : m \in Supers(L, x) <=> \E k \in 1..n : fam[k] = x
      BY <2>1 DEF FamilySeq
    <3>3. QED BY <3>1, <3>2 DEF ToSet
  <2>3. fam = Family(L, m)
    BY <2>1 DEF FamilySeq
  <2>4. InTree(L) \cup {m} = InTree(L)
    BY <1>2
  <2>5. QED BY <2>2, <2>3, <2>4
<1>3. CASE m \notin InTree(L)
  <2>1. m \in Custodian \ InTree(L)
    BY <1>3
  <2>2. /\ Supers(L, m) = {m} /\ Family(L, m) = <<m>>
        /\ \A x \in Custodian : m \in Supers(L, x) => x = m
    BY <1>1, <2>1, OutOfTree
  <2>3. ToSet(<<m>>) = {m}
    BY OneIsList
  <2>4. {x \in InTree(L) \cup {m} : m \in Supers(L, x)} = {m}
    BY <2>2, RootIn
  <2>5. QED BY <2>2, <2>3, <2>4
<1>4. QED BY <1>2, <1>3

\* The threads after a shutdown of m.
LEMMA ShutManaged ==
  ASSUME FamInv, NEW m \in Custodian, Shutdown(m)
  PROVE  /\ TreeIs(links') /\ InTree(links') \subseteq InTree(links)
         /\ \A t \in Thread : Managed(links', shut_down', managers'[t], life'[t])
<1>1. TreeIs(links) /\ HandInv /\ \A t \in Thread : Managed(links, shut_down, managers[t], life[t])
  BY DEF FamInv
<1>2. PICK pos, B : Tree(links, pos, B) /\ Lists(links, pos)
  BY <1>1 DEF TreeIs
<1>3. m \in Custodian \ {Root} /\ shut_down' = shut_down \cup {m}
  BY DEF Shutdown
<1>4. links' = ShutLinks(links, m)
  BY DEF Shutdown, ShutLinks, Adjusts
<1>5. Shut(links, m, pos, B, links')
  BY <1>2, <1>3, <1>4, ShutKeeps
<1>6. TreeIs(links')
  BY <1>5 DEF Shut, TreeIs
<1>7. InTree(links') = {x \in InTree(links) : x = m \/ m \notin Supers(links, x)}
  BY <1>5 DEF Shut
<1>8. PICK gone : gone = ToSet(Family(links, m))
  OBVIOUS
<1>9. gone = {x \in InTree(links) \cup {m} : m \in Supers(links, x)}
  BY <1>1, <1>8, FamilySet
<1>10. Null \notin gone /\ m \in gone
  <2>1. Null \notin Custodian /\ m # Null
    BY CustodianAssumption
  <2>2. m \in Supers(links, m)
    BY <2>1, PathStart DEF Supers
  <2>3. QED BY <1>9, <2>1, <2>2, RootIn
<1>11. /\ managers' = [t \in Thread |->
            IF LeftManagers(t, gone) = <<>> THEN <<Null>> ELSE LeftManagers(t, gone)]
       /\ life' = [t \in Thread |-> IF Alive(t) /\ LeftManagers(t, gone) = <<>>
                                    THEN Killed(t) ELSE life[t]]
  BY <1>8 DEF Shutdown
<1>12. ASSUME NEW t \in Thread
       PROVE  Managed(links', shut_down', managers'[t], life'[t])
  <2>1. PICK ms, left : ms = managers[t] /\ left = LeftManagers(t, gone)
    OBVIOUS
  <2>2. Managed(links, shut_down, ms, life[t])
    BY <1>1, <2>1
  <2>3. IsList(ms)
    BY <1>1, <2>1 DEF HandInv
  <2>4. PICK S : ms \in Seq(S)
    BY <2>3 DEF IsList
  <2>5. left = Without(ms, gone)
    BY <2>1 DEF LeftManagers
  <2>6. left \in Seq(S) /\ ToSet(left) = ToSet(ms) \ gone
    BY <2>4, <2>5, LeftIs
  <2>7. /\ managers'[t] = IF left = <<>> THEN <<Null>> ELSE left
        /\ life'[t] = IF Alive(t) /\ left = <<>> THEN Killed(t) ELSE life[t]
    BY <1>11, <2>1
  <2>8. CASE left = <<>>
    <3>1. managers'[t] = <<Null>>
      BY <2>7, <2>8
    <3>2. life'[t] # "running"
      <4>1. CASE Alive(t)
        BY <2>7, <2>8, <4>1, KilledIs
      <4>2. CASE ~Alive(t)
        <5>1. life[t] # "running"
          BY <4>2 DEF Alive
        <5>2. QED BY <2>7, <4>2, <5>1
      <4>3. QED BY <4>1, <4>2
    <3>3. QED BY <3>1, <3>2, ManagedNone
  <2>9. CASE left # <<>>
    <3>1. managers'[t] = left /\ life'[t] = life[t]
      BY <2>7, <2>9
    <3>2. CASE Null \in ToSet(ms)
      <4>1. ms = <<Null>>
        BY <2>2, <3>2 DEF Managed
      <4>2. Without(<<Null>>, gone) = <<Null>>
        BY <1>10, WithoutOne
      <4>3. left = <<Null>>
        BY <2>5, <4>1, <4>2
      <4>4. life[t] # "running"
        BY <2>2, <3>2 DEF Managed
      <4>5. QED BY <3>1, <4>3, <4>4, ManagedNone
    <3>3. CASE Null \notin ToSet(ms)
      <4>1. Null \notin ToSet(left)
        BY <2>6, <3>3
      <4>2. ToSet(left) \subseteq InTree(links) \ shut_down
        BY <2>2, <2>6, <3>3 DEF Managed
      <4>3. ToSet(left) \subseteq InTree(links') \ shut_down'
        BY <1>3, <1>7, <1>9, <1>10, <2>6, <4>2
      <4>4. QED BY <3>1, <4>1, <4>3 DEF Managed
    <3>4. QED BY <3>2, <3>3
  <2>10. QED BY <2>8, <2>9
<1>13. QED BY <1>6, <1>7, <1>12

\* One that programs can use is in the tree.
LEMMA UsableIn ==
  ASSUME "reuse" \notin Op, NEW c \in Custodian, Usable(c)
  PROVE  c \in InTree(links) \ shut_down /\ held[c] = "held"
BY DEF Usable, InTree

\* Every step keeps the tree, and threads under custodians in it.
LEMMA FamSteps ==
  ASSUME Op \cap {"collect", "reuse"} = {}, FamInv, [Next]_vars
  PROVE  FamInv'
<1>1. HeldInv /\ HandInv /\ shut_down \subseteq Custodian /\ TreeIs(links) /\ HeldInTree /\ AllManaged
  BY DEF FamInv, AllManaged
<1>2. HeldInv' /\ HandInv' /\ yoked \in [Thread -> SUBSET Thread]
  BY <1>1, HeldSteps, HandSteps DEF HandInv
<1>3. SUFFICES (shut_down \subseteq Custodian)' /\ TreeIs(links') /\ HeldInTree' /\ AllManaged'
  BY <1>2, <1>3 DEF FamInv, AllManaged, TreeIs
<1>4. ASSUME UNCHANGED <<links, held, shut_down>>
      PROVE  (shut_down \subseteq Custodian)' /\ TreeIs(links') /\ HeldInTree'
  BY <1>1, <1>4 DEF HeldInTree
<1>5. CASE UNCHANGED vars
  <2>1. UNCHANGED <<links, held, shut_down>> /\ UNCHANGED <<managers, life>>
    BY <1>5 DEF vars
  <2>2. AllManaged'
    BY <1>1, <2>1 DEF AllManaged
  <2>3. QED BY <1>4, <2>1, <2>2
<1>6. ASSUME NEW c \in Custodian, c # Root, MakeCustodian(c)
      PROVE  (shut_down \subseteq Custodian)' /\ TreeIs(links') /\ HeldInTree' /\ AllManaged'
  <2>1. PICK p : p = Under[c]
    OBVIOUS
  <2>2. /\ held[c] = "none" /\ Usable(p)
        /\ held' = [held EXCEPT ![c] = "held"] /\ links' = Inserted(links, c, p)
        /\ UNCHANGED <<shut_down, managers, life, yoked>>
    BY <1>6, <2>1 DEF MakeCustodian
  <2>3. p \in InTree(links)
    <3>1. p \in Custodian
      BY <1>6, <2>1, CustodianAssumption
    <3>2. QED BY <2>2, <3>1, UsableIn
  <2>4. c \in Custodian \ InTree(links)
    BY <1>1, <2>2 DEF HeldInTree
  <2>5. PICK pos, B : Tree(links, pos, B) /\ Lists(links, pos)
    BY <1>1 DEF TreeIs
  <2>6. /\ InTree(links') = InTree(links) \cup {c}
        /\ \E new : \E A : Tree(links', new, A) /\ Lists(links', new)
    BY <2>2, <2>3, <2>4, <2>5, InsertKeeps
  <2>7. TreeIs(links')
    BY <2>6 DEF TreeIs
  <2>8. HeldInTree'
    <3>1. \A d \in Custodian : held'[d] = IF d = c THEN "held" ELSE held[d]
      BY <1>1, <2>2 DEF HeldInv
    <3>2. \A d \in Custodian : held'[d] \in {"none", "held"} /\ (held'[d] = "none" => d \notin InTree(links'))
      BY <1>1, <2>6, <3>1 DEF HeldInTree
    <3>3. QED BY <3>2 DEF HeldInTree
  <2>9. AllManaged'
    <3>1. \A t \in Thread : Managed(links', shut_down, managers[t], life[t])
      BY <1>1, <2>6 DEF AllManaged, Managed
    <3>2. QED BY <2>2, <3>1 DEF AllManaged
  <2>10. QED BY <1>1, <2>2, <2>7, <2>8, <2>9
<1>7. ASSUME NEW c \in Custodian, Lose(c) \/ Collect(c)
      PROVE  FALSE
  BY <1>1, <1>7 DEF Lose, Collect, HeldInTree
<1>8. ASSUME NEW c \in Custodian, Shutdown(c)
      PROVE  (shut_down \subseteq Custodian)' /\ TreeIs(links') /\ HeldInTree' /\ AllManaged'
  <2>1. TreeIs(links') /\ InTree(links') \subseteq InTree(links)
    BY <1>8, ShutManaged
  <2>2. \A t \in Thread : Managed(links', shut_down', managers'[t], life'[t])
    BY <1>8, ShutManaged
  <2>3. held' = held /\ shut_down' = shut_down \cup {c}
    BY <1>8 DEF Shutdown
  <2>4. HeldInTree'
    BY <1>1, <2>1, <2>3 DEF HeldInTree
  <2>5. QED BY <1>1, <2>1, <2>2, <2>3, <2>4 DEF AllManaged
<1>9. ASSUME NEW t \in Thread, NEW ms, NEW l, managers' = [managers EXCEPT ![t] = ms] \/ (managers' = managers /\ ms = managers[t]),
             life' = [life EXCEPT ![t] = l], Managed(links, shut_down, ms, l),
             UNCHANGED <<links, held, shut_down>>
      PROVE  (shut_down \subseteq Custodian)' /\ TreeIs(links') /\ HeldInTree' /\ AllManaged'
  <2>1. managers = [u \in Thread |-> managers[u]] /\ LifeInv
    BY <1>1 DEF HandInv
  <2>2. \A u \in Thread : /\ managers'[u] = IF u = t THEN ms ELSE managers[u]
                          /\ life'[u] = IF u = t THEN l ELSE life[u]
    BY <1>9, <2>1 DEF LifeInv
  <2>3. \A u \in Thread : Managed(links, shut_down, managers'[u], life'[u])
    BY <1>1, <1>9, <2>2 DEF AllManaged
  <2>4. AllManaged'
    BY <1>9, <2>3 DEF AllManaged
  <2>5. QED BY <1>4, <1>9, <2>4
<1>10. ASSUME NEW c \in Custodian, NEW t \in Thread, MakeThread(t, c)
       PROVE  (shut_down \subseteq Custodian)' /\ TreeIs(links') /\ HeldInTree' /\ AllManaged'
  <2>1. /\ Usable(c) /\ life' = [life EXCEPT ![t] = "running"]
        /\ managers' = [managers EXCEPT ![t] = <<c>>] /\ UNCHANGED <<links, held, shut_down>>
    BY <1>10 DEF MakeThread
  <2>2. Managed(links, shut_down, <<c>>, "running")
    BY <2>1, UsableIn, ManagedOne
  <2>3. QED BY <1>9, <2>1, <2>2
<1>11. ASSUME NEW t \in Thread, NEW l \in {"suspended", "dead", "killed"}, life' = [life EXCEPT ![t] = l],
              managers' = managers \/ managers' = [managers EXCEPT ![t] = <<Null>>],
              UNCHANGED <<links, held, shut_down>>
       PROVE  (shut_down \subseteq Custodian)' /\ TreeIs(links') /\ HeldInTree' /\ AllManaged'
  <2>1. CASE managers' = managers
    <3>1. Managed(links, shut_down, managers[t], l)
      BY <1>1, <1>11 DEF AllManaged, Managed
    <3>2. QED BY <1>9, <1>11, <2>1, <3>1
  <2>2. CASE managers' = [managers EXCEPT ![t] = <<Null>>]
    <3>1. Managed(links, shut_down, <<Null>>, l)
      BY <1>11, ManagedNone
    <3>2. QED BY <1>9, <1>11, <2>2, <3>1
  <2>3. QED BY <1>11, <2>1, <2>2
<1>12. ASSUME NEW t \in Thread, KillThread(t)
       PROVE  (shut_down \subseteq Custodian)' /\ TreeIs(links') /\ HeldInTree' /\ AllManaged'
  <2>1. /\ Alive(t) /\ life' = [life EXCEPT ![t] = Killed(t)] /\ UNCHANGED <<links, held, shut_down>>
        /\ managers' = managers \/ managers' = [managers EXCEPT ![t] = <<Null>>]
    BY <1>12 DEF KillThread
  <2>2. PICK l \in {"suspended", "dead", "killed"} : l = Killed(t)
    BY <2>1, KilledIs
  <2>3. QED BY <1>11, <2>1, <2>2
<1>13. ASSUME NEW t \in Thread, End(t)
       PROVE  (shut_down \subseteq Custodian)' /\ TreeIs(links') /\ HeldInTree' /\ AllManaged'
  <2>1. /\ life' = [life EXCEPT ![t] = "dead"] /\ UNCHANGED <<links, held, shut_down>>
        /\ managers' = [managers EXCEPT ![t] = <<Null>>]
    BY <1>13 DEF End
  <2>2. QED BY <1>11, <2>1
<1>14. ASSUME NEW t \in Thread, ThreadSuspend(t)
       PROVE  (shut_down \subseteq Custodian)' /\ TreeIs(links') /\ HeldInTree' /\ AllManaged'
  <2>1. /\ life' = [life EXCEPT ![t] = "suspended"] /\ UNCHANGED <<links, held, shut_down>>
        /\ managers' = managers
    BY <1>14 DEF ThreadSuspend
  <2>2. QED BY <1>11, <2>1
<1>15. ASSUME NEW t \in Thread, NEW c \in InTree(links) \ shut_down,
              managers' = PromotedAll(t, c) \/ managers' = managers,
              life' = Resumed(t, managers'), UNCHANGED <<links, held, shut_down>>
       PROVE  (shut_down \subseteq Custodian)' /\ TreeIs(links') /\ HeldInTree' /\ AllManaged'
  <2>1. HandInv /\ \A u \in Thread : Managed(links, shut_down, managers[u], life[u])
    BY <1>1 DEF AllManaged
  <2>2. \A u \in Thread : Managed(links, shut_down, managers'[u], life'[u])
    BY <1>15, <2>1, ManagedAll
  <2>3. AllManaged'
    BY <1>15, <2>2 DEF AllManaged
  <2>4. QED BY <1>4, <1>15, <2>3
<1>16. ASSUME NEW t \in Thread, managers' = managers, life' = Resumed(t, managers'),
              UNCHANGED <<links, held, shut_down>>
       PROVE  (shut_down \subseteq Custodian)' /\ TreeIs(links') /\ HeldInTree' /\ AllManaged'
  <2>1. ASSUME NEW u \in Thread PROVE Managed(links, shut_down, managers[u], life'[u])
    <3>1. IsList(managers[u]) /\ Managed(links, shut_down, managers[u], life[u]) /\ LifeInv
      BY <1>1 DEF HandInv, AllManaged
    <3>2. Resumed(t, managers)[u] = life[u] \/ Works(managers[u])
      BY <3>1, ResumedIs
    <3>3. life'[u] = life[u] \/ managers[u][1] # Null
      BY <1>16, <3>2 DEF Works
    <3>4. QED BY <3>1, <3>3, ManagedLife
  <2>2. AllManaged'
    BY <1>16, <2>1 DEF AllManaged
  <2>3. QED BY <1>4, <1>16, <2>2
<1>17. ASSUME NEW t \in Thread, ThreadResume(t)
       PROVE  (shut_down \subseteq Custodian)' /\ TreeIs(links') /\ HeldInTree' /\ AllManaged'
  <2>1. managers' = managers /\ life' = Resumed(t, managers) /\ UNCHANGED <<links, held, shut_down>>
    BY <1>17 DEF ThreadResume
  <2>2. life' = Resumed(t, managers')
    BY <2>1
  <2>3. QED BY <1>16, <2>1, <2>2
<1>18. ASSUME NEW c \in Custodian, NEW t \in Thread, ResumeUnder(t, c)
       PROVE  (shut_down \subseteq Custodian)' /\ TreeIs(links') /\ HeldInTree' /\ AllManaged'
  <2>1. /\ Usable(c) /\ managers' = PromotedAll(t, c) /\ life' = Resumed(t, managers')
        /\ UNCHANGED <<links, held, shut_down>>
    BY <1>18 DEF ResumeUnder
  <2>2. c \in InTree(links) \ shut_down
    BY <2>1, UsableIn
  <2>3. QED BY <1>15, <2>1, <2>2
<1>19. ASSUME NEW t \in Thread, NEW to \in Thread, ResumeWith(t, to)
       PROVE  (shut_down \subseteq Custodian)' /\ TreeIs(links') /\ HeldInTree' /\ AllManaged'
  <2>1. PICK c : c = managers[to][1]
    OBVIOUS
  <2>2. /\ managers' = IF c # Null THEN PromotedAll(t, c) ELSE managers
        /\ life' = Resumed(t, managers') /\ UNCHANGED <<links, held, shut_down>>
    BY <1>19, <2>1 DEF ResumeWith
  <2>3. CASE c # Null
    <3>1. c \in InTree(links) \ shut_down
      BY <1>1, <2>1, <2>3, FirstIs DEF AllManaged
    <3>2. managers' = PromotedAll(t, c)
      BY <2>2, <2>3
    <3>3. QED BY <1>15, <2>2, <3>1, <3>2
  <2>4. CASE c = Null
    <3>1. managers' = managers
      BY <2>2, <2>4
    <3>2. QED BY <1>16, <2>2, <3>1
  <2>5. QED BY <2>3, <2>4
<1>20. QED
  BY <1>5, <1>6, <1>7, <1>8, <1>10, <1>12, <1>13, <1>14, <1>17, <1>18, <1>19 DEF Next

-----------------------------------------------------------------------------
\* At the start the main custodian is alone.
LEMMA FamInit ==
  ASSUME Init
  PROVE  FamInv
<1>1. HeldInv /\ HandInv
  BY HandInit
<1>2. InTree(links) = {Root}
  <2>1. \A c \in Custodian : links.parent[c] = Null
    BY DEF Init, NoLink
  <2>2. QED BY <2>1, CustodianAssumption DEF InTree
<1>3. TreeIs(links)
  <2>1. PICK pos : pos = [c \in Custodian |-> 0]
    OBVIOUS
  <2>2. pos \in [Custodian -> 0..0] /\ \A c \in Custodian : pos[c] = 0
    BY <2>1
  <2>3. PICK L : L = links
    OBVIOUS
  <2>4. /\ L \in LinkType /\ L.last = Root
        /\ \A c \in Custodian : /\ L.parent[c] = Null /\ L.children[c] = Null /\ L.sibling[c] = Null
                                /\ L.global_next[c] = Null /\ L.global_prev[c] = Null
    BY <2>3, CustodianAssumption DEF Init, NoLink, LinkType
  <2>5. InTree(L) = {Root} /\ Root \in Custodian
    BY <1>2, <2>3, CustodianAssumption
  <2>6. Kids(L, Root) = {}
    BY <2>4, CustodianAssumption DEF Kids
  <2>7. Tree(L, pos, 0)
    <3>1. Before({Root}, pos, Root, Null)
      BY <2>2, <2>5 DEF Before
    <3>2. L.parent \in [Custodian -> Custodian \cup {Null}]
      BY <2>4 DEF LinkType
    <3>3. 0 \in Nat
      OBVIOUS
    <3>4. QED BY <2>2, <2>4, <2>5, <3>1, <3>2, <3>3 DEF Tree
  <2>8. Lists(L, pos)
    <3>1. After({Root}, pos, Root, Null) /\ After({}, pos, Root, Null)
      BY <2>2, <2>5 DEF After
    <3>2. QED BY <2>2, <2>4, <2>5, <2>6, <3>1 DEF Lists
  <2>9. QED BY <2>3, <2>7, <2>8 DEF TreeIs
<1>4. HeldInTree /\ shut_down \subseteq Custodian
  BY <1>2 DEF Init, HeldInTree
<1>5. \A t \in Thread : Managed(links, shut_down, managers[t], life[t])
  <2>1. \A t \in Thread : managers[t] = <<Null>> /\ life[t] # "running"
    BY DEF Init
  <2>2. QED BY <2>1, ManagedNone
<1>6. QED BY <1>1, <1>3, <1>4, <1>5 DEF FamInv

\* The invariant behind the theorems below, which they have in common: the
\* tree, the global list and the lists of children have one order, and the
\* custodians of threads are in the tree and not shut down.  Programs do not lose
\* custodians here, nor go on with those a shutdown has detached: with either
\* the code breaks that order, or leaves the tree.
THEOREM FamilyInvariant ==
  ASSUME Op \cap {"collect", "reuse"} = {}
  PROVE  Spec => []FamInv
<1>1. Init => FamInv
  BY FamInit
<1>2. FamInv /\ [Next]_vars => FamInv'
  BY FamSteps
<1>3. QED BY <1>1, <1>2, PTL DEF Spec

\* Types, and: the global list never loses its last custodian, and a thread keeps
\* a slot for its main reference.
THEOREM TypeCorrect ==
  ASSUME Op \cap {"collect", "reuse"} = {}
  PROVE  Spec => []TypeOK
<1>1. ASSUME FamInv PROVE TypeOK
  <2>1. HeldInv /\ HandInv /\ TreeIs(links) /\ shut_down \subseteq Custodian
    BY <1>1 DEF FamInv
  <2>2. links \in LinkType
    BY <2>1 DEF TreeIs, Lists
  <2>3. ASSUME NEW t \in Thread PROVE managers[t] \in Seq(Custodian \cup {Null}) \ {<<>>}
    <3>1. IsList(managers[t])
      BY <2>1 DEF HandInv
    <3>2. ToSet(managers[t]) \ {Null} \subseteq InTree(links)
      BY <1>1 DEF FamInv, Managed
    <3>3. ToSet(managers[t]) \subseteq Custodian \cup {Null}
      BY <3>2, RootIn
    <3>4. QED BY <3>1, <3>3, ListIs
  <2>4. managers = [t \in Thread |-> managers[t]]
    BY <2>1 DEF HandInv
  <2>5. managers \in [Thread -> Seq(Custodian \cup {Null}) \ {<<>>}]
    BY <2>3, <2>4
  <2>6. QED BY <2>1, <2>2, <2>5 DEF TypeOK, HeldInv, HandInv, LifeInv, LinkType
<1>2. FamInv => TypeOK
  BY <1>1
<1>3. QED BY <1>2, FamilyInvariant, PTL

\* Those below one in the tree are what Below says.
LEMMA BelowIs ==
  ASSUME FamInv, NEW c \in Custodian, held[c] = "held"
  PROVE  Below(c) = {x \in InTree(links) \cup {c} : c \in Supers(links, x)}
<1>1. TreeIs(links) /\ HeldInTree
  BY DEF FamInv
<1>2. PICK pos, B : Tree(links, pos, B) /\ Lists(links, pos)
  BY <1>1 DEF TreeIs
<1>3. \A d \in Custodian \ InTree(links) : Supers(links, d) = {d}
  BY <1>2, OutOfTree
<1>4. \A d \in InTree(links) : d \in Custodian /\ held[d] = "held"
  BY <1>1, RootIn DEF HeldInTree
<1>5. QED BY <1>3, <1>4 DEF Below

\* Each is gone through before its parent.
LEMMA FamilyOrder ==
  ASSUME FamInv, NEW c \in Custodian,
         NEW i \in DOMAIN Family(links, c), NEW j \in DOMAIN Family(links, c),
         links.parent[Family(links, c)[i]] = Family(links, c)[j]
  PROVE  i < j
<1>1. PICK pos, B : Tree(links, pos, B) /\ Lists(links, pos)
  BY DEF FamInv, TreeIs
<1>2. CASE c \in InTree(links)
  <2>1. PICK n, fam : FamilySeq(links, pos, c, n, fam)
    BY <1>1, <1>2, FamilyIs
  <2>2. /\ fam = Family(links, c) /\ DOMAIN fam = 1..n /\ n \in Nat
        /\ \A k \in 1..n : fam[k] \in InTree(links)
        /\ \A h, k \in 1..n : h < k => pos[fam[k]] < pos[fam[h]]
    BY <2>1 DEF FamilySeq
  <2>3. i \in 1..n /\ j \in 1..n /\ links.parent[fam[i]] = fam[j]
    BY <2>2
  <2>4. fam[i] # Root /\ pos[fam[j]] < pos[fam[i]]
    <3>1. fam[j] # Null /\ fam[i] \in InTree(links)
      BY <2>2, <2>3, RootIn
    <3>2. links.parent[Root] = Null /\ \A x \in InTree(links) \ {Root} : pos[links.parent[x]] < pos[x]
      BY <1>1 DEF Tree
    <3>3. QED BY <2>3, <3>1, <3>2
  <2>5. pos[fam[i]] \in Nat /\ pos[fam[j]] \in Nat
    BY <1>1, <2>2, <2>3, RootIn DEF Tree
  <2>6. i # j /\ ~(j < i)
    BY <2>2, <2>3, <2>4, <2>5
  <2>7. QED BY <2>2, <2>3, <2>6
<1>3. CASE c \notin InTree(links)
  <2>1. c \in Custodian \ InTree(links)
    BY <1>3
  <2>2. Family(links, c) = <<c>>
    BY <1>1, <2>1, OutOfTree
  <2>3. PICK s : s = <<c>>
    OBVIOUS
  <2>4. DOMAIN s = {1} /\ s[1] = c
    BY <2>3
  <2>5. i = 1 /\ j = 1 /\ links.parent[c] = c
    BY <2>2, <2>3, <2>4
  <2>6. links.parent[c] = Null /\ c # Null
    BY <2>1, CustodianAssumption DEF InTree
  <2>7. QED BY <2>5, <2>6
<1>4. QED BY <1>2, <1>3

\* insert_custodian and adjust_custodian_family: what a shutdown goes through is
\* the custodian and all those below it, each after its parent.
THEOREM FamiliesTogether ==
  ASSUME Op \cap {"collect", "reuse"} = {}
  PROVE  Spec => []FamilyTogether
<1>1. ASSUME FamInv PROVE FamilyTogether
  <2>1. SUFFICES ASSUME NEW c \in Custodian, held[c] \in {"held", "lost"}
                 PROVE  /\ ToSet(Family(links, c)) = Below(c)
                        /\ \A i, j \in DOMAIN Family(links, c) :
                             links.parent[Family(links, c)[i]] = Family(links, c)[j] => i < j
    BY DEF FamilyTogether
  <2>2. held[c] = "held" /\ TreeIs(links)
    BY <1>1, <2>1 DEF FamInv, HeldInTree
  <2>3. ToSet(Family(links, c)) = Below(c)
    <3>1. ToSet(Family(links, c)) = {x \in InTree(links) \cup {c} : c \in Supers(links, x)}
      BY <2>2, FamilySet
    <3>2. QED BY <1>1, <2>2, <3>1, BelowIs
  <2>4. QED BY <1>1, <2>3, FamilyOrder
<1>2. FamInv => FamilyTogether
  BY <1>1
<1>3. QED BY <1>2, FamilyInvariant, PTL

\* A thread that runs has custodians, none of them shut down or below one that
\* is, and a shutdown of the main one would reach it (make_thread, thread_resume,
\* scheme_do_close_managed).
THEOREM RunsAreManaged ==
  ASSUME Op \cap {"collect", "reuse"} = {}
  PROVE  Spec => []RunsManaged
<1>1. ASSUME FamInv PROVE RunsManaged
  <2>1. SUFFICES ASSUME NEW t \in Thread, life[t] = "running", NEW m \in ToSet(managers[t])
                 PROVE  m \in Custodian \ shut_down /\ held[m] # "gone" /\ Root \in Supers(links, m)
    BY DEF RunsManaged
  <2>2. m \in InTree(links) \ shut_down
    BY <1>1, <2>1 DEF FamInv, Managed
  <2>3. PICK pos, B : Tree(links, pos, B)
    BY <1>1 DEF FamInv, TreeIs
  <2>4. Root \in Supers(links, m)
    BY <2>2, <2>3, SupersIn
  <2>5. m \in Custodian /\ held[m] \in {"none", "held"}
    BY <1>1, <2>2, RootIn DEF FamInv, HeldInTree
  <2>6. QED BY <2>2, <2>4, <2>5
<1>2. FamInv => RunsManaged
  BY <1>1
<1>3. QED BY <1>2, FamilyInvariant, PTL

\* The path back goes from later custodians to earlier ones.
LEMMA BackOrder ==
  ASSUME NEW L, NEW pos, NEW B, Tree(L, pos, B), NEW z \in InTree(L)
  PROVE  \E n \in Nat : /\ DOMAIN Path(L.global_prev, z) = 1..n
                        /\ \A k \in 1..n : Path(L.global_prev, z)[k] \in InTree(L)
                        /\ \A h, k \in 1..n : h < k =>
                              pos[Path(L.global_prev, z)[k]] < pos[Path(L.global_prev, z)[h]]
<1>1. PICK rank : /\ rank \in [InTree(L) -> Nat] /\ \A c \in InTree(L) : rank[c] = pos[c]
                  /\ Falling(InTree(L), L.global_prev, rank)
  BY TreeFalls
<1>2. PICK link : link = L.global_prev
  OBVIOUS
<1>3. PICK S : S = InTree(L)
  OBVIOUS
<1>4. Falling(S, link, rank)
  BY <1>1, <1>2, <1>3
<1>5. z \in S
  BY <1>3
<1>6. PICK n \in Nat \ {0} : \E f : Falls(S, link, rank, z, n, f)
  BY <1>4, <1>5, FallsExists
<1>7. PICK f : Falls(S, link, rank, z, n, f)
  BY <1>6
<1>8. Path(link, z) = [k \in 1..n |-> f[k - 1]]
  BY <1>4, <1>7, FallsPath
<1>9. PICK back : back = Path(link, z)
  OBVIOUS
<1>10. DOMAIN back = 1..n /\ \A k \in 1..n : back[k] = f[k - 1]
  BY <1>8, <1>9
<1>11. \A k \in 1..n : k - 1 \in 0..(n - 1) /\ back[k] \in S
  BY <1>7, <1>10 DEF Falls
<1>12. ASSUME NEW h \in 1..n, NEW k \in 1..n, h < k
       PROVE  pos[back[k]] < pos[back[h]]
  <2>1. rank[f[k - 1]] < rank[f[h - 1]]
    BY <1>7, <1>11, <1>12 DEF Falls
  <2>2. back[k] \in S /\ back[h] \in S
    BY <1>11
  <2>3. QED BY <1>1, <1>3, <1>10, <2>1, <2>2
<1>13. QED BY <1>2, <1>3, <1>9, <1>10, <1>11, <1>12

\* for_each_managed, back from last_custodian, meets every custodian that manages
\* a thread, those below another one before it.
THEOREM AllAreVisited ==
  ASSUME Op \cap {"collect", "reuse"} = {}
  PROVE  Spec => []AllVisited
<1>1. ASSUME FamInv PROVE AllVisited
  <2>1. PICK L, seen : L = links /\ seen = Path(L.global_prev, L.last)
    OBVIOUS
  <2>2. PICK pos, B : Tree(L, pos, B) /\ Lists(L, pos)
    BY <1>1, <2>1 DEF FamInv, TreeIs
  <2>3. L.last \in InTree(L) /\ \A c \in InTree(L) : pos[c] <= pos[L.last]
    BY <2>2 DEF Lists
  <2>4. ToSet(seen) = InTree(L)
    <3>1. ToSet(seen) = {x \in InTree(L) : pos[x] <= pos[L.last]}
      BY <2>1, <2>2, <2>3, BackIs
    <3>2. QED BY <2>3, <3>1
  <2>5. ASSUME NEW i \in DOMAIN seen, NEW j \in DOMAIN seen, L.parent[seen[i]] = seen[j]
        PROVE  i < j
    <3>1. PICK n \in Nat : /\ DOMAIN seen = 1..n /\ \A k \in 1..n : seen[k] \in InTree(L)
                           /\ \A h, k \in 1..n : h < k => pos[seen[k]] < pos[seen[h]]
      BY <2>1, <2>2, <2>3, BackOrder
    <3>2. seen[i] \in InTree(L) /\ seen[j] \in InTree(L) /\ seen[j] # Null
      BY <3>1, RootIn
    <3>3. pos[seen[j]] < pos[seen[i]]
      <4>1. L.parent[Root] = Null /\ \A x \in InTree(L) \ {Root} : pos[L.parent[x]] < pos[x]
        BY <2>2 DEF Tree
      <4>2. QED BY <2>5, <3>2, <4>1
    <3>4. pos[seen[j]] \in Nat /\ pos[seen[i]] \in Nat
      BY <2>2, <3>2, RootIn DEF Tree
    <3>5. i # j /\ ~(j < i)
      BY <3>1, <3>3, <3>4
    <3>6. QED BY <3>1, <3>5
  <2>6. \A t \in Thread : ToSet(managers[t]) \ {Null} \subseteq ToSet(seen)
    BY <1>1, <2>1, <2>4 DEF FamInv, Managed
  <2>7. QED BY <2>1, <2>5, <2>6 DEF AllVisited
<1>2. FamInv => AllVisited
  BY <1>1
<1>3. QED BY <1>2, FamilyInvariant, PTL

ShutStep ==
  \A c \in shut_down' \ shut_down : \A t \in Thread : Alive(t) =>
    LET left == ToSet(managers[t]) \ (Below(c) \cup {Null}) IN
    IF left = {} THEN life'[t] \notin {"running"}
    ELSE life'[t] = life[t] /\ ToSet(managers'[t]) = left

\* A shutdown ends the threads it leaves without a custodian, and no others.
LEMMA ShutSteps ==
  ASSUME FamInv, NEW m \in Custodian, Shutdown(m)
  PROVE  ShutStep
<1>1. shut_down' = shut_down \cup {m} /\ held[m] = "held"
  BY DEF Shutdown
<1>2. SUFFICES ASSUME NEW t \in Thread, Alive(t), NEW left,
                      left = ToSet(managers[t]) \ (Below(m) \cup {Null})
               PROVE  IF left = {} THEN life'[t] \notin {"running"}
                      ELSE life'[t] = life[t] /\ ToSet(managers'[t]) = left
  BY <1>1 DEF ShutStep
<1>3. PICK gone : gone = ToSet(Family(links, m))
  OBVIOUS
<1>4. gone = Below(m)
  <2>1. TreeIs(links)
    BY DEF FamInv
  <2>2. ToSet(Family(links, m)) = {x \in InTree(links) \cup {m} : m \in Supers(links, x)}
    BY <2>1, FamilySet
  <2>3. Below(m) = {x \in InTree(links) \cup {m} : m \in Supers(links, x)}
    BY <1>1, BelowIs
  <2>4. QED BY <1>3, <2>2, <2>3
<1>5. PICK ms, rest : ms = managers[t] /\ rest = LeftManagers(t, gone)
  OBVIOUS
<1>6. IsList(ms) /\ Managed(links, shut_down, ms, life[t])
  BY <1>5 DEF FamInv, HandInv
<1>7. rest = Without(ms, gone)
  BY <1>5 DEF LeftManagers
<1>8. ToSet(rest) = ToSet(ms) \ gone /\ (rest = <<>> <=> ToSet(ms) \subseteq gone)
  <2>1. PICK S : ms \in Seq(S)
    BY <1>6 DEF IsList
  <2>2. QED BY <1>7, <2>1, LeftIs
<1>9. /\ managers'[t] = IF rest = <<>> THEN <<Null>> ELSE rest
      /\ life'[t] = IF rest = <<>> THEN Killed(t) ELSE life[t]
  <2>1. /\ managers' = [u \in Thread |->
            IF LeftManagers(u, gone) = <<>> THEN <<Null>> ELSE LeftManagers(u, gone)]
        /\ life' = [u \in Thread |-> IF Alive(u) /\ LeftManagers(u, gone) = <<>>
                                     THEN Killed(u) ELSE life[u]]
    BY <1>3 DEF Shutdown
  <2>2. QED BY <1>2, <1>5, <2>1
<1>10. CASE Null \in ToSet(ms)
  <2>1. ms = <<Null>> /\ life[t] # "running"
    BY <1>6, <1>10 DEF Managed
  <2>2. ToSet(ms) = {Null}
    BY <2>1, OneIsList
  <2>3. left = {}
    BY <1>2, <1>5, <2>2
  <2>4. life'[t] # "running"
    BY <1>2, <1>9, <2>1, KilledIs
  <2>5. QED BY <2>3, <2>4
<1>11. CASE Null \notin ToSet(ms)
  <2>1. left = ToSet(rest)
    BY <1>2, <1>4, <1>5, <1>8, <1>11
  <2>2. CASE left = {}
    <3>1. rest = <<>>
      BY <1>8, <2>1, <2>2
    <3>2. life'[t] # "running"
      BY <1>2, <1>9, <3>1, KilledIs
    <3>3. QED BY <2>2, <3>2
  <2>3. CASE left # {}
    <3>1. rest # <<>>
      BY <1>8, <2>1, <2>3
    <3>2. QED BY <1>9, <2>1, <2>3, <3>1
  <2>4. QED BY <2>2, <2>3
<1>12. QED BY <1>10, <1>11

\* custodian-shutdown-all reaches exactly the threads that are left without a
\* custodian (scheme_do_close_managed).
THEOREM ShutdownsReach ==
  ASSUME Op \cap {"collect", "reuse"} = {}
  PROVE  Spec => ShutdownReaches
<1>1. Init => FamInv
  BY FamInit
<1>2. FamInv /\ [Next]_vars => FamInv'
  BY FamSteps
<1>3. ASSUME FamInv, [Next]_vars PROVE ShutStep
  <2>1. CASE UNCHANGED shut_down
    BY <2>1 DEF ShutStep
  <2>2. ASSUME NEW c \in Custodian, Shutdown(c)
        PROVE  ShutStep
    BY <1>3, <2>2, ShutSteps
  <2>3. ASSUME NEW c \in Custodian, MakeCustodian(c) \/ Lose(c) \/ Collect(c)
        PROVE  UNCHANGED shut_down
    BY <2>3 DEF MakeCustodian, Lose, Collect
  <2>4. ASSUME NEW c \in Custodian, NEW t \in Thread, MakeThread(t, c) \/ ResumeUnder(t, c)
        PROVE  UNCHANGED shut_down
    BY <2>4 DEF MakeThread, ResumeUnder
  <2>5. ASSUME NEW t \in Thread, KillThread(t) \/ End(t) \/ ThreadSuspend(t) \/ ThreadResume(t)
        PROVE  UNCHANGED shut_down
    BY <2>5 DEF KillThread, End, ThreadSuspend, ThreadResume
  <2>6. ASSUME NEW t \in Thread, NEW to \in Thread, ResumeWith(t, to)
        PROVE  UNCHANGED shut_down
    BY <2>6 DEF ResumeWith
  <2>7. QED BY <1>3, <2>1, <2>2, <2>3, <2>4, <2>5, <2>6 DEF Next, vars
<1>4. FamInv /\ [Next]_vars
        => [\A c \in shut_down' \ shut_down : \A t \in Thread : Alive(t) =>
              LET left == ToSet(managers[t]) \ (Below(c) \cup {Null}) IN
              IF left = {} THEN life'[t] \notin {"running"}
              ELSE life'[t] = life[t] /\ ToSet(managers'[t]) = left]_vars
  BY <1>3 DEF ShutStep
<1>5. QED BY <1>1, <1>2, <1>4, PTL DEF Spec, ShutdownReaches
==============================================================================
