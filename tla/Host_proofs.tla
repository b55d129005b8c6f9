------------------------------ MODULE Host_proofs -----------------------------
EXTENDS MCHost, Sublists, SequenceTheorems, FiniteSetTheorems, TLAPS

-----------------------------------------------------------------------------
(* Numbers: a property of sets of numbers in place of one of predicates.     *)

LEMMA LeastNumber ==
  ASSUME NEW W \in SUBSET Nat, W # {}
  PROVE  \E m \in W : \A k \in W : m <= k
<1>1. PICK n \in W : TRUE
  OBVIOUS
<1> DEFINE S == 0..n
           R == StrictSubsetOrdering(S)
           T == {0..m : m \in {k \in W : k <= n}}
<1>2. IsFiniteSet(S)
  BY <1>1, FS_Interval
<1>3. IsWellFoundedOn(R, FiniteSubsetsOf(S))
  BY FS_StrictSubsetOrderingWellFounded
<1>4. T \subseteq FiniteSubsetsOf(S)
  <2>1. T \subseteq SUBSET S
    BY <1>1
  <2>2. QED BY <2>1, <1>2, FS_FiniteSubsetsOfFinite
<1>5. T # {}
  BY <1>1
<1>6. PICK x \in T : \A y \in T : ~ (<<y, x>> \in R)
  <2> HIDE DEF R, T
  <2>1. QED BY <1>3, <1>4, <1>5, WFMin
<1>7. PICK m \in W : m <= n /\ x = 0..m
  BY <1>6
<1>8. \A k \in W : m <= k
  <2> SUFFICES ASSUME NEW k \in W, k < m PROVE FALSE
    OBVIOUS
  <2>1. 0..k \in T
    BY <1>7, <1>1
  <2>2. 0..k \subseteq x /\ 0..k # x /\ 0..k \in SUBSET S /\ x \in SUBSET S
    BY <1>7, <1>1
  <2>3. <<0..k, x>> \in R
    BY <2>2, Zenon DEF StrictSubsetOrdering
  <2>4. QED BY <2>1, <2>3, <1>6
<1>9. QED BY <1>7, <1>8

\* What holds at 0, and after n if it holds at n, holds up to N.
LEMMA InductionTo ==
  ASSUME NEW N \in Nat, NEW G, 0 \in G, \A n \in 0..N : n \in G /\ n < N => n + 1 \in G
  PROVE  0..N \subseteq G
<1> SUFFICES ASSUME 0..N \ G # {} PROVE FALSE
  OBVIOUS
<1>1. PICK m \in 0..N \ G : \A k \in 0..N \ G : m <= k
  <2>1. 0..N \ G \in SUBSET Nat
    OBVIOUS
  <2>2. QED BY <2>1, LeastNumber
<1>2. m # 0 /\ m - 1 \in 0..N /\ m - 1 < N /\ (m - 1) + 1 = m
  BY <1>1
<1>3. m - 1 \in G
  BY <1>1, <1>2
<1>4. QED BY <1>1, <1>2, <1>3

-----------------------------------------------------------------------------
(* Sublists.  upto[k] is the sublist of the first k entries.                 *)

Built(upto, s, S) ==
  upto = [k \in 0..Len(s) |->
            IF k = 0 THEN <<>>
            ELSE IF s[k] \in S THEN Append(upto[k - 1], s[k]) ELSE upto[k - 1]]

LEMMA SublistBuilt ==
  ASSUME NEW X, NEW s \in Seq(X), NEW S
  PROVE  \E upto : Built(upto, s, S) /\ Sublist(s, S) = upto[Len(s)]
<1> DEFINE N == Len(s)
           Is(f, n) == f = [k \in 0..n |->
                              IF k = 0 THEN <<>>
                              ELSE IF s[k] \in S THEN Append(f[k - 1], s[k]) ELSE f[k - 1]]
           G == {n \in 0..N : \E f : Is(f, n)}
<1>1. N \in Nat
  OBVIOUS
<1>2. 0 \in G
  <2>1. Is([k \in 0..0 |-> <<>>], 0)
    OBVIOUS
  <2>2. 0 \in 0..N
    BY <1>1
  <2>3. QED BY <2>1, <2>2, Zenon
<1>3. \A n \in 0..N : n \in G /\ n < N => n + 1 \in G
  <2> SUFFICES ASSUME NEW n \in 0..N, n < N, NEW f, Is(f, n) PROVE n + 1 \in G
    OBVIOUS
  <2> DEFINE g == [k \in 0..n + 1 |->
                     IF k = n + 1 THEN IF s[k] \in S THEN Append(f[n], s[k]) ELSE f[n] ELSE f[k]]
  <2>1. \A k \in 0..n : f[k] = IF k = 0 THEN <<>>
                               ELSE IF s[k] \in S THEN Append(f[k - 1], s[k]) ELSE f[k - 1]
    BY Zenon
  <2>2. \A k \in 0..n + 1 : g[k] = IF k = 0 THEN <<>>
                                   ELSE IF s[k] \in S THEN Append(g[k - 1], s[k]) ELSE g[k - 1]
    <3> TAKE k \in 0..n + 1
    <3>1. CASE k = n + 1
      <4>1. n + 1 \in 0..n + 1 /\ n \in 0..n + 1 /\ n # n + 1 /\ n + 1 # 0 /\ (n + 1) - 1 = n
        OBVIOUS
      <4>2. g[n + 1] = (IF s[n + 1] \in S THEN Append(f[n], s[n + 1]) ELSE f[n]) /\ g[n] = f[n]
        BY <4>1, Zenon
      <4> HIDE DEF g
      <4>3. QED BY <3>1, <4>1, <4>2, Zenon
    <3>2. CASE k # n + 1
      <4>1. k \in 0..n /\ (k # 0 => k - 1 \in 0..n)
        BY <3>2
      <4>2. g[k] = f[k] /\ (k # 0 => g[k - 1] = f[k - 1])
        BY <4>1
      <4>3. QED BY <2>1, <4>1, <4>2
    <3>3. QED BY <3>1, <3>2
  <2>3. Is(g, n + 1)
    <3>1. g = [k \in 0..n + 1 |-> g[k]]
      OBVIOUS
    <3> HIDE DEF g
    <3>2. QED BY <3>1, <2>2
  <2>4. n + 1 \in 0..N
    OBVIOUS
  <2>5. QED BY <2>3, <2>4
<1>4. \E f : Is(f, N)
  <2> HIDE DEF G
  <2>1. 0..N \subseteq G
    BY <1>1, <1>2, <1>3, InductionTo
  <2>2. N \in 0..N
    BY <1>1
  <2>3. QED BY <2>1, <2>2 DEF G
<1> DEFINE upto[k \in 0..N] == IF k = 0 THEN <<>>
                               ELSE IF s[k] \in S THEN Append(upto[k - 1], s[k]) ELSE upto[k - 1]
<1>5. Sublist(s, S) = upto[N]
  BY DEF Sublist
<1>6. Is(upto, N)
  BY <1>4
<1>7. Built(upto, s, S)
  BY <1>6 DEF Built
<1> HIDE DEF upto
<1>8. QED BY <1>5, <1>7

\* The entries of a sublist stand in it in the order that they have in the list.
Picks(e, r, s, S, n) ==
  /\ e \in [1..Len(r) -> 1..n]
  /\ \A k \in 1..Len(r) : r[k] = s[e[k]] /\ r[k] \in S
  /\ \A j, k \in 1..Len(r) : j < k => e[j] < e[k]
  /\ \A m \in 1..n : s[m] \in S => \E k \in 1..Len(r) : e[k] = m

LEMMA SublistPicks ==
  ASSUME NEW X, NEW s \in Seq(X), NEW S
  PROVE  Sublist(s, S) \in Seq(X) /\ \E e : Picks(e, Sublist(s, S), s, S, Len(s))
<1> DEFINE N == Len(s)
<1>1. N \in Nat
  OBVIOUS
<1>2. PICK upto : Built(upto, s, S) /\ Sublist(s, S) = upto[N]
  BY SublistBuilt
<1>3. /\ upto[0] = <<>>
      /\ \A n \in 0..N : n < N => upto[n + 1] = IF s[n + 1] \in S THEN Append(upto[n], s[n + 1]) ELSE upto[n]
  <2>1. \A k \in 0..N : upto[k] = IF k = 0 THEN <<>>
                                 ELSE IF s[k] \in S THEN Append(upto[k - 1], s[k]) ELSE upto[k - 1]
    BY <1>2, Zenon DEF Built
  <2>2. upto[0] = <<>>
    BY <2>1, <1>1
  <2>3. \A n \in 0..N : n < N => n + 1 \in 0..N /\ n + 1 # 0 /\ (n + 1) - 1 = n
    BY <1>1
  <2>4. QED BY <2>1, <2>2, <2>3
<1> DEFINE G == {n \in 0..N : upto[n] \in Seq(X) /\ \E e : Picks(e, upto[n], s, S, n)}
<1>4. 0 \in G
  <2>1. Picks([k \in 1..0 |-> 0], <<>>, s, S, 0)
    BY DEF Picks
  <2>2. 0 \in 0..N /\ upto[0] = <<>> /\ <<>> \in Seq(X)
    BY <1>1, <1>3
  <2>3. QED BY <2>1, <2>2, Zenon
<1>5. \A n \in 0..N : n \in G /\ n < N => n + 1 \in G
  <2> SUFFICES ASSUME NEW n \in 0..N, n < N, upto[n] \in Seq(X), NEW e, Picks(e, upto[n], s, S, n)
               PROVE  upto[n + 1] \in Seq(X) /\ \E d : Picks(d, upto[n + 1], s, S, n + 1)
    OBVIOUS
  <2> DEFINE r == upto[n]
  <2>1. n + 1 \in 1..N /\ s[n + 1] \in X /\ r \in Seq(X)
    BY <1>1
  <2>2. CASE s[n + 1] \notin S
    <3>1. upto[n + 1] = r
      BY <1>3, <2>2
    <3>2. Picks(e, r, s, S, n + 1)
      BY <2>2, <2>1 DEF Picks
    <3>3. QED BY <3>1, <3>2, <2>1
  <2>3. CASE s[n + 1] \in S
    <3> DEFINE q == Append(r, s[n + 1])
               d == [k \in 1..Len(r) + 1 |-> IF k = Len(r) + 1 THEN n + 1 ELSE e[k]]
    <3>1. upto[n + 1] = q
      BY <1>3, <2>3
    <3> HIDE DEF r
    <3>2. q \in Seq(X) /\ Len(q) = Len(r) + 1 /\ q[Len(r) + 1] = s[n + 1] /\ \A k \in 1..Len(r) : q[k] = r[k]
      BY <2>1
    <3>3. /\ e \in [1..Len(r) -> 1..n]
          /\ \A k \in 1..Len(r) : r[k] = s[e[k]] /\ r[k] \in S
          /\ \A j, k \in 1..Len(r) : j < k => e[j] < e[k]
          /\ \A m \in 1..n : s[m] \in S => \E k \in 1..Len(r) : e[k] = m
      BY DEF Picks, r
    <3>4. Len(r) \in Nat /\ n \in Nat
      BY <2>1
    <3> HIDE DEF q
    <3>5. d \in [1..Len(q) -> 1..n + 1]
      BY <3>2, <3>3, <3>4
    <3>6. \A k \in 1..Len(r) : d[k] = e[k]
      BY <3>4
    <3>7. d[Len(r) + 1] = n + 1
      BY <3>4
    <3> HIDE DEF d
    <3>8. \A k \in 1..Len(q) : k \in 1..Len(r) \/ k = Len(r) + 1
      BY <3>2, <3>4
    <3>9. \A k \in 1..Len(q) : q[k] = s[d[k]] /\ q[k] \in S
      BY <3>2, <3>3, <3>6, <3>7, <3>8, <2>3
    <3>10. \A j, k \in 1..Len(q) : j < k => d[j] < d[k]
      <4> SUFFICES ASSUME NEW j \in 1..Len(q), NEW k \in 1..Len(q), j < k PROVE d[j] < d[k]
        OBVIOUS
      <4>1. j \in 1..Len(r)
        BY <3>2, <3>4
      <4>2. d[j] = e[j] /\ e[j] \in 1..n
        BY <4>1, <3>6, <3>3
      <4>3. CASE k = Len(r) + 1
        BY <4>2, <4>3, <3>7, <3>4
      <4>4. CASE k \in 1..Len(r)
        BY <4>1, <4>2, <4>4, <3>6, <3>3
      <4>5. QED BY <4>3, <4>4, <3>8
    <3>11. \A m \in 1..n + 1 : s[m] \in S => \E k \in 1..Len(q) : d[k] = m
      <4> SUFFICES ASSUME NEW m \in 1..n + 1, s[m] \in S PROVE \E k \in 1..Len(q) : d[k] = m
        OBVIOUS
      <4>1. CASE m = n + 1
        BY <4>1, <3>2, <3>4, <3>7
      <4>2. CASE m \in 1..n
        <5>1. PICK k \in 1..Len(r) : e[k] = m
          BY <4>2, <3>3
        <5>2. QED BY <5>1, <3>2, <3>4, <3>6
      <4>3. QED BY <4>1, <4>2, <3>4
    <3>12. Picks(d, q, s, S, n + 1)
      BY <3>5, <3>9, <3>10, <3>11 DEF Picks
    <3>13. QED BY <3>1, <3>2, <3>12
  <2>4. QED BY <2>2, <2>3
<1>6. N \in G
  <2> HIDE DEF G
  <2>1. 0..N \subseteq G
    BY <1>1, <1>4, <1>5, InductionTo
  <2>2. N \in 0..N
    BY <1>1
  <2>3. QED BY <2>1, <2>2
<1>7. QED BY <1>6, <1>2

\* The entries of a sublist, and its first one.
MembersOf(r, s, S) ==
  /\ \A k \in 1..Len(r) : r[k] \in S /\ \E m \in 1..Len(s) : r[k] = s[m]
  /\ \A m \in 1..Len(s) : s[m] \in S => \E k \in 1..Len(r) : s[m] = r[k]
  /\ s # <<>> /\ s[1] \in S => r # <<>> /\ r[1] = s[1]

LEMMA SublistMembers ==
  ASSUME NEW X, NEW s \in Seq(X), NEW S, NEW r, r = Sublist(s, S)
  PROVE  r \in Seq(X) /\ MembersOf(r, s, S)
<1>1. r \in Seq(X) /\ Len(r) \in Nat /\ Len(s) \in Nat
  BY SublistPicks
<1>2. PICK e : Picks(e, r, s, S, Len(s))
  BY SublistPicks
<1>3. \A k \in 1..Len(r) : r[k] \in S /\ \E m \in 1..Len(s) : r[k] = s[m]
  <2> TAKE k \in 1..Len(r)
  <2>1. e[k] \in 1..Len(s) /\ r[k] = s[e[k]] /\ r[k] \in S
    BY <1>2 DEF Picks
  <2>2. QED BY <2>1
<1>4. \A m \in 1..Len(s) : s[m] \in S => \E k \in 1..Len(r) : s[m] = r[k]
  <2> SUFFICES ASSUME NEW m \in 1..Len(s), s[m] \in S PROVE \E k \in 1..Len(r) : s[m] = r[k]
    OBVIOUS
  <2>1. PICK k \in 1..Len(r) : e[k] = m
    BY <1>2 DEF Picks
  <2>2. r[k] = s[e[k]]
    BY <1>2 DEF Picks
  <2>3. QED BY <2>1, <2>2
<1>5. ASSUME s # <<>>, s[1] \in S PROVE r # <<>> /\ r[1] = s[1]
  <2>1. 1 \in 1..Len(s)
    BY <1>5
  <2>2. PICK k \in 1..Len(r) : e[k] = 1
    BY <2>1, <1>2, <1>5 DEF Picks
  <2>3. 1 \in 1..Len(r) /\ e[1] \in 1..Len(s) /\ (1 < k => e[1] < e[k])
    BY <2>2, <1>1, <1>2 DEF Picks
  <2>4. k = 1
    BY <2>2, <2>3, <1>1
  <2>5. QED BY <2>2, <2>4, <1>1, <1>2 DEF Picks
<1>6. QED BY <1>1, <1>3, <1>4, <1>5 DEF MembersOf

-----------------------------------------------------------------------------
(* RunParts: what was shown of a part is its name, if it wrote anything on    *)
(* that stream first, and then all it wrote but what is still in the pipe.    *)

PartEntries == UNION {P!Range(d) : d \in Directories}
PartNames == {e.name : e \in PartEntries}
Chunk == PartNames \X Nat
Pipes == P!Pipes

\* The chunks after the a-th, up to the b-th, of a part's output; its name.
Text(name, a, b) == [k \in 1..b - a |-> <<name, a + k>>]
Title(name, is) == IF is THEN <<<<name, 0>>>> ELSE <<>>
Mine(name, is, b) == Title(name, is) \o Text(name, 0, b)

\* The sublist of a list that ends with all that is in S.
LEMMA SublistTail ==
  ASSUME NEW X, NEW a \in Seq(X), NEW b \in Seq(X), NEW S,
         \A k \in 1..Len(a) : a[k] \notin S, \A k \in 1..Len(b) : b[k] \in S
  PROVE  Sublist(a \o b, S) = b
<1>1. PICK s : s = a \o b
  OBVIOUS
<1> DEFINE m == Len(a)
           n == Len(b)
           N == Len(s)
<1>2. /\ s \in Seq(X) /\ m \in Nat /\ n \in Nat /\ N = m + n
      /\ (\A k \in 1..m : s[k] = a[k]) /\ \A k \in 1..n : s[m + k] = b[k]
  <2>1. s \in Seq(X) /\ Len(s) = Len(a) + Len(b) /\ \A k \in 1..Len(a) + Len(b) : s[k] = IF k <= Len(a) THEN a[k] ELSE b[k - Len(a)]
    BY <1>1, ConcatProperties
  <2>2. m \in Nat /\ n \in Nat
    OBVIOUS
  <2> HIDE DEF m, n
  <2>3. s \in Seq(X) /\ N = m + n /\ \A k \in 1..m + n : s[k] = IF k <= m THEN a[k] ELSE b[k - m]
    BY <2>1 DEF m, n
  <2> HIDE DEF N
  <2>4. \A k \in 1..m : k \in 1..m + n /\ k <= m
    BY <2>2
  <2>5. \A k \in 1..n : m + k \in 1..m + n /\ ~ (m + k <= m) /\ (m + k) - m = k
    BY <2>2
  <2>6. QED BY <2>2, <2>3, <2>4, <2>5
<1>3. PICK upto : Built(upto, s, S) /\ Sublist(s, S) = upto[N]
  BY <1>2, SublistBuilt
<1>4. \A k \in 0..N : upto[k] = IF k = 0 THEN <<>> ELSE IF s[k] \in S THEN Append(upto[k - 1], s[k]) ELSE upto[k - 1]
  BY <1>3, Zenon DEF Built
<1>5. (\A k \in 1..m : s[k] \notin S) /\ \A k \in 1..n : s[m + k] \in S
  BY <1>2
<1> HIDE DEF m, n, N
<1> DEFINE G == {k \in 0..N : /\ k <= m => upto[k] = <<>>
                              /\ k >= m => /\ upto[k] \in Seq(X) /\ Len(upto[k]) = k - m
                                           /\ \A j \in 1..k - m : upto[k][j] = b[j]}
<1> HIDE DEF G
<1>6. 0 \in G
  <2>0. 0 \in 0..N
    <3>1. N \in Nat
      BY <1>2
    <3>2. QED BY <3>1
  <2>1. upto[0] = <<>> /\ 0 \in 0..N
    <3>1. upto[0] = IF 0 = 0 THEN <<>> ELSE IF s[0] \in S THEN Append(upto[0 - 1], s[0]) ELSE upto[0 - 1]
      BY <1>4, <2>0, Zenon
    <3>2. QED BY <2>0, <3>1, Zenon
  <2>2. 0 >= m => 0 - m = 0
    BY <1>2
  <2>3. <<>> \in Seq(X) /\ Len(<<>>) = 0 /\ 1..0 = {}
    OBVIOUS
  <2>4. 0 >= m => upto[0] \in Seq(X) /\ Len(upto[0]) = 0 - m /\ \A j \in 1..0 - m : upto[0][j] = b[j]
    BY <2>1, <2>2, <2>3
  <2>5. QED BY <2>1, <2>4 DEF G
<1>7. \A k \in 0..N : k \in G /\ k < N => k + 1 \in G
  <2> SUFFICES ASSUME NEW k \in 0..N, k \in G, k < N PROVE k + 1 \in G
    OBVIOUS
  <2>1. k + 1 \in 0..N /\ k + 1 # 0 /\ (k + 1) - 1 = k /\ k \in Nat
    BY <1>2
  <2>2. upto[k + 1] = IF s[k + 1] \in S THEN Append(upto[k], s[k + 1]) ELSE upto[k]
    BY <1>4, <2>1
  <2>3. CASE k < m
    <3>1. s[k + 1] \notin S /\ upto[k] = <<>>
      BY <1>2, <1>5, <2>1, <2>3 DEF G
    <3>2. upto[k + 1] = <<>>
      BY <2>2, <3>1
    <3>3. k + 1 >= m => (k + 1) - m = 0
      BY <2>1, <2>3, <1>2
    <3>4. <<>> \in Seq(X) /\ Len(<<>>) = 0 /\ 1..0 = {}
      OBVIOUS
    <3>5. k + 1 >= m => /\ upto[k + 1] \in Seq(X) /\ Len(upto[k + 1]) = (k + 1) - m
                        /\ \A j \in 1..(k + 1) - m : upto[k + 1][j] = b[j]
      BY <3>2, <3>3, <3>4
    <3>6. QED BY <2>1, <3>2, <3>5 DEF G
  <2>4. CASE k >= m
    <3>0. upto[k] \in Seq(X) /\ Len(upto[k]) = k - m /\ \A j \in 1..k - m : upto[k][j] = b[j]
      BY <2>4 DEF G
    <3> DEFINE j == k - m
               u == upto[k]
    <3>1. j \in Nat /\ j + 1 \in 1..n /\ k + 1 = m + (j + 1) /\ (k + 1) - m = j + 1 /\ ~ (k + 1 <= m)
      BY <2>1, <2>4, <1>2
    <3>2. s[k + 1] = b[j + 1] /\ s[k + 1] \in S /\ b[j + 1] \in X
      <4>1. k + 1 \in 1..Len(s)
        BY <2>1 DEF N
      <4>2. s[k + 1] \in X
        BY <4>1, <1>2
      <4>3. QED BY <3>1, <4>2, <1>2, <1>5
    <3>3. u \in Seq(X) /\ Len(u) = j /\ \A o \in 1..j : u[o] = b[o]
      BY <3>0
    <3>4. upto[k + 1] = Append(u, b[j + 1])
      BY <2>2, <3>2
    <3> HIDE DEF j, u
    <3>5. upto[k + 1] \in Seq(X) /\ Len(upto[k + 1]) = j + 1 /\ \A o \in 1..j + 1 : upto[k + 1][o] = b[o]
      BY <3>1, <3>2, <3>3, <3>4
    <3>6. QED BY <2>1, <3>1, <3>5 DEF G
  <2>5. QED BY <2>1, <2>3, <2>4, <1>2
<1>8. N \in G
  <2>1. N \in Nat /\ N \in 0..N
    BY <1>2
  <2>2. 0..N \subseteq G
    BY <2>1, <1>6, <1>7, InductionTo
  <2>3. QED BY <2>1, <2>2
<1>9. upto[N] \in Seq(X) /\ Len(upto[N]) = n /\ \A j \in 1..n : upto[N][j] = b[j]
  <2>1. N >= m /\ N - m = n
    BY <1>2
  <2>2. QED BY <2>1, <1>8 DEF G
<1>10. upto[N] = b
  BY <1>9, SeqEqual DEF n
<1>11. QED BY <1>1, <1>3, <1>10

LEMMA TextFacts ==
  ASSUME NEW name \in PartNames, NEW a \in Nat, NEW b \in Nat, a <= b
  PROVE  /\ Text(name, a, b) \in Seq(Chunk) /\ Len(Text(name, a, b)) = b - a
         /\ \A k \in 1..b - a : Text(name, a, b)[k] = <<name, a + k>>
<1>1. b - a \in Nat
  OBVIOUS
<1>2. \A k \in 1..b - a : <<name, a + k>> \in Chunk
  BY DEF Chunk
<1>3. QED BY <1>1, <1>2 DEF Text

LEMMA FirstText ==
  ASSUME NEW name \in PartNames, NEW b \in Nat
  PROVE  Text(name, 0, b) \in Seq(Chunk) /\ Len(Text(name, 0, b)) = b /\ \A k \in 1..b : Text(name, 0, b)[k] = <<name, k>>
<1>1. 0 \in Nat /\ 0 <= b /\ b - 0 = b /\ \A k \in 1..b : 0 + k = k
  OBVIOUS
<1>2. Text(name, 0, b) \in Seq(Chunk) /\ Len(Text(name, 0, b)) = b - 0
      /\ \A k \in 1..b - 0 : Text(name, 0, b)[k] = <<name, 0 + k>>
  BY <1>1, TextFacts
<1>3. QED BY <1>1, <1>2

LEMMA TitleFacts ==
  ASSUME NEW name \in PartNames, NEW is \in BOOLEAN
  PROVE  Title(name, is) \in Seq(Chunk)
<1>1. <<name, 0>> \in Chunk
  BY DEF Chunk
<1>2. QED BY <1>1 DEF Title

\* A chunk is written, and the chunks that are in a pipe are read.
LEMMA TextGrows ==
  ASSUME NEW name \in PartNames, NEW a \in Nat, NEW b \in Nat, a <= b
  PROVE  Append(Text(name, a, b), <<name, b + 1>>) = Text(name, a, b + 1)
<1>1. PICK t : t = Text(name, a, b)
  OBVIOUS
<1>2. PICK u : u = Text(name, a, b + 1)
  OBVIOUS
<1>3. t \in Seq(Chunk) /\ Len(t) = b - a /\ \A k \in 1..b - a : t[k] = <<name, a + k>>
  BY <1>1, TextFacts
<1>4. u \in Seq(Chunk) /\ Len(u) = b + 1 - a /\ \A k \in 1..b + 1 - a : u[k] = <<name, a + k>>
  <2>1. b + 1 \in Nat /\ a <= b + 1
    OBVIOUS
  <2>2. \A c \in Nat : a <= c => /\ Text(name, a, c) \in Seq(Chunk) /\ Len(Text(name, a, c)) = c - a
                                 /\ \A k \in 1..c - a : Text(name, a, c)[k] = <<name, a + k>>
    BY TextFacts
  <2>3. PICK c \in Nat : c = b + 1
    BY <2>1
  <2>4. u = Text(name, a, c) /\ a <= c
    BY <1>2, <2>1, <2>3
  <2>5. u \in Seq(Chunk) /\ Len(u) = c - a /\ \A k \in 1..c - a : u[k] = <<name, a + k>>
    BY <2>2, <2>4, Zenon
  <2>6. QED BY <2>3, <2>5
<1>5. <<name, b + 1>> \in Chunk
  BY DEF Chunk
<1>6. PICK v : v = Append(t, <<name, b + 1>>)
  OBVIOUS
<1>7. v \in Seq(Chunk) /\ Len(v) = b - a + 1 /\ v[b - a + 1] = <<name, b + 1>> /\ \A k \in 1..b - a : v[k] = t[k]
  <2> DEFINE n == b - a
  <2>1. n \in Nat
    OBVIOUS
  <2>2. Len(t) = n
    BY <1>3
  <2> HIDE DEF n
  <2>3. v \in Seq(Chunk) /\ Len(v) = n + 1 /\ v[n + 1] = <<name, b + 1>> /\ \A k \in 1..n : v[k] = t[k]
    BY <1>3, <1>5, <1>6, <2>1, <2>2
  <2>4. QED BY <2>3 DEF n
<1>8. \A k \in 1..b - a + 1 : k \in 1..b - a \/ (k = b - a + 1 /\ a + k = b + 1)
  OBVIOUS
<1>9. b - a + 1 = b + 1 - a
  OBVIOUS
<1>10. \A k \in 1..Len(v) : v[k] = u[k]
  BY <1>3, <1>4, <1>7, <1>8, <1>9
<1>11. v = u
  BY <1>4, <1>7, <1>9, <1>10, SeqEqual
<1>12. QED BY <1>1, <1>2, <1>6, <1>11

LEMMA TextJoins ==
  ASSUME NEW name \in PartNames, NEW a \in Nat, NEW b \in Nat, a <= b
  PROVE  Text(name, 0, a) \o Text(name, a, b) = Text(name, 0, b)
<1>1. PICK t : t = Text(name, 0, a)
  OBVIOUS
<1>2. PICK u : u = Text(name, a, b)
  OBVIOUS
<1>3. PICK v : v = Text(name, 0, b)
  OBVIOUS
<1>4. PICK w : w = t \o u
  OBVIOUS
<1>5. t \in Seq(Chunk) /\ Len(t) = a /\ \A k \in 1..a : t[k] = <<name, k>>
  BY <1>1, FirstText
<1>6. u \in Seq(Chunk) /\ Len(u) = b - a /\ \A k \in 1..b - a : u[k] = <<name, a + k>>
  BY <1>2, TextFacts
<1>7. v \in Seq(Chunk) /\ Len(v) = b /\ \A k \in 1..b : v[k] = <<name, k>>
  BY <1>3, FirstText
<1>8. w \in Seq(Chunk) /\ Len(w) = Len(t) + Len(u) /\ \A k \in 1..Len(t) + Len(u) : w[k] = IF k <= Len(t) THEN t[k] ELSE u[k - Len(t)]
  BY <1>4, <1>5, <1>6, ConcatProperties
<1>9. a + (b - a) = b
  OBVIOUS
<1>10. w \in Seq(Chunk) /\ Len(w) = b /\ \A k \in 1..b : w[k] = IF k <= a THEN t[k] ELSE u[k - a]
  BY <1>5, <1>6, <1>8, <1>9
<1>11. \A k \in 1..b : IF k <= a THEN k \in 1..a ELSE k - a \in 1..b - a /\ a + (k - a) = k
  OBVIOUS
<1>12. \A k \in 1..b : w[k] = v[k]
  BY <1>5, <1>6, <1>7, <1>10, <1>11
<1>13. w = v
  BY <1>7, <1>10, <1>12, SeqEqual
<1>14. QED BY <1>1, <1>2, <1>3, <1>4, <1>13

\* The name is shown before the first of the chunks.
Grows(name, a, b, was, is, old) ==
  (old \o Mine(name, was, a)) \o Title(name, is) \o Text(name, a, b) = old \o Mine(name, was \/ is, b)
LEMMA MineGrows ==
  ASSUME NEW name \in PartNames, NEW a \in Nat, NEW b \in Nat, a <= b, NEW was \in BOOLEAN, NEW is \in BOOLEAN,
         is => ~ was /\ a = 0, NEW old \in Seq(Chunk)
  PROVE  Grows(name, a, b, was, is, old)
<1> USE DEF Grows
<1>1. Title(name, was) \in Seq(Chunk) /\ Title(name, is) \in Seq(Chunk)
  BY TitleFacts
<1>2. Text(name, 0, a) \in Seq(Chunk) /\ Text(name, a, b) \in Seq(Chunk)
  BY TextFacts, FirstText
<1>3. Mine(name, was, a) \in Seq(Chunk)
  BY <1>1, <1>2, ConcatProperties DEF Mine
<1>0. \A s, t, u \in Seq(Chunk) : (s \o t) \o u = s \o (t \o u)
  <2> TAKE s, t, u \in Seq(Chunk)
  <2>1. QED BY ConcatAssociative, SMTT(30)
<1>4. CASE is
  <2>1. Text(name, 0, a) = <<>>
    BY <1>4, FirstText
  <2>2. Title(name, was) = <<>>
    BY <1>4 DEF Title
  <2>3. Mine(name, was, a) = <<>>
    BY <1>2, <2>1, <2>2, ConcatEmptySeq DEF Mine
  <2>4. (old \o Mine(name, was, a)) = old
    BY <2>3, ConcatEmptySeq
  <2>5. (old \o Title(name, is)) \o Text(name, a, b) = old \o (Title(name, is) \o Text(name, a, b))
    BY <1>1, <1>2, <1>0, Zenon
  <2>6. Title(name, is) \o Text(name, a, b) = Mine(name, was \/ is, b)
    BY <1>4 DEF Mine
  <2>7. QED BY <1>3, <2>4, <2>5, <2>6
<1>5. CASE ~ is
  <2>1. Title(name, is) = <<>>
    BY <1>5 DEF Title
  <2>2. old \o Mine(name, was, a) \in Seq(Chunk)
    BY <1>3, ConcatProperties
  <2>3. (old \o Mine(name, was, a)) \o Title(name, is) = old \o Mine(name, was, a)
    BY <2>1, <2>2, ConcatEmptySeq
  <2>4. (old \o Mine(name, was, a)) \o Text(name, a, b) = old \o (Mine(name, was, a) \o Text(name, a, b))
    BY <1>2, <1>3, <1>0, Zenon
  <2>5. Mine(name, was, a) \o Text(name, a, b) = Title(name, was) \o (Text(name, 0, a) \o Text(name, a, b))
    <3>1. Mine(name, was, a) = Title(name, was) \o Text(name, 0, a)
      BY DEF Mine
    <3>2. (Title(name, was) \o Text(name, 0, a)) \o Text(name, a, b) = Title(name, was) \o (Text(name, 0, a) \o Text(name, a, b))
      BY <1>1, <1>2, <1>0, ZenonT(40)
    <3>3. QED BY <3>1, <3>2, Zenon
  <2>6. Text(name, 0, a) \o Text(name, a, b) = Text(name, 0, b)
    BY TextJoins
  <2>7. (was \/ is) = was
    BY <1>5
  <2>8. QED BY <1>3, <2>3, <2>4, <2>5, <2>6, <2>7 DEF Mine
<1>6. QED BY <1>4, <1>5

-----------------------------------------------------------------------------
(* The names of chunks.  Firsts(s, N): the chunks of s are of parts in N.     *)

Firsts(s, N) == \A k \in 1..Len(s) : s[k][1] \in N

LEMMA ConcatFirsts ==
  ASSUME NEW X, NEW a \in Seq(X), NEW b \in Seq(X), NEW N, Firsts(a, N), Firsts(b, N)
  PROVE  a \o b \in Seq(X) /\ Firsts(a \o b, N)
<1>1. PICK s : s = a \o b
  OBVIOUS
<1>2. s \in Seq(X) /\ Len(s) = Len(a) + Len(b)
      /\ \A k \in 1..Len(a) + Len(b) : s[k] = IF k <= Len(a) THEN a[k] ELSE b[k - Len(a)]
  BY <1>1, ConcatProperties
<1>3. \A k \in 1..Len(a) + Len(b) : IF k <= Len(a) THEN k \in 1..Len(a) ELSE k - Len(a) \in 1..Len(b)
  OBVIOUS
<1>4. Firsts(s, N)
  BY <1>2, <1>3 DEF Firsts
<1>5. QED BY <1>1, <1>2, <1>4

LEMMA MineFirsts ==
  ASSUME NEW N, NEW name \in PartNames, name \in N, NEW is \in BOOLEAN, NEW a \in Nat, NEW b \in Nat, a <= b
  PROVE  /\ Firsts(Title(name, is), N) /\ Firsts(Text(name, a, b), N)
         /\ Mine(name, is, b) \in Seq(Chunk) /\ Firsts(Mine(name, is, b), N)
<1>1. Firsts(Title(name, is), N)
  BY DEF Firsts, Title
<1>2. Firsts(Text(name, a, b), N)
  <2>1. PICK t : t = Text(name, a, b)
    OBVIOUS
  <2>2. Len(t) = b - a /\ \A k \in 1..b - a : t[k] = <<name, a + k>>
    BY <2>1, TextFacts, Zenon
  <2>3. Firsts(t, N)
    BY <2>2 DEF Firsts
  <2>4. QED BY <2>1, <2>3
<1>3. Text(name, 0, b) \in Seq(Chunk) /\ Firsts(Text(name, 0, b), N)
  <2>1. PICK t : t = Text(name, 0, b)
    OBVIOUS
  <2>2. t \in Seq(Chunk) /\ Len(t) = b /\ \A k \in 1..b : t[k] = <<name, k>>
    BY <2>1, FirstText, Zenon
  <2>3. Firsts(t, N)
    BY <2>2 DEF Firsts
  <2>4. QED BY <2>1, <2>2, <2>3
<1>4. QED BY <1>1, <1>2, <1>3, TitleFacts, ConcatFirsts DEF Mine

\* What is shown of a part, and the chunks of that.
LEMMA MineIsOf ==
  ASSUME NEW name \in PartNames, NEW is \in BOOLEAN, NEW b \in Nat, NEW old \in Seq(Chunk),
         \A k \in 1..Len(old) : old[k][1] # name
  PROVE  /\ P!Of(old \o Mine(name, is, b), name) = Mine(name, is, b)
         /\ P!Chunks(Mine(name, is, b)) = [k \in 1..b |-> <<name, k>>]
<1>0. \A s, S : P!Sublist(s, S) = Sublist(s, S)
  BY DEF P!Sublist, Sublist
<1>1. PICK mine : mine = Mine(name, is, b)
  OBVIOUS
<1>2. PICK s : s = old \o mine
  OBVIOUS
<1>3. mine \in Seq(Chunk) /\ \A k \in 1..Len(mine) : mine[k][1] = name
  <2>1. 0 \in Nat /\ 0 <= b /\ name \in {name}
    OBVIOUS
  <2>2. Mine(name, is, b) \in Seq(Chunk) /\ Firsts(Mine(name, is, b), {name})
    BY <2>1, MineFirsts
  <2>3. QED BY <2>2, <1>1 DEF Firsts
<1>4. \A k \in 1..Len(mine) : mine[k] \in P!Range(s)
  <2> SUFFICES ASSUME NEW k \in 1..Len(mine) PROVE mine[k] \in P!Range(s)
    OBVIOUS
  <2>1. Len(s) = Len(old) + Len(mine) /\ \A j \in 1..Len(old) + Len(mine) : s[j] = IF j <= Len(old) THEN old[j] ELSE mine[j - Len(old)]
    BY <1>2, <1>3, ConcatProperties
  <2>2. Len(old) + k \in 1..Len(old) + Len(mine) /\ ~ (Len(old) + k <= Len(old)) /\ (Len(old) + k) - Len(old) = k
    BY <1>3
  <2>3. s[Len(old) + k] = mine[k] /\ Len(old) + k \in 1..Len(s)
    BY <2>1, <2>2
  <2>4. s \in Seq(Chunk)
    BY <1>2, <1>3, ConcatProperties
  <2>5. DOMAIN s = 1..Len(s)
    BY <2>4
  <2>6. QED BY <2>3, <2>5 DEF P!Range
<1>5. P!Of(s, name) = mine
  <2> DEFINE S == {x \in P!Range(s) : x[1] = name}
  <2>1. \A k \in 1..Len(old) : old[k] \notin S
    OBVIOUS
  <2>2. \A k \in 1..Len(mine) : mine[k] \in S
    BY <1>3, <1>4
  <2>3. P!Of(s, name) = Sublist(s, S)
    BY <1>0 DEF P!Of
  <2> HIDE DEF S
  <2>4. Sublist(old \o mine, S) = mine
    BY <1>3, <2>1, <2>2, SublistTail
  <2>5. QED BY <1>2, <2>3, <2>4
<1>6. P!Chunks(mine) = Text(name, 0, b)
  <2>1. PICK t : t = Title(name, is)
    OBVIOUS
  <2>2. PICK u : u = Text(name, 0, b)
    OBVIOUS
  <2>3. t \in Seq(Chunk) /\ \A k \in 1..Len(t) : t[k][2] = 0
    BY <2>1, TitleFacts DEF Title
  <2>4. u \in Seq(Chunk) /\ Len(u) = b /\ \A k \in 1..b : u[k] = <<name, k>>
    BY <2>2, FirstText
  <2>5. mine = t \o u
    BY <1>1, <2>1, <2>2 DEF Mine
  <2> DEFINE S == {x \in P!Range(mine) : x[2] # 0}
  <2>6. \A k \in 1..Len(t) : t[k] \notin S
    BY <2>3
  <2>7. \A k \in 1..Len(u) : u[k] \in S
    <3> SUFFICES ASSUME NEW k \in 1..Len(u) PROVE u[k] \in S
      OBVIOUS
    <3>1. Len(mine) = Len(t) + Len(u) /\ \A j \in 1..Len(t) + Len(u) : mine[j] = IF j <= Len(t) THEN t[j] ELSE u[j - Len(t)]
      BY <2>3, <2>4, <2>5, ConcatProperties
    <3>2. Len(t) + k \in 1..Len(t) + Len(u) /\ ~ (Len(t) + k <= Len(t)) /\ (Len(t) + k) - Len(t) = k
      BY <2>3, <2>4
    <3>3. mine[Len(t) + k] = u[k] /\ Len(t) + k \in DOMAIN mine
      BY <3>1, <3>2, <1>3
    <3>4. u[k] \in P!Range(mine)
      BY <3>3 DEF P!Range
    <3>5. u[k][2] # 0
      BY <2>4
    <3>6. QED BY <3>4, <3>5
  <2>8. P!Chunks(mine) = Sublist(mine, S)
    BY <1>0 DEF P!Chunks
  <2> HIDE DEF S
  <2>9. Sublist(t \o u, S) = u
    BY <2>3, <2>4, <2>6, <2>7, SublistTail
  <2>10. QED BY <2>2, <2>5, <2>8, <2>9
<1>7. Text(name, 0, b) = [k \in 1..b |-> <<name, k>>]
  <2>1. b - 0 = b /\ \A k \in 1..b : 0 + k = k
    OBVIOUS
  <2>2. Text(name, 0, b) = [k \in 1..b - 0 |-> <<name, 0 + k>>]
    BY DEF Text
  <2>3. QED BY <2>1, <2>2
<1>8. QED BY <1>1, <1>2, <1>5, <1>6, <1>7

\* The name is the first of what is shown of a part, or is not there.
LEMMA MineTitle ==
  ASSUME NEW name \in PartNames, NEW is \in BOOLEAN, NEW b \in Nat
  PROVE  /\ (\E k \in DOMAIN Mine(name, is, b) : Mine(name, is, b)[k][2] = 0) <=> is
         /\ is => Mine(name, is, b)[1][2] = 0 /\ Len(Mine(name, is, b)) = b + 1
<1>1. PICK t : t = Title(name, is)
  OBVIOUS
<1>2. PICK u : u = Text(name, 0, b)
  OBVIOUS
<1>3. PICK s : s = t \o u
  OBVIOUS
<1>4. s = Mine(name, is, b)
  BY <1>1, <1>2, <1>3 DEF Mine
<1>5. t \in Seq(Chunk) /\ (is => Len(t) = 1 /\ t[1] = <<name, 0>>) /\ (~ is => Len(t) = 0)
  BY <1>1, TitleFacts DEF Title
<1>6. u \in Seq(Chunk) /\ Len(u) = b /\ \A k \in 1..b : u[k] = <<name, k>>
  BY <1>2, FirstText
<1>7. s \in Seq(Chunk) /\ Len(s) = Len(t) + Len(u) /\ \A k \in 1..Len(t) + Len(u) : s[k] = IF k <= Len(t) THEN t[k] ELSE u[k - Len(t)]
  BY <1>3, <1>5, <1>6, ConcatProperties
<1>8. DOMAIN s = 1..Len(s)
  BY <1>7
<1>9. CASE is
  <2>0. Len(t) = 1 /\ Len(u) = b /\ Len(s) = Len(t) + Len(u)
    BY <1>5, <1>6, <1>7, <1>9, Zenon
  <2>1. Len(s) = b + 1 /\ 1 \in 1..b + 1
    BY <2>0
  <2>2. s[1] = <<name, 0>>
    <3>1. Len(t) = 1 /\ t[1] = <<name, 0>> /\ Len(u) = b
      BY <1>5, <1>6, <1>9
    <3>2. 1 \in 1..1 + b /\ 1 <= 1
      OBVIOUS
    <3>3. s[1] = t[1]
      BY <1>7, <3>1, <3>2
    <3>4. QED BY <3>1, <3>3
  <2>3. 1 \in DOMAIN s /\ s[1][2] = 0
    BY <1>8, <2>1, <2>2
  <2>4. QED BY <1>4, <1>9, <2>1, <2>3, Zenon
<1>10. CASE ~ is
  <2>1. Len(s) = b /\ \A k \in 1..b : s[k] = u[k - 0]
    BY <1>5, <1>6, <1>7, <1>10
  <2>2. \A k \in 1..b : s[k] = <<name, k>> /\ k # 0
    BY <1>6, <2>1
  <2>3. \A k \in DOMAIN s : s[k][2] # 0
    BY <1>8, <2>1, <2>2
  <2>4. QED BY <1>4, <1>10, <2>3
<1>11. QED BY <1>9, <1>10
-----------------------------------------------------------------------------
(* The invariant of run-parts.                                               *)

Cur == started[Len(started)]

\* The parts that run-parts has come to.
Seen == {namelist[j].name : j \in {k \in 1..Len(namelist) : k < i \/ (partAt # "entry" /\ k = i)}}

PartTyped ==
  /\ namelist \in Seq(PartEntries)
  /\ \A j, k \in 1..Len(namelist) : namelist[j].name = namelist[k].name => j = k
  /\ i \in Nat \ {0} /\ partAt \in {"entry", "read", "wait", "end"} /\ printflag \in BOOLEAN
  /\ part \in [running : BOOLEAN, result : {0, 1}, wrote : [Pipes -> Nat]]
  /\ shown \in [Pipes -> Seq(Chunk)] /\ pipe \in [Pipes -> Seq(Chunk)]
  /\ started \in Seq(PartNames) /\ open \subseteq Pipes
  /\ holders \in [Pipes -> SUBSET {"part", "left"}]

\* A pipe run-parts has closed is empty, and nobody can write to it.
PipesClosed ==
  /\ holders["out"] = holders["err"]
  /\ \A p \in Pipes \ open : pipe[p] = <<>> /\ holders[p] = {}
  /\ partAt # "read" => open = {}

\* The last part that was started is the entry while it is run.
PartIsCur == partAt \in {"read", "wait"} => i <= Len(namelist) /\ started # <<>> /\ Cur = namelist[i].name

ShownSeen == \A p \in Pipes : Firsts(shown[p], Seen)

\* What was shown is old, of other parts, and then what was read of the last
\* part's output: n[p] chunks of pipe p, after its name if p is titled.
Split(old, titled, n) ==
  /\ \A p \in Pipes :
       /\ \A k \in 1..Len(old[p]) : old[p][k][1] # Cur
       /\ shown[p] = old[p] \o Mine(Cur, p \in titled, n[p])
       /\ n[p] <= part.wrote[p] /\ pipe[p] = Text(Cur, n[p], part.wrote[p])
       /\ p \in titled => n[p] > 0
       /\ n[p] > 0 => titled # {}
  /\ \A p, q \in titled : p = q
  /\ printflag <=> titled # {}
ShownSplit ==
  started # <<>> => \E old \in [Pipes -> Seq(Chunk)], titled \in SUBSET Pipes, n \in [Pipes -> Nat] : Split(old, titled, n)

PartsInv == PartTyped /\ PipesClosed /\ PartIsCur /\ ShownSeen /\ ShownSplit

LEMMA PipesFacts == Pipes = {"out", "err"} /\ P!Pipes = {"out", "err"}
BY DEF Pipes, P!Pipes

LEMMA EntryFacts ==
  ASSUME PartTyped
  PROVE  /\ \A k \in 1..Len(namelist) : namelist[k].name \in PartNames
         /\ i <= Len(namelist) => i \in 1..Len(namelist) /\ P!Entry = namelist[i] /\ P!Entry.name \in PartNames
         /\ started # <<>> => Cur \in PartNames
<1>1. \A k \in 1..Len(namelist) : namelist[k] \in PartEntries
  BY DEF PartTyped
<1>2. \A k \in 1..Len(namelist) : namelist[k].name \in PartNames
  BY <1>1 DEF PartNames
<1>3. i <= Len(namelist) => i \in 1..Len(namelist)
  BY DEF PartTyped
<1>4. started # <<>> => Cur \in PartNames
  BY DEF PartTyped, Cur
<1>5. QED BY <1>2, <1>3, <1>4 DEF P!Entry

\* Nothing is shown, written or started.
LEMMA SplitStays ==
  ASSUME ShownSplit, shown' = shown, pipe' = pipe, started' = started, part'.wrote = part.wrote, printflag' = printflag
  PROVE  ShownSplit'
<1> SUFFICES ASSUME started # <<>> PROVE ShownSplit'
  BY DEF ShownSplit
<1>1. PICK old \in [Pipes -> Seq(Chunk)], titled \in SUBSET Pipes, n \in [Pipes -> Nat] : Split(old, titled, n)
  BY DEF ShownSplit
<1>2. Cur' = Cur
  BY DEF Cur
<1>3. Split(old, titled, n)'
  BY <1>1, <1>2 DEF Split
<1>4. QED BY <1>3 DEF ShownSplit

\* What was seen stays so.
LEMMA SeenStays ==
  ASSUME PartTyped, ShownSeen, shown' = shown, namelist' = namelist,
         \A k \in 1..Len(namelist) : k < i \/ (partAt # "entry" /\ k = i) => k < i' \/ (partAt' # "entry" /\ k = i')
  PROVE  ShownSeen'
<1>1. \A x \in Seen : x \in Seen'
  BY DEF Seen
<1>2. QED BY <1>1 DEF ShownSeen, Firsts

LEMMA PartsInvStarts == P!PartsInit => PartsInv
<1> SUFFICES ASSUME P!PartsInit PROVE PartsInv
  OBVIOUS
<1>0. P!PartsAssumption
  BY HostAssumption
<1>1. PICK d \in Directories : namelist = IF "reverse" \in mode THEN P!Reverse(d) ELSE d
  BY DEF P!PartsInit
<1>2. d \in Seq(P!Range(d)) /\ \A j, k \in DOMAIN d : d[j].name = d[k].name => j = k
  BY <1>0 DEF P!PartsAssumption
<1>3. P!Range(d) \subseteq PartEntries
  BY DEF PartEntries
<1>4. \A k \in 1..Len(d) : d[k] \in PartEntries
  BY <1>2, <1>3
<1>5. d \in Seq(PartEntries) /\ DOMAIN d = 1..Len(d) /\ Len(d) \in Nat
  <2>1. DOMAIN d = 1..Len(d) /\ Len(d) \in Nat /\ d = [k \in 1..Len(d) |-> d[k]]
    BY <1>2
  <2>2. QED BY <2>1, <1>4
<1>6. namelist \in Seq(PartEntries) /\ \A j, k \in 1..Len(namelist) : namelist[j].name = namelist[k].name => j = k
  <2>1. CASE "reverse" \in mode
    <3>1. namelist = [k \in 1..Len(d) |-> d[(Len(d) - k) + 1]]
      BY <1>1, <2>1 DEF P!Reverse
    <3>2. \A k \in 1..Len(d) : (Len(d) - k) + 1 \in 1..Len(d)
      BY <1>5
    <3>3. namelist \in Seq(PartEntries) /\ Len(namelist) = Len(d) /\ \A k \in 1..Len(d) : namelist[k] = d[(Len(d) - k) + 1]
      BY <1>4, <1>5, <3>1, <3>2
    <3>4. \A j, k \in 1..Len(d) : d[(Len(d) - j) + 1].name = d[(Len(d) - k) + 1].name => (Len(d) - j) + 1 = (Len(d) - k) + 1
      BY <1>2, <1>5, <3>2
    <3>5. \A j, k \in 1..Len(d) : (Len(d) - j) + 1 = (Len(d) - k) + 1 => j = k
      BY <1>5
    <3>6. \A j, k \in 1..Len(d) : d[(Len(d) - j) + 1].name = d[(Len(d) - k) + 1].name => j = k
      BY <3>4, <3>5, Zenon
    <3>7. ASSUME NEW j \in 1..Len(namelist), NEW k \in 1..Len(namelist), namelist[j].name = namelist[k].name
          PROVE  j = k
      BY <3>3, <3>6, <3>7, Zenon
    <3>8. QED BY <3>3, <3>7, Zenon
  <2>2. CASE "reverse" \notin mode
    BY <1>1, <1>2, <1>5, <2>2
  <2>3. QED BY <2>1, <2>2
<1>7. /\ i = 1 /\ partAt = "entry" /\ printflag = FALSE /\ started = <<>> /\ open = {}
      /\ part = [running |-> FALSE, result |-> 0, wrote |-> [p \in Pipes |-> 0]]
      /\ shown = [p \in Pipes |-> <<>>] /\ pipe = [p \in Pipes |-> <<>>] /\ holders = [p \in Pipes |-> {}]
  BY DEF P!PartsInit, P!NoPart, Pipes
<1>8. PartTyped
  <2>1. part \in [running : BOOLEAN, result : {0, 1}, wrote : [Pipes -> Nat]]
    BY <1>7
  <2>2. <<>> \in Seq(Chunk) /\ started \in Seq(PartNames)
    BY <1>7
  <2>3. shown \in [Pipes -> Seq(Chunk)] /\ pipe \in [Pipes -> Seq(Chunk)]
    BY <1>7, <2>2
  <2>4. holders \in [Pipes -> SUBSET {"part", "left"}] /\ open \subseteq Pipes
    BY <1>7
  <2>5. i \in Nat \ {0} /\ partAt \in {"entry", "read", "wait", "end"} /\ printflag \in BOOLEAN
    <3>1. i = 1 /\ partAt = "entry" /\ printflag = FALSE
      BY <1>7, Zenon
    <3>2. i \in Nat \ {0}
      BY <3>1
    <3>3. partAt \in {"entry", "read", "wait", "end"}
      BY <3>1
    <3>4. printflag \in BOOLEAN
      BY <3>1
    <3>5. QED BY <3>2, <3>3, <3>4
  <2>6. QED BY <1>6, <2>1, <2>2, <2>3, <2>4, <2>5 DEF PartTyped
<1>9. PipesClosed
  BY <1>7, PipesFacts DEF PipesClosed
<1>10. ShownSeen
  BY <1>7 DEF ShownSeen, Firsts
<1>11. PartIsCur /\ ShownSplit
  BY <1>7 DEF PartIsCur, ShownSplit
<1>12. QED BY <1>8, <1>9, <1>10, <1>11 DEF PartsInv

LEMMA PartSkip == ASSUME PartsInv, P!Skip \/ P!End PROVE PartsInv'
<1> USE DEF PartsInv
<1>1. /\ partAt = "entry" /\ (i' = i \/ i' = i + 1) /\ partAt' \in {"entry", "end"} /\ (i' = i + 1 => partAt' = "entry")
      /\ namelist' = namelist /\ part' = part /\ holders' = holders /\ pipe' = pipe /\ open' = open
      /\ printflag' = printflag /\ shown' = shown /\ started' = started
  <2>1. CASE P!Skip
    BY <2>1, EntryFacts DEF P!Skip, PartTyped
  <2>2. CASE P!End
    BY <2>2 DEF P!End, PartTyped
  <2>3. QED BY <2>1, <2>2
<1>2. PartTyped'
  BY <1>1 DEF PartTyped
<1>3. PipesClosed' /\ PartIsCur'
  BY <1>1 DEF PipesClosed, PartIsCur
<1>4. \A k \in 1..Len(namelist) : k < i \/ (partAt # "entry" /\ k = i) => k < i' \/ (partAt' # "entry" /\ k = i')
  BY <1>1 DEF PartTyped
<1>5. ShownSeen'
  BY <1>1, <1>4, SeenStays
<1>6. ShownSplit'
  BY <1>1, SplitStays
<1>7. QED BY <1>2, <1>3, <1>5, <1>6

LEMMA PartWait == ASSUME PartsInv, P!Wait PROVE PartsInv'
<1> USE DEF PartsInv
<1>1. /\ partAt = "wait" /\ ((partAt' = "end" /\ i' = i) \/ (partAt' = "entry" /\ i' = i + 1))
      /\ namelist' = namelist /\ part' = part /\ holders' = holders /\ pipe' = pipe /\ open' = open
      /\ printflag' = printflag /\ shown' = shown /\ started' = started
  BY DEF P!Wait
<1>2. PartTyped'
  BY <1>1 DEF PartTyped
<1>3. PipesClosed' /\ PartIsCur'
  BY <1>1 DEF PipesClosed, PartIsCur
<1>4. \A k \in 1..Len(namelist) : k < i \/ (partAt # "entry" /\ k = i) => k < i' \/ (partAt' # "entry" /\ k = i')
  BY <1>1 DEF PartTyped
<1>5. ShownSeen'
  BY <1>1, <1>4, SeenStays
<1>6. ShownSplit'
  BY <1>1, SplitStays
<1>7. QED BY <1>2, <1>3, <1>5, <1>6

\* The part begins: nothing was shown of it.
LEMMA PartFork == ASSUME PartsInv, P!Fork PROVE PartsInv'
<1> USE DEF PartsInv
<1>1. /\ partAt = "entry" /\ i <= Len(namelist) /\ partAt' \in {"read", "wait"} /\ i' = i /\ namelist' = namelist
      /\ shown' = shown /\ printflag' = FALSE /\ started' = Append(started, P!Entry.name)
      /\ pipe' = [p \in Pipes |-> <<>>]
      /\ \/ holders' = [p \in Pipes |-> {"part"}] /\ open' = Pipes /\ partAt' = "read"
         \/ holders' = [p \in Pipes |-> {}] /\ open' = {}
      /\ part' = [running |-> TRUE, result |-> 0, wrote |-> [p \in Pipes |-> 0]]
  <2>1. part' = [running |-> TRUE, result |-> 0, wrote |-> [p \in Pipes |-> 0]]
    BY DEF P!Fork, P!NoPart, Pipes
  <2>2. /\ partAt = "entry" /\ i <= Len(namelist) /\ i' = i /\ namelist' = namelist
        /\ shown' = shown /\ printflag' = FALSE /\ started' = Append(started, P!Entry.name)
        /\ pipe' = [p \in Pipes |-> <<>>] /\ partAt' = P!AfterFork
        /\ open' = IF "report" \in mode THEN Pipes ELSE {}
        /\ holders' = [p \in Pipes |-> IF "report" \in mode THEN {"part"} ELSE {}]
    BY DEF P!Fork, Pipes
  <2>3. partAt' = IF "report" \in mode THEN "read" ELSE "wait"
    BY <2>2 DEF P!AfterFork
  <2>4. QED BY <2>1, <2>2, <2>3
<1>2. PICK name : name = P!Entry.name
  OBVIOUS
<1>3. name \in PartNames /\ i \in 1..Len(namelist) /\ name = namelist[i].name
  BY <1>1, <1>2, EntryFacts
<1>4. started' \in Seq(PartNames) /\ started' # <<>> /\ Cur' = name
  <2>1. started \in Seq(PartNames) /\ started' = Append(started, name)
    BY <1>1, <1>2 DEF PartTyped
  <2>2. started' \in Seq(PartNames) /\ started' # <<>> /\ started'[Len(started')] = name
    BY <1>3, <2>1
  <2>3. QED BY <2>2 DEF Cur
<1>5. PartTyped'
  <2>1. part' \in [running : BOOLEAN, result : {0, 1}, wrote : [Pipes -> Nat]]
    BY <1>1
  <2>2. <<>> \in Seq(Chunk)
    OBVIOUS
  <2>3. pipe' \in [Pipes -> Seq(Chunk)]
    BY <1>1, <2>2
  <2>4. holders' \in [Pipes -> SUBSET {"part", "left"}] /\ open' \subseteq Pipes
    BY <1>1
  <2>5. i' \in Nat \ {0} /\ partAt' \in {"entry", "read", "wait", "end"} /\ printflag' \in BOOLEAN
        /\ namelist' \in Seq(PartEntries) /\ shown' \in [Pipes -> Seq(Chunk)]
        /\ \A j, k \in 1..Len(namelist') : namelist'[j].name = namelist'[k].name => j = k
    BY <1>1 DEF PartTyped
  <2>6. QED BY <1>4, <2>1, <2>3, <2>4, <2>5 DEF PartTyped
<1>6. PipesClosed'
  BY <1>1, PipesFacts DEF PipesClosed
<1>7. PartIsCur'
  BY <1>1, <1>3, <1>4 DEF PartIsCur
<1>8. ShownSeen'
  <2>1. \A k \in 1..Len(namelist) : k < i \/ (partAt # "entry" /\ k = i) => k < i' \/ (partAt' # "entry" /\ k = i')
    BY <1>1
  <2>2. QED BY <1>1, <2>1, SeenStays
<1>9. ShownSplit'
  <2>1. name \notin Seen
    BY <1>1, <1>3 DEF Seen, PartTyped
  <2>2. \A p \in Pipes : \A k \in 1..Len(shown[p]) : shown[p][k][1] # name
    BY <2>1 DEF ShownSeen, Firsts
  <2>3. PICK n : n = [p \in Pipes |-> 0]
    OBVIOUS
  <2>4. n \in [Pipes -> Nat] /\ \A p \in Pipes : n[p] = 0 /\ part'.wrote[p] = 0 /\ pipe'[p] = <<>>
    BY <1>1, <2>3
  <2>5. Text(name, 0, 0) = <<>>
    <3>1. 0 \in Nat
      OBVIOUS
    <3>2. Text(name, 0, 0) \in Seq(Chunk) /\ Len(Text(name, 0, 0)) = 0
      BY <1>3, <3>1, FirstText
    <3>3. QED BY <3>2
  <2>6. \A p \in Pipes : Mine(name, p \in {}, n[p]) = <<>>
    <3> SUFFICES ASSUME NEW p \in Pipes PROVE Mine(name, p \in {}, n[p]) = <<>>
      OBVIOUS
    <3>1. Title(name, p \in {}) = <<>>
      BY DEF Title
    <3>2. Text(name, 0, n[p]) = <<>>
      BY <2>4, <2>5
    <3>3. QED BY <3>1, <3>2 DEF Mine
  <2>7. \A p \in Pipes : shown[p] \o <<>> = shown[p]
    BY ConcatEmptySeq DEF PartTyped
  <2>8. \A p \in Pipes : shown'[p] = shown[p] \o Mine(name, p \in {}, n[p])
    BY <1>1, <2>6, <2>7
  <2>9. \A p \in Pipes : n[p] <= part'.wrote[p] /\ pipe'[p] = Text(name, n[p], part'.wrote[p]) /\ ~ (n[p] > 0)
    BY <2>4, <2>5
  <2>10. PICK old : old = shown
    OBVIOUS
  <2>11. Split(old, {}, n)'
    BY <1>1, <1>4, <2>2, <2>8, <2>9, <2>10 DEF Split
  <2>12. old \in [Pipes -> Seq(Chunk)] /\ {} \in SUBSET Pipes /\ n \in [Pipes -> Nat]
    BY <2>4, <2>10 DEF PartTyped
  <2>13. QED BY <2>11, <2>12 DEF ShownSplit
<1>10. QED BY <1>5, <1>6, <1>7, <1>8, <1>9

\* A process writes a chunk.
LEMMA PartWrite == ASSUME PartsInv, NEW w \in {"part", "left"}, NEW p \in Pipes, P!Write(w, p) PROVE PartsInv'
<1> USE DEF PartsInv
<1>1. /\ w \in holders[p] /\ mode' = mode /\ namelist' = namelist /\ i' = i /\ partAt' = partAt /\ open' = open
      /\ printflag' = printflag /\ shown' = shown /\ started' = started /\ holders' = holders
      /\ part' = [part EXCEPT !.wrote[p] = @ + 1]
      /\ pipe' = [pipe EXCEPT ![p] = Append(@, <<P!Entry.name, part.wrote[p] + 1>>)]
  BY DEF P!Write, P!parent
<1>2. partAt = "read" /\ started # <<>> /\ i <= Len(namelist) /\ P!Entry.name = Cur /\ Cur \in PartNames
  <2>1. p \in open
    BY <1>1 DEF PipesClosed
  <2>2. partAt = "read"
    BY <2>1 DEF PipesClosed
  <2>3. QED BY <2>2, EntryFacts DEF PartIsCur, P!Entry
<1>3. /\ part.wrote \in [Pipes -> Nat] /\ part'.wrote = [part.wrote EXCEPT ![p] = @ + 1]
      /\ part' \in [running : BOOLEAN, result : {0, 1}, wrote : [Pipes -> Nat]]
  <2>1. part \in [running : BOOLEAN, result : {0, 1}, wrote : [Pipes -> Nat]]
    BY DEF PartTyped
  <2>2. part.wrote \in [Pipes -> Nat] /\ part'.wrote = [part.wrote EXCEPT ![p] = @ + 1]
    BY <1>1, <2>1
  <2>3. [part.wrote EXCEPT ![p] = @ + 1] \in [Pipes -> Nat]
    BY <2>2
  <2>4. part' = [part EXCEPT !.wrote = part'.wrote]
    BY <1>1, <2>1, <2>2
  <2>5. QED BY <2>1, <2>2, <2>3, <2>4
<1>4. <<Cur, part.wrote[p] + 1>> \in Chunk
  BY <1>2, <1>3 DEF Chunk
<1>5. PartTyped'
  <2>1. pipe' \in [Pipes -> Seq(Chunk)]
    BY <1>1, <1>2, <1>4 DEF PartTyped
  <2>2. QED BY <1>1, <1>3, <2>1 DEF PartTyped
<1>6. PipesClosed'
  BY <1>1 DEF PipesClosed, PartTyped
<1>7. PartIsCur' /\ Cur' = Cur
  BY <1>1 DEF PartIsCur, Cur
<1>8. ShownSeen'
  BY <1>1, SeenStays
<1>9. ShownSplit'
  <2>1. PICK old \in [Pipes -> Seq(Chunk)], titled \in SUBSET Pipes, n \in [Pipes -> Nat] : Split(old, titled, n)
    BY <1>2 DEF ShownSplit
  <2>2. \A q \in Pipes : n[q] \in Nat /\ part.wrote[q] \in Nat /\ n[q] <= part.wrote[q] /\ pipe[q] = Text(Cur, n[q], part.wrote[q])
    BY <1>3, <2>1 DEF Split
  <2>3. \A q \in Pipes : n[q] <= part'.wrote[q] /\ pipe'[q] = Text(Cur, n[q], part'.wrote[q])
    <3> SUFFICES ASSUME NEW q \in Pipes PROVE n[q] <= part'.wrote[q] /\ pipe'[q] = Text(Cur, n[q], part'.wrote[q])
      OBVIOUS
    <3>1. CASE q = p
      <4>1. part'.wrote[p] = part.wrote[p] + 1
        BY <1>3
      <4>2. pipe'[p] = Append(pipe[p], <<Cur, part.wrote[p] + 1>>)
        BY <1>1, <1>2 DEF PartTyped
      <4>3. Append(Text(Cur, n[p], part.wrote[p]), <<Cur, part.wrote[p] + 1>>) = Text(Cur, n[p], part.wrote[p] + 1)
        BY <1>2, <2>2, TextGrows
      <4>4. n[p] <= part.wrote[p] + 1
        BY <2>2
      <4>5. QED BY <2>2, <3>1, <4>1, <4>2, <4>3, <4>4
    <3>2. CASE q # p
      <4>1. part'.wrote[q] = part.wrote[q]
        BY <1>3, <3>2
      <4>2. pipe'[q] = pipe[q]
        BY <1>1, <3>2 DEF PartTyped
      <4>3. QED BY <2>2, <4>1, <4>2
    <3>3. QED BY <3>1, <3>2
  <2>4. Split(old, titled, n)'
    BY <1>1, <1>7, <2>1, <2>3 DEF Split
  <2>5. QED BY <2>4 DEF ShownSplit
<1>10. QED BY <1>5, <1>6, <1>7, <1>8, <1>9

\* A process starts with the pipes, or ends.
LEMMA PartHolders == ASSUME PartsInv, P!Leave \/ P!PartEnds \/ P!LeftEnds PROVE PartsInv'
<1> USE DEF PartsInv
<1>1. /\ namelist' = namelist /\ i' = i /\ partAt' = partAt /\ open' = open
      /\ printflag' = printflag /\ shown' = shown /\ started' = started /\ pipe' = pipe
  BY DEF P!Leave, P!PartEnds, P!LeftEnds, P!parent
<1>2. part' \in [running : BOOLEAN, result : {0, 1}, wrote : [Pipes -> Nat]] /\ part'.wrote = part.wrote
  <2>1. part \in [running : BOOLEAN, result : {0, 1}, wrote : [Pipes -> Nat]]
    BY DEF PartTyped
  <2>2. CASE P!Leave \/ P!LeftEnds
    BY <2>1, <2>2 DEF P!Leave, P!LeftEnds
  <2>3. CASE P!PartEnds
    BY <2>1, <2>3 DEF P!PartEnds
  <2>4. QED BY <2>2, <2>3
<1>3. /\ holders' \in [Pipes -> SUBSET {"part", "left"}]
      /\ holders'["out"] = holders'["err"]
      /\ \A p \in Pipes : holders[p] = {} => holders'[p] = {}
  <2>1. holders \in [Pipes -> SUBSET {"part", "left"}] /\ holders["out"] = holders["err"] /\ Pipes = {"out", "err"}
    BY PipesFacts DEF PartTyped, PipesClosed
  <2>2. CASE P!Leave
    <3>1. holders' = [p \in Pipes |-> holders[p] \cup {"left"}] /\ holders["out"] = {"part"}
      BY <2>2 DEF P!Leave, Pipes
    <3>2. QED BY <2>1, <3>1
  <2>3. CASE P!PartEnds
    <3>1. holders' = [p \in Pipes |-> holders[p] \ {"part"}]
      BY <2>3 DEF P!PartEnds, Pipes
    <3>2. QED BY <2>1, <3>1
  <2>4. CASE P!LeftEnds
    <3>1. holders' = [p \in Pipes |-> holders[p] \ {"left"}]
      BY <2>4 DEF P!LeftEnds, Pipes
    <3>2. QED BY <2>1, <3>1
  <2>5. QED BY <2>2, <2>3, <2>4
<1>4. PartTyped'
  BY <1>1, <1>2, <1>3 DEF PartTyped
<1>5. PipesClosed' /\ PartIsCur'
  BY <1>1, <1>3 DEF PipesClosed, PartIsCur, Cur
<1>6. ShownSeen'
  BY <1>1, SeenStays
<1>7. ShownSplit'
  BY <1>1, <1>2, SplitStays
<1>8. QED BY <1>4, <1>5, <1>6, <1>7

\* A turn of the loop: all that is in the pipes is shown, after the name if it
\* is the first output of the part.
LEMMA PartRead == ASSUME PartsInv, P!Read PROVE PartsInv'
<1> USE DEF PartsInv
<1> DEFINE Got(p) == P!Readable(p)
           firstPipe == IF Got("out") THEN "out" ELSE "err"
           Is(p) == p = firstPipe /\ Got(p) /\ ~ printflag
           Taken(p) == IF Got(p) THEN pipe[p] ELSE <<>>
<1>1. /\ partAt = "read" /\ partAt' \in {"read", "wait"} /\ (open' # {} => partAt' = "read")
      /\ namelist' = namelist /\ i' = i /\ part' = part /\ holders' = holders /\ started' = started
      /\ pipe' = [p \in Pipes |-> IF p \in open THEN <<>> ELSE pipe[p]]
      /\ open' = {p \in open : ~ P!Ready(p) \/ Got(p)}
      /\ printflag' = (printflag \/ Got("out") \/ Got("err"))
  BY DEF P!Read, Pipes
<1>2. shown' = [p \in Pipes |-> shown[p] \o (IF p = firstPipe /\ Got(p) THEN P!Header(p) ELSE <<>>) \o Taken(p)]
  BY DEF P!Read, Pipes
<1>3. started # <<>> /\ i <= Len(namelist) /\ P!Entry.name = Cur /\ Cur \in PartNames /\ Cur \in Seen
  <2>1. started # <<>> /\ i <= Len(namelist) /\ P!Entry.name = Cur /\ Cur \in PartNames /\ Cur = namelist[i].name
    BY <1>1, EntryFacts DEF PartIsCur, P!Entry
  <2>2. Cur \in Seen
    BY <1>1, <2>1, EntryFacts DEF Seen
  <2>3. QED BY <2>1, <2>2
<1>4. \A p \in Pipes : Got(p) <=> pipe[p] # <<>>
  BY DEF PipesClosed, P!Readable, P!Ready
<1>5. \A p \in Pipes : Is(p) \in BOOLEAN /\ pipe'[p] = <<>>
  BY <1>1 DEF PipesClosed
<1>6. \A p \in Pipes : (IF p = firstPipe /\ Got(p) THEN P!Header(p) ELSE <<>>) = Title(Cur, Is(p))
  BY <1>3 DEF P!Header, Title
<1>7. \A p \in Pipes : shown'[p] = shown[p] \o Title(Cur, Is(p)) \o Taken(p)
  BY <1>2, <1>6
<1>8. \A p \in Pipes : Taken(p) = pipe[p]
  BY <1>4
<1>9. PICK old \in [Pipes -> Seq(Chunk)], titled \in SUBSET Pipes, n \in [Pipes -> Nat] : Split(old, titled, n)
  BY <1>3 DEF ShownSplit
<1> DEFINE m == part.wrote
           now_titled == {p \in Pipes : p \in titled \/ Is(p)}
<1>10. /\ m \in [Pipes -> Nat] /\ part'.wrote = m
       /\ \A p \in Pipes : /\ n[p] \in Nat /\ m[p] \in Nat /\ n[p] <= m[p] /\ pipe[p] = Text(Cur, n[p], m[p])
                           /\ old[p] \in Seq(Chunk) /\ shown[p] = old[p] \o Mine(Cur, p \in titled, n[p])
  BY <1>1, <1>9 DEF Split, PartTyped
<1>11. \A p \in Pipes : (pipe[p] # <<>> <=> n[p] < m[p])
  <2> SUFFICES ASSUME NEW p \in Pipes PROVE pipe[p] # <<>> <=> n[p] < m[p]
    OBVIOUS
  <2>1. PICK a : a = n[p]
    OBVIOUS
  <2>2. PICK b : b = m[p]
    OBVIOUS
  <2>3. a \in Nat /\ b \in Nat /\ a <= b /\ pipe[p] = Text(Cur, a, b)
    BY <1>10, <2>1, <2>2
  <2>4. pipe[p] \in Seq(Chunk) /\ Len(pipe[p]) = b - a
    <3>1. Text(Cur, a, b) \in Seq(Chunk) /\ Len(Text(Cur, a, b)) = b - a
      BY <1>3, <2>3, TextFacts
    <3>2. QED BY <2>3, <3>1, Zenon
  <2>5. pipe[p] # <<>> <=> Len(pipe[p]) # 0
    BY <2>4
  <2>6. QED BY <2>1, <2>2, <2>3, <2>4, <2>5
<1>12. /\ \A p \in Pipes : Is(p) => p \notin titled /\ titled = {} /\ n[p] = 0 /\ n[p] < m[p]
       /\ \A p, q \in Pipes : Is(p) /\ Is(q) => p = q
  <2>1. \A p \in Pipes : Is(p) => titled = {} /\ n[p] < m[p]
    BY <1>4, <1>9, <1>11 DEF Split
  <2>2. \A p \in Pipes : titled = {} => ~ (n[p] > 0)
    BY <1>9 DEF Split
  <2>3. \A p \in Pipes : Is(p) => p \notin titled /\ titled = {} /\ n[p] = 0 /\ n[p] < m[p]
    <3> SUFFICES ASSUME NEW p \in Pipes, Is(p) PROVE p \notin titled /\ titled = {} /\ n[p] = 0 /\ n[p] < m[p]
      OBVIOUS
    <3>1. titled = {} /\ n[p] < m[p]
      BY <2>1
    <3>2. n[p] \in Nat /\ ~ (n[p] > 0)
      BY <1>10, <2>2, <3>1
    <3>3. n[p] = 0
      BY <3>2
    <3>4. QED BY <3>1, <3>3
  <2>4. \A p, q \in Pipes : Is(p) /\ Is(q) => p = q
    OBVIOUS
  <2>5. QED BY <2>3, <2>4
<1> HIDE DEF Is, Got, firstPipe, Taken, m
<1>13. \A p \in Pipes : /\ shown[p] \in Seq(Chunk) /\ Title(Cur, Is(p)) \in Seq(Chunk) /\ pipe[p] \in Seq(Chunk)
                        /\ shown'[p] = old[p] \o Mine(Cur, p \in titled \/ Is(p), m[p])
  <2> SUFFICES ASSUME NEW p \in Pipes
               PROVE  /\ shown[p] \in Seq(Chunk) /\ Title(Cur, Is(p)) \in Seq(Chunk) /\ pipe[p] \in Seq(Chunk)
                      /\ shown'[p] = old[p] \o Mine(Cur, p \in titled \/ Is(p), m[p])
    OBVIOUS
  <2>1. shown[p] \in Seq(Chunk) /\ pipe[p] \in Seq(Chunk)
    BY DEF PartTyped
  <2>2. Is(p) \in BOOLEAN
    BY <1>5
  <2>3. Title(Cur, Is(p)) \in Seq(Chunk)
    BY <1>3, <2>2, TitleFacts
  <2>4. PICK was : was = (p \in titled)
    OBVIOUS
  <2>5. PICK is : is = Is(p)
    OBVIOUS
  <2>6. was \in BOOLEAN /\ is \in BOOLEAN /\ (is => ~ was /\ n[p] = 0)
    <3>1. was \in BOOLEAN
      BY <2>4
    <3>2. is \in BOOLEAN
      BY <2>2, <2>5
    <3>3. is => ~ was /\ n[p] = 0
      BY <1>12, <2>4, <2>5, Zenon
    <3>4. QED BY <3>1, <3>2, <3>3
  <2>7. (old[p] \o Mine(Cur, was, n[p])) \o Title(Cur, is) \o Text(Cur, n[p], m[p]) = old[p] \o Mine(Cur, was \/ is, m[p])
    <3>1. PICK a : a = n[p]
      OBVIOUS
    <3>2. PICK b : b = m[p]
      OBVIOUS
    <3>3. PICK o : o = old[p]
      OBVIOUS
    <3>4. a \in Nat /\ b \in Nat /\ a <= b /\ o \in Seq(Chunk) /\ (is => ~ was /\ a = 0)
      BY <1>10, <2>6, <3>1, <3>2, <3>3
    <3>5. (o \o Mine(Cur, was, a)) \o Title(Cur, is) \o Text(Cur, a, b) = o \o Mine(Cur, was \/ is, b)
      <4>1. Cur \in PartNames /\ was \in BOOLEAN /\ is \in BOOLEAN
        BY <1>3, <2>6
      <4>2. is => ~ was /\ a = 0
        BY <3>4
      <4>3. a \in Nat /\ b \in Nat /\ a <= b /\ o \in Seq(Chunk)
        BY <3>4
      <4>4. Grows(Cur, a, b, was, is, o)
        BY <4>1, <4>2, <4>3, MineGrows
      <4>5. QED BY <4>4 DEF Grows
    <3>6. QED BY <3>1, <3>2, <3>3, <3>5
  <2>8. shown'[p] = shown[p] \o Title(Cur, is) \o Text(Cur, n[p], m[p])
    BY <1>7, <1>8, <1>10, <2>5
  <2>9. QED BY <1>10, <2>1, <2>3, <2>4, <2>5, <2>7, <2>8
<1>14. PartTyped'
  <2>1. \A p \in Pipes : shown[p] \o Title(Cur, Is(p)) \o pipe[p] \in Seq(Chunk)
    BY <1>13, ConcatProperties
  <2>2. shown' = [p \in Pipes |-> shown'[p]] /\ \A p \in Pipes : shown'[p] \in Seq(Chunk)
    <3>1. shown' = [p \in Pipes |-> shown'[p]]
      BY <1>2
    <3>2. \A p \in Pipes : shown'[p] = shown[p] \o Title(Cur, Is(p)) \o pipe[p]
      BY <1>7, <1>8
    <3>3. QED BY <2>1, <3>1, <3>2
  <2>3. pipe' = [p \in Pipes |-> <<>>]
    BY <1>1, <1>5
  <2>4. <<>> \in Seq(Chunk)
    OBVIOUS
  <2>5. pipe' \in [Pipes -> Seq(Chunk)] /\ shown' \in [Pipes -> Seq(Chunk)]
    BY <2>2, <2>3, <2>4
  <2>6. printflag' \in BOOLEAN /\ open' \subseteq Pipes /\ partAt' \in {"entry", "read", "wait", "end"}
    BY <1>1 DEF PartTyped
  <2>7. QED BY <1>1, <2>5, <2>6 DEF PartTyped
<1>15. PipesClosed'
  <2>1. \A p \in Pipes \ open' : holders[p] = {}
    BY <1>1 DEF PipesClosed, P!Ready, Got, P!Readable
  <2>2. QED BY <1>1, <1>5, <2>1 DEF PipesClosed
<1>16. PartIsCur' /\ Cur' = Cur
  BY <1>1 DEF PartIsCur, Cur
<1>17. ShownSeen'
  <2>1. Seen' = Seen
    BY <1>1 DEF Seen
  <2>2. \A p \in Pipes : Firsts(shown'[p], Seen)
    <3> SUFFICES ASSUME NEW p \in Pipes PROVE Firsts(shown'[p], Seen)
      OBVIOUS
    <3>1. Firsts(shown[p], Seen)
      BY DEF ShownSeen
    <3>2. Is(p) \in BOOLEAN /\ n[p] \in Nat /\ m[p] \in Nat /\ n[p] <= m[p] /\ pipe[p] = Text(Cur, n[p], m[p])
      BY <1>5, <1>10
    <3>3. Firsts(Title(Cur, Is(p)), Seen) /\ Firsts(pipe[p], Seen)
      BY <1>3, <3>2, MineFirsts
    <3>4. PICK s : s = shown[p] \o Title(Cur, Is(p))
      OBVIOUS
    <3>5. s \in Seq(Chunk) /\ Firsts(s, Seen)
      BY <1>13, <3>1, <3>3, <3>4, ConcatFirsts
    <3>6. Firsts(s \o pipe[p], Seen)
      BY <1>13, <3>3, <3>5, ConcatFirsts
    <3>7. QED BY <1>7, <1>8, <3>4, <3>6
  <2>3. QED BY <2>1, <2>2 DEF ShownSeen
<1>18. ShownSplit'
  <2>1. \A p \in Pipes : (p \in now_titled) = (p \in titled \/ Is(p))
    OBVIOUS
  <2>2. \A p \in Pipes : pipe'[p] = Text(Cur, m[p], m[p]) /\ m[p] <= m[p]
    <3> SUFFICES ASSUME NEW p \in Pipes PROVE pipe'[p] = Text(Cur, m[p], m[p]) /\ m[p] <= m[p]
      OBVIOUS
    <3>1. m[p] \in Nat /\ m[p] <= m[p] /\ m[p] - m[p] = 0
      BY <1>10
    <3>2. Text(Cur, m[p], m[p]) \in Seq(Chunk) /\ Len(Text(Cur, m[p], m[p])) = 0
      BY <1>3, <3>1, TextFacts
    <3>3. QED BY <1>5, <3>1, <3>2
  <2>3. \A p \in Pipes : p \in now_titled => m[p] > 0
    <3>1. \A p \in Pipes : p \in titled => n[p] > 0
      BY <1>9 DEF Split
    <3>2. QED BY <1>10, <1>12, <3>1
  <2>4. \A p, q \in now_titled : p = q
    <3>1. \A p, q \in titled : p = q
      BY <1>9 DEF Split
    <3>2. QED BY <1>12, <3>1
  <2>5. printflag <=> titled # {}
    BY <1>9 DEF Split
  <2>6. (Got("out") \/ Got("err")) /\ ~ printflag => Is(firstPipe) /\ firstPipe \in Pipes
    BY PipesFacts DEF Is, firstPipe
  <2>7. \A p \in Pipes : Is(p) => Got("out") \/ Got("err")
    BY PipesFacts DEF Is
  <2>8. printflag' <=> now_titled # {}
    BY <1>1, <2>5, <2>6, <2>7
  <2>9. \A p \in Pipes : m[p] > 0 => now_titled # {}
    <3> SUFFICES ASSUME NEW p \in Pipes, m[p] > 0, now_titled = {} PROVE FALSE
      OBVIOUS
    <3>1. titled = {} /\ ~ Got("out") /\ ~ Got("err")
      BY <1>1, <2>8
    <3>2. ~ (n[p] > 0)
      BY <1>9, <3>1 DEF Split
    <3>3. ~ (n[p] < m[p])
      BY <1>4, <1>11, <3>1, PipesFacts
    <3>4. QED BY <1>10, <3>2, <3>3
  <2> HIDE DEF now_titled
  <2>10. \A p \in Pipes : shown'[p] = old[p] \o Mine(Cur, p \in now_titled, m[p])
    BY <1>13, <2>1
  <2>11. \A p \in Pipes : \A k \in 1..Len(old[p]) : old[p][k][1] # Cur
    BY <1>9 DEF Split
  <2>12. PICK w : w = m
    OBVIOUS
  <2>13. PICK t : t = now_titled
    OBVIOUS
  <2>14. Split(old, t, w)'
    BY <1>10, <1>16, <2>2, <2>3, <2>4, <2>8, <2>9, <2>10, <2>11, <2>12, <2>13 DEF Split
  <2>15. t \in SUBSET Pipes /\ w \in [Pipes -> Nat]
    BY <1>10, <2>12, <2>13 DEF now_titled
  <2>16. QED BY <2>14, <2>15 DEF ShownSplit
<1>19. QED BY <1>14, <1>15, <1>16, <1>17, <1>18

LEMMA PartsInvInductive == PartsInv /\ [P!PartsNext]_partsVars => PartsInv'
<1> SUFFICES ASSUME PartsInv, [P!PartsNext]_partsVars PROVE PartsInv'
  OBVIOUS
<1>1. CASE UNCHANGED partsVars
  <2> USE DEF PartsInv
  <2>1. PartTyped' /\ PipesClosed' /\ PartIsCur'
    BY <1>1 DEF partsVars, PartTyped, PipesClosed, PartIsCur, Cur
  <2>2. ShownSeen'
    BY <1>1, SeenStays DEF partsVars
  <2>3. ShownSplit'
    BY <1>1, SplitStays DEF partsVars
  <2>4. QED BY <2>1, <2>2, <2>3
<1>2. CASE P!Skip \/ P!End
  BY <1>2, PartSkip
<1>3. CASE P!Fork
  BY <1>3, PartFork
<1>4. CASE P!Read
  BY <1>4, PartRead
<1>5. CASE P!Wait
  BY <1>5, PartWait
<1>6. CASE \E w \in {"part", "left"}, p \in P!Pipes : P!Write(w, p)
  BY <1>6, PartWrite DEF P!Pipes, Pipes
<1>7. CASE P!Leave \/ P!PartEnds \/ P!LeftEnds
  BY <1>7, PartHolders
<1>8. QED BY <1>1, <1>2, <1>3, <1>4, <1>5, <1>6, <1>7 DEF P!PartsNext

\* Once a part's pipes are closed, all that was in them was shown.
LEMMA PartsAreReported == PartsInv => P!Reported
<1> SUFFICES ASSUME PartsInv, partAt \in {"entry", "wait", "end"}, started # <<>>
             PROVE  P!Reported
  BY DEF P!Reported
<1> USE DEF PartsInv
<1>1. PICK old \in [Pipes -> Seq(Chunk)], titled \in SUBSET Pipes, n \in [Pipes -> Nat] : Split(old, titled, n)
  BY DEF ShownSplit
<1>2. PICK w : w = part.wrote
  OBVIOUS
<1>3. w \in [Pipes -> Nat] /\ Cur \in PartNames
  BY <1>2, EntryFacts DEF PartTyped
<1>4. \A p \in Pipes : n[p] = w[p]
  <2> SUFFICES ASSUME NEW p \in Pipes PROVE n[p] = w[p]
    OBVIOUS
  <2>1. PICK a : a = n[p]
    OBVIOUS
  <2>2. PICK b : b = w[p]
    OBVIOUS
  <2>3. a \in Nat /\ b \in Nat /\ a <= b /\ pipe[p] = Text(Cur, a, b)
    BY <1>1, <1>2, <1>3, <2>1, <2>2 DEF Split
  <2>4. pipe[p] = <<>>
    BY DEF PipesClosed
  <2>5. Len(Text(Cur, a, b)) = b - a
    BY <1>3, <2>3, TextFacts
  <2>6. b - a = 0
    BY <2>3, <2>4, <2>5
  <2>7. QED BY <2>1, <2>2, <2>3, <2>6
<1> DEFINE Is(p) == p \in titled
<1>5. \A p \in Pipes : Is(p) \in BOOLEAN /\ P!Of(shown[p], Cur) = Mine(Cur, Is(p), w[p])
                       /\ P!Chunks(Mine(Cur, Is(p), w[p])) = [k \in 1..w[p] |-> <<Cur, k>>]
  <2> SUFFICES ASSUME NEW p \in Pipes
               PROVE  Is(p) \in BOOLEAN /\ P!Of(shown[p], Cur) = Mine(Cur, Is(p), w[p])
                      /\ P!Chunks(Mine(Cur, Is(p), w[p])) = [k \in 1..w[p] |-> <<Cur, k>>]
    OBVIOUS
  <2>1. PICK is : is = Is(p)
    OBVIOUS
  <2>2. PICK b : b = w[p]
    OBVIOUS
  <2>3. PICK o : o = old[p]
    OBVIOUS
  <2>4. is \in BOOLEAN
    BY <2>1
  <2>5. b \in Nat /\ o \in Seq(Chunk) /\ \A k \in 1..Len(o) : o[k][1] # Cur
    BY <1>1, <1>3, <2>2, <2>3 DEF Split
  <2>6. shown[p] = o \o Mine(Cur, is, b)
    BY <1>1, <1>4, <2>1, <2>2, <2>3 DEF Split
  <2>7. P!Of(o \o Mine(Cur, is, b), Cur) = Mine(Cur, is, b) /\ P!Chunks(Mine(Cur, is, b)) = [k \in 1..b |-> <<Cur, k>>]
    BY <1>3, <2>4, <2>5, MineIsOf
  <2>8. QED BY <2>1, <2>2, <2>4, <2>6, <2>7
<1>6. \A p \in Pipes : /\ (\E k \in DOMAIN P!Of(shown[p], Cur) : P!Of(shown[p], Cur)[k][2] = 0) <=> p \in titled
                       /\ p \in titled => P!Of(shown[p], Cur)[1][2] = 0 /\ Len(P!Of(shown[p], Cur)) = w[p] + 1
  <2> SUFFICES ASSUME NEW p \in Pipes
               PROVE  /\ (\E k \in DOMAIN P!Of(shown[p], Cur) : P!Of(shown[p], Cur)[k][2] = 0) <=> p \in titled
                      /\ p \in titled => P!Of(shown[p], Cur)[1][2] = 0 /\ Len(P!Of(shown[p], Cur)) = w[p] + 1
    OBVIOUS
  <2>1. PICK is : is = Is(p)
    OBVIOUS
  <2>2. PICK b : b = w[p]
    OBVIOUS
  <2>3. is \in BOOLEAN /\ (is <=> p \in titled)
    <3>1. is = (p \in titled)
      BY <2>1
    <3>2. is \in BOOLEAN
      BY <3>1
    <3>3. is <=> p \in titled
      BY <3>1, Zenon
    <3>4. QED BY <3>2, <3>3
  <2>4. b \in Nat
    BY <1>3, <2>2
  <2>5. P!Of(shown[p], Cur) = Mine(Cur, is, b)
    BY <1>5, <2>1, <2>2
  <2>6. /\ (\E k \in DOMAIN Mine(Cur, is, b) : Mine(Cur, is, b)[k][2] = 0) <=> is
        /\ is => Mine(Cur, is, b)[1][2] = 0 /\ Len(Mine(Cur, is, b)) = b + 1
    BY <1>3, <2>3, <2>4, MineTitle
  <2>7. QED BY <2>2, <2>3, <2>5, <2>6
<1>7. /\ \A p \in titled : w[p] > 0
      /\ \A p, q \in titled : p = q
      /\ \A p \in Pipes : w[p] > 0 => titled # {}
  BY <1>1, <1>4 DEF Split
<1>8. P!Last(started) = Cur
  BY DEF P!Last, Cur
<1> DEFINE names == {p \in P!Pipes : \E k \in DOMAIN P!Of(shown[p], Cur) : P!Of(shown[p], Cur)[k][2] = 0}
<1>9. names = titled
  BY <1>6, PipesFacts
<1>10. P!Cardinality(names) = IF \E p \in Pipes : w[p] > 0 THEN 1 ELSE 0
  <2>1. P!Cardinality(titled) = Cardinality(titled)
    BY DEF P!Cardinality, Cardinality
  <2>2. CASE titled = {}
    <3>1. ~ \E p \in Pipes : w[p] > 0
      BY <1>7, <2>2
    <3>2. Cardinality(titled) = 0
      BY <2>2, FS_EmptySet
    <3>3. QED BY <1>9, <2>1, <3>1, <3>2
  <2>3. CASE titled # {}
    <3>1. PICK p \in titled : TRUE
      BY <2>3
    <3>2. titled = {p}
      BY <1>7, <3>1
    <3>3. Cardinality({p}) = 1
      BY FS_Singleton
    <3>4. \E q \in Pipes : w[q] > 0
      BY <1>7, <3>1
    <3>5. QED BY <1>9, <2>1, <3>2, <3>3, <3>4
  <2>4. QED BY <2>2, <2>3
<1>11. \A p \in P!Pipes : P!Chunks(P!Of(shown[p], Cur)) = [k \in 1..part.wrote[p] |-> <<Cur, k>>]
  BY <1>2, <1>5, PipesFacts
<1>12. \A p \in names : P!Of(shown[p], Cur)[1][2] = 0 /\ part.wrote[p] > 0 /\ Len(P!Of(shown[p], Cur)) = part.wrote[p] + 1
  BY <1>2, <1>6, <1>7, <1>9, PipesFacts
<1>13. P!Cardinality(names) = IF \E p \in P!Pipes : part.wrote[p] > 0 THEN 1 ELSE 0
  BY <1>2, <1>10, PipesFacts
<1>14. QED BY <1>8, <1>11, <1>12, <1>13, ZenonT(60) DEF P!Reported

LEMMA NobodyWaits == PartsInv => P!NoWaitForWriter
<1> SUFFICES ASSUME PartsInv, partAt = "wait" PROVE \A p \in P!Pipes : Len(pipe[p]) < PIPE_BUF
  BY DEF P!NoWaitForWriter
<1>1. PIPE_BUF \in Nat \ {0}
  BY HostAssumption DEF P!PartsAssumption
<1>2. \A p \in P!Pipes : pipe[p] = <<>>
  BY PipesFacts DEF PartsInv, PipesClosed
<1>3. QED BY <1>1, <1>2
-----------------------------------------------------------------------------
(* ProcTable: t is a table of processes, v a walk of it, when b processes     *)
(* have been started and f gives those there are.                            *)

Living(f) == {f[p] : p \in Pids} \ {Nil}
Named(t) == {row.who : row \in t}
RowsOf(b) == [pid : Pids, who : 1..b]
Listed(v) == {v.seen[k].who : k \in 1..Len(v.seen)}

\* A process has one number.
ProcsRight(b, f) ==
  /\ b \in Nat /\ f \in [Pids -> 1..b \cup {Nil}]
  /\ \A p, q \in Pids : f[p] = f[q] /\ f[p] # Nil => p = q

\* A row of the table is the only one of its id; the process it names has that
\* id as long as it lives.
TableRight(t, b, f) ==
  /\ t \subseteq RowsOf(b)
  /\ \A r, q \in t : r.pid = q.pid => r = q
  /\ \A r \in t : r.who \notin Nameless /\ (r.who \in Living(f) => f[r.pid] = r.who)

\* What was listed is in order and up to the last id; a process that has lived
\* since the walk began is in the table and, up to that id, was listed.
WalkRight(v, t, b, f) ==
  /\ v \in [at : Int \cup {Nil}, seen : Seq(RowsOf(b)), steady : SUBSET (1..b)]
  /\ \A j, k \in 1..Len(v.seen) : j < k => v.seen[j].pid < v.seen[k].pid
  /\ v.at # Nil => \A k \in 1..Len(v.seen) : v.seen[k].pid <= v.at
  /\ v.steady \subseteq Living(f) \ Nameless /\ v.steady \subseteq Named(t)
  /\ \A p \in Pids : f[p] \in v.steady /\ (v.at = Nil \/ p <= v.at) => f[p] \in Listed(v)

ProcInv ==
  /\ ProcsRight(born, proc)
  /\ pstable # Nil => TableRight(pstable, born, proc)
  /\ walk # Nil => pstable # Nil /\ WalkRight(walk, pstable, born, proc)

LEMMA ProcFacts == IsFiniteSet(Pids) /\ Pids # {} /\ Pids \subseteq Nat /\ Nil \notin Int
BY HostAssumption DEF C!ProcAssumption, C!IsFiniteSet, IsFiniteSet

LEMMA ProcInvStarts == C!ProcInit => ProcInv
<1> SUFFICES ASSUME C!ProcInit PROVE ProcInv
  OBVIOUS
<1>1. C!Cardinality(Pids) = Cardinality(Pids)
  BY DEF C!Cardinality, Cardinality
<1>2. Cardinality(Pids) \in Nat /\ Cardinality(Pids) # 0
  BY ProcFacts, FS_CardinalityType, FS_EmptySet
<1> DEFINE b == Cardinality(Pids) - 1
<1>3. born = b /\ b \in Nat /\ pstable = Nil /\ walk = Nil
  BY <1>1, <1>2 DEF C!ProcInit
<1>4. proc \in [Pids -> 1..b \cup {Nil}] /\ \A w \in 1..b : \E p \in Pids : \A q \in Pids : (proc[q] = w) = (q = p)
  BY <1>1 DEF C!ProcInit, C!FirstProcs
<1> HIDE DEF b
<1>5. ASSUME NEW p \in Pids, NEW q \in Pids, proc[p] = proc[q], proc[p] # Nil PROVE p = q
  <2>1. proc[p] \in 1..b
    BY <1>4, <1>5
  <2>2. PICK o \in Pids : \A x \in Pids : (proc[x] = proc[p]) = (x = o)
    BY <2>1, <1>4
  <2>3. p = o /\ q = o
    BY <2>2, <1>5
  <2>4. QED BY <2>3
<1>6. ProcsRight(born, proc)
  BY <1>3, <1>4, <1>5 DEF ProcsRight
<1>7. QED BY <1>3, <1>6 DEF ProcInv

\* Reading the table again keeps the rows of the processes that live.
LEMMA TableRead ==
  ASSUME ProcInv, C!get_ps_data, pstable' # Nil
  PROVE  /\ TableRight(pstable', born, proc)
         /\ pstable # Nil => Named(pstable) \cap Living(proc) \subseteq Named(pstable')
<1>1. CASE pstable' = pstable
  BY <1>1 DEF ProcInv
<1>2. CASE pstable' = C!Rows
  <2> DEFINE there == {q \in Pids : proc[q] \notin Nameless \cup {Nil}}
  <2>1. pstable' = {[pid |-> p, who |-> proc[p]] : p \in there}
    BY <1>2 DEF C!Rows
  <2>2. ProcsRight(born, proc)
    BY DEF ProcInv
  <2>3. TableRight(pstable', born, proc)
    BY <2>1, <2>2 DEF TableRight, ProcsRight, RowsOf, Living
  <2>4. ASSUME pstable # Nil, NEW w \in Named(pstable) \cap Living(proc) PROVE w \in Named(pstable')
    <3>1. PICK r \in pstable : r.who = w
      BY DEF Named
    <3>2. r.pid \in Pids /\ proc[r.pid] = w /\ w \notin Nameless /\ w # Nil
      BY <3>1, <2>4 DEF ProcInv, TableRight, RowsOf, Living
    <3>3. [pid |-> r.pid, who |-> w] \in pstable'
      BY <3>2, <2>1
    <3>4. QED BY <3>3 DEF Named
  <2>5. QED BY <2>3, <2>4
<1>3. QED BY <1>1, <1>2 DEF C!get_ps_data

\* A step of the walk from v: to the row with the next id, or to the end.
LEMMA WalkGoesOn ==
  ASSUME NEW v, NEW t, NEW b, NEW f, ProcsRight(b, f), TableRight(t, b, f), WalkRight(v, t, b, f), v.at # Nil
  PROVE  LET next == {r \in t : r.pid > v.at}
             row == CHOOSE r \in next : \A other \in next : r.pid <= other.pid
         IN WalkRight(IF next = {} THEN [v EXCEPT !.at = Nil]
                      ELSE [v EXCEPT !.at = row.pid, !.seen = Append(@, row)], t, b, f)
<1> DEFINE next == {r \in t : r.pid > v.at}
           row == CHOOSE r \in next : \A other \in next : r.pid <= other.pid
<1>1. /\ v \in [at : Int \cup {Nil}, seen : Seq(RowsOf(b)), steady : SUBSET (1..b)]
      /\ v.at \in Int /\ v.seen \in Seq(RowsOf(b)) /\ v.steady \in SUBSET (1..b)
      /\ \A j, k \in 1..Len(v.seen) : j < k => v.seen[j].pid < v.seen[k].pid
      /\ \A k \in 1..Len(v.seen) : v.seen[k].pid <= v.at
      /\ v.steady \subseteq Living(f) \ Nameless /\ v.steady \subseteq Named(t)
      /\ \A p \in Pids : f[p] \in v.steady /\ p <= v.at => f[p] \in Listed(v)
  BY DEF WalkRight
<1>2. t \subseteq RowsOf(b) /\ \A r \in t : r.pid \in Pids /\ r.pid \in Nat
  BY ProcFacts DEF TableRight, RowsOf
\* The row of a process that lives has its id.
<1>3. ASSUME NEW p \in Pids, f[p] \in v.steady PROVE \E r \in t : r.pid = p /\ r.who = f[p]
  <2>1. PICK r \in t : r.who = f[p]
    BY <1>1, <1>3 DEF Named
  <2>2. f[r.pid] = f[p] /\ f[p] # Nil /\ r.pid \in Pids
    BY <2>1, <1>1, <1>2, <1>3 DEF TableRight, Living
  <2>3. QED BY <2>1, <2>2 DEF ProcsRight
<1>4. CASE next = {}
  <2> DEFINE w == [v EXCEPT !.at = Nil]
  <2>1. /\ w \in [at : Int \cup {Nil}, seen : Seq(RowsOf(b)), steady : SUBSET (1..b)]
        /\ w.at = Nil /\ w.seen = v.seen /\ w.steady = v.steady
    BY <1>1
  <2> HIDE DEF w
  <2>2. Listed(w) = Listed(v)
    BY <2>1 DEF Listed
  <2>3. ASSUME NEW p \in Pids, f[p] \in w.steady PROVE f[p] \in Listed(w)
    <3>1. PICK r \in t : r.pid = p /\ r.who = f[p]
      BY <1>3, <2>1, <2>3
    <3>2. r \notin next
      BY <1>4
    <3>3. p <= v.at
      BY <3>1, <3>2, <1>1, <1>2
    <3>4. QED BY <3>3, <2>1, <2>2, <2>3, <1>1
  <2>4. WalkRight(w, t, b, f)
    BY <2>1, <2>3, <1>1 DEF WalkRight
  <2>5. QED BY <1>4, <2>4 DEF w
<1>5. CASE next # {}
  <2>1. row \in next /\ \A other \in next : row.pid <= other.pid
    <3> DEFINE W == {r.pid : r \in next}
    <3>1. W \in SUBSET Nat /\ W # {}
      BY <1>2, <1>5
    <3>2. PICK m \in W : \A k \in W : m <= k
      BY <3>1, LeastNumber
    <3>3. \E r \in next : \A other \in next : r.pid <= other.pid
      BY <3>2
    <3> HIDE DEF next
    <3>4. QED BY <3>3
  <2>2. row \in t /\ row.pid > v.at /\ row.pid \in Nat /\ row \in RowsOf(b)
    BY <2>1, <1>2
  <2> HIDE DEF row
  <2> DEFINE q == Append(v.seen, row)
             w == [v EXCEPT !.at = row.pid, !.seen = q]
  <2>3. /\ q \in Seq(RowsOf(b)) /\ Len(q) = Len(v.seen) + 1 /\ q[Len(v.seen) + 1] = row
        /\ \A k \in 1..Len(v.seen) : q[k] = v.seen[k]
        /\ Len(v.seen) \in Nat
    BY <2>2, <1>1
  <2> HIDE DEF q
  <2>4. /\ w \in [at : Int \cup {Nil}, seen : Seq(RowsOf(b)), steady : SUBSET (1..b)]
        /\ w.at = row.pid /\ w.seen = q /\ w.steady = v.steady
    <3>1. row.pid \in Int \cup {Nil} /\ q \in Seq(RowsOf(b))
      BY <2>2, <2>3
    <3>2. v \in [at : Int \cup {Nil}, seen : Seq(RowsOf(b)), steady : SUBSET (1..b)]
      BY <1>1
    <3> HIDE DEF next
    <3>3. QED BY <3>1, <3>2
  <2> HIDE DEF w
  <2>5. \A k \in 1..Len(q) : k \in 1..Len(v.seen) \/ k = Len(v.seen) + 1
    BY <2>3
  <2>6. \A k \in 1..Len(v.seen) : v.seen[k].pid \in Nat
    <3>1. \A k \in 1..Len(v.seen) : v.seen[k] \in RowsOf(b)
      BY <1>1
    <3>2. \A r \in RowsOf(b) : r.pid \in Nat
      BY ProcFacts DEF RowsOf
    <3>3. QED BY <3>1, <3>2
  <2>7. \A k \in 1..Len(q) : q[k].pid <= w.at
    <3> SUFFICES ASSUME NEW k \in 1..Len(q) PROVE q[k].pid <= row.pid
      BY <2>4
    <3>1. CASE k \in 1..Len(v.seen)
      BY <3>1, <2>2, <2>3, <2>6, <1>1
    <3>2. CASE k = Len(v.seen) + 1
      BY <3>2, <2>2, <2>3
    <3>3. QED BY <3>1, <3>2, <2>5
  <2>8. \A j, k \in 1..Len(q) : j < k => q[j].pid < q[k].pid
    <3> SUFFICES ASSUME NEW j \in 1..Len(q), NEW k \in 1..Len(q), j < k PROVE q[j].pid < q[k].pid
      OBVIOUS
    <3>1. j \in 1..Len(v.seen) /\ q[j] = v.seen[j]
      BY <2>3
    <3>2. CASE k \in 1..Len(v.seen)
      BY <3>1, <3>2, <2>3, <1>1
    <3>3. CASE k = Len(v.seen) + 1
      BY <3>1, <3>3, <2>2, <2>3, <2>6, <1>1
    <3>4. QED BY <3>2, <3>3, <2>5
  <2>9. Listed(w) = Listed(v) \cup {row.who}
    <3>1. Listed(w) = {q[k].who : k \in 1..Len(q)}
      BY <2>4 DEF Listed
    <3>2. Len(v.seen) + 1 \in 1..Len(q) /\ 1..Len(v.seen) \subseteq 1..Len(q)
      BY <2>3
    <3>3. \A k \in 1..Len(v.seen) : k \in 1..Len(q) /\ q[k].who = v.seen[k].who
      BY <2>3, <3>2
    <3>4. q[Len(v.seen) + 1].who = row.who
      BY <2>3
    <3>5. \A k \in 1..Len(q) : q[k].who \in Listed(v) \cup {row.who}
      BY <2>5, <3>3, <3>4 DEF Listed
    <3>6. \A x \in Listed(v) \cup {row.who} : \E k \in 1..Len(q) : x = q[k].who
      BY <3>2, <3>3, <3>4 DEF Listed
    <3>7. QED BY <3>1, <3>5, <3>6, Zenon
  <2>10. ASSUME NEW p \in Pids, f[p] \in w.steady, p <= w.at PROVE f[p] \in Listed(w)
    <3>1. PICK r \in t : r.pid = p /\ r.who = f[p]
      BY <1>3, <2>4, <2>10
    <3>2. CASE p <= v.at
      BY <3>2, <2>4, <2>9, <2>10, <1>1
    <3>3. CASE ~ (p <= v.at)
      <4>1. r \in next
        BY <3>1, <3>3, <1>1, <1>2
      <4>2. r.pid = row.pid
        BY <4>1, <3>1, <2>1, <2>2, <2>4, <2>10, <1>2
      <4>3. r = row
        BY <4>2, <2>2 DEF TableRight
      <4>4. QED BY <4>3, <3>1, <2>9
    <3>4. QED BY <3>2, <3>3
  <2>11. w.at # Nil
    BY <2>2, <2>4, ProcFacts
  <2>12. WalkRight(w, t, b, f)
    BY <2>4, <2>7, <2>8, <2>10, <2>11, <1>1 DEF WalkRight
  <2>13. QED BY <1>5, <2>12 DEF w, q, row
<1>6. QED BY <1>4, <1>5

LEMMA GetNextKeeps == ProcInv /\ C!GetNext => ProcInv'
<1> SUFFICES ASSUME ProcInv, C!GetNext PROVE ProcInv'
  OBVIOUS
<1>1. ProcsRight(born, proc) /\ born' = born /\ proc' = proc /\ C!get_ps_data /\ (walk # Nil => walk.at # Nil)
  BY DEF ProcInv, C!GetNext
<1>2. CASE pstable' = Nil
  <2>1. walk' = Nil
    BY <1>2 DEF C!GetNext
  <2>2. QED BY <1>1, <1>2, <2>1 DEF ProcInv
<1>3. CASE pstable' # Nil
  <2> DEFINE v == IF walk # Nil THEN walk
                  ELSE [at |-> -1, seen |-> <<>>, steady |-> C!Whos(pstable') \cap C!Alive]
             next == C!After(pstable', v.at)
             row == CHOOSE r \in next : \A other \in next : r.pid <= other.pid
  <2>1. TableRight(pstable', born, proc)
    BY <1>3, <1>1, TableRead
  <2>2. WalkRight(v, pstable', born, proc) /\ v.at # Nil
    <3>1. CASE walk # Nil
      <4>1. WalkRight(walk, pstable, born, proc) /\ pstable # Nil
        BY <3>1 DEF ProcInv
      <4>2. walk.steady \subseteq Named(pstable')
        BY <4>1, <1>1, <1>3, TableRead DEF WalkRight
      <4>3. QED BY <3>1, <4>1, <4>2, <1>1 DEF WalkRight
    <3>2. CASE walk = Nil
      <4> DEFINE e == [at |-> -1, seen |-> <<>>, steady |-> Named(pstable') \cap Living(proc)]
      <4>1. v = e
        BY <3>2 DEF C!Whos, C!Alive, Named, Living
      <4>2. /\ e.at = -1 /\ e.seen = <<>> /\ e.steady = Named(pstable') \cap Living(proc)
            /\ e \in [at : Int \cup {Nil}, seen : Seq(RowsOf(born)), steady : SUBSET (1..born)]
        BY <2>1 DEF TableRight, Named, RowsOf
      <4>3. e.steady \subseteq Living(proc) \ Nameless
        BY <4>2, <2>1 DEF TableRight, Named
      <4> HIDE DEF e
      <4>4. \A p \in Pids : ~ (p <= e.at)
        BY <4>2, ProcFacts
      <4>5. e.at # Nil
        BY <4>2, ProcFacts
      <4>6. WalkRight(e, pstable', born, proc)
        BY <4>2, <4>3, <4>4, <4>5 DEF WalkRight
      <4>7. QED BY <4>1, <4>5, <4>6
    <3>3. QED BY <3>1, <3>2
  <2>3. next = {r \in pstable' : r.pid > v.at}
    BY DEF C!After, C!Scanned
  <2>4. walk' = IF next = {} THEN [v EXCEPT !.at = Nil]
                ELSE [v EXCEPT !.at = row.pid, !.seen = Append(@, row)]
    BY <1>3 DEF C!GetNext
  <2> HIDE DEF v
  <2>5. WalkRight(walk', pstable', born, proc)
    BY <2>1, <2>2, <2>3, <2>4, <1>1, WalkGoesOn
  <2>6. QED BY <1>1, <1>3, <2>1, <2>5 DEF ProcInv
<1>4. QED BY <1>2, <1>3

LEMMA ReserveKeeps == ProcInv /\ C!Reserve => ProcInv'
<1> SUFFICES ASSUME ProcInv, C!Reserve PROVE ProcInv'
  OBVIOUS
<1>1. /\ ProcsRight(born, proc) /\ born' = born /\ proc' = proc /\ walk' = walk /\ walk = Nil
      /\ C!get_ps_data /\ pstable' # Nil
  BY DEF ProcInv, C!Reserve
<1>2. QED BY <1>1, TableRead DEF ProcInv

\* A process that starts has a number no row has.
LEMMA StartKeeps == ASSUME NEW p \in Pids PROVE ProcInv /\ C!Start(p) => ProcInv'
<1> SUFFICES ASSUME ProcInv, C!Start(p) PROVE ProcInv'
  OBVIOUS
<1>1. /\ proc[p] = Nil /\ born' = born + 1 /\ proc' = [proc EXCEPT ![p] = born + 1]
      /\ pstable' = pstable /\ walk' = walk
  BY DEF C!Start
<1>2. ProcsRight(born, proc) /\ born \in Nat /\ proc \in [Pids -> 1..born \cup {Nil}]
  BY DEF ProcInv, ProcsRight
<1> DEFINE g == proc'
<1>3. g[p] = born + 1 /\ \A q \in Pids : q # p => g[q] = proc[q]
  BY <1>1, <1>2
<1>4. /\ g \in [Pids -> 1..born + 1 \cup {Nil}] /\ 1..born \subseteq 1..born + 1
      /\ born + 1 # Nil /\ born + 1 \notin 1..born /\ \A q \in Pids : proc[q] # born + 1
  BY <1>1, <1>2, ProcFacts
<1> HIDE DEF g
<1>5. ProcsRight(born + 1, g)
  <2>1. \A q, o \in Pids : g[q] = g[o] /\ g[q] # Nil => q = o
    BY <1>2, <1>3, <1>4 DEF ProcsRight
  <2>2. QED BY <1>2, <1>4, <2>1 DEF ProcsRight
<1>6. Living(g) = Living(proc) \cup {born + 1}
  BY <1>1, <1>3, <1>4 DEF Living
<1>7. RowsOf(born) \subseteq RowsOf(born + 1)
  BY <1>4 DEF RowsOf
<1>8. ASSUME TableRight(pstable, born, proc) PROVE TableRight(pstable, born + 1, g)
  <2> SUFFICES ASSUME NEW r \in pstable, r.who \in Living(g) PROVE g[r.pid] = r.who
    BY <1>7, <1>8 DEF TableRight
  <2>1. r.who \in 1..born /\ r.pid \in Pids
    BY <1>8 DEF TableRight, RowsOf
  <2>2. r.who \in Living(proc)
    BY <2>1, <1>4, <1>6
  <2>3. proc[r.pid] = r.who /\ proc[r.pid] # Nil
    BY <2>2, <1>8 DEF TableRight, Living
  <2>4. QED BY <2>1, <2>3, <1>1, <1>3
<1>9. ASSUME WalkRight(walk, pstable, born, proc) PROVE WalkRight(walk, pstable, born + 1, g)
  <2>1. walk \in [at : Int \cup {Nil}, seen : Seq(RowsOf(born)), steady : SUBSET (1..born)]
    BY <1>9 DEF WalkRight
  <2>2. Seq(RowsOf(born)) \subseteq Seq(RowsOf(born + 1))
    BY <1>7
  <2>3. walk \in [at : Int \cup {Nil}, seen : Seq(RowsOf(born + 1)), steady : SUBSET (1..born + 1)]
        /\ walk.steady \subseteq 1..born
    BY <2>1, <2>2, <1>4
  <2>4. \A q \in Pids : g[q] \in walk.steady => g[q] = proc[q]
    BY <2>3, <1>3, <1>4
  <2>5. QED BY <1>9, <2>3, <2>4, <1>6 DEF WalkRight
<1>10. QED BY <1>1, <1>5, <1>8, <1>9 DEF ProcInv, g

LEMMA ExitKeeps == ASSUME NEW p \in Pids PROVE ProcInv /\ C!Exit(p) => ProcInv'
<1> SUFFICES ASSUME ProcInv, C!Exit(p) PROVE ProcInv'
  OBVIOUS
<1>1. /\ proc[p] # Nil /\ born' = born /\ proc' = [proc EXCEPT ![p] = Nil] /\ pstable' = pstable
      /\ walk' = IF walk = Nil THEN Nil ELSE [walk EXCEPT !.steady = @ \ {proc[p]}]
  BY DEF C!Exit
<1>2. ProcsRight(born, proc) /\ born \in Nat /\ proc \in [Pids -> 1..born \cup {Nil}]
  BY DEF ProcInv, ProcsRight
<1> DEFINE g == proc'
<1>3. g[p] = Nil /\ (\A q \in Pids : q # p => g[q] = proc[q]) /\ g \in [Pids -> 1..born \cup {Nil}]
  BY <1>1, <1>2
<1> HIDE DEF g
<1>4. ProcsRight(born, g)
  BY <1>2, <1>3 DEF ProcsRight
<1>5. Living(g) = Living(proc) \ {proc[p]}
  <2>1. \A q \in Pids : q # p => proc[q] # proc[p] \/ proc[q] = Nil
    BY <1>2 DEF ProcsRight
  <2>2. QED BY <2>1, <1>1, <1>3 DEF Living
<1>6. ASSUME TableRight(pstable, born, proc) PROVE TableRight(pstable, born, g)
  <2> SUFFICES ASSUME NEW r \in pstable, r.who \in Living(g) PROVE g[r.pid] = r.who
    BY <1>6 DEF TableRight
  <2>1. proc[r.pid] = r.who /\ r.who # proc[p] /\ r.pid \in Pids
    BY <1>5, <1>6 DEF TableRight, RowsOf
  <2>2. QED BY <2>1, <1>3
<1>7. ASSUME walk # Nil, WalkRight(walk, pstable, born, proc) PROVE WalkRight(walk', pstable, born, g)
  <2>1. walk' = [walk EXCEPT !.steady = @ \ {proc[p]}]
    BY <1>1, <1>7
  <2>2. walk \in [at : Int \cup {Nil}, seen : Seq(RowsOf(born)), steady : SUBSET (1..born)]
    BY <1>7 DEF WalkRight
  <2>3. /\ walk' \in [at : Int \cup {Nil}, seen : Seq(RowsOf(born)), steady : SUBSET (1..born)]
        /\ walk'.at = walk.at /\ walk'.seen = walk.seen /\ walk'.steady = walk.steady \ {proc[p]}
    BY <2>1, <2>2
  <2>4. Listed(walk') = Listed(walk)
    BY <2>3 DEF Listed
  <2>5. \A q \in Pids : g[q] \in walk'.steady => g[q] = proc[q]
    <3> SUFFICES ASSUME NEW q \in Pids, g[q] \in walk'.steady, q = p PROVE FALSE
      BY <1>3
    <3>1. Nil \in walk.steady
      BY <1>3, <2>3
    <3>2. QED BY <3>1, <1>7 DEF WalkRight, Living
  <2> DEFINE v == walk'
  <2> HIDE DEF v
  <2>6. WalkRight(v, pstable, born, g)
    BY <1>7, <2>3, <2>4, <2>5, <1>5 DEF WalkRight, v
  <2>7. QED BY <2>6 DEF v
<1>8. QED BY <1>1, <1>4, <1>6, <1>7 DEF ProcInv, g

LEMMA ProcInvInductive == ProcInv /\ [C!ProcNext]_procVars => ProcInv'
<1> SUFFICES ASSUME ProcInv, [C!ProcNext]_procVars PROVE ProcInv'
  OBVIOUS
<1>1. CASE C!EndWalk
  BY <1>1 DEF ProcInv, C!EndWalk
<1>2. CASE C!Act
  BY <1>2 DEF ProcInv, C!Act
<1>3. CASE C!Tick
  BY <1>3 DEF ProcInv, C!Tick
<1>4. CASE UNCHANGED procVars
  BY <1>4 DEF ProcInv, procVars
<1>5. QED BY <1>1, <1>2, <1>3, <1>4, GetNextKeeps, ReserveKeeps, StartKeeps, ExitKeeps DEF C!ProcNext

LEMMA WalkIsComplete == ProcInv => C!WalkComplete
<1> SUFFICES ASSUME ProcInv, walk # Nil
             PROVE  /\ \A j, k \in DOMAIN walk.seen : j < k => walk.seen[j].pid < walk.seen[k].pid
                    /\ walk.at = Nil => walk.steady \subseteq C!Whos(C!Range(walk.seen))
  BY DEF C!WalkComplete
<1>1. WalkRight(walk, pstable, born, proc)
  BY DEF ProcInv
<1>2. walk.seen \in Seq(RowsOf(born)) /\ DOMAIN walk.seen = 1..Len(walk.seen)
  BY <1>1 DEF WalkRight
<1>3. C!Whos(C!Range(walk.seen)) = Listed(walk)
  BY <1>2 DEF C!Whos, C!Range, Listed
<1>4. ASSUME walk.at = Nil PROVE walk.steady \subseteq Listed(walk)
  BY <1>1, <1>4 DEF WalkRight, Living
<1>5. QED BY <1>1, <1>2, <1>3, <1>4 DEF WalkRight

-----------------------------------------------------------------------------
(* TtyDevices: a list that is complete in the file is one that was found.    *)

TtyInv ==
  /\ at # "search" => devl \in found \cup {{}}
  /\ psfile # Nil /\ psfile.names # Nil => psfile.names \in found \cup {{}}

LEMMA TtyInvInductive == TtyInv /\ [Y!TtyNext]_ttyVars => TtyInv'
<1> SUFFICES ASSUME TtyInv, [Y!TtyNext]_ttyVars PROVE TtyInv'
  OBVIOUS
<1> USE DEF TtyInv
<1>1. CASE Y!readata
  BY <1>1 DEF Y!readata, Y!Newer, Y!Read
<1>2. CASE Y!NotRead
  BY <1>2 DEF Y!NotRead
<1>3. CASE Y!gdev
  BY <1>3 DEF Y!gdev
<1>4. CASE Y!wrdata
  <2>1. devl \in found \cup {{}} /\ devl' = devl /\ found' = found /\ psfile' \in Y!Written \cup {psfile, Nil}
    BY <1>4 DEF Y!wrdata
  <2>2. \A x \in Y!Written : x.names = devl \/ x.names = Nil
    BY DEF Y!Written
  <2>3. QED BY <2>1, <2>2
<1>5. CASE Y!ChangeDev
  BY <1>5 DEF Y!ChangeDev
<1>6. CASE Y!Pass
  BY <1>6 DEF Y!Pass
<1>7. CASE Y!Restart
  BY <1>7 DEF Y!Restart
<1>8. CASE UNCHANGED ttyVars
  BY <1>8 DEF ttyVars
<1>9. QED BY <1>1, <1>2, <1>3, <1>4, <1>5, <1>6, <1>7, <1>8 DEF Y!TtyNext

-----------------------------------------------------------------------------
(* HealthRules: an open alarm is one with a level, and the manager knows of it. *)

Level == 0..3
RuleInv ==
  /\ rule \in H!RuleNames /\ new \in Level /\ prev \in Level /\ ruleTold \in Level
  /\ state \in {"NOTINIT", "INIT", "OPEN", "CONTINUE", "CLOSE"} /\ closed \in BOOLEAN
  /\ state \in {"OPEN", "CONTINUE"} <=> new > 0
  /\ ruleTold > 0 <=> new > 0
  /\ prev <= ruleTold \/ closed
  /\ new <= ruleTold \/ (closed /\ new <= prev)

LEMMA ConditionIsLevel == ASSUME rule \in H!RuleNames, NEW r PROVE H!Condition(r) \in Level
<1> USE DEF H!OK, H!INFO, H!WARNING, H!ERROR, Level
<1>1. H!SWAP_rule(r) \in Level
  BY DEF H!SWAP_rule
<1>2. H!Kernel_rule(r) \in Level
  BY DEF H!Kernel_rule
<1>3. H!NFS_rule(r) \in Level
  BY DEF H!NFS_rule
<1>4. H!CPU_rule(r) \in Level
  BY DEF H!CPU_rule
<1>5. H!RAM_rule(r) \in Level
  BY DEF H!RAM_rule
<1>6. H!DNLC_rule(r) \in Level
  BY DEF H!DNLC_rule
<1>7. QED BY <1>1, <1>2, <1>3, <1>4, <1>5, <1>6 DEF H!Condition, H!RuleNames

LEMMA RuleInvInductive == RuleInv /\ [H!Next]_ruleVars => RuleInv'
<1> SUFFICES ASSUME RuleInv, [H!Next]_ruleVars PROVE RuleInv'
  OBVIOUS
<1>1. CASE UNCHANGED ruleVars
  BY <1>1 DEF RuleInv, ruleVars
<1>2. CASE H!Next
  <2>1. new' \in Level /\ rule' = rule
    BY <1>2, ConditionIsLevel DEF RuleInv, H!Next, H!refresh_all_HM_data, H!Refresh
  <2> USE DEF RuleInv, Level, H!OK
  <2>2. CASE H!Quiet
    BY <2>1, <2>2 DEF H!Quiet
  <2>3. CASE H!Open
    BY <2>1, <2>3 DEF H!Open
  <2>4. CASE H!Continue
    BY <2>1, <2>4 DEF H!Continue
  <2>5. CASE H!Close
    BY <2>1, <2>5 DEF H!Close
  <2>6. QED BY <1>2, <2>2, <2>3, <2>4, <2>5 DEF H!Next, H!refresh_all_HM_data
<1>3. QED BY <1>1, <1>2

LEMMA AlarmIsKnown == RuleInv => H!AlarmKnown
BY DEF RuleInv, Level, H!AlarmKnown, H!OK

-----------------------------------------------------------------------------
(* HealthDisks: in a refresh the disks that were read have a touched row that *)
(* matches them, the first with its name, and the cursor whose end is tested  *)
(* says how many disks of the list these are.                                 *)

Disks == D!Disks
Row == [name : Disks, level : Level, load : DiskReadings, touched : BOOLEAN]
NamesOf(tab) == {tab[k].name : k \in 1..Len(tab)}
TouchedIn(tab) == {tab[k].name : k \in {j \in 1..Len(tab) : tab[j].touched}}
\* A reading of d finds a row with one of these names.
Hit(names, d) == \E e \in names : D!Matches(e, d)

\* The levels that the manager was told of.
LevelsTold(tab, f) ==
  \A k \in 1..Len(tab) : tab[k].level > 0 => f[tab[k].name] \in {tab[k].level, 4}
\* A disk that was read has its first row touched.
FirstTouched(tab) ==
  \A j, k \in 1..Len(tab) : tab[k].touched /\ tab[j].name = tab[k].name => k <= j
OneRowEach(tab) == \A j, k \in 1..Len(tab) : tab[j].name = tab[k].name => j = k

DiskTyped ==
  /\ kernel \subseteq Disks /\ kernel # {}
  /\ list \in Seq(Disks) /\ list # <<>>
  /\ detail \in Nat \ {0} /\ srv \in Nat \ {0} /\ detailAgain \in BOOLEAN /\ srvAgain \in BOOLEAN
  /\ table \in Seq(Row) /\ told \in [Disks -> 0..4]
  /\ pass \in {"none", "new", "construct", "refresh"}

CursorRight ==
  /\ ~srvAgain => srv <= Len(list)
  /\ pass # "none" => off = TRUE
  /\ off = FALSE => srv = 1

RefreshRight ==
  /\ pass = "refresh" =>
       /\ table # <<>> /\ FirstTouched(table)
       /\ ~srvAgain => \A m \in 1..Len(list) : m < srv => Hit(TouchedIn(table), list[m])
  /\ pass = "none" /\ last = "refresh" =>
       /\ OneRowEach(table)
       /\ ~srvAgain => \A m \in 1..Len(list) : Hit(NamesOf(table), list[m])

DiskInv == DiskTyped /\ CursorRight /\ RefreshRight /\ LevelsTold(table, told)

LEMMA OrderFacts ==
  /\ Order \in Seq(Disks)
  /\ \A S : D!Sorted(S) \in Seq(Disks)
  /\ \A S : S \subseteq Disks /\ S # {} => D!Sorted(S) # <<>>
<1>1. Order \in Seq(Disks)
  BY HostAssumption DEF D!DiskAssumption, Disks
<1>2. \A s, S : D!Sublist(s, S) = Sublist(s, S)
  BY DEF D!Sublist, Sublist
<1>3. \A S : D!Sorted(S) = Sublist(Order, S)
  BY <1>2 DEF D!Sorted
<1>4. \A S : Sublist(Order, S) \in Seq(Disks)
  BY <1>1, SublistMembers
<1>5. ASSUME NEW S, S \subseteq Disks, S # {} PROVE Sublist(Order, S) # <<>>
  <2>1. Disks = {Order[k] : k \in 1..Len(Order)}
    BY <1>1 DEF Disks, D!Disks, D!Range
  <2>2. PICK m \in 1..Len(Order) : Order[m] \in S
    BY <2>1, <1>5
  <2>3. PICK r : r = Sublist(Order, S)
    OBVIOUS
  <2>4. MembersOf(r, Order, S)
    BY <1>1, <2>3, SublistMembers
  <2>5. PICK j \in 1..Len(r) : Order[m] = r[j]
    BY <2>2, <2>4 DEF MembersOf
  <2>6. r # <<>>
    BY <2>5
  <2>7. QED BY <2>3, <2>6
<1>6. QED BY <1>1, <1>3, <1>4, <1>5

\* The two cursors of a read: the second one is in the list, and goes on in it
\* unless it starts again.
LEMMA CursorMoves ==
  ASSUME DiskTyped, CursorRight, D!krgetdiskdetail, D!krgetdisksrv
  PROVE  /\ list' \in Seq(Disks) /\ list' # <<>>
         /\ detail' \in Nat \ {0} /\ srv' \in Nat \ {0} /\ detailAgain' \in BOOLEAN /\ srvAgain' = FALSE
         /\ D!SrvAt \in 1..Len(list') /\ D!Name \in Disks
         /\ D!SrvAt = 1 \/ (list' = list /\ D!SrvAt = srv /\ ~srvAgain)
         /\ srv' = IF D!SrvAt < Len(list') THEN D!SrvAt + 1 ELSE 1
         /\ srv' <= Len(list')
<1> DEFINE to == IF detailAgain THEN 1 ELSE detail
           s == D!SrvAt
           l == list'
<1>1. /\ list' = IF to = 1 THEN D!Sorted(kernel) ELSE list
      /\ detailAgain' = (to = 1 /\ D!Changed) /\ detail' = IF to < Len(list') THEN to + 1 ELSE 1
  BY DEF D!krgetdiskdetail, D!Step
<1>2. srvAgain' = FALSE /\ srv' = IF s < Len(list') THEN s + 1 ELSE 1
  BY DEF D!krgetdisksrv, D!Step
<1>3. l \in Seq(Disks) /\ l # <<>> /\ Len(l) \in Nat /\ Len(l) > 0
  <2>1. D!Sorted(kernel) \in Seq(Disks) /\ D!Sorted(kernel) # <<>>
    BY OrderFacts DEF DiskTyped
  <2>2. l \in Seq(Disks) /\ l # <<>>
    BY <1>1, <2>1 DEF DiskTyped
  <2> HIDE DEF l
  <2>3. QED BY <2>2
<1>4. to \in Nat \ {0} /\ detail' \in Nat \ {0}
  BY <1>1, <1>3 DEF DiskTyped
<1>5. detailAgain' \in BOOLEAN
  BY <1>1
<1>6. ~detailAgain' => list' = list
  BY <1>1 DEF D!Changed
<1>7. s = IF srvAgain \/ detailAgain' THEN 1 ELSE srv
  BY DEF D!SrvAt
<1>8. s = 1 \/ (list' = list /\ s = srv /\ ~srvAgain)
  BY <1>6, <1>7
<1>9. s \in 1..Len(l)
  BY <1>3, <1>8 DEF CursorRight, DiskTyped
<1>10. D!Name = l[s]
  BY DEF D!Name
<1> HIDE DEF s, l, to
<1>11. D!Name \in Disks
  BY <1>3, <1>9, <1>10
<1>12. (IF s < Len(l) THEN s + 1 ELSE 1) \in Nat \ {0} /\ (IF s < Len(l) THEN s + 1 ELSE 1) <= Len(l)
  BY <1>3, <1>9
<1>13. srv' \in Nat \ {0} /\ srv' <= Len(l)
  BY <1>2, <1>12 DEF l
<1>14. QED BY <1>2, <1>3, <1>4, <1>5, <1>8, <1>9, <1>11, <1>13 DEF s, l

\* A disk that was read has a touched row, and the others keep theirs.
LEMMA UpdateKeeps ==
  ASSUME pass \in {"new", "construct", "refresh"}, table \in Seq(Row), LevelsTold(table, told), NEW d \in Disks, NEW load \in DiskReadings,
         pass = "refresh" => table # <<>> /\ FirstTouched(table)
  PROVE  LET tab == D!Updated(d, load)
         IN /\ tab \in Seq(Row) /\ tab # <<>> /\ LevelsTold(tab, told)
            /\ pass = "refresh" => /\ FirstTouched(tab) /\ NamesOf(table) \subseteq NamesOf(tab)
                                   /\ TouchedIn(table) \subseteq TouchedIn(tab) /\ Hit(TouchedIn(tab), d)
<1> DEFINE e == [name |-> d, level |-> 0, load |-> load, touched |-> TRUE]
           n == Len(table)
           hits == {k \in 1..n : D!Matches(table[k].name, d)}
<1>1. e \in Row /\ e = D!Entry(d, load) /\ e.level = 0 /\ e.name = d /\ e.touched
  BY DEF Row, Level, D!Entry
<1>2. n \in Nat /\ DOMAIN table = 1..n /\ \A k \in 1..n : table[k] \in Row
  OBVIOUS
<1>3. D!Hits(d) = hits /\ D!Matches(d, d)
  BY <1>2 DEF D!Hits, D!Matches
<1>4. CASE pass = "new"
  <2>1. D!Updated(d, load) = <<e>>
    BY <1>1, <1>4 DEF D!Updated
  <2>2. <<e>> \in Seq(Row) /\ <<e>> # <<>> /\ LevelsTold(<<e>>, told)
    BY <1>1 DEF LevelsTold
  <2>3. QED BY <2>1, <2>2, <1>4
<1>5. CASE pass # "new" /\ (pass = "construct" \/ hits = {})
  <2> DEFINE q == Append(table, e)
  <2>1. D!Updated(d, load) = q
    BY <1>1, <1>3, <1>5 DEF D!Updated
  <2>2. /\ q \in Seq(Row) /\ Len(q) = n + 1 /\ q[n + 1] = e /\ q # <<>>
        /\ \A k \in 1..n : q[k] = table[k]
        /\ \A k \in 1..Len(q) : k \in 1..n \/ k = n + 1
    <3>1. e \in Row /\ n \in Nat /\ table \in Seq(Row)
      BY <1>1, <1>2
    <3> HIDE DEF e, hits
    <3>2. QED BY <3>1
  <2>3. e.level = 0 /\ e.name = d /\ e.touched
    BY <1>1
  <2> HIDE DEF q, e
  <2>4. LevelsTold(q, told)
    BY <2>2, <2>3 DEF LevelsTold
  <2>5. NamesOf(table) \subseteq NamesOf(q)
    BY <2>2, <1>2 DEF NamesOf
  <2>6. TouchedIn(table) \subseteq TouchedIn(q) /\ Hit(TouchedIn(q), d)
    <3>1. TouchedIn(table) \subseteq TouchedIn(q) /\ d \in TouchedIn(q)
      BY <2>2, <2>3, <1>2 DEF TouchedIn
    <3>2. QED BY <3>1, <1>3 DEF Hit
  <2>7. ASSUME pass = "refresh" PROVE FirstTouched(q)
    <3> SUFFICES ASSUME NEW j \in 1..Len(q), NEW k \in 1..Len(q), q[k].touched, q[j].name = q[k].name
                 PROVE  k <= j
      BY DEF FirstTouched
    <3>1. hits = {}
      BY <1>5, <2>7
    <3>2. CASE j \in 1..n /\ k \in 1..n
      BY <3>2, <2>2, <2>7 DEF FirstTouched
    <3>3. CASE j \in 1..n /\ k = n + 1
      BY <3>1, <3>3, <2>2, <2>3, <1>3
    <3>4. CASE j = n + 1
      BY <3>4, <2>2, <1>2
    <3>5. QED BY <3>2, <3>3, <3>4, <2>2
  <2>8. QED BY <2>1, <2>2, <2>4, <2>5, <2>6, <2>7
<1>6. CASE pass = "refresh" /\ hits # {}
  <2> DEFINE k0 == CHOOSE k \in hits : \A j \in hits : k <= j
             q == [table EXCEPT ![k0].load = load, ![k0].touched = TRUE]
  <2>1. D!Updated(d, load) = q
    BY <1>3, <1>6 DEF D!Updated
  <2>2. k0 \in hits /\ \A j \in hits : k0 <= j
    <3>1. hits \in SUBSET Nat
      BY <1>2
    <3>2. \E k \in hits : \A j \in hits : k <= j
      BY <3>1, <1>6, LeastNumber
    <3> HIDE DEF hits
    <3>3. QED BY <3>2
  <2> HIDE DEF k0
  <2>3. k0 \in 1..n /\ D!Matches(table[k0].name, d) /\ table[k0] \in Row
    BY <2>2, <1>2
  <2> DEFINE u == [table[k0] EXCEPT !.load = load, !.touched = TRUE]
  <2>4. u \in Row /\ u.name = table[k0].name /\ u.touched /\ u.level = table[k0].level
    BY <2>3 DEF Row
  <2>5. q = [table EXCEPT ![k0] = u]
    BY <1>2, <2>3
  <2> HIDE DEF q, u
  <2>6. q \in Seq(Row) /\ Len(q) = n /\ q # <<>> /\ q[k0] = u /\ \A k \in 1..n : k # k0 => q[k] = table[k]
    BY <2>3, <2>4, <2>5, <1>2
  <2>7. \A k \in 1..n : q[k].name = table[k].name /\ q[k].level = table[k].level /\ (table[k].touched => q[k].touched)
    BY <2>3, <2>4, <2>6
  <2>8. \A k \in 1..n : q[k].touched => table[k].touched \/ k = k0
    BY <2>6
  <2>9. LevelsTold(q, told)
    BY <2>6, <2>7 DEF LevelsTold
  <2>10. NamesOf(table) \subseteq NamesOf(q)
    BY <2>6, <2>7 DEF NamesOf
  <2>11. TouchedIn(table) \subseteq TouchedIn(q) /\ Hit(TouchedIn(q), d)
    <3>1. TouchedIn(table) \subseteq TouchedIn(q)
      BY <2>6, <2>7 DEF TouchedIn
    <3>2. table[k0].name \in TouchedIn(q)
      BY <2>3, <2>4, <2>6 DEF TouchedIn
    <3>3. QED BY <3>1, <3>2, <2>3 DEF Hit
  <2>12. FirstTouched(q)
    <3> SUFFICES ASSUME NEW j \in 1..n, NEW k \in 1..n, q[k].touched, q[j].name = q[k].name PROVE k <= j
      BY <2>6 DEF FirstTouched
    <3>1. CASE k = k0
      BY <3>1, <2>2, <2>3, <2>7
    <3>2. CASE k # k0
      BY <3>2, <2>7, <2>8, <1>6 DEF FirstTouched
    <3>3. QED BY <3>1, <3>2
  <2>13. QED BY <2>1, <2>6, <2>9, <2>10, <2>11, <2>12
<1>7. QED BY <1>4, <1>5, <1>6

LEMMA SameSublist == \A s, S : D!Sublist(s, S) = Sublist(s, S)
BY DEF D!Sublist, Sublist

\* The rows that a pass leaves, and after a refresh each disk in one of them.
LEMMA SweptRows ==
  ASSUME NEW tab \in Seq(Row), tab # <<>>, pass = "refresh" => FirstTouched(tab), NEW q, q = D!Swept(tab)
  PROVE  /\ q \in Seq(Row) /\ \A k \in 1..Len(q) : \E m \in 1..Len(tab) : q[k] = tab[m]
         /\ pass = "refresh" => OneRowEach(q) /\ TouchedIn(tab) \subseteq NamesOf(q)
<1>1. CASE pass # "refresh"
  BY <1>1 DEF D!Swept
<1>2. CASE pass = "refresh"
  <2> DEFINE n == Len(tab)
  <2>1. n \in Nat /\ n > 0 /\ \A k \in 1..n : tab[k] \in Row
    OBVIOUS
  <2>2. PICK S : S = {e \in D!Range(tab) : e.touched}
    OBVIOUS
  <2>3. \A k \in 1..n : tab[k] \in S <=> tab[k].touched
    BY <2>2 DEF D!Range
  <2>4. PICK t : t = Tail(tab) /\ t \in Seq(Row) /\ Len(t) = n - 1 /\ \A k \in 1..n - 1 : t[k] = tab[k + 1]
    <3>1. Tail(tab) \in Seq(Row) /\ Len(Tail(tab)) = n - 1 /\ \A k \in 1..n - 1 : Tail(tab)[k] = tab[k + 1]
      BY <2>1
    <3>2. QED BY <3>1, Zenon
  <2>5. PICK r : r = Sublist(t, S)
    OBVIOUS
  <2>6. q = <<tab[1]>> \o r
    <3>1. q = <<tab[1]>> \o D!Sublist(t, S)
      BY <1>2, <2>2, <2>4 DEF D!Swept
    <3>2. QED BY <2>5, <3>1, SameSublist
  <2>7. r \in Seq(Row) /\ \E e : Picks(e, r, t, S, Len(t))
    BY <2>4, <2>5, SublistPicks
  <2>8. PICK e : Picks(e, r, t, S, Len(t))
    BY <2>7
  <2>9. /\ e \in [1..Len(r) -> 1..n - 1]
        /\ \A k \in 1..Len(r) : r[k] = t[e[k]] /\ r[k] \in S
        /\ \A j, k \in 1..Len(r) : j < k => e[j] < e[k]
        /\ \A m \in 1..n - 1 : t[m] \in S => \E k \in 1..Len(r) : e[k] = m
    BY <2>4, <2>8 DEF Picks
  <2> DEFINE c == [k \in 1..Len(r) + 1 |-> IF k = 1 THEN 1 ELSE e[k - 1] + 1]
  <2>10. Len(r) \in Nat /\ tab[1] \in Row
    BY <2>1, <2>7
  <2>11. q \in Seq(Row) /\ Len(q) = Len(r) + 1 /\ q[1] = tab[1] /\ \A k \in 1..Len(r) : q[k + 1] = r[k]
    BY <2>6, <2>7, <2>10
  <2>12. \A k \in 1..Len(q) : k = 1 \/ (k - 1 \in 1..Len(r) /\ k = (k - 1) + 1)
    BY <2>10, <2>11
  <2>13. c[1] = 1 /\ \A k \in 1..Len(r) : c[k + 1] = e[k] + 1 /\ e[k] \in 1..n - 1
    BY <2>9, <2>10
  <2> HIDE DEF c
  <2>14. \A k \in 1..Len(r) : r[k] = tab[c[k + 1]] /\ c[k + 1] \in 2..n /\ tab[c[k + 1]].touched
    <3> TAKE k \in 1..Len(r)
    <3>1. e[k] \in 1..n - 1 /\ c[k + 1] = e[k] + 1 /\ r[k] = t[e[k]] /\ r[k] \in S
      BY <2>9, <2>13
    <3>2. e[k] + 1 \in 2..n /\ t[e[k]] = tab[e[k] + 1]
      BY <3>1, <2>4, <2>1
    <3>3. QED BY <3>1, <3>2, <2>3
  <2>15. \A k \in 1..Len(q) : q[k] = tab[c[k]] /\ c[k] \in 1..n /\ (k # 1 => tab[c[k]].touched)
    <3> TAKE k \in 1..Len(q)
    <3>1. CASE k = 1
      BY <3>1, <2>1, <2>11, <2>13
    <3>2. CASE k # 1
      <4>1. k - 1 \in 1..Len(r) /\ q[k] = r[k - 1]
        BY <3>2, <2>11, <2>12
      <4>2. r[k - 1] = tab[c[k]] /\ c[k] \in 2..n /\ tab[c[k]].touched
        BY <4>1, <2>12, <2>14, <3>2
      <4>3. QED BY <4>1, <4>2
    <3>3. QED BY <3>1, <3>2
  <2>16. \A j, k \in 1..Len(q) : j < k => c[j] < c[k]
    <3> SUFFICES ASSUME NEW j \in 1..Len(q), NEW k \in 1..Len(q), j < k PROVE c[j] < c[k]
      OBVIOUS
    <3>1. k - 1 \in 1..Len(r) /\ c[k] = e[k - 1] + 1 /\ e[k - 1] \in 1..n - 1
      BY <2>12, <2>13
    <3>2. CASE j = 1
      BY <3>1, <3>2, <2>13, <2>1
    <3>3. CASE j # 1
      <4>1. j - 1 \in 1..Len(r) /\ c[j] = e[j - 1] + 1 /\ e[j - 1] \in 1..n - 1 /\ j - 1 < k - 1
        BY <3>3, <2>12, <2>13
      <4>2. e[j - 1] < e[k - 1]
        BY <4>1, <3>1, <2>9
      <4> DEFINE x == e[j - 1]
                 y == e[k - 1]
      <4>3. x \in Int /\ y \in Int /\ x < y /\ c[j] = x + 1 /\ c[k] = y + 1
        BY <4>1, <4>2, <3>1
      <4> HIDE DEF x, y
      <4>4. QED BY <4>3
    <3>4. QED BY <3>2, <3>3
  <2>17. OneRowEach(q)
    <3>1. ASSUME NEW j \in 1..Len(q), NEW k \in 1..Len(q), j < k, q[j].name = q[k].name PROVE FALSE
      <4>1. tab[c[k]].touched /\ tab[c[j]].name = tab[c[k]].name /\ c[j] \in 1..n /\ c[k] \in 1..n /\ c[j] < c[k]
        BY <3>1, <2>15, <2>16
      <4>2. c[k] <= c[j]
        BY <4>1, <1>2 DEF FirstTouched
      <4>3. QED BY <4>1, <4>2
    <3>2. \A j, k \in 1..Len(q) : j < k \/ k < j \/ j = k
      BY <2>10, <2>11
    <3>3. QED BY <3>1, <3>2 DEF OneRowEach
  <2>18. TouchedIn(tab) \subseteq NamesOf(q)
    <3> SUFFICES ASSUME NEW m \in 1..n, tab[m].touched PROVE \E k \in 1..Len(q) : q[k].name = tab[m].name
      BY DEF TouchedIn, NamesOf
    <3>1. CASE m = 1
      BY <3>1, <2>10, <2>11
    <3>2. CASE m # 1
      <4>1. m - 1 \in 1..n - 1 /\ t[m - 1] = tab[m]
        BY <3>2, <2>1, <2>4
      <4>2. t[m - 1] \in S
        BY <4>1, <2>3
      <4>3. PICK k \in 1..Len(r) : e[k] = m - 1
        BY <4>1, <4>2, <2>9
      <4>4. r[k] = t[e[k]] /\ q[k + 1] = r[k] /\ k + 1 \in 1..Len(q)
        BY <2>9, <2>10, <2>11
      <4>5. QED BY <4>1, <4>3, <4>4
    <3>3. QED BY <3>1, <3>2
  <2>19. QED BY <1>2, <2>11, <2>15, <2>17, <2>18
<1>3. QED BY <1>1, <1>2

LEMMA OneElement ==
  ASSUME NEW n \in Nat, NEW W \in SUBSET (1..n), ~ (Cardinality(W) > 1), NEW k \in W
  PROVE  W = {k}
<1>1. IsFiniteSet(W)
  <2>1. IsFiniteSet(1..n)
    BY FS_Interval
  <2>2. QED BY <2>1, FS_Subset
<1>2. Cardinality(W) \in Nat /\ IsFiniteSet(W \ {k}) /\ Cardinality(W \ {k}) = Cardinality(W) - 1
      /\ Cardinality(W \ {k}) \in Nat
  BY <1>1, FS_CardinalityType, FS_RemoveElement
<1>3. W \ {k} = {}
  BY <1>2, FS_EmptySet
<1>4. QED BY <1>3

\* The check of the levels at the end of a pass tells the manager of each change.
LEMMA CheckTells ==
  ASSUME NEW tab \in Seq(Row), LevelsTold(tab, told), told \in [Disks -> 0..4], D!check_state_DISK(tab)
  PROVE  /\ table' \in Seq(Row) /\ Len(table') = Len(tab) /\ \A k \in 1..Len(tab) : table'[k].name = tab[k].name
         /\ told' \in [Disks -> 0..4] /\ LevelsTold(table', told')
<1> DEFINE n == Len(tab)
           Rows(d) == {k \in 1..n : tab[k].name = d}
<1>1. n \in Nat /\ DOMAIN tab = 1..n /\ \A k \in 1..n : tab[k] \in Row
  OBVIOUS
<1>2. PICK m :
        LET After(k) == IF k <= m THEN D!NewLevel(tab[k]) ELSE tab[k].level
            At(d) == {k \in DOMAIN tab : tab[k].name = d}
        IN /\ events' = events + (IF m < Len(tab) THEN 1 ELSE 0)
           /\ table' = [k \in DOMAIN tab |-> [tab[k] EXCEPT !.level = After(k)]]
           /\ told' = [d \in D!Disks |->
                IF D!Cardinality(At(d)) > 1 THEN D!Mixed
                ELSE IF \E k \in At(d) : After(k) # tab[k].level
                     THEN After(CHOOSE k \in At(d) : TRUE) ELSE told[d]]
  BY Zenon DEF D!check_state_DISK
<1> DEFINE a(k) == IF k <= m THEN D!NewLevel(tab[k]) ELSE tab[k].level
<1>3. \A d : D!Cardinality(Rows(d)) = Cardinality(Rows(d))
  BY DEF D!Cardinality, Cardinality
<1>4. told' = [d \in Disks |->
        IF Cardinality(Rows(d)) > 1 THEN 4
        ELSE IF \E k \in Rows(d) : a(k) # tab[k].level
             THEN a(CHOOSE k \in Rows(d) : TRUE) ELSE told[d]]
  <2>1. told' = [d \in Disks |->
          IF D!Cardinality(Rows(d)) > 1 THEN 4
          ELSE IF \E k \in Rows(d) : a(k) # tab[k].level
               THEN a(CHOOSE k \in Rows(d) : TRUE) ELSE told[d]]
    BY <1>1, <1>2 DEF D!Mixed, Disks
  <2> HIDE DEF a, Rows
  <2>2. QED BY <2>1, <1>3
<1>5. table' = [k \in 1..n |-> [tab[k] EXCEPT !.level = a(k)]]
  BY <1>1, <1>2
<1>6. \A k \in 1..n : a(k) \in 0..3
  <2> TAKE k \in 1..n
  <2>0. tab[k] \in Row
    BY <1>1
  <2>1. tab[k].level \in 0..3
    BY <2>0 DEF Row, Level
  <2>2. D!DiskLevel(tab[k].load) \in 0..3
    BY DEF D!DiskLevel
  <2>3. D!NewLevel(tab[k]) \in 0..3
    BY <2>1, <2>2 DEF D!NewLevel
  <2>4. QED BY <2>1, <2>3
<1> HIDE DEF a
<1>7. /\ table' \in Seq(Row) /\ Len(table') = n
      /\ \A k \in 1..n : table'[k].name = tab[k].name /\ table'[k].level = a(k)
  <2>1. ASSUME NEW k \in 1..n
        PROVE  table'[k] \in Row /\ table'[k].name = tab[k].name /\ table'[k].level = a(k)
    <3>1. tab[k] \in Row /\ a(k) \in Level
      BY <1>1, <1>6 DEF Level
    <3>2. table'[k] = [tab[k] EXCEPT !.level = a(k)]
      BY <1>5
    <3>3. QED BY <3>1, <3>2 DEF Row
  <2>2. table' = [k \in 1..n |-> table'[k]]
    BY <1>5
  <2>3. n \in Nat
    BY <1>1
  <2> HIDE DEF n
  <2>4. table' \in [1..n -> Row]
    BY <2>1, <2>2
  <2>5. table' \in Seq(Row) /\ Len(table') = n
    BY <2>3, <2>4
  <2>6. QED BY <2>1, <2>5
<1> HIDE DEF Rows
<1>8. told' \in [Disks -> 0..4]
  <2>1. ASSUME NEW d \in Disks, \E k \in Rows(d) : a(k) # tab[k].level PROVE a(CHOOSE k \in Rows(d) : TRUE) \in 0..3
    <3>1. (CHOOSE k \in Rows(d) : TRUE) \in Rows(d)
      BY <2>1
    <3>2. Rows(d) \subseteq 1..n
      BY DEF Rows
    <3>3. QED BY <3>1, <3>2, <1>6
  <2>2. QED BY <2>1, <1>4
<1>9. LevelsTold(table', told')
  <2> SUFFICES ASSUME NEW k \in 1..n, a(k) > 0 PROVE told'[tab[k].name] \in {a(k), 4}
    BY <1>7 DEF LevelsTold
  <2> DEFINE d == tab[k].name
  <2>0. tab[k] \in Row
    BY <1>1
  <2>1. d \in Disks /\ k \in Rows(d) /\ Rows(d) \in SUBSET (1..n)
    BY <2>0 DEF Row, Rows
  <2>2. tab[k].level > 0 => told[d] \in {tab[k].level, 4}
    BY DEF LevelsTold
  <2> HIDE DEF d
  <2>3. CASE Cardinality(Rows(d)) > 1
    BY <1>4, <2>1, <2>3 DEF d
  <2>4. CASE ~ (Cardinality(Rows(d)) > 1)
    <3>1. Rows(d) = {k}
      <4>1. n \in Nat
        BY <1>1
      <4>2. QED BY <4>1, <2>1, <2>4, OneElement
    <3>2. CASE a(k) # tab[k].level
      <4>1. told'[d] = a(CHOOSE j \in Rows(d) : TRUE)
        BY <1>4, <2>1, <2>4, <3>2
      <4>2. (CHOOSE j \in Rows(d) : TRUE) = k
        BY <3>1
      <4>3. QED BY <4>1, <4>2 DEF d
    <3>3. CASE a(k) = tab[k].level
      <4>1. told'[d] = told[d]
        BY <1>4, <2>1, <2>4, <3>1, <3>3
      <4>2. QED BY <4>1, <3>3, <2>2 DEF d
    <3>4. QED BY <3>2, <3>3
  <2>5. QED BY <2>3, <2>4
<1>10. QED BY <1>7, <1>8, <1>9

\* A read that is the last of its pass: the rows are swept and checked.
LEMMA LastReadKeeps ==
  ASSUME DiskInv, pass # "none", D!krgetdiskdetail, D!krgetdisksrv, ~ D!More, NEW load \in DiskReadings,
         pass' = "none", last' = (IF pass = "refresh" THEN pass ELSE "construct"), off' = FALSE,
         D!check_state_DISK(D!Swept(D!Updated(D!Name, load))), kernel' = kernel
  PROVE  DiskInv'
<1> USE DEF DiskInv
<1>1. PICK tab : tab = D!Updated(D!Name, load)
  OBVIOUS
<1>2. PICK s : s = D!SrvAt
  OBVIOUS
<1>3. PICK q : q = D!Swept(tab)
  OBVIOUS
<1>4. /\ list' \in Seq(Disks) /\ list' # <<>>
      /\ detail' \in Nat \ {0} /\ srv' \in Nat \ {0} /\ detailAgain' \in BOOLEAN /\ srvAgain' = FALSE
      /\ s \in 1..Len(list') /\ D!Name \in Disks
      /\ s = 1 \/ (list' = list /\ s = srv /\ ~srvAgain)
      /\ srv' = IF s < Len(list') THEN s + 1 ELSE 1
      /\ srv' <= Len(list') /\ D!Name = list'[s] /\ ~ (s < Len(list'))
  BY <1>2, CursorMoves DEF D!Name, D!More
<1>5. /\ tab \in Seq(Row) /\ tab # <<>> /\ LevelsTold(tab, told)
      /\ pass = "refresh" => /\ FirstTouched(tab) /\ TouchedIn(table) \subseteq TouchedIn(tab) /\ Hit(TouchedIn(tab), list'[s])
  BY <1>1, <1>4, UpdateKeeps DEF DiskTyped, RefreshRight
<1>6. /\ q \in Seq(Row) /\ \A k \in 1..Len(q) : \E m \in 1..Len(tab) : q[k] = tab[m]
      /\ pass = "refresh" => OneRowEach(q) /\ TouchedIn(tab) \subseteq NamesOf(q)
  BY <1>3, <1>5, SweptRows
<1>7. LevelsTold(q, told)
  BY <1>5, <1>6 DEF LevelsTold
<1>8. D!check_state_DISK(q)
  BY <1>1, <1>3
<1>9. /\ table' \in Seq(Row) /\ Len(table') = Len(q) /\ \A k \in 1..Len(q) : table'[k].name = q[k].name
      /\ told' \in [Disks -> 0..4] /\ LevelsTold(table', told')
  BY <1>6, <1>7, <1>8, CheckTells DEF DiskTyped
<1>10. DiskTyped'
  BY <1>4, <1>9 DEF DiskTyped, Disks
<1>11. CursorRight'
  BY <1>4 DEF CursorRight
<1>12. ASSUME pass = "refresh" PROVE OneRowEach(table') /\ \A m \in 1..Len(list') : Hit(NamesOf(table'), list'[m])
  <2>1. OneRowEach(table') /\ NamesOf(q) \subseteq NamesOf(table')
    <3>1. OneRowEach(table')
      BY <1>6, <1>9, <1>12 DEF OneRowEach
    <3>2. \A k \in 1..Len(q) : k \in 1..Len(table') /\ q[k].name = table'[k].name
      BY <1>9
    <3>3. NamesOf(q) \subseteq NamesOf(table')
      BY <3>2, Zenon DEF NamesOf
    <3>4. QED BY <3>1, <3>3
  <2>2. \A m \in 1..Len(list') : m = s \/ m < s
    BY <1>4
  <2>3. \A m \in 1..Len(list') : m < s => Hit(TouchedIn(table), list'[m])
    <3> SUFFICES ASSUME NEW m \in 1..Len(list'), m < s PROVE Hit(TouchedIn(table), list'[m])
      OBVIOUS
    <3>1. s # 1
      BY <1>4
    <3>2. list' = list /\ m < srv /\ m \in 1..Len(list) /\ ~srvAgain
      BY <3>1, <1>4
    <3>3. QED BY <3>2, <1>12 DEF RefreshRight
  <2>4. TouchedIn(table) \subseteq NamesOf(table') /\ TouchedIn(tab) \subseteq NamesOf(table')
    BY <2>1, <1>5, <1>6, <1>12
  <2>5. \A m \in 1..Len(list') : Hit(NamesOf(table'), list'[m])
    BY <2>2, <2>3, <2>4, <1>5, <1>12 DEF Hit
  <2>6. QED BY <2>1, <2>5
<1>13. RefreshRight'
  BY <1>12 DEF RefreshRight
<1>14. QED BY <1>9, <1>10, <1>11, <1>13

\* Another read: the disks up to the second cursor have a touched row.
LEMMA ReadKeeps ==
  ASSUME DiskInv, pass # "none", D!krgetdiskdetail, D!krgetdisksrv, D!More, NEW load \in DiskReadings,
         table' = D!Updated(D!Name, load), pass' = (IF pass = "new" THEN "construct" ELSE pass),
         kernel' = kernel, off' = off, told' = told, last' = last
  PROVE  DiskInv'
<1> USE DEF DiskInv
<1>1. PICK s : s = D!SrvAt
  OBVIOUS
<1>2. PICK tab : tab = table'
  OBVIOUS
<1>3. /\ list' \in Seq(Disks) /\ list' # <<>>
      /\ detail' \in Nat \ {0} /\ srv' \in Nat \ {0} /\ detailAgain' \in BOOLEAN /\ srvAgain' = FALSE
      /\ s \in 1..Len(list') /\ D!Name \in Disks
      /\ s = 1 \/ (list' = list /\ s = srv /\ ~srvAgain)
      /\ srv' = s + 1
      /\ srv' <= Len(list') /\ D!Name = list'[s]
  BY <1>1, CursorMoves DEF D!Name, D!More
<1>4. /\ tab \in Seq(Row) /\ tab # <<>> /\ LevelsTold(tab, told)
      /\ pass = "refresh" => FirstTouched(tab) /\ TouchedIn(table) \subseteq TouchedIn(tab) /\ Hit(TouchedIn(tab), list'[s])
  BY <1>2, <1>3, UpdateKeeps DEF DiskTyped, RefreshRight
<1>5. DiskTyped'
  BY <1>2, <1>3, <1>4 DEF DiskTyped, Disks
<1>6. CursorRight' /\ pass' # "none"
  BY <1>3 DEF CursorRight, DiskTyped
<1>7. ASSUME pass = "refresh", NEW m \in 1..Len(list'), m < srv' PROVE Hit(TouchedIn(tab), list'[m])
  <2>1. m = s \/ m < s
    BY <1>3, <1>7
  <2>2. CASE m < s
    <3>1. s # 1
      BY <1>3, <2>2
    <3>2. list' = list /\ m < srv /\ m \in 1..Len(list) /\ ~srvAgain
      BY <3>1, <1>3, <2>2
    <3>3. Hit(TouchedIn(table), list'[m])
      BY <3>2, <1>7 DEF RefreshRight
    <3>4. QED BY <3>3, <1>4, <1>7 DEF Hit
  <2>3. QED BY <2>1, <2>2, <1>4, <1>7
<1>8. RefreshRight'
  BY <1>2, <1>4, <1>6, <1>7 DEF RefreshRight
<1>9. QED BY <1>2, <1>4, <1>5, <1>6, <1>8

LEMMA DiskInvInductive == DiskInv /\ [D!Next]_diskVars => DiskInv'
<1> SUFFICES ASSUME DiskInv, [D!Next]_diskVars PROVE DiskInv'
  OBVIOUS
<1>1. CASE UNCHANGED diskVars
  BY <1>1 DEF diskVars, DiskInv, DiskTyped, CursorRight, RefreshRight
<1>2. CASE D!krgetsmtx
  <2>1. /\ pass = "none" /\ list' = D!Sorted(kernel) /\ detailAgain' = TRUE /\ srvAgain' = TRUE
        /\ kernel' = kernel /\ detail' = detail /\ srv' = srv /\ table' = table /\ pass' = pass
        /\ off' = off /\ told' = told /\ last' = last
    BY <1>2 DEF D!krgetsmtx
  <2>2. list' \in Seq(Disks) /\ list' # <<>>
    BY <2>1, OrderFacts DEF DiskInv, DiskTyped
  <2>3. QED BY <2>1, <2>2 DEF DiskInv, DiskTyped, CursorRight, RefreshRight
<1>3. CASE D!Hotplug
  <2>1. /\ kernel' # {} /\ \E d \in Disks : kernel' = (kernel \ {d}) \cup ({d} \ kernel)
        /\ UNCHANGED <<list, detail, srv, detailAgain, srvAgain, table, pass, off, told, last>>
    BY <1>3 DEF D!Hotplug, D!cursors, Disks
  <2>2. QED BY <2>1 DEF DiskInv, DiskTyped, CursorRight, RefreshRight
<1>4. CASE D!hm_post_read_config
  <2>1. /\ pass' = "new" /\ off' = TRUE
        /\ UNCHANGED <<kernel, list, detail, srv, detailAgain, srvAgain, table, told, last>>
    BY <1>4 DEF D!hm_post_read_config, D!cursors
  <2>2. QED BY <2>1 DEF DiskInv, DiskTyped, CursorRight, RefreshRight
<1>5. CASE D!StartRefresh
  <2>1. /\ ~off /\ table # <<>> /\ pass' = "refresh" /\ off' = TRUE
        /\ table' = [k \in DOMAIN table |-> [table[k] EXCEPT !.touched = FALSE]]
        /\ UNCHANGED <<kernel, list, detail, srv, detailAgain, srvAgain, told, last>>
    BY <1>5 DEF D!StartRefresh, D!cursors
  <2> DEFINE n == Len(table)
  <2>2. n \in Nat /\ DOMAIN table = 1..n /\ table \in Seq(Row)
    BY DEF DiskInv, DiskTyped
  <2>3. ASSUME NEW k \in 1..n
        PROVE  table'[k] \in Row /\ table'[k].name = table[k].name /\ table'[k].level = table[k].level /\ ~table'[k].touched
    <3>1. table[k] \in Row
      BY <2>2
    <3>2. table'[k] = [table[k] EXCEPT !.touched = FALSE]
      BY <2>1, <2>2
    <3>3. QED BY <3>1, <3>2 DEF Row
  <2>4. table' = [k \in 1..n |-> table'[k]]
    BY <2>1, <2>2
  <2>5. table' \in [1..n -> Row]
    BY <2>3, <2>4, Zenon
  <2>6. n \in Nat /\ n > 0
    BY <2>1, <2>2
  <2> HIDE DEF n
  <2>7. table' \in Seq(Row) /\ Len(table') = n /\ table' # <<>>
    BY <2>5, <2>6
  <2>8. LevelsTold(table', told)
    BY <2>3, <2>7 DEF DiskInv, LevelsTold, n
  <2>9. FirstTouched(table')
    BY <2>3, <2>7 DEF FirstTouched
  <2>10. ~ (pass # "none") /\ (off = FALSE => srv = 1)
    BY <2>1 DEF DiskInv, CursorRight
  <2>11. DiskTyped'
    BY <2>1, <2>7 DEF DiskInv, DiskTyped, Disks
  <2>12. off = FALSE
    BY <1>5 DEF D!StartRefresh, DiskInv, CursorRight
  <2>13. CursorRight'
    BY <2>1 DEF DiskInv, CursorRight
  <2>14. RefreshRight'
    BY <2>1, <2>7, <2>9, <2>10, <2>12 DEF DiskInv, DiskTyped, RefreshRight
  <2>15. QED BY <2>1, <2>8, <2>11, <2>13, <2>14 DEF DiskInv
<1>6. CASE D!ReadDisk
  <2>1. pass # "none" /\ D!krgetdiskdetail /\ D!krgetdisksrv /\ kernel' = kernel
    BY <1>6 DEF D!ReadDisk
  <2>2. PICK load \in DiskReadings :
          LET tab == D!Updated(D!Name, load)
          IN IF D!More
             THEN /\ table' = tab /\ pass' = (IF pass = "new" THEN "construct" ELSE pass)
                  /\ UNCHANGED <<off, broken, told, last, events>>
             ELSE /\ pass' = "none" /\ last' = (IF pass = "refresh" THEN pass ELSE "construct")
                  /\ off' = FALSE /\ broken' = D!HeadFreed(tab)
                  /\ D!check_state_DISK(D!Swept(tab))
    BY <1>6, Zenon DEF D!ReadDisk
  <2>3. CASE D!More
    BY <2>1, <2>2, <2>3, ReadKeeps
  <2>4. CASE ~ D!More
    BY <2>1, <2>2, <2>4, LastReadKeeps
  <2>5. QED BY <2>3, <2>4
<1>7. CASE D!OutOfMemory
  <2>1. pass # "none" /\ pass' = "none" /\ last' = "none" /\ UNCHANGED <<kernel, table, off, told>>
    BY <1>7 DEF D!OutOfMemory
  <2>2. /\ list' \in Seq(Disks) /\ list' # <<>>
        /\ detail' \in Nat \ {0} /\ srv' \in Nat \ {0} /\ detailAgain' \in BOOLEAN /\ srvAgain' \in BOOLEAN
        /\ ~srvAgain' => srv' <= Len(list')
    <3>1. CASE UNCHANGED <<list, detail, srv, detailAgain, srvAgain>>
      BY <3>1 DEF DiskInv, DiskTyped, CursorRight
    <3>2. CASE D!krgetdiskdetail /\ D!krgetdisksrv
      BY <3>2, CursorMoves DEF DiskInv
    <3>3. QED BY <1>7, <3>1, <3>2 DEF D!OutOfMemory, D!cursors
  <2>3. off = TRUE
    BY <2>1 DEF DiskInv, CursorRight
  <2>4. DiskTyped' /\ CursorRight' /\ RefreshRight'
    BY <2>1, <2>2, <2>3 DEF DiskInv, DiskTyped, CursorRight, RefreshRight
  <2>5. QED BY <2>1, <2>4 DEF DiskInv
<1>8. QED BY <1>1, <1>2, <1>3, <1>4, <1>5, <1>6, <1>7 DEF D!Next

LEMMA DiskInvStarts == D!Init => DiskInv
<1> SUFFICES ASSUME D!Init PROVE DiskInv
  OBVIOUS
<1>1. /\ kernel \subseteq Disks /\ kernel # {} /\ list = D!Sorted(kernel)
      /\ detail = 1 /\ srv = 1 /\ detailAgain = TRUE /\ srvAgain = TRUE
      /\ table = <<>> /\ pass = "new" /\ off = TRUE
      /\ told = [d \in Disks |-> 0]
  <2>1. kernel \in (SUBSET Disks) \ {{}}
    BY DEF D!Init, Disks
  <2>2. /\ list = D!Sorted(kernel) /\ detail = 1 /\ srv = 1 /\ detailAgain = TRUE /\ srvAgain = TRUE
        /\ table = <<>> /\ pass = "new" /\ off = TRUE /\ told = [d \in Disks |-> 0]
    BY Zenon DEF D!Init, Disks
  <2>3. QED BY <2>1, <2>2
<1>2. list \in Seq(Disks) /\ list # <<>>
  BY <1>1, OrderFacts
<1>3. table \in Seq(Row) /\ Len(table) = 0 /\ LevelsTold(table, told)
  BY <1>1 DEF LevelsTold
<1>4. QED BY <1>1, <1>2, <1>3 DEF DiskInv, DiskTyped, CursorRight, RefreshRight

\* What the health monitor promises of its table follows.
LEMMA TableIsTold == DiskInv => D!TableComplete /\ D!DiskStateTold
<1> SUFFICES ASSUME DiskInv PROVE D!TableComplete /\ D!DiskStateTold
  OBVIOUS
<1> DEFINE n == Len(table)
<1>1. n \in Nat /\ DOMAIN table = 1..n /\ table \in Seq(Row) /\ list \in Seq(Disks) /\ DOMAIN list = 1..Len(list)
  BY DEF DiskInv, DiskTyped
<1>2. D!DiskStateTold
  BY <1>1 DEF DiskInv, LevelsTold, D!DiskStateTold, D!Mixed
<1>3. ASSUME D!Refreshed PROVE (\A d \in D!Range(list) : D!Found(d)) /\ D!Cardinality(D!Names) = n
  <2>1. OneRowEach(table) /\ \A m \in 1..Len(list) : Hit(NamesOf(table), list[m])
    BY <1>3 DEF D!Refreshed, DiskInv, RefreshRight
  <2>2. D!Names = NamesOf(table)
    BY <1>1 DEF D!Names, NamesOf
  <2>3. \A d \in D!Range(list) : D!Found(d)
    BY <1>1, <2>1, <2>2 DEF D!Range, D!Found, Hit
  <2> DEFINE f == [k \in 1..n |-> table[k].name]
  <2>4. f \in Surjection(1..n, NamesOf(table)) /\ f \in Injection(1..n, NamesOf(table))
    BY <1>1, <2>1 DEF Surjection, Injection, IsInjective, NamesOf, OneRowEach
  <2>5. IsFiniteSet(1..n) /\ Cardinality(1..n) = n
    <3>1. n \in Nat /\ (1 > n => n = 0)
      BY <1>1
    <3> HIDE DEF n
    <3>2. QED BY <3>1, FS_Interval
  <2> HIDE DEF f
  <2>6. Cardinality(NamesOf(table)) = n
    BY <2>4, <2>5, FS_Surjection
  <2>7. D!Cardinality(NamesOf(table)) = Cardinality(NamesOf(table))
    BY DEF D!Cardinality, Cardinality
  <2>8. QED BY <2>2, <2>3, <2>6, <2>7
<1>4. QED BY <1>2, <1>3 DEF D!TableComplete

\* A step that is not a read keeps the names; one that ends a refresh keeps those of the list.
LEMMA RemovedLeaveSteps ==
  ASSUME DiskInv, DiskInv', D!Next
  PROVE  D!RemovedLeave
<1> SUFFICES ASSUME NEW d \in Disks, pass = "refresh", d \in D!Names, d \notin D!Names', d \in D!Range(list')
             PROVE  \E e \in D!Names' : D!Matches(e, d)
  BY DEF D!RemovedLeave, D!Found, Disks
<1>1. D!Names = NamesOf(table) /\ D!Names' = NamesOf(table')
  BY DEF DiskInv, DiskTyped, D!Names, NamesOf
<1>2. table' # table
  BY <1>1
<1>3. D!ReadDisk
  <2>1. ~ D!krgetsmtx /\ ~ D!Hotplug /\ ~ D!hm_post_read_config /\ ~ D!StartRefresh /\ ~ D!OutOfMemory
    BY <1>2 DEF D!krgetsmtx, D!Hotplug, D!hm_post_read_config, D!StartRefresh, D!OutOfMemory
  <2>2. QED BY <2>1 DEF D!Next
<1>4. D!krgetdiskdetail /\ D!krgetdisksrv
  BY <1>3 DEF D!ReadDisk
<1>5. PICK load \in DiskReadings :
        LET tab == D!Updated(D!Name, load)
        IN IF D!More
           THEN /\ table' = tab /\ pass' = (IF pass = "new" THEN "construct" ELSE pass)
                /\ UNCHANGED <<off, broken, told, last, events>>
           ELSE /\ pass' = "none" /\ last' = (IF pass = "refresh" THEN pass ELSE "construct")
                /\ off' = FALSE /\ broken' = D!HeadFreed(tab)
                /\ D!check_state_DISK(D!Swept(tab))
  BY <1>3, Zenon DEF D!ReadDisk
<1>6. CASE D!More
  <2>1. D!Name \in Disks
    BY <1>4, CursorMoves DEF DiskInv
  <2>2. NamesOf(table) \subseteq NamesOf(table')
    BY <2>1, <1>5, <1>6, UpdateKeeps DEF DiskInv, DiskTyped, RefreshRight
  <2>3. QED BY <2>2, <1>1
<1>7. CASE ~ D!More
  <2>1. pass' = "none" /\ last' = "refresh" /\ ~srvAgain'
    BY <1>4, <1>5, <1>7 DEF D!krgetdisksrv
  <2>2. \A m \in 1..Len(list') : Hit(NamesOf(table'), list'[m])
    BY <2>1 DEF DiskInv, RefreshRight
  <2>3. list' \in Seq(Disks)
    BY DEF DiskInv, DiskTyped, Disks
  <2>4. \E m \in 1..Len(list') : d = list'[m]
    BY <2>3 DEF D!Range
  <2>5. QED BY <2>2, <2>4, <1>1 DEF Hit
<1>8. QED BY <1>6, <1>7

-----------------------------------------------------------------------------
(* PoolCache: the list is that of the copy, each pool in one entry, and both *)
(* begin with a pool that never goes.                                        *)

\* The pool that the configurations name first is one that is never exported,
\* the properties of a pool can be had, and each request starts one walk.
SystemPoolFirst ==
  /\ PoolNames # <<>> /\ \E g \in DOMAIN Root : Root[g] = PoolNames[1]
  /\ "props" \notin PoolFaults /\ Sweeps = {1}

Names == Z!Names
Config == [guid : Guids, name : Names]
Node(e, g) == [guid |-> e.guid, name |-> e.name, of |-> g]
OneEach(s) == \A j, k \in 1..Len(s) : s[j].guid = s[k].guid => j = k
IsRoot(g) == g \in DOMAIN Root /\ Root[g] = PoolNames[1]

KernelRight(f) ==
  /\ f \in [Guids -> Names \cup {Nil}] /\ \A g \in DOMAIN Root : f[g] = Root[g]
  /\ \A g, h \in Guids : f[g] # Nil /\ f[g] = f[h] => g = h
CopyRight(c) == c \in Seq(Config) /\ OneEach(c) /\ c # <<>> /\ IsRoot(c[1].guid)
ListRight(l, c, g) ==
  /\ l \in Seq([guid : Guids, name : Names, of : {g}]) /\ OneEach(l) /\ l # <<>> /\ IsRoot(l[1].guid)
  /\ \A k \in 1..Len(l) : \E j \in 1..Len(c) : l[k] = Node(c[j], g)
  /\ \A j \in 1..Len(c) : \E k \in 1..Len(l) : l[k] = Node(c[j], g)

PoolInv ==
  /\ KernelRight(pools) /\ CopyRight(ph_cfg) /\ ListRight(ph_first, ph_cfg, ph_gen)
  /\ reads = 0 /\ crashed = FALSE

LEMMA NamesFacts ==
  /\ PoolNames \in Seq(Names) /\ \A j, k \in 1..Len(PoolNames) : PoolNames[j] = PoolNames[k] => j = k
  /\ DOMAIN Root \subseteq Guids /\ Nil \notin Names
  /\ \A s, S : Z!Sublist(s, S) = Sublist(s, S)
<1>1. \A s, S : Z!Sublist(s, S) = Sublist(s, S)
  BY DEF Z!Sublist, Sublist
<1>2. /\ PoolNames \in Seq(Names) /\ \A j, k \in DOMAIN PoolNames : PoolNames[j] = PoolNames[k] => j = k
      /\ DOMAIN Root \subseteq Guids /\ Nil \notin Names
  BY HostAssumption, Zenon DEF Z!PoolAssumption, Names
<1>3. QED BY <1>1, <1>2

LEMMA ConfigsAreRight ==
  ASSUME SystemPoolFirst, NEW f, KernelRight(f)
  PROVE  CopyRight(Z!Configs(f))
<1> DEFINE here == {g \in Guids : f[g] # Nil}
           S == {f[g] : g \in here}
<1>1. PICK r : r = Sublist(PoolNames, S)
  OBVIOUS
<1>2. r \in Seq(Names) /\ MembersOf(r, PoolNames, S)
  BY <1>1, NamesFacts, SublistMembers
<1>3. PICK e : Picks(e, r, PoolNames, S, Len(PoolNames))
  BY <1>1, NamesFacts, SublistPicks
<1>4. PICK c : c = Z!Configs(f)
  OBVIOUS
<1> DEFINE who(k) == CHOOSE g \in here : f[g] = r[k]
<1>5. c = [k \in 1..Len(r) |-> [guid |-> who(k), name |-> r[k]]]
  <2>1. c = [k \in 1..Len(Z!Sublist(PoolNames, S)) |->
               [guid |-> CHOOSE g \in here : f[g] = Z!Sublist(PoolNames, S)[k], name |-> Z!Sublist(PoolNames, S)[k]]]
    BY <1>4, Zenon DEF Z!Configs
  <2>2. Z!Sublist(PoolNames, S) = r
    BY <1>1, NamesFacts
  <2> HIDE DEF S, here
  <2>3. QED BY <2>1, <2>2
<1>6. \A k \in 1..Len(r) : who(k) \in here /\ f[who(k)] = r[k]
  <2> TAKE k \in 1..Len(r)
  <2>1. r[k] \in S
    BY <1>2 DEF MembersOf
  <2>2. \E g \in here : f[g] = r[k]
    BY <2>1
  <2> HIDE DEF here
  <2>3. QED BY <2>2
<1> HIDE DEF who
<1>7. \A k \in 1..Len(r) : c[k].guid = who(k) /\ c[k].name = r[k] /\ c[k] \in Config
  BY <1>2, <1>5, <1>6 DEF Config
<1>8. c \in Seq(Config) /\ Len(c) = Len(r)
  <2>1. Len(r) \in Nat
    BY <1>2
  <2>2. c \in [1..Len(r) -> Config]
    BY <1>5, <1>7
  <2>3. QED BY <2>1, <2>2
<1>9. OneEach(c)
  <2>1. \A j, k \in 1..Len(r) : r[j] = r[k] => j = k
    <3> SUFFICES ASSUME NEW j \in 1..Len(r), NEW k \in 1..Len(r), r[j] = r[k] PROVE j = k
      OBVIOUS
    <3>1. /\ e[j] \in 1..Len(PoolNames) /\ e[k] \in 1..Len(PoolNames)
          /\ r[j] = PoolNames[e[j]] /\ r[k] = PoolNames[e[k]]
          /\ (j < k => e[j] < e[k]) /\ (k < j => e[k] < e[j])
      BY <1>3 DEF Picks
    <3>2. e[j] = e[k]
      BY <3>1, NamesFacts
    <3>3. e[j] \in Int
      BY <3>1
    <3>4. j \in Int /\ k \in Int
      BY <1>2
    <3>5. QED BY <3>1, <3>2, <3>3, <3>4
  <2>2. QED BY <1>6, <1>7, <1>8, <2>1 DEF OneEach
<1>10. c # <<>> /\ IsRoot(c[1].guid)
  <2>1. PICK g \in DOMAIN Root : Root[g] = PoolNames[1]
    BY DEF SystemPoolFirst
  <2>2. g \in Guids /\ f[g] = PoolNames[1] /\ 1 \in 1..Len(PoolNames)
    BY <2>1, NamesFacts DEF KernelRight, SystemPoolFirst
  <2>3. PoolNames[1] \in Names
    BY <2>2, NamesFacts
  <2>4. PoolNames[1] \in S
    BY <2>2, <2>3, NamesFacts
  <2>5. r # <<>> /\ r[1] = PoolNames[1]
    BY <1>2, <2>4 DEF MembersOf, SystemPoolFirst
  <2>6. 1 \in 1..Len(r)
    BY <2>5, <1>2
  <2>7. who(1) = g
    BY <1>6, <2>2, <2>3, <2>5, <2>6, NamesFacts DEF KernelRight
  <2>8. c[1].guid = g /\ c # <<>>
    BY <1>7, <1>8, <2>6, <2>7
  <2>9. QED BY <2>1, <2>8 DEF IsRoot
<1>11. QED BY <1>4, <1>8, <1>9, <1>10 DEF CopyRight

LEMMA RangeFacts ==
  ASSUME NEW X, NEW s \in Seq(X)
  PROVE  /\ \A e : e \in Z!Range(s) <=> \E k \in 1..Len(s) : s[k] = e
         /\ \A x : x \in Z!GuidsOf(s) <=> \E k \in 1..Len(s) : s[k].guid = x
<1>1. DOMAIN s = 1..Len(s)
  OBVIOUS
<1>2. Z!Range(s) = {s[k] : k \in 1..Len(s)} /\ Z!GuidsOf(s) = {s[k].guid : k \in 1..Len(s)}
  BY <1>1 DEF Z!Range, Z!GuidsOf
<1>3. QED BY <1>2

LEMMA Member == ASSUME NEW X, NEW s \in Seq(X), NEW k \in DOMAIN s PROVE s[k] \in X
OBVIOUS

IsJoin(l, s, t, m, n) ==
  Len(l) = m + n /\ (\A k \in 1..m : l[k] = s[k]) /\ (\A k \in 1..n : l[m + k] = t[k])
LEMMA Joined ==
  ASSUME NEW X, NEW s \in Seq(X), NEW t \in Seq(X), NEW l, l = s \o t
  PROVE  l \in Seq(X) /\ IsJoin(l, s, t, Len(s), Len(t))
BY DEF IsJoin

LEMMA SublistApart ==
  ASSUME NEW X, NEW s \in Seq(X), NEW S, NEW r, r = Sublist(s, S), OneEach(s)
  PROVE  OneEach(r)
<1>1. r \in Seq(X) /\ \E d : Picks(d, r, s, S, Len(s))
  BY SublistPicks
<1>2. PICK e : Picks(e, r, s, S, Len(s))
  BY <1>1
<1> SUFFICES ASSUME NEW j \in 1..Len(r), NEW k \in 1..Len(r), r[j].guid = r[k].guid PROVE j = k
  BY DEF OneEach
<1>3. /\ e[j] \in 1..Len(s) /\ e[k] \in 1..Len(s) /\ r[j] = s[e[j]] /\ r[k] = s[e[k]]
      /\ (j < k => e[j] < e[k]) /\ (k < j => e[k] < e[j])
  BY <1>2 DEF Picks
<1>4. e[j] = e[k]
  BY <1>3 DEF OneEach
<1>5. e[j] \in Int
  BY <1>3
<1>6. j \in Int /\ k \in Int
  BY <1>1
<1>7. QED BY <1>3, <1>4, <1>5, <1>6

\* A refresh keeps the entries of the pools that are still there and adds the rest.
LEMMA RefreshIsRight ==
  ASSUME NEW c, CopyRight(c), CopyRight(ph_cfg), ListRight(ph_first, ph_cfg, ph_gen), NEW g, NEW l,
         l = Z!Matched(c, g, {}) \o Z!Created(c, g, {}), ~ Z!FirstGone(c)
  PROVE  ListRight(l, c, g)
<1> DEFINE In(e) == \E j \in 1..Len(c) : c[j].guid = e.guid
           Had(e) == \E j \in 1..Len(ph_first) : ph_first[j].guid = e.guid
           Nodes == [guid : Guids, name : Names, of : {ph_gen}]
<1>1. c \in Seq(Config) /\ OneEach(c) /\ ph_first \in Seq(Nodes) /\ OneEach(ph_first) /\ ph_first # <<>>
      /\ IsRoot(ph_first[1].guid)
  BY DEF CopyRight, ListRight
<1>2. PICK K : K = {node \in Z!Range(ph_first) : node.guid \in Z!GuidsOf(c)}
  OBVIOUS
<1>3. PICK L : L = {e \in Z!Range(c) : e.guid \notin Z!GuidsOf(ph_first)}
  OBVIOUS
<1>4. PICK kept : kept = Sublist(ph_first, K)
  OBVIOUS
<1>5. PICK left : left = Sublist(c, L)
  OBVIOUS
<1>6. kept \in Seq(Nodes) /\ MembersOf(kept, ph_first, K) /\ OneEach(kept)
  BY <1>1, <1>4, SublistMembers, SublistApart
<1>7. left \in Seq(Config) /\ MembersOf(left, c, L) /\ OneEach(left)
  BY <1>1, <1>5, SublistMembers, SublistApart
<1>8. \A k \in 1..Len(ph_first) : ph_first[k] \in K <=> In(ph_first[k])
  <2> TAKE k \in 1..Len(ph_first)
  <2>1. ph_first[k] \in Z!Range(ph_first)
    BY <1>1, RangeFacts
  <2>2. ph_first[k].guid \in Z!GuidsOf(c) <=> In(ph_first[k])
    <3>1. \A x : x \in Z!GuidsOf(c) <=> \E j \in 1..Len(c) : c[j].guid = x
      BY <1>1, RangeFacts, Zenon
    <3>2. QED BY <3>1, Zenon
  <2> HIDE DEF In
  <2>3. QED BY <1>2, <2>1, <2>2
<1>9. \A k \in 1..Len(c) : c[k] \in L <=> ~ Had(c[k])
  <2> TAKE k \in 1..Len(c)
  <2>1. c[k] \in Z!Range(c)
    BY <1>1, RangeFacts
  <2>2. c[k].guid \in Z!GuidsOf(ph_first) <=> Had(c[k])
    <3>1. \A x : x \in Z!GuidsOf(ph_first) <=> \E j \in 1..Len(ph_first) : ph_first[j].guid = x
      BY <1>1, RangeFacts, Zenon
    <3>2. QED BY <3>1, Zenon
  <2> HIDE DEF Had
  <2>3. QED BY <1>3, <2>1, <2>2
<1> HIDE DEF In, Had
<1> DEFINE conf(k) == CHOOSE e \in Z!Range(c) : e.guid = kept[k].guid
<1>10. \A k \in 1..Len(kept) : \E j \in 1..Len(c) : conf(k) = c[j] /\ c[j].guid = kept[k].guid
  <2> TAKE k \in 1..Len(kept)
  <2>1. In(kept[k])
    <3>1. kept[k] \in K /\ \E j \in 1..Len(ph_first) : kept[k] = ph_first[j]
      BY <1>6 DEF MembersOf
    <3>2. QED BY <3>1, <1>8
  <2>2. \E e \in Z!Range(c) : e.guid = kept[k].guid
    BY <2>1, <1>1, RangeFacts DEF In
  <2>3. conf(k) \in Z!Range(c) /\ conf(k).guid = kept[k].guid
    BY <2>2
  <2> HIDE DEF conf
  <2>4. QED BY <2>3, <1>1, RangeFacts
<1>11. PICK M : M = [k \in 1..Len(kept) |-> Node(conf(k), g)]
  OBVIOUS
<1>12. PICK C1 : C1 = [k \in 1..Len(left) |-> Node(left[k], g)]
  OBVIOUS
<1>13. l = M \o C1
  <2>1. Z!Matched(c, g, {}) = M
    <3>1. Z!Sublist(ph_first, K) = kept
      BY <1>4, NamesFacts
    <3>2. Z!Matched(c, g, {}) = [k \in 1..Len(kept) |-> Z!Refreshed(kept[k], conf(k), g, {})]
      <4> DEFINE was == Z!Sublist(ph_first, {node \in Z!Range(ph_first) : node.guid \in Z!GuidsOf(c)})
      <4>1. Z!Matched(c, g, {}) =
              [k \in 1..Len(was) |-> Z!Refreshed(was[k], CHOOSE e \in Z!Range(c) : e.guid = was[k].guid, g, {})]
        BY Zenon DEF Z!Matched
      <4>2. was = kept
        BY <1>2, <3>1
      <4> HIDE DEF was
      <4>3. QED BY <4>1, <4>2
    <3>3. \A node, e : Z!Refreshed(node, e, g, {}) = Node(e, g)
      BY DEF Z!Refreshed, Node
    <3> HIDE DEF conf
    <3>4. QED BY <1>11, <3>2, <3>3
  <2>2. Z!Created(c, g, {}) = C1
    <3>1. Z!Sublist(c, L) = left
      BY <1>5, NamesFacts
    <3>2. Z!Created(c, g, {}) = [k \in 1..Len(left) |-> Z!Refreshed([guid |-> Nil, name |-> Nil, of |-> Nil], left[k], g, {})]
      BY <1>3, <3>1 DEF Z!Created
    <3>3. \A node, e : Z!Refreshed(node, e, g, {}) = Node(e, g)
      BY DEF Z!Refreshed, Node
    <3>4. QED BY <1>12, <3>2, <3>3
  <2>3. QED BY <2>1, <2>2
<1> HIDE DEF conf
<1> DEFINE Fresh == [guid : Guids, name : Names, of : {g}]
           m == Len(kept)
           n == Len(left)
<1>14. m \in Nat /\ n \in Nat
  BY <1>6, <1>7
<1>15. \A k \in 1..m : \E j \in 1..Len(c) : M[k] = Node(c[j], g) /\ M[k].guid = kept[k].guid /\ M[k] \in Fresh
  <2> TAKE k \in 1..m
  <2>1. PICK j \in 1..Len(c) : conf(k) = c[j] /\ c[j].guid = kept[k].guid
    BY <1>10
  <2>2. M[k] = Node(c[j], g)
    BY <1>11, <2>1
  <2>3. c[j] \in Config
    BY <1>1
  <2>4. M[k].guid = kept[k].guid /\ M[k] \in Fresh
    BY <2>1, <2>2, <2>3 DEF Node, Config
  <2>5. QED BY <2>2, <2>4
<1>16. \A k \in 1..n : /\ \E j \in 1..Len(c) : left[k] = c[j] /\ ~ Had(c[j])
                       /\ C1[k] = Node(left[k], g) /\ C1[k].guid = left[k].guid /\ C1[k] \in Fresh
  <2> TAKE k \in 1..n
  <2>1. \E j \in 1..Len(c) : left[k] = c[j] /\ ~ Had(c[j])
    BY <1>7, <1>9 DEF MembersOf
  <2>2. C1[k] = Node(left[k], g) /\ left[k] \in Config
    BY <1>7, <1>12
  <2>3. C1[k].guid = left[k].guid /\ C1[k] \in Fresh
    BY <2>2 DEF Node, Config
  <2>4. QED BY <2>1, <2>2, <2>3
<1>17. M \in Seq(Fresh) /\ Len(M) = m /\ C1 \in Seq(Fresh) /\ Len(C1) = n
  <2>1. M \in [1..m -> Fresh]
    BY <1>11, <1>15
  <2>2. C1 \in [1..n -> Fresh]
    BY <1>12, <1>16
  <2> HIDE DEF m, n, Fresh
  <2>3. QED BY <2>1, <2>2, <1>14
<1> HIDE DEF Fresh, m, n
<1>18. /\ l \in Seq(Fresh) /\ Len(l) = m + n
       /\ \A k \in 1..m : l[k] = M[k]
       /\ \A k \in 1..n : l[m + k] = C1[k]
  <2>1. l \in Seq(Fresh) /\ IsJoin(l, M, C1, Len(M), Len(C1))
    BY <1>13, <1>17, Joined
  <2>2. IsJoin(l, M, C1, m, n)
    BY <2>1, <1>17
  <2>3. QED BY <2>1, <2>2, Zenon DEF IsJoin
<1>19. \A k \in 1..m + n : k \in 1..m \/ (k - m \in 1..n /\ k = m + (k - m))
  BY <1>14
<1>20. OneEach(l)
  <2>1. ASSUME NEW j \in 1..m, NEW k \in 1..n, M[j].guid = C1[k].guid PROVE FALSE
    <3>1. PICK o \in 1..Len(ph_first) : kept[j] = ph_first[o]
      BY <1>6 DEF MembersOf, m
    <3>2. PICK i1 \in 1..Len(c) : left[k] = c[i1] /\ ~ Had(c[i1])
      BY <1>16
    <3>3. M[j].guid = kept[j].guid /\ C1[k].guid = left[k].guid
      BY <1>15, <1>16
    <3>4. QED BY <2>1, <3>1, <3>2, <3>3 DEF Had
  <2>2. ASSUME NEW j \in 1..m, NEW k \in 1..m, M[j].guid = M[k].guid PROVE j = k
    BY <2>2, <1>6, <1>15 DEF OneEach, m
  <2>3. ASSUME NEW j \in 1..n, NEW k \in 1..n, C1[j].guid = C1[k].guid PROVE j = k
    BY <2>3, <1>7, <1>16 DEF OneEach, n
  <2> SUFFICES ASSUME NEW j \in 1..m + n, NEW k \in 1..m + n, l[j].guid = l[k].guid PROVE j = k
    BY <1>18 DEF OneEach
  <2>4. CASE j \in 1..m /\ k \in 1..m
    BY <2>2, <2>4, <1>18
  <2>5. CASE j \in 1..m /\ k \notin 1..m
    <3>1. k - m \in 1..n /\ l[k] = C1[k - m] /\ l[j] = M[j]
      BY <2>5, <1>18, <1>19
    <3>2. QED BY <3>1, <2>1, <2>5
  <2>6. CASE j \notin 1..m /\ k \in 1..m
    <3>1. j - m \in 1..n /\ l[j] = C1[j - m] /\ l[k] = M[k]
      BY <2>6, <1>18, <1>19
    <3>2. QED BY <3>1, <2>1, <2>6
  <2>7. CASE j \notin 1..m /\ k \notin 1..m
    <3>1. j - m \in 1..n /\ l[j] = C1[j - m] /\ k - m \in 1..n /\ l[k] = C1[k - m] /\ j = m + (j - m) /\ k = m + (k - m)
      BY <2>7, <1>18, <1>19
    <3>2. j - m = k - m
      BY <3>1, <2>3
    <3>3. QED BY <3>1, <3>2
  <2>8. QED BY <2>4, <2>5, <2>6, <2>7
<1>21. \A k \in 1..Len(l) : \E j \in 1..Len(c) : l[k] = Node(c[j], g)
  <2> SUFFICES ASSUME NEW k \in 1..m + n PROVE \E j \in 1..Len(c) : l[k] = Node(c[j], g)
    BY <1>18
  <2>1. CASE k \in 1..m
    BY <2>1, <1>15, <1>18
  <2>2. CASE k \notin 1..m
    <3>1. k - m \in 1..n /\ l[k] = C1[k - m]
      BY <2>2, <1>18, <1>19
    <3>2. QED BY <3>1, <1>16
  <2>3. QED BY <2>1, <2>2
<1>22. \A j \in 1..Len(c) : \E k \in 1..Len(l) : l[k] = Node(c[j], g)
  <2> TAKE j \in 1..Len(c)
  <2>1. CASE Had(c[j])
    <3>1. PICK o \in 1..Len(ph_first) : ph_first[o].guid = c[j].guid
      BY <2>1 DEF Had
    <3>2. ph_first[o] \in K
      BY <3>1, <1>8 DEF In
    <3>3. PICK k \in 1..m : ph_first[o] = kept[k]
      BY <3>2, <1>6 DEF MembersOf, m
    <3>4. PICK i1 \in 1..Len(c) : M[k] = Node(c[i1], g) /\ M[k].guid = kept[k].guid
      BY <1>15
    <3>5. c[i1].guid = c[j].guid
      BY <3>1, <3>3, <3>4 DEF Node
    <3>6. i1 = j
      BY <3>5, <1>1 DEF OneEach
    <3>7. k \in 1..Len(l) /\ l[k] = M[k]
      <4>1. k \in 1..m + n
        BY <1>14
      <4>2. QED BY <4>1, <1>18
    <3>8. QED BY <3>4, <3>6, <3>7
  <2>2. CASE ~ Had(c[j])
    <3>1. PICK k \in 1..n : c[j] = left[k]
      BY <2>2, <1>7, <1>9 DEF MembersOf, n
    <3>2. m + k \in 1..Len(l) /\ l[m + k] = C1[k]
      <4>1. m + k \in 1..m + n
        BY <1>14
      <4>2. QED BY <4>1, <1>18
    <3>3. QED BY <3>1, <3>2, <1>16
  <2>3. QED BY <2>1, <2>2
<1>23. l # <<>> /\ IsRoot(l[1].guid)
  <2>1. 1 \in 1..Len(ph_first) /\ In(ph_first[1])
    <3>1. ph_first[1].guid \in Z!GuidsOf(c)
      BY <1>1 DEF Z!FirstGone
    <3>2. In(ph_first[1])
      <4>1. \A x : x \in Z!GuidsOf(c) <=> \E j \in 1..Len(c) : c[j].guid = x
        BY <1>1, RangeFacts, Zenon
      <4>2. QED BY <3>1, <4>1, Zenon DEF In
    <3>3. 1 \in 1..Len(ph_first)
      BY <1>1
    <3>4. QED BY <3>2, <3>3
  <2>2. kept # <<>> /\ kept[1] = ph_first[1]
    BY <2>1, <1>1, <1>6, <1>8 DEF MembersOf
  <2>3. 1 \in 1..m
    BY <2>2, <1>6 DEF m
  <2>4. l[1] = M[1] /\ M[1].guid = ph_first[1].guid
    BY <2>2, <2>3, <1>15, <1>18
  <2>5. m + n > 0
    BY <2>3, <1>14
  <2>6. l # <<>>
    BY <2>5, <1>18
  <2>7. QED BY <2>4, <2>6, <1>1
<1>24. QED BY <1>18, <1>20, <1>21, <1>22, <1>23 DEF ListRight, Fresh

LEMMA PoolInvStarts == SystemPoolFirst /\ Z!PoolInit => PoolInv
<1> SUFFICES ASSUME SystemPoolFirst, Z!PoolInit PROVE PoolInv
  OBVIOUS
<1>1. /\ pools \in [Guids -> Names \cup {Nil}] /\ \A g \in DOMAIN Root : pools[g] = Root[g]
      /\ \A g, h \in Guids : pools[g] # Nil /\ pools[g] = pools[h] => g = h
      /\ ph_gen = 1 /\ ph_cfg = Z!Configs(pools) /\ reads = 0 /\ crashed = FALSE
      /\ ph_first = [k \in DOMAIN ph_cfg |-> [guid |-> ph_cfg[k].guid, name |-> ph_cfg[k].name, of |-> 1]]
  BY DEF Z!PoolInit, Names
<1>2. KernelRight(pools)
  BY <1>1 DEF KernelRight
<1>3. CopyRight(ph_cfg)
  BY <1>1, <1>2, ConfigsAreRight
<1> DEFINE n == Len(ph_cfg)
           Nodes == [guid : Guids, name : Names, of : {1}]
<1>4. ph_cfg \in Seq(Config) /\ n \in Nat /\ n > 0 /\ DOMAIN ph_cfg = 1..n /\ OneEach(ph_cfg) /\ IsRoot(ph_cfg[1].guid)
  BY <1>3 DEF CopyRight
<1>5. ASSUME NEW k \in 1..n
      PROVE  ph_first[k] = Node(ph_cfg[k], 1) /\ ph_first[k] \in Nodes /\ ph_first[k].guid = ph_cfg[k].guid
  <2>1. ph_cfg[k] \in Config /\ ph_first[k] = Node(ph_cfg[k], 1)
    BY <1>1, <1>4 DEF Node
  <2>2. QED BY <2>1 DEF Config, Node
<1>6. ph_first = [k \in 1..n |-> ph_first[k]]
  BY <1>1, <1>4
<1>7. n \in Nat /\ n > 0
  BY <1>4
<1> HIDE DEF n
<1>8. ph_first \in [1..n -> Nodes]
  BY <1>5, <1>6, Zenon
<1> HIDE DEF Nodes
<1>9. ph_first \in Seq(Nodes) /\ Len(ph_first) = n /\ ph_first # <<>> /\ 1 \in 1..n
  BY <1>7, <1>8
<1>10. OneEach(ph_first) /\ IsRoot(ph_first[1].guid)
  BY <1>4, <1>5, <1>9 DEF OneEach, n
<1>11. ListRight(ph_first, ph_cfg, ph_gen)
  <2>1. (\A k \in 1..n : \E j \in 1..n : ph_first[k] = Node(ph_cfg[j], 1))
        /\ (\A j \in 1..n : \E k \in 1..n : ph_first[k] = Node(ph_cfg[j], 1))
    BY <1>5, Zenon
  <2>2. Len(ph_cfg) = n
    BY DEF n
  <2>3. ListRight(ph_first, ph_cfg, 1)
    BY <2>1, <2>2, <1>9, <1>10, Zenon DEF ListRight, Nodes
  <2>4. QED BY <1>1, <2>3
<1>12. QED BY <1>1, <1>2, <1>3, <1>11 DEF PoolInv

LEMMA PoolInvInductive == SystemPoolFirst /\ PoolInv /\ [Z!PoolNext]_poolVars => PoolInv'
<1> SUFFICES ASSUME SystemPoolFirst, PoolInv, [Z!PoolNext]_poolVars PROVE PoolInv'
  OBVIOUS
<1> USE DEF PoolInv
<1>1. CASE UNCHANGED poolVars
  BY <1>1 DEF poolVars
<1>2. CASE Z!PoolRequest
  <2>1. pools' = pools /\ \E n \in {1} :
          \/ /\ reads' = Z!Released(reads + n) /\ crashed' = Z!BadName(ph_first)
             /\ UNCHANGED <<ph_cfg, ph_gen, ph_first>>
          \/ /\ \E failing \in IF "props" \in PoolFaults THEN SUBSET Z!Names ELSE {{}} : Z!refresh_pool_cache(failing)
             /\ reads' = Z!Released(Z!LocksLeft(reads, FALSE) + n - 1)
    BY <1>2, Zenon DEF Z!PoolRequest, SystemPoolFirst
  <2>2. CASE /\ reads' = Z!Released(reads + 1) /\ crashed' = Z!BadName(ph_first)
             /\ UNCHANGED <<ph_cfg, ph_gen, ph_first>>
    <3>1. reads' = 0
      BY <2>2 DEF Z!Released
    <3>2. ~ Z!BadName(ph_first)
      <4> SUFFICES ASSUME NEW k \in DOMAIN ph_first, ph_first[k].name = Nil PROVE FALSE
        BY DEF Z!BadName
      <4>1. ph_first[k] \in [guid : Guids, name : Names, of : {ph_gen}]
        BY Member DEF ListRight
      <4>2. QED BY <4>1, NamesFacts
    <3>3. crashed' = FALSE
      BY <2>2, <3>2 DEF Z!BadName
    <3>4. QED BY <2>1, <2>2, <3>1, <3>3
  <2>3. CASE Z!refresh_pool_cache({}) /\ reads' = Z!Released(Z!LocksLeft(reads, FALSE) + 1 - 1)
    <3> DEFINE c == IF gen = ph_gen THEN ph_cfg ELSE Z!Configs(pools)
    <3>1. reads' = 0
      BY <2>3 DEF Z!Released, Z!LocksLeft
    <3>2. CopyRight(c)
      BY ConfigsAreRight
    <3>3. /\ crashed' = (crashed \/ Z!FirstGone(c))
          /\ ph_cfg' = c /\ ph_gen' = gen
          /\ ph_first' = IF Z!FirstGone(c) THEN ph_first ELSE Z!Matched(c, gen, {}) \o Z!Created(c, gen, {})
      BY <2>3, Zenon DEF Z!refresh_pool_cache
    <3> HIDE DEF c
    <3>4. ~ Z!FirstGone(c)
      <4>1. IsRoot(c[1].guid) /\ IsRoot(ph_first[1].guid) /\ c \in Seq(Config) /\ 1 \in 1..Len(c)
        BY <3>2 DEF CopyRight, ListRight
      <4>2. \A g \in DOMAIN Root : pools[g] = Root[g] /\ g \in Guids
        BY NamesFacts DEF KernelRight
      <4>3. PoolNames[1] # Nil
        <5>1. 1 \in 1..Len(PoolNames)
          BY NamesFacts DEF SystemPoolFirst
        <5>2. QED BY <5>1, NamesFacts
      <4>4. c[1].guid = ph_first[1].guid
        BY <4>1, <4>2, <4>3 DEF IsRoot, KernelRight
      <4>5. c[1].guid \in Z!GuidsOf(c)
        BY <4>1, RangeFacts, Zenon
      <4>6. QED BY <4>4, <4>5 DEF Z!FirstGone
    <3>5. ListRight(ph_first', c, gen)
      BY <3>2, <3>3, <3>4, RefreshIsRight
    <3>6. crashed' = FALSE
      BY <3>3, <3>4 DEF Z!FirstGone
    <3>7. QED BY <2>1, <3>1, <3>2, <3>3, <3>5, <3>6
  <2>4. "props" \notin PoolFaults
    BY DEF SystemPoolFirst
  <2>5. QED BY <2>1, <2>2, <2>3, <2>4
<1>3. CASE Z!RequestFails
  BY <1>3 DEF Z!RequestFails, Z!Released, Z!LocksLeft
<1>4. CASE Z!Expire
  BY <1>4 DEF Z!Expire
<1>5. CASE Z!Zpool
  <2>1. PICK g \in Guids, n \in Names \cup {Nil} :
          /\ g \notin DOMAIN Root /\ (n # Nil => \A h \in Guids : pools[h] # n)
          /\ pools' = [pools EXCEPT ![g] = n]
    BY <1>5 DEF Z!Zpool, Names
  <2>2. UNCHANGED <<ph_cfg, ph_gen, ph_first, reads, crashed>>
    BY <1>5 DEF Z!Zpool
  <2>3. KernelRight(pools')
    BY <2>1, NamesFacts DEF KernelRight
  <2>4. QED BY <2>2, <2>3
<1>6. QED BY <1>1, <1>2, <1>3, <1>4, <1>5 DEF Z!PoolNext

LEMMA PoolsAreRight == PoolInv => Z!CacheMatches /\ Z!LockBalanced /\ Z!NoCrash
<1> SUFFICES ASSUME PoolInv PROVE Z!CacheMatches /\ Z!LockBalanced /\ Z!NoCrash
  OBVIOUS
<1> DEFINE n == Len(ph_first)
           m == Len(ph_cfg)
<1>1. /\ ph_first \in Seq([guid : Guids, name : Names, of : {ph_gen}]) /\ ph_cfg \in Seq(Config)
      /\ DOMAIN ph_first = 1..n /\ n \in Nat /\ DOMAIN ph_cfg = 1..m /\ m \in Nat
      /\ OneEach(ph_first) /\ OneEach(ph_cfg)
      /\ \A k \in 1..n : \E j \in 1..m : ph_first[k] = Node(ph_cfg[j], ph_gen)
      /\ \A j \in 1..m : \E k \in 1..n : ph_first[k] = Node(ph_cfg[j], ph_gen)
  BY DEF PoolInv, ListRight, CopyRight
<1> DEFINE bare(k) == [guid |-> ph_first[k].guid, name |-> ph_first[k].name]
<1>2. ASSUME NEW j \in 1..m, NEW k \in 1..n, ph_first[k] = Node(ph_cfg[j], ph_gen)
      PROVE  bare(k) = ph_cfg[j] /\ ph_first[k].guid = ph_cfg[j].guid
  <2>1. ph_cfg[j] \in Config
    BY <1>1
  <2>2. QED BY <1>2, <2>1 DEF Node, Config
<1>3. {bare(k) : k \in 1..n} = Z!Range(ph_cfg)
  <2> HIDE DEF bare, n, m
  <2>1. \A e : e \in Z!Range(ph_cfg) <=> \E j \in 1..m : ph_cfg[j] = e
    BY <1>1, RangeFacts, Zenon DEF m
  <2>2. ASSUME NEW k \in 1..n PROVE bare(k) \in Z!Range(ph_cfg)
    <3>1. PICK j \in 1..m : ph_first[k] = Node(ph_cfg[j], ph_gen)
      BY <1>1
    <3>2. QED BY <3>1, <1>2, <2>1
  <2>3. ASSUME NEW e \in Z!Range(ph_cfg) PROVE \E k \in 1..n : bare(k) = e
    <3>1. PICK j \in 1..m : ph_cfg[j] = e
      BY <2>1
    <3>2. PICK k \in 1..n : ph_first[k] = Node(ph_cfg[j], ph_gen)
      BY <1>1
    <3>3. QED BY <3>1, <3>2, <1>2
  <2>4. QED BY <2>2, <2>3
<1>4. n = m
  <2> DEFINE f == [k \in 1..n |-> CHOOSE j \in 1..m : ph_first[k] = Node(ph_cfg[j], ph_gen)]
  <2>1. \A k \in 1..n : f[k] \in 1..m /\ ph_first[k] = Node(ph_cfg[f[k]], ph_gen)
    BY <1>1
  <2>2. f \in [1..n -> 1..m]
    BY <2>1
  <2> HIDE DEF f, n, m
  <2>3. \A k \in 1..n : ph_first[k].guid = ph_cfg[f[k]].guid
    BY <1>2, <2>1
  <2>4. \A j, k \in 1..n : f[j] = f[k] => j = k
    <3> SUFFICES ASSUME NEW j \in 1..n, NEW k \in 1..n, f[j] = f[k] PROVE j = k
      OBVIOUS
    <3>1. ph_first[j].guid = ph_first[k].guid
      BY <2>3
    <3>2. QED BY <3>1, <1>1 DEF OneEach, n
  <2>5. \A j \in 1..m : \E k \in 1..n : f[k] = j
    <3> TAKE j \in 1..m
    <3>1. PICK k \in 1..n : ph_first[k] = Node(ph_cfg[j], ph_gen)
      BY <1>1
    <3>2. ph_first[k].guid = ph_cfg[j].guid /\ ph_first[k].guid = ph_cfg[f[k]].guid /\ f[k] \in 1..m
      BY <3>1, <1>2, <2>1, <2>3
    <3>3. f[k] = j
      BY <3>2, <1>1 DEF OneEach, m
    <3>4. QED BY <3>3
  <2>6. f \in Surjection(1..n, 1..m) /\ f \in Injection(1..n, 1..m)
    BY <2>2, <2>4, <2>5 DEF Surjection, Injection, IsInjective
  <2>7. IsFiniteSet(1..n) /\ Cardinality(1..n) = n /\ Cardinality(1..m) = m
    <3>1. n \in Nat /\ m \in Nat /\ (1 > n => n = 0) /\ (1 > m => m = 0)
      BY <1>1
    <3>2. QED BY <3>1, FS_Interval
  <2>8. QED BY <2>6, <2>7, FS_Surjection
<1>5. \A k \in 1..n : ph_first[k].of = ph_gen
  <2> TAKE k \in 1..n
  <2>1. ph_first[k] \in [guid : Guids, name : Names, of : {ph_gen}]
    BY <1>1, Member
  <2>2. QED BY <2>1
<1>6. Z!CacheMatches
  BY <1>1, <1>3, <1>4, <1>5 DEF Z!CacheMatches
<1>7. QED BY <1>6 DEF PoolInv, Z!LockBalanced, Z!NoCrash

-----------------------------------------------------------------------------
(* EntityMib: the lists.  Hidden entries count, so an index is one entry's.  *)

PhysEntry == [idx : Int \ {0}, in : Nat, port : BOOLEAN]
LogEntry == [idx : Int \ {0}]
Entries(X) ==
  \A e \in X : /\ e.idx \in Int \ {0}
               /\ \A n \in Int \ {0} : [e EXCEPT !.idx = n] \in X /\ [e EXCEPT !.idx = n].idx = n

Idx(tab, k) == IF tab[k].idx < 0 THEN -tab[k].idx ELSE tab[k].idx
Pos(tab) == {tab[k].idx : k \in {n \in 1..Len(tab) : tab[n].idx > 0}}
InOrder(tab) == \A j, k \in 1..Len(tab) : j < k => Idx(tab, j) < Idx(tab, k)
TailIs(tab, tail) ==
  \/ tail = -1
  \/ tab = <<>> /\ tail = 0
  \/ tab # <<>> /\ tail = Idx(tab, Len(tab))
TabRight(X, tab, tail) == tab \in Seq(X) /\ InOrder(tab) /\ TailIs(tab, tail)

LEMMA EntryKinds == Entries(PhysEntry) /\ Entries(LogEntry)
BY DEF Entries, PhysEntry, LogEntry

LEMMA TabFacts ==
  ASSUME NEW X, Entries(X), NEW tab \in Seq(X)
  PROVE  /\ Len(tab) \in Nat /\ DOMAIN tab = 1..Len(tab)
         /\ \A k \in 1..Len(tab) : tab[k] \in X /\ tab[k].idx \in Int \ {0} /\ Idx(tab, k) \in Nat \ {0}
         /\ \A k : E!ListIndex(tab, k) = Idx(tab, k)
         /\ \A x : E!Live(tab, x) <=> x > 0 /\ \E k \in 1..Len(tab) : tab[k].idx = x
         /\ \A x : E!Stale(tab, x) <=> x > 0 /\ \E k \in 1..Len(tab) : tab[k].idx = -x
         /\ \A x \in Int : E!Live(tab, x) <=> x \in Pos(tab)
<1>1. Len(tab) \in Nat /\ DOMAIN tab = 1..Len(tab) /\ \A k \in 1..Len(tab) : tab[k] \in X
  OBVIOUS
<1>2. \A k \in 1..Len(tab) : tab[k].idx \in Int \ {0}
  BY <1>1 DEF Entries
<1>3. \A k \in 1..Len(tab) : Idx(tab, k) \in Nat \ {0}
  BY <1>2 DEF Idx
<1>4. \A k : E!ListIndex(tab, k) = Idx(tab, k)
  BY DEF E!ListIndex, Idx
<1>5. \A x : E!Live(tab, x) <=> x > 0 /\ \E k \in 1..Len(tab) : tab[k].idx = x
  BY <1>1 DEF E!Live, E!Indices
<1>6. \A x : E!Stale(tab, x) <=> x > 0 /\ \E k \in 1..Len(tab) : tab[k].idx = -x
  BY <1>1 DEF E!Stale, E!Indices
<1>7. \A x \in Int : E!Live(tab, x) <=> x \in Pos(tab)
  BY <1>2, <1>5 DEF Pos
<1>8. QED BY <1>1, <1>2, <1>3, <1>4, <1>5, <1>6, <1>7

\* An index that is used is that of one entry.
LEMMA EntryAt ==
  ASSUME NEW X, Entries(X), NEW tab \in Seq(X), InOrder(tab), NEW x \in Nat, E!Used(tab, x), NEW n, n = E!At(tab, x)
  PROVE  /\ x > 0 /\ n \in 1..Len(tab) /\ Idx(tab, n) = x
         /\ \A k \in 1..Len(tab) : Idx(tab, k) = x => k = n
         /\ E!Live(tab, x) => tab[n].idx = x
         /\ E!Stale(tab, x) => tab[n].idx = -x
<1>0. Len(tab) \in Nat /\ DOMAIN tab = 1..Len(tab) /\ \A k \in 1..Len(tab) : Idx(tab, k) \in Nat
  BY TabFacts
<1>1. x > 0 /\ \E k \in 1..Len(tab) : tab[k].idx = x \/ tab[k].idx = -x
  BY TabFacts DEF E!Used
<1>2. n = CHOOSE k \in 1..Len(tab) : tab[k].idx \in {x, -x}
  BY <1>0 DEF E!At
<1>3. n \in 1..Len(tab) /\ tab[n].idx \in {x, -x}
  BY <1>1, <1>2
<1>4. Idx(tab, n) = x
  BY <1>1, <1>3 DEF Idx
<1>5. \A k \in 1..Len(tab) : Idx(tab, k) = x => k = n
  <2> SUFFICES ASSUME NEW k \in 1..Len(tab), Idx(tab, k) = x, k # n PROVE FALSE
    OBVIOUS
  <2>1. k < n \/ n < k
    BY <1>0, <1>3
  <2>2. Idx(tab, k) < Idx(tab, n) \/ Idx(tab, n) < Idx(tab, k)
    BY <2>1, <1>3 DEF InOrder
  <2>3. QED BY <2>2, <1>0, <1>3, <1>4
<1>6. \A k \in 1..Len(tab) : tab[k].idx \in {x, -x} => Idx(tab, k) = x
  BY <1>1 DEF Idx
<1>7. E!Live(tab, x) => tab[n].idx = x
  <2> SUFFICES ASSUME E!Live(tab, x) PROVE tab[n].idx = x
    OBVIOUS
  <2>1. PICK k \in 1..Len(tab) : tab[k].idx = x
    BY TabFacts
  <2>2. k = n
    BY <2>1, <1>5, <1>6
  <2>3. QED BY <2>1, <2>2
<1>8. E!Stale(tab, x) => tab[n].idx = -x
  <2> SUFFICES ASSUME E!Stale(tab, x) PROVE tab[n].idx = -x
    OBVIOUS
  <2>1. PICK k \in 1..Len(tab) : tab[k].idx = -x
    BY TabFacts
  <2>2. k = n
    BY <2>1, <1>5, <1>6
  <2>3. QED BY <2>1, <2>2
<1>9. QED BY <1>1, <1>3, <1>4, <1>5, <1>7, <1>8

\* An entry is hidden, or shown again.
LEMMA Reindexed ==
  ASSUME NEW X, Entries(X), NEW tab, NEW tail, TabRight(X, tab, tail), NEW x \in Nat, E!Used(tab, x),
         NEW j \in {x, -x}, NEW q, q = E!WithIndex(tab, x, j)
  PROVE  /\ TabRight(X, q, tail)
         /\ Pos(q) = IF j > 0 THEN Pos(tab) \cup {x} ELSE Pos(tab) \ {x}
         /\ Len(q) = Len(tab)
         /\ \A k \in 1..Len(tab) : q[k] = IF k = E!At(tab, x) THEN [tab[k] EXCEPT !.idx = j] ELSE tab[k]
<1> DEFINE n == E!At(tab, x)
<1>1. tab \in Seq(X) /\ InOrder(tab) /\ TailIs(tab, tail)
  BY DEF TabRight
<1>2. x > 0 /\ n \in 1..Len(tab) /\ Idx(tab, n) = x /\ \A k \in 1..Len(tab) : Idx(tab, k) = x => k = n
  BY <1>1, EntryAt
<1>3. q = [tab EXCEPT ![n] = [tab[n] EXCEPT !.idx = j]]
  BY DEF E!WithIndex
<1> HIDE DEF n
<1>4. j \in Int \ {0} /\ \A k \in 1..Len(tab) : tab[k] \in X /\ tab[k].idx \in Int \ {0}
  BY <1>1, <1>2 DEF Entries
<1>5. PICK e : e = [tab[n] EXCEPT !.idx = j] /\ e \in X /\ e.idx = j
  BY <1>2, <1>4 DEF Entries
<1>6. q \in Seq(X) /\ Len(q) = Len(tab) /\ \A k \in 1..Len(tab) : q[k] = IF k = n THEN e ELSE tab[k]
  <2>1. q = [tab EXCEPT ![n] = e] /\ e \in X
    BY <1>3, <1>5
  <2>2. QED BY <2>1, <1>1, <1>2
<1>7. \A k \in 1..Len(tab) : q[k].idx = IF k = n THEN j ELSE tab[k].idx
  <2>1. e.idx = j
    BY <1>5
  <2>2. QED BY <2>1, <1>6
<1>8. \A k \in 1..Len(tab) : Idx(q, k) = Idx(tab, k)
  <2> TAKE k \in 1..Len(tab)
  <2>1. CASE k # n
    <3>1. q[k].idx = tab[k].idx
      BY <2>1, <1>7
    <3>2. QED BY <3>1 DEF Idx
  <2>2. CASE k = n
    <3>1. q[k].idx = j /\ Idx(tab, k) = x
      BY <2>2, <1>2, <1>7
    <3>2. (IF j < 0 THEN -j ELSE j) = x
      BY <1>2
    <3>3. QED BY <3>1, <3>2 DEF Idx
  <2>3. QED BY <2>1, <2>2
<1>9. InOrder(q)
  BY <1>1, <1>6, <1>8 DEF InOrder
<1>10. TailIs(q, tail)
  BY <1>1, <1>2, <1>6, <1>8 DEF TailIs
<1>11. \A k \in 1..Len(tab) : k # n => tab[k].idx # x
  BY <1>2 DEF Idx
<1>12. tab[n].idx \in {x, -x}
  BY <1>2, <1>4 DEF Idx
<1>13. Pos(q) = IF j > 0 THEN Pos(tab) \cup {x} ELSE Pos(tab) \ {x}
  <2>1. \A o \in Pos(q) : o \in Pos(tab) \/ (j > 0 /\ o = x)
    BY <1>2, <1>6, <1>7 DEF Pos
  <2>2. ~ (j > 0) => x \notin Pos(q)
    BY <1>2, <1>6, <1>7, <1>11 DEF Pos
  <2>3. \A o \in Pos(tab) : o # x => o \in Pos(q)
    BY <1>2, <1>6, <1>7, <1>12 DEF Pos
  <2>4. j > 0 => x \in Pos(q)
    BY <1>2, <1>6, <1>7 DEF Pos
  <2>5. CASE j > 0
    BY <2>1, <2>3, <2>4, <2>5
  <2>6. CASE ~ (j > 0)
    BY <2>1, <2>2, <2>3, <2>6
  <2>7. QED BY <2>5, <2>6
<1>14. \A k \in 1..Len(tab) : q[k] = IF k = n THEN [tab[k] EXCEPT !.idx = j] ELSE tab[k]
  BY <1>5, <1>6
<1>15. QED BY <1>6, <1>9, <1>10, <1>13, <1>14 DEF TabRight, n

\* An entry is taken out.
LEMMA Unlinked ==
  ASSUME NEW X, Entries(X), NEW tab, NEW tail, TabRight(X, tab, tail), NEW x \in Nat, E!Live(tab, x),
         NEW q, q = E!Unlink(tab, x)
  PROVE  /\ TabRight(X, q, E!TailUnlinked(tail, x))
         /\ Pos(q) = Pos(tab) \ {x}
         /\ \A k \in 1..Len(q) : \E m \in 1..Len(tab) : q[k] = tab[m]
<1> DEFINE n == E!At(tab, x)
           N == Len(tab)
<1>1. tab \in Seq(X) /\ InOrder(tab) /\ TailIs(tab, tail) /\ N \in Nat
  BY DEF TabRight
<1>2. x > 0 /\ n \in 1..N /\ Idx(tab, n) = x /\ tab[n].idx = x /\ \A k \in 1..N : Idx(tab, k) = x => k = n
  <2>1. E!Used(tab, x)
    BY DEF E!Used
  <2>2. QED BY <1>1, <2>1, EntryAt
<1>3. q = SubSeq(tab, 1, n - 1) \o SubSeq(tab, n + 1, N)
  BY DEF E!Unlink, E!RemoveAt
<1> HIDE DEF n
<1>4. q \in Seq(X) /\ Len(q) = N - 1 /\ \A k \in 1..N - 1 : q[k] = IF k < n THEN tab[k] ELSE tab[k + 1]
  <2>1. n \in Nat /\ n >= 1 /\ n <= N
    BY <1>1, <1>2
  <2>2. /\ SubSeq(tab, 1, n - 1) \in Seq(X) /\ Len(SubSeq(tab, 1, n - 1)) = n - 1
        /\ \A k \in 1..n - 1 : SubSeq(tab, 1, n - 1)[k] = tab[k]
    <3>1. \A k \in 1..n - 1 : tab[k] \in X
      BY <1>1, <2>1
    <3>2. QED BY <3>1, <1>1, <2>1
  <2>3. /\ SubSeq(tab, n + 1, N) \in Seq(X) /\ Len(SubSeq(tab, n + 1, N)) = N - n
        /\ \A k \in 1..N - n : SubSeq(tab, n + 1, N)[k] = tab[n + k]
    <3>1. \A k \in n + 1..N : tab[k] \in X
      BY <1>1, <2>1
    <3>2. QED BY <3>1, <1>1, <2>1
  <2> DEFINE a == SubSeq(tab, 1, n - 1)
             b == SubSeq(tab, n + 1, N)
  <2> HIDE DEF N, a, b
  <2>4. q \in Seq(X) /\ Len(q) = (n - 1) + (N - n)
        /\ \A k \in 1..(n - 1) + (N - n) : q[k] = IF k <= n - 1 THEN a[k] ELSE b[k - (n - 1)]
    <3>1. a \in Seq(X) /\ Len(a) = n - 1
      BY <2>2 DEF a
    <3>2. b \in Seq(X) /\ Len(b) = N - n
      BY <2>3 DEF b
    <3>3. q = a \o b
      BY <1>3 DEF a, b
    <3>4. QED BY <3>1, <3>2, <3>3, ConcatProperties
  <2>5. (n - 1) + (N - n) = N - 1 /\ \A k \in 1..N - 1 : ~ (k < n) => k - (n - 1) \in 1..N - n /\ n + (k - (n - 1)) = k + 1
    BY <2>1, <1>1
  <2>6. \A k \in 1..N - 1 : k < n => k <= n - 1 /\ k \in 1..n - 1
    BY <2>1, <1>1
  <2>7. \A k \in 1..N - 1 : ~ (k < n) => ~ (k <= n - 1)
    BY <2>1, <1>1
  <2>8. \A k \in 1..n - 1 : a[k] = tab[k]
    BY <2>2 DEF a
  <2>9. \A k \in 1..N - n : b[k] = tab[n + k]
    BY <2>3 DEF b
  <2>10. QED BY <2>4, <2>5, <2>6, <2>7, <2>8, <2>9
<1>5. \A k \in 1..N - 1 : k \in 1..N /\ k + 1 \in 1..N /\ k # N
  BY <1>1
<1>6. \A k \in 1..N - 1 : q[k].idx = (IF k < n THEN tab[k].idx ELSE tab[k + 1].idx) /\ Idx(q, k) = IF k < n THEN Idx(tab, k) ELSE Idx(tab, k + 1)
  BY <1>4 DEF Idx
<1>7. \A k \in 1..N : tab[k].idx \in Int \ {0} /\ Idx(tab, k) \in Nat
  BY <1>1, TabFacts
<1>8. InOrder(q)
  <2> SUFFICES ASSUME NEW j \in 1..N - 1, NEW k \in 1..N - 1, j < k PROVE Idx(q, j) < Idx(q, k)
    BY <1>4 DEF InOrder
  <2>1. j \in 1..N /\ k \in 1..N /\ j + 1 \in 1..N /\ k + 1 \in 1..N /\ j < k + 1 /\ j + 1 < k + 1
    BY <1>5, <1>1
  <2>2. CASE k < n
    BY <2>1, <2>2, <1>1, <1>2, <1>6 DEF InOrder
  <2>3. CASE ~ (k < n) /\ j < n
    BY <2>1, <2>3, <1>1, <1>2, <1>6 DEF InOrder
  <2>4. CASE ~ (j < n)
    BY <2>1, <2>4, <1>1, <1>2, <1>6 DEF InOrder
  <2>5. QED BY <2>2, <2>3, <2>4
<1>9. TailIs(q, E!TailUnlinked(tail, x))
  <2>1. CASE tail = x
    BY <2>1 DEF E!TailUnlinked, E!Freed, TailIs
  <2>2. CASE tail # x /\ tail = -1
    BY <2>2 DEF E!TailUnlinked, TailIs
  <2>3. CASE tail # x /\ tail # -1
    <3>1. tail = Idx(tab, N) /\ N # 0
      BY <2>3, <1>1, <1>2 DEF TailIs
    <3>2. n # N
      BY <3>1, <2>3, <1>2
    <3>3. n < N /\ N - 1 \in 1..N - 1 /\ ~ (N - 1 < n) /\ (N - 1) + 1 = N
      BY <3>2, <1>1, <1>2
    <3>4. Idx(q, N - 1) = Idx(tab, N)
      BY <3>3, <1>6
    <3>5. q # <<>>
      BY <3>3, <1>4
    <3>6. E!TailUnlinked(tail, x) = tail
      BY <2>3 DEF E!TailUnlinked
    <3>7. QED BY <3>1, <3>4, <3>5, <3>6, <1>4 DEF TailIs
  <2>4. QED BY <2>1, <2>2, <2>3
<1>10. \A m \in 1..N : m # n => \E k \in 1..N - 1 : q[k] = tab[m]
  <2> SUFFICES ASSUME NEW m \in 1..N, m # n PROVE \E k \in 1..N - 1 : q[k] = tab[m]
    OBVIOUS
  <2>1. CASE m < n
    <3>1. m \in 1..N - 1
      BY <2>1, <1>1, <1>2
    <3>2. QED BY <3>1, <2>1, <1>4
  <2>2. CASE m > n
    <3>1. m - 1 \in 1..N - 1 /\ ~ (m - 1 < n) /\ (m - 1) + 1 = m
      BY <2>2, <1>1, <1>2
    <3>2. QED BY <3>1, <1>4
  <2>3. QED BY <2>1, <2>2, <1>2, <1>1
<1>11. \A k \in 1..N - 1 : \E m \in 1..N : q[k] = tab[m] /\ m # n
  <2> TAKE k \in 1..N - 1
  <2>1. CASE k < n
    BY <2>1, <1>4, <1>5, <1>2
  <2>2. CASE ~ (k < n)
    <3>1. k + 1 # n
      BY <2>2, <1>1, <1>2
    <3>2. QED BY <3>1, <2>2, <1>4, <1>5
  <2>3. QED BY <2>1, <2>2
<1>12. Pos(q) = Pos(tab) \ {x}
  <2>1. \A o \in Pos(q) : o \in Pos(tab) /\ o # x
    <3> SUFFICES ASSUME NEW k \in 1..N - 1, q[k].idx > 0 PROVE q[k].idx \in Pos(tab) /\ q[k].idx # x
      BY <1>4 DEF Pos
    <3>1. PICK m \in 1..N : q[k] = tab[m] /\ m # n
      BY <1>11
    <3>2. tab[m].idx # x
      BY <3>1, <1>2 DEF Idx
    <3>3. QED BY <3>1, <3>2 DEF Pos
  <2>2. \A o \in Pos(tab) : o # x => o \in Pos(q)
    <3> SUFFICES ASSUME NEW m \in 1..N, tab[m].idx > 0, tab[m].idx # x PROVE tab[m].idx \in Pos(q)
      BY DEF Pos
    <3>1. m # n
      BY <1>2
    <3>2. PICK k \in 1..N - 1 : q[k] = tab[m]
      BY <3>1, <1>10
    <3>3. QED BY <3>2, <1>4 DEF Pos
  <2>3. QED BY <2>1, <2>2
<1>13. QED BY <1>4, <1>8, <1>9, <1>11, <1>12 DEF TabRight

\* The entries of two lists, one behind the other.
LEMMA ConcatAt ==
  ASSUME NEW X, NEW s \in Seq(X), NEW t \in Seq(X), NEW r, r = s \o t
  PROVE  /\ r \in Seq(X) /\ Len(r) = Len(s) + Len(t)
         /\ \A k \in 1..Len(s) + Len(t) : r[k] = IF k <= Len(s) THEN s[k] ELSE t[k - Len(s)]
BY ConcatProperties

\* An entry with an index that is not used is put in.
LEMMA Inserted ==
  ASSUME NEW X, Entries(X), NEW tab, NEW tail, TabRight(X, tab, tail), NEW e \in X, NEW x, x = e.idx, x > 0,
         ~ E!Used(tab, x), NEW q, q = E!Insert(tab, e)
  PROVE  /\ TabRight(X, q, E!TailAfter(tab, tail, x))
         /\ Pos(q) = Pos(tab) \cup {x}
         /\ \A k \in 1..Len(q) : q[k] = e \/ \E m \in 1..Len(tab) : q[k] = tab[m]
<1> DEFINE N == Len(tab)
           n == E!Place(tab, x)
<1>1. tab \in Seq(X) /\ InOrder(tab) /\ TailIs(tab, tail) /\ N \in Nat
  BY DEF TabRight
<1>2. x \in Nat \ {0} /\ \A k \in 1..N : Idx(tab, k) \in Nat \ {0} /\ tab[k].idx \in Int \ {0}
  BY <1>1, TabFacts DEF Entries
<1>3. \A k \in 1..N : Idx(tab, k) # x
  <2> SUFFICES ASSUME NEW k \in 1..N, Idx(tab, k) = x PROVE FALSE
    OBVIOUS
  <2>1. tab[k].idx \in {x, -x}
    BY <1>2 DEF Idx
  <2>2. E!Live(tab, x) \/ E!Stale(tab, x)
    BY <2>1, <1>1, <1>2, TabFacts
  <2>3. QED BY <2>2 DEF E!Used
<1>4. n \in 1..N + 1 /\ (n <= N => x <= Idx(tab, n)) /\ \A k \in 1..N + 1 : (k <= N => x <= Idx(tab, k)) => n <= k
  <2> DEFINE S == {k \in 1..N + 1 : k <= N => x <= E!ListIndex(tab, k)}
  <2>1. N + 1 \in S /\ S \subseteq Nat
    BY <1>1
  <2>2. n = CHOOSE k \in S : \A m \in S : k <= m
    BY DEF E!Place, E!Min
  <2>3. \E k \in S : \A m \in S : k <= m
    <3> HIDE DEF S
    <3>1. QED BY <2>1, LeastNumber
  <2>4. n \in S /\ \A m \in S : n <= m
    <3> HIDE DEF S, n
    <3>1. QED BY <2>2, <2>3
  <2>5. \A k : E!ListIndex(tab, k) = Idx(tab, k)
    BY <1>1, TabFacts
  <2>6. QED BY <2>4, <2>5
<1>5. q = SubSeq(tab, 1, n - 1) \o <<e>> \o SubSeq(tab, n, N)
  BY DEF E!Insert, E!InsertAt
<1> HIDE DEF n
<1>6. n \in Nat /\ n >= 1 /\ n <= N + 1
  BY <1>1, <1>4
<1>7. q \in Seq(X) /\ Len(q) = N + 1 /\ \A k \in 1..N + 1 : q[k] = IF k < n THEN tab[k] ELSE IF k = n THEN e ELSE tab[k - 1]
  <2>1. /\ SubSeq(tab, 1, n - 1) \in Seq(X) /\ Len(SubSeq(tab, 1, n - 1)) = n - 1
        /\ \A k \in 1..n - 1 : SubSeq(tab, 1, n - 1)[k] = tab[k]
    <3>1. \A k \in 1..n - 1 : tab[k] \in X
      BY <1>1, <1>6
    <3>2. QED BY <3>1, <1>1, <1>6
  <2>2. /\ SubSeq(tab, n, N) \in Seq(X) /\ Len(SubSeq(tab, n, N)) = (N - n) + 1
        /\ \A k \in 1..(N - n) + 1 : SubSeq(tab, n, N)[k] = tab[(n + k) - 1]
    <3>1. \A k \in n..N : tab[k] \in X
      BY <1>1, <1>6
    <3>2. QED BY <3>1, <1>1, <1>6
  <2> DEFINE a == SubSeq(tab, 1, n - 1)
             b == SubSeq(tab, n, N)
  <2>3. a \in Seq(X) /\ Len(a) = n - 1 /\ \A k \in 1..n - 1 : a[k] = tab[k]
    BY <2>1 DEF a
  <2>4. b \in Seq(X) /\ Len(b) = (N - n) + 1 /\ \A k \in 1..(N - n) + 1 : b[k] = tab[(n + k) - 1]
    BY <2>2 DEF b
  <2>5. q = (a \o <<e>>) \o b
    BY <1>5 DEF a, b
  <2> HIDE DEF a, b, N
  <2>6. <<e>> \in Seq(X) /\ Len(<<e>>) = 1 /\ <<e>>[1] = e
    OBVIOUS
  <2>7. PICK c : c = a \o <<e>>
    OBVIOUS
  <2>8. c \in Seq(X) /\ Len(c) = n /\ (\A k \in 1..n - 1 : c[k] = tab[k]) /\ c[n] = e
    <3>1. c \in Seq(X) /\ Len(c) = (n - 1) + 1 /\ \A k \in 1..(n - 1) + 1 : c[k] = IF k <= n - 1 THEN a[k] ELSE <<e>>[k - (n - 1)]
      BY <2>3, <2>6, <2>7, ConcatProperties
    <3>2. (n - 1) + 1 = n /\ n \in 1..n /\ ~ (n <= n - 1) /\ n - (n - 1) = 1 /\ \A k \in 1..n - 1 : k \in 1..n /\ k <= n - 1
      BY <1>6
    <3>3. QED BY <3>1, <3>2, <2>3, <2>6
  <2>9. q \in Seq(X) /\ Len(q) = n + ((N - n) + 1) /\ \A k \in 1..n + ((N - n) + 1) : q[k] = IF k <= n THEN c[k] ELSE b[k - n]
    <3>1. c \in Seq(X)
      BY <2>8
    <3>2. b \in Seq(X)
      BY <2>4
    <3>3. q = c \o b
      BY <2>5, <2>7
    <3>4. PICK r : r = q
      OBVIOUS
    <3>5. r = c \o b
      BY <3>3, <3>4
    <3>6. r \in Seq(X) /\ Len(r) = Len(c) + Len(b) /\ \A k \in 1..Len(c) + Len(b) : r[k] = IF k <= Len(c) THEN c[k] ELSE b[k - Len(c)]
      BY <3>1, <3>2, <3>5, ConcatAt
    <3>7. QED BY <3>4, <3>6, <2>4, <2>8
  <2>10. n + ((N - n) + 1) = N + 1
    BY <1>1, <1>6
  <2>11. \A k \in 1..N + 1 : k > n => ~ (k <= n) /\ ~ (k < n) /\ k # n /\ k - n \in 1..(N - n) + 1 /\ (n + (k - n)) - 1 = k - 1
    BY <1>1, <1>6
  <2>12. \A k \in 1..N + 1 : k < n => k <= n /\ k \in 1..n - 1
    BY <1>1, <1>6
  <2>13. \A k \in 1..N + 1 : k < n \/ k = n \/ k > n
    BY <1>1, <1>6
  <2>14. \A k \in 1..N + 1 : k = n => k <= n /\ ~ (k < n)
    BY <1>1, <1>6
  <2>15. QED BY <2>4, <2>8, <2>9, <2>10, <2>11, <2>12, <2>13, <2>14
<1>8. \A k \in 1..N + 1 : (k < n => k \in 1..N) /\ (k > n => k - 1 \in 1..N /\ k - 1 >= n)
  BY <1>1, <1>6
<1>9. \A k \in 1..N + 1 : Idx(q, k) = IF k < n THEN Idx(tab, k) ELSE IF k = n THEN x ELSE Idx(tab, k - 1)
  BY <1>2, <1>7, <1>8 DEF Idx
<1>10. \A k \in 1..N : k < n => Idx(tab, k) < x
  <2> SUFFICES ASSUME NEW k \in 1..N, k < n PROVE Idx(tab, k) < x
    OBVIOUS
  <2>1. k \in 1..N + 1 /\ k <= N /\ ~ (n <= k)
    BY <1>1, <1>6
  <2>2. QED BY <2>1, <1>2, <1>4
<1>11. \A k \in 1..N : k >= n => x < Idx(tab, k)
  <2> SUFFICES ASSUME NEW k \in 1..N, k >= n PROVE x < Idx(tab, k)
    OBVIOUS
  <2>1. n \in 1..N /\ n <= N /\ (n < k \/ n = k)
    BY <1>1, <1>6
  <2>2. x < Idx(tab, n)
    BY <2>1, <1>2, <1>3, <1>4
  <2>3. n < k => Idx(tab, n) < Idx(tab, k)
    BY <2>1, <1>1 DEF InOrder
  <2>4. QED BY <2>1, <2>2, <2>3, <1>2
<1>12. InOrder(q)
  <2> SUFFICES ASSUME NEW j \in 1..N + 1, NEW k \in 1..N + 1, j < k PROVE Idx(q, j) < Idx(q, k)
    BY <1>7 DEF InOrder
  <2>1. CASE k < n
    <3>1. j < n /\ j \in 1..N /\ k \in 1..N
      BY <2>1, <1>8, <1>6
    <3>2. QED BY <3>1, <2>1, <1>1, <1>9 DEF InOrder
  <2>2. CASE k = n
    BY <2>2, <1>8, <1>9, <1>10
  <2>3. CASE k > n /\ j < n
    <3>1. Idx(tab, j) < x /\ x < Idx(tab, k - 1) /\ j \in 1..N /\ k - 1 \in 1..N
      BY <2>3, <1>8, <1>10, <1>11
    <3>2. Idx(q, j) = Idx(tab, j) /\ Idx(q, k) = Idx(tab, k - 1)
      BY <2>3, <1>6, <1>9
    <3>3. QED BY <3>1, <3>2, <1>2
  <2>4. CASE k > n /\ j = n
    BY <2>4, <1>6, <1>8, <1>9, <1>11
  <2>5. CASE k > n /\ j > n
    <3>1. j - 1 \in 1..N /\ k - 1 \in 1..N /\ j - 1 < k - 1
      BY <2>5, <1>8
    <3>2. Idx(q, j) = Idx(tab, j - 1) /\ Idx(q, k) = Idx(tab, k - 1)
      BY <2>5, <1>6, <1>9
    <3>3. QED BY <3>1, <3>2, <1>1 DEF InOrder
  <2>6. QED BY <2>1, <2>2, <2>3, <2>4, <2>5, <1>6
<1>13. TailIs(q, E!TailAfter(tab, tail, x))
  <2>1. \A k : E!ListIndex(tab, k) = Idx(tab, k)
    BY <1>1, TabFacts
  <2>2. E!TailAfter(tab, tail, x) = IF \A k \in 1..N : Idx(tab, k) < x THEN x ELSE tail
    BY <1>1, <2>1 DEF E!TailAfter
  <2>3. q # <<>> /\ N + 1 \in 1..N + 1
    BY <1>1, <1>7
  <2>4. CASE \A k \in 1..N : Idx(tab, k) < x
    <3>1. n = N + 1
      <4> SUFFICES ASSUME n <= N PROVE FALSE
        BY <1>6, <1>1
      <4>1. n \in 1..N /\ n >= n
        BY <1>6
      <4>2. QED BY <4>1, <2>4, <1>11, <1>2
    <3>2. Idx(q, N + 1) = x
      BY <3>1, <2>3, <1>9
    <3>3. QED BY <3>2, <2>2, <2>3, <2>4, <1>7 DEF TailIs
  <2>5. CASE ~ \A k \in 1..N : Idx(tab, k) < x
    <3>1. n <= N
      <4> SUFFICES ASSUME ~ (n <= N) PROVE FALSE
        OBVIOUS
      <4>1. \A k \in 1..N : k < n
        BY <1>1, <1>6
      <4>2. QED BY <4>1, <2>5, <1>10
    <3>2. N + 1 > n /\ (N + 1) - 1 = N /\ N # 0
      BY <3>1, <1>1, <1>6
    <3>3. Idx(q, N + 1) = Idx(tab, N)
      BY <3>2, <2>3, <1>6, <1>9
    <3>4. tail = -1 \/ tail = Idx(tab, N)
      BY <3>2, <1>1 DEF TailIs
    <3>5. QED BY <3>3, <3>4, <2>2, <2>3, <2>5, <1>7 DEF TailIs
  <2>6. QED BY <2>4, <2>5
<1>14. \A k \in 1..N + 1 : q[k] = e \/ \E m \in 1..N : q[k] = tab[m]
  BY <1>7, <1>8, <1>6
<1>15. \A m \in 1..N : \E k \in 1..N + 1 : q[k] = tab[m]
  <2> TAKE m \in 1..N
  <2>1. CASE m < n
    <3>1. m \in 1..N + 1
      BY <1>1
    <3>2. QED BY <2>1, <3>1, <1>7
  <2>2. CASE ~ (m < n)
    <3>1. m + 1 \in 1..N + 1 /\ ~ (m + 1 < n) /\ m + 1 # n /\ (m + 1) - 1 = m
      BY <2>2, <1>1, <1>6
    <3>2. QED BY <3>1, <1>7
  <2>3. QED BY <2>1, <2>2
<1>16. q[n] = e /\ n \in 1..N + 1
  BY <1>4, <1>6, <1>7
<1>17. Pos(q) = Pos(tab) \cup {x}
  <2>1. \A o \in Pos(q) : o \in Pos(tab) \/ o = x
    BY <1>7, <1>14 DEF Pos
  <2>2. x \in Pos(q)
    BY <1>2, <1>7, <1>16 DEF Pos
  <2>3. \A o \in Pos(tab) : o \in Pos(q)
    BY <1>7, <1>15 DEF Pos
  <2>4. QED BY <2>1, <2>2, <2>3
<1>18. QED BY <1>7, <1>12, <1>13, <1>14, <1>17 DEF TabRight

\* AddToPhysicalTable and AddToLogicalTable: the index of a new entry is not used.
LEMMA NewIndexIsFree ==
  ASSUME NEW X, Entries(X), NEW tab, NEW tail, TabRight(X, tab, tail), NEW want \in Nat,
         ~ E!AddBreaks(tab, tail, want), NEW x, x = E!NewIndex(tab, tail, want)
  PROVE  x \in Nat \ {0} /\ ~ E!Used(tab, x)
<1> DEFINE N == Len(tab)
<1>1. tab \in Seq(X) /\ InOrder(tab) /\ TailIs(tab, tail) /\ N \in Nat
  BY DEF TabRight
<1>2. \A k \in 1..N : Idx(tab, k) \in Nat \ {0} /\ tab[k].idx \in Int \ {0}
  BY <1>1, TabFacts
<1>3. \A k : E!ListIndex(tab, k) = Idx(tab, k)
  BY <1>1, TabFacts
<1>4. \A y \in Nat \ {0} : (\A k \in 1..N : Idx(tab, k) # y) => ~ E!Used(tab, y)
  <2> SUFFICES ASSUME NEW y \in Nat \ {0}, E!Used(tab, y) PROVE \E k \in 1..N : Idx(tab, k) = y
    OBVIOUS
  <2>1. QED BY <1>1, EntryAt
<1>5. N # 0 => \A k \in 1..N : Idx(tab, k) <= Idx(tab, N)
  <2> SUFFICES ASSUME NEW k \in 1..N PROVE Idx(tab, k) <= Idx(tab, N)
    OBVIOUS
  <2>1. CASE k = N
    BY <2>1, <1>2
  <2>2. CASE k < N
    <3>1. N \in 1..N
      BY <1>1
    <3>2. Idx(tab, k) < Idx(tab, N)
      BY <3>1, <2>2, <1>1 DEF InOrder
    <3>3. QED BY <3>1, <3>2, <1>2
  <2>3. QED BY <2>1, <2>2, <1>1
<1>6. N # 0 => Idx(tab, N) + 1 \in Nat \ {0} /\ \A k \in 1..N : Idx(tab, k) # Idx(tab, N) + 1
  <2> SUFFICES ASSUME N # 0 PROVE Idx(tab, N) + 1 \in Nat \ {0} /\ \A k \in 1..N : Idx(tab, k) # Idx(tab, N) + 1
    OBVIOUS
  <2>1. N \in 1..N
    BY <1>1
  <2>2. QED BY <2>1, <1>2, <1>5
<1>7. CASE want > 0 /\ ~ E!Used(tab, want)
  <2>1. x = want
    BY <1>7 DEF E!NewIndex
  <2>2. QED BY <2>1, <1>7
<1>8. CASE ~ (want > 0 /\ ~ E!Used(tab, want)) /\ N > LargeTable
  <2>1. x = tail + 1
    BY <1>8 DEF E!NewIndex
  <2>2. E!UsesTail(tab, want)
    BY <1>8 DEF E!UsesTail
  <2>3. tail # -1
    BY <2>2 DEF E!AddBreaks, E!Freed
  <2>4. CASE tab = <<>>
    <3>1. x = 1 /\ N = 0
      BY <2>1, <2>3, <2>4, <1>1 DEF TailIs
    <3>2. \A k \in 1..N : FALSE
      BY <3>1
    <3>3. QED BY <3>1, <3>2, <1>4
  <2>5. CASE tab # <<>>
    <3>1. x = Idx(tab, N) + 1 /\ N # 0
      BY <2>1, <2>3, <2>5, <1>1 DEF TailIs
    <3>2. QED BY <3>1, <1>4, <1>6
  <2>6. QED BY <2>4, <2>5
<1>9. CASE ~ (want > 0 /\ ~ E!Used(tab, want)) /\ ~ (N > LargeTable) /\ tab = <<>>
  <2>1. x = 1 /\ N = 0
    BY <1>9 DEF E!NewIndex
  <2>2. \A k \in 1..N : FALSE
    BY <2>1
  <2>3. QED BY <2>1, <2>2, <1>4
<1>10. CASE ~ (want > 0 /\ ~ E!Used(tab, want)) /\ ~ (N > LargeTable) /\ tab # <<>> /\ E!Gaps(tab) # {}
  <2> DEFINE G == E!Gaps(tab)
             n == E!Min(G)
  <2>1. G \subseteq 1..N - 1 /\ \A k \in G : Idx(tab, k + 1) - Idx(tab, k) > 1
    BY <1>3 DEF E!Gaps
  <2>2. n \in G
    <3> HIDE DEF G
    <3>1. G \in SUBSET Nat /\ G # {}
      BY <2>1, <1>1, <1>10 DEF G
    <3>2. \E k \in G : \A m \in G : k <= m
      BY <3>1, LeastNumber
    <3>3. QED BY <3>2 DEF E!Min
  <2>3. x = Idx(tab, n) + 1
    BY <1>3, <1>10 DEF E!NewIndex
  <2> HIDE DEF n, G
  <2>4. n \in 1..N /\ n + 1 \in 1..N /\ Idx(tab, n + 1) - Idx(tab, n) > 1
    BY <2>1, <2>2, <1>1
  <2>5. x \in Nat \ {0}
    BY <2>3, <2>4, <1>2
  <2>6. \A k \in 1..N : Idx(tab, k) # x
    <3> SUFFICES ASSUME NEW k \in 1..N, Idx(tab, k) = x PROVE FALSE
      OBVIOUS
    <3>1. CASE k <= n
      <4>1. k < n => Idx(tab, k) < Idx(tab, n)
        BY <2>4, <1>1 DEF InOrder
      <4>2. k = n \/ k < n
        BY <3>1, <2>4
      <4>3. QED BY <4>1, <4>2, <2>3, <2>4, <1>2
    <3>2. CASE k >= n + 1
      <4>1. k > n + 1 => Idx(tab, n + 1) < Idx(tab, k)
        BY <2>4, <1>1 DEF InOrder
      <4>2. k = n + 1 \/ k > n + 1
        BY <3>2, <2>4
      <4>3. QED BY <4>1, <4>2, <2>3, <2>4, <1>2
    <3>3. QED BY <3>1, <3>2, <2>4
  <2>7. QED BY <2>5, <2>6, <1>4
<1>11. CASE ~ (want > 0 /\ ~ E!Used(tab, want)) /\ ~ (N > LargeTable) /\ tab # <<>> /\ E!Gaps(tab) = {}
  <2>1. x = Idx(tab, N) + 1 /\ N # 0
    BY <1>1, <1>3, <1>11 DEF E!NewIndex
  <2>2. QED BY <2>1, <1>4, <1>6
<1>12. QED BY <1>7, <1>8, <1>9, <1>10, <1>11

\* Entries that only moved to another parent.
LEMMA Moved ==
  ASSUME NEW tab, NEW tail, TabRight(PhysEntry, tab, tail),
         NEW q \in Seq(PhysEntry), Len(q) = Len(tab), \A k \in 1..Len(tab) : q[k].idx = tab[k].idx
  PROVE  /\ TabRight(PhysEntry, q, tail) /\ Pos(q) = Pos(tab)
         /\ \A x : E!Live(q, x) <=> E!Live(tab, x)
         /\ \A x : E!Stale(q, x) <=> E!Stale(tab, x)
         /\ \A x : E!At(q, x) = E!At(tab, x)
<1>1. tab \in Seq(PhysEntry) /\ InOrder(tab) /\ TailIs(tab, tail)
  BY DEF TabRight
<1>2. DOMAIN q = 1..Len(q) /\ DOMAIN tab = 1..Len(tab) /\ Len(q) = Len(tab) /\ (q = <<>> <=> tab = <<>>)
  BY <1>1
<1>3. \A k \in 1..Len(tab) : Idx(q, k) = Idx(tab, k)
  BY DEF Idx
<1>4. InOrder(q)
  BY <1>1, <1>3, <1>2 DEF InOrder
<1>5. TailIs(q, tail)
  <2>1. tab # <<>> => Len(tab) \in 1..Len(tab)
    BY <1>1
  <2>2. tab # <<>> => Idx(q, Len(q)) = Idx(tab, Len(tab))
    BY <2>1, <1>2, <1>3
  <2>3. QED BY <2>2, <1>1, <1>2 DEF TailIs
<1>6. Pos(q) = Pos(tab)
  BY <1>2 DEF Pos
<1>7. E!Indices(q) = E!Indices(tab)
  BY <1>2 DEF E!Indices
<1>8. \A x : (E!Live(q, x) <=> E!Live(tab, x)) /\ (E!Stale(q, x) <=> E!Stale(tab, x))
  BY <1>7, Zenon DEF E!Live, E!Stale
<1>9. \A x : E!At(q, x) = E!At(tab, x)
  <2> TAKE x
  <2>1. \A k \in DOMAIN q : q[k].idx \in {x, -x} <=> tab[k].idx \in {x, -x}
    BY <1>2
  <2>2. QED BY <2>1, <1>2 DEF E!At
<1>10. QED BY <1>4, <1>5, <1>6, <1>8, <1>9 DEF TabRight

-----------------------------------------------------------------------------
(* EntityMib: the rows.  Has(row, y) and Names(rel, o, y) are of a slot; what *)
(* is low or higher is shown, and stands in one slot of its row.             *)

MapRow == [of : Nat \ {0}, to : Seq(Int)]
Has(row, y) == \E n \in 1..Len(row.to) : row.to[n] = y
Distinct(row, low) == \A m, n \in 1..Len(row.to) : row.to[m] = row.to[n] /\ row.to[m] >= low => m = n
RowsRight(rel, low) == rel \in Seq(MapRow) /\ \A k \in 1..Len(rel) : Distinct(rel[k], low)
NamesIt(rel, o, y) == \E k \in 1..Len(rel) : rel[k].of = o /\ Has(rel[k], y)

LEMMA GreatestNumber ==
  ASSUME NEW N \in Nat, NEW W \in SUBSET (0..N), W # {}
  PROVE  \E m \in W : \A k \in W : m >= k
<1> DEFINE V == {N - k : k \in W}
<1>1. V \in SUBSET Nat /\ V # {}
  <2>1. \A k \in W : N - k \in Nat
    OBVIOUS
  <2>2. PICK k \in W : TRUE
    OBVIOUS
  <2>3. N - k \in V
    BY <2>2
  <2>4. QED BY <2>1, <2>3
<1>2. PICK v \in V : \A u \in V : v <= u
  <2> HIDE DEF V
  <2>1. QED BY <1>1, LeastNumber
<1>3. PICK m \in W : v = N - m
  BY <1>2
<1>4. \A k \in W : N - m <= N - k
  BY <1>2, <1>3
<1>5. QED BY <1>3, <1>4

LEMMA RowMade == \A o \in Nat \ {0}, t \in Seq(Int) : [of |-> o, to |-> t] \in MapRow
BY DEF MapRow

LEMMA SlotsAre ==
  ASSUME NEW row \in MapRow, NEW x
  PROVE  /\ E!Slots(row, x) = {n \in 1..Len(row.to) : row.to[n] = x}
         /\ Has(row, x) <=> E!Slots(row, x) # {}
         /\ Has(row, x) => E!Min(E!Slots(row, x)) \in E!Slots(row, x) /\ E!Max(E!Slots(row, x)) \in E!Slots(row, x)
<1> DEFINE S == E!Slots(row, x)
<1>1. row.to \in Seq(Int) /\ DOMAIN row.to = 1..Len(row.to) /\ Len(row.to) \in Nat
  BY DEF MapRow
<1>2. S = {n \in 1..Len(row.to) : row.to[n] = x}
  BY <1>1 DEF E!Slots
<1>3. Has(row, x) <=> S # {}
  BY <1>2 DEF Has
<1> HIDE DEF S
<1>4. ASSUME S # {} PROVE E!Min(S) \in S /\ E!Max(S) \in S
  <2>1. S \in SUBSET Nat /\ S \in SUBSET (0..Len(row.to))
    BY <1>1, <1>2
  <2>2. \E m \in S : \A k \in S : m <= k
    BY <1>4, <2>1, LeastNumber
  <2>3. \E m \in S : \A k \in S : m >= k
    BY <1>1, <1>4, <2>1, GreatestNumber
  <2>4. E!Min(S) \in S
    BY <2>2 DEF E!Min
  <2>5. E!Max(S) \in S
    BY <2>3 DEF E!Max
  <2>6. QED BY <2>4, <2>5
<1>5. QED BY <1>2, <1>3, <1>4 DEF S

\* One slot of a row changes.
LEMMA SlotChanged ==
  ASSUME NEW row \in MapRow, NEW low \in Int, Distinct(row, low), NEW n \in 1..Len(row.to), NEW y \in Int,
         y >= low => ~ Has(row, y), NEW q, q = [row EXCEPT !.to[n] = y]
  PROVE  /\ q \in MapRow /\ q.of = row.of /\ Distinct(q, low)
         /\ \A o : Has(q, o) => o = y \/ Has(row, o)
         /\ row.to[n] >= low /\ row.to[n] # y => ~ Has(q, row.to[n])
<1>1. row.of \in Nat \ {0} /\ row.to \in Seq(Int) /\ Len(row.to) \in Nat /\ row = [of |-> row.of, to |-> row.to]
  BY DEF MapRow
<1>2. PICK t : t = [row.to EXCEPT ![n] = y]
  OBVIOUS
<1>3. t \in Seq(Int) /\ Len(t) = Len(row.to) /\ \A k \in 1..Len(row.to) : t[k] = IF k = n THEN y ELSE row.to[k]
  BY <1>1, <1>2
<1>4. q = [of |-> row.of, to |-> t]
  BY <1>1, <1>2
<1>5. q.of = row.of /\ q.to = t
  BY <1>4
<1>6. q \in MapRow
  <2>1. row.of \in Nat \ {0} /\ t \in Seq(Int)
    BY <1>1, <1>3
  <2>2. QED BY <2>1, <1>4, RowMade
<1>7. \A k \in 1..Len(row.to) : row.to[k] \in Int
  BY <1>1
<1>8. Distinct(q, low)
  <2> SUFFICES ASSUME NEW j \in 1..Len(row.to), NEW k \in 1..Len(row.to), t[j] = t[k], t[j] >= low PROVE j = k
    BY <1>3, <1>5 DEF Distinct
  <2>1. CASE j = n /\ k # n
    BY <2>1, <1>3 DEF Has
  <2>2. CASE j # n /\ k = n
    BY <2>2, <1>3 DEF Has
  <2>3. CASE j # n /\ k # n
    BY <2>3, <1>3 DEF Distinct
  <2>4. QED BY <2>1, <2>2, <2>3
<1>9. \A o : Has(q, o) => o = y \/ Has(row, o)
  BY <1>3, <1>5 DEF Has
<1>10. ASSUME row.to[n] >= low, row.to[n] # y PROVE ~ Has(q, row.to[n])
  <2> SUFFICES ASSUME NEW k \in 1..Len(row.to), t[k] = row.to[n] PROVE FALSE
    BY <1>3, <1>5 DEF Has
  <2>1. k # n
    BY <1>3, <1>10
  <2>2. row.to[k] = row.to[n] /\ row.to[k] >= low
    BY <2>1, <1>3, <1>10
  <2>3. QED BY <2>1, <2>2 DEF Distinct
<1>11. QED BY <1>5, <1>6, <1>8, <1>9, <1>10

\* A row has one slot more.
WithSlot(row, y) == [row EXCEPT !.to = Append(@, y)]

LEMMA SlotAdded ==
  ASSUME NEW row \in MapRow, NEW low \in Int, Distinct(row, low), NEW y \in Int, ~ Has(row, y),
         NEW q, q = WithSlot(row, y)
  PROVE  /\ q \in MapRow /\ q.of = row.of /\ Distinct(q, low)
         /\ \A o : Has(q, o) => o = y \/ Has(row, o)
<1>1. row.of \in Nat \ {0} /\ row.to \in Seq(Int) /\ Len(row.to) \in Nat /\ row = [of |-> row.of, to |-> row.to]
  BY DEF MapRow
<1> DEFINE N == Len(row.to)
<1>2. PICK t : t = Append(row.to, y)
  OBVIOUS
<1>3. t \in Seq(Int) /\ Len(t) = N + 1 /\ (\A k \in 1..N : t[k] = row.to[k]) /\ t[N + 1] = y
  BY <1>1, <1>2
<1>4. q = [of |-> row.of, to |-> t]
  BY <1>1, <1>2 DEF WithSlot
<1>5. q.of = row.of /\ q.to = t
  BY <1>4
<1>6. q \in MapRow
  <2>1. row.of \in Nat \ {0} /\ t \in Seq(Int)
    BY <1>1, <1>3
  <2>2. QED BY <2>1, <1>4, RowMade
<1> HIDE DEF N
<1>7. N \in Nat /\ \A k \in 1..N + 1 : k \in 1..N \/ k = N + 1
  BY <1>1 DEF N
<1>8. (\A k \in 1..N : row.to[k] # y) /\ \A j, k \in 1..N : row.to[j] = row.to[k] /\ row.to[j] >= low => j = k
  BY DEF Has, Distinct, N
<1>9. \A j, k \in 1..N + 1 : t[j] = t[k] /\ t[j] >= low => j = k
  <2> SUFFICES ASSUME NEW j \in 1..N + 1, NEW k \in 1..N + 1, t[j] = t[k], t[j] >= low PROVE j = k
    OBVIOUS
  <2>1. CASE j \in 1..N /\ k \in 1..N
    BY <2>1, <1>3, <1>8
  <2>2. CASE j \in 1..N /\ k = N + 1
    BY <2>2, <1>3, <1>8
  <2>3. CASE j = N + 1 /\ k \in 1..N
    BY <2>3, <1>3, <1>8
  <2>4. QED BY <2>1, <2>2, <2>3, <1>7
<1>10. Distinct(q, low)
  <2>1. q.to = t /\ Len(q.to) = N + 1
    BY <1>3, <1>5
  <2>2. QED BY <2>1, <1>9, SMTT(30) DEF Distinct
<1>11. \A o : Has(q, o) => o = y \/ Has(row, o)
  <2> SUFFICES ASSUME NEW k \in 1..N + 1, t[k] # y PROVE Has(row, t[k])
    BY <1>3, <1>5 DEF Has
  <2>1. k \in 1..N
    BY <1>3, <1>7
  <2>2. QED BY <2>1, <1>3 DEF Has, N
<1>12. QED BY <1>5, <1>6, <1>10, <1>11

LEMMA FirstToChanges ==
  ASSUME NEW row \in MapRow, NEW low \in Int, Distinct(row, low), NEW x \in Int, NEW y \in Int,
         y >= low => ~ Has(row, y), NEW q, q = E!FirstTo(row, x, y)
  PROVE  /\ q \in MapRow /\ q.of = row.of /\ Distinct(q, low)
         /\ \A o : Has(q, o) => o = y \/ Has(row, o)
         /\ x >= low /\ x # y => ~ Has(q, x)
<1>1. CASE ~ Has(row, x)
  <2>1. q = row
    BY <1>1, SlotsAre DEF E!FirstTo
  <2>2. QED BY <1>1, <2>1
<1>2. CASE Has(row, x)
  <2>1. PICK n : n = E!Min(E!Slots(row, x))
    OBVIOUS
  <2>2. n \in 1..Len(row.to) /\ row.to[n] = x
    BY <1>2, <2>1, SlotsAre
  <2>3. q = [row EXCEPT !.to[n] = y]
    BY <1>2, <2>1, SlotsAre DEF E!FirstTo
  <2>4. QED BY <2>2, <2>3, SlotChanged
<1>3. QED BY <1>1, <1>2

LEMMA RelFacts ==
  ASSUME NEW rel \in Seq(MapRow)
  PROVE  /\ Len(rel) \in Nat /\ DOMAIN rel = 1..Len(rel)
         /\ \A k \in 1..Len(rel) : rel[k] \in MapRow /\ rel[k].of \in Nat \ {0}
         /\ \A o : E!RowsOf(rel, o) = {k \in 1..Len(rel) : rel[k].of = o}
<1>1. Len(rel) \in Nat /\ DOMAIN rel = 1..Len(rel) /\ \A k \in 1..Len(rel) : rel[k] \in MapRow
  OBVIOUS
<1>2. \A k \in 1..Len(rel) : rel[k].of \in Nat \ {0}
  BY <1>1 DEF MapRow
<1>3. QED BY <1>1, <1>2 DEF E!RowsOf

\* An index is taken out of every row.
LEMMA InRowsChanges ==
  ASSUME NEW rel, NEW low \in Int, RowsRight(rel, low), NEW x \in Int, NEW y \in Int, y < low,
         NEW q, q = E!InRows(rel, x, y)
  PROVE  RowsRight(q, low) /\ \A o, z : z >= low /\ NamesIt(q, o, z) => NamesIt(rel, o, z) /\ z # x
<1>1. rel \in Seq(MapRow) /\ Len(rel) \in Nat /\ DOMAIN rel = 1..Len(rel)
  BY DEF RowsRight
<1>2. \A k \in 1..Len(rel) : rel[k] \in MapRow /\ Distinct(rel[k], low)
  BY <1>1 DEF RowsRight
<1>3. q = [k \in 1..Len(rel) |-> E!FirstTo(rel[k], x, y)]
  BY <1>1 DEF E!InRows
<1>4. \A k \in 1..Len(rel) : /\ q[k] \in MapRow /\ q[k].of = rel[k].of /\ Distinct(q[k], low)
                             /\ \A o : Has(q[k], o) => o = y \/ Has(rel[k], o)
                             /\ x >= low => ~ Has(q[k], x)
  <2> TAKE k \in 1..Len(rel)
  <2>1. PICK r : r = E!FirstTo(rel[k], x, y)
    OBVIOUS
  <2>2. q[k] = r
    BY <1>3, <2>1
  <2>3. ~ (y >= low) /\ (x >= low => x # y)
    OBVIOUS
  <2>4. /\ r \in MapRow /\ r.of = rel[k].of /\ Distinct(r, low)
        /\ \A o : Has(r, o) => o = y \/ Has(rel[k], o)
        /\ x >= low => ~ Has(r, x)
    BY <1>2, <2>1, <2>3, FirstToChanges
  <2>5. QED BY <2>2, <2>4
<1>5. q \in Seq(MapRow) /\ Len(q) = Len(rel)
  <2>1. \A k \in 1..Len(rel) : E!FirstTo(rel[k], x, y) \in MapRow
    BY <1>3, <1>4
  <2>2. QED BY <2>1, <1>1, <1>3
<1>6. RowsRight(q, low)
  BY <1>4, <1>5 DEF RowsRight
<1>7. ASSUME NEW o, NEW z, z >= low, NamesIt(q, o, z) PROVE NamesIt(rel, o, z) /\ z # x
  <2>1. PICK k \in 1..Len(rel) : q[k].of = o /\ Has(q[k], z)
    BY <1>5, <1>7 DEF NamesIt
  <2>2. z # y
    BY <1>7
  <2>3. z # x
    BY <2>1, <1>4, <1>7
  <2>4. NamesIt(rel, o, z)
    BY <2>1, <2>2, <1>4 DEF NamesIt
  <2>5. QED BY <2>3, <2>4
<1>8. QED BY <1>6, <1>7

\* An index is taken out of the rows of another one.
InRow(rel, a, x, y) == [k \in DOMAIN rel |-> IF rel[k].of = a THEN E!FirstTo(rel[k], x, y) ELSE rel[k]]

LEMMA InRowChanges ==
  ASSUME NEW rel, NEW low \in Int, RowsRight(rel, low), NEW a, NEW x \in Int, NEW y \in Int, y < low,
         NEW q, q = InRow(rel, a, x, y)
  PROVE  /\ RowsRight(q, low)
         /\ \A o, z : z >= low /\ NamesIt(q, o, z) => NamesIt(rel, o, z) /\ ~ (o = a /\ z = x)
<1>1. rel \in Seq(MapRow) /\ Len(rel) \in Nat /\ DOMAIN rel = 1..Len(rel)
  BY DEF RowsRight
<1>2. \A k \in 1..Len(rel) : rel[k] \in MapRow /\ Distinct(rel[k], low)
  BY <1>1 DEF RowsRight
<1>3. \A k \in 1..Len(rel) : /\ q[k] \in MapRow /\ q[k].of = rel[k].of /\ Distinct(q[k], low)
                             /\ \A o : Has(q[k], o) => o = y \/ Has(rel[k], o)
                             /\ rel[k].of = a /\ x >= low => ~ Has(q[k], x)
  <2> TAKE k \in 1..Len(rel)
  <2>1. CASE rel[k].of = a
    <3>1. PICK r : r = E!FirstTo(rel[k], x, y)
      OBVIOUS
    <3>2. q[k] = r
      BY <1>1, <2>1, <3>1 DEF InRow
    <3>3. ~ (y >= low) /\ (x >= low => x # y)
      OBVIOUS
    <3>4. /\ r \in MapRow /\ r.of = rel[k].of /\ Distinct(r, low)
          /\ \A o : Has(r, o) => o = y \/ Has(rel[k], o)
          /\ x >= low => ~ Has(r, x)
      BY <1>2, <3>1, <3>3, FirstToChanges
    <3>5. QED BY <3>2, <3>4
  <2>2. CASE rel[k].of # a
    <3>1. q[k] = rel[k]
      BY <1>1, <2>2 DEF InRow
    <3>2. QED BY <2>2, <3>1, <1>2
  <2>3. QED BY <2>1, <2>2
<1>4. q \in Seq(MapRow) /\ Len(q) = Len(rel)
  <2>1. PICK f : f = [k \in 1..Len(rel) |-> q[k]]
    OBVIOUS
  <2>2. q = f
    BY <1>1, <2>1 DEF InRow
  <2>3. f \in Seq(MapRow) /\ Len(f) = Len(rel)
    BY <2>1, <1>1, <1>3
  <2>4. QED BY <2>2, <2>3
<1>5. RowsRight(q, low)
  BY <1>3, <1>4 DEF RowsRight
<1>6. ASSUME NEW o, NEW z, z >= low, NamesIt(q, o, z) PROVE NamesIt(rel, o, z) /\ ~ (o = a /\ z = x)
  <2>1. PICK k \in 1..Len(rel) : q[k].of = o /\ Has(q[k], z)
    BY <1>4, <1>6 DEF NamesIt
  <2>2. z # y
    BY <1>6
  <2>3. ~ (o = a /\ z = x)
    BY <2>1, <1>3, <1>6
  <2>4. NamesIt(rel, o, z)
    BY <2>1, <2>2, <1>3 DEF NamesIt
  <2>5. QED BY <2>3, <2>4
<1>7. QED BY <1>5, <1>6

\* The rows of an index are taken out.
LEMMA DropRowChanges ==
  ASSUME NEW rel, NEW low \in Int, RowsRight(rel, low), NEW x, NEW q, q = E!DropRow(rel, x)
  PROVE  RowsRight(q, low) /\ \A o, z : NamesIt(q, o, z) => NamesIt(rel, o, z) /\ o # x
<1> DEFINE S == {row \in E!ToSet(rel) : row.of # x}
<1>1. rel \in Seq(MapRow)
  BY DEF RowsRight
<1>2. q = Sublist(rel, S)
  BY DEF E!DropRow, E!Sublist, Sublist
<1>3. q \in Seq(MapRow) /\ MembersOf(q, rel, S)
  <2> HIDE DEF S
  <2>1. QED BY <1>1, <1>2, SublistMembers
<1>4. \A k \in 1..Len(q) : q[k].of # x /\ \E m \in 1..Len(rel) : q[k] = rel[m]
  BY <1>3 DEF MembersOf
<1>5. RowsRight(q, low)
  BY <1>3, <1>4 DEF RowsRight
<1>6. QED BY <1>4, <1>5 DEF NamesIt

\* A row is added.
LEMMA NewRowChanges ==
  ASSUME NEW rel, NEW low \in Int, RowsRight(rel, low), NEW a \in Nat \ {0}, NEW x \in Int, NEW q, q = E!NewRow(rel, a, x)
  PROVE  RowsRight(q, low) /\ \A o, z : NamesIt(q, o, z) => NamesIt(rel, o, z) \/ (o = a /\ z = x)
<1>1. rel \in Seq(MapRow) /\ Len(rel) \in Nat
  BY DEF RowsRight
<1>2. PICK row : row = [of |-> a, to |-> <<x>>]
  OBVIOUS
<1>3. <<x>> \in Seq(Int) /\ Len(<<x>>) = 1 /\ <<x>>[1] = x
  OBVIOUS
<1>4. row \in MapRow /\ row.of = a /\ row.to = <<x>>
  BY <1>2, <1>3, RowMade
<1>5. Distinct(row, low) /\ \A z : Has(row, z) => z = x
  BY <1>3, <1>4 DEF Distinct, Has
<1>6. q = Append(rel, row)
  BY <1>2 DEF E!NewRow
<1>7. q \in Seq(MapRow) /\ Len(q) = Len(rel) + 1 /\ q[Len(rel) + 1] = row /\ \A k \in 1..Len(rel) : q[k] = rel[k]
  BY <1>1, <1>4, <1>6
<1>8. \A k \in 1..Len(q) : k \in 1..Len(rel) \/ k = Len(rel) + 1
  BY <1>1, <1>7
<1>9. \A k \in 1..Len(q) : Distinct(q[k], low)
  BY <1>5, <1>7, <1>8 DEF RowsRight
<1>10. ASSUME NEW o, NEW z, NamesIt(q, o, z) PROVE NamesIt(rel, o, z) \/ (o = a /\ z = x)
  <2>1. PICK k \in 1..Len(q) : q[k].of = o /\ Has(q[k], z)
    BY <1>10 DEF NamesIt
  <2>2. CASE k \in 1..Len(rel)
    BY <2>1, <2>2, <1>7 DEF NamesIt
  <2>3. CASE k = Len(rel) + 1
    BY <2>1, <2>3, <1>4, <1>5, <1>7
  <2>4. QED BY <2>2, <2>3, <1>8
<1>11. QED BY <1>7, <1>9, <1>10 DEF RowsRight

\* A row is replaced by one that names one index more.
AddedRight(rel, q, low, a, x) ==
  RowsRight(q, low) /\ \A o, z : NamesIt(q, o, z) => NamesIt(rel, o, z) \/ (o = a /\ z = x)
Replaces(q, rel, k, row) == q = [rel EXCEPT ![k] = row]
OneMore(row, old, x) == row.of = old.of /\ \A z : Has(row, z) => z = x \/ Has(old, z)

LEMMA RowReplaced ==
  ASSUME NEW rel, NEW low \in Int, RowsRight(rel, low), NEW k \in 1..Len(rel), NEW row \in MapRow,
         Distinct(row, low), NEW x, OneMore(row, rel[k], x),
         NEW q, Replaces(q, rel, k, row), NEW a, a = rel[k].of
  PROVE  AddedRight(rel, q, low, a, x)
<1>1. rel \in Seq(MapRow)
  BY DEF RowsRight
<1>2. q \in Seq(MapRow) /\ Len(q) = Len(rel) /\ \A j \in 1..Len(rel) : q[j] = IF j = k THEN row ELSE rel[j]
  BY <1>1 DEF Replaces
<1>3. \A j \in 1..Len(q) : Distinct(q[j], low)
  BY <1>2 DEF RowsRight
<1>4. ASSUME NEW o, NEW z, NamesIt(q, o, z) PROVE NamesIt(rel, o, z) \/ (o = a /\ z = x)
  <2>1. PICK j \in 1..Len(rel) : q[j].of = o /\ Has(q[j], z)
    BY <1>2, <1>4 DEF NamesIt
  <2>2. CASE j = k
    BY <2>1, <2>2, <1>2 DEF NamesIt, OneMore
  <2>3. CASE j # k
    BY <2>1, <2>3, <1>2 DEF NamesIt
  <2>4. QED BY <2>2, <2>3
<1>5. QED BY <1>2, <1>3, <1>4 DEF RowsRight, AddedRight

\* addLPMappingTableEntry, addAliasMappingTableEntry and ContainsAdded name the
\* index that was not named, in a new row, a new slot or one that was deleted.
LEMMA SlotAppended ==
  ASSUME NEW rel, NEW low \in Int, RowsRight(rel, low), NEW a, NEW x \in Int, ~ NamesIt(rel, a, x),
         NEW k \in E!RowsOf(rel, a), NEW q, q = E!AppendTo(rel, k, x)
  PROVE  AddedRight(rel, q, low, a, x)
<1>1. rel \in Seq(MapRow)
  BY DEF RowsRight
<1>2. k \in 1..Len(rel) /\ rel[k].of = a /\ rel[k] \in MapRow
  BY <1>1, RelFacts
<1>3. ~ Has(rel[k], x) /\ Distinct(rel[k], low)
  BY <1>2 DEF NamesIt, RowsRight
<1>4. PICK row : row = WithSlot(rel[k], x)
  OBVIOUS
<1>5. row \in MapRow /\ row.of = a /\ Distinct(row, low) /\ \A z : Has(row, z) => z = x \/ Has(rel[k], z)
  BY <1>2, <1>3, <1>4, SlotAdded
<1>6. q = [rel EXCEPT ![k] = row]
  BY <1>4 DEF E!AppendTo, WithSlot
<1>7. Replaces(q, rel, k, row) /\ OneMore(row, rel[k], x)
  BY <1>2, <1>5, <1>6 DEF Replaces, OneMore
<1>8. QED BY <1>2, <1>5, <1>7, RowReplaced

LEMMA LPAddedRight ==
  ASSUME RowsRight(lp, 1), NEW a \in Nat \ {0}, NEW x \in Nat \ {0}, ~ NamesIt(lp, a, x)
  PROVE  AddedRight(lp, E!LPAdded(a, x), 1, a, x)
<1>1. lp \in Seq(MapRow) /\ x \in Int /\ -x \in Int /\ 1 \in Int
  BY DEF RowsRight
<1>2. CASE E!RowsOf(lp, a) = {}
  <2>1. E!LPAdded(a, x) = E!NewRow(lp, a, x)
    BY <1>2 DEF E!LPAdded
  <2>2. QED BY <2>1, <1>1, NewRowChanges DEF AddedRight
<1>3. CASE E!RowsOf(lp, a) # {}
  <2>1. PICK k : k = CHOOSE n \in E!RowsOf(lp, a) : TRUE
    OBVIOUS
  <2>2. k \in E!RowsOf(lp, a)
    BY <1>3, <2>1
  <2>3. k \in 1..Len(lp) /\ lp[k].of = a /\ lp[k] \in MapRow
    BY <2>2, <1>1, RelFacts
  <2>4. ~ Has(lp[k], x) /\ Distinct(lp[k], 1)
    BY <2>3 DEF NamesIt, RowsRight
  <2>5. CASE E!Slots(lp[k], -x) = {}
    <3>1. E!LPAdded(a, x) = E!AppendTo(lp, k, x)
      BY <1>3, <2>1, <2>5 DEF E!LPAdded
    <3>2. QED BY <3>1, <2>2, <1>1, SlotAppended
  <2>6. CASE E!Slots(lp[k], -x) # {}
    <3>1. PICK row : row = E!FirstTo(lp[k], -x, x)
      OBVIOUS
    <3>2. row \in MapRow /\ row.of = a /\ Distinct(row, 1) /\ \A z : Has(row, z) => z = x \/ Has(lp[k], z)
      BY <3>1, <2>3, <2>4, <1>1, FirstToChanges
    <3>3. E!LPAdded(a, x) = [lp EXCEPT ![k] = row]
      BY <1>3, <2>1, <2>6, <3>1 DEF E!LPAdded
    <3>4. Replaces(E!LPAdded(a, x), lp, k, row) /\ OneMore(row, lp[k], x)
      BY <3>2, <3>3, <2>3 DEF Replaces, OneMore
    <3>5. QED BY <3>2, <3>4, <2>3, <1>1, RowReplaced
  <2>7. QED BY <2>5, <2>6
<1>4. QED BY <1>2, <1>3

LEMMA AliasAddedRight ==
  ASSUME RowsRight(alias, 0), NEW a \in Nat \ {0}, NEW x \in Nat, ~ NamesIt(alias, a, x)
  PROVE  AddedRight(alias, E!AliasAdded(a, x), 0, a, x)
<1>1. x \in Int /\ 0 \in Int
  OBVIOUS
<1>2. CASE E!RowsOf(alias, a) = {}
  <2>1. E!AliasAdded(a, x) = E!NewRow(alias, a, x)
    BY <1>2 DEF E!AliasAdded
  <2>2. QED BY <2>1, <1>1, NewRowChanges DEF AddedRight
<1>3. CASE E!RowsOf(alias, a) # {}
  <2>1. PICK k : k = CHOOSE n \in E!RowsOf(alias, a) : TRUE
    OBVIOUS
  <2>2. k \in E!RowsOf(alias, a)
    BY <1>3, <2>1
  <2>3. E!AliasAdded(a, x) = E!AppendTo(alias, k, x)
    BY <1>3, <2>1 DEF E!AliasAdded
  <2>4. QED BY <2>2, <2>3, <1>1, SlotAppended
<1>4. QED BY <1>2, <1>3

LEMMA ContainsAddedRight ==
  ASSUME RowsRight(contains, 1), NEW a \in Nat \ {0}, NEW x \in Nat \ {0}, ~ NamesIt(contains, a, x)
  PROVE  AddedRight(contains, E!ContainsAdded(a, x), 1, a, x)
<1>1. contains \in Seq(MapRow) /\ x \in Int /\ 1 \in Int
  BY DEF RowsRight
<1>2. CASE E!RowsOf(contains, a) = {}
  <2>1. E!ContainsAdded(a, x) = E!NewRow(contains, a, x)
    BY <1>2 DEF E!ContainsAdded
  <2>2. QED BY <2>1, <1>1, NewRowChanges DEF AddedRight
<1>3. CASE E!RowsOf(contains, a) # {}
  <2>1. PICK k : k = CHOOSE n \in E!RowsOf(contains, a) : TRUE
    OBVIOUS
  <2>2. k \in E!RowsOf(contains, a)
    BY <1>3, <2>1
  <2>3. k \in 1..Len(contains) /\ contains[k].of = a /\ contains[k] \in MapRow
    BY <2>2, <1>1, RelFacts
  <2>4. ~ Has(contains[k], x) /\ Distinct(contains[k], 1)
    BY <2>3 DEF NamesIt, RowsRight
  <2>5. CASE E!Slots(contains[k], -1) = {}
    <3>1. E!ContainsAdded(a, x) = E!AppendTo(contains, k, x)
      BY <1>3, <2>1, <2>5 DEF E!ContainsAdded
    <3>2. QED BY <3>1, <2>2, <1>1, SlotAppended
  <2>6. CASE E!Slots(contains[k], -1) # {}
    <3>1. PICK n : n = E!Max(E!Slots(contains[k], -1))
      OBVIOUS
    <3>2. n \in 1..Len(contains[k].to)
      BY <3>1, <2>3, <2>6, SlotsAre
    <3>3. PICK row : row = [contains[k] EXCEPT !.to[n] = x]
      OBVIOUS
    <3>4. row \in MapRow /\ row.of = a /\ Distinct(row, 1) /\ \A z : Has(row, z) => z = x \/ Has(contains[k], z)
      BY <3>2, <3>3, <2>3, <2>4, <1>1, SlotChanged
    <3>5. E!ContainsAdded(a, x) = [contains EXCEPT ![k] = row]
      BY <1>3, <2>1, <2>6, <3>1, <3>3 DEF E!ContainsAdded
    <3>6. Replaces(E!ContainsAdded(a, x), contains, k, row) /\ OneMore(row, contains[k], x)
      BY <3>4, <3>5, <2>3 DEF Replaces, OneMore
    <3>7. QED BY <3>4, <3>6, <2>3, <1>1, RowReplaced
  <2>7. QED BY <2>5, <2>6
<1>4. QED BY <1>2, <1>3

\* The pairs of a table are those its slots name.
LEMMA RelatedNames ==
  ASSUME NEW rel \in Seq(MapRow)
  PROVE  /\ \A r \in E!Related(rel) : NamesIt(rel, r[1], r[2]) /\ r = <<r[1], r[2]>>
         /\ \A o, z : NamesIt(rel, o, z) => <<o, z>> \in E!Related(rel)
         /\ \A z : E!ParentsIn(rel, z) = {o \in Nat \ {0} : NamesIt(rel, o, z)}
<1>1. \A k \in 1..Len(rel) : rel[k] \in MapRow /\ rel[k].of \in Nat \ {0} /\ DOMAIN rel[k].to = 1..Len(rel[k].to)
  <2> TAKE k \in 1..Len(rel)
  <2>1. rel[k] \in MapRow
    OBVIOUS
  <2>2. QED BY <2>1 DEF MapRow
<1>2. \A k \in 1..Len(rel) : E!ToSet(rel[k].to) = {rel[k].to[n] : n \in 1..Len(rel[k].to)}
  BY <1>1 DEF E!ToSet
<1>3. E!ToSet(rel) = {rel[k] : k \in 1..Len(rel)} /\ DOMAIN rel = 1..Len(rel)
  BY DEF E!ToSet
<1>4. \A r : r \in E!Related(rel) <=> \E row \in E!ToSet(rel) : \E y \in E!ToSet(row.to) : r = <<row.of, y>>
  BY DEF E!Related
<1>5. \A k \in 1..Len(rel) : \A y : y \in E!ToSet(rel[k].to) <=> Has(rel[k], y)
  BY <1>2 DEF Has
<1>6. \A r : r \in E!Related(rel) <=> \E k \in 1..Len(rel) : \E y : Has(rel[k], y) /\ r = <<rel[k].of, y>>
  BY <1>3, <1>4, <1>5
<1>7. \A r \in E!Related(rel) : NamesIt(rel, r[1], r[2]) /\ r = <<r[1], r[2]>>
  <2> TAKE r \in E!Related(rel)
  <2>1. PICK k \in 1..Len(rel) : \E y : Has(rel[k], y) /\ r = <<rel[k].of, y>>
    BY <1>6
  <2>2. PICK y : Has(rel[k], y) /\ r = <<rel[k].of, y>>
    BY <2>1
  <2>3. r[1] = rel[k].of /\ r[2] = y
    BY <2>2
  <2>4. QED BY <2>2, <2>3 DEF NamesIt
<1>8. \A o, z : NamesIt(rel, o, z) => <<o, z>> \in E!Related(rel)
  BY <1>6 DEF NamesIt
<1>9. \A z : E!ParentsIn(rel, z) = {o \in Nat \ {0} : NamesIt(rel, o, z)}
  <2> TAKE z
  <2>1. E!ParentsIn(rel, z) = {rel[k].of : k \in {n \in 1..Len(rel) : Has(rel[n], z)}}
    BY <1>3, <1>5 DEF E!ParentsIn
  <2>2. QED BY <2>1, <1>1 DEF NamesIt
<1>10. QED BY <1>7, <1>8, <1>9

\* The lowest parent, and what the children of a parent that goes have for one.
LowestIn(tab, rel) ==
  \A k \in 1..Len(tab) : \A o : tab[k].idx > 0 /\ NamesIt(rel, o, tab[k].idx) => 1 <= tab[k].in /\ tab[k].in <= o
SameIndices(q, tab) == q \in Seq(PhysEntry) /\ Len(q) = Len(tab) /\ \A k \in 1..Len(tab) : q[k].idx = tab[k].idx

LEMMA LowestIs ==
  ASSUME NEW S \in SUBSET (Nat \ {0})
  PROVE  E!Lowest(S) \in Nat /\ \A o \in S : 1 <= E!Lowest(S) /\ E!Lowest(S) <= o
<1>1. CASE S = {}
  BY <1>1 DEF E!Lowest
<1>2. CASE S # {}
  <2>1. \E m \in S : \A k \in S : m <= k
    BY <1>2, LeastNumber
  <2>2. PICK n : n = E!Min(S)
    OBVIOUS
  <2>3. n \in S /\ \A k \in S : n <= k
    BY <2>1, <2>2 DEF E!Min
  <2>4. E!Lowest(S) = n
    BY <1>2, <2>2 DEF E!Lowest
  <2>5. QED BY <2>3, <2>4
<1>3. QED BY <1>1, <1>2

LEMMA EntryMoves ==
  ASSUME NEW e \in PhysEntry, NEW p \in Nat
  PROVE  [e EXCEPT !.in = p] \in PhysEntry /\ [e EXCEPT !.in = p].idx = e.idx /\ [e EXCEPT !.in = p].in = p
BY DEF PhysEntry

LEMMA ParentGone ==
  ASSUME NEW tab \in Seq(PhysEntry), RowsRight(contains, 1), LowestIn(tab, contains), NEW p,
         NEW left, left = E!DropRow(contains, p), NEW q, q = E!WithoutParent(tab, p)
  PROVE  SameIndices(q, tab) /\ LowestIn(q, left)
<1>1. RowsRight(left, 1) /\ \A o, z : NamesIt(left, o, z) => NamesIt(contains, o, z) /\ o # p
  BY DropRowChanges
<1>2. left \in Seq(MapRow) /\ Len(tab) \in Nat /\ DOMAIN tab = 1..Len(tab) /\ \A k \in 1..Len(tab) : tab[k] \in PhysEntry
  BY <1>1 DEF RowsRight
<1>3. \A z : /\ E!Lowest(E!ParentsIn(left, z)) \in Nat
             /\ \A o : NamesIt(left, o, z) => 1 <= E!Lowest(E!ParentsIn(left, z)) /\ E!Lowest(E!ParentsIn(left, z)) <= o
  <2> SUFFICES ASSUME NEW z
               PROVE  /\ E!Lowest(E!ParentsIn(left, z)) \in Nat
                      /\ \A o : NamesIt(left, o, z) => 1 <= E!Lowest(E!ParentsIn(left, z)) /\ E!Lowest(E!ParentsIn(left, z)) <= o
    OBVIOUS
  <2>1. PICK S : S = E!ParentsIn(left, z)
    OBVIOUS
  <2>2. S = {o \in Nat \ {0} : NamesIt(left, o, z)}
    BY <1>2, <2>1, RelatedNames
  <2>3. \A o : NamesIt(left, o, z) => o \in S
    <3>1. \A o : NamesIt(left, o, z) => o \in Nat \ {0}
      BY <1>2, RelFacts DEF NamesIt
    <3>2. QED BY <2>2, <3>1
  <2>4. E!Lowest(S) \in Nat /\ \A o \in S : 1 <= E!Lowest(S) /\ E!Lowest(S) <= o
    BY <2>2, LowestIs
  <2>5. QED BY <2>1, <2>3, <2>4
<1>4. q = [k \in 1..Len(tab) |-> IF tab[k].in = p /\ tab[k].idx \in E!ContainsChildren(p)
                                 THEN [tab[k] EXCEPT !.in = E!Lowest(E!ParentsIn(left, tab[k].idx))] ELSE tab[k]]
  BY <1>2 DEF E!WithoutParent
<1>5. \A k \in 1..Len(tab) : /\ q[k] \in PhysEntry /\ q[k].idx = tab[k].idx
                             /\ q[k] = tab[k] \/ q[k].in = E!Lowest(E!ParentsIn(left, tab[k].idx))
  <2> TAKE k \in 1..Len(tab)
  <2>1. CASE tab[k].in = p /\ tab[k].idx \in E!ContainsChildren(p)
    <3>1. q[k] = [tab[k] EXCEPT !.in = E!Lowest(E!ParentsIn(left, tab[k].idx))]
      BY <1>4, <2>1
    <3>2. E!Lowest(E!ParentsIn(left, tab[k].idx)) \in Nat
      BY <1>3
    <3>3. QED BY <3>1, <3>2, <1>2, EntryMoves
  <2>2. CASE ~ (tab[k].in = p /\ tab[k].idx \in E!ContainsChildren(p))
    BY <2>2, <1>2, <1>4
  <2>3. QED BY <2>1, <2>2
<1>6. SameIndices(q, tab)
  <2>1. PICK f : f = [k \in 1..Len(tab) |-> q[k]]
    OBVIOUS
  <2>2. q = f
    BY <1>4, <2>1
  <2>3. f \in Seq(PhysEntry) /\ Len(f) = Len(tab)
    BY <2>1, <1>2, <1>5
  <2>4. QED BY <2>2, <2>3, <1>5 DEF SameIndices
<1>7. LowestIn(q, left)
  <2> SUFFICES ASSUME NEW k \in 1..Len(tab), NEW o, q[k].idx > 0, NamesIt(left, o, q[k].idx)
               PROVE  1 <= q[k].in /\ q[k].in <= o
    BY <1>6 DEF LowestIn, SameIndices
  <2>1. NamesIt(contains, o, tab[k].idx) /\ q[k].idx = tab[k].idx
    BY <1>1, <1>5
  <2>2. CASE q[k] = tab[k]
    BY <2>1, <2>2 DEF LowestIn
  <2>3. CASE q[k].in = E!Lowest(E!ParentsIn(left, tab[k].idx))
    BY <2>1, <2>3, <1>3
  <2>4. QED BY <2>2, <2>3, <1>5
<1>8. QED BY <1>6, <1>7

LEMMA ChildLeaves ==
  ASSUME NEW tab \in Seq(PhysEntry), NEW rel, RowsRight(rel, 1), LowestIn(tab, rel), NEW c, NEW ps,
         NEW q, q = E!WithoutChild(tab, rel, c, ps),
         NEW left, \A o, z : z >= 1 /\ NamesIt(left, o, z) => NamesIt(rel, o, z) /\ ~ (z = c /\ o \in ps)
  PROVE  SameIndices(q, tab) /\ LowestIn(q, left)
<1>1. rel \in Seq(MapRow) /\ Len(tab) \in Nat /\ DOMAIN tab = 1..Len(tab) /\ \A k \in 1..Len(tab) : tab[k] \in PhysEntry
  BY DEF RowsRight
<1>2. PICK S : S = E!ParentsIn(rel, c) \ ps
  OBVIOUS
<1>3. S \subseteq Nat \ {0} /\ \A o : NamesIt(rel, o, c) /\ o \notin ps => o \in S
  <2>1. E!ParentsIn(rel, c) = {o \in Nat \ {0} : NamesIt(rel, o, c)}
    BY <1>1, RelatedNames
  <2>2. \A o : NamesIt(rel, o, c) => o \in Nat \ {0}
    BY <1>1, RelFacts DEF NamesIt
  <2>3. QED BY <1>2, <2>1, <2>2
<1>4. E!Lowest(S) \in Nat /\ \A o \in S : 1 <= E!Lowest(S) /\ E!Lowest(S) <= o
  BY <1>3, LowestIs
<1>5. q = [k \in 1..Len(tab) |-> IF tab[k].idx = c /\ tab[k].in \in E!ParentsIn(rel, c) \cap ps
                                 THEN [tab[k] EXCEPT !.in = E!Lowest(S)] ELSE tab[k]]
  BY <1>1, <1>2 DEF E!WithoutChild
<1>6. \A k \in 1..Len(tab) : /\ q[k] \in PhysEntry /\ q[k].idx = tab[k].idx
                             /\ q[k] = tab[k] \/ (q[k].in = E!Lowest(S) /\ tab[k].idx = c)
  <2> TAKE k \in 1..Len(tab)
  <2>1. CASE tab[k].idx = c /\ tab[k].in \in E!ParentsIn(rel, c) \cap ps
    <3>1. q[k] = [tab[k] EXCEPT !.in = E!Lowest(S)]
      BY <1>5, <2>1
    <3>2. QED BY <2>1, <3>1, <1>1, <1>4, EntryMoves
  <2>2. CASE ~ (tab[k].idx = c /\ tab[k].in \in E!ParentsIn(rel, c) \cap ps)
    BY <2>2, <1>1, <1>5
  <2>3. QED BY <2>1, <2>2
<1>7. SameIndices(q, tab)
  <2>1. PICK f : f = [k \in 1..Len(tab) |-> q[k]]
    OBVIOUS
  <2>2. q = f
    BY <1>5, <2>1
  <2>3. f \in Seq(PhysEntry) /\ Len(f) = Len(tab)
    BY <2>1, <1>1, <1>6
  <2>4. QED BY <2>2, <2>3, <1>6 DEF SameIndices
<1>8. LowestIn(q, left)
  <2> SUFFICES ASSUME NEW k \in 1..Len(tab), NEW o, q[k].idx > 0, NamesIt(left, o, q[k].idx)
               PROVE  1 <= q[k].in /\ q[k].in <= o
    BY <1>7 DEF LowestIn, SameIndices
  <2>1. q[k].idx = tab[k].idx /\ tab[k].idx >= 1
    <3>1. tab[k].idx \in Int
      BY <1>1 DEF PhysEntry
    <3>2. QED BY <3>1, <1>6
  <2>2. NamesIt(rel, o, tab[k].idx) /\ ~ (tab[k].idx = c /\ o \in ps)
    BY <2>1
  <2>3. CASE q[k] = tab[k]
    BY <2>1, <2>2, <2>3 DEF LowestIn
  <2>4. CASE q[k].in = E!Lowest(S) /\ tab[k].idx = c
    BY <2>2, <2>4, <1>3, <1>4
  <2>5. QED BY <2>3, <2>4, <1>6
<1>9. QED BY <1>7, <1>8

-----------------------------------------------------------------------------
(* EntityMib: the calls.                                                      *)

Agrees(rel, low, A, B) == \A o, y : y >= low /\ NamesIt(rel, o, y) => o \in A /\ y \in B

EntInv ==
  /\ TabRight(PhysEntry, phys, physTail) /\ TabRight(LogEntry, logical, logicalTail)
  /\ RowsRight(lp, 1) /\ Agrees(lp, 1, Pos(logical), Pos(phys))
  /\ RowsRight(alias, 0) /\ Agrees(alias, 0, Pos(phys), Pos(logical) \cup {0})
  /\ RowsRight(contains, 1) /\ Agrees(contains, 1, Pos(phys), Pos(phys))
  /\ LowestIn(phys, contains)

LEMMA WantedNumbers == Wanted \subseteq Nat
BY HostAssumption DEF E!EntityAssumption

LEMMA LiveIs ==
  ASSUME NEW X, Entries(X), NEW tab, NEW tail, TabRight(X, tab, tail), NEW x \in Nat
  PROVE  (E!Live(tab, x) <=> x \in Pos(tab)) /\ (E!Live(tab, x) => x > 0) /\ ~ (E!Live(tab, x) /\ E!Stale(tab, x))
<1>1. tab \in Seq(X) /\ InOrder(tab)
  BY DEF TabRight
<1>2. (E!Live(tab, x) <=> x \in Pos(tab)) /\ (E!Live(tab, x) => x > 0)
  BY <1>1, TabFacts
<1>3. ASSUME E!Live(tab, x), E!Stale(tab, x) PROVE FALSE
  <2>1. E!Used(tab, x)
    BY <1>3 DEF E!Used
  <2>2. PICK n : n = E!At(tab, x)
    OBVIOUS
  <2>3. tab[n].idx = x /\ tab[n].idx = -x /\ x > 0
    BY <1>1, <1>3, <2>1, <2>2, EntryAt
  <2>4. QED BY <2>3
<1>4. QED BY <1>2, <1>3

LEMMA LiveNow ==
  ASSUME EntInv, NEW x \in Nat
  PROVE  /\ (E!Live(phys, x) <=> x \in Pos(phys)) /\ (E!Live(phys, x) => x > 0) /\ ~ (E!Live(phys, x) /\ E!Stale(phys, x))
         /\ (E!Live(logical, x) <=> x \in Pos(logical)) /\ (E!Live(logical, x) => x > 0)
BY EntryKinds, LiveIs DEF EntInv

LEMMA EntStays ==
  EntInv /\ UNCHANGED <<phys, physTail, logical, logicalTail, lp, alias, contains>> => EntInv'
BY DEF EntInv, TabRight, InOrder, TailIs, Idx, Pos, RowsRight, Agrees, LowestIn, NamesIt, Has, Distinct

\* An entry is added.
LEMMA PhysicalAdded ==
  ASSUME EntInv, NEW want \in Wanted, NEW in \in Wanted, NEW port \in BOOLEAN, E!allocPhysicalEntry(want, in, port)
  PROVE  EntInv'
<1>1. E!AddToPhysicalTable(want, in, port)
  BY DEF E!allocPhysicalEntry
<1>2. CASE E!AddBreaks(phys, physTail, want)
  <2>1. UNCHANGED <<phys, physTail, logical, logicalTail, lp, alias, contains>>
    BY <1>1, <1>2 DEF E!AddToPhysicalTable, E!Breaks, E!tables
  <2>2. QED BY <2>1, EntStays
<1>3. CASE ~ E!AddBreaks(phys, physTail, want)
  <2>1. PICK x : x = E!NewIndex(phys, physTail, want)
    OBVIOUS
  <2>2. PICK e : e = [idx |-> x, in |-> in, port |-> port]
    OBVIOUS
  <2>3. phys' = E!Insert(phys, e) /\ physTail' = E!TailAfter(phys, physTail, x) /\ UNCHANGED <<logical, logicalTail, lp, alias, contains>>
    BY <1>1, <1>3, <2>1, <2>2 DEF E!AddToPhysicalTable
  <2>4. TabRight(PhysEntry, phys, physTail) /\ want \in Nat /\ in \in Nat
    BY WantedNumbers DEF EntInv
  <2>5. x \in Nat \ {0} /\ ~ E!Used(phys, x)
    BY <1>3, <2>1, <2>4, EntryKinds, NewIndexIsFree
  <2>6. e \in PhysEntry /\ e.idx = x /\ x > 0
    BY <2>2, <2>4, <2>5 DEF PhysEntry
  <2>7. PICK q, t : q = phys' /\ t = physTail'
    OBVIOUS
  <2>8. /\ TabRight(PhysEntry, q, t) /\ Pos(q) = Pos(phys) \cup {x}
        /\ \A k \in 1..Len(q) : q[k] = e \/ \E m \in 1..Len(phys) : q[k] = phys[m]
    <3>1. q = E!Insert(phys, e)
      BY <2>3, <2>7
    <3>2. /\ TabRight(PhysEntry, q, E!TailAfter(phys, physTail, x)) /\ Pos(q) = Pos(phys) \cup {x}
          /\ \A k \in 1..Len(q) : q[k] = e \/ \E m \in 1..Len(phys) : q[k] = phys[m]
      BY <3>1, <2>4, <2>5, <2>6, EntryKinds, Inserted
    <3>3. QED BY <3>2, <2>3, <2>7
  <2>9. x \notin Pos(phys)
    BY <2>5, LiveNow DEF E!Used
  <2>10. LowestIn(q, contains)
    <3> SUFFICES ASSUME NEW k \in 1..Len(q), NEW o, q[k].idx > 0, NamesIt(contains, o, q[k].idx)
                 PROVE  1 <= q[k].in /\ q[k].in <= o
      BY DEF LowestIn
    <3>1. CASE q[k] = e
      <4>1. x >= 1
        BY <2>5
      <4>2. NamesIt(contains, o, x)
        BY <3>1, <2>6
      <4>3. x \in Pos(phys)
        BY <4>1, <4>2 DEF EntInv, Agrees
      <4>4. QED BY <4>3, <2>9
    <3>2. CASE \E m \in 1..Len(phys) : q[k] = phys[m]
      BY <3>2 DEF EntInv, LowestIn
    <3>3. QED BY <3>1, <3>2, <2>8
  <2>11. Agrees(lp, 1, Pos(logical), Pos(q)) /\ Agrees(alias, 0, Pos(q), Pos(logical) \cup {0}) /\ Agrees(contains, 1, Pos(q), Pos(q))
    <3>1. Pos(phys) \subseteq Pos(q)
      BY <2>8
    <3>2. QED BY <3>1 DEF EntInv, Agrees
  <2>12. QED BY <2>3, <2>7, <2>8, <2>10, <2>11 DEF EntInv
<1>4. QED BY <1>2, <1>3

LEMMA LogicalAdded ==
  ASSUME EntInv, NEW want \in Wanted, E!allocLogicalEntry(want)
  PROVE  EntInv'
<1>1. E!AddToLogicalTable(want)
  BY DEF E!allocLogicalEntry
<1>2. CASE E!AddBreaks(logical, logicalTail, want)
  <2>1. UNCHANGED <<phys, physTail, logical, logicalTail, lp, alias, contains>>
    BY <1>1, <1>2 DEF E!AddToLogicalTable, E!Breaks, E!tables
  <2>2. QED BY <2>1, EntStays
<1>3. CASE ~ E!AddBreaks(logical, logicalTail, want)
  <2>1. PICK x : x = E!NewIndex(logical, logicalTail, want)
    OBVIOUS
  <2>2. PICK e : e = [idx |-> x]
    OBVIOUS
  <2>3. logical' = E!Insert(logical, e) /\ logicalTail' = E!TailAfter(logical, logicalTail, x) /\ UNCHANGED <<phys, physTail, lp, alias, contains>>
    BY <1>1, <1>3, <2>1, <2>2 DEF E!AddToLogicalTable
  <2>4. TabRight(LogEntry, logical, logicalTail) /\ want \in Nat
    BY WantedNumbers DEF EntInv
  <2>5. x \in Nat \ {0} /\ ~ E!Used(logical, x)
    BY <1>3, <2>1, <2>4, EntryKinds, NewIndexIsFree
  <2>6. e \in LogEntry /\ e.idx = x /\ x > 0
    BY <2>2, <2>5 DEF LogEntry
  <2>7. PICK q, t : q = logical' /\ t = logicalTail'
    OBVIOUS
  <2>8. TabRight(LogEntry, q, t) /\ Pos(q) = Pos(logical) \cup {x}
    <3>1. q = E!Insert(logical, e)
      BY <2>3, <2>7
    <3>2. TabRight(LogEntry, q, E!TailAfter(logical, logicalTail, x)) /\ Pos(q) = Pos(logical) \cup {x}
      BY <3>1, <2>4, <2>5, <2>6, EntryKinds, Inserted
    <3>3. QED BY <3>2, <2>3, <2>7
  <2>9. Agrees(lp, 1, Pos(q), Pos(phys)) /\ Agrees(alias, 0, Pos(phys), Pos(q) \cup {0})
    <3>1. Pos(logical) \subseteq Pos(q)
      BY <2>8
    <3>2. QED BY <3>1 DEF EntInv, Agrees
  <2>10. QED BY <2>3, <2>7, <2>8, <2>9 DEF EntInv
<1>4. QED BY <1>2, <1>3

\* A physical entry is forgotten by the other tables, and its children move.
LEMMA EntryForgotten ==
  ASSUME EntInv, NEW p \in Nat, E!Live(phys, p), E!PhysicalForgotten(p), NEW q, q = E!OrphansMoved(p)
  PROVE  /\ SameIndices(q, phys) /\ LowestIn(q, contains')
         /\ RowsRight(lp', 1) /\ Agrees(lp', 1, Pos(logical), Pos(phys) \ {p})
         /\ RowsRight(alias', 0) /\ Agrees(alias', 0, Pos(phys) \ {p}, Pos(logical) \cup {0})
         /\ RowsRight(contains', 1) /\ Agrees(contains', 1, Pos(phys) \ {p}, Pos(phys) \ {p})
<1>1. p > 0 /\ -p \in Int /\ -p < 1
  BY LiveNow
<1>2. RowsRight(alias', 0) /\ Agrees(alias', 0, Pos(phys) \ {p}, Pos(logical) \cup {0})
  <2>1. PICK r : r = alias'
    OBVIOUS
  <2>2. r = E!DropRow(alias, p) /\ RowsRight(alias, 0)
    BY <2>1 DEF E!PhysicalForgotten, EntInv
  <2>3. RowsRight(r, 0) /\ \A o, z : NamesIt(r, o, z) => NamesIt(alias, o, z) /\ o # p
    BY <2>2, DropRowChanges
  <2>4. Agrees(r, 0, Pos(phys) \ {p}, Pos(logical) \cup {0})
    BY <2>3 DEF EntInv, Agrees
  <2>5. QED BY <2>1, <2>3, <2>4
<1>3. RowsRight(lp', 1) /\ Agrees(lp', 1, Pos(logical), Pos(phys) \ {p})
  <2>1. PICK r : r = lp'
    OBVIOUS
  <2>2. r = E!InRows(lp, p, -p) /\ RowsRight(lp, 1)
    BY <2>1 DEF E!PhysicalForgotten, E!LPWithoutPhysical, EntInv
  <2>3. RowsRight(r, 1) /\ \A o, z : z >= 1 /\ NamesIt(r, o, z) => NamesIt(lp, o, z) /\ z # p
    BY <1>1, <2>2, InRowsChanges
  <2>4. Agrees(r, 1, Pos(logical), Pos(phys) \ {p})
    BY <2>3 DEF EntInv, Agrees
  <2>5. QED BY <2>1, <2>3, <2>4
<1>4. PICK left : left = E!DropRow(contains, p)
  OBVIOUS
<1>5. RowsRight(left, 1) /\ \A o, z : NamesIt(left, o, z) => NamesIt(contains, o, z) /\ o # p
  BY <1>4, DropRowChanges DEF EntInv
<1>6. PICK rel : rel = contains'
  OBVIOUS
<1>7. rel = E!InRows(left, p, -1)
  BY <1>4, <1>6 DEF E!PhysicalForgotten
<1>8. RowsRight(rel, 1) /\ \A o, z : z >= 1 /\ NamesIt(rel, o, z) => NamesIt(left, o, z) /\ z # p
  BY <1>5, <1>7, InRowsChanges
<1>9. Agrees(rel, 1, Pos(phys) \ {p}, Pos(phys) \ {p})
  BY <1>5, <1>8 DEF EntInv, Agrees
<1>10. PICK tab : tab = E!WithoutParent(phys, p)
  OBVIOUS
<1>11. phys \in Seq(PhysEntry) /\ LowestIn(phys, contains) /\ RowsRight(contains, 1)
  BY DEF EntInv, TabRight
<1>12. SameIndices(tab, phys) /\ LowestIn(tab, left)
  BY <1>4, <1>10, <1>11, ParentGone
<1>13. tab \in Seq(PhysEntry)
  BY <1>12 DEF SameIndices
<1>14. q = E!WithoutChild(tab, left, p, E!ParentsIn(left, p))
  BY <1>4, <1>10 DEF E!OrphansMoved
<1>15. \A o, z : z >= 1 /\ NamesIt(rel, o, z) => NamesIt(left, o, z) /\ ~ (z = p /\ o \in E!ParentsIn(left, p))
  BY <1>8
<1>16. SameIndices(q, tab) /\ LowestIn(q, rel)
  BY <1>5, <1>12, <1>13, <1>14, <1>15, ChildLeaves
<1>17. SameIndices(q, phys)
  BY <1>12, <1>16 DEF SameIndices
<1>18. QED BY <1>2, <1>3, <1>6, <1>8, <1>9, <1>16, <1>17

LEMMA PhysicalDeleted ==
  ASSUME EntInv, NEW p \in Nat, E!deletePhysicalTableEntry(p)
  PROVE  EntInv'
<1>1. /\ E!Live(phys, p) /\ E!PhysicalForgotten(p) /\ phys' = E!Unlink(E!OrphansMoved(p), p)
      /\ physTail' = E!TailUnlinked(physTail, p) /\ UNCHANGED <<logical, logicalTail>>
  BY DEF E!deletePhysicalTableEntry
<1>2. PICK q : q = E!OrphansMoved(p)
  OBVIOUS
<1>3. /\ SameIndices(q, phys) /\ LowestIn(q, contains')
      /\ RowsRight(lp', 1) /\ Agrees(lp', 1, Pos(logical), Pos(phys) \ {p})
      /\ RowsRight(alias', 0) /\ Agrees(alias', 0, Pos(phys) \ {p}, Pos(logical) \cup {0})
      /\ RowsRight(contains', 1) /\ Agrees(contains', 1, Pos(phys) \ {p}, Pos(phys) \ {p})
  BY <1>1, <1>2, EntryForgotten
<1>4. TabRight(PhysEntry, q, physTail) /\ Pos(q) = Pos(phys) /\ E!Live(q, p)
  <2>1. TabRight(PhysEntry, phys, physTail)
    BY DEF EntInv
  <2>2. QED BY <1>1, <1>3, <2>1, Moved DEF SameIndices
<1>5. PICK r, t : r = phys' /\ t = physTail'
  OBVIOUS
<1>6. r = E!Unlink(q, p)
  BY <1>1, <1>2, <1>5
<1>7. /\ TabRight(PhysEntry, r, E!TailUnlinked(physTail, p)) /\ Pos(r) = Pos(q) \ {p}
      /\ \A k \in 1..Len(r) : \E m \in 1..Len(q) : r[k] = q[m]
  BY <1>4, <1>6, EntryKinds, Unlinked
<1>8. LowestIn(r, contains')
  BY <1>3, <1>7 DEF LowestIn
<1>9. TabRight(PhysEntry, r, t)
  BY <1>1, <1>5, <1>7
<1>10. QED BY <1>1, <1>3, <1>4, <1>5, <1>7, <1>8, <1>9 DEF EntInv

LEMMA PhysicalHidden ==
  ASSUME EntInv, NEW p \in Nat, E!makePhysicalTableEntryStale(p)
  PROVE  EntInv'
<1>1. /\ E!Live(phys, p) /\ E!PhysicalForgotten(p) /\ phys' = E!WithIndex(E!OrphansMoved(p), p, -p)
      /\ UNCHANGED <<physTail, logical, logicalTail>>
  BY DEF E!makePhysicalTableEntryStale
<1>2. PICK q : q = E!OrphansMoved(p)
  OBVIOUS
<1>3. /\ SameIndices(q, phys) /\ LowestIn(q, contains')
      /\ RowsRight(lp', 1) /\ Agrees(lp', 1, Pos(logical), Pos(phys) \ {p})
      /\ RowsRight(alias', 0) /\ Agrees(alias', 0, Pos(phys) \ {p}, Pos(logical) \cup {0})
      /\ RowsRight(contains', 1) /\ Agrees(contains', 1, Pos(phys) \ {p}, Pos(phys) \ {p})
  BY <1>1, <1>2, EntryForgotten
<1>4. TabRight(PhysEntry, q, physTail) /\ Pos(q) = Pos(phys) /\ E!Used(q, p)
  <2>1. TabRight(PhysEntry, phys, physTail)
    BY DEF EntInv
  <2>2. TabRight(PhysEntry, q, physTail) /\ Pos(q) = Pos(phys) /\ E!Live(q, p)
    BY <1>1, <1>3, <2>1, Moved DEF SameIndices
  <2>3. QED BY <2>2 DEF E!Used
<1>5. PICK r : r = phys'
  OBVIOUS
<1>6. r = E!WithIndex(q, p, -p) /\ p > 0 /\ ~ (-p > 0)
  BY <1>1, <1>2, <1>5, LiveNow
<1>7. /\ TabRight(PhysEntry, r, physTail) /\ Pos(r) = Pos(q) \ {p} /\ Len(r) = Len(q)
      /\ \A k \in 1..Len(q) : r[k] = IF k = E!At(q, p) THEN [q[k] EXCEPT !.idx = -p] ELSE q[k]
  BY <1>4, <1>6, EntryKinds, Reindexed
<1>8. LowestIn(r, contains')
  <2> SUFFICES ASSUME NEW k \in 1..Len(q), NEW o, r[k].idx > 0, NamesIt(contains', o, r[k].idx)
               PROVE  1 <= r[k].in /\ r[k].in <= o
    BY <1>7 DEF LowestIn
  <2>1. q[k] \in PhysEntry
    BY <1>3 DEF SameIndices
  <2>2. [q[k] EXCEPT !.idx = -p].idx = -p
    BY <2>1 DEF PhysEntry
  <2>3. r[k] = q[k]
    BY <1>6, <1>7, <2>2
  <2>4. QED BY <2>3, <1>3 DEF LowestIn
<1>9. QED BY <1>1, <1>3, <1>4, <1>5, <1>7, <1>8 DEF EntInv

LEMMA PhysicalShown ==
  ASSUME EntInv, NEW p \in Nat, E!makePhysicalTableEntryLive(p)
  PROVE  EntInv'
<1>1. E!Stale(phys, p) /\ phys' = E!WithIndex(phys, p, p) /\ UNCHANGED <<physTail, logical, logicalTail, lp, alias, contains>>
  BY DEF E!makePhysicalTableEntryLive
<1>2. TabRight(PhysEntry, phys, physTail) /\ E!Used(phys, p) /\ p > 0
  BY <1>1 DEF EntInv, E!Used, E!Stale
<1>3. p \notin Pos(phys)
  BY <1>1, LiveNow
<1>4. PICK r : r = phys'
  OBVIOUS
<1>5. r = E!WithIndex(phys, p, p)
  BY <1>1, <1>4
<1>6. /\ TabRight(PhysEntry, r, physTail) /\ Pos(r) = Pos(phys) \cup {p} /\ Len(r) = Len(phys)
      /\ \A k \in 1..Len(phys) : r[k] = IF k = E!At(phys, p) THEN [phys[k] EXCEPT !.idx = p] ELSE phys[k]
  BY <1>2, <1>5, EntryKinds, Reindexed
<1>7. LowestIn(r, contains)
  <2> SUFFICES ASSUME NEW k \in 1..Len(phys), NEW o, r[k].idx > 0, NamesIt(contains, o, r[k].idx)
               PROVE  1 <= r[k].in /\ r[k].in <= o
    BY <1>6 DEF LowestIn
  <2>1. phys[k] \in PhysEntry /\ r[k] \in PhysEntry
    BY <1>2, <1>6 DEF TabRight
  <2>2. [phys[k] EXCEPT !.idx = p].idx = p
    BY <2>1 DEF PhysEntry
  <2>3. r[k].idx >= 1
    BY <2>1 DEF PhysEntry
  <2>4. r[k].idx \in Pos(phys)
    BY <2>3 DEF EntInv, Agrees
  <2>5. r[k] = phys[k]
    BY <1>3, <1>6, <2>2, <2>4
  <2>6. QED BY <2>5 DEF EntInv, LowestIn
<1>8. Agrees(lp, 1, Pos(logical), Pos(r)) /\ Agrees(alias, 0, Pos(r), Pos(logical) \cup {0}) /\ Agrees(contains, 1, Pos(r), Pos(r))
  <2>1. Pos(phys) \subseteq Pos(r)
    BY <1>6
  <2>2. QED BY <2>1 DEF EntInv, Agrees
<1>9. QED BY <1>1, <1>4, <1>6, <1>7, <1>8 DEF EntInv

\* A logical entry is deleted, hidden or shown.
LEMMA LogicalForgets ==
  ASSUME EntInv, NEW x \in Nat, E!LogicalForgotten(x), E!Live(logical, x)
  PROVE  /\ RowsRight(lp', 1) /\ Agrees(lp', 1, Pos(logical) \ {x}, Pos(phys))
         /\ RowsRight(alias', 0) /\ Agrees(alias', 0, Pos(phys), (Pos(logical) \ {x}) \cup {0})
<1>1. RowsRight(lp', 1) /\ Agrees(lp', 1, Pos(logical) \ {x}, Pos(phys))
  <2>1. PICK r : r = lp'
    OBVIOUS
  <2>2. r = E!DropRow(lp, x) /\ RowsRight(lp, 1)
    BY <2>1 DEF E!LogicalForgotten, EntInv
  <2>3. RowsRight(r, 1) /\ \A o, z : NamesIt(r, o, z) => NamesIt(lp, o, z) /\ o # x
    BY <2>2, DropRowChanges
  <2>4. Agrees(r, 1, Pos(logical) \ {x}, Pos(phys))
    BY <2>3 DEF EntInv, Agrees
  <2>5. QED BY <2>1, <2>3, <2>4
<1>2. RowsRight(alias', 0) /\ Agrees(alias', 0, Pos(phys), (Pos(logical) \ {x}) \cup {0})
  <2>1. PICK r : r = alias'
    OBVIOUS
  <2>2. r = E!InRows(alias, x, -1) /\ RowsRight(alias, 0)
    BY <2>1 DEF E!LogicalForgotten, E!AliasWithoutLogical, EntInv
  <2>3. RowsRight(r, 0) /\ \A o, z : z >= 0 /\ NamesIt(r, o, z) => NamesIt(alias, o, z) /\ z # x
    BY <2>2, InRowsChanges
  <2>4. Agrees(r, 0, Pos(phys), (Pos(logical) \ {x}) \cup {0})
    BY <2>3 DEF EntInv, Agrees
  <2>5. QED BY <2>1, <2>3, <2>4
<1>3. QED BY <1>1, <1>2

LEMMA LogicalDeleted ==
  ASSUME EntInv, NEW x \in Nat, E!deleteLogicalTableEntry(x)
  PROVE  EntInv'
<1>1. /\ E!Live(logical, x) /\ E!LogicalForgotten(x) /\ logical' = E!Unlink(logical, x)
      /\ logicalTail' = E!TailUnlinked(logicalTail, x) /\ UNCHANGED <<phys, physTail, contains>>
  BY DEF E!deleteLogicalTableEntry
<1>2. TabRight(LogEntry, logical, logicalTail)
  BY DEF EntInv
<1>3. PICK r, t : r = logical' /\ t = logicalTail'
  OBVIOUS
<1>4. r = E!Unlink(logical, x)
  BY <1>1, <1>3
<1>5. TabRight(LogEntry, r, E!TailUnlinked(logicalTail, x)) /\ Pos(r) = Pos(logical) \ {x}
  BY <1>1, <1>2, <1>4, EntryKinds, Unlinked
<1>6. TabRight(LogEntry, r, t)
  BY <1>1, <1>3, <1>5
<1>7. /\ RowsRight(lp', 1) /\ Agrees(lp', 1, Pos(r), Pos(phys))
      /\ RowsRight(alias', 0) /\ Agrees(alias', 0, Pos(phys), Pos(r) \cup {0})
  BY <1>1, <1>5, LogicalForgets
<1>8. QED BY <1>1, <1>3, <1>6, <1>7 DEF EntInv

LEMMA LogicalHidden ==
  ASSUME EntInv, NEW x \in Nat, E!makeLogicalTableEntryStale(x)
  PROVE  EntInv'
<1>1. /\ E!Live(logical, x) /\ E!LogicalForgotten(x) /\ logical' = E!WithIndex(logical, x, -x)
      /\ UNCHANGED <<logicalTail, phys, physTail, contains>>
  BY DEF E!makeLogicalTableEntryStale
<1>2. TabRight(LogEntry, logical, logicalTail) /\ E!Used(logical, x) /\ ~ (-x > 0)
  BY <1>1, LiveNow DEF EntInv, E!Used
<1>3. PICK r : r = logical'
  OBVIOUS
<1>4. r = E!WithIndex(logical, x, -x)
  BY <1>1, <1>3
<1>5. TabRight(LogEntry, r, logicalTail) /\ Pos(r) = Pos(logical) \ {x}
  BY <1>2, <1>4, EntryKinds, Reindexed
<1>6. /\ RowsRight(lp', 1) /\ Agrees(lp', 1, Pos(r), Pos(phys))
      /\ RowsRight(alias', 0) /\ Agrees(alias', 0, Pos(phys), Pos(r) \cup {0})
  BY <1>1, <1>5, LogicalForgets
<1>7. QED BY <1>1, <1>3, <1>5, <1>6 DEF EntInv

LEMMA LogicalShown ==
  ASSUME EntInv, NEW x \in Nat, E!makeLogicalTableEntryLive(x)
  PROVE  EntInv'
<1>1. E!Stale(logical, x) /\ logical' = E!WithIndex(logical, x, x) /\ UNCHANGED <<logicalTail, phys, physTail, lp, alias, contains>>
  BY DEF E!makeLogicalTableEntryLive
<1>2. TabRight(LogEntry, logical, logicalTail) /\ E!Used(logical, x) /\ x > 0
  BY <1>1 DEF EntInv, E!Used, E!Stale
<1>3. PICK r : r = logical'
  OBVIOUS
<1>4. r = E!WithIndex(logical, x, x)
  BY <1>1, <1>3
<1>5. TabRight(LogEntry, r, logicalTail) /\ Pos(r) = Pos(logical) \cup {x}
  BY <1>2, <1>4, EntryKinds, Reindexed
<1>6. Agrees(lp, 1, Pos(r), Pos(phys)) /\ Agrees(alias, 0, Pos(phys), Pos(r) \cup {0})
  BY <1>5 DEF EntInv, Agrees
<1>7. QED BY <1>1, <1>3, <1>5, <1>6 DEF EntInv

\* Calls that change one of the tables that relate indices.
LEMMA LPChanges ==
  ASSUME EntInv, UNCHANGED <<phys, physTail, logical, logicalTail, alias, contains>>,
         RowsRight(lp', 1), \A o, z : z >= 1 /\ NamesIt(lp', o, z) => NamesIt(lp, o, z) \/ (o \in Pos(logical) /\ z \in Pos(phys))
  PROVE  EntInv'
<1>1. PICK r : r = lp'
  OBVIOUS
<1>2. Agrees(r, 1, Pos(logical), Pos(phys))
  BY <1>1 DEF EntInv, Agrees
<1>3. QED BY <1>1, <1>2 DEF EntInv

LEMMA AliasChanges ==
  ASSUME EntInv, UNCHANGED <<phys, physTail, logical, logicalTail, lp, contains>>,
         RowsRight(alias', 0), \A o, z : z >= 0 /\ NamesIt(alias', o, z) => NamesIt(alias, o, z) \/ (o \in Pos(phys) /\ z \in Pos(logical) \cup {0})
  PROVE  EntInv'
<1>1. PICK r : r = alias'
  OBVIOUS
<1>2. Agrees(r, 0, Pos(phys), Pos(logical) \cup {0})
  BY <1>1 DEF EntInv, Agrees
<1>3. QED BY <1>1, <1>2 DEF EntInv

LEMMA LPCalls ==
  ASSUME EntInv, NEW x \in Nat, NEW p \in Nat,
         \/ E!addLPMappingTableEntry(x, p) \/ E!deleteLPMappingTableEntry(x, p)
         \/ E!deleteLPMappingPhysicalIndex(p) \/ E!deleteLPMappingLogicalIndex(x)
  PROVE  EntInv'
<1>1. RowsRight(lp, 1) /\ lp \in Seq(MapRow)
  BY DEF EntInv, RowsRight
<1>2. PICK r : r = lp'
  OBVIOUS
<1>3. CASE E!addLPMappingTableEntry(x, p)
  <2>1. /\ E!Live(logical, x) /\ E!Live(phys, p) /\ <<x, p>> \notin E!Related(lp) /\ lp' = E!LPAdded(x, p)
        /\ UNCHANGED <<phys, physTail, logical, logicalTail, alias, contains>>
    BY <1>3 DEF E!addLPMappingTableEntry
  <2>2. ~ NamesIt(lp, x, p)
    BY <2>1, <1>1, RelatedNames
  <2>3. x \in Nat \ {0} /\ p \in Nat \ {0} /\ x \in Pos(logical) /\ p \in Pos(phys)
    BY <2>1, LiveNow
  <2>4. AddedRight(lp, r, 1, x, p)
    BY <1>1, <1>2, <2>1, <2>2, <2>3, LPAddedRight
  <2>5. QED BY <1>2, <2>1, <2>3, <2>4, LPChanges DEF AddedRight
<1>4. CASE E!deleteLPMappingTableEntry(x, p)
  <2>1. /\ r = InRow(lp, x, p, -p) /\ p > 0
        /\ UNCHANGED <<phys, physTail, logical, logicalTail, alias, contains>>
    BY <1>2, <1>4 DEF E!deleteLPMappingTableEntry, E!Live, InRow
  <2>2. RowsRight(r, 1) /\ \A o, z : z >= 1 /\ NamesIt(r, o, z) => NamesIt(lp, o, z) /\ ~ (o = x /\ z = p)
    <3>1. -p \in Int /\ -p < 1
      BY <2>1
    <3>2. QED BY <2>1, <3>1, <1>1, InRowChanges
  <2>3. QED BY <1>2, <2>1, <2>2, LPChanges
<1>5. CASE E!deleteLPMappingPhysicalIndex(p)
  <2>1. r = E!InRows(lp, p, -p) /\ p > 0 /\ UNCHANGED <<phys, physTail, logical, logicalTail, alias, contains>>
    BY <1>2, <1>5 DEF E!deleteLPMappingPhysicalIndex, E!LPWithoutPhysical, E!Live
  <2>2. RowsRight(r, 1) /\ \A o, z : z >= 1 /\ NamesIt(r, o, z) => NamesIt(lp, o, z) /\ z # p
    <3>1. -p \in Int /\ -p < 1
      BY <2>1
    <3>2. QED BY <2>1, <3>1, <1>1, InRowsChanges
  <2>3. QED BY <1>2, <2>1, <2>2, LPChanges
<1>6. CASE E!deleteLPMappingLogicalIndex(x)
  <2>1. r = E!DropRow(lp, x) /\ UNCHANGED <<phys, physTail, logical, logicalTail, alias, contains>>
    BY <1>2, <1>6 DEF E!deleteLPMappingLogicalIndex
  <2>2. RowsRight(r, 1) /\ \A o, z : NamesIt(r, o, z) => NamesIt(lp, o, z) /\ o # x
    BY <2>1, <1>1, DropRowChanges
  <2>3. QED BY <1>2, <2>1, <2>2, LPChanges
<1>7. QED BY <1>3, <1>4, <1>5, <1>6

LEMMA AliasCalls ==
  ASSUME EntInv, NEW p \in Nat, NEW x \in Nat,
         \/ E!addAliasMappingTableEntry(p, x) \/ E!deleteAliasMappingTableEntry(p, x)
         \/ E!deleteAliasMappingPhysicalIndex(p) \/ E!deleteAliasMappingLogicalIndex(x)
  PROVE  EntInv'
<1>1. RowsRight(alias, 0) /\ alias \in Seq(MapRow)
  BY DEF EntInv, RowsRight
<1>2. PICK r : r = alias'
  OBVIOUS
<1>3. CASE E!addAliasMappingTableEntry(p, x)
  <2>1. /\ E!Live(phys, p) /\ (x = 0 \/ E!Live(logical, x)) /\ <<p, x>> \notin E!Related(alias) /\ alias' = E!AliasAdded(p, x)
        /\ UNCHANGED <<phys, physTail, logical, logicalTail, lp, contains>>
    BY <1>3 DEF E!addAliasMappingTableEntry
  <2>2. ~ NamesIt(alias, p, x)
    BY <2>1, <1>1, RelatedNames
  <2>3. p \in Nat \ {0} /\ p \in Pos(phys) /\ x \in Pos(logical) \cup {0}
    BY <2>1, LiveNow
  <2>4. AddedRight(alias, r, 0, p, x)
    BY <1>1, <1>2, <2>1, <2>2, <2>3, AliasAddedRight
  <2>5. QED BY <1>2, <2>1, <2>3, <2>4, AliasChanges DEF AddedRight
<1>4. CASE E!deleteAliasMappingTableEntry(p, x)
  <2>1. /\ r = InRow(alias, p, x, -1)
        /\ UNCHANGED <<phys, physTail, logical, logicalTail, lp, contains>>
    BY <1>2, <1>4 DEF E!deleteAliasMappingTableEntry, InRow
  <2>2. RowsRight(r, 0) /\ \A o, z : z >= 0 /\ NamesIt(r, o, z) => NamesIt(alias, o, z) /\ ~ (o = p /\ z = x)
    BY <2>1, <1>1, InRowChanges
  <2>3. QED BY <1>2, <2>1, <2>2, AliasChanges
<1>5. CASE E!deleteAliasMappingPhysicalIndex(p)
  <2>1. r = E!DropRow(alias, p) /\ UNCHANGED <<phys, physTail, logical, logicalTail, lp, contains>>
    BY <1>2, <1>5 DEF E!deleteAliasMappingPhysicalIndex
  <2>2. RowsRight(r, 0) /\ \A o, z : NamesIt(r, o, z) => NamesIt(alias, o, z) /\ o # p
    BY <2>1, <1>1, DropRowChanges
  <2>3. QED BY <1>2, <2>1, <2>2, AliasChanges
<1>6. CASE E!deleteAliasMappingLogicalIndex(x)
  <2>1. r = E!InRows(alias, x, -1) /\ UNCHANGED <<phys, physTail, logical, logicalTail, lp, contains>>
    BY <1>2, <1>6 DEF E!deleteAliasMappingLogicalIndex, E!AliasWithoutLogical
  <2>2. RowsRight(r, 0) /\ \A o, z : z >= 0 /\ NamesIt(r, o, z) => NamesIt(alias, o, z) /\ z # x
    BY <2>1, <1>1, InRowsChanges
  <2>3. QED BY <1>2, <2>1, <2>2, AliasChanges
<1>7. QED BY <1>3, <1>4, <1>5, <1>6

LEMMA ContainsChanges ==
  ASSUME EntInv, UNCHANGED <<physTail, logical, logicalTail, lp, alias>>,
         SameIndices(phys', phys), LowestIn(phys', contains'), RowsRight(contains', 1),
         \A o, z : z >= 1 /\ NamesIt(contains', o, z) => NamesIt(contains, o, z) \/ (o \in Pos(phys) /\ z \in Pos(phys))
  PROVE  EntInv'
<1>1. PICK q, r : q = phys' /\ r = contains'
  OBVIOUS
<1>2. TabRight(PhysEntry, q, physTail) /\ Pos(q) = Pos(phys)
  <2>1. TabRight(PhysEntry, phys, physTail) /\ SameIndices(q, phys)
    BY <1>1 DEF EntInv
  <2>2. QED BY <2>1, Moved DEF SameIndices
<1>3. Agrees(r, 1, Pos(phys), Pos(phys))
  BY <1>1 DEF EntInv, Agrees
<1>4. QED BY <1>1, <1>2, <1>3 DEF EntInv

\* A child that is added has the new parent, or a lower one.
LEMMA ChildAdded ==
  ASSUME EntInv, NEW p \in Nat \ {0}, NEW c \in Nat \ {0}, E!Live(phys, c), NEW k, k = E!At(phys, c),
         NEW n, n = IF phys[k].in = 0 \/ phys[k].in > p THEN p ELSE phys[k].in,
         NEW q, q = [phys EXCEPT ![k].in = n],
         NEW r, AddedRight(contains, r, 1, p, c)
  PROVE  SameIndices(q, phys) /\ LowestIn(q, r)
<1>1. phys \in Seq(PhysEntry) /\ InOrder(phys) /\ LowestIn(phys, contains)
  BY DEF EntInv, TabRight
<1>2. Len(phys) \in Nat /\ \A j \in 1..Len(phys) : phys[j] \in PhysEntry
  BY <1>1
<1>3. k \in 1..Len(phys) /\ phys[k].idx = c /\ \A j \in 1..Len(phys) : phys[j].idx = c => j = k
  <2>1. E!Used(phys, c)
    BY DEF E!Used
  <2>2. /\ k \in 1..Len(phys) /\ phys[k].idx = c
        /\ \A j \in 1..Len(phys) : Idx(phys, j) = c => j = k
    BY <1>1, <2>1, EntryKinds, EntryAt
  <2>3. \A j \in 1..Len(phys) : phys[j].idx = c => Idx(phys, j) = c
    BY DEF Idx
  <2>4. QED BY <2>2, <2>3
<1>4. phys[k].in \in Nat
  BY <1>2, <1>3 DEF PhysEntry
<1>5. n \in Nat /\ 1 <= n /\ n <= p /\ (phys[k].in >= 1 => n <= phys[k].in)
  BY <1>4
<1>6. PICK e : e = [phys[k] EXCEPT !.in = n]
  OBVIOUS
<1>7. e \in PhysEntry /\ e.idx = phys[k].idx /\ e.in = n
  BY <1>2, <1>3, <1>5, <1>6, EntryMoves
<1>8. q = [phys EXCEPT ![k] = e]
  BY <1>6
<1>9. q \in Seq(PhysEntry) /\ Len(q) = Len(phys) /\ \A j \in 1..Len(phys) : q[j] = IF j = k THEN e ELSE phys[j]
  BY <1>1, <1>3, <1>7, <1>8
<1>10. SameIndices(q, phys)
  BY <1>7, <1>9 DEF SameIndices
<1>11. LowestIn(q, r)
  <2> SUFFICES ASSUME NEW j \in 1..Len(phys), NEW o, q[j].idx > 0, NamesIt(r, o, q[j].idx)
               PROVE  1 <= q[j].in /\ q[j].in <= o
    BY <1>9 DEF LowestIn
  <2>1. q[j].idx = phys[j].idx
    BY <1>10 DEF SameIndices
  <2>2. NamesIt(contains, o, phys[j].idx) \/ (o = p /\ phys[j].idx = c)
    BY <2>1 DEF AddedRight
  <2>3. CASE NamesIt(contains, o, phys[j].idx)
    <3>1. 1 <= phys[j].in /\ phys[j].in <= o
      BY <1>1, <2>1, <2>3 DEF LowestIn
    <3>2. CASE j = k
      <4>1. q[j].in = n /\ n <= phys[k].in
        BY <3>1, <3>2, <1>4, <1>5, <1>7, <1>9
      <4>2. o \in Nat
        BY <2>3, RelFacts DEF NamesIt, EntInv, RowsRight
      <4>3. QED BY <3>1, <3>2, <4>1, <4>2, <1>4, <1>5
    <3>3. CASE j # k
      BY <3>1, <3>3, <1>9
    <3>4. QED BY <3>2, <3>3
  <2>4. CASE o = p /\ phys[j].idx = c
    <3>1. j = k
      BY <2>4, <1>3
    <3>2. QED BY <2>4, <3>1, <1>5, <1>7, <1>9
  <2>5. QED BY <2>2, <2>3, <2>4
<1>12. QED BY <1>10, <1>11

LEMMA ContainsCalls ==
  ASSUME EntInv, NEW p \in Nat, NEW c \in Nat,
         \/ E!addPhysicalContainsTableEntry(p, c) \/ E!deletePhysicalContainsTableEntry(p, c)
         \/ E!deletePhysicalContainsParentIndex(p) \/ E!deletePhysicalContainsChildIndex(c)
  PROVE  EntInv'
<1>1. /\ RowsRight(contains, 1) /\ contains \in Seq(MapRow)
      /\ phys \in Seq(PhysEntry) /\ LowestIn(phys, contains)
  BY DEF EntInv, RowsRight, TabRight
<1>2. PICK q, r : q = phys' /\ r = contains'
  OBVIOUS
<1>3. CASE E!addPhysicalContainsTableEntry(p, c)
  <2>1. CASE E!Breaks
    <3>1. UNCHANGED <<phys, physTail, logical, logicalTail, lp, alias, contains>>
      BY <2>1 DEF E!Breaks, E!tables
    <3>2. QED BY <3>1, EntStays
  <2>2. CASE ~ E!Breaks
    <3>1. /\ E!Live(phys, p) /\ E!Live(phys, c) /\ <<p, c>> \notin E!Related(contains)
          /\ contains' = E!ContainsAdded(p, c)
          /\ phys' = [phys EXCEPT ![E!At(phys, c)].in = IF @ = 0 \/ @ > p THEN p ELSE @]
          /\ UNCHANGED <<physTail, logical, logicalTail, lp, alias>>
      BY <1>3, <2>2 DEF E!addPhysicalContainsTableEntry
    <3>2. p \in Nat \ {0} /\ c \in Nat \ {0} /\ p \in Pos(phys) /\ c \in Pos(phys)
      BY <3>1, LiveNow
    <3>3. ~ NamesIt(contains, p, c)
      BY <3>1, <1>1, RelatedNames
    <3>4. AddedRight(contains, r, 1, p, c)
      BY <1>1, <1>2, <3>1, <3>2, <3>3, ContainsAddedRight
    <3>5. PICK k : k = E!At(phys, c)
      OBVIOUS
    <3>6. PICK n : n = IF phys[k].in = 0 \/ phys[k].in > p THEN p ELSE phys[k].in
      OBVIOUS
    <3>7. q = [phys EXCEPT ![k].in = n]
      BY <1>2, <3>1, <3>5, <3>6
    <3>8. SameIndices(q, phys) /\ LowestIn(q, r)
      BY <3>1, <3>2, <3>4, <3>5, <3>6, <3>7, ChildAdded
    <3>9. QED BY <1>2, <3>1, <3>2, <3>4, <3>8, ContainsChanges DEF AddedRight
  <2>3. QED BY <2>1, <2>2
<1>4. CASE E!deletePhysicalContainsTableEntry(p, c)
  <2>1. /\ q = E!WithoutChild(phys, contains, c, {p}) /\ r = InRow(contains, p, c, -1)
        /\ UNCHANGED <<physTail, logical, logicalTail, lp, alias>>
    BY <1>2, <1>4 DEF E!deletePhysicalContainsTableEntry, InRow
  <2>2. RowsRight(r, 1) /\ \A o, z : z >= 1 /\ NamesIt(r, o, z) => NamesIt(contains, o, z) /\ ~ (o = p /\ z = c)
    BY <2>1, <1>1, InRowChanges
  <2>3. SameIndices(q, phys) /\ LowestIn(q, r)
    <3>1. \A o, z : z >= 1 /\ NamesIt(r, o, z) => NamesIt(contains, o, z) /\ ~ (z = c /\ o \in {p})
      BY <2>2
    <3>2. QED BY <3>1, <2>1, <1>1, ChildLeaves
  <2>4. QED BY <1>2, <2>1, <2>2, <2>3, ContainsChanges
<1>5. CASE E!deletePhysicalContainsParentIndex(p)
  <2>1. /\ q = E!WithoutParent(phys, p) /\ r = E!DropRow(contains, p)
        /\ UNCHANGED <<physTail, logical, logicalTail, lp, alias>>
    BY <1>2, <1>5 DEF E!deletePhysicalContainsParentIndex
  <2>2. RowsRight(r, 1) /\ \A o, z : NamesIt(r, o, z) => NamesIt(contains, o, z) /\ o # p
    BY <2>1, <1>1, DropRowChanges
  <2>3. SameIndices(q, phys) /\ LowestIn(q, r)
    BY <2>1, <1>1, ParentGone
  <2>4. QED BY <1>2, <2>1, <2>2, <2>3, ContainsChanges
<1>6. CASE E!deletePhysicalContainsChildIndex(c)
  <2>1. /\ q = E!WithoutChild(phys, contains, c, E!ParentsIn(contains, c)) /\ r = E!InRows(contains, c, -1)
        /\ UNCHANGED <<physTail, logical, logicalTail, lp, alias>>
    BY <1>2, <1>6 DEF E!deletePhysicalContainsChildIndex
  <2>2. RowsRight(r, 1) /\ \A o, z : z >= 1 /\ NamesIt(r, o, z) => NamesIt(contains, o, z) /\ z # c
    BY <2>1, <1>1, InRowsChanges
  <2>3. SameIndices(q, phys) /\ LowestIn(q, r)
    <3>1. \A o, z : z >= 1 /\ NamesIt(r, o, z) => NamesIt(contains, o, z) /\ ~ (z = c /\ o \in E!ParentsIn(contains, c))
      BY <2>2
    <3>2. QED BY <3>1, <2>1, <1>1, ChildLeaves
  <2>4. QED BY <1>2, <2>1, <2>2, <2>3, ContainsChanges
<1>7. QED BY <1>3, <1>4, <1>5, <1>6

-----------------------------------------------------------------------------
(* EntityMib: the invariant, and what it says to a manager.                   *)

LEMMA EntInvStarts == E!Init => EntInv
<1> SUFFICES ASSUME E!Init PROVE EntInv
  OBVIOUS
<1>1. /\ phys = <<>> /\ physTail = 0 /\ logical = <<>> /\ logicalTail = 0
      /\ lp = <<>> /\ alias = <<>> /\ contains = <<>>
  BY DEF E!Init, E!InitPhysical, E!InitLogical, E!InitLP, E!InitAlias, E!InitContains, E!Null
<1>2. Len(<<>>) = 0 /\ 1..0 = {} /\ \A X : <<>> \in Seq(X)
  OBVIOUS
<1>3. \A X : TabRight(X, <<>>, 0)
  BY <1>2 DEF TabRight, InOrder, TailIs
<1>4. \A low : RowsRight(<<>>, low)
  BY <1>2 DEF RowsRight
<1>5. \A o, z : ~ NamesIt(<<>>, o, z)
  BY <1>2 DEF NamesIt
<1>6. LowestIn(<<>>, <<>>)
  BY <1>2 DEF LowestIn
<1>7. QED BY <1>1, <1>3, <1>4, <1>5, <1>6 DEF EntInv, Agrees

LEMMA EntInvInductive == EntInv /\ [E!Next]_entityVars => EntInv'
<1> SUFFICES ASSUME EntInv, [E!Next]_entityVars PROVE EntInv'
  OBVIOUS
<1>1. CASE UNCHANGED entityVars
  BY <1>1, EntStays DEF entityVars
<1>2. CASE E!Next
  <2>1. ASSUME NEW want \in Wanted, NEW in \in Wanted, NEW port \in BOOLEAN, E!allocPhysicalEntry(want, in, port)
        PROVE  EntInv'
    BY <2>1, PhysicalAdded
  <2>2. ASSUME NEW want \in Wanted, E!allocLogicalEntry(want) PROVE EntInv'
    BY <2>2, LogicalAdded
  <2>3. ASSUME NEW x \in Wanted, E!PhysicalCall(x) PROVE EntInv'
    <3>1. x \in Nat /\ 0 \in Nat
      BY WantedNumbers
    <3>2. CASE E!deletePhysicalTableEntry(x)
      BY <3>1, <3>2, PhysicalDeleted
    <3>3. CASE E!makePhysicalTableEntryStale(x)
      BY <3>1, <3>3, PhysicalHidden
    <3>4. CASE E!makePhysicalTableEntryLive(x)
      BY <3>1, <3>4, PhysicalShown
    <3>5. CASE E!deleteLPMappingPhysicalIndex(x)
      BY <3>1, <3>5, LPCalls
    <3>6. CASE E!deleteAliasMappingPhysicalIndex(x)
      BY <3>1, <3>6, AliasCalls
    <3>7. CASE E!deletePhysicalContainsParentIndex(x)
      BY <3>1, <3>7, ContainsCalls
    <3>8. CASE E!deletePhysicalContainsChildIndex(x)
      BY <3>1, <3>8, ContainsCalls
    <3>9. ASSUME NEW c \in Wanted, E!addPhysicalContainsTableEntry(x, c) \/ E!deletePhysicalContainsTableEntry(x, c)
          PROVE  EntInv'
      <4>1. c \in Nat
        BY WantedNumbers
      <4>2. QED BY <3>1, <3>9, <4>1, ContainsCalls
    <3>10. QED BY <2>3, <3>2, <3>3, <3>4, <3>5, <3>6, <3>7, <3>8, <3>9 DEF E!PhysicalCall
  <2>4. ASSUME NEW x \in Wanted, E!LogicalCall(x) PROVE EntInv'
    <3>1. x \in Nat /\ 0 \in Nat
      BY WantedNumbers
    <3>2. CASE E!deleteLogicalTableEntry(x)
      BY <3>1, <3>2, LogicalDeleted
    <3>3. CASE E!makeLogicalTableEntryStale(x)
      BY <3>1, <3>3, LogicalHidden
    <3>4. CASE E!makeLogicalTableEntryLive(x)
      BY <3>1, <3>4, LogicalShown
    <3>5. CASE E!deleteLPMappingLogicalIndex(x)
      BY <3>1, <3>5, LPCalls
    <3>6. CASE E!deleteAliasMappingLogicalIndex(x)
      BY <3>1, <3>6, AliasCalls
    <3>7. ASSUME NEW p \in Wanted, E!addLPMappingTableEntry(x, p) \/ E!deleteLPMappingTableEntry(x, p)
          PROVE  EntInv'
      <4>1. p \in Nat
        BY WantedNumbers
      <4>2. QED BY <3>1, <3>7, <4>1, LPCalls
    <3>8. QED BY <2>4, <3>2, <3>3, <3>4, <3>5, <3>6, <3>7 DEF E!LogicalCall
  <2>5. ASSUME NEW p \in Wanted, NEW x \in Wanted, E!addAliasMappingTableEntry(p, x) \/ E!deleteAliasMappingTableEntry(p, x)
        PROVE  EntInv'
    <3>1. p \in Nat /\ x \in Nat
      BY WantedNumbers
    <3>2. QED BY <2>5, <3>1, AliasCalls
  <2>6. CASE E!PeriodOver \/ E!alarm_entLastChangeTime
    BY <2>6, EntStays DEF E!PeriodOver, E!alarm_entLastChangeTime, E!tables
  <2>7. QED BY <1>2, <2>1, <2>2, <2>3, <2>4, <2>5, <2>6 DEF E!Next
<1>3. QED BY <1>1, <1>2

LEMMA TablesAreRight == EntInv => E!TablesAgree /\ E!LowestParent /\ E!ListsSorted
<1> SUFFICES ASSUME EntInv PROVE E!TablesAgree /\ E!LowestParent /\ E!ListsSorted
  OBVIOUS
<1>1. /\ phys \in Seq(PhysEntry) /\ logical \in Seq(LogEntry) /\ InOrder(phys) /\ InOrder(logical)
      /\ lp \in Seq(MapRow) /\ alias \in Seq(MapRow) /\ contains \in Seq(MapRow)
  BY DEF EntInv, TabRight, RowsRight
<1>2. E!PhysicalRows = Pos(phys) /\ E!LogicalRows = Pos(logical)
  <2>1. DOMAIN phys = 1..Len(phys) /\ DOMAIN logical = 1..Len(logical)
    BY <1>1
  <2>2. QED BY <2>1 DEF E!PhysicalRows, E!LogicalRows, E!Indices, Pos
<1>3. \A rel \in {lp, alias, contains} : \A r \in E!Related(rel) :
        NamesIt(rel, r[1], r[2]) /\ r = <<r[1], r[2]>> /\ r[2] \in Int
  <2> TAKE rel \in {lp, alias, contains}
  <2>1. rel \in Seq(MapRow)
    BY <1>1
  <2>2. \A o, z : NamesIt(rel, o, z) => z \in Int
    <3>1. \A k \in 1..Len(rel) : rel[k].to \in Seq(Int)
      BY <2>1, RelFacts DEF MapRow
    <3>2. QED BY <3>1 DEF NamesIt, Has
  <2>3. QED BY <2>1, <2>2, RelatedNames
<1>4. E!TablesAgree
  <2>1. ASSUME NEW r \in E!LPRows PROVE r \in E!LogicalRows \X E!PhysicalRows
    <3>1. r \in E!Related(lp) /\ r[2] > 0
      BY DEF E!LPRows
    <3>2. NamesIt(lp, r[1], r[2]) /\ r = <<r[1], r[2]>> /\ r[2] >= 1
      BY <3>1, <1>3
    <3>3. r[1] \in Pos(logical) /\ r[2] \in Pos(phys)
      BY <3>2 DEF EntInv, Agrees
    <3>4. QED BY <3>2, <3>3, <1>2
  <2>2. ASSUME NEW r \in E!AliasRows PROVE r \in E!PhysicalRows \X (E!LogicalRows \cup {0})
    <3>1. r \in E!Related(alias) /\ r[2] >= 0
      BY DEF E!AliasRows
    <3>2. NamesIt(alias, r[1], r[2]) /\ r = <<r[1], r[2]>>
      BY <3>1, <1>3
    <3>3. r[1] \in Pos(phys) /\ r[2] \in Pos(logical) \cup {0}
      BY <3>1, <3>2 DEF EntInv, Agrees
    <3>4. QED BY <3>2, <3>3, <1>2
  <2>3. ASSUME NEW r \in E!ContainsRows PROVE r \in E!PhysicalRows \X E!PhysicalRows
    <3>1. r \in E!Related(contains) /\ r[2] > 0
      BY DEF E!ContainsRows
    <3>2. NamesIt(contains, r[1], r[2]) /\ r = <<r[1], r[2]>> /\ r[2] >= 1
      BY <3>1, <1>3
    <3>3. r[1] \in Pos(phys) /\ r[2] \in Pos(phys)
      BY <3>2 DEF EntInv, Agrees
    <3>4. QED BY <3>2, <3>3, <1>2
  <2>4. QED BY <2>1, <2>2, <2>3 DEF E!TablesAgree
<1>5. E!LowestParent
  <2> SUFFICES ASSUME NEW k \in DOMAIN phys, phys[k].idx > 0, E!ParentsIn(contains, phys[k].idx) # {}
               PROVE  phys[k].in \in 1..E!Min(E!ParentsIn(contains, phys[k].idx))
    BY DEF E!LowestParent
  <2>1. PICK S : S = E!ParentsIn(contains, phys[k].idx)
    OBVIOUS
  <2>2. S = {o \in Nat \ {0} : NamesIt(contains, o, phys[k].idx)}
    BY <2>1, <1>1, RelatedNames
  <2>3. PICK n : n = E!Min(S)
    OBVIOUS
  <2>4. n \in S
    <3>1. S \in SUBSET Nat /\ S # {}
      BY <2>1, <2>2
    <3>2. \E m \in S : \A o \in S : m <= o
      BY <3>1, LeastNumber
    <3>3. QED BY <3>2, <2>3 DEF E!Min
  <2>5. k \in 1..Len(phys) /\ phys[k].in \in Nat
    <3>1. k \in 1..Len(phys) /\ phys[k] \in PhysEntry
      BY <1>1
    <3>2. QED BY <3>1 DEF PhysEntry
  <2>6. n \in Nat /\ 1 <= phys[k].in /\ phys[k].in <= n
    BY <2>2, <2>4, <2>5 DEF EntInv, LowestIn
  <2>7. QED BY <2>1, <2>3, <2>5, <2>6
<1>6. E!ListsSorted
  <2>1. ASSUME NEW X, Entries(X), NEW tab \in Seq(X), InOrder(tab)
        PROVE  \A k \in 1..Len(tab) - 1 : E!ListIndex(tab, k) < E!ListIndex(tab, k + 1)
    <3>1. \A k : E!ListIndex(tab, k) = Idx(tab, k)
      BY <2>1, TabFacts
    <3>2. \A k \in 1..Len(tab) - 1 : k \in 1..Len(tab) /\ k + 1 \in 1..Len(tab) /\ k < k + 1
      BY <2>1
    <3>3. QED BY <3>1, <3>2, <2>1 DEF InOrder
  <2>2. \A k \in 1..Len(phys) - 1 : E!ListIndex(phys, k) < E!ListIndex(phys, k + 1)
    BY <2>1, <1>1, EntryKinds
  <2>3. \A k \in 1..Len(logical) - 1 : E!ListIndex(logical, k) < E!ListIndex(logical, k + 1)
    BY <2>1, <1>1, EntryKinds
  <2>4. QED BY <2>2, <2>3 DEF E!ListsSorted
<1>7. QED BY <1>4, <1>5, <1>6

-----------------------------------------------------------------------------
(* The programs side by side: a step is one of each, or leaves it alone.     *)

LEMMA HostStarts == HostInit => P!PartsInit /\ E!Init /\ D!Init /\ H!Init /\ Z!PoolInit /\ C!ProcInit /\ Y!TtyInit
BY DEF HostInit

LEMMA HostSteps ==
  [HostNext]_hostVars =>
    [P!PartsNext]_partsVars /\ [E!Next]_entityVars /\ [D!Next]_diskVars /\ [H!Next]_ruleVars /\ [Z!PoolNext]_poolVars /\ [C!ProcNext]_procVars /\ [Y!TtyNext]_ttyVars
<1> SUFFICES ASSUME [HostNext]_hostVars
             PROVE  [P!PartsNext]_partsVars /\ [E!Next]_entityVars /\ [D!Next]_diskVars /\ [H!Next]_ruleVars /\ [Z!PoolNext]_poolVars /\ [C!ProcNext]_procVars /\ [Y!TtyNext]_ttyVars
  OBVIOUS
<1> USE DEF hostVars
<1>1. CASE UNCHANGED hostVars
  BY <1>1
<1>2. CASE HostNext
  <2> USE DEF HostNext
  <2>1. [D!Next]_diskVars
    BY <1>2
  <2>2. [H!Next]_ruleVars
    BY <1>2
  <2>3. [Z!PoolNext]_poolVars
    BY <1>2
  <2>4. [C!ProcNext]_procVars
    BY <1>2
  <2>5. [Y!TtyNext]_ttyVars
    BY <1>2
  <2>6. [P!PartsNext]_partsVars
    BY <1>2
  <2>7. [E!Next]_entityVars
    BY <1>2
  <2>8. QED BY <2>1, <2>2, <2>3, <2>4, <2>5, <2>6, <2>7
<1>3. QED BY <1>1, <1>2

LEMMA DisksSafe == HostSpec => []DiskInv
<1>1. HostInit => DiskInv
  BY HostStarts, DiskInvStarts
<1>2. DiskInv /\ [HostNext]_hostVars => DiskInv'
  BY HostSteps, DiskInvInductive
<1>3. QED BY <1>1, <1>2, PTL DEF HostSpec

\* A refresh of the disk table leaves for each disk of the kernel's list one
\* row, or a row of a longer name that took its place, however the list changed
\* meanwhile, and no disk in two rows; the manager knows the level of each row,
\* and of each alarm of a rule unless it opened again and is no worse than an
\* earlier one was (refresh_DISK_table, check_state_DISK, hm_handle_rule).
THEOREM HealthIsTold == HostSpec => []HealthTold
<1>1. HostInit => RuleInv
  <2> SUFFICES ASSUME H!Init PROVE RuleInv
    BY HostStarts
  <2>1. rule \in H!RuleNames /\ state = "NOTINIT" /\ new = 0 /\ prev = 0 /\ ruleTold = 0 /\ closed = FALSE
    BY DEF H!Init, H!OK
  <2>2. 0 \in Level /\ ~ (0 > 0) /\ 0 <= 0
    BY DEF Level
  <2>3. ~ (state \in {"OPEN", "CONTINUE"})
    BY <2>1
  <2>4. QED BY <2>1, <2>2, <2>3 DEF RuleInv
<1>2. RuleInv /\ [HostNext]_hostVars => RuleInv'
  BY HostSteps, RuleInvInductive
<1>3. RuleInv /\ DiskInv => HealthTold
  BY AlarmIsKnown, TableIsTold DEF HealthTold
<1>4. QED BY <1>1, <1>2, <1>3, DisksSafe, PTL DEF HostSpec

\* A disk leaves the table in a refresh only when it has left the kernel's
\* list, or for a row whose longer name begins with its own
\* (refresh_DISK_table).
THEOREM OnlyRemovedLeaves == HostSpec => OnlyRemovedLeave
<1>1. DiskInv /\ DiskInv' /\ [HostNext]_hostVars => [D!RemovedLeave]_diskVars
  BY HostSteps, RemovedLeaveSteps
<1>2. QED BY <1>1, DisksSafe, PTL DEF HostSpec, OnlyRemovedLeave

\* The pool list is that of the configurations last read, whatever pools come,
\* go or exchange their names; no request leaves a lock behind, and the agent
\* does not walk off the list, because its first pool never goes
\* (refresh_pool_cache, check_cache, zprop_release).
THEOREM PoolsAlwaysRight ==
  ASSUME SystemPoolFirst
  PROVE  HostSpec => []PoolsRight
<1>1. HostInit => PoolInv
  BY HostStarts, PoolInvStarts
<1>2. PoolInv /\ [HostNext]_hostVars => PoolInv'
  BY HostSteps, PoolInvInductive
<1>3. PoolInv => PoolsRight
  BY PoolsAreRight DEF PoolsRight
<1>4. QED BY <1>1, <1>2, <1>3, PTL DEF HostSpec

\* A walk of the process table lists every process that lived from its first
\* row to its last, in order and once, though processes start and end and the
\* table is read anew in between; a list of terminals is one that a search
\* found, though the agent may stop at any write of its file (get_ps_data,
\* psTable_handler, readata, wrdata).
THEOREM HostTablesRight == HostSpec => []HostTables
<1>1. HostInit => ProcInv /\ TtyInv
  <2>1. Y!TtyInit => TtyInv
    BY DEF Y!TtyInit, TtyInv
  <2>2. QED BY <2>1, HostStarts, ProcInvStarts
<1>2. ProcInv /\ TtyInv /\ [HostNext]_hostVars => ProcInv' /\ TtyInv'
  BY HostSteps, ProcInvInductive, TtyInvInductive
<1>3. ProcInv /\ TtyInv => HostTables
  <2>1. TtyInv => Y!ListWhole
    BY DEF TtyInv, Y!ListWhole
  <2>2. QED BY <2>1, WalkIsComplete DEF HostTables
<1>4. QED BY <1>1, <1>2, <1>3, PTL DEF HostSpec

\* With --report, all that a part wrote is shown before the next part begins,
\* in order, after its name, on the pipe it came from; and run-parts never
\* waits for a part that waits for room in a pipe, though parts and what they
\* leave behind write and end at any time (run_part).
THEOREM PartsAlwaysReported == HostSpec => []PartsReported
<1>1. HostInit => PartsInv
  BY HostStarts, PartsInvStarts
<1>2. PartsInv /\ [HostNext]_hostVars => PartsInv'
  BY HostSteps, PartsInvInductive
<1>3. PartsInv => PartsReported
  BY PartsAreReported, NobodyWaits DEF PartsReported
<1>4. QED BY <1>1, <1>2, <1>3, PTL DEF HostSpec

\* Whatever calls come, the rows a manager reads name entries that are shown,
\* an entry is contained in the lowest of its parents, and each list is in the
\* order of its indices, hidden entries included (the entityMib API: entries
\* are allocated, deleted, hidden and shown again, and related to each other).
THEOREM EntityTablesRight == HostSpec => []EntityTables
<1>1. HostInit => EntInv
  BY HostStarts, EntInvStarts
<1>2. EntInv /\ [HostNext]_hostVars => EntInv'
  BY HostSteps, EntInvInductive
<1>3. EntInv => EntityTables
  BY TablesAreRight DEF EntityTables
<1>4. QED BY <1>1, <1>2, <1>3, PTL DEF HostSpec
=============================================================================
