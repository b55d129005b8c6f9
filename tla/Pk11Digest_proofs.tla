-------------------------- MODULE Pk11Digest_proofs --------------------------
(***************************************************************************)
(* The digest a context computes is that of its own data, for any number   *)
(* of contexts and sessions, whatever call fails.                          *)
(*                                                                         *)
(* The argument is about who has a session: the free list, one context, or *)
(* nobody yet.  P is the set of sessions in the free list.  What the links *)
(* of the list say comes first, for the lists of the ciphers as well.      *)
(***************************************************************************)
EXTENDS Pk11Digest, FiniteSetTheorems, TLAPS

-----------------------------------------------------------------------------
(* A list linked through its members, as pk11_get_session and              *)
(* pk11_return_session change it: the lemmas hide the links from the       *)
(* proofs about the components that use the list.                          *)

\* l is P in the order of the links nx that begin with hd.
Order(P, n, l, hd, nx) ==
  /\ l \in [1..n -> P]
  /\ \A s \in P : \E i \in 1..n : l[i] = s
  /\ \A i, j \in 1..n : l[i] = l[j] => i = j
  /\ hd = IF n = 0 THEN Nil ELSE l[1]
  /\ \A i \in 1..n : nx[l[i]] = IF i = n THEN Nil ELSE l[i + 1]

Linked(P, hd, nx) == \E l : Order(P, Cardinality(P), l, hd, nx)

LEMMA LinkedNone ==
  ASSUME NEW nx
  PROVE  Linked({}, Nil, nx)
<1>1. Cardinality({}) = 0
  BY FS_EmptySet
<1> DEFINE l == [i \in 1..0 |-> {}]
<1>2. Order({}, 0, l, Nil, nx)
  BY DEF Order
<1> HIDE DEF l
<1>3. QED BY <1>1, <1>2 DEF Linked

\* An empty list head means that no session is in the list.
LEMMA LinkedFirst ==
  ASSUME NEW P, IsFiniteSet(P), Nil \notin P, NEW hd, NEW nx, Linked(P, hd, nx)
  PROVE  /\ hd = Nil <=> P = {}
         /\ hd # Nil => hd \in P
<1>1. Cardinality(P) \in Nat /\ (Cardinality(P) = 0 <=> P = {})
  BY FS_CardinalityType, FS_EmptySet
<1>2. PICK l : Order(P, Cardinality(P), l, hd, nx)
  BY DEF Linked
<1>3. CASE P = {}
  BY <1>1, <1>2, <1>3 DEF Order
<1>4. CASE P # {}
  <2>1. 1 \in 1..Cardinality(P)
    BY <1>1, <1>4
  <2>2. hd = l[1] /\ l[1] \in P
    BY <1>1, <1>2, <1>4, <2>1 DEF Order
  <2>3. QED BY <1>4, <2>2
<1>5. QED BY <1>3, <1>4

\* pk11_get_session takes one session out of the list.
LEMMA LinkedTake ==
  ASSUME NEW S, Nil \notin S, NEW P \in SUBSET S, IsFiniteSet(P), NEW s, NEW nx \in [S -> S \cup {Nil}],
         Linked(P, s, nx), s # Nil
  PROVE  Linked(P \ {s}, nx[s], [nx EXCEPT ![s] = Nil])
<1> DEFINE n == Cardinality(P)
           after == [nx EXCEPT ![s] = Nil]
<1>1. s \in P /\ P # {}
  BY LinkedFirst
<1>2. s \in S /\ n \in Nat
  BY <1>1, FS_CardinalityType
<1>3. Cardinality(P \ {s}) = n - 1
  BY <1>1, FS_RemoveElement
<1>4. n # 0
  BY <1>1, <1>2, FS_EmptySet
<1>5. PICK l : Order(P, n, l, s, nx)
  BY DEF Linked
<1> HIDE DEF n
<1>6. after[s] = Nil /\ \A x \in S : x # s => after[x] = nx[x]
  BY <1>2
<1> DEFINE k == [i \in 1..(n - 1) |-> l[i + 1]]
<1> HIDE DEF after
<1>8. s = l[1] /\ \A i \in 2..n : l[i] # s /\ l[i] \in P \ {s} /\ l[i] \in S
  BY <1>2, <1>4, <1>5 DEF Order
<1>9. Order(P \ {s}, n - 1, k, nx[s], after)
  <2>1. k \in [1..(n - 1) -> P \ {s}]
    BY <1>2, <1>8
  <2>2. ASSUME NEW x \in P \ {s} PROVE \E i \in 1..(n - 1) : k[i] = x
    <3>1. PICK i \in 1..n : l[i] = x
      BY <1>5 DEF Order
    <3>2. i # 1 /\ i - 1 \in 1..(n - 1)
      BY <1>2, <1>8, <3>1
    <3>3. k[i - 1] = x
      BY <1>2, <3>1, <3>2
    <3>4. QED BY <3>2, <3>3
  <2>3. \A i, j \in 1..(n - 1) : k[i] = k[j] => i = j
    BY <1>2, <1>5 DEF Order
  <2>4. nx[s] = IF n - 1 = 0 THEN Nil ELSE k[1]
    <3>1. 1 \in 1..n /\ (n = 1 <=> n - 1 = 0) /\ (n # 1 => 1 \in 1..(n - 1))
      BY <1>2, <1>4
    <3>2. nx[l[1]] = IF n = 1 THEN Nil ELSE l[2]
      BY <1>5, <3>1 DEF Order
    <3>3. QED BY <1>8, <3>1, <3>2
  <2>5. ASSUME NEW i \in 1..(n - 1)
        PROVE  after[k[i]] = IF i = n - 1 THEN Nil ELSE k[i + 1]
    <3>1. i + 1 \in 2..n /\ k[i] = l[i + 1]
      BY <1>2
    <3>2. after[l[i + 1]] = nx[l[i + 1]]
      BY <1>6, <1>8, <3>1
    <3>3. nx[l[i + 1]] = IF i + 1 = n THEN Nil ELSE l[i + 2]
      BY <1>2, <1>5, <3>1 DEF Order
    <3>4. i # n - 1 => k[i + 1] = l[i + 2]
      BY <1>2
    <3>5. QED BY <1>2, <3>1, <3>2, <3>3, <3>4
  <2> HIDE DEF k
  <2>6. QED BY <2>1, <2>2, <2>3, <2>4, <2>5 DEF Order
<1>10. QED BY <1>3, <1>9 DEF Linked, after

\* pk11_return_session puts one session into it that must not be there.
LEMMA LinkedReturn ==
  ASSUME NEW S, NEW P \in SUBSET S, IsFiniteSet(P), NEW hd, NEW nx \in [S -> S \cup {Nil}],
         Linked(P, hd, nx), NEW s \in S, s \notin P
  PROVE  Linked(P \cup {s}, s, [nx EXCEPT ![s] = hd])
<1> DEFINE n == Cardinality(P)
           after == [nx EXCEPT ![s] = hd]
<1>1. n \in Nat
  BY FS_CardinalityType
<1>2. Cardinality(P \cup {s}) = n + 1
  BY <1>1, FS_AddElement
<1>3. PICK l : Order(P, n, l, hd, nx)
  BY DEF Linked
<1> HIDE DEF n
<1>4. after[s] = hd /\ \A x \in S : x # s => after[x] = nx[x]
  OBVIOUS
<1> HIDE DEF after
<1> DEFINE k == [i \in 1..(n + 1) |-> IF i = 1 THEN s ELSE l[i - 1]]
<1>6. \A i \in 1..n : l[i] \in P /\ l[i] # s /\ l[i] \in S
  BY <1>3 DEF Order
<1>7. Order(P \cup {s}, n + 1, k, s, after)
  <2>1. k \in [1..(n + 1) -> P \cup {s}]
    BY <1>1, <1>6
  <2>2. ASSUME NEW x \in P \cup {s} PROVE \E i \in 1..(n + 1) : k[i] = x
    <3>1. CASE x = s
      BY <1>1, <3>1
    <3>2. CASE x \in P
      <4>1. PICK i \in 1..n : l[i] = x
        BY <1>3, <3>2 DEF Order
      <4>2. i + 1 \in 1..(n + 1) /\ k[i + 1] = x
        BY <1>1, <4>1
      <4>3. QED BY <4>2
    <3>3. QED BY <3>1, <3>2
  <2>3. \A i, j \in 1..(n + 1) : k[i] = k[j] => i = j
    BY <1>1, <1>3, <1>6 DEF Order
  <2>4. s = k[1] /\ n + 1 # 0
    BY <1>1
  <2>5. ASSUME NEW i \in 1..(n + 1)
        PROVE  after[k[i]] = IF i = n + 1 THEN Nil ELSE k[i + 1]
    <3>1. CASE i = 1
      <4>1. after[s] = hd
        BY <1>4
      <4>2. hd = IF n = 0 THEN Nil ELSE l[1]
        BY <1>3 DEF Order
      <4>3. n # 0 => k[2] = l[1]
        BY <1>1
      <4>4. k[i] = s
        BY <1>1, <3>1
      <4>5. QED BY <1>1, <3>1, <4>1, <4>2, <4>3, <4>4
    <3>2. CASE i # 1
      <4>1. i - 1 \in 1..n /\ k[i] = l[i - 1]
        BY <1>1, <3>2
      <4>2. after[l[i - 1]] = nx[l[i - 1]]
        BY <1>4, <1>6, <4>1
      <4>3. nx[l[i - 1]] = IF i - 1 = n THEN Nil ELSE l[(i - 1) + 1]
        BY <1>3, <4>1 DEF Order
      <4>4. i # n + 1 => k[i + 1] = l[(i - 1) + 1]
        BY <1>1, <3>2
      <4>5. QED BY <1>1, <4>1, <4>2, <4>3, <4>4
    <3>3. QED BY <3>1, <3>2
  <2> HIDE DEF k
  <2>6. QED BY <2>1, <2>2, <2>3, <2>4, <2>5 DEF Order
<1>8. QED BY <1>2, <1>7 DEF Linked, after

-----------------------------------------------------------------------------
(* The free list.                                                          *)

\* The list has the sessions of the finite set P.
Pool(P) == P \subseteq Sessions /\ IsFiniteSet(P) /\ FreeList(P)

LEMMA PoolLinked ==
  ASSUME NEW P
  PROVE  /\ FreeList(P) <=> Linked(P, head, next)
         /\ FreeList(P)' <=> Linked(P, head', next')
BY DEF FreeList, Linked, Order

LEMMA PoolStarts == PoolInit => Pool({}) /\ PoolTypeOK
<1>1. IsFiniteSet({})
  BY FS_EmptySet
<1>2. QED BY <1>1, LinkedNone, PoolLinked DEF Pool, PoolInit, PoolTypeOK

\* An empty list head means that no session is in the list.
LEMMA PoolEmpty ==
  ASSUME NEW P, Pool(P)
  PROVE  /\ head = Nil <=> P = {}
         /\ head # Nil => head \in P
BY PoolLinked, PoolAssumption, LinkedFirst DEF Pool

\* pk11_get_session takes one session out of the list.
LEMMA PoolTake ==
  ASSUME PoolTypeOK, NEW P, Pool(P), Take, NEW s, s = head
  PROVE  s \in P /\ Pool(P \ {s})' /\ PoolTypeOK'
<1>1. /\ s \in P /\ s \in Sessions /\ next \in [Sessions -> Sessions \cup {Nil}]
      /\ P \in SUBSET Sessions /\ IsFiniteSet(P) /\ Linked(P, s, next)
  BY PoolEmpty, PoolLinked DEF Pool, Take, PoolTypeOK
<1>2. s # Nil /\ head' = next[s] /\ next' = [next EXCEPT ![s] = Nil]
  BY DEF Take
<1>3. Linked(P \ {s}, next[s], [next EXCEPT ![s] = Nil])
  BY <1>1, <1>2, PoolAssumption, LinkedTake
<1>4. FreeList(P \ {s})'
  BY <1>2, <1>3, PoolLinked
<1>5. IsFiniteSet(P \ {s})
  BY <1>1, FS_RemoveElement
<1>6. PoolTypeOK'
  BY <1>1, <1>2 DEF PoolTypeOK
<1>7. QED BY <1>1, <1>4, <1>5, <1>6 DEF Pool

\* pk11_return_session puts one session into it that must not be there.
LEMMA PoolReturn ==
  ASSUME PoolTypeOK, NEW P, Pool(P), NEW s \in Sessions, s \notin P, Return(s)
  PROVE  Pool(P \cup {s})' /\ PoolTypeOK'
<1>1. /\ head \in Sessions \cup {Nil} /\ next \in [Sessions -> Sessions \cup {Nil}]
      /\ P \in SUBSET Sessions /\ IsFiniteSet(P) /\ Linked(P, head, next)
  BY PoolLinked DEF Pool, PoolTypeOK
<1>2. head' = s /\ next' = [next EXCEPT ![s] = head]
  BY DEF Return
<1>3. Linked(P \cup {s}, s, [next EXCEPT ![s] = head])
  BY <1>1, LinkedReturn
<1>4. FreeList(P \cup {s})'
  BY <1>2, <1>3, PoolLinked
<1>5. IsFiniteSet(P \cup {s})
  BY <1>1, FS_AddElement
<1>6. PoolTypeOK'
  BY <1>1, <1>2 DEF PoolTypeOK
<1>7. QED BY <1>1, <1>4, <1>5, <1>6 DEF Pool

\* Nothing else changes it.
LEMMA PoolSame ==
  ASSUME PoolTypeOK, NEW P, Pool(P), UNCHANGED poolVars
  PROVE  Pool(P)' /\ PoolTypeOK'
BY DEF Pool, FreeList, PoolTypeOK, poolVars

-----------------------------------------------------------------------------
(* Who has a session.                                                      *)

\* Sessions in the list and sessions that were never used have no operation,
\* nor has one that pk11_digest_init has only just got; contexts hold the others.
Placed(P) ==
  /\ P \subseteq open
  /\ \A s \in Sessions : s \in P \/ s \notin open => active[s] = Nil
  /\ \A c \in Ctxs : state[c] # Nil => state[c] \in open \ P
  /\ \A c \in Ctxs : local[c] # Nil => local[c] \in open \ P /\ state[c] = Nil /\ active[local[c]] = Nil

\* No session is in two contexts.
Apart ==
  \A c, d \in Ctxs :
    c # d => /\ state[c] # Nil => state[c] # state[d] /\ state[c] # local[d]
             /\ local[c] # Nil => local[c] # local[d]

\* A context that is copied has a session until the copy is complete.
Phases ==
  \A c \in Ctxs :
    /\ pc[c] = "idle" => from[c] = Nil
    /\ pc[c] = "copy" => state[c] # Nil /\ from[c] # Nil /\ data[c] = Nil
    /\ from[c] # Nil => state[from[c]] # Nil /\ pc[from[c]] = "idle"

\* A session is lost only with a context that is initialized while it has one.
Kept(P) ==
  ~InitAgain => \A s \in open \ P : \E c \in Ctxs : state[c] = s \/ local[c] = s

Good(P) == TypeOK /\ Placed(P) /\ Apart /\ Phases /\ DigestIntact /\ Kept(P)
DigestInv == \E P : Pool(P) /\ Good(P)

\* What a context holds is a session.
LEMMA NotNil ==
  ASSUME TypeOK, NEW c \in Ctxs
  PROVE  /\ state[c] # Nil => state[c] \in Sessions
         /\ local[c] # Nil => local[c] \in Sessions
BY DEF TypeOK

\* pk11_digest_init gets the first session of the list,
LEMMA InitTakes ==
  ASSUME DigestAssumption, NEW P, Pool(P), Good(P), NEW c \in Ctxs,
         NEW d \in Ctxs \cup {Nil},
         d # Nil => d # c /\ state[d] # Nil /\ pc[d] = "idle",
         Free(c),
         state[c] = Nil \/ InitAgain,
         state' = [state EXCEPT ![c] = Nil],
         data' = [data EXCEPT ![c] = Nil],
         UNCHANGED active,
         pc' = [pc EXCEPT ![c] = "init"],
         from' = [from EXCEPT ![c] = d],
         Take,
         local' = [local EXCEPT ![c] = head],
         UNCHANGED open
  PROVE  \E Q : Pool(Q)' /\ Good(Q)'
<1>. PICK s : s = head
  OBVIOUS
<1>b. PoolTypeOK
  BY DEF Good, TypeOK
<1>a. s \in P /\ s # Nil /\ s \in Sessions /\ local' = [local EXCEPT ![c] = s]
  BY <1>b, PoolTake, PoolAssumption DEF Pool, Take
<1> DEFINE Q == P \ {s}
<1>1. Pool(Q)' /\ PoolTypeOK'
  BY PoolTake, <1>b
<1>2. TypeOK /\ Placed(P) /\ Apart /\ Phases /\ DigestIntact /\ Kept(P)
  BY DEF Good
<1>3. TypeOK'
  BY <1>1, <1>2, DigestAssumption, <1>a DEF TypeOK, PoolTypeOK, Free, DigestAssumption
<1>4. Placed(Q)'
  BY <1>2, DigestAssumption, <1>a DEF TypeOK, Placed, Apart, Phases, Free, DigestAssumption
<1>5. Apart'
  BY <1>2, DigestAssumption, <1>a DEF TypeOK, Apart, Placed, Phases, Free, DigestAssumption
<1>6. Phases'
  BY <1>2, DigestAssumption, <1>a DEF TypeOK, Phases, Placed, Apart, DigestIntact, Free, DigestAssumption
<1>7. DigestIntact'
  BY <1>2, DigestAssumption, <1>a DEF TypeOK, DigestIntact, Placed, Apart, Phases, Free, DigestAssumption
<1>8. Kept(Q)'
  BY <1>2, DigestAssumption, <1>a DEF TypeOK, Kept, Placed, Phases, Free, DigestAssumption
<1>9. QED BY <1>1, <1>3, <1>4, <1>5, <1>6, <1>7, <1>8 DEF Good

\* or a new one if the list is empty,
LEMMA InitAllocates ==
  ASSUME DigestAssumption, NEW P, Pool(P), Good(P), NEW c \in Ctxs,
         NEW d \in Ctxs \cup {Nil},
         d # Nil => d # c /\ state[d] # Nil /\ pc[d] = "idle",
         Free(c),
         state[c] = Nil \/ InitAgain,
         state' = [state EXCEPT ![c] = Nil],
         data' = [data EXCEPT ![c] = Nil],
         UNCHANGED active,
         pc' = [pc EXCEPT ![c] = "init"],
         from' = [from EXCEPT ![c] = d],
         NEW s \in Sessions \ open,
         local' = [local EXCEPT ![c] = s],
         open' = open \cup {s},
         UNCHANGED poolVars
  PROVE  \E Q : Pool(Q)' /\ Good(Q)'
<1> DEFINE Q == P
<1>1. Pool(Q)' /\ PoolTypeOK'
  BY PoolSame DEF Good, TypeOK
<1>2. TypeOK /\ Placed(P) /\ Apart /\ Phases /\ DigestIntact /\ Kept(P)
  BY DEF Good
<1>3. TypeOK'
  BY <1>1, <1>2, DigestAssumption, PoolAssumption DEF TypeOK, PoolTypeOK, Free, DigestAssumption
<1>4. Placed(Q)'
  BY <1>2, DigestAssumption, PoolAssumption DEF TypeOK, Placed, Apart, Phases, Free, DigestAssumption
<1>5. Apart'
  BY <1>2, DigestAssumption, PoolAssumption DEF TypeOK, Apart, Placed, Phases, Free, DigestAssumption
<1>6. Phases'
  BY <1>2, DigestAssumption, PoolAssumption DEF TypeOK, Phases, Placed, Apart, DigestIntact, Free, DigestAssumption
<1>7. DigestIntact'
  BY <1>2, DigestAssumption, PoolAssumption DEF TypeOK, DigestIntact, Placed, Apart, Phases, Free, DigestAssumption
<1>8. Kept(Q)'
  BY <1>2, DigestAssumption, PoolAssumption DEF TypeOK, Kept, Placed, Phases, Free, DigestAssumption
<1>9. QED BY <1>1, <1>3, <1>4, <1>5, <1>6, <1>7, <1>8 DEF Good

\* or none.
LEMMA InitGetsNone ==
  ASSUME DigestAssumption, NEW P, Pool(P), Good(P), NEW c \in Ctxs,
         NEW d \in Ctxs \cup {Nil},
         d # Nil => d # c /\ state[d] # Nil /\ pc[d] = "idle",
         Free(c),
         state[c] = Nil \/ InitAgain,
         state' = [state EXCEPT ![c] = Nil],
         data' = [data EXCEPT ![c] = Nil],
         UNCHANGED active,
         UNCHANGED <<poolVars, open, local, pc, from>>
  PROVE  \E Q : Pool(Q)' /\ Good(Q)'
<1> DEFINE Q == P
<1>1. Pool(Q)' /\ PoolTypeOK'
  BY PoolSame DEF Good, TypeOK
<1>2. TypeOK /\ Placed(P) /\ Apart /\ Phases /\ DigestIntact /\ Kept(P)
  BY DEF Good
<1>3. TypeOK'
  BY <1>1, <1>2, DigestAssumption DEF TypeOK, PoolTypeOK, Free, DigestAssumption
<1>4. Placed(Q)'
  BY <1>2, DigestAssumption DEF TypeOK, Placed, Apart, Phases, Free, DigestAssumption
<1>5. Apart'
  BY <1>2, DigestAssumption DEF TypeOK, Apart, Placed, Phases, Free, DigestAssumption
<1>6. Phases'
  BY <1>2, DigestAssumption DEF TypeOK, Phases, Placed, Apart, DigestIntact, Free, DigestAssumption
<1>7. DigestIntact'
  BY <1>2, DigestAssumption DEF TypeOK, DigestIntact, Placed, Apart, Phases, Free, DigestAssumption
<1>8. Kept(Q)'
  BY <1>2, DigestAssumption DEF TypeOK, Kept, Placed, Phases, Free, DigestAssumption
<1>9. QED BY <1>1, <1>3, <1>4, <1>5, <1>6, <1>7, <1>8 DEF Good

\* C_DigestInit works: for the application,
LEMMA StartsWell ==
  ASSUME DigestAssumption, NEW P, Pool(P), Good(P), NEW c \in Ctxs,
         pc[c] = "init",
         active' = [active EXCEPT ![local[c]] = <<>>],
         state' = [state EXCEPT ![c] = local[c]],
         local' = [local EXCEPT ![c] = Nil],
         UNCHANGED <<poolVars, from, open>>,
         from[c] = Nil,
         data' = [data EXCEPT ![c] = <<>>],
         pc' = [pc EXCEPT ![c] = "idle"]
  PROVE  \E Q : Pool(Q)' /\ Good(Q)'
<1>. PICK s : s = local[c]
  OBVIOUS
<1>a. s \in Sessions /\ s # Nil /\ s = local[c] /\ <<>> \in Seq(Chunks)
  BY NotNil, PoolAssumption DEF Good, TypeOK
<1>c. active' = [active EXCEPT ![s] = <<>>] /\ state' = [state EXCEPT ![c] = s]
  OBVIOUS
<1> DEFINE Q == P
<1>1. Pool(Q)' /\ PoolTypeOK'
  BY PoolSame DEF Good, TypeOK
<1>2. TypeOK /\ Placed(P) /\ Apart /\ Phases /\ DigestIntact /\ Kept(P)
  BY DEF Good
<1>3. TypeOK'
  BY <1>1, <1>2, DigestAssumption, <1>a, <1>c DEF TypeOK, PoolTypeOK, DigestAssumption
<1>4. Placed(Q)'
  BY <1>2, DigestAssumption, <1>a, <1>c DEF TypeOK, Placed, Apart, Phases, DigestAssumption
<1>5. Apart'
  BY <1>2, DigestAssumption, <1>a, <1>c DEF TypeOK, Apart, Placed, Phases, DigestAssumption
<1>6. Phases'
  BY <1>2, DigestAssumption, <1>a, <1>c DEF TypeOK, Phases, Placed, Apart, DigestIntact, DigestAssumption
<1>7. DigestIntact'
  BY <1>2, DigestAssumption, <1>a, <1>c DEF TypeOK, DigestIntact, Placed, Apart, Phases, DigestAssumption
<1>8. Kept(Q)'
  BY <1>2, DigestAssumption, <1>a, <1>c DEF TypeOK, Kept, Placed, Phases, DigestAssumption
<1>9. QED BY <1>1, <1>3, <1>4, <1>5, <1>6, <1>7, <1>8 DEF Good

\* for a copy,
LEMMA StartsCopy ==
  ASSUME DigestAssumption, NEW P, Pool(P), Good(P), NEW c \in Ctxs,
         pc[c] = "init",
         active' = [active EXCEPT ![local[c]] = <<>>],
         state' = [state EXCEPT ![c] = local[c]],
         local' = [local EXCEPT ![c] = Nil],
         UNCHANGED <<poolVars, from, open>>,
         from[c] # Nil,
         UNCHANGED data,
         pc' = [pc EXCEPT ![c] = "copy"]
  PROVE  \E Q : Pool(Q)' /\ Good(Q)'
<1>. PICK s : s = local[c]
  OBVIOUS
<1>a. s \in Sessions /\ s # Nil /\ s = local[c] /\ <<>> \in Seq(Chunks)
  BY NotNil, PoolAssumption DEF Good, TypeOK
<1>c. active' = [active EXCEPT ![s] = <<>>] /\ state' = [state EXCEPT ![c] = s]
  OBVIOUS
<1> DEFINE Q == P
<1>1. Pool(Q)' /\ PoolTypeOK'
  BY PoolSame DEF Good, TypeOK
<1>2. TypeOK /\ Placed(P) /\ Apart /\ Phases /\ DigestIntact /\ Kept(P)
  BY DEF Good
<1>3. TypeOK'
  BY <1>1, <1>2, DigestAssumption, <1>a, <1>c DEF TypeOK, PoolTypeOK, DigestAssumption
<1>4. Placed(Q)'
  BY <1>2, DigestAssumption, <1>a, <1>c DEF TypeOK, Placed, Apart, Phases, DigestAssumption
<1>5. Apart'
  BY <1>2, DigestAssumption, <1>a, <1>c DEF TypeOK, Apart, Placed, Phases, DigestAssumption
<1>6. Phases'
  BY <1>2, DigestAssumption, <1>a, <1>c DEF TypeOK, Phases, Placed, Apart, DigestIntact, DigestAssumption
<1>7. DigestIntact'
  BY <1>2, DigestAssumption, <1>a, <1>c DEF TypeOK, DigestIntact, Placed, Apart, Phases, DigestAssumption
<1>8. Kept(Q)'
  BY <1>2, DigestAssumption, <1>a, <1>c DEF TypeOK, Kept, Placed, Phases, DigestAssumption
<1>9. QED BY <1>1, <1>3, <1>4, <1>5, <1>6, <1>7, <1>8 DEF Good

\* or it fails and the session goes back.
LEMMA StartsBadly ==
  ASSUME DigestAssumption, NEW P, Pool(P), Good(P), NEW c \in Ctxs,
         pc[c] = "init",
         StartFails(c),
         local' = [local EXCEPT ![c] = Nil],
         UNCHANGED open
  PROVE  \E Q : Pool(Q)' /\ Good(Q)'
<1>. PICK s : s = local[c]
  OBVIOUS
<1>a. s \in Sessions /\ s \notin P /\ s # Nil /\ Return(s) /\ PoolTypeOK
  BY NotNil DEF Good, TypeOK, Placed, StartFails
<1>c. s = local[c]
  OBVIOUS
<1> DEFINE Q == P \cup {s}
<1>1. Pool(Q)' /\ PoolTypeOK'
  BY PoolReturn, <1>a
<1>2. TypeOK /\ Placed(P) /\ Apart /\ Phases /\ DigestIntact /\ Kept(P)
  BY DEF Good
<1>3. TypeOK'
  BY <1>1, <1>2, DigestAssumption, <1>a, <1>c DEF TypeOK, PoolTypeOK, StartFails, DigestAssumption
<1>4. Placed(Q)'
  BY <1>2, DigestAssumption, <1>a, <1>c DEF TypeOK, Placed, Apart, Phases, StartFails, DigestAssumption
<1>5. Apart'
  BY <1>2, DigestAssumption, <1>a, <1>c DEF TypeOK, Apart, Placed, Phases, StartFails, DigestAssumption
<1>6. Phases'
  BY <1>2, DigestAssumption, <1>a, <1>c DEF TypeOK, Phases, Placed, Apart, DigestIntact, StartFails, DigestAssumption
<1>7. DigestIntact'
  BY <1>2, DigestAssumption, <1>a, <1>c DEF TypeOK, DigestIntact, Placed, Apart, Phases, StartFails, DigestAssumption
<1>8. Kept(Q)'
  BY <1>2, DigestAssumption, <1>a, <1>c DEF TypeOK, Kept, Placed, Phases, StartFails, DigestAssumption
<1>9. QED BY <1>1, <1>3, <1>4, <1>5, <1>6, <1>7, <1>8 DEF Good

\* C_SetOperationState gives the session the data of another one,
LEMMA StateCopied ==
  ASSUME DigestAssumption, NEW P, Pool(P), Good(P), NEW c \in Ctxs,
         pc[c] = "copy",
         active[state[from[c]]] # Nil,
         SetState(c),
         pc' = [pc EXCEPT ![c] = "idle"],
         from' = [from EXCEPT ![c] = Nil],
         UNCHANGED <<poolVars, open, state, local>>
  PROVE  \E Q : Pool(Q)' /\ Good(Q)'
<1>. PICK x : x = active[state[from[c]]]
  OBVIOUS
<1>. PICK y : y = data[from[c]]
  OBVIOUS
<1>a. /\ from[c] \in Ctxs /\ state[c] \in Sessions /\ x \in Seq(Chunks) \cup {Nil} /\ y \in Seq(Chunks) \cup {Nil}
      /\ y # Nil => x = y
  BY NotNil DEF Good, TypeOK, Phases, DigestIntact
<1>c. active' = [active EXCEPT ![state[c]] = x] /\ data' = [data EXCEPT ![c] = y]
  BY DEF SetState
<1> DEFINE Q == P
<1>1. Pool(Q)' /\ PoolTypeOK'
  BY PoolSame DEF Good, TypeOK
<1>2. TypeOK /\ Placed(P) /\ Apart /\ Phases /\ DigestIntact /\ Kept(P)
  BY DEF Good
<1>3. TypeOK'
  BY <1>1, <1>2, DigestAssumption, <1>a, <1>c DEF TypeOK, PoolTypeOK, DigestAssumption
<1>4. Placed(Q)'
  BY <1>2, DigestAssumption, <1>a, <1>c DEF TypeOK, Placed, Apart, Phases, DigestAssumption
<1>5. Apart'
  BY <1>2, DigestAssumption, <1>a, <1>c DEF TypeOK, Apart, Placed, Phases, DigestAssumption
<1>6. Phases'
  BY <1>2, DigestAssumption, <1>a, <1>c DEF TypeOK, Phases, Placed, Apart, DigestIntact, DigestAssumption
<1>7. DigestIntact'
  BY <1>2, DigestAssumption, <1>a, <1>c DEF TypeOK, DigestIntact, Placed, Apart, Phases, DigestAssumption
<1>8. Kept(Q)'
  BY <1>2, DigestAssumption, <1>a, <1>c DEF TypeOK, Kept, Placed, Phases, DigestAssumption
<1>9. QED BY <1>1, <1>3, <1>4, <1>5, <1>6, <1>7, <1>8 DEF Good

\* or not.
LEMMA StateNotCopied ==
  ASSUME DigestAssumption, NEW P, Pool(P), Good(P), NEW c \in Ctxs,
         pc[c] = "copy",
         UNCHANGED <<active, data>>,
         pc' = [pc EXCEPT ![c] = "idle"],
         from' = [from EXCEPT ![c] = Nil],
         UNCHANGED <<poolVars, open, state, local>>
  PROVE  \E Q : Pool(Q)' /\ Good(Q)'
<1> DEFINE Q == P
<1>1. Pool(Q)' /\ PoolTypeOK'
  BY PoolSame DEF Good, TypeOK
<1>2. TypeOK /\ Placed(P) /\ Apart /\ Phases /\ DigestIntact /\ Kept(P)
  BY DEF Good
<1>3. TypeOK'
  BY <1>1, <1>2, DigestAssumption, NotNil DEF TypeOK, PoolTypeOK, DigestAssumption
<1>4. Placed(Q)'
  BY <1>2, DigestAssumption, NotNil DEF TypeOK, Placed, Apart, Phases, DigestAssumption
<1>5. Apart'
  BY <1>2, DigestAssumption, NotNil DEF TypeOK, Apart, Placed, Phases, DigestAssumption
<1>6. Phases'
  BY <1>2, DigestAssumption, NotNil DEF TypeOK, Phases, Placed, Apart, DigestIntact, DigestAssumption
<1>7. DigestIntact'
  BY <1>2, DigestAssumption, NotNil DEF TypeOK, DigestIntact, Placed, Apart, Phases, DigestAssumption
<1>8. Kept(Q)'
  BY <1>2, DigestAssumption, NotNil DEF TypeOK, Kept, Placed, Phases, DigestAssumption
<1>9. QED BY <1>1, <1>3, <1>4, <1>5, <1>6, <1>7, <1>8 DEF Good

\* The operation ends and the session goes back.
LEMMA Ended ==
  ASSUME DigestAssumption, NEW P, Pool(P), Good(P), NEW c \in Ctxs,
         Free(c),
         state[c] # Nil,
         GiveUp(c),
         UNCHANGED <<open, pc, local, from>>
  PROVE  \E Q : Pool(Q)' /\ Good(Q)'
<1>. PICK s : s = state[c]
  OBVIOUS
<1>a. s \in Sessions /\ s \notin P /\ s # Nil /\ Return(s) /\ PoolTypeOK
  BY NotNil DEF Good, TypeOK, Placed, GiveUp
<1>c. s = state[c] /\ local[c] = Nil
  BY DEF Good, TypeOK, Free
<1> DEFINE Q == P \cup {s}
<1>1. Pool(Q)' /\ PoolTypeOK'
  BY PoolReturn, <1>a
<1>2. TypeOK /\ Placed(P) /\ Apart /\ Phases /\ DigestIntact /\ Kept(P)
  BY DEF Good
<1>3. TypeOK'
  BY <1>1, <1>2, DigestAssumption, <1>a, <1>c DEF TypeOK, PoolTypeOK, Free, GiveUp, DigestAssumption
<1>4. Placed(Q)'
  BY <1>2, DigestAssumption, <1>a, <1>c DEF TypeOK, Placed, Apart, Phases, Free, GiveUp, DigestAssumption
<1>5. Apart'
  BY <1>2, DigestAssumption, <1>a, <1>c DEF TypeOK, Apart, Placed, Phases, Free, GiveUp, DigestAssumption
<1>6. Phases'
  BY <1>2, DigestAssumption, <1>a, <1>c DEF TypeOK, Phases, Placed, Apart, DigestIntact, Free, GiveUp, DigestAssumption
<1>7. DigestIntact'
  BY <1>2, DigestAssumption, <1>a, <1>c DEF TypeOK, DigestIntact, Placed, Apart, Phases, Free, GiveUp, DigestAssumption
<1>8. Kept(Q)'
  BY <1>2, DigestAssumption, <1>a, <1>c DEF TypeOK, Kept, Placed, Phases, Free, GiveUp, DigestAssumption
<1>9. QED BY <1>1, <1>3, <1>4, <1>5, <1>6, <1>7, <1>8 DEF Good

\* An update adds to the data in the session.
LEMMA Updated ==
  ASSUME DigestAssumption, NEW P, Pool(P), Good(P), NEW c \in Ctxs,
         Free(c),
         NEW x \in Chunks,
         active[state[c]] # Nil,
         state[c] # Nil,
         active' = [active EXCEPT ![state[c]] = Append(@, x)],
         data' = [data EXCEPT ![c] = IF @ = Nil THEN Nil ELSE Append(@, x)],
         UNCHANGED <<poolVars, state, open, pc, local, from>>
  PROVE  \E Q : Pool(Q)' /\ Good(Q)'
<1> DEFINE Q == P
<1>1. Pool(Q)' /\ PoolTypeOK'
  BY PoolSame DEF Good, TypeOK
<1>2. TypeOK /\ Placed(P) /\ Apart /\ Phases /\ DigestIntact /\ Kept(P)
  BY DEF Good
<1>3. TypeOK'
  BY <1>1, <1>2, DigestAssumption, NotNil DEF TypeOK, PoolTypeOK, Free, DigestAssumption
<1>4. Placed(Q)'
  BY <1>2, DigestAssumption, NotNil DEF TypeOK, Placed, Apart, Phases, Free, DigestAssumption
<1>5. Apart'
  BY <1>2, DigestAssumption, NotNil DEF TypeOK, Apart, Placed, Phases, Free, DigestAssumption
<1>6. Phases'
  BY <1>2, DigestAssumption, NotNil DEF TypeOK, Phases, Placed, Apart, DigestIntact, Free, DigestAssumption
<1>7. DigestIntact'
  BY <1>2, DigestAssumption, NotNil DEF TypeOK, DigestIntact, Placed, Apart, Phases, Free, DigestAssumption
<1>8. Kept(Q)'
  BY <1>2, DigestAssumption, NotNil DEF TypeOK, Kept, Placed, Phases, Free, DigestAssumption
<1>9. QED BY <1>1, <1>3, <1>4, <1>5, <1>6, <1>7, <1>8 DEF Good

\* A digest of an unexpected size leaves the session with the context.
LEMMA HalfEnded ==
  ASSUME DigestAssumption, NEW P, Pool(P), Good(P), NEW c \in Ctxs,
         Free(c),
         state[c] # Nil,
         active' = [active EXCEPT ![state[c]] = Nil],
         data' = [data EXCEPT ![c] = Nil],
         UNCHANGED <<poolVars, state, open, pc, local, from>>
  PROVE  \E Q : Pool(Q)' /\ Good(Q)'
<1> DEFINE Q == P
<1>1. Pool(Q)' /\ PoolTypeOK'
  BY PoolSame DEF Good, TypeOK
<1>2. TypeOK /\ Placed(P) /\ Apart /\ Phases /\ DigestIntact /\ Kept(P)
  BY DEF Good
<1>3. TypeOK'
  BY <1>1, <1>2, DigestAssumption, NotNil DEF TypeOK, PoolTypeOK, Free, DigestAssumption
<1>4. Placed(Q)'
  BY <1>2, DigestAssumption, NotNil DEF TypeOK, Placed, Apart, Phases, Free, DigestAssumption
<1>5. Apart'
  BY <1>2, DigestAssumption, NotNil DEF TypeOK, Apart, Placed, Phases, Free, DigestAssumption
<1>6. Phases'
  BY <1>2, DigestAssumption, NotNil DEF TypeOK, Phases, Placed, Apart, DigestIntact, Free, DigestAssumption
<1>7. DigestIntact'
  BY <1>2, DigestAssumption, NotNil DEF TypeOK, DigestIntact, Placed, Apart, Phases, Free, DigestAssumption
<1>8. Kept(Q)'
  BY <1>2, DigestAssumption, NotNil DEF TypeOK, Kept, Placed, Phases, Free, DigestAssumption
<1>9. QED BY <1>1, <1>3, <1>4, <1>5, <1>6, <1>7, <1>8 DEF Good

\* A copy of a context that has no session.
LEMMA Forgotten ==
  ASSUME DigestAssumption, NEW P, Pool(P), Good(P), NEW c \in Ctxs,
         data' = [data EXCEPT ![c] = Nil],
         state[c] = Nil,
         UNCHANGED <<poolVars, open, active, state, pc, local, from>>
  PROVE  \E Q : Pool(Q)' /\ Good(Q)'
<1> DEFINE Q == P
<1>1. Pool(Q)' /\ PoolTypeOK'
  BY PoolSame DEF Good, TypeOK
<1>2. TypeOK /\ Placed(P) /\ Apart /\ Phases /\ DigestIntact /\ Kept(P)
  BY DEF Good
<1>3. TypeOK'
  BY <1>1, <1>2, DigestAssumption DEF TypeOK, PoolTypeOK, DigestAssumption
<1>4. Placed(Q)'
  BY <1>2, DigestAssumption DEF TypeOK, Placed, Apart, Phases, DigestAssumption
<1>5. Apart'
  BY <1>2, DigestAssumption DEF TypeOK, Apart, Placed, Phases, DigestAssumption
<1>6. Phases'
  BY <1>2, DigestAssumption DEF TypeOK, Phases, Placed, Apart, DigestIntact, DigestAssumption
<1>7. DigestIntact'
  BY <1>2, DigestAssumption DEF TypeOK, DigestIntact, Placed, Apart, Phases, DigestAssumption
<1>8. Kept(Q)'
  BY <1>2, DigestAssumption DEF TypeOK, Kept, Placed, Phases, DigestAssumption
<1>9. QED BY <1>1, <1>3, <1>4, <1>5, <1>6, <1>7, <1>8 DEF Good


-----------------------------------------------------------------------------
(* The steps and the theorems. *)

LEMMA InitDigestKeeps ==
  ASSUME DigestAssumption, NEW P, Pool(P), Good(P), NEW c \in Ctxs,
         NEW d \in Ctxs \cup {Nil},
         d # Nil => d # c /\ state[d] # Nil /\ pc[d] = "idle",
         Free(c), state[c] = Nil \/ InitAgain, InitDigest(c, d)
  PROVE  DigestInv'
<1>1. CASE Take /\ local' = [local EXCEPT ![c] = head] /\ UNCHANGED open
             /\ pc' = [pc EXCEPT ![c] = "init"] /\ from' = [from EXCEPT ![c] = d]
  BY <1>1, InitTakes DEF InitDigest, DigestInv
<1>2. ASSUME NEW s \in Sessions \ open, local' = [local EXCEPT ![c] = s], open' = open \cup {s},
             UNCHANGED poolVars, pc' = [pc EXCEPT ![c] = "init"], from' = [from EXCEPT ![c] = d]
      PROVE  DigestInv'
  BY <1>2, InitAllocates DEF InitDigest, DigestInv
<1>3. CASE UNCHANGED <<poolVars, open, local, pc, from>>
  BY <1>3, InitGetsNone DEF InitDigest, DigestInv
<1>4. QED BY <1>1, <1>2, <1>3 DEF InitDigest, GetSession

LEMMA StartKeeps ==
  ASSUME DigestAssumption, NEW P, Pool(P), Good(P), NEW c \in Ctxs, Start(c)
  PROVE  DigestInv'
<1>1. CASE StartWorks(c) /\ from[c] = Nil
  BY <1>1, StartsWell DEF Start, StartWorks, DigestInv
<1>2. CASE StartWorks(c) /\ from[c] # Nil
  BY <1>2, StartsCopy DEF Start, StartWorks, DigestInv
<1>3. CASE StartFails(c)
  BY <1>3, StartsBadly DEF Start, DigestInv
<1>4. QED BY <1>1, <1>2, <1>3 DEF Start

\* Every step of the digests keeps each session where it belongs.
LEMMA DigestInvInductive ==
  DigestAssumption => (DigestInv /\ [Next]_vars => DigestInv')
<1> SUFFICES ASSUME DigestAssumption, NEW P, Pool(P), Good(P), [Next]_vars PROVE DigestInv'
  BY DEF DigestInv
<1>1. ASSUME NEW c \in Ctxs, DigestInit(c) PROVE DigestInv'
  BY <1>1, InitDigestKeeps DEF DigestInit
<1>2. ASSUME NEW c \in Ctxs, Start(c) PROVE DigestInv'
  BY <1>2, StartKeeps
<1>3. ASSUME NEW c \in Ctxs, CopyState(c) PROVE DigestInv'
  <2>1. CASE active[state[from[c]]] # Nil /\ SetState(c)
    BY <1>3, <2>1, StateCopied DEF CopyState, DigestInv
  <2>2. CASE UNCHANGED <<active, data>>
    BY <1>3, <2>2, StateNotCopied DEF CopyState, DigestInv
  <2>3. QED BY <1>3, <2>1, <2>2 DEF CopyState
<1>4. ASSUME NEW c \in Ctxs, DigestFinal(c) PROVE DigestInv'
  <2>1. CASE GiveUp(c)
    BY <1>4, <2>1, Ended DEF DigestFinal, DigestInv
  <2>2. CASE /\ active' = [active EXCEPT ![state[c]] = Nil]
             /\ data' = [data EXCEPT ![c] = Nil] /\ UNCHANGED <<poolVars, state>>
    BY <1>4, <2>2, HalfEnded DEF DigestFinal, DigestInv
  <2>3. QED BY <1>4, <2>1, <2>2 DEF DigestFinal
<1>5. ASSUME NEW c \in Ctxs, NEW x \in Chunks, DigestUpdate(c, x) PROVE DigestInv'
  <2>1. CASE /\ active[state[c]] # Nil
             /\ active' = [active EXCEPT ![state[c]] = Append(@, x)]
             /\ data' = [data EXCEPT ![c] = IF @ = Nil THEN Nil ELSE Append(@, x)]
             /\ UNCHANGED <<poolVars, state>>
    BY <1>5, <2>1, Updated DEF DigestUpdate, DigestInv
  <2>2. CASE GiveUp(c)
    BY <1>5, <2>2, Ended DEF DigestUpdate, DigestInv
  <2>3. QED BY <1>5, <2>1, <2>2 DEF DigestUpdate
<1>6. ASSUME NEW c \in Ctxs, NEW d \in Ctxs, DigestCopy(c, d) PROVE DigestInv'
  <2>1. CASE state[d] = Nil
    BY <1>6, <2>1, Forgotten DEF DigestCopy, DigestInv
  <2>2. CASE state[d] # Nil
    BY <1>6, <2>2, InitDigestKeeps DEF DigestCopy
  <2>3. QED BY <2>1, <2>2
<1>7. CASE UNCHANGED vars
  <2>1. Pool(P)' /\ PoolTypeOK'
    BY <1>7, PoolSame DEF vars, Good, TypeOK
  <2>2. Good(P)'
    BY <1>7, <2>1 DEF vars, poolVars, Good, TypeOK, Placed, Apart, Phases, DigestIntact, Kept
  <2>3. QED BY <2>1, <2>2 DEF DigestInv
<1>8. QED BY <1>1, <1>2, <1>3, <1>4, <1>5, <1>6, <1>7 DEF Next

LEMMA DigestInvInit == DigestAssumption => (Init => DigestInv)
<1> SUFFICES ASSUME DigestAssumption, Init PROVE DigestInv
  OBVIOUS
<1>1. Pool({}) /\ PoolTypeOK
  BY PoolStarts DEF Init
<1>2. Good({})
  BY <1>1 DEF Good, Init, TypeOK, Placed, Apart, Phases, DigestIntact, Kept
<1>3. QED BY <1>1, <1>2 DEF DigestInv

\* The type invariant, for all contexts, sessions and data.
THEOREM DigestTypeCorrect ==
  ASSUME DigestAssumption
  PROVE  Spec => []TypeOK
<1>1. DigestInv => TypeOK
  BY DEF DigestInv, Good
<1>2. QED BY <1>1, DigestInvInit, DigestInvInductive, PTL DEF Spec

\* pk11_digest_init, _update and _copy: as long as its calls succeed, a context
\* has a session whose operation holds exactly what it was fed, also when the
\* application initializes a context again that has a session.
THEOREM DigestsAreIntact ==
  ASSUME DigestAssumption
  PROVE  Spec => []DigestIntact
<1>1. DigestInv => DigestIntact
  BY DEF DigestInv, Good
<1>2. QED BY <1>1, DigestInvInit, DigestInvInductive, PTL DEF Spec

\* pk11_digest_final and pk11_digest_cleanup: as long as no context is
\* initialized while it has a session, every session is in the free list, once
\* and idle, or with one context.
THEOREM DigestSessionsKept ==
  ASSUME DigestAssumption, ~InitAgain
  PROVE  Spec => []SessionsKept
<1>1. DigestInv => SessionsKept
  <2> SUFFICES ASSUME NEW P, Pool(P), Good(P) PROVE SessionsKept
    BY DEF DigestInv
  <2>1. P = Idle
    <3>1. P \subseteq Idle
      BY PoolAssumption DEF Good, Placed, Idle, Holders, Pool
    <3>2. Idle \subseteq P
      BY DEF Good, Kept, Idle, Holders
    <3>3. QED BY <3>1, <3>2
  <2>2. \A s \in Idle : active[s] = Nil
    BY <2>1 DEF Good, Placed, Pool
  <2>3. \A s \in Sessions : \A c, d \in Holders(s) : c = d
    BY PoolAssumption DEF Good, Apart, Holders
  <2>4. QED BY <2>1, <2>2, <2>3 DEF SessionsKept, Pool
<1>2. QED BY <1>1, DigestInvInit, DigestInvInductive, PTL DEF Spec

=============================================================================
