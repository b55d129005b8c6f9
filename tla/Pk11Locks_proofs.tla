-------------------------- MODULE Pk11Locks_proofs --------------------------
(***************************************************************************)
(* Which threads can wait for one another for the engine's mutexes, for    *)
(* any number of threads and operation types.                              *)
(*                                                                         *)
(* The rest of a thread's call tells which mutexes it holds: those it      *)
(* unlocks before it locks them again.  Two entry points take a mutex      *)
(* while they hold another one: fork, in the order of pk11_fork_prepare,   *)
(* and pk11_get_session in a new process, a find lock or uri_lock under    *)
(* the lock of a session cache.  Where no thread does the latter, the one  *)
(* that holds the highest mutex anyone waits for is not itself waiting;    *)
(* where none forks, nobody waits for the lock of a session cache.         *)
(***************************************************************************)
EXTENDS Pk11Locks, SequenceTheorems, NaturalsInduction, WellFoundedInduction, TLAPS

\* The entry points that lock no mutex twice.
PairedCalls == AllCalls \ {"caching", "askpass"}

LenF == Len(FindTypes)
LenS == Len(SessionTypes)
LenM == LenF + 1 + LenS

\* The mutexes in the order pk11_fork_prepare locks and pk11_fork_parent and
\* pk11_fork_child unlock them.
Order ==
  [i \in 1..LenM |->
     IF i <= LenF THEN Find(FindTypes[i])
       ELSE IF i = LenF + 1 THEN Uri ELSE Session(SessionTypes[i - LenF - 1])]
Freed ==
  [i \in 1..LenM |->
     IF i <= LenS THEN Session(SessionTypes[LenS - i + 1])
       ELSE IF i = LenM THEN Uri ELSE Find(FindTypes[LenF + LenS - i + 1])]

Rank(m) == CHOOSE i \in 1..LenM : Order[i] = m

LEMMA Types ==
  /\ LenF \in Nat /\ DOMAIN FindTypes = 1..LenF
  /\ LenS \in Nat /\ DOMAIN SessionTypes = 1..LenS
  /\ LenM \in Nat
  /\ \A i, j \in 1..LenF : FindTypes[i] = FindTypes[j] => i = j
  /\ \A i, j \in 1..LenS : SessionTypes[i] = SessionTypes[j] => i = j
<1>1. LenF \in Nat /\ DOMAIN FindTypes = 1..LenF
  BY LocksAssumption DEF LenF
<1>2. LenS \in Nat /\ DOMAIN SessionTypes = 1..LenS
  BY LocksAssumption DEF LenS
<1>3. QED BY <1>1, <1>2, LocksAssumption DEF LenM, IsInjective

\* Every mutex has one place in the order.
LEMMA OrderFacts ==
  /\ \A i \in 1..LenM : Order[i] \in Mutexes
  /\ \A i, j \in 1..LenM : Order[i] = Order[j] => i = j
  /\ \A m \in Mutexes : \E i \in 1..LenM : Order[i] = m
<1> USE Types DEF Order, LenM
<1>1. \A i \in 1..LenM : Order[i] \in Mutexes
  BY DEF Mutexes, ToSet
<1>2. \A i, j \in 1..LenM : Order[i] = Order[j] => i = j
  BY DEF Find, Session, Uri
<1>3. ASSUME NEW m \in Mutexes PROVE \E i \in 1..LenM : Order[i] = m
  <2>1. CASE m = Uri
    BY <2>1
  <2>2. ASSUME NEW k \in 1..LenF, m = Find(FindTypes[k]) PROVE Order[k] = m /\ k \in 1..LenM
    BY <2>2
  <2>3. ASSUME NEW k \in 1..LenS, m = Session(SessionTypes[k])
        PROVE  Order[LenF + 1 + k] = m /\ LenF + 1 + k \in 1..LenM
    BY <2>3
  <2>4. \/ m = Uri
        \/ \E k \in 1..LenF : m = Find(FindTypes[k])
        \/ \E k \in 1..LenS : m = Session(SessionTypes[k])
    BY DEF Mutexes, ToSet
  <2> HIDE DEF Order, LenM
  <2>5. QED BY <2>1, <2>2, <2>3, <2>4
<1>4. QED BY <1>1, <1>2, <1>3

\* So it has one in the order of the unlocks: session caches from the last to
\* the first, find locks from the last to the first, uri_lock.
Back(i) ==
  IF i <= LenS THEN LenM - i + 1
    ELSE IF i = LenM THEN LenF + 1 ELSE LenF + LenS - i + 1

LEMMA FreedFacts ==
  /\ \A i \in 1..LenM : Freed[i] \in Mutexes
  /\ \A i, j \in 1..LenM : Freed[i] = Freed[j] => i = j
  /\ \A m \in Mutexes : \E i \in 1..LenM : Freed[i] = m
<1>1. /\ \A i \in 1..LenM : Back(i) \in 1..LenM
      /\ \A i, j \in 1..LenM : Back(i) = Back(j) => i = j
  BY Types DEF Back, LenM
<1>2. ASSUME NEW k \in 1..LenM PROVE \E i \in 1..LenM : Back(i) = k
  <2>1. CASE k <= LenF
    <3>1. LenF + LenS - k + 1 \in 1..LenM /\ Back(LenF + LenS - k + 1) = k
      BY <2>1, Types DEF Back, LenM
    <3>2. QED BY <3>1
  <2>2. CASE k = LenF + 1
    <3>1. LenM \in 1..LenM /\ Back(LenM) = k
      BY <2>2, Types DEF Back, LenM
    <3>2. QED BY <3>1
  <2>3. CASE k > LenF + 1
    <3>1. LenM - k + 1 \in 1..LenM /\ Back(LenM - k + 1) = k
      BY <2>3, Types DEF Back, LenM
    <3>2. QED BY <3>1
  <2>4. QED BY <2>1, <2>2, <2>3, Types
<1>3. \A i \in 1..LenM : Freed[i] = Order[Back(i)]
  BY <1>1, Types DEF Freed, Order, Back, LenM
<1>4. QED BY <1>1, <1>2, <1>3, OrderFacts

LEMMA RankFacts ==
  /\ \A m \in Mutexes : Rank(m) \in 1..LenM
  /\ \A i \in 1..LenM : Rank(Order[i]) = i
<1>1. \A m \in Mutexes : Rank(m) \in 1..LenM /\ Order[Rank(m)] = m
  BY OrderFacts DEF Rank
<1>2. QED BY <1>1, OrderFacts

-----------------------------------------------------------------------------
(* What the rest of a call says about the mutexes. *)

\* From its i-th operation on, call q unlocks m before it locks m.
HeldFrom(q, i, m) ==
  \E j \in i..Len(q) : q[j] = Unlock(m) /\ \A k \in i..(j - 1) : q[k] # Lock(m)

\* The i-th operation takes a mutex, returns one for good (until the next
\* lock), or forks with all of them.
Takes(q, i, m) == q[i] = Lock(m) /\ HeldFrom(q, i + 1, m)
Returns(q, i, m) == q[i] = Unlock(m) /\ ~HeldFrom(q, i + 1, m)
ForksHere(q, i) == q[i] = ForkPoint[1] /\ \A m \in Mutexes : HeldFrom(q, i, m)
Ordered(q) ==
  /\ q \in Seq([op : {"lock", "unlock", "fork"}, m : Mutexes])
  /\ \A i \in 1..Len(q) :
       \/ ForksHere(q, i)
       \/ \E m \in Mutexes : Takes(q, i, m) \/ Returns(q, i, m)

\* Call k takes m while it holds n.
IsSession(m) == \E ty \in ToSet(SessionTypes) : m = Session(ty)
Nests(k, n, m) ==
  \/ k = "fork" /\ Rank(n) < Rank(m)
  \/ k = "forked" /\ IsSession(n) /\ ~IsSession(m)
Keeps(k, q) ==
  \A i \in 1..Len(q) : \A m, n \in Mutexes :
    q[i] = Lock(m) /\ HeldFrom(q, i, n) => Nests(k, n, m)

LEMMA HeldTail ==
  ASSUME NEW S, NEW q \in Seq(S), q # <<>>, NEW i \in Nat \ {0}, NEW m
  PROVE  HeldFrom(Tail(q), i, m) <=> HeldFrom(q, i + 1, m)
<1>1. /\ Len(Tail(q)) = Len(q) - 1 /\ Len(q) \in Nat \ {0}
      /\ \A j \in 1..Len(Tail(q)) : Tail(q)[j] = q[j + 1]
  OBVIOUS
<1>2. ASSUME HeldFrom(Tail(q), i, m) PROVE HeldFrom(q, i + 1, m)
  <2>1. PICK j \in i..Len(Tail(q)) :
          Tail(q)[j] = Unlock(m) /\ \A k \in i..(j - 1) : Tail(q)[k] # Lock(m)
    BY <1>2 DEF HeldFrom
  <2>2. j + 1 \in (i + 1)..Len(q) /\ q[j + 1] = Unlock(m)
    BY <1>1, <2>1
  <2>3. ASSUME NEW k \in (i + 1)..j PROVE q[k] # Lock(m)
    <3>1. k - 1 \in i..(j - 1) /\ k - 1 \in 1..Len(Tail(q)) /\ (k - 1) + 1 = k
      BY <1>1
    <3>2. QED BY <1>1, <2>1, <3>1
  <2>4. QED BY <2>2, <2>3 DEF HeldFrom
<1>3. ASSUME HeldFrom(q, i + 1, m) PROVE HeldFrom(Tail(q), i, m)
  <2>1. PICK j \in (i + 1)..Len(q) :
          q[j] = Unlock(m) /\ \A k \in (i + 1)..(j - 1) : q[k] # Lock(m)
    BY <1>3 DEF HeldFrom
  <2>2. j - 1 \in i..Len(Tail(q)) /\ j - 1 \in 1..Len(Tail(q)) /\ (j - 1) + 1 = j
    BY <1>1
  <2>3. Tail(q)[j - 1] = Unlock(m)
    BY <1>1, <2>1, <2>2
  <2>4. ASSUME NEW k \in i..((j - 1) - 1) PROVE Tail(q)[k] # Lock(m)
    <3>1. k + 1 \in (i + 1)..(j - 1) /\ k \in 1..Len(Tail(q))
      BY <1>1
    <3>2. QED BY <1>1, <2>1, <3>1
  <2>5. QED BY <2>2, <2>3, <2>4 DEF HeldFrom
<1>4. QED BY <1>2, <1>3

\* What is left of a call stays in order.
LEMMA OrderedTail ==
  ASSUME NEW q, Ordered(q), q # <<>>
  PROVE  Ordered(Tail(q))
<1>1. /\ Tail(q) \in Seq([op : {"lock", "unlock", "fork"}, m : Mutexes])
      /\ Len(Tail(q)) = Len(q) - 1 /\ Len(q) \in Nat \ {0}
      /\ \A j \in 1..Len(Tail(q)) : Tail(q)[j] = q[j + 1]
  BY DEF Ordered
<1>2. \A i \in Nat \ {0} : \A m : HeldFrom(Tail(q), i, m) <=> HeldFrom(q, i + 1, m)
  BY HeldTail DEF Ordered
<1>3. ASSUME NEW i \in 1..Len(Tail(q))
      PROVE  \/ ForksHere(Tail(q), i)
             \/ \E m \in Mutexes : Takes(Tail(q), i, m) \/ Returns(Tail(q), i, m)
  <2>1. i + 1 \in 1..Len(q) /\ i \in Nat \ {0} /\ i + 1 \in Nat \ {0} /\ Tail(q)[i] = q[i + 1]
    BY <1>1
  <2>2. \/ ForksHere(q, i + 1)
        \/ \E m \in Mutexes : Takes(q, i + 1, m) \/ Returns(q, i + 1, m)
    BY <2>1 DEF Ordered
  <2>3. QED BY <1>2, <2>1, <2>2 DEF ForksHere, Takes, Returns
<1>4. QED BY <1>1, <1>3 DEF Ordered

\* And takes what is left to take in order.
LEMMA KeepsTail ==
  ASSUME NEW k, NEW q, Ordered(q), q # <<>>, Keeps(k, q)
  PROVE  Keeps(k, Tail(q))
<1>1. /\ Len(Tail(q)) = Len(q) - 1 /\ Len(q) \in Nat \ {0}
      /\ \A j \in 1..Len(Tail(q)) : Tail(q)[j] = q[j + 1]
  BY DEF Ordered
<1>2. \A i \in Nat \ {0} : \A m : HeldFrom(Tail(q), i, m) <=> HeldFrom(q, i + 1, m)
  BY HeldTail DEF Ordered
<1>3. \A i \in 1..Len(Tail(q)) : i \in Nat \ {0} /\ i + 1 \in 1..Len(q)
  BY <1>1
<1>4. QED BY <1>1, <1>2, <1>3 DEF Keeps

-----------------------------------------------------------------------------
(* The entry points keep the order. *)

Fresh(k, q) == Ordered(q) /\ Keeps(k, q) /\ \A m \in Mutexes : ~HeldFrom(q, 1, m)

\* Sequence g is a, then b, then c.
IsJoin(g, a, b, c) ==
  /\ Len(g) = Len(a) + Len(b) + Len(c)
  /\ \A i \in 1..Len(a) : g[i] = a[i]
  /\ \A i \in 1..Len(b) : g[Len(a) + i] = b[i]
  /\ \A i \in 1..Len(c) : g[Len(a) + Len(b) + i] = c[i]

LEMMA Joined ==
  ASSUME NEW S, NEW a \in Seq(S), NEW b \in Seq(S), NEW c \in Seq(S)
  PROVE  a \o b \o c \in Seq(S) /\ IsJoin(a \o b \o c, a, b, c)
<1>1. a \o b \in Seq(S) /\ Len(a) \in Nat /\ Len(b) \in Nat /\ Len(c) \in Nat
  BY ConcatProperties, LenProperties
<1>2. /\ Len(a \o b) = Len(a) + Len(b)
      /\ \A i \in 1..Len(a) + Len(b) : (a \o b)[i] = IF i <= Len(a) THEN a[i] ELSE b[i - Len(a)]
  BY ConcatProperties
<1>3. /\ a \o b \o c \in Seq(S) /\ Len(a \o b \o c) = Len(a \o b) + Len(c)
      /\ \A i \in 1..Len(a \o b) + Len(c) :
           (a \o b \o c)[i] = IF i <= Len(a \o b) THEN (a \o b)[i] ELSE c[i - Len(a \o b)]
  BY <1>1, ConcatProperties
<1>4. QED BY <1>1, <1>2, <1>3 DEF IsJoin

LEMMA GuardedIs ==
  ASSUME NEW m
  PROVE  Guarded(m, <<>>) = <<Lock(m), Unlock(m)>>
<1> DEFINE S == {Lock(m), Unlock(m)}
           g == <<Lock(m)>> \o <<>> \o <<Unlock(m)>>
<1>1. /\ <<Lock(m)>> \in Seq(S) /\ <<Unlock(m)>> \in Seq(S) /\ <<>> \in Seq(S)
      /\ Len(<<Lock(m)>>) = 1 /\ Len(<<Unlock(m)>>) = 1 /\ Len(<<>>) = 0
      /\ <<Lock(m)>>[1] = Lock(m) /\ <<Unlock(m)>>[1] = Unlock(m)
  OBVIOUS
<1>2. /\ g \in Seq(S) /\ Len(g) = 1 + 0 + 1 /\ g[1] = <<Lock(m)>>[1] /\ g[1 + 0 + 1] = <<Unlock(m)>>[1]
  <2>1. g \in Seq(S) /\ IsJoin(g, <<Lock(m)>>, <<>>, <<Unlock(m)>>)
    <3> HIDE DEF S
    <3>1. QED BY <1>1, Joined
  <2> HIDE DEF g, S
  <2>2. QED BY <1>1, <2>1 DEF IsJoin
<1>3. g = <<Lock(m), Unlock(m)>>
  <2>1. g \in Seq(S) /\ Len(g) = 2 /\ g[1] = Lock(m) /\ g[2] = Unlock(m)
    BY <1>1, <1>2
  <2> HIDE DEF g
  <2>2. QED BY <2>1
<1>4. QED BY <1>3 DEF Guarded

\* A call with one mutex.
LEMMA GuardedFresh ==
  ASSUME NEW k, NEW m \in Mutexes
  PROVE  Fresh(k, <<Lock(m), Unlock(m)>>)
<1> DEFINE q == <<Lock(m), Unlock(m)>>
<1>1. /\ q \in Seq([op : {"lock", "unlock", "fork"}, m : Mutexes]) /\ Len(q) = 2
      /\ q[1] = Lock(m) /\ q[2] = Unlock(m)
  BY DEF Lock, Unlock
<1> HIDE DEF q
<1>2. ~HeldFrom(q, 3, m)
  BY <1>1 DEF HeldFrom
<1>3. HeldFrom(q, 2, m)
  BY <1>1 DEF HeldFrom
<1>4. \A n \in Mutexes : ~HeldFrom(q, 1, n)
  BY <1>1 DEF HeldFrom, Lock, Unlock
<1>5. Takes(q, 1, m) /\ Returns(q, 2, m)
  BY <1>1, <1>2, <1>3, <1>4 DEF Takes, Returns
<1>6. Ordered(q)
  BY <1>1, <1>5 DEF Ordered
<1>7. Keeps(k, q)
  BY <1>1, <1>4 DEF Keeps, Lock, Unlock
<1>8. QED BY <1>4, <1>6, <1>7 DEF Fresh, q

LEMMA LoginFresh == \A k : Fresh(k, Login)
<1> DEFINE S == [op : {"lock", "unlock", "fork"}, m : Mutexes]
           a == <<Lock(Uri), Unlock(Uri)>>
           q == a \o a
<1>1. Login = q
  <2>1. Guarded(Uri, <<>>) = a
    BY GuardedIs
  <2>2. QED BY <2>1 DEF Login
<1>2. /\ q \in Seq(S) /\ Len(q) = 4
      /\ q[1] = Lock(Uri) /\ q[2] = Unlock(Uri) /\ q[3] = Lock(Uri) /\ q[4] = Unlock(Uri)
      /\ Uri \in Mutexes
  <2>1. a \in Seq(S) /\ Len(a) = 2 /\ a[1] = Lock(Uri) /\ a[2] = Unlock(Uri) /\ Uri \in Mutexes
    BY DEF Lock, Unlock, Mutexes
  <2> HIDE DEF S, a
  <2>2. /\ q \in Seq(S) /\ Len(q) = Len(a) + Len(a)
        /\ \A i \in 1..Len(a) + Len(a) : q[i] = IF i <= Len(a) THEN a[i] ELSE a[i - Len(a)]
    BY <2>1, ConcatProperties
  <2> HIDE DEF q
  <2>3. QED BY <2>1, <2>2
<1> HIDE DEF q
<1>3. Lock(Uri) # Unlock(Uri) /\ \A n : (Unlock(n) = Unlock(Uri) => n = Uri) /\ Unlock(n) # Lock(Uri)
  BY DEF Lock, Unlock
<1>4. HeldFrom(q, 2, Uri) /\ HeldFrom(q, 4, Uri)
  BY <1>2 DEF HeldFrom
<1>5. \A n \in Mutexes : ~HeldFrom(q, 1, n) /\ ~HeldFrom(q, 3, n) /\ ~HeldFrom(q, 5, n)
  BY <1>2, <1>3 DEF HeldFrom
<1>6. Takes(q, 1, Uri) /\ Returns(q, 2, Uri) /\ Takes(q, 3, Uri) /\ Returns(q, 4, Uri)
  BY <1>2, <1>4, <1>5 DEF Takes, Returns
<1>7. Ordered(q)
  BY <1>2, <1>6 DEF Ordered, S
<1>8. \A k : Keeps(k, q)
  BY <1>2, <1>5 DEF Keeps, Lock, Unlock
<1>9. QED BY <1>1, <1>5, <1>7, <1>8 DEF Fresh

\* fork: every mutex in order, the fork, every mutex back.
LEMMA ForkIs ==
  /\ Fork \in Seq([op : {"lock", "unlock", "fork"}, m : Mutexes])
  /\ Len(Fork) = LenM + 1 + LenM
  /\ \A i \in 1..LenM : Fork[i] = Lock(Order[i]) /\ Fork[LenM + 1 + i] = Unlock(Freed[i])
  /\ Fork[LenM + 1] = ForkPoint[1]
<1> DEFINE R == [op : {"lock", "unlock", "fork"}, m : Mutexes]
           LF == [i \in DOMAIN FindTypes |-> Lock(Find(FindTypes[i]))]
           LS == [i \in DOMAIN SessionTypes |-> Lock(Session(SessionTypes[i]))]
           UF == [i \in DOMAIN FindTypes |-> Unlock(Find(FindTypes[i]))]
           US == [i \in DOMAIN SessionTypes |-> Unlock(Session(SessionTypes[i]))]
           LU == <<Lock(Uri)>>
           UU == <<Unlock(Uri)>>
<1>1. Prepare = LF \o LU \o LS
  BY DEF Prepare, Each
<1>2. Release = Reverse(US) \o Reverse(UF) \o UU
  BY DEF Release, Each
<1>3. /\ LF \in Seq(R) /\ Len(LF) = LenF /\ UF \in Seq(R) /\ Len(UF) = LenF
      /\ LS \in Seq(R) /\ Len(LS) = LenS /\ US \in Seq(R) /\ Len(US) = LenS
  BY Types DEF Lock, Unlock, Mutexes, ToSet
<1>4. /\ Reverse(UF) \in Seq(R) /\ Len(Reverse(UF)) = LenF
      /\ \A i \in 1..LenF : Reverse(UF)[i] = Unlock(Find(FindTypes[LenF - i + 1]))
  BY <1>3, Types DEF Reverse
<1>5. /\ Reverse(US) \in Seq(R) /\ Len(Reverse(US)) = LenS
      /\ \A i \in 1..LenS : Reverse(US)[i] = Unlock(Session(SessionTypes[LenS - i + 1]))
  BY <1>3, Types DEF Reverse
<1>6. /\ LU \in Seq(R) /\ Len(LU) = 1 /\ LU[1] = Lock(Uri)
      /\ UU \in Seq(R) /\ Len(UU) = 1 /\ UU[1] = Unlock(Uri)
      /\ ForkPoint \in Seq(R) /\ Len(ForkPoint) = 1
  BY DEF Lock, Unlock, Mutexes, ForkPoint
<1>7. /\ Prepare \in Seq(R) /\ Len(Prepare) = LenM
      /\ \A i \in 1..LenM : Prepare[i] = Lock(Order[i])
  <2>a. /\ \A i \in 1..LenF : LF[i] = Lock(Find(FindTypes[i]))
        /\ \A i \in 1..LenS : LS[i] = Lock(Session(SessionTypes[i]))
    BY Types
  <2> HIDE DEF LF, LS, LU, R
  <2>1. /\ Prepare \in Seq(R) /\ Len(Prepare) = LenM
        /\ \A i \in 1..LenF : Prepare[i] = LF[i]
        /\ Prepare[LenF + 1] = Lock(Uri)
        /\ \A i \in 1..LenS : Prepare[LenF + 1 + i] = LS[i]
    <3>1. Prepare \in Seq(R) /\ IsJoin(Prepare, LF, LU, LS)
      BY <1>1, <1>3, <1>6, Joined
    <3>2. QED BY <1>3, <1>6, <3>1 DEF IsJoin, LenM
  <2>2. ASSUME NEW i \in 1..LenM PROVE Prepare[i] = Lock(Order[i])
    <3>1. CASE i <= LenF
      BY <2>1, <2>a, <3>1, Types DEF LenM, Order
    <3>2. CASE i = LenF + 1
      BY <2>1, <3>2, Types DEF LenM, Order
    <3>3. CASE i > LenF + 1
      <4>1. i - LenF - 1 \in 1..LenS /\ i = LenF + 1 + (i - LenF - 1)
        BY <3>3, Types DEF LenM
      <4>2. Prepare[i] = LS[i - LenF - 1]
        BY <2>1, <4>1
      <4>3. QED BY <2>a, <3>3, <4>1, <4>2, Types DEF Order
    <3>4. QED BY <3>1, <3>2, <3>3, Types
  <2>3. QED BY <2>1, <2>2
<1>8. /\ Release \in Seq(R) /\ Len(Release) = LenM
      /\ \A i \in 1..LenM : Release[i] = Unlock(Freed[i])
  <2> HIDE DEF UF, US, UU, R
  <2>1. /\ Release \in Seq(R) /\ Len(Release) = LenM
        /\ \A i \in 1..LenS : Release[i] = Reverse(US)[i]
        /\ \A i \in 1..LenF : Release[LenS + i] = Reverse(UF)[i]
        /\ Release[LenM] = Unlock(Uri)
    <3>1. Release \in Seq(R) /\ IsJoin(Release, Reverse(US), Reverse(UF), UU)
      BY <1>2, <1>4, <1>5, <1>6, Joined
    <3>2. QED BY <1>4, <1>5, <1>6, <3>1, Types DEF IsJoin, LenM
  <2>2. ASSUME NEW i \in 1..LenM PROVE Release[i] = Unlock(Freed[i])
    <3>1. CASE i <= LenS
      BY <1>5, <2>1, <3>1, Types DEF LenM, Freed
    <3>2. CASE i = LenM
      BY <2>1, <3>2, Types DEF LenM, Freed
    <3>3. CASE i > LenS /\ i < LenM
      <4>1. i - LenS \in 1..LenF /\ i = LenS + (i - LenS) /\ LenF - (i - LenS) + 1 = LenF + LenS - i + 1
        BY <3>3, Types DEF LenM
      <4>2. Release[i] = Reverse(UF)[i - LenS]
        BY <2>1, <4>1
      <4>3. QED BY <1>4, <3>3, <4>1, <4>2, Types DEF LenM, Freed
    <3>4. QED BY <3>1, <3>2, <3>3, Types
  <2>3. QED BY <2>1, <2>2
<1>9. QED
  <2> HIDE DEF R
  <2>1. /\ Fork \in Seq(R) /\ Len(Fork) = LenM + 1 + LenM
        /\ \A i \in 1..LenM : Fork[i] = Prepare[i]
        /\ \A i \in 1..1 : Fork[LenM + i] = ForkPoint[i]
        /\ \A i \in 1..LenM : Fork[LenM + 1 + i] = Release[i]
    <3>1. Fork \in Seq(R) /\ IsJoin(Fork, Prepare, ForkPoint, Release)
      BY <1>6, <1>7, <1>8, Joined DEF Fork
    <3>2. QED BY <1>6, <1>7, <1>8, <3>1 DEF IsJoin
  <2>2. QED BY <1>7, <1>8, <2>1 DEF R

LEMMA ForkFresh == Fresh("fork", Fork)
<1>a. LenM \in Nat
  BY Types
<1>b. \A m, n : Lock(m) # Unlock(n) /\ Lock(m) # ForkPoint[1] /\ Unlock(m) # ForkPoint[1]
              /\ (Lock(m) = Lock(n) => m = n) /\ (Unlock(m) = Unlock(n) => m = n)
  BY DEF Lock, Unlock, ForkPoint
\* Up to the fork, the mutexes already taken are held ...
<1>1. ASSUME NEW i \in 1..(LenM + 1), NEW j \in 1..LenM
      PROVE  HeldFrom(Fork, i, Order[j]) <=> j < i
  <2>1. PICK k \in 1..LenM : Freed[k] = Order[j]
    BY FreedFacts, OrderFacts
  <2>2. ASSUME j < i PROVE HeldFrom(Fork, i, Order[j])
    <3>1. LenM + 1 + k \in i..Len(Fork) /\ Fork[LenM + 1 + k] = Unlock(Order[j])
      BY <1>a, <2>1, ForkIs
    <3>2. ASSUME NEW n \in i..(LenM + k) PROVE Fork[n] # Lock(Order[j])
      <4>1. CASE n \in 1..LenM
        BY <1>b, <2>2, <4>1, ForkIs, OrderFacts
      <4>2. CASE n = LenM + 1
        BY <1>b, <4>2, ForkIs
      <4>3. CASE n > LenM + 1
        <5>1. n - LenM - 1 \in 1..LenM /\ n = LenM + 1 + (n - LenM - 1)
          BY <1>a, <4>3
        <5>2. Fork[n] = Unlock(Freed[n - LenM - 1])
          BY <5>1, ForkIs
        <5>3. QED BY <1>b, <5>2
      <4>4. QED BY <1>a, <4>1, <4>2, <4>3
    <3>3. (LenM + 1 + k) - 1 = LenM + k
      BY <1>a
    <3>4. QED BY <3>1, <3>2, <3>3 DEF HeldFrom
  <2>3. ASSUME j >= i, HeldFrom(Fork, i, Order[j]) PROVE FALSE
    <3>1. PICK p \in i..Len(Fork) :
            Fork[p] = Unlock(Order[j]) /\ \A n \in i..(p - 1) : Fork[n] # Lock(Order[j])
      BY <2>3 DEF HeldFrom
    <3>2. Fork[j] = Lock(Order[j])
      BY ForkIs
    <3>3. p <= j
      BY <1>a, <2>3, <3>1, <3>2, ForkIs
    <3>4. p \in 1..LenM
      BY <1>a, <3>3
    <3>5. QED BY <1>b, <3>1, <3>4, ForkIs
  <2>4. QED BY <1>a, <2>2, <2>3
\* ... and none is once it is back.
<1>2. ASSUME NEW k \in 1..LenM PROVE ~HeldFrom(Fork, LenM + 1 + k + 1, Freed[k])
  <2>1. SUFFICES ASSUME NEW p \in (LenM + 1 + k + 1)..Len(Fork), Fork[p] = Unlock(Freed[k])
                 PROVE  FALSE
    BY DEF HeldFrom
  <2>2. p - LenM - 1 \in 1..LenM /\ p = LenM + 1 + (p - LenM - 1) /\ p - LenM - 1 # k
    BY <1>a, ForkIs
  <2>3. Fork[p] = Unlock(Freed[p - LenM - 1])
    BY <2>2, ForkIs
  <2>4. QED BY <1>b, <2>1, <2>2, <2>3, FreedFacts
<1>7. ASSUME NEW i \in 1..LenM, NEW n \in Mutexes, HeldFrom(Fork, i, n) PROVE Rank(n) < Rank(Order[i])
  <2>1. PICK j \in 1..LenM : Order[j] = n
    BY OrderFacts
  <2>2. j < i
    BY <1>a, <1>1, <1>7, <2>1
  <2>3. QED BY <2>1, <2>2, RankFacts
<1>3. ASSUME NEW i \in 1..Len(Fork)
      PROVE  ForksHere(Fork, i) \/ \E m \in Mutexes : Takes(Fork, i, m) \/ Returns(Fork, i, m)
  <2>1. CASE i \in 1..LenM
    <3>1. Fork[i] = Lock(Order[i]) /\ HeldFrom(Fork, i + 1, Order[i]) /\ Order[i] \in Mutexes
      <4>1. i + 1 \in 1..(LenM + 1) /\ i < i + 1
        BY <1>a, <2>1
      <4>2. QED BY <1>1, <2>1, <4>1, ForkIs, OrderFacts
    <3>2. QED BY <3>1 DEF Takes
  <2>2. CASE i = LenM + 1
    <3>1. \A m \in Mutexes : HeldFrom(Fork, i, m)
      BY <1>a, <1>1, <2>2, OrderFacts
    <3>2. QED BY <2>2, <3>1, ForkIs DEF ForksHere
  <2>3. CASE i > LenM + 1
    <3>1. PICK k \in 1..LenM : i = LenM + 1 + k
      <4>1. i - LenM - 1 \in 1..LenM /\ i = LenM + 1 + (i - LenM - 1)
        BY <1>a, <2>3, ForkIs
      <4>2. QED BY <4>1
    <3>2. Returns(Fork, i, Freed[k]) /\ Freed[k] \in Mutexes
      BY <1>2, <3>1, ForkIs, FreedFacts DEF Returns
    <3>3. QED BY <3>2
  <2>4. QED BY <1>a, <2>1, <2>2, <2>3
<1>4. Ordered(Fork)
  BY <1>3, ForkIs DEF Ordered
<1>5. ASSUME NEW m \in Mutexes PROVE ~HeldFrom(Fork, 1, m)
  <2>1. PICK j \in 1..LenM : Order[j] = m
    BY OrderFacts
  <2>2. QED BY <1>a, <1>1, <2>1
<1>6. Keeps("fork", Fork)
  <2> SUFFICES ASSUME NEW i \in 1..Len(Fork), NEW m \in Mutexes, NEW n \in Mutexes,
                      Fork[i] = Lock(m), HeldFrom(Fork, i, n)
               PROVE  Rank(n) < Rank(m)
    BY DEF Keeps, Nests
  <2>1. CASE i \in 1..LenM
    <3>1. m = Order[i]
      BY <1>b, <2>1, ForkIs
    <3>2. QED BY <1>7, <2>1, <3>1
  <2>2. CASE i = LenM + 1
    BY <1>b, <2>2, ForkIs
  <2>3. CASE i > LenM + 1
    <3>1. i - LenM - 1 \in 1..LenM /\ i = LenM + 1 + (i - LenM - 1)
      BY <1>a, <2>3, ForkIs
    <3>2. QED BY <1>b, <3>1, ForkIs
  <2>4. QED BY <1>a, <2>1, <2>2, <2>3
<1>8. QED BY <1>4, <1>5, <1>6 DEF Fresh

\* pk11_get_session in a new process: the lock of the cache, and under it a
\* find lock and uri_lock twice, or uri_lock twice.
ForkedWithFind(s, f) ==
  <<Lock(s), Lock(f), Unlock(f), Lock(Uri), Unlock(Uri), Lock(Uri), Unlock(Uri), Unlock(s)>>
ForkedWithout(s) == <<Lock(s), Lock(Uri), Unlock(Uri), Lock(Uri), Unlock(Uri), Unlock(s)>>

LEMMA ForkedIs ==
  ASSUME NEW ty
  PROVE  GetForked(ty, Guarded(Uri, <<>>)) =
           IF ty \in ToSet(FindTypes) THEN ForkedWithFind(Session(ty), Find(ty))
                                      ELSE ForkedWithout(Session(ty))
<1> DEFINE S == {Lock(Session(ty)), Unlock(Session(ty)), Lock(Find(ty)), Unlock(Find(ty)), Lock(Uri), Unlock(Uri)}
           L == <<Lock(Session(ty))>>
           U == <<Unlock(Session(ty))>>
           f == <<Lock(Find(ty)), Unlock(Find(ty))>>
           u == <<Lock(Uri), Unlock(Uri)>>
<1>1. /\ Guarded(Uri, <<>>) = u /\ Guarded(Find(ty), <<>>) = f
  BY GuardedIs
<1>2. /\ L \in Seq(S) /\ Len(L) = 1 /\ L[1] = Lock(Session(ty))
      /\ U \in Seq(S) /\ Len(U) = 1 /\ U[1] = Unlock(Session(ty))
      /\ f \in Seq(S) /\ Len(f) = 2 /\ f[1] = Lock(Find(ty)) /\ f[2] = Unlock(Find(ty))
      /\ u \in Seq(S) /\ Len(u) = 2 /\ u[1] = Lock(Uri) /\ u[2] = Unlock(Uri)
      /\ <<>> \in Seq(S) /\ Len(<<>>) = 0
  OBVIOUS
<1> HIDE DEF S, L, U, f, u
<1>3. CASE ty \in ToSet(FindTypes)
  <2> DEFINE in == f \o u \o u
             g == L \o in \o U
  <2>1. GetForked(ty, Guarded(Uri, <<>>)) = g
    BY <1>1, <1>3 DEF GetForked, Guarded, L, U
  <2>2. in \in Seq(S) /\ IsJoin(in, f, u, u)
    BY <1>2, Joined
  <2>3. Len(in) = 6 /\ in[1] = f[1] /\ in[2] = f[2] /\ in[3] = u[1] /\ in[4] = u[2] /\ in[5] = u[1] /\ in[6] = u[2]
    <3> HIDE DEF in
    <3>1. QED BY <1>2, <2>2 DEF IsJoin
  <2> HIDE DEF in
  <2>4. g \in Seq(S) /\ IsJoin(g, L, in, U)
    BY <1>2, <2>2, Joined
  <2> HIDE DEF g
  <2>5. /\ Len(g) = 8 /\ g[1] = L[1] /\ g[2] = in[1] /\ g[3] = in[2] /\ g[4] = in[3] /\ g[5] = in[4]
        /\ g[6] = in[5] /\ g[7] = in[6] /\ g[8] = U[1]
    BY <1>2, <2>3, <2>4 DEF IsJoin
  <2>6. g = ForkedWithFind(Session(ty), Find(ty))
    BY <1>2, <2>3, <2>4, <2>5 DEF ForkedWithFind
  <2>7. QED BY <1>3, <2>1, <2>6
<1>4. CASE ty \notin ToSet(FindTypes)
  <2> DEFINE in == <<>> \o u \o u
             g == L \o in \o U
  <2>1. GetForked(ty, Guarded(Uri, <<>>)) = g
    BY <1>1, <1>4 DEF GetForked, Guarded, L, U
  <2>2. in \in Seq(S) /\ IsJoin(in, <<>>, u, u)
    BY <1>2, Joined
  <2>3. Len(in) = 4 /\ in[1] = u[1] /\ in[2] = u[2] /\ in[3] = u[1] /\ in[4] = u[2]
    <3> HIDE DEF in
    <3>1. QED BY <1>2, <2>2 DEF IsJoin
  <2> HIDE DEF in
  <2>4. g \in Seq(S) /\ IsJoin(g, L, in, U)
    BY <1>2, <2>2, Joined
  <2> HIDE DEF g
  <2>5. /\ Len(g) = 6 /\ g[1] = L[1] /\ g[2] = in[1] /\ g[3] = in[2] /\ g[4] = in[3] /\ g[5] = in[4]
        /\ g[6] = U[1]
    BY <1>2, <2>3, <2>4 DEF IsJoin
  <2>6. g = ForkedWithout(Session(ty))
    BY <1>2, <2>3, <2>4, <2>5 DEF ForkedWithout
  <2>7. QED BY <1>4, <2>1, <2>6
<1>5. QED BY <1>3, <1>4

LEMMA ForkedFresh ==
  ASSUME NEW ty \in ToSet(SessionTypes)
  PROVE  Fresh("forked", GetForked(ty, Guarded(Uri, <<>>)))
<1> DEFINE q == GetForked(ty, Guarded(Uri, <<>>))
           s == Session(ty)
           f == Find(ty)
           S == [op : {"lock", "unlock", "fork"}, m : Mutexes]
<1>1. s \in Mutexes /\ Uri \in Mutexes /\ (ty \in ToSet(FindTypes) => f \in Mutexes)
  BY DEF Mutexes
<1>2. s # Uri /\ s # f /\ f # Uri /\ IsSession(s) /\ ~IsSession(Uri) /\ ~IsSession(f)
  BY DEF Session, Find, Uri, IsSession
<1>3. \A m, n : /\ Lock(m) # Unlock(n) /\ (Lock(m) = Lock(n) => m = n) /\ (Unlock(m) = Unlock(n) => m = n)
                /\ (m \in Mutexes => Lock(m) \in S /\ Unlock(m) \in S)
  BY DEF Lock, Unlock
<1> HIDE DEF S
<1>4. CASE ty \in ToSet(FindTypes)
  <2>1. /\ q \in Seq(S) /\ Len(q) = 8
        /\ q[1] = Lock(s) /\ q[2] = Lock(f) /\ q[3] = Unlock(f) /\ q[4] = Lock(Uri) /\ q[5] = Unlock(Uri)
        /\ q[6] = Lock(Uri) /\ q[7] = Unlock(Uri) /\ q[8] = Unlock(s)
    <3>1. q = ForkedWithFind(s, f)
      BY <1>4, ForkedIs
    <3> HIDE DEF q, s, f
    <3>2. QED BY <1>1, <1>3, <1>4, <3>1 DEF ForkedWithFind
  <2> HIDE DEF q, s, f
  <2>2. HeldFrom(q, 2, s)
    BY <1>2, <1>3, <2>1 DEF HeldFrom
  <2>3. HeldFrom(q, 3, f) /\ HeldFrom(q, 5, Uri) /\ HeldFrom(q, 7, Uri)
    BY <2>1 DEF HeldFrom
  <2>4. ASSUME NEW n PROVE ~HeldFrom(q, 1, n) /\ ~HeldFrom(q, 9, n)
    BY <1>2, <1>3, <2>1 DEF HeldFrom
  <2>5. ASSUME NEW n, n # s PROVE ~HeldFrom(q, 2, n) /\ ~HeldFrom(q, 4, n) /\ ~HeldFrom(q, 6, n) /\ ~HeldFrom(q, 8, n)
    BY <1>2, <1>3, <2>1, <2>5 DEF HeldFrom
  <2>6. Takes(q, 1, s) /\ Takes(q, 2, f) /\ Takes(q, 4, Uri) /\ Takes(q, 6, Uri)
    BY <2>1, <2>2, <2>3 DEF Takes
  <2>7. Returns(q, 3, f) /\ Returns(q, 5, Uri) /\ Returns(q, 7, Uri) /\ Returns(q, 8, s)
    BY <1>2, <2>1, <2>4, <2>5 DEF Returns
  <2>8. Ordered(q)
    BY <1>1, <1>4, <2>1, <2>6, <2>7 DEF Ordered, S
  <2>9. Keeps("forked", q)
    BY <1>2, <1>3, <2>1, <2>4, <2>5 DEF Keeps, Nests
  <2>10. QED BY <2>4, <2>8, <2>9 DEF Fresh, q
<1>5. CASE ty \notin ToSet(FindTypes)
  <2>1. /\ q \in Seq(S) /\ Len(q) = 6
        /\ q[1] = Lock(s) /\ q[2] = Lock(Uri) /\ q[3] = Unlock(Uri)
        /\ q[4] = Lock(Uri) /\ q[5] = Unlock(Uri) /\ q[6] = Unlock(s)
    <3>1. q = ForkedWithout(s)
      BY <1>5, ForkedIs
    <3> HIDE DEF q, s
    <3>2. QED BY <1>1, <1>3, <3>1 DEF ForkedWithout
  <2> HIDE DEF q, s, f
  <2>2. HeldFrom(q, 2, s)
    BY <1>2, <1>3, <2>1 DEF HeldFrom
  <2>3. HeldFrom(q, 3, Uri) /\ HeldFrom(q, 5, Uri)
    BY <2>1 DEF HeldFrom
  <2>4. ASSUME NEW n PROVE ~HeldFrom(q, 1, n) /\ ~HeldFrom(q, 7, n)
    BY <1>2, <1>3, <2>1 DEF HeldFrom
  <2>5. ASSUME NEW n, n # s PROVE ~HeldFrom(q, 2, n) /\ ~HeldFrom(q, 4, n) /\ ~HeldFrom(q, 6, n)
    BY <1>2, <1>3, <2>1, <2>5 DEF HeldFrom
  <2>6. Takes(q, 1, s) /\ Takes(q, 2, Uri) /\ Takes(q, 4, Uri)
    BY <2>1, <2>2, <2>3 DEF Takes
  <2>7. Returns(q, 3, Uri) /\ Returns(q, 5, Uri) /\ Returns(q, 6, s)
    BY <1>2, <2>1, <2>4, <2>5 DEF Returns
  <2>8. Ordered(q)
    BY <1>1, <2>1, <2>6, <2>7 DEF Ordered, S
  <2>9. Keeps("forked", q)
    BY <1>2, <1>3, <2>1, <2>4, <2>5 DEF Keeps, Nests
  <2>10. QED BY <2>4, <2>8, <2>9 DEF Fresh, q
<1>6. QED BY <1>4, <1>5

LEMMA ProgramsFresh ==
  ASSUME Calls \subseteq PairedCalls, NEW name \in Calls, NEW p \in Programs(name)
  PROVE  Fresh(name, p)
<1>1. \A m \in Mutexes : Fresh(name, Guarded(m, <<>>))
  BY GuardedIs, GuardedFresh
<1>2. /\ \A ty \in ToSet(SessionTypes) : Session(ty) \in Mutexes
      /\ \A ty \in ToSet(FindTypes) : Find(ty) \in Mutexes /\ Session(ty) \in Mutexes
      /\ Uri \in Mutexes
  BY LocksAssumption DEF Mutexes
<1>3. \/ \E ty \in ToSet(SessionTypes) : p = UseSession(ty)
      \/ \E ty \in ToSet(FindTypes) : p = UseKey(ty) \/ p = DestroyAll(ty)
      \/ p = CheckToken \/ p = Login
      \/ name = "fork" /\ p = Fork
      \/ name = "forked" /\ \E ty \in ToSet(SessionTypes) : p = GetForked(ty, Guarded(Uri, <<>>))
  BY DEF Programs, PairedCalls, AllCalls
<1>4. QED
  BY <1>1, <1>2, <1>3, LoginFresh, ForkFresh, ForkedFresh DEF UseSession, UseKey, DestroyAll, CheckToken

-----------------------------------------------------------------------------
(* The invariant. *)

Operations == [op : {"lock", "unlock", "fork"}, m : Mutexes]

\* Every mutex belongs to the thread whose call still returns it.
HeldInv ==
  /\ owner \in [Mutexes -> Threads \cup {Nil}]
  /\ calls \in [Threads -> 0..MaxCalls]
  /\ todo \in [Threads -> Seq(Operations)]
  /\ entry \in [Threads -> Calls \cup {Nil}]
  /\ \A t \in Threads : Ordered(todo[t]) /\ Keeps(entry[t], todo[t])
  /\ \A t \in Threads, m \in Mutexes : owner[m] = t <=> HeldFrom(todo[t], 1, m)

LEMMA OpsDiffer ==
  \A m, n : /\ Lock(m) # Unlock(n) /\ Lock(m) # ForkPoint[1] /\ Unlock(m) # ForkPoint[1]
            /\ (Lock(m) = Lock(n) => m = n) /\ (Unlock(m) = Unlock(n) => m = n)
BY DEF Lock, Unlock, ForkPoint

LEMMA OpNames ==
  /\ \A m : Lock(m).op = "lock" /\ Lock(m).m = m /\ Unlock(m).op = "unlock"
  /\ ForkPoint[1].op = "fork"
BY DEF Lock, Unlock, ForkPoint

\* Doing the first operation of a call.
LEMMA HeldHead ==
  ASSUME NEW q \in Seq(Operations), q # <<>>, NEW m
  PROVE  /\ q[1] = Lock(m) => ~HeldFrom(q, 1, m)
         /\ q[1] = Unlock(m) => HeldFrom(q, 1, m)
         /\ q[1] # Lock(m) /\ q[1] # Unlock(m) => (HeldFrom(q, 1, m) <=> HeldFrom(q, 2, m))
<1>1. Len(q) \in Nat \ {0}
  OBVIOUS
<1>2. ASSUME q[1] = Lock(m), HeldFrom(q, 1, m) PROVE FALSE
  <2>1. PICK j \in 1..Len(q) : q[j] = Unlock(m) /\ \A k \in 1..(j - 1) : q[k] # Lock(m)
    BY <1>2 DEF HeldFrom
  <2>2. j # 1
    BY <1>2, <2>1, OpsDiffer
  <2>3. 1 \in 1..(j - 1)
    BY <1>1, <2>2
  <2>4. QED BY <1>2, <2>1, <2>3
<1>3. ASSUME q[1] = Unlock(m) PROVE HeldFrom(q, 1, m)
  <2>1. 1 \in 1..Len(q) /\ \A k \in 1..(1 - 1) : FALSE
    BY <1>1
  <2>2. QED BY <1>3, <2>1 DEF HeldFrom
<1>4. ASSUME q[1] # Lock(m), q[1] # Unlock(m), HeldFrom(q, 1, m) PROVE HeldFrom(q, 2, m)
  <2>1. PICK j \in 1..Len(q) : q[j] = Unlock(m) /\ \A k \in 1..(j - 1) : q[k] # Lock(m)
    BY <1>4 DEF HeldFrom
  <2>2. j \in 2..Len(q) /\ \A k \in 2..(j - 1) : k \in 1..(j - 1)
    BY <1>1, <1>4, <2>1
  <2>3. QED BY <2>1, <2>2 DEF HeldFrom
<1>5. ASSUME q[1] # Lock(m), HeldFrom(q, 2, m) PROVE HeldFrom(q, 1, m)
  <2>1. PICK j \in 2..Len(q) : q[j] = Unlock(m) /\ \A k \in 2..(j - 1) : q[k] # Lock(m)
    BY <1>5 DEF HeldFrom
  <2>2. j \in 1..Len(q) /\ \A k \in 1..(j - 1) : k = 1 \/ k \in 2..(j - 1)
    BY <1>1
  <2>3. QED BY <1>5, <2>1, <2>2 DEF HeldFrom
<1>6. QED BY <1>2, <1>3, <1>4, <1>5

\* What one step does, by its operation.
LEMMA StepDoes ==
  ASSUME NEW t \in Threads, Step(t), NEW m
  PROVE  /\ Head(todo[t]) = Lock(m) => owner[m] = Nil /\ owner' = [owner EXCEPT ![m] = t]
         /\ Head(todo[t]) = Unlock(m) => owner' = [owner EXCEPT ![m] = Nil]
         /\ Head(todo[t]) = ForkPoint[1] => owner' = owner
<1> DEFINE h == Head(todo[t])
<1>1. \/ h.op = "lock" /\ owner[h.m] = Nil /\ owner' = [owner EXCEPT ![h.m] = t]
      \/ h.op = "unlock" /\ owner' = [owner EXCEPT ![h.m] = Nil]
      \/ h.op = "fork" /\ owner' = owner
  BY DEF Step
<1> HIDE DEF h
<1>2. h = Lock(m) => owner[m] = Nil /\ owner' = [owner EXCEPT ![m] = t]
  BY <1>1 DEF Lock
<1>3. h = Unlock(m) => owner' = [owner EXCEPT ![m] = Nil]
  BY <1>1 DEF Unlock
<1>4. h = ForkPoint[1] => owner' = owner
  BY <1>1 DEF ForkPoint
<1>5. QED BY <1>2, <1>3, <1>4 DEF h

LEMMA StepHeld ==
  ASSUME HeldInv, NEW t \in Threads, Step(t)
  PROVE  HeldInv'
<1> DEFINE q == todo[t]
<1>a. /\ q \in Seq(Operations) /\ q # <<>> /\ Ordered(q) /\ 1 \in 1..Len(q)
      /\ q[1] = Head(q) /\ todo' = [todo EXCEPT ![t] = Tail(q)] /\ calls' = calls
  BY DEF HeldInv, Step
<1>b. todo' \in [Threads -> Seq(Operations)] /\ Ordered(Tail(q))
  BY <1>a, OrderedTail DEF HeldInv
<1>s. entry' \in [Threads -> Calls \cup {Nil}] /\ Keeps(entry'[t], Tail(q))
  <2>1. /\ entry' \in [Threads -> Calls \cup {Nil}]
        /\ entry'[t] = IF Len(q) = 1 THEN Nil ELSE entry[t]
    BY DEF HeldInv, Step
  <2>2. Keeps(entry[t], Tail(q))
    BY <1>a, KeepsTail DEF HeldInv
  <2>3. Len(q) = 1 => Len(Tail(q)) = 0
    BY <1>a
  <2>4. QED BY <2>1, <2>2, <2>3 DEF Keeps
<1>c. \A u \in Threads : Ordered(todo'[u]) /\ Keeps(entry'[u], todo'[u])
  <2>1. \A u \in Threads : u # t => todo'[u] = todo[u] /\ entry'[u] = entry[u]
    BY DEF HeldInv, Step
  <2>2. todo'[t] = Tail(q)
    BY <1>a DEF HeldInv
  <2>3. \A u \in Threads : Ordered(todo[u]) /\ Keeps(entry[u], todo[u])
    BY DEF HeldInv
  <2> HIDE DEF q
  <2>4. QED BY <1>b, <1>s, <2>1, <2>2, <2>3
<1>d. \A m : HeldFrom(Tail(q), 1, m) <=> HeldFrom(q, 2, m)
  BY <1>a, HeldTail
<1>e. \/ ForksHere(q, 1)
      \/ \E m \in Mutexes : Takes(q, 1, m) \/ Returns(q, 1, m)
  BY <1>a DEF Ordered
<1>f. \A u \in Threads : u # t => todo'[u] = todo[u]
  BY <1>a DEF HeldInv
<1>g. todo'[t] = Tail(q)
  BY <1>a DEF HeldInv
<1>h. Nil \notin Threads
  BY LocksAssumption
<1>k. \A u \in Threads, n \in Mutexes : owner[n] = u <=> HeldFrom(todo[u], 1, n)
  BY DEF HeldInv
<1>l. owner \in [Mutexes -> Threads \cup {Nil}]
  BY DEF HeldInv
<1>m. todo[t] = q
  OBVIOUS
<1>i. SUFFICES /\ owner' \in [Mutexes -> Threads \cup {Nil}]
               /\ \A u \in Threads, n \in Mutexes :
                    owner'[n] = u <=> HeldFrom(todo'[u], 1, n)
  BY <1>a, <1>b, <1>c, <1>s DEF HeldInv
<1>n. /\ \A m : q[1] = Lock(m) => owner[m] = Nil /\ owner' = [owner EXCEPT ![m] = t]
      /\ \A m : q[1] = Unlock(m) => owner' = [owner EXCEPT ![m] = Nil]
      /\ q[1] = ForkPoint[1] => owner' = owner
  BY <1>a, StepDoes
<1> HIDE DEF q
<1>o. 1 + 1 = 2
  OBVIOUS
<1>p. \A u \in Threads, n \in Mutexes : u # t => (HeldFrom(todo'[u], 1, n) <=> owner[n] = u)
  BY <1>f, <1>k
<1>q. \A n \in Mutexes : HeldFrom(todo'[t], 1, n) <=> HeldFrom(q, 2, n)
  BY <1>d, <1>g
<1>r. \A n \in Mutexes : HeldFrom(q, 1, n) <=> owner[n] = t
  BY <1>k, <1>m
<1>1. CASE ForksHere(q, 1)
  <2>1. owner' = owner
    BY <1>1, <1>n DEF ForksHere
  <2>2. \A n : HeldFrom(q, 1, n) <=> HeldFrom(q, 2, n)
    BY <1>1, <1>a, HeldHead, OpsDiffer DEF ForksHere
  <2>3. QED BY <1>p, <1>q, <1>r, <2>1, <2>2, <1>l
<1>2. ASSUME NEW m \in Mutexes, Takes(q, 1, m)
      PROVE  /\ owner' \in [Mutexes -> Threads \cup {Nil}]
             /\ \A u \in Threads, n \in Mutexes :
                  owner'[n] = u <=> HeldFrom(todo'[u], 1, n)
  <2>1. owner[m] = Nil /\ owner' = [owner EXCEPT ![m] = t]
    BY <1>2, <1>n DEF Takes
  <2>2. owner' \in [Mutexes -> Threads \cup {Nil}]
    BY <2>1, <1>l
  <2>3. HeldFrom(q, 2, m) /\ q[1] = Lock(m)
    BY <1>2, <1>o DEF Takes
  <2>6. \A n : n # m => (HeldFrom(q, 1, n) <=> HeldFrom(q, 2, n))
    BY <2>3, <1>a, HeldHead, OpsDiffer
  <2>4. ASSUME NEW u \in Threads, NEW n \in Mutexes
        PROVE  owner'[n] = u <=> HeldFrom(todo'[u], 1, n)
    <3>1. CASE n = m
      BY <3>1, <1>p, <1>q, <1>l, <2>1, <2>3, <1>h
    <3>2. CASE n # m
      <4>1. owner'[n] = owner[n]
        BY <3>2, <2>1, <1>l
      <4>2. QED BY <3>2, <4>1, <1>p, <1>q, <1>r, <2>6
    <3>3. QED BY <3>1, <3>2
  <2>5. QED BY <2>2, <2>4
<1>3. ASSUME NEW m \in Mutexes, Returns(q, 1, m)
      PROVE  /\ owner' \in [Mutexes -> Threads \cup {Nil}]
             /\ \A u \in Threads, n \in Mutexes :
                  owner'[n] = u <=> HeldFrom(todo'[u], 1, n)
  <2>1. owner' = [owner EXCEPT ![m] = Nil]
    BY <1>3, <1>n DEF Returns
  <2>2. owner' \in [Mutexes -> Threads \cup {Nil}]
    BY <2>1, <1>l
  <2>3. HeldFrom(q, 1, m) /\ ~HeldFrom(q, 2, m)
    <3>1. q[1] = Unlock(m) /\ ~HeldFrom(q, 2, m)
      BY <1>3, <1>o DEF Returns
    <3>2. QED BY <3>1, <1>a, HeldHead
  <2>4. \A n : n # m => (HeldFrom(q, 1, n) <=> HeldFrom(q, 2, n))
    BY <1>3, <1>a, HeldHead, OpsDiffer DEF Returns
  <2>5. owner[m] = t
    BY <2>3, <1>r
  <2>6. ASSUME NEW u \in Threads, NEW n \in Mutexes
        PROVE  owner'[n] = u <=> HeldFrom(todo'[u], 1, n)
    <3>1. CASE n = m
      BY <3>1, <1>p, <1>q, <1>l, <2>1, <2>3, <2>5, <1>h
    <3>2. CASE n # m
      <4>1. owner'[n] = owner[n]
        BY <3>2, <2>1, <1>l
      <4>2. QED BY <3>2, <4>1, <1>p, <1>q, <1>r, <2>4
    <3>3. QED BY <3>1, <3>2
  <2>7. QED BY <2>2, <2>6
<1>4. QED BY <1>1, <1>2, <1>3, <1>e

LEMMA EmptyFresh == \A k : Fresh(k, <<>>)
<1>1. <<>> \in Seq(Operations) /\ Len(<<>>) = 0
  OBVIOUS
<1>2. QED BY <1>1 DEF Fresh, Ordered, Keeps, HeldFrom, Operations

LEMMA HeldInvInductive ==
  Calls \subseteq PairedCalls => (HeldInv /\ [Next]_vars => HeldInv')
<1> SUFFICES ASSUME Calls \subseteq PairedCalls, HeldInv, [Next]_vars PROVE HeldInv'
  OBVIOUS
<1>1. ASSUME NEW t \in Threads, Call(t) PROVE HeldInv'
  <2>1. PICK name \in Calls : /\ entry' = [entry EXCEPT ![t] = name]
                               /\ \E p \in Programs(name) : todo' = [todo EXCEPT ![t] = p]
    BY <1>1 DEF Call
  <2>7. PICK p \in Programs(name) : todo' = [todo EXCEPT ![t] = p]
    BY <2>1
  <2>2. todo[t] = <<>> /\ calls[t] < MaxCalls /\ owner' = owner /\ calls' = [calls EXCEPT ![t] = calls[t] + 1]
    BY <1>1 DEF Call
  <2>3. Fresh(name, p) /\ p \in Seq(Operations)
    BY ProgramsFresh DEF Fresh, Ordered, Operations
  <2>4. calls' \in [Threads -> 0..MaxCalls]
    BY <2>2, LocksAssumption DEF HeldInv
  <2>5. \A m \in Mutexes : ~HeldFrom(todo[t], 1, m) /\ ~HeldFrom(p, 1, m)
    BY <2>2, <2>3, EmptyFresh DEF Fresh
  <2>6. QED BY <2>1, <2>2, <2>3, <2>4, <2>5, <2>7 DEF HeldInv, Fresh
<1>2. CASE UNCHANGED vars
  BY <1>2 DEF HeldInv, vars
<1>3. CASE Stopped
  BY <1>2, <1>3 DEF Stopped
<1>4. QED BY <1>1, <1>2, <1>3, StepHeld DEF Next

LEMMA InitHeld == Init => HeldInv
<1>1. Fresh(Nil, <<>>) /\ <<>> \in Seq(Operations)
  BY EmptyFresh
<1>2. QED BY <1>1, LocksAssumption DEF Init, HeldInv, Fresh

-----------------------------------------------------------------------------
(* Theorems. *)

\* Mutexes have one owner, a thread of the process, and calls consist of
\* operations on the engine's mutexes.
THEOREM LocksTypeCorrect ==
  ASSUME Calls \subseteq PairedCalls
  PROVE  Spec => []TypeOK
<1>1. HeldInv => TypeOK
  <2> SUFFICES ASSUME HeldInv, NEW t \in Threads, NEW i \in DOMAIN todo[t]
               PROVE  todo[t][i].op \in {"lock", "unlock", "fork"} /\ todo[t][i].m \in Mutexes
    BY DEF HeldInv, TypeOK
  <2>1. todo[t] \in Seq(Operations)
    BY DEF HeldInv
  <2>2. todo[t][i] \in Operations
    BY <2>1
  <2>3. QED BY <2>2 DEF Operations
<1>2. QED BY <1>1, InitHeld, HeldInvInductive, PTL DEF Spec

\* What a thread waits for, and how that stands to the mutexes it holds.
LEMMA WaitsNested ==
  ASSUME HeldInv, NEW t \in Threads, WaitsFor(t) # Nil
  PROVE  /\ Head(todo[t]).m \in Mutexes /\ owner[Head(todo[t]).m] = WaitsFor(t)
         /\ \A n \in Mutexes : owner[n] = t => Nests(entry[t], n, Head(todo[t]).m)
<1> DEFINE q == todo[t]
<1>1. /\ q # <<>> /\ Head(q).op = "lock" /\ q \in Seq(Operations) /\ Ordered(q) /\ Keeps(entry[t], q)
      /\ Head(q) = q[1] /\ 1 \in 1..Len(q)
  BY DEF WaitsFor, HeldInv
<1>a. WaitsFor(t) = owner[q[1].m] /\ q = todo[t]
  BY <1>1 DEF WaitsFor
<1>b. \A n \in Mutexes : owner[n] = t <=> HeldFrom(q, 1, n)
  BY DEF HeldInv
<1> HIDE DEF q
<1>2. PICK m \in Mutexes : Takes(q, 1, m)
  <2>1. \/ ForksHere(q, 1)
        \/ \E m \in Mutexes : Takes(q, 1, m) \/ Returns(q, 1, m)
    BY <1>1 DEF Ordered
  <2>2. QED BY <1>1, <2>1, OpNames DEF ForksHere, Returns
<1>3. q[1].m = m /\ q[1] = Lock(m)
  BY <1>2, OpNames DEF Takes
<1>4. \A n \in Mutexes : owner[n] = t => Nests(entry[t], n, m)
  BY <1>1, <1>3, <1>b DEF Keeps
<1>5. QED BY <1>1, <1>2, <1>3, <1>4, <1>a

\* No deadlock but the one of fork and the clean-up after it: no threads wait
\* for one another in a circle, and none for itself, unless one of them forks
\* while another is in pk11_get_session after an earlier fork; however many
\* threads there are and however many operation types have a lock.
THEOREM LocksOnlyKnownCircles ==
  ASSUME Calls \subseteq PairedCalls
  PROVE  Spec => []NoWaitCycle
<1>1. HeldInv => NoWaitCycle
  <2> SUFFICES ASSUME HeldInv, NEW W \in SUBSET Threads, Circle(W), ~Known(W)
               PROVE  FALSE
    BY DEF NoWaitCycle
  <2>a. W # {} /\ \A t \in W : WaitsFor(t) \in W
    BY DEF Circle
  <2> DEFINE Wanted(t) == Head(todo[t]).m
  <2>b. ASSUME NEW t \in W
        PROVE  /\ Wanted(t) \in Mutexes
               /\ \E u \in W : owner[Wanted(t)] = u /\ Nests(entry[u], Wanted(t), Wanted(u))
    <3>1. t \in Threads /\ WaitsFor(t) \in W /\ WaitsFor(t) # Nil
      BY <2>a, LocksAssumption
    <3>2. Wanted(t) \in Mutexes /\ owner[Wanted(t)] = WaitsFor(t)
      BY <3>1, WaitsNested
    <3>3. PICK u \in W : u = WaitsFor(t)
      BY <3>1
    <3>4. u \in Threads /\ WaitsFor(u) # Nil
      BY <2>a, LocksAssumption
    <3>5. \A n \in Mutexes : owner[n] = u => Nests(entry[u], n, Wanted(u))
      BY <3>4, WaitsNested
    <3>6. QED BY <3>2, <3>3, <3>5
  <2>c. CASE \A t \in W : entry[t] # "fork"
    <3> HIDE DEF Wanted
    <3>1. PICK t \in W : TRUE
      BY <2>a
    <3>2. PICK u \in W : Nests(entry[u], Wanted(t), Wanted(u))
      BY <2>b
    <3>3. ~IsSession(Wanted(u))
      BY <2>c, <3>2 DEF Nests
    <3>4. PICK v \in W : Nests(entry[v], Wanted(u), Wanted(v))
      BY <2>b
    <3>5. QED BY <2>c, <3>3, <3>4 DEF Nests
  <2>d. CASE \A t \in W : entry[t] # "forked"
    <3> DEFINE Height(t) == LenM - Rank(Wanted(t))
               Heights == {Height(t) : t \in W}
    <3> HIDE DEF Wanted
    <3>1. ASSUME NEW t \in W
          PROVE  /\ Rank(Wanted(t)) \in 1..LenM /\ Height(t) \in Nat
                 /\ \E u \in W : Rank(Wanted(t)) < Rank(Wanted(u))
      <4>1. Rank(Wanted(t)) \in 1..LenM /\ Height(t) \in Nat
        BY <2>b, RankFacts, Types
      <4>2. QED BY <2>b, <2>d, <4>1 DEF Nests
    <3>2. Heights \subseteq Nat /\ Heights # {}
      BY <2>a, <3>1
    <3>3. PICK x \in Heights : \A y \in Heights : ~ (<<y, x>> \in OpToRel(<, Nat))
      BY <3>2, NatLessThanWellFounded, WFMin
    <3>4. PICK t \in W : x = Height(t)
      OBVIOUS
    <3>5. PICK u \in W : Rank(Wanted(t)) < Rank(Wanted(u))
      BY <3>1
    <3>6. Height(u) < x /\ Height(u) \in Heights /\ Height(u) \in Nat /\ x \in Nat
      <4>1. /\ Height(u) \in Nat /\ Height(t) \in Nat /\ LenM \in Nat
            /\ Rank(Wanted(t)) \in 1..LenM /\ Rank(Wanted(u)) \in 1..LenM
        BY <3>1, Types
      <4>2. Height(u) \in Heights
        OBVIOUS
      <4>3. Height(u) = LenM - Rank(Wanted(u)) /\ Height(t) = LenM - Rank(Wanted(t))
        OBVIOUS
      <4> HIDE DEF Height, Heights
      <4>4. QED BY <4>1, <4>2, <4>3, <3>4, <3>5
    <3>7. QED BY <3>3, <3>6 DEF OpToRel
  <2>e. QED
    <3>1. ASSUME NEW t \in W, NEW u \in W, entry[t] = "forked", entry[u] = "fork" PROVE FALSE
      BY <3>1 DEF Known
    <3>2. QED BY <2>c, <2>d, <3>1
<1>2. QED BY <1>1, InitHeld, HeldInvInductive, PTL DEF Spec

\* A process forks with all its mutexes in the hands of the thread that forks,
\* so the child's only thread can return every one.
THEOREM ForkingIsAlone ==
  ASSUME Calls \subseteq PairedCalls
  PROVE  Spec => []ForksAlone
<1>1. HeldInv => ForksAlone
  <2> SUFFICES ASSUME HeldInv, NEW t \in Threads, todo[t] # <<>>, Head(todo[t]).op = "fork",
                      NEW m \in Mutexes
               PROVE  owner[m] = t
    BY DEF ForksAlone
  <2> DEFINE q == todo[t]
  <2>1. /\ q \in Seq(Operations) /\ Ordered(q) /\ Head(q) = q[1] /\ 1 \in 1..Len(q)
        /\ q[1].op = "fork" /\ (owner[m] = t <=> HeldFrom(q, 1, m))
    BY DEF HeldInv
  <2> HIDE DEF q
  <2>2. \/ ForksHere(q, 1)
        \/ \E n \in Mutexes : Takes(q, 1, n) \/ Returns(q, 1, n)
    BY <2>1 DEF Ordered
  <2>3. ForksHere(q, 1)
    BY <2>1, <2>2, OpNames DEF Takes, Returns
  <2>4. QED BY <2>1, <2>3 DEF ForksHere
<1>2. QED BY <1>1, InitHeld, HeldInvInductive, PTL DEF Spec
=============================================================================
