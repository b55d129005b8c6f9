--------------------------- MODULE EngineOps_proofs ---------------------------
(***************************************************************************)
(* Theorems about Pk11Cipher, Pk11Slots and DevCrypto, for every value of  *)
(* their constants, and with those of Pk11Digest and Pk11DsaDh what        *)
(* MCEngineOps says of them together.                                      *)
(*                                                                         *)
(* A context's cipher runs in a session of its own, with the key and the   *)
(* direction it asked for, for any number of contexts, sessions and keys.  *)
(* P is the set of sessions in the free list.  As long as the calls of     *)
(* SharesAfter work, every other session belongs to one context, and the   *)
(* object a session caches is no other's.                                  *)
(*                                                                         *)
(* A slot registers what it takes and the hardware has, although the       *)
(* answers of one slot are kept while the next one is asked.  The device   *)
(* of devcrypto is open while it is counted, and every context has its     *)
(* own session there.                                                      *)
(***************************************************************************)
EXTENDS MCEngineOps, FiniteSetTheorems, TLAPS

-----------------------------------------------------------------------------
(* Numbers: a property of sets of numbers in place of one of predicates.     *)

LEMMA LeastNumber ==
  ASSUME NEW W \in SUBSET Nat, W # {}
  PROVE  \E m \in W : \A k \in W : m <= k
<1>1. PICK n \in W : TRUE
  OBVIOUS
<1> DEFINE S == 0..n
           R == StrictSubsetOrdering(S)
           T == {0..m : m \in {k \in W : k <= n}}
<1>2. IsFiniteSet(S)
  BY <1>1, FS_Interval
<1>3. IsWellFoundedOn(R, FiniteSubsetsOf(S))
  BY FS_StrictSubsetOrderingWellFounded
<1>4. T \subseteq FiniteSubsetsOf(S)
  <2>1. T \subseteq SUBSET S
    BY <1>1
  <2>2. QED BY <2>1, <1>2, FS_FiniteSubsetsOfFinite
<1>5. T # {}
  BY <1>1
<1>6. PICK x \in T : \A y \in T : ~ (<<y, x>> \in R)
  <2> HIDE DEF R, T
  <2>1. QED BY <1>3, <1>4, <1>5, WFMin
<1>7. PICK m \in W : m <= n /\ x = 0..m
  BY <1>6
<1>8. \A k \in W : m <= k
  <2> SUFFICES ASSUME NEW k \in W, k < m PROVE FALSE
    OBVIOUS
  <2>1. 0..k \in T
    BY <1>7, <1>1
  <2>2. 0..k \subseteq x /\ 0..k # x /\ 0..k \in SUBSET S /\ x \in SUBSET S
    BY <1>7, <1>1
  <2>3. <<0..k, x>> \in R
    BY <2>2, Zenon DEF StrictSubsetOrdering
  <2>4. QED BY <2>1, <2>3, <1>6
<1>9. QED BY <1>7, <1>8

LEMMA SetInduction ==
  ASSUME NEW G, 0 \in G, \A n \in Nat : n \in G => n + 1 \in G
  PROVE  Nat \subseteq G
<1> SUFFICES ASSUME Nat \ G # {} PROVE FALSE
  OBVIOUS
<1>1. PICK m \in Nat \ G : \A k \in Nat \ G : m <= k
  BY LeastNumber
<1>2. m # 0 /\ m - 1 \in Nat
  BY <1>1
<1>3. QED BY <1>1, <1>2

\* What counts in an instance is what counts here.
LEMMA SameCounts ==
  ASSUME NEW S
  PROVE  /\ V!IsFiniteSet(S) <=> IsFiniteSet(S)
         /\ D!IsFiniteSet(S) <=> IsFiniteSet(S)
         /\ K!IsFiniteSet(S) <=> IsFiniteSet(S)
         /\ V!Cardinality(S) = Cardinality(S) /\ L!Cardinality(S) = Cardinality(S)
         /\ D!Cardinality(S) = Cardinality(S)
<1>1. V!IsFiniteSet(S) <=> IsFiniteSet(S)
  BY DEF V!IsFiniteSet, IsFiniteSet
<1>2. D!IsFiniteSet(S) <=> IsFiniteSet(S)
  BY DEF D!IsFiniteSet, IsFiniteSet
<1>3. K!IsFiniteSet(S) <=> IsFiniteSet(S)
  BY DEF K!IsFiniteSet, IsFiniteSet
<1>4. V!Cardinality(S) = Cardinality(S)
  BY DEF V!Cardinality, Cardinality
<1>5. L!Cardinality(S) = Cardinality(S)
  BY DEF L!Cardinality, Cardinality
<1>6. D!Cardinality(S) = Cardinality(S)
  BY DEF D!Cardinality, Cardinality
<1>7. QED BY <1>1, <1>2, <1>3, <1>4, <1>5, <1>6

-----------------------------------------------------------------------------
(* The free list of the ciphers is linked like that of the digests.        *)

\* The list has the sessions of the finite set P.
Pool(P) == P \subseteq Sessions /\ IsFiniteSet(P) /\ FreeList(P)

LEMMA DigestNil == Nil \notin DigestSessions
BY OpsAssumption DEF D!DigestAssumption

LEMMA PoolLinked ==
  ASSUME NEW P
  PROVE  /\ FreeList(P) <=> D!Linked(P, head, next)
         /\ FreeList(P)' <=> D!Linked(P, head', next')
BY SameCounts DEF FreeList, D!Linked, D!Order

LEMMA PoolStarts == PoolInit => Pool({}) /\ PoolTypeOK
<1>1. IsFiniteSet({})
  BY FS_EmptySet
<1>2. QED BY <1>1, D!LinkedNone, DigestNil, PoolLinked DEF Pool, PoolInit, PoolTypeOK

\* An empty list head means that no session is in the list.
LEMMA PoolEmpty ==
  ASSUME NEW P, Pool(P)
  PROVE  /\ head = Nil <=> P = {}
         /\ head # Nil => head \in P
BY PoolLinked, PoolAssumption, D!LinkedFirst, DigestNil, SameCounts DEF Pool

\* pk11_get_session takes one session out of the list.
LEMMA PoolTake ==
  ASSUME PoolTypeOK, NEW P, Pool(P), Take, NEW s, s = head
  PROVE  s \in P /\ Pool(P \ {s})' /\ PoolTypeOK'
<1>1. /\ s \in P /\ s \in Sessions /\ next \in [Sessions -> Sessions \cup {Nil}]
      /\ P \in SUBSET Sessions /\ IsFiniteSet(P) /\ D!Linked(P, s, next)
  BY PoolEmpty, PoolLinked DEF Pool, Take, PoolTypeOK
<1>2. s # Nil /\ head' = next[s] /\ next' = [next EXCEPT ![s] = Nil]
  BY DEF Take
<1>3. D!Linked(P \ {s}, next[s], [next EXCEPT ![s] = Nil])
  BY <1>1, <1>2, PoolAssumption, D!LinkedTake, DigestNil, SameCounts
<1>4. FreeList(P \ {s})'
  BY <1>2, <1>3, PoolLinked
<1>5. IsFiniteSet(P \ {s})
  BY <1>1, FS_RemoveElement
<1>6. PoolTypeOK'
  BY <1>1, <1>2 DEF PoolTypeOK
<1>7. QED BY <1>1, <1>4, <1>5, <1>6 DEF Pool

\* pk11_return_session puts one session into it that must not be there.
LEMMA PoolReturn ==
  ASSUME PoolTypeOK, NEW P, Pool(P), NEW s \in Sessions, s \notin P, Return(s)
  PROVE  Pool(P \cup {s})' /\ PoolTypeOK'
<1>1. /\ head \in Sessions \cup {Nil} /\ next \in [Sessions -> Sessions \cup {Nil}]
      /\ P \in SUBSET Sessions /\ IsFiniteSet(P) /\ D!Linked(P, head, next)
  BY PoolLinked DEF Pool, PoolTypeOK
<1>2. head' = s /\ next' = [next EXCEPT ![s] = head]
  BY DEF Return
<1>3. D!Linked(P \cup {s}, s, [next EXCEPT ![s] = head])
  BY <1>1, D!LinkedReturn, DigestNil, SameCounts
<1>4. FreeList(P \cup {s})'
  BY <1>2, <1>3, PoolLinked
<1>5. IsFiniteSet(P \cup {s})
  BY <1>1, FS_AddElement
<1>6. PoolTypeOK'
  BY <1>1, <1>2 DEF PoolTypeOK
<1>7. QED BY <1>1, <1>4, <1>5, <1>6 DEF Pool

\* Nothing else changes it.
LEMMA PoolSame ==
  ASSUME PoolTypeOK, NEW P, Pool(P), UNCHANGED poolVars
  PROVE  Pool(P)' /\ PoolTypeOK'
BY DEF Pool, FreeList, PoolTypeOK, poolVars

-----------------------------------------------------------------------------
(* The symmetric ciphers. *)

\* check_new_cipher_key does not look at the type of a key, and it compares no
\* more of it than pk11_get_cipher_key has saved.  What follows is true as far
\* as that tells keys apart: keys are not longer than what is saved, and no key
\* of one type has the bytes of one of another type.
TypeTold == \A q, r \in Requests : Saved(q.bytes) = r.bytes => q.type = r.type
BytesTold == \A q, r \in Requests : Saved(q.bytes) = r.bytes => q.bytes = r.bytes
OneType == \A q, r \in Requests : q.type = r.type

\* The calls work whose failure leaves a session in two places.  A key that
\* could not be destroyed is accepted for another one if it has its type.
Fine == faults \cap SharesAfter = {} /\ ("destroy" \in faults => OneType)
Exact == "destroy" \notin faults /\ BytesTold

Typed == TypeOK /\ \A c \in Ctxs : pc[c] # "idle" => request[c] # Nil

\* The sessions in the list, and those pk11_cipher_init works on, are open and
\* have no operation; the others belong to contexts.
Placed(P) ==
  /\ P \subseteq alive
  /\ \A s \in P : s \in open /\ active[s] = Nil
  /\ \A s \in Sessions \ alive : active[s] = Nil
  /\ \A c \in Ctxs : state[c] # Nil => state[c] \in alive \ P
  /\ \A c \in Ctxs : local[c] # Nil => local[c] \in open \ P /\ active[local[c]] = Nil

\* No session is in two contexts.
Apart ==
  \A c, d \in Ctxs :
    c # d => /\ state[c] # Nil => state[c] # state[d] /\ state[c] # local[d]
             /\ local[c] # Nil => local[c] # local[d]

\* A context that has been initialized has an operation.
Busy ==
  \A c \in Ctxs :
    /\ pc[c] = "idle" /\ state[c] # Nil => state[c] \in open /\ active[state[c]] # Nil
    /\ pc[c] = "again" => state[c] = local[c]
    /\ pc[c] \in {"check", "key", "final", "start"} => state[c] = Nil

\* Sessions and key objects correspond.
Cached ==
  /\ \A x \in Handles : obj[x] # Nil => \E s \in Sessions : key[s] = x
  /\ \A s \in Sessions : key[s] # Nil => obj[key[s]] # Nil /\ saved[s] = Saved(obj[key[s]].bytes)
  /\ \A s, t \in Sessions : s # t /\ key[s] # Nil => key[s] # key[t]
  /\ \A x \in Handles : obj[x] # Nil => \E q \in Requests : obj[x].type = q.type /\ obj[x].bytes = q.bytes

\* The key object that is going to be used is the one that was asked for.
Keyed ==
  \A c \in Ctxs :
    /\ pc[c] = "key" => key[local[c]] = Nil
    /\ pc[c] \in {"again", "start"} => key[local[c]] # Nil
    /\ pc[c] \in {"final", "again", "start"} /\ key[local[c]] # Nil =>
         /\ obj[key[local[c]]].type = request[c].type
         /\ Exact => obj[key[local[c]]].bytes = request[c].bytes

Runs(c) ==
  /\ state[c] # Nil
  /\ active[state[c]] = [by |-> c, type |-> request[c].type, bytes |-> request[c].bytes,
                         encrypt |-> request[c].encrypt]
Streams == Exact => \A c \in Ctxs : pc[c] = "idle" /\ request[c] # Nil => Runs(c)

\* A session is lost only with a context that is initialized while it has one.
Kept(P) ==
  ~InitAgain => \A s \in alive \ P : \E c \in Ctxs : state[c] = s \/ local[c] = s

Good(P) == Placed(P) /\ Apart /\ Busy /\ Cached /\ Keyed /\ Streams /\ Kept(P)
CipherInv == Typed /\ (Fine => \E P : Pool(P) /\ Good(P))

LEMMA RequestFacts ==
  \A r \in Requests : /\ r.type \in Types /\ r.bytes \in Keys /\ r.encrypt \in BOOLEAN
                      /\ r # Nil /\ r.bytes # <<>>
<1> SUFFICES ASSUME NEW r \in Requests
             PROVE  /\ r.type \in Types /\ r.bytes \in Keys /\ r.encrypt \in BOOLEAN
                    /\ r # Nil /\ r.bytes # <<>>
  OBVIOUS
<1>1. r.type \in Types /\ r.bytes \in Keys
  BY DEF Types, Keys
<1>2. r.encrypt \in BOOLEAN /\ r # Nil
  BY CipherAssumption
<1>3. Len(<<>>) = 0 /\ Len(r.bytes) > 0
  BY CipherAssumption
<1>4. QED BY <1>1, <1>2, <1>3

LEMMA NilFacts ==
  Nil \notin Ctxs /\ Nil \notin Handles /\ Nil \notin Sessions /\ Nil \notin Operation /\ Nil \notin Object
BY CipherAssumption, PoolAssumption

\* pk11_cipher_init refuses the request,
LEMMA Refuses ==
  ASSUME Typed, Fine, TypeTold, NEW P, Pool(P), Good(P), NEW c \in Ctxs,
         faults' = faults,
         pc[c] = "idle",
         state[c] = Nil \/ InitAgain,
         state' = [state EXCEPT ![c] = Nil],
         Fail(c),
         UNCHANGED <<poolVars, alive, open, active, obj, key, saved, encrypt>>
  PROVE  \E Q : Pool(Q)' /\ Good(Q)'
<1> DEFINE Q == P
<1>1. Pool(Q)'
  BY PoolSame DEF Typed, TypeOK
<1>2. TypeOK /\ Placed(P) /\ Apart /\ Busy /\ Cached /\ Keyed /\ Streams /\ Kept(P)
  BY DEF Good, Typed
<1>3. Placed(Q)'
  BY <1>2, NilFacts DEF TypeOK, Placed, Apart, Busy, Fail
<1>4. Apart'
  BY <1>2, NilFacts DEF TypeOK, Placed, Apart, Busy, Fail
<1>5. Busy'
  BY <1>2, NilFacts DEF TypeOK, Placed, Apart, Busy, Fail
<1>6. Cached'
  BY <1>2, NilFacts DEF TypeOK, Cached, Placed, Fail
<1>7. Keyed'
  BY <1>2, NilFacts DEF TypeOK, Keyed, Placed, Apart, Exact, Cached, Busy, Fail
<1>8. Streams'
  BY <1>2, NilFacts DEF TypeOK, Streams, Runs, Exact, Placed, Apart, Busy, Keyed, Fail
<1>9. Kept(Q)'
  BY <1>2, NilFacts DEF TypeOK, Kept, Placed, Apart, Busy, Fail
<1>10. QED BY <1>1, <1>3, <1>4, <1>5, <1>6, <1>7, <1>8, <1>9 DEF Good

\* gets the first session of the list,
LEMMA InitTakes ==
  ASSUME Typed, Fine, TypeTold, NEW P, Pool(P), Good(P), NEW c \in Ctxs,
         faults' = faults,
         pc[c] = "idle",
         state[c] = Nil \/ InitAgain,
         state' = [state EXCEPT ![c] = Nil],
         NEW r \in Requests,
         request' = [request EXCEPT ![c] = r],
         pc' = [pc EXCEPT ![c] = "check"],
         Take,
         local' = [local EXCEPT ![c] = head],
         UNCHANGED <<alive, open, active, obj, key, saved, encrypt>>
  PROVE  \E Q : Pool(Q)' /\ Good(Q)'
<1>. PICK s : s = head
  OBVIOUS
<1>b. PoolTypeOK
  BY DEF Typed, TypeOK
<1>a. s \in P /\ s # Nil /\ s \in Sessions /\ local' = [local EXCEPT ![c] = s] /\ r # Nil
  BY <1>b, PoolTake, NilFacts, RequestFacts DEF Pool
<1> DEFINE Q == P \ {s}
<1>1. Pool(Q)'
  BY PoolTake, <1>b
<1>2. TypeOK /\ Placed(P) /\ Apart /\ Busy /\ Cached /\ Keyed /\ Streams /\ Kept(P)
  BY DEF Good, Typed
<1>3. Placed(Q)'
  BY <1>2, NilFacts, <1>a DEF TypeOK, Placed, Apart, Busy
<1>4. Apart'
  BY <1>2, NilFacts, <1>a DEF TypeOK, Placed, Apart, Busy
<1>5. Busy'
  BY <1>2, NilFacts, <1>a DEF TypeOK, Placed, Apart, Busy
<1>6. Cached'
  BY <1>2, NilFacts, <1>a DEF TypeOK, Cached, Placed
<1>7. Keyed'
  BY <1>2, NilFacts, <1>a DEF TypeOK, Keyed, Placed, Apart, Exact, Cached, Busy
<1>8. Streams'
  BY <1>2, NilFacts, <1>a DEF TypeOK, Streams, Runs, Exact, Placed, Apart, Busy, Keyed
<1>9. Kept(Q)'
  BY <1>2, NilFacts, <1>a DEF TypeOK, Kept, Placed, Apart, Busy
<1>10. QED BY <1>1, <1>3, <1>4, <1>5, <1>6, <1>7, <1>8, <1>9 DEF Good

\* or a new one.
LEMMA InitAllocates ==
  ASSUME Typed, Fine, TypeTold, NEW P, Pool(P), Good(P), NEW c \in Ctxs,
         faults' = faults,
         pc[c] = "idle",
         state[c] = Nil \/ InitAgain,
         state' = [state EXCEPT ![c] = Nil],
         NEW r \in Requests,
         request' = [request EXCEPT ![c] = r],
         pc' = [pc EXCEPT ![c] = "check"],
         NEW s \in Sessions \ alive,
         local' = [local EXCEPT ![c] = s],
         alive' = alive \cup {s},
         open' = open \cup {s},
         UNCHANGED <<poolVars, active, obj, key, saved, encrypt>>
  PROVE  \E Q : Pool(Q)' /\ Good(Q)'
<1> DEFINE Q == P
<1>1. Pool(Q)'
  BY PoolSame DEF Typed, TypeOK
<1>2. TypeOK /\ Placed(P) /\ Apart /\ Busy /\ Cached /\ Keyed /\ Streams /\ Kept(P)
  BY DEF Good, Typed
<1>3. Placed(Q)'
  BY <1>2, NilFacts, RequestFacts DEF TypeOK, Placed, Apart, Busy
<1>4. Apart'
  BY <1>2, NilFacts, RequestFacts DEF TypeOK, Placed, Apart, Busy
<1>5. Busy'
  BY <1>2, NilFacts, RequestFacts DEF TypeOK, Placed, Apart, Busy
<1>6. Cached'
  BY <1>2, NilFacts, RequestFacts DEF TypeOK, Cached, Placed
<1>7. Keyed'
  BY <1>2, NilFacts, RequestFacts DEF TypeOK, Keyed, Placed, Apart, Exact, Cached, Busy
<1>8. Streams'
  BY <1>2, NilFacts, RequestFacts DEF TypeOK, Streams, Runs, Exact, Placed, Apart, Busy, Keyed
<1>9. Kept(Q)'
  BY <1>2, NilFacts, RequestFacts DEF TypeOK, Kept, Placed, Apart, Busy
<1>10. QED BY <1>1, <1>3, <1>4, <1>5, <1>6, <1>7, <1>8, <1>9 DEF Good

\* The cached key is the current one, or could not be destroyed: use it in the same direction,
LEMMA KeyKept ==
  ASSUME Typed, Fine, TypeTold, NEW P, Pool(P), Good(P), NEW c \in Ctxs,
         faults' = faults,
         pc[c] = "check",
         SameKey(local[c], request[c].bytes) \/ "destroy" \in faults,
         key[local[c]] # Nil,
         UNCHANGED <<obj, key>>,
         state' = [state EXCEPT ![c] = local[c]],
         pc' = [pc EXCEPT ![c] = "again"],
         UNCHANGED <<poolVars, alive, open, active, saved, encrypt, request, local>>
  PROVE  \E Q : Pool(Q)' /\ Good(Q)'
<1>. PICK s : s = local[c]
  OBVIOUS
<1>. PICK r : r = request[c]
  OBVIOUS
<1>a. s \in Sessions /\ s # Nil /\ s = local[c] /\ r \in Requests /\ r # Nil /\ r = request[c]
  BY NilFacts DEF Typed, TypeOK
<1>b. /\ obj[key[s]].type = r.type
      /\ Exact => obj[key[s]].bytes = r.bytes
  BY <1>a, NilFacts DEF Good, Cached, SameKey, TypeTold, BytesTold, Exact, Fine, OneType, Typed, TypeOK
<1> DEFINE Q == P
<1>1. Pool(Q)'
  BY PoolSame DEF Typed, TypeOK
<1>2. TypeOK /\ Placed(P) /\ Apart /\ Busy /\ Cached /\ Keyed /\ Streams /\ Kept(P)
  BY DEF Good, Typed
<1>3. Placed(Q)'
  BY <1>2, NilFacts, <1>a, <1>b DEF TypeOK, Placed, Apart, Busy
<1>4. Apart'
  BY <1>2, NilFacts, <1>a, <1>b DEF TypeOK, Placed, Apart, Busy
<1>5. Busy'
  BY <1>2, NilFacts, <1>a, <1>b DEF TypeOK, Placed, Apart, Busy
<1>6. Cached'
  BY <1>2, NilFacts, <1>a, <1>b DEF TypeOK, Cached, Placed
<1>7. Keyed'
  BY <1>2, NilFacts, <1>a, <1>b DEF TypeOK, Keyed, Placed, Apart, Exact, Cached, Busy
<1>8. Streams'
  BY <1>2, NilFacts, <1>a, <1>b DEF TypeOK, Streams, Runs, Exact, Placed, Apart, Busy, Keyed
<1>9. Kept(Q)'
  BY <1>2, NilFacts, <1>a, <1>b DEF TypeOK, Kept, Placed, Apart, Busy
<1>10. QED BY <1>1, <1>3, <1>4, <1>5, <1>6, <1>7, <1>8, <1>9 DEF Good

\* or in the other one.
LEMMA KeyKeptAgain ==
  ASSUME Typed, Fine, TypeTold, NEW P, Pool(P), Good(P), NEW c \in Ctxs,
         faults' = faults,
         pc[c] = "check",
         SameKey(local[c], request[c].bytes) \/ "destroy" \in faults,
         key[local[c]] # Nil,
         UNCHANGED <<obj, key>>,
         state' = state,
         pc' = [pc EXCEPT ![c] = "final"],
         UNCHANGED <<poolVars, alive, open, active, saved, encrypt, request, local>>
  PROVE  \E Q : Pool(Q)' /\ Good(Q)'
<1>. PICK s : s = local[c]
  OBVIOUS
<1>. PICK r : r = request[c]
  OBVIOUS
<1>a. s \in Sessions /\ s # Nil /\ s = local[c] /\ r \in Requests /\ r # Nil /\ r = request[c]
  BY NilFacts DEF Typed, TypeOK
<1>b. /\ obj[key[s]].type = r.type
      /\ Exact => obj[key[s]].bytes = r.bytes
  BY <1>a, NilFacts DEF Good, Cached, SameKey, TypeTold, BytesTold, Exact, Fine, OneType, Typed, TypeOK
<1> DEFINE Q == P
<1>1. Pool(Q)'
  BY PoolSame DEF Typed, TypeOK
<1>2. TypeOK /\ Placed(P) /\ Apart /\ Busy /\ Cached /\ Keyed /\ Streams /\ Kept(P)
  BY DEF Good, Typed
<1>3. Placed(Q)'
  BY <1>2, NilFacts, <1>a, <1>b DEF TypeOK, Placed, Apart, Busy
<1>4. Apart'
  BY <1>2, NilFacts, <1>a, <1>b DEF TypeOK, Placed, Apart, Busy
<1>5. Busy'
  BY <1>2, NilFacts, <1>a, <1>b DEF TypeOK, Placed, Apart, Busy
<1>6. Cached'
  BY <1>2, NilFacts, <1>a, <1>b DEF TypeOK, Cached, Placed
<1>7. Keyed'
  BY <1>2, NilFacts, <1>a, <1>b DEF TypeOK, Keyed, Placed, Apart, Exact, Cached, Busy
<1>8. Streams'
  BY <1>2, NilFacts, <1>a, <1>b DEF TypeOK, Streams, Runs, Exact, Placed, Apart, Busy, Keyed
<1>9. Kept(Q)'
  BY <1>2, NilFacts, <1>a, <1>b DEF TypeOK, Kept, Placed, Apart, Busy
<1>10. QED BY <1>1, <1>3, <1>4, <1>5, <1>6, <1>7, <1>8, <1>9 DEF Good

\* The session has no key,
LEMMA NoKeyYet ==
  ASSUME Typed, Fine, TypeTold, NEW P, Pool(P), Good(P), NEW c \in Ctxs,
         faults' = faults,
         pc[c] = "check",
         key[local[c]] = Nil,
         UNCHANGED <<obj, key, state>>,
         pc' = [pc EXCEPT ![c] = "key"],
         UNCHANGED <<poolVars, alive, open, active, saved, encrypt, request, local>>
  PROVE  \E Q : Pool(Q)' /\ Good(Q)'
<1>. PICK s : s = local[c]
  OBVIOUS
<1>. PICK r : r = request[c]
  OBVIOUS
<1>a. s \in Sessions /\ s # Nil /\ s = local[c] /\ r \in Requests /\ r # Nil /\ r = request[c]
  BY NilFacts DEF Typed, TypeOK
<1> DEFINE Q == P
<1>1. Pool(Q)'
  BY PoolSame DEF Typed, TypeOK
<1>2. TypeOK /\ Placed(P) /\ Apart /\ Busy /\ Cached /\ Keyed /\ Streams /\ Kept(P)
  BY DEF Good, Typed
<1>3. Placed(Q)'
  BY <1>2, NilFacts, <1>a DEF TypeOK, Placed, Apart, Busy
<1>4. Apart'
  BY <1>2, NilFacts, <1>a DEF TypeOK, Placed, Apart, Busy
<1>5. Busy'
  BY <1>2, NilFacts, <1>a DEF TypeOK, Placed, Apart, Busy
<1>6. Cached'
  BY <1>2, NilFacts, <1>a DEF TypeOK, Cached, Placed
<1>7. Keyed'
  BY <1>2, NilFacts, <1>a DEF TypeOK, Keyed, Placed, Apart, Exact, Cached, Busy
<1>8. Streams'
  BY <1>2, NilFacts, <1>a DEF TypeOK, Streams, Runs, Exact, Placed, Apart, Busy, Keyed
<1>9. Kept(Q)'
  BY <1>2, NilFacts, <1>a DEF TypeOK, Kept, Placed, Apart, Busy
<1>10. QED BY <1>1, <1>3, <1>4, <1>5, <1>6, <1>7, <1>8, <1>9 DEF Good

\* or no longer the one it had.
LEMMA KeyDropped ==
  ASSUME Typed, Fine, TypeTold, NEW P, Pool(P), Good(P), NEW c \in Ctxs,
         faults' = faults,
         pc[c] = "check",
         key[local[c]] # Nil,
         DropKey(local[c]),
         state' = state,
         pc' = [pc EXCEPT ![c] = "key"],
         UNCHANGED <<poolVars, alive, open, active, saved, encrypt, request, local>>
  PROVE  \E Q : Pool(Q)' /\ Good(Q)'
<1>. PICK s : s = local[c]
  OBVIOUS
<1>. PICK r : r = request[c]
  OBVIOUS
<1>a. s \in Sessions /\ s # Nil /\ s = local[c] /\ r \in Requests /\ r # Nil /\ r = request[c]
  BY NilFacts DEF Typed, TypeOK
<1>b. obj' = [obj EXCEPT ![key[s]] = Nil] /\ key' = [key EXCEPT ![s] = Nil] /\ key[s] \in Handles
  BY <1>a DEF DropKey, Typed, TypeOK
<1> DEFINE Q == P
<1>1. Pool(Q)'
  BY PoolSame DEF Typed, TypeOK
<1>2. TypeOK /\ Placed(P) /\ Apart /\ Busy /\ Cached /\ Keyed /\ Streams /\ Kept(P)
  BY DEF Good, Typed
<1>3. Placed(Q)'
  BY <1>2, NilFacts, <1>a, <1>b DEF TypeOK, Placed, Apart, Busy
<1>4. Apart'
  BY <1>2, NilFacts, <1>a, <1>b DEF TypeOK, Placed, Apart, Busy
<1>5. Busy'
  BY <1>2, NilFacts, <1>a, <1>b DEF TypeOK, Placed, Apart, Busy
<1>6. Cached'
  BY <1>2, NilFacts, <1>a, <1>b DEF TypeOK, Cached, Placed
<1>7. Keyed'
  BY <1>2, NilFacts, <1>a, <1>b DEF TypeOK, Keyed, Placed, Apart, Exact, Cached, Busy
<1>8. Streams'
  BY <1>2, NilFacts, <1>a, <1>b DEF TypeOK, Streams, Runs, Exact, Placed, Apart, Busy, Keyed
<1>9. Kept(Q)'
  BY <1>2, NilFacts, <1>a, <1>b DEF TypeOK, Kept, Placed, Apart, Busy
<1>10. QED BY <1>1, <1>3, <1>4, <1>5, <1>6, <1>7, <1>8, <1>9 DEF Good

\* C_CreateObject makes one,
LEMMA KeyCreated ==
  ASSUME Typed, Fine, TypeTold, NEW P, Pool(P), Good(P), NEW c \in Ctxs,
         faults' = faults,
         pc[c] = "key",
         NEW x \in Handles,
         obj[x] = Nil,
         obj' = [obj EXCEPT ![x] = [type |-> request[c].type, bytes |-> request[c].bytes]],
         key' = [key EXCEPT ![local[c]] = x],
         saved' = [saved EXCEPT ![local[c]] = Saved(request[c].bytes)],
         pc' = [pc EXCEPT ![c] = "final"],
         UNCHANGED <<poolVars, alive, open, active, encrypt, state, request, local>>
  PROVE  \E Q : Pool(Q)' /\ Good(Q)'
<1>. PICK s : s = local[c]
  OBVIOUS
<1>. PICK r : r = request[c]
  OBVIOUS
<1>a. s \in Sessions /\ s # Nil /\ s = local[c] /\ r \in Requests /\ r # Nil /\ r = request[c]
  BY NilFacts DEF Typed, TypeOK
<1>. PICK o : o = [type |-> r.type, bytes |-> r.bytes]
  OBVIOUS
<1>b. /\ obj' = [obj EXCEPT ![x] = o] /\ key' = [key EXCEPT ![s] = x]
      /\ saved' = [saved EXCEPT ![s] = Saved(r.bytes)] /\ key[s] = Nil
      /\ o # Nil /\ o.type = r.type /\ o.bytes = r.bytes
  BY <1>a, RequestFacts, NilFacts DEF Object, Good, Keyed
<1> DEFINE Q == P
<1>1. Pool(Q)'
  BY PoolSame DEF Typed, TypeOK
<1>2. TypeOK /\ Placed(P) /\ Apart /\ Busy /\ Cached /\ Keyed /\ Streams /\ Kept(P)
  BY DEF Good, Typed
<1>3. Placed(Q)'
  BY <1>2, NilFacts, <1>a, <1>b DEF TypeOK, Placed, Apart, Busy
<1>4. Apart'
  BY <1>2, NilFacts, <1>a, <1>b DEF TypeOK, Placed, Apart, Busy
<1>5. Busy'
  BY <1>2, NilFacts, <1>a, <1>b DEF TypeOK, Placed, Apart, Busy
<1>6. Cached'
  BY <1>2, NilFacts, <1>a, <1>b DEF TypeOK, Cached, Placed
<1>7. Keyed'
  BY <1>2, NilFacts, <1>a, <1>b DEF TypeOK, Keyed, Placed, Apart, Exact, Cached, Busy
<1>8. Streams'
  BY <1>2, NilFacts, <1>a, <1>b DEF TypeOK, Streams, Runs, Exact, Placed, Apart, Busy, Keyed
<1>9. Kept(Q)'
  BY <1>2, NilFacts, <1>a, <1>b DEF TypeOK, Kept, Placed, Apart, Busy
<1>10. QED BY <1>1, <1>3, <1>4, <1>5, <1>6, <1>7, <1>8, <1>9 DEF Good

\* or not.
LEMMA KeyNotCreated ==
  ASSUME Typed, Fine, TypeTold, NEW P, Pool(P), Good(P), NEW c \in Ctxs,
         faults' = faults,
         pc[c] = "key",
         pc' = [pc EXCEPT ![c] = "final"],
         UNCHANGED <<poolVars, alive, open, active, obj, key, saved, encrypt, state, request, local>>
  PROVE  \E Q : Pool(Q)' /\ Good(Q)'
<1>. PICK s : s = local[c]
  OBVIOUS
<1>. PICK r : r = request[c]
  OBVIOUS
<1>a. s \in Sessions /\ s # Nil /\ s = local[c] /\ r \in Requests /\ r # Nil /\ r = request[c]
  BY NilFacts DEF Typed, TypeOK
<1> DEFINE Q == P
<1>1. Pool(Q)'
  BY PoolSame DEF Typed, TypeOK
<1>2. TypeOK /\ Placed(P) /\ Apart /\ Busy /\ Cached /\ Keyed /\ Streams /\ Kept(P)
  BY DEF Good, Typed
<1>3. Placed(Q)'
  BY <1>2, NilFacts, <1>a DEF TypeOK, Placed, Apart, Busy
<1>4. Apart'
  BY <1>2, NilFacts, <1>a DEF TypeOK, Placed, Apart, Busy
<1>5. Busy'
  BY <1>2, NilFacts, <1>a DEF TypeOK, Placed, Apart, Busy
<1>6. Cached'
  BY <1>2, NilFacts, <1>a DEF TypeOK, Cached, Placed
<1>7. Keyed'
  BY <1>2, NilFacts, <1>a DEF TypeOK, Keyed, Placed, Apart, Exact, Cached, Busy
<1>8. Streams'
  BY <1>2, NilFacts, <1>a DEF TypeOK, Streams, Runs, Exact, Placed, Apart, Busy, Keyed
<1>9. Kept(Q)'
  BY <1>2, NilFacts, <1>a DEF TypeOK, Kept, Placed, Apart, Busy
<1>10. QED BY <1>1, <1>3, <1>4, <1>5, <1>6, <1>7, <1>8, <1>9 DEF Good

\* pk11_cipher_init gives up and returns the session.
LEMMA GivenUp ==
  ASSUME Typed, Fine, TypeTold, NEW P, Pool(P), Good(P), NEW c \in Ctxs,
         faults' = faults,
         pc[c] = "final",
         Fail(c),
         Return(local[c]),
         UNCHANGED <<alive, open, active, obj, key, saved, encrypt, state>>
  PROVE  \E Q : Pool(Q)' /\ Good(Q)'
<1>. PICK s : s = local[c]
  OBVIOUS
<1>. PICK r : r = request[c]
  OBVIOUS
<1>a. s \in Sessions /\ s # Nil /\ s = local[c] /\ r \in Requests /\ r # Nil /\ r = request[c]
  BY NilFacts DEF Typed, TypeOK
<1>b. s \notin P /\ Return(s) /\ PoolTypeOK
  BY <1>a DEF Good, Typed, TypeOK, Placed
<1> DEFINE Q == P \cup {s}
<1>1. Pool(Q)'
  BY PoolReturn, <1>a, <1>b
<1>2. TypeOK /\ Placed(P) /\ Apart /\ Busy /\ Cached /\ Keyed /\ Streams /\ Kept(P)
  BY DEF Good, Typed
<1>3. Placed(Q)'
  BY <1>2, NilFacts, <1>a, <1>b DEF TypeOK, Placed, Apart, Busy, Fail
<1>4. Apart'
  BY <1>2, NilFacts, <1>a, <1>b DEF TypeOK, Placed, Apart, Busy, Fail
<1>5. Busy'
  BY <1>2, NilFacts, <1>a, <1>b DEF TypeOK, Placed, Apart, Busy, Fail
<1>6. Cached'
  BY <1>2, NilFacts, <1>a, <1>b DEF TypeOK, Cached, Placed, Fail
<1>7. Keyed'
  BY <1>2, NilFacts, <1>a, <1>b DEF TypeOK, Keyed, Placed, Apart, Exact, Cached, Busy, Fail
<1>8. Streams'
  BY <1>2, NilFacts, <1>a, <1>b DEF TypeOK, Streams, Runs, Exact, Placed, Apart, Busy, Keyed, Fail
<1>9. Kept(Q)'
  BY <1>2, NilFacts, <1>a, <1>b DEF TypeOK, Kept, Placed, Apart, Busy, Fail
<1>10. QED BY <1>1, <1>3, <1>4, <1>5, <1>6, <1>7, <1>8, <1>9 DEF Good

\* It goes on with a key.
LEMMA GoesOn ==
  ASSUME Typed, Fine, TypeTold, NEW P, Pool(P), Good(P), NEW c \in Ctxs,
         faults' = faults,
         pc[c] = "final",
         key[local[c]] # Nil,
         pc' = [pc EXCEPT ![c] = "start"],
         UNCHANGED <<poolVars, alive, open, active, obj, key, saved, encrypt, state, request, local>>
  PROVE  \E Q : Pool(Q)' /\ Good(Q)'
<1>. PICK s : s = local[c]
  OBVIOUS
<1>. PICK r : r = request[c]
  OBVIOUS
<1>a. s \in Sessions /\ s # Nil /\ s = local[c] /\ r \in Requests /\ r # Nil /\ r = request[c]
  BY NilFacts DEF Typed, TypeOK
<1> DEFINE Q == P
<1>1. Pool(Q)'
  BY PoolSame DEF Typed, TypeOK
<1>2. TypeOK /\ Placed(P) /\ Apart /\ Busy /\ Cached /\ Keyed /\ Streams /\ Kept(P)
  BY DEF Good, Typed
<1>3. Placed(Q)'
  BY <1>2, NilFacts, <1>a DEF TypeOK, Placed, Apart, Busy
<1>4. Apart'
  BY <1>2, NilFacts, <1>a DEF TypeOK, Placed, Apart, Busy
<1>5. Busy'
  BY <1>2, NilFacts, <1>a DEF TypeOK, Placed, Apart, Busy
<1>6. Cached'
  BY <1>2, NilFacts, <1>a DEF TypeOK, Cached, Placed
<1>7. Keyed'
  BY <1>2, NilFacts, <1>a DEF TypeOK, Keyed, Placed, Apart, Exact, Cached, Busy
<1>8. Streams'
  BY <1>2, NilFacts, <1>a DEF TypeOK, Streams, Runs, Exact, Placed, Apart, Busy, Keyed
<1>9. Kept(Q)'
  BY <1>2, NilFacts, <1>a DEF TypeOK, Kept, Placed, Apart, Busy
<1>10. QED BY <1>1, <1>3, <1>4, <1>5, <1>6, <1>7, <1>8, <1>9 DEF Good

\* The token accepts the key.
LEMMA Started ==
  ASSUME Typed, Fine, TypeTold, NEW P, Pool(P), Good(P), NEW c \in Ctxs,
         faults' = faults,
         pc[c] \in {"again", "start"},
         active' = [active EXCEPT ![local[c]] = [by |-> c, type |-> request[c].type, encrypt |-> request[c].encrypt, bytes |-> obj[key[local[c]]].bytes]],
         state' = [state EXCEPT ![c] = local[c]],
         pc' = [pc EXCEPT ![c] = "idle"],
         local' = [local EXCEPT ![c] = Nil],
         UNCHANGED <<poolVars, alive, open, obj, key, saved, request>>
  PROVE  \E Q : Pool(Q)' /\ Good(Q)'
<1>. PICK s : s = local[c]
  OBVIOUS
<1>. PICK r : r = request[c]
  OBVIOUS
<1>a. s \in Sessions /\ s # Nil /\ s = local[c] /\ r \in Requests /\ r # Nil /\ r = request[c]
  BY NilFacts DEF Typed, TypeOK
<1>. PICK o : o = [by |-> c, type |-> r.type, encrypt |-> r.encrypt, bytes |-> obj[key[s]].bytes]
  OBVIOUS
<1>b. /\ active' = [active EXCEPT ![s] = o] /\ state' = [state EXCEPT ![c] = s]
      /\ o # Nil
      /\ Exact => o = [by |-> c, type |-> r.type, bytes |-> r.bytes, encrypt |-> r.encrypt]
  <2>1. key[s] \in Handles /\ obj[key[s]] \in Object /\ obj[key[s]].bytes \in Keys
    BY <1>a, NilFacts DEF Good, Keyed, Cached, Typed, TypeOK, Object
  <2>2. o \in Operation
    BY <1>a, <2>1, RequestFacts DEF Operation
  <2>3. Exact => obj[key[s]].bytes = r.bytes
    BY <1>a DEF Good, Keyed
  <2>4. QED BY <1>a, <2>2, <2>3, NilFacts
<1> DEFINE Q == P
<1>1. Pool(Q)'
  BY PoolSame DEF Typed, TypeOK
<1>2. TypeOK /\ Placed(P) /\ Apart /\ Busy /\ Cached /\ Keyed /\ Streams /\ Kept(P)
  BY DEF Good, Typed
<1>3. Placed(Q)'
  BY <1>2, NilFacts, <1>a, <1>b DEF TypeOK, Placed, Apart, Busy
<1>4. Apart'
  BY <1>2, NilFacts, <1>a, <1>b DEF TypeOK, Placed, Apart, Busy
<1>5. Busy'
  BY <1>2, NilFacts, <1>a, <1>b DEF TypeOK, Placed, Apart, Busy
<1>6. Cached'
  BY <1>2, NilFacts, <1>a, <1>b DEF TypeOK, Cached, Placed
<1>7. Keyed'
  BY <1>2, NilFacts, <1>a, <1>b DEF TypeOK, Keyed, Placed, Apart, Exact, Cached, Busy
<1>8. Streams'
  BY <1>2, NilFacts, <1>a, <1>b DEF TypeOK, Streams, Runs, Exact, Placed, Apart, Busy, Keyed
<1>9. Kept(Q)'
  BY <1>2, NilFacts, <1>a, <1>b DEF TypeOK, Kept, Placed, Apart, Busy
<1>10. QED BY <1>1, <1>3, <1>4, <1>5, <1>6, <1>7, <1>8, <1>9 DEF Good

\* pk11_cipher_cleanup returns the session.
LEMMA CleanedUp ==
  ASSUME Typed, Fine, TypeTold, NEW P, Pool(P), Good(P), NEW c \in Ctxs,
         faults' = faults,
         pc[c] = "idle",
         state[c] # Nil,
         active' = [active EXCEPT ![state[c]] = Nil],
         Return(state[c]),
         state' = [state EXCEPT ![c] = Nil],
         request' = [request EXCEPT ![c] = Nil],
         UNCHANGED <<alive, open, obj, key, saved, encrypt, pc, local>>
  PROVE  \E Q : Pool(Q)' /\ Good(Q)'
<1>. PICK s : s = state[c]
  OBVIOUS
<1>a. s \in Sessions /\ s # Nil /\ s = state[c] /\ local[c] = Nil /\ s \notin P /\ Return(s) /\ PoolTypeOK
  BY NilFacts DEF Good, Typed, TypeOK, Placed
<1> DEFINE Q == P \cup {s}
<1>1. Pool(Q)'
  BY PoolReturn, <1>a
<1>2. TypeOK /\ Placed(P) /\ Apart /\ Busy /\ Cached /\ Keyed /\ Streams /\ Kept(P)
  BY DEF Good, Typed
<1>3. Placed(Q)'
  BY <1>2, NilFacts, <1>a DEF TypeOK, Placed, Apart, Busy
<1>4. Apart'
  BY <1>2, NilFacts, <1>a DEF TypeOK, Placed, Apart, Busy
<1>5. Busy'
  BY <1>2, NilFacts, <1>a DEF TypeOK, Placed, Apart, Busy
<1>6. Cached'
  BY <1>2, NilFacts, <1>a DEF TypeOK, Cached, Placed
<1>7. Keyed'
  BY <1>2, NilFacts, <1>a DEF TypeOK, Keyed, Placed, Apart, Exact, Cached, Busy
<1>8. Streams'
  BY <1>2, NilFacts, <1>a DEF TypeOK, Streams, Runs, Exact, Placed, Apart, Busy, Keyed
<1>9. Kept(Q)'
  BY <1>2, NilFacts, <1>a DEF TypeOK, Kept, Placed, Apart, Busy
<1>10. QED BY <1>1, <1>3, <1>4, <1>5, <1>6, <1>7, <1>8, <1>9 DEF Good

-----------------------------------------------------------------------------
(* Types. *)

LEMMA PoolTypes ==
  PoolTypeOK /\ (Take \/ UNCHANGED poolVars \/ \E s \in Sessions : Return(s)) => PoolTypeOK'
BY DEF PoolTypeOK, Take, Return, poolVars

\* Whatever fails, what a step assigns has its type.
LEMMA TypedInductive == Typed /\ [Next]_vars => Typed'
<1> SUFFICES ASSUME Typed, [Next]_vars PROVE Typed'
  OBVIOUS
<1> USE RequestFacts, NilFacts, PoolTypes DEF Typed, TypeOK
<1>1. ASSUME NEW c \in Ctxs, InitRefused(c) PROVE Typed'
  BY <1>1 DEF InitRefused, Fail, tokenVars, sessionVars
<1>2. ASSUME NEW c \in Ctxs, NEW r \in Requests, InitGet(c, r) PROVE Typed'
  <2>1. PICK s \in Sessions \cup {Nil} : s = head
    BY DEF PoolTypeOK
  <2>2. CASE /\ Take /\ local' = [local EXCEPT ![c] = head] /\ UNCHANGED <<alive, open>>
    <3>1. s \in Sessions /\ local' = [local EXCEPT ![c] = s]
      BY <2>1, <2>2 DEF Take
    <3>2. QED BY <1>2, <2>2, <3>1 DEF InitGet, sessionVars
  <2>3. ASSUME NEW x \in Sessions \ alive, local' = [local EXCEPT ![c] = x],
               alive' = alive \cup {x}, open' = open \cup {x}, UNCHANGED poolVars
        PROVE  Typed'
    BY <1>2, <2>3 DEF InitGet, sessionVars
  <2>4. QED BY <1>2, <2>2, <2>3 DEF InitGet
<1>3. ASSUME NEW c \in Ctxs, CheckKey(c) PROVE Typed'
  <2>1. PICK s \in Sessions : s = local[c]
    BY <1>3 DEF CheckKey
  <2>2. PICK r : r = request[c]
    OBVIOUS
  <2>3. \/ UNCHANGED <<obj, key>>
        \/ key[s] # Nil /\ DropKey(s)
    BY <1>3, <2>1 DEF CheckKey
  <2>4. obj' \in [Handles -> Object \cup {Nil}] /\ key' \in [Sessions -> Handles \cup {Nil}]
    BY <2>3 DEF DropKey
  <2>5. /\ state' = state \/ state' = [state EXCEPT ![c] = s]
        /\ \E label \in {"again", "key", "final"} : pc' = [pc EXCEPT ![c] = label]
        /\ UNCHANGED <<faults, poolVars, alive, open, active, saved, encrypt, request, local>>
        /\ pc[c] = "check"
    BY <1>3, <2>1 DEF CheckKey, Goto
  <2>6. QED BY <2>4, <2>5
<1>4. ASSUME NEW c \in Ctxs, GetCipherKey(c) PROVE Typed'
  <2>1. PICK s \in Sessions : s = local[c]
    BY <1>4 DEF GetCipherKey
  <2>2. PICK r \in Requests : r = request[c]
    BY <1>4 DEF GetCipherKey
  <2>3. [type |-> r.type, bytes |-> r.bytes] \in Object /\ Saved(r.bytes) \in {Saved(b) : b \in Keys}
    BY DEF Object
  <2>4. \/ \E x \in Handles : /\ obj' = [obj EXCEPT ![x] = [type |-> r.type, bytes |-> r.bytes]]
                              /\ key' = [key EXCEPT ![s] = x]
                              /\ saved' = [saved EXCEPT ![s] = Saved(r.bytes)]
        \/ UNCHANGED <<obj, key, saved>>
    BY <1>4, <2>1, <2>2 DEF GetCipherKey
  <2>5. /\ obj' \in [Handles -> Object \cup {Nil}] /\ key' \in [Sessions -> Handles \cup {Nil}]
        /\ saved' \in [Sessions -> {Saved(b) : b \in Keys} \cup {<<>>}]
    BY <2>3, <2>4
  <2>6. QED BY <1>4, <2>5 DEF GetCipherKey, Goto
<1>5. ASSUME NEW c \in Ctxs, CipherFinal(c) PROVE Typed'
  <2>1. PICK s \in Sessions : s = local[c]
    BY <1>5 DEF CipherFinal
  <2>2. /\ UNCHANGED <<faults, alive, obj, key, saved, encrypt, state>> /\ pc[c] = "final"
        /\ active' = active \/ active' = [active EXCEPT ![s] = Nil]
        /\ open' = open \/ open' = open \ {s}
        /\ \/ Fail(c) /\ Return(s)
           \/ Goto(c, "start") /\ UNCHANGED poolVars
    BY <1>5, <2>1 DEF CipherFinal, Reopen, NoKey, sessionVars
  <2>3. PoolTypeOK'
    BY <2>2
  <2>4. CASE Fail(c)
    BY <2>2, <2>3, <2>4 DEF Fail
  <2>5. CASE Goto(c, "start")
    BY <2>2, <2>3, <2>5 DEF Goto
  <2>6. QED BY <2>2, <2>4, <2>5
<1>6. ASSUME NEW c \in Ctxs, Start(c) PROVE Typed'
  <2>1. PICK s \in Sessions : s = local[c]
    BY <1>6 DEF Start
  <2>2. PICK r \in Requests : r = request[c]
    BY <1>6 DEF Start
  <2>3. CASE StartFails(c) /\ UNCHANGED <<active, encrypt, state>>
    BY <1>6, <2>1, <2>3 DEF Start, StartFails, Fail
  <2>4. CASE Accepted(s, r)
             /\ active' = [active EXCEPT ![s] = [by |-> c, type |-> r.type, encrypt |-> r.encrypt,
                                                 bytes |-> obj[key[s]].bytes]]
             /\ encrypt' = [encrypt EXCEPT ![s] = r.encrypt]
             /\ state' = [state EXCEPT ![c] = s]
             /\ pc' = [pc EXCEPT ![c] = "idle"]
             /\ local' = [local EXCEPT ![c] = Nil]
             /\ UNCHANGED <<poolVars, request>>
    <3>1. obj[key[s]].bytes \in Keys
      BY <2>4 DEF Accepted, Object
    <3>2. active' \in [Sessions -> Operation \cup {Nil}]
      BY <2>4, <3>1 DEF Operation
    <3>3. QED BY <1>6, <2>4, <3>2 DEF Start
  <2>5. QED BY <1>6, <2>1, <2>2, <2>3, <2>4 DEF Start
<1>7. ASSUME NEW c \in Ctxs, DoCipherFails(c) PROVE Typed'
  BY <1>7 DEF DoCipherFails, sessionVars
<1>8. ASSUME NEW c \in Ctxs, Cleanup(c) PROVE Typed'
  <2>1. PICK s \in Sessions : s = state[c]
    BY <1>8 DEF Cleanup
  <2>2. /\ state' = state \/ state' = [state EXCEPT ![c] = Nil]
        /\ active' = [active EXCEPT ![s] = Nil] /\ Return(s)
        /\ request' = [request EXCEPT ![c] = Nil] /\ pc[c] = "idle"
        /\ UNCHANGED <<faults, alive, open, obj, key, saved, encrypt, pc, local>>
    BY <1>8, <2>1 DEF Cleanup, sessionVars
  <2>3. QED BY <2>2
<1>9. CASE UNCHANGED vars
  BY <1>9 DEF vars, tokenVars, sessionVars
<1>10. QED
  BY <1>1, <1>2, <1>3, <1>4, <1>5, <1>6, <1>7, <1>8, <1>9 DEF Next, CipherInit

-----------------------------------------------------------------------------
(* The steps and the theorems. *)

LEMMA InitGetKeeps ==
  ASSUME Typed, Fine, TypeTold, NEW P, Pool(P), Good(P), NEW c \in Ctxs, NEW r \in Requests,
         InitGet(c, r)
  PROVE  \E Q : Pool(Q)' /\ Good(Q)'
<1>1. /\ pc[c] = "idle" /\ (state[c] = Nil \/ InitAgain)
      /\ state' = [state EXCEPT ![c] = Nil] /\ request' = [request EXCEPT ![c] = r]
      /\ pc' = [pc EXCEPT ![c] = "check"]
      /\ faults' = faults /\ UNCHANGED <<active, obj, key, saved, encrypt>>
  BY DEF InitGet, sessionVars
<1>2. CASE Take /\ local' = [local EXCEPT ![c] = head] /\ UNCHANGED <<alive, open>>
  BY <1>1, <1>2, InitTakes
<1>3. ASSUME NEW s \in Sessions \ alive, local' = [local EXCEPT ![c] = s],
             alive' = alive \cup {s}, open' = open \cup {s}, UNCHANGED poolVars
      PROVE  \E Q : Pool(Q)' /\ Good(Q)'
  BY <1>1, <1>3, InitAllocates
<1>4. QED BY <1>2, <1>3 DEF InitGet

LEMMA CheckKeyKeeps ==
  ASSUME Typed, Fine, TypeTold, NEW P, Pool(P), Good(P), NEW c \in Ctxs, CheckKey(c)
  PROVE  \E Q : Pool(Q)' /\ Good(Q)'
<1>. PICK s \in Sessions : s = local[c]
  BY DEF Typed, TypeOK, CheckKey
<1>. PICK r : r = request[c]
  OBVIOUS
<1>1. /\ pc[c] = "check" /\ faults' = faults
      /\ UNCHANGED <<poolVars, alive, open, active, saved, encrypt, request, local>>
  BY DEF CheckKey, Goto
<1>2. IF key'[s] # Nil /\ encrypt[s] = r.encrypt
        THEN state' = [state EXCEPT ![c] = s] /\ pc' = [pc EXCEPT ![c] = "again"]
        ELSE state' = state /\ pc' = [pc EXCEPT ![c] = IF key'[s] = Nil THEN "key" ELSE "final"]
  BY DEF CheckKey, Goto
<1>3. \/ (SameKey(s, r.bytes) \/ key[s] = Nil \/ "destroy" \in faults) /\ UNCHANGED <<obj, key>>
      \/ key[s] # Nil /\ DropKey(s)
  BY DEF CheckKey, May
<1>4. CASE key[s] # Nil /\ DropKey(s)
  <2>1. key'[s] = Nil
    BY <1>4 DEF DropKey, Typed, TypeOK
  <2>2. QED BY <1>1, <1>2, <1>4, <2>1, KeyDropped
<1>5. CASE key[s] = Nil /\ UNCHANGED <<obj, key>>
  BY <1>1, <1>2, <1>5, NoKeyYet
<1>6. CASE key[s] # Nil /\ (SameKey(s, r.bytes) \/ "destroy" \in faults) /\ UNCHANGED <<obj, key>>
  <2>1. CASE encrypt[s] = r.encrypt
    BY <1>1, <1>2, <1>6, <2>1, KeyKept
  <2>2. CASE encrypt[s] # r.encrypt
    BY <1>1, <1>2, <1>6, <2>2, KeyKeptAgain
  <2>3. QED BY <2>1, <2>2
<1>7. QED BY <1>3, <1>4, <1>5, <1>6

LEMMA GetCipherKeyKeeps ==
  ASSUME Typed, Fine, TypeTold, NEW P, Pool(P), Good(P), NEW c \in Ctxs, GetCipherKey(c)
  PROVE  \E Q : Pool(Q)' /\ Good(Q)'
<1>1. /\ pc[c] = "key" /\ faults' = faults /\ pc' = [pc EXCEPT ![c] = "final"]
      /\ UNCHANGED <<poolVars, alive, open, active, encrypt, state, request, local>>
  BY DEF GetCipherKey, Goto
<1>2. CASE UNCHANGED <<obj, key, saved>>
  BY <1>1, <1>2, KeyNotCreated
<1>3. ASSUME NEW x \in Handles, obj[x] = Nil,
             obj' = [obj EXCEPT ![x] = [type |-> request[c].type, bytes |-> request[c].bytes]],
             key' = [key EXCEPT ![local[c]] = x],
             saved' = [saved EXCEPT ![local[c]] = Saved(request[c].bytes)]
      PROVE  \E Q : Pool(Q)' /\ Good(Q)'
  BY <1>1, <1>3, KeyCreated
<1>4. QED BY <1>2, <1>3 DEF GetCipherKey

LEMMA CipherFinalKeeps ==
  ASSUME Typed, Fine, TypeTold, NEW P, Pool(P), Good(P), NEW c \in Ctxs, CipherFinal(c)
  PROVE  \E Q : Pool(Q)' /\ Good(Q)'
<1>. PICK s \in Sessions : s = local[c]
  BY DEF Typed, TypeOK, CipherFinal
<1>1. s \in open /\ active[s] = Nil /\ "open" \notin faults /\ [active EXCEPT ![s] = Nil] = active
  BY NilFacts DEF Good, Placed, Fine, SharesAfter, Typed, TypeOK
<1>2. /\ pc[c] = "final" /\ faults' = faults /\ UNCHANGED <<alive, obj, key, saved, encrypt, state>>
  BY DEF CipherFinal, sessionVars
<1>3. /\ UNCHANGED <<open, active>>
      /\ \/ Fail(c) /\ Return(s)
         \/ key[s] # Nil /\ Goto(c, "start") /\ UNCHANGED poolVars
  BY <1>1 DEF CipherFinal, Reopen, NoKey, May
<1>4. CASE Fail(c) /\ Return(s)
  BY <1>2, <1>3, <1>4, GivenUp
<1>5. CASE key[s] # Nil /\ Goto(c, "start") /\ UNCHANGED poolVars
  BY <1>2, <1>3, <1>5, GoesOn DEF Goto
<1>6. QED BY <1>3, <1>4, <1>5

LEMMA StartKeeps ==
  ASSUME Typed, Fine, TypeTold, NEW P, Pool(P), Good(P), NEW c \in Ctxs, Start(c)
  PROVE  \E Q : Pool(Q)' /\ Good(Q)'
<1>1. Accepted(local[c], request[c])
  BY NilFacts DEF Accepted, Start, Good, Placed, Keyed, Cached, Typed, TypeOK
<1>2. "init" \notin faults
  BY DEF Fine, SharesAfter
<1>3. /\ pc[c] \in {"again", "start"} /\ faults' = faults
      /\ active' = [active EXCEPT ![local[c]] = [by |-> c, type |-> request[c].type,
                      encrypt |-> request[c].encrypt, bytes |-> obj[key[local[c]]].bytes]]
      /\ state' = [state EXCEPT ![c] = local[c]]
      /\ pc' = [pc EXCEPT ![c] = "idle"] /\ local' = [local EXCEPT ![c] = Nil]
      /\ UNCHANGED <<poolVars, alive, open, obj, key, saved, request>>
  BY <1>1, <1>2 DEF Start, May
<1>4. QED BY <1>3, Started

LEMMA CleanupKeeps ==
  ASSUME Typed, Fine, TypeTold, NEW P, Pool(P), Good(P), NEW c \in Ctxs, Cleanup(c)
  PROVE  \E Q : Pool(Q)' /\ Good(Q)'
<1>1. state[c] \in open /\ active[state[c]] # Nil /\ "final" \notin faults
  BY DEF Cleanup, Good, Busy, Fine, SharesAfter
<1>2. /\ pc[c] = "idle" /\ state[c] # Nil /\ faults' = faults
      /\ active' = [active EXCEPT ![state[c]] = Nil] /\ Return(state[c])
      /\ state' = [state EXCEPT ![c] = Nil] /\ request' = [request EXCEPT ![c] = Nil]
      /\ UNCHANGED <<alive, open, obj, key, saved, encrypt, pc, local>>
  BY <1>1 DEF Cleanup, May, sessionVars
<1>3. QED BY <1>2, CleanedUp

\* Every step of the ciphers keeps each session and key object where it belongs.
LEMMA CipherInvInductive == TypeTold => (CipherInv /\ [Next]_vars => CipherInv')
<1> SUFFICES ASSUME TypeTold, CipherInv, [Next]_vars PROVE CipherInv'
  OBVIOUS
<1>1. Typed /\ Typed'
  BY TypedInductive DEF CipherInv
<1>2. faults' = faults
  BY DEF Next, CipherInit, InitRefused, InitGet, CheckKey, GetCipherKey, CipherFinal, Start,
         DoCipherFails, Cleanup, vars, tokenVars
<1>3. Fine' <=> Fine
  BY <1>2 DEF Fine
<1> SUFFICES ASSUME Fine, NEW P, Pool(P), Good(P) PROVE \E Q : Pool(Q)' /\ Good(Q)'
  BY <1>1, <1>3 DEF CipherInv
<1>4. ASSUME NEW c \in Ctxs, InitRefused(c) PROVE \E Q : Pool(Q)' /\ Good(Q)'
  <2>1. /\ pc[c] = "idle" /\ (state[c] = Nil \/ InitAgain)
        /\ state' = [state EXCEPT ![c] = Nil] /\ Fail(c)
        /\ UNCHANGED <<poolVars, alive, open, active, obj, key, saved, encrypt>>
    BY <1>4 DEF InitRefused, tokenVars, sessionVars
  <2>2. QED BY <1>1, <1>2, <2>1, Refuses
<1>5. ASSUME NEW c \in Ctxs, DoCipherFails(c) PROVE \E Q : Pool(Q)' /\ Good(Q)'
  BY <1>5 DEF DoCipherFails, May, Fine, SharesAfter
<1>6. CASE UNCHANGED vars
  <2>1. Pool(P)'
    BY <1>1, <1>6, PoolSame DEF vars, Typed, TypeOK
  <2>2. Good(P)'
    BY <1>6 DEF vars, tokenVars, sessionVars, Good, Placed, Apart, Busy, Cached, Keyed, Streams,
                Runs, Exact, Kept
  <2>3. QED BY <2>1, <2>2
<1>7. QED
  BY <1>1, <1>4, <1>5, <1>6, InitGetKeeps, CheckKeyKeeps, GetCipherKeyKeeps, CipherFinalKeeps,
     StartKeeps, CleanupKeeps DEF Next, CipherInit

LEMMA CipherInvInit == Init => CipherInv
<1> SUFFICES ASSUME Init PROVE CipherInv
  OBVIOUS
<1>1. Pool({}) /\ PoolTypeOK
  BY PoolStarts DEF Init
<1>2. Typed
  BY <1>1 DEF Init, Typed, TypeOK
<1>3. Good({})
  BY DEF Init, Good, Placed, Apart, Busy, Cached, Keyed, Streams, Kept
<1>4. QED BY <1>1, <1>2, <1>3 DEF CipherInv

\* The type invariant, whatever fails.
THEOREM CipherTypeCorrect == Spec => []TypeOK
<1>1. Init => Typed
  BY CipherInvInit DEF CipherInv
<1>2. Typed => TypeOK
  BY DEF Typed
<1>3. QED BY <1>1, <1>2, TypedInductive, PTL DEF Spec

\* pk11_cipher_init: a context whose initialization succeeded has an operation
\* of its own, with the key and the direction it asked for, as far as the saved
\* bytes tell the keys apart.
THEOREM StreamsAreIntact ==
  ASSUME TypeTold, BytesTold
  PROVE  Spec => []StreamIntact
<1>1. CipherInv => StreamIntact
  BY DEF CipherInv, Fine, Exact, Good, Streams, Runs, StreamIntact
<1>2. QED BY <1>1, CipherInvInit, CipherInvInductive, PTL DEF Spec

\* One type of keys is told by its bytes from itself.
LEMMA OneTypeTold == OneType => TypeTold
BY DEF OneType, TypeTold

\* pk11_destroy_cipher_key_objects and pk11_get_cipher_key: no object is left
\* in the token that no session caches, also when one cannot be destroyed.
THEOREM CipherKeysAreCached ==
  ASSUME OneType
  PROVE  Spec => []NoOrphan
<1>1. CipherInv => NoOrphan
  BY DEF CipherInv, Fine, Good, Cached, NoOrphan
<1>2. QED BY <1>1, OneTypeTold, CipherInvInit, CipherInvInductive, PTL DEF Spec

\* pk11_cipher_init and pk11_cipher_cleanup: as long as no context is
\* initialized while it has a session, every session is in the free list, once,
\* open and idle, or with one context.
THEOREM CipherSessionsKept ==
  ASSUME OneType, ~InitAgain
  PROVE  Spec => []SessionsKept
<1>1. CipherInv => SessionsKept
  <2> SUFFICES ASSUME Typed, NEW P, Pool(P), Good(P)
               PROVE  /\ FreeList(Idle)
                      /\ \A s \in Idle : s \in open /\ active[s] = Nil
                      /\ \A s \in Sessions : \A c, d \in Holders(s) : c = d
    BY DEF CipherInv, Fine, SessionsKept
  <2>1. P \subseteq Idle
    BY NilFacts DEF Good, Placed, Idle, Holders, Pool
  <2>2. Idle \subseteq P
    BY DEF Good, Kept, Idle, Holders
  <2>3. P = Idle
    BY <2>1, <2>2
  <2>4. \A s \in Sessions : \A c, d \in Holders(s) : c = d
    BY NilFacts DEF Good, Apart, Holders
  <2>5. QED BY <2>3, <2>4 DEF Good, Placed, Pool
<1>2. QED BY <1>1, OneTypeTold, CipherInvInit, CipherInvInductive, PTL DEF Spec

-----------------------------------------------------------------------------
(* The devcrypto engine. *)

Loaded == {e \in Engines : engine[e] = "loaded"}

\* References are to engines that are loaded, and while there is one the
\* device is open.
Referenced ==
  /\ V!DeviceCounted /\ kernel_fd_ref <= loads
  /\ app_ref \subseteq Loaded
  /\ \A c \in Ctxs : ctx[c] # Nil => ctx[c].engine \in Loaded

\* The sessions are open only while the device is, and the contexts that hold
\* no other's id have their own, with the cipher and the key they were
\* initialized with.
OwnIds ==
  /\ ~kernel_fd => \A x \in V!Ids : session[x] = Nil
  /\ \A c \in Ctxs \ stray : ctx[c] # Nil =>
       /\ ctx[c].id \in V!Ids
       /\ session[ctx[c].id] = [nid |-> ctx[c].nid, key |-> ctx[c].key]
  /\ \A c, d \in Ctxs \ stray : c # d /\ ctx[c] # Nil /\ ctx[d] # Nil => ctx[c].id # ctx[d].id

\* Sessions that are no context's own.
LeftOpen == {x \in V!Ids : session[x] # Nil /\ \A c \in Ctxs \ stray : ctx[c] # Nil => ctx[c].id # x}

\* The first list begins with nothing.
FirstList ==
  /\ cipher_count \in Nat /\ (loads = 0 => cipher_count = 0 /\ cipher_nids = Nil)
  /\ cipher_nids = Nil \/ V!Members(cipher_nids) \subseteq NIDs \cup {V!Junk}
  /\ V!FirstCiphersRight

DevTyped ==
  /\ {kernel_fd, kernel_fd_lock, provider_id} \subseteq BOOLEAN
  /\ kernel_fd_ref \in Nat /\ loads \in 0..MaxLoads /\ rekeyed \in 0..MaxId
  /\ engine \in [Engines -> {"none", "loaded", "finished"}] /\ app_ref \subseteq Engines
  /\ ctx \in [Ctxs -> V!Context \cup {Nil}] /\ session \in [V!Ids -> V!Opened \cup {Nil}]
  /\ stray \subseteq Ctxs

LEMMA DevFacts ==
  /\ MaxId \in Nat /\ MaxLoads \in Nat
  /\ IsFiniteSet(Engines) /\ IsFiniteSet(NIDs) /\ Providers \in Seq(SUBSET NIDs)
  /\ Nil \notin Secrets /\ Nil \notin V!Opened /\ Nil \notin V!Context
  /\ V!Ids = 1..MaxId /\ IsFiniteSet(V!Ids)
<1>1. Nil \notin V!Opened /\ Nil \notin V!Context
  BY OpsAssumption DEF V!DevAssumption
<1>2. V!Ids = 1..MaxId
  BY DEF V!Ids
<1>3. MaxId \in Nat
  BY OpsAssumption DEF V!DevAssumption
<1>4. IsFiniteSet(1..MaxId)
  BY <1>3, FS_Interval
<1>5. QED BY <1>1, <1>2, <1>4, OpsAssumption, SameCounts DEF V!DevAssumption

LEMMA LoadedFinite ==
  /\ IsFiniteSet(Loaded) /\ Cardinality(Loaded) \in Nat
  /\ \A e \in Loaded : Cardinality(Loaded) = 1 => Loaded = {e}
  /\ Cardinality(Loaded) = 0 <=> Loaded = {}
<1>1. IsFiniteSet(Loaded)
  BY DevFacts, FS_Subset DEF Loaded
<1>2. Cardinality(Loaded) = 1 => \E x : Loaded = {x}
  BY <1>1, FS_Singleton
<1>3. QED BY <1>1, <1>2, FS_CardinalityType, FS_EmptySet

\* The device is open exactly while an engine is loaded.
Counted ==
  /\ kernel_fd \in BOOLEAN /\ kernel_fd_ref = Cardinality(Loaded)
  /\ kernel_fd <=> Loaded # {}
  /\ kernel_fd_lock = kernel_fd /\ provider_id = kernel_fd

LEMMA CountsAre ==
  /\ kernel_fd \in BOOLEAN => (V!DeviceCounted <=> Counted)
  /\ kernel_fd' \in BOOLEAN => (V!DeviceCounted' <=> Counted')
<1>1. /\ V!DeviceCounted <=>
            /\ kernel_fd_ref = Cardinality(Loaded)
            /\ kernel_fd = (kernel_fd_ref > 0) /\ kernel_fd_lock = kernel_fd /\ provider_id = kernel_fd
      /\ V!DeviceCounted' <=>
            /\ kernel_fd_ref' = Cardinality(Loaded')
            /\ kernel_fd' = (kernel_fd_ref' > 0) /\ kernel_fd_lock' = kernel_fd' /\ provider_id' = kernel_fd'
  <2>1. V!Cardinality({e \in Engines : engine[e] = "loaded"}) = Cardinality(Loaded)
        /\ V!Cardinality({e \in Engines : engine'[e] = "loaded"}) = Cardinality(Loaded')
    BY SameCounts DEF Loaded
  <2>2. QED BY <2>1 DEF V!DeviceCounted
<1>2. /\ Cardinality(Loaded) > 0 <=> Loaded # {}
      /\ Cardinality(Loaded') > 0 <=> Loaded' # {}
  <2>1. IsFiniteSet(Loaded) /\ IsFiniteSet(Loaded')
    BY DevFacts, FS_Subset DEF Loaded
  <2>2. QED BY <2>1, FS_CardinalityType, FS_EmptySet
<1>3. /\ kernel_fd_ref = Cardinality(Loaded) => (kernel_fd_ref > 0 <=> Loaded # {})
      /\ kernel_fd_ref' = Cardinality(Loaded') => (kernel_fd_ref' > 0 <=> Loaded' # {})
  BY <1>2
<1>4. ASSUME kernel_fd \in BOOLEAN, kernel_fd_ref = Cardinality(Loaded)
      PROVE  kernel_fd = (kernel_fd_ref > 0) <=> (kernel_fd <=> Loaded # {})
  BY <1>3, <1>4
<1>5. ASSUME kernel_fd' \in BOOLEAN, kernel_fd_ref' = Cardinality(Loaded')
      PROVE  kernel_fd' = (kernel_fd_ref' > 0) <=> (kernel_fd' <=> Loaded' # {})
  BY <1>3, <1>5
<1>6. kernel_fd \in BOOLEAN => (V!DeviceCounted <=> Counted)
  <2> HIDE DEF Loaded
  <2>1. QED BY <1>1, <1>4 DEF Counted
<1>7. kernel_fd' \in BOOLEAN => (V!DeviceCounted' <=> Counted')
  BY <1>1, <1>5, Zenon DEF Counted
<1>8. QED BY <1>6, <1>7

\* devcrypto_cleanup: when the last reference to e goes, the device is closed
\* if no other engine is loaded.
LEMMA Released ==
  ASSUME DevTyped, Referenced, NEW e \in Loaded, NEW rest, NEW isLast \in BOOLEAN, V!Release(e, rest, isLast)
  PROVE  /\ Loaded' = IF isLast THEN Loaded \ {e} ELSE Loaded
         /\ V!DeviceCounted' /\ kernel_fd_ref' <= kernel_fd_ref
         /\ engine' \in [Engines -> {"none", "loaded", "finished"}]
         /\ kernel_fd' \in BOOLEAN /\ kernel_fd_ref' \in Nat
         /\ IF Loaded' = {} THEN ~kernel_fd' /\ session' = [x \in V!Ids |-> Nil] /\ cipher_nids' = Nil
            ELSE kernel_fd' /\ session' = rest /\ cipher_nids' = cipher_nids
<1>1. Loaded' = IF isLast THEN Loaded \ {e} ELSE Loaded
  BY DEF V!Release, Loaded, DevTyped
<1>2. Counted
  BY CountsAre DEF Referenced, DevTyped
<1>3. IsFiniteSet(Loaded) /\ Cardinality(Loaded) \in Nat /\ Cardinality(Loaded) # 0
  BY LoadedFinite
<1>4. kernel_fd = TRUE
  BY <1>2 DEF Counted
<1>6. engine' \in [Engines -> {"none", "loaded", "finished"}]
  BY DEF V!Release, Loaded, DevTyped
<1>7. CASE ~isLast
  <2>1. UNCHANGED <<kernel_fd, kernel_fd_lock, provider_id, kernel_fd_ref, cipher_nids>> /\ session' = rest
    BY <1>7 DEF V!Release, V!device
  <2>2. Loaded' = Loaded /\ Loaded # {}
    BY <1>1, <1>7
  <2>3. Counted'
    BY <1>2, <2>1, <2>2 DEF Counted
  <2>4. kernel_fd' \in BOOLEAN /\ kernel_fd_ref' \in Nat /\ kernel_fd_ref' <= kernel_fd_ref
    BY <2>1 DEF DevTyped
  <2>5. QED BY <1>1, <1>4, <1>6, <1>7, <2>1, <2>2, <2>3, <2>4, CountsAre
<1>8. CASE isLast
  <2>1. V!Cleanup(rest) /\ Loaded' = Loaded \ {e}
    BY <1>8, <1>1 DEF V!Release
  <2>2. Cardinality(Loaded') = Cardinality(Loaded) - 1
    BY <2>1, <1>3, FS_RemoveElement
  <2>3. Cardinality(Loaded) = 1 <=> Loaded' = {}
    <3>1. IsFiniteSet(Loaded')
      BY <2>1, <1>3, FS_RemoveElement
    <3>2. Cardinality(Loaded') = 0 <=> Loaded' = {}
      BY <3>1, FS_EmptySet
    <3>3. QED BY <3>2, <2>2, <1>3
  <2>4. V!Last <=> Loaded' = {}
    BY <1>2, <2>3 DEF V!Last, Counted
  <2>5. /\ kernel_fd_ref' = kernel_fd_ref - 1
        /\ kernel_fd' = ~V!Last /\ kernel_fd_lock' = ~V!Last /\ provider_id' = (provider_id /\ ~V!Last)
        /\ cipher_nids' = IF V!Last THEN Nil ELSE cipher_nids
        /\ session' = IF V!Last THEN [x \in V!Ids |-> Nil] ELSE rest
    BY <2>1, <1>4 DEF V!Cleanup
  <2>6. kernel_fd_ref' \in Nat /\ kernel_fd_ref' <= kernel_fd_ref /\ kernel_fd_ref' = Cardinality(Loaded')
    BY <2>5, <2>2, <1>2, <1>3 DEF Counted
  <2>7. kernel_fd' \in BOOLEAN /\ (kernel_fd' <=> Loaded' # {})
    BY <2>5, <2>4, Zenon
  <2>8. kernel_fd_lock' = kernel_fd' /\ provider_id' = kernel_fd'
    <3>1. provider_id = TRUE
      BY <1>2, <1>4 DEF Counted
    <3>2. provider_id' = ~V!Last
      BY <2>5, <3>1, Zenon
    <3>3. QED BY <2>5, <3>2
  <2>9. Counted'
    BY <2>6, <2>7, <2>8 DEF Counted
  <2>10. V!DeviceCounted'
    BY <2>9, <2>7, CountsAre
  <2>11. IF Loaded' = {} THEN ~kernel_fd' /\ session' = [x \in V!Ids |-> Nil] /\ cipher_nids' = Nil
         ELSE kernel_fd' /\ session' = rest /\ cipher_nids' = cipher_nids
    BY <2>4, <2>5, <2>7
  <2>12. QED BY <1>1, <1>6, <2>6, <2>7, <2>10, <2>11
<1>9. QED BY <1>7, <1>8

DevInv == DevTyped /\ Referenced /\ OwnIds /\ Cardinality(LeftOpen) <= rekeyed

\* The device has a free id when there is room.
LEMMA NewIdFacts ==
  ASSUME V!Room
  PROVE  V!NewId \in V!Ids /\ session[V!NewId] = Nil
<1> DEFINE W == {x \in V!Ids : session[x] = Nil}
<1>1. W \subseteq Nat /\ W # {}
  BY DevFacts DEF V!Room
<1>2. PICK m \in W : \A k \in W : m <= k
  BY <1>1, LeastNumber
<1>3. \E x \in V!Ids : session[x] = Nil /\ \A y \in V!Ids : session[y] = Nil => x <= y
  BY <1>2
<1>4. QED BY <1>3 DEF V!NewId

\* devcrypto_cipher_init whether or not the key is accepted: a new session.
Opens(c, e, nid, k) ==
  /\ V!MayInit(c, e, nid) /\ V!Room
  /\ ctx[c] # Nil => rekeyed < MaxId
  /\ session' = [session EXCEPT ![V!NewId] = [nid |-> nid, key |-> k]]
  /\ ctx' = [ctx EXCEPT ![c] = [engine |-> e, nid |-> nid, id |-> V!NewId, key |-> k]]
  /\ rekeyed' = IF ctx[c] = Nil THEN rekeyed ELSE rekeyed + 1
  /\ stray' = stray \ {c}
  /\ UNCHANGED <<V!device, V!list, engine, app_ref, loads>>

LEMMA InitsOpen ==
  ASSUME NEW c \in Ctxs, NEW e \in Engines, NEW nid \in NIDs
  PROVE  /\ V!InitRefused(c, e, nid) => Opens(c, e, nid, Nil)
         /\ \A k \in Secrets : V!devcrypto_cipher_init(c, e, nid, k) => Opens(c, e, nid, k)
BY DEF V!InitRefused, V!devcrypto_cipher_init, V!StoredId, Opens

\* Which steps there are.
LEMMA DevSteps ==
  ASSUME V!Next
  PROVE  \/ \E e \in Engines : V!devcrypto_bind(e) \/ V!BindFails(e) \/ V!ENGINE_init(e) \/ V!devcrypto_finish(e)
         \/ \E c \in Ctxs, e \in Engines, nid \in NIDs, k \in Secrets \cup {Nil} : Opens(c, e, nid, k)
         \/ \E c \in Ctxs, e \in Engines, nid \in NIDs : V!InitEarlyFails(c, e, nid)
         \/ \E c \in Ctxs : V!devcrypto_cipher_cleanup(c)
BY InitsOpen DEF V!Next

LEMMA DevTypedInductive == DevTyped /\ Referenced /\ [V!Next]_V!vars => DevTyped'
<1> SUFFICES ASSUME DevTyped, Referenced, [V!Next]_V!vars PROVE DevTyped'
  OBVIOUS
<1>1. ASSUME NEW e \in Engines, V!devcrypto_bind(e) PROVE DevTyped'
  BY <1>1, DevFacts DEF DevTyped, V!devcrypto_bind, V!CanLoad
<1>2. ASSUME NEW e \in Engines, V!BindFails(e) PROVE DevTyped'
  BY <1>2, DevFacts DEF DevTyped, V!BindFails, V!CanLoad, V!device
<1>3. ASSUME NEW e \in Engines, V!ENGINE_init(e) PROVE DevTyped'
  BY <1>3 DEF DevTyped, V!ENGINE_init, V!device
<1>4. ASSUME NEW e \in Engines, V!devcrypto_finish(e) PROVE DevTyped'
  <2>1. e \in Loaded
    BY <1>4 DEF V!devcrypto_finish, Referenced
  <2> DEFINE isLast == \A c \in Ctxs : ctx[c] # Nil => ctx[c].engine # e
  <2>2. V!Release(e, session, isLast) /\ isLast \in BOOLEAN
    BY <1>4 DEF V!devcrypto_finish
  <2> HIDE DEF isLast
  <2>3. /\ engine' \in [Engines -> {"none", "loaded", "finished"}] /\ kernel_fd_ref' \in Nat
        /\ kernel_fd' \in BOOLEAN /\ V!DeviceCounted'
        /\ session' = [x \in V!Ids |-> Nil] \/ session' = session
    BY <2>1, <2>2, Released
  <2>4. kernel_fd_lock' \in BOOLEAN /\ provider_id' \in BOOLEAN
    BY <2>3, CountsAre DEF Counted
  <2>5. session' \in [V!Ids -> V!Opened \cup {Nil}]
    BY <2>3 DEF DevTyped
  <2>6. UNCHANGED <<ctx, loads, rekeyed, stray>> /\ app_ref' \subseteq Engines
    BY <1>4 DEF V!devcrypto_finish, DevTyped
  <2>7. QED BY <2>3, <2>4, <2>5, <2>6 DEF DevTyped
<1>5. ASSUME NEW c \in Ctxs, NEW e \in Engines, NEW nid \in NIDs, NEW k \in Secrets \cup {Nil}, Opens(c, e, nid, k)
      PROVE  DevTyped'
  <2>1. V!NewId \in V!Ids
    BY <1>5, NewIdFacts DEF Opens
  <2>2. [nid |-> nid, key |-> k] \in V!Opened /\ [engine |-> e, nid |-> nid, id |-> V!NewId, key |-> k] \in V!Context
    BY <2>1 DEF V!Opened, V!Context
  <2>3. session' \in [V!Ids -> V!Opened \cup {Nil}] /\ ctx' \in [Ctxs -> V!Context \cup {Nil}]
    BY <1>5, <2>1, <2>2 DEF Opens, DevTyped
  <2>4. rekeyed' \in 0..MaxId
    BY <1>5, DevFacts DEF Opens, DevTyped
  <2>5. QED BY <1>5, <2>3, <2>4 DEF Opens, DevTyped, V!device
<1>6. ASSUME NEW c \in Ctxs, NEW e \in Engines, NEW nid \in NIDs, V!InitEarlyFails(c, e, nid) PROVE DevTyped'
  <2>1. PICK x \in Garbage : ctx' = [ctx EXCEPT ![c] = [engine |-> e, nid |-> nid, id |-> x, key |-> Nil]]
    BY <1>6 DEF V!InitEarlyFails
  <2>2. [engine |-> e, nid |-> nid, id |-> x, key |-> Nil] \in V!Context
    BY DEF V!Context
  <2>3. ctx' \in [Ctxs -> V!Context \cup {Nil}]
    BY <2>1, <2>2 DEF DevTyped
  <2>4. QED BY <1>6, <2>3 DEF DevTyped, V!InitEarlyFails, V!device
<1>7. ASSUME NEW c \in Ctxs, V!devcrypto_cipher_cleanup(c) PROVE DevTyped'
  <2>1. ctx[c] # Nil /\ ctx[c].engine \in Loaded
    BY <1>7 DEF V!devcrypto_cipher_cleanup, Referenced
  <2> DEFINE isLast == /\ ctx[c].engine \notin app_ref
                      /\ \A d \in Ctxs \ {c} : ctx[d] # Nil => ctx[d].engine # ctx[c].engine
             rest == IF kernel_fd THEN V!Closed(c) ELSE session
  <2>2. V!Release(ctx[c].engine, rest, isLast) /\ isLast \in BOOLEAN
    BY <1>7 DEF V!devcrypto_cipher_cleanup
  <2>8. rest \in [V!Ids -> V!Opened \cup {Nil}]
    BY DEF V!Closed, DevTyped
  <2> HIDE DEF isLast, rest
  <2>3. /\ engine' \in [Engines -> {"none", "loaded", "finished"}] /\ kernel_fd_ref' \in Nat
        /\ kernel_fd' \in BOOLEAN /\ V!DeviceCounted'
        /\ session' = [x \in V!Ids |-> Nil] \/ session' = rest
    BY <2>1, <2>2, Released
  <2>4. kernel_fd_lock' \in BOOLEAN /\ provider_id' \in BOOLEAN
    BY <2>3, CountsAre DEF Counted
  <2>5. session' \in [V!Ids -> V!Opened \cup {Nil}]
    BY <2>3, <2>8
  <2>6. UNCHANGED <<app_ref, loads, rekeyed>> /\ ctx' \in [Ctxs -> V!Context \cup {Nil}] /\ stray' \subseteq Ctxs
    BY <1>7 DEF V!devcrypto_cipher_cleanup, V!Robbed, DevTyped
  <2>7. QED BY <2>3, <2>4, <2>5, <2>6 DEF DevTyped
<1>8. CASE UNCHANGED V!vars
  BY <1>8 DEF DevTyped, V!vars, V!device
<1>9. QED BY <1>1, <1>2, <1>3, <1>4, <1>5, <1>6, <1>7, <1>8, DevSteps

LEMMA ReferencedInductive == DevTyped /\ Referenced /\ [V!Next]_V!vars => Referenced'
<1> SUFFICES ASSUME DevTyped, Referenced, [V!Next]_V!vars PROVE Referenced'
  OBVIOUS
<1>1. DevTyped'
  BY DevTypedInductive
<1>2. V!DeviceCounted' <=> Counted'
  BY <1>1, CountsAre DEF DevTyped
<1>3. Counted
  BY CountsAre DEF Referenced, DevTyped
<1>4. ASSUME NEW e \in Engines, V!devcrypto_bind(e) PROVE Referenced'
  <2>1. Loaded' = Loaded \cup {e} /\ e \notin Loaded
    BY <1>4 DEF V!devcrypto_bind, V!CanLoad, Loaded, DevTyped
  <2>2. Cardinality(Loaded') = Cardinality(Loaded) + 1
    BY <2>1, LoadedFinite, FS_AddElement
  <2>3. Counted'
    BY <1>4, <1>3, <2>1, <2>2 DEF Counted, V!devcrypto_bind
  <2>4. kernel_fd_ref' <= loads'
    BY <1>4 DEF V!devcrypto_bind, Referenced, DevTyped
  <2>5. UNCHANGED <<app_ref, ctx>>
    BY <1>4 DEF V!devcrypto_bind
  <2>6. QED BY <1>2, <2>1, <2>3, <2>4, <2>5 DEF Referenced
<1>5. ASSUME NEW e \in Engines, V!BindFails(e) PROVE Referenced'
  <2>1. UNCHANGED <<V!device, engine, app_ref, ctx>> /\ loads' = loads + 1
    BY <1>5 DEF V!BindFails
  <2>2. Counted'
    BY <1>3, <2>1 DEF Counted, Loaded, V!device
  <2>3. QED BY <1>2, <2>1, <2>2 DEF Referenced, Loaded, V!device, DevTyped
<1>6. ASSUME NEW e \in Engines, V!ENGINE_init(e) PROVE Referenced'
  <2>1. engine' = engine /\ e \in Loaded /\ UNCHANGED <<V!device, ctx, loads>> /\ app_ref' = app_ref \cup {e}
    BY <1>6 DEF V!ENGINE_init, V!Available, DevTyped, Loaded
  <2>2. Counted'
    BY <1>3, <2>1 DEF Counted, Loaded, V!device
  <2>3. QED BY <1>2, <2>1, <2>2 DEF Referenced, Loaded, V!device
<1>7. ASSUME NEW e \in Engines, V!devcrypto_finish(e) PROVE Referenced'
  <2>1. e \in Loaded /\ app_ref' = app_ref \ {e} /\ UNCHANGED <<ctx, loads>>
    BY <1>7 DEF V!devcrypto_finish, Referenced
  <2> DEFINE isLast == \A c \in Ctxs : ctx[c] # Nil => ctx[c].engine # e
  <2>2. V!Release(e, session, isLast) /\ isLast \in BOOLEAN
    BY <1>7 DEF V!devcrypto_finish
  <2>3. /\ Loaded' = IF isLast THEN Loaded \ {e} ELSE Loaded
        /\ V!DeviceCounted' /\ kernel_fd_ref' <= kernel_fd_ref /\ kernel_fd_ref' \in Nat
    <3> HIDE DEF isLast
    <3>1. QED BY <2>1, <2>2, Released
  <2>4. kernel_fd_ref' <= loads'
    BY <2>1, <2>3 DEF DevTyped, Referenced
  <2>5. QED BY <2>1, <2>3, <2>4 DEF Referenced
<1>8. ASSUME NEW c \in Ctxs, NEW e \in Engines, NEW nid \in NIDs, NEW k \in Secrets \cup {Nil}, Opens(c, e, nid, k)
      PROVE  Referenced'
  <2>1. UNCHANGED <<V!device, engine, app_ref, loads>> /\ e \in Loaded
    BY <1>8 DEF Opens, V!MayInit, V!Available, Loaded
  <2>2. ctx' = [ctx EXCEPT ![c] = [engine |-> e, nid |-> nid, id |-> V!NewId, key |-> k]]
    BY <1>8 DEF Opens
  <2>3. Counted'
    BY <1>3, <2>1 DEF Counted, Loaded, V!device
  <2>4. QED BY <1>2, <2>1, <2>2, <2>3 DEF Referenced, Loaded, V!device, DevTyped
<1>9. ASSUME NEW c \in Ctxs, NEW e \in Engines, NEW nid \in NIDs, V!InitEarlyFails(c, e, nid) PROVE Referenced'
  <2>1. UNCHANGED <<V!device, engine, app_ref, loads>> /\ e \in Loaded
    BY <1>9 DEF V!InitEarlyFails, V!MayInit, V!Available, Loaded
  <2>2. PICK x \in Garbage : ctx' = [ctx EXCEPT ![c] = [engine |-> e, nid |-> nid, id |-> x, key |-> Nil]]
    BY <1>9 DEF V!InitEarlyFails
  <2>3. Counted'
    BY <1>3, <2>1 DEF Counted, Loaded, V!device
  <2>4. QED BY <1>2, <2>1, <2>2, <2>3 DEF Referenced, Loaded, V!device, DevTyped
<1>10. ASSUME NEW c \in Ctxs, V!devcrypto_cipher_cleanup(c) PROVE Referenced'
  <2>1. ctx[c] # Nil /\ ctx[c].engine \in Loaded /\ ctx' = [ctx EXCEPT ![c] = Nil] /\ UNCHANGED <<app_ref, loads>>
    BY <1>10 DEF V!devcrypto_cipher_cleanup, Referenced
  <2> DEFINE isLast == /\ ctx[c].engine \notin app_ref
                      /\ \A d \in Ctxs \ {c} : ctx[d] # Nil => ctx[d].engine # ctx[c].engine
             rest == IF kernel_fd THEN V!Closed(c) ELSE session
  <2>2. V!Release(ctx[c].engine, rest, isLast) /\ isLast \in BOOLEAN
    BY <1>10 DEF V!devcrypto_cipher_cleanup
  <2>3. /\ Loaded' = IF isLast THEN Loaded \ {ctx[c].engine} ELSE Loaded
        /\ V!DeviceCounted' /\ kernel_fd_ref' <= kernel_fd_ref /\ kernel_fd_ref' \in Nat
    <3> HIDE DEF isLast, rest
    <3>1. QED BY <2>1, <2>2, Released
  <2>4. kernel_fd_ref' <= loads'
    BY <2>1, <2>3 DEF DevTyped, Referenced
  <2>5. app_ref' \subseteq Loaded'
    BY <2>1, <2>3 DEF Referenced
  <2>6. \A d \in Ctxs : ctx'[d] # Nil => ctx'[d].engine \in Loaded'
    BY <2>1, <2>3 DEF Referenced, DevTyped
  <2>7. QED BY <2>3, <2>4, <2>5, <2>6 DEF Referenced
<1>11. CASE UNCHANGED V!vars
  <2>1. Counted'
    BY <1>3, <1>11 DEF Counted, Loaded, V!vars, V!device
  <2>2. QED BY <1>2, <1>11, <2>1 DEF Referenced, Loaded, V!vars, V!device
<1>12. QED BY <1>4, <1>5, <1>6, <1>7, <1>8, <1>9, <1>10, <1>11, DevSteps

\* When the last reference to an engine goes and no engine is loaded any more,
\* no context is left: what happens to the sessions then.
LEMMA OwnIdsInductive == DevTyped /\ Referenced /\ OwnIds /\ [V!Next]_V!vars => OwnIds'
<1> SUFFICES ASSUME DevTyped, Referenced, OwnIds, [V!Next]_V!vars PROVE OwnIds'
  OBVIOUS
<1>1. DevTyped' /\ Referenced'
  BY DevTypedInductive, ReferencedInductive
<1>2. Counted /\ Counted'
  BY <1>1, CountsAre DEF Referenced, DevTyped
<1>3. ASSUME NEW e \in Engines, V!devcrypto_bind(e) \/ V!BindFails(e) \/ V!ENGINE_init(e) PROVE OwnIds'
  <2>1. UNCHANGED <<ctx, session, stray>> /\ (kernel_fd => kernel_fd')
    BY <1>3 DEF V!devcrypto_bind, V!BindFails, V!ENGINE_init, V!device
  <2>2. QED BY <2>1 DEF OwnIds
<1>4. ASSUME NEW e \in Engines, V!devcrypto_finish(e) PROVE OwnIds'
  <2>1. e \in Loaded /\ UNCHANGED <<ctx, stray>>
    BY <1>4 DEF V!devcrypto_finish, Referenced
  <2> DEFINE isLast == \A c \in Ctxs : ctx[c] # Nil => ctx[c].engine # e
  <2>2. V!Release(e, session, isLast) /\ isLast \in BOOLEAN
    BY <1>4 DEF V!devcrypto_finish
  <2>3. IF Loaded' = {} THEN ~kernel_fd' /\ session' = [x \in V!Ids |-> Nil]
        ELSE kernel_fd' /\ session' = session
    <3> HIDE DEF isLast
    <3>1. QED BY <2>1, <2>2, Released
  <2>4. CASE Loaded' = {}
    <3>1. \A c \in Ctxs : ctx'[c] = Nil
      BY <1>1, <2>4 DEF Referenced
    <3>2. QED BY <2>3, <2>4, <3>1 DEF OwnIds
  <2>5. CASE Loaded' # {}
    BY <2>1, <2>3, <2>5 DEF OwnIds
  <2>6. QED BY <2>4, <2>5
<1>5. ASSUME NEW c \in Ctxs, NEW e \in Engines, NEW nid \in NIDs, NEW k \in Secrets \cup {Nil}, Opens(c, e, nid, k)
      PROVE  OwnIds'
  <2>1. V!NewId \in V!Ids /\ session[V!NewId] = Nil
    BY <1>5, NewIdFacts DEF Opens
  <2>2. PICK x \in V!Ids : x = V!NewId
    BY <2>1
  <2>3. /\ kernel_fd /\ UNCHANGED kernel_fd
        /\ session' = [session EXCEPT ![x] = [nid |-> nid, key |-> k]]
        /\ ctx' = [ctx EXCEPT ![c] = [engine |-> e, nid |-> nid, id |-> x, key |-> k]]
        /\ stray' = stray \ {c}
    BY <1>5, <2>2 DEF Opens, V!MayInit, V!device
  <2>4. [nid |-> nid, key |-> k] # Nil /\ [engine |-> e, nid |-> nid, id |-> x, key |-> k] # Nil
    BY DevFacts DEF V!Opened, V!Context
  <2>5. /\ session'[x] = [nid |-> nid, key |-> k] /\ \A y \in V!Ids \ {x} : session'[y] = session[y]
        /\ ctx'[c] = [engine |-> e, nid |-> nid, id |-> x, key |-> k] /\ \A d \in Ctxs \ {c} : ctx'[d] = ctx[d]
    BY <2>3 DEF DevTyped
  <2>6. \A d \in Ctxs \ stray : ctx[d] # Nil => ctx[d].id # x
    <3> SUFFICES ASSUME NEW d \in Ctxs \ stray, ctx[d] # Nil, ctx[d].id = x PROVE FALSE
      OBVIOUS
    <3>1. session[x] = [nid |-> ctx[d].nid, key |-> ctx[d].key]
      BY DEF OwnIds
    <3>2. ctx[d].nid \in NIDs /\ ctx[d].key \in Secrets \cup {Nil}
      BY DEF DevTyped, V!Context
    <3>3. session[x] \in V!Opened
      BY <3>1, <3>2 DEF V!Opened
    <3>4. QED BY <3>3, <2>1, <2>2, DevFacts
  <2>7. \A d \in Ctxs \ stray' : ctx'[d] # Nil =>
          ctx'[d].id \in V!Ids /\ session'[ctx'[d].id] = [nid |-> ctx'[d].nid, key |-> ctx'[d].key]
    <3> TAKE d \in Ctxs \ stray'
    <3>1. CASE d = c
      BY <3>1, <2>5
    <3>2. CASE d # c
      BY <3>2, <2>3, <2>5, <2>6 DEF OwnIds
    <3>3. QED BY <3>1, <3>2
  <2>8. \A b, d \in Ctxs \ stray' : b # d /\ ctx'[b] # Nil /\ ctx'[d] # Nil => ctx'[b].id # ctx'[d].id
    BY <2>3, <2>5, <2>6 DEF OwnIds
  <2>9. QED BY <2>3, <2>7, <2>8 DEF OwnIds
<1>6. ASSUME NEW c \in Ctxs, NEW e \in Engines, NEW nid \in NIDs, V!InitEarlyFails(c, e, nid) PROVE OwnIds'
  <2>1. PICK x \in Garbage : ctx' = [ctx EXCEPT ![c] = [engine |-> e, nid |-> nid, id |-> x, key |-> Nil]]
    BY <1>6 DEF V!InitEarlyFails
  <2>2. stray' = stray \cup {c} /\ UNCHANGED <<session, kernel_fd>>
    BY <1>6 DEF V!InitEarlyFails, V!device
  <2>3. \A d \in Ctxs \ stray' : d \in Ctxs \ stray /\ ctx'[d] = ctx[d]
    BY <2>1, <2>2 DEF DevTyped
  <2>4. QED BY <2>2, <2>3 DEF OwnIds
<1>7. ASSUME NEW c \in Ctxs, V!devcrypto_cipher_cleanup(c) PROVE OwnIds'
  <2>1. /\ ctx[c] # Nil /\ ctx[c].engine \in Loaded /\ ctx' = [ctx EXCEPT ![c] = Nil] /\ kernel_fd
        /\ stray' = (IF c \in stray THEN stray \cup V!Robbed(c) ELSE stray) \ {c}
    BY <1>7, <1>2 DEF V!devcrypto_cipher_cleanup, Referenced, Counted
  <2> DEFINE isLast == /\ ctx[c].engine \notin app_ref
                      /\ \A d \in Ctxs \ {c} : ctx[d] # Nil => ctx[d].engine # ctx[c].engine
  <2>2. V!Release(ctx[c].engine, V!Closed(c), isLast) /\ isLast \in BOOLEAN
    BY <1>7, <2>1 DEF V!devcrypto_cipher_cleanup
  <2>3. IF Loaded' = {} THEN ~kernel_fd' /\ session' = [x \in V!Ids |-> Nil]
        ELSE kernel_fd' /\ session' = V!Closed(c)
    <3> HIDE DEF isLast
    <3>1. QED BY <2>1, <2>2, Released
  <2>4. CASE Loaded' = {}
    <3>1. \A d \in Ctxs : ctx'[d] = Nil
      BY <1>1, <2>4 DEF Referenced
    <3>2. QED BY <2>3, <2>4, <3>1 DEF OwnIds
  <2>5. CASE Loaded' # {}
    <3>1. \A x \in V!Ids : x # ctx[c].id => session'[x] = session[x]
      BY <2>3, <2>5 DEF V!Closed
    <3>2. \A d \in Ctxs \ stray' : ctx'[d] # Nil => d \in Ctxs \ stray /\ d # c /\ ctx'[d] = ctx[d]
      BY <2>1 DEF DevTyped
    <3>3. \A d \in Ctxs \ stray' : ctx'[d] # Nil => ctx[d].id # ctx[c].id
      <4> SUFFICES ASSUME NEW d \in Ctxs \ stray', ctx'[d] # Nil, ctx[d].id = ctx[c].id PROVE FALSE
        OBVIOUS
      <4>1. CASE c \in stray
        BY <4>1, <2>1, <3>2 DEF V!Robbed
      <4>2. CASE c \notin stray
        BY <4>2, <2>1, <3>2 DEF OwnIds
      <4>3. QED BY <4>1, <4>2
    <3>4. QED BY <2>3, <2>5, <3>1, <3>2, <3>3 DEF OwnIds
  <2>6. QED BY <2>4, <2>5
<1>8. CASE UNCHANGED V!vars
  BY <1>8 DEF OwnIds, V!vars, V!device
<1>9. QED BY <1>3, <1>4, <1>5, <1>6, <1>7, <1>8, DevSteps

\* Each key set in a context that had a session leaves at most one open.
LEMMA LeftInductive ==
  DevInv /\ [V!Next]_V!vars => Cardinality(LeftOpen') <= rekeyed'
<1> SUFFICES ASSUME DevInv, [V!Next]_V!vars PROVE Cardinality(LeftOpen') <= rekeyed'
  OBVIOUS
<1>1. DevTyped /\ Referenced /\ OwnIds /\ DevTyped' /\ Referenced' /\ OwnIds'
  BY DevTypedInductive, ReferencedInductive, OwnIdsInductive DEF DevInv
<1>2. Counted /\ Counted'
  BY <1>1, CountsAre DEF Referenced, DevTyped
<1>3. IsFiniteSet(LeftOpen) /\ IsFiniteSet(LeftOpen') /\ Cardinality(LeftOpen) \in Nat /\ Cardinality(LeftOpen') \in Nat
  <2>1. IsFiniteSet(LeftOpen) /\ IsFiniteSet(LeftOpen')
    BY DevFacts, FS_Subset DEF LeftOpen
  <2>2. QED BY <2>1, FS_CardinalityType
<1>4. ASSUME LeftOpen' \subseteq LeftOpen, rekeyed' = rekeyed PROVE Cardinality(LeftOpen') <= rekeyed'
  <2>1. Cardinality(LeftOpen') <= Cardinality(LeftOpen)
    BY <1>3, <1>4, FS_Subset
  <2>2. QED BY <2>1, <1>3, <1>4 DEF DevInv, DevTyped
<1>5. ASSUME NEW e \in Engines, V!devcrypto_bind(e) \/ V!BindFails(e) \/ V!ENGINE_init(e)
      PROVE Cardinality(LeftOpen') <= rekeyed'
  <2>1. UNCHANGED <<ctx, session, rekeyed, stray>>
    BY <1>5 DEF V!devcrypto_bind, V!BindFails, V!ENGINE_init
  <2>2. QED BY <2>1, <1>4 DEF LeftOpen
<1>6. ASSUME \A x \in V!Ids : session'[x] = Nil, UNCHANGED rekeyed PROVE Cardinality(LeftOpen') <= rekeyed'
  BY <1>4, <1>6 DEF LeftOpen
<1>7. ASSUME NEW e \in Engines, V!devcrypto_finish(e) PROVE Cardinality(LeftOpen') <= rekeyed'
  <2>1. UNCHANGED <<ctx, rekeyed, stray>> /\ e \in Loaded
    BY <1>1, <1>7 DEF V!devcrypto_finish, Referenced
  <2> DEFINE isLast == \A c \in Ctxs : ctx[c] # Nil => ctx[c].engine # e
  <2>2. V!Release(e, session, isLast) /\ isLast \in BOOLEAN
    BY <1>7 DEF V!devcrypto_finish
  <2>3. (\A x \in V!Ids : session'[x] = Nil) \/ session' = session
    <3> HIDE DEF isLast
    <3>1. session' = [x \in V!Ids |-> Nil] \/ session' = session
      BY <1>1, <2>1, <2>2, Released
    <3>2. QED BY <3>1
  <2>4. CASE session' = session
    BY <2>1, <2>4, <1>4 DEF LeftOpen
  <2>5. QED BY <2>1, <2>3, <2>4, <1>6
<1>8. ASSUME NEW c \in Ctxs, NEW e \in Engines, NEW nid \in NIDs, NEW k \in Secrets \cup {Nil}, Opens(c, e, nid, k)
      PROVE Cardinality(LeftOpen') <= rekeyed'
  <2>1. V!NewId \in V!Ids
    BY <1>8, NewIdFacts DEF Opens
  <2>2. PICK x \in V!Ids : x = V!NewId
    BY <2>1
  <2>3. /\ session' = [session EXCEPT ![x] = [nid |-> nid, key |-> k]]
        /\ ctx' = [ctx EXCEPT ![c] = [engine |-> e, nid |-> nid, id |-> x, key |-> k]]
        /\ rekeyed' = IF ctx[c] = Nil THEN rekeyed ELSE rekeyed + 1
        /\ stray' = stray \ {c}
    BY <1>8, <2>2 DEF Opens
  <2>4. [engine |-> e, nid |-> nid, id |-> x, key |-> k] # Nil
    BY DevFacts DEF V!Context
  <2>5. /\ \A y \in V!Ids \ {x} : session'[y] = session[y]
        /\ ctx'[c] # Nil /\ ctx'[c].id = x /\ \A d \in Ctxs \ {c} : ctx'[d] = ctx[d]
    BY <1>1, <2>3, <2>4 DEF DevTyped
  <2>6. x \notin LeftOpen'
    BY <2>3, <2>5 DEF LeftOpen
  <2>7. CASE ctx[c] = Nil
    <3>1. LeftOpen' \subseteq LeftOpen
      BY <2>3, <2>5, <2>6, <2>7 DEF LeftOpen
    <3>2. QED BY <3>1, <2>3, <2>7, <1>4
  <2>8. CASE ctx[c] # Nil
    <3>1. LeftOpen' \subseteq LeftOpen \cup {ctx[c].id}
      BY <2>3, <2>5, <2>6, <2>8 DEF LeftOpen
    <3>2. /\ IsFiniteSet(LeftOpen \cup {ctx[c].id})
          /\ Cardinality(LeftOpen \cup {ctx[c].id}) \in {Cardinality(LeftOpen), Cardinality(LeftOpen) + 1}
      BY <1>3, FS_AddElement
    <3>3. Cardinality(LeftOpen') <= Cardinality(LeftOpen \cup {ctx[c].id})
      BY <3>1, <3>2, FS_Subset
    <3>4. Cardinality(LeftOpen') <= Cardinality(LeftOpen) + 1
      BY <3>2, <3>3, <1>3
    <3>5. QED BY <3>4, <2>3, <2>8, <1>3 DEF DevInv, DevTyped
  <2>9. QED BY <2>7, <2>8
<1>9. ASSUME NEW c \in Ctxs, NEW e \in Engines, NEW nid \in NIDs, V!InitEarlyFails(c, e, nid)
      PROVE Cardinality(LeftOpen') <= rekeyed'
  <2>1. PICK x \in Garbage : ctx' = [ctx EXCEPT ![c] = [engine |-> e, nid |-> nid, id |-> x, key |-> Nil]]
    BY <1>9 DEF V!InitEarlyFails
  <2>2. ctx[c] = Nil /\ stray' = stray \cup {c} /\ UNCHANGED <<session, rekeyed>>
    BY <1>9 DEF V!InitEarlyFails
  <2>3. \A d \in Ctxs \ {c} : ctx'[d] = ctx[d]
    BY <1>1, <2>1 DEF DevTyped
  <2>4. LeftOpen' \subseteq LeftOpen
    BY <2>2, <2>3 DEF LeftOpen
  <2>5. QED BY <2>2, <2>4, <1>4
<1>10. ASSUME NEW c \in Ctxs, V!devcrypto_cipher_cleanup(c) PROVE Cardinality(LeftOpen') <= rekeyed'
  <2>1. /\ ctx[c] # Nil /\ ctx[c].engine \in Loaded /\ ctx' = [ctx EXCEPT ![c] = Nil] /\ UNCHANGED rekeyed /\ kernel_fd
        /\ stray' = (IF c \in stray THEN stray \cup V!Robbed(c) ELSE stray) \ {c}
    BY <1>10, <1>1, <1>2 DEF V!devcrypto_cipher_cleanup, Referenced, Counted
  <2> DEFINE isLast == /\ ctx[c].engine \notin app_ref
                      /\ \A d \in Ctxs \ {c} : ctx[d] # Nil => ctx[d].engine # ctx[c].engine
  <2>2. V!Release(ctx[c].engine, V!Closed(c), isLast) /\ isLast \in BOOLEAN
    BY <1>10, <2>1 DEF V!devcrypto_cipher_cleanup
  <2>3. session' = [x \in V!Ids |-> Nil] \/ session' = V!Closed(c)
    <3> HIDE DEF isLast
    <3>1. QED BY <1>1, <2>1, <2>2, Released
  <2>4. CASE session' = V!Closed(c)
    <3>1. \A x \in V!Ids : session'[x] = IF x = ctx[c].id THEN Nil ELSE session[x]
      BY <2>4 DEF V!Closed
    <3>2. \A d \in Ctxs \ {c} : ctx'[d] = ctx[d]
      BY <1>1, <2>1 DEF DevTyped
    <3>3. \A d \in stray' \ stray : ctx[d].id = ctx[c].id
      BY <2>1 DEF V!Robbed
    <3>4. LeftOpen' \subseteq LeftOpen
      <4> SUFFICES ASSUME NEW x \in LeftOpen' PROVE x \in LeftOpen
        OBVIOUS
      <4>1. x \in V!Ids /\ x # ctx[c].id /\ session[x] # Nil
        BY <3>1 DEF LeftOpen
      <4>2. ASSUME NEW d \in Ctxs \ stray, ctx[d] # Nil PROVE ctx[d].id # x
        BY <4>1, <4>2, <3>2, <3>3 DEF LeftOpen
      <4>3. QED BY <4>1, <4>2 DEF LeftOpen
    <3>5. QED BY <3>4, <2>1, <1>4
  <2>5. QED BY <2>1, <2>3, <2>4, <1>6
<1>11. CASE UNCHANGED V!vars
  BY <1>11, <1>4 DEF LeftOpen, V!vars
<1>12. QED BY <1>5, <1>7, <1>8, <1>9, <1>10, <1>11, DevSteps

LEMMA DevInvInit == V!Init => DevInv
<1> SUFFICES ASSUME V!Init PROVE DevInv
  OBVIOUS
<1>1. DevTyped
  <2>1. {kernel_fd, kernel_fd_lock, provider_id} \subseteq BOOLEAN
    BY DEF V!Init
  <2>2. kernel_fd_ref \in Nat /\ loads \in 0..MaxLoads /\ rekeyed \in 0..MaxId
    BY DevFacts DEF V!Init
  <2>3. QED BY <2>1, <2>2 DEF V!Init, DevTyped
<1>2. Loaded = {} /\ LeftOpen = {}
  BY DEF V!Init, Loaded, LeftOpen
<1>3. Counted
  BY <1>2, FS_EmptySet DEF V!Init, Counted
<1>4. Referenced
  BY <1>1, <1>2, <1>3, CountsAre DEF V!Init, Referenced, DevTyped
<1>5. QED BY <1>1, <1>2, <1>4, FS_EmptySet DEF V!Init, DevInv, OwnIds

LEMMA DevInvInductive == DevInv /\ [V!Next]_V!vars => DevInv'
<1> SUFFICES ASSUME DevInv, [V!Next]_V!vars PROVE DevInv'
  OBVIOUS
<1>1. DevTyped' /\ Referenced' /\ OwnIds'
  BY DevTypedInductive, ReferencedInductive, OwnIdsInductive DEF DevInv
<1>2. QED BY <1>1, LeftInductive DEF DevInv

\* What devcrypto_get_hw_ciphers adds to a list that begins with junk: the
\* providers' ciphers, none of them twice.
LEMMA NewListFacts ==
  ASSUME NEW junk \in Seq(NIDs \cup {V!Junk})
  PROVE  /\ V!NewList(junk) \in Seq(NIDs \cup {V!Junk})
         /\ V!Members(V!NewList(junk)) = V!Members(junk) \cup UNION V!Members(Providers)
         /\ Cardinality(V!Members(junk)) = Len(junk) =>
              Cardinality(V!Members(V!NewList(junk))) = Len(V!NewList(junk))
<1> DEFINE X == NIDs \cup {V!Junk}
           N == Len(Providers)
           Missing(p, l) == {nid \in Providers[p] : ~V!InList(nid, l)}
           Found(p, l) == CHOOSE s \in [1..V!Cardinality(Missing(p, l)) -> Missing(p, l)] :
                            V!Members(s) = Missing(p, l)
           Is(f, n) == f = [p \in 0..n |-> IF p = 0 THEN junk ELSE f[p - 1] \o Found(p, f[p - 1])]
<1>1. N \in Nat /\ \A p \in 1..N : Providers[p] \subseteq NIDs
  BY DevFacts
<1>2. \A l : \A p \in 1..N :
                          /\ IsFiniteSet(Missing(p, l)) /\ Cardinality(Missing(p, l)) \in Nat
                          /\ Found(p, l) \in [1..Cardinality(Missing(p, l)) -> Missing(p, l)]
                          /\ V!Members(Found(p, l)) = Missing(p, l)
  <2> SUFFICES ASSUME NEW p \in 1..N, NEW l
               PROVE  /\ IsFiniteSet(Missing(p, l)) /\ Cardinality(Missing(p, l)) \in Nat
                      /\ Found(p, l) \in [1..Cardinality(Missing(p, l)) -> Missing(p, l)]
                      /\ V!Members(Found(p, l)) = Missing(p, l)
    OBVIOUS
  <2>1. IsFiniteSet(Missing(p, l))
    <3>1. Missing(p, l) \subseteq NIDs
      BY <1>1
    <3>2. QED BY <3>1, DevFacts, FS_Subset
  <2> DEFINE M == Missing(p, l)
             m == Cardinality(M)
  <2>2. m \in Nat /\ ExistsBijection(1..m, M) /\ V!Cardinality(M) = m
    <3> HIDE DEF M
    <3>1. QED BY <2>1, FS_CardinalityType, SameCounts DEF M
  <2> HIDE DEF M, m
  <2>3. PICK s \in [1..m -> M] : \A x \in M : \E k \in 1..m : s[k] = x
    BY <2>2 DEF ExistsBijection, Bijection, Surjection
  <2>4. V!Members(s) = M
    BY <2>3 DEF V!Members
  <2>5. Found(p, l) \in [1..V!Cardinality(M) -> M] /\ V!Members(Found(p, l)) = M
    BY <2>2, <2>3, <2>4 DEF M
  <2>6. QED BY <2>1, <2>2, <2>5 DEF M, m
<1> HIDE DEF Missing, Found, N
<1>3. \A n \in Nat : \E f : Is(f, n)
  <2> DEFINE G == {n \in Nat : \E f : Is(f, n)}
  <2>1. 0 \in G
    <3>1. Is([p \in 0..0 |-> junk], 0)
      OBVIOUS
    <3>2. QED BY <3>1
  <2>2. \A n \in Nat : n \in G => n + 1 \in G
    <3> SUFFICES ASSUME NEW n \in Nat, NEW f, Is(f, n) PROVE n + 1 \in G
      OBVIOUS
    <3> DEFINE g == [p \in 0..n + 1 |-> IF p = n + 1 THEN f[n] \o Found(n + 1, f[n]) ELSE f[p]]
    <3>1. \A p \in 0..n : f[p] = IF p = 0 THEN junk ELSE f[p - 1] \o Found(p, f[p - 1])
      BY Zenon
    <3>2. \A p \in 0..n + 1 : g[p] = IF p = 0 THEN junk ELSE g[p - 1] \o Found(p, g[p - 1])
      <4> TAKE p \in 0..n + 1
      <4>1. CASE p = n + 1
        <5>1. n + 1 \in 0..n + 1 /\ n \in 0..n + 1 /\ n # n + 1 /\ n + 1 # 0 /\ (n + 1) - 1 = n
          OBVIOUS
        <5>2. g[n + 1] = f[n] \o Found(n + 1, f[n]) /\ g[n] = f[n]
          BY <5>1, Zenon
        <5> HIDE DEF g
        <5>3. QED BY <4>1, <5>1, <5>2
      <4>2. CASE p # n + 1
        <5>1. p \in 0..n /\ (p # 0 => p - 1 \in 0..n)
          BY <4>2
        <5>2. g[p] = f[p] /\ (p # 0 => g[p - 1] = f[p - 1])
          BY <5>1
        <5>3. QED BY <3>1, <5>1, <5>2
      <4>3. QED BY <4>1, <4>2
    <3>3. Is(g, n + 1)
      <4>1. g = [p \in 0..n + 1 |-> g[p]]
        OBVIOUS
      <4> HIDE DEF g
      <4>2. QED BY <4>1, <3>2
    <3>4. QED BY <3>3
  <2>3. Nat \subseteq G
    <3> HIDE DEF G
    <3>1. QED BY <2>1, <2>2, SetInduction
  <2>4. QED BY <2>3
<1> DEFINE upto[p \in 0..N] == IF p = 0 THEN junk ELSE upto[p - 1] \o Found(p, upto[p - 1])
<1>4. V!NewList(junk) = upto[N]
  BY DEF V!NewList, Found, Missing, N
<1>5. Is(upto, N)
  BY <1>1, <1>3
<1> HIDE DEF upto
<1>6. upto[0] = junk /\ \A p \in 1..N : upto[p] = upto[p - 1] \o Found(p, upto[p - 1])
  BY <1>1, <1>5
<1> HIDE DEF Is
<1> DEFINE Full(p) == /\ upto[p] \in Seq(X)
                      /\ V!Members(upto[p]) = V!Members(junk) \cup UNION {Providers[q] : q \in 1..p}
                      /\ Cardinality(V!Members(junk)) = Len(junk) => Cardinality(V!Members(upto[p])) = Len(upto[p])
<1>7. \A n \in Nat : n <= N => Full(n)
  <2> DEFINE G == {n \in Nat : n <= N => Full(n)}
  <2>1. 0 \in G
    <3>1. UNION {Providers[q] : q \in 1..0} = {}
      OBVIOUS
    <3>2. QED BY <3>1, <1>6
  <2>2. \A n \in Nat : n \in G => n + 1 \in G
    <3> HIDE DEF Full
    <3> SUFFICES ASSUME NEW n \in Nat, n \in G, n + 1 <= N PROVE Full(n + 1)
      <4>1. \A n \in Nat : n + 1 \in Nat
        OBVIOUS
      <4>2. QED BY <4>1, Zenon
    <3>a. N \in Nat
      BY <1>1
    <3>b. Full(n)
      <4> HIDE DEF N
      <4>1. n <= N
        BY <3>a, SMT
      <4>2. QED BY <4>1, Zenon
    <3>1. n + 1 \in 1..N
      BY <1>1
    <3> DEFINE l == upto[n]
               M == Missing(n + 1, l)
               s == Found(n + 1, l)
               k == upto[n + 1]
    <3>2. k = l \o s
      <4>1. (n + 1) - 1 = n
        OBVIOUS
      <4>2. QED BY <3>1, <4>1, <1>6
    <3>3. IsFiniteSet(M) /\ Cardinality(M) \in Nat /\ s \in [1..Cardinality(M) -> M] /\ V!Members(s) = M
      BY <3>1, <1>2
    <3>4. M \subseteq X /\ M \cap V!Members(l) = {} /\ M \cup V!Members(l) = Providers[n + 1] \cup V!Members(l)
      BY <3>1, <1>1 DEF Missing, V!InList
    <3>5. l \in Seq(X) /\ V!Members(l) = V!Members(junk) \cup UNION {Providers[q] : q \in 1..n}
          /\ (Cardinality(V!Members(junk)) = Len(junk) => Cardinality(V!Members(l)) = Len(l))
      BY <3>b DEF Full
    <3> HIDE DEF l, M, s, k, X, G
    <3>6. s \in Seq(X) /\ Len(s) = Cardinality(M)
      BY <3>3, <3>4
    <3>7. k \in Seq(X) /\ Len(k) = Len(l) + Len(s)
      <4>1. l \in Seq(X) /\ s \in Seq(X)
        BY <3>5, <3>6
      <4>2. QED BY <4>1, <3>2
    <3>8. V!Members(k) = V!Members(l) \cup M
      <4>1. \A j \in 1..Len(k) : k[j] = IF j <= Len(l) THEN l[j] ELSE s[j - Len(l)]
        <5>1. l \in Seq(X) /\ s \in Seq(X)
          BY <3>5, <3>6
        <5>2. QED BY <5>1, <3>2
      <4>2. Len(l) \in Nat /\ Len(s) \in Nat /\ DOMAIN l = 1..Len(l) /\ DOMAIN s = 1..Len(s) /\ DOMAIN k = 1..Len(k)
        BY <3>5, <3>6, <3>7
      <4>3. /\ V!Members(k) = {k[j] : j \in 1..Len(k)} /\ V!Members(l) = {l[j] : j \in 1..Len(l)}
            /\ M = {s[j] : j \in 1..Len(s)}
        BY <4>2, <3>3 DEF V!Members
      <4>4. Len(k) = Len(l) + Len(s)
        BY <3>7
      <4>5. V!Members(k) \subseteq V!Members(l) \cup M
        <5> SUFFICES ASSUME NEW j \in 1..Len(k) PROVE k[j] \in V!Members(l) \cup M
          BY <4>3
        <5>1. CASE j <= Len(l)
          <6>1. j \in 1..Len(l) /\ k[j] = l[j]
            BY <4>1, <4>2, <5>1
          <6>2. QED BY <4>3, <6>1
        <5>2. CASE ~(j <= Len(l))
          <6>1. j - Len(l) \in 1..Len(s) /\ k[j] = s[j - Len(l)]
            BY <4>1, <4>2, <4>4, <5>2
          <6>2. QED BY <4>3, <6>1
        <5>3. QED BY <5>1, <5>2
      <4>6. \A j \in 1..Len(l) : j \in 1..Len(k) /\ k[j] = l[j]
        BY <4>1, <4>2, <4>4
      <4>7. \A j \in 1..Len(s) : Len(l) + j \in 1..Len(k) /\ k[Len(l) + j] = s[j]
        BY <4>1, <4>2, <4>4
      <4>8. V!Members(l) \cup M \subseteq V!Members(k)
        BY <4>3, <4>6, <4>7
      <4>9. QED BY <4>5, <4>8
    <3>9. UNION {Providers[q] : q \in 1..(n + 1)} = (UNION {Providers[q] : q \in 1..n}) \cup Providers[n + 1]
      <4>1. 1..(n + 1) = (1..n) \cup {n + 1}
        OBVIOUS
      <4>2. {Providers[q] : q \in 1..(n + 1)} = {Providers[q] : q \in 1..n} \cup {Providers[n + 1]}
        BY <4>1, Zenon
      <4>3. QED BY <4>2
    <3>10. V!Members(k) = V!Members(junk) \cup UNION {Providers[q] : q \in 1..(n + 1)}
      BY <3>4, <3>5, <3>8, <3>9
    <3>11. IsFiniteSet(V!Members(l)) /\ Cardinality(V!Members(l)) \in Nat
      <4>1. IsFiniteSet(X)
        BY DevFacts, FS_AddElement DEF X
      <4>2. V!Members(l) \subseteq X
        BY <3>5 DEF V!Members
      <4>3. QED BY <4>1, <4>2, FS_Subset, FS_CardinalityType
    <3>12. Cardinality(V!Members(k)) = Cardinality(V!Members(l)) + Cardinality(M)
      <4>1. Cardinality(V!Members(l) \cap M) = 0
        BY <3>4, FS_EmptySet
      <4>2. Cardinality(V!Members(l) \cup M) = Cardinality(V!Members(l)) + Cardinality(M) - Cardinality(V!Members(l) \cap M)
        BY <3>3, <3>11, FS_Union
      <4>3. QED BY <4>1, <4>2, <3>3, <3>8, <3>11
    <3>13. Cardinality(V!Members(junk)) = Len(junk) => Cardinality(V!Members(k)) = Len(k)
      BY <3>5, <3>6, <3>7, <3>12
    <3>14. QED BY <3>7, <3>10, <3>13 DEF Full, k, X
  <2>3. Nat \subseteq G
    <3> HIDE DEF G
    <3>1. QED BY <2>1, <2>2, SetInduction
  <2>4. QED BY <2>3
<1>8. V!Members(Providers) = {Providers[q] : q \in 1..N}
  BY DevFacts DEF V!Members, N
<1>9. Full(N)
  <2> HIDE DEF Full
  <2>1. QED BY <1>1, <1>7
<1>10. QED BY <1>4, <1>8, <1>9

\* devcrypto_bind, devcrypto_cleanup: the list.
LEMMA FirstListInductive ==
  DevTyped /\ Referenced /\ FirstList /\ [V!Next]_V!vars => FirstList'
<1> SUFFICES ASSUME DevTyped, Referenced, FirstList, [V!Next]_V!vars PROVE FirstList'
  OBVIOUS
<1>1. ASSUME UNCHANGED <<cipher_count, loads>>, cipher_nids' \in {cipher_nids, Nil} PROVE FirstList'
  BY <1>1 DEF FirstList, V!FirstCiphersRight, V!CiphersRight
<1>2. ASSUME NEW e \in Engines, V!devcrypto_bind(e) PROVE FirstList'
  <2>1. PICK junk \in [1..cipher_count -> NIDs \cup {V!Junk}] :
              cipher_nids' = V!NewList(junk) /\ cipher_count' = Len(V!NewList(junk))
    BY <1>2 DEF V!devcrypto_bind
  <2>2. junk \in Seq(NIDs \cup {V!Junk}) /\ Len(junk) = cipher_count
    BY <2>1 DEF FirstList
  <2>3. /\ cipher_nids' \in Seq(NIDs \cup {V!Junk})
        /\ V!Members(cipher_nids') = V!Members(junk) \cup UNION V!Members(Providers)
        /\ Cardinality(V!Members(junk)) = Len(junk) => Cardinality(V!Members(cipher_nids')) = Len(cipher_nids')
    BY <2>1, <2>2, NewListFacts
  <2>4. loads' = loads + 1
    BY <1>2 DEF V!devcrypto_bind
  <2>5. V!FirstCiphersRight'
    <3> SUFFICES ASSUME loads' <= 1 PROVE V!CiphersRight'
      BY DEF V!FirstCiphersRight
    <3>1. cipher_count = 0
      BY <2>4 DEF DevTyped, FirstList
    <3>2. V!Members(junk) = {} /\ Len(junk) = 0
      BY <2>2, <3>1 DEF V!Members
    <3>3. V!Members(cipher_nids') = UNION V!Members(Providers) /\ Cardinality(V!Members(cipher_nids')) = Len(cipher_nids')
      BY <2>3, <3>2, FS_EmptySet
    <3>4. cipher_count' = V!Cardinality(V!Members(cipher_nids'))
      BY <3>3, <2>1, SameCounts
    <3>5. QED BY <3>3, <3>4, <2>1 DEF V!CiphersRight
  <2>6. cipher_count' \in Nat
    BY <2>1, <2>3
  <2>7. V!Members(cipher_nids') \subseteq NIDs \cup {V!Junk}
    BY <2>3 DEF V!Members
  <2>8. loads' # 0
    BY <2>4 DEF DevTyped
  <2>9. QED BY <2>5, <2>6, <2>7, <2>8 DEF FirstList
<1>3. ASSUME NEW e \in Engines, V!BindFails(e) PROVE FirstList'
  <2>1. cipher_count' \in cipher_count..cipher_count + V!Cardinality(NIDs) /\ loads' = loads + 1 /\ UNCHANGED cipher_nids
    BY <1>3 DEF V!BindFails
  <2>2. cipher_count' \in Nat
    <3>1. V!Cardinality(NIDs) \in Nat
      BY DevFacts, SameCounts, FS_CardinalityType
    <3>2. QED BY <2>1, <3>1 DEF FirstList
  <2>3. loads' # 0 /\ (loads' <= 1 => loads = 0)
    BY <2>1 DEF DevTyped
  <2>4. V!FirstCiphersRight'
    BY <2>1, <2>3 DEF FirstList, V!FirstCiphersRight, V!CiphersRight
  <2>5. QED BY <2>1, <2>2, <2>3, <2>4 DEF FirstList
<1>4. ASSUME NEW e \in Loaded, NEW rest, NEW isLast \in BOOLEAN, V!Release(e, rest, isLast)
      PROVE  cipher_nids' \in {cipher_nids, Nil}
  BY <1>4, Released
<1>5. ASSUME NEW e \in Engines, V!devcrypto_finish(e) PROVE FirstList'
  <2> DEFINE isLast == \A c \in Ctxs : ctx[c] # Nil => ctx[c].engine # e
  <2>1. V!Release(e, session, isLast) /\ isLast \in BOOLEAN /\ e \in Loaded /\ UNCHANGED <<cipher_count, loads>>
    BY <1>5 DEF V!devcrypto_finish, Referenced
  <2> HIDE DEF isLast
  <2>2. QED BY <2>1, <1>4, <1>1
<1>6. ASSUME NEW c \in Ctxs, V!devcrypto_cipher_cleanup(c) PROVE FirstList'
  <2> DEFINE isLast == /\ ctx[c].engine \notin app_ref
                      /\ \A d \in Ctxs \ {c} : ctx[d] # Nil => ctx[d].engine # ctx[c].engine
             rest == IF kernel_fd THEN V!Closed(c) ELSE session
  <2>1. /\ V!Release(ctx[c].engine, rest, isLast) /\ isLast \in BOOLEAN
        /\ ctx[c].engine \in Loaded /\ UNCHANGED <<cipher_count, loads>>
    BY <1>6 DEF V!devcrypto_cipher_cleanup, Referenced
  <2> HIDE DEF isLast, rest
  <2>2. QED BY <2>1, <1>4, <1>1
<1>7. ASSUME NEW e \in Engines, V!ENGINE_init(e) PROVE FirstList'
  BY <1>7, <1>1 DEF V!ENGINE_init, V!list
<1>8. ASSUME NEW c \in Ctxs, NEW e \in Engines, NEW nid \in NIDs,
             V!InitEarlyFails(c, e, nid) \/ \E k \in Secrets \cup {Nil} : Opens(c, e, nid, k)
      PROVE  FirstList'
  BY <1>8, <1>1 DEF V!InitEarlyFails, Opens, V!list
<1>9. CASE UNCHANGED V!vars
  BY <1>9, <1>1 DEF V!vars, V!list
<1>10. QED BY <1>2, <1>3, <1>5, <1>6, <1>7, <1>8, <1>9, DevSteps

\* The variables of the devcrypto engine keep to their types.
LEMMA DevTypeCorrect == DevTyped /\ Referenced /\ FirstList => V!TypeOK
<1> SUFFICES ASSUME DevTyped, Referenced, FirstList PROVE V!TypeOK
  OBVIOUS
<1>1. kernel_fd_ref \in 0..MaxLoads /\ loads \in 0..MaxLoads
  BY DevFacts DEF DevTyped, Referenced
<1>2. QED BY <1>1 DEF V!TypeOK, DevTyped, FirstList

LEMMA DevListsSafe == V!Spec => [](DevTyped /\ Referenced /\ FirstList)
<1>1. V!Init => DevTyped /\ Referenced /\ FirstList
  <2>1. V!Init => FirstList
    BY DEF V!Init, FirstList, V!FirstCiphersRight, V!CiphersRight
  <2>2. QED BY <2>1, DevInvInit DEF DevInv
<1>2. DevTyped /\ Referenced /\ FirstList /\ [V!Next]_V!vars => (DevTyped /\ Referenced /\ FirstList)'
  BY DevTypedInductive, ReferencedInductive, FirstListInductive
<1>3. QED BY <1>1, <1>2, PTL DEF V!Spec

-----------------------------------------------------------------------------
(* The slot selection. *)

\* The ciphers or digests of a table that a slot takes, of those allowed.
Fit(table, mechs, allowed) ==
  {e.nid : e \in {e \in L!Entries(table) : e.len \in mechs[e.mech] /\ e.nid \in allowed}}

\* The answer that is kept is not that of the first cipher's mechanism.
Fresh(lst) == Ciphers # <<>> => lst.mech # Ciphers[1].mech

LEMMA SlotFacts ==
  /\ NSlots \in Nat \ {0} /\ MaxInits \in Nat
  /\ Len(Ciphers) \in Nat /\ DOMAIN Ciphers = 1..Len(Ciphers)
  /\ Len(Digests) \in Nat /\ DOMAIN Digests = 1..Len(Digests)
  /\ \A m, n \in 1..Len(Ciphers) : Ciphers[m].nid = Ciphers[n].nid => m = n
  /\ \A m, n \in 1..Len(Digests) : Digests[m].nid = Digests[n].nid => m = n
  /\ L!Nids(Ciphers) \cap L!Nids(Digests) = {}
  /\ Len(Ciphers) > 0 => Ciphers[1].mech # "none" /\ Ciphers[1].mech # Ciphers[Len(Ciphers)].mech
  /\ Ciphers # <<>> <=> Len(Ciphers) > 0
BY OpsAssumption DEF L!SlotsAssumption

\* A table's nids up to a row.
Rows(table, n, mechs, allowed) ==
  {table[q].nid : q \in {q \in 1..n : table[q].len \in mechs[table[q].mech] /\ table[q].nid \in allowed}}

LEMMA FitIsRows ==
  ASSUME NEW mechs, NEW allowed
  PROVE  /\ Fit(Ciphers, mechs, allowed) = Rows(Ciphers, Len(Ciphers), mechs, allowed)
         /\ Fit(Digests, mechs, allowed) = Rows(Digests, Len(Digests), mechs, allowed)
<1>1. ASSUME NEW table, DOMAIN table = 1..Len(table)
      PROVE  Fit(table, mechs, allowed) = Rows(table, Len(table), mechs, allowed)
  <2>1. L!Entries(table) = {table[q] : q \in 1..Len(table)}
    BY <1>1 DEF L!Entries
  <2>2. QED BY <2>1, Zenon DEF Fit, Rows
<1>2. QED BY <1>1, SlotFacts

\* The next row is a nid of its own.
LEMMA NextRow ==
  ASSUME NEW table, \A m, n \in 1..Len(table) : table[m].nid = table[n].nid => m = n,
         NEW n \in Nat, n + 1 <= Len(table), Len(table) \in Nat, NEW mechs, NEW allowed, NEW l,
         L!Members(l) = Rows(table, n, mechs, allowed), l \in Seq(L!Nids(table)),
         IsFiniteSet(L!Members(l)), Cardinality(L!Members(l)) = Len(l),
         DOMAIN table = 1..Len(table)
  PROVE  LET e == table[n + 1]
             k == IF e.len \in mechs[e.mech] /\ e.nid \in allowed THEN Append(l, e.nid) ELSE l
         IN  /\ L!Members(k) = Rows(table, n + 1, mechs, allowed) /\ k \in Seq(L!Nids(table))
             /\ IsFiniteSet(L!Members(k)) /\ Cardinality(L!Members(k)) = Len(k)
<1> DEFINE e == table[n + 1]
           Fits == e.len \in mechs[e.mech] /\ e.nid \in allowed
<1>1. n + 1 \in 1..Len(table) /\ 1..(n + 1) = (1..n) \cup {n + 1}
  OBVIOUS
<1>2. e.nid \in L!Nids(table)
  BY <1>1 DEF L!Nids, L!Entries
<1>3. Rows(table, n + 1, mechs, allowed) = Rows(table, n, mechs, allowed) \cup (IF Fits THEN {e.nid} ELSE {})
  BY <1>1 DEF Rows
<1>4. e.nid \notin Rows(table, n, mechs, allowed)
  BY <1>1 DEF Rows
<1>5. CASE Fits
  <2> DEFINE k == Append(l, e.nid)
  <2>0. e.nid \in L!Nids(table) /\ l \in Seq(L!Nids(table))
    BY <1>2
  <2> HIDE DEF e
  <2>1. k \in Seq(L!Nids(table)) /\ Len(k) = Len(l) + 1
    BY <2>0
  <2>2. /\ DOMAIN k = 1..(Len(l) + 1) /\ DOMAIN l = 1..Len(l) /\ Len(l) \in Nat
        /\ k[Len(l) + 1] = e.nid /\ \A j \in 1..Len(l) : k[j] = l[j]
    BY <2>0
  <2>3. L!Members(k) = L!Members(l) \cup {e.nid}
    <3> HIDE DEF k
    <3>1. 1..(Len(l) + 1) = (1..Len(l)) \cup {Len(l) + 1}
      BY <2>2
    <3>2. L!Members(k) = {k[j] : j \in (1..Len(l)) \cup {Len(l) + 1}} /\ L!Members(l) = {l[j] : j \in 1..Len(l)}
      BY <2>2, <3>1 DEF L!Members
    <3>3. {k[j] : j \in (1..Len(l)) \cup {Len(l) + 1}} = {k[j] : j \in 1..Len(l)} \cup {k[Len(l) + 1]}
      BY Zenon
    <3>4. {k[j] : j \in 1..Len(l)} = {l[j] : j \in 1..Len(l)}
      BY <2>2
    <3>5. QED BY <2>2, <3>2, <3>3, <3>4
  <2>4. IsFiniteSet(L!Members(k)) /\ Cardinality(L!Members(k)) = Cardinality(L!Members(l)) + 1
    <3>1. e.nid \notin L!Members(l)
      BY <1>4
    <3>2. /\ IsFiniteSet(L!Members(l) \cup {e.nid})
          /\ Cardinality(L!Members(l) \cup {e.nid}) = Cardinality(L!Members(l)) + 1
      BY <3>1, FS_AddElement
    <3>3. QED BY <2>3, <3>2
  <2>5. QED BY <1>3, <1>5, <2>1, <2>3, <2>4 DEF e
<1>6. CASE ~Fits
  BY <1>3, <1>6
<1>7. QED BY <1>5, <1>6

\* What pk11_find_symmetric_ciphers finds, and the answer it keeps: the
\* slot's, although it asks only when the mechanism changes.
LEMMA FindCiphersFacts ==
  ASSUME NEW mechs, NEW allowed, Fresh(last)
  PROVE  LET r == L!FindCiphers(mechs, allowed) IN
         /\ r.nids \in Seq(L!Nids(Ciphers)) /\ L!Members(r.nids) = Fit(Ciphers, mechs, allowed)
         /\ IsFiniteSet(L!Members(r.nids)) /\ Cardinality(L!Members(r.nids)) = Len(r.nids)
         /\ Fresh(r.last)
<1> DEFINE N == Len(Ciphers)
           Step(n, p) ==
             LET e == Ciphers[n]
                 l == IF L!Ask(e.mech, p.last) THEN [mech |-> e.mech, lens |-> mechs[e.mech]] ELSE p.last
             IN [nids |-> IF e.len \in l.lens /\ e.nid \in allowed THEN Append(p.nids, e.nid) ELSE p.nids,
                 last |-> l]
           Begin == [nids |-> <<>>, last |-> last]
           Is(f, n) == f = [q \in 0..n |-> IF q = 0 THEN Begin ELSE Step(q, f[q - 1])]
<1>1. N \in Nat
  BY SlotFacts
<1>2. \A n \in Nat : \E f : Is(f, n)
  <2> HIDE DEF Begin, Step
  <2> DEFINE G == {n \in Nat : \E f : Is(f, n)}
  <2>1. 0 \in G
    <3>1. Is([q \in 0..0 |-> Begin], 0)
      OBVIOUS
    <3>2. QED BY <3>1
  <2>2. \A n \in Nat : n \in G => n + 1 \in G
    <3> SUFFICES ASSUME NEW n \in Nat, NEW f, Is(f, n) PROVE n + 1 \in G
      OBVIOUS
    <3> DEFINE g == [q \in 0..n + 1 |-> IF q = n + 1 THEN Step(n + 1, f[n]) ELSE f[q]]
    <3>1. \A q \in 0..n : f[q] = IF q = 0 THEN Begin ELSE Step(q, f[q - 1])
      BY Zenon
    <3>2. \A q \in 0..n + 1 : g[q] = IF q = 0 THEN Begin ELSE Step(q, g[q - 1])
      <4> TAKE q \in 0..n + 1
      <4>1. CASE q = n + 1
        BY <4>1
      <4>2. CASE q # n + 1
        <5>1. q \in 0..n /\ (q # 0 => q - 1 \in 0..n)
          BY <4>2
        <5>2. g[q] = f[q] /\ (q # 0 => g[q - 1] = f[q - 1])
          BY <5>1
        <5>3. QED BY <3>1, <5>1, <5>2
      <4>3. QED BY <4>1, <4>2
    <3>3. Is(g, n + 1)
      <4>1. g = [q \in 0..n + 1 |-> g[q]]
        OBVIOUS
      <4> HIDE DEF g
      <4>2. QED BY <4>1, <3>2
    <3>4. \E w : Is(w, n + 1)
      <4> HIDE DEF g, Is
      <4>1. QED BY <3>3
    <3> HIDE DEF Is, g
    <3>5. QED BY <3>4
  <2>3. Nat \subseteq G
    <3> HIDE DEF G
    <3>1. QED BY <2>1, <2>2, SetInduction
  <2>4. QED BY <2>3
<1> DEFINE upto[q \in 0..N] == IF q = 0 THEN Begin ELSE Step(q, upto[q - 1])
<1>3. L!FindCiphers(mechs, allowed) = upto[N]
  BY DEF L!FindCiphers
<1>4. Is(upto, N)
  <2> HIDE DEF Begin, Step
  <2>1. QED BY <1>1, <1>2
<1> HIDE DEF upto
<1>5. upto[0] = Begin /\ \A q \in 1..N : upto[q] = Step(q, upto[q - 1])
  <2> HIDE DEF Begin, Step
  <2>1. QED BY <1>1, <1>4
<1> HIDE DEF Is
<1> DEFINE Answer(q) == [mech |-> Ciphers[q].mech, lens |-> mechs[Ciphers[q].mech]]
           Full(q) == /\ upto[q].nids \in Seq(L!Nids(Ciphers))
                      /\ L!Members(upto[q].nids) = Rows(Ciphers, q, mechs, allowed)
                      /\ IsFiniteSet(L!Members(upto[q].nids)) /\ Cardinality(L!Members(upto[q].nids)) = Len(upto[q].nids)
                      /\ upto[q].last = IF q = 0 THEN last ELSE Answer(q)
<1>6. \A n \in Nat : n <= N => Full(n)
  <2> DEFINE G == {n \in Nat : n <= N => Full(n)}
  <2>1. 0 \in G
    <3>1. Rows(Ciphers, 0, mechs, allowed) = {}
      BY DEF Rows
    <3>2. L!Members(<<>>) = {}
      BY DEF L!Members
    <3>3. Len(<<>>) = 0 /\ <<>> \in Seq(L!Nids(Ciphers))
      OBVIOUS
    <3>4. upto[0].nids = <<>> /\ upto[0].last = last
      BY <1>5
    <3>5. Full(0)
      BY <3>1, <3>2, <3>3, <3>4, FS_EmptySet
    <3> HIDE DEF Full
    <3>6. QED BY <3>5
  <2>2. \A n \in Nat : n \in G => n + 1 \in G
    <3> HIDE DEF Full
    <3> SUFFICES ASSUME NEW n \in Nat, n \in G, n + 1 <= N PROVE Full(n + 1)
      <4>1. \A n \in Nat : n + 1 \in Nat
        OBVIOUS
      <4>2. QED BY <4>1, Zenon
    <3>a. N \in Nat
      BY <1>1
    <3>b. Full(n)
      <4> HIDE DEF N
      <4>1. n <= N
        BY <3>a, SMT
      <4>2. QED BY <4>1, Zenon
    <3>1. n + 1 \in 1..N /\ (n + 1) - 1 = n
      BY <1>1
    <3> DEFINE e == Ciphers[n + 1]
               p == upto[n]
               l == IF L!Ask(e.mech, p.last) THEN Answer(n + 1) ELSE p.last
               k == IF e.len \in mechs[e.mech] /\ e.nid \in allowed THEN Append(p.nids, e.nid) ELSE p.nids
    <3>2. l = Answer(n + 1)
      <4>1. p.last = IF n = 0 THEN last ELSE Answer(n)
        BY <3>b DEF Full
      <4>2. CASE n = 0
        BY <4>1, <4>2, SlotFacts, <3>1 DEF L!Ask, Fresh
      <4>3. CASE n # 0
        BY <4>1, <4>3 DEF L!Ask
      <4>4. QED BY <4>2, <4>3
    <3>3. upto[n + 1] = Step(n + 1, p)
      BY <3>1, <1>5
    <3>4. Step(n + 1, p) = [nids |-> IF e.len \in l.lens /\ e.nid \in allowed THEN Append(p.nids, e.nid) ELSE p.nids, last |-> l]
      OBVIOUS
    <3>5. upto[n + 1].nids = k /\ upto[n + 1].last = Answer(n + 1)
      BY <3>2, <3>3, <3>4
    <3>6. /\ L!Members(k) = Rows(Ciphers, n + 1, mechs, allowed) /\ k \in Seq(L!Nids(Ciphers))
          /\ IsFiniteSet(L!Members(k)) /\ Cardinality(L!Members(k)) = Len(k)
      <4>1. /\ L!Members(p.nids) = Rows(Ciphers, n, mechs, allowed) /\ p.nids \in Seq(L!Nids(Ciphers))
            /\ IsFiniteSet(L!Members(p.nids)) /\ Cardinality(L!Members(p.nids)) = Len(p.nids)
        BY <3>b DEF Full
      <4>2. QED BY <4>1, <1>1, SlotFacts, NextRow
    <3>7. QED BY <3>5, <3>6 DEF Full
  <2>3. Nat \subseteq G
    <3> HIDE DEF G
    <3>1. QED BY <2>1, <2>2, SetInduction
  <2>4. QED BY <2>3
<1>7. Full(N)
  <2> HIDE DEF Full
  <2>1. QED BY <1>1, <1>6
<1>8. Fresh(upto[N].last)
  BY <1>7, SlotFacts DEF Fresh
<1>9. QED BY <1>3, <1>7, <1>8, FitIsRows

\* The same for pk11_find_digests.
LEMMA FindDigestsFacts ==
  ASSUME NEW mechs, NEW allowed
  PROVE  LET d == L!FindDigests(mechs, allowed) IN
         /\ d \in Seq(L!Nids(Digests)) /\ L!Members(d) = Fit(Digests, mechs, allowed)
         /\ IsFiniteSet(L!Members(d)) /\ Cardinality(L!Members(d)) = Len(d)
<1> DEFINE N == Len(Digests)
           Step(n, p) ==
             LET e == Digests[n] IN
             IF e.len \in mechs[e.mech] /\ e.nid \in allowed THEN Append(p, e.nid) ELSE p
           Is(f, n) == f = [q \in 0..n |-> IF q = 0 THEN <<>> ELSE Step(q, f[q - 1])]
<1>1. N \in Nat
  BY SlotFacts
<1>2. \A n \in Nat : \E f : Is(f, n)
  <2> HIDE DEF Step
  <2> DEFINE G == {n \in Nat : \E f : Is(f, n)}
  <2>1. 0 \in G
    <3>1. Is([q \in 0..0 |-> <<>>], 0)
      OBVIOUS
    <3>2. QED BY <3>1
  <2>2. \A n \in Nat : n \in G => n + 1 \in G
    <3> SUFFICES ASSUME NEW n \in Nat, NEW f, Is(f, n) PROVE n + 1 \in G
      OBVIOUS
    <3> DEFINE g == [q \in 0..n + 1 |-> IF q = n + 1 THEN Step(n + 1, f[n]) ELSE f[q]]
    <3>1. \A q \in 0..n : f[q] = IF q = 0 THEN <<>> ELSE Step(q, f[q - 1])
      BY Zenon
    <3>2. \A q \in 0..n + 1 : g[q] = IF q = 0 THEN <<>> ELSE Step(q, g[q - 1])
      <4> TAKE q \in 0..n + 1
      <4>1. CASE q = n + 1
        BY <4>1
      <4>2. CASE q # n + 1
        <5>1. q \in 0..n /\ (q # 0 => q - 1 \in 0..n)
          BY <4>2
        <5>2. g[q] = f[q] /\ (q # 0 => g[q - 1] = f[q - 1])
          BY <5>1
        <5>3. QED BY <3>1, <5>1, <5>2
      <4>3. QED BY <4>1, <4>2
    <3>3. Is(g, n + 1)
      <4>1. g = [q \in 0..n + 1 |-> g[q]]
        OBVIOUS
      <4> HIDE DEF g
      <4>2. QED BY <4>1, <3>2
    <3>4. \E w : Is(w, n + 1)
      <4> HIDE DEF g, Is
      <4>1. QED BY <3>3
    <3> HIDE DEF Is, g
    <3>5. QED BY <3>4
  <2>3. Nat \subseteq G
    <3> HIDE DEF G
    <3>1. QED BY <2>1, <2>2, SetInduction
  <2>4. QED BY <2>3
<1> DEFINE upto[q \in 0..N] == IF q = 0 THEN <<>> ELSE Step(q, upto[q - 1])
<1>3. L!FindDigests(mechs, allowed) = upto[N]
  BY DEF L!FindDigests
<1>4. Is(upto, N)
  <2> HIDE DEF Step
  <2>1. QED BY <1>1, <1>2
<1> HIDE DEF upto
<1>5. upto[0] = <<>> /\ \A q \in 1..N : upto[q] = Step(q, upto[q - 1])
  <2> HIDE DEF Step
  <2>1. QED BY <1>1, <1>4
<1> HIDE DEF Is
<1> DEFINE Full(q) == /\ upto[q] \in Seq(L!Nids(Digests))
                      /\ L!Members(upto[q]) = Rows(Digests, q, mechs, allowed)
                      /\ IsFiniteSet(L!Members(upto[q])) /\ Cardinality(L!Members(upto[q])) = Len(upto[q])
<1>6. \A n \in Nat : n <= N => Full(n)
  <2> DEFINE G == {n \in Nat : n <= N => Full(n)}
  <2>1. 0 \in G
    <3>1. Rows(Digests, 0, mechs, allowed) = {}
      BY DEF Rows
    <3>2. L!Members(<<>>) = {}
      BY DEF L!Members
    <3>3. Len(<<>>) = 0 /\ <<>> \in Seq(L!Nids(Digests))
      OBVIOUS
    <3>4. QED BY <3>1, <3>2, <3>3, <1>5, FS_EmptySet
  <2>2. \A n \in Nat : n \in G => n + 1 \in G
    <3> HIDE DEF Full
    <3> SUFFICES ASSUME NEW n \in Nat, n \in G, n + 1 <= N PROVE Full(n + 1)
      <4>1. \A n \in Nat : n + 1 \in Nat
        OBVIOUS
      <4>2. QED BY <4>1, Zenon
    <3>a. N \in Nat
      BY <1>1
    <3>b. Full(n)
      <4> HIDE DEF N
      <4>1. n <= N
        BY <3>a, SMT
      <4>2. QED BY <4>1, Zenon
    <3>1. n + 1 \in 1..N /\ (n + 1) - 1 = n
      BY <1>1
    <3> DEFINE e == Digests[n + 1]
               p == upto[n]
               k == IF e.len \in mechs[e.mech] /\ e.nid \in allowed THEN Append(p, e.nid) ELSE p
    <3>2. upto[n + 1] = k
      BY <3>1, <1>5
    <3>3. /\ L!Members(k) = Rows(Digests, n + 1, mechs, allowed) /\ k \in Seq(L!Nids(Digests))
          /\ IsFiniteSet(L!Members(k)) /\ Cardinality(L!Members(k)) = Len(k)
      <4>1. /\ L!Members(p) = Rows(Digests, n, mechs, allowed) /\ p \in Seq(L!Nids(Digests))
            /\ IsFiniteSet(L!Members(p)) /\ Cardinality(L!Members(p)) = Len(p)
        BY <3>b DEF Full
      <4>2. QED BY <4>1, <1>1, SlotFacts, NextRow
    <3>4. QED BY <3>2, <3>3 DEF Full
  <2>3. Nat \subseteq G
    <3> HIDE DEF G
    <3>1. QED BY <2>1, <2>2, SetInduction
  <2>4. QED BY <2>3
<1>7. Full(N)
  <2> HIDE DEF Full
  <2>1. QED BY <1>1, <1>6
<1>8. QED BY <1>3, <1>7, FitIsRows

\* What the hardware's slot takes.
HwTakes == {nid \in L!AllNids : hardware.token /\ L!Takes(hardware.mechs, nid)}

Chosen == L!Members(sCiphers) \cup L!Members(digest_nids)

\* What is registered.
Registered ==
  /\ SLOTID = L!None => sCiphers = <<>> /\ digest_nids = <<>>
  /\ \A nid \in Chosen : L!Takes(offer[SLOTID].mechs, nid) /\ (nid \in HwTakes \/ nid \in CpuNids)
  /\ Cardinality(L!Members(sCiphers)) = Len(sCiphers) /\ Cardinality(L!Members(digest_nids)) = Len(digest_nids)

\* The table of the hardware's nids has what the hardware takes; all of it the
\* first time.
HwTable ==
  /\ hw_nids \subseteq HwTakes
  /\ i # L!None => hwTable = "table" /\ inits # 0
  /\ inits = 0 => hwTable = "null" /\ SLOTID = L!None
  /\ inits = 1 /\ hwTable # "null" => hw_nids = HwTakes

\* The slot chosen so far in the first selection takes as much as any that was
\* looked at, and what it takes is registered.
BestSoFar ==
  inits = 1 /\ i # L!None =>
    /\ Len(sCiphers) + Len(digest_nids) = L!Usable(SLOTID)
    /\ \A s \in L!Slots : s < i /\ offer[s].token => L!Usable(s) <= L!Usable(SLOTID)

SlotInv ==
  /\ L!TypeOK /\ offer \in [L!Slots -> SlotOffers] /\ Fresh(last)
  /\ Registered /\ HwTable /\ BestSoFar /\ L!BestSlot

\* What a slot takes among the allowed.
Wanted(mechs, allowed) == {nid \in L!AllNids : L!Takes(mechs, nid) /\ nid \in allowed}

\* The ciphers and the digests a slot takes among the allowed: how many there are.
LEMMA FoundFacts ==
  ASSUME NEW mechs, NEW allowed, Fresh(last)
  PROVE  LET c == L!FindCiphers(mechs, allowed)
             d == L!FindDigests(mechs, allowed)
         IN /\ c.nids \in Seq(L!Nids(Ciphers)) /\ d \in Seq(L!Nids(Digests)) /\ Fresh(c.last)
            /\ Cardinality(L!Members(c.nids)) = Len(c.nids) /\ Cardinality(L!Members(d)) = Len(d)
            /\ L!Members(c.nids) \cup L!Members(d) = Wanted(mechs, allowed)
            /\ Len(c.nids) + Len(d) = Cardinality(Wanted(mechs, allowed))
<1> DEFINE c == L!FindCiphers(mechs, allowed)
           d == L!FindDigests(mechs, allowed)
           A == L!Members(c.nids)
           B == L!Members(d)
           U == Wanted(mechs, allowed)
<1>1. /\ c.nids \in Seq(L!Nids(Ciphers)) /\ A = Fit(Ciphers, mechs, allowed)
      /\ IsFiniteSet(A) /\ Cardinality(A) = Len(c.nids) /\ Fresh(c.last)
  BY FindCiphersFacts
<1>2. /\ d \in Seq(L!Nids(Digests)) /\ B = Fit(Digests, mechs, allowed)
      /\ IsFiniteSet(B) /\ Cardinality(B) = Len(d)
  BY FindDigestsFacts
<1> HIDE DEF c, d, A, B
<1>3. A \cup B = U
  <2>1. Fit(Ciphers, mechs, allowed) \cup Fit(Digests, mechs, allowed) = U
    BY DEF Wanted, Fit, L!Takes, L!AllNids, L!Nids
  <2>2. QED BY <1>1, <1>2, <2>1
<1>4. A \cap B = {}
  <2>1. A \subseteq L!Nids(Ciphers) /\ B \subseteq L!Nids(Digests)
    BY <1>1, <1>2 DEF Fit, L!Nids
  <2>2. QED BY <2>1, SlotFacts
<1>5. Cardinality(A \cup B) = Cardinality(A) + Cardinality(B)
  <2>1. Cardinality(A \cup B) = Cardinality(A) + Cardinality(B) - Cardinality(A \cap B)
    BY <1>1, <1>2, FS_Union
  <2>2. Cardinality(A \cap B) = 0
    BY <1>4, FS_EmptySet
  <2>3. Cardinality(A) \in Nat /\ Cardinality(B) \in Nat
    BY <1>1, <1>2, FS_CardinalityType
  <2>4. QED BY <2>1, <2>2, <2>3
<1>6. QED BY <1>1, <1>2, <1>3, <1>5 DEF c, d, A, B

\* nid_in_table with what the hardware takes: the measure of the best slot.
LEMMA UsableIs ==
  ASSUME NEW s \in L!Slots
  PROVE  L!Usable(s) = Cardinality(Wanted(offer[s].mechs, HwTakes \cup CpuNids))
<1>1. s # L!None
  BY SlotFacts DEF L!Slots, L!None
<1>2. {nid \in L!AllNids : L!Takes(offer[s].mechs, nid) /\
         (nid \in CpuNids \/ (hardware.token /\ L!Takes(hardware.mechs, nid)))}
      = Wanted(offer[s].mechs, HwTakes \cup CpuNids)
  BY DEF HwTakes, Wanted
<1>3. QED BY <1>1, <1>2, SameCounts DEF L!Usable

\* check_hw_mechanisms.
LEMMA CheckHwFacts ==
  ASSUME SlotInv, NEW hw \in SUBSET L!AllNids, L!CheckHw(hw \cup CpuNids)
  PROVE  /\ hwTable' = "table" /\ hw_nids' \subseteq HwTakes /\ Fresh(last')
         /\ hwTable = "null" => hw_nids' = HwTakes
<1> DEFINE allowed == hw \cup CpuNids
           c == L!FindCiphers(hardware.mechs, allowed)
           d == L!FindDigests(hardware.mechs, allowed)
           U == Wanted(hardware.mechs, allowed)
<1>1. Fresh(c.last) /\ L!Members(c.nids) \cup L!Members(d) = U
  <2>1. Fresh(last)
    BY DEF SlotInv
  <2>2. QED BY <2>1, FoundFacts
<1>2. /\ hwTable' = "table"
      /\ hw_nids' = IF hardware.token THEN L!Members(c.nids) \cup L!Members(d) ELSE {}
      /\ last' = IF hardware.token THEN c.last ELSE last
      /\ hwTable = "null" => allowed = L!AllNids
  BY DEF L!CheckHw, L!Allowed
<1> HIDE DEF c, d, allowed
<1>3. hwTable' = "table" /\ Fresh(last')
  BY <1>1, <1>2 DEF SlotInv
<1>4. hw_nids' = IF hardware.token THEN U ELSE {}
  BY <1>1, <1>2
<1>5. hw_nids' \subseteq HwTakes
  BY <1>4 DEF HwTakes, Wanted
<1>6. hwTable = "null" => hw_nids' = HwTakes
  BY <1>2, <1>4 DEF HwTakes, Wanted
<1>7. QED BY <1>3, <1>5, <1>6

LEMMA NidsFinite == IsFiniteSet(L!Nids(Ciphers)) /\ IsFiniteSet(L!Nids(Digests)) /\ IsFiniteSet(L!AllNids)
<1>1. ASSUME NEW table, DOMAIN table = 1..Len(table), Len(table) \in Nat
      PROVE  IsFiniteSet(L!Nids(table))
  <2>1. L!Nids(table) = {table[n].nid : n \in 1..Len(table)}
    BY <1>1 DEF L!Nids, L!Entries
  <2>2. IsFiniteSet(1..Len(table))
    BY <1>1, FS_Interval
  <2> DEFINE f == [n \in 1..Len(table) |-> table[n].nid]
  <2>3. L!Nids(table) = {f[n] : n \in 1..Len(table)}
    BY <2>1
  <2>4. f \in Surjection(1..Len(table), L!Nids(table))
    <3>1. f \in [1..Len(table) -> L!Nids(table)]
      BY <2>1
    <3>2. QED BY <2>3, <3>1 DEF Surjection
  <2>5. QED BY <2>2, <2>4, FS_Surjection
<1>2. IsFiniteSet(L!Nids(Ciphers)) /\ IsFiniteSet(L!Nids(Digests))
  BY <1>1, SlotFacts
<1>3. QED BY <1>2, FS_Union DEF L!AllNids

LEMMA SlotFrame ==
  ASSUME UNCHANGED <<offer, hardware>>
  PROVE  HwTakes' = HwTakes /\ \A s \in L!Slots \cup {L!None} : L!Usable(s)' = L!Usable(s)
BY DEF HwTakes, L!Usable

\* The invariant does not look at the slots for keys and random numbers.
LEMMA SlotsSame ==
  ASSUME SlotInv, UNCHANGED L!vars
  PROVE  SlotInv'
<1>1. UNCHANGED <<offer, hardware, hwTable, hw_nids, last, pubkey_SLOTID, have, flagsOf, rand_SLOTID,
                  SLOTID, sCiphers, digest_nids, inits, i>>
  BY DEF L!vars, L!keyVars, L!symVars
<1>2. HwTakes' = HwTakes /\ \A s \in L!Slots \cup {L!None} : L!Usable(s)' = L!Usable(s)
  BY <1>1, SlotFrame
<1>3. L!TypeOK' /\ offer' \in [L!Slots -> SlotOffers] /\ Fresh(last)'
  BY <1>1 DEF SlotInv, L!TypeOK, Fresh
<1>4. Registered' /\ HwTable'
  BY <1>1, <1>2 DEF SlotInv, Registered, HwTable, Chosen
<1>5. BestSoFar' /\ L!BestSlot'
  <2>1. SLOTID \in L!Slots \cup {L!None}
    BY DEF SlotInv, L!TypeOK
  <2>2. QED BY <1>1, <1>2, <2>1 DEF SlotInv, BestSoFar, L!BestSlot
<1>6. QED BY <1>3, <1>4, <1>5 DEF SlotInv

LEMMA BeginSelectionKeeps ==
  ASSUME SlotInv, L!BeginSelection
  PROVE  SlotInv'
<1>1. PICK hw \in SUBSET L!AllNids : L!CheckHw(hw \cup CpuNids)
  BY DEF L!BeginSelection
<1>2. /\ hwTable' = "table" /\ hw_nids' \subseteq HwTakes /\ Fresh(last')
      /\ hwTable = "null" => hw_nids' = HwTakes
  BY <1>1, CheckHwFacts
<1>3. /\ i = L!None /\ inits < MaxInits /\ pubkey_SLOTID' = 1 /\ inits' = inits + 1 /\ i' = 1
      /\ UNCHANGED <<offer, hardware, have, flagsOf, rand_SLOTID, SLOTID, sCiphers, digest_nids>>
  BY DEF L!BeginSelection, L!symVars
<1>4. HwTakes' = HwTakes /\ \A s \in L!Slots \cup {L!None} : L!Usable(s)' = L!Usable(s)
  BY <1>3, SlotFrame
<1>5. L!TypeOK'
  <2>1. hw_nids' \subseteq L!AllNids
    BY <1>2 DEF HwTakes
  <2>2. inits' \in 0..MaxInits /\ i' \in 0..NSlots + 1 /\ pubkey_SLOTID' \in L!Slots \cup {L!None}
    BY <1>3, SlotFacts DEF SlotInv, L!TypeOK, L!Slots
  <2>3. QED BY <1>2, <1>3, <2>1, <2>2 DEF SlotInv, L!TypeOK
<1>6. Registered'
  BY <1>3, <1>4 DEF SlotInv, Registered, Chosen
<1>7. inits \in Nat
  BY DEF SlotInv, L!TypeOK
<1>8. HwTable'
  BY <1>2, <1>3, <1>4, <1>7 DEF SlotInv, HwTable
<1>9. BestSoFar'
  <2> SUFFICES ASSUME inits = 0
               PROVE  /\ Len(sCiphers) + Len(digest_nids) = L!Usable(SLOTID)'
                      /\ \A s \in L!Slots : ~(s < 1)
    BY <1>3, <1>7 DEF BestSoFar
  <2>1. SLOTID = L!None /\ sCiphers = <<>> /\ digest_nids = <<>>
    BY DEF SlotInv, HwTable, Registered
  <2>2. L!Usable(SLOTID)' = 0
    BY <1>3, <2>1 DEF L!Usable
  <2>3. \A s \in L!Slots : ~(s < 1)
    BY SlotFacts DEF L!Slots
  <2>4. QED BY <2>1, <2>2, <2>3
<1>10. L!BestSlot'
  BY <1>3 DEF L!BestSlot, L!None
<1>11. QED BY <1>2, <1>3, <1>5, <1>6, <1>8, <1>9, <1>10 DEF SlotInv, Fresh

LEMMA NoSlotsKeeps ==
  ASSUME SlotInv, L!NoSlots
  PROVE  SlotInv'
<1>1. PICK hw \in SUBSET L!AllNids : L!CheckHw(hw \cup CpuNids)
  BY DEF L!NoSlots
<1>2. /\ hwTable' = "table" /\ hw_nids' \subseteq HwTakes /\ Fresh(last')
      /\ hwTable = "null" => hw_nids' = HwTakes
  BY <1>1, CheckHwFacts
<1>3. /\ i = L!None /\ inits < MaxInits /\ inits' = inits + 1
      /\ UNCHANGED <<offer, hardware, pubkey_SLOTID, have, flagsOf, rand_SLOTID, SLOTID, sCiphers, digest_nids, i>>
  BY DEF L!NoSlots, L!symVars, L!keyVars
<1>4. HwTakes' = HwTakes
  BY <1>3, SlotFrame
<1>5. L!TypeOK'
  <2>1. hw_nids' \subseteq L!AllNids
    BY <1>2 DEF HwTakes
  <2>2. inits' \in 0..MaxInits
    BY <1>3, SlotFacts DEF SlotInv, L!TypeOK
  <2>3. QED BY <1>2, <1>3, <2>1, <2>2 DEF SlotInv, L!TypeOK
<1>6. Registered'
  BY <1>3, <1>4 DEF SlotInv, Registered, Chosen
<1>7. inits \in Nat
  BY DEF SlotInv, L!TypeOK
<1>8. HwTable'
  BY <1>2, <1>3, <1>4, <1>7 DEF SlotInv, HwTable
<1>9. BestSoFar' /\ L!BestSlot'
  BY <1>2, <1>3 DEF BestSoFar, L!BestSlot
<1>10. QED BY <1>2, <1>3, <1>5, <1>6, <1>8, <1>9 DEF SlotInv, Fresh

\* pk11_choose_cipher_digest.
LEMMA ChooseFacts ==
  ASSUME SlotInv, i \in L!Slots, L!pk11_choose_cipher_digest, UNCHANGED <<offer, hardware>>
  PROVE  /\ sCiphers' \in Seq(L!Nids(Ciphers)) /\ digest_nids' \in Seq(L!Nids(Digests))
         /\ SLOTID' \in L!Slots \cup {L!None} /\ Fresh(last') /\ Registered'
         /\ inits = 1 =>
              /\ L!Usable(i) <= L!Usable(SLOTID') /\ L!Usable(SLOTID) <= L!Usable(SLOTID')
              /\ Len(sCiphers') + Len(digest_nids') = L!Usable(SLOTID')
<1> DEFINE allowed == hw_nids \cup CpuNids
           c == L!FindCiphers(offer[i].mechs, allowed)
           d == L!FindDigests(offer[i].mechs, allowed)
<1>1. i # L!None /\ hwTable = "table" /\ L!Allowed = allowed
  BY SlotFacts DEF SlotInv, HwTable, L!Allowed, L!Slots, L!None
<1>2. /\ last' = c.last
      /\ IF Len(c.nids) + Len(d) > Len(sCiphers) + Len(digest_nids)
           THEN SLOTID' = i /\ sCiphers' = c.nids /\ digest_nids' = d
           ELSE UNCHANGED <<SLOTID, sCiphers, digest_nids>>
  BY <1>1 DEF L!pk11_choose_cipher_digest, L!MoreUsable, L!symVars
<1>3. Fresh(last)
  BY DEF SlotInv
<1>4. /\ c.nids \in Seq(L!Nids(Ciphers)) /\ d \in Seq(L!Nids(Digests)) /\ Fresh(c.last)
      /\ Cardinality(L!Members(c.nids)) = Len(c.nids) /\ Cardinality(L!Members(d)) = Len(d)
      /\ L!Members(c.nids) \cup L!Members(d) = Wanted(offer[i].mechs, allowed)
      /\ Len(c.nids) + Len(d) = Cardinality(Wanted(offer[i].mechs, allowed))
  BY <1>3, FoundFacts
<1> HIDE DEF c, d
<1>5. /\ sCiphers \in Seq(L!Nids(Ciphers)) /\ digest_nids \in Seq(L!Nids(Digests))
      /\ SLOTID \in L!Slots \cup {L!None} /\ Registered
  BY DEF SlotInv, L!TypeOK
<1>6. HwTakes' = HwTakes
  BY SlotFrame
<1>7. Registered'
  <2>1. CASE Len(c.nids) + Len(d) > Len(sCiphers) + Len(digest_nids)
    <3>1. SLOTID' = i /\ sCiphers' = c.nids /\ digest_nids' = d /\ offer' = offer
      BY <1>2, <2>1
    <3>2. Chosen' = Wanted(offer[i].mechs, allowed)
      BY <1>4, <3>1 DEF Chosen
    <3>3. allowed \subseteq HwTakes \cup CpuNids
      BY DEF SlotInv, HwTable
    <3>4. \A nid \in Chosen' : L!Takes(offer[i].mechs, nid) /\ (nid \in HwTakes \/ nid \in CpuNids)
      BY <3>2, <3>3 DEF Wanted
    <3>5. QED BY <1>1, <1>4, <1>6, <3>1, <3>4 DEF Registered
  <2>2. CASE ~(Len(c.nids) + Len(d) > Len(sCiphers) + Len(digest_nids))
    BY <1>2, <1>5, <1>6, <2>2 DEF Registered, Chosen
  <2>3. QED BY <2>1, <2>2
<1>8. ASSUME inits = 1
      PROVE  /\ L!Usable(i) <= L!Usable(SLOTID') /\ L!Usable(SLOTID) <= L!Usable(SLOTID')
             /\ Len(sCiphers') + Len(digest_nids') = L!Usable(SLOTID')
  <2>1. allowed = HwTakes \cup CpuNids
    BY <1>1, <1>8 DEF SlotInv, HwTable
  <2>2. L!Usable(i) = Len(c.nids) + Len(d)
    BY <1>4, <2>1, UsableIs
  <2>3. L!Usable(SLOTID) = Len(sCiphers) + Len(digest_nids)
    BY <1>1, <1>8 DEF SlotInv, BestSoFar
  <2>4. Len(c.nids) \in Nat /\ Len(d) \in Nat /\ Len(sCiphers) \in Nat /\ Len(digest_nids) \in Nat
    BY <1>4, <1>5
  <2> HIDE DEF allowed
  <2>5. QED BY <1>2, <2>2, <2>3, <2>4
<1>9. QED BY <1>2, <1>4, <1>5, <1>7, <1>8, SlotFacts

LEMMA LookAtSlotKeeps ==
  ASSUME SlotInv, L!LookAtSlot
  PROVE  SlotInv'
<1>1. /\ i \in L!Slots /\ i' = i + 1
      /\ UNCHANGED <<offer, hardware, hwTable, hw_nids, pubkey_SLOTID, inits>>
  BY DEF L!LookAtSlot
<1>2. i \in Nat \ {0} /\ i <= NSlots /\ i' # L!None /\ i' \in 0..NSlots + 1 /\ i # L!None
  BY <1>1, SlotFacts DEF L!Slots, L!None
<1>3. HwTakes' = HwTakes /\ \A s \in L!Slots \cup {L!None} : L!Usable(s)' = L!Usable(s)
  BY <1>1, SlotFrame
<1>4. /\ sCiphers' \in Seq(L!Nids(Ciphers)) /\ digest_nids' \in Seq(L!Nids(Digests))
      /\ SLOTID' \in L!Slots \cup {L!None} /\ Fresh(last') /\ Registered'
      /\ inits = 1 =>
           /\ offer[i].token => L!Usable(i) <= L!Usable(SLOTID')
           /\ L!Usable(SLOTID) <= L!Usable(SLOTID')
           /\ Len(sCiphers') + Len(digest_nids') = L!Usable(SLOTID')
  <2>1. CASE offer[i].token
    <3>1. L!pk11_choose_cipher_digest
      BY <2>1 DEF L!LookAtSlot
    <3>2. QED BY <1>1, <3>1, ChooseFacts
  <2>2. CASE ~offer[i].token
    <3>1. UNCHANGED <<SLOTID, sCiphers, digest_nids, last>>
      BY <2>2 DEF L!LookAtSlot, L!symVars
    <3>2. Registered'
      BY <1>1, <1>3, <3>1 DEF SlotInv, Registered, Chosen
    <3>3. inits = 1 => L!Usable(SLOTID) = Len(sCiphers) + Len(digest_nids)
      BY <1>2 DEF SlotInv, BestSoFar
    <3>4. /\ sCiphers \in Seq(L!Nids(Ciphers)) /\ digest_nids \in Seq(L!Nids(Digests))
          /\ SLOTID \in L!Slots \cup {L!None} /\ Fresh(last)
      BY DEF SlotInv, L!TypeOK
    <3>5. Len(sCiphers) \in Nat /\ Len(digest_nids) \in Nat
      BY <3>4
    <3>6. QED BY <2>2, <3>1, <3>2, <3>3, <3>4, <3>5
  <2>3. QED BY <2>1, <2>2
<1>5. L!TypeOK'
  <2>1. /\ rand_SLOTID' \in L!Slots \cup {L!None} /\ flagsOf' \in L!Slots \cup {L!None}
        /\ have' \subseteq {"rsa", "dsa", "dh"}
    <3>1. offer[i].keys \subseteq {"rsa", "dsa", "dh"}
      <4>1. offer[i] \in SlotOffers
        BY <1>1 DEF SlotInv
      <4>2. QED BY <4>1, OpsAssumption DEF L!SlotsAssumption
    <3>2. /\ rand_SLOTID \in L!Slots \cup {L!None} /\ flagsOf \in L!Slots \cup {L!None}
          /\ have \subseteq {"rsa", "dsa", "dh"}
      BY DEF SlotInv, L!TypeOK
    <3>3. QED BY <1>1, <3>1, <3>2 DEF L!LookAtSlot, L!pk11_choose_rand_slot, L!pk11_choose_pubkey_slot
  <2>2. QED BY <1>1, <1>2, <1>4, <2>1 DEF SlotInv, L!TypeOK
<1>6. HwTable'
  <2>1. inits # 0
    BY <1>2 DEF SlotInv, HwTable
  <2>2. QED BY <1>1, <1>2, <1>3, <2>1 DEF SlotInv, HwTable
<1>7. BestSoFar'
  <2> SUFFICES ASSUME inits = 1
               PROVE  /\ Len(sCiphers') + Len(digest_nids') = L!Usable(SLOTID)'
                      /\ \A s \in L!Slots : s < i' /\ offer[s].token => L!Usable(s)' <= L!Usable(SLOTID)'
    BY <1>1 DEF BestSoFar
  <2>1. L!Usable(SLOTID)' = L!Usable(SLOTID')
    BY <1>1 DEF L!Usable
  <2>2. \A s \in L!Slots : s < i /\ offer[s].token => L!Usable(s) <= L!Usable(SLOTID)
    BY <1>2 DEF SlotInv, BestSoFar
  <2>3. \A s \in L!Slots : L!Usable(s) \in Int
    <3> TAKE s \in L!Slots
    <3> DEFINE W == Wanted(offer[s].mechs, HwTakes \cup CpuNids)
    <3>1. W \subseteq L!AllNids
      BY DEF Wanted
    <3> HIDE DEF W
    <3>2. IsFiniteSet(W)
      BY <3>1, NidsFinite, FS_Subset
    <3>3. Cardinality(W) \in Nat
      BY <3>2, FS_CardinalityType
    <3>4. L!Usable(s) = Cardinality(W)
      BY UsableIs DEF W
    <3>5. QED BY <3>3, <3>4
  <2>4. L!Usable(SLOTID) \in Int /\ L!Usable(SLOTID') \in Int
    <3>1. L!Usable(L!None) = 0
      BY DEF L!Usable
    <3>2. QED BY <1>4, <2>3, <3>1 DEF SlotInv, L!TypeOK
  <2>5. ASSUME NEW s \in L!Slots, s < i', offer[s].token
        PROVE  L!Usable(s) <= L!Usable(SLOTID')
    <3>1. s \in Nat /\ s <= i
      BY <1>1, <1>2, <2>5, SlotFacts DEF L!Slots
    <3>2. CASE s = i
      BY <1>4, <2>5, <3>2
    <3>3. CASE s < i
      <4>1. L!Usable(s) <= L!Usable(SLOTID) /\ L!Usable(SLOTID) <= L!Usable(SLOTID')
        BY <1>4, <2>2, <2>5, <3>3
      <4>2. QED BY <2>3, <2>4, <4>1
    <3>4. QED BY <1>2, <3>1, <3>2, <3>3
  <2>6. QED BY <1>3, <1>4, <2>1, <2>5
<1>8. L!BestSlot'
  BY <1>2 DEF L!BestSlot
<1>9. QED BY <1>1, <1>4, <1>5, <1>6, <1>7, <1>8 DEF SlotInv, Fresh

LEMMA EndSelectionKeeps ==
  ASSUME SlotInv, L!EndSelection
  PROVE  SlotInv'
<1>1. /\ i = NSlots + 1 /\ hwTable' = "freed" /\ digest_nids' \in {digest_nids, <<>>} /\ i' = L!None
      /\ UNCHANGED <<offer, hardware, hw_nids, last, pubkey_SLOTID, have, flagsOf, rand_SLOTID, SLOTID, sCiphers, inits>>
  BY DEF L!EndSelection, L!keyVars
<1>2. HwTakes' = HwTakes /\ \A s \in L!Slots \cup {L!None} : L!Usable(s)' = L!Usable(s)
  BY <1>1, SlotFrame
<1>3. i # L!None
  BY <1>1, SlotFacts DEF L!None
<1>4. L!TypeOK'
  <2>1. <<>> \in Seq(L!Nids(Digests)) /\ i' \in 0..NSlots + 1
    BY <1>1, SlotFacts DEF L!None
  <2>2. QED BY <1>1, <2>1 DEF SlotInv, L!TypeOK
<1>5. Registered'
  <2>1. L!Members(<<>>) = {} /\ Cardinality({}) = 0 /\ Len(<<>>) = 0
    BY FS_EmptySet DEF L!Members
  <2>2. Chosen' \subseteq Chosen /\ Cardinality(L!Members(digest_nids')) = Len(digest_nids')
    BY <1>1, <2>1 DEF SlotInv, Registered, Chosen
  <2>3. QED BY <1>1, <1>2, <2>2 DEF SlotInv, Registered
<1>6. HwTable'
  BY <1>1, <1>2, <1>3 DEF SlotInv, HwTable
<1>7. BestSoFar'
  BY <1>1 DEF BestSoFar
<1>8. L!BestSlot'
  <2>1. inits = 1 => \A s \in L!Slots : s < i /\ offer[s].token => L!Usable(s) <= L!Usable(SLOTID)
    BY <1>3 DEF SlotInv, BestSoFar
  <2>2. \A s \in L!Slots : s < i
    BY <1>1, SlotFacts DEF L!Slots
  <2>3. SLOTID \in L!Slots \cup {L!None}
    BY DEF SlotInv, L!TypeOK
  <2>4. QED BY <1>1, <1>2, <2>1, <2>2, <2>3 DEF L!BestSlot
<1>9. QED BY <1>1, <1>4, <1>5, <1>6, <1>7, <1>8 DEF SlotInv, Fresh

LEMMA SlotInit == L!Init => SlotInv
<1> SUFFICES ASSUME L!Init PROVE SlotInv
  OBVIOUS
<1>1. /\ offer \in [L!Slots -> SlotOffers] /\ hwTable = "null" /\ hw_nids = {} /\ last.mech = "none"
      /\ pubkey_SLOTID = L!None /\ have = {} /\ flagsOf = L!None /\ rand_SLOTID = L!None /\ SLOTID = L!None
      /\ sCiphers = <<>> /\ digest_nids = <<>> /\ inits = 0 /\ i = L!None
  BY DEF L!Init
<1>2. L!TypeOK
  BY <1>1, SlotFacts DEF L!TypeOK, L!None
<1>3. Fresh(last)
  BY <1>1, SlotFacts DEF Fresh
<1>4. Registered
  <2>1. L!Members(<<>>) = {} /\ Cardinality({}) = 0 /\ Len(<<>>) = 0
    BY FS_EmptySet DEF L!Members
  <2>2. QED BY <1>1, <2>1 DEF Registered, Chosen
<1>5. HwTable /\ BestSoFar /\ L!BestSlot
  BY <1>1 DEF HwTable, BestSoFar, L!BestSlot
<1>6. QED BY <1>1, <1>2, <1>3, <1>4, <1>5 DEF SlotInv

LEMMA SlotInductive == SlotInv /\ [L!Next]_L!vars => SlotInv'
BY SlotsSame, BeginSelectionKeeps, NoSlotsKeeps, LookAtSlotKeeps, EndSelectionKeeps DEF L!Next

\* Ciphers and digests have different numbers, so nothing is registered twice.
LEMMA SlotRight == SlotInv => L!RegisteredRight
<1> SUFFICES ASSUME SlotInv PROVE L!RegisteredRight
  OBVIOUS
<1> DEFINE A == L!Members(sCiphers)
           B == L!Members(digest_nids)
<1>1. A \subseteq L!Nids(Ciphers) /\ B \subseteq L!Nids(Digests)
  BY DEF SlotInv, L!TypeOK, L!Members
<1>2. IsFiniteSet(A) /\ IsFiniteSet(B)
  BY <1>1, NidsFinite, FS_Subset DEF L!AllNids
<1>3. Cardinality(A \cup B) = Len(sCiphers) + Len(digest_nids)
  <2>1. Cardinality(A \cup B) = Cardinality(A) + Cardinality(B) - Cardinality(A \cap B)
    BY <1>2, FS_Union
  <2>2. Cardinality(A \cap B) = 0
    <3>1. A \cap B = {}
      BY <1>1, SlotFacts
    <3>2. QED BY <3>1, FS_EmptySet
  <2>3. Cardinality(A) = Len(sCiphers) /\ Cardinality(B) = Len(digest_nids)
    BY DEF SlotInv, Registered
  <2>4. Len(sCiphers) \in Nat /\ Len(digest_nids) \in Nat
    BY DEF SlotInv, L!TypeOK
  <2> HIDE DEF A, B
  <2>5. QED BY <2>1, <2>2, <2>3, <2>4
<1>4. L!Cardinality(A \cup B) = Cardinality(A \cup B)
  BY SameCounts
<1>5. \A nid \in A \cup B :
        L!Takes(offer[SLOTID].mechs, nid) /\ (L!Takes(hardware.mechs, nid) \/ nid \in CpuNids)
  BY DEF SlotInv, Registered, Chosen, HwTakes
<1>6. QED BY <1>3, <1>4, <1>5 DEF L!RegisteredRight

LEMMA SlotsSafe == L!Spec => []SlotInv
<1>1. QED BY SlotInit, SlotInductive, PTL DEF L!Spec

-----------------------------------------------------------------------------
(* The operations together. *)

\* A behaviour of MCEngineOps is one of each of its parts.
LEMMA OpsAreAll == OpsSpec => Spec /\ D!Spec /\ K!Spec /\ L!Spec /\ V!Spec
<1>1. OpsInit => Init /\ D!Init /\ K!Init /\ L!Init /\ V!Init
  BY DEF OpsInit
<1> DEFINE opsVars == <<part, vars, digestVars, keyVars, slotVars, devVars>>
<1>2. [OpsNext]_opsVars => [Next]_vars
  BY DEF OpsNext
<1>3. [OpsNext]_opsVars => [D!Next]_D!vars
  BY DEF OpsNext, digestVars, D!vars, D!poolVars
<1>4. [OpsNext]_opsVars => [K!Next]_K!vars
  BY DEF OpsNext, keyVars, K!vars, K!tokenVars, K!sessVars, K!callVars
<1>5. [OpsNext]_opsVars => [L!Next]_L!vars
  BY DEF OpsNext, slotVars, L!vars, L!keyVars, L!symVars
<1>6. [OpsNext]_opsVars => [V!Next]_V!vars
  BY DEF OpsNext, devVars, V!vars, V!device, V!list
<1>7. QED BY <1>1, <1>2, <1>3, <1>4, <1>5, <1>6, PTL DEF OpsSpec, Spec, D!Spec, K!Spec, L!Spec, V!Spec

\* The variables of every part keep to their types: the counts of the keys and
\* of the device are bounded by the sessions and the loads, the registered
\* ciphers are those of the tables, for any number of sessions.
THEOREM OpsTypeCorrect ==
  ASSUME IsFiniteSet(Sessions)
  PROVE  OpsSpec => []OpsTypeOK
<1>1. TypeOK /\ D!TypeOK /\ K!TypeOK /\ L!TypeOK /\ V!TypeOK => OpsTypeOK
  BY DEF OpsTypeOK
<1>3. D!Spec => []D!TypeOK
  BY DigestNil, OpsAssumption, D!DigestTypeCorrect
<1>4. K!Spec => []K!TypeOK
  BY SameCounts, OpsAssumption, K!KeysTypeCorrect
<1>5. L!Spec => []L!TypeOK
  <2>1. SlotInv => L!TypeOK
    BY DEF SlotInv
  <2>2. QED BY <2>1, SlotsSafe, PTL
<1>6. V!Spec => []V!TypeOK
  BY DevTypeCorrect, DevListsSafe, PTL
<1>7. QED BY <1>1, <1>3, <1>4, <1>5, <1>6, CipherTypeCorrect, OpsAreAll, PTL

\* The session of a digest context holds exactly what this context was fed
\* (pk11_digest_update, pk11_digest_copy).
THEOREM DigestsStayIntact == OpsSpec => []DigestIntact
<1>1. D!DigestIntact => DigestIntact
  BY DEF DigestIntact
<1>3. D!Spec => []D!DigestIntact
  BY DigestNil, OpsAssumption, D!DigestsAreIntact
<1>4. QED BY <1>1, <1>3, OpsAreAll, PTL

\* Every session of a cipher or a digest is in the free list, idle and once,
\* or with one context (pk11_cipher_init, pk11_digest_final).
THEOREM AllSessionsAreKept ==
  ASSUME OneType, ~InitAgain
  PROVE  OpsSpec => []AllSessionsKept
<1>1. SessionsKept /\ D!SessionsKept => AllSessionsKept
  BY DEF AllSessionsKept
<1>3. D!Spec => []D!SessionsKept
  BY DigestNil, OpsAssumption, D!DigestSessionsKept
<1>4. Spec => []SessionsKept
  BY CipherSessionsKept
<1>5. QED BY <1>1, <1>3, <1>4, OpsAreAll, PTL

\* No object is left in the token that no session caches and no call will
\* destroy (pk11_destroy_cipher_key_objects, pk11_destroy_dsa_object_pub).
THEOREM NoObjectIsLeft ==
  ASSUME OneType
  PROVE  OpsSpec => []NoObjectLeft
<1>1. NoOrphan /\ K!NoOrphan => NoObjectLeft
  BY DEF NoObjectLeft
<1>2. K!Spec => []K!NoOrphan
  BY OpsAssumption, K!NoObjectOrphaned
<1>3. Spec => []NoOrphan
  BY CipherKeysAreCached
<1>4. QED BY <1>1, <1>2, <1>3, OpsAreAll, PTL

\* The active lists of DSA and DH count the sessions that cache a handle, and
\* the token has one object for a key, whatever calls fail (pk11_active_add,
\* pk11_get_public_dsa_key).
THEOREM KeysAreCounted == OpsSpec => []KeysCounted
<1>1. K!RefsExact /\ K!OneObject => KeysCounted
  BY DEF KeysCounted
<1>2. K!Spec => []K!RefsExact
  BY OpsAssumption, K!RefsAreExact
<1>3. K!Spec => []K!OneObject
  BY OpsAssumption, K!OneObjectForAKey
<1>4. QED BY <1>1, <1>2, <1>3, OpsAreAll, PTL

\* DSA and DH calls use the key in the structure they are given
\* (check_new_dsa_key_pub), although its address may have been another's.
THEOREM RightKeyIsUsed == OpsSpec => []UsesRightKey
<1>1. K!UsesRightKey => UsesRightKey
  BY DEF UsesRightKey
<1>2. K!Spec => []K!UsesRightKey
  BY OpsAssumption, K!CallsUseRightKey
<1>3. QED BY <1>1, <1>2, OpsAreAll, PTL

\* What the engine registers, in this selection or an older one, the chosen
\* slot and the hardware can do, nothing twice, and after the first selection
\* no slot that was looked at can do more, for any slots, ciphers and digests
\* (pk11_choose_slots, pk11_choose_cipher_digest, check_hw_mechanisms).
THEOREM SlotsAreRight == OpsSpec => []SlotsRight
<1>1. SlotInv => L!RegisteredRight /\ L!BestSlot
  BY SlotRight DEF SlotInv
<1>2. SlotInv => SlotsRight
  BY <1>1 DEF SlotsRight
<1>3. QED BY <1>2, OpsAreAll, SlotsSafe, PTL

\* The device is open exactly while a load is not finished, whatever loads
\* fail, and the first load lists every cipher the hardware has, once
\* (devcrypto_bind, devcrypto_finish).
THEOREM DeviceIsRight == OpsSpec => []DeviceRight
<1>1. Referenced /\ FirstList => DeviceRight
  BY DEF Referenced, FirstList, DeviceRight
<1>2. QED BY <1>1, DevListsSafe, OpsAreAll, PTL

\* A context's data goes through a session of its own with the key last set,
\* whatever its memory held, until it is robbed of the session by the clean-up
\* of a context whose initialization failed; and sessions are left open only by
\* setting another key (devcrypto_cipher_init, devcrypto_cipher_cleanup).
THEOREM DeviceSessionsRight == OpsSpec => []DeviceSessions
<1>1. DevInv => DeviceSessions
  <2> SUFFICES ASSUME DevInv PROVE V!OwnSession /\ V!SessionsLeft
    BY DEF DeviceSessions
  <2>1. V!OwnSession
    <3> SUFFICES ASSUME NEW c \in Ctxs \ stray, ctx[c] # Nil, ctx[c].key # Nil
                 PROVE  /\ V!Through(c) = [nid |-> ctx[c].nid, key |-> ctx[c].key]
                        /\ \A d \in Ctxs \ (stray \cup {c}) : ctx[d] # Nil => ctx[d].id # ctx[c].id
      BY DEF V!OwnSession
    <3>1. ctx[c].id \in V!Ids /\ session[ctx[c].id] = [nid |-> ctx[c].nid, key |-> ctx[c].key]
      BY DEF DevInv, OwnIds
    <3>2. kernel_fd
      BY CountsAre DEF DevInv, Referenced, DevTyped, Counted
    <3>3. QED BY <3>1, <3>2 DEF V!Through, DevInv, OwnIds
  <2>2. V!SessionsLeft
    BY SameCounts DEF V!SessionsLeft, LeftOpen, DevInv
  <2>3. QED BY <2>1, <2>2
<1>2. V!Spec => []DevInv
  BY DevInvInit, DevInvInductive, PTL DEF V!Spec
<1>3. QED BY <1>1, <1>2, OpsAreAll, PTL
=============================================================================
