----------------------------- MODULE SessionPool -----------------------------
(***************************************************************************)
(* The free list session_cache[optype] of one operation type of the        *)
(* PKCS#11 engine: a list linked through the structures themselves, from   *)
(* which pk11_get_session takes the first one and to whose front           *)
(* pk11_return_session gives one back, each with the list's mutex held     *)
(* (engines/pkcs11/e_pk11.c of openssl-1.0.1).                             *)
(***************************************************************************)
EXTENDS Integers, FiniteSets

CONSTANTS
  Sessions,  \* PK11_SESSION structures
  Nil

ASSUME PoolAssumption == Nil \notin Sessions

VARIABLES
  head,  \* session_cache[optype].head
  next   \* sp->next

poolVars == <<head, next>>

PoolTypeOK ==
  /\ head \in Sessions \cup {Nil}
  /\ next \in [Sessions -> Sessions \cup {Nil}]

PoolInit ==
  /\ head = Nil
  /\ next = [s \in Sessions |-> Nil]

\* pk11_get_session(): the first structure, disconnected from the list.
Take ==
  /\ head # Nil
  /\ head' = next[head]
  /\ next' = [next EXCEPT ![head] = Nil]

\* pk11_return_session().
Return(s) ==
  /\ head' = s
  /\ next' = [next EXCEPT ![s] = head]

\* The list has the sessions of P and no other, each of them once: l is P in
\* the order of the links.
FreeList(P) ==
  LET n == Cardinality(P) IN
  \E l \in [1..n -> P] :
    /\ \A s \in P : \E i \in 1..n : l[i] = s
    /\ \A i, j \in 1..n : l[i] = l[j] => i = j
    /\ head = IF n = 0 THEN Nil ELSE l[1]
    /\ \A i \in 1..n : next[l[i]] = IF i = n THEN Nil ELSE l[i + 1]
=============================================================================
