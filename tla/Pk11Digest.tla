----------------------------- MODULE Pk11Digest -----------------------------
(***************************************************************************)
(* Message digests of the PKCS#11 engine: pk11_digest_init, _update,       *)
(* _final, _copy and _cleanup (engines/pkcs11/e_pk11.c of openssl-1.0.1).  *)
(* The digest itself is in the token, as the operation of a session; a     *)
(* context only holds the session.  A context belongs to one thread,       *)
(* threads meet in the free list of sessions.                              *)
(***************************************************************************)
EXTENDS SessionPool, Sequences

CONSTANTS
  Ctxs,       \* digest contexts of the application
  Chunks,     \* the pieces of data the application feeds
  MaxLen,     \* bound on the data in one context
  Faults,     \* which calls may fail, a subset of AllFaults
  InitAgain   \* the application initializes a context in use again

AllFaults == {"get", "init", "update", "size", "copy"}

DigestAssumption ==
  /\ MaxLen \in Nat /\ InitAgain \in BOOLEAN
  /\ Faults \subseteq AllFaults
  /\ Nil \notin Ctxs \cup Sessions \cup Chunks \cup Seq(Chunks)

VARIABLES
  open,        \* sessions that have been allocated and opened
  active,      \* the data in the token's digest operation of a session, or Nil
  state,       \* state->sp of each context
  data,        \* what the application fed, Nil if a call failed or it is done
  pc, local,   \* the call in progress and sp in pk11_digest_init
  from         \* the argument of pk11_digest_copy

vars == <<poolVars, open, active, state, data, pc, local, from>>

TypeOK ==
  /\ PoolTypeOK
  /\ open \subseteq Sessions
  /\ active \in [Sessions -> Seq(Chunks) \cup {Nil}]
  /\ state \in [Ctxs -> Sessions \cup {Nil}]
  /\ data \in [Ctxs -> Seq(Chunks) \cup {Nil}]
  /\ pc \in [Ctxs -> {"idle", "init", "copy"}]
  /\ local \in [Ctxs -> Sessions \cup {Nil}]
  /\ from \in [Ctxs -> Ctxs \cup {Nil}]
  /\ \A c \in Ctxs : pc[c] = "init" <=> local[c] # Nil

Init ==
  /\ PoolInit /\ open = {}
  /\ active = [s \in Sessions |-> Nil]
  /\ state = [c \in Ctxs |-> Nil]
  /\ data = [c \in Ctxs |-> Nil]
  /\ pc = [c \in Ctxs |-> "idle"]
  /\ local = [c \in Ctxs |-> Nil]
  /\ from = [c \in Ctxs |-> Nil]

May(fault) == fault \in Faults

\* The application does not use a context while a call works on it.
Free(c) == pc[c] = "idle" /\ \A d \in Ctxs : from[d] # c

-----------------------------------------------------------------------------
(* pk11_digest_init(), called by the application or by pk11_digest_copy(). *)

GetSession(c) ==
  \/ /\ Take
     /\ local' = [local EXCEPT ![c] = head]
     /\ UNCHANGED open
  \/ /\ head = Nil
     /\ \E s \in Sessions \ open : /\ local' = [local EXCEPT ![c] = s]
                                   /\ open' = open \cup {s}
     /\ UNCHANGED poolVars

InitDigestBug(c, d) ==
  /\ state' = [state EXCEPT ![c] = Nil]
  /\ data' = [data EXCEPT ![c] = Nil]
  /\ GetSession(c) \/ (May("get") /\ UNCHANGED <<poolVars, open, local>>)
  /\ pc' = [pc EXCEPT ![c] = "init"]
  /\ from' = [from EXCEPT ![c] = d]
  /\ UNCHANGED active

\* The first half of pk11_digest_init(), on behalf of a copy of d or not.
InitDigest(c, d) ==
  /\ state' = [state EXCEPT ![c] = Nil]
  /\ data' = [data EXCEPT ![c] = Nil]
  /\ \/ /\ GetSession(c)
        /\ pc' = [pc EXCEPT ![c] = "init"]
        /\ from' = [from EXCEPT ![c] = d]
     \/ May("get") /\ UNCHANGED <<poolVars, open, local, pc, from>>
  /\ UNCHANGED active

DigestInit(c) ==
  /\ Free(c)
  /\ state[c] = Nil \/ InitAgain
  /\ InitDigest(c, Nil)

\* pk11_digest_copy(): the copy-to context has just been cleaned up by
\* EVP_MD_CTX_copy_ex.
DigestCopy(c, d) ==
  /\ c # d /\ Free(c) /\ pc[d] = "idle"
  /\ state[c] = Nil
  /\ IF state[d] = Nil
       THEN data' = [data EXCEPT ![c] = Nil] /\ UNCHANGED <<poolVars, open, active, state, pc, local, from>>
       ELSE InitDigest(c, d)

\* C_DigestInit.
StartWorks(c) ==
  /\ active' = [active EXCEPT ![local[c]] = <<>>]
  /\ state' = [state EXCEPT ![c] = local[c]]
  /\ IF from[c] = Nil THEN /\ data' = [data EXCEPT ![c] = <<>>]
                           /\ pc' = [pc EXCEPT ![c] = "idle"]
                      ELSE /\ pc' = [pc EXCEPT ![c] = "copy"]
                           /\ UNCHANGED data
  /\ UNCHANGED <<poolVars, from>>

StartFails(c) ==
  /\ Return(local[c])
  /\ pc' = [pc EXCEPT ![c] = "idle"]
  /\ from' = [from EXCEPT ![c] = Nil]
  /\ UNCHANGED <<active, state, data>>

Start(c) ==
  /\ pc[c] = "init"
  /\ \/ active[local[c]] = Nil /\ StartWorks(c)
     \/ (active[local[c]] # Nil \/ May("init")) /\ StartFails(c)
  /\ local' = [local EXCEPT ![c] = Nil]
  /\ UNCHANGED open

SetStateBug(c) == data' = [data EXCEPT ![c] = data[from[c]]] /\ UNCHANGED active

\* C_GetOperationState on one session, C_SetOperationState on the other.
SetState(c) ==
  /\ active' = [active EXCEPT ![state[c]] = active[state[from[c]]]]
  /\ data' = [data EXCEPT ![c] = data[from[c]]]

\* The rest of pk11_digest_copy(): one of the calls for the state may fail.
CopyState(c) ==
  /\ pc[c] = "copy"
  /\ \/ active[state[from[c]]] # Nil /\ SetState(c)
     \/ (active[state[from[c]]] = Nil \/ May("copy")) /\ UNCHANGED <<active, data>>
  /\ pc' = [pc EXCEPT ![c] = "idle"]
  /\ from' = [from EXCEPT ![c] = Nil]
  /\ UNCHANGED <<poolVars, open, state, local>>

-----------------------------------------------------------------------------

\* The operation ended, with a digest or an error: the session goes back.
GiveUp(c) ==
  /\ active' = [active EXCEPT ![state[c]] = Nil]
  /\ Return(state[c])
  /\ state' = [state EXCEPT ![c] = Nil]
  /\ data' = [data EXCEPT ![c] = Nil]

\* pk11_digest_update().
DigestUpdate(c, x) ==
  /\ Free(c) /\ state[c] # Nil
  /\ LET s == state[c] IN
     \/ /\ active[s] # Nil /\ Len(active[s]) < MaxLen
        /\ active' = [active EXCEPT ![s] = Append(@, x)]
        /\ data' = [data EXCEPT ![c] = IF @ = Nil THEN Nil ELSE Append(@, x)]
        /\ UNCHANGED <<poolVars, state>>
     \/ (active[s] = Nil \/ May("update")) /\ GiveUp(c)
  /\ UNCHANGED <<open, pc, local, from>>

\* pk11_digest_final(), which pk11_digest_cleanup() calls for a context that
\* still has a session.  A digest of an unexpected size ends it half way.
DigestFinal(c) ==
  /\ Free(c) /\ state[c] # Nil
  /\ \/ GiveUp(c)
     \/ /\ May("size") /\ active[state[c]] # Nil
        /\ active' = [active EXCEPT ![state[c]] = Nil]
        /\ data' = [data EXCEPT ![c] = Nil]
        /\ UNCHANGED <<poolVars, state>>
  /\ UNCHANGED <<open, pc, local, from>>

Next ==
  \E c \in Ctxs :
    \/ DigestInit(c) \/ Start(c) \/ CopyState(c) \/ DigestFinal(c)
    \/ \E x \in Chunks : DigestUpdate(c, x)
    \/ \E d \in Ctxs : DigestCopy(c, d)

Spec == Init /\ [][Next]_vars

-----------------------------------------------------------------------------
(* Correctness. *)

\* The session of a context whose calls succeeded holds exactly the data that
\* was fed into this context.
DigestIntact ==
  \A c \in Ctxs : data[c] # Nil => state[c] # Nil /\ active[state[c]] = data[c]

\* The free list has the sessions that no context holds, all of them, once
\* and with no operation, and no two contexts hold the same: whatever call
\* fails, the session comes back.
Holders(s) == {c \in Ctxs : s \in {state[c], local[c]}}
Idle == {s \in open : Holders(s) = {}}
SessionsKept ==
  /\ FreeList(Idle)
  /\ \A s \in Idle : active[s] = Nil
  /\ \A s \in Sessions : \A c, d \in Holders(s) : c = d
=============================================================================
