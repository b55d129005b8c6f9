----------------------------- MODULE Pk11Cipher -----------------------------
(***************************************************************************)
(* Symmetric ciphers of the PKCS#11 engine: pk11_cipher_init, _do_cipher   *)
(* and _cleanup with the key object a session caches between operations    *)
(* (engines/pkcs11/e_pk11.c of openssl-1.0.1).                             *)
(*                                                                         *)
(* A context belongs to one thread; threads meet in the free list of       *)
(* sessions, which pk11_get_session and pk11_return_session lock.  A key   *)
(* is a sequence of bytes.  A request is what EVP_CipherInit_ex has left   *)
(* in the context: [type |-> key type, bytes |-> key, encrypt |-> BOOLEAN].*)
(***************************************************************************)
EXTENDS SessionPool, Sequences

CONSTANTS
  Ctxs,       \* cipher contexts of the application
  Handles,    \* object handles of the token
  Requests,   \* what the application asks for
  KeyLenMax,  \* PK11_KEY_LEN_MAX
  FaultSets,  \* for each behaviour one of these sets of calls may fail
  InitAgain   \* the application initializes a context in use again

AllFaults == {"get", "create", "destroy", "close", "open", "init", "update", "final"}

Types == {r.type : r \in Requests}
Keys == {r.bytes : r \in Requests}

Operation == [by : Ctxs, type : Types, bytes : Keys, encrypt : BOOLEAN]
Object == [type : Types, bytes : Keys]

ASSUME CipherAssumption ==
  /\ KeyLenMax \in Nat \ {0} /\ InitAgain \in BOOLEAN
  /\ FaultSets \subseteq SUBSET AllFaults
  /\ \A r \in Requests : /\ r = [type |-> r.type, bytes |-> r.bytes, encrypt |-> r.encrypt]
                         /\ r.encrypt \in BOOLEAN /\ Len(r.bytes) > 0
  /\ Nil \notin Ctxs \cup Handles \cup Requests \cup Operation \cup Object

VARIABLES
  faults,    \* the calls that may fail
  alive,     \* sessions that have been allocated
  open,      \* sessions whose PKCS#11 session is open
  active,    \* the operation the token runs in a session, or Nil
  obj,       \* the secret key objects of the token, in the global session
  key,       \* sp->opdata_cipher_key
  saved,     \* sp->opdata_key and opdata_key_len
  encrypt,   \* sp->opdata_encrypt: the last direction, Nil for -1
  state,     \* state->sp of each context
  request,   \* the request in the context, Nil when the last call failed
  pc, local  \* the call of pk11_cipher_init in progress and its sp

tokenVars == <<faults, open, active, obj>>
sessionVars == <<key, saved, encrypt>>
vars == <<poolVars, alive, tokenVars, sessionVars, state, request, pc, local>>

Saved(bytes) == SubSeq(bytes, 1, IF Len(bytes) > KeyLenMax THEN KeyLenMax ELSE Len(bytes))

TypeOK ==
  /\ faults \in FaultSets
  /\ PoolTypeOK
  /\ open \subseteq alive /\ alive \subseteq Sessions
  /\ active \in [Sessions -> Operation \cup {Nil}]
  /\ obj \in [Handles -> Object \cup {Nil}]
  /\ key \in [Sessions -> Handles \cup {Nil}]
  /\ saved \in [Sessions -> {Saved(b) : b \in Keys} \cup {<<>>}]
  /\ encrypt \in [Sessions -> BOOLEAN \cup {Nil}]
  /\ state \in [Ctxs -> Sessions \cup {Nil}]
  /\ request \in [Ctxs -> Requests \cup {Nil}]
  /\ pc \in [Ctxs -> {"idle", "check", "key", "final", "again", "start"}]
  /\ local \in [Ctxs -> Sessions \cup {Nil}]
  /\ \A c \in Ctxs : pc[c] = "idle" <=> local[c] = Nil

Init ==
  /\ faults \in FaultSets
  /\ PoolInit /\ alive = {} /\ open = {}
  /\ active = [s \in Sessions |-> Nil]
  /\ obj = [h \in Handles |-> Nil]
  /\ key = [s \in Sessions |-> Nil]
  /\ saved = [s \in Sessions |-> <<>>]
  /\ encrypt = [s \in Sessions |-> Nil]
  /\ state = [c \in Ctxs |-> Nil]
  /\ request = [c \in Ctxs |-> Nil]
  /\ pc = [c \in Ctxs |-> "idle"]
  /\ local = [c \in Ctxs |-> Nil]

May(fault) == fault \in faults

-----------------------------------------------------------------------------
(* pk11_cipher_init(). *)

\* Leave pk11_cipher_init with a failure, the session returned or not.
Fail(c) ==
  /\ request' = [request EXCEPT ![c] = Nil]
  /\ pc' = [pc EXCEPT ![c] = "idle"]
  /\ local' = [local EXCEPT ![c] = Nil]

Goto(c, label) ==
  /\ pc' = [pc EXCEPT ![c] = label]
  /\ UNCHANGED <<request, local>>

\* The cipher, IV or key length is refused, or there is no session.
InitRefused(c) ==
  /\ pc[c] = "idle" /\ May("get")
  /\ state[c] = Nil \/ InitAgain
  /\ state' = [state EXCEPT ![c] = Nil]
  /\ Fail(c)
  /\ UNCHANGED <<poolVars, alive, tokenVars, sessionVars>>

\* Take the first session of the free list, or open a new one.
InitGet(c, r) ==
  /\ pc[c] = "idle"
  /\ state[c] = Nil \/ InitAgain
  /\ state' = [state EXCEPT ![c] = Nil]
  /\ request' = [request EXCEPT ![c] = r]
  /\ pc' = [pc EXCEPT ![c] = "check"]
  /\ \/ /\ Take
        /\ local' = [local EXCEPT ![c] = head]
        /\ UNCHANGED <<alive, open>>
     \/ /\ head = Nil
        /\ \E s \in Sessions \ alive : /\ local' = [local EXCEPT ![c] = s]
                                       /\ alive' = alive \cup {s}
                                       /\ open' = open \cup {s}
        /\ UNCHANGED poolVars
  /\ UNCHANGED <<faults, active, obj, sessionVars>>

SameKeyBug(s, bytes) ==
  \A i \in DOMAIN saved[s] \cap DOMAIN bytes : saved[s][i] = bytes[i]

\* The comparison in check_new_cipher_key(): first the length, then the bytes.
SameKey(s, bytes) == saved[s] = bytes

\* pk11_destroy_cipher_key_objects() on one session.
DropKey(s) ==
  /\ obj' = [obj EXCEPT ![key[s]] = Nil]
  /\ key' = [key EXCEPT ![s] = Nil]

\* check_new_cipher_key() destroys the cached key if it is not the current
\* one; its result is ignored.  Then the three cases of pk11_cipher_init.
CheckKey(c) ==
  /\ pc[c] = "check"
  /\ LET s == local[c]  r == request[c] IN
     /\ \/ /\ SameKey(s, r.bytes) \/ key[s] = Nil \/ May("destroy")
           /\ UNCHANGED <<obj, key>>
        \/ ~SameKey(s, r.bytes) /\ key[s] # Nil /\ DropKey(s)
     /\ IF key'[s] # Nil /\ encrypt[s] = r.encrypt
          THEN /\ state' = [state EXCEPT ![c] = s]
               /\ Goto(c, "again")
          ELSE /\ Goto(c, IF key'[s] = Nil THEN "key" ELSE "final")
               /\ UNCHANGED state
  /\ UNCHANGED <<faults, poolVars, alive, open, active, saved, encrypt>>

\* pk11_get_cipher_key() creates the object in the global session.
GetCipherKey(c) ==
  /\ pc[c] = "key"
  /\ LET s == local[c]  r == request[c] IN
     \/ /\ \E h \in Handles : /\ obj[h] = Nil
                              /\ obj' = [obj EXCEPT ![h] = [type |-> r.type, bytes |-> r.bytes]]
                              /\ key' = [key EXCEPT ![s] = h]
        /\ saved' = [saved EXCEPT ![s] = Saved(r.bytes)]
     \/ /\ May("create")
        /\ UNCHANGED <<obj, key, saved>>
  /\ Goto(c, "final")
  /\ UNCHANGED <<faults, poolVars, alive, open, active, encrypt, state>>

Reopen(s) == open' = open /\ active' = [active EXCEPT ![s] = Nil]

\* Without a key the call ends.
NoKey(c) == Fail(c) /\ Return(local[c])

\* The other direction was used before: pk11_cipher_final() closes the
\* session and opens another.
CipherFinal(c) ==
  /\ pc[c] = "final"
  /\ LET s == local[c]  r == request[c]
         other == encrypt[s] \notin {r.encrypt, Nil}
     IN \/ /\ other /\ (May("close") \/ s \notin open)
           /\ Fail(c) /\ Return(s)
           /\ UNCHANGED <<open, active>>
        \/ /\ other /\ s \in open /\ May("open")
           /\ open' = open \ {s} /\ active' = [active EXCEPT ![s] = Nil]
           /\ Fail(c) /\ Return(s)
        \/ /\ IF other THEN s \in open /\ Reopen(s) ELSE UNCHANGED <<open, active>>
           /\ IF key[s] = Nil THEN NoKey(c)
                              ELSE Goto(c, "start") /\ UNCHANGED poolVars
  /\ UNCHANGED <<faults, alive, obj, sessionVars, state>>

\* C_EncryptInit or C_DecryptInit accepts the session and the key.
Accepted(s, r) ==
  /\ s \in open /\ active[s] = Nil
  /\ key[s] # Nil /\ obj[key[s]] # Nil /\ obj[key[s]].type = r.type

\* pk11_init_symmetric() returns the session when the token refuses.
StartFails(c) == Fail(c) /\ Return(local[c])

\* pk11_init_symmetric() and the end of pk11_cipher_init.
Start(c) ==
  /\ pc[c] \in {"again", "start"}
  /\ LET s == local[c]  r == request[c] IN
     \/ /\ Accepted(s, r)
        /\ active' = [active EXCEPT ![s] = [by |-> c, type |-> r.type, encrypt |-> r.encrypt,
                                            bytes |-> obj[key[s]].bytes]]
        /\ encrypt' = [encrypt EXCEPT ![s] = r.encrypt]
        /\ state' = [state EXCEPT ![c] = s]
        /\ pc' = [pc EXCEPT ![c] = "idle"]
        /\ local' = [local EXCEPT ![c] = Nil]
        /\ UNCHANGED <<poolVars, request>>
     \/ /\ ~Accepted(s, r) \/ May("init")
        /\ StartFails(c)
        /\ UNCHANGED <<active, encrypt, state>>
  /\ UNCHANGED <<faults, alive, open, obj, key, saved>>

-----------------------------------------------------------------------------

\* pk11_cipher_do_cipher() when the update fails: an error ends the token's
\* operation.  An update that works changes nothing here.
DoCipherFails(c) ==
  /\ pc[c] = "idle" /\ state[c] # Nil
  /\ May("update")
  /\ active' = [active EXCEPT ![state[c]] = Nil]
  /\ request' = [request EXCEPT ![c] = Nil]
  /\ UNCHANGED <<faults, poolVars, alive, open, obj, sessionVars, state, pc, local>>

CleanupKeepsBug(c) ==
  /\ pc[c] = "idle" /\ state[c] # Nil
  /\ active' = [active EXCEPT ![state[c]] = Nil]
  /\ Return(state[c])
  /\ request' = [request EXCEPT ![c] = Nil]
  /\ UNCHANGED <<faults, alive, open, obj, sessionVars, state, pc, local>>

\* pk11_cipher_cleanup() ends the operation and returns the session.
Cleanup(c) ==
  /\ pc[c] = "idle" /\ state[c] # Nil
  /\ LET s == state[c]
         works == s \in open /\ active[s] # Nil
     IN /\ \/ works /\ state' = [state EXCEPT ![c] = Nil]
           \/ (~works \/ May("final")) /\ UNCHANGED state
        /\ active' = [active EXCEPT ![s] = Nil]
        /\ Return(s)
  /\ request' = [request EXCEPT ![c] = Nil]
  /\ UNCHANGED <<faults, alive, open, obj, sessionVars, pc, local>>

-----------------------------------------------------------------------------

CipherInit(c) ==
  \/ InitRefused(c) \/ \E r \in Requests : InitGet(c, r)
  \/ CheckKey(c) \/ GetCipherKey(c) \/ CipherFinal(c) \/ Start(c)

Next == \E c \in Ctxs : CipherInit(c) \/ DoCipherFails(c) \/ Cleanup(c)

Spec == Init /\ [][Next]_vars

-----------------------------------------------------------------------------
(* Correctness. *)

\* After one of these calls has failed a session may be in the pool and in a
\* context at once: what is said of the sessions holds until then.
SharesAfter == {"open", "init", "update", "final"}

\* A context whose initialization succeeded has an operation of its own in
\* its session, with the key and the direction it asked for: the data of two
\* contexts never mix, and a cached key is never taken for another one, unless
\* C_DestroyObject failed to destroy that.
StreamIntact ==
  faults \cap (SharesAfter \cup {"destroy"}) = {} =>
    \A c \in Ctxs :
      pc[c] = "idle" /\ request[c] # Nil =>
        /\ state[c] # Nil
        /\ active[state[c]] = [by |-> c, type |-> request[c].type, bytes |-> request[c].bytes,
                               encrypt |-> request[c].encrypt]

\* The free list has the sessions that no context holds, all of them, once,
\* open and with no operation, and no two contexts hold the same.
Holders(s) == {c \in Ctxs : s \in {state[c], local[c]}}
Idle == {s \in alive : Holders(s) = {}}
SessionsKept ==
  faults \cap SharesAfter = {} =>
    /\ FreeList(Idle)
    /\ \A s \in Idle : s \in open /\ active[s] = Nil
    /\ \A s \in Sessions : \A c, d \in Holders(s) : c = d

\* Every key object in the token is cached by a session, which will destroy
\* it when another key comes, whether the calls for it fail or not.
NoOrphan ==
  faults \cap SharesAfter = {} =>
    \A h \in Handles : obj[h] # Nil => \E s \in Sessions : key[s] = h
=============================================================================
