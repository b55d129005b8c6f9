------------------------------ MODULE DevCrypto ------------------------------
(***************************************************************************)
(* The /dev/crypto engine (openssl-0.9.8/engines/devcrypto/e_devcrypto.c). *)
(* Its static variables are shared by every ENGINE the library is loaded   *)
(* for: one descriptor of the device with a count of those who opened it,  *)
(* and the list of the hardware's ciphers.  A cipher context has a session *)
(* of the device.  Engines are loaded and finished by one thread at a      *)
(* time; a request is repeated while it is interrupted.                    *)
(***************************************************************************)
EXTENDS Integers, Sequences, FiniteSets

CONSTANTS
  Engines,    \* ENGINE structures
  Contexts,   \* EVP_CIPHER_CTX structures
  MaxId,      \* session ids of the device are 1..MaxId (bound on the open ones)
  NIDs,       \* ciphers
  Providers,  \* a sequence: the ciphers of each hardware provider
  Secrets,    \* keys
  Garbage,    \* what the memory of a new context may hold for a session id
  MaxLoads,   \* loads (bound)
  Reinit,     \* whether engines are initialized again once finished
  Nil

Ids == 1..MaxId
Opened == [nid : NIDs, key : Secrets \cup {Nil}]
Context == [engine : Engines, nid : NIDs, id : Ids \cup Garbage, key : Secrets \cup {Nil}]
Junk == "junk"

\* Nil stands for nothing else, and providers have some of the ciphers.
DevAssumption ==
  /\ MaxId \in Nat /\ MaxLoads \in Nat
  /\ IsFiniteSet(Engines) /\ IsFiniteSet(NIDs) /\ Providers \in Seq(SUBSET NIDs)
  /\ Nil \notin Secrets
  /\ \A r \in Opened \cup Context : r # Nil

VARIABLES
  kernel_fd, kernel_fd_lock, provider_id,  \* open; allocated; allocated
  kernel_fd_ref,
  cipher_count, cipher_nids,  \* the list is Nil when it is not allocated
  engine,    \* [Engines -> "none", "loaded" or "finished"]
  app_ref,   \* the engines the application itself has initialized
  ctx,       \* [Contexts -> Context, or Nil]; key Nil: its init failed
  session,   \* [Ids -> Opened, or Nil: not open]
  loads,
  rekeyed,   \* keys set in a context that had a session
  stray      \* the contexts with an id that is not their session's

device == <<kernel_fd, kernel_fd_lock, provider_id, kernel_fd_ref>>
list == <<cipher_count, cipher_nids>>
vars == <<device, list, engine, app_ref, ctx, session, loads, rekeyed, stray>>

Members(s) == {s[n] : n \in DOMAIN s}

TypeOK ==
  /\ {kernel_fd, kernel_fd_lock, provider_id} \subseteq BOOLEAN
  /\ kernel_fd_ref \in 0..MaxLoads /\ loads \in 0..MaxLoads /\ rekeyed \in 0..MaxId
  /\ cipher_nids = Nil \/ Members(cipher_nids) \subseteq NIDs \cup {Junk}
  /\ engine \in [Engines -> {"none", "loaded", "finished"}] /\ app_ref \subseteq Engines
  /\ ctx \in [Contexts -> Context \cup {Nil}] /\ session \in [Ids -> Opened \cup {Nil}]
  /\ stray \subseteq Contexts

Init ==
  /\ kernel_fd = FALSE /\ kernel_fd_lock = FALSE /\ provider_id = FALSE
  /\ kernel_fd_ref = 0
  /\ cipher_count = 0 /\ cipher_nids = Nil
  /\ engine = [e \in Engines |-> "none"] /\ app_ref = {}
  /\ ctx = [c \in Contexts |-> Nil]
  /\ session = [x \in Ids |-> Nil]
  /\ loads = 0 /\ rekeyed = 0 /\ stray = {}

\* The engine's functional references: the application's and the contexts'.
Used(e) == e \in app_ref \/ \E c \in Contexts : ctx[c] # Nil /\ ctx[c].engine = e

-----------------------------------------------------------------------------
(* Loading: devcrypto_bind. *)

InList(nid, l) == nid \in Members(l)
\* devcrypto_get_hw_ciphers: every provider's ciphers that are not listed.
\* The count goes on from the last time, so the list begins with what was in
\* the new memory.
NewList(junk) ==
  LET Missing(p, l) == {nid \in Providers[p] : ~InList(nid, l)}
      upto[p \in 0..Len(Providers)] ==
        IF p = 0 THEN junk
        ELSE upto[p - 1] \o
               CHOOSE s \in [1..Cardinality(Missing(p, upto[p - 1])) -> Missing(p, upto[p - 1])] :
                 Members(s) = Missing(p, upto[p - 1])
  IN upto[Len(Providers)]

CanLoad(e) == engine[e] # "loaded" /\ ~Used(e) /\ loads < MaxLoads

\* devcrypto_open, devcrypto_get_slot_info and devcrypto_get_hw_ciphers; the
\* list of an earlier load is lost.
devcrypto_bind(e) ==
  /\ CanLoad(e)
  /\ \E junk \in [1..cipher_count -> NIDs \cup {Junk}] :
       /\ cipher_nids' = NewList(junk)
       /\ cipher_count' = Len(NewList(junk))
  /\ kernel_fd' = TRUE /\ kernel_fd_lock' = TRUE /\ provider_id' = TRUE
  /\ kernel_fd_ref' = kernel_fd_ref + 1
  /\ engine' = [engine EXCEPT ![e] = "loaded"]
  /\ loads' = loads + 1
  /\ UNCHANGED <<app_ref, ctx, session, rekeyed, stray>>

\* The device, its providers or their mechanisms cannot be had.  The
\* descriptor counted for the load is given back, and goes if it is the last
\* one; ciphers found before the failure stay counted.
BindFails(e) ==
  /\ CanLoad(e)
  /\ cipher_count' \in cipher_count..cipher_count + Cardinality(NIDs)
  /\ loads' = loads + 1
  /\ UNCHANGED <<device, cipher_nids, engine, app_ref, ctx, session, rekeyed, stray>>

-----------------------------------------------------------------------------
(* Functional references.  The engine has no function for ENGINE_init;      *)
(* devcrypto_finish is called when the last reference goes.                 *)

LastBug == kernel_fd_ref \in {1, 2}
Last == kernel_fd_ref = 1

\* devcrypto_cleanup: the last reference closes the device, and with it its
\* sessions.  The number of ciphers stays.
Cleanup(open) ==
  IF ~kernel_fd THEN session' = open /\ UNCHANGED <<device, cipher_nids>>
  ELSE /\ kernel_fd_ref' = kernel_fd_ref - 1
       /\ kernel_fd' = ~Last /\ kernel_fd_lock' = ~Last
       /\ provider_id' = (provider_id /\ ~Last)
       /\ cipher_nids' = IF Last THEN Nil ELSE cipher_nids
       /\ session' = IF Last THEN [x \in Ids |-> Nil] ELSE open

\* A reference of e goes; open are the sessions that are left.
Release(e, open, isLast) ==
  IF isLast THEN engine' = [engine EXCEPT ![e] = "finished"] /\ Cleanup(open)
            ELSE session' = open /\ UNCHANGED <<engine, device, cipher_nids>>

Available(e) == engine[e] = "loaded" \/ (Reinit /\ engine[e] = "finished")

ENGINE_init(e) ==
  /\ Available(e) /\ e \notin app_ref
  /\ app_ref' = app_ref \cup {e}
  /\ engine' = [engine EXCEPT ![e] = "loaded"]
  /\ UNCHANGED <<device, list, ctx, session, loads, rekeyed, stray>>

devcrypto_finish(e) ==
  /\ e \in app_ref
  /\ app_ref' = app_ref \ {e}
  /\ Release(e, session, \A c \in Contexts : ctx[c] # Nil => ctx[c].engine # e)
  /\ UNCHANGED <<cipher_count, ctx, loads, rekeyed, stray>>

-----------------------------------------------------------------------------
(* Cipher contexts. *)

\* get_slotid_by_mechanism: some provider has the cipher.
HasSlot(nid) == kernel_fd /\ \E p \in DOMAIN Providers : nid \in Providers[p]

\* The device gives the lowest free id.
NewId == CHOOSE x \in Ids : session[x] = Nil /\ \A y \in Ids : session[y] = Nil => x <= y
Room == \E x \in Ids : session[x] = Nil

\* EVP_CipherInit_ex has the engine and the cipher in the context.
MayInit(c, e, nid) ==
  /\ Available(e) /\ kernel_fd
  /\ ctx[c] # Nil => ctx[c].engine = e /\ ctx[c].nid = nid

\* devcrypto_cipher_init: a new session with the key; its id goes to the
\* context, over the id of a session it had.
StoredIdBug(c) == IF ctx[c] = Nil THEN NewId ELSE ctx[c].id
StoredId(c) == NewId
devcrypto_cipher_init(c, e, nid, k) ==
  /\ MayInit(c, e, nid) /\ HasSlot(nid) /\ Room
  /\ ctx[c] # Nil => rekeyed < MaxId
  /\ session' = [session EXCEPT ![NewId] = [nid |-> nid, key |-> k]]
  /\ ctx' = [ctx EXCEPT ![c] = [engine |-> e, nid |-> nid, id |-> StoredId(c), key |-> k]]
  /\ rekeyed' = IF ctx[c] = Nil THEN rekeyed ELSE rekeyed + 1
  /\ stray' = stray \ {c}
  /\ UNCHANGED <<device, list, engine, app_ref, loads>>

\* No mechanism number, or the key is refused: the session is open without a
\* key, and the context knows it.
InitRefused(c, e, nid) ==
  /\ MayInit(c, e, nid) /\ HasSlot(nid) /\ Room
  /\ ctx[c] # Nil => rekeyed < MaxId
  /\ session' = [session EXCEPT ![NewId] = [nid |-> nid, key |-> Nil]]
  /\ ctx' = [ctx EXCEPT ![c] = [engine |-> e, nid |-> nid, id |-> NewId, key |-> Nil]]
  /\ rekeyed' = IF ctx[c] = Nil THEN rekeyed ELSE rekeyed + 1
  /\ stray' = stray \ {c}
  /\ UNCHANGED <<device, list, engine, app_ref, loads>>

\* No key, no slot with the mechanism, or no session: a new context has the
\* id that its memory had, which may be that of an open session.  Another
\* context stays as it is.
InitEarlyFails(c, e, nid) ==
  /\ MayInit(c, e, nid)
  /\ ctx[c] = Nil
  /\ \E x \in Garbage :
       ctx' = [ctx EXCEPT ![c] = [engine |-> e, nid |-> nid, id |-> x, key |-> Nil]]
  /\ stray' = stray \cup {c}
  /\ UNCHANGED <<device, list, engine, app_ref, session, loads, rekeyed>>

\* devcrypto_cipher_do_cipher: the session the context's data goes through.
Through(c) == IF kernel_fd THEN session[ctx[c].id] ELSE Nil

\* devcrypto_cipher_cleanup: the session is closed even if C_EncryptFinal's
\* request fails.  Then EVP_CIPHER_CTX_cleanup gives the engine back.  The
\* session may be that of another context if c's id is not c's own.
Closed(c) == [x \in Ids |-> IF x = ctx[c].id THEN Nil ELSE session[x]]
Robbed(c) == {d \in Contexts : ctx[d] # Nil /\ ctx[d].id = ctx[c].id}
devcrypto_cipher_cleanup(c) ==
  /\ ctx[c] # Nil
  /\ ctx' = [ctx EXCEPT ![c] = Nil]
  /\ Release(ctx[c].engine, IF kernel_fd THEN Closed(c) ELSE session,
       /\ ctx[c].engine \notin app_ref
       /\ \A d \in Contexts \ {c} : ctx[d] # Nil => ctx[d].engine # ctx[c].engine)
  /\ stray' = (IF c \in stray THEN stray \cup Robbed(c) ELSE stray) \ {c}
  /\ UNCHANGED <<cipher_count, app_ref, loads, rekeyed>>

-----------------------------------------------------------------------------
Next ==
  \/ \E e \in Engines : devcrypto_bind(e) \/ BindFails(e) \/ ENGINE_init(e) \/ devcrypto_finish(e)
  \/ \E c \in Contexts, e \in Engines, nid \in NIDs :
       \/ InitRefused(c, e, nid) \/ InitEarlyFails(c, e, nid)
       \/ \E k \in Secrets : devcrypto_cipher_init(c, e, nid, k)
  \/ \E c \in Contexts : devcrypto_cipher_cleanup(c)

Spec == Init /\ [][Next]_vars

-----------------------------------------------------------------------------
(* Properties. *)

\* The device is open, with a mutex and its providers, exactly while an
\* engine that opened it was not finished: whoever finishes last closes it
\* and nobody before.
DeviceCounted ==
  /\ kernel_fd_ref = Cardinality({e \in Engines : engine[e] = "loaded"})
  /\ kernel_fd = (kernel_fd_ref > 0) /\ kernel_fd_lock = kernel_fd /\ provider_id = kernel_fd

\* The data of a context goes through a session with the context's cipher and
\* the key last set, which no other context has: until a context is cleaned up
\* that holds the same id because its own initialization failed before it had
\* a session, or because it lost its session in this way.
OwnSession ==
  \A c \in Contexts \ stray : ctx[c] # Nil /\ ctx[c].key # Nil =>
    /\ Through(c) = [nid |-> ctx[c].nid, key |-> ctx[c].key]
    /\ \A d \in Contexts \ (stray \cup {c}) : ctx[d] # Nil => ctx[d].id # ctx[c].id

\* A session that is no context's own any more was left by setting another key
\* in its context: nothing else leaves one open, failures included.
SessionsLeft ==
  Cardinality({x \in Ids : session[x] # Nil /\
                 \A c \in Contexts \ stray : ctx[c] # Nil => ctx[c].id # x}) <= rekeyed

\* What the engine offers is what the hardware has, each cipher once.
CiphersRight ==
  cipher_nids # Nil =>
    /\ Members(cipher_nids) = UNION Members(Providers)
    /\ cipher_count = Cardinality(Members(cipher_nids))
    /\ Len(cipher_nids) = cipher_count

\* The same for the first load.
FirstCiphersRight == loads <= 1 => CiphersRight
=============================================================================
