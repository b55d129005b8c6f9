----------------------------- MODULE MCEngineOps -----------------------------
(***************************************************************************)
(* The operations of the engines for TLC: a behaviour is one of            *)
(* Pk11Cipher, Pk11Digest, Pk11DsaDh, Pk11Slots or DevCrypto.  They share  *)
(* no variable; the parts that are not chosen stay in an initial state.    *)
(***************************************************************************)
EXTENDS Pk11Cipher, TLC

CONSTANTS
  Parts,      \* of "cipher", "digest", "keys", "slots", "devcrypto"
  DigestCtxs, DigestSessions, Chunks, MaxLen, DigestFaults,        \* Pk11Digest
  Threads, KeyStructs, Numbers, KeyOps, KeyFaults,                 \* Pk11DsaDh
  NSlots, Ciphers, Digests, SlotOffers, CpuNids, MaxInits,         \* Pk11Slots
  Engines, MaxId, NIDs, Providers, Secrets, Garbage, MaxLoads      \* DevCrypto

VARIABLES
  part,
  dHead, dNext, dOpen, dActive, dState, data, dPc, dLocal, from,
  content, kObj, ref, cache, held, kKey, ptr, num, searching, finishing, kPc, op, dsa, sp, h, temps, answer,
  offer, hardware, hwTable, hw_nids, last, pubkey_SLOTID, have, flagsOf, rand_SLOTID,
  SLOTID, sCiphers, digest_nids, inits, i,
  kernel_fd, kernel_fd_lock, provider_id, kernel_fd_ref, cipher_count, cipher_nids,
  engine, app_ref, ctx, session, loads, rekeyed, stray

digestVars == <<dHead, dNext, dOpen, dActive, dState, data, dPc, dLocal, from>>
keyVars == <<content, kObj, ref, cache, held, kKey, ptr, num, searching, finishing, kPc, op, dsa, sp, h, temps, answer>>
slotVars == <<offer, hardware, hwTable, hw_nids, last, pubkey_SLOTID, have, flagsOf, rand_SLOTID,
              SLOTID, sCiphers, digest_nids, inits, i>>
devVars == <<kernel_fd, kernel_fd_lock, provider_id, kernel_fd_ref, cipher_count, cipher_nids,
             engine, app_ref, ctx, session, loads, rekeyed, stray>>

D == INSTANCE Pk11Digest_proofs WITH Ctxs <- DigestCtxs, Sessions <- DigestSessions, Faults <- DigestFaults,
       head <- dHead, next <- dNext, open <- dOpen, active <- dActive, state <- dState,
       pc <- dPc, local <- dLocal
K == INSTANCE Pk11DsaDh_proofs WITH Keys <- KeyStructs, Ops <- KeyOps, Faults <- KeyFaults,
       obj <- kObj, key <- kKey, pc <- kPc
L == INSTANCE Pk11Slots WITH cipher_nids <- sCiphers
V == INSTANCE DevCrypto WITH Contexts <- Ctxs, Reinit <- FALSE

ASSUME OpsAssumption == D!DigestAssumption /\ K!KeysAssumption /\ L!SlotsAssumption /\ V!DevAssumption

-----------------------------------------------------------------------------
(* Ciphers: keys of one and two bytes, the longer one starts like another.   *)
ShortKeys == {<<1>>, <<2>>, <<1, 1>>}
ShortRequests == [type : {"aes"}, bytes : ShortKeys, encrypt : BOOLEAN]

\* RC4 takes keys longer than PK11_KEY_LEN_MAX.
LongRequests == [type : {"rc4"}, bytes : {<<1, 1>>, <<1, 1, 1>>}, encrypt : BOOLEAN]

\* The failures of setting up an operation, with and without C_DestroyObject,
\* and those of the operation itself.
CipherFaultSets == {{"get", "create", "close"}, {"destroy", "create", "close"},
                    {"init", "update", "final", "open"}}

(* Slots: two ciphers with one mechanism, and slots that lack some of them.  *)
CipherTable == <<[nid |-> "aes128", mech |-> "aes", len |-> 16], [nid |-> "aes256", mech |-> "aes", len |-> 32],
                 [nid |-> "rc4", mech |-> "rc4", len |-> 16]>>
DigestTable == <<[nid |-> "sha1", mech |-> "sha1", len |-> 0], [nid |-> "md5", mech |-> "md5", len |-> 0]>>
Offer(token, keys, rng, aes, rc4, sha1, md5) ==
  [token |-> token, keys |-> keys, rng |-> rng,
   mechs |-> [aes |-> aes, rc4 |-> rc4, sha1 |-> sha1, md5 |-> md5]]
SomeOffers == {Offer(TRUE, {"rsa", "dsa"}, TRUE, {16, 32}, {16}, {0}, {0}), Offer(TRUE, {"rsa"}, FALSE, {}, {}, {0}, {0}),
               Offer(TRUE, {}, TRUE, {16}, {}, {}, {}), Offer(FALSE, {"dh"}, TRUE, {16, 32}, {16}, {0}, {})}

(* Two providers of the hardware that have a cipher in common.               *)
TwoProviders == <<{"des"}, {"des", "aes"}>>

\* The parts use the same three pairs of names, for what is interchangeable.
Symmetry == Permutations(Ctxs) \cup Permutations(Sessions) \cup Permutations(Handles)

-----------------------------------------------------------------------------
OpsInit ==
  /\ part \in Parts
  /\ Init /\ (part = "cipher" \/ faults = CHOOSE f \in FaultSets : TRUE)
  /\ D!Init /\ K!Init /\ V!Init
  /\ L!Init /\ (part = "slots" \/ \A o \in {hardware} \cup {offer[s] : s \in DOMAIN offer} :
                                    o = CHOOSE x \in SlotOffers : TRUE)

\* Deadlock is an error in the part of the ciphers and that of the digests;
\* the others may come to an end.
OpsNext ==
  \/ part = "cipher" /\ Next /\ UNCHANGED <<part, digestVars, keyVars, slotVars, devVars>>
  \/ part = "digest" /\ D!Next /\ UNCHANGED <<part, vars, keyVars, slotVars, devVars>>
  \/ part = "keys" /\ K!Next /\ UNCHANGED <<part, vars, digestVars, slotVars, devVars>>
  \/ part = "slots" /\ L!Next /\ UNCHANGED <<part, vars, digestVars, keyVars, devVars>>
  \/ part = "devcrypto" /\ V!Next /\ UNCHANGED <<part, vars, digestVars, keyVars, slotVars>>
  \/ part \in {"keys", "slots", "devcrypto"} /\ UNCHANGED <<part, vars, digestVars, keyVars, slotVars, devVars>>

OpsSpec == OpsInit /\ [][OpsNext]_<<part, vars, digestVars, keyVars, slotVars, devVars>>

-----------------------------------------------------------------------------
\* The variables of every part keep to their types.
OpsTypeOK ==
  /\ part = "cipher" => TypeOK
  /\ part = "digest" => D!TypeOK
  /\ part = "keys" => K!TypeOK
  /\ part = "slots" => L!TypeOK
  /\ part = "devcrypto" => V!TypeOK

\* The session of a digest context holds what was fed into this context
\* (pk11_digest_update, pk11_digest_copy).
DigestIntact == part = "digest" => D!DigestIntact

\* Every session of a cipher or a digest is in the free list, idle and once,
\* or of one context, and none is lost (pk11_cipher_init, pk11_digest_final).
AllSessionsKept ==
  /\ part = "cipher" => SessionsKept
  /\ part = "digest" => D!SessionsKept

\* No object is left in the token that no session caches and no call will
\* destroy (pk11_destroy_cipher_key_objects, pk11_destroy_dsa_object_pub).
NoObjectLeft ==
  /\ part = "cipher" => NoOrphan
  /\ part = "keys" => K!NoOrphan

\* The active lists of DSA and DH count the sessions that cache a handle, and
\* the token has one object for a key (pk11_active_add, pk11_get_public_dsa_key).
KeysCounted == part = "keys" => K!RefsExact /\ K!OneObject

\* DSA and DH calls use the key in the structure they are given (check_new_dsa_key_pub).
UsesRightKey == part = "keys" => K!UsesRightKey

\* What is registered the chosen slot can do, and no other slot can do more
\* (pk11_choose_cipher_digest, pk11_find_symmetric_ciphers).
SlotsRight == part = "slots" => L!RegisteredRight /\ L!BestSlot

\* The slot for keys has the mechanisms the engine offers: it is the first slot,
\* and what is offered is what the last slot with any has (pk11_choose_slots).
KeySlotHasThem == part = "slots" => L!KeySlotHasThem

\* The /dev/crypto descriptor is open as long as a load is not finished, and
\* the first load lists the hardware's ciphers once (devcrypto_bind).
DeviceRight == part = "devcrypto" => V!DeviceCounted /\ V!FirstCiphersRight

\* A /dev/crypto context has its own session with its key, until the clean-up of
\* a context whose initialization failed closes it, and sessions are left open
\* only by setting another key (devcrypto_cipher_init, _cleanup).
DeviceSessions == part = "devcrypto" => V!OwnSession /\ V!SessionsLeft
=============================================================================
