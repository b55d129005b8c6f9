------------------------------ MODULE Pk11Slots ------------------------------
(***************************************************************************)
(* The slot selection of the PKCS#11 engine (engines/pkcs11/e_pk11.c of    *)
(* openssl-1.0.1): what the token's slots offer decides which slot serves  *)
(* keys, random numbers, and ciphers with digests, and which of them the   *)
(* engine registers.  Ciphers and digests are registered only if a library *)
(* with the hardware slots, pkcs11_kernel, has them too.  The selection is *)
(* made again by a child after a fork and after pk11_finish; its results   *)
(* are static variables that keep their values until then.                 *)
(***************************************************************************)
EXTENDS Integers, Sequences, FiniteSets

CONSTANTS
  NSlots,      \* slots of the library, numbered as in C_GetSlotList
  Ciphers,     \* the engine's ciphers: a sequence of [nid, mech, key length]
  Digests,     \* its digests: likewise, with key length 0
  SlotOffers,  \* what a slot may have, a set of Offer records
  CpuNids,     \* ciphers for which the processor has instructions
  MaxInits     \* library initializations (bound)

\* Offer == [token : C_GetTokenInfo works, rng : CKF_RNG,
\*           keys : SUBSET {"rsa", "dsa", "dh"} usable in full,
\*           mechs : [mechanism -> key lengths it takes, {} if it is missing]]
Slots == 1..NSlots
None == 0

VARIABLES
  offer,          \* [Slots -> Offer]
  hardware,       \* the Offer of pkcs11_kernel's slot
  hwTable,        \* hw_cnids and hw_dnids point to: "null", "table" or "freed"
  hw_nids,        \* what they hold
  last,           \* last_checked_mech, and the static rv and mech_info it got
  pubkey_SLOTID, have, flagsOf,        \* pk11_have_*; whose flags pubkey_token_flags are
  rand_SLOTID,                         \* None without pk11_have_random
  SLOTID, cipher_nids, digest_nids,    \* the registered ones
  inits,          \* selections begun
  i               \* the next slot to look at, None outside of pk11_choose_slots

keyVars == <<pubkey_SLOTID, have, flagsOf>>
symVars == <<SLOTID, cipher_nids, digest_nids>>
vars == <<offer, hardware, hwTable, hw_nids, last, keyVars, rand_SLOTID, symVars, inits, i>>

Entries(table) == {table[n] : n \in DOMAIN table}
Nids(table) == {e.nid : e \in Entries(table)}
AllNids == Nids(Ciphers) \cup Nids(Digests)

\* No row of a table is there twice.  A pass over the ciphers ends with a
\* mechanism that is not the one it begins with: the answer kept from one slot
\* is never taken for another slot's.
SlotsAssumption ==
  /\ NSlots \in Nat \ {0} /\ MaxInits \in Nat
  /\ Ciphers \in Seq(Entries(Ciphers)) /\ Digests \in Seq(Entries(Digests))
  /\ \A m, n \in DOMAIN Ciphers : Ciphers[m].nid = Ciphers[n].nid => m = n
  /\ \A m, n \in DOMAIN Digests : Digests[m].nid = Digests[n].nid => m = n
  /\ Nids(Ciphers) \cap Nids(Digests) = {}
  /\ Ciphers # <<>> => Ciphers[1].mech \notin {"none", Ciphers[Len(Ciphers)].mech}
  /\ \A o \in SlotOffers : o.keys \subseteq {"rsa", "dsa", "dh"}

TypeOK ==
  /\ hwTable \in {"null", "table", "freed"} /\ hw_nids \subseteq AllNids
  /\ {pubkey_SLOTID, flagsOf, rand_SLOTID, SLOTID} \subseteq Slots \cup {None}
  /\ have \subseteq {"rsa", "dsa", "dh"}
  /\ cipher_nids \in Seq(Nids(Ciphers)) /\ digest_nids \in Seq(Nids(Digests))
  /\ inits \in 0..MaxInits /\ i \in 0..NSlots + 1

Init ==
  /\ offer \in [Slots -> SlotOffers] /\ hardware \in SlotOffers
  /\ hwTable = "null" /\ hw_nids = {}
  /\ last = [mech |-> "none", lens |-> {}]
  /\ pubkey_SLOTID = None /\ have = {} /\ flagsOf = None
  /\ rand_SLOTID = None
  /\ SLOTID = None /\ cipher_nids = <<>> /\ digest_nids = <<>>
  /\ inits = 0 /\ i = None

-----------------------------------------------------------------------------
AskBug(mech, lst) == lst.mech = "none"
\* pk11_get_symmetric_cipher asks the token unless the mechanism is the one
\* it asked for last, in whatever slot of whatever library that was.
Ask(mech, lst) == mech # lst.mech

\* pk11_find_symmetric_ciphers: the ciphers usable with the mechanisms of a
\* slot, in the table's order, among the allowed; and the answer kept.
FindCiphers(mechs, allowed) ==
  LET upto[n \in 0..Len(Ciphers)] ==
        IF n = 0 THEN [nids |-> <<>>, last |-> last]
        ELSE LET e == Ciphers[n]  p == upto[n - 1]
                 l == IF Ask(e.mech, p.last) THEN [mech |-> e.mech, lens |-> mechs[e.mech]] ELSE p.last
             IN [nids |-> IF e.len \in l.lens /\ e.nid \in allowed THEN Append(p.nids, e.nid) ELSE p.nids,
                 last |-> l]
  IN upto[Len(Ciphers)]

\* pk11_find_digests: every digest is asked for.
FindDigests(mechs, allowed) ==
  LET upto[n \in 0..Len(Digests)] ==
        IF n = 0 THEN <<>>
        ELSE LET e == Digests[n] IN
             IF e.len \in mechs[e.mech] /\ e.nid \in allowed THEN Append(upto[n - 1], e.nid) ELSE upto[n - 1]
  IN upto[Len(Digests)]

Members(s) == {s[n] : n \in DOMAIN s}

\* nid_in_table: everything without a table, and always what the processor does.
Allowed == IF hwTable = "null" THEN AllNids ELSE hw_nids \cup CpuNids

\* check_hw_mechanisms looks at pkcs11_kernel's slots.  It filters them by
\* the table of the last time: that was freed by pk11_choose_slots and may
\* read as anything.
CheckHw(allowed) ==
  LET found == FindCiphers(hardware.mechs, allowed) IN
  /\ allowed \in IF hwTable = "freed" THEN {hw \cup CpuNids : hw \in SUBSET AllNids} ELSE {Allowed}
  /\ hwTable' = "table"
  /\ hw_nids' = IF hardware.token
                  THEN Members(found.nids) \cup Members(FindDigests(hardware.mechs, allowed)) ELSE {}
  /\ last' = IF hardware.token THEN found.last ELSE last

\* pk11_library_init up to the first slot, which is the one for keys and stays
\* it (LookAtSlot).
BeginSelection ==
  /\ i = None /\ inits < MaxInits
  /\ \E hw \in SUBSET AllNids : CheckHw(hw \cup CpuNids)
  /\ pubkey_SLOTID' = 1
  /\ inits' = inits + 1 /\ i' = 1
  /\ UNCHANGED <<offer, hardware, have, flagsOf, rand_SLOTID, symVars>>

\* C_GetSlotList or an allocation fails, or there is no slot: the table of
\* the hardware is not freed.
NoSlots ==
  /\ i = None /\ inits < MaxInits
  /\ \E hw \in SUBSET AllNids : CheckHw(hw \cup CpuNids)
  /\ inits' = inits + 1
  /\ UNCHANGED <<offer, hardware, keyVars, rand_SLOTID, symVars, i>>

\* pk11_choose_rand_slot: the first slot with random numbers, ever.
pk11_choose_rand_slot ==
  rand_SLOTID' = IF offer[i].rng /\ rand_SLOTID = None THEN i ELSE rand_SLOTID

\* pk11_choose_pubkey_slot gets the best number and the best slot so far by
\* value: every slot with a mechanism for keys is better than none, and its
\* flags replace those of the slots before.
pk11_choose_pubkey_slot ==
  IF offer[i].keys # {}
    THEN have' = offer[i].keys /\ flagsOf' = i
    ELSE UNCHANGED <<have, flagsOf>>

MoreUsable(c, d) == Len(c) + Len(d) > Len(cipher_nids) + Len(digest_nids)

\* pk11_choose_cipher_digest: more than the best slot so far, of this
\* selection or of one before.
pk11_choose_cipher_digest ==
  LET c == FindCiphers(offer[i].mechs, Allowed)
      d == FindDigests(offer[i].mechs, Allowed)
  IN /\ last' = c.last
     /\ IF MoreUsable(c.nids, d)
          THEN SLOTID' = i /\ cipher_nids' = c.nids /\ digest_nids' = d
          ELSE UNCHANGED symVars

LookAtSlot ==
  /\ i \in Slots
  /\ IF offer[i].token
       THEN pk11_choose_rand_slot /\ pk11_choose_pubkey_slot /\ pk11_choose_cipher_digest
       ELSE UNCHANGED <<rand_SLOTID, have, flagsOf, symVars, last>>
  /\ i' = i + 1
  /\ UNCHANGED <<offer, hardware, hwTable, hw_nids, pubkey_SLOTID, inits>>

\* The caller's best number of mechanisms is still zero, so the slot for keys
\* stays.  Without C_GetOperationState there are no digests.
EndSelection ==
  /\ i = NSlots + 1
  /\ hwTable' = "freed"
  /\ digest_nids' \in {digest_nids, <<>>}
  /\ i' = None
  /\ UNCHANGED <<offer, hardware, hw_nids, last, keyVars, rand_SLOTID, SLOTID, cipher_nids, inits>>

Next == BeginSelection \/ NoSlots \/ LookAtSlot \/ EndSelection

Spec == Init /\ [][Next]_vars

-----------------------------------------------------------------------------
(* Properties. *)

\* The slot takes the cipher or digest.
Takes(mechs, nid) ==
  \E e \in Entries(Ciphers) \cup Entries(Digests) : e.nid = nid /\ e.len \in mechs[e.mech]

\* Whatever is registered, in this selection or an older one, the chosen slot
\* can do and so can the hardware; nothing is registered twice.  The answers
\* cached over ciphers, slots and libraries are those of the right mechanism.
RegisteredRight ==
  LET registered == Members(cipher_nids) \cup Members(digest_nids) IN
  /\ \A nid \in registered :
       Takes(offer[SLOTID].mechs, nid) /\ (Takes(hardware.mechs, nid) \/ nid \in CpuNids)
  /\ Cardinality(registered) = Len(cipher_nids) + Len(digest_nids)

\* How much of what the engine may register a slot takes.
Usable(s) ==
  IF s = None THEN 0
  ELSE Cardinality({nid \in AllNids : Takes(offer[s].mechs, nid) /\
         (nid \in CpuNids \/ (hardware.token /\ Takes(hardware.mechs, nid)))})

\* After the first selection no slot that was looked at takes more than the
\* chosen one.
BestSlot ==
  inits = 1 /\ i = None /\ hwTable = "freed" =>
    \A s \in Slots : offer[s].token => Usable(s) <= Usable(SLOTID)

\* The kinds of keys the engine registers are kinds the slot for keys has.
KeySlotHasThem == i = None => have \subseteq (IF pubkey_SLOTID = None THEN {} ELSE offer[pubkey_SLOTID].keys)
=============================================================================
