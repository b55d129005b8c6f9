------------------------------- MODULE Pk11Rsa -------------------------------
(***************************************************************************)
(* RSA key objects of the PKCS#11 engine: the handles every PK11_SESSION   *)
(* caches, the active list that counts the references to each handle, and  *)
(* the find lock that guards the list and the token's object store         *)
(* (engines/pkcs11/e_pk11.c and e_pk11_pub.c of openssl-1.0.1).            *)
(*                                                                         *)
(* Threads run engine entry points concurrently.  A thread owns the        *)
(* session it took, so steps on session fields are thread-local; it shares *)
(* the token's objects and the active list with the others.  The free list *)
(* is abstracted to a set: pk11_get_session may hand out any free session. *)
(* Several PKCS#11 calls under one hold of the lock are separate steps.    *)
(***************************************************************************)
EXTENDS Integers, FiniteSets

CONSTANTS
  Threads,     \* application threads
  Sessions,    \* PK11_SESSION structures (bound: so many can be allocated)
  Rsas,        \* addresses the application's RSA structures may have
  Pairs,       \* RSA key pairs: equal 'n' and 'e' means the same pair
  TokenPairs,  \* pairs kept in the token as persistent private objects
  SHandles,    \* handles of session objects (bound on the objects alive)
  Ops,         \* entry points in use, a subset of AllOps
  Faults,      \* which calls may fail, a subset of AllFaults
  Nil

AllOps == {"pubop", "privop", "filepub", "filepriv", "refpub", "refpriv"}
AllFaults == {"malloc", "init", "find", "final", "create", "dup", "destroy", "load"}
Handles == SHandles \cup TokenPairs   \* a token object's handle is named by its pair
Class == {"pub", "priv"}
Steps == {"idle", "check", "uri", "findone", "destroy", "delete", "destroyobj", "clear",
          "attach", "lookup", "find", "create", "hold", "unlock", "use", "return"}

\* An RSA structure: its 'n' and 'e', whether it has 'd', who references it.
Content == [pair : Pairs, d : BOOLEAN, own : {"app", "shared", "leaked"}]
\* A key object of the token.
Object  == [class : Class, pair : Pairs]

ASSUME RsaAssumption ==
  /\ TokenPairs \subseteq Pairs
  /\ Ops \subseteq AllOps
  /\ Faults \subseteq AllFaults
  /\ SHandles \cap Pairs = {}
  /\ IsFiniteSet(Sessions)
  /\ Nil \notin Threads \cup Sessions \cup Rsas \cup Pairs \cup SHandles
  /\ Nil \notin Class \cup Content \cup Object

VARIABLES
  content,     \* [Rsas -> RSA structure at the address, or Nil]
  obj,         \* [SHandles -> session object in the token, or Nil]
  ref,         \* active_list[OP_RSA]: [Handles -> refcnt, 0 without an entry]
  lock,        \* find_lock[OP_RSA]: its owner or Nil
  state,       \* [Sessions -> "unborn", "free", "held" or "lost"]
  key,         \* opdata_rsa_pub_key and opdata_rsa_priv_key
  ptr,         \* opdata_rsa_pub and opdata_rsa_priv
  num,         \* opdata_rsa_n_num and opdata_rsa_e_num: the pair they spell, or Nil
  persistent,  \* the persistent flag
  searching,   \* the PKCS#11 session has an active search operation
  pc, op, rsa, \* the thread's step, entry point and RSA structure
  sp,          \* its session
  cls,         \* the class of key being destroyed
  h, found     \* locals of pk11_get_{public,private}_rsa_key

tokenVars == <<obj, ref>>
sessVars  == <<state, key, ptr, num, persistent, searching>>
callVars  == <<op, rsa, sp>>
locals    == <<cls, h, found>>
vars == <<content, tokenVars, lock, sessVars, pc, callVars, locals>>

TypeOK ==
  /\ content \in [Rsas -> Content \cup {Nil}]
  /\ obj \in [SHandles -> Object \cup {Nil}]
  /\ ref \in [Handles -> Nat]
  /\ lock \in Threads \cup {Nil}
  /\ state \in [Sessions -> {"unborn", "free", "held", "lost"}]
  /\ key \in [Sessions -> [Class -> Handles \cup {Nil}]]
  /\ ptr \in [Sessions -> [Class -> Rsas \cup {Nil}]]
  /\ num \in [Sessions -> Pairs \cup {Nil}]
  /\ persistent \in [Sessions -> BOOLEAN]
  /\ searching \in [Sessions -> BOOLEAN]
  /\ pc \in [Threads -> Steps]
  /\ op \in [Threads -> AllOps]
  /\ rsa \in [Threads -> Rsas \cup {Nil}]
  /\ sp \in [Threads -> Sessions \cup {Nil}]
  /\ cls \in [Threads -> Class]
  /\ h \in [Threads -> Handles \cup {Nil}]
  /\ found \in [Threads -> BOOLEAN]

Init ==
  /\ content = [r \in Rsas |-> Nil]
  /\ obj = [x \in SHandles |-> Nil]
  /\ ref = [x \in Handles |-> 0]
  /\ lock = Nil
  /\ state = [s \in Sessions |-> "unborn"]
  /\ key = [s \in Sessions |-> [c \in Class |-> Nil]]
  /\ ptr = [s \in Sessions |-> [c \in Class |-> Nil]]
  /\ num = [s \in Sessions |-> Nil]
  /\ persistent = [s \in Sessions |-> FALSE]
  /\ searching = [s \in Sessions |-> FALSE]
  /\ pc = [t \in Threads |-> "idle"]
  /\ op = [t \in Threads |-> "pubop"]
  /\ rsa = [t \in Threads |-> Nil]
  /\ sp = [t \in Threads |-> Nil]
  /\ cls = [t \in Threads |-> "pub"]
  /\ h = [t \in Threads |-> Nil]
  /\ found = [t \in Threads |-> FALSE]

-----------------------------------------------------------------------------
(* Derived notions. *)

RefOps == {"refpub", "refpriv"}      \* keys by reference: a PKCS#11 URI names the key
FileOps == {"filepub", "filepriv"}   \* keys read from a PEM file

ClassOf(o) == IF o \in {"pubop", "filepub", "refpub"} THEN "pub" ELSE "priv"
Other(c) == IF c = "pub" THEN "priv" ELSE "pub"

FreeAddresses == {r \in Rsas : content[r] = Nil}

Goto(t, step) == pc' = [pc EXCEPT ![t] = step]

\* The object the token holds under handle x.
ObjectAt(x) == IF x \in TokenPairs THEN [class |-> "priv", pair |-> x] ELSE obj[x]

\* The template of the search: by 'n' and 'e' among the token's private
\* objects when the RSA structure has no 'd', among session objects otherwise.
Matches(c, k) ==
  IF c = "priv" /\ ~k.d
    THEN {k.pair} \cap TokenPairs
    ELSE {x \in SHandles : obj[x] = [class |-> c, pair |-> k.pair]}

\* LOCK_OBJSTORE gets through.
CanLockBug == TRUE
CanLock == lock = Nil

\* pk11_active_add(): one more reference, in a new entry if there is none.
ActiveAddBug(x) == IF ref[x] = 0 THEN [ref EXCEPT ![x] = 1] ELSE ref
ActiveAdd(x) == [ref EXCEPT ![x] = @ + 1]

\* pk11_active_delete(): one reference less; a handle without an entry is an
\* error and changes nothing.  It tells whether the last reference went.
ActiveDeleteBug(x) == [ref EXCEPT ![x] = @ - (IF @ = 1 THEN 2 ELSE 1)]
ActiveDelete(x) == IF ref[x] = 0 THEN ref ELSE [ref EXCEPT ![x] = @ - 1]
WasLastNeverBug(x) == FALSE
WasLastEarlyBug(x) == ref[x] \in {1, 2}
WasLast(x) == ref[x] = 1

SameKeyBug(s, c, r) == ptr[s][c] = r
\* Same RSA structure as last time, still with the same 'n' and 'e'.
SameKey(s, c, r) == ptr[s][c] = r /\ num[s] = content[r].pair

-----------------------------------------------------------------------------
(* The application. *)

NewRsa(r, p, d) ==
  /\ content[r] = Nil
  /\ content' = [content EXCEPT ![r] = [pair |-> p, d |-> d, own |-> "app"]]
  /\ UNCHANGED <<tokenVars, lock, sessVars, pc, callVars, locals>>

\* RSA_free: a loaded key's structure carries a second reference that
\* nobody drops, so its memory is never reused.
FreeRsa(r) ==
  /\ content[r] # Nil /\ content[r].own # "leaked"
  /\ \A t \in Threads : rsa[t] # r
  /\ content' = [content EXCEPT ![r] =
                   IF @.own = "app" THEN Nil ELSE [@ EXCEPT !.own = "leaked"]]
  /\ UNCHANGED <<tokenVars, lock, sessVars, pc, callVars, locals>>

-----------------------------------------------------------------------------
(* Entry points. *)

\* pk11_get_session(OP_RSA): a free session as its last user left it, or a
\* newly allocated one; pk11_setup_session clears the persistent flag.
GetSession(t, s) ==
  /\ \/ state[s] = "free"
     \/ state[s] = "unborn" /\ \A q \in Sessions : state[q] # "free"
  /\ state' = [state EXCEPT ![s] = "held"]
  /\ sp' = [sp EXCEPT ![t] = s]
  /\ UNCHANGED <<key, ptr, num, persistent, searching>>

\* RSA_public_encrypt and _decrypt, RSA_verify; RSA_private_encrypt and
\* _decrypt, RSA_sign on a structure the application has.
CallKeyOp(t, o, r, s) ==
  /\ pc[t] = "idle" /\ o \in Ops \cap {"pubop", "privop"}
  /\ content[r] # Nil /\ content[r].own # "leaked"
  /\ \A u \in Threads : rsa[u] = r => op[u] \in {"pubop", "privop"}
  /\ GetSession(t, s)
  /\ op' = [op EXCEPT ![t] = o]
  /\ rsa' = [rsa EXCEPT ![t] = r]
  /\ Goto(t, "check")
  /\ UNCHANGED <<content, tokenVars, lock, locals>>

\* pk11_load_{priv,pub}key on a file: PEM_read_* allocates the RSA
\* structure, EVP_PKEY_get1_RSA takes the reference that is never dropped.
CallLoadFile(t, o, r, p, s) ==
  /\ pc[t] = "idle" /\ o \in Ops \cap FileOps
  /\ content[r] = Nil
  /\ GetSession(t, s)
  /\ content' = [content EXCEPT ![r] =
                   [pair |-> p, d |-> o = "filepriv", own |-> "shared"]]
  /\ op' = [op EXCEPT ![t] = o]
  /\ rsa' = [rsa EXCEPT ![t] = r]
  /\ Goto(t, "check")
  /\ UNCHANGED <<tokenVars, lock, locals>>

\* pk11_load_{priv,pub}key on a PKCS#11 URI.
CallLoadRef(t, o, s) ==
  /\ pc[t] = "idle" /\ o \in Ops \cap RefOps
  /\ GetSession(t, s)
  /\ op' = [op EXCEPT ![t] = o]
  /\ Goto(t, "uri")
  /\ UNCHANGED <<content, tokenVars, lock, rsa, locals>>

\* goto err in pk11_load_*: the session is neither returned nor freed.
LoseSession(t) ==
  /\ state' = [state EXCEPT ![sp[t]] = "lost"]
  /\ sp' = [sp EXCEPT ![t] = Nil]
  /\ rsa' = [rsa EXCEPT ![t] = Nil]
  /\ Goto(t, "idle")
  /\ UNCHANGED op

\* pk11_process_pkcs11_uri, pk11_check_token_attrs and pk11_token_login.
ProcessUri(t) ==
  /\ pc[t] = "uri"
  /\ \/ Goto(t, "findone") /\ UNCHANGED <<state, callVars>>
     \/ "load" \in Faults /\ LoseSession(t)
  /\ UNCHANGED <<content, tokenVars, lock, key, ptr, num, persistent, searching, locals>>

\* find_one_object(): nothing shared changes under the lock.  Not finding
\* the object leaves the search open, like a failing C_FindObjects.
FindOneObject(t) ==
  /\ pc[t] = "findone" /\ CanLock
  /\ \/ /\ ~searching[sp[t]]
        /\ \E p \in TokenPairs : h' = [h EXCEPT ![t] = p]
        /\ cls' = [cls EXCEPT ![t] = ClassOf(op[t])]
        /\ Goto(t, "destroy")
        /\ UNCHANGED <<searching, state, callVars>>
     \/ /\ "load" \in Faults \/ searching[sp[t]]
        /\ searching' = [searching EXCEPT ![sp[t]] = TRUE]
        /\ LoseSession(t)
        /\ UNCHANGED <<h, cls>>
  /\ UNCHANGED <<content, tokenVars, lock, key, ptr, num, persistent, found>>

-----------------------------------------------------------------------------
(* pk11_check_new_rsa_key_{pub,priv} and pk11_destroy_rsa_object_{pub,priv}. *)

\* A different key pair: destroy both cached objects, the operation's own
\* class first.
Check(t) ==
  /\ pc[t] = "check"
  /\ IF SameKey(sp[t], ClassOf(op[t]), rsa[t])
       THEN Goto(t, "lookup") /\ UNCHANGED cls
       ELSE Goto(t, "destroy") /\ cls' = [cls EXCEPT ![t] = ClassOf(op[t])]
  /\ UNCHANGED <<content, tokenVars, lock, sessVars, callVars, h, found>>

\* Where a thread goes once the key of class cls[t] is out of its session.
\* The loaders by reference only drop the class they replace.
AfterDestroy(t) ==
  IF op[t] \in RefOps
    THEN Goto(t, "attach") /\ UNCHANGED cls
    ELSE IF cls[t] = ClassOf(op[t])
           THEN Goto(t, "destroy") /\ cls' = [cls EXCEPT ![t] = Other(@)]
           ELSE Goto(t, "lookup") /\ UNCHANGED cls

DestroySkip(t) ==
  /\ pc[t] = "destroy" /\ key[sp[t]][cls[t]] = Nil
  /\ AfterDestroy(t)
  /\ UNCHANGED <<content, tokenVars, lock, sessVars, callVars, h, found>>

\* TRY_OBJ_DESTROY: LOCK_OBJSTORE.
DestroyLock(t) ==
  /\ pc[t] = "destroy" /\ key[sp[t]][cls[t]] # Nil
  /\ CanLock
  /\ lock' = t
  /\ Goto(t, "delete")
  /\ UNCHANGED <<content, tokenVars, sessVars, callVars, locals>>

\* The reference goes; only the last one takes the object with it.
DropReference(t) ==
  /\ pc[t] = "delete"
  /\ LET x == key[sp[t]][cls[t]] IN
       /\ ref' = ActiveDelete(x)
       /\ Goto(t, IF WasLast(x) THEN "destroyobj" ELSE "clear")
  /\ UNCHANGED <<content, obj, lock, sessVars, callVars, locals>>

\* pk11_destroy_object(): nothing for a session marked persistent; a token
\* object cannot be destroyed in a read-only session; the result is ignored.
DestroyObject(t) ==
  /\ pc[t] = "destroyobj"
  /\ LET x == key[sp[t]][cls[t]] IN
       \/ /\ ~persistent[sp[t]] /\ x \in SHandles
          /\ obj' = [obj EXCEPT ![x] = Nil]
       \/ /\ persistent[sp[t]] \/ x \in TokenPairs \/ "destroy" \in Faults
          /\ UNCHANGED obj
  /\ Goto(t, "clear")
  /\ UNCHANGED <<content, ref, lock, sessVars, callVars, locals>>

\* UNLOCK_OBJSTORE, then the session's fields and destroy_all_rsa_params().
DestroyClear(t) ==
  /\ pc[t] = "clear"
  /\ lock' = Nil
  /\ key' = [key EXCEPT ![sp[t]][cls[t]] = Nil]
  /\ ptr' = [ptr EXCEPT ![sp[t]][cls[t]] = Nil]
  /\ num' = [num EXCEPT ![sp[t]] = Nil]
  /\ AfterDestroy(t)
  /\ UNCHANGED <<content, tokenVars, state, persistent, searching, callVars, h, found>>

-----------------------------------------------------------------------------
(* The loaders by reference, once the old key is gone. *)

\* pk11_load_privkey: the session caches the token object itself and becomes
\* persistent; the reference is counted without taking the find lock.
AttachPriv(t) ==
  /\ pc[t] = "attach" /\ op[t] = "refpriv"
  /\ LET s == sp[t]  p == h[t] IN
       /\ key' = [key EXCEPT ![s]["priv"] = p]
       /\ persistent' = [persistent EXCEPT ![s] = TRUE]
       /\ \/ \E r \in FreeAddresses :
               /\ ptr' = [ptr EXCEPT ![s]["priv"] = r]
               /\ num' = [num EXCEPT ![s] = p]
               /\ ref' = ActiveAdd(p)
               /\ content' = [content EXCEPT ![r] = [pair |-> p, d |-> FALSE, own |-> "shared"]]
               /\ rsa' = [rsa EXCEPT ![t] = r]
               /\ Goto(t, "return")
               /\ UNCHANGED <<state, sp, op>>
          \/ /\ "load" \in Faults \/ FreeAddresses = {}
             /\ ref' \in {ref, ActiveAdd(p)}
             /\ LoseSession(t)
             /\ UNCHANGED <<ptr, num, content>>
  /\ UNCHANGED <<obj, lock, searching, locals>>

\* pk11_load_pubkey: reads 'n' and 'e' and goes on to make a session object.
\* The token object's handle is only in opdata_rsa_pub_key until that
\* replaces it; it is left out here.
AttachPub(t) ==
  /\ pc[t] = "attach" /\ op[t] = "refpub"
  /\ \/ \E r \in FreeAddresses :
          /\ ptr' = [ptr EXCEPT ![sp[t]]["pub"] = r]
          /\ content' = [content EXCEPT ![r] = [pair |-> h[t], d |-> FALSE, own |-> "shared"]]
          /\ rsa' = [rsa EXCEPT ![t] = r]
          /\ Goto(t, "lookup")
          /\ UNCHANGED <<state, sp, op>>
     \/ /\ "load" \in Faults \/ FreeAddresses = {}
        /\ LoseSession(t)
        /\ UNCHANGED <<ptr, content>>
  /\ UNCHANGED <<tokenVars, lock, key, num, persistent, searching, locals>>

-----------------------------------------------------------------------------
(* pk11_get_public_rsa_key and pk11_get_private_rsa_key. *)

\* Encryption, signing and so on reuse a cached handle.
UseCached(t) ==
  /\ pc[t] = "lookup" /\ op[t] \in {"pubop", "privop"}
  /\ key[sp[t]][ClassOf(op[t])] # Nil
  /\ Goto(t, "use")
  /\ UNCHANGED <<content, tokenVars, lock, sessVars, callVars, locals>>

NeedKey(t) ==
  /\ pc[t] = "lookup"
  /\ op[t] \in {"pubop", "privop"} => key[sp[t]][ClassOf(op[t])] = Nil

FindLock(t) ==
  /\ NeedKey(t)
  /\ CanLock
  /\ lock' = t
  /\ h' = [h EXCEPT ![t] = Nil]
  /\ Goto(t, "find")
  /\ UNCHANGED <<content, tokenVars, sessVars, callVars, cls, found>>

\* C_FindObjectsInit, C_FindObjects, C_FindObjectsFinal.  The error path of
\* the middle one leaves the search open, that of the last keeps the handle.
Find(t) ==
  /\ pc[t] = "find"
  /\ LET s == sp[t]
         m == Matches(ClassOf(op[t]), content[rsa[t]]) IN
       \/ /\ searching[s] \/ "init" \in Faults
          /\ Goto(t, "unlock") /\ UNCHANGED <<searching, h, found>>
       \/ /\ ~searching[s] /\ "find" \in Faults
          /\ searching' = [searching EXCEPT ![s] = TRUE]
          /\ Goto(t, "unlock") /\ UNCHANGED <<h, found>>
       \/ /\ ~searching[s] /\ "final" \in Faults
          /\ IF m = {} THEN UNCHANGED h ELSE \E x \in m : h' = [h EXCEPT ![t] = x]
          /\ Goto(t, "unlock") /\ UNCHANGED <<searching, found>>
       \/ /\ ~searching[s] /\ m # {}
          /\ \E x \in m : h' = [h EXCEPT ![t] = x]
          /\ found' = [found EXCEPT ![t] = TRUE]
          /\ Goto(t, "hold") /\ UNCHANGED searching
       \/ /\ ~searching[s] /\ m = {}
          /\ found' = [found EXCEPT ![t] = FALSE]
          /\ Goto(t, IF ClassOf(op[t]) = "priv" /\ ~content[rsa[t]].d
                       THEN "unlock" ELSE "create")
          /\ UNCHANGED <<searching, h>>
  /\ UNCHANGED <<content, tokenVars, lock, state, key, ptr, num, persistent, callVars, cls>>

\* C_CreateObject; the token may hand out a handle it used before.
Create(t) ==
  /\ pc[t] = "create"
  /\ \/ \E x \in {y \in SHandles : obj[y] = Nil} :
          /\ obj' = [obj EXCEPT ![x] =
                       [class |-> ClassOf(op[t]), pair |-> content[rsa[t]].pair]]
          /\ h' = [h EXCEPT ![t] = x]
          /\ Goto(t, "hold")
     \/ /\ "create" \in Faults \/ \A y \in SHandles : obj[y] # Nil
        /\ Goto(t, "unlock")
        /\ UNCHANGED <<obj, h>>
  /\ UNCHANGED <<content, ref, lock, sessVars, callVars, cls, found>>

\* BN_dup of the components, KEY_HANDLE_REFHOLD, the RSA pointer.
Hold(t) ==
  /\ pc[t] = "hold"
  /\ num' = [num EXCEPT ![sp[t]] = content[rsa[t]].pair]
  /\ ref' = ActiveAdd(h[t])
  /\ ptr' = [ptr EXCEPT ![sp[t]][ClassOf(op[t])] = rsa[t]]
  /\ Goto(t, "unlock")
  /\ UNCHANGED <<content, obj, lock, state, key, persistent, searching, callVars, locals>>

\* The objects once a rollback has destroyed what this call created.
WithoutCreated(t) == IF found[t] THEN obj ELSE [obj EXCEPT ![h[t]] = Nil]

\* The rollback of a failed BN_dup or of a failed pk11_active_add: only an
\* object this call created is destroyed again.  How far the copies got
\* decides what is left in the session.
Rollback(t) ==
  /\ pc[t] = "hold" /\ "dup" \in Faults
  /\ \E n \in {Nil, content[rsa[t]].pair} \cup (IF ClassOf(op[t]) = "priv" THEN {num[sp[t]]} ELSE {}) :
       num' = [num EXCEPT ![sp[t]] = n]
  /\ \/ obj' = WithoutCreated(t)
     \/ "destroy" \in Faults /\ UNCHANGED obj
  /\ h' = [h EXCEPT ![t] = Nil]
  /\ Goto(t, "unlock")
  /\ UNCHANGED <<content, ref, lock, state, key, ptr, persistent, searching, callVars, cls, found>>

\* What the callers do with the result, in the session and next.
StoreKey(t, x) ==
  /\ key' = [key EXCEPT ![sp[t]][ClassOf(op[t])] = x]
  /\ h' = [h EXCEPT ![t] = Nil]
  /\ found' = [found EXCEPT ![t] = FALSE]
  /\ IF op[t] \in {"filepriv", "refpub"} /\ x = Nil
       THEN LoseSession(t) /\ content' = [content EXCEPT ![rsa[t]] = Nil]
       ELSE /\ Goto(t, IF op[t] \in {"pubop", "privop"} /\ x # Nil THEN "use" ELSE "return")
            /\ content' = IF op[t] = "filepub" /\ x = Nil
                            THEN [content EXCEPT ![rsa[t]].own = "leaked"] ELSE content
            /\ UNCHANGED <<state, callVars>>
  /\ UNCHANGED <<tokenVars, ptr, num, persistent, searching, cls>>

GetUnlockBug(t) ==
  /\ pc[t] = "unlock"
  /\ lock' = IF h[t] = Nil THEN lock ELSE Nil
  /\ StoreKey(t, h[t])

GetUnlock(t) ==
  /\ pc[t] = "unlock"
  /\ lock' = Nil
  /\ StoreKey(t, h[t])

\* malloc_err: no memory for the template, before the lock is taken.
TemplateFails(t) ==
  /\ NeedKey(t) /\ "malloc" \in Faults
  /\ StoreKey(t, Nil)
  /\ UNCHANGED lock

-----------------------------------------------------------------------------
(* C_SignInit and C_Sign, or their like, and pk11_return_session. *)

Use(t) ==
  /\ pc[t] = "use"
  /\ Goto(t, "return")
  /\ UNCHANGED <<content, tokenVars, lock, sessVars, callVars, locals>>

ReturnSession(t) ==
  /\ pc[t] = "return"
  /\ state' = [state EXCEPT ![sp[t]] = "free"]
  /\ sp' = [sp EXCEPT ![t] = Nil]
  /\ rsa' = [rsa EXCEPT ![t] = Nil]
  /\ Goto(t, "idle")
  /\ UNCHANGED <<content, tokenVars, lock, key, ptr, num, persistent, searching, op, locals>>

-----------------------------------------------------------------------------

\* A step of a call in progress.
Step(t) ==
  \/ ProcessUri(t) \/ FindOneObject(t)
  \/ Check(t) \/ DestroySkip(t) \/ DestroyLock(t) \/ DropReference(t)
  \/ DestroyObject(t) \/ DestroyClear(t)
  \/ AttachPriv(t) \/ AttachPub(t)
  \/ UseCached(t) \/ FindLock(t) \/ Find(t) \/ Create(t) \/ Hold(t) \/ Rollback(t)
  \/ GetUnlock(t) \/ TemplateFails(t)
  \/ Use(t) \/ ReturnSession(t)

Call(t) ==
  \E s \in Sessions :
    \/ \E o \in Ops, r \in Rsas : CallKeyOp(t, o, r, s)
    \/ \E o \in Ops, r \in Rsas, p \in Pairs : CallLoadFile(t, o, r, p, s)
    \/ \E o \in Ops : CallLoadRef(t, o, s)

Next ==
  \/ \E t \in Threads : Call(t) \/ Step(t)
  \/ \E r \in Rsas, p \in Pairs, d \in BOOLEAN : NewRsa(r, p, d)
  \/ \E r \in Rsas : FreeRsa(r)

Spec == Init /\ [][Next]_vars

-----------------------------------------------------------------------------
(* Correctness. *)

\* The handle a session holds a counted reference to, for each class.  It
\* is the cached one, except inside the find lock: between pk11_active_delete
\* and clearing the field, and between counting and storing a new handle.
Slots == Sessions \X Class
Held(s, c) ==
  IF lock # Nil /\ sp[lock] = s /\ pc[lock] = "unlock" /\ ClassOf(op[lock]) = c
    THEN h[lock]
    ELSE IF lock # Nil /\ sp[lock] = s /\ pc[lock] \in {"destroyobj", "clear"} /\ cls[lock] = c
           THEN Nil ELSE key[s][c]
HeldMap == [q \in Slots |-> Held(q[1], q[2])]
Holders(x) == {q \in Slots : HeldMap[q] = x}

\* The active list counts the references exactly (comment at active_list in
\* e_pk11.c: it lists the handles referenced by at least one PK11_SESSION).
RefsExact == \A x \in Handles : ref[x] = Cardinality(Holders(x))

\* The object behind a handle in use is the right one: while a thread is
\* between C_SignInit and C_Sign its handle names a live object of the right
\* class, made from the key in the RSA structure it was called with.
UsesRightKey ==
  \A t \in Threads : pc[t] = "use" =>
    ObjectAt(key[sp[t]][ClassOf(op[t])]) =
      [class |-> ClassOf(op[t]), pair |-> content[rsa[t]].pair]

\* No handle outlives its object: whatever a usable session holds is still
\* an object of that class in the token.
NoDanglingHandle ==
  \A s \in Sessions, c \in Class :
    state[s] # "lost" /\ Held(s, c) # Nil =>
      ObjectAt(Held(s, c)) # Nil /\ ObjectAt(Held(s, c)).class = c

\* Find-or-create is atomic under the find lock: two threads never create
\* the same key twice.
NoDuplicateObjects ==
  \A x, y \in SHandles : obj[x] # Nil /\ obj[x] = obj[y] => x = y

\* An object nobody references is destroyed: with the lock free, every
\* session object in the token has an entry in the active list.
NoOrphan == lock = Nil => \A x \in SHandles : obj[x] # Nil => ref[x] > 0

\* The sessions' handles and the token's objects behave as the reference
\* counted store of ObjectStore: nothing is destroyed under a session that
\* holds it, nothing is held that is not there.
Store == INSTANCE ObjectStore WITH
  Permanent <- TokenPairs,
  live <- TokenPairs \cup {x \in SHandles : obj[x] # Nil},
  holds <- HeldMap
StoreSpec == Store!Spec

\* Whoever takes the find lock gives it back, on every path.
LockReleased == lock # Nil ~> lock = Nil
=============================================================================
