------------------------------ MODULE Pk11DsaDh ------------------------------
(***************************************************************************)
(* DSA and DH keys of the PKCS#11 engine, and its random numbers           *)
(* (engines/pkcs11/e_pk11_pub.c and e_pk11.c of openssl-1.0.1).            *)
(*                                                                         *)
(* A DSA session caches the handle of a public and of a private key        *)
(* object, a DH session that of a private one, each with the address and   *)
(* the number of the key structure it was made for.  The objects are       *)
(* shared by all sessions: the active list counts who caches a handle.     *)
(* Unlike RSA every use of the list and of the token's search is one hold  *)
(* of the find lock of the type, and is one step here.  DH also makes      *)
(* objects that live for one call.  C_FindObjectsFinal and C_DestroyObject *)
(* are taken to succeed (Pk11Rsa has what comes of their failures).        *)
(***************************************************************************)
EXTENDS Integers, FiniteSets

CONSTANTS
  Threads,   \* application threads
  Sessions,  \* PK11_SESSION structures (bound: so many can be allocated)
  Keys,      \* addresses the application's DSA and DH structures may have
  Numbers,   \* values of pub_key and priv_key: the two of a pair go together
  Handles,   \* object handles (bound on the objects alive)
  Ops,       \* entry points in use, a subset of AllOps
  Faults,    \* calls that may fail, a subset of AllFaults
  Nil

AllOps == {"sign", "verify", "compute", "generate", "rand"}
AllFaults == {"search", "create", "dup", "malloc", "use", "read"}
Kinds == {"pub", "priv", "dh"}
Type == [sign |-> "dsa", verify |-> "dsa", compute |-> "dh", generate |-> "dh", rand |-> "rand"]
KindOf == [sign |-> "priv", verify |-> "pub", compute |-> "dh", generate |-> Nil, rand |-> Nil]

\* Nil stands for nothing else.
KeysAssumption ==
  /\ Ops \subseteq AllOps /\ Faults \subseteq AllFaults
  /\ Nil # {} /\ Nil \notin Sessions /\ Nil \notin Keys /\ Nil \notin Numbers
  /\ Nil \notin Handles /\ Nil \notin Kinds
  /\ \A o \in [kind : Kinds \cup {"temp"}, n : Numbers] : o # Nil

VARIABLES
  content,    \* [Keys -> the number in the structure, or Nil: no structure]
  obj,        \* [Handles -> object of the token, or Nil]
  ref,        \* active_list: [Handles -> refcnt, 0 without an entry]
  cache,      \* [Sessions -> its list: "unborn", or the type it was made for]
  held,       \* the sessions taken from their list
  key,        \* opdata_dsa_pub_key, opdata_dsa_priv_key, opdata_dh_key
  ptr,        \* opdata_dsa_pub, opdata_dsa_priv, opdata_dh
  num,        \* opdata_dsa_pub_num, opdata_dsa_priv_num, opdata_dh_priv_num
  searching,  \* the sessions with a search operation left active
  finishing,  \* Nil, or the sessions pk11_finish has still to visit
  pc, op, dsa, sp, h,  \* the thread's step, entry point, structure, session and handle
  temps,      \* the objects the call made for itself
  answer      \* what the thread's call is going to return

tokenVars == <<obj, ref>>
sessVars == <<cache, held, key, ptr, num, searching>>
callVars == <<pc, op, dsa, sp, h, temps, answer>>
vars == <<content, tokenVars, sessVars, finishing, callVars>>

None == [c \in Kinds |-> Nil]
Idle == [t \in Threads |-> "idle"]

TypeOK ==
  /\ content \in [Keys -> Numbers \cup {Nil}]
  /\ obj \in [Handles -> [kind : Kinds \cup {"temp"}, n : Numbers] \cup {Nil}]
  /\ ref \in [Handles -> 0..Cardinality(Sessions)]
  /\ cache \in [Sessions -> {"unborn", "dsa", "dh", "rand"}]
  /\ held \subseteq Sessions /\ searching \subseteq Sessions
  /\ key \in [Sessions -> [Kinds -> Handles \cup {Nil}]]
  /\ ptr \in [Sessions -> [Kinds -> Keys \cup {Nil}]]
  /\ num \in [Sessions -> [Kinds -> Numbers \cup {Nil}]]
  /\ finishing = Nil \/ finishing \subseteq Sessions
  /\ pc \in [Threads -> {"idle", "check", "get", "use", "read", "clean", "return"}]
  /\ op \in [Threads -> AllOps]
  /\ dsa \in [Threads -> Keys \cup {Nil}]
  /\ sp \in [Threads -> Sessions \cup {Nil}]
  /\ h \in [Threads -> Handles \cup {Nil}]
  /\ temps \in [Threads -> SUBSET Handles]
  /\ answer \in [Threads -> {"none", "good", "failed", "nokey"}]

Init ==
  /\ content = [k \in Keys |-> Nil]
  /\ obj = [x \in Handles |-> Nil]
  /\ ref = [x \in Handles |-> 0]
  /\ cache = [s \in Sessions |-> "unborn"]
  /\ held = {} /\ searching = {} /\ finishing = Nil
  /\ key = [s \in Sessions |-> None] /\ ptr = key /\ num = key
  /\ pc = Idle
  /\ op = [t \in Threads |-> "rand"]
  /\ dsa = [t \in Threads |-> Nil] /\ sp = dsa /\ h = dsa
  /\ temps = [t \in Threads |-> {}]
  /\ answer = [t \in Threads |-> "none"]

Goto(t, step) == pc' = [pc EXCEPT ![t] = step]
Answer(t, a) == answer' = [answer EXCEPT ![t] = a]
Fails(f) == f \in Faults
Free == {x \in Handles : obj[x] = Nil}

-----------------------------------------------------------------------------
(* The application. *)

\* DSA_generate_key and DH_new: the application fills a structure.  It does
\* not know a number the token is generating.
NewKey(k, n) ==
  /\ content[k] = Nil /\ finishing = Nil
  /\ \A t \in Threads, x \in Handles : x \in temps[t] => obj[x].n # n
  /\ content' = [content EXCEPT ![k] = n]
  /\ UNCHANGED <<tokenVars, sessVars, finishing, callVars>>

\* DSA_free, DH_free: the engine is not told, its sessions keep the address.
FreeKey(k) ==
  /\ content[k] # Nil /\ \A t \in Threads : dsa[t] # k
  /\ content' = [content EXCEPT ![k] = Nil]
  /\ UNCHANGED <<tokenVars, sessVars, finishing, callVars>>

-----------------------------------------------------------------------------
(* Entry points. *)

\* pk11_get_session: a session of the type, or a new one if none is free.
GetSession(t, s, type) ==
  /\ s \notin held
  /\ \/ cache[s] = type
     \/ cache[s] = "unborn" /\ \A q \in Sessions : cache[q] = type => q \in held
  /\ cache' = [cache EXCEPT ![s] = type]
  /\ held' = held \cup {s}
  /\ sp' = [sp EXCEPT ![t] = s]

\* pk11_dsa_do_sign, pk11_dsa_do_verify and pk11_DH_compute_key with a key.
\* Generating writes the structure: nobody else uses it then.
Call(t, o, k, s) ==
  /\ pc[t] = "idle" /\ finishing = Nil /\ o \in Ops \ {"rand"} /\ content[k] # Nil
  /\ \A u \in Threads : dsa[u] = k => "generate" \notin {o, op[u]}
  /\ GetSession(t, s, Type[o])
  /\ op' = [op EXCEPT ![t] = o]
  /\ dsa' = [dsa EXCEPT ![t] = k]
  /\ Goto(t, IF o = "generate" THEN "use" ELSE "check")
  /\ Answer(t, "none")
  /\ UNCHANGED <<content, tokenVars, key, ptr, num, searching, finishing, h, temps>>

\* pk11_rand_add, pk11_rand_seed, pk11_rand_bytes: no key, a session for one call.
pk11_rand_bytes(t, s) ==
  /\ pc[t] = "idle" /\ finishing = Nil /\ "rand" \in Ops
  /\ GetSession(t, s, "rand")
  /\ op' = [op EXCEPT ![t] = "rand"]
  /\ dsa' = [dsa EXCEPT ![t] = Nil]
  /\ Goto(t, "return")
  /\ \E a \in {"good"} \cup (IF Fails("use") THEN {"failed"} ELSE {}) : Answer(t, a)
  /\ UNCHANGED <<content, tokenVars, key, ptr, num, searching, finishing, h, temps>>

\* TRY_OBJ_DESTROY: one reference less, and no object after the last one.
\* Without an entry in the list nothing happens.
DestroyLast(x) == ref[x] = 1
TryDestroy(x) ==
  /\ ref' = [ref EXCEPT ![x] = IF @ = 0 THEN 0 ELSE @ - 1]
  /\ obj' = IF DestroyLast(x) THEN [obj EXCEPT ![x] = Nil] ELSE obj

\* pk11_destroy_dsa_object_pub, _priv and pk11_destroy_dh_object.
DestroyObject(s, c) ==
  /\ TryDestroy(key[s][c])
  /\ key' = [key EXCEPT ![s][c] = Nil]
  /\ ptr' = [ptr EXCEPT ![s][c] = Nil]
  /\ num' = [num EXCEPT ![s][c] = Nil]

SameKeyBug(s, c, k) == ptr[s][c] = k
\* Made for this structure, which still has the same number.
SameKey(s, c, k) == ptr[s][c] = k /\ num[s][c] = content[k]

\* check_new_dsa_key_pub, check_new_dsa_key_priv, check_new_dh_key.
CheckNewKey(t) ==
  LET s == sp[t]  c == KindOf[op[t]] IN
  /\ pc[t] = "check"
  /\ IF SameKey(s, c, dsa[t]) \/ key[s][c] = Nil
       THEN UNCHANGED <<tokenVars, key, ptr, num>>
       ELSE DestroyObject(s, c)
  /\ Goto(t, "get")
  /\ UNCHANGED <<content, cache, held, searching, finishing, op, dsa, sp, h, temps, answer>>

-----------------------------------------------------------------------------
(* pk11_get_public_dsa_key, pk11_get_private_dsa_key, pk11_get_dh_key.      *)

Matches(c, n) == {x \in Handles : obj[x] = [kind |-> c, n |-> n]}

\* The key's handle goes to the session and to the call.
Cached(t, x) ==
  /\ key' = [key EXCEPT ![sp[t]][KindOf[op[t]]] = x]
  /\ h' = [h EXCEPT ![t] = x]

HasHandle(t) ==
  /\ pc[t] = "get" /\ key[sp[t]][KindOf[op[t]]] # Nil
  /\ h' = [h EXCEPT ![t] = key[sp[t]][KindOf[op[t]]]]
  /\ Goto(t, "use")
  /\ UNCHANGED <<content, tokenVars, sessVars, finishing, op, dsa, sp, temps, answer>>

NeedsKey(t) == pc[t] = "get" /\ key[sp[t]][KindOf[op[t]]] = Nil

\* An existing object is shared, otherwise one is created; either is counted.
NewHandles(c, n) == IF Matches(c, n) # {} THEN {} ELSE Free

\* pk11_active_add.
CountedBug(x) == [ref EXCEPT ![x] = 1]
Counted(x) == [ref EXCEPT ![x] = @ + 1]

\* Both C_FindObjects calls and C_CreateObject succeed, under the find lock.
FindOrCreate(t) ==
  LET s == sp[t]  c == KindOf[op[t]]  n == content[dsa[t]] IN
  /\ NeedsKey(t) /\ s \notin searching
  /\ \E x \in NewHandles(c, n) \cup Matches(c, n) :
       /\ obj' = [obj EXCEPT ![x] = [kind |-> c, n |-> n]]
       /\ ref' = Counted(x)
       /\ Cached(t, x)
  /\ ptr' = [ptr EXCEPT ![s][c] = dsa[t]]
  /\ num' = [num EXCEPT ![s][c] = n]
  /\ Goto(t, "use")
  /\ UNCHANGED <<content, cache, held, searching, finishing, op, dsa, sp, temps, answer>>

\* No template memory, no search, no object, no entry in the list: there is
\* no handle, and a rollback leaves only objects that were there before.  The
\* number was copied before the entry was refused.  A failed C_FindObjects
\* does not end the search.
NoHandle(t) ==
  LET s == sp[t]  c == KindOf[op[t]] IN
  /\ NeedsKey(t)
  /\ \/ s \in searching \/ Fails("dup") \/ (Fails("create") /\ Matches(c, content[dsa[t]]) = {})
     \/ Fails("search") \/ Fails("malloc")
  /\ searching' \in {searching} \cup (IF Fails("search") THEN {searching \cup {s}} ELSE {})
  /\ num' \in {num} \cup (IF Fails("malloc") /\ s \notin searching
                               /\ \A x \in Matches(c, content[dsa[t]]) : ref[x] = 0
                            THEN {[num EXCEPT ![s][c] = content[dsa[t]]]} ELSE {})
  /\ Cached(t, Nil)
  /\ Goto(t, "use")
  /\ UNCHANGED <<content, tokenVars, cache, held, ptr, finishing, op, dsa, sp, temps, answer>>

-----------------------------------------------------------------------------
(* The operations. *)

\* C_SignInit and C_Sign.  Without a handle the signature is made of what is
\* in the buffer.
Sign(t) ==
  /\ pc[t] = "use" /\ op[t] = "sign"
  /\ \/ h[t] = Nil /\ Answer(t, "nokey")
     \/ h[t] # Nil /\ Answer(t, "good")
     \/ Fails("use") /\ Answer(t, "failed")
  /\ Goto(t, "return")
  /\ UNCHANGED <<content, tokenVars, sessVars, finishing, op, dsa, sp, h, temps>>

\* C_VerifyInit and C_Verify.  Without a handle neither is called and the
\* verification succeeds.
Verify(t) ==
  /\ pc[t] = "use" /\ op[t] = "verify"
  /\ \/ h[t] = Nil /\ Answer(t, "nokey")
     \/ h[t] # Nil /\ Answer(t, "good")
     \/ h[t] # Nil /\ Fails("use") /\ Answer(t, "failed")
  /\ Goto(t, "return")
  /\ UNCHANGED <<content, tokenVars, sessVars, finishing, op, dsa, sp, h, temps>>

\* C_DeriveKey makes an object with the shared secret.
Derive(t) ==
  /\ pc[t] = "use" /\ op[t] = "compute" /\ h[t] # Nil
  /\ \E x \in Free :
       /\ obj' = [obj EXCEPT ![x] = [kind |-> "temp", n |-> content[dsa[t]]]]
       /\ temps' = [temps EXCEPT ![t] = {x}]
  /\ Goto(t, "read")
  /\ UNCHANGED <<content, ref, sessVars, finishing, op, dsa, sp, h, answer>>

\* C_GenerateKeyPair makes a private key like any other: the template of a
\* search fits it.  The number is new.
Generate(t) ==
  /\ pc[t] = "use" /\ op[t] = "generate"
  /\ \E x, y \in Free, n \in Numbers :
       /\ x # y /\ \A k \in Keys : content[k] # n
       /\ \A z \in Handles : obj[z] # Nil => obj[z].n # n
       /\ obj' = [obj EXCEPT ![x] = [kind |-> "temp", n |-> n], ![y] = [kind |-> "dh", n |-> n]]
       /\ temps' = [temps EXCEPT ![t] = {x, y}]
  /\ Goto(t, "read")
  /\ UNCHANGED <<content, ref, sessVars, finishing, op, dsa, sp, h, answer>>

UseFails(t) ==
  /\ pc[t] = "use" /\ Type[op[t]] = "dh"
  /\ (op[t] = "compute" /\ h[t] = Nil) \/ Fails("use")
  /\ Answer(t, "failed")
  /\ Goto(t, "clean")
  /\ UNCHANGED <<content, tokenVars, sessVars, finishing, op, dsa, sp, h, temps>>

\* The values are read from the objects; a generated pair goes into the
\* structure, the public number before the private one is read.
ReadValue(t) ==
  /\ pc[t] = "read"
  /\ Answer(t, "good")
  /\ content' = IF op[t] = "generate"
                  THEN [content EXCEPT ![dsa[t]] = (CHOOSE o \in {obj[x] : x \in temps[t]} : TRUE).n]
                  ELSE content
  /\ Goto(t, "clean")
  /\ UNCHANGED <<tokenVars, sessVars, finishing, op, dsa, sp, h, temps>>

ReadFails(t) ==
  /\ pc[t] = "read" /\ Fails("read")
  /\ Answer(t, "failed")
  /\ Goto(t, "clean")
  /\ UNCHANGED <<content, tokenVars, sessVars, finishing, op, dsa, sp, h, temps>>

WithoutBug(temp) == IF Cardinality(temp) = 2 THEN {CHOOSE x \in temp : obj[x].kind = "temp"} ELSE temp
\* What the end of the call destroys, whatever happened before.
Without(temp) == temp

CleanUp(t) ==
  /\ pc[t] = "clean"
  /\ obj' = [x \in Handles |-> IF x \in Without(temps[t]) THEN Nil ELSE obj[x]]
  /\ temps' = [temps EXCEPT ![t] = {}]
  /\ Goto(t, "return")
  /\ UNCHANGED <<content, ref, sessVars, finishing, op, dsa, sp, h, answer>>

\* pk11_return_session.
ReturnSession(t) ==
  /\ pc[t] = "return"
  /\ held' = held \ {sp[t]}
  /\ sp' = [sp EXCEPT ![t] = Nil]
  /\ h' = [h EXCEPT ![t] = Nil]
  /\ dsa' = [dsa EXCEPT ![t] = Nil]
  /\ Answer(t, "none")
  /\ Goto(t, "idle")
  /\ UNCHANGED <<content, tokenVars, cache, key, ptr, num, searching, finishing, op, temps>>

-----------------------------------------------------------------------------
(* pk11_finish, after the last call. *)

Finish ==
  /\ finishing = Nil /\ pc = Idle
  /\ \E s \in Sessions : cache[s] # "unborn"
  /\ finishing' = {s \in Sessions : cache[s] \in {"dsa", "dh"}}
  /\ UNCHANGED <<content, tokenVars, sessVars, callVars>>

\* pk11_destroy_dsa_key_objects(NULL): a public key that is missing, or that
\* another session still counts, leaves the private one of the session alone.
Visited(s) ==
  IF cache[s] = "dh" THEN {"dh"}
  ELSE IF key[s]["pub"] # Nil /\ ref[key[s]["pub"]] = 1 THEN {"pub", "priv"} ELSE {"pub"}

DestroyKeys(s) ==
  LET gone == {c \in Visited(s) : key[s][c] # Nil} IN
  /\ finishing # Nil /\ s \in finishing
  /\ finishing' = finishing \ {s}
  /\ ref' = [x \in Handles |-> ref[x] - Cardinality({c \in gone : key[s][c] = x /\ ref[x] > 0})]
  /\ obj' = [x \in Handles |-> IF ref[x] = 1 /\ \E c \in gone : key[s][c] = x THEN Nil ELSE obj[x]]
  /\ key' = [key EXCEPT ![s] = [c \in Kinds |-> IF c \in gone THEN Nil ELSE @[c]]]
  /\ ptr' = [ptr EXCEPT ![s] = [c \in Kinds |-> IF c \in gone THEN Nil ELSE @[c]]]
  /\ num' = [num EXCEPT ![s] = [c \in Kinds |-> IF c \in gone THEN Nil ELSE @[c]]]
  /\ UNCHANGED <<content, cache, held, searching, callVars>>

\* The sessions are closed and freed (pk11_free_nums), which ends every
\* object made by them, and the active lists are freed.
CloseSessions ==
  /\ finishing = {}
  /\ obj' = [x \in Handles |-> Nil]
  /\ ref' = [x \in Handles |-> 0]
  /\ cache' = [s \in Sessions |-> "unborn"]
  /\ key' = [s \in Sessions |-> None] /\ ptr' = key' /\ num' = key'
  /\ searching' = {} /\ finishing' = Nil
  /\ UNCHANGED <<content, held, callVars>>

-----------------------------------------------------------------------------
Next ==
  \/ \E k \in Keys : FreeKey(k) \/ \E n \in Numbers : NewKey(k, n)
  \/ \E t \in Threads, s \in Sessions :
       pk11_rand_bytes(t, s) \/ \E o \in Ops, k \in Keys : Call(t, o, k, s)
  \/ \E t \in Threads :
       \/ CheckNewKey(t) \/ HasHandle(t) \/ FindOrCreate(t) \/ NoHandle(t)
       \/ Sign(t) \/ Verify(t) \/ Derive(t) \/ Generate(t) \/ UseFails(t) \/ ReadValue(t) \/ ReadFails(t)
       \/ CleanUp(t) \/ ReturnSession(t)
  \/ Finish \/ CloseSessions \/ \E s \in Sessions : DestroyKeys(s)

Spec == Init /\ [][Next]_vars

-----------------------------------------------------------------------------
(* Properties. *)

\* The active list counts exactly the sessions that cache a handle: a count
\* too low destroys a key that is in use, one too high keeps it for ever.
RefsExact ==
  \A x \in Handles :
    ref[x] = Cardinality({q \in Sessions \X Kinds : key[q[1]][q[2]] = x})

\* A call uses an object of its own kind with the number the structure has,
\* whatever the structure's address was used for and whoever made the object.
UsesRightKey ==
  \A t \in Threads : pc[t] = "use" /\ h[t] # Nil =>
    obj[h[t]] = [kind |-> KindOf[op[t]], n |-> content[dsa[t]]]

\* Every object in the token is cached by a session, or was made by a call
\* that has yet to destroy it.
NoOrphan ==
  \A x \in Handles : obj[x] # Nil =>
    ref[x] > 0 \/ \E t \in Threads : x \in temps[t]

\* However many threads look for a key at once, the token gets one object for
\* it: the search and the creation are one hold of the find lock.
OneObject ==
  \A x, y \in Handles : x # y /\ obj[x] # Nil /\ ref[x] > 0 /\ ref[y] > 0 => obj[x] # obj[y]

\* A signature is made and a verification succeeds only with a key.  In no
\* run: pk11_dsa_do_sign breaks it, as the README tells.
AnswersReal == \A t \in Threads : answer[t] # "nokey"
=============================================================================
