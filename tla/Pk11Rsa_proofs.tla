---------------------------- MODULE Pk11Rsa_proofs ----------------------------
(***************************************************************************)
(* Theorems about Pk11Rsa, for every value of its constants.               *)
(*                                                                         *)
(* TypeCorrect rests on CallInv: which of a thread's variables have a      *)
(* meaning at each of its steps, and which RSA structures are in use.      *)
(* What follows is about the find lock and the references it guards.       *)
(***************************************************************************)
EXTENDS Pk11Rsa, FiniteSetTheorems, TLAPS

KeyOps == {"pubop", "privop"}
Destroying == {"destroy", "delete", "destroyobj", "clear"}

\* The thread works on an RSA structure; the loaders by reference only
\* allocate theirs once the token's key is attached.
HasRsa(t) ==
  /\ pc[t] \notin {"idle", "uri", "findone", "attach"}
  /\ ~(op[t] \in RefOps /\ pc[t] \in Destroying)

CallInv ==
  /\ TypeOK
  /\ \A t \in Threads :
       /\ HasRsa(t) => rsa[t] \in Rsas /\ content[rsa[t]] # Nil
       /\ ~HasRsa(t) => rsa[t] = Nil
       /\ pc[t] \in {"uri", "findone", "attach"} => op[t] \in RefOps
       /\ pc[t] = "check" => op[t] \notin RefOps
       /\ op[t] \in RefOps /\ pc[t] \in Destroying \cup {"attach"} => h[t] \in TokenPairs
  /\ \A t, u \in Threads :
       t # u /\ rsa[t] # Nil /\ rsa[t] = rsa[u] => op[t] \in KeyOps /\ op[u] \in KeyOps

\* ClassOf and Other only name key classes.
LEMMA ClassTyping ==
  /\ \A o \in AllOps : ClassOf(o) \in Class
  /\ \A c \in Class : Other(c) \in Class /\ Other(c) # c
BY DEF ClassOf, Other, Class

\* A search only finds handles.
LEMMA MatchesTyping == ASSUME TypeOK, NEW c \in Class, NEW k \in Content
                       PROVE  Matches(c, k) \subseteq Handles
BY RsaAssumption DEF Matches, Handles

\* The steps of the application and the calls keep CallInv.
LEMMA CallsInv ==
  ASSUME CallInv, NEW t \in Threads, Call(t)
  PROVE  CallInv'
<1>1. PICK s \in Sessions :
        \/ \E o \in Ops, r \in Rsas : CallKeyOp(t, o, r, s)
        \/ \E o \in Ops, r \in Rsas, p \in Pairs : CallLoadFile(t, o, r, p, s)
        \/ \E o \in Ops : CallLoadRef(t, o, s)
  BY DEF Call
<1>2. ASSUME NEW o \in Ops, NEW r \in Rsas, CallKeyOp(t, o, r, s) PROVE CallInv'
  <2> USE <1>2, RsaAssumption DEF CallInv
  <2>1. TypeOK'
    BY DEF CallKeyOp, GetSession, Goto, Steps, AllOps, tokenVars, locals, TypeOK
  <2>2. QED
    BY <2>1 DEF CallKeyOp, Goto, HasRsa, TypeOK, KeyOps, RefOps, Destroying, tokenVars, locals, AllOps
<1>3. ASSUME NEW o \in Ops, NEW r \in Rsas, NEW p \in Pairs, CallLoadFile(t, o, r, p, s) PROVE CallInv'
  <2> USE <1>3, RsaAssumption DEF CallInv
  <2>1. TypeOK'
    BY DEF CallLoadFile, GetSession, Goto, Steps, AllOps, Content, tokenVars, locals, TypeOK
  <2>2. r \notin {rsa[u] : u \in Threads}
    BY DEF CallLoadFile, TypeOK, HasRsa
  <2>3. /\ rsa' = [rsa EXCEPT ![t] = r] /\ op' = [op EXCEPT ![t] = o] /\ pc' = [pc EXCEPT ![t] = "check"]
        /\ h' = h /\ o \notin RefOps
    BY DEF CallLoadFile, Goto, TypeOK, FileOps, RefOps, locals
  <2>4. content'[r] # Nil /\ \A q \in Rsas : q # r => content'[q] = content[q]
    <3>1. [pair |-> p, d |-> (o = "filepriv"), own |-> "shared"] \in Content
      BY DEF Content
    <3>2. QED BY <3>1 DEF CallLoadFile, TypeOK
  <2>5. QED
    BY <2>1, <2>2, <2>3, <2>4 DEF HasRsa, TypeOK, Destroying
<1>4. ASSUME NEW o \in Ops, CallLoadRef(t, o, s) PROVE CallInv'
  <2> USE <1>4, RsaAssumption DEF CallInv
  <2>1. TypeOK'
    BY DEF CallLoadRef, GetSession, Goto, Steps, AllOps, tokenVars, locals, TypeOK
  <2>2. QED
    BY <2>1 DEF CallLoadRef, Goto, HasRsa, TypeOK, KeyOps, RefOps, Destroying, tokenVars, locals, AllOps
<1>5. QED BY <1>1, <1>2, <1>3, <1>4

\* Giving up the session keeps the types of what it changes.
LEMMA LoseTyping ==
  ASSUME TypeOK, NEW t \in Threads, LoseSession(t)
  PROVE  /\ state' \in [Sessions -> {"unborn", "free", "held", "lost"}]
         /\ pc' \in [Threads -> Steps]
         /\ op' \in [Threads -> AllOps]
         /\ rsa' \in [Threads -> Rsas \cup {Nil}]
         /\ sp' \in [Threads -> Sessions \cup {Nil}]
BY DEF TypeOK, LoseSession, Goto, Steps

\* So does storing a key in the session, whatever happens to the lock.
LEMMA StoreTyping ==
  ASSUME TypeOK, NEW t \in Threads, NEW x \in Handles \cup {Nil}, StoreKey(t, x),
         rsa[t] \in Rsas, content[rsa[t]] \in Content,
         lock' \in Threads \cup {Nil}
  PROVE  TypeOK'
<1>1. key' \in [Sessions -> [Class -> Handles \cup {Nil}]]
  BY DEF TypeOK, StoreKey
<1>2. h' \in [Threads -> Handles \cup {Nil}] /\ found' \in [Threads -> BOOLEAN]
  BY DEF TypeOK, StoreKey
<1>3. /\ UNCHANGED <<obj, ref, ptr, num, persistent, searching, cls>>
  BY DEF StoreKey, tokenVars
<1>4. CASE op[t] \in {"filepriv", "refpub"} /\ x = Nil
  <2>1. LoseSession(t) /\ content' = [content EXCEPT ![rsa[t]] = Nil]
    BY <1>4 DEF StoreKey
  <2>2. content' \in [Rsas -> Content \cup {Nil}]
    BY <2>1 DEF TypeOK
  <2>3. QED BY <1>1, <1>2, <1>3, <2>1, <2>2, LoseTyping DEF TypeOK
<1>5. CASE ~(op[t] \in {"filepriv", "refpub"} /\ x = Nil)
  <2>1. /\ pc' \in [Threads -> Steps]
        /\ UNCHANGED <<state, op, rsa, sp>>
    BY <1>5 DEF StoreKey, Goto, Steps, TypeOK, callVars
  <2>2. content' \in [Rsas -> Content \cup {Nil}]
    <3>1. [content[rsa[t]] EXCEPT !.own = "leaked"] \in Content
      BY DEF Content
    <3>2. QED BY <1>5, <3>1 DEF StoreKey, TypeOK
  <2>3. QED BY <1>1, <1>2, <1>3, <2>1, <2>2 DEF TypeOK
<1>6. QED BY <1>4, <1>5

\* Storing the key, or giving up the session and the structure, keeps CallInv.
LEMMA StoreInv ==
  ASSUME CallInv, NEW t \in Threads, NEW x \in Handles \cup {Nil}, StoreKey(t, x),
         pc[t] \in {"unlock", "lookup"}, rsa[t] \in Rsas, content[rsa[t]] \in Content,
         lock' \in Threads \cup {Nil}
  PROVE  CallInv'
<1>a. TypeOK
  BY DEF CallInv
<1>b. \A u \in Threads : u # t /\ rsa[u] # Nil /\ rsa[u] = rsa[t] => op[t] \in KeyOps
  BY DEF CallInv
<1>1. TypeOK'
  BY <1>a, StoreTyping
<1>2. h' = [h EXCEPT ![t] = Nil]
  BY DEF StoreKey
<1>3. CASE op[t] \in {"filepriv", "refpub"} /\ x = Nil
  <2>1. /\ pc' = [pc EXCEPT ![t] = "idle"] /\ rsa' = [rsa EXCEPT ![t] = Nil] /\ op' = op
        /\ content' = [content EXCEPT ![rsa[t]] = Nil]
    BY <1>3 DEF StoreKey, LoseSession, Goto
  <2>2. \A u \in Threads : u # t => rsa[u] # rsa[t]
    BY <1>3, <1>b, RsaAssumption DEF KeyOps
  <2>3. \A u \in Threads : u # t =>
          /\ HasRsa(u)' = HasRsa(u)
          /\ pc'[u] = pc[u] /\ h'[u] = h[u] /\ rsa'[u] = rsa[u] /\ op'[u] = op[u]
          /\ rsa[u] \in Rsas => content'[rsa[u]] = content[rsa[u]]
    BY <1>a, <1>2, <2>1, <2>2 DEF TypeOK, HasRsa
  <2>4. pc'[t] = "idle" /\ rsa'[t] = Nil /\ ~HasRsa(t)'
    BY <1>a, <2>1 DEF TypeOK, HasRsa
  <2>5. QED BY <1>1, <2>1, <2>3, <2>4 DEF CallInv, Destroying
<1>4. CASE ~(op[t] \in {"filepriv", "refpub"} /\ x = Nil)
  <2>1. /\ \E step \in {"use", "return"} : pc' = [pc EXCEPT ![t] = step]
        /\ UNCHANGED <<op, rsa>>
        /\ content' \in {content, [content EXCEPT ![rsa[t]].own = "leaked"]}
    BY <1>4 DEF StoreKey, Goto, callVars
  <2>2. \A r \in Rsas : content[r] # Nil => content'[r] # Nil
    <3>1. [content[rsa[t]] EXCEPT !.own = "leaked"] \in Content
      BY DEF Content
    <3>2. [content[rsa[t]] EXCEPT !.own = "leaked"] # Nil
      BY <3>1, RsaAssumption
    <3>3. CASE content' = content
      BY <3>3
    <3>4. CASE content' = [content EXCEPT ![rsa[t]] = [content[rsa[t]] EXCEPT !.own = "leaked"]]
      BY <3>2, <3>4, <1>a DEF TypeOK
    <3>5. QED BY <2>1, <3>3, <3>4
  <2>3. HasRsa(t)' /\ HasRsa(t)
    BY <1>a, <2>1 DEF TypeOK, HasRsa, Destroying
  <2>4. \A u \in Threads : u # t => HasRsa(u)' = HasRsa(u) /\ pc'[u] = pc[u] /\ h'[u] = h[u]
    BY <1>a, <1>2, <2>1 DEF TypeOK, HasRsa
  <2>5. pc'[t] \in {"use", "return"}
    BY <1>a, <2>1 DEF TypeOK
  <2>6. QED BY <1>1, <2>1, <2>2, <2>3, <2>4, <2>5 DEF CallInv, Destroying
<1>5. QED BY <1>3, <1>4

\* Taking a fresh RSA structure at the end of a load by reference keeps it.
LEMMA AttachInv ==
  ASSUME CallInv, TypeOK', NEW t \in Threads, NEW r \in FreeAddresses, NEW p \in Pairs,
         NEW step \in {"lookup", "return"}, pc[t] = "attach",
         content' = [content EXCEPT ![r] = [pair |-> p, d |-> FALSE, own |-> "shared"]],
         rsa' = [rsa EXCEPT ![t] = r],
         pc' = [pc EXCEPT ![t] = step],
         UNCHANGED <<op, h>>
  PROVE  CallInv'
<1>1. [pair |-> p, d |-> FALSE, own |-> "shared"] # Nil
  <2>1. [pair |-> p, d |-> FALSE, own |-> "shared"] \in Content
    BY DEF Content
  <2>2. QED BY <2>1, RsaAssumption
<1>2. \A q \in Rsas : content[q] # Nil => content'[q] # Nil
  BY <1>1 DEF CallInv, TypeOK
<1>3. r \in Rsas /\ \A u \in Threads : rsa[u] # r
  BY RsaAssumption DEF FreeAddresses, CallInv, TypeOK
<1>4. HasRsa(t)' /\ rsa'[t] \in Rsas /\ content'[rsa'[t]] # Nil
  BY <1>1, <1>3 DEF HasRsa, CallInv, TypeOK, Destroying
<1>5. \A u \in Threads : u # t =>
        HasRsa(u)' = HasRsa(u) /\ pc'[u] = pc[u] /\ rsa'[u] = rsa[u]
  BY DEF HasRsa, CallInv, TypeOK
<1>6. pc'[t] = step /\ rsa'[t] = r
  BY DEF CallInv, TypeOK
<1>7. QED BY <1>2, <1>3, <1>4, <1>5, <1>6 DEF CallInv, Destroying

\* Giving up a session before the RSA structure exists keeps it.
LEMMA LoseInv ==
  ASSUME CallInv, TypeOK', NEW t \in Threads, LoseSession(t), pc[t] \in {"uri", "findone", "attach"},
         UNCHANGED <<content, h>>
  PROVE  CallInv'
<1>1. pc' = [pc EXCEPT ![t] = "idle"] /\ rsa' = [rsa EXCEPT ![t] = Nil] /\ UNCHANGED op
  BY DEF LoseSession, Goto
<1>2. pc'[t] = "idle" /\ rsa'[t] = Nil /\ ~HasRsa(t)'
  BY <1>1 DEF CallInv, TypeOK, HasRsa
<1>3. \A u \in Threads : u # t =>
        HasRsa(u)' = HasRsa(u) /\ pc'[u] = pc[u] /\ rsa'[u] = rsa[u]
  BY <1>1 DEF HasRsa, CallInv, TypeOK
<1>4. QED BY <1>1, <1>2, <1>3 DEF CallInv, Destroying

\* So does choosing where to go once a cached key is gone.
LEMMA AfterTyping ==
  ASSUME TypeOK, NEW t \in Threads, AfterDestroy(t)
  PROVE  pc' \in [Threads -> Steps] /\ cls' \in [Threads -> Class]
<1>1. Other(cls[t]) \in Class
  BY ClassTyping DEF TypeOK
<1>2. QED BY <1>1, ZenonT(30) DEF AfterDestroy, Goto, Steps, TypeOK

\* Every step of a call keeps CallInv.
LEMMA StepInv ==
  ASSUME CallInv, NEW t \in Threads, Step(t)
  PROVE  CallInv'
<1>a. TypeOK
  BY DEF CallInv
<1>b. ClassOf(op[t]) \in Class
  BY <1>a, ClassTyping DEF TypeOK
<1>c. pc[t] \in {"lookup", "find", "create", "hold", "unlock"} =>
        rsa[t] \in Rsas /\ content[rsa[t]] \in Content /\ content[rsa[t]].pair \in Pairs
  <2>1. HasRsa(t) => rsa[t] \in Rsas /\ content[rsa[t]] \in Content
    BY DEF CallInv, TypeOK
  <2>2. QED BY <2>1 DEF HasRsa, Destroying, Content
<1>1. CASE ProcessUri(t)
  <2>1. TypeOK'
    <3>1. CASE Goto(t, "findone") /\ UNCHANGED <<state, callVars>>
      BY <1>1, <1>a, <3>1 DEF ProcessUri, Goto, Steps, TypeOK, tokenVars, sessVars, callVars, locals
    <3>2. CASE LoseSession(t)
      <4>1. UNCHANGED <<content, obj, ref, lock, key, ptr, num, persistent, searching, cls, h, found>>
        BY <1>1 DEF ProcessUri, tokenVars, locals
      <4>2. QED BY <1>a, <3>2, <4>1, LoseTyping DEF TypeOK
    <3>3. QED BY <1>1, <3>1, <3>2 DEF ProcessUri
  <2>2. QED
    BY <1>1, <1>a, <2>1, RsaAssumption DEF ProcessUri, LoseSession, Goto, HasRsa, Destroying, RefOps, KeyOps, tokenVars, sessVars, callVars, locals, TypeOK, FileOps, CallInv
<1>2. CASE FindOneObject(t)
  <2>1. TypeOK'
    <3>1. /\ h' = h \/ \E p \in TokenPairs : h' = [h EXCEPT ![t] = p]
          /\ cls' = cls \/ cls' = [cls EXCEPT ![t] = ClassOf(op[t])]
          /\ searching' = searching \/ searching' = [searching EXCEPT ![sp[t]] = TRUE]
      BY <1>2 DEF FindOneObject
    <3>2. /\ h' \in [Threads -> Handles \cup {Nil}]
          /\ cls' \in [Threads -> Class]
          /\ searching' \in [Sessions -> BOOLEAN]
      <4>1. TokenPairs \subseteq Handles
        BY DEF Handles
      <4>2. h' \in [Threads -> Handles \cup {Nil}]
        BY <3>1, <4>1, <1>a DEF TypeOK
      <4>3. cls \in [Threads -> Class] /\ searching \in [Sessions -> BOOLEAN]
        BY <1>a DEF TypeOK
      <4>4. cls' \in [Threads -> Class]
        BY <3>1, <4>3, <1>b
      <4>5. searching' \in [Sessions -> BOOLEAN]
        BY <3>1, <4>3
      <4>6. QED BY <4>2, <4>4, <4>5
    <3>3. CASE Goto(t, "destroy") /\ UNCHANGED <<state, callVars>>
      <4>1. UNCHANGED <<content, obj, ref, lock, key, ptr, num, persistent, found>>
        BY <1>2 DEF FindOneObject, tokenVars
      <4>2. pc' \in [Threads -> Steps]
        BY <1>a, <3>3 DEF Goto, Steps, TypeOK
      <4>3. QED BY <1>a, <3>2, <3>3, <4>1, <4>2 DEF TypeOK, callVars
    <3>4. CASE LoseSession(t)
      <4>1. UNCHANGED <<content, obj, ref, lock, key, ptr, num, persistent, found>>
        BY <1>2 DEF FindOneObject, tokenVars
      <4>2. QED BY <1>a, <3>2, <3>4, <4>1, LoseTyping DEF TypeOK
    <3>5. QED BY <1>2, <3>3, <3>4 DEF FindOneObject
  <2>2. QED
    BY <1>2, <1>a, <2>1, RsaAssumption DEF FindOneObject, LoseSession, Goto, HasRsa, Destroying, RefOps, KeyOps, tokenVars, sessVars, callVars, locals, TypeOK, FileOps, CallInv
<1>3. CASE Check(t)
  <2>1. TypeOK'
    <3>1. cls' \in [Threads -> Class] /\ pc' \in [Threads -> Steps]
      BY <1>3, <1>a, <1>b DEF Check, Goto, Steps, TypeOK
    <3>2. QED BY <1>3, <1>a, <3>1 DEF Check, TypeOK, tokenVars, sessVars, callVars
  <2>2. QED
    BY <1>3, <1>a, <2>1, RsaAssumption DEF Check, Goto, HasRsa, Destroying, RefOps, KeyOps, tokenVars, sessVars, callVars, locals, TypeOK, FileOps, CallInv
<1>4. CASE DestroySkip(t)
  <2>1. TypeOK'
    BY <1>4, <1>a, AfterTyping DEF DestroySkip, TypeOK, tokenVars, sessVars, callVars
  <2>2. QED
    BY <1>4, <1>a, <2>1, RsaAssumption DEF DestroySkip, AfterDestroy, Goto, HasRsa, Destroying, RefOps, KeyOps, tokenVars, sessVars, callVars, locals, TypeOK, FileOps, CallInv
<1>5. CASE DestroyLock(t)
  <2>1. TypeOK'
    BY <1>5, <1>a DEF DestroyLock, Goto, Steps, TypeOK, tokenVars, sessVars, callVars, locals
  <2>2. QED
    BY <1>5, <1>a, <2>1, RsaAssumption DEF DestroyLock, Goto, HasRsa, Destroying, RefOps, KeyOps, tokenVars, sessVars, callVars, locals, TypeOK, FileOps, CallInv
<1>6. CASE DropReference(t)
  <2>1. TypeOK'
    <3>1. ref' \in [Handles -> Nat]
      <4>1. PICK x : ref' = ActiveDelete(x)
        BY <1>6 DEF DropReference
      <4>2. x \in Handles /\ ref[x] # 0 => ref[x] - 1 \in Nat
        BY <1>a DEF TypeOK
      <4>3. QED BY <1>a, <4>1, <4>2 DEF ActiveDelete, TypeOK
    <3>2. pc' \in [Threads -> Steps]
      BY <1>6, <1>a DEF DropReference, ActiveDelete, Goto, Steps, TypeOK
    <3>3. QED BY <1>6, <1>a, <3>1, <3>2 DEF DropReference, ActiveDelete, TypeOK, sessVars, callVars, locals
  <2>2. QED
    BY <1>6, <1>a, <2>1, RsaAssumption DEF DropReference, ActiveDelete, Goto, HasRsa, Destroying, RefOps, KeyOps, tokenVars, sessVars, callVars, locals, TypeOK, FileOps, CallInv
<1>7. CASE DestroyObject(t)
  <2>1. TypeOK'
    BY <1>7, <1>a DEF DestroyObject, Goto, Steps, TypeOK, tokenVars, sessVars, callVars, locals
  <2>2. QED
    BY <1>7, <1>a, <2>1, RsaAssumption DEF DestroyObject, Goto, HasRsa, Destroying, RefOps, KeyOps, tokenVars, sessVars, callVars, locals, TypeOK, FileOps, CallInv
<1>8. CASE DestroyClear(t)
  <2>1. TypeOK'
    <3>1. key' \in [Sessions -> [Class -> Handles \cup {Nil}]]
      BY <1>8, <1>a DEF DestroyClear, TypeOK
    <3>2. ptr' \in [Sessions -> [Class -> Rsas \cup {Nil}]] /\ num' \in [Sessions -> Pairs \cup {Nil}]
      BY <1>8, <1>a DEF DestroyClear, TypeOK
    <3>3. QED BY <1>8, <1>a, <3>1, <3>2, AfterTyping DEF DestroyClear, TypeOK, tokenVars, callVars
  <2>2. QED
    BY <1>8, <1>a, <2>1, RsaAssumption DEF DestroyClear, AfterDestroy, Goto, HasRsa, Destroying, RefOps, KeyOps, tokenVars, sessVars, callVars, locals, TypeOK, FileOps, CallInv
<1>9. CASE AttachPriv(t)
  <2>1. pc[t] = "attach" /\ h[t] \in Handles /\ h[t] \in Pairs
    BY <1>9, RsaAssumption DEF AttachPriv, CallInv, TypeOK, Handles, RefOps
  <2>2. /\ key' \in [Sessions -> [Class -> Handles \cup {Nil}]]
        /\ persistent' \in [Sessions -> BOOLEAN]
        /\ UNCHANGED <<obj, lock, searching, h, cls, found>>
    BY <1>9, <1>a, <2>1 DEF AttachPriv, TypeOK, Class, locals
  <2>3. ref' \in [Handles -> Nat]
    <3>1. ref[h[t]] + 1 \in Nat
      BY <1>a, <2>1 DEF TypeOK
    <3>2. ref' \in {ref, [ref EXCEPT ![h[t]] = ref[h[t]] + 1]}
      BY <1>9 DEF AttachPriv, ActiveAdd
    <3>3. QED BY <1>a, <3>1, <3>2 DEF TypeOK
  <2>4. ASSUME NEW r \in FreeAddresses,
               ptr' = [ptr EXCEPT ![sp[t]]["priv"] = r],
               num' = [num EXCEPT ![sp[t]] = h[t]],
               content' = [content EXCEPT ![r] = [pair |-> h[t], d |-> FALSE, own |-> "shared"]],
               rsa' = [rsa EXCEPT ![t] = r],
               Goto(t, "return"),
               UNCHANGED <<state, sp, op>>
        PROVE  CallInv'
    <3>1. r \in Rsas
      BY DEF FreeAddresses
    <3>2. ptr' \in [Sessions -> [Class -> Rsas \cup {Nil}]] /\ num' \in [Sessions -> Pairs \cup {Nil}]
      BY <1>a, <2>1, <2>4, <3>1 DEF TypeOK
    <3>3. pc' \in [Threads -> Steps] /\ rsa' \in [Threads -> Rsas \cup {Nil}]
      BY <1>a, <2>4, <3>1 DEF TypeOK, Goto, Steps
    <3>4. content' \in [Rsas -> Content \cup {Nil}]
      BY <1>a, <2>1, <2>4 DEF TypeOK, Content
    <3>5. TypeOK'
      BY <1>a, <2>2, <2>3, <2>4, <3>2, <3>3, <3>4 DEF TypeOK
    <3>6. QED
      BY <2>1, <2>2, <2>4, <3>5, AttachInv DEF Goto
  <2>5. ASSUME LoseSession(t), UNCHANGED <<ptr, num, content>>
        PROVE  CallInv'
    <3>1. TypeOK'
      BY <1>a, <2>2, <2>3, <2>5, LoseTyping DEF TypeOK
    <3>2. QED
      BY <2>1, <2>2, <2>5, <3>1, LoseInv
  <2>6. QED BY <1>9, <2>4, <2>5 DEF AttachPriv
<1>10. CASE AttachPub(t)
  <2>1. /\ pc[t] = "attach" /\ h[t] \in Pairs
        /\ UNCHANGED <<obj, ref, lock, key, num, persistent, searching, h, cls, found>>
    BY <1>10, RsaAssumption DEF AttachPub, CallInv, TypeOK, RefOps, tokenVars, locals
  <2>2. ASSUME NEW r \in FreeAddresses,
               ptr' = [ptr EXCEPT ![sp[t]]["pub"] = r],
               content' = [content EXCEPT ![r] = [pair |-> h[t], d |-> FALSE, own |-> "shared"]],
               rsa' = [rsa EXCEPT ![t] = r],
               Goto(t, "lookup"),
               UNCHANGED <<state, sp, op>>
        PROVE  CallInv'
    <3>1. r \in Rsas
      BY DEF FreeAddresses
    <3>2. ptr' \in [Sessions -> [Class -> Rsas \cup {Nil}]]
      BY <1>a, <2>2, <3>1 DEF TypeOK
    <3>3. pc' \in [Threads -> Steps] /\ rsa' \in [Threads -> Rsas \cup {Nil}]
      BY <1>a, <2>2, <3>1 DEF TypeOK, Goto, Steps
    <3>4. content' \in [Rsas -> Content \cup {Nil}]
      BY <1>a, <2>1, <2>2 DEF TypeOK, Content
    <3>5. TypeOK'
      BY <1>a, <2>1, <2>2, <3>2, <3>3, <3>4 DEF TypeOK
    <3>6. QED
      BY <2>1, <2>2, <3>5, AttachInv DEF Goto
  <2>3. ASSUME LoseSession(t), UNCHANGED <<ptr, content>>
        PROVE  CallInv'
    <3>1. TypeOK'
      BY <1>a, <2>1, <2>3, LoseTyping DEF TypeOK
    <3>2. QED
      BY <2>1, <2>3, <3>1, LoseInv
  <2>4. QED BY <1>10, <2>2, <2>3 DEF AttachPub
<1>11. CASE UseCached(t)
  <2>1. TypeOK'
    BY <1>11, <1>a DEF UseCached, Goto, Steps, TypeOK, tokenVars, sessVars, callVars, locals
  <2>2. QED
    BY <1>11, <1>a, <2>1, RsaAssumption DEF UseCached, Goto, HasRsa, Destroying, RefOps, KeyOps, tokenVars, sessVars, callVars, locals, TypeOK, FileOps, CallInv
<1>12. CASE FindLock(t)
  <2>1. TypeOK'
    BY <1>12, <1>a DEF FindLock, NeedKey, Goto, Steps, TypeOK, tokenVars, sessVars, callVars, locals
  <2>2. QED
    BY <1>12, <1>a, <2>1, RsaAssumption DEF FindLock, NeedKey, Goto, HasRsa, Destroying, RefOps, KeyOps, tokenVars, sessVars, callVars, locals, TypeOK, FileOps, CallInv
<1>13. CASE Find(t)
  <2>1. TypeOK'
    <3>1. content[rsa[t]] \in Content
      BY <1>13, <1>c DEF Find
    <3>2. Matches(ClassOf(op[t]), content[rsa[t]]) \subseteq Handles
      BY <1>13, <1>a, <1>b, <3>1, MatchesTyping DEF Find
    <3>3. h' \in [Threads -> Handles \cup {Nil}]
      BY <1>13, <1>a, <3>2 DEF Find, TypeOK
    <3>4. pc' \in [Threads -> Steps]
      BY <1>13, <1>a, SMTT(20) DEF Find, Goto, Steps, TypeOK
    <3>5. searching' \in [Sessions -> BOOLEAN] /\ found' \in [Threads -> BOOLEAN]
      BY <1>13, <1>a DEF Find, TypeOK
    <3>6. QED BY <1>13, <1>a, <3>3, <3>4, <3>5 DEF Find, TypeOK, tokenVars, callVars
  <2>2. QED
    BY <1>13, <1>a, <2>1, RsaAssumption DEF Find, Goto, HasRsa, Destroying, RefOps, KeyOps, tokenVars, sessVars, callVars, locals, TypeOK, FileOps, CallInv
<1>14. CASE Create(t)
  <2>1. TypeOK'
    <3>1. UNCHANGED <<content, rsa>>
      BY <1>14 DEF Create, callVars
    <3>2. [class |-> ClassOf(op[t]), pair |-> content[rsa[t]].pair] \in Object
      BY <1>14, <1>b, <1>c DEF Create, Object
    <3>3. obj' \in [SHandles -> Object \cup {Nil}]
      <4>1. \/ obj' = obj
            \/ \E x \in SHandles : obj' =
                 [obj EXCEPT ![x] = [class |-> ClassOf(op[t]), pair |-> content[rsa[t]].pair]]
        BY <1>14 DEF Create
      <4>2. obj \in [SHandles -> Object \cup {Nil}]
        BY <1>a DEF TypeOK
      <4>3. QED BY <3>2, <4>1, <4>2
    <3>a. h' \in [Threads -> Handles \cup {Nil}]
      <4>1. h' = h \/ \E x \in Handles : h' = [h EXCEPT ![t] = x]
        BY <1>14 DEF Create, Handles
      <4>2. h \in [Threads -> Handles \cup {Nil}]
        BY <1>a DEF TypeOK
      <4>3. QED BY <4>1, <4>2
    <3>4. pc' \in [Threads -> Steps]
      BY <1>14, <1>a DEF Create, Goto, Steps, TypeOK
    <3>5. QED BY <1>14, <1>a, <3>3, <3>a, <3>4 DEF Create, TypeOK, sessVars, callVars
  <2>2. QED
    BY <1>14, <1>a, <2>1, RsaAssumption DEF Create, Goto, HasRsa, Destroying, callVars, TypeOK, CallInv
<1>15. CASE Hold(t)
  <2>1. TypeOK'
    <3>1. ref' \in [Handles -> Nat]
      <4>1. ref' = [ref EXCEPT ![h[t]] = ref[h[t]] + 1]
        BY <1>15 DEF Hold, ActiveAdd
      <4>2. h[t] \in Handles => ref[h[t]] + 1 \in Nat
        BY <1>a DEF TypeOK
      <4>3. QED BY <1>a, <4>1, <4>2 DEF TypeOK
    <3>2. num' \in [Sessions -> Pairs \cup {Nil}]
      BY <1>15, <1>a, <1>c DEF Hold, TypeOK
    <3>3. ptr' \in [Sessions -> [Class -> Rsas \cup {Nil}]]
      BY <1>15, <1>a, <1>c DEF Hold, TypeOK
    <3>4. pc' \in [Threads -> Steps]
      BY <1>15, <1>a DEF Hold, Goto, Steps, TypeOK
    <3>5. QED BY <1>15, <1>a, <3>1, <3>2, <3>3, <3>4 DEF Hold, TypeOK, callVars, locals
  <2>2. QED
    BY <1>15, <1>a, <2>1, RsaAssumption DEF Hold, ActiveAdd, Goto, HasRsa, Destroying, RefOps, KeyOps, tokenVars, sessVars, callVars, locals, TypeOK, FileOps, CallInv
<1>16. CASE Rollback(t)
  <2>1. TypeOK'
    <3>2. num' \in [Sessions -> Pairs \cup {Nil}]
      BY <1>16, <1>a, <1>c DEF Rollback, WithoutCreated, TypeOK
    <3>3. obj' \in [SHandles -> Object \cup {Nil}] /\ h' \in [Threads -> Handles \cup {Nil}]
      BY <1>16, <1>a DEF Rollback, WithoutCreated, TypeOK
    <3>4. pc' \in [Threads -> Steps]
      BY <1>16, <1>a DEF Rollback, WithoutCreated, Goto, Steps, TypeOK
    <3>5. QED BY <1>16, <1>a, <3>2, <3>3, <3>4 DEF Rollback, WithoutCreated, TypeOK, callVars
  <2>2. QED
    BY <1>16, <1>a, <2>1, RsaAssumption DEF Rollback, WithoutCreated, Goto, HasRsa, Destroying, RefOps, KeyOps, tokenVars, sessVars, callVars, locals, TypeOK, FileOps, CallInv
<1>17. CASE GetUnlock(t)
  <2>1. rsa[t] \in Rsas /\ content[rsa[t]] \in Content
    BY <1>17, <1>c DEF GetUnlock
  <2>2. QED
    BY <1>17, <1>a, <2>1, StoreInv DEF GetUnlock, TypeOK
<1>18. CASE TemplateFails(t)
  <2>1. rsa[t] \in Rsas /\ content[rsa[t]] \in Content
    BY <1>18, <1>c DEF TemplateFails, NeedKey
  <2>2. QED
    BY <1>18, <1>a, <2>1, StoreInv DEF TemplateFails, NeedKey, TypeOK
<1>19. CASE Use(t)
  <2>1. TypeOK'
    BY <1>19, <1>a DEF Use, Goto, Steps, TypeOK, tokenVars, sessVars, callVars, locals
  <2>2. QED
    BY <1>19, <1>a, <2>1, RsaAssumption DEF Use, Goto, HasRsa, Destroying, RefOps, KeyOps, tokenVars, sessVars, callVars, locals, TypeOK, FileOps, CallInv
<1>20. CASE ReturnSession(t)
  <2>1. TypeOK'
    BY <1>20, <1>a DEF ReturnSession, Goto, Steps, TypeOK, tokenVars, sessVars, callVars, locals
  <2>2. QED
    BY <1>20, <1>a, <2>1, RsaAssumption DEF ReturnSession, Goto, HasRsa, Destroying, RefOps, KeyOps, tokenVars, sessVars, callVars, locals, TypeOK, FileOps, CallInv
<1>21. QED BY <1>1, <1>2, <1>3, <1>4, <1>5, <1>6, <1>7, <1>8, <1>9, <1>10, <1>11, <1>12, <1>13, <1>14, <1>15, <1>16, <1>17, <1>18, <1>19, <1>20 DEF Step

\* Allocating and freeing RSA structures keeps it: a structure some thread
\* works on stays where it is.
LEMMA AppInv ==
  ASSUME CallInv, NEW r \in Rsas,
         FreeRsa(r) \/ \E p \in Pairs, d \in BOOLEAN : NewRsa(r, p, d)
  PROVE  CallInv'
<1>1. /\ UNCHANGED <<obj, ref, lock, state, key, ptr, num, persistent, searching, pc, op, rsa, sp>>
      /\ UNCHANGED <<cls, h, found>>
  BY DEF FreeRsa, NewRsa, tokenVars, sessVars, callVars, locals
<1>2. \E k \in Content \cup {Nil} : content' = [content EXCEPT ![r] = k]
  <2>1. CASE FreeRsa(r)
    <3>1. content[r] \in Content
      BY <2>1 DEF FreeRsa, CallInv, TypeOK
    <3>2. [content[r] EXCEPT !.own = "leaked"] \in Content
      BY <3>1 DEF Content
    <3>3. content' = [content EXCEPT ![r] = Nil]
            \/ content' = [content EXCEPT ![r] = [content[r] EXCEPT !.own = "leaked"]]
      BY <2>1 DEF FreeRsa
    <3>4. QED BY <3>2, <3>3
  <2>2. ASSUME NEW p \in Pairs, NEW d \in BOOLEAN, NewRsa(r, p, d)
        PROVE  \E k \in Content \cup {Nil} : content' = [content EXCEPT ![r] = k]
    <3>1. [pair |-> p, d |-> d, own |-> "app"] \in Content
      BY DEF Content
    <3>2. QED BY <2>2, <3>1 DEF NewRsa
  <2>3. QED BY <2>1, <2>2
<1>3. TypeOK'
  BY <1>1, <1>2 DEF CallInv, TypeOK
<1>4. \A t \in Threads : rsa[t] # r \/ rsa[t] = Nil
  <2>1. CASE content[r] = Nil
    BY <2>1 DEF CallInv
  <2>2. QED BY <2>1 DEF FreeRsa, NewRsa
<1>5. \A q \in Rsas : q # r => content'[q] = content[q]
  BY <1>2 DEF CallInv, TypeOK
<1>6. \A t \in Threads : HasRsa(t)' = HasRsa(t)
  BY <1>1 DEF HasRsa
<1>7. \A t \in Threads : rsa[t] \in Rsas => content'[rsa[t]] = content[rsa[t]]
  BY <1>4, <1>5, RsaAssumption
<1>8. QED BY <1>1, <1>3, <1>6, <1>7 DEF CallInv

LEMMA CallInvInductive == CallInv /\ [Next]_vars => CallInv'
<1> SUFFICES ASSUME CallInv, [Next]_vars PROVE CallInv'
  OBVIOUS
<1>1. CASE Next
  BY <1>1, CallsInv, StepInv, AppInv DEF Next
<1>2. CASE UNCHANGED vars
  <2>1. /\ UNCHANGED <<content, obj, ref, lock, state, key, ptr, num, persistent, searching>>
        /\ UNCHANGED <<pc, op, rsa, sp, cls, h, found>>
    BY <1>2 DEF vars, tokenVars, sessVars, callVars, locals
  <2>2. TypeOK'
    BY <2>1 DEF CallInv, TypeOK
  <2>3. QED BY <2>1, <2>2 DEF CallInv, HasRsa
<1>3. QED BY <1>1, <1>2

LEMMA CallInvInit == Init => CallInv
BY RsaAssumption DEF Init, CallInv, TypeOK, Steps, AllOps, Class, HasRsa, Destroying, Handles

\* Every reachable state is well typed: in particular no counter of the
\* active list ever becomes negative, whatever the threads, entry points and
\* failing calls.
THEOREM TypeCorrect == Spec => []TypeOK
<1>1. CallInv => TypeOK
  BY DEF CallInv
<1>2. QED BY <1>1, CallInvInit, CallInvInductive, PTL DEF Spec

-----------------------------------------------------------------------------
(* The find lock, and what a thread has while it holds it. *)

Locked == {"delete", "destroyobj", "clear", "find", "create", "hold", "unlock"}
Dropping == {"delete", "destroyobj", "clear"}

\* The find lock belongs to the thread between LOCK_OBJSTORE and UNLOCK_OBJSTORE.
LockInv == \A t \in Threads : lock = t <=> pc[t] \in Locked

\* A call has a session of its own.
SessInv ==
  /\ \A t \in Threads : pc[t] = "idle" <=> sp[t] = Nil
  /\ \A t \in Threads : sp[t] # Nil => state[sp[t]] = "held"
  /\ \A t, u \in Threads : t # u /\ sp[t] # Nil => sp[t] # sp[u]

\* What a thread's handle variables hold while it has the lock.
OwnInv ==
  \A t \in Threads :
    /\ pc[t] \in Dropping => key[sp[t]][cls[t]] # Nil
    /\ pc[t] \in {"find", "create"} => h[t] = Nil
    /\ pc[t] = "hold" => h[t] # Nil

-----------------------------------------------------------------------------
(* What a step leaves alone. *)

\* A step of one thread changes no other thread's variables and no other
\* session's fields.
LEMMA Frame ==
  ASSUME TypeOK, NEW t \in Threads, Step(t)
  PROVE  /\ op' = op
         /\ \A u \in Threads : u # t =>
              /\ pc'[u] = pc[u] /\ sp'[u] = sp[u] /\ rsa'[u] = rsa[u]
              /\ cls'[u] = cls[u] /\ h'[u] = h[u] /\ found'[u] = found[u]
         /\ \A s \in Sessions : s # sp[t] =>
              /\ state'[s] = state[s] /\ key'[s] = key[s] /\ num'[s] = num[s]
              /\ ptr'[s] = ptr[s] /\ persistent'[s] = persistent[s]
<1> USE DEF TypeOK, Goto, tokenVars, sessVars, callVars, locals
<1>1. CASE ProcessUri(t)
  BY <1>1 DEF ProcessUri, LoseSession
<1>2. CASE FindOneObject(t)
  BY <1>2 DEF FindOneObject, LoseSession
<1>3. CASE Check(t)
  BY <1>3 DEF Check
<1>4. CASE DestroySkip(t)
  BY <1>4 DEF DestroySkip, AfterDestroy
<1>5. CASE DestroyLock(t)
  BY <1>5 DEF DestroyLock
<1>6. CASE DropReference(t)
  BY <1>6 DEF DropReference
<1>7. CASE DestroyObject(t)
  BY <1>7 DEF DestroyObject
<1>8. CASE DestroyClear(t)
  BY <1>8 DEF DestroyClear, AfterDestroy
<1>9. CASE AttachPriv(t)
  BY <1>9 DEF AttachPriv, LoseSession
<1>10. CASE AttachPub(t)
  BY <1>10 DEF AttachPub, LoseSession
<1>11. CASE UseCached(t)
  BY <1>11 DEF UseCached
<1>12. CASE FindLock(t)
  BY <1>12 DEF FindLock, NeedKey
<1>13. CASE Find(t)
  BY <1>13 DEF Find
<1>14. CASE Create(t)
  BY <1>14 DEF Create
<1>15. CASE Hold(t)
  BY <1>15 DEF Hold
<1>16. CASE Rollback(t)
  BY <1>16 DEF Rollback
<1>17. CASE GetUnlock(t)
  BY <1>17 DEF GetUnlock, StoreKey, LoseSession
<1>18. CASE TemplateFails(t)
  BY <1>18 DEF TemplateFails, StoreKey, LoseSession
<1>19. CASE Use(t)
  BY <1>19 DEF Use
<1>20. CASE ReturnSession(t)
  BY <1>20 DEF ReturnSession
<1>21. QED BY <1>1, <1>2, <1>3, <1>4, <1>5, <1>6, <1>7, <1>8, <1>9, <1>10, <1>11, <1>12, <1>13, <1>14, <1>15, <1>16, <1>17, <1>18, <1>19, <1>20 DEF Step

\* Which step leads to each of the steps under the lock, and to the use.
LEMMA Arrivals ==
  ASSUME TypeOK, NEW t \in Threads, Step(t)
  PROVE  /\ pc'[t] = "delete" => DestroyLock(t)
         /\ pc'[t] = "destroyobj" => DropReference(t)
         /\ pc'[t] = "clear" => DropReference(t) \/ DestroyObject(t)
         /\ pc'[t] = "find" => FindLock(t)
         /\ pc'[t] = "create" => Find(t)
         /\ pc'[t] = "hold" => Find(t) \/ Create(t)
         /\ pc'[t] = "unlock" => Find(t) \/ Create(t) \/ Hold(t) \/ Rollback(t)
         /\ pc'[t] = "use" => UseCached(t) \/ GetUnlock(t)
         /\ pc'[t] = "lookup" => Check(t) \/ DestroySkip(t) \/ DestroyClear(t) \/ AttachPub(t)
         /\ pc'[t] = "destroy" => FindOneObject(t) \/ Check(t) \/ DestroySkip(t) \/ DestroyClear(t)
<1> USE DEF TypeOK, Goto
<1>1. CASE ProcessUri(t)
  BY <1>1 DEF ProcessUri, LoseSession
<1>2. CASE FindOneObject(t)
  BY <1>2 DEF FindOneObject, LoseSession
<1>3. CASE Check(t)
  BY <1>3 DEF Check
<1>4. CASE DestroySkip(t)
  BY <1>4 DEF DestroySkip, AfterDestroy
<1>5. CASE DestroyLock(t)
  BY <1>5 DEF DestroyLock
<1>6. CASE DropReference(t)
  BY <1>6 DEF DropReference
<1>7. CASE DestroyObject(t)
  BY <1>7 DEF DestroyObject
<1>8. CASE DestroyClear(t)
  BY <1>8 DEF DestroyClear, AfterDestroy
<1>9. CASE AttachPriv(t)
  BY <1>9 DEF AttachPriv, LoseSession
<1>10. CASE AttachPub(t)
  BY <1>10 DEF AttachPub, LoseSession
<1>11. CASE UseCached(t)
  BY <1>11 DEF UseCached
<1>12. CASE FindLock(t)
  BY <1>12 DEF FindLock, NeedKey
<1>13. CASE Find(t)
  BY <1>13 DEF Find
<1>14. CASE Create(t)
  BY <1>14 DEF Create
<1>15. CASE Hold(t)
  BY <1>15 DEF Hold
<1>16. CASE Rollback(t)
  BY <1>16 DEF Rollback
<1>17. CASE GetUnlock(t)
  BY <1>17 DEF GetUnlock, StoreKey, LoseSession
<1>18. CASE TemplateFails(t)
  BY <1>18 DEF TemplateFails, NeedKey, StoreKey, LoseSession
<1>19. CASE Use(t)
  BY <1>19 DEF Use
<1>20. CASE ReturnSession(t)
  BY <1>20 DEF ReturnSession
<1>21. QED BY <1>1, <1>2, <1>3, <1>4, <1>5, <1>6, <1>7, <1>8, <1>9, <1>10, <1>11, <1>12, <1>13, <1>14, <1>15, <1>16, <1>17, <1>18, <1>19, <1>20 DEF Step

\* Dropping a key ends by clearing the session's fields.
LEMMA DropLeaves ==
  ASSUME TypeOK, NEW t \in Threads, Step(t), pc[t] \in Dropping, pc'[t] \notin Dropping
  PROVE  DestroyClear(t)
<1> USE DEF TypeOK, Dropping, Goto
<1>1. CASE ProcessUri(t)
  BY <1>1 DEF ProcessUri, LoseSession
<1>2. CASE FindOneObject(t)
  BY <1>2 DEF FindOneObject, LoseSession
<1>3. CASE Check(t)
  BY <1>3 DEF Check
<1>4. CASE DestroySkip(t)
  BY <1>4 DEF DestroySkip, AfterDestroy
<1>5. CASE DestroyLock(t)
  BY <1>5 DEF DestroyLock
<1>6. CASE DropReference(t)
  BY <1>6 DEF DropReference
<1>7. CASE DestroyObject(t)
  BY <1>7 DEF DestroyObject
<1>8. CASE DestroyClear(t)
  BY <1>8 DEF DestroyClear, AfterDestroy
<1>9. CASE AttachPriv(t)
  BY <1>9 DEF AttachPriv, LoseSession
<1>10. CASE AttachPub(t)
  BY <1>10 DEF AttachPub, LoseSession
<1>11. CASE UseCached(t)
  BY <1>11 DEF UseCached
<1>12. CASE FindLock(t)
  BY <1>12 DEF FindLock, NeedKey
<1>13. CASE Find(t)
  BY <1>13 DEF Find
<1>14. CASE Create(t)
  BY <1>14 DEF Create
<1>15. CASE Hold(t)
  BY <1>15 DEF Hold
<1>16. CASE Rollback(t)
  BY <1>16 DEF Rollback
<1>17. CASE GetUnlock(t)
  BY <1>17 DEF GetUnlock, StoreKey, LoseSession
<1>18. CASE TemplateFails(t)
  BY <1>18 DEF TemplateFails, NeedKey, StoreKey, LoseSession
<1>19. CASE Use(t)
  BY <1>19 DEF Use
<1>20. CASE ReturnSession(t)
  BY <1>20 DEF ReturnSession
<1>21. QED BY <1>1, <1>2, <1>3, <1>4, <1>5, <1>6, <1>7, <1>8, <1>9, <1>10, <1>11, <1>12, <1>13, <1>14, <1>15, <1>16, <1>17, <1>18, <1>19, <1>20 DEF Step

\* Which step leads away from the steps that change the token's objects.
LEMMA Departures ==
  ASSUME NEW t \in Threads, Step(t)
  PROVE  /\ pc[t] = "destroyobj" => DestroyObject(t)
         /\ pc[t] = "hold" => Hold(t) \/ Rollback(t)
<1>1. CASE ProcessUri(t)
  BY <1>1 DEF ProcessUri, LoseSession
<1>2. CASE FindOneObject(t)
  BY <1>2 DEF FindOneObject, LoseSession
<1>3. CASE Check(t)
  BY <1>3 DEF Check
<1>4. CASE DestroySkip(t)
  BY <1>4 DEF DestroySkip, AfterDestroy
<1>5. CASE DestroyLock(t)
  BY <1>5 DEF DestroyLock
<1>6. CASE DropReference(t)
  BY <1>6 DEF DropReference
<1>7. CASE DestroyObject(t)
  BY <1>7 DEF DestroyObject
<1>8. CASE DestroyClear(t)
  BY <1>8 DEF DestroyClear, AfterDestroy
<1>9. CASE AttachPriv(t)
  BY <1>9 DEF AttachPriv, LoseSession
<1>10. CASE AttachPub(t)
  BY <1>10 DEF AttachPub, LoseSession
<1>11. CASE UseCached(t)
  BY <1>11 DEF UseCached
<1>12. CASE FindLock(t)
  BY <1>12 DEF FindLock, NeedKey
<1>13. CASE Find(t)
  BY <1>13 DEF Find
<1>14. CASE Create(t)
  BY <1>14 DEF Create
<1>15. CASE Hold(t)
  BY <1>15 DEF Hold
<1>16. CASE Rollback(t)
  BY <1>16 DEF Rollback
<1>17. CASE GetUnlock(t)
  BY <1>17 DEF GetUnlock, StoreKey, LoseSession
<1>18. CASE TemplateFails(t)
  BY <1>18 DEF TemplateFails, NeedKey, StoreKey, LoseSession
<1>19. CASE Use(t)
  BY <1>19 DEF Use
<1>20. CASE ReturnSession(t)
  BY <1>20 DEF ReturnSession
<1>21. QED BY <1>1, <1>2, <1>3, <1>4, <1>5, <1>6, <1>7, <1>8, <1>9, <1>10, <1>11, <1>12, <1>13, <1>14, <1>15, <1>16, <1>17, <1>18, <1>19, <1>20 DEF Step

\* How a step of a call moves the lock.
LEMMA LockMoves ==
  ASSUME TypeOK, LockInv, NEW t \in Threads, Step(t)
  PROVE  \/ lock' = lock /\ (pc'[t] \in Locked <=> pc[t] \in Locked)
         \/ lock = Nil /\ lock' = t /\ pc'[t] \in Locked
         \/ lock = t /\ lock' = Nil /\ pc'[t] \notin Locked
<1> USE DEF TypeOK, LockInv, Locked, Goto, CanLock
<1>1. CASE ProcessUri(t)
  BY <1>1 DEF ProcessUri, LoseSession
<1>2. CASE FindOneObject(t)
  BY <1>2 DEF FindOneObject, LoseSession
<1>3. CASE Check(t)
  BY <1>3 DEF Check
<1>4. CASE DestroySkip(t)
  BY <1>4 DEF DestroySkip, AfterDestroy
<1>5. CASE DestroyLock(t)
  BY <1>5 DEF DestroyLock
<1>6. CASE DropReference(t)
  BY <1>6 DEF DropReference
<1>7. CASE DestroyObject(t)
  BY <1>7 DEF DestroyObject
<1>8. CASE DestroyClear(t)
  BY <1>8 DEF DestroyClear, AfterDestroy
<1>9. CASE AttachPriv(t)
  BY <1>9 DEF AttachPriv, LoseSession
<1>10. CASE AttachPub(t)
  BY <1>10 DEF AttachPub, LoseSession
<1>11. CASE UseCached(t)
  BY <1>11 DEF UseCached
<1>12. CASE FindLock(t)
  BY <1>12 DEF FindLock, NeedKey
<1>13. CASE Find(t)
  BY <1>13 DEF Find
<1>14. CASE Create(t)
  BY <1>14 DEF Create
<1>15. CASE Hold(t)
  BY <1>15 DEF Hold
<1>16. CASE Rollback(t)
  BY <1>16 DEF Rollback
<1>17. CASE GetUnlock(t)
  BY <1>17 DEF GetUnlock, StoreKey, LoseSession
<1>18. CASE TemplateFails(t)
  BY <1>18 DEF TemplateFails, NeedKey, StoreKey, LoseSession
<1>19. CASE Use(t)
  BY <1>19 DEF Use
<1>20. CASE ReturnSession(t)
  BY <1>20 DEF ReturnSession
<1>21. QED BY <1>1, <1>2, <1>3, <1>4, <1>5, <1>6, <1>7, <1>8, <1>9, <1>10, <1>11, <1>12, <1>13, <1>14, <1>15, <1>16, <1>17, <1>18, <1>19, <1>20 DEF Step

\* A step of a call keeps the thread's session, or ends the call.
LEMMA SessionMoves ==
  ASSUME TypeOK, SessInv, NEW t \in Threads, Step(t)
  PROVE  /\ sp[t] \in Sessions
         /\ \/ sp'[t] = sp[t] /\ pc'[t] # "idle" /\ state'[sp[t]] = "held"
            \/ sp'[t] = Nil /\ pc'[t] = "idle"
<1> USE DEF TypeOK, SessInv, Goto, tokenVars, sessVars, callVars, locals
<1>1. CASE ProcessUri(t)
  BY <1>1 DEF ProcessUri, LoseSession
<1>2. CASE FindOneObject(t)
  BY <1>2 DEF FindOneObject, LoseSession
<1>3. CASE Check(t)
  BY <1>3 DEF Check
<1>4. CASE DestroySkip(t)
  BY <1>4 DEF DestroySkip, AfterDestroy
<1>5. CASE DestroyLock(t)
  BY <1>5 DEF DestroyLock
<1>6. CASE DropReference(t)
  BY <1>6 DEF DropReference
<1>7. CASE DestroyObject(t)
  BY <1>7 DEF DestroyObject
<1>8. CASE DestroyClear(t)
  BY <1>8 DEF DestroyClear, AfterDestroy
<1>9. CASE AttachPriv(t)
  BY <1>9 DEF AttachPriv, LoseSession
<1>10. CASE AttachPub(t)
  BY <1>10 DEF AttachPub, LoseSession
<1>11. CASE UseCached(t)
  BY <1>11 DEF UseCached
<1>12. CASE FindLock(t)
  BY <1>12 DEF FindLock, NeedKey
<1>13. CASE Find(t)
  BY <1>13 DEF Find
<1>14. CASE Create(t)
  BY <1>14 DEF Create
<1>15. CASE Hold(t)
  BY <1>15 DEF Hold
<1>16. CASE Rollback(t)
  BY <1>16 DEF Rollback
<1>17. CASE GetUnlock(t)
  BY <1>17 DEF GetUnlock, StoreKey, LoseSession
<1>18. CASE TemplateFails(t)
  BY <1>18 DEF TemplateFails, NeedKey, StoreKey, LoseSession
<1>19. CASE Use(t)
  BY <1>19 DEF Use
<1>20. CASE ReturnSession(t)
  BY <1>20 DEF ReturnSession
<1>21. QED BY <1>1, <1>2, <1>3, <1>4, <1>5, <1>6, <1>7, <1>8, <1>9, <1>10, <1>11, <1>12, <1>13, <1>14, <1>15, <1>16, <1>17, <1>18, <1>19, <1>20 DEF Step

\* What a call begins with.
LEMMA CallMoves ==
  ASSUME TypeOK, NEW t \in Threads, Call(t)
  PROVE  \E s \in Sessions :
           /\ pc[t] = "idle" /\ pc'[t] \in {"check", "uri"}
           /\ state[s] \in {"free", "unborn"}
           /\ state' = [state EXCEPT ![s] = "held"]
           /\ sp' = [sp EXCEPT ![t] = s]
           /\ op'[t] \in Ops
           /\ \A u \in Threads : u # t => pc'[u] = pc[u] /\ rsa'[u] = rsa[u] /\ op'[u] = op[u]
           /\ UNCHANGED <<obj, ref, lock, key, ptr, num, persistent, cls, h, found>>
<1> DEFINE Begun(s) ==
  /\ pc[t] = "idle" /\ pc'[t] \in {"check", "uri"}
  /\ state[s] \in {"free", "unborn"}
  /\ state' = [state EXCEPT ![s] = "held"]
  /\ sp' = [sp EXCEPT ![t] = s]
  /\ op'[t] \in Ops
  /\ \A u \in Threads : u # t => pc'[u] = pc[u] /\ rsa'[u] = rsa[u] /\ op'[u] = op[u]
  /\ UNCHANGED <<obj, ref, lock, key, ptr, num, persistent, cls, h, found>>
<1>1. PICK s \in Sessions :
        \/ \E o \in Ops, r \in Rsas : CallKeyOp(t, o, r, s)
        \/ \E o \in Ops, r \in Rsas, p \in Pairs : CallLoadFile(t, o, r, p, s)
        \/ \E o \in Ops : CallLoadRef(t, o, s)
  BY DEF Call
<1>2. ASSUME NEW o \in Ops, NEW r \in Rsas, CallKeyOp(t, o, r, s) PROVE Begun(s)
  BY <1>2 DEF CallKeyOp, TypeOK, GetSession, Goto, tokenVars, locals
<1>3. ASSUME NEW o \in Ops, NEW r \in Rsas, NEW p \in Pairs, CallLoadFile(t, o, r, p, s) PROVE Begun(s)
  BY <1>3 DEF CallLoadFile, TypeOK, GetSession, Goto, tokenVars, locals
<1>4. ASSUME NEW o \in Ops, CallLoadRef(t, o, s) PROVE Begun(s)
  BY <1>4 DEF CallLoadRef, TypeOK, GetSession, Goto, tokenVars, locals
<1>5. Begun(s)
  <2> HIDE DEF Begun
  <2> QED BY <1>1, <1>2, <1>3, <1>4
<1>6. QED BY <1>5

\* The application's own steps touch nothing but its RSA structures.
LEMMA AppMoves ==
  ASSUME NEW r \in Rsas, FreeRsa(r) \/ \E p \in Pairs, d \in BOOLEAN : NewRsa(r, p, d)
  PROVE  /\ UNCHANGED <<obj, ref, lock, state, key, ptr, num, persistent, pc, op, rsa, sp>>
         /\ UNCHANGED <<cls, h, found>>
BY DEF FreeRsa, NewRsa, tokenVars, sessVars, callVars, locals

-----------------------------------------------------------------------------

CoreInv == CallInv /\ LockInv /\ SessInv /\ OwnInv

LEMMA OwnStep ==
  ASSUME CoreInv, NEW t \in Threads, Step(t)
  PROVE  /\ pc'[t] \in Dropping => key'[sp'[t]][cls'[t]] # Nil
         /\ pc'[t] \in {"find", "create"} => h'[t] = Nil
         /\ pc'[t] = "hold" => h'[t] # Nil
<1>a. Nil \notin Handles
  BY RsaAssumption DEF Handles
<1>b. pc[t] = "find" => Matches(ClassOf(op[t]), content[rsa[t]]) \subseteq Handles
  <2>1. pc[t] = "find" => content[rsa[t]] \in Content
    BY DEF CoreInv, CallInv, TypeOK, HasRsa, Destroying
  <2>2. ClassOf(op[t]) \in Class
    BY ClassTyping DEF CoreInv, CallInv, TypeOK
  <2>3. QED BY <2>1, <2>2, MatchesTyping DEF CoreInv, CallInv
<1> USE RsaAssumption DEF CoreInv, CallInv, TypeOK, OwnInv, Dropping, Goto, tokenVars, sessVars, callVars, locals
<1>1. CASE ProcessUri(t)
  BY <1>1 DEF ProcessUri, LoseSession
<1>2. CASE FindOneObject(t)
  BY <1>2 DEF FindOneObject, LoseSession
<1>3. CASE Check(t)
  BY <1>3 DEF Check
<1>4. CASE DestroySkip(t)
  BY <1>4 DEF DestroySkip, AfterDestroy
<1>5. CASE DestroyLock(t)
  BY <1>5 DEF DestroyLock
<1>6. CASE DropReference(t)
  BY <1>6 DEF DropReference
<1>7. CASE DestroyObject(t)
  BY <1>7 DEF DestroyObject
<1>8. CASE DestroyClear(t)
  BY <1>8 DEF DestroyClear, AfterDestroy
<1>9. CASE AttachPriv(t)
  BY <1>9 DEF AttachPriv, LoseSession
<1>10. CASE AttachPub(t)
  BY <1>10 DEF AttachPub, LoseSession
<1>11. CASE UseCached(t)
  BY <1>11 DEF UseCached
<1>12. CASE FindLock(t)
  BY <1>12 DEF FindLock, NeedKey
<1>13. CASE Find(t)
  BY <1>13, <1>a, <1>b DEF Find
<1>14. CASE Create(t)
  BY <1>14 DEF Create
<1>15. CASE Hold(t)
  BY <1>15 DEF Hold
<1>16. CASE Rollback(t)
  BY <1>16 DEF Rollback
<1>17. CASE GetUnlock(t)
  BY <1>17 DEF GetUnlock, StoreKey, LoseSession
<1>18. CASE TemplateFails(t)
  BY <1>18 DEF TemplateFails, NeedKey, StoreKey, LoseSession
<1>19. CASE Use(t)
  BY <1>19 DEF Use
<1>20. CASE ReturnSession(t)
  BY <1>20 DEF ReturnSession
<1>21. QED BY <1>1, <1>2, <1>3, <1>4, <1>5, <1>6, <1>7, <1>8, <1>9, <1>10, <1>11, <1>12, <1>13, <1>14, <1>15, <1>16, <1>17, <1>18, <1>19, <1>20 DEF Step

LEMMA CoreInvInductive == CoreInv /\ [Next]_vars => CoreInv'
<1> SUFFICES ASSUME CoreInv, [Next]_vars PROVE CoreInv'
  OBVIOUS
<1>a. TypeOK
  BY DEF CoreInv, CallInv
<1>b. CallInv'
  BY CallInvInductive DEF CoreInv
<1>1. ASSUME NEW t \in Threads, Call(t) PROVE LockInv' /\ SessInv' /\ OwnInv'
  <2>1. PICK s \in Sessions :
           /\ pc[t] = "idle" /\ pc'[t] \in {"check", "uri"}
           /\ state[s] \in {"free", "unborn"}
           /\ state' = [state EXCEPT ![s] = "held"]
           /\ sp' = [sp EXCEPT ![t] = s]
           /\ op'[t] \in Ops
           /\ \A u \in Threads : u # t => pc'[u] = pc[u] /\ rsa'[u] = rsa[u] /\ op'[u] = op[u]
           /\ UNCHANGED <<obj, ref, lock, key, ptr, num, persistent, cls, h, found>>
    BY <1>1, <1>a, CallMoves
  <2>2. LockInv'
    BY <1>a, <2>1 DEF CoreInv, LockInv, Locked
  <2>3. SessInv'
    BY <1>a, <2>1, RsaAssumption DEF CoreInv, SessInv, TypeOK
  <2>4. OwnInv'
    BY <1>a, <2>1 DEF CoreInv, OwnInv, TypeOK, Dropping
  <2>5. QED BY <2>2, <2>3, <2>4
<1>2. ASSUME NEW t \in Threads, Step(t) PROVE LockInv' /\ SessInv' /\ OwnInv'
  <2>1. LockInv'
    BY <1>2, <1>a, Frame, LockMoves, RsaAssumption DEF CoreInv, LockInv
  <2>2. SessInv'
    <3>1. sp[t] \in Sessions /\ \A u \in Threads : u # t => pc'[u] = pc[u] /\ sp'[u] = sp[u]
      BY <1>2, <1>a, Frame, SessionMoves DEF CoreInv
    <3>2. \/ sp'[t] = sp[t] /\ pc'[t] # "idle" /\ state'[sp[t]] = "held"
          \/ sp'[t] = Nil /\ pc'[t] = "idle"
      BY <1>2, <1>a, SessionMoves DEF CoreInv
    <3>3. \A u \in Threads : u # t /\ sp[u] # Nil => sp[u] # sp[t] /\ state'[sp[u]] = state[sp[u]]
      BY <1>2, <1>a, <3>1, Frame DEF CoreInv, SessInv, TypeOK
    <3>4. sp[t] # Nil
      BY <3>1, RsaAssumption
    <3>5. QED BY <3>1, <3>2, <3>3, <3>4 DEF CoreInv, SessInv
  <2>3. OwnInv'
    <3>1. ASSUME NEW u \in Threads, u # t
          PROVE  /\ pc'[u] \in Dropping => key'[sp'[u]][cls'[u]] # Nil
                 /\ pc'[u] \in {"find", "create"} => h'[u] = Nil
                 /\ pc'[u] = "hold" => h'[u] # Nil
      <4>1. pc'[u] = pc[u] /\ sp'[u] = sp[u] /\ cls'[u] = cls[u] /\ h'[u] = h[u]
        BY <1>2, <1>a, <3>1, Frame
      <4>2. CASE pc[u] = "idle"
        BY <4>1, <4>2 DEF Dropping
      <4>3. CASE pc[u] # "idle"
        <5>1. sp[u] \in Sessions /\ sp[u] # sp[t]
          BY <1>a, <3>1, <4>3 DEF CoreInv, SessInv, TypeOK
        <5>2. key'[sp[u]] = key[sp[u]]
          BY <1>2, <1>a, <5>1, Frame
        <5>3. QED BY <4>1, <5>2 DEF CoreInv, OwnInv
      <4>4. QED BY <4>2, <4>3
    <3>2. QED BY <1>2, <3>1, OwnStep DEF OwnInv
  <2>4. QED BY <2>1, <2>2, <2>3
<1>3. ASSUME NEW r \in Rsas, FreeRsa(r) \/ \E p \in Pairs, d \in BOOLEAN : NewRsa(r, p, d)
      PROVE  LockInv' /\ SessInv' /\ OwnInv'
  BY <1>3, AppMoves DEF CoreInv, LockInv, SessInv, OwnInv
<1>4. ASSUME UNCHANGED vars PROVE LockInv' /\ SessInv' /\ OwnInv'
  BY <1>4 DEF vars, tokenVars, sessVars, callVars, locals, CoreInv, LockInv, SessInv, OwnInv
<1>5. LockInv' /\ SessInv' /\ OwnInv'
  BY <1>1, <1>2, <1>3, <1>4 DEF Next
<1>6. QED BY <1>b, <1>5 DEF CoreInv

LEMMA InitCore == Init => CoreInv
<1>1. Init => LockInv /\ SessInv /\ OwnInv
  BY RsaAssumption DEF Init, LockInv, SessInv, OwnInv, Locked, Dropping
<1>2. QED BY <1>1, CallInvInit DEF CoreInv

-----------------------------------------------------------------------------
(* The handles the sessions hold. *)

\* The reference a thread holds for its session, read from its own variables.
Own(t, c) ==
  IF pc[t] = "unlock" /\ ClassOf(op[t]) = c
    THEN h[t]
    ELSE IF pc[t] \in {"destroyobj", "clear"} /\ cls[t] = c THEN Nil ELSE key[sp[t]][c]

\* It is the one the session holds; a session no call has holds its keys.
LEMMA HeldOwn ==
  ASSUME CoreInv, NEW t \in Threads, pc[t] # "idle", NEW c \in Class
  PROVE  Held(sp[t], c) = Own(t, c)
BY RsaAssumption DEF CoreInv, CallInv, TypeOK, LockInv, SessInv, Locked, Held, Own

LEMMA HeldOwnNext ==
  ASSUME CoreInv', NEW t \in Threads, pc'[t] # "idle", NEW c \in Class
  PROVE  Held(sp[t], c)' = Own(t, c)'
BY RsaAssumption DEF CoreInv, CallInv, TypeOK, LockInv, SessInv, Locked, Held, Own

LEMMA HeldIdle ==
  ASSUME CoreInv, NEW s \in Sessions, \A t \in Threads : sp[t] # s, NEW c \in Class
  PROVE  Held(s, c) = key[s][c]
BY RsaAssumption DEF CoreInv, CallInv, TypeOK, Held

LEMMA HeldIdleNext ==
  ASSUME CoreInv', NEW s \in Sessions, \A t \in Threads : sp'[t] # s, NEW c \in Class
  PROVE  Held(s, c)' = key'[s][c]
BY RsaAssumption DEF CoreInv, CallInv, TypeOK, Held

\* A step changes nothing of what the other sessions hold.
LEMMA HeldFrame ==
  ASSUME CoreInv, CoreInv', NEW t \in Threads, Step(t),
         NEW s \in Sessions, s # sp[t], NEW c \in Class
  PROVE  Held(s, c)' = Held(s, c)
<1>a. TypeOK /\ key'[s] = key[s]
  BY Frame DEF CoreInv, CallInv
<1>1. CASE \E u \in Threads : sp[u] = s
  <2>1. PICK u \in Threads : sp[u] = s
    BY <1>1
  <2>2. /\ u # t /\ op'[u] = op[u] /\ pc'[u] = pc[u] /\ sp'[u] = sp[u]
        /\ cls'[u] = cls[u] /\ h'[u] = h[u]
    BY <1>a, <2>1, Frame
  <2>3. pc[u] # "idle"
    BY <2>1, RsaAssumption DEF CoreInv, SessInv
  <2>4. Held(s, c) = Own(u, c) /\ Held(s, c)' = Own(u, c)'
    <3>1. Held(sp[u], c) = Own(u, c)
      BY <2>3, HeldOwn
    <3>2. Held(sp[u], c)' = Own(u, c)'
      BY <2>2, <2>3, HeldOwnNext
    <3>3. Held(s, c)' = Own(u, c)'
      BY <2>1, <2>2, <3>2 DEF Held
    <3>4. QED BY <2>1, <3>1, <3>3
  <2>5. QED BY <1>a, <2>1, <2>2, <2>4 DEF Own
<1>2. CASE \A u \in Threads : sp[u] # s
  <2>1. \A u \in Threads : sp'[u] # s
    <3>1. sp'[t] # s
      BY <1>2, SessionMoves, RsaAssumption DEF CoreInv, CallInv
    <3>2. QED BY <1>a, <1>2, <3>1, Frame
  <2>2. QED BY <1>a, <1>2, <2>1, HeldIdle, HeldIdleNext
<1>3. QED BY <1>1, <1>2

\* A call changes nothing of what any session holds.
LEMMA HeldCall ==
  ASSUME CoreInv, CoreInv', NEW t \in Threads, Call(t), NEW s \in Sessions, NEW c \in Class
  PROVE  Held(s, c)' = Held(s, c)
<1>1. /\ lock # t /\ lock' = lock /\ key' = key /\ h' = h /\ cls' = cls
      /\ \A u \in Threads : u # t => pc'[u] = pc[u] /\ op'[u] = op[u] /\ sp'[u] = sp[u]
  <2>1. TypeOK /\ LockInv
    BY DEF CoreInv, CallInv
  <2>2. PICK q \in Sessions :
          /\ pc[t] = "idle" /\ sp' = [sp EXCEPT ![t] = q]
          /\ \A u \in Threads : u # t => pc'[u] = pc[u] /\ op'[u] = op[u]
          /\ UNCHANGED <<lock, key, h, cls>>
    BY <2>1, CallMoves
  <2>3. QED BY <2>1, <2>2 DEF TypeOK, LockInv, Locked
<1>2. CASE lock = Nil
  BY <1>1, <1>2 DEF Held
<1>3. CASE lock # Nil
  <2>1. lock \in Threads /\ lock # t
    BY <1>1, <1>3 DEF CoreInv, CallInv, TypeOK
  <2>2. pc'[lock] = pc[lock] /\ op'[lock] = op[lock] /\ sp'[lock] = sp[lock]
    BY <1>1, <2>1
  <2>3. QED BY <1>1, <2>2 DEF Held
<1>4. QED BY <1>2, <1>3

\* What the session of a step holds afterwards: what the thread then says,
\* or the session's keys when the call has ended.
OwnAfter(t, s, c) == IF pc'[t] = "idle" THEN key'[s][c] ELSE Own(t, c)'

LEMMA HeldAfter ==
  ASSUME CoreInv, CoreInv', NEW t \in Threads, Step(t),
         NEW s \in Sessions, s = sp[t], NEW c \in Class
  PROVE  Held(s, c) = Own(t, c) /\ Held(s, c)' = OwnAfter(t, s, c)
<1>a. TypeOK /\ pc[t] # "idle"
  BY RsaAssumption DEF CoreInv, CallInv, SessInv
<1>1. Held(s, c) = Own(t, c)
  BY <1>a, HeldOwn
<1>2. CASE pc'[t] = "idle"
  <2>1. sp'[t] # s
    BY <1>2, RsaAssumption DEF CoreInv, SessInv
  <2>2. \A u \in Threads : u # t => sp'[u] = sp[u] /\ sp[u] # s
    BY <1>a, Frame, RsaAssumption DEF CoreInv, SessInv
  <2>3. Held(s, c)' = key'[s][c]
    BY <2>1, <2>2, HeldIdleNext
  <2>4. QED BY <1>1, <1>2, <2>3 DEF OwnAfter
<1>3. CASE pc'[t] # "idle"
  <2>1. sp'[t] = s
    BY <1>a, <1>3, SessionMoves DEF CoreInv
  <2>2. Held(sp[t], c)' = Own(t, c)'
    BY <1>3, HeldOwnNext
  <2>3. Held(s, c)' = Own(t, c)'
    BY <2>1, <2>2 DEF Held
  <2>4. QED BY <1>1, <1>3, <2>3 DEF OwnAfter
<1>4. QED BY <1>2, <1>3

\* What a step does to the handles of its own session.
HeldMoves(t, s, c) ==
  \/ state'[s] = "lost"
  \/ OwnAfter(t, s, c) = Own(t, c)
  \/ /\ OwnAfter(t, s, c) = Nil /\ c = ClassOf(op[t])
     /\ NeedKey(t) \/ pc[t] \in {"find", "create", "hold"}
  \/ DropReference(t) /\ c = cls[t] /\ OwnAfter(t, s, c) = Nil
  \/ Hold(t) /\ c = ClassOf(op[t]) /\ OwnAfter(t, s, c) = h[t]
  \/ AttachPriv(t) /\ c = "priv" /\ OwnAfter(t, s, c) = h[t]

LEMMA HeldStep ==
  ASSUME CoreInv, "final" \notin Faults, NEW t \in Threads, Step(t),
         NEW s \in Sessions, s = sp[t], NEW c \in Class
  PROVE  HeldMoves(t, s, c)
<1>a. ClassOf(op[t]) \in Class /\ (op[t] = "refpriv" => ClassOf(op[t]) = "priv")
  BY ClassTyping DEF CoreInv, CallInv, TypeOK, ClassOf
<1>b. TypeOK /\ OwnInv
  BY DEF CoreInv, CallInv
<1> USE DEF TypeOK, OwnInv, HeldMoves, OwnAfter, Own, Goto, tokenVars, sessVars, callVars, locals
<1>1. CASE ProcessUri(t)
  BY <1>1, <1>a, <1>b DEF ProcessUri, LoseSession
<1>2. CASE FindOneObject(t)
  BY <1>2, <1>a, <1>b DEF FindOneObject, LoseSession
<1>3. CASE Check(t)
  BY <1>3, <1>a, <1>b DEF Check
<1>4. CASE DestroySkip(t)
  BY <1>4, <1>a, <1>b DEF DestroySkip, AfterDestroy
<1>5. CASE DestroyLock(t)
  BY <1>5, <1>a, <1>b DEF DestroyLock
<1>6. CASE DropReference(t)
  BY <1>6, <1>a, <1>b DEF DropReference
<1>7. CASE DestroyObject(t)
  BY <1>7, <1>a, <1>b DEF DestroyObject
<1>8. CASE DestroyClear(t)
  BY <1>8, <1>a, <1>b DEF DestroyClear, AfterDestroy
<1>9. CASE AttachPriv(t)
  BY <1>9, <1>a, <1>b DEF AttachPriv, LoseSession
<1>10. CASE AttachPub(t)
  BY <1>10, <1>a, <1>b DEF AttachPub, LoseSession
<1>11. CASE UseCached(t)
  BY <1>11, <1>a, <1>b DEF UseCached
<1>12. CASE FindLock(t)
  BY <1>12, <1>a, <1>b DEF FindLock, NeedKey
<1>13. CASE Find(t)
  BY <1>13, <1>a, <1>b DEF Find
<1>14. CASE Create(t)
  BY <1>14, <1>a, <1>b DEF Create
<1>15. CASE Hold(t)
  BY <1>15, <1>a, <1>b DEF Hold
<1>16. CASE Rollback(t)
  BY <1>16, <1>a, <1>b DEF Rollback
<1>17. CASE GetUnlock(t)
  BY <1>17, <1>a, <1>b DEF GetUnlock, StoreKey, LoseSession
<1>18. CASE TemplateFails(t)
  BY <1>18, <1>a, <1>b DEF TemplateFails, NeedKey, StoreKey, LoseSession
<1>19. CASE Use(t)
  BY <1>19, <1>a, <1>b DEF Use
<1>20. CASE ReturnSession(t)
  BY <1>20, <1>a, <1>b DEF ReturnSession
<1>21. QED BY <1>1, <1>2, <1>3, <1>4, <1>5, <1>6, <1>7, <1>8, <1>9, <1>10, <1>11, <1>12, <1>13, <1>14, <1>15, <1>16, <1>17, <1>18, <1>19, <1>20 DEF Step

\* What a step does to the token's objects: only under the lock.
ObjMoves(t) ==
  \/ obj' = obj
  \/ /\ pc[t] = "create" /\ pc'[t] = "hold" /\ h'[t] \in SHandles /\ obj[h'[t]] = Nil
     /\ obj' = [obj EXCEPT ![h'[t]] = [class |-> ClassOf(op[t]), pair |-> content[rsa[t]].pair]]
  \/ /\ DestroyObject(t) /\ key[sp[t]][cls[t]] \in SHandles
     /\ obj' = [obj EXCEPT ![key[sp[t]][cls[t]]] = Nil]
  \/ /\ Rollback(t) /\ ~found[t]
     /\ obj' = [obj EXCEPT ![h[t]] = Nil]

\* What a step does to the active list.
RefMoves(t) ==
  \/ ref' = ref
  \/ DropReference(t) /\ ref' = ActiveDelete(key[sp[t]][cls[t]])
  \/ Hold(t) /\ ref' = ActiveAdd(h[t])
  \/ AttachPriv(t) /\ h[t] \in TokenPairs /\ ref' = ActiveAdd(h[t])

LEMMA TokenStep ==
  ASSUME CoreInv, NEW t \in Threads, Step(t)
  PROVE  ObjMoves(t) /\ RefMoves(t)
<1>a. TypeOK /\ (pc[t] = "attach" => h[t] \in TokenPairs)
  BY DEF CoreInv, CallInv, RefOps
<1> USE DEF TypeOK, ObjMoves, RefMoves, Goto, tokenVars
<1>1. CASE ProcessUri(t)
  BY <1>1, <1>a DEF ProcessUri, LoseSession
<1>2. CASE FindOneObject(t)
  BY <1>2, <1>a DEF FindOneObject, LoseSession
<1>3. CASE Check(t)
  BY <1>3, <1>a DEF Check
<1>4. CASE DestroySkip(t)
  BY <1>4, <1>a DEF DestroySkip, AfterDestroy
<1>5. CASE DestroyLock(t)
  BY <1>5, <1>a DEF DestroyLock
<1>6. CASE DropReference(t)
  BY <1>6, <1>a DEF DropReference
<1>7. CASE DestroyObject(t)
  BY <1>7, <1>a DEF DestroyObject
<1>8. CASE DestroyClear(t)
  BY <1>8, <1>a DEF DestroyClear, AfterDestroy
<1>9. CASE AttachPriv(t)
  BY <1>9, <1>a DEF AttachPriv, LoseSession
<1>10. CASE AttachPub(t)
  BY <1>10, <1>a DEF AttachPub, LoseSession
<1>11. CASE UseCached(t)
  BY <1>11, <1>a DEF UseCached
<1>12. CASE FindLock(t)
  BY <1>12, <1>a DEF FindLock, NeedKey
<1>13. CASE Find(t)
  BY <1>13, <1>a DEF Find
<1>14. CASE Create(t)
  BY <1>14, <1>a DEF Create
<1>15. CASE Hold(t)
  BY <1>15, <1>a DEF Hold
<1>16. CASE Rollback(t)
  BY <1>16, <1>a DEF Rollback, WithoutCreated
<1>17. CASE GetUnlock(t)
  BY <1>17, <1>a DEF GetUnlock, StoreKey, LoseSession
<1>18. CASE TemplateFails(t)
  BY <1>18, <1>a DEF TemplateFails, NeedKey, StoreKey, LoseSession
<1>19. CASE Use(t)
  BY <1>19, <1>a DEF Use
<1>20. CASE ReturnSession(t)
  BY <1>20, <1>a DEF ReturnSession
<1>21. QED BY <1>1, <1>2, <1>3, <1>4, <1>5, <1>6, <1>7, <1>8, <1>9, <1>10, <1>11, <1>12, <1>13, <1>14, <1>15, <1>16, <1>17, <1>18, <1>19, <1>20 DEF Step

-----------------------------------------------------------------------------
(* No dangling handle. *)

\* The slots that hold a handle, in sessions a call can still be given.
UsableHolders(x) == {q \in Slots : state[q[1]] # "lost" /\ Held(q[1], q[2]) = x}

\* The slots are finitely many, and so are those that hold a handle.
LEMMA FiniteHolders ==
  /\ IsFiniteSet(Slots)
  /\ \A x : IsFiniteSet(UsableHolders(x)) /\ IsFiniteSet(UsableHolders(x)')
<1>1. IsFiniteSet({"pub"} \cup {"priv"})
  BY FS_Singleton, FS_Union
<1>2. IsFiniteSet(Class)
  <2>1. Class = {"pub"} \cup {"priv"}
    BY DEF Class
  <2>2. QED BY <1>1, <2>1
<1>3. IsFiniteSet(Slots)
  BY <1>2, FS_Product, RsaAssumption DEF Slots
<1>4. QED BY <1>3, FS_Subset DEF UsableHolders

\* Only taking a reference makes a usable session hold a handle it did not
\* hold; dropping it takes the handle away.
LEMMA HoldersStep ==
  ASSUME CoreInv, CoreInv', "final" \notin Faults, NEW t \in Threads, Step(t),
         NEW s \in Sessions, s = sp[t], NEW x \in Handles
  PROVE  /\ \A q \in UsableHolders(x)' :
              \/ q \in UsableHolders(x)
              \/ Hold(t) /\ q = <<s, ClassOf(op[t])>> /\ h[t] = x
              \/ AttachPriv(t) /\ q = <<s, "priv">> /\ h[t] = x
         /\ DropReference(t) /\ x = key[s][cls[t]] =>
               <<s, cls[t]>> \in UsableHolders(x) \ UsableHolders(x)'
<1>a. TypeOK /\ state[s] = "held"
  BY RsaAssumption DEF CoreInv, CallInv, SessInv
<1>b. x # Nil
  BY RsaAssumption DEF Handles
<1>1. ASSUME NEW q \in UsableHolders(x)'
      PROVE  \/ q \in UsableHolders(x)
             \/ Hold(t) /\ q = <<s, ClassOf(op[t])>> /\ h[t] = x
             \/ AttachPriv(t) /\ q = <<s, "priv">> /\ h[t] = x
  <2>1. PICK u \in Sessions, c \in Class : q = <<u, c>>
    BY DEF UsableHolders, Slots
  <2>2. state'[u] # "lost" /\ Held(u, c)' = x
    BY <2>1 DEF UsableHolders
  <2>a. q \in Slots /\ q[1] = u /\ q[2] = c
    BY <2>1 DEF Slots
  <2>3. CASE u # s
    <3>1. state'[u] = state[u] /\ Held(u, c)' = Held(u, c)
      BY <1>a, <2>3, Frame, HeldFrame
    <3>2. state[u] # "lost" /\ Held(u, c) = x
      BY <2>2, <3>1
    <3>3. QED BY <2>a, <3>2 DEF UsableHolders
  <2>4. CASE u = s
    <3>1. HeldMoves(t, s, c) /\ Held(s, c) = Own(t, c) /\ Held(s, c)' = OwnAfter(t, s, c)
      BY HeldStep, HeldAfter
    <3>2. Held(s, c)' = x
      BY <2>2, <2>4
    <3>3. \/ Held(s, c) = x
          \/ Hold(t) /\ c = ClassOf(op[t]) /\ h[t] = x
          \/ AttachPriv(t) /\ c = "priv" /\ h[t] = x
      <4> HIDE DEF Held
      <4>1. OwnAfter(t, s, c) = x /\ state'[s] # "lost"
        BY <2>2, <2>4, <3>1, <3>2
      <4>2. QED BY <1>b, <3>1, <4>1 DEF HeldMoves
    <3>4. QED BY <1>a, <2>1, <2>4, <3>3 DEF UsableHolders, Slots
  <2>5. QED BY <2>3, <2>4
<1>2. ASSUME DropReference(t), x = key[s][cls[t]]
      PROVE  <<s, cls[t]>> \in UsableHolders(x) \ UsableHolders(x)'
  <2>1. PICK c \in Class : c = cls[t]
    BY <1>a DEF TypeOK
  <2>2. pc[t] = "delete" /\ pc'[t] \in {"destroyobj", "clear"} /\ cls'[t] = cls[t]
    BY <1>2, <1>a DEF DropReference, Goto, TypeOK, locals
  <2>3. Held(s, c) = Own(t, c) /\ Held(s, c)' = OwnAfter(t, s, c)
    BY HeldAfter
  <2>4. Held(s, c) = x /\ Held(s, c)' = Nil
    BY <1>2, <2>1, <2>2, <2>3 DEF Own, OwnAfter
  <2>5. <<s, c>> \in UsableHolders(x) /\ <<s, c>> \notin UsableHolders(x)'
    BY <1>a, <1>b, <2>4 DEF UsableHolders, Slots
  <2>6. QED BY <2>1, <2>5
<1>3. QED BY <1>1, <1>2

\* Every usable holder is counted, and an object with a usable holder lives.
\* A thread that is about to destroy an object has dropped its last
\* reference; the one it is about to cache lives, and nobody holds the one
\* it has created.
HandlesLive ==
  \A s \in Sessions, c \in Class :
    state[s] # "lost" /\ Held(s, c) # Nil =>
      ObjectAt(Held(s, c)) # Nil /\ ObjectAt(Held(s, c)).class = c
RefsCover == \A x \in SHandles : Cardinality(UsableHolders(x)) <= ref[x]
WorkInv ==
  \A t \in Threads :
    /\ pc[t] = "destroyobj" /\ key[sp[t]][cls[t]] \in SHandles => ref[key[sp[t]][cls[t]]] = 0
    /\ pc[t] = "hold" => ObjectAt(h[t]) # Nil /\ ObjectAt(h[t]).class = ClassOf(op[t])
    /\ pc[t] = "hold" /\ ~found[t] => h[t] \in SHandles /\ UsableHolders(h[t]) = {}
DanglingInv == CoreInv /\ HandlesLive /\ RefsCover /\ WorkInv

LEMMA HeldTyping ==
  ASSUME TypeOK, NEW s \in Sessions, NEW c \in Class
  PROVE  Held(s, c) \in Handles \cup {Nil}
BY DEF TypeOK, Held

LEMMA HeldTypingNext ==
  ASSUME TypeOK', NEW s \in Sessions, NEW c \in Class
  PROVE  Held(s, c)' \in Handles \cup {Nil}
BY DEF TypeOK, Held

\* A handle with a usable holder keeps its object through every step.
LEMMA ObjectKept ==
  ASSUME DanglingInv, NEW t \in Threads, Step(t), NEW x \in Handles, UsableHolders(x) # {}
  PROVE  ObjectAt(x)' = ObjectAt(x)
<1>a. TypeOK /\ ObjMoves(t)
  BY TokenStep DEF DanglingInv, CoreInv, CallInv
<1>1. SUFFICES ASSUME x \in SHandles, obj'[x] # obj[x] PROVE FALSE
  BY DEF ObjectAt, Handles
<1>2. x \notin TokenPairs
  BY <1>1, RsaAssumption
<1>3. CASE /\ pc[t] = "create" /\ h'[t] \in SHandles /\ obj[h'[t]] = Nil
           /\ obj' = [obj EXCEPT ![h'[t]] = [class |-> ClassOf(op[t]), pair |-> content[rsa[t]].pair]]
  <2>1. x = h'[t] /\ obj[x] = Nil
    BY <1>1, <1>3, <1>a DEF TypeOK
  <2>2. PICK u \in Sessions, c \in Class : state[u] # "lost" /\ Held(u, c) = x
    BY DEF UsableHolders, Slots
  <2>3. ObjectAt(x) # Nil
    BY <2>2, <1>1, RsaAssumption DEF DanglingInv, HandlesLive
  <2>4. QED BY <1>2, <2>1, <2>3 DEF ObjectAt
<1>4. CASE DestroyObject(t) /\ obj' = [obj EXCEPT ![key[sp[t]][cls[t]]] = Nil]
  <2>1. x = key[sp[t]][cls[t]] /\ pc[t] = "destroyobj"
    BY <1>1, <1>4, <1>a DEF TypeOK, DestroyObject
  <2>2. ref[x] = 0
    BY <1>1, <2>1 DEF DanglingInv, WorkInv
  <2>3. Cardinality(UsableHolders(x)) = 0
    <3>1. Cardinality(UsableHolders(x)) \in Nat /\ Cardinality(UsableHolders(x)) <= ref[x]
      BY <1>1, FiniteHolders, FS_CardinalityType DEF DanglingInv, RefsCover
    <3>2. QED BY <2>2, <3>1
  <2>4. QED BY <2>3, FiniteHolders, FS_EmptySet
<1>5. CASE Rollback(t) /\ ~found[t] /\ obj' = [obj EXCEPT ![h[t]] = Nil]
  <2>1. x = h[t] /\ pc[t] = "hold"
    BY <1>1, <1>5, <1>a DEF TypeOK, Rollback
  <2>2. QED BY <1>5, <2>1 DEF DanglingInv, WorkInv
<1>6. QED BY <1>a, <1>1, <1>3, <1>4, <1>5 DEF ObjMoves

LEMMA HandlesLiveStep ==
  ASSUME DanglingInv, CoreInv', "final" \notin Faults, NEW t \in Threads, Step(t)
  PROVE  HandlesLive'
<1>a. TypeOK /\ TypeOK' /\ CoreInv
  BY DEF DanglingInv, CoreInv, CallInv
<1>b. PICK s \in Sessions : s = sp[t]
  BY <1>a, SessionMoves DEF CoreInv
<1> SUFFICES ASSUME NEW u \in Sessions, NEW c \in Class,
                    state'[u] # "lost", Held(u, c)' # Nil
             PROVE  ObjectAt(Held(u, c))' # Nil /\ ObjectAt(Held(u, c))'.class = c
  BY DEF HandlesLive
<1>1. PICK x \in Handles : x = Held(u, c)'
  BY <1>a, HeldTypingNext
<1>2. <<u, c>> \in UsableHolders(x)'
  BY <1>1 DEF UsableHolders, Slots
<1>3. CASE <<u, c>> \in UsableHolders(x)
  <2>1. Held(u, c) = x /\ state[u] # "lost"
    BY <1>3 DEF UsableHolders
  <2>2. ObjectAt(x) # Nil /\ ObjectAt(x).class = c
    BY <2>1, RsaAssumption DEF DanglingInv, HandlesLive, Handles
  <2>3. ObjectAt(x)' = ObjectAt(x)
    BY <1>3, ObjectKept
  <2>4. QED BY <1>1, <2>2, <2>3 DEF ObjectAt
<1>4. CASE Hold(t) /\ c = ClassOf(op[t]) /\ h[t] = x
  <2>1. pc[t] = "hold" /\ obj' = obj
    BY <1>4 DEF Hold
  <2>2. ObjectAt(x) # Nil /\ ObjectAt(x).class = c
    BY <1>4, <2>1 DEF DanglingInv, WorkInv
  <2>3. QED BY <1>1, <2>1, <2>2 DEF ObjectAt
<1>5. CASE AttachPriv(t) /\ c = "priv" /\ h[t] = x
  <2>1. x \in TokenPairs
    BY <1>5 DEF AttachPriv, DanglingInv, CoreInv, CallInv, RefOps
  <2>2. [class |-> "priv", pair |-> x] # Nil
    <3>1. [class |-> "priv", pair |-> x] \in Object
      BY <2>1, RsaAssumption DEF Object, Class
    <3>2. QED BY <3>1, RsaAssumption
  <2>3. QED BY <1>1, <1>5, <2>1, <2>2 DEF ObjectAt
<1>6. QED
  <2>1. \/ <<u, c>> \in UsableHolders(x)
        \/ Hold(t) /\ <<u, c>> = <<s, ClassOf(op[t])>> /\ h[t] = x
        \/ AttachPriv(t) /\ <<u, c>> = <<s, "priv">> /\ h[t] = x
    BY <1>a, <1>b, <1>2, HoldersStep
  <2>2. QED BY <2>1, <1>3, <1>4, <1>5

LEMMA RefsCoverStep ==
  ASSUME DanglingInv, CoreInv', "final" \notin Faults, NEW t \in Threads, Step(t)
  PROVE  RefsCover'
<1>a. TypeOK /\ CoreInv /\ RefMoves(t)
  BY TokenStep DEF DanglingInv, CoreInv, CallInv
<1>b. PICK s \in Sessions : s = sp[t]
  BY <1>a, SessionMoves DEF CoreInv
<1> SUFFICES ASSUME NEW x \in SHandles PROVE Cardinality(UsableHolders(x)') <= ref'[x]
  BY DEF RefsCover
<1>c. x \in Handles /\ x \notin TokenPairs /\ ref[x] \in Nat
  BY <1>a, RsaAssumption DEF Handles, TypeOK
<1>d. /\ IsFiniteSet(UsableHolders(x)) /\ IsFiniteSet(UsableHolders(x)')
      /\ Cardinality(UsableHolders(x)) \in Nat /\ Cardinality(UsableHolders(x)') \in Nat
      /\ Cardinality(UsableHolders(x)) <= ref[x]
  BY FiniteHolders, FS_CardinalityType DEF DanglingInv, RefsCover
<1>e. AttachPriv(t) => h[t] \in TokenPairs
  BY DEF AttachPriv, DanglingInv, CoreInv, CallInv, RefOps
<1>1. CASE Hold(t) /\ h[t] = x
  <2>1. UsableHolders(x)' \subseteq UsableHolders(x) \cup {<<s, ClassOf(op[t])>>}
    BY <1>a, <1>b, <1>c, <1>e, HoldersStep
  <2>2. ref'[x] = ref[x] + 1
    BY <1>1, <1>a, <1>c DEF Hold, ActiveAdd, TypeOK
  <2>3. /\ IsFiniteSet(UsableHolders(x) \cup {<<s, ClassOf(op[t])>>})
        /\ Cardinality(UsableHolders(x) \cup {<<s, ClassOf(op[t])>>}) <= Cardinality(UsableHolders(x)) + 1
    <3> DEFINE q == <<s, ClassOf(op[t])>>
               U == UsableHolders(x)
    <3>1. IsFiniteSet(U) /\ Cardinality(U) \in Nat
      BY <1>d
    <3>2. /\ IsFiniteSet(U \cup {q})
          /\ Cardinality(U \cup {q}) = IF q \in U THEN Cardinality(U) ELSE Cardinality(U) + 1
      <4> HIDE DEF q, U
      <4> QED BY <3>1, FS_AddElement
    <3>3. QED BY <3>1, <3>2
  <2>4. Cardinality(UsableHolders(x)') <= Cardinality(UsableHolders(x) \cup {<<s, ClassOf(op[t])>>})
    BY <2>1, <2>3, FS_Subset
  <2>5. Cardinality(UsableHolders(x) \cup {<<s, ClassOf(op[t])>>}) \in Nat
    BY <2>3, FS_CardinalityType
  <2>6. QED BY <1>c, <1>d, <2>2, <2>3, <2>4, <2>5
<1>2. CASE DropReference(t) /\ x = key[s][cls[t]]
  <2>1. <<s, cls[t]>> \in UsableHolders(x) \ UsableHolders(x)'
    BY <1>2, <1>a, <1>b, <1>c, HoldersStep
  <2>2. UsableHolders(x)' \subseteq UsableHolders(x) \ {<<s, cls[t]>>}
    <3>1. ~Hold(t) /\ ~AttachPriv(t)
      BY <1>2 DEF DropReference, Hold, AttachPriv
    <3>2. \A q \in UsableHolders(x)' : q \in UsableHolders(x)
      BY <3>1, <1>a, <1>b, <1>c, HoldersStep
    <3>3. QED BY <2>1, <3>2
  <2>3. /\ IsFiniteSet(UsableHolders(x) \ {<<s, cls[t]>>})
        /\ Cardinality(UsableHolders(x) \ {<<s, cls[t]>>}) = Cardinality(UsableHolders(x)) - 1
    BY <1>d, <2>1, FS_RemoveElement
  <2>4. Cardinality(UsableHolders(x)') <= Cardinality(UsableHolders(x)) - 1
    BY <2>2, <2>3, FS_Subset
  <2>5. ref'[x] = ref[x] - 1
    <3>1. ref' = ActiveDelete(x)
      BY <1>2, <1>b DEF DropReference
    <3>2. ref[x] # 0
      BY <1>c, <1>d, <2>4
    <3>3. QED BY <1>a, <1>c, <3>1, <3>2 DEF ActiveDelete, TypeOK
  <2>6. QED BY <1>c, <1>d, <2>4, <2>5
<1>3. CASE ~(Hold(t) /\ h[t] = x) /\ ~(DropReference(t) /\ x = key[s][cls[t]])
  <2>1. UsableHolders(x)' \subseteq UsableHolders(x)
    BY <1>3, <1>a, <1>b, <1>c, <1>e, HoldersStep
  <2>2. ref'[x] = ref[x]
    <3>1. CASE ref' = ref
      BY <3>1
    <3>2. CASE DropReference(t) /\ ref' = ActiveDelete(key[sp[t]][cls[t]])
      <4>1. key[sp[t]][cls[t]] # x
        BY <1>3, <1>b, <3>2
      <4>2. QED BY <1>a, <1>c, <3>2, <4>1 DEF ActiveDelete, TypeOK
    <3>3. CASE h[t] # x /\ ref' = ActiveAdd(h[t])
      BY <1>a, <1>c, <3>3 DEF ActiveAdd, TypeOK
    <3>4. QED BY <1>3, <1>a, <1>c, <3>1, <3>2, <3>3 DEF RefMoves
  <2>3. Cardinality(UsableHolders(x)') <= Cardinality(UsableHolders(x))
    BY <1>d, <2>1, FS_Subset
  <2>4. QED BY <1>c, <1>d, <2>2, <2>3
<1>4. QED BY <1>1, <1>2, <1>3

\* A thread whose lock is another's changes neither objects nor counts of
\* session objects.
LEMMA OthersWait ==
  ASSUME CoreInv, NEW t \in Threads, Step(t), NEW u \in Threads, u # t, pc[u] \in Locked
  PROVE  /\ obj' = obj /\ pc[t] \notin Locked
         /\ \A x \in SHandles : ref'[x] = ref[x]
<1>a. TypeOK /\ ObjMoves(t) /\ RefMoves(t)
  BY TokenStep DEF CoreInv, CallInv
<1>1. pc[t] \notin Locked
  BY DEF CoreInv, LockInv
<1>2. obj' = obj
  BY <1>1, <1>a DEF ObjMoves, DestroyObject, Rollback, Locked
<1>3. \A x \in SHandles : ref'[x] = ref[x]
  <2>1. ref' = ref \/ (h[t] \in TokenPairs /\ ref' = ActiveAdd(h[t]))
    BY <1>1, <1>a DEF RefMoves, DropReference, Hold, Locked
  <2>2. \A x \in SHandles : x \in Handles /\ x \notin TokenPairs
    BY RsaAssumption DEF Handles
  <2>3. QED BY <2>1, <2>2, <1>a DEF ActiveAdd, TypeOK
<1>4. QED BY <1>1, <1>2, <1>3

LEMMA WorkInvStep ==
  ASSUME DanglingInv, CoreInv', "final" \notin Faults, NEW t \in Threads, Step(t)
  PROVE  WorkInv'
<1>a. TypeOK /\ CoreInv /\ WorkInv
  BY DEF DanglingInv, CoreInv, CallInv
<1>b. PICK s \in Sessions : s = sp[t]
  BY <1>a, SessionMoves DEF CoreInv
<1>c. \A x \in Handles : ~Hold(t) /\ ~AttachPriv(t) => UsableHolders(x)' \subseteq UsableHolders(x)
  BY <1>a, <1>b, HoldersStep
<1> DEFINE Works(u) ==
      /\ pc[u] = "destroyobj" /\ key[sp[u]][cls[u]] \in SHandles => ref[key[sp[u]][cls[u]]] = 0
      /\ pc[u] = "hold" => ObjectAt(h[u]) # Nil /\ ObjectAt(h[u]).class = ClassOf(op[u])
      /\ pc[u] = "hold" /\ ~found[u] => h[u] \in SHandles /\ UsableHolders(h[u]) = {}
<1>1. ASSUME NEW u \in Threads, u # t PROVE Works(u)'
  <2>1. /\ pc'[u] = pc[u] /\ sp'[u] = sp[u] /\ op'[u] = op[u]
        /\ cls'[u] = cls[u] /\ h'[u] = h[u] /\ found'[u] = found[u]
    BY <1>a, <1>1, Frame
  <2>2. CASE pc[u] = "destroyobj"
    <3>1. \A x \in SHandles : ref'[x] = ref[x]
      BY <1>a, <1>1, <2>2, OthersWait DEF Locked
    <3>2. sp[u] \in Sessions /\ sp[u] # sp[t]
      BY <1>a, <1>1, <2>2 DEF CoreInv, SessInv, TypeOK
    <3>3. key'[sp[u]] = key[sp[u]]
      BY <1>a, <3>2, Frame
    <3>4. QED BY <1>a, <2>1, <2>2, <3>1, <3>3 DEF WorkInv
  <2>3. CASE pc[u] = "hold"
    <3>1. obj' = obj /\ pc[t] \notin Locked
      BY <1>a, <1>1, <2>3, OthersWait DEF Locked
    <3>2. ObjectAt(h[u])' = ObjectAt(h[u]) /\ ClassOf(op[u])' = ClassOf(op[u])
      BY <2>1, <3>1 DEF ObjectAt, ClassOf
    <3>3. ASSUME ~found[u] PROVE h'[u] \in SHandles /\ UsableHolders(h[u])' = {}
      <4>1. h[u] \in SHandles /\ UsableHolders(h[u]) = {}
        BY <1>a, <2>3, <3>3 DEF WorkInv
      <4>2. PICK x \in Handles : x = h[u] /\ x \in SHandles
        BY <4>1 DEF Handles
      <4>3. ~Hold(t) /\ (AttachPriv(t) => h[t] \in TokenPairs)
        BY <3>1 DEF Hold, Locked, AttachPriv, RefOps, DanglingInv, CoreInv, CallInv
      <4>4. \A q \in UsableHolders(x)' : q \in UsableHolders(x)
        BY <1>a, <1>b, <4>2, <4>3, HoldersStep, RsaAssumption
      <4>5. UsableHolders(x)' = {}
        BY <4>1, <4>2, <4>4
      <4>6. UsableHolders(h[u])' = UsableHolders(x)'
        BY <2>1, <4>2 DEF UsableHolders
      <4>7. QED BY <2>1, <4>1, <4>5, <4>6
    <3>4. QED BY <1>a, <2>1, <2>3, <3>2, <3>3 DEF WorkInv
  <2>4. QED BY <2>1, <2>2, <2>3
<1>2. Works(t)'
  <2>1. ASSUME pc'[t] = "destroyobj" PROVE ref'[key'[sp'[t]][cls'[t]]] = 0
    <3>1. DropReference(t)
      BY <1>a, <2>1, Arrivals
    <3>2. PICK x \in Handles : x = key[s][cls[t]]
      <4>1. key[s][cls[t]] # Nil
        BY <1>a, <1>b, <3>1 DEF DropReference, CoreInv, OwnInv, Dropping
      <4>2. key[s][cls[t]] \in Handles \cup {Nil}
        BY <1>a DEF TypeOK
      <4>3. QED BY <4>1, <4>2
    <3>3. ref'[x] = 0
      <4>1. ref' = ActiveDelete(x) /\ pc' = [pc EXCEPT ![t] = IF WasLast(x) THEN "destroyobj" ELSE "clear"]
        BY <1>b, <3>1, <3>2 DEF DropReference, Goto
      <4>2. ref[x] = 1
        BY <1>a, <2>1, <4>1 DEF WasLast, TypeOK
      <4>3. QED BY <1>a, <3>2, <4>1, <4>2 DEF ActiveDelete, TypeOK
    <3>4. key'[sp'[t]][cls'[t]] = x
      BY <1>b, <3>1, <3>2 DEF DropReference, sessVars, callVars, locals
    <3>5. QED BY <1>a, <3>2, <3>3, <3>4 DEF TypeOK
  <2>2. ASSUME pc'[t] = "hold"
        PROVE  /\ ObjectAt(h[t])' # Nil /\ ObjectAt(h[t])'.class = ClassOf(op[t])'
               /\ ~found'[t] => h'[t] \in SHandles /\ UsableHolders(h[t])' = {}
    <3>a. ClassOf(op[t]) \in Class /\ ClassOf(op[t])' = ClassOf(op[t])
      <4>1. op' = op
        BY <1>a, Frame
      <4>2. QED BY <1>a, <4>1, ClassTyping DEF TypeOK, ClassOf
    <3>b. HasRsa(t) => content[rsa[t]] \in Content /\ content[rsa[t]].pair \in Pairs
      <4>1. HasRsa(t) => content[rsa[t]] \in Content
        BY <1>a DEF CoreInv, CallInv, TypeOK
      <4>2. QED BY <4>1 DEF Content
    <3>1. CASE Find(t)
      <4>1. PICK x \in Matches(ClassOf(op[t]), content[rsa[t]]) :
              h' = [h EXCEPT ![t] = x] /\ found' = [found EXCEPT ![t] = TRUE]
        BY <1>a, <2>2, <3>1 DEF Find, Goto, TypeOK
      <4>2. pc[t] = "find" /\ obj' = obj /\ h'[t] = x /\ found'[t]
        BY <1>a, <3>1, <4>1 DEF Find, TypeOK, tokenVars
      <4>3. content[rsa[t]] \in Content
        BY <3>b, <4>2 DEF HasRsa, Destroying
      <4>4. ObjectAt(x) # Nil /\ ObjectAt(x).class = ClassOf(op[t])
        <5>1. CASE x \in TokenPairs /\ ClassOf(op[t]) = "priv"
          <6>1. [class |-> "priv", pair |-> x] \in Object
            BY <5>1, RsaAssumption DEF Object, Class
          <6>2. QED BY <5>1, <6>1, RsaAssumption DEF ObjectAt
        <5>2. CASE x \in SHandles /\ obj[x] = [class |-> ClassOf(op[t]), pair |-> content[rsa[t]].pair]
          <6>1. [class |-> ClassOf(op[t]), pair |-> content[rsa[t]].pair] \in Object
            BY <3>a, <4>3 DEF Object, Content
          <6>2. x \notin TokenPairs
            BY <5>2, RsaAssumption
          <6>3. QED BY <5>2, <6>1, <6>2, RsaAssumption DEF ObjectAt
        <5>3. QED BY <4>1, <5>1, <5>2 DEF Matches
      <4>5. ObjectAt(h[t])' = ObjectAt(x)
        BY <4>2 DEF ObjectAt
      <4>6. QED BY <3>a, <4>2, <4>4, <4>5
    <3>2. CASE Create(t)
      <4>1. PICK x \in SHandles : obj[x] = Nil /\ h'[t] = x
              /\ obj' = [obj EXCEPT ![x] = [class |-> ClassOf(op[t]), pair |-> content[rsa[t]].pair]]
        BY <1>a, <2>2, <3>2 DEF Create, Goto, TypeOK
      <4>2. pc[t] = "create"
        BY <3>2 DEF Create
      <4>3. [class |-> ClassOf(op[t]), pair |-> content[rsa[t]].pair] \in Object
        BY <3>a, <3>b, <4>2 DEF Object, HasRsa, Destroying
      <4>4. x \notin TokenPairs /\ x \in Handles
        BY RsaAssumption DEF Handles
      <4>5. ObjectAt(h[t])' # Nil /\ ObjectAt(h[t])'.class = ClassOf(op[t])
        BY <1>a, <4>1, <4>3, <4>4, RsaAssumption DEF ObjectAt, TypeOK
      <4>6. UsableHolders(x) = {}
        <5>1. SUFFICES ASSUME NEW q \in UsableHolders(x) PROVE FALSE
          OBVIOUS
        <5>2. PICK v \in Sessions, c \in Class : state[v] # "lost" /\ Held(v, c) = x
          BY DEF UsableHolders, Slots
        <5>3. ObjectAt(x) # Nil
          BY <5>2, RsaAssumption DEF DanglingInv, HandlesLive
        <5>4. QED BY <4>1, <4>4, <5>3 DEF ObjectAt
      <4>7. UsableHolders(x)' = {}
        <5>1. ~Hold(t) /\ ~AttachPriv(t)
          BY <4>2 DEF Hold, AttachPriv
        <5>2. QED BY <1>c, <4>4, <4>6, <5>1
      <4>8. UsableHolders(h[t])' = UsableHolders(x)'
        BY <4>1 DEF UsableHolders
      <4>9. QED BY <3>a, <4>1, <4>5, <4>7, <4>8
    <3>3. QED BY <1>a, <2>2, <3>1, <3>2, Arrivals
  <2>3. QED BY <2>1, <2>2
<1>3. QED BY <1>1, <1>2 DEF WorkInv

\* The application and the calls change neither objects nor holders.
LEMMA DanglingCall ==
  ASSUME DanglingInv, CoreInv', NEW t \in Threads, Call(t)
  PROVE  DanglingInv'
<1>a. TypeOK /\ CoreInv
  BY DEF DanglingInv, CoreInv, CallInv
<1>1. PICK w \in Sessions :
        /\ pc[t] = "idle" /\ pc'[t] \in {"check", "uri"}
        /\ state[w] \in {"free", "unborn"} /\ state' = [state EXCEPT ![w] = "held"]
        /\ sp' = [sp EXCEPT ![t] = w]
        /\ \A u \in Threads : u # t => pc'[u] = pc[u] /\ op'[u] = op[u]
        /\ UNCHANGED <<obj, ref, key, cls, h, found>>
  BY <1>a, CallMoves
<1>2. \A s \in Sessions, c \in Class : Held(s, c)' = Held(s, c)
  BY <1>a, HeldCall
<1>3. \A s \in Sessions : state'[s] = "lost" <=> state[s] = "lost"
  BY <1>a, <1>1 DEF TypeOK
<1>4. \A x : UsableHolders(x)' = UsableHolders(x)
  <2>1. \A q \in Slots : q[1] \in Sessions /\ q[2] \in Class
    BY DEF Slots
  <2>2. \A q \in Slots : (state'[q[1]] # "lost" <=> state[q[1]] # "lost") /\ Held(q[1], q[2])' = Held(q[1], q[2])
    BY <1>2, <1>3, <2>1
  <2>3. QED BY <2>2 DEF UsableHolders
<1>5. \A x : ObjectAt(x)' = ObjectAt(x)
  BY <1>1 DEF ObjectAt
<1>6. HandlesLive'
  BY <1>1, <1>2, <1>3, <1>5 DEF DanglingInv, HandlesLive, ObjectAt
<1>7. RefsCover'
  BY <1>1, <1>4 DEF DanglingInv, RefsCover
<1>8. WorkInv'
  BY <1>a, <1>1, <1>4, <1>5 DEF DanglingInv, WorkInv, TypeOK, ObjectAt, ClassOf
<1>9. QED BY <1>6, <1>7, <1>8 DEF DanglingInv

LEMMA DanglingInvInductive ==
  "final" \notin Faults => (DanglingInv /\ [Next]_vars => DanglingInv')
<1> SUFFICES ASSUME "final" \notin Faults, DanglingInv, [Next]_vars PROVE DanglingInv'
  OBVIOUS
<1>a. CoreInv'
  BY CoreInvInductive DEF DanglingInv
<1>1. ASSUME NEW t \in Threads, Step(t) PROVE DanglingInv'
  BY <1>a, <1>1, HandlesLiveStep, RefsCoverStep, WorkInvStep DEF DanglingInv
<1>2. ASSUME NEW t \in Threads, Call(t) PROVE DanglingInv'
  BY <1>a, <1>2, DanglingCall
<1>3. ASSUME UNCHANGED <<obj, ref, lock, state, key, pc, op, sp, cls, h, found>> PROVE DanglingInv'
  <2>1. \A s, c : Held(s, c)' = Held(s, c)
    BY <1>3 DEF Held
  <2>2. \A x : ObjectAt(x)' = ObjectAt(x) /\ UsableHolders(x)' = UsableHolders(x)
    BY <1>3, <2>1 DEF ObjectAt, UsableHolders
  <2>3. HandlesLive'
    BY <1>3, <2>1, <2>2 DEF DanglingInv, HandlesLive, ObjectAt
  <2>4. RefsCover' /\ WorkInv'
    BY <1>3, <2>1, <2>2 DEF DanglingInv, RefsCover, WorkInv, ObjectAt, UsableHolders
  <2>5. QED BY <1>a, <2>3, <2>4 DEF DanglingInv
<1>4. CASE UNCHANGED vars
  BY <1>3, <1>4 DEF vars, tokenVars, sessVars, callVars, locals
<1>5. ASSUME NEW r \in Rsas, FreeRsa(r) \/ \E p \in Pairs, d \in BOOLEAN : NewRsa(r, p, d)
      PROVE  DanglingInv'
  BY <1>3, <1>5, AppMoves
<1>6. QED BY <1>1, <1>2, <1>4, <1>5 DEF Next

LEMMA InitDangling == Init => DanglingInv
<1> SUFFICES ASSUME Init PROVE DanglingInv
  OBVIOUS
<1>1. CoreInv
  BY InitCore
<1>2. \A s \in Sessions, c \in Class : Held(s, c) = Nil
  BY DEF Init, Held
<1>3. \A x \in SHandles : x \in Handles /\ x # Nil
  BY RsaAssumption DEF Handles
<1>4. \A x \in SHandles : UsableHolders(x) = {}
  BY <1>2, <1>3 DEF UsableHolders, Slots
<1>5. RefsCover
  <2>1. \A x \in SHandles : ref[x] = 0
    BY <1>3 DEF Init
  <2>2. \A x \in SHandles : Cardinality(UsableHolders(x)) = 0
    BY <1>4, FiniteHolders, FS_EmptySet
  <2>3. QED BY <2>1, <2>2 DEF RefsCover
<1>6. HandlesLive /\ WorkInv
  BY <1>2 DEF HandlesLive, WorkInv, Init
<1>7. QED BY <1>1, <1>5, <1>6 DEF DanglingInv

\* A handle never outlives its object: whatever a session that can still be
\* used holds is an object of that class in the token, for all entry points
\* together and every failing call but C_FindObjectsFinal (which leaves the
\* caller a handle nobody counts).
THEOREM HandlesNeverDangle ==
  ASSUME "final" \notin Faults
  PROVE  Spec => []NoDanglingHandle
<1>1. DanglingInv => NoDanglingHandle
  BY DEF DanglingInv, HandlesLive, NoDanglingHandle
<1>2. QED BY <1>1, InitDangling, DanglingInvInductive, PTL DEF Spec

-----------------------------------------------------------------------------
(* No object is created twice. *)

\* The RSA structure a call works on changes under no other call.
LEMMA ContentKept ==
  ASSUME CoreInv, NEW t \in Threads, Step(t), NEW u \in Threads, u # t, HasRsa(u)
  PROVE  content'[rsa[u]] = content[rsa[u]]
<1>a. /\ TypeOK /\ rsa[u] \in Rsas /\ content[rsa[u]] # Nil
      /\ rsa[u] = rsa[t] => op[t] \in KeyOps
  BY RsaAssumption DEF CoreInv, CallInv
<1>b. rsa[u] \notin FreeAddresses
  BY <1>a DEF FreeAddresses
<1> USE DEF TypeOK, KeyOps
<1>1. CASE ProcessUri(t)
  BY <1>1, <1>a, <1>b DEF ProcessUri, LoseSession
<1>2. CASE FindOneObject(t)
  BY <1>2, <1>a, <1>b DEF FindOneObject, LoseSession
<1>3. CASE Check(t)
  BY <1>3, <1>a, <1>b DEF Check
<1>4. CASE DestroySkip(t)
  BY <1>4, <1>a, <1>b DEF DestroySkip, AfterDestroy
<1>5. CASE DestroyLock(t)
  BY <1>5, <1>a, <1>b DEF DestroyLock
<1>6. CASE DropReference(t)
  BY <1>6, <1>a, <1>b DEF DropReference
<1>7. CASE DestroyObject(t)
  BY <1>7, <1>a, <1>b DEF DestroyObject
<1>8. CASE DestroyClear(t)
  BY <1>8, <1>a, <1>b DEF DestroyClear, AfterDestroy
<1>9. CASE AttachPriv(t)
  BY <1>9, <1>a, <1>b DEF AttachPriv, LoseSession
<1>10. CASE AttachPub(t)
  BY <1>10, <1>a, <1>b DEF AttachPub, LoseSession
<1>11. CASE UseCached(t)
  BY <1>11, <1>a, <1>b DEF UseCached
<1>12. CASE FindLock(t)
  BY <1>12, <1>a, <1>b DEF FindLock, NeedKey
<1>13. CASE Find(t)
  BY <1>13, <1>a, <1>b DEF Find
<1>14. CASE Create(t)
  BY <1>14, <1>a, <1>b DEF Create
<1>15. CASE Hold(t)
  BY <1>15, <1>a, <1>b DEF Hold
<1>16. CASE Rollback(t)
  BY <1>16, <1>a, <1>b DEF Rollback
<1>17. CASE GetUnlock(t)
  BY <1>17, <1>a, <1>b DEF GetUnlock, StoreKey, LoseSession
<1>18. CASE TemplateFails(t)
  BY <1>18, <1>a, <1>b DEF TemplateFails, NeedKey, StoreKey, LoseSession
<1>19. CASE Use(t)
  BY <1>19, <1>a, <1>b DEF Use
<1>20. CASE ReturnSession(t)
  BY <1>20, <1>a, <1>b DEF ReturnSession
<1>21. QED BY <1>1, <1>2, <1>3, <1>4, <1>5, <1>6, <1>7, <1>8, <1>9, <1>10, <1>11, <1>12, <1>13, <1>14, <1>15, <1>16, <1>17, <1>18, <1>19, <1>20 DEF Step

LEMMA ContentKeptApp ==
  ASSUME CoreInv, NEW r \in Rsas, NEW u \in Threads, HasRsa(u),
         FreeRsa(r) \/ \E p \in Pairs, d \in BOOLEAN : NewRsa(r, p, d)
  PROVE  content'[rsa[u]] = content[rsa[u]]
<1>1. TypeOK /\ rsa[u] \in Rsas /\ content[rsa[u]] # Nil
  BY DEF CoreInv, CallInv
<1>2. rsa[u] # r
  BY <1>1 DEF FreeRsa, NewRsa
<1>3. QED BY <1>1, <1>2 DEF FreeRsa, NewRsa, TypeOK

LEMMA ContentKeptCall ==
  ASSUME CoreInv, NEW t \in Threads, Call(t), NEW u \in Threads, u # t, HasRsa(u)
  PROVE  content'[rsa[u]] = content[rsa[u]]
<1>1. TypeOK /\ rsa[u] \in Rsas /\ content[rsa[u]] # Nil
  BY DEF CoreInv, CallInv
<1>2. QED BY <1>1 DEF Call, CallKeyOp, CallLoadFile, CallLoadRef, TypeOK

\* While a thread is about to create an object the token has none like it.
CreateInv ==
  \A t \in Threads, x \in SHandles :
    pc[t] = "create" => obj[x] # [class |-> ClassOf(op[t]), pair |-> content[rsa[t]].pair]
DuplicateInv == CoreInv /\ NoDuplicateObjects /\ CreateInv

LEMMA DuplicateStep ==
  ASSUME DuplicateInv, NEW t \in Threads, Step(t)
  PROVE  NoDuplicateObjects' /\ CreateInv'
<1>a. TypeOK /\ CoreInv /\ ObjMoves(t) /\ op' = op
  BY TokenStep, Frame DEF DuplicateInv, CoreInv, CallInv
<1>1. NoDuplicateObjects'
  <2> SUFFICES ASSUME NEW x \in SHandles, NEW y \in SHandles, obj'[x] # Nil, obj'[x] = obj'[y], x # y
               PROVE  FALSE
    BY DEF NoDuplicateObjects
  <2>1. ~(obj[x] # Nil /\ obj[x] = obj[y])
    BY DEF DuplicateInv, NoDuplicateObjects
  <2>2. CASE obj' = obj
    BY <2>1, <2>2
  <2>3. CASE \E z \in SHandles : obj' = [obj EXCEPT ![z] = Nil]
    BY <1>a, <2>1, <2>3 DEF TypeOK
  <2>4. CASE /\ pc[t] = "create" /\ h'[t] \in SHandles
             /\ obj' = [obj EXCEPT ![h'[t]] = [class |-> ClassOf(op[t]), pair |-> content[rsa[t]].pair]]
    <3>1. \A z \in SHandles : obj[z] # [class |-> ClassOf(op[t]), pair |-> content[rsa[t]].pair]
      BY <2>4 DEF DuplicateInv, CreateInv
    <3>2. QED BY <1>a, <2>1, <2>4, <3>1 DEF TypeOK
  <2>5. CASE Rollback(t) /\ obj' = [obj EXCEPT ![h[t]] = Nil]
    BY <1>a, <2>1, <2>5 DEF TypeOK
  <2>6. QED BY <1>a, <2>2, <2>3, <2>4, <2>5 DEF ObjMoves
<1>2. ASSUME NEW u \in Threads, u # t, pc'[u] = "create", NEW x \in SHandles
      PROVE  obj'[x] # [class |-> ClassOf(op[u])', pair |-> content'[rsa'[u]].pair]
  <2>1. pc[u] = "create" /\ rsa'[u] = rsa[u] /\ ClassOf(op[u])' = ClassOf(op[u])
    BY <1>a, <1>2, Frame DEF ClassOf
  <2>2. obj' = obj
    BY <1>a, <1>2, <2>1, OthersWait DEF Locked
  <2>3. content'[rsa[u]] = content[rsa[u]]
    BY <1>a, <1>2, <2>1, ContentKept DEF HasRsa, Destroying
  <2>4. QED BY <2>1, <2>2, <2>3 DEF DuplicateInv, CreateInv
<1>3. ASSUME pc'[t] = "create", NEW x \in SHandles
      PROVE  obj'[x] # [class |-> ClassOf(op[t])', pair |-> content'[rsa'[t]].pair]
  <2>1. Find(t)
    BY <1>a, <1>3, Arrivals
  <2>2. obj' = obj /\ content' = content /\ rsa' = rsa /\ ClassOf(op[t])' = ClassOf(op[t])
    BY <2>1, <1>a DEF Find, tokenVars, callVars, ClassOf
  <2>3. Matches(ClassOf(op[t]), content[rsa[t]]) = {}
        /\ ~(ClassOf(op[t]) = "priv" /\ ~content[rsa[t]].d)
    BY <1>a, <1>3, <2>1 DEF Find, Goto, TypeOK
  <2>4. QED BY <2>2, <2>3 DEF Matches
<1>4. QED BY <1>1, <1>2, <1>3 DEF CreateInv

LEMMA DuplicateInvInductive == DuplicateInv /\ [Next]_vars => DuplicateInv'
<1> SUFFICES ASSUME DuplicateInv, [Next]_vars PROVE DuplicateInv'
  OBVIOUS
<1>a. CoreInv /\ CoreInv' /\ TypeOK
  BY CoreInvInductive DEF DuplicateInv, CoreInv, CallInv
<1>1. ASSUME NEW t \in Threads, Step(t) PROVE DuplicateInv'
  BY <1>a, <1>1, DuplicateStep DEF DuplicateInv
<1>2. ASSUME NEW t \in Threads, Call(t) PROVE DuplicateInv'
  <2>1. /\ pc'[t] # "create" /\ obj' = obj
        /\ \A u \in Threads : u # t => pc'[u] = pc[u] /\ rsa'[u] = rsa[u] /\ op'[u] = op[u]
    <3>1. pc'[t] \in {"check", "uri"} /\ obj' = obj
      BY <1>a, <1>2, CallMoves
    <3>2. \A u \in Threads : u # t => pc'[u] = pc[u] /\ rsa'[u] = rsa[u] /\ op'[u] = op[u]
      BY <1>a, <1>2, CallMoves
    <3>3. QED BY <3>1, <3>2
  <2>2. \A u \in Threads : pc'[u] = "create" =>
          pc[u] = "create" /\ content'[rsa[u]] = content[rsa[u]] /\ ClassOf(op[u])' = ClassOf(op[u])
    BY <1>a, <1>2, <2>1, ContentKeptCall DEF HasRsa, Destroying, ClassOf
  <2>3. QED BY <1>a, <2>1, <2>2 DEF DuplicateInv, NoDuplicateObjects, CreateInv
<1>3. ASSUME NEW r \in Rsas, FreeRsa(r) \/ \E p \in Pairs, d \in BOOLEAN : NewRsa(r, p, d)
      PROVE  DuplicateInv'
  <2>1. UNCHANGED <<obj, pc, rsa, op>>
    BY <1>3, AppMoves
  <2>2. \A u \in Threads : pc[u] = "create" => content'[rsa[u]] = content[rsa[u]]
    BY <1>a, <1>3, ContentKeptApp DEF HasRsa, Destroying
  <2>3. QED BY <1>a, <2>1, <2>2 DEF DuplicateInv, NoDuplicateObjects, CreateInv, ClassOf
<1>4. CASE UNCHANGED vars
  BY <1>4, <1>a DEF vars, tokenVars, callVars, DuplicateInv, NoDuplicateObjects, CreateInv, ClassOf
<1>5. QED BY <1>1, <1>2, <1>3, <1>4 DEF Next

\* Finding a key and creating it when it is not there is one step under the
\* find lock: no two objects of the token are the same key, whatever the
\* threads, entry points and failing calls.
THEOREM KeysAreCreatedOnce == Spec => []NoDuplicateObjects
<1>1. Init => DuplicateInv
  BY InitCore DEF Init, DuplicateInv, NoDuplicateObjects, CreateInv
<1>2. DuplicateInv => NoDuplicateObjects
  BY DEF DuplicateInv
<1>3. QED BY <1>1, <1>2, DuplicateInvInductive, PTL DEF Spec

-----------------------------------------------------------------------------
(* Nothing is left behind. *)

\* An object in the token is referenced, or the thread that has the lock is
\* about to destroy it, or has just created it and is about to count it.
Kept(x) ==
  \/ ref[x] > 0
  \/ \E t \in Threads :
       \/ pc[t] = "destroyobj" /\ key[sp[t]][cls[t]] = x
       \/ pc[t] = "hold" /\ ~found[t] /\ h[t] = x
ObjectsKept == \A x \in SHandles : obj[x] # Nil => Kept(x)

\* Only loading a private key by reference makes a session persistent.
Transient ==
  /\ \A t \in Threads : op[t] # "refpriv" /\ (pc[t] = "create" => ~found[t])
  /\ \A s \in Sessions : ~persistent[s]
OrphanInv == CoreInv /\ Transient /\ ObjectsKept

LEMMA TransientStep ==
  ASSUME OrphanInv, NEW t \in Threads, Step(t)
  PROVE  Transient'
<1>a. TypeOK /\ CoreInv /\ op' = op
  BY Frame DEF OrphanInv, CoreInv, CallInv
<1>1. persistent' = persistent
  <2>1. ~AttachPriv(t)
    BY DEF AttachPriv, OrphanInv, Transient
  <2>2. QED BY <2>1 DEF Step, ProcessUri, FindOneObject, Check, DestroySkip, DestroyLock, DropReference, DestroyObject, DestroyClear, AttachPub, UseCached, FindLock, Find, Create, Hold, Rollback, GetUnlock, TemplateFails, StoreKey, Use, ReturnSession, sessVars
<1>2. pc'[t] = "create" => ~found'[t]
  BY <1>a, Arrivals DEF Find, Goto, TypeOK
<1>3. \A u \in Threads : u # t => pc'[u] = pc[u] /\ found'[u] = found[u]
  BY <1>a, Frame
<1>4. QED BY <1>a, <1>1, <1>2, <1>3 DEF OrphanInv, Transient

LEMMA KeptStep ==
  ASSUME OrphanInv, "destroy" \notin Faults, NEW t \in Threads, Step(t),
         NEW x \in SHandles, obj'[x] # Nil
  PROVE  Kept(x)'
<1>a. TypeOK /\ CoreInv /\ ObjMoves(t) /\ RefMoves(t)
  BY TokenStep DEF OrphanInv, CoreInv, CallInv
<1>b. x \in Handles /\ x \notin TokenPairs /\ ref[x] \in Nat
  BY <1>a, RsaAssumption DEF Handles, TypeOK
<1>1. CASE obj[x] = Nil
  <2>1. pc[t] = "create" /\ pc'[t] = "hold" /\ h'[t] = x
    BY <1>a, <1>1 DEF ObjMoves, TypeOK
  <2>2. ~found[t] /\ found' = found
    BY <1>a, <2>1, Arrivals DEF OrphanInv, Transient, Create, Find
  <2>3. QED BY <2>1, <2>2 DEF Kept
<1>2. CASE ref[x] > 0
  <2>1. CASE DropReference(t) /\ key[sp[t]][cls[t]] = x
    <3>1. /\ ref' = [ref EXCEPT ![x] = ref[x] - 1]
          /\ pc' = [pc EXCEPT ![t] = IF ref[x] = 1 THEN "destroyobj" ELSE "clear"]
          /\ UNCHANGED <<key, sp, cls>>
      BY <1>2, <1>b, <2>1 DEF DropReference, ActiveDelete, WasLast, Goto, sessVars, callVars, locals
    <3>2. CASE ref[x] = 1
      BY <1>a, <2>1, <3>1, <3>2 DEF Kept, TypeOK
    <3>3. CASE ref[x] # 1
      BY <1>a, <1>b, <1>2, <3>1, <3>3 DEF Kept, TypeOK
    <3>4. QED BY <3>2, <3>3
  <2>2. CASE ~(DropReference(t) /\ key[sp[t]][cls[t]] = x)
    <3>1. ref'[x] > 0
      <4>1. CASE ref' = ref
        BY <1>2, <4>1
      <4>2. CASE DropReference(t) /\ ref' = ActiveDelete(key[sp[t]][cls[t]])
        BY <1>a, <1>b, <1>2, <2>2, <4>2 DEF ActiveDelete, TypeOK
      <4>3. CASE ref' = ActiveAdd(h[t])
        BY <1>a, <1>b, <1>2, <4>3 DEF ActiveAdd, TypeOK
      <4>4. QED BY <1>a, <4>1, <4>2, <4>3 DEF RefMoves
    <3>2. QED BY <3>1 DEF Kept
  <2>3. QED BY <2>1, <2>2
<1>3. ASSUME NEW u \in Threads, u # t,
             \/ pc[u] = "destroyobj" /\ key[sp[u]][cls[u]] = x
             \/ pc[u] = "hold" /\ ~found[u] /\ h[u] = x
      PROVE  Kept(x)'
  <2>1. /\ pc'[u] = pc[u] /\ sp'[u] = sp[u] /\ cls'[u] = cls[u]
        /\ h'[u] = h[u] /\ found'[u] = found[u]
    BY <1>a, <1>3, Frame
  <2>2. sp[u] \in Sessions /\ sp[u] # sp[t]
    BY <1>a, <1>3 DEF CoreInv, SessInv, TypeOK
  <2>3. key'[sp[u]] = key[sp[u]]
    BY <1>a, <2>2, Frame
  <2>4. QED BY <1>3, <2>1, <2>3 DEF Kept
<1>4. CASE pc[t] = "destroyobj" /\ key[sp[t]][cls[t]] = x
  <2>1. DestroyObject(t)
    BY <1>4, Departures
  <2>2. sp[t] \in Sessions
    BY <1>a, <1>4 DEF CoreInv, SessInv, TypeOK
  <2>3. obj' = [obj EXCEPT ![x] = Nil]
    BY <1>b, <1>4, <2>1, <2>2 DEF DestroyObject, OrphanInv, Transient
  <2>4. QED BY <1>a, <2>3 DEF TypeOK
<1>5. CASE pc[t] = "hold" /\ ~found[t] /\ h[t] = x
  <2>1. CASE Hold(t)
    <3>1. ref' = [ref EXCEPT ![x] = ref[x] + 1]
      BY <1>5, <2>1 DEF Hold, ActiveAdd
    <3>2. QED BY <1>a, <1>b, <3>1 DEF Kept, TypeOK
  <2>2. CASE Rollback(t)
    <3>1. obj' = [obj EXCEPT ![x] = Nil]
      BY <1>5, <2>2 DEF Rollback, WithoutCreated
    <3>2. QED BY <1>a, <3>1 DEF TypeOK
  <2>3. QED BY <1>5, <2>1, <2>2, Departures
<1>6. QED BY <1>1, <1>2, <1>3, <1>4, <1>5 DEF OrphanInv, ObjectsKept, Kept

LEMMA OrphanInvInductive ==
  ASSUME "refpriv" \notin Ops, "destroy" \notin Faults
  PROVE  OrphanInv /\ [Next]_vars => OrphanInv'
<1> SUFFICES ASSUME OrphanInv, [Next]_vars PROVE OrphanInv'
  OBVIOUS
<1>a. CoreInv /\ CoreInv' /\ TypeOK
  BY CoreInvInductive DEF OrphanInv, CoreInv, CallInv
<1>1. ASSUME NEW t \in Threads, Step(t) PROVE OrphanInv'
  BY <1>a, <1>1, TransientStep, KeptStep DEF OrphanInv, ObjectsKept
<1>2. ASSUME NEW t \in Threads, Call(t) PROVE OrphanInv'
  <2>1. PICK w \in Sessions :
          /\ pc[t] = "idle" /\ pc'[t] \in {"check", "uri"} /\ op'[t] \in Ops
          /\ sp' = [sp EXCEPT ![t] = w]
          /\ \A u \in Threads : u # t => pc'[u] = pc[u] /\ op'[u] = op[u]
          /\ UNCHANGED <<obj, ref, key, persistent, cls, h, found>>
    BY <1>a, <1>2, CallMoves
  <2>2. \A x \in SHandles : Kept(x) => Kept(x)'
    BY <1>a, <2>1 DEF Kept, TypeOK
  <2>3. Transient'
    BY <2>1 DEF OrphanInv, Transient
  <2>4. QED BY <1>a, <2>1, <2>2, <2>3 DEF OrphanInv, ObjectsKept
<1>3. ASSUME UNCHANGED <<obj, ref, key, persistent, pc, op, sp, cls, h, found>> PROVE OrphanInv'
  BY <1>a, <1>3 DEF OrphanInv, Transient, ObjectsKept, Kept
<1>4. ASSUME NEW r \in Rsas, FreeRsa(r) \/ \E p \in Pairs, d \in BOOLEAN : NewRsa(r, p, d)
      PROVE  OrphanInv'
  BY <1>3, <1>4, AppMoves
<1>5. CASE UNCHANGED vars
  BY <1>3, <1>5 DEF vars, tokenVars, sessVars, callVars, locals
<1>6. QED BY <1>1, <1>2, <1>4, <1>5 DEF Next

\* No session object is left in the token once nobody references it: of all
\* entry points but pk11_load_privkey by reference (which makes its session
\* persistent, so that nothing of it is destroyed any more), whatever fails
\* except C_DestroyObject itself.
THEOREM NothingLeftBehind ==
  ASSUME "refpriv" \notin Ops, "destroy" \notin Faults
  PROVE  Spec => []NoOrphan
<1>1. Init => OrphanInv
  BY InitCore DEF Init, OrphanInv, Transient, ObjectsKept
<1>2. OrphanInv => NoOrphan
  BY RsaAssumption DEF OrphanInv, CoreInv, LockInv, Locked, ObjectsKept, Kept, NoOrphan
<1>3. QED BY <1>1, <1>2, OrphanInvInductive, PTL DEF Spec

-----------------------------------------------------------------------------
(* With operations on the application's keys only, the counts are exact and  *)
(* the sessions and the token implement ObjectStore.                         *)

\* No session is ever lost, and a thread that makes a key has none cached.
KeyOpsInv ==
  /\ \A t \in Threads :
       /\ op[t] \in KeyOps
       /\ pc[t] \in {"find", "create", "hold", "unlock"} => key[sp[t]][ClassOf(op[t])] = Nil
  /\ \A s \in Sessions : state[s] # "lost"
RefsInv == DanglingInv /\ KeyOpsInv /\ RefsExact

LEMMA KeyOpsStep ==
  ASSUME CoreInv, KeyOpsInv, NEW t \in Threads, Step(t)
  PROVE  KeyOpsInv'
<1>a. TypeOK /\ op' = op /\ sp[t] \in Sessions
  BY Frame, SessionMoves DEF CoreInv, CallInv
<1>b. op[t] \in KeyOps /\ op[t] \notin RefOps /\ op[t] \notin {"filepriv", "refpub"}
  BY DEF KeyOpsInv, KeyOps, RefOps
<1>1. state'[sp[t]] # "lost"
  <2>1. pc[t] \notin {"uri", "findone", "attach"}
    BY <1>b DEF CoreInv, CallInv
  <2>2. state' = state \/ ReturnSession(t)
    BY <1>b, <2>1 DEF Step, ProcessUri, FindOneObject, Check, DestroySkip, DestroyLock, DropReference, DestroyObject, DestroyClear, AttachPriv, AttachPub, UseCached, FindLock, Find, Create, Hold, Rollback, GetUnlock, TemplateFails, StoreKey, Use, sessVars
  <2>3. QED BY <1>a, <2>2 DEF ReturnSession, TypeOK, KeyOpsInv
<1>2. ASSUME NEW u \in Threads, u # t, pc'[u] \in {"find", "create", "hold", "unlock"}
      PROVE  key'[sp'[u]][ClassOf(op[u])'] = Nil
  <2>1. pc'[u] = pc[u] /\ sp'[u] = sp[u] /\ ClassOf(op[u])' = ClassOf(op[u])
    BY <1>a, <1>2, Frame DEF ClassOf
  <2>2. sp[u] \in Sessions /\ sp[u] # sp[t]
    BY <1>a, <1>2, <2>1 DEF CoreInv, SessInv, TypeOK
  <2>3. key'[sp[u]] = key[sp[u]]
    BY <1>a, <2>2, Frame
  <2>4. QED BY <1>2, <2>1, <2>3 DEF KeyOpsInv
<1>3. ASSUME pc'[t] \in {"find", "create", "hold", "unlock"}
      PROVE  key'[sp'[t]][ClassOf(op[t])'] = Nil
  <2>1. ClassOf(op[t])' = ClassOf(op[t])
    BY <1>a DEF ClassOf
  <2>2. FindLock(t) \/ Find(t) \/ Create(t) \/ Hold(t) \/ Rollback(t)
    BY <1>a, <1>3, Arrivals
  <2>3. key' = key /\ sp' = sp
    BY <2>2 DEF FindLock, Find, Create, Hold, Rollback, sessVars, callVars
  <2>4. key[sp[t]][ClassOf(op[t])] = Nil
    BY <1>b, <2>2 DEF KeyOpsInv, KeyOps, FindLock, NeedKey, Find, Create, Hold, Rollback
  <2>5. QED BY <2>1, <2>3, <2>4
<1>4. \A s \in Sessions : s # sp[t] => state'[s] = state[s]
  BY <1>a, Frame
<1>5. QED BY <1>a, <1>1, <1>2, <1>3, <1>4 DEF KeyOpsInv

\* Caching a handle fills one empty slot, dropping a reference empties one,
\* and no other step changes what any session holds.
LEMMA HeldMapStep ==
  ASSUME CoreInv, CoreInv', KeyOpsInv, KeyOpsInv', "final" \notin Faults,
         NEW t \in Threads, Step(t)
  PROVE  \E s \in Sessions, c \in Class :
           /\ s = sp[t]
           /\ \/ /\ Hold(t) /\ HeldMap[<<s, c>>] = Nil
                 /\ HeldMap' = [HeldMap EXCEPT ![<<s, c>>] = h[t]]
              \/ /\ DropReference(t) /\ c = cls[t] /\ HeldMap[<<s, c>>] = key[s][c]
                 /\ HeldMap' = [HeldMap EXCEPT ![<<s, c>>] = Nil]
              \/ /\ ~Hold(t) /\ ~DropReference(t)
                 /\ HeldMap' = HeldMap
<1>a. TypeOK
  BY DEF CoreInv, CallInv
<1>b. PICK s \in Sessions : s = sp[t]
  BY <1>a, SessionMoves DEF CoreInv
<1>c. \A q \in Slots : \E u \in Sessions, c \in Class : q = <<u, c>>
  BY DEF Slots
<1>d. \A u \in Sessions, c \in Class :
        <<u, c>> \in Slots /\ HeldMap[<<u, c>>] = Held(u, c) /\ HeldMap'[<<u, c>>] = Held(u, c)'
  BY DEF HeldMap, Slots
<1>e. ~AttachPriv(t)
  BY DEF AttachPriv, KeyOpsInv, KeyOps
<1>1. \A u \in Sessions, c \in Class : u # s => Held(u, c)' = Held(u, c)
  BY <1>b, HeldFrame
<1>2. \A c \in Class :
        /\ HeldMoves(t, s, c) /\ Held(s, c) = Own(t, c) /\ Held(s, c)' = OwnAfter(t, s, c)
        /\ state'[s] # "lost"
  BY <1>b, HeldStep, HeldAfter DEF KeyOpsInv
<1>3. ASSUME NEW c \in Class, c = ClassOf(op[t]),
             NeedKey(t) \/ pc[t] \in {"find", "create", "hold"}
      PROVE  Own(t, c) = Nil
  BY <1>3 DEF Own, NeedKey, KeyOpsInv, KeyOps
<1>4. CASE Hold(t)
  <2>1. PICK c \in Class : c = ClassOf(op[t])
    BY <1>a, ClassTyping DEF TypeOK
  <2>2. pc[t] = "hold" /\ pc'[t] = "unlock" /\ h' = h /\ op' = op
    BY <1>a, <1>4 DEF Hold, Goto, TypeOK, callVars, locals
  <2>3. Held(s, c) = Nil /\ Held(s, c)' = h[t]
    <3>1. OwnAfter(t, s, c) = h[t]
      BY <2>1, <2>2 DEF OwnAfter, Own, ClassOf
    <3>2. QED BY <1>2, <1>3, <2>1, <2>2, <3>1
  <2>4. \A d \in Class : d # c => Held(s, d)' = Held(s, d)
    <3>1. key' = key /\ sp' = sp
      BY <1>4 DEF Hold, callVars
    <3>2. \A d \in Class : d # c => OwnAfter(t, s, d) = Own(t, d)
      BY <1>b, <2>1, <2>2, <3>1 DEF OwnAfter, Own, ClassOf
    <3>3. QED BY <1>2, <3>2
  <2>5. HeldMap' = [HeldMap EXCEPT ![<<s, c>>] = h[t]]
    <3>1. \A q \in Slots : HeldMap'[q] = IF q = <<s, c>> THEN h[t] ELSE HeldMap[q]
      BY <1>c, <1>d, <1>1, <2>3, <2>4
    <3>2. QED BY <1>d, <3>1 DEF HeldMap
  <2>6. QED BY <1>b, <1>d, <1>4, <2>3, <2>5
<1>5. CASE DropReference(t)
  <2>1. PICK c \in Class : c = cls[t]
    BY <1>a DEF TypeOK
  <2>2. /\ pc[t] = "delete" /\ pc'[t] \in {"destroyobj", "clear"}
        /\ UNCHANGED <<key, sp, op, cls, h>>
    BY <1>a, <1>5 DEF DropReference, Goto, TypeOK, sessVars, callVars, locals
  <2>3. Held(s, c) = key[s][c] /\ Held(s, c)' = Nil
    <3>1. OwnAfter(t, s, c) = Nil /\ Own(t, c) = key[s][c]
      BY <1>b, <2>1, <2>2 DEF OwnAfter, Own
    <3>2. QED BY <1>2, <3>1
  <2>4. \A d \in Class : d # c => Held(s, d)' = Held(s, d)
    <3>1. \A d \in Class : d # c => OwnAfter(t, s, d) = Own(t, d)
      BY <1>b, <2>1, <2>2 DEF OwnAfter, Own
    <3>2. QED BY <1>2, <3>1
  <2>5. HeldMap' = [HeldMap EXCEPT ![<<s, c>>] = Nil]
    <3>1. \A q \in Slots : HeldMap'[q] = IF q = <<s, c>> THEN Nil ELSE HeldMap[q]
      BY <1>c, <1>d, <1>1, <2>3, <2>4
    <3>2. QED BY <1>d, <3>1 DEF HeldMap
  <2>6. QED BY <1>b, <1>d, <1>5, <2>1, <2>3, <2>5
<1>6. CASE ~Hold(t) /\ ~DropReference(t)
  <2>1. \A c \in Class : Held(s, c)' = Held(s, c)
    BY <1>e, <1>2, <1>3, <1>6 DEF HeldMoves
  <2>2. \A q \in Slots : HeldMap'[q] = HeldMap[q]
    BY <1>c, <1>d, <1>1, <2>1
  <2>3. HeldMap' = HeldMap
    BY <2>2 DEF HeldMap
  <2>4. \E c : c \in Class
    BY DEF Class
  <2>5. QED BY <1>b, <1>6, <2>3, <2>4
<1>7. QED BY <1>4, <1>5, <1>6

\* The arguments at which a function has a value.
At(f, S, x) == {p \in S : f[p] = x}

\* Two functions on the finite set S that agree everywhere but at q.
SameBut(f, g, S, q) ==
  IsFiniteSet(S) /\ q \in S /\ \A p \in S : p # q => g[p] = f[p]

\* Filling a slot with a value adds one holder of it (emptying it, from g to
\* f, takes one away); holders of other values stay.
LEMMA FillSlot ==
  ASSUME NEW S, NEW f, NEW g, NEW q, SameBut(f, g, S, q), NEW x, x # f[q]
  PROVE  /\ g[q] = x => Cardinality(At(g, S, x)) = Cardinality(At(f, S, x)) + 1
         /\ g[q] # x => At(g, S, x) = At(f, S, x)
<1> USE DEF SameBut
<1>1. q \notin At(f, S, x) /\ IsFiniteSet(At(f, S, x))
  BY FS_Subset DEF At
<1>2. g[q] = x => At(g, S, x) = At(f, S, x) \cup {q}
  BY DEF At
<1>3. g[q] # x => At(g, S, x) = At(f, S, x)
  BY DEF At
<1>4. QED BY <1>1, <1>2, <1>3, FS_AddElement

LEMMA HeldMapTyping == TypeOK => HeldMap \in [Slots -> Handles \cup {Nil}]
<1> SUFFICES ASSUME TypeOK PROVE HeldMap \in [Slots -> Handles \cup {Nil}]
  OBVIOUS
<1>1. \A q \in Slots : q[1] \in Sessions /\ q[2] \in Class
  BY DEF Slots
<1>2. \A q \in Slots : Held(q[1], q[2]) \in Handles \cup {Nil}
  BY <1>1, HeldTyping
<1>3. QED BY <1>2 DEF HeldMap

LEMMA RefsExactStep ==
  ASSUME CoreInv, CoreInv', KeyOpsInv, KeyOpsInv', RefsExact, "final" \notin Faults,
         NEW t \in Threads, Step(t)
  PROVE  RefsExact'
<1>a. TypeOK /\ IsFiniteSet(Slots) /\ RefMoves(t)
  BY TokenStep, FiniteHolders DEF CoreInv, CallInv
<1>b. PICK s \in Sessions, c \in Class :
        /\ s = sp[t]
        /\ \/ /\ Hold(t) /\ HeldMap[<<s, c>>] = Nil
              /\ HeldMap' = [HeldMap EXCEPT ![<<s, c>>] = h[t]]
           \/ /\ DropReference(t) /\ c = cls[t] /\ HeldMap[<<s, c>>] = key[s][c]
              /\ HeldMap' = [HeldMap EXCEPT ![<<s, c>>] = Nil]
           \/ /\ ~Hold(t) /\ ~DropReference(t)
              /\ HeldMap' = HeldMap
  BY HeldMapStep
<1>c. HeldMap \in [Slots -> Handles \cup {Nil}]
  BY <1>a, HeldMapTyping
<1>f. PICK f \in [Slots -> Handles \cup {Nil}] : f = HeldMap
  BY <1>c
<1>g. PICK g : g = HeldMap'
  OBVIOUS
<1>q. PICK q \in Slots : q = <<s, c>>
  BY DEF Slots
<1> SUFFICES ASSUME NEW x \in Handles
             PROVE  ref'[x] = Cardinality(At(g, Slots, x))
  BY <1>g DEF RefsExact, Holders, At
<1>e. ref[x] = Cardinality(At(f, Slots, x)) /\ ref[x] \in Nat /\ x # Nil
  BY <1>a, <1>f, RsaAssumption DEF RefsExact, Holders, At, TypeOK, Handles
<1>1. CASE Hold(t) /\ f[q] = Nil /\ g = [f EXCEPT ![q] = h[t]]
  <2>1. ref' = [ref EXCEPT ![h[t]] = ref[h[t]] + 1] /\ h[t] \in Handles
    BY <1>1, <1>a, RsaAssumption DEF Hold, ActiveAdd, CoreInv, OwnInv, TypeOK
  <2>2. /\ h[t] = x => Cardinality(At(g, Slots, x)) = Cardinality(At(f, Slots, x)) + 1
        /\ h[t] # x => At(g, Slots, x) = At(f, Slots, x)
    <3>1. SameBut(f, g, Slots, q) /\ x # f[q] /\ g[q] = h[t]
      BY <1>1, <1>a, <1>e DEF SameBut
    <3>2. QED BY <3>1, FillSlot
  <2>3. QED BY <1>a, <1>e, <2>1, <2>2 DEF TypeOK
<1>2. CASE DropReference(t) /\ c = cls[t] /\ f[q] = key[s][c] /\ g = [f EXCEPT ![q] = Nil]
  <2>1. ref' = ActiveDelete(f[q])
    BY <1>2, <1>b DEF DropReference
  <2>2. /\ f[q] = x => Cardinality(At(g, Slots, x)) = Cardinality(At(f, Slots, x)) - 1
        /\ f[q] # x => At(g, Slots, x) = At(f, Slots, x)
    <3>1. SameBut(g, f, Slots, q) /\ x # g[q]
      BY <1>2, <1>a, <1>e DEF SameBut
    <3>2. /\ f[q] = x => Cardinality(At(f, Slots, x)) = Cardinality(At(g, Slots, x)) + 1
          /\ f[q] # x => At(f, Slots, x) = At(g, Slots, x)
      BY <3>1, FillSlot
    <3>3. IsFiniteSet(At(g, Slots, x))
      BY <1>a, FS_Subset DEF At
    <3>4. QED BY <3>2, <3>3, FS_CardinalityType
  <2>3. f[q] = x => ref[x] # 0
    <3>1. f[q] = x => At(f, Slots, x) # {}
      BY DEF At
    <3>2. IsFiniteSet(At(f, Slots, x))
      BY <1>a, FS_Subset DEF At
    <3>3. QED BY <1>e, <3>1, <3>2, FS_EmptySet
  <2>4. CASE f[q] = x
    <3>1. ref' = [ref EXCEPT ![x] = ref[x] - 1]
      BY <2>1, <2>3, <2>4 DEF ActiveDelete
    <3>2. QED BY <1>a, <1>e, <2>2, <2>4, <3>1 DEF TypeOK
  <2>5. CASE f[q] # x
    <3>1. ref'[x] = ref[x]
      BY <1>a, <2>1, <2>5 DEF ActiveDelete, TypeOK
    <3>2. QED BY <1>e, <2>2, <2>5, <3>1
  <2>6. QED BY <2>4, <2>5
<1>3. CASE ~Hold(t) /\ ~DropReference(t) /\ g = f
  <2>1. ref' = ref
    BY <1>a, <1>3 DEF RefMoves, AttachPriv, KeyOpsInv, KeyOps
  <2>2. QED BY <1>3, <1>e, <2>1
<1>4. QED BY <1>b, <1>f, <1>g, <1>q, <1>1, <1>2, <1>3

\* The step of the store that a step of a call is.
LEMMA StoreStep ==
  ASSUME DanglingInv, CoreInv', KeyOpsInv, KeyOpsInv', "final" \notin Faults,
         NEW t \in Threads, Step(t)
  PROVE  [Store!Next]_<<TokenPairs \cup {x \in SHandles : obj[x] # Nil}, HeldMap>>
<1>a. TypeOK /\ CoreInv /\ ObjMoves(t)
  BY TokenStep DEF DanglingInv, CoreInv, CallInv
<1>b. PICK s \in Sessions, c \in Class :
        /\ s = sp[t]
        /\ \/ /\ Hold(t) /\ HeldMap[<<s, c>>] = Nil
              /\ HeldMap' = [HeldMap EXCEPT ![<<s, c>>] = h[t]]
           \/ /\ DropReference(t) /\ c = cls[t] /\ HeldMap[<<s, c>>] = key[s][c]
              /\ HeldMap' = [HeldMap EXCEPT ![<<s, c>>] = Nil]
           \/ /\ ~Hold(t) /\ ~DropReference(t)
              /\ HeldMap' = HeldMap
  BY <1>a, HeldMapStep
<1>c. <<s, c>> \in Slots
  BY DEF Slots
<1> DEFINE live == TokenPairs \cup {x \in SHandles : obj[x] # Nil}
<1>1. CASE Hold(t) /\ HeldMap[<<s, c>>] = Nil /\ HeldMap' = [HeldMap EXCEPT ![<<s, c>>] = h[t]]
  <2>1. obj' = obj /\ pc[t] = "hold"
    BY <1>1 DEF Hold
  <2>2. h[t] \in Handles /\ h[t] \in live
    <3>1. h[t] \in Handles
      BY <1>a, <2>1 DEF CoreInv, OwnInv, TypeOK
    <3>2. ObjectAt(h[t]) # Nil
      BY <2>1 DEF DanglingInv, WorkInv
    <3>3. QED BY <3>1, <3>2 DEF ObjectAt, Handles
  <2>3. Store!Hold(<<s, c>>, h[t])
    BY <1>1, <2>1, <2>2 DEF Store!Hold
  <2>4. QED BY <1>c, <2>2, <2>3 DEF Store!Next
<1>2. CASE DropReference(t) /\ c = cls[t] /\ HeldMap[<<s, c>>] = key[s][c]
             /\ HeldMap' = [HeldMap EXCEPT ![<<s, c>>] = Nil]
  <2>1. obj' = obj /\ key[s][c] # Nil
    BY <1>2, <1>a, <1>b DEF DropReference, CoreInv, OwnInv, Dropping
  <2>2. Store!Drop(<<s, c>>)
    BY <1>2, <2>1 DEF Store!Drop
  <2>3. QED BY <1>c, <2>2 DEF Store!Next
<1>3. CASE ~Hold(t) /\ ~DropReference(t) /\ HeldMap' = HeldMap
  <2>a. \A x \in SHandles : UsableHolders(x) = {} => \A q \in Slots : HeldMap[q] # x
    <3>1. \A q \in Slots : q[1] \in Sessions /\ HeldMap[q] = Held(q[1], q[2])
      BY DEF Slots, HeldMap
    <3>2. QED BY <3>1 DEF UsableHolders, KeyOpsInv
  <2>1. CASE obj' = obj
    BY <1>3, <2>1
  <2>2. CASE \E x \in SHandles : obj[x] = Nil /\ obj' = [obj EXCEPT ![x] =
               [class |-> ClassOf(op[t]), pair |-> content[rsa[t]].pair]]
             /\ pc[t] = "create"
    <3>1. PICK x \in SHandles : /\ obj[x] = Nil /\ pc[t] = "create"
                               /\ obj' = [obj EXCEPT ![x] =
                                    [class |-> ClassOf(op[t]), pair |-> content[rsa[t]].pair]]
      BY <2>2
    <3>2. [class |-> ClassOf(op[t]), pair |-> content[rsa[t]].pair] # Nil
      <4>1. content[rsa[t]] \in Content
        <5>1. HasRsa(t)
          BY <3>1 DEF HasRsa, Destroying
        <5>2. QED BY <1>a, <5>1 DEF CoreInv, CallInv, TypeOK
      <4>2. [class |-> ClassOf(op[t]), pair |-> content[rsa[t]].pair] \in Object
        BY <1>a, <4>1, ClassTyping DEF TypeOK, Object, Content
      <4>3. QED BY <4>2, RsaAssumption
    <3>3. x \notin live /\ live' = live \cup {x}
      BY <1>a, <3>1, <3>2, RsaAssumption DEF TypeOK
    <3>4. Store!Create(x) /\ x \in Handles
      BY <1>3, <3>3 DEF Store!Create, Handles
    <3>5. QED BY <3>4 DEF Store!Next
  <2>3. ASSUME NEW x \in SHandles, UsableHolders(x) = {}, obj' = [obj EXCEPT ![x] = Nil]
        PROVE  Store!Next \/ UNCHANGED <<live, HeldMap>>
    <3>1. CASE obj[x] = Nil
      BY <1>a, <1>3, <2>3, <3>1 DEF TypeOK
    <3>2. CASE obj[x] # Nil
      <4>1. x \in live \ TokenPairs /\ live' = live \ {x}
        BY <1>a, <2>3, <3>2, RsaAssumption DEF TypeOK
      <4>2. Store!Destroy(x) /\ x \in Handles
        BY <1>3, <2>a, <2>3, <4>1 DEF Store!Destroy, Handles
      <4>3. QED BY <4>2 DEF Store!Next
    <3>3. QED BY <3>1, <3>2
  <2>4. CASE /\ DestroyObject(t) /\ key[sp[t]][cls[t]] \in SHandles
             /\ obj' = [obj EXCEPT ![key[sp[t]][cls[t]]] = Nil]
    <3>1. PICK x \in SHandles : x = key[sp[t]][cls[t]]
      BY <2>4
    <3>2. ref[x] = 0 /\ Cardinality(UsableHolders(x)) \in Nat /\ Cardinality(UsableHolders(x)) <= ref[x]
      BY <2>4, <3>1, FiniteHolders, FS_CardinalityType DEF DestroyObject, DanglingInv, WorkInv, RefsCover
    <3>3. Cardinality(UsableHolders(x)) = 0
      BY <3>2
    <3>4. UsableHolders(x) = {}
      BY <3>3, FiniteHolders, FS_EmptySet
    <3>5. QED BY <2>3, <2>4, <3>1, <3>4
  <2>5. CASE Rollback(t) /\ ~found[t] /\ obj' = [obj EXCEPT ![h[t]] = Nil]
    <3>1. h[t] \in SHandles /\ UsableHolders(h[t]) = {}
      BY <2>5 DEF Rollback, DanglingInv, WorkInv
    <3>2. QED BY <2>3, <2>5, <3>1
  <2>6. QED BY <1>a, <2>1, <2>2, <2>4, <2>5 DEF ObjMoves
<1>4. QED BY <1>b, <1>1, <1>2, <1>3

\* The steps of the application and the start of a call.
LEMMA RefsInvElse ==
  ASSUME RefsInv, DanglingInv', Ops \subseteq KeyOps, [Next]_vars,
         ~ \E t \in Threads : Step(t)
  PROVE  RefsInv' /\ HeldMap' = HeldMap /\ obj' = obj
<1>a. TypeOK /\ CoreInv /\ CoreInv' /\ KeyOpsInv /\ RefsExact
  BY DEF RefsInv, DanglingInv, CoreInv, CallInv
<1>1. ASSUME ref' = ref, obj' = obj, KeyOpsInv',
             \A s \in Sessions, c \in Class : Held(s, c)' = Held(s, c)
      PROVE  RefsInv' /\ HeldMap' = HeldMap /\ obj' = obj
  <2>1. \A q \in Slots : q[1] \in Sessions /\ q[2] \in Class
    BY DEF Slots
  <2>2. HeldMap' = HeldMap
    BY <1>1, <2>1 DEF HeldMap
  <2>3. RefsExact'
    BY <1>1, <1>a, <2>2 DEF RefsExact, Holders
  <2>4. QED BY <1>1, <2>2, <2>3 DEF RefsInv
<1>2. ASSUME NEW t \in Threads, Call(t)
      PROVE  RefsInv' /\ HeldMap' = HeldMap /\ obj' = obj
  <2>1. PICK w \in Sessions :
          /\ pc[t] = "idle" /\ pc'[t] \in {"check", "uri"}
          /\ state' = [state EXCEPT ![w] = "held"] /\ sp' = [sp EXCEPT ![t] = w]
          /\ op'[t] \in Ops
          /\ \A u \in Threads : u # t => pc'[u] = pc[u] /\ op'[u] = op[u]
          /\ UNCHANGED <<obj, ref, key>>
    BY <1>a, <1>2, CallMoves
  <2>2. KeyOpsInv'
    BY <1>a, <2>1 DEF KeyOpsInv, TypeOK, ClassOf
  <2>3. \A s \in Sessions, c \in Class : Held(s, c)' = Held(s, c)
    BY <1>a, <1>2, HeldCall
  <2>4. QED BY <1>1, <2>1, <2>2, <2>3
<1>3. ASSUME UNCHANGED <<obj, ref, lock, state, key, pc, op, sp, cls, h>>
      PROVE  RefsInv' /\ HeldMap' = HeldMap /\ obj' = obj
  <2>1. \A s \in Sessions, c \in Class : Held(s, c)' = Held(s, c)
    BY <1>3 DEF Held
  <2>2. KeyOpsInv'
    BY <1>3, <1>a DEF KeyOpsInv, ClassOf
  <2>3. QED BY <1>1, <1>3, <2>1, <2>2
<1>4. CASE UNCHANGED vars
  BY <1>3, <1>4 DEF vars, tokenVars, sessVars, callVars, locals
<1>5. ASSUME NEW r \in Rsas, FreeRsa(r) \/ \E p \in Pairs, d \in BOOLEAN : NewRsa(r, p, d)
      PROVE  RefsInv' /\ HeldMap' = HeldMap /\ obj' = obj
  BY <1>3, <1>5, AppMoves
<1>6. QED BY <1>2, <1>4, <1>5 DEF Next

LEMMA RefsInvInductive ==
  ASSUME Ops \subseteq KeyOps, "final" \notin Faults, RefsInv, [Next]_vars
  PROVE  RefsInv'
<1>1. DanglingInv'
  BY DanglingInvInductive DEF RefsInv
<1>2. ASSUME NEW t \in Threads, Step(t) PROVE RefsInv'
  <2>1. CoreInv /\ CoreInv' /\ KeyOpsInv /\ RefsExact
    BY <1>1 DEF RefsInv, DanglingInv
  <2>2. KeyOpsInv'
    BY <1>2, <2>1, KeyOpsStep
  <2>3. RefsExact'
    BY <1>2, <2>1, <2>2, RefsExactStep
  <2>4. QED BY <1>1, <2>2, <2>3 DEF RefsInv
<1>3. QED BY <1>1, <1>2, RefsInvElse

LEMMA InitRefs == Init => RefsInv /\ HeldMap = [q \in Slots |-> Nil]
<1> SUFFICES ASSUME Init PROVE RefsInv /\ HeldMap = [q \in Slots |-> Nil]
  OBVIOUS
<1>1. \A q \in Slots : Held(q[1], q[2]) = Nil
  BY DEF Init, Held, Slots
<1>2. HeldMap = [q \in Slots |-> Nil]
  BY <1>1 DEF HeldMap
<1>3. KeyOpsInv
  BY DEF Init, KeyOpsInv, KeyOps
<1>4. ASSUME NEW x \in Handles PROVE ref[x] = Cardinality(Holders(x))
  <2>1. Holders(x) = {} /\ ref[x] = 0
    BY <1>2, RsaAssumption DEF Holders, Handles, Init
  <2>2. QED BY <2>1, FS_EmptySet
<1>5. QED BY <1>2, <1>3, <1>4, InitDangling DEF RefsInv, RefsExact

\* The active list is exact: a handle's count is the number of places in
\* sessions that hold it, at every step of RSA operations on keys the
\* application has, for every failing call but C_FindObjectsFinal.
THEOREM CountsAreExact ==
  ASSUME Ops \subseteq KeyOps, "final" \notin Faults
  PROVE  Spec => []RefsExact
<1>1. RefsInv /\ [Next]_vars => RefsInv'
  BY RefsInvInductive
<1>2. RefsInv => RefsExact
  BY DEF RefsInv
<1>3. QED BY <1>1, <1>2, InitRefs, PTL DEF Spec

\* The sessions and the token together behave as a reference counted store:
\* every step of a call creates, holds, drops or destroys as ObjectStore
\* allows, or changes nothing the store shows.
THEOREM ImplementsObjectStore ==
  ASSUME Ops \subseteq KeyOps, "final" \notin Faults
  PROVE  Spec => StoreSpec
<1>1. Init => Store!Init
  BY InitRefs DEF Init, Store!Init
<1>2. RefsInv /\ [Next]_vars => RefsInv'
  BY RefsInvInductive
<1>3. RefsInv /\ [Next]_vars
        => [Store!Next]_<<TokenPairs \cup {x \in SHandles : obj[x] # Nil}, HeldMap>>
  <2> SUFFICES ASSUME RefsInv, [Next]_vars
      PROVE [Store!Next]_<<TokenPairs \cup {x \in SHandles : obj[x] # Nil}, HeldMap>>
    OBVIOUS
  <2>1. RefsInv' /\ DanglingInv'
    BY <1>2 DEF RefsInv
  <2>2. ASSUME NEW t \in Threads, Step(t)
        PROVE  [Store!Next]_<<TokenPairs \cup {x \in SHandles : obj[x] # Nil}, HeldMap>>
    <3>1. DanglingInv /\ CoreInv' /\ KeyOpsInv /\ KeyOpsInv'
      BY <2>1 DEF RefsInv, DanglingInv
    <3>2. QED BY <2>2, <3>1, StoreStep
  <2>3. CASE ~ \E t \in Threads : Step(t)
    <3>1. HeldMap' = HeldMap /\ obj' = obj
      BY <2>1, <2>3, RefsInvElse
    <3>2. QED BY <3>1
  <2>4. QED BY <2>2, <2>3
<1>4. QED BY <1>1, <1>2, <1>3, InitRefs, PTL DEF Spec, StoreSpec, Store!Spec

\* The store of ObjectStore keeps what it promises: whatever is created, held,
\* dropped and destroyed, what is held is there.
LEMMA StoreKeepsPromise == StoreSpec => []Store!NoDangling
<1> DEFINE Promise == Store!TypeOK /\ Store!NoDangling
<1> USE DEF Store!TypeOK, Store!NoDangling
<1>1. Store!Init => Promise
  BY DEF Store!Init, Handles
<1>2. Promise /\ [Store!Next]_<<TokenPairs \cup {x \in SHandles : obj[x] # Nil}, HeldMap>> => Promise'
  <2> SUFFICES ASSUME Promise, [Store!Next]_<<TokenPairs \cup {x \in SHandles : obj[x] # Nil}, HeldMap>>
               PROVE  Promise'
    OBVIOUS
  <2>1. ASSUME NEW x \in Handles, Store!Create(x) PROVE Promise'
    BY <2>1 DEF Store!Create
  <2>2. ASSUME NEW x \in Handles, Store!Destroy(x) PROVE Promise'
    BY <2>2 DEF Store!Destroy
  <2>3. ASSUME NEW q \in Slots, Store!Drop(q) PROVE Promise'
    BY <2>3 DEF Store!Drop
  <2>4. ASSUME NEW q \in Slots, NEW x \in Handles, Store!Hold(q, x) PROVE Promise'
    BY <2>4 DEF Store!Hold
  <2>5. CASE UNCHANGED <<TokenPairs \cup {x \in SHandles : obj[x] # Nil}, HeldMap>>
    BY <2>5
  <2>6. QED BY <2>1, <2>2, <2>3, <2>4, <2>5 DEF Store!Next
<1>3. Promise => Store!NoDangling
  OBVIOUS
<1> HIDE DEF Promise
<1>4. QED BY <1>1, <1>2, <1>3, PTL DEF StoreSpec, Store!Spec

\* What the code at KEY_HANDLE_REFHOLD implements is worth implementing: by
\* the store's own promise, a handle a session caches names an object that is
\* in the token.
THEOREM StoreNeverDangles ==
  ASSUME Ops \subseteq KeyOps, "final" \notin Faults
  PROVE  Spec => []Store!NoDangling
BY ImplementsObjectStore, StoreKeepsPromise, PTL

-----------------------------------------------------------------------------
(* The key in use is the right one. *)

Looking == {"lookup", "find", "create", "hold", "unlock", "use"}

\* Handle x names the key the call of thread t asks for.
Made(t, x) == ObjectAt(x) = [class |-> ClassOf(op[t]), pair |-> content[rsa[t]].pair]

\* A session's handles name the key its 'n' and 'e' spell; a call that has
\* checked them finds the key of its RSA structure, and so is what it makes.
SpeltInv ==
  \A s \in Sessions, c \in Class :
    state[s] # "lost" /\ key[s][c] # Nil /\ num[s] # Nil
    /\ (\A t \in Threads : sp[t] = s => pc[t] \notin Dropping)
      => ObjectAt(key[s][c]) = [class |-> c, pair |-> num[s]]
CheckedInv ==
  \A t \in Threads, c \in Class :
    pc[t] \in Looking /\ key[sp[t]][c] # Nil
      => ObjectAt(key[sp[t]][c]) = [class |-> c, pair |-> content[rsa[t]].pair]
MadeInv ==
  \A t \in Threads :
    /\ pc[t] = "hold" => Made(t, h[t])
    /\ pc[t] = "unlock" /\ h[t] # Nil => Made(t, h[t]) /\ num[sp[t]] = content[rsa[t]].pair
    /\ pc[t] \in Destroying /\ cls[t] # ClassOf(op[t]) => key[sp[t]][ClassOf(op[t])] = Nil
    /\ pc[t] = "use" => key[sp[t]][ClassOf(op[t])] # Nil
    /\ op[t] \notin RefOps
RightInv == DanglingInv /\ SpeltInv /\ CheckedInv /\ MadeInv

\* The object of a cached handle stays while its session does not drop it.
LEMMA CachedKept ==
  ASSUME DanglingInv, NEW t \in Threads, Step(t), NEW s \in Sessions, NEW c \in Class,
         state[s] # "lost", \A u \in Threads : sp[u] = s => pc[u] \notin Dropping,
         NEW x \in Handles, x = key[s][c]
  PROVE  ObjectAt(x)' = ObjectAt(x)
<1>a. TypeOK /\ LockInv /\ ObjMoves(t)
  BY TokenStep DEF DanglingInv, CoreInv, CallInv
<1>1. CASE lock # Nil /\ pc[lock] = "unlock"
  <2>1. pc[t] \notin {"create", "destroyobj", "hold"}
    BY <1>1, <1>a DEF LockInv, Locked
  <2>2. obj' = obj
    BY <1>a, <2>1 DEF ObjMoves, DestroyObject, Rollback
  <2>3. QED BY <2>2 DEF ObjectAt
<1>2. CASE ~(lock # Nil /\ pc[lock] = "unlock")
  <2>1. Held(s, c) = x
    BY <1>2, <1>a DEF Held, TypeOK, Dropping
  <2>2. <<s, c>> \in UsableHolders(x)
    BY <2>1 DEF UsableHolders, Slots
  <2>3. QED BY <2>2, ObjectKept
<1>3. QED BY <1>1, <1>2

\* Only the thread that has the lock changes objects.
LEMMA LockedKept ==
  ASSUME CoreInv, NEW t \in Threads, Step(t), NEW u \in Threads, u # t, pc[u] \in Locked
  PROVE  obj' = obj
<1>1. LockInv /\ ObjMoves(t)
  BY TokenStep DEF CoreInv
<1>2. pc[t] \notin {"create", "destroyobj", "hold"}
  BY <1>1 DEF LockInv, Locked
<1>3. QED BY <1>1, <1>2 DEF ObjMoves, DestroyObject, Rollback

\* What a thread about to take a step on its session knows of it.
LEMMA OwnSession ==
  ASSUME RightInv, NEW t \in Threads, Step(t)
  PROVE  /\ sp[t] \in Sessions /\ state[sp[t]] = "held"
         /\ \A u \in Threads : sp[u] = sp[t] => u = t
         /\ op'[t] = op[t] /\ op[t] \notin RefOps
         /\ pc[t] \notin {"uri", "findone", "attach"}
         /\ HasRsa(t) => rsa[t] \in Rsas /\ content[rsa[t]] \in Content
         /\ \A s \in Sessions, c \in Class : key[s][c] \in Handles \cup {Nil}
<1>1. TypeOK /\ SessInv /\ CallInv
  BY DEF RightInv, DanglingInv, CoreInv, CallInv
<1>2. sp[t] \in Sessions /\ op' = op
  BY <1>1, SessionMoves, Frame
<1>3. op[t] \notin RefOps /\ sp[t] # Nil
  BY <1>2, RsaAssumption DEF RightInv, MadeInv
<1>4. QED BY <1>1, <1>2, <1>3, RsaAssumption DEF SessInv, CallInv, TypeOK

LEMMA SpeltStep ==
  ASSUME RightInv, CoreInv', NEW t \in Threads, Step(t)
  PROVE  SpeltInv'
<1>a. DanglingInv /\ TypeOK /\ SessInv /\ TypeOK'
  BY DEF RightInv, DanglingInv, CoreInv, CallInv
<1> SUFFICES ASSUME NEW s \in Sessions, NEW c \in Class,
                    state'[s] # "lost", key'[s][c] # Nil, num'[s] # Nil,
                    \A u \in Threads : sp'[u] = s => pc'[u] \notin Dropping
             PROVE  ObjectAt(key[s][c])' = [class |-> c, pair |-> num'[s]]
  BY DEF SpeltInv
<1>x. PICK x \in Handles : x = key'[s][c]
  BY <1>a DEF TypeOK
<1> SUFFICES ObjectAt(x)' = [class |-> c, pair |-> num'[s]]
  BY <1>x DEF ObjectAt
<1>1. ASSUME key[s][c] = x, num[s] = num'[s], state[s] # "lost",
             \A u \in Threads : sp[u] = s => pc[u] \notin Dropping
      PROVE  ObjectAt(x)' = [class |-> c, pair |-> num'[s]]
  <2>1. ObjectAt(x)' = ObjectAt(x)
    BY <1>a, <1>1, CachedKept
  <2>2. QED BY <1>1, <1>x, <2>1 DEF RightInv, SpeltInv
<1>2. CASE s # sp[t]
  <2>1. key[s][c] = x /\ num[s] = num'[s] /\ state[s] # "lost"
    BY <1>a, <1>x, <1>2, Frame
  <2>2. \A u \in Threads : sp[u] = s => pc[u] \notin Dropping
    BY <1>a, <1>2, Frame
  <2>3. QED BY <1>1, <2>1, <2>2
<1>3. CASE s = sp[t]
  <2>a. /\ s = sp[t] /\ state[s] = "held" /\ op[t] \notin RefOps
        /\ \A u \in Threads : sp[u] = s => u = t
        /\ HasRsa(t) => rsa[t] \in Rsas /\ content[rsa[t]] \in Content
    BY <1>3, OwnSession
  <2>b. pc'[t] \notin Dropping
    BY <1>a, <1>3, SessionMoves DEF Dropping
  <2>c. pc[t] \notin Dropping
    <3>1. SUFFICES ASSUME pc[t] \in Dropping PROVE FALSE
      OBVIOUS
    <3>2. DestroyClear(t)
      BY <1>a, <2>b, <3>1, DropLeaves
    <3>3. num'[s] = Nil
      BY <1>a, <2>a, <3>2 DEF DestroyClear, TypeOK
    <3>4. QED BY <3>3
  <2>d. \A u \in Threads : sp[u] = s => pc[u] \notin Dropping
    BY <2>a, <2>c
  <2>e. pc[t] \in Looking /\ key[s][c] = x
          => HasRsa(t) /\ ObjectAt(x) = [class |-> c, pair |-> content[rsa[t]].pair]
    BY <1>x, <2>a DEF RightInv, CheckedInv, Looking, HasRsa, Destroying
  <2>1. CASE Hold(t)
    <3>1. key' = key /\ obj' = obj /\ num'[s] = content[rsa[t]].pair /\ pc[t] = "hold"
      BY <1>a, <2>1, <2>a DEF Hold, TypeOK
    <3>2. QED BY <1>x, <2>e, <3>1 DEF ObjectAt, Looking
  <2>2. CASE Rollback(t)
    <3>1. key' = key /\ pc[t] = "hold" /\ num'[s] \in {content[rsa[t]].pair, num[s]}
      BY <1>a, <2>2, <2>a DEF Rollback, TypeOK
    <3>2. ObjectAt(x)' = ObjectAt(x)
      BY <1>a, <1>x, <2>a, <2>d, <3>1, CachedKept
    <3>3. QED BY <1>1, <1>x, <2>a, <2>d, <2>e, <3>1, <3>2 DEF Looking
  <2>3. CASE GetUnlock(t)
    <3>1. /\ obj' = obj /\ num' = num /\ pc[t] = "unlock"
          /\ key'[s] = [key[s] EXCEPT ![ClassOf(op[t])] = h[t]]
      BY <1>a, <2>3, <2>a DEF GetUnlock, StoreKey, TypeOK, tokenVars
    <3>2. CASE c # ClassOf(op[t])
      BY <1>1, <1>a, <1>x, <2>a, <2>d, <3>1, <3>2 DEF TypeOK
    <3>3. CASE c = ClassOf(op[t])
      <4>1. x = h[t] /\ x # Nil
        BY <1>a, <1>x, <3>1, <3>3 DEF TypeOK
      <4>2. QED BY <2>a, <3>1, <3>3, <4>1 DEF RightInv, MadeInv, Made, ObjectAt
    <3>4. QED BY <3>2, <3>3
  <2>4. CASE TemplateFails(t)
    <3>1. num' = num /\ key'[s] = [key[s] EXCEPT ![ClassOf(op[t])] = Nil]
      BY <1>a, <2>4, <2>a DEF TemplateFails, StoreKey, TypeOK
    <3>2. key[s][c] = x
      BY <1>a, <1>x, <3>1 DEF TypeOK
    <3>3. QED BY <1>1, <2>a, <2>d, <3>1, <3>2
  <2>5. CASE ~(Hold(t) \/ Rollback(t) \/ GetUnlock(t) \/ TemplateFails(t))
    <3>1. key' = key /\ num' = num
      BY <2>5, <2>a, <2>c DEF Step, ProcessUri, FindOneObject, Check, DestroySkip, DestroyLock, DropReference, DestroyObject, DestroyClear, AttachPriv, AttachPub, UseCached, FindLock, Find, Create, Use, ReturnSession, sessVars, Dropping, RefOps
    <3>2. QED BY <1>1, <1>x, <2>a, <2>d, <3>1
  <2>6. QED BY <2>1, <2>2, <2>3, <2>4, <2>5
<1>4. QED BY <1>2, <1>3

LEMMA CheckedStep ==
  ASSUME RightInv, CoreInv', NEW t \in Threads, Step(t)
  PROVE  CheckedInv'
<1>a. DanglingInv /\ TypeOK /\ SessInv /\ CoreInv /\ TypeOK'
  BY DEF RightInv, DanglingInv, CoreInv, CallInv
<1> SUFFICES ASSUME NEW u \in Threads, NEW c \in Class,
                    pc'[u] \in Looking, key'[sp'[u]][c] # Nil
             PROVE  ObjectAt(key[sp[u]][c])' = [class |-> c, pair |-> content'[rsa'[u]].pair]
  BY DEF CheckedInv
<1>b. sp[t] \in Sessions /\ sp'[u] \in Sessions
  <2>1. pc'[u] # "idle" /\ SessInv'
    BY DEF Looking, CoreInv
  <2>2. QED BY <1>a, <2>1, SessionMoves DEF SessInv, TypeOK
<1>x. PICK x \in Handles : x = key'[sp'[u]][c]
  BY <1>a, <1>b DEF TypeOK
<1> SUFFICES ObjectAt(x)' = [class |-> c, pair |-> content'[rsa'[u]].pair]
  BY <1>x DEF ObjectAt
<1>1. CASE u # t
  <2>1. pc'[u] = pc[u] /\ sp'[u] = sp[u] /\ rsa'[u] = rsa[u]
    BY <1>a, <1>1, Frame
  <2>2. PICK s \in Sessions : s = sp[u]
    BY <1>b, <2>1
  <2>3. state[s] # "lost" /\ s # sp[t] /\ \A w \in Threads : sp[w] = s => pc[w] \notin Dropping
    BY <1>a, <1>1, <2>1, <2>2, RsaAssumption DEF SessInv, Looking, Dropping
  <2>4. key[s][c] = x
    BY <1>a, <1>x, <2>1, <2>2, <2>3, Frame
  <2>5. ObjectAt(x)' = ObjectAt(x)
    BY <1>a, <2>3, <2>4, CachedKept
  <2>6. content'[rsa[u]] = content[rsa[u]]
    BY <1>a, <1>1, <2>1, ContentKept DEF HasRsa, Looking, Destroying
  <2>7. ObjectAt(x) = [class |-> c, pair |-> content[rsa[u]].pair]
    BY <1>x, <2>1, <2>2, <2>4 DEF RightInv, CheckedInv
  <2>8. QED BY <2>1, <2>5, <2>6, <2>7
<1>2. CASE u = t
  <2>a. PICK s \in Sessions :
          /\ s = sp[t] /\ state[s] = "held" /\ op'[t] = op[t] /\ op[t] \notin RefOps
          /\ \A w \in Threads : sp[w] = s => w = t
          /\ pc[t] \notin {"uri", "findone", "attach"}
          /\ HasRsa(t) => rsa[t] \in Rsas /\ content[rsa[t]] \in Content
    BY OwnSession
  <2>b. sp'[t] = s
    BY <1>a, <1>2, <1>b, <2>a, SessionMoves, RsaAssumption
  <2>c. ASSUME pc[t] \notin Dropping, key' = key
        PROVE  key[s][c] = x /\ ObjectAt(x)' = ObjectAt(x)
    <3>1. key[s][c] = x
      BY <1>2, <1>x, <2>b, <2>c
    <3>2. state[s] # "lost" /\ \A w \in Threads : sp[w] = s => pc[w] \notin Dropping
      BY <2>a, <2>c
    <3>3. QED BY <1>a, <3>1, <3>2, CachedKept
  <2>1. CASE pc[t] \in Looking /\ key' = key /\ rsa' = rsa /\ content' = content
    <3>1. pc[t] \notin Dropping
      BY <2>1 DEF Looking, Dropping
    <3>2. QED BY <1>2, <1>x, <2>1, <2>a, <2>c, <3>1 DEF RightInv, CheckedInv
  <2>2. CASE Check(t)
    <3>1. pc[t] = "check" /\ key' = key /\ rsa' = rsa /\ content' = content
          /\ SameKey(s, ClassOf(op[t]), rsa[t])
      BY <1>a, <1>2, <2>a, <2>2 DEF Check, Goto, TypeOK, sessVars, callVars, Looking
    <3>2. num[s] = content[rsa[t]].pair /\ num[s] # Nil
      BY <2>a, <3>1, RsaAssumption DEF SameKey, HasRsa, Destroying, Content
    <3>3. pc[t] \notin Dropping
      BY <3>1 DEF Dropping
    <3>4. ObjectAt(x) = [class |-> c, pair |-> num[s]]
      BY <1>x, <2>a, <2>c, <3>1, <3>2, <3>3 DEF RightInv, SpeltInv
    <3>5. QED BY <1>2, <2>c, <3>1, <3>2, <3>3, <3>4
  <2>3. CASE DestroySkip(t) \/ DestroyClear(t)
    <3>1. cls[t] # ClassOf(op[t]) /\ pc[t] \in Destroying
      BY <1>a, <1>2, <2>a, <2>3 DEF DestroySkip, DestroyClear, AfterDestroy, Goto, TypeOK, Looking, Destroying
    <3>2. key[s][ClassOf(op[t])] = Nil
      BY <2>a, <3>1 DEF RightInv, MadeInv
    <3>3. cls[t] \in Class /\ ClassOf(op[t]) \in Class /\ op[t] \in AllOps
      BY <1>a, ClassTyping DEF TypeOK
    <3>4. key'[s][ClassOf(op[t])] = Nil /\ key'[s][cls[t]] = Nil
      <4>1. CASE DestroySkip(t)
        BY <2>a, <3>2, <4>1 DEF DestroySkip, sessVars
      <4>2. CASE DestroyClear(t)
        <5>1. key' = [key EXCEPT ![s][cls[t]] = Nil]
          BY <2>a, <4>2 DEF DestroyClear
        <5>2. QED BY <1>a, <3>1, <3>2, <3>3, <5>1 DEF TypeOK
      <4>3. QED BY <2>3, <4>1, <4>2
    <3>5. QED BY <1>2, <1>x, <2>b, <3>1, <3>3, <3>4 DEF Class
  <2>4. CASE GetUnlock(t)
    <3>1. /\ pc[t] = "unlock" /\ obj' = obj /\ rsa' = rsa /\ content' = content
          /\ key' = [key EXCEPT ![s][ClassOf(op[t])] = h[t]] /\ h[t] # Nil
      BY <1>a, <1>2, <2>a, <2>4 DEF GetUnlock, StoreKey, LoseSession, Goto, TypeOK, tokenVars, callVars, Looking
    <3>2. CASE c = ClassOf(op[t])
      <4>1. x = h[t]
        BY <1>a, <1>2, <1>x, <2>b, <3>1, <3>2 DEF TypeOK
      <4>2. QED BY <1>2, <3>1, <3>2, <4>1 DEF RightInv, MadeInv, Made, ObjectAt
    <3>3. CASE c # ClassOf(op[t])
      <4>1. key[s][c] = x /\ pc[t] \in Looking
        BY <1>a, <1>2, <1>x, <2>b, <3>1, <3>3 DEF TypeOK, Looking
      <4>2. QED BY <1>2, <1>x, <2>a, <3>1, <4>1 DEF RightInv, CheckedInv, ObjectAt
    <3>4. QED BY <3>2, <3>3
  <2>5. FindLock(t) \/ Find(t) \/ Create(t) \/ Hold(t) \/ Rollback(t) \/ UseCached(t)
          => pc[t] \in Looking /\ key' = key /\ rsa' = rsa /\ content' = content
    BY DEF FindLock, NeedKey, Find, Create, Hold, Rollback, UseCached, sessVars, callVars, Looking
  <2>6. \/ FindLock(t) \/ Find(t) \/ Create(t) \/ Hold(t) \/ Rollback(t) \/ UseCached(t)
        \/ Check(t) \/ DestroySkip(t) \/ DestroyClear(t) \/ GetUnlock(t)
    <3>1. ~AttachPub(t)
      BY <2>a DEF AttachPub
    <3>2. QED BY <1>a, <1>2, <3>1, Arrivals DEF Looking
  <2>7. QED BY <2>1, <2>2, <2>3, <2>4, <2>5, <2>6
<1>3. QED BY <1>1, <1>2

LEMMA MadeStep ==
  ASSUME RightInv, CoreInv', "final" \notin Faults, NEW t \in Threads, Step(t)
  PROVE  MadeInv'
<1>a. /\ TypeOK /\ SessInv /\ CoreInv /\ LockInv /\ OwnInv /\ op' = op
  BY Frame DEF RightInv, DanglingInv, CoreInv, CallInv
<1>1. ASSUME NEW u \in Threads, u # t
      PROVE  /\ pc'[u] = "hold" => Made(u, h[u])'
             /\ pc'[u] = "unlock" /\ h'[u] # Nil
                  => Made(u, h[u])' /\ num'[sp'[u]] = content'[rsa'[u]].pair
             /\ pc'[u] \in Destroying /\ cls'[u] # ClassOf(op'[u])
                  => key'[sp'[u]][ClassOf(op'[u])] = Nil
             /\ pc'[u] = "use" => key'[sp'[u]][ClassOf(op'[u])] # Nil
             /\ op'[u] \notin RefOps
  <2>1. /\ pc'[u] = pc[u] /\ sp'[u] = sp[u] /\ rsa'[u] = rsa[u] /\ h'[u] = h[u] /\ cls'[u] = cls[u]
        /\ op'[u] = op[u]
    BY <1>a, <1>1, Frame
  <2>2. pc[u] # "idle" => key'[sp[u]] = key[sp[u]] /\ num'[sp[u]] = num[sp[u]]
    <3>1. pc[u] # "idle" => sp[u] # sp[t] /\ sp[u] \in Sessions
      BY <1>a, <1>1 DEF SessInv, TypeOK
    <3>2. QED BY <1>a, <3>1, Frame
  <2>3. pc[u] \in {"hold", "unlock"} => content'[rsa[u]] = content[rsa[u]] /\ obj' = obj
    BY <1>a, <1>1, ContentKept, LockedKept DEF HasRsa, Destroying, Locked
  <2>4. /\ pc'[u] = "hold" => Made(u, h[u])'
        /\ pc'[u] = "unlock" /\ h'[u] # Nil => Made(u, h[u])'
    BY <2>1, <2>3 DEF RightInv, MadeInv, Made, ObjectAt
  <2>5. /\ pc'[u] = "unlock" /\ h'[u] # Nil => num'[sp'[u]] = content'[rsa'[u]].pair
        /\ pc'[u] \in Destroying /\ cls'[u] # ClassOf(op'[u])
             => key'[sp'[u]][ClassOf(op'[u])] = Nil
    BY <2>1, <2>2, <2>3 DEF RightInv, MadeInv, Destroying
  <2>6. /\ pc'[u] = "use" => key'[sp'[u]][ClassOf(op'[u])] # Nil
        /\ op'[u] \notin RefOps
    BY <2>1, <2>2 DEF RightInv, MadeInv
  <2>7. QED BY <2>4, <2>5, <2>6
<1>2. /\ pc'[t] = "hold" => Made(t, h[t])'
      /\ pc'[t] = "unlock" /\ h'[t] # Nil => Made(t, h[t])' /\ num'[sp'[t]] = content'[rsa'[t]].pair
  <2>a. PICK s \in Sessions :
          /\ s = sp[t] /\ op'[t] = op[t]
          /\ HasRsa(t) => rsa[t] \in Rsas /\ content[rsa[t]] \in Content
    BY OwnSession
  <2>b. ClassOf(op[t]) \in Class
    BY <1>a, ClassTyping DEF TypeOK
  <2>1. CASE Find(t)
    <3>1. /\ pc[t] = "find" /\ h[t] = Nil
          /\ UNCHANGED <<content, obj, rsa>>
      BY <1>a, <2>1 DEF Find, OwnInv, tokenVars, callVars
    <3>2. pc'[t] = "unlock" => h'[t] = Nil
      BY <1>a, <2>1, <3>1 DEF Find, Goto, TypeOK
    <3>3. pc'[t] = "hold" => h'[t] \in Matches(ClassOf(op[t]), content[rsa[t]])
      BY <1>a, <2>1, <3>1 DEF Find, Goto, TypeOK
    <3>4. \A x \in Matches(ClassOf(op[t]), content[rsa[t]]) : Made(t, x)
      BY RsaAssumption DEF Matches, Made, ObjectAt
    <3>5. QED BY <2>a, <3>1, <3>2, <3>3, <3>4 DEF Made, ObjectAt
  <2>2. CASE Create(t)
    <3>1. pc[t] = "create" /\ h[t] = Nil /\ UNCHANGED <<content, rsa>>
      BY <1>a, <2>2 DEF Create, OwnInv, callVars
    <3>2. pc'[t] = "unlock" => h'[t] = Nil
      BY <1>a, <2>2, <3>1 DEF Create, Goto, TypeOK
    <3>3. pc'[t] = "hold" =>
            h'[t] \in SHandles /\ obj'[h'[t]] = [class |-> ClassOf(op[t]), pair |-> content[rsa[t]].pair]
      BY <1>a, <2>2 DEF Create, Goto, TypeOK
    <3>4. QED BY <2>a, <3>1, <3>2, <3>3, RsaAssumption DEF Made, ObjectAt
  <2>3. CASE Hold(t)
    <3>1. /\ pc[t] = "hold" /\ pc'[t] = "unlock" /\ num'[s] = content[rsa[t]].pair
          /\ UNCHANGED <<content, obj, h, rsa, sp>>
      BY <1>a, <2>a, <2>3 DEF Hold, Goto, TypeOK, callVars, locals
    <3>2. QED BY <2>a, <3>1 DEF RightInv, MadeInv, Made, ObjectAt
  <2>4. CASE Rollback(t)
    BY <1>a, <2>4 DEF Rollback, Goto, TypeOK
  <2>5. QED BY <1>a, <2>1, <2>2, <2>3, <2>4, Arrivals
<1>3. pc'[t] \in Destroying /\ cls'[t] # ClassOf(op'[t]) => key'[sp'[t]][ClassOf(op'[t])] = Nil
  <2>a. PICK s \in Sessions :
          /\ s = sp[t] /\ op'[t] = op[t] /\ op[t] \notin RefOps
          /\ pc[t] \notin {"uri", "findone", "attach"}
    BY OwnSession
  <2> SUFFICES ASSUME pc'[t] \in Destroying, cls'[t] # ClassOf(op[t])
               PROVE  sp'[t] = s /\ key'[s][ClassOf(op[t])] = Nil
    BY <2>a
  <2>1. CASE pc[t] \in Destroying /\ cls' = cls /\ key' = key /\ sp' = sp
    BY <2>a, <2>1 DEF RightInv, MadeInv
  <2>2. CASE DestroySkip(t) \/ DestroyClear(t)
    <3>1. /\ cls[t] = ClassOf(op[t]) /\ sp' = sp
      BY <1>a, <2>a, <2>2 DEF DestroySkip, DestroyClear, AfterDestroy, Goto, TypeOK, callVars, Destroying
    <3>2. key'[s][cls[t]] = Nil
      BY <1>a, <2>a, <2>2 DEF DestroySkip, DestroyClear, TypeOK, sessVars
    <3>3. QED BY <2>a, <3>1, <3>2
  <2>3. DestroyLock(t) \/ DropReference(t) \/ DestroyObject(t)
          => pc[t] \in Destroying /\ cls' = cls /\ key' = key /\ sp' = sp
    BY DEF DestroyLock, DropReference, DestroyObject, sessVars, callVars, locals, Destroying
  <2>4. DestroyLock(t) \/ DropReference(t) \/ DestroyObject(t) \/ DestroySkip(t) \/ DestroyClear(t)
    <3>1. CASE pc'[t] # "destroy"
      BY <1>a, <3>1, Arrivals DEF Destroying
    <3>2. CASE pc'[t] = "destroy"
      <4>1. ~FindOneObject(t) /\ ~Check(t)
        BY <1>a, <2>a, <3>2 DEF FindOneObject, Check, Goto, TypeOK
      <4>2. QED BY <1>a, <3>2, <4>1, Arrivals
    <3>3. QED BY <3>1, <3>2
  <2>5. QED BY <2>1, <2>2, <2>3, <2>4
<1>4. pc'[t] = "use" => key'[sp'[t]][ClassOf(op'[t])] # Nil
  <2> SUFFICES ASSUME pc'[t] = "use" PROVE key'[sp'[t]][ClassOf(op[t])] # Nil
    BY OwnSession
  <2>1. ClassOf(op[t]) \in Class /\ sp[t] \in Sessions
    BY <1>a, ClassTyping, OwnSession DEF TypeOK
  <2>2. CASE UseCached(t)
    BY <2>2 DEF UseCached, sessVars, callVars
  <2>3. CASE GetUnlock(t)
    BY <1>a, <2>1, <2>3 DEF GetUnlock, StoreKey, LoseSession, Goto, TypeOK, callVars
  <2>4. QED BY <1>a, <2>2, <2>3, Arrivals
<1>5. op'[t] \notin RefOps
  BY OwnSession
<1>6. QED BY <1>1, <1>2, <1>3, <1>4, <1>5 DEF MadeInv

LEMMA RightCall ==
  ASSUME RightInv, DanglingInv', Ops \cap RefOps = {}, NEW t \in Threads, Call(t)
  PROVE  RightInv'
<1>a. TypeOK /\ CoreInv /\ SessInv
  BY DEF RightInv, DanglingInv, CoreInv, CallInv
<1>1. PICK w \in Sessions :
        /\ pc[t] = "idle" /\ pc'[t] \in {"check", "uri"}
        /\ state[w] \in {"free", "unborn"} /\ state' = [state EXCEPT ![w] = "held"]
        /\ sp' = [sp EXCEPT ![t] = w] /\ op'[t] \in Ops
        /\ \A u \in Threads : u # t => pc'[u] = pc[u] /\ rsa'[u] = rsa[u] /\ op'[u] = op[u]
        /\ UNCHANGED <<obj, key, num, cls, h>>
  BY <1>a, CallMoves
<1>2. \A x : ObjectAt(x)' = ObjectAt(x)
  BY <1>1 DEF ObjectAt
<1>3. ASSUME NEW u \in Threads, pc'[u] \in Looking \cup Destroying
      PROVE  /\ pc'[u] = pc[u] /\ rsa'[u] = rsa[u] /\ op'[u] = op[u] /\ sp'[u] = sp[u]
             /\ pc[u] \in Looking => content'[rsa[u]] = content[rsa[u]]
  <2>1. u # t
    BY <1>1, <1>3 DEF Looking, Destroying
  <2>2. pc[u] \in Looking => content'[rsa[u]] = content[rsa[u]]
    BY <1>a, <2>1, ContentKeptCall DEF HasRsa, Looking, Destroying
  <2>3. QED BY <1>a, <1>1, <2>1, <2>2 DEF TypeOK
<1>4. SpeltInv'
  <2> SUFFICES ASSUME NEW s \in Sessions, NEW c \in Class,
                      state'[s] # "lost", key[s][c] # Nil, num[s] # Nil,
                      \A u \in Threads : sp'[u] = s => pc'[u] \notin Dropping
               PROVE  ObjectAt(key[s][c])' = [class |-> c, pair |-> num[s]]
    BY <1>1 DEF SpeltInv
  <2>1. state[s] # "lost"
    BY <1>a, <1>1 DEF TypeOK
  <2>2. \A u \in Threads : sp[u] = s => pc[u] \notin Dropping
    BY <1>a, <1>1 DEF TypeOK, Dropping
  <2>3. ObjectAt(key[s][c]) = [class |-> c, pair |-> num[s]]
    BY <2>1, <2>2 DEF RightInv, SpeltInv
  <2>4. QED BY <1>1, <2>3 DEF ObjectAt
<1>5. CheckedInv'
  <2> SUFFICES ASSUME NEW u \in Threads, NEW c \in Class,
                      pc'[u] \in Looking, key[sp'[u]][c] # Nil
               PROVE  ObjectAt(key[sp[u]][c])' = [class |-> c, pair |-> content'[rsa'[u]].pair]
    BY <1>1 DEF CheckedInv
  <2>1. /\ pc'[u] = pc[u] /\ rsa'[u] = rsa[u] /\ sp'[u] = sp[u]
        /\ content'[rsa[u]] = content[rsa[u]]
    BY <1>3
  <2>2. QED BY <1>1, <2>1 DEF RightInv, CheckedInv, ObjectAt
<1>6. MadeInv'
  <2>1. \A u \in Threads : op'[u] \notin RefOps
    BY <1>1 DEF RightInv, MadeInv
  <2>2. ASSUME NEW u \in Threads, pc'[u] \in Looking \cup Destroying
        PROVE  /\ pc[u] = "hold" => Made(u, h[u])'
               /\ pc[u] = "unlock" /\ h[u] # Nil
                    => Made(u, h[u])' /\ num[sp[u]] = content'[rsa'[u]].pair
               /\ pc[u] \in Destroying /\ cls[u] # ClassOf(op'[u]) => key[sp[u]][ClassOf(op'[u])] = Nil
               /\ pc[u] = "use" => key[sp[u]][ClassOf(op'[u])] # Nil
    <3>1. /\ pc[u] \in Looking \cup Destroying /\ op'[u] = op[u] /\ rsa'[u] = rsa[u]
          /\ pc[u] \in Looking => content'[rsa[u]] = content[rsa[u]]
      BY <1>3, <2>2
    <3>2. pc[u] = "hold" \/ (pc[u] = "unlock" /\ h[u] # Nil) => Made(u, h[u])'
      BY <1>1, <3>1 DEF RightInv, MadeInv, Made, ObjectAt, Looking
    <3>3. pc[u] = "unlock" /\ h[u] # Nil => num[sp[u]] = content'[rsa'[u]].pair
      BY <3>1 DEF RightInv, MadeInv, Looking
    <3>4. /\ pc[u] \in Destroying /\ cls[u] # ClassOf(op'[u]) => key[sp[u]][ClassOf(op'[u])] = Nil
          /\ pc[u] = "use" => key[sp[u]][ClassOf(op'[u])] # Nil
      BY <3>1 DEF RightInv, MadeInv
    <3>5. QED BY <3>2, <3>3, <3>4
  <2>3. \A u \in Threads : pc'[u] \in Looking \cup Destroying => pc'[u] = pc[u] /\ sp'[u] = sp[u]
    BY <1>3
  <2>4. \A u \in Threads :
          /\ pc'[u] = "hold" => Made(u, h[u])'
          /\ pc'[u] = "unlock" /\ h'[u] # Nil => Made(u, h[u])' /\ num'[sp'[u]] = content'[rsa'[u]].pair
          /\ pc'[u] \in Destroying /\ cls'[u] # ClassOf(op'[u]) => key'[sp'[u]][ClassOf(op'[u])] = Nil
          /\ pc'[u] = "use" => key'[sp'[u]][ClassOf(op'[u])] # Nil
    <3>1. /\ \A a \in {"hold", "unlock", "use"} : a \in Looking
          /\ num' = num /\ key' = key /\ h' = h /\ cls' = cls
      BY <1>1 DEF Looking
    <3>2. QED BY <2>2, <2>3, <3>1
  <2>5. QED BY <2>1, <2>4 DEF MadeInv
<1>7. QED BY <1>4, <1>5, <1>6 DEF RightInv

LEMMA RightInvInductive ==
  ASSUME Ops \cap RefOps = {}, "final" \notin Faults, RightInv, [Next]_vars
  PROVE  RightInv'
<1>1. DanglingInv' /\ CoreInv'
  BY DanglingInvInductive DEF RightInv, DanglingInv
<1>2. ASSUME NEW t \in Threads, Step(t) PROVE RightInv'
  BY <1>1, <1>2, SpeltStep, CheckedStep, MadeStep DEF RightInv
<1>3. ASSUME NEW t \in Threads, Call(t) PROVE RightInv'
  BY <1>1, <1>3, RightCall
<1>4. ASSUME UNCHANGED <<obj, state, key, num, pc, op, rsa, sp, cls, h>>,
             \A u \in Threads : pc[u] \in Looking => content'[rsa[u]] = content[rsa[u]]
      PROVE  RightInv'
  <2>1. SpeltInv'
    BY <1>4 DEF RightInv, SpeltInv, ObjectAt
  <2>2. CheckedInv'
    BY <1>4 DEF RightInv, CheckedInv, ObjectAt
  <2>3. MadeInv'
    BY <1>4, ZenonT(30) DEF RightInv, MadeInv, Made, ObjectAt, ClassOf, Looking
  <2>4. QED BY <1>1, <2>1, <2>2, <2>3 DEF RightInv
<1>5. CASE UNCHANGED vars
  BY <1>4, <1>5 DEF vars, tokenVars, sessVars, callVars, locals
<1>6. ASSUME NEW r \in Rsas, FreeRsa(r) \/ \E p \in Pairs, d \in BOOLEAN : NewRsa(r, p, d)
      PROVE  RightInv'
  <2>1. \A u \in Threads : pc[u] \in Looking => content'[rsa[u]] = content[rsa[u]]
    BY <1>6, ContentKeptApp DEF RightInv, DanglingInv, HasRsa, Looking, Destroying
  <2>2. UNCHANGED <<obj, state, key, num, pc, op, rsa, sp, cls, h>>
    BY <1>6, AppMoves
  <2>3. QED BY <1>4, <2>1, <2>2
<1>7. QED BY <1>2, <1>3, <1>5, <1>6 DEF Next

\* An operation uses the key it was called with: while a thread is between
\* C_SignInit and C_Sign, its handle names a live object of the right class
\* made from the key in its RSA structure, for the application's keys and keys
\* from files.  The loaders by reference break it: they cache the token's
\* object under an RSA structure whose 'n' and 'e' the session does not spell.
THEOREM KeyInUseIsRight ==
  ASSUME Ops \cap RefOps = {}, "final" \notin Faults
  PROVE  Spec => []UsesRightKey
<1>1. Init => RightInv
  <2> SUFFICES ASSUME Init PROVE RightInv
    OBVIOUS
  <2>1. SpeltInv /\ CheckedInv /\ MadeInv
    BY DEF Init, SpeltInv, CheckedInv, MadeInv, Looking, Destroying, RefOps
  <2>2. QED BY <2>1, InitDangling DEF RightInv
<1>2. RightInv /\ [Next]_vars => RightInv'
  BY RightInvInductive
<1>3. RightInv => UsesRightKey
  <2> SUFFICES ASSUME RightInv, NEW t \in Threads, pc[t] = "use"
               PROVE  ObjectAt(key[sp[t]][ClassOf(op[t])])
                        = [class |-> ClassOf(op[t]), pair |-> content[rsa[t]].pair]
    BY DEF UsesRightKey
  <2>1. ClassOf(op[t]) \in Class
    BY ClassTyping DEF RightInv, DanglingInv, CoreInv, CallInv, TypeOK
  <2>2. key[sp[t]][ClassOf(op[t])] # Nil
    BY DEF RightInv, MadeInv
  <2>3. QED BY <2>1, <2>2 DEF RightInv, CheckedInv, Looking
<1>4. QED BY <1>1, <1>2, <1>3, PTL DEF Spec
=============================================================================
