-------------------------- MODULE Pk11DsaDh_proofs --------------------------
(***************************************************************************)
(* Keys of DSA and DH, for any number of threads, sessions, structures and *)
(* numbers, whatever calls fail.                                           *)
(*                                                                         *)
(* A handle is cached with the number of the key it was made for, and an   *)
(* object that a call made for itself is found by nobody: its number is in *)
(* no structure but the one the call generates.                            *)
(***************************************************************************)
EXTENDS Pk11DsaDh, FiniteSetTheorems, TLAPS

Object == [kind : Kinds \cup {"temp"}, n : Numbers]
Steps == {"idle", "check", "get", "use", "read", "clean", "return"}
Kind(t) == KindOf[op[t]]

\* The type invariant, but for the bound of the counts.
Typed ==
  /\ content \in [Keys -> Numbers \cup {Nil}]
  /\ obj \in [Handles -> Object \cup {Nil}]
  /\ ref \in [Handles -> Nat]
  /\ cache \in [Sessions -> {"unborn", "dsa", "dh", "rand"}]
  /\ held \subseteq Sessions /\ searching \subseteq Sessions
  /\ key \in [Sessions -> [Kinds -> Handles \cup {Nil}]]
  /\ ptr \in [Sessions -> [Kinds -> Keys \cup {Nil}]]
  /\ num \in [Sessions -> [Kinds -> Numbers \cup {Nil}]]
  /\ finishing = Nil \/ finishing \subseteq Sessions
  /\ pc \in [Threads -> Steps]
  /\ op \in [Threads -> AllOps]
  /\ dsa \in [Threads -> Keys \cup {Nil}]
  /\ sp \in [Threads -> Sessions \cup {Nil}]
  /\ h \in [Threads -> Handles \cup {Nil}]
  /\ temps \in [Threads -> SUBSET Handles]
  /\ answer \in [Threads -> {"none", "good", "failed", "nokey"}]

\* Which of a thread's variables have a meaning at each step of its call.
Phase(t) ==
  /\ pc[t] = "idle" => sp[t] = Nil /\ dsa[t] = Nil
  /\ pc[t] # "idle" => sp[t] \in held /\ finishing = Nil
  /\ pc[t] \notin {"idle", "return"} => op[t] # "rand"
  /\ op[t] = "rand" => dsa[t] = Nil
  /\ pc[t] \in {"check", "get"} => op[t] # "generate"
  /\ pc[t] # "idle" /\ op[t] # "rand" => dsa[t] \in Keys /\ content[dsa[t]] # Nil
  /\ pc[t] \in {"idle", "check", "get"} \/ op[t] = "generate" => h[t] = Nil
  /\ pc[t] \notin {"read", "clean"} => temps[t] = {}
  /\ pc[t] = "read" => temps[t] # {}
  /\ temps[t] # {} => op[t] \in {"compute", "generate"}
Phases == \A t \in Threads : Phase(t)

\* Calls have a session of their own, and a structure that is generated is used
\* by no other call.
Apart ==
  \A t, u \in Threads :
    t # u => /\ sp[t] # Nil => sp[t] # sp[u]
             /\ dsa[t] # Nil /\ dsa[t] = dsa[u] => op[t] # "generate"

\* A cached handle names an object with the number it was made for.
CachedRight ==
  \A s \in Sessions, c \in Kinds :
    key[s][c] # Nil => /\ obj[key[s][c]] # Nil
                       /\ obj[key[s][c]] = [kind |-> c, n |-> num[s][c]]

\* The objects of a call are there, cached by no session, and found by no
\* search: what is derived has no kind that is searched for, what is generated
\* has a number that is in no other structure.
Temps ==
  \A t \in Threads : \A x \in temps[t] :
    /\ obj[x] # Nil
    /\ \A s \in Sessions, c \in Kinds : key[s][c] # x
    /\ op[t] = "compute" => obj[x].kind = "temp"
    /\ op[t] = "generate" =>
         /\ \A k \in Keys \ {dsa[t]} : content[k] # obj[x].n
         /\ \A y \in temps[t] : obj[y].n = obj[x].n
    /\ \A u \in Threads \ {t} : \A y \in temps[u] :
         x # y /\ (op[t] = "generate" /\ op[u] = "generate" => obj[x].n # obj[y].n)

\* The handle a call finds in its session, and the one it uses, are of its key.
Right ==
  \A t \in Threads :
    /\ pc[t] = "get" /\ key[sp[t]][Kind(t)] # Nil => num[sp[t]][Kind(t)] = content[dsa[t]]
    /\ pc[t] = "use" /\ h[t] # Nil =>
         h[t] = key[sp[t]][Kind(t)] /\ num[sp[t]][Kind(t)] = content[dsa[t]]

\* The places that cache a handle.
Slots(x) == {q \in Sessions \X Kinds : key[q[1]][q[2]] = x}
Refs == \A x \in Handles : IsFiniteSet(Slots(x)) /\ ref[x] = Cardinality(Slots(x))

KeysInv ==
  /\ Typed /\ Phases /\ Apart /\ CachedRight /\ Temps /\ Right
  /\ Refs /\ NoOrphan /\ OneObject

-----------------------------------------------------------------------------

\* The kinds and types of the entry points.
LEMMA KindFacts ==
  ASSUME KeysAssumption, Typed, Phases, NEW t \in Threads
  PROVE  /\ op[t] \in {"sign", "verify", "compute"} => Kind(t) \in Kinds
         /\ op[t] \notin {"sign", "verify", "compute"} => Kind(t) = Nil
         /\ Type[op[t]] = "dh" <=> op[t] \in {"compute", "generate"}
         /\ pc[t] \in {"check", "get"} => /\ Kind(t) \in Kinds /\ sp[t] \in Sessions
                                          /\ dsa[t] \in Keys /\ content[dsa[t]] \in Numbers
BY DEF KeysAssumption, Typed, Phases, Phase, Kind, KindOf, Type, AllOps, Kinds

\* Objects that are the same are of one kind.
LEMMA SameKind ==
  ASSUME NEW c, NEW d, NEW m, NEW n, [kind |-> c, n |-> m] = [kind |-> d, n |-> n]
  PROVE  c = d
<1>1. [kind |-> c, n |-> m].kind = [kind |-> d, n |-> n].kind
  OBVIOUS
<1>2. QED BY <1>1

\* A value in one place of the sessions.
LEMMA OnePlace ==
  ASSUME NEW V, NEW f \in [Sessions -> [Kinds -> V]], NEW s \in Sessions, NEW c \in Kinds, NEW v \in V,
         NEW g, g = [f EXCEPT ![s][c] = v]
  PROVE  /\ g \in [Sessions -> [Kinds -> V]]
         /\ g[s][c] = v
         /\ \A q \in Sessions, d \in Kinds : q # s \/ d # c => g[q][d] = f[q][d]
OBVIOUS

\* A session that caches a handle is counted.
LEMMA CountedHere ==
  ASSUME Refs, NEW s \in Sessions, NEW c \in Kinds, NEW x \in Handles, key[s][c] = x
  PROVE  ref[x] # 0
<1>1. <<s, c>> \in Slots(x)
  BY DEF Slots
<1>2. Slots(x) # {}
  BY <1>1
<1>3. QED BY <1>2, FS_EmptySet DEF Refs

\* A handle that is counted is cached.
LEMMA CountedSomewhere ==
  ASSUME Refs, NEW x \in Handles, ref[x] # 0
  PROVE  \E s \in Sessions, c \in Kinds : key[s][c] = x
<1>1. Slots(x) # {}
  BY FS_EmptySet DEF Refs
<1>2. QED BY <1>1 DEF Slots

\* A session that begins to cache a handle is one more.
LEMMA OneMore ==
  ASSUME KeysAssumption, Typed, Refs, NEW s \in Sessions, NEW c \in Kinds, NEW x \in Handles,
         key[s][c] = Nil, key' = [key EXCEPT ![s][c] = x], ref' = [ref EXCEPT ![x] = @ + 1]
  PROVE  Refs'
<1> DEFINE p == <<s, c>>
<1>1. /\ key'[s][c] = x
      /\ \A q \in Sessions, d \in Kinds : q # s \/ d # c => key'[q][d] = key[q][d]
  BY OnePlace DEF Typed
<1>2. \A q \in Sessions \X Kinds : q # p => key'[q[1]][q[2]] = key[q[1]][q[2]]
  BY <1>1
<1>3. p \in Sessions \X Kinds /\ key[p[1]][p[2]] = Nil /\ key'[p[1]][p[2]] = x
  BY <1>1
<1>4. Nil \notin Handles
  BY DEF KeysAssumption
<1> HIDE DEF p
<1>5. Slots(x)' = Slots(x) \cup {p} /\ p \notin Slots(x)
  BY <1>2, <1>3, <1>4 DEF Slots
<1>6. \A y \in Handles : y # x => Slots(y)' = Slots(y)
  BY <1>2, <1>3, <1>4 DEF Slots
<1>7. IsFiniteSet(Slots(x)) /\ ref[x] = Cardinality(Slots(x)) /\ ref[x] \in Nat
  BY DEF Refs, Typed
<1>8. IsFiniteSet(Slots(x)') /\ Cardinality(Slots(x)') = ref[x] + 1
  BY <1>5, <1>7, FS_AddElement
<1>9. ref'[x] = ref[x] + 1 /\ \A y \in Handles : y # x => ref'[y] = ref[y]
  BY DEF Typed
<1>10. QED BY <1>6, <1>7, <1>8, <1>9 DEF Refs

\* One that forgets it is one less.
LEMMA OneLess ==
  ASSUME KeysAssumption, Typed, Refs, NEW s \in Sessions, NEW c \in Kinds, NEW x \in Handles,
         key[s][c] = x, key' = [key EXCEPT ![s][c] = Nil],
         ref' = [ref EXCEPT ![x] = IF @ = 0 THEN 0 ELSE @ - 1]
  PROVE  Refs' /\ ref' \in [Handles -> Nat]
<1> DEFINE p == <<s, c>>
<1>1. /\ key'[s][c] = Nil
      /\ \A q \in Sessions, d \in Kinds : q # s \/ d # c => key'[q][d] = key[q][d]
  BY OnePlace DEF Typed
<1>2. \A q \in Sessions \X Kinds : q # p => key'[q[1]][q[2]] = key[q[1]][q[2]]
  BY <1>1
<1>3. p \in Sessions \X Kinds /\ key[p[1]][p[2]] = x /\ key'[p[1]][p[2]] = Nil
  BY <1>1
<1>4. Nil \notin Handles
  BY DEF KeysAssumption
<1> HIDE DEF p
<1>5. Slots(x)' = Slots(x) \ {p} /\ p \in Slots(x)
  BY <1>2, <1>3, <1>4 DEF Slots
<1>6. \A y \in Handles : y # x => Slots(y)' = Slots(y)
  BY <1>2, <1>3, <1>4 DEF Slots
<1>7. IsFiniteSet(Slots(x)) /\ ref[x] = Cardinality(Slots(x)) /\ ref[x] \in Nat /\ ref[x] # 0
  BY CountedHere DEF Refs, Typed
<1>8. IsFiniteSet(Slots(x)') /\ Cardinality(Slots(x)') = ref[x] - 1
  BY <1>5, <1>7, FS_RemoveElement
<1>9. ref'[x] = ref[x] - 1 /\ \A y \in Handles : y # x => ref'[y] = ref[y]
  BY <1>7 DEF Typed
<1>10. ref' \in [Handles -> Nat]
  <2>1. ref[x] - 1 \in Nat
    BY <1>7
  <2>2. ref' = [ref EXCEPT ![x] = ref[x] - 1]
    BY <1>7
  <2>3. QED BY <2>1, <2>2 DEF Typed
<1>11. QED BY <1>6, <1>7, <1>8, <1>9, <1>10 DEF Refs

\* An unused handle is cached nowhere.
LEMMA FreeUncounted ==
  ASSUME KeysAssumption, Typed, Refs, CachedRight, NEW x \in Handles, obj[x] = Nil
  PROVE  ref[x] = 0 /\ \A s \in Sessions, c \in Kinds : key[s][c] # x
<1>1. \A s \in Sessions, c \in Kinds : key[s][c] # x
  BY DEF KeysAssumption, CachedRight, Typed
<1>2. QED BY <1>1, CountedSomewhere

\* The session of a call is that of no other call.
LEMMA OwnSession ==
  ASSUME KeysAssumption, Typed, Phases, Apart, NEW t \in Threads, pc[t] # "idle", NEW u \in Threads \ {t}
  PROVE  sp[t] # sp[u] /\ (pc[u] # "idle" => sp[u] \in Sessions)
BY DEF KeysAssumption, Typed, Phases, Phase, Apart

-----------------------------------------------------------------------------

\* What steps keep that leave the token, the sessions' keys and the calls' data alone.
LEMMA SameKeys ==
  ASSUME KeysInv, UNCHANGED <<content, tokenVars, key, num, op, dsa, sp, temps>>
  PROVE  Apart' /\ CachedRight' /\ Temps' /\ Refs' /\ NoOrphan' /\ OneObject'
<1> USE DEF KeysInv, tokenVars
<1>1. Apart' /\ CachedRight' /\ NoOrphan' /\ OneObject'
  BY DEF Apart, CachedRight, NoOrphan, OneObject
<1>2. Temps'
  BY DEF Temps
<1>3. Refs'
  BY DEF Refs, Slots
<1>4. QED BY <1>1, <1>2, <1>3

\* And those that leave only the first two alone, when the thread that steps
\* has no objects.
LEMMA SameToken ==
  ASSUME KeysInv, UNCHANGED <<content, tokenVars, key, num, temps>>,
         NEW t \in Threads, temps[t] = {},
         \A u \in Threads \ {t} : op'[u] = op[u] /\ dsa'[u] = dsa[u]
  PROVE  CachedRight' /\ Temps' /\ Refs' /\ NoOrphan' /\ OneObject'
<1> USE DEF KeysInv, tokenVars
<1>1. CachedRight' /\ NoOrphan' /\ OneObject'
  BY DEF CachedRight, NoOrphan, OneObject
<1>2. Temps'
  BY DEF Temps
<1>3. Refs'
  BY DEF Refs, Slots
<1>4. QED BY <1>1, <1>2, <1>3

LEMMA InitInv ==
  ASSUME KeysAssumption, Init
  PROVE  KeysInv
<1>1. Typed
  BY DEF Init, Typed, Idle, None, AllOps, Steps
<1>2. Phases /\ Apart /\ Temps /\ Right
  BY DEF Init, Idle, Phases, Phase, Apart, Temps, Right
<1>3. CachedRight /\ NoOrphan /\ OneObject
  BY DEF Init, None, CachedRight, NoOrphan, OneObject
<1>4. Refs
  <2>1. \A x \in Handles : Slots(x) = {}
    BY DEF Init, None, Slots, KeysAssumption
  <2>2. QED BY <2>1, FS_EmptySet DEF Init, Refs
<1>5. QED BY <1>1, <1>2, <1>3, <1>4 DEF KeysInv

-----------------------------------------------------------------------------
(* The application. *)

LEMMA NewKeyInv ==
  ASSUME KeysAssumption, KeysInv, NEW k \in Keys, NEW n \in Numbers, NewKey(k, n)
  PROVE  KeysInv'
<1> USE DEF KeysInv, NewKey, tokenVars, sessVars, callVars
<1>1. Typed'
  BY DEF Typed
<1>2. \A u \in Threads : dsa[u] \in Keys /\ content[dsa[u]] # Nil => content'[dsa[u]] = content[dsa[u]]
  BY DEF Typed
<1>3. Phases' /\ Apart'
  BY <1>2 DEF Phases, Phase, Apart
<1>4. CachedRight' /\ NoOrphan' /\ OneObject'
  BY DEF CachedRight, NoOrphan, OneObject
<1>5. Refs'
  BY DEF Refs, Slots
<1>6. Temps'
  <2>1. \A u \in Threads : \A x \in temps[u] : x \in Handles /\ obj[x].n # n
    BY DEF Typed
  <2>2. \A j \in Keys : content'[j] = IF j = k THEN n ELSE content[j]
    BY DEF Typed
  <2>3. QED BY <2>1, <2>2 DEF Temps
<1>7. Right'
  <2>1. ASSUME NEW u \in Threads, pc[u] \in {"get", "use"}
        PROVE  content'[dsa[u]] = content[dsa[u]]
    BY <1>2, <2>1 DEF Phases, Phase
  <2>2. QED BY <2>1 DEF Right, Kind
<1>8. QED BY <1>1, <1>3, <1>4, <1>5, <1>6, <1>7

LEMMA FreeKeyInv ==
  ASSUME KeysAssumption, KeysInv, NEW k \in Keys, FreeKey(k)
  PROVE  KeysInv'
<1> USE DEF KeysInv, FreeKey, tokenVars, sessVars, callVars
<1>1. Typed'
  BY DEF Typed
<1>2. \A u \in Threads : dsa[u] \in Keys => content'[dsa[u]] = content[dsa[u]]
  BY DEF Typed
<1>3. Phases' /\ Apart'
  BY <1>2 DEF Phases, Phase, Apart
<1>4. CachedRight' /\ NoOrphan' /\ OneObject'
  BY DEF CachedRight, NoOrphan, OneObject
<1>5. Refs'
  BY DEF Refs, Slots
<1>6. Temps'
  <2>1. \A u \in Threads : \A x \in temps[u] : x \in Handles /\ obj[x] # Nil
    BY DEF Typed, Temps
  <2>2. \A u \in Threads : \A x \in temps[u] : obj[x].n # Nil
    BY <2>1 DEF Typed, Object, KeysAssumption
  <2>3. \A j \in Keys : content'[j] = IF j = k THEN Nil ELSE content[j]
    BY DEF Typed
  <2>4. QED BY <2>2, <2>3 DEF Temps
<1>7. Right'
  <2>1. ASSUME NEW u \in Threads, pc[u] \in {"get", "use"}
        PROVE  content'[dsa[u]] = content[dsa[u]]
    BY <1>2, <2>1 DEF Phases, Phase
  <2>2. QED BY <2>1 DEF Right, Kind
<1>8. QED BY <1>1, <1>3, <1>4, <1>5, <1>6, <1>7

-----------------------------------------------------------------------------
(* Calls begin and end. *)

\* A session that is taken was in nobody's hands.
LEMMA CallInv ==
  ASSUME KeysAssumption, KeysInv, NEW t \in Threads, NEW s \in Sessions, NEW o \in Ops, NEW k \in Keys,
         Call(t, o, k, s)
  PROVE  KeysInv'
<1> USE DEF KeysInv, Call, GetSession, Goto, Answer
<1>0. /\ o \in {"sign", "verify", "compute", "generate"} /\ Type[o] \in {"dsa", "dh"}
      /\ sp[t] = Nil /\ h[t] = Nil /\ temps[t] = {} /\ pc[t] = "idle"
  BY DEF KeysAssumption, AllOps, Type, Phases, Phase
<1>1. Typed'
  <2>1. cache' \in [Sessions -> {"unborn", "dsa", "dh", "rand"}] /\ held' \subseteq Sessions
    BY <1>0 DEF Typed
  <2>2. sp' \in [Threads -> Sessions \cup {Nil}] /\ dsa' \in [Threads -> Keys \cup {Nil}]
    BY DEF Typed
  <2>3. op' \in [Threads -> AllOps]
    BY <1>0 DEF Typed, AllOps
  <2>4. pc' \in [Threads -> Steps] /\ answer' \in [Threads -> {"none", "good", "failed", "nokey"}]
    BY DEF Typed, Steps
  <2>5. QED BY <2>1, <2>2, <2>3, <2>4 DEF Typed, tokenVars
<1>2. /\ sp'[t] = s /\ op'[t] = o /\ dsa'[t] = k /\ pc'[t] = IF o = "generate" THEN "use" ELSE "check"
      /\ \A u \in Threads \ {t} : sp'[u] = sp[u] /\ op'[u] = op[u] /\ dsa'[u] = dsa[u] /\ pc'[u] = pc[u]
  BY DEF Typed
<1>3. CachedRight' /\ Temps' /\ Refs' /\ NoOrphan' /\ OneObject'
  BY <1>0, <1>2, SameToken DEF tokenVars
<1>4. Phases'
  <2>1. Phase(t)'
    BY <1>0, <1>2 DEF Phase, Typed
  <2>2. ASSUME NEW u \in Threads \ {t} PROVE Phase(u)'
    BY <1>2 DEF Phases, Phase, Typed
  <2>3. QED BY <2>1, <2>2 DEF Phases
<1>5. Apart'
  <2>1. \A u \in Threads : sp[u] # s
    BY DEF Phases, Phase, KeysAssumption
  <2>2. QED BY <1>2, <2>1 DEF Apart
<1>6. Right'
  <2>1. ASSUME NEW u \in Threads \ {t}, pc[u] \in {"get", "use"}
        PROVE  Kind(u)' = Kind(u)
    BY <1>2 DEF Kind
  <2>2. pc'[t] # "get" /\ h'[t] = Nil
    BY <1>0, <1>2
  <2>3. QED BY <1>2, <2>1, <2>2 DEF Right
<1>7. QED BY <1>1, <1>3, <1>4, <1>5, <1>6

LEMMA RandInv ==
  ASSUME KeysAssumption, KeysInv, NEW t \in Threads, NEW s \in Sessions, pk11_rand_bytes(t, s)
  PROVE  KeysInv'
<1> USE DEF KeysInv, pk11_rand_bytes, GetSession, Goto, Answer
<1>0. sp[t] = Nil /\ h[t] = Nil /\ temps[t] = {} /\ pc[t] = "idle"
  BY DEF Phases, Phase
<1>1. Typed'
  <2>1. cache' \in [Sessions -> {"unborn", "dsa", "dh", "rand"}] /\ held' \subseteq Sessions
    BY DEF Typed
  <2>2. sp' \in [Threads -> Sessions \cup {Nil}] /\ dsa' \in [Threads -> Keys \cup {Nil}]
    BY DEF Typed
  <2>3. op' \in [Threads -> AllOps]
    BY DEF Typed, AllOps
  <2>4. pc' \in [Threads -> Steps] /\ answer' \in [Threads -> {"none", "good", "failed", "nokey"}]
    BY DEF Typed, Steps
  <2>5. QED BY <2>1, <2>2, <2>3, <2>4 DEF Typed, tokenVars
<1>2. /\ sp'[t] = s /\ op'[t] = "rand" /\ dsa'[t] = Nil /\ pc'[t] = "return"
      /\ \A u \in Threads \ {t} : sp'[u] = sp[u] /\ op'[u] = op[u] /\ dsa'[u] = dsa[u] /\ pc'[u] = pc[u]
  BY DEF Typed
<1>3. CachedRight' /\ Temps' /\ Refs' /\ NoOrphan' /\ OneObject'
  BY <1>0, <1>2, SameToken DEF tokenVars
<1>4. Phases'
  <2>1. Phase(t)'
    BY <1>0, <1>2 DEF Phase, Typed
  <2>2. ASSUME NEW u \in Threads \ {t} PROVE Phase(u)'
    BY <1>2 DEF Phases, Phase, Typed
  <2>3. QED BY <2>1, <2>2 DEF Phases
<1>5. Apart'
  <2>1. \A u \in Threads : sp[u] # s
    BY DEF Phases, Phase, KeysAssumption
  <2>2. QED BY <1>2, <2>1 DEF Apart
<1>6. Right'
  <2>1. ASSUME NEW u \in Threads \ {t}, pc[u] \in {"get", "use"}
        PROVE  Kind(u)' = Kind(u)
    BY <1>2 DEF Kind
  <2>2. QED BY <1>2, <2>1 DEF Right
<1>7. QED BY <1>1, <1>3, <1>4, <1>5, <1>6

LEMMA ReturnInv ==
  ASSUME KeysAssumption, KeysInv, NEW t \in Threads, ReturnSession(t)
  PROVE  KeysInv'
<1> USE DEF KeysInv, ReturnSession, Goto, Answer
<1>0. temps[t] = {}
  BY DEF Phases, Phase
<1>1. Typed'
  <2>1. /\ held' \subseteq Sessions /\ sp' \in [Threads -> Sessions \cup {Nil}]
        /\ dsa' \in [Threads -> Keys \cup {Nil}] /\ h' \in [Threads -> Handles \cup {Nil}]
    BY DEF Typed
  <2>2. pc' \in [Threads -> Steps] /\ answer' \in [Threads -> {"none", "good", "failed", "nokey"}]
    BY DEF Typed, Steps
  <2>3. QED BY <2>1, <2>2 DEF Typed, tokenVars
<1>2. /\ sp'[t] = Nil /\ op' = op /\ dsa'[t] = Nil /\ pc'[t] = "idle" /\ h'[t] = Nil
      /\ \A u \in Threads \ {t} : sp'[u] = sp[u] /\ dsa'[u] = dsa[u] /\ pc'[u] = pc[u] /\ h'[u] = h[u]
  BY DEF Typed
<1>3. CachedRight' /\ Temps' /\ Refs' /\ NoOrphan' /\ OneObject'
  BY <1>0, <1>2, SameToken DEF tokenVars
<1>4. Phases'
  <2>1. Phase(t)'
    BY <1>0, <1>2 DEF Phase, Typed
  <2>2. ASSUME NEW u \in Threads \ {t} PROVE Phase(u)'
    BY <1>2, OwnSession DEF Phases, Phase, Typed
  <2>3. QED BY <2>1, <2>2 DEF Phases
<1>5. Apart'
  BY <1>2 DEF Apart
<1>6. Right'
  BY <1>2 DEF Right, Kind
<1>7. QED BY <1>1, <1>3, <1>4, <1>5, <1>6

-----------------------------------------------------------------------------
(* Calls look for the key. *)

\* The list entries and objects after a session has forgotten a handle.
LEMMA Destroyed ==
  ASSUME KeysAssumption, KeysInv, NEW s \in Sessions, NEW c \in Kinds, key[s][c] # Nil, DestroyObject(s, c),
         UNCHANGED temps
  PROVE  /\ key'[s][c] = Nil
         /\ obj' \in [Handles -> Object \cup {Nil}] /\ ref' \in [Handles -> Nat]
         /\ key' \in [Sessions -> [Kinds -> Handles \cup {Nil}]]
         /\ ptr' \in [Sessions -> [Kinds -> Keys \cup {Nil}]]
         /\ num' \in [Sessions -> [Kinds -> Numbers \cup {Nil}]]
         /\ \A q \in Sessions, d \in Kinds :
              q # s \/ d # c => key'[q][d] = key[q][d] /\ num'[q][d] = num[q][d]
         /\ \A y \in Handles : obj'[y] \in {obj[y], Nil} /\ (y # key[s][c] => obj'[y] = obj[y])
         /\ CachedRight' /\ Refs' /\ NoOrphan' /\ OneObject'
<1> USE DEF KeysInv, DestroyObject, TryDestroy, DestroyLast
<1>0. PICK x \in Handles : x = key[s][c]
  BY DEF Typed
<1>1. x \in Handles /\ x # Nil
  BY DEF KeysAssumption
<1>2. /\ key' \in [Sessions -> [Kinds -> Handles \cup {Nil}]] /\ key'[s][c] = Nil
      /\ \A q \in Sessions, d \in Kinds : q # s \/ d # c => key'[q][d] = key[q][d]
  BY <1>0, OnePlace DEF Typed
<1>3. /\ num' \in [Sessions -> [Kinds -> Numbers \cup {Nil}]]
      /\ \A q \in Sessions, d \in Kinds : q # s \/ d # c => num'[q][d] = num[q][d]
  BY <1>0, OnePlace DEF Typed
<1>4. ptr' \in [Sessions -> [Kinds -> Keys \cup {Nil}]]
  BY <1>0, OnePlace DEF Typed
<1>5. Refs' /\ ref' \in [Handles -> Nat]
  BY <1>0, OneLess
<1>6. ref[x] \in Nat /\ ref[x] # 0
  BY <1>0, CountedHere DEF Typed
<1>7. /\ ref'[x] = ref[x] - 1 /\ \A y \in Handles \ {x} : ref'[y] = ref[y] /\ obj'[y] = obj[y]
      /\ obj'[x] = IF ref[x] = 1 THEN Nil ELSE obj[x]
  BY <1>0, <1>6 DEF Typed
<1>8. obj' \in [Handles -> Object \cup {Nil}]
  BY <1>0 DEF Typed
<1> HIDE DEF DestroyObject, TryDestroy, DestroyLast
<1>9. ASSUME ref[x] = 1
      PROVE  \A q \in Sessions, d \in Kinds : key'[q][d] # x
  <2>1. ref'[x] = 0
    BY <1>7, <1>9
  <2>2. IsFiniteSet(Slots(x)') /\ Cardinality(Slots(x)') = 0
    BY <1>1, <1>5, <2>1 DEF Refs
  <2>3. Slots(x)' = {}
    BY <2>2, FS_EmptySet
  <2>4. ASSUME NEW q \in Sessions, NEW d \in Kinds, key'[q][d] = x
        PROVE  <<q, d>> \in Slots(x)'
    BY <2>4 DEF Slots
  <2>5. QED BY <2>3, <2>4
<1>10. CachedRight'
  <2>1. ASSUME NEW q \in Sessions, NEW d \in Kinds, key'[q][d] # Nil
        PROVE  obj'[key'[q][d]] # Nil /\ obj'[key'[q][d]] = [kind |-> d, n |-> num'[q][d]]
    <3>1. q # s \/ d # c
      BY <1>2, <2>1
    <3>2. key'[q][d] = key[q][d] /\ num'[q][d] = num[q][d] /\ key[q][d] \in Handles
      BY <1>2, <1>3, <2>1, <3>1 DEF Typed
    <3>3. obj'[key[q][d]] = obj[key[q][d]]
      BY <1>7, <1>9, <3>2
    <3>4. QED BY <2>1, <3>2, <3>3 DEF CachedRight
  <2>2. QED BY <2>1 DEF CachedRight
<1>11. \A y \in Handles : obj'[y] \in {obj[y], Nil} /\ (y # x => obj'[y] = obj[y])
  BY <1>7
<1>12. NoOrphan'
  <2>1. ASSUME NEW y \in Handles, obj'[y] # Nil
        PROVE  ref'[y] > 0 \/ \E t \in Threads : y \in temps'[t]
    <3>1. obj[y] # Nil /\ ref[y] \in Nat
      BY <1>11, <2>1 DEF Typed
    <3>2. CASE y = x
      BY <1>6, <1>7, <2>1, <3>2
    <3>3. CASE y # x
      BY <1>7, <3>1, <3>3 DEF NoOrphan
    <3>4. QED BY <3>2, <3>3
  <2>2. QED BY <2>1 DEF NoOrphan
<1>13. OneObject'
  <2>1. \A y \in Handles : ref'[y] > 0 => ref[y] > 0 /\ obj'[y] = obj[y]
    BY <1>6, <1>7 DEF Typed
  <2>2. QED BY <2>1, <1>11 DEF OneObject
<1>14. QED BY <1>2, <1>3, <1>4, <1>5, <1>8, <1>10, <1>11, <1>0, <1>12, <1>13

\* The step and the handle of one call change.
LEMMA StepPhases ==
  ASSUME KeysInv, NEW t \in Threads, UNCHANGED <<content, held, finishing, op, dsa, sp, temps>>,
         Phase(t)', \A u \in Threads \ {t} : pc'[u] = pc[u] /\ h'[u] = h[u]
  PROVE  Phases'
BY DEF KeysInv, Phases, Phase

\* check_new_dsa_key_pub and the like: a handle that was made for another key goes.
LEMMA CheckInv ==
  ASSUME KeysAssumption, KeysInv, NEW t \in Threads, CheckNewKey(t)
  PROVE  KeysInv'
<1> DEFINE s == sp[t]
           c == Kind(t)
<1> USE DEF KeysInv, CheckNewKey, Goto
<1>0. c \in Kinds /\ s \in Sessions /\ dsa[t] \in Keys /\ op[t] \notin {"generate", "rand"} /\ temps[t] = {}
  BY KindFacts DEF Phases, Phase
<1>1. /\ pc' \in [Threads -> Steps] /\ pc'[t] = "get"
      /\ \A u \in Threads \ {t} : pc'[u] = pc[u] /\ h'[u] = h[u]
  BY DEF Typed, Steps
<1>2. Phases'
  <2>1. Phase(t)'
    BY <1>0, <1>1 DEF Phases, Phase
  <2>2. QED BY <1>1, <2>1, StepPhases
<1>3. CASE SameKey(s, c, dsa[t]) \/ key[s][c] = Nil
  <2>1. UNCHANGED <<tokenVars, key, ptr, num>>
    BY <1>3 DEF Kind
  <2>2. Typed'
    BY <1>1, <2>1 DEF Typed, tokenVars
  <2>3. Apart' /\ CachedRight' /\ Temps' /\ Refs' /\ NoOrphan' /\ OneObject'
    BY <2>1, SameKeys
  <2>4. Right'
    BY <1>1, <1>3, <2>1 DEF Right, Kind, SameKey
  <2>5. QED BY <1>2, <2>2, <2>3, <2>4
<1>4. CASE ~(SameKey(s, c, dsa[t]) \/ key[s][c] = Nil)
  <2>1. DestroyObject(s, c) /\ key[s][c] # Nil
    BY <1>4 DEF Kind
  <2>2. /\ key'[s][c] = Nil
        /\ obj' \in [Handles -> Object \cup {Nil}] /\ ref' \in [Handles -> Nat]
        /\ key' \in [Sessions -> [Kinds -> Handles \cup {Nil}]]
        /\ ptr' \in [Sessions -> [Kinds -> Keys \cup {Nil}]]
        /\ num' \in [Sessions -> [Kinds -> Numbers \cup {Nil}]]
        /\ \A q \in Sessions, d \in Kinds :
             q # s \/ d # c => key'[q][d] = key[q][d] /\ num'[q][d] = num[q][d]
        /\ \A y \in Handles : obj'[y] \in {obj[y], Nil} /\ (y # key[s][c] => obj'[y] = obj[y])
        /\ CachedRight' /\ Refs' /\ NoOrphan' /\ OneObject'
    BY <1>0, <2>1, Destroyed
  <2> HIDE DEF s, c, CheckNewKey
  <2>3. UNCHANGED <<content, cache, held, searching, finishing, op, dsa, sp, h, temps, answer>>
    BY DEF CheckNewKey
  <2>4. Typed'
    BY <1>1, <2>2, <2>3 DEF Typed
  <2>5. Apart'
    BY <2>3 DEF Apart
  <2>6. Temps'
    <3>1. ASSUME NEW u \in Threads, NEW x \in temps[u]
          PROVE  /\ x \in Handles /\ obj'[x] = obj[x]
                 /\ \A q \in Sessions, d \in Kinds : key'[q][d] # x
      <4>1. x \in Handles /\ x # Nil /\ \A q \in Sessions, d \in Kinds : key[q][d] # x
        BY DEF Temps, Typed, KeysAssumption
      <4>2. obj'[x] = obj[x]
        BY <1>0, <2>2, <4>1
      <4>3. ASSUME NEW q \in Sessions, NEW d \in Kinds
            PROVE  key'[q][d] # x
        <5>1. CASE q = s /\ d = c
          BY <2>2, <4>1, <5>1
        <5>2. CASE q # s \/ d # c
          BY <2>2, <4>1, <5>2
        <5>3. QED BY <5>1, <5>2
      <4>4. QED BY <4>1, <4>2, <4>3
    <3>2. QED BY <2>3, <3>1 DEF Temps
  <2>7. Right'
    <3>1. ASSUME NEW u \in Threads \ {t}, pc[u] \in {"get", "use"}
          PROVE  Kind(u) \in Kinds => /\ key'[sp[u]][Kind(u)] = key[sp[u]][Kind(u)]
                                      /\ num'[sp[u]][Kind(u)] = num[sp[u]][Kind(u)]
      <4>1. sp[u] \in Sessions /\ sp[u] # s
        BY <3>1, OwnSession DEF s, CheckNewKey
      <4>2. QED BY <2>2, <4>1
    <3>2. ASSUME NEW u \in Threads, pc[u] \in {"get", "use"}, Kind(u) \notin Kinds
          PROVE  pc[u] = "use" /\ h[u] = Nil
      BY <3>2, KindFacts DEF Phases, Phase, Typed, AllOps
    <3>3. key'[sp[t]][Kind(t)] = Nil
      BY <2>2 DEF s, c
    <3>4. QED BY <1>1, <2>3, <3>1, <3>2, <3>3 DEF Right, Kind
  <2>8. QED BY <1>2, <2>2, <2>4, <2>5, <2>6, <2>7
<1>5. QED BY <1>3, <1>4

\* The session's handle is used,
LEMMA HasHandleInv ==
  ASSUME KeysAssumption, KeysInv, NEW t \in Threads, HasHandle(t)
  PROVE  KeysInv'
<1> USE DEF KeysInv, HasHandle, Goto, sessVars, tokenVars
<1>0. /\ Kind(t) \in Kinds /\ sp[t] \in Sessions /\ op[t] \notin {"generate", "rand"} /\ temps[t] = {}
      /\ pc[t] = "get" /\ key[sp[t]][Kind(t)] # Nil
  BY KindFacts DEF Phases, Phase, Kind
<1>1. /\ pc' \in [Threads -> Steps] /\ pc'[t] = "use" /\ h'[t] = key[sp[t]][Kind(t)]
      /\ \A u \in Threads \ {t} : pc'[u] = pc[u] /\ h'[u] = h[u]
  BY DEF Typed, Steps, Kind
<1>2. h' \in [Threads -> Handles \cup {Nil}]
  BY <1>0 DEF Typed, Kind
<1>3. Typed'
  BY <1>1, <1>2 DEF Typed
<1>4. Apart' /\ CachedRight' /\ Temps' /\ Refs' /\ NoOrphan' /\ OneObject'
  BY SameKeys
<1>5. Phases'
  <2>1. Phase(t)'
    BY <1>0, <1>1 DEF Phases, Phase
  <2>2. QED BY <1>1, <2>1, StepPhases
<1>6. Right'
  BY <1>0, <1>1 DEF Right, Kind
<1>7. QED BY <1>3, <1>4, <1>5, <1>6

\* or one that a search finds or C_CreateObject makes, which is counted.
LEMMA FindOrCreateInv ==
  ASSUME KeysAssumption, KeysInv, NEW t \in Threads, FindOrCreate(t)
  PROVE  KeysInv'
<1> DEFINE new == [kind |-> Kind(t), n |-> content[dsa[t]]]
<1> USE DEF KeysInv
<1>0. /\ Kind(t) \in Kinds /\ sp[t] \in Sessions /\ op[t] \notin {"generate", "rand"} /\ temps[t] = {}
      /\ pc[t] = "get" /\ dsa[t] \in Keys /\ content[dsa[t]] \in Numbers
      /\ key[sp[t]][Kind(t)] = Nil
  BY KindFacts DEF Phases, Phase, Kind, FindOrCreate, NeedsKey
<1>1. PICK x \in NewHandles(Kind(t), content[dsa[t]]) \cup Matches(Kind(t), content[dsa[t]]) :
        /\ obj' = [obj EXCEPT ![x] = new]
        /\ ref' = Counted(x)
        /\ Cached(t, x)
  BY DEF FindOrCreate, Kind
<1>2. PICK s \in Sessions : s = sp[t]
  BY <1>0
<1>3. PICK c \in Kinds : c = Kind(t)
  BY <1>0
<1>4. PICK n \in Numbers : n = content[dsa[t]]
  BY <1>0
<1>5. x \in Handles /\ obj[x] \in {Nil, [kind |-> c, n |-> n]}
  BY <1>1, <1>3, <1>4 DEF NewHandles, Matches, Free
<1>6. obj[x] = Nil => \A y \in Handles : obj[y] # [kind |-> c, n |-> n]
  BY <1>1, <1>3, <1>4, <1>5 DEF NewHandles, Matches, KeysAssumption
<1>7. /\ key' = [key EXCEPT ![s][c] = x] /\ h' = [h EXCEPT ![t] = x]
      /\ ptr' = [ptr EXCEPT ![s][c] = dsa[t]] /\ num' = [num EXCEPT ![s][c] = n]
      /\ obj' = [obj EXCEPT ![x] = [kind |-> c, n |-> n]] /\ ref' = [ref EXCEPT ![x] = @ + 1]
      /\ pc' = [pc EXCEPT ![t] = "use"]
      /\ UNCHANGED <<content, cache, held, searching, finishing, op, dsa, sp, temps, answer>>
  BY <1>1, <1>2, <1>3, <1>4 DEF FindOrCreate, Cached, Counted, Goto, Kind
<1>8. /\ pc' \in [Threads -> Steps] /\ pc'[t] = "use" /\ h'[t] = x /\ h' \in [Threads -> Handles \cup {Nil}]
      /\ \A u \in Threads \ {t} : pc'[u] = pc[u] /\ h'[u] = h[u]
  BY <1>5, <1>7 DEF Typed, Steps
<1>9. /\ key' \in [Sessions -> [Kinds -> Handles \cup {Nil}]] /\ key'[s][c] = x
      /\ \A q \in Sessions, d \in Kinds : q # s \/ d # c => key'[q][d] = key[q][d]
  BY <1>5, <1>7, OnePlace DEF Typed
<1>10. /\ num' \in [Sessions -> [Kinds -> Numbers \cup {Nil}]] /\ num'[s][c] = n
       /\ \A q \in Sessions, d \in Kinds : q # s \/ d # c => num'[q][d] = num[q][d]
  BY <1>7, OnePlace DEF Typed
<1>11. ptr' \in [Sessions -> [Kinds -> Keys \cup {Nil}]]
  BY <1>0, <1>7, OnePlace DEF Typed
<1>12. /\ obj' \in [Handles -> Object \cup {Nil}] /\ obj'[x] = [kind |-> c, n |-> n] /\ obj'[x] # Nil
       /\ \A y \in Handles \ {x} : obj'[y] = obj[y]
  BY <1>5, <1>7 DEF Typed, Object, KeysAssumption
<1>13. /\ ref' \in [Handles -> Nat] /\ ref'[x] > 0
       /\ \A y \in Handles \ {x} : ref'[y] = ref[y]
  BY <1>5, <1>7 DEF Typed
<1>14. Typed'
  BY <1>7, <1>8, <1>9, <1>10, <1>11, <1>12, <1>13 DEF Typed
<1>15. Phases'
  <2>1. Phase(t)'
    BY <1>0, <1>7, <1>8 DEF Phases, Phase
  <2>2. QED BY <1>7, <1>8, <2>1, StepPhases
<1>16. Apart'
  BY <1>7 DEF Apart
<1>17. CachedRight'
  <2>1. ASSUME NEW q \in Sessions, NEW d \in Kinds, q # s \/ d # c, key[q][d] # Nil
        PROVE  obj[key[q][d]] # Nil /\ obj'[key[q][d]] = obj[key[q][d]]
    <3>1. key[q][d] \in Handles
      BY <2>1 DEF Typed
    <3>2. obj[key[q][d]] # Nil
      BY <2>1 DEF CachedRight
    <3>3. QED BY <1>5, <1>12, <3>1, <3>2
  <2>2. QED BY <1>9, <1>10, <1>12, <2>1 DEF CachedRight
<1>18. \A u \in Threads : x \notin temps[u]
  <2> SUFFICES ASSUME NEW u \in Threads, x \in temps[u]
               PROVE  FALSE
    OBVIOUS
  <2>1. obj[x] = [kind |-> c, n |-> n]
    BY <1>5 DEF Temps
  <2>2. obj[x].kind \in Kinds /\ obj[x].n = content[dsa[t]]
    BY <1>4, <2>1
  <2>3. CASE op[u] = "compute"
    BY <2>2, <2>3 DEF Temps, Kinds
  <2>4. CASE op[u] = "generate"
    BY <1>0, <2>2, <2>4 DEF Temps, Apart, KeysAssumption
  <2>5. QED BY <2>3, <2>4 DEF Phases, Phase
<1>19. Temps'
  <2>1. ASSUME NEW u \in Threads, NEW y \in temps[u]
        PROVE  /\ y \in Handles /\ obj'[y] = obj[y]
               /\ \A q \in Sessions, d \in Kinds : key'[q][d] # y
    <3>1. y \in Handles /\ y # x /\ \A q \in Sessions, d \in Kinds : key[q][d] # y
      BY <1>18 DEF Temps, Typed
    <3>2. ASSUME NEW q \in Sessions, NEW d \in Kinds
          PROVE  key'[q][d] # y
      <4>1. CASE q = s /\ d = c
        BY <1>9, <3>1, <4>1
      <4>2. CASE q # s \/ d # c
        BY <1>9, <3>1, <4>2
      <4>3. QED BY <4>1, <4>2
    <3>3. QED BY <1>12, <3>1, <3>2
  <2>2. QED BY <1>7, <2>1 DEF Temps
<1>20. Right'
  <2>1. ASSUME NEW u \in Threads \ {t}, pc[u] \in {"get", "use"}
        PROVE  Kind(u) \in Kinds => /\ key'[sp[u]][Kind(u)] = key[sp[u]][Kind(u)]
                                    /\ num'[sp[u]][Kind(u)] = num[sp[u]][Kind(u)]
    <3>1. sp[u] \in Sessions /\ sp[u] # s
      BY <1>0, <1>2, <2>1, OwnSession
    <3>2. QED BY <1>9, <1>10, <3>1
  <2>2. ASSUME NEW u \in Threads, pc[u] \in {"get", "use"}, Kind(u) \notin Kinds
        PROVE  pc[u] = "use" /\ h[u] = Nil
    BY <2>2, KindFacts DEF Phases, Phase, Typed, AllOps
  <2>3. /\ h'[t] = key'[sp[t]][Kind(t)]
        /\ num'[sp[t]][Kind(t)] = content[dsa[t]]
    BY <1>2, <1>3, <1>4, <1>8, <1>9, <1>10
  <2>4. \A u \in Threads : Kind(u)' = Kind(u) /\ sp'[u] = sp[u] /\ content'[dsa'[u]] = content[dsa[u]]
    BY <1>7 DEF Kind
  <2>5. ASSUME NEW u \in Threads \ {t}
        PROVE  /\ pc'[u] = "get" /\ key'[sp'[u]][Kind(u)'] # Nil => num'[sp'[u]][Kind(u)'] = content'[dsa'[u]]
               /\ pc'[u] = "use" /\ h'[u] # Nil =>
                    h'[u] = key'[sp'[u]][Kind(u)'] /\ num'[sp'[u]][Kind(u)'] = content'[dsa'[u]]
    BY <1>8, <2>1, <2>2, <2>4 DEF Right
  <2>6. QED BY <1>8, <2>3, <2>4, <2>5 DEF Right
<1>21. Refs'
  BY <1>0, <1>2, <1>3, <1>5, <1>7, OneMore
<1>22. NoOrphan'
  BY <1>7, <1>12, <1>13 DEF NoOrphan
<1>23. OneObject'
  <2>1. ASSUME NEW y \in Handles \ {x}, ref[y] > 0
        PROVE  obj[y] # [kind |-> c, n |-> n]
    <3>1. SUFFICES ASSUME obj[y] = [kind |-> c, n |-> n]
                   PROVE  FALSE
      OBVIOUS
    <3>2. obj[x] = [kind |-> c, n |-> n] /\ obj[x] # Nil
      BY <1>5, <1>6, <1>12, <3>1
    <3>3. ref[x] > 0
      BY <1>5, <1>18, <3>2 DEF NoOrphan
    <3>4. QED BY <1>5, <2>1, <3>1, <3>2, <3>3 DEF OneObject
  <2>2. QED BY <1>12, <1>13, <2>1 DEF OneObject
<1>24. QED BY <1>14, <1>15, <1>16, <1>17, <1>19, <1>20, <1>21, <1>22, <1>23

\* There is no handle: what the session caches stays, the number aside.
LEMMA NoHandleInv ==
  ASSUME KeysAssumption, KeysInv, NEW t \in Threads, NoHandle(t)
  PROVE  KeysInv'
<1> USE DEF KeysInv
<1>0. /\ Kind(t) \in Kinds /\ sp[t] \in Sessions /\ op[t] \notin {"generate", "rand"} /\ temps[t] = {}
      /\ pc[t] = "get" /\ dsa[t] \in Keys /\ content[dsa[t]] \in Numbers
      /\ key[sp[t]][Kind(t)] = Nil
  BY KindFacts DEF Phases, Phase, Kind, NoHandle, NeedsKey
<1>1. PICK s \in Sessions : s = sp[t]
  BY <1>0
<1>2. PICK c \in Kinds : c = Kind(t)
  BY <1>0
<1>3. /\ key' = [key EXCEPT ![s][c] = Nil] /\ h' = [h EXCEPT ![t] = Nil]
      /\ num' = num \/ num' = [num EXCEPT ![s][c] = content[dsa[t]]]
      /\ searching' \subseteq searching \cup {s} /\ pc' = [pc EXCEPT ![t] = "use"]
      /\ UNCHANGED <<content, obj, ref, cache, held, ptr, finishing, op, dsa, sp, temps, answer>>
  BY <1>1, <1>2 DEF NoHandle, Cached, Goto, Kind, tokenVars
<1>4. /\ pc' \in [Threads -> Steps] /\ pc'[t] = "use" /\ h'[t] = Nil /\ h' \in [Threads -> Handles \cup {Nil}]
      /\ \A u \in Threads \ {t} : pc'[u] = pc[u] /\ h'[u] = h[u]
  BY <1>3 DEF Typed, Steps
<1>5. key' = key
  BY <1>0, <1>1, <1>2, <1>3 DEF Typed
<1>6. /\ num' \in [Sessions -> [Kinds -> Numbers \cup {Nil}]]
      /\ \A q \in Sessions, d \in Kinds : q # s \/ d # c => num'[q][d] = num[q][d]
  <2>1. CASE num' = num
    BY <2>1 DEF Typed
  <2>2. CASE num' = [num EXCEPT ![s][c] = content[dsa[t]]]
    BY <1>0, <2>2, OnePlace DEF Typed
  <2>3. QED BY <1>3, <2>1, <2>2
<1>7. Typed'
  BY <1>3, <1>4, <1>5, <1>6 DEF Typed
<1>8. Phases'
  <2>1. Phase(t)'
    BY <1>0, <1>3, <1>4 DEF Phases, Phase
  <2>2. QED BY <1>3, <1>4, <2>1, StepPhases
<1>9. Apart' /\ NoOrphan' /\ OneObject'
  BY <1>3 DEF Apart, NoOrphan, OneObject
<1>10. CachedRight'
  <2>1. ASSUME NEW q \in Sessions, NEW d \in Kinds, key[q][d] # Nil
        PROVE  num'[q][d] = num[q][d]
    BY <1>0, <1>1, <1>2, <1>6, <2>1
  <2>2. UNCHANGED <<obj, key>>
    BY <1>3, <1>5
  <2>3. QED BY <2>1, <2>2 DEF CachedRight
<1>11. Temps' /\ Refs'
  BY <1>3, <1>5, SMTT(20) DEF Temps, Refs, Slots
<1>12. Right'
  <2>1. ASSUME NEW u \in Threads \ {t}, pc[u] \in {"get", "use"}
        PROVE  Kind(u) \in Kinds => num'[sp[u]][Kind(u)] = num[sp[u]][Kind(u)]
    <3>1. sp[u] \in Sessions /\ sp[u] # s
      BY <1>0, <1>1, <2>1, OwnSession
    <3>2. QED BY <1>6, <3>1
  <2>2. ASSUME NEW u \in Threads, pc[u] \in {"get", "use"}, Kind(u) \notin Kinds
        PROVE  pc[u] = "use" /\ h[u] = Nil
    BY <2>2, KindFacts DEF Phases, Phase, Typed, AllOps
  <2>3. QED BY <1>3, <1>4, <1>5, <2>1, <2>2 DEF Right, Kind
<1>13. QED BY <1>7, <1>8, <1>9, <1>10, <1>11, <1>12

-----------------------------------------------------------------------------
(* Calls use it. *)

\* Steps of which only the answer is left.
LEMMA UseInv ==
  ASSUME KeysAssumption, KeysInv, NEW t \in Threads,
         Sign(t) \/ Verify(t) \/ UseFails(t) \/ ReadFails(t)
  PROVE  KeysInv'
<1> USE DEF KeysInv, Goto, Answer
<1>0. /\ UNCHANGED <<content, tokenVars, sessVars, finishing, op, dsa, sp, h, temps>>
      /\ pc[t] \in {"use", "read"} /\ answer' \in [Threads -> {"none", "good", "failed", "nokey"}]
  BY DEF Sign, Verify, UseFails, ReadFails, Typed
<1>1. /\ pc' \in [Threads -> Steps] /\ pc'[t] \in {"return", "clean"}
      /\ pc'[t] = "return" => pc[t] = "use"
      /\ \A u \in Threads \ {t} : pc'[u] = pc[u] /\ h'[u] = h[u]
  BY DEF Sign, Verify, UseFails, ReadFails, Typed, Steps
<1>2. Typed'
  BY <1>0, <1>1 DEF Typed, tokenVars, sessVars
<1>3. Apart' /\ CachedRight' /\ Temps' /\ Refs' /\ NoOrphan' /\ OneObject'
  BY <1>0, SameKeys DEF sessVars
<1>4. Phases'
  <2>1. Phase(t)'
    BY <1>0, <1>1 DEF Phases, Phase, sessVars
  <2>2. QED BY <1>0, <1>1, <2>1, StepPhases DEF sessVars
<1>5. Right'
  BY <1>0, <1>1 DEF Right, Kind, sessVars
<1>6. QED BY <1>2, <1>3, <1>4, <1>5

\* New objects of a call: nothing else changes in the token.
LEMMA NewTemps ==
  ASSUME KeysAssumption, KeysInv, NEW t \in Threads, NEW new \in SUBSET Handles, new # {},
         pc[t] = "use", op[t] \in {"compute", "generate"},
         obj' \in [Handles -> Object \cup {Nil}],
         \A x \in new : obj[x] = Nil /\ obj'[x] # Nil,
         \A x \in Handles \ new : obj'[x] = obj[x],
         temps' = [temps EXCEPT ![t] = new], pc' = [pc EXCEPT ![t] = "read"],
         UNCHANGED <<content, ref, sessVars, finishing, op, dsa, sp, h, answer>>
  PROVE  /\ Typed' /\ Phases' /\ Apart' /\ CachedRight' /\ Right' /\ Refs' /\ NoOrphan' /\ OneObject'
         /\ \A u \in Threads \ {t} : /\ temps'[u] = temps[u]
                                     /\ \A x \in temps[u] : x \in Handles \ new /\ obj'[x] = obj[x]
         /\ temps'[t] = new
         /\ \A x \in new, s \in Sessions, c \in Kinds : key'[s][c] # x
<1> USE DEF KeysInv, sessVars
<1>1. /\ pc' \in [Threads -> Steps] /\ pc'[t] = "read"
      /\ \A u \in Threads \ {t} : pc'[u] = pc[u]
      /\ temps' \in [Threads -> SUBSET Handles] /\ temps'[t] = new
      /\ \A u \in Threads \ {t} : temps'[u] = temps[u]
  BY DEF Typed, Steps
<1>2. Typed'
  BY <1>1 DEF Typed
<1>3. Phases'
  <2>1. Phase(t)'
    BY <1>1 DEF Phases, Phase
  <2>2. ASSUME NEW u \in Threads \ {t} PROVE Phase(u)'
    BY <1>1 DEF Phases, Phase
  <2>3. QED BY <2>1, <2>2 DEF Phases
<1>4. Apart'
  BY DEF Apart
<1>5. \A x \in new : ref[x] = 0 /\ \A s \in Sessions, c \in Kinds : key[s][c] # x
  BY FreeUncounted
<1>6. CachedRight'
  <2>1. ASSUME NEW s \in Sessions, NEW c \in Kinds, key[s][c] # Nil
        PROVE  obj'[key[s][c]] = obj[key[s][c]]
    <3>1. key[s][c] \in Handles
      BY <2>1 DEF Typed
    <3>2. key[s][c] \notin new
      BY <1>5
    <3>3. QED BY <3>1, <3>2
  <2>2. QED BY <2>1 DEF CachedRight
<1>7. Right'
  BY <1>1 DEF Right, Kind
<1>8. Refs'
  BY DEF Refs, Slots
<1>9. NoOrphan'
  <2>1. temps[t] = {}
    BY DEF Phases, Phase
  <2>2. ASSUME NEW x \in Handles, obj'[x] # Nil
        PROVE  ref'[x] > 0 \/ \E u \in Threads : x \in temps'[u]
    <3>1. CASE x \in new
      BY <1>1, <3>1
    <3>2. CASE x \notin new
      <4>1. ref[x] > 0 \/ \E u \in Threads : x \in temps[u]
        BY <2>2, <3>2 DEF NoOrphan
      <4>2. QED BY <1>1, <2>1, <4>1
    <3>3. QED BY <3>1, <3>2
  <2>3. QED BY <2>2 DEF NoOrphan
<1>10. OneObject'
  BY <1>5 DEF OneObject
<1>11. \A u \in Threads \ {t} : \A x \in temps[u] : x \in Handles \ new /\ obj'[x] = obj[x]
  BY DEF Temps, Typed
<1>12. QED BY <1>1, <1>2, <1>3, <1>4, <1>5, <1>6, <1>7, <1>8, <1>9, <1>10, <1>11

LEMMA DeriveInv ==
  ASSUME KeysAssumption, KeysInv, NEW t \in Threads, Derive(t)
  PROVE  KeysInv'
<1> USE DEF KeysInv, Derive, Goto
<1>1. PICK x \in Free : /\ obj' = [obj EXCEPT ![x] = [kind |-> "temp", n |-> content[dsa[t]]]]
                        /\ temps' = [temps EXCEPT ![t] = {x}]
  OBVIOUS
<1>2. x \in Handles /\ obj[x] = Nil /\ content[dsa[t]] \in Numbers
  BY DEF Free, Phases, Phase, Typed
<1>3. /\ obj' \in [Handles -> Object \cup {Nil}] /\ obj'[x] # Nil /\ obj'[x].kind = "temp"
      /\ \A y \in Handles \ {x} : obj'[y] = obj[y]
  BY <1>1, <1>2 DEF Typed, Object, KeysAssumption
<1>4. /\ Typed' /\ Phases' /\ Apart' /\ CachedRight' /\ Right' /\ Refs' /\ NoOrphan' /\ OneObject'
      /\ \A u \in Threads \ {t} : /\ temps'[u] = temps[u]
                                  /\ \A y \in temps[u] : y \in Handles \ {x} /\ obj'[y] = obj[y]
      /\ temps'[t] = {x}
      /\ \A y \in {x}, s \in Sessions, c \in Kinds : key'[s][c] # y
  <2>1. {x} \in SUBSET Handles /\ {x} # {} /\ \A y \in {x} : obj[y] = Nil /\ obj'[y] # Nil
    BY <1>2, <1>3
  <2>2. QED BY <1>1, <1>3, <2>1, NewTemps
<1>5. Temps'
  <2>1. op[t] = "compute" /\ UNCHANGED <<content, op, dsa, key>>
    BY DEF sessVars
  <2> HIDE DEF Derive
  <2>2. QED BY <1>3, <1>4, <2>1 DEF Temps
<1>6. QED BY <1>4, <1>5

LEMMA GenerateInv ==
  ASSUME KeysAssumption, KeysInv, NEW t \in Threads, Generate(t)
  PROVE  KeysInv'
<1> USE DEF KeysInv, Generate, Goto
<1>1. PICK x \in Free, y \in Free, n \in Numbers :
        /\ x # y /\ \A k \in Keys : content[k] # n
        /\ \A z \in Handles : obj[z] # Nil => obj[z].n # n
        /\ obj' = [obj EXCEPT ![x] = [kind |-> "temp", n |-> n], ![y] = [kind |-> "dh", n |-> n]]
        /\ temps' = [temps EXCEPT ![t] = {x, y}]
  OBVIOUS
<1>2. x \in Handles /\ obj[x] = Nil /\ y \in Handles /\ obj[y] = Nil
  BY DEF Free
<1>3. /\ obj' \in [Handles -> Object \cup {Nil}] /\ obj'[x] # Nil /\ obj'[x].n = n /\ obj'[y] # Nil /\ obj'[y].n = n
      /\ \A z \in Handles \ {x, y} : obj'[z] = obj[z]
  <2>1. [kind |-> "temp", n |-> n] \in Object /\ [kind |-> "dh", n |-> n] \in Object
    BY DEF Object, Kinds
  <2>2. [kind |-> "temp", n |-> n] # Nil /\ [kind |-> "dh", n |-> n] # Nil
    BY <2>1 DEF Object, KeysAssumption
  <2>3. QED BY <1>1, <1>2, <2>1, <2>2 DEF Typed
<1>4. /\ Typed' /\ Phases' /\ Apart' /\ CachedRight' /\ Right' /\ Refs' /\ NoOrphan' /\ OneObject'
      /\ \A u \in Threads \ {t} : /\ temps'[u] = temps[u]
                                  /\ \A z \in temps[u] : z \in Handles \ {x, y} /\ obj'[z] = obj[z]
      /\ temps'[t] = {x, y}
      /\ \A z \in {x, y}, s \in Sessions, c \in Kinds : key'[s][c] # z
  <2>1. {x, y} \in SUBSET Handles /\ {x, y} # {} /\ \A z \in {x, y} : obj[z] = Nil /\ obj'[z] # Nil
    BY <1>2, <1>3
  <2>2. QED BY <1>1, <1>3, <2>1, NewTemps
<1>5. Temps'
  <2>1. op[t] = "generate" /\ UNCHANGED <<content, op, dsa, key>>
    BY DEF sessVars
  <2>2. \A u \in Threads \ {t} : \A z \in temps[u] : obj[z].n # n
    BY <1>1 DEF Temps, Typed
  <2>3. \A k \in Keys : content[k] # n
    BY <1>1
  <2>4. \A z \in {x, y} : obj'[z] # Nil /\ obj'[z].n = n
    BY <1>3
  <2> HIDE DEF Generate
  <2>5. ASSUME NEW z \in temps'[t]
        PROVE  /\ obj'[z] # Nil
               /\ \A s \in Sessions, c \in Kinds : key'[s][c] # z
               /\ \A k \in Keys \ {dsa'[t]} : content'[k] # obj'[z].n
               /\ \A w \in temps'[t] : obj'[w].n = obj'[z].n
               /\ \A u \in Threads \ {t} : \A w \in temps'[u] : z # w /\ obj'[z].n # obj'[w].n
    BY <1>4, <2>1, <2>2, <2>3, <2>4
  <2>6. ASSUME NEW u \in Threads \ {t}, NEW z \in temps'[u]
        PROVE  /\ obj'[z] # Nil
               /\ \A s \in Sessions, c \in Kinds : key'[s][c] # z
               /\ op'[u] = "compute" => obj'[z].kind = "temp"
               /\ op'[u] = "generate" =>
                    /\ \A k \in Keys \ {dsa'[u]} : content'[k] # obj'[z].n
                    /\ \A w \in temps'[u] : obj'[w].n = obj'[z].n
               /\ \A v \in Threads \ {u} : \A w \in temps'[v] :
                    z # w /\ (op'[u] = "generate" /\ op'[v] = "generate" => obj'[z].n # obj'[w].n)
    <3>1. z \in temps[u] /\ obj'[z] = obj[z]
      BY <1>4
    <3>2. ASSUME NEW v \in Threads \ {u}, NEW w \in temps'[v]
          PROVE  z # w /\ (op'[u] = "generate" /\ op'[v] = "generate" => obj'[z].n # obj'[w].n)
      <4>1. CASE v = t
        BY <2>5, <4>1
      <4>2. CASE v # t
        BY <1>4, <2>1, <3>1, <4>2 DEF Temps
      <4>3. QED BY <4>1, <4>2
    <3>3. QED BY <1>4, <2>1, <3>1, <3>2 DEF Temps
  <2>7. QED BY <2>1, <2>5, <2>6 DEF Temps
<1>6. QED BY <1>4, <1>5

\* The values of a pair go into the structure that is generated, which no
\* other call uses.
LEMMA ReadInv ==
  ASSUME KeysAssumption, KeysInv, NEW t \in Threads, ReadValue(t)
  PROVE  KeysInv'
<1> USE DEF KeysInv, Goto, Answer
<1>0. /\ pc[t] = "read" /\ temps[t] # {} /\ dsa[t] \in Keys /\ op[t] \in {"compute", "generate"}
      /\ UNCHANGED <<tokenVars, sessVars, finishing, op, dsa, sp, h, temps>>
  BY DEF ReadValue, Phases, Phase
<1>1. /\ pc' \in [Threads -> Steps] /\ pc'[t] = "clean"
      /\ \A u \in Threads \ {t} : pc'[u] = pc[u]
      /\ answer' \in [Threads -> {"none", "good", "failed", "nokey"}]
  BY DEF ReadValue, Typed, Steps
<1>2. /\ content' \in [Keys -> Numbers \cup {Nil}] /\ content'[dsa[t]] # Nil
      /\ \A k \in Keys \ {dsa[t]} : content'[k] = content[k]
      /\ op[t] # "generate" => content' = content
      /\ op[t] = "generate" => \E x \in temps[t] : content'[dsa[t]] = obj[x].n
  <2>1. CASE op[t] # "generate"
    BY <1>0, <2>1 DEF ReadValue, Typed, Phases, Phase
  <2>2. CASE op[t] = "generate"
    <3> DEFINE o == CHOOSE y \in {obj[x] : x \in temps[t]} : TRUE
    <3>1. PICK x \in temps[t] : o = obj[x]
      BY <1>0
    <3>2. x \in Handles /\ obj[x] # Nil
      BY DEF Temps, Typed
    <3>3. o \in Object
      <4>1. obj \in [Handles -> Object \cup {Nil}]
        BY DEF Typed
      <4>2. QED BY <3>1, <3>2, <4>1
    <3>4. o.n \in Numbers /\ o.n # Nil
      BY <3>3 DEF Object, KeysAssumption
    <3>5. content' = [content EXCEPT ![dsa[t]] = o.n]
      BY <2>2 DEF ReadValue
    <3> HIDE DEF o
    <3>6. QED BY <1>0, <2>2, <3>1, <3>4, <3>5 DEF Typed
  <2>3. QED BY <2>1, <2>2
<1>3. Typed'
  BY <1>0, <1>1, <1>2 DEF Typed, tokenVars, sessVars
<1>4. Phases'
  <2>1. Phase(t)'
    BY <1>0, <1>1, <1>2 DEF Phases, Phase, sessVars
  <2>2. ASSUME NEW u \in Threads \ {t} PROVE Phase(u)'
    <3>1. dsa[u] \in Keys /\ content[dsa[u]] # Nil => content'[dsa[u]] # Nil
      BY <1>2
    <3>2. QED BY <1>0, <1>1, <3>1 DEF Phases, Phase, sessVars
  <2>3. QED BY <2>1, <2>2 DEF Phases
<1>5. Apart' /\ CachedRight' /\ NoOrphan' /\ OneObject'
  BY <1>0 DEF Apart, CachedRight, NoOrphan, OneObject, tokenVars, sessVars
<1>6. Refs'
  BY <1>0 DEF Refs, Slots, tokenVars, sessVars
<1>7. Temps'
  <2>1. ASSUME NEW u \in Threads, NEW x \in temps[u], op[u] = "generate", NEW k \in Keys \ {dsa[u]}
        PROVE  content'[k] # obj[x].n
    <3>1. CASE op[t] = "generate" /\ k = dsa[t]
      <4>1. u # t
        BY <2>1, <3>1
      <4>2. PICK y \in temps[t] : content'[k] = obj[y].n
        BY <1>2, <3>1
      <4>3. obj[x].n # obj[y].n
        BY <2>1, <3>1, <4>1 DEF Temps
      <4>4. QED BY <4>2, <4>3
    <3>2. CASE ~(op[t] = "generate" /\ k = dsa[t])
      <4>1. content'[k] = content[k]
        BY <1>2, <3>2
      <4>2. QED BY <2>1, <4>1 DEF Temps
    <3>3. QED BY <3>1, <3>2
  <2>2. UNCHANGED <<obj, key, temps, op, dsa>>
    BY <1>0 DEF tokenVars, sessVars
  <2>3. QED BY <2>1, <2>2 DEF Temps
<1>8. Right'
  <2>1. ASSUME NEW u \in Threads \ {t}, pc[u] \in {"get", "use"}
        PROVE  content'[dsa[u]] = content[dsa[u]]
    <3>1. CASE op[t] # "generate"
      BY <1>2, <3>1
    <3>2. CASE op[t] = "generate"
      <4>1. dsa[t] # dsa[u] /\ (op[u] # "rand" => dsa[u] \in Keys)
        BY <1>0, <2>1, <3>2 DEF Apart, Phases, Phase, KeysAssumption
      <4>2. op[u] # "rand"
        BY <2>1 DEF Phases, Phase
      <4>3. QED BY <1>2, <4>1, <4>2
    <3>3. QED BY <3>1, <3>2
  <2>2. UNCHANGED <<key, num, sp, h, op, dsa>>
    BY <1>0 DEF sessVars
  <2>3. QED BY <1>1, <2>1, <2>2 DEF Right, Kind
<1>9. QED BY <1>3, <1>4, <1>5, <1>6, <1>7, <1>8

\* A call destroys its own objects, which nobody caches.
LEMMA CleanInv ==
  ASSUME KeysAssumption, KeysInv, NEW t \in Threads, CleanUp(t)
  PROVE  KeysInv'
<1> USE DEF KeysInv, Goto
<1>0. /\ pc[t] = "clean" /\ UNCHANGED <<content, ref, sessVars, finishing, op, dsa, sp, h, answer>>
      /\ obj' = [x \in Handles |-> IF x \in temps[t] THEN Nil ELSE obj[x]]
  BY DEF CleanUp, Without
<1>1. /\ pc' \in [Threads -> Steps] /\ pc'[t] = "return"
      /\ temps' \in [Threads -> SUBSET Handles] /\ temps'[t] = {}
      /\ \A u \in Threads \ {t} : pc'[u] = pc[u] /\ temps'[u] = temps[u]
  BY DEF CleanUp, Typed, Steps
<1>2. obj' \in [Handles -> Object \cup {Nil}]
  BY <1>0 DEF Typed
<1>3. Typed'
  BY <1>0, <1>1, <1>2 DEF Typed, sessVars
<1>4. Phases'
  <2>1. Phase(t)'
    BY <1>0, <1>1 DEF Phases, Phase, sessVars
  <2>2. ASSUME NEW u \in Threads \ {t} PROVE Phase(u)'
    BY <1>0, <1>1 DEF Phases, Phase, sessVars
  <2>3. QED BY <2>1, <2>2 DEF Phases
<1>5. Apart'
  BY <1>0 DEF Apart
<1>6. \A s \in Sessions, c \in Kinds : key[s][c] # Nil => key[s][c] \in Handles /\ obj'[key[s][c]] = obj[key[s][c]]
  BY <1>0 DEF Temps, Typed
<1>7. CachedRight'
  BY <1>0, <1>6 DEF CachedRight, sessVars
<1>8. Temps'
  <2>1. ASSUME NEW u \in Threads \ {t}, NEW x \in temps[u]
        PROVE  obj'[x] = obj[x]
    BY <1>0 DEF Temps, Typed
  <2>2. UNCHANGED <<content, key, op, dsa>>
    BY <1>0 DEF sessVars
  <2>3. QED BY <1>1, <2>1, <2>2 DEF Temps
<1>9. Right'
  BY <1>0, <1>1 DEF Right, Kind, sessVars
<1>10. Refs'
  BY <1>0 DEF Refs, Slots, sessVars
<1>11. NoOrphan'
  BY <1>0, <1>1 DEF NoOrphan
<1>12. OneObject'
  <2>1. ASSUME NEW x \in Handles, ref[x] > 0
        PROVE  obj'[x] = obj[x]
    <3>1. PICK s \in Sessions, c \in Kinds : key[s][c] = x
      BY <2>1, CountedSomewhere
    <3>2. QED BY <1>6, <3>1 DEF KeysAssumption
  <2>2. QED BY <1>0, <2>1 DEF OneObject
<1>13. QED BY <1>3, <1>4, <1>5, <1>7, <1>8, <1>9, <1>10, <1>11, <1>12

-----------------------------------------------------------------------------
(* pk11_finish: there are no calls. *)

LEMMA Quiet ==
  ASSUME KeysInv, finishing # Nil
  PROVE  \A t \in Threads : pc[t] = "idle" /\ sp[t] = Nil /\ dsa[t] = Nil /\ h[t] = Nil /\ temps[t] = {}
BY DEF KeysInv, Phases, Phase

LEMMA FinishInv ==
  ASSUME KeysAssumption, KeysInv, Finish
  PROVE  KeysInv'
<1> USE DEF KeysInv, Finish, callVars, sessVars
<1>1. Typed'
  BY DEF Typed, tokenVars
<1>2. Apart' /\ CachedRight' /\ Temps' /\ Refs' /\ NoOrphan' /\ OneObject'
  BY SameKeys
<1>3. Right'
  BY DEF Right, Kind
<1>4. Phases'
  BY DEF Phases, Phase, Idle
<1>5. QED BY <1>1, <1>2, <1>3, <1>4

LEMMA CloseInv ==
  ASSUME KeysAssumption, KeysInv, CloseSessions
  PROVE  KeysInv'
<1> USE DEF KeysInv, CloseSessions, callVars
<1>0. \A t \in Threads : pc[t] = "idle" /\ sp[t] = Nil /\ dsa[t] = Nil /\ h[t] = Nil /\ temps[t] = {}
  BY Quiet DEF KeysAssumption
<1>1. Typed'
  BY DEF Typed, None
<1>2. Phases' /\ Apart' /\ Temps' /\ Right'
  BY <1>0 DEF Phases, Phase, Apart, Temps, Right
<1>3. CachedRight' /\ NoOrphan' /\ OneObject'
  BY DEF CachedRight, None, NoOrphan, OneObject
<1>4. Refs'
  <2>1. \A x \in Handles : Slots(x)' = {}
    BY DEF Slots, None, KeysAssumption
  <2>2. QED BY <2>1, FS_EmptySet DEF Refs
<1>5. QED BY <1>1, <1>2, <1>3, <1>4

\* A session forgets what it is visited for: an object is cached there in its
\* own kind only, and counted once less.
LEMMA DestroyKeysInv ==
  ASSUME KeysAssumption, KeysInv, NEW s \in Sessions, DestroyKeys(s)
  PROVE  KeysInv'
<1> DEFINE gone == {c \in Visited(s) : key[s][c] # Nil}
<1> USE DEF KeysInv, callVars
<1>0. \A t \in Threads : pc[t] = "idle" /\ sp[t] = Nil /\ dsa[t] = Nil /\ h[t] = Nil /\ temps[t] = {}
  BY Quiet DEF DestroyKeys
<1>1. PICK G \in SUBSET Kinds : G = gone
  BY DEF Visited, Kinds
<1>2. /\ finishing # Nil /\ s \in finishing /\ finishing' = finishing \ {s}
      /\ ref' = [x \in Handles |-> ref[x] - Cardinality({c \in G : key[s][c] = x /\ ref[x] > 0})]
      /\ obj' = [x \in Handles |-> IF ref[x] = 1 /\ \E c \in G : key[s][c] = x THEN Nil ELSE obj[x]]
      /\ key' = [key EXCEPT ![s] = [c \in Kinds |-> IF c \in G THEN Nil ELSE @[c]]]
      /\ ptr' = [ptr EXCEPT ![s] = [c \in Kinds |-> IF c \in G THEN Nil ELSE @[c]]]
      /\ num' = [num EXCEPT ![s] = [c \in Kinds |-> IF c \in G THEN Nil ELSE @[c]]]
      /\ UNCHANGED <<content, cache, held, searching, callVars>>
  BY <1>1 DEF DestroyKeys
<1>3. \A c \in G : key[s][c] \in Handles
  BY <1>1 DEF Typed
<1> HIDE DEF gone
<1>4. /\ key' \in [Sessions -> [Kinds -> Handles \cup {Nil}]]
      /\ \A q \in Sessions, d \in Kinds : key'[q][d] = IF q = s /\ d \in G THEN Nil ELSE key[q][d]
  BY <1>2 DEF Typed
<1>5. /\ num' \in [Sessions -> [Kinds -> Numbers \cup {Nil}]]
      /\ \A q \in Sessions, d \in Kinds : num'[q][d] = IF q = s /\ d \in G THEN Nil ELSE num[q][d]
  BY <1>2 DEF Typed
<1>6. ptr' \in [Sessions -> [Kinds -> Keys \cup {Nil}]]
  BY <1>2 DEF Typed
<1>7. \A x \in Handles : \A c, d \in G : key[s][c] = x /\ key[s][d] = x => c = d
  <2>1. \A c \in G : key[s][c] # Nil
    BY <1>3 DEF KeysAssumption
  <2>2. \A c \in G : obj[key[s][c]] = [kind |-> c, n |-> num[s][c]]
    BY <2>1 DEF CachedRight
  <2>3. \A x \in Handles : \A c, d \in G : key[s][c] = x /\ key[s][d] = x =>
          [kind |-> c, n |-> num[s][c]] = [kind |-> d, n |-> num[s][d]]
    BY <2>2
  <2>4. QED BY <2>3, SameKind, ZenonT(30)
<1>8. ASSUME NEW x \in Handles
      PROVE  /\ IsFiniteSet(Slots(x)') /\ ref'[x] = Cardinality(Slots(x)') /\ ref'[x] \in Nat
             /\ ref'[x] > 0 => ref[x] > 0 /\ obj'[x] = obj[x]
             /\ obj'[x] # Nil => obj'[x] = obj[x] /\ (ref[x] > 0 => ref'[x] > 0)
  <2>1. IsFiniteSet(Slots(x)) /\ ref[x] = Cardinality(Slots(x)) /\ ref[x] \in Nat /\ x # Nil
    BY DEF Refs, Typed, KeysAssumption
  <2>2. CASE \E c \in G : key[s][c] = x
    <3>1. PICK c \in G : key[s][c] = x
      BY <2>2
    <3>2. ref[x] # 0
      BY <3>1, CountedHere
    <3>3. {d \in G : key[s][d] = x /\ ref[x] > 0} = {c}
      BY <1>7, <2>1, <3>1, <3>2
    <3>4. ref'[x] = ref[x] - 1
      BY <1>2, <3>3, FS_Singleton
    <3>5. obj'[x] = IF ref[x] = 1 THEN Nil ELSE obj[x]
      BY <1>2, <2>2
    <3>6. PICK p \in Slots(x) : p = <<s, c>>
      BY <3>1 DEF Slots
    <3>7. Slots(x)' = Slots(x) \ {p}
      <4>1. ASSUME NEW q \in Sessions \X Kinds
            PROVE  key'[q[1]][q[2]] = x <=> key[q[1]][q[2]] = x /\ q # p
        BY <1>4, <1>7, <2>1, <3>1, <3>6
      <4>2. QED BY <4>1 DEF Slots
    <3>8. IsFiniteSet(Slots(x)') /\ Cardinality(Slots(x)') = ref[x] - 1
      BY <2>1, <3>6, <3>7, FS_RemoveElement
    <3>9. QED BY <2>1, <3>2, <3>4, <3>5, <3>8
  <2>3. CASE ~\E c \in G : key[s][c] = x
    <3>1. {d \in G : key[s][d] = x /\ ref[x] > 0} = {}
      BY <2>3
    <3>2. ref'[x] = ref[x]
      BY <1>2, <2>1, <3>1, FS_EmptySet
    <3>3. obj'[x] = obj[x]
      BY <1>2, <2>3
    <3>4. Slots(x)' = Slots(x)
      <4>1. ASSUME NEW q \in Sessions \X Kinds
            PROVE  key'[q[1]][q[2]] = x <=> key[q[1]][q[2]] = x
        BY <1>4, <2>1, <2>3
      <4>2. QED BY <4>1 DEF Slots
    <3>5. QED BY <2>1, <3>2, <3>3, <3>4
  <2>4. QED BY <2>2, <2>3
<1>9. obj' \in [Handles -> Object \cup {Nil}] /\ ref' \in [Handles -> Nat]
  <2>1. obj' \in [Handles -> Object \cup {Nil}]
    BY <1>2 DEF Typed
  <2>2. QED BY <1>2, <1>8, <2>1
<1>10. Typed'
  BY <1>2, <1>4, <1>5, <1>6, <1>9 DEF Typed
<1>11. Phases' /\ Apart' /\ Temps' /\ Right'
  BY <1>0, <1>2 DEF Phases, Phase, Apart, Temps, Right
<1>12. CachedRight'
  <2>1. ASSUME NEW q \in Sessions, NEW d \in Kinds, key'[q][d] # Nil
        PROVE  obj'[key'[q][d]] # Nil /\ obj'[key'[q][d]] = [kind |-> d, n |-> num'[q][d]]
    <3>1. PICK x \in Handles : x = key'[q][d]
      BY <1>4, <2>1
    <3>2. key[q][d] = x /\ num'[q][d] = num[q][d]
      BY <1>4, <1>5, <2>1, <3>1
    <3>3. ref'[x] # 0
      <4>1. <<q, d>> \in Slots(x)'
        BY <3>1 DEF Slots
      <4>2. QED BY <1>8, <4>1, FS_EmptySet
    <3>4. obj'[x] = obj[x]
      BY <1>8, <3>3
    <3>5. QED BY <2>1, <3>1, <3>2, <3>4 DEF CachedRight
  <2>2. QED BY <2>1 DEF CachedRight
<1>13. Refs'
  BY <1>8 DEF Refs
<1>14. NoOrphan'
  BY <1>0, <1>2, <1>8 DEF NoOrphan
<1>15. OneObject'
  BY <1>8 DEF OneObject
<1>16. QED BY <1>10, <1>11, <1>12, <1>13, <1>14, <1>15

-----------------------------------------------------------------------------

LEMMA NextInv ==
  ASSUME KeysAssumption, KeysInv, [Next]_vars
  PROVE  KeysInv'
<1>1. CASE UNCHANGED vars
  <2> USE <1>1 DEF KeysInv, vars, tokenVars, sessVars, callVars
  <2>1. Apart' /\ CachedRight' /\ Temps' /\ Refs' /\ NoOrphan' /\ OneObject'
    BY SameKeys
  <2>2. Typed' /\ Phases' /\ Right'
    BY DEF Typed, Phases, Phase, Right, Kind
  <2>3. QED BY <2>1, <2>2
<1>2. ASSUME NEW k \in Keys, FreeKey(k) PROVE KeysInv'
  BY <1>2, FreeKeyInv
<1>3. ASSUME NEW k \in Keys, NEW n \in Numbers, NewKey(k, n) PROVE KeysInv'
  BY <1>3, NewKeyInv
<1>4. ASSUME NEW t \in Threads, NEW s \in Sessions, pk11_rand_bytes(t, s) PROVE KeysInv'
  BY <1>4, RandInv
<1>5. ASSUME NEW t \in Threads, NEW s \in Sessions, NEW o \in Ops, NEW k \in Keys, Call(t, o, k, s) PROVE KeysInv'
  BY <1>5, CallInv
<1>6. ASSUME NEW t \in Threads,
             \/ CheckNewKey(t) \/ HasHandle(t) \/ FindOrCreate(t) \/ NoHandle(t)
             \/ Sign(t) \/ Verify(t) \/ Derive(t) \/ Generate(t) \/ UseFails(t) \/ ReadValue(t) \/ ReadFails(t)
             \/ CleanUp(t) \/ ReturnSession(t)
      PROVE  KeysInv'
  BY <1>6, CheckInv, HasHandleInv, FindOrCreateInv, NoHandleInv, UseInv, DeriveInv, GenerateInv,
     ReadInv, CleanInv, ReturnInv
<1>7. ASSUME Finish \/ CloseSessions \/ \E s \in Sessions : DestroyKeys(s) PROVE KeysInv'
  BY <1>7, FinishInv, CloseInv, DestroyKeysInv
<1>8. QED BY <1>1, <1>2, <1>3, <1>4, <1>5, <1>6, <1>7 DEF Next

LEMMA KeysInvAlways ==
  ASSUME KeysAssumption
  PROVE  Spec => []KeysInv
BY InitInv, NextInv, PTL DEF Spec

\* A session caches a handle once: its objects are of different kinds.
LEMMA CountBounded ==
  ASSUME KeysAssumption, KeysInv, IsFiniteSet(Sessions), NEW x \in Handles
  PROVE  ref[x] \in 0..Cardinality(Sessions)
<1> DEFINE f == [q \in Slots(x) |-> q[1]]
<1>1. f \in [Slots(x) -> Sessions]
  BY DEF Slots
<1>2. ASSUME NEW q \in Slots(x), NEW r \in Slots(x), q[1] = r[1] PROVE q = r
  <2>1. /\ q \in Sessions \X Kinds /\ r \in Sessions \X Kinds
        /\ key[q[1]][q[2]] = x /\ key[r[1]][r[2]] = x
    BY DEF Slots
  <2>2. x # Nil
    BY DEF KeysAssumption
  <2>3. obj[x] = [kind |-> q[2], n |-> num[q[1]][q[2]]] /\ obj[x] = [kind |-> r[2], n |-> num[r[1]][r[2]]]
    BY <2>1, <2>2 DEF KeysInv, CachedRight
  <2>4. q[2] = r[2]
    BY <2>3, SameKind
  <2>5. QED BY <1>2, <2>1, <2>4
<1>3. f \in Injection(Slots(x), Sessions)
  BY <1>1, <1>2 DEF Injection, IsInjective
<1> HIDE DEF f
<1>4. Cardinality(Slots(x)) <= Cardinality(Sessions)
  BY <1>3, FS_Injection
<1>5. Cardinality(Sessions) \in Nat
  BY FS_CardinalityType
<1>6. ref[x] = Cardinality(Slots(x)) /\ ref[x] \in Nat
  BY DEF KeysInv, Refs, Typed
<1>7. QED BY <1>4, <1>5, <1>6

\* The variables keep to their types: a session counts once for an object, so
\* a count is at most the number of sessions (pk11_active_add).
THEOREM KeysTypeCorrect ==
  ASSUME KeysAssumption, IsFiniteSet(Sessions)
  PROVE  Spec => []TypeOK
<1>1. ASSUME KeysInv PROVE TypeOK
  <2>1. ref \in [Handles -> Nat] /\ \A x \in Handles : ref[x] \in 0..Cardinality(Sessions)
    BY <1>1, CountBounded DEF KeysInv, Typed
  <2>2. ref \in [Handles -> 0..Cardinality(Sessions)]
    BY <2>1
  <2>3. QED BY <1>1, <2>2 DEF KeysInv, Typed, TypeOK, Object, Steps
<1>2. QED BY <1>1, KeysInvAlways, PTL

\* pk11_active_add and TRY_OBJ_DESTROY: the active lists of DSA and DH count
\* exactly the sessions that cache a handle, whatever calls fail.
THEOREM RefsAreExact ==
  ASSUME KeysAssumption
  PROVE  Spec => []RefsExact
<1>1. KeysInv => RefsExact
  BY DEF KeysInv, Refs, Slots, RefsExact
<1>2. QED BY <1>1, KeysInvAlways, PTL

\* pk11_get_public_dsa_key, pk11_get_private_dsa_key, pk11_get_dh_key: threads
\* that look for one key at once get one object.
THEOREM OneObjectForAKey ==
  ASSUME KeysAssumption
  PROVE  Spec => []OneObject
<1>1. KeysInv => OneObject
  BY DEF KeysInv
<1>2. QED BY <1>1, KeysInvAlways, PTL

\* check_new_dsa_key_pub, check_new_dsa_key_priv, check_new_dh_key: a call uses
\* an object with the number that is in the structure it was given.
THEOREM CallsUseRightKey ==
  ASSUME KeysAssumption
  PROVE  Spec => []UsesRightKey
<1>1. ASSUME KeysInv PROVE UsesRightKey
  <2>1. ASSUME NEW t \in Threads, pc[t] = "use", h[t] # Nil
        PROVE  obj[h[t]] = [kind |-> KindOf[op[t]], n |-> content[dsa[t]]]
    <3>1. /\ h[t] = key[sp[t]][Kind(t)] /\ num[sp[t]][Kind(t)] = content[dsa[t]]
      BY <1>1, <2>1 DEF KeysInv, Right
    <3>2. sp[t] \in Sessions /\ op[t] \notin {"generate", "rand"} /\ op[t] \in AllOps
      BY <1>1, <2>1 DEF KeysInv, Phases, Phase, Typed
    <3>3. Kind(t) \in Kinds
      BY <3>2 DEF Kind, KindOf, Kinds, AllOps
    <3>4. QED BY <1>1, <2>1, <3>1, <3>2, <3>3 DEF KeysInv, CachedRight, Kind
  <2>2. QED BY <2>1 DEF UsesRightKey
<1>2. QED BY <1>1, KeysInvAlways, PTL

\* pk11_destroy_dsa_object_pub, pk11_DH_compute_key, pk11_DH_generate_key: an
\* object in the token is cached by a session or will be destroyed by its call.
THEOREM NoObjectOrphaned ==
  ASSUME KeysAssumption
  PROVE  Spec => []NoOrphan
<1>1. KeysInv => NoOrphan
  BY DEF KeysInv
<1>2. QED BY <1>1, KeysInvAlways, PTL
=============================================================================
