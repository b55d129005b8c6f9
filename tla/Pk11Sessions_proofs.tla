------------------------- MODULE Pk11Sessions_proofs -------------------------
(***************************************************************************)
(* The session caches over forks, for any number of users, types, engines  *)
(* and processes.                                                          *)
(*                                                                         *)
(* The argument is about places: a structure is in one list, or in the     *)
(* chain of one user of pk11_get_session, who has it from a list whose     *)
(* lock it holds.  The clean-up after a fork and that of pk11_finish free  *)
(* whole chains and lists.  Two parts need the process that started the    *)
(* library (me = 1), where nobody sees a fork.                             *)
(***************************************************************************)
EXTENDS Pk11Sessions, SequenceTheorems, FiniteSetTheorems, TLAPS

\* A list has each of its structures once.
Once(q) == \A i, j \in DOMAIN q : q[i] = q[j] => i = j

\* The structures of a list: the first one and those of the tail.
LEMMA MembersSeq ==
  ASSUME NEW q \in Seq(Sessions)
  PROVE  /\ Members(q) \subseteq Sessions
         /\ q # <<>> => /\ Head(q) \in Sessions /\ Tail(q) \in Seq(Sessions)
                        /\ Head(q) \in Members(q)
                        /\ Members(Tail(q)) \subseteq Members(q)
                        /\ Members(q) = {Head(q)} \cup Members(Tail(q))
<1>0. DOMAIN q = 1..Len(q) /\ Len(q) \in Nat
  OBVIOUS
<1>1. Members(q) \subseteq Sessions
  BY DEF Members
<1>2. ASSUME q # <<>>
      PROVE  /\ Head(q) \in Sessions /\ Tail(q) \in Seq(Sessions)
             /\ Head(q) \in Members(q)
             /\ Members(q) = {Head(q)} \cup Members(Tail(q))
  <2>1. Len(q) > 0 /\ Head(q) = q[1]
    BY <1>2
  <2>2. /\ Tail(q) \in Seq(Sessions) /\ Len(Tail(q)) = Len(q) - 1
        /\ \A i \in 1..Len(q) - 1 : Tail(q)[i] = q[i + 1]
    BY <1>2, HeadTailProperties
  <2>3. DOMAIN Tail(q) = 1..(Len(q) - 1)
    BY <2>2
  <2>4. Members(Tail(q)) = {q[i + 1] : i \in 1..(Len(q) - 1)}
    BY <2>2, <2>3 DEF Members
  <2>5. Members(q) = {q[i] : i \in 1..Len(q)}
    BY <1>0 DEF Members
  <2>6. ASSUME NEW i \in 1..Len(q), i # 1 PROVE \E j \in 1..(Len(q) - 1) : q[i] = q[j + 1]
    <3>1. i \in Int /\ i - 1 \in 1..(Len(q) - 1) /\ (i - 1) + 1 = i
      BY <1>0, <2>6
    <3>2. QED BY <3>1
  <2>7. Members(q) \subseteq {q[1]} \cup Members(Tail(q))
    BY <2>4, <2>5, <2>6
  <2>8. ASSUME NEW i \in 1..(Len(q) - 1) PROVE i + 1 \in 1..Len(q)
    BY <1>0
  <2>12. 1 \in 1..Len(q)
    BY <1>0, <2>1
  <2>9. {q[1]} \cup Members(Tail(q)) \subseteq Members(q)
    BY <2>4, <2>5, <2>8, <2>12
  <2>10. QED BY <2>1, <2>2, <2>7, <2>9, <1>0
<1>3. QED BY <1>1, <1>2

\* An empty list has none.
LEMMA MembersEmpty == Members(<<>>) = {} /\ Once(<<>>)
<1>1. DOMAIN <<>> = {}
  OBVIOUS
<1>2. QED BY <1>1 DEF Members, Once

\* Without its first structure a list still has each once.
LEMMA OnceTail ==
  ASSUME NEW q \in Seq(Sessions), Once(q), q # <<>>
  PROVE  Once(Tail(q)) /\ Head(q) \notin Members(Tail(q))
<1>1. /\ Tail(q) \in Seq(Sessions) /\ Len(Tail(q)) = Len(q) - 1
      /\ \A i \in 1..Len(q) - 1 : Tail(q)[i] = q[i + 1]
  BY HeadTailProperties
<1>2. DOMAIN q = 1..Len(q) /\ Len(q) \in Nat /\ Len(q) > 0 /\ Head(q) = q[1]
  OBVIOUS
<1>3. DOMAIN Tail(q) = 1..(Len(q) - 1)
  BY <1>1
<1>4. ASSUME NEW i \in DOMAIN Tail(q) PROVE i + 1 \in DOMAIN q /\ i + 1 # 1 /\ Tail(q)[i] = q[i + 1] /\ i \in Nat
  BY <1>1, <1>2, <1>3
<1>5. Once(Tail(q))
  <2> SUFFICES ASSUME NEW i \in DOMAIN Tail(q), NEW j \in DOMAIN Tail(q), Tail(q)[i] = Tail(q)[j] PROVE i = j
    BY DEF Once
  <2>1. i + 1 = j + 1
    BY <1>4 DEF Once
  <2>2. QED BY <2>1, <1>4
<1>6. 1 \in DOMAIN q
  BY <1>2
<1>7. Head(q) \notin Members(Tail(q))
  BY <1>2, <1>4, <1>6 DEF Once, Members
<1>8. QED BY <1>5, <1>7

\* A structure that is put in front of a list without it.
LEMMA Prepend ==
  ASSUME NEW q \in Seq(Sessions), NEW s \in Sessions
  PROVE  /\ <<s>> \o q \in Seq(Sessions)
         /\ Members(<<s>> \o q) = {s} \cup Members(q)
         /\ Once(q) /\ s \notin Members(q) => Once(<<s>> \o q)
<1> DEFINE p == <<s>> \o q
<1>1. /\ p \in Seq(Sessions) /\ Len(p) = Len(q) + 1 /\ p[1] = s
      /\ \A i \in 1..Len(p) : i # 1 => p[i] = q[i - 1]
  OBVIOUS
<1>2. DOMAIN p = 1..Len(p) /\ DOMAIN q = 1..Len(q) /\ Len(q) \in Nat
  BY <1>1
<1> HIDE DEF p
<1>3. ASSUME NEW i \in DOMAIN p, i # 1 PROVE i - 1 \in DOMAIN q /\ p[i] = q[i - 1] /\ i \in Nat
  BY <1>1, <1>2, <1>3
<1>4. ASSUME NEW i \in DOMAIN q PROVE i + 1 \in DOMAIN p /\ p[i + 1] = q[i] /\ 1 \in DOMAIN p
  BY <1>1, <1>2
<1>5. 1 \in DOMAIN p
  BY <1>1, <1>2
<1>6. Members(p) = {s} \cup Members(q)
  <2>1. Members(p) \subseteq {s} \cup Members(q)
    BY <1>1, <1>3 DEF Members
  <2>2. {s} \cup Members(q) \subseteq Members(p)
    BY <1>1, <1>4, <1>5 DEF Members
  <2>3. QED BY <2>1, <2>2
<1>7. ASSUME Once(q), s \notin Members(q) PROVE Once(p)
  <2> SUFFICES ASSUME NEW i \in DOMAIN p, NEW j \in DOMAIN p, p[i] = p[j] PROVE i = j
    BY DEF Once
  <2>1. CASE i = 1 /\ j = 1
    BY <2>1
  <2>2. CASE i = 1 /\ j # 1
    BY <2>2, <1>1, <1>3, <1>7 DEF Members
  <2>3. CASE i # 1 /\ j = 1
    BY <2>3, <1>1, <1>3, <1>7 DEF Members
  <2>4. CASE i # 1 /\ j # 1
    <3>1. i - 1 = j - 1
      BY <2>4, <1>3, <1>7 DEF Once
    <3>2. QED BY <3>1, <2>4, <1>3
  <2>5. QED BY <2>1, <2>2, <2>3, <2>4
<1>8. QED BY <1>1, <1>6, <1>7 DEF p

\* A list of one structure.
LEMMA Pairs ==
  ASSUME NEW s \in Sessions
  PROVE  <<s>> \in Seq(Sessions)
OBVIOUS


-----------------------------------------------------------------------------
(* The inductive invariant. *)

\* The structures a user has: the one it uses, and the rest of the list it
\* took it from until pk11_get_session unlocks that list.
Chain(u) == IF held[u] = Nil THEN {} ELSE {held[u]} \cup Members(rest[u])

\* The user took its structures from the list of the type and has not written
\* back what is left of it.
Taking(u, ty) ==
  /\ pc[u] = "get" /\ type[u] = ty /\ lock[ty] = u
  /\ head[ty] # <<>> /\ held[u] = Head(head[ty]) /\ rest[u] = Tail(head[ty])

\* Users share no structure, and have none that was freed.
Apart == \A u, v \in Users : u # v => Chain(u) \cap Chain(v) = {}
Chained ==
  \A u \in Users :
    held[u] # Nil => Once(rest[u]) /\ held[u] \notin Members(rest[u]) /\ Chain(u) \subseteq alive

\* Lists share no structure and have each once, but keep them when pk11_finish
\* frees them.
Listed ==
  initialized =>
    \A ty \in Types : /\ Once(head[ty]) /\ Members(head[ty]) \subseteq alive
                      /\ \A other \in Types \ {ty} : Members(head[ty]) \cap Members(head[other]) = {}

\* What a user has is in no list, except while it is taken from one.
Unlisted ==
  initialized =>
    \A u \in Users, ty \in Types : Taking(u, ty) \/ Members(head[ty]) \cap Chain(u) = {}

\* The process that started the library has not forked, so the library was
\* not initialized behind the engine's back.
Parent ==
  me = 1 =>
    /\ pid \in {0, 1} /\ \A u \in Users : ~forked[u] /\ pc[u] # "setup"
    /\ initialized => cryptoki /\ initPid = 1
    /\ ~initialized => alive = {} /\ \A u \in Users : pc[u] = "idle"

\* A user of the first process holds the lock and writes the rest of its list back.
Returning ==
  me = 1 =>
    \A u \in Users :
      /\ pc[u] # "idle" => locks
      /\ pc[u] = "get" => /\ lock[type[u]] = u
                          /\ Taking(u, type[u]) \/ head[type[u]] = <<>>

\* No structure is lost: one that was not set up is that of a user that is about to.
Kept ==
  me = 1 =>
    /\ alive \subseteq Cached \cup {held[u] : u \in Users}
    /\ \A s \in Sessions : owner[s] \in {0, 1}
    /\ \A s \in alive : owner[s] # 1 => \E u \in Users : held[u] = s /\ pc[u] = "get"

\* The mutexes are there.
Lockable == faults \cap {"noslot", "locks"} = {} /\ (me = 1 \/ "load" \notin faults)
Locked ==
  Lockable =>
    /\ ~crashed
    /\ initialized => locks
    /\ \A u \in Users : pc[u] # "idle" => locks
    /\ engine \in functional => locks

InPlace == Apart /\ Chained /\ Listed /\ Unlisted
Placed == CleanUpWorks => InPlace

SessionsInv == TypeOK /\ Parent /\ Returning /\ Kept /\ Locked /\ Placed

\* With one type of operations a process that has noticed the fork has only
\* sessions of its own in the list, and its users get no others.  A user that
\* notices it is alone until the list has been cleaned.
Owned ==
  /\ pid <= me
  /\ pid = 0 => alive = {}
  /\ initialized /\ pid = me => \A s \in Cached : owner[s] = me
  /\ \A u \in Users :
       pc[u] \in {"get", "setup"} =>
         IF forked[u]
           THEN pid # me /\ lock[type[u]] = u
           ELSE pid = me /\ owner[held[u]] \in {0, me} /\ \A s \in Members(rest[u]) : owner[s] = me
\* The parts of the type invariant.
LibTypes ==
  /\ faults \in FaultSets
  /\ me \in 1..MaxPid /\ pid \in 0..MaxPid /\ initPid \in 0..MaxPid
  /\ initialized \in BOOLEAN /\ dso \in BOOLEAN /\ locks \in BOOLEAN
  /\ cryptoki \in BOOLEAN /\ crashed \in BOOLEAN
  /\ engine \in Engines \cup {Nil}
  /\ functional \subseteq Engines
ListTypes ==
  /\ lock \in [Types -> Users \cup {Nil}]
  /\ head \in [Types -> Seq(Sessions)]
  /\ alive \subseteq Sessions
  /\ owner \in [Sessions -> 0..MaxPid]
UserTypes ==
  /\ pc \in [Users -> {"idle", "get", "setup", "use"}]
  /\ type \in [Users -> Types]
  /\ forked \in [Users -> BOOLEAN]
  /\ held \in [Users -> Sessions \cup {Nil}]
  /\ rest \in [Users -> Seq(Sessions)]
  /\ \A u \in Users : pc[u] = "idle" <=> held[u] = Nil

\* It holds at the start.
LEMMA TypeInit == SessionsAssumption /\ Init => TypeOK
<1> SUFFICES ASSUME SessionsAssumption, Init PROVE TypeOK
  OBVIOUS
<1>1. <<>> \in Seq(Sessions)
  OBVIOUS
<1>2. head \in [Types -> Seq(Sessions)] /\ rest \in [Users -> Seq(Sessions)]
  BY <1>1 DEF Init
<1>3. me \in 1..MaxPid /\ pid \in 0..MaxPid /\ initPid \in 0..MaxPid
  BY DEF Init, SessionsAssumption
<1>4. lock \in [Types -> Users \cup {Nil}] /\ owner \in [Sessions -> 0..MaxPid] /\ type \in [Users -> Types]
  BY <1>3 DEF Init
<1>5. QED BY <1>2, <1>3, <1>4 DEF Init, TypeOK

\* What the other proofs use of it.
LEMMA Ranges ==
  ASSUME SessionsAssumption, TypeOK
  PROVE  /\ me \in 0..MaxPid /\ 0 \in 0..MaxPid /\ MaxPid \in Nat /\ me \in Nat /\ me >= 1
         /\ Nil \notin Sessions /\ Nil \notin Users /\ Nil \notin Engines
BY DEF TypeOK, SessionsAssumption

\* The steps keep it: initializing the library,
LEMMA LibraryTypes ==
  ASSUME SessionsAssumption, TypeOK, NEW init \in BOOLEAN, NEW locked \in BOOLEAN,
         (LoadFails(init, locked) /\ UNCHANGED lock) \/ LoadWorks(init, locked)
  PROVE  /\ initPid' \in 0..MaxPid /\ initialized' \in BOOLEAN /\ dso' \in BOOLEAN
         /\ locks' \in BOOLEAN /\ cryptoki' \in BOOLEAN
         /\ lock' \in [Types -> Users \cup {Nil}] /\ head' \in [Types -> Seq(Sessions)]
<1>1. CASE LoadFails(init, locked) /\ UNCHANGED lock
  <2>1. initPid' \in 0..MaxPid
    BY <1>1, Ranges DEF LoadFails, TypeOK
  <2>2. initialized' \in BOOLEAN /\ locks' \in BOOLEAN
    BY <1>1 DEF LoadFails
  <2>3. dso' \in BOOLEAN /\ cryptoki' \in BOOLEAN
    BY <1>1 DEF LoadFails, TypeOK
  <2>4. QED BY <1>1, <2>1, <2>2, <2>3 DEF LoadFails, TypeOK
<1>2. CASE LoadWorks(init, locked)
  <2>1. [ty \in Types |-> <<>>] \in [Types -> Seq(Sessions)] /\ [ty \in Types |-> Nil] \in [Types -> Users \cup {Nil}]
    OBVIOUS
  <2>2. initPid' \in 0..MaxPid /\ lock' \in [Types -> Users \cup {Nil}] /\ head' \in [Types -> Seq(Sessions)]
    BY <1>2, <2>1, Ranges DEF LoadWorks, TypeOK
  <2>3. initialized' \in BOOLEAN /\ locks' \in BOOLEAN /\ dso' \in BOOLEAN /\ cryptoki' \in BOOLEAN
    BY <1>2 DEF LoadWorks
  <2>4. QED BY <2>2, <2>3
<1>3. QED BY <1>1, <1>2

\* the calls that do so,
LEMMA BindTypes ==
  ASSUME SessionsAssumption, TypeOK, NEW e \in Engines, Bind(e) \/ LibraryInit(e)
  PROVE  TypeOK'
<1>1. CASE Bind(e)
  <2>1. locks \in BOOLEAN
    BY DEF TypeOK
  <2>2. (LoadFails(FALSE, locks) /\ UNCHANGED lock) \/ LoadWorks(FALSE, locks)
    BY <1>1 DEF Bind
  <2>3. /\ initPid' \in 0..MaxPid /\ initialized' \in BOOLEAN /\ dso' \in BOOLEAN
        /\ locks' \in BOOLEAN /\ cryptoki' \in BOOLEAN
        /\ lock' \in [Types -> Users \cup {Nil}] /\ head' \in [Types -> Seq(Sessions)]
    BY <2>1, <2>2, LibraryTypes
  <2>4. QED BY <1>1, <2>3 DEF Bind, TypeOK, userVars
<1>2. CASE LibraryInit(e)
  <2> DEFINE locked == locks /\ ~initialized
  <2>1. locked \in BOOLEAN /\ initialized \in BOOLEAN
    BY DEF TypeOK
  <2>2. /\ initPid' \in 0..MaxPid /\ initialized' \in BOOLEAN /\ dso' \in BOOLEAN
        /\ locks' \in BOOLEAN /\ cryptoki' \in BOOLEAN
        /\ lock' \in [Types -> Users \cup {Nil}] /\ head' \in [Types -> Seq(Sessions)]
    <3>1. CASE initialized /\ initPid = me
      BY <1>2, <3>1 DEF LibraryInit, TypeOK
    <3>2. CASE ~(initialized /\ initPid = me)
      <4>1. (LoadFails(initialized, locked) /\ UNCHANGED lock) \/ LoadWorks(initialized, locked)
        BY <1>2, <3>2 DEF LibraryInit
      <4>2. QED BY <2>1, <4>1, LibraryTypes
    <3>3. QED BY <3>1, <3>2
  <2>3. functional' \subseteq Engines
    BY <1>2 DEF LibraryInit, TypeOK
  <2>4. QED BY <1>2, <2>2, <2>3 DEF LibraryInit, TypeOK, userVars
<1>3. QED BY <1>1, <1>2

\* pk11_finish,
LEMMA FinishTypes ==
  ASSUME SessionsAssumption, TypeOK, NEW e \in Engines, Finish(e)
  PROVE  TypeOK'
<1>1. /\ functional' \subseteq Engines /\ alive' \subseteq Sessions
      /\ initialized' \in BOOLEAN /\ initPid' \in 0..MaxPid /\ dso' \in BOOLEAN
      /\ engine' \in Engines \cup {Nil} /\ locks' \in BOOLEAN /\ crashed' \in BOOLEAN
  <2>1. functional' \subseteq Engines
    BY DEF Finish, TypeOK
  <2>2. CASE e # engine \/ ~dso
    BY <2>1, <2>2 DEF Finish, TypeOK
  <2>3. CASE ~(e # engine \/ ~dso) /\ locks
    <3>1. FinishCleans
      BY <2>3 DEF Finish
    <3>2. QED BY <2>1, <3>1, Ranges DEF FinishCleans, TypeOK
  <2>4. CASE ~(e # engine \/ ~dso) /\ ~locks
    BY <2>1, <2>4 DEF Finish, TypeOK
  <2>5. QED BY <2>2, <2>3, <2>4
<1>2. QED BY <1>1 DEF Finish, TypeOK, userVars

\* fork,
LEMMA ForkTypes == SessionsAssumption /\ TypeOK /\ Fork => TypeOK'
<1> SUFFICES ASSUME SessionsAssumption, TypeOK, Fork PROVE TypeOK'
  OBVIOUS
<1>1. CASE initialized /\ ~locks
  BY <1>1 DEF Fork, TypeOK, poolVars
<1>2. CASE ~(initialized /\ ~locks)
  <2>1. me' \in 1..MaxPid /\ cryptoki' \in BOOLEAN
    <3>1. me' = me + 1 /\ me < MaxPid /\ cryptoki' = FALSE
      BY <1>2 DEF Fork
    <3>2. me + 1 \in 1..MaxPid
      BY <3>1, Ranges
    <3>3. QED BY <3>1, <3>2
  <2>2. PICK gone \in SUBSET Users :
          /\ pc' = [u \in Users |-> IF u \in gone THEN "idle" ELSE pc[u]]
          /\ held' = [u \in Users |-> IF u \in gone THEN Nil ELSE held[u]]
    BY <1>2 DEF Fork
  <2>3. UserTypes'
    BY <2>2 DEF Fork, TypeOK, UserTypes
  <2>4. LibTypes' /\ ListTypes'
    BY <1>2, <2>1 DEF Fork, TypeOK, LibTypes, ListTypes, poolVars
  <2>5. QED BY <2>3, <2>4 DEF TypeOK, LibTypes, ListTypes, UserTypes
<1>3. QED BY <1>1, <1>2

\* the first part of pk11_get_session,
LEMMA GetLockTypes ==
  ASSUME SessionsAssumption, TypeOK, NEW u \in Users, NEW ty \in Types, GetLock(u, ty)
  PROVE  TypeOK'
<1>1. CASE ~locks
  BY <1>1 DEF GetLock, TypeOK, userVars
<1>2. CASE locks
  <2>1. pid' \in 0..MaxPid
    BY <1>2 DEF GetLock, TypeOK, SessionsAssumption
  <2>2. LibTypes'
    BY <1>2, <2>1 DEF GetLock, TypeOK, LibTypes
  <2>3. /\ alive' \subseteq Sessions /\ owner' \in [Sessions -> 0..MaxPid]
        /\ rest' \in [Users -> Seq(Sessions)]
        /\ \E s \in Sessions : held' = [held EXCEPT ![u] = s]
    <3>1. CASE head[ty] # <<>>
      <4>1. Head(head[ty]) \in Sessions /\ Tail(head[ty]) \in Seq(Sessions)
        BY <3>1, MembersSeq DEF TypeOK
      <4>2. QED BY <1>2, <3>1, <4>1 DEF GetLock, TypeOK
    <3>2. CASE head[ty] = <<>>
      <4>1. <<>> \in Seq(Sessions)
        OBVIOUS
      <4>2. PICK s \in Sessions \ alive :
              /\ alive' = alive \cup {s} /\ owner' = [owner EXCEPT ![s] = 0]
              /\ held' = [held EXCEPT ![u] = s]
        BY <1>2, <3>2 DEF GetLock
      <4>3. rest' = [rest EXCEPT ![u] = <<>>]
        BY <1>2, <3>2 DEF GetLock
      <4>4. QED BY <4>1, <4>2, <4>3, Ranges DEF TypeOK
    <3>3. QED BY <3>1, <3>2
  <2>4. ListTypes'
    <3>1. lock' = [lock EXCEPT ![ty] = u] /\ head' = head
      BY <1>2 DEF GetLock
    <3>2. QED BY <2>3, <3>1 DEF TypeOK, ListTypes
  <2>5. UserTypes'
    <3>1. /\ forked' = [forked EXCEPT ![u] = IsNewProcess(pid')]
          /\ type' = [type EXCEPT ![u] = ty] /\ pc' = [pc EXCEPT ![u] = "get"]
      BY <1>2 DEF GetLock
    <3>2. IsNewProcess(pid') \in BOOLEAN
      BY DEF IsNewProcess
    <3>3. PICK s \in Sessions : held' = [held EXCEPT ![u] = s]
      BY <2>3
    <3>4. forked' \in [Users -> BOOLEAN] /\ type' \in [Users -> Types]
      BY <3>1, <3>2 DEF TypeOK
    <3>5. QED BY <2>3, <3>1, <3>3, <3>4, Ranges DEF TypeOK, UserTypes
  <2>6. QED BY <2>2, <2>4, <2>5 DEF TypeOK, LibTypes, ListTypes, UserTypes
<1>3. QED BY <1>1, <1>2

\* what its ends have in common,
LEMMA ReturnTypes ==
  ASSUME SessionsAssumption, TypeOK, NEW u \in Users, NEW s \in Sessions \cup {Nil}, Return(u, s)
  PROVE  UserTypes' /\ lock' \in [Types -> Users \cup {Nil}]
<1>1. <<>> \in Seq(Sessions)
  OBVIOUS
<1>2. lock' \in [Types -> Users \cup {Nil}]
  BY DEF Return, TypeOK
<1>3. held' \in [Users -> Sessions \cup {Nil}] /\ rest' \in [Users -> Seq(Sessions)]
  BY <1>1 DEF Return, TypeOK
<1>4. QED BY <1>2, <1>3 DEF Return, TypeOK, UserTypes

\* the rest of it,
LEMMA GetTypes ==
  ASSUME SessionsAssumption, TypeOK, NEW u \in Users, Get(u)
  PROVE  TypeOK'
<1>0. /\ pc[u] # "idle" /\ held[u] \in Sessions /\ Nil \notin Sessions
      /\ type[u] \in Types /\ rest[u] \in Seq(Sessions)
  BY DEF Get, GetForked, GetCached, GetNew, GetReinit, TypeOK, SessionsAssumption
<1>1. CASE GetForked(u)
  <2>0. me \in 0..MaxPid /\ <<>> \in Seq(Sessions)
    BY DEF TypeOK, SessionsAssumption
  <2>1. LibTypes'
    BY <1>1, <2>0 DEF GetForked, TypeOK, LibTypes
  <2>2. (\E s \in Sessions \cup {Nil} : Return(u, s)) /\ alive' \subseteq Sessions
    BY <1>0, <1>1 DEF GetForked, TypeOK
  <2>3. owner' \in [Sessions -> 0..MaxPid]
    BY <1>0, <1>1, <2>0 DEF GetForked, TypeOK
  <2>4. head' \in [Types -> Seq(Sessions)]
    <3>1. Truncated(type[u]) \in Seq(Sessions)
      BY <1>0, <2>0, MembersSeq, Pairs DEF Truncated, TypeOK
    <3>2. QED BY <1>0, <1>1, <2>0, <3>1 DEF GetForked, TypeOK
  <2>5. QED BY <2>1, <2>2, <2>3, <2>4, ReturnTypes DEF TypeOK, LibTypes, UserTypes
<1>2. CASE GetCached(u)
  <2>1. UserTypes' /\ lock' \in [Types -> Users \cup {Nil}]
    BY <1>0, <1>2, ReturnTypes DEF GetCached
  <2>2. QED BY <1>0, <1>2, <2>1 DEF GetCached, TypeOK, UserTypes, libVars
<1>3. CASE GetNew(u)
  <2>1. UserTypes' /\ lock' \in [Types -> Users \cup {Nil}]
    BY <1>0, <1>3, ReturnTypes DEF GetNew, SetUpFails
  <2>2. me \in 0..MaxPid
    BY DEF TypeOK, SessionsAssumption
  <2>3. ListTypes'
    <3>1. alive' \subseteq Sessions
      BY <1>3 DEF GetNew, SetUpFails, TypeOK
    <3>2. owner' \in [Sessions -> 0..MaxPid]
      BY <1>0, <1>3, <2>2 DEF GetNew, SetUpFails, TypeOK
    <3>3. head' \in [Types -> Seq(Sessions)]
      BY <1>0, <1>3 DEF GetNew, SetUpFails, TypeOK
    <3>4. QED BY <2>1, <3>1, <3>2, <3>3 DEF ListTypes
  <2>4. QED BY <1>3, <2>1, <2>3 DEF GetNew, TypeOK, UserTypes, ListTypes, libVars
<1>4. CASE GetReinit(u)
  <2>1. locks \in BOOLEAN
    BY DEF TypeOK
  <2>2. CASE LoadWorks(FALSE, locks) /\ pc' = [pc EXCEPT ![u] = "setup"]
             /\ UNCHANGED <<alive, owner, type, forked, held, rest>>
    <3>1. /\ initPid' \in 0..MaxPid /\ initialized' \in BOOLEAN /\ dso' \in BOOLEAN
          /\ locks' \in BOOLEAN /\ cryptoki' \in BOOLEAN
          /\ lock' \in [Types -> Users \cup {Nil}] /\ head' \in [Types -> Seq(Sessions)]
      BY <2>1, <2>2, LibraryTypes
    <3>2. UserTypes'
      BY <1>0, <2>2 DEF TypeOK, UserTypes
    <3>3. QED BY <1>4, <2>2, <3>1, <3>2 DEF GetReinit, TypeOK, UserTypes
  <2>3. CASE LoadFails(FALSE, locks) /\ alive' = alive \ {held[u]} /\ Return(u, Nil) /\ UNCHANGED owner
    <3>1. UserTypes' /\ lock' \in [Types -> Users \cup {Nil}]
      BY <2>3, ReturnTypes
    <3>2. /\ initPid' \in 0..MaxPid /\ initialized' \in BOOLEAN /\ dso' \in BOOLEAN
          /\ locks' \in BOOLEAN /\ cryptoki' \in BOOLEAN /\ head' = head
      <4>1. initPid' \in 0..MaxPid
        BY <2>3, Ranges DEF LoadFails, TypeOK
      <4>2. initialized' \in BOOLEAN /\ locks' \in BOOLEAN
        BY <2>1, <2>3 DEF LoadFails
      <4>3. dso' \in BOOLEAN /\ cryptoki' \in BOOLEAN
        BY <2>3 DEF LoadFails, TypeOK
      <4>4. QED BY <2>3, <4>1, <4>2, <4>3 DEF LoadFails
    <3>3. QED BY <1>4, <2>3, <3>1, <3>2 DEF GetReinit, TypeOK, UserTypes
  <2>4. QED BY <1>4, <2>2, <2>3 DEF GetReinit
<1>5. QED BY <1>1, <1>2, <1>3, <1>4 DEF Get

\* and pk11_return_session.
LEMMA ReturnSessionTypes ==
  ASSUME SessionsAssumption, TypeOK, NEW u \in Users, ReturnSession(u)
  PROVE  TypeOK'
<1>1. held[u] \in Sessions /\ type[u] \in Types
  BY DEF ReturnSession, TypeOK
<1>2. head' \in [Types -> Seq(Sessions)] /\ crashed' \in BOOLEAN
  <2>1. <<held[u]>> \o head[type[u]] \in Seq(Sessions)
    BY <1>1, Prepend DEF TypeOK
  <2>2. QED BY <1>1, <2>1 DEF ReturnSession, TypeOK
<1>3. UserTypes'
  BY DEF ReturnSession, TypeOK, UserTypes
<1>4. QED BY <1>2, <1>3 DEF ReturnSession, TypeOK, UserTypes

\* The type invariant is inductive.
LEMMA TypeInductive == SessionsAssumption /\ TypeOK /\ [Next]_vars => TypeOK'
<1> SUFFICES ASSUME SessionsAssumption, TypeOK, [Next]_vars PROVE TypeOK'
  OBVIOUS
<1>1. ASSUME NEW u \in Users, NEW ty \in Types, GetNoMemory(u, ty) PROVE TypeOK'
  <2>1. pid' \in 0..MaxPid
    BY <1>1 DEF GetNoMemory, TypeOK, SessionsAssumption
  <2>2. QED BY <1>1, <2>1 DEF GetNoMemory, TypeOK, poolVars, userVars
<1>2. CASE UNCHANGED vars
  BY <1>2 DEF vars, libVars, poolVars, userVars, TypeOK
<1>3. QED
  BY <1>1, <1>2, BindTypes, FinishTypes, ForkTypes, GetLockTypes, GetTypes, ReturnSessionTypes DEF Next

-----------------------------------------------------------------------------
(* The first process. *)

\* The first process only becomes another one, and faults are chosen once.
LEMMA ProcessGrows ==
  ASSUME SessionsAssumption, TypeOK, Next
  PROVE  faults' = faults /\ (me' = me \/ (me' = me + 1 /\ me' # 1))
<1>1. faults' = faults
  BY DEF Next, Bind, LibraryInit, Finish, Fork, GetLock, GetNoMemory, Get, GetForked, GetCached,
         GetNew, GetReinit, ReturnSession, libVars
<1>2. me + 1 # 1
  BY Ranges
<1> DEFINE Grows == me' = me \/ me' = me + 1
<1>4. ASSUME NEW u \in Users, Get(u) PROVE Grows
  BY <1>4 DEF Get, GetForked, GetCached, GetNew, GetReinit, libVars
<1>5. ASSUME NEW e \in Engines, Bind(e) \/ LibraryInit(e) \/ Finish(e) PROVE Grows
  BY <1>5 DEF Bind, LibraryInit, Finish
<1>6. ASSUME NEW u \in Users, NEW ty \in Types, GetLock(u, ty) \/ GetNoMemory(u, ty) PROVE Grows
  BY <1>6 DEF GetLock, GetNoMemory
<1>7. ASSUME NEW u \in Users, ReturnSession(u) PROVE Grows
  BY <1>7 DEF ReturnSession
<1>8. ASSUME Fork PROVE Grows
  BY <1>8 DEF Fork
<1> HIDE DEF Grows
<1>9. Grows
  BY <1>4, <1>5, <1>6, <1>7, <1>8 DEF Next
<1>10. QED BY <1>1, <1>2, <1>9 DEF Grows

\* In the first process nobody sees a fork and the library stays initialized.
LEMMA FirstGet ==
  ASSUME SessionsAssumption, TypeOK, Parent, me = 1, NEW u \in Users, Get(u)
  PROVE  /\ GetCached(u) \/ GetNew(u)
         /\ pc[u] = "get" /\ initialized /\ held[u] \in Sessions /\ ~forked[u]
         /\ type[u] \in Types /\ UNCHANGED libVars
<1>1. pc[u] \in {"get", "setup"} /\ held[u] \in Sessions
  BY DEF Get, GetForked, GetCached, GetNew, GetReinit, TypeOK
<1>2. pc[u] = "get" /\ initialized /\ cryptoki /\ ~forked[u]
  BY <1>1 DEF Parent
<1>3. GetCached(u) \/ GetNew(u)
  BY <1>2 DEF Get, GetForked, GetReinit
<1>4. QED BY <1>1, <1>2, <1>3 DEF GetCached, GetNew, TypeOK

\* There the library is initialized when it was not.
LEMMA FirstInit ==
  ASSUME SessionsAssumption, TypeOK, Parent, me = 1, NEW e \in Engines, Bind(e) \/ LibraryInit(e)
  PROVE  \/ UNCHANGED <<initialized, initPid, dso, locks, cryptoki, lock, head>> /\ initialized
         \/ /\ ~initialized
            /\ (LoadFails(FALSE, locks) /\ UNCHANGED lock) \/ LoadWorks(FALSE, locks)
<1>1. CASE Bind(e)
  BY <1>1 DEF Bind
<1>2. CASE LibraryInit(e) /\ initialized
  BY <1>2 DEF LibraryInit, Parent
<1>3. CASE LibraryInit(e) /\ ~initialized
  <2>1. initialized = FALSE /\ (locks /\ ~initialized) = locks
    BY <1>3 DEF TypeOK
  <2>2. QED BY <1>3, <2>1 DEF LibraryInit
<1>4. QED BY <1>1, <1>2, <1>3

\* No step initializes the library behind the back of the process that did.
LEMMA ParentKept ==
  ASSUME SessionsAssumption, TypeOK, Parent, Kept, [Next]_vars
  PROVE  Parent'
<1> SUFFICES ASSUME me' = 1 PROVE Parent'
  BY DEF Parent
<1>1. CASE UNCHANGED vars
  BY <1>1 DEF vars, libVars, poolVars, userVars, Parent
<1> SUFFICES ASSUME Next PROVE Parent'
  BY <1>1
<1>2. me = 1
  BY ProcessGrows
<1>3. ASSUME NEW e \in Engines, Bind(e) \/ LibraryInit(e) PROVE Parent'
  <2>1. UNCHANGED <<me, pid, alive, pc, forked>>
    BY <1>3 DEF Bind, LibraryInit, userVars
  <2>2. CASE UNCHANGED <<initialized, initPid, cryptoki>>
    BY <2>1, <2>2 DEF Parent
  <2>3. CASE ~initialized /\ (LoadFails(FALSE, locks) \/ LoadWorks(FALSE, locks))
    <3>1. initialized' => cryptoki' /\ initPid' = 1
      BY <1>2, <2>3 DEF LoadFails, LoadWorks
    <3>2. QED BY <1>2, <2>1, <2>3, <3>1 DEF Parent
  <2>4. QED BY <1>2, <1>3, <2>2, <2>3, FirstInit
<1>4. ASSUME NEW e \in Engines, Finish(e) PROVE Parent'
  <2>1. UNCHANGED <<me, pid, cryptoki, pc, forked>> /\ \A u \in Users : pc[u] = "idle" /\ held[u] = Nil
    BY <1>4 DEF Finish, userVars, TypeOK
  <2>2. CASE FinishCleans /\ ~initialized'
    <3>1. alive \subseteq Cached
      BY <1>2, <2>1, Ranges DEF Kept, TypeOK
    <3>2. alive' = {}
      BY <2>2, <3>1 DEF FinishCleans
    <3>3. QED BY <1>2, <2>1, <2>2, <3>2 DEF Parent
  <2>3. CASE FinishCleans /\ UNCHANGED <<initialized, initPid>>
    <3>1. alive' \subseteq alive
      BY <2>3 DEF FinishCleans
    <3>2. QED BY <1>2, <2>1, <2>3, <3>1 DEF Parent
  <2>4. CASE UNCHANGED <<alive, initialized, initPid>>
    BY <1>2, <2>1, <2>4 DEF Parent
  <2>5. QED BY <1>4, <2>2, <2>3, <2>4 DEF Finish, FinishCleans
<1>5. CASE Fork
  <2>1. UNCHANGED <<pid, initialized, initPid, cryptoki, pc, alive, forked>>
    BY <1>2, <1>5, Ranges DEF Fork, poolVars
  <2>2. QED BY <1>2, <2>1 DEF Parent
<1>6. ASSUME NEW u \in Users, NEW ty \in Types, GetLock(u, ty) PROVE Parent'
  <2>1. initialized /\ UNCHANGED <<me, initialized, initPid, cryptoki>>
    BY <1>6 DEF GetLock
  <2>2. pid' \in {0, 1} /\ \A v \in Users : ~forked'[v] /\ pc'[v] # "setup"
    BY <1>2, <1>6 DEF GetLock, IsNewProcess, userVars, Parent, TypeOK
  <2>3. QED BY <1>2, <2>1, <2>2 DEF Parent
<1>7. ASSUME NEW u \in Users, NEW ty \in Types, GetNoMemory(u, ty) PROVE Parent'
  BY <1>2, <1>7 DEF GetNoMemory, Parent, poolVars, userVars
<1>8. ASSUME NEW u \in Users, Get(u) PROVE Parent'
  <2>1. /\ GetCached(u) \/ GetNew(u)
        /\ initialized /\ UNCHANGED libVars
    BY <1>2, <1>8, FirstGet
  <2>2. \E s \in Sessions \cup {Nil} : Return(u, s)
    BY <1>2, <1>8, FirstGet DEF GetCached, GetNew, SetUpFails
  <2>3. \A v \in Users : ~forked'[v] /\ pc'[v] # "setup"
    BY <1>2, <2>2 DEF Return, Parent, TypeOK
  <2>4. QED BY <1>2, <2>1, <2>3 DEF Parent, libVars
<1>9. ASSUME NEW u \in Users, ReturnSession(u) PROVE Parent'
  <2>1. UNCHANGED <<me, pid, initialized, initPid, cryptoki, alive, forked>> /\ pc' = [pc EXCEPT ![u] = "idle"]
    BY <1>9 DEF ReturnSession
  <2>2. QED BY <1>2, <2>1 DEF Parent, TypeOK
<1>10. QED BY <1>3, <1>4, <1>5, <1>6, <1>7, <1>8, <1>9 DEF Next

\* A fork that crashes changes nothing else.
LEMMA FirstFork ==
  ASSUME SessionsAssumption, TypeOK, me = 1, me' = 1, Fork
  PROVE  UNCHANGED <<pid, initialized, initPid, locks, pc, type, held, rest, lock, head, alive, owner>>
BY Ranges DEF Fork, poolVars

\* What a user of the first process gets: a structure of its list, or a new one.
LEMMA FirstLock ==
  ASSUME SessionsAssumption, TypeOK, NEW u \in Users, NEW ty \in Types, GetLock(u, ty)
  PROVE  /\ pc[u] = "idle" /\ held[u] = Nil /\ initialized
         /\ UNCHANGED <<locks, head>>
         /\ \/ UNCHANGED <<lock, alive, owner, userVars>>
            \/ /\ locks /\ lock[ty] = Nil /\ lock' = [lock EXCEPT ![ty] = u]
               /\ type' = [type EXCEPT ![u] = ty] /\ pc' = [pc EXCEPT ![u] = "get"]
               /\ \/ /\ head[ty] # <<>> /\ UNCHANGED <<alive, owner>>
                     /\ held' = [held EXCEPT ![u] = Head(head[ty])]
                     /\ rest' = [rest EXCEPT ![u] = Tail(head[ty])]
                  \/ /\ head[ty] = <<>> /\ rest' = [rest EXCEPT ![u] = <<>>]
                     /\ \E s \in Sessions \ alive :
                          /\ alive' = alive \cup {s} /\ owner' = [owner EXCEPT ![s] = 0]
                          /\ held' = [held EXCEPT ![u] = s]
BY DEF GetLock, TypeOK

\* In the first process a user keeps the lock until the list is written back.
LEMMA ReturningKept ==
  ASSUME SessionsAssumption, TypeOK, Parent, Returning, [Next]_vars
  PROVE  Returning'
<1> SUFFICES ASSUME me' = 1 PROVE Returning'
  BY DEF Returning
<1>1. CASE UNCHANGED vars
  BY <1>1 DEF vars, libVars, poolVars, userVars, Returning, Taking
<1> SUFFICES ASSUME Next PROVE Returning'
  BY <1>1
<1>2. me = 1
  BY ProcessGrows
<1>3. ASSUME NEW e \in Engines, Bind(e) \/ LibraryInit(e) PROVE Returning'
  <2>1. UNCHANGED <<me, userVars>>
    BY <1>3 DEF Bind, LibraryInit
  <2>2. CASE UNCHANGED <<locks, lock, head>>
    BY <1>2, <2>1, <2>2 DEF Returning, Taking, userVars
  <2>3. CASE ~initialized
    BY <1>2, <2>1, <2>3 DEF Parent, Returning, userVars
  <2>4. QED BY <1>2, <1>3, <2>2, <2>3, FirstInit
<1>4. ASSUME NEW e \in Engines, Finish(e) PROVE Returning'
  BY <1>4 DEF Finish, userVars, Returning
<1>5. CASE Fork
  BY <1>2, <1>5, FirstFork DEF Returning, Taking
<1>6. ASSUME NEW u \in Users, NEW ty \in Types, GetLock(u, ty) PROVE Returning'
  <2>1. CASE UNCHANGED <<lock, alive, owner, userVars>>
    BY <1>2, <1>6, <2>1, FirstLock DEF Returning, Taking, userVars
  <2>2. CASE ~UNCHANGED <<lock, alive, owner, userVars>>
    <3>1. /\ locks' /\ head' = head /\ lock[ty] = Nil
          /\ lock' = [lock EXCEPT ![ty] = u]
          /\ type' = [type EXCEPT ![u] = ty] /\ pc' = [pc EXCEPT ![u] = "get"]
      BY <1>6, <2>2, FirstLock
    <3>2. head[ty] # <<>> => held'[u] = Head(head[ty]) /\ rest'[u] = Tail(head[ty])
      BY <1>6, <2>2, FirstLock, SMTT(20) DEF TypeOK
    <3>3. \A v \in Users : v # u => held'[v] = held[v] /\ rest'[v] = rest[v]
      BY <1>6, <2>2, FirstLock DEF TypeOK
    <3>4. ASSUME NEW v \in Users, pc'[v] = "get"
          PROVE  lock'[type'[v]] = v /\ (Taking(v, type[v])' \/ head'[type'[v]] = <<>>)
      <4>1. CASE v = u
        BY <3>1, <3>2, <4>1 DEF Taking, TypeOK
      <4>2. CASE v # u
        <5>1. pc[v] = "get" /\ type'[v] = type[v] /\ lock[type[v]] = v
          BY <1>2, <3>1, <3>4, <4>2 DEF Returning, TypeOK
        <5>2. type[v] # ty /\ lock'[type[v]] = v
          BY <3>1, <5>1, Ranges DEF TypeOK
        <5>3. QED BY <1>2, <3>1, <3>3, <4>2, <5>1, <5>2 DEF Returning, Taking, TypeOK
      <4>3. QED BY <4>1, <4>2
    <3>5. QED BY <3>1, <3>4 DEF Returning, Taking
  <2>3. QED BY <2>1, <2>2
<1>7. ASSUME NEW u \in Users, NEW ty \in Types, GetNoMemory(u, ty) PROVE Returning'
  BY <1>2, <1>7 DEF GetNoMemory, Returning, Taking, poolVars, userVars
<1>8. ASSUME NEW u \in Users, Get(u) PROVE Returning'
  <2>1. /\ type[u] \in Types /\ held[u] \in Sessions /\ pc[u] = "get" /\ UNCHANGED libVars
        /\ GetCached(u) \/ GetNew(u)
    BY <1>2, <1>8, FirstGet
  <2>2. lock[type[u]] = u
    BY <1>2, <2>1 DEF Returning
  <2>3. PICK s \in Sessions \cup {Nil} : Return(u, s)
    BY <2>1 DEF GetCached, GetNew, SetUpFails
  <2>4. head' = [head EXCEPT ![type[u]] = rest[u]]
    BY <2>1 DEF GetCached, GetNew, SetUpFails
  <2>5. ASSUME NEW v \in Users, pc'[v] = "get"
        PROVE  lock'[type'[v]] = v /\ (Taking(v, type[v])' \/ head'[type'[v]] = <<>>)
    <3>1. v # u /\ pc[v] = "get" /\ type' = type /\ held'[v] = held[v] /\ rest'[v] = rest[v]
      BY <2>3, <2>5 DEF Return, TypeOK
    <3>2. lock[type[v]] = v /\ type[v] # type[u]
      BY <1>2, <2>2, <3>1 DEF Returning
    <3>3. lock'[type[v]] = v /\ head'[type[v]] = head[type[v]]
      BY <2>1, <2>3, <2>4, <3>2 DEF Return, TypeOK
    <3>4. QED BY <1>2, <2>5, <3>1, <3>2, <3>3 DEF Returning, Taking
  <2>6. \A v \in Users : pc'[v] # "idle" => locks'
    BY <1>2, <2>1, <2>3 DEF Returning, Return, TypeOK, libVars
  <2>7. QED BY <2>5, <2>6 DEF Returning, Taking
<1>9. ASSUME NEW u \in Users, ReturnSession(u) PROVE Returning'
  <2>1. /\ UNCHANGED <<locks, lock, type, rest>> /\ pc' = [pc EXCEPT ![u] = "idle"]
        /\ held' = [held EXCEPT ![u] = Nil]
    BY <1>9 DEF ReturnSession
  <2>2. ASSUME NEW v \in Users, pc'[v] = "get"
        PROVE  lock'[type'[v]] = v /\ (Taking(v, type[v])' \/ head'[type'[v]] = <<>>)
    <3>1. v # u /\ pc[v] = "get" /\ type' = type /\ held'[v] = held[v] /\ rest'[v] = rest[v]
      BY <2>1, <2>2 DEF TypeOK
    <3>2. lock[type[v]] = v /\ lock'[type[v]] = v
      BY <1>2, <2>1, <3>1 DEF Returning
    <3>3. head'[type[v]] = head[type[v]]
      <4>1. CASE head' = head
        BY <4>1
      <4>2. CASE head' # head
        <5>1. lock[type[u]] = Nil /\ head' = [head EXCEPT ![type[u]] = <<held[u]>> \o @]
          BY <1>9, <4>2 DEF ReturnSession
        <5>2. type[v] # type[u]
          BY <3>2, <5>1, Ranges
        <5>3. QED BY <5>1, <5>2 DEF TypeOK
      <4>3. QED BY <4>1, <4>2
    <3>4. QED BY <1>2, <2>2, <3>1, <3>2, <3>3 DEF Returning, Taking
  <2>3. \A v \in Users : pc'[v] # "idle" => locks'
    BY <1>2, <2>1 DEF Returning, TypeOK
  <2>4. QED BY <2>2, <2>3 DEF Returning, Taking
<1>10. QED BY <1>3, <1>4, <1>5, <1>6, <1>7, <1>8, <1>9 DEF Next

\* In the first process no structure is lost, whatever fails.
LEMMA KeptKept ==
  ASSUME SessionsAssumption, TypeOK, Parent, Returning, Kept, [Next]_vars
  PROVE  Kept'
<1> SUFFICES ASSUME me' = 1 PROVE Kept'
  BY DEF Kept
<1>1. CASE UNCHANGED vars
  BY <1>1 DEF vars, libVars, poolVars, userVars, Kept, Cached
<1> SUFFICES ASSUME Next PROVE Kept'
  BY <1>1
<1>2. me = 1
  BY ProcessGrows
<1>3. ASSUME NEW e \in Engines, Bind(e) \/ LibraryInit(e) PROVE Kept'
  <2>1. UNCHANGED <<me, userVars, alive, owner>>
    BY <1>3 DEF Bind, LibraryInit
  <2>2. CASE head' = head
    BY <1>2, <2>1, <2>2 DEF Kept, Cached, userVars
  <2>3. CASE ~initialized
    BY <1>2, <2>1, <2>3 DEF Parent, Kept
  <2>4. QED BY <1>2, <1>3, <2>2, <2>3, FirstInit
<1>4. ASSUME NEW e \in Engines, Finish(e) PROVE Kept'
  <2>1. UNCHANGED <<me, head, owner, userVars>> /\ \A u \in Users : held[u] = Nil
    BY <1>4 DEF Finish, TypeOK
  <2>2. CASE FinishCleans
    <3>1. alive \subseteq Cached
      BY <1>2, <2>1, Ranges DEF Kept, TypeOK
    <3>2. QED BY <1>2, <2>1, <2>2, <3>1 DEF FinishCleans, Kept
  <2>3. CASE alive' = alive
    BY <1>2, <2>1, <2>3 DEF Kept, Cached, userVars
  <2>4. QED BY <1>4, <2>2, <2>3 DEF Finish
<1>5. CASE Fork
  BY <1>2, <1>5, FirstFork DEF Kept, Cached
<1>6. ASSUME NEW u \in Users, NEW ty \in Types, GetLock(u, ty) PROVE Kept'
  <2>1. CASE UNCHANGED <<lock, alive, owner, userVars>>
    BY <1>2, <1>6, <2>1, FirstLock DEF Kept, Cached, userVars
  <2>2. CASE ~UNCHANGED <<lock, alive, owner, userVars>>
    <3>1. held[u] = Nil /\ pc[u] = "idle" /\ Cached' = Cached /\ pc' = [pc EXCEPT ![u] = "get"]
      BY <1>6, <2>2, FirstLock DEF Cached
    <3>2. PICK s \in Sessions : /\ held' = [held EXCEPT ![u] = s] /\ alive' \subseteq alive \cup {s}
                                /\ \A t \in Sessions \ {s} : owner'[t] = owner[t]
                                /\ owner'[s] \in {owner[s], 0}
      <4>1. CASE head[ty] # <<>>
        <5>1. Head(head[ty]) \in Sessions
          BY <4>1, MembersSeq DEF TypeOK
        <5>2. QED BY <1>6, <2>2, <4>1, <5>1, FirstLock
      <4>2. CASE head[ty] = <<>>
        <5>1. PICK s \in Sessions \ alive :
                /\ alive' = alive \cup {s} /\ owner' = [owner EXCEPT ![s] = 0]
                /\ held' = [held EXCEPT ![u] = s]
          BY <1>6, <2>2, <4>2, FirstLock
        <5>2. QED BY <5>1 DEF TypeOK
      <4>3. QED BY <4>1, <4>2
    <3>3. ASSUME NEW v \in Users, held[v] # Nil PROVE v # u /\ held'[v] = held[v] /\ pc'[v] = pc[v]
      BY <3>1, <3>2, <3>3 DEF TypeOK
    <3>4. held'[u] = s /\ pc'[u] = "get"
      BY <3>1, <3>2 DEF TypeOK
    <3>5. ASSUME NEW t \in alive' PROVE t \in Cached \cup {held'[v] : v \in Users}
      <4>1. CASE t = s
        BY <3>4, <4>1
      <4>2. CASE t # s
        BY <1>2, <3>2, <3>3, <3>5, <4>2, Ranges DEF Kept, TypeOK
      <4>3. QED BY <4>1, <4>2
    <3>6. ASSUME NEW t \in alive', owner'[t] # 1 PROVE \E v \in Users : held'[v] = t /\ pc'[v] = "get"
      <4>1. CASE t = s
        BY <3>4, <4>1
      <4>2. CASE t # s
        <5>1. t \in alive /\ owner[t] # 1 /\ t \in Sessions
          BY <3>2, <3>6, <4>2 DEF TypeOK
        <5>2. PICK v \in Users : held[v] = t /\ pc[v] = "get"
          BY <1>2, <5>1 DEF Kept
        <5>3. QED BY <3>3, <5>1, <5>2, Ranges
      <4>3. QED BY <4>1, <4>2
    <3>7. \A t \in Sessions : owner'[t] \in {0, 1}
      BY <1>2, <3>2 DEF Kept
    <3>8. QED BY <3>1, <3>5, <3>6, <3>7 DEF Kept
  <2>3. QED BY <2>1, <2>2
<1>7. ASSUME NEW u \in Users, NEW ty \in Types, GetNoMemory(u, ty) PROVE Kept'
  BY <1>2, <1>7 DEF GetNoMemory, Kept, Cached, poolVars, userVars
<1>8. ASSUME NEW u \in Users, Get(u) PROVE Kept'
  <2>1. /\ type[u] \in Types /\ held[u] \in Sessions /\ pc[u] = "get" /\ UNCHANGED libVars
        /\ GetCached(u) \/ GetNew(u)
    BY <1>2, <1>8, FirstGet
  <2>2. head' = [head EXCEPT ![type[u]] = rest[u]]
    BY <2>1 DEF GetCached, GetNew, SetUpFails
  <2>3. PICK s \in {held[u], Nil} :
          /\ Return(u, s)
          /\ s = Nil => alive' = alive \ {held[u]} /\ owner' = owner
          /\ s # Nil => alive' = alive
          /\ s # Nil => (owner' = owner /\ owner[held[u]] # 0) \/ owner' = [owner EXCEPT ![held[u]] = 1]
    BY <1>2, <2>1, Ranges DEF GetCached, GetNew, SetUpFails
  <2>4. \A v \in Users : v # u => held'[v] = held[v] /\ pc'[v] = pc[v]
    BY <2>3 DEF Return, TypeOK
  <2>5. held'[u] = s
    BY <2>3 DEF Return, TypeOK
  <2>6. Cached \subseteq Cached' \cup {held[u]}
    <3>1. Members(head[type[u]]) \subseteq {held[u]} \cup Members(rest[u])
      <4>1. CASE Taking(u, type[u])
        <5>1. Members(head[type[u]]) = {Head(head[type[u]])} \cup Members(Tail(head[type[u]]))
          BY <2>1, <4>1, MembersSeq DEF Taking, TypeOK
        <5>2. QED BY <4>1, <5>1 DEF Taking
      <4>2. CASE head[type[u]] = <<>>
        BY <4>2, MembersEmpty
      <4>3. QED BY <1>2, <2>1, <4>1, <4>2 DEF Returning
    <3>2. ASSUME NEW ty \in Types PROVE Members(head[ty]) \subseteq Members(head'[ty]) \cup {held[u]}
      BY <2>1, <2>2, <3>1 DEF TypeOK
    <3>3. QED BY <3>2 DEF Cached
  <2>7. alive' \subseteq Cached' \cup {held'[v] : v \in Users}
    <3>1. ASSUME NEW t \in alive' PROVE t \in Cached' \cup {held'[v] : v \in Users}
      <4>1. CASE t = held[u]
        BY <2>3, <2>5, <3>1, <4>1
      <4>2. CASE t # held[u]
        BY <1>2, <2>3, <2>4, <2>6, <3>1, <4>2 DEF Kept
      <4>3. QED BY <4>1, <4>2
    <3>2. QED BY <3>1
  <2>8. ASSUME NEW t \in alive', owner'[t] # 1 PROVE \E v \in Users : held'[v] = t /\ pc'[v] = "get"
    <3>1. t \in alive /\ t \in Sessions
      BY <2>3, <2>8 DEF TypeOK
    <3>2. t # held[u]
      <4>1. owner[held[u]] \in {0, 1}
        BY <1>2, <2>1 DEF Kept
      <4>2. QED BY <2>1, <2>3, <2>8, <4>1 DEF TypeOK
    <3>3. owner[t] # 1
      BY <2>3, <2>8, <3>1, <3>2 DEF TypeOK
    <3>4. PICK v \in Users : held[v] = t /\ pc[v] = "get"
      BY <1>2, <3>1, <3>3 DEF Kept
    <3>5. QED BY <2>4, <3>2, <3>4
  <2>9. \A t \in Sessions : owner'[t] \in {0, 1}
    BY <1>2, <2>1, <2>3 DEF Kept, TypeOK
  <2>10. QED BY <2>7, <2>8, <2>9 DEF Kept
<1>9. ASSUME NEW u \in Users, ReturnSession(u) PROVE Kept'
  <2>1. /\ UNCHANGED <<me, alive, owner>> /\ pc' = [pc EXCEPT ![u] = "idle"]
        /\ held' = [held EXCEPT ![u] = Nil] /\ pc[u] = "use"
        /\ held[u] \in Sessions /\ type[u] \in Types
    BY <1>9 DEF ReturnSession, TypeOK
  <2>2. \A v \in Users : v # u => held'[v] = held[v] /\ pc'[v] = pc[v]
    BY <2>1 DEF TypeOK
  <2>3. Cached \subseteq Cached' /\ (owner[held[u]] = 1 => held[u] \in Cached')
    <3>1. CASE owner[held[u]] # 1
      BY <1>2, <1>9, <3>1 DEF ReturnSession, Cached
    <3>2. CASE owner[held[u]] = 1
      <4>1. head' = [head EXCEPT ![type[u]] = <<held[u]>> \o @]
        BY <1>2, <1>9, <2>1, <3>2 DEF ReturnSession, Returning
      <4>2. Members(<<held[u]>> \o head[type[u]]) = {held[u]} \cup Members(head[type[u]])
        BY <2>1, Prepend DEF TypeOK
      <4>3. \A ty \in Types : Members(head[ty]) \subseteq Members(head'[ty])
        BY <2>1, <4>1, <4>2 DEF TypeOK
      <4>4. held[u] \in Members(head'[type[u]])
        BY <2>1, <4>1, <4>2 DEF TypeOK
      <4>5. QED BY <2>1, <4>3, <4>4 DEF Cached
    <3>3. QED BY <3>1, <3>2
  <2>4. ASSUME NEW t \in alive PROVE t \in Cached' \cup {held'[v] : v \in Users}
    <3>1. CASE t = held[u] /\ owner[t] # 1
      <4>1. PICK v \in Users : held[v] = t /\ pc[v] = "get"
        BY <1>2, <3>1 DEF Kept
      <4>2. QED BY <2>1, <2>2, <4>1
    <3>2. CASE t = held[u] /\ owner[t] = 1
      BY <2>3, <3>2
    <3>3. CASE t # held[u]
      BY <1>2, <2>2, <2>3, <3>3 DEF Kept
    <3>4. QED BY <3>1, <3>2, <3>3
  <2>5. ASSUME NEW t \in alive, owner[t] # 1 PROVE \E v \in Users : held'[v] = t /\ pc'[v] = "get"
    <3>1. PICK v \in Users : held[v] = t /\ pc[v] = "get"
      BY <1>2, <2>5 DEF Kept
    <3>2. QED BY <2>1, <2>2, <3>1
  <2>6. QED BY <1>2, <2>1, <2>4, <2>5 DEF Kept
<1>10. QED BY <1>3, <1>4, <1>5, <1>6, <1>7, <1>8, <1>9 DEF Next

-----------------------------------------------------------------------------
(* The mutexes. *)

\* Initializing the library leaves it with mutexes, unless it could not be loaded.
LEMMA LoadLocks ==
  ASSUME Lockable, NEW init, NEW locked,
         LoadFails(init, locked) \/ LoadWorks(init, locked)
  PROVE  \/ locks' = TRUE
         \/ "load" \in faults /\ initialized' = init /\ locks' = locked
BY DEF Lockable, LoadFails, LoadWorks, May

\* The mutexes are there while somebody may lock one.
LEMMA LockedKept ==
  ASSUME SessionsAssumption, TypeOK, Parent, Locked, [Next]_vars
  PROVE  Locked'
<1>1. CASE UNCHANGED vars
  BY <1>1 DEF vars, libVars, poolVars, userVars, Locked, Lockable
<1> SUFFICES ASSUME Next, Lockable' PROVE Locked'
  BY <1>1 DEF Locked
<1>2. Lockable
  BY ProcessGrows, Ranges DEF Lockable
<1>3. /\ ~crashed /\ (initialized => locks) /\ (engine \in functional => locks)
      /\ \A u \in Users : pc[u] # "idle" => locks
  BY <1>2 DEF Locked
<1>4. me = 1 \/ "load" \notin faults
  BY <1>2 DEF Lockable
<1>5. ASSUME NEW e \in Engines, Bind(e) PROVE Locked'
  <2>1. /\ UNCHANGED <<crashed, functional, pc>> /\ engine' = e /\ e \notin functional
        /\ LoadFails(FALSE, locks) \/ LoadWorks(FALSE, locks)
    BY <1>5 DEF Bind, userVars
  <2>2. locks' = TRUE \/ (initialized' = FALSE /\ locks' = locks)
    BY <1>2, <2>1, LoadLocks
  <2>3. QED BY <1>3, <2>1, <2>2 DEF Locked
<1>6. ASSUME NEW e \in Engines, LibraryInit(e) PROVE Locked'
  <2>1. UNCHANGED <<crashed, pc>> /\ engine' = e /\ e \notin functional
    BY <1>6 DEF LibraryInit, userVars
  <2>2. CASE initialized /\ initPid = me
    BY <1>3, <1>6, <2>1, <2>2 DEF LibraryInit, Locked
  <2>3. CASE ~(initialized /\ initPid = me)
    <3>1. \/ LoadFails(initialized, locks /\ ~initialized) /\ functional' = functional
          \/ LoadWorks(initialized, locks /\ ~initialized)
      BY <1>6, <2>3 DEF LibraryInit
    <3>2. \/ locks' = TRUE
          \/ "load" \in faults /\ initialized' = initialized /\ locks' = (locks /\ ~initialized)
      BY <1>2, <3>1, LoadLocks
    <3>3. "load" \in faults => ~initialized
      BY <1>4, <2>3 DEF Parent
    <3>4. CASE locks' = TRUE
      BY <1>3, <2>1, <3>4 DEF Locked
    <3>5. CASE locks' # TRUE
      <4>1. /\ ~initialized /\ initialized' = initialized /\ locks' = (locks /\ ~initialized)
        BY <3>2, <3>3, <3>5
      <4>2. functional' = functional
        BY <1>2, <3>1, <3>5 DEF LoadWorks, Lockable, May
      <4>3. QED BY <1>3, <2>1, <4>1, <4>2 DEF Locked
    <3>6. QED BY <3>4, <3>5
  <2>4. QED BY <2>2, <2>3
<1>7. ASSUME NEW e \in Engines, Finish(e) PROVE Locked'
  <2>1. e \in functional /\ functional' = functional \ {e} /\ pc' = pc /\ \A u \in Users : pc[u] = "idle"
    BY <1>7 DEF Finish, userVars
  <2>2. CASE e # engine \/ ~dso
    <3>1. UNCHANGED <<initialized, engine, locks, crashed>>
      BY <1>7, <2>2 DEF Finish
    <3>2. QED BY <1>3, <2>1, <3>1 DEF Locked
  <2>3. CASE ~(e # engine \/ ~dso)
    <3>1. FinishCleans
      BY <1>3, <1>7, <2>1, <2>3 DEF Finish
    <3>2. Nil \notin functional
      BY Ranges DEF TypeOK
    <3>3. crashed' = crashed /\ ((initialized' = FALSE /\ engine' = Nil) \/ UNCHANGED <<initialized, engine, locks>>)
      BY <3>1 DEF FinishCleans
    <3>4. QED BY <1>3, <2>1, <3>2, <3>3 DEF Locked
  <2>4. QED BY <2>2, <2>3
<1>8. CASE Fork
  <2>1. UNCHANGED <<initialized, engine, locks, crashed, functional>>
    BY <1>3, <1>8 DEF Fork
  <2>2. \A u \in Users : pc'[u] # "idle" => pc[u] # "idle"
    BY <1>3, <1>8 DEF Fork
  <2>3. QED BY <1>3, <2>1, <2>2 DEF Locked
<1>9. ASSUME NEW u \in Users, NEW ty \in Types, GetLock(u, ty) PROVE Locked'
  <2>1. locks /\ UNCHANGED <<initialized, engine, locks, crashed, functional>>
    BY <1>3, <1>9 DEF GetLock
  <2>2. QED BY <1>3, <2>1 DEF Locked
<1>10. ASSUME NEW u \in Users, NEW ty \in Types, GetNoMemory(u, ty) PROVE Locked'
  BY <1>3, <1>10 DEF GetNoMemory, Locked, userVars
<1>11. ASSUME NEW u \in Users, Get(u) PROVE Locked'
  <2>1. pc[u] # "idle" /\ locks
    BY <1>3, <1>11 DEF Get, GetForked, GetCached, GetNew, GetReinit
  <2>2. CASE GetReinit(u)
    <3>1. me # 1
      BY <1>11, <2>2, FirstGet DEF GetReinit, GetCached, GetNew
    <3>2. /\ UNCHANGED <<crashed, functional>>
          /\ LoadFails(FALSE, locks) \/ LoadWorks(FALSE, locks)
      BY <2>2 DEF GetReinit
    <3>3. locks' = TRUE
      BY <1>2, <1>4, <3>1, <3>2, LoadLocks
    <3>4. QED BY <1>3, <3>2, <3>3 DEF Locked
  <2>3. CASE ~GetReinit(u)
    <3>1. UNCHANGED <<initialized, engine, locks, crashed, functional>>
      BY <1>11, <2>3 DEF Get, GetForked, GetCached, GetNew, libVars
    <3>2. QED BY <1>3, <2>1, <3>1 DEF Locked
  <2>4. QED BY <2>2, <2>3
<1>12. ASSUME NEW u \in Users, ReturnSession(u) PROVE Locked'
  <2>1. pc[u] # "idle" /\ UNCHANGED <<initialized, engine, locks, functional>>
    BY <1>12 DEF ReturnSession
  <2>2. crashed' = crashed
    BY <1>3, <1>12, <2>1 DEF ReturnSession
  <2>3. QED BY <1>3, <2>1, <2>2 DEF Locked
<1>13. QED BY <1>5, <1>6, <1>7, <1>8, <1>9, <1>10, <1>11, <1>12 DEF Next

-----------------------------------------------------------------------------
(* The places of the structures. *)

\* pk11_library_init: the lists are empty,
LEMMA Emptied ==
  ASSUME InPlace, head' = [ty \in Types |-> <<>>], UNCHANGED <<alive, held, rest>>
  PROVE  InPlace'
<1>1. \A ty \in Types : Members(head'[ty]) = {} /\ Once(head'[ty])
  BY MembersEmpty
<1>2. Apart' /\ Chained'
  BY DEF InPlace, Apart, Chained, Chain
<1>3. Listed'
  BY <1>1 DEF Listed
<1>4. Unlisted'
  BY <1>1 DEF Unlisted
<1>5. QED BY <1>2, <1>3, <1>4 DEF InPlace

\* or nobody will look at them before they are,
LEMMA NotInitialized ==
  ASSUME InPlace, ~initialized', UNCHANGED <<alive, held, rest>>
  PROVE  InPlace'
BY DEF InPlace, Apart, Chained, Chain, Listed, Unlisted

\* or they are as before.
LEMMA Untouched ==
  ASSUME InPlace, initialized' => initialized, UNCHANGED <<alive, lock, head, userVars>>
  PROVE  InPlace'
<1>1. Apart' /\ Chained'
  BY DEF InPlace, Apart, Chained, Chain, userVars
<1>2. Listed'
  BY DEF InPlace, Listed
<1>3. Unlisted'
  BY DEF InPlace, Unlisted, Taking, Chain, userVars
<1>4. QED BY <1>1, <1>2, <1>3 DEF InPlace

\* pk11_finish frees what is in the lists.
LEMMA Finished ==
  ASSUME InPlace, ~initialized', \A u \in Users : held[u] = Nil, UNCHANGED <<held, rest>>
  PROVE  InPlace'
BY DEF InPlace, Apart, Chained, Chain, Listed, Unlisted

\* fork: some users are no longer there.
LEMMA Forked ==
  ASSUME TypeOK, InPlace,
         \A u \in Users : pc[u] # "get" /\ held'[u] \in {held[u], Nil},
         UNCHANGED <<initialized, lock, head, alive, type, rest>>
  PROVE  InPlace'
<1>1. \A u \in Users : Chain(u)' \subseteq Chain(u)
  BY DEF Chain
<1>2. Apart' /\ Listed'
  BY <1>1 DEF InPlace, Apart, Listed
<1>3. Chained'
  <2>1. ASSUME NEW u \in Users, held'[u] # Nil
        PROVE  Once(rest'[u]) /\ held'[u] \notin Members(rest'[u]) /\ Chain(u)' \subseteq alive'
    BY <1>1, <2>1 DEF InPlace, Chained
  <2>2. QED BY <2>1 DEF Chained
<1>4. Unlisted'
  BY <1>1 DEF InPlace, Unlisted, Taking
<1>5. QED BY <1>2, <1>3, <1>4 DEF InPlace

\* pk11_get_session takes the first structure of a list,
LEMMA Taken ==
  ASSUME SessionsAssumption, TypeOK, InPlace, NEW u \in Users, NEW ty \in Types,
         initialized, held[u] = Nil, lock[ty] = Nil, head[ty] # <<>>,
         lock' = [lock EXCEPT ![ty] = u],
         type' = [type EXCEPT ![u] = ty], pc' = [pc EXCEPT ![u] = "get"],
         held' = [held EXCEPT ![u] = Head(head[ty])],
         rest' = [rest EXCEPT ![u] = Tail(head[ty])],
         UNCHANGED <<initialized, head, alive>>
  PROVE  InPlace'
<1>1. /\ held'[u] = Head(head[ty]) /\ rest'[u] = Tail(head[ty]) /\ held'[u] # Nil
      /\ Members(head[ty]) = {held'[u]} \cup Members(rest'[u])
  <2>1. held'[u] = Head(head[ty]) /\ rest'[u] = Tail(head[ty])
    BY DEF TypeOK
  <2>2. head[ty] \in Seq(Sessions)
    BY DEF TypeOK
  <2>3. Head(head[ty]) \in Sessions /\ Members(head[ty]) = {Head(head[ty])} \cup Members(Tail(head[ty]))
    BY <2>2, MembersSeq
  <2>4. QED BY <2>1, <2>3, Ranges
<1>2. Chain(u)' = Members(head[ty])
  BY <1>1 DEF Chain
<1>3. \A v \in Users \ {u} : /\ held'[v] = held[v] /\ rest'[v] = rest[v] /\ type'[v] = type[v]
                             /\ pc'[v] = pc[v] /\ Chain(v)' = Chain(v)
  BY DEF TypeOK, Chain
<1>4. \A v \in Users : ~Taking(v, ty)
  BY Ranges DEF Taking
<1>5. \A v \in Users : Members(head[ty]) \cap Chain(v) = {}
  BY <1>4 DEF InPlace, Unlisted
<1>6. Apart'
  BY <1>2, <1>3, <1>5 DEF InPlace, Apart
<1>7. Chained'
  <2>1. Once(rest'[u]) /\ held'[u] \notin Members(rest'[u]) /\ Chain(u)' \subseteq alive'
    BY <1>1, <1>2, OnceTail DEF InPlace, Listed, TypeOK
  <2>2. QED BY <1>3, <2>1 DEF InPlace, Chained
<1>8. Listed'
  BY DEF InPlace, Listed
<1>9. Unlisted'
  <2>1. Taking(u, ty)'
    BY <1>1 DEF Taking, TypeOK
  <2>2. \A other \in Types \ {ty} : Members(head'[other]) \cap Chain(u)' = {}
    BY <1>2 DEF InPlace, Listed
  <2>3. ASSUME NEW v \in Users \ {u}, NEW other \in Types
        PROVE  Taking(v, other)' \/ Members(head'[other]) \cap Chain(v)' = {}
    <3>1. CASE other = ty
      BY <1>3, <1>5, <3>1
    <3>2. CASE other # ty
      <4>1. lock'[other] = lock[other]
        BY <3>2 DEF TypeOK
      <4>2. QED BY <1>3, <4>1 DEF InPlace, Unlisted, Taking
    <3>3. QED BY <3>1, <3>2
  <2>4. QED BY <2>1, <2>2, <2>3 DEF Unlisted
<1>10. QED BY <1>6, <1>7, <1>8, <1>9 DEF InPlace

\* or allocates one.
LEMMA Allocated ==
  ASSUME SessionsAssumption, TypeOK, InPlace, NEW u \in Users, NEW ty \in Types,
         initialized, held[u] = Nil, lock[ty] = Nil, head[ty] = <<>>,
         lock' = [lock EXCEPT ![ty] = u],
         type' = [type EXCEPT ![u] = ty], pc' = [pc EXCEPT ![u] = "get"],
         NEW s \in Sessions \ alive, alive' = alive \cup {s},
         held' = [held EXCEPT ![u] = s],
         rest' = [rest EXCEPT ![u] = <<>>],
         UNCHANGED <<initialized, head>>
  PROVE  InPlace'
<1>1. held'[u] = s /\ rest'[u] = <<>> /\ s # Nil
  BY Ranges DEF TypeOK
<1>2. Chain(u)' = {s}
  BY <1>1, MembersEmpty DEF Chain
<1>3. \A v \in Users \ {u} : /\ held'[v] = held[v] /\ rest'[v] = rest[v] /\ type'[v] = type[v]
                             /\ pc'[v] = pc[v] /\ Chain(v)' = Chain(v)
  BY DEF TypeOK, Chain
<1>4. \A v \in Users : s \notin Chain(v)
  BY DEF InPlace, Chained, Chain
<1>5. \A other \in Types : s \notin Members(head[other])
  BY DEF InPlace, Listed
<1>6. Apart'
  BY <1>2, <1>3, <1>4 DEF InPlace, Apart
<1>7. Chained'
  <2>1. Once(rest'[u]) /\ held'[u] \notin Members(rest'[u]) /\ Chain(u)' \subseteq alive'
    BY <1>1, <1>2, MembersEmpty
  <2>2. QED BY <1>3, <2>1 DEF InPlace, Chained
<1>8. Listed'
  BY DEF InPlace, Listed
<1>9. Unlisted'
  <2>1. \A other \in Types : Members(head'[other]) \cap Chain(u)' = {}
    BY <1>2, <1>5
  <2>2. ASSUME NEW v \in Users \ {u}, NEW other \in Types
        PROVE  Taking(v, other)' \/ Members(head'[other]) \cap Chain(v)' = {}
    <3>1. CASE other = ty
      BY <3>1, MembersEmpty
    <3>2. CASE other # ty
      <4>1. lock'[other] = lock[other]
        BY <3>2 DEF TypeOK
      <4>2. QED BY <1>3, <4>1 DEF InPlace, Unlisted, Taking
    <3>3. QED BY <3>1, <3>2
  <2>3. QED BY <2>1, <2>2 DEF Unlisted
<1>10. QED BY <1>6, <1>7, <1>8, <1>9 DEF InPlace

\* It writes back what is left of the list and returns the structure, or frees
\* it, or has freed the rest.
LEMMA WrittenBack ==
  ASSUME SessionsAssumption, TypeOK, InPlace, NEW u \in Users, held[u] # Nil,
         NEW q \in {rest[u], <<>>}, NEW s \in {held[u], Nil}, NEW gone \in SUBSET Chain(u),
         gone \cap Members(q) = {}, s \notin gone,
         Return(u, s), head' = [head EXCEPT ![type[u]] = q], alive' = alive \ gone,
         initialized' = initialized
  PROVE  InPlace'
<1>1. held'[u] = s /\ rest'[u] = <<>> /\ type' = type /\ type[u] \in Types
  BY DEF Return, TypeOK
<1>2. Chain(u)' \subseteq {s} /\ (s # Nil => Chain(u)' = {s}) /\ (s = Nil => Chain(u)' = {})
  BY <1>1, MembersEmpty DEF Chain
<1>3. \A v \in Users \ {u} : /\ held'[v] = held[v] /\ rest'[v] = rest[v]
                             /\ pc'[v] = pc[v] /\ Chain(v)' = Chain(v)
  BY DEF Return, TypeOK, Chain
<1>4. /\ Members(q) \subseteq Members(rest[u]) /\ Members(rest[u]) \subseteq Chain(u)
      /\ Once(q) /\ held[u] \notin Members(q) /\ held[u] \in Chain(u) /\ Chain(u) \subseteq alive
  BY MembersEmpty DEF InPlace, Chained, Chain
<1>5. \A other \in Types \ {type[u]} : initialized => Members(head[other]) \cap Chain(u) = {}
  BY DEF InPlace, Unlisted, Taking
<1>6. \A other \in Types \ {type[u]} : head'[other] = head[other]
  BY DEF TypeOK
<1>7. head'[type[u]] = q
  BY <1>1 DEF TypeOK
<1>8. \A v \in Users \ {u} : Chain(v) \cap Chain(u) = {}
  BY DEF InPlace, Apart
<1>9. Apart'
  <2>1. ASSUME NEW v \in Users \ {u} PROVE Chain(v)' \cap Chain(u)' = {}
    BY <1>2, <1>3, <1>4, <1>8
  <2>2. QED BY <1>3, <2>1 DEF InPlace, Apart
<1>10. Chained'
  <2>1. ASSUME NEW v \in Users, held'[v] # Nil
        PROVE  Once(rest'[v]) /\ held'[v] \notin Members(rest'[v]) /\ Chain(v)' \subseteq alive'
    <3>1. CASE v = u
      BY <1>1, <1>2, <1>4, <2>1, <3>1, MembersEmpty
    <3>2. CASE v # u
      BY <1>3, <1>8, <2>1, <3>2 DEF InPlace, Chained
    <3>3. QED BY <3>1, <3>2
  <2>2. QED BY <2>1 DEF Chained
<1>11. Listed'
  <2>1. ASSUME initialized, NEW ty \in Types
        PROVE  /\ Once(head'[ty]) /\ Members(head'[ty]) \subseteq alive'
               /\ \A other \in Types \ {ty} : Members(head'[ty]) \cap Members(head'[other]) = {}
    <3>1. CASE ty = type[u]
      BY <1>4, <1>5, <1>6, <1>7, <2>1, <3>1
    <3>2. CASE ty # type[u]
      <4>1. Once(head[ty]) /\ Members(head[ty]) \subseteq alive /\ head'[ty] = head[ty]
        BY <1>6, <2>1, <3>2 DEF InPlace, Listed
      <4>2. Members(head[ty]) \cap Chain(u) = {}
        BY <1>5, <2>1, <3>2
      <4>3. ASSUME NEW other \in Types \ {ty} PROVE Members(head'[ty]) \cap Members(head'[other]) = {}
        <5>1. CASE other = type[u]
          BY <1>4, <1>7, <4>1, <4>2, <5>1
        <5>2. CASE other # type[u]
          BY <1>6, <2>1, <4>1, <5>2 DEF InPlace, Listed
        <5>3. QED BY <5>1, <5>2
      <4>4. QED BY <4>1, <4>2, <4>3
    <3>3. QED BY <3>1, <3>2
  <2>2. QED BY <2>1 DEF Listed
<1>12. Unlisted'
  <2>1. ASSUME initialized, NEW v \in Users, NEW ty \in Types
        PROVE  Taking(v, ty)' \/ Members(head'[ty]) \cap Chain(v)' = {}
    <3>1. CASE v = u /\ ty = type[u]
      BY <1>2, <1>4, <1>7, <3>1
    <3>2. CASE v = u /\ ty # type[u]
      BY <1>2, <1>4, <1>5, <1>6, <2>1, <3>2
    <3>3. CASE v # u /\ ty = type[u]
      BY <1>3, <1>4, <1>7, <1>8, <3>3
    <3>4. CASE v # u /\ ty # type[u]
      <4>1. lock'[ty] = lock[ty]
        BY <3>4 DEF Return, TypeOK
      <4>2. QED BY <1>1, <1>3, <1>6, <2>1, <3>4, <4>1 DEF InPlace, Unlisted, Taking
    <3>5. QED BY <3>1, <3>2, <3>3, <3>4
  <2>2. QED BY <2>1 DEF Unlisted
<1>13. QED BY <1>9, <1>10, <1>11, <1>12 DEF InPlace

\* The library could not be initialized again: the structure is freed.
LEMMA GivenUp ==
  ASSUME TypeOK, InPlace, NEW u \in Users, held[u] # Nil,
         Return(u, Nil), alive' = alive \ {held[u]}, ~initialized'
  PROVE  InPlace'
<1>1. Chain(u)' = {} /\ held'[u] = Nil
  BY DEF Return, TypeOK, Chain
<1>2. \A v \in Users \ {u} : held'[v] = held[v] /\ rest'[v] = rest[v] /\ Chain(v)' = Chain(v)
  BY DEF Return, TypeOK, Chain
<1>3. \A v \in Users \ {u} : held[u] \notin Chain(v)
  BY DEF InPlace, Apart, Chain
<1>4. Apart'
  BY <1>1, <1>2 DEF InPlace, Apart
<1>5. Chained'
  BY <1>1, <1>2, <1>3 DEF InPlace, Chained
<1>6. QED BY <1>4, <1>5 DEF InPlace, Listed, Unlisted

\* pk11_return_session forgets a structure,
LEMMA Forgotten ==
  ASSUME TypeOK, InPlace, NEW u \in Users, pc[u] = "use",
         held' = [held EXCEPT ![u] = Nil], pc' = [pc EXCEPT ![u] = "idle"],
         UNCHANGED <<initialized, lock, head, alive, type, rest>>
  PROVE  InPlace'
<1>1. Chain(u)' = {} /\ held'[u] = Nil
  BY DEF TypeOK, Chain
<1>2. \A v \in Users \ {u} : /\ held'[v] = held[v] /\ pc'[v] = pc[v] /\ Chain(v)' = Chain(v)
  BY DEF TypeOK, Chain
<1>3. Apart' /\ Chained' /\ Listed'
  BY <1>1, <1>2 DEF InPlace, Apart, Chained, Listed
<1>4. Unlisted'
  BY <1>1, <1>2 DEF InPlace, Unlisted, Taking
<1>5. QED BY <1>3, <1>4 DEF InPlace

\* or puts it back into its list.
LEMMA PutBack ==
  ASSUME SessionsAssumption, TypeOK, InPlace, NEW u \in Users, pc[u] = "use", lock[type[u]] = Nil,
         head' = [head EXCEPT ![type[u]] = <<held[u]>> \o @],
         held' = [held EXCEPT ![u] = Nil], pc' = [pc EXCEPT ![u] = "idle"],
         UNCHANGED <<initialized, lock, alive, type, rest>>
  PROVE  InPlace'
<1>1. Chain(u)' = {} /\ held'[u] = Nil /\ held[u] \in Sessions /\ type[u] \in Types /\ held[u] # Nil
  BY DEF TypeOK, Chain
<1>2. \A v \in Users \ {u} : /\ held'[v] = held[v] /\ pc'[v] = pc[v] /\ Chain(v)' = Chain(v)
  BY DEF TypeOK, Chain
<1>3. Apart' /\ Chained'
  BY <1>1, <1>2 DEF InPlace, Apart, Chained
<1>4. /\ head'[type[u]] = <<held[u]>> \o head[type[u]]
      /\ Members(head'[type[u]]) = {held[u]} \cup Members(head[type[u]])
      /\ Once(head[type[u]]) /\ held[u] \notin Members(head[type[u]]) => Once(head'[type[u]])
  <2>1. head[type[u]] \in Seq(Sessions)
    BY <1>1 DEF TypeOK
  <2>2. head'[type[u]] = <<held[u]>> \o head[type[u]]
    BY <1>1 DEF TypeOK
  <2>3. QED BY <1>1, <2>1, <2>2, Prepend
<1>5. held[u] \in Chain(u)
  BY <1>1 DEF Chain
<1>6. \A ty \in Types : initialized => held[u] \notin Members(head[ty])
  BY <1>5 DEF InPlace, Unlisted, Taking
<1>7. held[u] \in alive /\ \A v \in Users \ {u} : held[u] \notin Chain(v)
  BY <1>1, <1>5 DEF InPlace, Apart, Chained
<1>8. \A ty \in Types \ {type[u]} : head'[ty] = head[ty]
  BY DEF TypeOK
<1>9. Listed'
  <2>1. ASSUME initialized, NEW ty \in Types
        PROVE  /\ Once(head'[ty]) /\ Members(head'[ty]) \subseteq alive'
               /\ \A other \in Types \ {ty} : Members(head'[ty]) \cap Members(head'[other]) = {}
    <3>1. /\ Once(head[ty]) /\ Members(head[ty]) \subseteq alive
          /\ \A other \in Types \ {ty} : Members(head[ty]) \cap Members(head[other]) = {}
      BY <2>1 DEF InPlace, Listed
    <3>2. CASE ty = type[u]
      BY <1>4, <1>6, <1>7, <1>8, <2>1, <3>1, <3>2
    <3>3. CASE ty # type[u]
      <4>1. ASSUME NEW other \in Types \ {ty} PROVE Members(head'[ty]) \cap Members(head'[other]) = {}
        <5>1. CASE other = type[u]
          BY <1>4, <1>6, <1>8, <2>1, <3>1, <3>3, <5>1
        <5>2. CASE other # type[u]
          BY <1>8, <3>1, <3>3, <5>2
        <5>3. QED BY <5>1, <5>2
      <4>2. QED BY <1>8, <3>1, <3>3, <4>1
    <3>4. QED BY <3>2, <3>3
  <2>2. QED BY <2>1 DEF Listed
<1>10. Unlisted'
  <2>1. ASSUME initialized, NEW v \in Users, NEW ty \in Types
        PROVE  Taking(v, ty)' \/ Members(head'[ty]) \cap Chain(v)' = {}
    <3>1. CASE v = u
      BY <1>1, <3>1
    <3>2. CASE v # u /\ ty = type[u]
      <4>1. ~Taking(v, ty)
        BY <3>2, Ranges DEF Taking
      <4>2. Members(head[ty]) \cap Chain(v) = {}
        BY <2>1, <4>1 DEF InPlace, Unlisted
      <4>3. QED BY <1>2, <1>4, <1>7, <3>2, <4>2
    <3>3. CASE v # u /\ ty # type[u]
      BY <1>2, <1>8, <2>1, <3>3 DEF InPlace, Unlisted, Taking
    <3>4. QED BY <3>1, <3>2, <3>3
  <2>2. QED BY <2>1 DEF Unlisted
<1>11. QED BY <1>3, <1>9, <1>10 DEF InPlace

\* With CleanUpWorks the clean-up after a fork has one outcome.
LEMMA OnlyCleanUp ==
  ASSUME SessionsAssumption, TypeOK, Parent, CleanUpWorks, NEW u \in Users, GetForked(u)
  PROVE  /\ Return(u, held[u]) /\ alive' = alive \ Members(rest[u])
         /\ head' = [head EXCEPT ![type[u]] = <<>>]
         /\ owner' = [owner EXCEPT ![held[u]] = me]
<1>1. me # 1
  BY DEF Parent, GetForked
<1>2. ~May("cinit") /\ ~May("slots") /\ ~May("global") /\ ~May("setup") /\ ~May("relogin")
  BY <1>1 DEF CleanUpWorks, May
<1>3. QED BY <1>2 DEF GetForked

\* Every structure stays in one place, as long as the clean-ups work.
LEMMA PlacedKept ==
  ASSUME SessionsAssumption, TypeOK, Parent, Placed, [Next]_vars
  PROVE  Placed'
<1>1. CASE UNCHANGED vars
  BY <1>1 DEF vars, libVars, poolVars, userVars, Placed, CleanUpWorks, InPlace, Apart, Chained,
              Listed, Unlisted, Taking, Chain
<1> SUFFICES ASSUME Next, CleanUpWorks' PROVE InPlace'
  BY <1>1 DEF Placed
<1>2. CleanUpWorks
  BY ProcessGrows, Ranges DEF CleanUpWorks
<1>3. InPlace
  BY <1>2 DEF Placed
<1>4. ~May("close") /\ ~May("locks")
  BY <1>2 DEF CleanUpWorks, May
<1>5. ASSUME NEW e \in Engines, Bind(e) PROVE InPlace'
  <2>1. UNCHANGED <<alive, held, rest>> /\ (LoadFails(FALSE, locks) \/ LoadWorks(FALSE, locks))
    BY <1>5 DEF Bind, userVars
  <2>2. ~initialized' \/ head' = [ty \in Types |-> <<>>]
    BY <1>4, <2>1 DEF LoadFails, LoadWorks
  <2>3. QED BY <1>3, <2>1, <2>2, Emptied, NotInitialized
<1>6. ASSUME NEW e \in Engines, LibraryInit(e) PROVE InPlace'
  <2>1. UNCHANGED <<alive, userVars>>
    BY <1>6 DEF LibraryInit
  <2>2. \/ (initialized' => initialized) /\ UNCHANGED <<lock, head>>
        \/ head' = [ty \in Types |-> <<>>]
    <3>1. CASE initialized /\ initPid = me
      BY <1>6, <3>1 DEF LibraryInit
    <3>2. CASE LoadFails(initialized, locks /\ ~initialized) /\ UNCHANGED <<functional, lock>>
      BY <1>4, <3>2 DEF LoadFails
    <3>3. CASE LoadWorks(initialized, locks /\ ~initialized)
      BY <3>3 DEF LoadWorks
    <3>4. QED BY <1>6, <3>1, <3>2, <3>3 DEF LibraryInit
  <2>3. CASE (initialized' => initialized) /\ UNCHANGED <<lock, head>>
    BY <1>3, <2>1, <2>3, Untouched
  <2>4. CASE head' = [ty \in Types |-> <<>>]
    BY <1>3, <2>1, <2>4, Emptied DEF userVars
  <2>5. QED BY <2>2, <2>3, <2>4
<1>7. ASSUME NEW e \in Engines, Finish(e) PROVE InPlace'
  <2>1. UNCHANGED <<lock, head, userVars>> /\ \A u \in Users : held[u] = Nil
    BY <1>7 DEF Finish, TypeOK
  <2>2. CASE FinishCleans
    <3>1. ~initialized'
      BY <1>4, <2>2 DEF FinishCleans
    <3>2. QED BY <1>3, <2>1, <3>1, Finished DEF userVars
  <2>3. CASE UNCHANGED <<alive, initialized>>
    BY <1>3, <2>1, <2>3, Untouched
  <2>4. QED BY <1>7, <2>2, <2>3 DEF Finish
<1>8. CASE Fork
  <2>1. UNCHANGED <<initialized, lock, head, alive, type, rest>>
    BY <1>8 DEF Fork, poolVars
  <2>2. \A u \in Users : pc[u] # "get"
    BY <1>8 DEF Fork, Quiet
  <2>3. \A u \in Users : held'[u] \in {held[u], Nil}
    BY <1>8 DEF Fork
  <2>4. QED BY <1>3, <2>1, <2>2, <2>3, Forked
<1>9. ASSUME NEW u \in Users, NEW ty \in Types, GetLock(u, ty) PROVE InPlace'
  <2>1. held[u] = Nil /\ initialized /\ initialized' = initialized /\ head' = head
    BY <1>9, FirstLock DEF GetLock
  <2>2. CASE UNCHANGED <<lock, alive, owner, userVars>>
    BY <1>3, <2>1, <2>2, Untouched
  <2>3. CASE ~UNCHANGED <<lock, alive, owner, userVars>>
    <3>1. /\ lock[ty] = Nil /\ lock' = [lock EXCEPT ![ty] = u]
          /\ type' = [type EXCEPT ![u] = ty] /\ pc' = [pc EXCEPT ![u] = "get"]
      BY <1>9, <2>3, FirstLock
    <3>2. CASE head[ty] # <<>>
      <4>1. /\ alive' = alive /\ held' = [held EXCEPT ![u] = Head(head[ty])]
            /\ rest' = [rest EXCEPT ![u] = Tail(head[ty])]
        BY <1>9, <2>3, <3>2, FirstLock
      <4>2. QED BY <1>3, <2>1, <3>1, <3>2, <4>1, Taken
    <3>3. CASE head[ty] = <<>>
      <4>1. PICK s \in Sessions \ alive : alive' = alive \cup {s} /\ held' = [held EXCEPT ![u] = s]
        BY <1>9, <2>3, <3>3, FirstLock
      <4>2. rest' = [rest EXCEPT ![u] = <<>>]
        BY <1>9, <2>3, <3>3, FirstLock
      <4>3. QED BY <1>3, <2>1, <3>1, <3>3, <4>1, <4>2, Allocated
    <3>4. QED BY <3>2, <3>3
  <2>4. QED BY <2>2, <2>3
<1>10. ASSUME NEW u \in Users, NEW ty \in Types, GetNoMemory(u, ty) PROVE InPlace'
  BY <1>3, <1>10, Untouched DEF GetNoMemory, poolVars
<1>11. ASSUME NEW u \in Users, Get(u) PROVE InPlace'
  <2>1. held[u] \in Sessions /\ held[u] # Nil /\ held[u] \in Chain(u)
    BY <1>11, Ranges DEF Get, GetForked, GetCached, GetNew, GetReinit, TypeOK, Chain
  <2>2. held[u] \notin Members(rest[u]) /\ Members(rest[u]) \subseteq Chain(u)
    BY <1>3, <2>1 DEF InPlace, Chained, Chain
  <2>3. CASE GetForked(u)
    <3>1. /\ Return(u, held[u]) /\ alive' = alive \ Members(rest[u])
          /\ head' = [head EXCEPT ![type[u]] = <<>>]
      BY <1>2, <2>3, OnlyCleanUp
    <3>2. initialized' = initialized
      BY <2>3 DEF GetForked
    <3>3. Members(<<>>) = {}
      BY MembersEmpty
    <3>4. QED BY <1>3, <2>1, <2>2, <3>1, <3>2, <3>3, WrittenBack
  <2>4. CASE GetCached(u)
    <3>1. /\ Return(u, held[u]) /\ alive' = alive \ {} /\ head' = [head EXCEPT ![type[u]] = rest[u]]
          /\ initialized' = initialized
      BY <2>4 DEF GetCached, libVars
    <3>2. QED BY <1>3, <2>1, <3>1, WrittenBack
  <2>5. CASE GetNew(u)
    <3>1. head' = [head EXCEPT ![type[u]] = rest[u]] /\ initialized' = initialized
      BY <2>5 DEF GetNew, SetUpFails, libVars
    <3>2. CASE Return(u, held[u]) /\ alive' = alive \ {}
      BY <1>3, <2>1, <3>1, <3>2, WrittenBack
    <3>3. CASE Return(u, Nil) /\ alive' = alive \ {held[u]}
      BY <1>3, <2>1, <2>2, <3>1, <3>3, WrittenBack
    <3>4. QED BY <2>5, <3>2, <3>3 DEF GetNew, SetUpFails
  <2>6. CASE GetReinit(u)
    <3>1. CASE LoadWorks(FALSE, locks) /\ UNCHANGED <<alive, held, rest>>
      <4>1. ~initialized' \/ head' = [ty \in Types |-> <<>>]
        BY <3>1 DEF LoadWorks
      <4>2. QED BY <1>3, <3>1, <4>1, Emptied, NotInitialized
    <3>2. CASE LoadFails(FALSE, locks) /\ alive' = alive \ {held[u]} /\ Return(u, Nil)
      <4>1. ~initialized'
        BY <1>4, <3>2 DEF LoadFails
      <4>2. QED BY <1>3, <2>1, <3>2, <4>1, GivenUp
    <3>3. QED BY <2>6, <3>1, <3>2 DEF GetReinit
  <2>7. QED BY <1>11, <2>3, <2>4, <2>5, <2>6 DEF Get
<1>12. ASSUME NEW u \in Users, ReturnSession(u) PROVE InPlace'
  <2>1. /\ pc[u] = "use" /\ held' = [held EXCEPT ![u] = Nil] /\ pc' = [pc EXCEPT ![u] = "idle"]
        /\ UNCHANGED <<initialized, lock, alive, type, rest>>
    BY <1>12 DEF ReturnSession
  <2>2. CASE head' = head
    BY <1>3, <2>1, <2>2, Forgotten
  <2>3. CASE head' # head
    <3>1. lock[type[u]] = Nil /\ head' = [head EXCEPT ![type[u]] = <<held[u]>> \o @]
      BY <1>12, <2>3 DEF ReturnSession
    <3>2. QED BY <1>3, <2>1, <3>1, PutBack
  <2>4. QED BY <2>2, <2>3
<1>13. QED BY <1>5, <1>6, <1>7, <1>8, <1>9, <1>10, <1>11, <1>12 DEF Next

\* The invariant is inductive,
LEMMA SessionsInvInductive == SessionsAssumption /\ SessionsInv /\ [Next]_vars => SessionsInv'
BY TypeInductive, ParentKept, ReturningKept, KeptKept, LockedKept, PlacedKept DEF SessionsInv

\* and holds at the start.
LEMMA SessionsInvInit == SessionsAssumption /\ Init => SessionsInv
<1> SUFFICES ASSUME SessionsAssumption, Init PROVE SessionsInv
  OBVIOUS
<1>1. \A ty \in Types : head[ty] = <<>> /\ Members(head[ty]) = {} /\ Once(head[ty])
  BY MembersEmpty DEF Init
<1>2. Parent /\ Returning /\ Kept
  BY DEF Init, Parent, Returning, Kept
<1>3. Locked
  BY DEF Init, Locked
<1>4. InPlace
  BY <1>1 DEF Init, InPlace, Apart, Chained, Chain, Listed, Unlisted
<1>5. QED BY <1>2, <1>3, <1>4, TypeInit DEF SessionsInv, Placed

\* The type invariant of the engine's life cycle, whatever fails.
THEOREM SessionsTypeCorrect ==
  ASSUME SessionsAssumption
  PROVE  Spec => []TypeOK
<1>1. SessionsInv => TypeOK
  BY DEF SessionsInv
<1>2. QED BY <1>1, SessionsInvInit, SessionsInvInductive, PTL DEF Spec

\* No list and no user refers to a freed structure, over any number of forks,
\* engines, threads and types (pk11_get_session, pk11_free_all_sessions).
THEOREM NothingDangles ==
  ASSUME SessionsAssumption
  PROVE  Spec => []NoDangling
<1>1. SessionsInv => NoDangling
  BY DEF SessionsInv, Placed, InPlace, Listed, Chained, Chain, NoDangling, Cached
<1>2. QED BY <1>1, SessionsInvInit, SessionsInvInductive, PTL DEF Spec

\* A session has one user, or one place in one list (pk11_get_session,
\* pk11_return_session).
THEOREM SessionsAreExclusive ==
  ASSUME SessionsAssumption
  PROVE  Spec => []Exclusive
<1>1. ASSUME SessionsInv PROVE Exclusive
  <2> SUFFICES ASSUME CleanUpWorks PROVE Exclusive
    BY DEF Exclusive
  <2>1. InPlace /\ TypeOK
    BY <1>1 DEF SessionsInv, Placed
  <2>2. \A u, v \in Users : u # v /\ held[u] # Nil => held[u] # held[v]
    BY <2>1 DEF InPlace, Apart, Chain
  <2>3. \A u \in Users : pc[u] = "use" /\ initialized => held[u] \notin Cached
    <3> SUFFICES ASSUME NEW u \in Users, pc[u] = "use", initialized, NEW ty \in Types
                 PROVE  held[u] \notin Members(head[ty])
      BY DEF Cached
    <3>1. held[u] \in Chain(u) /\ ~Taking(u, ty)
      BY <2>1 DEF TypeOK, Chain, Taking
    <3>2. QED BY <2>1, <3>1 DEF InPlace, Unlisted
  <2>4. ASSUME NEW s \in Sessions, initialized PROVE Cardinality(Places(s)) <= 1
    <3>1. ASSUME NEW p \in Places(s), NEW q \in Places(s) PROVE p = q
      <4>1. /\ p \in Types \X (1..Cardinality(Sessions)) /\ p[2] \in DOMAIN head[p[1]] /\ head[p[1]][p[2]] = s
            /\ q \in Types \X (1..Cardinality(Sessions)) /\ q[2] \in DOMAIN head[q[1]] /\ head[q[1]][q[2]] = s
        BY DEF Places
      <4>2. p[1] = q[1]
        BY <2>1, <2>4, <4>1 DEF InPlace, Listed, Members
      <4>3. p[2] = q[2]
        BY <2>1, <2>4, <4>1, <4>2 DEF InPlace, Listed, Once
      <4>4. QED BY <4>1, <4>2, <4>3
    <3>2. CASE Places(s) = {}
      BY <3>2, FS_EmptySet
    <3>3. CASE Places(s) # {}
      <4>1. PICK p \in Places(s) : TRUE
        BY <3>3
      <4>2. Places(s) = {p}
        BY <3>1, <4>1
      <4>3. Cardinality(Places(s)) = 1
        BY <4>2, FS_Singleton
      <4>4. QED BY <4>3
    <3>4. QED BY <3>2, <3>3
  <2>5. QED BY <2>2, <2>3, <2>4 DEF Exclusive
<1>2. QED BY <1>1, SessionsInvInit, SessionsInvInductive, PTL DEF Spec

\* As long as there was no fork every structure is in a list or with a user,
\* whatever calls fail.
THEOREM SessionsAreNotLost ==
  ASSUME SessionsAssumption
  PROVE  Spec => []NoLeak
<1>1. SessionsInv => NoLeak
  BY DEF SessionsInv, Kept, NoLeak
<1>2. QED BY <1>1, SessionsInvInit, SessionsInvInductive, PTL DEF Spec

\* No mutex is used that was freed or not allocated, for engines created,
\* initialized and finished in any order and any number of forks (pk11_library_init,
\* pk11_finish, pk11_fork_prepare).
THEOREM MutexesAreThere ==
  ASSUME SessionsAssumption
  PROVE  Spec => []NoCrash
<1>1. SessionsInv => NoCrash
  BY DEF SessionsInv, Locked, Lockable, NoCrash
<1>2. QED BY <1>1, SessionsInvInit, SessionsInvInductive, PTL DEF Spec

\* Only a get gives a user a session to use.
LEMMA OnlyGetHands ==
  ASSUME SessionsAssumption, TypeOK, Next, NEW u \in Users, pc[u] # "use", pc'[u] = "use"
  PROVE  GetForked(u) \/ GetCached(u) \/ GetNew(u)
<1>1. ASSUME NEW e \in Engines, Bind(e) \/ LibraryInit(e) \/ Finish(e) PROVE FALSE
  BY <1>1 DEF Bind, LibraryInit, Finish, userVars
<1>2. ASSUME Fork PROVE FALSE
  BY <1>2 DEF Fork, TypeOK
<1>3. ASSUME NEW v \in Users, NEW ty \in Types, GetLock(v, ty) \/ GetNoMemory(v, ty) PROVE FALSE
  BY <1>3 DEF GetLock, GetNoMemory, userVars, TypeOK
<1>4. ASSUME NEW v \in Users, ReturnSession(v) PROVE FALSE
  BY <1>4 DEF ReturnSession, TypeOK
<1>5. ASSUME NEW v \in Users, GetReinit(v) PROVE FALSE
  BY <1>5 DEF GetReinit, Return, TypeOK
<1>6. ASSUME NEW v \in Users, GetForked(v) \/ GetCached(v) \/ GetNew(v) PROVE v = u
  <2>1. v # u => pc'[u] = pc[u]
    BY <1>6 DEF GetForked, GetCached, GetNew, SetUpFails, Return, TypeOK
  <2>2. QED BY <2>1
<1>7. QED BY <1>1, <1>2, <1>3, <1>4, <1>5, <1>6 DEF Next, Get

-----------------------------------------------------------------------------
(* One type of operations. *)

\* The users have used one type, so the lists of the others are empty.
OneUsed ==
  /\ \A u, v \in Users : type[u] = type[v]
  /\ \A u \in Users, ty \in Types : head[ty] # <<>> => ty = type[u]
Alone == SessionsAssumption /\ OneUsed /\ faults \cap CleanUpFaults = {}

\* Here the clean-ups work.
LEMMA AloneFacts ==
  ASSUME Alone, SessionsInv
  PROVE  /\ SessionsAssumption /\ TypeOK /\ Parent /\ CleanUpWorks /\ InPlace
         /\ ~May("close") /\ ~May("locks") /\ ~May("slots") /\ ~May("setup")
         /\ me \in Nat /\ me # 0
         /\ initialized => Cached \subseteq alive
         /\ \A u \in Users : held[u] # Nil => held[u] \in alive /\ Members(rest[u]) \subseteq alive
<1>1. SessionsAssumption /\ TypeOK /\ Parent
  BY DEF Alone, SessionsInv
<1>3. CleanUpWorks /\ ~May("close") /\ ~May("locks") /\ ~May("slots") /\ ~May("setup")
  BY DEF Alone, CleanUpWorks, May, CleanUpFaults
<1>4. InPlace
  BY <1>3 DEF SessionsInv, Placed
<1>8. initialized => Cached \subseteq alive
  BY <1>4 DEF InPlace, Listed, Cached
<1>9. \A u \in Users : held[u] # Nil => held[u] \in alive /\ Members(rest[u]) \subseteq alive
  BY <1>4 DEF InPlace, Chained, Chain
<1>10. me \in Nat /\ me # 0
  BY <1>1, Ranges
<1>11. QED BY <1>1, <1>3, <1>4, <1>8, <1>9, <1>10

\* All structures in lists are in that of the type in use.
LEMMA OnlyList ==
  ASSUME OneUsed, TypeOK, NEW u \in Users
  PROVE  /\ type[u] \in Types /\ \A v \in Users : type[v] = type[u]
         /\ Cached = Members(head[type[u]])
<1>1. type[u] \in Types
  BY DEF TypeOK
<1>2. ASSUME NEW ty \in Types, ty # type[u] PROVE Members(head[ty]) = {}
  BY <1>2, MembersEmpty DEF OneUsed
<1>3. QED BY <1>1, <1>2 DEF OneUsed, Cached

\* Only the list of the type in use changes, as long as that stays the same.
LEMMA OneUsedKept ==
  ASSUME SessionsAssumption, TypeOK, OneUsed, [Next]_vars, type' = type
  PROVE  OneUsed'
<1> SUFFICES ASSUME NEW u \in Users, NEW ty \in Types, head'[ty] # <<>> PROVE ty = type[u]
  BY DEF OneUsed
<1>0. head[ty] # <<>> => ty = type[u]
  BY DEF OneUsed
<1>1. CASE head' = head
  BY <1>0, <1>1
<1>2. CASE head' = [x \in Types |-> <<>>]
  BY <1>2
<1>3. ASSUME NEW v \in Users, NEW q, head' = [head EXCEPT ![type[v]] = q] PROVE ty = type[u]
  <2>1. CASE ty = type[v]
    BY <2>1 DEF OneUsed
  <2>2. CASE ty # type[v]
    BY <1>0, <1>3, <2>2 DEF TypeOK
  <2>3. QED BY <2>1, <2>2
<1>4. ASSUME NEW e \in Engines, Bind(e) \/ LibraryInit(e) \/ Finish(e)
      PROVE  head' = head \/ head' = [x \in Types |-> <<>>]
  BY <1>4 DEF Bind, LibraryInit, Finish, LoadFails, LoadWorks
<1>5. ASSUME Fork PROVE head' = head
  BY <1>5 DEF Fork, poolVars
<1>6. ASSUME NEW v \in Users, NEW t \in Types, GetLock(v, t) \/ GetNoMemory(v, t) PROVE head' = head
  BY <1>6 DEF GetLock, GetNoMemory, poolVars
<1>7. ASSUME NEW v \in Users, GetForked(v) PROVE head' = head \/ \E q : head' = [head EXCEPT ![type[v]] = q]
  BY <1>7 DEF GetForked
<1>8. ASSUME NEW v \in Users, GetCached(v) \/ GetNew(v) PROVE \E q : head' = [head EXCEPT ![type[v]] = q]
  BY <1>8 DEF GetCached, GetNew, SetUpFails
<1>9. ASSUME NEW v \in Users, GetReinit(v) PROVE head' = head \/ head' = [x \in Types |-> <<>>]
  BY <1>9 DEF GetReinit, LoadFails, LoadWorks
<1>10. ASSUME NEW v \in Users, ReturnSession(v)
       PROVE  head' = head \/ \E q : head' = [head EXCEPT ![type[v]] = q]
  BY <1>10 DEF ReturnSession
<1>11. CASE UNCHANGED vars
  BY <1>1, <1>11 DEF vars, poolVars
<1>12. QED BY <1>1, <1>2, <1>3, <1>4, <1>5, <1>6, <1>7, <1>8, <1>9, <1>10, <1>11 DEF Next, Get

\* Nobody is in pk11_get_session while a user that saw a fork is.
LEMMA NobodyElse ==
  ASSUME Alone, SessionsInv, Owned, NEW u \in Users, NEW v \in Users, u # v,
         pc[u] = "get", forked[u]
  PROVE  pc[v] \notin {"get", "setup"}
<1>1. type[u] \in Types /\ type[v] = type[u]
  BY AloneFacts, OnlyList DEF Alone
<1>2. QED BY <1>1 DEF Owned

\* With one type of operations every list is of one process.
LEMMA OwnedKept ==
  ASSUME Alone, SessionsInv, Owned, [Next]_vars, type' = type
  PROVE  Owned'
<1>11. CASE UNCHANGED vars
  BY <1>11 DEF vars, libVars, poolVars, userVars, Owned, Cached
<1> SUFFICES ASSUME Next PROVE Owned'
  BY <1>11
<1> DEFINE Mine(u) == IF forked[u]
                        THEN pid # me /\ lock[type[u]] = u
                        ELSE pid = me /\ owner[held[u]] \in {0, me} /\ \A s \in Members(rest[u]) : owner[s] = me
           Busy(u) == pc[u] \in {"get", "setup"}
<1>0. /\ pid \in Nat /\ pid <= me
      /\ pid = 0 => alive = {}
      /\ initialized /\ pid = me => \A s \in Cached : owner[s] = me
      /\ \A u \in Users : Busy(u) => Mine(u)
  BY DEF Owned, SessionsInv, TypeOK
<1>1. TypeOK
  BY DEF SessionsInv
<1>12. ASSUME NEW u \in Users PROVE Cached' = Members(head'[type[u]])
  <2>1. OneUsed' /\ TypeOK'
    BY <1>1, OneUsedKept, TypeInductive DEF Alone
  <2>2. \A ty \in Types : ty # type[u] => Members(head'[ty]) = {}
    BY <2>1, MembersEmpty DEF OneUsed
  <2>3. type[u] \in Types
    BY <1>1 DEF TypeOK
  <2>4. QED BY <2>2, <2>3 DEF Cached
<1>2. ASSUME NEW e \in Engines, Bind(e) \/ LibraryInit(e) \/ Finish(e) PROVE Owned'
  <2>1. /\ UNCHANGED <<me, pid, owner, pc, type, forked, held, rest>>
        /\ \A u \in Users : ~Busy(u)
    BY <1>2 DEF Bind, LibraryInit, Finish, userVars, Quiet
  <2>2. alive' \subseteq alive
    BY <1>2 DEF Bind, LibraryInit, Finish, FinishCleans
  <2>3. \/ initialized' => initialized /\ head' = head
        \/ head' = [ty \in Types |-> <<>>]
    <3>1. ~May("close") /\ ~May("locks")
      BY AloneFacts
    <3>2. ASSUME NEW init \in BOOLEAN, NEW locked, LoadFails(init, locked) \/ LoadWorks(init, locked)
          PROVE  (initialized' = init /\ head' = head) \/ head' = [ty \in Types |-> <<>>]
      BY <3>1, <3>2 DEF LoadFails, LoadWorks
    <3>3. CASE Bind(e)
      BY <3>2, <3>3 DEF Bind
    <3>4. CASE LibraryInit(e)
      BY <3>2, <3>4, <1>1 DEF LibraryInit, TypeOK
    <3>5. CASE Finish(e)
      BY <3>1, <3>5 DEF Finish, FinishCleans
    <3>6. QED BY <1>2, <3>3, <3>4, <3>5
  <2>4. CASE initialized' => initialized /\ head' = head
    BY <1>0, <2>1, <2>2, <2>4 DEF Owned, Cached
  <2>5. CASE head' = [ty \in Types |-> <<>>]
    <3>1. Cached' = {}
      BY <2>5, MembersEmpty DEF Cached
    <3>2. QED BY <1>0, <2>1, <2>2, <3>1 DEF Owned
  <2>6. QED BY <2>3, <2>4, <2>5
<1>3. CASE Fork
  <2>1. /\ UNCHANGED <<pid, initialized, head, alive, owner>>
        /\ me' = me \/ me' = me + 1
        /\ me' = me => \A u \in Users : pc'[u] = pc[u] 
    BY <1>3, <1>1, Ranges DEF Fork, poolVars, TypeOK
  <2>2. \A u \in Users : pc'[u] \notin {"get", "setup"}
    BY <1>3, <1>1, ZenonT(30) DEF Fork, Quiet, TypeOK
  <2>3. me \in Nat
    BY Ranges, <1>1 DEF Alone
  <2>4. pid <= me' /\ (pid = me' => pid = me /\ me' = me)
    BY <1>0, <2>1, <2>3
  <2>5. QED BY <1>0, <2>1, <2>2, <2>4 DEF Owned, Cached
<1>4. ASSUME NEW u \in Users, NEW ty \in Types, GetLock(u, ty) PROVE Owned'
  <2>1. /\ pc[u] = "idle" /\ initialized /\ initialized' = initialized /\ head' = head /\ me' = me
    BY <1>4 DEF GetLock
  <2>2. CASE UNCHANGED <<pid, lock, alive, owner, userVars>>
    BY <1>0, <2>1, <2>2 DEF Owned, Cached, userVars
  <2>3. CASE ~UNCHANGED <<pid, lock, alive, owner, userVars>>
    <3>1. /\ lock[ty] = Nil /\ lock' = [lock EXCEPT ![ty] = u]
          /\ pid' = IF pid = 0 THEN me ELSE pid
          /\ forked' = [forked EXCEPT ![u] = pid' # me]
          /\ type' = [type EXCEPT ![u] = ty] /\ pc' = [pc EXCEPT ![u] = "get"]
      BY <1>4, <2>3 DEF GetLock, IsNewProcess
    <3>2. \/ /\ head[ty] # <<>> /\ alive' = alive /\ owner' = owner
             /\ held' = [held EXCEPT ![u] = Head(head[ty])]
             /\ rest' = [rest EXCEPT ![u] = Tail(head[ty])]
          \/ \E s \in Sessions \ alive :
               /\ alive' = alive \cup {s} /\ owner' = [owner EXCEPT ![s] = 0]
               /\ held' = [held EXCEPT ![u] = s]
               /\ rest' = [rest EXCEPT ![u] = <<>>]
      BY <1>4, <2>3 DEF GetLock
    <3>3. \A s \in alive : owner'[s] = owner[s]
      BY <3>2, <1>1 DEF TypeOK
    <3>0. ty = type[u]
      BY <3>1, <1>1 DEF TypeOK
    <3>4. Cached \subseteq alive /\ Cached = Members(head[ty]) /\ me \in Nat /\ me # 0
      BY <2>1, <3>0, <1>1, AloneFacts, OnlyList DEF Alone
    <3>5. pid' \in Nat /\ pid' <= me /\ pid' # 0
      BY <1>0, <3>1, <3>4
    <3>6. pid' = me => \A s \in Cached : owner'[s] = me
      BY <1>0, <2>1, <3>1, <3>3, <3>4
    <3>7. ASSUME NEW v \in Users, v # u, Busy(v) PROVE Busy(v)' => Mine(v)'
      <4>1. held[v] # Nil /\ held[v] \in alive /\ Members(rest[v]) \subseteq alive
        BY <3>7, <1>1, AloneFacts DEF TypeOK
      <4>2. type[v] = ty /\ v # Nil
        BY <3>0, <1>1, AloneFacts, OnlyList DEF Alone, SessionsAssumption
      <4>3. ~forked[v] /\ pid = me
        BY <1>0, <3>1, <3>7, <4>2
      <4>4. UNCHANGED <<forked[v], held[v], rest[v]>>
        BY <3>1, <3>2, <3>7, <1>1 DEF TypeOK
      <4>5. pid' = me
        BY <3>1, <4>3
      <4>6. QED BY <1>0, <2>1, <3>3, <3>7, <4>1, <4>3, <4>4, <4>5
    <3>8. Mine(u)'
      <4>1. forked'[u] = (pid' # me) /\ type'[u] = ty /\ lock'[ty] = u
        BY <3>1, <1>1 DEF TypeOK
      <4>2. CASE head[ty] # <<>> /\ alive' = alive /\ owner' = owner
             /\ held' = [held EXCEPT ![u] = Head(head[ty])]
             /\ rest' = [rest EXCEPT ![u] = Tail(head[ty])]
        <5>1. held'[u] = Head(head[ty]) /\ rest'[u] = Tail(head[ty]) /\ head[ty] \in Seq(Sessions)
          BY <4>2, <1>1 DEF TypeOK
        <5>2. held'[u] \in Cached /\ Members(rest'[u]) \subseteq Cached
          BY <3>4, <4>2, <5>1, MembersSeq
        <5>3. QED BY <2>1, <3>6, <4>1, <5>2
      <4>3. ASSUME NEW s \in Sessions \ alive, owner' = [owner EXCEPT ![s] = 0],
                   held' = [held EXCEPT ![u] = s], rest' = [rest EXCEPT ![u] = <<>>]
            PROVE  Mine(u)'
        <5>1. owner'[held'[u]] = 0 /\ Members(rest'[u]) = {}
          BY <4>3, <1>1, MembersEmpty DEF TypeOK
        <5>2. QED BY <2>1, <4>1, <5>1
      <4>4. QED BY <3>2, <4>2, <4>3
    <3>9. ASSUME NEW v \in Users, Busy(v)' PROVE Mine(v)'
      <4>1. CASE v = u
        BY <3>8, <4>1
      <4>2. CASE v # u
        <5>1. Busy(v)
          BY <3>1, <3>9, <4>2, <1>1 DEF TypeOK
        <5>2. QED BY <3>7, <3>9, <4>2, <5>1
      <4>3. QED BY <4>1, <4>2
    <3>10. Cached' = Cached
      BY <2>1 DEF Cached
    <3>11. QED BY <2>1, <3>5, <3>6, <3>9, <3>10 DEF Owned
  <2>4. QED BY <2>2, <2>3
<1>5. ASSUME NEW u \in Users, NEW ty \in Types, GetNoMemory(u, ty) PROVE Owned'
  <2>1. /\ UNCHANGED <<me, initialized, lock, head, alive, owner, pc, type, forked, held, rest>>
        /\ pid' = IF pid = 0 THEN me ELSE pid
        /\ initialized /\ head[ty] = <<>>
    BY <1>5 DEF GetNoMemory, poolVars, userVars
  <2>2. me \in Nat /\ me # 0 /\ Cached' = Cached /\ Cached \subseteq alive
    BY <2>1, AloneFacts DEF Cached
  <2>3. CASE pid # 0
    BY <1>0, <2>1, <2>2, <2>3 DEF Owned
  <2>4. CASE pid = 0
    <3>1. ASSUME NEW v \in Users PROVE ~Busy(v)
      BY <1>0, <2>4, <1>1, AloneFacts DEF TypeOK
    <3>2. QED BY <1>0, <2>1, <2>2, <2>4, <3>1 DEF Owned
  <2>5. QED BY <2>3, <2>4
<1>6. ASSUME NEW u \in Users, GetForked(u) PROVE Owned'
  <2> DEFINE ty == type[u]
  <2>1. ty \in Types /\ pc[u] = "get" /\ forked[u] /\ pid' = me /\ me' = me
    BY <1>6, <1>1 DEF GetForked, TypeOK
  <2>2. Return(u, held[u]) /\ head' = [head EXCEPT ![ty] = <<>>]
    BY <1>6, <2>1, AloneFacts, OnlyCleanUp
  <2>3. me \in Nat /\ me # 0 /\ held[u] # Nil
    BY <2>1, <1>1, AloneFacts DEF TypeOK
  <2>4. Cached' = {}
    <3>1. head'[ty] = <<>>
      BY <2>1, <2>2, <1>1 DEF TypeOK
    <3>2. QED BY <1>12, <3>1, MembersEmpty
  <2>5. ASSUME NEW v \in Users PROVE ~Busy(v)'
    <3>1. v # u => ~Busy(v)
      BY <2>1, NobodyElse
    <3>2. QED BY <2>2, <2>3, <3>1, <1>1 DEF Return, TypeOK
  <2>6. QED BY <2>1, <2>3, <2>4, <2>5 DEF Owned
<1>7. ASSUME NEW u \in Users, GetCached(u) \/ GetNew(u) PROVE Owned'
  <2> DEFINE ty == type[u]
  <2>1. /\ ty \in Types /\ Busy(u) /\ UNCHANGED <<me, pid, initialized>>
        /\ held[u] \in Sessions /\ held[u] \in alive
    BY <1>7, <1>1, AloneFacts DEF GetCached, GetNew, TypeOK, libVars
  <2>2. /\ Return(u, held[u]) /\ head' = [head EXCEPT ![ty] = rest[u]] /\ alive' = alive
        /\ owner' = [owner EXCEPT ![held[u]] = me] \/ owner' = owner
    BY <1>7, <2>1, AloneFacts DEF GetCached, GetNew
  <2>3. pid # 0
    BY <1>0, <2>1
  <2>4. Cached' = Members(rest[u])
    <3>1. head'[ty] = rest[u]
      BY <2>1, <2>2, <1>1 DEF TypeOK
    <3>2. QED BY <1>12, <3>1
  <2>5. \A s \in Sessions : owner'[s] \in {owner[s], me}
    BY <2>2, <1>1 DEF TypeOK
  <2>6. ASSUME NEW v \in Users PROVE Members(rest[v]) \subseteq Sessions
    BY <1>1, MembersSeq DEF TypeOK
  <2>7. ASSUME NEW v \in Users, Busy(v)' PROVE Mine(v)'
    <3>1. v # u
      BY <2>1, <2>2, <2>7, <1>1 DEF Return, TypeOK
    <3>2. Busy(v) /\ UNCHANGED <<type[v], forked[v], held[v], rest[v]>>
      BY <2>2, <2>7, <3>1, <1>1 DEF Return, TypeOK
    <3>3. type[v] = ty /\ held[v] \in Sessions /\ Members(rest[v]) \subseteq Sessions
      BY <2>1, <2>6, <3>2, <1>1, OnlyList DEF Alone, TypeOK
    <3>4. ~forked[v]
      <4>1. CASE forked[u] /\ forked[v]
        BY <1>0, <2>1, <3>1, <3>2, <3>3, <4>1
      <4>2. CASE ~forked[u]
        BY <1>0, <2>1, <3>2, <4>2
      <4>3. QED BY <4>1, <4>2
    <3>5. Mine(v)
      BY <1>0, <3>2
    <3>6. QED BY <2>1, <2>5, <3>2, <3>3, <3>4, <3>5
  <2>8. initialized /\ pid = me => \A s \in Cached' : owner'[s] = me
    BY <1>0, <2>1, <2>4, <2>5, <2>6
  <2>9. QED BY <1>0, <2>1, <2>3, <2>7, <2>8 DEF Owned
<1>8. ASSUME NEW u \in Users, GetReinit(u) PROVE Owned'
  <2> DEFINE ty == type[u]
  <2>1. ty \in Types /\ Busy(u) /\ ~forked[u] /\ UNCHANGED <<me, pid, owner>>
    BY <1>8, <1>1 DEF GetReinit, TypeOK, Return
  <2>2. pid = me /\ me # 0 /\ ~May("locks")
    BY <1>0, <2>1, AloneFacts
  <2>3. /\ alive' \subseteq alive
        /\ ~initialized' \/ head' = [x \in Types |-> <<>>]
    BY <1>8, <2>2 DEF GetReinit, LoadWorks, LoadFails
  <2>4. initialized' => Cached' = {}
    BY <2>3, MembersEmpty DEF Cached
  <2>5. ASSUME NEW v \in Users, Busy(v)' PROVE Busy(v) /\ UNCHANGED <<forked[v], held[v], rest[v]>>
    BY <1>8, <2>1, <2>5, <1>1 DEF GetReinit, Return, TypeOK
  <2>6. QED BY <1>0, <2>1, <2>2, <2>3, <2>4, <2>5 DEF Owned
<1>9. ASSUME NEW u \in Users, ReturnSession(u) PROVE Owned'
  <2> DEFINE ty == type[u]
  <2>1. /\ ty \in Types /\ held[u] \in Sessions
        /\ UNCHANGED <<me, pid, initialized, lock, alive, owner, type, forked, rest>>
        /\ held' = [held EXCEPT ![u] = Nil] /\ pc' = [pc EXCEPT ![u] = "idle"]
    BY <1>9, <1>1 DEF ReturnSession, TypeOK
  <2>2. ASSUME NEW v \in Users, Busy(v)' PROVE Busy(v) /\ UNCHANGED held[v]
    BY <2>1, <2>2, <1>1 DEF TypeOK
  <2>3. CASE head' = head
    BY <1>0, <2>1, <2>2, <2>3 DEF Owned, Cached
  <2>4. CASE head' # head
    <3>1. owner[held[u]] = me /\ head' = [head EXCEPT ![ty] = <<held[u]>> \o @]
      BY <1>9, <2>4 DEF ReturnSession
    <3>2. head[ty] \in Seq(Sessions) /\ Cached = Members(head[ty])
      BY <2>1, <1>1, OnlyList DEF Alone, TypeOK
    <3>3. head'[ty] = <<held[u]>> \o head[ty]
      BY <2>1, <3>1, <1>1 DEF TypeOK
    <3>4. Members(head'[ty]) = {held[u]} \cup Members(head[ty])
      BY <2>1, <3>2, <3>3, Prepend
    <3>5. Cached' = {held[u]} \cup Cached
      BY <1>12, <3>2, <3>4
    <3>6. QED BY <1>0, <2>1, <2>2, <3>1, <3>5 DEF Owned
  <2>5. QED BY <2>3, <2>4
<1>10. QED BY <1>2, <1>3, <1>4, <1>5, <1>6, <1>7, <1>8, <1>9 DEF Next, Get

\* No step changes what may fail.
LEMMA FaultsStay == SessionsAssumption /\ [Next]_vars => faults' = faults
<1> USE DEF libVars
<1>1. ASSUME NEW e \in Engines, Bind(e) \/ LibraryInit(e) \/ Finish(e) PROVE faults' = faults
  BY <1>1 DEF Bind, LibraryInit, Finish
<1>2. ASSUME NEW u \in Users, Get(u) \/ ReturnSession(u) PROVE faults' = faults
  BY <1>2 DEF Get, GetForked, GetCached, GetNew, GetReinit, ReturnSession
<1>3. ASSUME NEW u \in Users, NEW ty \in Types, GetLock(u, ty) \/ GetNoMemory(u, ty) PROVE faults' = faults
  BY <1>3 DEF GetLock, GetNoMemory
<1>4. QED BY <1>1, <1>2, <1>3 DEF Next, vars, Fork

\* pk11_get_session: with one type of operations in use, every caller gets a
\* session that its own process opened, over any number of forks, where the
\* calls of the clean-ups work.
THEOREM OneTypeHandsOutOwn ==
  ASSUME SessionsAssumption
  PROVE  Spec /\ [][type' = type]_vars => [][OwnAfterCleanUp]_vars
<1> DEFINE Inv == SessionsInv /\ OneUsed /\ (Alone => Owned)
<1>1. SessionsAssumption /\ Init => OneUsed /\ Owned
  BY DEF SessionsAssumption, Init, OneUsed, Owned
<1>2. Inv /\ [Next]_vars /\ [type' = type]_vars => Inv'
  <2> SUFFICES ASSUME Inv, [Next]_vars, type' = type PROVE Inv'
    BY DEF vars, userVars
  <2>1. SessionsInv' /\ OneUsed' /\ faults' = faults
    BY SessionsInvInductive, OneUsedKept, FaultsStay DEF SessionsInv
  <2>2. Alone' => Alone
    BY <2>1 DEF Alone
  <2>3. QED BY <2>1, <2>2, OwnedKept
<1>3. ASSUME Alone, SessionsInv, Owned, [Next]_vars PROVE [OwnHandedOut]_vars
  <2> SUFFICES ASSUME NEW u \in Users, pc[u] # "use", pc'[u] = "use", Next
               PROVE  owner'[held'[u]] = me'
    BY <1>3 DEF OwnHandedOut, vars, libVars, poolVars, userVars
  <2>1. TypeOK /\ SessionsAssumption
    BY <1>3 DEF SessionsInv, Alone
  <2>2. GetForked(u) \/ GetCached(u) \/ GetNew(u)
    BY <2>1, OnlyGetHands
  <2>3. type[u] \in Types /\ held[u] \in Sessions
    BY <2>1, <2>2 DEF GetForked, GetCached, GetNew, TypeOK
  <2>4. CASE GetForked(u)
    <3>1. Return(u, held[u]) /\ owner' = [owner EXCEPT ![held[u]] = me] /\ me' = me
      BY <1>3, <2>3, <2>4, AloneFacts, OnlyCleanUp DEF GetForked
    <3>2. QED BY <2>1, <2>3, <3>1 DEF Return, TypeOK
  <2>5. CASE GetCached(u)
    <3>1. held'[u] = held[u] /\ owner' = owner /\ me' = me
      BY <2>1, <2>5 DEF GetCached, Return, TypeOK, libVars
    <3>2. owner[held[u]] = me
      BY <1>3, <2>5 DEF GetCached, Owned
    <3>3. QED BY <3>1, <3>2
  <2>6. CASE GetNew(u)
    <3>1. Return(u, held[u]) /\ owner' = [owner EXCEPT ![held[u]] = me] /\ me' = me
      BY <1>3, <2>3, <2>6, AloneFacts DEF GetNew, libVars
    <3>2. QED BY <2>1, <2>3, <3>1 DEF Return, TypeOK
  <2>7. QED BY <2>2, <2>4, <2>5, <2>6
<1>4. Inv /\ [Next]_vars => [OwnAfterCleanUp]_vars
  BY <1>3 DEF OwnAfterCleanUp, Alone
<1>5. SessionsAssumption /\ Init => Inv
  BY <1>1, SessionsInvInit
<1>6. QED BY <1>2, <1>4, <1>5, PTL DEF Spec
=============================================================================
