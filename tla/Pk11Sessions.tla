---------------------------- MODULE Pk11Sessions ----------------------------
(***************************************************************************)
(* The session caches of the PKCS#11 engine and the life cycle of the      *)
(* engine around them: pk11_library_init, pk11_finish, the atfork handlers *)
(* and pk11_get_session / pk11_return_session with their clean-up after a  *)
(* fork (engines/pkcs11/e_pk11.c of openssl-1.0.1).                        *)
(*                                                                         *)
(* The model follows one address space: a fork goes on as the child, whose *)
(* memory is a copy and whose PKCS#11 library has not been initialized.    *)
(* A user is a thread in an operation or a context that holds a session.   *)
(* The key objects in a session are the business of Pk11Rsa.               *)
(***************************************************************************)
EXTENDS Integers, Sequences, FiniteSets

CONSTANTS
  Users,
  Types,      \* the operation types in use, OP_RSA and so on
  Sessions,   \* PK11_SESSION structures (bound: so many can be alive)
  Engines,    \* ENGINE structures the application creates
  FaultSets,  \* for each behaviour one of these sets of calls may fail
  MaxPid,     \* bound on the processes: MaxPid - 1 forks
  Nil

AllFaults == {"malloc", "load", "noslot", "locks", "cinit", "slots", "global", "setup",
              "relogin", "close"}

SessionsAssumption ==
  /\ FaultSets \subseteq SUBSET AllFaults
  /\ MaxPid \in Nat \ {0}
  /\ Nil \notin Users \cup Types \cup Sessions \cup Engines

VARIABLES
  faults,       \* the calls that may fail
  me,           \* getpid()
  pid,          \* the static variable in pk11_get_session
  initialized,  \* pk11_library_initialized
  initPid,      \* pk11_pid
  engine,       \* pk11_engine
  dso,          \* pk11_dso is loaded
  locks,        \* the mutexes are allocated
  cryptoki,     \* C_Initialize has been called in this process
  crashed,      \* a mutex that is not there was locked
  functional,   \* engines the application has a functional reference to
  lock,         \* session_cache[type].lock: its owner or Nil
  head,         \* session_cache[type].head and the next pointers
  alive,        \* allocated PK11_SESSION structures
  owner,        \* sp->pid: where sp->session was opened, 0 in a new structure
  pc, type, forked,
  held,         \* the user's session
  rest          \* freelist, a local of pk11_get_session

libVars  == <<faults, me, pid, initialized, initPid, engine, dso, locks, cryptoki, crashed, functional>>
poolVars == <<head, alive, owner>>
userVars == <<pc, type, forked, held, rest>>
vars == <<libVars, lock, poolVars, userVars>>

Members(q) == {q[i] : i \in DOMAIN q}
Cached == UNION {Members(head[ty]) : ty \in Types}

TypeOK ==
  /\ faults \in FaultSets
  /\ me \in 1..MaxPid /\ pid \in 0..MaxPid /\ initPid \in 0..MaxPid
  /\ initialized \in BOOLEAN /\ dso \in BOOLEAN /\ locks \in BOOLEAN
  /\ cryptoki \in BOOLEAN /\ crashed \in BOOLEAN
  /\ engine \in Engines \cup {Nil}
  /\ functional \subseteq Engines
  /\ lock \in [Types -> Users \cup {Nil}]
  /\ head \in [Types -> Seq(Sessions)]
  /\ alive \subseteq Sessions
  /\ owner \in [Sessions -> 0..MaxPid]
  /\ pc \in [Users -> {"idle", "get", "setup", "use"}]
  /\ type \in [Users -> Types]
  /\ forked \in [Users -> BOOLEAN]
  /\ held \in [Users -> Sessions \cup {Nil}]
  /\ rest \in [Users -> Seq(Sessions)]
  /\ \A u \in Users : pc[u] = "idle" <=> held[u] = Nil

Init ==
  /\ faults \in FaultSets
  /\ me = 1 /\ pid = 0 /\ initPid = 0
  /\ initialized = FALSE /\ dso = FALSE /\ locks = FALSE /\ cryptoki = FALSE
  /\ crashed = FALSE
  /\ engine = Nil /\ functional = {}
  /\ lock = [ty \in Types |-> Nil]
  /\ head = [ty \in Types |-> <<>>]
  /\ alive = {}
  /\ owner = [s \in Sessions |-> 0]
  /\ pc = [u \in Users |-> "idle"]
  /\ type \in {[u \in Users |-> ty] : ty \in Types}
  /\ forked = [u \in Users |-> FALSE]
  /\ held = [u \in Users |-> Nil]
  /\ rest = [u \in Users |-> <<>>]

May(fault) == fault \in faults
Quiet == \A u \in Users : pc[u] \in {"idle", "use"}

-----------------------------------------------------------------------------
(* The library. *)

\* pk11_library_init() past the process check, for a caller that left
\* initialized = init and the mutexes allocated if locked.  It fails before
\* anything is set, or when the mutexes cannot be allocated.
LoadFails(init, locked) ==
  /\ \/ /\ May("load") /\ dso' \in {dso, TRUE} /\ cryptoki' \in {cryptoki, TRUE}
        /\ initialized' = init /\ locks' = locked
        /\ UNCHANGED initPid
     \/ /\ May("locks") /\ dso' = TRUE /\ cryptoki' = TRUE
        /\ initialized' = TRUE /\ initPid' = me
        /\ locks' = FALSE
  /\ UNCHANGED head

LoadWorksBug(init, locked) ==
  /\ dso' = TRUE /\ cryptoki' = TRUE
  /\ initialized' = TRUE /\ initPid' = me
  /\ locks' = locked
  /\ lock' = [ty \in Types |-> Nil]
  /\ head' = [ty \in Types |-> <<>>]

\* It works, or there is no slot to use and nothing more to do.
LoadWorks(init, locked) ==
  /\ dso' = TRUE /\ cryptoki' = TRUE
  /\ \/ /\ initialized' = TRUE /\ initPid' = me
        /\ locks' = TRUE
        /\ lock' = [ty \in Types |-> Nil]
        /\ head' = [ty \in Types |-> <<>>]
     \/ /\ May("noslot")
        /\ initialized' = init /\ locks' = locked
        /\ UNCHANGED <<initPid, lock, head>>

\* The engine's init function, called for the first functional reference.
\* Threads do not run engine operations while the application initializes or
\* finishes the engine.
LibraryInit(e) ==
  /\ Quiet /\ ~crashed /\ e \notin functional
  /\ engine' = e
  /\ IF initialized /\ initPid = me
       THEN /\ functional' = functional \cup {e}
            /\ UNCHANGED <<initialized, initPid, dso, locks, cryptoki, lock, head>>
       ELSE LET locked == locks /\ ~initialized IN
            \/ LoadFails(initialized, locked) /\ UNCHANGED <<functional, lock>>
            \/ LoadWorks(initialized, locked) /\ functional' = functional \cup {e}
  /\ UNCHANGED <<faults, me, pid, crashed, alive, owner, userVars>>

\* bind_pk11(): the application creates an ENGINE for the library.
Bind(e) ==
  /\ Quiet /\ ~crashed /\ e \notin functional /\ ~initialized
  /\ engine' = e
  /\ (LoadFails(FALSE, locks) /\ UNCHANGED lock) \/ LoadWorks(FALSE, locks)
  /\ UNCHANGED <<faults, me, pid, crashed, functional, alive, owner, userVars>>

\* pk11_free_all_sessions() and the rest of pk11_finish().  OpenSSL calls it
\* when the last functional reference goes: no user is left.  The list heads
\* keep their value.
FinishCleans ==
  /\ alive' = alive \ Cached
  /\ \/ /\ initialized' = FALSE /\ initPid' = 0 /\ dso' = FALSE
        /\ engine' = Nil /\ locks' = FALSE
     \/ /\ May("close") /\ \E s \in Cached : owner[s] = me
        /\ UNCHANGED <<initialized, initPid, dso, engine, locks>>
  /\ UNCHANGED crashed

Finish(e) ==
  /\ \A u \in Users : pc[u] = "idle"
  /\ e \in functional /\ ~crashed
  /\ functional' = functional \ {e}
  /\ IF e # engine \/ ~dso
       THEN UNCHANGED <<alive, initialized, initPid, dso, engine, locks, crashed>>
       ELSE IF locks
              THEN FinishCleans
              ELSE crashed' = TRUE /\ UNCHANGED <<alive, initialized, initPid, dso, engine, locks>>
  /\ UNCHANGED <<faults, me, pid, cryptoki, lock, head, owner, userVars>>

\* fork(), with the atfork handlers taking and releasing every mutex.  In the
\* child the contexts in memory keep their session, other threads are gone.
Fork ==
  /\ me < MaxPid /\ Quiet /\ ~crashed
  /\ IF initialized /\ ~locks
       THEN crashed' = TRUE /\ UNCHANGED <<me, cryptoki, pc, held>>
       ELSE /\ \A ty \in Types : initialized => lock[ty] = Nil
            /\ me' = me + 1
            /\ cryptoki' = FALSE
            /\ \E gone \in SUBSET Users :
                 /\ pc' = [u \in Users |-> IF u \in gone THEN "idle" ELSE pc[u]]
                 /\ held' = [u \in Users |-> IF u \in gone THEN Nil ELSE held[u]]
            /\ UNCHANGED crashed
  /\ UNCHANGED <<faults, pid, initialized, initPid, engine, dso, locks, functional, lock, poolVars, type, forked, rest>>

-----------------------------------------------------------------------------
(* pk11_get_session(). *)

\* The static pid is not the process' own.
IsNewProcess(p) == p # me

\* Lock the list, take its first structure or a new one, look for a fork.
GetLock(u, ty) ==
  /\ pc[u] = "idle" /\ initialized /\ ~crashed
  /\ IF ~locks
       THEN crashed' = TRUE /\ UNCHANGED <<pid, lock, alive, owner, userVars>>
       ELSE /\ lock[ty] = Nil
            /\ lock' = [lock EXCEPT ![ty] = u]
            /\ pid' = IF pid = 0 THEN me ELSE pid
            /\ forked' = [forked EXCEPT ![u] = IsNewProcess(pid')]
            /\ type' = [type EXCEPT ![u] = ty]
            /\ pc' = [pc EXCEPT ![u] = "get"]
            /\ \/ /\ head[ty] # <<>>
                  /\ held' = [held EXCEPT ![u] = Head(head[ty])]
                  /\ rest' = [rest EXCEPT ![u] = Tail(head[ty])]
                  /\ UNCHANGED <<alive, owner>>
               \/ /\ head[ty] = <<>>
                  /\ \E s \in Sessions \ alive :
                       /\ alive' = alive \cup {s}
                       /\ owner' = [owner EXCEPT ![s] = 0]
                       /\ held' = [held EXCEPT ![u] = s]
                  /\ rest' = [rest EXCEPT ![u] = <<>>]
            /\ UNCHANGED crashed
  /\ UNCHANGED <<faults, me, initialized, initPid, engine, dso, locks, cryptoki, functional, head>>

\* OPENSSL_malloc fails.
GetNoMemory(u, ty) ==
  /\ pc[u] = "idle" /\ initialized /\ locks /\ ~crashed
  /\ May("malloc") /\ lock[ty] = Nil /\ head[ty] = <<>>
  /\ pid' = IF pid = 0 THEN me ELSE pid
  /\ UNCHANGED <<faults, me, initialized, initPid, engine, dso, locks, cryptoki, crashed, functional,
                 lock, poolVars, userVars>>

\* The return of pk11_get_session: unlock the mutex it locked, which may have
\* been replaced in the meantime, with a session or NULL.
Return(u, s) ==
  /\ lock' = [lock EXCEPT ![type[u]] = IF @ = u THEN Nil ELSE @]
  /\ held' = [held EXCEPT ![u] = s]
  /\ pc' = [pc EXCEPT ![u] = IF s = Nil THEN "idle" ELSE "use"]
  /\ rest' = [rest EXCEPT ![u] = <<>>]
  /\ UNCHANGED <<type, forked>>

\* The value of the list head once sp->next has been reset: the head pointer
\* itself is only set at the end of the successful path.
Truncated(ty) == IF head[ty] = <<>> THEN <<>> ELSE <<Head(head[ty])>>

GetForkedListedBug(u) ==
  /\ pc[u] = "get" /\ forked[u]
  /\ alive' = alive \ Members(rest[u]) /\ cryptoki' = TRUE
  /\ owner' = [owner EXCEPT ![held[u]] = me]
  /\ head' = [head EXCEPT ![type[u]] = Truncated(type[u])]
  /\ pid' = me
  /\ Return(u, held[u])
  /\ UNCHANGED <<faults, me, initialized, initPid, engine, dso, locks, crashed, functional>>

\* A new process: the inherited structures but the first are freed, and the
\* first one is set up again.
GetForked(u) ==
  /\ pc[u] = "get" /\ forked[u]
  /\ LET ty == type[u]
         sp == held[u]
         freed == Members(rest[u])
         \* The error paths leave without setting the head.
         Fails(left) == /\ alive' = alive \ (freed \cup {sp})
                        /\ head' = head /\ cryptoki' = left
                        /\ Return(u, Nil)
                        /\ UNCHANGED owner
     IN \/ May("cinit") /\ Fails(cryptoki)
        \/ May("global") /\ Fails(TRUE)
        \/ May("setup") /\ Fails(TRUE)
        \/ /\ May("slots")
           /\ alive' = alive \ freed /\ cryptoki' = TRUE
           /\ head' = [head EXCEPT ![ty] = Truncated(ty)]
           /\ Return(u, sp)
           /\ UNCHANGED owner
        \/ /\ May("relogin")
           /\ alive' = alive \ freed /\ cryptoki' = TRUE
           /\ owner' = [owner EXCEPT ![sp] = me]
           /\ Return(u, Nil)
           /\ UNCHANGED head
        \/ /\ alive' = alive \ freed /\ cryptoki' = TRUE
           /\ owner' = [owner EXCEPT ![sp] = me]
           /\ head' = [head EXCEPT ![ty] = <<>>]
           /\ Return(u, sp)
  /\ pid' = me
  /\ UNCHANGED <<faults, me, initialized, initPid, engine, dso, locks, crashed, functional>>

\* A structure that was set up in this process before.
GetCached(u) ==
  /\ pc[u] = "get" /\ ~forked[u] /\ owner[held[u]] # 0
  /\ head' = [head EXCEPT ![type[u]] = rest[u]]
  /\ Return(u, held[u])
  /\ UNCHANGED <<libVars, alive, owner>>

\* pk11_setup_session() failed: free the structure and return NULL.
SetUpFails(u) ==
  /\ alive' = alive \ {held[u]}
  /\ head' = [head EXCEPT ![type[u]] = rest[u]]
  /\ Return(u, Nil)
  /\ UNCHANGED owner

\* A new structure: pk11_setup_session() opens a PKCS#11 session.
GetNew(u) ==
  /\ \/ pc[u] = "get" /\ ~forked[u] /\ owner[held[u]] = 0
     \/ pc[u] = "setup"
  /\ cryptoki
  /\ \/ /\ owner' = [owner EXCEPT ![held[u]] = me]
        /\ head' = [head EXCEPT ![type[u]] = rest[u]]
        /\ Return(u, held[u])
        /\ UNCHANGED alive
     \/ May("setup") /\ SetUpFails(u)
  /\ UNCHANGED libVars

\* CKR_CRYPTOKI_NOT_INITIALIZED: the library is initialized again, on behalf
\* of no engine, with new mutexes and empty lists.
GetReinit(u) ==
  /\ pc[u] = "get" /\ ~forked[u] /\ owner[held[u]] = 0
  /\ ~cryptoki
  /\ engine' = Nil
  /\ \/ /\ LoadWorks(FALSE, locks)
        /\ pc' = [pc EXCEPT ![u] = "setup"]
        /\ UNCHANGED <<alive, owner, type, forked, held, rest>>
     \/ /\ LoadFails(FALSE, locks)
        /\ alive' = alive \ {held[u]}
        /\ Return(u, Nil)
        /\ UNCHANGED owner
  /\ UNCHANGED <<faults, me, pid, crashed, functional>>

-----------------------------------------------------------------------------

ReturnSessionBug(u) ==
  /\ pc[u] = "use" /\ ~crashed /\ locks
  /\ lock[type[u]] = Nil
  /\ head' = [head EXCEPT ![type[u]] = <<held[u]>> \o @]
  /\ held' = [held EXCEPT ![u] = Nil]
  /\ pc' = [pc EXCEPT ![u] = "idle"]
  /\ UNCHANGED <<libVars, lock, alive, owner, type, forked, rest>>

\* pk11_return_session(): a session of another process is just forgotten.
ReturnSession(u) ==
  /\ pc[u] = "use" /\ ~crashed
  /\ LET s == held[u]  ty == type[u] IN
     IF owner[s] # me
       THEN UNCHANGED <<head, crashed>>
       ELSE IF ~locks
              THEN crashed' = TRUE /\ UNCHANGED head
              ELSE /\ lock[ty] = Nil
                   /\ head' = [head EXCEPT ![ty] = <<s>> \o @]
                   /\ UNCHANGED crashed
  /\ held' = [held EXCEPT ![u] = Nil]
  /\ pc' = [pc EXCEPT ![u] = "idle"]
  /\ UNCHANGED <<faults, me, pid, initialized, initPid, engine, dso, locks, cryptoki, functional,
                 lock, alive, owner, type, forked, rest>>

-----------------------------------------------------------------------------

Get(u) == GetForked(u) \/ GetCached(u) \/ GetNew(u) \/ GetReinit(u)

Next ==
  \/ \E e \in Engines : Bind(e) \/ LibraryInit(e) \/ Finish(e)
  \/ Fork
  \/ \E u \in Users : \/ \E ty \in Types : GetLock(u, ty) \/ GetNoMemory(u, ty)
                      \/ Get(u) \/ ReturnSession(u)

Spec == Init /\ [][Next]_vars

-----------------------------------------------------------------------------
(* Correctness. *)

\* What follows is said of the lists as long as no call fails in the middle of
\* the clean-up of pk11_finish, nor of the one after a fork: neither survives
\* that.
CleanUpWorks ==
  /\ faults \cap {"close", "locks"} = {}
  /\ me = 1 \/ faults \cap {"cinit", "slots", "global", "setup", "relogin"} = {}

\* No list head and no user refers to a structure that has been freed.
NoDangling ==
  CleanUpWorks =>
    /\ initialized => Cached \subseteq alive
    /\ \A u \in Users : held[u] # Nil => held[u] \in alive

Places(s) == {p \in Types \X (1..Cardinality(Sessions)) :
                p[2] \in DOMAIN head[p[1]] /\ head[p[1]][p[2]] = s}

\* The returned structure is disconnected from the freelist, and each session
\* has one user at most: PKCS#11 sessions cannot be shared between threads.
Exclusive ==
  CleanUpWorks =>
    /\ \A u, v \in Users : u # v /\ held[u] # Nil => held[u] # held[v]
    /\ \A u \in Users : pc[u] = "use" /\ initialized => held[u] \notin Cached
    /\ \A s \in Sessions : initialized => Cardinality(Places(s)) <= 1

\* A session that is handed out was opened by this process: every process
\* has its own freelist.
OwnHandedOut == \A u \in Users : pc[u] # "use" /\ pc'[u] = "use" => owner'[held'[u]] = me'
HandsOutOwn == [][OwnHandedOut]_vars

\* The same where every call that can fail in a clean-up works: if that one
\* does not choose the slots again, an inherited session is handed out.
CleanUpFaults == {"close", "locks", "cinit", "slots", "global", "setup", "relogin"}
OwnAfterCleanUp == faults \cap CleanUpFaults = {} => OwnHandedOut

\* Nothing is lost: while no fork has happened every structure is in a list
\* or in use, whatever fails.
NoLeak == me = 1 /\ initialized => alive \subseteq Cached \cup {held[u] : u \in Users}

\* No mutex is locked that is not there, as long as the library finds a slot
\* and can be loaded again in a child.
NoCrash ==
  faults \cap {"noslot", "locks"} = {} /\ (me = 1 \/ "load" \notin faults) => ~crashed
=============================================================================
