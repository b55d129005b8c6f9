------------------------------ MODULE Pk11Locks ------------------------------
(***************************************************************************)
(* The mutexes of the PKCS#11 engine in one process and the order in which *)
(* its entry points take them: find_lock and session_cache[].lock of each  *)
(* operation type, and uri_lock (engines/pkcs11 of openssl-1.0.1).         *)
(*                                                                         *)
(* A call is the sequence of its lock operations; what it does between     *)
(* them is the business of the other modules.  The mutexes are POSIX       *)
(* default mutexes: a thread that locks one twice waits for itself.        *)
(***************************************************************************)
EXTENDS Integers, Sequences, FiniteSets, SequencesExt

CONSTANTS
  Threads,
  FindTypes,     \* the types with a find lock, in the order of the fork handler
  SessionTypes,  \* the types with a session cache, in the order of PK11_OPTYPE
  Calls,         \* the names of the entry points in use, a subset of AllCalls
  MaxCalls,      \* bound on the calls of one thread
  Nil

AllCalls == {"session", "key", "destroyall", "uri", "login", "fork",
             "caching", "forked", "askpass"}

ASSUME LocksAssumption ==
  /\ Calls \subseteq AllCalls /\ MaxCalls \in Nat
  /\ FindTypes \in Seq(ToSet(FindTypes)) /\ IsInjective(FindTypes)
  /\ SessionTypes \in Seq(ToSet(SessionTypes)) /\ IsInjective(SessionTypes)
  /\ ToSet(FindTypes) \subseteq ToSet(SessionTypes)
  /\ Nil \notin Threads

Find(ty)    == <<"find", ty>>
Session(ty) == <<"session", ty>>
Uri         == <<"uri", "all">>
Mutexes == {Find(ty) : ty \in ToSet(FindTypes)} \cup {Session(ty) : ty \in ToSet(SessionTypes)}
             \cup {Uri}

Lock(m)   == [op |-> "lock", m |-> m]
Unlock(m) == [op |-> "unlock", m |-> m]
Guarded(m, inside) == <<Lock(m)>> \o inside \o <<Unlock(m)>>
ForkPoint == <<[op |-> "fork", m |-> Uri]>>

VARIABLES
  owner,  \* who holds each mutex, or Nil
  todo,   \* the rest of each thread's call
  entry,  \* the name of that call, Nil between calls
  calls   \* how many calls each thread has made

vars == <<owner, todo, entry, calls>>

-----------------------------------------------------------------------------
(* The entry points. *)

Each(types, Op(_)) == [i \in DOMAIN types |-> Op(types[i])]

PrepareBug ==
  LET LockFind(ty) == Lock(Find(ty))  LockSession(ty) == Lock(Session(ty))
  IN Each(FindTypes, LockFind) \o Each(SessionTypes, LockSession)

\* pk11_fork_prepare().
Prepare ==
  LET LockFind(ty) == Lock(Find(ty))  LockSession(ty) == Lock(Session(ty))
  IN Each(FindTypes, LockFind) \o <<Lock(Uri)>> \o Each(SessionTypes, LockSession)

ReleaseBug ==
  LET UnlockFind(ty) == Unlock(Find(ty))  UnlockSession(ty) == Unlock(Session(ty))
  IN Reverse(Each(SessionTypes, UnlockSession)) \o Reverse(Each(FindTypes, UnlockFind))

\* pk11_fork_parent(), the same as pk11_fork_child().
Release ==
  LET UnlockFind(ty) == Unlock(Find(ty))  UnlockSession(ty) == Unlock(Session(ty))
  IN Reverse(Each(SessionTypes, UnlockSession)) \o Reverse(Each(FindTypes, UnlockFind))
       \o <<Unlock(Uri)>>

Fork == Prepare \o ForkPoint \o Release

\* pk11_get_session() and pk11_return_session().
UseSession(ty) == Guarded(Session(ty), <<>>)

\* Looking for, creating and destroying the key of a session.
UseKey(ty) == Guarded(Find(ty), <<>>)

DestroyAllBug(ty) == Guarded(Session(ty), Guarded(Find(ty), <<>>))

\* pk11_destroy_rsa_key_objects(NULL) and its like: uselock is CK_FALSE.
DestroyAll(ty) == Guarded(Session(ty), <<>>)

\* pk11_check_token_attrs().
CheckToken == Guarded(Uri, <<>>)

\* pk11_token_login(), with the PIN from the terminal and then either not
\* cached or cached by pk11_cache_pin().
Login   == Guarded(Uri, <<>>) \o Guarded(Uri, <<>>)
Caching == Guarded(Uri, <<>>) \o Guarded(Uri, Guarded(Uri, <<>>))

\* pk11_get_session() in a new process: pk11_free_active_list() for a type
\* that has one, then pk11_token_relogin(), whose PIN comes from the terminal
\* or from a program that is run in a process of its own.
GetForked(ty, askPin) ==
  Guarded(Session(ty),
          (IF ty \in ToSet(FindTypes) THEN Guarded(Find(ty), <<>>) ELSE <<>>)
            \o askPin \o Guarded(Uri, <<>>))

Programs(name) ==
  CASE name = "session"    -> {UseSession(ty) : ty \in ToSet(SessionTypes)}
    [] name = "key"        -> {UseKey(ty) : ty \in ToSet(FindTypes)}
    [] name = "destroyall" -> {DestroyAll(ty) : ty \in ToSet(FindTypes)}
    [] name = "uri"        -> {CheckToken}
    [] name = "login"      -> {Login}
    [] name = "fork"       -> {Fork}
    [] name = "caching"    -> {Caching}
    [] name = "forked"     -> {GetForked(ty, Guarded(Uri, <<>>)) : ty \in ToSet(SessionTypes)}
    [] name = "askpass"    -> {GetForked(ty, Fork) : ty \in ToSet(SessionTypes)}

WaitsFor(t) ==
  IF todo[t] # <<>> /\ Head(todo[t]).op = "lock" THEN owner[Head(todo[t]).m] ELSE Nil

\* Each of the threads waits for one of them.
Circle(S) == S # {} /\ \A t \in S : WaitsFor(t) \in S

-----------------------------------------------------------------------------

Init ==
  /\ owner = [m \in Mutexes |-> Nil]
  /\ todo = [t \in Threads |-> <<>>]
  /\ entry = [t \in Threads |-> Nil]
  /\ calls = [t \in Threads |-> 0]

Call(t) ==
  /\ todo[t] = <<>> /\ calls[t] < MaxCalls
  /\ \E name \in Calls : /\ entry' = [entry EXCEPT ![t] = name]
                         /\ \E p \in Programs(name) : todo' = [todo EXCEPT ![t] = p]
  /\ calls' = [calls EXCEPT ![t] = @ + 1]
  /\ UNCHANGED owner

\* pthread_mutex_lock, pthread_mutex_unlock and fork.
Step(t) ==
  /\ todo[t] # <<>>
  /\ LET m == Head(todo[t]).m  op == Head(todo[t]).op IN
     \/ op = "lock" /\ owner[m] = Nil /\ owner' = [owner EXCEPT ![m] = t]
     \/ op = "unlock" /\ owner' = [owner EXCEPT ![m] = Nil]
     \/ op = "fork" /\ owner' = owner
  /\ todo' = [todo EXCEPT ![t] = Tail(@)]
  /\ entry' = [entry EXCEPT ![t] = IF Len(todo[t]) = 1 THEN Nil ELSE @]
  /\ UNCHANGED calls

\* All calls have been made and have ended, or threads wait for one another.
Stopped ==
  /\ \/ \A t \in Threads : todo[t] = <<>> /\ calls[t] = MaxCalls
     \/ \E S \in SUBSET Threads : Circle(S)
  /\ UNCHANGED vars

Next == Stopped \/ \E t \in Threads : Call(t) \/ Step(t)

\* A thread in a call goes on when it can; no thread has to call.
Spec == Init /\ [][Next]_vars /\ \A t \in Threads : WF_vars(Step(t))

-----------------------------------------------------------------------------
(* Correctness. *)

TypeOK ==
  /\ owner \in [Mutexes -> Threads \cup {Nil}]
  /\ entry \in [Threads -> Calls \cup {Nil}]
  /\ calls \in [Threads -> 0..MaxCalls]
  /\ \A t \in Threads : \A i \in DOMAIN todo[t] :
       todo[t][i].op \in {"lock", "unlock", "fork"} /\ todo[t][i].m \in Mutexes

\* The order of the fork handlers is not that of pk11_get_session in a new
\* process, which keeps the lock of a session cache while it takes a find lock
\* and uri_lock; and two calls lock a mutex twice: a login that caches the PIN,
\* and a get in a new process that forks to ask for the PIN.
Known(S) ==
  \/ \E t \in S : entry[t] \in {"caching", "askpass"} /\ WaitsFor(t) = t
  \/ \E t, u \in S : t # u /\ entry[t] \in {"forked", "askpass"} /\ entry[u] \in {"fork", "askpass"}

\* No other threads wait for one another, and no other waits for itself: a
\* clean-up after a fork beside everything that does not fork, fork beside
\* everything that is not such a clean-up.
NoWaitCycle == \A S \in SUBSET Threads : Circle(S) => Known(S)

\* No threads wait for one another at all.
NoCircle == \A S \in SUBSET Threads : ~Circle(S)

\* When the process forks, its thread holds every mutex of the engine: a child
\* in which nobody would ever unlock one cannot come about.
ForksAlone ==
  \A t \in Threads :
    todo[t] # <<>> /\ Head(todo[t]).op = "fork" => \A m \in Mutexes : owner[m] = t

\* Every call ends, unless threads wait in a circle.
CallsEnd ==
  \A t \in Threads :
    todo[t] # <<>> ~> (todo[t] = <<>> \/ \E S \in SUBSET Threads : Circle(S))
=============================================================================
