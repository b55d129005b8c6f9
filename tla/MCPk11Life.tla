----------------------------- MODULE MCPk11Life -----------------------------
(***************************************************************************)
(* The process-wide state of the PKCS#11 engine for TLC: a behaviour is    *)
(* one of Pk11Login or one of Pk11Sessions.  They share no variable; the   *)
(* part that is not chosen stays in its initial state.  In "onetype" the   *)
(* users of Pk11Sessions stay with one type of operations.                 *)
(***************************************************************************)
EXTENDS Pk11Login, Sequences, TLC

CONSTANTS
  Parts,                                            \* of "login", "sessions", "onetype"
  Users, OpTypes, Sessions, Engines, SessionFaults  \* for Pk11Sessions

VARIABLES
  part,
  sFaults, sMe, sPid, initialized, initPid, engine, dso, locks, cryptoki, crashed, functional,
  lock, head, alive, owner, sPc, sType, forked, held, rest

sessionVars == <<sFaults, sMe, sPid, initialized, initPid, engine, dso, locks, cryptoki, crashed,
                 functional, lock, head, alive, owner, sPc, sType, forked, held, rest>>

S == INSTANCE Pk11Sessions_proofs WITH Types <- OpTypes, FaultSets <- SessionFaults,
       faults <- sFaults, me <- sMe, pid <- sPid, pc <- sPc, type <- sType

ASSUME S!SessionsAssumption

\* All operation types have their sessions in one slot.
OneSlot == [ty \in Types |-> "meta"]

\* The login itself may fail, or everything may.
LoginFaultSets == {{"login"}, AllFaults}

\* The failures of an ordinary call, of the clean-up of pk11_finish, of the
\* one after a fork, and of an initialization; and those after which all the
\* clean-ups work.
SessionFaultSets == {{"malloc", "setup", "load"}, {"malloc", "close"},
                     {"cinit", "slots", "global", "relogin"}, {"noslot", "locks"},
                     {"malloc", "load", "noslot"}}

\* Threads of one part and sessions of the other may have the same names.
Symmetry == Permutations(Users) \cup Permutations(OpTypes) \cup Permutations(Sessions \cup Threads)

-----------------------------------------------------------------------------
LifeInit ==
  /\ part \in Parts
  /\ Init
  /\ part = "login" \/ /\ faults = {"login"} /\ used = {RSA} /\ required = FALSE
                       /\ policy = CHOOSE p \in Policies : TRUE
  /\ S!Init
  /\ part # "login" \/ /\ sFaults = CHOOSE f \in SessionFaults : TRUE
                       /\ sType = [u \in Users |-> CHOOSE ty \in OpTypes : TRUE]

\* A process that has crashed does nothing more.
LifeNext ==
  \/ part = "login" /\ Next /\ UNCHANGED <<part, sessionVars>>
  \/ part = "sessions" /\ S!Next /\ UNCHANGED <<part, vars>>
  \/ part = "onetype" /\ S!Next /\ UNCHANGED <<part, vars, sType>>
  \/ crashed /\ UNCHANGED <<part, vars, sessionVars>>

LifeSpec == LifeInit /\ [][LifeNext]_<<part, vars, sessionVars>>

-----------------------------------------------------------------------------
\* The variables of both parts keep to their types.
LifeTypeOK == TypeOK /\ S!TypeOK

\* A structure that was freed is in no list and in nobody's hands, and no
\* mutex is locked that is not there: over forks, failures, and engines that
\* are initialized and finished in any order (pk11_free_all_sessions,
\* pk11_get_session).
SessionsSafe == S!NoDangling /\ S!NoCrash

\* Every structure has one place, a list or a user, over forks too, and before
\* the first fork none is lost (pk11_get_session, pk11_return_session).
SessionsOnce == S!Exclusive /\ S!NoLeak

\* While one type of operations is used, every session that is handed out was
\* opened by this process, over forks noticed by several users, with contexts
\* that keep sessions of the parent and give them back (pk11_get_session,
\* pk11_return_session).  Calls of the clean-ups that fail are left out.
OneTypeHandsOutOwn == [][part = "onetype" => S!OwnAfterCleanUp]_<<part, sessionVars>>

\* Every session that is handed out was opened by this process: what fails with
\* two types.
HandsOutOwn == [][S!OwnHandedOut]_sessionVars
=============================================================================
