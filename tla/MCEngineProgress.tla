--------------------------- MODULE MCEngineProgress ---------------------------
(***************************************************************************)
(* The progress of the PKCS#11 engine's threads for TLC: a behaviour is    *)
(* one of Pk11Locks, the mutexes of all entry points, or one of Pk11Rsa,   *)
(* the RSA operations with their failures under the find lock.  The part   *)
(* that is not chosen stays in its initial state, where no call has begun. *)
(***************************************************************************)
EXTENDS Pk11Locks

CONSTANTS
  Parts,                                                    \* of "locks", "rsa"
  RsaThreads, Sessions, Rsas, Pairs, TokenPairs, SHandles, Ops, Faults  \* for Pk11Rsa

VARIABLES
  part,
  content, obj, ref, lock, state, key, ptr, num, persistent, searching, pc, op, rsa, sp, cls, h, found

rsaVars == <<content, obj, ref, lock, state, key, ptr, num, persistent, searching, pc, op, rsa, sp, cls, h, found>>

R == INSTANCE Pk11Rsa WITH Threads <- RsaThreads

\* Types with a find lock, and one that has none.
Asymmetric == <<"RSA">>
AllTypes == <<"RSA", "CIPHER">>

-----------------------------------------------------------------------------
ProgressInit == part \in Parts /\ Init /\ R!Init

ProgressNext ==
  \/ part = "locks" /\ Next /\ UNCHANGED <<part, rsaVars>>
  \/ part = "rsa" /\ R!Next /\ UNCHANGED <<part, vars>>

\* A thread in a call goes on when it can, in either part; nobody has to call.
ProgressSpec ==
  /\ ProgressInit /\ [][ProgressNext]_<<part, vars, rsaVars>>
  /\ \A t \in Threads : WF_vars(Step(t))
  /\ \A t \in RsaThreads : WF_rsaVars(R!Step(t))

-----------------------------------------------------------------------------
\* The find lock is given back, on the paths of every failing call too
\* (pk11_get_public_rsa_key, pk11_get_private_rsa_key).
LockReleased == lock # Nil ~> lock = Nil
=============================================================================
