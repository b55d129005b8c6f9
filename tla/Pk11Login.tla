------------------------------ MODULE Pk11Login ------------------------------
(***************************************************************************)
(* Login to the token of the PKCS#11 engine: pk11_token_login for keys by  *)
(* reference, pk11_get_pin, and pk11_token_relogin in a forked process,    *)
(* under uri_lock and the session mutexes (engines/pkcs11/e_pk11_uri.c of  *)
(* openssl-1.0.1).                                                         *)
(*                                                                         *)
(* One address space: a fork goes on as the child.  The PIN is not cached  *)
(* (a caching policy deadlocks, see Pk11Locks) and comes from the          *)
(* terminal.                                                               *)
(***************************************************************************)
EXTENDS Integers, FiniteSets

CONSTANTS
  Threads,
  Types,          \* the operation types
  RSA,
  SlotOf,         \* the slot of each type's sessions
  Policies,       \* the PIN caching policy: none or an invalid value
  FaultSets,      \* for each behaviour one of these sets of calls may fail
  MaxPid,         \* bound on the processes: MaxPid - 1 forks
  Nil

AllFaults == {"pin", "pindup", "login", "relogin", "dialog"}

ASSUME LoginAssumption ==
  /\ RSA \in Types
  /\ Policies \subseteq {"none", "wrong"} /\ FaultSets \subseteq SUBSET AllFaults
  /\ MaxPid \in Nat \ {0}
  /\ Nil \notin Threads

Slots == {SlotOf[ty] : ty \in Types}
KeyStore == SlotOf[RSA]

VARIABLES
  faults,    \* the calls that may fail
  used,      \* the types the application uses; RSA keys are loaded
  required,  \* CKF_LOGIN_REQUIRED of the token
  me,        \* getpid()
  pid,       \* the static variable in pk11_get_session
  policy,    \* OPENSSL_PKCS11_PIN_CACHING_POLICY of the process
  loggedIn,  \* slots this process is logged in to
  done,      \* pk11_login_done
  dialog,    \* passphrasedialog has been set
  uri,       \* owner of uri_lock
  session,   \* owner of session_cache[type].lock
  pc, type,
  askpass,   \* the thread's URI has a passphrasedialog keyword
  private,   \* the thread loads a private key
  pin,       \* the thread's copy of the PIN is in memory
  granted    \* threads whose pk11_token_login returned 1

app == <<faults, used, required>>
libVars == <<app, me, pid, policy, done, dialog>>
callVars == <<type, askpass, private>>
vars == <<libVars, loggedIn, uri, session, pc, callVars, pin, granted>>

TypeOK ==
  /\ faults \in FaultSets /\ used \subseteq Types /\ required \in BOOLEAN
  /\ me \in 1..MaxPid /\ pid \in 0..MaxPid /\ policy \in Policies
  /\ loggedIn \subseteq Slots
  /\ done \in BOOLEAN /\ dialog \in BOOLEAN
  /\ uri \in Threads \cup {Nil}
  /\ session \in [Types -> Threads \cup {Nil}]
  /\ pc \in [Threads -> {"idle", "forked", "reask", "relock", "relogin", "got",
                         "login", "ask", "lock", "clogin"}]
  /\ type \in [Threads -> Types]
  /\ askpass \in [Threads -> BOOLEAN] /\ private \in [Threads -> BOOLEAN]
  /\ pin \in [Threads -> BOOLEAN]
  /\ granted \subseteq Threads
  /\ \A t \in Threads : uri = t <=> pc[t] \in {"relogin", "clogin"}

Init ==
  /\ faults \in FaultSets
  /\ used \in {{RSA}, Types} /\ required \in BOOLEAN
  /\ me = 1 /\ pid = 0 /\ policy \in Policies
  /\ loggedIn = {} /\ done = FALSE /\ dialog = FALSE
  /\ uri = Nil /\ session = [ty \in Types |-> Nil]
  /\ pc = [t \in Threads |-> "idle"]
  /\ type = [t \in Threads |-> RSA]
  /\ askpass = [t \in Threads |-> FALSE] /\ private = [t \in Threads |-> FALSE]
  /\ pin = [t \in Threads |-> FALSE]
  /\ granted = {}

May(fault) == fault \in faults
Goto(t, label) == pc' = [pc EXCEPT ![t] = label]
NeedsLogin(t) == required \/ private[t]

-----------------------------------------------------------------------------
(* pk11_get_session(), for an operation or to load a key. *)

GetSession(t, ty, ask, priv) ==
  /\ pc[t] = "idle" /\ session[ty] = Nil
  /\ session' = [session EXCEPT ![ty] = t]
  /\ type' = [type EXCEPT ![t] = ty]
  /\ askpass' = [askpass EXCEPT ![t] = ask]
  /\ private' = [private EXCEPT ![t] = priv]
  /\ pid' = IF pid = 0 THEN me ELSE pid
  /\ granted' = granted \ {t}
  /\ Goto(t, IF pid' # me THEN "forked" ELSE "got")
  /\ UNCHANGED <<app, me, policy, loggedIn, done, dialog, uri, pin>>

ReloginIfNeededBug(t) == Goto(t, "got")

\* pk11_token_relogin() has something to do if the parent had logged in.
ReloginIfNeeded(t) == Goto(t, IF dialog THEN "reask" ELSE "got")

\* The clean-up after a fork, up to pk11_token_relogin().
Forked(t) ==
  /\ pc[t] = "forked"
  /\ pid' = me
  /\ ReloginIfNeeded(t)
  /\ UNCHANGED <<app, me, policy, done, dialog, loggedIn, uri, session, callVars, pin, granted>>

\* pk11_get_session() returns NULL.
NoSession(t) ==
  /\ session' = [session EXCEPT ![type[t]] = Nil]
  /\ Goto(t, "idle")

ReloginAsks(t) ==
  /\ pc[t] = "reask" /\ uri = Nil
  /\ \/ /\ pin' = [pin EXCEPT ![t] = TRUE]
        /\ Goto(t, "relock")
        /\ UNCHANGED session
     \/ May("pin") /\ NoSession(t) /\ UNCHANGED pin
     \/ May("pindup") /\ NoSession(t) /\ pin' = [pin EXCEPT ![t] = TRUE]
  /\ UNCHANGED <<libVars, loggedIn, uri, callVars, granted>>

LockUriBug(t) ==
  /\ uri = Nil
  /\ UNCHANGED uri

LockUri(t) ==
  /\ uri = Nil
  /\ uri' = t

ReloginLocks(t) ==
  /\ pc[t] = "relock"
  /\ LockUri(t) /\ Goto(t, "relogin")
  /\ UNCHANGED <<libVars, loggedIn, session, callVars, pin, granted>>

\* C_Login in the child, through the session that is being set up.  It fails
\* when another thread has logged in already.
Relogin(t) ==
  /\ pc[t] = "relogin"
  /\ uri' = Nil
  /\ LET slot == SlotOf[type[t]] IN
     \/ /\ slot \notin loggedIn
        /\ loggedIn' = loggedIn \cup {slot}
        /\ pin' = [pin EXCEPT ![t] = FALSE]
        /\ Goto(t, "got")
        /\ UNCHANGED session
     \/ /\ slot \in loggedIn \/ May("relogin")
        /\ NoSession(t)
        /\ UNCHANGED <<loggedIn, pin>>
  /\ UNCHANGED <<libVars, callVars, granted>>

Got(t) ==
  /\ pc[t] = "got"
  /\ session' = [session EXCEPT ![type[t]] = Nil]
  /\ Goto(t, IF type[t] = RSA THEN "login" ELSE "idle")
  /\ UNCHANGED <<libVars, loggedIn, uri, callVars, pin, granted>>

-----------------------------------------------------------------------------
(* pk11_token_login(). *)

SucceedBug(t) ==
  /\ granted' = granted \cup {t}
  /\ Goto(t, "idle")
  /\ UNCHANGED pin

\* Both ends of pk11_token_login always get rid of the PIN.
Succeed(t) ==
  /\ pin' = [pin EXCEPT ![t] = FALSE]
  /\ granted' = granted \cup {t}
  /\ Goto(t, "idle")

Fail(t) ==
  /\ pin' = [pin EXCEPT ![t] = FALSE]
  /\ Goto(t, "idle")
  /\ UNCHANGED granted

\* Is a login needed, and is it done?
Login(t) ==
  /\ pc[t] = "login"
  /\ \/ ~NeedsLogin(t) /\ Succeed(t) /\ done' = TRUE
     \/ NeedsLogin(t) /\ ~done /\ ~askpass[t] /\ Fail(t) /\ UNCHANGED done
     \/ /\ NeedsLogin(t) /\ (done \/ askpass[t])
        /\ Goto(t, IF done THEN "lock" ELSE "ask")
        /\ UNCHANGED <<done, pin, granted>>
  /\ UNCHANGED <<app, me, pid, policy, dialog, loggedIn, uri, session, callVars>>

\* pk11_get_pin(), without uri_lock.
AskPin(t) ==
  /\ pc[t] = "ask" /\ uri = Nil
  /\ \/ /\ pin' = [pin EXCEPT ![t] = TRUE]
        /\ Goto(t, "lock")
        /\ UNCHANGED granted
     \/ (May("pin") \/ May("pindup")) /\ Fail(t)
  /\ UNCHANGED <<libVars, loggedIn, uri, session, callVars>>

\* Whether the login is still to be done, under uri_lock.
StillToDoBug == TRUE
StillToDo == ~done

Lock(t) ==
  /\ pc[t] = "lock" /\ uri = Nil
  /\ IF StillToDo
       THEN LockUri(t) /\ Goto(t, "clogin") /\ UNCHANGED <<pin, granted>>
       ELSE Succeed(t) /\ UNCHANGED uri
  /\ UNCHANGED <<libVars, loggedIn, session, callVars>>

\* C_Login fails.
LoginFails(t) == Fail(t) /\ UNCHANGED <<done, loggedIn, dialog>>

\* C_Login, the dialog for possible children, and the caching policy.
CLogin(t) ==
  /\ pc[t] = "clogin"
  /\ uri' = Nil
  /\ \/ (KeyStore \in loggedIn \/ May("login")) /\ LoginFails(t)
     \/ /\ KeyStore \notin loggedIn
        /\ loggedIn' = loggedIn \cup {KeyStore}
        /\ done' = TRUE
        /\ \/ /\ dialog' = TRUE
              /\ IF policy = "wrong" THEN Fail(t) ELSE Succeed(t)
           \/ May("dialog") /\ ~dialog /\ Fail(t) /\ UNCHANGED dialog
  /\ UNCHANGED <<app, me, pid, policy, session, callVars>>

-----------------------------------------------------------------------------

\* fork() with every mutex held by the handlers; the other threads are gone,
\* and what they held in memory is nobody's.
Fork ==
  /\ me < MaxPid
  /\ uri = Nil /\ \A ty \in Types : session[ty] = Nil
  /\ me' = me + 1
  /\ loggedIn' = {}
  /\ pc' = [t \in Threads |-> "idle"]
  /\ pin' = [t \in Threads |-> FALSE]
  /\ granted' = {}
  /\ UNCHANGED <<app, pid, policy, done, dialog, uri, session, callVars>>

Call(t) ==
  \/ \E ask, priv \in BOOLEAN : GetSession(t, RSA, ask, priv)
  \/ \E ty \in used \ {RSA} : GetSession(t, ty, FALSE, FALSE)
  \/ Forked(t) \/ ReloginAsks(t) \/ ReloginLocks(t) \/ Relogin(t) \/ Got(t)
  \/ Login(t) \/ AskPin(t) \/ Lock(t) \/ CLogin(t)

Next == Fork \/ \E t \in Threads : Call(t)

Spec == Init /\ [][Next]_vars

-----------------------------------------------------------------------------
(* Correctness. *)

\* Nobody calls C_Login for a token the process is logged in to: however many
\* threads load keys, and although they all may have asked for the PIN.  In a
\* child this is so if all its sessions are of one type.
LoginOnce ==
  \A t \in Threads :
    /\ pc[t] = "clogin" => KeyStore \notin loggedIn
    /\ pc[t] = "relogin" /\ used = {RSA} => SlotOf[type[t]] \notin loggedIn

\* When pk11_token_login succeeds for a token that requires a login, this
\* process is logged in to the key store; a forked one too, when its login did
\* not fail.
KeyAccess ==
  required /\ (me = 1 \/ (used = {RSA} /\ faults \cap {"pin", "pindup", "relogin", "dialog"} = {}))
    => (granted # {} => KeyStore \in loggedIn)

\* No copy of the PIN stays in memory after the call that asked for it, unless
\* it was for a child that could not log in.
PinErased ==
  me = 1 \/ (used = {RSA} /\ faults \cap {"pindup", "relogin"} = {}) =>
    \A t \in Threads : pc[t] = "idle" => ~pin[t]
=============================================================================
