--------------------------- MODULE Pk11Life_proofs ---------------------------
(***************************************************************************)
(* Theorems about Pk11Login, for every value of its constants: the safety  *)
(* of the login, from the inductive invariant LoginInv.  With those of     *)
(* Pk11Sessions_proofs they give what MCPk11Life says of the two together. *)
(***************************************************************************)
EXTENDS MCPk11Life, TLAPS

\* Steps of a call that detected a fork and may log in again.
Pending == {"forked", "reask", "relock", "relogin"}

\* While it sets up a session a thread holds the mutex of the session's type.
Holds ==
  \A t \in Threads : pc[t] \in Pending \cup {"got"} => session[type[t]] = t

\* The processes are numbered, and pid is the one that got a session last.
Numbered ==
  /\ pid \leq me
  /\ pid = 0 => ~done /\ \A t \in Threads : pc[t] = "idle"
  /\ me = 1 => \A t \in Threads : pc[t] \notin Pending

\* Nobody logs in, and nobody remembers a dialog, before a login is done.
DoneFirst ==
  /\ loggedIn # {} => done
  /\ dialog => done
  /\ \A t \in Threads : /\ pc[t] \in {"reask", "relock", "relogin"} => dialog
                        /\ pc[t] = "clogin" => loggedIn = {}

\* If all sessions are of one type, the thread that detects a fork is alone
\* until it has logged in again.
OneType ==
  used = {RSA} =>
    /\ \A t \in Threads : type[t] = RSA
    /\ \A t \in Threads : pc[t] \in Pending =>
         loggedIn = {} /\ \A u \in Threads \ {t} : pc[u] = "idle"
    /\ pid \notin {0, me} =>
         loggedIn = {} /\ \A t \in Threads : pc[t] \in {"idle", "forked"}

\* A login that is done has reached the key store, in the first process and,
\* once nobody has to log in again, in a child.
Reached ==
  required =>
    /\ me = 1 => (done \/ granted # {} => KeyStore \in loggedIn)
    /\ used = {RSA} /\ faults \cap {"pin", "pindup", "relogin", "dialog"} = {} =>
         /\ done => dialog
         /\ done /\ pid = me /\ (\A t \in Threads : pc[t] \notin Pending) => KeyStore \in loggedIn
         /\ granted # {} => KeyStore \in loggedIn

\* A thread has a copy of the PIN only between asking for it and logging in.
PinHeld ==
  me = 1 \/ (used = {RSA} /\ faults \cap {"pindup", "relogin"} = {}) =>
    \A t \in Threads : pc[t] \in {"idle", "forked", "reask", "got", "login", "ask"} => ~pin[t]

LoginInv ==
  TypeOK /\ Holds /\ Numbered /\ DoneFirst /\ OneType /\ Reached /\ PinHeld

\* What a thread may do next; a session that is not for an RSA key is of a type
\* the application uses.
LEMMA CallCases ==
  ASSUME TypeOK, NEW t \in Threads, Call(t)
  PROVE  \/ \E ty \in Types, ask, priv \in BOOLEAN :
              GetSession(t, ty, ask, priv) /\ ty \in used \cup {RSA}
         \/ Forked(t) \/ ReloginAsks(t) \/ ReloginLocks(t) \/ Relogin(t) \/ Got(t)
         \/ Login(t) \/ AskPin(t) \/ Lock(t) \/ CLogin(t)
BY LoginAssumption DEF Call, TypeOK

\* A step of a call keeps the types, and uri_lock with its owner.
LEMMA TypeStep ==
  ASSUME TypeOK, NEW t \in Threads, Call(t)
  PROVE  TypeOK'
<1> USE LoginAssumption DEF TypeOK, Slots, KeyStore
<1>1. ASSUME NEW ty \in Types, NEW ask \in BOOLEAN, NEW priv \in BOOLEAN, GetSession(t, ty, ask, priv),
           ty \in used \cup {RSA}
     PROVE  TypeOK'
  BY <1>1 DEF GetSession, Goto, app
<1>2. CASE Forked(t)
  BY <1>2 DEF Forked, Goto, ReloginIfNeeded, app, callVars
<1>3. CASE ReloginAsks(t)
  BY <1>3, ZenonT(30) DEF ReloginAsks, Goto, NoSession, May, app, libVars, callVars
<1>4. CASE ReloginLocks(t)
  BY <1>4 DEF ReloginLocks, Goto, LockUri, app, libVars, callVars
<1>5. CASE Relogin(t)
  <2>1. uri' = Nil /\ \E step \in {"idle", "got"} : pc' = [pc EXCEPT ![t] = step]
    BY <1>5 DEF Relogin, Goto, NoSession
  <2>2. /\ loggedIn' \subseteq loggedIn \cup {SlotOf[type[t]]}
        /\ session' \in [Types -> Threads \cup {Nil}]
        /\ pin' \in [Threads -> BOOLEAN]
    <3>1. CASE UNCHANGED <<loggedIn, pin>> /\ NoSession(t)
      BY <3>1 DEF NoSession
    <3>2. CASE /\ loggedIn' = loggedIn \cup {SlotOf[type[t]]} /\ UNCHANGED session
               /\ pin' = [pin EXCEPT ![t] = FALSE]
      BY <3>2
    <3>3. QED BY <1>5, <3>1, <3>2 DEF Relogin
  <2>3. UNCHANGED <<libVars, callVars, granted>> /\ uri = t
    BY <1>5 DEF Relogin
  <2>4. loggedIn' \subseteq Slots
    <3>1. type[t] \in Types
      OBVIOUS
    <3>2. SlotOf[type[t]] \in Slots
      BY <3>1
    <3>3. QED BY <2>2, <3>2
  <2>5. \A u \in Threads : uri' = u <=> pc'[u] \in {"relogin", "clogin"}
    BY <2>1, <2>3
  <2>6. pc' \in [Threads -> {"idle", "forked", "reask", "relock", "relogin", "got",
                            "login", "ask", "lock", "clogin"}]
    BY <2>1
  <2> HIDE DEF Slots
  <2>7. QED
    BY <2>1, <2>2, <2>3, <2>4, <2>5, <2>6 DEF app, libVars, callVars
<1>6. CASE Got(t)
  BY <1>6 DEF Got, Goto, app, libVars, callVars
<1>7. CASE Login(t)
  <2>1. \E step \in {"idle", "lock", "ask"} : pc' = [pc EXCEPT ![t] = step]
    BY <1>7 DEF Login, Goto, Succeed, Fail
  <2>2. /\ done' \in BOOLEAN
        /\ pin' \in [Threads -> BOOLEAN]
        /\ granted' \subseteq Threads
    BY <1>7 DEF Login, Succeed, Fail
  <2>3. /\ UNCHANGED <<app, me, pid, policy, dialog, loggedIn, uri, session, callVars>>
        /\ pc[t] = "login"
    BY <1>7 DEF Login
  <2>4. \A u \in Threads : uri' = u <=> pc'[u] \in {"relogin", "clogin"}
    BY <2>1, <2>3
  <2>5. pc' \in [Threads -> {"idle", "forked", "reask", "relock", "relogin", "got",
                            "login", "ask", "lock", "clogin"}]
    BY <2>1
  <2>6. QED
    BY <2>2, <2>3, <2>4, <2>5 DEF app, callVars
<1>8. CASE AskPin(t)
  BY <1>8, ZenonT(30) DEF AskPin, Goto, Fail, May, app, libVars, callVars
<1>9. CASE Lock(t)
  <2>1. \/ uri' = t /\ pc' = [pc EXCEPT ![t] = "clogin"]
        \/ uri' = uri /\ pc' = [pc EXCEPT ![t] = "idle"]
    BY <1>9 DEF Lock, Goto, LockUri, Succeed
  <2>2. /\ pin' \in [Threads -> BOOLEAN]
        /\ granted' \subseteq Threads
    BY <1>9 DEF Lock, Succeed
  <2>3. UNCHANGED <<libVars, loggedIn, session, callVars>> /\ pc[t] = "lock" /\ uri = Nil
    BY <1>9 DEF Lock
  <2>4. QED
    BY <2>1, <2>2, <2>3 DEF app, libVars, callVars
<1>10. CASE CLogin(t)
  <2>1. uri' = Nil /\ pc' = [pc EXCEPT ![t] = "idle"]
    BY <1>10 DEF CLogin, Goto, LoginFails, Succeed, Fail
  <2>2. /\ loggedIn' \subseteq loggedIn \cup {KeyStore}
        /\ done' \in BOOLEAN /\ dialog' \in BOOLEAN
        /\ pin' \in [Threads -> BOOLEAN]
        /\ granted' \subseteq Threads
    <3>1. CASE LoginFails(t)
      BY <3>1 DEF LoginFails, Fail
    <3>2. CASE /\ loggedIn' = loggedIn \cup {KeyStore} /\ done' = TRUE
               /\ dialog' = TRUE \/ UNCHANGED dialog
               /\ Fail(t) \/ Succeed(t)
      BY <3>2 DEF Succeed, Fail
    <3>3. QED BY <1>10, <3>1, <3>2 DEF CLogin
  <2>3. UNCHANGED <<app, me, pid, policy, session, callVars>> /\ uri = t
    BY <1>10 DEF CLogin
  <2>4. QED
    BY <2>1, <2>2, <2>3, ZenonT(30) DEF app, callVars
<1> HIDE DEF TypeOK, Slots, KeyStore
<1>11. QED
  BY CallCases, <1>1, <1>2, <1>3, <1>4, <1>5, <1>6, <1>7, <1>8, <1>9, <1>10

\* Only the holder gives up the mutex of a session.
LEMMA HoldsStep ==
  ASSUME TypeOK, Holds, NEW t \in Threads, Call(t)
  PROVE  Holds'
<1> USE LoginAssumption DEF TypeOK, Holds, Pending
<1>1. ASSUME NEW ty \in Types, NEW ask \in BOOLEAN, NEW priv \in BOOLEAN, GetSession(t, ty, ask, priv),
           ty \in used \cup {RSA}
     PROVE  Holds'
  BY <1>1 DEF GetSession, Goto, app
<1>2. CASE Forked(t)
  BY <1>2 DEF Forked, Goto, ReloginIfNeeded, app, callVars
<1>3. CASE ReloginAsks(t)
  BY <1>3 DEF ReloginAsks, Goto, NoSession, May, app, libVars, callVars
<1>4. CASE ReloginLocks(t)
  BY <1>4 DEF ReloginLocks, Goto, LockUri, app, libVars, callVars
<1>5. CASE Relogin(t)
  BY <1>5 DEF Relogin, Goto, NoSession, May, app, libVars, callVars
<1>6. CASE Got(t)
  BY <1>6 DEF Got, Goto, app, libVars, callVars
<1>7. CASE Login(t)
  BY <1>7 DEF Login, Goto, Succeed, Fail, app, callVars
<1>8. CASE AskPin(t)
  BY <1>8 DEF AskPin, Goto, Fail, May, app, libVars, callVars
<1>9. CASE Lock(t)
  BY <1>9 DEF Lock, Goto, StillToDo, LockUri, Succeed, app, libVars, callVars
<1>10. CASE CLogin(t)
  BY <1>10 DEF CLogin, Goto, LoginFails, Succeed, Fail, May, app, callVars
<1> HIDE DEF TypeOK, Holds, Pending
<1>11. QED
  BY CallCases, <1>1, <1>2, <1>3, <1>4, <1>5, <1>6, <1>7, <1>8, <1>9, <1>10

\* The first process never detects a fork.
LEMMA NumberedStep ==
  ASSUME TypeOK, Numbered, NEW t \in Threads, Call(t)
  PROVE  Numbered'
<1> USE LoginAssumption DEF TypeOK, Numbered, Pending
<1>1. ASSUME NEW ty \in Types, NEW ask \in BOOLEAN, NEW priv \in BOOLEAN, GetSession(t, ty, ask, priv),
           ty \in used \cup {RSA}
     PROVE  Numbered'
  BY <1>1 DEF GetSession, Goto, app
<1>2. CASE Forked(t)
  BY <1>2 DEF Forked, Goto, ReloginIfNeeded, app, callVars
<1>3. CASE ReloginAsks(t)
  BY <1>3 DEF ReloginAsks, Goto, NoSession, May, app, libVars, callVars
<1>4. CASE ReloginLocks(t)
  BY <1>4 DEF ReloginLocks, Goto, LockUri, app, libVars, callVars
<1>5. CASE Relogin(t)
  BY <1>5 DEF Relogin, Goto, NoSession, May, app, libVars, callVars
<1>6. CASE Got(t)
  BY <1>6 DEF Got, Goto, app, libVars, callVars
<1>7. CASE Login(t)
  BY <1>7 DEF Login, Goto, Succeed, Fail, app, callVars
<1>8. CASE AskPin(t)
  BY <1>8 DEF AskPin, Goto, Fail, May, app, libVars, callVars
<1>9. CASE Lock(t)
  BY <1>9 DEF Lock, Goto, StillToDo, LockUri, Succeed, app, libVars, callVars
<1>10. CASE CLogin(t)
  BY <1>10 DEF CLogin, Goto, LoginFails, Succeed, Fail, May, app, callVars
<1> HIDE DEF TypeOK, Numbered, Pending
<1>11. QED
  BY CallCases, <1>1, <1>2, <1>3, <1>4, <1>5, <1>6, <1>7, <1>8, <1>9, <1>10

\* Logins and the dialog follow the flag.
LEMMA DoneFirstStep ==
  ASSUME TypeOK, DoneFirst, NEW t \in Threads, Call(t)
  PROVE  DoneFirst'
<1> USE LoginAssumption DEF TypeOK, DoneFirst
<1>1. ASSUME NEW ty \in Types, NEW ask \in BOOLEAN, NEW priv \in BOOLEAN, GetSession(t, ty, ask, priv),
           ty \in used \cup {RSA}
     PROVE  DoneFirst'
  BY <1>1 DEF GetSession, Goto, app
<1>2. CASE Forked(t)
  BY <1>2 DEF Forked, Goto, ReloginIfNeeded, app, callVars
<1>3. CASE ReloginAsks(t)
  BY <1>3 DEF ReloginAsks, Goto, NoSession, May, app, libVars, callVars
<1>4. CASE ReloginLocks(t)
  BY <1>4 DEF ReloginLocks, Goto, LockUri, app, libVars, callVars
<1>5. CASE Relogin(t)
  BY <1>5 DEF Relogin, Goto, NoSession, May, app, libVars, callVars
<1>6. CASE Got(t)
  BY <1>6 DEF Got, Goto, app, libVars, callVars
<1>7. CASE Login(t)
  BY <1>7 DEF Login, Goto, Succeed, Fail, app, callVars
<1>8. CASE AskPin(t)
  BY <1>8 DEF AskPin, Goto, Fail, May, app, libVars, callVars
<1>9. CASE Lock(t)
  BY <1>9 DEF Lock, Goto, StillToDo, LockUri, Succeed, app, libVars, callVars
<1>10. CASE CLogin(t)
  BY <1>10 DEF CLogin, Goto, LoginFails, Succeed, Fail, May, app, callVars
<1> HIDE DEF TypeOK, DoneFirst
<1>11. QED
  BY CallCases, <1>1, <1>2, <1>3, <1>4, <1>5, <1>6, <1>7, <1>8, <1>9, <1>10

\* With one type of sessions nobody overtakes the thread that detected a fork.
LEMMA OneTypeStep ==
  ASSUME TypeOK, Holds, DoneFirst, OneType, NEW t \in Threads, Call(t)
  PROVE  OneType'
<1> USE LoginAssumption DEF TypeOK, Holds, DoneFirst, OneType, Pending
<1>1. ASSUME NEW ty \in Types, NEW ask \in BOOLEAN, NEW priv \in BOOLEAN, GetSession(t, ty, ask, priv),
           ty \in used \cup {RSA}
     PROVE  OneType'
  BY <1>1 DEF GetSession, Goto, app
<1>2. CASE Forked(t)
  BY <1>2 DEF Forked, Goto, ReloginIfNeeded, app, callVars
<1>3. CASE ReloginAsks(t)
  BY <1>3 DEF ReloginAsks, Goto, NoSession, May, app, libVars, callVars
<1>4. CASE ReloginLocks(t)
  BY <1>4 DEF ReloginLocks, Goto, LockUri, app, libVars, callVars
<1>5. CASE Relogin(t)
  BY <1>5 DEF Relogin, Goto, NoSession, May, app, libVars, callVars
<1>6. CASE Got(t)
  BY <1>6 DEF Got, Goto, app, libVars, callVars
<1>7. CASE Login(t)
  BY <1>7 DEF Login, Goto, Succeed, Fail, app, callVars
<1>8. CASE AskPin(t)
  BY <1>8 DEF AskPin, Goto, Fail, May, app, libVars, callVars
<1>9. CASE Lock(t)
  BY <1>9 DEF Lock, Goto, StillToDo, LockUri, Succeed, app, libVars, callVars
<1>10. CASE CLogin(t)
  BY <1>10 DEF CLogin, Goto, LoginFails, Succeed, Fail, May, app, callVars
<1> HIDE DEF TypeOK, Holds, DoneFirst, OneType, Pending
<1>11. QED
  BY CallCases, <1>1, <1>2, <1>3, <1>4, <1>5, <1>6, <1>7, <1>8, <1>9, <1>10

\* A call only succeeds when the key store has been reached.
LEMMA ReachedStep ==
  ASSUME TypeOK, Numbered, DoneFirst, OneType, Reached, NEW t \in Threads, Call(t)
  PROVE  Reached'
<1> USE LoginAssumption DEF TypeOK, Numbered, DoneFirst, OneType, Reached, Pending, KeyStore
<1>1. ASSUME NEW ty \in Types, NEW ask \in BOOLEAN, NEW priv \in BOOLEAN, GetSession(t, ty, ask, priv),
           ty \in used \cup {RSA}
     PROVE  Reached'
  BY <1>1 DEF GetSession, Goto, app
<1>2. CASE Forked(t)
  BY <1>2 DEF Forked, Goto, ReloginIfNeeded, app, callVars
<1>3. CASE ReloginAsks(t)
  BY <1>3 DEF ReloginAsks, Goto, NoSession, May, app, libVars, callVars
<1>4. CASE ReloginLocks(t)
  BY <1>4 DEF ReloginLocks, Goto, LockUri, app, libVars, callVars
<1>5. CASE Relogin(t)
  BY <1>5 DEF Relogin, Goto, NoSession, May, app, libVars, callVars
<1>6. CASE Got(t)
  BY <1>6 DEF Got, Goto, app, libVars, callVars
<1>7. CASE Login(t)
  <2>1. /\ UNCHANGED <<faults, used, required, me, pid, dialog, loggedIn>>
        /\ pc[t] = "login"
        /\ \E step \in {"idle", "lock", "ask"} : pc' = [pc EXCEPT ![t] = step]
    BY <1>7 DEF Login, Goto, Succeed, Fail, app
  <2>2. required => done' = done /\ granted' \subseteq granted
    BY <1>7 DEF Login, NeedsLogin, Fail
  <2>3. \A u \in Threads : pc'[u] \in Pending <=> pc[u] \in Pending
    BY <2>1
  <2>4. QED
    BY <2>1, <2>2, <2>3
<1>8. CASE AskPin(t)
  BY <1>8 DEF AskPin, Goto, Fail, May, app, libVars, callVars
<1>9. CASE Lock(t)
  <2>1. UNCHANGED <<libVars, loggedIn>> /\ pc[t] = "lock"
    BY <1>9 DEF Lock
  <2>2. /\ \E step \in {"idle", "clogin"} : pc' = [pc EXCEPT ![t] = step]
        /\ granted' \subseteq granted \/ done
    BY <1>9 DEF Lock, Goto, Succeed, StillToDo
  <2>3. used = {RSA} => pid = me /\ \A u \in Threads : pc[u] \notin Pending
    BY <2>1
  <2>4. QED
    BY <2>1, <2>2, <2>3 DEF libVars, app
<1>10. CASE CLogin(t)
  BY <1>10 DEF CLogin, Goto, LoginFails, Succeed, Fail, May, app, callVars
<1> HIDE DEF TypeOK, Numbered, DoneFirst, OneType, Reached, Pending, KeyStore
<1>11. QED
  BY CallCases, <1>1, <1>2, <1>3, <1>4, <1>5, <1>6, <1>7, <1>8, <1>9, <1>10

\* The PIN is erased at the ends of a call.
LEMMA PinHeldStep ==
  ASSUME TypeOK, Numbered, OneType, PinHeld, NEW t \in Threads, Call(t)
  PROVE  PinHeld'
<1> USE LoginAssumption DEF TypeOK, Numbered, OneType, PinHeld, Pending
<1>1. ASSUME NEW ty \in Types, NEW ask \in BOOLEAN, NEW priv \in BOOLEAN, GetSession(t, ty, ask, priv),
           ty \in used \cup {RSA}
     PROVE  PinHeld'
  BY <1>1 DEF GetSession, Goto, app
<1>2. CASE Forked(t)
  BY <1>2 DEF Forked, Goto, ReloginIfNeeded, app, callVars
<1>3. CASE ReloginAsks(t)
  BY <1>3 DEF ReloginAsks, Goto, NoSession, May, app, libVars, callVars
<1>4. CASE ReloginLocks(t)
  BY <1>4 DEF ReloginLocks, Goto, LockUri, app, libVars, callVars
<1>5. CASE Relogin(t)
  BY <1>5 DEF Relogin, Goto, NoSession, May, app, libVars, callVars
<1>6. CASE Got(t)
  BY <1>6 DEF Got, Goto, app, libVars, callVars
<1>7. CASE Login(t)
  BY <1>7 DEF Login, Goto, Succeed, Fail, app, callVars
<1>8. CASE AskPin(t)
  BY <1>8 DEF AskPin, Goto, Fail, May, app, libVars, callVars
<1>9. CASE Lock(t)
  BY <1>9 DEF Lock, Goto, StillToDo, LockUri, Succeed, app, libVars, callVars
<1>10. CASE CLogin(t)
  BY <1>10 DEF CLogin, Goto, LoginFails, Succeed, Fail, May, app, callVars
<1> HIDE DEF TypeOK, Numbered, OneType, PinHeld, Pending
<1>11. QED
  BY CallCases, <1>1, <1>2, <1>3, <1>4, <1>5, <1>6, <1>7, <1>8, <1>9, <1>10

\* A child inherits the flags of a login, not the login, its threads or a PIN.
LEMMA ForkInv ==
  ASSUME LoginInv, Fork
  PROVE  LoginInv'
<1> USE LoginAssumption DEF Fork, LoginInv
<1>1. TypeOK'
  BY DEF TypeOK, app, callVars
<1>2. Holds' /\ Numbered' /\ DoneFirst'
  BY DEF TypeOK, Holds, Numbered, DoneFirst, Pending
<1>3. OneType' /\ Reached' /\ PinHeld'
  BY DEF TypeOK, Numbered, OneType, Reached, PinHeld, Pending, app, callVars
<1>4. QED BY <1>1, <1>2, <1>3

LEMMA LoginInvInductive == LoginInv /\ [Next]_vars => LoginInv'
<1> SUFFICES ASSUME LoginInv, [Next]_vars PROVE LoginInv'
  OBVIOUS
<1>1. ASSUME NEW t \in Threads, Call(t) PROVE LoginInv'
  BY <1>1, TypeStep, HoldsStep, NumberedStep, DoneFirstStep, OneTypeStep, ReachedStep, PinHeldStep
     DEF LoginInv
<1>2. CASE Fork
  BY <1>2, ForkInv
<1>3. CASE UNCHANGED vars
  BY <1>3 DEF vars, app, libVars, callVars, LoginInv, TypeOK, Holds, Numbered, DoneFirst,
              OneType, Reached, PinHeld
<1>4. QED BY <1>1, <1>2, <1>3 DEF Next

LEMMA LoginInvInitially == Init => LoginInv
<1> SUFFICES ASSUME Init PROVE LoginInv
  OBVIOUS
<1> USE LoginAssumption DEF Init
<1>1. /\ me = 1 /\ pid = 0 /\ done = FALSE /\ dialog = FALSE /\ loggedIn = {} /\ granted = {}
      /\ \A t \in Threads : pc[t] = "idle" /\ type[t] = RSA /\ pin[t] = FALSE
  OBVIOUS
<1>2. TypeOK
  <2>1. \A t \in Threads : uri = t <=> pc[t] \in {"relogin", "clogin"}
    BY <1>1
  <2>2. me \in 1..MaxPid /\ pid \in 0..MaxPid
    BY <1>1
  <2>3. used \subseteq Types /\ granted \subseteq Threads /\ loggedIn \subseteq Slots
    BY <1>1
  <2>4. /\ pc \in [Threads -> {"idle"}] /\ type \in [Threads -> Types]
        /\ session \in [Types -> {Nil}]
    OBVIOUS
  <2>5. /\ pin \in [Threads -> BOOLEAN] /\ askpass \in [Threads -> BOOLEAN]
        /\ private \in [Threads -> BOOLEAN]
    OBVIOUS
  <2>6. required \in BOOLEAN /\ done \in BOOLEAN /\ dialog \in BOOLEAN
    OBVIOUS
  <2> HIDE DEF Init
  <2>7. pc \in [Threads -> {"idle", "forked", "reask", "relock", "relogin", "got",
                           "login", "ask", "lock", "clogin"}]
    BY <2>4
  <2>8. session \in [Types -> Threads \cup {Nil}]
    BY <2>4
  <2>9. QED BY <2>1, <2>2, <2>3, <2>4, <2>5, <2>6, <2>7, <2>8 DEF TypeOK, Init
<1>3. Holds /\ Numbered /\ DoneFirst /\ OneType /\ Reached /\ PinHeld
  BY <1>1 DEF Holds, Numbered, DoneFirst, OneType, Reached, PinHeld, Pending
<1>4. QED BY <1>2, <1>3 DEF LoginInv

\* Every reachable state is well typed, and uri_lock is held exactly around
\* the two calls of C_Login.
THEOREM LoginTypeCorrect == Spec => []TypeOK
<1>1. LoginInv => TypeOK
  BY DEF LoginInv
<1>2. QED BY <1>1, LoginInvInitially, LoginInvInductive, PTL DEF Spec

\* However many threads load keys, C_Login is called for a token this process
\* is not logged in to; in a child too if all sessions are of one type.
THEOREM LoginHappensOnce == Spec => []LoginOnce
<1>1. LoginInv => LoginOnce
  BY DEF LoginInv, LoginOnce, DoneFirst, OneType, Pending, TypeOK
<1>2. QED BY <1>1, LoginInvInitially, LoginInvInductive, PTL DEF Spec

\* A call of pk11_token_login that succeeds for a token that requires a login
\* leaves the process logged in to the key store.
THEOREM LoginGivesAccess == Spec => []KeyAccess
<1>1. LoginInv => KeyAccess
  BY DEF LoginInv, KeyAccess, Reached
<1>2. QED BY <1>1, LoginInvInitially, LoginInvInductive, PTL DEF Spec

\* No thread that has left the library has a copy of the PIN in memory.
THEOREM LoginErasesPin == Spec => []PinErased
<1>1. LoginInv => PinErased
  BY DEF LoginInv, PinErased, PinHeld
<1>2. QED BY <1>1, LoginInvInitially, LoginInvInductive, PTL DEF Spec

-----------------------------------------------------------------------------
(* Both parts. *)

\* A behaviour of the two together is one of each.
LEMMA LifeIsBoth == LifeSpec => Spec /\ S!Spec
<1>1. LifeInit => Init /\ S!Init
  BY DEF LifeInit
<1>2. [LifeNext]_<<part, vars, sessionVars>> => [Next]_vars /\ [S!Next]_S!vars
  BY DEF LifeNext, vars, libVars, app, callVars, sessionVars, S!vars, S!libVars, S!poolVars, S!userVars
<1>3. QED BY <1>1, <1>2, PTL DEF LifeSpec, Spec, S!Spec

\* The type invariants of pk11_token_login and of pk11_get_session with
\* everything around them.
THEOREM LifeTypeCorrect ==
  ASSUME S!SessionsAssumption
  PROVE  LifeSpec => []LifeTypeOK
BY LifeIsBoth, LoginTypeCorrect, S!SessionsTypeCorrect, PTL DEF LifeTypeOK

\* Freed structures are out of reach and the mutexes are there, over forks,
\* failures, and engines that come and go (pk11_free_all_sessions, pk11_get_session).
THEOREM SessionsStaySafe ==
  ASSUME S!SessionsAssumption
  PROVE  LifeSpec => []SessionsSafe
BY LifeIsBoth, S!NothingDangles, S!MutexesAreThere, PTL DEF SessionsSafe

\* Every structure has one place and none is lost (pk11_get_session,
\* pk11_return_session).
THEOREM SessionsStayOnce ==
  ASSUME S!SessionsAssumption
  PROVE  LifeSpec => []SessionsOnce
BY LifeIsBoth, S!SessionsAreExclusive, S!SessionsAreNotLost, PTL DEF SessionsOnce

\* While one type of operations is used, every session that is handed out was
\* opened by the process that gets it, over any number of forks
\* (pk11_get_session, pk11_return_session).
THEOREM OneTypeOwn ==
  ASSUME S!SessionsAssumption
  PROVE  LifeSpec => OneTypeHandsOutOwn
<1> DEFINE one == part = "onetype"
<1>1. [LifeNext]_<<part, vars, sessionVars>> => (one <=> one')
  BY DEF LifeNext
<1>2. one /\ [LifeNext]_<<part, vars, sessionVars>> => [sType' = sType]_S!vars
  BY DEF LifeNext, sessionVars
<1>3. ~one => [one => S!OwnAfterCleanUp]_<<part, sessionVars>>
  OBVIOUS
<1>4. [S!OwnAfterCleanUp]_S!vars => [one => S!OwnAfterCleanUp]_<<part, sessionVars>>
  BY DEF S!OwnAfterCleanUp, S!OwnHandedOut, S!vars, S!userVars
<1>5. QED BY <1>1, <1>2, <1>3, <1>4, LifeIsBoth, S!OneTypeHandsOutOwn, PTL DEF OneTypeHandsOutOwn, LifeSpec
=============================================================================
