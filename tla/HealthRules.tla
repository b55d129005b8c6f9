----------------------------- MODULE HealthRules -----------------------------
(***************************************************************************)
(* The alarm rules of the SNMP agent's health monitor (healthMonitor.c).   *)
(* Every refresh reads the values of a rule, finds its level and tells the *)
(* manager by a trap when an alarm opens, worsens or closes.  The rules    *)
(* share nothing but the readings, so a behaviour follows one of them.     *)
(***************************************************************************)
EXTENDS Integers, Sequences

CONSTANTS
  T,         \* the thresholds of health_monitor.conf, by name
  Readings   \* for each rule the tuples its refresh may read

VARIABLES
  rule,      \* the rule that is followed
  state,     \* its <X>_rule_state
  new, prev, \* new_<X>_state and prev_<X>_state
  first,     \* firsttime of refresh_DNLC_data
  told,      \* the level in the last trap
  closed     \* a trap has closed an alarm

vars == <<rule, state, new, prev, first, told, closed>>

RuleNames == {"SWAP", "Kernel", "NFS", "CPU", "RAM", "DNLC"}
OK == 0
INFO == 1
WARNING == 2
ERROR == 3

-----------------------------------------------------------------------------
(* What rule(CONDITION) finds in a reading r. *)

SWAP_rule(r) ==  \* <<available>>, 0 when swapctl failed
  IF r[1] <= T.swap_error THEN ERROR
    ELSE IF r[1] > T.swap_error /\ r[1] <= T.swap_warning THEN WARNING
    ELSE IF r[1] > T.swap_warning /\ r[1] <= T.swap_info THEN INFO
    ELSE OK

Kernel_rule(r) ==  \* <<mutex enters, ncpus>>
  LET rate == r[1] \div r[2]
  IN IF r[2] = 0 \/ rate = 0 THEN OK
       ELSE IF rate < T.mutex_info THEN INFO
       ELSE IF rate < T.mutex_warning THEN WARNING
       ELSE ERROR

NFS_rule(r) ==  \* <<calls, timeouts, bad transaction ids>>
  IF r[1] <= T.mincalls \/ 100 * r[2] < T.timeouts * r[1] THEN OK
    ELSE IF 100 * r[3] <= T.badxids * r[2] THEN WARNING
    ELSE ERROR

CPU_rule(r) ==  \* <<run queue, ncpus>>: an integer division
  LET load == r[1] \div r[2]
  IN IF r[2] = 0 \/ load < T.cpuload_info THEN OK
       ELSE IF load < T.cpuload_warning THEN INFO
       ELSE IF load < T.cpuload_error THEN WARNING
       ELSE ERROR

RAM_rule(r) ==  \* <<handspread, scan rate>>
  LET time == r[1] \div r[2]
  IN IF r[2] = 0 \/ time >= T.restime_long THEN OK
       ELSE IF time > T.restime_ok THEN INFO
       ELSE IF time > T.restime_error THEN WARNING
       ELSE ERROR

DNLC_rule(r) ==  \* <<new hits, new misses, seconds>>, none the first time
  LET refs == r[1] + r[2]
  IN IF first \/ refs = 0 \/ refs \div r[3] < T.dnlc_active \/ (100 * r[1]) \div refs > T.dnlc_warning
     THEN OK ELSE WARNING

Condition(r) ==
  CASE rule = "SWAP" -> SWAP_rule(r) [] rule = "Kernel" -> Kernel_rule(r)
    [] rule = "NFS"  -> NFS_rule(r)  [] rule = "CPU"    -> CPU_rule(r)
    [] rule = "RAM"  -> RAM_rule(r)  [] rule = "DNLC"   -> DNLC_rule(r)

-----------------------------------------------------------------------------
(* hm_handle_rule and the calls of the rule it makes. *)

Quiet ==  \* INIT or CLOSE, and all is well
  /\ state \in {"NOTINIT", "INIT", "CLOSE"} /\ new' = OK
  /\ state' = IF state = "NOTINIT" THEN "INIT" ELSE state
  /\ UNCHANGED <<prev, told, closed>>

Open ==
  /\ state \in {"NOTINIT", "INIT", "CLOSE"} /\ new' > OK
  /\ state' = "OPEN" /\ told' = new'
  /\ UNCHANGED <<prev, closed>>

ContinueBug ==
  /\ state \in {"OPEN", "CONTINUE"} /\ new' > OK
  /\ state' = "CONTINUE" /\ prev' = new'
  /\ IF new' < prev THEN told' = new' ELSE UNCHANGED told
  /\ UNCHANGED closed

Continue ==
  /\ state \in {"OPEN", "CONTINUE"} /\ new' > OK
  /\ state' = "CONTINUE"
  /\ IF new' > prev THEN told' = new' /\ prev' = new' ELSE UNCHANGED <<told, prev>>
  /\ UNCHANGED closed

Close ==
  /\ state \in {"OPEN", "CONTINUE"} /\ new' = OK
  /\ state' = "CLOSE" /\ told' = OK /\ closed' = TRUE
  /\ UNCHANGED prev

(* refresh_all_HM_data: refresh, then handle. *)
Refresh ==
  /\ \E r \in Readings[rule] : new' = Condition(r)
  /\ first' = FALSE
  /\ UNCHANGED rule

refresh_all_HM_data == Refresh /\ (Quiet \/ Open \/ Continue \/ Close)

Init ==
  /\ rule \in RuleNames /\ state = "NOTINIT"
  /\ new = OK /\ prev = OK /\ first = TRUE /\ told = OK /\ closed = FALSE

Next == refresh_all_HM_data
Spec == Init /\ [][Next]_vars

-----------------------------------------------------------------------------
(* Properties. *)

RulesTypeOK ==
  /\ rule \in RuleNames /\ state \in {"NOTINIT", "INIT", "OPEN", "CONTINUE", "CLOSE"}
  /\ {new, prev, told} \subseteq OK..ERROR /\ {first, closed} \subseteq BOOLEAN

(* The manager knows whether there is an alarm, and has been told of a level *)
(* at least as high as the present one.  Only the worsening of an alarm that  *)
(* opened again goes untold, and only up to the highest level that an earlier *)
(* alarm had: closing an alarm does not reset prev.                           *)
AlarmKnown ==
  /\ (told > OK) = (new > OK)
  /\ told >= new \/ (closed /\ new <= prev)
=============================================================================
