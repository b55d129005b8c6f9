----------------------------- MODULE HealthDisks -----------------------------
(***************************************************************************)
(* The disk table of the SNMP agent's health monitor and the kstat reader  *)
(* below it (healthMonitor.c and kr_iostat.c): the table is built when the *)
(* configuration is read and refreshed by an alarm, one disk at a time,    *)
(* while disks come and go in the kernel.                                  *)
(***************************************************************************)
EXTENDS Integers, Sequences, FiniteSets, Functions, Sublists

CONSTANTS
  Order,     \* the disks that may exist, in the order of kscmp
  Prefixed,  \* pairs <<d, e>> where the name of e begins that of d, as sd1 begins sd10
  Readings,  \* pairs <<busy, svc>>: 0 below the warning threshold of the load
             \* or service time, 1 below the problem threshold, 2 from it on
  MaxEvents  \* bound on changes of the kernel and on reads of the configuration

VARIABLES
  kernel,     \* the kstat chain: the disks that are present, never none
  list,       \* firstdisk and its successors, as of the last init_disks
  detail, srv,                \* the static cursors of krgetdiskdetail, krgetdisksrv
  detailAgain, srvAgain,      \* refreshDiskdetail, refreshDisksrv
  table,      \* head and its successors: [name, level, load, touched]
  pass,       \* what runs: construct_DISK_table ("new" before its first row),
              \* refresh_DISK_table or nothing
  off,        \* hm_prev_disk_ref is 0 and nothing runs: no refresh ever again
  broken,     \* head is a freed node: the next pass would go through it
  told,       \* the level of each disk in the last trap about it, Mixed while
              \* a construction left two rows that both report about it
  last,       \* the pass that ended last
  events

cursors == <<detail, srv, detailAgain, srvAgain>>
vars == <<kernel, list, cursors, table, pass, off, broken, told, last, events>>

Disks  == Range(Order)
DiskAssumption == Order \in Seq(Disks) /\ \A j, k \in DOMAIN Order : Order[j] = Order[k] => j = k
Levels == 0..3  \* OK, INFO, WARNING, ERROR
Mixed  == 4
Names  == {table[k].name : k \in DOMAIN table}

(* strncmp with the length of the name that was read: a row of sd10 matches a *)
(* reading of sd1.                                                           *)
Matches(d, e) == d = e \/ <<d, e>> \in Prefixed

-----------------------------------------------------------------------------
(* The kstat reader.  Its two functions return 0 or 1 and never less, so what *)
(* the passes would do after an error of theirs cannot happen.                *)

Sorted(S) == Sublist(Order, S)
Step(cursor) == IF cursor < Len(list') THEN cursor + 1 ELSE 1

(* update_kstat_chain: a changed chain is listed anew by init_disks, and both *)
(* cursors start again with the next call.                                    *)
Changed == list # Sorted(kernel)

krgetdiskdetail ==
  LET at == IF detailAgain THEN 1 ELSE detail
  IN /\ list' = IF at = 1 THEN Sorted(kernel) ELSE list
     /\ detailAgain' = (at = 1 /\ Changed)
     /\ detail' = Step(at)

(* Comes after krgetdiskdetail; its name and its end of the list count. *)
SrvAt == IF srvAgain \/ detailAgain' THEN 1 ELSE srv
krgetdisksrv ==
  /\ srvAgain' = FALSE
  /\ srv' = Step(SrvAt)
Name == list'[SrvAt]
More == SrvAt < Len(list')

(* krgetsmtx, the first reader of refresh_all_HM_data *)
krgetsmtx ==
  /\ pass = "none" /\ Changed
  /\ list' = Sorted(kernel)
  /\ detailAgain' = TRUE /\ srvAgain' = TRUE
  /\ UNCHANGED <<kernel, detail, srv, table, pass, off, broken, told, last, events>>

Hotplug ==
  /\ events < MaxEvents /\ events' = events + 1
  /\ \E d \in Disks : kernel' = (kernel \ {d}) \cup ({d} \ kernel)
  /\ kernel' # {}
  /\ UNCHANGED <<list, cursors, table, pass, off, broken, told, last>>

-----------------------------------------------------------------------------
(* check_state_DISK: the level of a disk in the table only rises until it is *)
(* OK again, and each change is trapped; without memory for the identifier   *)
(* of a trap the rows from there on are not checked.                         *)

DiskLevel(load) ==
  IF load[1] = 0 \/ load[2] = 0 THEN 0
    ELSE IF load[1] = 2 /\ load[2] = 2 THEN 3
    ELSE 2
NewLevel(e) ==
  LET l == DiskLevel(e.load) IN IF l > e.level \/ l = 0 THEN l ELSE e.level

check_state_DISK(tab) ==
  \E n \in (IF events < MaxEvents THEN 0..Len(tab) ELSE {Len(tab)}) :
    LET After(k) == IF k <= n THEN NewLevel(tab[k]) ELSE tab[k].level
        Rows(d)  == {k \in DOMAIN tab : tab[k].name = d}
    IN /\ events' = events + (IF n < Len(tab) THEN 1 ELSE 0)
       /\ table' = [k \in DOMAIN tab |-> [tab[k] EXCEPT !.level = After(k)]]
       /\ told' = [d \in Disks |->
            IF Cardinality(Rows(d)) > 1 THEN Mixed
            ELSE IF \E k \in Rows(d) : After(k) # tab[k].level
                 THEN After(CHOOSE k \in Rows(d) : TRUE) ELSE told[d]]

-----------------------------------------------------------------------------
(* The passes.  Each runs in one callback of the agent, only the kernel moves *)
(* meanwhile; the time since the last pass keeps its refreshes apart.         *)

hm_post_read_config ==
  /\ pass = "none" /\ events < MaxEvents /\ events' = events + 1
  /\ pass' = "new" /\ off' = TRUE
  /\ UNCHANGED <<kernel, list, cursors, table, broken, told, last>>

StartRefresh ==
  /\ pass = "none" /\ ~off /\ ~broken /\ table # <<>>
  /\ pass' = "refresh" /\ off' = TRUE
  /\ table' = [k \in DOMAIN table |-> [table[k] EXCEPT !.touched = FALSE]]
  /\ UNCHANGED <<kernel, list, cursors, broken, told, last, events>>

Entry(d, load) == [name |-> d, level |-> 0, load |-> load, touched |-> TRUE]
Hits(d) == {k \in DOMAIN table : Matches(table[k].name, d)}
UpdatedBug(d, load) ==
  IF pass = "new" THEN <<Entry(d, load)>>
    ELSE IF pass = "construct" \/ Hits(d) = {} THEN Append(table, Entry(d, load))
    ELSE [table EXCEPT ![CHOOSE k \in Hits(d) : TRUE].load = load]
Updated(d, load) ==
  IF pass = "new" THEN <<Entry(d, load)>>
    ELSE IF pass = "construct" \/ Hits(d) = {} THEN Append(table, Entry(d, load))
    ELSE LET k == CHOOSE k \in Hits(d) : \A j \in Hits(d) : k <= j
                IN [table EXCEPT ![k].load = load, ![k].touched = TRUE]

(* The disks nobody touched are unlinked, except that head stays where it is *)
(* when its node is freed.                                                   *)
HeadFreed(tab) == pass = "refresh" /\ ~tab[1].touched
Swept(tab) ==
  IF pass # "refresh" THEN tab
  ELSE <<tab[1]>> \o Sublist(Tail(tab), {e \in Range(tab) : e.touched})

ReadDisk ==
  /\ pass # "none"
  /\ krgetdiskdetail /\ krgetdisksrv
  /\ \E load \in Readings :
       LET tab == Updated(Name, load)
       IN IF More
          THEN /\ table' = tab /\ pass' = (IF pass = "new" THEN "construct" ELSE pass)
               /\ UNCHANGED <<off, broken, told, last, events>>
          ELSE /\ pass' = "none" /\ last' = (IF pass = "refresh" THEN pass ELSE "construct")
               /\ off' = FALSE /\ broken' = HeadFreed(tab)
               /\ check_state_DISK(Swept(tab))
  /\ UNCHANGED kernel

(* No memory for a row: the pass returns with hm_prev_disk_ref 0.  A          *)
(* construction allocates before it reads the disk and again after.           *)
OutOfMemory ==
  /\ pass # "none" /\ events < MaxEvents /\ events' = events + 1
  /\ \/ krgetdiskdetail /\ krgetdisksrv /\ (pass = "refresh" => Hits(Name) = {})
     \/ pass # "refresh" /\ UNCHANGED <<list, cursors>>
  /\ pass' = "none" /\ last' = "none"
  /\ broken' = (broken /\ pass = "new")
  /\ UNCHANGED <<kernel, table, off, told>>

-----------------------------------------------------------------------------
Init ==
  /\ kernel \in (SUBSET Disks) \ {{}} /\ list = Sorted(kernel)
  /\ detail = 1 /\ srv = 1 /\ detailAgain = TRUE /\ srvAgain = TRUE
  /\ table = <<>> /\ pass = "new" /\ off = TRUE /\ broken = FALSE
  /\ told = [d \in Disks |-> 0] /\ last = "none" /\ events = 0

Next == krgetsmtx \/ Hotplug \/ hm_post_read_config \/ StartRefresh \/ ReadDisk \/ OutOfMemory

Spec == Init /\ [][Next]_vars

-----------------------------------------------------------------------------
(* Properties. *)

DisksTypeOK ==
  /\ kernel \subseteq Disks /\ Range(list) \subseteq Disks
  /\ detail \in 1..Len(Order) /\ srv \in 1..Len(Order)
  /\ \A k \in DOMAIN table :
       /\ table[k].name \in Disks /\ table[k].level \in Levels
       /\ table[k].load \in Readings /\ table[k].touched \in BOOLEAN
  /\ pass \in {"none", "new", "construct", "refresh"}
  /\ told \in [Disks -> Levels \cup {Mixed}] /\ events \in 0..MaxEvents

(* The list as the last reader left it, unless the chain has changed again.   *)
Refreshed == pass = "none" /\ last = "refresh" /\ ~detailAgain /\ ~srvAgain

(* A row stands for a disk: its own, or one whose longer name took its place. *)
(* (A disk that is plugged in as sd1 beside sd10 never gets a row, and one     *)
(* whose row is behind that of sd10 loses it.)                                 *)
Found(d) == \E e \in Names : Matches(e, d)

(* A refresh that ends has every disk of the kstat list found in the table,   *)
(* and no disk in two rows, however the chain changed during the pass: the    *)
(* two cursors may get out of step, but the one whose end is tested starts    *)
(* again with a new list.                                                     *)
TableComplete ==
  Refreshed => Cardinality(Names) = Len(table) /\ \A d \in Range(list) : Found(d)

(* "remove those entries from the list": what a refresh did not find is gone. *)
(* In no run: it fails for the head of the list, as the README tells.         *)
RemovedGone == Refreshed => Names \subseteq Range(list)

(* The manager has been told of the level that the table holds for a disk,    *)
(* whatever the passes before it read, removed or left unchecked.             *)
DiskStateTold ==
  \A k \in DOMAIN table : table[k].level > 0 => told[table[k].name] \in {table[k].level, Mixed}

(* A disk leaves the table in a refresh only when it has been removed, or     *)
(* when a row of a longer name stands for it.                                 *)
RemovedLeave ==
  \A d \in Disks : pass = "refresh" /\ d \in Names \ Names' /\ d \in Range(list') => Found(d)'
OnlyRemovedLeave == [][RemovedLeave]_vars
=============================================================================
