------------------------------ MODULE TtyDevices -----------------------------
(***************************************************************************)
(* The terminal names of the process table (seaExtensions/sunProcesses.c). *)
(* The agent's list of the devices in /dev is kept in a file from one run  *)
(* to the next; the file is used while it is newer than /dev.              *)
(***************************************************************************)
EXTENDS Integers, FiniteSets

CONSTANTS
  Devices,   \* character devices
  UDQ,       \* entries by which devl grows
  MaxTime,   \* time (bound)
  Nil

VARIABLES
  now, dev, dev_time,   \* the devices in /dev, and when they last changed
  psfile,               \* [time, ndev, names], or Nil; what is not all written is Nil
  devl,                 \* the list
  room,                 \* entries allocated for it
  maxdev,               \* entries the agent takes to be allocated
  found,                \* the lists that a search of /dev has made
  at                    \* "idle", "search", "write"

ttyVars == <<now, dev, dev_time, psfile, devl, room, maxdev, found, at>>

TtyTypeOK ==
  /\ now \in 0..MaxTime /\ dev_time \in 0..now /\ dev \subseteq Devices
  /\ psfile = Nil \/ psfile.time \in 0..now
  /\ at \in {"idle", "search", "write"}

TtyInit ==
  /\ now = 0 /\ dev \in SUBSET Devices /\ dev_time = 0
  /\ psfile = Nil /\ devl = {} /\ room = 0 /\ maxdev = 0 /\ found = {} /\ at = "idle"

-----------------------------------------------------------------------------
\* read_tmp_file: what was read is as long as it should be.
Read(x) == x # Nil

Newer == psfile # Nil /\ psfile.time > dev_time

\* readata.
readata ==
  /\ at = "idle" /\ Newer /\ Read(psfile.ndev)
  /\ room' = psfile.ndev
  /\ IF Read(psfile.names)
     THEN /\ devl' = psfile.names
          /\ UNCHANGED <<psfile, at>>
     ELSE psfile' = Nil /\ at' = "search" /\ UNCHANGED devl
  /\ UNCHANGED <<now, dev, dev_time, maxdev, found>>
NotRead ==
  /\ at = "idle" /\ ~(Newer /\ Read(psfile.ndev))
  /\ psfile' = IF Newer THEN Nil ELSE psfile
  /\ at' = "search"
  /\ UNCHANGED <<now, dev, dev_time, devl, room, maxdev, found>>

\* call_ftw_for_dev and gdev: the list grows when it is as long as maxdev.
Grown(n) == IF n < maxdev THEN maxdev ELSE maxdev + UDQ * ((n - maxdev) \div UDQ + 1)
gdev ==
  /\ at = "search"
  /\ devl' = dev
  /\ LET most == Cardinality(dev) - 1
     IN /\ maxdev' = IF dev = {} THEN maxdev ELSE Grown(most)
        /\ room' = IF maxdev' = maxdev THEN room ELSE maxdev'
  /\ found' = found \cup {dev}
  /\ at' = "write"
  /\ UNCHANGED <<now, dev, dev_time, psfile>>

\* wrdata: a short write removes the file that was there, and what was written
\* takes its place all the same.  Or there is no temporary file, or no rename.
Written == {[time |-> now, ndev |-> Cardinality(devl), names |-> devl],
            [time |-> now, ndev |-> Cardinality(devl), names |-> Nil],
            [time |-> now, ndev |-> Nil, names |-> Nil]}
wrdata ==
  /\ at = "write"
  /\ psfile' \in Written \cup {psfile, Nil}
  /\ at' = "idle"
  /\ UNCHANGED <<now, dev, dev_time, devl, room, maxdev, found>>

-----------------------------------------------------------------------------
ChangeDev ==
  /\ \E d \in SUBSET Devices : d # dev /\ dev' = d
  /\ dev_time' = now
  /\ UNCHANGED <<now, psfile, devl, room, maxdev, found, at>>
Pass ==
  /\ now < MaxTime /\ now' = now + 1
  /\ UNCHANGED <<dev, dev_time, psfile, devl, room, maxdev, found, at>>

\* The agent stops, at any point, and is started again.
Restart ==
  /\ devl' = {} /\ room' = 0 /\ maxdev' = 0 /\ at' = "idle"
  /\ UNCHANGED <<now, dev, dev_time, psfile, found>>

TtyNext == readata \/ NotRead \/ gdev \/ wrdata \/ ChangeDev \/ Pass \/ Restart

-----------------------------------------------------------------------------
(* Properties.                                                               *)

\* A list is never part of one: whatever was written of the file when the
\* agent or a write stopped, a list that is used is one a search has made.
ListWhole == at = "idle" => devl \in found \cup {{}}

\* The list is within the memory allocated for it.  In no run: it fails after
\* a second search, as the README tells.
ListFits == Cardinality(devl) <= room
=============================================================================
