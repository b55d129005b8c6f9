------------------------------ MODULE EntityMib ------------------------------
(***************************************************************************)
(* The Entity MIB tables of the SNMP agent and the API its modules use     *)
(* (net-snmp/sun/agent/modules/entityMib): the physical and the logical    *)
(* table, the tables that relate their indices, and the throttled trap     *)
(* that reports a change.  The agent is one thread; a call of the API is a *)
(* step.  A negative index in a list is an entry that is kept but hidden.  *)
(***************************************************************************)
EXTENDS Integers, Sequences, FiniteSets, SequencesExt, FiniteSetsExt, Sublists

CONSTANTS
  MaxIndex,    \* MAX_ENTITY_INDEX
  LargeTable,  \* LARGE_TABLE
  Wanted,      \* the indices the callers name, 0 for any
  MaxCalls     \* bound on the calls that change a table

VARIABLES
  phys, physTail,        \* gPhysicalTableHead as a sequence, gPhysicalTableTail
  logical, logicalTail,  \* gLogicalTableHead as a sequence, gLogicalTableTail
  lp,        \* gLPMappingTableHead: [of |-> logical index, to |-> physical ones]
  alias,     \* gAliasMappingTableHead: [of |-> physical index, to |-> logical ones]
  contains,  \* gPhyContainsTableHead: [of |-> parent, to |-> children]
  pending,   \* entLastChangeTime is later than trapLastIssued
  quiet,     \* the trap's throttle period is not over, its alarm is registered
  due,       \* the period is over and the alarm has not run
  broken,    \* undefined behaviour: the lists or the stack are ruined
  calls

EntityAssumption == Wanted \subseteq Nat

trap == <<pending, quiet, due>>
tables == <<phys, logical, lp, alias, contains>>
vars == <<tables, physTail, logicalTail, trap, broken, calls>>

Null  == 0
Freed == -1  \* a tail pointer to an entry that was freed

-----------------------------------------------------------------------------
(* The lists. *)

Indices(tab) == {tab[k].idx : k \in DOMAIN tab}
Live(tab, i)  == i > 0 /\ i \in Indices(tab)
Stale(tab, i) == i > 0 /\ -i \in Indices(tab)
Used(tab, i)  == Live(tab, i) \/ Stale(tab, i)
At(tab, i)    == CHOOSE k \in DOMAIN tab : tab[k].idx \in {i, -i}
ListIndex(tab, k) == IF tab[k].idx < 0 THEN -tab[k].idx ELSE tab[k].idx

(* Deleted slots are -1 or negated. *)
RowsOf(rel, i) == {k \in DOMAIN rel : rel[k].of = i}
Slots(row, i)  == {n \in DOMAIN row.to : row.to[n] = i}
Related(rel) == UNION {{<<row.of, i>> : i \in ToSet(row.to)} : row \in ToSet(rel)}

(* What a manager reads: the rows the iterators of the tables visit, those of *)
(* the physical and the logical table by their indices.                       *)
PhysicalRows == {i \in Indices(phys) : i > 0}
LogicalRows  == {i \in Indices(logical) : i > 0}
LPRows       == {r \in Related(lp) : r[2] > 0}
AliasRows    == {r \in Related(alias) : r[2] >= 0}
ContainsRows == {r \in Related(contains) : r[2] > 0}

-----------------------------------------------------------------------------
(* AddToPhysicalTable and AddToLogicalTable: sorted by index when the wanted *)
(* index is free, else after the tail of a large table, in the first gap or *)
(* at the end.                                                               *)

Gaps(tab) == {k \in 1..Len(tab) - 1 : ListIndex(tab, k + 1) - ListIndex(tab, k) > 1}

NewIndex(tab, tail, want) ==
  IF want > 0 /\ ~Used(tab, want) THEN want
    ELSE IF Len(tab) > LargeTable THEN tail + 1
    ELSE IF tab = <<>> THEN 1
    ELSE IF Gaps(tab) # {} THEN ListIndex(tab, Min(Gaps(tab))) + 1
    ELSE ListIndex(tab, Len(tab)) + 1

UsesTail(tab, want) == Len(tab) > LargeTable /\ (want = 0 \/ Used(tab, want))

AddBreaks(tab, tail, want) ==
  \/ UsesTail(tab, want) /\ tail = Freed
  \/ NewIndex(tab, tail, want) > MaxIndex

Place(tab, i) == Min({n \in 1..Len(tab) + 1 : n <= Len(tab) => i <= ListIndex(tab, n)})
Insert(tab, e) == InsertAt(tab, Place(tab, e.idx), e)

TailAfter(tab, tail, i) ==
  IF \A k \in DOMAIN tab : ListIndex(tab, k) < i THEN i ELSE tail

Unlink(tab, i) == RemoveAt(tab, At(tab, i))
TailUnlinked(tail, i) == IF tail = i THEN Freed ELSE tail
WithIndex(tab, i, j) == [tab EXCEPT ![At(tab, i)].idx = j]

-----------------------------------------------------------------------------
(* The relations between the tables. *)

FirstTo(row, i, j) ==  \* the first slot i of the row becomes j
  IF Slots(row, i) = {} THEN row ELSE [row EXCEPT !.to[Min(Slots(row, i))] = j]
AppendTo(rel, k, i) == [rel EXCEPT ![k].to = Append(@, i)]
NewRow(rel, of, i)  == Append(rel, [of |-> of, to |-> <<i>>])
DropRow(rel, of)    == Sublist(rel, {row \in ToSet(rel) : row.of # of})
InRows(rel, i, j)   == [k \in DOMAIN rel |-> FirstTo(rel[k], i, j)]

LPWithoutPhysicalBug(p) == lp
LPWithoutPhysical(p)   == InRows(lp, p, -p)
AliasWithoutLogical(l) == InRows(alias, l, -1)

(* A deleted physical index is negated in its slot and found again. *)
LPAdded(l, p) ==
  IF RowsOf(lp, l) = {} THEN NewRow(lp, l, p)
  ELSE LET k == CHOOSE k \in RowsOf(lp, l) : TRUE
       IN IF Slots(lp[k], -p) = {} THEN AppendTo(lp, k, p)
          ELSE [lp EXCEPT ![k] = FirstTo(@, -p, p)]

AliasAdded(p, l) ==
  IF RowsOf(alias, p) = {} THEN NewRow(alias, p, l)
  ELSE AppendTo(alias, CHOOSE k \in RowsOf(alias, p) : TRUE, l)

(* A deleted child leaves -1 behind; the last one of these is used again. *)
ContainsAdded(p, c) ==
  IF RowsOf(contains, p) = {} THEN NewRow(contains, p, c)
  ELSE LET k == CHOOSE k \in RowsOf(contains, p) : TRUE
           holes == Slots(contains[k], -1)
       IN IF holes = {} THEN AppendTo(contains, k, c)
          ELSE [contains EXCEPT ![k].to[Max(holes)] = c]

ContainsChildren(p) ==
  IF Live(phys, p) THEN {r[2] : r \in {s \in ContainsRows : s[1] = p}} ELSE {}

ParentsIn(rel, c) == {rel[k].of : k \in {n \in DOMAIN rel : c \in ToSet(rel[n].to)}}
Lowest(S) == IF S = {} THEN 0 ELSE Min(S)

(* The rows of p are gone; its children move to their next lowest parent. *)
WithoutParent(tab, p) ==
  LET left == DropRow(contains, p)
  IN [k \in DOMAIN tab |->
        IF tab[k].in = p /\ tab[k].idx \in ContainsChildren(p)
        THEN [tab[k] EXCEPT !.in = Lowest(ParentsIn(left, tab[k].idx))] ELSE tab[k]]

(* c leaves the rows of the parents ps. *)
WithoutChild(tab, rel, c, ps) ==
  LET parents == ParentsIn(rel, c)
  IN [k \in DOMAIN tab |->
        IF tab[k].idx = c /\ tab[k].in \in parents \cap ps
        THEN [tab[k] EXCEPT !.in = Lowest(parents \ ps)] ELSE tab[k]]

(* getAllChildrenFromPhysicalContainedIn: the index of the list is counted up *)
(* by the first child only, so the third child and later ones replace the     *)
(* second.  Hidden children appear with their negative index.                 *)
AllChildrenFromContainedIn(p) ==
  LET all == Sublist(phys, {e \in ToSet(phys) : e.in = p})
  IN IF Len(all) <= 2 THEN {all[k].idx : k \in DOMAIN all}
     ELSE {all[1].idx, Last(all).idx}

ChildrenSeen(i) ==
  IF i <= 0 THEN {} ELSE AllChildrenFromContainedIn(i) \cup ContainsChildren(i)

Descendants(S) ==  \* every index a recursion from the children S visits
  LET step[n \in Nat] == IF n = 0 THEN S
                         ELSE step[n - 1] \cup UNION {ChildrenSeen(i) : i \in step[n - 1]}
  IN step[MaxIndex]
Below(i) == Descendants(ChildrenSeen(i))
NeverReturns(i) == \E j \in {i} \cup Below(i) : j \in Below(j)

-----------------------------------------------------------------------------
(* configChanged and the trap. *)

Poll(changed) ==
  /\ pending' = (changed /\ quiet)
  /\ quiet' = (quiet \/ changed)

configChanged == Poll(TRUE) /\ UNCHANGED due

PeriodOver ==
  /\ quiet /\ ~due
  /\ quiet' = FALSE /\ due' = TRUE
  /\ UNCHANGED <<tables, physTail, logicalTail, pending, broken, calls>>

alarm_entLastChangeTimeBug ==
  /\ due /\ due' = FALSE
  /\ UNCHANGED <<tables, physTail, logicalTail, pending, quiet, broken, calls>>

alarm_entLastChangeTime ==
  /\ due /\ due' = FALSE
  /\ Poll(pending)
  /\ UNCHANGED <<tables, physTail, logicalTail, broken, calls>>

-----------------------------------------------------------------------------
(* The calls.  One that returns -1, -2 or 1 changes nothing. *)

Call == ~broken /\ calls < MaxCalls /\ calls' = calls + 1
Sound == broken' = FALSE
Breaks == broken' = TRUE /\ UNCHANGED <<tables, physTail, logicalTail, trap>>

(* A child needs a live parent; port: entPhysicalClass is 10. *)
ValidPhysical(in) == in = 0 \/ Live(phys, in)

AddToPhysicalTable(want, in, port) ==
  IF AddBreaks(phys, physTail, want) THEN Breaks
  ELSE LET i == NewIndex(phys, physTail, want)
       IN /\ phys' = Insert(phys, [idx |-> i, in |-> in, port |-> port])
          /\ physTail' = TailAfter(phys, physTail, i)
          /\ UNCHANGED <<logical, logicalTail, lp, alias, contains>>
          /\ configChanged /\ Sound

AddToLogicalTable(want) ==
  IF AddBreaks(logical, logicalTail, want) THEN Breaks
  ELSE LET i == NewIndex(logical, logicalTail, want)
       IN /\ logical' = Insert(logical, [idx |-> i])
          /\ logicalTail' = TailAfter(logical, logicalTail, i)
          /\ UNCHANGED <<phys, physTail, lp, alias, contains>>
          /\ configChanged /\ Sound

allocPhysicalEntry(want, in, port) ==
  Call /\ ValidPhysical(in) /\ AddToPhysicalTable(want, in, port)

allocLogicalEntry(want) == Call /\ AddToLogicalTable(want)

(* What deletePhysicalTableEntry and makePhysicalTableEntryStale do to the  *)
(* other tables, and to the children and the parent of the entry.           *)
PhysicalForgotten(p) ==
  /\ alias' = DropRow(alias, p)
  /\ lp' = LPWithoutPhysical(p)
  /\ contains' = InRows(DropRow(contains, p), p, -1)
OrphansMoved(p) ==
  LET left == DropRow(contains, p)
  IN WithoutChild(WithoutParent(phys, p), left, p, ParentsIn(left, p))

deletePhysicalTableEntry(p) ==
  /\ Call /\ Live(phys, p)
  /\ PhysicalForgotten(p)
  /\ phys' = Unlink(OrphansMoved(p), p)
  /\ physTail' = TailUnlinked(physTail, p)
  /\ UNCHANGED <<logical, logicalTail>>
  /\ configChanged /\ Sound

makePhysicalTableEntryStale(p) ==
  /\ Call /\ Live(phys, p)
  /\ PhysicalForgotten(p)
  /\ phys' = WithIndex(OrphansMoved(p), p, -p)
  /\ UNCHANGED <<physTail, logical, logicalTail>>
  /\ configChanged /\ Sound

makePhysicalTableEntryLive(p) ==
  /\ Call /\ Stale(phys, p)
  /\ phys' = WithIndex(phys, p, p)
  /\ UNCHANGED <<physTail, logical, logicalTail, lp, alias, contains>>
  /\ configChanged /\ Sound

LogicalForgotten(l) ==
  /\ alias' = AliasWithoutLogical(l)
  /\ lp' = DropRow(lp, l)

deleteLogicalTableEntry(l) ==
  /\ Call /\ Live(logical, l)
  /\ LogicalForgotten(l)
  /\ logical' = Unlink(logical, l)
  /\ logicalTail' = TailUnlinked(logicalTail, l)
  /\ UNCHANGED <<phys, physTail, contains>>
  /\ configChanged /\ Sound

makeLogicalTableEntryStale(l) ==
  /\ Call /\ Live(logical, l)
  /\ LogicalForgotten(l)
  /\ logical' = WithIndex(logical, l, -l)
  /\ UNCHANGED <<phys, physTail, logicalTail, contains>>
  /\ configChanged /\ Sound

makeLogicalTableEntryLive(l) ==
  /\ Call /\ Stale(logical, l)
  /\ logical' = WithIndex(logical, l, l)
  /\ UNCHANGED <<phys, physTail, logicalTail, lp, alias, contains>>
  /\ configChanged /\ Sound

addLPMappingTableEntry(l, p) ==
  /\ Call /\ Live(logical, l) /\ Live(phys, p)
  /\ <<l, p>> \notin Related(lp)
  /\ lp' = LPAdded(l, p)
  /\ UNCHANGED <<phys, physTail, logical, logicalTail, alias, contains>>
  /\ configChanged /\ Sound

deleteLPMappingTableEntry(l, p) ==
  /\ Call /\ Live(logical, l) /\ Live(phys, p)
  /\ <<l, p>> \in Related(lp)
  /\ lp' = [k \in DOMAIN lp |-> IF lp[k].of = l THEN FirstTo(lp[k], p, -p) ELSE lp[k]]
  /\ UNCHANGED <<phys, physTail, logical, logicalTail, alias, contains>>
  /\ configChanged /\ Sound

addAliasMappingTableEntry(p, l) ==
  /\ Call
  /\ Live(phys, p) /\ phys[At(phys, p)].port
  /\ l = 0 \/ Live(logical, l)
  /\ <<p, l>> \notin Related(alias)
  /\ alias' = AliasAdded(p, l)
  /\ UNCHANGED <<phys, physTail, logical, logicalTail, lp, contains>>
  /\ configChanged /\ Sound

deleteAliasMappingTableEntry(p, l) ==
  /\ Call /\ ~Stale(phys, p) /\ ~Stale(logical, l)
  /\ <<p, l>> \in Related(alias)
  /\ alias' = [k \in DOMAIN alias |->
                 IF alias[k].of = p THEN FirstTo(alias[k], l, -1) ELSE alias[k]]
  /\ UNCHANGED <<phys, physTail, logical, logicalTail, lp, contains>>
  /\ configChanged /\ Sound

(* isRecursiveChild walks down from the child; it never returns when it meets *)
(* an entry that is below itself before it meets the parent.                  *)
addPhysicalContainsTableEntry(p, c) ==
  /\ Call /\ p # c /\ Live(phys, p) /\ Live(phys, c)
  /\ \/ NeverReturns(c) /\ Breaks
     \/ /\ ~NeverReturns(c) /\ p \notin Below(c)
        /\ <<p, c>> \notin Related(contains)
        /\ contains' = ContainsAdded(p, c)
        /\ phys' = [phys EXCEPT ![At(phys, c)].in = IF @ = 0 \/ @ > p THEN p ELSE @]
        /\ UNCHANGED <<physTail, logical, logicalTail, lp, alias>>
        /\ configChanged /\ Sound

deletePhysicalContainsTableEntry(p, c) ==
  /\ Call /\ ~Stale(phys, p) /\ ~Stale(phys, c)
  /\ <<p, c>> \in Related(contains)
  /\ phys' = WithoutChild(phys, contains, c, {p})
  /\ contains' = [k \in DOMAIN contains |-> IF contains[k].of = p
                                            THEN FirstTo(contains[k], c, -1) ELSE contains[k]]
  /\ UNCHANGED <<physTail, logical, logicalTail, lp, alias>>
  /\ configChanged /\ Sound

deleteLPMappingPhysicalIndex(p) ==
  /\ Call /\ Live(phys, p) /\ lp # LPWithoutPhysical(p)
  /\ lp' = LPWithoutPhysical(p)
  /\ UNCHANGED <<phys, physTail, logical, logicalTail, alias, contains>>
  /\ configChanged /\ Sound

deleteLPMappingLogicalIndex(l) ==
  /\ Call /\ Live(logical, l) /\ RowsOf(lp, l) # {}
  /\ lp' = DropRow(lp, l)
  /\ UNCHANGED <<phys, physTail, logical, logicalTail, alias, contains>>
  /\ configChanged /\ Sound

deleteAliasMappingPhysicalIndex(p) ==
  /\ Call /\ ~Stale(phys, p) /\ RowsOf(alias, p) # {}
  /\ alias' = DropRow(alias, p)
  /\ UNCHANGED <<phys, physTail, logical, logicalTail, lp, contains>>
  /\ configChanged /\ Sound

deleteAliasMappingLogicalIndex(l) ==
  /\ Call /\ l > 0 /\ ~Stale(logical, l) /\ alias # AliasWithoutLogical(l)
  /\ alias' = AliasWithoutLogical(l)
  /\ UNCHANGED <<phys, physTail, logical, logicalTail, lp, contains>>
  /\ configChanged /\ Sound

deletePhysicalContainsParentIndex(p) ==
  /\ Call /\ ~Stale(phys, p) /\ RowsOf(contains, p) # {}
  /\ phys' = WithoutParent(phys, p)
  /\ contains' = DropRow(contains, p)
  /\ UNCHANGED <<physTail, logical, logicalTail, lp, alias>>
  /\ configChanged /\ Sound

deletePhysicalContainsChildIndex(c) ==
  /\ Call /\ ~Stale(phys, c) /\ ParentsIn(contains, c) # {}
  /\ phys' = WithoutChild(phys, contains, c, ParentsIn(contains, c))
  /\ contains' = InRows(contains, c, -1)
  /\ UNCHANGED <<physTail, logical, logicalTail, lp, alias>>
  /\ configChanged /\ Sound

-----------------------------------------------------------------------------
InitPhysical == phys = <<>> /\ physTail = Null
InitLogical  == logical = <<>> /\ logicalTail = Null
InitLP       == lp = <<>>
InitAlias    == alias = <<>>
InitContains == contains = <<>>
InitTrap     == pending = FALSE /\ quiet = FALSE /\ due = FALSE
Init ==
  /\ InitPhysical /\ InitLogical /\ InitLP /\ InitAlias /\ InitContains /\ InitTrap
  /\ broken = FALSE /\ calls = 0

PhysicalCall(p) ==
  \/ deletePhysicalTableEntry(p)
  \/ makePhysicalTableEntryStale(p) \/ makePhysicalTableEntryLive(p)
  \/ deleteLPMappingPhysicalIndex(p) \/ deleteAliasMappingPhysicalIndex(p)
  \/ deletePhysicalContainsParentIndex(p) \/ deletePhysicalContainsChildIndex(p)
  \/ \E c \in Wanted : \/ addPhysicalContainsTableEntry(p, c)
                       \/ deletePhysicalContainsTableEntry(p, c)
LogicalCall(l) ==
  \/ deleteLogicalTableEntry(l)
  \/ makeLogicalTableEntryStale(l) \/ makeLogicalTableEntryLive(l)
  \/ deleteLPMappingLogicalIndex(l) \/ deleteAliasMappingLogicalIndex(l)
  \/ \E p \in Wanted : addLPMappingTableEntry(l, p) \/ deleteLPMappingTableEntry(l, p)

Next ==
  \/ \E want \in Wanted, in \in Wanted, port \in BOOLEAN : allocPhysicalEntry(want, in, port)
  \/ \E want \in Wanted : allocLogicalEntry(want)
  \/ \E i \in Wanted : PhysicalCall(i) \/ LogicalCall(i)
  \/ \E p, l \in Wanted : \/ addAliasMappingTableEntry(p, l)
                          \/ deleteAliasMappingTableEntry(p, l)
  \/ PeriodOver
  \/ alarm_entLastChangeTime

Fairness == WF_vars(PeriodOver) /\ WF_vars(alarm_entLastChangeTime)
Spec == Init /\ [][Next]_vars /\ Fairness

-----------------------------------------------------------------------------
(* Properties. *)

EntityTypeOK ==
  /\ \A k \in DOMAIN phys : /\ phys[k].idx \in -MaxIndex..MaxIndex \ {0}
                            /\ phys[k].in \in 0..MaxIndex /\ phys[k].port \in BOOLEAN
  /\ \A k \in DOMAIN logical : logical[k].idx \in -MaxIndex..MaxIndex \ {0}
  /\ physTail \in -1..MaxIndex /\ logicalTail \in -1..MaxIndex
  /\ \A rel \in {lp, alias, contains} : \A k \in DOMAIN rel :
       rel[k].of \in 1..MaxIndex /\ ToSet(rel[k].to) \subseteq -MaxIndex..MaxIndex
  /\ pending \in BOOLEAN /\ quiet \in BOOLEAN /\ due \in BOOLEAN /\ broken \in BOOLEAN
  /\ calls \in 0..MaxCalls

(* A manager never reads a row of a mapping table that names an entry which  *)
(* was deleted or hidden, whatever calls came between: every deletion takes  *)
(* the rows of its index out of the three tables.                            *)
TablesAgree ==
  /\ LPRows \subseteq LogicalRows \X PhysicalRows
  /\ AliasRows \subseteq PhysicalRows \X (LogicalRows \cup {0})
  /\ ContainsRows \subseteq PhysicalRows \X PhysicalRows

(* entPhysicalContainedIn of a child with rows in the contains table is never *)
(* higher than any of its parents there, through additions and deletions in   *)
(* every order.                                                               *)
LowestParent ==
  \A k \in DOMAIN phys :
    LET parents == ParentsIn(contains, phys[k].idx)
    IN phys[k].idx > 0 /\ parents # {} => phys[k].in \in 1..Min(parents)

(* An index belongs to one entry, hidden ones included, and the list stays in *)
(* the order of the indices, which the search for a gap relies on.            *)
ListsSorted ==
  \A tab \in {phys, logical} : \A k \in 1..Len(tab) - 1 :
    ListIndex(tab, k) < ListIndex(tab, k + 1)

(* isRecursiveChild lets no entry become its own descendant, by the contains  *)
(* table and the entPhysicalContainedIn of the entries.  In no run: four      *)
(* calls break it, as the README tells.                                       *)
Contained(i) == {phys[k].idx : k \in {n \in DOMAIN phys : phys[n].in = i}}
                  \cup ContainsChildren(i)
NoCycle ==
  \A i \in PhysicalRows :
    LET step[n \in Nat] == IF n = 0 THEN Contained(i)
                           ELSE step[n - 1] \cup UNION {Contained(j) : j \in step[n - 1]}
    IN i \notin step[MaxIndex]
=============================================================================
