------------------------------ MODULE PoolCache ------------------------------
(***************************************************************************)
(* The table of ZFS pools (zfs/zprop_access.c, zfs.c).  The agent keeps a  *)
(* list of the pools it has seen and a copy of the configurations it last  *)
(* read; the names in the list are pointers into that copy.  A request     *)
(* checks the cache, walks the list under a read lock and releases it.     *)
(* The agent has one thread.                                               *)
(***************************************************************************)
EXTENDS Integers, Sequences, FiniteSets, Functions, Sublists

CONSTANTS
  Guids,      \* pools
  PoolNames,  \* a sequence: the names in the order of the configurations
  Root,       \* the pools that are never exported, by name: [guid |-> name]
  PoolFaults, \* of "configs", "props"
  Sweeps,     \* how often a request may start at the first entry
  MaxGen,     \* configuration generations (bound)
  Nil

Names == Range(PoolNames)
PoolAssumption ==
  /\ PoolNames \in Seq(Names) /\ \A j, k \in DOMAIN PoolNames : PoolNames[j] = PoolNames[k] => j = k
  /\ DOMAIN Root \subseteq Guids /\ Nil \notin Names

VARIABLES
  pools,    \* the kernel's: [Guids -> Names or Nil]
  gen,      \* their generation
  ph_cfg,   \* the copy: a sequence of [guid, name]
  ph_gen,
  ph_first, \* the list: a sequence of [guid, name, of]; of is the generation
            \* of the copy that holds the name
  fresh,    \* less than cache_timeout since ph_ts
  reads,    \* read locks the agent has on ph_lock
  crashed

poolVars == <<pools, gen, ph_cfg, ph_gen, ph_first, fresh, reads, crashed>>

Configs(f) ==
  LET here == {g \in Guids : f[g] # Nil}
      named == Sublist(PoolNames, {f[g] : g \in here})
  IN [k \in 1..Len(named) |-> [guid |-> CHOOSE g \in here : f[g] = named[k], name |-> named[k]]]

PoolTypeOK ==
  /\ pools \in [Guids -> Names \cup {Nil}] /\ gen \in 1..MaxGen /\ ph_gen \in 0..gen
  /\ reads \in 0..MaxGen + 1 /\ {fresh, crashed} \subseteq BOOLEAN
  /\ \A k \in DOMAIN ph_first : ph_first[k].guid \in Guids \cup {Nil}

-----------------------------------------------------------------------------
(* Refreshing the list.                                                      *)

GuidsOf(s) == {s[k].guid : k \in DOMAIN s}

\* refresh_pool_node: the name is looked up in the new copy, unless the
\* properties of the pool cannot be had.
RefreshedBug(node, e, g, failing) == IF node.name = e.name THEN node ELSE [guid |-> e.guid, name |-> e.name, of |-> g]
Refreshed(node, e, g, failing) ==
  IF e.name \in failing THEN node ELSE [guid |-> e.guid, name |-> e.name, of |-> g]

\* The entries that are in the configurations stay, in their order; those that
\* are left are added.  With no entry before it, one that is removed is taken
\* for the previous one's successor (prev is NULL).
Matched(cfg, g, failing) ==
  LET kept == Sublist(ph_first, {node \in Range(ph_first) : node.guid \in GuidsOf(cfg)})
      config(node) == CHOOSE e \in Range(cfg) : e.guid = node.guid
  IN [k \in 1..Len(kept) |-> Refreshed(kept[k], config(kept[k]), g, failing)]
Created(cfg, g, failing) ==
  LET left == Sublist(cfg, {e \in Range(cfg) : e.guid \notin GuidsOf(ph_first)})
  IN [k \in 1..Len(left) |->
        Refreshed([guid |-> Nil, name |-> Nil, of |-> Nil], left[k], g, failing)]
FirstGone(cfg) == ph_first # <<>> /\ ph_first[1].guid \notin GuidsOf(cfg)

\* lzc_pool_configs: EEXIST when the generation is the one the cache has.
refresh_pool_cache(failing) ==
  LET cfg == IF gen = ph_gen THEN ph_cfg ELSE Configs(pools)
  IN /\ crashed' = (crashed \/ FirstGone(cfg))
     /\ ph_cfg' = cfg /\ ph_gen' = gen
     /\ ph_first' = IF FirstGone(cfg) THEN ph_first
                    ELSE Matched(cfg, gen, failing) \o Created(cfg, gen, failing)
     /\ fresh' = TRUE

\* An entry whose pool's properties were never read has no name, and one of
\* an earlier copy a name that was freed.
BadName(s) == \E k \in DOMAIN s : s[k].name = Nil

-----------------------------------------------------------------------------
(* Requests.                                                                 *)

\* The locks after a check_cache that refreshed, had there been h of them: the
\* write lock is refused while there is a read lock, and the cache refreshed
\* all the same.
LocksLeft(h, failed) ==
  LET unlocked == IF h = 0 THEN 0 ELSE h - 1 IN IF failed THEN unlocked ELSE unlocked + 1

\* zprop_release.
Released(h) == IF h > 0 THEN h - 1 ELSE 0

\* zpoolTable_handler, with the walks of the table that come before it:
\* the cache is good for the second and later ones.
PoolRequest ==
  \E n \in Sweeps :
    /\ reads + n <= MaxGen + 1
    /\ \/ /\ fresh
          /\ reads' = Released(reads + n)
          /\ crashed' = BadName(ph_first)
          /\ UNCHANGED <<ph_cfg, ph_gen, ph_first, fresh>>
       \/ /\ ~fresh
          /\ \E failing \in IF "props" \in PoolFaults THEN SUBSET Names ELSE {{}} : refresh_pool_cache(failing)
          /\ reads' = Released(LocksLeft(reads, FALSE) + n - 1)
    /\ UNCHANGED <<pools, gen>>

\* The configurations cannot be read: no entry is given and no lock kept.
RequestFails ==
  /\ ~fresh /\ "configs" \in PoolFaults
  /\ reads' = Released(LocksLeft(reads, TRUE))
  /\ UNCHANGED <<pools, gen, ph_cfg, ph_gen, ph_first, fresh, crashed>>

Expire == fresh /\ fresh' = FALSE /\ UNCHANGED <<pools, gen, ph_cfg, ph_gen, ph_first, reads, crashed>>

\* A pool is created, imported, renamed, exported or destroyed.
Zpool ==
  /\ gen < MaxGen
  /\ \E g \in Guids, n \in Names \cup {Nil} :
       /\ n # pools[g] /\ g \notin DOMAIN Root
       /\ n # Nil => \A h \in Guids : pools[h] # n
       /\ pools' = [pools EXCEPT ![g] = n]
  /\ gen' = gen + 1
  /\ UNCHANGED <<ph_cfg, ph_gen, ph_first, fresh, reads, crashed>>

\* zprop_init has read the pools there are.
PoolInit ==
  /\ pools \in {f \in [Guids -> Names \cup {Nil}] :
                  /\ \A g \in DOMAIN Root : f[g] = Root[g]
                  /\ \A g, h \in Guids : f[g] # Nil /\ f[g] = f[h] => g = h}
  /\ gen = 1 /\ ph_gen = 1 /\ ph_cfg = Configs(pools)
  /\ ph_first = [k \in DOMAIN ph_cfg |-> [guid |-> ph_cfg[k].guid, name |-> ph_cfg[k].name, of |-> 1]]
  /\ fresh = TRUE /\ reads = 0 /\ crashed = FALSE

PoolNext == ~crashed /\ (PoolRequest \/ RequestFails \/ Expire \/ Zpool)

-----------------------------------------------------------------------------
(* Properties.                                                               *)

\* The list has each pool of the configurations last read once, under its name
\* in the copy that is kept: a pool that was renamed, or whose name another
\* pool has taken, is not shown under the name it had, and no name is left in
\* a copy that was freed.
CacheMatches ==
  /\ {[guid |-> ph_first[k].guid, name |-> ph_first[k].name] : k \in DOMAIN ph_first} = Range(ph_cfg)
  /\ Len(ph_first) = Len(ph_cfg)
  /\ \A k \in DOMAIN ph_first : ph_first[k].of = ph_gen

\* No request leaves a lock to the next one, failures included: the lock that
\* refresh_pool_cache takes for writing is to be had.
LockBalanced == reads = 0

\* A pool that is gone is pruned out of the list, wherever it stands behind the
\* first entry, which is a pool that never goes (Root).
NoCrash == ~crashed
=============================================================================
