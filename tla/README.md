# Verification of nza-userland

nza-userland builds the user-land packages of a storage operating system. Most
of it is build rules, package manifests and patches of third-party programs.
Its own programs are few. The one with the most intricate behaviour is the
PKCS#11 engine of OpenSSL 1.0.1: OpenSSL calls it from many threads, processes
fork under it, keys and operations live in a token on the other side of an API
in which every call may fail, and a mistake is a signature with another key.
Beside it are the `/dev/crypto` engine, the modules of the SNMP agent, Apache's
mod_sed and run-parts. This project models them component by component, checks
the models with TLC and proves what matters most about some of them with TLAPS.

Paths below: `E` is `e_pk11.c`, `P` is `e_pk11_pub.c`, `U` is `e_pk11_uri.c`, all
in `src/nza-userland/components/openssl/openssl-1.0.1/engines/pkcs11/`; other
paths are relative to `src/nza-userland/components/`.
`PROJECT.json` maps every definition to the lines it models, and lists runs,
mutants, findings, hazards and theorems.

Contents: 1 inventory; 2 plan; 3 modules; 4 runs; 5 fairness and deadlock;
6 proofs; 7 findings and known divergences; 8 what is not modelled.

## 1. Inventory

### The PKCS#11 engine

OpenSSL hands RSA, DSA and DH keys, ciphers, digests and random numbers to the
engine; the engine runs them in the sessions of a PKCS#11 library. Its state is
static: it belongs to the process, not to an `ENGINE`.

| Component | State | Operations | What makes it correct |
|---|---|---|---|
| Life cycle and sessions (`E`) | `pk11_library_initialized`, `pk11_pid`, `pk11_engine`, the mutexes, one list `session_cache[type].head` per operation type, the static `pid` of `pk11_get_session` | `bind_pk11`, `pk11_library_init`, `pk11_finish`, `pk11_get_session`, `pk11_return_session`, fork handlers | A structure has one user or is in one list, once; nothing freed is referred to; a child opens sessions of its own; no mutex is used that is not there |
| RSA key objects (`P`, `E`) | In each session: handles of a public and a private object, the RSA structures they were made from, their numbers, `persistent`; in the process: `active_list[OP_RSA]`, the reference count of every handle, and `find_lock[OP_RSA]` | encrypt, sign, decrypt, verify; load a key from a file or by a `pkcs11:` URI; free a key; free all keys | The list counts exactly; no object is destroyed while cached; none is created twice or left over; the object used is made of the key the caller passed |
| Symmetric ciphers (`E`) | In each session: the key object, the saved key bytes, the last direction; in each context: its session | init, do_cipher, cleanup | Contexts never share a session; a key is reused only if it is the same; sessions and objects come back |
| Digests (`E`) | In each context: its session, whose operation holds the data | init, update, final, copy, cleanup | The session holds what the context was fed, after copies too; sessions come back idle |
| Login and PIN (`U`) | `pk11_login_done`, `passphrasedialog`, the cached PIN, `uri_lock` | `pk11_token_login`, `pk11_token_relogin`, `pk11_get_pin`, `pk11_cache_pin` | One `C_Login` in a process; success means logged in; no PIN left in memory |
| Locks (`E`, `P`, `U`) | `find_lock[]`, `session_cache[].lock`, `uri_lock` | every entry point; the fork handlers take them all | No wait cycle; a fork happens with every mutex held by the forking thread; all are released |
| Slot selection (`E`) | `pubkey_SLOTID`, `SLOTID`, `rand_SLOTID`, `cipher_nids`, `digest_nids`, the table of the hardware's mechanisms | `pk11_choose_slots`, again after a fork or a finish | What is registered the chosen slot can do; no slot can do more |
| DSA, DH, random (`P`, `E`) | as RSA, with one object for DH; temporary objects of a call | sign, verify, generate, compute, random bytes, free | as RSA; no temporary object is left |
| Errors and binding (`e_pk11_err.c`) | tables | none | none |

How they interact. A thread in an operation takes a session of the operation's
type from the list (mutex of the list), works on its fields without a lock (it
is the only user), takes the find lock around searching, creating, counting and
destroying objects, and returns the session. A key load by reference also logs
in, under `uri_lock`. `fork` runs the handlers, which take every mutex before and
release them after; the child notices that `getpid()` has changed the next time
it gets a session and rebuilds that list, logging in again if the parent had.
`pk11_finish` frees all lists.

What is hard: threads on the active list and in find-or-create; RSA structures
freed by the application and their memory reused while a session still
remembers the address; a fork between any two calls; more than a dozen calls
that may fail in the middle of a rollback; sessions which one function returns
to the pool and another still holds; static state shared by operation types and
by `ENGINE` structures.

### Other programs of the repository

| Component | State | Operations | What makes it correct |
|---|---|---|---|
| `/dev/crypto` engine (`e_devcrypto.c` of 0.9.8) | one descriptor with a count of loads, the list of the hardware's ciphers, a session of the device in each context | bind, finish, cipher init, do_cipher, cleanup | Open as long as a load needs it; each context has its own session with its key; sessions are closed |
| Health monitor: disks (`healthMonitor.c`, `kr_iostat.c`) | the disk table, the sorted list of kstats, two cursors over it with flags to start again | read the configuration, refresh a disk, follow the kstat chain | A refresh finds every disk, none twice; only removed disks leave; the manager knows each level |
| Health monitor: rules | state and level of each rule | refresh, six rules | An alarm that opens or closes is told; so is one that worsens |
| Entity MIB (`entityMib/`) | five linked lists that refer to each other by index, negated when stale; the throttle of the trap | add, delete, mark stale or live, relate and separate entries | No row names an entry that is gone; parents are consistent; a change is reported |
| Process table, terminals (`sunProcesses.c`) | the cached table of processes; the devices of `/dev`, and the file they are kept in | get-next walks, sets that send signals, refresh, read and write of the file | A walk lists every process that lived all the while; the list is one that a search found |
| ZFS pools (`zprop_access.c`, `zfs.c`) | a list of pools with names in a copy of the configurations, a read-write lock | refresh, walk, release | The list is that of the configurations; the lock is given back |
| mod_sed | the compiled script; the line, held and appended text; output buffer and buckets | compile, run on a bucket, finalize; both filters | Output is that of the script on the whole stream, wherever buckets end |
| run-parts | the list of entries, the part, its two pipes | skip, fork, select, read, wait | All output is reported under the part's name; nobody waits for ever |
| Support data collector (`collector.py`) | a queue, worker threads, child processes with timeouts | | not modelled, planned |
| Boot environment manager (`apt-clone`) | clones of the root file system, boot menu | | not modelled, planned |
| Zone brand scripts (`zones/dpkg`) | a zone's file systems | | not modelled, planned |
| OpenSSL 0.9.8 PKCS#11 engine | an earlier edition of the same engine | | not modelled: the same design |
| mod_auth_gss, nginx PAM, driver detection, package tools, exporters, make rules | none between requests, or batch text | | not modelled |

The agent has one thread: its modules interleave requests, alarms (timers) and
what the kernel does between them. mod_sed is called by Apache with brigades of
buckets that end anywhere. run-parts runs concurrently with its part and with
processes the part leaves behind.

## 2. Plan

Done: the engine of OpenSSL 1.0.1 (`Pk11Rsa` with the abstract specification
`ObjectStore`, `Pk11Sessions`, `Pk11Cipher`, `Pk11Digest`, `Pk11Locks`, `Pk11Login`,
`Pk11DsaDh`, `Pk11Slots`), `DevCrypto`, the SNMP agent (`EntityMib`, `HealthDisks`,
`HealthRules`, `PoolCache`, `ProcTable`, `TtyDevices`), mod_sed (`SedScript`,
`SedFilter`, `SedRegexp`), `RunParts`. Proofs: every safety property that a run
checks of the engines, of run-parts and of the agent.

Left, in this order:

1. `Pk11ActiveList`: the list with its pointers, `pk11_active_add` called without
   the find lock and `pk11_free_active_list`, refining the counts of `Pk11Rsa`.
2. `pk11_finish` together with logins (`pk11_login_done` is not reset).
3. The collector, `apt-clone`, the zone brand.

To keep the modules provable, every one takes its sets as CONSTANTS with named
assumptions, has one action per handler or per stretch between two points where
others may interfere. The modules with a theorem, and those they use, have no
RECURSIVE operator; `SedScript`, `SedFilter` and `SedRegexp`, which only TLC runs,
have them for the loop of `execute`, the lines of a buffer and the matcher.

## 3. Modules

Each component has a module of its own. The modules for TLC put several of them
side by side:

| Module | Parts |
|---|---|
| `MCPk11Rsa` | `Pk11Rsa`, with symmetry |
| `MCEngineProgress` | `Pk11Locks`, `Pk11Rsa`, with fairness |
| `MCPk11Life` | `Pk11Login`, `Pk11Sessions` |
| `MCEngineOps` | `Pk11Cipher`, `Pk11Digest`, `Pk11DsaDh`, `Pk11Slots`, `DevCrypto` |
| `MCHost` | `RunParts`, `EntityMib`, `HealthDisks`, `HealthRules`, `PoolCache`, `ProcTable`, `TtyDevices` |
| `MCPrograms` | `MCHost`, `SedFilter` (with `SedScript`), `SedRegexp` |

`MCHost` has what can be proved about, with its constants as parameters;
`MCPrograms` adds the modules with RECURSIVE operators and the values.

The parts of such a module share no variable. The initial state picks one
(`part`, `program`), and only that one moves; the others stay in one initial
state, so the states of a run are the sum and not the product of its parts, and
each part is explored as fully as alone. The properties of a run are
conjunctions over its parts. Model values are shared between parts where that
keeps the symmetry sound. A theorem about a part in a module of proofs is one
about the run: `Pk11Life_proofs` and `EngineOps_proofs` take `Pk11Sessions_proofs`,
`Pk11Digest_proofs` and `Pk11DsaDh_proofs` as instances, and show, as `Host_proofs`
does, that a behaviour of the run is one of each of its parts.

Operators named `...Bug` stand next to the definition they are a faulty form of;
no behaviour uses them; they are what the properties are known to detect.

**What a step is.** A thread in the engine is at a label `pc`, and an action does
all that happens up to the next point where another thread can see or change
shared state: a lock or unlock, or a call of the token inside the find lock.
Fields of a session that only its user touches are changed in larger steps. The
token is external and modelled from its use: an object store, one active search
and one active operation per session, each call succeeding or returning an
error. In the single-threaded programs a step is a call, a request, a timer, or
one iteration between which the kernel, another process or the next bucket can
come.

**Failing calls.** `AllFaults` names the calls that may fail. In `Pk11Rsa`,
`Pk11Digest` and `Pk11DsaDh` the constant `Faults` says which do. In `Pk11Sessions`,
`Pk11Cipher` and `Pk11Login` the initial state picks `faults` from `FaultSets` and
keeps it, so that one run checks several sets; the properties say which
failures they exclude, and section 7 says why.

**Pk11Rsa** (`P` 112-2120, `E` 1513-1760). State: `content`, the RSA structures of
the application at the addresses `Rsas`, reused when freed; `obj`, the session
objects of the token; `ref`, the active list as the count of each handle; `lock`;
for each session `key`, `ptr` (`opdata_rsa_pub`, `_priv`), `num` (`n` and `e`),
`persistent`, `searching`; for each thread its step, entry point and locals. The
entry points (`Ops`) are operations with a public or private key, loads of either
from a file, loads of either by reference. Every one goes through
`pk11_get_session`, `check_new_rsa_key_*` (with the deletion of what the session
cached), `pk11_get_*_rsa_key` (find, create, count, store) or `pk11_load_*key`, use,
return. `NewRsa` and `FreeRsa` are the application's; `FreeRsa` leaves out
structures a thread is using, and structures the engine still references. An
RSA structure loaded from a file or the token keeps a reference of the engine
(`own`), as in the code. The free list is a set: any free session may be
handed out.

**ObjectStore**. What the comment at `KEY_HANDLE_REFHOLD` promises: places cache
handles of live objects, an object is destroyed only when no place does.
`Pk11Rsa!Store` maps the pairs (session, class) to places; between counting and
storing a handle, and between deleting and clearing one, `Held` says where it is.

**Pk11Sessions** (`E` 905-1830). One address space is followed: `Fork` goes on as the
child, whose PKCS#11 library is not initialized and whose contexts keep their
session. Lists are sequences; `owner[s]` is `sp->pid`. The error paths of the
clean-up after a fork are alternatives of `GetForked`, with what each leaves
behind: that the head is not set, that the structure has been freed.
`crashed` records that a mutex that does not exist was locked.

**SessionPool** (`E` 1543-1720). The free list of one operation type for `Pk11Cipher`
and `Pk11Digest`, linked as in the code (`head`, `next`), so that a structure can be
in it twice; `alive` are the structures that were ever allocated.

**Pk11Cipher** (`E` 2240-2960). Keys are sequences of bytes, compared and saved up
to `KeyLenMax` as the code does. `pk11_cipher_init` is a sequence of
steps, `CheckKey`, `GetCipherKey`, `CipherFinal`, `Start`; the token ends an operation
when a call on it fails.

**Pk11Digest** (`E` 2700-2900). The data in a session's operation is the sequence of
chunks; `pk11_digest_copy` initializes the target, then transfers the state.

**Pk11Locks**. The sequence of lock operations of each entry point, and the fork
handlers, as programs run by threads; nothing else. Mutexes are not recursive:
the code gives them default attributes.

**Pk11Login** (`U` 105-200, 580-800). The PIN comes from the terminal and is not
cached; the locks taken by caching and by an external program are in
`Pk11Locks`. `dialog` is `passphrasedialog`, what a child needs to log in again. A
fork takes place with every mutex held, so no thread is inside `C_Login`; the PIN
copies of threads that do not exist in the child belong to nobody and are not
counted.

**Pk11DsaDh** (`P` 2030-3200). As `Pk11Rsa` with fewer interleavings: a search, the
creation and the count are one hold of the find lock and one step. A session
caches a DSA public and private handle or a DH one; a pair has one number;
`temps` are the objects of a DH key generation or derivation that the call has
to destroy, `answer` is what the call will return.

**Pk11Slots** (`E` 2990-3500). A slot offers mechanisms with key lengths, kinds of
keys, random numbers. One action per slot that is looked at, as the answers of
`C_GetMechanismInfo` are kept in static variables from one cipher, slot and
library to the next. A second initialization starts from the old values.

**DevCrypto**. `Garbage` is what a context's memory holds before its first
initialization: OpenSSL 0.9.8 does not clear it (`EVP_CipherInit_ex` allocates it
with `OPENSSL_malloc`), so it may look like a session id, and `engine_ops` has
contexts whose memory does and does not. `stray` are the contexts with an id that
is not their own: their initialization failed before it set one, and their
clean-up closes the session of that id, which may be another context's
(`Robbed`). `rekeyed` counts keys set in a context that has one, which leaves the
old session open. The clean-up of the engine is one step: the code decrements the
count and looks at it in two holds of the lock (1144-1149), which is the same as
long as one thread loads and finishes engines.

**EntityMib**. Lists are sequences; a tail is the index of the last entry, or
`Freed`. Calls that run the lists into undefined behaviour set `broken`, after
which nothing is claimed. `pending`, `quiet` and `due` are the throttle of the trap.

**HealthDisks, HealthRules**. The kstat reader's two cursors (`detail`, `srv`) and
their flags; the table is a sequence of entries marked, updated and swept as in
`refresh_DISK_table`, where a row is found by the beginning of its name
(`Matches`). The readers of `kr_iostat.c` return 0 or 1, never less, so what the
passes would do after an error of theirs (1855, 1967) is not modelled. A rule is
followed by its level and state, and what the manager was told; its readings are
small numbers on both sides of each threshold.

**PoolCache, ProcTable, TtyDevices**. The system's side (pools with a generation,
processes with the time of their birth, devices) changes between requests.
`ProcTable` follows one walk and one set at a time. In `TtyDevices` a write of the
file may stop in the middle, when the agent is killed.

**SedScript, SedFilter, SedRegexp**. Text is a sequence of characters of a small
alphabet. `fcomp` gives commands with addresses and branch targets by position;
`execute` runs them on a line. `SedFilter` cuts a stream into buckets in all ways,
with FLUSH and other metadata buckets between, lets a pass to the next filter
fail, and compares with the whole stream. A read of a bucket never fails, and
after a failed call a request gets no more brigades. `SedRegexp` compiles tokens
to a program of single tests with repetitions, and `_advance` is a recursive
function; the reference `Matches` is the set of all matches, without an order of
trying.

**Sublists** is `SelectSeq` with a set for its test, as a recursive function, which
can be reasoned about; the disks, the pools and run-parts select with it.

**RunParts**. `Read` takes from either pipe what `select` says is ready; the part and
the processes it left write and end at any time.

## 4. Runs

States are distinct states; every run finishes within a few minutes with two
workers. Symmetry is used over threads, sessions, addresses, handles, contexts
and operation types where they are interchangeable, and not where liveness is
checked.

| Run | Question | States |
|---|---|---|
| `rsa_ops` | Two threads, two keys, two addresses, any interleaving, memory, `C_CreateObject` and `BN_dup` failing: do the counts, the objects and the key used stay right, and is it a reference counted store? | 566 000 |
| `rsa_loads` | The same with keys loaded from files and by reference: is an object ever destroyed under a session? | 1 650 000 |
| `engine_progress` | Three threads, a call of any kind each: which threads can wait in a circle, no fork with a mutex held, do all other calls end? And two threads in RSA operations with a private key, every call failing: is the find lock always given back? | 103 000 |
| `engine_life` | Three threads in a process and its child that log in; two users, types and engines that initialize, use, fork and finish, with each group of failures: one login, access, no PIN left, and consistent lists of sessions? | 704 000 |
| `engine_ops` | Ciphers, digests, DSA and DH, slots, `/dev/crypto`: does each context have its own session, key and data, does everything come back, can the slot do what is registered? | 824 000 |
| `programs` | mod_sed, run-parts and the modules of the agent: the properties of section 1 | 269 000 |
| `rsa_wrong_key`, `sess_two_types`, `cipher_long_key`, `locks_caching`, `slots_pubkey`, `sed_quit` | violations, see 7 | |

Why the bounds are enough for the interesting cases.

*Engine.* Two threads suffice for a race in find-or-create or on the counts, since
each step under the lock concerns one handle and one other holder; two
addresses and two keys allow an address to be reused for another key while a
session remembers it; two handles allow a public and a private object at once,
and a creation that has to wait for a destroyed one. `rsa_loads` has one key: the
count of its handle is what matters, and a session lost by an error path is
allowed for. In `engine_progress` two types have a find lock and one has none;
with three threads one forks while another cleans up after a fork, and a third
takes what either waits for. In `engine_life` two threads
race for the login while a third has asked for its PIN already, or holds another
type's mutex; three structures allow two in use and one cached, two processes
one fork, two types and two engines the confusion of shared static state. The
failures come in groups: some that no clean-up after the fork meets (memory,
loading, a missing slot), so that what is said of clean-ups that work is checked
in the child, and some that it does. A part of its own (`onetype`) has sessions of
one type. In
`engine_ops` keys are at most as long as `KeyLenMax` and one is a prefix of another;
three digest contexts allow a copy of a copy; one address with two numbers is
a DSA or DH key freed and another made in its place while two sessions may
remember it; four kinds of slots in every order of two, with two ciphers that
share a mechanism, and a hardware library that has or lacks them; two loads,
two engines and two session ids of the device, one of which the memory of a new
context may hold.

*Programs.* The seven scripts have every command but `g`, `w` and `y`, each kind of
address, ranges, nested braces, loops, branches without a label, two in one
script, and a branch to a label that is missing;
the streams end with and without a newline and have an empty line; buckets end
anywhere, and the output buffer holds two characters, so it overflows. The
expressions are all those of up to three tokens and some with groups, on every
line of up to three characters. The parts of run-parts write two chunks to
pipes that hold one. Five calls on the entity tables with three indices, of which
the callers name the first and the last and leave the middle one to be found, relate
two entries in every table and delete one. Three disks, the name of one of which
begins those of the others, come and go twice; the
readings of the rules are on both sides of each threshold. Three pools, of
which the first cannot go, change four times. Three processes and two births
change the rows before and behind a walk. Two devices make the list of
terminals grow once.

Named bounds: the sizes of the sets; `MaxPid` (`Pk11Sessions`, `Pk11Login`);
`MaxCalls` (`Pk11Locks`, `EntityMib`); `MaxLen` (`Pk11Digest`); `MaxInits` (`Pk11Slots`);
`MaxId`, `MaxLoads` (`DevCrypto`); `MaxFlush` (`SedFilter`); `MaxLine` (`SedRegexp`);
`MaxWrites` (`RunParts`); `MaxEvents` (`HealthDisks`); `MaxGen` (`PoolCache`);
`MaxClock`, `MaxBorn` (`ProcTable`); `MaxTime` (`TtyDevices`); `Sessions`, `SHandles`
and `Handles`, which bound allocation.

## 5. Fairness and deadlock

`engine_progress` checks `LockReleased` and `CallsEnd` under weak fairness of every
thread's `Step`: a thread inside the engine keeps running, as the operating
system schedules it, and token calls return. Threads need not call. No fairness
is assumed among threads competing for a mutex: for `LockReleased` it is not
claimed that a thread gets the lock, only that the lock is released, and for
`CallsEnd` every thread makes a bounded number of calls, so nobody can be
overtaken forever; with unbounded calls POSIX mutexes would not promise that.
`programs` checks `ChangeTold` under weak fairness of `PeriodOver` and
`alarm_entLastChangeTime`: time goes on, and the agent's main loop runs the alarms
that are due.

Deadlock is checked in `rsa_ops`, `engine_progress`, `engine_life` and
`engine_ops`; a stuttering disjunct allows what may stop: a process that has
crashed in `engine_life`; the parts for keys, slots and `/dev/crypto` in
`engine_ops`, whose handles, initializations and loads are bounded. It is not
checked in `rsa_loads`, where the code leaks the RSA structures and sessions of
failing loads until the bounds are exhausted, and in `programs`, where programs
end.

## 6. Proofs

Every theorem is for all values of the constants: any number of threads,
sessions, contexts, keys, handles, forks and operation types, and any choice of
failing calls but those a hypothesis names. The assumptions on constants
(`RsaAssumption`, `LoginAssumption`, `LocksAssumption`, `PoolAssumption`,
`SessionsAssumption`, `DigestAssumption`, `KeysAssumption`, `SlotsAssumption`,
`DevAssumption`, and the five of `HostAssumption`) say that `Nil` is in none
of the sets, that names of entry points and failures are known ones, that
types, ciphers, disks, pools and the entries of a directory are listed once,
that a pipe holds at least one chunk, that there is a process, and in `Pk11Rsa`
and `DevCrypto` that some sets are finite; TLC evaluates each in a run.

**Pk11Rsa_proofs.** `TypeOK` is not inductive: that a count does not go below zero,
or that `content[rsa[t]]` is a structure and not `Nil`, depends on where the thread
is. `CallInv` adds at which steps a thread works on an RSA structure, that this
one exists, which entry points reach which steps, and that only operations
with a key share their RSA structure, so a loader that frees its own frees
nobody else's. On top of it:

| Theorem | Property | Hypotheses | Invariant |
|---|---|---|---|
| `TypeCorrect` | `TypeOK` | | `CallInv` |
| `HandlesNeverDangle` | `NoDanglingHandle` | `"final"` not in `Faults` | the places that hold a handle, lost sessions aside, are at most its count |
| `KeysAreCreatedOnce` | `NoDuplicateObjects` | | between the search and the creation of a thread with the lock no object matches |
| `NothingLeftBehind` | `NoOrphan` | no `"refpriv"`, no `"destroy"` | who is about to count, or to destroy, has the lock |
| `CountsAreExact` | `RefsExact` | `Ops` in `KeyOps`, no `"final"` | the count is the number of places, with `Held` for the one a thread moves |
| `ImplementsObjectStore` | `StoreSpec` | the same | the same: each step creates, holds, drops or destroys as `ObjectStore` may, or stutters |
| `StoreNeverDangles` | `Store!NoDangling` | the same | `ObjectStore` keeps its promise, and is implemented |
| `KeyInUseIsRight` | `UsesRightKey` | no loads by reference, no `"final"` | a cached handle is of the number the session remembers; this number is compared at `check` |

The hypotheses are the lines of section 7: when `"final"` fails (P:1655) a handle is
stored and not counted; the loaders lose sessions and attach a key over another
one (P:1394, P:1355), so the exact counts are about operations with a key, and
the key in use about these and loads from files; P:1324 leaves a session
object; an object that cannot be destroyed stays.

**Pk11Locks_proofs**, for all calls but the two that lock a mutex twice
(`PairedCalls`: not the one of the finding `locks_caching`, nor the one that forks
under its mutexes to ask for the PIN, U:768): `LocksTypeCorrect`,
`LocksOnlyKnownCircles` (`NoWaitCycle`), `ForkingIsAlone` (`ForksAlone`). What is left of a
thread's call tells which mutexes it holds: those it unlocks before it locks
them again. Two calls nest mutexes, in different orders: a fork takes the find
locks, `uri_lock` and the locks of the session caches, in this order (E:1025-1040);
`pk11_get_session` in a new process takes a find lock or `uri_lock` under the lock
of a cache (E:1602). So a fork and such a call can wait for each other for ever, and
that is a deadlock of the code: a child with several threads, of which one forks
again while another makes its first call. `NoWaitCycle` names these circles (`Known`)
and says that there are no others. The proof: in a circle without such a call
everybody locks upwards, and whoever holds the highest mutex that is waited for
does not wait (the mutexes are ranked and the greatest is taken, instead of
following the circle); in one without a fork everybody holds the lock of a cache
and waits for another kind of mutex, which nobody in the circle holds.

**Pk11Sessions_proofs** and **Pk11Life_proofs.** A structure is in one list, or in the
chain of one user of `pk11_get_session`, who holds the lock of the list it comes
from; freeing takes whole lists and chains. `SessionsInv` says so as long as
clean-ups work (`InPlace`), that only the process that started the library is
certain not to lose structures (`Kept`), and which mutexes are there (`Locked`).
From it: `SessionsStaySafe` (nothing freed is referred to, `NoDangling`; no mutex that
is not there is locked, `NoCrash`), `SessionsStayOnce` (`Exclusive`, `NoLeak`) and
`OneTypeOwn` (`OneTypeHandsOutOwn`), which proves what `sess_two_types` refutes: with one
type of operations, every session handed out is of the process that gets it,
over any number of forks. Among the causes is then only the shared `pid`. The
clean-up has to work: when the slots cannot be chosen again `pk11_get_session`
returns the inherited session it had taken (E:1623-1627), and the theorem says nothing
of a process in which that can happen.

Of the login: `LoginHappensOnce`, `LoginGivesAccess`, `LoginErasesPin`. `LoginInv` has
- `Holds`: while it sets up a session a thread holds the mutex of its type;
- `Numbered`: `pid` names the process that last got a session, and a process that
  never did has not logged in;
- `DoneFirst`: a login or a dialog implies `done`, and a thread about to call
  `C_Login` is in a process that is not logged in. The latter needs `uri_lock`
  (part of `TypeOK`: it is held exactly around `C_Login`), because another thread may
  set `done` without a login meanwhile;
- `OneType`: if all sessions are of one type, the thread that detects a fork is
  alone until it has logged in. This is what fails with two types;
- `Reached` and `PinHeld`: where the login has reached the key store, and where a
  thread has a copy of the PIN.

**Pk11Digest_proofs, EngineOps_proofs.** `Pool(P)` says that the
free list is linked through exactly the set `P`. Taking and returning keep it if a
structure that is returned is not in `P`: a lemma for each. For
digests and ciphers the invariant is that there is such a `P`, whose sessions have
no operation, and every other session that was allocated is of one context.
`DigestsStayIntact` (no hypothesis) and `StreamsAreIntact` follow, and
`AllSessionsAreKept` if no context is initialized while it has a session
(`~InitAgain`, row E:2314). The ciphers' hypotheses name what `check_new_cipher_key`
compares: keys that differ in what is saved (`BytesTold`, which `cipher_long_key`
lacks), and keys of two types that differ in their bytes (`TypeTold`), or keys of
one type (`OneType`, row E:2362). Failing calls are in the statements
(`SharesAfter`). That a key object is in the cache of one session needs that no
two contexts share a session, so `NoOrphan` has the condition on `SharesAfter` as well:
without it, it is false with three contexts and a failing `C_EncryptFinal`, which
the run's two contexts cannot show.

**Pk11DsaDh_proofs**, with no hypothesis on failing calls: `RefsAreExact`,
`OneObjectForAKey`, `CallsUseRightKey`, `NoObjectOrphaned`, which `EngineOps_proofs` turns
into `KeysAreCounted`, `RightKeyIsUsed` and, with the ciphers, `NoObjectIsLeft`. A
cached handle names an object with the number the session remembers, and the
count is the number of places that cache it (`CachedRight`, `Refs`). What makes
it inductive are the objects a call makes for itself (`Temps`): nobody's search
finds one, since what is derived has another kind and what is generated has a
number that is in no structure but the one being filled, which no other call
uses (`Apart`). So an object that a search finds is counted, and stays the only
one of its key.

**EngineOps_proofs**, of the slots: `SlotsAreRight`, with no hypothesis but
`SlotsAssumption`. `pk11_get_symmetric_cipher` keeps its last answer in static
variables and asks the token only when the mechanism changes (E:3286), from
one cipher, slot and initialization to the next. This is harmless because the
table of ciphers begins and ends with different mechanisms (E:378-410, the
last conjunct of `SlotsAssumption` about `Ciphers`): the first question about a
slot is always asked. `SlotInv` has `Fresh`, which says what the kept answer is about;
`Registered`, that what is listed the chosen slot has; `HwTable`, that the limits
of the hardware are those it reports; `BestSoFar`, that no slot looked at has more.

Of `/dev/crypto`: `DeviceIsRight` (no hypothesis: `Referenced`, the count is of the
loads not finished; `FirstList`, the list after one load) and `DeviceSessionsRight`
(no hypothesis: whatever the memory of a new context holds, which OpenSSL 0.9.8 does
not clear). `OwnIds` says that two contexts have different sessions, but for
the contexts that have an id left in their memory (`stray`) and those whose session
such a context closed, and that the open sessions no context has (`LeftOpen`) are at
most as many as keys were set again. `OpsTypeCorrect` is the type invariant of
all parts, for finitely many sessions, which bound the counts of DSA and DH.

**Host_proofs**, of the agent and run-parts:

| Theorem | Property | Hypotheses | Invariant |
|---|---|---|---|
| `HealthIsTold` | `HealthTold` | | `DiskInv`, `RuleInv` |
| `OnlyRemovedLeaves` | `OnlyRemovedLeave` | | `DiskInv` before and after the step |
| `EntityTablesRight` | `EntityTables` | | `EntInv`: each table is in the order of its index, with its tail; a row names rows that exist; the container an entry shows comes before none that contains it (`LowestIn`) |
| `PoolsAlwaysRight` | `PoolsRight` | `SystemPoolFirst` | `PoolInv`: the list and the copy have the same pools, each of them once, and both begin with one that never goes |
| `HostTablesRight` | `HostTables` | | `ProcInv`: a walk's rows are in order up to the pid it is at, and a process that lives since the walk began and is not past that pid is listed; `TtyInv` |
| `PartsAlwaysReported` | `PartsReported` | | `PartsInv` |

`SystemPoolFirst` is the line of section 7 about `zprop_access.c`.
`DiskInv` says which disks a refresh has touched: of the list, those before the
cursor `srv` whose end ends the refresh (`CursorRight`, `RefreshRight`). Either
cursor may be started again at a hotplug, so the proof is about the order in which
the two are tested. A touched row is the first one of its disk (`FirstTouched`):
that is why one row per disk is left by the sweep (`OneRowEach`), which removes what
was not touched and never looks at the first row of the table.
`PartsInv` says of each pipe that what was shown is of other parts, then the name
if the pipe is titled, and then the first `n` chunks of the part, and that the pipe
has the rest (`Split`); that at most one pipe is titled, exactly when `printflag` is
set; and that a closed pipe is empty and has no writer (`PipesClosed`).

Induction over data is done over sets of numbers: `LeastNumber` and
`InductionTo` follow from the library's theorem that the proper subsets of a
finite set are well-founded, so what `Sublist`, `NewList`, `FindCiphers` and
`FindDigests` compute, which are recursive functions, is proved for every input.

What proving changed in the models: `ProcInit` admitted one process under two
pids; `CASE` arms that overlap (disks, entity tables, rules, scripts) are now
`IF` chains in the code's order; that a directory lists a name once and a pipe has
room had not been said (`PartsAssumption`).

What stays with TLC, and why:
- liveness (`LockReleased`, `CallsEnd`, `ChangeTold`): fairness and ENABLED are out
  of the prover's reach;
- mod_sed (`SplitAlike`, `PassedAlike`, `BranchesResolved`, `MatchesFound`): the
  interpreter, the lines of a buffer and the matcher are RECURSIVE operators;
- the type invariant of the programs together (`TypeOK` of `MCPrograms`), which has
  mod_sed's modules in it.

## 7. Findings and known divergences

Six runs expect a violation; each shows the code doing something its own
comments rule out.

- `rsa_wrong_key` (P:1355): `pk11_load_privkey` overwrites the `n` and `e` a session
  remembers without dropping the public key it caches. When the memory of the
  old RSA structure is reused for the new key, the check at P:1945 takes the
  old public key for the new one.
- `sess_two_types` (E:1581): one `pid` for all lists. The first call in a child resets
  it, so lists of other types are never cleaned and inherited sessions are used.
- `cipher_long_key` (E:2715): a key longer than 32 bytes is saved truncated, with the
  truncated length, so its first 32 bytes as a key are a cache hit.
- `locks_caching` (U:703): `pk11_cache_pin` locks the mutex its caller holds.
- `slots_pubkey` (E:3152): `pk11_choose_pubkey_slot` gets the best slot so far by
  value, so the slot for keys stays the first of the list (E:3084), while the flags
  that say which mechanisms it has are overwritten by every slot with any (E:3228):
  what is marked as present is what the last such slot has.
- `sed_quit` (apache2/mod_sed/sed1.c:373): after the line held from the buffer before,
  `quitflag` is not looked at, so one more line runs after a `q`.

While modelling, further places were met where a property holds only if some
call does not fail or is not made. The properties exclude exactly these cases,
as their comments say; each can be reproduced by removing the condition or
changing the constants named.

| Where | What happens | Excluded by |
|---|---|---|
| P:1324 | the `persistent` flag of an earlier private key stays, a session object is then never destroyed | `NoOrphan` checked without loads by reference |
| P:1541 | a key loaded from a file may hit the cached handle, against the comment there; it is then the same key | nothing: `KeyInUseIsRight` includes these loads |
| P:1655 | `C_FindObjectsFinal` fails: the handle is stored and not counted | `"final"` only in `engine_progress` |
| P:1646 | `C_FindObjects` fails: the search stays open and the session can search no more | `"find"` only in `engine_progress` |
| P:1394 | the error path of a loader does not return its session | `NoDanglingHandle` leaves lost sessions out |
| E:1627, E:1657, E:1793 | a call fails in the clean-up after a fork or of `pk11_finish`: the heads keep pointing at freed structures | `CleanUpWorks` |
| E:1223 | no slot was found, the engine is finished: a mutex that is not there | `NoCrash`: `"noslot"` |
| E:1251 | a mutex allocation fails with the library marked as initialized | `NoCrash`: `"locks"` |
| E:1845, E:1697 | a child: initializing again clears `pk11_engine`; inherited sessions in contexts are lost | `NoLeak`: `me = 1` |
| E:2352 | `C_DestroyObject` fails: the old key object is used for the new key | `StreamIntact`: `"destroy"` |
| E:2362 | equal bytes as keys of two ciphers are one key | one type in `ShortRequests` |
| E:2296, E:2540, E:2387 | a failing init, final or reopening returns a session that the context keeps, or that is closed: two contexts have one session, the data of one is encrypted with the other's key, and with three contexts the key object of a session is left in the token | `SharesAfter` in `StreamIntact`, `SessionsKept` and `NoOrphan` |
| E:2314, E:2744 | a context initialized again forgets its session | `InitAgain = FALSE` |
| U:714 | a public key on a token that requires no login sets `pk11_login_done`: private keys later skip the login | `KeyAccess`: `required` |
| U:772, E:1651 | in a child two types log in twice; the second fails and its session is lost | `LoginOnce`, `KeyAccess`: `used = {RSA}` |
| U:768, U:684, U:778 | in a child the PIN cannot be asked for, its dialog was not copied, or the login fails: no access later, or the PIN stays | conditions on `faults` |
| U:768, E:1602 | the dialog run in a fork under the mutexes; cleaning up after a fork against another thread's fork: both wait for ever | these circles in `NoWaitCycle` (`Known`); `CallsEnd`: or a circle |
| P:2079, P:2201 | without a key handle `pk11_dsa_do_sign` makes a signature of an uninitialized buffer, `pk11_dsa_do_verify` returns its initial value | `AnswersReal` of `Pk11DsaDh` is in no run |
| E:3131 | `hw_cnids` is freed and not set to NULL; a second selection allocates it again | nothing: seen, harmless as called |
| `e_devcrypto.c` 605 | a second load lists the ciphers again behind the first ones | `FirstCiphersRight`: `loads <= 1` |
| `e_devcrypto.c` 1144 | the engine has no init function: initialized and finished twice, the descriptor is closed too early; the count is looked at outside its lock | `Reinit = FALSE`; loads are by one thread |
| `e_devcrypto.c` 857 | a new key in a context leaves its session open | `SessionsLeft`: `rekeyed` |
| `e_devcrypto.c` 803, 1118 | a context whose initialization fails before it has a session is cleaned up with the id that is in its memory, and closes the session of another context that has it | `stray` in `OwnSession` and `SessionsLeft` |

### The agent

- `entPhysicalTable.c` 1036: deleting an entry leaves its index in the
  `entPhysicalContainedIn` of its children, and a new entry is not asked whether it is
  below itself, so adding 1, adding 2 in 1, deleting 1 and adding it in 2 makes
  each an ancestor of the other (`NoCycle` is in no run).
- `entPhysicalTable.c` 1187: `getAllChildrenFromPhysicalContainedIn` keeps the
  first and the last child only; 1044: the tail pointer keeps the freed entry; indices go
  past `MAX_ENTITY_INDEX` (both set `broken`).
- `healthMonitor.c` 2063: the sweep frees the head of the list and does not look at
  the entry that becomes the head, so a removed disk may stay one refresh
  (`RemovedGone` is in no run); 1985 compares names over the length of the new one,
  so a hot-plugged `sd1` is taken for `sd10` and gets no row of its own, and a
  removed disk may keep the row of another (`Found`: `TableComplete` and `RemovedLeave`
  say "a row that is found for it"); after a failed `malloc` the table is not
  refreshed again; a rule's highest level is not reset when it closes, so an alarm that
  opens again is not told up to the level it had before (`AlarmKnown`: `closed`).
- `zprop_access.c` 328: if the first pool of the list is gone `prev` is NULL; the pool the
  system runs from stands first in the runs (`Root`). 82: if the properties cannot be
  read the node keeps a name in the copy that is freed (`PoolFaults` without
  `"props"`). A request that starts again at the first row takes the lock twice
  (`Sweeps = {1}`). `arc_access.c` 78 takes a read lock twice.
- `sunProcesses.c` 939: a set of two rows sends the first value to both, against
  `SUN-SEA-EXTENSIONS-MIB.txt` 229; between the request that reads the table and the
  one that signals, the process may have gone and its pid be another's
  (`SignalAsAsked`, `SignalToRow` are in no run). 226: the table stays freed when
  `/proc` cannot be opened (not modelled). 337, 404: `maxdev` is stale after the list
  was read from the file, so `gdev` writes past it (`ListFits` is in no run).

### mod_sed and run-parts

Places where libsed leaves its arrays or does not end are outside the runs'
scripts and expressions: nesting beyond `SED_DEPTH`, more appended texts than the
array holds (sed1.c 704, 908: off by one), a command too long for its buffer
(sed0.c 747), an output line longer than the buffer (mod_sed.c 170), `s/\(\)/-/g`
and `\(a*\)\1*b` (regexp.c 541), which do not end. Others change what is written
and are modelled: text after a `}` is dropped, `x` does not copy the line
(sed1.c 231), metadata buckets are not passed on (mod_sed.c 349), a status that
`sed_finalize_eval` returns is not looked at and EOS goes on (mod_sed.c 327), `s/a*b/X/g`
misses a match where the last ended (regexp.c 582; `NextFound` excludes expressions
that begin so). Branches without a label are chained through the pointer that is
to be their target, and at the end of the script only the last of them gets one
(sed0.c 439-446): each of the others goes on with the next branch instead of the
end. `BranchesResolved` asks for the end of the last one only; a script of the run
has two.
run-parts with `--exit-on-error` also stops after a part that succeeded when an
entry before was no executable file (run-parts.c 383), and waits with `--report` for
every process that holds the pipes.

## 8. What is not modelled

Of the engine: the bytes of attributes, templates and error messages; URI
parsing; sizes of buffers of ciphertext; the pointers of the active list (an
entry lost by the unlocked `pk11_active_add` of the loaders cannot happen in
`Pk11Rsa`, plan item 1); the run of an external passphrase program except for
its locks; `pk11_finish` together with logins. The token is external: it never
loses an object by itself and is not shared with another process.

Of the programs: the kernel memory rule of the health monitor and its other
kstat readers, the text columns of the entity tables, the ARC and data set
statistics, the single values of `sunHostPerf.c` and `sunSystem.c`, a failing
`malloc` in `sunProcesses.c`, what mod_sed reads from and writes to the files of
`r` and `w`, the patterns of names in run-parts.

Of the repository: the components of section 1 with that status, and all
third-party programs, which are data of the build here.
