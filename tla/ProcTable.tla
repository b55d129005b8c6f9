------------------------------ MODULE ProcTable ------------------------------
(***************************************************************************)
(* The table of processes (seaExtensions/sunProcesses.c).  The agent reads *)
(* /proc into pstable and reads it again when a request finds it too old;  *)
(* the age is taken from the time of the request before.  A manager walks  *)
(* the table with requests for the next row, and sets a row to have its    *)
(* process signalled.                                                      *)
(***************************************************************************)
EXTENDS Integers, Sequences, FiniteSets, Functions

CONSTANTS
  Pids,            \* process ids
  Nameless,        \* processes whose user has no name
  Signals,         \* values a row may be set to, 0 among them
  cache_lifetime,
  MaxClock,        \* time (bound)
  MaxBorn,         \* processes (bound); processes are numbered as they start
  Nil

VARIABLES
  clock, proc, born,          \* proc: [Pids -> number of the process, or Nil]
  cache_now, ps_cache_time,
  pstable,                    \* the rows [pid, who], which are sorted by pid, or Nil
  walk,                       \* [at, seen, steady], or Nil; steady: the processes of the
                              \* first table that have lived until now
  set,                        \* a SET that was reserved: a sequence of [row, value]
  sent                        \* the signals just sent: [to, row, value, asked]

procVars == <<clock, proc, born, cache_now, ps_cache_time, pstable, walk, set, sent>>

ProcAssumption == IsFiniteSet(Pids) /\ Pids # {} /\ Pids \subseteq Nat /\ Nil \notin Int

Alive == {proc[p] : p \in Pids} \ {Nil}
Whos(rows) == {row.who : row \in rows}

ProcTypeOK ==
  /\ clock \in 0..MaxClock /\ cache_now \in 0..clock /\ ps_cache_time \in 0..cache_now
  /\ proc \in [Pids -> 1..MaxBorn \cup {Nil}]
  /\ pstable # Nil => pstable \subseteq [pid : Pids, who : 1..born]

\* The processes there are when the agent starts, on all process ids but one.
FirstProcs ==
  LET numbers == 1..Cardinality(Pids) - 1
  IN {f \in [Pids -> numbers \cup {Nil}] :
        \A w \in numbers : \E p \in Pids : \A q \in Pids : (f[q] = w) = (q = p)}

ProcInit ==
  /\ clock = 0 /\ cache_now = 0 /\ ps_cache_time = 0
  /\ born = Cardinality(Pids) - 1
  /\ proc \in FirstProcs
  /\ pstable = Nil /\ walk = Nil /\ set = <<>> /\ sent = {}

-----------------------------------------------------------------------------
(* Reading /proc.                                                            *)

\* The users without a name are left out.
Rows == {[pid |-> p, who |-> proc[p]] : p \in {q \in Pids : proc[q] \notin Nameless \cup {Nil}}}

TooOld == cache_now - ps_cache_time > cache_lifetime

\* get_ps_data; there may be no memory for the table.
get_ps_data ==
  IF pstable # Nil /\ ~TooOld THEN UNCHANGED <<pstable, ps_cache_time>>
  ELSE pstable' \in {Rows, Nil} /\ ps_cache_time' = cache_now

-----------------------------------------------------------------------------
(* Requests.  sunProcessTable_handler takes the time once the rows of the    *)
(* request have been found.                                                  *)

\* get_first_data_point and get_next_data_point: the rows the iterator chooses from.
ScannedBug(table) == {row \in table : \E other \in table : row.pid < other.pid}
Scanned(table) == table
After(table, at) == {row \in Scanned(table) : row.pid > at}

\* A request for the row after the last one, or for the first.  Without a table
\* the agent goes on to whatever follows it, and the walk is over.
GetNext ==
  /\ walk = Nil => set = <<>>
  /\ walk # Nil => walk.at # Nil
  /\ get_ps_data
  /\ walk' =
       IF pstable' = Nil THEN Nil
       ELSE LET w == IF walk # Nil THEN walk
                     ELSE [at |-> -1, seen |-> <<>>, steady |-> Whos(pstable') \cap Alive]
                next == After(pstable', w.at)
                row == CHOOSE r \in next : \A other \in next : r.pid <= other.pid
            IN IF next = {} THEN [w EXCEPT !.at = Nil]
               ELSE [w EXCEPT !.at = row.pid, !.seen = Append(@, row)]
  /\ cache_now' = clock
  /\ sent' = {}
  /\ UNCHANGED <<clock, proc, born, set>>

EndWalk ==
  /\ walk # Nil /\ walk.at = Nil
  /\ walk' = Nil
  /\ sent' = {}
  /\ UNCHANGED <<clock, proc, born, cache_now, ps_cache_time, pstable, set>>

\* MODE_SET_RESERVE1: the rows of one or two variables.
Reserve ==
  /\ set = <<>> /\ walk = Nil /\ get_ps_data
  /\ pstable' # Nil
  /\ \E n \in 1..2 : set' \in [1..n -> [row : pstable', value : Signals]]
  /\ cache_now' = clock
  /\ sent' = {}
  /\ UNCHANGED <<clock, proc, born, walk>>

\* MODE_SET_ACTION: each row's process gets the value of the first variable.
Value(k) == set[1].value
Act ==
  /\ set # <<>>
  /\ sent' = {[to |-> proc[set[k].row.pid], row |-> set[k].row.who, value |-> Value(k), asked |-> set[k].value] :
                k \in {j \in DOMAIN set : Value(j) # 0 /\ proc[set[j].row.pid] # Nil}}
  /\ set' = <<>> /\ cache_now' = clock
  /\ UNCHANGED <<clock, proc, born, ps_cache_time, pstable, walk>>

-----------------------------------------------------------------------------
(* Processes and time.                                                       *)

Start(p) ==
  /\ proc[p] = Nil /\ born < MaxBorn
  /\ born' = born + 1 /\ proc' = [proc EXCEPT ![p] = born + 1]
  /\ sent' = {}
  /\ UNCHANGED <<clock, cache_now, ps_cache_time, pstable, walk, set>>
Exit(p) ==
  /\ proc[p] # Nil
  /\ proc' = [proc EXCEPT ![p] = Nil]
  /\ walk' = IF walk = Nil THEN Nil ELSE [walk EXCEPT !.steady = @ \ {proc[p]}]
  /\ sent' = {}
  /\ UNCHANGED <<clock, born, cache_now, ps_cache_time, pstable, set>>
Tick ==
  /\ clock < MaxClock /\ clock' = clock + 1
  /\ sent' = {}
  /\ UNCHANGED <<proc, born, cache_now, ps_cache_time, pstable, walk, set>>

ProcNext ==
  \/ GetNext \/ EndWalk \/ Reserve \/ Act \/ Tick
  \/ \E p \in Pids : Start(p) \/ Exit(p)

-----------------------------------------------------------------------------
(* Properties.                                                               *)

\* A walk that gets to the end has listed every process that was in the table
\* at its beginning and has lived since, no row twice and in order, even if
\* the table was read again in between and rows have come and gone.
WalkComplete ==
  walk # Nil =>
    /\ \A j, k \in DOMAIN walk.seen : j < k => walk.seen[j].pid < walk.seen[k].pid
    /\ walk.at = Nil => walk.steady \subseteq Whos(Range(walk.seen))

\* Each process gets the signal that its row was set to.  In no run, like the
\* next one: the README tells how they fail.
SignalAsAsked == \A s \in sent : s.value = s.asked

\* A signal goes to the process that the row is about.
SignalToRow == \A s \in sent : s.to = s.row
=============================================================================
