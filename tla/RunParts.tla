------------------------------ MODULE RunParts -------------------------------
(***************************************************************************)
(* run-parts (components/apt/run-parts.c): runs the parts of a directory   *)
(* one after the other.  With --report the output of a part comes through  *)
(* two pipes and is preceded by the part's name.  A part may leave another *)
(* process behind that has its pipes.                                      *)
(***************************************************************************)
EXTENDS Integers, Sequences, FiniteSets, SequencesExt, Sublists

CONSTANTS
  Directories,  \* what scandir may return: sequences of entries [kind, name], in order
  Modes,        \* sets of options
  PIPE_BUF,     \* chunks a pipe holds
  MaxWrites     \* chunks a part and what it left write to each pipe (bound)

\* No name is twice in a directory.
PartsAssumption ==
  /\ \A d \in Directories : d \in Seq(Range(d)) /\ \A j, k \in DOMAIN d : d[j].name = d[k].name => j = k
  /\ PIPE_BUF \in Nat \ {0}

Pipes == {"out", "err"}

VARIABLES
  mode, namelist, i,   \* the options; the entries; the one that is looked at
  at,                  \* "entry", "read" (select and read), "wait" (waitpid) or "end"
  part,                \* the part: [running, result, wrote: [Pipes -> Nat]]
  holders,             \* [Pipes -> who has its writing end: of "part", "left"]
  pipe,                \* [Pipes -> sequence of chunks]
  open,                \* the pipes run-parts has not closed
  printflag,
  shown,               \* [Pipes -> what run-parts wrote: <<part, chunk>>, chunk 0 is the name]
  started, failed, exitstatus

parent == <<mode, namelist, i, at, open, printflag, shown, started, failed, exitstatus>>

NoPart == [running |-> FALSE, result |-> 0, wrote |-> [p \in Pipes |-> 0]]

PartsTypeOK ==
  /\ i \in 1..Len(namelist) + 1 /\ at \in {"entry", "read", "wait", "end"}
  /\ open \subseteq Pipes /\ exitstatus \in {0, 1}
  /\ \A p \in Pipes : Len(pipe[p]) <= PIPE_BUF /\ holders[p] \subseteq {"part", "left"}

PartsInit ==
  /\ mode \in Modes
  /\ namelist \in {IF "reverse" \in mode THEN Reverse(d) ELSE d : d \in Directories}
  /\ i = 1 /\ at = "entry" /\ part = NoPart
  /\ holders = [p \in Pipes |-> {}] /\ pipe = [p \in Pipes |-> <<>>] /\ open = {}
  /\ printflag = FALSE /\ shown = [p \in Pipes |-> <<>>]
  /\ started = <<>> /\ failed = FALSE /\ exitstatus = 0

-----------------------------------------------------------------------------
(* run_parts.                                                                *)

Entry == namelist[i]
IsRun == Entry.kind = "executable" /\ mode \cap {"test", "list"} = {}

\* The entry is not run: it is gone (the program exits with --exit-on-error),
\* its name is printed, or it is not a plain file.
Skip ==
  /\ at = "entry" /\ i <= Len(namelist) /\ ~IsRun
  /\ IF Entry.kind = "gone" /\ "exit-on-error" \in mode
     THEN at' = "end" /\ exitstatus' = 1 /\ UNCHANGED i
     ELSE /\ i' = i + 1
          /\ exitstatus' = IF Entry.kind = "special" /\ "list" \notin mode THEN 1 ELSE exitstatus
          /\ UNCHANGED at
  /\ UNCHANGED <<mode, namelist, part, holders, pipe, open, printflag, shown, started, failed>>

\* The first half of run_part: fork, and the pipes if the output is reported.
AfterForkBug == "wait"
AfterFork == IF "report" \in mode THEN "read" ELSE "wait"
Fork ==
  /\ at = "entry" /\ i <= Len(namelist) /\ IsRun
  /\ part' = [NoPart EXCEPT !.running = TRUE]
  /\ holders' = [p \in Pipes |-> IF "report" \in mode THEN {"part"} ELSE {}]
  /\ pipe' = [p \in Pipes |-> <<>>]
  /\ open' = IF "report" \in mode THEN Pipes ELSE {}
  /\ printflag' = FALSE
  /\ started' = Append(started, Entry.name)
  /\ at' = AfterFork
  /\ UNCHANGED <<mode, namelist, i, shown, failed, exitstatus>>

Header(p) == IF printflag THEN <<>> ELSE <<<<Entry.name, 0>>>>

\* select finds a pipe that has something, or no writer any more: a turn of
\* the loop reads stdout's pipe and then that of stderr, if they are ready.
Ready(p) == p \in open /\ (pipe[p] # <<>> \/ holders[p] = {})
Readable(p) == Ready(p) /\ pipe[p] # <<>>
Read ==
  /\ at = "read" /\ \E p \in Pipes : Ready(p)
  /\ LET first == IF Readable("out") THEN "out" ELSE "err"
         taken(p) == IF Readable(p) THEN pipe[p] ELSE <<>>
         named(p) == IF p = first /\ Readable(p) THEN Header(p) ELSE <<>>
     IN /\ shown' = [p \in Pipes |-> shown[p] \o named(p) \o taken(p)]
        /\ pipe' = [p \in Pipes |-> IF p \in open THEN <<>> ELSE pipe[p]]
        /\ printflag' = (printflag \/ Readable("out") \/ Readable("err"))
  /\ open' = {p \in open : ~Ready(p) \/ Readable(p)}
  /\ at' = IF open' = {} THEN "wait" ELSE "read"
  /\ UNCHANGED <<mode, namelist, i, part, holders, started, failed, exitstatus>>

\* waitpid, and back in run_parts: the part's result, and whether to go on.
Wait ==
  /\ at = "wait" /\ ~part.running
  /\ failed' = (failed \/ part.result # 0)
  /\ exitstatus' = IF part.result # 0 THEN 1 ELSE exitstatus
  /\ IF exitstatus' # 0 /\ "exit-on-error" \in mode THEN at' = "end" /\ UNCHANGED i
                                                     ELSE at' = "entry" /\ i' = i + 1
  /\ UNCHANGED <<mode, namelist, part, holders, pipe, open, printflag, shown, started>>

End ==
  /\ at = "entry" /\ i > Len(namelist)
  /\ at' = "end"
  /\ UNCHANGED <<mode, namelist, i, part, holders, pipe, open, printflag, shown, started, failed, exitstatus>>

-----------------------------------------------------------------------------
(* A part, and a process it left.                                            *)

\* Either writes to a pipe it has; while that is full it waits.
Write(w, p) ==
  /\ w \in holders[p] /\ part.wrote[p] < MaxWrites
  /\ Len(pipe[p]) < PIPE_BUF
  /\ part' = [part EXCEPT !.wrote[p] = @ + 1]
  /\ pipe' = [pipe EXCEPT ![p] = Append(@, <<Entry.name, part.wrote[p] + 1>>)]
  /\ UNCHANGED <<parent, holders>>

Leave ==
  /\ part.running /\ holders["out"] = {"part"}
  /\ holders' = [p \in Pipes |-> holders[p] \cup {"left"}]
  /\ UNCHANGED <<parent, part, pipe>>

PartEnds ==
  /\ part.running
  /\ \E r \in {0, 1} : part' = [part EXCEPT !.running = FALSE, !.result = r]
  /\ holders' = [p \in Pipes |-> holders[p] \ {"part"}]
  /\ UNCHANGED <<parent, pipe>>

LeftEnds ==
  /\ "left" \in holders["out"]
  /\ holders' = [p \in Pipes |-> holders[p] \ {"left"}]
  /\ UNCHANGED <<parent, part, pipe>>

PartsNext ==
  \/ Skip \/ Fork \/ Read \/ Wait \/ End
  \/ \E w \in {"part", "left"}, p \in Pipes : Write(w, p)
  \/ Leave \/ PartEnds \/ LeftEnds

-----------------------------------------------------------------------------
(* Properties.                                                               *)

Of(s, name) == Sublist(s, {x \in Range(s) : x[1] = name})
Chunks(s) == Sublist(s, {x \in Range(s) : x[2] # 0})

\* When run-parts goes on to the next entry, all that the part has written to
\* either pipe was shown, in order; its name was shown once, before any of
\* it, on the stream that had output first, and not at all if it wrote
\* nothing.
Reported ==
  at \in {"entry", "wait", "end"} /\ "report" \in mode /\ started # <<>> =>
    LET name == Last(started)
        names == {p \in Pipes : \E k \in DOMAIN Of(shown[p], name) : Of(shown[p], name)[k][2] = 0}
    IN /\ \A p \in Pipes : Chunks(Of(shown[p], name)) = [k \in 1..part.wrote[p] |-> <<name, k>>]
       /\ Cardinality(names) = IF \E p \in Pipes : part.wrote[p] > 0 THEN 1 ELSE 0
       /\ \A p \in names : Of(shown[p], name)[1][2] = 0 /\ part.wrote[p] > 0
                         /\ Len(Of(shown[p], name)) = part.wrote[p] + 1

\* Nobody waits for the other: while run-parts waits for the part to end, the
\* part is not waiting for room in a pipe that run-parts has left.
NoWaitForWriter == at = "wait" /\ part.running => \A p \in Pipes : Len(pipe[p]) < PIPE_BUF
=============================================================================
