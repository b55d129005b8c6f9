------------------------------ MODULE MCPrograms ------------------------------
(***************************************************************************)
(* The programs beside the engines for TLC: mod_sed, with what MCHost puts *)
(* side by side.  A behaviour is one of one of the programs.               *)
(***************************************************************************)
EXTENDS MCHost

CONSTANTS Newline, Scripts, Streams, Failures, SED_ABUFSIZE, MaxFlush

VARIABLES
  way, script, stream, fails, left, eval, ctx, shut, flushes,
  source, line, loc, locs, before, phase

filterVars == <<way, script, stream, fails, left, eval, ctx, shut, flushes>>
regexpVars == <<source, line, loc, locs, before, phase>>
vars == <<hostVars, filterVars, regexpVars>>

-----------------------------------------------------------------------------
(* Scripts and streams.                                                      *)
None == <<"none">>
Cmd(c, arg) == [cmd |-> c, a1 |-> None, a2 |-> None, neg |-> FALSE, arg |-> arg]
On(a, c)    == [c EXCEPT !.a1 = a]
From(a, b, c) == [c EXCEPT !.a1 = a, !.a2 = b]
Not(c)      == [c EXCEPT !.neg = TRUE]
LineNo(n) == <<"line", n>>
Final     == <<"last">>
With(c)   == <<"has", c>>
Script(n, s) == [nflag |-> n, source |-> s]
Subst(c, t, f) == Cmd("s", <<c, t, f, FALSE>>)

Joined == <<Cmd("N", ""), Subst("nl", <<"a">>, 0), Cmd("P", ""), Cmd("D", "")>>
Held == <<On(Final, Cmd("a", <<"b">>)), On(With("a"), Cmd("{", "")), Cmd("h", ""), Cmd("n", ""), Cmd("G", ""), Cmd("}", "")>>
Looped == <<From(LineNo(1), With("b"), Cmd("c", <<"b">>)), Cmd(":", "t"), Subst("a", <<"b", "b">>, 1), Cmd("t", "t"),
            Not(On(LineNo(1), Cmd("p", "")))>>
Jumping == <<From(With("a"), LineNo(2), Cmd("p", "")), On(With("b"), Cmd("i", <<"a">>)), On(With("b"), Cmd("b", "e")),
             Cmd("H", ""), Cmd("x", ""), Cmd(":", "e"), On(Final, Cmd("=", "")), Not(On(Final, Cmd("d", "")))>>
Unfinished == <<On(With("b"), Cmd("b", "x")), Cmd("p", "")>>
\* Nested braces, and two branches without a label.
Nested == <<On(With("a"), Cmd("{", "")), Not(On(LineNo(1), Cmd("{", ""))), Cmd("p", ""), Cmd("}", ""), Cmd("b", ""),
            Cmd("}", ""), Cmd("l", ""), On(With("b"), Cmd("t", ""))>>
AllScripts == {Script(FALSE, Nested), Script(FALSE, Joined), Script(FALSE, Held), Script(TRUE, Looped), Script(FALSE, Jumping),
               Script(FALSE, Unfinished), Script(TRUE, <<On(Final, Cmd("q", "")), Cmd("l", ""), Cmd("r", <<"f">>)>>)}
QuitScript == {Script(FALSE, <<On(LineNo(1), Cmd("q", ""))>>)}
AllStreams == {<<"a","nl","b","nl","nl">>, <<"a","b","nl","a">>, <<>>, <<"b","nl","a","nl","b","nl">>}

(* Expressions: all of up to three tokens, and some with groups.             *)
Chr(x) == <<"chr", x>>
Tokens == {Chr("a"), Chr("b"), <<"any">>, <<"class", {"a"}, TRUE>>, <<"*">>, <<"range", 1, 2>>, <<"^">>, <<"$">>}
Repeats(t) == t[1] \in {"*", "range"}
Plain(e) ==
  \A k \in 1..Len(e) - 1 : Repeats(e[k + 1]) => ~Repeats(e[k]) /\ e[k] # <<"^">>
Grouped == {
  << <<"(">>, Chr("a"), <<"*">>, <<")">>, <<"any">>, <<"back", 1>> >>,
  << <<"(">>, Chr("a"), <<"range", 0, 1>>, <<")">>, <<"back", 1>>, Chr("b")>>,
  << <<"any">>, <<"(">>, <<"any">>, <<"*">>, <<")">>, <<"back", 1>>, <<"$">> >>,
  << <<"(">>, Chr("a"), <<")">>, <<"back", 2>> >>, << <<")">> >>, << <<"(">>, <<"(">>, Chr("b")>>,
  << <<"(">>, <<")">>, <<"(">>, <<")">>, <<"(">>, <<")">> >>,
  <<Chr("a"), <<"range", 2, 1>> >>, << <<"(">>, <<"*">>, <<")">>, <<"*">> >>}
Expressions == {e \in UNION {[1..n -> Tokens] : n \in 1..3} : Plain(e)} \cup Grouped
SomeLines == UNION {[1..n -> {"a", "b"}] : n \in 0..3}

-----------------------------------------------------------------------------
(* The SNMP agent.                                                           *)

\* Disks of which one's name begins those of two others.
DiskOrder == <<"sd1", "sd10", "sd11">>
Prefixes == {<<"sd10", "sd1">>, <<"sd11", "sd1">>}
\* A load and a service time that are fine, and that are too high.
TwoReadings == {<<0, 0>>, <<2, 2>>}

SomeThresholds == [swap_error |-> 1, swap_warning |-> 2, swap_info |-> 3,
  mutex_info |-> 2, mutex_warning |-> 3, mincalls |-> 1, timeouts |-> 50, badxids |-> 50,
  cpuload_info |-> 1, cpuload_warning |-> 2, cpuload_error |-> 3,
  restime_long |-> 4, restime_ok |-> 2, restime_error |-> 1, dnlc_active |-> 1, dnlc_warning |-> 50]
N == 0..4
LevelReadings == [SWAP |-> N \X {0}, Kernel |-> N \X (1..2), NFS |-> N \X N \X N, CPU |-> N \X (1..2),
                  RAM |-> (1..4) \X N, DNLC |-> N \X N \X (1..2)]

\* The pool the system runs from is the first of the configurations.
Configured == <<"a", "b", "c">>
SystemPool == [g1 |-> "a"]

(* run-parts: a directory of two parts, and one with what is not a part.     *)
PartEntry(k, n) == [kind |-> k, name |-> n]
TwoDirectories == {<<PartEntry("executable", "a"), PartEntry("executable", "b")>>,
                   <<PartEntry("gone", "a"), PartEntry("special", "b"), PartEntry("executable", "c")>>}
SomeModes == {{}, {"report"}, {"report", "exit-on-error", "reverse"}, {"exit-on-error"}, {"list"}}

-----------------------------------------------------------------------------
F == INSTANCE SedFilter WITH bufsize <- 2, MAX_TRANSIENT_BUCKETS <- 2, Reads <- {1, 3}, SED_LABSIZE <- 4, SED_DEPTH <- 2
R == INSTANCE SedRegexp WITH Chars <- {"a", "b"}, Lines <- SomeLines, NBRA <- 2, MaxLine <- 9

NoFilter == way = "output" /\ script = (CHOOSE s \in Scripts : TRUE) /\ stream = (CHOOSE s \in Streams : TRUE) /\ fails = 0
NoRegexp == source = <<Chr("a")>> /\ line = <<>>

Init ==
  /\ HostInit
  /\ (program = "sed" \/ NoFilter) /\ F!Init
  /\ (program = "regexp" \/ NoRegexp) /\ R!Init

Next ==
  \/ HostNext /\ UNCHANGED <<filterVars, regexpVars>>
  \/ program = "sed" /\ F!Next /\ UNCHANGED <<hostVars, regexpVars>>
  \/ program = "regexp" /\ R!Next /\ UNCHANGED <<hostVars, filterVars>>

Spec == Init /\ [][Next]_vars /\ E!Fairness

-----------------------------------------------------------------------------
\* The variables of every program keep to their types.
TypeOK ==
  /\ program = "sed" => F!SedTypeOK
  /\ program = "regexp" => R!RegexpTypeOK
  /\ program = "run-parts" => P!PartsTypeOK
  /\ program = "entity" => E!EntityTypeOK
  /\ program = "disks" => D!DisksTypeOK
  /\ program = "rules" => H!RulesTypeOK
  /\ program = "pools" => Z!PoolTypeOK
  /\ program = "processes" => C!ProcTypeOK
  /\ program = "ttys" => Y!TtyTypeOK

\* Where the buckets end makes no difference to what a script writes
\* (sed_response_filter, sed_request_filter).
SplitAlike == program = "sed" => F!SplitAlike

\* The next filter gets what the script wrote, in order, and EOS at the end
\* (append_bucket, flush_output_buffer).
PassedAlike == program = "sed" => F!PassedAlike

\* Every branch of a script to a label leads there, an opening brace past its
\* closing one, and the last branch without a label to the end (fcomp, dechain).
BranchesResolved == program = "sed" => F!BranchesResolved

\* A match is found exactly when there is one, the leftmost, and s with g
\* finds the next one and comes to an end (sed_step, substitute).
MatchesFound == program = "regexp" => R!LeftmostFound /\ R!NextFound

\* A change of the tables that finds the trap throttled is reported later, if
\* the agent's alarms run (configChanged, poll_entLastChangeTime).
ChangeTold == pending ~> ~pending
=============================================================================
