------------------------------ MODULE SedFilter ------------------------------
(***************************************************************************)
(* mod_sed as a filter: the data of a response or a request arrives in     *)
(* buckets that end anywhere; sed_eval_buffer puts lines together and runs *)
(* the script on them (sed1.c), and mod_sed.c collects what it writes in   *)
(* an output buffer and in buckets for the next filter.                    *)
(***************************************************************************)
EXTENDS SedScript, FiniteSets

CONSTANTS
  Scripts,     \* the scripts that compile: [source, nflag]
  Streams,     \* the data of a request or response
  bufsize,     \* MODSED_OUTBUF_SIZE
  MAX_TRANSIENT_BUCKETS,
  Reads,       \* how much a reader of the request asks for
  MaxFlush,    \* bound on FLUSH and metadata buckets
  Failures     \* the pass to the next filter that fails, 0 for none

VARIABLES
  way,       \* "output" for sed_response_filter, "input" for sed_request_filter
  script, stream, fails, \* of this request: one of Scripts, Streams, Failures
  left,      \* what has not arrived of the stream
  eval,      \* the evaluation
  ctx,       \* the filter context; bb, and what was passed on, flat
  shut,      \* the EOS bucket has been seen
  flushes    \* FLUSH and metadata buckets seen

vars == <<way, script, stream, fails, left, eval, ctx, shut, flushes>>

EOS == "EOS"
FLUSH == "FLUSH"
META == "META"   \* any other metadata
compiled == fcomp(script.source)
Run(e) == execute(e, compiled.reps, script.nflag)

-----------------------------------------------------------------------------
(* sed_eval_buffer and sed_finalize_eval.  A line whose newline ends the     *)
(* buffer is held, for it may be the last one.                               *)

RECURSIVE Lines(_, _)
Lines(e, buf) ==
  LET n == IF Has(buf, Newline) THEN Len(Upto(buf, Newline)) + 1 ELSE 0
      d == Run([e EXCEPT !.line = @ \o SubSeq(buf, 1, n - 1)])
      rest == SubSeq(buf, n + 1, Len(buf))
  IN IF n \in {0, Len(buf)} THEN [e EXCEPT !.line = @ \o buf, !.lready = n > 0]
       ELSE IF d.quitflag THEN [d EXCEPT !.line = @ \o rest]
       ELSE Lines(d, rest)

RunHeld(e) == Run([e EXCEPT !.lready = FALSE, !.line = Front(@)])
sed_eval_bufferBug(e, buf) == IF e.quitflag THEN e ELSE Lines(e, buf)
sed_eval_buffer(e, buf) ==
  IF e.quitflag \/ buf = <<>> THEN e ELSE Lines(IF e.lready THEN RunHeld(e) ELSE e, buf)

sed_finalize_eval(e) ==
  LET d == [e EXCEPT !.dolflag = TRUE, !.lready = FALSE, !.line = IF e.lready THEN Front(@) ELSE @]
  IN IF e.quitflag THEN e
     ELSE [(IF e.line = <<>> THEN [e EXCEPT !.dolflag = TRUE] ELSE Run(d)) EXCEPT !.quitflag = TRUE]

-----------------------------------------------------------------------------
(* sed_write_output and its buckets.  A response's buckets are transient:    *)
(* after so many they are passed on with a FLUSH and their memory is cleared.*)

clear_ctxpool(x) == [x EXCEPT !.bb = <<>>, !.outbuf = <<>>, !.numbuckets = 0]
ap_pass_brigade(x) ==
  IF x.passes + 1 = fails THEN [x EXCEPT !.failed = TRUE, !.lost = TRUE, !.bb = <<>>, !.passes = @ + 1]
  ELSE [x EXCEPT !.gone = @ \o x.bb, !.bb = <<>>, !.passes = @ + 1]

append_bucketBug(x, data) == [x EXCEPT !.bb = @ \o data, !.numbuckets = @ + 1]
append_bucket(x, data) ==
  LET y == [x EXCEPT !.bb = @ \o data, !.numbuckets = @ + (IF way = "input" THEN 0 ELSE 1)]
  IN IF y.numbuckets < MAX_TRANSIENT_BUCKETS THEN y
     ELSE clear_ctxpool(ap_pass_brigade([y EXCEPT !.bb = Append(@, FLUSH)]))

flush_output_bufferBug(x) == IF x.outbuf = <<>> THEN x ELSE append_bucket(x, x.outbuf)
flush_output_buffer(x) ==
  IF x.outbuf = <<>> THEN x ELSE [append_bucket(x, x.outbuf) EXCEPT !.outbuf = <<>>]

(* A failure is noticed after the rest was put in the new buffer.            *)
sed_write_output(x, data) ==
  LET remain == bufsize - Len(x.outbuf)
      full   == [append_bucket(x, x.outbuf \o SubSeq(data, 1, remain)) EXCEPT !.outbuf = <<>>]
      rest   == SubSeq(data, remain + 1, Len(data))
  IN IF x.failed THEN x
       ELSE IF Len(data) < remain THEN [x EXCEPT !.outbuf = @ \o data]
       ELSE IF full.failed \/ Len(rest) < bufsize THEN [full EXCEPT !.outbuf = rest]
       ELSE append_bucket(full, rest)

(* w is [eval, ctx]: the evaluation goes on to d and its writes go out.      *)
Write(w, d) ==
  [eval |-> d, ctx |-> FoldLeft(sed_write_output, w.ctx, SubSeq(d.wrote, Len(w.eval.wrote) + 1, Len(d.wrote)))]
Flushed(w) == [w EXCEPT !.ctx = IF @.failed THEN @ ELSE flush_output_buffer(@)]
Marked(w, b) == [w EXCEPT !.ctx = IF @.failed THEN @ ELSE [@ EXCEPT !.bb = Append(@, b)]]

(* The rest of the data at the end.  Nobody looks at what sed_finalize_eval   *)
(* returns: after a pass that failed in it, EOS is passed on all the same.    *)
Finalized(w) == [Write(w, sed_finalize_eval(w.eval)) EXCEPT !.ctx.failed = FALSE]

\* The filter of a request flushes after each bucket, that of a response at
\* the end; other metadata is data of no length for the first and dropped by
\* the second.
Evaluated(w, buf) ==
  IF ~canbefinal(compiled) /\ ~w.eval.quitflag THEN [w EXCEPT !.ctx.failed = TRUE]
    ELSE IF way = "output" THEN Write(w, sed_eval_buffer(w.eval, buf))
    ELSE Flushed(Write(w, sed_eval_buffer(w.eval, buf)))
Bucket(w, b) ==
  IF w.ctx.failed THEN w
    ELSE IF b = EOS THEN Marked(Flushed(Finalized(w)), EOS)
    ELSE IF b = FLUSH THEN IF way = "output" THEN Marked(Flushed(w), FLUSH) ELSE w
    ELSE IF b = META THEN IF way = "output" THEN w ELSE Evaluated(w, <<>>)
    ELSE Evaluated(w, b)

-----------------------------------------------------------------------------
(* What arrives: up to two pieces of data with metadata between, then EOS.    *)

Piece(i, j) == IF i > j THEN <<>> ELSE <<SubSeq(left, i, j)>>
Arrivals ==
  {a \in [i : 0..Len(left), j : 0..Len(left), mark : {"none", FLUSH, META}, eos : BOOLEAN] :
     a.i <= a.j /\ (a.eos => a.j = Len(left)) /\ (a.mark # "none" => flushes < MaxFlush) /\ (a.j > 0 \/ a.eos)}
Brigade(a) ==
  Piece(1, a.i) \o (IF a.mark = "none" THEN <<>> ELSE <<a.mark>>) \o Piece(a.i + 1, a.j) \o (IF a.eos THEN <<EOS>> ELSE <<>>)

Arrive(a) ==
  /\ ~shut /\ ~ctx.failed
  /\ left' = SubSeq(left, a.j + 1, Len(left)) /\ shut' = a.eos
  /\ flushes' = flushes + (IF a.mark = "none" THEN 0 ELSE 1)
  /\ UNCHANGED <<way, script, stream, fails>>
Filtered(a) == FoldLeft(Bucket, [eval |-> eval, ctx |-> ctx], Brigade(a))

sed_response_filter ==
  /\ way = "output"
  /\ \E a \in Arrivals :
       /\ Arrive(a)
       /\ \E w \in {Flushed(Filtered(a))} :
             /\ eval' = w.eval
             /\ ctx' = clear_ctxpool(IF w.ctx.failed \/ w.ctx.bb = <<>> THEN w.ctx ELSE ap_pass_brigade(w.ctx))

(* sed_request_filter gets brigades until there is something in bb ...       *)
GetBrigade ==
  /\ way = "input" /\ ctx.bb = <<>>
  /\ \E a \in Arrivals :
       /\ Arrive(a)
       /\ \E w \in {Filtered(a)} : eval' = w.eval /\ ctx' = w.ctx

(* ... and returns as much of it as it was asked for.                        *)
GiveBrigade ==
  /\ way = "input" /\ ctx.bb # <<>> /\ ~ctx.failed
  /\ \E readbytes \in Reads :
       LET n == IF readbytes < Len(ctx.bb) THEN readbytes ELSE Len(ctx.bb)
       IN ctx' = [ctx EXCEPT !.gone = @ \o SubSeq(ctx.bb, 1, n), !.bb = SubSeq(@, n + 1, Len(@))]
  /\ UNCHANGED <<way, script, stream, fails, left, eval, shut, flushes>>

Init ==
  /\ way \in {"output", "input"} /\ script \in Scripts /\ stream \in Streams
  /\ fails \in Failures
  /\ left = stream /\ eval = NewEval(compiled.reps)
  /\ ctx = [bb |-> <<>>, outbuf |-> <<>>, numbuckets |-> 0, gone |-> <<>>, passes |-> 0, failed |-> FALSE, lost |-> FALSE]
  /\ shut = FALSE /\ flushes = 0

Next == sed_response_filter \/ GetBrigade \/ GiveBrigade
Spec == Init /\ [][Next]_vars

-----------------------------------------------------------------------------
(* Properties. *)

SedTypeOK ==
  /\ compiled.error = "no" /\ way \in {"output", "input"}
  /\ eval.pending \in 0..Len(compiled.reps) + 1 /\ Len(eval.aq) <= SED_ABUFSIZE
  /\ ctx.numbuckets \in 0..MAX_TRANSIENT_BUCKETS /\ flushes \in 0..MaxFlush
  /\ {shut, ctx.failed, ctx.lost} \subseteq BOOLEAN

(* What a script makes of a stream a line at a time.                         *)
RECURSIVE AllLines(_, _)
AllLines(e, text) ==
  IF text = <<>> \/ e.quitflag THEN e
  ELSE AllLines(Run([e EXCEPT !.line = @ \o Upto(text, Newline), !.dolflag = After(text, Newline) = <<>>]),
                After(text, Newline))

(* "At the end of the data, if new line is not found then sed_eval_buffer     *)
(* will store the data in it's own buffer": where the buckets end makes no    *)
(* difference to what the script does.                                        *)
SplitAlike ==
  shut /\ ~ctx.failed /\ ~ctx.lost => eval.wrote = AllLines(NewEval(compiled.reps), stream).wrote

(* The next filter gets what the script wrote, in that order, and between two *)
(* calls nothing waits in the output buffer, unless it refused a brigade; EOS *)
(* is the last thing it gets even then.                                       *)
NoMarks(s) == SelectSeq(s, LAMBDA c : c \notin {EOS, FLUSH})
PassedAlike ==
  /\ ctx.lost \/ NoMarks(ctx.gone \o ctx.bb) = FlattenSeq(eval.wrote)
  /\ \A k \in DOMAIN ctx.gone : ctx.gone[k] = EOS => k = Len(ctx.gone) /\ ctx.bb = <<>> /\ shut

(* Every branch to a label leads there, and every opening brace past its      *)
(* closing one.  The last branch without a label leads to the end; those      *)
(* before it do not: fcomp has chained each of them to the next one, and      *)
(* nothing takes the chain apart.                                             *)
Place(k) == Cardinality({j \in 1..k : script.source[j].cmd \notin {":", "}"}})
Target(l) == Place(CHOOSE k \in DOMAIN script.source :
                     script.source[k].cmd = ":" /\ script.source[k].arg = l) + 1
Count(cmd, k, l) == Cardinality({j \in k..l : script.source[j].cmd = cmd})
Closes(k, l) == l > k /\ Count("{", k, l) = Count("}", k, l) /\ \A j \in k..l - 1 : Count("{", k, j) > Count("}", k, j)
Branches == {k \in DOMAIN script.source : script.source[k].cmd \in {"b", "t"}}
BranchesResolved ==
  canbefinal(compiled) =>
    \A k \in DOMAIN script.source :
      LET c  == script.source[k]
          lb == compiled.reps[Place(k)].lb
      IN /\ k \in Branches /\ c.arg # "" => lb = Target(c.arg)
         /\ k \in Branches /\ c.arg = "" => lb = 0 \/ \E j \in Branches : j > k /\ script.source[j].arg = ""
         /\ c.cmd = "{" => \E l \in DOMAIN script.source : Closes(k, l) /\ lb = Place(l) + 1
=============================================================================
