------------------------------ MODULE SedScript ------------------------------
(***************************************************************************)
(* libsed of Apache's mod_sed: fcomp of sed0.c, which turns a script into  *)
(* the list of commands at ptrspace, and execute of sed1.c, which runs the *)
(* list on a line.  Text is a sequence of characters, Newline among them;  *)
(* an s command replaces one character, as regexp.c has its own module.    *)
(***************************************************************************)
EXTENDS Integers, Sequences, FiniteSets, SequencesExt

CONSTANTS
  Newline,      \* the newline character
  SED_ABUFSIZE, \* appended texts and read files for one line
  SED_LABSIZE,  \* entries of the label table, the first is for no label
  SED_DEPTH     \* nested braces

-----------------------------------------------------------------------------
(* fcomp.  A source command is [cmd, a1, a2, neg, arg]: an address is        *)
(* <<"line", n>>, <<"last">> or <<"has", c>>, and NoAddress when there is    *)
(* none; arg is the label of b, t and ":", the text of a, i, c, r and w, and *)
(* <<c, text, flag, print>> of s.  A compiled one has the index lb instead of the   *)
(* label, 0 for none.                                                        *)

NoAddress == <<"none">>
TwoAddresses(c) == c.a2 # NoAddress

Start == [reps |-> <<>>, open |-> <<>>, address |-> <<>>, chain |-> <<>>, error |-> "no"]
Fail(s, what) == [s EXCEPT !.error = what]
Add(s, c, to) ==
  [s EXCEPT !.reps = Append(@, [cmd |-> c.cmd, a1 |-> c.a1, a2 |-> c.a2, neg |-> c.neg, arg |-> c.arg, lb |-> to])]
Patch(s, ks, to) == [s EXCEPT !.reps = [k \in DOMAIN @ |-> IF k \in ks THEN [@[k] EXCEPT !.lb = to] ELSE @[k]]]

(* The label table: the label to the index it stands for, 0 while unknown,   *)
(* and to the branches that wait for it.                                     *)
Known(s, l) == l \in DOMAIN s.address
Entered(s, l, at, waiting) ==
  [s EXCEPT !.address = [x \in DOMAIN @ \cup {l} |-> IF x = l THEN at ELSE @[x]],
            !.chain   = [x \in DOMAIN @ \cup {l} |-> IF x = l THEN waiting ELSE @[x]]]
TooMany(s) == Cardinality(DOMAIN s.address \ {""}) + 2 >= SED_LABSIZE

(* Branches without a label form a chain through lb that nothing resolves.   *)
EndBranch(s, c) ==
  LET at == Len(s.reps) + 1
      before == IF Known(s, "") THEN s.chain[""] ELSE {}
      t == Add(IF before = {} THEN s ELSE Patch(s, {CHOOSE k \in before : \A j \in before : j <= k}, at), c, 0)
  IN Entered(t, "", 0, before \cup {at})

Branch(s, c) ==
  LET at == Len(s.reps) + 1
  IN IF c.arg = "" THEN EndBranch(s, c)
       ELSE IF ~Known(s, c.arg) /\ TooMany(s) THEN Fail(s, "too many labels")
       ELSE IF ~Known(s, c.arg) THEN Entered(Add(s, c, 0), c.arg, 0, {at})
       ELSE IF s.address[c.arg] # 0 THEN Add(s, c, s.address[c.arg])
       ELSE Entered(Add(s, c, 0), c.arg, 0, s.chain[c.arg] \cup {at})

LabelBug(s, c) == Entered(s, c.arg, Len(s.reps) + 1, {})
Label(s, c) ==
  LET at == Len(s.reps) + 1
  IN IF c.a1 # NoAddress THEN Fail(s, "no addresses allowed")
       ELSE IF ~Known(s, c.arg) /\ TooMany(s) THEN Fail(s, "too many labels")
       ELSE IF ~Known(s, c.arg) THEN Entered(s, c.arg, at, {})
       ELSE IF s.address[c.arg] # 0 THEN Fail(s, "duplicate labels")
       ELSE Entered(Patch(s, s.chain[c.arg], at), c.arg, at, {})

OpenBrace(s, c) ==
  LET t == Add(s, [c EXCEPT !.cmd = "b", !.neg = ~c.neg], 0)
  IN IF Len(s.open) >= SED_DEPTH THEN Fail(s, "cmpend overrun")
     ELSE [t EXCEPT !.open = Append(@, Len(t.reps))]
CloseBrace(s, c) ==
  IF c.a1 # NoAddress THEN Fail(s, "no addresses allowed")
    ELSE IF s.open = <<>> THEN Fail(s, "too many }'s")
    ELSE [Patch(s, {Last(s.open)}, Len(s.reps) + 1) EXCEPT !.open = Front(@)]

Plain(s, c) ==
  CASE c.cmd \in {"a", "i", "r", "=", "q"} /\ TwoAddresses(c) -> Fail(s, "only one address allowed")
    [] c.cmd = "D" -> Add(s, c, 1)
    [] OTHER -> Add(s, c, 0)
Compiled(s, c) ==
  IF s.error # "no" THEN s
    ELSE IF c.cmd = "{" THEN OpenBrace(s, c)
    ELSE IF c.cmd = "}" THEN CloseBrace(s, c)
    ELSE IF c.cmd = ":" THEN Label(s, c)
    ELSE IF c.cmd \in {"b", "t"} THEN Branch(s, c)
    ELSE Plain(s, c)

fcomp(source) == FoldLeft(Compiled, Start, source)

(* check_finalized: the table from its second entry on *)
canbefinal(s) ==
  /\ s.open = <<>>
  /\ \A l \in DOMAIN s.address \ {""} : s.address[l] # 0 /\ s.chain[l] = {}

-----------------------------------------------------------------------------
(* execute.  The state of an evaluation: line and hold are linebuf and       *)
(* holdbuf up to their ends, gen the string in genbuf, aq the queue in abuf, *)
(* pc the command in hand, and wrote the writes in their order.              *)

NewEval(prog) ==
  [line |-> <<>>, hold |-> <<>>, gen |-> <<>>, lnum |-> 0, aq |-> <<>>, pending |-> 0,
   inar |-> [k \in DOMAIN prog |-> FALSE], sflag |-> FALSE, delflag |-> FALSE,
   dolflag |-> FALSE, lready |-> FALSE, quitflag |-> FALSE, back |-> FALSE, overrun |-> FALSE, pc |-> 0, wrote |-> <<>>]

wline(e, text) == [e EXCEPT !.wrote = @ \o <<text, <<Newline>>>>]
PrintLine(e, nflag) == IF nflag THEN e ELSE wline(e, e.line)
Has(line, c) == c \in ToSet(line)
Upto(line, c) == IF Has(line, c) THEN SubSeq(line, 1, SelectInSeq(line, LAMBDA x : x = c) - 1) ELSE line
After(line, c) == SubSeq(line, Len(Upto(line, c)) + 2, Len(line))

arout(e) ==
  [FoldLeft(LAMBDA x, r : IF r.cmd = "a" THEN wline(x, r.arg) ELSE [x EXCEPT !.wrote = Append(@, r.arg)], e, e.aq)
     EXCEPT !.aq = <<>>]

(* The addresses of a command: whether it is in its range, and inar after.   *)
At(e, a) ==
  CASE a[1] = "line" -> e.lnum = a[2]
    [] a[1] = "last" -> e.dolflag
    [] a[1] = "has"  -> Has(e.line, a[2])
    [] OTHER         -> TRUE
InRange(e, r) == IF e.inar[e.pc] /\ r.a1 # NoAddress THEN ~(r.a2[1] = "line" /\ e.lnum > r.a2[2]) ELSE At(e, r.a1)
InarAfter(e, r) ==
  IF r.a1 = NoAddress THEN e.inar[e.pc]
    ELSE IF e.inar[e.pc] THEN r.a2[1] = "last" \/ (r.a2[1] = "line" /\ e.lnum < r.a2[2])
                             \/ (r.a2[1] = "has" /\ ~At(e, r.a2))
    ELSE TwoAddresses(r) /\ r.a1[1] # "last" /\ At(e, r.a1)

(* substitute: the first occurrence, the n-th or, with flag 0, all.          *)
Occurrences(line, c) == {k \in DOMAIN line : line[k] = c}
Replaced(line, arg) ==
  {k \in Occurrences(line, arg[1]) :
     arg[3] = 0 \/ Cardinality({j \in Occurrences(line, arg[1]) : j <= k}) = arg[3]}
Substituted(line, arg) ==
  FlattenSeq([k \in DOMAIN line |-> IF k \in Replaced(line, arg) THEN arg[2] ELSE <<line[k]>>])
substitute(e, arg) ==
  IF Occurrences(e.line, arg[1]) = {} THEN e
  ELSE IF Replaced(e.line, arg) = {} THEN [e EXCEPT !.sflag = FALSE]
  ELSE [e EXCEPT !.line = Substituted(@, arg), !.gen = Substituted(e.line, arg), !.sflag = TRUE]

(* The queue is full at SED_ABUFSIZE, but its NULL then lies on aptr.        *)
Queue(e, r) ==
  IF Len(e.aq) >= SED_ABUFSIZE THEN e
  ELSE [e EXCEPT !.aq = Append(@, r), !.overrun = Len(e.aq) + 1 >= SED_ABUFSIZE]

ToNext(e) == [e EXCEPT !.pc = @ + 1]
Jump(e, r, prog) == [e EXCEPT !.pc = IF r.lb = 0 THEN Len(prog) + 1 ELSE r.lb]

(* command: what it does to e, and where it leaves pc.                       *)
Edit(e, r, nflag) ==
  CASE r.cmd = "s" -> LET d == substitute(e, r.arg)
                      IN IF r.arg[4] /\ nflag /\ Replaced(e.line, r.arg) # {} THEN wline(d, d.line) ELSE d
    [] r.cmd = "w" -> e
    [] r.cmd = "x" -> [e EXCEPT !.line = e.hold, !.hold = e.gen]
    [] r.cmd = "y" -> [e EXCEPT !.line = [k \in DOMAIN @ |-> IF @[k] = r.arg[1] THEN r.arg[2] ELSE @[k]]]
PrintOrRead(e, r, nflag) ==
  CASE r.cmd = "n" -> [arout(PrintLine(e, nflag)) EXCEPT !.line = <<>>, !.pending = e.pc + 1]
    [] r.cmd = "N" -> [arout(e) EXCEPT !.line = @ \o <<Newline>>, !.pending = e.pc + 1]
    [] r.cmd = "p" -> ToNext(wline(e, e.line))
    [] r.cmd = "P" -> ToNext(wline(e, Upto(e.line, Newline)))
    [] r.cmd = "q" -> [arout(PrintLine(e, nflag)) EXCEPT !.quitflag = TRUE]
Shown(e) == wline([e EXCEPT !.gen = e.line], e.line)
command(e, r, prog, nflag) ==
  CASE r.cmd \in {"a", "r"} -> ToNext(Queue(e, r))
    [] r.cmd = "c" -> LET d == [e EXCEPT !.delflag = TRUE]
                      IN IF ~e.inar[e.pc] \/ e.dolflag THEN wline(d, r.arg) ELSE d
    [] r.cmd = "d" -> [e EXCEPT !.delflag = TRUE]
    [] r.cmd = "D" -> IF Has(e.line, Newline) THEN [e EXCEPT !.line = After(@, Newline), !.pc = r.lb]
                      ELSE [e EXCEPT !.delflag = TRUE]
    [] r.cmd = "=" -> ToNext(wline(e, <<ToString(e.lnum)>>))
    [] r.cmd = "g" -> ToNext([e EXCEPT !.line = e.hold])
    [] r.cmd = "G" -> ToNext([e EXCEPT !.line = @ \o <<Newline>> \o e.hold])
    [] r.cmd = "h" -> ToNext([e EXCEPT !.hold = e.line])
    [] r.cmd = "H" -> ToNext([e EXCEPT !.hold = @ \o <<Newline>> \o e.line])
    [] r.cmd = "i" -> ToNext(wline(e, r.arg))
    [] r.cmd = "b" -> Jump(e, r, prog)
    [] r.cmd = "t" -> IF e.sflag THEN Jump([e EXCEPT !.sflag = FALSE], r, prog) ELSE ToNext(e)
    [] r.cmd = "l" -> ToNext(Shown(e))
    [] r.cmd \in {"n", "N", "p", "P", "q"} -> PrintOrRead(e, r, nflag)
    [] OTHER -> ToNext(Edit(e, r, nflag))

(* The loop of execute.  Only a command that was run is followed by a look   *)
(* at quitflag and pending, and execute then returns as it is.               *)
RECURSIVE Loop(_, _, _)
Loop(e, prog, nflag) ==
  LET r == prog[e.pc]
      s == [e EXCEPT !.inar[e.pc] = InarAfter(e, r)]
      d == command(s, r, prog, nflag)
  IN IF e.pc > Len(prog) THEN e
     ELSE IF InRange(e, r) = r.neg THEN Loop(ToNext(s), prog, nflag)
            ELSE IF InRange(e, r) # r.neg /\ (d.quitflag \/ d.pending # 0 \/ d.overrun) THEN [d EXCEPT !.back = TRUE]
            ELSE IF InRange(e, r) # r.neg /\ d.delflag THEN d
            ELSE Loop(d, prog, nflag)

EndCycle(e, nflag) ==
  IF e.back THEN e
  ELSE [arout(IF e.delflag THEN e ELSE PrintLine(e, nflag)) EXCEPT !.delflag = FALSE, !.line = <<>>]

execute(e, prog, nflag) ==
  EndCycle(Loop([e EXCEPT !.lnum = @ + 1, !.sflag = FALSE, !.pending = 0, !.back = FALSE,
                          !.pc = IF e.pending = 0 THEN 1 ELSE e.pending], prog, nflag), nflag)
=============================================================================
