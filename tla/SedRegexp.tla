------------------------------ MODULE SedRegexp ------------------------------
(***************************************************************************)
(* The regular expressions of libsed (regexp.c, and match, substitute and  *)
(* dosub of sed1.c): sed_compile turns an expression into a program of     *)
(* single-character tests, groups and back references, sed_step looks for  *)
(* the leftmost place where _advance can run it, and s with g goes on from *)
(* where the last replacement ended.                                       *)
(***************************************************************************)
EXTENDS Integers, Sequences, FiniteSets, SequencesExt, FiniteSetsExt

CONSTANTS
  Chars,        \* the characters of a line
  Expressions,  \* sequences of tokens: <<"chr", c>>, <<"any">>, <<"class", C, neg>>,
                \* <<"^">>, <<"$">>, <<"*">>, <<"(">>, <<")">>, <<"back", n>>,
                \* and <<"range", low, high>> with Open for \{m,\}
  Lines,        \* the lines
  NBRA,         \* most groups in an expression
  MaxLine       \* bound on line growth: replacements that are followed up

VARIABLES
  source,  \* the expression
  line,    \* linebuf
  loc,     \* the match that was found last: [ok, loc1, loc2, groups], with loc2
           \* moved by dosub to the end of the replacement
  locs,    \* 0 at first, then where the next match may not be empty
  before,  \* the line that match looked at
  phase    \* "start", "found" (dosub is next), "again" (match with gf), "done"

vars == <<source, line, loc, locs, before, phase>>

Open == 255
Star == "*"

-----------------------------------------------------------------------------
(* sed_compile: the program, lastep as an index into it, the open brackets.  *)

Op(t, arg) == [test |-> t, arg |-> arg, rep |-> "once", low |-> 1, high |-> 1]
Fresh == [prog |-> <<>>, lastep |-> 0, nbra |-> 0, closed |-> 0, bracket |-> <<>>, circf |-> FALSE, err |-> 0]
Emit(s, o) == [s EXCEPT !.prog = Append(@, o), !.lastep = Len(s.prog) + 1]
Bad(s, n) == [s EXCEPT !.err = n]
Repeated(s, how, low, high) ==
  [s EXCEPT !.prog[s.lastep] = [@ EXCEPT !.rep = how, !.low = low, !.high = high]]
IsGroup(s) == s.prog[s.lastep].test \in {"bra", "ket"}

Escaped(s, t) ==
  CASE t[1] = "range" -> IF s.lastep = 0 THEN Emit(s, Op("chr", "{"))
                         ELSE IF t[3] < t[2] THEN Bad(s, 46) ELSE Repeated(s, "range", t[2], t[3])
    [] t[1] = "(" -> IF s.nbra >= NBRA THEN Bad(s, 43)
                     ELSE [Emit(s, Op("bra", s.nbra + 1)) EXCEPT !.nbra = @ + 1, !.bracket = Append(@, s.nbra + 1)]
    [] t[1] = ")" -> IF s.bracket = <<>> THEN Bad(s, 42)
                     ELSE [Emit(s, Op("ket", Last(s.bracket))) EXCEPT !.bracket = Front(@), !.closed = @ + 1]
    [] t[1] = "back"  -> IF t[2] > s.closed THEN Bad(s, 25) ELSE Emit(s, Op("back", t[2]))
    [] OTHER          -> Emit(s, Op("chr", t[2]))
Token(s, t) ==
  IF s.err # 0 THEN s
    ELSE IF t[1] = Star THEN IF s.lastep = 0 \/ IsGroup(s) THEN Emit(s, Op("chr", Star)) ELSE Repeated(s, "star", 0, Open)
    ELSE IF t[1] = "any" THEN Emit(s, Op("dot", ""))
    ELSE IF t[1] = "class" THEN Emit(s, Op("class", IF t[3] THEN Chars \ t[2] ELSE t[2]))
    ELSE IF t[1] = "$" THEN Emit(s, Op("dol", ""))
    ELSE Escaped(s, t)

(* "^" counts at the start only, "$" at the end only.                        *)
Plain(e, k) ==
  IF e[k] = <<"^">> \/ (e[k] = <<"$">> /\ k < Len(e)) THEN <<"chr", e[k][1]>> ELSE e[k]
sed_compile(e) ==
  LET up == e # <<>> /\ e[1] = <<"^">>
      rest == [k \in 1..(IF up THEN Len(e) - 1 ELSE Len(e)) |-> Plain(e, IF up THEN k + 1 ELSE k)]
      s == FoldLeft(Token, [Fresh EXCEPT !.circf = up], rest)
  IN IF s.err = 0 /\ s.bracket # <<>> THEN Bad(s, 42) ELSE s

compiled == sed_compile(source)
NoGroups == [n \in 1..NBRA |-> [s |-> 0, e |-> 0]]
NoMatch == [ok |-> FALSE, loc1 |-> 0, loc2 |-> 0, groups |-> NoGroups]

-----------------------------------------------------------------------------
(* _advance from the place lp with operation k of the program; "from" is     *)
(* locs.  A repeated test takes as many characters as it can and gives them  *)
(* back one by one, but never down to the place locs.                        *)

Fits(l, o, p) ==
  /\ p \in DOMAIN l
  /\ CASE o.test = "chr" -> l[p] = o.arg
       [] o.test = "dot" -> TRUE
       [] OTHER          -> l[p] \in o.arg
Run(l, o, p, n) == \A j \in p..p + n - 1 : Fits(l, o, j)
MostBug(l, o, p) == Max({n \in 0..Len(l) : Run(l, o, p, n)})
Most(l, o, p) ==
  Max({n \in 0..Len(l) : Run(l, o, p, n) /\ (o.high = Open \/ n <= o.high)})
Group(l, g, n) == SubSeq(l, g[n].s, g[n].e - 1)
Reads(l, p, text) == p + Len(text) - 1 <= Len(l) /\ SubSeq(l, p, p + Len(text) - 1) = text

RECURSIVE _advance(_, _, _, _, _, _)
_advance(l, prog, from, lp, k, g) ==
  LET o == prog[k]
      Go(p, h) == _advance(l, prog, from, p, k + 1, h)
      Back(places) == LET good == {p \in places : p # from /\ Go(p, g).ok}
                      IN IF good = {} THEN NoMatch ELSE Go(Max(good), g)
      Test(b, p, h) == IF b THEN Go(p, h) ELSE NoMatch
  IN IF k > Len(prog) THEN [NoMatch EXCEPT !.ok = TRUE, !.loc2 = lp, !.groups = g]
     ELSE IF o.test = "bra" THEN Go(lp, [g EXCEPT ![o.arg].s = lp])
            ELSE IF o.test = "ket" THEN Go(lp, [g EXCEPT ![o.arg].e = lp])
            ELSE IF o.test = "dol" THEN Test(lp > Len(l), lp, g)
            ELSE IF o.test = "back" THEN Test(Reads(l, lp, Group(l, g, o.arg)), lp + Len(Group(l, g, o.arg)), g)
            ELSE IF o.rep = "once" THEN Test(Fits(l, o, lp), lp + 1, g)
            ELSE IF Most(l, o, lp) < o.low THEN NoMatch
                        ELSE Back(lp + o.low..lp + Most(l, o, lp))

(* sed_step: from p1 on, or only there for an expression with "^".           *)
sed_step(l, from, p1) ==
  LET At(p) == _advance(l, compiled.prog, from, p, 1, NoGroups)
      places == {p \in p1..(IF compiled.circf THEN p1 ELSE Len(l) + 1) : At(p).ok}
  IN IF places = {} THEN NoMatch ELSE [At(Min(places)) EXCEPT !.loc1 = Min(places)]

-----------------------------------------------------------------------------
(* match, substitute with g, and dosub, whose replacement is "<&>".          *)

Take(m, from) ==
  /\ loc' = m /\ locs' = from /\ before' = line
  /\ phase' = IF m.ok THEN "found" ELSE "done"
  /\ UNCHANGED <<source, line>>
match == phase = "start" /\ compiled.err = 0 /\ Take(sed_step(line, 0, 1), 0)
dosub ==
  LET text == <<"<">> \o SubSeq(line, loc.loc1, loc.loc2 - 1) \o <<">">>
  IN /\ phase = "found" /\ Len(line) < MaxLine
     /\ line' = SubSeq(line, 1, loc.loc1 - 1) \o text \o SubSeq(line, loc.loc2, Len(line))
     /\ loc' = [loc EXCEPT !.loc2 = loc.loc1 + Len(text)]
     /\ phase' = IF loc'.loc2 <= Len(line') /\ ~compiled.circf THEN "again" ELSE "done"
     /\ UNCHANGED <<source, locs, before>>
MatchAgain == phase = "again" /\ Take(sed_step(line, loc.loc2, loc.loc2), loc.loc2)

Init ==
  /\ source \in Expressions /\ line \in Lines
  /\ loc = NoMatch /\ locs = 0 /\ before = <<>> /\ phase = "start"

Next == match \/ dosub \/ MatchAgain
Spec == Init /\ [][Next]_vars

-----------------------------------------------------------------------------
(* The reference: where an operation may lead, with no order of trying.      *)

Ends(l, o, x) ==
  CASE o.test = "bra" -> {[x EXCEPT !.g[o.arg].s = x.p]}
    [] o.test = "ket" -> {[x EXCEPT !.g[o.arg].e = x.p]}
    [] o.test = "dol" -> {y \in {x} : x.p = Len(l) + 1}
    [] o.test = "back" -> {y \in {[x EXCEPT !.p = @ + Len(Group(l, x.g, o.arg))]} : Reads(l, x.p, Group(l, x.g, o.arg))}
    [] OTHER -> {[x EXCEPT !.p = @ + n] :
                   n \in {i \in 0..Len(l) : /\ o.low <= i /\ (i <= o.high \/ o.high = Open)
                                            /\ Run(l, o, x.p, i)}}
MatchesAt(l, p) ==
  {[from |-> p, to |-> x.p] :
     x \in FoldLeft(LAMBDA xs, o : UNION {Ends(l, o, x) : x \in xs}, {[p |-> p, g |-> NoGroups]}, compiled.prog)}
Matches(l, first) ==
  UNION {MatchesAt(l, p) : p \in first..(IF compiled.circf THEN 1 ELSE Len(l) + 1)}

(* The first repeated test of an expression that may take nothing.           *)
LeadingRepeat == \E k \in DOMAIN compiled.prog :
  compiled.prog[k].low = 0 /\ \A j \in 1..k - 1 : compiled.prog[j].test \in {"bra", "ket"}
Consumes == \E k \in DOMAIN compiled.prog : compiled.prog[k].test \in {"chr", "dot", "class"}

-----------------------------------------------------------------------------
(* Properties. *)

RegexpTypeOK ==
  /\ phase \in {"start", "found", "again", "done"} /\ locs \in 0..Len(line) + 1
  /\ loc.loc1 \in 0..Len(line) + 1 /\ loc.loc2 \in 0..Len(line) + 1
  /\ compiled.lastep \in 0..Len(compiled.prog) /\ compiled.nbra \in 0..NBRA
  /\ compiled.err \in {0, 25, 42, 43, 46}

(* With backtracking and greed a match is found exactly when there is one,   *)
(* the leftmost, and with one repeated test it is the longest there.         *)
LeftmostFound ==
  phase \in {"found", "done"} /\ locs = 0 /\ before = line =>
    LET all == Matches(line, 1)
        best == {m \in all : \A n \in all : m.from <= n.from}
    IN /\ loc.ok = (all # {})
       /\ loc.ok => /\ [from |-> loc.loc1, to |-> loc.loc2] \in best
                    /\ Cardinality({k \in DOMAIN compiled.prog : compiled.prog[k].rep # "once"}) = 1 =>
                         \A m \in best : m.to <= loc.loc2

(* s with g finds the next match that is not an empty one where the last     *)
(* ended, if the expression does not begin with a test that may take nothing,*)
(* and each match reaches farther than the last replacement did: it ends.    *)
NextFound ==
  phase \in {"found", "done"} /\ locs > 0 /\ before = line =>
    LET all == {m \in Matches(line, locs) : m.to > locs}
    IN /\ ~LeadingRepeat => /\ loc.ok = (all # {})
                            /\ loc.ok => \E m \in all : m.from = loc.loc1 /\ \A n \in all : m.from <= n.from
       /\ loc.ok /\ Consumes => loc.loc2 > locs
=============================================================================
