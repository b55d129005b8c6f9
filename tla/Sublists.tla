------------------------------ MODULE Sublists -------------------------------
(***************************************************************************)
(* What SelectSeq selects, with a set for its test: the entries of a list  *)
(* that are in S, in their order.  As a recursive function it can be       *)
(* reasoned about.                                                         *)
(***************************************************************************)
EXTENDS Integers, Sequences

Sublist(s, S) ==
  LET upto[k \in 0..Len(s)] ==
        IF k = 0 THEN <<>>
        ELSE IF s[k] \in S THEN Append(upto[k - 1], s[k]) ELSE upto[k - 1]
  IN upto[Len(s)]
=============================================================================
