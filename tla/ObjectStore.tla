----------------------------- MODULE ObjectStore -----------------------------
(***************************************************************************)
(* What the active list promises (engines/pkcs11/e_pk11_pub.c, comment at  *)
(* KEY_HANDLE_REFHOLD): key objects are shared by the sessions that cache  *)
(* their handle, and an object is only destroyed when nobody does.  Slots  *)
(* are the places a handle can be cached in; Permanent objects are stored  *)
(* in the token and never destroyed.                                       *)
(***************************************************************************)
CONSTANTS Slots, Handles, Permanent, Nil

VARIABLES live, holds

TypeOK ==
  /\ live \subseteq Handles
  /\ holds \in [Slots -> Handles \cup {Nil}]

Init ==
  /\ live = Permanent
  /\ holds = [q \in Slots |-> Nil]

Create(x) ==
  /\ x \notin live
  /\ live' = live \cup {x}
  /\ UNCHANGED holds

Hold(q, x) ==
  /\ holds[q] = Nil /\ x \in live
  /\ holds' = [holds EXCEPT ![q] = x]
  /\ UNCHANGED live

Drop(q) ==
  /\ holds[q] # Nil
  /\ holds' = [holds EXCEPT ![q] = Nil]
  /\ UNCHANGED live

Destroy(x) ==
  /\ x \in live \ Permanent
  /\ \A q \in Slots : holds[q] # x
  /\ live' = live \ {x}
  /\ UNCHANGED holds

Next ==
  \/ \E x \in Handles : Create(x) \/ Destroy(x)
  \/ \E q \in Slots : Drop(q) \/ \E x \in Handles : Hold(q, x)

Spec == Init /\ [][Next]_<<live, holds>>

\* A cached handle always names a live object.
NoDangling == \A q \in Slots : holds[q] # Nil => holds[q] \in live
=============================================================================
