------------------------------ MODULE Restriction ------------------------------
(***************************************************************************)
(* Ordered dictionaries of the source (collections.OrderedDict) from which *)
(* some keys are deleted: the others keep their order.                     *)
(***************************************************************************)
EXTENDS Integers, FiniteSets

(* The members of S in s, in their order: SelectSeq by positions, without  *)
(* its recursion.                                                          *)
Restricted(s, S) ==
  LET P == {i \in DOMAIN s : s[i] \in S}
      Place(i) == Cardinality({j \in P : j <= i})
  IN [k \in 1..Cardinality(P) |-> s[CHOOSE i \in P : Place(i) = k]]
=============================================================================
