------------------------------ MODULE Ordering ------------------------------
(* ORDER BY: the rows of a finite set from first to last. Before is strict  *)
(* and decides between any two rows of it; there is no such sequence if it  *)
(* does not, so a list whose order leaves a tie to chance has no value.     *)
EXTENDS Integers, FiniteSets

InOrder(S, Before(_, _)) ==
  CHOOSE s \in [1..Cardinality(S) -> S] : \A i, j \in DOMAIN s : i < j => Before(s[i], s[j])
=============================================================================
