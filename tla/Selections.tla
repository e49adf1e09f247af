------------------------------ MODULE Selections ------------------------------
(***************************************************************************)
(* Filters of lists.  What is selected is described by positions and their *)
(* ranks, not by recursion, so that the proofs can count in finite sets.   *)
(***************************************************************************)
EXTENDS Integers, FiniteSets

\* The elements of a list at the positions K, in their order.
Rank(K, i)      == Cardinality(K \cap (1 .. i))
Select(list, K) ==
  [r \in 1 .. Cardinality(K) |-> list[CHOOSE i \in K : Rank(K, i) = r]]

===============================================================================
