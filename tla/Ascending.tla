----------------------------- MODULE Ascending -----------------------------
(***************************************************************************)
(* Finite sets of positions put in their order, as the programs meet them  *)
(* that read a file from its start.                                        *)
(***************************************************************************)
EXTENDS Naturals, FiniteSets

(* How many numbers of S are smaller than x.                               *)
Rank(S, x) == Cardinality({y \in S : y < x})

Ascending(S) ==
  [k \in 1 .. Cardinality(S) |-> CHOOSE x \in S : Rank(S, x) = k - 1]
=============================================================================
