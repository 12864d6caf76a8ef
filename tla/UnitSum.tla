------------------------------- MODULE UnitSum -------------------------------
(***************************************************************************)
(* Finite sums of natural numbers, by counting units.  Total(f) is the sum *)
(* of f[x] over the domain of f: every x contributes the f[x] pairs        *)
(* <<x, 1>>, ..., <<x, f[x]>>.  The contracts accumulate such sums in      *)
(* loops; counting them through Cardinality keeps the definition           *)
(* non-recursive, so that facts about sums follow from facts about finite  *)
(* sets (see UnitSumProofs).                                               *)
(***************************************************************************)
EXTENDS Naturals, FiniteSets

Units(f) == UNION {{x} \X (1 .. f[x]) : x \in DOMAIN f}

Total(f) == Cardinality(Units(f))

TotalOver(S, f) == Total([x \in S |-> f[x]])

==============================================================================
