----------------------------- MODULE MCListPages -----------------------------
(* TLC instances of ListPages. *)
EXTENDS ListPages, TLC

mcLimits == {-1, 1, 2}
mcOffsets == {-2, 0, 1}

mcZeroLimit == {0}
mcZeroOffset == {0}

Symmetry == Permutations(Item)
===============================================================================
