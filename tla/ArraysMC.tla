------------------------------- MODULE ArraysMC -------------------------------
(***************************************************************************)
(* Arrays on a small instance.                                             *)
(***************************************************************************)
EXTENDS Arrays, TLC

\* -3/2, -1/2, 1/2 and 3: the last two elements, the first, one that is often new.
MCIndices == {-3, -1, 1, 6}

\* Arrays are only compared.
Symmetry == Permutations(Arrays)
===============================================================================
