------------------------------ MODULE ClosuresMC ------------------------------
(***************************************************************************)
(* Closures on small instances. Upvalue objects are interchangeable.       *)
(***************************************************************************)
EXTENDS Closures, TLC

Symmetry == Permutations(Upvalues)
===============================================================================
