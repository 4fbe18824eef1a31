----------------------------- MODULE MCMemPool -----------------------------
(* MemPool on a few interchangeable items.                                 *)
EXTENDS MemPool, TLC

Symmetry == Permutations(Items)
=============================================================================
