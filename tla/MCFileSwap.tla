----------------------------- MODULE MCFileSwap -----------------------------
(* FileSwap for TLC: the readers are interchangeable.                       *)
EXTENDS FileSwap, TLC

Symmetry == Permutations(Readers)
=============================================================================
