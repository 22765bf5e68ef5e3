--------------------------- MODULE MCWriterQueue ---------------------------
(* WriterQueue for TLC: the callers are interchangeable.                    *)
EXTENDS WriterQueue, TLC

Symmetry == Permutations(Jobs)
=============================================================================
