--------------------------- MODULE MCFacadeLocks ---------------------------
(* Instances of FacadeLocks for TLC: which methods the threads call.        *)
EXTENDS FacadeLocks, TLC

Symmetry == Permutations(Threads)
=============================================================================
