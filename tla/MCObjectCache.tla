--------------------------- MODULE MCObjectCache ---------------------------
(* Instances of ObjectCache for TLC: a class and its subclass.              *)
EXTENDS ObjectCache, TLC

CONSTANTS Base, Derived

OneSuper == (Base :> {}) @@ (Derived :> {Base})

Symmetry == Permutations(Impls) \cup Permutations(Tmpls) \cup Permutations(Values)
              \cup Permutations(Ids)
=============================================================================
