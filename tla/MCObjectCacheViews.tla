------------------------ MODULE MCObjectCacheViews ------------------------
(* An instance of ObjectCacheViews for TLC: a class and its subclass.       *)
EXTENDS ObjectCacheViews, TLC

CONSTANTS Base, Derived

OneSuper == (Base :> {}) @@ (Derived :> {Base})

Symmetry == Permutations(Impls) \cup Permutations(Tmpls) \cup Permutations(Values)
              \cup Permutations(Ids)
=============================================================================
