--------------------------- MODULE MCObjectAccess ---------------------------
(* An instance of ObjectAccess for TLC: objects of a class, and one of its  *)
(* subclass whose id comes first.                                           *)
EXTENDS ObjectAccess, TLC

CONSTANTS Base, Derived, o1, o2, o3, o4, v, w, data, other

TwoClasses == <<Base, Derived>>
Family == (o1 :> Base) @@ (o2 :> Base) @@ (o3 :> Base) @@ (o4 :> Derived)
OneSuper == (Base :> {}) @@ (Derived :> {Base})
FewLists == {<< >>, <<v, w>>}
TwoDatabases ==
  {[exists |-> here,
    id |-> (o1 :> 4) @@ (o2 :> 2) @@ (o3 :> 3) @@ (o4 :> 1), file |-> [o \in Objects |-> data],
    list |-> (o1 :> <<v, w>>) @@ [o \in Objects |-> << >>]] :
   here \in {Objects, Objects \ {o3}}}
Symmetry == Permutations(Converters)
=============================================================================
