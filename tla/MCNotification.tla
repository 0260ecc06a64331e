--------------------------- MODULE MCNotification ---------------------------
(* Instances of Notification for TLC: criteria as users make them, by adding *)
(* and removing classes and objects.                                        *)
EXTENDS Notification, TLC

CONSTANTS c1, c2, o1, o2

OnClass == AddClass(NoCriteria, c1)
OnObject == AddObject(NoCriteria, c2, o1)
OnObjectOfClass == RemoveClass(AddObject(OnClass, c1, o1), c1)
Emptied == RemoveClass(RemoveObject(AddObject(OnClass, c2, o1), c2, o1), c1)

MixedCriteria == {Emptied, OnClass, OnObjectOfClass}
TwoCriteria == {OnClass, OnObject}

Symmetry == Permutations(Callers)
=============================================================================
