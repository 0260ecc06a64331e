----------------------------- MODULE MCSession -----------------------------
(* An instance of Session for TLC: a class in one file, a registered        *)
(* subclass, and a subclass of it without a C++ class in an include.        *)
EXTENDS Session, TLC

CONSTANTS data, more, Base, Middle, Leaf, run, check

TwoFiles == (Base :> data) @@ (Middle :> data) @@ (Leaf :> more)
Chain == (Base :> {}) @@ (Middle :> {Base}) @@ (Leaf :> {Base, Middle})
Registered == <<Base, Middle>>
HasAlgorithms == (Base :> {run}) @@ (Middle :> {run, check}) @@ (Leaf :> {})
=============================================================================
