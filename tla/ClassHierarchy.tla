--------------------------- MODULE ClassHierarchy ---------------------------
(***************************************************************************)
(* The class relations the facade keeps (p_superclasses, p_subclasses) and *)
(* what it decides with them: casts, and the C++ class that the DalFactory *)
(* makes for an object.                                                    *)
(*                                                                         *)
(* supers is p_superclasses: for each class of the schema, all its         *)
(* superclasses.  Class names are interned by the DalFactory, so that      *)
(* comparing pointers, as fmap and fset do, is comparing names.            *)
(***************************************************************************)
EXTENDS Integers, Sequences

\* the relation before a database is loaded
NoClasses == [c \in {} |-> {}]

\* set_subclasses: p_subclasses, for each superclass, the classes derived from it
Subclasses(supers) ==
  [p \in UNION {supers[c] : c \in DOMAIN supers} |->
     {c \in DOMAIN supers : p \in supers[c]}]

\* try_cast(target, source)
TryCast(supers, target, source) ==
  \/ target = source
  \/ source \in DOMAIN supers /\ target \in supers[source]

\* DalFactory::functions: the classes whose functions may be used for an object of
\* class name, none if it throws.  The superclasses are in an unordered set of
\* pointers: the first that is registered may be any of them.
Creators(registered, supers, name, upcast) ==
  IF name \in registered THEN {name}
  ELSE IF upcast /\ name \in DOMAIN supers THEN supers[name] \cap registered
  ELSE {}

\* mutant of ClassForAlgo: the direction of the cast is swapped
ClassForAlgo_Swapped(names, algorithms, supers, name, algorithm) ==
  LET Suits(i) == algorithm \in algorithms[names[i]] /\ TryCast(supers, name, names[i])
  IN {names[i] : i \in {k \in DOMAIN names : Suits(k) /\ \A j \in 1 .. k - 1 : ~ Suits(j)}}

\* DalFactory::class4algo: the first registered class, by name, that has the
\* algorithm and that an object of class name can be cast to; none for ""
ClassForAlgo(names, algorithms, supers, name, algorithm) ==
  LET Suits(i) == algorithm \in algorithms[names[i]] /\ TryCast(supers, names[i], name)
  IN {names[i] : i \in {k \in DOMAIN names : Suits(k) /\ \A j \in 1 .. k - 1 : ~ Suits(j)}}
=============================================================================
