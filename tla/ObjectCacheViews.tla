------------------------- MODULE ObjectCacheViews -------------------------
(***************************************************************************)
(* ObjectCache with what its users see: the caches implement ObjectViews.  *)
(* The values an object had since its changes were last reported are kept  *)
(* in a history variable.                                                  *)
(***************************************************************************)
EXTENDS ObjectCache

VARIABLE since

ASSUME ViewsAssumption == Impls \cap Tmpls = {}

viewVars == <<vars, since>>

ViewsInit == Init /\ since = [o \in Objects |-> {db[o]}]

ViewsNext ==
  /\ Next
  /\ since' = [o \in Objects |-> IF Noted(o)' THEN since[o] \cup {db'[o]} ELSE {db'[o]}]

ViewsSpec == ViewsInit /\ [][ViewsNext]_viewVars

-----------------------------------------------------------------------------
\* what a ConfigObject with implementation object h answers when it is asked: a
\* deleted object throws, an Unknown one is reset and fetched again
ShownByImpl(h) ==
  IF objOf[h] = None \/ StateInUse(h) = "Deleted" THEN None
  ELSE IF state[h] = "Unknown" THEN db[objOf[h]] ELSE Answer(h)

\* what the template object t answers: it throws with its implementation object,
\* and asks it only for what it has not read
ShownByTmpl(t) ==
  IF implOf[t] = None \/ StateInUse(implOf[t]) = "Deleted" THEN None
  ELSE IF tval[t] # None THEN tval[t] ELSE ShownByImpl(implOf[t])

Views == Impls \cup Tmpls

\* the object a view is of
ObjectOf(x) == IF x \in Impls THEN objOf[x]
               ELSE IF implOf[x] = None THEN None ELSE objOf[implOf[x]]

Shown(x) == IF x \in Impls THEN ShownByImpl(x) ELSE ShownByTmpl(x)

Promise == INSTANCE ObjectViews WITH
             unreported <- {o \in Objects : Noted(o)},
             object <- [x \in Views |-> ObjectOf(x)],
             shown <- [x \in Views |-> Shown(x)],
             Pointers <- Tmpls,
             before <- [t \in Tmpls |-> IF t \in stale THEN tval[t] ELSE None]

\* The caches keep the promise of ObjectViews: whatever order objects are got, read,
\* set, renamed, destroyed and made again in, and reports come in, a ConfigObject or DAL
\* pointer stays with its object and shows no value older than the last report, but for
\* what a DAL pointer had read before this session set the object.  Anything else this
\* session does shows at once.
ImplementsViews == Promise!Spec
=============================================================================
