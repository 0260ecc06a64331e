------------------------- MODULE ObjectCacheProofs -------------------------
(***************************************************************************)
(* Theorems about ObjectCache, for any classes, ids, values and any number *)
(* of objects.  Types hold whatever the users do; the other theorems are   *)
(* about users that take the precautions Careless is about.                *)
(***************************************************************************)
EXTENDS ObjectCache, TLAPS

-----------------------------------------------------------------------------
(***************************************************************************)
(* TYPES                                                                   *)
(***************************************************************************)

\* the implementation objects in the cache are made
CachedMade == \A o \in Objects : implAt[o] # None => objOf[implAt[o]] # None

TypeInv == TypeOK /\ CachedMade

\* reset() leaves a state an implementation object can be in.
LEMMA StatesTyped ==
  ASSUME TypeOK
  PROVE  \A h \in Impls : ResetState(h) \in States /\ StateInUse(h) \in States
BY DEF TypeOK, ResetState, StateInUse, States

\* What insert_object changes keeps its type; what it returns is made, and is
\* an object of the cache.
LEMMA InsertTyped ==
  ASSUME TypeInv, NEW o \in Objects, NEW h \in Impls, InsertObject(o, h)
  PROVE  /\ implAt' \in [Objects -> Impls \cup {None}]
         /\ objOf' \in [Impls -> Objects \cup {None}]
         /\ state' \in [Impls -> States]
         /\ value' \in [Impls -> Values \cup {None}]
         /\ \A g \in Impls : objOf[g] # None => objOf'[g] = objOf[g]
         /\ objOf'[h] # None
         /\ CachedMade'
<1> USE DEF TypeInv
<1>1. CASE h \in Cached(o) /\ UNCHANGED <<implAt, objOf>>
  <2>1. PICK p \in Objects : implAt[p] = h
    BY <1>1 DEF Cached
  <2> QED BY <1>1, <2>1, NoneAssumption DEF TypeOK, CachedMade, InsertObject, States
<1>2. CASE ~ (h \in Cached(o) /\ UNCHANGED <<implAt, objOf>>)
  <2>1. /\ objOf[h] = None
        /\ implAt' = [implAt EXCEPT ![o] = h]
        /\ objOf' = [objOf EXCEPT ![h] = o]
        /\ state' = [state EXCEPT ![h] = "Valid"]
        /\ value' = [value EXCEPT ![h] = None]
    BY <1>2 DEF InsertObject
  <2> QED BY <2>1, NoneAssumption DEF TypeOK, CachedMade, States
<1> QED BY <1>1, <1>2

\* What Cache<T>::get changes keeps its type.
LEMMA CacheGetTyped ==
  ASSUME TypeInv, NEW c \in Classes, NEW h \in Impls, NEW t \in Tmpls,
         NEW init \in BOOLEAN, CacheGet(c, h, t, init), objOf'[h] # None,
         db' \in [Objects -> Values \cup {None}],
         objOf' \in [Impls -> Objects \cup {None}],
         value' \in [Impls -> Values \cup {None}]
  PROVE  /\ tmplAt' \in [Objects -> Tmpls \cup {None}]
         /\ implOf' \in [Tmpls -> Impls \cup {None}]
         /\ tval' \in [Tmpls -> Values \cup {None}]
         /\ stale' \in SUBSET {u \in Tmpls : implOf'[u] # None /\ tval'[u] # None}
         /\ \A u \in Tmpls : implOf'[u] = implOf[u] \/ implOf'[u] = h
<1>1. Answer(h)' \in Values \cup {None}
  BY DEF Answer
<1>2. implOf' = [implOf EXCEPT ![t] = h]
  BY DEF CacheGet
<1>3. tmplAt' \in [Objects -> Tmpls \cup {None}]
  BY DEF CacheGet, TypeInv, TypeOK
<1>4. tval' \in [Tmpls -> Values \cup {None}]
  BY <1>1 DEF CacheGet, TypeInv, TypeOK
<1>5. stale' \in SUBSET {u \in Tmpls : implOf'[u] # None /\ tval'[u] # None}
  <2>1. stale' = stale /\ \A u \in stale : u \in Tmpls /\ tval'[u] # None
    BY DEF CacheGet, TypeInv, TypeOK
  <2>2. \A u \in stale : implOf'[u] # None
    BY <1>2, NoneAssumption DEF TypeInv, TypeOK
  <2> QED BY <2>1, <2>2
<1> QED BY <1>2, <1>3, <1>4, <1>5 DEF TypeInv, TypeOK

\* update_cache keeps the types, when the database has its own.
LEMMA UpdateTyped ==
  ASSUME TypeInv, NEW changes, update_cache(changes)
  PROVE  /\ state' \in [Impls -> States]
         /\ value' \in [Impls -> Values \cup {None}]
         /\ tval' \in [Tmpls -> Values \cup {None}]
         /\ stale' \in SUBSET {u \in Tmpls : implOf'[u] # None /\ tval'[u] # None}
         /\ UNCHANGED <<implAt, objOf, tmplAt, implOf>>
<1>1. \A h \in Impls : ResetState(h)' \in States
  BY DEF ResetState, States
<1>2. state' \in [Impls -> States]
  BY <1>1 DEF update_cache, UpdateImplObjects, TypeInv, TypeOK, States
<1>3. value' \in [Impls -> Values \cup {None}]
  BY DEF update_cache, UpdateImplObjects, TypeInv, TypeOK
<1>4. tval' \in [Tmpls -> Values \cup {None}]
  BY DEF update_cache, UpdateTemplates, TypeInv, TypeOK
<1>5. stale' \in SUBSET {u \in Tmpls : implOf'[u] # None /\ tval'[u] # None}
  BY DEF update_cache, Forgotten, TypeInv, TypeOK
<1> QED BY <1>2, <1>3, <1>4, <1>5 DEF update_cache

\* Types hold initially,
LEMMA TypeInit == Init => TypeInv
BY NoneAssumption DEF Init, TypeInv, TypeOK, CachedMade, States

\* and every step keeps them.
LEMMA TypeStep == TypeInv /\ [Next]_vars => TypeInv'
<1> SUFFICES ASSUME TypeInv, [Next]_vars PROVE TypeInv'
  OBVIOUS
<1>1. ASSUME NEW o \in Objects, get_object(o) PROVE TypeInv'
  <2>1. PICK h \in Impls : InsertObject(o, h)
    BY <1>1 DEF get_object
  <2>2. UNCHANGED <<db, pending, tmplVars>>
    BY <1>1 DEF get_object
  <2> QED BY <2>1, <2>2, InsertTyped DEF TypeInv, TypeOK, tmplVars
<1>2. ASSUME NEW o \in Objects, NEW v \in Values, create_object(o, v) PROVE TypeInv'
  <2>1. PICK h \in Impls : InsertObject(o, h)
    BY <1>2 DEF create_object
  <2>2. db' \in [Objects -> Values \cup {None}] /\ UNCHANGED <<pending, tmplVars>>
    BY <1>2 DEF create_object, TypeInv, TypeOK
  <2> QED BY <2>1, <2>2, InsertTyped DEF TypeInv, TypeOK, tmplVars
<1>3. ASSUME NEW h \in Impls, Fetch(h) PROVE TypeInv'
  BY <1>3 DEF Fetch, TypeInv, TypeOK, CachedMade, tmplVars
<1>4. ASSUME NEW c \in Classes, NEW o \in Objects, NEW init \in BOOLEAN,
             get_by_id(c, o, init)
      PROVE  TypeInv'
  <2>1. PICK h \in Impls, t \in Tmpls : InsertObject(o, h) /\ CacheGet(c, h, t, init)
    BY <1>4 DEF get_by_id
  <2>2. UNCHANGED <<db, pending>>
    BY <1>4 DEF get_by_id
  <2>3. /\ implAt' \in [Objects -> Impls \cup {None}]
        /\ objOf' \in [Impls -> Objects \cup {None}]
        /\ state' \in [Impls -> States]
        /\ value' \in [Impls -> Values \cup {None}]
        /\ \A g \in Impls : objOf[g] # None => objOf'[g] = objOf[g]
        /\ objOf'[h] # None
        /\ CachedMade'
    BY <2>1, InsertTyped
  <2>4. db' \in [Objects -> Values \cup {None}]
    BY <2>2 DEF TypeInv, TypeOK
  <2>5. /\ tmplAt' \in [Objects -> Tmpls \cup {None}]
        /\ implOf' \in [Tmpls -> Impls \cup {None}]
        /\ tval' \in [Tmpls -> Values \cup {None}]
        /\ stale' \in SUBSET {u \in Tmpls : implOf'[u] # None /\ tval'[u] # None}
        /\ \A u \in Tmpls : implOf'[u] = implOf[u] \/ implOf'[u] = h
    BY <2>1, <2>3, <2>4, CacheGetTyped
  <2>6. \A u \in Tmpls : implOf'[u] # None => objOf'[implOf'[u]] # None
    BY <2>3, <2>5 DEF TypeInv, TypeOK
  <2> QED BY <2>2, <2>3, <2>4, <2>5, <2>6 DEF TypeInv, TypeOK
<1>5. ASSUME NEW c \in Classes, NEW h \in Impls, NEW init \in BOOLEAN,
             get_by_object(c, h, init)
      PROVE  TypeInv'
  <2>1. PICK t \in Tmpls : CacheGet(c, h, t, init)
    BY <1>5 DEF get_by_object
  <2>2. objOf[h] # None /\ UNCHANGED <<db, pending, implVars>>
    BY <1>5 DEF get_by_object
  <2>3. /\ db' \in [Objects -> Values \cup {None}]
        /\ objOf' \in [Impls -> Objects \cup {None}]
        /\ value' \in [Impls -> Values \cup {None}]
        /\ objOf'[h] # None
    BY <2>2 DEF TypeInv, TypeOK, implVars
  <2>4. /\ tmplAt' \in [Objects -> Tmpls \cup {None}]
        /\ implOf' \in [Tmpls -> Impls \cup {None}]
        /\ tval' \in [Tmpls -> Values \cup {None}]
        /\ stale' \in SUBSET {u \in Tmpls : implOf'[u] # None /\ tval'[u] # None}
        /\ \A u \in Tmpls : implOf'[u] = implOf[u] \/ implOf'[u] = h
    BY <2>1, <2>3, CacheGetTyped
  <2>5. \A u \in Tmpls : implOf'[u] # None => objOf'[implOf'[u]] # None
    BY <2>2, <2>4 DEF TypeInv, TypeOK, implVars
  <2> QED BY <2>2, <2>4, <2>5 DEF TypeInv, TypeOK, CachedMade, implVars
<1>6. ASSUME NEW t \in Tmpls, read_attribute(t) \/ unread(t) PROVE TypeInv'
  <2> DEFINE h == implOf[t]
  <2>1. /\ h \in Impls
        /\ objOf[h] \in Objects
        /\ UNCHANGED <<db, pending, implAt, objOf, tmplAt, implOf>>
        /\ state' = [state EXCEPT ![h] = StateInUse(h)]
        /\ value' = [value EXCEPT ![h] = IF state[h] = "Unknown" THEN None ELSE @]
    BY <1>6 DEF read_attribute, unread, TypeInv, TypeOK
  <2>2. state' \in [Impls -> States] /\ value' \in [Impls -> Values \cup {None}]
    BY <2>1, StatesTyped DEF TypeInv, TypeOK
  <2>3. Answer(h)' \in Values \cup {None}
    BY <2>1, <2>2 DEF Answer, TypeInv, TypeOK
  <2>4. tval' \in [Tmpls -> Values \cup {None}]
    BY <1>6, <2>3 DEF read_attribute, unread, TypeInv, TypeOK
  <2>5. stale' \in SUBSET {u \in Tmpls : implOf'[u] # None /\ tval'[u] # None}
    <3>1. CASE read_attribute(t)
      <4>1. stale' = stale /\ \A u \in stale : tval[u] # None
        BY <3>1 DEF read_attribute, TypeInv, TypeOK
      <4>2. tval[t] # None => tval' = tval
        BY <3>1 DEF read_attribute
      <4>3. \A u \in Tmpls : u # t => tval'[u] = tval[u]
        BY <3>1 DEF read_attribute, TypeInv, TypeOK
      <4> QED BY <2>1, <4>1, <4>2, <4>3 DEF TypeInv, TypeOK
    <3>2. CASE unread(t)
      BY <2>1, <3>2 DEF unread, Forgotten, TypeInv, TypeOK
    <3> QED BY <1>6, <3>1, <3>2
  <2> QED BY <2>1, <2>2, <2>4, <2>5 DEF TypeInv, TypeOK, CachedMade
<1>7. ASSUME NEW t \in Tmpls, NEW v \in Values, set(t, v) PROVE TypeInv'
  <2> DEFINE h == implOf[t]
  <2>1. h \in Impls /\ objOf[h] \in Objects
    BY <1>7 DEF set, TypeInv, TypeOK
  <2>2. UNCHANGED <<pending, implAt, objOf, tmplAt, implOf, tval>>
    BY <1>7 DEF set
  <2>3. stale' \in SUBSET {u \in Tmpls : implOf'[u] # None /\ tval'[u] # None}
    BY <1>7, <2>2 DEF set, ReadersOf, TypeInv, TypeOK
  <2>4. /\ db' \in [Objects -> Values \cup {None}]
        /\ state' \in [Impls -> States]
        /\ value' \in [Impls -> Values \cup {None}]
    BY <1>7, <2>1 DEF set, TypeInv, TypeOK, States
  <2> QED BY <2>2, <2>3, <2>4 DEF TypeInv, TypeOK, CachedMade
<1>8. ASSUME NEW o \in Objects, NEW k \in Kinds, change_database(o, k) PROVE TypeInv'
  <2>1. db' \in [Objects -> Values \cup {None}]
    BY <1>8 DEF change_database, TypeInv, TypeOK, Kinds
  <2> QED BY <1>8, <2>1 DEF change_database, TypeInv, TypeOK, CachedMade, implVars, tmplVars
<1>9. ASSUME system_cb PROVE TypeInv'
  <2>1. update_cache(pending) /\ UNCHANGED db /\ pending' = {}
    BY <1>9 DEF system_cb
  <2> QED BY <2>1, UpdateTyped DEF TypeInv, TypeOK, CachedMade
<1>10. ASSUME NEW S \in SUBSET Objects, destroy_obj(S) PROVE TypeInv'
  <2>1. update_cache(S \X {"removed"}) /\ UNCHANGED pending
    BY <1>10 DEF destroy_obj
  <2>2. db' \in [Objects -> Values \cup {None}]
    BY <1>10 DEF destroy_obj, TypeInv, TypeOK
  <2> QED BY <2>1, <2>2, UpdateTyped DEF TypeInv, TypeOK, CachedMade
<1>11. ASSUME NEW h \in Impls, NEW i \in Ids, rename_object(h, i) PROVE TypeInv'
  <2> DEFINE old == objOf[h]
             new == <<old[1], i>>
  <2>1. old \in Objects /\ new \in Objects
    BY <1>11 DEF rename_object, TypeInv, TypeOK, Objects
  <2>2. db' \in [Objects -> Values \cup {None}]
    BY <1>11, <2>1 DEF rename_object, TypeInv, TypeOK
  <2>3. objOf' = [objOf EXCEPT ![h] = new]
    BY <1>11 DEF rename_object
  <2>4. objOf' \in [Impls -> Objects \cup {None}]
    BY <2>1, <2>3 DEF TypeInv, TypeOK
  <2>5. state' \in [Impls -> States] /\ value' \in [Impls -> Values \cup {None}]
    BY <1>11 DEF rename_object, TypeInv, TypeOK, States
  <2>6. rename_impl_object(old, new) /\ RenameTemplates(old, new)
        /\ UNCHANGED <<pending, implOf, tval, stale>>
    BY <1>11 DEF rename_object
  <2>7. implAt' \in [Objects -> Impls \cup {None}]
    BY <2>1, <2>6 DEF rename_impl_object, TypeInv, TypeOK
  <2>8. CachedMade'
    <3>1. \A o \in Objects : implAt'[o] # None =>
            \E p \in Objects : implAt'[o] = implAt[p]
      BY <2>1, <2>6 DEF rename_impl_object, TypeInv, TypeOK
    <3>2. \A g \in Impls : objOf[g] # None => objOf'[g] # None
      BY <2>1, <2>3, NoneAssumption DEF TypeInv, TypeOK
    <3> QED BY <3>1, <3>2 DEF CachedMade, TypeInv, TypeOK
  <2>9. tmplAt' \in [Objects -> Tmpls \cup {None}]
    <3>1. \A k \in Objects : <<k[1], old[2]>> \in Objects
      BY <2>1 DEF Objects
    <3> QED BY <2>6, <3>1 DEF RenameTemplates, TypeInv, TypeOK
  <2>10. \A t \in Tmpls : implOf'[t] # None => objOf'[implOf'[t]] # None
    BY <2>1, <2>3, <2>6, NoneAssumption DEF TypeInv, TypeOK
  <2> QED BY <2>2, <2>4, <2>5, <2>6, <2>7, <2>8, <2>9, <2>10 DEF TypeInv, TypeOK
<1>12. CASE unread_implementation_objects \/ unread_template_objects
  BY <1>12 DEF unread_implementation_objects, unread_template_objects, UnreadImpls,
     UnreadTemplates, Forgotten, TypeInv, TypeOK, CachedMade, States, implVars, tmplVars
<1>13. CASE abort
  BY <1>13 DEF abort, UnreadImpls, UnreadTemplates, Forgotten, TypeInv, TypeOK, CachedMade, States
<1>14. CASE UNCHANGED vars
  BY <1>14 DEF vars, TypeInv, TypeOK, CachedMade
<1> QED
  BY <1>1, <1>2, <1>3, <1>4, <1>5, <1>6, <1>7, <1>8, <1>9, <1>10, <1>11, <1>12,
     <1>13, <1>14 DEF Next, UseImpl, UseTmpl

\* The variables keep their types, and templates point to implementation objects
\* that are made, whatever the users do.
THEOREM TypeCorrect == Spec => []TypeOK
<1>1. TypeInv => TypeOK
  BY DEF TypeInv
<1> QED BY <1>1, TypeInit, TypeStep, PTL DEF Spec

-----------------------------------------------------------------------------
(***************************************************************************)
(* HOW THE CACHES HOLD TOGETHER                                            *)
(*                                                                         *)
(* HeldIsCached is not inductive alone: rename_object moves the templates  *)
(* found under an id, which are those of the renamed object only because no*)
(* other object of the family is remembered under that id.                 *)
(***************************************************************************)

\* the database, the cache or a notification to come has o
Remembered(o) == db[o] # None \/ implAt[o] # None \/ Noted(o)

\* An id is remembered for one class of a family.
Exclusive == \A o \in Objects : Remembered(o) => \A p \in Rivals[o] : ~Remembered(p)

\* A template is in the cache once.
TemplateOnce == \A j, k \in Objects : tmplAt[j] # None /\ tmplAt[j] = tmplAt[k] => j = k

Shape == TypeInv /\ HeldIsCached /\ TemplateOnce /\ Exclusive

\* An object is the pair of its class and its id; rivals are mutual.
LEMMA ObjectPairs ==
  /\ \A o \in Objects : /\ o[1] \in Classes
                        /\ o[2] \in Ids
                        /\ o = <<o[1], o[2]>>
  /\ \A c \in Classes, i \in Ids : /\ <<c, i>> \in Objects
                                   /\ <<c, i>>[1] = c
                                   /\ <<c, i>>[2] = i
BY DEF Objects

LEMMA RivalsMutual ==
  \A o, p \in Objects : p \in Rivals[o] <=> o \in Rivals[p]
BY DEF Rivals

\* Objects of one id with a class in both their families are the same object or
\* rivals.
LEMMA SameOrRivals ==
  ASSUME NEW o \in Objects, NEW p \in Objects, NEW c \in Classes, o[2] = p[2],
         c \in Family(o[1]), c \in Family(p[1])
  PROVE  o = p \/ p \in Rivals[o]
BY DEF Rivals

\* insert_object of an object without cached rivals: the implementation object
\* is that of its own class and id, and is valid.
LEMMA InsertAt ==
  ASSUME Shape, NEW o \in Objects, NEW h \in Impls, InsertObject(o, h),
         \A p \in Rivals[o] : implAt[p] = None
  PROVE  /\ implAt' = [implAt EXCEPT ![o] = h]
         /\ objOf' = [objOf EXCEPT ![h] = o]
         /\ state' = [state EXCEPT ![h] = "Valid"]
         /\ value' = [value EXCEPT ![h] = None]
         /\ (implAt[o] = None /\ objOf[h] = None) \/ (implAt[o] = h /\ objOf[h] = o)
<1>1. ASSUME NEW q \in Objects, q[2] = o[2], o[1] \in Supers[q[1]], implAt[q] # None
      PROVE  q = o
  <2>1. o[1] \in Classes /\ o[1] \in Family(o[1]) /\ o[1] \in Family(q[1])
    BY <1>1, ObjectPairs DEF Family
  <2> QED BY <1>1, <2>1, SameOrRivals
<1>2. Cached(o) = IF implAt[o] # None THEN {implAt[o]} ELSE {}
  BY <1>1 DEF Cached
<1>3. CASE implAt[o] # None
  <2>1. h = implAt[o] /\ objOf[h] = o
    BY <1>2, <1>3 DEF InsertObject, Shape, HeldIsCached
  <2> QED BY <1>2, <1>3, <2>1 DEF InsertObject, Shape, TypeInv, TypeOK
<1>4. CASE implAt[o] = None
  <2>1. Cached(o) = {}
    BY <1>2, <1>4
  <2> QED BY <1>4, <2>1 DEF InsertObject
<1> QED BY <1>3, <1>4

\* What insert_object does to the cache of implementation objects.
LEMMA InsertShape ==
  ASSUME Shape, NEW o \in Objects, NEW h \in Impls, InsertObject(o, h),
         \A p \in Rivals[o] : implAt[p] = None
  PROVE  /\ \A g \in Impls : objOf'[g] # None => implAt'[objOf'[g]] = g
         /\ \A p \in Objects : implAt'[p] # None => objOf'[implAt'[p]] = p
         /\ \A g \in Impls : objOf[g] # None => objOf'[g] = objOf[g]
         /\ \A p \in Objects : p # o => implAt'[p] = implAt[p]
         /\ implAt'[o] = h /\ objOf'[h] = o
<1>1. /\ implAt' = [implAt EXCEPT ![o] = h]
      /\ objOf' = [objOf EXCEPT ![h] = o]
      /\ (implAt[o] = None /\ objOf[h] = None) \/ (implAt[o] = h /\ objOf[h] = o)
  BY InsertAt
<1> QED BY <1>1, NoneAssumption DEF Shape, HeldIsCached, TypeInv, TypeOK

\* What HeldIsCached says of the template objects
TemplatesHeld ==
  /\ \A t \in Tmpls : implOf[t] # None =>
       \E c \in Classes : tmplAt[<<c, objOf[implOf[t]][2]>>] = t
  /\ \A k \in Objects : tmplAt[k] # None =>
       LET h == implOf[tmplAt[k]] IN
       h # None /\ objOf[h][2] = k[2] /\ k[1] \in Family(objOf[h][1])

\* Cache<T>::get makes a template for the implementation object, or returns the
\* one of it: never one of another object, that it would take over.
LEMMA CacheGetAt ==
  ASSUME Shape, NEW c \in Classes, NEW h \in Impls, NEW t \in Tmpls,
         NEW init \in BOOLEAN, CacheGet(c, h, t, init),
         objOf'[h] \in Objects, c \in Family(objOf'[h][1]),
         \A g \in Impls : objOf[g] # None => objOf'[g] = objOf[g],
         \A g \in Impls : objOf'[g] # None => implAt'[objOf'[g]] = g,
         Exclusive'
  PROVE  \/ /\ tmplAt[<<c, objOf'[h][2]>>] = None
            /\ implOf[t] = None
            /\ tmplAt' = [tmplAt EXCEPT ![<<c, objOf'[h][2]>>] = t]
            /\ implOf' = [implOf EXCEPT ![t] = h]
            /\ tval' = [tval EXCEPT ![t] =
                   IF init /\ state'[h] = "Valid" THEN Answer(h)' ELSE None]
            /\ UNCHANGED stale
         \/ implOf[t] = h /\ UNCHANGED tmplVars
<1> DEFINE k == <<c, objOf'[h][2]>>
<1>1. CASE tmplAt[k] = None
  BY <1>1, NoneAssumption DEF CacheGet
<1>2. CASE tmplAt[k] # None
  <2>1. /\ tmplAt[k] = t
        /\ implOf' = [implOf EXCEPT ![t] = h]
        /\ UNCHANGED <<tmplAt, tval, stale>>
    BY <1>2 DEF CacheGet
  <2> DEFINE g == implOf[t]
  <2>2. k \in Objects /\ k[1] = c /\ k[2] = objOf'[h][2]
    BY ObjectPairs
  <2>3. g # None /\ objOf[g][2] = objOf'[h][2] /\ c \in Family(objOf[g][1])
    BY <1>2, <2>1, <2>2 DEF Shape, HeldIsCached
  <2>4. g \in Impls /\ objOf[g] \in Objects /\ objOf'[g] = objOf[g]
    BY <2>3 DEF Shape, TypeInv, TypeOK
  <2>5. implAt'[objOf[g]] = g /\ implAt'[objOf'[h]] = h
    BY <2>4, NoneAssumption
  <2>6. objOf[g] = objOf'[h] \/ objOf'[h] \in Rivals[objOf[g]]
    BY <2>3, <2>4, SameOrRivals
  <2>7. objOf'[h] \notin Rivals[objOf[g]]
    BY <2>4, <2>5, NoneAssumption DEF Exclusive, Remembered
  <2>8. g = h
    BY <2>5, <2>6, <2>7
  <2> QED BY <2>1, <2>8 DEF Shape, TypeInv, TypeOK, tmplVars
<1> QED BY <1>1, <1>2

\* What Cache<T>::get does to the cache of template objects.
LEMMA CacheGetShape ==
  ASSUME Shape, NEW c \in Classes, NEW h \in Impls, NEW t \in Tmpls,
         NEW init \in BOOLEAN, CacheGet(c, h, t, init),
         objOf'[h] \in Objects, c \in Family(objOf'[h][1]),
         \A g \in Impls : objOf[g] # None => objOf'[g] = objOf[g],
         \A g \in Impls : objOf'[g] # None => implAt'[objOf'[g]] = g,
         Exclusive'
  PROVE  TemplatesHeld' /\ TemplateOnce'
<1> DEFINE k == <<c, objOf'[h][2]>>
<1>1. k \in Objects /\ k[1] = c /\ k[2] = objOf'[h][2]
  BY ObjectPairs
<1>2. /\ \A u \in Tmpls : implOf[u] # None =>
           objOf[implOf[u]] # None /\ objOf'[implOf[u]] = objOf[implOf[u]]
      /\ \A j \in Objects : tmplAt[j] # None => implOf[tmplAt[j]] # None
  BY DEF Shape, TypeInv, TypeOK, HeldIsCached
<1>3. CASE implOf[t] = h /\ UNCHANGED tmplVars
  <2>1. UNCHANGED <<tmplAt, implOf>>
    BY <1>3 DEF tmplVars
  <2>2. \A j \in Objects : tmplAt[j] # None => tmplAt[j] \in Tmpls
    BY DEF Shape, TypeInv, TypeOK
  <2>3. TemplatesHeld
    BY DEF Shape, HeldIsCached, TemplatesHeld
  <2>4. TemplatesHeld'
    BY <1>2, <2>1, <2>2, <2>3 DEF TemplatesHeld
  <2> QED BY <2>1, <2>4 DEF Shape, TemplateOnce
<1>4. CASE /\ tmplAt[k] = None
           /\ implOf[t] = None
           /\ tmplAt' = [tmplAt EXCEPT ![k] = t]
           /\ implOf' = [implOf EXCEPT ![t] = h]
  <2>1. \A j \in Objects : tmplAt[j] # t
    BY <1>2, <1>4, NoneAssumption
  <2>2. TemplateOnce'
    BY <1>1, <1>4, <2>1 DEF TemplateOnce, Shape, TypeInv, TypeOK
  <2>3. ASSUME NEW u \in Tmpls, implOf'[u] # None
        PROVE  \E d \in Classes : tmplAt'[<<d, objOf'[implOf'[u]][2]>>] = u
    <3>1. CASE u = t
      BY <1>1, <1>4, <3>1 DEF Shape, TypeInv, TypeOK
    <3>2. CASE u # t
      <4>1. implOf'[u] = implOf[u] /\ objOf'[implOf[u]] = objOf[implOf[u]]
        BY <1>2, <1>4, <2>3, <3>2 DEF Shape, TypeInv, TypeOK
      <4>2. PICK d \in Classes : tmplAt[<<d, objOf[implOf[u]][2]>>] = u
        BY <2>3, <4>1 DEF Shape, HeldIsCached
      <4>3. <<d, objOf[implOf[u]][2]>> \in Objects
        BY <2>3, <4>1, ObjectPairs DEF Shape, TypeInv, TypeOK
      <4>4. <<d, objOf[implOf[u]][2]>> # k
        BY <1>4, <4>2, NoneAssumption
      <4>5. tmplAt'[<<d, objOf[implOf[u]][2]>>] = u
        BY <1>4, <4>2, <4>3, <4>4 DEF Shape, TypeInv, TypeOK
      <4> QED BY <4>1, <4>5
    <3> QED BY <3>1, <3>2
  <2>4. ASSUME NEW j \in Objects, tmplAt'[j] # None
        PROVE  LET g == implOf'[tmplAt'[j]] IN
               g # None /\ objOf'[g][2] = j[2] /\ j[1] \in Family(objOf'[g][1])
    <3>1. CASE j = k
      BY <1>1, <1>4, <3>1, NoneAssumption DEF Shape, TypeInv, TypeOK
    <3>2. CASE j # k
      <4>1. tmplAt'[j] = tmplAt[j] /\ tmplAt[j] \in Tmpls /\ tmplAt[j] # t
        BY <1>4, <2>1, <2>4, <3>2 DEF Shape, TypeInv, TypeOK
      <4>2. implOf'[tmplAt[j]] = implOf[tmplAt[j]]
        BY <1>4, <4>1 DEF Shape, TypeInv, TypeOK
      <4> QED BY <1>2, <2>4, <4>1, <4>2 DEF Shape, HeldIsCached
    <3> QED BY <3>1, <3>2
  <2> QED BY <2>2, <2>3, <2>4 DEF TemplatesHeld
<1> QED BY <1>3, <1>4, CacheGetAt

\* The users take every precaution.
Careful == Careless = {}

\* rename_object: nothing is under the new id, and what is under the old one in
\* the caches of the class and of its superclasses is of the renamed object.
LEMMA RenameAt ==
  ASSUME Careful, Shape, NEW h \in Impls, NEW i \in Ids, rename_object(h, i)
  PROVE  LET old == objOf[h]
             new == <<old[1], i>>
         IN /\ old \in Objects /\ new \in Objects
            /\ old[2] # i
            /\ implAt[old] = h /\ implAt[new] = None /\ db[new] = None
            /\ ~Noted(old) /\ ~Noted(new)
            /\ \A p \in Rivals[new] : ~Remembered(p)
            /\ \A g \in Impls : ~Tangled(g, old, new)
            /\ \A c \in Family(old[1]) \cap Classes :
                 /\ tmplAt[<<c, i>>] = None
                 /\ tmplAt[<<c, old[2]>>] # None => implOf[tmplAt[<<c, old[2]>>]] = h
<1> DEFINE old == objOf[h]
           new == <<old[1], i>>
<1>1. /\ old \in Objects /\ new \in Objects
      /\ new[1] = old[1] /\ new[2] = i
  BY ObjectPairs DEF rename_object, Shape, TypeInv, TypeOK
<1>2. /\ db[old] # None
      /\ CanTake(new) /\ implAt[new] = None /\ ~Noted(old) /\ ~Noted(new)
  BY DEF rename_object, CanRename, Careful
<1>3. implAt[old] = h
  BY <1>1, NoneAssumption DEF Shape, HeldIsCached
<1>4. db[new] = None /\ \A p \in Rivals[new] : ~Remembered(p)
  BY <1>1, <1>2 DEF CanTake, Careful, Remembered
<1>5. old[2] # i
  BY <1>1, <1>2, <1>4, ObjectPairs
<1>6. \A g \in Impls : ~Tangled(g, old, new)
  BY <1>2, NoneAssumption DEF Tangled
<1>7. ASSUME NEW c \in Family(old[1]) \cap Classes, NEW o \in {old, new},
             tmplAt[<<c, o[2]>>] # None
      PROVE  LET g == implOf[tmplAt[<<c, o[2]>>]]
             IN g \in Impls /\ objOf[g] \in Objects /\ implAt[objOf[g]] = g
                /\ (objOf[g] = o \/ objOf[g] \in Rivals[o])
  <2> DEFINE k == <<c, o[2]>>
             g == implOf[tmplAt[k]]
  <2>1. o \in Objects /\ o[1] = old[1]
    BY <1>1
  <2>2. k \in Objects /\ k[1] = c /\ k[2] = o[2]
    BY <2>1, ObjectPairs
  <2>3. g # None /\ objOf[g][2] = o[2] /\ c \in Family(objOf[g][1])
    BY <1>7, <2>2 DEF Shape, HeldIsCached
  <2>4. g \in Impls /\ objOf[g] \in Objects /\ implAt[objOf[g]] = g
    BY <1>7, <2>2, <2>3 DEF Shape, TypeInv, TypeOK, HeldIsCached
  <2>5. objOf[g] = o \/ objOf[g] \in Rivals[o]
    BY <1>7, <2>1, <2>3, <2>4, SameOrRivals
  <2> QED BY <2>4, <2>5
<1>8. ASSUME NEW c \in Family(old[1]) \cap Classes
      PROVE  tmplAt[<<c, i>>] = None
  <2> SUFFICES ASSUME tmplAt[<<c, i>>] # None PROVE FALSE
    OBVIOUS
  <2> DEFINE g == implOf[tmplAt[<<c, i>>]]
  <2>1. /\ g \in Impls /\ objOf[g] \in Objects /\ implAt[objOf[g]] = g
        /\ objOf[g] = new \/ objOf[g] \in Rivals[new]
    BY <1>1, <1>7
  <2> QED BY <1>2, <1>4, <2>1, NoneAssumption DEF Remembered
<1>9. ASSUME NEW c \in Family(old[1]) \cap Classes, tmplAt[<<c, old[2]>>] # None
      PROVE  implOf[tmplAt[<<c, old[2]>>]] = h
  <2> DEFINE g == implOf[tmplAt[<<c, old[2]>>]]
  <2>1. /\ g \in Impls /\ objOf[g] \in Objects /\ implAt[objOf[g]] = g
        /\ objOf[g] = old \/ objOf[g] \in Rivals[old]
    BY <1>7, <1>9
  <2>2. objOf[g] \notin Rivals[old]
    BY <1>1, <1>2, <2>1, NoneAssumption DEF Remembered, Shape, Exclusive
  <2> QED BY <1>3, <2>1, <2>2
<1> QED BY <1>1, <1>2, <1>3, <1>4, <1>5, <1>6, <1>8, <1>9

\* The caches hold together when an object is renamed.
LEMMA RenameShape ==
  ASSUME Careful, Shape, NEW h \in Impls, NEW i \in Ids, rename_object(h, i)
  PROVE  HeldIsCached' /\ TemplateOnce'
<1> DEFINE old == objOf[h]
           new == <<old[1], i>>
<1>1. /\ old \in Objects /\ new \in Objects /\ new[2] = i /\ new[1] = old[1]
      /\ old[2] # i /\ old # new
      /\ implAt[old] = h /\ implAt[new] = None
      /\ \A c \in Family(old[1]) \cap Classes :
           /\ tmplAt[<<c, i>>] = None
           /\ tmplAt[<<c, old[2]>>] # None => implOf[tmplAt[<<c, old[2]>>]] = h
  BY RenameAt, ObjectPairs
<1>2. /\ objOf' = [objOf EXCEPT ![h] = new]
      /\ rename_impl_object(old, new) /\ RenameTemplates(old, new)
      /\ UNCHANGED implOf
  BY DEF rename_object
<1>3. implAt' = [implAt EXCEPT ![new] = h, ![old] = None]
  BY <1>1, <1>2, NoneAssumption DEF rename_impl_object
<1>4. ASSUME NEW k \in Objects
      PROVE  LET moved == tmplAt[<<k[1], old[2]>>] IN
             tmplAt'[k] = IF k[1] \notin Family(old[1]) \/ moved = None THEN tmplAt[k]
                          ELSE IF k[2] = i THEN moved
                          ELSE IF k[2] = old[2] THEN None ELSE tmplAt[k]
  BY <1>1, <1>2 DEF RenameTemplates
<1>5. /\ \A g \in Impls : objOf[g] # None /\ g # h => objOf[g] # old /\ objOf[g] # new
      /\ \A g \in Impls : g # h => objOf'[g] = objOf[g]
      /\ objOf'[h] = new
  BY <1>1, <1>2, NoneAssumption DEF Shape, HeldIsCached, TypeInv, TypeOK
<1>6. /\ \A g \in Impls : objOf'[g] # None => implAt'[objOf'[g]] = g
      /\ \A o \in Objects : implAt'[o] # None => objOf'[implAt'[o]] = o
  <2>1. /\ \A g \in Impls : g # h => implAt[objOf[g]] = g \/ objOf[g] = None
        /\ \A o \in Objects : implAt[o] # None => implAt[o] \in Impls /\ objOf[implAt[o]] = o
    BY DEF Shape, HeldIsCached, TypeInv, TypeOK
  <2>2. implAt'[new] = h /\ implAt'[old] = None
        /\ \A o \in Objects : o # old /\ o # new => implAt'[o] = implAt[o]
    BY <1>1, <1>3 DEF Shape, TypeInv, TypeOK
  <2>3. ASSUME NEW g \in Impls, objOf'[g] # None PROVE implAt'[objOf'[g]] = g
    <3>1. CASE g = h
      BY <1>5, <2>2, <3>1
    <3>2. CASE g # h
      <4>1. objOf'[g] = objOf[g] /\ objOf[g] \in Objects
        BY <1>5, <2>3, <3>2 DEF Shape, TypeInv, TypeOK
      <4> QED BY <1>5, <2>1, <2>2, <2>3, <3>2, <4>1
    <3> QED BY <3>1, <3>2
  <2>4. ASSUME NEW o \in Objects, implAt'[o] # None PROVE objOf'[implAt'[o]] = o
    <3>1. CASE o = new
      BY <1>5, <2>2, <3>1
    <3>2. CASE o # new
      <4>1. o # old /\ implAt'[o] = implAt[o]
        BY <2>2, <2>4, <3>2
      <4>2. implAt[o] # h
        BY <1>1, <2>1, <2>4, <4>1, NoneAssumption
      <4> QED BY <1>5, <2>1, <2>4, <4>1, <4>2
    <3> QED BY <3>1, <3>2
  <2> QED BY <2>3, <2>4
<1>7. ASSUME NEW t \in Tmpls, implOf'[t] # None
      PROVE  \E c \in Classes : tmplAt'[<<c, objOf'[implOf'[t]][2]>>] = t
  <2> DEFINE g == implOf[t]
  <2>1. g \in Impls /\ objOf[g] \in Objects
    BY <1>2, <1>7 DEF Shape, TypeInv, TypeOK
  <2>2. PICK c \in Classes : tmplAt[<<c, objOf[g][2]>>] = t
    BY <1>2, <1>7 DEF Shape, HeldIsCached
  <2> DEFINE k == <<c, objOf[g][2]>>
  <2>3. /\ k \in Objects /\ k[1] = c /\ k[2] = objOf[g][2]
        /\ <<c, i>> \in Objects /\ <<c, i>>[1] = c /\ <<c, i>>[2] = i
    BY <2>1, ObjectPairs
  <2>4. t # None /\ k[1] \in Family(objOf[g][1])
    BY <1>2, <1>7, <2>2, <2>3, NoneAssumption DEF Shape, HeldIsCached
  <2>5. CASE g = h
    <3>1. tmplAt'[<<c, i>>] = t
      BY <1>4, <2>2, <2>3, <2>4, <2>5
    <3> QED BY <1>1, <1>2, <1>5, <2>5, <3>1
  <2>6. CASE g # h
    <3>1. tmplAt'[k] = t
      <4>1. CASE c \notin Family(old[1]) \/ tmplAt[<<c, old[2]>>] = None
        BY <1>4, <2>2, <2>3, <4>1
      <4>2. CASE c \in Family(old[1]) /\ tmplAt[<<c, old[2]>>] # None
        <5>1. k[2] # i /\ k[2] # old[2]
          BY <1>1, <2>2, <2>3, <2>4, <2>6, <4>2
        <5> QED BY <1>4, <2>2, <2>3, <4>2, <5>1
      <4> QED BY <4>1, <4>2
    <3> QED BY <1>2, <1>5, <2>1, <2>6, <3>1
  <2> QED BY <2>5, <2>6
<1>8. ASSUME NEW k \in Objects, tmplAt'[k] # None
      PROVE  LET g == implOf'[tmplAt'[k]] IN
             g # None /\ objOf'[g][2] = k[2] /\ k[1] \in Family(objOf'[g][1])
  <2>1. k[1] \in Classes /\ k = <<k[1], k[2]>>
    BY ObjectPairs
  <2>2. CASE k[1] \in Family(old[1]) /\ tmplAt[<<k[1], old[2]>>] # None /\ k[2] = i
    <3>1. tmplAt'[k] = tmplAt[<<k[1], old[2]>>] /\ implOf[tmplAt'[k]] = h
      BY <1>1, <1>4, <2>1, <2>2
    <3> QED BY <1>1, <1>2, <1>5, <2>2, <3>1, NoneAssumption
  <2>3. CASE ~(k[1] \in Family(old[1]) /\ tmplAt[<<k[1], old[2]>>] # None /\ k[2] = i)
    <3> DEFINE g == implOf[tmplAt[k]]
    <3>1. /\ tmplAt'[k] = tmplAt[k]
          /\ k[1] \notin Family(old[1]) \/ k[2] # old[2]
      BY <1>4, <1>8, <2>1, <2>3
    <3>2. g # None /\ objOf[g][2] = k[2] /\ k[1] \in Family(objOf[g][1])
      BY <1>8, <3>1 DEF Shape, HeldIsCached
    <3>3. g \in Impls /\ g # h
      BY <1>8, <3>1, <3>2 DEF Shape, TypeInv, TypeOK
    <3> QED BY <1>2, <1>5, <3>1, <3>2, <3>3
  <2> QED BY <2>2, <2>3
<1>9. TemplateOnce'
  <2> DEFINE From(k) == IF k[1] \in Family(old[1]) /\ tmplAt[<<k[1], old[2]>>] # None
                           /\ k[2] = i
                        THEN <<k[1], old[2]>> ELSE k
  <2>1. ASSUME NEW k \in Objects, tmplAt'[k] # None
        PROVE  From(k) \in Objects /\ tmplAt'[k] = tmplAt[From(k)] /\ From(k)[1] = k[1]
               /\ (From(k) = k => k[2] # old[2] \/ k[1] \notin Family(old[1]))
    BY <1>1, <1>4, <2>1, ObjectPairs
  <2>2. ASSUME NEW j \in Objects, NEW k \in Objects,
               tmplAt'[j] # None, tmplAt'[j] = tmplAt'[k]
        PROVE  j = k
    <3>1. From(j) = From(k)
      BY <2>1, <2>2 DEF Shape, TemplateOnce
    <3>2. j[1] = k[1]
      BY <2>1, <2>2, <3>1
    <3>3. j = <<j[1], j[2]>> /\ k = <<k[1], k[2]>>
      BY ObjectPairs
    <3>4. CASE From(j) = j /\ From(k) = k
      BY <3>1, <3>4
    <3>5. CASE From(j) # j /\ From(k) # k
      BY <3>2, <3>3, <3>5
    <3>6. CASE From(j) = j /\ From(k) # k
      BY <2>1, <2>2, <3>1, <3>6, ObjectPairs, <1>1
    <3>7. CASE From(j) # j /\ From(k) = k
      BY <2>1, <2>2, <3>1, <3>7, ObjectPairs, <1>1
    <3> QED BY <3>4, <3>5, <3>6, <3>7
  <2> QED BY <2>2 DEF TemplateOnce
<1> QED BY <1>6, <1>7, <1>8, <1>9 DEF HeldIsCached

\* Ids stay exclusive when nothing is remembered that was not,
LEMMA ExclusiveKept ==
  ASSUME Exclusive, \A p \in Objects : Remembered(p)' => Remembered(p)
  PROVE  Exclusive'
<1>1. ASSUME NEW o \in Objects, Remembered(o)', NEW p \in Rivals[o], Remembered(p)'
      PROVE  FALSE
  <2>1. p \in Objects
    BY DEF Rivals
  <2> QED BY <1>1, <2>1 DEF Exclusive
<1> QED BY <1>1 DEF Exclusive

\* or only an object without remembered rivals.
LEMMA ExclusiveTaken ==
  ASSUME Exclusive, NEW o \in Objects, \A p \in Rivals[o] : ~Remembered(p),
         \A p \in Objects : Remembered(p)' => Remembered(p) \/ p = o
  PROVE  Exclusive'
<1>1. ASSUME NEW q \in Objects, Remembered(q)', NEW p \in Rivals[q], Remembered(p)'
      PROVE  FALSE
  <2>1. p \in Objects /\ q \in Rivals[p] /\ p # q
    BY RivalsMutual DEF Rivals
  <2> QED BY <1>1, <2>1 DEF Exclusive
<1> QED BY <1>1 DEF Exclusive

\* insert_object of an object that is in the database
LEMMA InsertKnown ==
  ASSUME Shape, NEW o \in Objects, NEW h \in Impls, InsertObject(o, h),
         db[o] # None, UNCHANGED <<db, pending>>
  PROVE  (\A p \in Rivals[o] : implAt[p] = None) /\ Exclusive'
<1>1. \A p \in Rivals[o] : ~Remembered(p)
  BY DEF Shape, Exclusive, Remembered
<1>2. implAt' = [implAt EXCEPT ![o] = h]
  BY <1>1, InsertAt DEF Remembered
<1>3. \A p \in Objects : Remembered(p)' => Remembered(p) \/ p = o
  BY <1>2 DEF Remembered, Noted, Shape, TypeInv, TypeOK
<1> QED BY <1>1, <1>3, ExclusiveTaken DEF Shape, Remembered

\* The caches hold together when an object is got or created,
LEMMA InsertKeepsShape ==
  ASSUME Shape, NEW o \in Objects, NEW h \in Impls, InsertObject(o, h),
         \A p \in Rivals[o] : implAt[p] = None, UNCHANGED tmplVars
  PROVE  HeldIsCached' /\ TemplateOnce'
<1>1. /\ \A g \in Impls : objOf'[g] # None => implAt'[objOf'[g]] = g
      /\ \A p \in Objects : implAt'[p] # None => objOf'[implAt'[p]] = p
      /\ \A g \in Impls : objOf[g] # None => objOf'[g] = objOf[g]
  BY InsertShape
<1>2. /\ \A t \in Tmpls : implOf[t] # None =>
           implOf[t] \in Impls /\ objOf'[implOf[t]] = objOf[implOf[t]]
      /\ \A k \in Objects : tmplAt[k] # None =>
           tmplAt[k] \in Tmpls /\ implOf[tmplAt[k]] # None
  BY <1>1 DEF Shape, TypeInv, TypeOK, HeldIsCached
<1>3. TemplatesHeld'
  BY <1>2 DEF TemplatesHeld, Shape, HeldIsCached, tmplVars
<1> QED BY <1>1, <1>3 DEF HeldIsCached, TemplatesHeld, TemplateOnce, Shape, tmplVars

\* initially,
LEMMA ShapeInit == Init => Shape
<1> SUFFICES ASSUME Init PROVE Shape
  OBVIOUS
<1>1. HeldIsCached /\ TemplateOnce
  BY NoneAssumption DEF Init, HeldIsCached, TemplateOnce
<1>2. Exclusive
  BY DEF Init, Consistent, Exclusive, Remembered, Noted, Rivals
<1> QED BY <1>1, <1>2, TypeInit DEF Shape

\* and at every step.
LEMMA ShapeStep ==
  ASSUME Careful, Shape, [Next]_vars
  PROVE  Shape'
<1> USE DEF Shape
<1>0. TypeInv'
  BY TypeStep
<1>1. ASSUME NEW o \in Objects, get_object(o)
      PROVE  HeldIsCached' /\ TemplateOnce' /\ Exclusive'
  <2>1. PICK h \in Impls : InsertObject(o, h)
    BY <1>1 DEF get_object
  <2>2. db[o] # None /\ UNCHANGED <<db, pending>> /\ UNCHANGED tmplVars
    BY <1>1 DEF get_object
  <2> QED BY <2>1, <2>2, InsertKnown, InsertKeepsShape
<1>2. ASSUME NEW o \in Objects, NEW v \in Values, create_object(o, v)
      PROVE  HeldIsCached' /\ TemplateOnce' /\ Exclusive'
  <2>1. PICK h \in Impls : InsertObject(o, h)
    BY <1>2 DEF create_object
  <2>2. /\ CanTake(o) /\ UNCHANGED pending /\ UNCHANGED tmplVars
        /\ db' = [db EXCEPT ![o] = v]
    BY <1>2 DEF create_object
  <2>3. \A p \in Rivals[o] : ~Remembered(p) /\ implAt[p] = None
    BY <2>2 DEF CanTake, Careful, Remembered
  <2>4. implAt' = [implAt EXCEPT ![o] = h]
    BY <2>1, <2>3, InsertAt
  <2>5. \A p \in Objects : Remembered(p)' => Remembered(p) \/ p = o
    BY <2>2, <2>4 DEF Remembered, Noted, TypeInv, TypeOK
  <2>6. Exclusive'
    BY <2>3, <2>5, ExclusiveTaken
  <2> QED BY <2>1, <2>2, <2>3, <2>6, InsertKeepsShape
<1>3. ASSUME NEW h \in Impls, Fetch(h)
      PROVE  HeldIsCached' /\ TemplateOnce' /\ Exclusive'
  BY <1>3 DEF Fetch, HeldIsCached, TemplateOnce, Exclusive, Remembered, Noted, tmplVars
<1>4. ASSUME NEW c \in Classes, NEW o \in Objects, NEW init \in BOOLEAN,
             get_by_id(c, o, init)
      PROVE  HeldIsCached' /\ TemplateOnce' /\ Exclusive'
  <2>1. PICK h \in Impls, t \in Tmpls : InsertObject(o, h) /\ CacheGet(c, h, t, init)
    BY <1>4 DEF get_by_id
  <2>2. c \in Family(o[1]) /\ db[o] # None /\ UNCHANGED <<db, pending>>
    BY <1>4 DEF get_by_id
  <2>3. (\A p \in Rivals[o] : implAt[p] = None) /\ Exclusive'
    BY <2>1, <2>2, InsertKnown
  <2>4. /\ \A g \in Impls : objOf'[g] # None => implAt'[objOf'[g]] = g
        /\ \A p \in Objects : implAt'[p] # None => objOf'[implAt'[p]] = p
        /\ \A g \in Impls : objOf[g] # None => objOf'[g] = objOf[g]
        /\ objOf'[h] = o
    BY <2>1, <2>3, InsertShape
  <2>5. TemplatesHeld' /\ TemplateOnce'
    BY <2>1, <2>2, <2>3, <2>4, CacheGetShape
  <2> QED BY <2>3, <2>4, <2>5 DEF HeldIsCached, TemplatesHeld
<1>5. ASSUME NEW c \in Classes, NEW h \in Impls, NEW init \in BOOLEAN,
             get_by_object(c, h, init)
      PROVE  HeldIsCached' /\ TemplateOnce' /\ Exclusive'
  <2>1. PICK t \in Tmpls : CacheGet(c, h, t, init)
    BY <1>5 DEF get_by_object
  <2>2. /\ objOf[h] \in Objects /\ c \in Family(objOf[h][1])
        /\ UNCHANGED <<db, pending, implAt, objOf>>
    BY <1>5 DEF get_by_object, TypeInv, TypeOK, implVars
  <2>3. Exclusive'
    BY <2>2 DEF Exclusive, Remembered, Noted
  <2>4. /\ \A g \in Impls : objOf'[g] # None => implAt'[objOf'[g]] = g
        /\ \A p \in Objects : implAt'[p] # None => objOf'[implAt'[p]] = p
    BY <2>2 DEF HeldIsCached
  <2>5. TemplatesHeld' /\ TemplateOnce'
    BY <2>1, <2>2, <2>3, <2>4, CacheGetShape
  <2> QED BY <2>3, <2>4, <2>5 DEF HeldIsCached, TemplatesHeld
<1>6. ASSUME UNCHANGED <<implAt, objOf, tmplAt, implOf>>
      PROVE  HeldIsCached' /\ TemplateOnce'
  BY <1>6 DEF HeldIsCached, TemplateOnce
<1>7. ASSUME NEW t \in Tmpls, read_attribute(t) \/ unread(t)
      PROVE  HeldIsCached' /\ TemplateOnce' /\ Exclusive'
  <2>1. UNCHANGED <<db, pending, implAt, objOf, tmplAt, implOf>>
    BY <1>7 DEF read_attribute, unread
  <2> QED BY <1>6, <2>1 DEF Exclusive, Remembered, Noted
<1>8. ASSUME NEW t \in Tmpls, NEW v \in Values, set(t, v)
      PROVE  HeldIsCached' /\ TemplateOnce' /\ Exclusive'
  <2>1. UNCHANGED <<pending, implAt, objOf, tmplAt, implOf>>
    BY <1>8 DEF set, tmplVars
  <2>2. \A p \in Objects : db'[p] # None => db[p] # None
    BY <1>8 DEF set, TypeInv, TypeOK
  <2>3. Exclusive'
    BY <2>1, <2>2, ExclusiveKept DEF Remembered, Noted
  <2> QED BY <1>6, <2>1, <2>3
<1>9. ASSUME NEW o \in Objects, NEW k \in Kinds, change_database(o, k)
      PROVE  HeldIsCached' /\ TemplateOnce' /\ Exclusive'
  <2>1. UNCHANGED <<implAt, objOf, tmplAt, implOf>> /\ pending' = pending \cup {<<o, k>>}
    BY <1>9 DEF change_database, implVars, tmplVars
  <2>2. \A p \in Objects : p # o => db'[p] = db[p]
    BY <1>9 DEF change_database, Kinds, TypeInv, TypeOK
  <2>3. \A p \in Objects : Remembered(p)' => Remembered(p) \/ p = o
    BY <2>1, <2>2 DEF Remembered, Noted
  <2>4. \A p \in Rivals[o] : ~Remembered(p)
    BY <1>9 DEF change_database, CanTake, Careful, Remembered, Exclusive, Kinds
  <2> QED BY <1>6, <2>1, <2>3, <2>4, ExclusiveTaken
<1>10. CASE system_cb
  <2>1. pending' = {} /\ UNCHANGED <<db, implAt, objOf, tmplAt, implOf>>
    BY <1>10 DEF system_cb, update_cache
  <2>2. Exclusive'
    BY <2>1, ExclusiveKept DEF Remembered, Noted
  <2> QED BY <1>0, <1>6, <2>1, <2>2
<1>11. ASSUME NEW S \in SUBSET Objects, destroy_obj(S)
       PROVE  HeldIsCached' /\ TemplateOnce' /\ Exclusive'
  <2>1. UNCHANGED <<pending, implAt, objOf, tmplAt, implOf>>
    BY <1>11 DEF destroy_obj, update_cache
  <2>2. \A p \in Objects : db'[p] # None => db[p] # None
    BY <1>11 DEF destroy_obj
  <2>3. Exclusive'
    BY <2>1, <2>2, ExclusiveKept DEF Remembered, Noted
  <2> QED BY <1>6, <2>1, <2>3
<1>12. ASSUME NEW h \in Impls, NEW i \in Ids, rename_object(h, i)
       PROVE  HeldIsCached' /\ TemplateOnce' /\ Exclusive'
  <2> DEFINE old == objOf[h]
             new == <<old[1], i>>
  <2>1. /\ old \in Objects /\ new \in Objects /\ \A p \in Rivals[new] : ~Remembered(p)
        /\ implAt[old] = h
    BY <1>12, RenameAt
  <2>2. /\ db' = [db EXCEPT ![old] = None, ![new] = db[old]]
        /\ rename_impl_object(old, new)
        /\ UNCHANGED pending
    BY <1>12 DEF rename_object
  <2>3. \A p \in Objects : p # new /\ p # old => db'[p] = db[p] /\ implAt'[p] = implAt[p]
    BY <2>1, <2>2 DEF rename_impl_object, TypeInv, TypeOK
  <2>4. \A p \in Objects : Remembered(p)' => Remembered(p) \/ p = new
    <3>1. Remembered(old)
      BY <1>12 DEF rename_object, Remembered
    <3> QED BY <2>2, <2>3, <3>1 DEF Remembered, Noted
  <2> QED BY <1>12, <2>1, <2>4, ExclusiveTaken, RenameShape
<1>13. CASE unread_implementation_objects \/ unread_template_objects
  <2>1. UNCHANGED <<db, pending, implAt, objOf, tmplAt, implOf>>
    BY <1>13 DEF unread_implementation_objects, unread_template_objects, implVars, tmplVars
  <2>2. Exclusive'
    BY <2>1 DEF Exclusive, Remembered, Noted
  <2> QED BY <1>0, <1>6, <2>1, <2>2
<1>14. CASE abort
  <2>1. UNCHANGED <<pending, implAt, objOf, tmplAt, implOf>>
    BY <1>14 DEF abort
  <2>2. ASSUME NEW o \in Objects, Remembered(o)', NEW p \in Rivals[o], Remembered(p)'
        PROVE  FALSE
    <3>1. p \in Objects /\ o \in Rivals[p]
      BY RivalsMutual DEF Rivals
    <3>2. db'[o] # None => db'[p] = None /\ implAt[p] = None /\ ~Noted(p)
      BY <1>14 DEF abort, Consistent, Careful
    <3>3. db'[p] # None => db'[o] = None /\ implAt[o] = None /\ ~Noted(o)
      BY <1>14, <3>1 DEF abort, Consistent, Careful
    <3>4. ~(implAt[o] # None \/ Noted(o)) \/ ~(implAt[p] # None \/ Noted(p))
      BY <3>1 DEF Exclusive, Remembered
    <3> QED BY <2>1, <2>2, <3>2, <3>3, <3>4 DEF Remembered, Noted
  <2> QED BY <1>0, <1>6, <2>1, <2>2 DEF Exclusive
<1>15. CASE UNCHANGED vars
  BY <1>0, <1>15 DEF vars, HeldIsCached, TemplateOnce, Exclusive, Remembered, Noted
<1> QED
  BY <1>0, <1>1, <1>2, <1>3, <1>4, <1>5, <1>7, <1>8, <1>9, <1>10, <1>11, <1>12,
     <1>13, <1>14, <1>15 DEF Next, UseImpl, UseTmpl

\* The caches reach every object a user holds under its own class and id, and so
\* update_cache does: for any classes and any number of objects.
THEOREM CachesHold ==
  ASSUME Careful
  PROVE  Spec => []HeldIsCached
<1>1. Init => Shape
  BY ShapeInit
<1>2. Shape /\ [Next]_vars => Shape'
  BY ShapeStep
<1>3. Shape => HeldIsCached
  BY DEF Shape
<1> QED BY <1>1, <1>2, <1>3, PTL DEF Spec

-----------------------------------------------------------------------------
(***************************************************************************)
(* HOW THE CACHES FOLLOW THE DATABASE                                      *)
(*                                                                         *)
(* StateFollows says what is known once the changes are reported; it is    *)
(* inductive with what a report has still to say.                          *)
(***************************************************************************)

\* What a report says last of an object that is there is not that it was removed.
RemovedNoted ==
  \A o \in Objects : <<o, "removed">> \in pending /\ db[o] # None => <<o, "created">> \in pending

\* The removal of an object that an implementation object takes for valid is to
\* be reported,
ValidKnown ==
  \A h \in Impls : objOf[h] # None /\ state[h] = "Valid" /\ db[objOf[h]] = None =>
    <<objOf[h], "removed">> \in pending

\* and so is a change of one it takes for deleted.
DeletedNoted ==
  \A h \in Impls : objOf[h] # None /\ state[h] = "Deleted" /\ db[objOf[h]] # None =>
    Noted(objOf[h])

Follows == RemovedNoted /\ ValidKnown /\ DeletedNoted /\ ObjectsFresh /\ TemplatesFresh

\* Implementation objects have objects of their own; a template has an
\* implementation object that is made.
LEMMA OneForEach ==
  ASSUME Shape
  PROVE  /\ \A g, h \in Impls : objOf[g] # None /\ objOf[g] = objOf[h] => g = h
         /\ \A h \in Impls : objOf[h] # None => objOf[h] \in Objects
         /\ \A t \in Tmpls : implOf[t] # None =>
              implOf[t] \in Impls /\ objOf[implOf[t]] \in Objects
BY DEF Shape, HeldIsCached, TypeInv, TypeOK

\* The changes update_cache finds for an implementation object are those of its
\* object, though it looks in the caches of all the relatives of their classes.
LEMMA KindsOfOwn ==
  ASSUME Shape, NEW changes \in SUBSET (Objects \X Kinds),
         \A o \in Objects, k \in Kinds : <<o, k>> \in changes => Remembered(o),
         NEW h \in Impls, objOf[h] # None
  PROVE  KindsOfImpl(changes, h) = {k \in Kinds : <<objOf[h], k>> \in changes}
<1> DEFINE p == objOf[h]
<1>1. p \in Objects /\ implAt[p] = h /\ Remembered(p)
  BY NoneAssumption DEF Shape, HeldIsCached, TypeInv, TypeOK, Remembered
<1>2. {q \in Objects : implAt[q] = h} = {p}
  BY <1>1, NoneAssumption DEF Shape, HeldIsCached
<1>3. p \in ReachedFrom[p]
  BY <1>1, ObjectPairs DEF ReachedFrom, Relatives, Family
<1>4. ASSUME NEW o \in ReachedFrom[p], Remembered(o)
      PROVE  o = p
  <2>1. o \in Objects /\ o[2] = p[2] /\ p[1] \in Relatives(o[1])
    BY <1>1 DEF ReachedFrom
  <2>2. p[1] \in Family(o[1]) \/ o[1] \in Family(p[1])
    BY <2>1 DEF Relatives
  <2>3. /\ o[1] \in Classes /\ p[1] \in Classes
        /\ o[1] \in Family(o[1]) /\ p[1] \in Family(p[1])
    BY <1>1, <2>1, ObjectPairs DEF Family
  <2>4. o = p \/ p \in Rivals[o]
    BY <1>1, <2>1, <2>2, <2>3, SameOrRivals
  <2> QED BY <1>1, <1>4, <2>1, <2>4 DEF Shape, Exclusive
<1>5. KindsAt(changes, p) = {k \in Kinds : <<p, k>> \in changes}
  <2>1. \A o \in ReachedFrom[p] : o \in Objects
    BY <1>1 DEF ReachedFrom
  <2> QED BY <1>3, <1>4, <2>1 DEF KindsAt
<1> QED BY <1>2, <1>5 DEF KindsOfImpl

\* The changes of its object reach every template.
LEMMA TemplateReached ==
  ASSUME Shape, NEW changes, NEW t \in Tmpls, implOf[t] # None, NEW n \in Kinds,
         <<objOf[implOf[t]], n>> \in changes
  PROVE  \E k \in Objects : tmplAt[k] = t /\ KindsAt(changes, k) # {}
<1> DEFINE p == objOf[implOf[t]]
<1>1. p \in Objects
  BY OneForEach
<1>2. PICK c \in Classes : tmplAt[<<c, p[2]>>] = t
  BY DEF Shape, HeldIsCached
<1> DEFINE k == <<c, p[2]>>
<1>3. k \in Objects /\ k[1] = c /\ k[2] = p[2]
  BY <1>1, ObjectPairs
<1>4. c \in Family(p[1])
  BY <1>2, <1>3, NoneAssumption DEF Shape, HeldIsCached
<1>5. p \in ReachedFrom[k]
  BY <1>1, <1>3, <1>4, ObjectPairs DEF ReachedFrom, Relatives
<1>6. n \in KindsAt(changes, k)
  BY <1>5 DEF KindsAt
<1> QED BY <1>2, <1>3, <1>6

\* What update_cache does to an implementation object and to a template, in the
\* words of the changes of their object.
LEMMA UpdateAt ==
  ASSUME Shape, NEW changes \in SUBSET (Objects \X Kinds),
         \A o \in Objects, k \in Kinds : <<o, k>> \in changes => Remembered(o),
         update_cache(changes)
  PROVE  /\ UNCHANGED <<implAt, objOf, tmplAt, implOf>>
         /\ \A h \in Impls : objOf[h] # None =>
              LET is(k) == <<objOf[h], k>> \in changes IN
              /\ state'[h] =
                   IF is("created") \/ (is("modified") /\ (is("removed") \/ state[h] # "Valid"))
                   THEN IF db'[objOf[h]] # None THEN "Valid" ELSE "Deleted"
                   ELSE IF is("removed") THEN "Deleted" ELSE state[h]
              /\ value'[h] = IF \E k \in Kinds : is(k) THEN None ELSE value[h]
         /\ \A t \in Tmpls : implOf[t] # None =>
              /\ tval'[t] \in {None, tval[t]}
              /\ (\E n \in Kinds : <<objOf[implOf[t]], n>> \in changes) => tval'[t] = None
<1>1. UNCHANGED <<implAt, objOf, tmplAt, implOf>>
  BY DEF update_cache
<1>2. ASSUME NEW h \in Impls, objOf[h] # None
      PROVE  LET is(k) == <<objOf[h], k>> \in changes IN
              /\ state'[h] =
                   IF is("created") \/ (is("modified") /\ (is("removed") \/ state[h] # "Valid"))
                   THEN IF db'[objOf[h]] # None THEN "Valid" ELSE "Deleted"
                   ELSE IF is("removed") THEN "Deleted" ELSE state[h]
              /\ value'[h] = IF \E k \in Kinds : is(k) THEN None ELSE value[h]
  <2> DEFINE kinds == {k \in Kinds : <<objOf[h], k>> \in changes}
  <2>1. KindsOfImpl(changes, h) = kinds
    BY <1>2, KindsOfOwn
  <2> HIDE DEF kinds
  <2>2. state'[h] =
             IF "created" \in kinds \/ ("modified" \in kinds
                  /\ ("removed" \in kinds \/ state[h] # "Valid"))
             THEN ResetState(h)'
             ELSE IF "removed" \in kinds THEN "Deleted" ELSE state[h]
    BY <2>1 DEF update_cache, UpdateImplObjects
  <2>3. value'[h] = IF kinds = {} THEN value[h] ELSE None
    BY <2>1 DEF update_cache, UpdateImplObjects
  <2>4. ResetState(h)' = IF db'[objOf[h]] # None THEN "Valid" ELSE "Deleted"
    BY <1>1 DEF ResetState
  <2> QED BY <2>2, <2>3, <2>4 DEF kinds, Kinds
<1>3. ASSUME NEW t \in Tmpls, implOf[t] # None
      PROVE  /\ tval'[t] \in {None, tval[t]}
             /\ (\E n \in Kinds : <<objOf[implOf[t]], n>> \in changes) => tval'[t] = None
  BY <1>3, TemplateReached DEF update_cache, UpdateTemplates
<1> QED BY <1>1, <1>2, <1>3

\* changes tell of o
Tells(changes, o) == \E k \in Kinds : <<o, k>> \in changes

\* The caches are empty initially, and there is nothing to report.
LEMMA FollowsInit == Init => Follows
BY NoneAssumption DEF Init, Follows, RemovedNoted, ValidKnown, DeletedNoted,
   ObjectsFresh, TemplatesFresh, Noted

\* insert_object of an object that is in the database after the step, whose
\* removal is not to be reported when it was not there before
LEMMA InsertFollows ==
  ASSUME Shape, Follows, NEW o \in Objects, NEW h \in Impls, InsertObject(o, h),
         \A p \in Rivals[o] : implAt[p] = None,
         db'[o] # None, db[o] # None => db'[o] = db[o],
         \A p \in Objects : p # o => db'[p] = db[p],
         db[o] # None \/ <<o, "removed">> \notin pending, UNCHANGED pending
  PROVE  /\ RemovedNoted' /\ ValidKnown' /\ DeletedNoted' /\ ObjectsFresh'
         /\ \A t \in Tmpls : implOf[t] # None /\ tval[t] # None /\ t \notin stale =>
              LET q == objOf'[implOf[t]] IN ~Tells(pending', q) => tval[t] = db'[q]
<1> USE DEF Follows
<1>1. /\ objOf' = [objOf EXCEPT ![h] = o]
      /\ state' = [state EXCEPT ![h] = "Valid"]
      /\ value' = [value EXCEPT ![h] = None]
      /\ \A g \in Impls : objOf[g] # None => objOf'[g] = objOf[g]
  BY InsertAt, InsertShape
<1>2. ASSUME NEW g \in Impls, g # h, objOf'[g] # None
      PROVE  /\ objOf[g] \in Objects /\ objOf[g] # o
             /\ objOf'[g] = objOf[g] /\ state'[g] = state[g] /\ value'[g] = value[g]
             /\ db'[objOf[g]] = db[objOf[g]]
  <2>1. objOf'[g] = objOf[g] /\ state'[g] = state[g] /\ value'[g] = value[g]
    BY <1>1, <1>2 DEF Shape, TypeInv, TypeOK
  <2>2. objOf[g] \in Objects
    BY <1>2, <2>1, OneForEach
  <2>3. objOf[g] # o
    BY <1>2, <2>1, InsertShape, NoneAssumption
  <2> QED BY <2>1, <2>2, <2>3
<1>3. objOf'[h] = o /\ state'[h] = "Valid" /\ value'[h] = None
  BY <1>1 DEF Shape, TypeInv, TypeOK
<1>4. RemovedNoted'
  BY DEF RemovedNoted
<1>5. ValidKnown' /\ DeletedNoted'
  BY <1>2, <1>3 DEF ValidKnown, DeletedNoted, Noted
<1>6. ObjectsFresh'
  BY <1>2, <1>3 DEF ObjectsFresh, Noted
<1>7. ASSUME NEW t \in Tmpls, implOf[t] # None, tval[t] # None, t \notin stale,
             ~Tells(pending', objOf'[implOf[t]])
      PROVE  tval[t] = db'[objOf'[implOf[t]]]
  <2> DEFINE q == objOf[implOf[t]]
  <2>1. q \in Objects /\ objOf'[implOf[t]] = q
    BY <1>1, <1>7, OneForEach, NoneAssumption
  <2>2. tval[t] = db[q]
    BY <1>7, <2>1 DEF TemplatesFresh, Noted, Tells
  <2> QED BY <1>7, <2>1, <2>2
<1> QED BY <1>4, <1>5, <1>6, <1>7

\* A template that Cache<T>::get reads gets what its object holds.
LEMMA CacheGetFollows ==
  ASSUME Shape, NEW c \in Classes, NEW h \in Impls, NEW t \in Tmpls,
         NEW init \in BOOLEAN, CacheGet(c, h, t, init),
         objOf'[h] \in Objects, c \in Family(objOf'[h][1]),
         \A g \in Impls : objOf[g] # None => objOf'[g] = objOf[g],
         \A g \in Impls : objOf'[g] # None => implAt'[objOf'[g]] = g,
         Exclusive', ObjectsFresh',
         \A u \in Tmpls : implOf[u] # None /\ tval[u] # None /\ u \notin stale =>
              LET q == objOf'[implOf[u]] IN ~Tells(pending', q) => tval[u] = db'[q]
  PROVE  TemplatesFresh'
<1>1. CASE implOf[t] = h /\ UNCHANGED tmplVars
  BY <1>1 DEF TemplatesFresh, Noted, Tells, tmplVars
<1>2. CASE /\ implOf' = [implOf EXCEPT ![t] = h]
           /\ tval' = [tval EXCEPT ![t] =
                   IF init /\ state'[h] = "Valid" THEN Answer(h)' ELSE None]
           /\ UNCHANGED stale
  <2>1. ASSUME NEW u \in Tmpls, implOf'[u] # None, tval'[u] # None, u \notin stale,
               ~Tells(pending', objOf'[implOf'[u]])
        PROVE  tval'[u] = db'[objOf'[implOf'[u]]]
    <3>1. CASE u = t
      <4>1. implOf'[t] = h /\ tval'[t] = Answer(h)'
        BY <1>2, <2>1, <3>1 DEF Shape, TypeInv, TypeOK
      <4>2. Answer(h)' = IF value'[h] # None THEN value'[h] ELSE db'[objOf'[h]]
        BY DEF Answer
      <4>3. value'[h] # None => value'[h] = db'[objOf'[h]]
        BY <2>1, <3>1, <4>1, NoneAssumption DEF ObjectsFresh, Noted, Tells
      <4> QED BY <3>1, <4>1, <4>2, <4>3
    <3>2. CASE u # t
      <4>1. implOf'[u] = implOf[u] /\ tval'[u] = tval[u]
        BY <1>2, <3>2 DEF Shape, TypeInv, TypeOK
      <4> QED BY <2>1, <4>1
    <3> QED BY <3>1, <3>2
  <2> QED BY <1>2, <2>1 DEF TemplatesFresh, Noted, Tells
<1>3. \/ /\ implOf' = [implOf EXCEPT ![t] = h]
         /\ tval' = [tval EXCEPT ![t] =
                IF init /\ state'[h] = "Valid" THEN Answer(h)' ELSE None]
         /\ UNCHANGED stale
      \/ implOf[t] = h /\ UNCHANGED tmplVars
  BY CacheGetAt
<1> QED BY <1>1, <1>2, <1>3

\* update_cache brings the caches up to date with the changes it is given, when
\* the others are not of what the database changes meanwhile.
LEMMA UpdateFollows ==
  ASSUME Shape, Follows, NEW changes \in SUBSET (Objects \X Kinds),
         \A o \in Objects, k \in Kinds : <<o, k>> \in changes => Remembered(o),
         update_cache(changes),
         \A o \in Objects : <<o, "removed">> \notin changes => db'[o] = db[o],
         \A o \in Objects : <<o, "removed">> \in changes /\ <<o, "created">> \notin changes =>
           db'[o] = None,
         \A o \in Objects : db[o] = None => db'[o] = None,
         \A o \in Objects, k \in Kinds : <<o, k>> \in pending =>
           <<o, k>> \in pending' \/ <<o, k>> \in changes,
         pending' \subseteq pending, RemovedNoted'
  PROVE  Follows'
<1> USE DEF Follows
<1>1. UNCHANGED <<implAt, objOf, tmplAt, implOf>>
  BY UpdateAt
<1>2. ASSUME NEW h \in Impls, objOf[h] # None
      PROVE  LET is(k) == <<objOf[h], k>> \in changes IN
              /\ objOf[h] \in Objects
              /\ state'[h] =
                   IF is("created") \/ (is("modified") /\ (is("removed") \/ state[h] # "Valid"))
                   THEN IF db'[objOf[h]] # None THEN "Valid" ELSE "Deleted"
                   ELSE IF is("removed") THEN "Deleted" ELSE state[h]
              /\ value'[h] = IF \E k \in Kinds : is(k) THEN None ELSE value[h]
  BY <1>2, UpdateAt, OneForEach
<1>3. ASSUME NEW h \in Impls, objOf[h] # None, state'[h] = "Valid", db'[objOf[h]] = None
      PROVE  <<objOf[h], "removed">> \in pending'
  <2> DEFINE p == objOf[h]
  <2>1. /\ <<p, "created">> \notin changes /\ <<p, "removed">> \notin changes
        /\ state[h] = "Valid" /\ p \in Objects
    BY <1>2, <1>3
  <2>2. CASE db[p] = None
    BY <1>3, <2>1, <2>2 DEF ValidKnown, Kinds
  <2>3. CASE db[p] # None
    BY <1>3, <2>1, <2>3 DEF Kinds
  <2> QED BY <2>2, <2>3
<1>4. ASSUME NEW h \in Impls, objOf[h] # None, state'[h] = "Deleted", db'[objOf[h]] # None
      PROVE  Tells(pending', objOf[h])
  <2> DEFINE p == objOf[h]
  <2>1. /\ <<p, "created">> \notin changes /\ <<p, "removed">> \notin changes
        /\ state[h] = "Deleted" /\ <<p, "modified">> \notin changes /\ p \in Objects
    BY <1>2, <1>4
  <2>2. db[p] # None
    BY <1>4, <2>1
  <2>3. Noted(p)
    BY <1>4, <2>1, <2>2 DEF DeletedNoted
  <2> QED BY <2>1, <2>3 DEF Noted, Tells, Kinds
<1>5. ASSUME NEW p \in Objects, ~Tells(pending', p), ~Tells(changes, p)
      PROVE  ~Noted(p) /\ db'[p] = db[p]
  BY <1>5 DEF Noted, Tells, Kinds
<1>6. ASSUME NEW h \in Impls, objOf[h] # None, ~Tells(pending', objOf[h]), value'[h] # None
      PROVE  value'[h] = db'[objOf[h]]
  <2>1. /\ objOf[h] \in Objects /\ value'[h] = value[h]
        /\ ~Tells(changes, objOf[h])
    BY <1>2, <1>6 DEF Tells
  <2>2. ~Noted(objOf[h]) /\ db'[objOf[h]] = db[objOf[h]]
    BY <1>5, <1>6, <2>1
  <2> QED BY <1>6, <2>1, <2>2 DEF ObjectsFresh
<1>7. ASSUME NEW t \in Tmpls, implOf[t] # None, tval'[t] # None, t \notin stale',
             ~Tells(pending', objOf[implOf[t]])
      PROVE  tval'[t] = db'[objOf[implOf[t]]]
  <2> DEFINE p == objOf[implOf[t]]
  <2>1. /\ p \in Objects /\ tval'[t] = tval[t]
        /\ ~Tells(changes, p)
    BY <1>7, UpdateAt, OneForEach DEF Tells
  <2>2. ~Noted(p) /\ db'[p] = db[p]
    BY <1>5, <1>7, <2>1
  <2>3. t \notin stale
    BY <1>7 DEF update_cache, Forgotten
  <2> QED BY <1>7, <2>1, <2>2, <2>3 DEF TemplatesFresh
<1>8. ValidKnown' /\ DeletedNoted'
  BY <1>1, <1>3, <1>4 DEF ValidKnown, DeletedNoted, Noted, Tells
<1>9. ObjectsFresh' /\ TemplatesFresh'
  BY <1>1, <1>6, <1>7 DEF ObjectsFresh, TemplatesFresh, Noted, Tells
<1> QED BY <1>8, <1>9

\* Every step keeps what the caches know of the database.
LEMMA FollowsStep ==
  ASSUME Careful, Shape, Follows, [Next]_vars
  PROVE  Follows'
<1> USE DEF Follows
<1>0. Shape'
  BY ShapeStep
<1>1. ASSUME NEW o \in Objects, get_object(o) PROVE Follows'
  <2>1. PICK h \in Impls : InsertObject(o, h)
    BY <1>1 DEF get_object
  <2>2. db[o] # None /\ UNCHANGED <<db, pending>> /\ UNCHANGED tmplVars
    BY <1>1 DEF get_object
  <2>3. \A p \in Rivals[o] : implAt[p] = None
    BY <2>1, <2>2, InsertKnown
  <2>4. /\ RemovedNoted' /\ ValidKnown' /\ DeletedNoted' /\ ObjectsFresh'
        /\ \A t \in Tmpls : implOf[t] # None /\ tval[t] # None /\ t \notin stale =>
             LET q == objOf'[implOf[t]] IN ~Tells(pending', q) => tval[t] = db'[q]
    BY <2>1, <2>2, <2>3, InsertFollows
  <2> QED BY <2>2, <2>4 DEF TemplatesFresh, Noted, Tells, tmplVars
<1>2. ASSUME NEW o \in Objects, NEW v \in Values, create_object(o, v) PROVE Follows'
  <2>1. PICK h \in Impls : InsertObject(o, h)
    BY <1>2 DEF create_object
  <2>2. /\ db[o] = None /\ <<o, "removed">> \notin pending
        /\ \A p \in Rivals[o] : implAt[p] = None
        /\ db' = [db EXCEPT ![o] = v] /\ UNCHANGED pending /\ UNCHANGED tmplVars
    BY <1>2 DEF create_object, CanTake, Careful
  <2>3. db'[o] # None /\ \A p \in Objects : p # o => db'[p] = db[p]
    BY <2>2, NoneAssumption DEF Shape, TypeInv, TypeOK
  <2>4. /\ RemovedNoted' /\ ValidKnown' /\ DeletedNoted' /\ ObjectsFresh'
        /\ \A t \in Tmpls : implOf[t] # None /\ tval[t] # None /\ t \notin stale =>
             LET q == objOf'[implOf[t]] IN ~Tells(pending', q) => tval[t] = db'[q]
    BY <2>1, <2>2, <2>3, InsertFollows
  <2> QED BY <2>2, <2>4 DEF TemplatesFresh, Noted, Tells, tmplVars
<1>3. ASSUME NEW h \in Impls, Fetch(h) PROVE Follows'
  <2>1. UNCHANGED <<db, pending, implAt, objOf, state, tmplAt, implOf, tval, stale>>
    BY <1>3 DEF Fetch, tmplVars
  <2>2. value' = [value EXCEPT ![h] = db[objOf[h]]]
    BY <1>3 DEF Fetch
  <2>3. RemovedNoted' /\ ValidKnown' /\ DeletedNoted' /\ TemplatesFresh'
    BY <2>1 DEF RemovedNoted, ValidKnown, DeletedNoted, TemplatesFresh, Noted
  <2>4. ObjectsFresh'
    BY <2>1, <2>2 DEF ObjectsFresh, Noted, Shape, TypeInv, TypeOK
  <2> QED BY <2>3, <2>4
<1>4. ASSUME NEW c \in Classes, NEW o \in Objects, NEW init \in BOOLEAN,
             get_by_id(c, o, init)
      PROVE  Follows'
  <2>1. PICK h \in Impls, t \in Tmpls : InsertObject(o, h) /\ CacheGet(c, h, t, init)
    BY <1>4 DEF get_by_id
  <2>2. c \in Family(o[1]) /\ db[o] # None /\ UNCHANGED <<db, pending>>
    BY <1>4 DEF get_by_id
  <2>3. (\A p \in Rivals[o] : implAt[p] = None) /\ Exclusive'
    BY <2>1, <2>2, InsertKnown
  <2>4. /\ \A g \in Impls : objOf'[g] # None => implAt'[objOf'[g]] = g
        /\ \A g \in Impls : objOf[g] # None => objOf'[g] = objOf[g]
        /\ objOf'[h] = o
    BY <2>1, <2>3, InsertShape
  <2>5. /\ RemovedNoted' /\ ValidKnown' /\ DeletedNoted' /\ ObjectsFresh'
        /\ \A u \in Tmpls : implOf[u] # None /\ tval[u] # None /\ u \notin stale =>
             LET q == objOf'[implOf[u]] IN ~Tells(pending', q) => tval[u] = db'[q]
    BY <2>1, <2>2, <2>3, InsertFollows
  <2>6. TemplatesFresh'
    BY <2>1, <2>2, <2>3, <2>4, <2>5, CacheGetFollows
  <2> QED BY <2>5, <2>6
<1>5. ASSUME NEW c \in Classes, NEW h \in Impls, NEW init \in BOOLEAN,
             get_by_object(c, h, init)
      PROVE  Follows'
  <2>1. PICK t \in Tmpls : CacheGet(c, h, t, init)
    BY <1>5 DEF get_by_object
  <2>2. /\ objOf[h] \in Objects /\ c \in Family(objOf[h][1])
        /\ UNCHANGED <<db, pending, implAt, objOf, state, value>>
    BY <1>5 DEF get_by_object, Shape, TypeInv, TypeOK, implVars
  <2>3. RemovedNoted' /\ ValidKnown' /\ DeletedNoted' /\ ObjectsFresh'
    BY <2>2 DEF RemovedNoted, ValidKnown, DeletedNoted, ObjectsFresh, Noted
  <2>4. \A g \in Impls : objOf'[g] # None => implAt'[objOf'[g]] = g
    BY <2>2 DEF Shape, HeldIsCached
  <2>5. \A u \in Tmpls : implOf[u] # None /\ tval[u] # None /\ u \notin stale =>
          LET q == objOf'[implOf[u]] IN ~Tells(pending', q) => tval[u] = db'[q]
    BY <1>5, <2>2 DEF TemplatesFresh, Noted, Tells
  <2>6. TemplatesFresh'
    BY <1>0, <2>1, <2>2, <2>3, <2>4, <2>5, CacheGetFollows DEF Shape
  <2> QED BY <2>3, <2>6
<1>6. ASSUME NEW t \in Tmpls, read_attribute(t) \/ unread(t) PROVE Follows'
  <2> DEFINE h == implOf[t]
             o == objOf[h]
  <2>1. /\ h # None
        /\ UNCHANGED <<db, pending, implAt, objOf, tmplAt, implOf>>
        /\ state' = [state EXCEPT ![h] = StateInUse(h)]
        /\ value' = [value EXCEPT ![h] = IF state[h] = "Unknown" THEN None ELSE @]
    BY <1>6 DEF read_attribute, unread
  <2>2. h \in Impls /\ o \in Objects
    BY <2>1, OneForEach
  <2>3. /\ StateInUse(h) = IF state[h] = "Unknown"
                           THEN IF db[o] # None THEN "Valid" ELSE "Deleted"
                           ELSE state[h]
        /\ \A g \in Impls : state'[g] = IF g = h THEN StateInUse(h) ELSE state[g]
        /\ \A g \in Impls : value'[g] \in {None, value[g]}
    BY <2>1, <2>2 DEF StateInUse, ResetState, Shape, TypeInv, TypeOK
  <2>4. RemovedNoted'
    BY <2>1 DEF RemovedNoted
  <2>5. ValidKnown' /\ DeletedNoted'
    BY <2>1, <2>2, <2>3 DEF ValidKnown, DeletedNoted, Noted
  <2>6. ObjectsFresh'
    BY <2>1, <2>3 DEF ObjectsFresh, Noted
  <2>7. Answer(h)' = IF value'[h] # None THEN value'[h] ELSE db[o]
    BY <2>1 DEF Answer
  <2>8. ~Noted(o) => Answer(h)' = db[o]
    BY <2>2, <2>3, <2>7, NoneAssumption DEF ObjectsFresh
  <2>9. \A u \in Tmpls : tval'[u] \in {None, tval[u]} \/ (u = t /\ tval'[u] = Answer(h)')
    BY <1>6 DEF read_attribute, unread, Shape, TypeInv, TypeOK
  <2>10. \A u \in Tmpls : u \in stale /\ tval'[u] # None => u \in stale'
    BY <1>6 DEF read_attribute, unread, Forgotten
  <2>11. TemplatesFresh'
    BY <2>1, <2>8, <2>9, <2>10 DEF TemplatesFresh, Noted
  <2> QED BY <2>4, <2>5, <2>6, <2>11
<1>7. ASSUME NEW t \in Tmpls, NEW v \in Values, set(t, v) PROVE Follows'
  <2> DEFINE h == implOf[t]
             o == objOf[h]
  <2>1. /\ h # None /\ db[o] # None
        /\ stale' = stale \cup ReadersOf(o)
        /\ db' = [db EXCEPT ![o] = v]
        /\ state' = [state EXCEPT ![h] = "Valid"]
        /\ value' = [value EXCEPT ![h] = None]
        /\ UNCHANGED <<pending, implAt, objOf, tmplAt, implOf, tval>>
    BY <1>7 DEF set
  <2>2. h \in Impls /\ o \in Objects
    BY <2>1, OneForEach
  <2>3. /\ db'[o] = v /\ v # None /\ \A p \in Objects : p # o => db'[p] = db[p]
        /\ state'[h] = "Valid" /\ value'[h] = None
        /\ \A g \in Impls : g # h => state'[g] = state[g] /\ value'[g] = value[g]
    BY <2>1, <2>2, NoneAssumption DEF Shape, TypeInv, TypeOK
  <2>4. \A g \in Impls : objOf[g] # None /\ g # h => objOf[g] \in Objects /\ objOf[g] # o
    BY <2>2, OneForEach
  <2>5. RemovedNoted'
    BY <2>1, <2>3 DEF RemovedNoted
  <2>6. ValidKnown' /\ DeletedNoted'
    BY <2>1, <2>2, <2>3, <2>4 DEF ValidKnown, DeletedNoted, Noted
  <2>7. ObjectsFresh'
    BY <2>1, <2>2, <2>3, <2>4 DEF ObjectsFresh, Noted
  <2>8. TemplatesFresh'
    BY <2>1, <2>3, OneForEach DEF TemplatesFresh, ReadersOf, Noted
  <2> QED BY <2>5, <2>6, <2>7, <2>8
<1>8. ASSUME NEW o \in Objects, NEW k \in Kinds, change_database(o, k) PROVE Follows'
  <2>1. /\ pending' = pending \cup {<<o, k>>}
        /\ UNCHANGED <<implAt, objOf, state, value, tmplAt, implOf, tval, stale>>
    BY <1>8 DEF change_database, implVars, tmplVars
  <2>2. /\ \A p \in Objects : p # o => db'[p] = db[p]
        /\ db'[o] # None => k = "created" \/ db[o] # None
        /\ db'[o] = None => k = "removed"
        /\ k = "removed" => db'[o] = None
    <3>1. CASE k = "created"
      BY <1>8, <3>1, NoneAssumption DEF change_database, Shape, TypeInv, TypeOK
    <3>2. CASE k = "removed"
      BY <1>8, <3>2 DEF change_database, Shape, TypeInv, TypeOK
    <3>3. CASE k = "modified"
      BY <1>8, <3>3, NoneAssumption DEF change_database, Shape, TypeInv, TypeOK
    <3> QED BY <3>1, <3>2, <3>3 DEF Kinds
  <2>3. RemovedNoted'
    BY <2>1, <2>2 DEF RemovedNoted
  <2>4. ValidKnown' /\ DeletedNoted'
    BY <2>1, <2>2, OneForEach DEF ValidKnown, DeletedNoted, Noted
  <2>5. ObjectsFresh'
    BY <2>1, <2>2, OneForEach DEF ObjectsFresh, Noted
  <2>6. TemplatesFresh'
    BY <2>1, <2>2, OneForEach DEF TemplatesFresh, Noted
  <2> QED BY <2>3, <2>4, <2>5, <2>6
<1>9. CASE system_cb
  <2>1. update_cache(pending) /\ pending' = {} /\ UNCHANGED db
    BY <1>9 DEF system_cb
  <2>2. pending \in SUBSET (Objects \X Kinds)
    BY DEF Shape, TypeInv, TypeOK
  <2>3. /\ \A o \in Objects, k \in Kinds : <<o, k>> \in pending => Remembered(o)
        /\ \A o \in Objects : <<o, "removed">> \in pending /\ <<o, "created">> \notin pending =>
             db'[o] = None
        /\ RemovedNoted'
    BY <2>1 DEF Remembered, Noted, RemovedNoted
  <2> QED BY <2>1, <2>2, <2>3, UpdateFollows
<1>10. ASSUME NEW S \in SUBSET Objects, destroy_obj(S) PROVE Follows'
  <2> DEFINE changes == S \X {"removed"}
  <2>1. /\ update_cache(changes) /\ UNCHANGED pending
        /\ \A o \in S : db[o] # None
        /\ \A o \in Objects : db'[o] = IF o \in S THEN None ELSE db[o]
    BY <1>10 DEF destroy_obj
  <2>2. /\ changes \in SUBSET (Objects \X Kinds)
        /\ \A o \in Objects, k \in Kinds : <<o, k>> \in changes <=> o \in S /\ k = "removed"
        /\ "removed" \in Kinds /\ "created" \in Kinds
    BY DEF Kinds
  <2> HIDE DEF changes
  <2>3. /\ \A o \in Objects, k \in Kinds : <<o, k>> \in changes => Remembered(o)
        /\ \A o \in Objects : <<o, "removed">> \notin changes => db'[o] = db[o]
        /\ \A o \in Objects : <<o, "removed">> \in changes /\ <<o, "created">> \notin changes =>
             db'[o] = None
        /\ \A o \in Objects : db[o] = None => db'[o] = None
    BY <2>1, <2>2 DEF Remembered
  <2>4. RemovedNoted'
    BY <2>1 DEF RemovedNoted
  <2> QED BY <2>1, <2>2, <2>3, <2>4, UpdateFollows
<1>11. ASSUME NEW h \in Impls, NEW i \in Ids, rename_object(h, i) PROVE Follows'
  <2> DEFINE old == objOf[h]
             new == <<old[1], i>>
  <2>1. /\ old \in Objects /\ new \in Objects /\ old # new
        /\ implAt[new] = None /\ ~Noted(old) /\ ~Noted(new)
        /\ \A g \in Impls : ~Tangled(g, old, new)
    BY <1>11, RenameAt, ObjectPairs
  <2>2. /\ db[old] # None /\ StateInUse(h) = "Valid"
        /\ db' = [db EXCEPT ![old] = None, ![new] = db[old]]
        /\ objOf' = [objOf EXCEPT ![h] = new]
        /\ state' = [g \in Impls |-> IF Tangled(g, old, new) THEN "Unknown"
                                    ELSE IF g = h THEN "Valid" ELSE state[g]]
        /\ value' = [value EXCEPT ![h] = IF state[h] = "Unknown" THEN None ELSE @]
        /\ UNCHANGED <<pending, implOf, tval, stale>>
    BY <1>11 DEF rename_object
  <2>3. /\ db'[new] = db[old] /\ db'[old] = None
        /\ \A p \in Objects : p # old /\ p # new => db'[p] = db[p]
        /\ objOf'[h] = new /\ state'[h] = "Valid" /\ value'[h] \in {None, value[h]}
    BY <2>1, <2>2 DEF Shape, TypeInv, TypeOK
  <2>4. ASSUME NEW g \in Impls, objOf[g] # None, g # h
        PROVE  /\ objOf[g] \in Objects /\ objOf[g] # old /\ objOf[g] # new
               /\ objOf'[g] = objOf[g] /\ db'[objOf[g]] = db[objOf[g]]
    <3>1. objOf[g] \in Objects /\ implAt[objOf[g]] = g /\ objOf[g] # old
      BY <2>1, <2>4, OneForEach DEF Shape, HeldIsCached
    <3>2. objOf[g] # new
      BY <2>1, <3>1, NoneAssumption
    <3> QED BY <2>2, <2>3, <2>4, <3>1, <3>2 DEF Shape, TypeInv, TypeOK
  <2>5. \A g \in Impls : g # h => /\ objOf'[g] = objOf[g] /\ state'[g] = state[g]
                                 /\ value'[g] = value[g]
    BY <2>1, <2>2 DEF Shape, TypeInv, TypeOK
  <2>6. RemovedNoted'
    BY <2>1, <2>2, <2>3 DEF RemovedNoted, Noted, Kinds
  <2>7. ValidKnown' /\ DeletedNoted'
    <3>1. ASSUME NEW g \in Impls, objOf'[g] # None, g # h
          PROVE  /\ objOf[g] # None /\ objOf'[g] = objOf[g] /\ state'[g] = state[g]
                 /\ db'[objOf[g]] = db[objOf[g]]
      BY <2>4, <2>5, <3>1
    <3>2. db'[objOf'[h]] # None /\ state'[h] = "Valid" /\ UNCHANGED pending
      BY <2>2, <2>3
    <3> QED BY <3>1, <3>2 DEF ValidKnown, DeletedNoted, Noted
  <2>8. ObjectsFresh'
    <3>1. value[h] # None => value[h] = db[old]
      BY <2>1, NoneAssumption DEF ObjectsFresh
    <3>2. ASSUME NEW g \in Impls, objOf'[g] # None, g # h
          PROVE  /\ objOf[g] # None /\ objOf'[g] = objOf[g] /\ value'[g] = value[g]
                 /\ db'[objOf[g]] = db[objOf[g]]
      BY <2>4, <2>5, <3>2
    <3>3. db'[objOf'[h]] = db[old] /\ value'[h] \in {None, value[h]} /\ UNCHANGED pending
      BY <2>2, <2>3
    <3> QED BY <3>1, <3>2, <3>3 DEF ObjectsFresh, Noted
  <2>9. TemplatesFresh'
    <3>1. ASSUME NEW t \in Tmpls, implOf[t] # None, tval[t] # None, t \notin stale,
                 ~Tells(pending, objOf'[implOf[t]])
          PROVE  tval[t] = db'[objOf'[implOf[t]]]
      <4>1. implOf[t] \in Impls /\ objOf[implOf[t]] # None
        BY <3>1 DEF Shape, TypeInv, TypeOK
      <4>2. CASE implOf[t] = h
        BY <2>1, <2>3, <3>1, <4>1, <4>2 DEF TemplatesFresh
      <4>3. CASE implOf[t] # h
        BY <2>4, <3>1, <4>1, <4>3 DEF TemplatesFresh, Noted, Tells
      <4> QED BY <4>2, <4>3
    <3>2. UNCHANGED <<pending, implOf, tval, stale>>
      BY <2>2
    <3> QED BY <3>1, <3>2 DEF TemplatesFresh, Noted, Tells
  <2> QED BY <2>6, <2>7, <2>8, <2>9
<1>12. ASSUME UnreadImpls, UNCHANGED <<pending, objOf>>
       PROVE  /\ \A h \in Impls : objOf'[h] # None => state'[h] = "Unknown"
              /\ \A h \in Impls : value'[h] = None
  BY <1>12 DEF UnreadImpls
<1>13. ASSUME UnreadTemplates
       PROVE  \A t \in Tmpls : /\ tval'[t] \in {None, tval[t]}
                               /\ implOf[t] # None => tval'[t] = None
  <2>1. \A t \in Tmpls : implOf[t] # None => \E k \in Objects : tmplAt[k] = t
    BY OneForEach, ObjectPairs DEF Shape, HeldIsCached
  <2> QED BY <1>13, <2>1 DEF UnreadTemplates
<1>14. CASE unread_implementation_objects
  <2>1. UnreadImpls /\ UNCHANGED <<db, pending, implAt, objOf, tmplAt, implOf, tval, stale>>
    BY <1>14 DEF unread_implementation_objects, tmplVars
  <2>2. RemovedNoted' /\ TemplatesFresh'
    BY <2>1 DEF RemovedNoted, TemplatesFresh, Noted
  <2>3. ValidKnown' /\ DeletedNoted' /\ ObjectsFresh'
    BY <1>12, <2>1 DEF ValidKnown, DeletedNoted, ObjectsFresh
  <2> QED BY <2>2, <2>3
<1>15. CASE unread_template_objects
  <2>1. UnreadTemplates /\ UNCHANGED <<db, pending, implAt, objOf, state, value, tmplAt, implOf>>
    BY <1>15 DEF unread_template_objects, implVars
  <2>2. RemovedNoted' /\ ValidKnown' /\ DeletedNoted' /\ ObjectsFresh'
    BY <2>1 DEF RemovedNoted, ValidKnown, DeletedNoted, ObjectsFresh, Noted
  <2>3. TemplatesFresh'
    BY <1>13, <2>1 DEF TemplatesFresh
  <2> QED BY <2>2, <2>3
<1>16. CASE abort
  <2>1. /\ UnreadImpls /\ UnreadTemplates
        /\ UNCHANGED <<pending, implAt, objOf, tmplAt, implOf>>
        /\ \A o \in Objects : <<o, "removed">> \in pending => db'[o] = db[o]
    BY <1>16 DEF abort
  <2>2. RemovedNoted'
    BY <2>1 DEF RemovedNoted
  <2>3. ValidKnown' /\ DeletedNoted' /\ ObjectsFresh'
    BY <1>12, <2>1 DEF ValidKnown, DeletedNoted, ObjectsFresh
  <2>4. TemplatesFresh'
    BY <1>13, <2>1 DEF TemplatesFresh
  <2> QED BY <2>2, <2>3, <2>4
<1>17. CASE UNCHANGED vars
  BY <1>17 DEF vars, RemovedNoted, ValidKnown, DeletedNoted, ObjectsFresh, TemplatesFresh, Noted
<1> QED
  BY <1>1, <1>2, <1>3, <1>4, <1>5, <1>6, <1>7, <1>8, <1>9, <1>10, <1>11,
     <1>14, <1>15, <1>16, <1>17 DEF Next, UseImpl, UseTmpl

CacheInv == Shape /\ Follows

\* The inductive invariant holds always,
LEMMA CacheInvariant ==
  ASSUME Careful
  PROVE  Spec => []CacheInv
<1>1. Init => CacheInv
  BY ShapeInit, FollowsInit DEF CacheInv
<1>2. CacheInv /\ [Next]_vars => CacheInv'
  BY ShapeStep, FollowsStep DEF CacheInv
<1> QED BY <1>1, <1>2, PTL DEF Spec

\* and it has what a report leaves: a state that is that of the object.
LEMMA KnownFollows == CacheInv => StateFollows
BY DEF CacheInv, Follows, ValidKnown, DeletedNoted, StateFollows, Noted, Kinds

\* When the changes of an object are reported, its implementation object is valid
\* only if it exists, and deleted only if it does not: update_impl_objects gets
\* it right whatever changes of an object are reported together.
THEOREM StatesFollow ==
  ASSUME Careful
  PROVE  Spec => []StateFollows
<1> QED BY CacheInvariant, KnownFollows, PTL

\* Once the changes of an object are reported, its implementation object answers
\* with what the database holds.
THEOREM ObjectsAlwaysFresh ==
  ASSUME Careful
  PROVE  Spec => []ObjectsFresh
<1>1. CacheInv => ObjectsFresh
  BY DEF CacheInv, Follows
<1> QED BY <1>1, CacheInvariant, PTL

\* Once the changes of an object are reported, no template of it, of whatever
\* superclass, has an older value, or the value of an object destroyed earlier, unless
\* it had read the object before this session set it.
THEOREM TemplatesAlwaysFresh ==
  ASSUME Careful
  PROVE  Spec => []TemplatesFresh
<1>1. CacheInv => TemplatesFresh
  BY DEF CacheInv, Follows
<1> QED BY <1>1, CacheInvariant, PTL

\* An object destroyed by destroy_obj or the closing of its file is deleted for
\* every template of it, of whatever class and however often it was renamed: a
\* method invoked on it throws.
THEOREM DestroyedAlwaysThrow ==
  ASSUME Careful
  PROVE  Spec => DestroyedThrows
<1> DEFINE Throws == \A t \in Tmpls, S \in SUBSET Objects :
                       implOf[t] # None /\ objOf[implOf[t]] \in S /\ destroy_obj(S) =>
                         StateInUse(implOf[t])' = "Deleted"
<1>1. CacheInv => Throws
  <2> SUFFICES ASSUME CacheInv, NEW S \in SUBSET Objects, destroy_obj(S),
                      NEW t \in Tmpls, implOf[t] # None, objOf[implOf[t]] \in S
               PROVE  StateInUse(implOf[t])' = "Deleted"
    OBVIOUS
  <2> DEFINE changes == S \X {"removed"}
             h == implOf[t]
             o == objOf[h]
  <2>1. update_cache(changes) /\ \A p \in S : db[p] # None
    BY DEF destroy_obj
  <2>2. /\ changes \in SUBSET (Objects \X Kinds)
        /\ \A p \in Objects, k \in Kinds : <<p, k>> \in changes => p \in S /\ k = "removed"
        /\ <<o, "removed">> \in changes
        /\ <<o, "created">> \notin changes /\ <<o, "modified">> \notin changes
    BY DEF Kinds
  <2> HIDE DEF changes
  <2>3. \A p \in Objects, k \in Kinds : <<p, k>> \in changes => Remembered(p)
    BY <2>1, <2>2 DEF Remembered
  <2>4. Shape /\ h \in Impls /\ o # None
    BY OneForEach, NoneAssumption DEF CacheInv
  <2>5. state'[h] = "Deleted" /\ implOf'[t] = h
    BY <2>1, <2>2, <2>3, <2>4, UpdateAt
  <2> QED BY <2>5 DEF StateInUse
<1>2. CacheInv /\ [Next]_vars => [Throws]_vars
  BY <1>1
<1> HIDE DEF Throws
<1>3. Spec => [][Throws]_vars
  BY <1>2, CacheInvariant, PTL DEF Spec
<1> QED BY <1>3 DEF DestroyedThrows, Throws
=============================================================================
