------------------------- MODULE ObjectViewsProofs -------------------------
(***************************************************************************)
(* The caches keep the promise of ObjectViews, for any classes, ids,       *)
(* values and any number of objects, when the users take the precautions   *)
(* Careless is about.                                                      *)
(*                                                                         *)
(* The invariants of ObjectCacheProofs say what the caches know of an      *)
(* object whose changes are reported.  Between reports more is needed:     *)
(* whatever is in the caches was true of the object since the last report. *)
(***************************************************************************)
EXTENDS ObjectCacheViews, ObjectCacheProofs

\* What a template has read of an object that is gone will be forgotten with the
\* report of its removal: this session leaves nothing read of what it destroys.
ReadKnown ==
  \A t \in Tmpls : implOf[t] # None /\ tval[t] # None /\ db[objOf[implOf[t]]] = None =>
    <<objOf[implOf[t]], "removed">> \in pending

\* what is in the caches was so since the last report, or was read before a set
Sourced ==
  /\ \A o \in Objects : db[o] \in since[o]
  /\ \A h \in Impls : objOf[h] # None =>
       /\ value[h] # None => value[h] \in since[objOf[h]]
       /\ state[h] = "Deleted" => None \in since[objOf[h]]
  /\ \A t \in Tmpls : implOf[t] # None /\ tval[t] # None /\ t \notin stale =>
       tval[t] \in since[objOf[implOf[t]]]

ViewsInv == CacheInv /\ ReadKnown /\ Sourced

-----------------------------------------------------------------------------
(***************************************************************************)
(* WHERE THE CACHES HAVE IT FROM                                           *)
(***************************************************************************)

\* Where a step has the state and value of an implementation object from, when
\* not all changes of its object are reported: from the database, or it had them.
ImplSource(h) ==
  LET o == objOf'[h] IN
  /\ value'[h] # None => \/ value'[h] = db'[o]
                         \/ objOf[h] = o /\ value[h] = value'[h]
  /\ state'[h] = "Deleted" => \/ db'[o] = None
                              \/ objOf[h] = o /\ state[h] = "Deleted"

\* ... and the value of a template: a valid implementation object answers it.
TmplSource(t) ==
  LET h == implOf'[t] IN
  \/ state'[h] = "Valid" /\ tval'[t] \in {db'[objOf'[h]], value'[h]}
  \/ implOf[t] = h /\ objOf[h] = objOf'[h] /\ tval[t] = tval'[t]

Sources ==
  /\ \A h \in Impls : objOf'[h] # None /\ Tells(pending', objOf'[h]) => ImplSource(h)
  /\ \A t \in Tmpls :
       implOf'[t] # None /\ tval'[t] # None /\ Tells(pending', objOf'[implOf'[t]]) => TmplSource(t)

\* What insert_object has an implementation object know: it is valid, and nothing
\* is read of it; or it knows what it did.
LEMMA InsertSources ==
  ASSUME Shape, NEW o \in Objects, NEW h \in Impls, InsertObject(o, h),
         \A p \in Rivals[o] : implAt[p] = None
  PROVE  /\ objOf'[h] = o /\ state'[h] = "Valid" /\ value'[h] = None
         /\ \A g \in Impls : g # h =>
              objOf'[g] = objOf[g] /\ state'[g] = state[g] /\ value'[g] = value[g]
         /\ \A g \in Impls : objOf[g] # None => objOf'[g] = objOf[g]
         /\ \A g \in Impls : ImplSource(g)
<1>1. /\ objOf' = [objOf EXCEPT ![h] = o]
      /\ state' = [state EXCEPT ![h] = "Valid"]
      /\ value' = [value EXCEPT ![h] = None]
      /\ objOf[h] = None \/ objOf[h] = o
  BY InsertAt
<1>2. /\ objOf'[h] = o /\ state'[h] = "Valid" /\ value'[h] = None
      /\ \A g \in Impls : g # h =>
           objOf'[g] = objOf[g] /\ state'[g] = state[g] /\ value'[g] = value[g]
  BY <1>1 DEF Shape, TypeInv, TypeOK
<1> QED BY <1>1, <1>2 DEF ImplSource

\* What Cache<T>::get has a template know: what it did, or what the implementation
\* object it is made for answers.
LEMMA CacheGetSources ==
  ASSUME Shape, NEW c \in Classes, NEW h \in Impls, NEW t \in Tmpls,
         NEW init \in BOOLEAN, CacheGet(c, h, t, init),
         objOf'[h] \in Objects, c \in Family(objOf'[h][1]),
         \A g \in Impls : objOf[g] # None => objOf'[g] = objOf[g],
         \A g \in Impls : objOf'[g] # None => implAt'[objOf'[g]] = g,
         Exclusive'
  PROVE  /\ \A u \in Tmpls : implOf[u] # None => implOf'[u] = implOf[u] /\ tval'[u] = tval[u]
         /\ stale' = stale
         /\ \A u \in Tmpls : implOf'[u] # None /\ tval'[u] # None =>
              \/ implOf'[u] = implOf[u] /\ tval'[u] = tval[u]
              \/ implOf'[u] = h /\ state'[h] = "Valid" /\ tval'[u] = Answer(h)'
         /\ \A u \in Tmpls : implOf'[u] # None /\ tval'[u] # None => TmplSource(u)
<1>1. /\ \A u \in Tmpls : implOf[u] # None => implOf'[u] = implOf[u] /\ tval'[u] = tval[u]
      /\ stale' = stale
      /\ \A u \in Tmpls : implOf'[u] # None /\ tval'[u] # None =>
           \/ implOf'[u] = implOf[u] /\ tval'[u] = tval[u]
           \/ implOf'[u] = h /\ state'[h] = "Valid" /\ tval'[u] = Answer(h)'
  <2>1. CASE implOf[t] = h /\ UNCHANGED tmplVars
    BY <2>1 DEF tmplVars
  <2>2. CASE /\ implOf[t] = None
             /\ implOf' = [implOf EXCEPT ![t] = h]
             /\ tval' = [tval EXCEPT ![t] =
                    IF init /\ state'[h] = "Valid" THEN Answer(h)' ELSE None]
             /\ UNCHANGED stale
    BY <2>2 DEF Shape, TypeInv, TypeOK
  <2>3. \/ /\ implOf[t] = None
           /\ implOf' = [implOf EXCEPT ![t] = h]
           /\ tval' = [tval EXCEPT ![t] =
                  IF init /\ state'[h] = "Valid" THEN Answer(h)' ELSE None]
           /\ UNCHANGED stale
        \/ implOf[t] = h /\ UNCHANGED tmplVars
    BY CacheGetAt
  <2> QED BY <2>1, <2>2, <2>3
<1>2. Answer(h)' = IF value'[h] # None THEN value'[h] ELSE db'[objOf'[h]]
  BY DEF Answer
<1>3. \A u \in Tmpls : implOf[u] # None => objOf'[implOf[u]] = objOf[implOf[u]]
  BY DEF Shape, TypeInv, TypeOK
<1> QED BY <1>1, <1>2, <1>3 DEF TmplSource

\* Every step has what it leaves in the caches from the database.
LEMMA SourcesStep ==
  ASSUME Careful, CacheInv, Shape', Next
  PROVE  Sources
<1> USE DEF CacheInv
<1>1. ASSUME UNCHANGED <<objOf, state, value>>
      PROVE  \A h \in Impls : ImplSource(h)
  BY <1>1 DEF ImplSource
<1>2. ASSUME UNCHANGED <<objOf, implOf, tval>>
      PROVE  \A t \in Tmpls : TmplSource(t)
  BY <1>2 DEF TmplSource
<1>3. ASSUME NEW o \in Objects, NEW h \in Impls, InsertObject(o, h), UNCHANGED tmplVars,
             \A p \in Rivals[o] : implAt[p] = None
      PROVE  Sources
  <2>1. \A g \in Impls : ImplSource(g) /\ (objOf[g] # None => objOf'[g] = objOf[g])
    BY <1>3, InsertSources
  <2>2. \A t \in Tmpls : implOf'[t] # None => TmplSource(t)
    BY <1>3, <2>1 DEF TmplSource, tmplVars, Shape, TypeInv, TypeOK
  <2> QED BY <2>1, <2>2 DEF Sources
<1>4. ASSUME NEW o \in Objects, get_object(o) PROVE Sources
  <2>1. PICK h \in Impls : InsertObject(o, h)
    BY <1>4 DEF get_object
  <2>2. db[o] # None /\ UNCHANGED <<db, pending>> /\ UNCHANGED tmplVars
    BY <1>4 DEF get_object
  <2> QED BY <1>3, <2>1, <2>2, InsertKnown
<1>5. ASSUME NEW o \in Objects, NEW v \in Values, create_object(o, v) PROVE Sources
  <2>1. PICK h \in Impls : InsertObject(o, h)
    BY <1>5 DEF create_object
  <2>2. CanTake(o) /\ UNCHANGED tmplVars
    BY <1>5 DEF create_object
  <2>3. \A p \in Rivals[o] : implAt[p] = None
    BY <2>2 DEF CanTake, Careful
  <2> QED BY <1>3, <2>1, <2>2, <2>3
<1>6. ASSUME NEW h \in Impls, Fetch(h) PROVE Sources
  <2>1. UNCHANGED <<db, objOf, state, implOf, tval>>
    BY <1>6 DEF Fetch, tmplVars
  <2>2. /\ value'[h] = db[objOf[h]]
        /\ \A g \in Impls : g # h => value'[g] = value[g]
    BY <1>6 DEF Fetch, Shape, TypeInv, TypeOK
  <2>3. \A g \in Impls : ImplSource(g)
    BY <2>1, <2>2 DEF ImplSource
  <2> QED BY <1>2, <2>1, <2>3 DEF Sources
<1>7. ASSUME NEW c \in Classes, NEW o \in Objects, NEW init \in BOOLEAN,
             get_by_id(c, o, init)
      PROVE  Sources
  <2>1. PICK h \in Impls, t \in Tmpls : InsertObject(o, h) /\ CacheGet(c, h, t, init)
    BY <1>7 DEF get_by_id
  <2>2. c \in Family(o[1]) /\ db[o] # None /\ UNCHANGED <<db, pending>>
    BY <1>7 DEF get_by_id
  <2>3. (\A p \in Rivals[o] : implAt[p] = None) /\ Exclusive'
    BY <2>1, <2>2, InsertKnown
  <2>4. /\ \A g \in Impls : objOf'[g] # None => implAt'[objOf'[g]] = g
        /\ \A g \in Impls : objOf[g] # None => objOf'[g] = objOf[g]
        /\ objOf'[h] = o
    BY <2>1, <2>3, InsertShape
  <2>5. \A g \in Impls : ImplSource(g)
    BY <2>1, <2>3, InsertSources
  <2>6. \A u \in Tmpls : implOf'[u] # None /\ tval'[u] # None => TmplSource(u)
    BY <2>1, <2>2, <2>3, <2>4, CacheGetSources
  <2> QED BY <2>5, <2>6 DEF Sources
<1>8. ASSUME NEW c \in Classes, NEW h \in Impls, NEW init \in BOOLEAN,
             get_by_object(c, h, init)
      PROVE  Sources
  <2>1. PICK t \in Tmpls : CacheGet(c, h, t, init)
    BY <1>8 DEF get_by_object
  <2>2. /\ objOf[h] \in Objects /\ c \in Family(objOf[h][1])
        /\ UNCHANGED <<implAt, objOf, state, value>>
    BY <1>8 DEF get_by_object, Shape, TypeInv, TypeOK, implVars
  <2>3. (\A g \in Impls : objOf'[g] # None => implAt'[objOf'[g]] = g) /\ Exclusive'
    BY DEF Shape, HeldIsCached
  <2>4. \A u \in Tmpls : implOf'[u] # None /\ tval'[u] # None => TmplSource(u)
    BY <2>1, <2>2, <2>3, CacheGetSources
  <2> QED BY <1>1, <2>2, <2>4 DEF Sources
<1>9. ASSUME NEW t \in Tmpls, read_attribute(t) \/ unread(t) PROVE Sources
  <2> DEFINE h == implOf[t]
  <2>1. /\ h # None
        /\ UNCHANGED <<db, objOf, implOf>>
        /\ state' = [state EXCEPT ![h] = StateInUse(h)]
        /\ value' = [value EXCEPT ![h] = IF state[h] = "Unknown" THEN None ELSE @]
        /\ \A u \in Tmpls : \/ tval'[u] \in {None, tval[u]}
                            \/ u = t /\ StateInUse(h) = "Valid" /\ tval'[u] = Answer(h)'
    BY <1>9 DEF read_attribute, unread, Shape, TypeInv, TypeOK
  <2>2. h \in Impls
    BY <2>1, OneForEach
  <2>3. /\ state'[h] = StateInUse(h)
        /\ \A g \in Impls : value'[g] \in {None, value[g]}
        /\ \A g \in Impls : state'[g] = state[g]
                            \/ (state'[g] = "Deleted" => db[objOf[g]] = None)
    BY <2>1, <2>2 DEF StateInUse, ResetState, Shape, TypeInv, TypeOK
  <2>4. \A g \in Impls : ImplSource(g)
    BY <2>1, <2>3 DEF ImplSource
  <2>5. \A u \in Tmpls : implOf'[u] # None /\ tval'[u] # None => TmplSource(u)
    BY <2>1, <2>3 DEF TmplSource, Answer
  <2> QED BY <2>4, <2>5 DEF Sources
<1>10. ASSUME NEW t \in Tmpls, NEW v \in Values, set(t, v) PROVE Sources
  <2>1. /\ implOf[t] # None
        /\ UNCHANGED <<objOf, implOf, tval>>
        /\ state' = [state EXCEPT ![implOf[t]] = "Valid"]
        /\ value' = [value EXCEPT ![implOf[t]] = None]
    BY <1>10 DEF set
  <2>2. \A g \in Impls : ImplSource(g)
    BY <2>1, OneForEach DEF ImplSource, Shape, TypeInv, TypeOK
  <2> QED BY <1>2, <2>1, <2>2 DEF Sources
<1>11. ASSUME NEW o \in Objects, NEW k \in Kinds, change_database(o, k) PROVE Sources
  BY <1>1, <1>2, <1>11 DEF change_database, implVars, tmplVars, Sources
<1>12. CASE system_cb
  BY <1>12 DEF system_cb, Sources, Tells
<1>13. ASSUME NEW S \in SUBSET Objects, destroy_obj(S) PROVE Sources
  <2> DEFINE changes == S \X {"removed"}
  <2>1. /\ update_cache(changes)
        /\ \A o \in S : db[o] # None
        /\ \A o \in Objects : db'[o] = IF o \in S THEN None ELSE db[o]
    BY <1>13 DEF destroy_obj
  <2>2. /\ changes \in SUBSET (Objects \X Kinds)
        /\ \A o \in Objects, k \in Kinds : <<o, k>> \in changes <=> o \in S /\ k = "removed"
        /\ \A o \in Objects : <<o, "created">> \notin changes /\ <<o, "modified">> \notin changes
        /\ \A o \in Objects : <<o, "removed">> \in changes <=> o \in S
    BY DEF Kinds
  <2> HIDE DEF changes
  <2>3. \A o \in Objects, k \in Kinds : <<o, k>> \in changes => Remembered(o)
    BY <2>1, <2>2 DEF Remembered
  <2>4. /\ UNCHANGED <<objOf, implOf>>
        /\ \A h \in Impls : objOf[h] # None =>
             /\ state'[h] = IF objOf[h] \in S THEN "Deleted" ELSE state[h]
             /\ value'[h] \in {None, value[h]}
        /\ \A t \in Tmpls : implOf[t] # None => tval'[t] \in {None, tval[t]}
    BY <2>1, <2>2, <2>3, UpdateAt, OneForEach
  <2>5. \A h \in Impls : objOf'[h] # None => ImplSource(h)
    BY <2>1, <2>4, OneForEach DEF ImplSource
  <2>6. \A t \in Tmpls : implOf'[t] # None /\ tval'[t] # None => TmplSource(t)
    BY <2>4 DEF TmplSource
  <2> QED BY <2>5, <2>6 DEF Sources
<1>14. ASSUME NEW h \in Impls, NEW i \in Ids, rename_object(h, i) PROVE Sources
  <2> DEFINE old == objOf[h]
             new == <<old[1], i>>
  <2>1. /\ old \in Objects /\ new \in Objects /\ ~Noted(new)
        /\ \A g \in Impls : ~Tangled(g, old, new)
    BY <1>14, RenameAt
  <2>2. /\ objOf' = [objOf EXCEPT ![h] = new]
        /\ \A g \in Impls : state'[g] = IF g = h THEN "Valid" ELSE state[g]
        /\ value' = [value EXCEPT ![h] = IF state[h] = "Unknown" THEN None ELSE @]
        /\ UNCHANGED <<pending, implOf, tval>>
    BY <1>14, <2>1 DEF rename_object
  <2>3. objOf'[h] = new /\ ~Tells(pending', new)
    BY <2>1, <2>2 DEF Noted, Tells, Shape, TypeInv, TypeOK
  <2>4. \A g \in Impls : g # h => objOf'[g] = objOf[g] /\ state'[g] = state[g]
                                  /\ value'[g] = value[g]
    BY <2>2 DEF Shape, TypeInv, TypeOK
  <2>5. \A g \in Impls : g # h => ImplSource(g)
    BY <2>4 DEF ImplSource
  <2>6. \A t \in Tmpls : implOf'[t] # None /\ implOf'[t] # h => TmplSource(t)
    BY <2>2, <2>4, OneForEach DEF TmplSource
  <2> QED BY <2>3, <2>5, <2>6 DEF Sources
<1>15. CASE unread_implementation_objects
  <2>1. UnreadImpls /\ UNCHANGED <<objOf, implOf, tval>>
    BY <1>15 DEF unread_implementation_objects, tmplVars
  <2>2. \A h \in Impls : objOf'[h] # None => ImplSource(h)
    BY <2>1 DEF UnreadImpls, ImplSource
  <2> QED BY <1>2, <2>1, <2>2 DEF Sources
<1>16. CASE unread_template_objects
  <2>1. UnreadTemplates /\ UNCHANGED <<objOf, state, value, implOf>>
    BY <1>16 DEF unread_template_objects, implVars
  <2>2. \A t \in Tmpls : implOf'[t] # None /\ tval'[t] # None => TmplSource(t)
    BY <2>1 DEF UnreadTemplates, TmplSource
  <2> QED BY <1>1, <2>1, <2>2 DEF Sources
<1>17. CASE abort
  <2>1. UnreadImpls /\ UnreadTemplates /\ UNCHANGED <<objOf, implOf>>
    BY <1>17 DEF abort
  <2>2. \A h \in Impls : objOf'[h] # None => ImplSource(h)
    BY <2>1 DEF UnreadImpls, ImplSource
  <2>3. \A t \in Tmpls : implOf'[t] # None /\ tval'[t] # None => TmplSource(t)
    BY <2>1 DEF UnreadTemplates, TmplSource
  <2> QED BY <2>2, <2>3 DEF Sources
<1> QED
  BY <1>4, <1>5, <1>6, <1>7, <1>8, <1>9, <1>10, <1>11, <1>12, <1>13, <1>14,
     <1>15, <1>16, <1>17 DEF Next, UseImpl, UseTmpl

\* A template that is made is in the cache.
LEMMA TemplateCached ==
  ASSUME Shape
  PROVE  \A t \in Tmpls : implOf[t] # None => \E k \in Objects : tmplAt[k] = t
BY OneForEach, ObjectPairs DEF Shape, HeldIsCached

\* A template is stale from a set to the time it forgets what it had read, and
\* until then it has what it had.
LEMMA StaleStep ==
  ASSUME Careful, CacheInv, Shape', Next
  PROVE  /\ \A t \in stale : tval'[t] # None => t \in stale'
         /\ \A t \in stale' : /\ t \in Tmpls /\ implOf[t] # None
                              /\ implOf'[t] = implOf[t] /\ tval'[t] = tval[t]
         /\ stale' \subseteq stale \/ \E t \in Tmpls, v \in Values : set(t, v)
<1> USE DEF CacheInv
<1> DEFINE Goal == /\ \A t \in stale : tval'[t] # None => t \in stale'
                   /\ \A t \in stale' : /\ t \in Tmpls /\ implOf[t] # None
                                        /\ implOf'[t] = implOf[t] /\ tval'[t] = tval[t]
                   /\ stale' \subseteq stale \/ \E t \in Tmpls, v \in Values : set(t, v)
<1> SUFFICES Goal
  OBVIOUS
<1>1. \A t \in stale : t \in Tmpls /\ implOf[t] # None /\ tval[t] # None
  BY DEF Shape, TypeInv, TypeOK
<1>2. CASE UNCHANGED <<implOf, tval, stale>>
  BY <1>1, <1>2
<1>3. CASE UNCHANGED implOf /\ Forgotten /\ \A t \in Tmpls : tval'[t] \in {None, tval[t]}
  BY <1>1, <1>3 DEF Forgotten
<1>4. CASE stale' = stale
           /\ \A t \in Tmpls : implOf[t] # None => implOf'[t] = implOf[t] /\ tval'[t] = tval[t]
  BY <1>1, <1>4
<1>5. ASSUME NEW c \in Classes, NEW o \in Objects, NEW init \in BOOLEAN,
             get_by_id(c, o, init)
      PROVE  Goal
  <2>1. PICK h \in Impls, t \in Tmpls : InsertObject(o, h) /\ CacheGet(c, h, t, init)
    BY <1>5 DEF get_by_id
  <2>2. c \in Family(o[1]) /\ db[o] # None /\ UNCHANGED <<db, pending>>
    BY <1>5 DEF get_by_id
  <2>3. (\A p \in Rivals[o] : implAt[p] = None) /\ Exclusive'
    BY <2>1, <2>2, InsertKnown
  <2>4. /\ \A g \in Impls : objOf'[g] # None => implAt'[objOf'[g]] = g
        /\ \A g \in Impls : objOf[g] # None => objOf'[g] = objOf[g]
        /\ objOf'[h] = o
    BY <2>1, <2>3, InsertShape
  <2>5. /\ \A u \in Tmpls : implOf[u] # None => implOf'[u] = implOf[u] /\ tval'[u] = tval[u]
        /\ stale' = stale
    BY <2>1, <2>2, <2>3, <2>4, CacheGetSources
  <2> QED BY <1>4, <2>5
<1>6. ASSUME NEW c \in Classes, NEW h \in Impls, NEW init \in BOOLEAN,
             get_by_object(c, h, init)
      PROVE  Goal
  <2>1. PICK t \in Tmpls : CacheGet(c, h, t, init)
    BY <1>6 DEF get_by_object
  <2>2. /\ objOf[h] \in Objects /\ c \in Family(objOf[h][1])
        /\ UNCHANGED <<implAt, objOf, state, value>>
    BY <1>6 DEF get_by_object, Shape, TypeInv, TypeOK, implVars
  <2>3. (\A g \in Impls : objOf'[g] # None => implAt'[objOf'[g]] = g) /\ Exclusive'
    BY DEF Shape, HeldIsCached
  <2>4. /\ \A u \in Tmpls : implOf[u] # None => implOf'[u] = implOf[u] /\ tval'[u] = tval[u]
        /\ stale' = stale
    BY <2>1, <2>2, <2>3, CacheGetSources
  <2> QED BY <1>4, <2>4
<1>7. ASSUME NEW t \in Tmpls, read_attribute(t) PROVE Goal
  <2>1. UNCHANGED <<implOf, stale>>
    BY <1>7 DEF read_attribute
  <2>2. \A u \in Tmpls : tval[u] # None => tval'[u] = tval[u]
    BY <1>7 DEF read_attribute, Shape, TypeInv, TypeOK
  <2> QED BY <1>1, <2>1, <2>2
<1>8. ASSUME NEW t \in Tmpls, unread(t) PROVE Goal
  <2>1. UNCHANGED implOf /\ Forgotten
    BY <1>8 DEF unread
  <2>2. \A u \in Tmpls : tval'[u] \in {None, tval[u]}
    BY <1>8 DEF unread, Shape, TypeInv, TypeOK
  <2> QED BY <1>3, <2>1, <2>2
<1>9. ASSUME NEW t \in Tmpls, NEW v \in Values, set(t, v) PROVE Goal
  <2>1. UNCHANGED <<implOf, tval>> /\ stale' = stale \cup ReadersOf(objOf[implOf[t]])
    BY <1>9 DEF set
  <2> QED BY <1>1, <1>9, <2>1 DEF ReadersOf
<1>10. ASSUME NEW changes, update_cache(changes) PROVE Goal
  <2>1. UNCHANGED implOf /\ Forgotten /\ \A t \in Tmpls : tval'[t] \in {None, tval[t]}
    BY <1>10 DEF update_cache, UpdateTemplates
  <2> QED BY <1>3, <2>1
<1>11. CASE UnreadTemplates /\ UNCHANGED implOf
  <2>1. Forgotten /\ \A t \in Tmpls : tval'[t] \in {None, tval[t]}
    BY <1>11 DEF UnreadTemplates
  <2> QED BY <1>3, <1>11, <2>1
<1>12. CASE \/ \E S \in SUBSET Objects : destroy_obj(S)
            \/ system_cb
  BY <1>10, <1>12 DEF destroy_obj, system_cb
<1>13. CASE unread_template_objects \/ abort
  BY <1>11, <1>13 DEF unread_template_objects, abort
<1>14. CASE \/ UseImpl
            \/ \E h \in Impls : Fetch(h)
            \/ \E o \in Objects, k \in Kinds : change_database(o, k)
            \/ \E h \in Impls, i \in Ids : rename_object(h, i)
            \/ unread_implementation_objects
  BY <1>2, <1>14 DEF UseImpl, get_object, create_object, Fetch, change_database,
     rename_object, unread_implementation_objects, tmplVars
<1> HIDE DEF Goal
<1> QED
  BY <1>5, <1>6, <1>7, <1>8, <1>9, <1>12, <1>13, <1>14 DEF Next, UseTmpl

\* When an object is gone that was read, and what was read of it is still there,
\* the report of its removal is to come.
LEMMA GoneStep ==
  ASSUME Careful, CacheInv, ReadKnown, Shape', Next, NEW t \in Tmpls,
         implOf[t] # None, implOf'[t] = implOf[t], tval'[t] = tval[t], tval[t] # None,
         db'[objOf'[implOf[t]]] = None
  PROVE  <<objOf'[implOf[t]], "removed">> \in pending'
<1> USE DEF CacheInv
<1> DEFINE h == implOf[t]
           o == objOf'[h]
           Goal == <<o, "removed">> \in pending'
<1> SUFFICES Goal
  OBVIOUS
<1>0. h \in Impls /\ objOf[h] \in Objects /\ o \in Objects
  BY OneForEach DEF Shape, TypeInv, TypeOK
<1>1. ASSUME o = objOf[h], db'[o] = db[o], pending \subseteq pending' PROVE Goal
  BY <1>1 DEF ReadKnown
<1>2. ASSUME NEW p \in Objects, NEW g \in Impls, InsertObject(p, g), UNCHANGED pending,
             \A q \in Rivals[p] : implAt[q] = None, db'[o] = db[o]
      PROVE Goal
  <2>1. objOf'[h] = objOf[h]
    BY <1>0, <1>2, InsertSources, NoneAssumption
  <2> QED BY <1>1, <1>2, <2>1
<1>3. ASSUME NEW p \in Objects, get_object(p) PROVE Goal
  <2>1. PICK g \in Impls : InsertObject(p, g)
    BY <1>3 DEF get_object
  <2>2. db[p] # None /\ UNCHANGED <<db, pending>>
    BY <1>3 DEF get_object
  <2> QED BY <1>2, <2>1, <2>2, InsertKnown
<1>4. ASSUME NEW p \in Objects, NEW v \in Values, create_object(p, v) PROVE Goal
  <2>1. PICK g \in Impls : InsertObject(p, g)
    BY <1>4 DEF create_object
  <2>2. /\ CanTake(p) /\ UNCHANGED pending
        /\ db' = [db EXCEPT ![p] = v]
    BY <1>4 DEF create_object
  <2>3. db'[o] = db[o]
    BY <1>0, <2>2, NoneAssumption DEF Shape, TypeInv, TypeOK
  <2> QED BY <1>2, <2>1, <2>2, <2>3 DEF CanTake, Careful
<1>5. ASSUME NEW c \in Classes, NEW p \in Objects, NEW init \in BOOLEAN,
             get_by_id(c, p, init)
      PROVE  Goal
  <2>1. PICK g \in Impls : InsertObject(p, g)
    BY <1>5 DEF get_by_id
  <2>2. db[p] # None /\ UNCHANGED <<db, pending>>
    BY <1>5 DEF get_by_id
  <2> QED BY <1>2, <2>1, <2>2, InsertKnown
<1>6. ASSUME NEW u \in Tmpls, NEW v \in Values, set(u, v) PROVE Goal
  <2>1. UNCHANGED <<pending, objOf>> /\ db' = [db EXCEPT ![objOf[implOf[u]]] = v]
    BY <1>6 DEF set
  <2>2. db'[o] = db[o]
    BY <1>0, <2>1, NoneAssumption DEF Shape, TypeInv, TypeOK
  <2> QED BY <1>1, <2>1, <2>2
<1>7. ASSUME NEW p \in Objects, NEW k \in Kinds, change_database(p, k) PROVE Goal
  <2>1. pending' = pending \cup {<<p, k>>} /\ UNCHANGED objOf
    BY <1>7 DEF change_database, implVars
  <2>2. CASE k = "removed"
    <3>1. o # p => db'[o] = db[o]
      BY <1>0, <1>7, <2>2 DEF change_database, Shape, TypeInv, TypeOK
    <3> QED BY <1>1, <2>1, <2>2, <3>1
  <2>3. CASE k \in {"created", "modified"}
    <3>1. PICK v \in Values : db' = [db EXCEPT ![p] = v]
      BY <1>7, <2>3 DEF change_database
    <3>2. db'[o] = db[o]
      BY <1>0, <3>1, NoneAssumption DEF Shape, TypeInv, TypeOK
    <3> QED BY <1>1, <2>1, <3>2
  <2> QED BY <2>2, <2>3 DEF Kinds
<1>8. CASE system_cb
  <2>1. update_cache(pending) /\ UNCHANGED <<db, objOf>>
    BY <1>8 DEF system_cb, update_cache
  <2>2. <<objOf[h], "removed">> \in pending
    BY <2>1 DEF ReadKnown
  <2>3. /\ pending \in SUBSET (Objects \X Kinds) /\ "removed" \in Kinds
        /\ \A p \in Objects, k \in Kinds : <<p, k>> \in pending => Remembered(p)
    BY DEF Shape, TypeInv, TypeOK, Remembered, Noted, Kinds
  <2>4. tval'[t] = None
    BY <2>1, <2>2, <2>3, UpdateAt
  <2> QED BY <2>4
<1>9. ASSUME NEW S \in SUBSET Objects, destroy_obj(S) PROVE Goal
  <2> DEFINE changes == S \X {"removed"}
  <2>1. /\ update_cache(changes) /\ UNCHANGED pending
        /\ \A p \in S : db[p] # None
        /\ \A p \in Objects : db'[p] = IF p \in S THEN None ELSE db[p]
    BY <1>9 DEF destroy_obj
  <2>2. /\ changes \in SUBSET (Objects \X Kinds)
        /\ \A p \in Objects, k \in Kinds : <<p, k>> \in changes => p \in S
        /\ \A p \in S : <<p, "removed">> \in changes
        /\ "removed" \in Kinds
    BY DEF Kinds
  <2> HIDE DEF changes
  <2>3. \A p \in Objects, k \in Kinds : <<p, k>> \in changes => Remembered(p)
    BY <2>1, <2>2 DEF Remembered
  <2>4. objOf' = objOf /\ (objOf[h] \in S => tval'[t] = None)
    BY <2>1, <2>2, <2>3, UpdateAt
  <2> QED BY <1>0, <1>1, <2>1, <2>4
<1>10. ASSUME NEW g \in Impls, NEW i \in Ids, rename_object(g, i) PROVE Goal
  <2> DEFINE old == objOf[g]
             new == <<old[1], i>>
  <2>1. old \in Objects /\ new \in Objects /\ old # new
    BY <1>10, RenameAt, ObjectPairs
  <2>2. /\ db' = [db EXCEPT ![old] = None, ![new] = db[old]]
        /\ objOf' = [objOf EXCEPT ![g] = new]
        /\ UNCHANGED pending
        /\ db[old] # None
    BY <1>10 DEF rename_object
  <2>3. db'[new] # None /\ \A p \in Objects : p # old /\ p # new => db'[p] = db[p]
    BY <2>1, <2>2 DEF Shape, TypeInv, TypeOK
  <2>4. h # g
    BY <1>0, <2>2, <2>3 DEF Shape, TypeInv, TypeOK
  <2>5. objOf'[h] = objOf[h]
    BY <1>0, <2>2, <2>4 DEF Shape, TypeInv, TypeOK
  <2>6. objOf[h] # old
    BY <1>0, <2>4, OneForEach, NoneAssumption
  <2> QED BY <1>0, <1>1, <2>2, <2>3, <2>5, <2>6
<1>11. CASE abort
  <2>1. UnreadTemplates /\ \E k \in Objects : tmplAt[k] = t
    BY <1>11, TemplateCached DEF abort
  <2>2. tval'[t] = None
    BY <2>1 DEF UnreadTemplates
  <2> QED BY <2>2
<1>12. CASE UNCHANGED <<db, pending, objOf>>
  BY <1>1, <1>12
<1>13. Next => \/ \E p \in Objects : get_object(p) \/ \E v \in Values : create_object(p, v)
               \/ \E c \in Classes, p \in Objects, init \in BOOLEAN : get_by_id(c, p, init)
               \/ \E u \in Tmpls, v \in Values : set(u, v)
               \/ \E p \in Objects, k \in Kinds : change_database(p, k)
               \/ system_cb
               \/ \E S \in SUBSET Objects : destroy_obj(S)
               \/ \E g \in Impls, i \in Ids : rename_object(g, i)
               \/ abort
               \/ UNCHANGED <<db, pending, objOf>>
  BY DEF Next, UseImpl, UseTmpl, Fetch, get_by_object, read_attribute, unread,
     unread_implementation_objects, unread_template_objects, implVars
<1> HIDE DEF Goal
<1> QED
  BY <1>3, <1>4, <1>5, <1>6, <1>7, <1>8, <1>9, <1>10, <1>11, <1>12, <1>13

\* What is read of an object that is gone stays known,
LEMMA ReadKnownStep ==
  ASSUME Careful, CacheInv, ReadKnown, CacheInv', Next
  PROVE  ReadKnown'
<1> SUFFICES ASSUME NEW t \in Tmpls, implOf'[t] # None, tval'[t] # None,
                    db'[objOf'[implOf'[t]]] = None
             PROVE  <<objOf'[implOf'[t]], "removed">> \in pending'
  BY DEF ReadKnown
<1> DEFINE h == implOf'[t]
           o == objOf'[h]
<1>1. /\ h \in Impls /\ o \in Objects /\ o # None
      /\ Shape' /\ ValidKnown' /\ TemplatesFresh'
  BY NoneAssumption DEF CacheInv, Follows, Shape, TypeInv, TypeOK
<1>2. CASE implOf[t] = h /\ tval[t] = tval'[t]
  BY <1>1, <1>2, GoneStep
<1>3. CASE t \in stale'
  BY <1>1, <1>2, <1>3, StaleStep
<1>4. CASE t \notin stale'
  <2>1. Tells(pending', o)
    BY <1>1, <1>4 DEF TemplatesFresh, Noted, Tells
  <2>2. TmplSource(t)
    BY <1>1, <2>1, SourcesStep DEF Sources
  <2>3. CASE state'[h] = "Valid"
    BY <1>1, <2>3 DEF ValidKnown
  <2> QED BY <1>2, <2>2, <2>3 DEF TmplSource
<1> QED BY <1>3, <1>4

\* how the values since the last report are collected
Collects ==
  since' = [o \in Objects |-> IF Noted(o)' THEN since[o] \cup {db'[o]} ELSE {db'[o]}]

\* and what is in the caches stays sourced: what a report tells of is as it is,
\* and of the rest nothing was forgotten.
LEMMA SourcedStep ==
  ASSUME Careful, CacheInv, CacheInv', Sourced, Next, Collects
  PROVE  Sourced'
<1>1. /\ Shape /\ Shape' /\ ValidKnown' /\ DeletedNoted' /\ ObjectsFresh' /\ TemplatesFresh'
  BY DEF CacheInv, Follows
<1>2. Sources
  BY <1>1, SourcesStep
<1>3. \A o \in Objects : /\ Tells(pending', o) => since'[o] = since[o] \cup {db'[o]}
                         /\ ~Tells(pending', o) => since'[o] = {db'[o]}
  BY DEF Collects, Noted, Tells
<1>4. \A o \in Objects : db'[o] \in since'[o]
  BY <1>3
<1>5. ASSUME NEW h \in Impls, objOf'[h] # None
      PROVE  /\ value'[h] # None => value'[h] \in since'[objOf'[h]]
             /\ state'[h] = "Deleted" => None \in since'[objOf'[h]]
  <2> DEFINE o == objOf'[h]
  <2>1. o \in Objects
    BY <1>1, <1>5 DEF Shape, TypeInv, TypeOK
  <2>2. CASE ~Tells(pending', o)
    <3>1. value'[h] # None => value'[h] = db'[o]
      BY <1>1, <1>5, <2>2 DEF ObjectsFresh, Noted, Tells
    <3>2. state'[h] = "Deleted" => db'[o] = None
      BY <1>1, <1>5, <2>2 DEF DeletedNoted, Noted, Tells
    <3> QED BY <1>3, <2>1, <2>2, <3>1, <3>2
  <2>3. CASE Tells(pending', o)
    <3>1. ImplSource(h)
      BY <1>2, <1>5, <2>3 DEF Sources
    <3> QED BY <1>3, <1>5, <2>1, <2>3, <3>1 DEF ImplSource, Sourced
  <2> QED BY <2>2, <2>3
<1>6. ASSUME NEW t \in Tmpls, implOf'[t] # None, tval'[t] # None, t \notin stale'
      PROVE  tval'[t] \in since'[objOf'[implOf'[t]]]
  <2> DEFINE h == implOf'[t]
             o == objOf'[h]
  <2>1. h \in Impls /\ o \in Objects /\ o # None
    BY <1>1, <1>6, NoneAssumption DEF Shape, TypeInv, TypeOK
  <2>2. CASE ~Tells(pending', o)
    <3>1. tval'[t] = db'[o]
      BY <1>1, <1>6, <2>2 DEF TemplatesFresh, Noted, Tells
    <3> QED BY <1>3, <2>1, <2>2, <3>1
  <2>3. CASE Tells(pending', o)
    <3>1. TmplSource(t)
      BY <1>2, <1>6, <2>3 DEF Sources
    <3>2. CASE tval'[t] \in {db'[o], value'[h]}
      BY <1>4, <1>5, <1>6, <2>1, <3>2
    <3>3. CASE implOf[t] = h /\ objOf[h] = o /\ tval[t] = tval'[t]
      <4>1. t \notin stale
        BY <1>1, <1>6, StaleStep
      <4> QED BY <1>3, <1>6, <2>1, <2>3, <3>3, <4>1 DEF Sourced
    <3> QED BY <3>1, <3>2, <3>3 DEF TmplSource
  <2> QED BY <2>2, <2>3
<1> QED BY <1>4, <1>5, <1>6 DEF Sourced

-----------------------------------------------------------------------------
(***************************************************************************)
(* WHAT THE VIEWS SHOW                                                     *)
(***************************************************************************)

\* what a stale template had read
Before(t) == IF t \in stale THEN tval[t] ELSE None

\* No view shows what its object was not since the last report, but for what a stale
\* template had read.
LEMMA ViewsHonest ==
  ASSUME Shape', Sourced'
  PROVE  \A x \in Views :
           IF ObjectOf(x)' = None THEN Shown(x)' = None
           ELSE \/ Shown(x)' \in since'[ObjectOf(x)']
                \/ x \in Tmpls /\ Before(x)' # None /\ Shown(x)' = Before(x)'
<1>1. ASSUME NEW h \in Impls, objOf'[h] # None
      PROVE  /\ ShownByImpl(h)' \in since'[objOf'[h]]
             /\ StateInUse(h)' = "Deleted" => None \in since'[objOf'[h]]
  <2>1. objOf'[h] \in Objects
    BY <1>1 DEF Shape, TypeInv, TypeOK
  <2>2. /\ db'[objOf'[h]] \in since'[objOf'[h]]
        /\ value'[h] # None => value'[h] \in since'[objOf'[h]]
        /\ state'[h] = "Deleted" => None \in since'[objOf'[h]]
    BY <1>1, <2>1 DEF Sourced
  <2>3. StateInUse(h)' = "Deleted" => None \in since'[objOf'[h]]
    BY <2>2 DEF StateInUse, ResetState
  <2> QED BY <1>1, <2>2, <2>3 DEF ShownByImpl, Answer
<1>2. ASSUME NEW t \in Tmpls, implOf'[t] # None
      PROVE  /\ objOf'[implOf'[t]] # None
             /\ \/ ShownByTmpl(t)' \in since'[objOf'[implOf'[t]]]
                \/ Before(t)' # None /\ ShownByTmpl(t)' = Before(t)'
  <2>1. implOf'[t] \in Impls /\ objOf'[implOf'[t]] # None
    BY <1>2 DEF Shape, TypeInv, TypeOK
  <2>2. tval'[t] # None /\ t \notin stale' => tval'[t] \in since'[objOf'[implOf'[t]]]
    BY <1>2 DEF Sourced
  <2>3. t \in stale' => Before(t)' = tval'[t] /\ tval'[t] # None
    BY DEF Before, Shape, TypeInv, TypeOK
  <2> QED BY <1>1, <1>2, <2>1, <2>2, <2>3 DEF ShownByTmpl, ShownByImpl, StateInUse,
             ResetState, Answer
<1> QED BY <1>1, <1>2, ViewsAssumption DEF Views, ObjectOf, Shown, ShownByImpl, ShownByTmpl

\* The views of o show what it is now, when what is in the caches of it is so.
LEMMA ViewsCurrent ==
  ASSUME Shape', NEW o \in Objects,
         \A h \in Impls : objOf'[h] = o =>
           value'[h] \in {None, db'[o]} /\ (state'[h] = "Deleted" => db'[o] = None),
         \A t \in Tmpls : implOf'[t] # None /\ objOf'[implOf'[t]] = o => tval'[t] = None
  PROVE  /\ \A x \in Views : ObjectOf(x)' = o => Shown(x)' = db'[o]
         /\ \A t \in Tmpls : ObjectOf(t)' = o => Before(t)' = None
<1>0. o # None
  BY NoneAssumption
<1>1. ASSUME NEW h \in Impls, objOf'[h] = o
      PROVE  /\ ShownByImpl(h)' = db'[o]
             /\ StateInUse(h)' = "Deleted" => db'[o] = None
  BY <1>0, <1>1 DEF ShownByImpl, StateInUse, ResetState, Answer
<1>2. ASSUME NEW t \in Tmpls, implOf'[t] # None, objOf'[implOf'[t]] = o
      PROVE  ShownByTmpl(t)' = db'[o] /\ Before(t)' = None
  <2>1. implOf'[t] \in Impls
    BY <1>2 DEF Shape, TypeInv, TypeOK
  <2> QED BY <1>1, <1>2, <2>1 DEF ShownByTmpl, ShownByImpl, StateInUse, ResetState, Answer,
             Before
<1> QED BY <1>0, <1>1, <1>2, ViewsAssumption DEF Views, ObjectOf, Shown

\* What stale templates had read may be forgotten, and is not replaced.
LEMMA ViewsForget ==
  ASSUME Careful, CacheInv, Shape', Next, stale' \subseteq stale
  PROVE  Promise!Forget
<1>1. \A t \in Tmpls : Before(t)' \in {Before(t), None}
  BY StaleStep DEF Before
<1> QED BY <1>1 DEF Promise!Forget, Before

\* A view stays with its object while both its pointers do.
LEMMA ViewsKept ==
  ASSUME Shape,
         \A g \in Impls : objOf[g] # None => objOf'[g] = objOf[g],
         \A t \in Tmpls : implOf[t] # None => implOf'[t] = implOf[t]
  PROVE  Promise!Kept
<1>1. \A x \in Views : ObjectOf(x) # None => ObjectOf(x)' = ObjectOf(x)
  BY DEF ObjectOf, Views, Shape, TypeInv, TypeOK
<1> QED BY <1>1 DEF Promise!Kept

LEMMA ViewsSame ==
  ASSUME UNCHANGED <<objOf, implOf>>
  PROVE  UNCHANGED [x \in Views |-> ObjectOf(x)]
BY DEF ObjectOf

\* Each step of the caches is one of the promise.
LEMMA PromiseStep ==
  ASSUME Careful, CacheInv, ReadKnown, Shape', Next
  PROVE  Promise!Step
<1> USE DEF CacheInv
<1> DEFINE noted == {o \in Objects : Noted(o)}
<1>0. ASSUME UNCHANGED pending
      PROVE  UNCHANGED noted
  BY <1>0 DEF Noted
<1>1. ASSUME UNCHANGED <<db, pending>>, stale' \subseteq stale,
             \A g \in Impls : objOf[g] # None => objOf'[g] = objOf[g],
             \A t \in Tmpls : implOf[t] # None => implOf'[t] = implOf[t]
      PROVE  Promise!Use
  BY <1>0, <1>1, ViewsKept, ViewsForget DEF Promise!Use
<1>2. ASSUME NEW o \in Objects, get_object(o) PROVE Promise!Use
  <2>1. PICK h \in Impls : InsertObject(o, h)
    BY <1>2 DEF get_object
  <2>2. db[o] # None /\ UNCHANGED <<db, pending, tmplVars>>
    BY <1>2 DEF get_object
  <2>3. \A g \in Impls : objOf[g] # None => objOf'[g] = objOf[g]
    BY <2>1, <2>2, InsertKnown, InsertSources
  <2> QED BY <1>1, <2>2, <2>3 DEF tmplVars
<1>3. ASSUME NEW o \in Objects, NEW v \in Values, create_object(o, v)
      PROVE  Promise!Create(o, v)
  <2>1. PICK h \in Impls : InsertObject(o, h)
    BY <1>3 DEF create_object
  <2>2. /\ CanTake(o) /\ <<o, "removed">> \notin pending
        /\ db' = [db EXCEPT ![o] = v]
        /\ UNCHANGED <<pending, tmplAt, implOf, tval, stale>>
    BY <1>3 DEF create_object, Careful, tmplVars
  <2>3. db[o] = None /\ \A p \in Rivals[o] : implAt[p] = None
    BY <2>2 DEF CanTake, Careful
  <2>4. /\ objOf'[h] = o /\ state'[h] = "Valid" /\ value'[h] = None
        /\ \A g \in Impls : objOf[g] # None => objOf'[g] = objOf[g]
    BY <2>1, <2>3, InsertSources
  <2>5. \A g \in Impls : objOf'[g] = o => g = h
    BY <2>1, <2>3, <2>4, InsertShape, NoneAssumption
  <2>6. \A t \in Tmpls : implOf'[t] # None /\ objOf'[implOf'[t]] = o => tval'[t] = None
    BY <2>2, <2>3, <2>4, OneForEach, NoneAssumption DEF ReadKnown
  <2>7. /\ \A x \in Views : ObjectOf(x)' = o => Shown(x)' = db'[o]
        /\ \A t \in Tmpls : ObjectOf(t)' = o => Before(t)' = None
    BY <2>4, <2>5, <2>6, ViewsCurrent
  <2>8. Promise!Current({o}) /\ Promise!Forget
    BY <2>2, <2>7, ViewsForget, ViewsAssumption
    DEF Promise!Current, Promise!Renewed, Before, Views
  <2>9. Promise!Kept
    BY <2>2, <2>4, ViewsKept
  <2> QED BY <1>0, <2>2, <2>8, <2>9 DEF Promise!Create
<1>4. ASSUME NEW h \in Impls, Fetch(h) PROVE Promise!Use
  BY <1>1, <1>4 DEF Fetch, tmplVars
<1>5. ASSUME NEW c \in Classes, NEW o \in Objects, NEW init \in BOOLEAN,
             get_by_id(c, o, init)
      PROVE  Promise!Use
  <2>1. PICK h \in Impls, t \in Tmpls : InsertObject(o, h) /\ CacheGet(c, h, t, init)
    BY <1>5 DEF get_by_id
  <2>2. c \in Family(o[1]) /\ db[o] # None /\ UNCHANGED <<db, pending>>
    BY <1>5 DEF get_by_id
  <2>3. (\A p \in Rivals[o] : implAt[p] = None) /\ Exclusive'
    BY <2>1, <2>2, InsertKnown
  <2>4. /\ \A g \in Impls : objOf'[g] # None => implAt'[objOf'[g]] = g
        /\ \A g \in Impls : objOf[g] # None => objOf'[g] = objOf[g]
        /\ objOf'[h] = o
    BY <2>1, <2>3, InsertShape
  <2>5. stale' = stale /\ \A u \in Tmpls : implOf[u] # None => implOf'[u] = implOf[u]
    BY <2>1, <2>2, <2>3, <2>4, CacheGetSources
  <2> QED BY <1>1, <2>2, <2>4, <2>5
<1>6. ASSUME NEW c \in Classes, NEW h \in Impls, NEW init \in BOOLEAN,
             get_by_object(c, h, init)
      PROVE  Promise!Use
  <2>1. PICK t \in Tmpls : CacheGet(c, h, t, init)
    BY <1>6 DEF get_by_object
  <2>2. /\ objOf[h] \in Objects /\ c \in Family(objOf[h][1])
        /\ UNCHANGED <<db, pending, implAt, objOf, state, value>>
    BY <1>6 DEF get_by_object, Shape, TypeInv, TypeOK, implVars
  <2>3. (\A g \in Impls : objOf'[g] # None => implAt'[objOf'[g]] = g) /\ Exclusive'
    BY DEF Shape, HeldIsCached
  <2>4. stale' = stale /\ \A u \in Tmpls : implOf[u] # None => implOf'[u] = implOf[u]
    BY <2>1, <2>2, <2>3, CacheGetSources
  <2> QED BY <1>1, <2>2, <2>4
<1>7. ASSUME NEW t \in Tmpls, read_attribute(t) \/ unread(t) PROVE Promise!Use
  BY <1>1, <1>7 DEF read_attribute, unread, Forgotten
<1>8. ASSUME NEW t \in Tmpls, NEW v \in Values, set(t, v)
      PROVE  Promise!Set(objOf[implOf[t]], v)
  <2> DEFINE h == implOf[t]
             o == objOf[h]
  <2>1. /\ h # None /\ StateInUse(h) = "Valid"
        /\ db' = [db EXCEPT ![o] = v]
        /\ state' = [state EXCEPT ![h] = "Valid"]
        /\ value' = [value EXCEPT ![h] = None]
        /\ stale' = stale \cup ReadersOf(o)
        /\ UNCHANGED <<pending, implAt, objOf, tmplAt, implOf, tval>>
    BY <1>8 DEF set
  <2>2. h \in Impls /\ o \in Objects /\ o # None /\ \A g \in Impls : objOf[g] = o => g = h
    BY <2>1, OneForEach, NoneAssumption
  <2>3. state'[h] = "Valid" /\ value'[h] = None /\ db'[o] = v
    BY <2>1, <2>2 DEF Shape, TypeInv, TypeOK
  <2>4. \A u \in Tmpls : implOf[u] # None => implOf[u] \in Impls
    BY OneForEach
  <2>5. ASSUME NEW u \in Tmpls
        PROVE  Before(u)' \in IF ObjectOf(u) = o THEN {Before(u), Shown(u)} ELSE {Before(u)}
    <3>1. CASE u \in stale \/ u \notin stale'
      BY <2>1, <3>1 DEF Before
    <3>2. CASE u \notin stale /\ u \in stale'
      <4>1. implOf[u] = h /\ tval[u] # None
        BY <2>1, <2>2, <2>4, <3>2 DEF ReadersOf
      <4>2. ObjectOf(u) = o /\ Shown(u) = tval[u]
        BY <2>1, <4>1, ViewsAssumption DEF ObjectOf, Shown, ShownByTmpl
      <4> QED BY <2>1, <3>2, <4>2 DEF Before
    <3> QED BY <3>1, <3>2
  <2>6. ShownByImpl(h)' = v
    BY <2>1, <2>2, <2>3 DEF ShownByImpl, StateInUse, Answer
  <2>7. ASSUME NEW x \in Views, ObjectOf(x) = o
        PROVE  Shown(x)' = v \/ (x \in Tmpls /\ Shown(x)' = Before(x)')
    <3>1. CASE x \in Impls
      BY <2>1, <2>2, <2>6, <2>7, <3>1 DEF ObjectOf, Shown
    <3>2. CASE x \notin Impls
      <4>1. x \in Tmpls /\ implOf[x] = h
        BY <2>2, <2>4, <2>7, <3>2 DEF ObjectOf, Views
      <4>2. Shown(x)' = IF tval[x] # None THEN tval[x] ELSE ShownByImpl(h)'
        BY <2>1, <2>3, <3>2, <4>1 DEF Shown, ShownByTmpl, StateInUse
      <4>3. tval[x] # None => Before(x)' = tval[x]
        BY <2>1, <4>1 DEF Before, ReadersOf
      <4> QED BY <2>6, <4>1, <4>2, <4>3
    <3> QED BY <3>1, <3>2
  <2>8. UNCHANGED noted /\ UNCHANGED [x \in Views |-> ObjectOf(x)]
    BY <1>0, <2>1, ViewsSame
  <2>9. \A x \in Tmpls : x \in Views
    BY DEF Views
  <2> HIDE DEF h, o
  <2> QED BY <2>1, <2>5, <2>7, <2>8, <2>9 DEF Promise!Set, Before, h, o
<1>9. ASSUME NEW o \in Objects, NEW k \in Kinds, change_database(o, k)
      PROVE  Promise!Change(o)
  <2>1. /\ pending' = pending \cup {<<o, k>>}
        /\ UNCHANGED <<objOf, implOf, stale>>
    BY <1>9 DEF change_database, implVars, tmplVars
  <2>2. \A p \in Objects \ {o} : db'[p] = db[p]
    <3>1. CASE k = "removed"
      BY <1>9, <3>1 DEF change_database, Shape, TypeInv, TypeOK
    <3>2. CASE k \in {"created", "modified"}
      <4>1. PICK v \in Values : db' = [db EXCEPT ![o] = v]
        BY <1>9, <3>2 DEF change_database
      <4> QED BY <4>1 DEF Shape, TypeInv, TypeOK
    <3> QED BY <3>1, <3>2 DEF Kinds
  <2>3. noted' = noted \cup {o}
    BY <2>1 DEF Noted
  <2>4. Promise!Forget
    BY <2>1, ViewsForget
  <2> QED BY <2>1, <2>2, <2>3, <2>4, ViewsSame DEF Promise!Change
<1>10. ASSUME system_cb PROVE Promise!Report
  <2>1. update_cache(pending) /\ pending' = {} /\ UNCHANGED db
    BY <1>10 DEF system_cb
  <2>2. noted' = {}
    BY <2>1 DEF Noted
  <2>3. UNCHANGED <<objOf, implOf>>
    BY <2>1 DEF update_cache
  <2>4. Promise!Forget
    BY <2>1, ViewsForget DEF update_cache, Forgotten
  <2>5. ASSUME NEW t \in Tmpls, ObjectOf(t)' \in noted
        PROVE  Before(t)' = None
    <3>1. /\ implOf[t] # None /\ ObjectOf(t)' = objOf[implOf[t]]
          /\ \E k \in Kinds : <<objOf[implOf[t]], k>> \in pending
      BY <2>3, <2>5, NoneAssumption, ViewsAssumption DEF ObjectOf, Noted
    <3>2. /\ pending \in SUBSET (Objects \X Kinds)
          /\ \A o \in Objects, k \in Kinds : <<o, k>> \in pending => Remembered(o)
      BY DEF Shape, TypeInv, TypeOK, Remembered, Noted
    <3>3. tval'[t] = None
      BY <2>1, <3>1, <3>2, UpdateAt
    <3> QED BY <3>3 DEF Before
  <2>6. Promise!Renewed(noted)
    BY <2>5 DEF Promise!Renewed, Before, Views
  <2> QED BY <2>1, <2>2, <2>3, <2>4, <2>6, ViewsSame DEF Promise!Report
<1>11. ASSUME NEW S \in SUBSET Objects, destroy_obj(S) PROVE Promise!Destroy(S)
  <2> DEFINE changes == S \X {"removed"}
  <2>1. /\ update_cache(changes) /\ UNCHANGED pending
        /\ \A o \in S : db[o] # None
        /\ db' = [o \in Objects |-> IF o \in S THEN None ELSE db[o]]
    BY <1>11 DEF destroy_obj
  <2>2. /\ changes \in SUBSET (Objects \X Kinds)
        /\ \A o \in Objects, k \in Kinds : <<o, k>> \in changes => o \in S
        /\ \A o \in S : <<o, "removed">> \in changes
        /\ "removed" \in Kinds
    BY DEF Kinds
  <2> HIDE DEF changes
  <2>3. \A o \in Objects, k \in Kinds : <<o, k>> \in changes => Remembered(o)
    BY <2>1, <2>2 DEF Remembered
  <2>4. /\ UNCHANGED <<objOf, implOf>>
        /\ \A h \in Impls : objOf[h] \in S => value'[h] = None
        /\ \A t \in Tmpls : implOf[t] # None /\ objOf[implOf[t]] \in S => tval'[t] = None
    <3>1. ASSUME NEW h \in Impls, objOf[h] \in S PROVE value'[h] = None
      <4>1. objOf[h] # None /\ \E k \in Kinds : <<objOf[h], k>> \in changes
        BY <2>2, <3>1, NoneAssumption
      <4> QED BY <2>1, <2>2, <2>3, <4>1, UpdateAt
    <3>2. ASSUME NEW t \in Tmpls, implOf[t] # None, objOf[implOf[t]] \in S
          PROVE  tval'[t] = None
      BY <2>1, <2>2, <2>3, <3>2, UpdateAt
    <3> QED BY <2>1, <3>1, <3>2 DEF update_cache
  <2>5. ASSUME NEW o \in S
        PROVE  /\ \A x \in Views : ObjectOf(x)' = o => Shown(x)' = db'[o]
               /\ \A t \in Tmpls : ObjectOf(t)' = o => Before(t)' = None
    BY <2>1, <2>4, ViewsCurrent
  <2>6. Promise!Current(S) /\ Promise!Forget
    BY <2>1, <2>5, ViewsForget
    DEF Promise!Current, Promise!Renewed, Before, Views, update_cache, Forgotten
  <2> QED BY <1>0, <2>1, <2>4, <2>6, ViewsSame DEF Promise!Destroy
<1>12. ASSUME NEW h \in Impls, NEW i \in Ids, rename_object(h, i)
       PROVE  Promise!Rename(objOf[h], <<objOf[h][1], i>>)
  <2> DEFINE old == objOf[h]
             new == <<old[1], i>>
  <2>1. /\ old \in Objects /\ new \in Objects /\ ~Noted(old) /\ ~Noted(new)
    BY <1>12, RenameAt
  <2>2. /\ db' = [db EXCEPT ![old] = None, ![new] = db[old]]
        /\ objOf' = [objOf EXCEPT ![h] = new]
        /\ UNCHANGED <<pending, implOf, stale>>
    BY <1>12 DEF rename_object
  <2>3. \A g \in Impls : /\ objOf'[g] = IF objOf[g] = old THEN new ELSE objOf[g]
                         /\ old # None
    BY <2>1, <2>2, OneForEach, NoneAssumption DEF Shape, TypeInv, TypeOK
  <2>4. \A x \in Views : ObjectOf(x)' = IF ObjectOf(x) = old THEN new ELSE ObjectOf(x)
    BY <2>2, <2>3, OneForEach DEF ObjectOf, Views
  <2>5. Promise!Forget
    BY <2>2, ViewsForget
  <2> HIDE DEF old, new
  <2> QED BY <1>0, <2>1, <2>2, <2>4, <2>5 DEF Promise!Rename, old, new
<1>13. ASSUME unread_implementation_objects \/ unread_template_objects
       PROVE  Promise!Use
  BY <1>1, <1>13 DEF unread_implementation_objects, unread_template_objects,
     UnreadImpls, UnreadTemplates, Forgotten, implVars, tmplVars
<1>14. ASSUME abort PROVE Promise!Abort
  <2>1. /\ UnreadImpls /\ UnreadTemplates
        /\ db' \in [Objects -> Values \cup {None}]
        /\ UNCHANGED <<pending, tmplAt, objOf, implOf>>
    BY <1>14 DEF abort
  <2>2. /\ \A h \in Impls : objOf[h] # None => state'[h] = "Unknown"
        /\ \A h \in Impls : value'[h] = None
    BY <2>1 DEF UnreadImpls
  <2>3. \A t \in Tmpls : implOf[t] # None => tval'[t] = None
    BY <2>1, TemplateCached DEF UnreadTemplates
  <2>4. ASSUME NEW o \in Objects
        PROVE  /\ \A x \in Views : ObjectOf(x)' = o => Shown(x)' = db'[o]
               /\ \A t \in Tmpls : ObjectOf(t)' = o => Before(t)' = None
    BY <2>1, <2>2, <2>3, ViewsCurrent, NoneAssumption
  <2>5. Promise!Current(Objects) /\ Promise!Forget
    BY <2>1, <2>4, ViewsForget
    DEF Promise!Current, Promise!Renewed, Before, Views, UnreadTemplates, Forgotten
  <2> QED BY <1>0, <2>1, <2>5, ViewsSame DEF Promise!Abort
<1>15. \A t \in Tmpls, v \in Values : set(t, v) => objOf[implOf[t]] \in Objects
  BY OneForEach DEF set
<1>16. \A h \in Impls, i \in Ids : rename_object(h, i) =>
          objOf[h] \in Objects /\ <<objOf[h][1], i>> \in Objects
  BY RenameAt
<1> QED
  BY <1>2, <1>3, <1>4, <1>5, <1>6, <1>7, <1>8, <1>9, <1>10, <1>11, <1>12,
     <1>13, <1>14, <1>15, <1>16 DEF Next, UseImpl, UseTmpl, Promise!Step

\* The caches start with no views, and with what the database holds.
LEMMA ViewsInitial == ViewsInit => ViewsInv /\ Promise!Init
<1> SUFFICES ASSUME ViewsInit PROVE ViewsInv /\ Promise!Init
  OBVIOUS
<1>1. Init /\ \A o \in Objects : since[o] = {db[o]}
  BY DEF ViewsInit
<1>2. CacheInv
  BY <1>1, ShapeInit, FollowsInit DEF CacheInv
<1>3. ReadKnown /\ Sourced
  BY <1>1 DEF Init, ReadKnown, Sourced
<1>4. /\ \A x \in Views : ObjectOf(x) = None /\ Shown(x) = None
      /\ \A o \in Objects : ~Noted(o)
  BY <1>1 DEF Init, Views, ObjectOf, Shown, ShownByImpl, ShownByTmpl, Noted
<1>5. Promise!Init
  BY <1>1, <1>4 DEF Init, ViewsInit, Promise!Init
<1> QED BY <1>2, <1>3, <1>5 DEF ViewsInv

\* The invariant holds always, and each step shows the users what was promised.
LEMMA ViewsStep ==
  ASSUME Careful, ViewsInv, [ViewsNext]_viewVars
  PROVE  ViewsInv' /\ [Promise!Next]_(Promise!vars)
<1>1. CASE ViewsNext
  <2>1. Next /\ Collects
    BY <1>1 DEF ViewsNext, Collects
  <2>2. CacheInv'
    BY <2>1, ShapeStep, FollowsStep DEF ViewsInv, CacheInv
  <2>3. ReadKnown' /\ Sourced'
    BY <2>1, <2>2, ReadKnownStep, SourcedStep DEF ViewsInv
  <2>4. Promise!Step
    BY <2>1, <2>2, PromiseStep DEF ViewsInv, CacheInv
  <2>5. Promise!Collected
    BY <2>1 DEF Collects, Promise!Collected
  <2>6. Promise!Honest
    BY <2>2, <2>3, ViewsHonest DEF CacheInv, Promise!Honest, Before
  <2> QED BY <2>2, <2>3, <2>4, <2>5, <2>6 DEF ViewsInv, Promise!Next
<1>2. CASE UNCHANGED viewVars
  <2>1. UNCHANGED <<db, pending, implAt, objOf, state, value, tmplAt, implOf, tval,
                  stale, since>>
    BY <1>2 DEF viewVars, vars
  <2>2. CacheInv'
    BY <2>1, ShapeStep, FollowsStep DEF ViewsInv, CacheInv, vars
  <2>3. ReadKnown' /\ Sourced'
    BY <2>1 DEF ViewsInv, ReadKnown, Sourced
  <2>4. UNCHANGED Promise!vars
    BY <2>1 DEF Promise!vars, ObjectOf, Shown, ShownByImpl, ShownByTmpl, StateInUse,
       ResetState, Answer, Noted
  <2> QED BY <2>2, <2>3, <2>4 DEF ViewsInv
<1> QED BY <1>1, <1>2

\* The caches implement ObjectViews: in whatever order objects are got, read,
\* set, renamed, destroyed and made again, changes come and reports of them, a user
\* sees a ConfigObject or DAL pointer stay with its object, show a value the object has
\* had since the last report, and show at once what this session does; but a DAL pointer
\* that had read an object may show what it had read after this session set the object.
THEOREM ViewsImplemented ==
  ASSUME Careful
  PROVE  ViewsSpec => ImplementsViews
<1>1. ViewsInit => ViewsInv /\ Promise!Init
  BY ViewsInitial
<1>2. ViewsInv /\ [ViewsNext]_viewVars => ViewsInv' /\ [Promise!Next]_(Promise!vars)
  BY ViewsStep
<1> QED BY <1>1, <1>2, PTL DEF ViewsSpec, ImplementsViews, Promise!Spec
=============================================================================
