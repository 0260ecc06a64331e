----------------------------- MODULE ObjectCache -----------------------------
(***************************************************************************)
(* The two caches of a loaded Configuration: the implementation objects of *)
(* the plug-in (ConfigurationImpl::m_impl_objects) and the template objects*)
(* (generated DAL, Configuration::m_cache_map), and what keeps them in     *)
(* step with the database: update_cache, rename_object, abort, unread...   *)
(*                                                                         *)
(* Users keep what the caches gave them: a ConfigObject points to an       *)
(* implementation object, a DAL pointer to a template object, and neither  *)
(* is freed before unload.  Every method of the facade is one step: the    *)
(* mutexes that make it so are the subject of FacadeLocks.                 *)
(***************************************************************************)
EXTENDS Naturals, FiniteSets

CONSTANTS Classes, Ids, Values,
          Supers,    \* p_superclasses: all the superclasses of each class
          Impls,     \* the implementation objects that can be made
          Tmpls,     \* the template objects that can be made
          MaxNoted,  \* how many changes the plug-in reports together
          Careless,  \* which precautions the users do not take
          None       \* no object, no value

Objects == Classes \X Ids
Kinds == {"removed", "created", "modified"}
States == {"Valid", "Deleted", "Unknown"}

Family(c) == {c} \cup Supers[c]

\* update_cache visits the class of a change, its super- and its subclasses
Relatives(c) == {d \in Classes : d \in Family(c) \/ c \in Family(d)}

\* An id names one object of a class with its subclasses: the objects that
\* cannot be in the database together with o
Rivals == [o \in Objects |-> {p \in Objects : /\ p # o /\ p[2] = o[2]
                                             /\ Family(o[1]) \cap Family(p[1]) # {}}]

\* the objects whose changes update_cache looks up under key k of a cache
ReachedFrom == [k \in Objects |->
                  {o \in Objects : o[2] = k[2] /\ k[1] \in Relatives(o[1])}]

ASSUME SupersAssumption == Supers \in [Classes -> SUBSET Classes]
ASSUME NoneAssumption == /\ None \notin Values \cup Impls \cup Tmpls
                         /\ None \notin Objects
ASSUME MaxNotedAssumption == MaxNoted \in Nat
ASSUME CarelessAssumption == Careless \subseteq {"rename over", "noted", "take over"}

-----------------------------------------------------------------------------
VARIABLES db,       \* the value of each object of the database, or None
          pending,  \* changes of it the plug-in has not reported yet
          implAt,   \* m_impl_objects: implementation object by class and id
          objOf,    \* its m_class_name and m_id; None when it is not made
          state,    \* its m_state
          value,    \* the value it has fetched from the database, or None
          tmplAt,   \* m_cache_map: template object by template class and id
          implOf,   \* the implementation object in its p_obj
          tval,     \* its attributes; None when p_was_read is false
          stale     \* history: the templates that had read their object when this
                    \* session set it, and have not read it again

implVars == <<implAt, objOf, state, value>>
tmplVars == <<tmplAt, implOf, tval, stale>>
vars == <<db, pending, implAt, objOf, state, value, tmplAt, implOf, tval, stale>>

\* the objects a database may hold together
Consistent(d) == \A o \in Objects : d[o] # None => \A p \in Rivals[o] : d[p] = None

Init == /\ db \in [Objects -> Values \cup {None}]
        /\ Consistent(db)
        /\ pending = {}
        /\ implAt = [o \in Objects |-> None]
        /\ objOf = [h \in Impls |-> None]
        /\ state = [h \in Impls |-> "Valid"]
        /\ value = [h \in Impls |-> None]
        /\ tmplAt = [k \in Objects |-> None]
        /\ implOf = [t \in Tmpls |-> None]
        /\ tval = [t \in Tmpls |-> None]
        /\ stale = {}

\* is there a change of o the caches have not been told of?
Noted(o) == \E k \in Kinds : <<o, k>> \in pending

\* o can come to be in the database.  Careful users leave an id to the class that
\* used it while the cache or a notification remembers it.
CanTake(o) ==
  /\ db[o] = None
  /\ \A p \in Rivals[o] :
       /\ db[p] = None
       /\ "take over" \in Careless \/ (implAt[p] = None /\ ~Noted(p))

-----------------------------------------------------------------------------
(***************************************************************************)
(* IMPLEMENTATION OBJECTS                                                  *)
(***************************************************************************)

\* mutant of ResetState: a missing object leaves a state of its own
ResetState_NotFound(h) == IF db[objOf[h]] # None THEN "Valid" ELSE "NotFound"

\* the state reset() gives to an implementation object: the plug-in looks its
\* object up again
ResetState(h) == IF db[objOf[h]] # None THEN "Valid" ELSE "Deleted"

\* is_deleted: the state of an implementation object when it is used
StateInUse(h) == IF state[h] = "Unknown" THEN ResetState(h) ELSE state[h]

\* what an implementation object answers: what it has fetched or can fetch
Answer(h) == IF value[h] # None THEN value[h] ELSE db[objOf[h]]

\* get_impl_object: the object of that class and id, else one of a subclass
Cached(o) ==
  IF implAt[o] # None THEN {implAt[o]}
  ELSE {implAt[p] : p \in {q \in Objects : q[2] = o[2] /\ o[1] \in Supers[q[1]]}}
       \ {None}

\* insert_object: a cached implementation object is used again, else one is made
InsertObject(o, h) ==
  \/ /\ h \in Cached(o)
     /\ state' = [state EXCEPT ![h] = "Valid"]
     /\ value' = [value EXCEPT ![h] = None]
     /\ UNCHANGED <<implAt, objOf>>
  \/ /\ Cached(o) = {}
     /\ objOf[h] = None
     /\ implAt' = [implAt EXCEPT ![o] = h]
     /\ objOf' = [objOf EXCEPT ![h] = o]
     /\ state' = [state EXCEPT ![h] = "Valid"]
     /\ value' = [value EXCEPT ![h] = None]

\* get(class, id, object)
get_object(o) ==
  /\ db[o] # None
  /\ \E h \in Impls : InsertObject(o, h)
  /\ UNCHANGED <<db, pending, tmplVars>>

\* create(at, class, id, object); careful users do not create an object while
\* its removal by others is to be reported
create_object(o, v) ==
  /\ CanTake(o)
  /\ "noted" \in Careless \/ <<o, "removed">> \notin pending
  /\ db' = [db EXCEPT ![o] = v]
  /\ \E h \in Impls : InsertObject(o, h)
  /\ UNCHANGED <<pending, tmplVars>>

\* the plug-in fetches the values of an object that is used
Fetch(h) ==
  /\ objOf[h] # None
  /\ state[h] = "Valid"
  /\ value[h] = None
  /\ db[objOf[h]] # None
  /\ value' = [value EXCEPT ![h] = db[objOf[h]]]
  /\ UNCHANGED <<db, pending, implAt, objOf, state, tmplVars>>

(***************************************************************************)
(* TEMPLATE OBJECTS                                                        *)
(***************************************************************************)

\* Cache<T>::get(config, obj, ...) with template class c and the implementation
\* object h, whose state and object are already known (primed): a template is
\* made, and read if init; or the cached one is given h, and stays as read as
\* it was.
CacheGet(c, h, t, init) ==
  LET k == <<c, objOf'[h][2]>> IN
  \/ /\ tmplAt[k] = None
     /\ implOf[t] = None
     /\ tmplAt' = [tmplAt EXCEPT ![k] = t]
     /\ implOf' = [implOf EXCEPT ![t] = h]
     /\ tval' = [tval EXCEPT ![t] =
                   IF init /\ state'[h] = "Valid" THEN Answer(h)' ELSE None]
     /\ UNCHANGED stale
  \/ /\ tmplAt[k] = t
     /\ implOf' = [implOf EXCEPT ![t] = h]
     /\ UNCHANGED <<tmplAt, tval, stale>>

\* get<T>(id) when the template is not in the cache: the object is got first;
\* a template that is in the cache is returned whatever became of its object
get_by_id(c, o, init) ==
  /\ c \in Family(o[1])
  /\ tmplAt[<<c, o[2]>>] = None
  /\ db[o] # None
  /\ UNCHANGED <<db, pending>>
  /\ \E h \in Impls, t \in Tmpls : InsertObject(o, h) /\ CacheGet(c, h, t, init)

\* get<T>(obj), the elements of get<T>(objects), ref, referenced_by and cast
get_by_object(c, h, init) ==
  /\ objOf[h] # None
  /\ c \in Family(objOf[h][1])
  /\ UNCHANGED <<db, pending, implVars>>
  /\ \E t \in Tmpls : CacheGet(c, h, t, init)

\* A get method of a template object: check() throws DeletedObject when the
\* object was deleted; check_init() reads the attributes if they are not.
read_attribute(t) ==
  LET h == implOf[t] IN
  /\ h # None
  /\ UNCHANGED <<db, pending, implAt, objOf, tmplAt, implOf, stale>>
  /\ state' = [state EXCEPT ![h] = StateInUse(h)]
  /\ value' = [value EXCEPT ![h] = IF state[h] = "Unknown" THEN None ELSE @]
  /\ tval' = IF StateInUse(h) = "Valid" /\ tval[t] = None
             THEN [tval EXCEPT ![t] = Answer(h)'] ELSE tval

\* no template is stale after it has forgotten what it read
Forgotten == stale' = {t \in stale : tval'[t] # None}

\* DalObject::unread: check(), then the attributes will be read again
unread(t) ==
  LET h == implOf[t] IN
  /\ h # None
  /\ UNCHANGED <<db, pending, implAt, objOf, tmplAt, implOf>>
  /\ state' = [state EXCEPT ![h] = StateInUse(h)]
  /\ value' = [value EXCEPT ![h] = IF state[h] = "Unknown" THEN None ELSE @]
  /\ tval' = IF StateInUse(h) = "Valid" THEN [tval EXCEPT ![t] = None] ELSE tval
  /\ Forgotten

\* the templates that have read the object o
ReadersOf(o) == {t \in Tmpls : implOf[t] # None /\ objOf[implOf[t]] = o /\ tval[t] # None}

\* mutant of set: what was fetched of the object stays
set_NotCleared(t, v) ==
  LET h == implOf[t] IN
  /\ h # None
  /\ StateInUse(h) = "Valid"
  /\ db[objOf[h]] # None
  /\ db' = [db EXCEPT ![objOf[h]] = v]
  /\ state' = [state EXCEPT ![h] = "Valid"]
  /\ stale' = stale \cup ReadersOf(objOf[h])
  /\ UNCHANGED <<pending, implAt, objOf, value, tmplAt, implOf, tval>>

\* a set method of a template object, as _set_object: check(), clear() of the
\* implementation object, and the plug-in sets the value.  p_was_read stays, so
\* what templates have read of the object is what they go on to show.
set(t, v) ==
  LET h == implOf[t] IN
  /\ h # None
  /\ StateInUse(h) = "Valid"
  /\ db[objOf[h]] # None
  /\ db' = [db EXCEPT ![objOf[h]] = v]
  /\ state' = [state EXCEPT ![h] = "Valid"]
  /\ value' = [value EXCEPT ![h] = None]
  /\ stale' = stale \cup ReadersOf(objOf[h])
  /\ UNCHANGED <<pending, implAt, objOf, tmplAt, implOf, tval>>

-----------------------------------------------------------------------------
(***************************************************************************)
(* CHANGES OF THE DATABASE                                                 *)
(***************************************************************************)

\* other users of the database change o
change_database(o, k) ==
  /\ CASE k = "created"  -> CanTake(o) /\ \E v \in Values : db' = [db EXCEPT ![o] = v]
       [] k = "removed"  -> db[o] # None /\ db' = [db EXCEPT ![o] = None]
       [] k = "modified" -> db[o] # None /\ \E v \in Values \ {db[o]} :
                                               db' = [db EXCEPT ![o] = v]
  /\ Cardinality(pending) < MaxNoted
  /\ pending' = pending \cup {<<o, k>>}
  /\ UNCHANGED <<implVars, tmplVars>>

\* the lists of changes in which update_cache finds the id of key p, when it
\* looks up the caches of the class of the change and its relatives
KindsAt(changes, p) ==
  {k \in Kinds : \E o \in ReachedFrom[p] : <<o, k>> \in changes}

KindsOfImpl(changes, h) ==
  UNION {KindsAt(changes, p) : p \in {q \in Objects : implAt[q] = h}}

\* mutant of UpdateImplObjects: the removed objects are gone through last
UpdateImplObjects_RemovedLast(changes) ==
  LET kinds == [h \in Impls |-> KindsOfImpl(changes, h)] IN
  /\ state' = [h \in Impls |->
                 IF "removed" \in kinds[h] THEN "Deleted"
                 ELSE IF \/ "created" \in kinds[h]
                         \/ "modified" \in kinds[h] /\ state[h] # "Valid"
                      THEN ResetState(h)' ELSE state[h]]
  /\ value' = [h \in Impls |->
                 IF kinds[h] = {} THEN value[h] ELSE None]

\* mutant of UpdateImplObjects: a valid object keeps what it has fetched
UpdateImplObjects_NotCleared(changes) ==
  LET kinds == [h \in Impls |-> KindsOfImpl(changes, h)] IN
  /\ state' = [h \in Impls |->
                 IF \/ "created" \in kinds[h]
                    \/ /\ "modified" \in kinds[h]
                       /\ "removed" \in kinds[h] \/ state[h] # "Valid"
                 THEN ResetState(h)'
                 ELSE IF "removed" \in kinds[h] THEN "Deleted" ELSE state[h]]
  /\ value' = [h \in Impls |->
                 IF kinds[h] \subseteq {"modified"} /\ state[h] = "Valid"
                 THEN value[h] ELSE None]

\* update_impl_objects goes through the removed, the created and the modified
\* objects, in this order.  What is modified and not valid is reset.
UpdateImplObjects(changes) ==
  LET kinds == [h \in Impls |-> KindsOfImpl(changes, h)] IN
  /\ state' = [h \in Impls |->
                 IF \/ "created" \in kinds[h]
                    \/ /\ "modified" \in kinds[h]
                       /\ "removed" \in kinds[h] \/ state[h] # "Valid"
                 THEN ResetState(h)'
                 ELSE IF "removed" \in kinds[h] THEN "Deleted" ELSE state[h]]
  /\ value' = [h \in Impls |->
                 IF kinds[h] = {} THEN value[h] ELSE None]

\* mutant of UpdateTemplates: the templates of the superclasses are left out
UpdateTemplates_NotSupers(changes) ==
  tval' = [t \in Tmpls |->
             IF \E c \in Classes, i \in Ids, n \in Kinds :
                  <<<<c, i>>, n>> \in changes /\ tmplAt[<<c, i>>] = t
             THEN None ELSE tval[t]]

\* Configuration::update, of every template class related to a change
UpdateTemplates(changes) ==
  tval' = [t \in Tmpls |->
             IF \E k \in Objects : tmplAt[k] = t /\ KindsAt(changes, k) # {}
             THEN None ELSE tval[t]]

update_cache(changes) == /\ UNCHANGED <<implAt, objOf, tmplAt, implOf>>
                         /\ UpdateImplObjects(changes)
                         /\ UpdateTemplates(changes)
                         /\ Forgotten

\* system_cb: the plug-in reports the changes
system_cb == /\ pending # {}
             /\ pending' = {}
             /\ UNCHANGED db
             /\ update_cache(pending)

\* destroy_obj and remove_include: the plug-in removes the object and those that
\* depend on it, or those of the closed files, and has the caches updated
destroy_obj(S) ==
  /\ \A o \in S : db[o] # None
  /\ db' = [o \in Objects |-> IF o \in S THEN None ELSE db[o]]
  /\ update_cache(S \X {"removed"})
  /\ UNCHANGED pending

\* mutant of rename_impl_object: the object stays in the cache under its old id
rename_impl_object_KeepsOld(old, new) == UNCHANGED implAt

\* rename_impl_object: the object of old takes the place of new; one that is
\* there is tangled, and is not in the cache any more
rename_impl_object(old, new) ==
  IF implAt[old] = None THEN UNCHANGED implAt
  ELSE implAt' = [implAt EXCEPT ![new] = implAt[old], ![old] = None]

Tangled(h, old, new) == implAt[old] # None /\ implAt[new] = h

\* mutant of RenameTemplates: not in the caches of the superclasses
RenameTemplates_NotSupers(old, new) ==
  tmplAt' = IF tmplAt[old] = None THEN tmplAt
            ELSE [tmplAt EXCEPT ![new] = tmplAt[old], ![old] = None]

\* _rename_object in the caches of the class and of its superclasses
RenameTemplates(old, new) ==
  tmplAt' = [k \in Objects |->
               LET moved == tmplAt[<<k[1], old[2]>>] IN
               IF k[1] \notin Family(old[1]) \/ moved = None THEN tmplAt[k]
               ELSE IF k[2] = new[2] THEN moved
               ELSE IF k[2] = old[2] THEN None ELSE tmplAt[k]]

\* Careful users do not take an id that the cache remembers, nor rename while a
\* change of either id is to be reported.
CanRename(old, new) ==
  /\ CanTake(new)
  /\ "rename over" \in Careless \/ implAt[new] = None
  /\ "noted" \in Careless \/ (~Noted(old) /\ ~Noted(new))

\* rename_object(obj, new_id)
rename_object(h, new_id) ==
  /\ objOf[h] # None
  /\ LET old == objOf[h]
         new == <<old[1], new_id>> IN
     /\ StateInUse(h) = "Valid"
     /\ db[old] # None
     /\ CanRename(old, new)
     /\ db' = [db EXCEPT ![old] = None, ![new] = db[old]]
     /\ objOf' = [objOf EXCEPT ![h] = new]
     /\ state' = [g \in Impls |-> IF Tangled(g, old, new) THEN "Unknown"
                                 ELSE IF g = h THEN "Valid" ELSE state[g]]
     /\ value' = [value EXCEPT ![h] = IF state[h] = "Unknown" THEN None ELSE @]
     /\ rename_impl_object(old, new)
     /\ RenameTemplates(old, new)
  /\ UNCHANGED <<pending, implOf, tval, stale>>

\* _unread_implementation_objects(Unknown), of the tangled objects as well
UnreadImpls ==
  /\ state' = [h \in Impls |-> IF objOf[h] # None THEN "Unknown" ELSE state[h]]
  /\ value' = [h \in Impls |-> None]

\* _unread_template_objects
UnreadTemplates ==
  /\ tval' = [t \in Tmpls |-> IF \E k \in Objects : tmplAt[k] = t THEN None ELSE tval[t]]
  /\ Forgotten

\* the two halves of unread_all_objects, which take their mutexes in turn
unread_implementation_objects ==
  UnreadImpls /\ UNCHANGED <<db, pending, implAt, objOf, tmplVars>>
unread_template_objects ==
  UnreadTemplates /\ UNCHANGED <<db, pending, implVars, tmplAt, implOf>>

\* abort: whatever this session did to the database is undone, and not what
\* others removed
abort ==
  /\ db' \in [Objects -> Values \cup {None}]
  /\ Consistent(db')
  /\ "take over" \in Careless \/
       \A o \in Objects : db'[o] # None =>
         \A p \in Rivals[o] : implAt[p] = None /\ ~Noted(p)
  /\ \A o \in Objects : <<o, "removed">> \in pending => db'[o] = db[o]
  /\ UnreadImpls
  /\ UnreadTemplates
  /\ UNCHANGED <<pending, implAt, objOf, tmplAt, implOf>>

-----------------------------------------------------------------------------
UseImpl == \E o \in Objects :
             \/ get_object(o)
             \/ \E v \in Values : create_object(o, v)

UseTmpl == \/ \E c \in Classes, o \in Objects, init \in BOOLEAN : get_by_id(c, o, init)
           \/ \E c \in Classes, h \in Impls, init \in BOOLEAN : get_by_object(c, h, init)
           \/ \E t \in Tmpls : \/ read_attribute(t)
                              \/ unread(t)
                              \/ \E v \in Values : set(t, v)

Next == \/ UseImpl
        \/ \E h \in Impls : Fetch(h)
        \/ UseTmpl
        \/ \E o \in Objects, k \in Kinds : change_database(o, k)
        \/ system_cb
        \/ \E S \in SUBSET Objects : destroy_obj(S)
        \/ \E h \in Impls, i \in Ids : rename_object(h, i)
        \/ unread_implementation_objects
        \/ unread_template_objects
        \/ abort

Spec == Init /\ [][Next]_vars

-----------------------------------------------------------------------------
TypeOK ==
  /\ db \in [Objects -> Values \cup {None}]
  /\ pending \in SUBSET (Objects \X Kinds)
  /\ implAt \in [Objects -> Impls \cup {None}]
  /\ objOf \in [Impls -> Objects \cup {None}]
  /\ state \in [Impls -> States]
  /\ value \in [Impls -> Values \cup {None}]
  /\ tmplAt \in [Objects -> Tmpls \cup {None}]
  /\ implOf \in [Tmpls -> Impls \cup {None}]
  /\ tval \in [Tmpls -> Values \cup {None}]
  /\ stale \in SUBSET {t \in Tmpls : implOf[t] # None /\ tval[t] # None}
  /\ \A t \in Tmpls : implOf[t] # None => objOf[implOf[t]] # None

\* The caches find every object that a user holds, under its own class and id:
\* else update_cache would not reach it.
HeldIsCached ==
  /\ \A h \in Impls : objOf[h] # None => implAt[objOf[h]] = h
  /\ \A o \in Objects : implAt[o] # None => objOf[implAt[o]] = o
  /\ \A t \in Tmpls : implOf[t] # None =>
       \E c \in Classes : tmplAt[<<c, objOf[implOf[t]][2]>>] = t
  /\ \A k \in Objects : tmplAt[k] # None =>
       LET h == implOf[tmplAt[k]] IN
       h # None /\ objOf[h][2] = k[2] /\ k[1] \in Family(objOf[h][1])

\* Once the changes of an object are reported, its implementation object knows
\* whether it exists, or will look.
StateFollows ==
  \A h \in Impls : objOf[h] # None /\ ~Noted(objOf[h]) =>
    /\ state[h] = "Valid" => db[objOf[h]] # None
    /\ state[h] = "Deleted" => db[objOf[h]] = None

\* ... and what it has fetched is what the database holds,
ObjectsFresh ==
  \A h \in Impls : objOf[h] # None /\ ~Noted(objOf[h]) /\ value[h] # None =>
    value[h] = db[objOf[h]]

\* ... and so is what has been read into a template object, unless this session set the
\* object after it was read: what was read of an object that is destroyed is never shown
\* for one made later under its id.
TemplatesFresh ==
  \A t \in Tmpls : implOf[t] # None /\ tval[t] # None /\ t \notin stale =>
    LET o == objOf[implOf[t]] IN ~Noted(o) => tval[t] = db[o]

\* "The method resets state of object.  When accessed next time, it will be completely
\* re-read from implementation" (clear() in DalObject.hpp): a value set through a template
\* object, which clears it, is what the template object shows next.
ClearedIsReread ==
  [][\A t \in Tmpls, v \in Values : set(t, v) => tval'[t] = None \/ tval'[t] = v]_vars

\* "After implementation object destruction a method invoked on corresponding
\* DAL objects will throw daq::config::DeletedObject exception"
\* (ConfigPackages.doxygen.hpp).
DestroyedThrows ==
  [][\A t \in Tmpls, S \in SUBSET Objects :
       implOf[t] # None /\ objOf[implOf[t]] \in S /\ destroy_obj(S) =>
         StateInUse(implOf[t])' = "Deleted"]_vars
=============================================================================
