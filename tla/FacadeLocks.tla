---------------------------- MODULE FacadeLocks ----------------------------
(***************************************************************************)
(* The locking of the Configuration facade (Configuration.hpp / .cpp).     *)
(*                                                                         *)
(* Configuration has four non-recursive mutexes, and every template and    *)
(* every implementation object has one; the public methods take them with  *)
(* std::lock_guard in nested scopes.  A method is                          *)
(* abstracted to its PATHS: the sequence of regions its code goes through, *)
(* where a region says which mutex is taken on entry, which mutexes are    *)
(* held inside, and which shared data is read or written there.  Threads   *)
(* call methods at any time and advance region by region.                  *)
(***************************************************************************)
EXTENDS Naturals, Sequences

CONSTANTS Threads,     \* the threads of the process that use the facade
          Nobody,      \* the owner of a free mutex
          Operations,  \* names of the methods the threads call
          MaxCalls     \* how many calls a thread makes

ASSUME ThreadsAssumption == Nobody \notin Threads
ASSUME MaxCallsAssumption == MaxCalls \in Nat

(***************************************************************************)
(* The mutexes of Configuration: m_impl_mutex, m_tmpl_mutex, m_actn_mutex  *)
(* and m_else_mutex; that of one implementation object ("obj") and those   *)
(* of two template objects ("dal", and "child" for one that is made or     *)
(* locked with the mutex of the first held).  Objects are made inside each *)
(* other with m_tmpl_mutex held only, so one order of the two is enough.   *)
(*                                                                         *)
(* The data is what the mutexes of Configuration are there for.  The       *)
(* fields of the objects, as m_state and p_was_read, are not part of it.   *)
(***************************************************************************)
Locks == {"tmpl", "impl", "actn", "else", "obj", "dal", "child"}

Data == {"plugin",        \* what the plug-in m_impl keeps: schema, objects, subscription
         "implObjects",   \* m_impl_objects and m_tangled_objects
         "tmplObjects",   \* m_cache_map and the maps of the Cache<T> objects in it
         "hierarchy",     \* p_superclasses and p_subclasses
         "classDesc",     \* p_direct_ / p_all_classes_desc_cache
         "actions",       \* m_actions
         "callbacks",     \* m_callbacks and m_pre_callbacks
         "converters"}    \* m_convert_map

NoLock == "none"

Region == [take : Locks \cup {NoLock}, holds : SUBSET Locks,
           reads : SUBSET Data, writes : SUBSET Data]

\* code that reads and writes the given data and takes no mutex
Do(r, w) == << [take |-> NoLock, holds |-> {}, reads |-> r, writes |-> w] >>

\* { std::lock_guard<std::mutex> scoped_lock(m); p }
Within(m, p) ==
  << [take |-> m, holds |-> {m}, reads |-> {}, writes |-> {}] >>
    \o [k \in 1 .. Len(p) |-> [p[k] EXCEPT !.holds = @ \cup {m}]]
    \o Do({}, {})

(***************************************************************************)
(* PATHS OF THE METHODS                                                    *)
(***************************************************************************)

\* the plug-in is asked for objects and puts those it finds into its cache: insert_object
PluginGet == Do({"plugin", "hierarchy"}, {"implObjects"})

\* the plug-in makes an object and puts it into its cache
PluginCreate == Do({"hierarchy"}, {"plugin", "implObjects"})

\* ConfigObject::get and rel: the value is read through the plug-in, which makes the
\* objects referenced, and ends with the registered converters; no mutex of the facade is
\* taken
ObjectGet == PluginGet \o Do({"converters"}, {})

\* Cache<T>::get(config, obj, id), make_instance of the DAL factory: the template object is
\* looked for and made, or given another implementation object with its mutex held
CacheMake ==
  { Do({}, {"tmplObjects"}), Do({}, {"tmplObjects"}) \o Within("dal", Do({}, {})) }

\* the children of an object that is initialised: their template objects are made, and with
\* init_children they are initialised as well, with their mutexes held
Children ==
  { Do({}, {"tmplObjects"}),
    Do({}, {"tmplObjects"}) \o Within("child", ObjectGet \o Do({}, {"tmplObjects"})) }

\* Cache<T>::get(config, obj, init_children, init_object): as CacheMake, and a template
\* object that is made is initialised (code written by genconfig) with its mutex held
CacheGet ==
  CacheMake \cup
    { Do({}, {"tmplObjects"}) \o Within("dal", ObjectGet \o c) : c \in Children }

\* update_cache: the implementation objects in the changes are found and reset, then the
\* template objects, each with its mutex held
update_cache ==
  Within("obj", Do({"hierarchy", "implObjects"}, {}))
    \o Within("dal", Do({"hierarchy", "tmplObjects"}, {}))

\* _unread_implementation_objects: every object of the implementation cache
unread_implementation_objects ==
  Within("obj", Do({"implObjects"}, {}))

\* get(class, id), get(class, query), get(path)
get_object == { Within("impl", PluginGet) }

\* test_object: the plug-in looks for the object, and may read objects into its cache
test_object == { Within("impl", PluginGet) }

\* both create(at, class, id, object)
create_object == { Within("impl", PluginCreate) }

\* loaded() and ConfigObject::contained_in ask the plug-in with no mutex
loaded == { Do({"plugin"}, {}) }

\* is_writable: the plug-in is asked something
is_writable == { Within("impl", Do({"plugin"}, {})) }

\* get_includes and get_updated_dbs only ask, set_commit_credentials tells
get_includes ==
  { Within("impl", Do({"plugin"}, {})), Within("impl", Do({}, {"plugin"})) }

\* get_changes, get_versions: the plug-in may look at its repository
get_versions == { Within("impl", Do({}, {"plugin"})) }

\* mutant of get_class_info: a description is looked for before m_impl_mutex is taken
get_class_info_LooksFirst ==
  { Do({"classDesc"}, {}) \o Within("impl", Do({"plugin"}, {"classDesc"})) }

\* get_class_info: looks the description up or asks the plug-in for it
get_class_info ==
  { Within("impl", Do({"plugin"}, {"classDesc"})) }

\* mutant of get_by_id: the id is looked for in a scope of its own
get_by_id_TwoScopes ==
  { Within("tmpl", Do({}, {"tmplObjects"})) }
    \cup { Within("tmpl", Do({}, {"tmplObjects"})) \o Within("tmpl", PluginGet \o p) :
             p \in CacheGet }

\* get<T>(id): a hit answers from the template cache; a miss goes through the
\* private _get(), which calls the plug-in without taking m_impl_mutex
get_by_id ==
  { Within("tmpl", Do({}, {"tmplObjects"})) }
    \cup { Within("tmpl", Do({}, {"tmplObjects"}) \o PluginGet \o p) : p \in CacheGet }

\* get<T>(vector): the public get() is called with m_tmpl_mutex held, then the template
\* objects are made
get_all ==
  { Within("tmpl", Within("impl", PluginGet) \o p) : p \in CacheGet }

\* create<T>(at, id): likewise the public create(); for create<T>(object, id) the file of
\* the object is asked for before
create_template ==
  LET c == { Within("tmpl", Within("impl", PluginCreate) \o p) : p \in CacheGet }
  IN  c \cup { Within("dal", Do({}, {})) \o Do({"plugin"}, {}) \o p : p \in c }

\* get<T>(ConfigObject, ...) and get<T>(ConfigObject, id)
get_by_object ==
  { Within("tmpl", p) : p \in CacheGet }

\* ref<T>: the relationship is read, then the template cache
ref ==
  { Within("tmpl", ObjectGet \o p) : p \in CacheGet }

\* check_init, called by the methods of the generated classes: the object is initialised
\* without its mutex
check_init ==
  { Within("tmpl", ObjectGet \o c) : c \in Children }

\* is_valid, find: the maps of the template cache are searched
is_valid ==
  { Within("tmpl", Do({"tmplObjects"}, {})) }

\* Configuration::cast asks try_cast, which reads the class hierarchy, and looks at the
\* state of the implementation object
cast ==
  { Within("tmpl", Do({"hierarchy"}, {})) }
    \cup { Within("tmpl", Do({"hierarchy"}, {}) \o Within("obj", p)) : p \in CacheMake }

\* DalObject::cast: Configuration::cast with the mutex of the object held; the object of the
\* other class has a mutex of its own
cast_object ==
  { Within("dal", Within("tmpl", Do({"hierarchy"}, {}) \o Within("obj", p))) :
      p \in { Do({}, {"tmplObjects"}),
              Do({}, {"tmplObjects"}) \o Within("child", Do({}, {})) } }

\* DalObject::full_name, config_object, unread
full_name ==
  { Within("dal", Do({}, {})), Within("child", Do({}, {})) }

\* DalObject::_set_object, _set_objects: the objects referenced may be the object itself or
\* another, whose config_object() takes their mutex; the plug-in and the actions are told
\* inside
set_object ==
  LET told == Do({}, {"plugin"}) \o Within("actn", Do({"actions"}, {}))
  IN  { Within("dal", told) }
        \cup { Within("dal", Within(m, Do({}, {})) \o told) : m \in {"dal", "child"} }
        \cup { Within("child", Within("dal", Do({}, {})) \o told) }

\* referenced_by<T, V>: the object asks the plug-in, then try_cast and the template cache
\* for each object returned; referenced_by through the DAL factory initialises none
referenced_by ==
  { Within("tmpl", PluginGet \o Do({"hierarchy"}, {}) \o p) : p \in CacheGet }

\* DalObject::get_rel_objects reads the relationship, then looks for the classes to make
get_rel_objects ==
  { ObjectGet } \cup { ObjectGet \o Within("tmpl", Do({"hierarchy"}, {}) \o p) : p \in CacheMake }

\* DalObject::get_algo_objects: class4algo, then make_dal_object
get_algo_objects ==
  { Do({"hierarchy"}, {}) \o p : p \in CacheMake }

\* try_cast, superclasses, subclasses, print, DalObject::castable: the class hierarchy is
\* read with no mutex at all
try_cast ==
  { Do({"hierarchy"}, {}) }

\* export_schema: the classes, then their descriptions
export_schema ==
  { Do({"hierarchy"}, {}) \o c : c \in get_class_info }

\* export_data: of each class the objects as well, and their attributes
export_data ==
  { c \o o \o ObjectGet : c \in export_schema, o \in get_object }

\* the template caches are walked under m_impl_mutex
print_profiling_info ==
  { Within("impl", Do({"tmplObjects", "implObjects", "plugin"}, {})) }

\* the plug-in destroys the objects and calls update_cache
destroy_obj ==
  { Within("impl", Within("tmpl", Do({}, {"plugin"}) \o update_cache)) }

\* ConfigObject::rename: rename_object, with the mutex of the implementation object and
\* then that of the template object, if there is one; then the actions' update()
rename_object ==
  { Within("tmpl", Within("impl",
      Within("obj", Do({"hierarchy"}, {"plugin", "implObjects"}) \o p)))
      \o Within("actn", Do({"actions"}, {})) : p \in CacheMake }

\* the set_ methods of ConfigObject: the object is changed in the plug-in with no mutex,
\* then the actions' update(); move changes it only
set_attribute ==
  { Do({}, {"plugin"}), Do({}, {"plugin"}) \o Within("actn", Do({"actions"}, {})) }

\* ConfigObject::get and rel called by the user
get_attribute == { ObjectGet }

\* add_action, remove_action
add_action ==
  { Within("actn", Do({}, {"actions"})) }

\* unread_all_objects(true): implementation objects first, then template ones
unread_all_objects ==
  { Within("impl", unread_implementation_objects)
      \o Within("tmpl", Do({"tmplObjects"}, {})) }

load ==
  { Within("impl", Within("actn", Do({"actions"}, {}))
                     \o Do({}, {"plugin", "implObjects", "hierarchy"})) }

unload ==
  { Within("tmpl",
      Within("impl", Within("actn", Do({"actions"}, {}))
                       \o Do({}, {"tmplObjects"})
                       \o Within("else", Do({}, {"callbacks", "plugin", "converters"}))
                       \o Do({}, {"hierarchy", "classDesc", "plugin", "implObjects"}))) }

\* create(database) and add_include
add_include ==
  { Within("impl", Do({}, {"plugin", "implObjects", "hierarchy"})) }

remove_include ==
  { Within("impl", Within("tmpl", Do({}, {"plugin", "implObjects", "hierarchy"}))) }

\* mutant of commit: the implementation mutex is taken first
commit_ImplFirst ==
  { Within("impl", Within("tmpl", Do({}, {"plugin", "implObjects"}))) }

commit ==
  { Within("tmpl", Within("impl", Do({}, {"plugin", "implObjects"}))) }

\* the plug-in reads all objects into its cache
prefetch_all_data ==
  { Within("tmpl", Within("impl", PluginGet)) }

\* mutant of abort: the implementation mutex is taken first
abort_ImplFirst ==
  { Within("impl", Within("tmpl",
      Do({"tmplObjects"}, {"plugin", "implObjects", "hierarchy"}))) }

abort ==
  { Within("tmpl",
      Within("impl", Do({}, {"plugin", "implObjects"})
                       \o unread_implementation_objects
                       \o Do({"plugin", "tmplObjects"}, {"hierarchy"}))) }

\* subscribe and unsubscribe change the callbacks, then reset_subscription tells the
\* plug-in; subscribe(pre_notify) does not
subscribe ==
  { Within("else", Do({}, {"callbacks"})),
    Within("else", Do({}, {"callbacks"}) \o Do({"callbacks"}, {"plugin"})) }

\* find_callback looks for the subscription without m_else_mutex
find_callback ==
  { Do({"callbacks"}, {}) }

register_converter ==
  { Within("else", Do({}, {"converters"})) }

\* the user's pre-notification callbacks
system_pre_cb ==
  { Within("else", Do({"callbacks"}, {})) }

\* the first half of system_cb: the actions, then the caches, then the test
\* whether any subscription is left, which is made without m_else_mutex
notify_and_update ==
  Within("impl", Within("actn", Do({"actions"}, {})))
    \o Within("tmpl", Within("impl", update_cache))
    \o Do({"callbacks"}, {})

\* the second half: the user's callbacks, which may leave the configuration
\* alone, get objects (get_object) or get template objects (get_all)
run_callbacks ==
  { Within("else", Do({"callbacks"}, {}) \o p) :
      p \in {Do({}, {})} \cup get_object \cup get_all }

\* system_cb returns early when all subscriptions were removed meanwhile
system_cb ==
  {notify_and_update} \cup {notify_and_update \o c : c \in run_callbacks}

\* a user's callback that subscribes or unsubscribes, with m_else_mutex held by system_cb
callback_subscribes ==
  { notify_and_update \o Within("else", Do({"callbacks"}, {}) \o q) : q \in subscribe }

\* a user's action that gets an object or removes itself, told by load with m_impl_mutex
\* and m_actn_mutex held
action_calls ==
  { Within("impl", Within("actn", Do({"actions"}, {}) \o q)) : q \in get_object \cup add_action }

PathsOf ==
  [get_object |-> get_object, test_object |-> test_object, create_object |-> create_object,
   loaded |-> loaded, is_writable |-> is_writable, get_includes |-> get_includes,
   get_versions |-> get_versions, get_class_info |-> get_class_info,
   get_by_id |-> get_by_id, get_all |-> get_all, create_template |-> create_template,
   get_by_object |-> get_by_object, ref |-> ref, check_init |-> check_init,
   is_valid |-> is_valid, cast |-> cast, cast_object |-> cast_object,
   full_name |-> full_name, set_object |-> set_object, referenced_by |-> referenced_by,
   get_rel_objects |-> get_rel_objects, get_algo_objects |-> get_algo_objects,
   try_cast |-> try_cast, export_schema |-> export_schema, export_data |-> export_data,
   print_profiling_info |-> print_profiling_info, destroy_obj |-> destroy_obj,
   rename_object |-> rename_object, set_attribute |-> set_attribute,
   get_attribute |-> get_attribute, add_action |-> add_action,
   unread_all_objects |-> unread_all_objects, load |-> load, unload |-> unload,
   add_include |-> add_include, remove_include |-> remove_include, commit |-> commit,
   prefetch_all_data |-> prefetch_all_data, abort |-> abort, subscribe |-> subscribe,
   find_callback |-> find_callback, register_converter |-> register_converter,
   system_pre_cb |-> system_pre_cb, system_cb |-> system_cb,
   callback_subscribes |-> callback_subscribes, action_calls |-> action_calls]

ASSUME OperationsAssumption == Operations \subseteq DOMAIN PathsOf

\* The methods that take the mutexes in one order: m_else_mutex before m_tmpl_mutex before
\* m_impl_mutex before that of an implementation object, of a template object, and
\* m_actn_mutex.
OrderedOperations ==
  DOMAIN PathsOf \ {"destroy_obj", "remove_include", "unload", "cast_object", "set_object",
                    "callback_subscribes", "action_calls"}

\* What the code holds the mutexes for: a piece of data is written with all of these held
\* and read with at least one of them.
Guards == [plugin |-> {"impl"}, implObjects |-> {"impl"}, tmplObjects |-> {"tmpl"},
           hierarchy |-> {"tmpl", "impl"}, classDesc |-> {"impl"},
           actions |-> {"actn"}, callbacks |-> {"else"}, converters |-> {"else"}]

\* the methods that read values, or initialise template objects, through the plug-in and
\* the converters without their mutexes (ObjectGet, and the miss of get_by_id)
ReadingObjects ==
  {"get_attribute", "export_data", "get_rel_objects", "referenced_by", "ref", "check_init",
   "get_by_id", "get_by_object", "get_all", "create_template"}

\* the methods that use the data otherwise somewhere
Unguarded ==
  [plugin |-> ReadingObjects \cup {"set_attribute", "set_object", "subscribe", "loaded",
                                   "callback_subscribes", "system_cb"},
   implObjects |-> ReadingObjects \cup {"system_cb"},
   tmplObjects |-> {"get_algo_objects", "print_profiling_info"},
   hierarchy |-> {"load", "add_include", "get_attribute", "get_rel_objects",
                  "get_algo_objects", "try_cast", "export_schema", "export_data"},
   classDesc |-> {},
   actions |-> {},
   callbacks |-> {"system_cb", "callback_subscribes", "find_callback"},
   converters |-> ReadingObjects]

\* the others that come back to the data after giving its mutexes up
Resuming == [d \in Data |-> IF d \in {"tmplObjects", "hierarchy"} THEN {"system_cb"} ELSE {}]

\* the paths the threads may follow
Paths == UNION {PathsOf[o] : o \in Operations}

NoPath == << >>

\* the mutexes held when the k-th region of p is entered
Before(p, k) == IF k = 1 THEN {} ELSE p[k - 1].holds

\* Scopes nest: a region holds what was held before and the mutex it takes, or
\* gives some up; a call ends with none.
Scoped(p) ==
  /\ p \in Seq(Region)
  /\ p # NoPath
  /\ \A k \in 1 .. Len(p) :
       IF p[k].take = NoLock THEN p[k].holds \subseteq Before(p, k)
                             ELSE p[k].holds = Before(p, k) \cup {p[k].take}
  /\ p[Len(p)].holds = {}

Rank == [else |-> 1, tmpl |-> 2, impl |-> 3, obj |-> 4, dal |-> 5, child |-> 6, actn |-> 7]

\* mutexes are taken in ascending rank
Ordered(p) ==
  \A k \in 1 .. Len(p) : p[k].take # NoLock =>
    \A m \in Before(p, k) : Rank[m] < Rank[p[k].take]

\* executed while the mutexes in held are held, p uses d under its mutexes only
GuardedBy(d, held, p) ==
  \A k \in 1 .. Len(p) :
    /\ d \in p[k].writes => Guards[d] \subseteq p[k].holds \cup held
    /\ d \in p[k].reads => Guards[d] \cap (p[k].holds \cup held) # {}

-----------------------------------------------------------------------------
VARIABLES path,   \* path[t]: what t executes, NoPath outside of any call
          at,     \* at[t]: the region of path[t] that t is in, 0 before the first
          owner,  \* owner[m]: the thread that holds mutex m, or Nobody
          calls   \* calls[t]: how many calls t made

vars == <<path, at, owner, calls>>

Init == /\ path = [t \in Threads |-> NoPath]
        /\ at = [t \in Threads |-> 0]
        /\ owner = [m \in Locks |-> Nobody]
        /\ calls = [t \in Threads |-> 0]

Busy(t) == path[t] # NoPath

\* t is in a call and has a region ahead
Continues(t) == Busy(t) /\ at[t] < Len(path[t])

NextRegion(t) == path[t][at[t] + 1]

Call(t) == /\ ~Busy(t)
           /\ calls[t] < MaxCalls
           /\ \E p \in Paths : path' = [path EXCEPT ![t] = p]
           /\ at' = [at EXCEPT ![t] = 0]
           /\ calls' = [calls EXCEPT ![t] = @ + 1]
           /\ UNCHANGED owner

\* std::lock_guard blocks until the mutex is free, whoever owns it
Lock(t) == /\ Continues(t)
           /\ NextRegion(t).take # NoLock
           /\ owner[NextRegion(t).take] = Nobody
           /\ owner' = [owner EXCEPT ![NextRegion(t).take] = t]
           /\ at' = [at EXCEPT ![t] = @ + 1]
           /\ UNCHANGED <<path, calls>>

\* t goes on to code outside some of the scopes it was in
Proceed(t) == /\ Continues(t)
              /\ NextRegion(t).take = NoLock
              /\ owner' = [m \in Locks |->
                             IF owner[m] = t /\ m \notin NextRegion(t).holds
                             THEN Nobody ELSE owner[m]]
              /\ at' = [at EXCEPT ![t] = @ + 1]
              /\ UNCHANGED <<path, calls>>

Return(t) == /\ Busy(t)
             /\ at[t] = Len(path[t])
             /\ path' = [path EXCEPT ![t] = NoPath]
             /\ at' = [at EXCEPT ![t] = 0]
             /\ UNCHANGED <<owner, calls>>

Next == \E t \in Threads : Call(t) \/ Lock(t) \/ Proceed(t) \/ Return(t)

Spec == Init /\ [][Next]_vars

\* A thread inside a call is scheduled whenever it is not blocked; which
\* waiter gets a released mutex is not fair, and calls need not be made.
FairSpec == Spec /\ \A t \in Threads : WF_vars(Lock(t) \/ Proceed(t) \/ Return(t))

-----------------------------------------------------------------------------
TypeOK == /\ path \in [Threads -> Paths \cup {NoPath}]
          /\ at \in [Threads -> Nat]
          /\ owner \in [Locks -> Threads \cup {Nobody}]
          /\ calls \in [Threads -> 0 .. MaxCalls]
          /\ \A t \in Threads : at[t] <= Len(path[t])

\* the mutexes held by the scopes t is in
InScope(t) == IF at[t] = 0 THEN {} ELSE path[t][at[t]].holds

\* a mutex is owned by t exactly while t is in the scope of a lock_guard on it
OwnersAreInScope ==
  \A m \in Locks, t \in Threads : owner[m] = t <=> m \in InScope(t)

\* t waits for a mutex that some thread, perhaps t itself, owns
Blocked(t) == /\ Continues(t)
              /\ NextRegion(t).take # NoLock
              /\ owner[NextRegion(t).take] # Nobody

\* The comments of unload, commit, abort, prefetch_all_data, rename_object and
\* system_cb say "always lock template objects mutex first", and system_cb
\* explains that no mutex a user callback needs may be held while it runs: no
\* set of threads may ever wait for each other.
NoCircularWait ==
  \A S \in (SUBSET Threads) \ {{}} :
    ~ \A t \in S : Blocked(t) /\ owner[NextRegion(t).take] \in S

\* the data t reads and writes in the region it is in
Reading(t) == IF at[t] = 0 THEN {} ELSE path[t][at[t]].reads
Writing(t) == IF at[t] = 0 THEN {} ELSE path[t][at[t]].writes

\* t changes d while u uses it
Race(d, t, u) == t # u /\ d \in Writing(t) /\ d \in Reading(u) \cup Writing(u)

RaceFree(d) == \A t, u \in Threads : ~ Race(d, t, u)

\* "m_impl_mutex: mutex used to access implementation objects" (Configuration.hpp):
\* no thread touches the implementation cache while another changes it.
ImplObjectsRaceFree == RaceFree("implObjects")

\* t is in a method that uses d without the mutexes the others use it under
Lax(d, t) == \E o \in Unguarded[d] : path[t] \in PathsOf[o]

\* "m_impl_mutex: mutex used to access implementation objects", and so on for the others: the
\* mutexes agree among all methods but those listed for a piece of data, and where two
\* threads meet on one that either changes, one of them is in such a method.  The class
\* descriptions and the actions are never met; the template caches only by get_algo_objects
\* and the profiler; m_callbacks by the test of system_cb and find_callback; the plug-in, its
\* cache and the converters wherever a value is read, which takes none of their mutexes.
OnlyKnownRaces ==
  \A d \in Data, t, u \in Threads : Race(d, t, u) => Lax(d, t) \/ Lax(d, u)

\* t is between two uses of d in its call, or at one of them
Amid(t, d) ==
  \E j \in 1 .. at[t], k \in at[t] .. Len(path[t]) :
    /\ j < k
    /\ d \in path[t][j].reads \cup path[t][j].writes
    /\ d \in path[t][k].reads \cup path[t][k].writes

\* What a method finds it acts on: between the first and the last use of a piece of data in
\* a call, as the look-up and the insertion of a template object, or of a class description,
\* no other thread changes it, unless either uses it without its mutexes or the method is
\* listed as coming back to it.
UsedInOneGo ==
  \A d \in Data, t, u \in Threads :
    t # u /\ d \in Writing(u) /\ Amid(t, d) =>
      Lax(d, t) \/ Lax(d, u) \/ \E o \in Resuming[d] : path[t] \in PathsOf[o]

\* Every call on the facade comes back: no thread is blocked forever.
EveryCallReturns == \A t \in Threads : Busy(t) ~> ~Busy(t)
=============================================================================
