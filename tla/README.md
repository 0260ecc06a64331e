# TLA+ model of the config package

`config` gives C++ programs access to a configuration database. A program holds
a `Configuration`; the database technology is behind it in a plug-in (a class
derived from `ConfigurationImpl`), and generated classes (DAL, derived from
`DalObject`) are in front of it. The package itself is the part in the middle:
it caches what the plug-in reads, keeps the caches in step with a database that
others change, dispatches notifications to user callbacks, and protects all of
this with four mutexes. That part is what is modelled here. Plug-ins, generated
classes and user code are not in the repository; they are modelled from what the
code requires of them, and marked external in `PROJECT.json`.

Paths below are relative to the root of the repository.

## 1. Inventory

| Component | State | Operations | Interacts with |
|---|---|---|---|
| Facade locking (`src/Configuration.cpp`, `include/config/Configuration.hpp`) | `m_impl_mutex`, `m_tmpl_mutex`, `m_actn_mutex`, `m_else_mutex`; `m_mutex` of each template and implementation object | every public method | all of the components below share them |
| Session life cycle (`load`, `unload`, `create`, `add_include`, `remove_include`, `commit`, `abort`) | `m_impl`, the plug-in's session, `p_superclasses`, `p_subclasses` | the methods named | clears caches, callbacks, converters, descriptions; notifies actions |
| Implementation object cache (`src/ConfigurationImpl.cpp`, `ConfigObjectImpl.hpp`) | `m_impl_objects`, `m_tangled_objects`; per object `m_state`, `m_id`, `m_class_name` | `get_impl_object`, `insert_object`, `rename_impl_object`, `is_deleted`, `clean` | filled by the plug-in, updated by `update_cache` |
| Template object cache (`Configuration::Cache<T>`, `DalObject.hpp`) | `m_cache_map`, `m_cache`, `m_t_cache`; per object `p_obj`, `p_UID`, `p_was_read` | `get`, `find`, `check_init`, `unread`, `_set_object`, `_rename_object` | points to implementation objects |
| Subscription and notification | `m_callbacks`, `m_pre_callbacks`, the plug-in's subscription | `subscribe`, `unsubscribe`, `reset_subscription`, `system_pre_cb`, `system_cb` | called back by a thread of the plug-in, calls user code |
| Subscription criteria, change lists (`SubscriptionCriteria.cpp`, `Change.hpp`) | sets of classes and of objects by class; lists of ids by class | `add`, `remove`, `ConfigurationChange::add` | read by `reset_subscription` and `system_cb` |
| Class hierarchy, DAL factory | `p_superclasses`, `p_subclasses`; the factory's class names and functions | `set_subclasses`, `try_cast`, `functions`, `class4algo` | read by both caches and by notification |
| Class descriptions | `p_direct_classes_desc_cache`, `p_all_classes_desc_cache` | `get_class_info`, `export_schema` | cleared by `unload` only |
| Actions | `m_actions` | `add_action`, `remove_action`, `load`, `unload`, `notify`, `update` | called with mutexes held |
| Attribute converters | `m_convert_map` | `register_converter`, `convert` | applied after each read of an attribute |
| Schema and data export | the caller's property tree, while it is filled | `export_schema`, `export_data` | read descriptions and objects through the facade, while others change them |
| Object access (`ConfigObject`) | what it refers to in the plug-in | the `set_` methods, `rename`, `move`, `get` | tells the actions of what is set and renamed, applies the converters |
| Printing, versions, Python binding, applications | none of their own | | use the facade |

What is hard about this code, and makes each component correct:

* **Locking.** About forty methods nest the four mutexes, some methods take a
  mutex only on one path, and user callbacks and actions run with mutexes held.
  Correct: no circular wait, every call returns, and shared data is only touched
  under its mutex, but for exceptions that can be named.
* **Notification.** Users subscribe and unsubscribe while a thread of the
  plug-in reports changes; the plug-in may refuse; `system_cb` tests, unlocks
  and locks again. Correct: what the plug-in is asked for covers what is wanted,
  a wanted change is delivered once, to registered callbacks only, and not
  before the caches were updated.
* **Caches.** Users keep pointers to cached objects through deletions,
  re-creations, renames, `abort` and changes by others. Correct: a cached object
  is found under its own id by everything that updates it, knows whether its
  object exists, and never answers with an old value once the change is reported.
* **Life cycle.** Steps of `load` and `unload` may fail half-way. Correct: nothing
  is deleted twice or forgotten whatever the plug-in refuses, the class relations
  are those of the open files, registered callbacks are served, actions never keep
  data of a database that is gone.
* **Export and conversion.** `export_data` reads objects one by one while others
  create, rename, move and destroy them, and may throw half-way; converters are
  registered while values are converted. Correct: what nobody touched is exported
  once and as it is, and values see the converters in order.

`PROJECT.json` lists the hazards one by one, at the line where they bite, with
the properties that cover them.

## 2. Modules

| Module | What it is |
|---|---|
| `FacadeLocks` | the locking of every method of `Configuration` |
| `FacadeLocksProofs` | the theorems about it |
| `MCFacadeLocks` | its instances for TLC |
| `Notification`, `MCNotification` | subscriptions, the notification thread, delivery |
| `NotificationProofs` | the theorems about it |
| `ObjectCache`, `MCObjectCache` | implementation and template objects, and the database they stand for |
| `ObjectCacheProofs` | the theorems about it |
| `ObjectViews` | what the caches promise to who holds an object or a DAL pointer |
| `ObjectCacheViews`, `MCObjectCacheViews` | `ObjectCache` with what its users see; implements `ObjectViews` |
| `ObjectViewsProofs` | the proof that it does |
| `ChangeFeed` | what a subscription promises; `Notification` implements it |
| `ClassHierarchy` | the class relations, casts, and the C++ class made for an object |
| `Session`, `MCSession` | the life of a configuration, over `ClassHierarchy` |
| `SessionProofs` | the theorems about it |
| `SchemaExport` | what descriptions and values become in a property tree and in Python |
| `SchemaExportProofs` | the theorems about it |
| `ObjectAccess`, `MCObjectAccess` | objects changed by users while one thread exports, over `SchemaExport` |
| `ObjectAccessProofs` | the theorems about it |

### FacadeLocks

A method is the set of its *paths*. A path is a sequence of *regions* of code;
a region says which mutex is taken on entry, which are held in it, and which
shared data it reads and writes. Paths are built as the code is: `Do(reads,
writes)` is code without locking, `Within(m, p)` is `{ std::lock_guard l(m); p }`,
and `\o` is sequencing. Each definition of the section *paths of the methods* has
the name of its method. A `lock_guard` unlocks on every exit, so an error path is
an exit from the nested scopes and needs no path of its own; where a method
takes different mutexes depending on a condition (a hit or a miss of
`get<T>(id)`, the early return of `system_cb`) it has several paths.

Threads call any method in `Operations`, and execute region by region: `Lock`
waits until the mutex is free, `Proceed` enters a region that takes none and
unlocks what is left behind, `Return` ends the call. Mutexes are not recursive:
a thread that takes a mutex it owns waits for itself.

User callbacks run inside `system_cb` and may leave the facade alone, call
`get()` or make template objects, which is what the comment at
`src/Configuration.cpp:1501` allows them.

Of the mutexes that objects have, the model has three: that of one implementation
object (`"obj"`) and of two template objects (`"dal"`, and `"child"` for one that is made
or locked with the mutex of the first held), which all threads use. This is the worst case
for blocking. Children are initialised inside each other with `m_tmpl_mutex` held, so
one order of the two template objects is enough; `_set_object` takes the object set and then
the one it is set to, in either order. What an object's own mutex protects inside of it
(`m_state`, `p_was_read`, ids) is not data of the model. Left out are mutexes that code
takes without calling anything of the facade: `DalFactory::m_class_mutex`, those a plug-in
has of its own, and the lock `ConfigObjectImpl` takes to compare or print an id.

The data are eight: what the plug-in itself keeps (`m_impl`: schema, objects, its
subscription), the two kinds of objects with their caches, the class relations
(`p_superclasses`, `p_subclasses`), the class descriptions, the actions, the callbacks
and the converters. `Guards` says which mutexes the code holds for each: it is written
with all of them and read with at least one (the class relations have two, since some
readers hold `m_tmpl_mutex` and others `m_impl_mutex`). No comment says so for most of
them; that it is so was read off the methods. `Unguarded` lists, for each of the
data, the methods that do otherwise, and `OnlyKnownRaces` says that every meeting of two
threads on something one of them changes involves a listed method. The lists are as
short as they can be: with any one name taken out, TLC refutes the property (with
`Operations` all of `DOMAIN PathsOf`, two threads and one call each), except for
`get_attribute`, all of which is also a path of `get_rel_objects`, and, for the plug-in,
`callback_subscribes`, which waits for itself before it gets there. They are:

* for the plug-in and its object cache, every method that reads a value or initialises a
  template object (`ReadingObjects`): `ConfigObject::get` and `rel` go to the plug-in with
  no mutex, which makes the objects referenced and inserts them into `m_impl_objects`
  (`include/config/ConfigObject.hpp:219`, `:239`, `include/config/Configuration.hpp:1778`,
  `:1800`, `:1826`), a template object that is made is initialised that way (`:1868`),
  and a miss of `get<T>(id)` asks the plug-in without `m_impl_mutex` (`:1921`, run
  `LocksGetById`); a callback may do all this;
* for the plug-in also the `set_` methods, which change its database with no mutex
  (`include/config/ConfigObject.hpp:290`), `subscribe` and `unsubscribe`, which tell it of
  the new subscription with `m_else_mutex` only (`src/Configuration.cpp:1268`, `:1306`),
  and `loaded` (`:288`);
* for the converters the same reading of values, which takes no mutex for them;
* for template objects `get_algo_objects`, which makes them with no mutex
  (`src/Configuration.cpp:1889`), and `print_profiling_info`, which walks the template
  caches with no mutex for them (`:186`);
* for the class relations `try_cast`, the exports, `get_algo_objects`, and the reading of
  values and relationships, which read them with no mutex, and `load` and `add_include`
  (with `create` of a database), which replace them with `m_impl_mutex` alone while `cast`
  and `referenced_by` read them with `m_tmpl_mutex`;
* for the callbacks `find_callback` and the test of `system_cb`.

Class descriptions and actions need no list. A plug-in may have a mutex of its own, or
take `get_conf_impl_mutex()`, for what the facade leaves to it; the lists say where it must.

`UsedInOneGo` goes from one region to a whole call: from the first use of a piece of data
to the last, as from the look-up of an id in a template cache to the insertion of its
object, or of a class description, no other thread changes it (`Amid`). Besides the methods
of `Unguarded` it excepts only `system_cb`, whose two halves give the mutexes of template
objects and class relations up in between (`Resuming`). A method that neither list names works on
each of the data in one step, as far as other such methods can see, which is how
`ObjectCache` models it; that the uses of *different* data by one call are one step
together is not claimed, nor is anything about methods in the lists: that reading a value
takes no mutex is left to plug-ins in `ObjectCache`.

`callback_subscribes` and `action_calls` are user code that calls back what it may not:
a callback that subscribes, an action that gets an object or removes itself.

### Notification

Each caller has one callback. `Subscribe(t)` takes `m_else_mutex` and inserts
the callback with its criteria; `SubscribeDone` and `SubscribeFailed` are the
plug-in's answer to `reset_subscription` (`CoverageOf` computes what it is asked
for) and release the mutex. `Unsubscribe(t)` removes one's own callback, or all
of them, as `unload` does. `Commit(ch)` is a change of the database; the plug-in
records it if it is subscribed to it at that time. The notification thread goes
through `PreNotify` (`system_pre_cb`), `UpdateCache`, `Check` (the test
`m_callbacks.empty()` made without the mutex), `LockElse`, one `Deliver(t)` per
callback, and `Leave`. `Read(o)` caches an object.

`told`, `owed` and `refused` are history variables: what each callback was told,
what it still has to be told, and whether the plug-in refused the subscription
that remains after callbacks were removed.

Assumed of the plug-in: a refused subscription leaves the previous one; changes
are reported in one thread, at a time; the class named by a change is the class
of the object. The user's pre-notification callbacks are represented by their
need of `m_else_mutex` only; `Session` has them as callbacks.

Criteria are what `AddClass`, `AddObject`, `RemoveClass` and `RemoveObject` make of an
empty one, as users make them: the instances have one that everything was removed
from again, which is one on any change (`SubscriptionCriteria.cpp:22`).

`ChangeFeed` says what the documentation of `subscribe` and `unsubscribe` promises,
without mutexes, plug-ins and threads: subscribers join, are confirmed or refused, and
part; changes are published; a confirmed subscriber is told of some of the changes it
was not told of, at any time; a change is due to each confirmed subscriber that wants
it, until it is told or parts. `ImplementsFeed` is `ChangeFeed!Spec` under the mapping
that makes the callbacks the registered subscribers, those whose `subscribe` has
returned the confirmed ones, the log of the database the feed, and `owed` what is due.

### ObjectCache

One step per method of the facade (the mutexes that make it one step are the
subject of `FacadeLocks`). `db` is the database as the plug-in sees it, `pending`
the changes others made to it that the plug-in has not yet reported.
Implementation objects have a class and id (`objOf`), a `state` and perhaps a
fetched `value`; `implAt` is `m_impl_objects`, and an object that is made and not
in it is tangled. Template objects point to implementation objects (`implOf`) and
may have read their attributes (`tval`; None is `p_was_read = false`); `tmplAt` is
`m_cache_map`, by template class and id. One attribute stands for all.

`set` is `_set_object`: `DalObject::clear` clears the implementation object, about which its
comment says that the object "will be completely re-read" when accessed next time
(`include/config/DalObject.hpp:66`), and leaves `p_was_read` as it is, so what a template
has read is what it goes on to show, until `unread()` or a report. The run `CacheSet` shows
it. The templates this may be said of are kept in `stale`, a history variable: they had read
their object when this session set it, and have not read it again. `TemplatesFresh` is
about the others.

`update_cache` does to all objects found under a class, its superclasses and
subclasses what `update_impl_objects` and `set_cache_unread` do: removed, then
created, then modified. `destroy_obj` stands for `remove_include` too: the plug-in
removes objects and calls `update_cache` itself. `abort` leaves any consistent
database behind, all implementation objects Unknown and all templates unread.

The caches do not defend themselves against everything users may do. What the
passing run has the users refrain from is named in `Careless`, and each was seen
to break a property when it is allowed:

* `"rename over"`: renaming an object to an id whose deleted object is still in
  the implementation cache (run `CacheRename`);
* `"noted"`: renaming an object, or creating one, while a change by others of
  that id (for a creation, its removal) is still to be reported: the report is
  then applied to the wrong object (`StateFollows` fails);
* `"take over"`: creating an object under an id that the cache, or a change still to be
  reported, remembers for another class of its family (`CanTake`). `insert_object` then
  finds the implementation object of a subclass and uses it again with its old class
  (`include/config/ConfigurationImpl.hpp:236`), and `Cache<T>::get` gives a cached template
  a new implementation object without forgetting what it read
  (`include/config/Configuration.hpp:1871`): `HeldIsCached`, `StateFollows` and
  `TemplatesFresh` fail in four or five steps.

Generated objects with an id of their own (`m_t_cache`) are left out.

`ObjectViews` is what all this is for, said without caches, states and flags. A *view* is
a `ConfigObject` or a DAL pointer that a user holds. It never turns to another object, a
rename carries it along, and it shows a value its object has, or had since the plug-in last
reported its changes; a view of a destroyed object shows None, which is the exception. What
this session creates, destroys or gives up is seen in all views of it at once
(`Current`), and what it sets as well, except that a DAL pointer may go on to show what it
showed `before` the object was set, until the object is reported, destroyed, given up or
read again. `ObjectCacheViews` adds to `ObjectCache` the values each object had since its
last report (`since`, a history variable) and what a view would answer now: `ShownByImpl`
and `ShownByTmpl` follow `check()`, which resets an Unknown object first. Its property
`ImplementsViews` is the specification of `ObjectViews` under this mapping. It says more
than the freshness invariants do, which speak only of objects with nothing to be reported:
between a change by others and its report a view may lag behind, but it never shows a
value from before the previous report, nor one of another object.

### Session and ClassHierarchy

One step per call. The plug-in may refuse any step of a call by throwing, and what the
call has done by then stays done: the disjuncts of `Construct`, `Load`, `Unload`,
`Destroy` and `Changed` are the places where it may. `open` is what the plug-in has
open and `saved` what `abort` returns to; `superclasses` and `subclasses` are the
members of the facade, read again by `ReadHierarchy`, and `torn` is a history variable
that says a refusal has left them behind the plug-in. What the facade allocates is
tracked in `live`, by cells named for what they are and what they are for; `Held` is
what its containers point to; `fault` records a cell deleted twice or overwritten.
`made` is the template objects by class of the object and the C++ class that made them:
`Creators` is `DalFactory::functions`, which takes any registered superclass of a class
without a C++ class, and `ClassForAlgo` is `class4algo`. `view` is what an action keeps
of the database.

`ClassHierarchy` has the four operators as pure definitions; `Subclasses` is
`set_subclasses`, `TryCast` is `try_cast`.

After an exception in the constructor, or one the destructor swallows, the facade is
`abandoned` and nothing more is asked of it: the code leaks the plug-in there (and, for
a facade without a plug-in, the converters). The calls assume what the code does not
check: there is a plug-in when objects are read, and a converter is registered once
(twice is deleted twice, `src/Configuration.cpp:396`). After `unload` the old
`p_subclasses` stay; `HierarchyFollows` asks for the inverse while a file is open.

### ObjectAccess and SchemaExport

No mutex spans an export, so its steps are finer than calls: `export_data` fetches the
objects of a class (`FetchClass`), filters them one by one (`FilterObject`) and inserts each
into a sorted set, which is a descent with a comparison per step (`Descend`, `Insert`), and
reads one after the other (`ReadList`, one `Convert` per value and converter,
`WriteObject`). Between any two steps others may set values, rename, move, create or destroy
objects and register converters. A step that meets a destroyed object throws (`Fail`): the
tree of the caller then has the classes that were done before, as the objects of a class
are put into it in one go.

The comparison is of the ids the objects have at that time (`Precedes`,
`src/Configuration.cpp:1019`), and `rename_object` changes the id in place. With 4 and 2
sorted, a rename of 4 to 1 lets a 3 go either side of it, and an insertion that ends after
an object whose id has become greater takes the two for equal and drops the new one, though
nobody touched it. So what can be promised, and is checked, is about classes without an
object renamed between its first comparison and the end of the sorting (`disturbed`, a
history variable); without the exception TLC refutes `ExportComplete` and `ExportSorted`.
The shape of the tree inside `std::set` is left open: a descent compares with any object
still possible.

Each object has one list attribute and one relationship. `touched` are the objects changed
since the export began, and the properties of the export are about the others. `MaxId` is
the number of ids, which are numbers because they are compared; `MaxChanges` bounds the
changes. The plug-in is taken to refuse the destruction of an object that is referred to and
the renaming to an id in use. The calls that set a value or rename tell the actions
afterwards (`src/Configuration.cpp:72`; `create`, `destroy_obj` and `move` do not); what an
action does then is the user's, and not modelled.

`SchemaExport` has the records `attribute_t`, `relationship_t`, `class_t` and what
`export_schema`, `add_data` and the Python functions `attributes` and `relations` make of
them. A node of a tree is the set of its keys and values. `Items` and `IsMany` are used
by `ObjectAccess`; that what is left out of a node (empty texts, flags that are not set)
can still be told is proved, for whole classes too (`ClassTold`).

## 3. Runs

| Run | Instance | Shows |
|---|---|---|
| `LocksOrdered` | 2 threads, 1 call each, `OrderedOperations` | no circular wait, two threads meet on data that one changes only where a method is listed for it, nobody changes data between two uses of one call but for those listed, every call returns |
| `LocksDestroy` (violation) | `destroy_obj`, `rename_object` | opposite lock orders deadlock |
| `LocksUnload` (violation) | `unload`, `system_cb` | `unload` and a user callback deadlock |
| `LocksGetById` (violation) | `get_object`, `get_by_id` | a miss of `get<T>(id)` races with `get()` |
| `NotifySafety` | 2 callers, 2 calls each, 2 changes, 2 classes, criteria that was emptied, on a class, on an object of it; the plug-in may refuse | coverage, nothing forgotten, told once and only while registered, caches first; implements `ChangeFeed` |
| `NotifyLive` | 2 callers, 2 calls each, 1 change, criteria on a class and on an object of another; the plug-in may refuse | a wanted change is told, or the callback removed |
| `NotifySole` (violation) | 2 callers, 2 calls each, 1 change | the last callback is told of changes outside its criteria |
| `Cache` | a class and its subclass, 2 ids, 2 values, 2 implementation objects, 1 template object, up to 2 changes in a report, careful users | held objects are cached, states and values follow the database, the caches implement `ObjectViews`, a DAL object throws after its object was destroyed |
| `CacheSet` (violation) | the same, 2 template objects | a DAL object that was read shows the old value after it was set |
| `CacheRename` (violation) | the same, `"rename over"` | a DAL object stays valid after its object was destroyed |
| `Session` | 2 files, a chain of 3 classes of which 2 are registered, 2 algorithms, one callback of each kind, one converter, one action; every step may be refused | class relations, casts, cells, callbacks and actions over the whole life |
| `Access` | 3 objects of a class and one of its subclass, of which one may not exist yet, 5 ids of which the export wants 4, 2 files of which it wants one, lists with no or two values, 2 converters, 2 changes | converters in order, the export complete and sorted, also when it fails, but for classes disturbed while they were sorted |

Why the bounds are enough to be of interest. Two threads suffice for any two
methods to meet, and a circular wait of more than two threads needs a cycle of
the lock order that two of the methods already break; beyond that the theorems
hold for any number. One call each is enough, as a call leaves nothing behind but what
it changed in the data, of which the model has only who uses it. Two callers give a callback
that leaves, one that stays, and one that comes back with other criteria (two calls); two
changes give two changes in one report and one during a report. Two changes in a report give
a removal and a creation of one object; two ids and two implementation objects give renames
with a re-creation of the old id. One template object is enough for a view to lag
behind in every way: it may be of either class, and of an object that was renamed, destroyed,
set or made again; more of everything is in the theorems. In `Session`, a chain of three
classes over two files makes relations that lose a class in the middle of the life of
objects, and `MaxCached`, 2, bounds descriptions and template objects together: two of
one kind, or one of each, are what a call can treat differently, and nothing else is
bounded. In `Access`, two changes are one that disturbs the export and one that makes
the first matter (a rename and a creation, a destruction and a creation, two renames), three
objects of a class are what an insertion in the wrong place needs, and the subclass
has the first id, so that the orders by class and by id differ. `Symmetry` permutes
callers, threads, objects and converters only where no property distinguishes them.
Deadlock checking is off where callers and changes run out; being stuck is what
`NoCircularWait`, `EveryCallReturns` and `WantedIsTold` are about.

Seven methods are left out of `OrderedOperations`. `destroy_obj`, `remove_include` and
`unload` break the lock order the comments state, as `LocksDestroy` and `LocksUnload`
show. `DalObject::cast` (`cast_object`) takes `m_tmpl_mutex` with the mutex of the object
held, against `rename_object` and reports, and `_set_object` (`set_object`) locks the
object it is set to: with either one added, `NoCircularWait` fails (for `set_object`
with one thread and an object that refers to itself). The other two are user code that
calls back with a mutex held (`callback_subscribes`, `action_calls`): such a thread waits for
itself, whatever the others do. So the passing run says nothing of the deadlocks these
seven have, and nothing of what they do to shared data; `RacesKnown` (section 4) is about all
methods.

### Fairness

`FacadeLocks!FairSpec` has weak fairness on the next step of each thread: a
thread that is in a call and not blocked is scheduled by the operating system.
Which waiter gets a mutex is left open, so a thread could be overtaken for ever
by others that call again and again; the bound `MaxCalls` excludes this, and the
result is about mutexes kept or waited for in a circle, not about starvation.
`Notification!FairSpec` has weak fairness on the plug-in's answer to a caller and
on the notification thread as a whole. Nothing makes a user call anything, and
nothing makes the database change.

## 4. Proofs

`FacadeLocksProofs` proves, for any set of threads, any choice of methods and any
number of calls:

* `DeadlockFreedom`: with `Operations \subseteq OrderedOperations`,
  `Spec => []NoCircularWait`;
* `RacesKnown`: `Spec => []OnlyKnownRaces`, for all methods and all eight data;
* `DataGuarded`: data for which `Operations` has no listed method is race free;
* `OneGo`: `Spec => []UsedInOneGo`, for all methods and all eight data.

They rest on `TypeCorrect` and `Ownership`: the variables keep their types, and a mutex is
owned exactly in the scope of a `lock_guard` on it, which is what the language gives.

The argument is compositional. What is needed of a path is that its scopes nest
(`Scoped`), that it takes mutexes in ascending rank (`Ordered`), and that it uses
a piece of data under its mutexes (`GuardedBy`); lemmas show that `Do`, `Within` and `\o`
preserve each, and one lemma per property applies them to the paths of all
methods. `Scoped` makes ownership inductive: the invariant is `TypeOK` together
with `OwnersAreInScope`, and it needs to be both ways (owned iff in scope) since
`Lock` relies on a free mutex being in nobody's scope, and `Proceed` unlocks by
the region it enters. Deadlock freedom follows from ownership without further
induction: in a set of threads that wait for each other, one waits for a mutex of
the highest rank; its owner is in the set, waits, by `Ordered`, for one of higher
rank still. `Ordered` of a path executed with mutexes held needs that all it takes rank above
these, which the rules carry along (`OrderedAbove`). Race freedom follows from ownership
and `GuardedBy`: two threads in
regions that use the same data under its mutexes would both own one of them: the one
that writes owns all, the other at least one (`GuardedNoRace`). `RacesKnown` assumes
nothing of what the threads call. It needs of each method only what it does with the data
it is not listed for, which `GuardedMethods` gives; that most methods do nothing with most
data is a property of its own (`Uses`), which makes these lemmas short.

`OneGo` needs one more property of a path: it holds all mutexes of a piece of data from its
first use of it to the last (`Steady`). For a scope that follows from its body; for a
sequence it does when the mutexes are held around it, or when only one of its parts uses
the data (`Unbroken` carries the mutexes held around along), and each method is taken apart
by these rules once more (`UnbrokenThroughout`, `UnbrokenReading`, `UnbrokenOtherwise`). A
thread in between then owns a mutex of the data (`AmidOwnsGuard`), which another that writes it
guarded would own as well.

Assumptions: `ThreadsAssumption` (the mark for a free mutex is not a thread),
`MaxCallsAssumption`, `OperationsAssumption`; TLC evaluates them in each run.

`NotificationProofs` proves, for any callers, criteria and classes, and any number of
calls and changes, whether or not the plug-in may refuse subscriptions:

* `MutexAlwaysHeld`, `RegisteredTold`: `Spec => []MutexHeld` and
  `Spec => OnlyRegisteredTold`;
* `ActiveAlwaysCovered`, `PluginAlwaysCoversExactly`: `Spec` implies
  `[]ActiveCovered` and `[]PluginCoversExactly`;
* `NothingEverForgotten`: `Spec => []NothingForgotten`;
* `CacheAlwaysFollows`: `Spec => []CacheFollowsChanges`;
* `NeverToldTwice`: `Spec => []ToldOnce`, if no criteria names a class and an object
  of it;
* `FeedImplemented`: `Spec => ImplementsFeed`, every step is a step of `ChangeFeed` or
  changes nothing a user sees.

`CoverageExact` is the lemma about `reset_subscription`: the joint criteria of some
callbacks wants a change iff one of them does, although objects are left out of it.
`PluginCoversExactly` says nothing while a call is under way, so the invariant is
`PluginCovers`: as long as no removal is unanswered, the plug-in is subscribed to
what the callbacks whose `subscribe` returned want; a roll back leaves it as it was
because the callback was not among them. `NothingForgotten` needs that what is owed
is owed to a registered callback that wants it (`OwedWanted`, on which the early
return of `system_cb` relies) and that nothing is left of a report when the thread
is idle. `ToldOnce` needs `ToldIsDone`: what was told is neither recorded nor, for a
callback still to come, being reported.

Assumptions: `CriteriaAssumption`, `BoundsAssumption`, `PluginFailsAssumption` and
`MarksAssumption` (the marks are not values), evaluated by TLC in each run.

`ObjectCacheProofs` proves, for any classes with any superclass relation, any ids and
values, any number of objects and of changes in a report:

* `TypeCorrect`: `Spec => []TypeOK`, whatever the users do;
* `CachesHold`: `Spec => []HeldIsCached`;
* `StatesFollow`, `ObjectsAlwaysFresh`, `TemplatesAlwaysFresh`: `Spec` implies
  `[]StateFollows`, `[]ObjectsFresh` and `[]TemplatesFresh`;
* `DestroyedAlwaysThrow`: `Spec => DestroyedThrows`, a template object throws after this
  session destroyed its object, as long as it is not created again;

`TemplatesFresh` for templates that are not `stale`, and the last five for users that take all precautions (`Careful`, which is
`Careless = {}`). The inductive invariant is in two parts. `Shape` is the types,
`HeldIsCached`, `TemplateOnce` (a template is in the cache once) and `Exclusive`
(no two classes of a family have an object of the same id in the database, the
cache or an unreported change). `Exclusive` is what the code leans on without
saying so: `_rename_object` moves every template it finds under the old id in the
caches of the superclasses, `Cache<T>::get` gives a cached template whatever
implementation object it was called with, and `update_cache` looks up the id of a
change in the caches of all relatives of its class; each is right only because
one object of the family has that id (lemmas `RenameAt`, `CacheGetAt`,
`KindsOfOwn`). `Follows` is the two freshness invariants with what a report still
has to say: `RemovedNoted` (an object that is there, and has a removal to be
reported, has a creation reported with it), `ValidKnown` (the removal of an object
that is taken for valid is to be reported) and `DeletedNoted` (a change of one
taken for deleted is). `StateFollows` follows from these three and is not
inductive without them. The order removed, created, modified of
`update_impl_objects` is used in one lemma, `UpdateFollows`. The superclass
relation need not be transitive or free of cycles for any of this.

Assumptions: `SupersAssumption`, `NoneAssumption` (the mark for no object is none),
`MaxNotedAssumption` and `CarelessAssumption`, evaluated by TLC in each run.

`ObjectViewsProofs` proves `ViewsImplemented`: for the same users, and any classes, ids,
values and numbers of objects, `ViewsSpec => ImplementsViews`. The invariant adds two
parts to that of `ObjectCacheProofs`. `Sourced` says that whatever is in the caches, a
fetched value, what a template has read, or that an object is deleted, was so at some time
since the last report about the object; `ReadKnown` that a template which still has the
attributes of an object that is gone is going to lose them with the report of a removal.
What a `stale` template shows is what it showed before, which is what `ObjectViews` allows
it (`StaleStep`, `ViewsForget`). For an object whose changes are all reported, `Sourced` is
the freshness proved before, and only the others need a step by step argument: the lemmas of `Sources` say, for each
action, that what a cache has afterwards comes from the database or was there before. From the invariant
follow the two halves of the promise: `ViewsHonest`, no view shows anything else, and
`ViewsCurrent`, what this session did is shown by all views; `ViewsKept` and `ViewsSame`
say that views stay with their objects. `PromiseStep` then goes through the actions and
names the step of `ObjectViews` each is. It assumes `ViewsAssumption`: implementation and
template objects are different things.

`SessionProofs` proves all seven properties of the run `Session`, for any files, classes,
superclasses, algorithms and registrations: `SessionTyped`, `HierarchyKept`,
`NothingLeaks`, `SubscriptionKept`, `ActionsTold`, `ObjectsCastable` and
`ReferencesLast`. `HierarchyFollows` is inductive with `Inverted` and with no file open
after an unload (`HierarchyInv`). `HeapOwned` needs that an abandoned facade is never used
again and that cells of different kinds are different (`HeapInv`); the lemmas `NewOwned`
and `DeleteOwned` say that allocating what is not held, or deleting what is, keeps the
two sets equal, and `UnloadFreesHeld` that what a refused unload deletes is what it takes
out of the containers. `MadeCastable` rests on `Truthful`: the relations, fresh or not,
never say more than the schema does, so objects made with old ones are castable too.
`ActionsForget` needs that an action which was removed keeps nothing (`ViewInv`).

`ObjectAccessProofs` proves all four properties of the run `Access`, for any objects,
classes, ids, values, converters and number of changes: `AccessTyped`,
`ConvertersInOrder`, `SortedById` and `ExportedOnce`. What is needed
besides types (`TypeInv`) is where an export is: `WorkInv` says that ids are unique, that
the queue has objects of the class at hand under ids they had, and that what is found,
in hand or queued is fitting for each phase; `OrderInv` that every value in the works went
through a first part of the converters; `OrderOfIds` that in a class which is not disturbed
the queue is sorted, and the place being searched is between objects of smaller and of
greater ids (`QueueSorted`, `PlaceFound`), so that nothing is taken for equal; `SortInv`
that the tree is by class and that what is queued comes after what is written; `CompleteInv`
that each object nobody touched is where it should be: not yet reached, in hand, queued, or
in the tree once with its data (`NotYet`, `InHand`, `Past`). `ExportComplete` for a failed
export follows since `Fail` cuts the tree back to the classes that were done.

`SchemaExportProofs` proves that exports say everything: two attributes, or two
relationships, with the same node in `export_schema` are the same
(`AttributeTold`, `RelationshipTold`), and so are two classes with all their lists
(`ClassTold`), the cardinality computed by the constructor of
`relationship_t` gives back its two flags (`CardinalityTold`), and what Python is told
determines a relationship, and an attribute but for its format (`PythonRelationTold`,
`PythonAttributeTold`).

Assumptions of `Session`: `ClassesAssumption`, `DalAssumption`, `BoundAssumption`,
`CallbacksAssumption`; of `ObjectAccess`: `ClassesAssumption`, `ListsAssumption`,
`ContentsAssumption` (ids are unique in the database an export begins with),
`BoundAssumption`, `NoneAssumption`, `MarkerAssumption`, `CardinalityAssumption`. TLC
evaluates them in the runs.

Only model-checked: liveness (`EveryCallReturns`, `WantedIsTold`), as the prover has
no fairness and no ENABLED.

## 5. Not modelled

* Plug-ins, generated DAL classes, user callbacks, converters and actions: not in the
  repository; each is represented by what the code requires of it or by the choices it
  leaves them (what a callback may call, what an action keeps, what a plug-in refuses).
* What actions do when they are told of a change of an object, and in which order two writers
  tell them.
* What class descriptions say once the schema was changed: they stay until `unload`.
* What a user still holds after `unload`: objects are deleted, and `Session` says
  only when. Exceptions thrown by user callbacks.
* Generated objects with an id of their own (`m_t_cache`).
* What the mutex of a single object protects: `p_was_read` and ids being read while they
  are written. What a race on a container does is not modelled either, only where there
  can be one.
* Converters registered more than once, and the reuse of a callback id, which is an
  address, after `unload`.
* Hazards seen in the code that no model reaches, besides those `PROJECT.json` lists:
  an exception of a pre-notification callback leaves a `noexcept` function
  (`src/Configuration.cpp:1652`); `check_init` tests `p_was_read` before it locks and not
  after (`include/config/DalObject.hpp:383`); `is_deleted` resets an Unknown object
  without its mutex (`include/config/ConfigObjectImpl.hpp:316`), and `ConfigObject::UID`
  reads an id without it (`include/config/ConfigObject.hpp:158`);
  `DalFactory::functions` reads `m_classes` without `m_class_mutex`
  (`src/Configuration.cpp:1980`); relationships are read without `m_impl_mutex`, so that a
  plug-in must take `get_conf_impl_mutex()` itself; values of `vector<bool>` are not
  converted (`src/ConfigurationImpl.cpp:496`); an empty list and a missing key look alike
  in an exported tree without an `empty_array_item`; printing with aggregated objects
  does not end for a cycle (`src/ConfigObject.cpp:270`); `config_get_obj` of the Python
  binding loses a `ConfigObject` when `get` throws (`src/python/config.cpp:153`);
  `config_dump` drops objects of different classes with one id
  (`apps/config_dump.cpp:298`).
* Printing, profiling, the classes for versions, the wrappers of the Python binding that
  copy and forward, and the command-line applications: no state, or formatting only.

Worth doing next: `m_t_cache` in `ObjectCache`, with `TemplatesFresh` for the members of a
family; `ConfigAction::notify` in `Notification`; the composition of `Session` with
`ObjectCache`.
