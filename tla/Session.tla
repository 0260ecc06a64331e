------------------------------- MODULE Session -------------------------------
(***************************************************************************)
(* The life of a Configuration: constructed over a plug-in, databases      *)
(* loaded, created, included, committed, aborted and unloaded, and what is *)
(* tied to the open database: the class hierarchy, the descriptions of     *)
(* classes, the template objects, callbacks, converters and actions.       *)
(*                                                                         *)
(* An action is one call.  FacadeLocks shows which mutexes serialise them. *)
(* The plug-in may refuse any step (it throws config::Generic); what the   *)
(* call has done before is then kept, as in the code.  Heap cells are      *)
(* tracked, each named by what it is and what it is for.                   *)
(***************************************************************************)
EXTENDS ClassHierarchy, FiniteSets

CONSTANTS Files,         \* database files
          Classes,       \* classes of the schema
          FileOf,        \* the file that defines a class
          Supers,        \* its superclasses, all of them
          DalClasses,    \* classes registered in the DalFactory, in its order (m_classes)
          Algorithms,    \* what algorithms each of them has
          Converters,    \* attribute converters users register, once each
          Notifiers,     \* callbacks users subscribe
          PreNotifiers,  \* pre-notification callbacks
          Actions,       \* ConfigAction objects
          MaxCached      \* bound on the descriptions and template objects kept

ASSUME ClassesAssumption == /\ FileOf \in [Classes -> Files]
                            /\ Supers \in [Classes -> SUBSET Classes]
ASSUME DalAssumption == /\ DalClasses \in Seq(Classes)
                        /\ DOMAIN Algorithms = Classes
ASSUME BoundAssumption == MaxCached \in Nat
ASSUME CallbacksAssumption == Notifiers \cap PreNotifiers = {}

VARIABLES
  facade,        \* "none", "alive", "gone", or "abandoned" after an error it swallowed
  plugin,        \* m_impl: "none", "live" or "deleted"
  open,          \* files the plug-in has open
  saved,         \* files open after the last load or commit
  served,        \* does the plug-in hold a subscription?
  superclasses,  \* p_superclasses
  subclasses,    \* p_subclasses
  torn,          \* was the plug-in changed and the hierarchy not read again?
  described,     \* p_direct_classes_desc_cache and p_all_classes_desc_cache
  made,          \* template objects in m_cache_map, by class of object and of template
  callbacks,     \* m_callbacks and m_pre_callbacks
  converters,    \* m_convert_map
  listening,     \* m_actions
  view,          \* what an action keeps of the database: "none", "current" or "stale"
  live,          \* heap cells allocated and not deleted
  fault          \* was a cell deleted twice, or lost when its pointer was overwritten?

hierarchy == <<superclasses, subclasses, torn>>
database == <<open, saved>>
actions == <<listening, view>>
heap == <<live, fault>>
vars == <<facade, plugin, database, served, hierarchy, described, made, callbacks,
          converters, actions, heap>>

Ways == {"direct", "all"}
RegisteredDal == {DalClasses[i] : i \in DOMAIN DalClasses}

Cells(kind, owners) == {<<kind, o>> : o \in owners}
PluginCell == <<"plug-in", "m_impl">>
CacheCells == Cells("cache", {o.maker : o \in made})
CallbackCells == Cells("callback", callbacks)
ConverterCells == Cells("converter", converters)
DescriptionCells == Cells("description", described)

\* every cell some container of the facade points to
Held == CacheCells \cup CallbackCells \cup ConverterCells \cup DescriptionCells
          \cup (IF plugin = "live" THEN {PluginCell} ELSE {})

New(cells) == /\ live' = live \cup cells
              /\ fault' = (fault \/ cells \cap live # {})
Delete(cells) == /\ live' = live \ cells
                 /\ fault' = (fault \/ ~ cells \subseteq live)
-----------------------------------------------------------------------------
\* the plug-in's get_superclasses when these files are open
Schema(files) ==
  LET known == {c \in Classes : FileOf[c] \in files}
  IN [c \in known |-> Supers[c] \cap known]

\* get_superclasses(p_superclasses) and set_subclasses()
ReadHierarchy(files) ==
  /\ superclasses' = Schema(files)
  /\ subclasses' = Subclasses(Schema(files))
  /\ torn' = FALSE

\* get_superclasses throws: neither is changed
HierarchyRefused ==
  /\ torn' = TRUE
  /\ UNCHANGED <<superclasses, subclasses>>

\* The actions told of a load or an unload forget what they keep of the database; what
\* another action keeps no longer holds if the database is another one.
Tell(told) == view' = [a \in Actions |-> IF a \in told THEN "none"
                                         ELSE IF view[a] = "current" /\ open' # open THEN "stale"
                                         ELSE view[a]]

Working == facade = "alive" /\ plugin = "live"

Init == /\ facade = "none" /\ plugin = "none"
        /\ open = {} /\ saved = {} /\ served = FALSE
        /\ superclasses = NoClasses /\ subclasses = NoClasses /\ torn = FALSE
        /\ described = {} /\ made = {} /\ callbacks = {} /\ converters = {}
        /\ listening = {} /\ view = [a \in Actions |-> "none"]
        /\ live = {} /\ fault = FALSE
-----------------------------------------------------------------------------
\* Configuration(spec): the plug-in's creator may give no implementation; with a
\* parameter in the spec it opens a database.  An exception of get_superclasses or, when
\* TDAQ_DB_PREFETCH_ALL_DATA is set, of prefetch_all_data leaves the plug-in behind.
Construct(files) ==
  /\ facade = "none"
  /\ \/ /\ facade' = "alive"
        /\ UNCHANGED <<plugin, database, hierarchy, heap>>
     \/ /\ plugin' = "live"
        /\ New({PluginCell})
        /\ open' = files /\ saved' = files
        /\ \/ HierarchyRefused /\ facade' = "abandoned"
           \/ ReadHierarchy(files) /\ facade' \in {"alive", "abandoned"}
  /\ UNCHANGED <<served, described, made, callbacks, converters, actions>>

\* mutant of Load: whether there is a plug-in is not asked
Load_Unchecked(file) ==
  /\ facade = "alive"
  /\ open' = open \cup {file} /\ saved' = saved \cup {file}
  /\ ReadHierarchy(open') \/ HierarchyRefused
  /\ Tell(listening)
  /\ UNCHANGED <<facade, plugin, served, described, made, callbacks, converters,
                 listening, heap>>

\* load(db_name): the actions are told first, whatever comes of it; with no plug-in
\* it throws; a prefetch that throws changes nothing that was done.
Load(file) ==
  /\ facade = "alive"
  /\ \/ UNCHANGED <<database, hierarchy>>  \* no plug-in, or open_db throws
     \/ /\ plugin = "live"
        /\ open' = open \cup {file} /\ saved' = saved \cup {file}
        /\ ReadHierarchy(open') \/ HierarchyRefused
  /\ Tell(listening)
  /\ UNCHANGED <<facade, plugin, served, described, made, callbacks, converters,
                 listening, heap>>

\* What unload() deletes, in vain or not, until the plug-in refuses a step of it.
UnloadFrees(refused) ==
  CacheCells \cup CallbackCells
    \cup (IF refused = "unsubscribe" THEN {} ELSE ConverterCells \cup DescriptionCells)

\* mutant of ForgetClasses: the deleted descriptions stay in the cache
ForgetClasses_Dangling ==
  /\ superclasses' = NoClasses
  /\ UNCHANGED <<subclasses, described>>

\* unload() clears p_superclasses and both caches of descriptions, not p_subclasses
ForgetClasses ==
  /\ superclasses' = NoClasses
  /\ described' = {}
  /\ UNCHANGED subclasses

\* mutant of ToldOfUnload: the actions are told when everything else went well
ToldOfUnload_Last(refused) == Tell(IF refused = "nothing" THEN listening ELSE {})

\* the actions are told before anything else is done
ToldOfUnload(refused) == Tell(listening)

\* The body of unload(); the plug-in may refuse unsubscribe() or close_db(), and the rest
\* is then not reached.  A close_db() that throws may have closed the files or not.
Unloading(refused) ==
  /\ made' = {} /\ callbacks' = {}
  /\ IF refused = "unsubscribe"
     THEN UNCHANGED <<served, converters, described, hierarchy, database>>
     ELSE /\ served' = FALSE
          /\ converters' = {}
          /\ ForgetClasses
          /\ \/ open' = {} /\ saved' = {} /\ torn' = FALSE
             \/ refused = "close" /\ torn' = TRUE /\ UNCHANGED database
  /\ ToldOfUnload(refused)

Refusals == {"nothing", "unsubscribe", "close"}

\* unload(): throws when there is nothing to unload
Unload ==
  /\ Working
  /\ \E refused \in Refusals : Unloading(refused) /\ Delete(UnloadFrees(refused))
  /\ UNCHANGED <<facade, plugin, listening>>

\* ~Configuration(): an exception of unload() is swallowed, and what was not reached is
\* left behind: with no plug-in, the converters.
Destroy ==
  /\ facade = "alive"
  /\ \/ /\ plugin = "live"
        /\ Unloading("nothing")
        /\ Delete(UnloadFrees("nothing") \cup {PluginCell})
        /\ plugin' = "deleted" /\ facade' = "gone"
     \/ /\ plugin = "live"
        /\ \E refused \in {"unsubscribe", "close"} :
             Unloading(refused) /\ Delete(UnloadFrees(refused))
        /\ facade' = "abandoned"
        /\ UNCHANGED plugin
     \/ /\ plugin = "none"
        /\ facade' = "abandoned"
        /\ UNCHANGED <<plugin, database, served, hierarchy, described, made, callbacks,
                       converters, view, heap>>
  /\ UNCHANGED listening
-----------------------------------------------------------------------------
\* mutant of Changed: only get_superclasses is called
Changed_SupersOnly(files) ==
  /\ open' = files
  /\ \/ /\ superclasses' = Schema(files) /\ torn' = FALSE
        /\ UNCHANGED subclasses
     \/ HierarchyRefused

\* The files the plug-in has open were changed: the facade reads the hierarchy again.
Changed(files) == /\ open' = files
                  /\ ReadHierarchy(files) \/ HierarchyRefused

\* create(db_name, includes)
Create(file, includes) ==
  /\ Working /\ file \notin open
  /\ Changed(open \cup {file} \cup includes)
  /\ UNCHANGED <<facade, plugin, saved, served, described, made, callbacks, converters,
                 actions, heap>>

\* add_include(db_name, include)
AddInclude(file, include) ==
  /\ Working /\ file \in open
  /\ Changed(open \cup {include})
  /\ UNCHANGED <<facade, plugin, saved, served, described, made, callbacks, converters,
                 actions, heap>>

\* mutant of RemoveInclude: descriptions of the classes of the file are deleted
RemoveInclude_Forgets(file, include) ==
  /\ Working /\ file \in open /\ include \in open \ {file}
  /\ Changed(open \ {include})
  /\ LET ofFile == {d \in described : FileOf[d[1]] = include}
     IN described' = described \ ofFile /\ Delete(Cells("description", ofFile))
  /\ UNCHANGED <<facade, plugin, saved, served, made, callbacks, converters, actions>>

\* remove_include(db_name, include)
RemoveInclude(file, include) ==
  /\ Working /\ file \in open /\ include \in open \ {file}
  /\ Changed(open \ {include})
  /\ UNCHANGED <<facade, plugin, saved, served, described, made, callbacks, converters,
                 actions, heap>>

\* commit(log_message)
Commit ==
  /\ Working /\ open # {}
  /\ saved' = open
  /\ UNCHANGED <<facade, plugin, open, served, hierarchy, described, made, callbacks,
                 converters, actions, heap>>

\* abort(): the objects read are forgotten (ObjectCache), the actions are not told
Abort ==
  /\ Working
  /\ Changed(saved)
  /\ UNCHANGED <<facade, plugin, saved, served, described, made, callbacks, converters,
                 actions, heap>>
-----------------------------------------------------------------------------
Bounded == Cardinality(described) + Cardinality(made) < MaxCached

\* get_class_info(class_name, direct_only): the cached description, or a new one
GetClassInfo(class, way) ==
  /\ Working
  /\ class \in DOMAIN Schema(open)
  /\ <<class, way>> \notin described /\ Bounded
  /\ described' = described \cup {<<class, way>>}
  /\ New(Cells("description", {<<class, way>>}))
  /\ UNCHANGED <<facade, plugin, database, served, hierarchy, made, callbacks, converters,
                 actions>>

\* DalFactory::get makes a template object with the functions of class maker, in the
\* Cache of that class, which is made for its first object.
Make(class, maker) ==
  LET object == [class |-> class, maker |-> maker]
      caches == Cells("cache", {maker} \ {o.maker : o \in made})
  IN /\ Bounded
     /\ made' = made \cup {object}
     /\ New(caches)

\* referenced_by, get_rel_objects: the object is of a class of the open database, and the
\* C++ class is its own or, with upcast_unregistered, a registered superclass
MakeDal(class, upcast) ==
  /\ Working
  /\ class \in DOMAIN Schema(open)
  /\ \E maker \in Creators(RegisteredDal, superclasses, class, upcast) : Make(class, maker)
  /\ UNCHANGED <<facade, plugin, database, served, hierarchy, described, callbacks,
                 converters, actions>>

\* get_algo_objects(name) on an object
MakeAlgo(class, algorithm) ==
  /\ Working
  /\ class \in DOMAIN Schema(open)
  /\ \E maker \in ClassForAlgo(DalClasses, Algorithms, superclasses, class, algorithm) :
       Make(class, maker)
  /\ UNCHANGED <<facade, plugin, database, served, hierarchy, described, callbacks,
                 converters, actions>>

\* register_converter(object)
RegisterConverter(converter) ==
  /\ facade = "alive" /\ converter \notin converters
  /\ converters' = converters \cup {converter}
  /\ New(Cells("converter", {converter}))
  /\ UNCHANGED <<facade, plugin, database, served, hierarchy, described, made, callbacks,
                 actions>>
-----------------------------------------------------------------------------
\* reset_subscription(), when these callbacks are left
ResetSubscription(left) == served' = (left \cap Notifiers # {})

\* mutant of Subscribe: the subscription is reset before the callback is inserted
Subscribe_ResetsFirst(user) ==
  /\ Working /\ user \notin callbacks
  /\ callbacks' = callbacks \cup {user}
  /\ ResetSubscription(callbacks)
  /\ New(Cells("callback", {user}))
  /\ UNCHANGED <<facade, plugin, database, hierarchy, described, made, converters, actions>>

\* subscribe(criteria, user_cb, parameter): the callback is dropped if the plug-in refuses
Subscribe(user) ==
  /\ Working /\ user \notin callbacks
  /\ callbacks' = callbacks \cup {user}
  /\ ResetSubscription(callbacks')
  /\ New(Cells("callback", {user}))
  /\ UNCHANGED <<facade, plugin, database, hierarchy, described, made, converters, actions>>

\* subscribe(user_cb, parameter) of a pre_notify callback leaves the plug-in as it is
SubscribePre(user) ==
  /\ facade = "alive" /\ user \notin callbacks
  /\ callbacks' = callbacks \cup {user}
  /\ New(Cells("callback", {user}))
  /\ UNCHANGED <<facade, plugin, database, served, hierarchy, described, made, converters,
                 actions>>

\* unsubscribe(id), or unsubscribe() of them all: deleted, even if the plug-in refuses
Unsubscribe(users) ==
  /\ Working /\ users \subseteq callbacks
  /\ callbacks' = callbacks \ users
  /\ Delete(Cells("callback", users))
  /\ ResetSubscription(callbacks') \/ UNCHANGED served
  /\ UNCHANGED <<facade, plugin, database, hierarchy, described, made, converters, actions>>

\* add_action(ac), of an action that keeps nothing yet
AddAction(a) ==
  /\ facade = "alive" /\ a \notin listening
  /\ listening' = listening \cup {a}
  /\ UNCHANGED <<facade, plugin, database, served, hierarchy, described, made, callbacks,
                 converters, view, heap>>

\* remove_action(ac); its owner then drops what it keeps
RemoveAction(a) ==
  /\ facade = "alive" /\ a \in listening
  /\ listening' = listening \ {a}
  /\ view' = [view EXCEPT ![a] = "none"]
  /\ UNCHANGED <<facade, plugin, database, served, hierarchy, described, made, callbacks,
                 converters, heap>>

\* The owner of an action reads the database and keeps what it has read.
Keep(a) ==
  /\ Working /\ open # {}
  /\ a \in listening /\ view[a] = "none"
  /\ view' = [view EXCEPT ![a] = "current"]
  /\ UNCHANGED <<facade, plugin, database, served, hierarchy, described, made, callbacks,
                 converters, listening, heap>>
-----------------------------------------------------------------------------
Opening ==
  \/ \E file \in Files : Construct({file}) \/ Load(file)
  \/ Construct({})
  \/ Unload \/ Destroy

Editing ==
  \/ \E file \in Files : \E includes \in SUBSET (Files \ {file}) : Create(file, includes)
  \/ \E file, include \in Files : AddInclude(file, include) \/ RemoveInclude(file, include)
  \/ Commit \/ Abort

Reading ==
  \E class \in Classes :
    \/ \E way \in Ways : GetClassInfo(class, way)
    \/ \E upcast \in BOOLEAN : MakeDal(class, upcast)
    \/ \E algorithm \in UNION {Algorithms[c] : c \in Classes} : MakeAlgo(class, algorithm)

Registering ==
  \/ \E converter \in Converters : RegisterConverter(converter)
  \/ \E user \in Notifiers : Subscribe(user)
  \/ \E user \in PreNotifiers : SubscribePre(user)
  \/ \E user \in callbacks : Unsubscribe({user})
  \/ Unsubscribe(callbacks)
  \/ \E a \in Actions : AddAction(a) \/ RemoveAction(a) \/ Keep(a)

Next == Opening \/ Editing \/ Reading \/ Registering

Spec == Init /\ [][Next]_vars
-----------------------------------------------------------------------------
Hierarchies == UNION {[known -> SUBSET Classes] : known \in SUBSET Classes}

TypeOK ==
  /\ facade \in {"none", "alive", "gone", "abandoned"}
  /\ plugin \in {"none", "live", "deleted"}
  /\ open \subseteq Files /\ saved \subseteq Files
  /\ plugin = "none" => open = {}
  /\ {served, torn, fault} \subseteq BOOLEAN
  /\ superclasses \in Hierarchies /\ subclasses \in Hierarchies
  /\ described \subseteq Classes \X Ways
  /\ made \subseteq [class : Classes, maker : Classes]
  /\ callbacks \subseteq Notifiers \cup PreNotifiers
  /\ converters \subseteq Converters
  /\ listening \subseteq Actions
  /\ view \in [Actions -> {"none", "current", "stale"}]

\* The hierarchy that casts and the DalFactory use is that of the open files, unless the
\* plug-in refused a step: every call that changes the files reads it again
\* (load, create, add_include, remove_include, abort), and set_subclasses inverts it.
HierarchyFollows ==
  facade = "alive" /\ ~ torn =>
    /\ superclasses = Schema(open)
    /\ open # {} => \A p, c \in Classes :
         p \in DOMAIN subclasses /\ c \in subclasses[p] <=>
           c \in DOMAIN superclasses /\ p \in superclasses[c]

\* Over any sequence of calls, and wherever the plug-in refuses, no cell is deleted twice
\* or lost: the facade points to exactly what is allocated, and the destructor that had no
\* error leaves nothing (unload, unsubscribe and get_class_info).
HeapOwned ==
  /\ ~ fault
  /\ facade = "alive" => live = Held
  /\ facade = "gone" => live = {}

\* A callback is served by the plug-in, also after refused calls, and a plug-in never
\* serves a facade that was destroyed without an error (reset_subscription, unload).
CallbacksServed ==
  /\ facade = "alive" /\ callbacks \cap Notifiers # {} => served
  /\ served => facade \in {"alive", "abandoned"}

\* No registered action keeps data of a database that was unloaded or loaded over, even if
\* the plug-in refused a step of it (ConfigAction::load and unload).
ActionsForget == \A a \in listening : view[a] # "stale"

\* A template object is of a registered C++ class its database class derives from, however
\* it was made (DalFactory::functions, class4algo).
MadeCastable ==
  \A o \in made : o.maker \in RegisteredDal /\ TryCast(Supers, o.maker, o.class)

\* What users hold references to, descriptions and template objects, is only freed by a
\* step that also drops every template object and every callback, as unload and the
\* destructor do, and the plug-in with the last of what is allocated. It says when memory
\* goes, not whether what is still there is up to date.
Together == /\ (live \ live') \cap (DescriptionCells \cup CacheCells) # {} =>
                 made' = {} /\ callbacks' = {}
            /\ PluginCell \in live \ live' => live' = {}

FreedTogether == [][Together]_vars
=============================================================================
