---------------------------- MODULE ObjectAccess ----------------------------
(***************************************************************************)
(* Users of ConfigObjects: threads that set values, move, rename, create   *)
(* and destroy objects and register converters, while one thread exports   *)
(* the data with Configuration::export_data.                               *)
(*                                                                         *)
(* No mutex spans a call: a value is read, and converted one converter at  *)
(* a time; the export takes the objects class by class, sorts them one by  *)
(* one by the ids they have at each comparison, and reads them one by one. *)
(* Every object has one multi-value attribute and one relationship.  What  *)
(* the actions of users do when they are told of a change is theirs.       *)
(***************************************************************************)
EXTENDS SchemaExport, FiniteSets

CONSTANTS Objects,      \* objects of the database, and those there may be
          ClassNames,   \* names of the classes of the schema, in order
          ClassOf,      \* the class of an object
          Supers,       \* all superclasses of a class
          Files,        \* database files
          MaxId,        \* ids are 1 .. MaxId, in their order
          Lists,        \* values the attribute may have
          Contents,     \* what the database may hold at first
          RefCardinality,  \* cardinality of the relationship
          Converters,   \* converters for the type of the attribute
          Marker,       \* empty_array_item
          SomeClasses,  \* what the regular expressions of the export match
          SomeIds,
          SomeFiles,
          MaxChanges,   \* bound on the changes to objects
          None

Ids == 1 .. MaxId
Classes == {ClassNames[i] : i \in DOMAIN ClassNames}

ASSUME ClassesAssumption ==
  /\ ClassNames \in Seq(Classes)
  /\ \A i, j \in DOMAIN ClassNames : ClassNames[i] = ClassNames[j] => i = j
  /\ ClassOf \in [Objects -> Classes] /\ Supers \in [Classes -> SUBSET Classes]
ASSUME ListsAssumption == \A l \in Lists : l \in Seq({l[i] : i \in DOMAIN l})
ASSUME ContentsAssumption ==
  \A d \in Contents :
    /\ d.exists \subseteq Objects
    /\ d.id \in [Objects -> Ids] /\ \A o, p \in Objects : d.id[o] = d.id[p] => o = p
    /\ d.file \in [Objects -> Files] /\ d.list \in [Objects -> Lists]
ASSUME BoundAssumption == MaxId \in Nat /\ MaxChanges \in Nat
ASSUME NoneAssumption == None \notin Objects
ASSUME MarkerAssumption == Marker # ""
ASSUME CardinalityAssumption == RefCardinality \in Cardinalities

VARIABLES exists, id, file, list, ref,  \* the objects in the plug-in's database
          changes,     \* how many changes were made
          touched,     \* objects changed since the export began
          disturbed,   \* classes with an object renamed while it was being sorted
          converters,  \* m_convert_map, for the type of the attribute
          phase,       \* where the export is
          class,       \* index of the class being exported
          found,       \* what get(class, objects) returned, not looked at yet
          queue,       \* sorted_objects, in the order of its tree
          next,        \* the object being inserted into it,
          low, high,   \* after the place low and not after high
          items,       \* values being converted, each with the converters applied
          at,          \* the value being converted
          since,       \* how many converters there were when the value was read
          tree,        \* objects exported, in order
          whole        \* how many of them are of the classes that are done

objects == <<exists, id, file, list, ref>>
history == <<changes, touched>>
sorting == <<found, queue, next, low, high>>
export == <<phase, class, sorting, items, at, since, tree, whole>>
vars == <<objects, history, disturbed, converters, export>>

FullName(o) == <<ClassOf[o], id[o]>>

Init == /\ \E d \in Contents : /\ exists = d.exists
                             /\ id = d.id /\ file = d.file /\ list = d.list
        /\ ref = [o \in Objects |-> None]
        /\ changes = 0 /\ touched = {} /\ disturbed = {}
        /\ converters = << >>
        /\ phase = "idle" /\ class = 0
        /\ found = {} /\ queue = << >> /\ next = None /\ low = 0 /\ high = 0
        /\ items = << >> /\ at = 1 /\ since = 0 /\ tree = << >> /\ whole = 0
-----------------------------------------------------------------------------
\* an object is changed in the database
Change(o) == /\ o \in exists
             /\ changes < MaxChanges
             /\ changes' = changes + 1
             /\ touched' = touched \cup {o}

\* set_by_val, set_by_ref, set_enum, set_class, set_date, set_time
SetList(o, values) ==
  /\ Change(o)
  /\ list' = [list EXCEPT ![o] = values]
  /\ UNCHANGED <<exists, id, file, ref, disturbed, converters, export>>

\* set_obj, set_objs
SetRef(o, target) ==
  /\ Change(o)
  /\ target \in exists \cup {None}
  /\ ref' = [ref EXCEPT ![o] = target]
  /\ UNCHANGED <<exists, id, file, list, disturbed, converters, export>>

\* the objects the export compares by their ids
Compared == {queue[i] : i \in DOMAIN queue} \cup {next}

\* rename(new_id): Configuration::rename_object.  The plug-in refuses an id that is taken;
\* an object destroyed keeps its id, and is not renamed over (see ObjectCache).
Rename(o, new_id) ==
  /\ Change(o)
  /\ \A p \in Objects : id[p] # new_id
  /\ id' = [id EXCEPT ![o] = new_id]
  /\ disturbed' = IF phase \in {"filter", "insert"} /\ o \in Compared
                  THEN disturbed \cup {ClassNames[class]} ELSE disturbed
  /\ UNCHANGED <<exists, file, list, ref, converters, export>>

\* move(at)
Move(o, to) ==
  /\ Change(o)
  /\ file' = [file EXCEPT ![o] = to]
  /\ UNCHANGED <<exists, id, list, ref, disturbed, converters, export>>

\* create(at, class_name, id, object), with the default values of the class: the
\* implementation object there was under the id, if any, is used again
Create(o, at_file, values) ==
  /\ changes < MaxChanges /\ o \notin exists
  /\ exists' = exists \cup {o}
  /\ file' = [file EXCEPT ![o] = at_file]
  /\ list' = [list EXCEPT ![o] = values] /\ ref' = [ref EXCEPT ![o] = None]
  /\ changes' = changes + 1 /\ touched' = touched \cup {o}
  /\ UNCHANGED <<id, disturbed, converters, export>>

\* mutant of Destroy: objects are left that refer to the one destroyed
Destroy_Referenced(o) ==
  /\ Change(o)
  /\ exists' = exists \ {o}
  /\ UNCHANGED <<id, file, list, ref, disturbed, converters, export>>

\* destroy_obj of an object nothing refers to
Destroy(o) ==
  /\ Change(o)
  /\ \A p \in exists : ref[p] # o
  /\ exists' = exists \ {o}
  /\ UNCHANGED <<id, file, list, ref, disturbed, converters, export>>

\* register_converter(object)
RegisterConverter(c) ==
  /\ c \notin {converters[i] : i \in DOMAIN converters}
  /\ converters' = Append(converters, c)
  /\ UNCHANGED <<objects, history, disturbed, export>>
-----------------------------------------------------------------------------
exportOf == <<objects, changes, disturbed, converters>>

\* no object is being inserted
NoNext == next' = None /\ low' = 0 /\ high' = 0

\* mutant of Fail: the objects of the class at hand are left in the tree
Fail_KeepsObjects == /\ phase' = "failed" /\ found' = {} /\ queue' = << >> /\ NoNext
                     /\ items' = << >> /\ at' = 1 /\ since' = 0
                     /\ UNCHANGED <<class, tree, whole>>

\* An exception leaves export_data: the tree of the caller has the classes that were done.
Fail == /\ phase' = "failed"
        /\ tree' = SubSeq(tree, 1, whole)
        /\ found' = {} /\ queue' = << >> /\ NoNext
        /\ items' = << >> /\ at' = 1 /\ since' = 0
        /\ UNCHANGED <<class, whole>>

\* export_data(...) is called
BeginExport ==
  /\ phase = "idle"
  /\ phase' = "read"
  /\ touched' = {}
  /\ UNCHANGED <<exportOf, class, sorting, items, at, since, tree, whole>>

\* the classes that match, sorted by name; get(class, objects) gives the objects of the
\* class and of its subclasses
FetchClass ==
  /\ phase = "read" /\ queue = << >> /\ class < Len(ClassNames)
  /\ class' = class + 1 /\ whole' = Len(tree)
  /\ LET c == ClassNames[class']
     IN found' = IF c \in SomeClasses
                 THEN {o \in exists : c = ClassOf[o] \/ c \in Supers[ClassOf[o]]} ELSE {}
  /\ phase' = "filter"
  /\ UNCHANGED <<exportOf, touched, queue, next, low, high, items, at, since, tree>>

\* mutant of ToExport: objects of subclasses are not left out
ToExport_WithSubclasses(o) == id[o] \in SomeIds

\* an object whose id matches and that is of the class itself
ToExport(o) == id[o] \in SomeIds /\ ClassOf[o] = ClassNames[class]

\* The next object returned: if its file matches too, it is inserted into the sorted ones;
\* contained_in() of one that was destroyed throws.
FilterObject(o) ==
  /\ phase = "filter" /\ o \in found
  /\ IF ToExport(o) /\ o \notin exists THEN Fail
     ELSE /\ found' = found \ {o}
          /\ IF ToExport(o) /\ file[o] \in SomeFiles
             THEN phase' = "insert" /\ next' = o /\ low' = 0 /\ high' = Len(queue)
             ELSE UNCHANGED <<phase, next, low, high>>
          /\ UNCHANGED <<class, queue, items, at, since, tree, whole>>
  /\ UNCHANGED <<exportOf, touched>>

\* mutant of Precedes: the other way round
Precedes_Reversed(o, p) == id[o] > id[p]

\* comp_obj_ptr compares the ids the objects have by now
Precedes(o, p) == id[o] < id[p]

\* std::set::insert goes down its tree, whatever the shape of that is: a comparison leaves
\* the places on one side of the object compared with
Descend(p) ==
  /\ phase = "insert" /\ p \in low + 1 .. high
  /\ IF Precedes(next, queue[p]) THEN high' = p - 1 /\ UNCHANGED low
     ELSE low' = p /\ UNCHANGED high
  /\ UNCHANGED <<exportOf, touched, phase, class, found, queue, next, items, at, since, tree,
                 whole>>

\* At a leaf the object before the place is compared with the one to insert, and has to
\* precede it: or else they are taken for equal, and nothing is inserted.
Insert ==
  /\ phase = "insert" /\ low = high
  /\ queue' = IF low = 0 \/ Precedes(queue[low], next)
              THEN SubSeq(queue, 1, low) \o <<next>> \o SubSeq(queue, low + 1, Len(queue))
              ELSE queue
  /\ NoNext /\ phase' = "filter"
  /\ UNCHANGED <<exportOf, touched, class, found, items, at, since, tree, whole>>

\* all objects of the class are sorted
EndFilter ==
  /\ phase = "filter" /\ found = {}
  /\ phase' = "read"
  /\ UNCHANGED <<exportOf, touched, class, sorting, items, at, since, tree, whole>>

\* add_data of an attribute: get(name, values) reads the plug-in
ReadList ==
  /\ phase = "read" /\ queue # << >>
  /\ LET o == Head(queue)
     IN IF o \in exists
        THEN /\ items' = [i \in DOMAIN list[o] |-> [raw |-> list[o][i], by |-> << >>]]
             /\ at' = 1 /\ since' = Len(converters)
             /\ phase' = "convert"
             /\ UNCHANGED <<class, sorting, tree, whole>>
        ELSE Fail
  /\ UNCHANGED <<exportOf, touched>>

\* mutant of NextConverter: the last registered comes first
NextConverter_Reversed(applied) == converters[Len(converters) - Len(applied)]

\* the converters of the type are called in the order they were registered
NextConverter(applied) == converters[Len(applied) + 1]

\* convert2: one converter is applied to one value; the list of them may grow meanwhile.
\* (The values of a list of Booleans are not converted: its items stay as they are.)
Convert ==
  /\ phase = "convert" /\ at \in DOMAIN items
  /\ IF Len(items[at].by) < Len(converters)
     THEN /\ items' = [items EXCEPT ![at].by = Append(@, NextConverter(@))]
          /\ UNCHANGED at
     ELSE at' = at + 1 /\ UNCHANGED items
  /\ UNCHANGED <<exportOf, touched, phase, class, sorting, since, tree, whole>>

\* add_data of a relationship: full names, which no converter changes
ExportedRef(o) ==
  LET names == IF ref[o] = None THEN << >> ELSE <<FullName(ref[o])>>
  IN IF IsMany(RefCardinality) THEN Items(names, Marker)
     ELSE IF names = << >> THEN <<None>> ELSE names

\* the relationship is read, and the object put into the tree under the id it has by now
WriteObject ==
  /\ phase = "convert" /\ at = Len(items) + 1
  /\ LET o == Head(queue)
     IN IF o \in exists
        THEN /\ tree' = Append(tree, [class |-> ClassNames[class], object |-> o, id |-> id[o],
                                      list |-> Items(items, Marker), since |-> since,
                                      ref |-> ExportedRef(o)])
             /\ queue' = Tail(queue)
             /\ items' = << >> /\ at' = 1 /\ since' = 0
             /\ phase' = "read"
             /\ UNCHANGED <<class, found, next, low, high, whole>>
        ELSE Fail
  /\ UNCHANGED <<exportOf, touched>>

EndExport ==
  /\ phase = "read" /\ queue = << >> /\ class = Len(ClassNames)
  /\ phase' = "done"
  /\ UNCHANGED <<exportOf, touched, class, sorting, items, at, since, tree, whole>>
-----------------------------------------------------------------------------
Using ==
  \/ \E o \in Objects :
       \/ \E values \in Lists : SetList(o, values)
       \/ \E target \in Objects \cup {None} : SetRef(o, target)
       \/ \E new_id \in Ids : Rename(o, new_id)
       \/ \E to \in Files : Move(o, to)
       \/ Destroy(o)
       \/ \E to \in Files, values \in Lists : Create(o, to, values)
  \/ \E c \in Converters : RegisterConverter(c)

Sorting == \/ \E o \in Objects : FilterObject(o)
           \/ \E p \in DOMAIN queue : Descend(p)
           \/ Insert \/ EndFilter

Exporting == \/ BeginExport \/ FetchClass \/ Sorting \/ ReadList \/ Convert
             \/ WriteObject \/ EndExport

Next == Using \/ Exporting

Spec == Init /\ [][Next]_vars
-----------------------------------------------------------------------------
TypeOK ==
  /\ exists \subseteq Objects /\ touched \subseteq Objects /\ disturbed \subseteq Classes
  /\ id \in [Objects -> Ids] /\ file \in [Objects -> Files] /\ list \in [Objects -> Lists]
  /\ ref \in [Objects -> Objects \cup {None}]
  /\ \A o \in exists : ref[o] \in exists \cup {None}
  /\ changes \in 0 .. MaxChanges
  /\ phase \in {"idle", "read", "filter", "insert", "convert", "done", "failed"}
  /\ class \in 0 .. Len(ClassNames) /\ whole \in 0 .. Len(tree)
  /\ found \subseteq Objects /\ queue \in Seq(Objects)
  /\ IF phase = "insert" THEN next \in Objects ELSE next = None /\ high = 0
  /\ low \in 0 .. high /\ high \in 0 .. Len(queue)
  /\ since \in 0 .. Len(converters) /\ at \in 1 .. Len(items) + 1

\* However converters are registered meanwhile, each exported value went through the
\* first of them in the order of registration, at least those there were when it was read
\* (convert2, ConfigObject::get).
ConvertedInOrder ==
  \A n \in DOMAIN tree : tree[n].list # <<Marker>> =>
    \A k \in DOMAIN tree[n].list :
      LET by == tree[n].list[k].by
      IN Len(by) >= tree[n].since /\ by = SubSeq(converters, 1, Len(by))

Matches(o) == ClassOf[o] \in SomeClasses /\ id[o] \in SomeIds /\ file[o] \in SomeFiles

Entries(o) == {n \in DOMAIN tree : tree[n].object = o}

\* the data of an object, as an export should tell it
Told(o, entry) ==
  /\ entry.class = ClassOf[o] /\ entry.id = id[o]
  /\ IF list[o] = << >> THEN entry.list = <<Marker>>
     ELSE /\ DOMAIN entry.list = DOMAIN list[o]
          /\ \A k \in DOMAIN list[o] : entry.list[k].raw = list[o][k]
  /\ ref[o] = None => entry.ref = IF IsMany(RefCardinality) THEN <<Marker>> ELSE <<None>>
  /\ ref[o] \in exists \ touched => entry.ref = <<FullName(ref[o])>>

\* the classes export_data has put into the tree
Finished == {ClassNames[i] : i \in 1 .. IF phase = "done" THEN class ELSE class - 1}

\* Whatever else changes during an export, an object nobody touched is never exported twice,
\* nor with anything but its data, nor if it does not match; if it matches it is exported,
\* unless another of its class was renamed while they were sorted: the set takes an object
\* whose id has become greater than that of the next one for its equal.  If the export fails
\* because an object was destroyed, the tree has the classes done before and nothing else
\* (export_data).
ExportComplete ==
  phase \in {"done", "failed"} => \A o \in exists \ touched :
    /\ \A n \in Entries(o) : Entries(o) = {n} /\ Told(o, tree[n])
    /\ IF Matches(o) /\ ClassOf[o] \in Finished
       THEN Entries(o) = {} => ClassOf[o] \in disturbed
       ELSE Entries(o) = {}

\* The objects nobody touched are exported class by class and by id, so that two exports of
\* the same data are the same; but for a class with an object renamed while it was being
\* sorted, in which the places of the others may be wrong too (export_data).
ExportSorted ==
  \A m, n \in DOMAIN tree :
    m < n /\ tree[m].class = tree[n].class /\ tree[m].class \notin disturbed =>
      \/ {tree[m].object, tree[n].object} \cap touched # {}
      \/ tree[m].id < tree[n].id
=============================================================================
