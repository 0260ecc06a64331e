-------------------------- MODULE ObjectAccessProofs --------------------------
(***************************************************************************)
(* Theorems about ObjectAccess, for any objects, classes, values and       *)
(* converters, and any number of changes.                                  *)
(***************************************************************************)
EXTENDS ObjectAccess, SequenceTheorems, TLAPS

-----------------------------------------------------------------------------
(***************************************************************************)
(* TYPES                                                                   *)
(***************************************************************************)
Values == UNION {{l[i] : i \in DOMAIN l} : l \in Lists}
Converted == [raw : Values, by : Seq(Converters)]
Refs == {<<Marker>>, <<None>>} \cup {<<n>> : n \in Classes \X Ids}
Exported == [class : Classes, object : Objects, id : Ids,
             list : Seq(Converted) \cup {<<Marker>>}, since : Nat, ref : Refs]

\* the data an export keeps, and where it has an object in hand
DataTyped ==
  /\ converters \in Seq(Converters)
  /\ items \in Seq(Converted)
  /\ tree \in Seq(Exported)
  /\ phase \in {"filter", "insert", "convert"} => class >= 1
  /\ queue # << >> => class >= 1
  /\ phase = "convert" => queue # << >>

TypeInv == TypeOK /\ DataTyped

\* A sequence with one more element after its place n.
WithAfter(s, n, x) == SubSeq(s, 1, n) \o <<x>> \o SubSeq(s, n + 1, Len(s))

LEMMA Inserted ==
  ASSUME NEW S, NEW s \in Seq(S), NEW x \in S, NEW n \in 0 .. Len(s)
  PROVE  /\ WithAfter(s, n, x) \in Seq(S) /\ Len(WithAfter(s, n, x)) = Len(s) + 1
         /\ \A i \in 1 .. Len(s) + 1 :
              WithAfter(s, n, x)[i] = IF i <= n THEN s[i] ELSE IF i = n + 1 THEN x ELSE s[i - 1]
<1> DEFINE a == SubSeq(s, 1, n)
           b == SubSeq(s, n + 1, Len(s))
           c == a \o <<x>>
           q == WithAfter(s, n, x)
<1>1. /\ a \in Seq(S) /\ Len(a) = n /\ \A i \in 1 .. n : a[i] = s[i]
      /\ b \in Seq(S) /\ Len(b) = Len(s) - n /\ \A i \in 1 .. Len(s) - n : b[i] = s[n + i]
  OBVIOUS
<1>2. q = c \o b
  BY DEF WithAfter
<1>3. <<x>> \in Seq(S) /\ Len(<<x>>) = 1 /\ <<x>>[1] = x
  OBVIOUS
<1> HIDE DEF a, b, q
<1>4. /\ c \in Seq(S) /\ Len(c) = Len(a) + 1
      /\ \A i \in 1 .. Len(a) + 1 : c[i] = IF i <= Len(a) THEN a[i] ELSE <<x>>[i - Len(a)]
  BY <1>1, <1>3, ConcatProperties
<1> HIDE DEF c
<1>5. Len(c) = n + 1 /\ \A i \in 1 .. n + 1 : c[i] = IF i <= n THEN s[i] ELSE x
  BY <1>1, <1>3, <1>4
<1>6. /\ q \in Seq(S) /\ Len(q) = Len(c) + Len(b)
      /\ \A i \in 1 .. Len(c) + Len(b) : q[i] = IF i <= Len(c) THEN c[i] ELSE b[i - Len(c)]
  BY <1>1, <1>2, <1>4, ConcatProperties
<1>7. Len(q) = Len(s) + 1
  BY <1>1, <1>5, <1>6
<1>8. ASSUME NEW i \in 1 .. Len(s) + 1
      PROVE  q[i] = IF i <= n THEN s[i] ELSE IF i = n + 1 THEN x ELSE s[i - 1]
  <2>1. CASE i <= n + 1
    <3>0. i \in 1 .. n + 1 /\ i <= Len(c) /\ Len(c) + Len(b) = Len(s) + 1
      BY <1>1, <1>5, <2>1
    <3>1. q[i] = c[i] /\ i \in 1 .. n + 1
      BY <1>6, <3>0
    <3>2. i > n => i = n + 1
      BY <3>1
    <3>3. c[i] = IF i <= n THEN s[i] ELSE x
      BY <1>5, <3>1
    <3> QED BY <3>1, <3>2, <3>3
  <2>2. CASE i > n + 1
    <3>1. q[i] = b[i - (n + 1)] /\ i - (n + 1) \in 1 .. Len(s) - n
      BY <1>1, <1>5, <1>6, <2>2
    <3>2. b[i - (n + 1)] = s[n + (i - (n + 1))] /\ n + (i - (n + 1)) = i - 1
      BY <1>1, <3>1
    <3> QED BY <2>2, <3>1, <3>2
  <2> QED BY <2>1, <2>2
<1>9. /\ q \in Seq(S) /\ Len(q) = Len(s) + 1
      /\ \A i \in 1 .. Len(s) + 1 :
           q[i] = IF i <= n THEN s[i] ELSE IF i = n + 1 THEN x ELSE s[i - 1]
  BY <1>6, <1>7, <1>8
<1> QED BY <1>9 DEF q

\* The first of a sequence and the others.
LEMMA HeadAndTail ==
  ASSUME NEW S, NEW s \in Seq(S), s # << >>
  PROVE  /\ Len(s) \in Nat \ {0} /\ Head(s) = s[1] /\ s[1] \in S
         /\ Tail(s) \in Seq(S) /\ Len(Tail(s)) = Len(s) - 1
         /\ \A i \in 1 .. Len(s) - 1 : Tail(s)[i] = s[i + 1]
OBVIOUS

\* A list of values is converted into as many.
LEMMA ListTyped ==
  ASSUME NEW l \in Lists
  PROVE  /\ l \in Seq(Values)
         /\ [i \in DOMAIN l |-> [raw |-> l[i], by |-> << >>]] \in Seq(Converted)
         /\ Len([i \in DOMAIN l |-> [raw |-> l[i], by |-> << >>]]) = Len(l)
<1> DEFINE S == {l[i] : i \in DOMAIN l}
           f == [i \in DOMAIN l |-> [raw |-> l[i], by |-> << >>]]
<1>1. l \in Seq(S) /\ S \subseteq Values
  BY ListsAssumption DEF Values
<1>2. l \in Seq(Values) /\ Len(l) \in Nat /\ DOMAIN l = 1 .. Len(l)
  BY <1>1
<1>3. \A i \in DOMAIN l : f[i] \in Converted
  BY <1>2 DEF Converted
<1>4. f \in [1 .. Len(l) -> Converted]
  BY <1>2, <1>3
<1> QED BY <1>2, <1>4

LEMMA TypeInit == Init => TypeInv
<1> SUFFICES ASSUME Init PROVE TypeInv
  OBVIOUS
<1>1. /\ exists \subseteq Objects
      /\ id \in [Objects -> Ids] /\ file \in [Objects -> Files] /\ list \in [Objects -> Lists]
  <2>1. PICK d \in Contents : exists = d.exists /\ id = d.id /\ file = d.file /\ list = d.list
    BY DEF Init
  <2> QED BY <2>1, ContentsAssumption
<1>3. MaxChanges \in Nat /\ Len(ClassNames) \in Nat
  BY BoundAssumption, ClassesAssumption
<1>4. TypeOK
  BY <1>1, <1>3 DEF Init, TypeOK
<1>2. DataTyped
  BY DEF Init, DataTyped
<1> QED BY <1>4, <1>2 DEF TypeInv
\* the class in hand
LEMMA ClassInHand ==
  ASSUME TypeInv, class >= 1
  PROVE  class \in 1 .. Len(ClassNames) /\ ClassNames[class] \in Classes
<1>1. class \in 1 .. Len(ClassNames)
  BY ClassesAssumption DEF TypeInv, TypeOK
<1> QED BY <1>1, ClassesAssumption DEF Classes

\* Actions of users leave the export as it is.
LEMMA UsersTyped ==
  ASSUME TypeInv, Using
  PROVE  TypeInv' /\ UNCHANGED export
<1> USE DEF objects, history, export, sorting
<1>1. ASSUME NEW o \in Objects, NEW values \in Lists, SetList(o, values)
      PROVE  TypeOK' /\ UNCHANGED <<converters, export>>
  BY <1>1, BoundAssumption DEF TypeInv, TypeOK, SetList, Change
<1>2. ASSUME NEW o \in Objects, NEW target \in Objects \cup {None}, SetRef(o, target)
      PROVE  TypeOK' /\ UNCHANGED <<converters, export>>
  BY <1>2, BoundAssumption DEF TypeInv, TypeOK, SetRef, Change
<1>3. ASSUME NEW o \in Objects, NEW new_id \in Ids, Rename(o, new_id)
      PROVE  TypeOK' /\ UNCHANGED <<converters, export>>
  <2>1. phase \in {"filter", "insert"} => ClassNames[class] \in Classes
    BY ClassInHand DEF TypeInv, DataTyped
  <2>2. disturbed' \subseteq Classes
    BY <1>3, <2>1 DEF TypeInv, TypeOK, Rename
  <2> QED BY <1>3, <2>2, BoundAssumption DEF TypeInv, TypeOK, Rename, Change
<1>5. ASSUME NEW o \in Objects, NEW to \in Files, Move(o, to)
      PROVE  TypeOK' /\ UNCHANGED <<converters, export>>
  BY <1>5, BoundAssumption DEF TypeInv, TypeOK, Move, Change
<1>6. ASSUME NEW o \in Objects, Destroy(o)
      PROVE  TypeOK' /\ UNCHANGED <<converters, export>>
  BY <1>6, BoundAssumption DEF TypeInv, TypeOK, Destroy, Change
<1>7. ASSUME NEW o \in Objects, NEW to \in Files, NEW values \in Lists, Create(o, to, values)
      PROVE  TypeOK' /\ UNCHANGED <<converters, export>>
  BY <1>7, BoundAssumption DEF TypeInv, TypeOK, Create
<1>8. ASSUME UNCHANGED <<converters, export>> PROVE DataTyped' /\ UNCHANGED export
  BY <1>8 DEF TypeInv, DataTyped
<1>9. ASSUME NEW c \in Converters, RegisterConverter(c)
      PROVE  TypeInv' /\ UNCHANGED export
  <2>1. converters' \in Seq(Converters) /\ Len(converters') = Len(converters) + 1
    BY <1>9 DEF TypeInv, DataTyped, RegisterConverter
  <2>2. since \in 0 .. Len(converters')
    BY <2>1 DEF TypeInv, TypeOK, DataTyped
  <2>3. TypeOK'
    BY <1>9, <2>2 DEF TypeInv, TypeOK, RegisterConverter
  <2> QED BY <1>9, <2>1, <2>3 DEF TypeInv, DataTyped, RegisterConverter
<1> QED BY <1>1, <1>2, <1>3, <1>5, <1>6, <1>7, <1>8, <1>9 DEF Using, TypeInv

\* The steps of an export change nothing else but the history.
LEMMA ExportLeaves ==
  ASSUME Exporting
  PROVE  /\ UNCHANGED <<objects, changes, disturbed, converters>>
         /\ touched' = IF phase = "idle" THEN {} ELSE touched
BY DEF Exporting, Sorting, BeginExport, FetchClass, FilterObject, Descend, Insert, EndFilter,
       ReadList, Convert, WriteObject, EndExport, exportOf

\* Fail leaves a typed state.
LEMMA FailTyped ==
  ASSUME TypeInv, Fail, UNCHANGED <<exportOf, touched>>
  PROVE  TypeInv'
<1>1. tree' \in Seq(Exported) /\ Len(tree') = whole
  BY DEF TypeInv, TypeOK, DataTyped, Fail
<1>2. items' = << >> /\ Len(items') = 0 /\ items' \in Seq(Converted)
  BY DEF Fail
<1>3. TypeOK'
  BY <1>1, <1>2 DEF TypeInv, TypeOK, DataTyped, Fail, NoNext, exportOf, objects
<1>4. DataTyped'
  BY <1>1, <1>2 DEF TypeInv, TypeOK, DataTyped, Fail, exportOf
<1> QED BY <1>3, <1>4 DEF TypeInv
\* What a relationship is exported as.
LEMMA RefExported ==
  ASSUME TypeInv, NEW o \in exists
  PROVE  /\ ExportedRef(o) \in Refs
         /\ ref[o] = None =>
              ExportedRef(o) = IF IsMany(RefCardinality) THEN <<Marker>> ELSE <<None>>
         /\ ref[o] # None => ExportedRef(o) = <<FullName(ref[o])>>
<1>1. CASE ref[o] = None
  BY <1>1, MarkerAssumption DEF ExportedRef, Items, Refs
<1>2. CASE ref[o] # None
  <2>1. o \in Objects /\ ref[o] \in Objects
    BY <1>2 DEF TypeInv, TypeOK
  <2>2. FullName(ref[o]) \in Classes \X Ids
    BY <2>1, ClassesAssumption DEF TypeInv, TypeOK, FullName
  <2>3. <<FullName(ref[o])>> # << >>
    OBVIOUS
  <2>4. ExportedRef(o) = <<FullName(ref[o])>>
    BY <1>2, <2>3 DEF ExportedRef, Items
  <2> QED BY <1>2, <2>2, <2>4 DEF Refs
<1> QED BY <1>1, <1>2

\* The entry WriteObject adds.
Entry(o) == [class |-> ClassNames[class], object |-> o, id |-> id[o],
             list |-> Items(items, Marker), since |-> since, ref |-> ExportedRef(o)]

LEMMA EntryTyped ==
  ASSUME TypeInv, queue # << >>, Head(queue) \in exists
  PROVE  Entry(Head(queue)) \in Exported
<1> DEFINE o == Head(queue)
<1>1. ClassNames[class] \in Classes
  BY ClassInHand DEF TypeInv, DataTyped
<1>2. o \in Objects /\ id[o] \in Ids
  BY DEF TypeInv, TypeOK
<1>3. Items(items, Marker) \in Seq(Converted) \cup {<<Marker>>}
  BY DEF Items, TypeInv, DataTyped
<1>4. since \in Nat
  BY DEF TypeInv, TypeOK, DataTyped
<1> QED BY <1>1, <1>2, <1>3, <1>4, RefExported DEF Entry, Exported

\* Objects being sorted stay objects, and places in the queue.
LEMMA SortingTyped == ASSUME TypeInv, Sorting PROVE TypeInv'
<1> USE DEF exportOf, objects
<1>1. ASSUME NEW o \in Objects, FilterObject(o) PROVE TypeInv'
  <2>1. CASE Fail
    BY <1>1, <2>1, FailTyped DEF FilterObject
  <2>2. CASE ~ Fail
    <3>1. Len(queue) \in Nat /\ class >= 1
      BY <1>1 DEF FilterObject, TypeInv, TypeOK, DataTyped
    <3>2. DataTyped'
      BY <1>1, <2>2, <3>1 DEF FilterObject, TypeInv, DataTyped
    <3>3. CASE phase' = "insert"
      <4>1. phase' = "insert" /\ next' = o /\ low' = 0 /\ high' = Len(queue)
        BY <1>1, <2>2, <3>3 DEF FilterObject
      <4> QED BY <1>1, <2>2, <3>1, <3>2, <4>1 DEF FilterObject, TypeInv, TypeOK
    <3>4. CASE phase' # "insert"
      <4>1. UNCHANGED <<phase, next, low, high>>
        BY <1>1, <2>2, <3>4 DEF FilterObject
      <4> QED BY <1>1, <2>2, <3>2, <4>1 DEF FilterObject, TypeInv, TypeOK
    <3> QED BY <3>3, <3>4
  <2> QED BY <2>1, <2>2
<1>2. ASSUME NEW p, Descend(p) PROVE TypeInv'
  <2>1. low' \in 0 .. high' /\ high' \in 0 .. Len(queue)
    BY <1>2 DEF Descend, TypeInv, TypeOK
  <2> QED BY <1>2, <2>1 DEF Descend, TypeInv, TypeOK, DataTyped
<1>3. CASE Insert
  <2>1. next \in Objects /\ low \in 0 .. Len(queue) /\ queue \in Seq(Objects)
    BY <1>3 DEF Insert, TypeInv, TypeOK
  <2>2. queue' = queue \/ queue' = WithAfter(queue, low, next)
    BY <1>3 DEF Insert, WithAfter
  <2>3. queue' \in Seq(Objects) /\ Len(queue') \in Nat
    BY <2>1, <2>2, Inserted
  <2>4. class >= 1
    BY <1>3 DEF Insert, TypeInv, DataTyped
  <2>5. DataTyped'
    BY <1>3, <2>4 DEF Insert, TypeInv, DataTyped
  <2>6. /\ phase' = "filter" /\ next' = None /\ low' = 0 /\ high' = 0
        /\ UNCHANGED <<objects, changes, disturbed, converters, touched, class, found, items, at,
                       since, tree, whole>>
    BY <1>3 DEF Insert, NoNext
  <2>7. TypeOK'
    BY <2>3, <2>6 DEF TypeInv, TypeOK
  <2> QED BY <2>5, <2>7 DEF TypeInv
<1>4. CASE EndFilter
  BY <1>4 DEF EndFilter, sorting, TypeInv, TypeOK, DataTyped
<1> QED BY <1>1, <1>2, <1>3, <1>4 DEF Sorting

LEMMA ExportingTyped == ASSUME TypeInv, Exporting PROVE TypeInv'
<1> USE DEF exportOf, objects, sorting
<1>1. CASE BeginExport
  BY <1>1 DEF BeginExport, TypeInv, TypeOK, DataTyped
<1>2. CASE FetchClass
  <2>1. class' \in 1 .. Len(ClassNames) /\ whole' \in 0 .. Len(tree)
    BY <1>2, ClassesAssumption DEF FetchClass, TypeInv, TypeOK, DataTyped
  <2>2. found' \subseteq Objects
    BY <1>2 DEF FetchClass, TypeInv, TypeOK
  <2> QED BY <1>2, <2>1, <2>2 DEF FetchClass, TypeInv, TypeOK, DataTyped
<1>3. CASE Sorting
  BY <1>3, SortingTyped
<1>4. CASE ReadList
  <2>1. CASE Fail
    BY <1>4, <2>1, FailTyped DEF ReadList
  <2>2. CASE ~ Fail
    <3>1. list[Head(queue)] \in Lists
      BY <1>4, <2>2 DEF ReadList, TypeInv, TypeOK
    <3>2. items' \in Seq(Converted) /\ at' = 1 /\ since' = Len(converters)
      BY <1>4, <2>2, <3>1, ListTyped DEF ReadList
    <3>3. since' \in 0 .. Len(converters) /\ at' \in 1 .. Len(items') + 1
      BY <3>2 DEF TypeInv, DataTyped
    <3> QED BY <1>4, <2>2, <3>2, <3>3 DEF ReadList, TypeInv, TypeOK, DataTyped
  <2> QED BY <2>1, <2>2
<1>5. CASE Convert
  <2>1. at \in 1 .. Len(items) /\ items[at] \in Converted
    BY <1>5 DEF Convert, TypeInv, DataTyped
  <2>2. items' \in Seq(Converted) /\ Len(items') = Len(items)
    <3>1. CASE Len(items[at].by) < Len(converters)
      <4>1. items[at].by \in Seq(Converters) /\ items[at].raw \in Values
        BY <2>1 DEF Converted
      <4>2. NextConverter(items[at].by) \in Converters
        BY <3>1, <4>1 DEF NextConverter, TypeInv, DataTyped
      <4> DEFINE by == Append(items[at].by, NextConverter(items[at].by))
      <4>3. [items[at] EXCEPT !.by = by] \in Converted
        BY <2>1, <4>1, <4>2 DEF Converted
      <4>4. items' = [items EXCEPT ![at] = [items[at] EXCEPT !.by = by]]
        BY <1>5, <3>1 DEF Convert
      <4> HIDE DEF by
      <4> QED BY <2>1, <4>3, <4>4 DEF TypeInv, DataTyped
    <3>2. CASE ~ Len(items[at].by) < Len(converters)
      BY <1>5, <3>2 DEF Convert, TypeInv, DataTyped
    <3> QED BY <3>1, <3>2
  <2>3. at' \in 1 .. Len(items') + 1
    BY <1>5, <2>1, <2>2 DEF Convert, TypeInv, TypeOK, DataTyped
  <2> QED BY <1>5, <2>2, <2>3 DEF Convert, TypeInv, TypeOK, DataTyped
<1>6. CASE WriteObject
  <2>1. CASE Fail
    BY <1>6, <2>1, FailTyped DEF WriteObject
  <2>2. CASE ~ Fail
    <3>1. /\ Head(queue) \in exists /\ tree' = Append(tree, Entry(Head(queue)))
          /\ queue' = Tail(queue) /\ phase = "convert" /\ phase' = "read"
          /\ items' = << >> /\ at' = 1 /\ since' = 0
          /\ UNCHANGED <<exportOf, touched, class, found, next, low, high, whole>>
      BY <1>6, <2>2 DEF WriteObject, Entry
    <3>4. queue' \in Seq(Objects) /\ low = 0 /\ high = 0
      BY <3>1, HeadAndTail DEF TypeInv, TypeOK, DataTyped
    <3>2. tree' \in Seq(Exported) /\ Len(tree') = Len(tree) + 1
      BY <3>1, EntryTyped DEF TypeInv, DataTyped
    <3>3. whole' \in 0 .. Len(tree')
      BY <3>1, <3>2 DEF TypeInv, TypeOK, DataTyped
    <3> QED BY <3>1, <3>2, <3>3, <3>4 DEF TypeInv, TypeOK, DataTyped
  <2> QED BY <2>1, <2>2
<1>7. CASE EndExport
  BY <1>7 DEF EndExport, TypeInv, TypeOK, DataTyped
<1> QED BY <1>1, <1>2, <1>3, <1>4, <1>5, <1>6, <1>7 DEF Exporting

LEMMA TypeStep == TypeInv /\ [Next]_vars => TypeInv'
<1> SUFFICES ASSUME TypeInv, [Next]_vars PROVE TypeInv'
  OBVIOUS
<1>1. CASE UNCHANGED vars
  BY <1>1 DEF vars, objects, history, export, sorting, TypeInv, TypeOK, DataTyped
<1> QED BY <1>1, UsersTyped, ExportingTyped DEF Next

\* TypeOK: the variables keep their types; no object refers to one that was destroyed.
THEOREM AccessTyped == Spec => []TypeOK
<1>1. TypeInv => TypeOK
  BY DEF TypeInv
<1> QED BY <1>1, TypeInit, TypeStep, PTL DEF Spec
-----------------------------------------------------------------------------
(***************************************************************************)
(* CONVERTERS                                                              *)
(***************************************************************************)
\* these are the first of the converters
Ordered(by) == /\ Len(by) <= Len(converters)
               /\ \A i \in 1 .. Len(by) : by[i] = converters[i]

ItemsOrdered ==
  \A k \in DOMAIN items :
    Ordered(items[k].by) /\ (k < at => Len(items[k].by) >= since)

TreeOrdered ==
  \A n \in DOMAIN tree : tree[n].list # <<Marker>> =>
    \A k \in DOMAIN tree[n].list :
      Ordered(tree[n].list[k].by) /\ Len(tree[n].list[k].by) >= tree[n].since

OrderInv == ItemsOrdered /\ TreeOrdered

\* More converters do not undo the order.
LEMMA OrderedStays ==
  ASSUME TypeInv, UNCHANGED converters \/ \E c \in Converters : RegisterConverter(c),
         NEW by \in Seq(Converters), Ordered(by)
  PROVE  Ordered(by)'
<1>1. /\ Len(converters) <= Len(converters')
      /\ \A i \in 1 .. Len(converters) : converters'[i] = converters[i]
      /\ Len(converters) \in Nat /\ Len(converters') \in Nat
  <2>1. converters \in Seq(Converters)
    BY DEF TypeInv, DataTyped
  <2>2. CASE UNCHANGED converters
    BY <2>1, <2>2
  <2>3. ASSUME NEW c \in Converters, converters' = Append(converters, c)
        PROVE  /\ Len(converters') = Len(converters) + 1
               /\ \A i \in 1 .. Len(converters) : converters'[i] = converters[i]
    BY <2>1, <2>3
  <2>4. CASE \E c \in Converters : RegisterConverter(c)
    <3>1. PICK c \in Converters : converters' = Append(converters, c)
      BY <2>4 DEF RegisterConverter
    <3> QED BY <2>1, <2>3, <3>1
  <2> QED BY <2>2, <2>4
<1> QED BY <1>1 DEF Ordered

LEMMA ItemTyped ==
  ASSUME TypeInv, NEW k \in DOMAIN items PROVE items[k].by \in Seq(Converters)
<1>1. items[k] \in Converted
  BY DEF TypeInv, DataTyped
<1> QED BY <1>1 DEF Converted

LEMMA OrderUsers ==
  ASSUME TypeInv, OrderInv, UNCHANGED export,
         UNCHANGED converters \/ \E c \in Converters : RegisterConverter(c)
  PROVE  OrderInv'
<1>1. UNCHANGED <<items, at, since, tree>>
  BY DEF export
<1>2. ItemsOrdered'
  <2>1. \A k \in DOMAIN items : items[k].by \in Seq(Converters)
    BY ItemTyped
  <2>2. \A k \in DOMAIN items : Ordered(items[k].by)'
    BY <1>1, <2>1, OrderedStays DEF OrderInv, ItemsOrdered
  <2> QED BY <1>1, <2>2 DEF OrderInv, ItemsOrdered
<1>3. TreeOrdered'
  <2> SUFFICES ASSUME NEW n \in DOMAIN tree, tree[n].list # <<Marker>>,
                      NEW k \in DOMAIN tree[n].list
               PROVE  Ordered(tree[n].list[k].by)' /\ Len(tree[n].list[k].by) >= tree[n].since
    BY <1>1 DEF TreeOrdered
  <2>1. tree[n] \in Exported
    BY DEF TypeInv, DataTyped
  <2>2. tree[n].list[k] \in Converted
    BY <2>1 DEF Exported
  <2>3. tree[n].list[k].by \in Seq(Converters)
    BY <2>2 DEF Converted
  <2> QED BY <1>1, <2>3, OrderedStays DEF OrderInv, TreeOrdered
<1> QED BY <1>2, <1>3 DEF OrderInv

\* Fail keeps a part of the tree, and no values.
LEMMA OrderFail ==
  ASSUME TypeInv, OrderInv, Fail, UNCHANGED <<exportOf, touched>>
  PROVE  OrderInv'
<1>1. UNCHANGED converters /\ items' = << >>
  BY DEF Fail, exportOf
<1>2. \A n \in DOMAIN tree' : n \in DOMAIN tree /\ tree'[n] = tree[n]
  BY DEF TypeInv, TypeOK, DataTyped, Fail
<1> QED BY <1>1, <1>2 DEF OrderInv, ItemsOrdered, TreeOrdered, Ordered

LEMMA OrderExporting == ASSUME TypeInv, OrderInv, Exporting PROVE OrderInv'
<1>1. UNCHANGED converters
  BY ExportLeaves
<1>2. ASSUME UNCHANGED <<items, at, since, tree>> PROVE OrderInv'
  BY <1>1, <1>2 DEF OrderInv, ItemsOrdered, TreeOrdered, Ordered
<1>3. ASSUME UNCHANGED tree, ItemsOrdered' PROVE OrderInv'
  BY <1>1, <1>3 DEF OrderInv, TreeOrdered, Ordered
<1>4. CASE BeginExport \/ FetchClass \/ EndExport
  BY <1>2, <1>4 DEF BeginExport, FetchClass, EndExport
<1>5. CASE Sorting
  <2>1. Fail \/ UNCHANGED <<items, at, since, tree>>
    BY <1>5 DEF Sorting, FilterObject, Descend, Insert, EndFilter
  <2>2. UNCHANGED <<exportOf, touched>>
    BY <1>5 DEF Sorting, FilterObject, Descend, Insert, EndFilter
  <2> QED BY <1>2, <2>1, <2>2, OrderFail
<1>6. CASE ReadList
  <2>1. CASE Fail
    BY <1>6, <2>1, OrderFail DEF ReadList
  <2>2. CASE ~ Fail
    <3>1. /\ items' = [i \in DOMAIN list[Head(queue)] |->
                        [raw |-> list[Head(queue)][i], by |-> << >>]]
          /\ at' = 1 /\ UNCHANGED tree /\ list[Head(queue)] \in Lists
      BY <1>6, <2>2 DEF ReadList, TypeInv, TypeOK
    <3>2. DOMAIN items' \subseteq Nat \ {0} /\ \A k \in DOMAIN items' : items'[k].by = << >>
      BY <3>1, ListTyped
    <3>3. ItemsOrdered'
      BY <1>1, <3>1, <3>2 DEF ItemsOrdered, Ordered, TypeInv, DataTyped
    <3> QED BY <1>3, <3>1, <3>3
  <2> QED BY <2>1, <2>2
<1>7. CASE Convert
  <2>1. /\ at \in 1 .. Len(items) /\ UNCHANGED <<since, tree>>
        /\ items[at].by \in Seq(Converters)
    BY <1>7, ItemTyped DEF Convert, TypeInv, DataTyped
  <2>2. CASE Len(items[at].by) < Len(converters)
    <3> DEFINE by == Append(items[at].by, NextConverter(items[at].by))
    <3>1. items' = [items EXCEPT ![at] = [items[at] EXCEPT !.by = by]] /\ at' = at
      BY <1>7, <2>2 DEF Convert
    <3>2. Ordered(items[at].by)
      BY <2>1 DEF OrderInv, ItemsOrdered
    <3>3. Ordered(by)
      BY <2>1, <2>2, <3>2 DEF Ordered, NextConverter, TypeInv, DataTyped
    <3>4. items'[at].by = by
      BY <2>1, <3>1 DEF TypeInv, DataTyped, Converted
    <3>5. DOMAIN items' = DOMAIN items /\ \A k \in DOMAIN items : k # at => items'[k] = items[k]
      BY <3>1
    <3> HIDE DEF by
    <3>6. ItemsOrdered'
      <4> SUFFICES ASSUME NEW k \in DOMAIN items
                   PROVE  /\ Ordered(items'[k].by)
                          /\ k < at => Len(items'[k].by) >= since
        BY <1>1, <2>1, <3>1, <3>5 DEF ItemsOrdered, Ordered
      <4>1. CASE k = at
        BY <3>3, <3>4, <4>1, <2>1
      <4>2. CASE k # at
        BY <3>5, <4>2 DEF OrderInv, ItemsOrdered
      <4> QED BY <4>1, <4>2
    <3> QED BY <1>3, <2>1, <3>6
  <2>3. CASE ~ Len(items[at].by) < Len(converters)
    <3>1. Len(items[at].by) >= since
      BY <2>1, <2>3 DEF TypeInv, TypeOK, DataTyped
    <3>2. at' = at + 1 /\ UNCHANGED items
      BY <1>7, <2>3 DEF Convert
    <3>3. ItemsOrdered'
      BY <1>1, <2>1, <3>1, <3>2 DEF OrderInv, ItemsOrdered, Ordered, TypeInv, DataTyped
    <3> QED BY <1>3, <2>1, <3>3
  <2> QED BY <2>2, <2>3
<1>8. CASE WriteObject
  <2>1. CASE Fail
    BY <1>8, <2>1, OrderFail DEF WriteObject
  <2>2. CASE ~ Fail
    <3>1. /\ tree' = Append(tree, Entry(Head(queue))) /\ items' = << >>
          /\ at = Len(items) + 1
      BY <1>8, <2>2 DEF WriteObject, Entry
    <3>2. \A k \in DOMAIN items : Ordered(items[k].by) /\ Len(items[k].by) >= since
      BY <3>1 DEF OrderInv, ItemsOrdered, TypeInv, DataTyped
    <3>3. Items(items, Marker) # <<Marker>> => Items(items, Marker) = items
      BY DEF Items
    <3>4. TreeOrdered'
      <4> SUFFICES ASSUME NEW n \in DOMAIN tree', tree'[n].list # <<Marker>>,
                          NEW k \in DOMAIN tree'[n].list
                   PROVE  /\ Ordered(tree'[n].list[k].by)
                          /\ Len(tree'[n].list[k].by) >= tree'[n].since
        BY <1>1 DEF TreeOrdered, Ordered
      <4>1. CASE n = Len(tree) + 1
        <5>1. tree'[n] = Entry(Head(queue))
          BY <3>1, <4>1 DEF TypeInv, DataTyped
        <5>2. tree'[n].list = Items(items, Marker) /\ tree'[n].since = since
          BY <5>1 DEF Entry
        <5> QED BY <3>2, <3>3, <5>2
      <4>2. CASE n # Len(tree) + 1
        <5>1. n \in DOMAIN tree /\ tree'[n] = tree[n]
          BY <3>1, <4>2 DEF TypeInv, DataTyped
        <5> QED BY <5>1 DEF OrderInv, TreeOrdered
      <4> QED BY <4>1, <4>2
    <3>5. ItemsOrdered'
      BY <3>1 DEF ItemsOrdered
    <3> QED BY <3>4, <3>5 DEF OrderInv
  <2> QED BY <2>1, <2>2
<1> QED BY <1>4, <1>5, <1>6, <1>7, <1>8 DEF Exporting

LEMMA OrderStep == TypeInv /\ OrderInv /\ [Next]_vars => OrderInv'
<1> SUFFICES ASSUME TypeInv, OrderInv, [Next]_vars PROVE OrderInv'
  OBVIOUS
<1>1. CASE UNCHANGED vars
  BY <1>1, OrderUsers DEF vars
<1>2. CASE Using
  <2>1. UNCHANGED converters \/ \E c \in Converters : RegisterConverter(c)
    BY <1>2 DEF Using, SetList, SetRef, Rename, Move, Destroy, Create
  <2> QED BY <1>2, <2>1, UsersTyped, OrderUsers
<1> QED BY <1>1, <1>2, OrderExporting DEF Next

\* ConvertedInOrder: a value that was exported has gone through the converters in the order
\* of their registration, however many were registered while it was converted.
THEOREM ConvertersInOrder == Spec => []ConvertedInOrder
<1>1. Init => OrderInv
  BY DEF Init, OrderInv, ItemsOrdered, TreeOrdered
<1>2. TypeInv /\ OrderInv => ConvertedInOrder
  <2> SUFFICES ASSUME TypeInv, OrderInv, NEW n \in DOMAIN tree, tree[n].list # <<Marker>>,
                      NEW k \in DOMAIN tree[n].list
               PROVE  LET by == tree[n].list[k].by
                      IN Len(by) >= tree[n].since /\ by = SubSeq(converters, 1, Len(by))
    BY DEF ConvertedInOrder
  <2> DEFINE by == tree[n].list[k].by
  <2>1. tree[n] \in Exported
    BY DEF TypeInv, DataTyped
  <2>2. tree[n].list[k] \in Converted
    BY <2>1 DEF Exported
  <2>3. by \in Seq(Converters)
    BY <2>2 DEF Converted
  <2>4. Ordered(by) /\ Len(by) >= tree[n].since
    BY DEF OrderInv, TreeOrdered
  <2> HIDE DEF by
  <2>5. by = SubSeq(converters, 1, Len(by))
    BY <2>3, <2>4 DEF Ordered, TypeInv, DataTyped
  <2> QED BY <2>4, <2>5 DEF by
<1> QED BY <1>1, <1>2, TypeInit, TypeStep, OrderStep, PTL DEF Spec
-----------------------------------------------------------------------------
(***************************************************************************)
(* THE QUEUE AND THE OBJECT IN HAND                                        *)
(***************************************************************************)
IdsUnique == \A o, p \in Objects : id[o] = id[p] => o = p

\* An object is still to be looked at, being inserted, or waits in one place.
QueueInv ==
  /\ \A i, j \in 1 .. Len(queue) : queue[i] = queue[j] => i = j
  /\ \A i \in 1 .. Len(queue) : queue[i] \notin found /\ queue[i] # next
  /\ next \notin found
  /\ phase \in {"idle", "done", "failed"} => queue = << >>

PhaseInv ==
  /\ phase = "idle" => class = 0
  /\ class = 0 => tree = << >>
  /\ phase = "done" => class = Len(ClassNames)
  /\ phase \notin {"filter", "insert"} => found = {}
  /\ found # {} => ClassNames[class] \in SomeClasses

\* The values being converted are those of the object in hand, unless it was touched.
HandInv ==
  phase = "convert" /\ Head(queue) \notin touched =>
    /\ DOMAIN items = DOMAIN list[Head(queue)]
    /\ \A k \in DOMAIN items : items[k].raw = list[Head(queue)][k]

WorkInv == IdsUnique /\ QueueInv /\ PhaseInv /\ HandInv

\* Users touch the objects they change.
LEMMA UsersTouch ==
  ASSUME TypeInv, Using
  PROVE  /\ touched \subseteq touched'
         /\ \A o \in Objects \ touched' :
              /\ o \in exists <=> o \in exists'
              /\ id'[o] = id[o] /\ file'[o] = file[o] /\ list'[o] = list[o] /\ ref'[o] = ref[o]
<1> DEFINE Left == /\ touched \subseteq touched'
                   /\ \A o \in Objects \ touched' :
                        /\ o \in exists <=> o \in exists'
                        /\ id'[o] = id[o] /\ file'[o] = file[o]
                        /\ list'[o] = list[o] /\ ref'[o] = ref[o]
<1> USE DEF TypeInv, TypeOK, Change, objects, history
<1>1. ASSUME NEW o, NEW values, SetList(o, values) PROVE Left
  BY <1>1 DEF SetList
<1>2. ASSUME NEW o, NEW target, SetRef(o, target) PROVE Left
  BY <1>2 DEF SetRef
<1>3. ASSUME NEW o, NEW new_id, Rename(o, new_id) PROVE Left
  BY <1>3 DEF Rename
<1>5. ASSUME NEW o, NEW to, Move(o, to) PROVE Left
  BY <1>5 DEF Move
<1>6. ASSUME NEW o, Destroy(o) PROVE Left
  BY <1>6 DEF Destroy
<1>7. ASSUME NEW o, NEW to, NEW values, Create(o, to, values) PROVE Left
  BY <1>7 DEF Create
<1>8. ASSUME NEW c, RegisterConverter(c) PROVE Left
  BY <1>8 DEF RegisterConverter
<1> HIDE DEF Left
<1>9. Left
  BY <1>1, <1>2, <1>3, <1>5, <1>6, <1>7, <1>8 DEF Using
<1> QED BY <1>9 DEF Left

\* Of the steps of users, only Rename changes ids; a class in which it changes one that is
\* compared is disturbed.
LEMMA UsersDisturb ==
  ASSUME TypeInv, Using
  PROVE  /\ disturbed \subseteq disturbed'
         /\ phase \in {"filter", "insert"} /\ ClassNames[class] \notin disturbed' =>
              \A o \in Objects : o \in Compared => id'[o] = id[o]
<1>1. CASE UNCHANGED <<id, disturbed>>
  BY <1>1
<1>2. ASSUME NEW o \in Objects, NEW new_id \in Ids, Rename(o, new_id)
      PROVE  /\ disturbed \subseteq disturbed'
             /\ phase \in {"filter", "insert"} /\ ClassNames[class] \notin disturbed' =>
                  \A p \in Objects : p \in Compared => id'[p] = id[p]
  <2>1. \A p \in Objects : p # o => id'[p] = id[p]
    BY <1>2 DEF Rename, TypeInv, TypeOK
  <2> QED BY <1>2, <2>1 DEF Rename
<1> QED BY <1>1, <1>2
        DEF Using, SetList, SetRef, Move, Create, Destroy, RegisterConverter, objects

LEMMA UsersUnique ==
  ASSUME TypeInv, IdsUnique, Using
  PROVE  IdsUnique'
<1>1. CASE UNCHANGED id
  BY <1>1 DEF IdsUnique
<1>2. ASSUME NEW o \in Objects, NEW new_id \in Ids, Rename(o, new_id)
      PROVE  IdsUnique'
  BY <1>2 DEF IdsUnique, Rename, TypeInv, TypeOK
<1> QED BY <1>1, <1>2
        DEF Using, SetList, SetRef, Move, Create, Destroy, RegisterConverter, objects

LEMMA WorkUsers ==
  ASSUME TypeInv, WorkInv, Using
  PROVE  WorkInv'
<1>1. UNCHANGED <<phase, class, found, queue, next, items, tree>>
  BY UsersTyped DEF export, sorting
<1>2. QueueInv'
  BY <1>1 DEF WorkInv, QueueInv
<1>3. PhaseInv'
  BY <1>1 DEF WorkInv, PhaseInv
<1>4. HandInv'
  <2>1. phase = "convert" => Head(queue) \in Objects
    BY HeadAndTail DEF TypeInv, TypeOK, DataTyped
  <2> QED BY <1>1, <2>1, UsersTouch DEF WorkInv, HandInv
<1> QED BY <1>2, <1>3, <1>4, UsersUnique DEF WorkInv

LEMMA WorkFail ==
  ASSUME TypeInv, WorkInv, Fail, UNCHANGED <<exportOf, touched>> PROVE WorkInv'
<1>1. tree = << >> => tree' = << >>
  BY DEF Fail, TypeInv, TypeOK
<1>2. /\ UNCHANGED <<id, class>> /\ phase' = "failed" /\ found' = {} /\ queue' = << >>
      /\ Len(queue') = 0
  BY DEF Fail, exportOf, objects
<1> QED BY <1>1, <1>2 DEF WorkInv, IdsUnique, QueueInv, PhaseInv, HandInv

\* What Insert makes of the queue.
LEMMA QueueInserted ==
  ASSUME TypeInv, Insert
  PROVE  /\ next \in Objects /\ low \in 0 .. Len(queue) /\ Len(queue) \in Nat
         /\ \/ UNCHANGED queue /\ ~ (low = 0 \/ Precedes(queue[low], next))
            \/ /\ Len(queue') = Len(queue) + 1
               /\ \A i \in 1 .. Len(queue) + 1 :
                    queue'[i] = IF i <= low THEN queue[i]
                                ELSE IF i = low + 1 THEN next ELSE queue[i - 1]
<1>1. next \in Objects /\ low \in 0 .. Len(queue) /\ queue \in Seq(Objects)
  BY DEF Insert, TypeInv, TypeOK
<1>2. \/ UNCHANGED queue /\ ~ (low = 0 \/ Precedes(queue[low], next))
      \/ queue' = WithAfter(queue, low, next)
  BY DEF Insert, WithAfter
<1>3. /\ Len(WithAfter(queue, low, next)) = Len(queue) + 1
      /\ \A i \in 1 .. Len(queue) + 1 :
           WithAfter(queue, low, next)[i] =
             IF i <= low THEN queue[i] ELSE IF i = low + 1 THEN next ELSE queue[i - 1]
  <2>1. ASSUME NEW i \in 1 .. Len(queue) + 1
        PROVE  WithAfter(queue, low, next)[i] =
                 IF i <= low THEN queue[i] ELSE IF i = low + 1 THEN next ELSE queue[i - 1]
    BY <1>1, Inserted
  <2>2. Len(WithAfter(queue, low, next)) = Len(queue) + 1
    BY <1>1, Inserted
  <2> QED BY <2>1, <2>2
<1>4. CASE queue' = WithAfter(queue, low, next)
  BY <1>1, <1>3, <1>4
<1>5. CASE queue' # WithAfter(queue, low, next)
  BY <1>1, <1>2, <1>5
<1> QED BY <1>4, <1>5

LEMMA WorkSorting == ASSUME TypeInv, WorkInv, Sorting PROVE WorkInv'
<1> USE DEF WorkInv, exportOf, objects
<1>1. UNCHANGED <<id, class>>
  BY DEF Sorting, FilterObject, Descend, Insert, EndFilter, Fail
<1>2. IdsUnique'
  BY <1>1 DEF IdsUnique
<1>3. ASSUME phase' # "convert" PROVE HandInv'
  BY <1>3 DEF HandInv
<1>4. ASSUME NEW o \in Objects, FilterObject(o), ~ Fail PROVE WorkInv'
  <2>1. /\ found' = found \ {o} /\ o \in found /\ UNCHANGED <<queue, tree>>
        /\ next' = o \/ UNCHANGED next
        /\ phase = "filter" /\ phase' \in {"filter", "insert"}
    BY <1>4 DEF FilterObject
  <2>2. QueueInv'
    BY <2>1 DEF QueueInv
  <2> QED BY <1>1, <1>2, <1>3, <2>1, <2>2 DEF PhaseInv
<1>5. ASSUME NEW p, Descend(p) PROVE WorkInv'
  BY <1>1, <1>2, <1>3, <1>5 DEF Descend, QueueInv, PhaseInv
<1>6. CASE Insert
  <2>1. /\ phase = "insert" /\ phase' = "filter" /\ next' = None /\ UNCHANGED <<found, tree>>
    BY <1>6 DEF Insert, NoNext
  <2>2. found \subseteq Objects /\ \A i \in 1 .. Len(queue) : queue[i] \in Objects
    BY DEF TypeInv, TypeOK
  <2>3. QueueInv'
    <3>1. CASE UNCHANGED queue
      BY <2>1, <2>2, <3>1, NoneAssumption DEF QueueInv
    <3>2. CASE ~ UNCHANGED queue
      <4>1. /\ next \in Objects /\ low \in 0 .. Len(queue) /\ Len(queue) \in Nat
            /\ Len(queue') = Len(queue) + 1
            /\ \A i \in 1 .. Len(queue) + 1 :
                 queue'[i] = IF i <= low THEN queue[i]
                             ELSE IF i = low + 1 THEN next ELSE queue[i - 1]
        BY <1>6, <3>2, QueueInserted
      <4>2. \A i \in 1 .. Len(queue) + 1 :
              \/ i <= low /\ i \in 1 .. Len(queue)
              \/ i = low + 1
              \/ i > low + 1 /\ i - 1 \in 1 .. Len(queue)
        BY <4>1
      <4>3. \A i, j \in 1 .. Len(queue') : queue'[i] = queue'[j] => i = j
        BY <4>1, <4>2 DEF QueueInv
      <4>4. \A i \in 1 .. Len(queue') : queue'[i] \in Objects /\ queue'[i] \notin found
        BY <2>2, <4>1, <4>2 DEF QueueInv
      <4> QED BY <2>1, <2>2, <4>3, <4>4, NoneAssumption DEF QueueInv
    <3> QED BY <3>1, <3>2
  <2> QED BY <1>1, <1>2, <1>3, <2>1, <2>3 DEF PhaseInv
<1>7. CASE EndFilter
  BY <1>1, <1>2, <1>3, <1>7 DEF EndFilter, sorting, QueueInv, PhaseInv
<1>8. CASE Fail
  <2>1. UNCHANGED <<exportOf, touched>>
    BY DEF Sorting, FilterObject, Descend, Insert, EndFilter
  <2> QED BY <1>8, <2>1, WorkFail
<1> QED BY <1>4, <1>5, <1>6, <1>7, <1>8 DEF Sorting

LEMMA WorkExporting == ASSUME TypeInv, WorkInv, Exporting PROVE WorkInv'
<1> USE DEF WorkInv, exportOf, objects, sorting
<1>1. IdsUnique'
  BY ExportLeaves DEF IdsUnique
<1>2. CASE BeginExport
  BY <1>1, <1>2 DEF BeginExport, QueueInv, PhaseInv, HandInv
<1>3. CASE FetchClass
  <2>1. class' # 0 /\ Len(queue') = 0
    BY <1>3 DEF FetchClass, TypeInv, TypeOK
  <2>2. next = None /\ found' \subseteq Objects
    BY <1>3 DEF FetchClass, TypeInv, TypeOK
  <2>3. QueueInv'
    BY <1>3, <2>1, <2>2, NoneAssumption DEF FetchClass, QueueInv
  <2>4. PhaseInv'
    BY <1>3, <2>1 DEF FetchClass, PhaseInv
  <2> QED BY <1>1, <1>3, <2>3, <2>4 DEF FetchClass, HandInv
<1>4. CASE Sorting
  BY <1>4, WorkSorting
<1>5. CASE ReadList
  <2>1. CASE Fail
    BY <1>5, <2>1, WorkFail DEF ReadList
  <2>2. CASE ~ Fail
    <3>2. HandInv'
      BY <1>5, <2>2 DEF ReadList, HandInv
    <3> QED BY <1>1, <1>5, <2>2, <3>2 DEF ReadList, QueueInv, PhaseInv
  <2> QED BY <2>1, <2>2
<1>6. CASE Convert
  <2>2. DOMAIN items' = DOMAIN items /\ \A k \in DOMAIN items : items'[k].raw = items[k].raw
    <3>1. \A k \in DOMAIN items : items[k] \in Converted
      BY DEF TypeInv, DataTyped
    <3> QED BY <1>6, <3>1 DEF Convert, Converted
  <2>3. HandInv'
    BY <1>6, <2>2 DEF Convert, HandInv
  <2> QED BY <1>1, <1>6, <2>3 DEF Convert, QueueInv, PhaseInv
<1>7. CASE WriteObject
  <2>1. CASE Fail
    BY <1>7, <2>1, WorkFail DEF WriteObject
  <2>2. CASE ~ Fail
    <3>1. /\ queue' = Tail(queue) /\ UNCHANGED <<found, next, class>> /\ class >= 1
          /\ phase = "convert" /\ phase' = "read"
      BY <1>7, <2>2 DEF WriteObject, TypeInv, DataTyped
    <3>2. /\ Len(queue) \in Nat \ {0} /\ Len(queue') = Len(queue) - 1
          /\ \A i \in 1 .. Len(queue) - 1 : queue'[i] = queue[i + 1]
      BY <3>1, HeadAndTail DEF TypeInv, TypeOK, DataTyped
    <3>3. QueueInv'
      BY <3>1, <3>2 DEF QueueInv
    <3> QED BY <1>1, <3>1, <3>3 DEF PhaseInv, HandInv
  <2> QED BY <2>1, <2>2
<1>8. CASE EndExport
  BY <1>1, <1>8 DEF EndExport, QueueInv, PhaseInv, HandInv
<1> QED BY <1>2, <1>3, <1>4, <1>5, <1>6, <1>7, <1>8 DEF Exporting

LEMMA WorkInit == Init => WorkInv
<1> SUFFICES ASSUME Init PROVE WorkInv
  OBVIOUS
<1>1. IdsUnique
  BY ContentsAssumption DEF Init, IdsUnique
<1>2. Len(queue) = 0
  BY DEF Init
<1> QED BY <1>1, <1>2 DEF Init, WorkInv, QueueInv, PhaseInv, HandInv

LEMMA WorkStep == TypeInv /\ WorkInv /\ [Next]_vars => WorkInv'
<1> SUFFICES ASSUME TypeInv, WorkInv, [Next]_vars PROVE WorkInv'
  OBVIOUS
<1>1. CASE UNCHANGED vars
  <2>1. UNCHANGED <<id, touched, list, phase, class, found, queue, next, items, tree>>
    BY <1>1 DEF vars, objects, history, export, sorting
  <2> QED BY <2>1 DEF WorkInv, IdsUnique, QueueInv, PhaseInv, HandInv
<1> QED BY <1>1, WorkUsers, WorkExporting DEF Next
-----------------------------------------------------------------------------
(***************************************************************************)
(* SORTED BY ID                                                            *)
(***************************************************************************)
\* The class in hand is one whose objects kept their ids while they were sorted.
Steady == class >= 1 /\ ClassNames[class] \notin disturbed

\* The queue is sorted: while the class is being sorted, by the ids the objects have; from
\* then on, but for objects renamed after they were sorted.
Before(o, p) ==
  \/ id[o] < id[p]
  \/ phase \notin {"filter", "insert"} /\ {o, p} \cap touched # {}

QueueSorted ==
  Steady => \A i, j \in 1 .. Len(queue) : i < j => Before(queue[i], queue[j])

\* The object being inserted belongs after the place low, and not after high.
PlaceFound ==
  Steady /\ phase = "insert" => \A i \in 1 .. Len(queue) :
    /\ i <= low => id[queue[i]] < id[next]
    /\ i > high => id[next] < id[queue[i]]

OrderOfIds == QueueSorted /\ PlaceFound

LEMMA OrderOfIdsUsers ==
  ASSUME TypeInv, OrderOfIds, Using PROVE OrderOfIds'
<1>1. UNCHANGED <<phase, class, queue, next, low, high>>
  BY UsersTyped DEF export, sorting
<1>2. Steady' => Steady
  BY <1>1, UsersDisturb DEF Steady
<1>3. \A i \in 1 .. Len(queue) : queue[i] \in Objects /\ queue[i] \in Compared
  BY DEF TypeInv, TypeOK, Compared
<1>4. next \in Compared /\ (phase = "insert" => next \in Objects)
  BY DEF TypeInv, TypeOK, Compared
<1>5. CASE phase \in {"filter", "insert"} /\ Steady'
  <2>1. \A o \in Objects : o \in Compared => id'[o] = id[o]
    BY <1>1, <1>5, UsersDisturb DEF Steady
  <2>2. \A i \in 1 .. Len(queue) : id'[queue[i]] = id[queue[i]]
    BY <1>3, <2>1
  <2>3. phase = "insert" => id'[next] = id[next]
    BY <1>4, <2>1
  <2>4. QueueSorted'
    BY <1>1, <1>2, <1>5, <2>2 DEF OrderOfIds, QueueSorted, Before
  <2>5. PlaceFound'
    BY <1>1, <1>2, <1>5, <2>2, <2>3 DEF OrderOfIds, PlaceFound
  <2> QED BY <2>4, <2>5 DEF OrderOfIds
<1>6. CASE phase \notin {"filter", "insert"}
  <2>1. ASSUME NEW o \in Objects, NEW p \in Objects, Before(o, p) PROVE Before(o, p)'
    BY <1>1, <1>6, <2>1, UsersTouch DEF Before
  <2>2. QueueSorted'
    <3> SUFFICES ASSUME Steady', NEW i \in 1 .. Len(queue), NEW j \in 1 .. Len(queue), i < j
                 PROVE  Before(queue[i], queue[j])'
      BY <1>1 DEF QueueSorted, Before
    <3>1. Before(queue[i], queue[j])
      BY <1>2 DEF OrderOfIds, QueueSorted
    <3>2. \A o, p \in Objects : Before(o, p) => Before(o, p)'
      BY <2>1
    <3> QED BY <1>1, <1>3, <3>1, <3>2 DEF Before
  <2> QED BY <1>1, <1>6, <2>2 DEF OrderOfIds, PlaceFound
<1>7. CASE ~ Steady'
  BY <1>7 DEF OrderOfIds, QueueSorted, PlaceFound
<1> QED BY <1>5, <1>6, <1>7

LEMMA OrderOfIdsSorting ==
  ASSUME TypeInv, WorkInv, OrderOfIds, Sorting PROVE OrderOfIds'
<1>1. UNCHANGED <<id, disturbed, class, touched>> /\ Steady' = Steady
  BY DEF Sorting, FilterObject, Descend, Insert, EndFilter, Fail, exportOf, objects, Steady
<1>2. CASE ~ Steady
  BY <1>1, <1>2 DEF OrderOfIds, QueueSorted, PlaceFound
<1>3. CASE queue' = << >>
  <2>1. Len(queue') = 0
    BY <1>3
  <2> QED BY <2>1 DEF OrderOfIds, QueueSorted, PlaceFound
<1>4. \A i \in 1 .. Len(queue) : queue[i] \in Objects /\ id[queue[i]] \in Nat
  BY BoundAssumption DEF TypeInv, TypeOK, Ids
<1>5. phase = "insert" => next \in Objects /\ id[next] \in Nat
  BY BoundAssumption DEF TypeInv, TypeOK, Ids
<1>6. Len(queue) \in Nat /\ low \in Nat /\ high \in Nat
  BY DEF TypeInv, TypeOK
<1>7. ASSUME NEW o \in Objects, FilterObject(o), ~ Fail, Steady PROVE OrderOfIds'
  <2>1. /\ UNCHANGED queue /\ phase = "filter" /\ phase' \in {"filter", "insert"}
        /\ phase' = "insert" => low' = 0 /\ high' = Len(queue)
    BY <1>7 DEF FilterObject
  <2>2. QueueSorted'
    BY <1>1, <2>1 DEF OrderOfIds, QueueSorted, Before
  <2>3. PlaceFound'
    BY <1>6, <2>1 DEF PlaceFound
  <2> QED BY <2>2, <2>3 DEF OrderOfIds
<1>8. ASSUME NEW p \in DOMAIN queue, Descend(p), Steady PROVE OrderOfIds'
  <2>1. /\ UNCHANGED <<phase, queue, next>> /\ phase = "insert" /\ p \in 1 .. Len(queue)
        /\ IF id[next] < id[queue[p]] THEN high' = p - 1 /\ UNCHANGED low
           ELSE low' = p /\ UNCHANGED high
    BY <1>8 DEF Descend, Precedes, TypeInv, TypeOK
  <2>2. \A i, j \in 1 .. Len(queue) : i < j => id[queue[i]] < id[queue[j]]
    BY <1>8, <2>1 DEF OrderOfIds, QueueSorted, Before
  <2>3. id[next] # id[queue[p]]
    BY <1>4, <1>5, <2>1 DEF WorkInv, IdsUnique, QueueInv
  <2>4. PlaceFound'
    <3> SUFFICES ASSUME NEW i \in 1 .. Len(queue)
                 PROVE  /\ i <= low' => id[queue[i]] < id[next]
                        /\ i > high' => id[next] < id[queue[i]]
      BY <1>1, <2>1 DEF PlaceFound
    <3>1. /\ i <= low => id[queue[i]] < id[next]
          /\ i > high => id[next] < id[queue[i]]
      BY <1>8, <2>1 DEF OrderOfIds, PlaceFound
    <3>2. /\ i < p => id[queue[i]] < id[queue[p]]
          /\ p < i => id[queue[p]] < id[queue[i]]
      BY <2>1, <2>2
    <3>3. id[queue[i]] \in Nat /\ id[queue[p]] \in Nat /\ id[next] \in Nat
      BY <1>4, <1>5, <2>1
    <3>4. i < p \/ i = p \/ p < i
      BY <2>1
    <3> QED BY <2>1, <2>3, <3>1, <3>2, <3>3, <3>4
  <2>5. QueueSorted'
    BY <1>1, <2>1 DEF OrderOfIds, QueueSorted, Before
  <2> QED BY <2>4, <2>5 DEF OrderOfIds
<1>9. ASSUME Insert, Steady PROVE OrderOfIds'
  <2>1. phase = "insert" /\ phase' = "filter" /\ low = high
    BY <1>9 DEF Insert
  <2>2. \A i, j \in 1 .. Len(queue) : i < j => id[queue[i]] < id[queue[j]]
    BY <1>9, <2>1 DEF OrderOfIds, QueueSorted, Before
  <2>3. QueueSorted'
    <3>1. CASE UNCHANGED queue
      BY <1>1, <2>1, <2>2, <3>1 DEF QueueSorted, Before
    <3>2. CASE ~ UNCHANGED queue
      <4>1. /\ low \in 0 .. Len(queue)
            /\ Len(queue') = Len(queue) + 1
            /\ \A i \in 1 .. Len(queue) + 1 :
                 queue'[i] = IF i <= low THEN queue[i]
                             ELSE IF i = low + 1 THEN next ELSE queue[i - 1]
        BY <1>9, <3>2, QueueInserted
      <4>2. \A i \in 1 .. Len(queue) :
              /\ i <= low => id[queue[i]] < id[next]
              /\ i > low => id[next] < id[queue[i]]
        BY <1>9, <2>1 DEF OrderOfIds, PlaceFound
      <4>3. ASSUME NEW i \in 1 .. Len(queue) + 1, NEW j \in 1 .. Len(queue) + 1, i < j
            PROVE  id[queue'[i]] < id[queue'[j]]
        <5>1. CASE j <= low
          <6>1. i \in 1 .. Len(queue) /\ j \in 1 .. Len(queue) /\ i <= low
            BY <1>6, <4>1, <4>3, <5>1
          <6> QED BY <2>2, <4>1, <4>3, <5>1, <6>1
        <5>2. CASE j = low + 1
          <6>1. i \in 1 .. Len(queue) /\ i <= low /\ ~ (j <= low)
            BY <1>6, <4>1, <4>3, <5>2
          <6> QED BY <4>1, <4>2, <5>2, <6>1
        <5>3. CASE j > low + 1
          <6>1. j - 1 \in 1 .. Len(queue) /\ j - 1 > low /\ queue'[j] = queue[j - 1]
            BY <1>6, <4>1, <5>3
          <6>2. CASE i <= low
            <7>1. i \in 1 .. Len(queue) /\ queue'[i] = queue[i] /\ i < j - 1
              BY <1>6, <4>1, <5>3, <6>2
            <7> QED BY <2>2, <6>1, <7>1
          <6>3. CASE i = low + 1
            <7>1. queue'[i] = next
              BY <1>6, <4>1, <6>3
            <7> QED BY <4>2, <6>1, <7>1
          <6>4. CASE i > low + 1
            <7>1. i - 1 \in 1 .. Len(queue) /\ queue'[i] = queue[i - 1] /\ i - 1 < j - 1
              BY <1>6, <4>1, <4>3, <6>4
            <7> QED BY <2>2, <6>1, <7>1
          <6> QED BY <1>6, <6>2, <6>3, <6>4
        <5> QED BY <1>6, <5>1, <5>2, <5>3
      <4> QED BY <1>1, <4>1, <4>3 DEF QueueSorted, Before
    <3> QED BY <3>1, <3>2
  <2>4. PlaceFound'
    BY <2>1 DEF PlaceFound
  <2> QED BY <2>3, <2>4 DEF OrderOfIds
<1>10. CASE EndFilter
  BY <1>1, <1>10 DEF EndFilter, sorting, OrderOfIds, QueueSorted, PlaceFound, Before
<1>11. Fail => queue' = << >>
  BY DEF Fail
<1> QED BY <1>2, <1>3, <1>7, <1>8, <1>9, <1>10, <1>11 DEF Sorting

LEMMA OrderOfIdsExporting ==
  ASSUME TypeInv, WorkInv, OrderOfIds, Exporting PROVE OrderOfIds'
<1>1. CASE queue' = << >>
  <2>1. Len(queue') = 0
    BY <1>1
  <2> QED BY <2>1 DEF OrderOfIds, QueueSorted, PlaceFound
<1>2. CASE Sorting
  BY <1>2, OrderOfIdsSorting
<1>3. BeginExport => queue' = << >>
  BY DEF BeginExport, sorting, WorkInv, QueueInv
<1>4. FetchClass \/ EndExport \/ Fail => queue' = << >>
  BY DEF FetchClass, EndExport, Fail, sorting
<1>5. CASE (ReadList \/ Convert \/ WriteObject) /\ ~ Fail
  <2>1. /\ UNCHANGED <<id, disturbed, class, touched>>
        /\ phase \in {"read", "convert"} /\ phase' \in {"read", "convert"}
        /\ UNCHANGED queue \/ (queue' = Tail(queue) /\ queue # << >>)
    BY <1>5 DEF ReadList, Convert, WriteObject, exportOf, objects, sorting, TypeInv, DataTyped
  <2>2. /\ Len(queue) \in Nat
        /\ queue # << >> => /\ Len(Tail(queue)) = Len(queue) - 1
                            /\ \A i \in 1 .. Len(queue) - 1 : Tail(queue)[i] = queue[i + 1]
    BY HeadAndTail DEF TypeInv, TypeOK
  <2>3. QueueSorted'
    <3>1. CASE UNCHANGED queue
      BY <2>1, <3>1 DEF OrderOfIds, QueueSorted, Before, Steady
    <3>2. CASE queue' = Tail(queue) /\ queue # << >>
      <4>1. /\ Len(queue') = Len(queue) - 1
            /\ \A i \in 1 .. Len(queue) - 1 : queue'[i] = queue[i + 1]
        BY <2>2, <3>2
      <4>2. \A i, j \in 1 .. Len(queue') : i < j =>
              i + 1 \in 1 .. Len(queue) /\ j + 1 \in 1 .. Len(queue) /\ i + 1 < j + 1
        BY <2>2, <4>1
      <4> QED BY <2>1, <4>1, <4>2 DEF OrderOfIds, QueueSorted, Before, Steady
    <3> QED BY <2>1, <3>1, <3>2
  <2> QED BY <2>1, <2>3 DEF OrderOfIds, PlaceFound
<1> QED BY <1>1, <1>2, <1>3, <1>4, <1>5 DEF Exporting

LEMMA OrderOfIdsStep == TypeInv /\ WorkInv /\ OrderOfIds /\ [Next]_vars => OrderOfIds'
<1> SUFFICES ASSUME TypeInv, WorkInv, OrderOfIds, [Next]_vars PROVE OrderOfIds'
  OBVIOUS
<1>1. CASE UNCHANGED vars
  <2>1. UNCHANGED <<id, touched, disturbed, phase, class, queue, next, low, high>>
    BY <1>1 DEF vars, objects, history, export, sorting
  <2> QED BY <2>1 DEF OrderOfIds, QueueSorted, PlaceFound, Before, Steady
<1> QED BY <1>1, OrderOfIdsUsers, OrderOfIdsExporting DEF Next

LEMMA OrderOfIdsInit == Init => OrderOfIds
BY DEF Init, OrderOfIds, QueueSorted, PlaceFound, Steady

\* What is in the tree before the place whole is of earlier classes; of the class in hand,
\* the objects nobody touched come before all that wait.
TreeClasses ==
  /\ \A n \in 1 .. whole : \E i \in 1 .. class - 1 : tree[n].class = ClassNames[i]
  /\ \A n \in DOMAIN tree : n > whole => tree[n].class = ClassNames[class]

TreeBefore ==
  Steady => \A n \in DOMAIN tree : n > whole /\ tree[n].object \notin touched =>
    \A i \in 1 .. Len(queue) : queue[i] \notin touched => tree[n].id < id[queue[i]]

SortInv == /\ TreeClasses /\ TreeBefore /\ ExportSorted
           /\ phase \in {"filter", "insert"} => whole = Len(tree)

LEMMA SortUsers ==
  ASSUME TypeInv, SortInv, Using
  PROVE  SortInv'
<1>1. UNCHANGED <<phase, class, queue, tree, whole>> /\ touched \subseteq touched'
  BY UsersTyped, UsersTouch DEF export, sorting
<1>2. disturbed \subseteq disturbed' /\ (Steady' => Steady)
  BY <1>1, UsersDisturb DEF Steady
<1>3. \A i \in 1 .. Len(queue) : queue[i] \in Objects
  BY DEF TypeInv, TypeOK
<1>4. \A i \in 1 .. Len(queue) : queue[i] \notin touched' =>
        queue[i] \notin touched /\ id'[queue[i]] = id[queue[i]]
  BY <1>3, UsersTouch
<1>5. TreeBefore'
  BY <1>1, <1>2, <1>4 DEF SortInv, TreeBefore
<1>6. ExportSorted'
  BY <1>1, <1>2 DEF SortInv, ExportSorted
<1> QED BY <1>1, <1>5, <1>6 DEF SortInv, TreeClasses

LEMMA SortFail ==
  ASSUME TypeInv, SortInv, Fail, UNCHANGED <<exportOf, touched>>
  PROVE  SortInv'
<1>1. /\ DOMAIN tree' = 1 .. whole /\ \A n \in 1 .. whole : n \in DOMAIN tree /\ tree'[n] = tree[n]
      /\ whole \in Nat /\ UNCHANGED <<class, whole, touched, disturbed>> /\ phase' = "failed"
  BY DEF Fail, TypeInv, TypeOK, DataTyped, exportOf
<1>2. \A n \in DOMAIN tree' : ~ (n > whole)
  BY <1>1
<1>3. TreeClasses' /\ TreeBefore'
  BY <1>1, <1>2 DEF SortInv, TreeClasses, TreeBefore
<1>4. ExportSorted'
  BY <1>1 DEF SortInv, ExportSorted
<1> QED BY <1>1, <1>3, <1>4 DEF SortInv

\* The object written comes after those of its class nobody touched, and before all that
\* still wait.
LEMMA SortWrite ==
  ASSUME TypeInv, WorkInv, OrderOfIds, SortInv, WriteObject, ~ Fail
  PROVE  SortInv'
<1> DEFINE o == Head(queue)
<1>1. /\ o \in exists /\ tree' = Append(tree, Entry(o))
      /\ queue' = Tail(queue) /\ phase = "convert" /\ phase' = "read" /\ queue # << >>
      /\ UNCHANGED <<id, touched, disturbed, class, whole>>
  BY DEF WriteObject, Entry, exportOf, objects, TypeInv, DataTyped
<1>2. /\ Len(queue) \in Nat \ {0} /\ o = queue[1]
      /\ Len(queue') = Len(queue) - 1
      /\ \A i \in 1 .. Len(queue') : i + 1 \in 1 .. Len(queue) /\ queue'[i] = queue[i + 1]
  BY <1>1, HeadAndTail DEF TypeInv, TypeOK
<1>3. Steady /\ o \notin touched => \A i \in 1 .. Len(queue') :
        queue'[i] \notin touched => id[o] < id[queue'[i]]
  <2>1. \A i \in 1 .. Len(queue') : 1 < i + 1
    BY <1>2
  <2>2. Steady => \A i \in 1 .. Len(queue') : Before(queue[1], queue[i + 1])
    BY <1>2, <2>1 DEF OrderOfIds, QueueSorted
  <2> QED BY <1>1, <1>2, <2>2 DEF Before
<1> DEFINE last == Len(tree) + 1
<1>5. /\ Len(tree) \in Nat /\ DOMAIN tree = 1 .. Len(tree) /\ DOMAIN tree' = 1 .. last
      /\ \A n \in DOMAIN tree : tree'[n] = tree[n]
      /\ tree'[last] = Entry(o)
  BY <1>1 DEF TypeInv, DataTyped
<1>6. /\ tree'[last].object = o /\ tree'[last].id = id[o]
      /\ tree'[last].class = ClassNames[class]
  BY <1>5 DEF Entry
<1>7. whole \in 0 .. Len(tree) /\ class \in 1 .. Len(ClassNames)
  BY <1>1, ClassesAssumption DEF TypeInv, TypeOK, DataTyped
<1> HIDE DEF o
<1>8. TreeClasses'
  BY <1>1, <1>5, <1>6, <1>7 DEF SortInv, TreeClasses
<1>9. TreeBefore'
  <2> SUFFICES ASSUME Steady, NEW n \in DOMAIN tree', n > whole, tree'[n].object \notin touched,
                      NEW i \in 1 .. Len(queue'), queue'[i] \notin touched
               PROVE  tree'[n].id < id[queue'[i]]
    BY <1>1 DEF TreeBefore, Steady
  <2>1. CASE n = last
    BY <1>3, <1>6, <2>1
  <2>2. CASE n # last
    <3>1. n \in DOMAIN tree /\ tree'[n] = tree[n]
      BY <1>5, <2>2
    <3> QED BY <1>2, <3>1 DEF SortInv, TreeBefore
  <2> QED BY <2>1, <2>2
<1>10. ExportSorted'
  <2> SUFFICES ASSUME NEW m \in DOMAIN tree', NEW n \in DOMAIN tree', m < n,
                      tree'[m].class = tree'[n].class, tree'[m].class \notin disturbed,
                      {tree'[m].object, tree'[n].object} \cap touched = {}
               PROVE  tree'[m].id < tree'[n].id
    BY <1>1 DEF ExportSorted
  <2>1. CASE n = last
    <3>1. m \in DOMAIN tree /\ tree'[m] = tree[m]
      BY <1>5, <2>1
    <3>2. m > whole
      <4> SUFFICES ASSUME m \in 1 .. whole PROVE FALSE
        BY <1>5, <1>7, <3>1
      <4>1. PICK i \in 1 .. class - 1 : tree[m].class = ClassNames[i]
        BY DEF SortInv, TreeClasses
      <4> QED BY <1>6, <1>7, <2>1, <3>1, <4>1, ClassesAssumption
    <3>3. Steady
      BY <1>6, <1>7, <2>1 DEF Steady
    <3>4. o \notin touched /\ tree[m].object \notin touched /\ 1 \in 1 .. Len(queue)
      BY <1>2, <1>6, <2>1, <3>1
    <3>5. tree[m].id < id[o]
      BY <1>2, <3>1, <3>2, <3>3, <3>4 DEF SortInv, TreeBefore
    <3> QED BY <1>6, <2>1, <3>1, <3>5
  <2>2. CASE n # last
    <3>1. m \in DOMAIN tree /\ n \in DOMAIN tree /\ tree'[m] = tree[m] /\ tree'[n] = tree[n]
      BY <1>5, <2>2
    <3> QED BY <3>1 DEF SortInv, ExportSorted
  <2> QED BY <2>1, <2>2
<1> QED BY <1>1, <1>8, <1>9, <1>10 DEF SortInv

LEMMA SortExporting ==
  ASSUME TypeInv, WorkInv, OrderOfIds, SortInv, Exporting PROVE SortInv'
<1>1. ASSUME UNCHANGED <<id, touched, disturbed, class, queue, tree, whole>>,
             phase' \notin {"filter", "insert"}
      PROVE  SortInv'
  BY <1>1 DEF SortInv, TreeClasses, TreeBefore, ExportSorted, Steady
<1>2. CASE BeginExport
  <2>1. tree' = << >> /\ UNCHANGED <<class, whole>>
    BY <1>2 DEF BeginExport, WorkInv, PhaseInv
  <2>2. whole = 0 /\ phase' = "read" /\ Len(tree) = 0
    BY <1>2 DEF BeginExport, WorkInv, PhaseInv, TypeInv, TypeOK
  <2> QED BY <2>1, <2>2 DEF SortInv, TreeClasses, TreeBefore, ExportSorted
<1>3. CASE FetchClass
  <2>1. /\ class' = class + 1 /\ whole' = Len(tree)
        /\ UNCHANGED <<id, touched, disturbed, queue, tree>>
        /\ class \in 0 .. Len(ClassNames) /\ Len(tree) \in Nat /\ DOMAIN tree = 1 .. Len(tree)
        /\ whole \in 0 .. Len(tree)
    BY <1>3 DEF FetchClass, exportOf, objects, TypeInv, TypeOK, DataTyped
  <2>2. \A n \in DOMAIN tree : n > whole => class >= 1
    <3> SUFFICES ASSUME NEW n \in DOMAIN tree, n > whole PROVE class >= 1
      OBVIOUS
    <3>1. class = 0 => tree = << >>
      BY DEF WorkInv, PhaseInv
    <3> QED BY <2>1, <3>1
  <2>3. TreeClasses'
    <3>1. ASSUME NEW n \in 1 .. Len(tree)
          PROVE  \E i \in 1 .. class : tree[n].class = ClassNames[i]
      <4>1. CASE n <= whole
        <5>1. n \in 1 .. whole
          BY <2>1, <4>1
        <5>2. PICK i \in 1 .. class - 1 : tree[n].class = ClassNames[i]
          BY <5>1 DEF SortInv, TreeClasses
        <5> QED BY <2>1, <5>2
      <4>2. CASE n > whole
        BY <2>1, <2>2, <4>2 DEF SortInv, TreeClasses
      <4> QED BY <2>1, <4>1, <4>2
    <3> QED BY <2>1, <3>1 DEF TreeClasses
  <2>4. TreeBefore'
    BY <2>1 DEF TreeBefore
  <2>5. ExportSorted'
    BY <2>1 DEF SortInv, ExportSorted
  <2> QED BY <2>1, <2>3, <2>4, <2>5 DEF SortInv
<1>4. CASE Sorting
  <2>1. UNCHANGED <<exportOf, touched, class, whole>> /\ phase \in {"filter", "insert"}
    BY <1>4 DEF Sorting, FilterObject, Descend, Insert, EndFilter, Fail
  <2>2. CASE Fail
    BY <2>1, <2>2, SortFail
  <2>3. CASE ~ Fail
    <3>1. UNCHANGED <<tree, disturbed>>
      BY <1>4, <2>3 DEF Sorting, FilterObject, Descend, Insert, EndFilter, exportOf
    <3>2. whole = Len(tree) /\ DOMAIN tree = 1 .. Len(tree) /\ Len(tree) \in Nat
      BY <2>1 DEF SortInv, TypeInv, DataTyped
    <3>3. TreeBefore'
      BY <2>1, <3>1, <3>2 DEF TreeBefore
    <3>4. TreeClasses' /\ ExportSorted'
      BY <2>1, <3>1 DEF SortInv, TreeClasses, ExportSorted
    <3> QED BY <2>1, <3>1, <3>2, <3>3, <3>4 DEF SortInv
  <2> QED BY <2>2, <2>3
<1>5. CASE ReadList
  <2>1. CASE Fail
    BY <1>5, <2>1, SortFail DEF ReadList
  <2>2. CASE ~ Fail
    BY <1>1, <1>5, <2>2 DEF ReadList, exportOf, objects, sorting
  <2> QED BY <2>1, <2>2
<1>6. CASE Convert \/ EndExport
  BY <1>1, <1>6 DEF Convert, EndExport, exportOf, objects, sorting
<1>7. CASE WriteObject
  BY <1>7, SortFail, SortWrite DEF WriteObject
<1> QED BY <1>2, <1>3, <1>4, <1>5, <1>6, <1>7 DEF Exporting

LEMMA SortStep == TypeInv /\ WorkInv /\ OrderOfIds /\ SortInv /\ [Next]_vars => SortInv'
<1> SUFFICES ASSUME TypeInv, WorkInv, OrderOfIds, SortInv, [Next]_vars PROVE SortInv'
  OBVIOUS
<1>1. CASE UNCHANGED vars
  <2>1. UNCHANGED <<id, touched, disturbed, phase, class, queue, tree, whole>>
    BY <1>1 DEF vars, objects, history, export, sorting
  <2> QED BY <2>1 DEF SortInv, TreeClasses, TreeBefore, ExportSorted, Steady
<1> QED BY <1>1, SortUsers, SortExporting DEF Next

\* ExportSorted: within a class, the objects nobody touched are exported by id, but for the
\* classes in which an object was renamed while they were being sorted.
THEOREM SortedById == Spec => []ExportSorted
<1>1. Init => SortInv
  BY DEF Init, SortInv, TreeClasses, TreeBefore, ExportSorted
<1>2. SortInv => ExportSorted
  BY DEF SortInv
<1> QED BY <1>1, <1>2, TypeInit, TypeStep, WorkInit, WorkStep, OrderOfIdsInit, OrderOfIdsStep,
           SortStep, PTL DEF Spec
-----------------------------------------------------------------------------
(***************************************************************************)
(* EXACTLY ONCE                                                            *)
(***************************************************************************)
\* the place of the class of an object
Pos(o) == CHOOSE i \in DOMAIN ClassNames : ClassNames[i] = ClassOf[o]

LEMMA PosUnique ==
  ASSUME NEW o \in Objects
  PROVE  /\ Pos(o) \in 1 .. Len(ClassNames) /\ ClassNames[Pos(o)] = ClassOf[o]
         /\ \A i \in DOMAIN ClassNames : ClassNames[i] = ClassOf[o] => i = Pos(o)
<1>1. \E i \in DOMAIN ClassNames : ClassNames[i] = ClassOf[o]
  BY ClassesAssumption DEF Classes
<1>2. Pos(o) \in DOMAIN ClassNames /\ ClassNames[Pos(o)] = ClassOf[o]
  BY <1>1 DEF Pos
<1> QED BY <1>2, ClassesAssumption

Waits(o) == o = next \/ \E i \in 1 .. Len(queue) : queue[i] = o
Once(o) == \E n \in DOMAIN tree : Entries(o) = {n} /\ Told(o, tree[n])

\* How far the export has got with an object: not yet, being in the class in hand, or done.
NotYet(o) == Entries(o) = {} /\ ~ Waits(o)

Lost(o) == ClassOf[o] \in disturbed

InHand(o) ==
  /\ Entries(o) \cap (1 .. whole) = {}
  /\ Entries(o) = {} \/ Once(o)
  /\ Waits(o) \/ o \in found => Entries(o) = {}
  /\ phase = "failed" => NotYet(o)
  /\ ~ Matches(o) => NotYet(o)
  /\ Matches(o) => phase = "failed" \/ o \in found \/ Waits(o) \/ Once(o) \/ Lost(o)

Past(o) ==
  /\ Entries(o) \subseteq 1 .. whole
  /\ ~ Waits(o)
  /\ Entries(o) = {} \/ Once(o)
  /\ ~ Matches(o) => Entries(o) = {}
  /\ Matches(o) => Once(o) \/ Lost(o)

Reached(o) == /\ Pos(o) > class => NotYet(o)
              /\ Pos(o) = class => InHand(o)
              /\ Pos(o) < class => Past(o)

CompleteInv == \A o \in exists \ touched : Reached(o)

\* What was told of an object stays true while nobody touches it.
LEMMA UsersLeaveTold ==
  ASSUME TypeInv, Using,
         NEW o \in exists' \ touched', NEW entry
  PROVE  /\ o \in exists \ touched
         /\ Told(o, entry) => Told(o, entry)'
         /\ Matches(o)' = Matches(o)
<1>1. o \in Objects
  BY UsersTyped DEF TypeInv, TypeOK
<1>2. /\ o \in exists \ touched /\ id'[o] = id[o] /\ file'[o] = file[o] /\ list'[o] = list[o]
      /\ ref'[o] = ref[o]
  BY <1>1, UsersTouch
<1>3. ASSUME ref[o] \in exists' \ touched'
      PROVE  ref[o] \in exists \ touched /\ FullName(ref[o])' = FullName(ref[o])
  <2>1. ref[o] \in Objects
    BY <1>3, UsersTyped DEF TypeInv, TypeOK
  <2> QED BY <1>2, <1>3, <2>1, UsersTouch DEF FullName
<1>4. Told(o, entry) => Told(o, entry)'
  BY <1>2, <1>3 DEF Told
<1>5. Matches(o)' = Matches(o)
  BY <1>2 DEF Matches
<1> QED BY <1>2, <1>4, <1>5

LEMMA CompleteUsers ==
  ASSUME TypeInv, CompleteInv, Using
  PROVE  CompleteInv'
<1> SUFFICES ASSUME NEW o \in exists' \ touched' PROVE Reached(o)'
  BY DEF CompleteInv
<1>1. UNCHANGED <<phase, class, found, queue, next, tree, whole>>
  BY UsersTyped DEF export, sorting
<1>2. o \in exists \ touched /\ Matches(o)' = Matches(o)
  BY UsersLeaveTold
<1>3. Entries(o)' = Entries(o) /\ Waits(o)' = Waits(o)
  BY <1>1 DEF Entries, Waits
<1>4. Once(o) => Once(o)'
  BY <1>1, <1>3, UsersLeaveTold DEF Once
<1>5. Reached(o) /\ (Lost(o) => Lost(o)') /\ Pos(o)' = Pos(o)
  BY <1>2, UsersDisturb DEF CompleteInv, Lost, Pos
<1>6. NotYet(o)' = NotYet(o)
  BY <1>3 DEF NotYet
<1>7. InHand(o) => InHand(o)'
  BY <1>1, <1>2, <1>3, <1>4, <1>5, <1>6 DEF InHand
<1>8. Past(o) => Past(o)'
  BY <1>1, <1>2, <1>3, <1>4, <1>5 DEF Past
<1> QED BY <1>1, <1>5, <1>6, <1>7, <1>8 DEF Reached

\* The steps of an export leave the objects alone, so that what is true of one stays true.
LEMMA ExportLeavesTold ==
  ASSUME Exporting, phase # "idle", NEW o, NEW entry
  PROVE  /\ UNCHANGED <<exists, touched>>
         /\ Told(o, entry)' = Told(o, entry) /\ Matches(o)' = Matches(o) /\ Lost(o)' = Lost(o)
<1>1. UNCHANGED <<exists, id, file, list, ref, touched, disturbed>>
  BY ExportLeaves DEF objects
<1> QED BY <1>1 DEF Told, Matches, FullName, Lost

\* the objects of the tree while it stays as it is
LEMMA TreeLeft ==
  ASSUME Exporting, phase # "idle", UNCHANGED tree, NEW o
  PROVE  Entries(o)' = Entries(o) /\ (Once(o) => Once(o)')
<1>1. Entries(o)' = Entries(o)
  BY DEF Entries
<1> QED BY <1>1, ExportLeavesTold DEF Once

LEMMA CompleteFail ==
  ASSUME TypeInv, CompleteInv, Exporting, phase # "idle", Fail PROVE CompleteInv'
<1> SUFFICES ASSUME NEW o \in exists' \ touched' PROVE Reached(o)'
  BY DEF CompleteInv
<1>1. /\ DOMAIN tree' = 1 .. whole /\ \A n \in 1 .. whole : n \in DOMAIN tree /\ tree'[n] = tree[n]
      /\ queue' = << >> /\ Len(queue') = 0 /\ next' = None /\ found' = {}
      /\ phase' = "failed" /\ UNCHANGED <<class, whole>>
  BY DEF Fail, NoNext, TypeInv, TypeOK, DataTyped
<1>2. o \in exists \ touched /\ Matches(o)' = Matches(o) /\ Lost(o)' = Lost(o)
  BY ExportLeavesTold
<1>3. Reached(o) /\ Pos(o)' = Pos(o) /\ o \in Objects
  BY <1>2 DEF CompleteInv, Pos, TypeInv, TypeOK
<1>4. Entries(o)' = Entries(o) \cap (1 .. whole) /\ ~ Waits(o)'
  BY <1>1, <1>3, NoneAssumption DEF Entries, Waits
<1>5. Once(o) /\ Entries(o) \subseteq 1 .. whole => Once(o)'
  BY <1>1, <1>4, ExportLeavesTold DEF Once
<1>6. Entries(o) \cap (1 .. whole) = {} => NotYet(o)'
  BY <1>4 DEF NotYet
<1>7. Pos(o) > class => NotYet(o)'
  BY <1>3, <1>6 DEF Reached, NotYet
<1>8. Pos(o) = class => InHand(o)'
  BY <1>1, <1>3, <1>4, <1>6 DEF Reached, InHand, NotYet
<1>9. Pos(o) < class => Past(o)'
  BY <1>1, <1>2, <1>3, <1>4, <1>5 DEF Reached, Past
<1> QED BY <1>1, <1>3, <1>7, <1>8, <1>9 DEF Reached

\* The next class: of the one before, nothing waits any more.
LEMMA CompleteFetch ==
  ASSUME TypeInv, WorkInv, CompleteInv, FetchClass PROVE CompleteInv'
<1> SUFFICES ASSUME NEW o \in exists' \ touched' PROVE Reached(o)'
  BY DEF CompleteInv
<1>1. /\ class' = class + 1 /\ whole' = Len(tree) /\ UNCHANGED <<queue, next, tree>>
      /\ Len(queue) = 0 /\ next = None /\ found = {}
      /\ phase = "read" /\ phase' = "filter"
      /\ class \in 0 .. Len(ClassNames) /\ Len(tree) \in Nat /\ DOMAIN tree = 1 .. Len(tree)
      /\ class' \in DOMAIN ClassNames
  BY ClassesAssumption DEF FetchClass, TypeInv, TypeOK, DataTyped, WorkInv, PhaseInv
<1>2. Exporting
  BY DEF Exporting
<1>3. o \in exists \ touched /\ Matches(o)' = Matches(o) /\ Lost(o)' = Lost(o)
  BY <1>1, <1>2, ExportLeavesTold
<1>4. o \in Objects /\ Pos(o) \in 1 .. Len(ClassNames) /\ ClassNames[Pos(o)] = ClassOf[o]
  BY <1>3, PosUnique DEF TypeInv, TypeOK
<1>5. Reached(o) /\ Pos(o)' = Pos(o)
  BY <1>3 DEF CompleteInv, Pos
<1>6. Entries(o)' = Entries(o) /\ Entries(o) \subseteq DOMAIN tree /\ ~ Waits(o) /\ ~ Waits(o)'
  BY <1>1, <1>4, NoneAssumption DEF Entries, Waits
<1>8. Once(o) => Once(o)'
  BY <1>1, <1>2, TreeLeft
<1>9. Pos(o) > class' => NotYet(o)'
  BY <1>1, <1>4, <1>5, <1>6 DEF Reached, NotYet
<1>10. ASSUME Pos(o) = class' PROVE InHand(o)'
  <2>1. NotYet(o)
    BY <1>1, <1>5, <1>10 DEF Reached
  <2>2. Matches(o) => o \in found'
    BY <1>3, <1>4, <1>10 DEF Matches, FetchClass
  <2> QED BY <1>1, <1>3, <1>6, <2>1, <2>2 DEF InHand, NotYet
<1>11. ASSUME Pos(o) < class' PROVE Past(o)'
  <2>1. /\ Entries(o) = {} \/ Once(o)
        /\ ~ Matches(o) => Entries(o) = {}
        /\ Matches(o) => Once(o) \/ Lost(o)
    <3>1. CASE Pos(o) = class
      BY <1>1, <1>5, <1>6, <3>1 DEF Reached, InHand, NotYet
    <3>2. CASE Pos(o) < class
      BY <1>5, <3>2 DEF Reached, Past
    <3> QED BY <1>1, <1>4, <1>11, <3>1, <3>2
  <2> QED BY <1>1, <1>3, <1>6, <1>8, <2>1 DEF Past
<1> QED BY <1>5, <1>9, <1>10, <1>11 DEF Reached

\* An object returned is left out if it does not match, and inserted if it does.
LEMMA CompleteFilter ==
  ASSUME TypeInv, WorkInv, CompleteInv, NEW x \in Objects, FilterObject(x), ~ Fail
  PROVE  CompleteInv'
<1> SUFFICES ASSUME NEW o \in exists' \ touched' PROVE Reached(o)'
  BY DEF CompleteInv
<1>1. /\ UNCHANGED <<class, queue, tree, whole>> /\ found' = found \ {x} /\ x \in found
      /\ phase = "filter" /\ phase' \in {"filter", "insert"} /\ next = None
      /\ IF ToExport(x) /\ file[x] \in SomeFiles THEN next' = x ELSE next' = None
      /\ class >= 1 /\ class \in 0 .. Len(ClassNames)
  BY DEF FilterObject, TypeInv, TypeOK, DataTyped
<1>2. Exporting
  BY DEF Exporting, Sorting
<1>3. o \in exists \ touched /\ Matches(o)' = Matches(o) /\ Lost(o)' = Lost(o)
  BY <1>1, <1>2, ExportLeavesTold
<1>4. o \in Objects /\ ClassNames[Pos(o)] = ClassOf[o]
      /\ \A i \in DOMAIN ClassNames : ClassNames[i] = ClassOf[o] => i = Pos(o)
  BY <1>3, PosUnique DEF TypeInv, TypeOK
<1>5. Reached(o) /\ Pos(o)' = Pos(o)
  BY <1>3 DEF CompleteInv, Pos
<1>6. Entries(o)' = Entries(o) /\ (Once(o) => Once(o)')
  BY <1>1, <1>2, TreeLeft
<1>7. class \in DOMAIN ClassNames
  BY <1>1, ClassesAssumption
<1>8. CASE o # x
  <2>1. Waits(o)' = Waits(o) /\ (o \in found' <=> o \in found)
    BY <1>1, <1>4, <1>8, NoneAssumption DEF Waits
  <2>2. NotYet(o)' = NotYet(o)
    BY <1>6, <2>1 DEF NotYet
  <2>3. InHand(o) => InHand(o)'
    BY <1>1, <1>3, <1>6, <2>1, <2>2 DEF InHand
  <2>4. Past(o) => Past(o)'
    BY <1>1, <1>3, <1>6, <2>1 DEF Past
  <2> QED BY <1>1, <1>5, <2>2, <2>3, <2>4 DEF Reached
<1>9. CASE o = x
  <2>1. ~ Waits(o) /\ Waits(o)' = (ToExport(o) /\ file[o] \in SomeFiles)
    <3>1. \A i \in 1 .. Len(queue) : queue[i] # o
      BY <1>1, <1>9 DEF WorkInv, QueueInv
    <3> QED BY <1>1, <1>4, <1>9, <3>1, NoneAssumption DEF Waits
  <2>2. CASE Pos(o) = class
    <3>1. Waits(o)' <=> Matches(o)
      BY <1>1, <1>4, <1>9, <2>1, <2>2 DEF ToExport, Matches, WorkInv, PhaseInv
    <3>2. InHand(o) /\ Entries(o) = {}
      BY <1>1, <1>5, <1>9, <2>2 DEF Reached, InHand
    <3>3. InHand(o)'
      BY <1>1, <1>3, <1>6, <3>1, <3>2 DEF InHand, NotYet
    <3> QED BY <1>1, <1>5, <2>2, <3>3 DEF Reached
  <2>3. CASE Pos(o) # class
    <3>1. ~ Waits(o)'
      BY <1>4, <1>7, <2>1, <2>3 DEF ToExport
    <3>2. NotYet(o) => NotYet(o)'
      BY <1>6, <3>1 DEF NotYet
    <3>3. Past(o) => Past(o)'
      BY <1>1, <1>3, <1>6, <3>1 DEF Past
    <3> QED BY <1>1, <1>5, <2>3, <3>2, <3>3 DEF Reached
  <2> QED BY <2>2, <2>3
<1> QED BY <1>8, <1>9

\* Unless the class was disturbed, the object is inserted.
LEMMA InsertsSteady ==
  ASSUME TypeInv, WorkInv, OrderOfIds, Insert, Steady
  PROVE  ~ UNCHANGED queue
<1>1. phase = "insert" /\ low \in 0 .. Len(queue) /\ next \in Objects
  BY QueueInserted DEF Insert
<1>2. low # 0 => low \in 1 .. Len(queue) /\ low <= low
  BY <1>1
<1>3. low # 0 => id[queue[low]] < id[next]
  BY <1>1, <1>2 DEF OrderOfIds, PlaceFound
<1>4. /\ Len(queue') = Len(queue) + 1 /\ Len(queue) \in Nat
  BY <1>3, QueueInserted DEF Precedes
<1> QED BY <1>4

LEMMA CompleteInsert ==
  ASSUME TypeInv, WorkInv, OrderOfIds, CompleteInv, Insert PROVE CompleteInv'
<1> SUFFICES ASSUME NEW o \in exists' \ touched' PROVE Reached(o)'
  BY DEF CompleteInv
<1>1. /\ UNCHANGED <<class, found, tree, whole>> /\ next' = None
      /\ phase = "insert" /\ phase' = "filter"
      /\ class >= 1 /\ class \in 0 .. Len(ClassNames)
  BY DEF Insert, NoNext, TypeInv, TypeOK, DataTyped
<1>2. Exporting
  BY DEF Exporting, Sorting
<1>3. o \in exists \ touched /\ Matches(o)' = Matches(o) /\ Lost(o)' = Lost(o)
  BY <1>1, <1>2, ExportLeavesTold
<1>4. o \in Objects /\ ClassNames[Pos(o)] = ClassOf[o]
  BY <1>3, PosUnique DEF TypeInv, TypeOK
<1>5. Reached(o) /\ Pos(o)' = Pos(o)
  BY <1>3 DEF CompleteInv, Pos
<1>6. Entries(o)' = Entries(o) /\ (Once(o) => Once(o)')
  BY <1>1, <1>2, TreeLeft
<1>7. CASE ~ UNCHANGED queue
  <2>1. /\ low \in 0 .. Len(queue) /\ Len(queue) \in Nat
        /\ Len(queue') = Len(queue) + 1
        /\ \A i \in 1 .. Len(queue) + 1 :
             queue'[i] = IF i <= low THEN queue[i]
                         ELSE IF i = low + 1 THEN next ELSE queue[i - 1]
    BY <1>7, QueueInserted
  <2>2. Waits(o) => Waits(o)'
    <3>1. CASE o = next
      <4>1. low + 1 \in 1 .. Len(queue') /\ queue'[low + 1] = o
        BY <2>1, <3>1
      <4> QED BY <4>1 DEF Waits
    <3>2. ASSUME NEW i \in 1 .. Len(queue), queue[i] = o PROVE Waits(o)'
      <4>1. CASE i <= low
        <5>1. i \in 1 .. Len(queue') /\ queue'[i] = o
          BY <2>1, <3>2, <4>1
        <5> QED BY <5>1 DEF Waits
      <4>2. CASE i > low
        <5>1. i + 1 \in 1 .. Len(queue') /\ queue'[i + 1] = o
          BY <2>1, <3>2, <4>2
        <5> QED BY <5>1 DEF Waits
      <4> QED BY <2>1, <4>1, <4>2
    <3> QED BY <3>1, <3>2 DEF Waits
  <2>3. Waits(o)' => Waits(o)
    <3> SUFFICES ASSUME NEW i \in 1 .. Len(queue) + 1, queue'[i] = o PROVE Waits(o)
      BY <1>1, <1>4, <2>1, NoneAssumption DEF Waits
    <3>1. CASE i <= low
      <4>1. i \in 1 .. Len(queue) /\ queue[i] = o
        BY <2>1, <3>1
      <4> QED BY <4>1 DEF Waits
    <3>2. CASE i = low + 1
      BY <2>1, <3>2 DEF Waits
    <3>3. CASE i > low + 1
      <4>1. i - 1 \in 1 .. Len(queue) /\ queue[i - 1] = o
        BY <2>1, <3>3
      <4> QED BY <4>1 DEF Waits
    <3> QED BY <2>1, <3>1, <3>2, <3>3
  <2>4. NotYet(o) => NotYet(o)'
    BY <1>6, <2>3 DEF NotYet
  <2>5. InHand(o) => InHand(o)'
    BY <1>1, <1>3, <1>6, <2>2, <2>3, <2>4 DEF InHand
  <2>6. Past(o) => Past(o)'
    BY <1>1, <1>3, <1>6, <2>3 DEF Past
  <2> QED BY <1>1, <1>5, <2>4, <2>5, <2>6 DEF Reached
<1>8. CASE UNCHANGED queue
  <2>1. Waits(o)' => Waits(o)
    BY <1>1, <1>4, <1>8, NoneAssumption DEF Waits
  <2>2. Pos(o) = class => Lost(o)
    BY <1>1, <1>4, <1>8, InsertsSteady DEF Steady, Lost
  <2>3. NotYet(o) => NotYet(o)'
    BY <1>6, <2>1 DEF NotYet
  <2>4. Pos(o) = class => InHand(o)'
    BY <1>1, <1>3, <1>5, <1>6, <2>1, <2>2, <2>3 DEF Reached, InHand
  <2>5. Past(o) => Past(o)'
    BY <1>1, <1>3, <1>6, <2>1 DEF Past
  <2> QED BY <1>1, <1>5, <2>3, <2>4, <2>5 DEF Reached
<1> QED BY <1>7, <1>8

\* What is written of an object nobody touched is what it is.
LEMMA EntryTold ==
  ASSUME TypeInv, WorkInv, WriteObject, ~ Fail, Head(queue) \notin touched,
         ClassOf[Head(queue)] = ClassNames[class]
  PROVE  Told(Head(queue), Entry(Head(queue)))
<1> DEFINE o == Head(queue)
<1>1. o \in exists /\ o \in Objects
  BY DEF WriteObject, TypeInv, TypeOK
<1>2. /\ DOMAIN items = DOMAIN list[o]
      /\ \A k \in DOMAIN items : items[k].raw = list[o][k]
  BY DEF WriteObject, WorkInv, HandInv
<1>3. list[o] \in Seq(Values)
  BY <1>1, ListTyped DEF TypeInv, TypeOK
<1>4. IF list[o] = << >> THEN Items(items, Marker) = <<Marker>>
      ELSE Items(items, Marker) = items
  <2>1. items = << >> <=> list[o] = << >>
    BY <1>2, <1>3 DEF TypeInv, DataTyped
  <2> QED BY <2>1, MarkerAssumption DEF Items
<1>5. ref[o] \in exists \ touched => ref[o] # None
  BY NoneAssumption DEF TypeInv, TypeOK
<1>6. /\ Entry(o).class = ClassOf[o] /\ Entry(o).id = id[o]
      /\ Entry(o).list = Items(items, Marker) /\ Entry(o).ref = ExportedRef(o)
  BY DEF Entry
<1>7. IF list[o] = << >> THEN Entry(o).list = <<Marker>>
      ELSE /\ DOMAIN Entry(o).list = DOMAIN list[o]
           /\ \A k \in DOMAIN list[o] : Entry(o).list[k].raw = list[o][k]
  BY <1>2, <1>4, <1>6
<1> HIDE DEF o
<1>8. Told(o, Entry(o))
  BY <1>1, <1>5, <1>6, <1>7, RefExported DEF Told
<1> QED BY <1>8 DEF o

\* An object is written once.
LEMMA CompleteWrite ==
  ASSUME TypeInv, WorkInv, CompleteInv, WriteObject, ~ Fail PROVE CompleteInv'
<1> SUFFICES ASSUME NEW o \in exists' \ touched' PROVE Reached(o)'
  BY DEF CompleteInv
<1> DEFINE last == Len(tree) + 1
<1>1. /\ tree' = Append(tree, Entry(Head(queue))) /\ queue' = Tail(queue) /\ queue # << >>
      /\ phase = "convert" /\ phase' = "read" /\ next = None /\ found = {}
      /\ UNCHANGED <<class, whole, next, found>>
  BY DEF WriteObject, Entry, TypeInv, TypeOK, DataTyped, WorkInv, PhaseInv
<1>2. Exporting
  BY DEF Exporting
<1>3. o \in exists \ touched /\ Matches(o)' = Matches(o) /\ Lost(o)' = Lost(o)
  BY <1>1, <1>2, ExportLeavesTold
<1>4. o \in Objects /\ Pos(o) \in 1 .. Len(ClassNames) /\ ClassNames[Pos(o)] = ClassOf[o]
  BY <1>3, PosUnique DEF TypeInv, TypeOK
<1>5. Reached(o) /\ Pos(o)' = Pos(o)
  BY <1>3 DEF CompleteInv, Pos
<1>6. /\ Len(tree) \in Nat /\ DOMAIN tree = 1 .. Len(tree) /\ DOMAIN tree' = 1 .. last
      /\ \A n \in DOMAIN tree : tree'[n] = tree[n]
      /\ tree'[last] = Entry(Head(queue)) /\ whole \in 0 .. Len(tree)
      /\ class \in 0 .. Len(ClassNames)
  BY <1>1 DEF TypeInv, TypeOK, DataTyped
<1>7. /\ Len(queue) \in Nat \ {0} /\ Head(queue) = queue[1] /\ 1 \in 1 .. Len(queue)
      /\ Len(queue') = Len(queue) - 1
      /\ \A i \in 1 .. Len(queue') : i + 1 \in 1 .. Len(queue) /\ queue'[i] = queue[i + 1]
  BY <1>1, HeadAndTail DEF TypeInv, TypeOK
<1>8. tree'[last].object = Head(queue)
  BY <1>1, <1>6 DEF Entry
<1>9. Waits(o)' <=> Waits(o) /\ o # Head(queue)
  <2>1. o # next
    BY <1>1, <1>4, NoneAssumption
  <2>2. ASSUME NEW i \in 1 .. Len(queue'), queue'[i] = o PROVE Waits(o) /\ o # Head(queue)
    <3>1. i + 1 \in 1 .. Len(queue) /\ queue[i + 1] = o /\ i + 1 # 1
      BY <1>7, <2>2
    <3> QED BY <1>7, <3>1 DEF Waits, WorkInv, QueueInv
  <2>3. ASSUME NEW i \in 1 .. Len(queue), queue[i] = o, o # Head(queue) PROVE Waits(o)'
    <3>1. i # 1
      BY <1>7, <2>3
    <3>2. i - 1 \in 1 .. Len(queue') /\ queue'[i - 1] = queue[(i - 1) + 1] /\ (i - 1) + 1 = i
      BY <1>7, <3>1
    <3> QED BY <2>3, <3>2 DEF Waits
  <2> QED BY <1>1, <2>1, <2>2, <2>3 DEF Waits
<1>10. CASE o # Head(queue)
  <2>1. Entries(o)' = Entries(o)
    BY <1>6, <1>8, <1>10 DEF Entries
  <2>2. Waits(o)' <=> Waits(o)
    BY <1>9, <1>10
  <2>3. Once(o) => Once(o)'
    BY <1>1, <1>2, <1>6, <2>1, ExportLeavesTold DEF Once
  <2> QED BY <1>1, <1>3, <1>5, <2>1, <2>2, <2>3 DEF Reached, NotYet, InHand, Past
<1>11. CASE o = Head(queue)
  <2>1. Waits(o) /\ ~ Waits(o)'
    BY <1>7, <1>9, <1>11 DEF Waits
  <2>2. Pos(o) = class
    BY <1>4, <1>5, <1>6, <2>1 DEF Reached, NotYet, Past
  <2>3. Matches(o) /\ Entries(o) = {}
    BY <1>5, <2>1, <2>2 DEF Reached, InHand, NotYet
  <2>4. Entries(o)' = {last}
    BY <1>6, <1>8, <1>11, <2>3 DEF Entries
  <2>5. PICK entry : entry = tree'[last]
    OBVIOUS
  <2>6. Told(o, entry)
    BY <1>3, <1>4, <1>6, <1>11, <2>2, <2>5, EntryTold
  <2>7. Told(o, entry)'
    BY <1>1, <1>2, <2>6, ExportLeavesTold
  <2>8. Once(o)'
    BY <1>6, <2>4, <2>5, <2>7 DEF Once
  <2>9. Entries(o)' \cap (1 .. whole) = {}
    BY <1>6, <2>4
  <2>10. InHand(o)'
    BY <1>1, <1>3, <2>1, <2>3, <2>8, <2>9 DEF InHand
  <2> QED BY <1>1, <1>5, <1>6, <2>2, <2>10 DEF Reached
<1> QED BY <1>10, <1>11

LEMMA CompleteExporting ==
  ASSUME TypeInv, WorkInv, OrderOfIds, CompleteInv, Exporting PROVE CompleteInv'
<1>1. CASE BeginExport
  <2> SUFFICES ASSUME NEW o \in exists' \ touched' PROVE Reached(o)'
    BY DEF CompleteInv
  <2>1. /\ class' = 0 /\ tree' = << >> /\ queue' = << >> /\ Len(queue') = 0 /\ next' = None
        /\ o \in Objects
    BY <1>1 DEF BeginExport, WorkInv, PhaseInv, QueueInv, sorting, exportOf, objects,
                TypeInv, TypeOK
  <2>2. Pos(o) \in Nat \ {0} /\ Pos(o)' = Pos(o)
    <3>1. Pos(o) \in Nat \ {0}
      BY <2>1, PosUnique
    <3> QED BY <3>1 DEF Pos
  <2>3. NotYet(o)'
    BY <2>1, NoneAssumption DEF NotYet, Entries, Waits
  <2> QED BY <2>1, <2>2, <2>3 DEF Reached
<1>2. ASSUME phase # "idle", UNCHANGED <<class, found, queue, next, tree, whole>>,
             phase # "failed", phase' # "failed"
      PROVE  CompleteInv'
  <2> SUFFICES ASSUME NEW o \in exists' \ touched' PROVE Reached(o)'
    BY DEF CompleteInv
  <2>1. o \in exists \ touched /\ Matches(o)' = Matches(o) /\ Lost(o)' = Lost(o)
    BY <1>2, ExportLeavesTold
  <2>2. Entries(o)' = Entries(o) /\ Waits(o)' = Waits(o)
    BY <1>2 DEF Entries, Waits
  <2>3. Once(o) => Once(o)'
    BY <1>2, TreeLeft
  <2>4. Reached(o) /\ Pos(o)' = Pos(o)
    BY <2>1 DEF CompleteInv, Pos
  <2> QED BY <1>2, <2>1, <2>2, <2>3, <2>4 DEF Reached, NotYet, InHand, Past
<1>3. CASE Fail
  <2>1. phase = "idle" => ~ Fail
    BY DEF Exporting, Sorting, BeginExport, FetchClass, FilterObject, Descend, Insert, EndFilter,
           ReadList, Convert, WriteObject, EndExport, Fail
  <2> QED BY <1>3, <2>1, CompleteFail
<1>4. CASE FetchClass
  BY <1>4, CompleteFetch
<1>5. CASE Sorting
  <2>1. ASSUME NEW o \in Objects, FilterObject(o) PROVE CompleteInv'
    BY <1>3, <2>1, CompleteFilter
  <2>2. ASSUME NEW p, Descend(p) PROVE CompleteInv'
    BY <1>2, <2>2 DEF Descend
  <2>3. CASE EndFilter
    BY <1>2, <2>3 DEF EndFilter, sorting
  <2> QED BY <1>5, <2>1, <2>2, <2>3, CompleteInsert DEF Sorting
<1>6. CASE ReadList /\ ~ Fail
  BY <1>2, <1>6 DEF ReadList, sorting
<1>7. CASE Convert
  BY <1>2, <1>7 DEF Convert, sorting
<1>8. CASE WriteObject
  BY <1>3, <1>8, CompleteWrite
<1>9. CASE EndExport
  BY <1>2, <1>9 DEF EndExport, sorting
<1> QED BY <1>1, <1>3, <1>4, <1>5, <1>6, <1>7, <1>8, <1>9 DEF Exporting

LEMMA CompleteInit == Init => CompleteInv
<1> SUFFICES ASSUME Init, NEW o \in exists PROVE Reached(o)
  BY DEF Init, CompleteInv
<1>1. class = 0 /\ tree = << >> /\ Len(queue) = 0 /\ next = None /\ o \in Objects
  BY ContentsAssumption DEF Init
<1>2. Pos(o) \in Nat \ {0}
  BY <1>1, PosUnique
<1> QED BY <1>1, <1>2, NoneAssumption DEF Reached, NotYet, Entries, Waits

LEMMA CompleteStep ==
  TypeInv /\ WorkInv /\ OrderOfIds /\ CompleteInv /\ [Next]_vars => CompleteInv'
<1> SUFFICES ASSUME TypeInv, WorkInv, OrderOfIds, CompleteInv, [Next]_vars PROVE CompleteInv'
  OBVIOUS
<1>1. CASE UNCHANGED vars
  <2> SUFFICES ASSUME NEW o \in exists' \ touched' PROVE Reached(o)'
    BY DEF CompleteInv
  <2>1. UNCHANGED <<exists, id, file, list, ref, touched, disturbed, phase, class, found, queue,
                   next, tree, whole>>
    BY <1>1 DEF vars, objects, history, export, sorting
  <2>2. Reached(o) /\ Pos(o)' = Pos(o) /\ Matches(o)' = Matches(o) /\ Lost(o)' = Lost(o)
    BY <2>1 DEF CompleteInv, Pos, Matches, Lost
  <2>3. Entries(o)' = Entries(o) /\ Waits(o)' = Waits(o)
    BY <2>1 DEF Entries, Waits
  <2>4. \A entry : Told(o, entry) => Told(o, entry)'
    BY <2>1 DEF Told, FullName
  <2>5. Once(o) => Once(o)'
    BY <2>1, <2>3, <2>4 DEF Once
  <2> QED BY <2>1, <2>2, <2>3, <2>5 DEF Reached, NotYet, InHand, Past
<1> QED BY <1>1, CompleteUsers, CompleteExporting DEF Next

\* ExportComplete: an object nobody touched is exported at most once, with its data, and if
\* it matches exactly once, whatever else was changed meanwhile; but for the classes in which
\* an object was renamed while they were being sorted.
THEOREM ExportedOnce == Spec => []ExportComplete
<1>1. TypeInv /\ WorkInv /\ CompleteInv => ExportComplete
  <2> SUFFICES ASSUME TypeInv, WorkInv, CompleteInv, phase \in {"done", "failed"},
                      NEW o \in exists \ touched
               PROVE  /\ \A n \in Entries(o) : Entries(o) = {n} /\ Told(o, tree[n])
                      /\ IF Matches(o) /\ ClassOf[o] \in Finished
                         THEN Entries(o) = {} => ClassOf[o] \in disturbed
                         ELSE Entries(o) = {}
    BY DEF ExportComplete
  <2>1. Reached(o) /\ o \in Objects
    BY DEF CompleteInv, TypeInv, TypeOK
  <2>2. /\ Pos(o) \in 1 .. Len(ClassNames) /\ ClassNames[Pos(o)] = ClassOf[o]
        /\ \A i \in DOMAIN ClassNames : ClassNames[i] = ClassOf[o] => i = Pos(o)
    BY <2>1, PosUnique
  <2>3. class \in 0 .. Len(ClassNames) /\ DOMAIN ClassNames = 1 .. Len(ClassNames)
        /\ Len(ClassNames) \in Nat
    BY ClassesAssumption DEF TypeInv, TypeOK
  <2>4. Entries(o) = {} \/ Once(o)
    BY <2>1, <2>2, <2>3 DEF Reached, NotYet, InHand, Past
  <2>5. \A n \in Entries(o) : Entries(o) = {n} /\ Told(o, tree[n])
    BY <2>4 DEF Once
  <2>6. Once(o) => Entries(o) # {}
    BY DEF Once
  <2>7. CASE phase = "done"
    <3>1. class = Len(ClassNames) /\ queue = << >> /\ found = {} /\ next = None
      BY <2>7 DEF WorkInv, PhaseInv, QueueInv, TypeInv, TypeOK
    <3>2. ~ Waits(o)
      BY <2>1, <3>1, NoneAssumption DEF Waits
    <3>3. ClassOf[o] \in Finished
      BY <2>2, <2>7, <3>1 DEF Finished
    <3>4. Pos(o) < class \/ Pos(o) = class
      BY <2>2, <2>3, <3>1
    <3>5. /\ ~ Matches(o) => Entries(o) = {}
          /\ Matches(o) => Once(o) \/ Lost(o)
      BY <2>1, <2>7, <3>1, <3>2, <3>4 DEF Reached, InHand, Past, NotYet
    <3> QED BY <2>5, <2>6, <3>3, <3>5 DEF Lost
  <2>8. CASE phase = "failed"
    <3>1. ClassOf[o] \in Finished <=> Pos(o) < class
      BY <2>2, <2>3, <2>8 DEF Finished
    <3>2. Pos(o) >= class => Entries(o) = {}
      BY <2>1, <2>2, <2>3, <2>8 DEF Reached, InHand, NotYet
    <3>3. Pos(o) < class => /\ ~ Matches(o) => Entries(o) = {}
                            /\ Matches(o) => Once(o) \/ Lost(o)
      BY <2>1 DEF Reached, Past
    <3> QED BY <2>2, <2>3, <2>5, <2>6, <3>1, <3>2, <3>3 DEF Lost
  <2> QED BY <2>7, <2>8
<1> QED BY <1>1, TypeInit, TypeStep, WorkInit, WorkStep, OrderOfIdsInit, OrderOfIdsStep,
           CompleteInit, CompleteStep, PTL DEF Spec
=============================================================================
