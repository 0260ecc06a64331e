---------------------------- MODULE ObjectViews ----------------------------
(***************************************************************************)
(* What the caches promise to who holds objects, without caches: a view is *)
(* a ConfigObject or a DAL pointer of a user.  It stays with its object    *)
(* through renames and destruction, and shows a value the object has, or   *)
(* had since the plug-in last reported its changes.  What this session     *)
(* itself does is seen in all views at once, except that a DAL pointer may *)
(* go on to show what it showed before this session set its object, until  *)
(* the object is reported, destroyed, given up or read again.              *)
(***************************************************************************)
CONSTANTS Objects, Values,
          Views,     \* everything the users may hold
          Pointers,  \* the DAL pointers among it
          None       \* no object; what a view of a destroyed object shows

VARIABLES db,          \* the value of each object, or None
          unreported,  \* objects others changed since the last report
          since,       \* the values each object had since its changes were reported
          object,      \* what a view is of, or None
          shown,       \* what a view shows
          before       \* what a DAL pointer showed when this session set its object,
                       \* if it may show that still, or None

vars == <<db, unreported, since, object, shown, before>>

Init == /\ db \in [Objects -> Values \cup {None}]
        /\ unreported = {}
        /\ since = [o \in Objects |-> {db[o]}]
        /\ object = [x \in Views |-> None]
        /\ shown = [x \in Views |-> None]
        /\ before = [x \in Pointers |-> None]

\* a view never turns to another object
Kept == \A x \in Views : object[x] # None => object'[x] = object[x]

\* what was before a set may be forgotten at any time, and nothing else takes its place
Forget == \A x \in Pointers : before'[x] \in {before[x], None}

\* the views of the objects of S show nothing that was before a set
Renewed(S) == \A x \in Pointers : object'[x] \in S => before'[x] = None

\* the views of the objects of S show what these are now
Current(S) == /\ Renewed(S)
              /\ \A x \in Views : object'[x] \in S => shown'[x] = db'[object'[x]]

\* another session changes o
Change(o) == /\ \A p \in Objects \ {o} : db'[p] = db[p]
             /\ unreported' = unreported \cup {o}
             /\ UNCHANGED object
             /\ Forget

\* the plug-in reports what others changed
Report == /\ unreported' = {}
          /\ UNCHANGED <<db, object>>
          /\ Forget
          /\ Renewed(unreported)

\* this session creates o
Create(o, v) == /\ db' = [db EXCEPT ![o] = v]
                /\ UNCHANGED unreported
                /\ Kept
                /\ Forget
                /\ Current({o})

\* this session sets the value of o: its views show the value, or what they did
Set(o, v) == /\ db' = [db EXCEPT ![o] = v]
             /\ UNCHANGED <<unreported, object>>
             /\ \A x \in Pointers :
                  before'[x] \in IF object[x] = o THEN {before[x], shown[x]} ELSE {before[x]}
             /\ \A x \in Views : object[x] = o =>
                  shown'[x] = v \/ (x \in Pointers /\ shown'[x] = before'[x])

Destroy(S) == /\ db' = [o \in Objects |-> IF o \in S THEN None ELSE db[o]]
              /\ UNCHANGED <<unreported, object>>
              /\ Forget
              /\ Current(S)

\* o becomes p with all its views; nothing is to be reported of either
Rename(o, p) == /\ o \notin unreported /\ p \notin unreported
                /\ db' = [db EXCEPT ![o] = None, ![p] = db[o]]
                /\ object' = [x \in Views |-> IF object[x] = o THEN p ELSE object[x]]
                /\ UNCHANGED unreported
                /\ Forget

\* objects are got, read, or made to be read again
Use == UNCHANGED <<db, unreported>> /\ Kept /\ Forget

\* this session gives up what it changed
Abort == /\ db' \in [Objects -> Values \cup {None}]
         /\ UNCHANGED <<unreported, object>>
         /\ Forget
         /\ Current(Objects)

\* the values of an object are collected until its changes are reported
Collected ==
  since' = [o \in Objects |-> IF o \in unreported' THEN since[o] \cup {db'[o]} ELSE {db'[o]}]

Honest == \A x \in Views :
  IF object'[x] = None THEN shown'[x] = None
  ELSE \/ shown'[x] \in since'[object'[x]]
       \/ x \in Pointers /\ before'[x] # None /\ shown'[x] = before'[x]

Step == \/ \E o \in Objects : Change(o)
        \/ Report
        \/ \E o \in Objects, v \in Values : Create(o, v) \/ Set(o, v)
        \/ \E S \in SUBSET Objects : Destroy(S)
        \/ \E o, p \in Objects : Rename(o, p)
        \/ Use
        \/ Abort

Next == Step /\ Collected /\ Honest

Spec == Init /\ [][Next]_vars
=============================================================================
