---------------------------- MODULE SessionProofs ----------------------------
(***************************************************************************)
(* Theorems about Session, for any files, classes, algorithms and any      *)
(* number of callbacks, converters and actions.                            *)
(***************************************************************************)
EXTENDS Session, TLAPS

-----------------------------------------------------------------------------
(***************************************************************************)
(* TYPES                                                                   *)
(***************************************************************************)

\* What the plug-in may give as a hierarchy, and its inverse, are hierarchies.
LEMMA SchemaTyped ==
  ASSUME NEW files
  PROVE  /\ Schema(files) \in Hierarchies
         /\ Subclasses(Schema(files)) \in Hierarchies
         /\ NoClasses \in Hierarchies
<1> DEFINE known == {c \in Classes : FileOf[c] \in files}
           S == [c \in known |-> Supers[c] \cap known]
           parents == UNION {S[c] : c \in DOMAIN S}
<1>1. S \in [known -> SUBSET Classes] /\ known \in SUBSET Classes
  BY ClassesAssumption
<1>2. Subclasses(S) \in [parents -> SUBSET Classes]
  BY <1>1 DEF Subclasses
<1>3. parents \in SUBSET Classes
  BY <1>1
<1>4. NoClasses \in [{} -> SUBSET Classes] /\ {} \in SUBSET Classes
  BY DEF NoClasses
<1>5. S = Schema(files)
  BY DEF Schema
<1> QED BY <1>1, <1>2, <1>3, <1>4, <1>5 DEF Hierarchies

LEMMA HierarchyTyped ==
  ASSUME TypeOK, NEW files, ReadHierarchy(files) \/ HierarchyRefused
  PROVE  superclasses' \in Hierarchies /\ subclasses' \in Hierarchies /\ torn' \in BOOLEAN
BY SchemaTyped DEF TypeOK, ReadHierarchy, HierarchyRefused

LEMMA ViewTyped ==
  ASSUME TypeOK, NEW told, Tell(told)
  PROVE  view' \in [Actions -> {"none", "current", "stale"}]
BY DEF TypeOK, Tell

LEMMA UnloadingTyped ==
  ASSUME TypeOK, NEW refused, Unloading(refused)
  PROVE  /\ open' \subseteq Files /\ saved' \subseteq Files
         /\ served' \in BOOLEAN /\ torn' \in BOOLEAN
         /\ superclasses' \in Hierarchies /\ subclasses' \in Hierarchies
         /\ described' \subseteq Classes \X Ways
         /\ made' \subseteq [class : Classes, maker : Classes]
         /\ callbacks' \subseteq Notifiers \cup PreNotifiers
         /\ converters' \subseteq Converters
         /\ view' \in [Actions -> {"none", "current", "stale"}]
<1>1. view' \in [Actions -> {"none", "current", "stale"}]
  BY ViewTyped DEF Unloading, ToldOfUnload
<1> QED BY <1>1, SchemaTyped DEF TypeOK, Unloading, ForgetClasses, database, hierarchy

\* the calls that open and close
LEMMA OpeningTyped == ASSUME TypeOK, Opening PROVE TypeOK'
<1>1. ASSUME NEW files \in SUBSET Files, Construct(files) PROVE TypeOK'
  <2>1. superclasses' \in Hierarchies /\ subclasses' \in Hierarchies /\ torn' \in BOOLEAN
    <3>1. CASE UNCHANGED hierarchy
      BY <3>1 DEF TypeOK, hierarchy
    <3>2. CASE ReadHierarchy(files) \/ HierarchyRefused
      BY <3>2, HierarchyTyped
    <3> QED BY <1>1, <3>1, <3>2 DEF Construct
  <2> QED BY <1>1, <2>1 DEF TypeOK, Construct, New, database, actions, heap
<1>2. ASSUME NEW file \in Files, Load(file) PROVE TypeOK'
  <2>1. superclasses' \in Hierarchies /\ subclasses' \in Hierarchies /\ torn' \in BOOLEAN
    <3>1. CASE UNCHANGED hierarchy
      BY <3>1 DEF TypeOK, hierarchy
    <3>2. CASE ReadHierarchy(open') \/ HierarchyRefused
      BY <3>2, HierarchyTyped
    <3> QED BY <1>2, <3>1, <3>2 DEF Load
  <2>2. view' \in [Actions -> {"none", "current", "stale"}]
    BY <1>2, ViewTyped DEF Load
  <2> QED BY <1>2, <2>1, <2>2 DEF TypeOK, Load, database, heap
<1>3. CASE Unload
  BY <1>3, UnloadingTyped DEF TypeOK, Unload, Working, Delete
<1>4. CASE Destroy
  <2>1. ASSUME NEW refused \in Refusals, plugin = "live", Unloading(refused) PROVE TypeOK'
    BY <1>4, <2>1, UnloadingTyped DEF TypeOK, Destroy, Delete, heap
  <2>2. CASE plugin = "none"
    BY <1>4, <2>2 DEF TypeOK, Destroy, database, hierarchy, heap
  <2> QED BY <1>4, <2>1, <2>2 DEF Destroy, Refusals
<1> QED BY <1>1, <1>2, <1>3, <1>4 DEF Opening

\* the calls that change the files that are open
LEMMA EditingTyped == ASSUME TypeOK, Editing PROVE TypeOK'
<1>1. ASSUME NEW files \in SUBSET Files, Working, Changed(files),
             UNCHANGED <<facade, plugin, saved, served, described, made, callbacks,
                         converters, actions, heap>>
      PROVE TypeOK'
  BY <1>1, HierarchyTyped DEF TypeOK, Working, Changed, actions, heap
<1>2. CASE Commit
  BY <1>2 DEF TypeOK, Commit, Working, hierarchy, actions, heap
<1>3. CASE Abort
  BY <1>1, <1>3 DEF TypeOK, Abort
<1>4. ASSUME NEW file \in Files, NEW includes \in SUBSET Files, Create(file, includes)
      PROVE TypeOK'
  <2>1. open \cup {file} \cup includes \in SUBSET Files
    BY DEF TypeOK
  <2> QED BY <1>1, <1>4, <2>1 DEF Create
<1>5. ASSUME NEW file \in Files, NEW include \in Files, AddInclude(file, include)
      PROVE TypeOK'
  <2>1. open \cup {include} \in SUBSET Files
    BY DEF TypeOK
  <2> QED BY <1>1, <1>5, <2>1 DEF AddInclude
<1>6. ASSUME NEW file \in Files, NEW include \in Files, RemoveInclude(file, include)
      PROVE TypeOK'
  <2>1. open \ {include} \in SUBSET Files
    BY DEF TypeOK
  <2> QED BY <1>1, <1>6, <2>1 DEF RemoveInclude
<1> QED BY <1>2, <1>3, <1>4, <1>5, <1>6 DEF Editing

\* A template object is made for a class of the hierarchy by a registered class.
LEMMA MakersRegistered ==
  ASSUME NEW supers, NEW class, NEW upcast, NEW algorithm
  PROVE  /\ Creators(RegisteredDal, supers, class, upcast) \subseteq RegisteredDal
         /\ ClassForAlgo(DalClasses, Algorithms, supers, class, algorithm)
              \subseteq RegisteredDal
BY DEF Creators, ClassForAlgo, RegisteredDal

LEMMA RegisteredTyped == RegisteredDal \subseteq Classes
BY DalAssumption DEF RegisteredDal

\* the calls that read
LEMMA ReadingTyped == ASSUME TypeOK, Reading PROVE TypeOK'
<1>1. ASSUME NEW class \in Classes, NEW way \in Ways, GetClassInfo(class, way)
      PROVE TypeOK'
  BY <1>1 DEF TypeOK, GetClassInfo, New, database, hierarchy, actions
<1>2. ASSUME NEW class \in Classes, NEW maker \in RegisteredDal, Make(class, maker),
             UNCHANGED <<facade, plugin, database, served, hierarchy, described, callbacks,
                         converters, actions>>
      PROVE TypeOK'
  <2>1. [class |-> class, maker |-> maker] \in [class : Classes, maker : Classes]
    BY RegisteredTyped
  <2> QED BY <1>2, <2>1 DEF TypeOK, Make, New, database, hierarchy, actions
<1>3. ASSUME NEW class \in Classes, NEW upcast \in BOOLEAN, MakeDal(class, upcast)
      PROVE TypeOK'
  <2>1. PICK maker \in Creators(RegisteredDal, superclasses, class, upcast) :
          Make(class, maker)
    BY <1>3 DEF MakeDal
  <2> QED BY <1>2, <1>3, <2>1, MakersRegistered DEF MakeDal
<1>4. ASSUME NEW class \in Classes, NEW algorithm, MakeAlgo(class, algorithm)
      PROVE TypeOK'
  <2>1. PICK maker \in ClassForAlgo(DalClasses, Algorithms, superclasses, class, algorithm) :
          Make(class, maker)
    BY <1>4 DEF MakeAlgo
  <2> QED BY <1>2, <1>4, <2>1, MakersRegistered DEF MakeAlgo
<1> QED BY <1>1, <1>3, <1>4 DEF Reading

\* the calls that register and drop callbacks, converters and actions
LEMMA RegisteringTyped == ASSUME TypeOK, Registering PROVE TypeOK'
<1> USE DEF TypeOK, database, hierarchy, actions, heap
<1>1. ASSUME NEW x \in Converters, RegisterConverter(x) PROVE TypeOK'
  BY <1>1 DEF RegisterConverter, New
<1>2. ASSUME NEW user \in Notifiers, Subscribe(user) PROVE TypeOK'
  BY <1>2 DEF Subscribe, New, ResetSubscription
<1>3. ASSUME NEW user \in PreNotifiers, SubscribePre(user) PROVE TypeOK'
  BY <1>3 DEF SubscribePre, New
<1>4. ASSUME NEW users, Unsubscribe(users) PROVE TypeOK'
  BY <1>4 DEF Unsubscribe, Delete, ResetSubscription
<1>5. ASSUME NEW a \in Actions, AddAction(a) \/ RemoveAction(a) \/ Keep(a) PROVE TypeOK'
  BY <1>5 DEF AddAction, RemoveAction, Keep
<1> QED BY <1>1, <1>2, <1>3, <1>4, <1>5 DEF Registering

LEMMA TypeInit == Init => TypeOK
BY SchemaTyped DEF Init, TypeOK

LEMMA TypeStep == TypeOK /\ [Next]_vars => TypeOK'
<1> SUFFICES ASSUME TypeOK, [Next]_vars PROVE TypeOK'
  OBVIOUS
<1>1. CASE UNCHANGED vars
  BY <1>1 DEF TypeOK, vars, database, hierarchy, actions, heap
<1> QED BY <1>1, OpeningTyped, EditingTyped, ReadingTyped, RegisteringTyped DEF Next

\* Every variable keeps its type, for any files, classes and users.
THEOREM SessionTyped == Spec => []TypeOK
BY TypeInit, TypeStep, PTL DEF Spec
-----------------------------------------------------------------------------
(***************************************************************************)
(* THE HIERARCHY FOLLOWS THE OPEN FILES                                    *)
(***************************************************************************)

\* what set_subclasses makes of a hierarchy
Inverted == open # {} => subclasses = Subclasses(superclasses)

HierarchyInv ==
  /\ facade = "none" => /\ open = {} /\ torn = FALSE
                        /\ superclasses = NoClasses
  /\ facade = "alive" /\ ~ torn => superclasses = Schema(open) /\ Inverted

LEMMA NoSchema == Schema({}) = NoClasses
BY DEF Schema, NoClasses

LEMMA ReadingFollows ==
  ASSUME ReadHierarchy(open') \/ HierarchyRefused
  PROVE  ~ torn' => superclasses' = Schema(open') /\ Inverted'
BY DEF ReadHierarchy, HierarchyRefused, Inverted

LEMMA HierarchyInit == Init => HierarchyInv
BY DEF Init, HierarchyInv

LEMMA HierarchyStep == HierarchyInv /\ [Next]_vars => HierarchyInv'
<1> SUFFICES ASSUME HierarchyInv, [Next]_vars PROVE HierarchyInv'
  OBVIOUS
<1>1. CASE UNCHANGED <<facade, database, hierarchy>>
  BY <1>1 DEF HierarchyInv, Inverted, database, hierarchy
<1>2. ASSUME NEW files \in SUBSET Files, Construct(files) PROVE HierarchyInv'
  <2>1. CASE UNCHANGED <<plugin, database, hierarchy, heap>> /\ facade' = "alive"
    BY <1>2, <2>1, NoSchema DEF HierarchyInv, Inverted, Construct, database, hierarchy
  <2>2. CASE facade' = "alive" /\ open' = files /\ ReadHierarchy(files)
    BY <2>2 DEF HierarchyInv, Inverted, ReadHierarchy
  <2>3. CASE facade' = "abandoned"
    BY <2>3 DEF HierarchyInv
  <2> QED BY <1>2, <2>1, <2>2, <2>3 DEF Construct
<1>3. ASSUME NEW file \in Files, Load(file) PROVE HierarchyInv'
  <2>1. CASE UNCHANGED <<database, hierarchy>>
    BY <1>1, <1>3, <2>1 DEF Load
  <2>2. CASE ReadHierarchy(open') \/ HierarchyRefused
    BY <1>3, <2>2, ReadingFollows DEF Load, HierarchyInv
  <2> QED BY <1>3, <2>1, <2>2 DEF Load
<1>4. CASE Unload
  <2>1. PICK refused \in Refusals : Unloading(refused)
    BY <1>4 DEF Unload
  <2>2. facade' = "alive" /\ facade = "alive"
    BY <1>4 DEF Unload, Working
  <2>3. CASE UNCHANGED <<hierarchy, database>>
    BY <1>1, <2>2, <2>3
  <2>4. CASE superclasses' = NoClasses /\ open' = {}
    BY <2>2, <2>4, NoSchema DEF HierarchyInv, Inverted
  <2>5. CASE torn' = TRUE
    BY <2>2, <2>5 DEF HierarchyInv
  <2> QED BY <2>1, <2>3, <2>4, <2>5 DEF Unloading, ForgetClasses
<1>5. CASE Destroy
  <2>1. facade' # "alive" /\ facade' # "none"
    BY <1>5 DEF Destroy
  <2> QED BY <2>1 DEF HierarchyInv
<1>6. CASE Editing
  <2>1. ASSUME NEW files, Changed(files), UNCHANGED facade, Working
        PROVE  HierarchyInv'
    BY <2>1, ReadingFollows DEF HierarchyInv, Changed, Working
  <2>2. CASE Commit
    BY <2>2 DEF HierarchyInv, Inverted, Commit, hierarchy
  <2>3. CASE ~ Commit
    BY <1>6, <2>1, <2>3 DEF Editing, Create, AddInclude, RemoveInclude, Abort
  <2> QED BY <2>2, <2>3
<1>7. CASE Reading
  BY <1>1, <1>7 DEF Reading, GetClassInfo, MakeDal, MakeAlgo
<1>8. CASE Registering
  BY <1>1, <1>8 DEF Registering, RegisterConverter, Subscribe, SubscribePre, Unsubscribe,
                    AddAction, RemoveAction, Keep
<1>9. CASE UNCHANGED vars
  BY <1>1, <1>9 DEF vars
<1> QED BY <1>2, <1>3, <1>4, <1>5, <1>6, <1>7, <1>8, <1>9 DEF Next, Opening

\* The inverse lists a class under another exactly if that is one of its superclasses.
LEMMA InverseListed ==
  ASSUME NEW supers \in Hierarchies, NEW p \in Classes, NEW c \in Classes
  PROVE  p \in DOMAIN Subclasses(supers) /\ c \in Subclasses(supers)[p] <=>
           c \in DOMAIN supers /\ p \in supers[c]
BY DEF Subclasses

\* As long as the plug-in refuses nothing, casts and the DalFactory use the hierarchy of
\* the files that are open.
THEOREM HierarchyKept == Spec => []HierarchyFollows
<1>1. TypeOK /\ HierarchyInv => HierarchyFollows
  <2> SUFFICES ASSUME TypeOK, HierarchyInv, facade = "alive", ~ torn
               PROVE  /\ superclasses = Schema(open)
                      /\ open # {} => \A p, c \in Classes :
                           p \in DOMAIN subclasses /\ c \in subclasses[p] <=>
                             c \in DOMAIN superclasses /\ p \in superclasses[c]
    BY DEF HierarchyFollows
  <2> QED BY InverseListed DEF TypeOK, HierarchyInv, Inverted
<1> QED BY <1>1, HierarchyInit, HierarchyStep, SessionTyped, PTL DEF Spec
-----------------------------------------------------------------------------
(***************************************************************************)
(* TEMPLATE OBJECTS                                                        *)
(***************************************************************************)

\* the hierarchy never says more than the schema does
Truthful == \A c \in DOMAIN superclasses : c \in Classes /\ superclasses[c] \subseteq Supers[c]

MadeInv == Truthful /\ MadeCastable

LEMMA SchemaTruthful ==
  ASSUME NEW files, NEW c \in DOMAIN Schema(files)
  PROVE  c \in Classes /\ Schema(files)[c] \subseteq Supers[c]
BY DEF Schema

LEMMA NoneTruthful == DOMAIN NoClasses = {}
BY DEF NoClasses

LEMMA TruthfulStep == Truthful /\ [Next]_vars => Truthful'
<1> SUFFICES ASSUME Truthful, [Next]_vars PROVE Truthful'
  OBVIOUS
<1>1. CASE UNCHANGED superclasses
  BY <1>1 DEF Truthful
<1>2. ASSUME NEW files, superclasses' = Schema(files) PROVE Truthful'
  BY <1>2, SchemaTruthful DEF Truthful
<1>3. CASE superclasses' = NoClasses
  BY <1>3, NoneTruthful DEF Truthful
<1>4. CASE Opening
  BY <1>1, <1>2, <1>3, <1>4
     DEF Opening, Construct, Load, Unload, Destroy, Unloading, ForgetClasses, ReadHierarchy,
         HierarchyRefused, hierarchy
<1>5. CASE Editing
  BY <1>1, <1>2, <1>5
     DEF Editing, Create, AddInclude, RemoveInclude, Commit, Abort, Changed, ReadHierarchy,
         HierarchyRefused, hierarchy
<1>6. CASE Reading \/ Registering \/ UNCHANGED vars
  BY <1>1, <1>6
     DEF Reading, GetClassInfo, MakeDal, MakeAlgo, Registering, RegisterConverter, Subscribe,
         SubscribePre, Unsubscribe, AddAction, RemoveAction, Keep, hierarchy, vars
<1> QED BY <1>4, <1>5, <1>6 DEF Next

\* Both ways to make a template object choose a class its class derives from.
LEMMA MakersCastable ==
  ASSUME Truthful, NEW class \in Classes, NEW upcast, NEW algorithm, NEW maker,
         \/ maker \in Creators(RegisteredDal, superclasses, class, upcast)
         \/ maker \in ClassForAlgo(DalClasses, Algorithms, superclasses, class, algorithm)
  PROVE  maker \in RegisteredDal /\ TryCast(Supers, maker, class)
<1>1. maker \in RegisteredDal
  BY MakersRegistered
<1>2. TryCast(superclasses, maker, class)
  <2>1. CASE maker \in Creators(RegisteredDal, superclasses, class, upcast)
    BY <2>1 DEF Creators, TryCast
  <2>2. CASE maker \in ClassForAlgo(DalClasses, Algorithms, superclasses, class, algorithm)
    <3>1. PICK i \in DOMAIN DalClasses : /\ maker = DalClasses[i]
                                        /\ TryCast(superclasses, DalClasses[i], class)
      BY <2>2 DEF ClassForAlgo
    <3> QED BY <3>1
  <2> QED BY <2>1, <2>2
<1> QED BY <1>1, <1>2, ClassesAssumption DEF Truthful, TryCast

LEMMA MadeStep == MadeInv /\ [Next]_vars => MadeInv'
<1> SUFFICES ASSUME MadeInv, [Next]_vars PROVE MadeInv'
  OBVIOUS
<1>1. Truthful'
  BY TruthfulStep DEF MadeInv
<1>2. CASE made' \subseteq made
  BY <1>1, <1>2 DEF MadeInv, MadeCastable
<1>3. ASSUME NEW class \in Classes, NEW maker, Make(class, maker),
             maker \in RegisteredDal /\ TryCast(Supers, maker, class)
      PROVE  MadeInv'
  BY <1>1, <1>3 DEF MadeInv, MadeCastable, Make
<1>4. CASE Opening
  BY <1>2, <1>4 DEF Opening, Construct, Load, Unload, Destroy, Unloading
<1>5. CASE Editing
  BY <1>2, <1>5 DEF Editing, Create, AddInclude, RemoveInclude, Commit, Abort
<1>6. CASE Reading
  <2>1. ASSUME NEW class \in Classes, NEW upcast, MakeDal(class, upcast) PROVE MadeInv'
    BY <1>3, <2>1, MakersCastable DEF MakeDal, MadeInv
  <2>2. ASSUME NEW class \in Classes, NEW algorithm, MakeAlgo(class, algorithm)
        PROVE MadeInv'
    BY <1>3, <2>2, MakersCastable DEF MakeAlgo, MadeInv
  <2>3. ASSUME NEW class \in Classes, NEW way, GetClassInfo(class, way) PROVE MadeInv'
    BY <1>2, <2>3 DEF GetClassInfo
  <2> QED BY <1>6, <2>1, <2>2, <2>3 DEF Reading
<1>7. CASE Registering \/ UNCHANGED vars
  BY <1>2, <1>7
     DEF Registering, RegisterConverter, Subscribe, SubscribePre, Unsubscribe, AddAction,
         RemoveAction, Keep, vars
<1> QED BY <1>4, <1>5, <1>6, <1>7 DEF Next

\* No object is ever given to the functions of a C++ class its class does not derive from,
\* whatever files were included, removed or reloaded since.
THEOREM ObjectsCastable == Spec => []MadeCastable
<1>1. Init => MadeInv
  BY NoneTruthful DEF Init, MadeInv, Truthful, MadeCastable
<1>2. MadeInv => MadeCastable
  BY DEF MadeInv
<1> QED BY <1>1, <1>2, MadeStep, PTL DEF Spec
-----------------------------------------------------------------------------
(***************************************************************************)
(* ACTIONS AND CALLBACKS                                                   *)
(***************************************************************************)

\* only an action that is told keeps anything
ViewInv == \A a \in Actions : view[a] # "stale" /\ (a \notin listening => view[a] = "none")

LEMMA ToldForget ==
  ASSUME ViewInv, Tell(listening)
  PROVE  \A a \in Actions : view'[a] = "none"
BY DEF ViewInv, Tell

LEMMA ViewStep == TypeOK /\ ViewInv /\ [Next]_vars => ViewInv'
<1> SUFFICES ASSUME TypeOK, ViewInv, [Next]_vars PROVE ViewInv'
  OBVIOUS
<1>1. CASE UNCHANGED <<listening, view>>
  BY <1>1 DEF ViewInv
<1>2. CASE \A a \in Actions : view'[a] = "none"
  BY <1>2 DEF ViewInv
<1>3. CASE Opening
  <2>1. ASSUME NEW files, Construct(files) PROVE ViewInv'
    BY <1>1, <2>1 DEF Construct, actions
  <2>2. ASSUME NEW file, Load(file) PROVE ViewInv'
    BY <1>2, <2>2, ToldForget DEF Load
  <2>3. ASSUME NEW refused, Unloading(refused) PROVE ViewInv'
    BY <1>2, <2>3, ToldForget DEF Unloading, ToldOfUnload
  <2> QED BY <1>1, <1>3, <2>1, <2>2, <2>3 DEF Opening, Unload, Destroy
<1>4. CASE Editing
  BY <1>1, <1>4 DEF Editing, Create, AddInclude, RemoveInclude, Commit, Abort, actions
<1>5. CASE Reading
  BY <1>1, <1>5 DEF Reading, GetClassInfo, MakeDal, MakeAlgo, actions
<1>6. CASE Registering
  <2>1. ASSUME NEW a \in Actions, AddAction(a) \/ RemoveAction(a) \/ Keep(a) PROVE ViewInv'
    BY <2>1 DEF ViewInv, TypeOK, AddAction, RemoveAction, Keep
  <2> QED BY <1>1, <1>6, <2>1
          DEF Registering, RegisterConverter, Subscribe, SubscribePre, Unsubscribe, actions
<1>7. CASE UNCHANGED vars
  BY <1>1, <1>7 DEF vars, actions
<1> QED BY <1>3, <1>4, <1>5, <1>6, <1>7 DEF Next

\* No registered action keeps data of a database that was unloaded or loaded over, even
\* when the plug-in refused a step: the actions are told before anything is done.
THEOREM ActionsTold == Spec => []ActionsForget
<1>1. Init => ViewInv
  BY DEF Init, ViewInv
<1>2. TypeOK /\ ViewInv => ActionsForget
  BY DEF TypeOK, ViewInv, ActionsForget
<1> QED BY <1>1, <1>2, ViewStep, SessionTyped, PTL DEF Spec

ServedInv == /\ CallbacksServed
             /\ facade = "none" => served = FALSE /\ callbacks = {}

LEMMA ServedStep == ServedInv /\ [Next]_vars => ServedInv'
<1> SUFFICES ASSUME ServedInv, [Next]_vars PROVE ServedInv'
  OBVIOUS
<1>1. CASE UNCHANGED <<facade, served, callbacks>>
  BY <1>1 DEF ServedInv, CallbacksServed
<1>2. CASE Opening
  <2>1. ASSUME NEW files, Construct(files) PROVE ServedInv'
    <3>1. served' = FALSE /\ callbacks' = {}
      BY <2>1 DEF ServedInv, Construct
    <3> QED BY <3>1 DEF ServedInv, CallbacksServed
  <2>2. ASSUME NEW file, Load(file) PROVE ServedInv'
    BY <1>1, <2>2 DEF Load
  <2>3. CASE Unload
    BY <2>3 DEF ServedInv, CallbacksServed, Unload, Unloading, Working
  <2>4. CASE Destroy
    <3>1. CASE facade' = "gone" /\ Unloading("nothing")
      BY <3>1 DEF ServedInv, CallbacksServed, Unloading
    <3>2. CASE facade' = "abandoned"
      BY <3>2 DEF ServedInv, CallbacksServed
    <3> QED BY <2>4, <3>1, <3>2 DEF Destroy
  <2> QED BY <1>2, <2>1, <2>2, <2>3, <2>4 DEF Opening
<1>3. CASE Editing
  BY <1>1, <1>3 DEF Editing, Create, AddInclude, RemoveInclude, Commit, Abort
<1>4. CASE Reading
  BY <1>1, <1>4 DEF Reading, GetClassInfo, MakeDal, MakeAlgo
<1>5. CASE Registering
  <2>1. ASSUME NEW user \in Notifiers, Subscribe(user) PROVE ServedInv'
    BY <2>1 DEF ServedInv, CallbacksServed, Subscribe, ResetSubscription, Working
  <2>2. ASSUME NEW user \in PreNotifiers, SubscribePre(user) PROVE ServedInv'
    BY <2>2, CallbacksAssumption DEF ServedInv, CallbacksServed, SubscribePre
  <2>3. ASSUME NEW users, Unsubscribe(users) PROVE ServedInv'
    <3>1. callbacks' \subseteq callbacks /\ facade' = "alive" /\ facade = "alive"
      BY <2>3 DEF Unsubscribe, Working
    <3>2. CASE UNCHANGED served
      BY <3>1, <3>2 DEF ServedInv, CallbacksServed
    <3>3. CASE ResetSubscription(callbacks')
      BY <3>1, <3>3 DEF ServedInv, CallbacksServed, ResetSubscription
    <3> QED BY <2>3, <3>2, <3>3 DEF Unsubscribe
  <2> QED BY <1>1, <1>5, <2>1, <2>2, <2>3
          DEF Registering, RegisterConverter, AddAction, RemoveAction, Keep
<1>6. CASE UNCHANGED vars
  BY <1>1, <1>6 DEF vars
<1> QED BY <1>2, <1>3, <1>4, <1>5, <1>6 DEF Next

\* A callback in the facade is served by the plug-in, and a facade that was destroyed
\* without an error is called by no plug-in.
THEOREM SubscriptionKept == Spec => []CallbacksServed
<1>1. Init => ServedInv
  BY DEF Init, ServedInv, CallbacksServed
<1>2. ServedInv => CallbacksServed
  BY DEF ServedInv
<1> QED BY <1>1, <1>2, ServedStep, PTL DEF Spec
-----------------------------------------------------------------------------
(***************************************************************************)
(* THE HEAP                                                                *)
(***************************************************************************)

\* The facade points to what is allocated, as long as it lives; before it is constructed
\* nothing is.
HeapInv == /\ HeapOwned
           /\ facade = "none" => live = {} /\ Held = {}

LEMMA OwnedStays ==
  ASSUME HeapInv, facade' = facade, heap' = heap, Held' = Held
  PROVE  HeapInv'
BY DEF HeapInv, HeapOwned, heap

LEMMA ContainersStay ==
  ASSUME UNCHANGED <<plugin, described, made, callbacks, converters>>
  PROVE  Held' = Held
BY DEF Held, CacheCells, CallbackCells, ConverterCells, DescriptionCells

\* A cell is in the container that its kind says.
LEMMA HeldCells ==
  /\ PluginCell \in Held <=> plugin = "live"
  /\ \A x : <<"cache", x>> \in Held <=> x \in {o.maker : o \in made}
  /\ \A x : <<"callback", x>> \in Held <=> x \in callbacks
  /\ \A x : <<"converter", x>> \in Held <=> x \in converters
  /\ \A x : <<"description", x>> \in Held <=> x \in described
BY DEF Held, PluginCell, CacheCells, CallbackCells, ConverterCells, DescriptionCells, Cells

\* Cells that no container points to may be allocated, if one then does.
LEMMA NewOwned ==
  ASSUME HeapInv, facade = "alive" \/ facade = "none", facade' = "alive",
         NEW cells, New(cells), cells \cap Held = {}, Held' = Held \cup cells
  PROVE  HeapInv'
BY DEF HeapInv, HeapOwned, New

\* Cells that a container points to may be deleted, if none then does.
LEMMA DeleteOwned ==
  ASSUME HeapInv, facade = "alive", facade' = "alive",
         NEW cells, Delete(cells), cells \subseteq Held, Held' = Held \ cells
  PROVE  HeapInv'
BY DEF HeapInv, HeapOwned, Delete

LEMMA UnloadFreesHeld ==
  ASSUME NEW refused, Unloading(refused), UNCHANGED plugin
  PROVE  UnloadFrees(refused) \subseteq Held /\ Held' = Held \ UnloadFrees(refused)
<1>1. UnloadFrees(refused) \subseteq Held
  BY DEF UnloadFrees, Held
<1>2. CASE refused = "unsubscribe"
  <2>1. /\ made' = {} /\ callbacks' = {}
        /\ converters' = converters /\ described' = described
    BY <1>2 DEF Unloading
  <2> QED BY <1>1, <1>2, <2>1
          DEF UnloadFrees, Held, CacheCells, CallbackCells, ConverterCells,
              DescriptionCells, Cells, PluginCell
<1>3. CASE refused # "unsubscribe"
  <2>1. /\ made' = {} /\ callbacks' = {}
        /\ converters' = {} /\ described' = {}
    BY <1>3 DEF Unloading, ForgetClasses
  <2> QED BY <1>1, <1>3, <2>1
          DEF UnloadFrees, Held, CacheCells, CallbackCells, ConverterCells,
              DescriptionCells, Cells, PluginCell
<1> QED BY <1>1, <1>2, <1>3

LEMMA HeapOpening == ASSUME HeapInv, Opening PROVE HeapInv'
<1>1. ASSUME NEW files, Construct(files) PROVE HeapInv'
  <2>0. UNCHANGED <<described, made, callbacks, converters>> /\ facade = "none"
    BY <1>1 DEF Construct
  <2>1. CASE UNCHANGED <<plugin, heap>> /\ facade' = "alive"
    <3>1. Held' = Held
      BY <2>0, <2>1, ContainersStay
    <3> QED BY <2>0, <2>1, <3>1 DEF HeapInv, HeapOwned, heap
  <2>2. CASE plugin' = "live" /\ New({PluginCell}) /\ facade' = "alive"
    <3>1. Held' = Held \cup {PluginCell}
      BY <2>0, <2>2 DEF Held, CacheCells, CallbackCells, ConverterCells, DescriptionCells,
                        PluginCell
    <3>2. {PluginCell} \cap Held = {}
      BY <2>0 DEF HeapInv
    <3> QED BY <2>0, <2>2, <3>1, <3>2, NewOwned
  <2>3. CASE New({PluginCell}) /\ facade' = "abandoned"
    BY <2>0, <2>3 DEF HeapInv, HeapOwned, New
  <2> QED BY <1>1, <2>1, <2>2, <2>3 DEF Construct
<1>2. ASSUME NEW file, Load(file) PROVE HeapInv'
  BY <1>2, OwnedStays, ContainersStay DEF Load
<1>3. CASE Unload
  <2>1. PICK refused \in Refusals : Unloading(refused) /\ Delete(UnloadFrees(refused))
    BY <1>3 DEF Unload
  <2>2. facade = "alive" /\ facade' = "alive" /\ UNCHANGED plugin
    BY <1>3 DEF Unload, Working
  <2> QED BY <2>1, <2>2, UnloadFreesHeld, DeleteOwned
<1>4. CASE Destroy
  <2>1. facade = "alive" /\ live = Held
    BY <1>4 DEF Destroy, HeapInv, HeapOwned
  <2>2. CASE /\ plugin = "live" /\ facade' = "gone"
             /\ Delete(UnloadFrees("nothing") \cup {PluginCell})
    <3>1. UnloadFrees("nothing") \cup {PluginCell} = Held
      BY <2>2 DEF UnloadFrees, Held
    <3> QED BY <2>1, <2>2, <3>1 DEF HeapInv, HeapOwned, Delete
  <2>3. CASE /\ facade' = "abandoned"
             /\ \E refused \in Refusals : Unloading(refused) /\ Delete(UnloadFrees(refused))
    <3>1. PICK refused \in Refusals : Unloading(refused) /\ Delete(UnloadFrees(refused))
      BY <2>3
    <3>2. UnloadFrees(refused) \subseteq Held
      BY DEF UnloadFrees, Held
    <3> QED BY <2>1, <2>3, <3>1, <3>2 DEF HeapInv, HeapOwned, Delete
  <2>4. CASE facade' = "abandoned" /\ UNCHANGED heap
    BY <2>4 DEF HeapInv, HeapOwned, heap
  <2> QED BY <1>4, <2>2, <2>3, <2>4 DEF Destroy, Refusals
<1> QED BY <1>1, <1>2, <1>3, <1>4 DEF Opening

LEMMA HeapReading == ASSUME HeapInv, Reading PROVE HeapInv'
<1>1. ASSUME NEW class, NEW way, GetClassInfo(class, way) PROVE HeapInv'
  <2> DEFINE cells == Cells("description", {<<class, way>>})
  <2>1. Held' = Held \cup cells
    BY <1>1 DEF GetClassInfo, Held, CacheCells, CallbackCells, ConverterCells,
                DescriptionCells, Cells
  <2>2. cells \cap Held = {}
    BY <1>1, HeldCells DEF GetClassInfo, Cells
  <2>3. New(cells) /\ facade = "alive" /\ facade' = "alive"
    BY <1>1 DEF GetClassInfo, Working
  <2> QED BY <2>1, <2>2, <2>3, NewOwned
<1>2. ASSUME NEW class, NEW maker, Make(class, maker), Working,
             UNCHANGED <<facade, plugin, described, callbacks, converters>>
      PROVE HeapInv'
  <2> DEFINE object == [class |-> class, maker |-> maker]
             cells == Cells("cache", {maker} \ {o.maker : o \in made})
  <2>1. made' = made \cup {object} /\ New(cells)
    BY <1>2 DEF Make
  <2>2. {o.maker : o \in made'} = {o.maker : o \in made} \cup {maker}
    <3>1. object.maker = maker
      OBVIOUS
    <3>2. made' = made \cup {object}
      BY <2>1
    <3> HIDE DEF object
    <3> QED BY <3>1, <3>2
  <2>3. CacheCells' = CacheCells \cup cells
    BY <2>2 DEF CacheCells, Cells
  <2>4. Held' = Held \cup cells
    BY <1>2, <2>3 DEF Held, CallbackCells, ConverterCells, DescriptionCells
  <2>5. cells \cap Held = {}
    BY HeldCells DEF Cells
  <2> QED BY <1>2, <2>1, <2>4, <2>5, NewOwned DEF Working
<1> QED BY <1>1, <1>2 DEF Reading, MakeDal, MakeAlgo

LEMMA HeapRegistering == ASSUME HeapInv, Registering PROVE HeapInv'
<1>1. ASSUME NEW x, RegisterConverter(x) PROVE HeapInv'
  <2>1. Held' = Held \cup Cells("converter", {x})
    BY <1>1 DEF RegisterConverter, Held, CacheCells, CallbackCells, ConverterCells,
                DescriptionCells, Cells
  <2>2. Cells("converter", {x}) \cap Held = {}
    BY <1>1, HeldCells DEF RegisterConverter, Cells
  <2> QED BY <1>1, <2>1, <2>2, NewOwned DEF RegisterConverter
<1>2. ASSUME NEW user, user \notin callbacks, callbacks' = callbacks \cup {user},
             facade = "alive", New(Cells("callback", {user})),
             UNCHANGED <<facade, plugin, described, made, converters>>
      PROVE HeapInv'
  <2>1. Held' = Held \cup Cells("callback", {user})
    BY <1>2 DEF Held, CacheCells, CallbackCells, ConverterCells, DescriptionCells, Cells
  <2>2. Cells("callback", {user}) \cap Held = {}
    BY <1>2, HeldCells DEF Cells
  <2> QED BY <1>2, <2>1, <2>2, NewOwned
<1>3. ASSUME NEW users, Unsubscribe(users) PROVE HeapInv'
  <2> DEFINE cells == Cells("callback", users)
  <2>1. /\ users \subseteq callbacks /\ callbacks' = callbacks \ users
        /\ UNCHANGED <<facade, plugin, described, made, converters>>
        /\ facade = "alive" /\ Delete(cells)
    BY <1>3 DEF Unsubscribe, Working
  <2>2. cells \subseteq Held
    BY <2>1, HeldCells DEF Cells
  <2>3. Held' = Held \ cells
    BY <2>1 DEF Held, CacheCells, CallbackCells, ConverterCells, DescriptionCells, Cells,
                PluginCell
  <2> QED BY <2>1, <2>2, <2>3, DeleteOwned
<1>4. ASSUME NEW a, AddAction(a) \/ RemoveAction(a) \/ Keep(a) PROVE HeapInv'
  BY <1>4, OwnedStays, ContainersStay DEF AddAction, RemoveAction, Keep
<1> QED BY <1>1, <1>2, <1>3, <1>4 DEF Registering, Subscribe, SubscribePre, Working

LEMMA HeapStep == HeapInv /\ [Next]_vars => HeapInv'
<1> SUFFICES ASSUME HeapInv, [Next]_vars PROVE HeapInv'
  OBVIOUS
<1>1. CASE Editing
  BY <1>1, OwnedStays, ContainersStay
     DEF Editing, Create, AddInclude, RemoveInclude, Commit, Abort
<1>2. CASE UNCHANGED vars
  BY <1>2, OwnedStays, ContainersStay DEF vars
<1> QED BY <1>1, <1>2, HeapOpening, HeapReading, HeapRegistering DEF Next

LEMMA HeapInit == Init => HeapInv
BY DEF Init, HeapInv, HeapOwned, Held, CacheCells, CallbackCells, ConverterCells,
       DescriptionCells, Cells

\* Whatever the sequence of calls and wherever the plug-in refuses, nothing is deleted
\* twice or lost, and a destructor without an error leaves nothing.
THEOREM NothingLeaks == Spec => []HeapOwned
<1>1. HeapInv => HeapOwned
  BY DEF HeapInv
<1> QED BY <1>1, HeapInit, HeapStep, PTL DEF Spec

\* a step that deletes nothing, or only callbacks
LEMMA NothingFreed ==
  ASSUME NEW users, live \ live' \subseteq Cells("callback", users)
  PROVE  Together
BY DEF Together, Cells, DescriptionCells, CacheCells, PluginCell

LEMMA TogetherStep == HeapInv /\ [Next]_vars => [Together]_vars
<1> SUFFICES ASSUME HeapInv, Next PROVE Together
  BY DEF Together, vars, heap
<1>1. CASE live \subseteq live'
  BY <1>1, NothingFreed
<1>2. CASE Unload
  <2>1. PICK refused \in Refusals : Unloading(refused) /\ Delete(UnloadFrees(refused))
    BY <1>2 DEF Unload
  <2>2. made' = {} /\ callbacks' = {}
    BY <2>1 DEF Unloading
  <2>3. PluginCell \notin UnloadFrees(refused)
    BY DEF UnloadFrees, CacheCells, CallbackCells, ConverterCells, DescriptionCells, Cells,
           PluginCell
  <2> QED BY <2>1, <2>2, <2>3 DEF Together, Delete
<1>3. CASE Destroy
  <2>1. live = Held
    BY <1>3 DEF Destroy, HeapInv, HeapOwned
  <2>2. CASE Unloading("nothing") /\ Delete(UnloadFrees("nothing") \cup {PluginCell})
    <3>1. Held \subseteq UnloadFrees("nothing") \cup {PluginCell}
      BY DEF UnloadFrees, Held
    <3> QED BY <2>1, <2>2, <3>1 DEF Together, Unloading, Delete
  <2>3. ASSUME NEW refused \in Refusals,
               Unloading(refused) /\ Delete(UnloadFrees(refused))
        PROVE  Together
    <3>1. PluginCell \notin UnloadFrees(refused)
      BY DEF UnloadFrees, CacheCells, CallbackCells, ConverterCells, DescriptionCells, Cells,
             PluginCell
    <3> QED BY <2>3, <3>1 DEF Together, Unloading, Delete
  <2> QED BY <1>1, <1>3, <2>2, <2>3 DEF Destroy, Refusals, heap
<1>4. CASE Opening
  <2>1. ASSUME NEW files, Construct(files) \/ Load(files) PROVE live \subseteq live'
    BY <2>1 DEF Construct, Load, New, heap
  <2> QED BY <1>1, <1>2, <1>3, <1>4, <2>1 DEF Opening
<1>5. CASE Editing
  BY <1>1, <1>5 DEF Editing, Create, AddInclude, RemoveInclude, Commit, Abort, heap
<1>6. CASE Reading
  BY <1>1, <1>6 DEF Reading, GetClassInfo, MakeDal, MakeAlgo, Make, New
<1>7. CASE Registering
  <2>1. ASSUME NEW users, Unsubscribe(users) PROVE Together
    BY <2>1, NothingFreed DEF Unsubscribe, Delete
  <2> QED BY <1>1, <1>7, <2>1
          DEF Registering, RegisterConverter, Subscribe, SubscribePre, AddAction,
              RemoveAction, Keep, New, heap
<1> QED BY <1>4, <1>5, <1>6, <1>7 DEF Next

\* What users hold references to is freed only by steps that drop all template objects and
\* all callbacks (unload, the destructor), and the plug-in with the last of what is allocated.
THEOREM ReferencesLast == Spec => FreedTogether
BY HeapInit, HeapStep, TogetherStep, PTL DEF Spec, FreedTogether
=============================================================================
