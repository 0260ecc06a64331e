---------------------------- MODULE Notification ----------------------------
(***************************************************************************)
(* Subscriptions and the notification of changes (Configuration.cpp,       *)
(* SubscriptionCriteria.cpp, Change.hpp).                                  *)
(*                                                                         *)
(* User threads subscribe and unsubscribe callbacks; after each change of  *)
(* the set of callbacks reset_subscription tells the plug-in what is       *)
(* wanted.  A thread of the plug-in reports the changes made to the        *)
(* database: it calls system_pre_cb and then system_cb, which updates the  *)
(* caches and calls the user callbacks.  The plug-in and the database are  *)
(* external: they are modelled by what the facade relies on.               *)
(***************************************************************************)
EXTENDS Naturals, Sequences, FiniteSets

CONSTANTS Callers,        \* user threads, each with one callback at most
          Classes, Ids,   \* names of classes and of objects
          Criteria,       \* the criteria the callers subscribe with
          MaxCalls,       \* how many calls a caller makes
          MaxChanges,     \* how many changes are made to the database
          PluginFails,    \* may the plug-in refuse a subscription?
          NotSubscribed,  \* the plug-in's subscription when it has none
          NotCached,      \* an object that is not in the implementation cache
          Notifier,       \* the plug-in's notification thread
          Free            \* the owner of m_else_mutex when it is not locked

Objects == Classes \X Ids

\* a ConfigurationSubscriptionCriteria: classes, and objects by class; a class
\* without objects has no entry in the map of objects
CriteriaType == [classes : SUBSET Classes, objects : [Classes -> SUBSET Ids]]

\* an object of a ConfigurationChange and the list of it that it is in
Change == [class : Classes, id : Ids,
           kind : {"created", "modified", "removed"}]

ASSUME CriteriaAssumption == Criteria # {} /\ Criteria \subseteq CriteriaType
ASSUME BoundsAssumption == MaxCalls \in Nat /\ MaxChanges \in Nat
ASSUME PluginFailsAssumption == PluginFails \in BOOLEAN
ASSUME MarksAssumption ==
  /\ NotSubscribed \notin CriteriaType
  /\ NotCached \notin Nat
  /\ Notifier \notin Callers
  /\ Free \notin Callers \cup {Notifier}

Serials == 1 .. MaxChanges

\* "If user provides no any class or object, it means subscription on any
\* change": no class and no object at all
IsAny(cr) == cr.classes = {} /\ \A c \in Classes : cr.objects[c] = {}

\* ConfigurationSubscriptionCriteria(), add and remove: a criteria that everything
\* was removed from is one on any change again
NoCriteria == [classes |-> {}, objects |-> [c \in Classes |-> {}]]

AddClass(cr, c) == [cr EXCEPT !.classes = @ \cup {c}]

AddObject(cr, c, i) == [cr EXCEPT !.objects[c] = @ \cup {i}]

RemoveClass(cr, c) == [cr EXCEPT !.classes = @ \ {c}]

RemoveObject(cr, c, i) == [cr EXCEPT !.objects[c] = @ \ {i}]

\* The changes a criteria is about; the created objects of a class are reported
\* to class subscriptions only.
Wants(cr, ch) ==
  \/ IsAny(cr)
  \/ ch.class \in cr.classes
  \/ ch.kind # "created" /\ ch.id \in cr.objects[ch.class]

-----------------------------------------------------------------------------
VARIABLES callbacks,  \* m_callbacks: the callers whose callback is registered
          criteria,   \* the criteria of each caller's callback
          pc,         \* where a caller is: "out" of any call, or in which
          calls,      \* how many calls a caller made
          owner,      \* who holds m_else_mutex
          plugin,     \* what the plug-in is subscribed to
          log,        \* the changes made to the database, in order
          exists,     \* the objects in the database
          pending,    \* changes the plug-in recorded and has not reported
          phase,      \* where the notification thread is
          batch,      \* the changes it is reporting
          todo,       \* the callbacks it has not come to yet
          readAt,     \* when an object in the cache was read: so many changes
          refused,    \* did the plug-in refuse to drop callbacks already erased?
          told,       \* how often a callback was told of a change
          owed        \* changes a callback waits for (a history variable)

callerVars == <<callbacks, criteria, pc, calls, plugin, refused>>
dbVars == <<log, exists>>
notifierVars == <<phase, batch, todo>>
vars == <<callbacks, criteria, pc, calls, owner, plugin, log, exists, pending,
          phase, batch, todo, readAt, refused, told, owed>>

NoneTold == [n \in Serials |-> 0]

Init == /\ callbacks = {}
        /\ criteria = [t \in Callers |-> CHOOSE cr \in Criteria : TRUE]
        /\ pc = [t \in Callers |-> "out"]
        /\ calls = [t \in Callers |-> 0]
        /\ owner = Free
        /\ plugin = NotSubscribed
        /\ log = << >>
        /\ exists \in SUBSET Objects
        /\ pending = {}
        /\ phase = "idle"
        /\ batch = {}
        /\ todo = {}
        /\ readAt = [o \in Objects |-> NotCached]
        /\ refused = FALSE
        /\ told = [t \in Callers |-> NoneTold]
        /\ owed = [t \in Callers |-> {}]

-----------------------------------------------------------------------------
(***************************************************************************)
(* THE CALLERS                                                             *)
(***************************************************************************)

\* mutant of CoverageOf: a subscription on any change is joined like the others
CoverageOf_AnyIgnored(S) ==
  LET classes == UNION {criteria[t].classes : t \in S} IN
  [classes |-> classes,
   objects |-> [c \in Classes |->
                  IF c \in classes THEN {}
                  ELSE UNION {criteria[t].objects[c] : t \in S}]]

\* reset_subscription: what the callbacks in S want together; objects are left
\* out where their whole class is wanted
CoverageOf(S) ==
  LET classes == UNION {criteria[t].classes : t \in S} IN
  IF \E t \in S : IsAny(criteria[t])
  THEN [classes |-> {}, objects |-> [c \in Classes |-> {}]]
  ELSE [classes |-> classes,
        objects |-> [c \in Classes |->
                       IF c \in classes THEN {}
                       ELSE UNION {criteria[t].objects[c] : t \in S}]]

\* m_impl->unsubscribe() when no callback is left, else m_impl->subscribe(...)
ResetSubscription ==
  /\ plugin' = IF callbacks = {} THEN NotSubscribed ELSE CoverageOf(callbacks)
  /\ refused' = FALSE

\* t unlocks m_else_mutex and leaves the call it is in
LeaveCall(t) == /\ pc' = [pc EXCEPT ![t] = "out"]
                /\ owner' = Free

\* subscribe(criteria, cb): m_else_mutex is taken, the callback is inserted
Subscribe(t) ==
  /\ pc[t] = "out"
  /\ t \notin callbacks
  /\ calls[t] < MaxCalls
  /\ owner = Free
  /\ owner' = t
  /\ pc' = [pc EXCEPT ![t] = "subscribe"]
  /\ calls' = [calls EXCEPT ![t] = @ + 1]
  /\ \E cr \in Criteria : criteria' = [criteria EXCEPT ![t] = cr]
  /\ callbacks' = callbacks \cup {t}
  /\ told' = [told EXCEPT ![t] = NoneTold]
  /\ UNCHANGED <<plugin, refused, dbVars, pending, notifierVars, readAt, owed>>

\* ... the plug-in accepts the new subscription
SubscribeDone(t) ==
  /\ pc[t] = "subscribe"
  /\ ResetSubscription
  /\ LeaveCall(t)
  /\ UNCHANGED <<callbacks, criteria, calls, dbVars, pending, notifierVars,
                 readAt, told, owed>>

\* mutant of SubscribeFailed: the plug-in's subscription is dropped as well
SubscribeFailed_DropsAll(t) ==
  /\ PluginFails
  /\ pc[t] = "subscribe"
  /\ callbacks' = callbacks \ {t}
  /\ plugin' = NotSubscribed
  /\ LeaveCall(t)
  /\ UNCHANGED <<criteria, calls, refused, dbVars, pending, notifierVars,
                 readAt, told, owed>>

\* ... or throws: the callback is erased, the plug-in is not told again
SubscribeFailed(t) ==
  /\ PluginFails
  /\ pc[t] = "subscribe"
  /\ callbacks' = callbacks \ {t}
  /\ LeaveCall(t)
  /\ UNCHANGED <<criteria, calls, plugin, refused, dbVars, pending, notifierVars,
                 readAt, told, owed>>

\* unsubscribe(id) of t's own callback, or unsubscribe() of all there are, as in
\* unload: the callbacks are erased with m_else_mutex held
Unsubscribe(t) ==
  /\ pc[t] = "out"
  /\ calls[t] < MaxCalls
  /\ owner = Free
  /\ owner' = t
  /\ pc' = [pc EXCEPT ![t] = "unsubscribe"]
  /\ calls' = [calls EXCEPT ![t] = @ + 1]
  /\ \E S \in {{t}, callbacks} :
       /\ S \subseteq callbacks
       /\ callbacks' = callbacks \ S
       /\ owed' = [u \in Callers |-> IF u \in S THEN {} ELSE owed[u]]
  /\ UNCHANGED <<criteria, plugin, refused, dbVars, pending, notifierVars,
                 readAt, told>>

UnsubscribeDone(t) ==
  /\ pc[t] = "unsubscribe"
  /\ ResetSubscription
  /\ LeaveCall(t)
  /\ UNCHANGED <<callbacks, criteria, calls, dbVars, pending, notifierVars,
                 readAt, told, owed>>

\* the plug-in throws: the callbacks stay erased
UnsubscribeFailed(t) ==
  /\ PluginFails
  /\ pc[t] = "unsubscribe"
  /\ refused' = TRUE
  /\ LeaveCall(t)
  /\ UNCHANGED <<callbacks, criteria, calls, plugin, dbVars, pending,
                 notifierVars, readAt, told, owed>>

\* get of an object that is not in the cache
Read(o) == /\ o \in exists
           /\ readAt[o] = NotCached
           /\ readAt' = [readAt EXCEPT ![o] = Len(log)]
           /\ UNCHANGED <<callerVars, owner, dbVars, pending, notifierVars,
                          told, owed>>

(***************************************************************************)
(* THE DATABASE AND THE PLUG-IN                                            *)
(***************************************************************************)

\* callbacks whose subscribe returned
Active == {t \in callbacks : pc[t] # "subscribe"}

Reported(ch) == plugin # NotSubscribed /\ Wants(plugin, ch)

\* A change is committed to the database; the plug-in records it if it is
\* subscribed to it.
Commit(ch) ==
  LET o == <<ch.class, ch.id>> IN
  /\ Len(log) < MaxChanges
  /\ ch.kind = "created" <=> o \notin exists
  /\ exists' = CASE ch.kind = "created"  -> exists \cup {o}
                 [] ch.kind = "removed"  -> exists \ {o}
                 [] ch.kind = "modified" -> exists
  /\ log' = Append(log, [change |-> ch, reported |-> Reported(ch)])
  /\ pending' = IF Reported(ch) THEN pending \cup {Len(log) + 1} ELSE pending
  /\ owed' = [t \in Callers |->
                IF t \in Active /\ Wants(criteria[t], ch)
                THEN owed[t] \cup {Len(log) + 1} ELSE owed[t]]
  /\ UNCHANGED <<callerVars, owner, notifierVars, readAt, told>>

\* The plug-in starts a notification: system_pre_cb takes m_else_mutex for the
\* user's pre-notification callbacks, then the recorded changes are applied.
PreNotify ==
  /\ phase = "idle"
  /\ pending # {}
  /\ owner = Free
  /\ batch' = pending
  /\ pending' = {}
  /\ phase' = "update"
  /\ UNCHANGED <<callerVars, owner, dbVars, todo, readAt, told, owed>>

(***************************************************************************)
(* system_cb                                                               *)
(***************************************************************************)
ChangeOf(n) == log[n].change

InBatch(o) == \E n \in batch : <<ChangeOf(n).class, ChangeOf(n).id>> = o

\* mutant of UpdateCache: nothing is done when the callbacks were removed
UpdateCache_AfterCheck ==
  /\ phase = "update"
  /\ readAt' = [o \in Objects |->
                  IF callbacks # {} /\ InBatch(o) THEN NotCached ELSE readAt[o]]
  /\ phase' = "check"
  /\ UNCHANGED <<callerVars, owner, dbVars, pending, batch, todo, told, owed>>

\* update_cache: the objects of the changes lose their cached values
UpdateCache ==
  /\ phase = "update"
  /\ readAt' = [o \in Objects |-> IF InBatch(o) THEN NotCached ELSE readAt[o]]
  /\ phase' = "check"
  /\ UNCHANGED <<callerVars, owner, dbVars, pending, batch, todo, told, owed>>

\* "user removed all subscriptions": tested without m_else_mutex
Check ==
  /\ phase = "check"
  /\ IF callbacks = {} THEN phase' = "idle" /\ batch' = {}
                       ELSE phase' = "lock" /\ UNCHANGED batch
  /\ UNCHANGED <<callerVars, owner, dbVars, pending, todo, readAt, told, owed>>

\* mutant of LockElse: the callbacks are called without m_else_mutex
LockElse_NoLock ==
  /\ phase = "lock"
  /\ todo' = callbacks
  /\ phase' = "deliver"
  /\ UNCHANGED <<callerVars, owner, dbVars, pending, batch, readAt, told, owed>>

LockElse ==
  /\ phase = "lock"
  /\ owner = Free
  /\ owner' = Notifier
  /\ todo' = callbacks
  /\ phase' = "deliver"
  /\ UNCHANGED <<callerVars, dbVars, pending, batch, readAt, told, owed>>

\* how often t is told of ch among several callbacks: once by a subscription
\* on any change, else once by its classes and once by its objects
TimesAmongSeveral(t, ch) ==
  LET cr == criteria[t] IN
  IF IsAny(cr) THEN 1
  ELSE (IF ch.class \in cr.classes THEN 1 ELSE 0)
       + (IF ch.kind # "created" /\ ch.id \in cr.objects[ch.class] THEN 1 ELSE 0)

\* a single callback is passed the changes as they are
Times(t, ch) == IF Cardinality(callbacks) = 1 THEN 1 ELSE TimesAmongSeveral(t, ch)

\* mutant of Deliver: objects subscriptions are not looked up
Deliver_ClassesOnly(t) ==
  /\ phase = "deliver"
  /\ t \in todo
  /\ todo' = todo \ {t}
  /\ LET now == {n \in batch : ChangeOf(n).class \in criteria[t].classes} IN
     /\ told' = [told EXCEPT ![t] =
                   [n \in Serials |-> IF n \in now THEN @[n] + 1 ELSE @[n]]]
     /\ owed' = [owed EXCEPT ![t] = @ \ now]
  /\ UNCHANGED <<callerVars, owner, dbVars, pending, phase, batch, readAt>>

\* the callback of t is called with its list of changes, if that is not empty
Deliver(t) ==
  /\ phase = "deliver"
  /\ t \in todo
  /\ todo' = todo \ {t}
  /\ told' = [told EXCEPT ![t] =
                [n \in Serials |->
                   IF n \in batch THEN @[n] + Times(t, ChangeOf(n)) ELSE @[n]]]
  /\ owed' = [owed EXCEPT ![t] =
                @ \ {n \in batch : Times(t, ChangeOf(n)) > 0}]
  /\ UNCHANGED <<callerVars, owner, dbVars, pending, phase, batch, readAt>>

\* mutant of Leave: changes are reported again by the next notification
Leave_KeepsBatch ==
  /\ phase = "deliver"
  /\ todo = {}
  /\ owner' = Free
  /\ phase' = "idle"
  /\ batch' = {}
  /\ pending' = pending \cup batch
  /\ UNCHANGED <<callerVars, dbVars, todo, readAt, told, owed>>

\* mutant of Leave: m_else_mutex is not unlocked
Leave_KeepsLock ==
  /\ phase = "deliver"
  /\ todo = {}
  /\ phase' = "idle"
  /\ batch' = {}
  /\ UNCHANGED <<callerVars, owner, dbVars, pending, todo, readAt, told, owed>>

\* system_cb returns
Leave ==
  /\ phase = "deliver"
  /\ todo = {}
  /\ owner' = Free
  /\ phase' = "idle"
  /\ batch' = {}
  /\ UNCHANGED <<callerVars, dbVars, pending, todo, readAt, told, owed>>

Call(t) == Subscribe(t) \/ Unsubscribe(t)

Finish(t) == \/ SubscribeDone(t) \/ SubscribeFailed(t)
             \/ UnsubscribeDone(t) \/ UnsubscribeFailed(t)

Notify == \/ PreNotify \/ UpdateCache \/ Check \/ LockElse
          \/ (\E t \in Callers : Deliver(t))
          \/ Leave

Next == \/ \E t \in Callers : Call(t) \/ Finish(t)
        \/ \E o \in Objects : Read(o)
        \/ \E ch \in Change : Commit(ch)
        \/ Notify

Spec == Init /\ [][Next]_vars

\* A caller inside a call and the notification thread are scheduled.  The mutex
\* is not fair, but a caller makes a bounded number of calls.
FairSpec == /\ Spec
            /\ \A t \in Callers : WF_vars(Finish(t))
            /\ WF_vars(Notify)

-----------------------------------------------------------------------------
Entry == [change : Change, reported : BOOLEAN]

TypeOK ==
  /\ callbacks \in SUBSET Callers
  /\ criteria \in [Callers -> Criteria]
  /\ pc \in [Callers -> {"out", "subscribe", "unsubscribe"}]
  /\ calls \in [Callers -> 0 .. MaxCalls]
  /\ owner \in Callers \cup {Notifier, Free}
  /\ plugin \in CriteriaType \cup {NotSubscribed}
  /\ log \in Seq(Entry)
  /\ Len(log) <= MaxChanges
  /\ exists \in SUBSET Objects
  /\ pending \in SUBSET (1 .. Len(log))
  /\ batch \in SUBSET (1 .. Len(log))
  /\ phase \in {"idle", "update", "check", "lock", "deliver"}
  /\ todo \in SUBSET Callers
  /\ readAt \in [Objects -> (0 .. Len(log)) \cup {NotCached}]
  /\ refused \in BOOLEAN
  /\ told \in [Callers -> [Serials -> Nat]]
  /\ owed \in [Callers -> SUBSET (1 .. Len(log))]

\* m_else_mutex is held by the notification thread while it calls callbacks and
\* by the caller that is inside subscribe or unsubscribe; so the callbacks that
\* are called are registered.
MutexHeld ==
  /\ owner = Notifier <=> phase = "deliver"
  /\ \A t \in Callers : owner = t <=> pc[t] # "out"
  /\ todo # {} => phase = "deliver"
  /\ todo \subseteq callbacks

\* Whenever no call is changing the callbacks, the plug-in is asked for exactly
\* what they want together, no less and no more, unless it refused to take an
\* unsubscription; a refused subscription is rolled back.
PluginCoversExactly ==
  owner \in {Free, Notifier} /\ ~refused =>
    \A ch \in Change : Reported(ch) <=> \E t \in callbacks : Wants(criteria[t], ch)

\* What a callback whose subscribe returned wants is asked of the plug-in, also
\* after subscriptions and unsubscriptions the plug-in refused.
ActiveCovered ==
  \A t \in Active, ch \in Change : Wants(criteria[t], ch) => Reported(ch)

\* A change made while a callback wanting it was registered is not lost: until
\* the callback is told or removed, the change is recorded by the plug-in, or
\* is being reported and the callback is still to come.
NothingForgotten ==
  \A t \in Callers : \A n \in owed[t] :
    \/ n \in pending
    \/ n \in batch /\ (phase # "deliver" \/ t \in todo)

\* The cache follows the database for all the plug-in was subscribed to: an
\* object cached before a reported change of it is cleared before the callbacks
\* are called, even when they were all removed meanwhile.
CacheFollowsChanges ==
  \A o \in Objects : readAt[o] # NotCached =>
    \A n \in (readAt[o] + 1) .. Len(log) :
      <<ChangeOf(n).class, ChangeOf(n).id>> = o /\ log[n].reported =>
        n \in pending \/ (n \in batch /\ phase = "update")

\* No callback is told of a change twice, when no criteria names a class and an
\* object of the same class.
ToldOnce == \A t \in Callers, n \in Serials : told[t][n] <= 1

\* Only registered callbacks are called, and unsubscribe waits for the end of a
\* notification: the user may free what a callback uses when it returns.
OnlyRegisteredTold ==
  [][\A t \in Callers : told'[t] # told[t] => t \in callbacks']_vars

\* "Each callback receives own list of changes in accordance with it's
\* subscription criteria" (ConfigPackages.doxygen.hpp).
ToldInCriteria ==
  \A t \in callbacks, n \in 1 .. Len(log) :
    told[t][n] > 0 => Wants(criteria[t], ChangeOf(n))

\* What the users see is a feed of changes as ChangeFeed promises it: a callback
\* is called between subscribe and unsubscribe only, with changes that were made
\* and that no earlier call told it of, and nothing due to it is dropped.
Feed == INSTANCE ChangeFeed WITH
  Subscribers <- Callers,
  Changes <- Change,
  Interests <- Criteria,
  Wants <- Wants,
  registered <- callbacks,
  active <- Active,
  interest <- criteria,
  feed <- [n \in 1 .. Len(log) |-> ChangeOf(n)],
  due <- owed,
  told <- [t \in Callers |-> {n \in Serials : told[t][n] > 0}]

ImplementsFeed == Feed!Spec

\* Every callback is eventually told of the changes it wants, or removed.
WantedIsTold ==
  \A t \in Callers, n \in Serials : n \in owed[t] ~> n \notin owed[t]
=============================================================================
