------------------------- MODULE NotificationProofs -------------------------
(***************************************************************************)
(* Theorems about Notification, for any callers, criteria and classes, and *)
(* any number of calls and changes.                                        *)
(***************************************************************************)
EXTENDS Notification, TLAPS

-----------------------------------------------------------------------------
(***************************************************************************)
(* THE JOINT SUBSCRIPTION                                                  *)
(***************************************************************************)

\* What reset_subscription asks for is a criteria,
LEMMA CoverageTyped ==
  ASSUME criteria \in [Callers -> Criteria], NEW S \in SUBSET Callers
  PROVE  CoverageOf(S) \in CriteriaType /\ CoverageOf(S) # NotSubscribed
<1>1. \A t \in S : criteria[t] \in CriteriaType
  BY CriteriaAssumption
<1>2. \A c \in Classes : UNION {criteria[t].objects[c] : t \in S} \in SUBSET Ids
  BY <1>1 DEF CriteriaType
<1>3. UNION {criteria[t].classes : t \in S} \in SUBSET Classes
  BY <1>1 DEF CriteriaType
<1>4. CoverageOf(S) \in CriteriaType
  BY <1>2, <1>3 DEF CoverageOf, CriteriaType
<1> QED BY <1>4, MarksAssumption

\* and it is for the changes the callbacks want: objects left out because their
\* class is wanted are not missed, and no change is added.
LEMMA CoverageExact ==
  ASSUME criteria \in [Callers -> Criteria], NEW S \in SUBSET Callers, S # {},
         NEW ch \in Change
  PROVE  Wants(CoverageOf(S), ch) <=> \E t \in S : Wants(criteria[t], ch)
<1>1. \A t \in S : criteria[t] \in CriteriaType
  BY CriteriaAssumption
<1>2. ch.class \in Classes /\ ch.id \in Ids
  BY DEF Change
<1>3. CASE \E t \in S : IsAny(criteria[t])
  <2>1. IsAny(CoverageOf(S))
    BY <1>3 DEF CoverageOf, IsAny
  <2> QED BY <1>3, <2>1 DEF Wants
<1>4. CASE \A t \in S : ~IsAny(criteria[t])
  <2> DEFINE classes == UNION {criteria[t].classes : t \in S}
             cov == CoverageOf(S)
  <2>1. /\ cov.classes = classes
        /\ \A c \in Classes :
             cov.objects[c] = IF c \in classes THEN {}
                              ELSE UNION {criteria[t].objects[c] : t \in S}
    BY <1>4 DEF CoverageOf
  <2>2. ~IsAny(cov)
    <3>1. PICK t \in S : ~IsAny(criteria[t])
      BY <1>4
    <3>2. CASE criteria[t].classes # {}
      BY <2>1, <3>2 DEF IsAny
    <3>3. CASE criteria[t].classes = {}
      <4>1. PICK c \in Classes : criteria[t].objects[c] # {}
        BY <3>1, <3>3 DEF IsAny
      <4>2. CASE c \in classes
        BY <2>1, <4>2 DEF IsAny
      <4>3. CASE c \notin classes
        <5>1. cov.objects[c] = UNION {criteria[u].objects[c] : u \in S}
          BY <2>1, <4>3
        <5>2. PICK i : i \in criteria[t].objects[c]
          BY <4>1
        <5>3. i \in cov.objects[c]
          BY <5>1, <5>2
        <5> QED BY <5>3 DEF IsAny
      <4> QED BY <4>2, <4>3
    <3> QED BY <3>2, <3>3
  <2>3. ch.class \in cov.classes <=> \E t \in S : ch.class \in criteria[t].classes
    BY <2>1
  <2>4. ch.class \notin classes =>
          (ch.id \in cov.objects[ch.class] <=>
             \E t \in S : ch.id \in criteria[t].objects[ch.class])
    <3>1. ch.class \notin classes =>
            cov.objects[ch.class] = UNION {criteria[t].objects[ch.class] : t \in S}
      BY <1>2, <2>1
    <3> HIDE DEF cov, classes
    <3> QED BY <3>1
  <2>5. ch.class \in classes => ch.id \notin cov.objects[ch.class]
    BY <1>2, <2>1
  <2> HIDE DEF cov, classes
  <2>6. ch.class \in classes <=> ch.class \in cov.classes
    BY <2>1
  <2> QED BY <1>4, <2>2, <2>3, <2>4, <2>5, <2>6 DEF Wants, cov
<1> QED BY <1>3, <1>4

-----------------------------------------------------------------------------
(***************************************************************************)
(* TYPES AND THE MUTEX                                                     *)
(***************************************************************************)

\* how often a callback is told of a change is a number
LEMMA TimesTyped ==
  \A t \in Callers, ch \in Change : Times(t, ch) \in Nat
BY DEF Times, TimesAmongSeveral

\* what is in the log is a change and whether it was reported
LEMMA LogTyped ==
  ASSUME log \in Seq(Entry)
  PROVE  \A n \in 1 .. Len(log) : /\ log[n] \in Entry
                                  /\ ChangeOf(n) \in Change
<1>1. \A n \in 1 .. Len(log) : log[n] \in Entry
  OBVIOUS
<1> QED BY <1>1 DEF ChangeOf, Entry

\* Types hold initially.
LEMMA TypeInit == Init => TypeOK
<1> SUFFICES ASSUME Init PROVE TypeOK
  OBVIOUS
<1>1. (CHOOSE cr \in Criteria : TRUE) \in Criteria
  BY CriteriaAssumption
<1>2. log \in Seq(Entry) /\ Len(log) = 0
  BY DEF Init
<1>3. 0 \in 0 .. MaxCalls /\ 0 <= MaxChanges
  BY BoundsAssumption
<1>4. /\ criteria \in [Callers -> Criteria]
      /\ calls \in [Callers -> 0 .. MaxCalls]
      /\ told \in [Callers -> [Serials -> Nat]]
      /\ owed \in [Callers -> SUBSET (1 .. Len(log))]
      /\ readAt \in [Objects -> (0 .. Len(log)) \cup {NotCached}]
  BY <1>1, <1>3 DEF Init, NoneTold
<1> QED BY <1>2, <1>3, <1>4 DEF Init, TypeOK

\* Every step keeps the types.
LEMMA TypeStep == TypeOK /\ [Next]_vars => TypeOK'
<1> SUFFICES ASSUME TypeOK, [Next]_vars PROVE TypeOK'
  OBVIOUS
<1> USE DEF TypeOK
<1>0. MaxCalls \in Nat /\ MaxChanges \in Nat /\ Len(log) \in Nat
  BY BoundsAssumption
<1>1. ASSUME NEW t \in Callers, Subscribe(t) PROVE TypeOK'
  <2>1. calls' \in [Callers -> 0 .. MaxCalls]
    BY <1>0, <1>1 DEF Subscribe
  <2>2. told' \in [Callers -> [Serials -> Nat]]
    BY <1>1 DEF Subscribe, NoneTold
  <2>3. criteria' \in [Callers -> Criteria]
    BY <1>1 DEF Subscribe
  <2> QED BY <1>1, <2>1, <2>2, <2>3 DEF Subscribe, dbVars, notifierVars
<1>2. ASSUME NEW t \in Callers, SubscribeDone(t) \/ UnsubscribeDone(t) PROVE TypeOK'
  <2>1. plugin' \in CriteriaType \cup {NotSubscribed}
    BY <1>2, CoverageTyped DEF SubscribeDone, UnsubscribeDone, ResetSubscription
  <2> QED BY <1>2, <2>1 DEF SubscribeDone, UnsubscribeDone, ResetSubscription, LeaveCall,
          dbVars, notifierVars
<1>3. ASSUME NEW t \in Callers, SubscribeFailed(t) \/ UnsubscribeFailed(t) PROVE TypeOK'
  BY <1>3 DEF SubscribeFailed, UnsubscribeFailed, LeaveCall, dbVars, notifierVars
<1>4. ASSUME NEW t \in Callers, Unsubscribe(t) PROVE TypeOK'
  <2>1. calls' \in [Callers -> 0 .. MaxCalls]
    BY <1>0, <1>4 DEF Unsubscribe
  <2>2. callbacks' \in SUBSET Callers /\ owed' \in [Callers -> SUBSET (1 .. Len(log))]
    BY <1>4 DEF Unsubscribe
  <2> QED BY <1>4, <2>1, <2>2 DEF Unsubscribe, dbVars, notifierVars
<1>5. ASSUME NEW o \in Objects, Read(o) PROVE TypeOK'
  BY <1>0, <1>5 DEF Read, callerVars, dbVars, notifierVars
<1>6. ASSUME NEW ch \in Change, Commit(ch) PROVE TypeOK'
  <2>1. /\ log' = Append(log, [change |-> ch, reported |-> Reported(ch)])
        /\ Len(log) < MaxChanges
        /\ UNCHANGED <<callerVars, owner, notifierVars, readAt, told>>
    BY <1>6 DEF Commit
  <2>2. Reported(ch) \in BOOLEAN
    BY DEF Reported, Wants
  <2>3. log' \in Seq(Entry) /\ Len(log') = Len(log) + 1
    BY <2>1, <2>2 DEF Entry
  <2>4. 1 .. Len(log) \subseteq 1 .. Len(log') /\ Len(log) + 1 \in 1 .. Len(log')
        /\ 0 .. Len(log) \subseteq 0 .. Len(log')
    BY <1>0, <2>3
  <2>5. <<ch.class, ch.id>> \in Objects
    BY DEF Change, Objects
  <2>6. exists' \in SUBSET Objects
    <3>1. ch.kind \in {"created", "modified", "removed"}
      BY DEF Change
    <3> QED BY <1>6, <2>5, <3>1 DEF Commit
  <2>7. pending' \in SUBSET (1 .. Len(log')) /\ owed' \in [Callers -> SUBSET (1 .. Len(log'))]
    BY <1>6, <2>4 DEF Commit
  <2>8. readAt' \in [Objects -> (0 .. Len(log')) \cup {NotCached}] /\ Len(log') <= MaxChanges
    BY <1>0, <2>1, <2>3, <2>4
  <2> QED BY <2>1, <2>3, <2>4, <2>6, <2>7, <2>8 DEF callerVars, notifierVars
<1>7. CASE PreNotify \/ Check \/ LockElse \/ Leave
  BY <1>7 DEF PreNotify, Check, LockElse, Leave, callerVars, dbVars
<1>8. CASE UpdateCache
  BY <1>8 DEF UpdateCache, callerVars, dbVars
<1>9. ASSUME NEW t \in Callers, Deliver(t) PROVE TypeOK'
  <2>1. \A n \in batch : n \in 1 .. Len(log) /\ ChangeOf(n) \in Change
    BY LogTyped
  <2>2. \A n \in batch : Times(t, ChangeOf(n)) \in Nat
    BY <2>1, TimesTyped
  <2>3. told' \in [Callers -> [Serials -> Nat]]
    <3>1. \A n \in Serials : n \in batch => told[t][n] + Times(t, ChangeOf(n)) \in Nat
      BY <2>2
    <3>2. [n \in Serials |->
             IF n \in batch THEN told[t][n] + Times(t, ChangeOf(n)) ELSE told[t][n]]
            \in [Serials -> Nat]
      BY <3>1
    <3> QED BY <1>9, <3>2 DEF Deliver
  <2>4. owed' \in [Callers -> SUBSET (1 .. Len(log))] /\ todo' \in SUBSET Callers
    BY <1>9 DEF Deliver
  <2> QED BY <1>9, <2>3, <2>4 DEF Deliver, callerVars, dbVars
<1>10. CASE UNCHANGED vars
  BY <1>10 DEF vars
<1> QED BY <1>1, <1>2, <1>3, <1>4, <1>5, <1>6, <1>7, <1>8, <1>9, <1>10
        DEF Next, Call, Finish, Notify

\* The variables keep their types: changes are recorded and reported by numbers
\* of the log, whatever is subscribed, refused and reported.
THEOREM TypeCorrect == Spec => []TypeOK
BY TypeInit, TypeStep, PTL DEF Spec

\* m_else_mutex changes hands as the calls begin and end: initially
LEMMA MutexInit == Init => MutexHeld
BY MarksAssumption DEF Init, MutexHeld

\* and at every step.
LEMMA MutexStep ==
  ASSUME TypeOK, MutexHeld, [Next]_vars
  PROVE  MutexHeld'
<1> USE DEF MutexHeld
<1>1. ASSUME NEW t \in Callers, Subscribe(t) PROVE MutexHeld'
  BY <1>1, MarksAssumption DEF Subscribe, notifierVars, TypeOK
<1>2. ASSUME NEW t \in Callers, Unsubscribe(t) PROVE MutexHeld'
  BY <1>2, MarksAssumption DEF Unsubscribe, notifierVars, TypeOK
<1>3. ASSUME NEW t \in Callers, Finish(t) PROVE MutexHeld'
  <2>1. /\ pc[t] # "out" /\ pc' = [pc EXCEPT ![t] = "out"] /\ owner' = Free
        /\ UNCHANGED <<phase, todo>>
        /\ callbacks' = callbacks \/ callbacks' = callbacks \ {t}
    BY <1>3 DEF Finish, SubscribeDone, SubscribeFailed, UnsubscribeDone,
       UnsubscribeFailed, LeaveCall, notifierVars
  <2>2. owner = t /\ phase # "deliver" /\ todo = {}
    BY <2>1, MarksAssumption
  <2> QED BY <2>1, <2>2, MarksAssumption DEF TypeOK
<1>4. ASSUME NEW o \in Objects, Read(o) PROVE MutexHeld'
  BY <1>4 DEF Read, callerVars, notifierVars
<1>5. ASSUME NEW ch \in Change, Commit(ch) PROVE MutexHeld'
  BY <1>5 DEF Commit, callerVars, notifierVars
<1>6. CASE PreNotify \/ UpdateCache \/ Check
  BY <1>6 DEF PreNotify, UpdateCache, Check, callerVars
<1>7. CASE LockElse
  BY <1>7, MarksAssumption DEF LockElse, callerVars, TypeOK
<1>8. ASSUME NEW t \in Callers, Deliver(t) PROVE MutexHeld'
  BY <1>8 DEF Deliver, callerVars
<1>9. CASE Leave
  BY <1>9, MarksAssumption DEF Leave, callerVars
<1>10. CASE UNCHANGED vars
  BY <1>10 DEF vars
<1> QED BY <1>1, <1>2, <1>3, <1>4, <1>5, <1>6, <1>7, <1>8, <1>9, <1>10
        DEF Next, Call, Notify

\* Callbacks are called, and the set of callbacks is changed, with m_else_mutex
\* held: no callback that was removed is called.
THEOREM MutexAlwaysHeld == Spec => []MutexHeld
<1>1. Init => TypeOK /\ MutexHeld
  BY TypeInit, MutexInit
<1>2. TypeOK /\ MutexHeld /\ [Next]_vars => (TypeOK /\ MutexHeld)'
  BY TypeStep, MutexStep
<1> QED BY <1>1, <1>2, PTL DEF Spec

\* A callback is told something only while it is registered: what it uses may be
\* freed when unsubscribe has returned.
THEOREM RegisteredTold == Spec => OnlyRegisteredTold
<1> DEFINE Told == \A t \in Callers : told'[t] # told[t] => t \in callbacks'
<1>1. TypeOK /\ MutexHeld /\ [Next]_vars => [Told]_vars
  <2> SUFFICES ASSUME TypeOK, MutexHeld, Next PROVE Told
    BY DEF vars
  <2>1. ASSUME NEW t \in Callers, Subscribe(t) PROVE Told
    BY <2>1 DEF Subscribe, TypeOK
  <2>2. ASSUME NEW t \in Callers, Deliver(t) PROVE Told
    BY <2>2 DEF Deliver, MutexHeld, callerVars, TypeOK
  <2>3. CASE UNCHANGED told
    BY <2>3
  <2> QED BY <2>1, <2>2, <2>3 DEF Next, Call, Finish, Notify, Unsubscribe, SubscribeDone,
          SubscribeFailed, UnsubscribeDone, UnsubscribeFailed, Read, Commit, PreNotify,
          UpdateCache, Check, LockElse, Leave
<1>2. TypeOK /\ MutexHeld /\ [Next]_vars => (TypeOK /\ MutexHeld)'
  BY TypeStep, MutexStep
<1>3. Init => TypeOK /\ MutexHeld
  BY TypeInit, MutexInit
<1> QED BY <1>1, <1>2, <1>3, PTL DEF Spec, OnlyRegisteredTold

-----------------------------------------------------------------------------
(***************************************************************************)
(* WHAT THE PLUG-IN IS SUBSCRIBED TO                                       *)
(***************************************************************************)

\* As long as no callbacks were erased that the plug-in was not yet, or could
\* not be, asked to drop, it is subscribed to what the callbacks whose subscribe
\* returned want: also while one is being added, which may be rolled back.
PluginCovers ==
  ~refused /\ (\A t \in Callers : pc[t] # "unsubscribe") =>
    \A ch \in Change : Reported(ch) <=> \E t \in Active : Wants(criteria[t], ch)

Covered == TypeOK /\ MutexHeld /\ PluginCovers /\ ActiveCovered

\* What reset_subscription does: the plug-in reports what the callbacks want.
LEMMA ResetCovers ==
  ASSUME TypeOK, ResetSubscription, NEW ch \in Change, UNCHANGED <<callbacks, criteria>>
  PROVE  Reported(ch)' <=> \E t \in callbacks : Wants(criteria[t], ch)
<1>1. CASE callbacks = {}
  BY <1>1 DEF ResetSubscription, Reported
<1>2. CASE callbacks # {}
  <2>1. plugin' = CoverageOf(callbacks) /\ plugin' # NotSubscribed
    BY <1>2, CoverageTyped DEF ResetSubscription, TypeOK
  <2>2. Wants(plugin', ch) <=> \E t \in callbacks : Wants(criteria[t], ch)
    BY <1>2, <2>1, CoverageExact DEF TypeOK
  <2> QED BY <2>1, <2>2 DEF Reported
<1> QED BY <1>1, <1>2

\* The callbacks are covered initially, there are none,
LEMMA CoveredInit == Init => Covered
<1> SUFFICES ASSUME Init PROVE PluginCovers /\ ActiveCovered
  BY TypeInit, MutexInit DEF Covered
<1> QED BY DEF Init, PluginCovers, ActiveCovered, Active, Reported

\* and at every step.
LEMMA CoveredStep ==
  ASSUME Covered, [Next]_vars
  PROVE  Covered'
<1> USE DEF Covered
<1> SUFFICES PluginCovers' /\ ActiveCovered'
  BY TypeStep, MutexStep
<1>1. ASSUME NEW t \in Callers, Subscribe(t) PROVE PluginCovers' /\ ActiveCovered'
  <2>1. /\ pc' = [pc EXCEPT ![t] = "subscribe"] /\ pc[t] = "out" /\ t \notin callbacks
        /\ callbacks' = callbacks \cup {t} /\ UNCHANGED <<plugin, refused>>
        /\ \E cr \in Criteria : criteria' = [criteria EXCEPT ![t] = cr]
    BY <1>1 DEF Subscribe
  <2>2. Active' = Active /\ \A u \in Active : criteria'[u] = criteria[u]
    BY <2>1 DEF Active, TypeOK
  <2>3. \A u \in Callers : pc'[u] # "unsubscribe" => pc[u] # "unsubscribe"
    BY <2>1 DEF TypeOK
  <2> QED BY <2>1, <2>2, <2>3 DEF PluginCovers, ActiveCovered, Reported
<1>2. ASSUME NEW t \in Callers, SubscribeDone(t) \/ UnsubscribeDone(t)
      PROVE  PluginCovers' /\ ActiveCovered'
  <2>1. /\ pc[t] # "out" /\ pc' = [pc EXCEPT ![t] = "out"]
        /\ ResetSubscription /\ UNCHANGED <<callbacks, criteria>>
    BY <1>2 DEF SubscribeDone, UnsubscribeDone, LeaveCall
  <2>2. \A u \in Callers : pc'[u] = "out"
    BY <2>1 DEF MutexHeld, TypeOK
  <2>3. Active' = callbacks
    BY <2>1, <2>2 DEF Active, TypeOK
  <2>4. \A ch \in Change : Reported(ch)' <=> \E u \in callbacks : Wants(criteria[u], ch)
    BY <2>1, ResetCovers
  <2> QED BY <2>1, <2>3, <2>4 DEF PluginCovers, ActiveCovered
<1>3. ASSUME NEW t \in Callers, SubscribeFailed(t)
      PROVE  PluginCovers' /\ ActiveCovered'
  <2>1. /\ pc[t] = "subscribe" /\ pc' = [pc EXCEPT ![t] = "out"]
        /\ callbacks' = callbacks \ {t} /\ UNCHANGED <<criteria, plugin, refused>>
    BY <1>3 DEF SubscribeFailed, LeaveCall
  <2>2. Active' = Active
    BY <2>1 DEF Active, TypeOK
  <2>3. \A u \in Callers : pc[u] # "unsubscribe"
    BY <2>1 DEF MutexHeld, TypeOK
  <2> QED BY <2>1, <2>2, <2>3 DEF PluginCovers, ActiveCovered, Reported
<1>4. ASSUME NEW t \in Callers, Unsubscribe(t)
      PROVE  PluginCovers' /\ ActiveCovered'
  <2>1. /\ pc' = [pc EXCEPT ![t] = "unsubscribe"] /\ pc[t] = "out"
        /\ callbacks' \subseteq callbacks /\ UNCHANGED <<criteria, plugin, refused>>
    BY <1>4 DEF Unsubscribe
  <2>2. Active' \subseteq Active /\ pc'[t] = "unsubscribe"
    BY <2>1 DEF Active, TypeOK
  <2> QED BY <2>1, <2>2 DEF PluginCovers, ActiveCovered, Reported
<1>5. ASSUME NEW t \in Callers, UnsubscribeFailed(t)
      PROVE  PluginCovers' /\ ActiveCovered'
  <2>1. /\ pc[t] = "unsubscribe" /\ pc' = [pc EXCEPT ![t] = "out"] /\ refused'
        /\ UNCHANGED <<callbacks, criteria, plugin>>
    BY <1>5 DEF UnsubscribeFailed, LeaveCall
  <2>2. Active' = Active
    BY <2>1 DEF Active, TypeOK
  <2> QED BY <2>1, <2>2 DEF PluginCovers, ActiveCovered, Reported
<1>6. CASE UNCHANGED callerVars
  <2>1. UNCHANGED <<callbacks, criteria, pc, plugin, refused>>
    BY <1>6 DEF callerVars
  <2>2. UNCHANGED Active
    BY <2>1 DEF Active
  <2> QED BY <2>1, <2>2 DEF PluginCovers, ActiveCovered, Reported
<1> QED BY <1>1, <1>2, <1>3, <1>4, <1>5, <1>6 DEF Next, Call, Finish, Notify, Read, Commit,
        PreNotify, UpdateCache, Check, LockElse, Deliver, Leave, vars, callerVars

\* What a callback whose subscribe returned wants is always asked of the plug-in,
\* whatever it refused before.
THEOREM ActiveAlwaysCovered == Spec => []ActiveCovered
<1>1. Covered => ActiveCovered
  BY DEF Covered
<1>2. Covered /\ [Next]_vars => Covered'
  BY CoveredStep
<1> QED BY <1>1, <1>2, CoveredInit, PTL DEF Spec

\* Outside of the calls the plug-in reports exactly what the callbacks want
\* together, unless it refused to drop callbacks: the roll back of subscribe and
\* the objects left out of the joint subscription make no difference.
THEOREM PluginAlwaysCoversExactly == Spec => []PluginCoversExactly
<1>1. Covered => PluginCoversExactly
  <2> SUFFICES ASSUME Covered, owner \in {Free, Notifier}, ~refused, NEW ch \in Change
               PROVE  Reported(ch) <=> \E t \in callbacks : Wants(criteria[t], ch)
    BY DEF PluginCoversExactly
  <2>1. \A t \in Callers : pc[t] = "out"
    BY MarksAssumption DEF Covered, MutexHeld
  <2>2. Active = callbacks
    BY <2>1 DEF Active, Covered, TypeOK
  <2> QED BY <2>1, <2>2 DEF Covered, PluginCovers
<1>2. Covered /\ [Next]_vars => Covered'
  BY CoveredStep
<1> QED BY <1>1, <1>2, CoveredInit, PTL DEF Spec

-----------------------------------------------------------------------------
(***************************************************************************)
(* WHAT BECOMES OF A CHANGE                                                *)
(***************************************************************************)

\* Nothing is being reported when the notification thread is idle.
BatchIdle == phase = "idle" => batch = {}

\* Changes are owed to callbacks that want them and whose subscribe returned.
OwedWanted ==
  \A t \in Callers : \A n \in owed[t] :
    t \in Active /\ Wants(criteria[t], ChangeOf(n))

Kept == Covered /\ BatchIdle /\ OwedWanted /\ NothingForgotten

\* A callback is told at least once of a change it wants.
LEMMA WantedTimes ==
  ASSUME NEW t \in Callers, NEW ch \in Change, Wants(criteria[t], ch)
  PROVE  Times(t, ch) > 0
BY DEF Times, TimesAmongSeveral, Wants

\* the changes in the log stay what they are
LEMMA LogGrows ==
  ASSUME TypeOK, NEW ch \in Change, Commit(ch)
  PROVE  /\ Len(log') = Len(log) + 1
         /\ \A n \in 1 .. Len(log) : log'[n] = log[n]
         /\ log'[Len(log) + 1].change = ch
         /\ log'[Len(log) + 1].reported = Reported(ch)
<1>1. Reported(ch) \in BOOLEAN
  BY DEF Reported, Wants
<1>2. [change |-> ch, reported |-> Reported(ch)] \in Entry
  BY <1>1 DEF Entry
<1>3. /\ Len(log') = Len(log) + 1
      /\ \A n \in 1 .. Len(log) : log'[n] = log[n]
      /\ log'[Len(log) + 1] = [change |-> ch, reported |-> Reported(ch)]
  BY <1>2 DEF Commit, TypeOK
<1> QED BY <1>3

\* Nothing is owed initially.
LEMMA KeptInit == Init => Kept
BY CoveredInit DEF Init, Kept, BatchIdle, OwedWanted, NothingForgotten

\* What is owed stays recorded or being reported.
LEMMA KeptStep ==
  ASSUME Kept, [Next]_vars
  PROVE  Kept'
<1> USE DEF Kept, Covered
<1>0. Covered'
  BY CoveredStep
<1> SUFFICES BatchIdle' /\ OwedWanted' /\ NothingForgotten'
  BY <1>0
<1>1. ASSUME NEW t \in Callers, Subscribe(t)
      PROVE  BatchIdle' /\ OwedWanted' /\ NothingForgotten'
  <2>1. /\ pc' = [pc EXCEPT ![t] = "subscribe"] /\ pc[t] = "out" /\ t \notin callbacks
        /\ callbacks' = callbacks \cup {t}
        /\ UNCHANGED <<log, pending, phase, batch, todo, owed>>
        /\ \A u \in Callers : u # t => criteria'[u] = criteria[u]
    BY <1>1 DEF Subscribe, dbVars, notifierVars, TypeOK
  <2>2. owed[t] = {}
    BY <2>1 DEF OwedWanted, Active
  <2>3. Active' = Active
    BY <2>1 DEF Active, TypeOK
  <2>4. OwedWanted'
    BY <2>1, <2>2, <2>3 DEF OwedWanted, ChangeOf
  <2> QED BY <2>1, <2>4 DEF BatchIdle, NothingForgotten
<1>2. ASSUME NEW t \in Callers, Finish(t)
      PROVE  BatchIdle' /\ OwedWanted' /\ NothingForgotten'
  <2>1. /\ pc' = [pc EXCEPT ![t] = "out"]
        /\ callbacks' = callbacks \/ (callbacks' = callbacks \ {t} /\ pc[t] = "subscribe")
        /\ UNCHANGED <<criteria, log, pending, phase, batch, todo, owed>>
    BY <1>2 DEF Finish, SubscribeDone, SubscribeFailed, UnsubscribeDone,
       UnsubscribeFailed, LeaveCall, dbVars, notifierVars
  <2>2. Active \subseteq Active'
    BY <2>1 DEF Active, TypeOK
  <2>3. OwedWanted'
    BY <2>1, <2>2 DEF OwedWanted, ChangeOf
  <2> QED BY <2>1, <2>3 DEF BatchIdle, NothingForgotten
<1>3. ASSUME NEW t \in Callers, Unsubscribe(t)
      PROVE  BatchIdle' /\ OwedWanted' /\ NothingForgotten'
  <2>1. PICK S \in {{t}, callbacks} :
           /\ callbacks' = callbacks \ S
           /\ owed' = [u \in Callers |-> IF u \in S THEN {} ELSE owed[u]]
    BY <1>3 DEF Unsubscribe
  <2>2. /\ pc' = [pc EXCEPT ![t] = "unsubscribe"]
        /\ UNCHANGED <<criteria, log, pending, phase, batch, todo>>
    BY <1>3 DEF Unsubscribe, dbVars, notifierVars
  <2>3. \A u \in Active : u \notin S => u \in Active'
    BY <2>1, <2>2 DEF Active, TypeOK
  <2>4. OwedWanted'
    BY <2>1, <2>2, <2>3 DEF OwedWanted, ChangeOf
  <2> QED BY <2>1, <2>2, <2>4 DEF BatchIdle, NothingForgotten
<1>4. ASSUME NEW ch \in Change, Commit(ch)
      PROVE  BatchIdle' /\ OwedWanted' /\ NothingForgotten'
  <2> DEFINE new == Len(log) + 1
  <2>1. /\ pending' = IF Reported(ch) THEN pending \cup {new} ELSE pending
        /\ owed' = [t \in Callers |-> IF t \in Active /\ Wants(criteria[t], ch)
                                     THEN owed[t] \cup {new} ELSE owed[t]]
        /\ UNCHANGED <<callbacks, criteria, pc, phase, batch, todo>>
    BY <1>4 DEF Commit, callerVars, notifierVars
  <2>2. Active' = Active
    BY <2>1 DEF Active
  <2>3. /\ \A n \in 1 .. Len(log) : ChangeOf(n)' = ChangeOf(n)
        /\ log'[new].change = ch
    BY <1>4, LogGrows DEF ChangeOf
  <2>4. \A t \in Callers : owed[t] \subseteq 1 .. Len(log)
    BY DEF TypeOK
  <2>5. OwedWanted'
    <3>1. ASSUME NEW t \in Callers, NEW n \in owed'[t]
          PROVE  t \in Active /\ Wants(criteria[t], ChangeOf(n)')
      <4>1. CASE n \in owed[t]
        BY <2>3, <2>4, <4>1 DEF OwedWanted
      <4>2. CASE n \notin owed[t]
        <5>1. n = new /\ t \in Active /\ Wants(criteria[t], ch)
          BY <2>1, <3>1, <4>2
        <5>2. ChangeOf(n)' = log'[n].change
          BY DEF ChangeOf
        <5> QED BY <2>3, <5>1, <5>2
      <4> QED BY <4>1, <4>2
    <3> QED BY <2>1, <2>2, <3>1 DEF OwedWanted
  <2>6. NothingForgotten'
    BY <2>1 DEF NothingForgotten, ActiveCovered
  <2> QED BY <2>1, <2>5, <2>6 DEF BatchIdle
<1>5. ASSUME UNCHANGED <<callbacks, criteria, pc, log, owed>>
      PROVE  OwedWanted'
  <2>1. Active' = Active
    BY <1>5 DEF Active
  <2> QED BY <1>5, <2>1 DEF OwedWanted, ChangeOf
<1>6. CASE PreNotify \/ UpdateCache
  <2>1. OwedWanted'
    BY <1>5, <1>6 DEF PreNotify, UpdateCache, callerVars, dbVars
  <2> QED BY <1>6, <2>1 DEF PreNotify, UpdateCache, BatchIdle, NothingForgotten
<1>7. CASE Check
  <2>1. OwedWanted'
    BY <1>5, <1>7 DEF Check, callerVars, dbVars
  <2>2. callbacks = {} => \A t \in Callers : owed[t] = {}
    BY DEF OwedWanted, Active
  <2> QED BY <1>7, <2>1, <2>2 DEF Check, BatchIdle, NothingForgotten
<1>8. CASE LockElse
  <2>1. OwedWanted'
    BY <1>5, <1>8 DEF LockElse, callerVars, dbVars
  <2>2. \A t \in Callers : owed[t] # {} => t \in callbacks
    BY DEF OwedWanted, Active
  <2> QED BY <1>8, <2>1, <2>2 DEF LockElse, BatchIdle, NothingForgotten
<1>9. ASSUME NEW t \in Callers, Deliver(t)
      PROVE  BatchIdle' /\ OwedWanted' /\ NothingForgotten'
  <2>1. /\ phase = "deliver" /\ t \in todo /\ todo' = todo \ {t}
        /\ owed' = [owed EXCEPT ![t] = @ \ {n \in batch : Times(t, ChangeOf(n)) > 0}]
        /\ UNCHANGED <<callbacks, criteria, pc, log, pending, phase, batch>>
    BY <1>9 DEF Deliver, callerVars, dbVars
  <2>2. \A u \in Callers : owed'[u] \subseteq owed[u] /\ (u # t => owed'[u] = owed[u])
    BY <2>1 DEF TypeOK
  <2>3. Active' = Active
    BY <2>1 DEF Active
  <2>4. OwedWanted'
    BY <2>1, <2>2, <2>3 DEF OwedWanted, ChangeOf
  <2>5. owed'[t] \cap batch = {}
    <3>1. \A n \in owed[t] : ChangeOf(n) \in Change /\ Wants(criteria[t], ChangeOf(n))
      BY LogTyped DEF OwedWanted, TypeOK
    <3>2. \A n \in owed[t] : Times(t, ChangeOf(n)) > 0
      BY <3>1, WantedTimes
    <3>3. owed'[t] = owed[t] \ {n \in batch : Times(t, ChangeOf(n)) > 0}
      BY <2>1 DEF TypeOK
    <3> QED BY <3>2, <3>3
  <2>6. NothingForgotten'
    <3>1. ASSUME NEW u \in Callers, NEW n \in owed'[u]
          PROVE  n \in pending \/ (n \in batch /\ u \in todo')
      BY <2>1, <2>2, <2>5, <3>1 DEF NothingForgotten
    <3> QED BY <2>1, <3>1 DEF NothingForgotten
  <2> QED BY <2>1, <2>4, <2>6 DEF BatchIdle
<1>10. CASE Leave
  <2>1. OwedWanted'
    BY <1>5, <1>10 DEF Leave, callerVars, dbVars
  <2> QED BY <1>10, <2>1 DEF Leave, BatchIdle, NothingForgotten
<1>11. CASE UNCHANGED vars \/ \E o \in Objects : Read(o)
  <2>1. UNCHANGED <<callbacks, criteria, pc, log, pending, phase, batch, todo, owed>>
    BY <1>11 DEF vars, Read, callerVars, dbVars, notifierVars
  <2>2. OwedWanted'
    BY <1>5, <2>1
  <2> QED BY <2>1, <2>2 DEF BatchIdle, NothingForgotten
<1> QED BY <1>1, <1>2, <1>3, <1>4, <1>6, <1>7, <1>8, <1>9, <1>10, <1>11
        DEF Next, Call, Notify

\* A change made while a callback wanting it was registered is not lost, whatever
\* the other callers do and the plug-in refuses, up to when the callback is told
\* or removed.
THEOREM NothingEverForgotten == Spec => []NothingForgotten
<1>1. Kept => NothingForgotten
  BY DEF Kept
<1>2. Kept /\ [Next]_vars => Kept'
  BY KeptStep
<1> QED BY <1>1, <1>2, KeptInit, PTL DEF Spec

-----------------------------------------------------------------------------
(***************************************************************************)
(* THE CACHE, AND WHAT IS TOLD TWICE                                       *)
(***************************************************************************)

\* Nothing is cached initially, and every step keeps the cache in step with what
\* was reported.
LEMMA CacheStep ==
  ASSUME TypeOK, CacheFollowsChanges, [Next]_vars
  PROVE  CacheFollowsChanges'
<1> USE DEF CacheFollowsChanges, ChangeOf
<1>0. Len(log) \in Nat
  BY DEF TypeOK
<1>1. ASSUME NEW o \in Objects, Read(o) PROVE CacheFollowsChanges'
  <2>1. /\ readAt' = [readAt EXCEPT ![o] = Len(log)]
        /\ UNCHANGED <<log, pending, phase, batch>>
    BY <1>1 DEF Read, dbVars, notifierVars
  <2>2. (Len(log) + 1) .. Len(log) = {}
    BY <1>0
  <2>3. \A p \in Objects : readAt'[p] = IF p = o THEN Len(log) ELSE readAt[p]
    BY <2>1 DEF TypeOK
  <2>4. ASSUME NEW p \in Objects, readAt'[p] # NotCached, NEW n \in (readAt'[p] + 1) .. Len(log'),
               <<ChangeOf(n).class, ChangeOf(n).id>> = p, log[n].reported
        PROVE  n \in pending \/ (n \in batch /\ phase = "update")
    <3>1. p # o
      BY <2>1, <2>2, <2>3, <2>4
    <3> QED BY <2>1, <2>3, <2>4, <3>1
  <2> QED BY <2>1, <2>4
<1>2. ASSUME NEW ch \in Change, Commit(ch) PROVE CacheFollowsChanges'
  <2> DEFINE new == Len(log) + 1
  <2>1. /\ pending' = IF Reported(ch) THEN pending \cup {new} ELSE pending
        /\ UNCHANGED <<readAt, phase, batch>>
    BY <1>2 DEF Commit, notifierVars
  <2>2. /\ Len(log') = new
        /\ \A n \in 1 .. Len(log) : log'[n] = log[n]
        /\ log'[new].reported = Reported(ch)
    BY <1>2, LogGrows
  <2>3. ASSUME NEW p \in Objects, readAt[p] # NotCached, NEW n \in (readAt[p] + 1) .. new,
               <<log'[n].change.class, log'[n].change.id>> = p, log'[n].reported
        PROVE  n \in pending' \/ (n \in batch /\ phase = "update")
    <3>1. readAt[p] \in 0 .. Len(log)
      BY <2>3 DEF TypeOK
    <3>2. CASE n = new
      BY <2>1, <2>2, <2>3, <3>2
    <3>3. CASE n # new
      <4>1. n \in (readAt[p] + 1) .. Len(log) /\ n \in 1 .. Len(log)
        BY <1>0, <2>3, <3>1, <3>3
      <4> QED BY <2>1, <2>2, <2>3, <4>1
    <3> QED BY <3>2, <3>3
  <2> QED BY <2>1, <2>2, <2>3
<1>3. CASE PreNotify
  BY <1>3 DEF PreNotify, dbVars
<1>4. CASE UpdateCache
  <2>1. /\ UNCHANGED <<log, pending, batch>> /\ phase = "update"
        /\ \A p \in Objects : readAt'[p] = IF InBatch(p) THEN NotCached ELSE readAt[p]
    BY <1>4 DEF UpdateCache, dbVars
  <2> QED BY <2>1 DEF InBatch
<1>5. CASE Check \/ LockElse \/ Leave \/ \E t \in Callers : Deliver(t)
  BY <1>5 DEF Check, LockElse, Leave, Deliver, dbVars
<1>6. CASE UNCHANGED <<log, pending, notifierVars, readAt>>
  BY <1>6 DEF notifierVars
<1> QED BY <1>1, <1>2, <1>3, <1>4, <1>5, <1>6 DEF Next, Notify, Call, Finish, Subscribe,
        Unsubscribe, SubscribeDone, SubscribeFailed, UnsubscribeDone, UnsubscribeFailed,
        dbVars, vars, notifierVars

\* An object cached before a reported change of it is cleared before any callback
\* is told of the change, even when the callbacks were all removed meanwhile.
THEOREM CacheAlwaysFollows == Spec => []CacheFollowsChanges
<1>1. Init => TypeOK /\ CacheFollowsChanges
  BY TypeInit DEF Init, CacheFollowsChanges
<1>2. TypeOK /\ CacheFollowsChanges /\ [Next]_vars => (TypeOK /\ CacheFollowsChanges)'
  BY TypeStep, CacheStep
<1> QED BY <1>1, <1>2, PTL DEF Spec

\* No criteria names a class and an object of the same class.
NamedOnce == \A cr \in Criteria : \A c \in cr.classes : cr.objects[c] = {}

\* What is reported now will not be reported again, and what a callback was told
\* of is not to be told again.
ToldIsDone ==
  /\ batch \cap pending = {}
  /\ \A t \in Callers, n \in Serials : told[t][n] > 0 =>
       /\ n \in 1 .. Len(log)
       /\ n \notin pending
       /\ n \in batch => phase = "deliver" /\ t \notin todo

\* Every step keeps what was told from being told again.
LEMMA DoneStep ==
  ASSUME TypeOK, MutexHeld, ToldIsDone, [Next]_vars
  PROVE  ToldIsDone'
<1>1. ASSUME NEW t \in Callers, Subscribe(t) PROVE ToldIsDone'
  <2>1. /\ UNCHANGED <<log, pending, phase, batch, todo>>
        /\ \A u \in Callers : told'[u] = IF u = t THEN NoneTold ELSE told[u]
    BY <1>1 DEF Subscribe, dbVars, notifierVars, TypeOK
  <2>2. \A n \in Serials : NoneTold[n] = 0
    BY DEF NoneTold
  <2> QED BY <2>1, <2>2 DEF ToldIsDone
<1>2. ASSUME NEW ch \in Change, Commit(ch) PROVE ToldIsDone'
  <2>1. /\ pending' \subseteq pending \cup {Len(log) + 1}
        /\ UNCHANGED <<phase, batch, todo, told>>
    BY <1>2 DEF Commit, notifierVars
  <2>2. Len(log') = Len(log) + 1 /\ Len(log) \in Nat
    BY <1>2, LogGrows DEF TypeOK
  <2>3. \A n \in 1 .. Len(log) : n # Len(log) + 1 /\ n \in 1 .. Len(log')
    BY <2>2
  <2>4. batch \subseteq 1 .. Len(log)
    BY DEF TypeOK
  <2> QED BY <2>1, <2>3, <2>4 DEF ToldIsDone
<1>3. CASE PreNotify
  BY <1>3 DEF PreNotify, ToldIsDone, dbVars
<1>4. CASE UpdateCache \/ Check \/ LockElse \/ Leave
  BY <1>4 DEF UpdateCache, Check, LockElse, Leave, ToldIsDone, dbVars, MutexHeld
<1>5. ASSUME NEW t \in Callers, Deliver(t) PROVE ToldIsDone'
  <2>1. /\ phase = "deliver" /\ t \in todo /\ todo' = todo \ {t}
        /\ UNCHANGED <<log, pending, phase, batch>>
        /\ \A u \in Callers : u # t => told'[u] = told[u]
        /\ \A n \in Serials : n \notin batch => told'[t][n] = told[t][n]
    BY <1>5 DEF Deliver, dbVars, TypeOK
  <2>2. \A n \in batch : n \in 1 .. Len(log) /\ n \notin pending
    BY DEF TypeOK, ToldIsDone
  <2> QED BY <2>1, <2>2 DEF ToldIsDone
<1>6. CASE UNCHANGED <<log, pending, notifierVars, told>>
  BY <1>6 DEF ToldIsDone, notifierVars
<1> QED BY <1>1, <1>2, <1>3, <1>4, <1>5, <1>6 DEF Next, Notify, Call, Finish, Read,
        Unsubscribe, SubscribeDone, SubscribeFailed, UnsubscribeDone, UnsubscribeFailed,
        dbVars, vars, notifierVars

\* What was told stays told once: what is reported now was not told before.
ToldInv == TypeOK /\ MutexHeld /\ ToldOnce /\ ToldIsDone

\* Such a criteria has an object of a change in the list once.
LEMMA TimesOnce ==
  ASSUME NamedOnce, TypeOK, NEW t \in Callers, NEW ch \in Change
  PROVE  Times(t, ch) \in {0, 1}
BY DEF NamedOnce, TypeOK, Times, TimesAmongSeveral

LEMMA ToldInit == Init => ToldInv
BY TypeInit, MutexInit DEF Init, ToldInv, ToldOnce, ToldIsDone, NoneTold, Serials

\* Every step keeps a change from being told twice.
LEMMA ToldStep ==
  ASSUME NamedOnce, ToldInv, [Next]_vars
  PROVE  ToldInv'
<1> USE DEF ToldInv
<1> SUFFICES ToldOnce'
  BY TypeStep, MutexStep, DoneStep
<1>1. ASSUME NEW t \in Callers, Subscribe(t) PROVE ToldOnce'
  <2>1. \A u \in Callers : told'[u] = IF u = t THEN NoneTold ELSE told[u]
    BY <1>1 DEF Subscribe, TypeOK
  <2>2. \A n \in Serials : NoneTold[n] = 0
    BY DEF NoneTold
  <2> QED BY <2>1, <2>2 DEF ToldOnce
<1>2. ASSUME NEW t \in Callers, Deliver(t) PROVE ToldOnce'
  <2>1. /\ phase = "deliver" /\ t \in todo
        /\ \A u \in Callers : u # t => told'[u] = told[u]
        /\ \A n \in Serials : told'[t][n] =
             IF n \in batch THEN told[t][n] + Times(t, ChangeOf(n)) ELSE told[t][n]
    BY <1>2 DEF Deliver, TypeOK
  <2>2. ASSUME NEW n \in Serials, n \in batch
        PROVE  told'[t][n] \in {0, 1}
    <3>1. ChangeOf(n) \in Change
      BY <2>2, LogTyped DEF TypeOK
    <3>2. told[t][n] = 0
      BY <2>1, <2>2 DEF TypeOK, ToldIsDone
    <3>3. Times(t, ChangeOf(n)) \in {0, 1}
      BY <3>1, TimesOnce
    <3> QED BY <2>1, <2>2, <3>2, <3>3
  <2> QED BY <2>1, <2>2 DEF ToldOnce
<1>3. CASE UNCHANGED told
  BY <1>3 DEF ToldOnce
<1> QED BY <1>1, <1>2, <1>3 DEF Next, Notify, Call, Finish, Read, Commit, PreNotify,
        UpdateCache, Check, LockElse, Leave,
        Unsubscribe, SubscribeDone, SubscribeFailed, UnsubscribeDone, UnsubscribeFailed,
        dbVars, vars, notifierVars

\* No callback is told of a change twice, however notifications, subscriptions and
\* removals interleave, when no criteria names a class and an object of it.
THEOREM NeverToldTwice ==
  ASSUME NamedOnce
  PROVE  Spec => []ToldOnce
<1>1. ToldInv => ToldOnce
  BY DEF ToldInv
<1>2. ToldInv /\ [Next]_vars => ToldInv'
  BY ToldStep
<1> QED BY <1>1, <1>2, ToldInit, PTL DEF Spec

-----------------------------------------------------------------------------
(***************************************************************************)
(* THE FEED OF CHANGES                                                     *)
(***************************************************************************)

\* the changes a caller was told of, as ChangeFeed sees them
Told(t) == {n \in Serials : told[t][n] > 0}

\* The users have seen nothing initially.
LEMMA FeedInit == Init => Feed!Init
<1> SUFFICES ASSUME Init PROVE Feed!Init
  OBVIOUS
<1>1. criteria \in [Callers -> Criteria]
  BY TypeInit DEF TypeOK
<1>2. Active = {} /\ Len(log) = 0
  BY DEF Init, Active
<1>3. [n \in 1 .. Len(log) |-> ChangeOf(n)] = << >>
  BY <1>2
<1>4. \A t \in Callers : Told(t) = {}
  BY DEF Init, NoneTold, Told
<1>5. [t \in Callers |-> Told(t)] = [t \in Callers |-> {}]
  BY <1>4
<1> QED BY <1>1, <1>2, <1>3, <1>5 DEF Init, Feed!Init, Told

\* What the feed does not show: the locks, the plug-in, the caches, and how far
\* the notification thread is.
LEMMA FeedStutters ==
  ASSUME UNCHANGED <<callbacks, criteria, log, owed, told>>, Active' = Active
  PROVE  UNCHANGED Feed!feedVars
<1>1. \A n : ChangeOf(n)' = ChangeOf(n)
  BY DEF ChangeOf
<1> QED BY <1>1 DEF Feed!feedVars

\* Each step is a step of the feed, or is not seen.
LEMMA FeedStep ==
  ASSUME TypeOK, MutexHeld, ToldIsDone, [Next]_vars
  PROVE  Feed!Next \/ UNCHANGED Feed!feedVars
<1> DEFINE feed == [n \in 1 .. Len(log) |-> ChangeOf(n)]
           toldSets == [t \in Callers |-> {n \in Serials : told[t][n] > 0}]
<1>0. ASSUME UNCHANGED log PROVE UNCHANGED feed
  BY <1>0 DEF ChangeOf
<1>1. ASSUME NEW t \in Callers, Subscribe(t) PROVE Feed!Join(t)
  <2>1. /\ t \notin callbacks /\ callbacks' = callbacks \cup {t}
        /\ pc' = [pc EXCEPT ![t] = "subscribe"]
        /\ UNCHANGED <<log, owed>>
        /\ told' = [told EXCEPT ![t] = NoneTold]
    BY <1>1 DEF Subscribe, dbVars
  <2>2. PICK cr \in Criteria : criteria' = [criteria EXCEPT ![t] = cr]
    BY <1>1 DEF Subscribe
  <2>3. /\ criteria' \in [Callers -> Criteria]
        /\ \A u \in Callers \ {t} : criteria'[u] = criteria[u]
    BY <2>2 DEF TypeOK
  <2>4. Active' = Active
    BY <2>1 DEF Active, TypeOK
  <2>5. \A u \in Callers : toldSets'[u] = IF u = t THEN {} ELSE toldSets[u]
    BY <2>1 DEF TypeOK, NoneTold
  <2>6. toldSets' = [toldSets EXCEPT ![t] = {}]
    BY <2>5
  <2> HIDE DEF toldSets, feed
  <2> QED BY <1>0, <2>1, <2>3, <2>4, <2>6 DEF Feed!Join, feed, toldSets
<1>2. ASSUME NEW t \in Callers, SubscribeDone(t) \/ UnsubscribeDone(t) \/ UnsubscribeFailed(t)
      PROVE  Feed!Confirm(t) \/ UNCHANGED Feed!feedVars
  <2>1. /\ pc' = [pc EXCEPT ![t] = "out"]
        /\ UNCHANGED <<callbacks, criteria, log, owed, told>>
    BY <1>2 DEF SubscribeDone, UnsubscribeDone, UnsubscribeFailed, LeaveCall, dbVars
  <2>2. CASE t \in callbacks /\ pc[t] = "subscribe"
    <3>1. t \in callbacks \ Active /\ Active' = Active \cup {t}
      BY <2>1, <2>2 DEF Active, TypeOK
    <3> QED BY <1>0, <2>1, <3>1 DEF Feed!Confirm
  <2>3. CASE ~(t \in callbacks /\ pc[t] = "subscribe")
    <3>1. Active' = Active
      BY <2>1, <2>3 DEF Active, TypeOK
    <3> QED BY <2>1, <3>1, FeedStutters
  <2> QED BY <2>2, <2>3
<1>3. ASSUME NEW t \in Callers, SubscribeFailed(t)
      PROVE  Feed!Refuse(t) \/ UNCHANGED Feed!feedVars
  <2>1. /\ pc[t] = "subscribe" /\ callbacks' = callbacks \ {t}
        /\ pc' = [pc EXCEPT ![t] = "out"]
        /\ UNCHANGED <<criteria, log, owed, told>>
    BY <1>3 DEF SubscribeFailed, LeaveCall, dbVars
  <2>2. t \notin Active /\ Active' = Active
    BY <2>1 DEF Active, TypeOK
  <2>3. CASE t \in callbacks
    BY <1>0, <2>1, <2>2, <2>3 DEF Feed!Refuse
  <2>4. CASE t \notin callbacks
    <3>1. callbacks' = callbacks
      BY <2>1, <2>4
    <3> QED BY <2>1, <2>2, <3>1, FeedStutters
  <2> QED BY <2>3, <2>4
<1>4. ASSUME NEW t \in Callers, Unsubscribe(t)
      PROVE  \E S \in SUBSET Callers : Feed!Part(S)
  <2>1. PICK S \in {{t}, callbacks} :
           /\ S \subseteq callbacks
           /\ callbacks' = callbacks \ S
           /\ owed' = [u \in Callers |-> IF u \in S THEN {} ELSE owed[u]]
    BY <1>4 DEF Unsubscribe
  <2>2. /\ owner = Free /\ pc' = [pc EXCEPT ![t] = "unsubscribe"]
        /\ UNCHANGED <<criteria, log, told>>
    BY <1>4 DEF Unsubscribe, dbVars
  <2>3. \A u \in Callers : pc[u] = "out"
    BY <2>2, MarksAssumption DEF MutexHeld
  <2>4. Active = callbacks /\ Active' = callbacks'
    BY <2>1, <2>2, <2>3 DEF Active, TypeOK
  <2>5. Feed!Part(S)
    BY <1>0, <2>1, <2>2, <2>4 DEF Feed!Part
  <2> QED BY <2>1, <2>5 DEF TypeOK
<1>5. ASSUME NEW ch \in Change, Commit(ch) PROVE Feed!Publish(ch)
  <2>1. /\ UNCHANGED <<callbacks, criteria, pc, told>>
        /\ owed' = [t \in Callers |-> IF t \in Active /\ Wants(criteria[t], ch)
                                     THEN owed[t] \cup {Len(log) + 1} ELSE owed[t]]
    BY <1>5 DEF Commit, callerVars
  <2>2. Active' = Active
    BY <2>1 DEF Active
  <2>3. Len(log) \in Nat
    BY DEF TypeOK
  <2>4. /\ Len(log') = Len(log) + 1
        /\ \A n \in 1 .. Len(log) : ChangeOf(n)' = ChangeOf(n)
        /\ log'[Len(log) + 1].change = ch
    BY <1>5, LogGrows DEF ChangeOf
  <2>5. \A n \in 1 .. Len(log) : ChangeOf(n) \in Change
    BY LogTyped DEF TypeOK
  <2>6. feed \in Seq(Change) /\ Len(feed) = Len(log)
    BY <2>3, <2>5
  <2>7. feed' = Append(feed, ch)
    <3>1. feed' = [n \in 1 .. Len(log) + 1 |-> IF n = Len(log) + 1 THEN ch ELSE feed[n]]
      BY <2>3, <2>4 DEF ChangeOf
    <3>2. Append(feed, ch) =
            [n \in 1 .. Len(log) + 1 |-> IF n = Len(log) + 1 THEN ch ELSE feed[n]]
      BY <2>3, <2>6
    <3> QED BY <3>1, <3>2
  <2> HIDE DEF feed
  <2>8. owed' = [t \in Callers |-> IF t \in Active /\ Wants(criteria[t], ch)
                                   THEN owed[t] \cup {Len(feed) + 1} ELSE owed[t]]
    BY <2>1, <2>6
  <2> QED BY <2>1, <2>2, <2>7, <2>8 DEF Feed!Publish, feed
<1>6. ASSUME NEW t \in Callers, Deliver(t)
      PROVE  \E s \in Callers, news \in SUBSET Feed!Published : Feed!Tell(s, news)
  <2> DEFINE news == {n \in batch : Times(t, ChangeOf(n)) > 0}
  <2>1. /\ phase = "deliver" /\ t \in todo
        /\ UNCHANGED <<callbacks, criteria, pc, log>>
        /\ owed' = [owed EXCEPT ![t] = @ \ news]
        /\ told' = [told EXCEPT ![t] = [n \in Serials |->
                      IF n \in batch THEN @[n] + Times(t, ChangeOf(n)) ELSE @[n]]]
    BY <1>6 DEF Deliver, callerVars, dbVars
  <2>2. t \in Active /\ Active' = Active
    BY <2>1, MarksAssumption DEF MutexHeld, Active
  <2>3. batch \subseteq 1 .. Len(log) /\ batch \subseteq Serials
    BY BoundsAssumption DEF TypeOK, Serials
  <2>4. \A n \in batch : told[t][n] = 0
    BY <2>1, <2>3 DEF ToldIsDone, TypeOK
  <2>5. \A n \in batch : Times(t, ChangeOf(n)) \in Nat
    BY <2>3, LogTyped, TimesTyped DEF TypeOK
  <2>6. \A u \in Callers : toldSets'[u] =
          IF u = t THEN toldSets[u] \cup news ELSE toldSets[u]
    <3>1. \A n \in Serials : told'[t][n] =
            IF n \in batch THEN told[t][n] + Times(t, ChangeOf(n)) ELSE told[t][n]
      BY <2>1 DEF TypeOK
    <3>2. \A n \in batch : told'[t][n] = Times(t, ChangeOf(n))
      BY <2>3, <2>4, <2>5, <3>1
    <3>3. \A u \in Callers : u # t => told'[u] = told[u]
      BY <2>1 DEF TypeOK
    <3>4. {n \in Serials : told'[t][n] > 0} = {n \in Serials : told[t][n] > 0} \cup news
      <4>1. \A n \in Serials \ batch : told'[t][n] = told[t][n]
        BY <3>1
      <4>2. \A n \in batch : told'[t][n] > 0 <=> n \in news
        BY <3>2
      <4>3. \A n \in batch : ~(told[t][n] > 0)
        BY <2>4
      <4> HIDE DEF news
      <4> QED BY <2>3, <4>1, <4>2, <4>3 DEF news
    <3> QED BY <3>3, <3>4
  <2>7. toldSets' = [toldSets EXCEPT ![t] = @ \cup news]
    BY <2>6
  <2>8. news \subseteq 1 .. Len(log) /\ news \cap toldSets[t] = {}
    <3>1. toldSets[t] = {n \in Serials : told[t][n] > 0}
      OBVIOUS
    <3>2. \A n \in batch : ~(told[t][n] > 0)
      BY <2>4
    <3> QED BY <2>3, <3>1, <3>2
  <2>9. Len(feed) = Len(log)
    <3>1. Len(log) \in Nat
      BY DEF TypeOK
    <3> QED BY <3>1
  <2> HIDE DEF toldSets, feed, news
  <2>10. news \in SUBSET Feed!Published
    BY <2>8, <2>9 DEF Feed!Published, feed
  <2>11. Feed!Tell(t, news)
    BY <1>0, <2>1, <2>2, <2>7, <2>8, <2>10 DEF Feed!Tell, Feed!Published, feed, toldSets
  <2> QED BY <2>10, <2>11 DEF Feed!Tell
<1>7. CASE UNCHANGED <<callbacks, criteria, pc, log, owed, told>>
  <2>1. Active' = Active
    BY <1>7 DEF Active
  <2> QED BY <1>7, <2>1, FeedStutters
<1> QED BY <1>1, <1>2, <1>3, <1>4, <1>5, <1>6, <1>7 DEF Next, Notify, Call, Finish, Read,
        PreNotify, UpdateCache, Check, LockElse, Leave, dbVars, callerVars, vars,
        Feed!Next

\* Whatever callers, plug-in and notification thread do, the users see a feed of
\* changes: no callback is called before subscribe or after unsubscribe, with a
\* change that was not made, or with one of an earlier call.
THEOREM FeedImplemented == Spec => ImplementsFeed
<1> DEFINE FeedInv == TypeOK /\ MutexHeld /\ ToldIsDone
<1>1. Init => FeedInv
  BY TypeInit, MutexInit DEF Init, ToldIsDone, NoneTold, Serials
<1>2. FeedInv /\ [Next]_vars => FeedInv'
  BY TypeStep, MutexStep, DoneStep
<1>3. FeedInv /\ [Next]_vars => [Feed!Next]_(Feed!feedVars)
  BY FeedStep
<1> HIDE DEF FeedInv
<1> QED BY <1>1, <1>2, <1>3, FeedInit, PTL DEF Spec, ImplementsFeed, Feed!Spec
=============================================================================
