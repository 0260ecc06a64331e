------------------------------ MODULE ChangeFeed ------------------------------
(***************************************************************************)
(* What a subscription promises, as a user of Configuration sees it        *)
(* (the docs of Configuration::subscribe and unsubscribe): a feed of       *)
(* changes, subscribers with an interest, and for each subscriber the      *)
(* changes that are due to it.  Nothing is said of mutexes, plug-ins or    *)
(* notification threads; Notification is shown to implement this module.   *)
(***************************************************************************)
EXTENDS Naturals, Sequences

CONSTANTS Subscribers,  \* who may have a callback
          Changes,      \* what may happen to the database
          Interests,    \* what a subscriber may be interested in
          Wants(_, _)   \* is a change of interest?

VARIABLES registered,   \* subscribers whose callback may be called
          active,       \* those whose subscription was confirmed
          interest,     \* what each subscriber is interested in
          feed,         \* the changes made, in order
          due,          \* changes a subscriber must be told of
          told          \* changes a subscriber was told of

feedVars == <<registered, active, interest, feed, due, told>>

Published == 1 .. Len(feed)

Init == /\ registered = {}
        /\ active = {}
        /\ interest \in [Subscribers -> Interests]
        /\ feed = << >>
        /\ due = [s \in Subscribers |-> {}]
        /\ told = [s \in Subscribers |-> {}]

\* A subscriber asks for changes; it may be told of some before it is confirmed.
Join(s) ==
  /\ s \notin registered
  /\ registered' = registered \cup {s}
  /\ interest' \in [Subscribers -> Interests]
  /\ \A other \in Subscribers \ {s} : interest'[other] = interest[other]
  /\ told' = [told EXCEPT ![s] = {}]
  /\ UNCHANGED <<active, feed, due>>

\* subscribe returns the callback id
Confirm(s) ==
  /\ s \in registered \ active
  /\ active' = active \cup {s}
  /\ UNCHANGED <<registered, interest, feed, due, told>>

\* subscribe throws
Refuse(s) ==
  /\ s \in registered \ active
  /\ registered' = registered \ {s}
  /\ UNCHANGED <<active, interest, feed, due, told>>

\* unsubscribe: one subscriber or all of them are gone, nothing is due to them
Part(S) ==
  /\ S \subseteq active
  /\ registered' = registered \ S
  /\ active' = active \ S
  /\ due' = [s \in Subscribers |-> IF s \in S THEN {} ELSE due[s]]
  /\ UNCHANGED <<interest, feed, told>>

\* a change is due to every confirmed subscriber that wants it
Publish(ch) ==
  /\ feed' = Append(feed, ch)
  /\ due' = [s \in Subscribers |->
               IF s \in active /\ Wants(interest[s], ch)
               THEN due[s] \cup {Len(feed) + 1} ELSE due[s]]
  /\ UNCHANGED <<registered, active, interest, told>>

\* A confirmed subscriber is told of changes that were made, of none of them for
\* the second time.
Tell(s, news) ==
  /\ s \in active
  /\ news \subseteq Published \ told[s]
  /\ told' = [told EXCEPT ![s] = @ \cup news]
  /\ due' = [due EXCEPT ![s] = @ \ news]
  /\ UNCHANGED <<registered, active, interest, feed>>

Next == \/ \E s \in Subscribers : Join(s) \/ Confirm(s) \/ Refuse(s)
        \/ \E S \in SUBSET Subscribers : Part(S)
        \/ \E ch \in Changes : Publish(ch)
        \/ \E s \in Subscribers, news \in SUBSET Published : Tell(s, news)

Spec == Init /\ [][Next]_feedVars
=============================================================================
