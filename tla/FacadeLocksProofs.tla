------------------------- MODULE FacadeLocksProofs -------------------------
(***************************************************************************)
(* Proofs about FacadeLocks, for any threads, methods and number of calls. *)
(*                                                                         *)
(* The methods are built with Do, \o and Within, so what holds of every   *)
(* path of a method is proved compositionally: a rule for each of the      *)
(* three, then one step per method that expands only its definition.  The  *)
(* theorems about the threads use the paths through those facts alone.     *)
(***************************************************************************)
EXTENDS FacadeLocks, SequenceTheorems, TLAPS

-----------------------------------------------------------------------------
\* What the three ways to build a path give, element by element.
IsDo(s, r, w) ==
  /\ s \in Seq(Region)
  /\ Len(s) = 1
  /\ s[1].take = NoLock
  /\ s[1].holds = {}
  /\ s[1].reads = r
  /\ s[1].writes = w

IsThen(s, p, q) ==
  /\ s \in Seq(Region)
  /\ Len(s) = Len(p) + Len(q)
  /\ \A k \in 1 .. Len(p) : s[k] = p[k]
  /\ \A k \in 1 .. Len(q) : s[Len(p) + k] = q[k]

IsWithin(s, m, p) ==
  /\ s \in Seq(Region)
  /\ Len(s) = Len(p) + 2
  /\ s[1].take = m
  /\ s[1].holds = {m}
  /\ s[1].reads = {}
  /\ s[1].writes = {}
  /\ \A k \in 1 .. Len(p) : /\ s[k + 1].take = p[k].take
                            /\ s[k + 1].holds = p[k].holds \cup {m}
                            /\ s[k + 1].reads = p[k].reads
                            /\ s[k + 1].writes = p[k].writes
  /\ s[Len(p) + 2].take = NoLock
  /\ s[Len(p) + 2].holds = {}
  /\ s[Len(p) + 2].reads = {}
  /\ s[Len(p) + 2].writes = {}

\* Do(r, w) is one region that takes and holds nothing.
LEMMA DoShape ==
  ASSUME NEW r \in SUBSET Data, NEW w \in SUBSET Data
  PROVE  IsDo(Do(r, w), r, w)
<1> DEFINE g == [take |-> NoLock, holds |-> {}, reads |-> r, writes |-> w]
<1>1. g \in Region
  BY DEF Region
<1>2. /\ g.take = NoLock
      /\ g.holds = {}
      /\ g.reads = r
      /\ g.writes = w
  OBVIOUS
<1>3. Do(r, w) = <<g>>
  BY DEF Do
<1> HIDE DEF g
<1> QED
  BY <1>1, <1>2, <1>3 DEF IsDo

\* p \o q is the regions of p, then those of q.
LEMMA ThenShape ==
  ASSUME NEW p \in Seq(Region), NEW q \in Seq(Region)
  PROVE  IsThen(p \o q, p, q)
<1>1. Len(p) \in Nat /\ Len(q) \in Nat
  OBVIOUS
<1> DEFINE s == p \o q
<1>2. /\ s \in Seq(Region)
      /\ Len(s) = Len(p) + Len(q)
      /\ \A i \in 1 .. Len(p) + Len(q) :
           s[i] = IF i <= Len(p) THEN p[i] ELSE q[i - Len(p)]
  BY ConcatProperties
<1> HIDE DEF s
<1>3. \A k \in 1 .. Len(p) : s[k] = p[k]
  BY <1>1, <1>2
<1>4. ASSUME NEW k \in 1 .. Len(q)
      PROVE  s[Len(p) + k] = q[k]
  <2>1. /\ Len(p) + k \in 1 .. Len(p) + Len(q)
        /\ ~(Len(p) + k <= Len(p))
        /\ (Len(p) + k) - Len(p) = k
    BY <1>1
  <2> QED
    BY <1>2, <2>1
<1>5. IsThen(s, p, q)
  BY <1>2, <1>3, <1>4 DEF IsThen
<1> QED
  BY <1>5 DEF s

\* Within(m, p) is a region that takes m, the regions of p with m held, and
\* a region that holds nothing.
LEMMA WithinShape ==
  ASSUME NEW m \in Locks, NEW p \in Seq(Region)
  PROVE  IsWithin(Within(m, p), m, p)
<1> DEFINE g == [take |-> m, holds |-> {m}, reads |-> {}, writes |-> {}]
           body == [k \in 1 .. Len(p) |-> [p[k] EXCEPT !.holds = @ \cup {m}]]
           head == <<g>>
           front == head \o body
           end == Do({}, {})
           s == front \o end
<1>1. /\ g \in Region
      /\ g.take = m
      /\ g.holds = {m}
      /\ g.reads = {}
      /\ g.writes = {}
  BY DEF Region
<1>2. Len(p) \in Nat
  OBVIOUS
<1>3. \A k \in 1 .. Len(p) : /\ body[k] \in Region
                             /\ body[k].take = p[k].take
                             /\ body[k].holds = p[k].holds \cup {m}
                             /\ body[k].reads = p[k].reads
                             /\ body[k].writes = p[k].writes
  <2> TAKE k \in 1 .. Len(p)
  <2>1. p[k] \in Region
    OBVIOUS
  <2> QED
    BY <2>1 DEF Region
<1>4. body \in Seq(Region) /\ Len(body) = Len(p)
  <2>1. body \in [1 .. Len(p) -> Region]
    BY <1>2, <1>3
  <2> HIDE DEF body
  <2> QED
    BY <1>2, <2>1, SeqDef, LenProperties
<1>5. IsDo(end, {}, {})
  BY DoShape
<1>6. Within(m, p) = s
  BY DEF Within
<1> HIDE DEF g, body
<1>7. head \in Seq(Region) /\ Len(head) = 1 /\ head[1] = g
  BY <1>1
<1> HIDE DEF head
<1>8. IsThen(front, head, body)
  BY <1>4, <1>7, ThenShape
<1> HIDE DEF front, end
<1>9. front \in Seq(Region) /\ Len(front) = Len(p) + 1
  BY <1>2, <1>4, <1>7, <1>8 DEF IsThen
<1>10. IsThen(s, front, end)
  BY <1>5, <1>9, ThenShape DEF IsDo
<1> HIDE DEF s
<1>11. s[1] = g
  BY <1>2, <1>7, <1>8, <1>9, <1>10 DEF IsThen
<1>12. ASSUME NEW k \in 1 .. Len(p)
       PROVE  s[k + 1] = body[k]
  <2>1. front[1 + k] = body[k]
    BY <1>4, <1>7, <1>8 DEF IsThen
  <2>2. 1 + k = k + 1 /\ k + 1 \in 1 .. Len(front)
    BY <1>2, <1>9
  <2> QED
    BY <2>1, <2>2, <1>10 DEF IsThen
<1>13. Len(s) = Len(p) + 2 /\ s[Len(p) + 2] = end[1]
  <2>1. Len(s) = Len(front) + 1 /\ s[Len(front) + 1] = end[1]
    BY <1>5, <1>10 DEF IsThen, IsDo
  <2>2. Len(front) + 1 = Len(p) + 2
    BY <1>2, <1>9
  <2> QED
    BY <2>1, <2>2
<1>14. IsWithin(s, m, p)
  BY <1>1, <1>3, <1>5, <1>10, <1>11, <1>12, <1>13 DEF IsWithin, IsDo, IsThen
<1> QED
  BY <1>6, <1>14

-----------------------------------------------------------------------------
\* Code that takes no mutex is a well-nested path.
LEMMA DoScoped ==
  ASSUME NEW r \in SUBSET Data, NEW w \in SUBSET Data
  PROVE  Scoped(Do(r, w))
<1> DEFINE s == Do(r, w)
<1>1. IsDo(s, r, w)
  BY DoShape
<1> HIDE DEF s
<1>2. s # NoPath
  <2>1. Len(NoPath) = 0
    BY DEF NoPath
  <2>2. Len(s) = 1
    BY <1>1 DEF IsDo
  <2> QED
    BY <2>1, <2>2
<1>3. Scoped(s)
  BY <1>1, <1>2 DEF Scoped, Before, IsDo
<1> QED
  BY <1>3 DEF s

\* A well-nested path is a non-empty sequence of regions.
LEMMA ScopedLen ==
  ASSUME NEW p, Scoped(p)
  PROVE  p \in Seq(Region) /\ Len(p) \in Nat \ {0}
BY EmptySeq DEF Scoped, NoPath

\* What is held before a region of p \o q is what is held before it in its
\* part, because p ends with no mutex held.
LEMMA ThenBefore ==
  ASSUME NEW p, NEW q, NEW s, Scoped(p), Scoped(q), IsThen(s, p, q)
  PROVE  /\ \A k \in 1 .. Len(p) : Before(s, k) = Before(p, k)
         /\ \A k \in 1 .. Len(q) : Before(s, Len(p) + k) = Before(q, k)
<1>1. Len(p) \in Nat \ {0} /\ Len(q) \in Nat \ {0}
  BY ScopedLen
<1>2. ASSUME NEW k \in 1 .. Len(p)
      PROVE  Before(s, k) = Before(p, k)
  BY <1>1, <1>2 DEF Before, IsThen
<1>3. ASSUME NEW k \in 1 .. Len(q)
      PROVE  Before(s, Len(p) + k) = Before(q, k)
  <2>1. Len(p) + k # 1
    BY <1>1
  <2>2. Before(s, Len(p) + k) = s[(Len(p) + k) - 1].holds
    BY <2>1 DEF Before
  <2>3. CASE k = 1
    <3>1. (Len(p) + k) - 1 = Len(p) /\ Len(p) \in 1 .. Len(p)
      BY <1>1, <2>3
    <3>2. s[Len(p)] = p[Len(p)]
      BY <3>1 DEF IsThen
    <3>3. p[Len(p)].holds = {}
      BY DEF Scoped
    <3> QED
      BY <2>2, <2>3, <3>1, <3>2, <3>3 DEF Before
  <2>4. CASE k # 1
    <3>1. (Len(p) + k) - 1 = Len(p) + (k - 1) /\ k - 1 \in 1 .. Len(q)
      BY <1>1, <2>4
    <3>2. s[Len(p) + (k - 1)] = q[k - 1]
      BY <3>1 DEF IsThen
    <3> QED
      BY <2>2, <2>4, <3>1, <3>2 DEF Before
  <2> QED
    BY <2>3, <2>4
<1> QED
  BY <1>2, <1>3

\* an index of a concatenation is one of its parts'
LEMMA ThenIndex ==
  ASSUME NEW p \in Seq(Region), NEW q \in Seq(Region), NEW s, IsThen(s, p, q),
         NEW k \in 1 .. Len(s), k \notin 1 .. Len(p)
  PROVE  \E j \in 1 .. Len(q) : k = Len(p) + j
<1>1. Len(p) \in Nat /\ Len(q) \in Nat /\ Len(s) = Len(p) + Len(q)
  BY DEF IsThen
<1>2. k - Len(p) \in 1 .. Len(q) /\ k = Len(p) + (k - Len(p))
  BY <1>1
<1> QED
  BY <1>2

\* Well-nested paths one after the other are a well-nested path.
LEMMA ThenScoped ==
  ASSUME NEW p, NEW q, Scoped(p), Scoped(q)
  PROVE  Scoped(p \o q)
<1> DEFINE s == p \o q
<1>1. /\ p \in Seq(Region) /\ q \in Seq(Region)
      /\ Len(p) \in Nat \ {0} /\ Len(q) \in Nat \ {0}
  BY ScopedLen
<1>2. IsThen(s, p, q)
  BY <1>1, ThenShape
<1> HIDE DEF s
<1>3. /\ \A k \in 1 .. Len(p) : Before(s, k) = Before(p, k)
      /\ \A k \in 1 .. Len(q) : Before(s, Len(p) + k) = Before(q, k)
  BY <1>2, ThenBefore
<1>4. ASSUME NEW k \in 1 .. Len(s)
      PROVE  IF s[k].take = NoLock THEN s[k].holds \subseteq Before(s, k)
                                   ELSE s[k].holds = Before(s, k) \cup {s[k].take}
  <2>1. CASE k \in 1 .. Len(p)
    BY <2>1, <1>2, <1>3 DEF Scoped, IsThen
  <2>2. CASE k \notin 1 .. Len(p)
    <3>1. PICK j \in 1 .. Len(q) : k = Len(p) + j
      BY <1>1, <1>2, <2>2, ThenIndex
    <3>2. s[k] = q[j] /\ Before(s, k) = Before(q, j)
      BY <3>1, <1>2, <1>3 DEF IsThen
    <3> QED
      BY <3>2 DEF Scoped
  <2> QED
    BY <2>1, <2>2
<1>5. s # NoPath /\ s \in Seq(Region)
  BY <1>1, <1>2, EmptySeq DEF IsThen, NoPath
<1>6. s[Len(s)].holds = {}
  <2>1. Len(s) = Len(p) + Len(q) /\ Len(q) \in 1 .. Len(q)
    BY <1>1, <1>2 DEF IsThen
  <2> QED
    BY <2>1, <1>2 DEF Scoped, IsThen
<1>7. Scoped(s)
  BY <1>4, <1>5, <1>6 DEF Scoped
<1> QED
  BY <1>7 DEF s

\* Inside a scope, m is held in addition before every region.
LEMMA WithinBefore ==
  ASSUME NEW m \in Locks, NEW p \in Seq(Region), NEW s, IsWithin(s, m, p)
  PROVE  /\ Before(s, 1) = {}
         /\ \A k \in 1 .. Len(p) : Before(s, k + 1) = Before(p, k) \cup {m}
<1>1. Before(s, 1) = {}
  BY DEF Before
<1>2. ASSUME NEW k \in 1 .. Len(p)
      PROVE  Before(s, k + 1) = Before(p, k) \cup {m}
  <2>1. Before(s, k + 1) = s[k].holds
    BY DEF Before
  <2>2. CASE k = 1
    BY <2>1, <2>2 DEF Before, IsWithin
  <2>3. CASE k # 1
    <3>1. k - 1 \in 1 .. Len(p) /\ (k - 1) + 1 = k
      BY <2>3
    <3>2. s[(k - 1) + 1].holds = p[k - 1].holds \cup {m}
      BY <3>1 DEF IsWithin
    <3> QED
      BY <3>1, <3>2, <2>1, <2>3 DEF Before
  <2> QED
    BY <2>2, <2>3
<1> QED
  BY <1>1, <1>2

\* an index of the inside of a scope is one of its body's
LEMMA WithinIndex ==
  ASSUME NEW m \in Locks, NEW p \in Seq(Region), NEW s, IsWithin(s, m, p),
         NEW k \in 1 .. Len(s), k # 1, k # Len(p) + 2
  PROVE  \E j \in 1 .. Len(p) : k = j + 1
<1>1. Len(p) \in Nat /\ Len(s) = Len(p) + 2
  BY DEF IsWithin
<1>2. k - 1 \in 1 .. Len(p) /\ k = (k - 1) + 1
  BY <1>1
<1> QED
  BY <1>2

\* A well-nested path inside a std::lock_guard scope is well nested.
LEMMA WithinScoped ==
  ASSUME NEW m \in Locks, NEW p, Scoped(p)
  PROVE  Scoped(Within(m, p))
<1> DEFINE s == Within(m, p)
<1>1. p \in Seq(Region) /\ Len(p) \in Nat \ {0}
  BY ScopedLen
<1>2. IsWithin(s, m, p)
  BY <1>1, WithinShape
<1> HIDE DEF s
<1>3. /\ Before(s, 1) = {}
      /\ \A k \in 1 .. Len(p) : Before(s, k + 1) = Before(p, k) \cup {m}
  BY <1>1, <1>2, WithinBefore
<1>4. m # NoLock
  BY DEF Locks, NoLock
<1>5. ASSUME NEW k \in 1 .. Len(s)
      PROVE  IF s[k].take = NoLock THEN s[k].holds \subseteq Before(s, k)
                                   ELSE s[k].holds = Before(s, k) \cup {s[k].take}
  <2>1. CASE k = 1
    BY <2>1, <1>2, <1>3, <1>4 DEF IsWithin
  <2>2. CASE k = Len(p) + 2
    BY <2>2, <1>2 DEF IsWithin
  <2>3. CASE k # 1 /\ k # Len(p) + 2
    <3>1. PICK j \in 1 .. Len(p) : k = j + 1
      BY <2>3, <1>1, <1>2, WithinIndex
    <3>2. /\ s[k].take = p[j].take
          /\ s[k].holds = p[j].holds \cup {m}
          /\ Before(s, k) = Before(p, j) \cup {m}
      BY <3>1, <1>2, <1>3 DEF IsWithin
    <3> QED
      BY <3>2 DEF Scoped
  <2> QED
    BY <2>1, <2>2, <2>3
<1>6. s # NoPath /\ s \in Seq(Region) /\ s[Len(s)].holds = {}
  BY <1>1, <1>2, EmptySeq DEF NoPath, IsWithin
<1>7. Scoped(s)
  BY <1>5, <1>6 DEF Scoped
<1> QED
  BY <1>7 DEF s

-----------------------------------------------------------------------------
\* p is well nested, reads data of R only and writes data of W only
Uses(R, W, p) ==
  /\ Scoped(p)
  /\ \A k \in 1 .. Len(p) : p[k].reads \subseteq R /\ p[k].writes \subseteq W

\* Code that takes no mutex uses what it is said to.
LEMMA DoUses ==
  ASSUME NEW R, NEW W, NEW r \in SUBSET Data, NEW w \in SUBSET Data, r \subseteq R, w \subseteq W
  PROVE  Uses(R, W, Do(r, w))
<1> DEFINE s == Do(r, w)
<1>1. IsDo(s, r, w) /\ Scoped(s)
  BY DoShape, DoScoped
<1> HIDE DEF s
<1>2. Uses(R, W, s)
  BY <1>1 DEF Uses, IsDo
<1> QED
  BY <1>2 DEF s

\* A sequence uses what its parts use.
LEMMA ThenUses ==
  ASSUME NEW R, NEW W, NEW p, NEW q, Uses(R, W, p), Uses(R, W, q)
  PROVE  Uses(R, W, p \o q)
<1> DEFINE s == p \o q
<1>1. Scoped(p) /\ Scoped(q) /\ p \in Seq(Region) /\ q \in Seq(Region)
  BY DEF Uses, Scoped
<1>2. IsThen(s, p, q) /\ Scoped(s)
  BY <1>1, ThenShape, ThenScoped
<1> HIDE DEF s
<1>3. ASSUME NEW k \in 1 .. Len(s)
      PROVE  s[k].reads \subseteq R /\ s[k].writes \subseteq W
  <2>1. CASE k \in 1 .. Len(p)
    BY <1>2, <2>1 DEF Uses, IsThen
  <2>2. CASE k \notin 1 .. Len(p)
    <3>1. PICK j \in 1 .. Len(q) : k = Len(p) + j
      BY <1>1, <1>2, <2>2, ThenIndex
    <3>2. s[k] = q[j]
      BY <3>1, <1>2 DEF IsThen
    <3> QED
      BY <3>2 DEF Uses
  <2> QED
    BY <2>1, <2>2
<1>4. Uses(R, W, s)
  BY <1>2, <1>3 DEF Uses
<1> QED
  BY <1>4 DEF s

\* A scope uses what is used in it.
LEMMA WithinUses ==
  ASSUME NEW R, NEW W, NEW m \in Locks, NEW p, Uses(R, W, p)
  PROVE  Uses(R, W, Within(m, p))
<1> DEFINE s == Within(m, p)
<1>1. Scoped(p) /\ p \in Seq(Region)
  BY DEF Uses, Scoped
<1>2. IsWithin(s, m, p) /\ Scoped(s)
  BY <1>1, WithinShape, WithinScoped
<1> HIDE DEF s
<1>3. ASSUME NEW k \in 1 .. Len(s)
      PROVE  s[k].reads \subseteq R /\ s[k].writes \subseteq W
  <2>1. CASE k = 1 \/ k = Len(p) + 2
    BY <1>2, <2>1 DEF IsWithin
  <2>2. CASE k # 1 /\ k # Len(p) + 2
    <3>1. PICK j \in 1 .. Len(p) : k = j + 1
      BY <1>1, <1>2, <2>2, WithinIndex
    <3>2. s[k].reads = p[j].reads /\ s[k].writes = p[j].writes
      BY <3>1, <1>2 DEF IsWithin
    <3> QED
      BY <3>2 DEF Uses
  <2> QED
    BY <2>1, <2>2
<1>4. Uses(R, W, s)
  BY <1>2, <1>3 DEF Uses
<1> QED
  BY <1>4 DEF s

\* the rules together
LEMMA UsesRules ==
  ASSUME NEW R, NEW W
  PROVE  /\ \A r, w \in SUBSET Data : r \subseteq R /\ w \subseteq W => Uses(R, W, Do(r, w))
         /\ \A p, q : Uses(R, W, p) /\ Uses(R, W, q) => Uses(R, W, p \o q)
         /\ \A p : \A m \in Locks : Uses(R, W, p) => Uses(R, W, Within(m, p))
BY DoUses, ThenUses, WithinUses

\* What reads values and makes template objects uses these.
ReadSet == {"plugin", "hierarchy", "converters"}
WriteSet == {"implObjects", "tmplObjects"}

\* The parts the methods share.
LEMMA SharedUses ==
  ASSUME NEW R, NEW W, ReadSet \subseteq R, WriteSet \subseteq W
  PROVE  /\ Uses(R, W, PluginGet)
         /\ Uses(R, W, ObjectGet)
         /\ \A c \in CacheMake : Uses(R, W, c)
         /\ \A c \in Children : Uses(R, W, c)
         /\ \A c \in CacheGet : Uses(R, W, c)
<1>1. {"plugin", "hierarchy", "converters"} \subseteq R /\ {"implObjects", "tmplObjects"} \subseteq W
  BY DEF ReadSet, WriteSet
<1>2. Uses(R, W, PluginGet)
  BY <1>1, UsesRules DEF PluginGet, Data
<1>3. Uses(R, W, ObjectGet)
  BY <1>1, <1>2, UsesRules DEF ObjectGet, Data
<1>4. Uses(R, W, Do({}, {"tmplObjects"})) /\ Uses(R, W, Do({}, {}))
  BY <1>1, UsesRules DEF Data
<1>5. "dal" \in Locks /\ "child" \in Locks
  BY DEF Locks
<1>6. \A c \in CacheMake : Uses(R, W, c)
  BY <1>4, <1>5, UsesRules DEF CacheMake
<1>7. \A c \in Children : Uses(R, W, c)
  BY <1>3, <1>4, <1>5, UsesRules DEF Children
<1>8. \A c \in Children : Uses(R, W, Do({}, {"tmplObjects"}) \o Within("dal", ObjectGet \o c))
  <2> TAKE c \in Children
  <2>1. Uses(R, W, Within("dal", ObjectGet \o c))
    BY <1>3, <1>5, <1>7, UsesRules
  <2> QED
    BY <1>4, <2>1, UsesRules
<1>9. \A c \in CacheGet : Uses(R, W, c)
  BY <1>6, <1>8 DEF CacheGet
<1> QED
  BY <1>2, <1>3, <1>6, <1>7, <1>9

-----------------------------------------------------------------------------
\* Code that takes no mutex is guarded by those held around it.
LEMMA DoGuarded ==
  ASSUME NEW d, NEW H, NEW r \in SUBSET Data, NEW w \in SUBSET Data,
         d \in w => Guards[d] \subseteq H,
         d \in r => Guards[d] \cap H # {}
  PROVE  GuardedBy(d, H, Do(r, w))
<1> DEFINE s == Do(r, w)
<1>1. IsDo(s, r, w)
  BY DoShape
<1> HIDE DEF s
<1>2. GuardedBy(d, H, s)
  BY <1>1 DEF GuardedBy, IsDo
<1> QED
  BY <1>2 DEF s

\* Guarded code one after the other is guarded.
LEMMA ThenGuarded ==
  ASSUME NEW d, NEW H, NEW p, NEW q, Scoped(p), Scoped(q),
         GuardedBy(d, H, p), GuardedBy(d, H, q)
  PROVE  GuardedBy(d, H, p \o q)
<1> DEFINE s == p \o q
<1>1. p \in Seq(Region) /\ q \in Seq(Region)
  BY DEF Scoped
<1>2. IsThen(s, p, q)
  BY <1>1, ThenShape
<1> HIDE DEF s
<1>3. ASSUME NEW k \in 1 .. Len(s)
      PROVE  /\ d \in s[k].writes => Guards[d] \subseteq s[k].holds \cup H
             /\ d \in s[k].reads => Guards[d] \cap (s[k].holds \cup H) # {}
  <2>1. CASE k \in 1 .. Len(p)
    BY <1>2, <2>1 DEF GuardedBy, IsThen
  <2>2. CASE k \notin 1 .. Len(p)
    <3>1. PICK j \in 1 .. Len(q) : k = Len(p) + j
      BY <1>1, <1>2, <2>2, ThenIndex
    <3>2. s[k] = q[j]
      BY <3>1, <1>2 DEF IsThen
    <3> QED
      BY <3>2 DEF GuardedBy
  <2> QED
    BY <2>1, <2>2
<1>4. GuardedBy(d, H, s)
  BY <1>3 DEF GuardedBy
<1> QED
  BY <1>4 DEF s

\* A scope on m guards what needs m inside it.
LEMMA WithinGuarded ==
  ASSUME NEW d, NEW H, NEW m \in Locks, NEW p, Scoped(p), GuardedBy(d, H \cup {m}, p)
  PROVE  GuardedBy(d, H, Within(m, p))
<1> DEFINE s == Within(m, p)
<1>1. p \in Seq(Region)
  BY DEF Scoped
<1>2. IsWithin(s, m, p)
  BY <1>1, WithinShape
<1> HIDE DEF s
<1>3. ASSUME NEW k \in 1 .. Len(s)
      PROVE  /\ d \in s[k].writes => Guards[d] \subseteq s[k].holds \cup H
             /\ d \in s[k].reads => Guards[d] \cap (s[k].holds \cup H) # {}
  <2>1. CASE k = 1 \/ k = Len(p) + 2
    BY <1>2, <2>1 DEF IsWithin
  <2>2. CASE k # 1 /\ k # Len(p) + 2
    <3>1. PICK j \in 1 .. Len(p) : k = j + 1
      BY <1>1, <1>2, <2>2, WithinIndex
    <3>2. /\ s[k].holds = p[j].holds \cup {m}
          /\ s[k].reads = p[j].reads
          /\ s[k].writes = p[j].writes
      BY <3>1, <1>2 DEF IsWithin
    <3>3. s[k].holds \cup H = p[j].holds \cup (H \cup {m})
      BY <3>2
    <3> QED
      BY <3>2, <3>3 DEF GuardedBy
  <2> QED
    BY <2>1, <2>2
<1>4. GuardedBy(d, H, s)
  BY <1>3 DEF GuardedBy
<1> QED
  BY <1>4 DEF s

\* p is well nested and uses all data outside of X under their mutexes when it runs with the
\* mutexes of H held
Guarded(X, H, p) == Scoped(p) /\ \A d \in Data \ X : GuardedBy(d, H, p)

\* What is guarded stays so with more mutexes held.
LEMMA GuardedMore ==
  ASSUME NEW X, NEW H, NEW p, Guarded(X, H, p)
  PROVE  \A K : H \subseteq K => Guarded(X, K, p)
<1> SUFFICES ASSUME NEW K, H \subseteq K, NEW d \in Data \ X, NEW k \in 1 .. Len(p)
             PROVE  /\ d \in p[k].writes => Guards[d] \subseteq p[k].holds \cup K
                    /\ d \in p[k].reads => Guards[d] \cap (p[k].holds \cup K) # {}
  BY DEF Guarded, GuardedBy
<1>1. p[k].holds \cup H \subseteq p[k].holds \cup K
  OBVIOUS
<1>2. /\ d \in p[k].writes => Guards[d] \subseteq p[k].holds \cup H
      /\ d \in p[k].reads => Guards[d] \cap (p[k].holds \cup H) # {}
  BY DEF Guarded, GuardedBy
<1> QED
  BY <1>1, <1>2

\* What is guarded but for X is guarded but for more.
LEMMA GuardedLess ==
  ASSUME NEW X, NEW H, NEW p, Guarded(X, H, p)
  PROVE  \A Y : X \subseteq Y => Guarded(Y, H, p)
BY DEF Guarded

\* Code is guarded by the mutexes held around it when they are those of all it uses.
LEMMA UsesGuarded ==
  ASSUME NEW X, NEW H, NEW R, NEW W, NEW p, Uses(R, W, p),
         \A d \in Data \ X : d \in W => Guards[d] \subseteq H,
         \A d \in Data \ X : d \in R => Guards[d] \cap H # {}
  PROVE  Guarded(X, H, p)
<1>1. ASSUME NEW d \in Data \ X, NEW k \in 1 .. Len(p)
      PROVE  /\ d \in p[k].writes => Guards[d] \subseteq p[k].holds \cup H
             /\ d \in p[k].reads => Guards[d] \cap (p[k].holds \cup H) # {}
  <2>1. p[k].reads \subseteq R /\ p[k].writes \subseteq W
    BY DEF Uses
  <2>2. /\ d \in W => Guards[d] \subseteq H
        /\ d \in R => Guards[d] \cap H # {}
    OBVIOUS
  <2> QED
    BY <2>1, <2>2
<1> QED
  BY <1>1 DEF Guarded, GuardedBy, Uses

\* the rules for the sets of held mutexes that matter
LEMMA GuardedRules ==
  ASSUME NEW X
  PROVE  /\ \A p : Guarded(X, {"tmpl"}, p) => Guarded(X, {}, Within("tmpl", p))
         /\ \A p : Guarded(X, {"impl"}, p) => \A H : Guarded(X, H, Within("impl", p))
         /\ \A p : Guarded(X, {"tmpl", "impl"}, p) => Guarded(X, {"tmpl"}, Within("impl", p))
         /\ \A p : Guarded(X, {"tmpl", "impl"}, p) => Guarded(X, {"impl"}, Within("tmpl", p))
         /\ \A p : Guarded(X, {"tmpl", "else"}, p) => Guarded(X, {"else"}, Within("tmpl", p))
         /\ \A p : Guarded(X, {"tmpl", "impl", "else"}, p)
                     => Guarded(X, {"tmpl", "impl"}, Within("else", p))
         /\ \A p : Guarded(X, {"actn"}, p) => \A H : Guarded(X, H, Within("actn", p))
         /\ \A p : Guarded(X, {"else"}, p) => \A H : Guarded(X, H, Within("else", p))
         /\ \A p, H : Guarded(X, H, p) => \A m \in Locks : Guarded(X, H, Within(m, p))
         /\ \A p, q, H : Guarded(X, H, p) /\ Guarded(X, H, q) => Guarded(X, H, p \o q)
<1>1. \A p, H : \A m \in Locks : Guarded(X, H \cup {m}, p) => Guarded(X, H, Within(m, p))
  BY WithinScoped, WithinGuarded DEF Guarded
<1>2. \A p, H, m : /\ Guarded(X, H, p) => Guarded(X, H \cup {m}, p)
                   /\ Guarded(X, {m}, p) => Guarded(X, H \cup {m}, p)
  <2> TAKE p, H, m
  <2>1. H \subseteq H \cup {m} /\ {m} \subseteq H \cup {m}
    OBVIOUS
  <2> QED
    BY <2>1, GuardedMore
<1>3. {"tmpl", "impl", "actn", "else"} \subseteq Locks
  BY DEF Locks
<1>4. /\ {} \cup {"tmpl"} = {"tmpl"}
      /\ {"tmpl"} \cup {"impl"} = {"tmpl", "impl"}
      /\ {"impl"} \cup {"tmpl"} = {"tmpl", "impl"}
      /\ {"else"} \cup {"tmpl"} = {"tmpl", "else"}
      /\ {"tmpl", "impl"} \cup {"else"} = {"tmpl", "impl", "else"}
  OBVIOUS
<1>5. ASSUME NEW p
      PROVE  /\ Guarded(X, {} \cup {"tmpl"}, p) => Guarded(X, {}, Within("tmpl", p))
             /\ Guarded(X, {"tmpl"} \cup {"impl"}, p) => Guarded(X, {"tmpl"}, Within("impl", p))
             /\ Guarded(X, {"impl"} \cup {"tmpl"}, p) => Guarded(X, {"impl"}, Within("tmpl", p))
             /\ Guarded(X, {"else"} \cup {"tmpl"}, p) => Guarded(X, {"else"}, Within("tmpl", p))
             /\ Guarded(X, {"tmpl", "impl"} \cup {"else"}, p)
                  => Guarded(X, {"tmpl", "impl"}, Within("else", p))
  BY <1>1, <1>3
<1>6. \A p : /\ Guarded(X, {"actn"}, p) => \A H : Guarded(X, H, Within("actn", p))
             /\ Guarded(X, {"else"}, p) => \A H : Guarded(X, H, Within("else", p))
             /\ Guarded(X, {"impl"}, p) => \A H : Guarded(X, H, Within("impl", p))
  BY <1>1, <1>2, <1>3
<1>7. \A p, H : Guarded(X, H, p) => \A m \in Locks : Guarded(X, H, Within(m, p))
  BY <1>1, <1>2
<1>8. \A p, q, H : Guarded(X, H, p) /\ Guarded(X, H, q) => Guarded(X, H, p \o q)
  BY ThenScoped, ThenGuarded DEF Guarded
<1> QED
  BY <1>4, <1>5, <1>6, <1>7, <1>8

\* what may be read and written in a region with some mutexes held
LEMMA GuardedSteps ==
  ASSUME NEW X, NEW r \in SUBSET Data, NEW w \in SUBSET Data
  PROVE  /\ r \cup w \subseteq X => Guarded(X, {}, Do(r, w))
         /\ w \subseteq X \cup {"tmplObjects"} /\ r \subseteq X \cup {"tmplObjects", "hierarchy"}
              => Guarded(X, {"tmpl"}, Do(r, w))
         /\ w \subseteq X \cup {"plugin", "implObjects", "classDesc"}
            /\ r \subseteq X \cup {"plugin", "implObjects", "classDesc", "hierarchy"}
              => Guarded(X, {"impl"}, Do(r, w))
         /\ r \cup w \subseteq
              X \cup {"tmplObjects", "plugin", "implObjects", "classDesc", "hierarchy"}
              => Guarded(X, {"tmpl", "impl"}, Do(r, w))
         /\ r \cup w \subseteq
              X \cup {"tmplObjects", "plugin", "implObjects", "classDesc", "hierarchy",
                      "callbacks", "converters"}
              => Guarded(X, {"tmpl", "impl", "else"}, Do(r, w))
         /\ r \cup w \subseteq X \cup {"actions"} => Guarded(X, {"actn"}, Do(r, w))
         /\ r \cup w \subseteq X \cup {"callbacks", "converters"} => Guarded(X, {"else"}, Do(r, w))
<1>1. /\ Guards["tmplObjects"] = {"tmpl"}
      /\ Guards["plugin"] = {"impl"}
      /\ Guards["implObjects"] = {"impl"}
      /\ Guards["hierarchy"] = {"tmpl", "impl"}
      /\ Guards["classDesc"] = {"impl"}
      /\ Guards["actions"] = {"actn"}
      /\ Guards["callbacks"] = {"else"}
      /\ Guards["converters"] = {"else"}
  BY DEF Guards
<1>2. \A H :
        (\A d \in Data \ X : /\ d \in w => Guards[d] \subseteq H
                             /\ d \in r => Guards[d] \cap H # {})
          => Guarded(X, H, Do(r, w))
  BY DoScoped, DoGuarded DEF Guarded
<1>3. /\ r \cup w \subseteq X => Guarded(X, {}, Do(r, w))
      /\ w \subseteq X \cup {"tmplObjects"} /\ r \subseteq X \cup {"tmplObjects", "hierarchy"}
           => Guarded(X, {"tmpl"}, Do(r, w))
      /\ w \subseteq X \cup {"plugin", "implObjects", "classDesc"}
         /\ r \subseteq X \cup {"plugin", "implObjects", "classDesc", "hierarchy"}
           => Guarded(X, {"impl"}, Do(r, w))
  BY <1>1, <1>2
<1>4. r \cup w \subseteq
        X \cup {"tmplObjects", "plugin", "implObjects", "classDesc", "hierarchy"}
        => Guarded(X, {"tmpl", "impl"}, Do(r, w))
  BY <1>1, <1>2
<1>5. r \cup w \subseteq
        X \cup {"tmplObjects", "plugin", "implObjects", "classDesc", "hierarchy",
                "callbacks", "converters"}
        => Guarded(X, {"tmpl", "impl", "else"}, Do(r, w))
  BY <1>1, <1>2
<1>6. /\ r \cup w \subseteq X \cup {"actions"} => Guarded(X, {"actn"}, Do(r, w))
      /\ r \cup w \subseteq X \cup {"callbacks", "converters"} => Guarded(X, {"else"}, Do(r, w))
  BY <1>1, <1>2
<1> QED
  BY <1>3, <1>4, <1>5, <1>6

\* what is read by ObjectGet and a miss of get_by_id without the mutexes it is written under
ReadFreely == {"plugin", "implObjects", "converters"}

\* Reading values and making template objects needs m_tmpl_mutex, but for ReadFreely; with
\* m_else_mutex held the converters are safe as well.
LEMMA SharedGuarded ==
  ASSUME NEW p, Uses(ReadSet, WriteSet, p)
  PROVE  /\ Guarded(ReadFreely, {"tmpl"}, p)
         /\ Guarded({"plugin", "implObjects"}, {"tmpl", "else"}, p)
<1>1. /\ Guards["tmplObjects"] = {"tmpl"}
      /\ Guards["hierarchy"] = {"tmpl", "impl"}
      /\ Guards["converters"] = {"else"}
  BY DEF Guards
<1>2. /\ \A d \in Data \ ReadFreely : d \in WriteSet => Guards[d] \subseteq {"tmpl"}
      /\ \A d \in Data \ ReadFreely : d \in ReadSet => Guards[d] \cap {"tmpl"} # {}
  BY <1>1 DEF ReadFreely, ReadSet, WriteSet
<1>3. /\ \A d \in Data \ {"plugin", "implObjects"} :
           d \in WriteSet => Guards[d] \subseteq {"tmpl", "else"}
      /\ \A d \in Data \ {"plugin", "implObjects"} :
           d \in ReadSet => Guards[d] \cap {"tmpl", "else"} # {}
  BY <1>1 DEF ReadSet, WriteSet
<1>4. Guarded(ReadFreely, {"tmpl"}, p)
  BY <1>2, UsesGuarded
<1>5. Guarded({"plugin", "implObjects"}, {"tmpl", "else"}, p)
  BY <1>3, UsesGuarded
<1> QED
  BY <1>4, <1>5

\* The methods that use every piece of data under its mutexes.
LEMMA GuardedThroughout ==
  ASSUME NEW o \in {"get_object", "test_object", "create_object", "is_writable", "get_includes",
                    "get_versions", "get_class_info", "is_valid", "cast", "cast_object",
                    "full_name", "destroy_obj", "rename_object", "add_action",
                    "unread_all_objects", "unload", "remove_include", "commit",
                    "prefetch_all_data", "abort", "register_converter", "system_pre_cb",
                    "action_calls"},
         NEW p \in PathsOf[o]
  PROVE  Guarded({}, {}, p)
<1> DEFINE Ok(P) == \A q \in P : Guarded({}, {}, q)
<1> USE DEF Data, Locks
<1>1. Guarded({}, {"impl"}, PluginGet) /\ Guarded({}, {"tmpl", "impl"}, PluginGet)
  BY GuardedSteps DEF PluginGet
<1>2. Guarded({}, {"impl"}, PluginCreate)
  BY GuardedSteps DEF PluginCreate
<1>3. \A q \in CacheMake : Guarded({}, {"tmpl"}, q) /\ Guarded({}, {"tmpl", "impl"}, q)
  <2>1. /\ Guarded({}, {"tmpl"}, Do({}, {"tmplObjects"})) /\ Guarded({}, {"tmpl"}, Do({}, {}))
    BY GuardedSteps
  <2>2. \A q \in CacheMake : Guarded({}, {"tmpl"}, q)
    BY <2>1, GuardedRules DEF CacheMake
  <2>3. {"tmpl"} \subseteq {"tmpl", "impl"}
    OBVIOUS
  <2> QED
    BY <2>2, <2>3, GuardedMore
<1>4. Guarded({}, {"tmpl", "impl"}, update_cache)
  BY GuardedRules, GuardedSteps DEF update_cache
<1>5. /\ Guarded({}, {"impl"}, unread_implementation_objects)
      /\ Guarded({}, {"tmpl", "impl"}, unread_implementation_objects)
  BY GuardedRules, GuardedSteps DEF unread_implementation_objects
<1>6. \A H : Guarded({}, H, Within("actn", Do({"actions"}, {})))
  BY GuardedRules, GuardedSteps
<1>7. Ok(get_object) /\ Ok(test_object) /\ Ok(create_object)
  BY <1>1, <1>2, GuardedRules DEF get_object, test_object, create_object
<1>8. Ok(is_writable) /\ Ok(get_includes) /\ Ok(get_versions)
  BY GuardedRules, GuardedSteps DEF is_writable, get_includes, get_versions
<1>9. Ok(get_class_info) /\ Ok(is_valid)
  BY GuardedRules, GuardedSteps DEF get_class_info, is_valid
<1>10. Ok(cast)
  <2>1. Guarded({}, {"tmpl"}, Do({"hierarchy"}, {}))
    BY GuardedSteps
  <2>2. \A q \in CacheMake : Guarded({}, {"tmpl"}, Within("obj", q))
    BY <1>3, GuardedRules
  <2>3. \A q \in CacheMake :
          Guarded({}, {}, Within("tmpl", Do({"hierarchy"}, {}) \o Within("obj", q)))
    BY <2>1, <2>2, GuardedRules
  <2> QED
    BY <2>1, <2>3, GuardedRules DEF cast
<1>11. Ok(cast_object)
  <2>1. Guarded({}, {"tmpl"}, Do({"hierarchy"}, {})) /\ Guarded({}, {"tmpl"}, Do({}, {}))
        /\ Guarded({}, {"tmpl"}, Do({}, {"tmplObjects"}))
    BY GuardedSteps
  <2>2. \A q \in { Do({}, {"tmplObjects"}),
                   Do({}, {"tmplObjects"}) \o Within("child", Do({}, {})) } :
          Guarded({}, {"tmpl"}, Within("obj", q))
    BY <2>1, GuardedRules
  <2>3. \A q : Guarded({}, {"tmpl"}, Within("obj", q)) =>
          Guarded({}, {}, Within("dal",
            Within("tmpl", Do({"hierarchy"}, {}) \o Within("obj", q))))
    BY <2>1, GuardedRules
  <2> QED
    BY <2>2, <2>3 DEF cast_object
<1>12. Ok(full_name)
  BY GuardedRules, GuardedSteps DEF full_name
<1>13. Ok(destroy_obj)
  BY <1>4, GuardedRules, GuardedSteps DEF destroy_obj
<1>14. Ok(rename_object)
  <2>1. Guarded({}, {"tmpl", "impl"}, Do({"hierarchy"}, {"plugin", "implObjects"}))
    BY GuardedSteps
  <2>2. \A q \in CacheMake : Guarded({}, {}, Within("tmpl", Within("impl",
          Within("obj", Do({"hierarchy"}, {"plugin", "implObjects"}) \o q))))
    BY <1>3, <2>1, GuardedRules
  <2> QED
    BY <1>6, <2>2, GuardedRules DEF rename_object
<1>15. Ok(add_action) /\ Ok(register_converter) /\ Ok(system_pre_cb)
  BY GuardedRules, GuardedSteps DEF add_action, register_converter, system_pre_cb
<1>16. Ok(unread_all_objects)
  BY <1>5, GuardedRules, GuardedSteps DEF unread_all_objects
<1>17. Ok(unload)
  <2>1. Guarded({}, {"tmpl", "impl"}, Within("else", Do({}, {"callbacks", "plugin", "converters"})))
    BY GuardedRules, GuardedSteps
  <2>2. /\ Guarded({}, {"tmpl", "impl"}, Do({}, {"tmplObjects"}))
        /\ Guarded({}, {"tmpl", "impl"}, Do({}, {"hierarchy", "classDesc", "plugin", "implObjects"}))
    BY GuardedSteps
  <2> QED
    BY <1>6, <2>1, <2>2, GuardedRules DEF unload
<1>18. Ok(remove_include) /\ Ok(commit)
  BY GuardedRules, GuardedSteps DEF remove_include, commit
<1>19. Ok(prefetch_all_data)
  BY <1>1, GuardedRules DEF prefetch_all_data
<1>20. Ok(abort)
  <2>1. /\ Guarded({}, {"tmpl", "impl"}, Do({}, {"plugin", "implObjects"}))
        /\ Guarded({}, {"tmpl", "impl"}, Do({"plugin", "tmplObjects"}, {"hierarchy"}))
    BY GuardedSteps
  <2> QED
    BY <1>5, <2>1, GuardedRules DEF abort
<1>21. ASSUME NEW q \in get_object \cup add_action
       PROVE  Guarded({}, {}, Within("impl", Within("actn", Do({"actions"}, {}) \o q)))
  <2>1. Guarded({}, {}, q)
    BY <1>7, <1>15
  <2>2. Guarded({}, {"actn"}, q)
    BY <2>1, GuardedMore
  <2>3. Guarded({}, {"actn"}, Do({"actions"}, {}))
    BY GuardedSteps
  <2>4. Guarded({}, {}, Within("actn", Do({"actions"}, {}) \o q))
    BY <2>2, <2>3, GuardedRules
  <2> QED
    BY <2>4, GuardedRules
<1>22. Ok(action_calls)
  BY <1>21 DEF action_calls
<1>23. Ok(PathsOf[o])
  BY <1>7, <1>8, <1>9, <1>10, <1>11, <1>12, <1>13, <1>14, <1>15, <1>16, <1>17, <1>18, <1>19,
     <1>20, <1>22 DEF PathsOf
<1> QED
  BY <1>23

\* The methods that read values or initialise template objects.
LEMMA GuardedReading ==
  ASSUME NEW o \in ReadingObjects, NEW p \in PathsOf[o]
  PROVE  /\ Guarded(ReadFreely \cup {"hierarchy"}, {}, p)
         /\ o \notin {"get_attribute", "export_data", "get_rel_objects"} =>
              Guarded(ReadFreely, {}, p)
<1> DEFINE X == ReadFreely \cup {"hierarchy"}
           Ok(P) == \A q \in P : Guarded(ReadFreely, {}, q)
<1> USE DEF Data, Locks
<1>1. \A q : Uses(ReadSet, WriteSet, q) => Guarded(ReadFreely, {}, Within("tmpl", q))
  BY SharedGuarded, GuardedRules
<1>2. /\ Uses(ReadSet, WriteSet, PluginGet)
      /\ Uses(ReadSet, WriteSet, ObjectGet)
      /\ Uses(ReadSet, WriteSet, Do({"hierarchy"}, {}))
      /\ Uses(ReadSet, WriteSet, Do({}, {"tmplObjects"}))
      /\ \A c \in CacheMake \cup Children \cup CacheGet : Uses(ReadSet, WriteSet, c)
  BY SharedUses, UsesRules DEF ReadSet, WriteSet
<1>3. Ok(get_by_id)
  <2>1. \A c \in CacheGet : Uses(ReadSet, WriteSet, Do({}, {"tmplObjects"}) \o PluginGet \o c)
    BY <1>2, UsesRules
  <2> QED
    BY <1>1, <1>2, <2>1 DEF get_by_id
<1>4. Ok(get_all)
  <2>1. \A c \in CacheGet : Uses(ReadSet, WriteSet, Within("impl", PluginGet) \o c)
    BY <1>2, UsesRules
  <2> QED
    BY <1>1, <2>1 DEF get_all
<1>5. Ok(create_template)
  <2>1. Guarded(ReadFreely, {"tmpl"}, Within("impl", PluginCreate))
    <3>1. Guarded(ReadFreely, {"impl"}, PluginCreate)
      BY GuardedSteps DEF PluginCreate
    <3> QED
      BY <3>1, GuardedRules
  <2>2. \A c \in CacheGet : Guarded(ReadFreely, {"tmpl"}, c)
    BY <1>2, SharedGuarded
  <2>3. \A c \in CacheGet : Guarded(ReadFreely, {}, Within("tmpl", Within("impl", PluginCreate) \o c))
    BY <2>1, <2>2, GuardedRules
  <2>4. Guarded(ReadFreely, {}, Within("dal", Do({}, {}))) /\ Guarded(ReadFreely, {}, Do({"plugin"}, {}))
    BY GuardedRules, GuardedSteps DEF ReadFreely
  <2>5. Guarded(ReadFreely, {}, Within("dal", Do({}, {})) \o Do({"plugin"}, {}))
    BY <2>4, GuardedRules
  <2>6. \A c \in CacheGet : Guarded(ReadFreely, {}, Within("dal", Do({}, {})) \o Do({"plugin"}, {})
                                                    \o Within("tmpl", Within("impl", PluginCreate) \o c))
    BY <2>3, <2>5, GuardedRules
  <2> QED
    BY <2>3, <2>6 DEF create_template
<1>6. Ok(get_by_object) /\ Ok(ref) /\ Ok(check_init)
  <2>1. \A c \in CacheGet : Uses(ReadSet, WriteSet, ObjectGet \o c)
    BY <1>2, UsesRules
  <2>2. \A c \in Children : Uses(ReadSet, WriteSet, ObjectGet \o c)
    BY <1>2, UsesRules
  <2> QED
    BY <1>1, <1>2, <2>1, <2>2 DEF get_by_object, ref, check_init
<1>7. Ok(referenced_by)
  <2>1. \A c \in CacheGet : Uses(ReadSet, WriteSet, PluginGet \o Do({"hierarchy"}, {}) \o c)
    BY <1>2, UsesRules
  <2> QED
    BY <1>1, <2>1 DEF referenced_by
<1>8. \A q : Guarded(ReadFreely, {}, q) => Guarded(X, {}, q)
  BY GuardedLess
<1>9. Guarded(X, {}, ObjectGet)
  <2>1. Guarded(X, {}, PluginGet) /\ Guarded(X, {}, Do({"converters"}, {}))
    BY GuardedSteps DEF PluginGet, ReadFreely
  <2> QED
    BY <2>1, GuardedRules DEF ObjectGet
<1>10. \A q \in get_attribute : Guarded(X, {}, q)
  BY <1>9 DEF get_attribute
<1>11. \A q \in get_rel_objects : Guarded(X, {}, q)
  <2>1. \A c \in CacheMake : Uses(ReadSet, WriteSet, Do({"hierarchy"}, {}) \o c)
    BY <1>2, UsesRules
  <2>2. \A c \in CacheMake : Guarded(X, {}, Within("tmpl", Do({"hierarchy"}, {}) \o c))
    BY <1>1, <1>8, <2>1
  <2> HIDE DEF X
  <2> QED
    BY <1>9, <2>2, GuardedRules DEF get_rel_objects
<1>12. \A q \in export_data : Guarded(X, {}, q)
  <2>1. \A c \in get_class_info : Guarded(X, {}, c)
    BY GuardedRules, GuardedSteps DEF get_class_info
  <2>2. Guarded(X, {}, Do({"hierarchy"}, {}))
    BY GuardedSteps
  <2>3. Guarded(X, {"impl"}, PluginGet)
    BY GuardedSteps DEF PluginGet
  <2> HIDE DEF X
  <2>4. \A c \in get_class_info : Guarded(X, {}, Do({"hierarchy"}, {}) \o c)
    BY <2>1, <2>2, GuardedRules
  <2>5. \A g \in get_object : Guarded(X, {}, g)
    BY <2>3, GuardedRules DEF get_object
  <2>6. \A c \in export_schema, g \in get_object : Guarded(X, {}, c \o g)
    BY <2>4, <2>5, GuardedRules DEF export_schema
  <2>7. \A c \in export_schema, g \in get_object : Guarded(X, {}, c \o g \o ObjectGet)
    BY <1>9, <2>6, GuardedRules
  <2> TAKE q \in export_data
  <2>8. PICK c \in export_schema, g \in get_object : q = c \o g \o ObjectGet
    BY DEF export_data
  <2> QED
    BY <2>7, <2>8
<1> HIDE DEF X
<1>13. o \in {"get_attribute", "export_data", "get_rel_objects"} => Guarded(X, {}, p)
  BY <1>10, <1>11, <1>12 DEF PathsOf
<1>14. o \notin {"get_attribute", "export_data", "get_rel_objects"} => Guarded(ReadFreely, {}, p)
  BY <1>3, <1>4, <1>5, <1>6, <1>7 DEF PathsOf, ReadingObjects
<1> QED
  BY <1>8, <1>13, <1>14 DEF X

\* The others, but for the data they are listed for.
LEMMA GuardedOtherwise ==
  ASSUME NEW o \in DOMAIN PathsOf, NEW p \in PathsOf[o]
  PROVE  /\ o \in {"try_cast", "export_schema", "load", "add_include"} =>
              Guarded({"hierarchy"}, {}, p)
         /\ o = "get_algo_objects" => Guarded({"hierarchy", "tmplObjects"}, {}, p)
         /\ o = "print_profiling_info" => Guarded({"tmplObjects"}, {}, p)
         /\ o \in {"set_attribute", "set_object", "subscribe", "loaded"} =>
              Guarded({"plugin"}, {}, p)
         /\ o = "find_callback" => Guarded({"callbacks"}, {}, p)
         /\ o = "callback_subscribes" => Guarded({"callbacks", "plugin"}, {}, p)
         /\ o = "system_cb" => Guarded({"callbacks", "plugin", "implObjects"}, {}, p)
<1> DEFINE Ok(X, P) == \A q \in P : Guarded(X, {}, q)
<1> USE DEF Data, Locks
<1>1. \A X, H : Guarded(X, H, Within("actn", Do({"actions"}, {})))
  BY GuardedRules, GuardedSteps
<1>2. Ok({"hierarchy"}, try_cast) /\ Ok({"hierarchy"}, export_schema)
  <2>1. Guarded({"hierarchy"}, {}, Do({"hierarchy"}, {}))
    BY GuardedSteps
  <2>2. Ok({"hierarchy"}, get_class_info)
    BY GuardedRules, GuardedSteps DEF get_class_info
  <2>3. \A c \in get_class_info : Guarded({"hierarchy"}, {}, Do({"hierarchy"}, {}) \o c)
    BY <2>1, <2>2, GuardedRules
  <2> QED
    BY <2>1, <2>3 DEF try_cast, export_schema
<1>3. Ok({"hierarchy"}, load) /\ Ok({"hierarchy"}, add_include)
  <2>1. Guarded({"hierarchy"}, {"impl"}, Do({}, {"plugin", "implObjects", "hierarchy"}))
    BY GuardedSteps
  <2> QED
    BY <1>1, <2>1, GuardedRules DEF load, add_include
<1>4. Ok({"hierarchy", "tmplObjects"}, get_algo_objects)
  <2> DEFINE X == {"hierarchy", "tmplObjects"}
  <2>1. Guarded(X, {}, Do({"hierarchy"}, {})) /\ \A q \in CacheMake : Guarded(X, {}, q)
    BY GuardedRules, GuardedSteps DEF CacheMake
  <2> HIDE DEF X
  <2>2. \A q \in CacheMake : Guarded(X, {}, Do({"hierarchy"}, {}) \o q)
    BY <2>1, GuardedRules
  <2> QED
    BY <2>2 DEF get_algo_objects, X
<1>5. Ok({"tmplObjects"}, print_profiling_info)
  BY GuardedRules, GuardedSteps DEF print_profiling_info
<1>6. Guarded({"plugin"}, {}, Do({}, {"plugin"})) /\ Guarded({"plugin"}, {}, Do({"plugin"}, {}))
  BY GuardedSteps
<1>7. Guarded({"plugin"}, {}, Do({}, {"plugin"}) \o Within("actn", Do({"actions"}, {})))
  BY <1>1, <1>6, GuardedRules
<1>8. Ok({"plugin"}, set_attribute) /\ Ok({"plugin"}, loaded)
  BY <1>6, <1>7 DEF set_attribute, loaded
<1>9. Ok({"plugin"}, set_object)
  <2>1. \A m \in Locks : Guarded({"plugin"}, {}, Within(m, Do({}, {})))
    BY GuardedRules, GuardedSteps
  <2>2. \A m, n \in Locks : Guarded({"plugin"}, {}, Within(n, Within(m, Do({}, {}))
          \o Do({}, {"plugin"}) \o Within("actn", Do({"actions"}, {}))))
    <3> TAKE m \in Locks, n \in Locks
    <3>1. Guarded({"plugin"}, {}, Within(m, Do({}, {})) \o Do({}, {"plugin"}))
      BY <1>6, <2>1, GuardedRules
    <3>2. Guarded({"plugin"}, {}, Within(m, Do({}, {})) \o Do({}, {"plugin"})
            \o Within("actn", Do({"actions"}, {})))
      BY <1>1, <3>1, GuardedRules
    <3>3. Guarded({"plugin"}, {}, Within(m, Do({}, {}))
            \o (Do({}, {"plugin"}) \o Within("actn", Do({"actions"}, {}))))
      BY <1>7, <2>1, GuardedRules
    <3> QED
      BY <3>2, GuardedRules
  <2>3. \A m, n \in Locks : Guarded({"plugin"}, {}, Within(n, Within(m, Do({}, {}))
          \o (Do({}, {"plugin"}) \o Within("actn", Do({"actions"}, {})))))
    BY <1>7, <2>1, GuardedRules
  <2>4. Guarded({"plugin"}, {}, Within("dal", Do({}, {"plugin"}) \o Within("actn", Do({"actions"}, {}))))
    BY <1>7, GuardedRules
  <2> QED
    BY <2>3, <2>4 DEF set_object
<1>10. Ok({"plugin"}, subscribe)
  <2>1. /\ Guarded({"plugin"}, {"else"}, Do({}, {"callbacks"}))
        /\ Guarded({"plugin"}, {"else"}, Do({"callbacks"}, {"plugin"}))
    BY GuardedSteps
  <2> QED
    BY <2>1, GuardedRules DEF subscribe
<1>11. Ok({"callbacks"}, find_callback)
  BY GuardedSteps DEF find_callback
<1>12. Guarded({"callbacks"}, {}, notify_and_update)
  <2>1. Guarded({"callbacks"}, {"tmpl", "impl"}, update_cache)
    BY GuardedRules, GuardedSteps DEF update_cache
  <2>2. Guarded({"callbacks"}, {}, Within("tmpl", Within("impl", update_cache)))
    BY <2>1, GuardedRules
  <2>3. Guarded({"callbacks"}, {}, Within("impl", Within("actn", Do({"actions"}, {}))))
    BY <1>1, GuardedRules
  <2>4. Guarded({"callbacks"}, {}, Do({"callbacks"}, {}))
    BY GuardedSteps
  <2> QED
    BY <2>2, <2>3, <2>4, GuardedRules DEF notify_and_update
<1>13. Ok({"callbacks", "plugin"}, callback_subscribes)
  <2> DEFINE X == {"callbacks", "plugin"}
  <2>1. Guarded(X, {}, notify_and_update)
    BY <1>12, GuardedLess
  <2>2. \A q \in subscribe : Guarded(X, {}, q)
    BY <1>10, GuardedLess
  <2>3. \A q \in subscribe : Guarded(X, {"else"}, q)
    BY <2>2, GuardedMore
  <2>4. Guarded(X, {"else"}, Do({"callbacks"}, {}))
    BY GuardedSteps
  <2> HIDE DEF X
  <2>5. \A q \in subscribe : Guarded(X, {}, Within("else", Do({"callbacks"}, {}) \o q))
    BY <2>3, <2>4, GuardedRules
  <2>6. \A q \in subscribe :
          Guarded(X, {}, notify_and_update \o Within("else", Do({"callbacks"}, {}) \o q))
    BY <2>1, <2>5, GuardedRules
  <2> QED
    BY <2>6 DEF callback_subscribes, X
<1>14. Ok({"callbacks", "plugin", "implObjects"}, system_cb)
  <2> DEFINE X == {"callbacks", "plugin", "implObjects"}
  <2>1. Guarded(X, {}, notify_and_update)
    BY <1>12, GuardedLess
  <2>2. Guarded(X, {"else"}, Do({"callbacks"}, {})) /\ Guarded(X, {"else"}, Do({}, {}))
    BY GuardedSteps
  <2>3. \A g \in get_object : Guarded(X, {"else"}, g)
    <3>1. Guarded(X, {"impl"}, PluginGet)
      BY GuardedSteps DEF PluginGet
    <3> QED
      BY <3>1, GuardedRules DEF get_object
  <2>4. \A g \in get_all : Guarded(X, {"else"}, g)
    <3>1. \A c \in CacheGet : Uses(ReadSet, WriteSet, Within("impl", PluginGet) \o c)
      BY SharedUses, UsesRules
    <3>2. \A c \in CacheGet : Guarded({"plugin", "implObjects"}, {"tmpl", "else"},
                                      Within("impl", PluginGet) \o c)
      BY <3>1, SharedGuarded
    <3>3. \A c \in CacheGet : Guarded(X, {"tmpl", "else"}, Within("impl", PluginGet) \o c)
      BY <3>2, GuardedLess
    <3> HIDE DEF X
    <3>4. \A c \in CacheGet : Guarded(X, {"else"}, Within("tmpl", Within("impl", PluginGet) \o c))
      BY <3>3, GuardedRules
    <3> QED
      BY <3>4 DEF get_all
  <2> HIDE DEF X
  <2>5. \A c \in run_callbacks : Guarded(X, {}, c)
    BY <2>2, <2>3, <2>4, GuardedRules DEF run_callbacks
  <2>6. \A c \in run_callbacks : Guarded(X, {}, notify_and_update \o c)
    BY <2>1, <2>5, GuardedRules
  <2> QED
    BY <2>1, <2>6 DEF system_cb, X
<1> QED
  BY <1>2, <1>3, <1>4, <1>5, <1>8, <1>9, <1>10, <1>11, <1>13, <1>14 DEF PathsOf

\* A method that is not listed for a piece of data uses it under its mutexes.
LEMMA GuardedMethods ==
  ASSUME NEW o \in DOMAIN PathsOf, NEW p \in PathsOf[o]
  PROVE  /\ Scoped(p)
         /\ \A d \in Data : o \notin Unguarded[d] => GuardedBy(d, {}, p)
<1> DEFINE few == {"try_cast", "export_schema", "load", "add_include", "get_algo_objects",
                   "print_profiling_info", "set_attribute", "set_object", "subscribe", "loaded",
                   "find_callback", "callback_subscribes", "system_cb"}
<1>1. CASE o \in few
  BY <1>1, GuardedOtherwise DEF Guarded, Unguarded, Data
<1>2. CASE o \in ReadingObjects
  <2>1. CASE o \in {"get_attribute", "export_data", "get_rel_objects"}
    BY <1>2, <2>1, GuardedReading DEF Guarded, Unguarded, Data, ReadFreely
  <2>2. CASE o \notin {"get_attribute", "export_data", "get_rel_objects"}
    BY <1>2, <2>2, GuardedReading DEF Guarded, Unguarded, Data, ReadFreely
  <2> QED
    BY <2>1, <2>2
<1>3. CASE o \notin few \cup ReadingObjects
  <2>1. o \in {"get_object", "test_object", "create_object", "is_writable", "get_includes",
               "get_versions", "get_class_info", "is_valid", "cast", "cast_object",
               "full_name", "destroy_obj", "rename_object", "add_action",
               "unread_all_objects", "unload", "remove_include", "commit",
               "prefetch_all_data", "abort", "register_converter", "system_pre_cb",
               "action_calls"}
    BY <1>3 DEF PathsOf, ReadingObjects
  <2> QED
    BY <2>1, GuardedThroughout DEF Guarded
<1> QED
  BY <1>1, <1>2, <1>3

-----------------------------------------------------------------------------
\* From one use of d to another, p holds some mutex of d all the time.
Steady(d, p) ==
  \A j, k, l \in 1 .. Len(p) :
    /\ j <= k /\ k <= l /\ j < l
    /\ d \in p[j].reads \cup p[j].writes
    /\ d \in p[l].reads \cup p[l].writes
    => Guards[d] \cap p[k].holds # {}

\* p is well nested, uses data of S only, and uses all data outside of X steadily
Unbroken(X, S, p) == Uses(S, S, p) /\ \A d \in Data \ X : Steady(d, p)

\* Code that takes no mutex is one region.
LEMMA DoUnbroken ==
  ASSUME NEW r \in SUBSET Data, NEW w \in SUBSET Data
  PROVE  Unbroken({}, r \cup w, Do(r, w))
<1> DEFINE s == Do(r, w)
<1>1. IsDo(s, r, w) /\ Uses(r \cup w, r \cup w, s)
  BY DoShape, DoUses
<1> HIDE DEF s
<1>2. \A d : Steady(d, s)
  BY <1>1 DEF Steady, IsDo
<1>3. Unbroken({}, r \cup w, s)
  BY <1>1, <1>2 DEF Unbroken
<1> QED
  BY <1>3 DEF s

\* Unbroken code one after the other is unbroken but for what both parts use.
LEMMA ThenUnbroken ==
  ASSUME NEW X, NEW S, NEW T, NEW p, NEW q, Unbroken(X, S, p), Unbroken(X, T, q),
         S \cap T \subseteq X
  PROVE  Unbroken(X, S \cup T, p \o q)
<1> DEFINE s == p \o q
<1>1. /\ p \in Seq(Region) /\ q \in Seq(Region)
      /\ Uses(S, S, p) /\ Uses(T, T, q)
  BY DEF Unbroken, Uses, Scoped
<1>2. Uses(S \cup T, S \cup T, p) /\ Uses(S \cup T, S \cup T, q)
  BY <1>1 DEF Uses
<1>3. IsThen(s, p, q) /\ Uses(S \cup T, S \cup T, s)
  BY <1>1, <1>2, ThenShape, ThenUses
<1> HIDE DEF s
<1>4. ASSUME NEW d \in Data \ X, NEW j \in 1 .. Len(s), NEW k \in 1 .. Len(s), NEW l \in 1 .. Len(s),
             j <= k, k <= l, j < l,
             d \in s[j].reads \cup s[j].writes,
             d \in s[l].reads \cup s[l].writes
      PROVE  Guards[d] \cap s[k].holds # {}
  <2>1. Len(p) \in Nat /\ Len(q) \in Nat /\ Len(s) = Len(p) + Len(q)
    BY <1>1, <1>3 DEF IsThen
  <2>2. CASE l \in 1 .. Len(p)
    <3>1. j \in 1 .. Len(p) /\ k \in 1 .. Len(p)
      BY <1>4, <2>1, <2>2
    <3>2. s[j] = p[j] /\ s[k] = p[k] /\ s[l] = p[l]
      BY <1>3, <2>2, <3>1 DEF IsThen
    <3> QED
      BY <1>4, <2>2, <3>1, <3>2 DEF Unbroken, Steady
  <2>3. CASE l \notin 1 .. Len(p) /\ j \in 1 .. Len(p)
    <3>1. PICK b \in 1 .. Len(q) : l = Len(p) + b
      BY <1>1, <1>3, <2>3, ThenIndex
    <3>2. s[j] = p[j] /\ s[l] = q[b]
      BY <1>3, <2>3, <3>1 DEF IsThen
    <3>3. d \in S /\ d \in T
      BY <1>1, <1>4, <2>3, <3>2 DEF Uses
    <3> QED
      BY <3>3
  <2>4. CASE j \notin 1 .. Len(p)
    <3>1. k \notin 1 .. Len(p) /\ l \notin 1 .. Len(p)
      BY <1>4, <2>1, <2>4
    <3>2. PICK a \in 1 .. Len(q) : j = Len(p) + a
      BY <1>1, <1>3, <2>4, ThenIndex
    <3>3. PICK b \in 1 .. Len(q) : k = Len(p) + b
      BY <1>1, <1>3, <3>1, ThenIndex
    <3>4. PICK c \in 1 .. Len(q) : l = Len(p) + c
      BY <1>1, <1>3, <3>1, ThenIndex
    <3>5. s[j] = q[a] /\ s[k] = q[b] /\ s[l] = q[c]
      BY <1>3, <3>2, <3>3, <3>4 DEF IsThen
    <3>6. a <= b /\ b <= c /\ a < c
      BY <1>4, <2>1, <3>2, <3>3, <3>4
    <3> QED
      BY <1>4, <3>5, <3>6 DEF Unbroken, Steady
  <2> QED
    BY <2>2, <2>3, <2>4
<1>5. \A d \in Data \ X : Steady(d, s)
  BY <1>4 DEF Steady
<1>6. Unbroken(X, S \cup T, s)
  BY <1>3, <1>5 DEF Unbroken
<1> QED
  BY <1>6 DEF s

\* A scope on m holds m from the first use of a piece of data in it to the last: it is
\* unbroken but for less, by all that m is a mutex of.
LEMMA WithinUnbroken ==
  ASSUME NEW X, NEW S, NEW Y, NEW m \in Locks, NEW p, Unbroken(Y, S, p),
         \A d \in (Data \ X) \cap Y : m \in Guards[d]
  PROVE  Unbroken(X, S, Within(m, p))
<1> DEFINE s == Within(m, p)
<1>1. p \in Seq(Region) /\ Uses(S, S, p)
  BY DEF Unbroken, Uses, Scoped
<1>2. IsWithin(s, m, p) /\ Uses(S, S, s)
  BY <1>1, WithinShape, WithinUses
<1> HIDE DEF s
<1>3. ASSUME NEW d \in Data \ X, NEW j \in 1 .. Len(s), NEW k \in 1 .. Len(s), NEW l \in 1 .. Len(s),
             j <= k, k <= l, j < l,
             d \in s[j].reads \cup s[j].writes,
             d \in s[l].reads \cup s[l].writes
      PROVE  Guards[d] \cap s[k].holds # {}
  <2>1. Len(p) \in Nat /\ Len(s) = Len(p) + 2
    BY <1>1, <1>2 DEF IsWithin
  <2>2. j # 1 /\ l # 1 /\ j # Len(p) + 2 /\ l # Len(p) + 2
    BY <1>2, <1>3 DEF IsWithin
  <2>3. PICK a \in 1 .. Len(p) : j = a + 1
    BY <1>1, <1>2, <2>2, WithinIndex
  <2>4. PICK c \in 1 .. Len(p) : l = c + 1
    BY <1>1, <1>2, <2>2, WithinIndex
  <2>5. k # 1 /\ k # Len(p) + 2
    BY <1>3, <2>1, <2>2
  <2>6. PICK b \in 1 .. Len(p) : k = b + 1
    BY <1>1, <1>2, <2>5, WithinIndex
  <2>7. /\ s[k].holds = p[b].holds \cup {m}
        /\ s[j].reads = p[a].reads /\ s[j].writes = p[a].writes
        /\ s[l].reads = p[c].reads /\ s[l].writes = p[c].writes
    BY <1>2, <2>3, <2>4, <2>6 DEF IsWithin
  <2>8. CASE d \in Y
    BY <2>7, <2>8
  <2>9. CASE d \notin Y
    <3>1. a <= b /\ b <= c /\ a < c
      BY <1>3, <2>3, <2>4, <2>6
    <3>2. Guards[d] \cap p[b].holds # {}
      BY <1>3, <2>7, <2>9, <3>1 DEF Unbroken, Steady
    <3> QED
      BY <2>7, <3>2
  <2> QED
    BY <2>8, <2>9
<1>4. \A d \in Data \ X : Steady(d, s)
  BY <1>3 DEF Steady
<1>5. Unbroken(X, S, s)
  BY <1>2, <1>4 DEF Unbroken
<1> QED
  BY <1>5 DEF s

\* Code is unbroken but for all it uses.
LEMMA UsesUnbroken ==
  ASSUME NEW R, NEW W, NEW p, Uses(R, W, p)
  PROVE  \A S : R \cup W \subseteq S => Unbroken(S, S, p)
<1> TAKE S
<1> HAVE R \cup W \subseteq S
<1>1. Uses(S, S, p)
  BY DEF Uses
<1>2. ASSUME NEW d \in Data \ S
      PROVE  Steady(d, p)
  BY <1>1 DEF Steady, Uses
<1> QED
  BY <1>1, <1>2 DEF Unbroken

\* What is unbroken but for X is unbroken but for more.
LEMMA UnbrokenLess ==
  ASSUME NEW X, NEW S, NEW p, Unbroken(X, S, p)
  PROVE  \A Y, T : X \subseteq Y /\ S \subseteq T => Unbroken(Y, T, p)
BY DEF Unbroken, Uses

\* the rules for the mutexes that matter
LEMMA UnbrokenRules ==
  ASSUME NEW X, NEW S
  PROVE  /\ \A r, w \in SUBSET Data : r \cup w \subseteq S => Unbroken(X, S, Do(r, w))
         /\ \A p : Unbroken(X, S, p) => \A m \in Locks : Unbroken(X, S, Within(m, p))
         /\ \A p : Unbroken(X \cup {"tmplObjects", "hierarchy"}, S, p)
              => Unbroken(X, S, Within("tmpl", p))
         /\ \A p : Unbroken(X \cup {"plugin", "implObjects", "hierarchy", "classDesc"}, S, p)
              => Unbroken(X, S, Within("impl", p))
         /\ \A p : Unbroken(X \cup {"plugin", "implObjects", "hierarchy", "classDesc",
                                    "tmplObjects"}, S, p)
              => /\ Unbroken(X, S, Within("tmpl", Within("impl", p)))
                 /\ Unbroken(X, S, Within("impl", Within("tmpl", p)))
         /\ \A p : Unbroken(X \cup {"actions"}, S, p) => Unbroken(X, S, Within("actn", p))
         /\ \A p : Unbroken(X \cup {"callbacks", "converters"}, S, p)
              => Unbroken(X, S, Within("else", p))
         /\ \A p, q, Q, T : /\ Unbroken(X, Q, p) /\ Unbroken(X, T, q)
                            /\ Q \cap T \subseteq X /\ Q \cup T \subseteq S
                            => Unbroken(X, S, p \o q)
<1>1. /\ Guards["tmplObjects"] = {"tmpl"}
      /\ Guards["plugin"] = {"impl"}
      /\ Guards["implObjects"] = {"impl"}
      /\ Guards["hierarchy"] = {"tmpl", "impl"}
      /\ Guards["classDesc"] = {"impl"}
      /\ Guards["actions"] = {"actn"}
      /\ Guards["callbacks"] = {"else"}
      /\ Guards["converters"] = {"else"}
  BY DEF Guards
<1>2. {"tmpl", "impl", "actn", "else"} \subseteq Locks
  BY DEF Locks
<1>3. \A r, w \in SUBSET Data : r \cup w \subseteq S => Unbroken(X, S, Do(r, w))
  <2> SUFFICES ASSUME NEW r \in SUBSET Data, NEW w \in SUBSET Data, r \cup w \subseteq S
               PROVE  Unbroken(X, S, Do(r, w))
    OBVIOUS
  <2>1. Unbroken({}, r \cup w, Do(r, w))
    BY DoUnbroken
  <2>2. {} \subseteq X
    OBVIOUS
  <2> QED
    BY <2>1, <2>2, UnbrokenLess
<1>4. \A p : Unbroken(X, S, p) => \A m \in Locks : Unbroken(X, S, Within(m, p))
  BY WithinUnbroken
<1>5. \A p, Z : Unbroken(Z \cup {"tmplObjects", "hierarchy"}, S, p)
        => Unbroken(Z, S, Within("tmpl", p))
  BY <1>1, <1>2, WithinUnbroken
<1>6. \A p, Z : Unbroken(Z \cup {"plugin", "implObjects", "hierarchy", "classDesc"}, S, p)
        => Unbroken(Z, S, Within("impl", p))
  BY <1>1, <1>2, WithinUnbroken
<1>7. ASSUME NEW p, Unbroken(X \cup {"plugin", "implObjects", "hierarchy", "classDesc",
                                    "tmplObjects"}, S, p)
      PROVE  /\ Unbroken(X, S, Within("tmpl", Within("impl", p)))
             /\ Unbroken(X, S, Within("impl", Within("tmpl", p)))
  <2>1. /\ X \cup {"plugin", "implObjects", "hierarchy", "classDesc", "tmplObjects"}
           \subseteq (X \cup {"tmplObjects", "hierarchy"})
                        \cup {"plugin", "implObjects", "hierarchy", "classDesc"}
        /\ X \cup {"plugin", "implObjects", "hierarchy", "classDesc", "tmplObjects"}
           \subseteq (X \cup {"plugin", "implObjects", "hierarchy", "classDesc"})
                        \cup {"tmplObjects", "hierarchy"}
    OBVIOUS
  <2>2. /\ Unbroken((X \cup {"tmplObjects", "hierarchy"})
                      \cup {"plugin", "implObjects", "hierarchy", "classDesc"}, S, p)
        /\ Unbroken((X \cup {"plugin", "implObjects", "hierarchy", "classDesc"})
                      \cup {"tmplObjects", "hierarchy"}, S, p)
    BY <1>7, <2>1, UnbrokenLess
  <2>3. /\ Unbroken(X \cup {"tmplObjects", "hierarchy"}, S, Within("impl", p))
        /\ Unbroken(X \cup {"plugin", "implObjects", "hierarchy", "classDesc"}, S,
                    Within("tmpl", p))
    BY <1>5, <1>6, <2>2
  <2> QED
    BY <1>5, <1>6, <2>3
<1>8. \A p : Unbroken(X \cup {"actions"}, S, p) => Unbroken(X, S, Within("actn", p))
  BY <1>1, <1>2, WithinUnbroken
<1>9. \A p : Unbroken(X \cup {"callbacks", "converters"}, S, p)
        => Unbroken(X, S, Within("else", p))
  BY <1>1, <1>2, WithinUnbroken
<1>10. \A p, q, Q, T : /\ Unbroken(X, Q, p) /\ Unbroken(X, T, q)
                       /\ Q \cap T \subseteq X /\ Q \cup T \subseteq S
                       => Unbroken(X, S, p \o q)
  BY ThenUnbroken, UnbrokenLess
<1> QED
  BY <1>3, <1>4, <1>5, <1>6, <1>7, <1>8, <1>9, <1>10

\* The methods use every piece of data steadily but for those they are listed for.
LEMMA UnbrokenThroughout ==
  ASSUME NEW o \in {"get_object", "test_object", "create_object", "is_writable", "get_includes",
                    "get_versions", "get_class_info", "is_valid", "cast", "cast_object",
                    "full_name", "destroy_obj", "rename_object", "add_action",
                    "unread_all_objects", "unload", "remove_include", "commit",
                    "prefetch_all_data", "abort", "register_converter", "system_pre_cb",
                    "action_calls", "loaded", "try_cast", "find_callback", "subscribe",
                    "set_attribute", "set_object", "load", "add_include",
                    "print_profiling_info"},
         NEW p \in PathsOf[o]
  PROVE  Unbroken({}, Data, p)
<1> DEFINE Ok(P) == \A q \in P : Unbroken({}, Data, q)
           Two == {"hierarchy", "implObjects", "tmplObjects", "plugin"}
<1>1. \A r, w \in SUBSET Data : Unbroken({}, Data, Do(r, w))
  BY UnbrokenRules
<1>2. \A m \in Locks : \A r, w \in SUBSET Data : Unbroken({}, Data, Within(m, Do(r, w)))
  BY <1>1, UnbrokenRules
<1>3. /\ Ok(get_object) /\ Ok(test_object) /\ Ok(create_object)
      /\ Ok(is_writable) /\ Ok(get_includes) /\ Ok(get_versions)
  BY <1>2 DEF get_object, test_object, create_object, PluginGet, PluginCreate, is_writable,
              get_includes, get_versions, Data, Locks
<1>4. /\ Ok(get_class_info) /\ Ok(is_valid) /\ Ok(full_name) /\ Ok(add_action)
      /\ Ok(register_converter) /\ Ok(system_pre_cb)
  BY <1>2 DEF get_class_info, is_valid, full_name, add_action, register_converter,
              system_pre_cb, Data, Locks
<1>5. Ok(loaded) /\ Ok(try_cast) /\ Ok(find_callback)
  BY <1>1 DEF loaded, try_cast, find_callback, Data
<1>6. /\ Ok(prefetch_all_data) /\ Ok(commit) /\ Ok(remove_include)
      /\ Ok(add_include) /\ Ok(print_profiling_info)
  <2>1. \A m, n \in Locks : \A r, w \in SUBSET Data :
          Unbroken({}, Data, Within(m, Within(n, Do(r, w))))
    BY <1>2, UnbrokenRules
  <2>2. Ok(prefetch_all_data) /\ Ok(commit) /\ Ok(remove_include)
    BY <2>1 DEF prefetch_all_data, PluginGet, commit, remove_include, Data, Locks
  <2>3. Ok(add_include) /\ Ok(print_profiling_info)
    BY <1>2 DEF add_include, print_profiling_info, Data, Locks
  <2> QED
    BY <2>2, <2>3
\* code that uses data of m_tmpl_mutex, or of it and m_impl_mutex, inside their scopes
<1>7. ASSUME NEW q, Uses({"hierarchy"}, {"tmplObjects"}, q)
      PROVE  Unbroken({}, Data, Within("tmpl", q))
  <2>1. Unbroken({"hierarchy", "tmplObjects"}, {"hierarchy", "tmplObjects"}, q)
    BY <1>7, UsesUnbroken
  <2>2. {"hierarchy", "tmplObjects"} \subseteq {} \cup {"tmplObjects", "hierarchy"}
        /\ {"hierarchy", "tmplObjects"} \subseteq Data
    BY DEF Data
  <2>3. Unbroken({} \cup {"tmplObjects", "hierarchy"}, Data, q)
    BY <2>1, <2>2, UnbrokenLess
  <2> QED
    BY <2>3, UnbrokenRules
<1>8. ASSUME NEW q, Uses(Two, Two, q)
      PROVE  /\ Unbroken({}, Data, Within("tmpl", Within("impl", q)))
             /\ Unbroken({}, Data, Within("impl", Within("tmpl", q)))
  <2>1. Unbroken(Two, Two, q)
    BY <1>8, UsesUnbroken
  <2>2. /\ Two \subseteq {} \cup {"plugin", "implObjects", "hierarchy", "classDesc", "tmplObjects"}
        /\ Two \subseteq Data
    BY DEF Data
  <2> HIDE DEF Two
  <2>3. Unbroken({} \cup {"plugin", "implObjects", "hierarchy", "classDesc", "tmplObjects"}, Data, q)
    BY <2>1, <2>2, UnbrokenLess
  <2> QED
    BY <2>3, UnbrokenRules
<1>9. /\ Uses({"hierarchy"}, {"tmplObjects"}, Do({"hierarchy"}, {}))
      /\ Uses({"hierarchy"}, {"tmplObjects"}, Do({}, {"tmplObjects"}))
      /\ Uses({"hierarchy"}, {"tmplObjects"}, Do({}, {}))
  BY UsesRules DEF Data
<1>10. /\ \A q \in CacheMake : Uses({"hierarchy"}, {"tmplObjects"}, q)
       /\ \A q \in CacheMake : Uses(Two, Two, q)
  <2>1. Uses({"hierarchy"}, {"tmplObjects"}, Within("dal", Do({}, {})))
    BY <1>9, UsesRules DEF Locks
  <2>2. Uses({"hierarchy"}, {"tmplObjects"}, Do({}, {"tmplObjects"}) \o Within("dal", Do({}, {})))
    BY <1>9, <2>1, UsesRules
  <2>3. ASSUME NEW q \in CacheMake
        PROVE  Uses({"hierarchy"}, {"tmplObjects"}, q)
    <3>1. q = Do({}, {"tmplObjects"}) \/ q = Do({}, {"tmplObjects"}) \o Within("dal", Do({}, {}))
      BY DEF CacheMake
    <3> QED
      BY <1>9, <2>2, <3>1
  <2> QED
    BY <2>3 DEF Uses
<1>11. Ok(cast)
  <2>1. ASSUME NEW q \in CacheMake
        PROVE  Unbroken({}, Data, Within("tmpl", Do({"hierarchy"}, {}) \o Within("obj", q)))
    <3>1. Uses({"hierarchy"}, {"tmplObjects"}, Within("obj", q))
      BY <1>10, UsesRules DEF Locks
    <3>2. Uses({"hierarchy"}, {"tmplObjects"}, Do({"hierarchy"}, {}) \o Within("obj", q))
      BY <1>9, <3>1, UsesRules
    <3> QED
      BY <1>7, <3>2
  <2> QED
    BY <1>7, <1>9, <2>1 DEF cast
<1>12. ASSUME NEW q \in cast_object
       PROVE  Unbroken({}, Data, q)
  <2>1. PICK c \in { Do({}, {"tmplObjects"}),
                     Do({}, {"tmplObjects"}) \o Within("child", Do({}, {})) } :
          q = Within("dal", Within("tmpl", Do({"hierarchy"}, {}) \o Within("obj", c)))
    BY <1>12 DEF cast_object
  <2>2. Uses({"hierarchy"}, {"tmplObjects"}, Within("child", Do({}, {})))
    BY <1>9, UsesRules DEF Locks
  <2>3. Uses({"hierarchy"}, {"tmplObjects"}, Do({}, {"tmplObjects"}) \o Within("child", Do({}, {})))
    BY <1>9, <2>2, UsesRules
  <2>4. Uses({"hierarchy"}, {"tmplObjects"}, c)
    <3>1. c = Do({}, {"tmplObjects"}) \/ c = Do({}, {"tmplObjects"}) \o Within("child", Do({}, {}))
      OBVIOUS
    <3> QED
      BY <1>9, <2>3, <3>1
  <2>5. Uses({"hierarchy"}, {"tmplObjects"}, Within("obj", c))
    BY <2>4, UsesRules DEF Locks
  <2>6. Unbroken({}, Data, Within("tmpl", Do({"hierarchy"}, {}) \o Within("obj", c)))
    BY <1>7, <1>9, <2>5, UsesRules
  <2> QED
    BY <2>1, <2>6, UnbrokenRules DEF Locks
<1>13. /\ Uses(Two, Two, Do({}, {"plugin"}))
       /\ Uses(Two, Two, Do({"hierarchy"}, {"plugin", "implObjects"}))
       /\ Uses(Two, Two, Do({}, {"plugin", "implObjects"}))
       /\ Uses(Two, Two, Do({"plugin", "tmplObjects"}, {"hierarchy"}))
       /\ Uses(Two, Two, Within("obj", Do({"hierarchy", "implObjects"}, {})))
       /\ Uses(Two, Two, Within("obj", Do({"implObjects"}, {})))
       /\ Uses(Two, Two, Within("dal", Do({"hierarchy", "tmplObjects"}, {})))
  BY UsesRules DEF Data, Locks
<1> HIDE DEF Two
<1>14. Ok(destroy_obj)
  <2>1. Uses(Two, Two, update_cache)
    BY <1>13, UsesRules DEF update_cache
  <2>2. Uses(Two, Two, Do({}, {"plugin"}) \o update_cache)
    BY <1>13, <2>1, UsesRules
  <2> QED
    BY <1>8, <2>2 DEF destroy_obj
<1>15. Unbroken({}, {"actions"}, Within("actn", Do({"actions"}, {})))
  BY UnbrokenRules DEF Locks, Data
<1>16. ASSUME NEW q \in rename_object
       PROVE  Unbroken({}, Data, q)
  <2> DEFINE inside(c) == Within("obj", Do({"hierarchy"}, {"plugin", "implObjects"}) \o c)
  <2>1. PICK c \in CacheMake :
          q = Within("tmpl", Within("impl", inside(c))) \o Within("actn", Do({"actions"}, {}))
    BY <1>16 DEF rename_object
  <2>2. Uses(Two, Two, Do({"hierarchy"}, {"plugin", "implObjects"}) \o c)
    BY <1>10, <1>13, UsesRules
  <2>3. Uses(Two, Two, inside(c))
    BY <2>2, UsesRules DEF Locks
  <2> HIDE DEF inside
  <2>4. Unbroken({}, Two, Within("tmpl", Within("impl", inside(c))))
    <3>1. Unbroken(Two, Two, inside(c))
      BY <2>3, UsesUnbroken
    <3>2. Two \subseteq {} \cup {"plugin", "implObjects", "hierarchy", "classDesc", "tmplObjects"}
      BY DEF Two
    <3>3. Unbroken({} \cup {"plugin", "implObjects", "hierarchy", "classDesc", "tmplObjects"},
                   Two, inside(c))
      BY <3>1, <3>2, UnbrokenLess
    <3> QED
      BY <3>3, UnbrokenRules
  <2>5. Two \cap {"actions"} \subseteq {} /\ Two \cup {"actions"} \subseteq Data
    BY DEF Two, Data
  <2> QED
    BY <1>15, <2>1, <2>4, <2>5, UnbrokenRules
<1>17. ASSUME NEW q \in unread_all_objects
       PROVE  Unbroken({}, Data, q)
  <2>1. q = Within("impl", unread_implementation_objects)
              \o Within("tmpl", Do({"tmplObjects"}, {}))
    BY <1>17 DEF unread_all_objects
  <2>2. Unbroken({}, {"implObjects"}, Within("impl", unread_implementation_objects))
    BY UnbrokenRules DEF unread_implementation_objects, Locks, Data
  <2>3. Unbroken({}, {"tmplObjects"}, Within("tmpl", Do({"tmplObjects"}, {})))
    BY UnbrokenRules DEF Locks, Data
  <2>4. {"implObjects"} \cap {"tmplObjects"} \subseteq {}
        /\ {"implObjects"} \cup {"tmplObjects"} \subseteq Data
    BY DEF Data
  <2> QED
    BY <2>1, <2>2, <2>3, <2>4, UnbrokenRules
<1>18. Ok(abort)
  <2>1. Uses(Two, Two, unread_implementation_objects)
    BY <1>13 DEF unread_implementation_objects
  <2>2. Uses(Two, Two, Do({}, {"plugin", "implObjects"}) \o unread_implementation_objects)
    BY <1>13, <2>1, UsesRules
  <2>3. Uses(Two, Two, Do({}, {"plugin", "implObjects"}) \o unread_implementation_objects
                         \o Do({"plugin", "tmplObjects"}, {"hierarchy"}))
    BY <1>13, <2>2, UsesRules
  <2> QED
    BY <1>8, <2>3 DEF abort
\* the parts of unload have only the plug-in in common
<1>19. Ok(unload)
  <2> DEFINE a == Within("actn", Do({"actions"}, {}))
             b == Do({}, {"tmplObjects"})
             c == Within("else", Do({}, {"callbacks", "plugin", "converters"}))
             e == Do({}, {"hierarchy", "classDesc", "plugin", "implObjects"})
             A == {"actions"}
             B == {"tmplObjects"}
             C == {"callbacks", "plugin", "converters"}
             E == {"hierarchy", "classDesc", "plugin", "implObjects"}
             X == {} \cup {"plugin", "implObjects", "hierarchy", "classDesc", "tmplObjects"}
  <2>1. /\ Unbroken(X, A, a)
        /\ Unbroken(X, B, b)
        /\ Unbroken(X, C, c)
        /\ Unbroken(X, E, e)
    BY UnbrokenRules DEF Locks, Data
  <2>2. /\ A \cap B \subseteq X
        /\ (A \cup B) \cap C \subseteq X
        /\ (A \cup B \cup C) \cap E \subseteq X
        /\ A \cup B \cup C \cup E \subseteq Data
    BY DEF Data
  <2> HIDE DEF a, b, c, e, A, B, C, E, X
  <2>3. Unbroken(X, A \cup B, a \o b)
    BY <2>1, <2>2, UnbrokenRules
  <2>4. Unbroken(X, A \cup B \cup C, a \o b \o c)
    BY <2>1, <2>2, <2>3, UnbrokenRules
  <2>5. Unbroken(X, Data, a \o b \o c \o e)
    BY <2>1, <2>2, <2>4, UnbrokenRules
  <2>6. Unbroken({}, Data, Within("tmpl", Within("impl", a \o b \o c \o e)))
    BY <2>5, UnbrokenRules DEF X
  <2> QED
    BY <2>6 DEF unload, a, b, c, e
<1>20. ASSUME NEW q \in action_calls
       PROVE  Unbroken({}, Data, q)
  <2>1. PICK c \in get_object \cup add_action :
          q = Within("impl", Within("actn", Do({"actions"}, {}) \o c))
    BY <1>20 DEF action_calls
  <2>2. Unbroken({}, {"actions"}, Do({"actions"}, {}))
    BY UnbrokenRules DEF Data
  <2>3. CASE c \in get_object
    <3>1. Unbroken({}, {"plugin", "hierarchy", "implObjects"}, c)
      BY <2>3, UnbrokenRules DEF get_object, PluginGet, Data, Locks
    <3>2. {"actions"} \cap {"plugin", "hierarchy", "implObjects"} \subseteq {}
          /\ {"actions"} \cup {"plugin", "hierarchy", "implObjects"} \subseteq Data
      BY DEF Data
    <3>3. Unbroken({}, Data, Do({"actions"}, {}) \o c)
      BY <2>2, <3>1, <3>2, UnbrokenRules
    <3> QED
      BY <2>1, <3>3, UnbrokenRules DEF Locks
  <2>4. CASE c \in add_action
    <3>1. {} \subseteq {} \cup {"actions"} /\ {"actions"} \subseteq Data
      BY DEF Data
    <3>2. Unbroken({} \cup {"actions"}, {"actions"}, c)
      BY <2>4, UnbrokenRules DEF add_action, Data, Locks
    <3>3. Unbroken({} \cup {"actions"}, {"actions"}, Do({"actions"}, {}))
      BY <2>2, <3>1, UnbrokenLess
    <3>4. {"actions"} \cap {"actions"} \subseteq {} \cup {"actions"}
          /\ {"actions"} \cup {"actions"} \subseteq Data
      BY DEF Data
    <3>5. Unbroken({} \cup {"actions"}, Data, Do({"actions"}, {}) \o c)
      BY <3>2, <3>3, <3>4, UnbrokenRules
    <3>6. Unbroken({}, Data, Within("actn", Do({"actions"}, {}) \o c))
      BY <3>5, UnbrokenRules
    <3> QED
      BY <2>1, <3>6, UnbrokenRules DEF Locks
  <2> QED
    BY <2>1, <2>3, <2>4
<1>21. Ok(subscribe)
  <2>1. {"callbacks"} \cap {"callbacks", "plugin"} \subseteq {} \cup {"callbacks", "converters"}
        /\ {"callbacks"} \cup {"callbacks", "plugin"} \subseteq Data
    BY DEF Data
  <2>2. /\ Unbroken({} \cup {"callbacks", "converters"}, {"callbacks"}, Do({}, {"callbacks"}))
        /\ Unbroken({} \cup {"callbacks", "converters"}, {"callbacks", "plugin"},
                    Do({"callbacks"}, {"plugin"}))
    BY UnbrokenRules DEF Data
  <2>3. Unbroken({} \cup {"callbacks", "converters"}, Data,
                 Do({}, {"callbacks"}) \o Do({"callbacks"}, {"plugin"}))
    BY <2>1, <2>2, UnbrokenRules
  <2>4. Unbroken({}, Data, Within("else", Do({}, {"callbacks"}) \o Do({"callbacks"}, {"plugin"})))
    BY <2>3, UnbrokenRules
  <2>5. Unbroken({}, Data, Within("else", Do({}, {"callbacks"})))
    BY <1>2 DEF Data, Locks
  <2> QED
    BY <2>4, <2>5 DEF subscribe
\* the plug-in, then the actions
<1>22. Unbroken({}, {"plugin", "actions"}, Do({}, {"plugin"}) \o Within("actn", Do({"actions"}, {})))
  <2>1. Unbroken({}, {"plugin"}, Do({}, {"plugin"}))
    BY UnbrokenRules DEF Data
  <2>2. {"plugin"} \cap {"actions"} \subseteq {}
        /\ {"plugin"} \cup {"actions"} \subseteq {"plugin", "actions"}
    OBVIOUS
  <2> QED
    BY <1>15, <2>1, <2>2, UnbrokenRules
<1>23. {} \subseteq {} /\ {"plugin", "actions"} \subseteq Data
  BY DEF Data
<1>24. Unbroken({}, Data, Do({}, {"plugin"}) \o Within("actn", Do({"actions"}, {})))
  BY <1>22, <1>23, UnbrokenLess
<1>25. ASSUME NEW q \in set_attribute
       PROVE  Unbroken({}, Data, q)
  <2>1. q = Do({}, {"plugin"}) \/ q = Do({}, {"plugin"}) \o Within("actn", Do({"actions"}, {}))
    BY <1>25 DEF set_attribute
  <2>2. Unbroken({}, Data, Do({}, {"plugin"}))
    BY <1>1 DEF Data
  <2> QED
    BY <1>24, <2>1, <2>2
<1>26. ASSUME NEW q \in set_object
       PROVE  Unbroken({}, Data, q)
  <2> DEFINE told == Do({}, {"plugin"}) \o Within("actn", Do({"actions"}, {}))
  <2>1. Unbroken({}, {"plugin", "actions"}, told) /\ Unbroken({}, Data, told)
    BY <1>22, <1>24
  <2> HIDE DEF told
  <2>2. ASSUME NEW m \in Locks, NEW n \in Locks
        PROVE  Unbroken({}, Data, Within(n, Within(m, Do({}, {})) \o told))
    <3>1. Unbroken({}, {}, Within(m, Do({}, {})))
      BY UnbrokenRules
    <3>2. {} \cap {"plugin", "actions"} \subseteq {} /\ {} \cup {"plugin", "actions"} \subseteq Data
      BY DEF Data
    <3>3. Unbroken({}, Data, Within(m, Do({}, {})) \o told)
      BY <2>1, <3>1, <3>2, UnbrokenRules
    <3> QED
      BY <3>3, UnbrokenRules
  <2>3. Unbroken({}, Data, Within("dal", told))
    BY <2>1, UnbrokenRules DEF Locks
  <2>4. q \in { Within("dal", told) }
                \cup { Within("dal", Within(m, Do({}, {})) \o told) : m \in {"dal", "child"} }
                \cup { Within("child", Within("dal", Do({}, {})) \o told) }
    BY <1>26 DEF set_object, told
  <2>5. {"dal", "child"} \subseteq Locks
    BY DEF Locks
  <2> QED
    BY <2>2, <2>3, <2>4, <2>5
<1>27. Ok(load)
  <2>1. Unbroken({}, {"plugin", "implObjects", "hierarchy"},
                 Do({}, {"plugin", "implObjects", "hierarchy"}))
    BY UnbrokenRules DEF Data
  <2>2. {"actions"} \cap {"plugin", "implObjects", "hierarchy"} \subseteq {}
        /\ {"actions"} \cup {"plugin", "implObjects", "hierarchy"} \subseteq Data
    BY DEF Data
  <2>3. Unbroken({}, Data, Within("actn", Do({"actions"}, {}))
                             \o Do({}, {"plugin", "implObjects", "hierarchy"}))
    BY <1>15, <2>1, <2>2, UnbrokenRules
  <2> QED
    BY <2>3, UnbrokenRules DEF load, Locks
<1>28. Ok(PathsOf[o])
  BY <1>3, <1>4, <1>5, <1>6, <1>11, <1>12, <1>14, <1>16, <1>17, <1>18, <1>19, <1>20, <1>21,
     <1>25, <1>26, <1>27 DEF PathsOf
<1> QED
  BY <1>28

\* The methods that read values or initialise template objects.
LEMMA UnbrokenReading ==
  ASSUME NEW o \in ReadingObjects, NEW p \in PathsOf[o]
  PROVE  /\ Unbroken(ReadFreely \cup {"hierarchy"}, Data, p)
         /\ o \notin {"get_attribute", "export_data", "get_rel_objects"} =>
              Unbroken(ReadFreely, Data, p)
<1> DEFINE X == ReadFreely \cup {"hierarchy"}
           All == ReadFreely \cup {"tmplObjects", "hierarchy"}
           Ok(P) == \A q \in P : Unbroken(ReadFreely, Data, q)
<1> USE DEF Locks
<1>1. /\ {"plugin", "hierarchy", "converters", "implObjects", "tmplObjects"} \subseteq All
      /\ All \subseteq Data
      /\ ReadSet \subseteq All /\ WriteSet \subseteq All
  BY DEF ReadFreely, ReadSet, WriteSet, Data
\* whatever uses this much only is unbroken in a scope on m_tmpl_mutex
<1>2. ASSUME NEW q, Uses(All, All, q)
      PROVE  Unbroken(ReadFreely, All, Within("tmpl", q))
  <2>1. Unbroken(All, All, q)
    BY <1>2, UsesUnbroken
  <2> QED
    BY <2>1, UnbrokenRules
<1>3. /\ Uses(All, All, PluginGet)
      /\ Uses(All, All, PluginCreate)
      /\ Uses(All, All, ObjectGet)
      /\ Uses(All, All, Do({"hierarchy"}, {}))
      /\ Uses(All, All, Do({}, {"tmplObjects"}))
      /\ \A c \in CacheMake \cup Children \cup CacheGet : Uses(All, All, c)
  <2>1. Uses(All, All, PluginCreate)
    BY <1>1, UsesRules DEF PluginCreate, Data
  <2>2. Uses(All, All, Do({"hierarchy"}, {})) /\ Uses(All, All, Do({}, {"tmplObjects"}))
    BY <1>1, UsesRules DEF Data
  <2> QED
    BY <1>1, <2>1, <2>2, SharedUses
<1> HIDE DEF All
<1>4. \A q : Unbroken(ReadFreely, All, q) => Unbroken(ReadFreely, Data, q)
  BY <1>1, UnbrokenLess
<1>5. \A q : Uses(All, All, q) => Unbroken(ReadFreely, Data, Within("tmpl", q))
  BY <1>2, <1>4
<1>6. Ok(get_by_id)
  <2>1. \A c \in CacheGet : Uses(All, All, Do({}, {"tmplObjects"}) \o PluginGet \o c)
    BY <1>3, UsesRules
  <2> QED
    BY <1>3, <1>5, <2>1 DEF get_by_id
<1>7. Ok(get_all)
  <2>1. \A c \in CacheGet : Uses(All, All, Within("impl", PluginGet) \o c)
    BY <1>3, UsesRules
  <2> QED
    BY <1>5, <2>1 DEF get_all
<1>8. ASSUME NEW q \in create_template
      PROVE  Unbroken(ReadFreely, Data, q)
  <2> DEFINE inside(c) == Within("tmpl", Within("impl", PluginCreate) \o c)
  <2>1. \A c \in CacheGet : Unbroken(ReadFreely, All, inside(c))
    <3>1. \A c \in CacheGet : Uses(All, All, Within("impl", PluginCreate) \o c)
      BY <1>3, UsesRules
    <3> QED
      BY <1>2, <3>1
  <2>2. Unbroken(ReadFreely, {}, Within("dal", Do({}, {})))
    BY UnbrokenRules
  <2>3. Unbroken(ReadFreely, {"plugin"}, Do({"plugin"}, {}))
    BY UnbrokenRules DEF Data
  <2>4. Unbroken(ReadFreely, {"plugin"}, Within("dal", Do({}, {})) \o Do({"plugin"}, {}))
    <3>1. {} \cap {"plugin"} \subseteq ReadFreely /\ {} \cup {"plugin"} \subseteq {"plugin"}
      OBVIOUS
    <3> QED
      BY <2>2, <2>3, <3>1, UnbrokenRules
  <2>5. \E c \in CacheGet : \/ q = inside(c)
                            \/ q = Within("dal", Do({}, {})) \o Do({"plugin"}, {}) \o inside(c)
    BY DEF create_template
  <2> HIDE DEF inside
  <2>6. {"plugin"} \cap All \subseteq ReadFreely /\ {"plugin"} \cup All \subseteq Data
    BY <1>1 DEF ReadFreely
  <2>7. \A c \in CacheGet :
          Unbroken(ReadFreely, Data, Within("dal", Do({}, {})) \o Do({"plugin"}, {}) \o inside(c))
    BY <2>1, <2>4, <2>6, UnbrokenRules
  <2> QED
    BY <1>4, <2>1, <2>5, <2>7
<1>9. Ok(get_by_object) /\ Ok(ref) /\ Ok(check_init)
  <2>1. /\ \A c \in CacheGet : Uses(All, All, ObjectGet \o c)
        /\ \A c \in Children : Uses(All, All, ObjectGet \o c)
    BY <1>3, UsesRules
  <2> QED
    BY <1>3, <1>5, <2>1 DEF get_by_object, ref, check_init
<1>10. Ok(referenced_by)
  <2>1. \A c \in CacheGet : Uses(All, All, PluginGet \o Do({"hierarchy"}, {}) \o c)
    BY <1>3, UsesRules
  <2> QED
    BY <1>5, <2>1 DEF referenced_by
<1>11. \A q : Unbroken(ReadFreely, Data, q) => Unbroken(X, Data, q)
  BY UnbrokenLess
<1>12. Unbroken(X, X, ObjectGet) /\ X \subseteq Data
  <2>1. ReadSet \cup {"implObjects"} \subseteq X /\ X \subseteq Data
    BY DEF ReadSet, ReadFreely, Data
  <2>2. Uses(X, X, PluginGet) /\ Uses(X, X, Do({"converters"}, {}))
    BY <2>1, UsesRules DEF PluginGet, ReadSet, Data
  <2>3. Uses(X, X, ObjectGet)
    BY <2>2, UsesRules DEF ObjectGet
  <2>4. X \cup X \subseteq X
    OBVIOUS
  <2> QED
    BY <2>1, <2>3, <2>4, UsesUnbroken
<1>13. \A q \in get_attribute : Unbroken(X, Data, q)
  <2>1. Unbroken(X, Data, ObjectGet)
    BY <1>12, UnbrokenLess
  <2> QED
    BY <2>1 DEF get_attribute
<1>14. ASSUME NEW q \in get_rel_objects
       PROVE  Unbroken(X, Data, q)
  <2>1. \/ q = ObjectGet
        \/ \E c \in CacheMake : q = ObjectGet \o Within("tmpl", Do({"hierarchy"}, {}) \o c)
    BY DEF get_rel_objects
  <2>2. ASSUME NEW c \in CacheMake
        PROVE  Unbroken(X, Data, ObjectGet \o Within("tmpl", Do({"hierarchy"}, {}) \o c))
    <3>1. Uses({"hierarchy"}, {"tmplObjects"}, Do({"hierarchy"}, {}))
          /\ Uses({"hierarchy"}, {"tmplObjects"}, Do({}, {"tmplObjects"}))
          /\ Uses({"hierarchy"}, {"tmplObjects"}, Do({}, {}))
      BY UsesRules DEF Data
    <3>2. Uses({"hierarchy"}, {"tmplObjects"}, Within("dal", Do({}, {})))
      BY <3>1, UsesRules
    <3>3. Uses({"hierarchy"}, {"tmplObjects"}, Do({}, {"tmplObjects"}) \o Within("dal", Do({}, {})))
      BY <3>1, <3>2, UsesRules
    <3>4. c = Do({}, {"tmplObjects"}) \/ c = Do({}, {"tmplObjects"}) \o Within("dal", Do({}, {}))
      BY DEF CacheMake
    <3>5. Uses({"hierarchy"}, {"tmplObjects"}, c)
      BY <3>1, <3>3, <3>4
    <3>6. Uses({"hierarchy"}, {"tmplObjects"}, Within("tmpl", Do({"hierarchy"}, {}) \o c))
      BY <3>1, <3>5, UsesRules
    <3> DEFINE T == {"hierarchy", "tmplObjects"}
    <3>7. Uses({"hierarchy"}, {"tmplObjects"}, Do({"hierarchy"}, {}) \o c)
      BY <3>1, <3>5, UsesRules
    <3>8. {"hierarchy"} \cup {"tmplObjects"} \subseteq T
      OBVIOUS
    <3>9. Unbroken(T, T, Do({"hierarchy"}, {}) \o c)
      BY <3>7, <3>8, UsesUnbroken
    <3>10. T \subseteq X \cup {"tmplObjects", "hierarchy"} /\ T \subseteq T
      OBVIOUS
    <3>11. Unbroken(X, T, Within("tmpl", Do({"hierarchy"}, {}) \o c))
      <4> HIDE DEF T, X
      <4>1. Unbroken(X \cup {"tmplObjects", "hierarchy"}, T, Do({"hierarchy"}, {}) \o c)
        BY <3>9, <3>10, UnbrokenLess
      <4> QED
        BY <4>1, UnbrokenRules
    <3>12. X \cap T \subseteq X /\ X \cup T \subseteq Data
      BY DEF ReadFreely, Data
    <3> HIDE DEF T, X
    <3> QED
      BY <1>12, <3>11, <3>12, UnbrokenRules
  <2>3. Unbroken(X, Data, ObjectGet)
    BY <1>12, UnbrokenLess
  <2> QED
    BY <2>1, <2>2, <2>3
<1>15. ASSUME NEW q \in export_data
       PROVE  Unbroken(X, Data, q)
  <2> DEFINE T == {"hierarchy", "plugin", "classDesc"}
             V == {"hierarchy", "plugin", "implObjects"}
  <2>1. PICK c \in export_schema, g \in get_object : q = c \o g \o ObjectGet
    BY <1>15 DEF export_data
  <2>2. PICK e \in get_class_info : c = Do({"hierarchy"}, {}) \o e
    BY DEF export_schema
  <2>3. /\ Unbroken(X, {"plugin", "classDesc"}, e)
        /\ Unbroken(X, {"hierarchy"}, Do({"hierarchy"}, {}))
    BY UnbrokenRules DEF get_class_info, Data
  <2>4. Unbroken(X, V, g)
    BY UnbrokenRules DEF get_object, PluginGet, Data
  <2>5. /\ {"hierarchy"} \cap {"plugin", "classDesc"} \subseteq X
        /\ {"hierarchy"} \cup {"plugin", "classDesc"} \subseteq T
        /\ T \cap V \subseteq X /\ T \cup V \subseteq T \cup V
        /\ (T \cup V) \cap X \subseteq X
        /\ (T \cup V) \cup X \subseteq Data
    BY DEF ReadFreely, Data
  <2> HIDE DEF T, V, X
  <2>6. Unbroken(X, T, c)
    BY <2>2, <2>3, <2>5, UnbrokenRules
  <2>7. Unbroken(X, T \cup V, c \o g)
    BY <2>4, <2>5, <2>6, UnbrokenRules
  <2>8. Unbroken(X, Data, c \o g \o ObjectGet)
    BY <1>12, <2>5, <2>7, UnbrokenRules
  <2> QED
    BY <2>1, <2>8
<1> HIDE DEF X
<1>16. o \in {"get_attribute", "export_data", "get_rel_objects"} => Unbroken(X, Data, p)
  BY <1>13, <1>14, <1>15 DEF PathsOf
<1>17. o \notin {"get_attribute", "export_data", "get_rel_objects"} => Unbroken(ReadFreely, Data, p)
  BY <1>6, <1>7, <1>8, <1>9, <1>10 DEF PathsOf, ReadingObjects
<1> QED
  BY <1>11, <1>16, <1>17 DEF X

\* The others, but for the data they are listed for.
LEMMA UnbrokenOtherwise ==
  ASSUME NEW o \in DOMAIN PathsOf, NEW p \in PathsOf[o]
  PROVE  /\ o = "export_schema" => Unbroken({"hierarchy"}, Data, p)
         /\ o = "get_algo_objects" => Unbroken({"hierarchy", "tmplObjects"}, Data, p)
         /\ o = "callback_subscribes" => Unbroken({"callbacks", "plugin"}, Data, p)
         /\ o = "system_cb" =>
              Unbroken({"callbacks", "plugin", "implObjects", "tmplObjects", "hierarchy"}, Data, p)
<1> USE DEF Locks
<1>1. ASSUME NEW q \in export_schema
      PROVE  Unbroken({"hierarchy"}, Data, q)
  <2>1. PICK e \in get_class_info : q = Do({"hierarchy"}, {}) \o e
    BY DEF export_schema
  <2>2. /\ Unbroken({"hierarchy"}, {"plugin", "classDesc"}, e)
        /\ Unbroken({"hierarchy"}, {"hierarchy"}, Do({"hierarchy"}, {}))
    BY UnbrokenRules DEF get_class_info, Data
  <2>3. /\ {"hierarchy"} \cap {"plugin", "classDesc"} \subseteq {"hierarchy"}
        /\ {"hierarchy"} \cup {"plugin", "classDesc"} \subseteq Data
    BY DEF Data
  <2> QED
    BY <2>1, <2>2, <2>3, UnbrokenRules
<1>2. ASSUME NEW q \in get_algo_objects
      PROVE  Unbroken({"hierarchy", "tmplObjects"}, Data, q)
  <2> DEFINE T == {"hierarchy", "tmplObjects"}
  <2>1. PICK c \in CacheMake : q = Do({"hierarchy"}, {}) \o c
    BY DEF get_algo_objects
  <2>2. Uses(T, T, Do({"hierarchy"}, {})) /\ Uses(T, T, Do({}, {"tmplObjects"}))
        /\ Uses(T, T, Do({}, {}))
    BY UsesRules DEF Data
  <2>3. Uses(T, T, c)
    <3>1. Uses(T, T, Within("dal", Do({}, {})))
      BY <2>2, UsesRules
    <3>2. Uses(T, T, Do({}, {"tmplObjects"}) \o Within("dal", Do({}, {})))
      BY <2>2, <3>1, UsesRules
    <3>3. c = Do({}, {"tmplObjects"}) \/ c = Do({}, {"tmplObjects"}) \o Within("dal", Do({}, {}))
      BY DEF CacheMake
    <3> QED
      BY <2>2, <3>2, <3>3
  <2>4. T \cup T \subseteq T /\ T \subseteq Data
    BY DEF Data
  <2> HIDE DEF T
  <2>5. Uses(T, T, q)
    BY <2>1, <2>2, <2>3, UsesRules
  <2>6. Unbroken(T, T, q)
    BY <2>4, <2>5, UsesUnbroken
  <2>7. Unbroken(T, Data, q)
    BY <2>4, <2>6, UnbrokenLess
  <2> QED
    BY <2>7 DEF T
\* the first half of system_cb
<1> DEFINE Upd == {"hierarchy", "implObjects", "tmplObjects"}
           Ntf == {"actions", "hierarchy", "implObjects", "tmplObjects", "callbacks"}
<1>3. Unbroken({}, Ntf, notify_and_update)
  <2>1. Unbroken({}, {"actions"}, Within("impl", Within("actn", Do({"actions"}, {}))))
    BY UnbrokenRules DEF Data
  <2>2. /\ Uses(Upd, Upd, Within("obj", Do({"hierarchy", "implObjects"}, {})))
        /\ Uses(Upd, Upd, Within("dal", Do({"hierarchy", "tmplObjects"}, {})))
    BY UsesRules DEF Data
  <2>3. /\ Upd \cup Upd \subseteq Upd /\ Upd \subseteq Upd
        /\ Upd \subseteq {} \cup {"plugin", "implObjects", "hierarchy", "classDesc", "tmplObjects"}
    OBVIOUS
  <2>4. Unbroken({}, Upd, Within("tmpl", Within("impl", update_cache)))
    <3> HIDE DEF Upd
    <3>1. Uses(Upd, Upd, update_cache)
      BY <2>2, UsesRules DEF update_cache
    <3>2. Unbroken(Upd, Upd, update_cache)
      BY <2>3, <3>1, UsesUnbroken
    <3>3. Unbroken({} \cup {"plugin", "implObjects", "hierarchy", "classDesc", "tmplObjects"},
                   Upd, update_cache)
      BY <2>3, <3>2, UnbrokenLess
    <3> QED
      BY <3>3, UnbrokenRules
  <2>5. Unbroken({}, {"callbacks"}, Do({"callbacks"}, {}))
    BY UnbrokenRules DEF Data
  <2>6. /\ {"actions"} \cap Upd \subseteq {}
        /\ {"actions"} \cup Upd \subseteq {"actions"} \cup Upd
        /\ ({"actions"} \cup Upd) \cap {"callbacks"} \subseteq {}
        /\ ({"actions"} \cup Upd) \cup {"callbacks"} \subseteq Ntf
    OBVIOUS
  <2> HIDE DEF Upd, Ntf
  <2>7. Unbroken({}, {"actions"} \cup Upd,
                 Within("impl", Within("actn", Do({"actions"}, {})))
                   \o Within("tmpl", Within("impl", update_cache)))
    BY <2>1, <2>4, <2>6, UnbrokenRules
  <2>8. Unbroken({}, Ntf,
                 Within("impl", Within("actn", Do({"actions"}, {})))
                   \o Within("tmpl", Within("impl", update_cache)) \o Do({"callbacks"}, {}))
    BY <2>5, <2>6, <2>7, UnbrokenRules
  <2> QED
    BY <2>8 DEF notify_and_update
<1>4. ASSUME NEW q \in callback_subscribes
      PROVE  Unbroken({"callbacks", "plugin"}, Data, q)
  <2> DEFINE X == {"callbacks", "plugin"}
  <2>1. PICK c \in subscribe : q = notify_and_update \o Within("else", Do({"callbacks"}, {}) \o c)
    BY DEF callback_subscribes
  <2>2. Uses(X, X, Do({}, {"callbacks"})) /\ Uses(X, X, Do({"callbacks"}, {"plugin"}))
        /\ Uses(X, X, Do({"callbacks"}, {}))
    BY UsesRules DEF Data
  <2>3. /\ {} \subseteq X /\ Ntf \subseteq Ntf /\ X \cup X \subseteq X
        /\ Ntf \cap X \subseteq X /\ Ntf \cup X \subseteq Data
    BY DEF Data
  <2> HIDE DEF X, Ntf
  <2>4. Uses(X, X, Within("else", Do({}, {"callbacks"})))
        /\ Uses(X, X, Within("else", Do({}, {"callbacks"}) \o Do({"callbacks"}, {"plugin"})))
    BY <2>2, UsesRules
  <2>5. Uses(X, X, c)
    BY <2>4 DEF subscribe
  <2>6. Uses(X, X, Within("else", Do({"callbacks"}, {}) \o c))
    BY <2>2, <2>5, UsesRules
  <2>7. Unbroken(X, X, Within("else", Do({"callbacks"}, {}) \o c))
    BY <2>3, <2>6, UsesUnbroken
  <2>8. Unbroken(X, Ntf, notify_and_update)
    BY <1>3, <2>3, UnbrokenLess
  <2>9. Unbroken(X, Data, q)
    BY <2>1, <2>3, <2>7, <2>8, UnbrokenRules
  <2> QED
    BY <2>9 DEF X
<1>5. ASSUME NEW q \in system_cb
      PROVE  Unbroken({"callbacks", "plugin", "implObjects", "tmplObjects", "hierarchy"}, Data, q)
  <2> DEFINE X == {"callbacks", "plugin", "implObjects", "tmplObjects", "hierarchy"}
             T == {"callbacks", "plugin", "implObjects", "tmplObjects", "hierarchy", "converters"}
  <2>1. /\ {} \subseteq X /\ Ntf \subseteq Ntf /\ Ntf \subseteq Data /\ T \cup T \subseteq T
        /\ Ntf \cap T \subseteq X /\ Ntf \cup T \subseteq Data
        /\ T \subseteq X \cup {"callbacks", "converters"} /\ T \subseteq T
        /\ ReadSet \subseteq T /\ WriteSet \subseteq T
    BY DEF ReadSet, WriteSet, Data
  <2>2. Uses(T, T, Do({"callbacks"}, {})) /\ Uses(T, T, Do({}, {}))
    BY UsesRules DEF Data
  <2> HIDE DEF X, T, Ntf
  <2>3. Uses(T, T, PluginGet) /\ \A c \in CacheGet : Uses(T, T, c)
    BY <2>1, SharedUses
  <2>4. \A g \in get_object \cup get_all : Uses(T, T, g)
    <3>1. Uses(T, T, Within("impl", PluginGet))
      BY <2>3, UsesRules
    <3>2. \A c \in CacheGet : Uses(T, T, Within("tmpl", Within("impl", PluginGet) \o c))
      BY <2>3, <3>1, UsesRules
    <3> QED
      BY <3>1, <3>2 DEF get_object, get_all
  <2>5. ASSUME NEW c \in run_callbacks
        PROVE  Unbroken(X, T, c)
    <3>1. PICK g \in {Do({}, {})} \cup get_object \cup get_all :
            c = Within("else", Do({"callbacks"}, {}) \o g)
      BY DEF run_callbacks
    <3>2. Uses(T, T, g)
      BY <2>2, <2>4
    <3>3. Uses(T, T, Do({"callbacks"}, {}) \o g)
      BY <2>2, <3>2, UsesRules
    <3>4. Unbroken(T, T, Do({"callbacks"}, {}) \o g)
      BY <2>1, <3>3, UsesUnbroken
    <3>5. Unbroken(X \cup {"callbacks", "converters"}, T, Do({"callbacks"}, {}) \o g)
      BY <2>1, <3>4, UnbrokenLess
    <3> QED
      BY <3>1, <3>5, UnbrokenRules
  <2>6. Unbroken(X, Ntf, notify_and_update) /\ Unbroken(X, Data, notify_and_update)
    BY <1>3, <2>1, UnbrokenLess
  <2>7. q = notify_and_update \/ \E c \in run_callbacks : q = notify_and_update \o c
    BY DEF system_cb
  <2>8. Unbroken(X, Data, q)
    BY <2>1, <2>5, <2>6, <2>7, UnbrokenRules
  <2> QED
    BY <2>8 DEF X
<1> QED
  BY <1>1, <1>2, <1>4, <1>5 DEF PathsOf

\* A method that is listed for a piece of data neither as using it without its mutexes nor
\* as coming back to it holds one of them from its first use to the last.
LEMMA UnbrokenMethods ==
  ASSUME NEW o \in DOMAIN PathsOf, NEW p \in PathsOf[o],
         NEW d \in Data, o \notin Unguarded[d] \cup Resuming[d]
  PROVE  Steady(d, p)
<1> DEFINE few == {"export_schema", "get_algo_objects", "callback_subscribes", "system_cb"}
<1>1. CASE o \in few
  BY <1>1, UnbrokenOtherwise DEF Unbroken, Unguarded, Resuming, Data
<1>2. CASE o \in ReadingObjects
  <2>1. CASE o \in {"get_attribute", "export_data", "get_rel_objects"}
    BY <1>2, <2>1, UnbrokenReading DEF Unbroken, Unguarded, Data, ReadFreely
  <2>2. CASE o \notin {"get_attribute", "export_data", "get_rel_objects"}
    BY <1>2, <2>2, UnbrokenReading DEF Unbroken, Unguarded, Data, ReadFreely
  <2> QED
    BY <2>1, <2>2
<1>3. CASE o \notin few \cup ReadingObjects
  <2>1. o \in {"get_object", "test_object", "create_object", "is_writable", "get_includes",
               "get_versions", "get_class_info", "is_valid", "cast", "cast_object",
               "full_name", "destroy_obj", "rename_object", "add_action",
               "unread_all_objects", "unload", "remove_include", "commit",
               "prefetch_all_data", "abort", "register_converter", "system_pre_cb",
               "action_calls", "loaded", "try_cast", "find_callback", "subscribe",
               "set_attribute", "set_object", "load", "add_include",
               "print_profiling_info"}
    BY <1>3 DEF PathsOf, ReadingObjects
  <2> QED
    BY <2>1, UnbrokenThroughout DEF Unbroken
<1> QED
  BY <1>1, <1>2, <1>3

-----------------------------------------------------------------------------
\* p is well nested and takes its mutexes in ascending rank, all above n
OrderedAbove(n, p) ==
  /\ Scoped(p)
  /\ Ordered(p)
  /\ \A k \in 1 .. Len(p) : p[k].take # NoLock => n < Rank[p[k].take]

\* Code that takes no mutex is ordered above any rank.
LEMMA DoOrdered ==
  ASSUME NEW r \in SUBSET Data, NEW w \in SUBSET Data, NEW n
  PROVE  OrderedAbove(n, Do(r, w))
<1> DEFINE s == Do(r, w)
<1>1. IsDo(s, r, w) /\ Scoped(s)
  BY DoShape, DoScoped
<1> HIDE DEF s
<1>2. OrderedAbove(n, s)
  BY <1>1 DEF OrderedAbove, Ordered, IsDo
<1> QED
  BY <1>2 DEF s

\* Ordered code one after the other is ordered.
LEMMA ThenOrdered ==
  ASSUME NEW n, NEW p, NEW q, OrderedAbove(n, p), OrderedAbove(n, q)
  PROVE  OrderedAbove(n, p \o q)
<1> DEFINE s == p \o q
<1>1. Scoped(p) /\ Scoped(q) /\ p \in Seq(Region) /\ q \in Seq(Region)
  BY DEF OrderedAbove, Scoped
<1>2. IsThen(s, p, q) /\ Scoped(s)
  BY <1>1, ThenShape, ThenScoped
<1> HIDE DEF s
<1>3. /\ \A k \in 1 .. Len(p) : Before(s, k) = Before(p, k)
      /\ \A k \in 1 .. Len(q) : Before(s, Len(p) + k) = Before(q, k)
  BY <1>1, <1>2, ThenBefore
<1>4. ASSUME NEW k \in 1 .. Len(s), s[k].take # NoLock
      PROVE  /\ n < Rank[s[k].take]
             /\ \A m \in Before(s, k) : Rank[m] < Rank[s[k].take]
  <2>1. CASE k \in 1 .. Len(p)
    BY <1>2, <1>3, <1>4, <2>1 DEF OrderedAbove, Ordered, IsThen
  <2>2. CASE k \notin 1 .. Len(p)
    <3>1. PICK j \in 1 .. Len(q) : k = Len(p) + j
      BY <1>1, <1>2, <2>2, ThenIndex
    <3>2. s[k] = q[j] /\ Before(s, k) = Before(q, j)
      BY <3>1, <1>2, <1>3 DEF IsThen
    <3> QED
      BY <3>2, <1>4 DEF OrderedAbove, Ordered
  <2> QED
    BY <2>1, <2>2
<1>5. OrderedAbove(n, s)
  BY <1>2, <1>4 DEF OrderedAbove, Ordered
<1> QED
  BY <1>5 DEF s

\* A scope on m is ordered above n when its inside is ordered above m and m
\* itself is above n.
LEMMA WithinOrdered ==
  ASSUME NEW n \in Nat, NEW m \in Locks, n < Rank[m],
         NEW p, OrderedAbove(Rank[m], p)
  PROVE  OrderedAbove(n, Within(m, p))
<1> DEFINE s == Within(m, p)
<1>1. Scoped(p) /\ p \in Seq(Region)
  BY DEF OrderedAbove, Scoped
<1>2. IsWithin(s, m, p) /\ Scoped(s)
  BY <1>1, WithinShape, WithinScoped
<1> HIDE DEF s
<1>3. /\ Before(s, 1) = {}
      /\ \A k \in 1 .. Len(p) : Before(s, k + 1) = Before(p, k) \cup {m}
  BY <1>1, <1>2, WithinBefore
<1>4. ASSUME NEW k \in 1 .. Len(s), s[k].take # NoLock
      PROVE  /\ n < Rank[s[k].take]
             /\ \A l \in Before(s, k) : Rank[l] < Rank[s[k].take]
  <2>1. CASE k = 1
    BY <1>2, <1>3, <2>1 DEF IsWithin
  <2>2. CASE k # 1
    <3>1. k # Len(p) + 2
      BY <1>2, <1>4 DEF IsWithin
    <3>2. PICK j \in 1 .. Len(p) : k = j + 1
      BY <1>1, <1>2, <2>2, <3>1, WithinIndex
    <3>3. s[k].take = p[j].take /\ Before(s, k) = Before(p, j) \cup {m}
      BY <3>2, <1>2, <1>3 DEF IsWithin
    <3>4. /\ Rank[m] < Rank[p[j].take]
          /\ \A l \in Before(p, j) : Rank[l] < Rank[p[j].take]
      BY <1>4, <3>3 DEF OrderedAbove, Ordered
    <3>5. p[j].take \in Locks
      <4>1. p[j] \in Region
        BY <1>1, ElementOfSeq
      <4> QED
        BY <4>1, <1>4, <3>3 DEF Region
    <3>6. Rank[m] \in Nat /\ Rank[p[j].take] \in Nat
      BY <3>5 DEF Rank, Locks
    <3> QED
      BY <3>3, <3>4, <3>6
  <2> QED
    BY <2>1, <2>2
<1>5. OrderedAbove(n, s)
  BY <1>2, <1>4 DEF OrderedAbove, Ordered
<1> QED
  BY <1>5 DEF s

\* WithinOrdered for each of the mutexes.
LEMMA WithinOrderedBelow ==
  ASSUME NEW p
  PROVE  /\ OrderedAbove(7, p) => \A n \in 0 .. 6 : OrderedAbove(n, Within("actn", p))
         /\ OrderedAbove(6, p) => \A n \in 0 .. 5 : OrderedAbove(n, Within("child", p))
         /\ OrderedAbove(5, p) => \A n \in 0 .. 4 : OrderedAbove(n, Within("dal", p))
         /\ OrderedAbove(4, p) => \A n \in 0 .. 3 : OrderedAbove(n, Within("obj", p))
         /\ OrderedAbove(3, p) => \A n \in 0 .. 2 : OrderedAbove(n, Within("impl", p))
         /\ OrderedAbove(2, p) => \A n \in 0 .. 1 : OrderedAbove(n, Within("tmpl", p))
         /\ OrderedAbove(1, p) => OrderedAbove(0, Within("else", p))
<1>1. /\ Rank["actn"] = 7 /\ Rank["child"] = 6 /\ Rank["dal"] = 5 /\ Rank["obj"] = 4
      /\ Rank["impl"] = 3 /\ Rank["tmpl"] = 2 /\ Rank["else"] = 1
      /\ {"actn", "child", "dal", "obj", "impl", "tmpl", "else"} \subseteq Locks
  BY DEF Rank, Locks
<1> QED
  BY <1>1, WithinOrdered

\* The parts the methods share take the mutexes of template objects only.
LEMMA SharedOrdered ==
  ASSUME NEW n \in 0 .. 4
  PROVE  /\ OrderedAbove(n, PluginGet)
         /\ OrderedAbove(n, ObjectGet)
         /\ \A c \in CacheMake : OrderedAbove(n, c)
         /\ \A c \in Children : OrderedAbove(n, c)
         /\ \A c \in CacheGet : OrderedAbove(n, c)
<1> USE DEF Data
<1>1. \A i \in 0 .. 7 : OrderedAbove(i, PluginGet)
  BY DoOrdered DEF PluginGet
<1>2. \A i \in 0 .. 7 : OrderedAbove(i, ObjectGet)
  BY <1>1, DoOrdered, ThenOrdered DEF ObjectGet
<1>3. \A i \in 0 .. 7 : OrderedAbove(i, Do({}, {"tmplObjects"})) /\ OrderedAbove(i, Do({}, {}))
  BY DoOrdered
<1>4. \A c \in CacheMake : OrderedAbove(n, c)
  <2>1. OrderedAbove(n, Within("dal", Do({}, {})))
    BY <1>3, WithinOrderedBelow
  <2>2. OrderedAbove(n, Do({}, {"tmplObjects"}) \o Within("dal", Do({}, {})))
    BY <1>3, <2>1, ThenOrdered
  <2> TAKE c \in CacheMake
  <2>3. c = Do({}, {"tmplObjects"}) \/ c = Do({}, {"tmplObjects"}) \o Within("dal", Do({}, {}))
    BY DEF CacheMake
  <2>4. OrderedAbove(n, Do({}, {"tmplObjects"}))
    BY <1>3
  <2> QED
    BY <2>2, <2>3, <2>4
<1>5. \A c \in Children : OrderedAbove(n, c) /\ OrderedAbove(5, c)
  <2>1. OrderedAbove(6, ObjectGet \o Do({}, {"tmplObjects"}))
    BY <1>2, <1>3, ThenOrdered
  <2>2. \A i \in 0 .. 5 : OrderedAbove(i, Within("child", ObjectGet \o Do({}, {"tmplObjects"})))
    BY <2>1, WithinOrderedBelow
  <2>3. \A i \in 0 .. 5 : OrderedAbove(i, Do({}, {"tmplObjects"})
                            \o Within("child", ObjectGet \o Do({}, {"tmplObjects"})))
    BY <1>3, <2>2, ThenOrdered
  <2> TAKE c \in Children
  <2>4. \/ c = Do({}, {"tmplObjects"})
        \/ c = Do({}, {"tmplObjects"}) \o Within("child", ObjectGet \o Do({}, {"tmplObjects"}))
    BY DEF Children
  <2>5. \A i \in {n, 5} : OrderedAbove(i, Do({}, {"tmplObjects"})) /\ i \in 0 .. 5
    BY <1>3
  <2> QED
    BY <2>3, <2>4, <2>5
<1>6. ASSUME NEW c \in Children
      PROVE  OrderedAbove(n, Do({}, {"tmplObjects"}) \o Within("dal", ObjectGet \o c))
  <2>1. OrderedAbove(5, ObjectGet \o c)
    BY <1>2, <1>5, ThenOrdered
  <2>2. OrderedAbove(n, Within("dal", ObjectGet \o c))
    BY <2>1, WithinOrderedBelow
  <2> QED
    BY <1>3, <2>2, ThenOrdered
<1>7. \A c \in CacheGet : OrderedAbove(n, c)
  BY <1>4, <1>6 DEF CacheGet
<1> QED
  BY <1>1, <1>2, <1>4, <1>5, <1>7

\* The methods of OrderedOperations take the mutexes in ascending rank.
LEMMA OrderedMethods ==
  ASSUME NEW o \in OrderedOperations, NEW p \in PathsOf[o]
  PROVE  Ordered(p)
<1> DEFINE Low(P) == \A q \in P : OrderedAbove(0, q)
<1> USE DEF Data
<1>1. \A n \in 0 .. 3 : OrderedAbove(n, update_cache)
  <2>1. \A n \in 0 .. 3 : /\ OrderedAbove(n, Within("obj", Do({"hierarchy", "implObjects"}, {})))
                          /\ OrderedAbove(n, Within("dal", Do({"hierarchy", "tmplObjects"}, {})))
    BY DoOrdered, WithinOrderedBelow
  <2> QED
    BY <2>1, ThenOrdered DEF update_cache
<1>2. \A n \in 0 .. 3 : OrderedAbove(n, unread_implementation_objects)
  BY DoOrdered, WithinOrderedBelow DEF unread_implementation_objects
<1>3. \A n \in 0 .. 2 : \A q \in get_object \cup test_object : OrderedAbove(n, q)
  BY SharedOrdered, DoOrdered, WithinOrderedBelow DEF PluginGet, get_object, test_object
<1>4. \A n \in 0 .. 2 : OrderedAbove(n, Within("impl", PluginCreate))
  BY DoOrdered, WithinOrderedBelow DEF PluginCreate
<1>5. Low(create_object) /\ Low(loaded)
  BY <1>4, DoOrdered DEF create_object, loaded
<1>6. Low(is_writable) /\ Low(get_includes) /\ Low(get_versions) /\ Low(get_class_info)
  BY DoOrdered, WithinOrderedBelow DEF is_writable, get_includes, get_versions, get_class_info
<1>7. Low(get_by_id)
  <2>1. OrderedAbove(2, Do({}, {"tmplObjects"})) /\ OrderedAbove(2, PluginGet)
    BY SharedOrdered, DoOrdered
  <2>2. \A q \in CacheGet : OrderedAbove(2, Do({}, {"tmplObjects"}) \o PluginGet \o q)
    BY <2>1, SharedOrdered, ThenOrdered
  <2> QED
    BY <2>1, <2>2, WithinOrderedBelow DEF get_by_id
<1>8. \A n \in 0 .. 1 : \A q \in get_all : OrderedAbove(n, q)
  <2>1. OrderedAbove(2, Within("impl", PluginGet))
    BY <1>3 DEF get_object
  <2>2. \A c \in CacheGet : OrderedAbove(2, Within("impl", PluginGet) \o c)
    BY <2>1, SharedOrdered, ThenOrdered
  <2> QED
    BY <2>2, WithinOrderedBelow DEF get_all
<1>9. Low(create_template)
  <2>1. \A c \in CacheGet : OrderedAbove(2, Within("impl", PluginCreate) \o c)
    BY <1>4, SharedOrdered, ThenOrdered
  <2>2. \A c \in CacheGet : OrderedAbove(0, Within("tmpl", Within("impl", PluginCreate) \o c))
    BY <2>1, WithinOrderedBelow
  <2>3. OrderedAbove(0, Within("dal", Do({}, {})) \o Do({"plugin"}, {}))
    BY DoOrdered, ThenOrdered, WithinOrderedBelow
  <2>4. \A c \in CacheGet : OrderedAbove(0, Within("dal", Do({}, {})) \o Do({"plugin"}, {})
                                            \o Within("tmpl", Within("impl", PluginCreate) \o c))
    BY <2>2, <2>3, ThenOrdered
  <2> QED
    BY <2>2, <2>4 DEF create_template
<1>10. Low(get_by_object) /\ Low(ref) /\ Low(check_init)
  <2>1. /\ \A c \in CacheGet : OrderedAbove(2, c) /\ OrderedAbove(2, ObjectGet \o c)
        /\ \A c \in Children : OrderedAbove(2, ObjectGet \o c)
    BY SharedOrdered, ThenOrdered
  <2> QED
    BY <2>1, WithinOrderedBelow DEF get_by_object, ref, check_init
<1>11. Low(is_valid) /\ Low(full_name)
  BY DoOrdered, WithinOrderedBelow DEF is_valid, full_name
<1>12. Low(cast)
  <2>1. OrderedAbove(0, Within("tmpl", Do({"hierarchy"}, {})))
    BY DoOrdered, WithinOrderedBelow
  <2>2. ASSUME NEW q \in CacheMake
        PROVE  OrderedAbove(0, Within("tmpl", Do({"hierarchy"}, {}) \o Within("obj", q)))
    <3>1. OrderedAbove(2, Within("obj", q))
      BY SharedOrdered, WithinOrderedBelow
    <3>2. OrderedAbove(2, Do({"hierarchy"}, {}) \o Within("obj", q))
      BY <3>1, DoOrdered, ThenOrdered
    <3> QED
      BY <3>2, WithinOrderedBelow
  <2> QED
    BY <2>1, <2>2 DEF cast
<1>13. Low(referenced_by)
  <2>1. OrderedAbove(2, PluginGet) /\ OrderedAbove(2, Do({"hierarchy"}, {}))
    BY SharedOrdered, DoOrdered
  <2>2. \A c \in CacheGet : OrderedAbove(2, PluginGet \o Do({"hierarchy"}, {}) \o c)
    BY <2>1, SharedOrdered, ThenOrdered
  <2> QED
    BY <2>2, WithinOrderedBelow DEF referenced_by
<1>14. Low(get_rel_objects)
  <2>1. \A c \in CacheMake : OrderedAbove(2, Do({"hierarchy"}, {}) \o c)
    BY SharedOrdered, DoOrdered, ThenOrdered
  <2>2. \A c \in CacheMake : OrderedAbove(0, Within("tmpl", Do({"hierarchy"}, {}) \o c))
    BY <2>1, WithinOrderedBelow
  <2>3. OrderedAbove(0, ObjectGet)
    BY SharedOrdered
  <2>4. \A c \in CacheMake : OrderedAbove(0, ObjectGet \o Within("tmpl", Do({"hierarchy"}, {}) \o c))
    BY <2>2, <2>3, ThenOrdered
  <2> QED
    BY <2>3, <2>4 DEF get_rel_objects
<1>15. Low(get_algo_objects)
  <2>1. \A c \in CacheMake : OrderedAbove(0, Do({"hierarchy"}, {}) \o c)
    BY SharedOrdered, DoOrdered, ThenOrdered
  <2> TAKE q \in get_algo_objects
  <2>2. PICK c \in CacheMake : q = Do({"hierarchy"}, {}) \o c
    BY DEF get_algo_objects
  <2> QED
    BY <2>1, <2>2
<1>16. Low(try_cast) /\ Low(export_schema) /\ Low(find_callback) /\ Low(get_attribute)
  <2>1. OrderedAbove(0, Do({"hierarchy"}, {})) /\ OrderedAbove(0, Do({"callbacks"}, {}))
    BY DoOrdered
  <2>2. \A c \in get_class_info : OrderedAbove(0, Do({"hierarchy"}, {}) \o c)
    BY <1>6, <2>1, ThenOrdered
  <2>3. ASSUME NEW q \in export_schema
        PROVE  OrderedAbove(0, q)
    <3>1. PICK c \in get_class_info : q = Do({"hierarchy"}, {}) \o c
      BY DEF export_schema
    <3> QED
      BY <2>2, <3>1
  <2>4. Low(get_attribute)
    BY SharedOrdered DEF get_attribute
  <2> QED
    BY <2>1, <2>3, <2>4 DEF try_cast, find_callback
<1>17. ASSUME NEW q \in export_data
       PROVE  OrderedAbove(0, q)
  <2>1. PICK c \in export_schema, g \in get_object : q = c \o g \o ObjectGet
    BY <1>17 DEF export_data
  <2>2. OrderedAbove(0, c) /\ OrderedAbove(0, g) /\ OrderedAbove(0, ObjectGet)
    BY <1>3, <1>16, SharedOrdered
  <2> QED
    BY <2>1, <2>2, ThenOrdered
<1>18. Low(print_profiling_info)
  BY DoOrdered, WithinOrderedBelow DEF print_profiling_info
<1>19. \A n \in 0 .. 3 : OrderedAbove(n, Within("actn", Do({"actions"}, {})))
  BY DoOrdered, WithinOrderedBelow
<1>20. Low(rename_object)
  <2>1. ASSUME NEW q \in CacheMake
        PROVE  OrderedAbove(0, Within("tmpl", Within("impl",
                 Within("obj", Do({"hierarchy"}, {"plugin", "implObjects"}) \o q))))
    <3>1. OrderedAbove(4, Do({"hierarchy"}, {"plugin", "implObjects"}) \o q)
      BY SharedOrdered, DoOrdered, ThenOrdered
    <3> QED
      BY <3>1, WithinOrderedBelow
  <2>2. OrderedAbove(0, Within("actn", Do({"actions"}, {})))
    BY <1>19
  <2>3. \A c \in CacheMake : OrderedAbove(0,
          Within("tmpl", Within("impl", Within("obj", Do({"hierarchy"}, {"plugin", "implObjects"}) \o c)))
            \o Within("actn", Do({"actions"}, {})))
    BY <2>1, <2>2, ThenOrdered
  <2> QED
    BY <2>3 DEF rename_object
<1>21. Low(set_attribute) /\ Low(add_action)
  BY <1>19, DoOrdered, ThenOrdered, WithinOrderedBelow DEF set_attribute, add_action
<1>22. Low(unread_all_objects)
  <2>1. OrderedAbove(0, Within("impl", unread_implementation_objects))
    BY <1>2, WithinOrderedBelow
  <2>2. OrderedAbove(0, Within("tmpl", Do({"tmplObjects"}, {})))
    BY DoOrdered, WithinOrderedBelow
  <2>3. OrderedAbove(0, Within("impl", unread_implementation_objects)
                          \o Within("tmpl", Do({"tmplObjects"}, {})))
    BY <2>1, <2>2, ThenOrdered
  <2> TAKE q \in unread_all_objects
  <2>4. q = Within("impl", unread_implementation_objects) \o Within("tmpl", Do({"tmplObjects"}, {}))
    BY DEF unread_all_objects
  <2> QED
    BY <2>3, <2>4
<1>23. Low(load) /\ Low(add_include)
  <2>1. OrderedAbove(3, Do({}, {"plugin", "implObjects", "hierarchy"}))
    BY DoOrdered
  <2>2. OrderedAbove(3, Within("actn", Do({"actions"}, {}))
                          \o Do({}, {"plugin", "implObjects", "hierarchy"}))
    BY <1>19, <2>1, ThenOrdered
  <2> QED
    BY <2>1, <2>2, WithinOrderedBelow DEF load, add_include
<1>24. Low(commit) /\ Low(prefetch_all_data)
  <2>1. OrderedAbove(3, Do({}, {"plugin", "implObjects"})) /\ OrderedAbove(3, PluginGet)
    BY SharedOrdered, DoOrdered
  <2> QED
    BY <2>1, WithinOrderedBelow DEF commit, prefetch_all_data
<1>25. Low(abort)
  <2>1. /\ OrderedAbove(3, Do({}, {"plugin", "implObjects"}))
        /\ OrderedAbove(3, Do({"plugin", "tmplObjects"}, {"hierarchy"}))
    BY DoOrdered
  <2>2. OrderedAbove(3, Do({}, {"plugin", "implObjects"}) \o unread_implementation_objects)
    BY <1>2, <2>1, ThenOrdered
  <2>3. OrderedAbove(3, Do({}, {"plugin", "implObjects"}) \o unread_implementation_objects
                          \o Do({"plugin", "tmplObjects"}, {"hierarchy"}))
    BY <2>1, <2>2, ThenOrdered
  <2> QED
    BY <2>3, WithinOrderedBelow DEF abort
<1>26. Low(subscribe) /\ Low(register_converter) /\ Low(system_pre_cb)
  BY DoOrdered, ThenOrdered, WithinOrderedBelow DEF subscribe, register_converter, system_pre_cb
<1>27. OrderedAbove(0, notify_and_update)
  <2>1. OrderedAbove(0, Within("impl", Within("actn", Do({"actions"}, {}))))
    BY <1>19, WithinOrderedBelow
  <2>2. OrderedAbove(0, Within("tmpl", Within("impl", update_cache)))
    BY <1>1, WithinOrderedBelow
  <2>3. OrderedAbove(0, Do({"callbacks"}, {}))
    BY DoOrdered
  <2> QED
    BY <2>1, <2>2, <2>3, ThenOrdered DEF notify_and_update
<1>28. Low(run_callbacks)
  <2>1. OrderedAbove(1, Do({"callbacks"}, {})) /\ OrderedAbove(1, Do({}, {}))
    BY DoOrdered
  <2>2. \A q \in {Do({}, {})} \cup get_object \cup get_all : OrderedAbove(1, q)
    BY <1>3, <1>8, <2>1
  <2>3. \A q \in {Do({}, {})} \cup get_object \cup get_all :
          OrderedAbove(0, Within("else", Do({"callbacks"}, {}) \o q))
    BY <2>1, <2>2, ThenOrdered, WithinOrderedBelow
  <2> QED
    BY <2>3 DEF run_callbacks
<1>29. \A c \in run_callbacks : OrderedAbove(0, notify_and_update \o c)
  BY <1>27, <1>28, ThenOrdered
<1>30. Low(system_cb)
  BY <1>27, <1>29 DEF system_cb
<1>31. Low(get_object) /\ Low(test_object) /\ Low(get_all) /\ Low(export_data)
  BY <1>3, <1>8, <1>17
<1>32. Low(PathsOf[o])
  BY <1>5, <1>6, <1>7, <1>9, <1>10, <1>11, <1>12, <1>13, <1>14, <1>15, <1>16, <1>18, <1>20,
     <1>21, <1>22, <1>23, <1>24, <1>25, <1>26, <1>30, <1>31 DEF OrderedOperations, PathsOf
<1> QED
  BY <1>32 DEF OrderedAbove

-----------------------------------------------------------------------------
\* what a thread may execute is well nested
LEMMA ScopedMethods == \A p \in Paths : Scoped(p)
BY GuardedMethods, OperationsAssumption DEF Paths

\* what a thread executes is a sequence of regions
LEMMA PathsAreScoped ==
  \A p \in Paths \cup {NoPath} :
    /\ p \in Seq(Region)
    /\ Len(p) \in Nat
    /\ p # NoPath <=> Len(p) # 0
<1>1. NoPath \in Seq(Region) /\ Len(NoPath) = 0
  BY DEF NoPath
<1>2. \A p \in Paths : p \in Seq(Region) /\ Len(p) \in Nat \ {0} /\ p # NoPath
  BY ScopedMethods, ScopedLen DEF Scoped
<1> TAKE p \in Paths \cup {NoPath}
<1>3. CASE p \in Paths
  BY <1>2, <1>3
<1>4. CASE p = NoPath
  BY <1>1, <1>4
<1> QED
  BY <1>3, <1>4

\* the region ahead of a thread is one of its path's
LEMMA NextRegionTyped ==
  ASSUME TypeOK, NEW t \in Threads, Continues(t)
  PROVE  /\ path[t] \in Paths
         /\ at[t] \in Nat
         /\ at[t] + 1 \in 1 .. Len(path[t])
         /\ NextRegion(t) \in Region
<1>1. path[t] \in Paths /\ path[t] \in Seq(Region) /\ Len(path[t]) \in Nat
  BY PathsAreScoped DEF TypeOK, Continues, Busy
<1>2. at[t] \in Nat /\ at[t] + 1 \in 1 .. Len(path[t])
  BY <1>1 DEF TypeOK, Continues
<1> QED
  BY <1>1, <1>2, ElementOfSeq DEF NextRegion

\* The variables keep their types, and no thread runs past the end of its
\* method, for any threads, methods and number of calls.
THEOREM TypeCorrect == Spec => []TypeOK
<1>1. Init => TypeOK
  BY MaxCallsAssumption, PathsAreScoped DEF Init, TypeOK
<1>2. TypeOK /\ [Next]_vars => TypeOK'
  <2> SUFFICES ASSUME TypeOK, [Next]_vars
               PROVE  TypeOK'
    OBVIOUS
  <2>1. ASSUME NEW t \in Threads, Call(t)
        PROVE  TypeOK'
    <3>1. calls[t] + 1 \in 0 .. MaxCalls
      BY <2>1, MaxCallsAssumption DEF TypeOK, Call
    <3>2. PICK p \in Paths : path' = [path EXCEPT ![t] = p]
      BY <2>1 DEF Call
    <3>3. Len(p) \in Nat
      BY PathsAreScoped
    <3> QED
      BY <2>1, <3>1, <3>2, <3>3 DEF TypeOK, Call
  <2>2. ASSUME NEW t \in Threads, Lock(t)
        PROVE  TypeOK'
    <3>1. at[t] + 1 \in Nat /\ at[t] + 1 <= Len(path[t])
      BY <2>2, NextRegionTyped DEF Lock
    <3> QED
      BY <2>2, <3>1 DEF TypeOK, Lock
  <2>3. ASSUME NEW t \in Threads, Proceed(t)
        PROVE  TypeOK'
    <3>1. at[t] + 1 \in Nat /\ at[t] + 1 <= Len(path[t])
      BY <2>3, NextRegionTyped DEF Proceed
    <3> QED
      BY <2>3, <3>1 DEF TypeOK, Proceed
  <2>4. ASSUME NEW t \in Threads, Return(t)
        PROVE  TypeOK'
    <3>1. Len(NoPath) = 0
      BY PathsAreScoped
    <3> QED
      BY <2>4, <3>1 DEF TypeOK, Return
  <2>5. CASE UNCHANGED vars
    BY <2>5 DEF TypeOK, vars
  <2> QED
    BY <2>1, <2>2, <2>3, <2>4, <2>5 DEF Next
<1> QED
  BY <1>1, <1>2, PTL DEF Spec

-----------------------------------------------------------------------------
\* the scopes t is in are those held before the region ahead of it
LEMMA ScopeBefore ==
  ASSUME TypeOK, NEW t \in Threads
  PROVE  InScope(t) = Before(path[t], at[t] + 1)
<1>1. at[t] \in Nat
  BY DEF TypeOK
<1> QED
  BY <1>1 DEF InScope, Before

\* A mutex is owned by a thread exactly while the thread is in a lock_guard
\* scope on it, whatever methods run: the mutexes are released on every path of
\* every method, and by their owner.
THEOREM Ownership == Spec => []OwnersAreInScope
<1> DEFINE IInv == TypeOK /\ OwnersAreInScope
<1>1. Init => OwnersAreInScope
  BY ThreadsAssumption DEF Init, OwnersAreInScope, InScope
<1>2. IInv /\ [Next]_vars => OwnersAreInScope'
  <2> SUFFICES ASSUME TypeOK, OwnersAreInScope, [Next]_vars
               PROVE  OwnersAreInScope'
    OBVIOUS
  <2>1. ASSUME NEW t \in Threads, Call(t)
        PROVE  OwnersAreInScope'
    <3>1. at[t] = 0
      BY <2>1, PathsAreScoped DEF TypeOK, Call, Busy
    <3>2. InScope(t) = {} /\ InScope(t)' = {}
      BY <2>1, <3>1 DEF InScope, Call, TypeOK
    <3>3. \A u \in Threads \ {t} : InScope(u)' = InScope(u)
      BY <2>1 DEF InScope, Call, TypeOK
    <3>4. owner' = owner
      BY <2>1 DEF Call
    <3> QED
      BY <3>2, <3>3, <3>4 DEF OwnersAreInScope
  <2>2. ASSUME NEW t \in Threads, Lock(t)
        PROVE  OwnersAreInScope'
    <3> DEFINE m == NextRegion(t).take
    <3>1. m \in Locks /\ m # NoLock /\ owner[m] = Nobody
      BY <2>2, NextRegionTyped DEF Lock, Region
    <3>2. NextRegion(t).holds = InScope(t) \cup {m}
      BY <2>2, <3>1, NextRegionTyped, ScopeBefore, ScopedMethods DEF Lock, Scoped, NextRegion
    <3>3. InScope(t)' = InScope(t) \cup {m}
      BY <2>2, <3>2, NextRegionTyped DEF InScope, Lock, NextRegion, TypeOK
    <3>4. \A u \in Threads \ {t} : InScope(u)' = InScope(u)
      BY <2>2 DEF InScope, Lock, TypeOK
    <3>5. owner' = [owner EXCEPT ![m] = t]
      BY <2>2 DEF Lock
    <3> HIDE DEF m
    <3>6. ASSUME NEW l \in Locks, NEW u \in Threads
          PROVE  owner'[l] = u <=> l \in InScope(u)'
      <4>1. owner[l] = u <=> l \in InScope(u)
        BY DEF OwnersAreInScope
      <4>2. owner'[l] = IF l = m THEN t ELSE owner[l]
        BY <3>1, <3>5 DEF TypeOK
      <4>3. u # Nobody
        BY ThreadsAssumption
      <4> QED
        BY <4>1, <4>2, <4>3, <3>1, <3>3, <3>4
    <3> QED
      BY <3>6 DEF OwnersAreInScope
  <2>3. ASSUME NEW t \in Threads, Proceed(t)
        PROVE  OwnersAreInScope'
    <3> DEFINE h == NextRegion(t).holds
    <3>1. h \subseteq InScope(t)
      BY <2>3, NextRegionTyped, ScopeBefore, ScopedMethods DEF Proceed, Scoped, NextRegion
    <3>2. InScope(t)' = h
      BY <2>3, NextRegionTyped DEF InScope, Proceed, NextRegion, TypeOK
    <3>3. \A u \in Threads \ {t} : InScope(u)' = InScope(u)
      BY <2>3 DEF InScope, Proceed, TypeOK
    <3>4. owner' = [m \in Locks |-> IF owner[m] = t /\ m \notin h THEN Nobody ELSE owner[m]]
      BY <2>3 DEF Proceed
    <3> HIDE DEF h
    <3>5. ASSUME NEW l \in Locks, NEW u \in Threads
          PROVE  owner'[l] = u <=> l \in InScope(u)'
      <4>1. /\ owner[l] = u <=> l \in InScope(u)
            /\ owner[l] = t <=> l \in InScope(t)
        BY DEF OwnersAreInScope
      <4>2. owner'[l] = IF owner[l] = t /\ l \notin h THEN Nobody ELSE owner[l]
        BY <3>4
      <4>3. u # Nobody
        BY ThreadsAssumption
      <4> QED
        BY <4>1, <4>2, <4>3, <3>1, <3>2, <3>3
    <3> QED
      BY <3>5 DEF OwnersAreInScope
  <2>4. ASSUME NEW t \in Threads, Return(t)
        PROVE  OwnersAreInScope'
    <3>1. path[t] \in Paths /\ at[t] = Len(path[t]) /\ at[t] # 0
      BY <2>4, PathsAreScoped DEF Return, Busy, TypeOK
    <3>2. InScope(t) = {}
      BY <3>1, ScopedMethods DEF InScope, Scoped
    <3>3. InScope(t)' = {} /\ \A u \in Threads \ {t} : InScope(u)' = InScope(u)
      BY <2>4 DEF InScope, Return, TypeOK
    <3>4. owner' = owner
      BY <2>4 DEF Return
    <3> QED
      BY <3>2, <3>3, <3>4 DEF OwnersAreInScope
  <2>5. CASE UNCHANGED vars
    BY <2>5 DEF OwnersAreInScope, InScope, vars
  <2> QED
    BY <2>1, <2>2, <2>3, <2>4, <2>5 DEF Next
<1> QED
  BY <1>1, <1>2, TypeCorrect, PTL DEF Spec

-----------------------------------------------------------------------------
\* The rank argument: in a set of threads that wait for each other, each waits
\* for a mutex of lower rank than its owner waits for, and there are seven ranks.
LEMMA NoCircularWaitInScope ==
  ASSUME TypeOK, OwnersAreInScope, Operations \subseteq OrderedOperations
  PROVE  NoCircularWait
<1> SUFFICES ASSUME NEW S \in SUBSET Threads, S # {},
                    \A t \in S : Blocked(t) /\ owner[NextRegion(t).take] \in S
             PROVE  FALSE
  BY DEF NoCircularWait
<1> DEFINE wants(t) == NextRegion(t).take
<1>1. \A t \in S : Rank[wants(t)] \in 1 .. 7
  <2> TAKE t \in S
  <2>1. wants(t) \in Locks
    BY NextRegionTyped DEF Blocked, Region
  <2> QED
    BY <2>1 DEF Rank, Locks
<1>2. ASSUME NEW t \in S
      PROVE  owner[wants(t)] \in S /\ Rank[wants(t)] < Rank[wants(owner[wants(t)])]
  <2> DEFINE u == owner[wants(t)]
  <2>1. u \in S /\ Blocked(u) /\ wants(t) \in Locks
    BY NextRegionTyped DEF Blocked, Region
  <2>2. wants(t) \in Before(path[u], at[u] + 1)
    BY <2>1, ScopeBefore DEF OwnersAreInScope
  <2>3. Ordered(path[u])
    BY <2>1, NextRegionTyped, OrderedMethods DEF Blocked, Paths
  <2> QED
    BY <2>1, <2>2, <2>3, NextRegionTyped DEF Blocked, Ordered, NextRegion
<1> HIDE DEF wants
<1>3. \A t \in S : Rank[wants(t)] \notin 5 .. 7
  BY <1>1, <1>2
<1>4. \A t \in S : Rank[wants(t)] \notin 3 .. 7
  BY <1>1, <1>2, <1>3
<1>5. \A t \in S : Rank[wants(t)] \notin 1 .. 7
  BY <1>1, <1>2, <1>4
<1> QED
  BY <1>1, <1>5

\* Threads that call only the methods of OrderedOperations never wait for each
\* other, however many threads there are: the lock order the comments of
\* Configuration.cpp ask for ("always lock template objects mutex first")
\* excludes deadlock where the code keeps to it.
THEOREM DeadlockFreedom ==
  ASSUME Operations \subseteq OrderedOperations
  PROVE  Spec => []NoCircularWait
<1>1. TypeOK /\ OwnersAreInScope => NoCircularWait
  BY NoCircularWaitInScope
<1> QED
  BY <1>1, TypeCorrect, Ownership, PTL

\* A thread in a region of guarded code owns the mutexes of what it writes, and one of those
\* of what it reads.
LEMMA GuardsOwned ==
  ASSUME TypeOK, OwnersAreInScope, NEW d \in Data, NEW t \in Threads,
         path[t] \in Paths => GuardedBy(d, {}, path[t])
  PROVE  /\ d \in Writing(t) => \A m \in Guards[d] : owner[m] = t
         /\ d \in Reading(t) => \E m \in Guards[d] : owner[m] = t
<1>1. Guards[d] \subseteq Locks
  BY DEF Guards, Locks, Data
<1>2. ASSUME at[t] # 0
      PROVE  path[t] \in Paths /\ at[t] \in 1 .. Len(path[t])
  BY <1>2, PathsAreScoped DEF TypeOK
<1>3. ASSUME d \in Writing(t), NEW m \in Guards[d]
      PROVE  owner[m] = t
  <2>1. at[t] # 0 /\ d \in path[t][at[t]].writes
    BY <1>3 DEF Writing
  <2>2. m \in InScope(t)
    BY <1>2, <1>3, <2>1 DEF GuardedBy, InScope
  <2> QED
    BY <1>1, <1>3, <2>2 DEF OwnersAreInScope
<1>4. ASSUME d \in Reading(t)
      PROVE  \E m \in Guards[d] : owner[m] = t
  <2>1. at[t] # 0 /\ d \in path[t][at[t]].reads
    BY <1>4 DEF Reading
  <2>2. PICK m \in Guards[d] : m \in InScope(t)
    BY <1>2, <2>1 DEF GuardedBy, InScope
  <2>3. owner[m] = t
    BY <1>1, <2>2 DEF OwnersAreInScope
  <2> QED
    BY <2>3
<1> QED
  BY <1>3, <1>4

\* Two threads in guarded code do not meet on d: the writer owns all of its mutexes, the
\* other at least one.
LEMMA GuardedNoRace ==
  ASSUME TypeOK, OwnersAreInScope, NEW d \in Data, NEW t \in Threads, NEW u \in Threads,
         path[t] \in Paths => GuardedBy(d, {}, path[t]),
         path[u] \in Paths => GuardedBy(d, {}, path[u])
  PROVE  ~ Race(d, t, u)
<1>1. Guards[d] # {}
  BY DEF Guards, Data
<1> SUFFICES ASSUME t # u, d \in Writing(t), d \in Reading(u) \cup Writing(u)
             PROVE  FALSE
  BY DEF Race
<1>2. \A m \in Guards[d] : owner[m] = t
  BY GuardsOwned
<1>3. \E m \in Guards[d] : owner[m] = u
  BY <1>1, GuardsOwned
<1> QED
  BY <1>2, <1>3

\* Threads that call no method listed for d do not meet on it.
LEMMA GuardedDataRaceFree ==
  ASSUME TypeOK, OwnersAreInScope, NEW d \in Data, Operations \cap Unguarded[d] = {}
  PROVE  RaceFree(d)
<1>1. \A p \in Paths : GuardedBy(d, {}, p)
  BY GuardedMethods, OperationsAssumption DEF Paths
<1> QED
  BY <1>1, GuardedNoRace DEF RaceFree

\* Whatever the threads call, two of them meet on a piece of data only when one is in a
\* method listed for it: with any number of threads, the mutexes of the facade keep every
\* other pair of methods apart, and the class descriptions and the actions are never raced
\* for.  The methods listed for the plug-in, its cache and the converters are those that read
\* values or change the database with none of their mutexes.
THEOREM RacesKnown == Spec => []OnlyKnownRaces
<1>1. ASSUME TypeOK, OwnersAreInScope
      PROVE  OnlyKnownRaces
  <2> SUFFICES ASSUME NEW d \in Data, NEW t \in Threads, NEW u \in Threads,
                      ~ Lax(d, t), ~ Lax(d, u)
               PROVE  ~ Race(d, t, u)
    BY DEF OnlyKnownRaces
  <2>1. ASSUME NEW v \in Threads, ~ Lax(d, v), path[v] \in Paths
        PROVE  GuardedBy(d, {}, path[v])
    <3>1. PICK o \in Operations : path[v] \in PathsOf[o]
      BY <2>1 DEF Paths
    <3>2. o \in DOMAIN PathsOf /\ o \notin Unguarded[d]
      BY <2>1, <3>1, OperationsAssumption DEF Lax
    <3> QED
      BY <3>1, <3>2, GuardedMethods
  <2> QED
    BY <1>1, <2>1, GuardedNoRace
<1> QED
  BY <1>1, TypeCorrect, Ownership, PTL

\* Threads that call no method listed for a piece of data never meet on it: without
\* get_algo_objects and print_profiling_info no thread touches the template caches while
\* another changes them, and the implementation cache is safe as long as nobody reads a
\* value, nor gets objects by another way than get(), and no callback gets objects.
THEOREM DataGuarded ==
  ASSUME NEW d \in Data, Operations \cap Unguarded[d] = {}
  PROVE  Spec => []RaceFree(d)
<1>1. TypeOK /\ OwnersAreInScope => RaceFree(d)
  BY GuardedDataRaceFree
<1> QED
  BY <1>1, TypeCorrect, Ownership, PTL

-----------------------------------------------------------------------------
\* A thread in the middle of its steady work on d owns a mutex of d.
LEMMA AmidOwnsGuard ==
  ASSUME TypeOK, OwnersAreInScope, NEW d \in Data, NEW t \in Threads, Amid(t, d),
         path[t] \in Paths => Steady(d, path[t])
  PROVE  \E m \in Guards[d] : owner[m] = t
<1>1. Guards[d] \subseteq Locks
  BY DEF Guards, Locks, Data
<1>2. PICK j \in 1 .. at[t], k \in at[t] .. Len(path[t]) :
        /\ j < k
        /\ d \in path[t][j].reads \cup path[t][j].writes
        /\ d \in path[t][k].reads \cup path[t][k].writes
  BY DEF Amid
<1>3. at[t] \in Nat /\ Len(path[t]) \in Nat /\ path[t] \in Paths \cup {NoPath}
  BY PathsAreScoped DEF TypeOK
<1>4. /\ j \in 1 .. Len(path[t]) /\ at[t] \in 1 .. Len(path[t]) /\ k \in 1 .. Len(path[t])
      /\ j <= at[t] /\ at[t] <= k /\ j < k /\ at[t] # 0
  BY <1>2, <1>3
<1>5. path[t] \in Paths
  BY <1>3, <1>4, PathsAreScoped
<1>6. Guards[d] \cap path[t][at[t]].holds # {}
  BY <1>2, <1>4, <1>5 DEF Steady
<1>7. PICK m \in Guards[d] : m \in InScope(t)
  BY <1>4, <1>6 DEF InScope
<1>8. owner[m] = t
  BY <1>1, <1>7 DEF OwnersAreInScope
<1> QED
  BY <1>8

\* From the first use of a piece of data in a call to the last no other thread changes it, but
\* for the methods listed: whatever the other threads call, and however many they are, what
\* a method finds in the caches is what it still finds when it goes on.
THEOREM OneGo == Spec => []UsedInOneGo
<1>1. ASSUME TypeOK, OwnersAreInScope
      PROVE  UsedInOneGo
  <2> SUFFICES ASSUME NEW d \in Data, NEW t \in Threads, NEW u \in Threads,
                      t # u, Amid(t, d), d \in Writing(u), ~ Lax(d, t), ~ Lax(d, u),
                      ~ \E o \in Resuming[d] : path[t] \in PathsOf[o]
               PROVE  FALSE
    BY DEF UsedInOneGo
  <2>1. ASSUME path[t] \in Paths
        PROVE  Steady(d, path[t])
    <3>1. PICK o \in Operations : path[t] \in PathsOf[o]
      BY <2>1 DEF Paths
    <3>2. o \in DOMAIN PathsOf /\ o \notin Unguarded[d] \cup Resuming[d]
      BY <3>1, OperationsAssumption DEF Lax
    <3> QED
      BY <3>1, <3>2, UnbrokenMethods
  <2>2. PICK m \in Guards[d] : owner[m] = t
    BY <1>1, <2>1, AmidOwnsGuard
  <2>3. ASSUME path[u] \in Paths
        PROVE  GuardedBy(d, {}, path[u])
    <3>1. PICK o \in Operations : path[u] \in PathsOf[o]
      BY <2>3 DEF Paths
    <3>2. o \in DOMAIN PathsOf /\ o \notin Unguarded[d]
      BY <3>1, OperationsAssumption DEF Lax
    <3> QED
      BY <3>1, <3>2, GuardedMethods
  <2>4. owner[m] = u
    BY <1>1, <2>3, GuardsOwned
  <2> QED
    BY <2>2, <2>4
<1> QED
  BY <1>1, TypeCorrect, Ownership, PTL
=============================================================================
