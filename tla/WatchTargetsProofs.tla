-------------------------- MODULE WatchTargetsProofs --------------------------
(***************************************************************************)
(* Proofs about WatchTargets, for any queries, documents and bounds: no    *)
(* assertion of the client fails, what it listens to is what is wanted,    *)
(* and the cache of documents never goes back.                             *)
(***************************************************************************)
EXTENDS WatchInvariants, FiniteSetTheorems, SequenceTheorems, NaturalsInduction, TLAPS

-----------------------------------------------------------------------------
(* Maps from some of the elements of S to R.                               *)

\* A map is a function on part of S.
LEMMA PartialIs ==
    ASSUME NEW S, NEW R, NEW f
    PROVE  f \in Partial(S, R) <=> DOMAIN f \subseteq S /\ f \in [DOMAIN f -> R]
  BY DEF Partial

\* The empty map is the one without keys.
LEMMA NoneIs ==
    ASSUME NEW S, NEW R
    PROVE  /\ None \in Partial(S, R) /\ DOMAIN None = {}
           /\ \A f \in Partial(S, R) : f = None <=> DOMAIN f = {}
  <1>1. DOMAIN None = {} /\ None \in [{} -> R]
    BY DEF None
  <1>2. ASSUME NEW f \in Partial(S, R), DOMAIN f = {} PROVE f = None
    <2>1. f \in [{} -> R]
      BY <1>2, PartialIs
    <2> QED  BY <2>1 DEF None
  <1> QED  BY <1>1, <1>2, PartialIs

\* A map without keys is the empty one.
LEMMA NoneOnly ==
    ASSUME NEW S, NEW R, NEW f \in Partial(S, R), DOMAIN f = {}
    PROVE  f = None
  BY NoneIs

\* What a map over another has for keys and values.
LEMMA OverKeys ==
    ASSUME NEW f, NEW g
    PROVE  /\ \A x : x \in DOMAIN (f ++ g) <=> x \in DOMAIN f \/ x \in DOMAIN g
           /\ \A x \in DOMAIN f : (f ++ g)[x] = f[x]
           /\ \A x \in DOMAIN g : x \notin DOMAIN f => (f ++ g)[x] = g[x]
  BY DEF ++

\* A map over a map is a map.
LEMMA OverIs ==
    ASSUME NEW S, NEW R, NEW f \in Partial(S, R), NEW g \in Partial(S, R)
    PROVE  f ++ g \in Partial(S, R)
  <1>1. f \in [DOMAIN f -> R] /\ DOMAIN f \subseteq S
    BY PartialIs
  <1>2. g \in [DOMAIN g -> R] /\ DOMAIN g \subseteq S
    BY PartialIs
  <1>3. DOMAIN (f ++ g) = DOMAIN f \cup DOMAIN g
    BY DEF ++
  <1>4. f ++ g \in [DOMAIN f \cup DOMAIN g -> R]
    BY <1>1, <1>2 DEF ++
  <1> QED  BY <1>1, <1>2, <1>3, <1>4, PartialIs

\* A map with one key.
LEMMA OnlyIs ==
    ASSUME NEW S, NEW R, NEW x \in S, NEW v \in R
    PROVE  Only(x, v) \in Partial(S, R) /\ DOMAIN Only(x, v) = {x} /\ Only(x, v)[x] = v
  <1>1. DOMAIN Only(x, v) = {x} /\ Only(x, v)[x] = v /\ Only(x, v) \in [{x} -> R]
    BY DEF Only
  <1> QED  BY <1>1, PartialIs

\* A map restricted to some of its keys.
LEMMA RestrictIs ==
    ASSUME NEW S, NEW R, NEW f \in Partial(S, R), NEW D, D \subseteq DOMAIN f
    PROVE  /\ Restrict(f, D) \in Partial(S, R) /\ DOMAIN Restrict(f, D) = D
           /\ \A x \in D : Restrict(f, D)[x] = f[x]
  <1>1. f \in [DOMAIN f -> R] /\ DOMAIN f \subseteq S
    BY PartialIs
  <1>2. DOMAIN Restrict(f, D) = D /\ Restrict(f, D) \in [D -> R]
    BY <1>1 DEF Restrict
  <1>3. \A x \in D : Restrict(f, D)[x] = f[x]
    BY DEF Restrict
  <1> QED  BY <1>1, <1>2, <1>3, PartialIs

\* A map without one of its keys.
LEMMA WithoutIs ==
    ASSUME NEW S, NEW R, NEW f \in Partial(S, R), NEW x
    PROVE  /\ Without(f, x) \in Partial(S, R) /\ DOMAIN Without(f, x) = DOMAIN f \ {x}
           /\ \A y \in DOMAIN f \ {x} : Without(f, x)[y] = f[y]
  BY RestrictIs DEF Without

\* The elements of a finite set in an order: each of them, once.
LEMMA SetToSeqIs ==
    ASSUME NEW S, IsFiniteSet(S)
    PROVE  /\ SetToSeq(S) \in Seq(S) /\ Len(SetToSeq(S)) = Cardinality(S)
           /\ DOMAIN SetToSeq(S) = 1 .. Cardinality(S) /\ Cardinality(S) \in Nat
           /\ \A x \in S : \E i \in DOMAIN SetToSeq(S) : SetToSeq(S)[i] = x
           /\ \A i, j \in DOMAIN SetToSeq(S) : SetToSeq(S)[i] = SetToSeq(S)[j] => i = j
           /\ \A i \in DOMAIN SetToSeq(S) : SetToSeq(S)[i] \in S
  <1> DEFINE n == Cardinality(S)
             f == SetToSeq(S)
  <1>1. n \in Nat /\ ExistsBijection(1 .. n, S)
    BY FS_CardinalityType
  <1>2. \E g \in [1 .. n -> S] : IsInjective(g)
    BY <1>1 DEF ExistsBijection, Bijection, Injection, IsInjective
  <1>3. f \in [1 .. n -> S] /\ IsInjective(f)
    BY <1>2 DEF SetToSeq
  <1> HIDE DEF f
  <1>4. f \in Injection(1 .. n, S)
    BY <1>3 DEF Injection, IsInjective
  <1>5. IsFiniteSet(1 .. n) /\ Cardinality(1 .. n) = n
    <2>1. Cardinality(1 .. n) = IF 1 > n THEN 0 ELSE n - 1 + 1
      BY <1>1, FS_Interval
    <2> QED  BY <1>1, <2>1, FS_Interval
  <1>6. f \in Surjection(1 .. n, S)
    BY <1>4, <1>5, FS_Injection
  <1>7. f \in Seq(S) /\ Len(f) = n
    BY <1>1, <1>3
  <1> QED  BY <1>1, <1>3, <1>6, <1>7 DEF f, Surjection, IsInjective

\* Every number, if each follows from the one before.
LEMMA EveryNumber ==
    ASSUME NEW T, 0 \in T, \A i \in Nat : i \in T => i + 1 \in T
    PROVE  Nat \subseteq T
  <1> DEFINE R == OpToRel(<, Nat)
             M == Nat \ T
  <1>1. IsWellFoundedOn(R, Nat)
    BY NatLessThanWellFounded
  <1>2. M \subseteq Nat /\ \A k \in M : k # 0 /\ k - 1 \in M
    <2>1. ASSUME NEW k \in M PROVE k # 0 /\ k - 1 \in M
      <3>1. k # 0 /\ k - 1 \in Nat
        OBVIOUS
      <3>2. k - 1 \in T => k - 1 + 1 \in T
        BY <3>1
      <3> QED  BY <3>1, <3>2
    <2> QED  BY <2>1
  <1> HIDE DEF M, R
  <1>3. SUFFICES ASSUME M # {} PROVE FALSE
    BY DEF M
  <1>4. PICK k \in M : \A j \in M : ~(<<j, k>> \in R)
    BY <1>1, <1>2, <1>3, WFMin, Zenon
  <1>5. k - 1 \in Nat /\ k \in Nat /\ k - 1 < k
    BY <1>2
  <1>6. <<k - 1, k>> \in R
    BY <1>5 DEF OpToRel, R
  <1> QED  BY <1>2, <1>4, <1>6

\* The largest of the numbers up to n with which a set has one.
LEMMA MaxIs ==
    ASSUME NEW n \in Nat, NEW S \in SUBSET (0 .. n), 0 \in S
    PROVE  Max(S) \in S /\ \A i \in S : i <= Max(S)
  <1> DEFINE T == {k \in Nat : \A m \in S : m <= k}
             R == OpToRel(<, Nat)
  <1>1. n \in T
    OBVIOUS
  <1>2. T # {} /\ T \subseteq Nat
    BY <1>1
  <1>3. IsWellFoundedOn(R, Nat)
    BY NatLessThanWellFounded
  <1>4. \A m \in T : m \in Nat /\ \A x \in S : x <= m
    OBVIOUS
  <1>5. \A m \in Nat : (\A x \in S : x <= m) => m \in T
    OBVIOUS
  <1> HIDE DEF T, R
  <1>6. PICK k \in T : \A j \in T : ~(<<j, k>> \in R)
    BY <1>2, <1>3, WFMin, Zenon
  <1>7. \A j \in T : ~(j < k)
    BY <1>2, <1>6 DEF OpToRel, R
  <1>8. k \in Nat /\ \A m \in S : m <= k
    BY <1>4
  <1>9. k \in S
    <2>1. SUFFICES ASSUME k \notin S PROVE FALSE
      OBVIOUS
    <2>2. k # 0 /\ k - 1 \in Nat
      BY <1>8, <2>1
    <2>3. \A m \in S : m <= k - 1
      BY <1>8, <2>1, <2>2
    <2>4. k - 1 \in T
      BY <1>5, <2>2, <2>3
    <2> QED  BY <1>7, <1>8, <2>4
  <1>10. \E x \in S : \A y \in S : x >= y
    BY <1>8, <1>9
  <1> QED  BY <1>10 DEF Max

\* The last change of a document is a version, and the document has a state.
LEMMA AtIs ==
    ASSUME NEW d, NEW v \in Nat
    PROVE  LastChange(d, v) \in 0 .. v /\ At(d, v) \in DocState
  <1> DEFINE S == {0} \cup {i \in 1 .. v : log[i].doc = d}
  <1>1. S \in SUBSET (0 .. v) /\ 0 \in S
    OBVIOUS
  <1>2. Max(S) \in 0 .. v
    BY <1>1, MaxIs
  <1>3. LastChange(d, v) \in 0 .. v
    BY <1>2 DEF LastChange
  <1> QED  BY <1>3 DEF At, DocState

\* The backend's data are those of its log.
LEMMA AtIn ==
    ASSUME NEW d, NEW v
    PROVE  At(d, v).there = There(log, d, v) /\ At(d, v).at = LastIn(log, d, v)
  BY DEF At, LastChange, LastIn, There

\* The last change is one of the document, or there is none.
LEMMA LastInIs ==
    ASSUME NEW l, NEW d, NEW v \in Nat
    PROVE  /\ LastIn(l, d, v) \in 0 .. v
           /\ LastIn(l, d, v) # 0 => l[LastIn(l, d, v)].doc = d
           /\ \A i \in 1 .. v : l[i].doc = d => i <= LastIn(l, d, v)
  <1> DEFINE S == {0} \cup {i \in 1 .. v : l[i].doc = d}
  <1>1. S \in SUBSET (0 .. v) /\ 0 \in S
    OBVIOUS
  <1> HIDE DEF S
  <1>2. Max(S) \in S /\ \A i \in S : i <= Max(S)
    BY <1>1, MaxIs
  <1> QED  BY <1>1, <1>2 DEF S, LastIn

\* It is the only such version.
LEMMA LastInOnly ==
    ASSUME NEW l, NEW d, NEW v \in Nat, NEW n \in 0 .. v, n # 0 => l[n].doc = d,
           \A i \in 1 .. v : l[i].doc = d => i <= n
    PROVE  LastIn(l, d, v) = n
  <1>1. /\ LastIn(l, d, v) \in 0 .. v
        /\ LastIn(l, d, v) # 0 => l[LastIn(l, d, v)].doc = d
        /\ \A i \in 1 .. v : l[i].doc = d => i <= LastIn(l, d, v)
    BY LastInIs
  <1> QED  BY <1>1

\* What has not changed since a version was the same at it.
LEMMA Unchanged ==
    ASSUME NEW l, NEW d, NEW v \in Nat, NEW w \in Nat, v <= w, LastIn(l, d, w) <= v
    PROVE  LastIn(l, d, v) = LastIn(l, d, w) /\ There(l, d, v) = There(l, d, w)
  <1>1. /\ LastIn(l, d, w) \in 0 .. w
        /\ LastIn(l, d, w) # 0 => l[LastIn(l, d, w)].doc = d
        /\ \A i \in 1 .. w : l[i].doc = d => i <= LastIn(l, d, w)
    BY LastInIs
  <1>2. LastIn(l, d, v) = LastIn(l, d, w)
    BY <1>1, LastInOnly
  <1> QED  BY <1>2 DEF There

\* The next version is the last change of its document, and none of the others'.
LEMMA NextChange ==
    ASSUME NEW l, NEW d, NEW v \in Nat
    PROVE  /\ l[v + 1].doc = d => LastIn(l, d, v + 1) = v + 1
           /\ l[v + 1].doc # d => /\ LastIn(l, d, v + 1) = LastIn(l, d, v)
                                  /\ There(l, d, v + 1) = There(l, d, v)
  <1>1. l[v + 1].doc = d => LastIn(l, d, v + 1) = v + 1
    BY LastInOnly
  <1>2. ASSUME l[v + 1].doc # d
        PROVE  LastIn(l, d, v + 1) = LastIn(l, d, v) /\ There(l, d, v + 1) = There(l, d, v)
    <2>1. LastIn(l, d, v + 1) <= v
      BY <1>2, LastInIs
    <2> QED  BY <2>1, Unchanged
  <1> QED  BY <1>1, <1>2

\* Later changes are none to earlier versions.
LEMMA AppendChange ==
    ASSUME NEW R, NEW l \in Seq(R), NEW e \in R, NEW d, NEW v \in 0 .. Len(l)
    PROVE  /\ LastIn(Append(l, e), d, v) = LastIn(l, d, v)
           /\ There(Append(l, e), d, v) = There(l, d, v)
  <1> DEFINE a == Append(l, e)
  <1>1. \A i \in 1 .. v : a[i] = l[i]
    OBVIOUS
  <1> HIDE DEF a
  <1>2. /\ LastIn(l, d, v) \in 0 .. v
        /\ LastIn(l, d, v) # 0 => l[LastIn(l, d, v)].doc = d
        /\ \A i \in 1 .. v : l[i].doc = d => i <= LastIn(l, d, v)
    BY LastInIs
  <1>3. LastIn(a, d, v) = LastIn(l, d, v)
    BY <1>1, <1>2, LastInOnly
  <1> QED  BY <1>1, <1>2, <1>3 DEF There, a

\* The documents a target is about; a document query is about one.
LEMMA KeysOfIs ==
    ASSUME NEW t \in Target
    PROVE  /\ KeysOf(t) \subseteq Doc
           /\ IsDocumentQuery(t) => \E k \in Doc : KeysOf(t) = {k}
  <1>1. CASE t \in Query
    <2>1. Matches[t] \subseteq Doc
      BY <1>1, TargetsAssumption
    <2>2. IsDocumentQuery(t) => Cardinality(Matches[t]) = 1 /\ IsFiniteSet(Matches[t])
      BY <1>1, <2>1, TargetsAssumption, FS_Subset DEF IsDocumentQuery
    <2> QED  BY <1>1, <2>1, <2>2, FS_Singleton DEF KeysOf
  <1>2. CASE t \notin Query
    BY <1>2 DEF KeysOf, Target, LimboTarget
  <1> QED  BY <1>1, <1>2

-----------------------------------------------------------------------------
(* What a step leaves of the client.                                       *)

\* The stream and the online state of s are those of u, and the messages collected
SameLine(s, u) ==
    /\ u.enabled = s.enabled /\ u.stream = s.stream /\ u.online = s.online
    /\ u.failures = s.failures /\ u.timer = s.timer
    /\ u.docs = s.docs /\ u.resets = s.resets

\* The sync engine's and the local store's part of s is that of u
SameEngine(s, u) ==
    /\ u.mem = s.mem /\ u.limbo = s.limbo /\ u.nextLimbo = s.nextLimbo

\* The views are the same, but may have heard of Offline
SameLimbo(s, u) ==
    /\ DOMAIN u.views = DOMAIN s.views
    /\ \A q \in DOMAIN s.views : u.views[q].limbo = s.views[q].limbo

-----------------------------------------------------------------------------
(* The online state.                                                       *)

\* An assertion that holds changes nothing.
LEMMA AssertHolds ==
    ASSUME NEW s \in Client, s.ok, NEW condition, condition
    PROVE  HardAssert(s, condition) = s
  BY DEF HardAssert, Client

\* A view of the map of views.
LEMMA ViewsAre ==
    ASSUME NEW s \in Client
    PROVE  \A q \in DOMAIN s.views :
              /\ q \in Query /\ s.views[q] \in View
              /\ s.views[q].current \in BOOLEAN /\ s.views[q].limbo \subseteq Doc
  <1>1. s.views \in Partial(Query, View)
    BY DEF Client
  <1>2. DOMAIN s.views \subseteq Query /\ \A q \in DOMAIN s.views : s.views[q] \in View
    BY <1>1, PartialIs
  <1> QED  BY <1>2 DEF View

\* SetAndBroadcast changes the online state, and with it the views' currency.
LEMMA SetOnlineIs ==
    ASSUME NEW s \in Client, NEW state \in OnlineStates
    PROVE  LET u == SetOnline(s, state)
           IN /\ u \in Client /\ SameEngine(s, u) /\ SameLimbo(s, u)
              /\ u = [s EXCEPT !.online = state, !.views = u.views]
              /\ state # "Offline" => u.views = s.views
  <1> DEFINE u == SetOnline(s, state)
             views == [q \in DOMAIN s.views |->
                          [current |-> FALSE, limbo |-> s.views[q].limbo]]
             new == IF state # "Offline" THEN s.views ELSE views
  <1>1. views \in Partial(Query, View)
    <2>1. DOMAIN s.views \subseteq Query /\ DOMAIN views = DOMAIN s.views
      BY ViewsAre
    <2>2. views \in [DOMAIN s.views -> View]
      BY ViewsAre DEF View
    <2> QED  BY <2>1, <2>2, PartialIs
  <1>2. new \in Partial(Query, View)
    BY <1>1 DEF Client
  <1>3. u = [s EXCEPT !.online = state, !.views = new]
    BY DEF SetOnline
  <1>4. DOMAIN new = DOMAIN s.views /\ \A q \in DOMAIN new : new[q].limbo = s.views[q].limbo
    OBVIOUS
  <1>5. state # "Offline" => new = s.views
    OBVIOUS
  <1> HIDE DEF new, views, u
  <1>6. u \in Client /\ u.views = new
    BY <1>2, <1>3 DEF Client
  <1>7. u.mem = s.mem /\ u.limbo = s.limbo /\ u.nextLimbo = s.nextLimbo
    BY <1>3 DEF Client
  <1> QED  BY <1>3, <1>4, <1>5, <1>6, <1>7 DEF u, SameEngine, SameLimbo

\* UpdateState settles the online state.
LEMMA UpdateStateIs ==
    ASSUME NEW s, Steady(s), IdleKnown(s), NEW state \in OnlineStates
    PROVE  LET u == UpdateState(s, state)
           IN /\ Sound(u) /\ SameEngine(s, u) /\ SameLimbo(s, u)
              /\ u = [s EXCEPT !.timer = FALSE, !.failures = 0, !.online = state,
                               !.views = u.views]
              /\ state # "Offline" => u.views = s.views
  <1> DEFINE u == UpdateState(s, state)
             r == [s EXCEPT !.timer = FALSE, !.failures = 0]
  <1>1. s \in Client
    BY DEF Steady
  <1>2. r \in Client
    BY <1>1 DEF Client
  <1>3. u = SetOnline(r, state)
    BY DEF UpdateState
  <1> HIDE DEF u
  <1>4. /\ u \in Client /\ SameEngine(r, u) /\ SameLimbo(r, u)
        /\ u = [r EXCEPT !.online = state, !.views = u.views]
        /\ state # "Offline" => u.views = r.views
    BY <1>2, <1>3, SetOnlineIs
  <1>5. r.views = s.views /\ r.mem = s.mem /\ r.limbo = s.limbo /\ r.nextLimbo = s.nextLimbo
    BY <1>1 DEF Client
  <1>6. SameEngine(s, u) /\ SameLimbo(s, u)
    BY <1>4, <1>5 DEF SameEngine, SameLimbo
  <1>7. u = [s EXCEPT !.timer = FALSE, !.failures = 0, !.online = state, !.views = u.views]
    BY <1>1, <1>4 DEF Client
  <1>8. /\ u.timer = FALSE /\ u.failures = 0 /\ u.ok = s.ok /\ u.stream = s.stream
        /\ u.conn = s.conn /\ u.targets = s.targets /\ u.states = s.states
        /\ u.limbo = s.limbo /\ u.nextLimbo = s.nextLimbo /\ u.idle = s.idle
    BY <1>1, <1>4 DEF Client
  <1> HIDE DEF r
  <1>9. Steady(u)
    BY <1>4, <1>8 DEF Steady, AllNumbered, Numbered, RequestedIds, ChangesKnown
  <1>10. OnlineKnown(u) /\ IdleKnown(u)
    BY <1>8 DEF OnlineKnown, IdleKnown
  <1> QED  BY <1>4, <1>5, <1>6, <1>7, <1>9, <1>10 DEF u, Sound

-----------------------------------------------------------------------------
(* The watch stream.                                                       *)

\* The stream starts when it was not started.
LEMMA StartIs ==
    ASSUME NEW s, Sound(s), ~Started(s)
    PROVE  LET u == StartWatchStream(s)
           IN /\ Sound(u) /\ Started(u) /\ u.stream # "Open" /\ u.views = s.views
              /\ u = [s EXCEPT !.stream = u.stream, !.online = u.online, !.timer = u.timer]
  <1> DEFINE next == IF s.stream = "Error" THEN "Backoff" ELSE "Starting"
             r == [s EXCEPT !.stream = next]
             o == SetOnline(r, "Unknown")
             u == StartWatchStream(s)
  <1>1. s \in Client /\ s.ok /\ s.stream \in {"Initial", "Error"} /\ ~s.timer /\ ~s.idle
    <2>1. s \in Client /\ s.ok /\ ~s.timer /\ (s.idle => s.stream = "Open")
      BY DEF Sound, Steady, OnlineKnown, IdleKnown
    <2>2. s.stream \in Streams
      BY <2>1 DEF Client
    <2> QED  BY <2>1, <2>2 DEF Streams, Started
  <1>2. next \in Streams /\ next \in {"Backoff", "Starting"}
    BY DEF Streams
  <1> HIDE DEF next
  <1>3. HardAssert(s, s.stream \in {"Initial", "Error"}) = s
    BY <1>1, AssertHolds
  <1>4. r \in Client /\ r.stream = next /\ r.ok /\ r.timer = s.timer
        /\ r.failures = s.failures
    BY <1>1, <1>2 DEF Client
  <1>5. u = HandleWatchStreamStart(r)
    <2>1. [HardAssert(s, s.stream \in {"Initial", "Error"}) EXCEPT
             !.stream = IF @ = "Error" THEN "Backoff" ELSE "Starting"] = r
      BY <1>1, <1>3 DEF Client, next
    <2> QED  BY <2>1 DEF StartWatchStream
  <1>6. /\ o \in Client /\ o.views = r.views
        /\ o = [r EXCEPT !.online = "Unknown", !.views = o.views]
    BY <1>4, SetOnlineIs DEF OnlineStates
  <1> HIDE DEF o, u
  <1>7. u \in {r, [o EXCEPT !.timer = TRUE]} /\ (r.failures # 0 => u = r)
        /\ (r.failures = 0 => u = [o EXCEPT !.timer = TRUE])
    <2>1. o.ok
      BY <1>4, <1>6 DEF Client
    <2>2. HardAssert(o, ~r.timer) = o
      BY <1>1, <1>4, <1>6, <2>1, AssertHolds
    <2>3. HandleWatchStreamStart(r) = IF r.failures # 0 THEN r
                                      ELSE [HardAssert(o, ~r.timer) EXCEPT !.timer = TRUE]
      BY DEF HandleWatchStreamStart, o
    <2> QED  BY <1>5, <2>2, <2>3
  <1>8. /\ u \in Client /\ u.views = s.views
        /\ u = [s EXCEPT !.stream = next, !.online = u.online, !.timer = u.timer]
    <2>1. CASE u = r
      BY <1>1, <1>4, <2>1 DEF Client
    <2>2. CASE u = [o EXCEPT !.timer = TRUE]
      <3>1. u \in Client /\ u.views = s.views
        BY <1>1, <1>4, <1>6, <2>2 DEF Client
      <3>2. u = [s EXCEPT !.stream = next, !.online = "Unknown", !.timer = TRUE]
        BY <1>1, <1>4, <1>6, <2>2 DEF Client
      <3> QED  BY <1>1, <3>1, <3>2 DEF Client
    <2> QED  BY <1>7, <2>1, <2>2
  <1>9. (r.failures # 0 => u.timer = s.timer /\ u.online = s.online)
        /\ (r.failures = 0 => u.timer = TRUE /\ u.online = "Unknown")
    <2>1. r.timer = s.timer /\ r.online = s.online
      BY <1>1 DEF Client
    <2>2. [o EXCEPT !.timer = TRUE].timer = TRUE /\ [o EXCEPT !.timer = TRUE].online = o.online
      BY <1>6 DEF Client
    <2>3. o.online = "Unknown"
      BY <1>4, <1>6 DEF Client
    <2> QED  BY <1>7, <2>1, <2>2, <2>3, Zenon
  <1>10. /\ u.ok = s.ok /\ u.stream = next /\ u.failures = s.failures
         /\ u.conn = s.conn /\ u.targets = s.targets /\ u.states = s.states
         /\ u.limbo = s.limbo /\ u.nextLimbo = s.nextLimbo /\ u.idle = s.idle
    BY <1>1, <1>8 DEF Client
  <1> HIDE DEF r
  <1>11. Steady(u)
    <2>1. s.stream # "Open"
      BY <1>1
    <2> QED
      BY <1>8, <1>10, <2>1 DEF Sound, Steady, AllNumbered, Numbered, RequestedIds, ChangesKnown
  <1>12. Started(u) /\ u.stream # "Open"
    BY <1>2, <1>10 DEF Started
  <1>13. OnlineKnown(u) /\ IdleKnown(u)
    BY <1>1, <1>4, <1>9, <1>10, <1>12 DEF Sound, OnlineKnown, IdleKnown
  <1> QED  BY <1>8, <1>10, <1>11, <1>12, <1>13 DEF Sound, u

\* A closed stream's targets are forgotten; what nobody has requested is in no order.
LEMMA DisconnectedIs ==
    /\ Disconnected \in AnyConn /\ Disconnected.served = None
    /\ Disconnected.requests = <<>> /\ DOMAIN Disconnected.requests = {}
    /\ DOMAIN Disconnected.served = {}
  <1>1. None \in Partial(Target, ServedState) /\ DOMAIN None = {}
    BY NoneIs
  <1>2. <<>> \in Seq(AnyRequest) /\ DOMAIN <<>> = {}
    BY EmptySeq
  <1>3. 0 \in Version
    BY TargetsAssumption DEF Version
  <1> QED  BY <1>1, <1>2, <1>3 DEF Disconnected, AnyConn

\* Nothing is open, collected or outstanding.
Silent(s) == s.stream # "Open" /\ s.docs = None /\ s.states = None /\ s.conn = Disconnected

\* The stream is closed, and started again if it is still needed.
LEMMA CloseIs ==
    ASSUME NEW s, Sound(s), Started(s), NEW stream \in {"Initial", "Error"},
           stream = "Error" \/ ~s.enabled \/ s.targets = None
    PROVE  LET u == Close(s, stream)
           IN /\ Sound(u) /\ Watched(u) /\ SameEngine(s, u) /\ SameLimbo(s, u)
              /\ u.targets = s.targets /\ u.enabled = s.enabled
              /\ ~s.enabled \/ s.targets = None => u.stream = stream
              /\ Silent(u)
  <1> DEFINE h == [s EXCEPT !.stream = stream, !.idle = FALSE, !.conn = Disconnected]
             t == CleanUp(h)
             f == HandleWatchStreamFailure(t)
             u == Close(s, stream)
  <1>1. s \in Client /\ s.ok /\ Steady(s) /\ OnlineKnown(s)
    BY DEF Sound, Steady
  <1>2. HardAssert(s, Started(s)) = s
    BY <1>1, AssertHolds
  <1>3. /\ t \in Client /\ t.ok /\ t.stream = stream /\ t.conn = Disconnected /\ ~t.idle
        /\ t.states = None /\ t.docs = None /\ t.targets = s.targets /\ t.enabled = s.enabled
        /\ t.limbo = s.limbo /\ t.nextLimbo = s.nextLimbo /\ t.mem = s.mem
        /\ t.views = s.views /\ t.online = s.online /\ t.timer = s.timer
        /\ t.failures = s.failures
    <2>1. stream \in Streams /\ Disconnected \in AnyConn
      BY DisconnectedIs DEF Streams
    <2>2. None \in Partial(Target, TargetState) /\ None \in Partial(Doc, DocState)
      BY NoneIs
    <2>3. h \in Client /\ h.stream = stream /\ h.conn = Disconnected /\ ~h.idle
      BY <1>1, <2>1 DEF Client
    <2> QED  BY <1>1, <2>1, <2>2, <2>3 DEF CleanUp, Client
  <1>4. ~Started(t)
    BY <1>3 DEF Started
  <1>5. Steady(t) /\ IdleKnown(t)
    <2>1. AllNumbered(t)
      BY <1>1, <1>3, DisconnectedIs, NoneIs DEF Steady, AllNumbered, Numbered, RequestedIds
    <2>2. ChangesKnown(t)
      BY <1>3, NoneIs DEF ChangesKnown
    <2> QED  BY <1>1, <1>3, <2>1, <2>2 DEF Steady, IdleKnown
  <1>6. HardAssert(t, stream = "Error" \/ ~ShouldStartWatchStream(t)) = t
    BY <1>3, AssertHolds DEF ShouldStartWatchStream
  <1>7. u = IF ShouldStartWatchStream(t) THEN StartWatchStream(f)
            ELSE UpdateState(t, "Unknown")
    BY <1>2, <1>6 DEF Close
  <1> HIDE DEF h, t, u
  <1>8. ASSUME ShouldStartWatchStream(t)
        PROVE  /\ Sound(f) /\ ~Started(f) /\ SameEngine(s, f) /\ SameLimbo(s, f)
               /\ f.targets = s.targets /\ f.conn = t.conn /\ f.enabled = s.enabled
               /\ f.docs = None /\ f.states = None
    <2>1. CASE t.online = "Online"
      <3> DEFINE o == SetOnline(t, "Unknown")
      <3>1. /\ o \in Client /\ o.views = t.views
            /\ o = [t EXCEPT !.online = "Unknown", !.views = o.views]
        BY <1>3, SetOnlineIs DEF OnlineStates
      <3> HIDE DEF o
      <3>2. t.failures = 0 /\ ~t.timer
        BY <1>1, <1>3, <2>1 DEF OnlineKnown
      <3>3. o.ok
        BY <1>3, <3>1 DEF Client
      <3>4. f = o
        <4>1. HardAssert(o, t.failures = 0 /\ ~t.timer) = o
          BY <3>1, <3>2, <3>3, AssertHolds
        <4> QED  BY <2>1, <4>1 DEF f, HandleWatchStreamFailure, o
      <3>5. /\ f.ok = t.ok /\ f.stream = t.stream /\ f.failures = t.failures
            /\ f.conn = t.conn /\ f.targets = t.targets /\ f.states = t.states
            /\ f.limbo = t.limbo /\ f.nextLimbo = t.nextLimbo /\ f.idle = t.idle
            /\ f.mem = t.mem /\ f.timer = t.timer /\ f.enabled = t.enabled
            /\ f.online = "Unknown" /\ f.views = t.views /\ f.docs = t.docs
        BY <1>3, <3>1, <3>4 DEF Client
      <3> HIDE DEF f
      <3>6. Steady(f)
        BY <1>5, <3>1, <3>4, <3>5 DEF Steady, AllNumbered, Numbered, RequestedIds, ChangesKnown
      <3>7. OnlineKnown(f) /\ IdleKnown(f)
        BY <1>3, <3>2, <3>5 DEF OnlineKnown, IdleKnown
      <3>8. SameEngine(s, f) /\ SameLimbo(s, f)
        BY <1>3, <3>5 DEF SameEngine, SameLimbo
      <3> QED  BY <1>3, <1>4, <3>5, <3>6, <3>7, <3>8 DEF Sound, Started
    <2>2. CASE t.online # "Online"
      <3> DEFINE r == [t EXCEPT !.failures = @ + 1, !.timer = FALSE]
      <3>1. r \in Client
        <4>1. t.failures \in Nat
          BY <1>3 DEF Client
        <4>2. t.failures + 1 \in Nat
          BY <4>1
        <4> QED  BY <1>3, <4>2 DEF Client
      <3>2. f = SetOnline(r, "Offline")
        BY <2>2 DEF f, HandleWatchStreamFailure
      <3>3. /\ f \in Client /\ SameEngine(r, f) /\ SameLimbo(r, f)
            /\ f = [r EXCEPT !.online = "Offline", !.views = f.views]
        BY <3>1, <3>2, SetOnlineIs DEF OnlineStates
      <3> HIDE DEF f
      <3>4. /\ f.ok = t.ok /\ f.stream = t.stream
            /\ f.conn = t.conn /\ f.targets = t.targets /\ f.states = t.states
            /\ f.limbo = t.limbo /\ f.nextLimbo = t.nextLimbo /\ f.idle = t.idle
            /\ f.mem = t.mem /\ f.timer = FALSE /\ f.enabled = t.enabled
            /\ f.online = "Offline" /\ f.docs = t.docs
        BY <1>3, <3>1, <3>3 DEF Client
      <3>5. r.mem = t.mem /\ r.views = t.views
        BY <1>3 DEF Client
      <3> HIDE DEF r
      <3>6. Steady(f)
        BY <1>5, <3>3, <3>4 DEF Steady, AllNumbered, Numbered, RequestedIds, ChangesKnown
      <3>7. OnlineKnown(f) /\ IdleKnown(f)
        BY <1>3, <3>4 DEF OnlineKnown, IdleKnown
      <3>8. SameEngine(s, f) /\ SameLimbo(s, f)
        BY <1>3, <3>3, <3>4, <3>5 DEF SameEngine, SameLimbo
      <3> QED  BY <1>3, <1>4, <3>4, <3>6, <3>7, <3>8 DEF Sound, Started
    <2> QED  BY <2>1, <2>2
  <1> HIDE DEF f
  <1>9. CASE ShouldStartWatchStream(t)
    <2> DEFINE w == StartWatchStream(f)
    <2>1. /\ Sound(w) /\ w.views = f.views /\ w.stream # "Open"
          /\ w = [f EXCEPT !.stream = w.stream, !.online = w.online, !.timer = w.timer]
      BY <1>8, <1>9, StartIs
    <2>2. u = w
      BY <1>7, <1>9
    <2> HIDE DEF w
    <2>3. f \in Client
      BY <1>8, <1>9 DEF Sound, Steady
    <2>4. /\ w.mem = f.mem /\ w.limbo = f.limbo /\ w.nextLimbo = f.nextLimbo
          /\ w.targets = f.targets /\ w.enabled = f.enabled /\ w.conn = f.conn
          /\ w.docs = f.docs /\ w.states = f.states
      BY <2>1, <2>3 DEF Client
    <2>5. SameEngine(s, u) /\ SameLimbo(s, u)
      BY <1>8, <1>9, <2>1, <2>2, <2>4 DEF SameEngine, SameLimbo
    <2>6. Watched(u)
      BY <1>3, <1>8, <1>9, <2>2, <2>4, DisconnectedIs DEF Watched
    <2>7. s.enabled /\ s.targets # None
      BY <1>3, <1>9 DEF ShouldStartWatchStream
    <2>8. Silent(u)
      BY <1>3, <1>8, <1>9, <2>1, <2>2, <2>4 DEF Silent
    <2> QED  BY <1>3, <1>8, <1>9, <2>1, <2>2, <2>4, <2>5, <2>6, <2>7, <2>8 DEF u
  <1>10. CASE ~ShouldStartWatchStream(t)
    <2> DEFINE w == UpdateState(t, "Unknown")
    <2>1. /\ Sound(w) /\ SameEngine(t, w) /\ SameLimbo(t, w)
          /\ w = [t EXCEPT !.timer = FALSE, !.failures = 0, !.online = "Unknown",
                           !.views = w.views]
      BY <1>5, UpdateStateIs DEF OnlineStates
    <2>2. u = w
      BY <1>7, <1>10
    <2> HIDE DEF w
    <2>3. w.targets = t.targets /\ w.enabled = t.enabled /\ w.conn = t.conn
          /\ w.stream = t.stream /\ w.docs = t.docs /\ w.states = t.states
      BY <1>3, <2>1 DEF Client
    <2>4. SameEngine(s, u) /\ SameLimbo(s, u)
      BY <1>3, <2>1, <2>2 DEF SameEngine, SameLimbo
    <2>5. Watched(u)
      BY <1>3, <2>2, <2>3, DisconnectedIs DEF Watched
    <2>6. Silent(u)
      BY <1>3, <2>2, <2>3 DEF Silent
    <2> QED  BY <1>3, <2>1, <2>2, <2>3, <2>4, <2>5, <2>6 DEF u
  <1> QED  BY <1>9, <1>10

-----------------------------------------------------------------------------
(* Requests.                                                               *)

\* No request mentions a target that none is about.
LEMMA MentionsAre ==
    ASSUME NEW r \in Seq(AnyRequest), NEW t
    PROVE  /\ IsFiniteSet({i \in DOMAIN r : r[i].id = t}) /\ Mentions(r, t) \in Nat
           /\ (\A i \in DOMAIN r : r[i].id # t) => Mentions(r, t) = 0
           /\ Mentions(r, t) = 0 => \A i \in DOMAIN r : r[i].id # t
  <1> DEFINE S == {i \in DOMAIN r : r[i].id = t}
  <1>1. Len(r) \in Nat /\ DOMAIN r = 1 .. Len(r)
    BY LenProperties
  <1>2. IsFiniteSet(1 .. Len(r))
    BY <1>1, FS_Interval
  <1>3. IsFiniteSet(S)
    BY <1>1, <1>2, FS_Subset
  <1>4. Cardinality(S) \in Nat /\ (Cardinality(S) = 0 <=> S = {})
    BY <1>3, FS_CardinalityType, FS_EmptySet
  <1>5. S = {} <=> \A i \in DOMAIN r : r[i].id # t
    OBVIOUS
  <1> QED  BY <1>3, <1>4, <1>5 DEF Mentions

\* Requests that are sent are added to those that wait.
LEMMA MentionsBoth ==
    ASSUME NEW r \in Seq(AnyRequest), NEW w \in Seq(AnyRequest), NEW t
    PROVE  Mentions(r \o w, t) = Mentions(r, t) + Mentions(w, t)
  <1> DEFINE c == r \o w
             n == Len(r)
             A == {i \in DOMAIN r : r[i].id = t}
             W == {i \in DOMAIN w : w[i].id = t}
             B == {i \in DOMAIN c : i > n /\ c[i].id = t}
             C == {i \in DOMAIN c : c[i].id = t}
             f == [i \in W |-> i + n]
  <1>1. /\ Len(c) = n + Len(w) /\ c \in Seq(AnyRequest)
        /\ \A i \in 1 .. Len(c) : c[i] = IF i <= n THEN r[i] ELSE w[i - n]
    BY ConcatProperties
  <1>2. /\ n \in Nat /\ DOMAIN r = 1 .. n
        /\ Len(w) \in Nat /\ DOMAIN w = 1 .. Len(w) /\ DOMAIN c = 1 .. n + Len(w)
    BY <1>1, LenProperties
  <1> HIDE DEF c, n
  <1>3. \A i \in 1 .. n : i \in DOMAIN c /\ c[i] = r[i]
    BY <1>1, <1>2
  <1>4. \A i \in DOMAIN w : i + n \in DOMAIN c /\ i + n > n /\ c[i + n] = w[i]
    <2> SUFFICES ASSUME NEW i \in DOMAIN w
                 PROVE  i + n \in DOMAIN c /\ i + n > n /\ c[i + n] = w[i]
      OBVIOUS
    <2>1. i + n \in 1 .. n + Len(w) /\ i + n > n /\ i + n - n = i
      BY <1>2
    <2> QED  BY <1>1, <1>2, <2>1
  <1>5. \A i \in DOMAIN c : i > n => i - n \in DOMAIN w /\ c[i] = w[i - n] /\ i - n + n = i
    <2> SUFFICES ASSUME NEW i \in DOMAIN c, i > n
                 PROVE  i - n \in DOMAIN w /\ c[i] = w[i - n] /\ i - n + n = i
      OBVIOUS
    <2>1. i - n \in 1 .. Len(w) /\ i - n + n = i
      BY <1>2
    <2> QED  BY <1>1, <1>2, <2>1
  <1>6. C = A \cup B
    <2>1. ASSUME NEW i \in C PROVE i \in A \cup B
      <3>1. i \in DOMAIN c /\ c[i].id = t
        OBVIOUS
      <3>2. CASE i > n
        BY <3>1, <3>2
      <3>3. CASE ~(i > n)
        <4>1. i \in 1 .. n
          BY <1>2, <3>1, <3>3
        <4> QED  BY <1>2, <1>3, <3>1, <4>1
      <3> QED  BY <3>2, <3>3
    <2>2. ASSUME NEW i \in A PROVE i \in C
      BY <1>2, <1>3
    <2>3. B \subseteq C
      OBVIOUS
    <2> QED  BY <2>1, <2>2, <2>3
  <1>7. A \cap B = {}
    BY <1>2
  <1>8. f \in Bijection(W, B)
    <2>1. \A i \in W : f[i] = i + n /\ f[i] \in B
      BY <1>4
    <2>2. f \in [W -> B]
      BY <2>1
    <2>3. \A i, j \in W : f[i] = f[j] => i = j
      BY <1>2, <2>1
    <2>4. \A i \in B : i - n \in W /\ f[i - n] = i
      BY <1>5
    <2> HIDE DEF f, W, B
    <2> QED  BY <2>2, <2>3, <2>4 DEF Bijection, Injection, Surjection, IsInjective
  <1> HIDE DEF f
  <1>9. IsFiniteSet(A) /\ IsFiniteSet(W) /\ Mentions(r, t) \in Nat /\ Mentions(w, t) \in Nat
    BY MentionsAre
  <1>10. IsFiniteSet(B) /\ Cardinality(B) = Cardinality(W)
    <2> HIDE DEF W, B
    <2>1. ExistsBijection(W, B)
      BY <1>8 DEF ExistsBijection
    <2> QED  BY <1>9, <2>1, FS_Bijection
  <1>11. Mentions(r, t) = Cardinality(A) /\ Mentions(w, t) = Cardinality(W)
         /\ Mentions(c, t) = Cardinality(C)
    BY DEF Mentions
  <1> HIDE DEF A, B, C, W
  <1>12. Cardinality(A \cup B) = Cardinality(A) + Cardinality(B) - Cardinality(A \cap B)
    BY <1>9, <1>10, FS_Union
  <1>13. Cardinality({}) = 0
    BY FS_EmptySet
  <1>14. Cardinality(C) = Cardinality(A) + Cardinality(W) - 0
    BY <1>6, <1>7, <1>10, <1>12, <1>13
  <1>15. Mentions(c, t) = Mentions(r, t) + Mentions(w, t)
    BY <1>9, <1>11, <1>14
  <1> QED  BY <1>15 DEF c

\* The oldest request is answered: there is one less about its target.
LEMMA MentionsTail ==
    ASSUME NEW r \in Seq(AnyRequest), r # <<>>
    PROVE  /\ Tail(r) \in Seq(AnyRequest)
           /\ Mentions(r, Head(r).id) = Mentions(Tail(r), Head(r).id) + 1
           /\ \A t : t # Head(r).id => Mentions(Tail(r), t) = Mentions(r, t)
  <1> DEFINE h == <<Head(r)>>
  <1>1. Head(r) \in AnyRequest /\ Tail(r) \in Seq(AnyRequest) /\ r = h \o Tail(r)
    <2>1. Head(r) \in AnyRequest /\ Tail(r) \in Seq(AnyRequest) /\ Len(Tail(r)) = Len(r) - 1
          /\ \A i \in 1 .. Len(Tail(r)) : Tail(r)[i] = r[i + 1]
      BY HeadTailProperties
    <2> QED  BY <2>1
  <1>2. h \in Seq(AnyRequest) /\ DOMAIN h = {1} /\ h[1] = Head(r)
    BY <1>1
  <1> HIDE DEF h
  <1>3. ASSUME NEW t PROVE Mentions(r, t) = Mentions(h, t) + Mentions(Tail(r), t)
    <2>1. Mentions(h \o Tail(r), t) = Mentions(h, t) + Mentions(Tail(r), t)
      BY <1>1, <1>2, MentionsBoth
    <2> QED  BY <1>1, <2>1, Zenon
  <1>4. \A t : t # Head(r).id => Mentions(h, t) = 0
    BY <1>2, MentionsAre
  <1>5. Mentions(h, Head(r).id) = 1
    <2>1. {i \in DOMAIN h : h[i].id = Head(r).id} = {1}
      BY <1>2
    <2>2. Cardinality({1}) = 1
      BY FS_Singleton
    <2> QED  BY <2>1, <2>2 DEF Mentions
  <1>6. \A t : Mentions(Tail(r), t) \in Nat
    BY <1>1, MentionsAre
  <1> QED  BY <1>1, <1>3, <1>4, <1>5, <1>6

\* Requests that are sent are added to those that wait.
LEMMA AskedBoth ==
    ASSUME NEW r \in Seq(AnyRequest), NEW w \in Seq(AnyRequest), NEW t
    PROVE  Asked(r \o w, t) = Asked(r, t) \cup Asked(w, t)
  <1> DEFINE c == r \o w
             n == Len(r)
  <1>1. /\ Len(c) = n + Len(w) /\ c \in Seq(AnyRequest)
        /\ \A i \in 1 .. Len(c) : c[i] = IF i <= n THEN r[i] ELSE w[i - n]
    BY ConcatProperties
  <1>2. /\ n \in Nat /\ DOMAIN r = 1 .. n
        /\ Len(w) \in Nat /\ DOMAIN w = 1 .. Len(w) /\ DOMAIN c = 1 .. n + Len(w)
    BY <1>1, LenProperties
  <1> HIDE DEF c, n
  <1>3. ASSUME NEW i \in DOMAIN c PROVE c[i] \in Range(r) \cup Range(w)
    <2>1. CASE i <= n
      BY <1>1, <1>2, <1>3, <2>1 DEF Range
    <2>2. CASE ~(i <= n)
      <3>1. i - n \in DOMAIN w /\ c[i] = w[i - n]
        BY <1>1, <1>2, <1>3, <2>2
      <3> QED  BY <3>1 DEF Range
    <2> QED  BY <2>1, <2>2
  <1>4. ASSUME NEW i \in DOMAIN r PROVE r[i] \in Range(c)
    <2>1. i \in DOMAIN c /\ c[i] = r[i]
      BY <1>1, <1>2
    <2> QED  BY <2>1 DEF Range
  <1>5. ASSUME NEW i \in DOMAIN w PROVE w[i] \in Range(c)
    <2>1. i + n \in DOMAIN c /\ ~(i + n <= n) /\ i + n - n = i
      BY <1>2
    <2>2. c[i + n] = w[i]
      BY <1>1, <1>2, <2>1
    <2> QED  BY <2>1, <2>2 DEF Range
  <1>6. Range(c) = Range(r) \cup Range(w)
    BY <1>3, <1>4, <1>5 DEF Range
  <1> QED  BY <1>6 DEF Asked, c

\* The oldest request is answered.
LEMMA AskedTail ==
    ASSUME NEW r \in Seq(AnyRequest), r # <<>>
    PROVE  /\ \A t : t # Head(r).id => Asked(Tail(r), t) = Asked(r, t)
           /\ \A t : Asked(Tail(r), t) \subseteq Asked(r, t)
           /\ Head(r) \in Asked(r, Head(r).id)
  <1> DEFINE h == <<Head(r)>>
  <1>1. Head(r) \in AnyRequest /\ Tail(r) \in Seq(AnyRequest) /\ r = h \o Tail(r)
    <2>1. Head(r) \in AnyRequest /\ Tail(r) \in Seq(AnyRequest) /\ Len(Tail(r)) = Len(r) - 1
          /\ \A i \in 1 .. Len(Tail(r)) : Tail(r)[i] = r[i + 1]
      BY HeadTailProperties
    <2> QED  BY <2>1
  <1>2. h \in Seq(AnyRequest) /\ Range(h) = {Head(r)}
    BY <1>1 DEF Range
  <1> HIDE DEF h
  <1>3. ASSUME NEW t PROVE Asked(r, t) = Asked(h, t) \cup Asked(Tail(r), t)
    <2>1. Asked(h \o Tail(r), t) = Asked(h, t) \cup Asked(Tail(r), t)
      BY <1>1, <1>2, AskedBoth
    <2> QED  BY <1>1, <2>1, Zenon
  <1>4. \A t : t # Head(r).id => Asked(h, t) = {}
    BY <1>2 DEF Asked
  <1>5. Head(r) \in Asked(h, Head(r).id)
    BY <1>2 DEF Asked
  <1> QED  BY <1>3, <1>4, <1>5

\* No request is mentioned, none is asked.
LEMMA AskedNone ==
    ASSUME NEW r \in Seq(AnyRequest), NEW t
    PROVE  Asked(r, t) = {} <=> Mentions(r, t) = 0
  BY MentionsAre DEF Asked, Range

\* From s to u the state of t and the requests about it stay
Unmoved(s, u, t) ==
    StateOf(u, t) = StateOf(s, t) /\ Asked(u.conn.requests, t) = Asked(s.conn.requests, t)

\* So does the token it is to be watched with
Stays(s, u, t) == Unmoved(s, u, t) /\ u.targets[t] = s.targets[t]

\* A target listened to from now on: nothing is known of it, and it is asked for
WatchOf(t, token) == [watch |-> TRUE, id |-> t, token |-> token]
Begins(u, t, token) ==
    /\ u.targets[t] = token /\ StateOf(u, t).changes = None
    /\ Asked(u.conn.requests, t) \subseteq {WatchOf(t, token)}
    /\ u.stream = "Open" => WatchOf(t, token) \in Asked(u.conn.requests, t)

\* From s to u the documents collected and what is served stay, and the answers
\* outstanding are still counted truly
Carries(s, u) ==
    /\ u.docs = s.docs /\ u.conn.at = s.conn.at /\ u.conn.served = s.conn.served
    /\ u.stream = "Open" <=> s.stream = "Open"
    /\ Counted(s) => Counted(u)

\* Besides, only targets in ts may have other states, or requests about them.
Conveys(s, u, ts) ==
    /\ Carries(s, u)
    /\ \A t : t \notin ts => Unmoved(s, u, t)

\* A step after a step conveys what both do.
LEMMA ConveysOn ==
    ASSUME NEW s, NEW v, NEW u, NEW ts, NEW xs, Conveys(s, v, ts), Conveys(v, u, xs),
           NEW zs, ts \subseteq zs, xs \subseteq zs
    PROVE  Conveys(s, u, zs)
  BY DEF Conveys, Carries, Unmoved

\* What neither the states nor the connection have to do with.
LEMMA ConveysSame ==
    ASSUME NEW s, NEW u, u.docs = s.docs, u.conn = s.conn, u.states = s.states,
           u.stream = "Open" <=> s.stream = "Open", NEW ts
    PROVE  Conveys(s, u, ts)
  BY DEF Conveys, Carries, Counted, StateOf, Unmoved

\* Besides, a target of u is one of s that stays, or begins; and a limbo target is
\* known to have its document if it was in s.
Continues(s, u) ==
    /\ Carries(s, u) /\ s.nextLimbo <= u.nextLimbo
    /\ \A t \in DOMAIN u.targets :
          \/ t \in DOMAIN s.targets /\ Stays(s, u, t)
          \/ t \in LimboTarget /\ t.n > s.nextLimbo /\ Begins(u, t, 0)
    /\ \A t \in DOMAIN u.limbo :
          \/ t \in DOMAIN s.limbo /\ u.limbo[t] = s.limbo[t]
          \/ t \in LimboTarget /\ t.n > s.nextLimbo /\ ~u.limbo[t]

\* A step after a step continues the first one's state.
LEMMA ContinuesOn ==
    ASSUME NEW s, NEW v, NEW u, Continues(s, v), Continues(v, u),
           s.nextLimbo \in Nat, v.nextLimbo \in Nat, u.nextLimbo \in Nat
    PROVE  Continues(s, u)
  <1>1. Carries(s, u) /\ s.nextLimbo <= u.nextLimbo
    BY DEF Continues, Carries
  <1>2. ASSUME NEW t \in DOMAIN u.targets
        PROVE  \/ t \in DOMAIN s.targets /\ Stays(s, u, t)
               \/ t \in LimboTarget /\ t.n > s.nextLimbo /\ Begins(u, t, 0)
    <2>1. CASE t \in DOMAIN v.targets /\ Stays(v, u, t)
      <3>1. v.stream = "Open" <=> u.stream = "Open"
        BY DEF Continues, Carries
      <3> QED  BY <2>1, <3>1 DEF Continues, Stays, Unmoved, Begins
    <2>2. CASE t \in LimboTarget /\ t.n > v.nextLimbo /\ Begins(u, t, 0)
      <3>1. t.n \in Nat /\ s.nextLimbo <= v.nextLimbo
        BY <2>2 DEF Continues, LimboTarget
      <3> QED  BY <2>2, <3>1
    <2> QED  BY <2>1, <2>2 DEF Continues
  <1>3. ASSUME NEW t \in DOMAIN u.limbo
        PROVE  \/ t \in DOMAIN s.limbo /\ u.limbo[t] = s.limbo[t]
               \/ t \in LimboTarget /\ t.n > s.nextLimbo /\ ~u.limbo[t]
    <2>1. CASE t \in DOMAIN v.limbo /\ u.limbo[t] = v.limbo[t]
      BY <2>1 DEF Continues
    <2>2. CASE t \in LimboTarget /\ t.n > v.nextLimbo /\ ~u.limbo[t]
      <3>1. t.n \in Nat /\ s.nextLimbo <= v.nextLimbo
        BY <2>2 DEF Continues, LimboTarget
      <3> QED  BY <2>2, <3>1
    <2> QED  BY <2>1, <2>2 DEF Continues
  <1> QED  BY <1>1, <1>2, <1>3 DEF Continues

\* A limbo target that begins: nothing is known of it, and it has a number of its own
Appears(s, u, t) ==
    t \in LimboTarget /\ t.n > s.nextLimbo /\ ~u.limbo[t] /\ Begins(u, t, 0)

\* From s to u the limbo targets stay, with what is known of them, or appear
Resumes(s, u) ==
    \A t \in DOMAIN u.limbo :
        \/ t \in DOMAIN s.limbo /\ Stays(s, u, t) /\ u.limbo[t] = s.limbo[t]
        \/ Appears(s, u, t)

\* In a state that continues another one they do.
LEMMA ContinuesResumes ==
    ASSUME NEW s, NEW u, Continues(s, u), Numbered(s, DOMAIN s.targets), s.nextLimbo \in Nat,
           \A t \in DOMAIN s.limbo : t \in DOMAIN s.targets,
           \A t \in DOMAIN u.limbo : t \in DOMAIN u.targets
    PROVE  Resumes(s, u)
  <1> SUFFICES ASSUME NEW t \in DOMAIN u.limbo
               PROVE  \/ t \in DOMAIN s.limbo /\ Stays(s, u, t) /\ u.limbo[t] = s.limbo[t]
                      \/ Appears(s, u, t)
    BY DEF Resumes
  <1>1. t \in DOMAIN s.targets => ~(t \in LimboTarget /\ t.n > s.nextLimbo)
    BY DEF Numbered, LimboTarget
  <1>2. CASE t \in DOMAIN s.limbo /\ u.limbo[t] = s.limbo[t]
    BY <1>1, <1>2 DEF Continues
  <1>3. CASE t \in LimboTarget /\ t.n > s.nextLimbo /\ ~u.limbo[t]
    BY <1>1, <1>3 DEF Continues, Appears
  <1> QED  BY <1>2, <1>3 DEF Continues

\* What the targets and the connection have nothing to do with.
LEMMA ContinuesSame ==
    ASSUME NEW s, NEW u, u.docs = s.docs, u.conn = s.conn, u.states = s.states,
           u.stream = "Open" <=> s.stream = "Open", u.targets = s.targets,
           u.limbo = s.limbo, u.nextLimbo = s.nextLimbo, s.nextLimbo \in Nat
    PROVE  Continues(s, u)
  BY DEF Continues, Carries, Counted, StateOf, Stays, Unmoved

\* The state of a target, a fresh one if there is none.
LEMMA StateOfIs ==
    ASSUME NEW s \in Client
    PROVE  /\ Fresh \in TargetState /\ Fresh.out = 0 /\ Fresh.changes = None
           /\ Fresh.pending = FALSE /\ Fresh.current = FALSE /\ Fresh.token = 0
           /\ \A t : StateOf(s, t) \in TargetState
           /\ \A t : t \notin DOMAIN s.states => StateOf(s, t) = Fresh
           /\ \A t \in DOMAIN s.states : t \in Target /\ StateOf(s, t) = s.states[t]
  <1>1. 0 \in Version /\ None \in Partial(Doc, Type)
    BY TargetsAssumption, NoneIs DEF Version
  <1>2. Fresh \in TargetState
    BY <1>1 DEF Fresh, TargetState
  <1>3. s.states \in Partial(Target, TargetState)
    BY DEF Client
  <1>4. DOMAIN s.states \subseteq Target /\ \A t \in DOMAIN s.states : s.states[t] \in TargetState
    BY <1>3, PartialIs
  <1> QED  BY <1>2, <1>4 DEF StateOf, Fresh

\* No change of nothing is bad.
LEMMA NoneIsGood == ~Bad(None)
  BY NoneIs DEF Bad

\* The idle timer of u runs if that of s did and there is nothing to send.
IdleUnlessSent(s, u, requests) == u.idle => s.idle /\ requests = <<>>

\* The states' changes in u are those in s.
SameChanges(s, u) == \A t \in DOMAIN u.states : u.states[t].changes = StateOf(s, t).changes

\* The requests are added to those in s, and the states' changes stay.
AsksMore(s, u, requests) ==
    \A t : /\ StateOf(u, t).changes = StateOf(s, t).changes
           /\ Asked(u.conn.requests, t) = Asked(s.conn.requests, t) \cup Asked(requests, t)

\* Requests are recorded and wait on the connection; the idle timer is cancelled.
LEMMA SendIs ==
    ASSUME NEW s, Steady(s), s.stream = "Open", NEW requests \in Seq(AnyRequest),
           Numbered(s, {requests[i].id : i \in DOMAIN requests})
    PROVE  LET u == Send(s, requests)
           IN /\ Steady(u) /\ SameEngine(s, u) /\ u.views = s.views /\ u.targets = s.targets
              /\ SameLine(s, u) /\ IdleUnlessSent(s, u, requests)
              /\ u.conn = [s.conn EXCEPT !.requests = s.conn.requests \o requests]
              /\ DOMAIN s.states \subseteq DOMAIN u.states
              /\ \A t \in DOMAIN u.states :
                    t \in DOMAIN s.states \/ \E i \in DOMAIN requests : requests[i].id = t
              /\ SameChanges(s, u)
              /\ u.conn.served = s.conn.served
              /\ \A ts : (\A i \in DOMAIN requests : requests[i].id \in ts) => Conveys(s, u, ts)
              /\ AsksMore(s, u, requests)
  <1> DEFINE ids == {requests[i].id : i \in DOMAIN requests}
             count(t) == Cardinality({i \in DOMAIN requests : requests[i].id = t})
             r == Recorded(s, requests)
             states == r ++ s.states
             conn == [s.conn EXCEPT !.requests = s.conn.requests \o requests]
             u == Send(s, requests)
  <1>1. s \in Client /\ s.ok /\ AllNumbered(s) /\ ChangesKnown(s) /\ IsFiniteSet(DOMAIN s.targets)
    BY DEF Steady
  <1>2. \A i \in DOMAIN requests : requests[i] \in AnyRequest
    BY LenProperties, ElementOfSeq
  <1>3. ids \subseteq Target
    BY <1>2 DEF AnyRequest
  <1>4. ASSUME NEW t PROVE count(t) \in Int
    <2>1. Len(requests) \in Nat /\ DOMAIN requests = 1 .. Len(requests)
      BY LenProperties
    <2>2. IsFiniteSet(1 .. Len(requests))
      BY <2>1, FS_Interval
    <2>3. IsFiniteSet({i \in DOMAIN requests : requests[i].id = t})
      BY <2>1, <2>2, FS_Subset
    <2>4. count(t) \in Nat
      BY <2>3, FS_CardinalityType
    <2> QED  BY <2>4
  <1>5. /\ r \in Partial(Target, TargetState) /\ DOMAIN r = ids
        /\ \A t \in ids : r[t].changes = StateOf(s, t).changes
        /\ \A t \in ids : r[t].out = StateOf(s, t).out + count(t)
    <2>1. r = [t \in ids |-> [StateOf(s, t) EXCEPT !.out = @ + count(t)]]
      BY DEF Recorded
    <2> HIDE DEF r, ids
    <2>2. ASSUME NEW t \in ids
          PROVE  /\ [StateOf(s, t) EXCEPT !.out = @ + count(t)] \in TargetState
                 /\ [StateOf(s, t) EXCEPT !.out = @ + count(t)].changes = StateOf(s, t).changes
                 /\ [StateOf(s, t) EXCEPT !.out = @ + count(t)].out = StateOf(s, t).out + count(t)
      <3>1. StateOf(s, t) \in TargetState /\ count(t) \in Int
        BY <1>1, <1>4, StateOfIs
      <3> HIDE DEF count
      <3>2. StateOf(s, t).out \in Int
        BY <3>1 DEF TargetState
      <3>3. StateOf(s, t).out + count(t) \in Int
        BY <3>1, <3>2
      <3> QED  BY <3>1, <3>3 DEF TargetState
    <2> HIDE DEF count
    <2>3. r \in [ids -> TargetState] /\ DOMAIN r = ids
      BY <2>1, <2>2
    <2>4. \A t \in ids : /\ r[t].changes = StateOf(s, t).changes
                          /\ r[t].out = StateOf(s, t).out + count(t)
      BY <2>1, <2>2
    <2> QED  BY <1>3, <2>3, <2>4, PartialIs
  <1>6. /\ states \in Partial(Target, TargetState) /\ DOMAIN states = ids \cup DOMAIN s.states
        /\ \A t \in DOMAIN states : states[t].changes = StateOf(s, t).changes
        /\ \A t \in ids : states[t].out = StateOf(s, t).out + count(t)
        /\ \A t \in DOMAIN s.states : t \notin ids => states[t] = s.states[t]
    <2>1. s.states \in Partial(Target, TargetState)
      BY <1>1 DEF Client
    <2>2. /\ states \in Partial(Target, TargetState) /\ DOMAIN states = ids \cup DOMAIN s.states
          /\ \A t \in ids : states[t] = r[t]
          /\ \A t \in DOMAIN s.states : t \notin ids => states[t] = s.states[t]
      <3> HIDE DEF ids, r
      <3>1. states \in Partial(Target, TargetState)
        BY <1>5, <2>1, OverIs
      <3>2. \A x : x \in DOMAIN states <=> x \in ids \/ x \in DOMAIN s.states
        BY <1>5, OverKeys, Zenon
      <3>a. DOMAIN r = ids
        BY <1>5
      <3>3. \A t \in ids : states[t] = r[t]
        BY <3>a, OverKeys, Zenon
      <3>4. \A t \in DOMAIN s.states : t \notin ids => states[t] = s.states[t]
        BY <1>5, OverKeys
      <3> HIDE DEF states
      <3> QED  BY <3>1, <3>2, <3>3, <3>4
    <2> HIDE DEF states, ids, r, count
    <2>3. \A t \in DOMAIN s.states : StateOf(s, t) = s.states[t]
      BY <1>1, StateOfIs
    <2> QED  BY <1>5, <2>2, <2>3
  <1>7. /\ conn \in AnyConn /\ conn.served = s.conn.served
        /\ conn.requests = s.conn.requests \o requests
    <2>1. s.conn \in AnyConn
      BY <1>1 DEF Client
    <2>2. s.conn.requests \in Seq(AnyRequest)
      BY <2>1 DEF AnyConn
    <2>3. s.conn.requests \o requests \in Seq(AnyRequest)
      BY <2>2, ConcatProperties
    <2> QED  BY <2>1, <2>3 DEF AnyConn
  <1>8. u = [s EXCEPT !.states = states, !.idle = s.idle /\ requests = <<>>, !.conn = conn]
    BY <1>1 DEF Send, Client
  <1>9. (s.idle /\ requests = <<>>) \in BOOLEAN
    OBVIOUS
  <1> HIDE DEF states, conn, u
  <1>10. /\ u \in Client /\ u.states = states /\ u.conn = conn
         /\ u.idle = (s.idle /\ requests = <<>>) /\ u.views = s.views /\ u.targets = s.targets
         /\ u.mem = s.mem /\ u.limbo = s.limbo /\ u.nextLimbo = s.nextLimbo /\ u.ok = s.ok
         /\ u.stream = s.stream
    BY <1>1, <1>6, <1>7, <1>8, <1>9 DEF Client
  <1>11. RequestedIds(u) = RequestedIds(s) \cup ids
    <2>1. s.conn.requests \in Seq(AnyRequest)
      BY <1>1 DEF Client, AnyConn
    <2> DEFINE q == s.conn.requests
               c == q \o requests
    <2>2. /\ Len(c) = Len(q) + Len(requests) /\ c \in Seq(AnyRequest)
          /\ \A i \in 1 .. Len(c) : c[i] = IF i <= Len(q) THEN q[i] ELSE requests[i - Len(q)]
      BY <2>1, ConcatProperties
    <2>3. /\ Len(q) \in Nat /\ DOMAIN q = 1 .. Len(q)
          /\ Len(requests) \in Nat /\ DOMAIN requests = 1 .. Len(requests)
      BY <2>1, LenProperties
    <2>4. DOMAIN c = 1 .. Len(c)
      BY <2>2, LenProperties
    <2>5. u.conn.requests = c
      BY <1>7, <1>10
    <2> HIDE DEF q, c, ids
    <2>6. ASSUME NEW i \in DOMAIN c PROVE c[i].id \in RequestedIds(s) \cup ids
      <3>1. CASE i <= Len(q)
        BY <2>2, <2>3, <2>4, <2>6, <3>1 DEF RequestedIds, q
      <3>2. CASE ~(i <= Len(q))
        <4>1. i - Len(q) \in DOMAIN requests
          BY <2>2, <2>3, <2>4, <2>6, <3>2
        <4>2. c[i] = requests[i - Len(q)]
          BY <2>2, <2>4, <2>6, <3>2
        <4> QED  BY <4>1, <4>2 DEF ids
      <3> QED  BY <3>1, <3>2
    <2>7. ASSUME NEW i \in DOMAIN q PROVE \E j \in DOMAIN c : c[j].id = q[i].id
      <3>1. i \in DOMAIN c /\ c[i] = q[i]
        BY <2>2, <2>3, <2>4
      <3> QED  BY <3>1
    <2>8. ASSUME NEW i \in DOMAIN requests PROVE \E j \in DOMAIN c : c[j].id = requests[i].id
      <3>1. i + Len(q) \in DOMAIN c /\ ~(i + Len(q) <= Len(q)) /\ i + Len(q) - Len(q) = i
        BY <2>2, <2>3, <2>4
      <3>2. c[i + Len(q)] = requests[i]
        BY <2>2, <2>4, <3>1
      <3> QED  BY <3>1, <3>2
    <2>9. RequestedIds(u) = {c[i].id : i \in DOMAIN c}
      BY <2>5 DEF RequestedIds
    <2>10. RequestedIds(s) = {q[i].id : i \in DOMAIN q}
      BY DEF RequestedIds, q
    <2> QED  BY <2>6, <2>7, <2>8, <2>9, <2>10 DEF ids
  <1>12. AllNumbered(u)
    BY <1>1, <1>6, <1>7, <1>10, <1>11 DEF AllNumbered, Numbered
  <1>13. ChangesKnown(u)
    <2> SUFFICES ASSUME NEW t \in DOMAIN s.limbo, t \in DOMAIN states, Bad(states[t].changes)
                 PROVE  s.limbo[t]
      BY <1>10 DEF ChangesKnown
    <2>1. Bad(StateOf(s, t).changes)
      BY <1>6
    <2>2. t \in DOMAIN s.states
      BY <1>1, <2>1, StateOfIs, NoneIsGood
    <2> QED  BY <1>1, <2>1, <2>2, StateOfIs DEF ChangesKnown
  <1>14. Steady(u) /\ SameEngine(s, u)
    BY <1>1, <1>10, <1>12, <1>13 DEF Steady, SameEngine
  <1>15. SameLine(s, u) /\ IdleUnlessSent(s, u, requests)
    BY <1>1, <1>8, <1>10 DEF Client, SameLine, IdleUnlessSent
  <1>16. /\ u.conn = [s.conn EXCEPT !.requests = s.conn.requests \o requests]
         /\ u.conn.served = s.conn.served
         /\ DOMAIN s.states \subseteq DOMAIN u.states
         /\ \A t \in DOMAIN u.states : t \in DOMAIN s.states \/ t \in ids
         /\ SameChanges(s, u)
    BY <1>6, <1>7, <1>10 DEF conn, SameChanges
  <1>17. \A t \in ids : \E i \in DOMAIN requests : requests[i].id = t
    OBVIOUS
  <1>18. Conveys(s, u, ids)
    <2>1. ASSUME NEW t PROVE Mentions(requests, t) = count(t)
      BY DEF Mentions
    <2>2. \A t : t \notin ids => StateOf(u, t) = StateOf(s, t)
      BY <1>6, <1>10 DEF StateOf
    <2>3. \A t : t \notin ids => Mentions(requests, t) = 0
      BY MentionsAre
    <2>4. \A t \in ids : StateOf(u, t).out = StateOf(s, t).out + Mentions(requests, t)
      <3> HIDE DEF ids, count
      <3> QED  BY <1>6, <1>10, <2>1 DEF StateOf
    <2> HIDE DEF ids
    <2>5. s.conn.requests \in Seq(AnyRequest)
      BY <1>1 DEF Client, AnyConn
    <2>6. \A t : Mentions(u.conn.requests, t) = Mentions(s.conn.requests, t) + Mentions(requests, t)
      BY <1>7, <1>10, <2>5, MentionsBoth
    <2>7. \A t : Mentions(s.conn.requests, t) \in Nat
      BY <2>5, MentionsAre
    <2>8. Counted(s) => Counted(u)
      BY <2>2, <2>3, <2>4, <2>6, <2>7 DEF Counted
    <2>9. u.docs = s.docs /\ u.conn.at = s.conn.at
      <3>1. s.conn \in AnyConn
        BY <1>1 DEF Client
      <3>2. u.conn.at = s.conn.at
        BY <1>10, <3>1 DEF conn, AnyConn
      <3> QED  BY <1>15, <3>2 DEF SameLine
    <2>10. \A t : t \notin ids => Asked(requests, t) = {}
      BY DEF Asked, Range, ids
    <2>11. \A t : Asked(u.conn.requests, t) =
                     Asked(s.conn.requests, t) \cup Asked(requests, t)
      BY <1>7, <1>10, <2>5, AskedBoth
    <2>12. \A t : t \notin ids => Unmoved(s, u, t)
      BY <2>2, <2>10, <2>11 DEF Unmoved
    <2> QED  BY <1>10, <1>16, <2>8, <2>9, <2>12 DEF Conveys, Carries
  <1>a. ASSUME NEW t
        PROVE  /\ StateOf(u, t).changes = StateOf(s, t).changes
               /\ Asked(u.conn.requests, t) =
                     Asked(s.conn.requests, t) \cup Asked(requests, t)
    <2>1. s.conn.requests \in Seq(AnyRequest)
      BY <1>1 DEF Client, AnyConn
    <2>2. StateOf(u, t).changes = StateOf(s, t).changes
      BY <1>6, <1>10 DEF StateOf
    <2>3. Asked(s.conn.requests \o requests, t) =
             Asked(s.conn.requests, t) \cup Asked(requests, t)
      BY <2>1, AskedBoth
    <2>4. u.conn.requests = s.conn.requests \o requests
      BY <1>7, <1>10
    <2> HIDE DEF u
    <2> QED  BY <2>2, <2>3, <2>4
  <1> HIDE DEF ids
  <1>19. ASSUME NEW ts, \A i \in DOMAIN requests : requests[i].id \in ts
         PROVE  Conveys(s, u, ts)
    <2>1. ids \subseteq ts
      BY <1>19 DEF ids
    <2> HIDE DEF ids, u
    <2> QED  BY <1>18, <2>1 DEF Conveys
  <1>b. AsksMore(s, u, requests)
    BY <1>a DEF AsksMore
  <1> QED  BY <1>10, <1>14, <1>15, <1>16, <1>17, <1>19, <1>b DEF u

\* Watch requests for targets, in any order.
LEMMA RequestsInOrderAre ==
    ASSUME NEW tokens \in Partial(Target, Version), IsFiniteSet(DOMAIN tokens),
           NEW order \in Orders(DOMAIN tokens)
    PROVE  LET w == RequestsInOrder(order, tokens)
           IN /\ w \in Seq(AnyRequest) /\ \A i \in DOMAIN w : w[i].id \in DOMAIN tokens
              /\ \A t \in DOMAIN tokens : Asked(w, t) = {WatchOf(t, tokens[t])}
  <1> DEFINE n == Cardinality(DOMAIN tokens)
             w == RequestsInOrder(order, tokens)
  <1>1. n \in Nat
    BY FS_CardinalityType
  <1>2. DOMAIN tokens \subseteq Target /\ \A t \in DOMAIN tokens : tokens[t] \in Version
    BY PartialIs
  <1>3. order \in [1 .. n -> DOMAIN tokens]
    BY DEF Orders
  <1> HIDE DEF n
  <1>4. w = [i \in 1 .. n |-> [watch |-> TRUE, id |-> order[i], token |-> tokens[order[i]]]]
    BY <1>3 DEF RequestsInOrder
  <1> HIDE DEF w
  <1>5. \A i \in 1 .. n : w[i] \in AnyRequest /\ w[i].id \in DOMAIN tokens
    BY <1>2, <1>3, <1>4 DEF AnyRequest
  <1>6. w \in [1 .. n -> AnyRequest] /\ DOMAIN w = 1 .. n
    BY <1>4, <1>5
  <1>7. ASSUME NEW t \in DOMAIN tokens PROVE Asked(w, t) = {WatchOf(t, tokens[t])}
    <2>1. \A i \in 1 .. n : w[i] = WatchOf(order[i], tokens[order[i]]) /\ w[i].id = order[i]
      BY <1>4 DEF WatchOf
    <2>2. PICK i \in 1 .. n : order[i] = t
      BY <1>3 DEF Orders, Range, n
    <2> QED  BY <1>6, <2>1, <2>2 DEF Asked, Range
  <1> QED  BY <1>1, <1>5, <1>6, <1>7 DEF w

\* Watch requests for targets, in an order.
LEMMA WatchRequestsAre ==
    ASSUME NEW tokens \in Partial(Target, Version), IsFiniteSet(DOMAIN tokens)
    PROVE  /\ WatchRequests(tokens) \in Seq(AnyRequest)
           /\ \A i \in DOMAIN WatchRequests(tokens) : WatchRequests(tokens)[i].id \in DOMAIN tokens
           /\ tokens # None => WatchRequests(tokens) # <<>>
           /\ \A t \in DOMAIN tokens : Asked(WatchRequests(tokens), t) = {WatchOf(t, tokens[t])}
  <1> DEFINE order == SetToSeq(DOMAIN tokens)
             w == WatchRequests(tokens)
  <1>1. /\ DOMAIN order = 1 .. Cardinality(DOMAIN tokens) /\ Cardinality(DOMAIN tokens) \in Nat
        /\ \A i \in DOMAIN order : order[i] \in DOMAIN tokens
        /\ \A x \in DOMAIN tokens : \E i \in DOMAIN order : order[i] = x
    BY SetToSeqIs
  <1>2. DOMAIN tokens \subseteq Target /\ \A t \in DOMAIN tokens : tokens[t] \in Version
    BY PartialIs
  <1> HIDE DEF order
  <1>3. w = [i \in DOMAIN order |-> [watch |-> TRUE, id |-> order[i], token |-> tokens[order[i]]]]
    BY DEF WatchRequests, RequestsInOrder, order
  <1> HIDE DEF w
  <1>4. \A i \in DOMAIN order : w[i] \in AnyRequest /\ w[i].id \in DOMAIN tokens
    BY <1>1, <1>2, <1>3 DEF AnyRequest
  <1>5. DOMAIN w = 1 .. Cardinality(DOMAIN tokens)
    BY <1>1, <1>3
  <1>6. w \in [1 .. Cardinality(DOMAIN tokens) -> AnyRequest]
    BY <1>1, <1>3, <1>4, <1>5
  <1>7. w \in Seq(AnyRequest)
    BY <1>1, <1>6
  <1>8. ASSUME tokens # None PROVE w # <<>>
    <2>1. DOMAIN tokens # {}
      BY <1>8, NoneOnly
    <2>a. PICK x : x \in DOMAIN tokens
      BY <2>1
    <2>2. PICK i : i \in DOMAIN order
      BY <1>1, <2>a
    <2>3. DOMAIN w # {}
      BY <1>1, <1>5, <2>2
    <2> QED  BY <2>3
  <1>9. ASSUME NEW t \in DOMAIN tokens PROVE Asked(w, t) = {WatchOf(t, tokens[t])}
    <2>1. /\ DOMAIN w = DOMAIN order
          /\ \A i \in DOMAIN order :
                w[i] = WatchOf(order[i], tokens[order[i]]) /\ w[i].id = order[i]
      BY <1>3 DEF WatchOf
    <2>2. PICK i \in DOMAIN order : order[i] = t
      BY <1>1
    <2> QED  BY <2>1, <2>2 DEF Asked, Range
  <1> QED  BY <1>1, <1>4, <1>5, <1>7, <1>8, <1>9 DEF w

\* Unwatch requests for targets, in an order.
LEMMA UnwatchRequestsAre ==
    ASSUME NEW ts \in SUBSET Target, IsFiniteSet(ts)
    PROVE  /\ UnwatchRequests(ts) \in Seq(AnyRequest)
           /\ \A i \in DOMAIN UnwatchRequests(ts) : UnwatchRequests(ts)[i].id \in ts
  <1> DEFINE order == SetToSeq(ts)
             w == UnwatchRequests(ts)
  <1>1. /\ DOMAIN order = 1 .. Cardinality(ts) /\ Cardinality(ts) \in Nat
        /\ \A i \in DOMAIN order : order[i] \in ts
    BY SetToSeqIs
  <1> HIDE DEF order
  <1>2. w = [i \in DOMAIN order |-> [watch |-> FALSE, id |-> order[i], token |-> 0]]
    BY DEF UnwatchRequests, order
  <1> HIDE DEF w
  <1>3. 0 \in Version
    BY TargetsAssumption DEF Version
  <1>4. \A i \in DOMAIN order : w[i] \in AnyRequest /\ w[i].id \in ts
    BY <1>1, <1>2, <1>3 DEF AnyRequest
  <1>5. w \in [1 .. Cardinality(ts) -> AnyRequest]
    BY <1>1, <1>2, <1>4
  <1>6. w \in Seq(AnyRequest)
    BY <1>1, <1>5
  <1> QED  BY <1>1, <1>2, <1>4, <1>6 DEF w

\* Targets that are listened to from now on.
LEMMA ListenIs ==
    ASSUME NEW s, Sound(s), NEW tokens \in Partial(Target, Version), IsFiniteSet(DOMAIN tokens),
           DOMAIN tokens \cap DOMAIN s.targets = {}, Numbered(s, DOMAIN tokens)
    PROVE  LET u == Listen(s, tokens)
           IN /\ Sound(u) /\ SameEngine(s, u) /\ u.views = s.views
              /\ DOMAIN u.targets = DOMAIN s.targets \cup DOMAIN tokens
              /\ Watched(s) => Watched(u)
              /\ Conveys(s, u, DOMAIN tokens)
              /\ \A t \in DOMAIN s.targets : u.targets[t] = s.targets[t]
              /\ \A t \in DOMAIN tokens :
                    StateOf(s, t).changes = None /\ Asked(s.conn.requests, t) = {}
                       => Begins(u, t, tokens[t])
  <1> DEFINE targets == tokens ++ s.targets
             v == [s EXCEPT !.targets = targets]
             u == Listen(s, tokens)
  <1>1. s \in Client /\ s.ok /\ AllNumbered(s) /\ ChangesKnown(s)
        /\ IsFiniteSet(DOMAIN s.targets) /\ Steady(s) /\ OnlineKnown(s) /\ IdleKnown(s)
    BY DEF Steady, Sound
  <1>2. /\ targets \in Partial(Target, Version)
        /\ DOMAIN targets = DOMAIN s.targets \cup DOMAIN tokens
    <2>1. s.targets \in Partial(Target, Version)
      BY <1>1 DEF Client
    <2>2. tokens ++ s.targets \in Partial(Target, Version)
      BY <2>1, OverIs
    <2> QED  BY <2>2, OverKeys
  <1>b. /\ \A t \in DOMAIN s.targets : targets[t] = s.targets[t]
        /\ \A t \in DOMAIN tokens : targets[t] = tokens[t]
    BY OverKeys
  <1>3. IsFiniteSet(DOMAIN targets)
    BY <1>1, <1>2, FS_Union
  <1> HIDE DEF targets
  <1>4. /\ v \in Client /\ v.ok /\ v.targets = targets /\ v.stream = s.stream /\ v.conn = s.conn
        /\ v.states = s.states /\ v.limbo = s.limbo /\ v.nextLimbo = s.nextLimbo
        /\ v.mem = s.mem /\ v.views = s.views /\ v.idle = s.idle /\ v.timer = s.timer
        /\ v.online = s.online /\ v.failures = s.failures /\ v.docs = s.docs
    BY <1>1, <1>2 DEF Client
  <1>a. Conveys(s, v, {}) /\ Conveys(s, s, DOMAIN tokens)
    BY <1>4, ConveysSame
  <1>5. HardAssert(s, DOMAIN tokens \cap DOMAIN s.targets = {}) = s
    BY <1>1, AssertHolds
  <1>6. [HardAssert(s, DOMAIN tokens \cap DOMAIN s.targets = {}) EXCEPT
            !.targets = tokens ++ @] = v
    BY <1>1, <1>5 DEF Client, targets
  <1>7. /\ tokens = None => u = s
        /\ tokens # None /\ ShouldStartWatchStream(v) => u = StartWatchStream(v)
        /\ tokens # None /\ ~ShouldStartWatchStream(v) /\ v.stream = "Open"
              => u = Send(v, WatchRequests(tokens))
        /\ tokens # None /\ ~ShouldStartWatchStream(v) /\ v.stream # "Open" => u = v
    <2>1. u = LET x == [HardAssert(s, DOMAIN tokens \cap DOMAIN s.targets = {}) EXCEPT
                           !.targets = tokens ++ @]
              IN CASE tokens = None -> s
                   [] tokens # None /\ ShouldStartWatchStream(x) -> StartWatchStream(x)
                   [] tokens # None /\ x.stream = "Open" -> Send(x, WatchRequests(tokens))
                   [] OTHER -> x
      BY DEF Listen
    <2>2. u = CASE tokens = None -> s
                [] tokens # None /\ ShouldStartWatchStream(v) -> StartWatchStream(v)
                [] tokens # None /\ v.stream = "Open" -> Send(v, WatchRequests(tokens))
                [] OTHER -> v
      BY <1>6, <2>1, Zenon
    <2>3. ShouldStartWatchStream(v) => v.stream # "Open"
      BY DEF ShouldStartWatchStream, Started
    <2> HIDE DEF u, v
    <2> QED  BY <2>2, <2>3
  <1> HIDE DEF u, v
  <1>8. Steady(v) /\ OnlineKnown(v)
    <2>1. AllNumbered(v)
      BY <1>1, <1>2, <1>4 DEF AllNumbered, Numbered, RequestedIds
    <2>2. ChangesKnown(v)
      BY <1>1, <1>4 DEF ChangesKnown
    <2>3. OnlineKnown(v)
      BY <1>1, <1>4 DEF OnlineKnown, Started
    <2> QED  BY <1>1, <1>3, <1>4, <2>1, <2>2, <2>3 DEF Steady
  <1>9. CASE tokens = None
    <2>1. DOMAIN tokens = {}
      BY <1>9, NoneIs
    <2>2. u = s
      BY <1>7, <1>9
    <2> QED  BY <1>1, <1>a, <2>1, <2>2 DEF SameEngine, u
  <1>10. CASE tokens # None /\ ShouldStartWatchStream(v)
    <2>1. ~Started(v) /\ IdleKnown(v)
      <3>1. ~Started(v)
        BY <1>10 DEF ShouldStartWatchStream
      <3>2. ~v.idle
        BY <1>1, <1>4, <3>1 DEF IdleKnown, Started
      <3> QED  BY <3>1, <3>2 DEF IdleKnown
    <2>2. Sound(v)
      BY <1>8, <2>1 DEF Sound
    <2> DEFINE w == StartWatchStream(v)
    <2>3. /\ Sound(w) /\ w.views = v.views /\ w.stream # "Open"
          /\ w = [v EXCEPT !.stream = w.stream, !.online = w.online, !.timer = w.timer]
      BY <2>1, <2>2, StartIs
    <2>4. u = w
      BY <1>7, <1>10
    <2> HIDE DEF w
    <2>5. w.mem = v.mem /\ w.limbo = v.limbo /\ w.nextLimbo = v.nextLimbo
          /\ w.targets = v.targets /\ w.conn = v.conn /\ w.states = v.states
          /\ w.docs = v.docs
      BY <1>4, <2>3 DEF Client
    <2>6. Conveys(s, w, DOMAIN tokens)
      <3>1. v.stream # "Open"
        BY <2>1 DEF Started
      <3> QED  BY <1>4, <2>3, <2>5, <3>1, ConveysSame
    <2>7. \A t \in DOMAIN tokens :
             StateOf(s, t).changes = None /\ Asked(s.conn.requests, t) = {}
                => Begins(w, t, tokens[t])
      BY <1>b, <1>4, <2>3, <2>5 DEF Begins, StateOf
    <2> QED  BY <1>2, <1>b, <1>4, <2>3, <2>4, <2>5, <2>6, <2>7 DEF SameEngine, Watched, u
  <1>11. CASE tokens # None /\ ~ShouldStartWatchStream(v) /\ v.stream = "Open"
    <2> DEFINE requests == WatchRequests(tokens)
               w == Send(v, requests)
    <2>1. /\ requests \in Seq(AnyRequest) /\ requests # <<>>
          /\ \A i \in DOMAIN requests : requests[i].id \in DOMAIN tokens
          /\ \A t \in DOMAIN tokens : Asked(requests, t) = {WatchOf(t, tokens[t])}
      BY <1>11, WatchRequestsAre
    <2>2. Numbered(v, {requests[i].id : i \in DOMAIN requests})
      BY <1>4, <2>1 DEF Numbered
    <2> HIDE DEF requests
    <2>3. /\ Steady(w) /\ SameEngine(v, w) /\ w.views = v.views /\ w.targets = v.targets
          /\ SameLine(v, w) /\ IdleUnlessSent(v, w, requests)
          /\ DOMAIN v.states \subseteq DOMAIN w.states
          /\ w.conn.served = v.conn.served
          /\ Conveys(v, w, DOMAIN tokens) /\ AsksMore(v, w, requests)
      <3>1. Steady(v) /\ v.stream = "Open" /\ requests \in Seq(AnyRequest)
        BY <1>8, <1>11, <2>1
      <3> QED  BY <2>1, <2>2, <3>1, SendIs
    <2>4. u = w
      BY <1>7, <1>11 DEF requests
    <2> HIDE DEF w
    <2>5. w.timer = v.timer /\ w.online = v.online /\ w.failures = v.failures
          /\ w.stream = v.stream /\ ~w.idle
      BY <2>1, <2>3 DEF SameLine, IdleUnlessSent
    <2>6. Sound(w)
      BY <1>8, <2>3, <2>5 DEF Sound, OnlineKnown, IdleKnown, Started
    <2>7. Conveys(s, w, DOMAIN tokens)
      BY <1>a, <2>3, ConveysOn
    <2>8. ASSUME NEW t \in DOMAIN tokens, StateOf(s, t).changes = None,
                 Asked(s.conn.requests, t) = {}
          PROVE  Begins(w, t, tokens[t])
      <3>1. StateOf(w, t).changes = StateOf(s, t).changes
        BY <1>4, <2>3 DEF StateOf, AsksMore
      <3>2. Asked(w.conn.requests, t) = {WatchOf(t, tokens[t])}
        BY <1>4, <2>1, <2>3, <2>8 DEF AsksMore
      <3>3. w.targets[t] = tokens[t]
        BY <1>b, <1>4, <2>3
      <3> QED  BY <2>8, <3>1, <3>2, <3>3 DEF Begins
    <2> QED  BY <1>2, <1>b, <1>4, <2>3, <2>4, <2>6, <2>7, <2>8 DEF SameEngine, Watched, u
  <1>12. CASE tokens # None /\ ~ShouldStartWatchStream(v) /\ v.stream # "Open"
    <2>1. ~v.idle
      BY <1>1, <1>4, <1>12 DEF IdleKnown
    <2>2. Sound(v)
      BY <1>8, <2>1 DEF Sound, IdleKnown
    <2>3. Conveys(s, v, DOMAIN tokens)
      BY <1>4, ConveysSame
    <2>4. \A t \in DOMAIN tokens :
             StateOf(s, t).changes = None /\ Asked(s.conn.requests, t) = {}
                => Begins(v, t, tokens[t])
      BY <1>b, <1>4, <1>12 DEF Begins, StateOf
    <2> QED  BY <1>2, <1>b, <1>4, <1>7, <1>12, <2>2, <2>3, <2>4 DEF SameEngine, Watched, u
  <1> QED  BY <1>9, <1>10, <1>11, <1>12

\* Targets that are not listened to any more.
LEMMA StopListeningIs ==
    ASSUME NEW s, Sound(s), NEW ts, ts \subseteq DOMAIN s.targets
    PROVE  LET u == StopListening(s, ts)
           IN /\ Sound(u) /\ SameEngine(s, u) /\ u.views = s.views
              /\ DOMAIN u.targets = DOMAIN s.targets \ ts
              /\ Watched(s) => Watched(u)
              /\ Conveys(s, u, ts)
              /\ \A t \in DOMAIN u.targets : u.targets[t] = s.targets[t]
  <1> DEFINE targets == Restrict(s.targets, DOMAIN s.targets \ ts)
             v == [s EXCEPT !.targets = targets]
             requests == UnwatchRequests(ts)
             w == IF v.stream = "Open" THEN Send(v, requests) ELSE v
             u == StopListening(s, ts)
  <1>1. s \in Client /\ s.ok /\ AllNumbered(s) /\ ChangesKnown(s)
        /\ IsFiniteSet(DOMAIN s.targets) /\ Steady(s) /\ OnlineKnown(s) /\ IdleKnown(s)
    BY DEF Steady, Sound
  <1>2. s.targets \in Partial(Target, Version)
    BY <1>1 DEF Client
  <1>3. /\ targets \in Partial(Target, Version) /\ DOMAIN targets = DOMAIN s.targets \ ts
        /\ \A t \in DOMAIN targets : targets[t] = s.targets[t]
    <2>1. DOMAIN s.targets \ ts \subseteq DOMAIN s.targets
      OBVIOUS
    <2> QED  BY <1>2, <2>1, RestrictIs
  <1>4. IsFiniteSet(DOMAIN targets) /\ IsFiniteSet(ts) /\ ts \subseteq Target
    <2>1. IsFiniteSet(ts)
      BY <1>1, FS_Subset
    <2>2. IsFiniteSet(DOMAIN s.targets \ ts)
      BY <1>1, FS_Difference
    <2>3. DOMAIN s.targets \subseteq Target
      BY <1>2, PartialIs
    <2> QED  BY <1>3, <2>1, <2>2, <2>3
  <1>5. ASSUME s.idle PROVE targets = None
    <2>1. s.targets = None
      BY <1>1, <1>5 DEF IdleKnown
    <2>2. DOMAIN targets = {}
      BY <1>3, <2>1, NoneIs
    <2> QED  BY <1>3, <2>2, NoneOnly
  <1> HIDE DEF targets
  <1>6. /\ v \in Client /\ v.ok /\ v.targets = targets /\ v.stream = s.stream /\ v.conn = s.conn
        /\ v.states = s.states /\ v.limbo = s.limbo /\ v.nextLimbo = s.nextLimbo
        /\ v.mem = s.mem /\ v.views = s.views /\ v.idle = s.idle /\ v.timer = s.timer
        /\ v.online = s.online /\ v.failures = s.failures /\ v.docs = s.docs
    BY <1>1, <1>3 DEF Client
  <1>a. Conveys(s, v, {}) /\ Conveys(v, v, ts)
    BY <1>6, ConveysSame
  <1>7. HardAssert(s, ts \subseteq DOMAIN s.targets) = s
    BY <1>1, AssertHolds
  <1>8. /\ ts = {} \/ w.targets # None => u = w
        /\ ts # {} /\ w.targets = None /\ v.stream = "Open" => u = [w EXCEPT !.idle = TRUE]
        /\ ts # {} /\ w.targets = None /\ v.stream # "Open" =>
              IF w.enabled THEN u = UpdateState(w, "Unknown") ELSE u = w
    <2>1. [HardAssert(s, ts \subseteq DOMAIN s.targets) EXCEPT
              !.targets = Restrict(@, DOMAIN @ \ ts)] = v
      BY <1>1, <1>7 DEF Client, targets
    <2>2. u = LET x == [HardAssert(s, ts \subseteq DOMAIN s.targets) EXCEPT
                           !.targets = Restrict(@, DOMAIN @ \ ts)]
                  open == x.stream = "Open"
                  y == IF open THEN Send(x, UnwatchRequests(ts)) ELSE x
              IN CASE ts = {} \/ y.targets # None -> y
                   [] ts # {} /\ y.targets = None /\ open -> [y EXCEPT !.idle = TRUE]
                   [] ts # {} /\ y.targets = None /\ ~open /\ y.enabled ->
                         UpdateState(y, "Unknown")
                   [] OTHER -> y
      BY DEF StopListening
    <2>3. u = CASE ts = {} \/ w.targets # None -> w
                [] ts # {} /\ w.targets = None /\ v.stream = "Open" -> [w EXCEPT !.idle = TRUE]
                [] ts # {} /\ w.targets = None /\ ~(v.stream = "Open") /\ w.enabled ->
                      UpdateState(w, "Unknown")
                [] OTHER -> w
      BY <2>1, <2>2, Zenon
    <2> HIDE DEF u, v, w
    <2> QED  BY <2>3
  <1> HIDE DEF u, v
  <1>9. Steady(v) /\ OnlineKnown(v) /\ IdleKnown(v)
    <2>1. AllNumbered(v)
      BY <1>1, <1>3, <1>6 DEF AllNumbered, Numbered, RequestedIds
    <2>2. ChangesKnown(v)
      BY <1>1, <1>6 DEF ChangesKnown
    <2>3. OnlineKnown(v) /\ IdleKnown(v)
      BY <1>1, <1>5, <1>6 DEF OnlineKnown, IdleKnown, Started
    <2> QED  BY <1>1, <1>4, <1>6, <2>1, <2>2, <2>3 DEF Steady
  <1>10. /\ Sound(w) /\ SameEngine(v, w) /\ w.views = v.views /\ w.targets = v.targets
         /\ w.stream = v.stream /\ DOMAIN v.states \subseteq DOMAIN w.states
         /\ w.conn.served = v.conn.served
         /\ Conveys(v, w, ts)
    <2>1. CASE v.stream = "Open"
      <3>1. /\ requests \in Seq(AnyRequest)
            /\ \A i \in DOMAIN requests : requests[i].id \in ts
        BY <1>4, UnwatchRequestsAre
      <3>2. Numbered(v, {requests[i].id : i \in DOMAIN requests})
        <4>1. Numbered(s, DOMAIN s.targets)
          BY <1>1 DEF AllNumbered
        <4>2. \A i \in DOMAIN requests : requests[i].id \in DOMAIN s.targets
          BY <3>1
        <4> HIDE DEF requests
        <4> QED  BY <1>6, <4>1, <4>2 DEF Numbered
      <3> DEFINE x == Send(v, requests)
      <3> HIDE DEF requests
      <3>3. /\ Steady(x) /\ SameEngine(v, x) /\ x.views = v.views /\ x.targets = v.targets
            /\ SameLine(v, x) /\ IdleUnlessSent(v, x, requests)
            /\ DOMAIN v.states \subseteq DOMAIN x.states
            /\ x.conn.served = v.conn.served
            /\ Conveys(v, x, ts)
        BY <1>9, <2>1, <3>1, <3>2, SendIs
      <3>4. w = x
        BY <2>1 DEF requests
      <3> HIDE DEF x, w
      <3>5. OnlineKnown(x) /\ IdleKnown(x) /\ x.stream = v.stream
        BY <1>9, <3>3 DEF SameLine, IdleUnlessSent, OnlineKnown, IdleKnown, Started
      <3> QED  BY <3>3, <3>4, <3>5 DEF Sound
    <2>2. CASE v.stream # "Open"
      BY <1>9, <1>a, <2>2 DEF Sound, SameEngine
    <2> QED  BY <2>1, <2>2
  <1> HIDE DEF w
  <1>11. SameEngine(s, w) /\ w.views = s.views /\ DOMAIN w.targets = DOMAIN s.targets \ ts
         /\ (Watched(s) => Watched(w)) /\ Conveys(s, w, ts)
         /\ \A t \in DOMAIN w.targets : w.targets[t] = s.targets[t]
    <2>1. Conveys(s, w, ts)
      BY <1>a, <1>10, ConveysOn
    <2> QED  BY <1>3, <1>6, <1>10, <2>1 DEF SameEngine, Watched
  <1>12. CASE u = w
    BY <1>10, <1>11, <1>12 DEF u
  <1>13. CASE u = [w EXCEPT !.idle = TRUE] /\ w.targets = None /\ v.stream = "Open"
    <2>1. w \in Client /\ Steady(w) /\ OnlineKnown(w)
      BY <1>10 DEF Sound, Steady
    <2>2. /\ u \in Client /\ u.ok = w.ok /\ u.targets = w.targets /\ u.stream = w.stream
          /\ u.conn = w.conn /\ u.states = w.states /\ u.limbo = w.limbo
          /\ u.nextLimbo = w.nextLimbo /\ u.mem = w.mem /\ u.views = w.views
          /\ u.timer = w.timer /\ u.online = w.online /\ u.failures = w.failures
          /\ u.docs = w.docs
      BY <1>13, <2>1 DEF Client
    <2>3. Conveys(s, u, ts)
      <3>1. Conveys(w, u, ts)
        BY <2>2, ConveysSame
      <3> QED  BY <1>11, <3>1, ConveysOn
    <2>4. Steady(u)
      BY <2>1, <2>2 DEF Steady, AllNumbered, Numbered, RequestedIds, ChangesKnown
    <2>5. OnlineKnown(u) /\ IdleKnown(u)
      BY <1>10, <1>13, <2>1, <2>2 DEF OnlineKnown, IdleKnown, Started
    <2> QED  BY <1>11, <2>2, <2>4, <2>5, <2>3 DEF Sound, SameEngine, Watched, u
  <1>14. CASE u = UpdateState(w, "Unknown")
    <2> DEFINE x == UpdateState(w, "Unknown")
    <2>1. w \in Client /\ Steady(w) /\ IdleKnown(w)
      BY <1>10 DEF Sound, Steady
    <2>2. /\ Sound(x) /\ SameEngine(w, x) /\ x.views = w.views
          /\ x = [w EXCEPT !.timer = FALSE, !.failures = 0, !.online = "Unknown",
                           !.views = x.views]
      BY <2>1, UpdateStateIs DEF OnlineStates
    <2> HIDE DEF x
    <2>3. x.targets = w.targets /\ x.conn = w.conn /\ x.states = w.states
          /\ x.docs = w.docs /\ x.stream = w.stream
      BY <2>1, <2>2 DEF Client
    <2>4. u = x
      BY <1>14 DEF x
    <2>5. Conveys(s, x, ts)
      <3>1. Conveys(w, x, ts)
        BY <2>3, ConveysSame
      <3> QED  BY <1>11, <3>1, ConveysOn
    <2> QED  BY <1>11, <2>2, <2>3, <2>4, <2>5 DEF SameEngine, Watched, u
  <1>15. \/ u = w \/ u = UpdateState(w, "Unknown")
         \/ u = [w EXCEPT !.idle = TRUE] /\ w.targets = None /\ v.stream = "Open"
    BY <1>8
  <1> QED  BY <1>12, <1>13, <1>14, <1>15

-----------------------------------------------------------------------------
(* The network.                                                            *)

\* A stream that is not needed is stopped.
LEMMA StopIs ==
    ASSUME NEW s, Sound(s), Watched(s), ~s.enabled \/ s.targets = None
    PROVE  LET u == Stop(s)
           IN /\ Sound(u) /\ Watched(u) /\ SameEngine(s, u) /\ SameLimbo(s, u)
              /\ u.targets = s.targets /\ u.enabled = s.enabled /\ ~Started(u)
              /\ Started(s) => Silent(u)
  <1>1. CASE Started(s)
    <2> DEFINE u == Close(s, "Initial")
    <2>1. /\ Sound(u) /\ Watched(u) /\ SameEngine(s, u) /\ SameLimbo(s, u)
          /\ u.targets = s.targets /\ u.enabled = s.enabled /\ u.stream = "Initial"
          /\ Silent(u)
      BY <1>1, CloseIs
    <2>2. Stop(s) = u
      BY <1>1 DEF Stop
    <2> HIDE DEF u
    <2> QED  BY <2>1, <2>2 DEF Started
  <1>2. CASE ~Started(s)
    BY <1>2 DEF Stop, SameEngine, SameLimbo
  <1> QED  BY <1>1, <1>2

\* The network is used, and the stream started if it is needed.
LEMMA EnableIs ==
    ASSUME NEW s, Sound(s), Watched(s)
    PROVE  LET u == EnableNetwork(s)
           IN /\ Sound(u) /\ Watched(u) /\ SameEngine(s, u) /\ SameLimbo(s, u)
              /\ u.targets = s.targets /\ u.states = s.states /\ u.docs = s.docs
              /\ u.conn = s.conn /\ (u.stream = "Open" <=> s.stream = "Open")
  <1> DEFINE v == [s EXCEPT !.enabled = TRUE]
             u == EnableNetwork(s)
  <1>1. s \in Client /\ Steady(s) /\ OnlineKnown(s) /\ IdleKnown(s)
    BY DEF Sound, Steady
  <1>2. /\ v \in Client /\ v.ok = s.ok /\ v.targets = s.targets /\ v.stream = s.stream
        /\ v.conn = s.conn /\ v.states = s.states /\ v.limbo = s.limbo
        /\ v.nextLimbo = s.nextLimbo /\ v.mem = s.mem /\ v.views = s.views /\ v.idle = s.idle
        /\ v.timer = s.timer /\ v.online = s.online /\ v.failures = s.failures
        /\ v.docs = s.docs
    BY <1>1 DEF Client
  <1>3. u = IF ShouldStartWatchStream(v) THEN StartWatchStream(v) ELSE UpdateState(v, "Unknown")
    BY DEF EnableNetwork
  <1> HIDE DEF u, v
  <1>4. Steady(v)
    BY <1>1, <1>2 DEF Steady, AllNumbered, Numbered, RequestedIds, ChangesKnown
  <1>5. OnlineKnown(v) /\ IdleKnown(v)
    BY <1>1, <1>2 DEF OnlineKnown, IdleKnown, Started
  <1>6. CASE ShouldStartWatchStream(v)
    <2> DEFINE w == StartWatchStream(v)
    <2>1. ~Started(v) /\ Sound(v)
      BY <1>4, <1>5, <1>6 DEF ShouldStartWatchStream, Sound
    <2>2. /\ Sound(w) /\ w.views = v.views /\ w.stream # "Open"
          /\ w = [v EXCEPT !.stream = w.stream, !.online = w.online, !.timer = w.timer]
      BY <2>1, StartIs
    <2>3. u = w
      BY <1>3, <1>6
    <2> HIDE DEF w
    <2>4. w.mem = v.mem /\ w.limbo = v.limbo /\ w.nextLimbo = v.nextLimbo
          /\ w.targets = v.targets /\ w.conn = v.conn /\ w.states = v.states
          /\ w.docs = v.docs
      BY <1>2, <2>2 DEF Client
    <2>5. v.stream # "Open"
      BY <2>1 DEF Started
    <2> QED  BY <1>2, <2>2, <2>3, <2>4, <2>5 DEF SameEngine, SameLimbo, Watched, u
  <1>7. CASE ~ShouldStartWatchStream(v)
    <2> DEFINE w == UpdateState(v, "Unknown")
    <2>1. /\ Sound(w) /\ SameEngine(v, w) /\ w.views = v.views
          /\ w = [v EXCEPT !.timer = FALSE, !.failures = 0, !.online = "Unknown",
                           !.views = w.views]
      BY <1>4, <1>5, UpdateStateIs DEF OnlineStates
    <2>2. u = w
      BY <1>3, <1>7
    <2> HIDE DEF w
    <2>3. w.targets = v.targets /\ w.conn = v.conn /\ w.states = v.states
          /\ w.docs = v.docs /\ w.stream = v.stream
      BY <1>2, <2>1 DEF Client
    <2> QED  BY <1>2, <2>1, <2>2, <2>3 DEF SameEngine, SameLimbo, Watched, u
  <1> QED  BY <1>6, <1>7

\* The network is not used any more.
LEMMA DisableIs ==
    ASSUME NEW s, Sound(s), Watched(s), NEW state \in OnlineStates
    PROVE  LET u == DisableNetwork(s, state)
           IN /\ Sound(u) /\ Watched(u) /\ SameEngine(s, u) /\ SameLimbo(s, u)
              /\ u.targets = s.targets /\ Silent(u)
  <1> DEFINE v == [s EXCEPT !.enabled = FALSE]
             w == Stop(v)
             x == CleanUp(w)
             u == UpdateState(x, state)
  <1>1. s \in Client /\ Steady(s) /\ OnlineKnown(s) /\ IdleKnown(s)
    BY DEF Sound, Steady
  <1>2. /\ v \in Client /\ v.ok = s.ok /\ v.targets = s.targets /\ v.stream = s.stream
        /\ v.conn = s.conn /\ v.states = s.states /\ v.limbo = s.limbo
        /\ v.nextLimbo = s.nextLimbo /\ v.mem = s.mem /\ v.views = s.views /\ v.idle = s.idle
        /\ v.timer = s.timer /\ v.online = s.online /\ v.failures = s.failures
        /\ v.enabled = FALSE
    BY <1>1 DEF Client
  <1> HIDE DEF v
  <1>3. Steady(v)
    BY <1>1, <1>2 DEF Steady, AllNumbered, Numbered, RequestedIds, ChangesKnown
  <1>4. OnlineKnown(v) /\ IdleKnown(v) /\ Watched(v)
    BY <1>1, <1>2 DEF OnlineKnown, IdleKnown, Started, Watched
  <1>5. /\ Sound(w) /\ Watched(w) /\ SameEngine(v, w) /\ SameLimbo(v, w)
        /\ w.targets = v.targets /\ ~Started(w)
    BY <1>2, <1>3, <1>4, StopIs DEF Sound
  <1> HIDE DEF w
  <1>6. w \in Client /\ Steady(w) /\ IdleKnown(w) /\ w.conn = Disconnected
    BY <1>5 DEF Sound, Steady, Started
  <1>7. /\ x \in Client /\ x.ok = w.ok /\ x.targets = w.targets /\ x.stream = w.stream
        /\ x.conn = w.conn /\ x.states = None /\ x.limbo = w.limbo
        /\ x.nextLimbo = w.nextLimbo /\ x.mem = w.mem /\ x.views = w.views /\ x.idle = w.idle
        /\ x.docs = None
    <2>1. None \in Partial(Target, TargetState) /\ None \in Partial(Doc, DocState)
      BY NoneIs
    <2> QED  BY <1>6, <2>1 DEF Client, CleanUp
  <1> HIDE DEF x
  <1>8. Steady(x) /\ IdleKnown(x)
    <2>1. AllNumbered(x)
      BY <1>6, <1>7, NoneIs DEF Steady, AllNumbered, Numbered, RequestedIds
    <2>2. ChangesKnown(x)
      BY <1>7, NoneIs DEF ChangesKnown
    <2> QED  BY <1>6, <1>7, <2>1, <2>2 DEF Steady, IdleKnown
  <1>9. /\ Sound(u) /\ SameEngine(x, u) /\ SameLimbo(x, u)
        /\ u = [x EXCEPT !.timer = FALSE, !.failures = 0, !.online = state, !.views = u.views]
    BY <1>8, UpdateStateIs
  <1>10. DisableNetwork(s, state) = u
    BY DEF DisableNetwork, v, w, x
  <1> HIDE DEF u
  <1>11. u.targets = x.targets /\ u.conn = x.conn /\ u.states = x.states
         /\ u.docs = x.docs /\ u.stream = x.stream
    BY <1>7, <1>9 DEF Client
  <1>12. Watched(u)
    BY <1>6, <1>7, <1>11, DisconnectedIs DEF Watched
  <1>13. SameEngine(s, u) /\ SameLimbo(s, u) /\ u.targets = s.targets
    BY <1>2, <1>5, <1>7, <1>9, <1>11 DEF SameEngine, SameLimbo
  <1>14. Silent(u)
    BY <1>5, <1>6, <1>7, <1>11 DEF Silent, Started
  <1> QED  BY <1>9, <1>10, <1>12, <1>13, <1>14

-----------------------------------------------------------------------------
(* The states of the targets.                                              *)

\* A bad change of a map over another is one of the two maps'.
LEMMA BadOver ==
    ASSUME NEW f, NEW g, Bad(f ++ g)
    PROVE  Bad(f) \/ Bad(g)
  BY OverKeys DEF Bad

\* A single addition is not bad, and a map without a key is no worse.
LEMMA BadOnly ==
    ASSUME NEW k, NEW f
    PROVE  ~Bad(Only(k, "Added")) /\ (Bad(Without(f, k)) => Bad(f))
  BY DEF Bad, Only, Without, Restrict

\* The documents a target is known to have; a limbo target only has what it has received.
LEMMA RemoteKeysAre ==
    ASSUME NEW s \in Client, disk \in AnyDisk, NEW t
    PROVE  /\ RemoteKeys(s, t) \subseteq Doc
           /\ t \in DOMAIN s.limbo /\ RemoteKeys(s, t) # {} => s.limbo[t]
  <1>1. s.limbo \in Partial(LimboTarget, BOOLEAN)
    BY DEF Client
  <1>2. DOMAIN s.limbo \subseteq LimboTarget
    BY <1>1, PartialIs
  <1>3. CASE t \in DOMAIN s.limbo
    <2>1. RemoteKeys(s, t) = IF s.limbo[t] THEN {t.key} ELSE {}
      <3>1. t \notin DOMAIN s.views
        BY <1>2, <1>3, ViewsAre, TargetsDiffer
      <3> QED  BY <1>3, <3>1 DEF RemoteKeys
    <2>2. t.key \in Doc
      BY <1>2, <1>3 DEF LimboTarget
    <2> QED  BY <2>1, <2>2
  <1>4. CASE t \notin DOMAIN s.limbo /\ t \in DOMAIN s.views
    <2>1. RemoteKeys(s, t) = disk.keys[t]
      BY <1>4 DEF RemoteKeys
    <2>2. t \in Query /\ disk.keys \in [Query -> SUBSET Doc]
      BY <1>4, ViewsAre DEF AnyDisk
    <2> QED  BY <1>4, <2>1, <2>2
  <1>5. CASE t \notin DOMAIN s.limbo /\ t \notin DOMAIN s.views
    BY <1>5 DEF RemoteKeys
  <1> QED  BY <1>3, <1>4, <1>5

\* A target whose number, if it has one, was given out.
KnownTarget(s, t) == t \in Target /\ (t \in LimboTarget => t.n <= s.nextLimbo)

\* A state of a limbo target that holds no change before its document was received
FineState(s, t, state) ==
    state \in TargetState /\ (t \in DOMAIN s.limbo /\ Bad(state.changes) => s.limbo[t])

\* States the targets may have in s
FineStates(s, states) ==
    /\ states \in Partial(Target, TargetState)
    /\ \A t \in DOMAIN states : KnownTarget(s, t) /\ FineState(s, t, states[t])

\* All of s but the states and the messages collected is as in u
SameRest(s, u) ==
    /\ u.enabled = s.enabled /\ u.stream = s.stream /\ u.online = s.online
    /\ u.failures = s.failures /\ u.timer = s.timer /\ u.idle = s.idle /\ u.conn = s.conn
    /\ u.targets = s.targets /\ u.mem = s.mem /\ u.views = s.views
    /\ u.limbo = s.limbo /\ u.nextLimbo = s.nextLimbo /\ u.ok = s.ok

\* The states there are, are fine.
LEMMA OwnStates ==
    ASSUME NEW s, Sound(s)
    PROVE  /\ s \in Client /\ s.ok /\ FineStates(s, s.states)
           /\ \A t : t \in Target => FineState(s, t, StateOf(s, t))
  <1>1. s \in Client /\ s.ok /\ AllNumbered(s) /\ ChangesKnown(s)
    BY DEF Sound, Steady
  <1>2. s.states \in Partial(Target, TargetState)
    BY <1>1 DEF Client
  <1>3. /\ DOMAIN s.states \subseteq Target
        /\ \A t \in DOMAIN s.states : s.states[t] \in TargetState
    BY <1>2, PartialIs
  <1>4. \A t \in DOMAIN s.states : KnownTarget(s, t) /\ FineState(s, t, s.states[t])
    BY <1>1, <1>3 DEF KnownTarget, FineState, AllNumbered, Numbered, ChangesKnown
  <1>5. \A t : t \in Target => FineState(s, t, StateOf(s, t))
    <2> TAKE t
    <2>1. CASE t \in DOMAIN s.states
      BY <1>1, <1>4, <2>1, StateOfIs
    <2>2. CASE t \notin DOMAIN s.states
      <3>1. StateOf(s, t) = Fresh /\ Fresh \in TargetState /\ Fresh.changes = None
        BY <1>1, <2>2, StateOfIs
      <3> QED  BY <3>1, NoneIsGood DEF FineState
    <2> QED  BY <2>1, <2>2
  <1> QED  BY <1>1, <1>2, <1>4, <1>5 DEF FineStates

\* Fine states over fine states are fine.
LEMMA StatesOver ==
    ASSUME NEW s, NEW f, NEW g, FineStates(s, f), FineStates(s, g)
    PROVE  FineStates(s, f ++ g)
  <1>1. f \in Partial(Target, TargetState) /\ g \in Partial(Target, TargetState)
    BY DEF FineStates
  <1>2. f ++ g \in Partial(Target, TargetState)
    BY <1>1, OverIs
  <1>3. ASSUME NEW t \in DOMAIN (f ++ g)
        PROVE  KnownTarget(s, t) /\ FineState(s, t, (f ++ g)[t])
    <2>1. CASE t \in DOMAIN f
      <3>1. (f ++ g)[t] = f[t]
        BY <2>1 DEF ++
      <3>2. KnownTarget(s, t) /\ FineState(s, t, f[t])
        BY <2>1 DEF FineStates
      <3> QED  BY <3>1, <3>2
    <2>2. CASE t \notin DOMAIN f
      <3>0. t \in DOMAIN g
        BY <1>3, <2>2, OverKeys, Zenon
      <3>1. (f ++ g)[t] = g[t]
        BY <2>2, <3>0 DEF ++
      <3>2. KnownTarget(s, t) /\ FineState(s, t, g[t])
        BY <3>0 DEF FineStates
      <3> QED  BY <3>1, <3>2
    <2> QED  BY <2>1, <2>2
  <1> QED  BY <1>2, <1>3 DEF FineStates

\* One fine state.
LEMMA StatesOnly ==
    ASSUME NEW s, NEW t, NEW state, KnownTarget(s, t), FineState(s, t, state)
    PROVE  FineStates(s, Only(t, state))
  <1>1. t \in Target /\ state \in TargetState
    BY DEF KnownTarget, FineState
  <1>2. Only(t, state) \in Partial(Target, TargetState)
    BY <1>1, OnlyIs
  <1>3. \A x \in DOMAIN Only(t, state) : x = t /\ Only(t, state)[x] = state
    BY DEF Only
  <1> QED  BY <1>2, <1>3 DEF FineStates

\* Fine states without one of them.
LEMMA StatesWithout ==
    ASSUME NEW s, NEW f, FineStates(s, f), NEW x
    PROVE  FineStates(s, Without(f, x))
  <1>1. f \in Partial(Target, TargetState)
    BY DEF FineStates
  <1>2. Without(f, x) \in Partial(Target, TargetState)
    BY <1>1, WithoutIs
  <1>3. \A y \in DOMAIN Without(f, x) : y \in DOMAIN f /\ Without(f, x)[y] = f[y]
    BY DEF Without, Restrict
  <1> QED  BY <1>2, <1>3 DEF FineStates

\* Only the states, the documents and the targets to reset differ.
Changed(s, u, states, docs, resets) ==
    u = [s EXCEPT !.states = states, !.docs = docs, !.resets = resets]

\* With other fine states and messages collected the client is sound.
LEMMA NewStates ==
    ASSUME NEW s, Sound(s), NEW states, FineStates(s, states),
           NEW docs \in Partial(Doc, DocState), NEW resets \in SUBSET Query,
           NEW u, Changed(s, u, states, docs, resets)
    PROVE  /\ Sound(u) /\ SameRest(s, u)
           /\ u.states = states /\ u.docs = docs /\ u.resets = resets
  <1>1. s \in Client /\ s.ok /\ Steady(s) /\ OnlineKnown(s) /\ IdleKnown(s)
    BY DEF Sound, Steady
  <1>2. states \in Partial(Target, TargetState)
        /\ \A t \in DOMAIN states : KnownTarget(s, t) /\ FineState(s, t, states[t])
    BY DEF FineStates
  <1>3. /\ u \in Client /\ SameRest(s, u)
        /\ u.states = states /\ u.docs = docs /\ u.resets = resets
    BY <1>1, <1>2 DEF Client, SameRest, Changed
  <1>4. AllNumbered(u)
    <2>1. Numbered(u, DOMAIN u.states)
      BY <1>2, <1>3 DEF Numbered, KnownTarget, SameRest
    <2> QED  BY <1>1, <1>3, <2>1 DEF Steady, AllNumbered, Numbered, RequestedIds, SameRest
  <1>5. ChangesKnown(u)
    BY <1>2, <1>3 DEF ChangesKnown, FineState, SameRest
  <1>6. Steady(u)
    BY <1>1, <1>3, <1>4, <1>5 DEF Steady, SameRest
  <1>7. OnlineKnown(u) /\ IdleKnown(u)
    BY <1>1, <1>3 DEF OnlineKnown, IdleKnown, Started, SameRest
  <1> QED  BY <1>3, <1>6, <1>7 DEF Sound

\* The states alone are changed.
LEMMA NewStatesAlone ==
    ASSUME NEW s, Sound(s), NEW states, FineStates(s, states),
           NEW u, u = [s EXCEPT !.states = states]
    PROVE  Sound(u) /\ SameRest(s, u) /\ u.states = states
  <1>1. s \in Client
    BY DEF Sound, Steady
  <1>2. s.docs \in Partial(Doc, DocState) /\ s.resets \in SUBSET Query
    BY <1>1 DEF Client
  <1>3. Changed(s, u, states, s.docs, s.resets)
    BY <1>1 DEF Client, Changed
  <1> QED  BY <1>2, <1>3, NewStates

\* EnsureTargetState, and the state is set.
LEMMA WithStateIs ==
    ASSUME NEW s, Sound(s), NEW t, NEW state, KnownTarget(s, t), FineState(s, t, state)
    PROVE  LET u == WithState(s, t, state)
           IN /\ Sound(u) /\ SameRest(s, u) /\ t \in DOMAIN u.states
              /\ DOMAIN s.states \subseteq DOMAIN u.states
  <1> DEFINE u == WithState(s, t, state)
             states == Only(t, state) ++ s.states
  <1>1. FineStates(s, states)
    BY OwnStates, StatesOnly, StatesOver
  <1>2. u = [s EXCEPT !.states = states]
    <2>1. s \in Client
      BY OwnStates
    <2> QED  BY <2>1 DEF WithState, Client
  <1>3. t \in DOMAIN states /\ DOMAIN s.states \subseteq DOMAIN states
    <2>1. t \in DOMAIN Only(t, state)
      BY DEF Only
    <2> QED  BY <2>1, OverKeys
  <1> HIDE DEF u, states
  <1>4. Sound(u) /\ SameRest(s, u) /\ u.states = states
    BY <1>1, <1>2, NewStatesAlone
  <1> QED  BY <1>3, <1>4 DEF u

-----------------------------------------------------------------------------
(* The aggregator.                                                         *)

\* What becomes of a target's changes in ChangeDocument
ChangesWith(s, key, there, t) ==
    CASE there -> Only(key, IF key \in RemoteKeys(s, t) THEN "Modified" ELSE "Added")
                      ++ StateOf(s, t).changes
      [] ~there /\ key \in RemoteKeys(s, t) -> Only(key, "Removed") ++ StateOf(s, t).changes
      [] OTHER -> Without(StateOf(s, t).changes, key)

\* They are changes, and bad only if the document was received.
LEMMA ChangesWithAre ==
    ASSUME NEW s, Sound(s), disk \in AnyDisk, NEW key \in Doc, NEW there, NEW t \in Target
    PROVE  /\ ChangesWith(s, key, there, t) \in Partial(Doc, Type)
           /\ t \in DOMAIN s.limbo /\ Bad(ChangesWith(s, key, there, t)) => s.limbo[t]
  <1> DEFINE changes == StateOf(s, t).changes
             known == key \in RemoteKeys(s, t)
             type == IF known THEN "Modified" ELSE "Added"
             c == ChangesWith(s, key, there, t)
  <1>1. s \in Client /\ StateOf(s, t) \in TargetState /\ FineState(s, t, StateOf(s, t))
    BY OwnStates, StateOfIs
  <1>2. changes \in Partial(Doc, Type) /\ (t \in DOMAIN s.limbo /\ Bad(changes) => s.limbo[t])
    BY <1>1 DEF FineState, TargetState
  <1>3. known /\ t \in DOMAIN s.limbo => s.limbo[t]
    BY <1>1, RemoteKeysAre
  <1>4. type \in Type /\ "Removed" \in Type
    BY DEF Type
  <1> HIDE DEF changes
  <1>5. /\ Only(key, type) \in Partial(Doc, Type) /\ Only(key, "Removed") \in Partial(Doc, Type)
    BY <1>4, OnlyIs
  <1>6. CASE there
    <2>1. c = Only(key, type) ++ changes
      BY <1>6 DEF ChangesWith, changes
    <2>2. c \in Partial(Doc, Type)
      <3> HIDE DEF c, type
      <3> QED  BY <1>2, <1>5, <2>1, OverIs
    <2>3. ASSUME Bad(c), ~known PROVE Bad(changes)
      <3>1. type = "Added"
        BY <2>3
      <3>2. Bad(Only(key, "Added") ++ changes)
        BY <2>1, <2>3, <3>1
      <3> QED  BY <3>2, BadOver, BadOnly
    <2> QED  BY <1>2, <1>3, <2>2, <2>3
  <1>7. CASE ~there /\ known
    <2>1. c = Only(key, "Removed") ++ changes
      BY <1>7 DEF ChangesWith, changes
    <2>2. c \in Partial(Doc, Type)
      <3> HIDE DEF c
      <3> QED  BY <1>2, <1>5, <2>1, OverIs
    <2> QED  BY <1>3, <1>7, <2>2
  <1>8. CASE ~there /\ ~known
    <2>1. c = Without(changes, key)
      BY <1>8 DEF ChangesWith, changes
    <2>2. c \in Partial(Doc, Type)
      <3> HIDE DEF c
      <3> QED  BY <1>2, <2>1, WithoutIs
    <2>3. Bad(c) => Bad(changes)
      BY <2>1, BadOnly
    <2> QED  BY <1>2, <2>2, <2>3
  <1> QED  BY <1>6, <1>7, <1>8

\* A document is added to or removed from the active ones of some targets.
LEMMA ChangeDocumentIs ==
    ASSUME NEW s, Sound(s), disk \in AnyDisk, NEW ids, \A t \in ids : KnownTarget(s, t),
           NEW key \in Doc, NEW there, NEW updates \in Partial(Doc, DocState)
    PROVE  LET u == ChangeDocument(s, ids, key, there, updates)
           IN Sound(u) /\ SameRest(s, u) /\ DOMAIN s.states \subseteq DOMAIN u.states
  <1> DEFINE active == {t \in ids : IsActive(s, t)}
             new == [t \in active |-> [StateOf(s, t) EXCEPT !.pending = TRUE,
                                          !.changes = ChangesWith(s, key, there, t)]]
             states == new ++ s.states
             docs == IF active = {} THEN s.docs ELSE updates ++ s.docs
             u == ChangeDocument(s, ids, key, there, updates)
  <1>1. s \in Client /\ FineStates(s, s.states)
    BY OwnStates
  <1>2. ASSUME NEW t \in active
        PROVE  KnownTarget(s, t) /\ FineState(s, t, new[t])
    <2>1. KnownTarget(s, t) /\ t \in Target
      BY DEF KnownTarget
    <2>2. /\ ChangesWith(s, key, there, t) \in Partial(Doc, Type)
          /\ t \in DOMAIN s.limbo /\ Bad(ChangesWith(s, key, there, t)) => s.limbo[t]
      BY <2>1, ChangesWithAre
    <2>3. StateOf(s, t) \in TargetState
      BY <1>1, StateOfIs
    <2>4. new[t] = [StateOf(s, t) EXCEPT !.pending = TRUE,
                                         !.changes = ChangesWith(s, key, there, t)]
      OBVIOUS
    <2> HIDE DEF new, active
    <2>5. new[t] \in TargetState /\ new[t].changes = ChangesWith(s, key, there, t)
      BY <2>2, <2>3, <2>4 DEF TargetState
    <2> QED  BY <2>1, <2>2, <2>5 DEF FineState
  <1>3. FineStates(s, new)
    <2>1. DOMAIN new = active
      OBVIOUS
    <2>2. new \in [active -> TargetState]
      BY <1>2 DEF FineState
    <2>3. active \subseteq Target
      BY <1>2 DEF KnownTarget
    <2> HIDE DEF new, active
    <2>4. new \in Partial(Target, TargetState)
      BY <2>1, <2>2, <2>3, PartialIs
    <2> QED  BY <1>2, <2>1, <2>4 DEF FineStates
  <1>4. FineStates(s, states)
    <2> HIDE DEF new
    <2> QED  BY <1>1, <1>3, StatesOver
  <1>5. DOMAIN s.states \subseteq DOMAIN states
    <2> HIDE DEF new
    <2> QED  BY OverKeys
  <1>6. docs \in Partial(Doc, DocState)
    <2>1. s.docs \in Partial(Doc, DocState)
      BY <1>1 DEF Client
    <2>2. updates ++ s.docs \in Partial(Doc, DocState)
      BY <2>1, OverIs
    <2> QED  BY <2>1, <2>2
  <1>7. s.resets \in SUBSET Query
    BY <1>1 DEF Client
  <1>8. u = [s EXCEPT !.states = states, !.docs = docs]
    BY <1>1 DEF ChangeDocument, ChangesWith, Client
  <1>9. Changed(s, u, states, docs, s.resets)
    <2> HIDE DEF u, states, docs
    <2> QED  BY <1>1, <1>8 DEF Changed, Client
  <1> HIDE DEF u, states, docs
  <1>10. Sound(u) /\ SameRest(s, u) /\ u.states = states
    BY <1>4, <1>6, <1>7, <1>9, NewStates
  <1> QED  BY <1>5, <1>10 DEF u

\* A target that is active starts over.
LEMMA ResetTargetIs ==
    ASSUME NEW s, Sound(s), disk \in AnyDisk, NEW t \in DOMAIN s.states, IsActive(s, t)
    PROVE  LET u == ResetTarget(s, t)
           IN Sound(u) /\ SameRest(s, u) /\ DOMAIN s.states \subseteq DOMAIN u.states
  <1> DEFINE keys == RemoteKeys(s, t)
             changes == [k \in keys |-> "Removed"]
             state == [Fresh EXCEPT !.pending = keys # {}, !.changes = changes]
             u == ResetTarget(s, t)
  <1>1. s \in Client /\ s.ok /\ FineStates(s, s.states)
    BY OwnStates
  <1>2. keys \subseteq Doc /\ (t \in DOMAIN s.limbo /\ keys # {} => s.limbo[t])
    BY <1>1, RemoteKeysAre
  <1>3. s.states[t].out = 0
    BY <1>1, StateOfIs DEF IsActive
  <1>4. HardAssert(s, t \in DOMAIN s.states /\ s.states[t].out = 0) = s
    BY <1>1, <1>3, AssertHolds
  <1>5. changes \in Partial(Doc, Type) /\ DOMAIN changes = keys
    <2> HIDE DEF keys
    <2>1. DOMAIN changes = keys /\ changes \in [keys -> Type]
      BY DEF Type
    <2> HIDE DEF changes
    <2> QED  BY <1>2, <2>1, PartialIs
  <1>6. FineState(s, t, state)
    <2>1. (keys # {}) \in BOOLEAN /\ Fresh \in TargetState
      BY <1>1, StateOfIs
    <2>2. Bad(changes) => keys # {}
      BY <1>5 DEF Bad
    <2> HIDE DEF keys, changes
    <2>3. state \in TargetState /\ state.changes = changes
      BY <1>5, <2>1 DEF TargetState
    <2> HIDE DEF state
    <2> QED  BY <1>2, <2>2, <2>3 DEF FineState
  <1>7. KnownTarget(s, t)
    BY <1>1 DEF FineStates
  <1>8. u = WithState(s, t, state)
    BY <1>4, Zenon DEF ResetTarget
  <1> HIDE DEF state, u
  <1> QED  BY <1>6, <1>7, <1>8, WithStateIs DEF u

\* A token is noted for the next snapshot.
LEMMA UpdateResumeTokenIs ==
    ASSUME NEW state \in TargetState, NEW token \in Version
    PROVE  /\ UpdateResumeToken(state, token) \in TargetState
           /\ UpdateResumeToken(state, token).changes = state.changes
  BY DEF UpdateResumeToken, TargetState

\* The backend answers a request.
LEMMA AnsweredIs ==
    ASSUME NEW s, Sound(s), NEW t \in Target
    PROVE  /\ Answered(s, t) \in TargetState /\ FineState(s, t, Answered(s, t))
           /\ FineState(s, t, [Answered(s, t) EXCEPT !.pending = FALSE, !.changes = None])
  <1>1. s \in Client /\ StateOf(s, t) \in TargetState /\ FineState(s, t, StateOf(s, t))
    BY OwnStates, StateOfIs
  <1>2. StateOf(s, t).out - 1 \in Int
    <2>1. StateOf(s, t).out \in Int
      BY <1>1 DEF TargetState
    <2> QED  BY <2>1
  <1> DEFINE a == Answered(s, t)
             b == [a EXCEPT !.pending = FALSE, !.changes = None]
  <1>3. a \in TargetState /\ a.changes = StateOf(s, t).changes
    BY <1>1, <1>2 DEF Answered, TargetState
  <1> HIDE DEF a
  <1>4. FineState(s, t, a)
    BY <1>1, <1>3 DEF FineState
  <1>5. b \in TargetState /\ b.changes = None
    <2>1. None \in Partial(Doc, Type)
      BY NoneIs
    <2> QED  BY <1>3, <2>1 DEF TargetState
  <1> HIDE DEF b
  <1>6. FineState(s, t, b)
    BY <1>5, NoneIsGood DEF FineState
  <1> QED  BY <1>3, <1>4, <1>6 DEF a, b

\* What the aggregator may be told of targets
TargetChange(s, m) ==
    /\ m.kind \in {"NoChange", "Added", "Removed", "Current", "Reset"}
    /\ m.token \in Version
    /\ m.kind # "NoChange" => KnownTarget(s, m.id)
    /\ m.kind = "Reset" => m.id \in DOMAIN s.states

\* What the aggregator knows after it has heard of a target
Heard(s, u, m) ==
    /\ Sound(u) /\ SameRest(s, u)
    /\ m.kind # "Removed" => DOMAIN s.states \subseteq DOMAIN u.states
    /\ m.kind = "Removed" => \A t \in DOMAIN s.states : t = m.id \/ t \in DOMAIN u.states
    /\ m.kind = "Added" => m.id \in DOMAIN u.states

\* A change of a target.
LEMMA HandleTargetChangeIs ==
    ASSUME NEW s, Sound(s), disk \in AnyDisk, NEW m, TargetChange(s, m)
    PROVE  Heard(s, HandleTargetChange(s, m), m)
  <1> DEFINE t == m.id
             a == Answered(s, t)
             u == HandleTargetChange(s, m)
  <1>1. s \in Client /\ FineStates(s, s.states)
    BY OwnStates
  <1>2. m.kind # "NoChange" => t \in Target /\ KnownTarget(s, t)
    BY DEF TargetChange, KnownTarget
  <1>3. ASSUME u = s, m.kind # "Added", m.kind # "Removed" PROVE Heard(s, u, m)
    BY <1>3 DEF Heard, SameRest
  <1>4. CASE m.kind = "NoChange"
    <2> DEFINE states == [x \in DOMAIN s.states |->
                  IF IsActive(s, x) THEN UpdateResumeToken(s.states[x], m.token) ELSE s.states[x]]
    <2>1. u = [s EXCEPT !.states = states]
      BY <1>1, <1>4 DEF HandleTargetChange, Client
    <2>2. ASSUME NEW x \in DOMAIN s.states
          PROVE  KnownTarget(s, x) /\ FineState(s, x, states[x])
      <3>1. KnownTarget(s, x) /\ FineState(s, x, s.states[x])
        BY <1>1 DEF FineStates
      <3>2. s.states[x] \in TargetState /\ m.token \in Version
        BY <3>1 DEF FineState, TargetChange
      <3>3. states[x] \in TargetState /\ states[x].changes = s.states[x].changes
        BY <3>2, UpdateResumeTokenIs
      <3> HIDE DEF states
      <3> QED  BY <3>1, <3>3 DEF FineState
    <2>3. FineStates(s, states)
      <3>1. DOMAIN states = DOMAIN s.states /\ states \in [DOMAIN s.states -> TargetState]
        BY <2>2 DEF FineState
      <3>2. DOMAIN s.states \subseteq Target
        BY <2>2 DEF KnownTarget
      <3> HIDE DEF states
      <3>3. states \in Partial(Target, TargetState)
        BY <3>1, <3>2, PartialIs
      <3> QED  BY <2>2, <3>1, <3>3 DEF FineStates
    <2>4. DOMAIN states = DOMAIN s.states
      OBVIOUS
    <2> HIDE DEF states, u
    <2>5. Sound(u) /\ SameRest(s, u) /\ u.states = states
      BY <2>1, <2>3, NewStatesAlone
    <2> QED  BY <1>4, <2>4, <2>5 DEF Heard, u
  <1>5. CASE m.kind = "Added"
    <2> DEFINE state == IF a.out # 0 THEN a ELSE [a EXCEPT !.pending = FALSE, !.changes = None]
    <2>1. FineState(s, t, state)
      BY <1>2, <1>5, AnsweredIs
    <2>2. u = WithState(s, t, state)
      BY <1>5 DEF HandleTargetChange
    <2> HIDE DEF u, state
    <2>3. /\ Sound(u) /\ SameRest(s, u) /\ t \in DOMAIN u.states
          /\ DOMAIN s.states \subseteq DOMAIN u.states
      BY <1>2, <1>5, <2>1, <2>2, WithStateIs
    <2> QED  BY <1>5, <2>3 DEF Heard, u
  <1>6. CASE m.kind = "Removed" /\ a.out # 0
    <2>1. FineState(s, t, a)
      BY <1>2, <1>6, AnsweredIs
    <2>2. u = WithState(s, t, a)
      BY <1>6 DEF HandleTargetChange
    <2> HIDE DEF u, a
    <2>3. /\ Sound(u) /\ SameRest(s, u)
          /\ DOMAIN s.states \subseteq DOMAIN u.states
      BY <1>2, <1>6, <2>1, <2>2, WithStateIs
    <2> QED  BY <1>6, <2>3 DEF Heard, u
  <1>7. CASE m.kind = "Removed" /\ ~(a.out # 0)
    <2> DEFINE states == Without(s.states, t)
    <2>1. FineStates(s, states)
      BY <1>1, StatesWithout
    <2>2. u = [s EXCEPT !.states = states]
      BY <1>1, <1>7 DEF HandleTargetChange, Client
    <2>3. \A x \in DOMAIN s.states : x = t \/ x \in DOMAIN states
      BY DEF Without, Restrict
    <2> HIDE DEF u, states
    <2>4. Sound(u) /\ SameRest(s, u) /\ u.states = states
      BY <2>1, <2>2, NewStatesAlone
    <2> QED  BY <1>7, <2>3, <2>4 DEF Heard, u
  <1>8. CASE m.kind = "Current" /\ IsActive(s, t)
    <2> DEFINE b == [StateOf(s, t) EXCEPT !.current = TRUE, !.pending = TRUE]
               state == UpdateResumeToken(b, m.token)
    <2>1. StateOf(s, t) \in TargetState /\ FineState(s, t, StateOf(s, t))
      BY <1>1, <1>2, <1>8, StateOfIs, OwnStates
    <2>2. b \in TargetState /\ b.changes = StateOf(s, t).changes
      BY <2>1 DEF TargetState
    <2>3. m.token \in Version
      BY DEF TargetChange
    <2>4. u = WithState(s, t, state)
      BY <1>8 DEF HandleTargetChange
    <2> HIDE DEF u, b
    <2>5. state \in TargetState /\ state.changes = StateOf(s, t).changes
      BY <2>2, <2>3, UpdateResumeTokenIs
    <2>6. FineState(s, t, state)
      BY <2>1, <2>5 DEF FineState
    <2> HIDE DEF state
    <2>7. /\ Sound(u) /\ SameRest(s, u) /\ DOMAIN s.states \subseteq DOMAIN u.states
      BY <1>2, <1>8, <2>4, <2>6, WithStateIs
    <2> QED  BY <1>8, <2>7 DEF Heard, u
  <1>9. CASE m.kind = "Reset" /\ IsActive(s, t)
    <2>1. u = ResetTarget(s, t)
      BY <1>9 DEF HandleTargetChange
    <2>2. t \in DOMAIN s.states
      BY <1>9 DEF TargetChange
    <2> HIDE DEF u
    <2>3. Sound(u) /\ SameRest(s, u) /\ DOMAIN s.states \subseteq DOMAIN u.states
      BY <1>9, <2>1, <2>2, ResetTargetIs
    <2> QED  BY <1>9, <2>3 DEF Heard, u
  <1>10. CASE m.kind \in {"Current", "Reset"} /\ ~IsActive(s, t)
    <2>1. u = s
      BY <1>10 DEF HandleTargetChange
    <2> QED  BY <1>3, <1>10, <2>1
  <1> QED  BY <1>4, <1>5, <1>6, <1>7, <1>8, <1>9, <1>10 DEF TargetChange

\* What the aggregator may be told of a document, and of the size of a result
DocumentChange(s, m) ==
    /\ m.kind = "Doc" /\ m.key \in Doc /\ m.doc \in DocState
    /\ \A t \in m.ids : KnownTarget(s, t)

ExistenceFilter(s, m) ==
    /\ m.kind = "Filter" /\ m.id \in DOMAIN s.states
    /\ IsDocumentQuery(m.id) => m.count \in {0, 1}

AnyMessage(s, m) == DocumentChange(s, m) \/ ExistenceFilter(s, m) \/ TargetChange(s, m)

\* The one document a document query is about.
LEMMA TheKey ==
    ASSUME NEW t \in Target, IsDocumentQuery(t)
    PROVE  (CHOOSE k \in KeysOf(t) : TRUE) \in Doc
           /\ KeysOf(t) = {CHOOSE k \in KeysOf(t) : TRUE}
  <1>1. PICK k \in Doc : KeysOf(t) = {k}
    BY KeysOfIs
  <1> QED  BY <1>1

\* A count is noted, the document is gone or the target starts over.
LEMMA HandleExistenceFilterIs ==
    ASSUME NEW s, Sound(s), disk \in AnyDisk, NEW m, ExistenceFilter(s, m)
    PROVE  Heard(s, HandleExistenceFilter(s, m), m)
  <1> DEFINE t == m.id
             key == CHOOSE k \in KeysOf(t) : TRUE
             u == HandleExistenceFilter(s, m)
  <1>1. s \in Client /\ s.ok /\ FineStates(s, s.states)
    BY OwnStates
  <1>2. m.kind = "Filter" /\ t \in DOMAIN s.states /\ (IsDocumentQuery(t) => m.count \in {0, 1})
    BY DEF ExistenceFilter
  <1>3. t \in Target /\ KnownTarget(s, t)
    BY <1>1, <1>2 DEF FineStates, KnownTarget
  <1>4. CASE u = s
    BY <1>2, <1>4 DEF Heard, SameRest
  <1>5. CASE IsActive(s, t) /\ IsDocumentQuery(t) /\ m.count = 0
    <2>1. u = ChangeDocument(s, {t}, key, FALSE, Only(key, Unknown))
      BY <1>5 DEF HandleExistenceFilter
    <2>2. key \in Doc
      BY <1>3, <1>5, TheKey
    <2>3. Only(key, Unknown) \in Partial(Doc, DocState)
      <3>1. Unknown \in DocState
        BY DEF Unknown, DocState
      <3> HIDE DEF key
      <3> QED  BY <2>2, <3>1, OnlyIs
    <2> DEFINE updates == Only(key, Unknown)
    <2>4. \A x \in {t} : KnownTarget(s, x)
      BY <1>3
    <2> HIDE DEF key, u, updates
    <2>5. u = ChangeDocument(s, {t}, key, FALSE, updates)
      BY <2>1 DEF updates
    <2>6. updates \in Partial(Doc, DocState)
      BY <2>3 DEF updates
    <2>7. Sound(u) /\ SameRest(s, u) /\ DOMAIN s.states \subseteq DOMAIN u.states
      BY <2>2, <2>4, <2>5, <2>6, ChangeDocumentIs
    <2> QED  BY <1>2, <2>7 DEF Heard, u
  <1>6. CASE IsActive(s, t) /\ IsDocumentQuery(t) /\ m.count # 0
    <2>1. HardAssert(s, m.count = 1) = s
      BY <1>1, <1>2, <1>6, AssertHolds
    <2>2. u = s
      BY <1>6, <2>1 DEF HandleExistenceFilter
    <2> QED  BY <1>4, <2>2
  <1>7. CASE IsActive(s, t) /\ ~IsDocumentQuery(t) /\ u # s
    <2> DEFINE r == ResetTarget(s, t)
    <2>1. u = [r EXCEPT !.resets = @ \cup {t}]
      BY <1>7 DEF HandleExistenceFilter
    <2>2. Sound(r) /\ SameRest(s, r) /\ DOMAIN s.states \subseteq DOMAIN r.states
      BY <1>2, <1>7, ResetTargetIs
    <2> HIDE DEF r, u
    <2>3. r \in Client /\ FineStates(r, r.states)
      BY <2>2, OwnStates
    <2>4. r.docs \in Partial(Doc, DocState) /\ r.resets \cup {t} \in SUBSET Query
      BY <1>7, <2>3 DEF Client, IsDocumentQuery
    <2>5. Changed(r, u, r.states, r.docs, r.resets \cup {t})
      BY <2>1, <2>3 DEF Changed, Client
    <2>6. Sound(u) /\ SameRest(r, u) /\ u.states = r.states
      BY <2>2, <2>3, <2>4, <2>5, NewStates
    <2> QED  BY <1>2, <2>2, <2>6 DEF Heard, SameRest, u
  <1>8. ~IsActive(s, t) => u = s
    BY DEF HandleExistenceFilter
  <1> QED  BY <1>4, <1>5, <1>6, <1>7, <1>8

\* The aggregator hears a message.
LEMMA AggregatedIs ==
    ASSUME NEW s, Sound(s), disk \in AnyDisk, NEW m, AnyMessage(s, m)
    PROVE  Heard(s, Aggregated(s, m), m)
  <1>1. CASE DocumentChange(s, m)
    <2> DEFINE updates == Only(m.key, m.doc)
               u == ChangeDocument(s, m.ids, m.key, m.doc.there, updates)
    <2>1. m.key \in Doc /\ m.doc \in DocState /\ (\A t \in m.ids : KnownTarget(s, t))
          /\ m.kind = "Doc"
      BY <1>1 DEF DocumentChange
    <2>2. updates \in Partial(Doc, DocState)
      BY <2>1, OnlyIs
    <2>3. Aggregated(s, m) = u
      BY <2>1 DEF Aggregated, HandleDocumentChange
    <2> HIDE DEF updates
    <2>4. Sound(u) /\ SameRest(s, u) /\ DOMAIN s.states \subseteq DOMAIN u.states
      BY <2>1, <2>2, ChangeDocumentIs
    <2> HIDE DEF u
    <2> QED  BY <2>1, <2>3, <2>4 DEF Heard
  <1>2. CASE ExistenceFilter(s, m)
    <2>1. Aggregated(s, m) = HandleExistenceFilter(s, m)
      BY <1>2 DEF Aggregated, ExistenceFilter
    <2> QED  BY <1>2, <2>1, HandleExistenceFilterIs
  <1>3. CASE TargetChange(s, m)
    <2>1. Aggregated(s, m) = HandleTargetChange(s, m)
      BY <1>3 DEF Aggregated, TargetChange
    <2> QED  BY <1>3, <2>1, HandleTargetChangeIs
  <1> QED  BY <1>1, <1>2, <1>3 DEF AnyMessage

\* A document query that got no document has none: the deletion is synthesized.
LEMMA SynthesizedIs ==
    ASSUME NEW s, Sound(s), NEW version \in Version
    PROVE  LET u == Synthesized(s, version)
           IN Sound(u) /\ SameRest(s, u) /\ u.resets = s.resets
              /\ \A t : t \in DOMAIN u.states <=> t \in DOMAIN s.states
  <1> DEFINE Key(t) == CHOOSE k \in KeysOf(t) : TRUE
             missing == {t \in DOMAIN s.states :
                /\ IsActive(s, t) /\ IsDocumentQuery(t) /\ s.states[t].current
                /\ KeysOf(t) \cap (DOMAIN s.docs \cup RemoteKeys(s, t)) = {}}
             first == {t \in missing : t = CHOOSE x \in missing : Key(x) = Key(t)}
             gone == [there |-> FALSE, at |-> version]
             new == [t \in first |-> [s.states[t] EXCEPT !.pending = TRUE,
                                          !.changes = Without(@, Key(t))]]
             deleted == [k \in {Key(t) : t \in first} |-> gone]
             states == new ++ s.states
             docs == deleted ++ s.docs
             u == Synthesized(s, version)
  <1>1. s \in Client /\ FineStates(s, s.states)
    BY OwnStates
  <1>2. u = [s EXCEPT !.states = states, !.docs = docs]
    BY <1>1 DEF Synthesized, Client
  <1>3. first \subseteq DOMAIN s.states /\ \A t \in first : IsDocumentQuery(t)
    OBVIOUS
  <1>4. DOMAIN s.states \subseteq Target
    BY <1>1 DEF FineStates, KnownTarget
  <1> HIDE DEF first, missing
  <1>5. ASSUME NEW t \in first
        PROVE  KnownTarget(s, t) /\ FineState(s, t, new[t])
    <2>1. KnownTarget(s, t) /\ FineState(s, t, s.states[t])
      BY <1>1, <1>3 DEF FineStates
    <2> DEFINE changes == s.states[t].changes
               less == Without(changes, Key(t))
    <2>2. changes \in Partial(Doc, Type)
      BY <2>1 DEF FineState, TargetState
    <2>3. less \in Partial(Doc, Type) /\ (Bad(less) => Bad(changes))
      <3> HIDE DEF changes, Key
      <3> QED  BY <2>2, WithoutIs, BadOnly
    <2>4. new[t] = [s.states[t] EXCEPT !.pending = TRUE, !.changes = less]
      <3>1. s.states[t] \in TargetState
        BY <2>1 DEF FineState
      <3> QED  BY <3>1 DEF TargetState
    <2> HIDE DEF new, less
    <2>5. new[t] \in TargetState /\ new[t].changes = less
      BY <2>1, <2>3, <2>4 DEF FineState, TargetState
    <2> QED  BY <2>1, <2>3, <2>5 DEF FineState
  <1>6. FineStates(s, new)
    <2>1. DOMAIN new = first
      OBVIOUS
    <2>2. new \in [first -> TargetState]
      BY <1>5 DEF FineState
    <2> HIDE DEF new
    <2>3. new \in Partial(Target, TargetState)
      BY <1>3, <1>4, <2>1, <2>2, PartialIs
    <2> QED  BY <1>5, <2>1, <2>3 DEF FineStates
  <1>7. FineStates(s, states) /\ \A t : t \in DOMAIN states <=> t \in DOMAIN s.states
    <2>1. DOMAIN new = first
      OBVIOUS
    <2> HIDE DEF new
    <2>2. FineStates(s, states)
      BY <1>1, <1>6, StatesOver
    <2>3. \A t : t \in DOMAIN states <=> t \in first \/ t \in DOMAIN s.states
      BY <2>1, OverKeys, Zenon
    <2> HIDE DEF states
    <2> QED  BY <1>3, <2>2, <2>3
  <1>8. docs \in Partial(Doc, DocState)
    <2>1. gone \in DocState
      BY TargetsAssumption DEF DocState, Version
    <2> DEFINE ks == {Key(t) : t \in first}
    <2>2. ks \subseteq Doc
      <3>1. \A t \in first : Key(t) \in Doc
        BY <1>3, <1>4, TheKey
      <3> HIDE DEF Key
      <3> QED  BY <3>1
    <2>3. deleted \in [ks -> DocState] /\ DOMAIN deleted = ks
      <3> HIDE DEF gone, ks
      <3>1. deleted = [k \in ks |-> gone]
        BY DEF ks
      <3> HIDE DEF deleted
      <3> QED  BY <2>1, <3>1
    <2> HIDE DEF deleted, ks
    <2>4. deleted \in Partial(Doc, DocState)
      BY <2>2, <2>3, PartialIs
    <2>5. s.docs \in Partial(Doc, DocState)
      BY <1>1 DEF Client
    <2> QED  BY <2>4, <2>5, OverIs
  <1>9. s.resets \in SUBSET Query
    BY <1>1 DEF Client
  <1> HIDE DEF states, docs, u
  <1>10. Changed(s, u, states, docs, s.resets)
    BY <1>1, <1>2 DEF Changed, Client
  <1>11. Sound(u) /\ SameRest(s, u) /\ u.states = states /\ u.resets = s.resets
    BY <1>7, <1>8, <1>9, <1>10, NewStates
  <1> QED  BY <1>7, <1>11 DEF u

-----------------------------------------------------------------------------
(* Remote events.                                                          *)

AnyEvent == [version: Version, targets: Partial(Target, TargetState),
             mismatches: SUBSET Query, docs: Partial(Doc, DocState)]

\* An event that says no more of limbo targets than is known of them in s
KnownEvent(s, e) ==
    /\ e \in AnyEvent
    /\ \A t \in DOMAIN e.targets : KnownTarget(s, t) /\ FineState(s, t, e.targets[t])

\* The changes of the event's targets have been taken over
Settled(s, e) ==
    \A t \in DOMAIN s.states : t \in DOMAIN e.targets => s.states[t].changes = None

\* The event is about targets s has states for
About(s, e) == DOMAIN e.targets \subseteq DOMAIN s.states

\* CreateRemoteEvent's event has the pending states of the active targets.
LEMMA RemoteEventIs ==
    ASSUME NEW s, Sound(s), NEW version \in Version
    PROVE  LET e == RemoteEvent(s, version)
           IN KnownEvent(s, e) /\ About(s, e) /\ e.version = version
  <1> DEFINE D == {x \in DOMAIN s.states : IsActive(s, x) /\ s.states[x].pending}
             targets == [t \in D |-> s.states[t]]
             e == RemoteEvent(s, version)
  <1>1. s \in Client /\ FineStates(s, s.states)
    BY OwnStates
  <1>2. e = [version |-> version, targets |-> targets, mismatches |-> s.resets,
             docs |-> s.docs]
    BY DEF RemoteEvent
  <1>3. D \subseteq DOMAIN s.states
    OBVIOUS
  <1>4. DOMAIN targets = D /\ \A t \in D : targets[t] = s.states[t]
    OBVIOUS
  <1>5. targets \in Partial(Target, TargetState)
    <2>1. \A t \in D : t \in Target /\ s.states[t] \in TargetState
      BY <1>1 DEF FineStates, FineState, KnownTarget
    <2>2. targets \in [D -> TargetState]
      BY <2>1
    <2> HIDE DEF targets, D
    <2> QED  BY <1>4, <2>1, <2>2, PartialIs
  <1>6. s.resets \in SUBSET Query /\ s.docs \in Partial(Doc, DocState)
    BY <1>1 DEF Client
  <1> HIDE DEF targets, D, e
  <1>7. e \in AnyEvent /\ e.targets = targets /\ e.version = version
    BY <1>2, <1>5, <1>6 DEF AnyEvent
  <1>8. KnownEvent(s, e)
    BY <1>1, <1>3, <1>4, <1>7 DEF KnownEvent, FineStates
  <1>9. About(s, e)
    BY <1>3, <1>4, <1>7 DEF About
  <1> QED  BY <1>7, <1>8, <1>9 DEF e

\* The aggregator starts anew after the event.
LEMMA ClearedIs ==
    ASSUME NEW s, Sound(s), NEW e, KnownEvent(s, e), About(s, e)
    PROVE  LET u == Cleared(s, e)
           IN /\ Sound(u) /\ SameRest(s, u) /\ Settled(u, e)
              /\ \A t : t \in DOMAIN u.states <=> t \in DOMAIN s.states
  <1> DEFINE D == DOMAIN e.targets
             new == [t \in D |-> [s.states[t] EXCEPT !.pending = FALSE, !.changes = None]]
             states == new ++ s.states
             u == Cleared(s, e)
  <1>1. s \in Client /\ FineStates(s, s.states)
    BY OwnStates
  <1>2. u = [s EXCEPT !.docs = None, !.resets = {}, !.states = states]
    BY <1>1 DEF Cleared, Client
  <1>3. D \subseteq DOMAIN s.states
    BY DEF About
  <1>4. DOMAIN s.states \subseteq Target
    BY <1>1 DEF FineStates, KnownTarget
  <1> HIDE DEF D
  <1>5. ASSUME NEW t \in D
        PROVE  KnownTarget(s, t) /\ FineState(s, t, new[t]) /\ new[t].changes = None
    <2>1. KnownTarget(s, t) /\ FineState(s, t, s.states[t])
      BY <1>1, <1>3 DEF FineStates
    <2>2. None \in Partial(Doc, Type)
      BY NoneIs
    <2>3. new[t] = [s.states[t] EXCEPT !.pending = FALSE, !.changes = None]
      OBVIOUS
    <2> HIDE DEF new
    <2>4. new[t] \in TargetState /\ new[t].changes = None
      BY <2>1, <2>2, <2>3 DEF FineState, TargetState
    <2> QED  BY <2>1, <2>4, NoneIsGood DEF FineState
  <1>6. DOMAIN new = D
    OBVIOUS
  <1>7. FineStates(s, new)
    <2>1. new \in [D -> TargetState]
      BY <1>5 DEF FineState
    <2> HIDE DEF new
    <2>2. new \in Partial(Target, TargetState)
      BY <1>3, <1>4, <1>6, <2>1, PartialIs
    <2> QED  BY <1>5, <1>6, <2>2 DEF FineStates
  <1> HIDE DEF new
  <1>8. FineStates(s, states)
    BY <1>1, <1>7, StatesOver
  <1>9. \A t : t \in DOMAIN states <=> t \in D \/ t \in DOMAIN s.states
    BY <1>6, OverKeys, Zenon
  <1>10. \A t \in D : states[t].changes = None
    BY <1>5, <1>6, OverKeys
  <1>11. None \in Partial(Doc, DocState) /\ {} \in SUBSET Query
    BY NoneIs
  <1> HIDE DEF states, u
  <1>12. Changed(s, u, states, None, {})
    BY <1>1, <1>2 DEF Changed, Client
  <1>13. Sound(u) /\ SameRest(s, u) /\ u.states = states
    BY <1>8, <1>11, <1>12, NewStates
  <1>14. Settled(u, e)
    BY <1>10, <1>13 DEF Settled, D
  <1> QED  BY <1>3, <1>9, <1>13, <1>14 DEF u

\* Half of an even number of requests is about each target.
LEMMA HalfIs ==
    ASSUME NEW n \in Nat, NEW i \in 1 .. 2 * n
    PROVE  (i + 1) \div 2 \in 1 .. n
  OBVIOUS

\* The tokens are noted, and targets with a mismatch are watched again.
LEMMA RewatchedIs ==
    ASSUME NEW s, Sound(s), s.stream = "Open", NEW e, KnownEvent(s, e), About(s, e),
           Settled(s, e)
    PROVE  LET u == Rewatched(s, e)
           IN /\ Sound(u) /\ SameEngine(s, u) /\ u.views = s.views /\ Settled(u, e)
              /\ Watched(s) => Watched(u)
              /\ \A t : t \in DOMAIN u.targets <=> t \in DOMAIN s.targets
              /\ Conveys(s, u, Query)
              /\ \A t \in DOMAIN s.targets : t \notin Query =>
                    u.targets[t] = IF t \in DOMAIN e.targets /\ e.targets[t].token # 0
                                   THEN e.targets[t].token ELSE s.targets[t]
  <1> DEFINE tokens == {t \in DOMAIN s.targets \cap DOMAIN e.targets : e.targets[t].token # 0}
             noted == [t \in tokens |-> e.targets[t].token] ++ s.targets
             r == [s EXCEPT !.targets = noted]
             again == e.mismatches \cap DOMAIN r.targets
             order == SetToSeq(again)
             zeros == [t \in again |-> 0]
             targets == zeros ++ noted
             v == [r EXCEPT !.targets = targets]
             requests == [i \in 1 .. 2 * Len(order) |->
                [watch |-> i % 2 = 0, id |-> order[(i + 1) \div 2], token |-> 0]]
             u == Rewatched(s, e)
  <1>1. /\ s \in Client /\ s.ok /\ Steady(s) /\ OnlineKnown(s) /\ IdleKnown(s)
        /\ AllNumbered(s) /\ ChangesKnown(s) /\ IsFiniteSet(DOMAIN s.targets)
    BY DEF Sound, Steady
  <1>2. s.targets \in Partial(Target, Version)
    BY <1>1 DEF Client
  <1>3. DOMAIN s.targets \subseteq Target
    BY <1>2, PartialIs
  <1>4. e \in AnyEvent /\ \A t \in DOMAIN e.targets : e.targets[t] \in TargetState
    BY DEF KnownEvent, FineState
  <1>5. /\ noted \in Partial(Target, Version)
        /\ \A t : t \in DOMAIN noted <=> t \in DOMAIN s.targets
        /\ \A t \in DOMAIN s.targets :
              noted[t] = IF t \in DOMAIN e.targets /\ e.targets[t].token # 0
                         THEN e.targets[t].token ELSE s.targets[t]
    <2> DEFINE f == [t \in tokens |-> e.targets[t].token]
    <2>1. tokens \subseteq DOMAIN s.targets /\ tokens \subseteq DOMAIN e.targets
      OBVIOUS
    <2>a. \A t \in DOMAIN s.targets :
             t \in tokens <=> t \in DOMAIN e.targets /\ e.targets[t].token # 0
      OBVIOUS
    <2> HIDE DEF tokens
    <2>b. \A t \in tokens : f[t] = e.targets[t].token
      OBVIOUS
    <2>2. f \in [tokens -> Version] /\ DOMAIN f = tokens
      BY <1>4, <2>1 DEF TargetState
    <2>3. noted = f ++ s.targets
      OBVIOUS
    <2> HIDE DEF f, noted
    <2>4. f \in Partial(Target, Version)
      BY <1>3, <2>1, <2>2, PartialIs
    <2>5. noted \in Partial(Target, Version)
      BY <1>2, <2>3, <2>4, OverIs
    <2>6. \A t : t \in DOMAIN noted <=> t \in tokens \/ t \in DOMAIN s.targets
      BY <2>2, <2>3, OverKeys, Zenon
    <2>7. ASSUME NEW t \in DOMAIN s.targets
          PROVE  noted[t] = IF t \in DOMAIN e.targets /\ e.targets[t].token # 0
                            THEN e.targets[t].token ELSE s.targets[t]
      BY <2>a, <2>b, <2>2, <2>3, OverKeys
    <2> QED  BY <2>1, <2>5, <2>6, <2>7
  <1> HIDE DEF noted, tokens
  <1>6. r.targets = noted
    BY <1>1 DEF Client
  <1>7. /\ again \subseteq DOMAIN noted /\ again \subseteq Target /\ IsFiniteSet(again)
        /\ again \subseteq Query
    <2>1. again \subseteq DOMAIN s.targets
      BY <1>5, <1>6
    <2>2. again \subseteq Query
      BY <1>4 DEF AnyEvent
    <2> QED  BY <1>1, <1>3, <1>5, <2>1, <2>2, FS_Subset
  <1> HIDE DEF again
  <1>8. /\ targets \in Partial(Target, Version)
        /\ \A t : t \in DOMAIN targets <=> t \in DOMAIN s.targets
        /\ \A t \in DOMAIN noted : t \notin Query => targets[t] = noted[t]
    <2>1. zeros \in [again -> Version] /\ DOMAIN zeros = again
      BY TargetsAssumption DEF Version
    <2> HIDE DEF zeros
    <2>2. zeros \in Partial(Target, Version)
      BY <1>7, <2>1, PartialIs
    <2>3. targets \in Partial(Target, Version)
      BY <1>5, <2>2, OverIs
    <2>4. \A t : t \in DOMAIN targets <=> t \in again \/ t \in DOMAIN noted
      BY <2>1, OverKeys, Zenon
    <2>5. \A t \in DOMAIN noted : t \notin Query => targets[t] = noted[t]
      BY <1>7, <2>1, OverKeys
    <2> HIDE DEF targets
    <2> QED  BY <1>5, <1>7, <2>3, <2>4, <2>5
  <1>9. DOMAIN targets = DOMAIN s.targets
    <2> HIDE DEF targets
    <2> QED  BY <1>8
  <1>10. u = Send(v, requests)
    <2>1. u = Send([r EXCEPT !.targets = zeros ++ @], requests)
      BY DEF Rewatched, noted, tokens, again
    <2>2. [r EXCEPT !.targets = zeros ++ @] = v
      <3> HIDE DEF zeros
      <3> QED  BY <1>1, <1>6 DEF Client
    <2> HIDE DEF u, v, r, requests
    <2> QED  BY <2>1, <2>2, Zenon
  <1> HIDE DEF targets, zeros
  <1>11. /\ v \in Client /\ v.ok /\ v.targets = targets /\ v.stream = s.stream
         /\ v.conn = s.conn /\ v.states = s.states /\ v.limbo = s.limbo
         /\ v.nextLimbo = s.nextLimbo /\ v.mem = s.mem /\ v.views = s.views
         /\ v.idle = s.idle /\ v.timer = s.timer /\ v.online = s.online
         /\ v.failures = s.failures /\ v.docs = s.docs
    BY <1>1, <1>8 DEF Client
  <1> HIDE DEF r, v
  <1>12. Steady(v) /\ OnlineKnown(v) /\ IdleKnown(v)
    <2>1. AllNumbered(v)
      BY <1>1, <1>9, <1>11 DEF AllNumbered, Numbered, RequestedIds
    <2>2. ChangesKnown(v)
      BY <1>1, <1>11 DEF ChangesKnown
    <2>3. IsFiniteSet(DOMAIN v.targets)
      BY <1>1, <1>9, <1>11
    <2>4. Steady(v)
      BY <1>1, <1>11, <2>1, <2>2, <2>3 DEF Steady
    <2>5. OnlineKnown(v)
      BY <1>1, <1>11 DEF OnlineKnown, Started
    <2>6. IdleKnown(v)
      <3>1. s.targets = None => targets = None
        BY <1>8, <1>9, NoneIs, NoneOnly
      <3> QED  BY <1>1, <1>11, <3>1 DEF IdleKnown
    <2> QED  BY <2>4, <2>5, <2>6
  <1>13. /\ requests \in Seq(AnyRequest)
         /\ \A i \in DOMAIN requests : requests[i].id \in again
    <2>1. /\ DOMAIN order = 1 .. Cardinality(again) /\ Cardinality(again) \in Nat
          /\ \A i \in DOMAIN order : order[i] \in again
          /\ Len(order) = Cardinality(again)
      BY <1>7, SetToSeqIs
    <2> HIDE DEF order
    <2>2. \A i \in 1 .. 2 * Len(order) : order[(i + 1) \div 2] \in again
      <3> TAKE i \in 1 .. 2 * Len(order)
      <3>1. (i + 1) \div 2 \in 1 .. Len(order)
        BY <2>1, HalfIs
      <3> QED  BY <2>1, <3>1
    <2>3. 0 \in Version
      BY TargetsAssumption DEF Version
    <2> DEFINE n == 2 * Len(order)
    <2>4. n \in Nat
      BY <2>1
    <2>5. DOMAIN requests = 1 .. n
      OBVIOUS
    <2>6. \A i \in 1 .. n : requests[i] \in AnyRequest /\ requests[i].id \in again
      <3> TAKE i \in 1 .. n
      <3>1. requests[i] = [watch |-> i % 2 = 0, id |-> order[(i + 1) \div 2], token |-> 0]
        OBVIOUS
      <3>2. order[(i + 1) \div 2] \in again /\ (i % 2 = 0) \in BOOLEAN
        BY <2>2
      <3> HIDE DEF requests
      <3> QED  BY <1>7, <2>3, <3>1, <3>2 DEF AnyRequest
    <2>7. requests = [i \in 1 .. n |-> requests[i]]
      OBVIOUS
    <2> HIDE DEF requests, n
    <2>8. requests \in [1 .. n -> AnyRequest]
      BY <2>6, <2>7
    <2> QED  BY <2>4, <2>5, <2>6, <2>8
  <1> HIDE DEF requests, order
  <1>14. Numbered(v, {requests[i].id : i \in DOMAIN requests})
    <2>1. Numbered(s, DOMAIN s.targets)
      BY <1>1 DEF AllNumbered
    <2>2. \A i \in DOMAIN requests : requests[i].id \in DOMAIN s.targets
      BY <1>5, <1>7, <1>13
    <2> QED  BY <1>11, <2>1, <2>2 DEF Numbered
  <1>15. v.stream = "Open"
    BY <1>11
  <1> DEFINE w == Send(v, requests)
  <1>16. /\ Steady(w) /\ SameEngine(v, w) /\ w.views = v.views /\ w.targets = v.targets
         /\ SameLine(v, w) /\ IdleUnlessSent(v, w, requests)
         /\ DOMAIN v.states \subseteq DOMAIN w.states
         /\ w.conn.served = v.conn.served
         /\ SameChanges(v, w)
         /\ Conveys(v, w, again)
    BY <1>12, <1>13, <1>14, <1>15, SendIs
  <1> HIDE DEF w
  <1>17. Sound(w)
    BY <1>12, <1>16 DEF Sound, OnlineKnown, IdleKnown, Started, SameLine, IdleUnlessSent
  <1>18. Settled(w, e)
    <2> SUFFICES ASSUME NEW t \in DOMAIN w.states, t \in DOMAIN e.targets
                 PROVE  w.states[t].changes = None
      BY DEF Settled
    <2>1. t \in DOMAIN v.states /\ v.states[t].changes = None
      BY <1>11 DEF About, Settled
    <2>2. StateOf(v, t) = v.states[t]
      BY <2>1 DEF StateOf
    <2> QED  BY <1>16, <2>1, <2>2 DEF SameChanges
  <1>19. SameEngine(s, w) /\ w.views = s.views /\ w.targets = targets
         /\ (Watched(s) => Watched(w))
    BY <1>11, <1>16 DEF SameEngine, Watched
  <1>20. u = w
    BY <1>10 DEF w
  <1> HIDE DEF u
  <1>21. Conveys(s, w, Query)
    <2>1. Conveys(s, v, again)
      BY <1>11, ConveysSame
    <2> QED  BY <1>7, <1>16, <2>1, ConveysOn
  <1>22. \A t \in DOMAIN s.targets : t \notin Query =>
            w.targets[t] = IF t \in DOMAIN e.targets /\ e.targets[t].token # 0
                           THEN e.targets[t].token ELSE s.targets[t]
    BY <1>5, <1>8, <1>19
  <1> QED  BY <1>8, <1>17, <1>18, <1>19, <1>20, <1>21, <1>22 DEF u

-----------------------------------------------------------------------------
(* The local store.                                                        *)

\* A map over a total one is total.
LEMMA OverTotal ==
    ASSUME NEW S, NEW R, NEW f \in Partial(S, R), NEW g \in [S -> R]
    PROVE  f ++ g \in [S -> R]
  <1>1. f \in [DOMAIN f -> R] /\ DOMAIN f \subseteq S
    BY PartialIs
  <1>2. DOMAIN f \cup DOMAIN g = S
    BY <1>1
  <1>3. \A x \in S : (IF x \in DOMAIN f THEN f[x] ELSE g[x]) \in R
    BY <1>1
  <1>4. f ++ g = [x \in S |-> IF x \in DOMAIN f THEN f[x] ELSE g[x]]
    BY <1>2 DEF ++
  <1> QED  BY <1>3, <1>4

\* Of the cache d has what the event has, if that is newer, or what it had
Caches(d, e) ==
    /\ \A k \in Doc :
          d.cache[k] = IF k \in DOMAIN e.docs /\ Newer(e.docs[k], k) THEN e.docs[k]
                       ELSE disk.cache[k]
    /\ d.last = IF e.version = 0 THEN disk.last ELSE e.version

\* What LocalStore::ApplyRemoteEvent leaves in memory and on disk.
LEMMA StoredIs ==
    ASSUME NEW s \in Client, NEW e \in AnyEvent, disk \in AnyDisk, NEW aged
    PROVE  LET stored == Stored(s, e, aged)
           IN /\ stored.mem \in Partial(Query, QueryData)
              /\ \A q : q \in DOMAIN stored.mem <=> q \in DOMAIN s.mem
              /\ stored.disk \in AnyDisk
              /\ \A k \in DOMAIN e.docs : e.docs[k] = Unknown => stored.disk.cache[k] = Unknown
              /\ Caches(stored.disk, e)
  <1> DEFINE active == DOMAIN e.targets \cap DOMAIN s.mem
             Changes(q) == e.targets[q].changes
             renewed == {q \in active : e.targets[q].token # 0}
             written == {q \in renewed : s.mem[q].token = 0 \/ Changes(q) # None \/ q \in aged}
             Data(q) == [token |-> e.targets[q].token, version |-> e.version]
             newer == {x \in DOMAIN e.docs : Newer(e.docs[x], x)}
             mem == [q \in renewed |-> Data(q)] ++ s.mem
             cache == [k \in newer |-> e.docs[k]] ++ disk.cache
             keys == [q \in active |-> (disk.keys[q] \ Keys(Changes(q), "Removed"))
                                          \cup Keys(Changes(q), "Added")] ++ disk.keys
             data == [q \in written |-> Data(q)] ++ disk.data
             last == IF e.version = 0 THEN disk.last ELSE e.version
             stored == Stored(s, e, aged)
  <1>1. stored = [mem |-> mem, disk |-> [cache |-> cache, keys |-> keys, data |-> data,
                                         last |-> last]]
    BY DEF Stored
  <1>2. s.mem \in Partial(Query, QueryData)
    BY DEF Client
  <1>3. DOMAIN s.mem \subseteq Query
    BY <1>2, PartialIs
  <1>4. /\ e.version \in Version /\ e.targets \in Partial(Target, TargetState)
        /\ e.docs \in Partial(Doc, DocState)
    BY DEF AnyEvent
  <1>5. /\ DOMAIN e.targets \subseteq Target /\ DOMAIN e.docs \subseteq Doc
        /\ \A t \in DOMAIN e.targets : e.targets[t] \in TargetState
        /\ \A k \in DOMAIN e.docs : e.docs[k] \in DocState
    BY <1>4, PartialIs
  <1>6. /\ disk.cache \in [Doc -> DocState] /\ disk.keys \in [Query -> SUBSET Doc]
        /\ disk.data \in [Query -> QueryData] /\ disk.last \in Version
    BY DEF AnyDisk
  <1>7. \A t \in DOMAIN e.targets :
           e.targets[t].token \in Version /\ e.targets[t].changes \in Partial(Doc, Type)
    BY <1>5 DEF TargetState
  <1>8. active \subseteq Query /\ active \subseteq DOMAIN e.targets
        /\ renewed \subseteq active /\ written \subseteq renewed /\ active \subseteq DOMAIN s.mem
        /\ newer \subseteq DOMAIN e.docs
        /\ \A k : k \in newer <=> k \in DOMAIN e.docs /\ Newer(e.docs[k], k)
    BY <1>3
  <1> HIDE DEF written, renewed, active, newer
  <1>9. \A q \in active : Data(q) \in QueryData
    BY <1>4, <1>7, <1>8 DEF QueryData
  <1> HIDE DEF Data
  <1>10. mem \in Partial(Query, QueryData) /\ \A q : q \in DOMAIN mem <=> q \in DOMAIN s.mem
    <2> DEFINE f == [q \in renewed |-> Data(q)]
    <2>1. DOMAIN f = renewed /\ f \in [renewed -> QueryData]
      BY <1>8, <1>9
    <2> HIDE DEF f
    <2>2. f \in Partial(Query, QueryData)
      BY <1>8, <2>1, PartialIs
    <2>3. f ++ s.mem \in Partial(Query, QueryData)
      BY <1>2, <2>2, OverIs
    <2>4. \A q : q \in DOMAIN (f ++ s.mem) <=> q \in renewed \/ q \in DOMAIN s.mem
      BY <2>1, OverKeys, Zenon
    <2>5. mem = f ++ s.mem
      BY DEF f
    <2> HIDE DEF mem
    <2> QED  BY <1>8, <2>3, <2>4, <2>5
  <1>11. data \in [Query -> QueryData]
    <2> DEFINE f == [q \in written |-> Data(q)]
    <2>1. DOMAIN f = written /\ f \in [written -> QueryData]
      BY <1>8, <1>9
    <2>2. data = f ++ disk.data
      OBVIOUS
    <2> HIDE DEF f, data
    <2>3. f \in Partial(Query, QueryData)
      BY <1>8, <2>1, PartialIs
    <2> QED  BY <1>6, <2>2, <2>3, OverTotal
  <1>12. keys \in [Query -> SUBSET Doc]
    <2> DEFINE New(q) == (disk.keys[q] \ Keys(Changes(q), "Removed"))
                            \cup Keys(Changes(q), "Added")
               f == [q \in active |-> New(q)]
    <2>1. \A q \in active : New(q) \in SUBSET Doc
      <3> TAKE q \in active
      <3>1. Changes(q) \in Partial(Doc, Type)
        BY <1>7, <1>8
      <3>2. DOMAIN Changes(q) \subseteq Doc
        BY <3>1, PartialIs
      <3>3. disk.keys[q] \subseteq Doc
        BY <1>6, <1>8
      <3> QED  BY <3>2, <3>3 DEF Keys
    <2> HIDE DEF New
    <2>2. DOMAIN f = active /\ f \in [active -> SUBSET Doc]
      BY <2>1
    <2>3. keys = f ++ disk.keys
      BY DEF New
    <2> HIDE DEF f, keys
    <2>4. f \in Partial(Query, SUBSET Doc)
      BY <1>8, <2>2, PartialIs
    <2> QED  BY <1>6, <2>3, <2>4, OverTotal
  <1>13. /\ cache \in [Doc -> DocState]
         /\ \A k \in DOMAIN e.docs : e.docs[k] = Unknown => cache[k] = Unknown
         /\ \A k \in Doc : cache[k] = IF k \in newer THEN e.docs[k] ELSE disk.cache[k]
    <2> DEFINE f == [k \in newer |-> e.docs[k]]
    <2>1. DOMAIN f = newer /\ f \in [newer -> DocState]
      BY <1>5, <1>8
    <2>2. cache = f ++ disk.cache
      OBVIOUS
    <2>3. \A k \in DOMAIN e.docs : e.docs[k] = Unknown => k \in newer /\ f[k] = Unknown
      BY DEF newer, Newer
    <2> HIDE DEF f, cache
    <2>4. f \in Partial(Doc, DocState)
      BY <1>5, <1>8, <2>1, PartialIs
    <2>5. cache \in [Doc -> DocState]
      BY <1>6, <2>2, <2>4, OverTotal
    <2>6. \A k \in newer : cache[k] = f[k] /\ f[k] = e.docs[k]
      BY <2>1, <2>2, OverKeys DEF f
    <2>7. \A k \in Doc : k \notin newer => cache[k] = disk.cache[k]
      BY <1>6, <2>1, <2>2, OverKeys
    <2> QED  BY <2>3, <2>5, <2>6, <2>7
  <1>14. last \in Version /\ last = IF e.version = 0 THEN disk.last ELSE e.version
    BY <1>4, <1>6
  <1> HIDE DEF mem, cache, keys, data, last, stored
  <1>15. stored.mem = mem /\ stored.disk.cache = cache /\ stored.disk.last = last
    BY <1>1
  <1>16. stored.disk \in AnyDisk
    BY <1>1, <1>11, <1>12, <1>13, <1>14 DEF AnyDisk
  <1>17. Caches(stored.disk, e)
    BY <1>8, <1>13, <1>14, <1>15 DEF Caches
  <1> QED  BY <1>10, <1>13, <1>15, <1>16, <1>17 DEF stored

\* What LocalStore::ReleaseQuery leaves on disk.
LEMMA ReleasedIs ==
    ASSUME NEW q \in DOMAIN client.mem, client \in Client, disk \in AnyDisk
    PROVE  /\ Released(q) \in AnyDisk
           /\ Released(q).cache = disk.cache /\ Released(q).last = disk.last
  <1>1. client.mem \in Partial(Query, QueryData)
    BY DEF Client
  <1>2. q \in Query /\ client.mem[q] \in QueryData
    BY <1>1, PartialIs
  <1>3. disk.data \in [Query -> QueryData]
    BY DEF AnyDisk
  <1> DEFINE d == [disk EXCEPT !.data[q] = client.mem[q]]
  <1>4. d \in AnyDisk /\ d.cache = disk.cache /\ d.last = disk.last
    BY <1>2, <1>3 DEF AnyDisk
  <1> QED  BY <1>4 DEF Released

-----------------------------------------------------------------------------
(* The sync engine.                                                        *)

\* All of s but the queries' data and the limbo targets is as in u
SameNet(s, u) ==
    /\ u.stream = s.stream /\ u.conn = s.conn /\ u.targets = s.targets
    /\ u.states = s.states /\ u.views = s.views /\ u.docs = s.docs

\* Whether a limbo target is known to have its document after some changes, and
\* after the event e
Taught(changes, known) ==
    CASE "Added" \in Range(changes) -> TRUE
      [] "Removed" \in Range(changes) -> FALSE
      [] OTHER -> known
Learned(s, e, t) ==
    IF t \in DOMAIN e.targets THEN Taught(e.targets[t].changes, s.limbo[t]) ELSE s.limbo[t]

\* From s to u the limbo targets learn what the event e says of them
Learns(s, u, e) ==
    /\ u.nextLimbo = s.nextLimbo
    /\ \A t : t \in DOMAIN u.limbo <=> t \in DOMAIN s.limbo
    /\ \A t \in DOMAIN s.limbo : u.limbo[t] = Learned(s, e, t)

\* A resolution that received a change which is no addition knew of the document.
LEMMA ReceivedIs ==
    ASSUME NEW s, Sound(s), NEW e, KnownEvent(s, e), Settled(s, e),
           NEW mem \in Partial(Query, QueryData)
    PROVE  LET u == [Received(s, e) EXCEPT !.mem = mem]
           IN /\ Sound(u) /\ SameNet(s, u) /\ u.mem = mem
              /\ Learns(s, u, e)
  <1> DEFINE resolved == DOMAIN e.targets \cap DOMAIN s.limbo
             Types(t) == Range(e.targets[t].changes)
             new == [t \in resolved |-> CASE "Added" \in Types(t) -> TRUE
                                          [] "Removed" \in Types(t) -> FALSE
                                          [] OTHER -> s.limbo[t]]
             limbo == new ++ s.limbo
             r == [s EXCEPT !.limbo = limbo]
             v == [r EXCEPT !.mem = mem]
             u == [Received(s, e) EXCEPT !.mem = mem]
  <1>1. /\ s \in Client /\ s.ok /\ Steady(s) /\ OnlineKnown(s) /\ IdleKnown(s)
        /\ AllNumbered(s) /\ ChangesKnown(s) /\ IsFiniteSet(DOMAIN s.targets)
    BY DEF Sound, Steady
  <1>2. \A t \in resolved : "Added" \in Types(t) \/ Types(t) = {} \/ s.limbo[t]
    <2> TAKE t \in resolved
    <2>1. FineState(s, t, e.targets[t])
      BY DEF KnownEvent
    <2>2. Bad(e.targets[t].changes) => s.limbo[t]
      BY <2>1 DEF FineState
    <2>3. SUFFICES ASSUME ~Bad(e.targets[t].changes), Types(t) # {} PROVE "Added" \in Types(t)
      BY <2>2
    <2>4. PICK k \in DOMAIN e.targets[t].changes : TRUE
      BY <2>3 DEF Range
    <2>5. e.targets[t].changes[k] = "Added"
      BY <2>3, <2>4 DEF Bad
    <2> QED  BY <2>4, <2>5 DEF Range
  <1>3. s.limbo \in Partial(LimboTarget, BOOLEAN)
    BY <1>1 DEF Client
  <1>4. limbo \in Partial(LimboTarget, BOOLEAN)
        /\ (\A t : t \in DOMAIN limbo <=> t \in DOMAIN s.limbo)
        /\ (\A t \in DOMAIN s.limbo : t \notin DOMAIN e.targets => limbo[t] = s.limbo[t])
    <2>1. DOMAIN s.limbo \subseteq LimboTarget /\ s.limbo \in [DOMAIN s.limbo -> BOOLEAN]
      BY <1>3, PartialIs
    <2>2. DOMAIN new = resolved /\ resolved \subseteq DOMAIN s.limbo
      OBVIOUS
    <2>3. new \in [resolved -> BOOLEAN]
      <3>1. \A t \in resolved : s.limbo[t] \in BOOLEAN
        BY <2>1
      <3> HIDE DEF resolved, Types
      <3> QED  BY <3>1
    <2>4. \A t \in DOMAIN s.limbo : t \in resolved => t \in DOMAIN e.targets
      OBVIOUS
    <2> HIDE DEF new, resolved
    <2>5. new \in Partial(LimboTarget, BOOLEAN)
      BY <2>1, <2>2, <2>3, PartialIs
    <2>6. limbo \in Partial(LimboTarget, BOOLEAN)
      BY <1>3, <2>5, OverIs
    <2>7. \A t : t \in DOMAIN limbo <=> t \in resolved \/ t \in DOMAIN s.limbo
      BY <2>2, OverKeys, Zenon
    <2>8. \A t \in DOMAIN s.limbo : t \notin resolved => limbo[t] = s.limbo[t]
      BY <2>2, OverKeys
    <2> HIDE DEF limbo
    <2> QED  BY <2>2, <2>4, <2>6, <2>7, <2>8
  <1>a. ASSUME NEW t \in DOMAIN s.limbo PROVE limbo[t] = Learned(s, e, t)
    <2>1. t \in resolved <=> t \in DOMAIN e.targets
      OBVIOUS
    <2>2. DOMAIN new = resolved
      OBVIOUS
    <2>3. t \in resolved => new[t] = CASE "Added" \in Types(t) -> TRUE
                                      [] "Removed" \in Types(t) -> FALSE
                                      [] OTHER -> s.limbo[t]
      OBVIOUS
    <2> HIDE DEF new, resolved
    <2>4. limbo[t] = IF t \in resolved THEN new[t] ELSE s.limbo[t]
      BY <2>2, OverKeys
    <2> HIDE DEF limbo
    <2> QED  BY <2>1, <2>3, <2>4 DEF Learned, Taught
  <1>5. Received(s, e) = r
    <2>1. HardAssert(s, \A t \in resolved :
              "Added" \in Types(t) \/ Types(t) = {} \/ s.limbo[t]) = s
      <3> HIDE DEF resolved, Types
      <3> QED  BY <1>1, <1>2, AssertHolds
    <2> DEFINE With(x) == [x EXCEPT !.limbo = [t \in resolved |->
                  CASE "Added" \in Types(t) -> TRUE
                    [] "Removed" \in Types(t) -> FALSE
                    [] OTHER -> x.limbo[t]] ++ x.limbo]
    <2>2. Received(s, e) = With(HardAssert(s, \A t \in resolved :
                        "Added" \in Types(t) \/ Types(t) = {} \/ s.limbo[t]))
      BY DEF Received
    <2>3. With(s) = r
      OBVIOUS
    <2> HIDE DEF With
    <2> QED  BY <2>1, <2>2, <2>3
  <1> HIDE DEF limbo, new
  <1>6. /\ v \in Client /\ v.ok /\ v.targets = s.targets /\ v.stream = s.stream
        /\ v.conn = s.conn /\ v.states = s.states /\ v.limbo = limbo
        /\ v.nextLimbo = s.nextLimbo /\ v.mem = mem /\ v.views = s.views
        /\ v.idle = s.idle /\ v.timer = s.timer /\ v.online = s.online
        /\ v.failures = s.failures /\ v.docs = s.docs
    BY <1>1, <1>4 DEF Client
  <1>7. u = v
    BY <1>5
  <1> HIDE DEF v, r, u
  <1>8. AllNumbered(v)
    BY <1>1, <1>6 DEF AllNumbered, Numbered, RequestedIds
  <1>9. ChangesKnown(v)
    <2> SUFFICES ASSUME NEW t \in DOMAIN limbo, t \in DOMAIN s.states, Bad(s.states[t].changes)
                 PROVE  limbo[t]
      BY <1>6 DEF ChangesKnown
    <2>1. t \notin DOMAIN e.targets
      BY NoneIsGood DEF Settled
    <2>2. s.limbo[t] /\ t \in DOMAIN s.limbo
      BY <1>1, <1>4 DEF ChangesKnown
    <2> QED  BY <1>4, <2>1, <2>2
  <1>10. Steady(v) /\ OnlineKnown(v) /\ IdleKnown(v)
    BY <1>1, <1>6, <1>8, <1>9 DEF Steady, OnlineKnown, IdleKnown, Started
  <1>11. SameNet(s, v)
    BY <1>6 DEF SameNet
  <1>12. Learns(s, v, e)
    BY <1>4, <1>6, <1>a DEF Learns
  <1> QED  BY <1>6, <1>7, <1>10, <1>11, <1>12 DEF Sound, u, v

\* All of s but the limbo targets is as in u
SameEnd(s, u) ==
    /\ u.stream = s.stream /\ u.conn = s.conn /\ u.targets = s.targets
    /\ u.states = s.states /\ u.views = s.views /\ u.mem = s.mem
    /\ u.docs = s.docs

\* Only the limbo targets differ, and the numbers given out.
Relimboed(s, u, limbo, n) == u = [s EXCEPT !.limbo = limbo, !.nextLimbo = n]

\* With other limbo targets, about which nothing else is known, the client is sound.
LEMMA NewLimbo ==
    ASSUME NEW s, Sound(s), NEW limbo \in Partial(LimboTarget, BOOLEAN), NEW n \in Nat,
           s.nextLimbo <= n,
           \A t \in DOMAIN limbo : t \in DOMAIN s.states =>
               t \in DOMAIN s.limbo /\ limbo[t] = s.limbo[t],
           NEW u, Relimboed(s, u, limbo, n)
    PROVE  Sound(u) /\ SameEnd(s, u) /\ u.limbo = limbo /\ u.nextLimbo = n
  <1>1. /\ s \in Client /\ s.ok /\ Steady(s) /\ OnlineKnown(s) /\ IdleKnown(s)
        /\ AllNumbered(s) /\ ChangesKnown(s) /\ IsFiniteSet(DOMAIN s.targets)
    BY DEF Sound, Steady
  <1>2. /\ u \in Client /\ u.ok /\ u.targets = s.targets /\ u.stream = s.stream
        /\ u.conn = s.conn /\ u.states = s.states /\ u.limbo = limbo
        /\ u.nextLimbo = n /\ u.mem = s.mem /\ u.views = s.views
        /\ u.idle = s.idle /\ u.timer = s.timer /\ u.online = s.online
        /\ u.failures = s.failures /\ u.docs = s.docs
    BY <1>1 DEF Client, Relimboed
  <1>3. ASSUME NEW ids, Numbered(s, ids) PROVE Numbered(u, ids)
    <2>1. s.nextLimbo \in Nat
      BY <1>1 DEF Client
    <2> SUFFICES ASSUME NEW t \in ids \cap LimboTarget PROVE t.n <= u.nextLimbo
      BY DEF Numbered
    <2>2. t.n \in Nat /\ t.n <= s.nextLimbo
      BY <1>3 DEF Numbered, LimboTarget
    <2> QED  BY <1>2, <2>1, <2>2
  <1>4. AllNumbered(u)
    BY <1>1, <1>2, <1>3 DEF AllNumbered, RequestedIds
  <1>5. ChangesKnown(u)
    BY <1>1, <1>2 DEF ChangesKnown
  <1>6. Steady(u) /\ OnlineKnown(u) /\ IdleKnown(u)
    BY <1>1, <1>2, <1>4, <1>5 DEF Steady, OnlineKnown, IdleKnown, Started
  <1> QED  BY <1>2, <1>6 DEF Sound, SameEnd

\* The limbo targets are limbo targets, and listened to when they are wanted.
LEMMA LimboAre ==
    ASSUME NEW s \in Client
    PROVE  /\ s.limbo \in Partial(LimboTarget, BOOLEAN) /\ DOMAIN s.limbo \subseteq LimboTarget
           /\ \A t \in DOMAIN s.limbo :
                 /\ t \in Target /\ t \notin DOMAIN s.views /\ s.limbo[t] \in BOOLEAN
                 /\ t.key \in Doc /\ t.n \in Nat
  <1>1. s.limbo \in Partial(LimboTarget, BOOLEAN)
    BY DEF Client
  <1>2. DOMAIN s.limbo \subseteq LimboTarget /\ s.limbo \in [DOMAIN s.limbo -> BOOLEAN]
    BY <1>1, PartialIs
  <1> QED  BY <1>1, <1>2, ViewsAre, TargetsDiffer DEF Target, LimboTarget

\* The views of s, and what the local store knows of the queries, are those of u
SameViews(s, u) == u.views = s.views /\ u.mem = s.mem

\* Targets of documents that are in no view's limbo any more are given up.
LEMMA UntrackIs ==
    ASSUME NEW s, Sound(s), NEW keys, WantedBut(s, keys)
    PROVE  LET u == Untrack(s, keys)
           IN /\ Sound(u) /\ Wanted(u) /\ SameViews(s, u)
              /\ Watched(s) => Watched(u)
              /\ \A except : Tracked(s, except) => Tracked(u, except)
              /\ Continues(s, u)
  <1> DEFINE gone == {t \in DOMAIN s.limbo : t.key \in keys /\ ~InLimbo(s, t.key)}
             limbo == Restrict(s.limbo, DOMAIN s.limbo \ gone)
             v == [s EXCEPT !.limbo = limbo, !.nextLimbo = s.nextLimbo]
             u == StopListening(v, gone)
  <1>1. s \in Client /\ s.nextLimbo \in Nat /\ s.nextLimbo <= s.nextLimbo
    BY DEF Sound, Steady, Client
  <1>2. [s EXCEPT !.limbo = Restrict(@, DOMAIN @ \ gone)] = v
    BY <1>1 DEF Client
  <1>3. Untrack(s, keys) = u
    <2>1. Untrack(s, keys) = StopListening([s EXCEPT !.limbo = Restrict(@, DOMAIN @ \ gone)], gone)
      BY DEF Untrack
    <2> HIDE DEF gone, v
    <2> QED  BY <1>2, <2>1
  <1>4. /\ s.limbo \in Partial(LimboTarget, BOOLEAN)
        /\ \A t \in DOMAIN s.limbo : t \notin DOMAIN s.views
    BY <1>1, LimboAre
  <1>5. gone \subseteq DOMAIN s.limbo /\ \A t \in DOMAIN s.limbo : t \in gone \/ InLimbo(s, t.key)
    BY DEF WantedBut
  <1>6. \A t \in DOMAIN s.limbo : InLimbo(s, t.key) => t \notin gone
    OBVIOUS
  <1> HIDE DEF gone
  <1>7. /\ limbo \in Partial(LimboTarget, BOOLEAN) /\ DOMAIN limbo = DOMAIN s.limbo \ gone
        /\ \A t \in DOMAIN limbo : limbo[t] = s.limbo[t]
    BY <1>4, RestrictIs
  <1>8. \A t \in DOMAIN limbo : t \in DOMAIN s.states =>
           t \in DOMAIN s.limbo /\ limbo[t] = s.limbo[t]
    BY <1>7
  <1> HIDE DEF limbo
  <1>a. Relimboed(s, v, limbo, s.nextLimbo)
    BY DEF Relimboed
  <1> HIDE DEF v
  <1>9. Sound(v) /\ SameEnd(s, v) /\ v.limbo = limbo /\ v.nextLimbo = s.nextLimbo
    BY <1>1, <1>7, <1>8, <1>a, NewLimbo
  <1>10. gone \subseteq DOMAIN v.targets
    BY <1>5, <1>9 DEF SameEnd, WantedBut
  <1>11. /\ Sound(u) /\ SameEngine(v, u) /\ u.views = v.views
         /\ DOMAIN u.targets = DOMAIN v.targets \ gone
         /\ Watched(v) => Watched(u)
         /\ Conveys(v, u, gone)
         /\ \A t \in DOMAIN u.targets : u.targets[t] = v.targets[t]
    BY <1>9, <1>10, StopListeningIs
  <1> HIDE DEF u
  <1>12. /\ u.views = s.views /\ u.mem = s.mem /\ u.limbo = limbo
         /\ DOMAIN u.targets = DOMAIN s.targets \ gone
    BY <1>9, <1>11 DEF SameEngine, SameEnd
  <1>13. Watched(s) => Watched(u)
    BY <1>9, <1>11 DEF Watched, SameEnd
  <1>14. Wanted(u)
    <2>1. \A t : t \in DOMAIN u.targets <=> t \in DOMAIN u.views \/ t \in DOMAIN u.limbo
      BY <1>4, <1>5, <1>7, <1>12 DEF WantedBut
    <2>2. \A t \in DOMAIN u.limbo : InLimbo(u, t.key)
      BY <1>5, <1>7, <1>12 DEF InLimbo
    <2> QED  BY <1>7, <1>12, <2>1, <2>2 DEF Wanted, WantedBut
  <1>15. ASSUME NEW except, Tracked(s, except) PROVE Tracked(u, except)
    <2> SUFFICES ASSUME NEW q \in DOMAIN s.views, NEW k \in s.views[q].limbo, k \notin except
                 PROVE  \E t \in DOMAIN limbo : t.key = k
      BY <1>12 DEF Tracked
    <2>1. PICK t \in DOMAIN s.limbo : t.key = k
      BY <1>15 DEF Tracked
    <2>2. InLimbo(s, t.key)
      BY <2>1 DEF InLimbo
    <2> QED  BY <1>6, <1>7, <2>1, <2>2
  <1>16. Continues(s, u)
    <2>1. Conveys(s, v, gone)
      BY <1>9, ConveysSame DEF SameEnd
    <2>2. Conveys(s, u, gone)
      BY <1>11, <2>1, ConveysOn
    <2>3. u.nextLimbo = s.nextLimbo
      BY <1>9, <1>11 DEF SameEngine
    <2>4. \A t \in DOMAIN u.targets : t \in DOMAIN s.targets /\ Stays(s, u, t)
      <3>1. \A t \in DOMAIN u.targets : u.targets[t] = s.targets[t]
        BY <1>9, <1>11 DEF SameEnd
      <3> QED  BY <1>12, <2>2, <3>1 DEF Conveys, Stays
    <2>5. \A t \in DOMAIN u.limbo : t \in DOMAIN s.limbo /\ u.limbo[t] = s.limbo[t]
      BY <1>7, <1>12
    <2> QED  BY <1>1, <2>2, <2>3, <2>4, <2>5 DEF Continues, Conveys
  <1> QED  BY <1>3, <1>11, <1>12, <1>13, <1>14, <1>15, <1>16 DEF SameViews, u

\* Documents that came to be in limbo get targets with new numbers.
LEMMA TrackIs ==
    ASSUME NEW s, Sound(s), Wanted(s), NEW keys \in SUBSET Doc,
           \A k \in keys : InLimbo(s, k)
    PROVE  LET u == Track(s, keys)
           IN /\ Sound(u) /\ Wanted(u) /\ SameViews(s, u)
              /\ Watched(s) => Watched(u)
              /\ \A except : Tracked(s, except \cup keys) => Tracked(u, except)
              /\ Continues(s, u)
  <1> DEFINE K == {k \in keys : \A t \in DOMAIN s.limbo : t.key # k}
             order == SetToSeq(K)
             id(i) == [key |-> order[i], n |-> s.nextLimbo + i]
             new == {id(i) : i \in DOMAIN order}
             falses == [t \in new |-> FALSE]
             zeros == [t \in new |-> 0]
             limbo == falses ++ s.limbo
             n == s.nextLimbo + Len(order)
             v == [s EXCEPT !.limbo = limbo, !.nextLimbo = n]
             u == Listen(v, zeros)
  <1>1. s \in Client /\ AllNumbered(s) /\ IsFiniteSet(DOMAIN s.targets)
    BY DEF Sound, Steady
  <1>2. s.nextLimbo \in Nat
    BY <1>1 DEF Client
  <1>3. [s EXCEPT !.limbo = falses ++ @, !.nextLimbo = @ + Len(order)] = v
    <2> HIDE DEF falses, order
    <2> QED  BY <1>1 DEF Client
  <1>4. Track(s, keys) = u
    <2>1. Track(s, keys) =
             Listen([s EXCEPT !.limbo = falses ++ @, !.nextLimbo = @ + Len(order)], zeros)
      BY DEF Track
    <2> HIDE DEF falses, zeros, order, v
    <2> QED  BY <1>3, <2>1
  <1>5. IsFiniteSet(K) /\ K \subseteq keys /\ K \subseteq Doc
    <2>1. K \subseteq Doc
      OBVIOUS
    <2> QED  BY <2>1, TargetsAssumption, FS_Subset
  <1>6. \A k \in keys : k \in K \/ \E t \in DOMAIN s.limbo : t.key = k
    OBVIOUS
  <1>7. \A k \in K : \A t \in DOMAIN s.limbo : t.key # k
    OBVIOUS
  <1> HIDE DEF K
  <1>8. /\ Len(order) = Cardinality(K) /\ Cardinality(K) \in Nat
        /\ DOMAIN order = 1 .. Cardinality(K)
        /\ \A k \in K : \E i \in DOMAIN order : order[i] = k
        /\ \A i, j \in DOMAIN order : order[i] = order[j] => i = j
        /\ \A i \in DOMAIN order : order[i] \in K
    BY <1>5, SetToSeqIs
  <1> HIDE DEF order
  <1>9. /\ n \in Nat /\ s.nextLimbo <= n
        /\ \A i \in DOMAIN order : /\ s.nextLimbo + i \in Nat /\ s.nextLimbo + i <= n
                                   /\ ~(s.nextLimbo + i <= s.nextLimbo)
    BY <1>2, <1>8
  <1>10. \A i \in DOMAIN order : id(i) \in LimboTarget /\ id(i).n <= n
            /\ ~(id(i).n <= s.nextLimbo) /\ id(i).key = order[i] /\ id(i).key \in K
    BY <1>5, <1>8, <1>9 DEF LimboTarget
  <1>11. \A t \in new : t \in LimboTarget /\ t.n <= n /\ ~(t.n <= s.nextLimbo) /\ t.key \in K
    BY <1>10
  <1>12. ASSUME NEW k \in K PROVE \E t \in new : t.key = k
    <2>1. PICK i \in DOMAIN order : order[i] = k
      BY <1>8
    <2>2. id(i) \in new /\ id(i).key = k
      BY <2>1
    <2> QED  BY <2>2
  <1>13. \A t, x \in new : t.key = x.key => t = x
    <2> TAKE t, x \in new
    <2>1. PICK i \in DOMAIN order : t = id(i)
      OBVIOUS
    <2>2. PICK j \in DOMAIN order : x = id(j)
      OBVIOUS
    <2> QED  BY <1>8, <1>10, <2>1, <2>2
  <1>14. IsFiniteSet(new)
    <2>1. IsFiniteSet(DOMAIN order)
      BY <1>8, FS_Interval
    <2> DEFINE f == [i \in DOMAIN order |-> id(i)]
    <2>2. new = {f[i] : i \in DOMAIN order}
      OBVIOUS
    <2>3. f \in Surjection(DOMAIN order, new)
      <3>1. f \in [DOMAIN order -> new] /\ \A t \in new : \E i \in DOMAIN order : f[i] = t
        OBVIOUS
      <3> QED  BY <3>1 DEF Surjection
    <2> HIDE DEF f, new
    <2> QED  BY <2>1, <2>3, FS_Surjection
  <1> HIDE DEF new, id, n
  <1>15. new \subseteq LimboTarget /\ new \subseteq Target
    BY <1>11 DEF Target
  <1>16. ASSUME NEW ids, Numbered(s, ids) PROVE \A t \in new : t \notin ids
    BY <1>11, <1>16 DEF Numbered
  <1>17. \A t \in new : /\ t \notin DOMAIN s.states /\ t \notin DOMAIN s.targets
                         /\ Asked(s.conn.requests, t) = {}
    <2>1. ASSUME NEW t \in new PROVE Asked(s.conn.requests, t) = {}
      <3>1. t \notin RequestedIds(s)
        BY <1>1, <1>16 DEF AllNumbered
      <3> QED  BY <3>1 DEF Asked, Range, RequestedIds
    <2> QED  BY <1>1, <1>16, <2>1 DEF AllNumbered
  <1>18. /\ s.limbo \in Partial(LimboTarget, BOOLEAN)
         /\ \A t \in DOMAIN s.limbo : t \notin DOMAIN s.views
    BY <1>1, LimboAre
  <1>19. /\ limbo \in Partial(LimboTarget, BOOLEAN)
         /\ \A t : t \in DOMAIN limbo <=> t \in new \/ t \in DOMAIN s.limbo
         /\ \A t \in DOMAIN s.limbo : t \notin new => limbo[t] = s.limbo[t]
         /\ \A t \in new : ~limbo[t]
    <2>1. DOMAIN falses = new /\ falses \in [new -> BOOLEAN] /\ \A t \in new : ~falses[t]
      OBVIOUS
    <2> HIDE DEF falses
    <2>2. falses \in Partial(LimboTarget, BOOLEAN)
      BY <1>15, <2>1, PartialIs
    <2>3. limbo \in Partial(LimboTarget, BOOLEAN)
      BY <1>18, <2>2, OverIs
    <2>4. \A t : t \in DOMAIN limbo <=> t \in new \/ t \in DOMAIN s.limbo
      BY <2>1, OverKeys, Zenon
    <2>5. \A t \in DOMAIN s.limbo : t \notin new => limbo[t] = s.limbo[t]
      BY <2>1, OverKeys
    <2>6. \A t \in new : limbo[t] = falses[t]
      BY <2>1, OverKeys
    <2> HIDE DEF limbo
    <2> QED  BY <2>1, <2>3, <2>4, <2>5, <2>6
  <1> HIDE DEF limbo, falses
  <1>20. \A t \in DOMAIN limbo : t \in DOMAIN s.states =>
            t \in DOMAIN s.limbo /\ limbo[t] = s.limbo[t]
    BY <1>17, <1>19
  <1>a. Relimboed(s, v, limbo, n)
    BY DEF Relimboed
  <1> HIDE DEF v
  <1>21. Sound(v) /\ SameEnd(s, v) /\ v.limbo = limbo /\ v.nextLimbo = n
    BY <1>9, <1>19, <1>20, <1>a, NewLimbo
  <1>22. /\ zeros \in Partial(Target, Version) /\ DOMAIN zeros = new
         /\ \A t \in new : zeros[t] = 0
    <2>1. zeros \in [new -> Version] /\ DOMAIN zeros = new /\ \A t \in new : zeros[t] = 0
      BY TargetsAssumption DEF Version
    <2> HIDE DEF zeros
    <2> QED  BY <1>15, <2>1, PartialIs
  <1> HIDE DEF zeros
  <1>23. DOMAIN zeros \cap DOMAIN v.targets = {} /\ IsFiniteSet(DOMAIN zeros)
    BY <1>14, <1>17, <1>21, <1>22 DEF SameEnd
  <1>24. Numbered(v, DOMAIN zeros)
    BY <1>11, <1>21, <1>22 DEF Numbered
  <1>25. /\ Sound(u) /\ SameEngine(v, u) /\ u.views = v.views
         /\ DOMAIN u.targets = DOMAIN v.targets \cup DOMAIN zeros
         /\ Watched(v) => Watched(u)
         /\ Conveys(v, u, new)
         /\ \A t \in DOMAIN v.targets : u.targets[t] = v.targets[t]
         /\ \A t \in DOMAIN zeros :
               StateOf(v, t).changes = None /\ Asked(v.conn.requests, t) = {}
                  => Begins(u, t, zeros[t])
    BY <1>21, <1>22, <1>23, <1>24, ListenIs
  <1> HIDE DEF u
  <1>26. /\ u.views = s.views /\ u.mem = s.mem /\ u.limbo = limbo
         /\ DOMAIN u.targets = DOMAIN s.targets \cup new
    BY <1>21, <1>22, <1>25 DEF SameEngine, SameEnd
  <1>27. Watched(s) => Watched(u)
    BY <1>21, <1>25 DEF Watched, SameEnd
  <1>28. Wanted(u)
    <2>1. \A t : t \in DOMAIN u.targets <=> t \in DOMAIN u.views \/ t \in DOMAIN u.limbo
      BY <1>19, <1>26 DEF Wanted, WantedBut
    <2>2. \A t \in DOMAIN u.limbo : InLimbo(u, t.key)
      <3> TAKE t \in DOMAIN u.limbo
      <3>1. InLimbo(s, t.key)
        BY <1>5, <1>11, <1>19, <1>26 DEF Wanted, WantedBut
      <3> QED  BY <1>26, <3>1 DEF InLimbo
    <2>3. \A t, x \in DOMAIN u.limbo : t.key = x.key => t = x
      <3> TAKE t, x \in DOMAIN u.limbo
      <3>1. CASE t \in new /\ x \in new
        BY <1>13, <3>1
      <3>2. CASE t \in new /\ x \notin new
        BY <1>7, <1>11, <1>19, <1>26, <3>2
      <3>3. CASE t \notin new /\ x \in new
        BY <1>7, <1>11, <1>19, <1>26, <3>3
      <3>4. CASE t \notin new /\ x \notin new
        BY <1>19, <1>26, <3>4 DEF Wanted, WantedBut
      <3> QED  BY <3>1, <3>2, <3>3, <3>4
    <2> QED  BY <1>26, <2>1, <2>2, <2>3 DEF Wanted, WantedBut
  <1>29. ASSUME NEW except, Tracked(s, except \cup keys) PROVE Tracked(u, except)
    <2> SUFFICES ASSUME NEW q \in DOMAIN s.views, NEW k \in s.views[q].limbo, k \notin except
                 PROVE  \E t \in DOMAIN limbo : t.key = k
      BY <1>26 DEF Tracked
    <2>1. k \in keys \/ \E t \in DOMAIN s.limbo : t.key = k
      BY <1>29 DEF Tracked
    <2>2. k \in K \/ \E t \in DOMAIN s.limbo : t.key = k
      BY <1>6, <2>1
    <2> QED  BY <1>12, <1>19, <2>2
  <1>30. Continues(s, u)
    <2>1. Conveys(s, v, new)
      BY <1>21, ConveysSame DEF SameEnd
    <2>2. Conveys(s, u, new)
      BY <1>25, <2>1, ConveysOn
    <2>3. u.nextLimbo = n
      BY <1>21, <1>25 DEF SameEngine
    <2>4. \A t \in new : t \in LimboTarget /\ t.n \in Nat /\ t.n > s.nextLimbo
      BY <1>2, <1>11 DEF LimboTarget
    <2>5. ASSUME NEW t \in new PROVE Begins(u, t, 0)
      <3>1. StateOf(v, t).changes = None /\ Asked(v.conn.requests, t) = {}
        BY <1>17, <1>21 DEF SameEnd, StateOf, Fresh
      <3> QED  BY <1>22, <1>25, <3>1
    <2>6. ASSUME NEW t \in DOMAIN s.targets, t \notin new PROVE Stays(s, u, t)
      BY <1>21, <1>25, <2>2, <2>6 DEF Conveys, Stays, SameEnd
    <2>7. \A t \in DOMAIN u.limbo :
             \/ t \in DOMAIN s.limbo /\ u.limbo[t] = s.limbo[t]
             \/ t \in LimboTarget /\ t.n > s.nextLimbo /\ ~u.limbo[t]
      BY <1>19, <1>26, <2>4
    <2> QED  BY <1>9, <1>26, <2>2, <2>3, <2>4, <2>5, <2>6, <2>7 DEF Continues, Conveys
  <1> QED  BY <1>4, <1>25, <1>26, <1>27, <1>28, <1>29, <1>30 DEF SameViews, u

\* In u the view q has heard of the event e, and the other views are those of s.
\* Without targets the event leaves the view's currency.
Viewed(s, u, q, e, d) ==
    /\ u.mem = s.mem
    /\ \A p : p \in DOMAIN u.views <=> p \in DOMAIN s.views
    /\ \A p \in DOMAIN s.views : p # q => u.views[p] = s.views[p]
    /\ e.targets = None => u.views[q].current = s.views[q].current
    /\ e.targets = None =>
          u.views[q].limbo \subseteq IF s.views[q].current THEN Shown(q, d)
                                     ELSE s.views[q].limbo

\* A view hears of an event, and what came into or left its limbo is tracked.
LEMMA ApplyToViewIs ==
    ASSUME NEW s, Good(s), NEW q \in DOMAIN s.views, NEW e \in AnyEvent, NEW d \in AnyDisk
    PROVE  LET u == ApplyToView(s, q, e, d)
           IN /\ Good(u) /\ Viewed(s, u, q, e, d)
              /\ \A except : Tracked(s, except) => Tracked(u, except)
              /\ Continues(s, u)
  <1> DEFINE old == s.views[q]
             current == IF q \in DOMAIN e.targets THEN e.targets[q].current ELSE old.current
             limbo == IF current THEN Shown(q, d) \ d.keys[q] ELSE old.limbo
             new == [current |-> current, limbo |-> limbo]
             views == [s.views EXCEPT ![q] = new]
             r == [s EXCEPT !.views = views]
             left == old.limbo \ limbo
             came == limbo \ old.limbo
             w == Untrack(r, left)
             u == Track(w, came)
  <1>1. /\ s \in Client /\ s.ok /\ Steady(s) /\ OnlineKnown(s) /\ IdleKnown(s)
        /\ AllNumbered(s) /\ ChangesKnown(s) /\ IsFiniteSet(DOMAIN s.targets)
    BY DEF Good, Sound, Steady
  <1>2. /\ q \in Query /\ old.current \in BOOLEAN /\ old.limbo \subseteq Doc
        /\ \A p \in DOMAIN s.views : p \in Query /\ s.views[p] \in View
    BY <1>1, ViewsAre
  <1>3. ApplyToView(s, q, e, d) = u
    <2>1. [s EXCEPT !.views[q] = new] = r
      BY <1>1 DEF Client
    <2>2. ApplyToView(s, q, e, d) = Track(Untrack([s EXCEPT !.views[q] = new], left), came)
      BY DEF ApplyToView
    <2> HIDE DEF left, came, new, r
    <2> QED  BY <2>1, <2>2
  <1>4. current \in BOOLEAN /\ (e.targets = None => current = old.current)
    <2>1. e.targets \in Partial(Target, TargetState)
      BY DEF AnyEvent
    <2>2. \A t \in DOMAIN e.targets : e.targets[t] \in TargetState
      BY <2>1, PartialIs
    <2>3. e.targets = None => DOMAIN e.targets = {}
      BY NoneIs
    <2> QED  BY <1>2, <2>2, <2>3 DEF TargetState
  <1>5. Shown(q, d) \subseteq Doc
    BY <1>2, TargetsAssumption DEF Shown
  <1> HIDE DEF current
  <1>6. limbo \subseteq Doc /\ (current => limbo \subseteq Shown(q, d))
        /\ (~current => limbo = old.limbo)
    BY <1>2, <1>5
  <1> HIDE DEF limbo
  <1>7. new \in View /\ new.current = current /\ new.limbo = limbo
    BY <1>4, <1>6 DEF View
  <1> HIDE DEF new
  <1>8. /\ DOMAIN views = DOMAIN s.views /\ views[q] = new
        /\ \A p \in DOMAIN s.views : p # q => views[p] = s.views[p]
    <2>1. s.views \in Partial(Query, View)
      BY <1>1 DEF Client
    <2>2. s.views \in [DOMAIN s.views -> View]
      BY <2>1, PartialIs
    <2> QED  BY <2>2
  <1>9. views \in Partial(Query, View)
    <2>1. views \in [DOMAIN s.views -> View]
      BY <1>2, <1>7
    <2> HIDE DEF views
    <2> QED  BY <1>2, <1>8, <2>1, PartialIs
  <1> HIDE DEF views
  <1>10. /\ r \in Client /\ r.ok /\ r.targets = s.targets /\ r.stream = s.stream
         /\ r.conn = s.conn /\ r.states = s.states /\ r.limbo = s.limbo
         /\ r.nextLimbo = s.nextLimbo /\ r.mem = s.mem /\ r.views = views
         /\ r.idle = s.idle /\ r.timer = s.timer /\ r.online = s.online
         /\ r.failures = s.failures /\ r.docs = s.docs
    BY <1>1, <1>9 DEF Client
  <1> HIDE DEF r
  <1>11. Sound(r)
    <2>1. Steady(r)
      BY <1>1, <1>10 DEF Steady, AllNumbered, Numbered, RequestedIds, ChangesKnown
    <2>2. OnlineKnown(r) /\ IdleKnown(r)
      BY <1>1, <1>10 DEF OnlineKnown, IdleKnown, Started
    <2> QED  BY <2>1, <2>2 DEF Sound
  <1>12. Watched(r)
    BY <1>10 DEF Watched, Good
  <1>13. WantedBut(r, left)
    <2>1. WantedBut(s, {})
      BY DEF Good, Wanted
    <2>2. ASSUME NEW t \in DOMAIN s.limbo PROVE t.key \in left \/ InLimbo(r, t.key)
      <3>1. PICK p \in DOMAIN s.views : t.key \in s.views[p].limbo
        BY <2>1 DEF WantedBut, InLimbo
      <3>2. CASE p # q
        BY <1>8, <1>10, <3>1, <3>2 DEF InLimbo
      <3>3. CASE p = q
        BY <1>7, <1>8, <1>10, <3>1, <3>3 DEF InLimbo
      <3> QED  BY <3>2, <3>3
    <2> HIDE DEF left
    <2> QED  BY <1>8, <1>10, <2>1, <2>2 DEF WantedBut
  <1>14. ASSUME NEW except, Tracked(s, except) PROVE Tracked(r, except \cup came)
    <2> SUFFICES ASSUME NEW p \in DOMAIN s.views, NEW k \in views[p].limbo, k \notin except,
                        k \notin came
                 PROVE  \E t \in DOMAIN s.limbo : t.key = k
      BY <1>8, <1>10 DEF Tracked
    <2>1. k \in s.views[p].limbo
      BY <1>7, <1>8
    <2> QED  BY <1>14, <2>1 DEF Tracked
  <1> HIDE DEF left
  <1>15. /\ Sound(w) /\ Wanted(w) /\ SameViews(r, w) /\ Watched(w)
         /\ \A except : Tracked(r, except) => Tracked(w, except)
         /\ Continues(r, w)
    BY <1>11, <1>12, <1>13, UntrackIs
  <1> HIDE DEF w
  <1>16. came \in SUBSET Doc
    BY <1>6
  <1>17. \A k \in came : InLimbo(w, k)
    BY <1>7, <1>8, <1>10, <1>15 DEF InLimbo, SameViews
  <1> HIDE DEF came
  <1>18. /\ Sound(u) /\ Wanted(u) /\ SameViews(w, u) /\ Watched(u)
         /\ \A except : Tracked(w, except \cup came) => Tracked(u, except)
         /\ Continues(w, u)
    BY <1>15, <1>16, <1>17, TrackIs
  <1> HIDE DEF u
  <1>19. u.views = views /\ u.mem = s.mem
    BY <1>10, <1>15, <1>18 DEF SameViews
  <1>20. Viewed(s, u, q, e, d)
    BY <1>4, <1>6, <1>7, <1>8, <1>19 DEF Viewed
  <1>21. \A except : Tracked(s, except) => Tracked(u, except)
    BY <1>14, <1>15, <1>18
  <1>22. Continues(s, u)
    <2>1. /\ s.nextLimbo \in Nat /\ r.nextLimbo \in Nat
          /\ w.nextLimbo \in Nat /\ u.nextLimbo \in Nat
      BY <1>1, <1>10, <1>15, <1>18 DEF Sound, Steady, Client
    <2>2. Continues(s, r)
      BY <1>10, <2>1, ContinuesSame
    <2>3. Continues(s, w)
      BY <1>15, <2>1, <2>2, ContinuesOn
    <2> QED  BY <1>18, <2>1, <2>3, ContinuesOn
  <1> QED  BY <1>3, <1>18, <1>20, <1>21, <1>22 DEF Good, u

\* f[i] is the client s when i views of the order have heard of the event.
AreSteps(f, n, s, order, e, d) ==
    f = [i \in 0 .. n |-> IF i = 0 THEN s ELSE ApplyToView(f[i - 1], order[i], e, d)]

\* There is such a function.
LEMMA StepByStep ==
    ASSUME NEW n \in Nat, NEW s, NEW order, NEW e, NEW d
    PROVE  \E f : AreSteps(f, n, s, order, e, d)
  <1> DEFINE G(x, i) == ApplyToView(x, order[i], e, d)
  <1> HIDE DEF G
  <1> DEFINE Is(f, m) == f = [i \in 0 .. m |-> IF i = 0 THEN s ELSE G(f[i - 1], i)]
             T == {m \in Nat : \E f : Is(f, m)}
  <1>1. 0 \in T
    <2> DEFINE f == [i \in 0 .. 0 |-> s]
    <2>1. Is(f, 0)
      OBVIOUS
    <2> QED  BY <2>1
  <1>2. ASSUME NEW m \in Nat, m \in T PROVE m + 1 \in T
    <2>1. PICK f : Is(f, m)
      BY <1>2
    <2> DEFINE g == [i \in 0 .. m + 1 |-> IF i <= m THEN f[i] ELSE G(f[m], m + 1)]
               h == [i \in 0 .. m + 1 |-> IF i = 0 THEN s ELSE G(g[i - 1], i)]
    <2>2. ASSUME NEW i \in 0 .. m + 1 PROVE g[i] = h[i]
      <3>1. CASE i = 0
        <4>1. 0 \in 0 .. m
          OBVIOUS
        <4>2. f[0] = s
          BY <2>1, <4>1
        <4>3. g[0] = f[0] /\ h[0] = s
          OBVIOUS
        <4> QED  BY <3>1, <4>2, <4>3
      <3>2. CASE i # 0 /\ i <= m
        <4>1. i \in 0 .. m /\ i - 1 \in 0 .. m /\ i - 1 \in 0 .. m + 1 /\ i - 1 <= m
          BY <3>2
        <4>2. f[i] = G(f[i - 1], i)
          BY <2>1, <3>2, <4>1
        <4>3. g[i] = f[i] /\ g[i - 1] = f[i - 1] /\ h[i] = G(g[i - 1], i)
          BY <3>2, <4>1
        <4> QED  BY <4>2, <4>3
      <3>3. CASE i = m + 1
        <4>1. i # 0 /\ ~(i <= m) /\ i - 1 = m /\ m \in 0 .. m + 1 /\ m <= m
          BY <3>3
        <4>2. g[i] = G(f[m], m + 1) /\ g[m] = f[m] /\ h[i] = G(g[i - 1], i)
          BY <4>1
        <4> QED  BY <3>3, <4>1, <4>2
      <3> QED  BY <3>1, <3>2, <3>3
    <2>3. g = h
      <3>1. DOMAIN g = 0 .. m + 1 /\ DOMAIN h = 0 .. m + 1
        OBVIOUS
      <3>2. g = [i \in 0 .. m + 1 |-> g[i]] /\ h = [i \in 0 .. m + 1 |-> h[i]]
        OBVIOUS
      <3> HIDE DEF g, h
      <3>3. [i \in 0 .. m + 1 |-> g[i]] = [i \in 0 .. m + 1 |-> h[i]]
        BY <2>2
      <3> QED  BY <3>2, <3>3
    <2>4. Is(g, m + 1)
      BY <2>3
    <2> HIDE DEF g, Is
    <2>5. \E x : Is(x, m + 1)
      BY <2>4
    <2> QED  BY <2>5
  <1> HIDE DEF T
  <1>3. n \in T
    BY <1>1, <1>2, EveryNumber
  <1> QED  BY <1>3 DEF T, G, AreSteps

\* No view that is not current has k in limbo
GivenUp(s, k) == \A q \in DOMAIN s.views : ~s.views[q].current => k \notin s.views[q].limbo

\* So it is in u, and the views that have heard of the event do not have k in limbo
Handled(u, k, order, i) ==
    /\ GivenUp(u, k)
    /\ \A q \in DOMAIN u.views : k \in u.views[q].limbo => \A j \in 1 .. i : order[j] # q

\* The event says of no target anything, and k is not there afterwards
Gone(k, e, d) == e.targets = None /\ ~d.cache[k].there

\* What stays true of s as its views hear of the event
Follows(s, u) ==
    /\ Good(u) /\ u.mem = s.mem
    /\ \A q : q \in DOMAIN u.views <=> q \in DOMAIN s.views
    /\ \A except : Tracked(s, except) => Tracked(u, except)
    /\ Continues(s, u)

\* One view more has heard of the event.
LEMMA HandledIs ==
    ASSUME NEW s, NEW order, NEW i \in Nat, NEW e, NEW d, NEW k, Gone(k, e, d),
           Handled(s, k, order, i), NEW u, order[i + 1] \in DOMAIN s.views,
           Viewed(s, u, order[i + 1], e, d)
    PROVE  Handled(u, k, order, i + 1)
  <1> DEFINE q == order[i + 1]
  <1>1. /\ \A p : p \in DOMAIN u.views <=> p \in DOMAIN s.views
        /\ \A p \in DOMAIN s.views : p # q => u.views[p] = s.views[p]
        /\ u.views[q].current = s.views[q].current
        /\ u.views[q].limbo \subseteq IF s.views[q].current THEN Shown(q, d)
                                      ELSE s.views[q].limbo
    BY DEF Gone, Viewed
  <1>2. k \notin Shown(q, d)
    BY DEF Gone, Shown
  <1>3. /\ \A p \in DOMAIN s.views : ~s.views[p].current => k \notin s.views[p].limbo
        /\ \A p \in DOMAIN s.views : k \in s.views[p].limbo => \A j \in 1 .. i : order[j] # p
    BY DEF Handled, GivenUp
  <1>4. k \notin u.views[q].limbo
    BY <1>1, <1>2, <1>3
  <1>5. GivenUp(u, k)
    <2> SUFFICES ASSUME NEW p \in DOMAIN u.views, ~u.views[p].current
                 PROVE  k \notin u.views[p].limbo
      BY DEF GivenUp
    <2> HIDE DEF q
    <2> QED  BY <1>1, <1>3, <1>4
  <1>6. ASSUME NEW p \in DOMAIN u.views, k \in u.views[p].limbo, NEW j \in 1 .. i + 1
        PROVE  order[j] # p
    <2>1. p # q /\ k \in s.views[p].limbo /\ p \in DOMAIN s.views
      BY <1>1, <1>4, <1>6
    <2>2. CASE j = i + 1
      BY <2>1, <2>2
    <2>3. CASE j \in 1 .. i
      BY <1>3, <2>1, <2>3
    <2>4. j = i + 1 \/ j \in 1 .. i
      OBVIOUS
    <2> QED  BY <2>2, <2>3, <2>4
  <1> QED  BY <1>5, <1>6 DEF Handled

\* All views hear of the event.  A document that is gone is in no view's limbo then,
\* unless a view had it there that is not current.
LEMMA ApplyToViewsIs ==
    ASSUME NEW s, Good(s), NEW order \in Orders(DOMAIN s.views), NEW e \in AnyEvent,
           NEW d \in AnyDisk
    PROVE  LET u == ApplyToViews(s, order, e, d)
           IN /\ Follows(s, u)
              /\ \A k : Gone(k, e, d) /\ GivenUp(s, k) => ~InLimbo(u, k)
  <1> DEFINE n == Cardinality(DOMAIN s.views)
             applied[i \in 0 .. Len(order)] ==
                IF i = 0 THEN s ELSE ApplyToView(applied[i - 1], order[i], e, d)
             u == ApplyToViews(s, order, e, d)
  <1>1. s \in Client
    BY DEF Good, Sound, Steady
  <1>2. n \in Nat
    <2>1. DOMAIN s.views \subseteq Query
      BY <1>1, ViewsAre
    <2> QED  BY <2>1, TargetsAssumption, FS_Subset, FS_CardinalityType
  <1> HIDE DEF n
  <1>3. /\ order \in [1 .. n -> DOMAIN s.views] /\ Range(order) = DOMAIN s.views
        /\ Len(order) = n
    BY <1>2 DEF Orders, n
  <1>4. u = applied[n]
    BY <1>3 DEF ApplyToViews
  <1>5. \E f : AreSteps(f, Len(order), s, order, e, d)
    BY <1>2, <1>3, StepByStep
  <1>6. applied = [i \in 0 .. Len(order) |-> IF i = 0 THEN s
                          ELSE ApplyToView(applied[i - 1], order[i], e, d)]
    BY <1>5 DEF applied, AreSteps
  <1> HIDE DEF applied, u
  <1>7. applied[0] = s /\ \A i \in Nat : i + 1 <= n =>
           applied[i + 1] = ApplyToView(applied[i], order[i + 1], e, d)
    <2>1. 0 \in 0 .. Len(order)
      BY <1>2, <1>3
    <2>2. ASSUME NEW i \in Nat, i + 1 <= n
          PROVE  applied[i + 1] = ApplyToView(applied[i], order[i + 1], e, d)
      <3>1. i + 1 \in 0 .. Len(order) /\ i + 1 # 0 /\ i + 1 - 1 = i
        BY <1>2, <1>3, <2>2
      <3> QED  BY <1>6, <3>1
    <2> QED  BY <1>6, <2>1, <2>2
  <1> DEFINE Done(x, i) == Follows(s, x) /\ \A k : Gone(k, e, d) /\ GivenUp(s, k) =>
                                                Handled(x, k, order, i)
             T == {i \in Nat : i <= n => Done(applied[i], i)}
  <1>8. 0 \in T
    <2>1. Follows(s, s)
      <3>1. s.nextLimbo \in Nat
        BY <1>1 DEF Client
      <3>2. Continues(s, s)
        BY <3>1, ContinuesSame
      <3> QED  BY <3>2 DEF Follows
    <2>2. \A k : GivenUp(s, k) => Handled(s, k, order, 0)
      BY DEF Handled
    <2>3. Done(applied[0], 0)
      BY <1>7, <2>1, <2>2
    <2> QED  BY <2>3
  <1>9. ASSUME NEW i \in Nat, i \in T PROVE i + 1 \in T
    <2> DEFINE x == applied[i]
               y == applied[i + 1]
               q == order[i + 1]
    <2> SUFFICES ASSUME i + 1 <= n PROVE Done(y, i + 1)
      OBVIOUS
    <2>1. i <= n /\ i + 1 \in 1 .. n
      BY <1>2
    <2>2. Done(x, i)
      BY <1>9, <2>1
    <2>3. y = ApplyToView(x, q, e, d)
      BY <1>7
    <2> HIDE DEF x, y
    <2>4. Good(x) /\ q \in DOMAIN x.views
      BY <1>3, <2>1, <2>2 DEF Follows
    <2> HIDE DEF q
    <2>5. /\ Good(y) /\ Viewed(x, y, q, e, d)
          /\ \A except : Tracked(x, except) => Tracked(y, except)
          /\ Continues(x, y)
      BY <2>3, <2>4, ApplyToViewIs
    <2>6. Follows(s, y)
      <3>1. s.nextLimbo \in Nat /\ x.nextLimbo \in Nat /\ y.nextLimbo \in Nat
        BY <1>1, <2>4, <2>5 DEF Good, Sound, Steady, Client
      <3>2. Continues(s, x)
        BY <2>2 DEF Follows
      <3>3. Continues(s, y)
        BY <2>5, <3>1, <3>2, ContinuesOn
      <3> QED  BY <2>2, <2>5, <3>3 DEF Follows, Viewed
    <2>7. ASSUME NEW k, Gone(k, e, d), GivenUp(s, k) PROVE Handled(y, k, order, i + 1)
      BY <2>2, <2>4, <2>5, <2>7, HandledIs DEF q
    <2> QED  BY <2>6, <2>7
  <1> HIDE DEF Done
  <1>10. Done(u, n)
    <2> HIDE DEF T
    <2>1. n \in T
      BY <1>2, <1>8, <1>9, EveryNumber
    <2> QED  BY <1>2, <1>4, <2>1 DEF T
  <1>11. Follows(s, u)
    BY <1>10 DEF Done
  <1>12. ASSUME NEW k, Gone(k, e, d), GivenUp(s, k) PROVE ~InLimbo(u, k)
    <2>1. Handled(u, k, order, n)
      BY <1>10, <1>12 DEF Done
    <2>2. \A q \in DOMAIN u.views : \E j \in 1 .. n : order[j] = q
      BY <1>3, <1>11 DEF Follows, Range
    <2> QED  BY <2>1, <2>2 DEF Handled, InLimbo
  <1> QED  BY <1>11, <1>12 DEF u

\* What an event without targets has deleted is in no view's limbo
Deletes(s, u, e) ==
    \A k \in DOMAIN e.docs :
        e.targets = None /\ e.docs[k] = Unknown /\ GivenUp(s, k) => ~InLimbo(u, k)

\* From s to u the event e has been heard by limbo targets and views
Ensues(s, u, e) == \E x : SameNet(s, x) /\ Learns(s, x, e) /\ Continues(x, u)

\* An event that says of no target anything.
LEMMA EnsuesNothing ==
    ASSUME NEW s, NEW u, NEW e, Ensues(s, u, e), e.targets = None
    PROVE  Continues(s, u)
  <1>1. PICK x : SameNet(s, x) /\ Learns(s, x, e) /\ Continues(x, u)
    BY DEF Ensues
  <1>2. \A t \in DOMAIN x.limbo : t \in DOMAIN s.limbo /\ x.limbo[t] = s.limbo[t]
    BY <1>1, NoneIs DEF Learns, Learned
  <1> QED  BY <1>1, <1>2 DEF Continues, SameNet, Learns, Carries, Counted, StateOf, Stays, Unmoved

\* An event reaches the local store, the resolutions and the views.
LEMMA ApplyRemoteEventIs ==
    ASSUME NEW s, Good(s), disk \in AnyDisk, NEW e, KnownEvent(s, e), Settled(s, e),
           e.version = 0 \/ e.version >= disk.last,
           ApplyRemoteEvent(s, e)
    PROVE  /\ Good(client') /\ disk' \in AnyDisk /\ Deletes(s, client', e)
           /\ \A except : Tracked(s, except) => Tracked(client', except)
           /\ Ensues(s, client', e) /\ Caches(disk', e)
  <1> DEFINE condition == e.version = 0 \/ e.version >= disk.last
  <1>1. PICK order \in Orders(DOMAIN s.views), aged \in SUBSET DOMAIN s.mem :
           LET stored == Stored(s, e, aged)
               t == HardAssert([Received(s, e) EXCEPT !.mem = stored.mem], condition)
           IN /\ disk' = stored.disk
              /\ client' = ApplyToViews(t, order, e, stored.disk)
    BY Zenon DEF ApplyRemoteEvent
  <1> DEFINE stored == Stored(s, e, aged)
             mem == stored.mem
             d == stored.disk
             t == [Received(s, e) EXCEPT !.mem = mem]
             u == ApplyToViews(t, order, e, d)
  <1>2. disk' = d /\ client' = ApplyToViews(HardAssert(t, condition), order, e, d)
    BY <1>1
  <1>3. s \in Client /\ e \in AnyEvent /\ Sound(s)
    BY DEF Good, Sound, Steady, KnownEvent
  <1>4. /\ mem \in Partial(Query, QueryData) /\ d \in AnyDisk
        /\ \A q : q \in DOMAIN mem <=> q \in DOMAIN s.mem
        /\ \A k \in DOMAIN e.docs : e.docs[k] = Unknown => d.cache[k] = Unknown
        /\ Caches(d, e)
    BY <1>3, StoredIs
  <1>5. condition
    OBVIOUS
  <1> HIDE DEF mem, d, condition
  <1>6. /\ Sound(t) /\ SameNet(s, t) /\ t.mem = mem /\ Learns(s, t, e)
        /\ \A x : x \in DOMAIN t.limbo <=> x \in DOMAIN s.limbo
    BY <1>3, <1>4, ReceivedIs DEF Learns
  <1> HIDE DEF t
  <1>7. HardAssert(t, condition) = t
    BY <1>5, <1>6, AssertHolds DEF Sound, Steady
  <1>8. Good(t)
    <2>1. Wanted(t)
      BY <1>4, <1>6 DEF Good, Wanted, WantedBut, SameNet, InLimbo
    <2>2. Watched(t)
      BY <1>6 DEF Good, Watched, SameNet
    <2> QED  BY <1>6, <2>1, <2>2 DEF Good
  <1>9. ASSUME NEW except, Tracked(s, except) PROVE Tracked(t, except)
    BY <1>6, <1>9 DEF Tracked, SameNet
  <1>10. \A k : GivenUp(s, k) => GivenUp(t, k)
    BY <1>6 DEF GivenUp, SameNet
  <1>11. order \in Orders(DOMAIN t.views)
    BY <1>6 DEF Orders, SameNet
  <1>12. /\ Follows(t, u)
         /\ \A k : Gone(k, e, d) /\ GivenUp(t, k) => ~InLimbo(u, k)
    BY <1>3, <1>4, <1>8, <1>11, ApplyToViewsIs
  <1> HIDE DEF u
  <1>13. Deletes(s, u, e)
    <2>1. ~Unknown.there
      BY DEF Unknown
    <2> QED  BY <1>4, <1>10, <1>12, <2>1 DEF Deletes, Gone
  <1>14. \A except : Tracked(s, except) => Tracked(u, except)
    BY <1>9, <1>12 DEF Follows
  <1>15. Ensues(s, u, e)
    BY <1>6, <1>12 DEF Follows, Ensues
  <1>16. disk' = d /\ client' = u
    BY <1>2, <1>7 DEF u
  <1>17. Good(u)
    BY <1>12 DEF Follows
  <1> QED  BY <1>4, <1>13, <1>14, <1>15, <1>16, <1>17

\* A query is left, and the documents that were in its limbo.  Its target may be
\* gone already.
LEMMA RemoveQueryIs ==
    ASSUME NEW s, Sound(s), Watched(s), NEW q \in DOMAIN s.views,
           q \notin DOMAIN s.targets,
           \A t : t \in DOMAIN s.targets <=> (t # q /\ t \in DOMAIN s.views) \/ t \in DOMAIN s.limbo,
           \A p : p \in DOMAIN s.mem <=> p \in DOMAIN s.views,
           \A t \in DOMAIN s.limbo : InLimbo(s, t.key),
           \A t, x \in DOMAIN s.limbo : t.key = x.key => t = x
    PROVE  LET u == RemoveQuery(s, q)
           IN /\ Good(u) /\ Continues(s, u)
              /\ \A except : Tracked(s, except) => Tracked(u, except)
  <1> DEFINE views == Without(s.views, q)
             mem == Without(s.mem, q)
             left == s.views[q].limbo
             r == [s EXCEPT !.views = views, !.mem = mem]
             u == Untrack(r, left)
  <1>1. /\ s \in Client /\ s.ok /\ Steady(s) /\ OnlineKnown(s) /\ IdleKnown(s)
        /\ AllNumbered(s) /\ ChangesKnown(s) /\ IsFiniteSet(DOMAIN s.targets)
    BY DEF Sound, Steady
  <1>2. RemoveQuery(s, q) = u
    <2>1. [s EXCEPT !.views = Without(@, q), !.mem = Without(@, q)] = r
      BY <1>1 DEF Client
    <2> HIDE DEF r
    <2> QED  BY <2>1 DEF RemoveQuery
  <1>3. s.views \in Partial(Query, View) /\ s.mem \in Partial(Query, QueryData)
    BY <1>1 DEF Client
  <1>4. /\ views \in Partial(Query, View) /\ DOMAIN views = DOMAIN s.views \ {q}
        /\ \A p \in DOMAIN s.views \ {q} : views[p] = s.views[p]
    <2>1. DOMAIN s.views \ {q} \subseteq DOMAIN s.views
      OBVIOUS
    <2> QED  BY <1>3, <2>1, RestrictIs DEF Without
  <1>5. mem \in Partial(Query, QueryData) /\ DOMAIN mem = DOMAIN s.mem \ {q}
    <2>1. DOMAIN s.mem \ {q} \subseteq DOMAIN s.mem
      OBVIOUS
    <2> QED  BY <1>3, <2>1, RestrictIs DEF Without
  <1> HIDE DEF views, mem
  <1>6. /\ r \in Client /\ r.ok /\ r.targets = s.targets /\ r.stream = s.stream
        /\ r.conn = s.conn /\ r.states = s.states /\ r.limbo = s.limbo
        /\ r.nextLimbo = s.nextLimbo /\ r.mem = mem /\ r.views = views
        /\ r.idle = s.idle /\ r.timer = s.timer /\ r.online = s.online
        /\ r.failures = s.failures /\ r.docs = s.docs
    BY <1>1, <1>4, <1>5 DEF Client
  <1> HIDE DEF r
  <1>7. Sound(r)
    <2>1. Steady(r)
      BY <1>1, <1>6 DEF Steady, AllNumbered, Numbered, RequestedIds, ChangesKnown
    <2>2. OnlineKnown(r) /\ IdleKnown(r)
      BY <1>1, <1>6 DEF OnlineKnown, IdleKnown, Started
    <2> QED  BY <2>1, <2>2 DEF Sound
  <1>8. WantedBut(r, left)
    <2>1. ASSUME NEW t \in DOMAIN s.limbo PROVE t.key \in left \/ InLimbo(r, t.key)
      <3>1. PICK p \in DOMAIN s.views : t.key \in s.views[p].limbo
        BY DEF InLimbo
      <3>2. CASE p # q
        BY <1>4, <1>6, <3>1, <3>2 DEF InLimbo
      <3>3. CASE p = q
        BY <3>1, <3>3
      <3> QED  BY <3>2, <3>3
    <2>2. \A t \in DOMAIN s.limbo : t # q
      BY <1>1, LimboAre
    <2>3. \A t : t \in DOMAIN s.targets <=> t \in DOMAIN views \/ t \in DOMAIN s.limbo
      BY <1>4, <2>2
    <2>4. \A p : p \in DOMAIN mem <=> p \in DOMAIN views
      BY <1>4, <1>5
    <2> HIDE DEF left
    <2> QED  BY <1>6, <2>1, <2>3, <2>4 DEF WantedBut
  <1>9. Watched(r)
    BY <1>6 DEF Watched
  <1>10. \A except : Tracked(s, except) => Tracked(r, except)
    BY <1>4, <1>6 DEF Tracked
  <1> HIDE DEF left
  <1>11. /\ Sound(u) /\ Wanted(u) /\ SameViews(r, u) /\ Watched(u)
         /\ \A except : Tracked(r, except) => Tracked(u, except)
         /\ Continues(r, u)
    BY <1>7, <1>8, <1>9, UntrackIs
  <1> HIDE DEF u
  <1>12. Continues(s, u)
    <2>1. s.nextLimbo \in Nat /\ r.nextLimbo \in Nat /\ u.nextLimbo \in Nat
      BY <1>1, <1>6, <1>11 DEF Sound, Steady, Client
    <2>2. Continues(s, r)
      BY <1>6, <2>1, ContinuesSame
    <2> QED  BY <1>11, <2>1, <2>2, ContinuesOn
  <1> QED  BY <1>2, <1>10, <1>11, <1>12 DEF Good, u

-----------------------------------------------------------------------------
(* What the aggregator counts and collects.                                *)

\* What the message m makes of a document k: it says what becomes of it, and what
Writes(s, m, k) ==
    \/ m.kind = "Doc" /\ k = m.key /\ \E t \in m.ids : IsActive(s, t)
    \/ /\ m.kind = "Filter" /\ IsActive(s, m.id) /\ IsDocumentQuery(m.id) /\ m.count = 0
       /\ k \in KeysOf(m.id)
Written(m) == IF m.kind = "Doc" THEN m.doc ELSE Unknown

\* The answers to a target's requests that come with m
AnswersOf(m, t) == IF m.kind \in {"Added", "Removed"} /\ t = m.id THEN 1 ELSE 0

\* The state of a target, when a document was added or removed, or when it starts over
Redocumented(s, key, there, t) ==
    [StateOf(s, t) EXCEPT !.pending = TRUE, !.changes = ChangesWith(s, key, there, t)]
Restarted(s, t) ==
    [Fresh EXCEPT !.pending = RemoteKeys(s, t) # {},
                  !.changes = [k \in RemoteKeys(s, t) |-> "Removed"]]
Acknowledged(s, t) ==
    LET a == Answered(s, t)
    IN IF a.out # 0 THEN a ELSE [a EXCEPT !.pending = FALSE, !.changes = None]

\* What the message m makes of the state of a limbo target
Reaction(s, m, t) ==
    CASE m.kind = "Doc" /\ t \in m.ids /\ IsActive(s, t) ->
            Redocumented(s, m.key, m.doc.there, t)
      [] m.kind = "Filter" /\ t = m.id /\ IsActive(s, t) /\ m.count = 0 ->
            Redocumented(s, t.key, FALSE, t)
      [] m.kind = "NoChange" /\ t \in DOMAIN s.states /\ IsActive(s, t) ->
            UpdateResumeToken(StateOf(s, t), m.token)
      [] m.kind = "Added" /\ t = m.id -> Acknowledged(s, t)
      [] m.kind = "Current" /\ t = m.id /\ IsActive(s, t) ->
            UpdateResumeToken([StateOf(s, t) EXCEPT !.current = TRUE, !.pending = TRUE], m.token)
      [] m.kind = "Reset" /\ t = m.id /\ IsActive(s, t) -> Restarted(s, t)
      [] OTHER -> StateOf(s, t)

\* From s to u the limbo targets react to m; none is told to be removed
Reacts(s, u, m) ==
    \A t \in DOMAIN s.limbo :
        ~(m.kind = "Removed" /\ t = m.id) => StateOf(u, t) = Reaction(s, m, t)

\* From s to u the aggregator has counted and collected what m says
Collects(s, u, m) ==
    /\ \A t : StateOf(u, t).out = StateOf(s, t).out - AnswersOf(m, t)
    /\ \A k \in DOMAIN u.docs :
          IF Writes(s, m, k) THEN u.docs[k] = Written(m)
          ELSE k \in DOMAIN s.docs /\ u.docs[k] = s.docs[k]
    /\ \A k : k \in DOMAIN s.docs \/ Writes(s, m, k) => k \in DOMAIN u.docs
    /\ Reacts(s, u, m)

\* The answers outstanding are numbers.
LEMMA OutIs ==
    ASSUME NEW s \in Client
    PROVE  \A t : StateOf(s, t).out \in Int
  <1>1. \A t : StateOf(s, t) \in TargetState
    BY StateOfIs
  <1> QED  BY <1>1 DEF TargetState

\* The state of a target when states are put over others.
LEMMA StateOver ==
    ASSUME NEW s, NEW u, NEW f, u.states = f ++ s.states
    PROVE  \A t : StateOf(u, t) = IF t \in DOMAIN f THEN f[t] ELSE StateOf(s, t)
  <1> SUFFICES ASSUME NEW t PROVE StateOf(u, t) = IF t \in DOMAIN f THEN f[t] ELSE StateOf(s, t)
    OBVIOUS
  <1>1. t \in DOMAIN u.states <=> t \in DOMAIN f \/ t \in DOMAIN s.states
    BY OverKeys, Zenon
  <1>2. CASE t \in DOMAIN f
    <2>1. u.states[t] = f[t]
      BY <1>2 DEF ++
    <2> QED  BY <1>1, <1>2, <2>1 DEF StateOf
  <1>3. CASE t \notin DOMAIN f /\ t \in DOMAIN s.states
    <2>1. u.states[t] = s.states[t]
      BY <1>3 DEF ++
    <2> QED  BY <1>1, <1>3, <2>1 DEF StateOf
  <1>4. CASE t \notin DOMAIN f /\ t \notin DOMAIN s.states
    BY <1>1, <1>4 DEF StateOf
  <1> QED  BY <1>2, <1>3, <1>4

\* States that are put over others, with as many answers outstanding.
LEMMA OutOver ==
    ASSUME NEW s, NEW u, NEW f, u.states = f ++ s.states,
           \A t \in DOMAIN f : f[t].out = StateOf(s, t).out
    PROVE  \A t : StateOf(u, t).out = StateOf(s, t).out
  BY StateOver

\* One state is set.
LEMMA WithStateOut ==
    ASSUME NEW s \in Client, NEW t, NEW state
    PROVE  LET u == WithState(s, t, state)
           IN /\ u.docs = s.docs /\ StateOf(u, t) = state
              /\ \A x : x # t => StateOf(u, x) = StateOf(s, x)
  <1> DEFINE states == Only(t, state) ++ s.states
             u == WithState(s, t, state)
  <1>1. u = [s EXCEPT !.states = states]
    BY DEF WithState, Client
  <1>2. t \in DOMAIN states /\ states[t] = state
    BY DEF ++, Only
  <1>3. \A x : x # t => (x \in DOMAIN states <=> x \in DOMAIN s.states)
    BY DEF ++, Only
  <1>4. \A x \in DOMAIN s.states : x # t => states[x] = s.states[x]
    BY DEF ++, Only
  <1> HIDE DEF states, u
  <1>5. u.states = states /\ u.docs = s.docs
    BY <1>1 DEF Client
  <1> QED  BY <1>2, <1>3, <1>4, <1>5 DEF StateOf, u

\* A document is added to or removed from targets.
LEMMA ChangeDocumentOut ==
    ASSUME NEW s \in Client, NEW ids, NEW key, NEW there, NEW updates
    PROVE  LET u == ChangeDocument(s, ids, key, there, updates)
           IN /\ \A t : StateOf(u, t).out = StateOf(s, t).out
              /\ \A k \in DOMAIN u.docs :
                    IF k \in DOMAIN updates /\ \E t \in ids : IsActive(s, t)
                    THEN u.docs[k] = updates[k]
                    ELSE k \in DOMAIN s.docs /\ u.docs[k] = s.docs[k]
              /\ \A k \in DOMAIN s.docs : k \in DOMAIN u.docs
              /\ (\E t \in ids : IsActive(s, t)) => \A k \in DOMAIN updates : k \in DOMAIN u.docs
              /\ \A t : StateOf(u, t) = IF t \in ids /\ IsActive(s, t)
                                       THEN Redocumented(s, key, there, t) ELSE StateOf(s, t)
  <1> DEFINE active == {t \in ids : IsActive(s, t)}
             new == [t \in active |-> [StateOf(s, t) EXCEPT !.pending = TRUE,
                                          !.changes = ChangesWith(s, key, there, t)]]
             states == new ++ s.states
             docs == IF active = {} THEN s.docs ELSE updates ++ s.docs
             u == ChangeDocument(s, ids, key, there, updates)
  <1>1. u = [s EXCEPT !.states = states, !.docs = docs]
    BY DEF ChangeDocument, ChangesWith, Client
  <1>2. \A t : StateOf(s, t) \in TargetState
    BY StateOfIs
  <1>3. \A t \in DOMAIN new : new[t].out = StateOf(s, t).out
    BY <1>2 DEF TargetState
  <1>4. \A k \in DOMAIN docs :
           IF k \in DOMAIN updates /\ active # {} THEN docs[k] = updates[k]
           ELSE k \in DOMAIN s.docs /\ docs[k] = s.docs[k]
    <2> HIDE DEF active
    <2> QED  BY DEF ++
  <1>a. /\ \A k \in DOMAIN s.docs : k \in DOMAIN docs
        /\ active # {} => \A k \in DOMAIN updates : k \in DOMAIN docs
    <2> HIDE DEF active
    <2> QED  BY DEF ++
  <1>b. /\ \A t : t \in DOMAIN new <=> t \in ids /\ IsActive(s, t)
        /\ \A t \in DOMAIN new : new[t] = Redocumented(s, key, there, t)
    BY DEF Redocumented
  <1>5. active # {} <=> \E t \in ids : IsActive(s, t)
    OBVIOUS
  <1> HIDE DEF states, docs, u, active
  <1>6. u.states = states /\ u.docs = docs
    BY <1>1 DEF Client
  <1> HIDE DEF new
  <1>7. \A t : StateOf(u, t).out = StateOf(s, t).out
    BY <1>3, <1>6, OutOver DEF states
  <1>8. \A t : StateOf(u, t) = IF t \in DOMAIN new THEN new[t] ELSE StateOf(s, t)
    BY <1>6, StateOver DEF states
  <1>9. \A t : StateOf(u, t) = IF t \in ids /\ IsActive(s, t)
                              THEN Redocumented(s, key, there, t) ELSE StateOf(s, t)
    BY <1>b, <1>8
  <1> QED  BY <1>4, <1>5, <1>6, <1>7, <1>9, <1>a DEF u

\* An active target starts over.
LEMMA ResetTargetOut ==
    ASSUME NEW s \in Client, s.ok, NEW t \in DOMAIN s.states, IsActive(s, t)
    PROVE  LET u == ResetTarget(s, t)
           IN /\ u.docs = s.docs /\ \A x : StateOf(u, x).out = StateOf(s, x).out
              /\ \A x : StateOf(u, x) = IF x = t THEN Restarted(s, t) ELSE StateOf(s, x)
  <1> DEFINE keys == RemoteKeys(s, t)
             state == [Fresh EXCEPT !.pending = keys # {},
                                    !.changes = [k \in keys |-> "Removed"]]
             u == ResetTarget(s, t)
  <1>1. StateOf(s, t) = s.states[t] /\ StateOf(s, t).out = 0
    BY DEF IsActive, StateOf
  <1>2. HardAssert(s, t \in DOMAIN s.states /\ s.states[t].out = 0) = s
    BY <1>1, AssertHolds
  <1>3. state.out = 0 /\ state = Restarted(s, t)
    BY DEF Fresh, Restarted
  <1>4. u = WithState(s, t, state)
    BY <1>2, Zenon DEF ResetTarget
  <1> HIDE DEF state, u
  <1>5. u.docs = s.docs /\ StateOf(u, t) = state
        /\ \A x : x # t => StateOf(u, x) = StateOf(s, x)
    BY <1>4, WithStateOut
  <1> QED  BY <1>1, <1>3, <1>5 DEF u

\* A target changes: what was asked of it may be answered.
LEMMA HandleTargetChangeOut ==
    ASSUME NEW s, Sound(s), NEW m, TargetChange(s, m)
    PROVE  Collects(s, HandleTargetChange(s, m), m)
  <1> DEFINE t == m.id
             a == Answered(s, t)
             u == HandleTargetChange(s, m)
             Same == \A x : StateOf(u, x).out = StateOf(s, x).out - AnswersOf(m, x)
             answered == AnswersOf(m, t)
  <1>0. u = HandleTargetChange(s, m)
    OBVIOUS
  <1> HIDE DEF u
  <1> SUFFICES Collects(s, u, m)
    BY <1>0
  <1>1. /\ s \in Client /\ s.ok /\ \A x : StateOf(s, x) \in TargetState /\ StateOf(s, x).out \in Int
    BY StateOfIs, OutIs DEF Sound, Steady
  <1>2. a.out = StateOf(s, t).out - 1 /\ a \in TargetState
    <2>1. StateOf(s, t).out - 1 \in Int
      BY <1>1
    <2> QED  BY <1>1, <2>1 DEF Answered, TargetState
  <1>3. /\ m.kind \in {"NoChange", "Added", "Removed", "Current", "Reset"}
        /\ m.kind = "Reset" => t \in DOMAIN s.states
    BY DEF TargetChange
  <1>a. /\ \A x : x # t => AnswersOf(m, x) = 0
        /\ answered = IF m.kind \in {"Added", "Removed"} THEN 1 ELSE 0
    BY DEF AnswersOf
  <1> HIDE DEF answered
  <1>4. ASSUME u.docs = s.docs, Same, Reacts(s, u, m) PROVE Collects(s, u, m)
    <2>1. \A k : ~Writes(s, m, k)
      BY <1>3 DEF Writes
    <2> QED  BY <1>4, <2>1 DEF Collects
  <1>c. \A x : x # t /\ m.kind # "NoChange" => Reaction(s, m, x) = StateOf(s, x)
    BY <1>3 DEF Reaction
  <1>5. ASSUME NEW state, u = WithState(s, t, state), state.out = StateOf(s, t).out - answered,
               m.kind # "NoChange", m.kind = "Removed" \/ state = Reaction(s, m, t)
        PROVE  Collects(s, u, m)
    <2>1. u.docs = s.docs /\ StateOf(u, t) = state
          /\ \A x : x # t => StateOf(u, x) = StateOf(s, x)
      BY <1>1, <1>5, WithStateOut
    <2>2. Same
      BY <1>1, <1>a, <1>5, <2>1 DEF answered
    <2>3. Reacts(s, u, m)
      BY <1>c, <1>5, <2>1 DEF Reacts
    <2> QED  BY <1>4, <2>1, <2>2, <2>3
  <1>b. ASSUME \A x : StateOf(u, x).out = StateOf(s, x).out, answered = 0
        PROVE  Same
    BY <1>1, <1>a, <1>b DEF answered
  <1> HIDE DEF Same
  <1>6. CASE m.kind = "NoChange"
    <2> DEFINE states == [x \in DOMAIN s.states |->
                  IF IsActive(s, x) THEN UpdateResumeToken(s.states[x], m.token) ELSE s.states[x]]
    <2>1. u = [s EXCEPT !.states = states]
      BY <1>0, <1>1, <1>6 DEF HandleTargetChange, Client
    <2>2. \A x \in DOMAIN s.states : s.states[x] \in TargetState
      BY <1>1, StateOfIs
    <2>3. \A x \in DOMAIN s.states : states[x].out = s.states[x].out
      BY <2>2 DEF UpdateResumeToken, TargetState
    <2>4. DOMAIN states = DOMAIN s.states
      OBVIOUS
    <2> HIDE DEF states
    <2>5. u.states = states /\ u.docs = s.docs
      BY <1>1, <2>1 DEF Client
    <2>6. \A x : StateOf(u, x).out = StateOf(s, x).out
      BY <2>3, <2>4, <2>5 DEF StateOf
    <2>7. \A x : Reaction(s, m, x) = IF x \in DOMAIN s.states /\ IsActive(s, x)
                                    THEN UpdateResumeToken(StateOf(s, x), m.token)
                                    ELSE StateOf(s, x)
      BY <1>6 DEF Reaction
    <2>8. \A x : StateOf(u, x) = Reaction(s, m, x)
      BY <2>4, <2>5, <2>7 DEF StateOf, states
    <2>9. Reacts(s, u, m)
      BY <2>8 DEF Reacts
    <2> QED  BY <1>a, <1>b, <1>4, <1>6, <2>5, <2>6, <2>9
  <1>7. CASE m.kind = "Added"
    <2> DEFINE state == IF a.out # 0 THEN a ELSE [a EXCEPT !.pending = FALSE, !.changes = None]
    <2>1. state.out = StateOf(s, t).out - answered
      BY <1>2, <1>7, <1>a DEF TargetState
    <2>2. u = WithState(s, t, state)
      BY <1>0, <1>7 DEF HandleTargetChange
    <2>3. state = Reaction(s, m, t)
      BY <1>7 DEF Reaction, Acknowledged
    <2> HIDE DEF state
    <2> QED  BY <1>5, <1>7, <2>1, <2>2, <2>3
  <1>8. CASE m.kind = "Removed" /\ a.out # 0
    <2>1. u = WithState(s, t, a)
      BY <1>0, <1>8 DEF HandleTargetChange
    <2>2. a.out = StateOf(s, t).out - answered
      BY <1>2, <1>8, <1>a
    <2> HIDE DEF a
    <2> QED  BY <1>5, <1>8, <2>1, <2>2
  <1>9. CASE m.kind = "Removed" /\ ~(a.out # 0)
    <2> DEFINE states == Without(s.states, t)
    <2>1. u = [s EXCEPT !.states = states]
      BY <1>0, <1>1, <1>9 DEF HandleTargetChange, Client
    <2>2. /\ \A x : x \in DOMAIN states <=> x # t /\ x \in DOMAIN s.states
          /\ \A x \in DOMAIN states : states[x] = s.states[x]
      BY DEF Without, Restrict
    <2> HIDE DEF states
    <2>3. u.states = states /\ u.docs = s.docs
      BY <1>1, <2>1 DEF Client
    <2>4. Fresh.out = 0 /\ StateOf(s, t).out - 1 = 0
      BY <1>2, <1>9 DEF Fresh
    <2>5. /\ \A x : x # t => StateOf(u, x).out = StateOf(s, x).out
          /\ StateOf(u, t).out = 0
      BY <2>2, <2>3, <2>4 DEF StateOf
    <2>6. answered = 1
      BY <1>9, <1>a
    <2>7. Same
      BY <1>1, <1>a, <2>4, <2>5, <2>6 DEF answered, Same
    <2>8. \A x : x # t => StateOf(u, x) = StateOf(s, x)
      BY <2>2, <2>3 DEF StateOf
    <2>9. Reacts(s, u, m)
      BY <1>c, <1>9, <2>8 DEF Reacts
    <2> QED  BY <1>4, <2>3, <2>7, <2>9
  <1>10. CASE m.kind = "Current" /\ IsActive(s, t)
    <2> DEFINE b == [StateOf(s, t) EXCEPT !.current = TRUE, !.pending = TRUE]
               state == UpdateResumeToken(b, m.token)
    <2>1. b \in TargetState /\ b.out = StateOf(s, t).out
      BY <1>1 DEF TargetState
    <2>2. u = WithState(s, t, state)
      BY <1>0, <1>10 DEF HandleTargetChange
    <2> HIDE DEF b
    <2>3. state.out = StateOf(s, t).out - answered
      BY <1>1, <1>10, <1>a, <2>1 DEF UpdateResumeToken, TargetState
    <2>4. state = Reaction(s, m, t)
      BY <1>10 DEF Reaction, b
    <2> HIDE DEF state
    <2> QED  BY <1>5, <1>10, <2>2, <2>3, <2>4
  <1>11. CASE m.kind = "Reset" /\ IsActive(s, t)
    <2>1. u = ResetTarget(s, t)
      BY <1>0, <1>11 DEF HandleTargetChange
    <2>2. /\ u.docs = s.docs /\ \A x : StateOf(u, x).out = StateOf(s, x).out
          /\ \A x : StateOf(u, x) = IF x = t THEN Restarted(s, t) ELSE StateOf(s, x)
      BY <1>1, <1>3, <1>11, <2>1, ResetTargetOut
    <2>3. Reaction(s, m, t) = Restarted(s, t)
      BY <1>11 DEF Reaction
    <2>4. Reacts(s, u, m)
      BY <1>c, <1>11, <2>2, <2>3 DEF Reacts
    <2> QED  BY <1>a, <1>b, <1>4, <1>11, <2>2, <2>4
  <1>12. CASE m.kind \in {"Current", "Reset"} /\ ~IsActive(s, t)
    <2>1. u = s
      BY <1>0, <1>12 DEF HandleTargetChange
    <2>2. \A x : Reaction(s, m, x) = StateOf(s, x)
      BY <1>12 DEF Reaction
    <2>3. Reacts(s, u, m)
      BY <2>1, <2>2 DEF Reacts
    <2> QED  BY <1>a, <1>b, <1>4, <1>12, <2>1, <2>3
  <1> QED  BY <1>0, <1>3, <1>6, <1>7, <1>8, <1>9, <1>10, <1>11, <1>12

\* A count may say that a document is gone.
LEMMA HandleExistenceFilterOut ==
    ASSUME NEW s, Sound(s), NEW m, ExistenceFilter(s, m)
    PROVE  Collects(s, HandleExistenceFilter(s, m), m)
  <1> DEFINE t == m.id
             key == CHOOSE k \in KeysOf(t) : TRUE
             u == HandleExistenceFilter(s, m)
  <1>0. u = HandleExistenceFilter(s, m)
    OBVIOUS
  <1> HIDE DEF u
  <1> SUFFICES Collects(s, u, m)
    BY <1>0
  <1>1. s \in Client /\ s.ok /\ \A x : StateOf(s, x).out \in Int
    BY OutIs DEF Sound, Steady
  <1>2. m.kind = "Filter" /\ t \in DOMAIN s.states /\ t \in Target
        /\ (IsDocumentQuery(t) => m.count \in {0, 1})
    BY <1>1, StateOfIs DEF ExistenceFilter
  <1>3. \A x : AnswersOf(m, x) = 0
    BY <1>2 DEF AnswersOf
  <1>4. ASSUME u.docs = s.docs, \A x : StateOf(u, x).out = StateOf(s, x).out,
               ~(IsActive(s, t) /\ IsDocumentQuery(t) /\ m.count = 0),
               \A x : (x = t /\ ~IsDocumentQuery(t)) \/ StateOf(u, x) = StateOf(s, x)
        PROVE  Collects(s, u, m)
    <2>1. \A k : ~Writes(s, m, k)
      BY <1>2, <1>4 DEF Writes
    <2>2. ASSUME NEW x \in DOMAIN s.limbo PROVE StateOf(u, x) = Reaction(s, m, x)
      <3>1. IsDocumentQuery(x)
        BY <1>1, LimboAre, TargetsDiffer DEF IsDocumentQuery
      <3>2. Reaction(s, m, x) = StateOf(s, x)
        BY <1>2, <1>4, <3>1 DEF Reaction
      <3> QED  BY <1>4, <3>1, <3>2
    <2> QED  BY <1>1, <1>2, <1>3, <1>4, <2>1, <2>2 DEF Collects, Reacts
  <1>5. CASE IsActive(s, t) /\ IsDocumentQuery(t) /\ m.count = 0
    <2> DEFINE updates == Only(key, Unknown)
               there == FALSE
               c == ChangeDocument(s, {t}, key, there, updates)
    <2>1. u = c
      BY <1>0, <1>5 DEF HandleExistenceFilter
    <2>2. KeysOf(t) = {key}
      BY <1>2, <1>5, TheKey
    <2>3. DOMAIN updates = {key} /\ updates[key] = Unknown
      BY DEF Only
    <2> HIDE DEF updates, key, there
    <2>4. /\ \A x : StateOf(c, x).out = StateOf(s, x).out
          /\ \A k \in DOMAIN c.docs :
                IF k \in DOMAIN updates /\ \E x \in {t} : IsActive(s, x)
                THEN c.docs[k] = updates[k]
                ELSE k \in DOMAIN s.docs /\ c.docs[k] = s.docs[k]
          /\ \A k \in DOMAIN s.docs : k \in DOMAIN c.docs
          /\ (\E x \in {t} : IsActive(s, x)) => \A k \in DOMAIN updates : k \in DOMAIN c.docs
          /\ \A x : StateOf(c, x) = IF x \in {t} /\ IsActive(s, x)
                                   THEN Redocumented(s, key, there, x) ELSE StateOf(s, x)
      BY <1>1, ChangeDocumentOut
    <2> HIDE DEF c
    <2>5. \A k : Writes(s, m, k) <=> k = key
      BY <1>2, <1>5, <2>2 DEF Writes
    <2>6. Written(m) = Unknown
      BY <1>2 DEF Written
    <2>7. ASSUME NEW x \in DOMAIN s.limbo PROVE StateOf(u, x) = Reaction(s, m, x)
      <3>1. x = t => x.key = key
        BY <1>1, <2>2, LimboAre, TargetsDiffer DEF KeysOf
      <3>2. Reaction(s, m, x) = IF x = t THEN Redocumented(s, x.key, FALSE, x) ELSE StateOf(s, x)
        BY <1>2, <1>5 DEF Reaction
      <3> QED  BY <1>5, <2>1, <2>4, <3>1, <3>2 DEF there
    <2>8. Reacts(s, u, m)
      BY <2>7 DEF Reacts
    <2> QED  BY <1>1, <1>3, <1>5, <2>1, <2>3, <2>4, <2>5, <2>6, <2>8 DEF Collects
  <1>6. CASE IsActive(s, t) /\ IsDocumentQuery(t) /\ m.count # 0
    <2>1. HardAssert(s, m.count = 1) = s
      BY <1>1, <1>2, <1>6, AssertHolds
    <2>2. u = s
      BY <1>0, <1>6, <2>1 DEF HandleExistenceFilter
    <2> QED  BY <1>4, <1>6, <2>2
  <1>7. CASE IsActive(s, t) /\ ~IsDocumentQuery(t) /\ u # s
    <2> DEFINE r == ResetTarget(s, t)
    <2>1. u = [r EXCEPT !.resets = @ \cup {t}]
      BY <1>0, <1>7 DEF HandleExistenceFilter
    <2>2. /\ r.docs = s.docs /\ \A x : StateOf(r, x).out = StateOf(s, x).out
          /\ \A x : x # t => StateOf(r, x) = StateOf(s, x)
      BY <1>1, <1>2, <1>7, ResetTargetOut
    <2>3. u.docs = r.docs /\ u.states = r.states
      BY <2>1, <1>1 DEF ResetTarget, WithState, HardAssert, Client
    <2> HIDE DEF r
    <2>4. \A x : StateOf(u, x) = StateOf(r, x)
      BY <2>3 DEF StateOf
    <2> QED  BY <1>4, <1>7, <2>2, <2>3, <2>4
  <1>8. CASE u = s /\ ~(IsActive(s, t) /\ IsDocumentQuery(t) /\ m.count = 0)
    <2> QED  BY <1>4, <1>8
  <1>9. ~IsActive(s, t) => u = s
    BY <1>0 DEF HandleExistenceFilter
  <1> QED  BY <1>0, <1>5, <1>6, <1>7, <1>8, <1>9

\* The aggregator collects what it hears.
LEMMA AggregatedCollects ==
    ASSUME NEW s, Sound(s), NEW m, AnyMessage(s, m)
    PROVE  Collects(s, Aggregated(s, m), m)
  <1>1. CASE DocumentChange(s, m)
    <2> DEFINE updates == Only(m.key, m.doc)
               u == ChangeDocument(s, m.ids, m.key, m.doc.there, updates)
    <2>1. m.kind = "Doc"
      BY <1>1 DEF DocumentChange
    <2>2. DOMAIN updates = {m.key} /\ updates[m.key] = m.doc
      BY DEF Only
    <2>3. Aggregated(s, m) = u
      BY <2>1 DEF Aggregated, HandleDocumentChange
    <2>4. s \in Client /\ \A x : StateOf(s, x).out \in Int
      BY OutIs DEF Sound, Steady
    <2> HIDE DEF updates
    <2>5. /\ \A x : StateOf(u, x).out = StateOf(s, x).out
          /\ \A k \in DOMAIN u.docs :
                IF k \in DOMAIN updates /\ \E x \in m.ids : IsActive(s, x)
                THEN u.docs[k] = updates[k]
                ELSE k \in DOMAIN s.docs /\ u.docs[k] = s.docs[k]
          /\ \A k \in DOMAIN s.docs : k \in DOMAIN u.docs
          /\ (\E x \in m.ids : IsActive(s, x)) => \A k \in DOMAIN updates : k \in DOMAIN u.docs
          /\ \A x : StateOf(u, x) = IF x \in m.ids /\ IsActive(s, x)
                                   THEN Redocumented(s, m.key, m.doc.there, x) ELSE StateOf(s, x)
      BY <2>4, ChangeDocumentOut
    <2> HIDE DEF u
    <2>6. \A k : Writes(s, m, k) <=> k = m.key /\ \E x \in m.ids : IsActive(s, x)
      BY <2>1 DEF Writes
    <2>7. Written(m) = m.doc /\ \A x : AnswersOf(m, x) = 0
      BY <2>1 DEF Written, AnswersOf
    <2>a. \A x : Reaction(s, m, x) = IF x \in m.ids /\ IsActive(s, x)
                                    THEN Redocumented(s, m.key, m.doc.there, x) ELSE StateOf(s, x)
      BY <2>1 DEF Reaction
    <2>b. Reacts(s, u, m)
      BY <2>5, <2>a DEF Reacts
    <2>8. Collects(s, u, m)
      BY <2>2, <2>4, <2>5, <2>6, <2>7, <2>b DEF Collects
    <2> QED  BY <2>3, <2>8
  <1>2. CASE ExistenceFilter(s, m)
    <2>1. Aggregated(s, m) = HandleExistenceFilter(s, m)
      BY <1>2 DEF Aggregated, ExistenceFilter
    <2> QED  BY <1>2, <2>1, HandleExistenceFilterOut
  <1>3. CASE TargetChange(s, m)
    <2>1. Aggregated(s, m) = HandleTargetChange(s, m)
      BY <1>3 DEF Aggregated, TargetChange
    <2> QED  BY <1>3, <2>1, HandleTargetChangeOut
  <1> QED  BY <1>1, <1>2, <1>3 DEF AnyMessage

\* From s to u as many answers are outstanding
SameOut(s, u) == \A t : StateOf(u, t).out = StateOf(s, t).out

\* A document deduced to be deleted as of a version
GoneAt(version) == [there |-> FALSE, at |-> version]

\* The limbo target t is current, and nothing came of its document
Unseen(s, t) ==
    /\ IsActive(s, t) /\ StateOf(s, t).current /\ ~s.limbo[t]
    /\ t.key \notin DOMAIN s.docs

\* From s to u at most a change that is no news is taken from the state of t
Trims(s, u, t) ==
    LET a == StateOf(s, t)
        b == StateOf(u, t)
    IN /\ b.out = a.out /\ b.current = a.current /\ b.token = a.token
       /\ a.pending => b.pending
       /\ t.key \in DOMAIN s.docs \/ s.limbo[t] \/ a.out # 0 => b = a

\* In u there is what was collected in s, or deduced to be deleted as of a version
Deduces(s, u, version) ==
    /\ \A k \in DOMAIN u.docs :
          \/ k \in DOMAIN s.docs /\ u.docs[k] = s.docs[k]
          \/ u.docs[k] = GoneAt(version)
    /\ \A k \in DOMAIN s.docs : k \in DOMAIN u.docs /\ u.docs[k] = s.docs[k]
    /\ \A t \in DOMAIN s.limbo :
          /\ Trims(s, u, t)
          /\ Unseen(s, t) => t.key \in DOMAIN u.docs /\ u.docs[t.key] = GoneAt(version)

\* From s to u the targets of e have no changes any more
Clears(s, u, e) ==
    \A t : StateOf(u, t) = IF t \in DOMAIN e.targets
                          THEN [StateOf(s, t) EXCEPT !.pending = FALSE, !.changes = None]
                          ELSE StateOf(s, t)

\* A deletion is synthesized only for what was not collected.
LEMMA SynthesizedOut ==
    ASSUME NEW s \in Client, NEW version
    PROVE  LET u == Synthesized(s, version)
           IN SameOut(s, u) /\ Deduces(s, u, version)
  <1> DEFINE Key(t) == CHOOSE k \in KeysOf(t) : TRUE
             missing == {t \in DOMAIN s.states :
                /\ IsActive(s, t) /\ IsDocumentQuery(t) /\ s.states[t].current
                /\ KeysOf(t) \cap (DOMAIN s.docs \cup RemoteKeys(s, t)) = {}}
             first == {t \in missing : t = CHOOSE x \in missing : Key(x) = Key(t)}
             gone == [there |-> FALSE, at |-> version]
             new == [t \in first |-> [s.states[t] EXCEPT !.pending = TRUE,
                                          !.changes = Without(@, Key(t))]]
             keys == {Key(t) : t \in first}
             deleted == [k \in keys |-> gone]
             states == new ++ s.states
             docs == deleted ++ s.docs
             u == Synthesized(s, version)
  <1>1. u = [s EXCEPT !.states = states, !.docs = docs]
    BY DEF Synthesized, Client
  <1>2. /\ first \subseteq missing
        /\ \A t \in missing : /\ t \in DOMAIN s.states /\ IsActive(s, t) /\ IsDocumentQuery(t)
                              /\ KeysOf(t) \cap (DOMAIN s.docs \cup RemoteKeys(s, t)) = {}
    OBVIOUS
  <1>3. \A t \in DOMAIN s.limbo :
           RemoteKeys(s, t) = (IF s.limbo[t] THEN {t.key} ELSE {})
           /\ KeysOf(t) = {t.key} /\ Key(t) = t.key /\ IsDocumentQuery(t)
    <2> SUFFICES ASSUME NEW t \in DOMAIN s.limbo
                 PROVE  RemoteKeys(s, t) = (IF s.limbo[t] THEN {t.key} ELSE {})
                        /\ KeysOf(t) = {t.key} /\ Key(t) = t.key /\ IsDocumentQuery(t)
      OBVIOUS
    <2>1. t \notin DOMAIN s.views /\ t \notin Query
      BY LimboAre, TargetsDiffer
    <2> QED  BY <2>1 DEF RemoteKeys, KeysOf, IsDocumentQuery
  <1>4. ASSUME NEW t \in missing PROVE Key(t) \in keys
    <2> HIDE DEF missing, Key
    <2> DEFINE y == CHOOSE x \in missing : Key(x) = Key(t)
    <2>1. y \in missing /\ Key(y) = Key(t)
      OBVIOUS
    <2>2. y = CHOOSE x \in missing : Key(x) = Key(y)
      BY <2>1
    <2> QED  BY <2>1, <2>2
  <1>5. ASSUME NEW t \in missing PROVE Key(t) \notin DOMAIN s.docs
    <2>1. t \in Target
      BY <1>2, StateOfIs
    <2>2. KeysOf(t) = {Key(t)}
      BY <1>2, <2>1, TheKey
    <2> HIDE DEF Key, missing
    <2> QED  BY <1>2, <2>2
  <1>6. ASSUME NEW t \in DOMAIN s.limbo
        PROVE  /\ Unseen(s, t) => t \in missing
               /\ t \in missing => ~s.limbo[t] /\ t.key \notin DOMAIN s.docs
    <2>1. StateOf(s, t).current => t \in DOMAIN s.states /\ StateOf(s, t) = s.states[t]
      BY StateOfIs
    <2> HIDE DEF Key
    <2>2. ASSUME Unseen(s, t) PROVE t \in missing
      BY <1>3, <2>1, <2>2 DEF Unseen
    <2> QED  BY <1>2, <1>3, <2>2
  <1> HIDE DEF first, missing
  <1>7. \A t \in DOMAIN new : t \in first /\ new[t] =
           [StateOf(s, t) EXCEPT !.pending = TRUE, !.changes = Without(@, Key(t))]
    <2>1. \A t \in first : StateOf(s, t) = s.states[t]
      BY <1>2, StateOfIs
    <2> HIDE DEF Key
    <2> QED  BY <2>1
  <1> HIDE DEF new
  <1>8. \A t : StateOf(s, t) \in TargetState
    BY StateOfIs
  <1>9. \A t \in DOMAIN new :
           /\ new[t].out = StateOf(s, t).out /\ new[t].current = StateOf(s, t).current
           /\ new[t].token = StateOf(s, t).token /\ new[t].pending
    <2> HIDE DEF Key
    <2> QED  BY <1>7, <1>8 DEF TargetState
  <1>10. /\ \A k \in DOMAIN docs :
              \/ k \in DOMAIN s.docs /\ k \notin keys /\ docs[k] = s.docs[k]
              \/ k \in keys /\ docs[k] = gone
         /\ \A k : k \in DOMAIN docs <=> k \in DOMAIN s.docs \/ k \in keys
    <2>1. deleted = [k \in keys |-> gone]
      OBVIOUS
    <2> HIDE DEF keys, deleted, gone
    <2> QED  BY <2>1 DEF ++
  <1>11. \A k \in DOMAIN s.docs : k \notin keys
    <2> HIDE DEF Key
    <2> QED  BY <1>2, <1>5
  <1> HIDE DEF states, docs, u
  <1>12. u.states = states /\ u.docs = docs
    BY <1>1 DEF Client
  <1>13. \A t : StateOf(u, t) = IF t \in DOMAIN new THEN new[t] ELSE StateOf(s, t)
    BY <1>12, StateOver DEF states
  <1>14. SameOut(s, u)
    BY <1>9, <1>13 DEF SameOut
  <1>15. ASSUME NEW t \in DOMAIN s.limbo PROVE Trims(s, u, t)
    <2>1. CASE t \notin DOMAIN new
      BY <1>13, <2>1 DEF Trims
    <2>2. CASE t \in DOMAIN new
      <3>1. t \in missing
        BY <1>2, <1>7, <2>2
      <3>2. StateOf(s, t).out = 0
        BY <1>2, <3>1 DEF IsActive
      <3>3. ~s.limbo[t] /\ t.key \notin DOMAIN s.docs
        BY <1>6, <3>1
      <3> QED  BY <1>9, <1>13, <2>2, <3>2, <3>3 DEF Trims
    <2> QED  BY <2>1, <2>2
  <1>16. ASSUME NEW t \in DOMAIN s.limbo, Unseen(s, t)
         PROVE  t.key \in DOMAIN docs /\ docs[t.key] = gone
    <2>1. t.key \in keys
      BY <1>3, <1>4, <1>6, <1>16
    <2> HIDE DEF keys, gone
    <2> QED  BY <1>10, <1>11, <2>1
  <1> HIDE DEF keys
  <1>17. Deduces(s, u, version)
    BY <1>10, <1>11, <1>12, <1>15, <1>16 DEF Deduces, GoneAt
  <1> QED  BY <1>14, <1>17 DEF u

\* Nothing is collected any more.
LEMMA ClearedOut ==
    ASSUME NEW s \in Client, NEW e, About(s, e)
    PROVE  LET u == Cleared(s, e)
           IN u.docs = None /\ SameOut(s, u) /\ Clears(s, u, e)
  <1> DEFINE D == DOMAIN e.targets
             new == [t \in D |-> [s.states[t] EXCEPT !.pending = FALSE, !.changes = None]]
             states == new ++ s.states
             u == Cleared(s, e)
  <1>1. u = [s EXCEPT !.docs = None, !.resets = {}, !.states = states]
    BY DEF Cleared, Client
  <1>2. D \subseteq DOMAIN s.states
    BY DEF About
  <1> HIDE DEF D
  <1>3. \A t \in DOMAIN new : new[t].out = StateOf(s, t).out
    <2>1. \A t \in D : s.states[t] \in TargetState /\ StateOf(s, t) = s.states[t]
      BY <1>2, StateOfIs
    <2> QED  BY <2>1 DEF TargetState
  <1>a. /\ \A t : t \in DOMAIN new <=> t \in DOMAIN e.targets
        /\ \A t \in DOMAIN new :
              new[t] = [StateOf(s, t) EXCEPT !.pending = FALSE, !.changes = None]
    <2>1. \A t \in D : StateOf(s, t) = s.states[t]
      BY <1>2, StateOfIs
    <2> QED  BY <2>1 DEF D
  <1> HIDE DEF states, u, new
  <1>4. u.states = states /\ u.docs = None
    BY <1>1 DEF Client
  <1>5. \A t : StateOf(u, t).out = StateOf(s, t).out
    BY <1>3, <1>4, OutOver DEF states
  <1>6. \A t : StateOf(u, t) = IF t \in DOMAIN new THEN new[t] ELSE StateOf(s, t)
    BY <1>4, StateOver DEF states
  <1>7. Clears(s, u, e)
    BY <1>a, <1>6 DEF Clears
  <1> QED  BY <1>4, <1>5, <1>7 DEF SameOut, u

\* From s to h the message m was heard, which left the connection as conn
Hears(s, h, m, conn) ==
    /\ h.conn = conn /\ h.stream = "Open"
    /\ h.targets = s.targets /\ h.limbo = s.limbo /\ h.nextLimbo = s.nextLimbo
    /\ Collects(s, h, m)

\* The event e is that of the pending states of the active targets in w
Events(w, e) ==
    /\ e.docs = w.docs
    /\ \A t : t \in DOMAIN e.targets <=>
             t \in DOMAIN w.states /\ IsActive(w, t) /\ StateOf(w, t).pending
    /\ \A t \in DOMAIN e.targets : e.targets[t] = StateOf(w, t)

\* From c to z the tokens of the event e are noted for the limbo targets
Notes(c, z, e) ==
    /\ \A t : t \in DOMAIN z.targets <=> t \in DOMAIN c.targets
    /\ \A t \in DOMAIN c.targets : t \notin Query =>
          z.targets[t] = IF t \in DOMAIN e.targets /\ e.targets[t].token # 0
                         THEN e.targets[t].token ELSE c.targets[t]

\* From h to u the limbo target t has passed a snapshot: the requests about it stay.
\* With answers outstanding everything does; if it has something pending and a
\* token, this is noted, and its state cleared.
Passed(h, u, t) ==
    LET a == StateOf(h, t)
        b == StateOf(u, t)
    IN /\ Asked(u.conn.requests, t) = Asked(h.conn.requests, t)
       /\ a.out # 0 =>
             b = a /\ u.targets[t] = h.targets[t] /\ u.limbo[t] = h.limbo[t]
       /\ a.out = 0 /\ a.pending /\ a.token # 0 =>
             /\ b.out = 0 /\ b.current = a.current /\ b.changes = None
             /\ u.targets[t] = a.token
             /\ t.key \in DOMAIN h.docs \/ h.limbo[t] =>
                   u.limbo[t] = Taught(a.changes, h.limbo[t])

\* From h to u, with the cache of d, the snapshot of version v is raised
Raises(h, u, d, v) ==
    /\ \A t \in DOMAIN u.limbo :
          \/ t \in DOMAIN h.limbo /\ Passed(h, u, t)
          \/ Appears(h, u, t)
    /\ \A k \in Doc : k \in DOMAIN h.docs =>
          d.cache[k] = IF Newer(h.docs[k], k) THEN h.docs[k] ELSE disk.cache[k]
    /\ \A t \in DOMAIN h.limbo : Unseen(h, t) =>
          d.cache[t.key] = IF Newer(GoneAt(v), t.key) THEN GoneAt(v) ELSE disk.cache[t.key]

\* From h to u what was collected is in the cache of d, if it was newer, or what was
\* deduced from it for the version v
Snapshot(h, u, d, v) ==
    /\ u.docs = None /\ u.conn.at = h.conn.at /\ u.conn.served = h.conn.served
    /\ u.stream = "Open" /\ (Counted(h) => Counted(u))
    /\ \A k \in Doc :
          \/ d.cache[k] = disk.cache[k]
          \/ k \in DOMAIN h.docs /\ d.cache[k] = h.docs[k] /\ Newer(h.docs[k], k)
          \/ LET gone == [there |-> FALSE, at |-> v]
             IN d.cache[k] = gone /\ Newer(gone, k)
    /\ d.last = v

\* What is collected comes to the cache with the snapshot v.
LEMMA SnapshotIs ==
    ASSUME NEW h, NEW w, NEW c, NEW z, NEW e, NEW v,
           SameRest(h, w), SameOut(h, w), Deduces(h, w, v),
           SameRest(w, c), SameOut(w, c), c.docs = None,
           Carries(c, z), Ensues(z, client', e), Caches(disk', e),
           e.docs = w.docs, e.version = v, v # 0, h.stream = "Open"
    PROVE  Snapshot(h, client', disk', v)
  <1> DEFINE gone == [there |-> FALSE, at |-> v]
  <1>1. /\ c.conn = h.conn /\ c.stream = "Open"
        /\ \A t : StateOf(c, t).out = StateOf(h, t).out
    BY DEF SameRest, SameOut
  <1>2. Counted(h) => Counted(c)
    BY <1>1 DEF Counted
  <1>3. Carries(z, client')
    BY DEF Ensues, Continues, Carries, SameNet, Counted, StateOf
  <1>4. /\ client'.docs = None /\ client'.conn.at = h.conn.at
        /\ client'.conn.served = h.conn.served /\ client'.stream = "Open"
        /\ Counted(h) => Counted(client')
    BY <1>1, <1>2, <1>3 DEF Carries
  <1>5. disk'.last = v
    BY DEF Caches
  <1>6. ASSUME NEW k \in Doc
        PROVE  \/ disk'.cache[k] = disk.cache[k]
               \/ k \in DOMAIN h.docs /\ disk'.cache[k] = h.docs[k] /\ Newer(h.docs[k], k)
               \/ disk'.cache[k] = gone /\ Newer(gone, k)
    <2> DEFINE x == w.docs[k]
    <2>1. \/ disk'.cache[k] = disk.cache[k]
          \/ k \in DOMAIN w.docs /\ disk'.cache[k] = x /\ Newer(x, k)
      BY DEF Caches
    <2>2. k \in DOMAIN w.docs => (k \in DOMAIN h.docs /\ x = h.docs[k]) \/ x = gone
      BY DEF Deduces, GoneAt
    <2> HIDE DEF gone, x
    <2> QED  BY <2>1, <2>2
  <1> QED  BY <1>4, <1>5, <1>6 DEF Snapshot

\* What the snapshot tells the limbo targets, and what it makes of their documents.
LEMMA RaisesIs ==
    ASSUME NEW h, Good(h), NEW w, NEW c, NEW z, NEW e, NEW v,
           SameRest(h, w), w \in Client, Deduces(h, w, v), Events(w, e),
           SameRest(w, c), Clears(w, c, e),
           Conveys(c, z, Query), SameEngine(c, z), Notes(c, z, e),
           Ensues(z, client', e), Good(client'), Caches(disk', e)
    PROVE  Raises(h, client', disk', v)
  <1> DEFINE u == client'
  <1>1. PICK x : SameNet(z, x) /\ Learns(z, x, e) /\ Continues(x, u)
    BY DEF Ensues
  <1>2. /\ h \in Client /\ Numbered(h, DOMAIN h.targets) /\ h.nextLimbo \in Nat
        /\ \A t \in DOMAIN h.limbo : t \in DOMAIN h.targets
    BY DEF Good, Sound, Steady, AllNumbered, Client, Wanted, WantedBut
  <1>3. \A t \in DOMAIN u.limbo : t \in DOMAIN u.targets
    BY DEF Good, Wanted, WantedBut
  <1>4. /\ z.limbo = h.limbo /\ z.nextLimbo = h.nextLimbo /\ c.targets = h.targets
        /\ w.targets = h.targets /\ c.conn = h.conn /\ w.limbo = h.limbo
    BY DEF SameRest, SameEngine
  <1>5. /\ x.nextLimbo = h.nextLimbo /\ (\A t : t \in DOMAIN x.limbo <=> t \in DOMAIN h.limbo)
        /\ \A t : t \in DOMAIN x.targets <=> t \in DOMAIN h.targets
    BY <1>1, <1>4 DEF Learns, SameNet, Notes
  <1>6. \A t \in DOMAIN h.targets : ~(t \in LimboTarget /\ t.n > h.nextLimbo)
    BY <1>2 DEF Numbered, LimboTarget
  <1> HIDE DEF u
  <1>7. ASSUME NEW t \in DOMAIN u.limbo
        PROVE  (t \in DOMAIN h.limbo /\ Passed(h, u, t)) \/ Appears(h, u, t)
    <2>1. CASE t \in DOMAIN x.limbo /\ u.limbo[t] = x.limbo[t]
      <3> DEFINE a == StateOf(h, t)
                 b == StateOf(w, t)
      <3>1. t \in DOMAIN h.limbo /\ t \in DOMAIN h.targets /\ t \notin Query
        BY <1>2, <1>5, <2>1, LimboAre, TargetsDiffer
      <3>2. Stays(x, u, t)
        BY <1>1, <1>3, <1>5, <1>6, <3>1 DEF Continues
      <3>3. /\ StateOf(u, t) = StateOf(c, t) /\ u.targets[t] = z.targets[t]
            /\ Asked(u.conn.requests, t) = Asked(h.conn.requests, t)
        <4>1. Unmoved(c, z, t)
          BY <3>1 DEF Conveys
        <4>2. /\ StateOf(x, t) = StateOf(z, t) /\ x.conn = z.conn /\ x.targets = z.targets
          BY <1>1 DEF SameNet, StateOf
        <4> QED  BY <1>4, <3>2, <4>1, <4>2 DEF Stays, Unmoved
      <3>4. Trims(h, w, t)
        BY <3>1 DEF Deduces
      <3>5. StateOf(c, t) = IF t \in DOMAIN e.targets
                            THEN [b EXCEPT !.pending = FALSE, !.changes = None] ELSE b
        BY DEF Clears
      <3>6. u.targets[t] = IF t \in DOMAIN e.targets /\ e.targets[t].token # 0
                           THEN e.targets[t].token ELSE h.targets[t]
        BY <1>4, <3>1, <3>3 DEF Notes
      <3>7. u.limbo[t] = IF t \in DOMAIN e.targets
                         THEN Taught(e.targets[t].changes, h.limbo[t]) ELSE h.limbo[t]
        BY <1>1, <1>4, <2>1, <3>1 DEF Learns, Learned
      <3>8. /\ t \in DOMAIN e.targets => b.out = 0 /\ e.targets[t] = b
            /\ b.out = 0 /\ b.pending => t \in DOMAIN e.targets
        <4>1. b.pending => t \in DOMAIN w.states
          BY DEF StateOf, Fresh
        <4> QED  BY <1>4, <3>1, <4>1 DEF Events, IsActive
      <3>9. b \in TargetState
        BY StateOfIs
      <3>10. /\ b.out = a.out /\ b.current = a.current /\ b.token = a.token
             /\ a.pending => b.pending
             /\ t.key \in DOMAIN h.docs \/ h.limbo[t] \/ a.out # 0 => b = a
        BY <3>4 DEF Trims
      <3> HIDE DEF a, b
      <3>11. t \in DOMAIN e.targets =>
                /\ StateOf(c, t).out = b.out /\ StateOf(c, t).current = b.current
                /\ StateOf(c, t).changes = None
        BY <3>5, <3>9 DEF TargetState
      <3>12. a.out # 0 => StateOf(u, t) = a /\ u.targets[t] = h.targets[t]
                          /\ u.limbo[t] = h.limbo[t]
        BY <3>3, <3>5, <3>6, <3>7, <3>8, <3>10
      <3>13. ASSUME a.out = 0, a.pending, a.token # 0
             PROVE  /\ StateOf(u, t).out = 0 /\ StateOf(u, t).current = a.current
                    /\ StateOf(u, t).changes = None /\ u.targets[t] = a.token
                    /\ t.key \in DOMAIN h.docs \/ h.limbo[t] =>
                          u.limbo[t] = Taught(a.changes, h.limbo[t])
        BY <3>3, <3>6, <3>7, <3>8, <3>10, <3>11, <3>13
      <3>14. Passed(h, u, t)
        BY <3>3, <3>12, <3>13 DEF Passed, a
      <3> QED  BY <3>1, <3>14
    <2>2. CASE t \in LimboTarget /\ t.n > x.nextLimbo /\ ~u.limbo[t]
      <3>1. Begins(u, t, 0)
        BY <1>1, <1>3, <1>5, <1>6, <2>2 DEF Continues
      <3> QED  BY <1>5, <2>2, <3>1 DEF Appears
    <2> QED  BY <1>1, <2>1, <2>2 DEF Continues
  <1>8. ASSUME NEW k \in Doc, k \in DOMAIN h.docs
        PROVE  disk'.cache[k] = IF Newer(h.docs[k], k) THEN h.docs[k] ELSE disk.cache[k]
    <2>1. k \in DOMAIN e.docs /\ e.docs[k] = h.docs[k]
      BY <1>8 DEF Deduces, Events
    <2> QED  BY <2>1 DEF Caches
  <1>9. ASSUME NEW t \in DOMAIN h.limbo, Unseen(h, t)
        PROVE  disk'.cache[t.key] = IF Newer(GoneAt(v), t.key) THEN GoneAt(v)
                                    ELSE disk.cache[t.key]
    <2>1. t.key \in DOMAIN e.docs /\ e.docs[t.key] = GoneAt(v)
      BY <1>9 DEF Deduces, Events
    <2>2. t.key \in Doc
      BY <1>2, LimboAre
    <2> QED  BY <2>1, <2>2 DEF Caches
  <1> QED  BY <1>7, <1>8, <1>9 DEF Raises, u

-----------------------------------------------------------------------------
(* Messages.                                                               *)

\* What depends only on the rest stays true when the aggregator's part changes.
LEMMA RestIs ==
    ASSUME NEW s, NEW u, SameRest(s, u)
    PROVE  /\ Wanted(s) => Wanted(u)
           /\ \A except : Tracked(s, except) => Tracked(u, except)
  BY DEF SameRest, Wanted, WantedBut, InLimbo, Tracked

\* A connection that holds requests about, and serves, targets that were given out
KnownConn(s, conn) ==
    /\ conn \in AnyConn
    /\ Numbered(s, {conn.requests[i].id : i \in DOMAIN conn.requests})
    /\ Numbered(s, DOMAIN conn.served)

\* A message came, so the client is online.
LEMMA BackOnline ==
    ASSUME NEW s, Good(s), s.stream = "Open", NEW conn, KnownConn(s, conn)
    PROVE  LET u == UpdateState([s EXCEPT !.conn = conn], "Online")
           IN /\ Sound(u) /\ Wanted(u) /\ u.conn = conn /\ u.stream = "Open"
              /\ u.states = s.states /\ u.views = s.views /\ u.limbo = s.limbo
              /\ u.targets = s.targets /\ u.nextLimbo = s.nextLimbo /\ u.mem = s.mem
              /\ u.docs = s.docs
              /\ \A except : Tracked(s, except) => Tracked(u, except)
  <1> DEFINE r == [s EXCEPT !.conn = conn]
             u == UpdateState(r, "Online")
  <1>1. /\ s \in Client /\ s.ok /\ Steady(s) /\ OnlineKnown(s) /\ IdleKnown(s)
        /\ AllNumbered(s) /\ ChangesKnown(s) /\ IsFiniteSet(DOMAIN s.targets)
    BY DEF Good, Sound, Steady
  <1>2. /\ r \in Client /\ r.ok /\ r.targets = s.targets /\ r.stream = s.stream
        /\ r.conn = conn /\ r.states = s.states /\ r.limbo = s.limbo
        /\ r.nextLimbo = s.nextLimbo /\ r.mem = s.mem /\ r.views = s.views
        /\ r.idle = s.idle /\ r.docs = s.docs
    BY <1>1 DEF Client, KnownConn
  <1> HIDE DEF r
  <1>3. AllNumbered(r)
    BY <1>1, <1>2 DEF AllNumbered, Numbered, RequestedIds, KnownConn
  <1>4. Steady(r) /\ IdleKnown(r)
    BY <1>1, <1>2, <1>3 DEF Steady, ChangesKnown, IdleKnown
  <1>5. /\ Sound(u) /\ u.views = r.views
        /\ u = [r EXCEPT !.timer = FALSE, !.failures = 0, !.online = "Online",
                         !.views = u.views]
    BY <1>4, UpdateStateIs DEF OnlineStates
  <1> HIDE DEF u
  <1>6. /\ u.conn = conn /\ u.stream = "Open" /\ u.views = s.views
        /\ u.states = s.states /\ u.limbo = s.limbo /\ u.mem = s.mem
        /\ u.targets = s.targets /\ u.nextLimbo = s.nextLimbo /\ u.docs = s.docs
    BY <1>2, <1>5 DEF Client
  <1>7. Wanted(u)
    BY <1>6 DEF Good, Wanted, WantedBut, InLimbo
  <1>8. \A except : Tracked(s, except) => Tracked(u, except)
    BY <1>6 DEF Tracked
  <1> QED  BY <1>5, <1>6, <1>7, <1>8 DEF u, r

\* What is served after the message m was, or is about to be, known
Serving(s, conn, m) ==
    \A t \in DOMAIN conn.served :
        \/ t \in DOMAIN s.states /\ (m.kind = "Removed" => t # m.id)
        \/ m.kind = "Added" /\ t = m.id

\* The message m was heard, and the connection left as conn; a snapshot may be raised
Takes(m, conn) ==
    \/ Hears(client, client', m, conn) /\ disk' = disk
    \/ /\ m.version # 0 /\ m.version >= disk.last
       /\ \E h : /\ Hears(client, h, m, conn) /\ Good(h)
                 /\ Snapshot(h, client', disk', m.version)
                 /\ Raises(h, client', disk', m.version)

\* A target reacts with its state, and what is known of its document.
LEMMA ReactsSame ==
    ASSUME NEW s, NEW v, NEW u, NEW m, v.states = s.states, v.targets = s.targets,
           v.views = s.views, v.limbo = s.limbo, Reacts(v, u, m)
    PROVE  Reacts(s, u, m)
  <1>1. \A t : StateOf(v, t) = StateOf(s, t)
    BY DEF StateOf
  <1>2. \A t : IsActive(v, t) <=> IsActive(s, t)
    BY <1>1 DEF IsActive
  <1>3. \A t : RemoteKeys(v, t) = RemoteKeys(s, t)
    BY DEF RemoteKeys
  <1>4. ASSUME NEW key, NEW there, NEW t
        PROVE  Redocumented(v, key, there, t) = Redocumented(s, key, there, t)
    <2>1. StateOf(v, t) = StateOf(s, t) /\ RemoteKeys(v, t) = RemoteKeys(s, t)
      BY <1>1, <1>3
    <2>2. ChangesWith(v, key, there, t) = ChangesWith(s, key, there, t)
      BY Zenon, <2>1 DEF ChangesWith
    <2> QED  BY Zenon, <2>1, <2>2 DEF Redocumented
  <1>5. \A t : Restarted(v, t) = Restarted(s, t)
    BY <1>3 DEF Restarted
  <1>6. ASSUME NEW t PROVE Acknowledged(v, t) = Acknowledged(s, t)
    <2>1. StateOf(v, t) = StateOf(s, t)
      BY <1>1
    <2> QED  BY Zenon, <2>1 DEF Acknowledged, Answered
  <1>7. ASSUME NEW t PROVE Reaction(v, m, t) = Reaction(s, m, t)
    BY <1>1, <1>2, <1>4, <1>5, <1>6 DEF Reaction
  <1> QED  BY <1>7 DEF Reacts

\* A message is handled: kept for the next snapshot, or raising one.
LEMMA OnWatchStreamChangeIs ==
    ASSUME Good(client), client.stream = "Open", disk \in AnyDisk, NEW m, NEW conn,
           KnownConn(client, conn), AnyMessage(client, m), Serving(client, conn, m),
           m.version \in Version, OnWatchStreamChange(m, conn)
    PROVE  /\ Good(client') /\ disk' \in AnyDisk
           /\ \A except : Tracked(client, except) => Tracked(client', except)
           /\ Takes(m, conn)
  <1> DEFINE s == UpdateState([client EXCEPT !.conn = conn], "Online")
             u == Aggregated(s, m)
             w == Synthesized(u, m.version)
             e == RemoteEvent(w, m.version)
             c == Cleared(w, e)
             z == Rewatched(c, e)
  <1>1. \/ client' = u /\ disk' = disk
        \/ m.version # 0 /\ m.version >= disk.last /\ ApplyRemoteEvent(z, e)
    BY Zenon DEF OnWatchStreamChange
  <1>2. /\ Sound(s) /\ Wanted(s) /\ s.conn = conn /\ s.stream = "Open"
        /\ s.states = client.states /\ s.nextLimbo = client.nextLimbo
        /\ s.docs = client.docs /\ s.targets = client.targets
        /\ s.views = client.views /\ s.limbo = client.limbo
        /\ \A except : Tracked(client, except) => Tracked(s, except)
    BY BackOnline
  <1> HIDE DEF s
  <1>3. AnyMessage(s, m)
    <2>1. \A t : KnownTarget(client, t) => KnownTarget(s, t)
      BY <1>2 DEF KnownTarget
    <2> QED  BY <1>2, <2>1 DEF AnyMessage, DocumentChange, ExistenceFilter, TargetChange
  <1>4. Heard(s, u, m) /\ Collects(s, u, m)
    BY <1>2, <1>3, AggregatedIs, AggregatedCollects
  <1> HIDE DEF u
  <1>5. Good(u) /\ SameRest(s, u)
    <2>1. Watched(u)
      <3> SUFFICES ASSUME NEW t \in DOMAIN conn.served PROVE t \in DOMAIN u.states
        BY <1>2, <1>4 DEF Watched, Heard, SameRest
      <3> QED  BY <1>2, <1>4 DEF Serving, Heard
    <2> QED  BY <1>2, <1>4, <2>1, RestIs DEF Good, Heard
  <1>6. \A except : Tracked(client, except) => Tracked(u, except)
    BY <1>2, <1>5, RestIs
  <1>7. Hears(client, u, m, conn)
    <2>1. \A t : StateOf(s, t) = StateOf(client, t) /\ (IsActive(s, t) <=> IsActive(client, t))
      BY <1>2 DEF StateOf, IsActive
    <2>2. \A k : Writes(s, m, k) <=> Writes(client, m, k)
      BY <2>1 DEF Writes
    <2>3. Reacts(client, u, m)
      <3>1. Reacts(s, u, m)
        BY <1>4 DEF Collects
      <3> QED  BY <1>2, <3>1, ReactsSame
    <2>4. Collects(client, u, m)
      BY <1>2, <1>4, <2>1, <2>2, <2>3 DEF Collects
    <2> QED  BY <1>2, <1>5, <2>4 DEF Hears, SameRest
  <1>8. CASE client' = u /\ disk' = disk
    BY <1>5, <1>6, <1>8, <1>7 DEF Takes
  <1>9. CASE m.version # 0 /\ m.version >= disk.last /\ ApplyRemoteEvent(z, e)
    <2>1. /\ Sound(w) /\ SameRest(u, w)
          /\ \A t : t \in DOMAIN w.states <=> t \in DOMAIN u.states
      BY <1>5, SynthesizedIs DEF Good
    <2>2. SameOut(u, w) /\ Deduces(u, w, m.version)
      <3>1. u \in Client
        BY <1>5 DEF Good, Sound, Steady
      <3> QED  BY <3>1, SynthesizedOut
    <2> HIDE DEF w
    <2>3. KnownEvent(w, e) /\ About(w, e) /\ e.version = m.version
      BY <2>1, RemoteEventIs
    <2>4. Events(w, e)
      <3> DEFINE D == {x \in DOMAIN w.states : IsActive(w, x) /\ w.states[x].pending}
      <3>1. e.docs = w.docs /\ e.targets = [t \in D |-> w.states[t]]
        BY DEF RemoteEvent
      <3>2. \A t \in DOMAIN w.states : StateOf(w, t) = w.states[t]
        BY DEF StateOf
      <3> HIDE DEF e
      <3>3. /\ \A t : t \in DOMAIN e.targets <=> t \in D
            /\ \A t \in D : e.targets[t] = w.states[t]
        BY <3>1
      <3> QED  BY <3>1, <3>2, <3>3 DEF Events
    <2> HIDE DEF e
    <2>5. /\ Sound(c) /\ SameRest(w, c) /\ Settled(c, e)
          /\ \A t : t \in DOMAIN c.states <=> t \in DOMAIN w.states
      BY <2>1, <2>3, ClearedIs
    <2>6. c.docs = None /\ SameOut(w, c) /\ Clears(w, c, e)
      BY <2>1, <2>3, ClearedOut DEF Sound, Steady
    <2> HIDE DEF c
    <2>7. SameRest(u, c) /\ About(c, e) /\ KnownEvent(c, e) /\ c.stream = "Open"
          /\ (\A t : t \in DOMAIN c.states <=> t \in DOMAIN u.states)
      BY <1>2, <1>5, <2>1, <2>3, <2>5
         DEF SameRest, About, KnownEvent, KnownTarget, FineState
    <2>8. Good(c) /\ \A except : Tracked(u, except) => Tracked(c, except)
      <3>1. Watched(c)
        BY <1>5, <2>7 DEF Good, Watched, SameRest
      <3> QED  BY <1>5, <2>5, <2>7, <3>1, RestIs DEF Good
    <2>9. /\ Sound(z) /\ SameEngine(c, z) /\ z.views = c.views /\ Settled(z, e)
          /\ Watched(c) => Watched(z)
          /\ Conveys(c, z, Query) /\ Notes(c, z, e)
      BY <2>5, <2>7, RewatchedIs DEF Notes
    <2> HIDE DEF z
    <2>10. Good(z) /\ KnownEvent(z, e) /\ \A except : Tracked(c, except) => Tracked(z, except)
      <3>1. Wanted(z)
        BY <2>8, <2>9 DEF Good, Wanted, WantedBut, InLimbo, SameEngine, Notes
      <3>2. KnownEvent(z, e)
        BY <2>7, <2>9 DEF SameEngine, KnownEvent, KnownTarget, FineState
      <3>3. \A except : Tracked(c, except) => Tracked(z, except)
        BY <2>9 DEF Tracked, SameEngine
      <3> QED  BY <2>8, <2>9, <3>1, <3>2, <3>3 DEF Good
    <2>11. /\ Good(client') /\ disk' \in AnyDisk
           /\ \A except : Tracked(z, except) => Tracked(client', except)
           /\ Ensues(z, client', e) /\ Caches(disk', e)
      BY <1>9, <2>3, <2>9, <2>10, ApplyRemoteEventIs
    <2>12. Snapshot(u, client', disk', m.version)
      <3>1. m.version # 0 /\ u.stream = "Open"
        BY <1>9, <1>7 DEF Hears
      <3>2. /\ SameRest(u, w) /\ SameOut(u, w) /\ Deduces(u, w, m.version)
            /\ SameRest(w, c) /\ SameOut(w, c) /\ c.docs = None
        BY <2>1, <2>2, <2>5, <2>6
      <3>3. /\ Carries(c, z) /\ Ensues(z, client', e) /\ Caches(disk', e)
            /\ e.docs = w.docs /\ e.version = m.version
        BY <2>3, <2>4, <2>9, <2>11 DEF Conveys, Events
      <3> QED  BY Zenon, <3>1, <3>2, <3>3, SnapshotIs
    <2>14. Raises(u, client', disk', m.version)
      <3>1. w \in Client
        BY <2>1 DEF Sound, Steady
      <3> QED  BY <1>5, <2>1, <2>2, <2>4, <2>5, <2>6, <2>9, <2>11, <3>1, RaisesIs
    <2>13. Takes(m, conn)
      BY <1>5, <1>9, <1>7, <2>12, <2>14 DEF Takes
    <2> QED  BY <1>6, <2>8, <2>10, <2>11, <2>13
  <1> QED  BY <1>1, <1>8, <1>9

\* A view that is not current has the document of the refused target in limbo
Refuses(t) ==
    /\ t \in DOMAIN client.limbo
    /\ \E q \in DOMAIN client.views :
          ~client.views[q].current /\ t.key \in client.views[q].limbo

\* Of the cache, t's document is given up at most, if t is a target of limbo resolution
Uncaches(t) ==
    /\ disk'.last = disk.last
    /\ \A k \in Doc :
          \/ disk'.cache[k] = disk.cache[k]
          \/ t \notin Query /\ k = t.key /\ disk'.cache[k] = Unknown

\* The target t is forgotten, and the connection left as conn
Forgets(t, conn) ==
    /\ client'.docs = client.docs /\ client'.stream = "Open"
    /\ client'.conn.at = conn.at /\ client'.conn.served = conn.served
    /\ t \notin DOMAIN client'.targets
    /\ \A x \in DOMAIN client.targets :
          x \in DOMAIN client'.targets => StateOf(client', x).out = StateOf(client, x).out
    /\ (Counted(client) /\ conn.requests = client.conn.requests /\ StateOf(client, t).out = 0)
          => Counted(client')
    /\ conn.requests = client.conn.requests => Resumes(client, client')
    /\ Uncaches(t)

\* From s on, a state that it continues forgets t.
LEMMA ForgetsIs ==
    ASSUME NEW t, NEW conn, NEW s, Continues(s, client'), Good(client'),
           s.docs = client.docs, s.conn = conn, s.stream = "Open",
           t \notin DOMAIN s.targets, t \in LimboTarget => t.n <= s.nextLimbo,
           Numbered(s, DOMAIN client.targets), s.nextLimbo \in Nat,
           s.nextLimbo = client.nextLimbo,
           \A x : StateOf(s, x) = IF x = t THEN Fresh ELSE StateOf(client, x),
           \A x \in DOMAIN s.targets :
              x \in DOMAIN client.targets /\ s.targets[x] = client.targets[x],
           \A x \in DOMAIN s.limbo :
              /\ x \in DOMAIN client.limbo /\ s.limbo[x] = client.limbo[x]
              /\ x \in DOMAIN s.targets,
           Uncaches(t)
    PROVE  Forgets(t, conn)
  <1>1. /\ client'.docs = client.docs /\ client'.stream = "Open"
        /\ client'.conn.at = conn.at /\ client'.conn.served = conn.served
    BY DEF Continues, Carries
  <1>2. t \notin DOMAIN client'.targets
    <2>1. ~(t \in LimboTarget /\ t.n > s.nextLimbo)
      BY DEF LimboTarget
    <2> QED  BY <2>1 DEF Continues
  <1>3. ASSUME NEW x \in DOMAIN client.targets, x \in DOMAIN client'.targets
        PROVE  StateOf(client', x).out = StateOf(client, x).out
    <2>1. ~(x \in LimboTarget /\ x.n > s.nextLimbo)
      BY <1>3 DEF Numbered, LimboTarget
    <2>2. StateOf(client', x) = StateOf(s, x) /\ x # t
      BY <1>2, <1>3, <2>1 DEF Continues, Stays, Unmoved
    <2> QED  BY <2>2
  <1>4. ASSUME Counted(client), conn.requests = client.conn.requests,
               StateOf(client, t).out = 0
        PROVE  Counted(client')
    <2>1. \A x : StateOf(s, x).out = StateOf(client, x).out
      BY <1>4 DEF Fresh
    <2>2. Counted(s)
      BY <1>4, <2>1 DEF Counted
    <2> QED  BY <2>2 DEF Continues, Carries
  <1>5. ASSUME conn.requests = client.conn.requests PROVE Resumes(client, client')
    <2>1. Resumes(s, client')
      <3>1. Numbered(s, DOMAIN s.targets)
        BY DEF Numbered
      <3>2. \A x \in DOMAIN client'.limbo : x \in DOMAIN client'.targets
        BY DEF Good, Wanted, WantedBut
      <3> QED  BY <3>1, <3>2, ContinuesResumes
    <2>2. ASSUME NEW x, x \in DOMAIN s.limbo, Stays(s, client', x)
          PROVE  Stays(client, client', x)
      <3>1. x # t
        BY <2>2
      <3> QED  BY <1>5, <2>2, <3>1 DEF Stays, Unmoved
    <2>3. ASSUME NEW x, Appears(s, client', x) PROVE Appears(client, client', x)
      BY <2>3 DEF Appears
    <2> QED  BY <2>1, <2>2, <2>3 DEF Resumes
  <1> QED  BY <1>1, <1>2, <1>3, <1>4, <1>5 DEF Forgets

\* A target is refused: the target is forgotten, and its query or document given up.
LEMMA ProcessTargetErrorIs ==
    ASSUME Good(client), client.stream = "Open", disk \in AnyDisk, NEW t \in Target, NEW conn,
           KnownConn(client, conn),
           \A x \in DOMAIN conn.served : x # t /\ x \in DOMAIN client.states,
           ProcessTargetError(t, conn)
    PROVE  /\ Good(client') /\ disk' \in AnyDisk
           /\ ~Refuses(t) => \A except : Tracked(client, except) => Tracked(client', except)
           /\ Forgets(t, conn)
  <1> DEFINE s == UpdateState([client EXCEPT !.conn = conn], "Online")
             targets == Without(s.targets, t)
             states == Without(s.states, t)
             r == [s EXCEPT !.targets = targets, !.states = states]
             limbo == Without(r.limbo, t)
             v == [r EXCEPT !.limbo = limbo]
             docs == Only(t.key, Unknown)
             e == [version |-> 0, targets |-> None, mismatches |-> {}, docs |-> docs]
  <1>1. /\ Sound(s) /\ Wanted(s) /\ s.conn = conn /\ s.stream = "Open"
        /\ s.states = client.states /\ s.views = client.views /\ s.limbo = client.limbo
        /\ s.targets = client.targets /\ s.nextLimbo = client.nextLimbo /\ s.mem = client.mem
        /\ s.docs = client.docs
        /\ \A except : Tracked(client, except) => Tracked(s, except)
    BY BackOnline
  <1>2. \/ t \notin DOMAIN s.targets /\ client' = s /\ disk' = disk
        \/ t \in DOMAIN s.targets /\ t \in DOMAIN r.limbo /\ ApplyRemoteEvent(v, e)
        \/ /\ t \in DOMAIN s.targets /\ t \notin DOMAIN r.limbo
           /\ client' = RemoveQuery(r, t) /\ disk' = Released(t)
    <2>1. [s EXCEPT !.targets = Without(@, t), !.states = Without(@, t)] = r
      BY <1>1 DEF Sound, Steady, Client
    <2>2. [r EXCEPT !.limbo = Without(@, t)] = v
      OBVIOUS
    <2>3. \/ t \notin DOMAIN s.targets /\ client' = s /\ disk' = disk
          \/ /\ t \in DOMAIN s.targets
             /\ HandleRejectedListen([s EXCEPT !.targets = Without(@, t),
                                               !.states = Without(@, t)], t)
      BY Zenon DEF ProcessTargetError
    <2>4. HandleRejectedListen(r, t) =>
             \/ t \in DOMAIN r.limbo /\ ApplyRemoteEvent([r EXCEPT !.limbo = Without(@, t)], e)
             \/ t \notin DOMAIN r.limbo /\ client' = RemoveQuery(r, t) /\ disk' = Released(t)
      <3> HIDE DEF r, limbo
      <3> QED  BY Zenon DEF HandleRejectedListen
    <2> HIDE DEF r, v, s, e
    <2> QED  BY <2>1, <2>2, <2>3, <2>4
  <1>3. client \in Client
    BY DEF Good, Sound, Steady
  <1> HIDE DEF s
  <1>4. /\ s \in Client /\ s.ok /\ Steady(s) /\ OnlineKnown(s) /\ IdleKnown(s)
        /\ AllNumbered(s) /\ ChangesKnown(s) /\ IsFiniteSet(DOMAIN s.targets)
        /\ FineStates(s, s.states)
    BY <1>1, OwnStates DEF Sound, Steady
  <1>5. CASE t \notin DOMAIN s.targets /\ client' = s /\ disk' = disk
    <2>1. Watched(s)
      BY <1>1 DEF Watched
    <2>2. \A x : StateOf(s, x).out = StateOf(client, x).out
      BY <1>1 DEF StateOf
    <2>3. Counted(client) /\ conn.requests = client.conn.requests => Counted(s)
      BY <1>1, <2>2 DEF Counted
    <2>4. Forgets(t, conn)
      <3>1. Uncaches(t)
        BY <1>5 DEF Uncaches
      <3>2. /\ client'.docs = client.docs /\ client'.stream = "Open"
            /\ client'.conn.at = conn.at /\ client'.conn.served = conn.served
            /\ t \notin DOMAIN client'.targets
        BY <1>1, <1>5
      <3>3. \A x : StateOf(client', x).out = StateOf(client, x).out
        BY <1>5, <2>2
      <3>4. Counted(client) /\ conn.requests = client.conn.requests => Counted(client')
        BY <1>5, <2>3
      <3>5. conn.requests = client.conn.requests => Resumes(client, s)
        <4>1. \A x : StateOf(s, x) = StateOf(client, x)
          BY <1>1 DEF StateOf
        <4> QED  BY <1>1, <4>1 DEF Resumes, Stays, Unmoved
      <3> QED  BY <1>5, <3>1, <3>2, <3>3, <3>4, <3>5 DEF Forgets
    <2> QED  BY <1>1, <1>5, <2>1, <2>4 DEF Good
  <1>6. CASE t \in DOMAIN s.targets
    <2>1. /\ targets \in Partial(Target, Version) /\ DOMAIN targets = DOMAIN s.targets \ {t}
          /\ IsFiniteSet(DOMAIN targets) /\ \A x \in DOMAIN targets : targets[x] = s.targets[x]
      <3>1. s.targets \in Partial(Target, Version)
        BY <1>4 DEF Client
      <3>2. DOMAIN s.targets \ {t} \subseteq DOMAIN s.targets
        OBVIOUS
      <3>3. /\ targets \in Partial(Target, Version) /\ DOMAIN targets = DOMAIN s.targets \ {t}
            /\ \A x \in DOMAIN targets : targets[x] = s.targets[x]
        BY <3>1, <3>2, RestrictIs DEF Without
      <3> QED  BY <1>4, <3>3, FS_Subset
    <2>2. /\ FineStates(s, states) /\ states \in Partial(Target, TargetState)
          /\ \A x : x \in DOMAIN states <=> x # t /\ x \in DOMAIN s.states
      <3>1. FineStates(s, states)
        BY <1>4, StatesWithout
      <3>2. \A x : x \in DOMAIN states <=> x # t /\ x \in DOMAIN s.states
        BY DEF Without, Restrict
      <3> QED  BY <3>1, <3>2 DEF FineStates
    <2>3. \A x \in DOMAIN states : states[x] = s.states[x]
      BY DEF Without, Restrict
    <2> HIDE DEF targets, states
    <2>4. /\ r \in Client /\ r.ok /\ r.targets = targets /\ r.stream = s.stream
          /\ r.conn = s.conn /\ r.states = states /\ r.limbo = s.limbo
          /\ r.nextLimbo = s.nextLimbo /\ r.mem = s.mem /\ r.views = s.views
          /\ r.idle = s.idle /\ r.timer = s.timer /\ r.online = s.online
          /\ r.failures = s.failures /\ r.docs = s.docs
      BY <1>4, <2>1, <2>2 DEF Client
    <2> HIDE DEF r
    <2>5. \A x : StateOf(r, x) = IF x = t THEN Fresh ELSE StateOf(client, x)
      BY <1>1, <2>2, <2>3, <2>4 DEF StateOf
    <2>6. /\ t \notin DOMAIN r.targets /\ r.docs = client.docs /\ r.conn = conn
          /\ r.stream = "Open" /\ r.nextLimbo \in Nat /\ r.nextLimbo = client.nextLimbo
          /\ \A x \in DOMAIN r.targets :
                x \in DOMAIN client.targets /\ r.targets[x] = client.targets[x]
          /\ \A x \in DOMAIN r.limbo : x # t => x \in DOMAIN r.targets
      BY <1>1, <2>1, <2>4 DEF Client, Wanted, WantedBut
    <2>7. Numbered(r, DOMAIN client.targets)
      BY <1>1, <1>4, <2>4 DEF AllNumbered, Numbered
    <2>8. t \in LimboTarget => t.n <= r.nextLimbo
      BY <1>1, <1>6, <2>7 DEF Numbered
    <2>9. ~s.idle
      <3>1. s.targets # None
        BY <1>6, NoneIs
      <3> QED  BY <1>4, <3>1 DEF IdleKnown
    <2>10. AllNumbered(r)
      BY <1>4, <2>1, <2>2, <2>4 DEF AllNumbered, Numbered, RequestedIds, FineStates, KnownTarget
    <2>11. ChangesKnown(r)
      BY <2>2, <2>4 DEF ChangesKnown, FineStates, FineState
    <2>12. Sound(r)
      BY <1>4, <2>1, <2>4, <2>9, <2>10, <2>11 DEF Sound, Steady, OnlineKnown, IdleKnown, Started
    <2>13. Watched(r)
      BY <1>1, <2>2, <2>4 DEF Watched
    <2>14. CASE t \in DOMAIN r.limbo /\ ApplyRemoteEvent(v, e)
      <3>1. /\ r.limbo \in Partial(LimboTarget, BOOLEAN) /\ t.key \in Doc
            /\ \A x \in DOMAIN r.limbo : x \notin DOMAIN r.views
        BY <2>4, <2>14, LimboAre
      <3>2. /\ limbo \in Partial(LimboTarget, BOOLEAN) /\ DOMAIN limbo = DOMAIN r.limbo \ {t}
            /\ \A x \in DOMAIN limbo : limbo[x] = r.limbo[x]
        <4>1. DOMAIN r.limbo \ {t} \subseteq DOMAIN r.limbo
          OBVIOUS
        <4> QED  BY <3>1, <4>1, RestrictIs DEF Without
      <3> HIDE DEF limbo
      <3>3. Relimboed(r, v, limbo, r.nextLimbo)
        BY <2>4 DEF Relimboed, Client
      <3> HIDE DEF v
      <3>4. Sound(v) /\ SameEnd(r, v) /\ v.limbo = limbo /\ v.nextLimbo = r.nextLimbo
        <4>1. r.nextLimbo \in Nat /\ r.nextLimbo <= r.nextLimbo
          BY <2>4 DEF Client
        <4>2. \A x \in DOMAIN limbo : x \in DOMAIN r.states =>
                 x \in DOMAIN r.limbo /\ limbo[x] = r.limbo[x]
          BY <3>2
        <4> QED  BY <2>12, <3>2, <3>3, <4>1, <4>2, NewLimbo
      <3>5. Good(v)
        <4>1. Wanted(v)
          <5>1. \A x : x \in DOMAIN v.targets <=> x \in DOMAIN v.views \/ x \in DOMAIN v.limbo
            BY <1>1, <2>1, <2>4, <2>14, <3>1, <3>2, <3>4 DEF SameEnd, Wanted, WantedBut
          <5> QED  BY <1>1, <2>4, <3>2, <3>4, <5>1 DEF SameEnd, Wanted, WantedBut, InLimbo
        <4>2. Watched(v)
          BY <2>13, <3>4 DEF Watched, SameEnd
        <4> QED  BY <3>4, <4>1, <4>2 DEF Good
      <3>6. /\ docs \in Partial(Doc, DocState) /\ t.key \in DOMAIN docs /\ docs[t.key] = Unknown
            /\ \A k \in DOMAIN docs : k = t.key
        <4>1. Unknown \in DocState
          BY DEF Unknown, DocState
        <4>2. docs \in Partial(Doc, DocState)
          BY <3>1, <4>1, OnlyIs
        <4>3. /\ t.key \in DOMAIN docs /\ docs[t.key] = Unknown
              /\ \A k \in DOMAIN docs : k = t.key
          BY DEF Only
        <4> QED  BY <4>2, <4>3
      <3> HIDE DEF docs
      <3>7. /\ KnownEvent(v, e) /\ Settled(v, e) /\ e.version = 0 /\ e.targets = None
            /\ e.docs = docs
        <4>1. 0 \in Version /\ None \in Partial(Target, TargetState) /\ DOMAIN None = {}
          BY TargetsAssumption, NoneIs DEF Version
        <4>2. e \in AnyEvent
          BY <3>6, <4>1 DEF AnyEvent
        <4> QED  BY <4>1, <4>2 DEF KnownEvent, Settled
      <3> HIDE DEF e
      <3>8. /\ Good(client') /\ disk' \in AnyDisk /\ Deletes(v, client', e)
            /\ \A except : Tracked(v, except) => Tracked(client', except)
            /\ Continues(v, client') /\ Caches(disk', e)
        BY <2>14, <3>5, <3>7, ApplyRemoteEventIs, EnsuesNothing
      <3>9. ASSUME ~Refuses(t), NEW except, Tracked(client, except)
            PROVE  Tracked(client', except)
        <4>1. GivenUp(v, t.key)
          BY <1>1, <2>4, <2>14, <3>4, <3>9 DEF Refuses, GivenUp, SameEnd
        <4>2. ~InLimbo(client', t.key)
          BY <3>6, <3>7, <3>8, <4>1 DEF Deletes
        <4>3. Tracked(v, except \cup {t.key})
          <5> SUFFICES ASSUME NEW q \in DOMAIN s.views, NEW k \in s.views[q].limbo,
                              k \notin except, k # t.key
                       PROVE  \E x \in DOMAIN limbo : x.key = k
            BY <2>4, <3>4 DEF Tracked, SameEnd
          <5>1. PICK x \in DOMAIN s.limbo : x.key = k
            BY <1>1, <3>9 DEF Tracked
          <5> QED  BY <2>4, <3>2, <5>1
        <4>4. Tracked(client', except \cup {t.key})
          BY <3>8, <4>3
        <4> QED  BY <4>2, <4>4 DEF Tracked, InLimbo
      <3>10. Forgets(t, conn)
        <4>1. t \notin Query
          BY <2>4, <2>14, LimboAre, TargetsDiffer
        <4>2. Uncaches(t)
          <5>1. disk'.last = disk.last
            BY <3>7, <3>8 DEF Caches
          <5>2. ASSUME NEW k \in Doc
                PROVE  \/ disk'.cache[k] = disk.cache[k]
                       \/ k = t.key /\ disk'.cache[k] = Unknown
            <6>1. \/ disk'.cache[k] = disk.cache[k]
                  \/ k \in DOMAIN e.docs /\ disk'.cache[k] = e.docs[k]
              BY <3>8 DEF Caches
            <6> QED  BY <3>6, <3>7, <6>1
          <5> QED  BY <4>1, <5>1, <5>2 DEF Uncaches
        <4>3. /\ v.docs = client.docs /\ v.conn = conn /\ v.stream = "Open"
              /\ t \notin DOMAIN v.targets /\ (t \in LimboTarget => t.n <= v.nextLimbo)
              /\ Numbered(v, DOMAIN client.targets) /\ v.nextLimbo \in Nat
              /\ v.nextLimbo = client.nextLimbo
          BY <2>6, <2>7, <2>8, <3>4 DEF SameEnd, Numbered
        <4>4. \A x : StateOf(v, x) = IF x = t THEN Fresh ELSE StateOf(client, x)
          <5>1. \A x : StateOf(v, x) = StateOf(r, x)
            BY <3>4 DEF SameEnd, StateOf
          <5> QED  BY <2>5, <5>1
        <4>5. /\ \A x \in DOMAIN v.targets :
                    x \in DOMAIN client.targets /\ v.targets[x] = client.targets[x]
              /\ \A x \in DOMAIN v.limbo :
                    /\ x \in DOMAIN client.limbo /\ v.limbo[x] = client.limbo[x]
                    /\ x \in DOMAIN v.targets
          BY <1>1, <2>4, <2>6, <3>2, <3>4 DEF SameEnd
        <4> QED  BY <3>8, <4>2, <4>3, <4>4, <4>5, ForgetsIs
      <3> QED  BY <3>8, <3>9, <3>10
    <2>15. CASE t \notin DOMAIN r.limbo /\ client' = RemoveQuery(r, t) /\ disk' = Released(t)
      <3>1. t \in DOMAIN s.views /\ t \in DOMAIN s.mem
        BY <1>1, <1>6, <2>4, <2>15 DEF Wanted, WantedBut
      <3>2. t \in DOMAIN r.views /\ t \notin DOMAIN r.targets
        BY <2>1, <2>4, <3>1
      <3>3. \A x : x \in DOMAIN r.targets <=>
               (x # t /\ x \in DOMAIN r.views) \/ x \in DOMAIN r.limbo
        BY <1>1, <2>1, <2>4, <2>15 DEF Wanted, WantedBut
      <3>4. /\ \A p : p \in DOMAIN r.mem <=> p \in DOMAIN r.views
            /\ \A x \in DOMAIN r.limbo : InLimbo(r, x.key)
            /\ \A x, y \in DOMAIN r.limbo : x.key = y.key => x = y
        BY <1>1, <2>4 DEF Wanted, WantedBut, InLimbo
      <3> DEFINE u == RemoveQuery(r, t)
      <3>5. /\ Good(u) /\ Continues(r, u)
            /\ \A except : Tracked(r, except) => Tracked(u, except)
        BY <2>12, <2>13, <3>2, <3>3, <3>4, RemoveQueryIs
      <3> HIDE DEF u
      <3>6. \A except : Tracked(s, except) => Tracked(r, except)
        BY <2>4 DEF Tracked
      <3>7. /\ Released(t) \in AnyDisk
            /\ Released(t).cache = disk.cache /\ Released(t).last = disk.last
        BY <1>1, <1>3, <3>1, ReleasedIs
      <3>8. Forgets(t, conn)
        <4>1. Continues(r, client')
          BY <2>15, <3>5 DEF u
        <4>2. Uncaches(t)
          <5>1. disk'.last = disk.last /\ disk'.cache = disk.cache
            BY <2>15, <3>7
          <5> QED  BY <5>1 DEF Uncaches
        <4>3. Good(client')
          BY <2>15, <3>5 DEF u
        <4>4. \A x \in DOMAIN r.limbo : /\ x \in DOMAIN client.limbo /\ r.limbo[x] = client.limbo[x]
                                       /\ x \in DOMAIN r.targets
          BY <1>1, <2>4, <2>6, <2>15
        <4> QED  BY <2>5, <2>6, <2>7, <2>8, <4>1, <4>2, <4>3, <4>4, ForgetsIs
      <3> QED  BY <1>1, <2>15, <3>5, <3>6, <3>7, <3>8 DEF u
    <2> QED  BY <1>2, <1>6, <2>14, <2>15
  <1> QED  BY <1>2, <1>5, <1>6

-----------------------------------------------------------------------------
(* What is collected is told truly.                                        *)

\* What CacheNeverGoesBack says of a step
CacheStays ==
    \A d \in Doc :
        \/ disk'.cache[d].at >= disk.cache[d].at
        \/ /\ disk'.cache[d] = Unknown
           /\ \/ ~disk.cache[d].there \/ disk.cache[d] # At(d, Len(log))
              \/ "overtaken" \in raced

\* The cache is not written
Uncached == disk'.cache = disk.cache /\ disk'.last = disk.last

\* What a step has to keep, besides IInv
CacheKept == CacheInv => CacheInv' /\ CacheStays

\* A limbo target that stays.
LEMMA FollowStays ==
    ASSUME NEW l, NEW s, NEW d, NEW t, Follow(l, s, d, t), NEW m, NEW u, NEW e,
           Stays(s, u, t), u.limbo[t] = s.limbo[t], u.stream = "Open" <=> s.stream = "Open",
           t \in DOMAIN u.conn.served <=> t \in DOMAIN s.conn.served,
           t \in DOMAIN s.conn.served => u.conn.served[t] = s.conn.served[t],
           t.key \in DOMAIN s.docs => t.key \in DOMAIN u.docs,
           There(m, t.key, u.conn.at) = There(l, t.key, s.conn.at),
           Len(l) \in Nat, Len(m) \in Nat, Len(l) <= Len(m),
           \A v \in 0 .. Len(l) : There(m, t.key, v) = There(l, t.key, v),
           d.cache[t.key].there \/ ~e.cache[t.key].there
    PROVE  Follow(m, u, e, t)
  <1>1. /\ StateOf(u, t) = StateOf(s, t) /\ u.targets[t] = s.targets[t]
        /\ Asked(u.conn.requests, t) = Asked(s.conn.requests, t)
        /\ Hearing(u, t) <=> Hearing(s, t)
        /\ Has(u, t) <=> Has(s, t)
    BY DEF Stays, Unmoved, Hearing, Has
  <1>2. ASSUME NEW token, Tells(l, s, t, token) PROVE Tells(m, u, t, token)
    <2>1. token \in 0 .. Len(l) /\ token \in 0 .. Len(m)
      BY <1>2 DEF Tells
    <2>2. There(m, t.key, token) = There(l, t.key, token)
      BY <2>1
    <2> QED  BY <1>2, <2>1, <2>2 DEF Tells
  <1>3. Knows(m, u, t) /\ Gathers(u, t) /\ Misses(m, u, e, t)
    BY <1>1 DEF Follow, Knows, Gathers, Misses, Hearing
  <1>4. Resumable(m, u, t) /\ Present(u, t)
    BY <1>1, <1>2 DEF Follow, Resumable, Present
  <1>5. Resolves(u, e, t)
    BY <1>1 DEF Follow, Resolves, Hearing
  <1> QED  BY <1>3, <1>4, <1>5 DEF Follow

\* A limbo target that appears.
LEMMA FollowAppears ==
    ASSUME NEW l, Len(l) \in Nat, NEW s, NEW u, NEW d, NEW t, Appears(s, u, t),
           t \notin DOMAIN u.conn.served
    PROVE  Follow(l, u, d, t)
  <1>1. /\ ~u.limbo[t] /\ u.targets[t] = 0 /\ StateOf(u, t).changes = None
        /\ \A x \in Asked(u.conn.requests, t) : x.watch /\ x.token = 0
        /\ u.stream = "Open" => Asked(u.conn.requests, t) # {}
    BY DEF Appears, Begins, WatchOf
  <1>2. ~There(l, t.key, 0)
    BY LastInIs DEF There
  <1>3. Tells(l, u, t, 0)
    BY <1>1, <1>2 DEF Tells
  <1>4. Resumable(l, u, t) /\ Present(u, t) /\ Gathers(u, t)
    BY <1>1, <1>3, NoneIs DEF Resumable, Present, Gathers
  <1> QED  BY <1>4 DEF Follow, Knows, Misses, Resolves, Hearing

\* Limbo targets that stay or appear.
LEMMA LimboResumes ==
    ASSUME NEW l, Len(l) \in Nat, NEW s, NEW u, NEW d, NEW e, LimboInv(l, s, d),
           Resumes(s, u), Numbered(s, DOMAIN s.conn.served), s.nextLimbo \in Nat,
           u.docs = s.docs, u.conn.at = s.conn.at, u.stream = "Open" <=> s.stream = "Open",
           \A t \in DOMAIN u.conn.served :
              t \in DOMAIN s.conn.served /\ u.conn.served[t] = s.conn.served[t],
           \A t \in DOMAIN s.conn.served : t \in DOMAIN u.limbo => t \in DOMAIN u.conn.served,
           \A t \in DOMAIN u.limbo : d.cache[t.key].there \/ ~e.cache[t.key].there
    PROVE  LimboInv(l, u, e)
  <1> SUFFICES ASSUME NEW t \in DOMAIN u.limbo PROVE Follow(l, u, e, t)
    BY DEF LimboInv
  <1>1. CASE t \in DOMAIN s.limbo /\ Stays(s, u, t) /\ u.limbo[t] = s.limbo[t]
    <2>1. Follow(l, s, d, t)
      BY <1>1 DEF LimboInv
    <2> QED  BY <1>1, <2>1, FollowStays
  <1>2. CASE Appears(s, u, t)
    <2>1. t \notin DOMAIN u.conn.served
      BY <1>2 DEF Appears, Numbered, LimboTarget
    <2> QED  BY <1>2, <2>1, FollowAppears
  <1> QED  BY <1>1, <1>2 DEF Resumes

\* Limbo targets of which nothing is heard, with the stream closed.
LEMMA LimboSilent ==
    ASSUME NEW l, NEW s, NEW u, NEW d, NEW e, LimboInv(l, s, d), Silent(u),
           \A t \in DOMAIN u.limbo : /\ t \in DOMAIN s.limbo /\ u.limbo[t] = s.limbo[t]
                                     /\ u.targets[t] = s.targets[t]
    PROVE  LimboInv(l, u, e)
  <1> SUFFICES ASSUME NEW t \in DOMAIN u.limbo PROVE Follow(l, u, e, t)
    BY DEF LimboInv
  <1>1. /\ DOMAIN Disconnected.served = {} /\ DOMAIN Disconnected.requests = {}
        /\ Disconnected.requests \in Seq(AnyRequest)
    BY DisconnectedIs, NoneIs, EmptySeq
  <1>2. /\ u.stream # "Open" /\ StateOf(u, t).changes = None /\ u.conn = Disconnected
    BY NoneIs DEF Silent, StateOf, Fresh
  <1>3. Asked(u.conn.requests, t) = {}
    BY <1>1, <1>2 DEF Asked, Range
  <1>4. Tells(l, u, t, u.targets[t])
    BY DEF LimboInv, Follow, Resumable, Tells
  <1>5. Resumable(l, u, t) /\ Present(u, t) /\ Gathers(u, t)
    BY <1>2, <1>3, <1>4, NoneIs DEF Resumable, Present, Gathers
  <1> QED  BY <1>1, <1>2, <1>5 DEF Follow, Knows, Misses, Resolves, Hearing

\* A cache that is not written stays dated, and does not go back.
LEMMA UncachedIs ==
    ASSUME disk \in AnyDisk, Uncached
    PROVE  (\A l : Dated(l, disk) => Dated(l, disk')) /\ CacheStays
  <1>1. \A d \in Doc : disk.cache[d].at \in Nat
    BY DEF AnyDisk, DocState
  <1>2. \A d \in Doc : disk'.cache[d].at >= disk.cache[d].at
    BY <1>1 DEF Uncached
  <1> QED  BY <1>2 DEF Uncached, Dated, CacheStays

\* With the stream closed nothing is collected, served or outstanding.
LEMMA NothingHeard ==
    ASSUME NEW s, Silent(s), NEW l
    PROVE  Streamed(l, s) /\ Counted(s) /\ Vouched(l, s)
  <1>1. /\ DOMAIN Disconnected.served = {} /\ DOMAIN Disconnected.requests = {}
        /\ DOMAIN None = {} /\ Disconnected.requests \in Seq(AnyRequest)
    BY DisconnectedIs, NoneIs, EmptySeq
  <1>2. s.stream # "Open" /\ s.docs = None /\ s.states = None /\ s.conn = Disconnected
    BY DEF Silent
  <1>3. Streamed(l, s) /\ Vouched(l, s)
    BY <1>1, <1>2 DEF Streamed, OwesRightly, Vouched
  <1>4. ASSUME NEW t PROVE StateOf(s, t).out = Mentions(s.conn.requests, t)
    <2>1. StateOf(s, t).out = 0
      BY <1>1, <1>2 DEF StateOf, Fresh
    <2>2. Mentions(s.conn.requests, t) = 0
      BY <1>1, <1>2, MentionsAre
    <2> QED  BY <2>1, <2>2
  <1> QED  BY <1>3, <1>4 DEF Counted

\* A step that closes the stream, or keeps it closed.
LEMMA SilentIs ==
    ASSUME disk \in AnyDisk, Uncached, Silent(client'), UNCHANGED log, raced \subseteq raced',
           \A t \in DOMAIN client'.limbo :
              /\ t \in DOMAIN client.limbo /\ client'.limbo[t] = client.limbo[t]
              /\ client'.targets[t] = client.targets[t]
    PROVE  CacheKept
  <1> DEFINE s == client'
  <1>1. Silent(s)
    OBVIOUS
  <1> HIDE DEF s
  <1>2. Streamed(log', s) /\ Counted(s) /\ Vouched(log', s)
    BY <1>1, NothingHeard
  <1>3. LimboInv(log, client, disk) => LimboInv(log', s, disk')
    BY LimboSilent DEF s
  <1> QED  BY <1>2, <1>3, UncachedIs DEF CacheInv, CacheKept, Heeded, s

\* From s to u what is collected and served stays; targets that stay have as many
\* answers outstanding
Retains(s, u) ==
    /\ Carries(s, u)
    /\ \A t \in DOMAIN s.targets : t \in DOMAIN u.targets => StateOf(u, t).out = StateOf(s, t).out

\* None of what is collected is about a target that is given up
NothingDropped ==
    \A t \in DOMAIN client.targets : t \notin DOMAIN client'.targets =>
        KeysOf(t) \cap DOMAIN client.docs = {}

\* A step of the client that does not touch the stream.
LEMMA RetainsIs ==
    ASSUME IInv, Uncached, Retains(client, client'), UNCHANGED log,
           raced \subseteq raced', "overtaken" \notin raced' => NothingDropped,
           Resumes(client, client')
    PROVE  CacheKept
  <1> SUFFICES ASSUME CacheInv PROVE CacheInv' /\ CacheStays
    BY DEF CacheKept
  <1>1. CacheStays /\ Dated(log, disk')
    BY UncachedIs DEF CacheInv, IInv
  <1> DEFINE s == client
             u == client'
  <1>2. /\ u.docs = s.docs /\ u.conn.at = s.conn.at /\ u.conn.served = s.conn.served
        /\ (u.stream = "Open" <=> s.stream = "Open") /\ (Counted(s) => Counted(u))
        /\ Streamed(log, s) /\ log' = log
        /\ \A t \in DOMAIN s.targets :
              t \in DOMAIN u.targets => StateOf(u, t).out = StateOf(s, t).out
    BY DEF Retains, Carries, CacheInv
  <1>3. ASSUME "overtaken" \notin raced' PROVE Counted(u) /\ Vouched(log, u)
    <2>1. Counted(s) /\ Vouched(log, s)
      BY <1>3 DEF CacheInv
    <2>2. \A t \in DOMAIN s.targets : t \notin DOMAIN u.targets =>
             KeysOf(t) \cap DOMAIN s.docs = {}
      BY <1>3 DEF NothingDropped
    <2> HIDE DEF s, u
    <2>3. ASSUME NEW k \in DOMAIN u.docs PROVE \E t : Vouches(log, u, t, k)
      <3>1. PICK t : Vouches(log, s, t, k)
        BY <1>2, <2>1, <2>3 DEF Vouched
      <3>2. t \in DOMAIN s.targets /\ k \in KeysOf(t) /\ StateOf(s, t).out = 0
        BY <3>1 DEF Vouches, Honest, IsActive
      <3>3. t \in DOMAIN u.targets
        BY <1>2, <2>2, <2>3, <3>2
      <3>4. IsActive(u, t)
        BY <1>2, <3>2, <3>3 DEF IsActive
      <3>5. Vouches(log, u, t, k)
        BY <1>2, <3>1, <3>4 DEF Vouches, Honest, Says
      <3> QED  BY <3>5
    <2> QED  BY <1>2, <2>1, <2>3 DEF Vouched
  <1>4. Len(log) \in Nat /\ Numbered(s, DOMAIN s.conn.served) /\ s.nextLimbo \in Nat
    BY TargetsAssumption DEF IInv, Version, Good, Sound, Steady, AllNumbered, Client
  <1>5. Resumes(s, u) /\ disk'.cache = disk.cache
    BY DEF Uncached
  <1>6. Heeded(raced') => LimboInv(log, s, disk)
    BY DEF CacheInv, Heeded
  <1> HIDE DEF s, u
  <1>7. Heeded(raced') => LimboInv(log, u, disk')
    BY <1>2, <1>4, <1>5, <1>6, LimboResumes
  <1>8. Streamed(log, u)
    BY <1>2 DEF Streamed, OwesRightly
  <1> QED  BY <1>1, <1>2, <1>3, <1>7, <1>8 DEF CacheInv, u

\* What continues a state retains it: the numbers of new targets are new.
LEMMA ContinuesIs ==
    ASSUME NEW s, Sound(s), NEW u, Continues(s, u)
    PROVE  Retains(s, u)
  <1>1. Numbered(s, DOMAIN s.targets) /\ s.nextLimbo \in Nat
    BY DEF Sound, Steady, AllNumbered, Client
  <1>2. ASSUME NEW t \in DOMAIN s.targets, t \in DOMAIN u.targets
        PROVE  StateOf(u, t).out = StateOf(s, t).out
    <2>1. ~(t \in LimboTarget /\ t.n > s.nextLimbo)
      BY <1>1 DEF Numbered, LimboTarget
    <2> QED  BY <1>2, <2>1 DEF Continues, Stays, Unmoved
  <1> QED  BY <1>2 DEF Retains, Continues

\* A step after a step retains what both do, if targets do not come back.
LEMMA RetainsOn ==
    ASSUME NEW s, NEW v, NEW u, Retains(s, v), Retains(v, u),
           \A t \in DOMAIN s.targets : t \in DOMAIN u.targets => t \in DOMAIN v.targets
    PROVE  Retains(s, u)
  BY DEF Retains, Carries

\* A step that does not touch what is listened to, collected or served.
LEMMA StillIs ==
    ASSUME IInv, UNCHANGED <<disk, log, raced>>, client'.targets = client.targets,
           client'.states = client.states, client'.docs = client.docs,
           client'.limbo = client.limbo,
           client'.conn = client.conn, client'.stream = "Open" <=> client.stream = "Open"
    PROVE  CacheKept
  <1> DEFINE s == client
             u == client'
  <1>1. Conveys(s, u, {})
    BY ConveysSame
  <1>2. Retains(s, u)
    BY <1>1 DEF Conveys, Retains, Unmoved
  <1>3. NothingDropped /\ Uncached
    BY DEF NothingDropped, Uncached
  <1>4. Resumes(s, u)
    BY <1>1 DEF Conveys, Resumes, Stays
  <1> QED  BY <1>2, <1>3, <1>4, RetainsIs

\* The message m leaves the connection as conn, with the changes l as far as it has come:
\* requests are answered one by one, and no document is newer than the connection
Timely(l, m, conn) ==
    /\ conn.at \in 1 .. Len(l) /\ client.conn.at <= conn.at /\ OwesRightly(conn)
    /\ conn.requests \in Seq(AnyRequest) /\ client.conn.requests \in Seq(AnyRequest)
    /\ \A t : Mentions(conn.requests, t) = Mentions(client.conn.requests, t) - AnswersOf(m, t)
    /\ \A k : Writes(client, m, k) => Written(m).at <= conn.at /\ True(l, k, Written(m))

\* What is said of a document has an active target that vouches for it, and so has what
\* was said before
Truthful(l, m, conn) ==
    /\ \A k : Writes(client, m, k) =>
          \E t : IsActive(client, t) /\ Honest(l, conn, t, k, Written(m))
    /\ \A k \in DOMAIN client.docs : \A t :
          Vouches(l, client, t, k) /\ ~Writes(client, m, k) =>
             Honest(l, conn, t, k, client.docs[k])

\* What is heard is collected truly.
LEMMA HearsIs ==
    ASSUME NEW m, NEW conn, NEW h, Hears(client, h, m, conn), client.conn.at \in Version,
           \A k \in DOMAIN client.docs : client.docs[k].at \in Nat,
           Streamed(log, client), Timely(log, m, conn)
    PROVE  /\ Streamed(log, h) /\ (Counted(client) => Counted(h))
           /\ (Counted(client) /\ Vouched(log, client) /\ Truthful(log, m, conn))
                 => Vouched(log, h)
  <1> DEFINE s == client
  <1>1. /\ h.conn = conn /\ h.stream = "Open"
        /\ \A t : t \in DOMAIN h.targets <=> t \in DOMAIN s.targets
        /\ \A t : StateOf(h, t).out = StateOf(s, t).out - AnswersOf(m, t)
        /\ \A k \in DOMAIN h.docs :
              IF Writes(s, m, k) THEN h.docs[k] = Written(m)
              ELSE k \in DOMAIN s.docs /\ h.docs[k] = s.docs[k]
    BY Zenon DEF Hears, Collects
  <1>2. s.conn.at \in Nat /\ conn.at \in Nat
    BY TargetsAssumption DEF Version, Timely
  <1>3. Streamed(log, h)
    <2>1. ASSUME NEW k \in DOMAIN h.docs
          PROVE  h.docs[k].at <= conn.at /\ True(log, k, h.docs[k])
      <3>1. CASE Writes(s, m, k)
        BY <1>1, <3>1 DEF Timely
      <3>2. CASE ~Writes(s, m, k)
        <4>1. k \in DOMAIN s.docs /\ h.docs[k] = s.docs[k]
          BY <1>1, <3>2
        <4>2. /\ s.docs[k].at <= s.conn.at /\ s.conn.at <= conn.at /\ s.docs[k].at \in Nat
              /\ True(log, k, s.docs[k])
          BY <4>1 DEF Timely, Streamed
        <4> QED  BY <1>2, <4>1, <4>2
      <3> QED  BY <3>1, <3>2
    <2> QED  BY <1>1, <2>1 DEF Streamed, Timely
  <1>4. Counted(s) => Counted(h)
    BY <1>1 DEF Timely, Counted
  <1>5. ASSUME Counted(s), NEW t, IsActive(s, t) PROVE IsActive(h, t)
    <2>1. Mentions(s.conn.requests, t) = 0 /\ StateOf(s, t).out = 0 /\ t \in DOMAIN s.targets
      BY <1>5 DEF Counted, IsActive
    <2>2. Mentions(conn.requests, t) \in Nat
      BY MentionsAre DEF Timely
    <2>3. AnswersOf(m, t) \in {0, 1}
      BY DEF AnswersOf
    <2>4. Mentions(conn.requests, t) = 0 - AnswersOf(m, t)
      BY <2>1 DEF Timely
    <2>5. AnswersOf(m, t) = 0
      BY <2>2, <2>3, <2>4
    <2> QED  BY <1>1, <2>1, <2>5 DEF IsActive
  <1>6. ASSUME Counted(s), Vouched(log, s), Truthful(log, m, conn),
               NEW k \in DOMAIN h.docs
        PROVE  \E t : Vouches(log, h, t, k)
    <2>1. PICK t : IsActive(s, t) /\ Honest(log, conn, t, k, h.docs[k])
      <3>1. CASE Writes(s, m, k)
        BY <1>1, <1>6, <3>1 DEF Truthful
      <3>2. CASE ~Writes(s, m, k)
        <4>1. k \in DOMAIN s.docs /\ h.docs[k] = s.docs[k]
          BY <1>1, <1>6, <3>2
        <4>2. PICK t : Vouches(log, s, t, k)
          BY <1>6, <4>1 DEF Vouched
        <4> QED  BY <1>6, <3>2, <4>1, <4>2 DEF Truthful, Vouches
      <3> QED  BY <3>1, <3>2
    <2>2. IsActive(h, t)
      BY <1>5, <1>6, <2>1
    <2> QED  BY <1>1, <2>1, <2>2 DEF Vouches
  <1> QED  BY <1>3, <1>4, <1>6 DEF Vouched

\* A snapshot for the version v comes of what was collected in h, when all targets are
\* current: the cache does not go back.
LEMMA SnapshotStays ==
    ASSUME disk \in AnyDisk, NEW h, NEW v \in 1 .. Len(log), Snapshot(h, client', disk', v),
           log \in Seq([doc: Doc, there: BOOLEAN]), v >= disk.last, Dated(log, disk),
           Streamed(log, h), h.conn.at = v, \A k \in DOMAIN h.docs : h.docs[k].at \in Nat,
           \A t \in DOMAIN h.conn.served : h.conn.served[t].current,
           "overtaken" \notin raced => Vouched(log, h)
    PROVE  Dated(log, disk') /\ CacheStays
  <1>1. ASSUME NEW k \in Doc
        PROVE  /\ disk'.cache[k].at <= disk'.last /\ True(log, k, disk'.cache[k])
               /\ \/ disk'.cache[k].at >= disk.cache[k].at
                  \/ /\ disk'.cache[k] = Unknown
                     /\ \/ ~disk.cache[k].there \/ disk.cache[k] # At(k, Len(log))
                        \/ "overtaken" \in raced
    <2>1. /\ disk'.last = v /\ disk.last \in Nat /\ v \in Nat /\ Len(log) \in Nat
          /\ disk.cache[k].at \in Nat /\ disk.cache[k].at <= disk.last
          /\ True(log, k, disk.cache[k])
      BY TargetsAssumption DEF Snapshot, AnyDisk, DocState, Dated, Version
    <2>2. CASE disk'.cache[k] = disk.cache[k]
      BY <2>1, <2>2
    <2>3. CASE k \in DOMAIN h.docs /\ disk'.cache[k] = h.docs[k] /\ Newer(h.docs[k], k)
      <3>1. h.docs[k].at <= v /\ h.docs[k].at \in Nat /\ True(log, k, h.docs[k])
        BY <2>3 DEF Streamed
      <3>2. CASE h.docs[k] # Unknown
        BY <2>1, <2>3, <3>1, <3>2 DEF Newer
      <3>3. CASE h.docs[k] = Unknown /\ "overtaken" \notin raced
        <4>1. PICK t : Vouches(log, h, t, k)
          BY <2>3, <3>3 DEF Vouched
        <4>2. ~There(log, k, v)
          BY <3>3, <4>1 DEF Vouches, Honest, Says, Unknown, Streamed, OwesRightly
        <4>3. ASSUME disk.cache[k].there, disk.cache[k] = At(k, Len(log)) PROVE FALSE
          <5>1. There(log, k, Len(log)) /\ LastIn(log, k, Len(log)) = disk.cache[k].at
            BY <4>3, AtIn
          <5>2. v <= Len(log) /\ LastIn(log, k, Len(log)) <= v
            BY <2>1, <5>1
          <5>3. There(log, k, v) = There(log, k, Len(log))
            BY <2>1, <5>2, Unchanged
          <5> QED  BY <4>2, <5>1, <5>3
        <4> QED  BY <2>1, <2>3, <3>1, <3>3, <4>3
      <3> QED  BY <2>1, <2>3, <3>1, <3>2, <3>3
    <2>4. CASE LET gone == [there |-> FALSE, at |-> v]
               IN disk'.cache[k] = gone /\ Newer(gone, k)
      <3>1. disk'.cache[k].at = v /\ True(log, k, disk'.cache[k])
        BY <2>4 DEF True
      <3> QED  BY <2>1, <3>1
    <2> QED  BY <2>2, <2>3, <2>4 DEF Snapshot
  <1>2. disk'.last <= Len(log)
    BY DEF Snapshot
  <1> QED  BY <1>1, <1>2 DEF Dated, CacheStays

\* A limbo target whose document is there, and not owed, learns of it.
LEMMA TaughtIs ==
    ASSUME NEW h, Good(h), NEW l, NEW t \in DOMAIN h.limbo, Gathers(h, t), Has(h, t)
    PROVE  /\ Taught(StateOf(h, t).changes, h.limbo[t])
           /\ t.key \in DOMAIN h.docs \/ h.limbo[t]
  <1> DEFINE changes == StateOf(h, t).changes
  <1>1. h \in Client /\ h.limbo[t] \in BOOLEAN /\ (Bad(changes) => h.limbo[t])
    <2>1. h \in Client /\ ChangesKnown(h)
      BY DEF Good, Sound, Steady
    <2>2. t \notin DOMAIN h.states => changes = None
      BY <2>1, StateOfIs
    <2>3. t \in DOMAIN h.states => changes = h.states[t].changes
      BY <2>1, StateOfIs
    <2> HIDE DEF changes
    <2> QED  BY <2>1, <2>2, <2>3, LimboAre, NoneIsGood DEF ChangesKnown
  <1>2. changes \in Partial(Doc, Type)
    BY <1>1, StateOfIs DEF TargetState
  <1>3. \A k \in DOMAIN changes : k = t.key /\ changes[k] \in Type
    BY <1>2, PartialIs DEF Gathers
  <1>4. t.key \in DOMAIN changes => changes[t.key] # "Removed" /\ t.key \in DOMAIN h.docs
    BY DEF Gathers, Has
  <1>5. t.key \notin DOMAIN changes => h.limbo[t]
    BY DEF Has
  <1> HIDE DEF changes
  <1>6. CASE t.key \in DOMAIN changes /\ changes[t.key] = "Added"
    <2>1. "Added" \in Range(changes) /\ "Removed" \notin Range(changes)
      BY <1>3, <1>6 DEF Range
    <2> QED  BY <1>4, <1>6, <2>1 DEF Taught, changes
  <1>7. CASE t.key \in DOMAIN changes /\ changes[t.key] = "Modified"
    <2>1. "Removed" \notin Range(changes) /\ h.limbo[t]
      BY <1>1, <1>3, <1>7 DEF Range, Bad
    <2> QED  BY <2>1 DEF Taught, changes
  <1>8. CASE t.key \notin DOMAIN changes
    <2>1. "Removed" \notin Range(changes) /\ h.limbo[t]
      BY <1>3, <1>5, <1>8 DEF Range
    <2> QED  BY <2>1 DEF Taught, changes
  <1> QED  BY <1>3, <1>4, <1>6, <1>7, <1>8 DEF Type

\* A document that is gone, and that no target is owed, is not in the cache after the
\* snapshot: it was collected, or deduced to be deleted.
LEMMA MissesAfter ==
    ASSUME disk \in AnyDisk, NEW h, Good(h), NEW v \in 1 .. Len(log), v >= disk.last,
           log \in Seq([doc: Doc, there: BOOLEAN]), Snapshot(h, client', disk', v),
           Raises(h, client', disk', v), Dated(log, disk), Streamed(log, h), Vouched(log, h),
           h.conn.at = v, \A x \in DOMAIN h.conn.served : h.conn.served[x].current,
           \A k \in DOMAIN h.docs : h.docs[k].at \in Nat,
           NEW t \in DOMAIN h.limbo, Hearing(h, t), StateOf(h, t).current,
           Misses(log, h, disk, t), ~There(log, t.key, v)
    PROVE  ~disk'.cache[t.key].there
  <1> DEFINE k == t.key
             old == disk.cache[k]
  <1>1. h \in Client /\ t \in DOMAIN h.targets /\ k \in Doc /\ h.limbo[t] \in BOOLEAN
    BY LimboAre DEF Good, Sound, Steady, Wanted, WantedBut
  <1>2. /\ old.at \in Nat /\ disk.last \in Nat /\ v \in Nat /\ old.at <= disk.last
        /\ (old.there => There(log, k, old.at)) /\ Len(log) \in Nat
    BY <1>1, TargetsAssumption DEF AnyDisk, DocState, Dated, True, Version
  <1> HIDE DEF old, k
  <1>3. ASSUME LastIn(log, k, v) <= old.at PROVE ~old.there
    <2>1. old.at <= v
      BY <1>2
    <2>2. There(log, k, old.at) = There(log, k, v)
      BY <1>2, <1>3, <2>1, Unchanged
    <2> QED  BY <1>2, <2>2 DEF k
  <1>4. CASE k \in DOMAIN h.docs
    <2> DEFINE doc == h.docs[k]
    <2>1. PICK x : Vouches(log, h, x, k)
      BY <1>4 DEF Vouched
    <2>2. Says(log, h.conn, k, doc)
      BY <2>1 DEF Vouches, Honest, Streamed, OwesRightly
    <2>3. ~doc.there /\ (doc = Unknown \/ doc.at = LastIn(log, k, v))
      BY <2>2 DEF Says, k
    <2>4. disk'.cache[k] = IF Newer(doc, k) THEN doc ELSE old
      BY <1>1, <1>4 DEF Raises, old
    <2>5. LastIn(log, k, v) \in Nat
      BY <1>2, LastInIs
    <2> HIDE DEF doc
    <2>6. ~Newer(doc, k) => LastIn(log, k, v) <= old.at
      BY <1>2, <2>3, <2>5 DEF Newer, old
    <2> QED  BY <1>3, <2>3, <2>4, <2>6 DEF k
  <1>5. CASE k \notin DOMAIN h.docs /\ h.limbo[t]
    <2>1. ~old.there
      BY <1>5 DEF Misses, Hearing, Streamed, OwesRightly, k, old
    <2>2. disk'.cache[k] = old \/ disk'.cache[k] = GoneAt(v)
      BY <1>1, <1>5 DEF Snapshot, GoneAt, old
    <2> QED  BY <2>1, <2>2 DEF GoneAt, k
  <1>6. CASE k \notin DOMAIN h.docs /\ ~h.limbo[t]
    <2>1. Unseen(h, t)
      BY <1>1, <1>6 DEF Unseen, IsActive, Hearing, k
    <2>2. disk'.cache[k] = IF Newer(GoneAt(v), k) THEN GoneAt(v) ELSE old
      BY <2>1 DEF Raises, k, old
    <2>3. GoneAt(v).at = v /\ ~GoneAt(v).there /\ LastIn(log, k, v) <= v
          /\ LastIn(log, k, v) \in Nat
      BY <1>2, LastInIs DEF GoneAt
    <2>4. ~Newer(GoneAt(v), k) => LastIn(log, k, v) <= old.at
      BY <1>2, <2>3 DEF Newer, old
    <2> QED  BY <1>3, <2>2, <2>3, <2>4 DEF k
  <1> QED  BY <1>1, <1>4, <1>5, <1>6

\* The limbo targets after a snapshot for the version v, which all have heard of.
LEMMA SnapshotFollows ==
    ASSUME disk \in AnyDisk, NEW h, Good(h), NEW v \in 1 .. Len(log), v >= disk.last,
           log \in Seq([doc: Doc, there: BOOLEAN]), Snapshot(h, client', disk', v),
           Raises(h, client', disk', v), Dated(log, disk), Streamed(log, h), Counted(h),
           Vouched(log, h), LimboInv(log, h, disk), h.stream = "Open",
           h.conn.at = v, \A x \in DOMAIN h.conn.served : h.conn.served[x].current,
           \A k \in DOMAIN h.docs : h.docs[k].at \in Nat,
           \A t \in DOMAIN h.limbo : Hearing(h, t) /\ StateOf(h, t).current =>
              StateOf(h, t).pending /\ StateOf(h, t).token = v
    PROVE  LimboInv(log, client', disk')
  <1> DEFINE u == client'
  <1> SUFFICES ASSUME NEW t \in DOMAIN u.limbo PROVE Follow(log, u, disk', t)
    BY DEF LimboInv
  <1>1. /\ u.docs = None /\ u.conn.at = v /\ u.conn.served = h.conn.served
        /\ u.stream = "Open" /\ DOMAIN None = {} /\ Len(log) \in Nat
    <2>1. DOMAIN None = {}
      BY DEF None
    <2>2. Len(log) \in Nat
      OBVIOUS
    <2> QED  BY <2>1, <2>2 DEF Snapshot
  <1>2. (t \in DOMAIN h.limbo /\ Passed(h, u, t)) \/ Appears(h, u, t)
    BY DEF Raises
  <1>3. /\ h \in Client /\ Numbered(h, DOMAIN h.conn.served) /\ h.nextLimbo \in Nat
        /\ h.conn.requests \in Seq(AnyRequest)
    BY DEF Good, Sound, Steady, AllNumbered, Client, AnyConn
  <1> HIDE DEF u
  <1>4. CASE Appears(h, u, t)
    <2>1. t \notin DOMAIN u.conn.served
      BY <1>1, <1>3, <1>4 DEF Appears, Numbered, LimboTarget
    <2> QED  BY <1>1, <1>4, <2>1, FollowAppears
  <1>5. CASE t \in DOMAIN h.limbo /\ Passed(h, u, t) /\ StateOf(h, t).out # 0
    <2>1. Follow(log, h, disk, t)
      BY <1>5 DEF LimboInv
    <2>2. /\ StateOf(u, t) = StateOf(h, t) /\ u.targets[t] = h.targets[t]
          /\ u.limbo[t] = h.limbo[t] /\ Asked(u.conn.requests, t) = Asked(h.conn.requests, t)
      BY <1>5 DEF Passed
    <2>3. Resumable(log, u, t) /\ Present(u, t)
      BY <1>1, <2>1, <2>2 DEF Follow, Resumable, Present, Tells
    <2>4. Gathers(u, t)
      BY <1>1, <1>5, <2>1, <2>2 DEF Follow, Gathers
    <2> QED  BY <1>5, <2>2, <2>3, <2>4 DEF Follow, Knows, Misses, Resolves, Hearing
  <1>6. CASE t \in DOMAIN h.limbo /\ Passed(h, u, t) /\ StateOf(h, t).out = 0
    <2>1. Follow(log, h, disk, t)
      BY <1>6 DEF LimboInv
    <2>2. Asked(h.conn.requests, t) = {}
      BY <1>3, <1>6, AskedNone DEF Counted
    <2>3. Hearing(h, t) /\ h.conn.served[t].current /\ t.key \notin h.conn.served[t].owed
      BY <1>6, <2>1, <2>2 DEF Follow, Present, Hearing, Streamed, OwesRightly
    <2>4. /\ StateOf(h, t).current /\ StateOf(h, t).pending /\ StateOf(h, t).token = v
          /\ v # 0
      BY <1>6, <2>1, <2>3 DEF Follow, Resolves
    <2>5. /\ StateOf(u, t).current /\ StateOf(u, t).changes = None /\ u.targets[t] = v
          /\ Asked(u.conn.requests, t) = {}
          /\ t.key \in DOMAIN h.docs \/ h.limbo[t] =>
                u.limbo[t] = Taught(StateOf(h, t).changes, h.limbo[t])
      BY <1>6, <2>2, <2>4 DEF Passed
    <2>6. There(log, t.key, v) => u.limbo[t]
      <3> SUFFICES ASSUME There(log, t.key, v) PROVE u.limbo[t]
        OBVIOUS
      <3>1. Has(h, t) /\ Gathers(h, t)
        BY <2>1, <2>3 DEF Follow, Knows
      <3> QED  BY <1>6, <2>5, <3>1, TaughtIs
    <2>7. ~There(log, t.key, v) => ~disk'.cache[t.key].there
      BY <1>6, <2>1, <2>3, <2>4, MissesAfter DEF Follow
    <2>8. Knows(log, u, t) /\ Gathers(u, t) /\ Misses(log, u, disk', t)
      BY <1>1, <2>5, <2>6, <2>7 DEF Knows, Has, Gathers, Misses
    <2>9. Resumable(log, u, t)
      BY <2>5, <2>6 DEF Resumable, Tells
    <2>10. Resolves(u, disk', t) /\ Present(u, t)
      BY <1>1, <2>3, <2>5, <2>6, <2>7 DEF Resolves, Present, Hearing
    <2> QED  BY <2>8, <2>9, <2>10 DEF Follow
  <1> QED  BY <1>2, <1>4, <1>5, <1>6

-----------------------------------------------------------------------------
(* The invariant, and the client's own steps.                              *)

\* What a step leaves of the client and the disk
Kept ==
    /\ Good(client') /\ disk' \in AnyDisk
    /\ \A except : Tracked(client, except) => Tracked(client', except)

\* Fewer documents need to be resolved when more are excepted; all are in Doc.
LEMMA TrackedAll ==
    ASSUME NEW s \in Client
    PROVE  Tracked(s, Doc)
  BY ViewsAre DEF Tracked

\* A step that keeps client and disk in order, with one fault or listen more or none.
LEMMA KeptIs ==
    ASSUME IInv, Kept, UNCHANGED log,
           raced \subseteq raced', raced' \subseteq {"left", "overtaken", "unheard", "refused"},
           UNCHANGED listens \/ (listens < MaxListens /\ listens' = listens + 1),
           UNCHANGED faults \/ (faults < MaxFaults /\ faults' = faults + 1)
    PROVE  IInv'
  <1>1. MaxListens \in Nat /\ MaxFaults \in Nat
    BY TargetsAssumption
  <1>2. /\ listens' \in Nat /\ listens' <= MaxListens
        /\ faults' \in Nat /\ faults' <= MaxFaults
    BY <1>1 DEF IInv
  <1>3. Tracked(client', Excepted')
    <2>1. CASE "refused" \in raced'
      <3>1. Excepted' = Doc
        BY <2>1 DEF Excepted
      <3>2. client' \in Client
        BY DEF Kept, Good, Sound, Steady
      <3> QED  BY <3>1, <3>2, TrackedAll
    <2>2. CASE "refused" \notin raced'
      <3>1. Excepted' = Excepted
        BY <2>2 DEF Excepted
      <3> QED  BY <3>1 DEF IInv, Kept
    <2> QED  BY <2>1, <2>2
  <1> QED  BY <1>2, <1>3 DEF IInv, Kept

\* What is wanted stays so when the network's part changes.
LEMMA NetIs ==
    ASSUME NEW s, Good(s), NEW u, Sound(u), Watched(u), SameEngine(s, u), SameLimbo(s, u),
           u.targets = s.targets
    PROVE  Good(u) /\ \A except : Tracked(s, except) => Tracked(u, except)
  <1>1. Wanted(u)
    <2>1. \A k : InLimbo(s, k) => InLimbo(u, k)
      BY DEF InLimbo, SameLimbo
    <2> QED  BY <2>1 DEF Good, Wanted, WantedBut, SameEngine, SameLimbo
  <1> QED  BY <1>1 DEF Good, Tracked, SameEngine, SameLimbo

\* The network is turned off.
LEMMA TurnNetworkOffStep ==
    ASSUME IInv, TurnNetworkOff
    PROVE  IInv' /\ CacheKept
  <1> DEFINE u == DisableNetwork(client, "Offline")
  <1>1. /\ Sound(u) /\ Watched(u) /\ SameEngine(client, u) /\ SameLimbo(client, u)
        /\ u.targets = client.targets /\ Silent(u)
    BY DisableIs DEF IInv, Good, OnlineStates
  <1>2. client' = u
    BY DEF TurnNetworkOff
  <1> HIDE DEF u
  <1>3. Good(u) /\ \A except : Tracked(client, except) => Tracked(u, except)
    BY <1>1, NetIs DEF IInv
  <1>4. Kept
    BY <1>2, <1>3 DEF Kept, IInv, TurnNetworkOff
  <1>5. CacheKept
    BY <1>1, <1>2, SilentIs DEF Uncached, IInv, TurnNetworkOff, SameEngine
  <1> QED  BY <1>4, <1>5, KeptIs DEF TurnNetworkOff, IInv

\* The network is turned on.
LEMMA TurnNetworkOnStep ==
    ASSUME IInv, TurnNetworkOn
    PROVE  IInv' /\ CacheKept
  <1> DEFINE u == EnableNetwork(client)
  <1>1. /\ Sound(u) /\ Watched(u) /\ SameEngine(client, u) /\ SameLimbo(client, u)
        /\ u.targets = client.targets /\ u.states = client.states /\ u.docs = client.docs
        /\ u.conn = client.conn /\ (u.stream = "Open" <=> client.stream = "Open")
    BY EnableIs DEF IInv, Good
  <1>2. client' = u
    BY DEF TurnNetworkOn
  <1> HIDE DEF u
  <1>3. Good(u) /\ \A except : Tracked(client, except) => Tracked(u, except)
    BY <1>1, NetIs DEF IInv
  <1>4. Kept
    BY <1>2, <1>3 DEF Kept, IInv, TurnNetworkOn
  <1>5. CacheKept
    BY <1>1, <1>2, StillIs DEF TurnNetworkOn, SameEngine
  <1> QED  BY <1>4, <1>5, KeptIs DEF TurnNetworkOn, IInv

\* The user changes.
LEMMA HandleCredentialChangeStep ==
    ASSUME IInv, HandleCredentialChange
    PROVE  IInv' /\ CacheKept
  <1> DEFINE v == DisableNetwork(client, "Unknown")
             u == EnableNetwork(v)
  <1>1. /\ Sound(v) /\ Watched(v) /\ SameEngine(client, v) /\ SameLimbo(client, v)
        /\ v.targets = client.targets /\ Silent(v)
    BY DisableIs DEF IInv, Good, OnlineStates
  <1>2. client' = u
    BY DEF HandleCredentialChange
  <1> HIDE DEF v
  <1>3. Good(v) /\ \A except : Tracked(client, except) => Tracked(v, except)
    BY <1>1, NetIs DEF IInv
  <1>4. /\ Sound(u) /\ Watched(u) /\ SameEngine(v, u) /\ SameLimbo(v, u)
        /\ u.targets = v.targets /\ Silent(u)
    BY <1>1, EnableIs DEF Silent
  <1> HIDE DEF u
  <1>5. Good(u) /\ \A except : Tracked(v, except) => Tracked(u, except)
    BY <1>3, <1>4, NetIs
  <1>6. Kept
    BY <1>2, <1>3, <1>5 DEF Kept, IInv, HandleCredentialChange
  <1>7. CacheKept
    BY <1>1, <1>2, <1>4, SilentIs DEF Uncached, IInv, HandleCredentialChange, SameEngine
  <1> QED  BY <1>6, <1>7, KeptIs DEF HandleCredentialChange, IInv

\* The idle stream is stopped.
LEMMA IdleTimeoutStep ==
    ASSUME IInv, IdleTimeout
    PROVE  IInv' /\ CacheKept
  <1> DEFINE u == Stop(client)
  <1>1. client.targets = None /\ Started(client)
    BY DEF IInv, Good, Sound, IdleKnown, IdleTimeout, Started
  <1>2. /\ Sound(u) /\ Watched(u) /\ SameEngine(client, u) /\ SameLimbo(client, u)
        /\ u.targets = client.targets /\ Silent(u)
    BY <1>1, StopIs DEF IInv, Good
  <1>3. client' = u
    BY DEF IdleTimeout
  <1> HIDE DEF u
  <1>4. Good(u) /\ \A except : Tracked(client, except) => Tracked(u, except)
    BY <1>2, NetIs DEF IInv
  <1>5. Kept
    BY <1>3, <1>4 DEF Kept, IInv, IdleTimeout
  <1>6. CacheKept
    BY <1>2, <1>3, SilentIs DEF Uncached, IInv, IdleTimeout, SameEngine
  <1> QED  BY <1>5, <1>6, KeptIs DEF IdleTimeout, IInv

\* The stream breaks.
LEMMA StreamFailsStep ==
    ASSUME IInv, StreamFails
    PROVE  IInv' /\ CacheKept
  <1> DEFINE u == Close(client, "Error")
  <1>1. Started(client)
    BY DEF StreamFails, Started
  <1>2. /\ Sound(u) /\ Watched(u) /\ SameEngine(client, u) /\ SameLimbo(client, u)
        /\ u.targets = client.targets /\ Silent(u)
    BY <1>1, CloseIs DEF IInv, Good
  <1>3. client' = u
    BY DEF StreamFails
  <1> HIDE DEF u
  <1>4. Good(u) /\ \A except : Tracked(client, except) => Tracked(u, except)
    BY <1>2, NetIs DEF IInv
  <1>5. Kept
    BY <1>3, <1>4 DEF Kept, IInv, StreamFails
  <1>6. CacheKept
    BY <1>2, <1>3, SilentIs DEF Uncached, IInv, StreamFails, SameEngine
  <1> QED  BY <1>5, <1>6, KeptIs DEF StreamFails, IInv

\* The stream starts after a while.
LEMMA BackoffElapsesStep ==
    ASSUME IInv, BackoffElapses
    PROVE  IInv' /\ CacheKept
  <1> DEFINE s == client
             u == [s EXCEPT !.stream = "Starting"]
  <1>1. /\ s \in Client /\ s.ok /\ Steady(s) /\ OnlineKnown(s) /\ IdleKnown(s)
        /\ AllNumbered(s) /\ ChangesKnown(s) /\ IsFiniteSet(DOMAIN s.targets)
        /\ Good(s) /\ Watched(s)
    BY DEF IInv, Good, Sound, Steady
  <1>2. client' = u /\ s.stream = "Backoff"
    BY DEF BackoffElapses
  <1> HIDE DEF s
  <1>3. /\ u \in Client /\ u.ok /\ u.targets = s.targets /\ u.stream = "Starting"
        /\ u.conn = s.conn /\ u.states = s.states /\ u.limbo = s.limbo
        /\ u.nextLimbo = s.nextLimbo /\ u.mem = s.mem /\ u.views = s.views
        /\ u.idle = s.idle /\ u.timer = s.timer /\ u.online = s.online
        /\ u.failures = s.failures /\ u.docs = s.docs
    BY <1>1 DEF Client, Streams
  <1> HIDE DEF u
  <1>4. Sound(u)
    <2>1. Steady(u)
      BY <1>1, <1>2, <1>3 DEF Steady, AllNumbered, Numbered, RequestedIds, ChangesKnown
    <2>2. OnlineKnown(u) /\ IdleKnown(u)
      BY <1>1, <1>2, <1>3 DEF OnlineKnown, IdleKnown, Started
    <2> QED  BY <2>1, <2>2 DEF Sound
  <1>5. Watched(u) /\ SameEngine(s, u) /\ SameLimbo(s, u)
    BY <1>1, <1>3 DEF Watched, SameEngine, SameLimbo
  <1>6. Good(u) /\ \A except : Tracked(s, except) => Tracked(u, except)
    BY <1>1, <1>3, <1>4, <1>5, NetIs
  <1>7. Kept
    BY <1>2, <1>6 DEF Kept, IInv, BackoffElapses, s
  <1>8. CacheKept
    BY <1>2, <1>3, StillIs DEF BackoffElapses, s
  <1> QED  BY <1>7, <1>8, KeptIs DEF BackoffElapses, IInv

\* The stream takes too long to start: the client counts as offline.
LEMMA OnlineStateTimeoutStep ==
    ASSUME IInv, OnlineStateTimeout
    PROVE  IInv' /\ CacheKept
  <1> DEFINE s == client
             r == [s EXCEPT !.timer = FALSE]
             u == SetOnline(r, "Offline")
  <1>1. /\ s \in Client /\ s.ok /\ Steady(s) /\ OnlineKnown(s) /\ IdleKnown(s)
        /\ AllNumbered(s) /\ ChangesKnown(s) /\ IsFiniteSet(DOMAIN s.targets)
        /\ Good(s) /\ Watched(s)
    BY DEF IInv, Good, Sound, Steady
  <1>2. client' = u
    <2>1. HardAssert(s, s.online = "Unknown") = s
      <3>1. s.online = "Unknown"
        BY <1>1 DEF OnlineKnown, OnlineStateTimeout
      <3> QED  BY <1>1, <3>1, AssertHolds
    <2> QED  BY <2>1 DEF OnlineStateTimeout
  <1> HIDE DEF s
  <1>3. /\ r \in Client /\ r.ok /\ r.targets = s.targets /\ r.stream = s.stream
        /\ r.conn = s.conn /\ r.states = s.states /\ r.limbo = s.limbo
        /\ r.nextLimbo = s.nextLimbo /\ r.mem = s.mem /\ r.views = s.views
        /\ r.idle = s.idle /\ r.timer = FALSE /\ r.failures = s.failures /\ r.docs = s.docs
    BY <1>1 DEF Client
  <1> HIDE DEF r
  <1>4. /\ u \in Client /\ SameEngine(r, u) /\ SameLimbo(r, u)
        /\ u = [r EXCEPT !.online = "Offline", !.views = u.views]
    BY <1>3, SetOnlineIs DEF OnlineStates
  <1> HIDE DEF u
  <1>5. /\ u.ok /\ u.targets = s.targets /\ u.stream = s.stream
        /\ u.conn = s.conn /\ u.states = s.states /\ u.limbo = s.limbo
        /\ u.nextLimbo = s.nextLimbo /\ u.idle = s.idle /\ u.timer = FALSE
        /\ u.online = "Offline" /\ u.docs = s.docs
    BY <1>3, <1>4 DEF Client
  <1>6. Sound(u)
    <2>1. Steady(u)
      BY <1>1, <1>4, <1>5 DEF Steady, AllNumbered, Numbered, RequestedIds, ChangesKnown
    <2>2. OnlineKnown(u) /\ IdleKnown(u)
      BY <1>1, <1>5 DEF OnlineKnown, IdleKnown
    <2> QED  BY <2>1, <2>2 DEF Sound
  <1>7. Watched(u) /\ SameEngine(s, u) /\ SameLimbo(s, u)
    BY <1>1, <1>3, <1>4, <1>5 DEF Watched, SameEngine, SameLimbo
  <1>8. Good(u) /\ \A except : Tracked(s, except) => Tracked(u, except)
    BY <1>1, <1>5, <1>6, <1>7, NetIs
  <1>9. Kept
    BY <1>2, <1>8 DEF Kept, IInv, OnlineStateTimeout, s
  <1>10. CacheKept
    BY <1>2, <1>5, StillIs DEF OnlineStateTimeout, s
  <1> QED  BY <1>9, <1>10, KeptIs DEF OnlineStateTimeout, IInv

\* The stream opens: every target is watched again.
LEMMA OnWatchStreamOpenStep ==
    ASSUME IInv, OnWatchStreamOpen
    PROVE  IInv' /\ CacheKept
  <1> DEFINE s == client
             Conn0(at) == [requests |-> <<>>, served |-> None, at |-> at, quiet |-> TRUE]
             Opened(at) == [s EXCEPT !.stream = "Open", !.conn = Conn0(at)]
  <1>1. /\ s \in Client /\ s.ok /\ Steady(s) /\ OnlineKnown(s) /\ IdleKnown(s)
        /\ AllNumbered(s) /\ ChangesKnown(s) /\ IsFiniteSet(DOMAIN s.targets)
        /\ Good(s)
    BY DEF IInv, Good, Sound, Steady
  <1>2. s.stream = "Starting" /\ UNCHANGED <<disk, log, raced, listens, faults>>
    BY DEF OnWatchStreamOpen
  <1>3. PICK at \in 1 .. Len(log), order \in Orders(DOMAIN s.targets) :
            client' = Send(Opened(at), RequestsInOrder(order, s.targets))
    BY Zenon DEF OnWatchStreamOpen
  <1> DEFINE requests == RequestsInOrder(order, s.targets)
             conn == Conn0(at)
             r == Opened(at)
             u == Send(r, requests)
  <1>4. conn \in AnyConn /\ conn.requests = <<>> /\ conn.served = None
    <2>1. at \in Version
      BY TargetsAssumption DEF IInv, Version
    <2>2. <<>> \in Seq(AnyRequest) /\ None \in Partial(Target, ServedState)
      BY NoneIs, EmptySeq
    <2> QED  BY <2>1, <2>2 DEF AnyConn
  <1>5. client' = u
    BY <1>3
  <1> HIDE DEF s, conn
  <1>6. /\ r \in Client /\ r.ok /\ r.targets = s.targets /\ r.stream = "Open"
        /\ r.conn = conn /\ r.states = s.states /\ r.limbo = s.limbo
        /\ r.nextLimbo = s.nextLimbo /\ r.mem = s.mem /\ r.views = s.views
        /\ r.idle = s.idle /\ r.timer = s.timer /\ r.online = s.online
        /\ r.failures = s.failures /\ r.docs = s.docs
    BY <1>1, <1>4 DEF Client, Streams, conn
  <1> HIDE DEF r
  <1>7. Steady(r)
    <2>1. DOMAIN conn.requests = {} /\ DOMAIN conn.served = {}
      BY <1>4, NoneIs, EmptySeq
    <2> QED  BY <1>1, <1>6, <2>1 DEF Steady, AllNumbered, Numbered, RequestedIds, ChangesKnown
  <1>8. /\ requests \in Seq(AnyRequest)
        /\ \A i \in DOMAIN requests : requests[i].id \in DOMAIN s.targets
        /\ \A t \in DOMAIN s.targets : Asked(requests, t) = {WatchOf(t, s.targets[t])}
    <2>1. s.targets \in Partial(Target, Version)
      BY <1>1 DEF Client
    <2> QED  BY <1>1, <2>1, RequestsInOrderAre
  <1> HIDE DEF requests
  <1>9. Numbered(r, {requests[i].id : i \in DOMAIN requests})
    BY <1>1, <1>6, <1>8 DEF AllNumbered, Numbered
  <1>10. /\ Steady(u) /\ SameEngine(r, u) /\ u.views = r.views /\ u.targets = r.targets
         /\ SameLine(r, u) /\ IdleUnlessSent(r, u, requests) /\ u.conn.served = r.conn.served
         /\ Conveys(r, u, DOMAIN s.targets) /\ AsksMore(r, u, requests)
    <2>1. r.stream = "Open" /\ requests \in Seq(AnyRequest)
      BY <1>6, <1>8
    <2> QED  BY <1>7, <1>8, <1>9, <2>1, SendIs
  <1> HIDE DEF u
  <1>11. Sound(u)
    <2>1. OnlineKnown(u)
      BY <1>1, <1>2, <1>6, <1>10 DEF OnlineKnown, SameLine, Started
    <2>2. ~s.idle
      BY <1>1, <1>2 DEF IdleKnown
    <2>3. IdleKnown(u)
      BY <1>6, <1>10, <2>2 DEF IdleKnown, IdleUnlessSent
    <2> QED  BY <1>10, <2>1, <2>3 DEF Sound
  <1>12. Watched(u) /\ SameEngine(s, u) /\ SameLimbo(s, u)
    <2>1. DOMAIN u.conn.served = {}
      BY <1>4, <1>6, <1>10, NoneIs
    <2> QED  BY <1>6, <1>10, <2>1 DEF Watched, SameEngine, SameLimbo
  <1>13. Good(u) /\ \A except : Tracked(s, except) => Tracked(u, except)
    BY <1>1, <1>6, <1>10, <1>11, <1>12, NetIs
  <1>14. Kept
    BY <1>2, <1>5, <1>13 DEF Kept, IInv, s
  <1>15. CacheKept
    <2> SUFFICES ASSUME CacheInv PROVE CacheInv' /\ CacheStays
      BY DEF CacheKept
    <2>1. Dated(log', disk') /\ CacheStays
      BY <1>2, UncachedIs DEF Uncached, CacheInv, IInv
    <2>2. s.docs = None /\ s.conn = Disconnected /\ ("overtaken" \notin raced => Counted(s))
      <3>1. Streamed(log, s) /\ ("overtaken" \notin raced => Counted(s))
        BY DEF CacheInv, s
      <3> QED  BY <1>1, <1>2, <3>1 DEF Streamed, Steady
    <2>3. conn.at = at /\ DOMAIN None = {}
      BY NoneIs DEF conn
    <2>4. /\ u.docs = None /\ u.conn.at = at /\ u.conn.served = None /\ u.stream = "Open"
          /\ (Counted(r) => Counted(u))
      BY <1>4, <1>6, <1>10, <2>2, <2>3 DEF Conveys, Carries
    <2>5. Streamed(log, u) /\ Vouched(log, u)
      BY <2>3, <2>4 DEF Streamed, OwesRightly, Vouched
    <2>6. Counted(s) => Counted(u)
      <3>1. Disconnected.requests = <<>>
        BY DEF Disconnected
      <3>2. \A t : StateOf(r, t) = StateOf(s, t)
        BY <1>6 DEF StateOf
      <3> QED  BY <1>4, <1>6, <2>2, <2>4, <3>1, <3>2 DEF Counted
    <2>7. ASSUME LimboInv(log, s, disk) PROVE LimboInv(log, u, disk)
      <3> SUFFICES ASSUME NEW t \in DOMAIN u.limbo PROVE Follow(log, u, disk, t)
        BY DEF LimboInv
      <3>1. t \in DOMAIN s.limbo /\ u.limbo[t] = s.limbo[t] /\ u.targets[t] = s.targets[t]
        BY <1>6, <1>10 DEF SameEngine
      <3>2. Follow(log, s, disk, t) /\ t \in DOMAIN s.targets
        BY <1>1, <2>7, <3>1 DEF LimboInv, Good, Wanted, WantedBut
      <3>3. StateOf(u, t).changes = None
        <4>1. StateOf(s, t).changes = None
          BY <1>2, <3>2 DEF Follow, Gathers
        <4> QED  BY <1>6, <1>10, <4>1 DEF AsksMore, StateOf
      <3>4. Asked(u.conn.requests, t) = {WatchOf(t, s.targets[t])}
        <4>1. Asked(<<>>, t) = {}
          BY EmptySeq DEF Asked, Range
        <4> QED  BY <1>4, <1>6, <1>8, <1>10, <3>2, <4>1 DEF AsksMore
      <3>5. Tells(log, u, t, s.targets[t])
        BY <3>1, <3>2 DEF Follow, Resumable, Tells
      <3>6. Resumable(log, u, t) /\ Present(u, t) /\ Gathers(u, t)
        BY <3>1, <3>3, <3>4, <3>5, NoneIs DEF Resumable, Present, Gathers, WatchOf
      <3>7. t \notin DOMAIN u.conn.served
        BY <2>3, <2>4
      <3> QED  BY <3>6, <3>7 DEF Follow, Knows, Misses, Resolves, Hearing
    <2>8. LimboInv(log, s, disk) => LimboInv(log', u, disk')
      BY <1>2, <2>7
    <2> QED  BY <1>2, <1>5, <2>1, <2>2, <2>5, <2>6, <2>8 DEF CacheInv, s
  <1> QED  BY <1>2, <1>14, <1>15, KeptIs DEF IInv

\* A query is listened to.
LEMMA ListenToStep ==
    ASSUME IInv, NEW q \in Query, ListenTo(q)
    PROVE  IInv' /\ CacheKept
  <1> DEFINE s == client
             mem == Only(q, disk.data[q]) ++ s.mem
             views == Only(q, [current |-> FALSE, limbo |-> {}]) ++ s.views
             r == [s EXCEPT !.mem = mem, !.views = views]
             tokens == Only(q, disk.data[q].token)
             u == Listen(r, tokens)
  <1>1. /\ s \in Client /\ s.ok /\ Steady(s) /\ OnlineKnown(s) /\ IdleKnown(s)
        /\ AllNumbered(s) /\ ChangesKnown(s) /\ IsFiniteSet(DOMAIN s.targets)
        /\ Good(s) /\ Wanted(s) /\ Watched(s)
    BY DEF IInv, Good, Sound, Steady
  <1>2. /\ q \notin DOMAIN s.views /\ listens < MaxListens /\ listens' = listens + 1
        /\ UNCHANGED <<disk, log, raced, faults>>
    BY DEF ListenTo
  <1>3. client' = u
    <2>1. [client EXCEPT
              !.mem = Only(q, disk.data[q]) ++ @,
              !.views = Only(q, [current |-> FALSE, limbo |-> {}]) ++ @] = r
      BY <1>1 DEF Client
    <2> HIDE DEF r
    <2> QED  BY <2>1 DEF ListenTo
  <1>4. /\ disk.data[q] \in QueryData /\ disk.data[q].token \in Version
        /\ [current |-> FALSE, limbo |-> {}] \in View
    BY DEF IInv, AnyDisk, QueryData, View
  <1>5. /\ mem \in Partial(Query, QueryData)
        /\ \A p : p \in DOMAIN mem <=> p = q \/ p \in DOMAIN s.mem
    <2>1. Only(q, disk.data[q]) \in Partial(Query, QueryData)
      BY <1>4, OnlyIs
    <2>2. s.mem \in Partial(Query, QueryData)
      BY <1>1 DEF Client
    <2>3. mem \in Partial(Query, QueryData)
      BY <2>1, <2>2, OverIs
    <2> QED  BY <2>3 DEF ++, Only
  <1>6. /\ views \in Partial(Query, View)
        /\ \A p : p \in DOMAIN views <=> p = q \/ p \in DOMAIN s.views
        /\ \A p \in DOMAIN s.views : views[p] = s.views[p]
        /\ views[q].limbo = {}
    <2>1. Only(q, [current |-> FALSE, limbo |-> {}]) \in Partial(Query, View)
      BY <1>4, OnlyIs
    <2>2. s.views \in Partial(Query, View)
      BY <1>1 DEF Client
    <2>3. views \in Partial(Query, View)
      BY <2>1, <2>2, OverIs
    <2> QED  BY <1>2, <2>3 DEF ++, Only
  <1> HIDE DEF s, mem, views
  <1>7. /\ r \in Client /\ r.ok /\ r.targets = s.targets /\ r.stream = s.stream
        /\ r.conn = s.conn /\ r.states = s.states /\ r.limbo = s.limbo
        /\ r.nextLimbo = s.nextLimbo /\ r.mem = mem /\ r.views = views
        /\ r.idle = s.idle /\ r.timer = s.timer /\ r.online = s.online
        /\ r.failures = s.failures /\ r.docs = s.docs
    BY <1>1, <1>5, <1>6 DEF Client
  <1> HIDE DEF r
  <1>8. Sound(r) /\ Watched(r)
    <2>1. Steady(r)
      BY <1>1, <1>7 DEF Steady, AllNumbered, Numbered, RequestedIds, ChangesKnown
    <2>2. OnlineKnown(r) /\ IdleKnown(r)
      BY <1>1, <1>7 DEF OnlineKnown, IdleKnown, Started
    <2> QED  BY <1>1, <1>7, <2>1, <2>2 DEF Sound, Watched
  <1>9. /\ tokens \in Partial(Target, Version) /\ IsFiniteSet(DOMAIN tokens)
        /\ \A t : t \in DOMAIN tokens <=> t = q
    <2>1. q \in Target
      BY DEF Target
    <2>2. tokens \in Partial(Target, Version) /\ DOMAIN tokens = {q}
      BY <1>4, <2>1, OnlyIs
    <2> QED  BY <2>2, FS_Singleton
  <1> HIDE DEF tokens
  <1>10. q \notin DOMAIN s.limbo /\ q \notin LimboTarget
    BY <1>1, LimboAre, TargetsDiffer
  <1>11. DOMAIN tokens \cap DOMAIN r.targets = {}
    BY <1>1, <1>2, <1>7, <1>9, <1>10 DEF Wanted, WantedBut
  <1>12. Numbered(r, DOMAIN tokens)
    BY <1>9, <1>10 DEF Numbered
  <1>13. /\ Sound(u) /\ SameEngine(r, u) /\ u.views = r.views /\ Watched(u)
         /\ \A t : t \in DOMAIN u.targets <=> t \in DOMAIN r.targets \/ t \in DOMAIN tokens
         /\ Conveys(r, u, DOMAIN tokens)
         /\ \A t \in DOMAIN r.targets : u.targets[t] = r.targets[t]
    BY <1>8, <1>9, <1>11, <1>12, ListenIs
  <1> HIDE DEF u
  <1>14. Wanted(u)
    <2>1. \A t : t \in DOMAIN u.targets <=> t \in DOMAIN u.views \/ t \in DOMAIN u.limbo
      BY <1>1, <1>6, <1>7, <1>9, <1>13 DEF Wanted, WantedBut, SameEngine
    <2>2. \A t \in DOMAIN u.limbo : InLimbo(u, t.key)
      BY <1>1, <1>6, <1>7, <1>13 DEF Wanted, WantedBut, SameEngine, InLimbo
    <2>3. \A p : p \in DOMAIN u.mem <=> p \in DOMAIN u.views
      BY <1>1, <1>5, <1>6, <1>7, <1>13 DEF Wanted, WantedBut, SameEngine
    <2>4. \A t, x \in DOMAIN u.limbo : t.key = x.key => t = x
      BY <1>1, <1>7, <1>13 DEF Wanted, WantedBut, SameEngine
    <2> QED  BY <2>1, <2>2, <2>3, <2>4 DEF Wanted, WantedBut
  <1>15. \A except : Tracked(s, except) => Tracked(u, except)
    BY <1>6, <1>7, <1>13 DEF Tracked, SameEngine
  <1>16. Kept
    BY <1>2, <1>3, <1>13, <1>14, <1>15 DEF Kept, Good, IInv, s
  <1>17. CacheKept
    <2>1. Conveys(s, r, {})
      BY <1>7, ConveysSame
    <2>2. Conveys(s, u, DOMAIN tokens)
      BY <1>13, <2>1, ConveysOn
    <2>3. Retains(s, u)
      BY <1>7, <1>11, <2>2 DEF Conveys, Retains, Unmoved
    <2>4. NothingDropped
      BY <1>3, <1>7, <1>13 DEF NothingDropped, s
    <2>5. Uncached
      BY <1>2 DEF Uncached
    <2>6. Resumes(s, u)
      <3>1. ASSUME NEW t \in DOMAIN s.limbo
            PROVE  t \in DOMAIN s.targets /\ t \notin DOMAIN tokens
        BY <1>1, <1>9, <1>10, <3>1 DEF Wanted, WantedBut
      <3>2. u.limbo = s.limbo /\ \A t \in DOMAIN s.targets : u.targets[t] = s.targets[t]
        BY <1>7, <1>13 DEF SameEngine
      <3> QED  BY <2>2, <3>1, <3>2 DEF Resumes, Conveys, Stays
    <2> QED  BY <1>2, <1>3, <2>3, <2>4, <2>5, <2>6, RetainsIs DEF s
  <1> QED  BY <1>2, <1>16, <1>17, KeptIs DEF IInv

\* A query is left.
LEMMA StopListeningToStep ==
    ASSUME IInv, NEW q \in Query, StopListeningTo(q)
    PROVE  IInv' /\ CacheKept
  <1> DEFINE s == client
             v == StopListening(s, {q})
             u == RemoveQuery(v, q)
  <1>1. /\ s \in Client /\ Sound(s) /\ Good(s) /\ Wanted(s) /\ Watched(s)
    BY DEF IInv, Good, Sound, Steady
  <1>2. /\ q \in DOMAIN s.views /\ disk' = Released(q) /\ client' = u
        /\ UNCHANGED <<log, listens, faults>>
        /\ raced \subseteq raced' /\ raced' \subseteq raced \cup {"left", "overtaken"}
        /\ Overtaken(DroppedTargets) \subseteq raced'
    BY DEF StopListeningTo, Overtaken
  <1> HIDE DEF s
  <1>3. {q} \subseteq DOMAIN s.targets /\ q \in DOMAIN s.mem
    BY <1>1, <1>2 DEF Wanted, WantedBut
  <1>4. /\ Sound(v) /\ SameEngine(s, v) /\ v.views = s.views /\ Watched(v)
        /\ \A t : t \in DOMAIN v.targets <=> t \in DOMAIN s.targets /\ t # q
        /\ Conveys(s, v, {q}) /\ \A t \in DOMAIN v.targets : v.targets[t] = s.targets[t]
    <2>1. DOMAIN v.targets = DOMAIN s.targets \ {q}
      BY <1>1, <1>3, StopListeningIs
    <2> QED  BY <1>1, <1>3, <2>1, StopListeningIs
  <1> HIDE DEF v
  <1>5. \A t \in DOMAIN s.limbo : t # q
    BY <1>1, <1>2, LimboAre
  <1>6. /\ q \in DOMAIN v.views /\ q \notin DOMAIN v.targets
        /\ \A t : t \in DOMAIN v.targets <=>
              (t # q /\ t \in DOMAIN v.views) \/ t \in DOMAIN v.limbo
        /\ \A p : p \in DOMAIN v.mem <=> p \in DOMAIN v.views
        /\ \A t \in DOMAIN v.limbo : InLimbo(v, t.key)
        /\ \A t, x \in DOMAIN v.limbo : t.key = x.key => t = x
    BY <1>1, <1>2, <1>4, <1>5 DEF Wanted, WantedBut, InLimbo, SameEngine
  <1>7. /\ Good(u) /\ Continues(v, u)
        /\ \A except : Tracked(v, except) => Tracked(u, except)
    BY <1>4, <1>6, RemoveQueryIs
  <1> HIDE DEF u
  <1>8. \A except : Tracked(s, except) => Tracked(v, except)
    BY <1>4 DEF Tracked, SameEngine
  <1>9. /\ Released(q) \in AnyDisk
        /\ Released(q).cache = disk.cache /\ Released(q).last = disk.last
    BY <1>1, <1>3, ReleasedIs DEF IInv, s
  <1>10. Kept
    BY <1>2, <1>7, <1>8, <1>9 DEF Kept, s
  <1>11. CacheKept
    <2>1. Retains(s, v)
      BY <1>4 DEF Conveys, Retains, Unmoved
    <2>2. Retains(v, u)
      BY <1>4, <1>7, ContinuesIs
    <2>3. \A t \in DOMAIN s.targets : t \in DOMAIN u.targets => t \in DOMAIN v.targets
      <3>1. Numbered(s, DOMAIN s.targets) /\ v.nextLimbo = s.nextLimbo /\ s.nextLimbo \in Nat
        BY <1>1, <1>4 DEF Sound, Steady, AllNumbered, SameEngine, Client
      <3>2. \A t \in DOMAIN s.targets : ~(t \in LimboTarget /\ t.n > v.nextLimbo)
        BY <3>1 DEF Numbered, LimboTarget
      <3> QED  BY <1>7, <3>2 DEF Continues
    <2>4. Retains(s, u)
      BY <2>1, <2>2, <2>3, RetainsOn
    <2>5. "overtaken" \notin raced' => NothingDropped
      BY <1>2 DEF Overtaken, DroppedTargets, NothingDropped
    <2>6. Uncached
      BY <1>2, <1>9 DEF Uncached
    <2>7. Resumes(v, u)
      <3>1. Numbered(v, DOMAIN v.targets) /\ v.nextLimbo \in Nat
        BY <1>4 DEF Sound, Steady, AllNumbered, Client
      <3>2. \A t \in DOMAIN u.limbo : t \in DOMAIN u.targets
        BY <1>7 DEF Good, Wanted, WantedBut
      <3>3. \A t \in DOMAIN v.limbo : t \in DOMAIN v.targets
        BY <1>6
      <3> QED  BY <1>7, <3>1, <3>2, <3>3, ContinuesResumes
    <2>8. Resumes(s, u)
      <3>1. v.limbo = s.limbo /\ v.nextLimbo = s.nextLimbo
        BY <1>4 DEF SameEngine
      <3>2. ASSUME NEW t \in DOMAIN s.limbo PROVE Stays(s, v, t)
        <4>1. t # q
          BY <1>5
        <4>2. t \in DOMAIN s.targets
          BY <1>1 DEF Wanted, WantedBut
        <4>3. v.targets[t] = s.targets[t]
          BY <1>4, <4>1, <4>2
        <4> QED  BY <1>4, <4>1, <4>3 DEF Stays, Conveys
      <3>3. ASSUME NEW t \in DOMAIN v.limbo, Stays(v, u, t) PROVE Stays(s, u, t)
        BY <3>1, <3>2, <3>3 DEF Stays, Unmoved
      <3> QED  BY <2>7, <3>1, <3>3 DEF Resumes, Appears
    <2> QED  BY <1>2, <2>4, <2>5, <2>6, <2>8, RetainsIs DEF s
  <1> QED  BY <1>2, <1>10, <1>11, KeptIs DEF IInv

-----------------------------------------------------------------------------
(* The backend's steps.                                                    *)

\* The backend's data changes.
LEMMA ChangeStep ==
    ASSUME IInv, NEW d \in Doc, Change(d)
    PROVE  IInv' /\ CacheKept
  <1> DEFINE entry == [doc |-> d, there |-> ~At(d, Len(log)).there]
             Entry == [doc: Doc, there: BOOLEAN]
  <1>1. /\ Len(log) < MaxChanges /\ log' = Append(log, entry)
        /\ UNCHANGED <<client, disk, raced, listens, faults>>
    BY DEF Change
  <1>2. log \in Seq(Entry) /\ Len(log) \in Nat
    BY DEF IInv
  <1>3. entry \in Entry
    <2>1. At(d, Len(log)) \in DocState
      BY <1>2, AtIs
    <2> QED  BY <2>1 DEF DocState
  <1> HIDE DEF entry
  <1>4. log' \in Seq(Entry) /\ Len(log') = Len(log) + 1
    BY <1>1, <1>2, <1>3, AppendProperties
  <1>5. Len(log') \in Version
    BY <1>1, <1>2, <1>4, TargetsAssumption DEF Version
  <1>6. Excepted' = Excepted
    BY <1>1 DEF Excepted
  <1>7. CacheKept
    <2> DEFINE s == client
    <2> SUFFICES ASSUME CacheInv PROVE CacheInv' /\ CacheStays
      BY DEF CacheKept
    <2>1. CacheStays
      BY <1>1, UncachedIs DEF Uncached, IInv
    <2>2. /\ Streamed(log, s) /\ ("overtaken" \notin raced => Counted(s) /\ Vouched(log, s))
          /\ s \in Client /\ disk \in AnyDisk
      BY DEF CacheInv, IInv, Good, Sound, Steady
    <2>a. ASSUME NEW k, NEW v \in 0 .. Len(log)
          PROVE  LastIn(log', k, v) = LastIn(log, k, v) /\ There(log', k, v) = There(log, k, v)
      <3> HIDE DEF Entry
      <3> QED  BY <1>1, <1>2, <1>3, AppendChange
    <2>b. ASSUME NEW k, NEW doc, True(log, k, doc), doc.at \in 0 .. Len(log)
          PROVE  True(log', k, doc)
      BY <2>a, <2>b DEF True
    <2>c. Dated(log', disk')
      <3>1. ASSUME NEW k \in Doc PROVE disk.cache[k].at \in 0 .. Len(log)
        BY <1>2, <2>2, TargetsAssumption DEF CacheInv, Dated, AnyDisk, DocState, Version
      <3> QED  BY <1>1, <1>2, <1>4, <2>2, <2>b, <3>1, TargetsAssumption
                  DEF CacheInv, Dated, AnyDisk, Version
    <2> HIDE DEF s
    <2>3. Streamed(log', s)
      <3>1. ASSUME NEW k \in DOMAIN s.docs PROVE s.docs[k].at \in 0 .. Len(log)
        <4>1. s.stream = "Open"
          BY <2>2, <3>1, NoneIs DEF Streamed
        <4>2. s.docs[k] \in DocState
          BY <2>2, <3>1, PartialIs DEF Client
        <4> QED  BY <1>2, <2>2, <4>1, <4>2 DEF Streamed, DocState
      <3> QED  BY <1>2, <1>4, <2>2, <2>b, <3>1 DEF Streamed
    <2>4. ASSUME Vouched(log, s), NEW k \in DOMAIN s.docs
          PROVE  \E t : Vouches(log', s, t, k)
      <3>1. PICK t : Vouches(log, s, t, k)
        BY <2>4 DEF Vouched
      <3>2. s.stream = "Open"
        BY <2>2, <2>4, NoneIs DEF Streamed
      <3>3. s.conn.at \in 0 .. Len(log)
        BY <1>2, <2>2, <3>2 DEF Streamed
      <3>4. /\ There(log', k, s.conn.at) = There(log, k, s.conn.at)
            /\ LastIn(log', k, s.conn.at) = LastIn(log, k, s.conn.at)
        BY <2>a, <3>3
      <3>5. Vouches(log', s, t, k)
        BY <3>1, <3>4 DEF Vouches, Honest, Says
      <3> QED  BY <3>5
    <2>5. "overtaken" \notin raced => Counted(s) /\ Vouched(log', s)
      BY <2>2, <2>4 DEF Vouched
    <2>6. ASSUME LimboInv(log, s, disk), NEW t \in DOMAIN s.limbo
          PROVE  Follow(log', s, disk, t)
      <3>1. s.conn.at \in 0 .. Len(log)
        <4>1. Disconnected.at = 0 /\ (s.stream # "Open" => s.conn = Disconnected)
          BY DEF Disconnected, IInv, Good, Sound, Steady, s
        <4> QED  BY <1>2, <2>2, <4>1 DEF Streamed
      <3>2. Stays(s, s, t) /\ Follow(log, s, disk, t)
        BY <2>6 DEF LimboInv, Stays, Unmoved
      <3>3. Len(log) <= Len(log') /\ Len(log') \in Nat
        BY <1>2, <1>4
      <3> QED  BY <1>2, <2>a, <3>1, <3>2, <3>3, FollowStays
    <2>7. LimboInv(log, s, disk) => LimboInv(log', s, disk)
      BY <2>6 DEF LimboInv
    <2> QED  BY <1>1, <2>1, <2>c, <2>3, <2>5, <2>7 DEF CacheInv, s
  <1> QED  BY <1>1, <1>4, <1>5, <1>6, <1>7 DEF IInv

\* A client that was just launched wants nothing and listens to nothing.
LEMMA LaunchedIsGood ==
    Good(Launched) /\ \A except : Tracked(Launched, except)
  <1> DEFINE s == Launched
  <1>1. /\ None \in Partial(Target, Version) /\ None \in Partial(Target, TargetState)
        /\ None \in Partial(Doc, DocState) /\ None \in Partial(Query, QueryData)
        /\ None \in Partial(Query, View) /\ None \in Partial(LimboTarget, BOOLEAN)
        /\ DOMAIN None = {}
    BY NoneIs
  <1>2. s \in Client
    BY <1>1, DisconnectedIs DEF Client, Launched, Streams, OnlineStates
  <1>3. /\ s.ok /\ s.stream = "Initial" /\ s.conn = Disconnected /\ ~s.idle /\ ~s.timer
        /\ s.online = "Unknown" /\ s.targets = None /\ s.states = None /\ s.mem = None
        /\ s.views = None /\ s.limbo = None
    BY DEF Launched
  <1> HIDE DEF s
  <1>4. IsFiniteSet(DOMAIN s.targets)
    BY <1>1, <1>3, FS_EmptySet
  <1>5. Sound(s)
    BY <1>1, <1>2, <1>3, <1>4, DisconnectedIs
       DEF Sound, Steady, OnlineKnown, IdleKnown, AllNumbered, Numbered, RequestedIds,
           ChangesKnown
  <1>6. Wanted(s) /\ Watched(s) /\ \A except : Tracked(s, except)
    BY <1>1, <1>3, DisconnectedIs DEF Wanted, WantedBut, Watched, Tracked
  <1> QED  BY <1>5, <1>6 DEF Good, s

\* The app is killed and launched again.
LEMMA RelaunchStep ==
    ASSUME IInv, Relaunch
    PROVE  IInv' /\ CacheKept
  <1>1. Kept
    BY LaunchedIsGood DEF Kept, IInv, Relaunch
  <1>2. CacheKept
    <2>1. Silent(client') /\ DOMAIN client'.limbo = {}
      BY NoneIs DEF Relaunch, Launched, Silent
    <2> QED  BY <2>1, SilentIs DEF Uncached, IInv, Relaunch
  <1> QED  BY <1>1, <1>2, KeptIs DEF Relaunch, IInv

\* At the first launch.
LEMMA InitIsGood ==
    Init => IInv
  <1> SUFFICES ASSUME Init PROVE IInv
    OBVIOUS
  <1>1. 0 \in Version /\ 1 \in Version /\ Unknown \in DocState
    BY TargetsAssumption DEF Version, Unknown, DocState
  <1>2. disk \in AnyDisk
    <2>1. disk = [cache |-> [d \in Doc |-> Unknown],
                  keys |-> [q \in Query |-> {}],
                  data |-> [q \in Query |-> [token |-> 0, version |-> 0]],
                  last |-> 0]
      BY DEF Init
    <2>2. [token |-> 0, version |-> 0] \in QueryData
      BY <1>1 DEF QueryData
    <2> QED  BY <1>1, <2>1, <2>2 DEF AnyDisk
  <1>3. log \in Seq([doc: Doc, there: BOOLEAN]) /\ Len(log) = 1
    BY DEF Init
  <1>4. /\ raced \subseteq {"left", "overtaken", "unheard", "refused"} /\ listens = 0 /\ faults = 0
        /\ client = Launched
    BY DEF Init
  <1>5. MaxListens \in Nat /\ MaxFaults \in Nat
    BY TargetsAssumption
  <1> QED  BY <1>1, <1>2, <1>3, <1>4, <1>5, LaunchedIsGood DEF IInv

\* Nothing was heard then, and the cache is empty.
LEMMA InitIsDated ==
    Init => CacheInv
  <1> SUFFICES ASSUME Init PROVE CacheInv
    OBVIOUS
  <1>1. Silent(client) /\ DOMAIN client.limbo = {}
    BY NoneIs DEF Init, Launched, Silent
  <1>2. Dated(log, disk)
    BY DEF Init, Dated, True, Unknown
  <1>3. LimboInv(log, client, disk)
    BY <1>1 DEF LimboInv
  <1> QED  BY <1>1, <1>2, <1>3, NothingHeard DEF CacheInv

\* What is known of an open connection.
LEMMA ConnIs ==
    ASSUME IInv, Connected
    PROVE  /\ client.stream = "Open" /\ Conn \in AnyConn /\ Conn.at \in Version
           /\ Conn.quiet \in BOOLEAN /\ Conn.requests \in Seq(AnyRequest)
           /\ Conn.served \in Partial(Target, ServedState)
           /\ \A t \in DOMAIN Conn.served :
                 /\ KnownTarget(client, t) /\ t \in DOMAIN client.states
                 /\ Conn.served[t] \in ServedState
           /\ \A i \in DOMAIN Conn.requests : KnownTarget(client, Conn.requests[i].id)
  <1>1. client \in Client /\ AllNumbered(client) /\ Watched(client)
    BY DEF IInv, Good, Sound, Steady
  <1>2. client.stream = "Open"
    BY DEF Connected
  <1>3. /\ Conn \in AnyConn /\ Conn.at \in Version /\ Conn.quiet \in BOOLEAN
        /\ Conn.requests \in Seq(AnyRequest) /\ Conn.served \in Partial(Target, ServedState)
    BY <1>1 DEF Client, AnyConn, Conn
  <1>4. \A t \in DOMAIN Conn.served : t \in Target /\ Conn.served[t] \in ServedState
    BY <1>3, PartialIs
  <1>5. \A t \in DOMAIN Conn.served : KnownTarget(client, t) /\ t \in DOMAIN client.states
    BY <1>1, <1>4 DEF AllNumbered, Numbered, KnownTarget, Watched, Conn
  <1>6. \A i \in DOMAIN Conn.requests : Conn.requests[i] \in AnyRequest
    BY <1>3, LenProperties, ElementOfSeq
  <1>7. \A i \in DOMAIN Conn.requests : Conn.requests[i].id \in Target
    BY <1>6 DEF AnyRequest
  <1>8. \A i \in DOMAIN Conn.requests : KnownTarget(client, Conn.requests[i].id)
    BY <1>1, <1>7 DEF AllNumbered, Numbered, RequestedIds, KnownTarget, Conn
  <1> QED  BY <1>2, <1>3, <1>4, <1>5, <1>8

\* The request the backend serves, and those that wait behind it.
LEMMA RequestIs ==
    ASSUME IInv, Requested
    PROVE  /\ Connected /\ Request \in AnyRequest /\ KnownTarget(client, Request.id)
           /\ Tail(Conn.requests) \in Seq(AnyRequest)
           /\ \A i \in DOMAIN Tail(Conn.requests) :
                 KnownTarget(client, Tail(Conn.requests)[i].id)
  <1> DEFINE q == Conn.requests
  <1>1. Connected /\ q # <<>>
    BY DEF Requested
  <1>2. q \in Seq(AnyRequest) /\ \A i \in DOMAIN q : KnownTarget(client, q[i].id)
    BY <1>1, ConnIs
  <1> HIDE DEF q
  <1>3. /\ Head(q) \in AnyRequest /\ Tail(q) \in Seq(AnyRequest) /\ Head(q) = q[1]
        /\ Len(q) \in Nat /\ Len(q) # 0
    BY <1>1, <1>2
  <1>4. 1 \in DOMAIN q
    BY <1>2, <1>3, LenProperties
  <1>5. \A i \in DOMAIN Tail(q) : i + 1 \in DOMAIN q /\ Tail(q)[i] = q[i + 1]
    BY <1>1, <1>2
  <1> QED  BY <1>1, <1>2, <1>3, <1>4, <1>5 DEF q, Request

\* A connection that serves some of the known targets, and has no new requests.
LEMMA ConnKnown ==
    ASSUME IInv, Connected, NEW conn \in AnyConn,
           conn.requests = Conn.requests \/ (Requested /\ conn.requests = Tail(Conn.requests)),
           \A t \in DOMAIN conn.served : KnownTarget(client, t)
    PROVE  KnownConn(client, conn)
  <1>1. \A i \in DOMAIN conn.requests : KnownTarget(client, conn.requests[i].id)
    BY ConnIs, RequestIs
  <1> QED  BY <1>1 DEF KnownConn, Numbered, KnownTarget

\* A message the client handles leaves it and the disk in order.
LEMMA ToldIs ==
    ASSUME IInv, Connected, NEW m, NEW conn, KnownConn(client, conn), AnyMessage(client, m),
           Serving(client, conn, m), m.version \in Version, OnWatchStreamChange(m, conn)
    PROVE  Kept /\ Takes(m, conn)
  <1>1. Good(client) /\ disk \in AnyDisk /\ client.stream = "Open"
    BY DEF IInv, Connected
  <1> QED  BY <1>1, OnWatchStreamChangeIs DEF Kept

\* What the target t is served is x from now on.
Reserved(conn, t, x, quiet) ==
    conn = [Conn EXCEPT !.served = [Conn.served EXCEPT ![t] = x], !.quiet = quiet]

\* A message about a target that is served.
LEMMA ServesIs ==
    ASSUME IInv, NEW t, Serves(t), NEW x \in ServedState, NEW quiet \in BOOLEAN,
           NEW conn, Reserved(conn, t, x, quiet), NEW m, AnyMessage(client, m),
           m.kind # "Removed", m.version = 0, OnWatchStreamChange(m, conn)
    PROVE  Kept /\ Takes(m, conn)
  <1> DEFINE served == [Conn.served EXCEPT ![t] = x]
  <1>1. Connected /\ t \in DOMAIN Conn.served
    BY DEF Serves
  <1>2. /\ Conn \in AnyConn /\ Conn.served \in Partial(Target, ServedState)
        /\ \A y \in DOMAIN Conn.served : KnownTarget(client, y) /\ y \in DOMAIN client.states
    BY <1>1, ConnIs
  <1>3. served \in Partial(Target, ServedState) /\ DOMAIN served = DOMAIN Conn.served
    <2>1. /\ Conn.served \in [DOMAIN Conn.served -> ServedState]
          /\ DOMAIN Conn.served \subseteq Target
      BY <1>2, PartialIs
    <2>2. served \in [DOMAIN Conn.served -> ServedState]
      BY <2>1
    <2> QED  BY <2>1, <2>2, PartialIs
  <1> HIDE DEF served
  <1>4. conn = [Conn EXCEPT !.served = served, !.quiet = quiet]
    BY DEF Reserved, served
  <1> HIDE DEF Conn
  <1>5. conn \in AnyConn /\ conn.served = served /\ conn.requests = Conn.requests
    BY <1>2, <1>3, <1>4 DEF AnyConn
  <1>6. KnownConn(client, conn)
    BY <1>1, <1>2, <1>3, <1>5, ConnKnown
  <1>7. Serving(client, conn, m)
    BY <1>2, <1>3, <1>5 DEF Serving
  <1>8. m.version \in Version
    BY TargetsAssumption DEF Version
  <1> QED  BY <1>1, <1>6, <1>7, <1>8, ToldIs

\* What a snapshot message finds: the stream is consistent as a whole
Consistent(m, conn) ==
    /\ m.kind = "NoChange" /\ m.version = conn.at /\ m.token = conn.at
    /\ \A k : ~Writes(client, m, k)
    /\ \A t \in DOMAIN conn.served : conn.served[t].current

\* Of what is heard with the message m, the limbo targets are told what concerns them
Attends(m, conn) == \A h : Hears(client, h, m, conn) => LimboInv(log, h, disk)

\* The requests about t, and whether it is served, are in conn as they are
StillAsked(conn, t) ==
    /\ Asked(conn.requests, t) = Asked(client.conn.requests, t)
    /\ t \in DOMAIN conn.served <=> t \in DOMAIN client.conn.served

\* A limbo target the message is not about.
LEMMA UntoldFollows ==
    ASSUME IInv, client.stream = "Open", NEW m, NEW conn, NEW h, Hears(client, h, m, conn),
           NEW t, Follow(log, client, disk, t), StateOf(h, t) = StateOf(client, t),
           StillAsked(conn, t), t \in DOMAIN conn.served => conn.served[t] = client.conn.served[t],
           There(log, t.key, conn.at) = There(log, t.key, client.conn.at)
    PROVE  Follow(log, h, disk, t)
  <1> DEFINE s == client
  <1>1. /\ h.conn = conn /\ h.stream = "Open" /\ h.targets = s.targets /\ h.limbo = s.limbo
        /\ t.key \in DOMAIN s.docs => t.key \in DOMAIN h.docs
    BY DEF Hears, Collects
  <1>2. Len(log) \in Nat
    BY DEF IInv
  <1> HIDE DEF s
  <1>3. Stays(s, h, t)
    BY <1>1 DEF Stays, Unmoved, StillAsked, s
  <1>4. Follow(log, s, disk, t) /\ s.stream = "Open"
    BY DEF s
  <1> QED  BY <1>1, <1>2, <1>3, <1>4, FollowStays DEF StillAsked, s

\* One that waits for answers, or is not served.
LEMMA UnheardFollows ==
    ASSUME NEW m, NEW conn, NEW h, Hears(client, h, m, conn), client.stream = "Open",
           NEW t, Follow(log, client, disk, t), StateOf(h, t) = StateOf(client, t),
           StillAsked(conn, t), ~Hearing(client, t)
    PROVE  Follow(log, h, disk, t)
  <1> DEFINE s == client
  <1>1. /\ h.conn = conn /\ h.stream = "Open" /\ h.targets = s.targets /\ h.limbo = s.limbo
        /\ t.key \in DOMAIN s.docs => t.key \in DOMAIN h.docs
    BY DEF Hears, Collects
  <1>2. Gathers(h, t)
    BY <1>1 DEF Follow, Gathers
  <1>3. Resumable(log, h, t) /\ Present(h, t)
    BY <1>1 DEF Follow, Resumable, Tells, Present, StillAsked
  <1>4. ~Hearing(h, t)
    BY <1>1 DEF Hearing, StillAsked
  <1> QED  BY <1>2, <1>3, <1>4 DEF Follow, Knows, Misses, Resolves

\* One that is told of its document.
LEMMA ToldFollows ==
    ASSUME IInv, NEW m, NEW conn, NEW h, Hears(client, h, m, conn), client.stream = "Open",
           NEW t \in DOMAIN client.limbo, Follow(log, client, disk, t), Hearing(client, t),
           NEW there, there <=> There(log, t.key, conn.at),
           StateOf(h, t) = Redocumented(client, t.key, there, t), t.key \in DOMAIN h.docs,
           StillAsked(conn, t), conn.served[t].current => client.conn.served[t].current
    PROVE  Follow(log, h, disk, t)
  <1> DEFINE s == client
             a == StateOf(s, t)
             b == StateOf(h, t)
             changes == ChangesWith(s, t.key, there, t)
  <1>1. h.conn = conn /\ h.stream = "Open" /\ h.targets = s.targets /\ h.limbo = s.limbo
    BY DEF Hears
  <1>2. s \in Client /\ a \in TargetState /\ a.changes \in Partial(Doc, Type)
    BY StateOfIs DEF IInv, Good, Sound, Steady, TargetState
  <1>3. b.pending /\ b.changes = changes /\ b.out = a.out /\ b.current = a.current
    BY <1>2 DEF Redocumented, TargetState
  <1>4. \A k \in DOMAIN a.changes : k = t.key
    BY DEF Follow, Gathers
  <1>5. /\ \A k \in DOMAIN changes : k = t.key
        /\ there => t.key \in DOMAIN changes /\ changes[t.key] # "Removed"
    <2> DEFINE c == a.changes
               type == IF t.key \in RemoteKeys(s, t) THEN "Modified" ELSE "Added"
    <2>1. /\ \A x : DOMAIN Only(t.key, x) = {t.key} /\ Only(t.key, x)[t.key] = x
          /\ \A k \in DOMAIN Without(c, t.key) : k \in DOMAIN c
      <3> HIDE DEF c
      <3>1. \A k \in DOMAIN Without(c, t.key) : k \in DOMAIN c
        BY DEF Without, Restrict
      <3> QED  BY <3>1 DEF Only
    <2>2. type # "Removed"
      OBVIOUS
    <2>3. there => changes = Only(t.key, type) ++ c
      BY DEF ChangesWith
    <2>4. ~there => changes = Only(t.key, "Removed") ++ c \/ changes = Without(c, t.key)
      BY DEF ChangesWith
    <2> HIDE DEF changes, a, c, type
    <2> QED  BY <1>4, <2>1, <2>2, <2>3, <2>4, OverKeys DEF c
  <1> HIDE DEF a, b, changes
  <1>6. Gathers(h, t)
    BY <1>1, <1>3, <1>5 DEF Gathers, Hearing, a, b
  <1>7. Knows(log, h, t)
    BY <1>1, <1>3, <1>5 DEF Knows, Has, b
  <1>8. Resumable(log, h, t) /\ Present(h, t) /\ Misses(log, h, disk, t)
    BY <1>1 DEF Follow, Resumable, Tells, Present, StillAsked, Misses
  <1>9. Resolves(h, disk, t)
    BY <1>1, <1>3 DEF Follow, Resolves, Hearing, StillAsked, a, b
  <1> QED  BY <1>6, <1>7, <1>8, <1>9 DEF Follow

\* A limbo target that is current gets the token of a snapshot.
LEMMA TokenComes ==
    ASSUME IInv, NEW m, m.kind = "NoChange", m.token # 0, NEW conn, NEW h,
           Hears(client, h, m, conn), NEW t \in DOMAIN h.limbo, Hearing(h, t),
           StateOf(h, t).current
    PROVE  StateOf(h, t).pending /\ StateOf(h, t).token = m.token
  <1> DEFINE a == StateOf(client, t)
             b == StateOf(h, t)
  <1>1. /\ client \in Client /\ t \in DOMAIN client.limbo /\ t \in DOMAIN client.targets
    BY DEF IInv, Good, Sound, Steady, Wanted, WantedBut, Hears
  <1>2. a \in TargetState /\ (t \notin DOMAIN client.states => a.current = FALSE)
    BY <1>1, StateOfIs
  <1>3. b = Reaction(client, m, t)
    BY <1>1 DEF Hears, Collects, Reacts
  <1>4. a.out = 0
    <2>1. b.out = a.out - 0 /\ b.out = 0 /\ a.out \in Int
      BY <1>2 DEF Hears, Collects, AnswersOf, Hearing, TargetState
    <2> QED  BY <2>1
  <1>5. IsActive(client, t)
    BY <1>1, <1>4 DEF IsActive
  <1> HIDE DEF a, b
  <1>6. b = IF t \in DOMAIN client.states THEN UpdateResumeToken(a, m.token) ELSE a
    BY <1>3, <1>5 DEF Reaction, a
  <1>7. b.current
    BY DEF b
  <1>8. t \in DOMAIN client.states
    BY <1>2, <1>6, <1>7
  <1>9. b = [a EXCEPT !.pending = TRUE, !.token = m.token]
    BY <1>6, <1>8 DEF UpdateResumeToken
  <1>10. b.pending /\ b.token = m.token
    BY <1>2, <1>9 DEF TargetState
  <1> QED  BY <1>10 DEF b

\* A message told truly and in time keeps what is known of the cache.
LEMMA TakesIs ==
    ASSUME IInv, NEW m, NEW conn, Takes(m, conn), UNCHANGED log, raced \subseteq raced',
           CacheInv => Timely(log, m, conn),
           CacheInv /\ "overtaken" \notin raced' => Truthful(log, m, conn),
           CacheInv /\ Heeded(raced') => Attends(m, conn),
           m.version # 0 => Consistent(m, conn) /\ (CacheInv => Truthful(log, m, conn))
    PROVE  CacheKept
  <1> SUFFICES ASSUME CacheInv PROVE CacheInv' /\ CacheStays
    BY DEF CacheKept
  <1> DEFINE s == client
  <1>1. /\ Streamed(log, s) /\ Dated(log, disk) /\ Timely(log, m, conn)
        /\ "overtaken" \notin raced' =>
              Counted(s) /\ Vouched(log, s) /\ Truthful(log, m, conn)
        /\ "overtaken" \notin raced => Counted(s) /\ Vouched(log, s)
        /\ Heeded(raced') => Attends(m, conn) /\ "overtaken" \notin raced'
    BY DEF CacheInv, Heeded
  <1>2. s.conn.at \in Version /\ \A k \in DOMAIN s.docs : s.docs[k].at \in Nat
    <2>1. s \in Client
      BY DEF IInv, Good, Sound, Steady
    <2>2. s.docs \in Partial(Doc, DocState) /\ s.conn \in AnyConn
      BY <2>1 DEF Client
    <2>3. \A k \in DOMAIN s.docs : s.docs[k] \in DocState
      BY <2>2, PartialIs
    <2> QED  BY <2>2, <2>3 DEF AnyConn, DocState
  <1> HIDE DEF s
  <1>3. ASSUME NEW h, Hears(s, h, m, conn)
        PROVE  /\ Streamed(log, h) /\ (Counted(s) => Counted(h))
               /\ (Counted(s) /\ Vouched(log, s) /\ Truthful(log, m, conn)) => Vouched(log, h)
    BY <1>1, <1>2, <1>3, HearsIs DEF s
  <1>4. CASE Hears(s, client', m, conn) /\ disk' = disk
    <2>1. Dated(log, disk') /\ CacheStays
      BY <1>1, <1>4, UncachedIs DEF Uncached, IInv
    <2>2. /\ Streamed(log, client')
          /\ "overtaken" \notin raced' => Counted(client') /\ Vouched(log, client')
      BY <1>1, <1>3, <1>4
    <2>3. Heeded(raced') => LimboInv(log, client', disk)
      BY <1>1, <1>4 DEF Attends, s
    <2>4. Heeded(raced') => LimboInv(log, client', disk')
      BY <1>4, <2>3
    <2> QED  BY <2>1, <2>2, <2>4 DEF CacheInv
  <1>5. ASSUME m.version # 0, m.version >= disk.last, NEW h, Hears(s, h, m, conn),
               Good(h), Snapshot(h, client', disk', m.version),
               Raises(h, client', disk', m.version)
        PROVE  CacheInv' /\ CacheStays
    <2>1. /\ m.version = conn.at /\ conn.at \in 1 .. Len(log) /\ Truthful(log, m, conn)
          /\ \A t \in DOMAIN conn.served : conn.served[t].current
          /\ h.conn = conn
      BY <1>1, <1>5 DEF Consistent, Timely, Hears
    <2>2. /\ Streamed(log, h) /\ (Counted(s) => Counted(h))
          /\ Counted(s) /\ Vouched(log, s) => Vouched(log, h)
      BY <1>3, <1>5, <2>1
    <2>3. \A k \in DOMAIN h.docs : h.docs[k].at \in Nat
      BY <1>2, <1>5 DEF Hears, Collects, Consistent, s
    <2>4. Dated(log, disk') /\ CacheStays
      BY <1>1, <1>5, <2>1, <2>2, <2>3, SnapshotStays DEF IInv
    <2> DEFINE u == client'
    <2>5. /\ u.docs = None /\ u.stream = "Open" /\ u.conn.at = conn.at
          /\ u.conn.served = conn.served /\ (Counted(h) => Counted(u))
      BY <1>5, <2>1 DEF Snapshot
    <2> HIDE DEF u
    <2>6. Streamed(log, u) /\ Vouched(log, u)
      <3>1. DOMAIN None = {}
        BY NoneIs
      <3> QED  BY <1>1, <2>5, <3>1 DEF Streamed, Timely, OwesRightly, Vouched
    <2>7. ASSUME Heeded(raced') PROVE LimboInv(log, u, disk')
      <3>1. Counted(h) /\ Vouched(log, h) /\ LimboInv(log, h, disk)
        BY <1>1, <1>5, <2>2, <2>7 DEF Attends, s
      <3>2. /\ \A t \in DOMAIN h.limbo : Hearing(h, t) /\ StateOf(h, t).current =>
                  StateOf(h, t).pending /\ StateOf(h, t).token = m.version
            /\ h.stream = "Open" /\ h.conn.at = m.version
        BY <1>5, <2>1, TokenComes DEF Consistent, s, Hears
      <3>3. disk \in AnyDisk /\ log \in Seq([doc: Doc, there: BOOLEAN])
        BY DEF IInv
      <3> QED  BY <1>1, <1>5, <2>1, <2>2, <2>3, <3>1, <3>2, <3>3, SnapshotFollows DEF u
    <2> QED  BY <1>1, <2>2, <2>4, <2>5, <2>6, <2>7 DEF CacheInv, u
  <1> QED  BY <1>4, <1>5 DEF Takes, s

\* A target is refused that has no document any more, at no version the backend may see.
LEMMA RefusedIs ==
    ASSUME IInv, Connected, NEW t \in Target, NEW conn, Forgets(t, conn), UNCHANGED log,
           Good(client'), raced \subseteq raced', conn.requests = Conn.requests, conn.at = Conn.at,
           \A x \in DOMAIN conn.served :
              x \in DOMAIN Conn.served /\ conn.served[x] = Conn.served[x],
           \A x \in DOMAIN Conn.served : x # t => x \in DOMAIN conn.served,
           t \in Query \/ \A v \in Conn.at .. Len(log) : Result(t, v) = {},
           "overtaken" \notin raced' => NothingDropped /\ StateOf(client, t).out = 0
    PROVE  CacheKept
  <1> SUFFICES ASSUME CacheInv PROVE CacheInv' /\ CacheStays
    BY DEF CacheKept
  <1> DEFINE s == client
             u == client'
  <1>1. /\ u.docs = s.docs /\ u.stream = "Open" /\ u.conn.at = conn.at
        /\ u.conn.served = conn.served /\ t \notin DOMAIN u.targets
        /\ \A x \in DOMAIN s.targets :
              x \in DOMAIN u.targets => StateOf(u, x).out = StateOf(s, x).out
        /\ (Counted(s) /\ conn.requests = s.conn.requests /\ StateOf(s, t).out = 0)
              => Counted(u)
        /\ Uncaches(t)
        /\ conn.requests = s.conn.requests => Resumes(s, u)
    BY DEF Forgets
  <1>2. /\ Streamed(log, s) /\ Dated(log, disk) /\ s.stream = "Open"
        /\ "overtaken" \notin raced' =>
              Counted(s) /\ Vouched(log, s) /\ NothingDropped /\ StateOf(s, t).out = 0
        /\ conn.requests = s.conn.requests /\ conn.at = s.conn.at
        /\ \A x \in DOMAIN conn.served :
              x \in DOMAIN s.conn.served /\ conn.served[x] = s.conn.served[x]
        /\ \A x \in DOMAIN s.conn.served : x # t => x \in DOMAIN conn.served
        /\ Heeded(raced') => LimboInv(log, s, disk)
    BY DEF CacheInv, Connected, Conn, Heeded
  <1>3. Dated(log, disk') /\ CacheStays
    <2>1. ASSUME NEW k \in Doc
          PROVE  /\ disk'.cache[k].at <= disk'.last /\ True(log, k, disk'.cache[k])
                 /\ \/ disk'.cache[k].at >= disk.cache[k].at
                    \/ /\ disk'.cache[k] = Unknown
                       /\ \/ ~disk.cache[k].there \/ disk.cache[k] # At(k, Len(log))
                          \/ "overtaken" \in raced
      <3>1. /\ disk'.last = disk.last /\ disk.last \in Nat
            /\ disk.cache[k].at \in Nat /\ disk.cache[k].at <= disk.last
            /\ True(log, k, disk.cache[k])
        BY <1>1, <1>2, TargetsAssumption DEF Uncaches, AnyDisk, DocState, Dated, Version, IInv
      <3>2. CASE disk'.cache[k] = disk.cache[k]
        BY <3>1, <3>2
      <3>3. CASE t \notin Query /\ k = t.key /\ disk'.cache[k] = Unknown
        <4>1. Conn.at <= Len(log) /\ Conn.at \in Nat /\ Len(log) \in Nat
          BY <1>2 DEF Streamed, Conn, IInv
        <4>2. Result(t, Len(log)) = {}
          BY <3>3, <4>1
        <4>3. ~At(k, Len(log)).there
          BY <3>3, <4>2 DEF Result, KeysOf
        <4>4. disk'.cache[k].at = 0 /\ True(log, k, disk'.cache[k])
          BY <3>3 DEF Unknown, True
        <4> QED  BY <3>1, <3>3, <4>3, <4>4
      <3> QED  BY <1>1, <3>2, <3>3 DEF Uncaches
    <2>2. disk'.last <= Len(log)
      BY <1>1, <1>2 DEF Uncaches, Dated
    <2> QED  BY <2>1, <2>2 DEF Dated, CacheStays
  <1>4. /\ Len(log) \in Nat /\ Numbered(s, DOMAIN s.conn.served) /\ s.nextLimbo \in Nat
        /\ \A x \in DOMAIN u.limbo : x # t /\ x.key \in Doc
    <2>1. u \in Client /\ \A x \in DOMAIN u.limbo : x \in DOMAIN u.targets
      BY DEF Good, Sound, Steady, Wanted, WantedBut
    <2>2. \A x \in DOMAIN u.limbo : x # t /\ x.key \in Doc
      BY <1>1, <2>1, LimboAre
    <2> QED
      BY <2>2, TargetsAssumption DEF IInv, Version, Good, Sound, Steady, AllNumbered, Client
  <1>5. \A x \in DOMAIN u.limbo : disk.cache[x.key].there \/ ~disk'.cache[x.key].there
    BY <1>1, <1>4 DEF Uncaches, Unknown
  <1> HIDE DEF s, u
  <1>6. Heeded(raced') => LimboInv(log, u, disk')
    BY <1>1, <1>2, <1>4, <1>5, LimboResumes
  <1>7. Streamed(log, u)
    BY <1>1, <1>2 DEF Streamed, OwesRightly
  <1>8. ASSUME "overtaken" \notin raced' PROVE Counted(u) /\ Vouched(log, u)
    <2>1. ASSUME NEW k \in DOMAIN u.docs PROVE \E x : Vouches(log, u, x, k)
      <3>1. PICK x : Vouches(log, s, x, k)
        BY <1>1, <1>2, <1>8, <2>1 DEF Vouched
      <3>2. x \in DOMAIN s.targets /\ k \in KeysOf(x) /\ StateOf(s, x).out = 0
        BY <3>1 DEF Vouches, Honest, IsActive
      <3>3. x \in DOMAIN u.targets
        BY <1>1, <1>2, <1>8, <2>1, <3>2 DEF NothingDropped, s, u
      <3>4. IsActive(u, x) /\ x # t
        BY <1>1, <3>2, <3>3 DEF IsActive
      <3>5. Honest(log, u.conn, x, k, u.docs[k])
        BY <1>1, <1>2, <3>1, <3>4 DEF Vouches, Honest, Says
      <3> QED  BY <3>4, <3>5 DEF Vouches
    <2> QED  BY <1>1, <1>2, <1>8, <2>1 DEF Vouched
  <1> QED  BY <1>3, <1>7, <1>8, <1>6 DEF CacheInv, u

\* What is told of the target t alone is true, if t is owed x.owed from now on
TruthfulOf(t, x, m) ==
    /\ \A k : Writes(client, m, k) =>
          IsActive(client, t) /\ k \in KeysOf(t) /\ Says(log, Conn, k, Written(m))
    /\ \A k \in DOMAIN client.docs :
          Vouches(log, client, t, k) /\ ~Writes(client, m, k) =>
             k \in x.owed \/ Says(log, Conn, k, client.docs[k])

\* The message m is for the target t alone
Concerns(m, t) ==
    /\ m.kind \notin {"NoChange", "Removed"}
    /\ IF m.kind = "Doc" THEN m.ids = {t} ELSE m.id = t

\* If t is a limbo target, it is told what concerns it
AttendsTo(t, m, conn) ==
    t \in DOMAIN client.limbo => \A h : Hears(client, h, m, conn) => Follow(log, h, disk, t)

\* What is known of a limbo target.
LEMMA LimboKnown ==
    ASSUME IInv, CacheInv, Heeded(raced), NEW t \in DOMAIN client.limbo
    PROVE  /\ Follow(log, client, disk, t) /\ Counted(client)
           /\ t \in Target /\ t \notin Query /\ KeysOf(t) = {t.key} /\ IsDocumentQuery(t)
           /\ t.key \in Doc /\ client.limbo[t] \in BOOLEAN /\ StateOf(client, t) \in TargetState
           /\ IsActive(client, t) <=> StateOf(client, t).out = 0
           /\ RemoteKeys(client, t) = IF client.limbo[t] THEN {t.key} ELSE {}
  <1>1. client \in Client /\ t \in DOMAIN client.targets
    BY DEF IInv, Good, Sound, Steady, Wanted, WantedBut
  <1>2. /\ t \in LimboTarget /\ t \in Target /\ t.key \in Doc /\ client.limbo[t] \in BOOLEAN
        /\ StateOf(client, t) \in TargetState /\ t \notin DOMAIN client.views
    BY <1>1, LimboAre, StateOfIs
  <1>3. t \notin Query
    BY <1>2, TargetsDiffer
  <1>4. Follow(log, client, disk, t) /\ Counted(client)
    BY DEF CacheInv, Heeded, LimboInv
  <1>5. KeysOf(t) = {t.key} /\ IsDocumentQuery(t)
    BY <1>3 DEF KeysOf, IsDocumentQuery
  <1>6. IsActive(client, t) <=> StateOf(client, t).out = 0
    BY <1>1 DEF IsActive
  <1>7. RemoteKeys(client, t) = IF client.limbo[t] THEN {t.key} ELSE {}
    BY <1>2 DEF RemoteKeys
  <1> QED  BY <1>2, <1>3, <1>4, <1>5, <1>6, <1>7

\* What the connection is like, of which t is served x from now on.
LEMMA ReservedIs ==
    ASSUME IInv, NEW t, Serves(t), NEW x, NEW quiet, NEW conn, Reserved(conn, t, x, quiet)
    PROVE  /\ client.stream = "Open" /\ Conn = client.conn
           /\ conn.at = Conn.at /\ conn.requests = Conn.requests
           /\ DOMAIN conn.served = DOMAIN Conn.served /\ t \in DOMAIN Conn.served
           /\ conn.served[t] = x
           /\ \A y \in DOMAIN Conn.served : y # t => conn.served[y] = Conn.served[y]
  <1> DEFINE served == [Conn.served EXCEPT ![t] = x]
  <1>1. /\ Conn \in AnyConn /\ t \in DOMAIN Conn.served /\ client.stream = "Open"
    BY ConnIs DEF Serves
  <1>2. /\ DOMAIN served = DOMAIN Conn.served /\ served[t] = x
        /\ \A y \in DOMAIN served : y # t => served[y] = Conn.served[y]
    BY <1>1
  <1> HIDE DEF served
  <1>3. conn = [Conn EXCEPT !.served = served, !.quiet = quiet]
    BY DEF Reserved, served
  <1>4. conn.at = Conn.at /\ conn.requests = Conn.requests /\ conn.served = served
    <2> HIDE DEF Conn
    <2> QED  BY <1>1, <1>3 DEF AnyConn
  <1> QED  BY <1>1, <1>2, <1>4 DEF Conn

\* A message for t does not change the state of another limbo target.
LEMMA OthersReact ==
    ASSUME NEW m, NEW t, Concerns(m, t), NEW conn, NEW h, Hears(client, h, m, conn),
           NEW y \in DOMAIN client.limbo, y # t
    PROVE  StateOf(h, y) = StateOf(client, y)
  <1>1. StateOf(h, y) = Reaction(client, m, y)
    BY DEF Hears, Collects, Reacts, Concerns
  <1>2. /\ m.kind # "NoChange" /\ (m.kind = "Doc" => y \notin m.ids)
        /\ m.kind # "Doc" => m.id # y
    BY DEF Concerns
  <1> QED  BY <1>1, <1>2 DEF Reaction

\* One that waits for answers, and is told something, stays as it is.
LEMMA InactiveFollows ==
    ASSUME IInv, CacheInv, Heeded(raced), NEW t \in DOMAIN client.limbo, Serves(t), NEW x,
           NEW quiet, NEW conn, Reserved(conn, t, x, quiet), NEW m, Concerns(m, t),
           m.kind # "Added", NEW h, Hears(client, h, m, conn), StateOf(client, t).out # 0
    PROVE  Follow(log, h, disk, t)
  <1>1. Follow(log, client, disk, t) /\ ~IsActive(client, t)
    BY LimboKnown
  <1>2. StateOf(h, t) = StateOf(client, t)
    <2>1. StateOf(h, t) = Reaction(client, m, t)
      BY DEF Hears, Collects, Reacts, Concerns
    <2>2. m.kind # "Added" /\ m.kind # "NoChange"
      BY DEF Concerns
    <2> QED  BY <1>1, <2>1, <2>2 DEF Reaction
  <1>3. StillAsked(conn, t) /\ client.stream = "Open"
    BY ReservedIs DEF StillAsked
  <1>4. ~Hearing(client, t)
    BY DEF Hearing
  <1> QED  BY <1>1, <1>2, <1>3, <1>4, UnheardFollows

\* A message about a target that is served keeps what is known of the cache.
LEMMA ServedIs ==
    ASSUME IInv, NEW t, Serves(t), NEW x, NEW quiet,
           NEW conn, Reserved(conn, t, x, quiet), NEW m, Takes(m, conn), UNCHANGED log,
           raced \subseteq raced', m.version = 0, m.kind # "Added", Concerns(m, t),
           CacheInv /\ Heeded(raced') => AttendsTo(t, m, conn),
           CacheInv => x.owed \subseteq KeysOf(t) /\ (x.current => x.owed = {} /\ x.counted),
           CacheInv => \A k : Writes(client, m, k) =>
                          Written(m).at <= Conn.at /\ True(log, k, Written(m)),
           CacheInv /\ "overtaken" \notin raced' => TruthfulOf(t, x, m)
    PROVE  CacheKept
  <1> DEFINE served == [Conn.served EXCEPT ![t] = x]
             s == client
  <1>1. /\ Conn \in AnyConn /\ Conn.requests \in Seq(AnyRequest)
        /\ t \in DOMAIN Conn.served /\ s.stream = "Open" /\ Conn = s.conn /\ Conn.at \in Version
    BY ConnIs DEF Serves, Conn
  <1>2. /\ DOMAIN served = DOMAIN Conn.served /\ served[t] = x
        /\ \A y \in DOMAIN served : y # t => served[y] = Conn.served[y]
    BY <1>1
  <1> HIDE DEF served
  <1>3. conn = [Conn EXCEPT !.served = served, !.quiet = quiet]
    BY DEF Reserved, served
  <1> HIDE DEF s
  <1>4. /\ conn.at = s.conn.at /\ conn.requests = s.conn.requests /\ conn.served = served
        /\ s.conn.at \in Nat /\ s.conn.requests \in Seq(AnyRequest)
    <2> HIDE DEF Conn
    <2> QED  BY <1>1, <1>3, TargetsAssumption DEF AnyConn, Version
  <1>5. ASSUME CacheInv PROVE Timely(log, m, conn)
    <2>1. Streamed(log, s)
      BY <1>5 DEF CacheInv, s
    <2>2. OwesRightly(conn)
      BY <1>1, <1>2, <1>4, <1>5, <2>1 DEF Streamed, OwesRightly
    <2>3. \A y : Mentions(conn.requests, y) = Mentions(s.conn.requests, y) - AnswersOf(m, y)
      <3> SUFFICES ASSUME NEW y
                   PROVE Mentions(conn.requests, y)
                            = Mentions(s.conn.requests, y) - AnswersOf(m, y)
        OBVIOUS
      <3>1. Mentions(s.conn.requests, y) \in Nat
        BY <1>4, MentionsAre
      <3>2. AnswersOf(m, y) = 0
        BY DEF AnswersOf, Concerns
      <3> QED  BY <1>4, <3>1, <3>2
    <2>4. conn.at \in 1 .. Len(log) /\ s.conn.at <= conn.at
      BY <1>1, <1>4, <2>1 DEF Streamed
    <2>5. \A k : Writes(s, m, k) => Written(m).at <= conn.at /\ True(log, k, Written(m))
      BY <1>1, <1>4, <1>5 DEF s
    <2> QED  BY <1>4, <2>2, <2>3, <2>4, <2>5 DEF Timely, s
  <1>6. ASSUME CacheInv, "overtaken" \notin raced' PROVE Truthful(log, m, conn)
    <2>1. TruthfulOf(t, x, m)
      BY <1>6
    <2>2. ASSUME NEW k, Writes(s, m, k)
          PROVE  IsActive(s, t) /\ Honest(log, conn, t, k, Written(m))
      BY <1>1, <1>2, <1>4, <2>1, <2>2 DEF TruthfulOf, Honest, Says, s
    <2>3. ASSUME NEW k \in DOMAIN s.docs, NEW y, Vouches(log, s, y, k), ~Writes(s, m, k)
          PROVE  Honest(log, conn, y, k, s.docs[k])
      <3>1. Honest(log, s.conn, y, k, s.docs[k])
        BY <2>3 DEF Vouches
      <3>2. CASE y = t
        BY <1>1, <1>2, <1>4, <2>1, <2>3, <3>1, <3>2 DEF TruthfulOf, Honest, Says, s
      <3>3. CASE y # t
        BY <1>1, <1>2, <1>4, <3>1, <3>3 DEF Honest, Says
      <3> QED  BY <3>2, <3>3
    <2> QED  BY <2>3, <2>2 DEF Truthful, s
  <1>7. ASSUME CacheInv, Heeded(raced') PROVE Attends(m, conn)
    <2> SUFFICES ASSUME NEW h, Hears(s, h, m, conn), NEW y \in DOMAIN s.limbo
                 PROVE  Follow(log, h, disk, y)
      BY DEF Attends, LimboInv, Hears, s
    <2>1. CASE y = t
      BY <1>7, <2>1 DEF AttendsTo, s
    <2>2. CASE y # t
      <3>1. Heeded(raced)
        BY <1>7 DEF Heeded
      <3>2. Follow(log, s, disk, y) /\ StateOf(h, y) = StateOf(s, y)
        BY <1>7, <2>2, <3>1, LimboKnown, OthersReact DEF s
      <3>3. StillAsked(conn, y) /\ (y \in DOMAIN conn.served => conn.served[y] = s.conn.served[y])
        BY <1>1, <1>2, <1>4, <2>2 DEF StillAsked, s
      <3>4. conn.at = s.conn.at /\ s.stream = "Open"
        BY <1>1, <1>4
      <3> QED  BY <3>2, <3>3, <3>4, UntoldFollows DEF s
    <2> QED  BY <2>1, <2>2
  <1> QED  BY <1>5, <1>6, <1>7, TakesIs

\* The answer to the request the backend serves, after which the targets but its own
\* are served as they were: what is known of the cache stays.
LEMMA AnswerIs ==
    ASSUME IInv, Requested, NEW m, NEW conn, Takes(m, conn), UNCHANGED log,
           raced \subseteq raced', m.version = 0, m.kind \in {"Added", "Removed"},
           m.id = Request.id, conn.requests = Tail(Conn.requests), conn.at = Conn.at,
           \A y \in DOMAIN conn.served :
              y # m.id => y \in DOMAIN Conn.served /\ conn.served[y] = Conn.served[y],
           \A y \in DOMAIN Conn.served : y # m.id => y \in DOMAIN conn.served,
           m.id \in DOMAIN conn.served =>
              /\ conn.served[m.id].owed \subseteq KeysOf(m.id)
              /\ ~conn.served[m.id].current,
           CacheInv /\ Heeded(raced') => AttendsTo(m.id, m, conn)
    PROVE  CacheKept
  <1> DEFINE s == client
             q == Conn.requests
  <1>1. /\ s.stream = "Open" /\ Conn = s.conn /\ q \in Seq(AnyRequest) /\ q # <<>>
        /\ Conn.at \in Nat
    BY ConnIs, TargetsAssumption DEF Requested, Conn, Version
  <1>2. /\ Tail(q) \in Seq(AnyRequest) /\ Mentions(q, m.id) = Mentions(Tail(q), m.id) + 1
        /\ \A t : t # m.id => Mentions(Tail(q), t) = Mentions(q, t)
    BY <1>1, MentionsTail DEF Request
  <1>3. \A t : Mentions(Tail(q), t) \in Nat
    BY <1>2, MentionsAre
  <1>4. \A k : ~Writes(s, m, k)
    BY DEF Writes
  <1> HIDE DEF s, q, Conn
  <1>5. ASSUME CacheInv PROVE Timely(log, m, conn)
    <2>1. Streamed(log, s)
      BY <1>5 DEF CacheInv, s
    <2>2. OwesRightly(conn)
      <3> SUFFICES ASSUME NEW y \in DOMAIN conn.served
                   PROVE  /\ conn.served[y].owed \subseteq KeysOf(y)
                          /\ conn.served[y].current =>
                                conn.served[y].owed = {} /\ conn.served[y].counted
        BY DEF OwesRightly
      <3>1. CASE y = m.id
        BY <3>1
      <3>2. CASE y # m.id
        BY <1>1, <2>1, <3>2 DEF Streamed, OwesRightly
      <3> QED  BY <3>1, <3>2
    <2>3. \A t : Mentions(conn.requests, t) = Mentions(q, t) - AnswersOf(m, t)
      BY <1>2, <1>3 DEF AnswersOf, q
    <2>4. conn.at \in 1 .. Len(log) /\ Conn.at <= conn.at
      BY <1>1, <2>1 DEF Streamed
    <2>5. conn.requests \in Seq(AnyRequest) /\ s.conn.requests \in Seq(AnyRequest)
      BY <1>1, <1>2 DEF q
    <2> QED  BY <1>1, <1>4, <2>2, <2>3, <2>4, <2>5 DEF Timely, s, q
  <1>6. ASSUME CacheInv, "overtaken" \notin raced' PROVE Truthful(log, m, conn)
    <2>1. Counted(s)
      BY <1>6 DEF CacheInv, s
    <2>2. ASSUME NEW k, NEW t, Vouches(log, s, t, k)
          PROVE  Honest(log, conn, t, k, s.docs[k])
      <3>1. StateOf(s, t).out = 0 /\ Honest(log, Conn, t, k, s.docs[k])
        BY <1>1, <2>2 DEF Vouches, IsActive
      <3>2. t # m.id
        BY <1>1, <1>2, <1>3, <2>1, <3>1 DEF Counted, q
      <3> QED  BY <3>1, <3>2 DEF Honest, Says
    <2> QED  BY <1>4, <2>2 DEF Truthful, s
  <1>7. ASSUME CacheInv, Heeded(raced') PROVE Attends(m, conn)
    <2> SUFFICES ASSUME NEW h, Hears(s, h, m, conn), NEW y \in DOMAIN s.limbo
                 PROVE  Follow(log, h, disk, y)
      BY DEF Attends, LimboInv, Hears, s
    <2>1. CASE y = m.id
      BY <1>7, <2>1 DEF AttendsTo, s
    <2>2. CASE y # m.id
      <3>1. Follow(log, s, disk, y)
        BY <1>7 DEF CacheInv, Heeded, LimboInv, s
      <3>2. StateOf(h, y) = StateOf(s, y)
        <4>1. StateOf(h, y) = Reaction(s, m, y)
          BY <2>2 DEF Hears, Collects, Reacts
        <4> QED  BY <2>2, <4>1 DEF Reaction
      <3>3. Asked(Tail(q), y) = Asked(q, y)
        BY <1>1, <2>2, AskedTail DEF Request, q
      <3>4. StillAsked(conn, y) /\ (y \in DOMAIN conn.served => conn.served[y] = s.conn.served[y])
        BY <1>1, <2>2, <3>3 DEF StillAsked, s, q
      <3>5. conn.at = s.conn.at /\ s.stream = "Open"
        BY <1>1
      <3> QED  BY <3>1, <3>2, <3>4, <3>5, UntoldFollows DEF s
    <2> QED  BY <2>1, <2>2
  <1> QED  BY <1>5, <1>6, <1>7, TakesIs

\* A limbo target whose watch request is acknowledged: the document is among what it
\* is owed, if it was changed since the token, and otherwise as it was then.
LEMMA WatchFollows ==
    ASSUME IInv, CacheInv, Heeded(raced), Requested, NEW t, t = Request.id, Request.watch,
           Request.token <= Conn.at, NEW x, ~x.current, x.counted <=> Request.token = 0,
           \A k \in KeysOf(t) : k \notin x.owed /\ There(log, k, Conn.at) =>
              LastIn(log, k, Conn.at) <= Request.token,
           NEW conn, conn.requests = Tail(Conn.requests), conn.at = Conn.at,
           t \in DOMAIN conn.served, conn.served[t] = x,
           NEW m, m.kind = "Added", m.id = t
    PROVE  AttendsTo(t, m, conn)
  <1> DEFINE s == client
             q == Conn.requests
             a == StateOf(s, t)
  <1> SUFFICES ASSUME t \in DOMAIN s.limbo, NEW h, Hears(s, h, m, conn)
               PROVE  Follow(log, h, disk, t)
    BY DEF AttendsTo
  <1>1. /\ s.stream = "Open" /\ Conn = s.conn /\ q \in Seq(AnyRequest) /\ q # <<>>
        /\ Conn.at \in Nat
    BY ConnIs, TargetsAssumption DEF Requested, Conn, Version
  <1>2. /\ Follow(log, s, disk, t) /\ Counted(s) /\ a \in TargetState /\ KeysOf(t) = {t.key}
    BY LimboKnown
  <1>3. /\ h.conn = conn /\ h.stream = "Open" /\ h.targets = s.targets /\ h.limbo = s.limbo
        /\ StateOf(h, t) = Reaction(s, m, t)
    BY DEF Hears, Collects, Reacts
  <1>4. StateOf(h, t) = Acknowledged(s, t)
    BY <1>3 DEF Reaction
  <1>5. /\ Request \in Asked(q, t) /\ Asked(Tail(q), t) \subseteq Asked(q, t)
        /\ Mentions(Tail(q), t) \in Nat /\ Mentions(q, t) = Mentions(Tail(q), t) + 1
    <2> HIDE DEF Conn
    <2>1. /\ Head(q) \in Asked(q, t) /\ Asked(Tail(q), t) \subseteq Asked(q, t)
      BY <1>1, AskedTail DEF Request
    <2>2. Tail(q) \in Seq(AnyRequest) /\ Mentions(q, t) = Mentions(Tail(q), t) + 1
      BY <1>1, MentionsTail DEF Request
    <2> QED  BY <2>1, <2>2, MentionsAre DEF Request
  <1> HIDE DEF q, Conn, Request
  <1>6. a.out # 0
    BY <1>1, <1>2, <1>5 DEF Counted, q
  <1>7. a.changes = None
    BY <1>2, <1>6 DEF Follow, Gathers
  <1>8. StateOf(h, t).changes = None
    <2> HIDE DEF s
    <2> DEFINE b == Answered(s, t)
    <2>1. b.changes = None /\ b \in TargetState
      BY <1>2, <1>7 DEF Answered, TargetState
    <2>2. Acknowledged(s, t) = IF b.out # 0 THEN b
                               ELSE [b EXCEPT !.pending = FALSE, !.changes = None]
      BY DEF Acknowledged
    <2> HIDE DEF b
    <2> QED  BY <1>4, <2>1, <2>2 DEF TargetState
  <1> HIDE DEF a, s
  <1>9. Tells(log, s, t, Request.token) /\ Tells(log, s, t, s.targets[t])
    BY <1>1, <1>2, <1>5 DEF Follow, Resumable, q
  <1>10. DOMAIN None = {}
    BY DEF None
  <1>11. Gathers(h, t)
    BY <1>8, <1>10 DEF Gathers
  <1>12. Knows(log, h, t)
    <2> SUFFICES ASSUME t.key \notin x.owed, There(log, t.key, Conn.at) PROVE s.limbo[t]
      BY <1>3, <1>8, <1>10 DEF Knows, Has
    <2>1. LastIn(log, t.key, Conn.at) <= Request.token
      BY <1>2
    <2>2. Request.token \in Nat
      BY <1>9 DEF Tells
    <2>3. There(log, t.key, Request.token)
      BY <1>1, <2>1, <2>2, Unchanged
    <2> QED  BY <1>9, <2>3 DEF Tells
  <1>13. Misses(log, h, disk, t)
    BY <1>3, <1>9 DEF Misses, Tells
  <1>14. Resumable(log, h, t) /\ Present(h, t) /\ Resolves(h, disk, t)
    BY <1>1, <1>2, <1>3, <1>5 DEF Follow, Resumable, Tells, Present, Resolves, q
  <1> QED  BY <1>11, <1>12, <1>13, <1>14 DEF Follow

\* A watch request is acknowledged.
LEMMA ServeWatchStep ==
    ASSUME IInv, ServeWatch
    PROVE  IInv' /\ CacheKept
  <1> DEFINE t == Request.id
             Owed(forgot) == {d \in KeysOf(t) :
                                 /\ LastChange(d, Conn.at) > Request.token
                                 /\ At(d, Conn.at).there \/ (Request.token # 0 /\ ~forgot)}
             State(forgot) == [owed |-> Owed(forgot), current |-> FALSE,
                               counted |-> Request.token = 0]
             Served0(forgot) == Only(t, State(forgot)) ++ Conn.served
             Conn0(forgot) == [Conn EXCEPT !.requests = Tail(Conn.requests),
                                           !.served = Served0(forgot)]
             m == TargetMessage("Added", t, 0)
  <1>1. /\ Requested /\ Connected /\ Request \in AnyRequest /\ KnownTarget(client, t)
        /\ Conn \in AnyConn /\ Conn.served \in Partial(Target, ServedState)
        /\ \A y \in DOMAIN Conn.served : KnownTarget(client, y) /\ y \in DOMAIN client.states
        /\ Tail(Conn.requests) \in Seq(AnyRequest)
    BY ConnIs, RequestIs DEF ServeWatch
  <1>2. PICK forgot \in BOOLEAN : Tell(m, Conn0(forgot))
    BY Zenon DEF ServeWatch
  <1> DEFINE x == State(forgot)
             served == Served0(forgot)
             conn == Conn0(forgot)
  <1>3. x \in ServedState /\ x.owed \subseteq KeysOf(t) /\ ~x.current
    <2>1. t \in Target
      BY <1>1 DEF KnownTarget
    <2>2. KeysOf(t) \subseteq Doc
      BY <2>1, KeysOfIs
    <2>3. Owed(forgot) \subseteq Doc
      BY <2>2
    <2>4. Owed(forgot) \subseteq KeysOf(t)
      OBVIOUS
    <2> HIDE DEF Owed
    <2> QED  BY <2>3, <2>4 DEF ServedState
  <1> HIDE DEF State
  <1>4. /\ served \in Partial(Target, ServedState)
        /\ \A y : y \in DOMAIN served <=> y = t \/ y \in DOMAIN Conn.served
        /\ served[t] = x /\ \A y \in DOMAIN served : y # t => served[y] = Conn.served[y]
    <2>1. Only(t, x) \in Partial(Target, ServedState)
      BY <1>1, <1>3, OnlyIs DEF KnownTarget
    <2>2. served \in Partial(Target, ServedState)
      BY <1>1, <2>1, OverIs
    <2> QED  BY <2>2 DEF ++, Only
  <1> HIDE DEF Served0
  <1>5. Tell(m, conn)
    BY <1>2
  <1>6. /\ conn \in AnyConn /\ conn.served = served /\ conn.requests = Tail(Conn.requests)
        /\ conn.at = Conn.at
    <2> HIDE DEF Conn
    <2> QED  BY <1>1, <1>4 DEF AnyConn
  <1> HIDE DEF Conn0
  <1>7. KnownConn(client, conn)
    BY <1>1, <1>4, <1>6, ConnKnown
  <1>8. /\ m.kind = "Added" /\ m.id = t /\ m.token = 0 /\ m.version = 0
    BY DEF TargetMessage
  <1> HIDE DEF m
  <1>9. 0 \in Version
    BY TargetsAssumption DEF Version
  <1>10. AnyMessage(client, m) /\ Serving(client, conn, m)
    BY <1>1, <1>4, <1>6, <1>8, <1>9 DEF AnyMessage, TargetChange, Serving
  <1>11. Kept /\ Takes(m, conn)
    BY <1>1, <1>5, <1>7, <1>8, <1>9, <1>10, ToldIs DEF Tell
  <1>12. CacheKept
    <2>1. UNCHANGED <<log, raced>>
      BY <1>5 DEF Tell
    <2>2. x.counted <=> Request.token = 0
      BY DEF State
    <2>3. /\ Request.watch /\ Request.token <= Conn.at /\ t = Request.id
          /\ \A k \in KeysOf(t) : k \notin x.owed /\ There(log, k, Conn.at) =>
                LastIn(log, k, Conn.at) <= Request.token
      <3>1. \A k \in KeysOf(t) : LastChange(k, Conn.at) > Request.token /\ At(k, Conn.at).there
                 => k \in x.owed
        BY DEF State
      <3>2. \A k : LastChange(k, Conn.at) = LastIn(log, k, Conn.at)
        BY DEF LastChange, LastIn
      <3>3. Request.token \in Nat /\ Conn.at \in Nat
        BY <1>1, ConnIs, TargetsAssumption DEF AnyRequest, Version
      <3>4. \A k : LastIn(log, k, Conn.at) \in Nat
        BY <3>3, LastInIs
      <3> HIDE DEF x, Conn
      <3>5. \A k \in KeysOf(t) : k \notin x.owed /\ There(log, k, Conn.at) =>
                LastIn(log, k, Conn.at) <= Request.token
        BY <3>1, <3>2, <3>3, <3>4, AtIn
      <3> QED  BY <3>5 DEF ServeWatch
    <2> HIDE DEF x, t, conn, Conn
    <2>4. ASSUME CacheInv, Heeded(raced') PROVE AttendsTo(t, m, conn)
      <3>1. Heeded(raced)
        BY <2>1, <2>4
      <3>2. t \in DOMAIN conn.served /\ conn.served[t] = x /\ x.owed \subseteq KeysOf(t)
        BY <1>3, <1>4, <1>6
      <3> QED  BY <1>1, <1>3, <1>6, <1>8, <2>2, <2>3, <2>4, <3>1, <3>2, WatchFollows
    <2>5. /\ \A y \in DOMAIN conn.served :
                y # m.id => y \in DOMAIN Conn.served /\ conn.served[y] = Conn.served[y]
          /\ \A y \in DOMAIN Conn.served : y # m.id => y \in DOMAIN conn.served
          /\ m.id \in DOMAIN conn.served =>
                /\ conn.served[m.id].owed \subseteq KeysOf(m.id)
                /\ ~conn.served[m.id].current
      BY <1>3, <1>4, <1>6, <1>8
    <2> QED  BY <1>1, <1>6, <1>8, <1>11, <2>1, <2>3, <2>4, <2>5, AnswerIs
  <1> QED  BY <1>5, <1>11, <1>12, KeptIs DEF Tell, ServeWatch, IInv

\* An unwatch request is acknowledged.
LEMMA ServeUnwatchStep ==
    ASSUME IInv, ServeUnwatch
    PROVE  IInv' /\ CacheKept
  <1> DEFINE t == Request.id
             served == Without(Conn.served, t)
             conn == [Conn EXCEPT !.requests = Tail(Conn.requests), !.served = served]
             m == TargetMessage("Removed", t, 0)
  <1>1. /\ Requested /\ Connected /\ KnownTarget(client, t)
        /\ Conn \in AnyConn /\ Conn.served \in Partial(Target, ServedState)
        /\ \A y \in DOMAIN Conn.served : KnownTarget(client, y) /\ y \in DOMAIN client.states
        /\ Tail(Conn.requests) \in Seq(AnyRequest)
    BY ConnIs, RequestIs DEF ServeUnwatch
  <1>2. Tell(m, conn)
    BY Zenon DEF ServeUnwatch
  <1>3. /\ served \in Partial(Target, ServedState)
        /\ \A y : y \in DOMAIN served <=> y # t /\ y \in DOMAIN Conn.served
        /\ \A y \in DOMAIN served : served[y] = Conn.served[y]
    <2>1. DOMAIN Conn.served \ {t} \subseteq DOMAIN Conn.served
      OBVIOUS
    <2>2. served \in Partial(Target, ServedState)
      BY <1>1, <2>1, RestrictIs DEF Without
    <2> QED  BY <2>2 DEF Without, Restrict
  <1> HIDE DEF served
  <1>4. /\ conn \in AnyConn /\ conn.served = served /\ conn.requests = Tail(Conn.requests)
        /\ conn.at = Conn.at
    <2> HIDE DEF Conn
    <2> QED  BY <1>1, <1>3 DEF AnyConn
  <1> HIDE DEF conn
  <1>5. KnownConn(client, conn)
    BY <1>1, <1>3, <1>4, ConnKnown
  <1>6. m.kind = "Removed" /\ m.id = t /\ m.token = 0 /\ m.version = 0
    BY DEF TargetMessage
  <1> HIDE DEF m
  <1>7. 0 \in Version
    BY TargetsAssumption DEF Version
  <1>8. AnyMessage(client, m) /\ Serving(client, conn, m)
    BY <1>1, <1>3, <1>4, <1>6, <1>7 DEF AnyMessage, TargetChange, Serving
  <1>9. Kept /\ Takes(m, conn)
    BY <1>1, <1>2, <1>5, <1>6, <1>7, <1>8, ToldIs DEF Tell
  <1>10. CacheKept
    <2>1. UNCHANGED <<log, raced>>
      BY <1>2 DEF Tell
    <2>2. ASSUME CacheInv, Heeded(raced') PROVE t \notin DOMAIN client.limbo
      <3> SUFFICES ASSUME t \in DOMAIN client.limbo PROVE FALSE
        OBVIOUS
      <3>1. Heeded(raced)
        BY <2>1, <2>2
      <3>2. \A y \in Asked(client.conn.requests, t) : y.watch
        BY <2>2, <3>1, LimboKnown DEF Follow, Resumable
      <3>3. Conn.requests \in Seq(AnyRequest) /\ Conn.requests # <<>> /\ Conn = client.conn
        BY <1>1, ConnIs DEF Requested, Conn
      <3>4. Request \in Asked(client.conn.requests, t)
        <4> HIDE DEF Conn
        <4> QED  BY <3>3, AskedTail DEF Request
      <3> QED  BY <3>2, <3>4 DEF ServeUnwatch
    <2>3. t = Request.id
      OBVIOUS
    <2> HIDE DEF t, Conn
    <2>4. CacheInv /\ Heeded(raced') => AttendsTo(t, m, conn)
      BY <2>2 DEF AttendsTo
    <2> QED  BY <1>1, <1>3, <1>4, <1>6, <1>9, <2>1, <2>3, <2>4, AnswerIs
  <1> QED  BY <1>2, <1>9, <1>10, KeptIs DEF Tell, ServeUnwatch, IInv

\* A document as of a version has its version.
LEMMA AtIsTrue ==
    ASSUME NEW d, NEW v \in Nat
    PROVE  At(d, v).at \in Nat /\ At(d, v).at <= v /\ True(log, d, At(d, v))
  <1>1. LastIn(log, d, v) \in 0 .. v
    BY LastInIs
  <1>2. There(log, d, LastIn(log, d, v)) = There(log, d, v)
    BY <1>1, Unchanged
  <1> QED  BY <1>1, <1>2, AtIn DEF True

\* A document is delivered.
LEMMA DeliverStep ==
    ASSUME IInv, NEW t, NEW d \in Doc, Deliver(t, d)
    PROVE  IInv' /\ CacheKept
  <1> DEFINE x == [Conn.served[t] EXCEPT !.owed = Conn.served[t].owed \ {d}]
             conn == [Conn EXCEPT !.served = [Conn.served EXCEPT ![t] = x]]
             m == DocMessage(d, Conn.at, {t})
  <1>1. /\ Serves(t) /\ Connected /\ t \in DOMAIN Conn.served /\ Conn \in AnyConn
        /\ KnownTarget(client, t) /\ Conn.served[t] \in ServedState /\ Conn.at \in Version
        /\ Conn.quiet \in BOOLEAN
    BY ConnIs DEF Deliver, Serves
  <1>2. /\ x \in ServedState /\ x.owed = Conn.served[t].owed \ {d}
        /\ x.current = Conn.served[t].current /\ x.counted = Conn.served[t].counted
    BY <1>1 DEF ServedState
  <1>3. Tell(m, conn)
    <2>1. [Conn EXCEPT !.served[t].owed = @ \ {d}] = conn
      <3> HIDE DEF Conn
      <3> QED  BY <1>1 DEF AnyConn, ServedState
    <2> HIDE DEF conn, m
    <2> QED  BY <2>1 DEF Deliver, m
  <1>4. Reserved(conn, t, x, Conn.quiet)
    <2> HIDE DEF Conn, x
    <2> QED  BY <1>1 DEF Reserved, AnyConn
  <1> HIDE DEF conn, x
  <1>5. At(d, Conn.at) \in DocState
    BY <1>1, AtIs, TargetsAssumption DEF Version
  <1>6. AnyMessage(client, m) /\ m.kind # "Removed" /\ m.version = 0
    BY <1>1, <1>5 DEF AnyMessage, DocumentChange, DocMessage
  <1>7. /\ m.kind = "Doc" /\ Written(m) = At(d, Conn.at)
        /\ \A k : Writes(client, m, k) <=> k = d /\ IsActive(client, t)
    BY DEF DocMessage, Written, Writes
  <1> HIDE DEF m
  <1>8. Kept /\ Takes(m, conn)
    BY <1>1, <1>2, <1>3, <1>4, <1>6, ServesIs DEF Tell
  <1>9. ASSUME CacheInv
        PROVE  /\ d \in KeysOf(t) /\ x.owed \subseteq KeysOf(t)
               /\ x.current => x.owed = {} /\ x.counted
    <2>1. /\ Conn.served[t].owed \subseteq KeysOf(t)
          /\ Conn.served[t].current => Conn.served[t].owed = {} /\ Conn.served[t].counted
      BY <1>1, <1>9 DEF CacheInv, Streamed, OwesRightly, Conn
    <2> QED  BY <1>2, <2>1 DEF Deliver
  <1>10. At(d, Conn.at).at <= Conn.at /\ True(log, d, At(d, Conn.at))
    BY <1>1, AtIsTrue, TargetsAssumption DEF Version
  <1>11. ASSUME CacheInv PROVE TruthfulOf(t, x, m)
    <2>1. Says(log, Conn, d, At(d, Conn.at))
      BY AtIn DEF Says
    <2>2. ASSUME NEW k, Vouches(log, client, t, k), ~Writes(client, m, k)
          PROVE  k \in x.owed \/ Says(log, Conn, k, client.docs[k])
      BY <1>2, <1>7, <2>2 DEF Vouches, Honest, Conn
    <2> QED  BY <1>7, <1>9, <1>11, <2>1, <2>2 DEF TruthfulOf
  <1>12. Concerns(m, t) /\ m.kind # "Added" /\ m.key = d /\ m.doc = At(d, Conn.at) /\ m.ids = {t}
    BY DEF Concerns, DocMessage, m
  <1>13. UNCHANGED <<log, raced>>
    BY <1>3 DEF Tell
  <1>14. ASSUME CacheInv, Heeded(raced'), t \in DOMAIN client.limbo,
                NEW h, Hears(client, h, m, conn)
         PROVE  Follow(log, h, disk, t)
    <2>1. Heeded(raced)
      BY <1>13, <1>14
    <2>2. CASE StateOf(client, t).out # 0
      BY <1>1, <1>4, <1>12, <1>14, <2>1, <2>2, InactiveFollows
    <2>3. CASE StateOf(client, t).out = 0
      <3>1. /\ Follow(log, client, disk, t) /\ IsActive(client, t) /\ d = t.key
        BY <1>9, <1>14, <2>1, <2>3, LimboKnown
      <3>2. /\ client.stream = "Open" /\ Conn = client.conn /\ conn.at = Conn.at
            /\ conn.requests = Conn.requests /\ DOMAIN conn.served = DOMAIN Conn.served
            /\ conn.served[t] = x
        BY <1>1, <1>4, ReservedIs
      <3>3. StateOf(h, t) = Redocumented(client, t.key, m.doc.there, t)
        <4>1. StateOf(h, t) = Reaction(client, m, t)
          BY <1>6, <1>14 DEF Hears, Collects, Reacts
        <4> QED  BY <1>7, <1>12, <3>1, <4>1 DEF Reaction
      <3>4. t.key \in DOMAIN h.docs
        BY <1>7, <1>14, <3>1 DEF Hears, Collects
      <3>5. m.doc.there <=> There(log, t.key, conn.at)
        BY <1>12, <3>1, <3>2, AtIn
      <3>6. StillAsked(conn, t) /\ Hearing(client, t)
        BY <1>1, <2>3, <3>2 DEF StillAsked, Hearing
      <3>7. conn.served[t].current => client.conn.served[t].current
        BY <1>2, <3>2
      <3> HIDE DEF Conn
      <3> QED  BY <1>14, <3>1, <3>2, <3>3, <3>4, <3>5, <3>6, <3>7, ToldFollows
    <2> QED  BY <2>2, <2>3
  <1>15. CacheKept
    <2>1. CacheInv /\ Heeded(raced') => AttendsTo(t, m, conn)
      BY <1>14 DEF AttendsTo
    <2> QED
      BY <1>1, <1>4, <1>6, <1>8, <1>7, <1>9, <1>10, <1>11, <1>12, <1>13, <2>1, ServedIs
  <1> QED  BY <1>3, <1>8, <1>15, KeptIs DEF Tell, Deliver, IInv

\* A document query has at most one document.
LEMMA ResultIs ==
    ASSUME NEW t \in Target, NEW v, IsDocumentQuery(t)
    PROVE  /\ Cardinality(Result(t, v)) \in {0, 1}
           /\ Cardinality(Result(t, v)) = 0 => \A k \in KeysOf(t) : ~There(log, k, v)
           /\ Cardinality(Result(t, v)) # 0 => \A k \in KeysOf(t) : There(log, k, v)
  <1>1. PICK k \in Doc : KeysOf(t) = {k}
    BY KeysOfIs
  <1>2. Result(t, v) = {} \/ Result(t, v) = {k}
    BY <1>1 DEF Result
  <1>3. Result(t, v) = {} => \A d \in KeysOf(t) : ~There(log, d, v)
    BY AtIn DEF Result
  <1>4. Result(t, v) = {k} => \A d \in KeysOf(t) : There(log, d, v)
    BY <1>1, AtIn DEF Result
  <1>5. Result(t, v) = {} => Cardinality(Result(t, v)) = 0
    BY FS_EmptySet
  <1>6. Result(t, v) = {k} => Cardinality(Result(t, v)) = 1
    BY FS_Singleton
  <1> QED  BY <1>2, <1>3, <1>4, <1>5, <1>6

\* The client is told how many documents it should have.
LEMMA SendFilterStep ==
    ASSUME IInv, NEW t, SendFilter(t)
    PROVE  IInv' /\ CacheKept
  <1> DEFINE x == [Conn.served[t] EXCEPT !.counted = TRUE]
             conn == [Conn EXCEPT !.served = [Conn.served EXCEPT ![t] = x]]
             count == Cardinality(Result(t, Conn.at))
             m == [kind |-> "Filter", id |-> t, count |-> count, version |-> 0]
  <1>1. /\ Serves(t) /\ Connected /\ t \in DOMAIN Conn.served /\ Conn \in AnyConn
        /\ KnownTarget(client, t) /\ Conn.served[t] \in ServedState
        /\ Conn.quiet \in BOOLEAN /\ t \in DOMAIN client.states
    BY ConnIs DEF SendFilter, Serves
  <1>2. x \in ServedState /\ x.owed = {} /\ x.counted /\ x.current = Conn.served[t].current
    BY <1>1 DEF ServedState, SendFilter
  <1>3. Tell(m, conn)
    <2>1. [Conn EXCEPT !.served[t].counted = TRUE] = conn
      <3> HIDE DEF Conn
      <3> QED  BY <1>1 DEF AnyConn, ServedState
    <2> HIDE DEF conn, m, count
    <2> QED  BY <2>1 DEF SendFilter, m, count
  <1>4. Reserved(conn, t, x, Conn.quiet)
    <2> HIDE DEF Conn, x
    <2> QED  BY <1>1 DEF Reserved, AnyConn
  <1> HIDE DEF conn, x
  <1>5. /\ IsDocumentQuery(t) => count \in {0, 1}
        /\ IsDocumentQuery(t) /\ count = 0 => \A k \in KeysOf(t) : ~There(log, k, Conn.at)
        /\ IsDocumentQuery(t) /\ count # 0 => \A k \in KeysOf(t) : There(log, k, Conn.at)
    BY <1>1, ResultIs DEF KnownTarget
  <1> HIDE DEF count
  <1>6. /\ m.kind = "Filter" /\ Written(m) = Unknown /\ Unknown.at = 0 /\ ~Unknown.there
        /\ \A k : Writes(client, m, k) =>
              IsActive(client, t) /\ IsDocumentQuery(t) /\ count = 0 /\ k \in KeysOf(t)
    BY DEF Written, Writes, Unknown
  <1>12. /\ Concerns(m, t) /\ m.kind # "Added" /\ m.count = count /\ m.id = t
         /\ \A k : IsActive(client, t) /\ IsDocumentQuery(t) /\ count = 0 /\ k \in KeysOf(t) =>
               Writes(client, m, k)
    BY DEF Concerns, Writes
  <1>7. AnyMessage(client, m) /\ m.kind # "Removed" /\ m.version = 0
    BY <1>1, <1>5 DEF AnyMessage, ExistenceFilter
  <1> HIDE DEF m
  <1>8. Kept /\ Takes(m, conn)
    BY <1>1, <1>2, <1>3, <1>4, <1>7, ServesIs DEF Tell
  <1>9. TruthfulOf(t, x, m)
    <2>1. \A k : Writes(client, m, k) =>
             IsActive(client, t) /\ k \in KeysOf(t) /\ Says(log, Conn, k, Written(m))
      BY <1>5, <1>6 DEF Says
    <2>2. \A k : Vouches(log, client, t, k) => Says(log, Conn, k, client.docs[k])
      BY <1>1 DEF Vouches, Honest, Conn, SendFilter
    <2> QED  BY <2>1, <2>2 DEF TruthfulOf
  <1>10. Conn.at >= 0 /\ \A k : True(log, k, Unknown)
    BY <1>1, <1>6, ConnIs, TargetsAssumption DEF Version, True
  <1>13. UNCHANGED <<log, raced>>
    BY <1>3 DEF Tell
  <1>14. ASSUME CacheInv, Heeded(raced'), t \in DOMAIN client.limbo,
                NEW h, Hears(client, h, m, conn)
         PROVE  Follow(log, h, disk, t)
    <2>1. Heeded(raced)
      BY <1>13, <1>14
    <2>2. /\ Follow(log, client, disk, t) /\ (IsActive(client, t) <=> StateOf(client, t).out = 0)
          /\ IsDocumentQuery(t) /\ t.key \in KeysOf(t)
      BY <1>14, <2>1, LimboKnown
    <2>3. /\ client.stream = "Open" /\ Conn = client.conn /\ conn.at = Conn.at
          /\ conn.requests = Conn.requests /\ DOMAIN conn.served = DOMAIN Conn.served
          /\ conn.served[t] = x
      BY <1>1, <1>4, ReservedIs
    <2>4. /\ StillAsked(conn, t) /\ x.current = client.conn.served[t].current
          /\ x.owed = client.conn.served[t].owed
          /\ Hearing(client, t) <=> StateOf(client, t).out = 0
      BY <1>1, <1>2, <2>3 DEF StillAsked, Hearing, SendFilter
    <2>5. StateOf(h, t) = Reaction(client, m, t)
      BY <1>7, <1>14 DEF Hears, Collects, Reacts
    <2> HIDE DEF Conn
    <2>6. CASE StateOf(client, t).out # 0
      BY <1>1, <1>4, <1>12, <1>14, <2>1, <2>6, InactiveFollows
    <2>7. CASE StateOf(client, t).out = 0 /\ count = 0
      <3>1. StateOf(h, t) = Redocumented(client, t.key, FALSE, t)
        BY <1>6, <1>12, <2>2, <2>5, <2>7 DEF Reaction
      <3>2. t.key \in DOMAIN h.docs
        BY <1>12, <1>14, <2>2, <2>7 DEF Hears, Collects
      <3>3. FALSE <=> There(log, t.key, conn.at)
        BY <1>5, <2>2, <2>3, <2>7
      <3>4. conn.served[t].current => client.conn.served[t].current
        BY <2>3, <2>4
      <3> QED  BY <1>14, <2>2, <2>3, <2>4, <2>7, <3>1, <3>2, <3>3, <3>4, ToldFollows
    <2>8. CASE StateOf(client, t).out = 0 /\ count # 0
      <3>1. StateOf(h, t) = StateOf(client, t)
        BY <1>6, <1>12, <2>5, <2>8 DEF Reaction
      <3>2. There(log, t.key, conn.at)
        BY <1>5, <2>2, <2>3, <2>8
      <3>3. /\ h.conn = conn /\ h.stream = "Open" /\ h.targets = client.targets
            /\ h.limbo = client.limbo
            /\ t.key \in DOMAIN client.docs => t.key \in DOMAIN h.docs
        BY <1>14 DEF Hears, Collects
      <3>4. Hearing(h, t) <=> Hearing(client, t)
        BY <2>4, <3>1, <3>3 DEF Hearing, StillAsked
      <3>5. Knows(log, h, t) /\ Gathers(h, t) /\ Misses(log, h, disk, t)
        BY <2>2, <2>3, <2>4, <3>1, <3>2, <3>3, <3>4 DEF Follow, Knows, Gathers, Misses, Has
      <3>6. Resumable(log, h, t) /\ Present(h, t) /\ Resolves(h, disk, t)
        BY <2>2, <2>3, <2>4, <3>1, <3>3, <3>4
           DEF Follow, Resumable, Tells, Present, Resolves, StillAsked
      <3> QED  BY <3>5, <3>6 DEF Follow
    <2> QED  BY <2>6, <2>7, <2>8
  <1>11. CacheKept
    <2>1. CacheInv /\ Heeded(raced') => AttendsTo(t, m, conn)
      BY <1>14 DEF AttendsTo
    <2> QED
      BY <1>1, <1>2, <1>4, <1>7, <1>8, <1>6, <1>9, <1>10, <1>12, <1>13, <2>1, ServedIs
  <1> QED  BY <1>3, <1>8, <1>11, KeptIs DEF Tell, SendFilter, IInv

\* A target is current.
LEMMA SendCurrentStep ==
    ASSUME IInv, NEW t, SendCurrent(t)
    PROVE  IInv' /\ CacheKept
  <1> DEFINE x == [Conn.served[t] EXCEPT !.current = TRUE]
             conn == [Conn EXCEPT !.served = [Conn.served EXCEPT ![t] = x], !.quiet = FALSE]
             m == TargetMessage("Current", t, Conn.at)
  <1>1. /\ Serves(t) /\ Connected /\ t \in DOMAIN Conn.served /\ Conn \in AnyConn
        /\ KnownTarget(client, t) /\ Conn.served[t] \in ServedState /\ Conn.at \in Version
    BY ConnIs DEF SendCurrent, Serves
  <1>2. x \in ServedState /\ x.owed = {} /\ x.counted
    BY <1>1 DEF ServedState, SendCurrent
  <1>3. Tell(m, conn)
    <2>1. [Conn EXCEPT !.served[t].current = TRUE, !.quiet = FALSE] = conn
      <3> HIDE DEF Conn
      <3> QED  BY <1>1 DEF AnyConn, ServedState
    <2> HIDE DEF conn, m
    <2> QED  BY <2>1 DEF SendCurrent, m
  <1>4. Reserved(conn, t, x, FALSE)
    BY DEF Reserved
  <1> HIDE DEF conn, x
  <1>5. AnyMessage(client, m) /\ m.kind # "Removed" /\ m.version = 0
    BY <1>1 DEF AnyMessage, TargetChange, TargetMessage
  <1>6. /\ m.kind = "Current" /\ Concerns(m, t) /\ m.id = t
        /\ \A k : ~Writes(client, m, k)
    BY DEF TargetMessage, Writes, Concerns
  <1> HIDE DEF m
  <1>7. Kept /\ Takes(m, conn)
    BY <1>1, <1>2, <1>3, <1>4, <1>5, ServesIs DEF Tell
  <1>8. TruthfulOf(t, x, m)
    BY <1>2, <1>6 DEF TruthfulOf, Vouches, Honest, Conn, SendCurrent
  <1>10. UNCHANGED <<log, raced>>
    BY <1>3 DEF Tell
  <1>11. ASSUME CacheInv, Heeded(raced'), t \in DOMAIN client.limbo,
                NEW h, Hears(client, h, m, conn)
         PROVE  Follow(log, h, disk, t)
    <2> DEFINE a == StateOf(client, t)
               b == StateOf(h, t)
    <2>1. Heeded(raced)
      BY <1>10, <1>11
    <2>2. /\ Follow(log, client, disk, t) /\ (IsActive(client, t) <=> a.out = 0)
          /\ a \in TargetState
      BY <1>11, <2>1, LimboKnown
    <2>3. /\ client.stream = "Open" /\ Conn = client.conn /\ conn.at = Conn.at
          /\ conn.requests = Conn.requests /\ DOMAIN conn.served = DOMAIN Conn.served
          /\ conn.served[t] = x
      <3>1. PICK quiet : Reserved(conn, t, x, quiet)
        BY <1>4
      <3> QED  BY <1>1, <3>1, ReservedIs
    <2>4. /\ StillAsked(conn, t) /\ x.owed = client.conn.served[t].owed
          /\ x.counted = client.conn.served[t].counted
      BY <1>1, <1>2, <2>3 DEF StillAsked, SendCurrent
    <2> HIDE DEF Conn, a, b
    <2>5. CASE a.out # 0
      BY <1>1, <1>4, <1>6, <1>11, <2>1, <2>5, InactiveFollows DEF a
    <2>6. CASE a.out = 0
      <3>1. b = UpdateResumeToken([a EXCEPT !.current = TRUE, !.pending = TRUE], m.token)
        <4>1. b = Reaction(client, m, t)
          BY <1>5, <1>11 DEF Hears, Collects, Reacts, b
        <4> QED  BY <1>6, <2>2, <2>6, <4>1 DEF Reaction, a
      <3>2. b.out = a.out /\ b.changes = a.changes /\ b.current /\ b.pending
        BY <2>2, <3>1 DEF UpdateResumeToken, TargetState
      <3>3. /\ h.conn = conn /\ h.stream = "Open" /\ h.targets = client.targets
            /\ h.limbo = client.limbo
            /\ t.key \in DOMAIN client.docs => t.key \in DOMAIN h.docs
        BY <1>11 DEF Hears, Collects
      <3>4. (Hearing(h, t) <=> Hearing(client, t)) /\ (Has(h, t) <=> Has(client, t))
        BY <2>3, <3>2, <3>3 DEF Hearing, Has, a, b
      <3>5. Knows(log, h, t) /\ Gathers(h, t) /\ Misses(log, h, disk, t)
        BY <2>2, <2>3, <2>4, <3>2, <3>3, <3>4 DEF Follow, Knows, Gathers, Misses, a, b
      <3>6. Resumable(log, h, t) /\ Present(h, t) /\ Resolves(h, disk, t)
        BY <2>2, <2>3, <2>4, <3>2, <3>3
           DEF Follow, Resumable, Tells, Present, Resolves, StillAsked, b
      <3> QED  BY <3>5, <3>6 DEF Follow
    <2> QED  BY <2>5, <2>6
  <1>9. CacheKept
    <2>1. CacheInv /\ Heeded(raced') => AttendsTo(t, m, conn)
      BY <1>11 DEF AttendsTo
    <2> QED  BY <1>1, <1>2, <1>4, <1>5, <1>7, <1>6, <1>8, <1>10, <2>1, ServedIs
  <1> QED  BY <1>3, <1>7, <1>9, KeptIs DEF Tell, SendCurrent, IInv

\* The backend resets a target.
LEMMA ResetByServerStep ==
    ASSUME IInv, NEW t, ResetByServer(t)
    PROVE  IInv' /\ CacheKept
  <1> DEFINE x == [owed |-> Result(t, Conn.at), current |-> FALSE, counted |-> TRUE]
             conn == [Conn EXCEPT !.served = [Conn.served EXCEPT ![t] = x]]
             m == TargetMessage("Reset", t, 0)
  <1>1. /\ Serves(t) /\ Connected /\ t \in DOMAIN Conn.served /\ Conn \in AnyConn
        /\ KnownTarget(client, t) /\ Conn.served[t] \in ServedState
        /\ Conn.quiet \in BOOLEAN /\ t \in DOMAIN client.states /\ t \in Target
    BY ConnIs DEF ResetByServer, Serves, KnownTarget
  <1>2. x \in ServedState /\ x.owed \subseteq KeysOf(t) /\ ~x.current
    <2>1. Result(t, Conn.at) \subseteq Doc
      BY <1>1, KeysOfIs DEF Result
    <2> QED  BY <2>1 DEF ServedState, Result
  <1>3. OnWatchStreamChange(m, conn)
    <2>1. [Conn EXCEPT !.served[t] = x] = conn
      <3> HIDE DEF Conn, x
      <3> QED  BY <1>1 DEF AnyConn
    <2> HIDE DEF conn, m
    <2> QED  BY <2>1 DEF ResetByServer, m
  <1>4. Reserved(conn, t, x, Conn.quiet)
    <2> HIDE DEF Conn, x
    <2> QED  BY <1>1 DEF Reserved, AnyConn
  <1> HIDE DEF conn, x
  <1>5. AnyMessage(client, m) /\ m.kind # "Removed" /\ m.version = 0
    <2>1. 0 \in Version
      BY TargetsAssumption DEF Version
    <2> QED  BY <1>1, <2>1 DEF AnyMessage, TargetChange, TargetMessage
  <1>6. /\ m.kind = "Reset" /\ Concerns(m, t) /\ m.id = t
        /\ \A k : ~Writes(client, m, k)
    BY DEF TargetMessage, Writes, Concerns
  <1> HIDE DEF m
  <1>7. Kept /\ Takes(m, conn)
    BY <1>1, <1>2, <1>3, <1>4, <1>5, ServesIs
  <1>8. /\ UNCHANGED <<log, listens>> /\ faults < MaxFaults /\ faults' = faults + 1
        /\ raced \subseteq raced' /\ raced' \subseteq raced \cup {"overtaken", "unheard"}
        /\ "overtaken" \notin raced' => KeysOf(t) \cap DOMAIN client.docs = {}
        /\ "unheard" \notin raced' =>
              Conn.served[t].counted /\ \A d \in Conn.served[t].owed : At(d, Conn.at).there
    BY DEF ResetByServer, Overtaken
  <1>9. ASSUME "overtaken" \notin raced' PROVE TruthfulOf(t, x, m)
    BY <1>8, <1>6, <1>9 DEF TruthfulOf, Vouches, Honest
  <1>11. ASSUME CacheInv, Heeded(raced'), t \in DOMAIN client.limbo,
                NEW h, Hears(client, h, m, conn)
         PROVE  Follow(log, h, disk, t)
    <2> DEFINE a == StateOf(client, t)
               b == StateOf(h, t)
    <2>1. Heeded(raced) /\ "unheard" \notin raced'
      BY <1>8, <1>11 DEF Heeded
    <2>2. /\ Follow(log, client, disk, t) /\ (IsActive(client, t) <=> a.out = 0)
          /\ KeysOf(t) = {t.key}
          /\ \A k \in RemoteKeys(client, t) : k = t.key
      BY <1>11, <2>1, LimboKnown
    <2>3. /\ client.stream = "Open" /\ Conn = client.conn /\ conn.at = Conn.at
          /\ conn.requests = Conn.requests /\ DOMAIN conn.served = DOMAIN Conn.served
          /\ conn.served[t] = x
      BY <1>1, <1>4, ReservedIs
    <2>4. StillAsked(conn, t) /\ (t.key \in x.owed <=> There(log, t.key, Conn.at))
      <3>1. At(t.key, Conn.at).there <=> There(log, t.key, Conn.at)
        BY AtIn
      <3>2. t.key \in x.owed <=> t.key \in Result(t, Conn.at)
        BY DEF x
      <3> QED  BY <2>2, <2>3, <3>1, <3>2 DEF StillAsked, Result
    <2>5. /\ client.conn.served[t].counted
          /\ t.key \in client.conn.served[t].owed => There(log, t.key, Conn.at)
      BY <1>8, <2>1, <2>3, AtIn
    <2> HIDE DEF Conn, a, b
    <2>6. CASE a.out # 0
      BY <1>1, <1>4, <1>6, <1>11, <2>1, <2>6, InactiveFollows DEF a
    <2>7. CASE a.out = 0
      <3>1. b = Restarted(client, t)
        <4>1. b = Reaction(client, m, t)
          BY <1>5, <1>11 DEF Hears, Collects, Reacts, b
        <4> QED  BY <1>6, <2>2, <2>7, <4>1 DEF Reaction
      <3>2. /\ b.out = 0 /\ \A k \in DOMAIN b.changes : k = t.key /\ b.changes[k] = "Removed"
        BY <2>2, <3>1 DEF Restarted, Fresh
      <3>3. /\ h.conn = conn /\ h.stream = "Open" /\ h.targets = client.targets
            /\ h.limbo = client.limbo
            /\ t.key \in DOMAIN client.docs => t.key \in DOMAIN h.docs
        BY <1>11 DEF Hears, Collects
      <3>4. Hearing(client, t)
        BY <1>1, <2>3, <2>7 DEF Hearing, a
      <3>5. Knows(log, h, t)
        BY <2>3, <2>4, <3>3 DEF Knows
      <3>6. Gathers(h, t)
        BY <3>2, <3>3 DEF Gathers, b
      <3>7. Misses(log, h, disk, t)
        BY <2>2, <2>3, <2>5, <3>3, <3>4 DEF Follow, Misses
      <3>8. Resumable(log, h, t) /\ Present(h, t) /\ Resolves(h, disk, t)
        BY <1>2, <2>2, <2>3, <2>4, <3>3
           DEF Follow, Resumable, Tells, Present, Resolves, StillAsked
      <3> QED  BY <3>5, <3>6, <3>7, <3>8 DEF Follow
    <2> QED  BY <2>6, <2>7
  <1>10. CacheKept
    <2>1. CacheInv /\ Heeded(raced') => AttendsTo(t, m, conn)
      BY <1>11 DEF AttendsTo
    <2> QED  BY <1>1, <1>2, <1>4, <1>5, <1>7, <1>8, <1>6, <1>9, <2>1, ServedIs
  <1> QED  BY <1>7, <1>8, <1>10, KeptIs DEF IInv

\* The stream is consistent as a whole.
LEMMA SendSnapshotStep ==
    ASSUME IInv, SendSnapshot
    PROVE  IInv' /\ CacheKept
  <1> DEFINE conn == [Conn EXCEPT !.quiet = TRUE]
             m == [kind |-> "NoChange", id |-> "all", version |-> Conn.at, token |-> Conn.at]
  <1>1. /\ Connected /\ Conn \in AnyConn /\ Conn.at \in Version
        /\ \A y \in DOMAIN Conn.served : KnownTarget(client, y) /\ y \in DOMAIN client.states
        /\ Conn.requests \in Seq(AnyRequest) /\ client.stream = "Open" /\ Conn = client.conn
        /\ \A y \in DOMAIN Conn.served : Conn.served[y].current
    BY ConnIs DEF SendSnapshot, Conn
  <1>2. Tell(m, conn)
    BY DEF SendSnapshot
  <1>3. /\ conn \in AnyConn /\ conn.served = Conn.served /\ conn.requests = Conn.requests
        /\ conn.at = Conn.at
    <2> HIDE DEF Conn
    <2> QED  BY <1>1 DEF AnyConn
  <1> HIDE DEF conn
  <1>4. KnownConn(client, conn)
    BY <1>1, <1>3, ConnKnown
  <1>5. AnyMessage(client, m) /\ Serving(client, conn, m) /\ m.version \in Version
    BY <1>1, <1>3 DEF AnyMessage, TargetChange, Serving
  <1>6. /\ m.kind = "NoChange" /\ m.version = Conn.at /\ m.token = Conn.at
        /\ (\A k : ~Writes(client, m, k)) /\ \A t : AnswersOf(m, t) = 0
    BY DEF Writes, AnswersOf
  <1> HIDE DEF m
  <1>7. Kept /\ Takes(m, conn)
    BY <1>1, <1>2, <1>4, <1>5, ToldIs DEF Tell
  <1>8. ASSUME CacheInv PROVE Timely(log, m, conn)
    <2> DEFINE s == client
    <2>1. Streamed(log, s) /\ s.stream = "Open" /\ Conn = s.conn
      BY <1>1, <1>8 DEF CacheInv
    <2> HIDE DEF s, Conn
    <2>2. OwesRightly(conn) /\ Conn.at \in Nat
      BY <1>1, <1>3, <2>1, TargetsAssumption DEF Streamed, OwesRightly, Version
    <2>3. \A t : Mentions(Conn.requests, t) \in Nat
      BY <1>1, MentionsAre
    <2>4. \A t : Mentions(conn.requests, t) = Mentions(Conn.requests, t) - AnswersOf(m, t)
      BY <1>3, <1>6, <2>3
    <2>5. conn.at \in 1 .. Len(log) /\ Conn.at <= conn.at
      BY <1>3, <2>1, <2>2 DEF Streamed
    <2> QED  BY <1>1, <1>3, <1>6, <2>2, <2>4, <2>5 DEF Timely
  <1>9. Truthful(log, m, conn)
    BY <1>1, <1>3, <1>6 DEF Truthful, Vouches, Honest, Says
  <1>10. Consistent(m, conn)
    BY <1>1, <1>3, <1>6 DEF Consistent
  <1>11. UNCHANGED <<log, raced>>
    BY <1>2 DEF Tell
  <1>12. ASSUME CacheInv, Heeded(raced') PROVE Attends(m, conn)
    <2> SUFFICES ASSUME NEW h, Hears(client, h, m, conn), NEW t \in DOMAIN client.limbo
                 PROVE  Follow(log, h, disk, t)
      BY DEF Attends, LimboInv, Hears
    <2> DEFINE a == StateOf(client, t)
               b == StateOf(h, t)
    <2>1. /\ Follow(log, client, disk, t) /\ a \in TargetState
      <3>1. Heeded(raced)
        BY <1>11, <1>12
      <3> QED  BY <1>12, <3>1, LimboKnown
    <2>2. b = Reaction(client, m, t)
      BY <1>6 DEF Hears, Collects, Reacts
    <2> HIDE DEF a, b, Conn
    <2>3. b = a \/ b = UpdateResumeToken(a, m.token)
      BY <1>6, <2>2 DEF Reaction, a
    <2>4. b.out = a.out /\ b.changes = a.changes /\ b.current = a.current /\ (a.pending => b.pending)
      BY <2>1, <2>3 DEF UpdateResumeToken, TargetState
    <2>5. /\ h.conn = conn /\ h.stream = "Open" /\ h.targets = client.targets
          /\ h.limbo = client.limbo
          /\ t.key \in DOMAIN client.docs => t.key \in DOMAIN h.docs
      BY DEF Hears, Collects
    <2>6. (Hearing(h, t) <=> Hearing(client, t)) /\ (Has(h, t) <=> Has(client, t))
      BY <1>1, <1>3, <2>4, <2>5 DEF Hearing, Has, a, b
    <2>7. Knows(log, h, t) /\ Gathers(h, t) /\ Misses(log, h, disk, t)
      BY <1>1, <1>3, <2>1, <2>4, <2>5, <2>6 DEF Follow, Knows, Gathers, Misses, a, b
    <2>8. Resumable(log, h, t) /\ Present(h, t)
      BY <1>1, <1>3, <2>1, <2>5 DEF Follow, Resumable, Tells, Present
    <2>9. Resolves(h, disk, t)
      BY <1>1, <1>3, <2>1, <2>4, <2>5, <2>6 DEF Follow, Resolves, a, b
    <2> QED  BY <2>7, <2>8, <2>9 DEF Follow
  <1>13. CacheKept
    BY <1>7, <1>8, <1>9, <1>10, <1>11, <1>12, TakesIs
  <1> QED  BY <1>2, <1>7, <1>13, KeptIs DEF Tell, SendSnapshot, IInv

\* A target is refused.
LEMMA ErrorByServerStep ==
    ASSUME IInv, NEW t, ErrorByServer(t)
    PROVE  IInv' /\ CacheKept
  <1> DEFINE served == Without(Conn.served, t)
             conn == [Conn EXCEPT !.served = served]
  <1>1. /\ Serves(t) /\ Connected /\ t \in DOMAIN Conn.served /\ Conn \in AnyConn
        /\ t \in Target /\ Conn.served \in Partial(Target, ServedState)
        /\ \A y \in DOMAIN Conn.served : KnownTarget(client, y) /\ y \in DOMAIN client.states
    BY ConnIs DEF ErrorByServer, Serves, KnownTarget
  <1>2. ProcessTargetError(t, conn)
    BY Zenon DEF ErrorByServer
  <1>3. /\ served \in Partial(Target, ServedState)
        /\ \A y : y \in DOMAIN served <=> y # t /\ y \in DOMAIN Conn.served
        /\ \A y \in DOMAIN served : served[y] = Conn.served[y]
    <2>1. DOMAIN Conn.served \ {t} \subseteq DOMAIN Conn.served
      OBVIOUS
    <2>2. served \in Partial(Target, ServedState)
      BY <1>1, <2>1, RestrictIs DEF Without
    <2> QED  BY <2>2 DEF Without, Restrict
  <1> HIDE DEF served
  <1>4. /\ conn \in AnyConn /\ conn.served = served /\ conn.requests = Conn.requests
        /\ conn.at = Conn.at
    <2> HIDE DEF Conn
    <2> QED  BY <1>1, <1>3 DEF AnyConn
  <1> HIDE DEF conn
  <1>5. KnownConn(client, conn)
    BY <1>1, <1>3, <1>4, ConnKnown
  <1>6. /\ Good(client') /\ disk' \in AnyDisk
        /\ ~Refuses(t) => \A except : Tracked(client, except) => Tracked(client', except)
        /\ Forgets(t, conn)
    <2>1. /\ Good(client) /\ disk \in AnyDisk /\ client.stream = "Open"
          /\ \A y \in DOMAIN conn.served : y # t /\ y \in DOMAIN client.states
      BY <1>1, <1>3, <1>4 DEF IInv, Connected
    <2> QED  BY <1>1, <1>2, <1>5, <2>1, ProcessTargetErrorIs
  <1>7. /\ UNCHANGED <<log, listens>> /\ faults < MaxFaults /\ faults' = faults + 1
        /\ raced \subseteq raced' /\ raced' \subseteq raced \cup {"overtaken", "refused"}
        /\ Refuses(t) => "refused" \in raced'
        /\ "overtaken" \notin raced' => NothingDropped /\ StateOf(client, t).out = 0
        /\ t \in Query \/ \A v \in Conn.at .. Len(log) : Result(t, v) = {}
    BY DEF ErrorByServer, Refuses, Overtaken, DroppedTargets, NothingDropped
  <1>8. CacheKept
    <2> HIDE DEF Conn
    <2> QED  BY <1>1, <1>3, <1>4, <1>6, <1>7, RefusedIs
  <1>9. CASE ~Refuses(t)
    <2>1. Kept
      BY <1>6, <1>9 DEF Kept
    <2> QED  BY <1>7, <1>9, <1>8, <2>1, KeptIs DEF IInv
  <1>10. CASE Refuses(t)
    <2>1. client' \in Client
      BY <1>6 DEF Good, Sound, Steady
    <2>2. Tracked(client', Doc) /\ Excepted' = Doc
      BY <1>7, <1>10, <2>1, TrackedAll DEF Excepted
    <2>3. faults' \in Nat /\ faults' <= MaxFaults
      BY <1>7, TargetsAssumption DEF IInv
    <2> QED  BY <1>6, <1>7, <1>10, <1>8, <2>2, <2>3 DEF IInv
  <1> QED  BY <1>9, <1>10

\* The connection alone is another one.
LEMMA ReconnIs ==
    ASSUME IInv, Connected, NEW conn, KnownConn(client, conn),
           \A t \in DOMAIN conn.served : t \in DOMAIN client.states
    PROVE  LET u == [client EXCEPT !.conn = conn]
           IN Good(u) /\ \A except : Tracked(client, except) => Tracked(u, except)
  <1> DEFINE s == client
             u == [s EXCEPT !.conn = conn]
  <1>1. /\ s \in Client /\ s.ok /\ Steady(s) /\ OnlineKnown(s) /\ IdleKnown(s)
        /\ AllNumbered(s) /\ ChangesKnown(s) /\ IsFiniteSet(DOMAIN s.targets)
        /\ Good(s) /\ s.stream = "Open"
    BY DEF IInv, Good, Sound, Steady, Connected
  <1>2. \A t \in DOMAIN conn.served : t \in DOMAIN s.states
    OBVIOUS
  <1>3. KnownConn(s, conn)
    OBVIOUS
  <1> HIDE DEF s
  <1>4. /\ u \in Client /\ u.ok /\ u.targets = s.targets /\ u.stream = "Open"
        /\ u.conn = conn /\ u.states = s.states /\ u.limbo = s.limbo
        /\ u.nextLimbo = s.nextLimbo /\ u.mem = s.mem /\ u.views = s.views
        /\ u.idle = s.idle /\ u.timer = s.timer /\ u.online = s.online
        /\ u.failures = s.failures
    BY <1>1, <1>3 DEF Client, KnownConn
  <1> HIDE DEF u
  <1>5. Sound(u)
    <2>1. AllNumbered(u)
      BY <1>1, <1>3, <1>4 DEF AllNumbered, Numbered, RequestedIds, KnownConn
    <2>2. Steady(u)
      BY <1>1, <1>4, <2>1 DEF Steady, ChangesKnown
    <2>3. OnlineKnown(u) /\ IdleKnown(u)
      BY <1>1, <1>4 DEF OnlineKnown, IdleKnown, Started
    <2> QED  BY <2>2, <2>3 DEF Sound
  <1>6. Watched(u) /\ SameEngine(s, u) /\ SameLimbo(s, u)
    BY <1>2, <1>4 DEF Watched, SameEngine, SameLimbo
  <1>7. Good(u) /\ \A except : Tracked(s, except) => Tracked(u, except)
    BY <1>1, <1>4, <1>5, <1>6, NetIs
  <1> QED  BY <1>7 DEF u, s

\* The server sees a change: targets that are current are told, others are owed it.
LEMMA AdvanceStep ==
    ASSUME IInv, Advance
    PROVE  IInv' /\ CacheKept
  <1> DEFINE d == log[Conn.at + 1].doc
             concerned == {t \in DOMAIN Conn.served : d \in KeysOf(t)}
             told == {t \in concerned : Conn.served[t].current}
             Owing(t) == [Conn.served[t] EXCEPT !.owed = Conn.served[t].owed \cup {d}]
             owing == [t \in concerned \ told |-> Owing(t)]
             served == owing ++ Conn.served
             conn == [Conn EXCEPT !.at = Conn.at + 1, !.quiet = FALSE, !.served = served]
             m == DocMessage(d, Conn.at + 1, told)
  <1>1. /\ Connected /\ Conn \in AnyConn /\ Conn.at \in Version
        /\ Conn.served \in Partial(Target, ServedState)
        /\ \A y \in DOMAIN Conn.served :
              /\ KnownTarget(client, y) /\ y \in DOMAIN client.states
              /\ Conn.served[y] \in ServedState
        /\ Conn.requests \in Seq(AnyRequest) /\ client.stream = "Open" /\ Conn = client.conn
    BY ConnIs DEF Advance, Conn
  <1>2. Conn.at < Len(log) /\ UNCHANGED faults
    BY DEF Advance
  <1>3. \/ told = {} /\ client' = [client EXCEPT !.conn = conn]
           /\ UNCHANGED <<disk, log, raced, listens>>
        \/ Tell(m, conn)
    BY Zenon DEF Advance
  <1>4. Conn.at + 1 \in Version /\ Conn.at + 1 \in 1 .. Len(log) /\ Conn.at + 1 \in Nat
    BY <1>1, <1>2, TargetsAssumption DEF IInv, Version
  <1>5. d \in Doc
    <2>1. log[Conn.at + 1] \in [doc: Doc, there: BOOLEAN]
      BY <1>4, ElementOfSeq DEF IInv
    <2> QED  BY <2>1
  <1>6. /\ LastIn(log, d, Conn.at + 1) = Conn.at + 1
        /\ \A k : k # d => /\ There(log, k, Conn.at + 1) = There(log, k, Conn.at)
                           /\ LastIn(log, k, Conn.at + 1) = LastIn(log, k, Conn.at)
    <2>1. Conn.at \in Nat
      BY <1>1, TargetsAssumption DEF Version
    <2> HIDE DEF Conn
    <2> QED  BY <2>1, NextChange
  <1> HIDE DEF d
  <1>7. /\ served \in Partial(Target, ServedState)
        /\ \A y : y \in DOMAIN served <=> y \in DOMAIN Conn.served
        /\ \A y \in DOMAIN Conn.served :
              IF d \in KeysOf(y) /\ ~Conn.served[y].current
              THEN /\ ~served[y].current /\ served[y].owed = Conn.served[y].owed \cup {d}
                   /\ served[y].counted = Conn.served[y].counted
              ELSE served[y] = Conn.served[y]
    <2>1. \A t \in concerned : Owing(t) \in ServedState /\ t \in Target
      BY <1>1, <1>5 DEF ServedState, KnownTarget
    <2>2. \A t \in concerned \ told :
             /\ ~Owing(t).current /\ Owing(t).owed = Conn.served[t].owed \cup {d}
             /\ Owing(t).counted = Conn.served[t].counted
      BY <1>1 DEF ServedState
    <2> HIDE DEF Owing
    <2>3. owing \in [concerned \ told -> ServedState] /\ DOMAIN owing = concerned \ told
      BY <2>1
    <2>4. owing \in Partial(Target, ServedState)
      BY <2>1, <2>3, PartialIs
    <2>5. /\ \A y \in DOMAIN owing : y \in DOMAIN Conn.served /\ owing[y] = Owing(y)
          /\ \A y \in DOMAIN Conn.served :
                y \in DOMAIN owing <=> d \in KeysOf(y) /\ ~Conn.served[y].current
      OBVIOUS
    <2> HIDE DEF owing
    <2>6. served \in Partial(Target, ServedState)
      BY <1>1, <2>4, OverIs
    <2> QED  BY <2>3, <2>5, <2>6, <2>2 DEF ++
  <1>8. /\ \A y \in told : /\ KnownTarget(client, y) /\ y \in DOMAIN Conn.served
                           /\ d \in KeysOf(y) /\ Conn.served[y].current
        /\ \A y \in DOMAIN Conn.served : d \in KeysOf(y) /\ Conn.served[y].current => y \in told
    BY <1>1
  <1> HIDE DEF served, told
  <1>9. /\ conn \in AnyConn /\ conn.served = served /\ conn.requests = Conn.requests
        /\ conn.at = Conn.at + 1
    <2> HIDE DEF Conn
    <2> QED  BY <1>1, <1>4, <1>7 DEF AnyConn
  <1> HIDE DEF conn
  <1>10. KnownConn(client, conn)
    BY <1>1, <1>7, <1>9, ConnKnown
  <1>11. \A y \in DOMAIN conn.served : y \in DOMAIN client.states
    BY <1>1, <1>7, <1>9
  <1>12. /\ m.kind = "Doc" /\ m.version = 0 /\ Written(m) = At(d, Conn.at + 1)
         /\ m.ids = told /\ m.key = d /\ m.doc = At(d, Conn.at + 1)
         /\ \A k : Writes(client, m, k) <=> k = d /\ \E y \in told : IsActive(client, y)
         /\ \A y : AnswersOf(m, y) = 0
    BY DEF DocMessage, Written, Writes, AnswersOf
  <1>13. ASSUME CacheInv PROVE Timely(log, m, conn)
    <2> HIDE DEF m, Conn
    <2>1. OwesRightly(Conn)
      BY <1>1, <1>13 DEF CacheInv, Streamed
    <2>2. OwesRightly(conn)
      BY <1>7, <1>9, <2>1 DEF OwesRightly
    <2>3. \A y : Mentions(Conn.requests, y) \in Nat
      BY <1>1, MentionsAre
    <2>4. \A y : Mentions(conn.requests, y) = Mentions(Conn.requests, y) - AnswersOf(m, y)
      BY <1>9, <1>12, <2>3
    <2>5. conn.at \in 1 .. Len(log) /\ Conn.at <= conn.at
      BY <1>1, <1>4, <1>9, TargetsAssumption DEF Version
    <2>6. Written(m).at <= conn.at /\ True(log, d, Written(m))
      BY <1>4, <1>9, <1>12, AtIsTrue
    <2> QED  BY <1>1, <1>9, <1>12, <2>2, <2>4, <2>5, <2>6 DEF Timely
  <1>14. Truthful(log, m, conn)
    <2> HIDE DEF m
    <2>1. ASSUME NEW k, Writes(client, m, k)
          PROVE  \E y : IsActive(client, y) /\ Honest(log, conn, y, k, Written(m))
      <3>1. Says(log, conn, d, Written(m))
        BY <1>9, <1>12, AtIn DEF Says
      <3>2. PICK y \in told : IsActive(client, y) /\ k = d
        BY <1>12, <2>1
      <3>3. y \in DOMAIN conn.served /\ d \in KeysOf(y)
        BY <1>7, <1>8, <1>9, <3>2
      <3> QED  BY <3>1, <3>2, <3>3 DEF Honest
    <2>2. ASSUME NEW k, NEW y, Vouches(log, client, y, k), ~Writes(client, m, k)
          PROVE  Honest(log, conn, y, k, client.docs[k])
      <3>1. IsActive(client, y) /\ Honest(log, Conn, y, k, client.docs[k])
        BY <1>1, <2>2 DEF Vouches
      <3>2. y \in DOMAIN Conn.served /\ k \in KeysOf(y)
        BY <3>1 DEF Honest
      <3>3. CASE k = d
        BY <1>7, <1>8, <1>9, <1>12, <2>2, <3>1, <3>2, <3>3 DEF Honest
      <3>4. CASE k # d
        BY <1>7, <1>9, <1>6, <3>1, <3>2, <3>4 DEF Honest, Says
      <3> QED  BY <3>3, <3>4
    <2> QED  BY <2>1, <2>2 DEF Truthful
  <1>17. ASSUME CacheInv, Heeded(raced), NEW h, Hears(client, h, m, conn),
                NEW t \in DOMAIN client.limbo
         PROVE  Follow(log, h, disk, t)
    <2>1. /\ Follow(log, client, disk, t) /\ KeysOf(t) = {t.key}
          /\ IsActive(client, t) <=> StateOf(client, t).out = 0
      BY <1>17, LimboKnown
    <2> HIDE DEF m, Conn
    <2>2. StateOf(h, t) = Reaction(client, m, t)
      BY <1>12, <1>17 DEF Hears, Collects, Reacts
    <2>3. StillAsked(conn, t) /\ client.stream = "Open"
      BY <1>1, <1>7, <1>9 DEF StillAsked
    <2>4. CASE ~Hearing(client, t)
      <3>1. t \notin told \/ ~IsActive(client, t)
        BY <1>1, <1>8, <2>1, <2>4 DEF Hearing
      <3>2. StateOf(h, t) = StateOf(client, t)
        BY <1>12, <2>2, <3>1 DEF Reaction
      <3> QED  BY <1>17, <2>1, <2>3, <2>4, <3>2, UnheardFollows
    <2>5. CASE Hearing(client, t) /\ t.key # d
      <3>1. t \notin told
        BY <1>8, <2>1, <2>5
      <3>2. StateOf(h, t) = StateOf(client, t)
        BY <1>12, <2>2, <3>1 DEF Reaction
      <3>3. There(log, t.key, conn.at) = There(log, t.key, client.conn.at)
        BY <1>1, <1>6, <1>9, <2>5
      <3>4. t \in DOMAIN conn.served => conn.served[t] = client.conn.served[t]
        BY <1>1, <1>7, <1>9, <2>1, <2>5
      <3> QED  BY <1>17, <2>1, <2>3, <3>2, <3>3, <3>4, UntoldFollows
    <2>6. CASE Hearing(client, t) /\ t.key = d /\ client.conn.served[t].current
      <3>1. t \in told /\ IsActive(client, t) /\ conn.served[t] = Conn.served[t]
        BY <1>1, <1>7, <1>8, <1>9, <2>1, <2>6 DEF Hearing
      <3>2. StateOf(h, t) = Redocumented(client, t.key, m.doc.there, t)
        BY <1>12, <2>2, <2>6, <3>1 DEF Reaction
      <3>3. t.key \in DOMAIN h.docs
        BY <1>12, <1>17, <2>6, <3>1 DEF Hears, Collects
      <3>4. m.doc.there <=> There(log, t.key, conn.at)
        BY <1>9, <1>12, <2>6, AtIn
      <3>5. conn.served[t].current => client.conn.served[t].current
        BY <2>6
      <3> QED  BY <1>17, <2>1, <2>3, <2>6, <3>2, <3>3, <3>4, <3>5, ToldFollows
    <2>7. CASE Hearing(client, t) /\ t.key = d /\ ~client.conn.served[t].current
      <3>1. /\ t \in DOMAIN conn.served /\ t.key \in conn.served[t].owed
            /\ ~conn.served[t].current /\ t \notin told
        BY <1>1, <1>7, <1>8, <1>9, <2>1, <2>7 DEF Hearing
      <3>2. StateOf(h, t) = StateOf(client, t)
        BY <1>12, <2>2, <3>1 DEF Reaction
      <3>3. /\ h.conn = conn /\ h.stream = "Open" /\ h.targets = client.targets
            /\ h.limbo = client.limbo
            /\ t.key \in DOMAIN client.docs => t.key \in DOMAIN h.docs
        BY <1>17 DEF Hears, Collects
      <3>4. Knows(log, h, t) /\ Misses(log, h, disk, t) /\ Resolves(h, disk, t)
        BY <3>1, <3>3 DEF Knows, Misses, Resolves
      <3>5. Gathers(h, t)
        BY <2>1, <2>3, <3>2, <3>3 DEF Follow, Gathers
      <3>6. Resumable(log, h, t) /\ Present(h, t)
        BY <2>1, <2>3, <3>1, <3>3 DEF Follow, Resumable, Tells, Present, StillAsked
      <3> QED  BY <3>4, <3>5, <3>6 DEF Follow
    <2> QED  BY <2>4, <2>5, <2>6, <2>7
  <1>18. UNCHANGED raced => (CacheInv /\ Heeded(raced') => Attends(m, conn))
    <2> HIDE DEF m, conn
    <2> QED  BY <1>17 DEF Attends, LimboInv, Hears
  <1>15. CASE /\ told = {} /\ client' = [client EXCEPT !.conn = conn]
              /\ UNCHANGED <<disk, log, raced, listens>>
    <2>1. Kept
      BY <1>1, <1>10, <1>11, <1>15, ReconnIs DEF Kept, IInv
    <2>2. Takes(m, conn)
      <3> DEFINE s == client
                 u == [s EXCEPT !.conn = conn]
      <3>1. s \in Client /\ s.stream = "Open"
        BY <1>1 DEF IInv, Good, Sound, Steady
      <3>2. client' = u /\ disk' = disk
        BY <1>15
      <3>3. \A k : ~Writes(s, m, k)
        BY <1>15, <1>12
      <3> HIDE DEF s, m
      <3>4. /\ u.conn = conn /\ u.stream = "Open" /\ u.docs = s.docs
            /\ u.targets = s.targets /\ u.states = s.states
            /\ u.limbo = s.limbo /\ u.nextLimbo = s.nextLimbo
        BY <3>1 DEF Client
      <3> HIDE DEF u
      <3>5. \A y : StateOf(u, y).out = StateOf(s, y).out /\ StateOf(s, y).out \in Int
        BY <3>1, <3>4, OutIs DEF StateOf
      <3>6. Collects(s, u, m)
        <4>1. \A y \in DOMAIN s.limbo : StateOf(u, y) = Reaction(s, m, y)
          <5> SUFFICES ASSUME NEW y PROVE StateOf(u, y) = Reaction(s, m, y)
            OBVIOUS
          <5>1. StateOf(u, y) = StateOf(s, y)
            BY <3>4 DEF StateOf
          <5>2. m.kind = "Doc" /\ y \notin m.ids
            BY <1>12, <1>15
          <5> QED  BY <5>1, <5>2 DEF Reaction
        <4> QED  BY <1>12, <3>3, <3>4, <3>5, <4>1 DEF Collects, Reacts
      <3> QED  BY <3>2, <3>4, <3>6 DEF Hears, Takes, s
    <2>3. CacheKept
      <3> HIDE DEF m
      <3> QED  BY <1>15, <1>13, <1>14, <1>12, <1>18, <2>2, TakesIs
    <2> QED  BY <1>2, <1>15, <2>1, <2>3, KeptIs DEF IInv
  <1>16. CASE Tell(m, conn)
    <2>1. At(d, Conn.at + 1) \in DocState
      BY <1>4, AtIs
    <2>2. m.kind = "Doc" /\ m.version = 0 /\ AnyMessage(client, m)
      BY <1>5, <1>8, <2>1 DEF DocMessage, AnyMessage, DocumentChange
    <2> HIDE DEF m
    <2>3. Serving(client, conn, m) /\ m.version \in Version
      BY <1>11, <2>2, TargetsAssumption DEF Serving, Version
    <2>4. Kept /\ Takes(m, conn)
      BY <1>1, <1>10, <1>16, <2>2, <2>3, ToldIs DEF Tell
    <2>5. CacheKept
      BY <1>16, <1>13, <1>14, <1>18, <2>2, <2>4, TakesIs DEF Tell
    <2> QED  BY <1>2, <1>16, <2>4, <2>5, KeptIs DEF Tell, IInv
  <1> QED  BY <1>3, <1>15, <1>16

-----------------------------------------------------------------------------
(* The theorems.                                                           *)

\* Every step keeps the invariant, and what is known of the cache.
LEMMA StepKeeps ==
    IInv /\ [Next]_vars => IInv' /\ CacheKept
  <1> SUFFICES ASSUME IInv, [Next]_vars PROVE IInv' /\ CacheKept
    OBVIOUS
  <1>1. CASE UNCHANGED vars
    <2>1. Excepted' = Excepted
      BY <1>1 DEF vars, Excepted
    <2>2. IInv'
      BY <1>1, <2>1 DEF vars, IInv
    <2>3. CacheInv => CacheInv'
      BY <1>1 DEF vars, CacheInv
    <2>4. CacheStays
      BY <1>1, UncachedIs DEF vars, Uncached, IInv
    <2> QED  BY <2>2, <2>3, <2>4 DEF CacheKept
  <1>2. ASSUME NEW q \in Query, ListenTo(q) \/ StopListeningTo(q) PROVE IInv' /\ CacheKept
    BY <1>2, ListenToStep, StopListeningToStep
  <1>3. CASE TurnNetworkOff \/ TurnNetworkOn \/ HandleCredentialChange
    BY <1>3, TurnNetworkOffStep, TurnNetworkOnStep, HandleCredentialChangeStep
  <1>4. CASE BackoffElapses \/ IdleTimeout \/ OnlineStateTimeout
    BY <1>4, BackoffElapsesStep, IdleTimeoutStep, OnlineStateTimeoutStep
  <1>5. CASE OnWatchStreamOpen \/ StreamFails
    BY <1>5, OnWatchStreamOpenStep, StreamFailsStep
  <1>6. ASSUME NEW d \in Doc, Change(d) PROVE IInv' /\ CacheKept
    BY <1>6, ChangeStep
  <1>7. CASE ServeWatch \/ ServeUnwatch \/ Advance \/ SendSnapshot
    BY <1>7, ServeWatchStep, ServeUnwatchStep, AdvanceStep, SendSnapshotStep
  <1>8. ASSUME NEW t, SendFilter(t) \/ SendCurrent(t) PROVE IInv' /\ CacheKept
    BY <1>8, SendFilterStep, SendCurrentStep
  <1>9. ASSUME NEW t, NEW d \in Doc, Deliver(t, d) PROVE IInv' /\ CacheKept
    BY <1>9, DeliverStep
  <1>10. CASE Backend
    BY <1>7, <1>8, <1>9, <1>10, Zenon DEF Backend
  <1>11. ASSUME NEW t, ResetByServer(t) \/ ErrorByServer(t) PROVE IInv' /\ CacheKept
    BY <1>11, ResetByServerStep, ErrorByServerStep
  <1>12. CASE Relaunch
    BY <1>12, RelaunchStep
  <1> QED
    BY <1>1, <1>2, <1>3, <1>4, <1>5, <1>6, <1>10, <1>11, <1>12, Zenon DEF Next

\* The invariant always holds.
THEOREM InvariantHolds == Spec => []IInv
  <1>1. IInv /\ [Next]_vars => IInv'
    BY StepKeeps
  <1> QED  BY <1>1, InitIsGood, PTL DEF Spec

\* What the invariant says of the types.
LEMMA TypesHold ==
    ASSUME IInv
    PROVE  TypeOK
  <1> DEFINE s == client
  <1>1. s \in Client /\ s.ok /\ (s.stream # "Open" => s.conn = Disconnected)
    BY DEF IInv, Good, Sound, Steady
  <1>2. /\ s.online \in OnlineStates /\ s.stream \in Streams
        /\ {s.enabled, s.idle, s.timer, s.ok} \subseteq BOOLEAN
        /\ {s.failures, s.nextLimbo} \subseteq Nat
        /\ s.targets \in Partial(Target, Version) /\ s.states \in Partial(Target, TargetState)
        /\ s.resets \subseteq Query /\ s.views \in Partial(Query, View)
        /\ s.limbo \in Partial(LimboTarget, BOOLEAN)
    BY <1>1 DEF Client
  <1> HIDE DEF s
  <1>3. DOMAIN s.targets \subseteq Target /\ Range(s.targets) \subseteq Version
    BY <1>2, PartialIs DEF Range
  <1>4. /\ DOMAIN s.states \subseteq Target
        /\ \A t \in DOMAIN s.states : s.states[t] \in TargetState
    BY <1>2, PartialIs
  <1>5. \A t \in DOMAIN s.states : s.states[t].out \in Int
    BY <1>4 DEF TargetState
  <1>6. DOMAIN s.views \subseteq Query /\ DOMAIN s.limbo \subseteq LimboTarget
    BY <1>2, PartialIs
  <1>7. /\ DOMAIN disk.cache = Doc /\ Range(disk.cache) \subseteq DocState
        /\ disk.keys \in [Query -> SUBSET Doc] /\ disk.last \in Version
        /\ disk.data \in [Query -> [token: Version, version: Version]]
    BY DEF IInv, AnyDisk, QueryData, Range
  <1> QED
    BY <1>1, <1>2, <1>3, <1>4, <1>5, <1>6, <1>7
       DEF TypeOK, IInv, OnlineStates, Streams, Target, s

\* No HARD_ASSERT of remote_store.mm, online_state_tracker.cc, stream.cc,
\* watch_change.mm, sync_engine.mm or local_store.mm about the watched targets fails.
THEOREM NoAssertFailsHolds == Spec => []NoAssertFails
  <1>1. IInv => NoAssertFails
    BY TypesHold DEF NoAssertFails, IInv, Good, Sound, Steady
  <1> QED  BY <1>1, InvariantHolds, PTL

\* What the remote store listens to, what the local store holds and what the sync
\* engine shows and resolves stay in step, through every step of remote_store.mm's
\* and sync_engine.mm's handlers.
THEOREM TargetsAreWantedHolds == Spec => []TargetsAreWanted
  <1>1. ASSUME IInv PROVE TargetsAreWanted
    <2> DEFINE s == client
               keys == [t \in DOMAIN s.limbo |-> t.key]
    <2>1. Wanted(s) /\ Tracked(s, Excepted)
      BY <1>1, Zenon DEF IInv, Good
    <2>2. ("refused" \notin raced) => (Excepted = {})
      BY DEF Excepted
    <2> HIDE DEF s
    <2>3. /\ DOMAIN s.targets = DOMAIN s.views \cup DOMAIN s.limbo
          /\ DOMAIN s.mem = DOMAIN s.views
          /\ \A t \in DOMAIN s.limbo : InLimbo(s, t.key)
      BY <2>1 DEF Wanted, WantedBut
    <2>4. IsInjective(keys)
      BY <2>1 DEF IsInjective, Wanted, WantedBut
    <2>5. Excepted = {} => \A q \in DOMAIN s.views :
             s.views[q].limbo \subseteq {t.key : t \in DOMAIN s.limbo}
      BY <2>1 DEF Tracked
    <2> QED  BY <2>2, <2>3, <2>4, <2>5 DEF TargetsAreWanted, s
  <1> QED  BY <1>1, InvariantHolds, PTL

\* What is collected is told truly, the cache is not newer than the last snapshot, and
\* limbo targets hear of their documents.
LEMMA CacheInvariant == Spec => []CacheInv
  <1>1. IInv /\ CacheInv /\ [Next]_vars => CacheInv'
    BY StepKeeps DEF CacheKept
  <1> QED  BY <1>1, InvariantHolds, InitIsDated, PTL DEF Spec

\* The local store's remote document cache never goes back: local_store.mm writes a
\* document only when it is newer, and one without a version only when the backend told
\* the aggregator of watch_change.mm, or the sync engine by refusing the document's
\* target, that it is gone.
THEOREM CacheNeverGoesBackHolds == Spec => CacheNeverGoesBack
  <1>1. IInv /\ CacheInv /\ [Next]_vars => [CacheStays]_vars
    BY StepKeeps DEF CacheKept
  <1> QED
    BY <1>1, InvariantHolds, CacheInvariant, PTL DEF Spec, CacheNeverGoesBack, CacheStays

\* A limbo resolution comes to an end: once the backend has marked the target of a
\* document in limbo as current, and nothing of it waits for a snapshot, the sync engine
\* has noted that the document was received, or watch_change.mm's CreateRemoteEvent has
\* deduced that it is deleted and the cache does not have it any more.
THEOREM LimboIsResolvedHolds == Spec => []LimboIsResolved
  <1>1. ASSUME IInv, CacheInv PROVE LimboIsResolved
    <2> SUFFICES ASSUME "overtaken" \notin raced, "unheard" \notin raced,
                        NEW t \in DOMAIN client.limbo, Serves(t), Conn.served[t].current,
                        IsActive(client, t), ~client.states[t].pending
                 PROVE  client.limbo[t] \/ ~disk.cache[t.key].there
      BY DEF LimboIsResolved
    <2>1. Follow(log, client, disk, t)
      BY <1>1, LimboKnown DEF Heeded
    <2>2. t \in DOMAIN client.states
      BY <1>1, ConnIs DEF Serves
    <2>3. Hearing(client, t) /\ client.conn.served[t].current /\ ~StateOf(client, t).pending
      BY <2>2 DEF Hearing, IsActive, Serves, Conn, StateOf
    <2> QED  BY <2>1, <2>3 DEF Follow, Resolves
  <1> QED  BY <1>1, InvariantHolds, CacheInvariant, PTL

=============================================================================
