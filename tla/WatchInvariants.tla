--------------------------- MODULE WatchInvariants ----------------------------
(***************************************************************************)
(* The types of WatchTargets, and the invariants by which the properties   *)
(* of WatchTargets are proved: IInv and, on top of it, CacheInv.           *)
(***************************************************************************)
EXTENDS WatchTargets

-----------------------------------------------------------------------------
(* The types of the client's memory, and what holds of the client alone.   *)

\* Maps from some of the elements of S to R
Partial(S, R) == UNION {[D -> R] : D \in SUBSET S}

Type == {"Added", "Modified", "Removed"}
TargetState == [out: Int, current: BOOLEAN, pending: BOOLEAN,
                changes: Partial(Doc, Type), token: Version]
AnyRequest == [watch: BOOLEAN, id: Target, token: Version]
ServedState == [owed: SUBSET Doc, current: BOOLEAN, counted: BOOLEAN]
AnyConn == [requests: Seq(AnyRequest), served: Partial(Target, ServedState),
            at: Version, quiet: BOOLEAN]
View == [current: BOOLEAN, limbo: SUBSET Doc]
QueryData == [token: Version, version: Version]
Streams == {"Initial", "Starting", "Open", "Error", "Backoff"}
OnlineStates == {"Unknown", "Online", "Offline"}

Client ==
    [enabled: BOOLEAN, stream: Streams, idle: BOOLEAN, conn: AnyConn,
     online: OnlineStates, failures: Nat, timer: BOOLEAN,
     targets: Partial(Target, Version), states: Partial(Target, TargetState),
     docs: Partial(Doc, DocState), resets: SUBSET Query,
     mem: Partial(Query, QueryData), views: Partial(Query, View),
     limbo: Partial(LimboTarget, BOOLEAN), nextLimbo: Nat, ok: BOOLEAN]

AnyDisk == [cache: [Doc -> DocState], keys: [Query -> SUBSET Doc],
            data: [Query -> QueryData], last: Version]

\* The ids of limbo targets are numbers that have been given out.
Numbered(s, ids) == \A t \in ids \cap LimboTarget : t.n <= s.nextLimbo

RequestedIds(s) == {s.conn.requests[i].id : i \in DOMAIN s.conn.requests}

AllNumbered(s) ==
    /\ Numbered(s, DOMAIN s.targets) /\ Numbered(s, DOMAIN s.states)
    /\ Numbered(s, RequestedIds(s)) /\ Numbered(s, DOMAIN s.conn.served)

\* A change other than an addition is about a document the target is known to have.
Bad(changes) == \E k \in DOMAIN changes : changes[k] # "Added"

ChangesKnown(s) ==
    \A t \in DOMAIN s.limbo \cap DOMAIN s.states : Bad(s.states[t].changes) => s.limbo[t]

\* The client is in order: no assertion has failed, and what belongs to a stream is there
\* while it is open only.
Steady(s) ==
    /\ s \in Client /\ s.ok
    /\ s.stream # "Open" => s.conn = Disconnected
    /\ IsFiniteSet(DOMAIN s.targets)
    /\ AllNumbered(s) /\ ChangesKnown(s)

\* The online state: the timer runs while the stream starts
OnlineKnown(s) ==
    /\ s.timer => s.online = "Unknown" /\ Started(s)
    /\ s.online = "Online" => s.failures = 0

IdleKnown(s) == s.idle => s.stream = "Open" /\ s.targets = None

Sound(s) == Steady(s) /\ OnlineKnown(s) /\ IdleKnown(s)

\* What the backend serves, the aggregator knows
Watched(s) == DOMAIN s.conn.served \subseteq DOMAIN s.states

\* How many of the requests are about a target
Mentions(requests, t) == Cardinality({i \in DOMAIN requests : requests[i].id = t})

\* Each target has as many answers outstanding as requests wait.
Counted(s) == \A t : StateOf(s, t).out = Mentions(s.conn.requests, t)

-----------------------------------------------------------------------------
(* What is listened to is what is wanted.                                  *)

\* The four parts of what TargetsAreWanted says of the client.  While a view
\* changes, a target may be left for a document of keys that is in no view's limbo.
WantedBut(s, keys) ==
    /\ \A t : t \in DOMAIN s.targets <=> t \in DOMAIN s.views \/ t \in DOMAIN s.limbo
    /\ \A q : q \in DOMAIN s.mem <=> q \in DOMAIN s.views
    /\ \A t \in DOMAIN s.limbo : t.key \in keys \/ InLimbo(s, t.key)
    /\ \A t, x \in DOMAIN s.limbo : t.key = x.key => t = x

Wanted(s) == WantedBut(s, {})

\* Each document in limbo is being resolved, except for some
Tracked(s, except) ==
    \A q \in DOMAIN s.views : \A k \in s.views[q].limbo :
        k \in except \/ \E t \in DOMAIN s.limbo : t.key = k

\* The client is sound, listens to what is wanted and knows what it is served.
Good(s) == Sound(s) /\ Wanted(s) /\ Watched(s)

\* The documents in limbo that need not be being resolved
Excepted == IF "refused" \in raced THEN Doc ELSE {}

\* What holds of every state, whatever was raced
IInv ==
    /\ Good(client) /\ disk \in AnyDisk /\ Tracked(client, Excepted)
    /\ log \in Seq([doc: Doc, there: BOOLEAN]) /\ Len(log) \in Version
    /\ raced \subseteq {"left", "overtaken", "unheard", "refused"}
    /\ listens \in Nat /\ listens <= MaxListens /\ faults \in Nat /\ faults <= MaxFaults

-----------------------------------------------------------------------------
(* What is collected is told truly, and limbo targets are followed.        *)

\* The last change of a document among the first v of the changes l, and whether the
\* document is there after it
LastIn(l, d, v) == Max({0} \cup {i \in 1 .. v : l[i].doc = d})
There(l, d, v) == LastIn(l, d, v) # 0 /\ l[LastIn(l, d, v)].there

\* The requests that wait and are about a target
Asked(requests, t) == {x \in Range(requests) : x.id = t}

\* With the changes l, the document k was there at the version doc says, if it says so
True(l, k, doc) == doc.there => There(l, k, doc.at)

\* doc is the document k as far as the connection has come; if it is gone, since its
\* last change or without a version
Says(l, conn, k, doc) ==
    /\ doc.there <=> There(l, k, conn.at)
    /\ doc.there \/ doc = Unknown \/ doc.at = LastIn(l, k, conn.at)

\* The target t is served, and still owed the document k unless it is doc
Honest(l, conn, t, k, doc) ==
    /\ t \in DOMAIN conn.served /\ k \in KeysOf(t)
    /\ k \in conn.served[t].owed \/ Says(l, conn, k, doc)

\* The active target t vouches for what was collected of k
Vouches(l, s, t, k) == IsActive(s, t) /\ Honest(l, s.conn, t, k, s.docs[k])

\* Targets are owed documents they are about, and nothing when they are current
OwesRightly(conn) ==
    \A t \in DOMAIN conn.served :
        /\ conn.served[t].owed \subseteq KeysOf(t)
        /\ conn.served[t].current => conn.served[t].owed = {} /\ conn.served[t].counted

\* What is collected comes from the open stream, and is not newer than it
Streamed(l, s) ==
    /\ s.stream # "Open" => s.docs = None
    /\ s.stream = "Open" => s.conn.at \in 1 .. Len(l)
    /\ \A k \in DOMAIN s.docs : s.docs[k].at <= s.conn.at /\ True(l, k, s.docs[k])
    /\ OwesRightly(s.conn)

\* A document that was collected has a target that vouches for it
Vouched(l, s) == \A k \in DOMAIN s.docs : \E t : Vouches(l, s, t, k)

\* The cache is true, and has nothing newer than the last snapshot
Dated(l, d) ==
    /\ d.last <= Len(l)
    /\ \A k \in Doc : d.cache[k].at <= d.last /\ True(l, k, d.cache[k])

\* The limbo target t is served, and its requests are answered
Hearing(s, t) == StateOf(s, t).out = 0 /\ t \in DOMAIN s.conn.served

\* With the changes that wait for a snapshot, t is known to have its document
Has(s, t) ==
    LET changes == StateOf(s, t).changes
    IN IF t.key \in DOMAIN changes THEN changes[t.key] # "Removed" ELSE s.limbo[t]

\* A document that is there, and that t is not owed any more, t has
Knows(l, s, t) ==
    Hearing(s, t) /\ t.key \notin s.conn.served[t].owed /\ There(l, t.key, s.conn.at) => Has(s, t)

\* The changes that wait are about t's document, come from the open stream after
\* all answers, and the document was collected unless it is removed
Gathers(s, t) ==
    /\ \A k \in DOMAIN StateOf(s, t).changes : k = t.key
    /\ StateOf(s, t).out # 0 \/ s.stream # "Open" => StateOf(s, t).changes = None
    /\ t.key \in DOMAIN StateOf(s, t).changes /\ StateOf(s, t).changes[t.key] # "Removed" =>
          t.key \in DOMAIN s.docs

\* A document that is gone, as t has heard, perhaps by a count, is not in the cache,
\* or that it is gone waits for the snapshot; or t is not known to have it
Misses(l, s, d, t) ==
    /\ Hearing(s, t) /\ s.conn.served[t].counted /\ t.key \notin s.conn.served[t].owed
    /\ ~There(l, t.key, s.conn.at) /\ t.key \notin DOMAIN s.docs /\ s.limbo[t]
    => ~d.cache[t.key].there

\* With a token t has the document, if it was there at that version; without one t
\* has never received it
Tells(l, s, t, token) ==
    /\ token \in 0 .. Len(l)
    /\ There(l, t.key, token) => s.limbo[t]
    /\ token = 0 => ~s.limbo[t]

\* So it is with the token of t, and those in the requests; t is only watched
Resumable(l, s, t) ==
    /\ Tells(l, s, t, s.targets[t])
    /\ \A x \in Asked(s.conn.requests, t) : x.watch /\ Tells(l, s, t, x.token)

\* What the backend has marked current is current, and is resolved by the snapshot
Resolves(s, d, t) ==
    Hearing(s, t) /\ s.conn.served[t].current =>
        /\ StateOf(s, t).current
        /\ StateOf(s, t).pending \/ s.limbo[t] \/ ~d.cache[t.key].there

\* On the open stream t is served or asked for
Present(s, t) ==
    s.stream = "Open" => t \in DOMAIN s.conn.served \/ Asked(s.conn.requests, t) # {}

\* What holds of a limbo target
Follow(l, s, d, t) ==
    /\ Knows(l, s, t) /\ Gathers(s, t) /\ Misses(l, s, d, t)
    /\ Resumable(l, s, t) /\ Resolves(s, d, t) /\ Present(s, t)

LimboInv(l, s, d) == \A t \in DOMAIN s.limbo : Follow(l, s, d, t)

\* No limbo target was reset, given up or refused at the wrong time
Heeded(marks) == "overtaken" \notin marks /\ "unheard" \notin marks

\* What is collected is told truly, what is cached is in a snapshot, and limbo targets
\* hear of their documents
CacheInv ==
    /\ Streamed(log, client) /\ Dated(log, disk)
    /\ "overtaken" \notin raced => Counted(client) /\ Vouched(log, client)
    /\ Heeded(raced) => LimboInv(log, client, disk)
================================================================================
