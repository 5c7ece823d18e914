----------------------------- MODULE WatchTargets -----------------------------
(***************************************************************************)
(* How the Firestore client of one device follows the results of queries.  *)
(*                                                                         *)
(* Every query somebody listens to is a target of one watch stream.  The   *)
(* backend acknowledges each watch and unwatch request, sends the changes  *)
(* of documents, marks targets current and closes each consistent set of   *)
(* messages with a snapshot version.  The aggregator collects the messages *)
(* between two snapshots; a snapshot goes to the local store (documents,   *)
(* keys and resume token of each query, on disk) and to the views.  A      *)
(* count that does not match makes the client fetch a target anew; a       *)
(* document in a view that the target does not name is in limbo and gets a *)
(* target of its own.  The stream is restarted with the resume tokens when *)
(* it breaks, and the online state decides when to answer from the cache.  *)
(*                                                                         *)
(* Users' writes are not part of this module.  A query's result is the set *)
(* of those of its documents that exist.                                   *)
(***************************************************************************)
EXTENDS Integers, Sequences, FiniteSets, SequencesExt

CONSTANTS
    Query, Doc,
    Matches,            \* Matches[q]: the documents query q is about
    DocumentQuery,      \* the queries that name a single document
    MaxChanges,         \* bound: length of the backend's log
    MaxListens,         \* bound: calls of Listen
    MaxFaults           \* bound: broken streams, resets, errors, crashes

ASSUME TargetsAssumption ==
    /\ Matches \in [Query -> SUBSET Doc]
    /\ DocumentQuery \subseteq Query
    /\ \A q \in DocumentQuery : Cardinality(Matches[q]) = 1
    /\ MaxChanges \in Nat \ {0} /\ {MaxListens, MaxFaults} \subseteq Nat
    /\ IsFiniteSet(Query) /\ IsFiniteSet(Doc)

VARIABLES
    client,     \* the client's memory, see Launched
    disk,       \* its persistent caches, see Disk
    log,        \* the backend's changes: log[v] is what version v changed
    raced,      \* history: "left", a query was left between its mismatch and the
                \* reset; "overtaken", a target was given up or reset while documents
                \* of it waited for a snapshot, or refused before its requests were
                \* answered; "unheard", a target was reset while it still had to hear,
                \* perhaps by a count, that a document is gone; "refused", a limbo
                \* target was refused and its document was in limbo in an offline view
    listens, faults     \* how much of the bounds is used up

vars == <<client, disk, log, raced, listens, faults>>

\* A target of limbo resolution has a fresh id, here its document and number
LimboTarget == [key: Doc, n: Nat]
Target == Query \cup LimboTarget
ASSUME TargetsDiffer == Query \cap LimboTarget = {}
KeysOf(t) == IF t \in Query THEN Matches[t] ELSE {t.key}
IsDocumentQuery(t) == t \notin Query \/ t \in DocumentQuery

\* A document as of a version; Unknown also is the NoDocument without version
DocState == [there: BOOLEAN, at: Nat]
Unknown == [there |-> FALSE, at |-> 0]

None == [x \in {} |-> x]
Only(x, value) == [y \in {x} |-> value]
Without(f, x) == Restrict(f, DOMAIN f \ {x})

\* What f says, and elsewhere what g says
f ++ g == [x \in DOMAIN f \cup DOMAIN g |-> IF x \in DOMAIN f THEN f[x] ELSE g[x]]

Disk == [cache: [Doc -> DocState],                  \* remote_document_cache_
         keys: [Query -> SUBSET Doc],               \* query_cache_
         data: [Query -> [token: Nat, version: Nat]],
         last: Nat]

-----------------------------------------------------------------------------
(* The backend's data *)

LastChange(d, v) == Max({0} \cup {i \in 1 .. v : log[i].doc = d})
At(d, v) == [there |-> LastChange(d, v) # 0 /\ log[LastChange(d, v)].there, at |-> LastChange(d, v)]
Result(t, v) == {d \in KeysOf(t) : At(d, v).there}

-----------------------------------------------------------------------------
(* The online state *)

HardAssert(s, condition) == [s EXCEPT !.ok = @ /\ condition]

\* SetAndBroadcast; a view that hears of Offline is not current any more
SetOnline(s, state) ==
    [s EXCEPT !.online = state,
              !.views = IF state # "Offline" THEN s.views
                        ELSE [q \in DOMAIN s.views |->
                                  [current |-> FALSE, limbo |-> s.views[q].limbo]]]

UpdateState(s, state) ==
    SetOnline([s EXCEPT !.timer = FALSE, !.failures = 0], state)

HandleWatchStreamStart(s) ==
    IF s.failures # 0 THEN s
    ELSE [HardAssert(SetOnline(s, "Unknown"), ~s.timer) EXCEPT !.timer = TRUE]

HandleWatchStreamFailure(s) ==
    IF s.online = "Online"
    THEN HardAssert(SetOnline(s, "Unknown"), s.failures = 0 /\ ~s.timer)
    ELSE SetOnline([s EXCEPT !.failures = @ + 1, !.timer = FALSE], "Offline")

-----------------------------------------------------------------------------
(* The watch stream *)

Started(s) == s.stream \in {"Starting", "Backoff", "Open"}

ShouldStartWatchStream(s) == s.enabled /\ ~Started(s) /\ s.targets # None

CleanUp(s) == [s EXCEPT !.states = None, !.docs = None, !.resets = {}]

Disconnected == [requests |-> <<>>, served |-> None, at |-> 0, quiet |-> TRUE]

StartWatchStream(s) ==
    HandleWatchStreamStart(
        [HardAssert(s, s.stream \in {"Initial", "Error"}) EXCEPT
            !.stream = IF @ = "Error" THEN "Backoff" ELSE "Starting"])

\* Stream::Close and OnWatchStreamClose
Close(s, stream) ==
    LET t == CleanUp([HardAssert(s, Started(s)) EXCEPT
                         !.stream = stream, !.idle = FALSE, !.conn = Disconnected])
        u == HardAssert(t, stream = "Error" \/ ~ShouldStartWatchStream(t))
    IN IF ShouldStartWatchStream(t)
       THEN StartWatchStream(HandleWatchStreamFailure(u))
       ELSE UpdateState(u, "Unknown")

Stop(s) == IF Started(s) THEN Close(s, "Initial") ELSE s

Fresh == [out |-> 0, current |-> FALSE, pending |-> FALSE, changes |-> None, token |-> 0]
StateOf(s, t) == IF t \in DOMAIN s.states THEN s.states[t] ELSE Fresh
WithState(s, t, state) == [s EXCEPT !.states = Only(t, state) ++ @]

\* The states of the targets requests are about, one more outstanding for each
Recorded(s, requests) ==
    [t \in {requests[i].id : i \in DOMAIN requests} |->
        [StateOf(s, t) EXCEPT
            !.out = @ + Cardinality({i \in DOMAIN requests : requests[i].id = t})]]

\* mutant: a request does not cancel the idle timer
SendWhileIdle(s, requests) ==
    [s EXCEPT !.states = Recorded(s, requests) ++ @,
              !.conn.requests = @ \o requests]

\* RecordPendingTargetRequest and Stream::Write, for a sequence of requests
Send(s, requests) ==
    [s EXCEPT !.states = Recorded(s, requests) ++ @,
              !.idle = @ /\ requests = <<>>,
              !.conn.requests = @ \o requests]

\* Requests about several targets are sent one after the other
RequestsInOrder(order, tokens) ==
    [i \in DOMAIN order |-> [watch |-> TRUE, id |-> order[i], token |-> tokens[order[i]]]]
WatchRequests(tokens) == RequestsInOrder(SetToSeq(DOMAIN tokens), tokens)

UnwatchRequests(ts) ==
    LET order == SetToSeq(ts)
    IN [i \in DOMAIN order |-> [watch |-> FALSE, id |-> order[i], token |-> 0]]

\* RemoteStore::Listen, for some targets one after the other
Listen(s, tokens) ==
    LET u == [HardAssert(s, DOMAIN tokens \cap DOMAIN s.targets = {}) EXCEPT
                 !.targets = tokens ++ @]
    IN CASE tokens = None -> s
         [] tokens # None /\ ShouldStartWatchStream(u) -> StartWatchStream(u)
         [] tokens # None /\ u.stream = "Open" -> Send(u, WatchRequests(tokens))
         [] OTHER -> u

\* RemoteStore::StopListening, for the targets ts one after the other
StopListening(s, ts) ==
    LET u == [HardAssert(s, ts \subseteq DOMAIN s.targets) EXCEPT
                 !.targets = Restrict(@, DOMAIN @ \ ts)]
        open == u.stream = "Open"
        v == IF open THEN Send(u, UnwatchRequests(ts)) ELSE u
    IN CASE ts = {} \/ v.targets # None -> v
         [] ts # {} /\ v.targets = None /\ open -> [v EXCEPT !.idle = TRUE]
         [] ts # {} /\ v.targets = None /\ ~open /\ v.enabled -> UpdateState(v, "Unknown")
         [] OTHER -> v

EnableNetwork(s) ==
    LET u == [s EXCEPT !.enabled = TRUE]
    IN IF ShouldStartWatchStream(u) THEN StartWatchStream(u) ELSE UpdateState(u, "Unknown")

DisableNetwork(s, state) == UpdateState(CleanUp(Stop([s EXCEPT !.enabled = FALSE])), state)

-----------------------------------------------------------------------------
(* The aggregator *)

\* mutant: messages of an earlier watch of the target are not ignored
IsListenedTo(s, t) == t \in DOMAIN s.targets

\* QueryDataForActiveTarget, IsActiveTarget
IsActive(s, t) == t \in DOMAIN s.targets /\ StateOf(s, t).out = 0

\* GetRemoteKeysForTarget.  A view's synced_documents_ are the keys of its query
\* in the query cache: it starts with these, and both see the same changes.
RemoteKeys(s, t) ==
    CASE t \in DOMAIN s.limbo -> IF s.limbo[t] THEN {t.key} ELSE {}
      [] t \in DOMAIN s.views -> disk.keys[t]
      [] OTHER -> {}

UpdateResumeToken(state, token) ==
    IF token = 0 THEN state ELSE [state EXCEPT !.pending = TRUE, !.token = token]

\* mutant: a document that waits for the snapshot counts as known
ChangeWaitingDocument(s, ids, key, there, updates) ==
    LET active == {t \in ids : IsActive(s, t)}
        Changes(t) ==
            LET changes == StateOf(s, t).changes
                known == key \in RemoteKeys(s, t) \cup DOMAIN changes
            IN CASE there -> Only(key, IF known THEN "Modified" ELSE "Added") ++ changes
                 [] ~there /\ known -> Only(key, "Removed") ++ changes
                 [] OTHER -> Without(changes, key)
    IN [s EXCEPT
          !.states = [t \in active |-> [StateOf(s, t) EXCEPT
                                          !.pending = TRUE, !.changes = Changes(t)]] ++ @,
          !.docs = IF active = {} THEN @ ELSE updates ++ @]

\* AddDocumentToTarget (there) or RemoveDocumentFromTarget (not there), for the
\* active ones of the targets ids; updates says what becomes of the document
ChangeDocument(s, ids, key, there, updates) ==
    LET active == {t \in ids : IsActive(s, t)}
        Changes(t) ==
            LET changes == StateOf(s, t).changes
                known == key \in RemoteKeys(s, t)
            IN CASE there -> Only(key, IF known THEN "Modified" ELSE "Added") ++ changes
                 [] ~there /\ known -> Only(key, "Removed") ++ changes
                 [] OTHER -> Without(changes, key)
    IN [s EXCEPT
          !.states = [t \in active |-> [StateOf(s, t) EXCEPT
                                          !.pending = TRUE, !.changes = Changes(t)]] ++ @,
          !.docs = IF active = {} THEN @ ELSE updates ++ @]

ResetTarget(s, t) ==
    LET keys == RemoteKeys(s, t)
    IN WithState(HardAssert(s, t \in DOMAIN s.states /\ s.states[t].out = 0), t,
                 [Fresh EXCEPT !.pending = keys # {},
                               !.changes = [k \in keys |-> "Removed"]])

HandleDocumentChange(s, m) ==
    ChangeDocument(s, m.ids, m.key, m.doc.there, Only(m.key, m.doc))

Answered(s, t) == [StateOf(s, t) EXCEPT !.out = @ - 1]

HandleTargetChange(s, m) ==
    LET t == m.id
        a == Answered(s, t)
    IN CASE m.kind = "NoChange" ->
                [s EXCEPT !.states = [x \in DOMAIN @ |->
                    IF IsActive(s, x) THEN UpdateResumeToken(@[x], m.token) ELSE @[x]]]
         [] m.kind = "Added" ->
                WithState(s, t, IF a.out # 0 THEN a
                                ELSE [a EXCEPT !.pending = FALSE, !.changes = None])
         [] m.kind = "Removed" ->
                IF a.out # 0 THEN WithState(s, t, a)
                ELSE [s EXCEPT !.states = Without(@, t)]
         [] m.kind = "Current" /\ IsActive(s, t) ->
                WithState(s, t, UpdateResumeToken(
                    [StateOf(s, t) EXCEPT !.current = TRUE, !.pending = TRUE], m.token))
         [] m.kind = "Reset" /\ IsActive(s, t) -> ResetTarget(s, t)
         [] OTHER -> s

Count(changes, type) == Cardinality({k \in DOMAIN changes : changes[k] = type})

\* mutant: a count that does not match is ignored
FilterIgnored(s, m) == s

HandleExistenceFilter(s, m) ==
    LET t == m.id
        changes == StateOf(s, t).changes
        size == Cardinality(RemoteKeys(s, t)) + Count(changes, "Added")
                                              - Count(changes, "Removed")
        key == CHOOSE k \in KeysOf(t) : TRUE
    IN CASE ~IsActive(s, t) -> s
         [] IsActive(s, t) /\ IsDocumentQuery(t) ->
                IF m.count = 0 THEN ChangeDocument(s, {t}, key, FALSE, Only(key, Unknown))
                ELSE HardAssert(s, m.count = 1)
         [] OTHER ->
                IF size = m.count THEN s
                ELSE [ResetTarget(s, t) EXCEPT !.resets = @ \cup {t}]

Aggregated(s, m) ==
    CASE m.kind = "Doc" -> HandleDocumentChange(s, m)
      [] m.kind = "Filter" -> HandleExistenceFilter(s, m)
      [] OTHER -> HandleTargetChange(s, m)

\* mutant: a missing document is not taken for deleted
NothingSynthesized(s, version) == s

\* CreateRemoteEvent's first half: a document query that is current and got no
\* document has none.  The first target of a document gets the deletion.
Synthesized(s, version) ==
    LET Key(t) == CHOOSE k \in KeysOf(t) : TRUE
        missing == {t \in DOMAIN s.states :
                       /\ IsActive(s, t) /\ IsDocumentQuery(t) /\ s.states[t].current
                       /\ KeysOf(t) \cap (DOMAIN s.docs \cup RemoteKeys(s, t)) = {}}
        first == {t \in missing : t = CHOOSE x \in missing : Key(x) = Key(t)}
        Deleted(t) == [s.states[t] EXCEPT !.pending = TRUE, !.changes = Without(@, Key(t))]
    IN [s EXCEPT
          !.states = [t \in first |-> Deleted(t)] ++ @,
          !.docs = [k \in {Key(t) : t \in first} |-> [there |-> FALSE, at |-> version]] ++ @]

\* CreateRemoteEvent on a synthesized state
RemoteEvent(s, version) ==
    [version |-> version,
     targets |-> [t \in {x \in DOMAIN s.states : IsActive(s, x) /\ s.states[x].pending}
                    |-> s.states[t]],
     mismatches |-> s.resets,
     docs |-> s.docs]

Cleared(s, event) ==
    [s EXCEPT !.docs = None, !.resets = {},
              !.states = [t \in DOMAIN event.targets |->
                  [s.states[t] EXCEPT !.pending = FALSE, !.changes = None]] ++ @]

\* RaiseWatchSnapshot up to the call of ApplyRemoteEvent
Rewatched(s, event) ==
    LET tokens == {t \in DOMAIN s.targets \cap DOMAIN event.targets :
                       event.targets[t].token # 0}
        u == [s EXCEPT !.targets = [t \in tokens |-> event.targets[t].token] ++ @]
        again == event.mismatches \cap DOMAIN u.targets
        order == SetToSeq(again)
    IN Send([u EXCEPT !.targets = [t \in again |-> 0] ++ @],
            [i \in 1 .. 2 * Len(order) |->
                [watch |-> i % 2 = 0, id |-> order[(i + 1) \div 2], token |-> 0]])

-----------------------------------------------------------------------------
(* The local store *)

Keys(changes, type) == {k \in DOMAIN changes : changes[k] = type}

\* mutant: a document is written whatever version the cache has
AnyVersion(doc, k) == TRUE

\* A document without a version is one the client itself declares deleted
Newer(doc, k) == doc = Unknown \/ doc.at > disk.cache[k].at

\* LocalStore::ApplyRemoteEvent.  aged: the queries whose data on disk is so old
\* that a new token is written although nothing else has changed.
Stored(s, event, aged) ==
    LET active == DOMAIN event.targets \cap DOMAIN s.mem
        Changes(q) == event.targets[q].changes
        renewed == {q \in active : event.targets[q].token # 0}
        written == {q \in renewed : s.mem[q].token = 0 \/ Changes(q) # None \/ q \in aged}
        Data(q) == [token |-> event.targets[q].token, version |-> event.version]
    IN [mem |-> [q \in renewed |-> Data(q)] ++ s.mem,
        disk |-> [cache |-> [k \in {x \in DOMAIN event.docs : Newer(event.docs[x], x)} |-> event.docs[k]]
                                ++ disk.cache,
                  keys |-> [q \in active |-> (disk.keys[q] \ Keys(Changes(q), "Removed"))
                                                \cup Keys(Changes(q), "Added")]
                                ++ disk.keys,
                  data |-> [q \in written |-> Data(q)] ++ disk.data,
                  last |-> IF event.version = 0 THEN disk.last ELSE event.version]]

\* LocalStore::ReleaseQuery
Released(q) ==
    IF client.mem[q].version > disk.data[q].version
    THEN [disk EXCEPT !.data[q] = client.mem[q]]
    ELSE disk

-----------------------------------------------------------------------------
(* The sync engine *)

Shown(q, d) == {k \in Matches[q] : d.cache[k].there}

InLimbo(s, k) == \E q \in DOMAIN s.views : k \in s.views[q].limbo

\* mutant: the target of a resolved document is still listened to
UntrackQuietly(s, keys) ==
    [s EXCEPT !.limbo =
        Restrict(@, {t \in DOMAIN @ : t.key \notin keys \/ InLimbo(s, t.key)})]

\* RemoveLimboTarget, for documents that left a view's limbo
Untrack(s, keys) ==
    LET gone == {t \in DOMAIN s.limbo : t.key \in keys /\ ~InLimbo(s, t.key)}
    IN StopListening([s EXCEPT !.limbo = Restrict(@, DOMAIN @ \ gone)], gone)

\* TrackLimboChange
Track(s, keys) ==
    LET order == SetToSeq({k \in keys : \A t \in DOMAIN s.limbo : t.key # k})
        new == {[key |-> order[i], n |-> s.nextLimbo + i] : i \in DOMAIN order}
    IN Listen([s EXCEPT !.limbo = [t \in new |-> FALSE] ++ @,
                        !.nextLimbo = @ + Len(order)],
              [t \in new |-> 0])

\* View::ApplyChanges and UpdateTrackedLimboDocuments, d being the disk by then
ApplyToView(s, q, event, d) ==
    LET old == s.views[q]
        current == IF q \in DOMAIN event.targets THEN event.targets[q].current
                   ELSE old.current
        limbo == IF current THEN Shown(q, d) \ d.keys[q] ELSE old.limbo
        u == [s EXCEPT !.views[q] = [current |-> current, limbo |-> limbo]]
    IN Track(Untrack(u, old.limbo \ limbo), limbo \ old.limbo)

\* UpdateTrackedLimboDocuments for the views in an order
ApplyToViews(s, order, event, d) ==
    LET applied[i \in 0 .. Len(order)] ==
            IF i = 0 THEN s ELSE ApplyToView(applied[i - 1], order[i], event, d)
    IN applied[Len(order)]

\* The views come in the order of a hash map
Orders(S) == {o \in [1 .. Cardinality(S) -> S] : Range(o) = S}

\* What SyncEngine::ApplyRemoteEvent notes of limbo resolutions
Received(s, event) ==
    LET resolved == DOMAIN event.targets \cap DOMAIN s.limbo
        Types(t) == Range(event.targets[t].changes)
        u == HardAssert(s, \A t \in resolved :
                              "Added" \in Types(t) \/ Types(t) = {} \/ s.limbo[t])
    IN [u EXCEPT !.limbo = [t \in resolved |->
            CASE "Added" \in Types(t) -> TRUE
              [] "Removed" \in Types(t) -> FALSE
              [] OTHER -> @[t]] ++ @]

\* SyncEngine::ApplyRemoteEvent
ApplyRemoteEvent(s, event) ==
    \E order \in Orders(DOMAIN s.views), aged \in SUBSET DOMAIN s.mem :
        LET stored == Stored(s, event, aged)
            t == HardAssert([Received(s, event) EXCEPT !.mem = stored.mem],
                            event.version = 0 \/ event.version >= disk.last)
        IN /\ disk' = stored.disk
           /\ client' = ApplyToViews(t, order, event, stored.disk)

RemoveQuery(s, q) ==
    Untrack([s EXCEPT !.views = Without(@, q), !.mem = Without(@, q)], s.views[q].limbo)

\* SyncEngine::HandleRejectedListen
HandleRejectedListen(s, t) ==
    \/ /\ t \in DOMAIN s.limbo
       /\ ApplyRemoteEvent([s EXCEPT !.limbo = Without(@, t)],
              [version |-> 0, targets |-> None, mismatches |-> {}, docs |-> Only(t.key, Unknown)])
    \/ /\ t \notin DOMAIN s.limbo
       /\ client' = RemoveQuery(s, t)
       /\ disk' = Released(t)

-----------------------------------------------------------------------------
(* The actions of the client *)

\* SyncEngine::Listen; a view starts with what the cache has
ListenTo(q) ==
    /\ listens < MaxListens
    /\ q \notin DOMAIN client.views
    /\ listens' = listens + 1
    /\ client' = Listen([client EXCEPT
                            !.mem = Only(q, disk.data[q]) ++ @,
                            !.views = Only(q, [current |-> FALSE, limbo |-> {}]) ++ @],
                        Only(q, disk.data[q].token))
    /\ UNCHANGED <<disk, log, raced, faults>>

\* History: documents of one of the targets wait for a snapshot as these change
Overtaken(ts) ==
    {mark \in {"overtaken"} : \E t \in ts : KeysOf(t) \cap DOMAIN client.docs # {}}

DroppedTargets == DOMAIN client.targets \ DOMAIN client'.targets

\* SyncEngine::StopListening
StopListeningTo(q) ==
    /\ q \in DOMAIN client.views
    /\ disk' = Released(q)
    /\ client' = RemoveQuery(StopListening(client, {q}), q)
    /\ raced' = raced \cup Overtaken(DroppedTargets)
                     \cup {mark \in {"left"} : q \in client.resets}
    /\ UNCHANGED <<log, listens, faults>>

TurnNetworkOff ==
    /\ client.enabled /\ faults < MaxFaults
    /\ faults' = faults + 1
    /\ client' = DisableNetwork(client, "Offline")
    /\ UNCHANGED <<disk, log, raced, listens>>

TurnNetworkOn ==
    /\ ~client.enabled
    /\ client' = EnableNetwork(client)
    /\ UNCHANGED <<disk, log, raced, listens, faults>>

HandleCredentialChange ==
    /\ client.enabled /\ faults < MaxFaults
    /\ faults' = faults + 1
    /\ client' = EnableNetwork(DisableNetwork(client, "Unknown"))
    /\ UNCHANGED <<disk, log, raced, listens>>

BackoffElapses ==
    /\ client.stream = "Backoff"
    /\ client' = [client EXCEPT !.stream = "Starting"]
    /\ UNCHANGED <<disk, log, raced, listens, faults>>

IdleTimeout ==
    /\ client.idle
    /\ client' = Stop(client)
    /\ UNCHANGED <<disk, log, raced, listens, faults>>

OnlineStateTimeout ==
    /\ client.timer
    /\ client' = SetOnline([HardAssert(client, client.online = "Unknown") EXCEPT
                               !.timer = FALSE], "Offline")
    /\ UNCHANGED <<disk, log, raced, listens, faults>>

\* mutant: the targets are not watched again on the new stream
OpenQuietly ==
    /\ client.stream = "Starting"
    /\ \E at \in 1 .. Len(log) :
          client' = [client EXCEPT !.stream = "Open",
                                   !.conn = [requests |-> <<>>, served |-> None,
                                             at |-> at, quiet |-> TRUE]]
    /\ UNCHANGED <<disk, log, raced, listens, faults>>

\* The token has come: OnWatchStreamOpen.  The stream may reach a server that
\* has not seen the newest changes yet.  listen_targets_ is a hash map, too.
OnWatchStreamOpen ==
    /\ client.stream = "Starting"
    /\ \E at \in 1 .. Len(log), order \in Orders(DOMAIN client.targets) :
          client' = Send([client EXCEPT !.stream = "Open",
                                        !.conn = [requests |-> <<>>, served |-> None,
                                                  at |-> at, quiet |-> TRUE]],
                         RequestsInOrder(order, client.targets))
    /\ UNCHANGED <<disk, log, raced, listens, faults>>

\* No token, or the call fails
StreamFails ==
    /\ client.stream \in {"Starting", "Open"} /\ faults < MaxFaults
    /\ faults' = faults + 1
    /\ client' = Close(client, "Error")
    /\ UNCHANGED <<disk, log, raced, listens>>

\* A message m of the backend, which leaves the connection as conn
OnWatchStreamChange(m, conn) ==
    LET s == UpdateState([client EXCEPT !.conn = conn], "Online")
        u == Aggregated(s, m)
        w == Synthesized(u, m.version)
        event == RemoteEvent(w, m.version)
    IN \/ /\ m.version = 0 \/ m.version < disk.last
          /\ client' = u
          /\ UNCHANGED disk
       \/ /\ m.version # 0 /\ m.version >= disk.last
          /\ ApplyRemoteEvent(Rewatched(Cleared(w, event), event), event)

\* The message that the target t is removed because of an error
ProcessTargetError(t, conn) ==
    LET s == UpdateState([client EXCEPT !.conn = conn], "Online")
    IN \/ /\ t \notin DOMAIN s.targets
          /\ client' = s
          /\ UNCHANGED disk
       \/ /\ t \in DOMAIN s.targets
          /\ HandleRejectedListen([s EXCEPT !.targets = Without(@, t),
                                            !.states = Without(@, t)], t)

-----------------------------------------------------------------------------
(* The backend *)

Change(d) ==
    /\ Len(log) < MaxChanges
    /\ log' = Append(log, [doc |-> d, there |-> ~At(d, Len(log)).there])
    /\ UNCHANGED <<client, disk, raced, listens, faults>>

Conn == client.conn
Connected == client.stream = "Open"
Serves(t) == Connected /\ t \in DOMAIN Conn.served

\* The backend sends a message, and the client handles it.  Other steps may come
\* between the two, but none that the backend's step could not follow as well:
\* it depends on the requests, which wait, and the log, which it may lag behind.
Tell(m, conn) ==
    /\ OnWatchStreamChange(m, conn)
    /\ UNCHANGED <<log, raced, listens>>

TargetMessage(kind, t, token) == [kind |-> kind, id |-> t, token |-> token, version |-> 0]
DocMessage(d, v, ids) == [kind |-> "Doc", key |-> d, doc |-> At(d, v), ids |-> ids, version |-> 0]

Request == Head(Conn.requests)
Requested == Connected /\ Conn.requests # <<>>

\* A watch request is acknowledged; what it is owed are the documents changed
\* since the resume token, deleted ones unless the backend has forgotten them.
ServeWatch ==
    LET t == Request.id
    IN /\ Requested /\ Request.watch /\ Request.token <= Conn.at
       /\ \E forgot \in BOOLEAN :
             LET owed == {d \in KeysOf(t) :
                            /\ LastChange(d, Conn.at) > Request.token
                            /\ At(d, Conn.at).there \/ (Request.token # 0 /\ ~forgot)}
             IN Tell(TargetMessage("Added", t, 0),
                     [Conn EXCEPT
                        !.requests = Tail(@),
                        !.served = Only(t, [owed |-> owed, current |-> FALSE,
                                              counted |-> Request.token = 0]) ++ @])
       /\ UNCHANGED faults

ServeUnwatch ==
    /\ Requested /\ ~Request.watch
    /\ Tell(TargetMessage("Removed", Request.id, 0),
            [Conn EXCEPT !.requests = Tail(@), !.served = Without(@, Request.id)])
    /\ UNCHANGED faults

\* A document the target t is owed
Deliver(t, d) ==
    /\ Serves(t) /\ d \in Conn.served[t].owed
    /\ Tell(DocMessage(d, Conn.at, {t}), [Conn EXCEPT !.served[t].owed = @ \ {d}])
    /\ UNCHANGED faults

\* A resumed target is told how many documents it should have
SendFilter(t) ==
    /\ Serves(t) /\ Conn.served[t].owed = {} /\ ~Conn.served[t].counted
    /\ Tell([kind |-> "Filter", id |-> t, count |-> Cardinality(Result(t, Conn.at)),
             version |-> 0],
            [Conn EXCEPT !.served[t].counted = TRUE])
    /\ UNCHANGED faults

SendCurrent(t) ==
    /\ Serves(t) /\ Conn.served[t].owed = {} /\ Conn.served[t].counted
    /\ ~Conn.served[t].current
    /\ Tell(TargetMessage("Current", t, Conn.at),
            [Conn EXCEPT !.served[t].current = TRUE, !.quiet = FALSE])
    /\ UNCHANGED faults

\* The server sees the next change
Advance ==
    LET d == log[Conn.at + 1].doc
        concerned == {t \in DOMAIN Conn.served : d \in KeysOf(t)}
        told == {t \in concerned : Conn.served[t].current}
        Owing(t) == [Conn.served[t] EXCEPT !.owed = @ \cup {d}]
        conn == [Conn EXCEPT !.at = @ + 1, !.quiet = FALSE,
                             !.served = [t \in concerned \ told |-> Owing(t)] ++ @]
    IN /\ Connected /\ Conn.at < Len(log)
       /\ IF told = {} THEN /\ client' = [client EXCEPT !.conn = conn]
                            /\ UNCHANGED <<disk, log, raced, listens>>
          ELSE Tell(DocMessage(d, Conn.at + 1, told), conn)
       /\ UNCHANGED faults

\* The entire stream is consistent
SendSnapshot ==
    /\ Connected /\ ~Conn.quiet /\ Conn.served # None
    /\ \A t \in DOMAIN Conn.served : Conn.served[t].current
    /\ Tell([kind |-> "NoChange", id |-> "all", version |-> Conn.at, token |-> Conn.at],
            [Conn EXCEPT !.quiet = TRUE])
    /\ UNCHANGED faults

ResetByServer(t) ==
    /\ Serves(t) /\ faults < MaxFaults
    /\ OnWatchStreamChange(TargetMessage("Reset", t, 0),
            [Conn EXCEPT !.served[t] = [owed |-> Result(t, Conn.at), current |-> FALSE,
                                        counted |-> TRUE]])
    /\ faults' = faults + 1
    /\ raced' = raced \cup Overtaken({t})
                     \cup {mark \in {"unheard"} :
                              \/ ~Conn.served[t].counted
                              \/ \E d \in Conn.served[t].owed : ~At(d, Conn.at).there}
    /\ UNCHANGED <<log, listens>>

\* A target is refused.  The document of a limbo target is refused only when it
\* is in no result of a query any more.
ErrorByServer(t) ==
    /\ Serves(t) /\ faults < MaxFaults
    /\ t \in Query \/ \A v \in Conn.at .. Len(log) : Result(t, v) = {}
    /\ ProcessTargetError(t, [Conn EXCEPT !.served = Without(@, t)])
    /\ faults' = faults + 1
    /\ raced' = raced \cup Overtaken(DroppedTargets)
                     \cup {mark \in {"overtaken"} : StateOf(client, t).out # 0}
                     \cup {mark \in {"refused"} :
                              /\ t \in DOMAIN client.limbo
                              /\ \E q \in DOMAIN client.views :
                                    /\ ~client.views[q].current
                                    /\ t.key \in client.views[q].limbo}
    /\ UNCHANGED <<log, listens>>

-----------------------------------------------------------------------------

Launched == [enabled |-> TRUE, stream |-> "Initial", idle |-> FALSE, conn |-> Disconnected,
             online |-> "Unknown", failures |-> 0, timer |-> FALSE,
             targets |-> None, states |-> None, docs |-> None, resets |-> {},
             mem |-> None, views |-> None, limbo |-> None, nextLimbo |-> 0, ok |-> TRUE]

\* A first launch; the backend has a document
Init ==
    /\ client = Launched
    /\ disk = [cache |-> [d \in Doc |-> Unknown],
               keys |-> [q \in Query |-> {}],
               data |-> [q \in Query |-> [token |-> 0, version |-> 0]],
               last |-> 0]
    /\ \E d \in Doc : log = <<[doc |-> d, there |-> TRUE]>>
    /\ raced = {} /\ listens = 0 /\ faults = 0

Relaunch ==
    /\ faults < MaxFaults
    /\ faults' = faults + 1
    /\ client' = Launched
    /\ UNCHANGED <<disk, log, raced, listens>>

Served == IF Connected THEN DOMAIN Conn.served ELSE {}

Backend == \/ ServeWatch \/ ServeUnwatch \/ Advance \/ SendSnapshot
           \/ \E t \in Served : \/ SendFilter(t) \/ SendCurrent(t)
                                \/ \E d \in Doc : Deliver(t, d)

Next == \/ \E q \in Query : ListenTo(q) \/ StopListeningTo(q)
        \/ TurnNetworkOff \/ TurnNetworkOn \/ HandleCredentialChange
        \/ BackoffElapses \/ IdleTimeout \/ OnlineStateTimeout
        \/ OnWatchStreamOpen \/ StreamFails
        \/ \E d \in Doc : Change(d)
        \/ Backend
        \/ \E t \in Served : ResetByServer(t) \/ ErrorByServer(t)
        \/ Relaunch

Spec == Init /\ [][Next]_vars

\* What enables Backend: the backend owes the client a message, or the news
BackendOwes ==
    /\ Connected
    /\ \/ Conn.requests # <<>> \/ Conn.at < Len(log)
       \/ \E t \in DOMAIN Conn.served : ~Conn.served[t].current
       \/ Conn.served # None /\ ~Conn.quiet

\* The worker queue runs the backoff timer, a call that was started comes to be
\* open, and the backend goes on as long as it owes something.  Each of its steps
\* brings it closer to owing nothing, so this is weak fairness of Backend.
Fairness == /\ WF_vars(BackoffElapses)
            /\ WF_vars(OnWatchStreamOpen)
            /\ []<>~BackendOwes

FairSpec == Spec /\ Fairness

-----------------------------------------------------------------------------
(* Correctness *)

Version == 0 .. MaxChanges

TypeOK ==
    /\ client.online \in {"Unknown", "Online", "Offline"}
    /\ client.stream \in {"Initial", "Starting", "Open", "Error", "Backoff"}
    /\ {client.enabled, client.idle, client.timer, client.ok} \subseteq BOOLEAN
    /\ {client.failures, client.nextLimbo} \subseteq Nat
    /\ client.stream # "Open" => client.conn = Disconnected
    /\ DOMAIN client.targets \subseteq Target
    /\ Range(client.targets) \subseteq Version
    /\ DOMAIN client.states \cup client.resets \subseteq Target
    /\ \A t \in DOMAIN client.states : client.states[t].out \in Int
    /\ DOMAIN client.views \subseteq Query
    /\ DOMAIN client.limbo \subseteq LimboTarget
    /\ DOMAIN disk.cache = Doc /\ Range(disk.cache) \subseteq DocState
    /\ disk.keys \in [Query -> SUBSET Doc]
    /\ disk.data \in [Query -> [token: Version, version: Version]]
    /\ disk.last \in Version /\ raced \subseteq {"left", "overtaken", "unheard", "refused"}
    /\ Len(log) \in Version /\ listens <= MaxListens /\ faults <= MaxFaults

\* The types hold, and of the client's HARD_ASSERTs these do not fail: the online
\* state's timer and failures fit its state, a stream stopped gracefully is not needed,
\* no target is listened to twice or given up when it is not listened to, a reset
\* target has a state and owes no answer, a count of a document query is 0 or 1, a
\* document in limbo is received before it is removed, snapshots do not go back in time.
NoAssertFails == TypeOK /\ client.ok

\* A document that a snapshot will bring to a view as modified is one of the view's
\* synced documents (View::ApplyTargetChange's assertion), whatever resets, mismatches,
\* breaks and new listens came between the message and the snapshot.
ModifiedAreSynced ==
    \A q \in DOMAIN client.states \cap DOMAIN client.views :
        Keys(client.states[q].changes, "Modified") \subseteq disk.keys[q]

\* Whatever is listened to remotely is wanted, and nothing wanted is missing: the
\* targets of the remote store, the queries the local store holds and the views
\* and limbo resolutions of the sync engine stay in step through rejected
\* targets, mismatches and reconnects.  Each document being resolved is in limbo
\* in some view and has one target.  A document in limbo is being resolved, unless
\* its target was refused while a view that has it in limbo was offline: such a
\* view keeps it, and does not ask again when it is back and the document too.
TargetsAreWanted ==
    /\ DOMAIN client.targets = DOMAIN client.views \cup DOMAIN client.limbo
    /\ DOMAIN client.mem = DOMAIN client.views
    /\ \A t \in DOMAIN client.limbo : InLimbo(client, t.key)
    /\ IsInjective([t \in DOMAIN client.limbo |-> t.key])
    /\ "refused" \notin raced => \A q \in DOMAIN client.views :
          client.views[q].limbo \subseteq {t.key : t \in DOMAIN client.limbo}

\* The view's sync state: its listeners are told the result is not from the cache
Synced(q) == client.views[q].current /\ client.views[q].limbo = {}

\* A result that is said to be synced is what the backend had at some version.
\* View, view.h: "has seen the current flag from the backend and did not lose
\* consistency within the watch stream".
SyncedIsAlwaysConsistent ==
    \A q \in DOMAIN client.views :
        Synced(q) => \E v \in 1 .. Len(log) : Shown(q, disk) = Result(q, v)

\* The same, as long as no query was left, and perhaps listened to again, between
\* a count that did not match and the snapshot that makes the client fetch it anew.
\* This is for a single query: when several share documents, the first snapshot of
\* a restarted stream may be about some of them, and update documents of the others.
SyncedIsConsistent == "left" \notin raced => SyncedIsAlwaysConsistent

\* All synced results belong to one version of the backend, with the exception of
\* SyncedIsConsistent, as long as there is no fault: the stream does not break, no
\* target is reset or refused, the network stays on, the user and the app do.
SyncedTogether ==
    "left" \notin raced => \E v \in 1 .. Len(log) :
        \A q \in DOMAIN client.views : Synced(q) => Shown(q, disk) = Result(q, v)

\* What the cache knows of a document never gets older, although a restarted
\* stream may reach a server that is behind: a document is only given up, without
\* a version, when it is gone or out of date.  The exception is a target that was
\* overtaken: that its document is gone still waits for the next snapshot, and
\* what it was told in between was not heard.
CacheNeverGoesBack ==
    [][\A d \in Doc :
          \/ disk'.cache[d].at >= disk.cache[d].at
          \/ /\ disk'.cache[d] = Unknown
             /\ \/ ~disk.cache[d].there \/ disk.cache[d] # At(d, Len(log))
                \/ "overtaken" \in raced]_vars

\* The client has counted more answers about q than it has asked for: an error has
\* erased q's state while requests were not answered (ProcessTargetError), and q was
\* listened to again before they were.  The target is not active until the stream is
\* started anew.
Miscounted(q) == q \in DOMAIN client.states /\ client.states[q].out < 0

\* A query somebody listens to comes to be current, unless it is given up, the
\* network is turned off, or its answers are miscounted.  It comes to be synced, with
\* nothing in limbo, but for the documents whose resolution is missed: those that
\* LimboIsResolved and TargetsAreWanted except.
ListenSettles ==
    \A q \in Query :
        q \in DOMAIN client.views ~>
            \/ q \notin DOMAIN client.views \/ ~client.enabled \/ Miscounted(q)
            \/ Synced(q)
            \/ /\ client.views[q].current
               /\ raced \cap {"overtaken", "unheard", "refused"} # {}

\* A limbo target that is current, and of which nothing waits for a snapshot, has been
\* resolved: its document was received or is gone.  (When a target was overtaken, its old document may
\* still wait for the snapshot; and a target that has received its document and is
\* reset before it hears that it is gone still has it for RemoteKeys.  In both
\* cases CreateRemoteEvent does not deduce that the document is deleted.)
LimboIsResolved ==
    raced \cap {"overtaken", "unheard"} = {} => \A t \in DOMAIN client.limbo :
        /\ Serves(t) /\ Conn.served[t].current
        /\ IsActive(client, t) /\ ~client.states[t].pending
        => client.limbo[t] \/ ~disk.cache[t.key].there
================================================================================
