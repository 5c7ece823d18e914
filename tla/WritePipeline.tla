----------------------------- MODULE WritePipeline -----------------------------
(***************************************************************************)
(* How the Firestore client of one device uploads its users' writes.       *)
(*                                                                         *)
(* Every user has a persistent queue of mutation batches.  The remote      *)
(* store copies the first few batches of the current user's queue into     *)
(* write_pipeline_, keeps a write stream open while the pipeline is not    *)
(* empty, sends the pipeline once the stream's handshake is complete, and  *)
(* takes each answer of the backend to be about the pipeline's first       *)
(* batch.  The stream asks Firebase Auth for a token before it connects,   *)
(* backs off after an error, closes itself when idle, and is torn down     *)
(* when the network is disabled or the user changes.                       *)
(*                                                                         *)
(* A step is one operation on the worker queue, or one step of the main    *)
(* queue, of Firebase Auth or of the backend.                              *)
(***************************************************************************)
EXTENDS Integers, Sequences, FiniteSets

CONSTANTS
    User,               \* the users of the device; one may be "signed out"
    NoToken, NoConn,    \* no stream token; no connection
    Handshake,          \* the first request, and the first answer, of a stream
    MaxPendingWrites,   \* kMaxPendingWrites
    MaxWrites,          \* bound: writes of all users
    MaxAuthEvents,      \* bound: changes of user or of ID token
    MaxFaults           \* bound: refusals, breaks, crashes, network switches

ASSUME PipelineAssumption ==
    /\ NoToken \notin User /\ {"transient", "aborted"} \cap User = {}
    /\ MaxPendingWrites \in Nat \ {0}
    /\ {MaxWrites, MaxAuthEvents, MaxFaults} \subseteq Nat

Write == 1 .. MaxWrites         \* numbered in the order the users make them
Batch == [id: Nat \ {0}, w: Write]

ASSUME HandshakeAssumption == Handshake \notin Batch

VARIABLES
    queue,      \* queue[u]: u's batches not yet settled (persistent)
    saved,      \* saved[u]: last stream token of u's queue (persistent)
    nextId,     \* next_batch_id_
    user,       \* current_user_ of the sync engine
    remote,     \* the remote store and its write stream, see Remote
    callbacks,  \* mutation_callbacks_, each with the write it is for
    waits,      \* pending_writes_callbacks_, each with what it waits for
    tasks,      \* worker queue: what the credentials provider enqueued
    main,       \* main queue: what Firebase Auth dispatched
    authUser,   \* the current user of Firebase Auth
    counter,    \* token_counter of the credentials provider
    issued,     \* issued[w]: the user whose write w is
    applied, refused,   \* writes the backend has applied, has refused
    acked, rejected,    \* writes the client took for applied, for refused
    unread,     \* writes with an answer that an error took off the stream unread
    faults, authEvents  \* how much of the bounds is used up

persistent == <<queue, saved>>
engine == <<nextId, user, callbacks, waits>>
auth == <<main, authUser, counter, authEvents>>
backend == <<issued, applied, refused>>
settled == <<acked, rejected, unread>>
vars == <<persistent, engine, remote, tasks, auth, backend, settled, faults>>

Request == Batch \cup {Handshake}
Status == {"open", "transient", "permanent"}

\* grpc_stream_: the user whose token opened it, the requests the backend has
\* not handled, the answers the client has not read, and how it ended
Conn == [user: User, requests: Seq(Request), responses: Seq(Request), status: Status]

ASSUME ConnAssumption == NoConn \notin Conn

Ask == [close: Nat, counter: Nat]   \* a GetToken call, see RequestCredentials

Remote == [enabled: BOOLEAN,                \* is_network_enabled_
           pipeline: Seq(Batch),            \* write_pipeline_
           state: {"Initial", "Starting", "Open", "Error", "Backoff"},
           closeCount: Nat,
           idle: BOOLEAN,                   \* idleness_timer_ is running
           handshake: BOOLEAN,              \* handshake_complete_
           token: User \cup {NoToken},      \* whose last_stream_token_ it is
           conn: Conn \cup {NoConn},
           asks: SUBSET Ask,
           ok: BOOLEAN]                     \* no HARD_ASSERT has failed

-----------------------------------------------------------------------------
(* The write stream *)

Started(s) == s.state \in {"Starting", "Backoff", "Open"}

\* mutant: the handshake need not be complete
UsableOnceOpen(s) == s.state = "Open"
Usable(s) == s.state = "Open" /\ s.handshake

HardAssert(s, condition) == [s EXCEPT !.ok = @ /\ condition]

Start(s) ==
    IF s.state = "Error"
    THEN [s EXCEPT !.state = "Backoff"]
    ELSE [HardAssert(s, s.state = "Initial") EXCEPT
            !.state = "Starting",
            !.asks = @ \cup {[close |-> s.closeCount, counter |-> counter]}]

\* mutant: the idle timer keeps running
SendWhileIdle(s, requests) ==
    IF requests = <<>> THEN s ELSE [s EXCEPT !.conn.requests = @ \o requests]

Send(s, requests) ==
    IF requests = <<>> THEN s
    ELSE [s EXCEPT !.idle = FALSE, !.conn.requests = @ \o requests]

MarkIdle(s) == [s EXCEPT !.idle = @ \/ s.state = "Open"]

\* Stream::Close up to the call of NotifyStreamClose
Closed(s, state) ==
    [HardAssert(s, Started(s)) EXCEPT
        !.idle = FALSE, !.closeCount = @ + 1, !.conn = NoConn, !.state = state]

IsFatalError(status) == TRUE    \* mutant: a lost connection counts too
IsPermanentError(status) == status # "transient"

\* mutant: a lost connection condemns the write too
IsAnyError(status) == TRUE
IsPermanentWriteError(status) == IsPermanentError(status) /\ status # "aborted"

InhibitBackoff(s) == [HardAssert(s, ~Started(s)) EXCEPT !.state = "Initial"]

-----------------------------------------------------------------------------
(* The write pipeline *)

ShouldStartWriteStream(s) == s.enabled /\ ~Started(s) /\ s.pipeline # <<>>

StartIfNeeded(s) == IF ShouldStartWriteStream(s) THEN Start(s) ELSE s

Smaller(a, b) == IF a < b THEN a ELSE b

\* How many batches of the queue q have an id up to the given one; a queue is
\* kept in the order of the ids
UpTo(q, id) == Cardinality({i \in DOMAIN q : q[i].id <= id})

\* The batches FillWritePipeline takes from the queue q: those that come after
\* the pipeline's last, as long as there is room.
Taken(s, q) ==
    LET n == IF s.pipeline = <<>> THEN 0 ELSE UpTo(q, s.pipeline[Len(s.pipeline)].id)
        room == IF s.enabled THEN MaxPendingWrites - Len(s.pipeline) ELSE 0
    IN SubSeq(q, n + 1, Smaller(n + room, Len(q)))

FillWritePipeline(s, q) ==
    LET more == Taken(s, q)
        t == [s EXCEPT !.pipeline = @ \o more]
    IN StartIfNeeded(IF t.pipeline = <<>> /\ s.enabled THEN MarkIdle(t)
                     ELSE IF Usable(t) THEN Send(t, more)
                     ELSE t)

NotifiedOnly(s) == [s EXCEPT !.handshake = FALSE]   \* mutant: no restart
NotifiedInPart(s) == StartIfNeeded(s)   \* mutant: the handshake's mark stays
\* The end of OnWriteStreamClose and of NotifyStreamClose
Notified(s) == [StartIfNeeded(s) EXCEPT !.handshake = FALSE]

Stop(s) ==
    LET t == Closed(s, "Initial")
    IN IF Started(s) THEN Notified(HardAssert(t, ~ShouldStartWriteStream(t))) ELSE s

DisableNetworkInternal(s) ==
    [Stop([s EXCEPT !.enabled = FALSE]) EXCEPT !.pipeline = <<>>]

EnableNetwork(s, u) ==
    FillWritePipeline([s EXCEPT !.enabled = TRUE, !.token = saved[u]], queue[u])

-----------------------------------------------------------------------------
(* The sync engine and the local store *)

Ids(q) == {q[i].id : i \in DOMAIN q}
Largest(S) == CHOOSE n \in S \cup {0} : \A m \in S : m <= n

\* mutant: only the batches of the user there was
NextBatchIdOfUser == Largest(Ids(queue[user])) + 1
LoadNextBatchIdFromDb == Largest(UNION {Ids(queue[u]) : u \in User}) + 1

Without(b) ==
    LET q == queue[user]
    IN SubSeq(q, 1, UpTo(q, b.id - 1)) \o SubSeq(q, UpTo(q, b.id) + 1, Len(q))

\* The batch b has been answered for: RemoveMutationBatch, NotifyUser and
\* TriggerPendingWriteCallbacks.  s, with b off its pipeline, becomes remote.
Settle(b, s) ==
    /\ queue' = [queue EXCEPT ![user] = Without(b)]
    /\ callbacks' = {k \in callbacks : k.user # user \/ k.id # b.id}
    /\ waits' = {x \in waits : x.id # b.id}
    /\ remote' = FillWritePipeline(HardAssert(s, b.id \in Ids(queue[user])), Without(b))
    /\ UNCHANGED <<nextId, user>>

-----------------------------------------------------------------------------
(* What the app asks for *)

\* SyncEngine::WriteMutations
WriteMutations ==
    LET b == [id |-> nextId, w |-> Len(issued) + 1]
    IN /\ Len(issued) < MaxWrites
       /\ issued' = Append(issued, user)
       /\ queue' = [queue EXCEPT ![user] = Append(@, b)]
       /\ nextId' = nextId + 1
       /\ callbacks' = callbacks \cup {[user |-> user, id |-> b.id, w |-> b.w]}
       /\ remote' = FillWritePipeline(remote, Append(queue[user], b))
       /\ UNCHANGED <<saved, user, waits, tasks, auth, applied, refused, settled, faults>>

GetHighestUnacknowledgedBatchId == Largest(Ids(queue[user]))

\* SyncEngine::RegisterPendingWritesCallback; it answers at once when no
\* batch is pending
WaitForPendingWrites ==
    /\ queue[user] # <<>>
    /\ waits' = waits \cup {[id |-> GetHighestUnacknowledgedBatchId,
                             on |-> {queue[user][i].w : i \in DOMAIN queue[user]}]}
    /\ UNCHANGED <<persistent, nextId, user, callbacks, remote, tasks, auth,
                   backend, settled, faults>>

TurnNetworkOn ==
    /\ ~remote.enabled
    /\ remote' = EnableNetwork(remote, user)
    /\ UNCHANGED <<persistent, engine, tasks, auth, backend, settled, faults>>

TurnNetworkOff ==
    /\ remote.enabled /\ faults < MaxFaults
    /\ remote' = DisableNetworkInternal(remote)
    /\ faults' = faults + 1
    /\ UNCHANGED <<persistent, engine, tasks, auth, backend, settled>>

-----------------------------------------------------------------------------
(* Timers *)

\* mutant: the stream is not started
BackoffElapsesQuietly ==
    /\ remote.state = "Backoff"
    /\ remote' = [remote EXCEPT !.state = "Initial"]
    /\ UNCHANGED <<persistent, engine, tasks, auth, backend, settled, faults>>

BackoffElapses ==
    /\ remote.state = "Backoff"
    /\ remote' = Start([remote EXCEPT !.state = "Initial"])
    /\ UNCHANGED <<persistent, engine, tasks, auth, backend, settled, faults>>

IdleTimeout ==
    /\ remote.idle
    /\ remote' = Stop(remote)
    /\ UNCHANGED <<persistent, engine, tasks, auth, backend, settled, faults>>

-----------------------------------------------------------------------------
(* What the stream observes *)

HasAnswer == remote.conn # NoConn /\ remote.conn.responses # <<>>

WritesOf(request) == IF request = Handshake THEN {} ELSE {request.w}
OnTheirWay == UNION {WritesOf(remote.conn.responses[i]) : i \in DOMAIN remote.conn.responses}

AfterRead == [remote EXCEPT !.conn.responses = Tail(@), !.token = remote.conn.user]

\* The first answer: OnWriteStreamHandshakeComplete
HandshakeComplete ==
    /\ HasAnswer /\ ~remote.handshake
    /\ saved' = [saved EXCEPT ![user] = remote.conn.user]
    /\ remote' = Send([AfterRead EXCEPT !.handshake = TRUE], remote.pipeline)
    /\ UNCHANGED <<queue, engine, tasks, auth, backend, settled, faults>>

\* A later answer: OnWriteStreamMutationResult, whose assertion that the
\* pipeline is not empty is part of AnswersMatch
MutationResult ==
    LET b == Head(remote.pipeline)
    IN /\ HasAnswer /\ remote.handshake /\ remote.pipeline # <<>>
       /\ Settle(b, [AfterRead EXCEPT !.pipeline = Tail(@)])
       /\ saved' = [saved EXCEPT ![user] = remote.conn.user]
       /\ acked' = acked \cup {b.w}
       /\ UNCHANGED <<tasks, auth, backend, rejected, unread, faults>>

\* Stream::Close with an error, then HandleWriteError or HandleHandshakeError
\* if there are writes in the pipeline.  (The handshake's mark is cleared once
\* the callbacks are done; they do not read it while the stream is not open.)
CloseWithError(status) ==
    LET t == Closed(remote, "Error")
        b == Head(t.pipeline)
        drops == t.pipeline # <<>> /\ t.handshake /\ IsPermanentWriteError(status)
        resets == t.pipeline # <<>> /\ ~t.handshake /\ IsPermanentError(status)
    IN \/ /\ drops
          /\ Settle(b, [InhibitBackoff(t) EXCEPT !.pipeline = Tail(@),
                                                !.handshake = FALSE])
          /\ rejected' = rejected \cup {b.w}
          /\ UNCHANGED saved
       \/ /\ ~drops
          /\ remote' = Notified(IF resets THEN [t EXCEPT !.token = NoToken] ELSE t)
          /\ saved' = IF resets THEN [saved EXCEPT ![user] = NoToken] ELSE saved
          /\ UNCHANGED <<queue, engine, rejected>>

\* The call has ended.  Its status comes after the last answer is read, or as
\* soon as a write fails: FinishGrpcCall then cancels the reads under way.
StreamFinish ==
    /\ remote.conn # NoConn
    /\ remote.conn.status # "open"
    /\ \/ remote.conn.responses = <<>>
       \/ remote.conn.requests # <<>>
    /\ CloseWithError(remote.conn.status)
    /\ unread' = unread \cup OnTheirWay
    /\ UNCHANGED <<tasks, auth, backend, acked, faults>>

\* The next answer, of the handshake or of a write, cannot be decoded: it ends
\* the call with a permanent error of its own, DATA_LOSS.  (The token that a
\* half-decoded answer to a write brings is of the user whose token is there.)
UnreadableResponse ==
    /\ HasAnswer /\ faults < MaxFaults
    /\ CloseWithError("permanent")
    /\ unread' = unread \cup OnTheirWay
    /\ faults' = faults + 1
    /\ UNCHANGED <<tasks, auth, backend, acked>>

-----------------------------------------------------------------------------
(* The worker queue's tasks *)

StillCurrent(r) == TRUE     \* mutant: the close count is not compared
Current(r) == r.close = remote.closeCount

\* ResumeStartWithCredentials, up to the handshake's request
ResumeStart ==
    LET r == Head(tasks)
        s == HardAssert(remote, remote.state = "Starting" /\ ~remote.handshake)
    IN /\ tasks # <<>> /\ r.kind = "Resume"
       /\ tasks' = Tail(tasks)
       /\ \/ /\ ~Current(r)
             /\ UNCHANGED <<persistent, engine, remote, rejected>>
          \/ /\ Current(r) /\ r.result \in User
             /\ remote' = [s EXCEPT !.state = "Open",
                                    !.conn = [user |-> r.result,
                                              requests |-> <<Handshake>>,
                                              responses |-> <<>>,
                                              status |-> "open"]]
             /\ UNCHANGED <<persistent, engine, rejected>>
          \/ /\ Current(r) /\ r.result \notin User
             /\ CloseWithError(r.result)
       /\ UNCHANGED <<auth, backend, acked, unread, faults>>

\* SyncEngine::HandleCredentialChange, LocalStore::HandleUserChange and
\* RemoteStore::HandleCredentialChange
HandleCredentialChange ==
    LET u == Head(tasks).user
    IN /\ tasks # <<>> /\ Head(tasks).kind = "CredentialChange"
       /\ tasks' = Tail(tasks)
       /\ user' = u
       /\ nextId' = IF u = user THEN nextId ELSE LoadNextBatchIdFromDb
       /\ waits' = IF u = user THEN waits ELSE {}
       /\ remote' = IF remote.enabled
                    THEN EnableNetwork(DisableNetworkInternal(remote), u)
                    ELSE remote
       /\ UNCHANGED <<persistent, callbacks, auth, backend, settled, faults>>

-----------------------------------------------------------------------------
(* Firebase Auth and the credentials provider *)

\* Another user, or a new ID token of the same one
AuthStateChanges(u) ==
    /\ authEvents < MaxAuthEvents
    /\ authEvents' = authEvents + 1
    /\ authUser' = u
    /\ main' = Append(main, [kind |-> "StateDidChange", user |-> u])
    /\ UNCHANGED <<persistent, engine, remote, tasks, counter, backend, settled, faults>>

\* getTokenForcingRefresh: the token is of the user there is when it is fetched
AuthAnswers(a) ==
    /\ \/ main' = Append(main, [kind |-> "Token", ask |-> a, result |-> authUser])
          /\ UNCHANGED faults
       \/ /\ faults < MaxFaults
          /\ main' = Append(main, [kind |-> "Token", ask |-> a, result |-> "transient"])
          /\ faults' = faults + 1
    /\ remote' = [remote EXCEPT !.asks = @ \ {a}]
    /\ UNCHANGED <<persistent, engine, tasks, authUser, counter, authEvents,
                   backend, settled>>

\* The provider's observer and its get_token_callback
MainQueueRuns ==
    LET m == Head(main)
    IN /\ main # <<>>
       /\ main' = Tail(main)
       /\ \/ /\ m.kind = "StateDidChange"
             /\ counter' = counter + 1
             /\ tasks' = Append(tasks, [kind |-> "CredentialChange", user |-> m.user])
          \/ /\ m.kind = "Token"
             /\ tasks' = Append(tasks, [kind |-> "Resume", close |-> m.ask.close,
                            result |-> IF m.ask.counter = counter THEN m.result
                                       ELSE "aborted"])
             /\ UNCHANGED counter
       /\ UNCHANGED <<persistent, engine, remote, authUser, authEvents, backend,
                      settled, faults>>

-----------------------------------------------------------------------------
(* The backend and the network *)

Serving == remote.conn # NoConn /\ remote.conn.status = "open"
Pending == Serving /\ remote.conn.requests # <<>>

Asked == Head(remote.conn.requests)

Serve ==
    /\ Pending
    /\ applied' = applied \cup WritesOf(Asked)
    /\ remote' = [remote EXCEPT !.conn.requests = Tail(@),
                                !.conn.responses = Append(@, Asked)]
    /\ UNCHANGED <<persistent, engine, tasks, auth, issued, refused, settled, faults>>

Refuse ==
    /\ Pending /\ faults < MaxFaults
    /\ refused' = refused \cup WritesOf(Asked)
    /\ remote' = [remote EXCEPT !.conn.requests = Tail(@), !.conn.status = "permanent"]
    /\ faults' = faults + 1
    /\ UNCHANGED <<persistent, engine, tasks, auth, issued, applied, settled>>

\* The connection is lost, with the answers on their way
Break ==
    /\ Serving /\ faults < MaxFaults
    /\ remote' = [remote EXCEPT !.conn.responses = <<>>, !.conn.status = "transient"]
    /\ faults' = faults + 1
    /\ UNCHANGED <<persistent, engine, tasks, auth, backend, settled>>

-----------------------------------------------------------------------------

Unstarted == [enabled |-> FALSE, pipeline |-> <<>>, state |-> "Initial",
              closeCount |-> 0, idle |-> FALSE, handshake |-> FALSE,
              token |-> NoToken, conn |-> NoConn, asks |-> {}, ok |-> TRUE]

\* FirestoreClient::Initialize, of a first launch
Init ==
    /\ queue = [u \in User |-> <<>>]
    /\ saved = [u \in User |-> NoToken]
    /\ nextId = 1
    /\ authUser \in User
    /\ user = authUser
    /\ remote = [Unstarted EXCEPT !.enabled = TRUE]
    /\ callbacks = {} /\ waits = {} /\ tasks = <<>> /\ main = <<>>
    /\ counter = 0 /\ issued = <<>>
    /\ applied = {} /\ refused = {} /\ acked = {} /\ rejected = {} /\ unread = {}
    /\ faults = 0 /\ authEvents = 0

\* The app is killed and launched again
Relaunch ==
    /\ faults < MaxFaults
    /\ faults' = faults + 1
    /\ nextId' = LoadNextBatchIdFromDb
    /\ user' = authUser
    /\ counter' = 0
    /\ remote' = LET s == EnableNetwork(Unstarted, authUser)
                 IN [s EXCEPT !.asks = {[a EXCEPT !.counter = 0] : a \in @}]
    /\ callbacks' = {} /\ waits' = {} /\ tasks' = <<>> /\ main' = <<>>
    /\ UNCHANGED <<persistent, authUser, authEvents, backend, settled>>

WorkerQueueRuns ==
    \/ BackoffElapses \/ IdleTimeout
    \/ HandshakeComplete \/ MutationResult \/ StreamFinish
    \/ ResumeStart \/ HandleCredentialChange

Work == WorkerQueueRuns \/ MainQueueRuns \/ (\E a \in remote.asks : AuthAnswers(a)) \/ Serve

Next == \/ Work
        \/ WriteMutations \/ WaitForPendingWrites
        \/ TurnNetworkOn \/ TurnNetworkOff
        \/ \E u \in User : AuthStateChanges(u)
        \/ Refuse \/ Break \/ UnreadableResponse \/ Relaunch

Spec == Init /\ [][Next]_vars

\* Each of the two queues, which also run the timers, goes on as long as it has
\* anything to run, Auth answers what it is asked, and the backend serves
FairSpec ==
    /\ Spec
    /\ WF_vars(WorkerQueueRuns) /\ WF_vars(MainQueueRuns)
    /\ WF_vars(\E a \in remote.asks : AuthAnswers(a))
    /\ WF_vars(Serve)

-----------------------------------------------------------------------------
(* Correctness *)

Task == [kind: {"CredentialChange"}, user: User]
        \cup [kind: {"Resume"}, close: Nat, result: User \cup {"transient", "aborted"}]
Block == [kind: {"StateDidChange"}, user: User]
         \cup [kind: {"Token"}, ask: Ask, result: User \cup {"transient"}]

\* Every variable has its type, and the pipeline holds at most
\* kMaxPendingWrites batches (AddToWritePipeline's assertion).
TypeOK ==
    /\ queue \in [User -> Seq(Batch)] /\ saved \in [User -> User \cup {NoToken}]
    /\ nextId \in Nat \ {0} /\ {user, authUser} \subseteq User
    /\ remote \in Remote /\ Len(remote.pipeline) <= MaxPendingWrites
    /\ callbacks \subseteq [user: User, id: Nat, w: Write]
    /\ waits \subseteq [id: Nat, on: SUBSET Write]
    /\ tasks \in Seq(Task) /\ main \in Seq(Block) /\ issued \in Seq(User)
    /\ {counter, faults, authEvents} \subseteq Nat
    /\ UNION {applied, refused, acked, rejected} \subseteq Write
    /\ unread \subseteq Write

\* The types hold, and no HARD_ASSERT of the streams, the remote store or the local
\* store fails:
\* a stream is started only from Initial, closed only when started, resumed
\* only while Starting, stopped gracefully only when no write needs it, its
\* backoff is inhibited only when stopped, and a settled batch is in the queue.
NoAssertFails == TypeOK /\ remote.ok

\* While the network is enabled the pipeline holds the oldest batches of the
\* current user's queue, as many as there is room for, and a stream is open or
\* on its way whenever there is one: no write is forgotten between the calls of
\* FillWritePipeline, whatever closes the stream, changes the user or restarts
\* the app.
PipelineIsFull ==
    /\ remote.pipeline = IF remote.enabled
                         THEN SubSeq(queue[user], 1, Smaller(MaxPendingWrites, Len(queue[user])))
                         ELSE <<>>
    /\ ~ShouldStartWriteStream(remote)

\* What is to be answered on a stream is its handshake, then exactly the
\* pipeline, in order: OnWriteStreamMutationResult, which takes an answer to be
\* about the pipeline's first batch, is never given one about another batch.
\* Only a broken call leaves the answers short.
AnswersMatch ==
    remote.conn # NoConn =>
        LET c == remote.conn
            due == c.responses \o c.requests
        IN CASE c.status = "open" ->
                    due = IF remote.handshake THEN remote.pipeline ELSE <<Handshake>>
             [] c.status = "permanent" /\ remote.handshake ->
                    \* the refused batch's request is gone
                    Len(remote.pipeline) = Len(due) + 1
                    /\ c.responses = SubSeq(remote.pipeline, 1, Len(c.responses))
             [] OTHER -> TRUE

\* A batch is sent only on a stream that was opened with a token of the user
\* who made it.  The user may have changed between the token's request, its
\* fetch, its arrival and the start of the stream; the token counter, the close
\* count and the order of the two queues keep them apart.  While the network is
\* enabled the stream token, too, is one the backend gave to the current user,
\* and so is the one kept with each user's queue.
OwnCredentials ==
    /\ remote.conn # NoConn =>
        /\ remote.conn.user = user
        /\ \A i \in DOMAIN remote.conn.requests :
              remote.conn.requests[i] # Handshake =>
                  issued[remote.conn.requests[i].w] = remote.conn.user
    /\ remote.enabled => remote.token \in {user, NoToken}
    /\ \A u \in User : saved[u] \in {u, NoToken}

\* A stream token is thrown away only because the backend refused the
\* handshake or its answer could not be decoded, never because a token request
\* was cut short by a change of user (the status ABORTED of get_token_callback
\* counts as permanent), nor because of what became of a write.
TokenKeptOnAbort ==
    [][\A u \in User : saved[u] # NoToken /\ saved'[u] = NoToken =>
        /\ remote.conn # NoConn /\ ~remote.handshake
        /\ remote.conn.status = "permanent" \/ HasAnswer]_vars

\* A write taken for refused was refused, or an answer to that very write had
\* come and was dropped: a failed write operation cancelled the reads under
\* way, or the answer could not be decoded.  Nothing else, no lost connection,
\* cut token request, change of user or restart, ever makes the client reject
\* a write.
RejectedUnlessLost == rejected \subseteq refused \cup unread

\* A completion handler is called for the write it came with, when that write
\* is settled, although batch ids are used again after a change of user; and
\* waitForPendingWrites answers only when every write there was at the time of
\* the call is settled.  (A change of user fails it, a crash forgets both.)
ToldOfItsWrites ==
    [][Relaunch
       \/ /\ \A k \in callbacks \ callbacks' :
              k.w \in (acked' \cup rejected') \ (acked \cup rejected)
          /\ user' = user => \A x \in waits \ waits' : x.on \subseteq acked' \cup rejected']_vars

\* The client keeps the promises of WriteContract.
Contract == INSTANCE WriteContract WITH
    pending <- [u \in User |-> [i \in DOMAIN queue[u] |-> queue[u][i].w]]
ContractHolds == Contract!Spec

\* Every write of the current user is settled in the end, unless the network
\* stays disabled or the user changes.
WritesSettle ==
    \A w \in Write :
        (w <= Len(issued) /\ w \notin acked \cup rejected)
            ~> \/ w \in acked \cup rejected
               \/ ~remote.enabled
               \/ w <= Len(issued) /\ user # issued[w]
================================================================================
