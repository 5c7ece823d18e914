------------------------------ MODULE GrpcStreams ------------------------------
(***************************************************************************)
(* The calls of gRPC under the client's streams, and the two threads that  *)
(* handle them.                                                            *)
(*                                                                         *)
(* The worker queue starts operations of a call (a read, a write, its      *)
(* finish), each with a completion as its tag.  A second thread takes the  *)
(* completions off gRPC's completion queue, marks each as off the queue,   *)
(* and enqueues its callback on the worker queue.  Before a stream is      *)
(* destroyed the worker queue cancels the callbacks that are left and      *)
(* blocks until the last completion is off gRPC's queue: gRPC needs the    *)
(* call's objects until then.                                              *)
(*                                                                         *)
(* A step is a task of the worker queue up to where it blocks or ends, or  *)
(* a step of the polling thread, of gRPC or of the backend.                *)
(***************************************************************************)
EXTENDS Integers, Sequences, FiniteSets, Functions

CONSTANTS
    Stream,         \* the streams of the remote store
    Polite,         \* those that say good-bye (WriteStream::TearDown)
    Nothing,        \* no GrpcStream, no completion
    MaxEvents, MaxWrites, MaxReads      \* bounds, see used

ASSUME StreamsAssumption ==
    /\ Polite \subseteq Stream /\ Nothing \notin Nat
    /\ {MaxEvents, MaxWrites, MaxReads} \subseteq Nat

VARIABLES
    streams,        \* streams[s]: the GrpcStream of stream s, see GrpcStream
    activeCalls,    \* active_calls_ of the GrpcConnection
    completions,    \* the completions there are, with what their callback does
    grpcQueue,      \* gRPC's completion queue: completions and their results
    polled,         \* the completion the polling thread is about to enqueue
    tasks,          \* what it has enqueued on the worker queue
    worker,         \* where the worker queue is blocked, or Idle
    ok,             \* no HARD_ASSERT has failed
    used            \* the bounds used up: starts and faults, later writes, reads

vars == <<streams, activeCalls, completions, grpcQueue, polled, tasks, worker, ok, used>>

Id == Nat   \* completions

GrpcStream == [completions: SUBSET Id,          \* completions_
               finished: BOOLEAN,               \* is_grpc_call_finished_
               active: BOOLEAN,                 \* has_active_write_
               buffer: Seq(Nat),                \* queue_ of the buffered writer
               written: Nat,                    \* how often the observer wrote
               given: Seq(Nat),                 \* what gRPC was given to write
               greeted: BOOLEAN,                \* something has been read
               call: {"open", "ended", "cancelled"}]

\* What a completion does when it has run: for RemoveOnly it is off the stream's
\* list, for Cancelled not even that.
Callback == {"OnRead", "OnWrite", "FinishAndNotify", "RemoveOnly", "Cancelled"}

Idle == [at |-> "idle"]

\* The stream of a completion is Nothing once it is destroyed
Completion == [stream: Stream \cup {Nothing}, type: {"Read", "Write", "Finish"},
               callback: Callback]

\* What gRPC's queue tells of a completion
Outcome == [id: Id, ok: BOOLEAN]

ASSUME NothingAssumption == Nothing \notin Stream \cup GrpcStream \cup Outcome

-----------------------------------------------------------------------------
(* GrpcStream, on its record g and the map cs of all completions *)

Fresh(cs) == CHOOSE i \in 0 .. Cardinality(DOMAIN cs) : i \notin DOMAIN cs

\* A world is what the operations of GrpcStream change
World == [g |-> streams, cs |-> completions, ok |-> ok]

HardAssert(w, condition) == [w EXCEPT !.ok = @ /\ condition]

NewCompletion(w, s, type, callback) ==
    LET i == Fresh(w.cs)
    IN [w EXCEPT !.cs = [j \in DOMAIN @ \cup {i} |->
                            IF j = i THEN [stream |-> s, type |-> type, callback |-> callback]
                                     ELSE @[j]],
                 !.g[s].completions = @ \cup {i}]

Read(w, s) == NewCompletion(w, s, "Read", "OnRead")

\* mutant: the active write is not waited for
StartWrite(w, s, callback) ==
    IF w.g[s].buffer = <<>> THEN w
    ELSE NewCompletion([w EXCEPT !.g[s].active = TRUE,
                                 !.g[s].buffer = Tail(@),
                                 !.g[s].given = Append(@, Head(w.g[s].buffer))],
                       s, "Write", callback)

\* BufferedWriter::TryStartWrite and GrpcStream::MaybeWrite
TryStartWrite(w, s, callback) ==
    IF w.g[s].buffer = <<>> \/ w.g[s].active THEN w
    ELSE NewCompletion([w EXCEPT !.g[s].active = TRUE,
                                 !.g[s].buffer = Tail(@),
                                 !.g[s].given = Append(@, Head(w.g[s].buffer))],
                       s, "Write", callback)

Enqueued(w, s) ==
    [w EXCEPT !.g[s].written = @ + 1,
              !.g[s].buffer = Append(@, w.g[s].written + 1)]

Write(w, s) == TryStartWrite(Enqueued(w, s), s, "OnWrite")

DequeueNextWrite(w, s) == TryStartWrite([w EXCEPT !.g[s].active = FALSE], s, "OnWrite")

\* mutant: callbacks that are on the worker queue already are left to run
CancelQueued(w, s) ==
    [w EXCEPT !.cs = [i \in DOMAIN @ |->
                         IF i \in w.g[s].completions /\ \A k \in DOMAIN tasks : tasks[k].id # i
                         THEN [@[i] EXCEPT !.callback = "Cancelled"] ELSE @[i]]]

\* The first loop of FastFinishCompletionsBlocking
Cancel(w, s) ==
    [w EXCEPT !.cs = [i \in DOMAIN @ |-> IF i \in w.g[s].completions
                                         THEN [@[i] EXCEPT !.callback = "Cancelled"]
                                         ELSE @[i]]]

\* ... after its second loop
Clear(w, s) == [w EXCEPT !.g[s].completions = {}]

\* FinishGrpcCall up to where it blocks
FinishGrpcCall(w, s) ==
    Cancel([HardAssert(w, ~w.g[s].finished) EXCEPT !.g[s].finished = TRUE], s)

NeedsFinish(w, s) == w.g[s].completions # {} /\ ~w.g[s].finished

\* mutant: the call is finished without being cancelled
ShutdownQuietly(w, s) == IF NeedsFinish(w, s) THEN FinishGrpcCall(w, s) ELSE Cancel(w, s)

\* Shutdown up to where it blocks first
Shutdown(w, s) ==
    IF NeedsFinish(w, s)
    THEN FinishGrpcCall([w EXCEPT !.g[s].call = "cancelled"], s)
    ELSE Cancel(w, s)

Destroy(w, s) ==
    [HardAssert(w, w.g[s].completions = {}) EXCEPT
        !.g[s] = Nothing,
        !.cs = [i \in DOMAIN @ |-> IF @[i].stream = s THEN [@[i] EXCEPT !.stream = Nothing]
                                                      ELSE @[i]]]

Become(w) == streams' = w.g /\ completions' = w.cs /\ ok' = w.ok

-----------------------------------------------------------------------------
(* The worker queue *)

\* GrpcConnection::Unregister: the call is found and erased
Unregistered(s) ==
    LET i == CHOOSE i \in DOMAIN activeCalls : activeCalls[i] = s
    IN SubSeq(activeCalls, 1, i - 1) \o SubSeq(activeCalls, i + 1, Len(activeCalls))

\* The worker shuts down the streams of the sequence ss, one after the other
\* (FinishImmediately or FinishAndNotify)
ShutDown(w, ss) ==
    LET s == Head(ss)
        registered == s \in Range(activeCalls)
    IN /\ Become(Shutdown(HardAssert(w, registered), s))
       /\ activeCalls' = Unregistered(s)
       /\ worker' = [at |-> IF NeedsFinish(w, s) THEN "cancelling" ELSE "finishing",
                     streams |-> ss]

Running(s) == worker = Idle /\ streams[s] # Nothing

\* Stream::ResumeStartWithCredentials: create the call, start it, read, and write
\* the first request in OnStreamStart
Start(s) ==
    LET new == [completions |-> {}, finished |-> FALSE, active |-> FALSE, buffer |-> <<>>,
                written |-> 0, given |-> <<>>, greeted |-> FALSE, call |-> "open"]
    IN /\ worker = Idle /\ streams[s] = Nothing /\ used.events < MaxEvents
       /\ Become(Write(Read([World EXCEPT !.g[s] = new], s), s))
       /\ activeCalls' = Append(activeCalls, s)
       /\ used' = [used EXCEPT !.events = @ + 1]
       /\ UNCHANGED <<grpcQueue, polled, tasks, worker>>

\* Stream::Write
ObserverWrites(s) ==
    /\ Running(s) /\ used.writes < MaxWrites
    /\ used' = [used EXCEPT !.writes = @ + 1]
    /\ Become(Write(World, s))
    /\ UNCHANGED <<activeCalls, grpcQueue, polled, tasks, worker>>

\* Stream::Close of a graceful stop, with TearDown.  The last write is tried
\* unless another one is active.
Stop(s) ==
    LET w == Enqueued(World, s)
        last == ~streams[s].finished /\ s \in Polite /\ streams[s].greeted
    IN /\ Running(s) /\ used.events < MaxEvents
       /\ used' = [used EXCEPT !.events = @ + 1]
       /\ \/ /\ last /\ ~streams[s].active
             /\ Become(TryStartWrite(w, s, "RemoveOnly"))
             /\ worker' = [at |-> "lastWrite", streams |-> <<s>>]
             /\ UNCHANGED activeCalls
          \/ /\ last /\ streams[s].active
             /\ ShutDown(w, <<s>>)
          \/ /\ ~last
             /\ ShutDown(World, <<s>>)
       /\ UNCHANGED <<grpcQueue, polled, tasks>>

\* GrpcConnection::RegisterConnectivityMonitor's callback
NetworkChanges ==
    /\ worker = Idle /\ activeCalls # <<>> /\ used.events < MaxEvents
    /\ used' = [used EXCEPT !.events = @ + 1]
    /\ ShutDown(World, activeCalls)
    /\ UNCHANGED <<grpcQueue, polled, tasks>>

\* GrpcStream::OnRead: read on, then tell the observer, who may write, or who may
\* not understand the message and shut the stream down
OnRead(w, s) ==
    LET v == Read([w EXCEPT !.g[s].greeted = TRUE], s)
    IN \/ Become(v) /\ UNCHANGED <<activeCalls, worker, used>>
       \/ /\ used.writes < MaxWrites
          /\ used' = [used EXCEPT !.writes = @ + 1]
          /\ Become(Write(v, s)) /\ UNCHANGED <<activeCalls, worker>>
       \/ /\ used.events < MaxEvents
          /\ used' = [used EXCEPT !.events = @ + 1]
          /\ ShutDown(v, <<s>>)

OnOperationFailed(w, s) ==
    \/ w.g[s].finished /\ Become(w) /\ UNCHANGED worker
    \/ /\ ~w.g[s].finished
       /\ Become(FinishGrpcCall(w, s))
       /\ worker' = [at |-> "failing", streams |-> <<s>>]

\* The task GrpcCompletion::Complete has enqueued; the completion deletes itself
RunTask ==
    LET i == Head(tasks).id
        c == completions[i]
        s == c.stream
        gone == [World EXCEPT !.cs = [j \in DOMAIN @ \ {i} |-> @[j]]]
        w == [HardAssert(gone, i \in streams[s].completions) EXCEPT
                !.g[s].completions = @ \ {i}]
    IN /\ worker = Idle /\ tasks # <<>>
       /\ tasks' = Tail(tasks)
       /\ \/ /\ c.callback = "Cancelled"
             /\ Become(gone)
             /\ UNCHANGED <<activeCalls, worker, used>>
          \/ /\ c.callback # "Cancelled" /\ ~Head(tasks).ok
             /\ OnOperationFailed(w, s)
             /\ UNCHANGED <<activeCalls, used>>
          \/ /\ c.callback = "OnRead" /\ Head(tasks).ok
             /\ OnRead(w, s)
          \/ /\ c.callback = "OnWrite" /\ Head(tasks).ok
             /\ Become(DequeueNextWrite(w, s))
             /\ UNCHANGED <<activeCalls, worker, used>>
          \/ /\ c.callback = "FinishAndNotify" /\ Head(tasks).ok
             /\ ShutDown(w, <<s>>)
             /\ UNCHANGED used
       /\ UNCHANGED <<grpcQueue, polled>>

\* std::promise::set_value has been called
OffQueue(i) ==
    \/ i \notin DOMAIN completions
    \/ polled # Nothing /\ polled.id = i
    \/ \E k \in DOMAIN tasks : tasks[k].id = i

\* The worker queue stops waiting for the completions of its first stream
Proceed ==
    LET s == Head(worker.streams)
        w == Clear(World, s)
        rest == Tail(worker.streams)
    IN /\ worker # Idle /\ worker.at # "lastWrite"
       /\ \A i \in streams[s].completions : OffQueue(i)
       /\ \/ /\ worker.at = "failing"
             /\ Become(NewCompletion(w, s, "Finish", "FinishAndNotify"))
             /\ worker' = Idle /\ UNCHANGED activeCalls
          \/ /\ worker.at = "cancelling"
             /\ Become(Cancel(NewCompletion(w, s, "Finish", "RemoveOnly"), s))
             /\ worker' = [worker EXCEPT !.at = "finishing"] /\ UNCHANGED activeCalls
          \/ /\ worker.at = "finishing"
             /\ IF rest # <<>> THEN ShutDown(Destroy(w, s), rest)
                ELSE Become(Destroy(w, s)) /\ worker' = Idle /\ UNCHANGED activeCalls
       /\ UNCHANGED <<grpcQueue, polled, tasks, used>>

\* ... or for the last write: it is off the queue, or 500 ms have passed
LastWriteEnds ==
    /\ worker.at = "lastWrite"
    /\ ShutDown(World, worker.streams)
    /\ UNCHANGED <<grpcQueue, polled, tasks, used>>

-----------------------------------------------------------------------------
(* The polling thread *)

\* Datastore::PollGrpcQueue takes a completion; Complete sets its promise ...
Poll ==
    /\ polled = Nothing /\ grpcQueue # <<>>
    /\ polled' = Head(grpcQueue) /\ grpcQueue' = Tail(grpcQueue)
    /\ UNCHANGED <<streams, activeCalls, completions, tasks, worker, ok, used>>

\* ... and enqueues its callback
Enqueue ==
    /\ polled # Nothing
    /\ tasks' = Append(tasks, polled) /\ polled' = Nothing
    /\ UNCHANGED <<streams, activeCalls, completions, grpcQueue, worker, ok, used>>

-----------------------------------------------------------------------------
(* gRPC and the backend *)

WithGrpc(i) ==
    /\ ~OffQueue(i) /\ \A k \in DOMAIN grpcQueue : grpcQueue[k].id # i
    /\ completions[i].stream # Nothing     \* always, see NothingOutlivesTheStream

Result(i, result) ==
    /\ grpcQueue' = Append(grpcQueue, [id |-> i, ok |-> result])
    /\ UNCHANGED <<streams, activeCalls, completions, polled, tasks, worker, ok>>

OfType(i, type) == WithGrpc(i) /\ completions[i].type = type

CallOf(i) == streams[completions[i].stream].call

\* A message arrives; it may have been on its way when the call ended
ReadSucceeds(i) ==
    /\ OfType(i, "Read") /\ CallOf(i) # "cancelled" /\ used.reads < MaxReads
    /\ used' = [used EXCEPT !.reads = @ + 1]
    /\ Result(i, TRUE)

WriteSucceeds(i) ==
    /\ OfType(i, "Write") /\ CallOf(i) = "open"
    /\ Result(i, TRUE)
    /\ UNCHANGED used

\* A read or write of a call that has ended or is cancelled fails
OperationFails(i) ==
    /\ OfType(i, "Read") \/ OfType(i, "Write")
    /\ CallOf(i) # "open"
    /\ Result(i, FALSE)
    /\ UNCHANGED used

\* The status of the call is there
FinishSucceeds(i) ==
    /\ OfType(i, "Finish") /\ CallOf(i) # "open"
    /\ Result(i, TRUE)
    /\ UNCHANGED used

\* The backend ends the call, or its connection breaks
CallEnds(s) ==
    /\ streams[s] # Nothing /\ streams[s].call = "open" /\ used.events < MaxEvents
    /\ streams' = [streams EXCEPT ![s].call = "ended"]
    /\ used' = [used EXCEPT !.events = @ + 1]
    /\ UNCHANGED <<activeCalls, completions, grpcQueue, polled, tasks, worker, ok>>

-----------------------------------------------------------------------------
Init ==
    /\ streams = [s \in Stream |-> Nothing] /\ activeCalls = <<>>
    /\ completions = [i \in {} |-> Nothing]
    /\ grpcQueue = <<>> /\ polled = Nothing /\ tasks = <<>>
    /\ worker = Idle /\ ok = TRUE
    /\ used = [events |-> 0, writes |-> 0, reads |-> 0]

Next == \/ \E s \in Stream : Start(s) \/ ObserverWrites(s) \/ Stop(s) \/ CallEnds(s)
        \/ NetworkChanges \/ RunTask \/ Proceed \/ LastWriteEnds
        \/ Poll \/ Enqueue
        \/ \E i \in DOMAIN completions :
              ReadSucceeds(i) \/ WriteSucceeds(i) \/ OperationFails(i) \/ FinishSucceeds(i)

Spec == Init /\ [][Next]_vars

-----------------------------------------------------------------------------
(* Correctness *)

\* What the stream s has started and gRPC has not finished
Outstanding(s, types) ==
    {i \in DOMAIN completions : completions[i].stream = s /\ completions[i].type \in types
                                /\ ~OffQueue(i)}

TypeOK ==
    /\ streams \in [Stream -> GrpcStream \cup {Nothing}]
    /\ Range(activeCalls) \subseteq Stream
    /\ DOMAIN completions \subseteq Id /\ Range(completions) \subseteq Completion
    /\ Range(grpcQueue) \cup Range(tasks) \cup ({polled} \ {Nothing})
          \subseteq [id: DOMAIN completions, ok: BOOLEAN]
    /\ worker.at \in {"idle", "lastWrite", "failing", "cancelling", "finishing"}

\* The types hold, no HARD_ASSERT fails, and gRPC is used as it asks to be: a call
\* has at most one read and one write under way, what is written goes out in order,
\* once, and its finish is started once, when all others are done.  After it no
\* read is started.  A write may be, beside the finish: after a failed
\* operation the stream stays open until the status is there (Stream::Write,
\* MaybeWrite), see FinishIsLast.  But gRPC has ended such a call, and fails the write.
CallsAreLegal ==
    /\ TypeOK /\ ok
    /\ IsInjective(activeCalls)
    /\ \A s \in Stream : streams[s] # Nothing =>
          /\ Cardinality(Outstanding(s, {"Read"})) <= 1
          /\ Cardinality(Outstanding(s, {"Write"})) <= 1
          /\ Outstanding(s, {"Finish"}) # {} =>
                /\ streams[s].finished /\ Outstanding(s, {"Read"}) = {}
                /\ Outstanding(s, {"Write"}) # {} => streams[s].call = "ended"
          /\ streams[s].given \o streams[s].buffer = [i \in 1 .. streams[s].written |-> i]
          /\ ~streams[s].finished => s \in Range(activeCalls)

\* The comment at grpc_stream.cc:234-235: the buffered writer "should never be called
\* again after a call to Finish"; gRPC asks for the same, that nothing is under
\* way beside the finish of a call (async_stream.h:50-52).  A write can be, see
\* CallsAreLegal.
FinishIsLast ==
    \A s \in Stream : Outstanding(s, {"Finish"}) # {} =>
                          Outstanding(s, {"Read", "Write"}) = {}

\* A destroyed stream leaves nothing behind that still needs it: no operation that
\* gRPC has not handed back, and no callback that would run on it; and what
\* is told to the observer is the status the call ended with, not that of a
\* cancellation.
NothingOutlivesTheStream ==
    \A i \in DOMAIN completions :
        LET c == completions[i]
        IN /\ c.stream = Nothing => OffQueue(i) /\ c.callback = "Cancelled"
           /\ c.callback = "FinishAndNotify" => streams[c.stream].call = "ended"

\* Both threads run what they have to run, gRPC finishes the operations of a call
\* that is over, and the wait for the last write ends.
Fairness ==
    /\ WF_vars(RunTask \/ Proceed \/ LastWriteEnds)
    /\ WF_vars(Poll \/ Enqueue)
    /\ WF_vars(\E i \in DOMAIN completions : OperationFails(i) \/ FinishSucceeds(i))

FairSpec == Spec /\ Fairness

\* The worker queue never blocks for good, and an ended call is noticed: its stream
\* is told and destroyed.
WorkerGoesOn ==
    /\ []<>(worker = Idle)
    /\ \A s \in Stream : []<>(streams[s] = Nothing \/ streams[s].call = "open")
================================================================================
