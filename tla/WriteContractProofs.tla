---------------------------- MODULE WriteContractProofs ---------------------------
(***************************************************************************)
(* Proofs that the write pipeline keeps its promises, for any users, any   *)
(* number of writes and any bounds: it implements WriteContract, and its   *)
(* completion handlers and waits are answered for the writes they are for. *)
(***************************************************************************)
EXTENDS WritePipelineProofs

--------------------------------------------------------------------------------
(* The inductive invariant, on top of that of the pipeline.                *)

\* The answers on their way to the client.
Answers(s) ==
    IF s.conn = NoConn THEN {} ELSE {s.conn.responses[i] : i \in DOMAIN s.conn.responses}

\* Only a write that was issued is answered or settled.
Known == UNION {applied, refused, acked, rejected} \subseteq DOMAIN issued

\* An answer on its way is about a write that the backend has applied.
Answered == \A a \in Answers(remote) : a # Handshake => a.w \in applied

\* The writes of a queue are different ones, and none is settled.
Unsettled(q, done) ==
    \A i \in DOMAIN q :
        q[i].w \notin done /\ \A j \in DOMAIN q : q[i].w = q[j].w => i = j

\* A completion handler is there as long as the batch of its write is.
HasBatch(q, id, w) == \E i \in DOMAIN q : q[i].id = id /\ q[i].w = w

\* What waits for w among the writes up to the given id has reason to.
StillDue(q, id, w) == \E i \in DOMAIN q : q[i].w = w /\ q[i].id <= id

Handlers == \A k \in callbacks : HasBatch(queue[k.user], k.id, k.w)

Waiters ==
    \A x \in waits : \A w \in x.on : w \in acked \cup rejected \/ StillDue(queue[user], x.id, w)

Ledger ==
    /\ Known /\ Answered /\ Handlers /\ Waiters
    /\ \A u \in User : Unsettled(queue[u], acked \cup rejected)

--------------------------------------------------------------------------------
(* The answers on their way.                                               *)

\* FillWritePipeline takes no answer off the call, and adds none.
LEMMA FillAnswers ==
    ASSUME NEW s \in Remote, Sound(s), NEW q \in Seq(Batch), Ascending(q),
           NEW n \in 0..Len(q), s.pipeline = SubSeq(q, 1, n), n <= MaxPendingWrites,
           counter \in Nat, NEW t, t = FillWritePipeline(s, q)
    PROVE  Answers(t) = Answers(s)
  <1> DEFINE more == Taken(s, q)
             a == [s EXCEPT !.pipeline = s.pipeline \o more]
             b == IF a.pipeline = <<>> /\ s.enabled THEN MarkIdle(a)
                  ELSE IF Usable(a) THEN Send(a, more) ELSE a
  <1>1. t = StartIfNeeded(b)
    BY DEF FillWritePipeline
  <1>2. ~s.enabled => n = 0
    <2>1. s.pipeline = <<>> => n = 0
      <3>1. CASE n # 0
        <4>1. Len(SubSeq(q, 1, n)) = n
          <5>1. 1 \in 1 .. Len(q) + 1 /\ n \in 1 - 1 .. Len(q)
            BY <3>1, LenProperties
          <5> QED  BY <5>1, SubSeqLen
        <4>2. s.pipeline # <<>>
          BY <3>1, <4>1
        <4> QED  BY <4>2
      <3> QED  BY <3>1
    <2> QED  BY <2>1 DEF Sound
  <1>3. more \in Seq(Batch) /\ s.pipeline \o more = SubSeq(q, 1, FullLength(s, q))
    BY <1>2, TakenNext
  <1>4. more \in Seq(Request) /\ s.pipeline \in Seq(Batch) /\ s.pipeline \o more \in Seq(Batch)
    BY <1>3, SeqMonotonic, ConcatProperties DEF Request, Remote
  <1> HIDE DEF more
  <1>5. a \in Remote /\ a.conn = s.conn /\ a.state = s.state
    BY <1>4 DEF Remote
  <1> HIDE DEF a
  <1>6. Usable(a) => a.conn # NoConn
    BY <1>5 DEF Usable, Sound
  <1>7. b \in Remote /\ Answers(b) = Answers(a)
    <2>1. CASE a.pipeline = <<>> /\ s.enabled
      <3>1. b = [a EXCEPT !.idle = a.idle \/ a.state = "Open"]
        BY <2>1 DEF MarkIdle
      <3>2. b \in Remote /\ b.conn = a.conn
        BY <1>5, <3>1 DEF Remote
      <3> QED  BY <3>2 DEF Answers
    <2>2. CASE ~(a.pipeline = <<>> /\ s.enabled) /\ Usable(a)
      <3>1. b = Send(a, more)
        BY <2>2
      <3> HIDE DEF b
      <3>2. b \in Remote /\ b.conn # NoConn /\ a.conn # NoConn
            /\ b.conn.responses = a.conn.responses
        BY <1>4, <1>5, <1>6, <2>2, <3>1, SendIs
      <3> QED  BY <3>2 DEF Answers
    <2>3. CASE ~(a.pipeline = <<>> /\ s.enabled) /\ ~Usable(a)
      <3>1. b = a
        BY <2>3
      <3> QED  BY <1>5, <3>1
    <2> QED  BY <2>1, <2>2, <2>3
  <1> HIDE DEF b
  <1>8. t.conn = b.conn
    BY <1>1, <1>7, StartIfNeededIs
  <1> QED  BY <1>5, <1>7, <1>8 DEF Answers

\* Reading an answer takes it off the call.
LEMMA ReadAnswers ==
    ASSUME Inv, HasAnswer
    PROVE  Answers(AfterRead) \subseteq Answers(remote)
  <1> DEFINE x == remote.conn.responses
  <1>1. /\ AfterRead.conn # NoConn /\ AfterRead.conn.responses = Tail(x)
        /\ x # <<>> /\ x \in Seq(Request) /\ remote.conn # NoConn
    BY AfterReadIs, Facts DEF HasAnswer
  <1> HIDE DEF x
  <1>2. /\ Len(x) \in Nat \ {0} /\ DOMAIN x = 1..Len(x) /\ DOMAIN Tail(x) = 1 .. Len(x) - 1
        /\ \A i \in 1 .. Len(x) - 1 : Tail(x)[i] = x[i + 1]
    BY <1>1, TailIs
  <1>3. \A i \in DOMAIN Tail(x) : \E j \in DOMAIN x : Tail(x)[i] = x[j]
    <2> SUFFICES ASSUME NEW i \in DOMAIN Tail(x) PROVE \E j \in DOMAIN x : Tail(x)[i] = x[j]
      OBVIOUS
    <2>1. i + 1 \in DOMAIN x /\ Tail(x)[i] = x[i + 1]
      BY <1>2
    <2> QED  BY <2>1
  <1> QED  BY <1>1, <1>3 DEF Answers, x

--------------------------------------------------------------------------------
(* What each step changes.                                                 *)

\* A step that issues, answers and settles nothing.
Quiet ==
    /\ UNCHANGED <<queue, issued, applied, refused, acked, rejected>>
    /\ Answers(remote') \subseteq Answers(remote)

\* Who is told when a write is settled stays who it was.
SameWaiters == callbacks' = callbacks /\ waits' = waits /\ user' = user

\* A stream that is started again once it was closed has no call.
LEMMA AgainAnswers ==
    ASSUME Inv, Started(remote), NEW token \in {remote.token, NoToken}, NEW t,
           t = Notified([Closed(remote, "Error") EXCEPT !.token = token])
    PROVE  Answers(t) = {}
  <1> DEFINE a == Closed(remote, "Error")
             b == [a EXCEPT !.token = token]
  <1>1. /\ a \in Remote /\ a.conn = NoConn /\ counter \in Nat
        /\ token \in User \cup {NoToken}
    BY Facts, ClosedIs DEF Remote
  <1>2. t = Notified(b)
    OBVIOUS
  <1> HIDE DEF a
  <1>3. b \in Remote /\ b.conn = NoConn
    BY <1>1 DEF Remote
  <1> HIDE DEF b
  <1>4. StartIfNeeded(b) \in Remote /\ StartIfNeeded(b).conn = NoConn
    BY <1>1, <1>3, StartIfNeededIs
  <1>5. t.conn = NoConn
    BY <1>2, <1>4 DEF Notified, Remote
  <1> QED  BY <1>5 DEF Answers

\* No step of the stream and of the network touches what is settled.
LEMMA StreamQuiet ==
    ASSUME Inv, BackoffElapses \/ IdleTimeout \/ HandshakeComplete \/ TurnNetworkOn
                \/ TurnNetworkOff \/ Break
    PROVE  Quiet /\ SameWaiters
  <1>1. UNCHANGED <<queue, engine, issued, applied, refused, acked, rejected>>
    BY DEF BackoffElapses, IdleTimeout, HandshakeComplete, TurnNetworkOn, TurnNetworkOff,
           Break, persistent, backend, settled
  <1>2. CASE BackoffElapses
    <2> DEFINE s == [remote EXCEPT !.state = "Initial"]
    <2>1. s \in Remote /\ s.conn = remote.conn /\ ~Started(s) /\ counter \in Nat
      BY Facts DEF Remote, Started
    <2>2. remote' = Start(s)
      BY <1>2 DEF BackoffElapses
    <2> HIDE DEF s
    <2>3. remote'.conn = remote.conn
      BY <2>1, <2>2, StartIs
    <2> QED  BY <1>1, <2>3 DEF Quiet, SameWaiters, Answers, engine
  <1>3. CASE IdleTimeout
    <2>1. /\ remote.ok /\ ((remote.state = "Open") <=> (remote.conn # NoConn))
          /\ (remote.handshake => remote.state = "Open") /\ (remote.idle => remote.state = "Open")
          /\ remote.pipeline = <<>> /\ remote' = Stop(remote)
      BY <1>3, Facts DEF IdleTimeout, Sound
    <2>2. remote'.conn = NoConn
      BY <2>1, Facts, StopIs
    <2> QED  BY <1>1, <2>2 DEF Quiet, SameWaiters, Answers, engine
  <1>4. CASE HandshakeComplete
    <2> DEFINE a == AfterRead
               b == [a EXCEPT !.handshake = TRUE]
               p == remote.pipeline
    <2>1. HasAnswer /\ remote' = Send(b, p)
      BY <1>4 DEF HandshakeComplete
    <2>a. a \in Remote /\ a.conn # NoConn
      BY <2>1, AfterReadIs
    <2> HIDE DEF a
    <2>2. b \in Remote /\ b.conn = a.conn /\ b.conn # NoConn
      BY <2>a DEF Remote
    <2>3. p \in Seq(Request)
      BY Facts, SeqMonotonic DEF Remote, Request
    <2> HIDE DEF b, p
    <2>4. remote'.conn # NoConn /\ remote'.conn.responses = a.conn.responses
      BY <2>1, <2>2, <2>3, SendIs
    <2>5. Answers(remote') = Answers(a)
      BY <2>2, <2>4 DEF Answers
    <2> QED  BY <1>1, <2>1, <2>5, ReadAnswers DEF a, Quiet, SameWaiters, engine
  <1>5. CASE TurnNetworkOn
    <2> DEFINE q == queue[user]
               token == saved[user]
    <2>1. /\ remote \in Remote /\ Sound(remote) /\ remote.pipeline = <<>> /\ remote.conn = NoConn
      BY <1>5, Facts DEF TurnNetworkOn, Sound, Started
    <2>2. /\ q \in Seq(Batch) /\ Ascending(q) /\ OfUser(q, user, issued)
          /\ token \in {user, NoToken} /\ user \in User /\ counter \in Nat
      BY Facts
    <2>3. remote' = FillWritePipeline([remote EXCEPT !.enabled = TRUE, !.token = token], q)
      BY <1>5 DEF TurnNetworkOn, EnableNetwork
    <2> HIDE DEF q, token
    <2>4. remote'.conn = NoConn
      BY <2>1, <2>2, <2>3, EnableIs
    <2> QED  BY <1>1, <2>4 DEF Quiet, SameWaiters, Answers, engine
  <1>6. CASE TurnNetworkOff
    <2>1. remote' = DisableNetworkInternal(remote)
      BY <1>6 DEF TurnNetworkOff
    <2>2. remote'.conn = NoConn
      BY <2>1, Facts, DisableIs
    <2> QED  BY <1>1, <2>2 DEF Quiet, SameWaiters, Answers, engine
  <1>7. CASE Break
    <2> DEFINE c == [remote.conn EXCEPT !.responses = <<>>, !.status = "transient"]
    <2>1. remote.conn \in Conn /\ remote' = [remote EXCEPT !.conn = c]
      BY <1>7, Facts DEF Break, Serving
    <2>2. c.responses = <<>>
      BY <2>1 DEF Conn
    <2>3. remote'.conn = c
      BY <2>1, Facts DEF Remote
    <2>4. Answers(remote') = {}
      BY <2>2, <2>3 DEF Answers
    <2> QED  BY <1>1, <2>4 DEF Quiet, SameWaiters, engine
  <1> QED  BY <1>2, <1>3, <1>4, <1>5, <1>6, <1>7

\* Nor does Firebase Auth, or the start of a stream with the token it gave.
LEMMA AuthQuiet ==
    ASSUME Inv, (\E u \in User : AuthStateChanges(u)) \/ (\E a \in remote.asks : AuthAnswers(a))
                \/ MainQueueRuns
    PROVE  Quiet /\ SameWaiters
  <1>1. UNCHANGED <<queue, engine, issued, applied, refused, acked, rejected>>
    BY DEF AuthStateChanges, AuthAnswers, MainQueueRuns, persistent, backend, settled
  <1>2. remote'.conn = remote.conn
    <2>1. CASE \E a \in remote.asks : AuthAnswers(a)
      <3>1. PICK a \in remote.asks : AuthAnswers(a)
        BY <2>1
      <3>2. remote' = [remote EXCEPT !.asks = remote.asks \ {a}]
        BY <3>1 DEF AuthAnswers
      <3> QED  BY <3>2, Facts DEF Remote
    <2>2. CASE (\E u \in User : AuthStateChanges(u)) \/ MainQueueRuns
      BY <2>2 DEF AuthStateChanges, MainQueueRuns
    <2> QED  BY <2>1, <2>2
  <1> QED  BY <1>1, <1>2 DEF Quiet, SameWaiters, Answers, engine

\* A stream that does not drop a write settles none.
LEMMA KeptQuiet ==
    ASSUME Inv, Started(remote), NEW resets \in BOOLEAN,
           remote' = Notified(IF resets THEN [Closed(remote, "Error") EXCEPT !.token = NoToken]
                              ELSE Closed(remote, "Error")),
           UNCHANGED <<queue, engine, issued, applied, refused, acked, rejected>>
    PROVE  Quiet /\ SameWaiters
  <1>1. PICK token \in {remote.token, NoToken} :
           remote' = Notified([Closed(remote, "Error") EXCEPT !.token = token])
    BY KeptIs
  <1>2. Answers(remote') = {}
    BY <1>1, AgainAnswers
  <1> QED  BY <1>2 DEF Quiet, SameWaiters, engine

\* The start of a stream, with or without a token.
LEMMA ResumeQuiet ==
    ASSUME Inv, ResumeStart
    PROVE  Quiet /\ SameWaiters
  <1> DEFINE r == Head(tasks)
  <1>1. /\ tasks # <<>> /\ r.kind = "Resume"
        /\ issued' = issued /\ applied' = applied /\ refused' = refused /\ acked' = acked
    BY DEF ResumeStart, backend
  <1>2. CASE ~Current(r)
    <2>1. UNCHANGED <<persistent, engine, remote, rejected>>
      BY <1>2 DEF ResumeStart
    <2> QED  BY <1>1, <2>1 DEF Quiet, SameWaiters, engine, persistent
  <1>3. CASE Current(r) /\ r.result \in User
    <2> DEFINE a == HardAssert(remote, remote.state = "Starting" /\ ~remote.handshake)
               c == [user |-> r.result, requests |-> <<Handshake>>, responses |-> <<>>,
                     status |-> "open"]
    <2>1. UNCHANGED <<persistent, engine, rejected>> /\ remote' = [a EXCEPT !.state = "Open",
                                                                            !.conn = c]
      <3>1. r.result # "transient" /\ r.result # "aborted"
        BY <1>3, PipelineAssumption
      <3> QED  BY <1>3, <3>1 DEF ResumeStart
    <2>2. remote.state = "Starting" /\ ~remote.handshake
      BY <1>1, <1>3, ResumeIs
    <2>3. a = remote
      BY <2>2, Facts, AssertHolds
    <2>4. remote'.conn = c
      <3> HIDE DEF a, c
      <3> QED  BY <2>1, <2>3, Facts DEF Remote
    <2>5. Answers(remote') = {}
      <3>1. c.responses = <<>> /\ DOMAIN <<>> = {}
        OBVIOUS
      <3> HIDE DEF c
      <3> QED  BY <2>4, <3>1 DEF Answers
    <2> QED  BY <1>1, <2>1, <2>5 DEF Quiet, SameWaiters, engine, persistent
  <1>4. CASE Current(r) /\ r.result \notin User
    <2> DEFINE t == Closed(remote, "Error")
               drops == t.pipeline # <<>> /\ t.handshake /\ IsPermanentWriteError(r.result)
               resets == t.pipeline # <<>> /\ ~t.handshake /\ IsPermanentError(r.result)
    <2>1. CloseWithError(r.result)
      BY <1>4 DEF ResumeStart
    <2>2. Started(remote) /\ ~remote.handshake
      BY <1>1, <1>4, ResumeIs DEF Started
    <2>3. ~drops
      BY <2>2, Facts, ClosedIs
    <2>4. /\ remote' = Notified(IF resets THEN [t EXCEPT !.token = NoToken] ELSE t)
          /\ UNCHANGED <<queue, engine, rejected>>
      BY <2>1, <2>3 DEF CloseWithError
    <2>5. resets \in BOOLEAN
      OBVIOUS
    <2> HIDE DEF resets
    <2> QED  BY <1>1, <2>2, <2>4, <2>5, KeptQuiet
  <1> QED  BY <1>2, <1>3, <1>4

\* A change of user settles nothing; who waits for the writes there were is told so.
LEMMA ChangeQuiet ==
    ASSUME Inv, HandleCredentialChange
    PROVE  /\ Quiet /\ callbacks' = callbacks
           /\ (waits' = waits /\ user' = user) \/ (waits' = {} /\ user' # user)
  <1>0. PICK u : u = Head(tasks).user
    OBVIOUS
  <1>1. /\ tasks # <<>> /\ Head(tasks).kind = "CredentialChange" /\ user' = u
        /\ waits' = IF u = user THEN waits ELSE {}
        /\ remote' = IF remote.enabled THEN EnableNetwork(DisableNetworkInternal(remote), u)
                     ELSE remote
        /\ UNCHANGED <<queue, saved, callbacks, issued, applied, refused, acked, rejected>>
    BY <1>0 DEF HandleCredentialChange, persistent, backend, settled
  <1>2. u \in User
    <2>1. tasks \in Seq(Task) /\ TypeOK
      BY DEF Inv, TypeOK
    <2>2. Head(tasks) = tasks[1] /\ 1 \in DOMAIN tasks
      BY <1>1, <2>1, TailIs
    <2> QED  BY <1>0, <1>1, <2>1, <2>2, TokensTyped
  <1> DEFINE q == queue[u]
             token == saved[u]
             s == DisableNetworkInternal(remote)
  <1>3. q \in Seq(Batch) /\ Ascending(q) /\ OfUser(q, u, issued) /\ token \in {u, NoToken}
    BY <1>2, Facts DEF Inv, Queues, QueuesInOrder, OwnTokens
  <1>4. Answers(remote') \subseteq Answers(remote)
    <2>1. CASE remote.enabled
      <3>1. /\ s \in Remote /\ Sound(s) /\ s.conn = NoConn /\ s.pipeline = <<>>
            /\ counter \in Nat
        BY Facts, DisableIs
      <3>2. remote' = FillWritePipeline([s EXCEPT !.enabled = TRUE, !.token = token], q)
        BY <1>1, <2>1 DEF EnableNetwork
      <3> HIDE DEF s, q, token
      <3>3. remote'.conn = NoConn
        BY <1>2, <1>3, <3>1, <3>2, EnableIs
      <3> QED  BY <3>3 DEF Answers
    <2>2. CASE ~remote.enabled
      BY <1>1, <2>2
    <2> QED  BY <2>1, <2>2
  <1> QED  BY <1>1, <1>4 DEF Quiet

\* A crash and a restart settle nothing, and forget whom to tell.
LEMMA RelaunchQuiet ==
    ASSUME Inv, Relaunch
    PROVE  Quiet /\ callbacks' = {} /\ waits' = {}
  <1>0. PICK u : u = authUser
    OBVIOUS
  <1> DEFINE q == queue[u]
             token == saved[u]
             s == EnableNetwork(Unstarted, u)
             A == {[a EXCEPT !.counter = 0] : a \in s.asks}
  <1>1. /\ remote' = [s EXCEPT !.asks = A] /\ callbacks' = {} /\ waits' = {}
        /\ UNCHANGED <<queue, saved, issued, applied, refused, acked, rejected>>
    BY <1>0 DEF Relaunch, persistent, backend, settled
  <1>2. u \in User
    BY <1>0 DEF Inv, TypeOK
  <1>3. q \in Seq(Batch) /\ Ascending(q) /\ OfUser(q, u, issued) /\ token \in {u, NoToken}
    BY <1>2, Facts DEF Inv, Queues, QueuesInOrder, OwnTokens
  <1>4. s = FillWritePipeline([Unstarted EXCEPT !.enabled = TRUE, !.token = token], q)
    BY DEF EnableNetwork
  <1> HIDE DEF q, token, s, A
  <1>5. s \in Remote /\ s.conn = NoConn
    <2>1. counter \in Nat
      BY Facts
    <2> QED  BY <1>2, <1>3, <1>4, <2>1, EnableUnstarted
  <1>6. remote'.conn = NoConn
    BY <1>1, <1>5 DEF Remote
  <1> QED  BY <1>1, <1>6 DEF Quiet, Answers

\* The answers there are, and the request that is to be answered next, are about the
\* oldest batches of the current user's queue.
LEMMA AnswersAreFirst ==
    ASSUME Inv, remote.conn # NoConn, remote.handshake
    PROVE  /\ \A i \in DOMAIN remote.conn.responses :
                 /\ i \in DOMAIN queue[user] /\ remote.conn.responses[i] = queue[user][i]
           /\ Pending => /\ Len(remote.conn.responses) + 1 \in DOMAIN queue[user]
                         /\ Asked = queue[user][Len(remote.conn.responses) + 1]
           /\ remote.conn.status = "permanent" =>
                 queue[user][Len(remote.conn.responses) + 1].w \in refused
  <1> DEFINE x == remote.conn.responses
             y == remote.conn.requests
             p == remote.pipeline
             q == queue[user]
             k == FullLength(remote, q)
  <1>1. /\ x \in Seq(Request) /\ y \in Seq(Request) /\ q \in Seq(Batch) /\ p \in Seq(Batch)
        /\ remote \in Remote /\ Full(remote, q) /\ remote.conn.status \in Status
    BY Facts DEF Remote
  <1>2. /\ Len(q) \in Nat /\ k \in 0..Len(q) /\ Len(p) = k /\ DOMAIN p = 1..k
        /\ \A i \in 1..k : p[i] = q[i] /\ i \in DOMAIN q
    <2> HIDE DEF q
    <2> QED  BY <1>1, FullIs
  <1>3. Len(x) \in Nat /\ DOMAIN x = 1..Len(x) /\ Len(y) \in Nat
    BY <1>1, LenProperties
  <1>4. /\ remote.conn.status = "open" => x \o y = p
        /\ remote.conn.status = "permanent" =>
              /\ Len(p) = Len(x) + Len(y) + 1 /\ x = SubSeq(p, 1, Len(x))
              /\ p[Len(x) + 1].w \in refused
        /\ remote.conn.status = "transient" => x = <<>>
    BY Facts DEF CallMatches
  <1>5. Pending => remote.conn.status = "open" /\ y # <<>> /\ Asked = Head(y)
    BY DEF Pending, Serving, Asked
  <1> HIDE DEF x, y, p, q, k
  <1>6. /\ Len(x \o y) = Len(x) + Len(y)
        /\ \A i \in 1..Len(x) : (x \o y)[i] = x[i]
        /\ \A i \in 1..Len(y) : (x \o y)[Len(x) + i] = y[i]
    <2>1. Len(x \o y) = Len(x) + Len(y)
      BY <1>1, ConcatProperties
    <2>2. \A i \in 1 .. Len(x) + Len(y) : (x \o y)[i] = IF i <= Len(x) THEN x[i] ELSE y[i - Len(x)]
      BY <1>1, ConcatProperties
    <2>3. \A i \in 1..Len(y) : (x \o y)[Len(x) + i] = y[i]
      <3> SUFFICES ASSUME NEW i \in 1..Len(y) PROVE (x \o y)[Len(x) + i] = y[i]
        OBVIOUS
      <3>1. /\ Len(x) + i \in 1 .. Len(x) + Len(y) /\ ~(Len(x) + i <= Len(x))
            /\ Len(x) + i - Len(x) = i
        BY <1>3
      <3>2. (x \o y)[Len(x) + i] = y[Len(x) + i - Len(x)]
        BY <2>2, <3>1
      <3> QED  BY <3>1, <3>2
    <2> QED  BY <1>3, <2>1, <2>2, <2>3
  <1>7. CASE remote.conn.status = "open"
    <2>1. /\ x \o y = p /\ k = Len(x) + Len(y)
      BY <1>2, <1>4, <1>6, <1>7
    <2>2. \A i \in DOMAIN x : i \in DOMAIN q /\ x[i] = q[i]
      BY <1>2, <1>3, <1>6, <2>1
    <2>3. y # <<>> => Len(x) + 1 \in DOMAIN q /\ Head(y) = q[Len(x) + 1]
      <3> SUFFICES ASSUME y # <<>> PROVE Len(x) + 1 \in DOMAIN q /\ Head(y) = q[Len(x) + 1]
        OBVIOUS
      <3>1. Len(y) \in Nat \ {0} /\ Head(y) = y[1]
        BY <1>1, TailIs
      <3>2. Len(x) + 1 \in 1..k /\ p[Len(x) + 1] = y[1]
        BY <1>3, <1>6, <2>1, <3>1
      <3> QED  BY <1>2, <3>1, <3>2
    <2> QED  BY <1>5, <1>7, <2>2, <2>3 DEF x, y, q
  <1>8. CASE remote.conn.status = "permanent"
    <2>1. /\ Len(x) + 1 \in 1..k /\ x = SubSeq(p, 1, Len(x)) /\ p[Len(x) + 1].w \in refused
      BY <1>2, <1>3, <1>4, <1>8
    <2>2. \A i \in 1..Len(x) : x[i] = p[i]
      <3>1. 1 \in 1 .. Len(p) + 1 /\ Len(x) \in 1 - 1 .. Len(p)
        BY <1>2, <1>3, <2>1
      <3>2. \A i \in 1 .. Len(x) - 1 + 1 : SubSeq(p, 1, Len(x))[i] = p[1 + i - 1]
        BY <1>1, <3>1, SubSeqItems
      <3>3. \A i \in 1..Len(x) : SubSeq(p, 1, Len(x))[i] = p[i]
        BY <1>3, <3>2
      <3> QED  BY <2>1, <3>3, Zenon
    <2>3. \A i \in DOMAIN x : i \in DOMAIN q /\ x[i] = q[i]
      BY <1>2, <1>3, <2>1, <2>2
    <2>4. q[Len(x) + 1].w \in refused
      BY <1>2, <2>1
    <2> QED  BY <1>5, <1>8, <2>3, <2>4 DEF x, q
  <1>9. CASE remote.conn.status = "transient"
    <2>1. DOMAIN x = {}
      BY <1>4, <1>9
    <2> QED  BY <1>5, <1>9, <2>1 DEF x
  <1> QED  BY <1>1, <1>7, <1>8, <1>9 DEF Status

\* A call whose handshake is not done is asked and answered for nothing else.
LEMMA OnlyHandshake ==
    ASSUME Inv, Pending, ~remote.handshake
    PROVE  Asked = Handshake
  <1> DEFINE x == remote.conn.responses
             y == remote.conn.requests
  <1>1. x \in Seq(Request) /\ y \in Seq(Request) /\ y # <<>> /\ x \o y = <<Handshake>>
        /\ Asked = Head(y)
    BY Facts DEF Pending, Serving, Asked, CallMatches
  <1> HIDE DEF x, y
  <1>2. /\ Len(y) \in Nat \ {0} /\ Head(y) = y[1] /\ Len(x) \in Nat
    BY <1>1, TailIs, LenProperties
  <1>3. Len(x) + Len(y) = 1
    <2>1. Len(x \o y) = Len(x) + Len(y)
      BY <1>1, ConcatProperties
    <2>2. Len(<<Handshake>>) = 1
      OBVIOUS
    <2> QED  BY <1>1, <2>1, <2>2
  <1>4. Len(x) = 0 /\ Len(y) = 1
    <2>1. \A i \in Nat, j \in Nat \ {0} : i + j = 1 => i = 0 /\ j = 1
      OBVIOUS
    <2> QED  BY <1>2, <1>3, <2>1, Zenon
  <1>5. (x \o y)[1] = y[1]
    <2>1. \A i \in 1 .. Len(x) + Len(y) : (x \o y)[i] = IF i <= Len(x) THEN x[i] ELSE y[i - Len(x)]
      BY <1>1, ConcatProperties
    <2>2. (x \o y)[1] = IF 1 <= 0 THEN x[1] ELSE y[1 - 0]
      BY <1>4, <2>1
    <2> QED  BY <2>2
  <1>6. (x \o y)[1] = Handshake
    BY <1>1
  <1> QED  BY <1>1, <1>2, <1>5, <1>6

\* What settling the pipeline's first batch changes.
LEMMA SettleIs ==
    ASSUME Inv, remote.pipeline # <<>>, NEW b, b = Head(remote.pipeline),
           NEW s \in Remote, Sound(s), s.pipeline = Tail(remote.pipeline), Settle(b, s)
    PROVE  /\ queue[user] # <<>> /\ b = queue[user][1] /\ b \in Batch
           /\ queue' = [queue EXCEPT ![user] = Tail(queue[user])]
           /\ callbacks' = {k \in callbacks : k.user # user \/ k.id # b.id}
           /\ waits' = {x \in waits : x.id # b.id} /\ user' = user
           /\ Answers(remote') = Answers(s)
  <1> DEFINE q == queue[user]
  <1>1. /\ q \in Seq(Batch) /\ q # <<>> /\ Ascending(q) /\ b = q[1] /\ b \in Batch
        /\ user \in User /\ queue \in [User -> Seq(Batch)] /\ counter \in Nat
        /\ \E n \in 1..Len(q) : remote.pipeline = SubSeq(q, 1, n) /\ n <= MaxPendingWrites
    BY Facts, FirstIs
  <1>2. PICK n \in 1..Len(q) : remote.pipeline = SubSeq(q, 1, n) /\ n <= MaxPendingWrites
    BY <1>1
  <1>3. /\ Without(b) = Tail(q) /\ b.id \in Ids(q) /\ Tail(q) \in Seq(Batch)
        /\ Ascending(Tail(q))
    BY <1>1, WithoutFirst
  <1>4. /\ queue' = [queue EXCEPT ![user] = Tail(q)]
        /\ callbacks' = {k \in callbacks : k.user # user \/ k.id # b.id}
        /\ waits' = {x \in waits : x.id # b.id}
        /\ remote' = FillWritePipeline(s, Tail(q)) /\ user' = user
    <2>1. HardAssert(s, b.id \in Ids(q)) = s
      BY <1>3, AssertHolds
    <2> QED  BY <1>3, <2>1 DEF Settle
  <1> HIDE DEF q
  <1>5. /\ Len(q) \in Nat \ {0} /\ Len(Tail(q)) = Len(q) - 1
    BY <1>1, TailIs
  <1> DEFINE r == Tail(q)
             m == n - 1
  <1>6. /\ s.pipeline = SubSeq(r, 1, m) /\ m \in 0..Len(r) /\ m <= MaxPendingWrites
    <2>1. Tail(SubSeq(q, 1, n)) = SubSeq(Tail(q), 1, n - 1)
      BY <1>1, TailOfFirst
    <2>2. n \in Nat /\ MaxPendingWrites \in Nat
      BY <1>5, PipelineAssumption
    <2> QED  BY <1>2, <1>5, <2>1, <2>2
  <1>7. r \in Seq(Batch) /\ Ascending(r) /\ remote' = FillWritePipeline(s, r)
    BY <1>3, <1>4
  <1> HIDE DEF r, m
  <1>8. Answers(remote') = Answers(s)
    BY <1>1, <1>6, <1>7, FillAnswers
  <1> QED  BY <1>1, <1>4, <1>8 DEF q

--------------------------------------------------------------------------------
(* The ledger is kept.                                                     *)

\* A step that settles nothing keeps it, if who is told stays, goes, or is no more.
LEMMA QuietKeeps ==
    ASSUME Ledger, Quiet, callbacks' \subseteq callbacks,
           waits' = {} \/ (waits' \subseteq waits /\ user' = user)
    PROVE  Ledger'
  <1>1. Known' /\ Answered'
    BY DEF Ledger, Known, Answered, Quiet
  <1>2. Handlers'
    BY DEF Ledger, Handlers, Quiet
  <1>3. Waiters'
    BY DEF Ledger, Waiters, Quiet
  <1>4. \A u \in User : Unsettled(queue'[u], acked' \cup rejected')
    BY DEF Ledger, Quiet
  <1> QED  BY <1>1, <1>2, <1>3, <1>4 DEF Ledger

\* What WriteMutations adds to the current user's queue.
LEMMA IssueIs ==
    ASSUME Inv, WriteMutations, NEW b, b = [id |-> nextId, w |-> Len(issued) + 1]
    PROVE  /\ b \in Batch /\ b.id = nextId /\ b.w = Len(issued) + 1
           /\ queue' = [queue EXCEPT ![user] = Append(queue[user], b)]
           /\ issued' = Append(issued, user) /\ b.w \notin DOMAIN issued
           /\ DOMAIN issued' = DOMAIN issued \cup {b.w}
           /\ callbacks' = callbacks \cup {[user |-> user, id |-> b.id, w |-> b.w]}
           /\ waits' = waits /\ user' = user
           /\ UNCHANGED <<applied, refused, acked, rejected>>
           /\ Answers(remote') = Answers(remote)
  <1> DEFINE old == queue[user]
             q == Append(old, b)
             is == Append(issued, user)
  <1>1. /\ Len(issued) < MaxWrites /\ issued' = is /\ queue' = [queue EXCEPT ![user] = q]
        /\ callbacks' = callbacks \cup {[user |-> user, id |-> b.id, w |-> b.w]}
        /\ remote' = FillWritePipeline(remote, q)
        /\ UNCHANGED <<user, waits, applied, refused, acked, rejected>>
    BY DEF WriteMutations, settled
  <1>2. /\ Len(issued) \in Nat /\ DOMAIN issued = 1..Len(issued)
        /\ DOMAIN is = 1 .. Len(issued) + 1
    BY Facts, AppendItems
  <1>3. b \in Batch /\ b.id = nextId /\ b.w = Len(issued) + 1
    <2>1. Len(issued) + 1 \in Write
      BY <1>1, <1>2, PipelineAssumption DEF Write
    <2>2. nextId \in Nat \ {0}
      BY Facts
    <2> QED  BY <2>1, <2>2 DEF Batch
  <1>4. b.w \notin DOMAIN issued /\ DOMAIN is = DOMAIN issued \cup {b.w}
    BY <1>2, <1>3
  <1>5. old \in Seq(Batch) /\ Ascending(old) /\ \A i \in DOMAIN old : old[i].id < nextId
    BY Facts DEF Inv, Queues, QueuesInOrder
  <1> HIDE DEF old
  <1>6. /\ Len(old) \in Nat /\ DOMAIN old = 1..Len(old) /\ q \in Seq(Batch)
        /\ Len(q) = Len(old) + 1 /\ DOMAIN q = 1 .. Len(old) + 1
        /\ q[Len(old) + 1] = b /\ \A i \in 1..Len(old) : q[i] = old[i]
    BY <1>3, <1>5, AppendItems
  <1>7. Ascending(q)
    <2>1. \A i, j \in DOMAIN q : i < j => i \in DOMAIN old /\ (j \in DOMAIN old \/ j = Len(old) + 1)
      BY <1>6
    <2> QED  BY <1>3, <1>5, <1>6, <2>1 DEF Ascending
  <1>8. /\ remote \in Remote /\ Sound(remote) /\ Full(remote, old) /\ counter \in Nat
    BY Facts DEF old
  <1>9. PICK n : /\ n \in 0..Len(old) /\ n <= MaxPendingWrites
                 /\ remote.pipeline = SubSeq(old, 1, n)
    BY <1>5, <1>8, FullIs
  <1>10. remote.pipeline = SubSeq(q, 1, n) /\ n \in 0..Len(q)
    BY <1>3, <1>5, <1>6, <1>9, FirstOfAppend
  <1>11. Answers(remote') = Answers(remote)
    <2>1. PICK r : r = q
      OBVIOUS
    <2>2. /\ r \in Seq(Batch) /\ Ascending(r) /\ n \in 0..Len(r)
          /\ remote.pipeline = SubSeq(r, 1, n) /\ remote' = FillWritePipeline(remote, r)
      BY <1>1, <1>6, <1>7, <1>10, <2>1
    <2> QED  BY <1>8, <1>9, <2>2, FillAnswers
  <1> QED  BY <1>1, <1>3, <1>4, <1>11 DEF old

\* A new write keeps it.
LEMMA IssueKeeps ==
    ASSUME Inv, Ledger, WriteMutations
    PROVE  Ledger'
  <1>0. PICK b : b = [id |-> nextId, w |-> Len(issued) + 1]
    OBVIOUS
  <1>1. /\ b \in Batch /\ b.id = nextId /\ b.w = Len(issued) + 1
        /\ queue' = [queue EXCEPT ![user] = Append(queue[user], b)]
        /\ issued' = Append(issued, user) /\ b.w \notin DOMAIN issued
        /\ DOMAIN issued' = DOMAIN issued \cup {b.w}
        /\ callbacks' = callbacks \cup {[user |-> user, id |-> b.id, w |-> b.w]}
        /\ waits' = waits /\ user' = user
        /\ UNCHANGED <<applied, refused, acked, rejected>>
        /\ Answers(remote') = Answers(remote)
    BY <1>0, IssueIs
  <1>2. /\ queue \in [User -> Seq(Batch)] /\ user \in User /\ queue[user] \in Seq(Batch)
        /\ callbacks \subseteq [user: User, id: Nat, w: Write]
    BY Facts DEF Inv, TypeOK
  <1>3. PICK old : old = queue[user]
    OBVIOUS
  <1>4. PICK q : q = Append(old, b)
    OBVIOUS
  <1>5. \A u \in User : queue'[u] = IF u = user THEN q ELSE queue[u]
    BY <1>1, <1>2, <1>3, <1>4
  <1>6. /\ Len(old) \in Nat /\ DOMAIN old = 1..Len(old) /\ DOMAIN q = 1 .. Len(old) + 1
        /\ q[Len(old) + 1] = b /\ \A i \in 1..Len(old) : q[i] = old[i]
    BY <1>1, <1>2, <1>3, <1>4, AppendItems
  <1>7. /\ Unsettled(old, acked \cup rejected)
        /\ \A i \in DOMAIN old : old[i].w \in DOMAIN issued
    BY <1>2, <1>3, Facts DEF Ledger, OfUser
  <1>8. \A u \in User : Unsettled(queue'[u], acked' \cup rejected')
    <2>1. b.w \notin acked \cup rejected
      BY <1>1 DEF Ledger, Known
    <2>2. Unsettled(q, acked \cup rejected)
      <3> SUFFICES ASSUME NEW i \in DOMAIN q
                   PROVE  /\ q[i].w \notin acked \cup rejected
                          /\ \A j \in DOMAIN q : q[i].w = q[j].w => i = j
        BY DEF Unsettled
      <3>1. \A j \in DOMAIN q : j \in DOMAIN old \/ j = Len(old) + 1
        BY <1>6
      <3>2. \A j \in DOMAIN old : q[j] = old[j] /\ q[j].w # b.w
        BY <1>1, <1>6, <1>7
      <3>3. CASE i \in DOMAIN old
        BY <1>6, <1>7, <3>1, <3>2, <3>3 DEF Unsettled
      <3>4. CASE i = Len(old) + 1
        BY <1>6, <2>1, <3>1, <3>2, <3>4
      <3> QED  BY <3>1, <3>3, <3>4
    <2> QED  BY <1>1, <1>5, <2>2 DEF Ledger
  <1>9. Known' /\ Answered'
    BY <1>1 DEF Ledger, Known, Answered
  <1>10. Handlers'
    <2> SUFFICES ASSUME NEW k \in callbacks' PROVE HasBatch(queue'[k.user], k.id, k.w)
      BY DEF Handlers
    <2>1. CASE k \in callbacks
      <3>1. k.user \in User /\ HasBatch(queue[k.user], k.id, k.w)
        BY <1>2, <2>1 DEF Ledger, Handlers
      <3>2. CASE k.user = user
        <4>1. PICK i \in DOMAIN old : old[i].id = k.id /\ old[i].w = k.w
          BY <1>3, <3>1, <3>2 DEF HasBatch
        <4>2. i \in DOMAIN q /\ q[i].id = k.id /\ q[i].w = k.w
          BY <1>6, <4>1
        <4> QED  BY <1>2, <1>5, <3>2, <4>2 DEF HasBatch
      <3>3. CASE k.user # user
        BY <1>5, <3>1, <3>3
      <3> QED  BY <3>2, <3>3
    <2>2. CASE k = [user |-> user, id |-> b.id, w |-> b.w]
      <3>1. k.user = user /\ k.id = b.id /\ k.w = b.w /\ Len(old) + 1 \in DOMAIN q
        BY <1>6, <2>2
      <3> QED  BY <1>2, <1>5, <1>6, <3>1 DEF HasBatch
    <2> QED  BY <1>1, <2>1, <2>2
  <1>11. Waiters'
    <2> SUFFICES ASSUME NEW x \in waits, NEW w \in x.on, w \notin acked \cup rejected
                 PROVE  StillDue(q, x.id, w)
      BY <1>1, <1>2, <1>5 DEF Waiters
    <2>1. PICK i \in DOMAIN old : old[i].w = w /\ old[i].id <= x.id
      BY <1>3 DEF Ledger, Waiters, StillDue
    <2> QED  BY <1>6, <2>1 DEF StillDue
  <1> QED  BY <1>8, <1>9, <1>10, <1>11 DEF Ledger

\* What waits for the pending writes waits for those up to the highest batch id.
LEMMA WaitKeeps ==
    ASSUME Inv, Ledger, WaitForPendingWrites
    PROVE  Ledger' /\ Quiet /\ callbacks' = callbacks /\ waits \subseteq waits'
  <1>1. /\ UNCHANGED <<queue, user, callbacks, remote, issued, applied, refused, acked, rejected>>
        /\ waits' = waits \cup {[id |-> GetHighestUnacknowledgedBatchId,
                                 on |-> {queue[user][i].w : i \in DOMAIN queue[user]}]}
    BY DEF WaitForPendingWrites, persistent, backend, settled
  <1>2. PICK q : q = queue[user]
    OBVIOUS
  <1>3. PICK x : x = [id |-> Largest(Ids(q)), on |-> {q[i].w : i \in DOMAIN q}]
    OBVIOUS
  <1>4. waits' = waits \cup {x}
    BY <1>1, <1>2, <1>3 DEF GetHighestUnacknowledgedBatchId
  <1>5. \A m \in Ids(q) : m <= Largest(Ids(q))
    <2>1. \A i \in DOMAIN q : q[i] \in Batch /\ q[i].id < nextId
      BY <1>2, Facts, LenProperties, ElementOfSeq DEF Inv, Queues, QueuesInOrder
    <2>2. Ids(q) \in SUBSET Nat /\ \A m \in Ids(q) : m <= nextId
      BY <2>1, Facts DEF Ids, Batch
    <2> QED  BY <2>2, Facts, LargestIs
  <1>6. \A w \in x.on : StillDue(q, x.id, w)
    <2> SUFFICES ASSUME NEW w \in x.on PROVE StillDue(q, x.id, w)
      OBVIOUS
    <2>1. PICK i \in DOMAIN q : q[i].w = w
      BY <1>3
    <2>2. q[i].id <= x.id
      BY <1>3, <1>5 DEF Ids
    <2> QED  BY <2>1, <2>2 DEF StillDue
  <1>7. Waiters'
    BY <1>1, <1>2, <1>4, <1>6 DEF Ledger, Waiters
  <1>8. Known' /\ Answered' /\ Handlers'
    BY <1>1 DEF Ledger, Known, Answered, Handlers
  <1>9. \A u \in User : Unsettled(queue'[u], acked' \cup rejected')
    BY <1>1 DEF Ledger
  <1> QED  BY <1>1, <1>4, <1>7, <1>8, <1>9 DEF Ledger, Quiet

\* What the backend answers to is the handshake or one of the current user's writes, and
\* those before it have been answered.
LEMMA AskedIs ==
    ASSUME Inv, Ledger, Pending
    PROVE  \/ Asked = Handshake
           \/ \E i \in DOMAIN queue[user] :
                 /\ Asked = queue[user][i] /\ Asked.w \in DOMAIN issued
                 /\ \A j \in 1 .. i - 1 : queue[user][j].w \in applied \cup refused
  <1>1. remote.conn # NoConn
    BY DEF Pending, Serving
  <1>2. CASE ~remote.handshake
    BY <1>2, OnlyHandshake
  <1>3. CASE remote.handshake
    <2> DEFINE x == remote.conn.responses
               q == queue[user]
    <2>1. /\ \A i \in DOMAIN x : i \in DOMAIN q /\ x[i] = q[i]
          /\ Len(x) + 1 \in DOMAIN q /\ Asked = q[Len(x) + 1]
      BY <1>1, <1>3, AnswersAreFirst
    <2>2. Len(x) \in Nat /\ DOMAIN x = 1..Len(x) /\ q \in Seq(Batch)
      BY <1>1, Facts, LenProperties
    <2>3. \A i \in DOMAIN x : x[i] \in Batch /\ x[i].w \in applied
      <3>1. \A i \in DOMAIN x : x[i] \in Batch /\ x[i] # Handshake
        BY <2>1, <2>2, LenProperties, ElementOfSeq, HandshakeAssumption
      <3>2. \A i \in DOMAIN x : x[i] \in Answers(remote)
        BY <1>1 DEF Answers
      <3> QED  BY <3>1, <3>2 DEF Ledger, Answered
    <2>4. \A j \in 1 .. Len(x) + 1 - 1 : q[j].w \in applied \cup refused
      <3>1. \A j \in 1 .. Len(x) + 1 - 1 : j \in DOMAIN x
        BY <2>2
      <3> QED  BY <2>1, <2>3, <3>1
    <2>5. Asked.w \in DOMAIN issued
      BY <2>1, Facts DEF OfUser
    <2> HIDE DEF x, q
    <2>6. \E i \in DOMAIN q : /\ Asked = q[i] /\ Asked.w \in DOMAIN issued
                              /\ \A j \in 1 .. i - 1 : q[j].w \in applied \cup refused
      BY <2>1, <2>4, <2>5
    <2> QED  BY <2>6 DEF q
  <1> QED  BY <1>2, <1>3

\* An answer of the backend keeps the ledger.
LEMMA ServeKeeps ==
    ASSUME Inv, Ledger, Serve
    PROVE  Ledger' /\ SameWaiters
  <1>1. /\ Pending /\ applied' = applied \cup WritesOf(Asked)
        /\ UNCHANGED <<queue, engine, issued, refused, acked, rejected>>
    BY DEF Serve, persistent, settled
  <1>2. SameWaiters
    BY <1>1 DEF SameWaiters, engine
  <1> DEFINE x == remote.conn.responses
             c == [remote.conn EXCEPT !.requests = Tail(remote.conn.requests),
                                      !.responses = Append(x, Asked)]
  <1>3. /\ remote.conn # NoConn /\ remote.conn \in Conn /\ x \in Seq(Request)
        /\ Asked \in Request /\ remote' = [remote EXCEPT !.conn = c]
    BY <1>1, PendingIs DEF Serve
  <1>4. c.responses = Append(x, Asked)
    BY <1>3 DEF Conn
  <1> HIDE DEF c
  <1>5. remote'.conn = c
    BY <1>3, Facts DEF Remote
  <1>6. Answers(remote') \subseteq Answers(remote) \cup {Asked}
    <2>1. /\ Len(x) \in Nat /\ DOMAIN x = 1..Len(x)
          /\ DOMAIN Append(x, Asked) = 1 .. Len(x) + 1
          /\ Append(x, Asked)[Len(x) + 1] = Asked
          /\ \A i \in 1..Len(x) : Append(x, Asked)[i] = x[i]
      BY <1>3, AppendItems
    <2>2. \A i \in DOMAIN Append(x, Asked) : i \in DOMAIN x \/ i = Len(x) + 1
      BY <2>1
    <2>3. \A i \in DOMAIN Append(x, Asked) :
             Append(x, Asked)[i] = Asked \/ \E j \in DOMAIN x : Append(x, Asked)[i] = x[j]
      BY <2>1, <2>2
    <2>4. Answers(remote) = {x[i] : i \in DOMAIN x}
      BY <1>3 DEF Answers
    <2> HIDE DEF x
    <2>5. PICK y : y = Append(x, Asked)
      OBVIOUS
    <2>6. Answers(remote') \subseteq {y[i] : i \in DOMAIN y}
      BY <1>4, <1>5, <2>5 DEF Answers
    <2>7. \A i \in DOMAIN y : y[i] \in {x[j] : j \in DOMAIN x} \cup {Asked}
      BY <2>3, <2>5
    <2> QED  BY <2>4, <2>6, <2>7
  <1>7. Answered'
    BY <1>1, <1>6 DEF Ledger, Answered, WritesOf
  <1>8. Known'
    <2>1. WritesOf(Asked) \subseteq DOMAIN issued
      BY <1>1, AskedIs DEF WritesOf
    <2> QED  BY <1>1, <2>1 DEF Ledger, Known
  <1>9. Handlers' /\ Waiters'
    BY <1>1, <1>2 DEF Ledger, Handlers, Waiters, SameWaiters
  <1>10. \A u \in User : Unsettled(queue'[u], acked' \cup rejected')
    BY <1>1 DEF Ledger
  <1> QED  BY <1>2, <1>7, <1>8, <1>9, <1>10 DEF Ledger

\* So does a refusal.
LEMMA RefuseKeeps ==
    ASSUME Inv, Ledger, Refuse
    PROVE  Ledger' /\ SameWaiters
  <1>1. /\ Pending /\ refused' = refused \cup WritesOf(Asked)
        /\ UNCHANGED <<queue, engine, issued, applied, acked, rejected>>
    BY DEF Refuse, persistent, settled
  <1>2. SameWaiters
    BY <1>1 DEF SameWaiters, engine
  <1> DEFINE c == [remote.conn EXCEPT !.requests = Tail(remote.conn.requests),
                                      !.status = "permanent"]
  <1>3. /\ remote.conn # NoConn /\ remote.conn \in Conn
        /\ remote' = [remote EXCEPT !.conn = c]
    BY <1>1, PendingIs DEF Refuse
  <1>4. c.responses = remote.conn.responses
    BY <1>3 DEF Conn
  <1> HIDE DEF c
  <1>5. remote'.conn = c
    BY <1>3, Facts DEF Remote
  <1>6. Answers(remote') \subseteq Answers(remote)
    BY <1>3, <1>4, <1>5 DEF Answers
  <1>7. Answered'
    BY <1>1, <1>6 DEF Ledger, Answered
  <1>8. Known'
    <2>1. WritesOf(Asked) \subseteq DOMAIN issued
      BY <1>1, AskedIs DEF WritesOf
    <2> QED  BY <1>1, <2>1 DEF Ledger, Known
  <1>9. Handlers' /\ Waiters'
    BY <1>1, <1>2 DEF Ledger, Handlers, Waiters, SameWaiters
  <1>10. \A u \in User : Unsettled(queue'[u], acked' \cup rejected')
    BY <1>1 DEF Ledger
  <1> QED  BY <1>2, <1>7, <1>8, <1>9, <1>10 DEF Ledger

\* Whoever is told something is told of a write that has just been settled, and who waits
\* is told when all the writes there were are.
Told ==
    /\ \A k \in callbacks \ callbacks' : k.w \in (acked' \cup rejected') \ (acked \cup rejected)
    /\ user' = user => \A x \in waits \ waits' : x.on \subseteq acked' \cup rejected'

\* The current user's oldest batch b is settled, and whoever waits for it is told.
SettlesFirst(b) ==
    /\ queue[user] # <<>> /\ b = queue[user][1]
    /\ queue' = [queue EXCEPT ![user] = Tail(queue[user])]
    /\ callbacks' = {k \in callbacks : k.user # user \/ k.id # b.id}
    /\ waits' = {x \in waits : x.id # b.id} /\ user' = user
    /\ UNCHANGED <<issued, applied, refused>>
    /\ acked \subseteq acked' /\ acked' \subseteq acked \cup {b.w}
    /\ rejected \subseteq rejected' /\ rejected' \subseteq rejected \cup {b.w}
    /\ b.w \in acked' \cup rejected'

\* It keeps the ledger.
LEMMA SettleKeeps ==
    ASSUME Inv, Ledger, NEW b, SettlesFirst(b), Answers(remote') \subseteq Answers(remote)
    PROVE  Ledger' /\ Told
  <1>1. PICK q : q = queue[user]
    OBVIOUS
  <1>2. /\ q \in Seq(Batch) /\ q # <<>> /\ b = q[1] /\ Ascending(q) /\ user \in User
        /\ queue \in [User -> Seq(Batch)] /\ OfUser(q, user, issued)
        /\ callbacks \subseteq [user: User, id: Nat, w: Write]
        /\ waits \subseteq [id: Nat, on: SUBSET Write]
    BY <1>1, Facts DEF SettlesFirst, Inv, TypeOK
  <1>3. PICK r : r = Tail(q)
    OBVIOUS
  <1>4. \A u \in User : queue'[u] = IF u = user THEN r ELSE queue[u]
    BY <1>1, <1>2, <1>3 DEF SettlesFirst
  <1>5. /\ Len(q) \in Nat \ {0} /\ DOMAIN q = 1..Len(q) /\ DOMAIN r = 1 .. Len(q) - 1
        /\ \A i \in 1 .. Len(q) - 1 : r[i] = q[i + 1]
    BY <1>2, <1>3, TailIs
  <1>6. /\ \A i \in DOMAIN r : i + 1 \in DOMAIN q /\ r[i] = q[i + 1] /\ i + 1 # 1
        /\ \A i \in DOMAIN q : i = 1 \/ (i - 1 \in DOMAIN r /\ r[i - 1] = q[i])
        /\ \A i, j \in DOMAIN r : i + 1 = j + 1 => i = j
        /\ 1 \in DOMAIN q
    <2>1. \A i \in 2..Len(q) : i - 1 \in 1 .. Len(q) - 1 /\ r[i - 1] = q[i - 1 + 1] /\ i - 1 + 1 = i
      BY <1>5
    <2>2. \A i \in DOMAIN q : i = 1 \/ i \in 2..Len(q)
      BY <1>5
    <2> QED  BY <1>5, <2>1, <2>2
  <1>a. \A i \in DOMAIN q : q[i].id \in Nat
    <2>1. \A i \in DOMAIN q : q[i] \in Batch
      BY <1>2, <1>5, ElementOfSeq
    <2> QED  BY <2>1 DEF Batch
  <1>7. \A i \in DOMAIN q : i # 1 => q[i].id # b.id /\ b.id < q[i].id
    <2>1. \A i \in DOMAIN q : i # 1 => 1 < i
      BY <1>5
    <2>2. \A i \in DOMAIN q : q[i].id \in Nat
      BY <1>a
    <2>3. \A i \in DOMAIN q : i # 1 => q[1].id < q[i].id
      BY <1>6, <2>1, <1>2 DEF Ascending
    <2> QED  BY <1>2, <1>6, <2>2, <2>3
  <1>8. Unsettled(q, acked \cup rejected)
    BY <1>1, <1>2 DEF Ledger
  <1>9. b.w \notin acked \cup rejected
    BY <1>2, <1>6, <1>8 DEF Unsettled
  <1>10. Known'
    <2>1. b.w \in DOMAIN issued
      BY <1>2, <1>6 DEF OfUser
    <2> QED  BY <2>1 DEF Ledger, Known, SettlesFirst
  <1>11. Answered'
    BY DEF Ledger, Answered, SettlesFirst
  <1>12. \A u \in User : Unsettled(queue'[u], acked' \cup rejected')
    <2> SUFFICES ASSUME NEW u \in User PROVE Unsettled(queue'[u], acked' \cup rejected')
      OBVIOUS
    <2>1. CASE u = user
      <3>1. Unsettled(r, acked' \cup rejected')
        <4> SUFFICES ASSUME NEW i \in DOMAIN r
                     PROVE  /\ r[i].w \notin acked' \cup rejected'
                            /\ \A j \in DOMAIN r : r[i].w = r[j].w => i = j
          BY DEF Unsettled
        <4>1. i + 1 \in DOMAIN q /\ r[i] = q[i + 1] /\ q[i + 1].w # q[1].w
          BY <1>6, <1>8 DEF Unsettled
        <4>2. r[i].w \notin acked' \cup rejected'
          BY <1>2, <1>8, <4>1 DEF Unsettled, SettlesFirst
        <4>3. \A j \in DOMAIN r : r[i].w = r[j].w => i = j
          BY <1>6, <1>8 DEF Unsettled
        <4> QED  BY <4>2, <4>3
      <3> QED  BY <1>4, <2>1, <3>1
    <2>2. CASE u # user
      <3>1. PICK p : p = queue[u]
        OBVIOUS
      <3>2. Unsettled(p, acked \cup rejected) /\ OfUser(p, u, issued)
        BY <3>1 DEF Ledger, Inv, Queues
      <3>3. issued[b.w] = user
        BY <1>2, <1>6 DEF OfUser
      <3>4. \A i \in DOMAIN p : p[i].w # b.w
        BY <2>2, <3>2, <3>3 DEF OfUser
      <3>5. Unsettled(p, acked' \cup rejected')
        BY <3>2, <3>4 DEF Unsettled, SettlesFirst
      <3> QED  BY <1>4, <2>2, <3>1, <3>5
    <2> QED  BY <2>1, <2>2
  <1>13. Handlers'
    <2> SUFFICES ASSUME NEW k \in callbacks' PROVE HasBatch(queue'[k.user], k.id, k.w)
      BY DEF Handlers
    <2>1. /\ k.user \in User /\ HasBatch(queue[k.user], k.id, k.w)
          /\ (k.user # user \/ k.id # b.id)
      BY <1>2 DEF Ledger, Handlers, SettlesFirst
    <2>2. CASE k.user = user
      <3>1. PICK i \in DOMAIN q : q[i].id = k.id /\ q[i].w = k.w
        BY <1>1, <2>1, <2>2 DEF HasBatch
      <3>2. i # 1
        BY <1>2, <2>1, <2>2, <3>1
      <3>3. i - 1 \in DOMAIN r /\ r[i - 1] = q[i]
        BY <1>6, <3>2
      <3> QED  BY <1>4, <2>1, <2>2, <3>1, <3>3 DEF HasBatch
    <2>3. CASE k.user # user
      BY <1>4, <2>1, <2>3
    <2> QED  BY <2>2, <2>3
  <1>14. \A x \in waits : \A w \in x.on :
            \/ w \in acked' \cup rejected'
            \/ StillDue(r, x.id, w) /\ x.id # b.id
    <2> SUFFICES ASSUME NEW x \in waits, NEW w \in x.on, w \notin acked' \cup rejected'
                 PROVE  StillDue(r, x.id, w) /\ x.id # b.id
      OBVIOUS
    <2>1. w \notin acked \cup rejected /\ w # b.w
      BY DEF SettlesFirst
    <2>2. PICK i \in DOMAIN q : q[i].w = w /\ q[i].id <= x.id
      BY <1>1, <2>1 DEF Ledger, Waiters, StillDue
    <2>3. i # 1
      BY <1>2, <2>1, <2>2
    <2>4. i - 1 \in DOMAIN r /\ r[i - 1] = q[i]
      BY <1>6, <2>3
    <2>5. x.id # b.id
      <3>1. b.id < q[i].id
        BY <1>7, <2>3
      <3>2. b.id \in Nat /\ q[i].id \in Nat /\ x.id \in Nat
        BY <1>2, <1>6, <1>a
      <3> QED  BY <2>2, <3>1, <3>2
    <2> QED  BY <2>2, <2>4, <2>5 DEF StillDue
  <1>15. Waiters'
    BY <1>2, <1>4, <1>14 DEF Waiters, SettlesFirst
  <1>16. Told
    <2>1. \A k \in callbacks \ callbacks' : k.w = b.w
      <3> SUFFICES ASSUME NEW k \in callbacks, k.user = user, k.id = b.id PROVE k.w = b.w
        BY DEF SettlesFirst
      <3>1. PICK i \in DOMAIN q : q[i].id = k.id /\ q[i].w = k.w
        BY <1>1 DEF Ledger, Handlers, HasBatch
      <3> QED  BY <1>2, <1>7, <3>1
    <2>2. \A x \in waits \ waits' : x.on \subseteq acked' \cup rejected'
      <3>1. \A x \in waits \ waits' : x.id = b.id
        BY DEF SettlesFirst
      <3> QED  BY <1>14, <3>1
    <2> QED  BY <1>9, <2>1, <2>2 DEF Told, SettlesFirst
  <1> QED  BY <1>10, <1>11, <1>12, <1>13, <1>15, <1>16 DEF Ledger

\* An answer settles the pipeline's first batch, which the backend has applied.
LEMMA ResultIs ==
    ASSUME Inv, Ledger, MutationResult, NEW b, b = Head(remote.pipeline)
    PROVE  /\ SettlesFirst(b) /\ Answers(remote') \subseteq Answers(remote)
           /\ b.w \in applied /\ acked' = acked \cup {b.w} /\ rejected' = rejected
  <1> DEFINE a == AfterRead
             s == [a EXCEPT !.pipeline = Tail(a.pipeline)]
  <1>1. /\ HasAnswer /\ remote.handshake /\ remote.pipeline # <<>> /\ Settle(b, s)
        /\ acked' = acked \cup {b.w}
        /\ UNCHANGED <<issued, applied, refused, rejected>>
    BY DEF MutationResult, backend
  <1>2. /\ a \in Remote /\ a.conn # NoConn /\ a.ok = remote.ok /\ a.enabled = remote.enabled
        /\ a.pipeline = remote.pipeline /\ a.state = remote.state
        /\ a.handshake = remote.handshake /\ a.idle = remote.idle
        /\ Answers(a) \subseteq Answers(remote)
    BY <1>1, AfterReadIs, ReadAnswers
  <1> HIDE DEF a
  <1>3. Tail(a.pipeline) \in Seq(Batch)
    <2>1. remote.pipeline \in Seq(Batch)
      BY Facts DEF Remote
    <2> QED  BY <1>1, <1>2, <2>1, TailIs
  <1>4. /\ s \in Remote /\ s.conn = a.conn /\ s.pipeline = Tail(remote.pipeline)
        /\ s.ok = a.ok /\ s.enabled = a.enabled /\ s.state = a.state
        /\ s.handshake = a.handshake /\ s.idle = a.idle
    BY <1>2, <1>3 DEF Remote
  <1> HIDE DEF s
  <1>5. Sound(s)
    BY <1>1, <1>2, <1>4, Facts DEF Sound, Started, Usable
  <1>6. /\ queue[user] # <<>> /\ b = queue[user][1] /\ b \in Batch
        /\ queue' = [queue EXCEPT ![user] = Tail(queue[user])]
        /\ callbacks' = {k \in callbacks : k.user # user \/ k.id # b.id}
        /\ waits' = {x \in waits : x.id # b.id} /\ user' = user
        /\ Answers(remote') = Answers(s)
    BY <1>1, <1>4, <1>5, SettleIs
  <1>7. SettlesFirst(b)
    BY <1>1, <1>6 DEF SettlesFirst
  <1>8. Answers(remote') \subseteq Answers(remote)
    BY <1>2, <1>4, <1>6 DEF Answers
  <1>9. b.w \in applied
    <2> DEFINE x == remote.conn.responses
    <2>1. x \in Seq(Request) /\ x # <<>> /\ remote.conn # NoConn
      BY <1>1, Facts DEF HasAnswer
    <2>2. 1 \in DOMAIN x
      <3> HIDE DEF x
      <3>1. Len(x) \in Nat \ {0} /\ DOMAIN x = 1..Len(x)
        BY <2>1, TailIs
      <3> QED  BY <3>1
    <2>3. x[1] = b
      BY <1>1, <1>6, <2>1, <2>2, AnswersAreFirst
    <2>4. x[1] \in Answers(remote)
      BY <2>1, <2>2 DEF Answers
    <2> QED  BY <1>6, <2>3, <2>4, HandshakeAssumption DEF Ledger, Answered
  <1> QED  BY <1>1, <1>7, <1>8, <1>9

\* A stream that is closed with an error settles nothing, or it drops the pipeline's first
\* batch, one the backend has answered for if it has when the error is permanent.
LEMMA CloseIs ==
    ASSUME Inv, Ledger, remote.conn # NoConn, NEW status \in {"transient", "permanent"},
           CloseWithError(status), UNCHANGED <<backend, acked>>,
           status = "permanent" /\ remote.handshake /\ remote.pipeline # <<>> =>
               Head(remote.pipeline).w \in applied \cup refused
    PROVE  \/ Quiet /\ SameWaiters
           \/ \E b : /\ SettlesFirst(b) /\ Answers(remote') \subseteq Answers(remote)
                     /\ b.w \in applied \cup refused
                     /\ rejected' = rejected \cup {b.w} /\ acked' = acked
  <1> DEFINE t == Closed(remote, "Error")
             b == Head(t.pipeline)
             drops == t.pipeline # <<>> /\ t.handshake /\ IsPermanentWriteError(status)
             resets == t.pipeline # <<>> /\ ~t.handshake /\ IsPermanentError(status)
             s == [InhibitBackoff(t) EXCEPT !.pipeline = Tail(@), !.handshake = FALSE]
  <1>1. UNCHANGED <<issued, applied, refused, acked>>
    BY DEF backend
  <1>2. \/ drops /\ Settle(b, s) /\ rejected' = rejected \cup {b.w}
        \/ /\ ~drops /\ UNCHANGED <<queue, engine, rejected>>
           /\ remote' = Notified(IF resets THEN [t EXCEPT !.token = NoToken] ELSE t)
    BY DEF CloseWithError
  <1>3. Started(remote) /\ remote.enabled /\ remote.ok
    BY Facts DEF Sound, Started
  <1>4. /\ t \in Remote /\ t.ok = remote.ok /\ ~t.idle /\ t.closeCount = remote.closeCount + 1
        /\ t.conn = NoConn /\ t.state = "Error" /\ ~Started(t)
        /\ t.enabled = remote.enabled /\ t.pipeline = remote.pipeline /\ t.asks = remote.asks
        /\ t.handshake = remote.handshake /\ t.token = remote.token
    BY <1>3, Facts, ClosedIs
  <1>5. CASE ~drops
    <2>1. resets \in BOOLEAN
      OBVIOUS
    <2>2. /\ remote' = Notified(IF resets THEN [Closed(remote, "Error") EXCEPT !.token = NoToken]
                                ELSE Closed(remote, "Error"))
          /\ UNCHANGED <<queue, engine, issued, applied, refused, acked, rejected>>
      BY <1>1, <1>2, <1>5
    <2> HIDE DEF resets
    <2> QED  BY <1>3, <2>1, <2>2, KeptQuiet
  <1>6. CASE drops
    <2>1. Settle(b, s) /\ rejected' = rejected \cup {b.w}
      BY <1>2, <1>6
    <2>2. /\ remote.pipeline # <<>> /\ remote.handshake /\ status = "permanent"
          /\ b = Head(remote.pipeline)
      BY <1>3, <1>4, <1>6 DEF IsPermanentWriteError, IsPermanentError
    <2>3. Tail(t.pipeline) \in Seq(Batch)
      <3>1. t.pipeline \in Seq(Batch) /\ t.pipeline # <<>>
        BY <1>4, <2>2 DEF Remote
      <3> QED  BY <3>1, TailIs
    <2>4. InhibitBackoff(t) = [t EXCEPT !.state = "Initial"]
      <3>1. HardAssert(t, ~Started(t)) = t
        BY <1>4, AssertHolds
      <3> QED  BY <3>1 DEF InhibitBackoff
    <2>5. s = [t EXCEPT !.state = "Initial", !.pipeline = Tail(t.pipeline), !.handshake = FALSE]
      <3> HIDE DEF t
      <3> QED  BY <1>4, <2>4 DEF Remote
    <2> HIDE DEF t, s, b
    <2>6. /\ s \in Remote /\ s.ok = t.ok /\ s.idle = t.idle /\ s.conn = NoConn
          /\ s.state = "Initial" /\ s.enabled = t.enabled /\ s.pipeline = Tail(t.pipeline)
          /\ s.handshake = FALSE
      BY <1>4, <2>3, <2>5 DEF Remote
    <2>7. Sound(s) /\ s.pipeline = Tail(remote.pipeline)
      BY <1>3, <1>4, <2>6 DEF Sound, Started, Usable
    <2>8. /\ queue[user] # <<>> /\ b = queue[user][1] /\ b \in Batch
          /\ queue' = [queue EXCEPT ![user] = Tail(queue[user])]
          /\ callbacks' = {k \in callbacks : k.user # user \/ k.id # b.id}
          /\ waits' = {x \in waits : x.id # b.id} /\ user' = user
          /\ Answers(remote') = Answers(s)
      BY <2>1, <2>2, <2>6, <2>7, SettleIs
    <2>9. SettlesFirst(b)
      BY <1>1, <2>1, <2>8 DEF SettlesFirst
    <2>10. b.w \in applied \cup refused
      BY <2>2
    <2>11. Answers(remote') \subseteq Answers(remote)
      BY <2>6, <2>8 DEF Answers
    <2> QED  BY <1>1, <2>1, <2>9, <2>10, <2>11
  <1> QED  BY <1>5, <1>6

\* The pipeline's first batch has an answer, when there is any on its way.
LEMMA FirstIsApplied ==
    ASSUME Inv, Ledger, HasAnswer, remote.handshake, remote.pipeline # <<>>
    PROVE  Head(remote.pipeline).w \in applied
  <1> DEFINE x == remote.conn.responses
             b == Head(remote.pipeline)
  <1>1. b = queue[user][1] /\ b \in Batch
    BY FirstIs
  <1>2. x \in Seq(Request) /\ x # <<>> /\ remote.conn # NoConn
    BY Facts DEF HasAnswer
  <1>3. \A i \in DOMAIN x : x[i] = queue[user][i]
    BY <1>2, AnswersAreFirst
  <1>4. x[1] \in Answers(remote) /\ x[1] = b
    <2>1. 1 \in DOMAIN x
      <3> HIDE DEF x
      <3>1. Len(x) \in Nat \ {0} /\ DOMAIN x = 1..Len(x)
        BY <1>2, TailIs
      <3> QED  BY <3>1
    <2> QED  BY <1>1, <1>2, <1>3, <2>1 DEF Answers
  <1> QED  BY <1>1, <1>4, HandshakeAssumption DEF Ledger, Answered

\* A call that has ended, or an answer that cannot be decoded, settles nothing, or it drops
\* the pipeline's first batch, which the backend has refused, or applied with the answer
\* lost.
LEMMA FinishIs ==
    ASSUME Inv, Ledger, StreamFinish \/ UnreadableResponse
    PROVE  \/ Quiet /\ SameWaiters
           \/ \E b : /\ SettlesFirst(b) /\ Answers(remote') \subseteq Answers(remote)
                     /\ b.w \in applied \cup refused
                     /\ rejected' = rejected \cup {b.w} /\ acked' = acked
  <1>1. CASE UnreadableResponse
    <2>1. /\ HasAnswer /\ remote.conn # NoConn /\ CloseWithError("permanent")
          /\ UNCHANGED <<backend, acked>>
      BY <1>1 DEF UnreadableResponse, HasAnswer
    <2>2. remote.handshake /\ remote.pipeline # <<>> =>
              Head(remote.pipeline).w \in applied \cup refused
      BY <2>1, FirstIsApplied
    <2> QED  BY <2>1, <2>2, CloseIs
  <1>2. CASE StreamFinish
    <2> DEFINE status == remote.conn.status
               x == remote.conn.responses
    <2>1. /\ remote.conn # NoConn /\ status # "open" /\ CloseWithError(status)
          /\ UNCHANGED <<backend, acked>>
      BY <1>2 DEF StreamFinish
    <2>2. status \in {"transient", "permanent"}
      BY <2>1, Facts DEF Status
    <2>3. ASSUME status = "permanent", remote.handshake, remote.pipeline # <<>>
          PROVE  Head(remote.pipeline).w \in applied \cup refused
      <3>1. CASE x # <<>>
        BY <2>1, <2>3, <3>1, FirstIsApplied DEF HasAnswer
      <3>2. CASE x = <<>>
        <4>1. queue[user][Len(x) + 1].w \in refused
          BY <2>1, <2>3, AnswersAreFirst
        <4>2. Len(x) + 1 = 1
          <5>1. Len(x) = 0
            BY <3>2
          <5> QED  BY <5>1
        <4>3. Head(remote.pipeline) = queue[user][1]
          BY <2>3, FirstIs
        <4> QED  BY <4>1, <4>2, <4>3
      <3> QED  BY <3>1, <3>2
    <2>4. status = "permanent" /\ remote.handshake /\ remote.pipeline # <<>> =>
              Head(remote.pipeline).w \in applied \cup refused
      BY <2>3
    <2> QED  BY <2>1, <2>2, <2>4, CloseIs
  <1> QED  BY <1>1, <1>2

--------------------------------------------------------------------------------
(* The contract.                                                           *)

\* The writes of a queue, and of all queues: what WriteContract calls pending.
WritesIn(q) == [i \in DOMAIN q |-> q[i].w]
PendingWrites == [u \in User |-> WritesIn(queue[u])]

\* The writes of a queue are a sequence of as many writes.
LEMMA WritesInIs ==
    ASSUME NEW q \in Seq(Batch)
    PROVE  /\ WritesIn(q) \in Seq(Write) /\ Len(WritesIn(q)) = Len(q)
           /\ DOMAIN WritesIn(q) = DOMAIN q
           /\ \A i \in DOMAIN q : WritesIn(q)[i] = q[i].w
  <1>1. Len(q) \in Nat /\ DOMAIN q = 1..Len(q) /\ \A i \in 1..Len(q) : q[i].w \in Write
    <2>1. \A i \in 1..Len(q) : q[i] \in Batch
      BY ElementOfSeq
    <2> QED  BY <2>1, LenProperties DEF Batch
  <1>2. /\ DOMAIN WritesIn(q) = 1..Len(q)
        /\ \A i \in 1..Len(q) : WritesIn(q)[i] = q[i].w
        /\ WritesIn(q) \in [1..Len(q) -> Write]
    BY <1>1 DEF WritesIn
  <1>3. WritesIn(q) \in Seq(Write)
    BY <1>1, <1>2, SeqDef
  <1>4. Len(WritesIn(q)) = Len(q)
    <2>1. PICK m \in Nat : m = Len(WritesIn(q)) /\ DOMAIN WritesIn(q) = 1..m
      BY <1>3, LenProperties
    <2>2. PICK n \in Nat : n = Len(q)
      BY <1>1
    <2>3. \A i \in Nat : i \in 1..m <=> i \in 1..n
      BY <1>2, <2>1, <2>2
    <2>4. m = n
      <3>1. m = 0 \/ m <= n
        BY <2>1, <2>2, <2>3
      <3>2. n = 0 \/ n <= m
        BY <2>1, <2>2, <2>3
      <3> QED  BY <2>1, <2>2, <2>3, <3>1, <3>2
    <2> QED  BY <2>1, <2>2, <2>4
  <1> QED  BY <1>1, <1>2, <1>3, <1>4

\* A batch at the end of a queue is a write at the end.
LEMMA WritesInAppend ==
    ASSUME NEW q \in Seq(Batch), NEW b \in Batch
    PROVE  WritesIn(Append(q, b)) = Append(WritesIn(q), b.w)
  <1>1. PICK r : r = Append(q, b)
    OBVIOUS
  <1>2. /\ Len(q) \in Nat /\ DOMAIN q = 1..Len(q) /\ r \in Seq(Batch)
        /\ Len(r) = Len(q) + 1 /\ DOMAIN r = 1 .. Len(q) + 1
        /\ r[Len(q) + 1] = b /\ \A i \in 1..Len(q) : r[i] = q[i]
    BY <1>1, AppendItems
  <1>3. PICK x : x = WritesIn(q)
    OBVIOUS
  <1>4. /\ x \in Seq(Write) /\ Len(x) = Len(q) /\ \A i \in 1..Len(q) : x[i] = q[i].w
    BY <1>2, <1>3, WritesInIs
  <1>5. PICK y : y = WritesIn(r)
    OBVIOUS
  <1>6. /\ y \in Seq(Write) /\ Len(y) = Len(q) + 1
        /\ \A i \in 1 .. Len(q) + 1 : y[i] = r[i].w
    BY <1>2, <1>5, WritesInIs
  <1>7. b.w \in Write
    BY DEF Batch
  <1>8. PICK z : z = Append(x, b.w)
    OBVIOUS
  <1>9. /\ z \in Seq(Write) /\ Len(z) = Len(q) + 1
        /\ z[Len(q) + 1] = b.w /\ \A i \in 1..Len(q) : z[i] = x[i]
    <2>1. /\ z \in Seq(Write) /\ Len(z) = Len(x) + 1
          /\ z[Len(x) + 1] = b.w /\ \A i \in 1..Len(x) : z[i] = x[i]
      BY <1>4, <1>7, <1>8, AppendItems
    <2> QED  BY <1>4, <2>1
  <1>10. \A i \in 1..Len(y) : y[i] = z[i]
    <2>1. \A i \in 1 .. Len(q) + 1 : i \in 1..Len(q) \/ i = Len(q) + 1
      BY <1>2
    <2> QED  BY <1>2, <1>4, <1>6, <1>9, <2>1
  <1>11. y = z
    BY <1>6, <1>9, <1>10, SeqEqual
  <1> QED  BY <1>1, <1>3, <1>5, <1>8, <1>11

\* The first batch of a queue is the first write.
LEMMA WritesInTail ==
    ASSUME NEW q \in Seq(Batch), q # <<>>
    PROVE  /\ WritesIn(q) # <<>> /\ Head(WritesIn(q)) = q[1].w
           /\ WritesIn(Tail(q)) = Tail(WritesIn(q))
  <1>1. PICK r : r = Tail(q)
    OBVIOUS
  <1>2. /\ Len(q) \in Nat \ {0} /\ DOMAIN q = 1..Len(q) /\ r \in Seq(Batch)
        /\ Len(r) = Len(q) - 1 /\ DOMAIN r = 1 .. Len(q) - 1
        /\ \A i \in 1 .. Len(q) - 1 : r[i] = q[i + 1]
    BY <1>1, TailIs
  <1>3. PICK x : x = WritesIn(q)
    OBVIOUS
  <1>4. /\ x \in Seq(Write) /\ Len(x) = Len(q) /\ \A i \in 1..Len(q) : x[i] = q[i].w
    BY <1>2, <1>3, WritesInIs
  <1>5. x # <<>>
    BY <1>2, <1>4
  <1>6. PICK y : y = WritesIn(r)
    OBVIOUS
  <1>7. /\ y \in Seq(Write) /\ Len(y) = Len(q) - 1
        /\ \A i \in 1 .. Len(q) - 1 : y[i] = r[i].w
    BY <1>2, <1>6, WritesInIs
  <1>8. PICK z : z = Tail(x)
    OBVIOUS
  <1>9. /\ z \in Seq(Write) /\ Len(z) = Len(x) - 1 /\ Head(x) = x[1]
        /\ \A i \in 1 .. Len(x) - 1 : z[i] = x[i + 1]
    BY <1>4, <1>5, <1>8, TailIs
  <1>10. \A i \in 1..Len(y) : y[i] = z[i]
    <2>1. \A i \in 1 .. Len(q) - 1 : i + 1 \in 1..Len(q)
      BY <1>2
    <2> QED  BY <1>2, <1>4, <1>7, <1>9, <2>1
  <1>11. y = z
    BY <1>4, <1>7, <1>9, <1>10, SeqEqual
  <1>12. Head(x) = q[1].w
    BY <1>2, <1>4, <1>9
  <1> QED  BY <1>1, <1>3, <1>5, <1>6, <1>8, <1>11, <1>12

\* The pending writes after a step that changes the queue of one user.
LEMMA PendingChange ==
    ASSUME Inv, NEW q \in Seq(Batch), queue' = [queue EXCEPT ![user] = q]
    PROVE  PendingWrites' = [PendingWrites EXCEPT ![user] = WritesIn(q)]
  <1>1. queue \in [User -> Seq(Batch)] /\ user \in User
    BY Facts
  <1>2. \A u \in User : queue'[u] = IF u = user THEN q ELSE queue[u]
    BY <1>1
  <1>3. PendingWrites' = [u \in User |-> WritesIn(queue'[u])]
    BY DEF PendingWrites, WritesIn
  <1>4. PendingWrites = [u \in User |-> WritesIn(queue[u])]
    BY DEF PendingWrites
  <1>5. PendingWrites' = [u \in User |-> IF u = user THEN WritesIn(q) ELSE PendingWrites[u]]
    BY <1>2, <1>3, <1>4
  <1> QED  BY <1>1, <1>4, <1>5

\* A write of the current user is issued.
LEMMA IssuesOne ==
    ASSUME Inv, Ledger, WriteMutations
    PROVE  \E u \in User : Contract!Issue(u)
  <1>0. PICK u \in User : u = user
    BY Facts
  <1>1. PICK b : b = [id |-> nextId, w |-> Len(issued) + 1]
    OBVIOUS
  <1>2. /\ b \in Batch /\ queue' = [queue EXCEPT ![user] = Append(queue[user], b)]
        /\ b.w \notin DOMAIN issued /\ UNCHANGED <<applied, refused, acked, rejected>>
    BY <1>1, IssueIs
  <1>3. queue[user] \in Seq(Batch) /\ queue \in [User -> Seq(Batch)] /\ user \in User
    BY Facts
  <1>4. /\ Append(queue[user], b) \in Seq(Batch)
        /\ WritesIn(Append(queue[user], b)) = Append(WritesIn(queue[user]), b.w)
    BY <1>2, <1>3, AppendItems, WritesInAppend
  <1>5. PendingWrites' = [PendingWrites EXCEPT ![user] = Append(WritesIn(queue[user]), b.w)]
    BY <1>2, <1>4, PendingChange
  <1>6. PendingWrites[user] = WritesIn(queue[user])
    BY <1>3 DEF PendingWrites
  <1>7. PendingWrites' = [PendingWrites EXCEPT ![user] = Append(PendingWrites[user], b.w)]
    BY <1>5, <1>6
  <1>8. \A v \in User :
           b.w \notin {PendingWrites[v][i] : i \in DOMAIN PendingWrites[v]}
    <2> SUFFICES ASSUME NEW v \in User, NEW i \in DOMAIN PendingWrites[v]
                 PROVE  b.w # PendingWrites[v][i]
      OBVIOUS
    <2>1. PendingWrites[v] = WritesIn(queue[v])
      BY DEF PendingWrites
    <2>2. i \in DOMAIN queue[v] /\ PendingWrites[v][i] = queue[v][i].w
      BY <2>1 DEF WritesIn
    <2>3. queue[v][i].w \in DOMAIN issued
      BY <2>2 DEF Inv, Queues, OfUser
    <2> QED  BY <1>2, <2>2, <2>3
  <1>9. b.w \notin applied \cup refused /\ b.w \in Write
    BY <1>2 DEF Ledger, Known, Batch
  <1>10. Contract!Issue(u)
    BY <1>0, <1>2, <1>7, <1>8, <1>9 DEF Contract!Issue, PendingWrites, WritesIn
  <1> QED  BY <1>10

\* The backend answers a pending write once those before it have been answered.
LEMMA AnswersOne ==
    ASSUME Inv, Ledger, Serve \/ Refuse
    PROVE  \/ UNCHANGED <<queue, applied, refused, acked, rejected>>
           \/ \E u \in User : \E i \in DOMAIN PendingWrites[u] :
                 Contract!Apply(u, i) \/ Contract!Refuse(u, i)
  <1>0. PICK u \in User : u = user
    BY Facts
  <1>1. /\ Pending /\ UNCHANGED <<queue, acked, rejected>>
        /\ \/ applied' = applied \cup WritesOf(Asked) /\ refused' = refused
           \/ refused' = refused \cup WritesOf(Asked) /\ applied' = applied
    BY DEF Serve, Refuse, persistent, settled
  <1>2. CASE Asked = Handshake
    BY <1>1, <1>2 DEF WritesOf
  <1>3. CASE Asked # Handshake
    <2>1. PICK i \in DOMAIN queue[user] :
             /\ Asked = queue[user][i]
             /\ \A j \in 1 .. i - 1 : queue[user][j].w \in applied \cup refused
      BY <1>1, <1>3, AskedIs
    <2>2. /\ PendingWrites[user] = WritesIn(queue[user]) /\ user \in User
          /\ queue[user] \in Seq(Batch)
      BY Facts DEF PendingWrites
    <2>3. /\ DOMAIN PendingWrites[user] = DOMAIN queue[user]
          /\ \A j \in DOMAIN queue[user] : PendingWrites[user][j] = queue[user][j].w
      BY <2>2, WritesInIs
    <2>4. \A j \in 1 .. i - 1 : PendingWrites[user][j] \in applied \cup refused
      <3>1. \A j \in 1 .. i - 1 : j \in DOMAIN queue[user]
        BY <2>1, <2>2, LenProperties
      <3> QED  BY <1>0, <2>1, <2>3, <3>1
    <2>5. Contract!Due(u, i)
      BY <1>0, <2>4 DEF Contract!Due, PendingWrites, WritesIn
    <2>6. WritesOf(Asked) = {PendingWrites[user][i]}
      BY <1>3, <2>1, <2>3 DEF WritesOf
    <2>7. PendingWrites' = PendingWrites
      BY <1>1 DEF PendingWrites, WritesIn
    <2>8. CASE applied' = applied \cup WritesOf(Asked) /\ refused' = refused
      <3>1. Contract!Apply(u, i)
        BY <1>0, <1>1, <2>5, <2>6, <2>7, <2>8 DEF Contract!Apply, PendingWrites, WritesIn
      <3> QED  BY <1>0, <2>1, <2>3, <3>1
    <2>9. CASE refused' = refused \cup WritesOf(Asked) /\ applied' = applied
      <3>1. Contract!Refuse(u, i)
        BY <1>0, <1>1, <2>5, <2>6, <2>7, <2>9 DEF Contract!Refuse, PendingWrites, WritesIn
      <3> QED  BY <1>0, <2>1, <2>3, <3>1
    <2> QED  BY <1>1, <2>8, <2>9
  <1> QED  BY <1>2, <1>3

\* The client settles the oldest pending write of a user.
LEMMA SettlesOne ==
    ASSUME Inv, Ledger, NEW b, SettlesFirst(b)
    PROVE  /\ b.w \in applied /\ acked' = acked \cup {b.w} /\ rejected' = rejected =>
                 \E u \in User : Contract!Acknowledge(u)
           /\ b.w \in applied \cup refused /\ rejected' = rejected \cup {b.w} /\ acked' = acked =>
                 \E u \in User : Contract!Reject(u)
  <1>0. PICK u \in User : u = user
    BY Facts
  <1>1. PICK q : q = queue[user]
    OBVIOUS
  <1>2. /\ q \in Seq(Batch) /\ q # <<>> /\ b = q[1] /\ user \in User
        /\ queue' = [queue EXCEPT ![user] = Tail(q)]
        /\ UNCHANGED <<applied, refused>>
    BY <1>1, Facts DEF SettlesFirst
  <1>3. PendingWrites[user] = WritesIn(q)
    BY <1>1, <1>2 DEF PendingWrites
  <1>4. /\ WritesIn(q) # <<>> /\ Head(WritesIn(q)) = b.w
        /\ WritesIn(Tail(q)) = Tail(WritesIn(q)) /\ Tail(q) \in Seq(Batch)
    BY <1>2, WritesInTail, TailIs
  <1>5. PendingWrites' = [PendingWrites EXCEPT ![user] = Tail(PendingWrites[user])]
    <2>1. PendingWrites' = [PendingWrites EXCEPT ![user] = WritesIn(Tail(q))]
      BY <1>2, <1>4, PendingChange
    <2> QED  BY <1>3, <1>4, <2>1
  <1>6. PendingWrites[user] # <<>> /\ Head(PendingWrites[user]) = b.w
    BY <1>3, <1>4
  <1>7. ASSUME b.w \in applied, acked' = acked \cup {b.w}, rejected' = rejected
        PROVE  Contract!Acknowledge(u)
    BY <1>0, <1>2, <1>5, <1>6, <1>7 DEF Contract!Acknowledge, PendingWrites, WritesIn
  <1>8. ASSUME b.w \in applied \cup refused, rejected' = rejected \cup {b.w}, acked' = acked
        PROVE  Contract!Reject(u)
    BY <1>0, <1>2, <1>5, <1>6, <1>8 DEF Contract!Reject, PendingWrites, WritesIn
  <1> QED  BY <1>7, <1>8

--------------------------------------------------------------------------------
(* The theorems.                                                           *)

\* A step that settles nothing leaves the contract's state alone.
LEMMA QuietStutters ==
    ASSUME UNCHANGED <<queue, applied, refused, acked, rejected>>
    PROVE  UNCHANGED Contract!vars
  BY DEF Contract!vars

\* Every step keeps the ledger, and is a step of the contract or none; and, but for a
\* crash, whoever is told something is told so for a reason.
LEMMA LedgerStep ==
    ASSUME Inv, Ledger, [Next]_vars
    PROVE  Ledger' /\ [Contract!Next]_(Contract!vars) /\ (Relaunch \/ Told)
  <1>1. ASSUME Quiet, SameWaiters
        PROVE  Ledger' /\ [Contract!Next]_(Contract!vars) /\ (Relaunch \/ Told)
    BY <1>1, QuietKeeps, QuietStutters DEF Quiet, SameWaiters, Told
  <1>2. CASE UNCHANGED vars
    BY <1>1, <1>2 DEF vars, Quiet, SameWaiters, persistent, engine, backend, settled
  <1>3. CASE BackoffElapses \/ IdleTimeout \/ HandshakeComplete \/ TurnNetworkOn
             \/ TurnNetworkOff \/ Break
    BY <1>1, <1>3, StreamQuiet
  <1>4. CASE (\E u \in User : AuthStateChanges(u)) \/ (\E a \in remote.asks : AuthAnswers(a))
             \/ MainQueueRuns
    BY <1>1, <1>4, AuthQuiet
  <1>5. CASE ResumeStart
    BY <1>1, <1>5, ResumeQuiet
  <1>6. CASE HandleCredentialChange
    <2>1. /\ Quiet /\ callbacks' = callbacks
          /\ (waits' = waits /\ user' = user) \/ (waits' = {} /\ user' # user)
      BY <1>6, ChangeQuiet
    <2>2. Ledger' /\ Told
      BY <2>1, QuietKeeps DEF Told
    <2> QED  BY <2>1, <2>2, QuietStutters DEF Quiet
  <1>7. CASE Relaunch
    <2>1. Quiet /\ callbacks' = {} /\ waits' = {}
      BY <1>7, RelaunchQuiet
    <2>2. Ledger'
      BY <2>1, QuietKeeps
    <2> QED  BY <1>7, <2>1, <2>2, QuietStutters DEF Quiet
  <1>8. CASE WaitForPendingWrites
    <2>1. Ledger' /\ Quiet /\ callbacks' = callbacks /\ waits \subseteq waits'
      BY <1>8, WaitKeeps
    <2> QED  BY <2>1, QuietStutters DEF Quiet, Told
  <1>9. CASE WriteMutations
    <2>1. callbacks \subseteq callbacks' /\ waits' = waits
      BY <1>9, IssueIs
    <2>2. Contract!Next
      <3>1. \E u \in User : Contract!Issue(u)
        BY <1>9, IssuesOne
      <3> QED  BY <3>1, Zenon DEF Contract!Next
    <2> QED  BY <1>9, <2>1, <2>2, IssueKeeps DEF Told
  <1>10. CASE Serve \/ Refuse
    <2>1. Ledger' /\ SameWaiters
      BY <1>10, ServeKeeps, RefuseKeeps
    <2>2. [Contract!Next]_(Contract!vars)
      <3>1. CASE UNCHANGED <<queue, applied, refused, acked, rejected>>
        BY <3>1, QuietStutters
      <3>2. CASE \E u \in User : \E i \in DOMAIN PendingWrites[u] :
                    Contract!Apply(u, i) \/ Contract!Refuse(u, i)
        BY <3>2, Zenon DEF Contract!Next, PendingWrites, WritesIn
      <3> QED  BY <1>10, <3>1, <3>2, AnswersOne
    <2> QED  BY <2>1, <2>2 DEF SameWaiters, Told
  <1>11. ASSUME NEW b, SettlesFirst(b), Answers(remote') \subseteq Answers(remote),
                \/ b.w \in applied /\ acked' = acked \cup {b.w} /\ rejected' = rejected
                \/ /\ b.w \in applied \cup refused
                   /\ rejected' = rejected \cup {b.w} /\ acked' = acked
         PROVE  Ledger' /\ [Contract!Next]_(Contract!vars) /\ (Relaunch \/ Told)
    <2>1. Ledger' /\ Told
      BY <1>11, SettleKeeps
    <2>2. \E u \in User : Contract!Acknowledge(u) \/ Contract!Reject(u)
      BY <1>11, SettlesOne
    <2>3. Contract!Next
      BY <2>2, Zenon DEF Contract!Next
    <2> QED  BY <2>1, <2>3
  <1>12. CASE MutationResult
    <2>1. PICK b : b = Head(remote.pipeline)
      OBVIOUS
    <2>2. /\ SettlesFirst(b) /\ Answers(remote') \subseteq Answers(remote)
          /\ b.w \in applied /\ acked' = acked \cup {b.w} /\ rejected' = rejected
      BY <1>12, <2>1, ResultIs
    <2> QED  BY <1>11, <2>2
  <1>13. CASE StreamFinish \/ UnreadableResponse
    <2>1. CASE Quiet /\ SameWaiters
      BY <1>1, <2>1
    <2>2. CASE \E b : /\ SettlesFirst(b) /\ Answers(remote') \subseteq Answers(remote)
                      /\ b.w \in applied \cup refused
                      /\ rejected' = rejected \cup {b.w} /\ acked' = acked
      BY <1>11, <2>2
    <2> QED  BY <1>13, <2>1, <2>2, FinishIs
  <1> QED  BY <1>2, <1>3, <1>4, <1>5, <1>6, <1>7, <1>8, <1>9, <1>10, <1>12, <1>13
           DEF Next, Work, WorkerQueueRuns

\* At first nothing is issued, answered or settled.
LEMMA LedgerInit ==
    ASSUME Init
    PROVE  Ledger /\ Contract!Init
  <1>1. /\ queue = [u \in User |-> <<>>] /\ callbacks = {} /\ waits = {} /\ issued = <<>>
        /\ applied = {} /\ refused = {} /\ acked = {} /\ rejected = {}
        /\ remote = [Unstarted EXCEPT !.enabled = TRUE]
    BY DEF Init
  <1>2. Answers(remote) = {}
    <2>1. remote.conn = NoConn
      BY <1>1 DEF Unstarted
    <2> QED  BY <2>1 DEF Answers
  <1>3. Known /\ Answered /\ Handlers /\ Waiters
    BY <1>1, <1>2 DEF Known, Answered, Handlers, Waiters
  <1>4. \A u \in User : queue[u] = <<>> /\ DOMAIN queue[u] = {}
    BY <1>1
  <1>5. \A u \in User : Unsettled(queue[u], acked \cup rejected)
    BY <1>4 DEF Unsettled
  <1>6. PendingWrites = [u \in User |-> <<>>]
    <2>1. \A u \in User : WritesIn(queue[u]) = <<>>
      <3> SUFFICES ASSUME NEW u \in User PROVE WritesIn(queue[u]) = <<>>
        OBVIOUS
      <3>1. queue[u] = <<>> /\ queue[u] \in Seq(Batch)
        BY <1>4, EmptySeq
      <3>2. WritesIn(queue[u]) \in Seq(Write) /\ Len(WritesIn(queue[u])) = Len(queue[u])
        BY <3>1, WritesInIs
      <3>3. Len(queue[u]) = 0
        BY <3>1, EmptySeq
      <3> QED  BY <3>2, <3>3, EmptySeq
    <2> QED  BY <2>1 DEF PendingWrites
  <1>7. Contract!Init
    BY <1>1, <1>6 DEF Contract!Init, PendingWrites, WritesIn
  <1> QED  BY <1>3, <1>5, <1>7 DEF Ledger

\* The ledger holds in every state: what is answered and settled was issued, an answer on
\* its way is about a write that was applied, a queue holds no write twice and none that is
\* settled, and completion handlers and waits belong to writes that are still queued.
THEOREM LedgerHolds == Spec => []Ledger
  <1>1. Init => Ledger
    BY LedgerInit
  <1>2. Inv /\ Ledger /\ [Next]_vars => Ledger'
    BY LedgerStep
  <1> QED  BY <1>1, <1>2, InvHolds, PTL DEF Spec

\* The pipeline implements WriteContract: whatever the token requests, changes of user,
\* lost connections, refusals and crashes, the writes of a user leave the device in the
\* order they were made, the backend answers none before the earlier ones, and the client
\* settles each once, oldest first, as the backend answered.
THEOREM ContractIsKept == Spec => ContractHolds
  <1>1. Init => Contract!Init
    BY LedgerInit
  <1>2. Inv /\ Ledger /\ [Next]_vars => [Contract!Next]_(Contract!vars)
    BY LedgerStep
  <1> QED  BY <1>1, <1>2, InvHolds, LedgerHolds, PTL DEF Spec, ContractHolds, Contract!Spec

\* A completion handler is called for the write it came with, when that is settled, and
\* waitForPendingWrites answers when every write there was at the call is settled, although
\* batch ids are used again after a change of user.
THEOREM ToldOfItsWritesHolds == Spec => ToldOfItsWrites
  <1>1. Inv /\ Ledger /\ [Next]_vars =>
           [Relaunch
            \/ /\ \A k \in callbacks \ callbacks' :
                     k.w \in (acked' \cup rejected') \ (acked \cup rejected)
               /\ user' = user =>
                     \A x \in waits \ waits' : x.on \subseteq acked' \cup rejected']_vars
    BY LedgerStep DEF Told
  <1> QED  BY <1>1, InvHolds, LedgerHolds, PTL DEF Spec, ToldOfItsWrites
================================================================================
