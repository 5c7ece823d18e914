--------------------------- MODULE WritePipelineProofs --------------------------
(***************************************************************************)
(* Proofs about WritePipeline, for any users, any number of writes and any *)
(* bounds: no assertion of the client fails, the pipeline is full, answers *)
(* are about its first batch, and a call carries its own user's writes.    *)
(***************************************************************************)
EXTENDS WritePipeline, SequenceTheorems, FiniteSetTheorems, NaturalsInduction, TLAPS

--------------------------------------------------------------------------------
(* The inductive invariant.                                                *)

Ascending(q) == \A i, j \in DOMAIN q : i < j => q[i].id < q[j].id

\* Each queue is in the order of its ids, and the next id is a new one.
QueuesInOrder ==
    \A u \in User : Ascending(queue[u]) /\ \A i \in DOMAIN queue[u] : queue[u][i].id < nextId

\* The write stream: there is a call if it is open, it needs the network, and it
\* lives without a write only when open with its handshake done.
Sound(s) ==
    /\ s.ok
    /\ (s.state = "Open") <=> (s.conn # NoConn)
    /\ Started(s) => s.enabled
    /\ ~s.enabled => s.pipeline = <<>>
    /\ s.handshake => s.state = "Open"
    /\ Started(s) /\ ~Usable(s) => s.pipeline # <<>>
    /\ s.idle => s.pipeline = <<>> /\ s.state = "Open"

\* PipelineIsFull, of a state s of the remote store and a queue q
Full(s, q) ==
    /\ s.pipeline = IF s.enabled THEN SubSeq(q, 1, Smaller(MaxPendingWrites, Len(q))) ELSE <<>>
    /\ ~ShouldStartWriteStream(s)

\* AnswersMatch, with what is left of a call that has ended; no is the set of the
\* writes the backend has refused.
CallMatches(s, no) ==
    s.conn # NoConn =>
        /\ s.conn.status = "open" =>
              s.conn.responses \o s.conn.requests =
                  IF s.handshake THEN s.pipeline ELSE <<Handshake>>
        /\ s.conn.status = "permanent" /\ s.handshake =>
              /\ Len(s.pipeline) = Len(s.conn.responses) + Len(s.conn.requests) + 1
              /\ s.conn.responses = SubSeq(s.pipeline, 1, Len(s.conn.responses))
              /\ s.pipeline[Len(s.conn.responses) + 1].w \in no
        /\ s.conn.status = "permanent" /\ ~s.handshake => s.conn.responses = <<>>
        /\ s.conn.status = "transient" => s.conn.responses = <<>>

\* The queue q holds writes that u has issued.
OfUser(q, u, is) == \A i \in DOMAIN q : q[i].w \in DOMAIN is /\ is[q[i].w] = u

\* The call and the stream token are u's.
OwnCall(s, u, is) ==
    /\ s.conn # NoConn =>
          /\ s.conn.user = u
          /\ \A i \in DOMAIN s.conn.requests :
                s.conn.requests[i] # Handshake =>
                    s.conn.requests[i].w \in DOMAIN is /\ is[s.conn.requests[i].w] = u
    /\ s.enabled => s.token \in {u, NoToken}

OwnTokens == \A u \in User : saved[u] \in {u, NoToken}

\* A change of user among the worker queue's tasks: before task k, or anywhere.
Changing(k) == \E j \in DOMAIN tasks : j < k /\ tasks[j].kind = "CredentialChange"
AnyChange == \E j \in DOMAIN tasks : tasks[j].kind = "CredentialChange"

\* News of another user dispatched to the main queue: before block i, or anywhere.
News(i) == \E j \in DOMAIN main : j < i /\ main[j].kind = "StateDidChange"
AnyNews == \E j \in DOMAIN main : main[j].kind = "StateDidChange"

\* The requests for a token, and the answers under way, that the stream still waits for
Asking == {a \in remote.asks : a.close = remote.closeCount}
Telling == {i \in DOMAIN main : main[i].kind = "Token" /\ main[i].ask.close = remote.closeCount}
Resuming == {k \in DOMAIN tasks : tasks[k].kind = "Resume" /\ tasks[k].close = remote.closeCount}

\* None is of a later stream.  A token the stream waits for is of the current user,
\* or a change of user arrives before it.
NoneLater ==
    /\ \A a \in remote.asks : a.close <= remote.closeCount
    /\ \A i \in DOMAIN main : main[i].kind = "Token" => main[i].ask.close <= remote.closeCount
    /\ \A k \in DOMAIN tasks : tasks[k].kind = "Resume" => tasks[k].close <= remote.closeCount

TokensInOrder ==
    /\ \A a \in Asking : a.counter = counter \/ AnyChange
    /\ \A i \in Telling :
          /\ main[i].ask.counter = counter \/ AnyChange
          /\ main[i].result \in User => main[i].result = user \/ AnyChange \/ News(i)
    /\ \A k \in Resuming : tasks[k].result \in {"transient", user} \/ Changing(k)

\* The stream waits for one token at a time, and only while Starting.
One(S) == \A x, y \in S : x = y

OneToken ==
    /\ Asking # {} \/ Telling # {} \/ Resuming # {} => remote.state = "Starting"
    /\ One(Asking) /\ One(Telling) /\ One(Resuming)
    /\ Asking # {} => Telling = {} /\ Resuming = {}
    /\ Telling # {} => Resuming = {}

\* The last news is of the user there is.
LastUser ==
    /\ \A i \in DOMAIN main : main[i].kind = "StateDidChange" =>
          \/ main[i].user = authUser
          \/ \E j \in DOMAIN main : i < j /\ main[j].kind = "StateDidChange"
    /\ \A k \in DOMAIN tasks : tasks[k].kind = "CredentialChange" =>
          \/ tasks[k].user = authUser
          \/ \E j \in DOMAIN tasks : k < j /\ tasks[j].kind = "CredentialChange"
          \/ AnyNews
    /\ user = authUser \/ AnyChange \/ AnyNews

Queues == /\ QueuesInOrder /\ OwnTokens
          /\ \A u \in User : OfUser(queue[u], u, issued)
Tokens == NoneLater /\ TokensInOrder /\ OneToken /\ LastUser
Stream == /\ Sound(remote) /\ Full(remote, queue[user])
          /\ CallMatches(remote, refused) /\ OwnCall(remote, user, issued)

Inv == TypeOK /\ Queues /\ Stream /\ Tokens /\ RejectedUnlessLost

--------------------------------------------------------------------------------
(* Queues.                                                                 *)

\* The smaller of two numbers is one of them, and no larger than either.
LEMMA SmallerIs ==
    ASSUME NEW a \in Int, NEW b \in Int
    PROVE  Smaller(a, b) \in {a, b} /\ Smaller(a, b) <= a /\ Smaller(a, b) <= b
  BY DEF Smaller

\* Part of a queue is a queue; its length.
LEMMA SubSeqLen ==
    ASSUME NEW S, NEW q \in Seq(S), NEW m \in 1 .. Len(q) + 1, NEW k \in m - 1 .. Len(q)
    PROVE  SubSeq(q, m, k) \in Seq(S) /\ Len(SubSeq(q, m, k)) = k - m + 1
  <1>1. Len(q) \in Nat /\ m \in Int /\ k \in Int
    BY LenProperties
  <1>2. \A i \in m .. k : q[i] \in S
    BY <1>1, ElementOfSeq
  <1>3. /\ SubSeq(q, m, k) \in Seq(S)
        /\ Len(SubSeq(q, m, k)) = IF m <= k THEN k - m + 1 ELSE 0
    BY <1>1, <1>2, SubSeqProperties
  <1> QED  BY <1>1, <1>3

\* Part of a queue holds the items from there on.
LEMMA SubSeqItems ==
    ASSUME NEW S, NEW q \in Seq(S), NEW m \in 1 .. Len(q) + 1, NEW k \in m - 1 .. Len(q)
    PROVE  /\ DOMAIN SubSeq(q, m, k) = 1 .. k - m + 1
           /\ \A i \in 1 .. k - m + 1 : SubSeq(q, m, k)[i] = q[m + i - 1]
  <1>1. Len(q) \in Nat /\ m \in Int /\ k \in Int
    BY LenProperties
  <1>2. \A i \in m .. k : q[i] \in S
    BY <1>1, ElementOfSeq
  <1>3. \A i \in 1 .. k - m + 1 : SubSeq(q, m, k)[i] = q[m + i - 1]
    BY <1>1, <1>2, SubSeqProperties
  <1>4. SubSeq(q, m, k) \in Seq(S) /\ Len(SubSeq(q, m, k)) = k - m + 1
    BY SubSeqLen
  <1> QED  BY <1>3, <1>4, LenProperties

\* The batches up to an id, when they are the first n of the queue.
LEMMA UpToIs ==
    ASSUME NEW q \in Seq(Batch), NEW n \in 0..Len(q), NEW id \in Int,
           \A i \in DOMAIN q : i <= n <=> q[i].id <= id
    PROVE  UpTo(q, id) = n
  <1>1. Len(q) \in Nat /\ DOMAIN q = 1..Len(q)
    BY LenProperties
  <1>2. {i \in DOMAIN q : q[i].id <= id} = 1..n
    BY <1>1
  <1>3. Cardinality(1..n) = n
    <2>1. n \in Nat /\ 1 \in Int
      BY <1>1
    <2>2. Cardinality(1..n) = IF 1 > n THEN 0 ELSE n - 1 + 1
      BY <2>1, FS_Interval
    <2> QED  BY <2>1, <2>2
  <1> QED  BY <1>2, <1>3 DEF UpTo

\* A pipeline that holds the first batches of a queue is filled up with the next.
FullLength(s, q) == IF s.enabled THEN Smaller(MaxPendingWrites, Len(q)) ELSE 0

\* FillWritePipeline takes from the queue what follows the pipeline, up to the limit.
LEMMA TakenNext ==
    ASSUME NEW s \in Remote, NEW q \in Seq(Batch), Ascending(q), NEW n \in 0..Len(q),
           s.pipeline = SubSeq(q, 1, n), n <= MaxPendingWrites, ~s.enabled => n = 0
    PROVE  /\ Len(s.pipeline) = n /\ FullLength(s, q) \in n..Len(q)
           /\ Taken(s, q) = SubSeq(q, n + 1, FullLength(s, q))
           /\ Taken(s, q) \in Seq(Batch)
           /\ s.pipeline \o Taken(s, q) = SubSeq(q, 1, FullLength(s, q))
  <1> DEFINE k == FullLength(s, q)
  <1>0. /\ s.enabled => k = Smaller(MaxPendingWrites, Len(q))
        /\ ~s.enabled => k = 0
    BY DEF FullLength
  <1> HIDE DEF k
  <1>1. Len(q) \in Nat /\ DOMAIN q = 1..Len(q) /\ MaxPendingWrites \in Nat \ {0}
        /\ \A i \in 1..Len(q) : q[i] \in Batch /\ q[i].id \in Int
    <2>1. Len(q) \in Nat /\ DOMAIN q = 1..Len(q)
      BY LenProperties
    <2>2. \A i \in 1..Len(q) : q[i] \in Batch
      BY ElementOfSeq
    <2> QED  BY <2>1, <2>2, PipelineAssumption DEF Batch
  <1>2. s.pipeline \in Seq(Batch) /\ Len(s.pipeline) = n /\ (n = 0 <=> s.pipeline = <<>>)
        /\ \A i \in 1..n : s.pipeline[i] = q[i]
    <2>1. \A i \in 1..n : q[i] \in Batch
      BY <1>1
    <2>2. /\ SubSeq(q, 1, n) \in Seq(Batch)
          /\ Len(SubSeq(q, 1, n)) = IF 1 <= n THEN n - 1 + 1 ELSE 0
          /\ \A i \in 1..n-1+1 : SubSeq(q, 1, n)[i] = q[1 + i - 1]
      BY <1>1, <2>1, SubSeqProperties
    <2>3. \A i \in 1..n : SubSeq(q, 1, n)[i] = q[i]
      BY <1>1, <2>2
    <2> QED  BY <1>1, <2>2, <2>3, EmptySeq
  <1>3. k \in n..Len(q)
    <2>1. CASE s.enabled
      <3>1. k = Smaller(MaxPendingWrites, Len(q))
        BY <1>0, <2>1
      <3> QED  BY <1>1, <3>1, SmallerIs
    <2>2. CASE ~s.enabled
      BY <1>0, <1>1, <2>2
    <2> QED  BY <2>1, <2>2
  <1>4. n # 0 => UpTo(q, s.pipeline[Len(s.pipeline)].id) = n
    <2> SUFFICES ASSUME n # 0 PROVE UpTo(q, q[n].id) = n
      BY <1>1, <1>2
    <2>1. \A i \in DOMAIN q : i <= n <=> q[i].id <= q[n].id
      BY <1>1 DEF Ascending
    <2>2. q[n].id \in Int
      BY <1>1
    <2> QED  BY <2>1, <2>2, UpToIs
  <1> DEFINE m == IF s.pipeline = <<>> THEN 0 ELSE UpTo(q, s.pipeline[Len(s.pipeline)].id)
             room == IF s.enabled THEN MaxPendingWrites - Len(s.pipeline) ELSE 0
  <1>5. m = n
    BY <1>2, <1>4
  <1>6. Smaller(m + room, Len(q)) = k
    <2>1. CASE s.enabled
      <3>1. room = MaxPendingWrites - n /\ k = Smaller(MaxPendingWrites, Len(q))
        BY <1>0, <1>2, <2>1
      <3>2. m + room = MaxPendingWrites
        BY <1>1, <1>5, <3>1
      <3> QED  BY <3>1, <3>2
    <2>2. CASE ~s.enabled
      <3>1. room = 0 /\ k = 0 /\ n = 0
        BY <1>0, <2>2
      <3>2. m + room = 0 /\ 0 <= Len(q) /\ Len(q) \in Int
        BY <1>1, <1>5, <3>1
      <3> QED  BY <3>1, <3>2, SmallerIs DEF Smaller
    <2> QED  BY <2>1, <2>2
  <1>7. Taken(s, q) = SubSeq(q, n + 1, k)
    <2>1. Taken(s, q) = SubSeq(q, m + 1, Smaller(m + room, Len(q)))
      BY DEF Taken
    <2> QED  BY <1>5, <1>6, <2>1
  <1>8. SubSeq(q, n + 1, k) \in Seq(Batch) /\ Len(SubSeq(q, n + 1, k)) = k - n
    <2>1. n + 1 \in Int /\ k \in Int /\ \A i \in n + 1 .. k : q[i] \in Batch
      BY <1>1, <1>3
    <2>2. /\ SubSeq(q, n + 1, k) \in Seq(Batch)
          /\ Len(SubSeq(q, n + 1, k)) = IF n + 1 <= k THEN k - (n + 1) + 1 ELSE 0
      BY <2>1, SubSeqProperties
    <2> QED  BY <1>1, <1>3, <2>2
  <1>9. SubSeq(q, 1, n) \o SubSeq(q, n + 1, k) = SubSeq(q, 1, k)
    <2>1. 1 \in 1 .. Len(q) + 1 /\ n \in 1 - 1 .. Len(q) /\ k \in n .. Len(q)
      BY <1>1, <1>3
    <2> QED  BY <2>1, ConcatAdjacentSubSeq
  <1> QED  BY <1>2, <1>3, <1>7, <1>8, <1>9 DEF k

--------------------------------------------------------------------------------
(* The write stream.                                                       *)

\* What a request for a token under way can tell of a change of the stream: the
\* stream goes on with what it waits for, or waits for none of the old tokens and may
\* have asked for a new one.
Restarts(s, t) ==
    /\ t.closeCount > s.closeCount \/ (t.closeCount = s.closeCount /\ s.state # "Starting")
    /\ \/ t.asks = s.asks
       \/ /\ t.asks = s.asks \cup {[close |-> t.closeCount, counter |-> counter]}
          /\ t.state = "Starting"

Moves(s, t) ==
    \/ t.closeCount = s.closeCount /\ t.asks = s.asks /\ t.state = s.state
    \/ Restarts(s, t)

\* An assertion that holds changes nothing.
LEMMA AssertHolds ==
    ASSUME NEW s \in Remote, NEW c, c
    PROVE  HardAssert(s, c) = s
  <1>1. (s.ok /\ c) = s.ok
    <2>1. s.ok \in BOOLEAN
      BY DEF Remote
    <2> QED  BY <2>1, Zenon
  <1>2. HardAssert(s, c) = [s EXCEPT !.ok = s.ok]
    BY <1>1, Zenon DEF HardAssert
  <1> QED  BY <1>2 DEF Remote

\* Starting a stream that is not started changes its state and asks for a token.
LEMMA StartIs ==
    ASSUME NEW s \in Remote, ~Started(s), counter \in Nat
    PROVE  /\ Start(s) \in Remote /\ Started(Start(s)) /\ Start(s).state # "Open"
           /\ s.ok => Start(s).ok
           /\ Moves(s, Start(s)) /\ Start(s).closeCount = s.closeCount
           /\ Start(s).enabled = s.enabled /\ Start(s).pipeline = s.pipeline
           /\ Start(s).idle = s.idle /\ Start(s).handshake = s.handshake
           /\ Start(s).token = s.token /\ Start(s).conn = s.conn
  <1>1. CASE s.state = "Error"
    <2>1. Start(s) = [s EXCEPT !.state = "Backoff"]
      BY <1>1 DEF Start
    <2>2. Start(s) \in Remote
      BY <2>1 DEF Remote
    <2>3. /\ Start(s).state = "Backoff" /\ Start(s).ok = s.ok /\ Start(s).asks = s.asks
          /\ Start(s).closeCount = s.closeCount
          /\ Start(s).enabled = s.enabled /\ Start(s).pipeline = s.pipeline
          /\ Start(s).idle = s.idle /\ Start(s).handshake = s.handshake
          /\ Start(s).token = s.token /\ Start(s).conn = s.conn
      BY <2>1 DEF Remote
    <2> QED  BY <2>2, <2>3 DEF Started, Moves, Restarts
  <1>2. CASE s.state = "Initial"
    <2> DEFINE a == [close |-> s.closeCount, counter |-> counter]
    <2>0. HardAssert(s, s.state = "Initial") = s
      BY <1>2, AssertHolds
    <2>1. Start(s) = [s EXCEPT !.state = "Starting", !.asks = @ \cup {a}]
      BY <1>2, <2>0 DEF Start
    <2>2. a \in Ask
      BY DEF Ask, Remote
    <2> HIDE DEF a
    <2>3. Start(s) \in Remote
      <3>1. s.asks \cup {a} \in SUBSET Ask
        BY <2>2 DEF Remote
      <3>2. Start(s) = [s EXCEPT !.state = "Starting", !.asks = s.asks \cup {a}]
        BY <2>1
      <3> QED  BY <3>1, <3>2 DEF Remote
    <2>4. /\ Start(s).state = "Starting" /\ (s.ok => Start(s).ok) /\ Start(s).asks = s.asks \cup {a}
          /\ Start(s).closeCount = s.closeCount
          /\ Start(s).enabled = s.enabled /\ Start(s).pipeline = s.pipeline
          /\ Start(s).idle = s.idle /\ Start(s).handshake = s.handshake
          /\ Start(s).token = s.token /\ Start(s).conn = s.conn
      BY <1>2, <2>1 DEF Remote
    <2> QED  BY <2>3, <2>4 DEF Started, Moves, Restarts, a
  <1> QED  BY <1>1, <1>2 DEF Started, Remote

\* A stream that is needed is started, any other left alone.
LEMMA StartIfNeededIs ==
    ASSUME NEW s \in Remote, counter \in Nat, NEW t, t = StartIfNeeded(s)
    PROVE  /\ t \in Remote /\ (s.ok => t.ok) /\ Moves(s, t) /\ ~ShouldStartWriteStream(t)
           /\ t.closeCount = s.closeCount
           /\ t.enabled = s.enabled /\ t.pipeline = s.pipeline
           /\ t.idle = s.idle /\ t.handshake = s.handshake
           /\ t.token = s.token /\ t.conn = s.conn
           /\ \/ t.state = s.state
              \/ /\ s.enabled /\ s.pipeline # <<>> /\ ~Started(s)
                 /\ Started(t) /\ t.state # "Open"
  <1>1. CASE ShouldStartWriteStream(s)
    <2>1. t = Start(s) /\ s.enabled /\ ~Started(s) /\ s.pipeline # <<>>
      BY <1>1 DEF StartIfNeeded, ShouldStartWriteStream
    <2> QED  BY <2>1, StartIs DEF ShouldStartWriteStream
  <1>2. CASE ~ShouldStartWriteStream(s)
    <2>1. t = s
      BY <1>2 DEF StartIfNeeded
    <2> QED  BY <1>2, <2>1 DEF Moves, Restarts
  <1> QED  BY <1>1, <1>2

\* Requests go to the call there is.
LEMMA SendIs ==
    ASSUME NEW s \in Remote, s.conn # NoConn, NEW r \in Seq(Request), NEW t, t = Send(s, r)
    PROVE  /\ t \in Remote /\ t.conn \in Conn /\ t.conn # NoConn
           /\ t.ok = s.ok /\ t.closeCount = s.closeCount /\ t.asks = s.asks
           /\ t.enabled = s.enabled /\ t.pipeline = s.pipeline
           /\ t.state = s.state /\ t.handshake = s.handshake
           /\ t.token = s.token /\ (t.idle => s.idle) /\ (t.idle => r = <<>>)
           /\ t.conn.user = s.conn.user /\ t.conn.responses = s.conn.responses
           /\ t.conn.status = s.conn.status
           /\ t.conn.requests = s.conn.requests \o r
  <1>1. s.conn \in Conn /\ s.conn.requests \in Seq(Request)
    BY DEF Remote, Conn
  <1>2. s.conn.requests \o r \in Seq(Request)
    BY <1>1, ConcatProperties
  <1>3. CASE r = <<>>
    <2>1. t = s /\ s.conn.requests \o r = s.conn.requests
      BY <1>1, <1>3, ConcatEmptySeq DEF Send
    <2> QED  BY <1>1, <1>3, <2>1
  <1>4. CASE r # <<>>
    <2> DEFINE c == [s.conn EXCEPT !.requests = s.conn.requests \o r]
    <2>1. t = [s EXCEPT !.idle = FALSE, !.conn = c]
      BY <1>4 DEF Send
    <2>2. /\ c \in Conn /\ c.user = s.conn.user /\ c.responses = s.conn.responses
          /\ c.status = s.conn.status /\ c.requests = s.conn.requests \o r
      BY <1>1, <1>2 DEF Conn
    <2> HIDE DEF c
    <2>3. t \in Remote
      BY <2>1, <2>2 DEF Remote
    <2>4. /\ t.conn = c /\ t.ok = s.ok /\ t.closeCount = s.closeCount /\ t.asks = s.asks
          /\ t.enabled = s.enabled /\ t.pipeline = s.pipeline
          /\ t.state = s.state /\ t.handshake = s.handshake
          /\ t.token = s.token /\ t.idle = FALSE
      BY <2>1 DEF Remote
    <2> QED  BY <2>2, <2>3, <2>4, ConnAssumption
  <1> QED  BY <1>3, <1>4

\* What FillWritePipeline adds to the pipeline it also sends, after the rest.
LEMMA FillMatches ==
    ASSUME NEW s \in Remote, NEW no, CallMatches(s, no), NEW more \in Seq(Batch), NEW t,
           t.pipeline = s.pipeline \o more, t.handshake = s.handshake,
           (t.conn = NoConn) = (s.conn = NoConn),
           s.conn # NoConn =>
                 /\ t.conn \in Conn
                 /\ t.conn.responses = s.conn.responses /\ t.conn.status = s.conn.status
                 /\ t.conn.requests = IF s.handshake THEN s.conn.requests \o more
                                      ELSE s.conn.requests
    PROVE  CallMatches(t, no)
  <1> SUFFICES ASSUME s.conn # NoConn, t.conn # NoConn PROVE CallMatches(t, no)
    BY DEF CallMatches
  <1>1. /\ s.pipeline \in Seq(Batch) /\ s.conn.responses \in Seq(Request)
        /\ s.conn.requests \in Seq(Request) /\ more \in Seq(Request)
        /\ s.pipeline \in Seq(Request)
    BY SeqMonotonic DEF Remote, Conn, Request
  <1> DEFINE a == s.conn.responses
             b == s.conn.requests
             p == s.pipeline
  <1>2. /\ t.conn.responses = a /\ t.pipeline = p \o more
        /\ t.conn.requests = IF s.handshake THEN b \o more ELSE b
    OBVIOUS
  <1>3. a \in Seq(Request) /\ b \in Seq(Request) /\ p \in Seq(Request)
    BY <1>1
  <1>4. CASE ~s.handshake
    BY <1>2, <1>4 DEF CallMatches
  <1>5. CASE s.handshake
    <2>1. CASE s.conn.status = "open"
      <3>1. a \o b = p
        BY <1>5, <2>1 DEF CallMatches
      <3> HIDE DEF a, b, p
      <3>2. a \o (b \o more) = (a \o b) \o more
        <4>1. more \in Seq(Request)
          BY <1>1
        <4>2. \A x, y, z \in Seq(Request) : (x \o y) \o z = x \o (y \o z)
          BY ConcatAssociative
        <4>3. a \in Seq(Request) /\ b \in Seq(Request)
          BY <1>3
        <4> QED  BY <4>1, <4>2, <4>3, Zenon
      <3> QED  BY <1>2, <1>5, <2>1, <3>1, <3>2 DEF CallMatches
    <2>2. CASE s.conn.status = "permanent"
      <3>1. Len(p) = Len(a) + Len(b) + 1 /\ a = SubSeq(p, 1, Len(a)) /\ p[Len(a) + 1].w \in no
        BY <1>5, <2>2 DEF CallMatches
      <3> HIDE DEF a, b, p
      <3>2. Len(a) \in Nat /\ Len(b) \in Nat /\ Len(p) \in Nat /\ Len(more) \in Nat
        BY <1>1, <1>3, LenProperties
      <3>3. /\ p \o more \in Seq(Request) /\ Len(p \o more) = Len(p) + Len(more)
            /\ \A i \in 1..Len(p) : (p \o more)[i] = p[i]
        BY <1>1, <1>3, <3>2, ConcatProperties
      <3>4. Len(b \o more) = Len(b) + Len(more)
        BY <1>1, <1>3, ConcatProperties
      <3>5. (p \o more)[Len(a) + 1].w \in no
        BY <3>1, <3>2, <3>3
      <3>6. SubSeq(p \o more, 1, Len(a)) = SubSeq(p, 1, Len(a))
        <4>1. 1 \in 1 .. Len(p) + 1 /\ Len(a) \in 1 - 1 .. Len(p)
              /\ 1 \in 1 .. Len(p \o more) + 1 /\ Len(a) \in 1 - 1 .. Len(p \o more)
          BY <3>1, <3>2, <3>3
        <4>2. /\ SubSeq(p, 1, Len(a)) \in Seq(Request)
              /\ Len(SubSeq(p, 1, Len(a))) = Len(a) - 1 + 1
              /\ \A i \in 1 .. Len(a) - 1 + 1 : SubSeq(p, 1, Len(a))[i] = p[1 + i - 1]
          BY <1>3, <4>1, SubSeqLen, SubSeqItems
        <4>3. /\ SubSeq(p \o more, 1, Len(a)) \in Seq(Request)
              /\ Len(SubSeq(p \o more, 1, Len(a))) = Len(a) - 1 + 1
              /\ \A i \in 1 .. Len(a) - 1 + 1 :
                    SubSeq(p \o more, 1, Len(a))[i] = (p \o more)[1 + i - 1]
          BY <3>3, <4>1, SubSeqLen, SubSeqItems
        <4>4. \A i \in 1..Len(a) : SubSeq(p \o more, 1, Len(a))[i] = SubSeq(p, 1, Len(a))[i]
          BY <3>1, <3>2, <3>3, <4>2, <4>3
        <4> DEFINE x == SubSeq(p \o more, 1, Len(a))
                   y == SubSeq(p, 1, Len(a))
        <4>5. x \in Seq(Request) /\ y \in Seq(Request) /\ Len(x) = Len(y) /\ Len(x) = Len(a)
          <5>1. Len(x) = Len(a) - 1 + 1 /\ Len(y) = Len(a) - 1 + 1
            BY <4>2, <4>3
          <5>2. x \in Seq(Request) /\ y \in Seq(Request)
            BY <4>2, <4>3
          <5> HIDE DEF x, y
          <5> QED  BY <3>2, <5>1, <5>2
        <4>6. \A i \in 1..Len(x) : x[i] = y[i]
          BY <4>4, <4>5
        <4> HIDE DEF x, y
        <4>7. x = y
          BY <4>5, <4>6, SeqEqual
        <4> QED  BY <4>7 DEF x, y
      <3>7. Len(p \o more) = Len(a) + Len(b \o more) + 1
        BY <3>1, <3>2, <3>3, <3>4
      <3> QED  BY <1>2, <1>5, <2>2, <3>1, <3>5, <3>6, <3>7 DEF CallMatches
    <2>3. CASE s.conn.status = "transient"
      BY <1>2, <1>5, <2>3 DEF CallMatches
    <2>4. s.conn.status \in {"open", "permanent", "transient"}
      BY DEF Remote, Conn, Status
    <2> QED  BY <2>1, <2>2, <2>3, <2>4
  <1> QED  BY <1>4, <1>5

\* FillWritePipeline: the pipeline is full, what is new in it is sent if the stream
\* is usable, and the stream is started or left to idle.
LEMMA FillIs ==
    ASSUME NEW s \in Remote, Sound(s), NEW q \in Seq(Batch), Ascending(q),
           NEW n \in 0..Len(q), s.pipeline = SubSeq(q, 1, n), n <= MaxPendingWrites,
           counter \in Nat, NEW no, CallMatches(s, no), NEW u, NEW is, OwnCall(s, u, is),
           OfUser(q, u, is), NEW t, t = FillWritePipeline(s, q)
    PROVE  /\ t \in Remote /\ Sound(t) /\ Full(t, q) /\ Moves(s, t)
           /\ t.closeCount = s.closeCount /\ t.enabled = s.enabled
           /\ t.handshake = s.handshake /\ t.token = s.token
           /\ (t.conn = NoConn) = (s.conn = NoConn)
           /\ CallMatches(t, no) /\ OwnCall(t, u, is)
  <1> DEFINE more == Taken(s, q)
             k == FullLength(s, q)
             a == [s EXCEPT !.pipeline = s.pipeline \o more]
             b == IF a.pipeline = <<>> /\ s.enabled THEN MarkIdle(a)
                  ELSE IF Usable(a) THEN Send(a, more) ELSE a
  <1>0. Len(q) \in Nat /\ (s.conn # NoConn => s.conn \in Conn)
    BY LenProperties DEF Remote
  <1>1. t = StartIfNeeded(b)
    BY DEF FillWritePipeline
  <1>2. ~s.enabled => n = 0
    <2>1. ~s.enabled => SubSeq(q, 1, n) = <<>>
      BY DEF Sound
    <2>2. Len(SubSeq(q, 1, n)) = n
      BY <1>0, SubSeqLen
    <2> QED  BY <2>1, <2>2, EmptySeq
  <1>3. /\ Len(s.pipeline) = n /\ k \in n..Len(q)
        /\ more = SubSeq(q, n + 1, k) /\ more \in Seq(Batch)
        /\ s.pipeline \o more = SubSeq(q, 1, k)
    BY <1>2, TakenNext
  <1>4. \A i \in DOMAIN more : \E j \in DOMAIN q : more[i] = q[j]
    <2>1. n + 1 \in 1 .. Len(q) + 1 /\ k \in (n + 1) - 1 .. Len(q)
      BY <1>0, <1>3
    <2>2. /\ DOMAIN SubSeq(q, n + 1, k) = 1 .. k - (n + 1) + 1
          /\ \A i \in 1 .. k - (n + 1) + 1 : SubSeq(q, n + 1, k)[i] = q[(n + 1) + i - 1]
      BY <2>1, SubSeqItems
    <2>3. DOMAIN q = 1 .. Len(q)
      BY LenProperties
    <2>4. \A i \in 1 .. k - (n + 1) + 1 : (n + 1) + i - 1 \in DOMAIN q
      BY <1>0, <1>3, <2>3
    <2> QED  BY <1>3, <2>2, <2>4
  <1>5. s.pipeline \in Seq(Batch) /\ s.pipeline \o more \in Seq(Batch)
        /\ (s.pipeline \o more = <<>> => s.pipeline = <<>> /\ more = <<>>)
        /\ (more = <<>> => s.pipeline \o more = s.pipeline)
    <2>1. s.pipeline \in Seq(Batch)
      BY DEF Remote
    <2>2. more \in Seq(Batch)
      BY <1>3
    <2> HIDE DEF more
    <2>3. s.pipeline \o more \in Seq(Batch)
      BY <2>1, <2>2, ConcatProperties
    <2>4. s.pipeline \o more = <<>> => s.pipeline = <<>> /\ more = <<>>
      BY <2>1, <2>2, ConcatEqualIffEmpty
    <2>5. s.pipeline \o <<>> = s.pipeline
      BY <2>1, ConcatEmptySeq
    <2> QED  BY <2>1, <2>3, <2>4, <2>5
  <1> HIDE DEF more, k
  <1>6. /\ a \in Remote /\ a.pipeline = s.pipeline \o more
        /\ a.ok = s.ok /\ a.closeCount = s.closeCount /\ a.asks = s.asks /\ a.state = s.state
        /\ a.enabled = s.enabled /\ a.idle = s.idle /\ a.handshake = s.handshake
        /\ a.token = s.token /\ a.conn = s.conn
    BY <1>5 DEF Remote
  <1> HIDE DEF a
  <1>7. /\ b \in Remote /\ b.pipeline = s.pipeline \o more
        /\ b.ok = s.ok /\ b.closeCount = s.closeCount /\ b.asks = s.asks /\ b.state = s.state
        /\ b.enabled = s.enabled /\ b.handshake = s.handshake /\ b.token = s.token
        /\ (b.conn = NoConn) = (s.conn = NoConn)
        /\ b.idle => b.pipeline = <<>> /\ b.state = "Open"
        /\ s.conn # NoConn =>
              /\ b.conn \in Conn /\ b.conn.user = s.conn.user
              /\ b.conn.responses = s.conn.responses /\ b.conn.status = s.conn.status
              /\ b.conn.requests = IF s.handshake THEN s.conn.requests \o more
                                   ELSE s.conn.requests
    <2>a. /\ more = <<>> /\ s.conn # NoConn => s.conn.requests = s.conn.requests \o more
      BY <1>0, <1>5, ConcatEmptySeq DEF Conn
    <2>1. CASE a.pipeline = <<>> /\ s.enabled
      <3>1. b = [a EXCEPT !.idle = a.idle \/ a.state = "Open"]
        BY <2>1 DEF MarkIdle
      <3>2. b \in Remote
        <4>1. (a.idle \/ a.state = "Open") \in BOOLEAN
          OBVIOUS
        <4> QED  BY <3>1, <4>1, <1>6 DEF Remote
      <3>3. /\ b.pipeline = a.pipeline /\ b.idle = (a.idle \/ a.state = "Open")
            /\ b.ok = a.ok /\ b.closeCount = a.closeCount /\ b.asks = a.asks /\ b.state = a.state
            /\ b.enabled = a.enabled /\ b.handshake = a.handshake
            /\ b.token = a.token /\ b.conn = a.conn
        BY <3>1, <1>6 DEF Remote
      <3>4. b.idle => b.pipeline = <<>> /\ b.state = "Open"
        BY <2>1, <3>3, <1>6 DEF Sound
      <3> HIDE DEF b
      <3> QED  BY <1>0, <1>5, <1>6, <2>1, <2>a, <3>2, <3>3, <3>4
    <2>2. CASE ~(a.pipeline = <<>> /\ s.enabled) /\ Usable(a)
      <3>1. b = Send(a, more) /\ s.handshake /\ a.conn # NoConn
        BY <2>2, <1>6 DEF Usable, Sound
      <3> HIDE DEF b
      <3>2. more \in Seq(Request)
        BY <1>3, SeqMonotonic DEF Request
      <3>3. /\ b \in Remote /\ b.conn \in Conn /\ b.conn # NoConn
            /\ b.ok = a.ok /\ b.closeCount = a.closeCount /\ b.asks = a.asks
            /\ b.enabled = a.enabled /\ b.pipeline = a.pipeline
            /\ b.state = a.state /\ b.handshake = a.handshake
            /\ b.token = a.token /\ (b.idle => a.idle) /\ (b.idle => more = <<>>)
            /\ b.conn.user = a.conn.user /\ b.conn.responses = a.conn.responses
            /\ b.conn.status = a.conn.status
            /\ b.conn.requests = a.conn.requests \o more
        <4>1. a \in Remote /\ a.conn # NoConn /\ b = Send(a, more)
          BY <1>6, <3>1
        <4>2. b \in Remote /\ b.conn \in Conn /\ b.conn # NoConn
          BY <4>1, <3>2, SendIs
        <4>3. /\ b.ok = a.ok /\ b.closeCount = a.closeCount /\ b.asks = a.asks
              /\ b.enabled = a.enabled /\ b.pipeline = a.pipeline
              /\ b.state = a.state /\ b.handshake = a.handshake
          BY <4>1, <3>2, SendIs
        <4>4. b.token = a.token /\ (b.idle => a.idle) /\ (b.idle => more = <<>>)
          BY <4>1, <3>2, SendIs
        <4>5. /\ b.conn.user = a.conn.user /\ b.conn.responses = a.conn.responses
              /\ b.conn.status = a.conn.status
              /\ b.conn.requests = a.conn.requests \o more
          BY <4>1, <3>2, SendIs
        <4> QED  BY <4>2, <4>3, <4>4, <4>5
      <3>4. b.idle => b.pipeline = <<>> /\ b.state = "Open"
        BY <1>5, <1>6, <3>3 DEF Sound
      <3> QED  BY <1>6, <3>1, <3>3, <3>4
    <2>3. CASE ~(a.pipeline = <<>> /\ s.enabled) /\ ~Usable(a)
      <3>1. b = a
        BY <2>3
      <3>2. ~s.handshake /\ ~s.idle
        <4>1. ~Usable(s)
          BY <2>3, <1>6 DEF Usable
        <4> QED  BY <4>1 DEF Sound, Usable, Started
      <3> HIDE DEF b
      <3> QED  BY <1>0, <1>6, <3>1, <3>2
    <2> QED  BY <2>1, <2>2, <2>3
  <1> HIDE DEF b
  <1>8. /\ t \in Remote /\ (b.ok => t.ok) /\ Moves(b, t) /\ ~ShouldStartWriteStream(t)
        /\ t.closeCount = b.closeCount
        /\ t.enabled = b.enabled /\ t.pipeline = b.pipeline
        /\ t.idle = b.idle /\ t.handshake = b.handshake
        /\ t.token = b.token /\ t.conn = b.conn
        /\ \/ t.state = b.state
           \/ /\ b.enabled /\ b.pipeline # <<>> /\ ~Started(b)
              /\ Started(t) /\ t.state # "Open"
    BY <1>1, <1>7, StartIfNeededIs
  <1>9. Moves(s, t)
    BY <1>7, <1>8 DEF Moves, Restarts, Started
  <1>10. Full(t, q)
    <2>1. s.enabled => k = Smaller(MaxPendingWrites, Len(q))
      BY DEF k, FullLength
    <2>2. ~s.enabled => s.pipeline \o more = <<>>
      <3>1. ~s.enabled => k = 0
        BY DEF k, FullLength
      <3> QED  BY <1>3, <3>1, <1>0, SubSeqEmpty
    <2> QED  BY <1>3, <1>7, <1>8, <2>1, <2>2 DEF Full
  <1>11. Sound(t)
    <2>1. t.ok
      BY <1>7, <1>8 DEF Sound
    <2>2. (t.state = "Open") <=> (t.conn # NoConn)
      BY <1>7, <1>8 DEF Sound, Started
    <2>3. (Started(t) => t.enabled) /\ (~t.enabled => t.pipeline = <<>>)
      BY <1>7, <1>8, <1>10 DEF Sound, Started, Full
    <2>4. t.handshake => t.state = "Open"
      BY <1>7, <1>8 DEF Sound, Started
    <2>5. Started(t) /\ ~Usable(t) => t.pipeline # <<>>
      BY <1>5, <1>7, <1>8 DEF Sound, Started, Usable
    <2>6. t.idle => t.pipeline = <<>> /\ t.state = "Open"
      BY <1>7, <1>8 DEF Started
    <2> QED  BY <2>1, <2>2, <2>3, <2>4, <2>5, <2>6 DEF Sound
  <1>12. /\ t.closeCount = s.closeCount /\ t.enabled = s.enabled
         /\ t.handshake = s.handshake /\ t.token = s.token
         /\ (t.conn = NoConn) = (s.conn = NoConn)
         /\ more \in Seq(Batch)
         /\ t.pipeline = s.pipeline \o more
         /\ s.conn # NoConn =>
              /\ t.conn \in Conn /\ t.conn.user = s.conn.user
              /\ t.conn.responses = s.conn.responses /\ t.conn.status = s.conn.status
              /\ t.conn.requests = IF s.handshake THEN s.conn.requests \o more
                                   ELSE s.conn.requests
    BY <1>3, <1>7, <1>8
  <1>13. CallMatches(t, no)
    BY <1>12, FillMatches
  <1>14. \A i \in DOMAIN more : more[i].w \in DOMAIN is /\ is[more[i].w] = u
    BY <1>4 DEF OfUser
  <1>15. ASSUME s.conn # NoConn, NEW i \in DOMAIN t.conn.requests,
               t.conn.requests[i] # Handshake
        PROVE  t.conn.requests[i].w \in DOMAIN is /\ is[t.conn.requests[i].w] = u
    <2>1. s.conn.requests \in Seq(Request) /\ more \in Seq(Request)
      BY <1>12, <1>15, SeqMonotonic DEF Remote, Conn, Request
    <2> DEFINE due == s.conn.requests
    <2>2. \A j \in DOMAIN due : due[j] # Handshake => due[j].w \in DOMAIN is /\ is[due[j].w] = u
      BY <1>15 DEF OwnCall
    <2>3. t.conn.requests = IF s.handshake THEN due \o more ELSE due
      BY <1>12, <1>15
    <2>4. due \in Seq(Request)
      BY <2>1
    <2> HIDE DEF due
    <2>5. CASE ~s.handshake
      BY <1>15, <2>2, <2>3, <2>5
    <2>6. CASE s.handshake
      <3>1. /\ due \o more \in Seq(Request) /\ Len(due \o more) = Len(due) + Len(more)
            /\ \A j \in 1..Len(due) : (due \o more)[j] = due[j]
            /\ \A j \in 1..Len(more) : (due \o more)[Len(due) + j] = more[j]
        BY <2>1, <2>4, ConcatProperties
      <3>2. /\ Len(due) \in Nat /\ Len(more) \in Nat /\ DOMAIN due = 1..Len(due)
            /\ DOMAIN more = 1..Len(more) /\ DOMAIN (due \o more) = 1 .. Len(due) + Len(more)
        BY <2>1, <2>4, <3>1, LenProperties
      <3>3. t.conn.requests = due \o more
        BY <2>3, <2>6
      <3>4. CASE i \in 1..Len(due)
        BY <1>15, <2>2, <3>1, <3>2, <3>3, <3>4
      <3>5. CASE i \notin 1..Len(due)
        <4>1. i - Len(due) \in 1..Len(more) /\ i = Len(due) + (i - Len(due))
          BY <3>2, <3>3, <3>5
        <4>2. (due \o more)[i] = more[i - Len(due)]
          BY <3>1, <4>1
        <4> QED  BY <1>14, <3>2, <3>3, <4>1, <4>2
      <3> QED  BY <3>4, <3>5
    <2> QED  BY <2>5, <2>6
  <1>16. OwnCall(t, u, is)
    BY <1>12, <1>15 DEF OwnCall
  <1> QED  BY <1>9, <1>10, <1>11, <1>8, <1>12, <1>13, <1>16

\* Stream::Close, of a started stream.
LEMMA ClosedIs ==
    ASSUME NEW s \in Remote, Started(s), NEW state \in {"Error", "Initial"},
           NEW t, t = Closed(s, state)
    PROVE  /\ t \in Remote /\ t.ok = s.ok /\ ~t.idle /\ t.closeCount = s.closeCount + 1
           /\ t.conn = NoConn /\ t.state = state /\ ~Started(t)
           /\ t.enabled = s.enabled /\ t.pipeline = s.pipeline /\ t.asks = s.asks
           /\ t.handshake = s.handshake /\ t.token = s.token
  <1>1. t = [s EXCEPT !.idle = FALSE, !.closeCount = s.closeCount + 1,
                      !.conn = NoConn, !.state = state]
    BY AssertHolds DEF Closed
  <1>2. t \in Remote
    <2>1. s.closeCount + 1 \in Nat
      BY DEF Remote
    <2> DEFINE n == s.closeCount + 1
    <2>2. t = [s EXCEPT !.idle = FALSE, !.closeCount = n, !.conn = NoConn, !.state = state]
      BY <1>1
    <2>3. n \in Nat
      BY <2>1
    <2> HIDE DEF n
    <2> QED  BY <2>2, <2>3 DEF Remote
  <1>3. /\ t.ok = s.ok /\ t.idle = FALSE /\ t.closeCount = s.closeCount + 1
        /\ t.conn = NoConn /\ t.state = state
        /\ t.enabled = s.enabled /\ t.pipeline = s.pipeline /\ t.asks = s.asks
        /\ t.handshake = s.handshake /\ t.token = s.token
    BY <1>1 DEF Remote
  <1> QED  BY <1>2, <1>3 DEF Started

\* A stream that was closed is started again if it is needed.
LEMMA NotifiedIs ==
    ASSUME NEW s \in Remote, s.ok, ~Started(s), s.conn = NoConn, ~s.idle,
           ~s.enabled => s.pipeline = <<>>, counter \in Nat, NEW t, t = Notified(s)
    PROVE  /\ t \in Remote /\ Sound(t) /\ ~ShouldStartWriteStream(t) /\ Moves(s, t)
           /\ t.enabled = s.enabled /\ t.pipeline = s.pipeline /\ t.token = s.token
           /\ t.closeCount = s.closeCount /\ t.conn = NoConn
           /\ ~ShouldStartWriteStream(s) => ~Started(t) /\ t.asks = s.asks
  <1> DEFINE a == StartIfNeeded(s)
  <1>1. /\ a \in Remote /\ (s.ok => a.ok) /\ Moves(s, a) /\ ~ShouldStartWriteStream(a)
        /\ a.closeCount = s.closeCount
        /\ a.enabled = s.enabled /\ a.pipeline = s.pipeline
        /\ a.idle = s.idle /\ a.token = s.token /\ a.conn = s.conn
        /\ \/ a.state = s.state
           \/ /\ s.enabled /\ s.pipeline # <<>> /\ ~Started(s)
              /\ Started(a) /\ a.state # "Open"
    BY StartIfNeededIs
  <1>2. ~ShouldStartWriteStream(s) => a = s
    BY DEF StartIfNeeded
  <1>3. t = [a EXCEPT !.handshake = FALSE]
    BY DEF Notified
  <1> HIDE DEF a
  <1>4. t \in Remote
    BY <1>1, <1>3 DEF Remote
  <1>5. /\ t.ok = a.ok /\ t.closeCount = a.closeCount /\ t.asks = a.asks /\ t.state = a.state
        /\ t.enabled = a.enabled /\ t.pipeline = a.pipeline /\ t.handshake = FALSE
        /\ t.idle = a.idle /\ t.token = a.token /\ t.conn = a.conn
    BY <1>1, <1>3 DEF Remote
  <1>6. Moves(s, t) /\ ~ShouldStartWriteStream(t)
    BY <1>1, <1>5 DEF Moves, Restarts, ShouldStartWriteStream, Started
  <1>7. Sound(t)
    BY <1>1, <1>5 DEF Sound, Started, Usable
  <1> QED  BY <1>1, <1>2, <1>4, <1>5, <1>6, <1>7 DEF Started

\* Stream::Stop, of a stream that is not needed.
LEMMA StopIs ==
    ASSUME NEW s \in Remote, s.ok, (s.state = "Open") <=> (s.conn # NoConn),
           s.handshake => s.state = "Open", s.idle => s.state = "Open",
           ~s.enabled \/ s.pipeline = <<>>,
           counter \in Nat, NEW t, t = Stop(s)
    PROVE  /\ t \in Remote /\ t.ok /\ ~Started(t) /\ t.conn = NoConn /\ ~t.idle /\ ~t.handshake
           /\ t.enabled = s.enabled /\ t.pipeline = s.pipeline /\ t.token = s.token
           /\ t.asks = s.asks
           /\ \/ t.closeCount = s.closeCount /\ ~Started(s)
              \/ t.closeCount = s.closeCount + 1
  <1>1. CASE ~Started(s)
    <2>1. t = s
      BY <1>1 DEF Stop
    <2> QED  BY <1>1, <2>1 DEF Started, Remote
  <1>2. CASE Started(s)
    <2> DEFINE a == Closed(s, "Initial")
    <2>1. /\ a \in Remote /\ a.ok = s.ok /\ ~a.idle /\ a.closeCount = s.closeCount + 1
          /\ a.conn = NoConn /\ a.state = "Initial" /\ ~Started(a)
          /\ a.enabled = s.enabled /\ a.pipeline = s.pipeline /\ a.asks = s.asks
          /\ a.handshake = s.handshake /\ a.token = s.token
      BY <1>2, ClosedIs
    <2>2. t = Notified(HardAssert(a, ~ShouldStartWriteStream(a)))
      BY <1>2 DEF Stop
    <2> HIDE DEF a
    <2>3. ~ShouldStartWriteStream(a)
      BY <2>1 DEF ShouldStartWriteStream
    <2>4. t = Notified(a)
      BY <2>1, <2>2, <2>3, AssertHolds
    <2>5. t = [a EXCEPT !.handshake = FALSE]
      BY <2>3, <2>4 DEF Notified, StartIfNeeded
    <2>6. /\ t \in Remote /\ t.ok = a.ok /\ t.state = a.state /\ t.conn = a.conn
          /\ t.idle = a.idle /\ t.handshake = FALSE
          /\ t.enabled = a.enabled /\ t.pipeline = a.pipeline /\ t.token = a.token
          /\ t.asks = a.asks /\ t.closeCount = a.closeCount
      BY <2>1, <2>5 DEF Remote
    <2> QED  BY <2>1, <2>6 DEF Started
  <1> QED  BY <1>1, <1>2

\* DisableNetworkInternal: no stream, no pipeline.
LEMMA DisableIs ==
    ASSUME NEW s \in Remote, Sound(s), counter \in Nat, NEW t, t = DisableNetworkInternal(s)
    PROVE  /\ t \in Remote /\ Sound(t) /\ ~Started(t) /\ t.conn = NoConn
           /\ ~t.enabled /\ t.pipeline = <<>> /\ t.token = s.token
           /\ t.asks = s.asks
           /\ \/ t.closeCount = s.closeCount /\ ~Started(s)
              \/ t.closeCount = s.closeCount + 1
  <1> DEFINE a == [s EXCEPT !.enabled = FALSE]
             b == Stop(a)
  <1>1. /\ a \in Remote /\ a.ok = s.ok /\ a.state = s.state /\ a.conn = s.conn
        /\ a.handshake = s.handshake /\ a.idle = s.idle /\ a.enabled = FALSE
        /\ a.token = s.token /\ a.asks = s.asks /\ a.closeCount = s.closeCount
    BY DEF Remote
  <1>2. t = [b EXCEPT !.pipeline = <<>>]
    BY DEF DisableNetworkInternal
  <1> HIDE DEF a
  <1>3. /\ b \in Remote /\ b.ok /\ ~Started(b) /\ b.conn = NoConn /\ ~b.idle /\ ~b.handshake
        /\ b.enabled = a.enabled /\ b.token = a.token /\ b.asks = a.asks
        /\ \/ b.closeCount = a.closeCount /\ ~Started(a)
           \/ b.closeCount = a.closeCount + 1
    <2>1. /\ a.ok /\ ((a.state = "Open") <=> (a.conn # NoConn))
          /\ (a.handshake => a.state = "Open") /\ (a.idle => a.state = "Open") /\ ~a.enabled
      BY <1>1 DEF Sound
    <2> QED  BY <1>1, <2>1, StopIs
  <1> HIDE DEF b
  <1>4. t \in Remote
    <2>1. <<>> \in Seq(Batch)
      BY EmptySeq
    <2> QED  BY <1>2, <1>3, <2>1 DEF Remote
  <1>5. /\ t.ok = b.ok /\ t.state = b.state /\ t.conn = b.conn
        /\ t.handshake = b.handshake /\ t.idle = b.idle /\ t.enabled = b.enabled
        /\ t.token = b.token /\ t.asks = b.asks /\ t.closeCount = b.closeCount
        /\ t.pipeline = <<>>
    BY <1>2, <1>3 DEF Remote
  <1> QED  BY <1>1, <1>3, <1>4, <1>5 DEF Sound, Started

\* The stream has not been torn down in between.
SameStream(s, t) == t.closeCount = s.closeCount

\* EnableNetwork, of a store without stream or pipeline.
LEMMA EnableIs ==
    ASSUME NEW s \in Remote, Sound(s), s.pipeline = <<>>, s.conn = NoConn,
           NEW q \in Seq(Batch), Ascending(q),
           NEW u \in User, NEW token \in {u, NoToken}, counter \in Nat, NEW is, OfUser(q, u, is),
           NEW t, t = FillWritePipeline([s EXCEPT !.enabled = TRUE, !.token = token], q)
    PROVE  /\ t \in Remote /\ Sound(t) /\ Full(t, q) /\ Moves(s, t)
           /\ t.closeCount = s.closeCount /\ t.enabled /\ t.conn = NoConn
           /\ SameStream(s, t)
           /\ \A no : CallMatches(t, no)
           /\ OwnCall(t, u, is)
  <1> DEFINE a == [s EXCEPT !.enabled = TRUE, !.token = token]
  <1>1. /\ a \in Remote /\ a.ok = s.ok /\ a.state = s.state /\ a.conn = s.conn
        /\ a.handshake = s.handshake /\ a.idle = s.idle /\ a.enabled = TRUE
        /\ a.token = token /\ a.asks = s.asks /\ a.closeCount = s.closeCount
        /\ a.pipeline = s.pipeline
    BY DEF Remote
  <1>2. t = FillWritePipeline(a, q)
    OBVIOUS
  <1> HIDE DEF a
  <1>3. Sound(a)
    BY <1>1 DEF Sound, Started, Usable
  <1>4. a.pipeline = SubSeq(q, 1, 0) /\ 0 \in 0..Len(q) /\ 0 <= MaxPendingWrites
    BY <1>1, SubSeqEmpty, LenProperties, PipelineAssumption
  <1>5. CallMatches(a, {}) /\ OwnCall(a, u, is)
    BY <1>1 DEF CallMatches, OwnCall
  <1>6. /\ t \in Remote /\ Sound(t) /\ Full(t, q) /\ Moves(a, t)
        /\ t.closeCount = a.closeCount /\ t.enabled = a.enabled /\ t.token = a.token
        /\ (t.conn = NoConn) = (a.conn = NoConn)
        /\ OwnCall(t, u, is)
    BY <1>1, <1>2, <1>3, <1>4, <1>5, FillIs
  <1>7. Moves(s, t) /\ t.conn = NoConn
    BY <1>1, <1>6 DEF Moves, Restarts, Started
  <1> QED  BY <1>1, <1>6, <1>7 DEF CallMatches, SameStream

--------------------------------------------------------------------------------
(* The head of a queue.                                                    *)

\* The head and the tail of a queue that is not empty.
LEMMA TailIs ==
    ASSUME NEW S, NEW q \in Seq(S), q # <<>>
    PROVE  /\ Len(q) \in Nat \ {0} /\ DOMAIN q = 1..Len(q) /\ q[1] \in S /\ Head(q) = q[1]
           /\ Tail(q) \in Seq(S) /\ Len(Tail(q)) = Len(q) - 1
           /\ DOMAIN Tail(q) = 1 .. Len(q) - 1
           /\ \A i \in 1 .. Len(q) - 1 : Tail(q)[i] = q[i + 1]
  <1>1. Len(q) \in Nat /\ DOMAIN q = 1..Len(q) /\ Len(q) # 0
    BY LenProperties, EmptySeq
  <1>2. /\ Head(q) = q[1] /\ Tail(q) \in Seq(S) /\ Len(Tail(q)) = Len(q) - 1
        /\ \A i \in 1 .. Len(Tail(q)) : Tail(q)[i] = q[i + 1]
    BY HeadTailProperties
  <1>3. q[1] \in S
    BY <1>1, ElementOfSeq
  <1>4. DOMAIN Tail(q) = 1 .. Len(Tail(q))
    BY <1>2, LenProperties
  <1> QED  BY <1>1, <1>2, <1>3, <1>4

\* The tail of a queue's first batches is the first batches of its tail.
LEMMA TailOfFirst ==
    ASSUME NEW S, NEW q \in Seq(S), NEW n \in 1..Len(q)
    PROVE  Tail(SubSeq(q, 1, n)) = SubSeq(Tail(q), 1, n - 1)
  <1>1. Len(q) \in Nat /\ q # <<>>
    BY LenProperties, EmptySeq
  <1>2. /\ Tail(q) \in Seq(S) /\ Len(Tail(q)) = Len(q) - 1
        /\ \A i \in 1 .. Len(q) - 1 : Tail(q)[i] = q[i + 1]
    BY <1>1, TailIs
  <1> DEFINE p == SubSeq(q, 1, n)
             r == SubSeq(Tail(q), 1, n - 1)
  <1>3. /\ p \in Seq(S) /\ Len(p) = n /\ \A i \in 1..n : p[i] = q[i]
    <2>1. 1 \in 1 .. Len(q) + 1 /\ n \in 1 - 1 .. Len(q)
      BY <1>1
    <2>2. p \in Seq(S) /\ Len(p) = n - 1 + 1
      BY <2>1, SubSeqLen
    <2>3. \A i \in 1 .. n - 1 + 1 : p[i] = q[1 + i - 1]
      BY <2>1, SubSeqItems
    <2> QED  BY <1>1, <2>2, <2>3
  <1>4. /\ r \in Seq(S) /\ Len(r) = n - 1 /\ \A i \in 1 .. n - 1 : r[i] = q[i + 1]
    <2>1. 1 \in 1 .. Len(Tail(q)) + 1 /\ n - 1 \in 1 - 1 .. Len(Tail(q))
      BY <1>1, <1>2
    <2>2. r \in Seq(S) /\ Len(r) = (n - 1) - 1 + 1
      BY <1>2, <2>1, SubSeqLen
    <2>3. \A i \in 1 .. (n - 1) - 1 + 1 : r[i] = Tail(q)[1 + i - 1]
      BY <1>2, <2>1, SubSeqItems
    <2>4. \A i \in 1 .. n - 1 : r[i] = Tail(q)[i]
      BY <1>1, <2>3
    <2> QED  BY <1>1, <1>2, <2>2, <2>4
  <1> HIDE DEF p, r
  <1>5. /\ Tail(p) \in Seq(S) /\ Len(Tail(p)) = n - 1
        /\ \A i \in 1 .. n - 1 : Tail(p)[i] = q[i + 1]
    <2>1. p # <<>>
      BY <1>1, <1>3, EmptySeq
    <2>2. /\ Tail(p) \in Seq(S) /\ Len(Tail(p)) = Len(p) - 1
          /\ \A i \in 1 .. Len(p) - 1 : Tail(p)[i] = p[i + 1]
      BY <1>3, <2>1, TailIs
    <2> QED  BY <1>1, <1>3, <2>2
  <1>6. Tail(p) = r
    BY <1>1, <1>4, <1>5, SeqEqual
  <1> QED  BY <1>6 DEF p, r

\* RemoveMutationBatch of the queue's first batch leaves the others.
LEMMA WithoutFirst ==
    ASSUME queue \in [User -> Seq(Batch)], user \in User, queue[user] # <<>>,
           Ascending(queue[user]), NEW b, b = queue[user][1]
    PROVE  /\ Without(b) = Tail(queue[user]) /\ b.id \in Ids(queue[user])
           /\ Tail(queue[user]) \in Seq(Batch) /\ Ascending(Tail(queue[user]))
  <1> DEFINE q == queue[user]
  <1>1. q \in Seq(Batch) /\ q # <<>> /\ b = q[1] /\ Ascending(q)
    OBVIOUS
  <1>2. Without(b) = SubSeq(q, 1, UpTo(q, b.id - 1)) \o SubSeq(q, UpTo(q, b.id) + 1, Len(q))
    BY DEF Without
  <1>a. b.id \in Ids(queue[user]) <=> \E i \in DOMAIN q : q[i].id = b.id
    BY DEF Ids
  <1> HIDE DEF q
  <1>3. /\ Len(q) \in Nat \ {0} /\ DOMAIN q = 1..Len(q) /\ q[1] \in Batch
        /\ Tail(q) \in Seq(Batch) /\ Len(Tail(q)) = Len(q) - 1
        /\ DOMAIN Tail(q) = 1 .. Len(q) - 1
        /\ \A i \in 1 .. Len(q) - 1 : Tail(q)[i] = q[i + 1]
    BY <1>1, TailIs
  <1>4. \A i \in 1..Len(q) : q[i].id \in Nat
    <2>1. \A i \in 1..Len(q) : q[i] \in Batch
      BY <1>1, ElementOfSeq
    <2> QED  BY <2>1 DEF Batch
  <1>5. b.id \in Nat /\ 1 \in 1..Len(q) /\ b.id = q[1].id
    BY <1>1, <1>3, <1>4
  <1>6. \A i \in 1..Len(q) : i # 1 => b.id < q[i].id
    <2>1. \A i, j \in 1..Len(q) : i < j => q[i].id < q[j].id
      BY <1>1, <1>3 DEF Ascending
    <2> QED  BY <1>3, <1>5, <2>1
  <1>7. UpTo(q, b.id - 1) = 0
    <2>1. \A i \in DOMAIN q : i <= 0 <=> q[i].id <= b.id - 1
      <3>1. \A i \in 1..Len(q) : i <= 0 <=> q[i].id <= b.id - 1
        BY <1>3, <1>4, <1>5, <1>6
      <3> QED  BY <1>3, <3>1
    <2>2. 0 \in 0..Len(q) /\ b.id - 1 \in Int
      BY <1>3, <1>5
    <2> QED  BY <1>1, <2>1, <2>2, UpToIs
  <1>8. UpTo(q, b.id) = 1
    <2>1. \A i \in DOMAIN q : i <= 1 <=> q[i].id <= b.id
      <3>1. \A i \in 1..Len(q) : i <= 1 <=> q[i].id <= b.id
        BY <1>3, <1>4, <1>5, <1>6
      <3> QED  BY <1>3, <3>1
    <2>2. 1 \in 0..Len(q) /\ b.id \in Int
      BY <1>3, <1>5
    <2> QED  BY <1>1, <2>1, <2>2, UpToIs
  <1>9. Without(b) = <<>> \o SubSeq(q, 2, Len(q))
    <2>1. SubSeq(q, 1, 0) = <<>>
      BY <1>1, SubSeqEmpty
    <2> QED  BY <1>2, <1>7, <1>8, <2>1
  <1>10. SubSeq(q, 2, Len(q)) = Tail(q)
    <2>1. 2 \in 1 .. Len(q) + 1 /\ Len(q) \in 2 - 1 .. Len(q)
      BY <1>3
    <2> DEFINE r == SubSeq(q, 2, Len(q))
    <2>2. r \in Seq(Batch) /\ Len(r) = Len(q) - 2 + 1
      BY <1>1, <2>1, SubSeqLen
    <2>3. \A i \in 1 .. Len(q) - 2 + 1 : r[i] = q[2 + i - 1]
      BY <1>1, <2>1, SubSeqItems
    <2> HIDE DEF r
    <2>4. Len(r) = Len(Tail(q)) /\ \A i \in 1 .. Len(r) : r[i] = Tail(q)[i]
      BY <1>3, <2>2, <2>3
    <2>5. r = Tail(q)
      BY <1>3, <2>2, <2>4, SeqEqual
    <2> QED  BY <2>5 DEF r
  <1>11. Without(b) = Tail(q)
    BY <1>3, <1>9, <1>10, ConcatEmptySeq
  <1>12. Ascending(Tail(q))
    <2>1. \A i, j \in 1..Len(q) : i < j => q[i].id < q[j].id
      BY <1>1, <1>3 DEF Ascending
    <2>2. \A i, j \in 1 .. Len(q) - 1 : i < j => Tail(q)[i].id < Tail(q)[j].id
      BY <1>3, <2>1
    <2> QED  BY <1>3, <2>2 DEF Ascending
  <1> QED  BY <1>1, <1>3, <1>5, <1>11, <1>12, <1>a DEF q

\* The batch ids of the queues have a largest.
LEMMA LargestIs ==
    ASSUME NEW S \in SUBSET Nat, NEW n \in Nat, \A m \in S : m <= n
    PROVE  Largest(S) \in Nat /\ \A m \in S : m <= Largest(S)
  <1> DEFINE T == {k \in Nat : \A m \in S : m <= k}
             R == OpToRel(<, Nat)
  <1>0. n \in T
    OBVIOUS
  <1>1. T # {} /\ T \subseteq Nat
    BY <1>0
  <1>a. IsWellFoundedOn(R, Nat)
    BY NatLessThanWellFounded
  <1>b. \A m \in T : m \in Nat /\ \A x \in S : x <= m
    OBVIOUS
  <1>c. \A m \in Nat : (\A x \in S : x <= m) => m \in T
    OBVIOUS
  <1> HIDE DEF T, R
  <1>2. PICK k \in T : \A j \in T : ~(<<j, k>> \in R)
    BY <1>1, <1>a, WFMin, Zenon
  <1>d. \A j \in T : ~(j < k)
    BY <1>1, <1>2 DEF OpToRel, R
  <1>3. k \in S \cup {0} /\ \A m \in S : m <= k
    <2>1. k \in Nat /\ \A m \in S : m <= k
      BY <1>b
    <2>2. SUFFICES ASSUME k \notin S, k # 0 PROVE FALSE
      BY <2>1
    <2>3. k - 1 \in T
      BY <1>c, <2>1, <2>2
    <2> QED  BY <1>d, <2>1, <2>3
  <1>4. Largest(S) \in S \cup {0} /\ \A m \in S : m <= Largest(S)
    BY <1>3, Zenon DEF Largest
  <1>5. S \cup {0} \subseteq Nat
    OBVIOUS
  <1> QED  BY <1>4, <1>5, Zenon

--------------------------------------------------------------------------------
(* The tokens under way.                                                   *)

\* The types of the requests and answers that are under way.
LEMMA TokensTyped ==
    ASSUME TypeOK
    PROVE  /\ remote.closeCount \in Nat
           /\ \A a \in remote.asks : a.close \in Nat
           /\ Len(main) \in Nat /\ DOMAIN main = 1..Len(main)
           /\ \A i \in DOMAIN main :
                 /\ main[i] \in Block
                 /\ main[i].kind \in {"StateDidChange", "Token"}
                 /\ main[i].kind = "StateDidChange" => main[i].user \in User
                 /\ main[i].kind = "Token" => main[i].ask.close \in Nat
                                              /\ main[i].result \in User \cup {"transient"}
           /\ Len(tasks) \in Nat /\ DOMAIN tasks = 1..Len(tasks)
           /\ \A k \in DOMAIN tasks :
                 /\ tasks[k] \in Task
                 /\ tasks[k].kind \in {"CredentialChange", "Resume"}
                 /\ tasks[k].kind = "CredentialChange" => tasks[k].user \in User
                 /\ tasks[k].kind = "Resume" => tasks[k].close \in Nat
  <1>1. remote \in Remote /\ main \in Seq(Block) /\ tasks \in Seq(Task)
    BY DEF TypeOK
  <1>2. remote.closeCount \in Nat /\ \A a \in remote.asks : a.close \in Nat
    BY <1>1 DEF Remote, Ask
  <1>3. /\ Len(main) \in Nat /\ DOMAIN main = 1..Len(main)
        /\ \A i \in DOMAIN main : main[i] \in Block
    BY <1>1, LenProperties, ElementOfSeq
  <1>4. \A m \in Block :
           /\ m.kind \in {"StateDidChange", "Token"}
           /\ m.kind = "StateDidChange" => m.user \in User
           /\ m.kind = "Token" => m.ask.close \in Nat /\ m.result \in User \cup {"transient"}
    BY DEF Block, Ask
  <1>5. /\ Len(tasks) \in Nat /\ DOMAIN tasks = 1..Len(tasks)
        /\ \A k \in DOMAIN tasks : tasks[k] \in Task
    BY <1>1, LenProperties, ElementOfSeq
  <1>6. \A r \in Task :
           /\ r.kind \in {"CredentialChange", "Resume"}
           /\ r.kind = "CredentialChange" => r.user \in User
           /\ r.kind = "Resume" => r.close \in Nat
    BY DEF Task
  <1> QED  BY <1>2, <1>3, <1>4, <1>5, <1>6

\* A stream that restarts waits for none of the old tokens.
LEMMA RestartTokens ==
    ASSUME TypeOK, NoneLater, OneToken, Restarts(remote, remote'), remote'.closeCount \in Nat,
           counter' = counter, main' = main,
           \A k \in DOMAIN tasks' : \E j \in DOMAIN tasks : tasks'[k] = tasks[j]
    PROVE  NoneLater' /\ TokensInOrder' /\ OneToken'
  <1> DEFINE n == remote'.closeCount
  <1>0. /\ n \in Nat
        /\ n > remote.closeCount \/ (n = remote.closeCount /\ remote.state # "Starting")
    BY DEF Restarts
  <1>1. \A a \in remote.asks : a.close <= n /\ a.close # n
    BY <1>0, TokensTyped DEF NoneLater, OneToken, Asking
  <1>2. \A i \in DOMAIN main : main[i].kind = "Token" =>
           main[i].ask.close <= n /\ main[i].ask.close # n
    BY <1>0, TokensTyped DEF NoneLater, OneToken, Telling
  <1>3. \A k \in DOMAIN tasks : tasks[k].kind = "Resume" => tasks[k].close <= n /\ tasks[k].close # n
    BY <1>0, TokensTyped DEF NoneLater, OneToken, Resuming
  <1>4. \A k \in DOMAIN tasks' : tasks'[k].kind = "Resume" =>
           tasks'[k].close <= n /\ tasks'[k].close # n
    BY <1>3
  <1> DEFINE new == [close |-> n, counter |-> counter]
  <1>5. remote'.asks = remote.asks \/ (remote'.asks = remote.asks \cup {new}
                                       /\ remote'.state = "Starting")
    BY DEF Restarts
  <1>6. Asking' \subseteq {new} /\ (Asking' # {} => remote'.state = "Starting")
    BY <1>1, <1>5 DEF Asking
  <1>7. Telling' = {} /\ Resuming' = {}
    BY <1>2, <1>4 DEF Telling, Resuming
  <1>8. NoneLater'
    BY <1>0, <1>1, <1>2, <1>4, <1>5 DEF NoneLater
  <1>9. TokensInOrder'
    BY <1>6, <1>7 DEF TokensInOrder
  <1>10. OneToken'
    BY <1>6, <1>7 DEF OneToken, One
  <1> QED  BY <1>8, <1>9, <1>10

\* What the remote store does by itself leaves the tokens in order.
LEMMA TokensMove ==
    ASSUME TypeOK, Tokens, Moves(remote, remote'), remote'.closeCount \in Nat,
           UNCHANGED <<main, tasks, counter, user, authUser>>
    PROVE  Tokens'
  <1>1. LastUser'
    BY DEF Tokens, LastUser, AnyNews, AnyChange
  <1>2. CASE Restarts(remote, remote')
    BY <1>1, <1>2, RestartTokens DEF Tokens
  <1>3. CASE /\ remote'.closeCount = remote.closeCount /\ remote'.asks = remote.asks
             /\ remote'.state = remote.state
    <2>1. Asking' = Asking /\ Telling' = Telling /\ Resuming' = Resuming
      BY <1>3 DEF Asking, Telling, Resuming
    <2>2. NoneLater'
      BY <1>3 DEF Tokens, NoneLater
    <2>3. TokensInOrder'
      BY <2>1 DEF Tokens, TokensInOrder, AnyChange, News, Changing
    <2>4. OneToken'
      BY <1>3, <2>1 DEF Tokens, OneToken, One
    <2> QED  BY <1>1, <2>2, <2>3, <2>4 DEF Tokens
  <1> QED  BY <1>2, <1>3 DEF Moves

\* A token taken from the worker queue by the stream that waits for it, or thrown away
LEMMA TokensResume ==
    ASSUME TypeOK, Tokens, tasks # <<>>, Head(tasks).kind = "Resume", tasks' = Tail(tasks),
           UNCHANGED <<main, counter, user, authUser>>, remote'.closeCount \in Nat,
           \/ ~Current(Head(tasks)) /\ remote' = remote
           \/ /\ Current(Head(tasks))
              /\ remote'.closeCount = remote.closeCount /\ remote'.asks = remote.asks
           \/ Restarts(remote, remote')
    PROVE  Tokens'
  <1>1. /\ Len(tasks) \in Nat \ {0} /\ DOMAIN tasks = 1..Len(tasks) /\ Head(tasks) = tasks[1]
        /\ DOMAIN tasks' = 1 .. Len(tasks) - 1
        /\ \A k \in 1 .. Len(tasks) - 1 : tasks'[k] = tasks[k + 1]
    <2>1. tasks \in Seq(Task)
      BY DEF TypeOK
    <2> QED  BY <2>1, TailIs
  <1>2. \A k \in DOMAIN tasks' : k + 1 \in DOMAIN tasks /\ tasks'[k] = tasks[k + 1]
    BY <1>1
  <1>3. \A j \in DOMAIN tasks : tasks[j].kind = "CredentialChange" =>
           j - 1 \in DOMAIN tasks' /\ tasks'[j - 1] = tasks[j]
    BY <1>1
  <1>4. AnyChange' <=> AnyChange
    BY <1>2, <1>3 DEF AnyChange
  <1>5. \A k \in DOMAIN tasks' : Changing(k + 1) => Changing(k)'
    BY <1>1, <1>3 DEF Changing
  <1>6. LastUser'
    <2>1. \A k \in DOMAIN tasks' : tasks'[k].kind = "CredentialChange" =>
             \/ tasks'[k].user = authUser'
             \/ \E j \in DOMAIN tasks' : k < j /\ tasks'[j].kind = "CredentialChange"
             \/ AnyNews
      <3> SUFFICES ASSUME NEW k \in DOMAIN tasks', tasks'[k].kind = "CredentialChange",
                          NEW j \in DOMAIN tasks, k + 1 < j,
                          tasks[j].kind = "CredentialChange"
                   PROVE  \E i \in DOMAIN tasks' : k < i /\ tasks'[i].kind = "CredentialChange"
        BY <1>2 DEF Tokens, LastUser
      <3>1. j - 1 \in DOMAIN tasks' /\ tasks'[j - 1] = tasks[j] /\ k < j - 1
        BY <1>1, <1>3
      <3> QED  BY <3>1
    <2>2. AnyNews' = AnyNews
      BY DEF AnyNews
    <2> QED  BY <1>4, <2>1, <2>2 DEF Tokens, LastUser, AnyNews
  <1>7. CASE Restarts(remote, remote')
    <2>1. \A k \in DOMAIN tasks' : \E j \in DOMAIN tasks : tasks'[k] = tasks[j]
      BY <1>2
    <2> QED  BY <1>6, <1>7, <2>1, RestartTokens DEF Tokens
  <1>8. CASE ~Restarts(remote, remote')
    <2>1. remote'.closeCount = remote.closeCount /\ remote'.asks = remote.asks
      BY <1>8
    <2>2. Asking' = Asking /\ Telling' = Telling /\ \A k \in Resuming' : k + 1 \in Resuming
      BY <1>2, <2>1 DEF Asking, Telling, Resuming
    <2>3. NoneLater'
      BY <1>2, <2>1 DEF Tokens, NoneLater
    <2>4. TokensInOrder'
      <3>1. \A a \in Asking' : a.counter = counter' \/ AnyChange'
        BY <1>4, <2>2 DEF Tokens, TokensInOrder
      <3>2. \A i \in Telling' :
              /\ main'[i].ask.counter = counter' \/ AnyChange'
              /\ main'[i].result \in User => main'[i].result = user' \/ AnyChange' \/ News(i)'
        BY <1>4, <2>2 DEF Tokens, TokensInOrder, News
      <3>3. \A k \in Resuming' : tasks'[k].result \in {"transient", user'} \/ Changing(k)'
        <4> SUFFICES ASSUME NEW k \in Resuming'
                     PROVE  tasks'[k].result \in {"transient", user} \/ Changing(k)'
          OBVIOUS
        <4>1. k + 1 \in Resuming /\ k \in DOMAIN tasks' /\ tasks'[k] = tasks[k + 1]
          BY <1>2, <2>2 DEF Resuming
        <4> QED  BY <1>5, <4>1 DEF Tokens, TokensInOrder
      <3> QED  BY <3>1, <3>2, <3>3 DEF TokensInOrder
    <2>5. OneToken'
      <3>1. CASE ~Current(Head(tasks)) /\ remote' = remote
        <4>1. One(Resuming')
          <5> SUFFICES ASSUME NEW x \in Resuming', NEW y \in Resuming' PROVE x = y
            BY DEF One
          <5>1. x + 1 \in Resuming /\ y + 1 \in Resuming /\ x \in Int /\ y \in Int
            BY <1>1, <2>2 DEF Resuming
          <5>2. x + 1 = y + 1
            BY <5>1 DEF Tokens, OneToken, One
          <5> QED  BY <5>1, <5>2
        <4>2. Resuming' # {} => Resuming # {}
          BY <2>2
        <4> QED  BY <2>2, <3>1, <4>1, <4>2 DEF Tokens, OneToken, One
      <3>2. CASE Current(Head(tasks))
        <4>1. 1 \in Resuming
          BY <1>1, <3>2 DEF Resuming, Current
        <4>2. Asking = {} /\ Telling = {} /\ \A k \in Resuming : k = 1
          BY <4>1 DEF Tokens, OneToken, One
        <4>3. Resuming' = {}
          <5> SUFFICES ASSUME NEW k \in Resuming' PROVE FALSE
            OBVIOUS
          <5>1. k + 1 = 1 /\ k \in 1 .. Len(tasks) - 1
            BY <1>1, <2>2, <4>2 DEF Resuming
          <5> QED  BY <1>1, <5>1
        <4> QED  BY <2>2, <4>2, <4>3 DEF OneToken, One
      <3> QED  BY <1>8, <3>1, <3>2
    <2> QED  BY <1>6, <2>3, <2>4, <2>5 DEF Tokens
  <1> QED  BY <1>7, <1>8

\* A change of user taken from the worker queue restarts the stream.
LEMMA TokensChange ==
    ASSUME TypeOK, Tokens, tasks # <<>>, Head(tasks).kind = "CredentialChange",
           tasks' = Tail(tasks), user' = Head(tasks).user,
           UNCHANGED <<main, counter, authUser>>, remote'.closeCount \in Nat,
           Restarts(remote, remote')
    PROVE  Tokens'
  <1>1. /\ Len(tasks) \in Nat \ {0} /\ DOMAIN tasks = 1..Len(tasks) /\ Head(tasks) = tasks[1]
        /\ DOMAIN tasks' = 1 .. Len(tasks) - 1
        /\ \A k \in 1 .. Len(tasks) - 1 : tasks'[k] = tasks[k + 1]
    <2>1. tasks \in Seq(Task)
      BY DEF TypeOK
    <2> QED  BY <2>1, TailIs
  <1>2. \A k \in DOMAIN tasks' : k + 1 \in DOMAIN tasks /\ tasks'[k] = tasks[k + 1]
    BY <1>1
  <1>3. \A j \in DOMAIN tasks : j > 1 => j - 1 \in DOMAIN tasks' /\ tasks'[j - 1] = tasks[j]
    BY <1>1
  <1>4. \A k \in DOMAIN tasks' : \E j \in DOMAIN tasks : tasks'[k] = tasks[j]
    BY <1>2
  <1>5. NoneLater' /\ TokensInOrder' /\ OneToken'
    BY <1>4, RestartTokens DEF Tokens
  <1>6. AnyNews' = AnyNews
    BY DEF AnyNews
  <1>7. \A k \in DOMAIN tasks' : tasks'[k].kind = "CredentialChange" =>
           \/ tasks'[k].user = authUser
           \/ \E j \in DOMAIN tasks' : k < j /\ tasks'[j].kind = "CredentialChange"
           \/ AnyNews
    <2> SUFFICES ASSUME NEW k \in DOMAIN tasks', tasks'[k].kind = "CredentialChange",
                        NEW j \in DOMAIN tasks, k + 1 < j, tasks[j].kind = "CredentialChange"
                 PROVE  \E i \in DOMAIN tasks' : k < i /\ tasks'[i].kind = "CredentialChange"
      BY <1>2 DEF Tokens, LastUser
    <2>1. j > 1 /\ k < j - 1
      BY <1>1
    <2> QED  BY <1>3, <2>1
  <1>8. user' = authUser \/ AnyChange' \/ AnyNews
    <2>1. \/ user' = authUser
          \/ \E j \in DOMAIN tasks : 1 < j /\ tasks[j].kind = "CredentialChange"
          \/ AnyNews
      BY <1>1 DEF Tokens, LastUser
    <2> QED  BY <1>1, <1>3, <2>1 DEF AnyChange
  <1> QED  BY <1>5, <1>6, <1>7, <1>8 DEF Tokens, LastUser

\* Firebase Auth dispatches another user to the main queue.
LEMMA TokensNews ==
    ASSUME TypeOK, Tokens, NEW u \in User, authUser' = u,
           main' = Append(main, [kind |-> "StateDidChange", user |-> u]),
           UNCHANGED <<tasks, counter, user, remote>>
    PROVE  Tokens'
  <1> DEFINE m == [kind |-> "StateDidChange", user |-> u]
             n == Len(main)
  <1>1. /\ n \in Nat /\ DOMAIN main = 1..n /\ DOMAIN main' = 1 .. n + 1
        /\ main'[n + 1] = m /\ \A i \in 1..n : main'[i] = main[i]
    <2>1. main \in Seq(Block) /\ m \in Block
      BY DEF TypeOK, Block
    <2>2. /\ main' \in Seq(Block) /\ Len(main') = n + 1
          /\ main'[n + 1] = m /\ \A i \in 1..n : main'[i] = main[i]
      BY <2>1, AppendProperties
    <2> QED  BY <2>1, <2>2, LenProperties
  <1>2. m.kind = "StateDidChange" /\ m.user = u
    OBVIOUS
  <1> HIDE DEF m, n
  <1>3. Asking' = Asking /\ Telling' = Telling /\ Resuming' = Resuming
    BY <1>1, <1>2 DEF Asking, Telling, Resuming
  <1>4. NoneLater'
    BY <1>1, <1>2 DEF Tokens, NoneLater
  <1>5. TokensInOrder'
    <2>1. \A i \in Telling : i \in 1..n /\ main'[i] = main[i] /\ (News(i) => News(i)')
      BY <1>1 DEF Telling, News
    <2> QED  BY <1>3, <2>1 DEF Tokens, TokensInOrder, AnyChange, Changing
  <1>6. OneToken'
    BY <1>3 DEF Tokens, OneToken, One
  <1>7. LastUser'
    <2>1. AnyNews'
      BY <1>1, <1>2 DEF AnyNews
    <2>2. \A i \in DOMAIN main' : main'[i].user = u \/ i < n + 1
      BY <1>1, <1>2
    <2> QED  BY <1>1, <1>2, <2>1, <2>2 DEF LastUser
  <1> QED  BY <1>4, <1>5, <1>6, <1>7 DEF Tokens

\* Firebase Auth answers a request for a token: with the user's, or with a failure.
LEMMA TokensAnswer ==
    ASSUME TypeOK, Tokens, NEW a \in remote.asks, NEW result \in {authUser, "transient"},
           main' = Append(main, [kind |-> "Token", ask |-> a, result |-> result]),
           UNCHANGED <<tasks, counter, user, authUser>>,
           remote'.asks = remote.asks \ {a}, remote'.closeCount = remote.closeCount,
           remote'.state = remote.state
    PROVE  Tokens'
  <1> DEFINE m == [kind |-> "Token", ask |-> a, result |-> result]
  <1>0. PICK n : n = Len(main)
    OBVIOUS
  <1>1. /\ n \in Nat /\ DOMAIN main = 1..n /\ DOMAIN main' = 1 .. n + 1
        /\ main'[n + 1] = m /\ \A i \in 1..n : main'[i] = main[i]
    <2>1. main \in Seq(Block) /\ m \in Block
      BY DEF TypeOK, Block, Remote
    <2>2. /\ main' \in Seq(Block) /\ Len(main') = n + 1
          /\ main'[n + 1] = m /\ \A i \in 1..n : main'[i] = main[i]
      BY <1>0, <2>1, AppendProperties
    <2> QED  BY <1>0, <2>1, <2>2, LenProperties
  <1>2. m.kind = "Token" /\ m.ask = a /\ m.result = result
    OBVIOUS
  <1> HIDE DEF m
  <1>3. Asking' = Asking \ {a} /\ Resuming' = Resuming
    BY DEF Asking, Resuming
  <1>4. Telling' = Telling \cup (IF a \in Asking THEN {n + 1} ELSE {})
    BY <1>1, <1>2 DEF Telling, Asking
  <1>5. NoneLater'
    BY <1>1, <1>2 DEF Tokens, NoneLater
  <1>6. AnyNews' <=> AnyNews
    BY <1>1, <1>2 DEF AnyNews
  <1>7. TokensInOrder'
    <2>1. \A i \in Telling : main'[i] = main[i] /\ (News(i) => News(i)')
      BY <1>1 DEF Telling, News
    <2>2. a \in Asking => a.counter = counter \/ AnyChange
      BY DEF Tokens, TokensInOrder
    <2>3. result \in User => result = user \/ AnyChange \/ News(n + 1)'
      <3>1. result \in User => user = result \/ AnyChange \/ AnyNews
        BY PipelineAssumption DEF Tokens, LastUser
      <3>2. AnyNews => News(n + 1)'
        BY <1>1 DEF AnyNews, News
      <3> QED  BY <3>1, <3>2
    <2>4. \A i \in Telling' :
             /\ main'[i].ask.counter = counter \/ AnyChange
             /\ main'[i].result \in User => main'[i].result = user \/ AnyChange \/ News(i)'
      BY <1>1, <1>2, <1>4, <2>1, <2>2, <2>3 DEF Tokens, TokensInOrder
    <2>5. AnyChange' = AnyChange /\ \A k \in DOMAIN tasks : Changing(k)' = Changing(k)
      BY DEF AnyChange, Changing
    <2>6. \A k \in Resuming' : tasks'[k].result \in {"transient", user'} \/ Changing(k)'
      BY <1>3, <2>5 DEF Tokens, TokensInOrder, Resuming
    <2>7. \A x \in Asking' : x.counter = counter' \/ AnyChange'
      BY <1>3, <2>5 DEF Tokens, TokensInOrder
    <2> QED  BY <2>4, <2>5, <2>6, <2>7 DEF TokensInOrder
  <1>8. OneToken'
    <2>1. CASE a \in Asking
      <3>1. Telling = {} /\ Resuming = {} /\ Asking' = {} /\ Telling' = {n + 1}
        BY <1>3, <1>4, <2>1 DEF Tokens, OneToken, One
      <3> QED  BY <1>3, <2>1, <3>1 DEF Tokens, OneToken, One
    <2>2. CASE a \notin Asking
      BY <1>3, <1>4, <2>2 DEF Tokens, OneToken, One
    <2> QED  BY <2>1, <2>2
  <1>9. LastUser'
    <2>1. \A i \in DOMAIN main' : main'[i].kind = "StateDidChange" =>
             i \in DOMAIN main /\ main'[i] = main[i]
      BY <1>1, <1>2
    <2>2. \A j \in DOMAIN main : j \in DOMAIN main' /\ main'[j] = main[j]
      BY <1>1
    <2> QED  BY <1>6, <2>1, <2>2 DEF Tokens, LastUser, AnyChange
  <1> QED  BY <1>5, <1>7, <1>8, <1>9 DEF Tokens

\* The provider's observer counts a change of user, and enqueues it.
LEMMA TokensObserved ==
    ASSUME TypeOK, Tokens, main # <<>>, Head(main).kind = "StateDidChange", main' = Tail(main),
           tasks' = Append(tasks, [kind |-> "CredentialChange", user |-> Head(main).user]),
           counter' = counter + 1, UNCHANGED <<remote, user, authUser>>
    PROVE  Tokens'
  <1> DEFINE r == [kind |-> "CredentialChange", user |-> Head(main).user]
  <1>0. PICK n : n = Len(tasks)
    OBVIOUS
  <1>1. /\ Len(main) \in Nat \ {0} /\ DOMAIN main = 1..Len(main) /\ Head(main) = main[1]
        /\ main[1] \in Block /\ 1 \in DOMAIN main
        /\ DOMAIN main' = 1 .. Len(main) - 1
        /\ \A i \in 1 .. Len(main) - 1 : main'[i] = main[i + 1]
    <2>1. main \in Seq(Block)
      BY DEF TypeOK
    <2> QED  BY <2>1, TailIs
  <1>2. /\ n \in Nat /\ DOMAIN tasks = 1..n /\ DOMAIN tasks' = 1 .. n + 1
        /\ tasks'[n + 1] = r /\ \A k \in 1..n : tasks'[k] = tasks[k]
    <2>0. Head(main).user \in User
      BY <1>1, TokensTyped
    <2>1. tasks \in Seq(Task) /\ r \in Task
      BY <2>0 DEF TypeOK, Task
    <2>2. /\ tasks' \in Seq(Task) /\ Len(tasks') = n + 1
          /\ tasks'[n + 1] = r /\ \A k \in 1..n : tasks'[k] = tasks[k]
      BY <1>0, <2>1, AppendProperties
    <2> QED  BY <1>0, <2>1, <2>2, LenProperties
  <1>3. r.kind = "CredentialChange" /\ r.user = Head(main).user
    OBVIOUS
  <1> HIDE DEF r
  <1>4. AnyChange'
    BY <1>2, <1>3 DEF AnyChange
  <1>5. Asking' = Asking /\ Resuming' = Resuming /\ \A i \in Telling' : i + 1 \in Telling
    BY <1>1, <1>2, <1>3 DEF Asking, Telling, Resuming
  <1>6. NoneLater'
    BY <1>1, <1>2, <1>3 DEF Tokens, NoneLater
  <1>7. TokensInOrder'
    <2>1. \A k \in Resuming : k \in 1..n /\ tasks'[k] = tasks[k] /\ (Changing(k) => Changing(k)')
      BY <1>2 DEF Resuming, Changing
    <2> QED  BY <1>4, <1>5, <2>1 DEF Tokens, TokensInOrder
  <1>8. OneToken'
    <2>1. One(Telling')
      <3> SUFFICES ASSUME NEW x \in Telling', NEW y \in Telling' PROVE x = y
        BY DEF One
      <3>1. x + 1 \in Telling /\ y + 1 \in Telling /\ x \in Int /\ y \in Int
        BY <1>1, <1>5 DEF Telling
      <3>2. x + 1 = y + 1
        BY <3>1 DEF Tokens, OneToken, One
      <3> QED  BY <3>1, <3>2
    <2>2. Telling' # {} => Telling # {}
      BY <1>5
    <2> QED  BY <1>5, <2>1, <2>2 DEF Tokens, OneToken, One
  <1>9. LastUser'
    <2>1. \A i \in DOMAIN main' : i + 1 \in DOMAIN main /\ main'[i] = main[i + 1]
      BY <1>1
    <2>2. \A j \in DOMAIN main : j > 1 => j - 1 \in DOMAIN main' /\ main'[j - 1] = main[j]
      BY <1>1
    <2>3. \A i \in DOMAIN main' : main'[i].kind = "StateDidChange" =>
             \/ main'[i].user = authUser
             \/ \E j \in DOMAIN main' : i < j /\ main'[j].kind = "StateDidChange"
      <3> SUFFICES ASSUME NEW i \in DOMAIN main', main'[i].kind = "StateDidChange",
                          NEW j \in DOMAIN main, i + 1 < j, main[j].kind = "StateDidChange"
                   PROVE  \E x \in DOMAIN main' : i < x /\ main'[x].kind = "StateDidChange"
        BY <2>1 DEF Tokens, LastUser
      <3>1. j > 1 /\ i < j - 1
        BY <1>1
      <3> QED  BY <2>2, <3>1
    <2>4. Head(main).user = authUser \/ AnyNews'
      <3>1. \/ Head(main).user = authUser
            \/ \E j \in DOMAIN main : 1 < j /\ main[j].kind = "StateDidChange"
        BY <1>1 DEF Tokens, LastUser
      <3> QED  BY <2>2, <1>1, <3>1 DEF AnyNews
    <2>5. \A k \in DOMAIN tasks' : tasks'[k].kind = "CredentialChange" =>
             \/ tasks'[k].user = authUser
             \/ \E j \in DOMAIN tasks' : k < j /\ tasks'[j].kind = "CredentialChange"
             \/ AnyNews'
      BY <1>2, <1>3, <2>4
    <2> QED  BY <1>4, <2>3, <2>5 DEF LastUser
  <1> QED  BY <1>6, <1>7, <1>8, <1>9 DEF Tokens

\* The provider's callback hands a token on, unless the user has changed meanwhile.
LEMMA TokensHanded ==
    ASSUME TypeOK, Tokens, main # <<>>, Head(main).kind = "Token", main' = Tail(main),
           NEW result, result = IF Head(main).ask.counter = counter THEN Head(main).result
                                ELSE "aborted",
           tasks' = Append(tasks, [kind |-> "Resume", close |-> Head(main).ask.close,
                                   result |-> result]),
           UNCHANGED <<counter, remote, user, authUser>>
    PROVE  Tokens'
  <1> DEFINE r == [kind |-> "Resume", close |-> Head(main).ask.close, result |-> result]
  <1>0. PICK n : n = Len(tasks)
    OBVIOUS
  <1>1. /\ Len(main) \in Nat \ {0} /\ DOMAIN main = 1..Len(main) /\ Head(main) = main[1]
        /\ main[1] \in Block /\ 1 \in DOMAIN main
        /\ DOMAIN main' = 1 .. Len(main) - 1
        /\ \A i \in 1 .. Len(main) - 1 : main'[i] = main[i + 1]
    <2>1. main \in Seq(Block)
      BY DEF TypeOK
    <2> QED  BY <2>1, TailIs
  <1>2. /\ n \in Nat /\ DOMAIN tasks = 1..n /\ DOMAIN tasks' = 1 .. n + 1
        /\ tasks'[n + 1] = r /\ \A k \in 1..n : tasks'[k] = tasks[k]
    <2>1. result \in User \cup {"transient", "aborted"} /\ Head(main).ask.close \in Nat
      BY <1>1, TokensTyped
    <2>2. tasks \in Seq(Task) /\ r \in Task
      BY <2>1 DEF TypeOK, Task
    <2>3. /\ tasks' \in Seq(Task) /\ Len(tasks') = n + 1
          /\ tasks'[n + 1] = r /\ \A k \in 1..n : tasks'[k] = tasks[k]
      BY <1>0, <2>2, AppendProperties
    <2> QED  BY <1>0, <2>2, <2>3, LenProperties
  <1>3. r.kind = "Resume" /\ r.close = main[1].ask.close /\ r.result = result
    BY <1>1
  <1> HIDE DEF r
  <1>4. /\ AnyChange' <=> AnyChange
        /\ \A k \in 1..n : Changing(k) => Changing(k)'
        /\ AnyChange => Changing(n + 1)'
    BY <1>2, <1>3 DEF AnyChange, Changing
  <1>5. \A i \in DOMAIN main' : i + 1 \in DOMAIN main /\ main'[i] = main[i + 1]
    BY <1>1
  <1>6. \A j \in DOMAIN main : main[j].kind = "StateDidChange" =>
           j - 1 \in DOMAIN main' /\ main'[j - 1] = main[j]
    BY <1>1
  <1>7. Asking' = Asking /\ \A i \in Telling' : i + 1 \in Telling
    BY <1>5 DEF Asking, Telling
  <1>8. Resuming' = Resuming \cup (IF 1 \in Telling THEN {n + 1} ELSE {})
    BY <1>1, <1>2, <1>3 DEF Resuming, Telling
  <1>9. NoneLater'
    BY <1>1, <1>2, <1>3, <1>5 DEF Tokens, NoneLater
  <1>10. TokensInOrder'
    <2>1. \A i \in Telling' :
             /\ main'[i].ask.counter = counter \/ AnyChange
             /\ main'[i].result \in User => main'[i].result = user \/ AnyChange \/ News(i)'
      <3>1. ASSUME NEW i \in DOMAIN main', News(i + 1)
            PROVE  News(i)'
        <4>1. PICK j \in DOMAIN main : j < i + 1 /\ main[j].kind = "StateDidChange"
          BY <3>1 DEF News
        <4>2. j - 1 \in DOMAIN main' /\ main'[j - 1].kind = "StateDidChange"
          BY <1>6, <4>1
        <4>3. j - 1 < i
          BY <1>1, <4>1
        <4> QED  BY <4>2, <4>3 DEF News
      <3>2. \A i \in Telling' : i \in DOMAIN main' /\ i + 1 \in Telling /\ main'[i] = main[i + 1]
        BY <1>5, <1>7 DEF Telling
      <3> QED  BY <3>1, <3>2 DEF Tokens, TokensInOrder
    <2>2. 1 \in Telling => result \in {"transient", user} \/ AnyChange
      <3>1. ~News(1)
        BY <1>1 DEF News
      <3>2. 1 \in Telling => /\ main[1].ask.counter = counter \/ AnyChange
                             /\ main[1].result \in User => main[1].result = user \/ AnyChange
        BY <3>1 DEF Tokens, TokensInOrder
      <3>3. main[1].result \in User \cup {"transient"}
        BY <1>1, TokensTyped
      <3> QED  BY <1>1, <3>2, <3>3
    <2>3. \A k \in Resuming' : tasks'[k].result \in {"transient", user} \/ Changing(k)'
      <3>1. \A k \in Resuming : k \in 1..n
        BY <1>2 DEF Resuming
      <3> QED  BY <1>2, <1>3, <1>4, <1>8, <2>2, <3>1 DEF Tokens, TokensInOrder
    <2>4. \A a \in Asking' : a.counter = counter \/ AnyChange
      BY <1>7 DEF Tokens, TokensInOrder
    <2> QED  BY <1>4, <2>1, <2>3, <2>4 DEF TokensInOrder
  <1>11. OneToken'
    <2>1. One(Telling') /\ (1 \in Telling => Telling' = {})
      <3>1. \A x \in Telling' : x + 1 \in Telling /\ x \in Nat \ {0}
        BY <1>1, <1>7 DEF Telling
      <3>2. \A x, y \in Telling' : x + 1 = y + 1
        BY <3>1 DEF Tokens, OneToken, One
      <3>3. \A x, y \in Telling' : x = y
        BY <3>1, <3>2
      <3>4. 1 \in Telling => \A x \in Telling' : x + 1 = 1
        BY <3>1 DEF Tokens, OneToken, One
      <3> QED  BY <3>1, <3>3, <3>4 DEF One
    <2>2. CASE 1 \in Telling
      <3>1. Asking = {} /\ Resuming = {} /\ remote.state = "Starting"
        BY <2>2 DEF Tokens, OneToken
      <3> QED  BY <1>7, <1>8, <2>1, <2>2, <3>1 DEF OneToken, One
    <2>3. CASE 1 \notin Telling
      <3>1. Resuming' = Resuming /\ (Telling' # {} => Telling # {})
        BY <1>7, <1>8, <2>3
      <3> QED  BY <1>7, <2>1, <3>1 DEF Tokens, OneToken, One
    <2> QED  BY <2>2, <2>3
  <1>12. LastUser'
    <2>1. AnyNews' <=> AnyNews
      BY <1>5, <1>6 DEF AnyNews
    <2>2. \A i \in DOMAIN main' : main'[i].kind = "StateDidChange" =>
             \/ main'[i].user = authUser
             \/ \E j \in DOMAIN main' : i < j /\ main'[j].kind = "StateDidChange"
      <3> SUFFICES ASSUME NEW i \in DOMAIN main', main'[i].kind = "StateDidChange",
                          NEW j \in DOMAIN main, i + 1 < j, main[j].kind = "StateDidChange"
                   PROVE  \E x \in DOMAIN main' : i < x /\ main'[x].kind = "StateDidChange"
        BY <1>5 DEF Tokens, LastUser
      <3>1. i < j - 1
        BY <1>1
      <3> QED  BY <1>6, <3>1
    <2>3. \A k \in DOMAIN tasks' : tasks'[k].kind = "CredentialChange" =>
             k \in DOMAIN tasks /\ tasks'[k] = tasks[k]
      BY <1>2, <1>3
    <2>4. \A k \in DOMAIN tasks : k \in DOMAIN tasks' /\ tasks'[k] = tasks[k]
      BY <1>2
    <2> QED  BY <1>4, <2>1, <2>2, <2>3, <2>4 DEF Tokens, LastUser
  <1> QED  BY <1>9, <1>10, <1>11, <1>12 DEF Tokens

--------------------------------------------------------------------------------
(* The full pipeline.                                                      *)

\* A pipeline that is full holds the first batches of the queue.
LEMMA FullIs ==
    ASSUME NEW s \in Remote, NEW q \in Seq(Batch), Full(s, q)
    PROVE  /\ Len(q) \in Nat /\ FullLength(s, q) \in 0..Len(q)
           /\ FullLength(s, q) <= MaxPendingWrites
           /\ s.pipeline = SubSeq(q, 1, FullLength(s, q))
           /\ Len(s.pipeline) = FullLength(s, q)
           /\ DOMAIN s.pipeline = 1 .. FullLength(s, q)
           /\ \A i \in 1 .. FullLength(s, q) : s.pipeline[i] = q[i] /\ i \in DOMAIN q
  <1> DEFINE k == FullLength(s, q)
  <1>1. Len(q) \in Nat /\ DOMAIN q = 1..Len(q) /\ MaxPendingWrites \in Nat \ {0}
    BY LenProperties, PipelineAssumption
  <1>2. k \in 0..Len(q) /\ k <= MaxPendingWrites /\ s.pipeline = SubSeq(q, 1, k)
    <2>1. CASE s.enabled
      <3>1. k = Smaller(MaxPendingWrites, Len(q)) /\ s.pipeline = SubSeq(q, 1, k)
        BY <2>1 DEF FullLength, Full
      <3> QED  BY <1>1, <3>1, SmallerIs
    <2>2. CASE ~s.enabled
      <3>1. k = 0 /\ s.pipeline = <<>>
        BY <2>2 DEF FullLength, Full
      <3> QED  BY <1>1, <3>1, SubSeqEmpty
    <2> QED  BY <2>1, <2>2
  <1> HIDE DEF k
  <1>3. 1 \in 1 .. Len(q) + 1 /\ k \in 1 - 1 .. Len(q)
    BY <1>1, <1>2
  <1>4. Len(SubSeq(q, 1, k)) = k - 1 + 1 /\ DOMAIN SubSeq(q, 1, k) = 1 .. k - 1 + 1
        /\ \A i \in 1 .. k - 1 + 1 : SubSeq(q, 1, k)[i] = q[1 + i - 1]
    BY <1>3, SubSeqLen, SubSeqItems
  <1> QED  BY <1>1, <1>2, <1>4 DEF k

--------------------------------------------------------------------------------
(* The steps.                                                              *)

\* What the invariant says of the current user, the remote store and its call.
LEMMA Facts ==
    ASSUME Inv
    PROVE  /\ remote \in Remote /\ user \in User /\ queue \in [User -> Seq(Batch)]
           /\ queue[user] \in Seq(Batch) /\ Ascending(queue[user])
           /\ OfUser(queue[user], user, issued) /\ counter \in Nat /\ remote.closeCount \in Nat
           /\ issued \in Seq(User) /\ nextId \in Nat \ {0}
           /\ saved \in [User -> User \cup {NoToken}] /\ saved[user] \in {user, NoToken}
           /\ Sound(remote) /\ Full(remote, queue[user])
           /\ CallMatches(remote, refused) /\ OwnCall(remote, user, issued)
           /\ remote.conn # NoConn =>
                 /\ remote.conn \in Conn /\ remote.conn.user = user
                 /\ remote.conn.requests \in Seq(Request)
                 /\ remote.conn.responses \in Seq(Request)
                 /\ remote.conn.status \in Status
  <1>1. /\ remote \in Remote /\ user \in User /\ queue \in [User -> Seq(Batch)]
        /\ counter \in Nat /\ issued \in Seq(User) /\ nextId \in Nat \ {0}
        /\ saved \in [User -> User \cup {NoToken}]
    BY DEF Inv, TypeOK
  <1>2. /\ Ascending(queue[user]) /\ OfUser(queue[user], user, issued)
        /\ saved[user] \in {user, NoToken}
    BY <1>1 DEF Inv, Queues, QueuesInOrder, OwnTokens
  <1>3. /\ Sound(remote) /\ Full(remote, queue[user])
        /\ CallMatches(remote, refused) /\ OwnCall(remote, user, issued)
    BY DEF Inv, Stream
  <1>4. remote.conn # NoConn =>
           /\ remote.conn \in Conn /\ remote.conn.requests \in Seq(Request)
           /\ remote.conn.responses \in Seq(Request) /\ remote.conn.status \in Status
    BY <1>1 DEF Remote, Conn
  <1>5. remote.conn # NoConn => remote.conn.user = user
    BY <1>3 DEF OwnCall
  <1>6. queue[user] \in Seq(Batch) /\ remote.closeCount \in Nat
    BY <1>1 DEF Remote
  <1> QED  BY <1>1, <1>2, <1>3, <1>4, <1>5, <1>6

\* A step that settles no write.
LEMMA StateStep ==
    ASSUME Inv, remote' \in Remote, Sound(remote'), Full(remote', queue[user]),
           CallMatches(remote', refused'), OwnCall(remote', user, issued),
           saved' \in [User -> User \cup {NoToken}], OwnTokens',
           UNCHANGED <<queue, engine, issued, acked, rejected>>,
           tasks' \in Seq(Task), main' \in Seq(Block), counter' \in Nat, authUser' \in User,
           authEvents' \in Nat, Tokens',
           unread' \subseteq Write, unread \subseteq unread', faults' \in Nat,
           applied' \subseteq Write, refused' \subseteq Write, refused \subseteq refused'
    PROVE  Inv'
  <1>0. UNCHANGED <<nextId, user, callbacks, waits>>
    BY DEF engine
  <1>1. TypeOK'
    <2>1. Len(remote'.pipeline) <= MaxPendingWrites
      BY FullIs, Facts
    <2> QED  BY <1>0, <2>1 DEF Inv, TypeOK
  <1>2. Queues'
    <2>1. QueuesInOrder'
      BY <1>0 DEF Inv, Queues, QueuesInOrder
    <2>2. \A u \in User : OfUser(queue', u, issued') <=> OfUser(queue, u, issued)
      OBVIOUS
    <2> QED  BY <2>1, <2>2 DEF Inv, Queues
  <1>3. Stream'
    BY <1>0 DEF Stream
  <1>4. RejectedUnlessLost'
    BY DEF Inv, RejectedUnlessLost
  <1> QED  BY <1>1, <1>2, <1>3, <1>4 DEF Inv

\* A step of the remote store that settles no write.
LEMMA RemoteStep ==
    ASSUME Inv, remote' \in Remote, Sound(remote'), Full(remote', queue[user]),
           CallMatches(remote', refused'), OwnCall(remote', user, issued), Moves(remote, remote'),
           saved' \in [User -> User \cup {NoToken}], OwnTokens',
           UNCHANGED <<queue, engine, tasks, auth, issued, acked, rejected>>,
           unread' \subseteq Write, unread \subseteq unread', faults' \in Nat,
           applied' \subseteq Write, refused' \subseteq Write, refused \subseteq refused'
    PROVE  Inv'
  <1>1. UNCHANGED <<user, main, authUser, counter, authEvents>>
    BY DEF engine, auth
  <1>2. Tokens'
    <2>1. remote'.closeCount \in Nat /\ TypeOK /\ Tokens
      BY DEF Remote, Inv
    <2> QED  BY <1>1, <2>1, TokensMove
  <1>3. /\ tasks' \in Seq(Task) /\ main' \in Seq(Block) /\ counter' \in Nat /\ authUser' \in User
        /\ authEvents' \in Nat
    BY <1>1 DEF Inv, TypeOK
  <1> QED  BY <1>2, <1>3, StateStep

\* waitForPendingWrites preserves the invariant.
LEMMA WaitStep ==
    ASSUME Inv, WaitForPendingWrites
    PROVE  Inv'
  <1>0. UNCHANGED <<queue, saved, nextId, user, callbacks, remote, tasks, main, authUser,
                    counter, authEvents, issued, applied, refused, acked, rejected,
                    unread, faults>>
    BY DEF WaitForPendingWrites, persistent, auth, backend, settled
  <1> DEFINE q == queue[user]
             x == [id |-> GetHighestUnacknowledgedBatchId, on |-> {q[i].w : i \in DOMAIN q}]
  <1>1. x \in [id: Nat, on: SUBSET Write]
    <2>1. \A i \in DOMAIN q : q[i] \in Batch /\ q[i].id < nextId
      BY Facts, LenProperties, ElementOfSeq DEF Inv, Queues, QueuesInOrder
    <2>2. \A i \in DOMAIN q : q[i].id \in Nat /\ q[i].w \in Write
      BY <2>1 DEF Batch
    <2>3. {q[i].w : i \in DOMAIN q} \in SUBSET Write
      BY <2>2
    <2>4. GetHighestUnacknowledgedBatchId \in Nat
      <3>1. Ids(q) \in SUBSET Nat /\ \A m \in Ids(q) : m <= nextId
        BY <2>1, <2>2, Facts DEF Ids
      <3>2. Largest(Ids(q)) \in Nat
        BY <3>1, Facts, LargestIs
      <3> QED  BY <3>2 DEF GetHighestUnacknowledgedBatchId
    <2> QED  BY <2>3, <2>4
  <1>2. waits' = waits \cup {x}
    BY DEF WaitForPendingWrites
  <1> HIDE DEF x
  <1>3. TypeOK'
    BY <1>0, <1>1, <1>2 DEF Inv, TypeOK
  <1>4. Queues'
    BY <1>0 DEF Inv, Queues, QueuesInOrder, OwnTokens
  <1>5. Stream'
    BY <1>0 DEF Inv, Stream
  <1>6. Tokens'
    <2>1. Moves(remote, remote') /\ remote'.closeCount \in Nat /\ TypeOK /\ Tokens
      BY <1>0, Facts DEF Moves, Inv
    <2> QED  BY <1>0, <2>1, TokensMove
  <1>7. RejectedUnlessLost'
    BY <1>0 DEF Inv, RejectedUnlessLost
  <1> QED  BY <1>3, <1>4, <1>5, <1>6, <1>7 DEF Inv

\* Enabling the network preserves the invariant.
LEMMA TurnOnStep ==
    ASSUME Inv, TurnNetworkOn
    PROVE  Inv'
  <1>1. /\ ~remote.enabled /\ remote' = EnableNetwork(remote, user)
        /\ UNCHANGED <<persistent, engine, tasks, auth, backend, settled, faults>>
    BY DEF TurnNetworkOn
  <1>2. /\ remote.pipeline = <<>> /\ remote.conn = NoConn /\ Sound(remote) /\ remote \in Remote
        /\ ~Started(remote)
    BY <1>1, Facts DEF Sound, Started
  <1>3. /\ remote' \in Remote /\ Sound(remote') /\ Full(remote', queue[user])
        /\ Moves(remote, remote')
        /\ \A no : CallMatches(remote', no)
        /\ OwnCall(remote', user, issued)
    <2>1. remote' = FillWritePipeline([remote EXCEPT !.enabled = TRUE, !.token = saved[user]],
                                      queue[user])
      BY <1>1 DEF EnableNetwork
    <2>2. /\ queue[user] \in Seq(Batch) /\ Ascending(queue[user]) /\ user \in User
          /\ saved[user] \in {user, NoToken} /\ counter \in Nat
          /\ OfUser(queue[user], user, issued)
      BY Facts
    <2> DEFINE q == queue[user]
               token == saved[user]
    <2>3. /\ q \in Seq(Batch) /\ Ascending(q) /\ token \in {user, NoToken}
          /\ OfUser(q, user, issued)
          /\ remote' = FillWritePipeline([remote EXCEPT !.enabled = TRUE, !.token = token], q)
      BY <2>1, <2>2
    <2> HIDE DEF q, token
    <2>4. /\ remote' \in Remote /\ Sound(remote') /\ Full(remote', q) /\ Moves(remote, remote')
          /\ \A no : CallMatches(remote', no)
          /\ OwnCall(remote', user, issued)
      BY <1>2, <2>2, <2>3, EnableIs
    <2> QED  BY <2>4 DEF q
  <1>4. /\ queue' = queue /\ saved' = saved /\ issued' = issued /\ applied' = applied
        /\ refused' = refused /\ acked' = acked /\ rejected' = rejected /\ unread' = unread
        /\ faults' = faults
    BY <1>1 DEF persistent, backend, settled
  <1>5. /\ saved' \in [User -> User \cup {NoToken}] /\ OwnTokens' /\ unread' \subseteq Write
        /\ faults' \in Nat /\ applied' \subseteq Write /\ refused' \subseteq Write
    BY <1>4 DEF Inv, TypeOK, Queues, OwnTokens
  <1> QED  BY <1>1, <1>3, <1>4, <1>5, RemoteStep

\* A step that changes nothing but the remote store and the faults.
LEMMA OnlyRemoteStep ==
    ASSUME Inv, remote' \in Remote, Sound(remote'), Full(remote', queue[user]),
           CallMatches(remote', refused), OwnCall(remote', user, issued), Moves(remote, remote'),
           UNCHANGED <<persistent, engine, tasks, auth, backend, settled>>,
           faults' \in {faults, faults + 1}
    PROVE  Inv'
  <1>1. /\ queue' = queue /\ saved' = saved /\ issued' = issued /\ applied' = applied
        /\ refused' = refused /\ acked' = acked /\ rejected' = rejected /\ unread' = unread
    BY DEF persistent, backend, settled
  <1>2. /\ saved' \in [User -> User \cup {NoToken}] /\ OwnTokens' /\ unread' \subseteq Write
        /\ faults' \in Nat /\ applied' \subseteq Write /\ refused' \subseteq Write
    BY <1>1 DEF Inv, TypeOK, Queues, OwnTokens
  <1> QED  BY <1>1, <1>2, RemoteStep

\* Disabling the network preserves the invariant.
LEMMA TurnOffStep ==
    ASSUME Inv, TurnNetworkOff
    PROVE  Inv'
  <1>1. /\ remote' = DisableNetworkInternal(remote) /\ faults' = faults + 1
        /\ UNCHANGED <<persistent, engine, tasks, auth, backend, settled>>
    BY DEF TurnNetworkOff
  <1> DEFINE t == remote'
  <1>2. /\ t \in Remote /\ Sound(t) /\ ~Started(t) /\ t.conn = NoConn
        /\ ~t.enabled /\ t.pipeline = <<>> /\ t.asks = remote.asks
        /\ \/ t.closeCount = remote.closeCount /\ ~Started(remote)
           \/ t.closeCount = remote.closeCount + 1
    BY <1>1, Facts, DisableIs
  <1>3. Full(t, queue[user]) /\ CallMatches(t, refused) /\ OwnCall(t, user, issued)
    BY <1>2 DEF Full, ShouldStartWriteStream, CallMatches, OwnCall
  <1>4. Moves(remote, t)
    BY <1>2, Facts DEF Moves, Restarts, Started
  <1> QED  BY <1>1, <1>2, <1>3, <1>4, OnlyRemoteStep

\* The end of a backoff preserves the invariant.
LEMMA BackoffStep ==
    ASSUME Inv, BackoffElapses
    PROVE  Inv'
  <1> DEFINE s == [remote EXCEPT !.state = "Initial"]
             t == Start(s)
  <1>1. /\ remote.state = "Backoff" /\ remote' = t
        /\ UNCHANGED <<persistent, engine, tasks, auth, backend, settled, faults>>
    BY DEF BackoffElapses
  <1>2. /\ s \in Remote /\ s.ok = remote.ok /\ s.state = "Initial" /\ s.conn = remote.conn
        /\ s.handshake = remote.handshake /\ s.idle = remote.idle /\ s.enabled = remote.enabled
        /\ s.token = remote.token /\ s.asks = remote.asks /\ s.closeCount = remote.closeCount
        /\ s.pipeline = remote.pipeline
    BY Facts DEF Remote
  <1> HIDE DEF s
  <1>3. /\ t \in Remote /\ Started(t) /\ t.state # "Open" /\ (s.ok => t.ok)
        /\ Moves(s, t) /\ t.closeCount = s.closeCount
        /\ t.enabled = s.enabled /\ t.pipeline = s.pipeline
        /\ t.idle = s.idle /\ t.handshake = s.handshake
        /\ t.token = s.token /\ t.conn = s.conn
    BY <1>2, Facts, StartIs DEF Started
  <1> HIDE DEF t
  <1>4. /\ remote.ok /\ remote.conn = NoConn /\ remote.enabled /\ ~remote.handshake
        /\ ~remote.idle /\ remote.pipeline # <<>>
    BY <1>1, Facts DEF Sound, Started, Usable
  <1>5. Sound(t)
    BY <1>2, <1>3, <1>4 DEF Sound, Started, Usable
  <1>6. Full(t, queue[user])
    BY <1>2, <1>3, Facts DEF Full, ShouldStartWriteStream
  <1>7. CallMatches(t, refused) /\ OwnCall(t, user, issued)
    BY <1>2, <1>3, <1>4, Facts DEF CallMatches, OwnCall
  <1>8. Moves(remote, t)
    BY <1>1, <1>2, <1>3 DEF Moves, Restarts, Started
  <1> QED  BY <1>1, <1>3, <1>5, <1>6, <1>7, <1>8, OnlyRemoteStep

\* Closing an idle stream preserves the invariant.
LEMMA IdleStep ==
    ASSUME Inv, IdleTimeout
    PROVE  Inv'
  <1>1. /\ remote.idle /\ remote' = Stop(remote)
        /\ UNCHANGED <<persistent, engine, tasks, auth, backend, settled, faults>>
    BY DEF IdleTimeout
  <1> DEFINE t == remote'
  <1>2. remote.pipeline = <<>> /\ remote.state = "Open" /\ remote.ok
    BY <1>1, Facts DEF Sound
  <1>3. /\ t \in Remote /\ t.ok /\ ~Started(t) /\ t.conn = NoConn /\ ~t.idle /\ ~t.handshake
        /\ t.enabled = remote.enabled /\ t.pipeline = remote.pipeline /\ t.token = remote.token
        /\ t.asks = remote.asks
        /\ \/ t.closeCount = remote.closeCount /\ ~Started(remote)
           \/ t.closeCount = remote.closeCount + 1
    <2>1. /\ remote \in Remote /\ ((remote.state = "Open") <=> (remote.conn # NoConn))
          /\ (remote.handshake => remote.state = "Open") /\ (remote.idle => remote.state = "Open")
          /\ counter \in Nat
      BY Facts DEF Sound
    <2> QED  BY <1>1, <1>2, <2>1, StopIs
  <1>4. Sound(t)
    BY <1>2, <1>3, Facts DEF Sound, Started
  <1>5. Full(t, queue[user])
    BY <1>2, <1>3, Facts DEF Full, ShouldStartWriteStream
  <1>6. CallMatches(t, refused) /\ OwnCall(t, user, issued)
    BY <1>3, Facts DEF CallMatches, OwnCall
  <1>7. Moves(remote, t)
    BY <1>3, Facts DEF Moves, Restarts, Started
  <1> QED  BY <1>1, <1>3, <1>4, <1>5, <1>6, <1>7, OnlyRemoteStep

\* Reading an answer takes it off the call, and keeps its token.
LEMMA AfterReadIs ==
    ASSUME Inv, HasAnswer, NEW t, t = AfterRead
    PROVE  /\ t \in Remote /\ t.conn \in Conn /\ t.conn # NoConn
           /\ t.ok = remote.ok /\ t.closeCount = remote.closeCount /\ t.asks = remote.asks
           /\ t.enabled = remote.enabled /\ t.pipeline = remote.pipeline
           /\ t.state = remote.state /\ t.handshake = remote.handshake /\ t.idle = remote.idle
           /\ t.token = user
           /\ t.conn.user = user /\ t.conn.requests = remote.conn.requests
           /\ t.conn.status = remote.conn.status
           /\ t.conn.responses = Tail(remote.conn.responses)
           /\ remote.conn.responses # <<>>
  <1>1. /\ remote.conn # NoConn /\ remote.conn.responses # <<>> /\ remote \in Remote
        /\ remote.conn \in Conn /\ remote.conn.user = user /\ user \in User
        /\ remote.conn.responses \in Seq(Request)
    BY Facts DEF HasAnswer
  <1> DEFINE c == [remote.conn EXCEPT !.responses = Tail(remote.conn.responses)]
  <1>2. t = [remote EXCEPT !.conn = c, !.token = remote.conn.user]
    BY DEF AfterRead
  <1>3. Tail(remote.conn.responses) \in Seq(Request)
    BY <1>1, TailIs
  <1>4. /\ c \in Conn /\ c.user = user /\ c.requests = remote.conn.requests
        /\ c.status = remote.conn.status /\ c.responses = Tail(remote.conn.responses)
    BY <1>1, <1>3 DEF Conn
  <1> HIDE DEF c
  <1>5. t \in Remote
    BY <1>1, <1>2, <1>4 DEF Remote
  <1>6. /\ t.ok = remote.ok /\ t.closeCount = remote.closeCount /\ t.asks = remote.asks
        /\ t.enabled = remote.enabled /\ t.pipeline = remote.pipeline
        /\ t.state = remote.state /\ t.handshake = remote.handshake /\ t.idle = remote.idle
        /\ t.token = user /\ t.conn = c
    BY <1>1, <1>2 DEF Remote
  <1> QED  BY <1>1, <1>4, <1>5, <1>6, ConnAssumption

\* OnWriteStreamHandshakeComplete preserves the invariant.
LEMMA HandshakeStep ==
    ASSUME Inv, HandshakeComplete
    PROVE  Inv'
  <1> DEFINE a == AfterRead
             b == [a EXCEPT !.handshake = TRUE]
             t == Send(b, remote.pipeline)
  <1>1. /\ HasAnswer /\ ~remote.handshake /\ remote' = t
        /\ saved' = [saved EXCEPT ![user] = remote.conn.user]
        /\ UNCHANGED <<queue, engine, tasks, auth, backend, settled, faults>>
    BY DEF HandshakeComplete
  <1>2. /\ a \in Remote /\ a.conn \in Conn /\ a.conn # NoConn
        /\ a.ok = remote.ok /\ a.closeCount = remote.closeCount /\ a.asks = remote.asks
        /\ a.enabled = remote.enabled /\ a.pipeline = remote.pipeline
        /\ a.state = remote.state /\ a.handshake = remote.handshake /\ a.idle = remote.idle
        /\ a.token = user
        /\ a.conn.user = user /\ a.conn.requests = remote.conn.requests
        /\ a.conn.status = remote.conn.status
        /\ a.conn.responses = Tail(remote.conn.responses)
        /\ remote.conn.responses # <<>>
    BY <1>1, AfterReadIs
  <1> HIDE DEF a
  <1>3. /\ b \in Remote /\ b.conn = a.conn
        /\ b.ok = a.ok /\ b.closeCount = a.closeCount /\ b.asks = a.asks
        /\ b.enabled = a.enabled /\ b.pipeline = a.pipeline
        /\ b.state = a.state /\ b.handshake = TRUE /\ b.idle = a.idle /\ b.token = a.token
    BY <1>2 DEF Remote
  <1> HIDE DEF b
  <1>4. remote.pipeline \in Seq(Batch) /\ remote.pipeline \in Seq(Request)
    BY Facts, SeqMonotonic DEF Remote, Request
  <1>5. /\ t \in Remote /\ t.conn \in Conn /\ t.conn # NoConn
        /\ t.ok = b.ok /\ t.closeCount = b.closeCount /\ t.asks = b.asks
        /\ t.enabled = b.enabled /\ t.pipeline = b.pipeline
        /\ t.state = b.state /\ t.handshake = b.handshake
        /\ t.token = b.token /\ (t.idle => b.idle)
        /\ t.conn.user = b.conn.user /\ t.conn.responses = b.conn.responses
        /\ t.conn.status = b.conn.status
        /\ t.conn.requests = b.conn.requests \o remote.pipeline
    <2> DEFINE p == remote.pipeline
    <2>1. b.conn # NoConn /\ b \in Remote
      BY <1>2, <1>3
    <2>2. t = Send(b, p) /\ p \in Seq(Request)
      BY <1>4
    <2> HIDE DEF t, p
    <2>3. /\ t \in Remote /\ t.conn \in Conn /\ t.conn # NoConn
          /\ t.ok = b.ok /\ t.closeCount = b.closeCount /\ t.asks = b.asks
          /\ t.enabled = b.enabled /\ t.pipeline = b.pipeline
          /\ t.state = b.state /\ t.handshake = b.handshake
          /\ t.token = b.token /\ (t.idle => b.idle)
          /\ t.conn.user = b.conn.user /\ t.conn.responses = b.conn.responses
          /\ t.conn.status = b.conn.status
      BY <2>1, <2>2, SendIs
    <2>4. t.conn.requests = b.conn.requests \o p
      BY <2>1, <2>2, SendIs
    <2> QED  BY <2>3, <2>4 DEF p
  <1> HIDE DEF t
  <1>6. /\ remote.conn # NoConn /\ remote.state = "Open" /\ remote.ok /\ ~remote.idle
        /\ remote.enabled
    BY <1>1, Facts DEF HasAnswer, Sound, Started, Usable
  <1>7. /\ remote.conn.requests = <<>> /\ Tail(remote.conn.responses) = <<>>
        /\ remote.conn.status = "open"
    <2> DEFINE x == remote.conn.responses
               y == remote.conn.requests
    <2>1. remote.conn.status = "open" /\ x \o y = <<Handshake>>
      BY <1>1, <1>2, <1>6, Facts DEF CallMatches, Status
    <2>2. x \in Seq(Request) /\ y \in Seq(Request) /\ x # <<>>
      BY <1>2, <1>6, Facts
    <2> HIDE DEF x, y
    <2>3. Len(x) \in Nat /\ Len(y) \in Nat /\ Len(x) + Len(y) = 1
      <3>1. Len(x \o y) = Len(x) + Len(y)
        BY <2>2, ConcatProperties
      <3>2. Len(<<Handshake>>) = 1
        OBVIOUS
      <3> QED  BY <2>1, <2>2, <3>1, <3>2, LenProperties
    <2>4. Len(x) \in Nat \ {0} /\ Tail(x) \in Seq(Request) /\ Len(Tail(x)) = Len(x) - 1
      BY <2>2, TailIs
    <2>5. Len(y) = 0 /\ Len(Tail(x)) = 0
      BY <2>3, <2>4
    <2>6. y = <<>> /\ Tail(x) = <<>>
      BY <2>2, <2>4, <2>5, EmptySeq
    <2> QED  BY <2>1, <2>6 DEF x, y
  <1>8. t.conn.requests = remote.pipeline /\ t.conn.responses = <<>> /\ t.conn.status = "open"
    <2>1. <<>> \o remote.pipeline = remote.pipeline
      BY <1>4, ConcatEmptySeq
    <2> QED  BY <1>2, <1>3, <1>5, <1>7, <2>1
  <1>9. Sound(t)
    BY <1>2, <1>3, <1>5, <1>6 DEF Sound, Started, Usable
  <1>10. Full(t, queue[user])
    BY <1>2, <1>3, <1>5, Facts DEF Full, ShouldStartWriteStream, Started
  <1>11. CallMatches(t, refused)
    <2>1. <<>> \o remote.pipeline = remote.pipeline
      BY <1>4, ConcatEmptySeq
    <2> QED  BY <1>2, <1>3, <1>5, <1>8, <2>1 DEF CallMatches
  <1>12. OwnCall(t, user, issued)
    <2> DEFINE p == remote.pipeline
    <2>1. \A i \in DOMAIN p : p[i].w \in DOMAIN issued /\ issued[p[i].w] = user
      <3>1. DOMAIN p = 1 .. FullLength(remote, queue[user])
            /\ \A i \in 1 .. FullLength(remote, queue[user]) :
                  p[i] = queue[user][i] /\ i \in DOMAIN queue[user]
        BY Facts, FullIs
      <3> HIDE DEF p
      <3> QED  BY <3>1, Facts DEF OfUser
    <2>2. t.conn.requests = p
      BY <1>8
    <2> HIDE DEF p
    <2> QED  BY <1>2, <1>3, <1>5, <2>1, <2>2 DEF OwnCall
  <1>13. Moves(remote, t)
    BY <1>2, <1>3, <1>5 DEF Moves
  <1>14. saved' \in [User -> User \cup {NoToken}] /\ OwnTokens'
    <2>1. saved' = [saved EXCEPT ![user] = user] /\ user \in User
      BY <1>1, <1>6, Facts
    <2> QED  BY <2>1, Facts DEF Inv, Queues, OwnTokens
  <1>15. /\ issued' = issued /\ applied' = applied /\ unread' = unread
         /\ refused' = refused /\ acked' = acked /\ rejected' = rejected
         /\ unread' \subseteq Write /\ faults' \in Nat /\ applied' \subseteq Write
         /\ refused' \subseteq Write
    BY <1>1 DEF backend, settled, Inv, TypeOK
  <1> QED  BY <1>1, <1>5, <1>9, <1>10, <1>11, <1>12, <1>13, <1>14, <1>15, RemoteStep

\* A step that changes nothing of the remote store but what is on the call.
LEMMA CallIs ==
    ASSUME Inv, remote.conn # NoConn, NEW c \in Conn, c.user = user, NEW t,
           t = [remote EXCEPT !.conn = c]
    PROVE  /\ t \in Remote /\ Sound(t) /\ Full(t, queue[user]) /\ Moves(remote, t)
           /\ t.conn = c /\ t.handshake = remote.handshake /\ t.pipeline = remote.pipeline
           /\ t.enabled = remote.enabled /\ t.token = remote.token
  <1>1. t \in Remote
    BY Facts DEF Remote
  <1>2. /\ t.ok = remote.ok /\ t.closeCount = remote.closeCount /\ t.asks = remote.asks
        /\ t.enabled = remote.enabled /\ t.pipeline = remote.pipeline
        /\ t.state = remote.state /\ t.handshake = remote.handshake /\ t.idle = remote.idle
        /\ t.token = remote.token /\ t.conn = c
    BY Facts DEF Remote
  <1>3. Sound(t)
    BY <1>2, Facts, ConnAssumption DEF Sound, Started, Usable
  <1>4. Full(t, queue[user])
    BY <1>2, Facts DEF Full, ShouldStartWriteStream, Started
  <1> QED  BY <1>1, <1>2, <1>3, <1>4 DEF Moves

\* The request the backend handles next.
LEMMA PendingIs ==
    ASSUME Inv, Pending
    PROVE  /\ remote.conn # NoConn /\ remote.conn.status = "open" /\ remote.conn \in Conn
           /\ remote.conn.requests \in Seq(Request) /\ remote.conn.responses \in Seq(Request)
           /\ Asked \in Request /\ Asked = remote.conn.requests[1]
           /\ WritesOf(Asked) \subseteq Write
           /\ Tail(remote.conn.requests) \in Seq(Request)
           /\ \A i \in DOMAIN Tail(remote.conn.requests) :
                 \E j \in DOMAIN remote.conn.requests :
                     Tail(remote.conn.requests)[i] = remote.conn.requests[j]
  <1>1. /\ remote.conn # NoConn /\ remote.conn.status = "open" /\ remote.conn \in Conn
        /\ remote.conn.requests \in Seq(Request) /\ remote.conn.responses \in Seq(Request)
        /\ remote.conn.requests # <<>>
    BY Facts DEF Pending, Serving
  <1> DEFINE r == remote.conn.requests
  <1>2. r \in Seq(Request) /\ r # <<>> /\ Asked = Head(r)
    BY <1>1 DEF Asked
  <1> HIDE DEF r
  <1>3. /\ Len(r) \in Nat \ {0} /\ DOMAIN r = 1..Len(r) /\ r[1] \in Request /\ Head(r) = r[1]
        /\ Tail(r) \in Seq(Request) /\ DOMAIN Tail(r) = 1 .. Len(r) - 1
        /\ \A i \in 1 .. Len(r) - 1 : Tail(r)[i] = r[i + 1]
    BY <1>2, TailIs
  <1>4. WritesOf(Asked) \subseteq Write
    BY <1>2, <1>3 DEF WritesOf, Request, Batch
  <1>5. \A i \in DOMAIN Tail(r) : \E j \in DOMAIN r : Tail(r)[i] = r[j]
    <2>1. \A i \in DOMAIN Tail(r) : i + 1 \in DOMAIN r
      BY <1>3
    <2> QED  BY <1>3, <2>1
  <1> QED  BY <1>1, <1>2, <1>3, <1>4, <1>5 DEF r

\* A request that is answered preserves the invariant.
LEMMA ServeStep ==
    ASSUME Inv, Serve
    PROVE  Inv'
  <1> DEFINE x == remote.conn.responses
             y == remote.conn.requests
             c == [remote.conn EXCEPT !.requests = Tail(y), !.responses = Append(x, Asked)]
             t == [remote EXCEPT !.conn = c]
  <1>1. /\ Pending /\ applied' = applied \cup WritesOf(Asked) /\ remote' = t
        /\ UNCHANGED <<persistent, engine, tasks, auth, issued, refused, settled, faults>>
    BY DEF Serve
  <1>2. /\ remote.conn # NoConn /\ remote.conn.status = "open" /\ remote.conn \in Conn
        /\ y \in Seq(Request) /\ x \in Seq(Request) /\ Asked \in Request /\ Asked = y[1]
        /\ WritesOf(Asked) \subseteq Write
        /\ Tail(y) \in Seq(Request)
        /\ \A i \in DOMAIN Tail(y) : \E j \in DOMAIN y : Tail(y)[i] = y[j]
        /\ y # <<>>
    BY <1>1, PendingIs DEF Pending
  <1>3. Append(x, Asked) \in Seq(Request)
    BY <1>2, AppendProperties
  <1>4. /\ c \in Conn /\ c.user = remote.conn.user /\ c.status = "open"
        /\ c.requests = Tail(y) /\ c.responses = Append(x, Asked)
    BY <1>2, <1>3 DEF Conn
  <1>5. Append(x, Asked) \o Tail(y) = x \o y
    <2> HIDE DEF x, y
    <2>1. y = <<Asked>> \o Tail(y)
      <3>1. /\ Len(y) \in Nat \ {0} /\ y[1] \in Request
            /\ Tail(y) \in Seq(Request) /\ Len(Tail(y)) = Len(y) - 1
            /\ \A i \in 1 .. Len(y) - 1 : Tail(y)[i] = y[i + 1]
        BY <1>2, TailIs
      <3>2. <<Asked>> \in Seq(Request) /\ Len(<<Asked>>) = 1 /\ <<Asked>>[1] = Asked
        BY <1>2
      <3> DEFINE a == <<Asked>>
                 z == a \o Tail(y)
      <3>3. a \in Seq(Request) /\ Len(a) = 1 /\ a[1] = Asked
        BY <3>2
      <3> HIDE DEF a
      <3>4. /\ z \in Seq(Request) /\ Len(z) = Len(a) + Len(Tail(y))
            /\ \A i \in 1..Len(a) : z[i] = a[i]
            /\ \A i \in 1..Len(Tail(y)) : z[Len(a) + i] = Tail(y)[i]
        BY <3>1, <3>3, ConcatProperties
      <3> HIDE DEF z
      <3>5. \A i \in 1..Len(y) : y[i] = z[i]
        <4> SUFFICES ASSUME NEW i \in 1..Len(y) PROVE y[i] = z[i]
          OBVIOUS
        <4>1. CASE i = 1
          BY <1>2, <3>3, <3>4, <4>1
        <4>2. CASE i # 1
          <5>1. i - 1 \in 1..Len(Tail(y)) /\ Len(a) + (i - 1) = i /\ (i - 1) + 1 = i
            BY <3>1, <3>3, <4>2
          <5> QED  BY <3>1, <3>4, <5>1
        <4> QED  BY <4>1, <4>2
      <3>6. Len(y) = Len(z)
        BY <3>1, <3>3, <3>4
      <3>7. y = z
        BY <1>2, <3>4, <3>5, <3>6, SeqEqual
      <3> QED  BY <3>7 DEF z, a
    <2>2. Append(x, Asked) = x \o <<Asked>>
      BY <1>2, AppendIsConcat
    <2>3. \A a, b, d \in Seq(Request) : (a \o b) \o d = a \o (b \o d)
      BY ConcatAssociative
    <2>4. x \in Seq(Request) /\ <<Asked>> \in Seq(Request) /\ Tail(y) \in Seq(Request)
      BY <1>2
    <2>5. (x \o <<Asked>>) \o Tail(y) = x \o (<<Asked>> \o Tail(y))
      BY <2>3, <2>4, Zenon
    <2> QED  BY <2>1, <2>2, <2>5, Zenon
  <1>6. c.responses \o c.requests = x \o y
    BY <1>4, <1>5
  <1>7. \A i \in DOMAIN c.requests : c.requests[i] # Handshake =>
            c.requests[i].w \in DOMAIN issued /\ issued[c.requests[i].w] = user
    <2>1. \A j \in DOMAIN y : y[j] # Handshake =>
            y[j].w \in DOMAIN issued /\ issued[y[j].w] = user
      BY <1>2, Facts DEF OwnCall
    <2> HIDE DEF c, y
    <2> QED  BY <1>2, <1>4, <2>1
  <1> HIDE DEF c
  <1>8. /\ t \in Remote /\ Sound(t) /\ Full(t, queue[user]) /\ Moves(remote, t)
        /\ t.conn = c /\ t.handshake = remote.handshake /\ t.pipeline = remote.pipeline
        /\ t.enabled = remote.enabled /\ t.token = remote.token
    <2>1. c.user = user
      BY <1>2, <1>4, Facts
    <2> QED  BY <1>2, <1>4, <2>1, CallIs
  <1> HIDE DEF t
  <1>9. CallMatches(t, refused)
    <2>1. x \o y = IF remote.handshake THEN remote.pipeline ELSE <<Handshake>>
      BY <1>2, Facts DEF CallMatches
    <2> HIDE DEF x, y
    <2> QED  BY <1>4, <1>6, <1>8, <2>1 DEF CallMatches
  <1>10. OwnCall(t, user, issued)
    BY <1>2, <1>4, <1>7, <1>8, Facts DEF OwnCall
  <1>11. /\ queue' = queue /\ saved' = saved /\ refused' = refused
         /\ acked' = acked /\ rejected' = rejected /\ unread' = unread
         /\ saved' \in [User -> User \cup {NoToken}] /\ OwnTokens'
         /\ unread' \subseteq Write /\ faults' \in Nat /\ applied' \subseteq Write
         /\ refused' \subseteq Write
    BY <1>1, <1>2 DEF persistent, settled, Inv, TypeOK, Queues, OwnTokens
  <1> QED  BY <1>1, <1>8, <1>9, <1>10, <1>11, RemoteStep

\* A request that is refused preserves the invariant.
LEMMA RefuseStep ==
    ASSUME Inv, Refuse
    PROVE  Inv'
  <1> DEFINE x == remote.conn.responses
             y == remote.conn.requests
             p == remote.pipeline
             c == [remote.conn EXCEPT !.requests = Tail(y), !.status = "permanent"]
             t == [remote EXCEPT !.conn = c]
  <1>1. /\ Pending /\ refused' = refused \cup WritesOf(Asked) /\ remote' = t
        /\ faults' = faults + 1
        /\ UNCHANGED <<persistent, engine, tasks, auth, issued, applied, settled>>
    BY DEF Refuse
  <1>2. /\ remote.conn # NoConn /\ remote.conn.status = "open" /\ remote.conn \in Conn
        /\ y \in Seq(Request) /\ x \in Seq(Request) /\ Asked \in Request /\ Asked = y[1]
        /\ WritesOf(Asked) \subseteq Write
        /\ Tail(y) \in Seq(Request)
        /\ \A i \in DOMAIN Tail(y) : \E j \in DOMAIN y : Tail(y)[i] = y[j]
        /\ y # <<>>
    BY <1>1, PendingIs DEF Pending
  <1>3. /\ c \in Conn /\ c.user = remote.conn.user /\ c.status = "permanent"
        /\ c.requests = Tail(y) /\ c.responses = x
    BY <1>2 DEF Conn, Status
  <1>4. \A i \in DOMAIN c.requests : c.requests[i] # Handshake =>
            c.requests[i].w \in DOMAIN issued /\ issued[c.requests[i].w] = user
    <2>1. \A j \in DOMAIN y : y[j] # Handshake =>
            y[j].w \in DOMAIN issued /\ issued[y[j].w] = user
      BY <1>2, Facts DEF OwnCall
    <2> HIDE DEF c, y
    <2> QED  BY <1>2, <1>3, <2>1
  <1> HIDE DEF c
  <1>5. /\ t \in Remote /\ Sound(t) /\ Full(t, queue[user]) /\ Moves(remote, t)
        /\ t.conn = c /\ t.handshake = remote.handshake /\ t.pipeline = p
        /\ t.enabled = remote.enabled /\ t.token = remote.token
    <2>1. c.user = user
      BY <1>2, <1>3, Facts
    <2> QED  BY <1>2, <1>3, <2>1, CallIs
  <1> HIDE DEF t
  <1>6. x \o y = IF remote.handshake THEN p ELSE <<Handshake>>
    BY <1>2, Facts DEF CallMatches
  <1>7. p \in Seq(Batch)
    BY Facts DEF Remote
  <1> HIDE DEF x, y, p
  <1>8. /\ Len(x) \in Nat /\ Len(y) \in Nat \ {0} /\ Len(x \o y) = Len(x) + Len(y)
        /\ Len(Tail(y)) = Len(y) - 1
        /\ \A i \in 1..Len(x) : (x \o y)[i] = x[i]
        /\ (x \o y)[Len(x) + 1] = y[1]
    <2>1. Len(x) \in Nat /\ Len(y) \in Nat \ {0} /\ Len(Tail(y)) = Len(y) - 1
      BY <1>2, TailIs, LenProperties
    <2>2. /\ Len(x \o y) = Len(x) + Len(y)
          /\ \A i \in 1..Len(x) : (x \o y)[i] = x[i]
          /\ \A i \in 1..Len(y) : (x \o y)[Len(x) + i] = y[i]
      BY <1>2, ConcatProperties
    <2> QED  BY <2>1, <2>2
  <1>9. ASSUME remote.handshake
        PROVE  /\ Len(p) = Len(x) + Len(Tail(y)) + 1 /\ x = SubSeq(p, 1, Len(x))
               /\ p[Len(x) + 1].w \in refused'
    <2>1. x \o y = p
      BY <1>6, <1>9
    <2>2. Len(p) = Len(x) + Len(Tail(y)) + 1
      BY <1>8, <2>1
    <2>3. x = SubSeq(p, 1, Len(x))
      <3>1. 1 \in 1 .. Len(p) + 1 /\ Len(x) \in 1 - 1 .. Len(p)
        BY <1>8, <2>1
      <3> DEFINE z == SubSeq(p, 1, Len(x))
      <3>2. z \in Seq(Request) /\ Len(z) = Len(x) - 1 + 1
            /\ \A i \in 1 .. Len(x) - 1 + 1 : z[i] = p[1 + i - 1]
        <4>1. p \in Seq(Request)
          BY <1>7, SeqMonotonic DEF Request
        <4> QED  BY <3>1, <4>1, SubSeqLen, SubSeqItems
      <3> HIDE DEF z
      <3>3. Len(z) = Len(x) /\ \A i \in 1..Len(x) : x[i] = z[i]
        BY <1>8, <2>1, <3>2
      <3>4. x = z
        BY <1>2, <3>2, <3>3, SeqEqual
      <3> QED  BY <3>4 DEF z
    <2>4. p[Len(x) + 1] = Asked
      BY <1>2, <1>8, <2>1
    <2>5. p[Len(x) + 1] \in Batch
      <3>1. Len(x) + 1 \in 1..Len(p)
        BY <1>8, <2>1
      <3> QED  BY <1>7, <3>1, ElementOfSeq
    <2>6. WritesOf(Asked) = {Asked.w}
      BY <2>4, <2>5, HandshakeAssumption DEF WritesOf
    <2> QED  BY <1>1, <2>2, <2>3, <2>4, <2>6
  <1>10. ~remote.handshake => x = <<>>
    <2>1. ~remote.handshake => Len(x \o y) = 1
      BY <1>6
    <2>2. ~remote.handshake => Len(x) = 0
      BY <1>8, <2>1
    <2> QED  BY <1>2, <2>2, EmptySeq
  <1>11. CallMatches(t, refused')
    BY <1>3, <1>5, <1>9, <1>10 DEF CallMatches
  <1>12. OwnCall(t, user, issued)
    BY <1>2, <1>3, <1>4, <1>5, Facts DEF OwnCall
  <1>13. /\ queue' = queue /\ saved' = saved /\ applied' = applied
         /\ acked' = acked /\ rejected' = rejected /\ unread' = unread
         /\ saved' \in [User -> User \cup {NoToken}] /\ OwnTokens'
         /\ unread' \subseteq Write /\ faults' \in Nat /\ applied' \subseteq Write
         /\ refused' \subseteq Write /\ refused \subseteq refused'
    BY <1>1, <1>2 DEF persistent, settled, Inv, TypeOK, Queues, OwnTokens
  <1> QED  BY <1>1, <1>5, <1>11, <1>12, <1>13, RemoteStep

\* The loss of a connection preserves the invariant.
LEMMA BreakStep ==
    ASSUME Inv, Break
    PROVE  Inv'
  <1> DEFINE c == [remote.conn EXCEPT !.responses = <<>>, !.status = "transient"]
             t == [remote EXCEPT !.conn = c]
  <1>1. /\ Serving /\ remote' = t /\ faults' = faults + 1
        /\ UNCHANGED <<persistent, engine, tasks, auth, backend, settled>>
    BY DEF Break
  <1>2. remote.conn # NoConn /\ remote.conn \in Conn /\ remote.conn.user = user
    BY <1>1, Facts DEF Serving
  <1>3. /\ c \in Conn /\ c.user = user /\ c.status = "transient"
        /\ c.requests = remote.conn.requests /\ c.responses = <<>>
    <2>1. <<>> \in Seq(Request)
      BY EmptySeq
    <2> QED  BY <1>2, <2>1 DEF Conn, Status
  <1> HIDE DEF c
  <1>4. /\ t \in Remote /\ Sound(t) /\ Full(t, queue[user]) /\ Moves(remote, t)
        /\ t.conn = c /\ t.handshake = remote.handshake /\ t.pipeline = remote.pipeline
        /\ t.enabled = remote.enabled /\ t.token = remote.token
    BY <1>2, <1>3, CallIs
  <1> HIDE DEF t
  <1>5. CallMatches(t, refused)
    BY <1>3, <1>4 DEF CallMatches
  <1>6. OwnCall(t, user, issued)
    BY <1>2, <1>3, <1>4, Facts DEF OwnCall
  <1> QED  BY <1>1, <1>4, <1>5, <1>6, OnlyRemoteStep

\* The items of a queue with one more at its end.
LEMMA AppendItems ==
    ASSUME NEW S, NEW q \in Seq(S), NEW e \in S
    PROVE  /\ Len(q) \in Nat /\ DOMAIN q = 1..Len(q)
           /\ Append(q, e) \in Seq(S) /\ Len(Append(q, e)) = Len(q) + 1
           /\ DOMAIN Append(q, e) = 1 .. Len(q) + 1
           /\ Append(q, e)[Len(q) + 1] = e
           /\ \A i \in 1..Len(q) : Append(q, e)[i] = q[i]
  <1>1. /\ Append(q, e) \in Seq(S) /\ Len(Append(q, e)) = Len(q) + 1
        /\ Append(q, e)[Len(q) + 1] = e /\ \A i \in 1..Len(q) : Append(q, e)[i] = q[i]
    BY AppendProperties
  <1>2. /\ Len(q) \in Nat /\ DOMAIN q = 1..Len(q)
        /\ DOMAIN Append(q, e) = 1 .. Len(Append(q, e))
    BY <1>1, LenProperties
  <1> QED  BY <1>1, <1>2

\* A batch at the end of a queue leaves its first batches.
LEMMA FirstOfAppend ==
    ASSUME NEW S, NEW q \in Seq(S), NEW e \in S, NEW n \in 0..Len(q)
    PROVE  SubSeq(Append(q, e), 1, n) = SubSeq(q, 1, n)
  <1> DEFINE r == Append(q, e)
             x == SubSeq(r, 1, n)
             y == SubSeq(q, 1, n)
  <1>1. /\ Len(q) \in Nat /\ r \in Seq(S) /\ Len(r) = Len(q) + 1
        /\ \A i \in 1..Len(q) : r[i] = q[i]
    BY AppendItems
  <1> HIDE DEF r
  <1>2. 1 \in 1 .. Len(q) + 1 /\ n \in 1 - 1 .. Len(q) /\ 1 \in 1 .. Len(r) + 1
        /\ n \in 1 - 1 .. Len(r)
    BY <1>1
  <1>3. x \in Seq(S) /\ Len(x) = n - 1 + 1 /\ \A i \in 1 .. n - 1 + 1 : x[i] = r[1 + i - 1]
    BY <1>1, <1>2, SubSeqLen, SubSeqItems
  <1>4. y \in Seq(S) /\ Len(y) = n - 1 + 1 /\ \A i \in 1 .. n - 1 + 1 : y[i] = q[1 + i - 1]
    BY <1>2, SubSeqLen, SubSeqItems
  <1> HIDE DEF x, y
  <1>5. Len(x) = Len(y) /\ \A i \in 1..Len(x) : x[i] = y[i]
    BY <1>1, <1>3, <1>4
  <1>6. x = y
    BY <1>3, <1>4, <1>5, SeqEqual
  <1> QED  BY <1>6 DEF x, y, r

\* SyncEngine::WriteMutations preserves the invariant.
LEMMA WriteStep ==
    ASSUME Inv, WriteMutations
    PROVE  Inv'
  <1> DEFINE b == [id |-> nextId, w |-> Len(issued) + 1]
             old == queue[user]
             q == Append(old, b)
             is == Append(issued, user)
             k == [user |-> user, id |-> b.id, w |-> b.w]
  <1>1. /\ Len(issued) < MaxWrites /\ issued' = is /\ queue' = [queue EXCEPT ![user] = q]
        /\ nextId' = nextId + 1
        /\ callbacks' = callbacks \cup {k}
        /\ remote' = FillWritePipeline(remote, q)
        /\ UNCHANGED <<saved, user, waits, tasks, auth, applied, refused, settled, faults>>
    BY DEF WriteMutations
  <1>2. /\ Len(issued) \in Nat /\ DOMAIN issued = 1..Len(issued)
        /\ is \in Seq(User) /\ DOMAIN is = 1 .. Len(issued) + 1
        /\ is[Len(issued) + 1] = user /\ \A i \in 1..Len(issued) : is[i] = issued[i]
    BY Facts, AppendItems
  <1>3. b \in Batch /\ b.id = nextId /\ b.w = Len(issued) + 1 /\ k \in [user: User, id: Nat, w: Write]
    <2>1. Len(issued) + 1 \in Write
      BY <1>1, <1>2, PipelineAssumption DEF Write
    <2>2. nextId \in Nat \ {0} /\ user \in User
      BY Facts
    <2> QED  BY <2>1, <2>2 DEF Batch
  <1>4. old \in Seq(Batch) /\ Ascending(old) /\ OfUser(old, user, issued)
        /\ \A i \in DOMAIN old : old[i].id < nextId /\ old[i].id \in Nat
    <2>1. old \in Seq(Batch) /\ Ascending(old) /\ OfUser(old, user, issued)
      BY Facts
    <2>2. \A i \in DOMAIN old : old[i].id < nextId
      BY Facts DEF Inv, Queues, QueuesInOrder
    <2>3. \A i \in DOMAIN old : old[i] \in Batch
      BY <2>1, LenProperties, ElementOfSeq
    <2> QED  BY <2>1, <2>2, <2>3 DEF Batch
  <1>5. /\ Len(old) \in Nat /\ DOMAIN old = 1..Len(old)
        /\ q \in Seq(Batch) /\ Len(q) = Len(old) + 1 /\ DOMAIN q = 1 .. Len(old) + 1
        /\ q[Len(old) + 1] = b /\ \A i \in 1..Len(old) : q[i] = old[i]
    <2> HIDE DEF old, b
    <2> QED  BY <1>3, <1>4, AppendItems
  <1>6. Full(remote, old)
    BY Facts
  <1>7. remote.pipeline = SubSeq(q, 1, FullLength(remote, old))
        /\ FullLength(remote, old) \in 0..Len(q) /\ FullLength(remote, old) <= MaxPendingWrites
    <2> HIDE DEF old, b
    <2>1. /\ FullLength(remote, old) \in 0..Len(old) /\ FullLength(remote, old) <= MaxPendingWrites
          /\ remote.pipeline = SubSeq(old, 1, FullLength(remote, old))
      BY <1>4, <1>6, Facts, FullIs
    <2>2. SubSeq(q, 1, FullLength(remote, old)) = SubSeq(old, 1, FullLength(remote, old))
      BY <1>3, <1>4, <2>1, FirstOfAppend
    <2> HIDE DEF q
    <2> QED  BY <1>5, <2>1, <2>2
  <1>u. \A u \in User : queue'[u] = IF u = user THEN q ELSE queue[u]
    BY <1>1, Facts
  <1> HIDE DEF b, old, q, is
  <1>8. Ascending(q)
    BY <1>3, <1>4, <1>5 DEF Ascending
  <1>9. OfUser(q, user, is)
    BY <1>2, <1>3, <1>4, <1>5 DEF OfUser
  <1>10. OwnCall(remote, user, is)
    <2>1. OwnCall(remote, user, issued)
      BY Facts
    <2>2. \A w \in DOMAIN issued : w \in DOMAIN is /\ is[w] = issued[w]
      BY <1>2
    <2> QED  BY <2>1, <2>2 DEF OwnCall
  <1> DEFINE t == remote'
  <1>11. /\ t \in Remote /\ Sound(t) /\ Full(t, q) /\ Moves(remote, t)
         /\ CallMatches(t, refused) /\ OwnCall(t, user, is)
    <2> DEFINE n == FullLength(remote, old)
    <2>1. n \in 0..Len(q) /\ n <= MaxPendingWrites /\ remote.pipeline = SubSeq(q, 1, n)
      BY <1>7
    <2> HIDE DEF n
    <2>2. t = FillWritePipeline(remote, q)
      BY <1>1
    <2> HIDE DEF t
    <2>3. /\ remote \in Remote /\ Sound(remote) /\ counter \in Nat
          /\ CallMatches(remote, refused)
      BY Facts
    <2> QED  BY <1>5, <1>8, <1>9, <1>10, <2>1, <2>2, <2>3, FillIs
  <1>12. UNCHANGED <<saved, user, waits, tasks, main, authUser, counter, authEvents,
                     applied, refused, acked, rejected, unread, faults>>
    BY <1>1 DEF auth, settled
  <1>13. TypeOK'
    <2>1. Len(t.pipeline) <= MaxPendingWrites
      BY <1>5, <1>11, FullIs
    <2>2. queue' \in [User -> Seq(Batch)] /\ nextId' \in Nat \ {0} /\ issued' \in Seq(User)
      BY <1>1, <1>2, <1>5, Facts
    <2>3. callbacks' \subseteq [user: User, id: Nat, w: Write]
      BY <1>1, <1>3 DEF Inv, TypeOK
    <2> HIDE DEF k
    <2> QED  BY <1>11, <1>12, <2>1, <2>2, <2>3 DEF Inv, TypeOK
  <1>14. Queues'
    <2>1. QueuesInOrder'
      <3> SUFFICES ASSUME NEW u \in User
                   PROVE  Ascending(queue'[u])
                          /\ \A i \in DOMAIN queue'[u] : queue'[u][i].id < nextId + 1
        BY <1>1 DEF QueuesInOrder
      <3>1. CASE u = user
        <4>1. queue'[u] = q
          BY <1>u, <3>1
        <4>2. \A i \in 1 .. Len(old) + 1 : q[i].id < nextId + 1
          <5> SUFFICES ASSUME NEW i \in 1 .. Len(old) + 1 PROVE q[i].id < nextId + 1
            OBVIOUS
          <5>1. CASE i = Len(old) + 1
            BY <1>3, <1>5, <5>1, Facts
          <5>2. CASE i \in 1..Len(old)
            BY <1>4, <1>5, <5>2, Facts
          <5> QED  BY <1>5, <5>1, <5>2
        <4> QED  BY <1>5, <1>8, <4>1, <4>2
      <3>2. CASE u # user
        <4>1. queue'[u] = queue[u] /\ queue[u] \in Seq(Batch)
          BY <1>u, <3>2, Facts
        <4>2. \A i \in DOMAIN queue[u] : queue[u][i].id \in Nat /\ queue[u][i].id < nextId
          <5>1. \A i \in DOMAIN queue[u] : queue[u][i] \in Batch
            BY <4>1, LenProperties, ElementOfSeq
          <5> QED  BY <5>1 DEF Batch, Inv, Queues, QueuesInOrder
        <4> QED  BY <4>1, <4>2, Facts DEF Inv, Queues, QueuesInOrder
      <3> QED  BY <3>1, <3>2
    <2>2. \A u \in User : OfUser(queue'[u], u, issued')
      <3> SUFFICES ASSUME NEW u \in User PROVE OfUser(queue'[u], u, is)
        BY <1>1
      <3>1. CASE u = user
        BY <1>9, <1>u, <3>1
      <3>2. CASE u # user
        <4>1. queue'[u] = queue[u] /\ OfUser(queue[u], u, issued)
          BY <1>u, <3>2 DEF Inv, Queues
        <4> QED  BY <1>2, <4>1 DEF OfUser
      <3> QED  BY <3>1, <3>2
    <2> QED  BY <1>12, <2>1, <2>2 DEF Inv, Queues, OwnTokens
  <1>15. Stream'
    BY <1>1, <1>11, <1>12, <1>u, Facts DEF Stream
  <1>16. Tokens'
    <2>1. t.closeCount \in Nat /\ TypeOK /\ Tokens
      BY <1>11 DEF Remote, Inv
    <2> QED  BY <1>11, <1>12, <2>1, TokensMove
  <1>17. RejectedUnlessLost'
    BY <1>12 DEF Inv, RejectedUnlessLost
  <1> QED  BY <1>13, <1>14, <1>15, <1>16, <1>17 DEF Inv

\* Two moves of the stream, the first without a request for a token, are one.
LEMMA MovesOn ==
    ASSUME NEW r \in Remote, NEW s \in Remote, NEW t \in Remote, Moves(r, s), s.asks = r.asks,
           Moves(s, t)
    PROVE  Moves(r, t)
  <1>1. r.closeCount \in Nat /\ s.closeCount \in Nat /\ t.closeCount \in Nat
    BY DEF Remote
  <1> QED  BY <1>1 DEF Moves, Restarts

\* The pipeline's first batch is the queue's.
LEMMA FirstIs ==
    ASSUME Inv, remote.pipeline # <<>>
    PROVE  /\ queue[user] # <<>> /\ Head(remote.pipeline) = queue[user][1]
           /\ Head(remote.pipeline) \in Batch /\ Head(remote.pipeline).w \in Write
           /\ Head(remote.pipeline) = remote.pipeline[1]
           /\ \E n \in 1..Len(queue[user]) : /\ remote.pipeline = SubSeq(queue[user], 1, n)
                                             /\ n <= MaxPendingWrites
  <1> DEFINE p == remote.pipeline
             q == queue[user]
             n == FullLength(remote, q)
  <1>1. p \in Seq(Batch) /\ p # <<>> /\ q \in Seq(Batch) /\ Full(remote, q) /\ remote \in Remote
    BY Facts DEF Remote
  <1>2. /\ Len(q) \in Nat /\ n \in 0..Len(q) /\ n <= MaxPendingWrites
        /\ p = SubSeq(q, 1, n) /\ Len(p) = n
        /\ \A i \in 1..n : p[i] = q[i] /\ i \in DOMAIN q
    <2> HIDE DEF q
    <2> QED  BY <1>1, FullIs
  <1> HIDE DEF p, q, n
  <1>3. n # 0 /\ Head(p) = p[1] /\ p[1] \in Batch
    BY <1>1, <1>2, TailIs
  <1>4. Head(p) = q[1] /\ q # <<>> /\ n \in 1..Len(q)
    <2>1. n \in 1..Len(q) /\ 1 \in 1..n
      BY <1>2, <1>3
    <2>2. Len(q) # 0
      BY <1>2, <2>1
    <2> QED  BY <1>1, <1>2, <1>3, <2>1, <2>2, EmptySeq
  <1>5. Head(p).w \in Write
    BY <1>3 DEF Batch
  <1> QED  BY <1>2, <1>3, <1>4, <1>5 DEF p, q

\* A batch is settled.
LEMMA SettleStep ==
    ASSUME Inv, remote.pipeline # <<>>, NEW b, b = Head(remote.pipeline),
           NEW s \in Remote, Sound(s), s.pipeline = Tail(remote.pipeline),
           CallMatches(s, refused), OwnCall(s, user, issued),
           Moves(remote, s), s.asks = remote.asks, Settle(b, s),
           UNCHANGED <<tasks, auth, backend>>, faults' \in Nat,
           saved' \in [User -> User \cup {NoToken}], OwnTokens',
           acked' \subseteq Write, rejected' \subseteq Write, unread' \subseteq Write,
           RejectedUnlessLost'
    PROVE  Inv'
  <1> DEFINE q == queue[user]
             t == remote'
  <1>1. /\ q \in Seq(Batch) /\ q # <<>> /\ Ascending(q) /\ b = q[1] /\ OfUser(q, user, issued)
        /\ user \in User /\ queue \in [User -> Seq(Batch)]
        /\ \E n \in 1..Len(q) : remote.pipeline = SubSeq(q, 1, n) /\ n <= MaxPendingWrites
    BY Facts, FirstIs
  <1>2. PICK n \in 1..Len(q) : remote.pipeline = SubSeq(q, 1, n) /\ n <= MaxPendingWrites
    BY <1>1
  <1>3. /\ Without(b) = Tail(q) /\ b.id \in Ids(q) /\ Tail(q) \in Seq(Batch)
        /\ Ascending(Tail(q))
    BY <1>1, WithoutFirst
  <1>4. /\ queue' = [queue EXCEPT ![user] = Tail(q)]
        /\ callbacks' \subseteq callbacks /\ waits' \subseteq waits
        /\ t = FillWritePipeline(s, Tail(q))
        /\ UNCHANGED <<nextId, user>>
    <2>1. HardAssert(s, b.id \in Ids(q)) = s
      BY <1>3, AssertHolds
    <2> QED  BY <1>3, <2>1 DEF Settle
  <1>5. \A u \in User : queue'[u] = IF u = user THEN Tail(q) ELSE queue[u]
    BY <1>1, <1>4
  <1> HIDE DEF q, t
  <1>7. /\ Len(q) \in Nat \ {0} /\ DOMAIN q = 1..Len(q)
        /\ Len(Tail(q)) = Len(q) - 1 /\ DOMAIN Tail(q) = 1 .. Len(q) - 1
        /\ \A i \in 1 .. Len(q) - 1 : Tail(q)[i] = q[i + 1]
    BY <1>1, TailIs
  <1>8. OfUser(Tail(q), user, issued)
    BY <1>1, <1>7 DEF OfUser
  <1>9. /\ s.pipeline = SubSeq(Tail(q), 1, n - 1) /\ n - 1 \in 0..Len(Tail(q))
        /\ n - 1 <= MaxPendingWrites
    <2>1. Tail(SubSeq(q, 1, n)) = SubSeq(Tail(q), 1, n - 1)
      BY <1>1, TailOfFirst
    <2>2. n \in Nat /\ MaxPendingWrites \in Nat
      BY <1>7, PipelineAssumption
    <2> QED  BY <1>2, <1>7, <2>1, <2>2
  <1>10. /\ t \in Remote /\ Sound(t) /\ Full(t, Tail(q)) /\ Moves(s, t)
         /\ CallMatches(t, refused) /\ OwnCall(t, user, issued)
    <2> DEFINE r == Tail(q)
               m == n - 1
    <2>1. /\ r \in Seq(Batch) /\ Ascending(r) /\ OfUser(r, user, issued)
          /\ s.pipeline = SubSeq(r, 1, m) /\ m \in 0..Len(r) /\ m <= MaxPendingWrites
          /\ t = FillWritePipeline(s, r) /\ counter \in Nat
      BY <1>3, <1>4, <1>8, <1>9, Facts
    <2> HIDE DEF r, m
    <2>2. /\ t \in Remote /\ Sound(t) /\ Full(t, r) /\ Moves(s, t)
          /\ CallMatches(t, refused) /\ OwnCall(t, user, issued)
      BY <2>1, FillIs
    <2> QED  BY <2>2 DEF r
  <1>11. UNCHANGED <<nextId, user, tasks, main, authUser, counter, authEvents, issued, applied,
                     refused>>
    BY <1>4 DEF auth, backend
  <1>12. TypeOK'
    <2>1. Len(t.pipeline) <= MaxPendingWrites
      BY <1>3, <1>10, FullIs
    <2>2. queue' \in [User -> Seq(Batch)]
      BY <1>1, <1>3, <1>4
    <2> QED  BY <1>4, <1>10, <1>11, <2>1, <2>2 DEF t, Inv, TypeOK
  <1>13. Queues'
    <2>1. QueuesInOrder'
      <3> SUFFICES ASSUME NEW u \in User
                   PROVE  Ascending(queue'[u])
                          /\ \A i \in DOMAIN queue'[u] : queue'[u][i].id < nextId
        BY <1>11 DEF QueuesInOrder
      <3>1. CASE u = user
        <4>1. \A i \in DOMAIN q : q[i].id < nextId
          BY <1>1 DEF q, Inv, Queues, QueuesInOrder
        <4>2. \A i \in 1 .. Len(q) - 1 : i + 1 \in DOMAIN q /\ Tail(q)[i].id < nextId
          BY <1>7, <4>1
        <4>3. queue'[u] = Tail(q)
          BY <1>5, <3>1
        <4> QED  BY <1>3, <1>7, <4>2, <4>3
      <3>2. CASE u # user
        BY <1>5, <3>2 DEF Inv, Queues, QueuesInOrder
      <3> QED  BY <3>1, <3>2
    <2>2. \A u \in User : OfUser(queue'[u], u, issued)
      BY <1>5, <1>8 DEF Inv, Queues
    <2> QED  BY <1>11, <2>1, <2>2 DEF Queues
  <1>14. Stream'
    BY <1>1, <1>5, <1>10, <1>11 DEF t, Stream
  <1>15. Tokens'
    <2>1. Moves(remote, t)
      BY <1>10, Facts, MovesOn
    <2>2. t.closeCount \in Nat /\ TypeOK /\ Tokens
      BY <1>10 DEF Remote, Inv
    <2> QED  BY <1>11, <2>1, <2>2, TokensMove DEF t
  <1> QED  BY <1>12, <1>13, <1>14, <1>15 DEF Inv

\* The tail of two queues in a row.
LEMMA TailOfConcat ==
    ASSUME NEW S, NEW x \in Seq(S), NEW y \in Seq(S), x # <<>>
    PROVE  Tail(x \o y) = Tail(x) \o y
  <1> DEFINE c == x \o y
             l == Tail(c)
             r == Tail(x) \o y
  <1>1. /\ Len(x) \in Nat \ {0} /\ Tail(x) \in Seq(S) /\ Len(Tail(x)) = Len(x) - 1
        /\ \A i \in 1 .. Len(x) - 1 : Tail(x)[i] = x[i + 1]
    BY TailIs
  <1>2. Len(y) \in Nat
    BY LenProperties
  <1>3. /\ c \in Seq(S) /\ Len(c) = Len(x) + Len(y)
        /\ \A i \in 1..Len(x) : c[i] = x[i]
        /\ \A i \in 1..Len(y) : c[Len(x) + i] = y[i]
    BY ConcatProperties
  <1>4. /\ r \in Seq(S) /\ Len(r) = Len(Tail(x)) + Len(y)
        /\ \A i \in 1..Len(Tail(x)) : r[i] = Tail(x)[i]
        /\ \A i \in 1..Len(y) : r[Len(Tail(x)) + i] = y[i]
    BY <1>1, ConcatProperties
  <1> HIDE DEF c, r
  <1>5. /\ l \in Seq(S) /\ Len(l) = Len(c) - 1 /\ \A i \in 1 .. Len(c) - 1 : l[i] = c[i + 1]
    <2>1. c # <<>>
      BY <1>1, <1>2, <1>3, EmptySeq
    <2> QED  BY <1>3, <2>1, TailIs
  <1> HIDE DEF l
  <1>6. Len(l) = Len(r)
    BY <1>1, <1>2, <1>3, <1>4, <1>5
  <1>7. ASSUME NEW i \in 1..Len(l) PROVE l[i] = r[i]
    <2>1. CASE i < Len(x)
      <3>1. i + 1 \in 1..Len(x) /\ i \in 1..Len(Tail(x)) /\ i \in 1 .. Len(c) - 1
        BY <1>1, <1>2, <1>3, <1>5, <2>1
      <3> QED  BY <1>1, <1>3, <1>4, <1>5, <3>1
    <2>2. CASE i >= Len(x)
      <3>1. /\ i - Len(Tail(x)) \in 1..Len(y) /\ i + 1 = Len(x) + (i - Len(Tail(x)))
            /\ i = Len(Tail(x)) + (i - Len(Tail(x))) /\ i \in 1 .. Len(c) - 1
        BY <1>1, <1>2, <1>3, <1>5, <2>2
      <3>2. c[i + 1] = y[i - Len(Tail(x))] /\ r[i] = y[i - Len(Tail(x))]
        BY <1>3, <1>4, <3>1
      <3> QED  BY <1>5, <3>1, <3>2
    <2>3. i < Len(x) \/ i >= Len(x)
      BY <1>1, <1>2, <1>3, <1>5
    <2> QED  BY <2>1, <2>2, <2>3
  <1>8. l = r
    BY <1>4, <1>5, <1>6, <1>7, SeqEqual
  <1> QED  BY <1>8 DEF l, r, c

\* An answer for the pipeline's first batch leaves the others answered as they should be.
LEMMA AnsweredMatches ==
    ASSUME Inv, HasAnswer, remote.handshake, remote.pipeline # <<>>, NEW s \in Remote,
           s.pipeline = Tail(remote.pipeline), s.handshake, s.conn # NoConn,
           s.conn.requests = remote.conn.requests, s.conn.status = remote.conn.status,
           s.conn.responses = Tail(remote.conn.responses)
    PROVE  CallMatches(s, refused)
  <1> DEFINE x == remote.conn.responses
             y == remote.conn.requests
             p == remote.pipeline
  <1>1. /\ x \in Seq(Request) /\ y \in Seq(Request) /\ p \in Seq(Request) /\ p \in Seq(Batch)
        /\ x # <<>> /\ p # <<>> /\ remote.conn # NoConn
        /\ remote.conn.status \in {"open", "transient", "permanent"}
    BY Facts, SeqMonotonic DEF HasAnswer, Remote, Request, Status
  <1>2. /\ remote.conn.status = "open" => x \o y = p
        /\ remote.conn.status = "permanent" =>
              /\ Len(p) = Len(x) + Len(y) + 1 /\ x = SubSeq(p, 1, Len(x))
              /\ p[Len(x) + 1].w \in refused
        /\ remote.conn.status # "transient"
    BY <1>1, Facts DEF CallMatches
  <1>3. /\ s.conn.responses = Tail(x) /\ s.conn.requests = y /\ s.pipeline = Tail(p)
    OBVIOUS
  <1> HIDE DEF x, y, p
  <1>4. CASE remote.conn.status = "open"
    <2>1. Tail(x) \o y = Tail(p)
      BY <1>1, <1>2, <1>4, TailOfConcat
    <2> QED  BY <1>3, <1>4, <2>1 DEF CallMatches
  <1>5. CASE remote.conn.status = "permanent"
    <2>1. /\ Len(x) \in Nat \ {0} /\ Len(Tail(x)) = Len(x) - 1
          /\ Len(p) \in Nat \ {0} /\ Len(Tail(p)) = Len(p) - 1
          /\ \A i \in 1 .. Len(p) - 1 : Tail(p)[i] = p[i + 1]
      BY <1>1, TailIs
    <2>2. Len(y) \in Nat
      BY <1>1, LenProperties
    <2>3. Len(Tail(p)) = Len(Tail(x)) + Len(y) + 1
      BY <1>2, <1>5, <2>1, <2>2
    <2>4. Tail(x) = SubSeq(Tail(p), 1, Len(Tail(x)))
      <3>1. Len(x) \in 1..Len(p)
        BY <1>2, <1>5, <2>1, <2>2
      <3>2. Tail(SubSeq(p, 1, Len(x))) = SubSeq(Tail(p), 1, Len(x) - 1)
        BY <1>1, <3>1, TailOfFirst
      <3>3. Tail(x) = SubSeq(Tail(p), 1, Len(x) - 1)
        BY <1>2, <1>5, <3>2, Zenon
      <3> QED  BY <2>1, <3>3
    <2>5. Tail(p)[Len(Tail(x)) + 1].w \in refused
      <3>1. Len(x) \in 1 .. Len(p) - 1 /\ Len(Tail(x)) + 1 = Len(x)
        BY <1>2, <1>5, <2>1, <2>2
      <3>2. Tail(p)[Len(x)] = p[Len(x) + 1]
        BY <2>1, <3>1
      <3> QED  BY <1>2, <1>5, <3>1, <3>2
    <2> QED  BY <1>3, <1>5, <2>3, <2>4, <2>5 DEF CallMatches
  <1> QED  BY <1>1, <1>2, <1>4, <1>5

\* OnWriteStreamMutationResult preserves the invariant.
LEMMA MutationResultStep ==
    ASSUME Inv, MutationResult
    PROVE  Inv'
  <1> DEFINE b == Head(remote.pipeline)
             a == AfterRead
             s == [a EXCEPT !.pipeline = Tail(a.pipeline)]
  <1>1. /\ HasAnswer /\ remote.handshake /\ remote.pipeline # <<>> /\ Settle(b, s)
        /\ saved' = [saved EXCEPT ![user] = remote.conn.user]
        /\ acked' = acked \cup {b.w}
        /\ UNCHANGED <<tasks, auth, backend, rejected, unread, faults>>
    BY DEF MutationResult
  <1>2. /\ a \in Remote /\ a.conn \in Conn /\ a.conn # NoConn
        /\ a.ok = remote.ok /\ a.closeCount = remote.closeCount /\ a.asks = remote.asks
        /\ a.enabled = remote.enabled /\ a.pipeline = remote.pipeline
        /\ a.state = remote.state /\ a.handshake = remote.handshake /\ a.idle = remote.idle
        /\ a.token = user
        /\ a.conn.user = user /\ a.conn.requests = remote.conn.requests
        /\ a.conn.status = remote.conn.status
        /\ a.conn.responses = Tail(remote.conn.responses)
    BY <1>1, AfterReadIs
  <1> HIDE DEF a
  <1>3. Tail(a.pipeline) \in Seq(Batch)
    <2>1. remote.pipeline \in Seq(Batch)
      BY Facts DEF Remote
    <2> QED  BY <1>1, <1>2, <2>1, TailIs
  <1>4. /\ s \in Remote /\ s.conn = a.conn /\ s.pipeline = Tail(remote.pipeline)
        /\ s.ok = a.ok /\ s.closeCount = a.closeCount /\ s.asks = a.asks
        /\ s.enabled = a.enabled /\ s.state = a.state /\ s.handshake = a.handshake
        /\ s.idle = a.idle /\ s.token = a.token
    BY <1>2, <1>3 DEF Remote
  <1> HIDE DEF s
  <1>5. Sound(s)
    BY <1>1, <1>2, <1>4, Facts DEF Sound, Started, Usable
  <1>6. CallMatches(s, refused)
    <2>1. /\ s.handshake /\ s.conn # NoConn
          /\ s.conn.requests = remote.conn.requests /\ s.conn.status = remote.conn.status
          /\ s.conn.responses = Tail(remote.conn.responses)
      BY <1>1, <1>2, <1>4
    <2> QED  BY <1>1, <1>4, <2>1, AnsweredMatches
  <1>7. OwnCall(s, user, issued)
    <2>1. /\ s.conn.user = user /\ s.conn.requests = remote.conn.requests /\ s.token = user
          /\ remote.conn # NoConn /\ OwnCall(remote, user, issued)
      BY <1>1, <1>2, <1>4, Facts DEF HasAnswer
    <2> QED  BY <2>1 DEF OwnCall
  <1>8. Moves(remote, s) /\ s.asks = remote.asks
    BY <1>2, <1>4 DEF Moves
  <1>9. b.w \in Write
    BY <1>1, FirstIs
  <1> HIDE DEF b
  <1>10. saved' \in [User -> User \cup {NoToken}] /\ OwnTokens'
    <2>1. saved' = [saved EXCEPT ![user] = user] /\ user \in User /\ UNCHANGED user
      BY <1>1, Facts DEF HasAnswer, Settle
    <2> QED  BY <2>1, Facts DEF Inv, Queues, OwnTokens
  <1>11. /\ acked' \subseteq Write /\ rejected' \subseteq Write /\ unread' \subseteq Write
         /\ RejectedUnlessLost' /\ faults' \in Nat
    BY <1>1, <1>9 DEF Inv, TypeOK, RejectedUnlessLost, backend
  <1> QED  BY <1>1, <1>4, <1>5, <1>6, <1>7, <1>8, <1>10, <1>11, SettleStep DEF b

\* The stream is closed with an error, and no write is dropped: it starts again if it
\* is needed.
LEMMA ClosedAgain ==
    ASSUME Inv, Started(remote), NEW token \in {remote.token, NoToken}, NEW t,
           t = Notified([Closed(remote, "Error") EXCEPT !.token = token])
    PROVE  /\ t \in Remote /\ Sound(t) /\ Full(t, queue[user]) /\ Restarts(remote, t)
           /\ \A no : CallMatches(t, no)
           /\ OwnCall(t, user, issued)
  <1> DEFINE a == Closed(remote, "Error")
             b == [a EXCEPT !.token = token]
  <1>1. /\ a \in Remote /\ a.ok = remote.ok /\ ~a.idle /\ a.closeCount = remote.closeCount + 1
        /\ a.conn = NoConn /\ a.state = "Error" /\ ~Started(a)
        /\ a.enabled = remote.enabled /\ a.pipeline = remote.pipeline /\ a.asks = remote.asks
        /\ a.handshake = remote.handshake /\ a.token = remote.token
    BY Facts, ClosedIs
  <1>2. t = Notified(b)
    OBVIOUS
  <1> HIDE DEF a
  <1>3. token \in User \cup {NoToken}
    BY Facts DEF Remote
  <1>4. /\ b \in Remote /\ b.ok = a.ok /\ b.idle = a.idle /\ b.closeCount = a.closeCount
        /\ b.conn = a.conn /\ b.state = a.state /\ b.enabled = a.enabled
        /\ b.pipeline = a.pipeline /\ b.asks = a.asks /\ b.token = token
    BY <1>1, <1>3 DEF Remote
  <1> HIDE DEF b
  <1>5. /\ t \in Remote /\ Sound(t) /\ ~ShouldStartWriteStream(t) /\ Moves(b, t)
        /\ t.enabled = b.enabled /\ t.pipeline = b.pipeline /\ t.token = b.token
        /\ t.closeCount = b.closeCount /\ t.conn = NoConn
    <2>1. /\ b.ok /\ ~Started(b) /\ b.conn = NoConn /\ ~b.idle
          /\ (~b.enabled => b.pipeline = <<>>) /\ counter \in Nat
      BY <1>1, <1>4, Facts DEF Sound, Started
    <2> QED  BY <1>2, <1>4, <2>1, NotifiedIs
  <1>6. Full(t, queue[user])
    BY <1>1, <1>4, <1>5, Facts DEF Full
  <1>7. Restarts(remote, t)
    <2>1. t.closeCount > remote.closeCount
      <3>1. t.closeCount = remote.closeCount + 1 /\ remote.closeCount \in Nat
        BY <1>1, <1>4, <1>5, Facts
      <3> QED  BY <3>1
    <2>2. b.asks = remote.asks
      BY <1>1, <1>4
    <2>3. \/ t.asks = b.asks
          \/ /\ t.asks = b.asks \cup {[close |-> t.closeCount, counter |-> counter]}
             /\ t.state = "Starting"
      BY <1>5 DEF Moves, Restarts
    <2> QED  BY <2>1, <2>2, <2>3 DEF Restarts
  <1>8. OwnCall(t, user, issued) /\ \A no : CallMatches(t, no)
    BY <1>1, <1>4, <1>5, Facts DEF OwnCall, CallMatches
  <1> QED  BY <1>5, <1>6, <1>7, <1>8

\* Of the two ways CloseWithError keeps the pipeline
LEMMA KeptIs ==
    ASSUME Inv, Started(remote), NEW resets \in BOOLEAN,
           remote' = Notified(IF resets THEN [Closed(remote, "Error") EXCEPT !.token = NoToken]
                              ELSE Closed(remote, "Error"))
    PROVE  \E token \in {remote.token, NoToken} :
               remote' = Notified([Closed(remote, "Error") EXCEPT !.token = token])
  <1> DEFINE a == Closed(remote, "Error")
  <1>1. a \in Remote /\ a.token = remote.token
    BY Facts, ClosedIs
  <1>2. CASE resets
    BY <1>2
  <1>3. CASE ~resets
    <2>1. [a EXCEPT !.token = remote.token] = a
      <3> HIDE DEF a
      <3> QED  BY <1>1 DEF Remote
    <2>2. remote' = Notified(a)
      BY <1>3
    <2> QED  BY <2>1, <2>2
  <1> QED  BY <1>2, <1>3

\* To close a stream with an error preserves the invariant, when a permanent one is about
\* the pipeline's first write or costs its answer.
LEMMA CloseStep ==
    ASSUME Inv, remote.conn # NoConn, NEW status \in {"transient", "permanent"},
           CloseWithError(status), UNCHANGED <<tasks, auth, backend, acked>>,
           unread' \subseteq Write, unread \subseteq unread', faults' \in Nat,
           status = "permanent" /\ remote.handshake /\ remote.pipeline # <<>> =>
               Head(remote.pipeline).w \in refused \cup unread'
    PROVE  Inv'
  <1> DEFINE t == Closed(remote, "Error")
             b == Head(t.pipeline)
             drops == t.pipeline # <<>> /\ t.handshake /\ IsPermanentWriteError(status)
             resets == t.pipeline # <<>> /\ ~t.handshake /\ IsPermanentError(status)
             s == [InhibitBackoff(t) EXCEPT !.pipeline = Tail(@), !.handshake = FALSE]
  <1>1. UNCHANGED <<tasks, auth, backend, acked>>
    OBVIOUS
  <1>2. \/ /\ drops /\ Settle(b, s) /\ rejected' = rejected \cup {b.w} /\ saved' = saved
        \/ /\ ~drops
           /\ remote' = Notified(IF resets THEN [t EXCEPT !.token = NoToken] ELSE t)
           /\ saved' = IF resets THEN [saved EXCEPT ![user] = NoToken] ELSE saved
           /\ UNCHANGED <<queue, engine, rejected>>
    BY DEF CloseWithError
  <1>3. Started(remote) /\ remote.state = "Open" /\ remote.enabled /\ remote.ok
    BY Facts DEF Sound, Started
  <1>4. /\ t \in Remote /\ t.ok = remote.ok /\ ~t.idle /\ t.closeCount = remote.closeCount + 1
        /\ t.conn = NoConn /\ t.state = "Error" /\ ~Started(t)
        /\ t.enabled = remote.enabled /\ t.pipeline = remote.pipeline /\ t.asks = remote.asks
        /\ t.handshake = remote.handshake /\ t.token = remote.token
    BY <1>3, Facts, ClosedIs
  <1>5. /\ applied' = applied /\ applied' \subseteq Write /\ refused' = refused
        /\ refused' \subseteq Write /\ issued' = issued /\ acked' = acked
        /\ acked' \subseteq Write
    BY <1>1 DEF backend, Inv, TypeOK
  <1>6. CASE ~drops
    <2>1. /\ remote' = Notified(IF resets THEN [t EXCEPT !.token = NoToken] ELSE t)
          /\ saved' = IF resets THEN [saved EXCEPT ![user] = NoToken] ELSE saved
          /\ UNCHANGED <<queue, engine, rejected>>
      BY <1>2, <1>6
    <2>2. PICK token \in {remote.token, NoToken} :
             remote' = Notified([Closed(remote, "Error") EXCEPT !.token = token])
      <3>1. resets \in BOOLEAN
        OBVIOUS
      <3> HIDE DEF resets
      <3> QED  BY <1>3, <2>1, <3>1, KeptIs
    <2>3. /\ remote' \in Remote /\ Sound(remote') /\ Full(remote', queue[user])
          /\ Restarts(remote, remote')
          /\ \A no : CallMatches(remote', no)
          /\ OwnCall(remote', user, issued)
      BY <1>3, <2>2, ClosedAgain
    <2>4. saved' \in [User -> User \cup {NoToken}] /\ OwnTokens'
      <3> HIDE DEF resets
      <3> QED  BY <2>1, Facts DEF Inv, Queues, OwnTokens
    <2>5. Moves(remote, remote')
      BY <2>3 DEF Moves
    <2> QED  BY <1>1, <1>5, <2>1, <2>3, <2>4, <2>5, RemoteStep
  <1>7. CASE drops
    <2>1. Settle(b, s) /\ rejected' = rejected \cup {b.w} /\ saved' = saved
      BY <1>2, <1>7
    <2>2. /\ remote.pipeline # <<>> /\ remote.handshake /\ status = "permanent"
          /\ b = Head(remote.pipeline)
      BY <1>3, <1>4, <1>7 DEF IsPermanentWriteError, IsPermanentError
    <2>3. /\ b \in Batch /\ b.w \in Write /\ b = remote.pipeline[1]
      BY <2>2, FirstIs
    <2>4. Tail(t.pipeline) \in Seq(Batch)
      <3>1. t.pipeline \in Seq(Batch) /\ t.pipeline # <<>>
        BY <1>4, <2>2 DEF Remote
      <3> QED  BY <3>1, TailIs
    <2>5. InhibitBackoff(t) = [t EXCEPT !.state = "Initial"]
      <3>1. HardAssert(t, ~Started(t)) = t
        BY <1>4, AssertHolds
      <3> QED  BY <3>1 DEF InhibitBackoff
    <2>6. s = [t EXCEPT !.state = "Initial", !.pipeline = Tail(t.pipeline), !.handshake = FALSE]
      <3> HIDE DEF t
      <3> QED  BY <1>4, <2>5 DEF Remote
    <2> HIDE DEF t, s, b
    <2>7. /\ s \in Remote /\ s.ok = t.ok /\ s.idle = t.idle /\ s.closeCount = t.closeCount
          /\ s.conn = NoConn /\ s.state = "Initial" /\ s.enabled = t.enabled
          /\ s.pipeline = Tail(t.pipeline) /\ s.asks = t.asks /\ s.handshake = FALSE
          /\ s.token = t.token
      BY <1>4, <2>4, <2>6 DEF Remote
    <2>8. Sound(s)
      BY <1>3, <1>4, <2>7 DEF Sound, Started, Usable
    <2>9. CallMatches(s, refused) /\ OwnCall(s, user, issued)
      BY <1>4, <2>7, Facts DEF CallMatches, OwnCall
    <2>10. Moves(remote, s) /\ s.asks = remote.asks
      BY <1>4, <2>7, Facts DEF Moves, Restarts
    <2>11. b.w \in refused \cup unread'
      BY <2>2
    <2>12. /\ rejected' \subseteq Write /\ RejectedUnlessLost'
           /\ saved' \in [User -> User \cup {NoToken}] /\ OwnTokens'
      BY <1>5, <2>1, <2>3, <2>11 DEF Inv, TypeOK, Queues, OwnTokens, RejectedUnlessLost
    <2>13. s.pipeline = Tail(remote.pipeline)
      BY <1>4, <2>7
    <2> QED  BY <1>1, <1>5, <2>1, <2>2, <2>7, <2>8, <2>9, <2>10, <2>12, <2>13, SettleStep
  <1> QED  BY <1>6, <1>7

\* The answers on their way are about writes.
LEMMA AnswersAreWrites ==
    ASSUME Inv, remote.conn # NoConn
    PROVE  OnTheirWay \subseteq Write
  <1> DEFINE x == remote.conn.responses
  <1>1. x \in Seq(Request)
    BY Facts
  <1>2. OnTheirWay = UNION {WritesOf(x[i]) : i \in DOMAIN x}
    BY DEF OnTheirWay
  <1> HIDE DEF x
  <1>3. ASSUME NEW i \in DOMAIN x PROVE WritesOf(x[i]) \subseteq Write
    <2>1. x[i] \in Request
      BY <1>1, LenProperties, ElementOfSeq
    <2> QED  BY <2>1 DEF Request, WritesOf, Batch
  <1> QED  BY <1>2, <1>3

\* The first answer on its way is about the pipeline's first batch.
LEMMA FirstAnswerIs ==
    ASSUME Inv, HasAnswer, remote.handshake, remote.pipeline # <<>>
    PROVE  Head(remote.pipeline).w \in OnTheirWay
  <1> DEFINE x == remote.conn.responses
             y == remote.conn.requests
             p == remote.pipeline
  <1>1. /\ x \in Seq(Request) /\ y \in Seq(Request) /\ p \in Seq(Batch)
        /\ x # <<>> /\ p # <<>> /\ remote.conn # NoConn
        /\ remote.conn.status \in {"open", "transient", "permanent"}
    BY Facts DEF HasAnswer, Remote, Status
  <1>2. \/ x \o y = p
        \/ Len(p) = Len(x) + Len(y) + 1 /\ x = SubSeq(p, 1, Len(x))
    BY <1>1, Facts DEF CallMatches
  <1>3. OnTheirWay = UNION {WritesOf(x[i]) : i \in DOMAIN x}
    BY DEF OnTheirWay
  <1> HIDE DEF x, y, p
  <1>4. /\ Len(x) \in Nat \ {0} /\ DOMAIN x = 1..Len(x) /\ Len(y) \in Nat
        /\ Len(p) \in Nat \ {0} /\ Head(p) = p[1]
    BY <1>1, TailIs, LenProperties
  <1>5. p[1] = x[1]
    <2>1. CASE x \o y = p
      BY <1>1, <1>4, <2>1, ConcatProperties
    <2>2. CASE Len(p) = Len(x) + Len(y) + 1 /\ x = SubSeq(p, 1, Len(x))
      <3>1. Len(x) \in 1 .. Len(p)
        BY <1>4, <2>2
      <3>2. SubSeq(p, 1, Len(x))[1] = p[1]
        BY <1>1, <1>4, <3>1, SubSeqItems
      <3> QED  BY <2>2, <3>2
    <2> QED  BY <1>2, <2>1, <2>2
  <1>6. p[1] \in Batch
    BY <1>1, <1>4, ElementOfSeq
  <1>7. WritesOf(x[1]) = {p[1].w}
    BY <1>5, <1>6, HandshakeAssumption DEF WritesOf
  <1>8. p[1].w \in OnTheirWay
    BY <1>3, <1>4, <1>7
  <1> QED  BY <1>4, <1>8 DEF p

\* The end of a call preserves the invariant.
LEMMA FinishStep ==
    ASSUME Inv, StreamFinish
    PROVE  Inv'
  <1> DEFINE status == remote.conn.status
             x == remote.conn.responses
             p == remote.pipeline
  <1>1. /\ remote.conn # NoConn /\ status # "open" /\ CloseWithError(status)
        /\ unread' = unread \cup OnTheirWay
        /\ UNCHANGED <<tasks, auth, backend, acked>> /\ faults' = faults
    BY DEF StreamFinish
  <1>2. status \in {"transient", "permanent"}
    BY <1>1, Facts DEF Status
  <1>3. /\ unread' \subseteq Write /\ unread \subseteq unread' /\ faults' \in Nat
    BY <1>1, AnswersAreWrites DEF Inv, TypeOK
  <1>4. ASSUME status = "permanent", remote.handshake, p # <<>>
        PROVE  Head(p).w \in refused \cup unread'
    <2>1. CASE x # <<>>
      BY <1>1, <1>4, <2>1, FirstAnswerIs DEF HasAnswer
    <2>2. CASE x = <<>>
      <3>1. p[Len(x) + 1].w \in refused
        BY <1>1, <1>4, Facts DEF CallMatches
      <3>2. Len(x) + 1 = 1
        <4>1. Len(x) = 0
          BY <2>2
        <4> QED  BY <4>1
      <3>3. Head(p) = p[1]
        BY <1>4, FirstIs
      <3> QED  BY <3>1, <3>2, <3>3
    <2> QED  BY <2>1, <2>2
  <1>5. status = "permanent" /\ remote.handshake /\ remote.pipeline # <<>> =>
            Head(remote.pipeline).w \in refused \cup unread'
    BY <1>4
  <1> QED  BY <1>1, <1>2, <1>3, <1>5, CloseStep

\* An answer that cannot be decoded preserves the invariant.
LEMMA UnreadableStep ==
    ASSUME Inv, UnreadableResponse
    PROVE  Inv'
  <1>1. /\ HasAnswer /\ remote.conn # NoConn /\ CloseWithError("permanent")
        /\ unread' = unread \cup OnTheirWay /\ faults' = faults + 1
        /\ UNCHANGED <<tasks, auth, backend, acked>>
    BY DEF UnreadableResponse, HasAnswer
  <1>2. unread' \subseteq Write /\ unread \subseteq unread' /\ faults' \in Nat
    BY <1>1, AnswersAreWrites DEF Inv, TypeOK
  <1>3. remote.handshake /\ remote.pipeline # <<>> =>
            Head(remote.pipeline).w \in refused \cup unread'
    BY <1>1, FirstAnswerIs
  <1> QED  BY <1>1, <1>2, <1>3, CloseStep

\* The token that the stream waits for, when its turn comes, is the current user's.
LEMMA ResumeIs ==
    ASSUME Inv, tasks # <<>>, Head(tasks).kind = "Resume", Current(Head(tasks))
    PROVE  /\ remote.state = "Starting" /\ ~remote.handshake /\ remote.conn = NoConn
           /\ Head(tasks).result \in {"transient", user} /\ Head(tasks).result # "aborted"
           /\ Head(tasks).result \notin User => Head(tasks).result = "transient"
  <1>1. /\ Len(tasks) \in Nat \ {0} /\ DOMAIN tasks = 1..Len(tasks) /\ Head(tasks) = tasks[1]
    <2>1. tasks \in Seq(Task)
      BY DEF Inv, TypeOK
    <2> QED  BY <2>1, TailIs
  <1>2. 1 \in Resuming /\ ~Changing(1)
    BY <1>1 DEF Resuming, Current, Changing
  <1>3. remote.state = "Starting" /\ tasks[1].result \in {"transient", user}
    BY <1>2 DEF Inv, Tokens, OneToken, TokensInOrder
  <1>4. ~remote.handshake /\ remote.conn = NoConn
    BY <1>3, Facts DEF Sound
  <1>5. "aborted" \notin User /\ user \in User
    BY Facts, PipelineAssumption
  <1> QED  BY <1>1, <1>3, <1>4, <1>5

\* A token that is handed to the stream that waits for it
LEMMA OpenStep ==
    ASSUME Inv, ResumeStart, Current(Head(tasks)), Head(tasks).result \in User
    PROVE  Inv'
  <1> DEFINE r == Head(tasks)
             a == HardAssert(remote, remote.state = "Starting" /\ ~remote.handshake)
             c == [user |-> r.result, requests |-> <<Handshake>>, responses |-> <<>>,
                   status |-> "open"]
             t == [a EXCEPT !.state = "Open", !.conn = c]
  <1>1. /\ tasks # <<>> /\ r.kind = "Resume" /\ tasks' = Tail(tasks)
        /\ remote' = t
        /\ UNCHANGED <<persistent, engine, rejected, auth, backend, acked, unread, faults>>
    BY DEF ResumeStart
  <1>2. /\ remote.state = "Starting" /\ ~remote.handshake /\ remote.conn = NoConn
        /\ r.result = user
    <2>1. "transient" \notin User
      BY PipelineAssumption
    <2> QED  BY <1>1, <2>1, ResumeIs
  <1>3. a = remote
    BY <1>2, Facts, AssertHolds
  <1>4. /\ c \in Conn /\ c.user = user /\ c.requests = <<Handshake>> /\ c.responses = <<>>
        /\ c.status = "open"
    <2>1. <<Handshake>> \in Seq(Request) /\ <<>> \in Seq(Request)
      BY EmptySeq DEF Request
    <2> QED  BY <1>2, <2>1, Facts DEF Conn, Status
  <1> HIDE DEF a, c
  <1>5. t \in Remote
    BY <1>3, <1>4, Facts DEF Remote
  <1>6. /\ t.ok = remote.ok /\ t.closeCount = remote.closeCount /\ t.asks = remote.asks
        /\ t.enabled = remote.enabled /\ t.pipeline = remote.pipeline
        /\ t.state = "Open" /\ ~t.handshake /\ t.idle = remote.idle
        /\ t.token = remote.token /\ t.conn = c
    BY <1>2, <1>3, Facts DEF Remote
  <1> HIDE DEF t
  <1>7. remote.enabled /\ remote.pipeline # <<>> /\ ~remote.idle /\ remote.ok
    BY <1>2, Facts DEF Sound, Started, Usable
  <1>8. Sound(t) /\ Full(t, queue[user])
    BY <1>4, <1>6, <1>7, Facts, ConnAssumption
       DEF Sound, Started, Full, ShouldStartWriteStream
  <1>9. CallMatches(t, refused)
    <2>1. <<>> \o <<Handshake>> = <<Handshake>>
      <3>1. <<Handshake>> \in Seq(Request)
        BY DEF Request
      <3> QED  BY <3>1, ConcatEmptySeq
    <2> QED  BY <1>4, <1>6, <2>1 DEF CallMatches
  <1>10. OwnCall(t, user, issued)
    BY <1>4, <1>6, Facts DEF OwnCall
  <1>11. Tokens'
    <2>1. t.closeCount \in Nat
      BY <1>5 DEF Remote
    <2>2. UNCHANGED <<main, counter, user, authUser>> /\ TypeOK /\ Tokens
      BY <1>1 DEF engine, auth, Inv
    <2> QED  BY <1>1, <1>6, <2>1, <2>2, TokensResume
  <1>12. /\ tasks' \in Seq(Task) /\ main' \in Seq(Block) /\ counter' \in Nat
         /\ authUser' \in User /\ authEvents' \in Nat
    <2>1. tasks \in Seq(Task)
      BY DEF Inv, TypeOK
    <2>2. Tail(tasks) \in Seq(Task)
      BY <1>1, <2>1, TailIs
    <2> QED  BY <1>1, <2>2 DEF auth, Inv, TypeOK
  <1>13. /\ queue' = queue /\ saved' = saved /\ issued' = issued /\ applied' = applied
         /\ refused' = refused /\ acked' = acked /\ rejected' = rejected /\ unread' = unread
         /\ UNCHANGED engine
         /\ saved' \in [User -> User \cup {NoToken}] /\ OwnTokens' /\ unread' \subseteq Write
         /\ faults' \in Nat /\ applied' \subseteq Write /\ refused' \subseteq Write
    BY <1>1 DEF persistent, backend, Inv, TypeOK, Queues, OwnTokens
  <1> QED  BY <1>1, <1>5, <1>8, <1>9, <1>10, <1>11, <1>12, <1>13, StateStep

\* ResumeStartWithCredentials preserves the invariant.
LEMMA ResumeStep ==
    ASSUME Inv, ResumeStart
    PROVE  Inv'
  <1> DEFINE r == Head(tasks)
  <1>1. /\ tasks # <<>> /\ r.kind = "Resume" /\ tasks' = Tail(tasks)
        /\ UNCHANGED <<auth, backend, acked, unread, faults>>
        /\ \/ ~Current(r) /\ UNCHANGED <<persistent, engine, remote, rejected>>
           \/ Current(r) /\ r.result \in User
           \/ Current(r) /\ r.result \notin User /\ CloseWithError(r.result)
    BY DEF ResumeStart
  <1>2. /\ tasks' \in Seq(Task) /\ main' \in Seq(Block) /\ counter' \in Nat
        /\ authUser' \in User /\ authEvents' \in Nat
    <2>1. tasks \in Seq(Task)
      BY DEF Inv, TypeOK
    <2>2. Tail(tasks) \in Seq(Task)
      BY <1>1, <2>1, TailIs
    <2> QED  BY <1>1, <2>2 DEF auth, Inv, TypeOK
  <1>3. CASE Current(r) /\ r.result \in User
    BY <1>3, OpenStep
  <1>4. CASE ~Current(r) /\ UNCHANGED <<persistent, engine, remote, rejected>>
    <2>1. Tokens'
      <3>1. UNCHANGED <<main, counter, user, authUser>> /\ TypeOK /\ Tokens
        BY <1>1, <1>4 DEF engine, auth, Inv
      <3>2. remote' = remote /\ remote'.closeCount \in Nat
        BY <1>4, Facts
      <3> QED  BY <1>1, <1>4, <3>1, <3>2, TokensResume
    <2>2. /\ remote' \in Remote /\ Sound(remote') /\ Full(remote', queue[user])
          /\ CallMatches(remote', refused) /\ OwnCall(remote', user, issued)
      BY <1>4, Facts
    <2>3. /\ queue' = queue /\ saved' = saved /\ issued' = issued /\ applied' = applied
          /\ refused' = refused /\ acked' = acked /\ rejected' = rejected
          /\ unread' = unread /\ UNCHANGED engine
          /\ saved' \in [User -> User \cup {NoToken}] /\ OwnTokens' /\ unread' \subseteq Write
          /\ faults' \in Nat /\ applied' \subseteq Write /\ refused' \subseteq Write
      BY <1>1, <1>4 DEF persistent, backend, Inv, TypeOK, Queues, OwnTokens
    <2> QED  BY <1>2, <2>1, <2>2, <2>3, StateStep
  <1>5. CASE Current(r) /\ r.result \notin User /\ CloseWithError(r.result)
    <2> DEFINE t == Closed(remote, "Error")
               drops == t.pipeline # <<>> /\ t.handshake /\ IsPermanentWriteError(r.result)
               resets == t.pipeline # <<>> /\ ~t.handshake /\ IsPermanentError(r.result)
    <2>1. /\ remote.state = "Starting" /\ ~remote.handshake /\ r.result = "transient"
      BY <1>1, <1>5, ResumeIs
    <2>2. Started(remote)
      BY <2>1 DEF Started
    <2>3. ~t.handshake
      <3>1. t.handshake = remote.handshake
        BY <2>2, Facts, ClosedIs
      <3> QED  BY <2>1, <3>1
    <2>4. ~drops /\ ~resets
      BY <2>1, <2>3 DEF IsPermanentError
    <2>5. remote' = Notified(t) /\ saved' = saved /\ UNCHANGED <<queue, engine, rejected>>
      <3>1. /\ remote' = Notified(IF resets THEN [t EXCEPT !.token = NoToken] ELSE t)
            /\ saved' = IF resets THEN [saved EXCEPT ![user] = NoToken] ELSE saved
            /\ UNCHANGED <<queue, engine, rejected>>
        BY <1>5, <2>4 DEF CloseWithError
      <3> QED  BY <2>4, <3>1
    <2>6. PICK token \in {remote.token, NoToken} :
             remote' = Notified([Closed(remote, "Error") EXCEPT !.token = token])
      BY <2>2, <2>5, KeptIs
    <2>7. /\ remote' \in Remote /\ Sound(remote') /\ Full(remote', queue[user])
          /\ Restarts(remote, remote')
          /\ \A no : CallMatches(remote', no)
          /\ OwnCall(remote', user, issued)
      BY <2>2, <2>6, ClosedAgain
    <2>8. Tokens'
      <3>1. UNCHANGED <<main, counter, user, authUser>> /\ TypeOK /\ Tokens
        BY <1>1, <2>5 DEF engine, auth, Inv
      <3>2. remote'.closeCount \in Nat
        BY <2>7 DEF Remote
      <3> QED  BY <1>1, <2>7, <3>1, <3>2, TokensResume
    <2>9. /\ issued' = issued /\ applied' = applied
          /\ refused' = refused /\ acked' = acked /\ unread' = unread
          /\ saved' \in [User -> User \cup {NoToken}] /\ OwnTokens' /\ unread' \subseteq Write
          /\ faults' \in Nat /\ applied' \subseteq Write /\ refused' \subseteq Write
      BY <1>1, <2>5 DEF backend, Inv, TypeOK, Queues, OwnTokens
    <2> QED  BY <1>2, <2>5, <2>7, <2>8, <2>9, StateStep
  <1> QED  BY <1>1, <1>3, <1>4, <1>5

\* The next batch id is above those of every queue.
LEMMA LoadIs ==
    ASSUME Inv
    PROVE  /\ LoadNextBatchIdFromDb \in Nat \ {0}
           /\ \A u \in User : \A i \in DOMAIN queue[u] : queue[u][i].id < LoadNextBatchIdFromDb
  <1> DEFINE S == UNION {Ids(queue[u]) : u \in User}
  <1>1. \A u \in User : \A i \in DOMAIN queue[u] :
           queue[u][i].id \in Nat /\ queue[u][i].id < nextId /\ queue[u][i].id \in S
    <2> SUFFICES ASSUME NEW u \in User, NEW i \in DOMAIN queue[u]
                 PROVE  queue[u][i].id \in Nat /\ queue[u][i].id < nextId /\ queue[u][i].id \in S
      OBVIOUS
    <2>1. queue[u] \in Seq(Batch)
      BY Facts
    <2>2. queue[u][i] \in Batch
      BY <2>1, LenProperties, ElementOfSeq
    <2>3. queue[u][i].id \in Ids(queue[u])
      BY DEF Ids
    <2> QED  BY <2>2, <2>3 DEF Batch, Inv, Queues, QueuesInOrder
  <1>2. S \in SUBSET Nat /\ \A m \in S : m <= nextId
    <2>1. \A m \in S : \E u \in User : \E i \in DOMAIN queue[u] : m = queue[u][i].id
      BY DEF Ids
    <2>2. nextId \in Nat
      BY Facts
    <2> HIDE DEF S
    <2> QED  BY <1>1, <2>1, <2>2
  <1>3. LoadNextBatchIdFromDb = Largest(S) + 1
    BY DEF LoadNextBatchIdFromDb
  <1> HIDE DEF S
  <1>4. Largest(S) \in Nat /\ \A m \in S : m <= Largest(S)
    BY <1>2, Facts, LargestIs
  <1> QED  BY <1>1, <1>3, <1>4

\* HandleCredentialChange preserves the invariant.
LEMMA ChangeStep ==
    ASSUME Inv, HandleCredentialChange
    PROVE  Inv'
  <1>0. PICK u : u = Head(tasks).user
    OBVIOUS
  <1>1. /\ tasks # <<>> /\ Head(tasks).kind = "CredentialChange" /\ tasks' = Tail(tasks)
        /\ user' = u
        /\ nextId' = IF u = user THEN nextId ELSE LoadNextBatchIdFromDb
        /\ waits' = IF u = user THEN waits ELSE {}
        /\ remote' = IF remote.enabled THEN EnableNetwork(DisableNetworkInternal(remote), u)
                     ELSE remote
        /\ UNCHANGED <<queue, saved, callbacks, main, authUser, counter, authEvents, issued,
                       applied, refused, acked, rejected, unread, faults>>
    BY <1>0 DEF HandleCredentialChange, persistent, auth, backend, settled
  <1>2. u \in User /\ tasks' \in Seq(Task)
    <2>1. tasks \in Seq(Task) /\ TypeOK
      BY DEF Inv, TypeOK
    <2>2. Tail(tasks) \in Seq(Task) /\ Head(tasks) = tasks[1] /\ 1 \in DOMAIN tasks
      BY <1>1, <2>1, TailIs
    <2> QED  BY <1>0, <1>1, <2>1, <2>2, TokensTyped
  <1> DEFINE q == queue[u]
             token == saved[u]
  <1>3. q \in Seq(Batch) /\ Ascending(q) /\ OfUser(q, u, issued) /\ token \in {u, NoToken}
    BY <1>2, Facts DEF Inv, Queues, QueuesInOrder, OwnTokens
  <1> HIDE DEF q, token
  <1>4. /\ remote' \in Remote /\ Sound(remote') /\ Full(remote', q)
        /\ Restarts(remote, remote')
        /\ CallMatches(remote', refused) /\ OwnCall(remote', u, issued)
    <2>1. CASE ~remote.enabled
      <3>1. remote' = remote
        BY <1>1, <2>1
      <3>2. ~Started(remote) /\ remote.conn = NoConn /\ remote.pipeline = <<>>
        BY <2>1, Facts DEF Sound, Started
      <3> QED  BY <2>1, <3>1, <3>2, Facts
               DEF Full, ShouldStartWriteStream, Restarts, CallMatches, OwnCall, Started
    <2>2. CASE remote.enabled
      <3> DEFINE s == DisableNetworkInternal(remote)
      <3>1. /\ s \in Remote /\ Sound(s) /\ ~Started(s) /\ s.conn = NoConn
            /\ s.pipeline = <<>> /\ s.asks = remote.asks
            /\ \/ s.closeCount = remote.closeCount /\ ~Started(remote)
               \/ s.closeCount = remote.closeCount + 1
        BY Facts, DisableIs
      <3>2. remote' = FillWritePipeline([s EXCEPT !.enabled = TRUE, !.token = token], q)
        BY <1>1, <2>2 DEF EnableNetwork, q, token
      <3> HIDE DEF s
      <3>3. /\ remote' \in Remote /\ Sound(remote') /\ Full(remote', q) /\ Moves(s, remote')
            /\ remote'.closeCount = s.closeCount /\ remote'.conn = NoConn
            /\ \A no : CallMatches(remote', no)
            /\ OwnCall(remote', u, issued)
        <4>1. counter \in Nat
          BY Facts
        <4>2. remote' \in Remote /\ Sound(remote') /\ Full(remote', q) /\ Moves(s, remote')
          BY <1>2, <1>3, <3>1, <3>2, <4>1, EnableIs
        <4>3. /\ remote'.closeCount = s.closeCount /\ remote'.conn = NoConn
              /\ OwnCall(remote', u, issued)
          BY <1>2, <1>3, <3>1, <3>2, <4>1, EnableIs
        <4> QED  BY <4>2, <4>3 DEF CallMatches
      <3>4. /\ remote'.closeCount > remote.closeCount
               \/ (remote'.closeCount = remote.closeCount /\ remote.state # "Starting")
        BY <3>1, <3>3, Facts DEF Started
      <3>5. \/ remote'.asks = s.asks
            \/ /\ remote'.asks = s.asks \cup {[close |-> remote'.closeCount, counter |-> counter]}
               /\ remote'.state = "Starting"
        BY <3>3 DEF Moves, Restarts
      <3>6. Restarts(remote, remote')
        BY <3>1, <3>4, <3>5 DEF Restarts
      <3> QED  BY <3>3, <3>6
    <2> QED  BY <2>1, <2>2
  <1>5. TypeOK'
    <2>1. Len(remote'.pipeline) <= MaxPendingWrites
      BY <1>3, <1>4, FullIs
    <2>2. nextId' \in Nat \ {0} /\ waits' \subseteq waits
      BY <1>1, Facts, LoadIs
    <2> QED  BY <1>1, <1>2, <1>4, <2>1, <2>2 DEF Inv, TypeOK
  <1>6. Queues'
    <2>1. QueuesInOrder'
      <3>1. \A v \in User : \A i \in DOMAIN queue[v] : queue[v][i].id < nextId'
        BY <1>1, LoadIs DEF Inv, Queues, QueuesInOrder
      <3> QED  BY <1>1, <3>1 DEF Inv, Queues, QueuesInOrder
    <2> QED  BY <1>1, <2>1 DEF Inv, Queues, OwnTokens
  <1>7. Stream'
    BY <1>1, <1>4 DEF Stream, q
  <1>8. Tokens'
    <2>1. remote'.closeCount \in Nat /\ TypeOK /\ Tokens
      BY <1>4 DEF Remote, Inv
    <2> QED  BY <1>0, <1>1, <1>4, <2>1, TokensChange
  <1>9. RejectedUnlessLost'
    BY <1>1 DEF Inv, RejectedUnlessLost
  <1> QED  BY <1>5, <1>6, <1>7, <1>8, <1>9 DEF Inv

\* A change of user or of ID token preserves the invariant.
LEMMA AuthStep ==
    ASSUME Inv, NEW u \in User, AuthStateChanges(u)
    PROVE  Inv'
  <1>1. /\ authEvents' = authEvents + 1 /\ authUser' = u
        /\ main' = Append(main, [kind |-> "StateDidChange", user |-> u])
        /\ UNCHANGED <<queue, saved, engine, nextId, user, callbacks, waits, remote, tasks, counter,
                       issued, applied, refused, acked, rejected, unread, faults>>
    BY DEF AuthStateChanges, persistent, engine, backend, settled
  <1>2. Tokens'
    BY <1>1, TokensNews DEF Inv
  <1>3. main' \in Seq(Block)
    <2>1. main \in Seq(Block) /\ [kind |-> "StateDidChange", user |-> u] \in Block
      BY DEF Inv, TypeOK, Block
    <2> QED  BY <1>1, <2>1, AppendProperties
  <1>4. /\ remote' \in Remote /\ Sound(remote') /\ Full(remote', queue[user])
        /\ CallMatches(remote', refused') /\ OwnCall(remote', user, issued)
    BY <1>1, Facts
  <1>5. /\ saved' \in [User -> User \cup {NoToken}] /\ OwnTokens' /\ unread' \subseteq Write
        /\ faults' \in Nat /\ applied' \subseteq Write /\ refused' \subseteq Write
        /\ tasks' \in Seq(Task) /\ counter' \in Nat /\ authUser' \in User /\ authEvents' \in Nat
    BY <1>1 DEF Inv, TypeOK, Queues, OwnTokens
  <1> QED  BY <1>1, <1>2, <1>3, <1>4, <1>5, StateStep

\* An answer of Auth to a request for a token preserves the invariant.
LEMMA AnswerStep ==
    ASSUME Inv, NEW a \in remote.asks, AuthAnswers(a)
    PROVE  Inv'
  <1>1. /\ remote' = [remote EXCEPT !.asks = remote.asks \ {a}]
        /\ UNCHANGED <<queue, saved, engine, nextId, user, callbacks, waits, tasks, authUser, counter,
                       authEvents, issued, applied, refused, acked, rejected, unread>>
        /\ faults' \in {faults, faults + 1}
    BY DEF AuthAnswers, persistent, engine, backend, settled
  <1>2. PICK result \in {authUser, "transient"} :
           main' = Append(main, [kind |-> "Token", ask |-> a, result |-> result])
    BY DEF AuthAnswers
  <1>3. /\ remote' \in Remote /\ remote'.asks = remote.asks \ {a}
        /\ remote'.ok = remote.ok /\ remote'.closeCount = remote.closeCount
        /\ remote'.enabled = remote.enabled /\ remote'.pipeline = remote.pipeline
        /\ remote'.state = remote.state /\ remote'.handshake = remote.handshake
        /\ remote'.idle = remote.idle /\ remote'.token = remote.token
        /\ remote'.conn = remote.conn
    BY <1>1, Facts DEF Remote
  <1>4. Sound(remote') /\ Full(remote', queue[user])
    BY <1>3, Facts DEF Sound, Full, ShouldStartWriteStream, Started, Usable
  <1>5. CallMatches(remote', refused) /\ OwnCall(remote', user, issued)
    BY <1>3, Facts DEF CallMatches, OwnCall
  <1>6. Tokens'
    BY <1>1, <1>2, <1>3, TokensAnswer DEF Inv
  <1>7. main' \in Seq(Block)
    <2>1. authUser \in User
      BY DEF Inv, TypeOK
    <2>2. main \in Seq(Block) /\ [kind |-> "Token", ask |-> a, result |-> result] \in Block
      BY <1>2, <2>1, Facts DEF Inv, TypeOK, Block, Remote
    <2> QED  BY <1>2, <2>2, AppendProperties
  <1>8. /\ saved' \in [User -> User \cup {NoToken}] /\ OwnTokens' /\ unread' \subseteq Write
        /\ faults' \in Nat /\ applied' \subseteq Write /\ refused' \subseteq Write
        /\ tasks' \in Seq(Task) /\ counter' \in Nat /\ authUser' \in User /\ authEvents' \in Nat
    BY <1>1 DEF Inv, TypeOK, Queues, OwnTokens
  <1> QED  BY <1>1, <1>3, <1>4, <1>5, <1>6, <1>7, <1>8, StateStep

\* A block of the main queue preserves the invariant.
LEMMA MainStep ==
    ASSUME Inv, MainQueueRuns
    PROVE  Inv'
  <1> DEFINE m == Head(main)
  <1>0. PICK result : result = IF m.ask.counter = counter THEN m.result ELSE "aborted"
    OBVIOUS
  <1>1. /\ main # <<>> /\ main' = Tail(main)
        /\ \/ /\ m.kind = "StateDidChange" /\ counter' = counter + 1
              /\ tasks' = Append(tasks, [kind |-> "CredentialChange", user |-> m.user])
           \/ /\ m.kind = "Token" /\ counter' = counter
              /\ tasks' = Append(tasks, [kind |-> "Resume", close |-> m.ask.close,
                                         result |-> result])
        /\ UNCHANGED <<queue, saved, engine, nextId, user, callbacks, waits, remote, authUser,
                       authEvents, issued, applied, refused, acked, rejected, unread, faults>>
    BY <1>0 DEF MainQueueRuns, persistent, engine, backend, settled
  <1>2. /\ main \in Seq(Block) /\ Tail(main) \in Seq(Block) /\ m = main[1]
        /\ 1 \in DOMAIN main /\ TypeOK /\ Tokens
    <2>1. main \in Seq(Block) /\ TypeOK /\ Tokens
      BY DEF Inv, TypeOK
    <2> QED  BY <1>1, <2>1, TailIs
  <1>3. Tokens' /\ tasks' \in Seq(Task) /\ counter' \in Nat
    <2>0. tasks \in Seq(Task) /\ counter \in Nat
      BY <1>2 DEF TypeOK
    <2>1. CASE m.kind = "StateDidChange"
      <3>1. /\ counter' = counter + 1
            /\ tasks' = Append(tasks, [kind |-> "CredentialChange", user |-> m.user])
        BY <1>1, <2>1
      <3>2. Tokens'
        BY <1>1, <1>2, <2>1, <3>1, TokensObserved
      <3>3. m.user \in User
        BY <1>2, <2>1, TokensTyped
      <3>4. [kind |-> "CredentialChange", user |-> m.user] \in Task
        BY <3>3 DEF Task
      <3> QED  BY <2>0, <3>1, <3>2, <3>4, AppendProperties
    <2>2. CASE m.kind = "Token"
      <3>1. /\ counter' = counter
            /\ tasks' = Append(tasks, [kind |-> "Resume", close |-> m.ask.close,
                                       result |-> result])
        BY <1>1, <2>2
      <3>2. Tokens'
        BY <1>0, <1>1, <1>2, <2>2, <3>1, TokensHanded
      <3>3. m.ask.close \in Nat /\ result \in User \cup {"transient", "aborted"}
        BY <1>0, <1>2, <2>2, TokensTyped
      <3>4. [kind |-> "Resume", close |-> m.ask.close, result |-> result] \in Task
        BY <3>3 DEF Task
      <3> QED  BY <2>0, <3>1, <3>2, <3>4, AppendProperties
    <2> QED  BY <1>1, <2>1, <2>2
  <1>4. /\ remote' \in Remote /\ Sound(remote') /\ Full(remote', queue[user])
        /\ CallMatches(remote', refused') /\ OwnCall(remote', user, issued)
    BY <1>1, Facts
  <1>5. /\ saved' \in [User -> User \cup {NoToken}] /\ OwnTokens' /\ unread' \subseteq Write
        /\ faults' \in Nat /\ applied' \subseteq Write /\ refused' \subseteq Write
        /\ authUser' \in User /\ authEvents' \in Nat
    BY <1>1 DEF Inv, TypeOK, Queues, OwnTokens
  <1> QED  BY <1>1, <1>2, <1>3, <1>4, <1>5, StateStep

\* The remote store of a client that is just launched.
LEMMA UnstartedIs ==
    /\ Unstarted \in Remote /\ Sound(Unstarted) /\ Unstarted.pipeline = <<>>
    /\ Unstarted.conn = NoConn /\ Unstarted.asks = {} /\ Unstarted.closeCount = 0
    /\ Unstarted.state = "Initial"
  <1>1. <<>> \in Seq(Batch)
    BY EmptySeq
  <1>2. Unstarted \in Remote
    BY <1>1 DEF Unstarted, Remote
  <1>3. /\ Unstarted.pipeline = <<>> /\ Unstarted.conn = NoConn /\ Unstarted.asks = {}
        /\ Unstarted.closeCount = 0 /\ Unstarted.state = "Initial" /\ Unstarted.ok
        /\ ~Unstarted.handshake /\ ~Unstarted.idle /\ ~Unstarted.enabled
    BY DEF Unstarted
  <1> QED  BY <1>2, <1>3 DEF Sound, Started

\* A first launch establishes the invariant.
LEMMA InitStep ==
    ASSUME Init
    PROVE  Inv
  <1> DEFINE s == Unstarted
  <1>1. /\ queue = [u \in User |-> <<>>] /\ saved = [u \in User |-> NoToken] /\ nextId = 1
        /\ authUser \in User /\ user = authUser /\ remote = [s EXCEPT !.enabled = TRUE]
        /\ callbacks = {} /\ waits = {} /\ tasks = <<>> /\ main = <<>>
        /\ counter = 0 /\ issued = <<>>
        /\ applied = {} /\ refused = {} /\ acked = {} /\ rejected = {}
        /\ unread = {} /\ faults = 0 /\ authEvents = 0
    BY DEF Init
  <1>2. <<>> \in Seq(Batch) /\ <<>> \in Seq(Task) /\ <<>> \in Seq(Block) /\ <<>> \in Seq(User)
        /\ Len(<<>>) = 0
    BY EmptySeq
  <1>3. /\ remote \in Remote /\ remote.ok /\ remote.pipeline = <<>> /\ remote.conn = NoConn
        /\ remote.asks = {} /\ remote.closeCount = 0 /\ remote.state = "Initial"
        /\ ~remote.handshake /\ ~remote.idle /\ remote.enabled /\ remote.token = NoToken
    BY <1>1, <1>2 DEF Unstarted, Remote
  <1>4. \A u \in User : queue[u] = <<>> /\ saved[u] = NoToken
    BY <1>1
  <1>5. DOMAIN tasks = {} /\ DOMAIN main = {} /\ \A u \in User : DOMAIN queue[u] = {}
    BY <1>1, <1>4
  <1>6. TypeOK
    <2>1. Len(remote.pipeline) <= MaxPendingWrites
      BY <1>2, <1>3, PipelineAssumption
    <2>2. queue \in [User -> Seq(Batch)] /\ saved \in [User -> User \cup {NoToken}]
      BY <1>1, <1>2
    <2>3. tasks \in Seq(Task) /\ main \in Seq(Block) /\ issued \in Seq(User)
      BY <1>1, <1>2
    <2>4. nextId \in Nat \ {0}
      <3>1. nextId = 1
        BY DEF Init
      <3> QED  BY <3>1
    <2>8. {user, authUser} \subseteq User
      BY DEF Init
    <2>9. unread \subseteq Write
      BY DEF Init
    <2>6. {counter, faults, authEvents} \subseteq Nat
      BY <1>1
    <2>7. /\ callbacks \subseteq [user: User, id: Nat, w: Write]
          /\ waits \subseteq [id: Nat, on: SUBSET Write]
      BY <1>1
    <2>5. UNION {applied, refused, acked, rejected} \subseteq Write
      BY <1>1
    <2> QED  BY <1>3, <2>1, <2>2, <2>3, <2>4, <2>5, <2>6, <2>7, <2>8, <2>9
             DEF TypeOK
  <1>7. Queues
    BY <1>4, <1>5 DEF Queues, QueuesInOrder, OwnTokens, OfUser, Ascending
  <1>8. Stream
    <2>1. Sound(remote)
      BY <1>3 DEF Sound, Started
    <2>2. Full(remote, queue[user])
      <3>1. SubSeq(<<>>, 1, Smaller(MaxPendingWrites, Len(<<>>))) = <<>>
        <4>1. Smaller(MaxPendingWrites, 0) = 0
          BY PipelineAssumption DEF Smaller
        <4> QED  BY <1>2, <4>1, SubSeqEmpty
      <3> QED  BY <1>1, <1>3, <1>4, <3>1 DEF Full, ShouldStartWriteStream
    <2> QED  BY <1>3, <2>1, <2>2 DEF Stream, CallMatches, OwnCall
  <1>9. Tokens
    <2>1. Asking = {} /\ Telling = {} /\ Resuming = {}
      BY <1>3, <1>5 DEF Asking, Telling, Resuming
    <2> QED  BY <1>1, <1>3, <1>5, <2>1
             DEF Tokens, NoneLater, TokensInOrder, OneToken, One, LastUser
  <1>10. RejectedUnlessLost
    BY <1>1 DEF RejectedUnlessLost
  <1> QED  BY <1>6, <1>7, <1>8, <1>9, <1>10 DEF Inv

\* Enabling the network of a client that is just launched.
LEMMA EnableUnstarted ==
    ASSUME NEW q \in Seq(Batch), Ascending(q), NEW u \in User, NEW token \in {u, NoToken},
           counter \in Nat, OfUser(q, u, issued),
           NEW s, s = FillWritePipeline([Unstarted EXCEPT !.enabled = TRUE, !.token = token], q)
    PROVE  /\ s \in Remote /\ Sound(s) /\ Full(s, q) /\ Moves(Unstarted, s)
           /\ s.closeCount = Unstarted.closeCount /\ s.conn = NoConn
           /\ OwnCall(s, u, issued)
  <1>0. PICK z : z = Unstarted
    OBVIOUS
  <1>1. /\ z \in Remote /\ Sound(z) /\ z.pipeline = <<>> /\ z.conn = NoConn
        /\ s = FillWritePipeline([z EXCEPT !.enabled = TRUE, !.token = token], q)
    BY <1>0, UnstartedIs
  <1>2. s \in Remote /\ Sound(s) /\ Full(s, q) /\ Moves(z, s)
    BY <1>1, EnableIs
  <1>3. s.conn = NoConn
    BY <1>1, EnableIs
  <1>4. OwnCall(s, u, issued)
    BY <1>1, EnableIs
  <1>5. SameStream(z, s)
    BY <1>1, EnableIs
  <1> QED  BY <1>0, <1>2, <1>3, <1>4, <1>5 DEF SameStream

\* A crash and a restart preserve the invariant.
LEMMA RelaunchStep ==
    ASSUME Inv, Relaunch
    PROVE  Inv'
  <1>0. PICK u : u = authUser
    OBVIOUS
  <1> DEFINE s == EnableNetwork(Unstarted, u)
             A == {[a EXCEPT !.counter = 0] : a \in s.asks}
             t == [s EXCEPT !.asks = A]
  <1>1. /\ faults' = faults + 1 /\ nextId' = LoadNextBatchIdFromDb /\ user' = u /\ counter' = 0
        /\ remote' = t /\ callbacks' = {} /\ waits' = {} /\ tasks' = <<>> /\ main' = <<>>
        /\ UNCHANGED <<queue, saved, authUser, authEvents, issued, applied, refused, acked,
                       rejected, unread>>
    BY <1>0 DEF Relaunch, persistent, backend, settled
  <1> DEFINE q == queue[u]
             token == saved[u]
  <1>2. u \in User
    BY <1>0 DEF Inv, TypeOK
  <1>3. q \in Seq(Batch) /\ Ascending(q) /\ OfUser(q, u, issued) /\ token \in {u, NoToken}
    BY <1>2, Facts DEF Inv, Queues, QueuesInOrder, OwnTokens
  <1>4. s = FillWritePipeline([Unstarted EXCEPT !.enabled = TRUE, !.token = token], q)
    BY DEF EnableNetwork
  <1> HIDE DEF q, token, s
  <1>5. /\ s \in Remote /\ Sound(s) /\ Full(s, q) /\ Moves(Unstarted, s)
        /\ s.closeCount = Unstarted.closeCount /\ s.conn = NoConn
        /\ OwnCall(s, u, issued)
    <2>1. counter \in Nat
      BY Facts
    <2> QED  BY <1>2, <1>3, <1>4, <2>1, EnableUnstarted
  <1>6. /\ s.closeCount = 0
        /\ \/ s.asks = {}
           \/ s.asks = {[close |-> 0, counter |-> counter]} /\ s.state = "Starting"
    BY <1>5, UnstartedIs DEF Moves, Restarts
  <1>7. A \subseteq {[close |-> 0, counter |-> 0]} /\ (A # {} => s.state = "Starting")
    BY <1>6
  <1>8. A \subseteq Ask
    BY <1>7 DEF Ask
  <1> HIDE DEF A
  <1>9. /\ t \in Remote /\ t.asks = A
        /\ t.ok = s.ok /\ t.closeCount = 0 /\ t.conn = NoConn
        /\ t.enabled = s.enabled /\ t.pipeline = s.pipeline /\ t.state = s.state
        /\ t.handshake = s.handshake /\ t.idle = s.idle /\ t.token = s.token
    BY <1>5, <1>6, <1>8 DEF Remote
  <1> HIDE DEF t
  <1>10. Sound(t) /\ Full(t, q)
    BY <1>5, <1>9 DEF Sound, Full, ShouldStartWriteStream, Started, Usable
  <1>11. CallMatches(t, refused) /\ OwnCall(t, u, issued)
    BY <1>5, <1>9 DEF CallMatches, OwnCall
  <1>12. DOMAIN tasks' = {} /\ DOMAIN main' = {}
    BY <1>1
  <1>13. TypeOK'
    <2>1. Len(t.pipeline) <= MaxPendingWrites
      BY <1>3, <1>9, <1>10, FullIs
    <2>2. nextId' \in Nat \ {0}
      BY <1>1, LoadIs
    <2>3. <<>> \in Seq(Task) /\ <<>> \in Seq(Block)
      BY EmptySeq
    <2> QED  BY <1>1, <1>2, <1>9, <2>1, <2>2, <2>3 DEF Inv, TypeOK
  <1>14. Queues'
    <2>1. QueuesInOrder'
      <3>1. \A v \in User : \A i \in DOMAIN queue[v] : queue[v][i].id < nextId'
        BY <1>1, LoadIs
      <3> QED  BY <1>1, <3>1 DEF Inv, Queues, QueuesInOrder
    <2> QED  BY <1>1, <2>1 DEF Inv, Queues, OwnTokens
  <1>15. Stream'
    BY <1>1, <1>10, <1>11 DEF Stream, q
  <1>16. Tokens'
    <2>1. Telling' = {} /\ Resuming' = {} /\ Asking' \subseteq A
      BY <1>1, <1>9, <1>12 DEF Telling, Resuming, Asking
    <2>2. NoneLater'
      <3>1. \A a \in A : a.close <= 0
        BY <1>7
      <3> QED  BY <1>1, <1>9, <1>12, <3>1 DEF NoneLater
    <2>3. TokensInOrder'
      <3>1. \A a \in A : a.counter = 0
        BY <1>7
      <3> QED  BY <1>1, <2>1, <3>1 DEF TokensInOrder
    <2>4. OneToken'
      BY <1>1, <1>7, <1>9, <2>1 DEF OneToken, One
    <2>5. LastUser'
      BY <1>0, <1>1, <1>12 DEF LastUser
    <2> QED  BY <2>2, <2>3, <2>4, <2>5 DEF Tokens
  <1>17. RejectedUnlessLost'
    BY <1>1 DEF Inv, RejectedUnlessLost
  <1> QED  BY <1>13, <1>14, <1>15, <1>16, <1>17 DEF Inv

\* A step that changes nothing preserves the invariant.
LEMMA StutterStep ==
    ASSUME Inv, UNCHANGED vars
    PROVE  Inv'
  <1>1. UNCHANGED <<queue, saved, nextId, user, remote, callbacks, waits, tasks, main, authUser,
                    counter, issued, applied, refused, acked, rejected, unread, faults,
                    authEvents>>
    BY DEF vars, persistent, engine, auth, backend, settled
  <1>2. TypeOK' /\ Queues' /\ RejectedUnlessLost'
    BY <1>1 DEF Inv, TypeOK, Queues, QueuesInOrder, OwnTokens, RejectedUnlessLost
  <1>3. Stream'
    BY <1>1 DEF Inv, Stream
  <1>4. Tokens'
    <2>1. Moves(remote, remote') /\ remote'.closeCount \in Nat /\ TypeOK /\ Tokens
      BY <1>1, Facts DEF Moves, Inv
    <2> QED  BY <1>1, <2>1, TokensMove
  <1> QED  BY <1>2, <1>3, <1>4 DEF Inv

\* Every step preserves the invariant.
LEMMA NextStep ==
    ASSUME Inv, [Next]_vars
    PROVE  Inv'
  <1>1. CASE UNCHANGED vars
    BY <1>1, StutterStep
  <1>2. CASE Work
    <2>1. CASE BackoffElapses
      BY <2>1, BackoffStep
    <2>2. CASE IdleTimeout
      BY <2>2, IdleStep
    <2>3. CASE HandshakeComplete
      BY <2>3, HandshakeStep
    <2>4. CASE MutationResult
      BY <2>4, MutationResultStep
    <2>5. CASE StreamFinish
      BY <2>5, FinishStep
    <2>6. CASE ResumeStart
      BY <2>6, ResumeStep
    <2>7. CASE HandleCredentialChange
      BY <2>7, ChangeStep
    <2>8. CASE MainQueueRuns
      BY <2>8, MainStep
    <2>9. CASE \E a \in remote.asks : AuthAnswers(a)
      BY <2>9, AnswerStep
    <2>10. CASE Serve
      BY <2>10, ServeStep
    <2> QED  BY <1>2, <2>1, <2>2, <2>3, <2>4, <2>5, <2>6, <2>7, <2>8, <2>9, <2>10
             DEF Work, WorkerQueueRuns
  <1>3. CASE WriteMutations
    BY <1>3, WriteStep
  <1>4. CASE WaitForPendingWrites
    BY <1>4, WaitStep
  <1>5. CASE TurnNetworkOn
    BY <1>5, TurnOnStep
  <1>6. CASE TurnNetworkOff
    BY <1>6, TurnOffStep
  <1>7. CASE \E u \in User : AuthStateChanges(u)
    BY <1>7, AuthStep
  <1>8. CASE Refuse
    BY <1>8, RefuseStep
  <1>9. CASE Break
    BY <1>9, BreakStep
  <1>10. CASE Relaunch
    BY <1>10, RelaunchStep
  <1>11. CASE UnreadableResponse
    BY <1>11, UnreadableStep
  <1> QED  BY <1>1, <1>2, <1>3, <1>4, <1>5, <1>6, <1>7, <1>8, <1>9, <1>10, <1>11 DEF Next

--------------------------------------------------------------------------------
(* The theorems.                                                           *)

\* The invariant holds in every state: queues in order, a stream as sound as its calls
\* need, and tokens that arrive after the changes of user they must not outlive.
THEOREM InvHolds == Spec => []Inv
  <1>1. Init => Inv
    BY InitStep
  <1>2. Inv /\ [Next]_vars => Inv'
    BY NextStep
  <1> QED  BY <1>1, <1>2, PTL DEF Spec

\* No HARD_ASSERT of the streams, the remote store or the local store fails.
THEOREM NoAssertFailsHolds == Spec => []NoAssertFails
  <1>1. Inv => NoAssertFails
    BY DEF Inv, Stream, Sound, NoAssertFails
  <1> QED  BY <1>1, InvHolds, PTL

\* The pipeline holds the oldest batches of the current user's queue, and a stream
\* is on its way for them.
THEOREM PipelineIsFullHolds == Spec => []PipelineIsFull
  <1>1. Inv => PipelineIsFull
    BY DEF Inv, Stream, Full, PipelineIsFull
  <1> QED  BY <1>1, InvHolds, PTL

\* Every answer the client reads is about the pipeline's first batch.
THEOREM AnswersMatchHolds == Spec => []AnswersMatch
  <1>1. ASSUME Inv PROVE AnswersMatch
    <2> SUFFICES ASSUME remote.conn # NoConn
                 PROVE  CASE remote.conn.status = "open" ->
                               remote.conn.responses \o remote.conn.requests =
                                  IF remote.handshake THEN remote.pipeline ELSE <<Handshake>>
                          [] remote.conn.status = "permanent" /\ remote.handshake ->
                               /\ Len(remote.pipeline) =
                                     Len(remote.conn.responses \o remote.conn.requests) + 1
                               /\ remote.conn.responses =
                                     SubSeq(remote.pipeline, 1, Len(remote.conn.responses))
                          [] OTHER -> TRUE
      BY DEF AnswersMatch
    <2>1. CallMatches(remote, refused)
      BY <1>1, Facts
    <2>2. remote.conn.requests \in Seq(Request) /\ remote.conn.responses \in Seq(Request)
      BY <1>1, Facts
    <2>3. Len(remote.conn.responses \o remote.conn.requests) =
             Len(remote.conn.responses) + Len(remote.conn.requests)
      BY <2>2, ConcatProperties
    <2>4. CASE remote.conn.status = "open"
      <3>1. remote.conn.responses \o remote.conn.requests =
               IF remote.handshake THEN remote.pipeline ELSE <<Handshake>>
        BY <2>1, <2>4 DEF CallMatches
      <3>2. remote.conn.status # "permanent"
        BY <2>4
      <3> QED  BY <2>4, <3>1, <3>2
    <2>5. CASE remote.conn.status = "permanent" /\ remote.handshake
      <3>1. /\ Len(remote.pipeline) =
                 Len(remote.conn.responses) + Len(remote.conn.requests) + 1
            /\ remote.conn.responses =
                 SubSeq(remote.pipeline, 1, Len(remote.conn.responses))
        BY <2>1, <2>5 DEF CallMatches
      <3>2. remote.conn.status # "open"
        BY <2>5
      <3> QED  BY <2>3, <2>5, <3>1, <3>2
    <2>6. CASE remote.conn.status # "open"
               /\ ~(remote.conn.status = "permanent" /\ remote.handshake)
      BY <2>6
    <2> QED  BY <2>4, <2>5, <2>6
  <1>2. Inv => AnswersMatch
    BY <1>1
  <1> QED  BY <1>2, InvHolds, PTL

\* A write taken for refused was refused, or an answer to it had come and was dropped.
THEOREM RejectedUnlessLostHolds == Spec => []RejectedUnlessLost
  <1>1. Inv => RejectedUnlessLost
    BY DEF Inv
  <1> QED  BY <1>1, InvHolds, PTL

\* A batch is sent only on a stream opened with a token of the user who made it, and
\* a stream token is kept for the user it was given to.
THEOREM OwnCredentialsHolds == Spec => []OwnCredentials
  <1>1. ASSUME Inv PROVE OwnCredentials
    <2>1. OwnCall(remote, user, issued)
      BY <1>1, Facts
    <2>2. remote.conn # NoConn =>
            /\ remote.conn.user = user
            /\ \A i \in DOMAIN remote.conn.requests :
                  remote.conn.requests[i] # Handshake =>
                      issued[remote.conn.requests[i].w] = remote.conn.user
      BY <2>1 DEF OwnCall
    <2>3. remote.enabled => remote.token \in {user, NoToken}
      BY <2>1 DEF OwnCall
    <2>4. \A u \in User : saved[u] \in {u, NoToken}
      BY <1>1 DEF Inv, Queues, OwnTokens
    <2> QED  BY <2>2, <2>3, <2>4 DEF OwnCredentials
  <1>2. Inv => OwnCredentials
    BY <1>1
  <1> QED  BY <1>2, InvHolds, PTL

\* An answer that is read keeps the token it brings.
LEMMA KeepsToken ==
    ASSUME Inv, HasAnswer, saved' = [saved EXCEPT ![user] = remote.conn.user],
           NEW u \in User, saved[u] # NoToken
    PROVE  saved'[u] # NoToken
  <1>1. remote.conn.user = user /\ user \in User /\ saved \in [User -> User \cup {NoToken}]
    BY Facts DEF HasAnswer
  <1>2. user # NoToken
    BY <1>1, PipelineAssumption
  <1> QED  BY <1>1, <1>2

\* CloseWithError throws the token away only before the handshake is complete.
LEMMA ResetIs ==
    ASSUME Inv, remote.conn # NoConn, NEW status, CloseWithError(status)
    PROVE  saved' = saved \/ (IsPermanentError(status) /\ ~remote.handshake)
  <1>1. Closed(remote, "Error").handshake = remote.handshake
    <2>1. Started(remote)
      BY Facts DEF Sound, Started
    <2> QED  BY <2>1, Facts, ClosedIs
  <1> QED  BY <1>1 DEF CloseWithError

\* A stream token is thrown away only when the backend has refused the handshake or its
\* answer cannot be decoded.
THEOREM TokenKept == Spec => TokenKeptOnAbort
  <1> DEFINE Kept == \A u \in User : saved[u] # NoToken /\ saved'[u] = NoToken =>
                        /\ remote.conn # NoConn /\ ~remote.handshake
                        /\ remote.conn.status = "permanent" \/ HasAnswer
  <1>1. ASSUME Inv, [Next]_vars PROVE [Kept]_vars
    <2>0. saved' = saved => Kept
      BY DEF Kept
    <2>1. CASE UNCHANGED vars
      BY <2>1
    <2>2. CASE HandshakeComplete
      <3>1. HasAnswer /\ saved' = [saved EXCEPT ![user] = remote.conn.user]
        BY <2>2 DEF HandshakeComplete
      <3> QED  BY <1>1, <3>1, KeepsToken
    <2>3. CASE MutationResult
      <3>1. HasAnswer /\ saved' = [saved EXCEPT ![user] = remote.conn.user]
        BY <2>3 DEF MutationResult
      <3> QED  BY <1>1, <3>1, KeepsToken
    <2>4. CASE StreamFinish
      <3>1. remote.conn # NoConn /\ CloseWithError(remote.conn.status)
        BY <2>4 DEF StreamFinish
      <3>2. saved' = saved \/ (IsPermanentError(remote.conn.status) /\ ~remote.handshake)
        BY <1>1, <3>1, ResetIs
      <3>3. CASE IsPermanentError(remote.conn.status) /\ ~remote.handshake
        <4>1. remote.conn.status \in {"transient", "permanent"}
          BY <1>1, <2>4, <3>1, Facts DEF StreamFinish, Conn, Status
        <4> QED  BY <3>1, <3>3, <4>1 DEF IsPermanentError
      <3> QED  BY <2>0, <3>2, <3>3
    <2>5. CASE ResumeStart
      <3>1. /\ tasks # <<>> /\ Head(tasks).kind = "Resume"
            /\ \/ saved' = saved
               \/ /\ Current(Head(tasks)) /\ Head(tasks).result \notin User
                  /\ CloseWithError(Head(tasks).result)
        BY <2>5 DEF ResumeStart, persistent
      <3>2. CASE saved' = saved
        BY <2>0, <3>2
      <3>3. CASE /\ Current(Head(tasks)) /\ Head(tasks).result \notin User
                 /\ CloseWithError(Head(tasks).result)
        <4>1. Head(tasks).result = "transient"
          BY <1>1, <3>1, <3>3, ResumeIs
        <4>2. saved' = saved
          BY <3>3, <4>1 DEF CloseWithError, IsPermanentError
        <4> QED  BY <2>0, <4>2
      <3> QED  BY <3>1, <3>2, <3>3
    <2>6. CASE \/ BackoffElapses \/ IdleTimeout \/ HandleCredentialChange \/ MainQueueRuns
               \/ \E a \in remote.asks : AuthAnswers(a)
               \/ Serve \/ Refuse \/ Break \/ Relaunch
      <3>1. saved' = saved
        BY <2>6 DEF BackoffElapses, IdleTimeout, HandleCredentialChange, MainQueueRuns,
                    AuthAnswers, Serve, Refuse, Break, Relaunch, persistent
      <3> QED  BY <2>0, <3>1
    <2>7. CASE \/ WriteMutations \/ WaitForPendingWrites \/ TurnNetworkOn \/ TurnNetworkOff
               \/ \E u \in User : AuthStateChanges(u)
      <3>1. saved' = saved
        BY <2>7 DEF WriteMutations, WaitForPendingWrites, TurnNetworkOn, TurnNetworkOff,
                    AuthStateChanges, persistent
      <3> QED  BY <2>0, <3>1
    <2>8. CASE UnreadableResponse
      <3>1. HasAnswer /\ remote.conn # NoConn /\ CloseWithError("permanent")
        BY <2>8 DEF UnreadableResponse, HasAnswer
      <3>2. saved' = saved \/ ~remote.handshake
        BY <1>1, <3>1, ResetIs
      <3> QED  BY <2>0, <3>1, <3>2
    <2> QED  BY <1>1, <2>1, <2>2, <2>3, <2>4, <2>5, <2>6, <2>7, <2>8
             DEF Next, Work, WorkerQueueRuns
  <1>2. Inv /\ [Next]_vars =>
           [\A u \in User : saved[u] # NoToken /\ saved'[u] = NoToken =>
               /\ remote.conn # NoConn /\ ~remote.handshake
               /\ remote.conn.status = "permanent" \/ HasAnswer]_vars
    BY <1>1
  <1> HIDE DEF Kept
  <1> QED  BY <1>2, InvHolds, PTL DEF Spec, TokenKeptOnAbort
================================================================================
