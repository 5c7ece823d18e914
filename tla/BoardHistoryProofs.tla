--------------------------- MODULE BoardHistoryProofs ---------------------------
(***************************************************************************)
(* What becomes of a word a user has said: proofs about BoardHistory.      *)
(*                                                                         *)
(* LastWordStands says what the backend holds when all writes to a name    *)
(* have arrived.  It is inductive with one more fact: while a device has   *)
(* writes to a name pending, the last of them is its last word.            *)
(*                                                                         *)
(* ShownWasPublished says what users see.  It is inductive once it is said *)
(* of all that is stored too, and of pages: nothing is left for a page     *)
(* that is closed.                                                         *)
(***************************************************************************)
EXTENDS BoardHistory, PostBoardProofs

PendingIsLatest ==
    \A d \in Device : \A k \in Name : \A l \in DOMAIN queue[d] :
        IsLastWrite(queue[d], k, l) => queue[d][l].doc = latest[d][k]

--------------------------------------------------------------------------------
(* What a step of the board does to the board, the queues and the streams. *)

Quiet == UNCHANGED <<server, queue, sent>>

Writing(d, m, n) == WriteMutations(d, m, n) /\ UNCHANGED <<server, sent>>

Restarting(d) == sent' = [sent EXCEPT ![d] = 0] /\ UNCHANGED <<server, queue>>

LEMMA StoreStep ==
    ASSUME TypeOK, [Next]_vars
    PROVE  \/ Quiet
           \/ \E d \in Device :
                 \/ \E m \in Mutation, n \in Nat \ {0} : Writing(d, m, n)
                 \/ CommitNext(d) \/ HandleSuccessfulWrite(d) \/ HandleRejectedWrite(d)
                 \/ Restarting(d)
  <1>1. ASSUME NEW d \in Device, SaveTask(d)
        PROVE  \E m \in Mutation, n \in Nat \ {0} : Writing(d, m, n)
    <2>1. inbox[d] # <<>> /\ NamesDocument(Typed(d).name) /\ Writes(d) > 0
      BY <1>1 DEF SaveTask, NextAnswer
    <2>2. NewPost(d) \in Mutation
      BY <2>1, NextAnswerType DEF NewPost, NamesDocument, Draft, Mutation, Post
    <2>3. Writes(d) \in Nat \ {0}
      BY <2>1, WritesType
    <2>4. Writing(d, NewPost(d), Writes(d))
      BY <1>1 DEF SaveTask, Writing
    <2> QED  BY <2>2, <2>3, <2>4
  <1>2. ASSUME NEW d \in Device, Delete(d)
        PROVE  \E m \in Mutation, n \in Nat \ {0} : Writing(d, m, n)
    <2> DEFINE m == [key |-> nameLabel[d], doc |-> NoDoc]
    <2>1. m \in Mutation
      BY DEF Mutation, TypeOK
    <2>2. Writing(d, m, 1)
      BY <1>2 DEF Delete, Writing
    <2> QED  BY <2>1, <2>2
  <1>3. ASSUME NEW d \in Device, SaveCrash(d) \/ Kill(d) \/ Break(d) PROVE Restarting(d)
    BY <1>3
    DEF SaveCrash, Kill, Break, Relaunch, LoseMemory, OnWriteStreamClose, Resend, Restarting
  <1>4. ASSUME NEW d \in Device,
               \/ UpdateTimer(d) \/ NewPostButton(d) \/ EditName(d) \/ EditText(d)
               \/ SaveButPress(d) \/ DidSelectRow(d) \/ Back(d)
               \/ Update(d) \/ ShowPost(d) \/ SaveNothing(d)
               \/ Synced(d) \/ Offline(d) \/ Refused(d)
        PROVE  Quiet
    BY <1>4
    DEF UpdateTimer, NewPostButton, EditName, EditText, SaveButPress, DidSelectRow,
        Back, Update, ShowPost, SaveNothing, Synced, ApplyRemoteEvent,
        Offline, AnswerOffline, Refused, HandleRejectedListen, clientVars, Quiet
  <1>5. CASE UNCHANGED vars
    BY <1>5 DEF vars, Quiet
  <1> QED
    BY <1>1, <1>2, <1>3, <1>4, <1>5 DEF Next, HandleAnswer, Commit, Ack, Reject

\* The record of a step: who has written, and to which name.
LEMMA RecordOfWriting ==
    ASSUME TypeOK, NEW d \in Device, NEW m \in Mutation, NEW n \in Nat \ {0},
           Writing(d, m, n), Record
    PROVE  /\ \A e \in Device : \A k \in Name :
                  latest'[e][k] = IF e = d /\ m.key = k THEN m.doc ELSE latest[e][k]
           /\ \A e \in Device \ {d} : queue'[e] = queue[e]
           /\ Wrote(d) /\ Written(d) = m
           /\ \E q \in Nat : /\ DOMAIN queue[d] = 1..q /\ Len(queue[d]) = q
                             /\ DOMAIN queue'[d] = 1..(q + n)
                             /\ \A i \in 1..q : queue'[d][i] = queue[d][i]
                             /\ \A i \in (q + 1)..(q + n) : queue'[d][i] = m
  <1>1. StoreTypeOK
    BY DEF TypeOK
  <1>2. /\ \A e \in Device \ {d} : queue'[e] = queue[e]
        /\ Len(queue'[d]) = Len(queue[d]) + n
        /\ \A i \in 1..Len(queue'[d]) :
               queue'[d][i] = IF i <= Len(queue[d]) THEN queue[d][i] ELSE m
    BY <1>1, WriteMutationsGrows DEF Writing
  <1>3. PICK q \in Nat : Len(queue[d]) = q
    BY <1>1, LenProperties DEF StoreTypeOK
  <1>4. queue' \in [Device -> Seq(Mutation)]
    BY <1>1, WriteMutationsType DEF Writing
  <1>5. Len(queue'[d]) = q + n /\ DOMAIN queue[d] = 1..q /\ DOMAIN queue'[d] = 1..(q + n)
    BY <1>1, <1>2, <1>3, <1>4, LenProperties DEF StoreTypeOK
  <1>6. /\ \A i \in 1..q : i \in 1..(q + n) /\ i <= q
        /\ \A i \in (q + 1)..(q + n) : i \in 1..(q + n) /\ ~(i <= q)
        /\ q + n \in (q + 1)..(q + n) /\ q + n > q
    OBVIOUS
  <1>7. /\ \A i \in 1..q : queue'[d][i] = queue[d][i]
        /\ \A i \in (q + 1)..(q + n) : queue'[d][i] = m
    BY <1>2, <1>3, <1>5, <1>6
  <1>8. Wrote(d) /\ Written(d) = m
    BY <1>3, <1>5, <1>6, <1>7 DEF Wrote, Written
  <1>9. \A e \in Device \ {d} : ~Wrote(e)
    <2>1. \A e \in Device : Len(queue[e]) \in Nat
      BY <1>1, LenProperties DEF StoreTypeOK
    <2> QED  BY <1>2, <2>1 DEF Wrote
  <1>10. \A e \in Device : \A k \in Name :
            latest'[e][k] = IF e = d /\ m.key = k THEN m.doc ELSE latest[e][k]
    BY <1>8, <1>9 DEF Record
  <1> QED  BY <1>2, <1>3, <1>5, <1>7, <1>8, <1>10

\* The record of a step that writes nothing.
LEMMA RecordOfOthers ==
    ASSUME \A d \in Device : ~Wrote(d), Record
    PROVE  /\ \A d \in Device : \A k \in Name : latest'[d][k] = latest[d][k]
           /\ refused \subseteq refused'
  BY DEF Record

\* What the removal of the oldest write leaves of the last writes.
LEMMA LastWriteBeforeTail ==
    ASSUME NEW q \in Seq(Mutation), q # <<>>, NEW k, NEW p, IsLastWrite(Tail(q), k, p)
    PROVE  IsLastWrite(q, k, p + 1) /\ q[p + 1] = Tail(q)[p]
  <1>1. PICK n \in Nat \ {0} :
              /\ DOMAIN q = 1..n /\ DOMAIN Tail(q) = 1..(n - 1)
              /\ \A i \in 1..(n - 1) : Tail(q)[i] = q[i + 1]
    BY TailOfQueue
  <1>2. /\ p \in 1..(n - 1) /\ Tail(q)[p].key = k
        /\ \A j \in 1..(n - 1) : j > p => Tail(q)[j].key # k
    BY <1>1 DEF IsLastWrite
  <1>3. p + 1 \in 1..n
    BY <1>2
  <1>4. \A j \in 1..n : j > p + 1 => j - 1 \in 1..(n - 1) /\ j - 1 > p /\ (j - 1) + 1 = j
    BY <1>2
  <1>5. q[p + 1] = Tail(q)[p]
    BY <1>1, <1>2
  <1>6. \A j \in 1..n : j > p + 1 => q[j].key # k
    BY <1>1, <1>2, <1>4
  <1> QED  BY <1>1, <1>2, <1>3, <1>5, <1>6 DEF IsLastWrite

Removing(d) == queue[d] # <<>> /\ queue' = [queue EXCEPT ![d] = Tail(@)]

LEMMA RemovingSteps ==
    ASSUME TypeOK, PipelineOK, NEW d \in Device,
           HandleSuccessfulWrite(d) \/ HandleRejectedWrite(d)
    PROVE  Removing(d)
  <1>1. CASE HandleSuccessfulWrite(d)
    <2>1. PICK n \in Nat : Len(queue[d]) = n
      BY LenProperties DEF TypeOK, StoreTypeOK
    <2>2. sent[d] \in Nat /\ sent[d] > 0 /\ sent[d] <= n
      BY <1>1, <2>1 DEF HandleSuccessfulWrite, PipelineOK, TypeOK, StoreTypeOK
    <2>3. n # 0
      BY <2>2
    <2>4. queue[d] # <<>>
      BY <2>1, <2>3
    <2> QED  BY <1>1, <2>4 DEF HandleSuccessfulWrite, Removing
  <1>2. CASE HandleRejectedWrite(d)
    BY <1>2 DEF HandleRejectedWrite, Removing
  <1> QED  BY <1>1, <1>2

LEMMA RecordOfRemoving ==
    ASSUME TypeOK, NEW d \in Device, Removing(d), Record
    PROVE  /\ \A e \in Device : ~Wrote(e)
           /\ sent' = sent => Head(queue[d]).key \in refused'
  <1>1. queue \in [Device -> Seq(Mutation)]
    BY DEF TypeOK, StoreTypeOK
  <1>2. queue'[d] = Tail(queue[d]) /\ \A e \in Device \ {d} : queue'[e] = queue[e]
    BY <1>1 DEF Removing
  <1>3. PICK n \in Nat \ {0} : Len(queue[d]) = n /\ Len(Tail(queue[d])) = n - 1
    BY <1>1, TailOfQueue DEF Removing
  <1>4. n - 1 < n /\ ~(n - 1 > n)
    OBVIOUS
  <1>5. Len(queue'[d]) < Len(queue[d]) /\ ~Wrote(d)
    BY <1>2, <1>3, <1>4 DEF Wrote
  <1>6. \A e \in Device \ {d} : ~Wrote(e)
    <2>1. \A e \in Device : Len(queue[e]) \in Nat
      BY <1>1, LenProperties
    <2> QED  BY <1>2, <2>1 DEF Wrote
  <1>7. ASSUME sent' = sent PROVE Head(queue[d]).key \in refused'
    BY <1>5, <1>7 DEF Record
  <1> QED  BY <1>5, <1>6, <1>7

\* Nobody writes in a step that leaves the queues alone.
LEMMA NobodyWrote ==
    ASSUME TypeOK, UNCHANGED queue
    PROVE  \A e \in Device : ~Wrote(e)
  <1>1. \A e \in Device : Len(queue[e]) \in Nat
    BY LenProperties DEF TypeOK, StoreTypeOK
  <1> QED  BY <1>1 DEF Wrote

--------------------------------------------------------------------------------
(* A device's last pending write to a name is its last word on it.         *)

LEMMA PendingNext ==
    ASSUME TypeOK, PipelineOK, PendingIsLatest, Next, Record
    PROVE  PendingIsLatest'
  <1>1. SUFFICES ASSUME NEW e \in Device, NEW k \in Name, NEW l,
                        IsLastWrite(queue'[e], k, l)
                 PROVE  queue'[e][l].doc = latest'[e][k]
    BY DEF PendingIsLatest, IsLastWrite
  <1>2. CASE UNCHANGED queue
    <2>1. latest'[e][k] = latest[e][k]
      BY <1>2, NobodyWrote, RecordOfOthers
    <2>2. l \in DOMAIN queue[e] /\ IsLastWrite(queue[e], k, l)
      BY <1>1, <1>2 DEF IsLastWrite
    <2> QED  BY <1>2, <2>1, <2>2 DEF PendingIsLatest
  <1>3. ASSUME NEW d \in Device, Removing(d) PROVE queue'[e][l].doc = latest'[e][k]
    <2>1. latest'[e][k] = latest[e][k]
      BY <1>3, RecordOfRemoving, RecordOfOthers
    <2>2. queue \in [Device -> Seq(Mutation)]
      BY DEF TypeOK, StoreTypeOK
    <2>3. CASE e = d
      <3>1. queue'[e] = Tail(queue[e]) /\ queue[e] # <<>> /\ queue[e] \in Seq(Mutation)
        BY <1>3, <2>2, <2>3 DEF Removing
      <3>2. IsLastWrite(queue[e], k, l + 1) /\ queue[e][l + 1] = queue'[e][l]
        BY <1>1, <3>1, LastWriteBeforeTail
      <3>3. l + 1 \in DOMAIN queue[e]
        BY <3>2 DEF IsLastWrite
      <3> QED  BY <2>1, <3>2, <3>3 DEF PendingIsLatest
    <2>4. CASE e # d
      <3>1. queue'[e] = queue[e]
        BY <1>3, <2>2, <2>4 DEF Removing
      <3>2. l \in DOMAIN queue[e] /\ IsLastWrite(queue[e], k, l)
        BY <1>1, <3>1 DEF IsLastWrite
      <3> QED  BY <2>1, <3>1, <3>2 DEF PendingIsLatest
    <2> QED  BY <2>3, <2>4
  <1>4. ASSUME NEW d \in Device, NEW m \in Mutation, NEW n \in Nat \ {0}, Writing(d, m, n)
        PROVE  queue'[e][l].doc = latest'[e][k]
    <2>1. latest'[e][k] = IF e = d /\ m.key = k THEN m.doc ELSE latest[e][k]
      BY <1>4, RecordOfWriting
    <2>2. CASE e = d
      <3>1. PICK q \in Nat : /\ DOMAIN queue[d] = 1..q
                             /\ DOMAIN queue'[d] = 1..(q + n)
                             /\ \A i \in 1..q : queue'[d][i] = queue[d][i]
                             /\ \A i \in (q + 1)..(q + n) : queue'[d][i] = m
        BY <1>4, RecordOfWriting
      <3>2. /\ l \in 1..(q + n) /\ queue'[d][l].key = k
            /\ \A j \in 1..(q + n) : j > l => queue'[d][j].key # k
        BY <1>1, <2>2, <3>1 DEF IsLastWrite
      <3>3. CASE m.key = k
        <4>1. q + n \in (q + 1)..(q + n) /\ q + n \in 1..(q + n)
          OBVIOUS
        <4>2. queue'[d][q + n].key = k
          BY <3>1, <3>3, <4>1
        <4>3. ~(q + n > l)
          BY <3>2, <4>1, <4>2
        <4>4. l \in (q + 1)..(q + n)
          BY <3>2, <4>3
        <4> QED  BY <2>1, <2>2, <3>1, <3>3, <4>4
      <3>4. CASE m.key # k
        <4>1. ~(l \in (q + 1)..(q + n))
          BY <3>1, <3>2, <3>4
        <4>2. l \in 1..q
          BY <3>2, <4>1
        <4>3. \A j \in 1..q : j \in 1..(q + n)
          OBVIOUS
        <4>4. /\ queue[d][l].key = k
              /\ \A j \in 1..q : j > l => queue[d][j].key # k
          BY <3>1, <3>2, <4>2, <4>3
        <4>5. IsLastWrite(queue[d], k, l)
          BY <3>1, <4>2, <4>4 DEF IsLastWrite
        <4>6. queue[d][l].doc = latest[d][k]
          BY <3>1, <4>2, <4>5 DEF PendingIsLatest
        <4> QED  BY <2>1, <2>2, <3>1, <3>4, <4>2, <4>6
      <3> QED  BY <3>3, <3>4
    <2>3. CASE e # d
      <3>1. queue'[e] = queue[e]
        BY <1>4, <2>3, RecordOfWriting
      <3>2. l \in DOMAIN queue[e] /\ IsLastWrite(queue[e], k, l)
        BY <1>1, <3>1 DEF IsLastWrite
      <3> QED  BY <2>1, <2>3, <3>1, <3>2 DEF PendingIsLatest
    <2> QED  BY <2>2, <2>3
  <1>5. \/ UNCHANGED queue
        \/ \E d \in Device : \/ \E m \in Mutation, n \in Nat \ {0} : Writing(d, m, n)
                             \/ Removing(d)
    BY StoreStep, RemovingSteps DEF Quiet, CommitNext, Restarting
  <1> QED  BY <1>2, <1>3, <1>4, <1>5

--------------------------------------------------------------------------------
(* The last word stands.                                                   *)

\* k has been written to, the backend has refused nothing of it, and it has
\* applied everything.
Decided(k) ==
    Settled(k) /\ k \notin refused /\ \E d \in Device : latest[d][k] # Silent

Heard(k) == \E d \in Device : latest[d][k] = server[k]

\* Settled before the oldest write was removed, if settled after it.
LEMMA SettledBeforeRemoving ==
    ASSUME TypeOK, PipelineOK, NEW d \in Device, NEW k \in Name, Removing(d),
           \/ sent[d] > 0 /\ sent' = [sent EXCEPT ![d] = @ - 1]
           \/ sent[d] = 0 /\ sent' = sent /\ Head(queue[d]).key # k,
           Settled(k)'
    PROVE  Settled(k)
  <1>1. queue \in [Device -> Seq(Mutation)] /\ sent \in [Device -> Nat]
    BY DEF TypeOK, StoreTypeOK
  <1>2. SUFFICES ASSUME NEW e \in Device, NEW i \in DOMAIN queue[e], queue[e][i].key = k
                 PROVE  i <= sent[e]
    BY DEF Settled
  <1>3. CASE e # d
    <2>1. queue'[e] = queue[e] /\ sent'[e] = sent[e]
      BY <1>1, <1>3 DEF Removing
    <2> QED  BY <1>2, <2>1 DEF Settled
  <1>4. CASE e = d
    <2>1. PICK n \in Nat \ {0} :
              /\ DOMAIN queue[d] = 1..n /\ Head(queue[d]) = queue[d][1]
              /\ DOMAIN Tail(queue[d]) = 1..(n - 1)
              /\ \A j \in 1..(n - 1) : Tail(queue[d])[j] = queue[d][j + 1]
      BY <1>1, TailOfQueue DEF Removing
    <2>2. queue'[d] = Tail(queue[d])
      BY <1>1 DEF Removing
    <2>3. i \in 1..n
      BY <1>4, <2>1
    <2>4. CASE i = 1
      <3>1. sent[d] > 0
        BY <1>2, <1>4, <2>1, <2>4
      <3> QED  BY <1>1, <1>4, <2>4, <3>1
    <2>5. CASE i # 1
      <3>1. i - 1 \in 1..(n - 1) /\ (i - 1) + 1 = i
        BY <2>3, <2>5
      <3>2. queue'[d][i - 1].key = k
        BY <1>2, <1>4, <2>1, <2>2, <3>1
      <3>3. i - 1 <= sent'[d]
        BY <2>1, <2>2, <3>1, <3>2 DEF Settled
      <3>4. sent[d] \in Nat /\ (sent'[d] = sent[d] - 1 \/ sent'[d] = 0)
        BY <1>1
      <3>5. i \in Nat /\ i > 1
        BY <2>3, <2>5
      <3>6. i <= sent[d]
        BY <3>3, <3>4, <3>5
      <3> QED  BY <1>4, <3>6
    <2> QED  BY <2>4, <2>5
  <1> QED  BY <1>3, <1>4

LEMMA DecidedNext ==
    ASSUME TypeOK, PipelineOK, PendingIsLatest, LastWordStands, Next, Record
    PROVE  LastWordStands'
  <1>1. SUFFICES ASSUME NEW k \in Name, Decided(k)' PROVE Heard(k)'
    BY DEF LastWordStands, Decided, Heard
  <1>2. queue \in [Device -> Seq(Mutation)] /\ sent \in [Device -> Nat]
    BY DEF TypeOK, StoreTypeOK
  <1>3. ASSUME UNCHANGED server, Settled(k),
               \A d \in Device : latest'[d][k] = latest[d][k], refused \subseteq refused'
        PROVE  Heard(k)'
    <2>1. Decided(k)
      BY <1>1, <1>3 DEF Decided
    <2> QED  BY <1>3, <2>1 DEF LastWordStands, Decided, Heard
  <1>4. CASE Quiet
    <2>1. Settled(k)
      BY <1>1, <1>4 DEF Decided, Settled, Quiet
    <2> QED  BY <1>3, <1>4, <2>1, NobodyWrote, RecordOfOthers DEF Quiet
  <1>5. ASSUME NEW d \in Device, Restarting(d) PROVE Heard(k)'
    <2>1. ASSUME NEW e \in Device, NEW i \in DOMAIN queue[e], queue[e][i].key = k
          PROVE  i <= sent[e]
      <3>1. i <= sent'[e]
        BY <1>1, <1>5, <2>1 DEF Decided, Settled, Restarting
      <3>2. sent'[e] = sent[e] \/ sent'[e] = 0
        BY <1>2, <1>5 DEF Restarting
      <3>3. PICK n \in Nat : DOMAIN queue[e] = 1..n
        BY <1>2, LenProperties
      <3>4. i \in 1..n
        BY <3>3
      <3> QED  BY <1>2, <3>1, <3>2, <3>4
    <2>2. Settled(k)
      BY <2>1 DEF Settled
    <2> QED  BY <1>3, <1>5, <2>2, NobodyWrote, RecordOfOthers DEF Restarting
  <1>6. ASSUME NEW d \in Device, HandleSuccessfulWrite(d) PROVE Heard(k)'
    <2>1. Removing(d)
      BY <1>6, RemovingSteps
    <2>2. sent[d] > 0 /\ sent' = [sent EXCEPT ![d] = @ - 1] /\ UNCHANGED server
      BY <1>6 DEF HandleSuccessfulWrite
    <2>3. Settled(k)
      BY <1>1, <2>1, <2>2, SettledBeforeRemoving DEF Decided
    <2> QED  BY <1>3, <2>1, <2>2, <2>3, RecordOfRemoving, RecordOfOthers
  <1>7. ASSUME NEW d \in Device, HandleRejectedWrite(d) PROVE Heard(k)'
    <2>1. Removing(d)
      BY <1>7, RemovingSteps
    <2>2. sent[d] = 0 /\ sent' = sent /\ UNCHANGED server
      BY <1>7 DEF HandleRejectedWrite
    <2>3. Head(queue[d]).key # k
      BY <1>1, <2>1, <2>2, RecordOfRemoving DEF Decided
    <2>4. Settled(k)
      BY <1>1, <2>1, <2>2, <2>3, SettledBeforeRemoving DEF Decided
    <2> QED  BY <1>3, <2>1, <2>2, <2>4, RecordOfRemoving, RecordOfOthers
  <1>8. ASSUME NEW d \in Device, CommitNext(d) PROVE Heard(k)'
    <2> DEFINE i == sent[d] + 1
               m == queue[d][i]
    <2>1. i \in DOMAIN queue[d] /\ sent'[d] = i /\ \A e \in Device \ {d} : sent'[e] = sent[e]
      <3>1. PICK n \in Nat : Len(queue[d]) = n /\ DOMAIN queue[d] = 1..n
        BY <1>2, LenProperties
      <3>2. sent[d] \in Nat /\ sent[d] < n
        BY <1>2, <1>8, <3>1 DEF CommitNext
      <3>3. sent[d] + 1 \in 1..n
        BY <3>2
      <3> QED  BY <1>2, <1>8, <3>1, <3>3 DEF CommitNext
    <2>2. server' = [server EXCEPT ![m.key] = m.doc] /\ UNCHANGED queue
      BY <1>8 DEF CommitNext
    <2>3. (\A e \in Device : latest'[e][k] = latest[e][k]) /\ refused \subseteq refused'
      BY <2>2, NobodyWrote, RecordOfOthers
    <2>4. CASE m.key = k
      <3>1. ASSUME NEW j \in DOMAIN queue[d], j > i PROVE queue[d][j].key # k
        <4>1. PICK n \in Nat : DOMAIN queue[d] = 1..n
          BY <1>2, LenProperties
        <4>2. j \in 1..n /\ i \in 1..n /\ ~(j <= i)
          BY <2>1, <3>1, <4>1
        <4> QED  BY <1>1, <2>1, <2>2, <4>2 DEF Decided, Settled
      <3>2. IsLastWrite(queue[d], k, i)
        BY <2>1, <2>4, <3>1 DEF IsLastWrite
      <3>3. m.doc = latest[d][k]
        BY <2>1, <3>2 DEF PendingIsLatest
      <3>4. server'[k] = m.doc
        BY <2>2, <2>4 DEF TypeOK, StoreTypeOK, Contents
      <3> QED  BY <2>3, <3>3, <3>4 DEF Heard
    <2>5. CASE m.key # k
      <3>1. ASSUME NEW e \in Device, NEW j \in DOMAIN queue[e], queue[e][j].key = k
            PROVE  j <= sent[e]
        <4>1. j <= sent'[e]
          BY <1>1, <2>2, <3>1 DEF Decided, Settled
        <4>2. e = d => j # i
          BY <2>5, <3>1
        <4>3. PICK n \in Nat : DOMAIN queue[e] = 1..n
          BY <1>2, LenProperties
        <4>4. j \in 1..n
          BY <4>3
        <4> QED  BY <1>2, <2>1, <4>1, <4>2, <4>4
      <3>2. Settled(k)
        BY <3>1 DEF Settled
      <3>3. server'[k] = server[k]
        BY <2>2, <2>5 DEF TypeOK, StoreTypeOK, Contents
      <3>4. Decided(k)
        BY <1>1, <2>3, <3>2 DEF Decided
      <3> QED  BY <2>3, <3>3, <3>4 DEF LastWordStands, Decided, Heard
    <2> QED  BY <2>4, <2>5
  <1>9. ASSUME NEW d \in Device, NEW m \in Mutation, NEW n \in Nat \ {0}, Writing(d, m, n)
        PROVE  Heard(k)'
    <2>1. \A e \in Device \ {d} : queue'[e] = queue[e]
      BY <1>9, RecordOfWriting
    <2>2. PICK q \in Nat : /\ DOMAIN queue[d] = 1..q /\ Len(queue[d]) = q
                           /\ DOMAIN queue'[d] = 1..(q + n)
                           /\ \A i \in 1..q : queue'[d][i] = queue[d][i]
                           /\ \A i \in (q + 1)..(q + n) : queue'[d][i] = m
      BY <1>9, RecordOfWriting
    <2>3. sent' = sent /\ server' = server
      BY <1>9 DEF Writing
    <2>4. m.key # k
      <3>1. q + n \in (q + 1)..(q + n) /\ q + n \in 1..(q + n)
        OBVIOUS
      <3>2. sent[d] \in Nat /\ sent[d] <= q
        BY <1>2, <2>2 DEF PipelineOK
      <3>3. ~(q + n <= sent[d])
        BY <3>2
      <3> QED  BY <1>1, <2>2, <2>3, <3>1, <3>3 DEF Decided, Settled
    <2>5. \A e \in Device : latest'[e][k] = latest[e][k]
      BY <1>9, <2>4, RecordOfWriting
    <2>6. \A i \in 1..q : i \in 1..(q + n)
      OBVIOUS
    <2>7. Settled(k)
      <3>1. SUFFICES ASSUME NEW e \in Device, NEW i \in DOMAIN queue[e], queue[e][i].key = k
                     PROVE  i <= sent[e]
        BY DEF Settled
      <3>2. i \in DOMAIN queue'[e] /\ queue'[e][i] = queue[e][i]
        <4>1. CASE e = d
          BY <2>2, <2>6, <4>1
        <4>2. CASE e # d
          BY <2>1, <4>2
        <4> QED  BY <4>1, <4>2
      <3>3. i <= sent'[e]
        BY <1>1, <3>1, <3>2 DEF Decided, Settled
      <3> QED  BY <2>3, <3>3
    <2>8. refused \subseteq refused'
      BY DEF Record
    <2> QED  BY <1>3, <2>3, <2>5, <2>7, <2>8
  <1> QED  BY <1>4, <1>5, <1>6, <1>7, <1>8, <1>9, StoreStep

--------------------------------------------------------------------------------

LEMMA WordInit == HistoryInit => PendingIsLatest /\ LastWordStands
  <1>1. HistoryInit => \A d \in Device : DOMAIN queue[d] = {}
    <2>1. DOMAIN << >> = {}
      OBVIOUS
    <2> QED  BY <2>1 DEF HistoryInit, Init, StoreInit
  <1>2. HistoryInit => \A d \in Device : \A k \in Name : latest[d][k] = Silent
    BY DEF HistoryInit
  <1> QED  BY <1>1, <1>2 DEF PendingIsLatest, LastWordStands

LEMMA WordUnchanged ==
    ASSUME PendingIsLatest, LastWordStands, UNCHANGED allVars
    PROVE  PendingIsLatest' /\ LastWordStands'
  <1>1. UNCHANGED <<server, queue, sent, latest, refused>>
    BY DEF allVars, vars, historyVars
  <1> QED  BY <1>1 DEF PendingIsLatest, LastWordStands, Settled, IsLastWrite

(***************************************************************************)
(* What a user has said last about a name is not undone by the user's own  *)
(* older writes, repeated, sent again after a broken stream or after a     *)
(* restart: once all writes have arrived, the board holds the last word of *)
(* one of the devices.  For every number of devices, names and faults.     *)
(***************************************************************************)
THEOREM LastWordCorrect == HistorySpec => []LastWordStands
  <1>1. HistoryInit => Init
    BY DEF HistoryInit
  <1>2. [HistoryNext]_allVars => [Next]_vars
    BY DEF HistoryNext, allVars
  <1>3. HistorySpec => [](TypeOK /\ PipelineOK)
    BY <1>1, <1>2, StoreInvariant, PTL DEF HistorySpec, Spec
  <1>4. TypeOK /\ PipelineOK /\ PendingIsLatest /\ LastWordStands /\ [HistoryNext]_allVars
        => PendingIsLatest' /\ LastWordStands'
    BY PendingNext, DecidedNext, WordUnchanged DEF HistoryNext
  <1> QED  BY <1>3, <1>4, WordInit, PTL DEF HistorySpec

--------------------------------------------------------------------------------
(* What is shown was published.  Everything stored and shown is among the   *)
(* published posts, and a page that shows a name is still on the screen:    *)
(* once it is left, no read of a post's page can set its label.             *)

Published == [k \in Name |-> published]

NoPageRead(rs) == \A i \in DOMAIN rs : ~(rs[i].for = "detail" /\ rs[i].page = Open)

NoPageAnswer(as) ==
    \A i \in DOMAIN as : ~(as[i].req.for = "detail" /\ as[i].req.page = Open)

PageCloses ==
    \A d \in Device : screen[d] # "detail" =>
        NoPageRead(gets[d]) /\ NoPageAnswer(inbox[d]) /\ nameLabel[d] = Placeholder

LabelKnown ==
    \A d \in Device : nameLabel[d] # Placeholder =>
        [name |-> nameLabel[d], text |-> currentPost[d]] \in published

\* A read of the feed or of Save is no read of a post's page.
LEMMA AppendNoPage ==
    ASSUME StoreTypeOK, NEW d \in Device, NEW r \in Request, r.for # "detail",
           NoPageRead(gets[d]), GetDocuments(d, r)
    PROVE  NoPageRead(gets'[d])
  <1>1. gets[d] \in Seq(Request) /\ gets'[d] = Append(gets[d], r)
    BY DEF StoreTypeOK, GetDocuments
  <1>2. PICK n \in Nat : n = Len(gets[d])
    BY <1>1, LenProperties
  <1>3. /\ Append(gets[d], r) \in Seq(Request)
        /\ Len(Append(gets[d], r)) = n + 1
        /\ \A i \in 1..n : Append(gets[d], r)[i] = gets[d][i]
        /\ Append(gets[d], r)[n + 1] = r
    BY <1>1, <1>2, AppendProperties
  <1>4. DOMAIN gets[d] = 1..n /\ DOMAIN gets'[d] = 1..(n + 1)
    BY <1>1, <1>2, <1>3, LenProperties
  <1>5. \A i \in 1..(n + 1) : i \in 1..n \/ i = n + 1
    OBVIOUS
  <1> QED  BY <1>1, <1>3, <1>4, <1>5 DEF NoPageRead

\* Handling an answer leaves fewer.
LEMMA TailNoPage ==
    ASSUME NEW as \in Seq(Answer), as # <<>>, NoPageAnswer(as)
    PROVE  /\ NoPageAnswer(Tail(as))
           /\ ~(Head(as).req.for = "detail" /\ Head(as).req.page = Open)
  <1>1. PICK n \in Nat \ {0} : n = Len(as)
    BY LenProperties, EmptySeq
  <1>2. /\ Tail(as) \in Seq(Answer) /\ Len(Tail(as)) = n - 1
        /\ \A i \in 1..(n - 1) : Tail(as)[i] = as[i + 1]
    BY <1>1, HeadTailProperties
  <1>3. DOMAIN Tail(as) = 1..(n - 1) /\ DOMAIN as = 1..n
    BY <1>1, <1>2, LenProperties
  <1>4. Head(as) = as[1] /\ 1 \in 1..n
    OBVIOUS
  <1>5. \A i \in 1..(n - 1) : i + 1 \in 1..n
    OBVIOUS
  <1> QED  BY <1>2, <1>3, <1>4, <1>5 DEF NoPageAnswer

\* A snapshot answers the reads there are.
LEMMA RaiseNoPage ==
    ASSUME StoreTypeOK, NEW d \in Device, NEW result, RaiseSnapshot(d, result),
           NEW e \in Device, NoPageRead(gets[e]), NoPageAnswer(inbox[e]),
           result \in Contents \cup {Failed}
    PROVE  NoPageRead(gets'[e]) /\ NoPageAnswer(inbox'[e])
  <1> DEFINE answers == [i \in DOMAIN gets[d] |-> [req |-> gets[d][i], result |-> result]]
  <1>1. PICK n \in Nat : n = Len(gets[d])
    BY LenProperties DEF StoreTypeOK
  <1>2. gets[d] \in [1..n -> Request]
    BY <1>1, LenProperties DEF StoreTypeOK
  <1>3. answers \in [1..n -> Answer] /\ \A i \in 1..n : answers[i].req = gets[d][i]
    BY <1>2 DEF Answer
  <1>4. inbox' = [inbox EXCEPT ![d] = inbox[d] \o answers] /\ gets' = [gets EXCEPT ![d] = <<>>]
    BY DEF RaiseSnapshot
  <1> HIDE DEF answers
  <1>5. answers \in Seq(Answer) /\ Len(answers) = n
    BY <1>3, FunctionIsSequence
  <1>6. PICK k \in Nat : k = Len(inbox[d])
    BY LenProperties DEF StoreTypeOK
  <1>7. inbox[d] \in Seq(Answer) /\ DOMAIN inbox[d] = 1..k
    BY <1>6, LenProperties DEF StoreTypeOK
  <1>8. /\ inbox[d] \o answers \in Seq(Answer)
        /\ Len(inbox[d] \o answers) = k + n
        /\ \A i \in 1..(k + n) : (inbox[d] \o answers)[i] =
                                 IF i <= k THEN inbox[d][i] ELSE answers[i - k]
    BY <1>5, <1>6, <1>7, ConcatProperties
  <1>9. DOMAIN (inbox[d] \o answers) = 1..(k + n)
    BY <1>8, LenProperties
  <1>10. ASSUME NoPageRead(gets[d]), NoPageAnswer(inbox[d]), NEW i \in 1..(k + n)
         PROVE  ~(/\ (inbox[d] \o answers)[i].req.for = "detail"
                  /\ (inbox[d] \o answers)[i].req.page = Open)
    <2>1. CASE i <= k
      <3>1. i \in 1..k /\ (inbox[d] \o answers)[i] = inbox[d][i]
        BY <1>8, <2>1
      <3> QED  BY <1>7, <1>10, <3>1 DEF NoPageAnswer
    <2>2. CASE ~(i <= k)
      <3>1. i - k \in 1..n
        BY <2>2
      <3>2. (inbox[d] \o answers)[i] = answers[i - k]
        BY <1>8, <2>2
      <3>3. answers[i - k].req = gets[d][i - k] /\ i - k \in DOMAIN gets[d]
        BY <1>2, <1>3, <3>1
      <3> QED  BY <1>10, <3>2, <3>3 DEF NoPageRead
    <2> QED  BY <2>1, <2>2
  <1>11. CASE e = d
    <2>1. NoPageAnswer(inbox[d] \o answers)
      BY <1>9, <1>10, <1>11 DEF NoPageAnswer
    <2>2. gets'[d] = <<>> /\ inbox'[d] = inbox[d] \o answers
      BY <1>4 DEF StoreTypeOK
    <2>3. NoPageRead(<<>>)
      BY DEF NoPageRead
    <2> QED  BY <1>11, <2>1, <2>2, <2>3
  <1>12. CASE e # d
    <2>1. gets'[e] = gets[e] /\ inbox'[e] = inbox[e]
      BY <1>4, <1>12 DEF StoreTypeOK
    <2> QED  BY <2>1
  <1> QED  BY <1>11, <1>12

\* Leaving a page leaves nothing that is for it.
LEMMA CloseWindowNoPage ==
    ASSUME TypeOK, NEW d \in Device, NEW left \in Seq(Answer), CloseWindow(d, left)
    PROVE  /\ NoPageRead(gets'[d]) /\ NoPageAnswer(inbox'[d])
           /\ nameLabel'[d] = Placeholder
           /\ \A e \in Device \ {d} :
                 /\ gets'[e] = gets[e] /\ inbox'[e] = inbox[e] /\ screen'[e] = screen[e]
                 /\ nameLabel'[e] = nameLabel[e] /\ currentPost'[e] = currentPost[e]
  <1>1. fields[d] \in Draft /\ fields[d] # Open /\ gets[d] \in Seq(Request)
    BY MarksAssumption DEF TypeOK, StoreTypeOK
  <1>2. gets'[d] = DetachedReads(gets[d], fields[d])
    BY DEF CloseWindow, TypeOK, StoreTypeOK
  <1>3. inbox'[d] = DetachedAnswers(left, fields[d])
    BY DEF CloseWindow, TypeOK, StoreTypeOK
  <1>4. \A r \in Request : ~(/\ Detached(r, fields[d]).for = "detail"
                             /\ Detached(r, fields[d]).page = Open)
    BY <1>1 DEF Detached, Request
  <1>5. NoPageRead(gets'[d])
    <2>1. \A i \in DOMAIN gets[d] : gets[d][i] \in Request
      BY <1>1, LenProperties
    <2> QED  BY <1>2, <1>4, <2>1 DEF NoPageRead, DetachedReads
  <1>6. NoPageAnswer(inbox'[d])
    <2>0. left \in [1..Len(left) -> Answer]
      BY LenProperties
    <2>1. \A i \in DOMAIN left : left[i] \in Answer /\ left[i].req \in Request
      BY <2>0 DEF Answer
    <2>2. \A i \in DOMAIN left : DetachedAnswers(left, fields[d])[i].req
                                    = Detached(left[i].req, fields[d])
      BY <2>1 DEF DetachedAnswers, Answer
    <2>3. DOMAIN DetachedAnswers(left, fields[d]) = DOMAIN left
      BY DEF DetachedAnswers
    <2> QED  BY <1>3, <1>4, <2>1, <2>2, <2>3 DEF NoPageAnswer
  <1> QED  BY <1>5, <1>6 DEF CloseWindow, TypeOK, StoreTypeOK

\* A page is left together with everything that is for it.
LEMMA PageClosesNext ==
    ASSUME TypeOK, PageCloses, Next
    PROVE  PageCloses'
  <1> SUFFICES ASSUME NEW e \in Device, screen'[e] # "detail"
               PROVE  /\ NoPageRead(gets'[e]) /\ NoPageAnswer(inbox'[e])
                      /\ nameLabel'[e] = Placeholder
    BY DEF PageCloses
  <1>1. StoreTypeOK
    BY DEF TypeOK
  <1>2. CASE UNCHANGED <<screen, gets, inbox, nameLabel>>
    BY <1>2 DEF PageCloses
  <1>3. ASSUME NEW d \in Device, UpdateTimer(d) \/ SaveButPress(d)
        PROVE  NoPageRead(gets'[e]) /\ NoPageAnswer(inbox'[e]) /\ nameLabel'[e] = Placeholder
    <2>1. UNCHANGED <<screen, inbox, nameLabel>>
      BY <1>3 DEF UpdateTimer, SaveButPress, appVars
    <2>2. PICK r \in Request : r.for # "detail" /\ GetDocuments(d, r)
      BY <1>3 DEF UpdateTimer, SaveButPress, Request
    <2>3. CASE e = d
      <3>1. NoPageRead(gets[d])
        BY <2>1, <2>3 DEF PageCloses
      <3>2. NoPageRead(gets'[d])
        BY <1>1, <2>2, <3>1, AppendNoPage
      <3> QED  BY <2>1, <2>3, <3>2 DEF PageCloses
    <2>4. CASE e # d
      <3>1. gets'[e] = gets[e]
        BY <1>1, <2>2, <2>4 DEF GetDocuments, StoreTypeOK
      <3> QED  BY <2>1, <3>1 DEF PageCloses
    <2> QED  BY <2>3, <2>4
  <1>4. ASSUME NEW d \in Device, DidSelectRow(d)
        PROVE  NoPageRead(gets'[e]) /\ NoPageAnswer(inbox'[e]) /\ nameLabel'[e] = Placeholder
    <2>1. e # d
      BY <1>4 DEF DidSelectRow, TypeOK
    <2>2. gets'[e] = gets[e] /\ screen'[e] = screen[e] /\ UNCHANGED <<inbox, nameLabel>>
      BY <1>1, <1>4, <2>1 DEF DidSelectRow, GetDocuments, TypeOK, StoreTypeOK
    <2> QED  BY <2>2 DEF PageCloses
  <1>5. ASSUME NEW d \in Device, NewPostButton(d)
        PROVE  NoPageRead(gets'[e]) /\ NoPageAnswer(inbox'[e]) /\ nameLabel'[e] = Placeholder
    <2>1. screen[e] # "detail" /\ UNCHANGED <<gets, inbox, nameLabel>>
      BY <1>5 DEF NewPostButton, clientVars, TypeOK
    <2> QED  BY <2>1 DEF PageCloses
  <1>6. ASSUME NEW d \in Device, NEW left \in Seq(Answer), CloseWindow(d, left)
        PROVE  NoPageRead(gets'[e]) /\ NoPageAnswer(inbox'[e]) /\ nameLabel'[e] = Placeholder
    <2>1. CASE e = d
      BY <1>6, <2>1, CloseWindowNoPage
    <2>2. CASE e # d
      <3>1. /\ gets'[e] = gets[e] /\ inbox'[e] = inbox[e] /\ screen'[e] = screen[e]
            /\ nameLabel'[e] = nameLabel[e]
        BY <1>6, <2>2, CloseWindowNoPage
      <3> QED  BY <3>1 DEF PageCloses
    <2> QED  BY <2>1, <2>2
  <1>7. ASSUME NEW d \in Device, Delete(d) \/ Back(d)
        PROVE  NoPageRead(gets'[e]) /\ NoPageAnswer(inbox'[e]) /\ nameLabel'[e] = Placeholder
    <2>1. CloseWindow(d, inbox[d]) /\ inbox[d] \in Seq(Answer)
      BY <1>1, <1>7 DEF Delete, Back, StoreTypeOK
    <2> QED  BY <1>6, <2>1
  <1>8. ASSUME NEW d \in Device, inbox[d] # <<>>, Handled(d), UNCHANGED <<screen, gets>>,
               \/ UNCHANGED nameLabel
               \/ ShowPost(d)
        PROVE  NoPageRead(gets'[e]) /\ NoPageAnswer(inbox'[e]) /\ nameLabel'[e] = Placeholder
    <2>1. NoPageRead(gets[e]) /\ NoPageAnswer(inbox[e]) /\ nameLabel[e] = Placeholder
      BY <1>8 DEF PageCloses
    <2>2. inbox[d] \in Seq(Answer)
      BY <1>1 DEF StoreTypeOK
    <2>3. CASE e = d
      <3>1. NoPageAnswer(Tail(inbox[d])) /\ inbox'[d] = Tail(inbox[d])
        BY <1>1, <1>8, <2>1, <2>2, <2>3, TailNoPage DEF Handled, StoreTypeOK
      <3>2. ASSUME ShowPost(d) PROVE nameLabel'[d] = nameLabel[d]
        <4>1. Head(inbox[d]).req.page # Open
          BY <1>8, <2>1, <2>2, <2>3, <3>2, TailNoPage DEF ShowPost, NextAnswer
        <4> QED  BY <3>2, <4>1 DEF ShowPost, TypeOK, IsLast
      <3> QED  BY <1>8, <2>1, <2>3, <3>1, <3>2
    <2>4. CASE e # d
      <3>1. inbox'[e] = inbox[e]
        BY <1>1, <1>8, <2>4 DEF Handled, StoreTypeOK
      <3>2. ASSUME ShowPost(d) PROVE nameLabel'[e] = nameLabel[e]
        BY <2>4, <3>2 DEF ShowPost, TypeOK
      <3> QED  BY <1>8, <2>1, <3>1, <3>2
    <2> QED  BY <2>3, <2>4
  <1>9. ASSUME NEW d \in Device, Update(d) \/ SaveNothing(d) \/ ShowPost(d)
        PROVE  NoPageRead(gets'[e]) /\ NoPageAnswer(inbox'[e]) /\ nameLabel'[e] = Placeholder
    <2>1. /\ inbox[d] # <<>> /\ Handled(d) /\ UNCHANGED <<screen, gets>>
          /\ UNCHANGED nameLabel \/ ShowPost(d)
      BY <1>9 DEF Update, SaveNothing, ShowPost, NextAnswer, appVars
    <2> QED  BY <1>8, <2>1
  <1>10. ASSUME NEW d \in Device, SaveTask(d)
         PROVE  NoPageRead(gets'[e]) /\ NoPageAnswer(inbox'[e]) /\ nameLabel'[e] = Placeholder
    <2>1. inbox[d] # <<>>
      BY <1>10 DEF SaveTask, NextAnswer
    <2>2. CASE Head(inbox[d]).req.page = Open
      <3>1. CloseWindow(d, Tail(inbox[d])) /\ Tail(inbox[d]) \in Seq(Answer)
        BY <1>10, <2>1, <2>2, NextAnswerType DEF SaveTask
      <3> QED  BY <1>6, <3>1
    <2>3. CASE Head(inbox[d]).req.page # Open
      <3>1. Handled(d) /\ UNCHANGED <<screen, gets>> /\ UNCHANGED nameLabel
        BY <1>10, <2>3 DEF SaveTask, appVars
      <3> QED  BY <1>8, <2>1, <3>1
    <2> QED  BY <2>2, <2>3
  <1>11. ASSUME NEW d \in Device, SaveCrash(d) \/ Kill(d)
         PROVE  NoPageRead(gets'[e]) /\ NoPageAnswer(inbox'[e]) /\ nameLabel'[e] = Placeholder
    <2>1. Relaunch(d) /\ NoPageRead(<<>>) /\ NoPageAnswer(<<>>)
      BY <1>11 DEF SaveCrash, Kill, NoPageRead, NoPageAnswer
    <2>2. CASE e = d
      <3>1. gets'[e] = <<>> /\ inbox'[e] = <<>> /\ nameLabel'[e] = Placeholder
        BY <1>1, <2>1, <2>2 DEF Relaunch, LoseMemory, TypeOK, StoreTypeOK
      <3> QED  BY <2>1, <3>1
    <2>3. CASE e # d
      <3>1. /\ gets'[e] = gets[e] /\ inbox'[e] = inbox[e] /\ screen'[e] = screen[e]
            /\ nameLabel'[e] = nameLabel[e]
        BY <1>1, <2>1, <2>3 DEF Relaunch, LoseMemory, TypeOK, StoreTypeOK
      <3> QED  BY <3>1 DEF PageCloses
    <2> QED  BY <2>2, <2>3
  <1>12. ASSUME NEW d \in Device, Synced(d) \/ Offline(d) \/ Refused(d)
         PROVE  NoPageRead(gets'[e]) /\ NoPageAnswer(inbox'[e]) /\ nameLabel'[e] = Placeholder
    <2>1. UNCHANGED <<screen, nameLabel>>
      BY <1>12 DEF Synced, Offline, Refused, appVars
    <2>2. Overlay(server, queue[d]) \in Contents /\ LocalView(d) \in Contents
      BY <1>1, OverlayType DEF StoreTypeOK, LocalView
    <2>3. PICK result \in Contents \cup {Failed} : RaiseSnapshot(d, result)
      BY <1>12, <2>2 DEF Synced, ApplyRemoteEvent, Offline, AnswerOffline, Refused,
                          HandleRejectedListen
    <2>4. NoPageRead(gets[e]) /\ NoPageAnswer(inbox[e]) /\ nameLabel[e] = Placeholder
      BY <2>1 DEF PageCloses
    <2>5. NoPageRead(gets'[e]) /\ NoPageAnswer(inbox'[e])
      BY <1>1, <2>3, <2>4, RaiseNoPage
    <2> QED  BY <2>1, <2>4, <2>5
  <1>13. ASSUME NEW d \in Device,
                \/ EditName(d) \/ EditText(d)
                \/ Commit(d) \/ Ack(d) \/ Reject(d) \/ Break(d)
         PROVE  UNCHANGED <<screen, gets, inbox, nameLabel>>
    BY <1>13
    DEF EditName, EditText, Commit, CommitNext, Ack, HandleSuccessfulWrite,
        Reject, HandleRejectedWrite, Break, OnWriteStreamClose, clientVars, appVars
  <1> QED
    BY <1>2, <1>3, <1>4, <1>5, <1>7, <1>9, <1>10, <1>11, <1>12, <1>13 DEF Next, HandleAnswer

--------------------------------------------------------------------------------
(* Everything stored and shown has been published.                         *)

\* What has been published stays published, and what is allowed may grow.
LEMMA PublishedGrows ==
    ASSUME TypeOK, NEW P, published \subseteq P, Stored(Published), Shown(Published)
    PROVE  Stored([k \in Name |-> P]) /\ Shown([k \in Name |-> P])
  <1> DEFINE G == [k \in Name |-> P]
  <1>1. \A k \in Name : Published[k] \subseteq G[k]
    BY DEF Published
  <1> HIDE DEF G
  <1>2. \A docs : Holds(docs, Published) => Holds(docs, G)
    BY <1>1 DEF Holds
  <1>3. \A as : HoldsAnswers(as, Published) => HoldsAnswers(as, G)
    BY <1>2 DEF HoldsAnswers
  <1>4. ASSUME NEW d \in Device PROVE HoldsWrites(queue[d], G)
    <2>1. queue[d] \in [1..Len(queue[d]) -> Mutation]
      BY LenProperties DEF TypeOK, StoreTypeOK
    <2>2. \A i \in DOMAIN queue[d] : queue[d][i].key \in Name
      BY <2>1 DEF Mutation
    <2> QED  BY <1>1, <2>2 DEF Stored, HoldsWrites
  <1>5. Stored(G) /\ Shown(G)
    BY <1>2, <1>3, <1>4 DEF Stored, Shown
  <1> QED  BY <1>5 DEF G

\* Save publishes what it writes.
LEMMA SavedIsPublished ==
    ASSUME TypeOK, NEW d \in Device, SaveTask(d), Record
    PROVE  NewPost(d).doc \in published'
  <1>1. inbox[d] # <<>> /\ NamesDocument(Typed(d).name) /\ Writes(d) > 0
    BY DEF SaveTask, NextAnswer
  <1>2. NewPost(d) \in Mutation /\ NewPost(d).doc # NoDoc
    BY SavedMutation, MarksAssumption
  <1>3. Writes(d) \in Nat \ {0}
    BY <1>1, WritesType
  <1>4. Writing(d, NewPost(d), Writes(d))
    BY DEF SaveTask, Writing
  <1>5. Wrote(d) /\ Written(d) = NewPost(d)
    BY <1>2, <1>3, <1>4, RecordOfWriting
  <1> QED  BY <1>2, <1>5 DEF Record

\* The page of a post takes its name from a published post with its text.
LEMMA LabelKnownNext ==
    ASSUME TypeOK, PageCloses, LabelKnown, Stored(Published), Next, Record
    PROVE  LabelKnown'
  <1> SUFFICES ASSUME NEW e \in Device, nameLabel'[e] # Placeholder
               PROVE  [name |-> nameLabel'[e], text |-> currentPost'[e]] \in published'
    BY DEF LabelKnown
  <1>1. StoreTypeOK /\ published \subseteq published'
    BY DEF TypeOK, Record
  <1>2. CASE nameLabel'[e] = nameLabel[e] /\ currentPost'[e] = currentPost[e]
    BY <1>1, <1>2 DEF LabelKnown
  <1>3. ASSUME NEW d \in Device, NEW left \in Seq(Answer), CloseWindow(d, left)
        PROVE  nameLabel'[e] = nameLabel[e] /\ currentPost'[e] = currentPost[e]
    BY <1>3, CloseWindowNoPage
  <1>4. ASSUME NEW d \in Device, Delete(d) \/ Back(d) \/ SaveTask(d)
        PROVE  nameLabel'[e] = nameLabel[e] /\ currentPost'[e] = currentPost[e]
    <2>1. inbox[d] \in Seq(Answer)
      BY <1>1 DEF StoreTypeOK
    <2>2. CASE Delete(d) \/ Back(d)
      <3>1. CloseWindow(d, inbox[d])
        BY <2>2 DEF Delete, Back
      <3> QED  BY <1>3, <2>1, <3>1
    <2>3. CASE SaveTask(d)
      <3>1. inbox[d] # <<>>
        BY <2>3 DEF SaveTask, NextAnswer
      <3>2. Tail(inbox[d]) \in Seq(Answer)
        BY <3>1, NextAnswerType
      <3>3. CloseWindow(d, Tail(inbox[d])) \/ UNCHANGED appVars
        BY <2>3 DEF SaveTask
      <3> QED  BY <1>3, <3>2, <3>3 DEF appVars
    <2> QED  BY <1>4, <2>2, <2>3
  <1>5. ASSUME NEW d \in Device, DidSelectRow(d)
        PROVE  nameLabel'[e] = nameLabel[e] /\ currentPost'[e] = currentPost[e]
    <2>1. UNCHANGED nameLabel
      BY <1>5 DEF DidSelectRow
    <2>2. e # d
      <3>1. nameLabel[e] # Placeholder
        BY <2>1
      <3>2. screen[d] # "detail"
        BY <1>5 DEF DidSelectRow
      <3> QED  BY <3>1, <3>2 DEF PageCloses
    <2> QED  BY <1>5, <2>1, <2>2 DEF DidSelectRow, TypeOK
  <1>6. ASSUME NEW d \in Device, ShowPost(d)
        PROVE  [name |-> nameLabel'[e], text |-> currentPost'[e]] \in published'
    <2> DEFINE a == Head(inbox[d])
               found == IF a.result = Failed \/ a.req.page # Open
                        THEN {} ELSE Matching(a.result, currentPost[d])
               k == CHOOSE k \in found : IsLast(found, k)
    <2>1. /\ UNCHANGED currentPost
          /\ nameLabel' = [nameLabel EXCEPT ![d] =
                              IF \E j \in found : IsLast(found, j)
                              THEN a.result[k].name ELSE nameLabel[d]]
      BY <1>6 DEF ShowPost
    <2>2. CASE e = d /\ \E j \in found : IsLast(found, j)
      <3>1. k \in found
        BY <2>2
      <3>2. inbox[d] \in Seq(Answer) /\ inbox[d] # <<>>
        BY <1>1, <1>6 DEF ShowPost, NextAnswer, StoreTypeOK
      <3>3. a \in Answer /\ (a.result # Failed => Holds(a.result, Published))
        BY <3>2, TailHolds, HeadTailProperties DEF Stored
      <3> HIDE DEF a, k
      <3>4. /\ a.result \in Contents /\ Holds(a.result, Published)
            /\ k \in Name /\ a.result[k] # NoDoc /\ a.result[k].text = currentPost[d]
        BY <3>1, <3>3 DEF Answer, Matching, Present
      <3>5. a.result[k] \in published /\ a.result[k] \in Post
        BY <3>4 DEF Holds, Published, Contents
      <3>6. a.result[k] = [name |-> a.result[k].name, text |-> currentPost[d]]
        BY <3>4, <3>5 DEF Post
      <3>7. nameLabel'[e] = a.result[k].name /\ currentPost'[e] = currentPost[d]
        BY <2>1, <2>2 DEF TypeOK
      <3> QED  BY <1>1, <3>5, <3>6, <3>7
    <2>3. CASE ~(e = d /\ \E j \in found : IsLast(found, j))
      <3>1. nameLabel'[e] = nameLabel[e] /\ currentPost'[e] = currentPost[e]
        BY <2>1, <2>3 DEF TypeOK
      <3> QED  BY <1>2, <3>1
    <2> QED  BY <2>2, <2>3
  <1>7. ASSUME NEW d \in Device, SaveCrash(d) \/ Kill(d)
        PROVE  nameLabel'[e] = nameLabel[e] /\ currentPost'[e] = currentPost[e]
    <2>1. Relaunch(d)
      BY <1>7 DEF SaveCrash, Kill
    <2> QED  BY <2>1 DEF Relaunch, TypeOK
  <1>8. ASSUME NEW d \in Device,
               \/ UpdateTimer(d) \/ NewPostButton(d) \/ EditName(d) \/ EditText(d)
               \/ SaveButPress(d) \/ Update(d) \/ SaveNothing(d)
               \/ Synced(d) \/ Offline(d) \/ Refused(d)
               \/ Commit(d) \/ Ack(d) \/ Reject(d) \/ Break(d)
        PROVE  nameLabel'[e] = nameLabel[e] /\ currentPost'[e] = currentPost[e]
    BY <1>8
    DEF UpdateTimer, NewPostButton, EditName, EditText, SaveButPress, Update, SaveNothing,
        Synced, Offline, Refused, Commit, Ack, Reject, Break, appVars
  <1> QED
    BY <1>2, <1>4, <1>5, <1>6, <1>7, <1>8 DEF Next, HandleAnswer

ShownInv == PageCloses /\ LabelKnown /\ Stored(Published) /\ Shown(Published)

LEMMA ShownNextPublished ==
    ASSUME TypeOK, PipelineOK, ShownInv, [HistoryNext]_allVars
    PROVE  ShownInv'
  <1>1. CASE UNCHANGED allVars
    <2>1. UNCHANGED <<server, cache, queue, inbox, gets, screen, taskArray, currentPost,
                      nameLabel, published>>
      BY <1>1 DEF allVars, vars, historyVars
    <2> QED
      BY <2>1
      DEF ShownInv, PageCloses, NoPageRead, NoPageAnswer, LabelKnown, Published,
          Stored, Shown, Holds, HoldsWrites, HoldsAnswers
  <1>2. CASE HistoryNext
    <2>1. PICK P : P = published'
      OBVIOUS
    <2> DEFINE G == [k \in Name |-> P]
    <2>2. published \subseteq P
      BY <1>2, <2>1 DEF HistoryNext, Record
    <2>3. Stored(G) /\ Shown(G)
      BY <2>2, PublishedGrows DEF ShownInv
    <2>4. ASSUME NEW d \in Device, SaveTask(d) PROVE NewPost(d).doc \in G[NewPost(d).key]
      BY <1>2, <2>1, <2>4, SavedIsPublished, SavedMutation DEF HistoryNext, Mutation
    <2>5. G = Published'
      BY <2>1 DEF Published
    <2> HIDE DEF G
    <2>6. [Next]_vars
      BY <1>2 DEF HistoryNext
    <2>7. Stored(G)' /\ Shown(G)'
      BY <2>3, <2>4, <2>6, StoredNext, ShownNext
    <2>8. Stored(Published)' /\ Shown(Published)'
      BY <2>5, <2>7 DEF Stored, Shown, Holds, HoldsWrites, HoldsAnswers
    <2>9. PageCloses' /\ LabelKnown'
      BY <1>2, PageClosesNext, LabelKnownNext DEF HistoryNext, ShownInv
    <2> QED  BY <2>8, <2>9 DEF ShownInv
  <1> QED  BY <1>1, <1>2

LEMMA ShownInit == HistoryInit => ShownInv
  <1> SUFFICES ASSUME HistoryInit PROVE ShownInv
    OBVIOUS
  <1>1. /\ cache = [d \in Device |-> Empty] /\ taskArray = [d \in Device |-> Empty]
        /\ queue = [d \in Device |-> <<>>] /\ inbox = [d \in Device |-> <<>>]
        /\ gets = [d \in Device |-> <<>>] /\ nameLabel = [d \in Device |-> Placeholder]
    BY DEF HistoryInit, Init, StoreInit, Empty
  <1>2. Holds(Empty, Published) /\ Holds(server, Published)
    BY DEF Holds, Empty, HistoryInit, Posts, Present, Published
  <1>3. HoldsWrites(<<>>, Published) /\ HoldsAnswers(<<>>, Published)
    BY DEF HoldsWrites, HoldsAnswers
  <1>4. Stored(Published) /\ Shown(Published)
    BY <1>1, <1>2, <1>3 DEF Stored, Shown
  <1>5. NoPageRead(<<>>) /\ NoPageAnswer(<<>>)
    BY DEF NoPageRead, NoPageAnswer
  <1> QED  BY <1>1, <1>4, <1>5 DEF ShownInv, PageCloses, LabelKnown

LEMMA ShownInvShows == ShownInv => ShownWasPublished
  <1> SUFFICES ASSUME ShownInv, NEW d \in Device, NEW k \in Name, taskArray[d][k] # NoDoc
               PROVE  taskArray[d][k] \in published
    BY DEF ShownInv, LabelKnown, ShownWasPublished, Posts, Present
  <1> QED  BY DEF ShownInv, Shown, Holds, Published

(***************************************************************************)
(* No feed ever shows a post that nobody saved with that name and that     *)
(* text together, and no page of a post a name without it: answers that    *)
(* come late, for a page that was left, or after a restart change nothing. *)
(* For every number of devices, names, texts, presses and faults.          *)
(***************************************************************************)
THEOREM ShownCorrect == HistorySpec => []ShownWasPublished
  <1>1. HistoryInit => Init
    BY DEF HistoryInit
  <1>2. [HistoryNext]_allVars => [Next]_vars
    BY DEF HistoryNext, allVars
  <1>3. HistorySpec => [](TypeOK /\ PipelineOK)
    BY <1>1, <1>2, StoreInvariant, PTL DEF HistorySpec, Spec
  <1>4. TypeOK /\ PipelineOK /\ ShownInv /\ [HistoryNext]_allVars => ShownInv'
    BY ShownNextPublished
  <1> QED  BY <1>3, <1>4, ShownInit, ShownInvShows, PTL DEF HistorySpec

================================================================================
