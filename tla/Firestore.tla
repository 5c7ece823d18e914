------------------------------- MODULE Firestore -------------------------------
(***************************************************************************)
(* One collection of the Cloud Firestore client library as the app uses    *)
(* it: getDocuments, setData and delete on several devices, and the        *)
(* backend they share.                                                     *)
(*                                                                         *)
(* A device keeps a cache of the backend's documents and a queue of its    *)
(* own unacknowledged writes; both survive a restart.  What a read returns *)
(* is the cache overlaid with the queue (latency compensation).  A read is *)
(* a listener that is removed when it has been answered once; all          *)
(* listeners of the collection are answered by the same snapshot, and the  *)
(* answers run on the main queue of the device in the order of the         *)
(* requests.  Writes are sent in order, and acknowledged in order.         *)
(***************************************************************************)
EXTENDS Naturals, Sequences

CONSTANTS
    Device,     \* the phones running the app
    Key,        \* document identifiers of the collection
    Doc,        \* documents
    NoDoc,      \* what is stored under a key without document
    Request,    \* what the app remembers about a read it has issued
    Failed      \* the answer of a read that ended in an error

VARIABLES
    server,     \* the collection in the backend
    cache,      \* cache[d]: remote documents as d last knew them
    queue,      \* queue[d]: d's pending writes, oldest first
    sent,       \* sent[d]: how many of them the backend has applied
    fresh,      \* fresh[d]: how many of those d's cache already reflects
    gets,       \* gets[d]: reads d has issued and nobody has answered
    inbox       \* inbox[d]: answers waiting for d's main queue

Contents == [Key -> Doc \cup {NoDoc}]
Mutation == [key: Key, doc: Doc \cup {NoDoc}]
Answer   == [req: Request, result: Contents \cup {Failed}]

StoreTypeOK ==
    /\ server \in Contents
    /\ cache \in [Device -> Contents]
    /\ queue \in [Device -> Seq(Mutation)]
    /\ sent \in [Device -> Nat]
    /\ fresh \in [Device -> Nat]
    /\ gets \in [Device -> Seq(Request)]
    /\ inbox \in [Device -> Seq(Answer)]

Present(docs) == {k \in Key : docs[k] # NoDoc}

(***************************************************************************)
(* The local view: of the pending writes to a key the last one wins, a key *)
(* without pending write shows the cached document.                        *)
(***************************************************************************)
IsLastWrite(q, k, i) ==
    /\ i \in DOMAIN q
    /\ q[i].key = k
    /\ \A j \in DOMAIN q : j > i => q[j].key # k

Overlay(docs, q) ==
    [k \in Key |->
        IF \E i \in DOMAIN q : IsLastWrite(q, k, i)
        THEN q[CHOOSE i \in DOMAIN q : IsLastWrite(q, k, i)].doc
        ELSE docs[k]]

LocalView(d) == Overlay(cache[d], queue[d])

StoreInit(initial) ==
    /\ server = initial
    /\ cache = [d \in Device |-> [k \in Key |-> NoDoc]]
    /\ queue = [d \in Device |-> <<>>]
    /\ sent = [d \in Device |-> 0]
    /\ fresh = [d \in Device |-> 0]
    /\ gets = [d \in Device |-> <<>>]
    /\ inbox = [d \in Device |-> <<>>]

--------------------------------------------------------------------------------
(* Calls of the app: each says what becomes of one variable.               *)

GetDocuments(d, r) == gets' = [gets EXCEPT ![d] = Append(@, r)]

\* n times the same write, the calls of one loop
WriteMutations(d, m, n) == queue' = [queue EXCEPT ![d] = @ \o [i \in 1..n |-> m]]

--------------------------------------------------------------------------------
(* Answers: every outstanding read of the device gets the same snapshot.   *)

RaiseSnapshot(d, result) ==
    /\ gets[d] # <<>>
    /\ inbox' = [inbox EXCEPT ![d] =
                    @ \o [i \in DOMAIN gets[d] |->
                             [req |-> gets[d][i], result |-> result]]]
    /\ gets' = [gets EXCEPT ![d] = <<>>]

\* mutant: no event is raised when the backend has no news
ApplyRemoteNews(d) ==
    /\ server # cache[d]
    /\ cache' = [cache EXCEPT ![d] = server]
    /\ fresh' = [fresh EXCEPT ![d] = sent[d]]
    /\ RaiseSnapshot(d, Overlay(server, queue[d]))
    /\ UNCHANGED <<server, queue, sent>>

\* The listen is synced: the cache catches up with the backend first.
ApplyRemoteEvent(d) ==
    /\ cache' = [cache EXCEPT ![d] = server]
    /\ fresh' = [fresh EXCEPT ![d] = sent[d]]
    /\ RaiseSnapshot(d, Overlay(server, queue[d]))
    /\ UNCHANGED <<server, queue, sent>>

\* No backend within ten seconds, or a failed attempt: the cache answers.
AnswerOffline(d) ==
    /\ RaiseSnapshot(d, LocalView(d))
    /\ UNCHANGED <<server, cache, queue, sent, fresh>>

\* The backend refuses the listen.
HandleRejectedListen(d) ==
    /\ RaiseSnapshot(d, Failed)
    /\ UNCHANGED <<server, cache, queue, sent, fresh>>

--------------------------------------------------------------------------------
(* The write stream.                                                       *)

\* mutant: the newest write is sent first
CommitNewest(d) ==
    /\ sent[d] < Len(queue[d])
    /\ LET m == queue[d][Len(queue[d]) - sent[d]]
       IN  server' = [server EXCEPT ![m.key] = m.doc]
    /\ sent' = [sent EXCEPT ![d] = @ + 1]
    /\ UNCHANGED <<cache, queue, fresh, gets, inbox>>

\* The backend applies the next write of d it has not applied.
CommitNext(d) ==
    /\ sent[d] < Len(queue[d])
    /\ LET m == queue[d][sent[d] + 1]
       IN  server' = [server EXCEPT ![m.key] = m.doc]
    /\ sent' = [sent EXCEPT ![d] = @ + 1]
    /\ UNCHANGED <<cache, queue, fresh, gets, inbox>>

\* mutant: the write leaves the queue and does not enter the cache
DropSuccessfulWrite(d) ==
    /\ sent[d] > 0
    /\ queue' = [queue EXCEPT ![d] = Tail(@)]
    /\ sent' = [sent EXCEPT ![d] = @ - 1]
    /\ fresh' = [fresh EXCEPT ![d] = IF @ > 0 THEN @ - 1 ELSE 0]
    /\ UNCHANGED <<server, cache, gets, inbox>>

\* The oldest write is acknowledged: it moves from the queue to the cache,
\* unless the cache holds a later version of the document.
HandleSuccessfulWrite(d) ==
    /\ sent[d] > 0
    /\ queue' = [queue EXCEPT ![d] = Tail(@)]
    /\ sent' = [sent EXCEPT ![d] = @ - 1]
    /\ IF fresh[d] > 0
       THEN /\ fresh' = [fresh EXCEPT ![d] = @ - 1]
            /\ UNCHANGED cache
       ELSE /\ cache' = [cache EXCEPT ![d][Head(queue[d]).key] = Head(queue[d]).doc]
            /\ UNCHANGED fresh
    /\ UNCHANGED <<server, gets, inbox>>

\* The oldest write is refused for good: it is dropped.
HandleRejectedWrite(d) ==
    /\ sent[d] = 0
    /\ queue[d] # <<>>
    /\ queue' = [queue EXCEPT ![d] = Tail(@)]
    /\ UNCHANGED <<server, cache, sent, fresh, gets, inbox>>

\* The stream breaks: what was not acknowledged is sent again.
Resend(d) ==
    /\ sent' = [sent EXCEPT ![d] = 0]
    /\ fresh' = [fresh EXCEPT ![d] = 0]

OnWriteStreamClose(d) ==
    /\ sent[d] > 0
    /\ Resend(d)
    /\ UNCHANGED <<server, cache, queue, gets, inbox>>

\* The process ends: reads and answers are gone, cache and queue persist.
LoseMemory(d) ==
    /\ Resend(d)
    /\ gets' = [gets EXCEPT ![d] = <<>>]
    /\ inbox' = [inbox EXCEPT ![d] = <<>>]
================================================================================
