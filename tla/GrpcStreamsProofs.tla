---------------------------- MODULE GrpcStreamsProofs ----------------------------
(***************************************************************************)
(* Proofs about GrpcStreams, for every set of streams and all bounds.      *)
(*                                                                         *)
(* The invariant says where a completion can be: on the list of its        *)
(* stream, or cancelled and handed back by gRPC.  First what it says of a  *)
(* world (the streams and the completions), then that each operation of    *)
(* GrpcStream keeps it, then the steps of the threads.                     *)
(***************************************************************************)
EXTENDS GrpcStreams, SequenceTheorems, FiniteSetTheorems, TLAPS

--------------------------------------------------------------------------------
(* The invariant of a world w, of which H are the completions gRPC has      *)
(* handed back and whose callbacks have not run.                            *)

IsWorld(w) ==
    /\ w \in [g: [Stream -> GrpcStream \cup {Nothing}], cs: {w.cs}, ok: {TRUE}]
    /\ w.cs \in [DOMAIN w.cs -> Completion]
    /\ DOMAIN w.cs \subseteq Id /\ IsFiniteSet(DOMAIN w.cs)

Alive(w) == {s \in Stream : w.g[s] # Nothing}

Owned(w, i) == w.cs[i].stream # Nothing /\ i \in w.g[w.cs[i].stream].completions

CompletionOK(w, H, i) ==
    /\ w.cs[i].stream # Nothing => w.cs[i].stream \in Alive(w)
    /\ Owned(w, i) \/ (w.cs[i].callback = "Cancelled" /\ i \in H)
    /\ w.cs[i].callback = "OnRead" => w.cs[i].type = "Read"
    /\ w.cs[i].callback = "OnWrite" => w.cs[i].type = "Write"
    /\ w.cs[i].callback = "FinishAndNotify" => w.cs[i].type = "Finish"

Of(w, s, type) == {i \in w.g[s].completions : w.cs[i].type = type}

AtMostOne(S) == \A i, j \in S : i = j

\* What gRPC was given and what is left to give it are the observer's writes
InOrder(g) == g.given \o g.buffer = [i \in 1 .. g.written |-> i]

\* A write beside the finish is one of a call that gRPC has ended
BesideFinish(w, s, call) ==
    Of(w, s, "Finish") # {} /\ Of(w, s, "Write") # {} => call = "ended"

StreamOK(w, s) ==
    /\ \A i \in w.g[s].completions : i \in DOMAIN w.cs /\ w.cs[i].stream = s
    /\ AtMostOne(Of(w, s, "Read")) /\ AtMostOne(Of(w, s, "Write"))
    /\ Of(w, s, "Write") # {} => w.g[s].active
    /\ Of(w, s, "Finish") # {} => w.g[s].finished /\ Of(w, s, "Read") = {}
    /\ BesideFinish(w, s, w.g[s].call)
    /\ w.g[s].finished => \A i \in Of(w, s, "Read") : w.cs[i].callback = "Cancelled"
    /\ w.g[s].finished => w.g[s].call # "open"
    /\ w.g[s].call = "cancelled" => w.g[s].finished
    /\ \A i \in w.g[s].completions :
          w.cs[i].callback = "FinishAndNotify" => w.g[s].call = "ended"
    /\ InOrder(w.g[s])

Sound(w, H) ==
    /\ IsWorld(w)
    /\ \A i \in DOMAIN w.cs : CompletionOK(w, H, i)
    /\ \A s \in Alive(w) : StreamOK(w, s)

\* A call that is not over has a read under way
HasRead(w, s) == ~w.g[s].finished => Of(w, s, "Read") # {}

Uncancelled(w, s) ==
    w.g[s].call # "cancelled" /\ \A i \in w.g[s].completions : w.cs[i].callback # "Cancelled"

AllCancelled(w, s) == \A i \in w.g[s].completions : w.cs[i].callback = "Cancelled"

--------------------------------------------------------------------------------
(* What an operation on stream s leaves alone: the other streams; and what  *)
(* has failed of a completion of a call that is not open is not undone.     *)

Later(w, v) ==
    \A i \in DOMAIN w.cs :
        /\ i \in DOMAIN v.cs
        /\ v.cs[i].stream # Nothing =>
              /\ v.cs[i].stream = w.cs[i].stream
              /\ w.g[w.cs[i].stream].call # "open" => v.g[w.cs[i].stream].call # "open"

Step(w, v, s) ==
    /\ Alive(v) \ {s} = Alive(w) \ {s}
    /\ Later(w, v)
    /\ \A t \in Alive(w) \ {s} :
          v.g[t] = w.g[t] /\ \A i \in w.g[t].completions : v.cs[i] = w.cs[i]

\* Two steps of a stream are one.
LEMMA StepTransitive ==
    ASSUME NEW w, NEW v, NEW u, NEW s, Step(w, v, s), Step(v, u, s)
    PROVE  Step(w, u, s)
  <1>1. Later(w, u)
    BY DEF Step, Later
  <1>2. ASSUME NEW t \in Alive(w) \ {s}
        PROVE  u.g[t] = w.g[t] /\ \A i \in w.g[t].completions : u.cs[i] = w.cs[i]
    <2>1. t \in Alive(v) \ {s}
      BY DEF Step
    <2> QED  BY <2>1 DEF Step
  <1> QED  BY <1>1, <1>2 DEF Step

\* No step is one.
LEMMA StepReflexive ==
    ASSUME NEW w, NEW s
    PROVE  Step(w, w, s)
  BY DEF Step, Later

\* The other streams keep what they have under way.
LEMMA OthersKept ==
    ASSUME NEW w, NEW v, NEW s, Step(w, v, s), NEW t \in Alive(w) \ {s}
    PROVE  /\ t \in Alive(v) /\ v.g[t] = w.g[t]
           /\ HasRead(w, t) => HasRead(v, t)
           /\ Uncancelled(w, t) => Uncancelled(v, t)
           /\ AllCancelled(w, t) => AllCancelled(v, t)
  <1>1. v.g[t] = w.g[t] /\ \A i \in w.g[t].completions : v.cs[i] = w.cs[i]
    BY DEF Step
  <1>2. t \in Alive(v)
    BY DEF Step
  <1>3. Of(v, t, "Read") = Of(w, t, "Read")
    BY <1>1 DEF Of
  <1> QED  BY <1>1, <1>2, <1>3 DEF HasRead, Uncancelled, AllCancelled

\* They keep what the invariant says of them.
LEMMA OthersSound ==
    ASSUME NEW w, NEW v, NEW s, NEW H, Sound(w, H), Step(w, v, s), NEW t \in Alive(v) \ {s}
    PROVE  StreamOK(v, t)
  <1>1. t \in Alive(w) \ {s}
    BY DEF Step
  <1>2. v.g[t] = w.g[t] /\ \A i \in w.g[t].completions : v.cs[i] = w.cs[i]
    BY <1>1 DEF Step
  <1>3. StreamOK(w, t)
    BY <1>1 DEF Sound
  <1>4. \A type : Of(v, t, type) = Of(w, t, type)
    BY <1>2 DEF Of
  <1>5. \A i \in w.g[t].completions : i \in DOMAIN v.cs
    BY <1>3 DEF StreamOK, Step, Later
  <1>6. \A type : \A i \in Of(w, t, type) : v.cs[i] = w.cs[i]
    BY <1>2 DEF Of
  <1> QED  BY <1>2, <1>3, <1>4, <1>5, <1>6 DEF StreamOK, BesideFinish

--------------------------------------------------------------------------------
(* A new completion.                                                        *)

\* There is always an identifier left.
LEMMA FreshIsNew ==
    ASSUME NEW cs, DOMAIN cs \subseteq Id, IsFiniteSet(DOMAIN cs)
    PROVE  Fresh(cs) \in Id \ DOMAIN cs
  <1>1. PICK n \in Nat : n = Cardinality(DOMAIN cs)
    BY FS_CardinalityType
  <1>2. \E i \in 0 .. n : i \notin DOMAIN cs
    <2> SUFFICES ASSUME 0 .. n \subseteq DOMAIN cs PROVE FALSE
      OBVIOUS
    <2>1. Cardinality(0 .. n) <= n
      BY <1>1, FS_Subset
    <2>2. Cardinality(0 .. n) = n - 0 + 1
      <3>1. Cardinality(0 .. n) = IF 0 > n THEN 0 ELSE n - 0 + 1
        BY FS_Interval
      <3> QED  BY <3>1
    <2> QED  BY <2>1, <2>2
  <1>3. Fresh(cs) \in 0 .. n /\ Fresh(cs) \notin DOMAIN cs
    BY <1>1, <1>2 DEF Fresh
  <1> QED  BY <1>3 DEF Id

\* The world v is w with the completion i more.
Added(w, s, type, callback, v, i) ==
    /\ IsWorld(v)
    /\ v.g = [w.g EXCEPT ![s] = [w.g[s] EXCEPT !.completions = w.g[s].completions \cup {i}]]
    /\ DOMAIN v.cs = DOMAIN w.cs \cup {i}
    /\ v.cs[i] = [stream |-> s, type |-> type, callback |-> callback]
    /\ \A j \in DOMAIN w.cs : v.cs[j] = w.cs[j]

\* NewCompletion adds a completion with an identifier of its own.
LEMMA NewCompletionEffect ==
    ASSUME NEW w, IsWorld(w), NEW s \in Alive(w), NEW type \in {"Read", "Write", "Finish"},
           NEW callback \in Callback, NEW v, v = NewCompletion(w, s, type, callback)
    PROVE  \E i \in Id \ DOMAIN w.cs : Added(w, s, type, callback, v, i)
  <1>1. PICK i \in Id \ DOMAIN w.cs : i = Fresh(w.cs)
    BY FreshIsNew DEF IsWorld
  <1> DEFINE c == [stream |-> s, type |-> type, callback |-> callback]
             cs == [j \in DOMAIN w.cs \cup {i} |-> IF j = i THEN c ELSE w.cs[j]]
             g == [w.g EXCEPT ![s] = [w.g[s] EXCEPT !.completions = w.g[s].completions \cup {i}]]
  <1>2. v = [w EXCEPT !.cs = cs, !.g = g]
    BY <1>1 DEF NewCompletion
  <1>3. s \in Stream /\ w.g[s] \in GrpcStream
    BY DEF Alive, IsWorld
  <1>4. c \in Completion
    BY <1>3 DEF Completion
  <1>5. cs \in [DOMAIN w.cs \cup {i} -> Completion]
    BY <1>4 DEF IsWorld
  <1>6. [w.g[s] EXCEPT !.completions = w.g[s].completions \cup {i}] \in GrpcStream
    BY <1>1, <1>3 DEF GrpcStream
  <1>7. g \in [Stream -> GrpcStream \cup {Nothing}]
    BY <1>3, <1>6 DEF IsWorld
  <1>8. cs[i] = c /\ (\A j \in DOMAIN w.cs : cs[j] = w.cs[j]) /\ DOMAIN cs = DOMAIN w.cs \cup {i}
    BY <1>1
  <1> HIDE DEF c, cs, g
  <1>9. v.cs = cs /\ v.g = g /\ v = [g |-> g, cs |-> cs, ok |-> TRUE]
    BY <1>2 DEF IsWorld
  <1>10. IsFiniteSet(DOMAIN w.cs \cup {i})
    BY FS_AddElement DEF IsWorld
  <1>11. IsWorld(v)
    BY <1>5, <1>7, <1>8, <1>9, <1>10 DEF IsWorld
  <1> QED  BY <1>8, <1>9, <1>11 DEF c, g, Added

Allowed(w, s, type, callback) ==
    \/ /\ type = "Read" /\ callback = "OnRead"
       /\ ~w.g[s].finished /\ Of(w, s, "Read") = {}
    \/ /\ type = "Write" /\ callback \in {"OnWrite", "RemoveOnly"}
       /\ w.g[s].active /\ Of(w, s, "Write") = {} /\ w.g[s].call # "cancelled"
    \/ /\ type = "Finish" /\ w.g[s].finished /\ w.g[s].completions = {}
       /\ \/ callback = "RemoveOnly"
          \/ callback = "FinishAndNotify" /\ w.g[s].call = "ended"

\* An operation is started where gRPC allows it.
LEMMA NewCompletionSound ==
    ASSUME NEW w, NEW H, Sound(w, H), NEW s \in Alive(w), NEW type, NEW callback,
           Allowed(w, s, type, callback), NEW v, v = NewCompletion(w, s, type, callback)
    PROVE  /\ Sound(v, H) /\ Step(w, v, s) /\ s \in Alive(v)
           /\ v.g[s].finished = w.g[s].finished /\ v.g[s].active = w.g[s].active
           /\ v.g[s].call = w.g[s].call
           /\ HasRead(w, s) \/ type = "Read" => HasRead(v, s)
           /\ Uncancelled(w, s) => Uncancelled(v, s)
  <1>1. type \in {"Read", "Write", "Finish"} /\ callback \in Callback /\ callback # "Cancelled"
    BY DEF Allowed, Callback
  <1>2. IsWorld(w) /\ StreamOK(w, s) /\ s \in Stream /\ w.g[s] \in GrpcStream
    BY DEF Sound, Alive, IsWorld
  <1>0. PICK i \in Id \ DOMAIN w.cs : Added(w, s, type, callback, v, i)
    <2>1. /\ IsWorld(w) /\ s \in Alive(w) /\ type \in {"Read", "Write", "Finish"}
          /\ callback \in Callback /\ v = NewCompletion(w, s, type, callback)
      BY <1>1, <1>2
    <2> QED  BY <2>1, NewCompletionEffect
  <1>3. /\ IsWorld(v)
        /\ v.g = [w.g EXCEPT ![s] = [w.g[s] EXCEPT
                                        !.completions = w.g[s].completions \cup {i}]]
        /\ DOMAIN v.cs = DOMAIN w.cs \cup {i}
        /\ v.cs[i] = [stream |-> s, type |-> type, callback |-> callback]
        /\ \A j \in DOMAIN w.cs : v.cs[j] = w.cs[j]
    BY <1>0 DEF Added
  <1>4. /\ v.g[s] = [w.g[s] EXCEPT !.completions = w.g[s].completions \cup {i}]
        /\ \A t \in Stream \ {s} : v.g[t] = w.g[t]
    BY <1>2, <1>3 DEF IsWorld
  <1>5. /\ v.g[s] \in GrpcStream
        /\ v.g[s].completions = w.g[s].completions \cup {i}
        /\ v.g[s].finished = w.g[s].finished /\ v.g[s].active = w.g[s].active
        /\ v.g[s].call = w.g[s].call /\ v.g[s].given = w.g[s].given
        /\ v.g[s].buffer = w.g[s].buffer /\ v.g[s].written = w.g[s].written
    <2>1. w.g[s].completions \cup {i} \in SUBSET Id
      BY <1>2, <1>3 DEF GrpcStream
    <2> QED  BY <1>2, <1>4, <2>1 DEF GrpcStream
  <1>6. Alive(v) = Alive(w)
    BY <1>4, <1>5, NothingAssumption DEF Alive
  <1>7. \A j \in DOMAIN w.cs : v.cs[j] = w.cs[j] /\ j # i
    BY <1>3
  <1>8. \A j \in w.g[s].completions : j \in DOMAIN w.cs
    BY <1>2 DEF StreamOK
  <1>9. Later(w, v)
    <2>1. ASSUME NEW j \in DOMAIN w.cs, w.cs[j].stream # Nothing,
                 w.g[w.cs[j].stream].call # "open"
          PROVE  v.g[w.cs[j].stream].call # "open"
      <3>1. w.cs[j].stream \in Stream
        BY <2>1, <1>2 DEF IsWorld, Completion
      <3> QED  BY <2>1, <3>1, <1>4, <1>5
    <2> QED  BY <1>3, <2>1 DEF Later
  <1>10. Step(w, v, s)
    <2>1. ASSUME NEW t \in Alive(w) \ {s}, NEW j \in w.g[t].completions
          PROVE  v.cs[j] = w.cs[j]
      <3>1. j \in DOMAIN w.cs
        BY DEF Sound, StreamOK
      <3> QED  BY <3>1, <1>3
    <2>2. \A t \in Alive(w) \ {s} : v.g[t] = w.g[t]
      BY <1>4 DEF Alive
    <2> QED  BY <1>6, <1>9, <2>1, <2>2 DEF Step
  <1>11. ASSUME NEW j \in DOMAIN v.cs PROVE CompletionOK(v, H, j)
    <2>1. CASE j = i
      <3>1. v.cs[j] = [stream |-> s, type |-> type, callback |-> callback]
        BY <1>3, <2>1
      <3>2. s # Nothing /\ i \in v.g[s].completions
        BY <1>2, <1>5, NothingAssumption
      <3> QED  BY <1>6, <2>1, <3>1, <3>2 DEF CompletionOK, Owned, Allowed
    <2>2. CASE j # i
      <3>1. j \in DOMAIN w.cs /\ v.cs[j] = w.cs[j] /\ CompletionOK(w, H, j)
        BY <1>3, <2>2 DEF Sound
      <3>2. Owned(w, j) => Owned(v, j)
        <4>1. CASE w.cs[j].stream = s
          BY <3>1, <4>1, <1>5 DEF Owned
        <4>2. CASE w.cs[j].stream # s /\ w.cs[j].stream # Nothing
          <5>1. w.cs[j].stream \in Stream \ {s}
            BY <1>2, <3>1, <4>2 DEF IsWorld, Completion
          <5> QED  BY <3>1, <5>1, <1>4 DEF Owned
        <4> QED  BY <4>1, <4>2 DEF Owned
      <3> QED  BY <1>6, <3>1, <3>2 DEF CompletionOK
    <2> QED  BY <2>1, <2>2
  <1>12. /\ Of(v, s, type) = Of(w, s, type) \cup {i}
         /\ \A other : other # type => Of(v, s, other) = Of(w, s, other)
    BY <1>3, <1>5, <1>7, <1>8 DEF Of
  <1>13. StreamOK(v, s)
    <2>1. \A j \in v.g[s].completions : j \in DOMAIN v.cs /\ v.cs[j].stream = s
      BY <1>2, <1>3, <1>5, <1>7, <1>8 DEF StreamOK
    <2>2. AtMostOne(Of(v, s, "Read")) /\ AtMostOne(Of(v, s, "Write"))
      BY <1>2, <1>12 DEF StreamOK, AtMostOne, Allowed
    <2>3. Of(v, s, "Write") # {} => v.g[s].active
      BY <1>2, <1>5, <1>12 DEF StreamOK, Allowed
    <2>4. Of(v, s, "Finish") # {} => v.g[s].finished /\ Of(v, s, "Read") = {}
      BY <1>2, <1>5, <1>12 DEF StreamOK, Allowed, Of
    <2>5. v.g[s].finished => \A j \in Of(v, s, "Read") : v.cs[j].callback = "Cancelled"
      <3>1. ASSUME v.g[s].finished PROVE Of(v, s, "Read") = Of(w, s, "Read")
        BY <1>5, <1>12, <3>1 DEF Allowed
      <3> QED  BY <1>2, <1>5, <1>7, <1>8, <3>1 DEF StreamOK, Of
    <2>6. \A j \in v.g[s].completions :
             v.cs[j].callback = "FinishAndNotify" => v.g[s].call = "ended"
      BY <1>2, <1>3, <1>5, <1>7, <1>8 DEF StreamOK, Allowed
    <2>7. InOrder(v.g[s])
      BY <1>2, <1>5 DEF StreamOK, InOrder
    <2>8. BesideFinish(v, s, v.g[s].call)
      <3>1. CASE type = "Finish"
        <4>1. Of(v, s, "Write") = {}
          BY <1>12, <3>1 DEF Allowed, Of
        <4> QED  BY <4>1 DEF BesideFinish
      <3>2. CASE type = "Write"
        <4>1. ASSUME Of(v, s, "Finish") # {} PROVE v.g[s].call = "ended"
          <5>1. w.g[s].finished
            BY <1>2, <1>12, <3>2, <4>1 DEF StreamOK
          <5>2. w.g[s].call # "open" /\ w.g[s].call # "cancelled"
            BY <1>2, <3>2, <5>1 DEF StreamOK, Allowed
          <5>3. w.g[s].call \in {"open", "ended", "cancelled"}
            BY <1>2 DEF GrpcStream
          <5> QED  BY <1>5, <5>2, <5>3
        <4> QED  BY <4>1 DEF BesideFinish
      <3>3. CASE type = "Read"
        BY <1>2, <1>5, <1>12, <3>3 DEF StreamOK, BesideFinish
      <3> QED  BY <1>1, <3>1, <3>2, <3>3
    <2> QED  BY <1>2, <1>5, <2>1, <2>2, <2>3, <2>4, <2>5, <2>6, <2>7, <2>8 DEF StreamOK
  <1>14. Sound(v, H)
    <2>1. \A t \in Alive(v) \ {s} : StreamOK(v, t)
      BY <1>10, OthersSound
    <2> QED  BY <1>3, <1>11, <1>13, <2>1 DEF Sound
  <1>15. HasRead(w, s) \/ type = "Read" => HasRead(v, s)
    BY <1>5, <1>12 DEF HasRead
  <1>16. Uncancelled(w, s) => Uncancelled(v, s)
    BY <1>1, <1>3, <1>5, <1>7, <1>8 DEF Uncancelled
  <1>17. s \in Alive(v)
    BY <1>6
  <1> QED  BY <1>5, <1>10, <1>14, <1>15, <1>16, <1>17

--------------------------------------------------------------------------------
(* A stream's record changes, its list does not; the callbacks on the list  *)
(* may be cancelled with it.                                                *)

Cancelled(w, s) ==
    [i \in DOMAIN w.cs |-> IF i \in w.g[s].completions
                           THEN [w.cs[i] EXCEPT !.callback = "Cancelled"] ELSE w.cs[i]]

Updated(w, v, s, r, cancel) ==
    v = [g |-> [w.g EXCEPT ![s] = r],
         cs |-> IF cancel THEN Cancelled(w, s) ELSE w.cs, ok |-> TRUE]

\* What the new record may say
Legal(w, s, r, cancel) ==
    /\ r \in GrpcStream /\ r.completions = w.g[s].completions
    /\ Of(w, s, "Write") # {} => r.active
    /\ Of(w, s, "Finish") # {} => r.finished
    /\ BesideFinish(w, s, r.call)
    /\ r.finished => cancel \/ w.g[s].finished
    /\ r.finished => r.call # "open"
    /\ r.call = "cancelled" => r.finished
    /\ w.g[s].call # "open" => r.call # "open"
    /\ w.g[s].call = "ended" => cancel \/ r.call = "ended"
    /\ InOrder(r)

\* Cancelling changes callbacks only.
LEMMA CancelledEffect ==
    ASSUME NEW w, IsWorld(w), NEW s
    PROVE  /\ Cancelled(w, s) \in [DOMAIN w.cs -> Completion]
           /\ \A i \in DOMAIN w.cs :
                 /\ Cancelled(w, s)[i].stream = w.cs[i].stream
                 /\ Cancelled(w, s)[i].type = w.cs[i].type
                 /\ Cancelled(w, s)[i].callback = IF i \in w.g[s].completions THEN "Cancelled"
                                                  ELSE w.cs[i].callback
                 /\ i \notin w.g[s].completions => Cancelled(w, s)[i] = w.cs[i]
  <1>1. ASSUME NEW i \in DOMAIN w.cs
        PROVE  /\ Cancelled(w, s)[i] \in Completion
               /\ Cancelled(w, s)[i].stream = w.cs[i].stream
               /\ Cancelled(w, s)[i].type = w.cs[i].type
               /\ Cancelled(w, s)[i].callback = IF i \in w.g[s].completions THEN "Cancelled"
                                                ELSE w.cs[i].callback
               /\ i \notin w.g[s].completions => Cancelled(w, s)[i] = w.cs[i]
    <2>1. w.cs[i] \in Completion
      BY DEF IsWorld
    <2> QED  BY <2>1 DEF Cancelled, Completion, Callback
  <1>2. Cancelled(w, s) = [i \in DOMAIN w.cs |-> Cancelled(w, s)[i]]
    BY DEF Cancelled
  <1>3. Cancelled(w, s) \in [DOMAIN w.cs -> Completion]
    BY <1>1, <1>2
  <1> QED  BY <1>1, <1>3

SameLists(w, v, s) == \A type : Of(v, s, type) = Of(w, s, type)

AfterUpdate(w, H, v, s, r, cancel) ==
    /\ Sound(v, H) /\ Step(w, v, s) /\ s \in Alive(v)
    /\ v.g[s] = r /\ DOMAIN v.cs = DOMAIN w.cs
    /\ SameLists(w, v, s)
    /\ r.finished \/ (r.finished = w.g[s].finished /\ HasRead(w, s)) => HasRead(v, s)
    /\ cancel => AllCancelled(v, s)
    /\ ~cancel /\ Uncancelled(w, s) => Uncancelled(v, s)

\* A legal record keeps what the invariant says of the world.
LEMMA UpdatedSound ==
    ASSUME NEW w, NEW H, Sound(w, H), NEW s \in Alive(w), NEW r, NEW cancel \in BOOLEAN,
           Legal(w, s, r, cancel), NEW v, Updated(w, v, s, r, cancel)
    PROVE  AfterUpdate(w, H, v, s, r, cancel)
  <1>1. IsWorld(w) /\ StreamOK(w, s) /\ s \in Stream /\ w.g[s] \in GrpcStream
    BY DEF Sound, Alive, IsWorld
  <1>2. PICK cs : cs = IF cancel THEN Cancelled(w, s) ELSE w.cs
    OBVIOUS
  <1>3. /\ cs \in [DOMAIN w.cs -> Completion]
        /\ \A i \in DOMAIN w.cs :
              /\ cs[i].stream = w.cs[i].stream /\ cs[i].type = w.cs[i].type
              /\ cs[i].callback = IF cancel /\ i \in w.g[s].completions THEN "Cancelled"
                                  ELSE w.cs[i].callback
              /\ i \notin w.g[s].completions => cs[i] = w.cs[i]
    <2>1. CASE cancel
      BY <1>1, <1>2, <2>1, CancelledEffect
    <2>2. CASE ~cancel
      BY <1>1, <1>2, <2>2 DEF IsWorld
    <2> QED  BY <2>1, <2>2
  <1>4. /\ v.cs = cs /\ v.g = [w.g EXCEPT ![s] = r] /\ v.ok = TRUE
        /\ v = [g |-> v.g, cs |-> v.cs, ok |-> TRUE]
    BY <1>2 DEF Updated
  <1>5. DOMAIN v.cs = DOMAIN w.cs
    BY <1>3, <1>4
  <1>6. /\ v.g[s] = r /\ r \in GrpcStream /\ r.completions = w.g[s].completions
        /\ \A t \in Stream \ {s} : v.g[t] = w.g[t]
    BY <1>1, <1>4 DEF Legal, IsWorld
  <1>7. IsWorld(v)
    <2>1. v.g \in [Stream -> GrpcStream \cup {Nothing}]
      BY <1>1, <1>4, <1>6 DEF IsWorld
    <2>2. v.cs \in [DOMAIN v.cs -> Completion]
      BY <1>3, <1>4, <1>5
    <2>3. v \in [g: [Stream -> GrpcStream \cup {Nothing}], cs: {v.cs}, ok: {TRUE}]
      BY <1>4, <2>1
    <2> QED  BY <1>1, <1>5, <2>2, <2>3 DEF IsWorld
  <1>8. Alive(v) = Alive(w)
    BY <1>1, <1>6, NothingAssumption DEF Alive
  <1>9. Later(w, v)
    <2>1. ASSUME NEW i \in DOMAIN w.cs, w.cs[i].stream # Nothing,
                 w.g[w.cs[i].stream].call # "open"
          PROVE  v.g[w.cs[i].stream].call # "open"
      <3>1. w.cs[i].stream \in Stream
        BY <2>1, <1>1 DEF IsWorld, Completion
      <3> QED  BY <2>1, <3>1, <1>6 DEF Legal
    <2> QED  BY <1>3, <1>4, <1>5, <2>1 DEF Later
  <1>10. \A i \in w.g[s].completions : i \in DOMAIN w.cs /\ w.cs[i].stream = s
    BY <1>1 DEF StreamOK
  <1>11. ASSUME NEW t \in Alive(w) \ {s}, NEW i \in w.g[t].completions
         PROVE  v.cs[i] = w.cs[i]
    <2>1. i \in DOMAIN w.cs /\ w.cs[i].stream = t
      BY DEF Sound, StreamOK
    <2>2. i \notin w.g[s].completions
      BY <2>1, <1>10
    <2> QED  BY <1>3, <1>4, <2>1, <2>2
  <1>12. Step(w, v, s)
    <2>1. \A t \in Alive(w) \ {s} : v.g[t] = w.g[t]
      BY <1>6 DEF Alive
    <2> QED  BY <1>8, <1>9, <1>11, <2>1 DEF Step
  <1>13. ASSUME NEW i \in DOMAIN v.cs PROVE CompletionOK(v, H, i)
    <2>1. /\ i \in DOMAIN w.cs /\ CompletionOK(w, H, i)
          /\ v.cs[i].stream = w.cs[i].stream /\ v.cs[i].type = w.cs[i].type
          /\ v.cs[i].callback \in {"Cancelled", w.cs[i].callback}
      BY <1>3, <1>4, <1>5 DEF Sound
    <2>2. Owned(w, i) => Owned(v, i)
      <3>1. ASSUME w.cs[i].stream # Nothing PROVE w.cs[i].stream \in Stream
        BY <3>1, <2>1, <1>1 DEF IsWorld, Completion
      <3>2. \A t \in Stream : v.g[t].completions = w.g[t].completions
        BY <1>6
      <3> QED  BY <2>1, <3>1, <3>2 DEF Owned
    <2>3. w.cs[i].callback = "Cancelled" => v.cs[i].callback = "Cancelled"
      BY <2>1
    <2> QED  BY <1>8, <2>1, <2>2, <2>3 DEF CompletionOK
  <1>14. \A type : Of(v, s, type) = Of(w, s, type)
    <2>1. \A i \in w.g[s].completions : v.cs[i].type = w.cs[i].type
      BY <1>3, <1>4, <1>10
    <2> QED  BY <1>6, <2>1 DEF Of
  <1>15. \A i \in w.g[s].completions :
            v.cs[i].callback = IF cancel THEN "Cancelled" ELSE w.cs[i].callback
    BY <1>3, <1>4, <1>10
  <1>16. StreamOK(v, s)
    <2>1. \A i \in v.g[s].completions : i \in DOMAIN v.cs /\ v.cs[i].stream = s
      BY <1>3, <1>4, <1>5, <1>6, <1>10
    <2>2. /\ AtMostOne(Of(v, s, "Read")) /\ AtMostOne(Of(v, s, "Write"))
          /\ Of(v, s, "Write") # {} => v.g[s].active
          /\ Of(v, s, "Finish") # {} => v.g[s].finished /\ Of(v, s, "Read") = {}
      BY <1>1, <1>6, <1>14 DEF StreamOK, Legal
    <2>3. v.g[s].finished => \A i \in Of(v, s, "Read") : v.cs[i].callback = "Cancelled"
      BY <1>1, <1>6, <1>14, <1>15 DEF StreamOK, Legal, Of
    <2>4. \A i \in v.g[s].completions :
             v.cs[i].callback = "FinishAndNotify" => v.g[s].call = "ended"
      BY <1>1, <1>6, <1>15 DEF StreamOK, Legal
    <2>5. /\ v.g[s].finished => v.g[s].call # "open"
          /\ v.g[s].call = "cancelled" => v.g[s].finished
          /\ InOrder(v.g[s]) /\ BesideFinish(v, s, v.g[s].call)
      BY <1>6, <1>14 DEF Legal, BesideFinish
    <2> QED  BY <2>1, <2>2, <2>3, <2>4, <2>5 DEF StreamOK
  <1>17. Sound(v, H)
    <2>1. \A t \in Alive(v) \ {s} : StreamOK(v, t)
      BY <1>12, OthersSound
    <2> QED  BY <1>7, <1>13, <1>16, <2>1 DEF Sound
  <1>18. r.finished \/ (r.finished = w.g[s].finished /\ HasRead(w, s)) => HasRead(v, s)
    BY <1>6, <1>14 DEF HasRead
  <1>19. /\ cancel => AllCancelled(v, s)
         /\ ~cancel /\ Uncancelled(w, s) => Uncancelled(v, s)
    <2>1. ASSUME ~cancel, Uncancelled(w, s), r.call = "cancelled" PROVE FALSE
      <3>1. w.g[s].finished
        BY <2>1 DEF Legal
      <3>2. w.g[s].call # "open" /\ w.g[s].call # "cancelled"
        BY <1>1, <2>1, <3>1 DEF StreamOK, Uncancelled
      <3>3. w.g[s].call \in {"open", "ended", "cancelled"}
        BY <1>1 DEF GrpcStream
      <3> QED  BY <2>1, <3>2, <3>3 DEF Legal
    <2> QED  BY <1>6, <1>15, <2>1 DEF AllCancelled, Uncancelled
  <1>20. s \in Alive(v)
    BY <1>8
  <1> QED  BY <1>5, <1>6, <1>12, <1>14, <1>17, <1>18, <1>19, <1>20 DEF SameLists, AfterUpdate

--------------------------------------------------------------------------------
(* The buffered writer: writes go out in order.                             *)

\* The writes of the observer are numbered in the order they came.
LEMMA Numbered ==
    ASSUME NEW g \in GrpcStream
    PROVE  InOrder(g) <=>
              \E a, b \in Nat : /\ Len(g.given) = a /\ Len(g.buffer) = b /\ g.written = a + b
                                /\ \A i \in 1 .. a : g.given[i] = i
                                /\ \A i \in 1 .. b : g.buffer[i] = a + i
  <1>1. g.given \in Seq(Nat) /\ g.buffer \in Seq(Nat) /\ g.written \in Nat
    BY DEF GrpcStream
  <1>2. PICK a, b, n \in Nat : a = Len(g.given) /\ b = Len(g.buffer) /\ n = g.written
    BY <1>1, LenProperties
  <1>3. PICK q : q = g.given \o g.buffer
    OBVIOUS
  <1>4. /\ q \in Seq(Nat) /\ Len(q) = a + b
        /\ \A i \in 1 .. (a + b) : q[i] = IF i <= a THEN g.given[i] ELSE g.buffer[i - a]
    BY <1>1, <1>2, <1>3, ConcatProperties
  <1>5. q \in [1 .. (a + b) -> Nat]
    BY <1>4, LenProperties
  <1>6. ASSUME InOrder(g)
        PROVE  /\ n = a + b /\ \A i \in 1 .. a : g.given[i] = i
               /\ \A i \in 1 .. b : g.buffer[i] = a + i
    <2>1. q = [i \in 1 .. n |-> i]
      BY <1>2, <1>3, <1>6 DEF InOrder
    <2>2. 1 .. (a + b) = 1 .. n
      BY <1>5, <2>1
    <2>3. n = a + b
      <3>1. \A x, y \in Nat : 1 .. x = 1 .. y => x = y
        <4> SUFFICES ASSUME NEW x \in Nat, NEW y \in Nat, 1 .. x = 1 .. y PROVE x = y
          OBVIOUS
        <4>1. x # 0 => x \in 1 .. y
          OBVIOUS
        <4>2. y # 0 => y \in 1 .. x
          OBVIOUS
        <4> QED  BY <4>1, <4>2
      <3>2. a + b \in Nat
        OBVIOUS
      <3> QED  BY <2>2, <3>1, <3>2
    <2>4. \A i \in 1 .. (a + b) : q[i] = i
      BY <2>1, <2>3
    <2>5. ASSUME NEW i \in 1 .. a PROVE g.given[i] = i
      <3>1. i \in 1 .. (a + b) /\ i <= a
        OBVIOUS
      <3> QED  BY <1>4, <2>4, <3>1
    <2>6. ASSUME NEW i \in 1 .. b PROVE g.buffer[i] = a + i
      <3>1. a + i \in 1 .. (a + b) /\ ~(a + i <= a) /\ (a + i) - a = i
        OBVIOUS
      <3> QED  BY <1>4, <2>4, <3>1
    <2> QED  BY <2>3, <2>5, <2>6
  <1>7. ASSUME n = a + b, \A i \in 1 .. a : g.given[i] = i,
               \A i \in 1 .. b : g.buffer[i] = a + i
        PROVE  InOrder(g)
    <2>1. ASSUME NEW i \in 1 .. n PROVE q[i] = i
      <3>1. CASE i <= a
        BY <1>4, <1>7, <3>1
      <3>2. CASE ~(i <= a)
        <4>1. i - a \in 1 .. b /\ a + (i - a) = i
          BY <1>7, <3>2
        <4> QED  BY <1>4, <1>7, <3>2, <4>1
      <3> QED  BY <3>1, <3>2
    <2>2. q = [i \in 1 .. n |-> i]
      BY <1>5, <1>7, <2>1
    <2> QED  BY <1>2, <1>3, <2>2 DEF InOrder
  <1> QED  BY <1>2, <1>6, <1>7

\* One more write waits.
LEMMA EnqueuedInOrder ==
    ASSUME NEW g \in GrpcStream, InOrder(g), NEW r,
           r = [g EXCEPT !.written = g.written + 1,
                         !.buffer = Append(g.buffer, g.written + 1)]
    PROVE  /\ r \in GrpcStream /\ InOrder(r)
           /\ r.completions = g.completions /\ r.finished = g.finished
           /\ r.active = g.active /\ r.call = g.call /\ r.greeted = g.greeted
  <1>1. PICK a, b \in Nat : /\ Len(g.given) = a /\ Len(g.buffer) = b /\ g.written = a + b
                            /\ \A i \in 1 .. a : g.given[i] = i
                            /\ \A i \in 1 .. b : g.buffer[i] = a + i
    BY Numbered
  <1>2. g.given \in Seq(Nat) /\ g.buffer \in Seq(Nat)
    BY DEF GrpcStream
  <1>3. PICK q : q = Append(g.buffer, a + b + 1)
    OBVIOUS
  <1>4. a + b + 1 \in Nat
    OBVIOUS
  <1>5. /\ q \in Seq(Nat) /\ Len(q) = b + 1
        /\ \A i \in 1 .. b : q[i] = g.buffer[i]
        /\ q[b + 1] = a + b + 1
    BY <1>1, <1>2, <1>3, <1>4, AppendProperties
  <1>6. /\ r \in GrpcStream /\ r.given = g.given /\ r.buffer = q /\ r.written = a + b + 1
        /\ r.completions = g.completions /\ r.finished = g.finished
        /\ r.active = g.active /\ r.call = g.call /\ r.greeted = g.greeted
    BY <1>1, <1>3, <1>4, <1>5 DEF GrpcStream
  <1>7. ASSUME NEW i \in 1 .. (b + 1) PROVE q[i] = a + i
    <2>1. CASE i \in 1 .. b
      <3>1. q[i] = g.buffer[i] /\ g.buffer[i] = a + i
        BY <1>1, <1>5, <2>1
      <3> QED  BY <3>1
    <2>2. CASE i = b + 1
      <3>1. q[i] = a + b + 1
        BY <1>5, <2>2
      <3> QED  BY <2>2, <3>1
    <2>3. i \in 1 .. b \/ i = b + 1
      OBVIOUS
    <2> QED  BY <2>1, <2>2, <2>3
  <1>8. b + 1 \in Nat /\ a + b + 1 = a + (b + 1)
    OBVIOUS
  <1>9. InOrder(r)
    <2>1. \E x, y \in Nat : /\ Len(r.given) = x /\ Len(r.buffer) = y /\ r.written = x + y
                            /\ \A i \in 1 .. x : r.given[i] = i
                            /\ \A i \in 1 .. y : r.buffer[i] = x + i
      <3> WITNESS a \in Nat, b + 1 \in Nat
      <3> QED  BY <1>1, <1>5, <1>6, <1>7, <1>8
    <2>2. r \in GrpcStream
      BY <1>6
    <2> QED  BY <2>1, <2>2, Numbered
  <1> QED  BY <1>6, <1>9

\* The oldest of those that wait is given to gRPC.
LEMMA StartedInOrder ==
    ASSUME NEW g \in GrpcStream, InOrder(g), g.buffer # <<>>, NEW r,
           r = [g EXCEPT !.active = TRUE, !.buffer = Tail(g.buffer),
                         !.given = Append(g.given, Head(g.buffer))]
    PROVE  /\ r \in GrpcStream /\ InOrder(r)
           /\ r.completions = g.completions /\ r.finished = g.finished
           /\ r.active = TRUE /\ r.call = g.call /\ r.greeted = g.greeted
  <1>1. PICK a, b \in Nat : /\ Len(g.given) = a /\ Len(g.buffer) = b /\ g.written = a + b
                            /\ \A i \in 1 .. a : g.given[i] = i
                            /\ \A i \in 1 .. b : g.buffer[i] = a + i
    BY Numbered
  <1>2. g.given \in Seq(Nat) /\ g.buffer \in Seq(Nat)
    BY DEF GrpcStream
  <1>3. PICK q, h, p : q = Tail(g.buffer) /\ h = Head(g.buffer) /\ p = Append(g.given, h)
    OBVIOUS
  <1>4. b # 0
    BY <1>1, <1>2, EmptySeq
  <1>5. /\ q \in Seq(Nat) /\ Len(q) = b - 1 /\ h \in Nat
        /\ \A i \in 1 .. (b - 1) : q[i] = g.buffer[i + 1]
    BY <1>1, <1>2, <1>3, HeadTailProperties
  <1>6. h = a + 1
    <2>1. h = g.buffer[1]
      BY <1>3
    <2>2. 1 \in 1 .. b
      BY <1>4
    <2> QED  BY <1>1, <2>1, <2>2
  <1>7. /\ p \in Seq(Nat) /\ Len(p) = a + 1
        /\ \A i \in 1 .. a : p[i] = g.given[i]
        /\ p[a + 1] = h
    BY <1>1, <1>2, <1>3, <1>5, AppendProperties
  <1>8. /\ r \in GrpcStream /\ r.given = p /\ r.buffer = q /\ r.written = g.written
        /\ r.completions = g.completions /\ r.finished = g.finished
        /\ r.active = TRUE /\ r.call = g.call /\ r.greeted = g.greeted
    BY <1>3, <1>5, <1>7 DEF GrpcStream
  <1>9. \A i \in 1 .. (a + 1) : p[i] = i
    BY <1>1, <1>6, <1>7
  <1>10. ASSUME NEW i \in 1 .. (b - 1) PROVE q[i] = (a + 1) + i
    <2>1. i + 1 \in 1 .. b /\ a + (i + 1) = (a + 1) + i
      BY <1>4
    <2> QED  BY <1>1, <1>5, <2>1
  <1>11. a + 1 \in Nat /\ b - 1 \in Nat /\ a + b = (a + 1) + (b - 1)
    BY <1>4
  <1>12. InOrder(r)
    <2>1. \E x, y \in Nat : /\ Len(r.given) = x /\ Len(r.buffer) = y /\ r.written = x + y
                            /\ \A i \in 1 .. x : r.given[i] = i
                            /\ \A i \in 1 .. y : r.buffer[i] = x + i
      <3> WITNESS a + 1 \in Nat, b - 1 \in Nat
      <3> QED  BY <1>1, <1>5, <1>7, <1>8, <1>9, <1>10, <1>11
    <2>2. r \in GrpcStream
      BY <1>8
    <2> QED  BY <2>1, <2>2, Numbered
  <1> QED  BY <1>8, <1>12

--------------------------------------------------------------------------------
(* The operations of GrpcStream.                                            *)

\* What most of them do: the call goes on as it was.
Keeps(w, H, v, s) ==
    /\ Sound(v, H) /\ Step(w, v, s) /\ s \in Alive(v)
    /\ v.g[s].finished = w.g[s].finished /\ v.g[s].call = w.g[s].call
    /\ HasRead(w, s) => HasRead(v, s)
    /\ Uncancelled(w, s) => Uncancelled(v, s)

\* Two operations that keep the call going keep it going together.
LEMMA KeepsTransitive ==
    ASSUME NEW w, NEW H, NEW v, NEW u, NEW s, Keeps(w, H, v, s), Keeps(v, H, u, s)
    PROVE  Keeps(w, H, u, s)
  <1>1. Step(w, u, s)
    BY StepTransitive DEF Keeps
  <1> QED  BY <1>1 DEF Keeps

\* Doing nothing does.
LEMMA KeepsReflexive ==
    ASSUME NEW w, NEW H, Sound(w, H), NEW s \in Alive(w)
    PROVE  Keeps(w, H, w, s)
  BY StepReflexive DEF Keeps

\* A world has three parts, and its assertions have held.
LEMMA WorldParts ==
    ASSUME NEW w, IsWorld(w)
    PROVE  w = [g |-> w.g, cs |-> w.cs, ok |-> TRUE] /\ w.ok = TRUE
  BY DEF IsWorld

\* A HARD_ASSERT whose condition holds changes nothing.
LEMMA AssertHolds ==
    ASSUME NEW w, IsWorld(w), NEW condition, condition
    PROVE  HardAssert(w, condition) = w
  <1>1. [w EXCEPT !.ok = TRUE] = w
    BY DEF IsWorld
  <1>2. (w.ok /\ condition) = TRUE
    BY DEF IsWorld
  <1> QED  BY <1>1, <1>2 DEF HardAssert

\* A world whose streams change
LEMMA NewRecord ==
    ASSUME NEW w, IsWorld(w), NEW g
    PROVE  [w EXCEPT !.g = g] = [g |-> g, cs |-> w.cs, ok |-> TRUE]
  <1>1. PICK A, B : w \in [g: A, cs: B, ok: {TRUE}]
    BY DEF IsWorld
  <1>2. PICK v : v = [w EXCEPT !.g = g]
    OBVIOUS
  <1>3. v = [g |-> g, cs |-> w.cs, ok |-> TRUE]
    BY <1>1, <1>2
  <1> QED  BY <1>2, <1>3

\* The types of a stream that is alive, and what the invariant says of it.
LEMMA StreamParts ==
    ASSUME NEW w, NEW H, Sound(w, H), NEW s \in Alive(w)
    PROVE  /\ IsWorld(w) /\ s \in Stream /\ w.g[s] \in GrpcStream /\ StreamOK(w, s)
           /\ w.g \in [Stream -> GrpcStream \cup {Nothing}]
  BY DEF Sound, Alive, IsWorld

\* A record that only says more of the writes or of what has been read
SameCall(w, s, r) ==
    /\ r \in GrpcStream /\ InOrder(r)
    /\ r.completions = w.g[s].completions
    /\ r.finished = w.g[s].finished /\ r.call = w.g[s].call
    /\ Of(w, s, "Write") # {} => r.active

WithRecord(w, v, s, r) == v = [g |-> [w.g EXCEPT ![s] = r], cs |-> w.cs, ok |-> TRUE]

\* A record of the same call keeps it going.
LEMMA RecordKeeps ==
    ASSUME NEW w, NEW H, Sound(w, H), NEW s \in Alive(w), NEW r, SameCall(w, s, r),
           NEW v, WithRecord(w, v, s, r)
    PROVE  /\ Keeps(w, H, v, s) /\ v.g[s] = r /\ SameLists(w, v, s)
  <1>1. StreamOK(w, s)
    BY StreamParts
  <1>0. PICK cancel \in BOOLEAN : cancel = FALSE
    OBVIOUS
  <1>2. Legal(w, s, r, cancel)
    BY <1>0, <1>1 DEF Legal, StreamOK, SameCall
  <1>3. Updated(w, v, s, r, cancel)
    BY <1>0 DEF Updated, WithRecord
  <1>4. AfterUpdate(w, H, v, s, r, cancel)
    BY <1>2, <1>3, UpdatedSound
  <1> QED  BY <1>0, <1>4 DEF Keeps, AfterUpdate, SameCall

\* Enqueuing a write keeps the call going, ...
LEMMA EnqueuedSound ==
    ASSUME NEW w, NEW H, Sound(w, H), NEW s \in Alive(w), NEW v, v = Enqueued(w, s)
    PROVE  Keeps(w, H, v, s)
  <1>1. /\ IsWorld(w) /\ s \in Stream /\ w.g[s] \in GrpcStream
        /\ StreamOK(w, s) /\ w.g \in [Stream -> GrpcStream \cup {Nothing}]
    BY StreamParts
  <1>2. PICK r : r = [w.g[s] EXCEPT !.written = w.g[s].written + 1,
                                    !.buffer = Append(w.g[s].buffer, w.g[s].written + 1)]
    OBVIOUS
  <1>3. InOrder(w.g[s])
    BY <1>1 DEF StreamOK
  <1>4. /\ r \in GrpcStream /\ InOrder(r)
        /\ r.completions = w.g[s].completions /\ r.finished = w.g[s].finished
        /\ r.active = w.g[s].active /\ r.call = w.g[s].call /\ r.greeted = w.g[s].greeted
    BY <1>1, <1>2, <1>3, EnqueuedInOrder
  <1>5. v = [g |-> [w.g EXCEPT ![s] = r], cs |-> w.cs, ok |-> TRUE]
    <2>1. v = [w EXCEPT !.g = [w.g EXCEPT ![s] = r]]
      BY <1>2 DEF Enqueued
    <2> QED  BY <1>1, <2>1, NewRecord
  <1>6. Of(w, s, "Write") # {} => r.active
    BY <1>1, <1>4 DEF StreamOK
  <1>7. SameCall(w, s, r) /\ WithRecord(w, v, s, r)
    BY <1>4, <1>5, <1>6 DEF SameCall, WithRecord
  <1> QED  BY <1>7, RecordKeeps

\* ... so does starting one unless one is active, ...
LEMMA TryStartWriteSound ==
    ASSUME NEW w, NEW H, Sound(w, H), NEW s \in Alive(w),
           Uncancelled(w, s),
           NEW callback \in {"OnWrite", "RemoveOnly"}, NEW v, v = TryStartWrite(w, s, callback)
    PROVE  Keeps(w, H, v, s)
  <1>1. /\ IsWorld(w) /\ s \in Stream /\ w.g[s] \in GrpcStream
        /\ StreamOK(w, s) /\ w.g \in [Stream -> GrpcStream \cup {Nothing}]
    BY StreamParts
  <1>2. CASE w.g[s].buffer = <<>> \/ w.g[s].active
    <2>1. v = w
      BY <1>2 DEF TryStartWrite
    <2> QED  BY <2>1, KeepsReflexive
  <1>3. CASE ~(w.g[s].buffer = <<>> \/ w.g[s].active)
    <2>1. PICK r : r = [w.g[s] EXCEPT !.active = TRUE, !.buffer = Tail(w.g[s].buffer),
                                      !.given = Append(w.g[s].given, Head(w.g[s].buffer))]
      OBVIOUS
    <2>2. InOrder(w.g[s]) /\ w.g[s].buffer # <<>>
      BY <1>1, <1>3 DEF StreamOK
    <2>3. /\ r \in GrpcStream /\ InOrder(r)
          /\ r.completions = w.g[s].completions /\ r.finished = w.g[s].finished
          /\ r.active = TRUE /\ r.call = w.g[s].call /\ r.greeted = w.g[s].greeted
      BY <1>1, <2>1, <2>2, StartedInOrder
    <2>4. PICK u : u = [g |-> [w.g EXCEPT ![s] = r], cs |-> w.cs, ok |-> TRUE]
      OBVIOUS
    <2>5. v = NewCompletion(u, s, "Write", callback)
      <3>1. u = [w EXCEPT !.g[s].active = TRUE, !.g[s].buffer = Tail(@),
                          !.g[s].given = Append(@, Head(w.g[s].buffer))]
        <4>1. u = [w EXCEPT !.g = [w.g EXCEPT ![s] = r]]
          BY <1>1, <2>4, NewRecord
        <4> QED  BY <2>1, <4>1
      <3> QED  BY <1>3, <3>1 DEF TryStartWrite
    <2>6. Keeps(w, H, u, s) /\ u.g[s] = r /\ SameLists(w, u, s)
      <3>1. SameCall(w, s, r) /\ WithRecord(w, u, s, r)
        BY <2>3, <2>4 DEF SameCall, WithRecord
      <3> QED  BY <3>1, RecordKeeps
    <2>7. Of(u, s, "Write") = {} /\ u.g[s].active
      BY <1>1, <1>3, <2>3, <2>6 DEF StreamOK, SameLists
    <2>8. Allowed(u, s, "Write", callback)
      BY <2>6, <2>7 DEF Allowed, Keeps, Uncancelled
    <2>9. Sound(u, H) /\ s \in Alive(u)
      BY <2>6 DEF Keeps
    <2>10. /\ Sound(v, H) /\ Step(u, v, s) /\ s \in Alive(v)
           /\ v.g[s].finished = u.g[s].finished /\ v.g[s].active = u.g[s].active
           /\ v.g[s].call = u.g[s].call
           /\ HasRead(u, s) \/ "Write" = "Read" => HasRead(v, s)
           /\ Uncancelled(u, s) => Uncancelled(v, s)
      BY <2>5, <2>8, <2>9, NewCompletionSound
    <2>11. Keeps(u, H, v, s)
      BY <2>10 DEF Keeps
    <2> QED  BY <2>6, <2>11, KeepsTransitive
  <1> QED  BY <1>2, <1>3

\* ... and a write of the observer.
LEMMA WriteSound ==
    ASSUME NEW w, NEW H, Sound(w, H), NEW s \in Alive(w), Uncancelled(w, s),
           NEW v, v = Write(w, s)
    PROVE  Keeps(w, H, v, s)
  <1>1. PICK u : u = Enqueued(w, s)
    OBVIOUS
  <1>2. Keeps(w, H, u, s)
    BY <1>1, EnqueuedSound
  <1>3. /\ Sound(u, H) /\ s \in Alive(u) /\ Uncancelled(u, s)
        /\ v = TryStartWrite(u, s, "OnWrite")
    BY <1>1, <1>2 DEF Keeps, Write
  <1>4. Keeps(u, H, v, s)
    BY <1>3, TryStartWriteSound
  <1> QED  BY <1>2, <1>4, KeepsTransitive

\* The next write goes out when the one before has come back.
LEMMA DequeueNextWriteSound ==
    ASSUME NEW w, NEW H, Sound(w, H), NEW s \in Alive(w), Uncancelled(w, s),
           Of(w, s, "Write") = {}, NEW v, v = DequeueNextWrite(w, s)
    PROVE  Keeps(w, H, v, s)
  <1>1. /\ IsWorld(w) /\ s \in Stream /\ w.g[s] \in GrpcStream
        /\ StreamOK(w, s) /\ w.g \in [Stream -> GrpcStream \cup {Nothing}]
    BY StreamParts
  <1>2. PICK r : r = [w.g[s] EXCEPT !.active = FALSE]
    OBVIOUS
  <1>3. /\ r \in GrpcStream /\ r.completions = w.g[s].completions
        /\ r.finished = w.g[s].finished /\ r.call = w.g[s].call
        /\ r.given = w.g[s].given /\ r.buffer = w.g[s].buffer /\ r.written = w.g[s].written
    BY <1>1, <1>2 DEF GrpcStream
  <1>4. InOrder(r)
    BY <1>1, <1>3 DEF StreamOK, InOrder
  <1>5. PICK u : u = [g |-> [w.g EXCEPT ![s] = r], cs |-> w.cs, ok |-> TRUE]
    OBVIOUS
  <1>6. Keeps(w, H, u, s) /\ u.g[s] = r /\ SameLists(w, u, s)
    <2>1. SameCall(w, s, r) /\ WithRecord(w, u, s, r)
      BY <1>3, <1>4, <1>5 DEF SameCall, WithRecord
    <2> QED  BY <2>1, RecordKeeps
  <1>7. u = [w EXCEPT !.g[s].active = FALSE]
    <2>1. u = [w EXCEPT !.g = [w.g EXCEPT ![s] = r]]
      BY <1>1, <1>5, NewRecord
    <2> QED  BY <1>2, <2>1
  <1>8. /\ Sound(u, H) /\ s \in Alive(u) /\ Uncancelled(u, s)
        /\ v = TryStartWrite(u, s, "OnWrite")
    BY <1>6, <1>7 DEF Keeps, DequeueNextWrite
  <1>9. Keeps(u, H, v, s)
    BY <1>8, TryStartWriteSound
  <1> QED  BY <1>6, <1>9, KeepsTransitive

\* The first read is started, or a message has been read and the next one is.
ReadsOn(w, v, s) ==
    /\ ~w.g[s].finished /\ Of(w, s, "Read") = {}
    /\ v = Read(w, s) \/ v = Read([w EXCEPT !.g[s].greeted = TRUE], s)

\* A call that is not over may be read.
LEMMA ReadOnSound ==
    ASSUME NEW w, NEW H, Sound(w, H), NEW s \in Alive(w), NEW v, ReadsOn(w, v, s)
    PROVE  /\ Sound(v, H) /\ Step(w, v, s) /\ s \in Alive(v)
           /\ v.g[s].finished = w.g[s].finished /\ v.g[s].call = w.g[s].call
           /\ HasRead(v, s)
           /\ Uncancelled(w, s) => Uncancelled(v, s)
  <1>1. /\ IsWorld(w) /\ s \in Stream /\ w.g[s] \in GrpcStream
        /\ StreamOK(w, s) /\ w.g \in [Stream -> GrpcStream \cup {Nothing}]
    BY StreamParts
  <1>0. ~w.g[s].finished /\ Of(w, s, "Read") = {}
    BY DEF ReadsOn
  <1>2. PICK u : u \in {w, [w EXCEPT !.g[s].greeted = TRUE]} /\ v = Read(u, s)
    BY DEF ReadsOn
  <1>3. Keeps(w, H, u, s) /\ Of(u, s, "Read") = {}
    <2>1. CASE u = w
      BY <1>0, <2>1, KeepsReflexive
    <2>2. CASE u = [w EXCEPT !.g[s].greeted = TRUE]
      <3>1. PICK r : r = [w.g[s] EXCEPT !.greeted = TRUE]
        OBVIOUS
      <3>2. /\ r \in GrpcStream /\ r.completions = w.g[s].completions
            /\ r.finished = w.g[s].finished /\ r.call = w.g[s].call
            /\ r.active = w.g[s].active
            /\ r.given = w.g[s].given /\ r.buffer = w.g[s].buffer /\ r.written = w.g[s].written
        BY <1>1, <3>1 DEF GrpcStream
      <3>3. InOrder(r) /\ (Of(w, s, "Write") # {} => r.active)
        BY <1>1, <3>2 DEF StreamOK, InOrder
      <3>4. u = [g |-> [w.g EXCEPT ![s] = r], cs |-> w.cs, ok |-> TRUE]
        <4>1. u = [w EXCEPT !.g = [w.g EXCEPT ![s] = r]]
          BY <2>2, <3>1
        <4> QED  BY <1>1, <4>1, NewRecord
      <3>5. Keeps(w, H, u, s) /\ u.g[s] = r /\ SameLists(w, u, s)
        <4>1. SameCall(w, s, r) /\ WithRecord(w, u, s, r)
          BY <3>2, <3>3, <3>4 DEF SameCall, WithRecord
        <4> QED  BY <4>1, RecordKeeps
      <3>6. Of(w, s, "Read") = Of(u, s, "Read")
        BY <1>0, <3>5 DEF SameLists
      <3> QED  BY <1>0, <3>5, <3>6
    <2> QED  BY <1>2, <2>1, <2>2
  <1>4. /\ Sound(u, H) /\ s \in Alive(u) /\ Allowed(u, s, "Read", "OnRead")
        /\ v = NewCompletion(u, s, "Read", "OnRead")
    BY <1>0, <1>2, <1>3 DEF Keeps, Allowed, Read
  <1>5. /\ Sound(v, H) /\ Step(u, v, s) /\ s \in Alive(v)
        /\ v.g[s].finished = u.g[s].finished /\ v.g[s].active = u.g[s].active
        /\ v.g[s].call = u.g[s].call
        /\ HasRead(u, s) \/ "Read" = "Read" => HasRead(v, s)
        /\ Uncancelled(u, s) => Uncancelled(v, s)
    BY <1>4, NewCompletionSound
  <1>6. Step(w, v, s)
    BY <1>3, <1>5, StepTransitive DEF Keeps
  <1> QED  BY <1>3, <1>5, <1>6 DEF Keeps

--------------------------------------------------------------------------------
(* The end of a call.                                                       *)

\* The call is finished, and nothing of it will call back.
Over(w, H, v, s) ==
    /\ Sound(v, H) /\ Step(w, v, s) /\ s \in Alive(v)
    /\ v.g[s].finished /\ AllCancelled(v, s)

\* The record of a call that is over
EndedRecord(w, s, r) ==
    /\ r \in GrpcStream /\ InOrder(r) /\ r.completions = w.g[s].completions
    /\ Of(w, s, "Write") # {} => r.active
    /\ r.finished /\ r.call # "open" /\ BesideFinish(w, s, r.call)

\* A world whose completions change
LEMMA NewCompletions ==
    ASSUME NEW w, IsWorld(w), NEW cs
    PROVE  [w EXCEPT !.cs = cs] = [g |-> w.g, cs |-> cs, ok |-> TRUE]
  <1>1. PICK A, B : w \in [g: A, cs: B, ok: {TRUE}]
    BY DEF IsWorld
  <1>2. PICK v : v = [w EXCEPT !.cs = cs]
    OBVIOUS
  <1>3. v = [g |-> w.g, cs |-> cs, ok |-> TRUE]
    BY <1>1, <1>2
  <1> QED  BY <1>2, <1>3

\* The callbacks of a call that is over are cancelled.
LEMMA CancelSound ==
    ASSUME NEW w, NEW H, Sound(w, H), NEW s \in Alive(w), NEW r, EndedRecord(w, s, r),
           NEW u, WithRecord(w, u, s, r), NEW v, v = Cancel(u, s)
    PROVE  Over(w, H, v, s) /\ v.g[s] = r /\ DOMAIN v.cs = DOMAIN w.cs
  <1>1. /\ IsWorld(w) /\ s \in Stream /\ w.g[s] \in GrpcStream /\ StreamOK(w, s)
        /\ w.g \in [Stream -> GrpcStream \cup {Nothing}]
    BY StreamParts
  <1>2. u.g[s] = r /\ u.cs = w.cs /\ u.g = [w.g EXCEPT ![s] = r]
    BY <1>1 DEF WithRecord
  <1>3. v = [g |-> u.g, cs |-> Cancelled(w, s), ok |-> TRUE]
    <2>1. Cancelled(u, s) = Cancelled(w, s)
      BY <1>2 DEF Cancelled, EndedRecord
    <2>2. v = [u EXCEPT !.cs = Cancelled(u, s)]
      BY DEF Cancel, Cancelled
    <2>3. PICK cs : cs = Cancelled(w, s)
      OBVIOUS
    <2>4. v = [u EXCEPT !.cs = cs]
      BY <2>1, <2>2, <2>3
    <2>5. v = [g |-> u.g, cs |-> cs, ok |-> TRUE]
      BY <2>4 DEF WithRecord
    <2> QED  BY <2>3, <2>5
  <1>4. PICK cancel \in BOOLEAN : cancel = TRUE
    OBVIOUS
  <1>5. Updated(w, v, s, r, cancel)
    BY <1>2, <1>3, <1>4 DEF Updated
  <1>6. Legal(w, s, r, cancel)
    BY <1>4 DEF Legal, EndedRecord
  <1>7. AfterUpdate(w, H, v, s, r, cancel)
    BY <1>5, <1>6, UpdatedSound
  <1> QED  BY <1>4, <1>7 DEF AfterUpdate, Over, EndedRecord

\* The call is finished, having ended in the way c.
Finishes(w, v, s, c) ==
    ~w.g[s].finished /\ v = FinishGrpcCall([w EXCEPT !.g[s].call = c], s)

\* A call that has ended, or that is cancelled now, is over when it is finished.
LEMMA FinishedAs ==
    ASSUME NEW w, NEW H, Sound(w, H), NEW s \in Alive(w), NEW c \in {"ended", "cancelled"},
           NEW v, Finishes(w, v, s, c)
    PROVE  Over(w, H, v, s) /\ v.g[s].call = c /\ DOMAIN v.cs = DOMAIN w.cs
  <1>1. /\ IsWorld(w) /\ s \in Stream /\ w.g[s] \in GrpcStream /\ StreamOK(w, s)
        /\ w.g \in [Stream -> GrpcStream \cup {Nothing}]
    BY StreamParts
  <1>3. PICK q : q = [w.g[s] EXCEPT !.call = c]
    OBVIOUS
  <1>4. PICK r : r = [w.g[s] EXCEPT !.call = c, !.finished = TRUE]
    OBVIOUS
  <1>5. /\ q \in GrpcStream /\ ~q.finished /\ r = [q EXCEPT !.finished = TRUE]
        /\ r \in GrpcStream /\ r.completions = w.g[s].completions /\ r.finished
        /\ r.call = c /\ r.active = w.g[s].active
        /\ r.given = w.g[s].given /\ r.buffer = w.g[s].buffer /\ r.written = w.g[s].written
    BY <1>1, <1>3, <1>4 DEF GrpcStream, Finishes
  <1>6. EndedRecord(w, s, r)
    <2>1. Of(w, s, "Finish") = {}
      BY <1>1 DEF StreamOK, Finishes
    <2> QED  BY <1>1, <1>5, <2>1 DEF EndedRecord, StreamOK, InOrder, BesideFinish
  <1>7. PICK x : x = [w EXCEPT !.g[s].call = c]
    OBVIOUS
  <1>8. x = [g |-> [w.g EXCEPT ![s] = q], cs |-> w.cs, ok |-> TRUE]
    <2>1. x = [w EXCEPT !.g = [w.g EXCEPT ![s] = q]]
      BY <1>3, <1>7
    <2> QED  BY <1>1, <2>1, NewRecord
  <1>9. x.g[s] = q /\ x.g = [w.g EXCEPT ![s] = q] /\ x.cs = w.cs /\ x.ok = TRUE
    BY <1>1, <1>8
  <1>10. PICK u : u = [HardAssert(x, ~x.g[s].finished) EXCEPT !.g[s].finished = TRUE]
    OBVIOUS
  <1>11. WithRecord(w, u, s, r)
    <2>1. HardAssert(x, ~x.g[s].finished) = x
      <3>1. [x EXCEPT !.ok = TRUE] = x
        <4>1. PICK A, B : x \in [g: A, cs: B, ok: {TRUE}]
          <5>1. x \in [g: {[w.g EXCEPT ![s] = q]}, cs: {w.cs}, ok: {TRUE}]
            BY <1>8
          <5> QED  BY <5>1
        <4> QED  BY <4>1
      <3>2. (x.ok /\ ~x.g[s].finished) = TRUE
        BY <1>5, <1>9
      <3> QED  BY <3>1, <3>2 DEF HardAssert
    <2>2. u = [x EXCEPT !.g = [x.g EXCEPT ![s] = r]]
      BY <1>5, <1>9, <1>10, <2>1
    <2>3. [x.g EXCEPT ![s] = r] = [w.g EXCEPT ![s] = r]
      BY <1>1, <1>9
    <2> QED  BY <1>8, <2>2, <2>3 DEF WithRecord
  <1>12. v = Cancel(u, s)
    BY <1>7, <1>10 DEF FinishGrpcCall, Finishes
  <1>13. Over(w, H, v, s) /\ v.g[s] = r /\ DOMAIN v.cs = DOMAIN w.cs
    BY <1>6, <1>11, <1>12, CancelSound
  <1> QED  BY <1>5, <1>13

\* An operation of a call that has ended has failed: the call is finished.
LEMMA FinishGrpcCallSound ==
    ASSUME NEW w, NEW H, Sound(w, H), NEW s \in Alive(w), ~w.g[s].finished,
           w.g[s].call = "ended", NEW v, v = FinishGrpcCall(w, s)
    PROVE  Over(w, H, v, s) /\ v.g[s].call = "ended" /\ DOMAIN v.cs = DOMAIN w.cs
  <1>1. /\ IsWorld(w) /\ s \in Stream /\ w.g[s] \in GrpcStream
        /\ w.g \in [Stream -> GrpcStream \cup {Nothing}]
    BY StreamParts
  <1>2. [w.g[s] EXCEPT !.call = "ended"] = w.g[s]
    BY <1>1 DEF GrpcStream
  <1>3. [w.g EXCEPT ![s] = w.g[s]] = w.g
    BY <1>1
  <1>4. [w EXCEPT !.g = w.g] = w
    <2>1. PICK g : g = w.g
      OBVIOUS
    <2>2. [w EXCEPT !.g = g] = [g |-> g, cs |-> w.cs, ok |-> TRUE]
      BY <1>1, NewRecord
    <2> QED  BY <1>1, <2>1, <2>2, WorldParts
  <1>5. [w EXCEPT !.g[s].call = "ended"] = w
    BY <1>2, <1>3, <1>4
  <1>6. PICK c \in {"ended", "cancelled"} : c = "ended"
    OBVIOUS
  <1>7. Finishes(w, v, s, c)
    BY <1>5, <1>6 DEF Finishes
  <1>8. Over(w, H, v, s) /\ v.g[s].call = c /\ DOMAIN v.cs = DOMAIN w.cs
    BY <1>7, FinishedAs
  <1> QED  BY <1>6, <1>8

\* Shutdown up to where it blocks: the call is finished, by the shutdown or before.
LEMMA ShutdownSound ==
    ASSUME NEW w, NEW H, Sound(w, H), NEW s \in Alive(w), HasRead(w, s),
           NEW v, v = Shutdown(w, s)
    PROVE  Over(w, H, v, s)
  <1>1. /\ IsWorld(w) /\ s \in Stream /\ w.g[s] \in GrpcStream /\ StreamOK(w, s)
        /\ w.g \in [Stream -> GrpcStream \cup {Nothing}]
    BY StreamParts
  <1>2. CASE NeedsFinish(w, s)
    <2>1. PICK c \in {"ended", "cancelled"} : c = "cancelled"
      OBVIOUS
    <2>2. Finishes(w, v, s, c)
      BY <1>2, <2>1 DEF Shutdown, NeedsFinish, Finishes
    <2> QED  BY <2>2, FinishedAs
  <1>3. CASE ~NeedsFinish(w, s)
    <2>1. w.g[s].finished
      BY <1>3 DEF NeedsFinish, HasRead, Of
    <2>2. PICK r : r = w.g[s]
      OBVIOUS
    <2>3. EndedRecord(w, s, r)
      BY <1>1, <2>1, <2>2 DEF EndedRecord, StreamOK
    <2>4. WithRecord(w, w, s, r)
      <3>1. [w.g EXCEPT ![s] = w.g[s]] = w.g
        BY <1>1
      <3> QED  BY <1>1, <2>2, <3>1, WorldParts DEF WithRecord
    <2>5. v = Cancel(w, s)
      BY <1>3 DEF Shutdown
    <2> QED  BY <2>3, <2>4, <2>5, CancelSound
  <1> QED  BY <1>2, <1>3

--------------------------------------------------------------------------------
(* The list of a finished call is cleared, its stream is created and        *)
(* destroyed.                                                               *)

\* The completions that are handed back need their stream no more.
LEMMA ClearSound ==
    ASSUME NEW w, NEW H, Sound(w, H), NEW s \in Alive(w), AllCancelled(w, s),
           w.g[s].finished, w.g[s].completions \subseteq H,
           NEW v, v = Clear(w, s)
    PROVE  Over(w, H, v, s) /\ v.g[s].completions = {} /\ v.g[s].call = w.g[s].call
  <1>1. /\ IsWorld(w) /\ s \in Stream /\ w.g[s] \in GrpcStream /\ StreamOK(w, s)
        /\ w.g \in [Stream -> GrpcStream \cup {Nothing}]
    BY StreamParts
  <1>2. PICK r : r = [w.g[s] EXCEPT !.completions = {}]
    OBVIOUS
  <1>3. /\ r \in GrpcStream /\ r.completions = {} /\ r.finished = w.g[s].finished
        /\ r.call = w.g[s].call /\ r.active = w.g[s].active /\ r.given = w.g[s].given
        /\ r.buffer = w.g[s].buffer /\ r.written = w.g[s].written
    BY <1>1, <1>2 DEF GrpcStream
  <1>4. v = [g |-> [w.g EXCEPT ![s] = r], cs |-> w.cs, ok |-> TRUE]
    <2>1. v = [w EXCEPT !.g = [w.g EXCEPT ![s] = r]]
      BY <1>2 DEF Clear
    <2> QED  BY <1>1, <2>1, NewRecord
  <1>5. /\ v.cs = w.cs /\ v.g = [w.g EXCEPT ![s] = r] /\ v.g[s] = r
        /\ \A t \in Stream \ {s} : v.g[t] = w.g[t]
    BY <1>1, <1>4
  <1>6. IsWorld(v)
    <2>1. v.g \in [Stream -> GrpcStream \cup {Nothing}]
      BY <1>1, <1>3, <1>5
    <2>2. v \in [g: [Stream -> GrpcStream \cup {Nothing}], cs: {v.cs}, ok: {TRUE}]
      BY <1>4, <1>5, <2>1
    <2> QED  BY <1>1, <1>5, <2>2 DEF IsWorld
  <1>7. Alive(v) = Alive(w)
    BY <1>1, <1>3, <1>5, NothingAssumption DEF Alive
  <1>8. Step(w, v, s)
    <2>1. ASSUME NEW i \in DOMAIN w.cs, w.cs[i].stream # Nothing,
                 w.g[w.cs[i].stream].call # "open"
          PROVE  v.g[w.cs[i].stream].call # "open"
      <3>1. w.cs[i].stream \in Stream
        BY <1>1, <2>1 DEF IsWorld, Completion
      <3> QED  BY <1>3, <1>5, <2>1, <3>1
    <2>2. Later(w, v)
      BY <1>5, <2>1 DEF Later
    <2>3. \A t \in Alive(w) \ {s} : v.g[t] = w.g[t]
      BY <1>5 DEF Alive
    <2> QED  BY <1>5, <1>7, <2>2, <2>3 DEF Step
  <1>9. ASSUME NEW i \in DOMAIN v.cs PROVE CompletionOK(v, H, i)
    <2>1. i \in DOMAIN w.cs /\ v.cs[i] = w.cs[i] /\ CompletionOK(w, H, i)
      BY <1>5 DEF Sound
    <2>2. CASE Owned(w, i) /\ w.cs[i].stream = s
      <3>1. w.cs[i].callback = "Cancelled" /\ i \in H
        BY <2>2 DEF Owned, AllCancelled
      <3> QED  BY <1>7, <2>1, <3>1 DEF CompletionOK
    <2>3. CASE Owned(w, i) /\ w.cs[i].stream # s
      <3>1. w.cs[i].stream \in Stream \ {s}
        BY <1>1, <2>1, <2>3 DEF IsWorld, Completion, Owned
      <3>2. Owned(v, i)
        BY <1>5, <2>1, <2>3, <3>1 DEF Owned
      <3> QED  BY <1>7, <2>1, <3>2 DEF CompletionOK
    <2>4. CASE ~Owned(w, i)
      BY <1>7, <2>1, <2>4 DEF CompletionOK
    <2> QED  BY <2>2, <2>3, <2>4
  <1>10. \A type : Of(v, s, type) = {}
    BY <1>3, <1>5 DEF Of
  <1>11. StreamOK(v, s)
    BY <1>1, <1>3, <1>5, <1>10 DEF StreamOK, AtMostOne, InOrder, BesideFinish
  <1>12. Sound(v, H)
    <2>1. \A t \in Alive(v) \ {s} : StreamOK(v, t)
      BY <1>8, OthersSound
    <2> QED  BY <1>6, <1>9, <1>11, <2>1 DEF Sound
  <1>13. AllCancelled(v, s)
    BY <1>3, <1>5 DEF AllCancelled
  <1> QED  BY <1>3, <1>5, <1>7, <1>8, <1>12, <1>13 DEF Over

\* A stream whose list is empty is destroyed.
LEMMA DestroySound ==
    ASSUME NEW w, NEW H, Sound(w, H), NEW s \in Alive(w), w.g[s].completions = {},
           NEW v, v = Destroy(w, s)
    PROVE  Sound(v, H) /\ Step(w, v, s) /\ Alive(v) = Alive(w) \ {s}
  <1>1. /\ IsWorld(w) /\ s \in Stream /\ s # Nothing
        /\ w.g \in [Stream -> GrpcStream \cup {Nothing}]
    BY StreamParts, NothingAssumption
  <1>2. PICK g : g = [w.g EXCEPT ![s] = Nothing]
    OBVIOUS
  <1>3. PICK cs : cs = [i \in DOMAIN w.cs |-> IF w.cs[i].stream = s
                                             THEN [w.cs[i] EXCEPT !.stream = Nothing]
                                             ELSE w.cs[i]]
    OBVIOUS
  <1>4. v = [g |-> g, cs |-> cs, ok |-> TRUE]
    <2>1. HardAssert(w, w.g[s].completions = {}) = w
      BY <1>1, AssertHolds
    <2>2. v = [w EXCEPT !.g = g, !.cs = cs]
      BY <1>2, <1>3, <2>1 DEF Destroy
    <2>3. PICK A, B : w \in [g: A, cs: B, ok: {TRUE}]
      BY <1>1 DEF IsWorld
    <2> QED  BY <2>2, <2>3
  <1>5. /\ v.g = g /\ v.cs = cs /\ g[s] = Nothing
        /\ \A t \in Stream \ {s} : v.g[t] = w.g[t]
        /\ g \in [Stream -> GrpcStream \cup {Nothing}]
    BY <1>1, <1>2, <1>4
  <1>6. Alive(v) = Alive(w) \ {s}
    BY <1>1, <1>5 DEF Alive
  <1>7. ASSUME NEW i \in DOMAIN w.cs
        PROVE  /\ cs[i] \in Completion
               /\ w.cs[i].stream = s => cs[i].stream = Nothing
               /\ w.cs[i].stream # s => cs[i] = w.cs[i]
               /\ cs[i].type = w.cs[i].type /\ cs[i].callback = w.cs[i].callback
    <2>1. w.cs[i] \in Completion
      BY <1>1 DEF IsWorld
    <2> QED  BY <1>3, <2>1 DEF Completion
  <1>8. DOMAIN cs = DOMAIN w.cs /\ cs \in [DOMAIN w.cs -> Completion]
    <2>1. cs = [i \in DOMAIN w.cs |-> cs[i]]
      BY <1>3
    <2> QED  BY <1>7, <2>1
  <1>9. IsWorld(v)
    <2>1. v \in [g: [Stream -> GrpcStream \cup {Nothing}], cs: {v.cs}, ok: {TRUE}]
      BY <1>4, <1>5
    <2> QED  BY <1>1, <1>5, <1>8, <2>1 DEF IsWorld
  <1>10. Later(w, v)
    <2>1. ASSUME NEW i \in DOMAIN w.cs, cs[i].stream # Nothing,
                 w.g[w.cs[i].stream].call # "open"
          PROVE  cs[i].stream = w.cs[i].stream /\ v.g[w.cs[i].stream].call # "open"
      <3>1. w.cs[i].stream # s /\ cs[i] = w.cs[i]
        BY <1>7, <2>1
      <3>2. w.cs[i].stream \in Stream \ {s}
        BY <1>1, <2>1, <3>1 DEF IsWorld, Completion
      <3> QED  BY <1>5, <2>1, <3>1, <3>2
    <2>2. ASSUME NEW i \in DOMAIN w.cs, cs[i].stream # Nothing
          PROVE  cs[i].stream = w.cs[i].stream
      BY <1>7, <2>2
    <2> QED  BY <1>5, <1>8, <2>1, <2>2 DEF Later
  <1>11. Step(w, v, s)
    <2>1. ASSUME NEW t \in Alive(w) \ {s}, NEW i \in w.g[t].completions
          PROVE  v.cs[i] = w.cs[i]
      <3>1. i \in DOMAIN w.cs /\ w.cs[i].stream = t
        BY DEF Sound, StreamOK
      <3> QED  BY <1>5, <1>7, <3>1
    <2>2. \A t \in Alive(w) \ {s} : v.g[t] = w.g[t]
      BY <1>5 DEF Alive
    <2> QED  BY <1>6, <1>10, <2>1, <2>2 DEF Step
  <1>12. ASSUME NEW i \in DOMAIN v.cs PROVE CompletionOK(v, H, i)
    <2>1. i \in DOMAIN w.cs /\ CompletionOK(w, H, i)
      BY <1>5, <1>8 DEF Sound
    <2>2. CASE w.cs[i].stream = s
      <3>1. ~Owned(w, i)
        BY <2>2 DEF Owned
      <3>2. /\ v.cs[i].stream = Nothing /\ v.cs[i].type = w.cs[i].type
            /\ v.cs[i].callback = w.cs[i].callback
        BY <1>5, <1>7, <2>1, <2>2
      <3> QED  BY <2>1, <3>1, <3>2 DEF CompletionOK
    <2>3. CASE w.cs[i].stream # s
      <3>1. v.cs[i] = w.cs[i]
        BY <1>5, <1>7, <2>1, <2>3
      <3>2. Owned(w, i) => Owned(v, i)
        <4>1. ASSUME w.cs[i].stream # Nothing PROVE w.cs[i].stream \in Stream \ {s}
          BY <1>1, <2>1, <2>3, <4>1 DEF IsWorld, Completion
        <4> QED  BY <1>5, <3>1, <4>1 DEF Owned
      <3> QED  BY <1>6, <2>1, <2>3, <3>1, <3>2 DEF CompletionOK
    <2> QED  BY <2>2, <2>3
  <1>13. \A t \in Alive(v) \ {s} : StreamOK(v, t)
    BY <1>11, OthersSound
  <1>14. Sound(v, H)
    BY <1>6, <1>9, <1>12, <1>13 DEF Sound
  <1> QED  BY <1>6, <1>11, <1>14

\* The record of a call that has just been created
NewStream == [completions |-> {}, finished |-> FALSE, active |-> FALSE, buffer |-> <<>>,
              written |-> 0, given |-> <<>>, greeted |-> FALSE, call |-> "open"]

Created(w, v, s) == v = [w EXCEPT !.g[s] = NewStream]

\* A stream gets a new call.
LEMMA NewStreamSound ==
    ASSUME NEW w, NEW H, Sound(w, H), NEW s \in Stream, s \notin Alive(w),
           NEW v, Created(w, v, s)
    PROVE  /\ Sound(v, H) /\ Step(w, v, s) /\ s \in Alive(v)
           /\ ~v.g[s].finished /\ Of(v, s, "Read") = {} /\ Uncancelled(v, s)
  <1>1. /\ IsWorld(w) /\ w.g \in [Stream -> GrpcStream \cup {Nothing}]
    BY DEF Sound, IsWorld
  <1>2. PICK r : r = NewStream
    OBVIOUS
  <1>3. /\ r.completions = {} /\ ~r.finished /\ ~r.active /\ r.buffer = <<>> /\ r.written = 0
        /\ r.given = <<>> /\ r.call = "open"
    BY <1>2 DEF NewStream
  <1>4. r \in GrpcStream
    <2>1. <<>> \in Seq(Nat)
      OBVIOUS
    <2> QED  BY <1>2, <2>1 DEF NewStream, GrpcStream
  <1>5. InOrder(r)
    <2>1. <<>> \o <<>> = <<>>
      OBVIOUS
    <2>2. [i \in 1 .. 0 |-> i] = <<>>
      OBVIOUS
    <2> QED  BY <1>3, <2>1, <2>2 DEF InOrder
  <1>6. v = [g |-> [w.g EXCEPT ![s] = r], cs |-> w.cs, ok |-> TRUE]
    <2>1. v = [w EXCEPT !.g = [w.g EXCEPT ![s] = r]]
      BY <1>2 DEF Created
    <2> QED  BY <1>1, <2>1, NewRecord
  <1>7. /\ v.cs = w.cs /\ v.g = [w.g EXCEPT ![s] = r] /\ v.g[s] = r
        /\ \A t \in Stream \ {s} : v.g[t] = w.g[t]
    BY <1>1, <1>6
  <1>8. IsWorld(v)
    <2>1. v.g \in [Stream -> GrpcStream \cup {Nothing}]
      BY <1>1, <1>4, <1>7
    <2>2. v \in [g: [Stream -> GrpcStream \cup {Nothing}], cs: {v.cs}, ok: {TRUE}]
      BY <1>6, <1>7, <2>1
    <2> QED  BY <1>1, <1>7, <2>2 DEF IsWorld
  <1>9. Alive(v) = Alive(w) \cup {s}
    BY <1>4, <1>7, NothingAssumption DEF Alive
  <1>10. \A i \in DOMAIN w.cs : w.cs[i].stream # Nothing => w.cs[i].stream \in Stream \ {s}
    BY DEF Sound, CompletionOK, Alive
  <1>11. Step(w, v, s)
    <2>1. Later(w, v)
      BY <1>7, <1>10 DEF Later
    <2>2. \A t \in Alive(w) \ {s} : v.g[t] = w.g[t]
      BY <1>7 DEF Alive
    <2> QED  BY <1>7, <1>9, <2>1, <2>2 DEF Step
  <1>12. ASSUME NEW i \in DOMAIN v.cs PROVE CompletionOK(v, H, i)
    <2>1. i \in DOMAIN w.cs /\ v.cs[i] = w.cs[i] /\ CompletionOK(w, H, i)
      BY <1>7 DEF Sound
    <2>2. Owned(w, i) => Owned(v, i)
      BY <1>7, <1>10, <2>1 DEF Owned
    <2> QED  BY <1>9, <2>1, <2>2 DEF CompletionOK
  <1>13. \A type : Of(v, s, type) = {}
    BY <1>3, <1>7 DEF Of
  <1>14. StreamOK(v, s)
    BY <1>3, <1>5, <1>7, <1>13 DEF StreamOK, AtMostOne, BesideFinish
  <1>15. Sound(v, H)
    <2>1. \A t \in Alive(v) \ {s} : StreamOK(v, t)
      BY <1>11, OthersSound
    <2> QED  BY <1>8, <1>12, <1>14, <2>1 DEF Sound
  <1>16. Uncancelled(v, s)
    BY <1>3, <1>7 DEF Uncancelled
  <1> QED  BY <1>3, <1>7, <1>9, <1>11, <1>13, <1>15, <1>16

--------------------------------------------------------------------------------
(* A callback runs, and its completion deletes itself.                      *)

\* The world v is w without the completion i.
Without(w, v, i) ==
    /\ IsWorld(v)
    /\ DOMAIN v.cs = DOMAIN w.cs \ {i}
    /\ \A j \in DOMAIN v.cs : v.cs[j] = w.cs[j]
    /\ Alive(v) = Alive(w)
    /\ \A t \in Alive(w) :
          /\ v.g[t].completions = w.g[t].completions \ {i}
          /\ v.g[t].finished = w.g[t].finished /\ v.g[t].call = w.g[t].call
          /\ v.g[t].active = w.g[t].active /\ v.g[t].written = w.g[t].written
          /\ v.g[t].given = w.g[t].given /\ v.g[t].buffer = w.g[t].buffer

\* Of each stream what it lists remains.
ListsLeft(w, v, i) ==
    \A t \in Alive(w) :
        /\ \A type : Of(v, t, type) = Of(w, t, type) \ {i}
        /\ HasRead(w, t) /\ i \notin Of(w, t, "Read") => HasRead(v, t)
        /\ Uncancelled(w, t) => Uncancelled(v, t)

\* What the other completions and the streams had they have still.
LEMMA OthersLeft ==
    ASSUME NEW w, NEW H, Sound(w, H), NEW i \in DOMAIN w.cs, NEW v, Without(w, v, i)
    PROVE  Sound(v, H \ {i}) /\ ListsLeft(w, v, i)
  <1>1. IsWorld(w) /\ IsWorld(v) /\ Alive(v) = Alive(w)
    BY DEF Sound, Without
  <1>2. \A j \in DOMAIN v.cs : j \in DOMAIN w.cs /\ j # i /\ v.cs[j] = w.cs[j]
    BY DEF Without
  <1>3. ASSUME NEW j \in DOMAIN v.cs PROVE CompletionOK(v, H \ {i}, j)
    <2>1. j \in DOMAIN w.cs /\ j # i /\ v.cs[j] = w.cs[j] /\ CompletionOK(w, H, j)
      BY <1>2 DEF Sound
    <2>2. Owned(w, j) => Owned(v, j)
      <3>1. w.cs[j].stream # Nothing => w.cs[j].stream \in Alive(w)
        BY <2>1 DEF CompletionOK
      <3> QED  BY <2>1, <3>1 DEF Owned, Without
    <2> QED  BY <1>1, <2>1, <2>2 DEF CompletionOK
  <1>4. ASSUME NEW t \in Alive(w)
        PROVE  /\ v.g[t].completions = w.g[t].completions \ {i}
               /\ v.g[t].finished = w.g[t].finished /\ v.g[t].call = w.g[t].call
               /\ v.g[t].active = w.g[t].active /\ v.g[t].written = w.g[t].written
               /\ v.g[t].given = w.g[t].given /\ v.g[t].buffer = w.g[t].buffer
               /\ \A j \in v.g[t].completions : j \in DOMAIN v.cs /\ v.cs[j] = w.cs[j]
               /\ \A type : Of(v, t, type) = Of(w, t, type) \ {i}
    <2>1. /\ v.g[t].completions = w.g[t].completions \ {i}
          /\ v.g[t].finished = w.g[t].finished /\ v.g[t].call = w.g[t].call
          /\ v.g[t].active = w.g[t].active /\ v.g[t].written = w.g[t].written
          /\ v.g[t].given = w.g[t].given /\ v.g[t].buffer = w.g[t].buffer
      BY DEF Without
    <2>2. \A j \in w.g[t].completions : j \in DOMAIN w.cs
      BY DEF Sound, StreamOK
    <2>3. \A j \in v.g[t].completions : j \in DOMAIN v.cs /\ v.cs[j] = w.cs[j]
      BY <2>1, <2>2 DEF Without
    <2>4. \A type : Of(v, t, type) = Of(w, t, type) \ {i}
      BY <2>1, <2>3 DEF Of
    <2> QED  BY <2>1, <2>3, <2>4
  <1>5. ASSUME NEW t \in Alive(w) PROVE StreamOK(v, t)
    <2>1. StreamOK(w, t)
      BY DEF Sound
    <2>2. \A j \in v.g[t].completions : j \in DOMAIN v.cs /\ v.cs[j].stream = t
      BY <1>4, <2>1 DEF StreamOK
    <2>3. /\ AtMostOne(Of(v, t, "Read")) /\ AtMostOne(Of(v, t, "Write"))
          /\ Of(v, t, "Write") # {} => v.g[t].active
          /\ Of(v, t, "Finish") # {} => v.g[t].finished /\ Of(v, t, "Read") = {}
          /\ BesideFinish(v, t, v.g[t].call)
      BY <1>4, <2>1 DEF StreamOK, AtMostOne, BesideFinish
    <2>4. v.g[t].finished => \A j \in Of(v, t, "Read") : v.cs[j].callback = "Cancelled"
      <3>1. ASSUME v.g[t].finished, NEW j \in Of(v, t, "Read")
            PROVE  v.cs[j].callback = "Cancelled"
        <4>1. j \in v.g[t].completions /\ j \in Of(w, t, "Read") /\ w.g[t].finished
          BY <1>4, <3>1 DEF Of
        <4>2. w.cs[j].callback = "Cancelled"
          BY <2>1, <4>1 DEF StreamOK
        <4> QED  BY <1>4, <4>1, <4>2
      <3> QED  BY <3>1
    <2>5. \A j \in v.g[t].completions :
             v.cs[j].callback = "FinishAndNotify" => v.g[t].call = "ended"
      BY <1>4, <2>1 DEF StreamOK
    <2>6. /\ v.g[t].finished => v.g[t].call # "open"
          /\ v.g[t].call = "cancelled" => v.g[t].finished
          /\ InOrder(v.g[t])
      BY <1>4, <2>1 DEF StreamOK, InOrder
    <2> QED  BY <2>2, <2>3, <2>4, <2>5, <2>6 DEF StreamOK
  <1>6. Sound(v, H \ {i})
    BY <1>1, <1>3, <1>5 DEF Sound
  <1>7. \A t \in Alive(w) :
           /\ HasRead(w, t) /\ i \notin Of(w, t, "Read") => HasRead(v, t)
           /\ Uncancelled(w, t) => Uncancelled(v, t)
    BY <1>4 DEF HasRead, Uncancelled
  <1> QED  BY <1>4, <1>6, <1>7 DEF ListsLeft

\* RunTask's world without the completion i
Gone(w, i) == [w EXCEPT !.cs = [j \in DOMAIN @ \ {i} |-> @[j]]]

\* A cancelled completion of a stream that does not list it just goes.
LEMMA GoneSound ==
    ASSUME NEW w, NEW H, Sound(w, H), NEW i \in DOMAIN w.cs, NEW v, v = Gone(w, i),
           \A t \in Alive(w) : i \notin w.g[t].completions
    PROVE  Without(w, v, i)
  <1>1. IsWorld(w) /\ w.g \in [Stream -> GrpcStream \cup {Nothing}]
    BY DEF Sound, IsWorld
  <1>2. PICK cs : cs = [j \in DOMAIN w.cs \ {i} |-> w.cs[j]]
    OBVIOUS
  <1>3. v = [g |-> w.g, cs |-> cs, ok |-> TRUE]
    <2>1. v = [w EXCEPT !.cs = cs]
      BY <1>2 DEF Gone
    <2> QED  BY <1>1, <2>1, NewCompletions
  <1>4. v.g = w.g /\ v.cs = cs
    BY <1>3
  <1>5. /\ DOMAIN cs = DOMAIN w.cs \ {i} /\ (\A j \in DOMAIN cs : cs[j] = w.cs[j])
        /\ cs \in [DOMAIN w.cs \ {i} -> Completion]
    BY <1>1, <1>2 DEF IsWorld
  <1>6. IsWorld(v)
    <2>1. v \in [g: [Stream -> GrpcStream \cup {Nothing}], cs: {v.cs}, ok: {TRUE}]
      BY <1>1, <1>3, <1>4
    <2>2. IsFiniteSet(DOMAIN w.cs \ {i})
      BY <1>1, FS_RemoveElement DEF IsWorld
    <2> QED  BY <1>1, <1>4, <1>5, <2>1, <2>2 DEF IsWorld
  <1>7. Alive(v) = Alive(w)
    BY <1>4 DEF Alive
  <1> QED  BY <1>4, <1>5, <1>6, <1>7 DEF Without

\* RunTask's world when the completion i has been taken off its stream's list
Ran(w, i) ==
    LET s == w.cs[i].stream
    IN [HardAssert(Gone(w, i), i \in w.g[s].completions) EXCEPT !.g[s].completions = @ \ {i}]

\* A completion that runs is on the list of its stream.
LEMMA RanSound ==
    ASSUME NEW w, NEW H, Sound(w, H), NEW i \in DOMAIN w.cs, NEW v, v = Ran(w, i),
           w.cs[i].callback # "Cancelled"
    PROVE  /\ Without(w, v, i) /\ w.cs[i].stream \in Alive(w)
           /\ i \in w.g[w.cs[i].stream].completions
  <1>1. IsWorld(w) /\ w.g \in [Stream -> GrpcStream \cup {Nothing}]
    BY DEF Sound, IsWorld
  <1>2. Owned(w, i) /\ w.cs[i].stream \in Alive(w)
    BY DEF Sound, CompletionOK, Owned
  <1>3. PICK s \in Alive(w) : s = w.cs[i].stream
    BY <1>2
  <1>4. i \in w.g[s].completions /\ s \in Stream /\ w.g[s] \in GrpcStream
    BY <1>1, <1>2, <1>3 DEF Owned, Alive
  <1>5. PICK cs : cs = [j \in DOMAIN w.cs \ {i} |-> w.cs[j]]
    OBVIOUS
  <1>6. /\ DOMAIN cs = DOMAIN w.cs \ {i} /\ (\A j \in DOMAIN cs : cs[j] = w.cs[j])
        /\ cs \in [DOMAIN w.cs \ {i} -> Completion]
    BY <1>1, <1>5 DEF IsWorld
  <1>7. PICK x : x = Gone(w, i)
    OBVIOUS
  <1>8. x = [g |-> w.g, cs |-> cs, ok |-> TRUE]
    <2>1. x = [w EXCEPT !.cs = cs]
      BY <1>5, <1>7 DEF Gone
    <2> QED  BY <1>1, <2>1, NewCompletions
  <1>9. PICK r : r = [w.g[s] EXCEPT !.completions = w.g[s].completions \ {i}]
    OBVIOUS
  <1>10. /\ r \in GrpcStream /\ r.completions = w.g[s].completions \ {i}
         /\ r.finished = w.g[s].finished /\ r.call = w.g[s].call
         /\ r.active = w.g[s].active /\ r.written = w.g[s].written
         /\ r.given = w.g[s].given /\ r.buffer = w.g[s].buffer
    BY <1>4, <1>9 DEF GrpcStream
  <1>11. v = [g |-> [w.g EXCEPT ![s] = r], cs |-> cs, ok |-> TRUE]
    <2>1. HardAssert(x, i \in w.g[s].completions) = x
      <3>1. PICK A, B : x \in [g: A, cs: B, ok: {TRUE}]
        <4>1. x \in [g: {w.g}, cs: {cs}, ok: {TRUE}]
          BY <1>8
        <4> QED  BY <4>1
      <3>2. [x EXCEPT !.ok = TRUE] = x
        BY <3>1
      <3>3. (x.ok /\ i \in w.g[s].completions) = TRUE
        BY <1>4, <3>1
      <3> QED  BY <3>2, <3>3 DEF HardAssert
    <2>2. v = [x EXCEPT !.g = [x.g EXCEPT ![s] = [x.g[s] EXCEPT
                                                    !.completions = x.g[s].completions \ {i}]]]
      BY <1>3, <1>7, <2>1 DEF Ran
    <2>3. x.g = w.g
      BY <1>8
    <2>4. v = [x EXCEPT !.g = [w.g EXCEPT ![s] = r]]
      BY <1>9, <2>2, <2>3
    <2> QED  BY <1>8, <2>4
  <1>12. /\ v.cs = cs /\ v.g = [w.g EXCEPT ![s] = r] /\ v.g[s] = r
         /\ \A t \in Stream \ {s} : v.g[t] = w.g[t]
    BY <1>1, <1>4, <1>11
  <1>13. IsWorld(v)
    <2>1. v.g \in [Stream -> GrpcStream \cup {Nothing}]
      BY <1>1, <1>4, <1>10, <1>12
    <2>2. v \in [g: [Stream -> GrpcStream \cup {Nothing}], cs: {v.cs}, ok: {TRUE}]
      BY <1>11, <1>12, <2>1
    <2>3. IsFiniteSet(DOMAIN w.cs \ {i})
      BY <1>1, FS_RemoveElement DEF IsWorld
    <2> QED  BY <1>1, <1>6, <1>12, <2>2, <2>3 DEF IsWorld
  <1>14. Alive(v) = Alive(w)
    BY <1>4, <1>10, <1>12, NothingAssumption DEF Alive
  <1>15. ASSUME NEW t \in Alive(w)
         PROVE  /\ v.g[t].completions = w.g[t].completions \ {i}
                /\ v.g[t].finished = w.g[t].finished /\ v.g[t].call = w.g[t].call
                /\ v.g[t].active = w.g[t].active /\ v.g[t].written = w.g[t].written
                /\ v.g[t].given = w.g[t].given /\ v.g[t].buffer = w.g[t].buffer
    <2>1. CASE t = s
      BY <1>10, <1>12, <2>1
    <2>2. CASE t # s
      <3>1. v.g[t] = w.g[t]
        BY <1>12, <2>2 DEF Alive
      <3>2. i \notin w.g[t].completions
        BY <1>3, <2>2 DEF Sound, StreamOK
      <3> QED  BY <3>1, <3>2
    <2> QED  BY <2>1, <2>2
  <1> QED  BY <1>3, <1>4, <1>6, <1>12, <1>13, <1>14, <1>15 DEF Without

--------------------------------------------------------------------------------
(* The list of active calls.                                                *)

\* It names each call once.
Names(ac, S) == ac \in Seq(Stream) /\ IsInjective(ac) /\ Range(ac) = S

\* The list r is q without what is at i.
ErasedAt(q, i, r) == r = SubSeq(q, 1, i - 1) \o SubSeq(q, i + 1, Len(q))

ErasedLeaves(S, q, i, r) ==
    /\ r \in Seq(S) /\ Len(r) = Len(q) - 1
    /\ \A k \in 1 .. Len(r) : r[k] = IF k < i THEN q[k] ELSE q[k + 1]

\* What is left when the element at i is erased.
LEMMA Erased ==
    ASSUME NEW S, NEW q \in Seq(S), NEW i \in 1 .. Len(q), NEW r, ErasedAt(q, i, r)
    PROVE  ErasedLeaves(S, q, i, r)
  <1>1. PICK n \in Nat : n = Len(q)
    BY LenProperties
  <1>0. i \in Int /\ 1 <= i /\ i <= n
    BY <1>1
  <1>2. PICK a : a = SubSeq(q, 1, i - 1)
    OBVIOUS
  <1>3. PICK b : b = SubSeq(q, i + 1, n)
    OBVIOUS
  <1>4. a \in Seq(S) /\ Len(a) = i - 1 /\ \A k \in 1 .. (i - 1) : a[k] = q[k]
    <2>1. \A k \in 1 .. (i - 1) : q[k] \in S /\ k \in 1 .. Len(q)
      BY <1>1, ElementOfSeq
    <2> QED  BY <1>1, <1>2, <2>1
  <1>5. b \in Seq(S) /\ Len(b) = n - i /\ \A k \in 1 .. (n - i) : b[k] = q[i + k]
    <2>1. \A k \in (i + 1) .. n : q[k] \in S
      BY <1>1, ElementOfSeq
    <2>2. i + 1 \in Int /\ n \in Int
      BY <1>1
    <2>3. /\ b \in Seq(S)
          /\ Len(b) = IF i + 1 <= n THEN n - (i + 1) + 1 ELSE 0
          /\ \A k \in 1 .. n - (i + 1) + 1 : b[k] = q[(i + 1) + k - 1]
      BY <1>3, <2>1, <2>2, SubSeqProperties, <1>1
    <2>4. /\ n - (i + 1) + 1 = n - i
          /\ i + 1 <= n \/ n - i = 0
          /\ \A k \in 1 .. (n - i) : (i + 1) + k - 1 = i + k
      BY <1>0, <1>1
    <2>5. Len(b) = n - i
      BY <2>3, <2>4
    <2>6. \A k \in 1 .. (n - i) : b[k] = q[i + k]
      BY <2>3, <2>4
    <2> QED  BY <2>3, <2>5, <2>6
  <1>6. r = a \o b
    BY <1>1, <1>2, <1>3 DEF ErasedAt
  <1>7. /\ r \in Seq(S) /\ Len(r) = (i - 1) + (n - i)
        /\ \A k \in 1 .. (i - 1) + (n - i) :
              r[k] = IF k <= i - 1 THEN a[k] ELSE b[k - (i - 1)]
    <2>1. /\ a \o b \in Seq(S) /\ Len(a \o b) = Len(a) + Len(b)
          /\ \A k \in 1 .. Len(a) + Len(b) :
                (a \o b)[k] = IF k <= Len(a) THEN a[k] ELSE b[k - Len(a)]
      <3>1. a \in Seq(S) /\ b \in Seq(S)
        BY <1>4, <1>5
      <3> QED  BY <3>1, ConcatProperties
    <2> QED  BY <1>4, <1>5, <1>6, <2>1
  <1>8. Len(r) = n - 1
    <2>1. (i - 1) + (n - i) = n - 1
      BY <1>0, <1>1
    <2>2. Len(r) = (i - 1) + (n - i)
      BY <1>7
    <2> QED  BY <2>1, <2>2
  <1>9. ASSUME NEW k \in 1 .. n - 1 PROVE r[k] = IF k < i THEN q[k] ELSE q[k + 1]
    <2>0. k \in 1 .. (i - 1) + (n - i) /\ k \in Int /\ 1 <= k /\ k <= n - 1
      BY <1>0, <1>1
    <2>1. CASE k < i
      <3>1. k <= i - 1 /\ k \in 1 .. (i - 1)
        BY <1>0, <2>0, <2>1
      <3> QED  BY <1>4, <1>7, <2>0, <2>1, <3>1
    <2>2. CASE ~(k < i)
      <3>1. PICK j \in Int : j = k - (i - 1)
        BY <1>0, <2>0
      <3>2. ~(k <= i - 1) /\ j \in 1 .. (n - i) /\ i + j = k + 1
        BY <1>0, <2>0, <2>2, <3>1
      <3>3. r[k] = b[j]
        BY <1>7, <2>0, <3>1, <3>2
      <3>4. b[j] = q[k + 1]
        BY <1>5, <3>2
      <3> QED  BY <2>2, <3>3, <3>4
    <2> QED  BY <2>1, <2>2
  <1> QED  BY <1>1, <1>7, <1>8, <1>9 DEF ErasedLeaves

\* A call is unregistered: the others are named as before.
LEMMA UnregisteredNames ==
    ASSUME NEW S, NEW ac, Names(ac, S), NEW s \in S, NEW i \in DOMAIN ac, ac[i] = s,
           NEW r, ErasedAt(ac, i, r)
    PROVE  Names(r, S \ {s})
  <1>1. ac \in Seq(Stream) /\ DOMAIN ac = 1 .. Len(ac) /\ Len(ac) \in Nat
    BY LenProperties DEF Names
  <1>2. PICK n \in Nat : n = Len(ac)
    BY <1>1
  <1>3. i \in 1 .. Len(ac)
    BY <1>1
  <1>4. /\ r \in Seq(Stream) /\ Len(r) = Len(ac) - 1
        /\ \A k \in 1 .. Len(r) : r[k] = IF k < i THEN ac[k] ELSE ac[k + 1]
    <2>1. ErasedLeaves(Stream, ac, i, r)
      BY <1>1, <1>3, Erased
    <2> QED  BY <2>1 DEF ErasedLeaves
  <1>5. DOMAIN r = 1 .. (n - 1)
    BY <1>2, <1>4, LenProperties
  <1>6. \A k, l \in 1 .. n : ac[k] = ac[l] => k = l
    BY <1>1, <1>2 DEF Names, IsInjective
  <1>7. \A k \in 1 .. (n - 1) : r[k] = IF k < i THEN ac[k] ELSE ac[k + 1]
    BY <1>2, <1>4
  <1>8. IsInjective(r)
    <2>1. ASSUME NEW k \in 1 .. (n - 1), NEW l \in 1 .. (n - 1), r[k] = r[l] PROVE k = l
      <3>1. k \in 1 .. n /\ l \in 1 .. n /\ k + 1 \in 1 .. n /\ l + 1 \in 1 .. n
        BY <1>2
      <3>2. CASE k < i /\ l < i
        BY <1>6, <1>7, <2>1, <3>1, <3>2
      <3>3. CASE ~(k < i) /\ ~(l < i)
        <4>1. k + 1 = l + 1
          BY <1>6, <1>7, <2>1, <3>1, <3>3
        <4> QED  BY <4>1
      <3>4. CASE k < i /\ ~(l < i)
        <4>1. k = l + 1
          BY <1>6, <1>7, <2>1, <3>1, <3>4
        <4> QED  BY <3>4, <4>1, <1>2, <1>3
      <3>5. CASE ~(k < i) /\ l < i
        <4>1. l = k + 1
          BY <1>6, <1>7, <2>1, <3>1, <3>5
        <4> QED  BY <3>5, <4>1, <1>2, <1>3
      <3> QED  BY <3>2, <3>3, <3>4, <3>5
    <2> QED  BY <1>5, <2>1 DEF IsInjective
  <1>9. \A t \in Range(r) : t \in S \ {s}
    <2>1. ASSUME NEW k \in 1 .. (n - 1) PROVE r[k] \in S \ {s}
      <3>1. PICK l \in 1 .. n : r[k] = ac[l] /\ l # i
        <4>1. k \in 1 .. n /\ k + 1 \in 1 .. n
          BY <1>2
        <4>2. CASE k < i
          <5>1. r[k] = ac[k] /\ k # i
            BY <1>2, <1>3, <1>7, <4>2
          <5> QED  BY <4>1, <5>1
        <4>3. CASE ~(k < i)
          <5>1. r[k] = ac[k + 1] /\ k + 1 # i
            BY <1>2, <1>3, <1>7, <4>3
          <5> QED  BY <4>1, <5>1
        <4> QED  BY <4>2, <4>3
      <3>2. ac[l] # ac[i]
        BY <1>2, <1>3, <1>6, <3>1
      <3>3. ac[l] \in S
        BY <1>1, <1>2 DEF Names, Range
      <3> QED  BY <3>1, <3>2, <3>3
    <2> QED  BY <1>5, <2>1 DEF Range
  <1>10. \A t \in S \ {s} : t \in Range(r)
    <2>1. ASSUME NEW t \in S \ {s} PROVE \E k \in 1 .. (n - 1) : r[k] = t
      <3>1. PICK l \in 1 .. n : ac[l] = t /\ l # i
        BY <1>1, <1>2 DEF Names, Range
      <3>2. CASE l < i
        <4>1. l \in 1 .. (n - 1)
          BY <1>2, <1>3, <3>2
        <4> QED  BY <1>7, <3>1, <3>2, <4>1
      <3>3. CASE ~(l < i)
        <4>1. l - 1 \in 1 .. (n - 1) /\ ~(l - 1 < i) /\ (l - 1) + 1 = l
          BY <1>2, <1>3, <3>1, <3>3
        <4>2. r[l - 1] = t
          BY <1>7, <3>1, <4>1
        <4> QED  BY <4>1, <4>2
      <3> QED  BY <3>2, <3>3
    <2> QED  BY <1>5, <2>1 DEF Range
  <1> QED  BY <1>4, <1>8, <1>9, <1>10 DEF Names

\* A new call is registered.
LEMMA RegisteredNames ==
    ASSUME NEW S, NEW ac, Names(ac, S), NEW s \in Stream, s \notin S, NEW r, r = Append(ac, s)
    PROVE  Names(r, S \cup {s})
  <1>1. /\ ac \in Seq(Stream) /\ DOMAIN ac = 1 .. Len(ac) /\ Len(ac) \in Nat
        /\ r \in Seq(Stream) /\ Len(r) = Len(ac) + 1 /\ DOMAIN r = 1 .. Len(r)
        /\ \A k \in 1 .. Len(r) : r[k] = IF k = Len(ac) + 1 THEN s ELSE ac[k]
    BY LenProperties, AppendProperties DEF Names
  <1>2. PICK n \in Nat : n = Len(ac)
    BY <1>1
  <1>3. /\ DOMAIN ac = 1 .. n /\ DOMAIN r = 1 .. (n + 1) /\ r[n + 1] = s
        /\ \A k \in 1 .. n : r[k] = ac[k] /\ ac[k] # s
    <2>1. \A k \in 1 .. n : ac[k] # s
      BY <1>1, <1>2 DEF Names, Range
    <2> QED  BY <1>1, <1>2, <2>1
  <1>4. \A k, l \in 1 .. n : ac[k] = ac[l] => k = l
    BY <1>3 DEF Names, IsInjective
  <1>5. IsInjective(r)
    <2>1. ASSUME NEW k \in 1 .. (n + 1), NEW l \in 1 .. (n + 1), r[k] = r[l] PROVE k = l
      <3>1. CASE k \in 1 .. n /\ l \in 1 .. n
        BY <1>3, <1>4, <2>1, <3>1
      <3>2. CASE ~(k \in 1 .. n /\ l \in 1 .. n)
        BY <1>3, <2>1, <3>2
      <3> QED  BY <3>1, <3>2
    <2> QED  BY <1>3, <2>1 DEF IsInjective
  <1>6. Range(r) = Range(ac) \cup {s}
    <2>1. \A t \in Range(r) : t \in Range(ac) \cup {s}
      BY <1>3 DEF Range
    <2>2. \A k \in 1 .. n : k \in 1 .. (n + 1)
      OBVIOUS
    <2>3. \A t \in Range(ac) \cup {s} : t \in Range(r)
      BY <1>3, <2>2 DEF Range
    <2> QED  BY <2>1, <2>3
  <1> QED  BY <1>1, <1>5, <1>6 DEF Names

--------------------------------------------------------------------------------
(* The queues between gRPC, the polling thread and the worker queue.        *)

Ids(q) == {q[k].id : k \in DOMAIN q}

Distinct(q) == \A k, l \in DOMAIN q : q[k].id = q[l].id => k = l

\* The completions gRPC has handed back
Back(po, ts) == Ids(ts) \cup {i \in Id : po # Nothing /\ po.id = i}

\* An operation has failed because its call is over
Known(w, r) ==
    ~r.ok /\ w.cs[r.id].stream # Nothing => w.g[w.cs[r.id].stream].call # "open"

AllKnown(w, q) == \A k \in DOMAIN q : Known(w, q[k])

\* A completion is in one of the queues, once
QueuesOK(w, gq, po, ts) ==
    /\ gq \in Seq(Outcome) /\ ts \in Seq(Outcome) /\ po \in Outcome \cup {Nothing}
    /\ Ids(gq) \subseteq DOMAIN w.cs /\ Back(po, ts) \subseteq DOMAIN w.cs
    /\ Distinct(gq) /\ Distinct(ts)
    /\ Ids(gq) \cap Back(po, ts) = {}
    /\ po # Nothing => po.id \notin Ids(ts)
    /\ AllKnown(w, gq) /\ AllKnown(w, ts) /\ (po # Nothing => Known(w, po))

\* What is left of a queue when its head is taken.
LEMMA TailOfQueue ==
    ASSUME NEW q \in Seq(Outcome), q # <<>>, Distinct(q), NEW w
    PROVE  /\ Head(q) \in Outcome /\ Tail(q) \in Seq(Outcome) /\ Distinct(Tail(q))
           /\ Ids(Tail(q)) = Ids(q) \ {Head(q).id} /\ Head(q).id \in Ids(q)
           /\ AllKnown(w, q) => Known(w, Head(q)) /\ AllKnown(w, Tail(q))
  <1>1. PICK n \in Nat : n = Len(q)
    BY LenProperties
  <1>2. /\ DOMAIN q = 1 .. n /\ n >= 1 /\ Head(q) = q[1] /\ q[1] \in Outcome
        /\ Tail(q) \in Seq(Outcome) /\ DOMAIN Tail(q) = 1 .. (n - 1)
        /\ \A k \in 1 .. (n - 1) : Tail(q)[k] = q[k + 1] /\ k + 1 \in 1 .. n
    <2>1. DOMAIN q = 1 .. n
      BY <1>1, LenProperties
    <2>2. n >= 1
      BY <1>1, EmptySeq
    <2>3. Tail(q) \in Seq(Outcome) /\ Len(Tail(q)) = n - 1
          /\ \A k \in 1 .. (n - 1) : Tail(q)[k] = q[k + 1]
      BY <1>1, HeadTailProperties
    <2>4. Head(q) = q[1]
      OBVIOUS
    <2>5. q[1] \in Outcome
      BY <1>1, <2>2, ElementOfSeq
    <2>6. DOMAIN Tail(q) = 1 .. (n - 1)
      BY <2>3, LenProperties
    <2>7. \A k \in 1 .. (n - 1) : k + 1 \in 1 .. n
      OBVIOUS
    <2> QED  BY <2>1, <2>2, <2>3, <2>4, <2>5, <2>6, <2>7
  <1>3. \A k, l \in 1 .. n : q[k].id = q[l].id => k = l
    BY <1>2 DEF Distinct
  <1>4. Distinct(Tail(q))
    <2>1. ASSUME NEW k \in 1 .. (n - 1), NEW l \in 1 .. (n - 1), Tail(q)[k].id = Tail(q)[l].id
          PROVE  k = l
      <3>1. k + 1 = l + 1
        BY <1>2, <1>3, <2>1
      <3> QED  BY <3>1
    <2> QED  BY <1>2, <2>1 DEF Distinct
  <1>5. Ids(Tail(q)) = Ids(q) \ {Head(q).id}
    <2>1. ASSUME NEW i \in Ids(Tail(q)) PROVE i \in Ids(q) \ {q[1].id}
      <3>1. PICK k \in 1 .. (n - 1) : i = Tail(q)[k].id
        BY <1>2 DEF Ids
      <3>2. i = q[k + 1].id /\ k + 1 \in 1 .. n /\ k + 1 # 1 /\ 1 \in 1 .. n
        BY <1>2, <3>1
      <3>3. i # q[1].id
        BY <1>3, <3>2
      <3> QED  BY <1>2, <3>2, <3>3 DEF Ids
    <2>2. ASSUME NEW i \in Ids(q), i # q[1].id PROVE i \in Ids(Tail(q))
      <3>1. PICK k \in 1 .. n : i = q[k].id
        BY <1>2 DEF Ids
      <3>2. PICK l \in 1 .. (n - 1) : l + 1 = k
        <4>1. k # 1 /\ k - 1 \in 1 .. (n - 1) /\ (k - 1) + 1 = k
          BY <2>2, <3>1
        <4> QED  BY <4>1
      <3>3. i = Tail(q)[l].id
        BY <1>2, <3>1, <3>2
      <3> QED  BY <1>2, <3>3 DEF Ids
    <2> QED  BY <1>2, <2>1, <2>2
  <1>6. Head(q).id \in Ids(q)
    BY <1>2 DEF Ids
  <1>7. AllKnown(w, q) => Known(w, Head(q)) /\ AllKnown(w, Tail(q))
    <2> SUFFICES ASSUME \A k \in 1 .. n : Known(w, q[k])
                 PROVE  Known(w, q[1]) /\ \A k \in 1 .. (n - 1) : Known(w, Tail(q)[k])
      BY <1>2 DEF AllKnown
    <2>1. \A k \in 1 .. (n - 1) : Known(w, q[k + 1]) /\ Tail(q)[k] = q[k + 1]
      BY <1>2
    <2>2. \A k \in 1 .. (n - 1) : Known(w, Tail(q)[k])
      BY <2>1
    <2> QED  BY <1>2, <2>2
  <1> QED  BY <1>2, <1>4, <1>5, <1>6, <1>7

\* What a queue is when something is appended.
LEMMA AppendToQueue ==
    ASSUME NEW q \in Seq(Outcome), Distinct(q), NEW r \in Outcome, r.id \notin Ids(q), NEW w
    PROVE  /\ Append(q, r) \in Seq(Outcome) /\ Distinct(Append(q, r))
           /\ Ids(Append(q, r)) = Ids(q) \cup {r.id}
           /\ AllKnown(w, q) /\ Known(w, r) => AllKnown(w, Append(q, r))
  <1>1. PICK n \in Nat : n = Len(q)
    BY LenProperties
  <1>2. PICK p : p = Append(q, r)
    OBVIOUS
  <1>3. /\ p \in Seq(Outcome) /\ DOMAIN q = 1 .. n /\ DOMAIN p = 1 .. (n + 1)
        /\ p[n + 1] = r /\ \A k \in 1 .. n : p[k] = q[k]
    BY <1>1, <1>2, LenProperties, AppendProperties
  <1>4. \A k \in 1 .. (n + 1) : k \in 1 .. n \/ k = n + 1
    OBVIOUS
  <1>5. \A k \in 1 .. n : k \in 1 .. (n + 1)
    OBVIOUS
  <1>6. \A k \in 1 .. n : p[k].id # r.id
    BY <1>3 DEF Ids
  <1>7. Distinct(p)
    <2>1. \A k, l \in 1 .. n : q[k].id = q[l].id => k = l
      BY <1>3 DEF Distinct
    <2> QED  BY <1>3, <1>4, <1>6, <2>1 DEF Distinct
  <1>8. Ids(p) = Ids(q) \cup {r.id}
    <2>1. \A i \in Ids(p) : i \in Ids(q) \cup {r.id}
      BY <1>3, <1>4 DEF Ids
    <2>2. n + 1 \in 1 .. (n + 1)
      OBVIOUS
    <2>3. \A i \in Ids(q) \cup {r.id} : i \in Ids(p)
      BY <1>3, <1>5, <2>2 DEF Ids
    <2> QED  BY <2>1, <2>3
  <1>9. AllKnown(w, q) /\ Known(w, r) => AllKnown(w, p)
    BY <1>3, <1>4 DEF AllKnown
  <1> QED  BY <1>2, <1>3, <1>7, <1>8, <1>9

\* What the streams do leaves the queues alone.
LEMMA QueuesLater ==
    ASSUME NEW w, NEW v, NEW gq, NEW po, NEW ts, QueuesOK(w, gq, po, ts), Later(w, v)
    PROVE  QueuesOK(v, gq, po, ts)
  <1>1. \A r \in Outcome : r.id \in DOMAIN w.cs /\ Known(w, r) => Known(v, r)
    BY DEF Known, Later
  <1>2. DOMAIN w.cs \subseteq DOMAIN v.cs
    BY DEF Later
  <1>3. gq \in Seq(Outcome) /\ ts \in Seq(Outcome) /\ po \in Outcome \cup {Nothing}
    BY DEF QueuesOK
  <1>4. ASSUME NEW q \in Seq(Outcome), Ids(q) \subseteq DOMAIN w.cs, AllKnown(w, q)
        PROVE  AllKnown(v, q)
    <2>1. ASSUME NEW k \in DOMAIN q PROVE Known(v, q[k])
      <3>1. q[k] \in Outcome
        BY LenProperties, ElementOfSeq
      <3>2. q[k].id \in DOMAIN w.cs
        BY <1>4 DEF Ids
      <3> QED  BY <1>1, <1>4, <3>1, <3>2 DEF AllKnown
    <2> QED  BY <2>1 DEF AllKnown
  <1>5. AllKnown(v, gq)
    BY <1>3, <1>4 DEF QueuesOK
  <1>6. AllKnown(v, ts)
    <2>1. Ids(ts) \subseteq DOMAIN w.cs
      BY DEF QueuesOK, Back
    <2> QED  BY <1>3, <1>4, <2>1 DEF QueuesOK
  <1>7. po # Nothing => Known(v, po)
    <2>1. ASSUME po # Nothing PROVE po \in Outcome /\ po.id \in DOMAIN w.cs /\ Known(w, po)
      <3>1. po \in Outcome /\ po.id \in Id
        BY <1>3, <2>1 DEF Outcome
      <3> QED  BY <2>1, <3>1 DEF QueuesOK, Back
    <2> QED  BY <1>1, <2>1
  <1> QED  BY <1>2, <1>3, <1>5, <1>6, <1>7 DEF QueuesOK

\* The polling thread takes a completion.
LEMMA PolledQueues ==
    ASSUME NEW w, NEW gq, NEW ts, QueuesOK(w, gq, Nothing, ts), gq # <<>>
    PROVE  /\ QueuesOK(w, Tail(gq), Head(gq), ts)
           /\ Back(Nothing, ts) \subseteq Back(Head(gq), ts)
  <1>1. gq \in Seq(Outcome) /\ Distinct(gq) /\ AllKnown(w, gq)
    BY DEF QueuesOK
  <1>2. /\ Head(gq) \in Outcome /\ Tail(gq) \in Seq(Outcome) /\ Distinct(Tail(gq))
        /\ Ids(Tail(gq)) = Ids(gq) \ {Head(gq).id} /\ Head(gq).id \in Ids(gq)
        /\ Known(w, Head(gq)) /\ AllKnown(w, Tail(gq))
    BY <1>1, TailOfQueue
  <1>3. Head(gq) # Nothing /\ Head(gq).id \in Id
    BY <1>2, NothingAssumption DEF Outcome
  <1>4. /\ Back(Nothing, ts) = Ids(ts)
        /\ Back(Head(gq), ts) = Ids(ts) \cup {Head(gq).id}
    BY <1>3 DEF Back
  <1>5. /\ Head(gq).id \notin Ids(ts)
        /\ Ids(gq) \subseteq DOMAIN w.cs /\ Ids(ts) \subseteq DOMAIN w.cs
        /\ Ids(gq) \cap Ids(ts) = {}
        /\ ts \in Seq(Outcome) /\ Distinct(ts) /\ AllKnown(w, ts)
    BY <1>2, <1>4 DEF QueuesOK
  <1> QED  BY <1>2, <1>3, <1>4, <1>5 DEF QueuesOK

\* It enqueues the callback.
LEMMA EnqueuedQueues ==
    ASSUME NEW w, NEW gq, NEW po, NEW ts, QueuesOK(w, gq, po, ts), po # Nothing
    PROVE  /\ QueuesOK(w, gq, Nothing, Append(ts, po))
           /\ Back(Nothing, Append(ts, po)) = Back(po, ts)
  <1>1. /\ ts \in Seq(Outcome) /\ Distinct(ts) /\ AllKnown(w, ts) /\ Known(w, po)
        /\ po \in Outcome /\ po.id \notin Ids(ts) /\ po.id \in Id
    BY DEF QueuesOK, Outcome
  <1>2. /\ Append(ts, po) \in Seq(Outcome) /\ Distinct(Append(ts, po))
        /\ Ids(Append(ts, po)) = Ids(ts) \cup {po.id}
        /\ AllKnown(w, Append(ts, po))
    BY <1>1, AppendToQueue
  <1>3. /\ Back(Nothing, Append(ts, po)) = Ids(ts) \cup {po.id}
        /\ Back(po, ts) = Ids(ts) \cup {po.id}
    BY <1>1, <1>2 DEF Back
  <1>4. /\ gq \in Seq(Outcome) /\ Ids(gq) \subseteq DOMAIN w.cs /\ Distinct(gq)
        /\ AllKnown(w, gq) /\ Back(po, ts) \subseteq DOMAIN w.cs
        /\ Ids(gq) \cap Back(po, ts) = {}
    BY DEF QueuesOK
  <1> QED  BY <1>2, <1>3, <1>4 DEF QueuesOK

\* gRPC has finished an operation.
LEMMA ResultQueues ==
    ASSUME NEW w, NEW gq, NEW po, NEW ts, QueuesOK(w, gq, po, ts), NEW r \in Outcome,
           r.id \in DOMAIN w.cs, r.id \notin Ids(gq), r.id \notin Back(po, ts), Known(w, r)
    PROVE  QueuesOK(w, Append(gq, r), po, ts)
  <1>1. gq \in Seq(Outcome) /\ Distinct(gq) /\ AllKnown(w, gq)
    BY DEF QueuesOK
  <1>2. /\ Append(gq, r) \in Seq(Outcome) /\ Distinct(Append(gq, r))
        /\ Ids(Append(gq, r)) = Ids(gq) \cup {r.id}
        /\ AllKnown(w, Append(gq, r))
    BY <1>1, AppendToQueue
  <1>3. Ids(gq) \cap Back(po, ts) = {} /\ Ids(gq) \subseteq DOMAIN w.cs
    BY DEF QueuesOK
  <1> QED  BY <1>2, <1>3 DEF QueuesOK

\* The worker queue has run a callback.
LEMMA RunQueues ==
    ASSUME NEW w, NEW gq, NEW po, NEW ts, QueuesOK(w, gq, po, ts), ts # <<>>,
           NEW H, Sound(w, H), NEW v, Without(w, v, Head(ts).id)
    PROVE  /\ QueuesOK(v, gq, po, Tail(ts))
           /\ Back(po, Tail(ts)) = Back(po, ts) \ {Head(ts).id}
  <1>1. /\ ts \in Seq(Outcome) /\ Distinct(ts) /\ AllKnown(w, ts)
        /\ gq \in Seq(Outcome) /\ Distinct(gq) /\ AllKnown(w, gq)
        /\ po \in Outcome \cup {Nothing} /\ (po # Nothing => Known(w, po))
    BY DEF QueuesOK
  <1>2. PICK i : i = Head(ts).id
    OBVIOUS
  <1>3. /\ Tail(ts) \in Seq(Outcome) /\ Distinct(Tail(ts))
        /\ Ids(Tail(ts)) = Ids(ts) \ {i} /\ i \in Ids(ts) /\ AllKnown(w, Tail(ts))
    BY <1>1, <1>2, TailOfQueue
  <1>4. /\ po # Nothing => po.id \notin Ids(ts) /\ po.id \in Back(po, ts)
        /\ i \in Back(po, ts)
    BY <1>1, <1>3 DEF QueuesOK, Back, Outcome
  <1>5. Back(po, Tail(ts)) = Back(po, ts) \ {i}
    BY <1>3, <1>4 DEF Back
  <1>6. DOMAIN v.cs = DOMAIN w.cs \ {i}
    BY <1>2 DEF Without
  <1>7. /\ Ids(gq) \subseteq DOMAIN v.cs /\ Back(po, Tail(ts)) \subseteq DOMAIN v.cs
        /\ Ids(gq) \cap Back(po, Tail(ts)) = {}
        /\ po # Nothing => po.id \notin Ids(Tail(ts))
    BY <1>3, <1>4, <1>5, <1>6 DEF QueuesOK
  <1>8. \A r \in Outcome : r.id \in DOMAIN v.cs /\ Known(w, r) => Known(v, r)
    <2>1. ASSUME NEW r \in Outcome, r.id \in DOMAIN v.cs, Known(w, r), ~r.ok,
                 v.cs[r.id].stream # Nothing
          PROVE  v.g[v.cs[r.id].stream].call # "open"
      <3>1. v.cs[r.id] = w.cs[r.id] /\ r.id \in DOMAIN w.cs
        BY <1>6, <2>1 DEF Without
      <3>2. w.cs[r.id].stream \in Alive(w)
        BY <2>1, <3>1 DEF Sound, CompletionOK
      <3>3. v.g[w.cs[r.id].stream].call = w.g[w.cs[r.id].stream].call
        BY <3>2 DEF Without
      <3> QED  BY <2>1, <3>1, <3>3 DEF Known
    <2> QED  BY <2>1 DEF Known
  <1>9. ASSUME NEW q \in Seq(Outcome), Ids(q) \subseteq DOMAIN v.cs, AllKnown(w, q)
        PROVE  AllKnown(v, q)
    <2>1. ASSUME NEW k \in DOMAIN q PROVE Known(v, q[k])
      <3>1. q[k] \in Outcome
        BY LenProperties, ElementOfSeq
      <3>2. q[k].id \in DOMAIN v.cs
        BY <1>9 DEF Ids
      <3> QED  BY <1>8, <1>9, <3>1, <3>2 DEF AllKnown
    <2> QED  BY <2>1 DEF AllKnown
  <1>10. AllKnown(v, gq)
    BY <1>1, <1>7, <1>9
  <1>11. AllKnown(v, Tail(ts))
    <2>1. Ids(Tail(ts)) \subseteq DOMAIN v.cs
      BY <1>7 DEF Back
    <2> QED  BY <1>3, <1>9, <2>1
  <1>12. po # Nothing => Known(v, po)
    <2>1. ASSUME po # Nothing PROVE po \in Outcome /\ po.id \in DOMAIN v.cs
      <3>1. po.id \in Id
        BY <1>1, <2>1 DEF Outcome
      <3> QED  BY <1>1, <1>7, <2>1, <3>1 DEF Back
    <2> QED  BY <1>1, <1>8, <2>1
  <1> QED  BY <1>1, <1>2, <1>3, <1>5, <1>7, <1>10, <1>11, <1>12 DEF QueuesOK

\* What has been handed back stays so.
LEMMA SoundMore ==
    ASSUME NEW w, NEW H, NEW G, Sound(w, H), H \subseteq G
    PROVE  Sound(w, G)
  BY DEF Sound, CompletionOK

--------------------------------------------------------------------------------
(* The invariant.                                                           *)

\* The worker queue waits for the list of the first of its streams, ...
Waiting(wk) == wk.at \in {"failing", "cancelling", "finishing"}

\* ... which it is about to destroy
Leaving(wk) == wk.at \in {"cancelling", "finishing"}

Targets(w, ss) ==
    ss \in Seq(Stream) /\ ss # <<>> /\ IsInjective(ss) /\ Range(ss) \subseteq Alive(w)

WorkerOK(w, wk) ==
    \/ wk = Idle
    \/ /\ wk \in [at: {"lastWrite", "failing", "cancelling", "finishing"}, streams: Seq(Stream)]
       /\ Targets(w, wk.streams)
       /\ Waiting(wk) => /\ AllCancelled(w, Head(wk.streams))
                         /\ w.g[Head(wk.streams)].finished
       /\ wk.at = "failing" => w.g[Head(wk.streams)].call = "ended"

RegisteredOK(w, wk, ac) ==
    Names(ac, Alive(w) \ {s \in Stream : Leaving(wk) /\ s = Head(wk.streams)})

UncancelledOK(w, wk) ==
    \A s \in Alive(w) : ~(Waiting(wk) /\ s = Head(wk.streams)) => Uncancelled(w, s)

Inv(w, gq, po, ts, wk, ac) ==
    /\ Sound(w, Back(po, ts)) /\ \A s \in Alive(w) : HasRead(w, s)
    /\ QueuesOK(w, gq, po, ts)
    /\ WorkerOK(w, wk) /\ RegisteredOK(w, wk, ac) /\ UncancelledOK(w, wk)

\* What it says when the worker queue waits for nothing
IdleInv(w, gq, po, ts, ac) ==
    /\ Sound(w, Back(po, ts)) /\ \A s \in Alive(w) : HasRead(w, s) /\ Uncancelled(w, s)
    /\ QueuesOK(w, gq, po, ts) /\ Names(ac, Alive(w))

\* When the worker queue waits for nothing the invariant is IdleInv.
LEMMA IdleIs ==
    ASSUME NEW w, NEW gq, NEW po, NEW ts, NEW ac
    PROVE  Inv(w, gq, po, ts, Idle, ac) <=> IdleInv(w, gq, po, ts, ac)
  <1>1. ~Waiting(Idle) /\ ~Leaving(Idle)
    BY DEF Waiting, Leaving, Idle
  <1>2. WorkerOK(w, Idle)
    BY DEF WorkerOK
  <1>3. UncancelledOK(w, Idle) <=> \A s \in Alive(w) : Uncancelled(w, s)
    BY <1>1 DEF UncancelledOK
  <1>4. Alive(w) \ {s \in Stream : Leaving(Idle) /\ s = Head(Idle.streams)} = Alive(w)
    BY <1>1
  <1>5. RegisteredOK(w, Idle, ac) <=> Names(ac, Alive(w))
    BY <1>4 DEF RegisteredOK
  <1> QED  BY <1>2, <1>3, <1>5 DEF Inv, IdleInv

\* While the last write is under way nothing is cancelled.
LEMMA LastWriteIs ==
    ASSUME NEW w, NEW gq, NEW po, NEW ts, NEW wk, NEW ac, Inv(w, gq, po, ts, wk, ac),
           wk.at = "lastWrite"
    PROVE  IdleInv(w, gq, po, ts, ac) /\ Targets(w, wk.streams)
  <1>1. ~Waiting(wk) /\ ~Leaving(wk) /\ wk # Idle
    BY DEF Waiting, Leaving, Idle
  <1>2. Alive(w) \ {s \in Stream : Leaving(wk) /\ s = Head(wk.streams)} = Alive(w)
    BY <1>1
  <1>3. Names(ac, Alive(w))
    BY <1>2 DEF Inv, RegisteredOK
  <1>4. \A s \in Alive(w) : Uncancelled(w, s)
    BY <1>1 DEF Inv, UncancelledOK
  <1>5. Targets(w, wk.streams)
    BY <1>1 DEF Inv, WorkerOK
  <1> QED  BY <1>3, <1>4, <1>5 DEF Inv, IdleInv

\* Waiting for the last write is like waiting for nothing.
LEMMA LastWriteInv ==
    ASSUME NEW w, NEW gq, NEW po, NEW ts, NEW ac, IdleInv(w, gq, po, ts, ac),
           NEW ss, Targets(w, ss), NEW wk, wk = [at |-> "lastWrite", streams |-> ss]
    PROVE  Inv(w, gq, po, ts, wk, ac)
  <1>1. wk.at = "lastWrite" /\ wk.streams = ss /\ ~Waiting(wk) /\ ~Leaving(wk)
    BY DEF Waiting, Leaving
  <1>2. WorkerOK(w, wk)
    <2>1. ss \in Seq(Stream)
      BY DEF Targets
    <2>2. wk \in [at: {"lastWrite", "failing", "cancelling", "finishing"}, streams: Seq(Stream)]
      BY <2>1
    <2> QED  BY <1>1, <2>2 DEF WorkerOK
  <1>3. Alive(w) \ {s \in Stream : Leaving(wk) /\ s = Head(wk.streams)} = Alive(w)
    BY <1>1
  <1>4. RegisteredOK(w, wk, ac) /\ UncancelledOK(w, wk)
    BY <1>1, <1>3 DEF RegisteredOK, UncancelledOK, IdleInv
  <1> QED  BY <1>2, <1>4 DEF Inv, IdleInv

\* What holds of the streams but s, and of the queues
OthersOK(w, gq, po, ts, s) ==
    /\ QueuesOK(w, gq, po, ts) /\ s \in Alive(w)
    /\ \A t \in Alive(w) \ {s} : HasRead(w, t) /\ Uncancelled(w, t)

\* The stream s goes on.
LEMMA StreamBack ==
    ASSUME NEW w, NEW gq, NEW po, NEW ts, NEW ac, NEW s, OthersOK(w, gq, po, ts, s),
           Names(ac, Alive(w)), NEW v, Sound(v, Back(po, ts)), Step(w, v, s), s \in Alive(v),
           HasRead(v, s), Uncancelled(v, s)
    PROVE  IdleInv(v, gq, po, ts, ac)
  <1>1. QueuesOK(v, gq, po, ts)
    BY QueuesLater DEF OthersOK, Step
  <1>2. Alive(v) = Alive(w)
    BY DEF Step, OthersOK
  <1>3. ASSUME NEW t \in Alive(v) PROVE HasRead(v, t) /\ Uncancelled(v, t)
    <2>1. CASE t = s
      BY <2>1
    <2>2. CASE t # s
      <3>1. t \in Alive(w) \ {s} /\ HasRead(w, t) /\ Uncancelled(w, t)
        BY <1>2, <2>2 DEF OthersOK
      <3> QED  BY <3>1, OthersKept
    <2> QED  BY <2>1, <2>2
  <1> QED  BY <1>1, <1>2, <1>3 DEF IdleInv

\* An operation that keeps the call going keeps the invariant.
LEMMA KeepsOn ==
    ASSUME NEW w, NEW gq, NEW po, NEW ts, NEW ac, IdleInv(w, gq, po, ts, ac),
           NEW s \in Alive(w), NEW v, Keeps(w, Back(po, ts), v, s)
    PROVE  IdleInv(v, gq, po, ts, ac)
  <1>1. HasRead(w, s) /\ Uncancelled(w, s)
    BY DEF IdleInv
  <1>2. /\ Sound(v, Back(po, ts)) /\ Step(w, v, s) /\ s \in Alive(v)
        /\ HasRead(v, s) /\ Uncancelled(v, s)
    BY <1>1 DEF Keeps
  <1>3. OthersOK(w, gq, po, ts, s) /\ Names(ac, Alive(w))
    BY DEF IdleInv, OthersOK
  <1> QED  BY <1>2, <1>3, StreamBack

\* The call of stream s is over, and the worker queue waits for its list.
Blocks(w, gq, po, ts, v, s, ss, at, ac) ==
    /\ QueuesOK(w, gq, po, ts)
    /\ s \in Alive(w) /\ \A t \in Alive(w) \ {s} : HasRead(w, t) /\ Uncancelled(w, t)
    /\ Over(w, Back(po, ts), v, s)
    /\ Targets(w, ss) /\ Head(ss) = s /\ at \in {"failing", "cancelling", "finishing"}
    /\ at = "failing" => v.g[s].call = "ended"
    /\ Names(ac, Alive(w) \ {t \in Stream : at # "failing" /\ t = s})

\* While it waits the invariant holds.
LEMMA NowWaiting ==
    ASSUME NEW w, NEW gq, NEW po, NEW ts, NEW v, NEW s, NEW ss, NEW at, NEW ac,
           Blocks(w, gq, po, ts, v, s, ss, at, ac)
    PROVE  Inv(v, gq, po, ts, [at |-> at, streams |-> ss], ac)
  <1>0. /\ QueuesOK(w, gq, po, ts)
        /\ s \in Alive(w) /\ \A t \in Alive(w) \ {s} : HasRead(w, t) /\ Uncancelled(w, t)
        /\ Over(w, Back(po, ts), v, s)
        /\ Targets(w, ss) /\ Head(ss) = s /\ at \in {"failing", "cancelling", "finishing"}
        /\ at = "failing" => v.g[s].call = "ended"
        /\ Names(ac, Alive(w) \ {t \in Stream : at # "failing" /\ t = s})
    BY DEF Blocks
  <1>1. PICK wk : wk = [at |-> at, streams |-> ss]
    OBVIOUS
  <1>2. /\ wk.at = at /\ wk.streams = ss /\ Waiting(wk)
        /\ Leaving(wk) <=> at # "failing"
    BY <1>0, <1>1 DEF Waiting, Leaving
  <1>3. Sound(v, Back(po, ts)) /\ Step(w, v, s) /\ v.g[s].finished /\ AllCancelled(v, s)
        /\ s \in Alive(v)
    BY <1>0 DEF Over
  <1>4. Alive(v) = Alive(w)
    BY <1>0, <1>3 DEF Step
  <1>5. QueuesOK(v, gq, po, ts)
    BY <1>0, <1>3, QueuesLater DEF Step
  <1>6. \A t \in Alive(v) \ {s} : HasRead(v, t) /\ Uncancelled(v, t)
    BY <1>0, <1>3, <1>4, OthersKept
  <1>7. \A t \in Alive(v) : HasRead(v, t)
    BY <1>3, <1>6 DEF HasRead
  <1>8. UncancelledOK(v, wk)
    BY <1>0, <1>2, <1>6 DEF UncancelledOK
  <1>9. RegisteredOK(v, wk, ac)
    <2>1. {t \in Stream : at # "failing" /\ t = s}
            = {t \in Stream : Leaving(wk) /\ t = Head(wk.streams)}
      BY <1>0, <1>2
    <2> QED  BY <1>0, <1>4, <2>1 DEF RegisteredOK
  <1>10. WorkerOK(v, wk)
    <2>1. ss \in Seq(Stream) /\ Targets(v, ss)
      BY <1>0, <1>4 DEF Targets
    <2>2. wk \in [at: {"lastWrite", "failing", "cancelling", "finishing"}, streams: Seq(Stream)]
      BY <1>0, <1>1, <2>1
    <2> QED  BY <1>0, <1>2, <1>3, <2>1, <2>2 DEF WorkerOK
  <1>11. Inv(v, gq, po, ts, wk, ac)
    BY <1>3, <1>5, <1>7, <1>8, <1>9, <1>10 DEF Inv
  <1> QED  BY <1>1, <1>11

\* The worker queue shuts down the streams ss.
LEMMA ShutDownKeeps ==
    ASSUME NEW w, NEW gq, NEW po, NEW ts, NEW ac, IdleInv(w, gq, po, ts, ac),
           NEW ss, Targets(w, ss), NEW s, s = Head(ss),
           NEW v, v = Shutdown(HardAssert(w, s \in Range(ac)), s),
           NEW at \in {"cancelling", "finishing"}, NEW i \in DOMAIN ac, ac[i] = s,
           NEW r, ErasedAt(ac, i, r)
    PROVE  Inv(v, gq, po, ts, [at |-> at, streams |-> ss], r)
  <1>1. s \in Alive(w) /\ s \in Range(ac)
    <2>1. s \in Range(ac)
      BY DEF Range
    <2> QED  BY <2>1 DEF IdleInv, Names
  <1>2. HardAssert(w, s \in Range(ac)) = w
    BY <1>1, AssertHolds DEF IdleInv, Sound
  <1>3. v = Shutdown(w, s)
    BY <1>2
  <1>4. Over(w, Back(po, ts), v, s)
    BY <1>1, <1>3, ShutdownSound DEF IdleInv
  <1>5. Names(r, Alive(w) \ {s})
    BY <1>1, UnregisteredNames DEF IdleInv
  <1>6. Alive(w) \ {t \in Stream : at # "failing" /\ t = s} = Alive(w) \ {s}
    BY DEF Alive
  <1>7. Names(r, Alive(w) \ {t \in Stream : at # "failing" /\ t = s})
    BY <1>5, <1>6
  <1>8. /\ QueuesOK(w, gq, po, ts)
        /\ \A t \in Alive(w) \ {s} : HasRead(w, t) /\ Uncancelled(w, t)
    BY DEF IdleInv
  <1>9. Blocks(w, gq, po, ts, v, s, ss, at, r)
    <2>1. at \in {"failing", "cancelling", "finishing"} /\ at # "failing"
      OBVIOUS
    <2> QED  BY <1>1, <1>4, <1>7, <1>8, <2>1 DEF Blocks
  <1> QED  BY <1>9, NowWaiting

--------------------------------------------------------------------------------
(* The worker queue stops waiting.                                          *)

\* The first of the streams to shut down is alive.
LEMMA HeadAlive ==
    ASSUME NEW w, NEW ss, Targets(w, ss)
    PROVE  Head(ss) \in Alive(w) /\ Head(ss) \in Range(ss)
  <1>1. ss \in Seq(Stream) /\ ss # <<>>
    BY DEF Targets
  <1>2. PICK n \in Nat : n = Len(ss)
    BY <1>1, LenProperties
  <1>3. n >= 1
    BY <1>1, <1>2, EmptySeq
  <1>4. 1 \in DOMAIN ss
    BY <1>1, <1>2, <1>3, LenProperties
  <1>5. Head(ss) \in Range(ss)
    BY <1>1, <1>4 DEF Range
  <1> QED  BY <1>5 DEF Targets

\* What holds when the list of s is cleared
Cleared(w, gq, po, ts, wk, ac, s, x) ==
    /\ OthersOK(w, gq, po, ts, s) /\ Over(w, Back(po, ts), x, s)
    /\ x.g[s].completions = {} /\ x.g[s].call = w.g[s].call
    /\ Targets(w, wk.streams)
    /\ wk \in [at: {"failing", "cancelling", "finishing"}, streams: Seq(Stream)]
    /\ wk.at = "failing" => Names(ac, Alive(w)) /\ w.g[s].call = "ended"
    /\ wk.at # "failing" => Names(ac, Alive(w) \ {s})

\* The worker queue has waited for that list.
LEMMA ListCleared ==
    ASSUME NEW w, NEW gq, NEW po, NEW ts, NEW wk, NEW ac, Inv(w, gq, po, ts, wk, ac),
           wk # Idle, wk.at # "lastWrite", NEW s, s = Head(wk.streams),
           w.g[s].completions \subseteq Back(po, ts), NEW x, x = Clear(w, s)
    PROVE  Cleared(w, gq, po, ts, wk, ac, s, x)
  <1>1. /\ wk \in [at: {"lastWrite", "failing", "cancelling", "finishing"}, streams: Seq(Stream)]
        /\ Targets(w, wk.streams)
        /\ Waiting(wk) => AllCancelled(w, s) /\ w.g[s].finished
        /\ wk.at = "failing" => w.g[s].call = "ended"
    BY DEF Inv, WorkerOK
  <1>2. /\ wk \in [at: {"failing", "cancelling", "finishing"}, streams: Seq(Stream)]
        /\ Waiting(wk) /\ (Leaving(wk) <=> wk.at # "failing")
    BY <1>1 DEF Waiting, Leaving
  <1>3. s \in Alive(w)
    BY <1>1, HeadAlive
  <1>4. OthersOK(w, gq, po, ts, s)
    <2>1. \A t \in Alive(w) \ {s} : HasRead(w, t) /\ Uncancelled(w, t)
      BY DEF Inv, UncancelledOK
    <2> QED  BY <1>3, <2>1 DEF Inv, OthersOK
  <1>5. /\ Over(w, Back(po, ts), x, s) /\ x.g[s].completions = {}
        /\ x.g[s].call = w.g[s].call
    BY <1>1, <1>2, <1>3, ClearSound DEF Inv
  <1>6. wk.at = "failing" => Names(ac, Alive(w))
    <2>1. ASSUME wk.at = "failing"
          PROVE  Alive(w) \ {t \in Stream : Leaving(wk) /\ t = Head(wk.streams)} = Alive(w)
      BY <1>2, <2>1
    <2> QED  BY <2>1 DEF Inv, RegisteredOK
  <1>7. wk.at # "failing" => Names(ac, Alive(w) \ {s})
    <2>1. ASSUME wk.at # "failing"
          PROVE  Alive(w) \ {t \in Stream : Leaving(wk) /\ t = Head(wk.streams)} = Alive(w) \ {s}
      BY <1>2, <2>1 DEF Alive
    <2> QED  BY <2>1 DEF Inv, RegisteredOK
  <1> QED  BY <1>1, <1>2, <1>4, <1>5, <1>6, <1>7 DEF Cleared

\* A finished call whose list is cleared is asked for its status.
LEMMA FinishStarted ==
    ASSUME NEW w, NEW H, NEW x, NEW s, Over(w, H, x, s), x.g[s].completions = {},
           NEW callback, callback = "RemoveOnly" \/ (callback = "FinishAndNotify" /\
                                                      x.g[s].call = "ended"),
           NEW v, v = NewCompletion(x, s, "Finish", callback)
    PROVE  /\ Sound(v, H) /\ Step(w, v, s) /\ s \in Alive(v)
           /\ v.g[s].finished /\ HasRead(v, s)
           /\ x.g[s].call = "ended" => Uncancelled(v, s)
  <1>1. Sound(x, H) /\ s \in Alive(x) /\ Step(w, x, s) /\ x.g[s].finished
    BY DEF Over
  <1>2. /\ Allowed(x, s, "Finish", callback)
        /\ x.g[s].call = "ended" => Uncancelled(x, s)
    BY <1>1 DEF Allowed, Uncancelled
  <1>6. PICK type : type = "Finish"
    OBVIOUS
  <1>7. /\ Sound(x, H) /\ s \in Alive(x) /\ Allowed(x, s, type, callback)
        /\ v = NewCompletion(x, s, type, callback)
    BY <1>1, <1>2, <1>6
  <1>3. /\ Sound(v, H) /\ Step(x, v, s) /\ s \in Alive(v)
        /\ v.g[s].finished = x.g[s].finished /\ v.g[s].active = x.g[s].active
        /\ v.g[s].call = x.g[s].call
        /\ HasRead(x, s) \/ type = "Read" => HasRead(v, s)
        /\ Uncancelled(x, s) => Uncancelled(v, s)
    BY <1>7, NewCompletionSound
  <1>4. Step(w, v, s)
    BY <1>1, <1>3, StepTransitive
  <1>5. HasRead(v, s)
    BY <1>1, <1>3 DEF HasRead
  <1> QED  BY <1>1, <1>2, <1>3, <1>4, <1>5

\* After "failing": the call's status is asked for, and will be told.
LEMMA AfterFailing ==
    ASSUME NEW w, NEW gq, NEW po, NEW ts, NEW ac, NEW s, OthersOK(w, gq, po, ts, s),
           Names(ac, Alive(w)), NEW x, Over(w, Back(po, ts), x, s), x.g[s].completions = {},
           x.g[s].call = "ended",
           NEW v, v = NewCompletion(x, s, "Finish", "FinishAndNotify")
    PROVE  IdleInv(v, gq, po, ts, ac)
  <1>1. /\ Sound(v, Back(po, ts)) /\ Step(w, v, s) /\ s \in Alive(v)
        /\ v.g[s].finished /\ HasRead(v, s) /\ Uncancelled(v, s)
    BY FinishStarted
  <1> QED  BY <1>1, StreamBack

\* After "cancelling": it is asked for, and will not be told.
LEMMA AfterCancelling ==
    ASSUME NEW w, NEW gq, NEW po, NEW ts, NEW ac, NEW s, OthersOK(w, gq, po, ts, s),
           NEW ss, Targets(w, ss), s = Head(ss), Names(ac, Alive(w) \ {s}),
           NEW x, Over(w, Back(po, ts), x, s), x.g[s].completions = {},
           NEW v, v = Cancel(NewCompletion(x, s, "Finish", "RemoveOnly"), s)
    PROVE  Inv(v, gq, po, ts, [at |-> "finishing", streams |-> ss], ac)
  <1>1. PICK y : y = NewCompletion(x, s, "Finish", "RemoveOnly")
    OBVIOUS
  <1>2. PICK H : H = Back(po, ts)
    OBVIOUS
  <1>3. /\ Sound(y, H) /\ Step(w, y, s) /\ s \in Alive(y)
        /\ y.g[s].finished /\ HasRead(y, s)
    BY <1>1, <1>2, FinishStarted
  <1>4. PICK r : r = y.g[s]
    OBVIOUS
  <1>5. /\ IsWorld(y) /\ s \in Stream /\ y.g[s] \in GrpcStream /\ StreamOK(y, s)
        /\ y.g \in [Stream -> GrpcStream \cup {Nothing}]
    BY <1>3, StreamParts
  <1>6. EndedRecord(y, s, r)
    BY <1>3, <1>4, <1>5 DEF EndedRecord, StreamOK
  <1>7. WithRecord(y, y, s, r)
    <2>1. [y.g EXCEPT ![s] = y.g[s]] = y.g
      BY <1>5
    <2> QED  BY <1>4, <1>5, <2>1, WorldParts DEF WithRecord
  <1>8. Over(y, H, v, s)
    BY <1>1, <1>3, <1>6, <1>7, CancelSound
  <1>9. Step(w, v, s)
    BY <1>3, <1>8, StepTransitive DEF Over
  <1>10. Over(w, H, v, s)
    BY <1>8, <1>9 DEF Over
  <1>11. Alive(w) \ {t \in Stream : "finishing" # "failing" /\ t = s} = Alive(w) \ {s}
    BY DEF Alive
  <1>12. PICK at : at = "finishing"
    OBVIOUS
  <1>13. Blocks(w, gq, po, ts, v, s, ss, at, ac)
    BY <1>2, <1>10, <1>11, <1>12 DEF Blocks, OthersOK
  <1> QED  BY <1>12, <1>13, NowWaiting

\* After "finishing": the stream is destroyed.
LEMMA AfterFinishing ==
    ASSUME NEW w, NEW gq, NEW po, NEW ts, NEW ac, NEW s, OthersOK(w, gq, po, ts, s),
           Names(ac, Alive(w) \ {s}),
           NEW x, Over(w, Back(po, ts), x, s), x.g[s].completions = {},
           NEW v, v = Destroy(x, s)
    PROVE  IdleInv(v, gq, po, ts, ac) /\ Alive(v) = Alive(w) \ {s}
  <1>1. Sound(x, Back(po, ts)) /\ s \in Alive(x) /\ Step(w, x, s)
    BY DEF Over
  <1>2. Sound(v, Back(po, ts)) /\ Step(x, v, s) /\ Alive(v) = Alive(x) \ {s}
    BY <1>1, DestroySound
  <1>3. Step(w, v, s)
    BY <1>1, <1>2, StepTransitive
  <1>4. Alive(v) = Alive(w) \ {s}
    BY <1>1, <1>2 DEF Step
  <1>5. QueuesOK(v, gq, po, ts)
    BY <1>3, QueuesLater DEF OthersOK, Step
  <1>6. ASSUME NEW t \in Alive(v) PROVE HasRead(v, t) /\ Uncancelled(v, t)
    <2>1. t \in Alive(w) \ {s} /\ HasRead(w, t) /\ Uncancelled(w, t)
      BY <1>4 DEF OthersOK
    <2> QED  BY <1>3, <2>1, OthersKept
  <1> QED  BY <1>2, <1>4, <1>5, <1>6 DEF IdleInv

\* The streams that are left to be shut down.
LEMMA TargetsLeft ==
    ASSUME NEW w, NEW ss, Targets(w, ss), Tail(ss) # <<>>,
           NEW v, Alive(v) = Alive(w) \ {Head(ss)}
    PROVE  Targets(v, Tail(ss))
  <1>1. ss \in Seq(Stream) /\ ss # <<>>
    BY DEF Targets
  <1>2. PICK n \in Nat : n = Len(ss)
    BY <1>1, LenProperties
  <1>3. PICK q : q = Tail(ss)
    OBVIOUS
  <1>4. /\ q \in Seq(Stream) /\ DOMAIN q = 1 .. (n - 1) /\ DOMAIN ss = 1 .. n /\ n >= 1
        /\ \A k \in 1 .. (n - 1) : q[k] = ss[k + 1] /\ k + 1 \in 1 .. n
    <2>1. /\ q \in Seq(Stream) /\ Len(q) = n - 1
          /\ \A k \in 1 .. (n - 1) : q[k] = ss[k + 1]
      BY <1>1, <1>2, <1>3, HeadTailProperties
    <2>2. DOMAIN q = 1 .. (n - 1)
      BY <2>1, LenProperties
    <2>3. DOMAIN ss = 1 .. n
      BY <1>1, <1>2, LenProperties
    <2>4. n >= 1
      BY <1>1, <1>2, EmptySeq
    <2>5. \A k \in 1 .. (n - 1) : k + 1 \in 1 .. n
      OBVIOUS
    <2> QED  BY <2>1, <2>2, <2>3, <2>4, <2>5
  <1>5. \A k, l \in 1 .. n : ss[k] = ss[l] => k = l
    BY <1>4 DEF Targets, IsInjective
  <1>6. IsInjective(q)
    <2>1. ASSUME NEW k \in 1 .. (n - 1), NEW l \in 1 .. (n - 1), q[k] = q[l] PROVE k = l
      <3>1. k + 1 = l + 1
        BY <1>4, <1>5, <2>1
      <3> QED  BY <3>1
    <2> QED  BY <1>4, <2>1 DEF IsInjective
  <1>7. Range(q) \subseteq Alive(v)
    <2>1. ASSUME NEW k \in 1 .. (n - 1) PROVE q[k] \in Alive(w) /\ q[k] # Head(ss)
      <3>1. q[k] = ss[k + 1] /\ k + 1 \in 1 .. n /\ k + 1 # 1 /\ 1 \in 1 .. n
        BY <1>4
      <3>2. ss[k + 1] # ss[1]
        BY <1>5, <3>1
      <3>3. ss[k + 1] \in Alive(w)
        BY <1>4, <3>1 DEF Targets, Range
      <3>4. Head(ss) = ss[1]
        BY <1>1
      <3> QED  BY <3>1, <3>2, <3>3, <3>4
    <2> QED  BY <1>4, <2>1 DEF Range
  <1> QED  BY <1>3, <1>4, <1>6, <1>7 DEF Targets

--------------------------------------------------------------------------------
(* The worker queue runs a callback, or starts a call.                      *)

\* A singleton of a living stream can be shut down.
LEMMA OneTarget ==
    ASSUME NEW w, NEW s \in Alive(w)
    PROVE  Targets(w, <<s>>) /\ Head(<<s>>) = s
  <1>1. s \in Stream
    BY DEF Alive
  <1>2. <<s>> \in Seq(Stream) /\ <<s>> # <<>> /\ Head(<<s>>) = s
    BY <1>1
  <1>3. DOMAIN <<s>> = {1} /\ <<s>>[1] = s
    OBVIOUS
  <1>4. IsInjective(<<s>>) /\ Range(<<s>>) \subseteq Alive(w)
    BY <1>3 DEF IsInjective, Range
  <1> QED  BY <1>2, <1>4 DEF Targets

\* The first task is one of the completions handed back.
LEMMA FirstTask ==
    ASSUME NEW w, NEW gq, NEW po, NEW ts, QueuesOK(w, gq, po, ts), ts # <<>>
    PROVE  /\ Head(ts) \in Outcome /\ Head(ts).id \in DOMAIN w.cs /\ Known(w, Head(ts))
           /\ Head(ts).id \in Back(po, ts)
  <1>1. ts \in Seq(Outcome) /\ Distinct(ts) /\ AllKnown(w, ts)
    BY DEF QueuesOK
  <1>2. Head(ts) \in Outcome /\ Head(ts).id \in Ids(ts) /\ Known(w, Head(ts))
    BY <1>1, TailOfQueue
  <1> QED  BY <1>2 DEF QueuesOK, Back

\* A cancelled callback only deletes its completion.
LEMMA CancelledTask ==
    ASSUME NEW w, NEW gq, NEW po, NEW ts, NEW ac, IdleInv(w, gq, po, ts, ac), ts # <<>>,
           NEW i, i = Head(ts).id, w.cs[i].callback = "Cancelled", NEW v, v = Gone(w, i)
    PROVE  IdleInv(v, gq, po, Tail(ts), ac)
  <1>1. Sound(w, Back(po, ts)) /\ QueuesOK(w, gq, po, ts) /\ IsWorld(w)
    BY DEF IdleInv, Sound
  <1>2. i \in DOMAIN w.cs
    BY <1>1, FirstTask
  <1>3. \A t \in Alive(w) : i \notin w.g[t].completions
    BY DEF IdleInv, Uncancelled
  <1>4. Without(w, v, i)
    BY <1>1, <1>2, <1>3, GoneSound
  <1>5. Without(w, v, Head(ts).id)
    BY <1>4
  <1>6. QueuesOK(v, gq, po, Tail(ts)) /\ Back(po, Tail(ts)) = Back(po, ts) \ {i}
    BY <1>1, <1>5, RunQueues
  <1>7. /\ Sound(v, Back(po, ts) \ {i})
        /\ \A t \in Alive(w) :
              /\ \A type : Of(v, t, type) = Of(w, t, type) \ {i}
              /\ HasRead(w, t) /\ i \notin Of(w, t, "Read") => HasRead(v, t)
              /\ Uncancelled(w, t) => Uncancelled(v, t)
    <2>1. Sound(v, Back(po, ts) \ {i}) /\ ListsLeft(w, v, i)
      BY <1>1, <1>2, <1>4, OthersLeft
    <2> QED  BY <2>1 DEF ListsLeft
  <1>8. Alive(v) = Alive(w)
    BY <1>4 DEF Without
  <1>9. \A t \in Alive(v) : HasRead(v, t) /\ Uncancelled(v, t)
    BY <1>3, <1>7, <1>8 DEF IdleInv, Of
  <1> QED  BY <1>6, <1>7, <1>8, <1>9 DEF IdleInv

\* What holds when a callback has been taken off its stream's list, before it runs
TaskTaken(w, x, gq, po, ts, ac, i, s) ==
    /\ Sound(x, Back(po, ts)) /\ OthersOK(x, gq, po, ts, s) /\ Names(ac, Alive(x))
    /\ Uncancelled(x, s) /\ StreamOK(w, s) /\ i \in w.g[s].completions
    /\ x.g[s].finished = w.g[s].finished /\ x.g[s].call = w.g[s].call
    /\ \A type : Of(x, s, type) = Of(w, s, type) \ {i}
    /\ w.cs[i].type # "Read" \/ w.g[s].finished => HasRead(x, s)
    /\ w.cs[i].callback = "OnRead" => w.cs[i].type = "Read"
    /\ w.cs[i].callback = "OnWrite" => w.cs[i].type = "Write"
    /\ w.cs[i].callback = "FinishAndNotify" => w.cs[i].type = "Finish"

\* A callback is taken off its stream's list.
LEMMA OtherTask ==
    ASSUME NEW w, NEW gq, NEW po, NEW ts, NEW ac, IdleInv(w, gq, po, ts, ac), ts # <<>>,
           NEW i, i = Head(ts).id, w.cs[i].callback # "Cancelled", NEW x, x = Ran(w, i)
    PROVE  TaskTaken(w, x, gq, po, Tail(ts), ac, i, w.cs[i].stream)
  <1>1. Sound(w, Back(po, ts)) /\ QueuesOK(w, gq, po, ts) /\ IsWorld(w)
    BY DEF IdleInv, Sound
  <1>2. i \in DOMAIN w.cs
    BY <1>1, FirstTask
  <1>3. PICK s : s = w.cs[i].stream
    OBVIOUS
  <1>4. Without(w, x, i) /\ s \in Alive(w) /\ i \in w.g[s].completions
    BY <1>1, <1>2, <1>3, RanSound
  <1>5. Without(w, x, Head(ts).id)
    BY <1>4
  <1>6. QueuesOK(x, gq, po, Tail(ts)) /\ Back(po, Tail(ts)) = Back(po, ts) \ {i}
    BY <1>1, <1>5, RunQueues
  <1>7. /\ Sound(x, Back(po, ts) \ {i})
        /\ \A t \in Alive(w) :
              /\ \A type : Of(x, t, type) = Of(w, t, type) \ {i}
              /\ HasRead(w, t) /\ i \notin Of(w, t, "Read") => HasRead(x, t)
              /\ Uncancelled(w, t) => Uncancelled(x, t)
    <2>1. Sound(x, Back(po, ts) \ {i}) /\ ListsLeft(w, x, i)
      BY <1>1, <1>2, <1>4, OthersLeft
    <2> QED  BY <2>1 DEF ListsLeft
  <1>8. Alive(x) = Alive(w) /\ x.g[s].finished = w.g[s].finished /\ x.g[s].call = w.g[s].call
    BY <1>4 DEF Without
  <1>9. /\ StreamOK(w, s) /\ CompletionOK(w, Back(po, ts), i)
        /\ \A t \in Alive(w) \ {s} : StreamOK(w, t)
    BY <1>1, <1>2, <1>4 DEF Sound
  <1>10. ASSUME NEW t \in Alive(w) \ {s} PROVE i \notin w.g[t].completions
    <2>1. StreamOK(w, t)
      BY <1>9
    <2>2. \A j \in w.g[t].completions : w.cs[j].stream = t
      BY <2>1 DEF StreamOK
    <2> QED  BY <1>3, <2>2
  <1>11. \A t \in Alive(x) \ {s} : HasRead(x, t) /\ Uncancelled(x, t)
    BY <1>7, <1>8, <1>10 DEF IdleInv, Of
  <1>12. w.cs[i].type # "Read" \/ w.g[s].finished => HasRead(x, s)
    <2>1. HasRead(w, s)
      BY <1>4 DEF IdleInv
    <2>2. CASE w.cs[i].type # "Read"
      BY <1>4, <1>7, <2>1, <2>2 DEF Of
    <2>3. CASE w.g[s].finished
      BY <1>8, <2>3 DEF HasRead
    <2> QED  BY <2>2, <2>3
  <1>13. Uncancelled(x, s)
    BY <1>4, <1>7 DEF IdleInv
  <1>14. OthersOK(x, gq, po, Tail(ts), s)
    BY <1>4, <1>6, <1>8, <1>11 DEF OthersOK
  <1>15. Sound(x, Back(po, Tail(ts))) /\ Names(ac, Alive(x))
    BY <1>6, <1>7, <1>8 DEF IdleInv
  <1>16. \A type : Of(x, s, type) = Of(w, s, type) \ {i}
    BY <1>4, <1>7
  <1>17. TaskTaken(w, x, gq, po, Tail(ts), ac, i, s)
    BY <1>4, <1>8, <1>9, <1>12, <1>13, <1>14, <1>15, <1>16 DEF TaskTaken, CompletionOK
  <1> QED  BY <1>3, <1>17

\* If it is not of the read, the worker queue may go on with the stream.
LEMMA TakenIdle ==
    ASSUME NEW w, NEW x, NEW gq, NEW po, NEW ts, NEW ac, NEW i, NEW s,
           TaskTaken(w, x, gq, po, ts, ac, i, s), w.cs[i].type # "Read" \/ w.g[s].finished
    PROVE  IdleInv(x, gq, po, ts, ac) /\ s \in Alive(x)
  <1>1. HasRead(x, s) /\ Uncancelled(x, s) /\ s \in Alive(x)
    BY DEF TaskTaken, OthersOK
  <1>2. \A t \in Alive(x) : HasRead(x, t) /\ Uncancelled(x, t)
    BY <1>1 DEF TaskTaken, OthersOK
  <1> QED  BY <1>1, <1>2 DEF TaskTaken, OthersOK, IdleInv

\* A failed operation finishes the call.
LEMMA FailedTask ==
    ASSUME NEW w, NEW x, NEW gq, NEW po, NEW ts, NEW ac, NEW i, NEW s,
           TaskTaken(w, x, gq, po, ts, ac, i, s), ~x.g[s].finished, w.g[s].call # "open",
           NEW v, v = FinishGrpcCall(x, s)
    PROVE  Inv(v, gq, po, ts, [at |-> "failing", streams |-> <<s>>], ac)
  <1>1. Sound(x, Back(po, ts)) /\ s \in Alive(x) /\ OthersOK(x, gq, po, ts, s)
    BY DEF TaskTaken, OthersOK
  <1>2. x.g[s] \in GrpcStream /\ StreamOK(x, s)
    BY <1>1, StreamParts
  <1>3. x.g[s].call = "ended"
    <2>1. x.g[s].call \in {"open", "ended", "cancelled"}
      BY <1>2 DEF GrpcStream
    <2>2. x.g[s].call # "open" /\ x.g[s].call # "cancelled"
      BY <1>2 DEF StreamOK, TaskTaken
    <2> QED  BY <2>1, <2>2
  <1>4. Over(x, Back(po, ts), v, s) /\ v.g[s].call = "ended"
    BY <1>1, <1>3, FinishGrpcCallSound
  <1>5. Targets(x, <<s>>) /\ Head(<<s>>) = s
    BY <1>1, OneTarget
  <1>6. PICK at : at = "failing"
    OBVIOUS
  <1>7. Alive(x) \ {t \in Stream : at # "failing" /\ t = s} = Alive(x)
    BY <1>6
  <1>8. Names(ac, Alive(x) \ {t \in Stream : at # "failing" /\ t = s})
    BY <1>7 DEF TaskTaken
  <1>9. PICK ss : ss = <<s>>
    OBVIOUS
  <1>10. Blocks(x, gq, po, ts, v, s, ss, at, ac)
    BY <1>1, <1>4, <1>5, <1>6, <1>8, <1>9 DEF Blocks, OthersOK
  <1>11. Inv(v, gq, po, ts, [at |-> at, streams |-> ss], ac)
    BY <1>10, NowWaiting
  <1> QED  BY <1>6, <1>9, <1>11

\* A message has been read: the next read is started.
LEMMA ReadTask ==
    ASSUME NEW w, NEW x, NEW gq, NEW po, NEW ts, NEW ac, NEW i, NEW s,
           TaskTaken(w, x, gq, po, ts, ac, i, s), w.cs[i].callback = "OnRead",
           NEW v, v = Read([x EXCEPT !.g[s].greeted = TRUE], s)
    PROVE  IdleInv(v, gq, po, ts, ac) /\ s \in Alive(v)
  <1>1. Sound(x, Back(po, ts)) /\ s \in Alive(x) /\ OthersOK(x, gq, po, ts, s)
    BY DEF TaskTaken, OthersOK
  <1>2. i \in Of(w, s, "Read")
    BY DEF TaskTaken, Of
  <1>3. ~x.g[s].finished
    BY <1>2 DEF TaskTaken, StreamOK
  <1>4. Of(x, s, "Read") = {}
    BY <1>2 DEF TaskTaken, StreamOK, AtMostOne
  <1>5. /\ Sound(v, Back(po, ts)) /\ Step(x, v, s) /\ s \in Alive(v)
        /\ v.g[s].finished = x.g[s].finished /\ v.g[s].call = x.g[s].call
        /\ HasRead(v, s)
        /\ Uncancelled(x, s) => Uncancelled(v, s)
    <2>1. ReadsOn(x, v, s)
      BY <1>3, <1>4 DEF ReadsOn
    <2> QED  BY <1>1, <2>1, ReadOnSound
  <1>6. Uncancelled(v, s) /\ Names(ac, Alive(x))
    BY <1>5 DEF TaskTaken
  <1> QED  BY <1>1, <1>5, <1>6, StreamBack

\* A write has come back: the next one goes out.
LEMMA WriteTask ==
    ASSUME NEW w, NEW x, NEW gq, NEW po, NEW ts, NEW ac, NEW i, NEW s,
           TaskTaken(w, x, gq, po, ts, ac, i, s), w.cs[i].callback = "OnWrite",
           NEW v, v = DequeueNextWrite(x, s)
    PROVE  IdleInv(v, gq, po, ts, ac)
  <1>1. w.cs[i].type = "Write"
    BY DEF TaskTaken
  <1>2. IdleInv(x, gq, po, ts, ac) /\ s \in Alive(x)
    BY <1>1, TakenIdle
  <1>3. i \in Of(w, s, "Write")
    BY <1>1 DEF TaskTaken, Of
  <1>4. Of(x, s, "Write") = {}
    BY <1>3 DEF TaskTaken, StreamOK, AtMostOne
  <1>5. Keeps(x, Back(po, ts), v, s)
    BY <1>2, <1>4, DequeueNextWriteSound DEF IdleInv
  <1> QED  BY <1>2, <1>5, KeepsOn

\* A call is started: a read and the first write.
LEMMA Started ==
    ASSUME NEW w, NEW gq, NEW po, NEW ts, NEW ac, IdleInv(w, gq, po, ts, ac),
           NEW s \in Stream, s \notin Alive(w), NEW x, Created(w, x, s),
           NEW v, v = Write(Read(x, s), s)
    PROVE  IdleInv(v, gq, po, ts, Append(ac, s))
  <1>1. /\ Sound(x, Back(po, ts)) /\ Step(w, x, s) /\ s \in Alive(x)
        /\ ~x.g[s].finished /\ Of(x, s, "Read") = {} /\ Uncancelled(x, s)
    BY NewStreamSound DEF IdleInv
  <1>2. PICK y : y = Read(x, s)
    OBVIOUS
  <1>3. /\ Sound(y, Back(po, ts)) /\ Step(x, y, s) /\ s \in Alive(y)
        /\ y.g[s].finished = x.g[s].finished /\ y.g[s].call = x.g[s].call
        /\ HasRead(y, s)
        /\ Uncancelled(x, s) => Uncancelled(y, s)
    <2>1. ReadsOn(x, y, s)
      BY <1>1, <1>2 DEF ReadsOn
    <2> QED  BY <1>1, <2>1, ReadOnSound
  <1>4. Keeps(y, Back(po, ts), v, s)
    BY <1>1, <1>2, <1>3, WriteSound
  <1>5. Sound(v, Back(po, ts)) /\ s \in Alive(v) /\ HasRead(v, s) /\ Uncancelled(v, s)
    BY <1>1, <1>3, <1>4 DEF Keeps
  <1>6. Step(w, v, s)
    <2>1. Step(w, y, s)
      BY <1>1, <1>3, StepTransitive
    <2> QED  BY <1>4, <2>1, StepTransitive DEF Keeps
  <1>7. QueuesOK(v, gq, po, ts)
    BY <1>6, QueuesLater DEF IdleInv, Step
  <1>8. Alive(v) = Alive(w) \cup {s}
    BY <1>5, <1>6 DEF Step
  <1>9. ASSUME NEW t \in Alive(v) PROVE HasRead(v, t) /\ Uncancelled(v, t)
    <2>1. CASE t = s
      BY <1>5, <2>1
    <2>2. CASE t # s
      <3>1. t \in Alive(w) \ {s} /\ HasRead(w, t) /\ Uncancelled(w, t)
        BY <1>8, <2>2 DEF IdleInv
      <3> QED  BY <1>6, <3>1, OthersKept
    <2> QED  BY <2>1, <2>2
  <1>10. Names(Append(ac, s), Alive(v))
    <2>1. Names(ac, Alive(w)) /\ s \in Stream /\ s \notin Alive(w)
      BY DEF IdleInv
    <2>2. Names(Append(ac, s), Alive(w) \cup {s})
      BY <2>1, RegisteredNames
    <2> QED  BY <1>8, <2>2
  <1> QED  BY <1>5, <1>7, <1>9, <1>10 DEF IdleInv

\* The backend ends a call.
LEMMA Ended ==
    ASSUME NEW w, NEW gq, NEW po, NEW ts, NEW wk, NEW ac, Inv(w, gq, po, ts, wk, ac),
           NEW s \in Alive(w), w.g[s].call = "open",
           NEW r, r = [w.g[s] EXCEPT !.call = "ended"], NEW v, WithRecord(w, v, s, r)
    PROVE  Inv(v, gq, po, ts, wk, ac)
  <1>1. /\ Sound(w, Back(po, ts)) /\ QueuesOK(w, gq, po, ts) /\ HasRead(w, s)
        /\ WorkerOK(w, wk) /\ RegisteredOK(w, wk, ac) /\ UncancelledOK(w, wk)
    BY DEF Inv
  <1>2. /\ IsWorld(w) /\ s \in Stream /\ w.g[s] \in GrpcStream /\ StreamOK(w, s)
    BY <1>1, StreamParts
  <1>3. PICK cancel \in BOOLEAN : cancel = FALSE
    OBVIOUS
  <1>4. /\ r \in GrpcStream /\ r.completions = w.g[s].completions
        /\ r.finished = w.g[s].finished /\ r.call = "ended" /\ r.active = w.g[s].active
        /\ r.given = w.g[s].given /\ r.buffer = w.g[s].buffer /\ r.written = w.g[s].written
    BY <1>2 DEF GrpcStream
  <1>5. ~w.g[s].finished
    BY <1>2 DEF StreamOK
  <1>6. Legal(w, s, r, cancel)
    BY <1>2, <1>4, <1>5 DEF Legal, StreamOK, InOrder, BesideFinish
  <1>7. Updated(w, v, s, r, cancel)
    BY <1>3 DEF Updated, WithRecord
  <1>8. AfterUpdate(w, Back(po, ts), v, s, r, cancel)
    BY <1>1, <1>6, <1>7, UpdatedSound
  <1>9. /\ Sound(v, Back(po, ts)) /\ Step(w, v, s) /\ s \in Alive(v) /\ HasRead(v, s)
        /\ Uncancelled(w, s) => Uncancelled(v, s)
    BY <1>1, <1>3, <1>4, <1>8 DEF AfterUpdate
  <1>10. Alive(v) = Alive(w)
    BY <1>9 DEF Step
  <1>11. \A t \in Alive(v) : /\ HasRead(v, t) /\ (Uncancelled(w, t) => Uncancelled(v, t))
    <2>1. \A t \in Alive(w) \ {s} : HasRead(v, t) /\ (Uncancelled(w, t) => Uncancelled(v, t))
      BY <1>9, OthersKept DEF Inv
    <2> QED  BY <1>9, <1>10, <2>1
  <1>12. QueuesOK(v, gq, po, ts)
    BY <1>1, <1>9, QueuesLater DEF Step
  <1>13. RegisteredOK(v, wk, ac) /\ UncancelledOK(v, wk)
    BY <1>1, <1>10, <1>11 DEF RegisteredOK, UncancelledOK
  <1>14. WorkerOK(v, wk)
    <2>1. CASE wk = Idle
      BY <2>1 DEF WorkerOK
    <2>2. CASE wk # Idle
      <3>1. /\ wk \in [at: {"lastWrite", "failing", "cancelling", "finishing"},
                       streams: Seq(Stream)]
            /\ Targets(w, wk.streams)
            /\ Waiting(wk) => /\ AllCancelled(w, Head(wk.streams))
                              /\ w.g[Head(wk.streams)].finished
            /\ wk.at = "failing" => w.g[Head(wk.streams)].call = "ended"
        BY <1>1, <2>2 DEF WorkerOK
      <3>2. PICK t : t = Head(wk.streams)
        OBVIOUS
      <3>3. t \in Alive(w)
        BY <3>1, <3>2, HeadAlive
      <3>4. ASSUME Waiting(wk)
            PROVE  AllCancelled(v, t) /\ v.g[t].finished /\ v.g[t].call = w.g[t].call
        <4>1. t \in Alive(w) \ {s} /\ AllCancelled(w, t) /\ w.g[t].finished
          BY <1>5, <3>1, <3>2, <3>3, <3>4
        <4> QED  BY <1>9, <4>1, OthersKept
      <3>5. wk.at = "failing" => Waiting(wk)
        BY DEF Waiting
      <3>6. Targets(v, wk.streams)
        BY <1>10, <3>1 DEF Targets
      <3> QED  BY <3>1, <3>2, <3>4, <3>5, <3>6 DEF WorkerOK
    <2> QED  BY <2>1, <2>2
  <1> QED  BY <1>9, <1>11, <1>12, <1>13, <1>14 DEF Inv

--------------------------------------------------------------------------------
(* The steps.                                                               *)

IInv == Inv(World, grpcQueue, polled, tasks, worker, activeCalls)

\* A step that becomes the world v ends in it.
LEMMA WorldNext ==
    ASSUME NEW v, IsWorld(v), Become(v)
    PROVE  World' = v
  <1>1. v = [g |-> v.g, cs |-> v.cs, ok |-> TRUE] /\ v.ok = TRUE
    BY WorldParts
  <1>2. World' = [g |-> streams', cs |-> completions', ok |-> ok']
    BY DEF World
  <1>3. streams' = v.g /\ completions' = v.cs /\ ok' = TRUE
    BY <1>1 DEF Become
  <1> QED  BY <1>1, <1>2, <1>3

\* The call that is unregistered is found.
LEMMA UnregisteredIs ==
    ASSUME NEW S, Names(activeCalls, S), NEW s \in S
    PROVE  \E i \in DOMAIN activeCalls :
              activeCalls[i] = s /\ ErasedAt(activeCalls, i, Unregistered(s))
  <1>1. \E i \in DOMAIN activeCalls : activeCalls[i] = s
    BY DEF Names, Range
  <1>2. PICK i : i = CHOOSE j \in DOMAIN activeCalls : activeCalls[j] = s
    OBVIOUS
  <1>3. i \in DOMAIN activeCalls /\ activeCalls[i] = s
    BY <1>1, <1>2
  <1> QED  BY <1>2, <1>3 DEF Unregistered, ErasedAt

\* ShutDown of streams that can be shut down keeps the invariant.
LEMMA ShutDownStep ==
    ASSUME NEW w, NEW gq, NEW po, NEW ts, IdleInv(w, gq, po, ts, activeCalls),
           NEW ss, Targets(w, ss), ShutDown(w, ss)
    PROVE  Inv(World', gq, po, ts, worker', activeCalls')
  <1>1. PICK s : s = Head(ss)
    OBVIOUS
  <1>2. s \in Alive(w)
    BY <1>1, HeadAlive
  <1>3. Names(activeCalls, Alive(w))
    BY DEF IdleInv
  <1>4. PICK v : v = Shutdown(HardAssert(w, s \in Range(activeCalls)), s)
    OBVIOUS
  <1>5. PICK at \in {"cancelling", "finishing"} : worker' = [at |-> at, streams |-> ss]
    BY DEF ShutDown
  <1>6. PICK i \in DOMAIN activeCalls :
           activeCalls[i] = s /\ ErasedAt(activeCalls, i, Unregistered(s))
    BY <1>2, <1>3, UnregisteredIs
  <1>7. Become(v) /\ activeCalls' = Unregistered(s)
    BY <1>1, <1>4 DEF ShutDown
  <1>8. Inv(v, gq, po, ts, [at |-> at, streams |-> ss], activeCalls')
    BY <1>1, <1>4, <1>6, <1>7, ShutDownKeeps
  <1>9. World' = v
    BY <1>7, <1>8, WorldNext DEF Inv, Sound
  <1> QED  BY <1>5, <1>8, <1>9

\* A step after which the worker queue is idle.
LEMMA IdleStep ==
    ASSUME NEW v, NEW gq, NEW po, NEW ts, NEW ac, IdleInv(v, gq, po, ts, ac), Become(v),
           grpcQueue' = gq, polled' = po, tasks' = ts, activeCalls' = ac, worker' = Idle
    PROVE  IInv'
  <1>1. World' = v
    BY WorldNext DEF IdleInv, Sound
  <1>2. Inv(v, gq, po, ts, Idle, ac)
    BY IdleIs
  <1> QED  BY <1>1, <1>2 DEF IInv

\* A step after which it waits.
LEMMA BlockedStep ==
    ASSUME NEW v, NEW gq, NEW po, NEW ts, NEW wk, NEW ac, Inv(v, gq, po, ts, wk, ac), Become(v),
           grpcQueue' = gq, polled' = po, tasks' = ts, activeCalls' = ac, worker' = wk
    PROVE  IInv'
  <1>1. World' = v
    BY WorldNext DEF Inv, Sound
  <1> QED  BY <1>1 DEF IInv

\* When the worker queue is idle
LEMMA NowIdle ==
    ASSUME IInv, worker = Idle
    PROVE  IdleInv(World, grpcQueue, polled, tasks, activeCalls)
  BY IdleIs DEF IInv

\* Where a stream is
LEMMA AliveIs ==
    ASSUME NEW s \in Stream
    PROVE  s \in Alive(World) <=> streams[s] # Nothing
  BY DEF Alive, World

\* Start keeps the invariant.
LEMMA StartKeeps ==
    ASSUME IInv, NEW s \in Stream, Start(s)
    PROVE  IInv'
  <1>1. IdleInv(World, grpcQueue, polled, tasks, activeCalls)
    BY NowIdle DEF Start
  <1>2. s \notin Alive(World)
    BY AliveIs DEF Start
  <1>3. PICK x : x = [World EXCEPT !.g[s] = NewStream]
    OBVIOUS
  <1>4. PICK v : v = Write(Read(x, s), s)
    OBVIOUS
  <1>5. /\ Become(v) /\ activeCalls' = Append(activeCalls, s)
        /\ grpcQueue' = grpcQueue /\ polled' = polled /\ tasks' = tasks /\ worker' = Idle
    BY <1>3, <1>4 DEF Start, NewStream
  <1>6. Created(World, x, s)
    BY <1>3 DEF Created
  <1>7. IdleInv(v, grpcQueue, polled, tasks, Append(activeCalls, s))
    BY <1>1, <1>2, <1>4, <1>6, Started
  <1> QED  BY <1>5, <1>7, IdleStep

\* So does a write of the observer, ...
LEMMA ObserverWritesKeeps ==
    ASSUME IInv, NEW s \in Stream, ObserverWrites(s)
    PROVE  IInv'
  <1>1. IdleInv(World, grpcQueue, polled, tasks, activeCalls)
    BY NowIdle DEF ObserverWrites, Running
  <1>2. s \in Alive(World)
    BY AliveIs DEF ObserverWrites, Running
  <1>3. PICK v : v = Write(World, s)
    OBVIOUS
  <1>4. /\ Become(v) /\ activeCalls' = activeCalls
        /\ grpcQueue' = grpcQueue /\ polled' = polled /\ tasks' = tasks /\ worker' = Idle
    BY <1>3 DEF ObserverWrites, Running
  <1>5. Keeps(World, Back(polled, tasks), v, s)
    BY <1>1, <1>2, <1>3, WriteSound DEF IdleInv
  <1>6. IdleInv(v, grpcQueue, polled, tasks, activeCalls)
    BY <1>1, <1>2, <1>5, KeepsOn
  <1> QED  BY <1>4, <1>6, IdleStep

\* ... a graceful stop, ...
LEMMA StopKeeps ==
    ASSUME IInv, NEW s \in Stream, Stop(s)
    PROVE  IInv'
  <1>1. IdleInv(World, grpcQueue, polled, tasks, activeCalls)
    BY NowIdle DEF Stop, Running
  <1>2. s \in Alive(World)
    BY AliveIs DEF Stop, Running
  <1>3. PICK w : w = Enqueued(World, s)
    OBVIOUS
  <1>4. Keeps(World, Back(polled, tasks), w, s)
    BY <1>1, <1>2, <1>3, EnqueuedSound DEF IdleInv
  <1>5. IdleInv(w, grpcQueue, polled, tasks, activeCalls) /\ s \in Alive(w)
    BY <1>1, <1>2, <1>4, KeepsOn DEF Keeps
  <1>6. grpcQueue' = grpcQueue /\ polled' = polled /\ tasks' = tasks
    BY DEF Stop
  <1>7. ASSUME ShutDown(World, <<s>>) \/ ShutDown(w, <<s>>)
        PROVE  IInv'
    <2>1. CASE ShutDown(World, <<s>>)
      <3>1. Targets(World, <<s>>)
        BY <1>2, OneTarget
      <3>2. Inv(World', grpcQueue, polled, tasks, worker', activeCalls')
        BY <1>1, <2>1, <3>1, ShutDownStep
      <3> QED  BY <1>6, <3>2 DEF IInv
    <2>2. CASE ShutDown(w, <<s>>)
      <3>1. Targets(w, <<s>>)
        BY <1>5, OneTarget
      <3>2. Inv(World', grpcQueue, polled, tasks, worker', activeCalls')
        BY <1>5, <2>2, <3>1, ShutDownStep
      <3> QED  BY <1>6, <3>2 DEF IInv
    <2> QED  BY <1>7, <2>1, <2>2
  <1>8. ASSUME Become(TryStartWrite(w, s, "RemoveOnly")), activeCalls' = activeCalls,
               worker' = [at |-> "lastWrite", streams |-> <<s>>]
        PROVE  IInv'
    <2>1. PICK v : v = TryStartWrite(w, s, "RemoveOnly")
      OBVIOUS
    <2>2. PICK callback \in {"OnWrite", "RemoveOnly"} : callback = "RemoveOnly"
      OBVIOUS
    <2>3. v = TryStartWrite(w, s, callback)
      BY <2>1, <2>2
    <2>4. Keeps(w, Back(polled, tasks), v, s)
      BY <1>5, <2>3, TryStartWriteSound DEF IdleInv
    <2>5. IdleInv(v, grpcQueue, polled, tasks, activeCalls) /\ s \in Alive(v)
      BY <1>5, <2>4, KeepsOn DEF Keeps
    <2>6. PICK wk : wk = [at |-> "lastWrite", streams |-> <<s>>]
      OBVIOUS
    <2>7. Targets(v, <<s>>)
      BY <2>5, OneTarget
    <2>8. Inv(v, grpcQueue, polled, tasks, wk, activeCalls)
      BY <2>5, <2>6, <2>7, LastWriteInv
    <2> QED  BY <1>6, <1>8, <2>1, <2>6, <2>8, BlockedStep
  <1> QED  BY <1>3, <1>7, <1>8 DEF Stop

\* ... a change of the network, ...
LEMMA NetworkChangesKeeps ==
    ASSUME IInv, NetworkChanges
    PROVE  IInv'
  <1>1. IdleInv(World, grpcQueue, polled, tasks, activeCalls)
    BY NowIdle DEF NetworkChanges
  <1>2. Targets(World, activeCalls)
    BY <1>1 DEF NetworkChanges, IdleInv, Names, Targets
  <1>3. Inv(World', grpcQueue, polled, tasks, worker', activeCalls')
    BY <1>1, <1>2, ShutDownStep DEF NetworkChanges
  <1> QED  BY <1>3 DEF NetworkChanges, IInv

\* ... and the end of the wait for the last write.
LEMMA LastWriteEndsKeeps ==
    ASSUME IInv, LastWriteEnds
    PROVE  IInv'
  <1>1. /\ IdleInv(World, grpcQueue, polled, tasks, activeCalls)
        /\ Targets(World, worker.streams)
    BY LastWriteIs DEF IInv, LastWriteEnds
  <1>2. Inv(World', grpcQueue, polled, tasks, worker', activeCalls')
    BY <1>1, ShutDownStep DEF LastWriteEnds
  <1> QED  BY <1>2 DEF LastWriteEnds, IInv

\* What RunTask calls gone and w
LEMMA RunTaskWorlds ==
    ASSUME NEW i, NEW s, s = completions[i].stream
    PROVE  /\ [World EXCEPT !.cs = [j \in DOMAIN @ \ {i} |-> @[j]]] = Gone(World, i)
           /\ [HardAssert([World EXCEPT !.cs = [j \in DOMAIN @ \ {i} |-> @[j]]],
                          i \in streams[s].completions) EXCEPT !.g[s].completions = @ \ {i}]
                = Ran(World, i)
  <1>1. World.g = streams /\ World.cs = completions
    BY DEF World
  <1> QED  BY <1>1 DEF Gone, Ran

\* A callback that runs, or finds it is cancelled, keeps the invariant.
LEMMA RunTaskKeeps ==
    ASSUME IInv, RunTask
    PROVE  IInv'
  <1>1. /\ IdleInv(World, grpcQueue, polled, tasks, activeCalls) /\ tasks # <<>>
        /\ tasks' = Tail(tasks) /\ grpcQueue' = grpcQueue /\ polled' = polled /\ worker = Idle
    BY NowIdle DEF RunTask
  <1>2. PICK i : i = Head(tasks).id
    OBVIOUS
  <1>3. PICK s : s = completions[i].stream
    OBVIOUS
  <1>4. PICK w : w = World
    OBVIOUS
  <1>5. PICK x : x = Ran(w, i)
    OBVIOUS
  <1>6. /\ w.g = streams /\ w.cs = completions
        /\ IdleInv(w, grpcQueue, polled, tasks, activeCalls)
    BY <1>1, <1>4 DEF World
  <1>7. \/ /\ w.cs[i].callback = "Cancelled"
           /\ Become(Gone(w, i)) /\ activeCalls' = activeCalls /\ worker' = Idle
        \/ /\ w.cs[i].callback # "Cancelled" /\ ~Head(tasks).ok
           /\ OnOperationFailed(x, s) /\ activeCalls' = activeCalls
        \/ /\ w.cs[i].callback = "OnRead" /\ OnRead(x, s)
        \/ /\ w.cs[i].callback = "OnWrite"
           /\ Become(DequeueNextWrite(x, s)) /\ activeCalls' = activeCalls /\ worker' = Idle
        \/ /\ w.cs[i].callback = "FinishAndNotify" /\ ShutDown(x, <<s>>)
    BY <1>1, <1>2, <1>3, <1>4, <1>5, <1>6, RunTaskWorlds DEF RunTask
  <1>8. CASE /\ w.cs[i].callback = "Cancelled"
             /\ Become(Gone(w, i)) /\ activeCalls' = activeCalls /\ worker' = Idle
    <2>1. PICK v : v = Gone(w, i)
      OBVIOUS
    <2>2. IdleInv(v, grpcQueue, polled, Tail(tasks), activeCalls)
      BY <1>1, <1>2, <1>6, <1>8, <2>1, CancelledTask
    <2> QED  BY <1>1, <1>8, <2>1, <2>2, IdleStep
  <1>9. ASSUME w.cs[i].callback # "Cancelled"
        PROVE  TaskTaken(w, x, grpcQueue, polled, Tail(tasks), activeCalls, i, s)
    <2>1. s = w.cs[i].stream
      BY <1>3, <1>6
    <2>2. TaskTaken(w, x, grpcQueue, polled, Tail(tasks), activeCalls, i, w.cs[i].stream)
      BY <1>1, <1>2, <1>5, <1>6, <1>9, OtherTask
    <2> QED  BY <2>1, <2>2
  <1>10. CASE /\ w.cs[i].callback # "Cancelled" /\ ~Head(tasks).ok
              /\ OnOperationFailed(x, s) /\ activeCalls' = activeCalls
    <2>1. TaskTaken(w, x, grpcQueue, polled, Tail(tasks), activeCalls, i, s)
      BY <1>9, <1>10
    <2>2. CASE x.g[s].finished
      <3>1. Become(x) /\ worker' = Idle
        BY <1>1, <1>10, <2>2 DEF OnOperationFailed
      <3>2. w.g[s].finished
        BY <2>1, <2>2 DEF TaskTaken
      <3>3. IdleInv(x, grpcQueue, polled, Tail(tasks), activeCalls)
        BY <2>1, <3>2, TakenIdle
      <3> QED  BY <1>1, <1>10, <3>1, <3>3, IdleStep
    <2>3. CASE ~x.g[s].finished
      <3>1. PICK v : v = FinishGrpcCall(x, s)
        OBVIOUS
      <3>2. PICK wk : wk = [at |-> "failing", streams |-> <<s>>]
        OBVIOUS
      <3>3. Become(v) /\ worker' = wk
        BY <1>10, <2>3, <3>1, <3>2 DEF OnOperationFailed
      <3>4. w.g[s].call # "open"
        <4>1. Known(w, Head(tasks))
          BY <1>1, <1>6, FirstTask DEF IdleInv
        <4>2. w.cs[i].stream = s /\ s # Nothing
          <5>1. s \in Stream
            BY <2>1 DEF TaskTaken, OthersOK, Alive
          <5> QED  BY <1>3, <1>6, <5>1, NothingAssumption
        <4> QED  BY <1>2, <1>10, <4>1, <4>2 DEF Known
      <3>5. Inv(v, grpcQueue, polled, Tail(tasks), wk, activeCalls)
        BY <2>1, <2>3, <3>1, <3>2, <3>4, FailedTask
      <3> QED  BY <1>1, <1>10, <3>3, <3>5, BlockedStep
    <2> QED  BY <2>2, <2>3
  <1>11. CASE w.cs[i].callback = "OnRead" /\ OnRead(x, s)
    <2>1. TaskTaken(w, x, grpcQueue, polled, Tail(tasks), activeCalls, i, s)
      BY <1>9, <1>11
    <2>2. PICK v : v = Read([x EXCEPT !.g[s].greeted = TRUE], s)
      OBVIOUS
    <2>3. IdleInv(v, grpcQueue, polled, Tail(tasks), activeCalls) /\ s \in Alive(v)
      BY <1>11, <2>1, <2>2, ReadTask
    <2>4. \/ Become(v) /\ activeCalls' = activeCalls /\ worker' = Idle
          \/ Become(Write(v, s)) /\ activeCalls' = activeCalls /\ worker' = Idle
          \/ ShutDown(v, <<s>>)
      BY <1>1, <1>11, <2>2 DEF OnRead
    <2>5. CASE Become(v) /\ activeCalls' = activeCalls /\ worker' = Idle
      BY <1>1, <2>3, <2>5, IdleStep
    <2>6. CASE Become(Write(v, s)) /\ activeCalls' = activeCalls /\ worker' = Idle
      <3>1. PICK u : u = Write(v, s)
        OBVIOUS
      <3>2. Keeps(v, Back(polled, Tail(tasks)), u, s)
        BY <2>3, <3>1, WriteSound DEF IdleInv
      <3>3. IdleInv(u, grpcQueue, polled, Tail(tasks), activeCalls)
        BY <2>3, <3>2, KeepsOn
      <3> QED  BY <1>1, <2>6, <3>1, <3>3, IdleStep
    <2>7. CASE ShutDown(v, <<s>>)
      <3>1. Targets(v, <<s>>)
        BY <2>3, OneTarget
      <3>2. Inv(World', grpcQueue, polled, Tail(tasks), worker', activeCalls')
        BY <2>3, <2>7, <3>1, ShutDownStep
      <3> QED  BY <1>1, <3>2 DEF IInv
    <2> QED  BY <2>4, <2>5, <2>6, <2>7
  <1>12. CASE /\ w.cs[i].callback = "OnWrite"
              /\ Become(DequeueNextWrite(x, s)) /\ activeCalls' = activeCalls /\ worker' = Idle
    <2>1. TaskTaken(w, x, grpcQueue, polled, Tail(tasks), activeCalls, i, s)
      BY <1>9, <1>12
    <2>2. PICK v : v = DequeueNextWrite(x, s)
      OBVIOUS
    <2>3. IdleInv(v, grpcQueue, polled, Tail(tasks), activeCalls)
      BY <1>12, <2>1, <2>2, WriteTask
    <2> QED  BY <1>1, <1>12, <2>2, <2>3, IdleStep
  <1>13. CASE w.cs[i].callback = "FinishAndNotify" /\ ShutDown(x, <<s>>)
    <2>1. TaskTaken(w, x, grpcQueue, polled, Tail(tasks), activeCalls, i, s)
      BY <1>9, <1>13
    <2>2. w.cs[i].type # "Read"
      BY <1>13, <2>1 DEF TaskTaken
    <2>3. IdleInv(x, grpcQueue, polled, Tail(tasks), activeCalls) /\ s \in Alive(x)
      BY <2>1, <2>2, TakenIdle
    <2>4. Targets(x, <<s>>)
      BY <2>3, OneTarget
    <2>5. Inv(World', grpcQueue, polled, Tail(tasks), worker', activeCalls')
      BY <1>13, <2>3, <2>4, ShutDownStep
    <2> QED  BY <1>1, <2>5 DEF IInv
  <1> QED  BY <1>7, <1>8, <1>10, <1>11, <1>12, <1>13

\* What is off gRPC's queue has been handed back.
LEMMA OffQueueIs ==
    ASSUME IInv, NEW i \in DOMAIN completions
    PROVE  OffQueue(i) <=> i \in Back(polled, tasks)
  <1>1. i \in Id
    BY DEF IInv, Inv, Sound, IsWorld, World
  <1>2. (\E k \in DOMAIN tasks : tasks[k].id = i) <=> i \in Ids(tasks)
    BY DEF Ids
  <1> QED  BY <1>1, <1>2 DEF OffQueue, Back

\* The worker queue keeps it when it stops waiting.
LEMMA ProceedKeeps ==
    ASSUME IInv, Proceed
    PROVE  IInv'
  <1>1. PICK s : s = Head(worker.streams)
    OBVIOUS
  <1>2. PICK ss : ss = worker.streams
    OBVIOUS
  <1>3. PICK w : w = World
    OBVIOUS
  <1>4. PICK x : x = Clear(w, s)
    OBVIOUS
  <1>5. /\ Inv(w, grpcQueue, polled, tasks, worker, activeCalls)
        /\ w.g = streams /\ w.cs = completions
    BY <1>3 DEF IInv, World
  <1>6. /\ worker # Idle /\ worker.at # "lastWrite"
        /\ \A i \in streams[s].completions : OffQueue(i)
        /\ grpcQueue' = grpcQueue /\ polled' = polled /\ tasks' = tasks
        /\ \/ /\ worker.at = "failing"
              /\ Become(NewCompletion(x, s, "Finish", "FinishAndNotify"))
              /\ worker' = Idle /\ activeCalls' = activeCalls
           \/ /\ worker.at = "cancelling"
              /\ Become(Cancel(NewCompletion(x, s, "Finish", "RemoveOnly"), s))
              /\ worker' = [worker EXCEPT !.at = "finishing"] /\ activeCalls' = activeCalls
           \/ /\ worker.at = "finishing"
              /\ IF Tail(ss) # <<>> THEN ShutDown(Destroy(x, s), Tail(ss))
                 ELSE Become(Destroy(x, s)) /\ worker' = Idle /\ activeCalls' = activeCalls
    BY <1>1, <1>2, <1>3, <1>4 DEF Proceed
  <1>7. w.g[s].completions \subseteq Back(polled, tasks)
    <2>1. s \in Alive(w)
      BY <1>1, <1>5, <1>6, HeadAlive DEF Inv, WorkerOK
    <2>2. \A i \in w.g[s].completions : i \in DOMAIN w.cs
      BY <1>5, <2>1 DEF Inv, Sound, StreamOK
    <2> QED  BY <1>5, <1>6, <2>2, OffQueueIs
  <1>8. /\ OthersOK(w, grpcQueue, polled, tasks, s) /\ Over(w, Back(polled, tasks), x, s)
        /\ x.g[s].completions = {} /\ x.g[s].call = w.g[s].call
        /\ Targets(w, worker.streams)
        /\ worker \in [at: {"failing", "cancelling", "finishing"}, streams: Seq(Stream)]
        /\ worker.at = "failing" => Names(activeCalls, Alive(w)) /\ w.g[s].call = "ended"
        /\ worker.at # "failing" => Names(activeCalls, Alive(w) \ {s})
    <2>1. Cleared(w, grpcQueue, polled, tasks, worker, activeCalls, s, x)
      BY <1>1, <1>4, <1>5, <1>6, <1>7, ListCleared
    <2> QED  BY <2>1 DEF Cleared
  <1>9. CASE /\ worker.at = "failing"
             /\ Become(NewCompletion(x, s, "Finish", "FinishAndNotify"))
             /\ worker' = Idle /\ activeCalls' = activeCalls
    <2>1. PICK v : v = NewCompletion(x, s, "Finish", "FinishAndNotify")
      OBVIOUS
    <2>2. x.g[s].call = "ended" /\ Names(activeCalls, Alive(w))
      BY <1>8, <1>9
    <2>3. IdleInv(v, grpcQueue, polled, tasks, activeCalls)
      BY <1>8, <2>1, <2>2, AfterFailing
    <2> QED  BY <1>6, <1>9, <2>1, <2>3, IdleStep
  <1>10. CASE /\ worker.at = "cancelling"
              /\ Become(Cancel(NewCompletion(x, s, "Finish", "RemoveOnly"), s))
              /\ worker' = [worker EXCEPT !.at = "finishing"] /\ activeCalls' = activeCalls
    <2>1. PICK v : v = Cancel(NewCompletion(x, s, "Finish", "RemoveOnly"), s)
      OBVIOUS
    <2>2. PICK wk : wk = [at |-> "finishing", streams |-> ss]
      OBVIOUS
    <2>3. worker' = wk
      <3>1. worker \in [at: {"failing", "cancelling", "finishing"}, streams: Seq(Stream)]
        BY <1>8
      <3> QED  BY <1>2, <1>10, <2>2, <3>1
    <2>4. Names(activeCalls, Alive(w) \ {s}) /\ Targets(w, ss) /\ s = Head(ss)
      BY <1>1, <1>2, <1>8, <1>10
    <2>5. Inv(v, grpcQueue, polled, tasks, wk, activeCalls)
      BY <1>8, <2>1, <2>2, <2>4, AfterCancelling
    <2> QED  BY <1>6, <1>10, <2>1, <2>3, <2>5, BlockedStep
  <1>11. CASE /\ worker.at = "finishing"
              /\ IF Tail(ss) # <<>> THEN ShutDown(Destroy(x, s), Tail(ss))
                 ELSE Become(Destroy(x, s)) /\ worker' = Idle /\ activeCalls' = activeCalls
    <2>1. PICK v : v = Destroy(x, s)
      OBVIOUS
    <2>2. Names(activeCalls, Alive(w) \ {s})
      BY <1>8, <1>11
    <2>3. /\ IdleInv(v, grpcQueue, polled, tasks, activeCalls)
          /\ Alive(v) = Alive(w) \ {s}
      BY <1>8, <2>1, <2>2, AfterFinishing
    <2>4. CASE Tail(ss) # <<>>
      <3>1. Targets(v, Tail(ss))
        BY <1>1, <1>2, <1>8, <2>3, <2>4, TargetsLeft
      <3>2. ShutDown(v, Tail(ss))
        BY <1>11, <2>1, <2>4
      <3>3. Inv(World', grpcQueue, polled, tasks, worker', activeCalls')
        BY <2>3, <3>1, <3>2, ShutDownStep
      <3> QED  BY <1>6, <3>3 DEF IInv
    <2>5. CASE ~(Tail(ss) # <<>>)
      <3>1. Become(v) /\ worker' = Idle /\ activeCalls' = activeCalls
        BY <1>11, <2>1, <2>5
      <3> QED  BY <1>6, <2>3, <3>1, IdleStep
    <2> QED  BY <2>4, <2>5
  <1> QED  BY <1>6, <1>9, <1>10, <1>11

\* The polling thread keeps it when it takes a completion, ...
LEMMA PollKeeps ==
    ASSUME IInv, Poll
    PROVE  IInv'
  <1>1. PICK w : w = World
    OBVIOUS
  <1>2. PICK po : po = Head(grpcQueue)
    OBVIOUS
  <1>3. Inv(w, grpcQueue, Nothing, tasks, worker, activeCalls) /\ grpcQueue # <<>>
    BY <1>1 DEF IInv, Poll
  <1>4. /\ QueuesOK(w, Tail(grpcQueue), po, tasks)
        /\ Back(Nothing, tasks) \subseteq Back(po, tasks)
    BY <1>2, <1>3, PolledQueues DEF Inv
  <1>5. Sound(w, Back(po, tasks))
    BY <1>3, <1>4, SoundMore DEF Inv
  <1>6. Inv(w, Tail(grpcQueue), po, tasks, worker, activeCalls)
    BY <1>3, <1>4, <1>5 DEF Inv
  <1>7. World' = w /\ grpcQueue' = Tail(grpcQueue) /\ polled' = po /\ tasks' = tasks
        /\ worker' = worker /\ activeCalls' = activeCalls
    BY <1>1, <1>2 DEF Poll, World
  <1> QED  BY <1>6, <1>7 DEF IInv

\* ... and when it enqueues its callback.
LEMMA EnqueueKeeps ==
    ASSUME IInv, Enqueue
    PROVE  IInv'
  <1>1. PICK w : w = World
    OBVIOUS
  <1>2. PICK ts : ts = Append(tasks, polled)
    OBVIOUS
  <1>3. Inv(w, grpcQueue, polled, tasks, worker, activeCalls) /\ polled # Nothing
    BY <1>1 DEF IInv, Enqueue
  <1>4. /\ QueuesOK(w, grpcQueue, Nothing, ts)
        /\ Back(Nothing, ts) = Back(polled, tasks)
    BY <1>2, <1>3, EnqueuedQueues DEF Inv
  <1>5. Inv(w, grpcQueue, Nothing, ts, worker, activeCalls)
    BY <1>3, <1>4 DEF Inv
  <1>6. World' = w /\ grpcQueue' = grpcQueue /\ polled' = Nothing /\ tasks' = ts
        /\ worker' = worker /\ activeCalls' = activeCalls
    BY <1>1, <1>2 DEF Enqueue, World
  <1> QED  BY <1>5, <1>6 DEF IInv

\* gRPC gives an operation back; it fails only when the call is over.
LEMMA ResultKeeps ==
    ASSUME IInv, NEW i \in DOMAIN completions, WithGrpc(i), NEW result \in BOOLEAN,
           Result(i, result), ~result => CallOf(i) # "open"
    PROVE  IInv'
  <1>1. PICK w : w = World
    OBVIOUS
  <1>2. PICK r : r = [id |-> i, ok |-> result]
    OBVIOUS
  <1>3. Inv(w, grpcQueue, polled, tasks, worker, activeCalls)
        /\ w.cs = completions /\ w.g = streams
    BY <1>1 DEF IInv, World
  <1>4. r \in Outcome /\ r.id = i /\ r.ok = result
    <2>1. i \in Id
      BY <1>3 DEF Inv, Sound, IsWorld
    <2> QED  BY <1>2, <2>1 DEF Outcome
  <1>5. i \notin Back(polled, tasks) /\ i \notin Ids(grpcQueue)
    BY OffQueueIs DEF WithGrpc, Ids
  <1>6. Known(w, r)
    BY <1>3, <1>4 DEF Known, CallOf
  <1>7. QueuesOK(w, Append(grpcQueue, r), polled, tasks)
    BY <1>3, <1>4, <1>5, <1>6, ResultQueues DEF Inv
  <1>8. Inv(w, Append(grpcQueue, r), polled, tasks, worker, activeCalls)
    BY <1>3, <1>7 DEF Inv
  <1>9. World' = w /\ grpcQueue' = Append(grpcQueue, r) /\ polled' = polled /\ tasks' = tasks
        /\ worker' = worker /\ activeCalls' = activeCalls
    BY <1>1, <1>2 DEF Result, World
  <1> QED  BY <1>8, <1>9 DEF IInv

\* What gRPC does keeps the invariant.
LEMMA GrpcKeeps ==
    ASSUME IInv, NEW i \in DOMAIN completions,
           ReadSucceeds(i) \/ WriteSucceeds(i) \/ OperationFails(i) \/ FinishSucceeds(i)
    PROVE  IInv'
  <1>1. \E result \in BOOLEAN :
           WithGrpc(i) /\ Result(i, result) /\ (~result => CallOf(i) # "open")
    BY DEF ReadSucceeds, WriteSucceeds, OperationFails, FinishSucceeds, OfType
  <1> QED  BY <1>1, ResultKeeps

\* The backend may end any call.
LEMMA CallEndsKeeps ==
    ASSUME IInv, NEW s \in Stream, CallEnds(s)
    PROVE  IInv'
  <1>1. PICK w : w = World
    OBVIOUS
  <1>2. PICK r : r = [w.g[s] EXCEPT !.call = "ended"]
    OBVIOUS
  <1>3. PICK v : v = [g |-> [w.g EXCEPT ![s] = r], cs |-> w.cs, ok |-> TRUE]
    OBVIOUS
  <1>4. /\ Inv(w, grpcQueue, polled, tasks, worker, activeCalls)
        /\ w.g = streams /\ w.cs = completions /\ w.ok = ok
    BY <1>1 DEF IInv, World
  <1>5. s \in Alive(w) /\ w.g[s].call = "open"
    BY <1>4 DEF CallEnds, Alive
  <1>6. WithRecord(w, v, s, r)
    BY <1>3 DEF WithRecord
  <1>7. Inv(v, grpcQueue, polled, tasks, worker, activeCalls)
    BY <1>2, <1>4, <1>5, <1>6, Ended
  <1>8. Become(v)
    <2>1. w.ok = TRUE
      BY <1>4, WorldParts DEF Inv, Sound
    <2>2. streams' = [w.g EXCEPT ![s] = r] /\ completions' = w.cs /\ ok' = TRUE
      BY <1>2, <1>4, <2>1 DEF CallEnds
    <2> QED  BY <1>3, <2>2 DEF Become
  <1>9. /\ grpcQueue' = grpcQueue /\ polled' = polled /\ tasks' = tasks
        /\ worker' = worker /\ activeCalls' = activeCalls
    BY DEF CallEnds
  <1> QED  BY <1>7, <1>8, <1>9, BlockedStep

\* Before the first call the invariant holds.
LEMMA InitInv == Init => IInv
  <1> SUFFICES ASSUME Init PROVE IInv
    OBVIOUS
  <1>1. PICK w : w = World
    OBVIOUS
  <1>2. /\ w = [g |-> streams, cs |-> completions, ok |-> TRUE]
        /\ w.g = streams /\ w.cs = completions
    BY <1>1 DEF Init, World
  <1>3. DOMAIN w.cs = {} /\ \A s \in Stream : w.g[s] = Nothing
    BY <1>2 DEF Init
  <1>4. Alive(w) = {}
    BY <1>3 DEF Alive
  <1>5. IsWorld(w)
    <2>1. w.g \in [Stream -> GrpcStream \cup {Nothing}]
      BY <1>2 DEF Init
    <2>2. w \in [g: [Stream -> GrpcStream \cup {Nothing}], cs: {w.cs}, ok: {TRUE}]
      BY <1>2, <2>1
    <2>3. w.cs \in [DOMAIN w.cs -> Completion]
      <3>1. w.cs = [i \in {} |-> Nothing]
        BY <1>2 DEF Init
      <3> QED  BY <3>1
    <2>4. IsFiniteSet(DOMAIN w.cs)
      BY <1>3, FS_EmptySet
    <2> QED  BY <1>3, <2>2, <2>3, <2>4 DEF IsWorld
  <1>6. <<>> \in Seq(Outcome) /\ <<>> \in Seq(Stream) /\ DOMAIN <<>> = {}
    OBVIOUS
  <1>7. Ids(<<>>) = {} /\ Back(Nothing, <<>>) = {} /\ Distinct(<<>>) /\ AllKnown(w, <<>>)
    BY <1>6 DEF Ids, Back, Distinct, AllKnown
  <1>8. QueuesOK(w, <<>>, Nothing, <<>>)
    BY <1>6, <1>7 DEF QueuesOK
  <1>9. Names(<<>>, Alive(w))
    BY <1>4, <1>6 DEF Names, IsInjective, Range
  <1>10. Sound(w, Back(Nothing, <<>>))
    BY <1>3, <1>4, <1>5 DEF Sound
  <1>11. IdleInv(w, <<>>, Nothing, <<>>, <<>>)
    BY <1>4, <1>8, <1>9, <1>10 DEF IdleInv
  <1>12. Inv(w, <<>>, Nothing, <<>>, Idle, <<>>)
    BY <1>11, IdleIs
  <1> QED  BY <1>1, <1>12 DEF Init, IInv

\* Every step of the threads, of gRPC and of the backend keeps the invariant.
LEMMA NextInv == IInv /\ [Next]_vars => IInv'
  <1> SUFFICES ASSUME IInv, [Next]_vars PROVE IInv'
    OBVIOUS
  <1>1. ASSUME NEW s \in Stream, Start(s) PROVE IInv'
    BY <1>1, StartKeeps
  <1>2. ASSUME NEW s \in Stream, ObserverWrites(s) PROVE IInv'
    BY <1>2, ObserverWritesKeeps
  <1>3. ASSUME NEW s \in Stream, Stop(s) PROVE IInv'
    BY <1>3, StopKeeps
  <1>4. ASSUME NEW s \in Stream, CallEnds(s) PROVE IInv'
    BY <1>4, CallEndsKeeps
  <1>5. CASE NetworkChanges
    BY <1>5, NetworkChangesKeeps
  <1>6. CASE RunTask
    BY <1>6, RunTaskKeeps
  <1>7. CASE Proceed
    BY <1>7, ProceedKeeps
  <1>8. CASE LastWriteEnds
    BY <1>8, LastWriteEndsKeeps
  <1>9. CASE Poll
    BY <1>9, PollKeeps
  <1>10. CASE Enqueue
    BY <1>10, EnqueueKeeps
  <1>11. ASSUME NEW i \in DOMAIN completions,
                ReadSucceeds(i) \/ WriteSucceeds(i) \/ OperationFails(i) \/ FinishSucceeds(i)
         PROVE  IInv'
    BY <1>11, GrpcKeeps
  <1>12. CASE UNCHANGED vars
    BY <1>12 DEF vars, IInv, World
  <1> QED  BY <1>1, <1>2, <1>3, <1>4, <1>5, <1>6, <1>7, <1>8, <1>9, <1>10, <1>11, <1>12 DEF Next

\* It always holds.
LEMMA InvHolds == Spec => []IInv
  BY InitInv, NextInv, PTL DEF Spec

--------------------------------------------------------------------------------
(* What it implies.                                                         *)

\* What gRPC still has to finish of a stream is on the stream's list.
LEMMA OutstandingListed ==
    ASSUME IInv, NEW s \in Stream, NEW type
    PROVE  Outstanding(s, {type}) \subseteq Of(World, s, type)
  <1>1. ASSUME NEW i \in Outstanding(s, {type}) PROVE i \in Of(World, s, type)
    <2>1. /\ i \in DOMAIN completions /\ completions[i].stream = s
          /\ completions[i].type = type /\ ~OffQueue(i)
      BY DEF Outstanding
    <2>2. i \notin Back(polled, tasks)
      BY <2>1, OffQueueIs
    <2>3. PICK w : w = World
      OBVIOUS
    <2>4. w.cs = completions /\ Sound(w, Back(polled, tasks))
      BY <2>3 DEF IInv, Inv, World
    <2>5. CompletionOK(w, Back(polled, tasks), i)
      BY <2>1, <2>4 DEF Sound
    <2>6. Owned(w, i)
      BY <2>2, <2>5 DEF CompletionOK
    <2>7. i \in w.g[s].completions
      BY <2>1, <2>4, <2>6 DEF Owned
    <2> QED  BY <2>1, <2>3, <2>4, <2>7 DEF Of
  <1> QED  BY <1>1

\* A set without two elements has at most one.
LEMMA AtMostOneIs ==
    ASSUME NEW S, NEW T, T \subseteq S, AtMostOne(S)
    PROVE  Cardinality(T) <= 1
  <1>1. CASE T = {}
    BY <1>1, FS_EmptySet
  <1>2. CASE T # {}
    <2>1. PICK x : x \in T
      BY <1>2
    <2>2. T = {x}
      BY <2>1 DEF AtMostOne
    <2>3. Cardinality({x}) = 1
      BY FS_Singleton
    <2> QED  BY <2>2, <2>3
  <1> QED  BY <1>1, <1>2

\* The invariant gives the types.
LEMMA TypesHold ==
    ASSUME IInv
    PROVE  TypeOK
  <1>1. PICK w : w = World
    OBVIOUS
  <1>2. /\ Inv(w, grpcQueue, polled, tasks, worker, activeCalls)
        /\ w.g = streams /\ w.cs = completions
    BY <1>1 DEF IInv, World
  <1>3. IsWorld(w) /\ QueuesOK(w, grpcQueue, polled, tasks)
    BY <1>2 DEF Inv, Sound
  <1>4. /\ streams \in [Stream -> GrpcStream \cup {Nothing}]
        /\ DOMAIN completions \subseteq Id
    BY <1>2, <1>3 DEF IsWorld
  <1>5. Range(completions) \subseteq Completion
    BY <1>2, <1>3 DEF IsWorld, Range
  <1>6. Range(activeCalls) \subseteq Stream
    BY <1>2 DEF Inv, RegisteredOK, Names, Alive
  <1>7. ASSUME NEW q \in Seq(Outcome), Ids(q) \subseteq DOMAIN completions
        PROVE  Range(q) \subseteq [id: DOMAIN completions, ok: BOOLEAN]
    <2>1. ASSUME NEW k \in DOMAIN q PROVE q[k] \in [id: DOMAIN completions, ok: BOOLEAN]
      <3>1. q[k] \in Outcome
        BY LenProperties, ElementOfSeq
      <3>2. q[k].id \in DOMAIN completions
        BY <1>7 DEF Ids
      <3> QED  BY <3>1, <3>2 DEF Outcome
    <2> QED  BY <2>1 DEF Range
  <1>8. /\ grpcQueue \in Seq(Outcome) /\ Ids(grpcQueue) \subseteq DOMAIN completions
        /\ tasks \in Seq(Outcome) /\ Ids(tasks) \subseteq DOMAIN completions
        /\ polled \in Outcome \cup {Nothing}
    BY <1>2, <1>3 DEF QueuesOK, Back
  <1>9. {polled} \ {Nothing} \subseteq [id: DOMAIN completions, ok: BOOLEAN]
    <2>1. ASSUME polled # Nothing PROVE polled \in [id: DOMAIN completions, ok: BOOLEAN]
      <3>1. polled \in Outcome /\ polled.id \in Id
        BY <1>8, <2>1 DEF Outcome
      <3>2. polled.id \in DOMAIN completions
        BY <1>2, <1>3, <2>1, <3>1 DEF QueuesOK, Back
      <3> QED  BY <3>1, <3>2 DEF Outcome
    <2> QED  BY <2>1
  <1>10. worker.at \in {"idle", "lastWrite", "failing", "cancelling", "finishing"}
    BY <1>2 DEF Inv, WorkerOK, Idle
  <1>11. /\ Range(grpcQueue) \subseteq [id: DOMAIN completions, ok: BOOLEAN]
         /\ Range(tasks) \subseteq [id: DOMAIN completions, ok: BOOLEAN]
    BY <1>7, <1>8
  <1> QED  BY <1>4, <1>5, <1>6, <1>9, <1>10, <1>11 DEF TypeOK

\* The invariant implies that the calls are legal, ...
LEMMA LegalIfInv == IInv => CallsAreLegal
  <1> SUFFICES ASSUME IInv PROVE CallsAreLegal
    OBVIOUS
  <1>1. PICK w : w = World
    OBVIOUS
  <1>2. /\ Inv(w, grpcQueue, polled, tasks, worker, activeCalls)
        /\ w.g = streams /\ w.cs = completions /\ w.ok = ok
    BY <1>1 DEF IInv, World
  <1>3. TypeOK
    BY TypesHold
  <1>4. ok
    BY <1>2, WorldParts DEF Inv, Sound
  <1>5. IsInjective(activeCalls)
    BY <1>2 DEF Inv, RegisteredOK, Names
  <1>6. ASSUME NEW s \in Stream, streams[s] # Nothing
        PROVE  /\ Cardinality(Outstanding(s, {"Read"})) <= 1
               /\ Cardinality(Outstanding(s, {"Write"})) <= 1
               /\ Outstanding(s, {"Finish"}) # {} =>
                     /\ streams[s].finished /\ Outstanding(s, {"Read"}) = {}
                     /\ Outstanding(s, {"Write"}) # {} => streams[s].call = "ended"
               /\ streams[s].given \o streams[s].buffer = [i \in 1 .. streams[s].written |-> i]
               /\ ~streams[s].finished => s \in Range(activeCalls)
    <2>1. s \in Alive(w)
      BY <1>2, <1>6 DEF Alive
    <2>2. StreamOK(w, s)
      BY <1>2, <2>1 DEF Inv, Sound
    <2>3. /\ Outstanding(s, {"Read"}) \subseteq Of(w, s, "Read")
          /\ Outstanding(s, {"Write"}) \subseteq Of(w, s, "Write")
          /\ Outstanding(s, {"Finish"}) \subseteq Of(w, s, "Finish")
      BY <1>1, OutstandingListed
    <2>4. /\ Cardinality(Outstanding(s, {"Read"})) <= 1
          /\ Cardinality(Outstanding(s, {"Write"})) <= 1
      BY <2>2, <2>3, AtMostOneIs DEF StreamOK
    <2>5. Outstanding(s, {"Finish"}) # {} =>
             /\ streams[s].finished /\ Outstanding(s, {"Read"}) = {}
             /\ Outstanding(s, {"Write"}) # {} => streams[s].call = "ended"
      BY <1>2, <2>2, <2>3 DEF StreamOK, BesideFinish
    <2>6. streams[s].given \o streams[s].buffer = [i \in 1 .. streams[s].written |-> i]
      BY <1>2, <2>2 DEF StreamOK, InOrder
    <2>7. ASSUME ~streams[s].finished PROVE s \in Range(activeCalls)
      <3>1. ~(Leaving(worker) /\ s = Head(worker.streams))
        <4>1. worker = Idle => ~Leaving(worker)
          BY DEF Idle, Leaving
        <4>2. Leaving(worker) => Waiting(worker)
          BY DEF Leaving, Waiting
        <4> QED  BY <1>2, <2>7, <4>1, <4>2 DEF Inv, WorkerOK
      <3> QED  BY <1>2, <2>1, <3>1 DEF Inv, RegisteredOK, Names
    <2> QED  BY <2>4, <2>5, <2>6, <2>7
  <1> QED  BY <1>3, <1>4, <1>5, <1>6 DEF CallsAreLegal

\* ... and that nothing outlives a stream.
LEMMA NothingOutlivesIfInv == IInv => NothingOutlivesTheStream
  <1> SUFFICES ASSUME IInv, NEW i \in DOMAIN completions
               PROVE  /\ completions[i].stream = Nothing =>
                            OffQueue(i) /\ completions[i].callback = "Cancelled"
                      /\ completions[i].callback = "FinishAndNotify" =>
                            streams[completions[i].stream].call = "ended"
    BY DEF NothingOutlivesTheStream
  <1>1. PICK w : w = World
    OBVIOUS
  <1>2. /\ Sound(w, Back(polled, tasks)) /\ w.g = streams /\ w.cs = completions
    BY <1>1 DEF IInv, Inv, World
  <1>3. CompletionOK(w, Back(polled, tasks), i)
    BY <1>2 DEF Sound
  <1>4. completions[i].stream = Nothing =>
           OffQueue(i) /\ completions[i].callback = "Cancelled"
    BY <1>2, <1>3, OffQueueIs DEF CompletionOK, Owned
  <1>5. ASSUME completions[i].callback = "FinishAndNotify"
        PROVE  streams[completions[i].stream].call = "ended"
    <2>1. Owned(w, i) /\ w.cs[i].stream \in Alive(w)
      BY <1>2, <1>3, <1>5 DEF CompletionOK, Owned
    <2>2. StreamOK(w, w.cs[i].stream) /\ i \in w.g[w.cs[i].stream].completions
      BY <1>2, <2>1 DEF Sound, Owned
    <2> QED  BY <1>2, <1>5, <2>2 DEF StreamOK
  <1> QED  BY <1>4, <1>5

\* No HARD_ASSERT of the streams fails, and gRPC is used as it asks to be: one read
\* and one write at a time, the writes in order, and one finish, after all others
\* and before any read; a write beside it is one of a call that gRPC has ended.
THEOREM CallsCorrect == Spec => []CallsAreLegal
  BY InvHolds, LegalIfInv, PTL

\* What is left of a destroyed stream gRPC has handed back, and calls nobody; an
\* observer is told only of calls that have ended.
THEOREM NothingOutlivesCorrect == Spec => []NothingOutlivesTheStream
  BY InvHolds, NothingOutlivesIfInv, PTL

================================================================================
