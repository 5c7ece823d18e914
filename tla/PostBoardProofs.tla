---------------------------- MODULE PostBoardProofs ----------------------------
(***************************************************************************)
(* Proofs about PostBoard, for every set of devices, names and texts and   *)
(* every bound.  First what the helpers return, then the types and the     *)
(* pipeline, one step per action.                                          *)
(*                                                                         *)
(* Then which posts can be where, for any assignment G of allowed posts to *)
(* names.  Posts reach the board, the caches, the answers and the feeds    *)
(* only by way of a queue, and a queue only from saveTask; so the allowed  *)
(* posts are kept by every step but saveTask, and by saveTask when it      *)
(* writes an allowed post.                                                 *)
(*                                                                         *)
(* Last the local view of a device: which pending write decides what a     *)
(* name shows, and that an acknowledgement changes nothing.                *)
(***************************************************************************)
EXTENDS PostBoard, SequenceTheorems, FiniteSetTheorems, TLAPS

\* The model's two counts of a device's writes, the ones the backend has
\* applied and the ones the cache reflects, are counts of pending writes.
\* (They are bookkeeping of the model; the types need it.)
PipelineOK ==
    \A d \in Device : fresh[d] <= sent[d] /\ sent[d] <= Len(queue[d])

--------------------------------------------------------------------------------
(* Sequences written as functions, and concatenation with one of them.     *)

\* A function on 1..n is a sequence of length n.
LEMMA FunctionIsSequence ==
    ASSUME NEW S, NEW n \in Nat, NEW f \in [1..n -> S]
    PROVE  f \in Seq(S) /\ Len(f) = n
  BY SeqDef

\* What leaving a page makes of a read, of the reads and of the answers
\* waiting for it: the same number of them, of the same type.
LEMMA DetachedType ==
    ASSUME NEW r \in Request, NEW content \in Draft
    PROVE  Detached(r, content) \in Request
  BY DEF Detached, Request

LEMMA DetachedReadsType ==
    ASSUME NEW rs \in Seq(Request), NEW content \in Draft
    PROVE  DetachedReads(rs, content) \in Seq(Request)
  <1>1. rs \in [1..Len(rs) -> Request] /\ Len(rs) \in Nat
    BY LenProperties
  <1>2. DetachedReads(rs, content) \in [1..Len(rs) -> Request]
    BY <1>1, DetachedType DEF DetachedReads
  <1> QED  BY <1>1, <1>2, FunctionIsSequence

LEMMA DetachedAnswersType ==
    ASSUME NEW as \in Seq(Answer), NEW content \in Draft
    PROVE  /\ DetachedAnswers(as, content) \in Seq(Answer)
           /\ Len(DetachedAnswers(as, content)) = Len(as)
           /\ \A i \in 1..Len(as) :
                  DetachedAnswers(as, content)[i].result = as[i].result
  <1>1. as \in [1..Len(as) -> Answer] /\ Len(as) \in Nat
    BY LenProperties
  <1>2. \A i \in 1..Len(as) :
            [as[i] EXCEPT !.req = Detached(@, content)] \in Answer
    BY <1>1, DetachedType DEF Answer
  <1>3. DetachedAnswers(as, content) \in [1..Len(as) -> Answer]
    BY <1>1, <1>2 DEF DetachedAnswers
  <1>4. \A i \in 1..Len(as) :
            DetachedAnswers(as, content)[i].result = as[i].result
    BY <1>1 DEF DetachedAnswers, Answer
  <1> QED  BY <1>1, <1>3, <1>4, FunctionIsSequence

\* A device's local view is a collection.
LEMMA OverlayType ==
    ASSUME NEW docs \in Contents, NEW q \in Seq(Mutation)
    PROVE  Overlay(docs, q) \in Contents
  <1>0. q \in [1..Len(q) -> Mutation]
    BY LenProperties
  <1>1. \A i \in DOMAIN q : q[i].doc \in Post \cup {NoDoc}
    BY <1>0 DEF Mutation
  <1>2. \A k \in Name : (\E i \in DOMAIN q : IsLastWrite(q, k, i)) =>
            (CHOOSE i \in DOMAIN q : IsLastWrite(q, k, i)) \in DOMAIN q
    OBVIOUS
  <1> QED  BY <1>1, <1>2 DEF Overlay, Contents

--------------------------------------------------------------------------------
(* Type correctness.                                                       *)

LEMMA TypeInit == Init => TypeOK
  BY BoardAssumption, MarksAssumption
  DEF Init, TypeOK, StoreInit, StoreTypeOK, Empty, Contents, Blank, Draft, Mutation, Answer

\* Every outstanding read gets the same answer.
LEMMA RaiseSnapshotType ==
    ASSUME StoreTypeOK, NEW d \in Device, NEW result \in Contents \cup {Failed},
           RaiseSnapshot(d, result)
    PROVE  /\ gets' \in [Device -> Seq(Request)]
           /\ inbox' \in [Device -> Seq(Answer)]
  <1> DEFINE answers == [i \in DOMAIN gets[d] |-> [req |-> gets[d][i], result |-> result]]
  <1>1. gets[d] \in [1..Len(gets[d]) -> Request] /\ Len(gets[d]) \in Nat
    BY LenProperties DEF StoreTypeOK
  <1>2. answers \in [1..Len(gets[d]) -> Answer]
    BY <1>1 DEF Answer
  <1>3. answers \in Seq(Answer)
    BY <1>1, <1>2, FunctionIsSequence
  <1>4. inbox[d] \o answers \in Seq(Answer)
    BY <1>3, ConcatProperties DEF StoreTypeOK
  <1>5. inbox' = [inbox EXCEPT ![d] = inbox[d] \o answers]
    BY DEF RaiseSnapshot
  <1> HIDE DEF answers
  <1>6. inbox' \in [Device -> Seq(Answer)]
    BY <1>4, <1>5 DEF StoreTypeOK
  <1>7. gets' \in [Device -> Seq(Request)]
    BY DEF StoreTypeOK, RaiseSnapshot
  <1> QED  BY <1>6, <1>7

\* n more writes of one kind are writes.
LEMMA WriteMutationsType ==
    ASSUME StoreTypeOK, NEW d \in Device, NEW m \in Mutation, NEW n \in Nat,
           WriteMutations(d, m, n)
    PROVE  queue' \in [Device -> Seq(Mutation)]
  <1> DEFINE new == [i \in 1..n |-> m]
  <1>1. new \in Seq(Mutation)
    BY FunctionIsSequence
  <1>2. queue[d] \o new \in Seq(Mutation)
    BY <1>1, ConcatProperties DEF StoreTypeOK
  <1>3. queue' = [queue EXCEPT ![d] = queue[d] \o new]
    BY DEF WriteMutations
  <1> HIDE DEF new
  <1> QED  BY <1>2, <1>3 DEF StoreTypeOK

\* Leaving a page, with answers still to handle.
LEMMA CloseWindowType ==
    ASSUME TypeOK, NEW d \in Device, NEW left \in Seq(Answer), CloseWindow(d, left)
    PROVE  /\ screen' \in [Device -> {"feed", "new", "detail"}]
           /\ gets' \in [Device -> Seq(Request)]
           /\ inbox' \in [Device -> Seq(Answer)]
           /\ fields' \in [Device -> Draft]
           /\ currentPost' \in [Device -> Text]
           /\ nameLabel' \in [Device -> Name]
           /\ taskArray' \in [Device -> Contents]
  <1>1. fields[d] \in Draft /\ gets[d] \in Seq(Request)
    BY DEF TypeOK, StoreTypeOK
  <1>2. DetachedReads(gets[d], fields[d]) \in Seq(Request)
    BY <1>1, DetachedReadsType
  <1>3. DetachedAnswers(left, fields[d]) \in Seq(Answer)
    BY <1>1, DetachedAnswersType
  <1>4. gets' \in [Device -> Seq(Request)] /\ inbox' \in [Device -> Seq(Answer)]
    BY <1>2, <1>3 DEF CloseWindow, TypeOK, StoreTypeOK
  <1>5. Blank \in Draft /\ NoText \in Text /\ Placeholder \in Name
    BY BoardAssumption DEF Blank, Draft
  <1> QED  BY <1>4, <1>5 DEF CloseWindow, TypeOK

\* The process ends and starts again.
LEMMA RelaunchType ==
    ASSUME TypeOK, NEW d \in Device, Relaunch(d), UNCHANGED <<server, cache, queue>>
    PROVE  /\ StoreTypeOK'
           /\ screen' \in [Device -> {"feed", "new", "detail"}]
           /\ taskArray' \in [Device -> Contents]
           /\ fields' \in [Device -> Draft]
           /\ currentPost' \in [Device -> Text]
           /\ nameLabel' \in [Device -> Name]
  <1>1. Blank \in Draft /\ NoText \in Text /\ Placeholder \in Name /\ Empty \in Contents
    BY BoardAssumption DEF Blank, Draft, Empty, Contents
  <1>2. /\ sent' \in [Device -> Nat] /\ fresh' \in [Device -> Nat]
        /\ gets' \in [Device -> Seq(Request)] /\ inbox' \in [Device -> Seq(Answer)]
    BY DEF Relaunch, LoseMemory, Resend, TypeOK, StoreTypeOK
  <1>3. StoreTypeOK'
    BY <1>2 DEF TypeOK, StoreTypeOK, Contents, Mutation, Answer, Request
  <1> QED  BY <1>1, <1>3 DEF Relaunch, TypeOK

\* The answer at the head of the inbox, and what is left behind it.
LEMMA NextAnswerType ==
    ASSUME TypeOK, NEW d \in Device, inbox[d] # <<>>
    PROVE  /\ Head(inbox[d]) \in Answer
           /\ Tail(inbox[d]) \in Seq(Answer)
           /\ Typed(d) \in Draft
  <1>1. inbox[d] \in Seq(Answer) /\ fields[d] \in Draft
    BY DEF TypeOK, StoreTypeOK
  <1>2. Head(inbox[d]) \in Answer /\ Tail(inbox[d]) \in Seq(Answer)
    BY <1>1, HeadTailProperties
  <1> QED  BY <1>1, <1>2 DEF Typed, Answer, Request

\* The loop of saveTask ends.
LEMMA WritesType ==
    ASSUME TypeOK, NEW d \in Device, inbox[d] # <<>>
    PROVE  Writes(d) \in Nat
  <1> DEFINE docs == Head(inbox[d]).result
             others == OtherPosts(docs, Typed(d).name)
  <1>1. others \subseteq Name /\ IsFiniteSet(Name)
    BY BoardAssumption DEF OtherPosts, Present
  <1>2. Cardinality(others) \in Nat
    BY <1>1, FS_Subset, FS_CardinalityType
  <1> QED  BY <1>2 DEF Writes

\* Every step keeps the types.
LEMMA TypeNext == TypeOK /\ PipelineOK /\ [Next]_vars => TypeOK'
  <1> SUFFICES ASSUME TypeOK, PipelineOK, [Next]_vars PROVE TypeOK'
    OBVIOUS
  <1> USE DEF TypeOK, StoreTypeOK
  <1>1. CASE UNCHANGED vars
    BY <1>1 DEF vars, Contents, Mutation, Answer
  <1>2. ASSUME NEW d \in Device, UpdateTimer(d) PROVE TypeOK'
    <2>1. [for |-> "feed", page |-> Open] \in Request
      BY DEF Request
    <2>2. gets' \in [Device -> Seq(Request)]
      BY <1>2, <2>1, AppendProperties DEF UpdateTimer, GetDocuments
    <2> QED  BY <1>2, <2>2 DEF UpdateTimer, appVars, bounds, Contents, Mutation, Answer
  <1>3. ASSUME NEW d \in Device, NewPostButton(d) PROVE TypeOK'
    BY <1>3 DEF NewPostButton, clientVars, bounds, Contents, Mutation, Answer
  <1>4. ASSUME NEW d \in Device, EditName(d) PROVE TypeOK'
    <2>1. PICK n \in Name \cup {NoName} : fields' = [fields EXCEPT ![d].name = n]
      BY <1>4 DEF EditName
    <2>2. [fields[d] EXCEPT !.name = n] \in Draft
      BY DEF Draft
    <2>3. fields' \in [Device -> Draft]
      BY <2>1, <2>2
    <2> QED  BY <1>4, <2>3 DEF EditName, clientVars, bounds, Contents, Mutation, Answer
  <1>5. ASSUME NEW d \in Device, EditText(d) PROVE TypeOK'
    <2>1. PICK t \in Text : fields' = [fields EXCEPT ![d].text = t]
      BY <1>5 DEF EditText
    <2>2. [fields[d] EXCEPT !.text = t] \in Draft
      BY DEF Draft
    <2>3. fields' \in [Device -> Draft]
      BY <2>1, <2>2
    <2> QED  BY <1>5, <2>3 DEF EditText, clientVars, bounds, Contents, Mutation, Answer
  <1>6. ASSUME NEW d \in Device, SaveButPress(d) PROVE TypeOK'
    <2>1. [for |-> "save", page |-> Open] \in Request
      BY DEF Request
    <2>2. gets' \in [Device -> Seq(Request)]
      BY <1>6, <2>1, AppendProperties DEF SaveButPress, GetDocuments
    <2>3. presses' \in 0..MaxPresses
      BY <1>6, BoardAssumption DEF SaveButPress, Press
    <2> QED  BY <1>6, <2>2, <2>3 DEF SaveButPress, appVars, Contents, Mutation, Answer
  <1>7. ASSUME NEW d \in Device, DidSelectRow(d) PROVE TypeOK'
    <2>1. [for |-> "detail", page |-> Open] \in Request
      BY DEF Request
    <2>2. gets' \in [Device -> Seq(Request)]
      BY <1>7, <2>1, AppendProperties DEF DidSelectRow, GetDocuments
    <2>3. \A k \in Present(taskArray[d]) : taskArray[d][k].text \in Text
      BY DEF Present, Contents, Post
    <2>4. currentPost' \in [Device -> Text] /\ screen' \in [Device -> {"feed", "new", "detail"}]
      BY <1>7, <2>3 DEF DidSelectRow
    <2> QED  BY <1>7, <2>2, <2>4 DEF DidSelectRow, bounds, Contents, Mutation, Answer
  <1>8. ASSUME NEW d \in Device, Delete(d) PROVE TypeOK'
    <2>1. [key |-> nameLabel[d], doc |-> NoDoc] \in Mutation
      BY DEF Mutation
    <2>2. queue' \in [Device -> Seq(Mutation)]
      BY <1>8, <2>1, WriteMutationsType DEF Delete
    <2>3. presses' \in 0..MaxPresses
      BY <1>8, BoardAssumption DEF Delete, Press
    <2>4. inbox[d] \in Seq(Answer) /\ CloseWindow(d, inbox[d])
      BY <1>8 DEF Delete
    <2> QED  BY <1>8, <2>2, <2>3, <2>4, CloseWindowType DEF Delete, Contents
  <1>9. ASSUME NEW d \in Device, Back(d) PROVE TypeOK'
    <2>1. inbox[d] \in Seq(Answer) /\ CloseWindow(d, inbox[d])
      BY <1>9 DEF Back
    <2> QED  BY <1>9, <2>1, CloseWindowType DEF Back, bounds, Contents, Mutation
  <1>10. ASSUME NEW d \in Device, Update(d) PROVE TypeOK'
    <2>1. Head(inbox[d]) \in Answer /\ Tail(inbox[d]) \in Seq(Answer)
      BY <1>10, NextAnswerType DEF Update, NextAnswer
    <2>2. taskArray' \in [Device -> Contents]
      BY <1>10, <2>1 DEF Update, Answer
    <2>3. inbox' \in [Device -> Seq(Answer)]
      BY <1>10, <2>1 DEF Update, Handled
    <2> QED  BY <1>10, <2>2, <2>3 DEF Update, bounds, Contents, Mutation
  <1>11. ASSUME NEW d \in Device, ShowPost(d) PROVE TypeOK'
    <2> DEFINE a == Head(inbox[d])
               found == IF a.result = Failed \/ a.req.page # Open
                        THEN {} ELSE Matching(a.result, currentPost[d])
    <2>1. a \in Answer /\ Tail(inbox[d]) \in Seq(Answer)
      BY <1>11, NextAnswerType DEF ShowPost, NextAnswer
    <2>2. \A k \in found : a.result[k].name \in Name
      BY <2>1 DEF Matching, Present, Answer, Contents, Post
    <2>3. (\E k \in found : IsLast(found, k)) =>
              (CHOOSE k \in found : IsLast(found, k)) \in found
      OBVIOUS
    <2>4. nameLabel' = [nameLabel EXCEPT ![d] =
               IF \E k \in found : IsLast(found, k)
               THEN a.result[CHOOSE k \in found : IsLast(found, k)].name
               ELSE nameLabel[d]]
      BY <1>11 DEF ShowPost
    <2> HIDE DEF found
    <2>5. nameLabel' \in [Device -> Name]
      BY <2>2, <2>3, <2>4
    <2>6. inbox' \in [Device -> Seq(Answer)]
      BY <1>11, <2>1 DEF ShowPost, Handled
    <2> QED  BY <1>11, <2>5, <2>6 DEF ShowPost, bounds, Contents, Mutation
  <1>12. ASSUME NEW d \in Device, SaveNothing(d) PROVE TypeOK'
    <2>1. Tail(inbox[d]) \in Seq(Answer)
      BY <1>12, NextAnswerType DEF SaveNothing, NextAnswer
    <2>2. inbox' \in [Device -> Seq(Answer)]
      BY <1>12, <2>1 DEF SaveNothing, Handled
    <2> QED  BY <1>12, <2>2 DEF SaveNothing, appVars, bounds, Contents, Mutation
  <1>13. ASSUME NEW d \in Device, SaveTask(d) PROVE TypeOK'
    <2>1. /\ inbox[d] # <<>> /\ NamesDocument(Typed(d).name)
          /\ WriteMutations(d, NewPost(d), Writes(d))
      BY <1>13 DEF SaveTask, NextAnswer
    <2>2. Tail(inbox[d]) \in Seq(Answer) /\ Typed(d) \in Draft
      BY <2>1, NextAnswerType
    <2>3. NewPost(d) \in Mutation
      BY <2>1, <2>2 DEF NewPost, NamesDocument, Draft, Mutation, Post
    <2>4. queue' \in [Device -> Seq(Mutation)]
      BY <2>1, <2>3, WritesType, WriteMutationsType
    <2>5. CASE Head(inbox[d]).req.page = Open
      <3>1. CloseWindow(d, Tail(inbox[d]))
        BY <1>13, <2>5 DEF SaveTask
      <3> QED  BY <1>13, <2>2, <2>4, <3>1, CloseWindowType DEF SaveTask, bounds, Contents
    <2>6. CASE Head(inbox[d]).req.page # Open
      <3>1. Handled(d) /\ UNCHANGED <<gets, appVars>>
        BY <1>13, <2>6 DEF SaveTask
      <3>2. inbox' \in [Device -> Seq(Answer)]
        BY <2>2, <3>1 DEF Handled
      <3> QED  BY <1>13, <2>4, <3>1, <3>2 DEF SaveTask, appVars, bounds, Contents
    <2> QED  BY <2>5, <2>6
  <1>14. ASSUME NEW d \in Device, SaveCrash(d) PROVE TypeOK'
    <2>1. Relaunch(d) /\ UNCHANGED <<server, cache, queue, bounds>>
      BY <1>14 DEF SaveCrash
    <2> QED  BY <2>1, RelaunchType DEF bounds
  <1>15. ASSUME NEW d \in Device, Kill(d) PROVE TypeOK'
    <2>1. Relaunch(d) /\ UNCHANGED <<server, cache, queue, presses, refusals>>
      BY <1>15 DEF Kill
    <2>2. faults' \in 0..MaxFaults
      BY <1>15, BoardAssumption DEF Kill, Fault
    <2> QED  BY <2>1, <2>2, RelaunchType
  <1>16. ASSUME NEW d \in Device, Synced(d) PROVE TypeOK'
    <2>1. Overlay(server, queue[d]) \in Contents
      BY OverlayType
    <2>2. gets' \in [Device -> Seq(Request)] /\ inbox' \in [Device -> Seq(Answer)]
      BY <1>16, <2>1, RaiseSnapshotType DEF Synced, ApplyRemoteEvent
    <2>3. cache' \in [Device -> Contents] /\ fresh' \in [Device -> Nat]
      BY <1>16 DEF Synced, ApplyRemoteEvent
    <2> QED  BY <1>16, <2>2, <2>3 DEF Synced, ApplyRemoteEvent, appVars, bounds, Contents, Mutation
  <1>17. ASSUME NEW d \in Device, Offline(d) PROVE TypeOK'
    <2>1. LocalView(d) \in Contents
      BY OverlayType DEF LocalView
    <2>2. gets' \in [Device -> Seq(Request)] /\ inbox' \in [Device -> Seq(Answer)]
      BY <1>17, <2>1, RaiseSnapshotType DEF Offline, AnswerOffline
    <2> QED  BY <1>17, <2>2 DEF Offline, AnswerOffline, appVars, bounds, Contents, Mutation
  <1>18. ASSUME NEW d \in Device, Refused(d) PROVE TypeOK'
    <2>1. gets' \in [Device -> Seq(Request)] /\ inbox' \in [Device -> Seq(Answer)]
      BY <1>18, RaiseSnapshotType DEF Refused, HandleRejectedListen
    <2>2. refusals' \in 0..MaxRefusals
      BY <1>18, BoardAssumption DEF Refused, Refusal
    <2> QED  BY <1>18, <2>1, <2>2 DEF Refused, HandleRejectedListen, appVars, Contents, Mutation
  <1>19. ASSUME NEW d \in Device, Commit(d) PROVE TypeOK'
    <2>1. sent[d] + 1 \in 1..Len(queue[d])
      BY <1>19, LenProperties DEF Commit, CommitNext
    <2>2. queue[d][sent[d] + 1] \in Mutation
      BY <2>1, ElementOfSeq
    <2>3. server' \in Contents
      BY <1>19, <2>2 DEF Commit, CommitNext, Contents, Mutation
    <2>4. sent' \in [Device -> Nat]
      BY <1>19 DEF Commit, CommitNext
    <2> QED  BY <1>19, <2>3, <2>4 DEF Commit, CommitNext, appVars, bounds, Contents, Mutation, Answer
  <1>20. ASSUME NEW d \in Device, Ack(d) PROVE TypeOK'
    <2>1. sent[d] \in Nat \ {0} /\ queue[d] # <<>> /\ fresh[d] \in Nat
      BY <1>20, EmptySeq DEF Ack, HandleSuccessfulWrite, PipelineOK
    <2>2. Head(queue[d]) \in Mutation /\ Tail(queue[d]) \in Seq(Mutation)
      BY <2>1, HeadTailProperties
    <2>3. queue' \in [Device -> Seq(Mutation)]
      BY <1>20, <2>2 DEF Ack, HandleSuccessfulWrite
    <2>4. sent[d] - 1 \in Nat /\ sent' = [sent EXCEPT ![d] = sent[d] - 1]
      BY <1>20, <2>1 DEF Ack, HandleSuccessfulWrite
    <2>5. sent' \in [Device -> Nat]
      BY <2>4
    <2>6. CASE fresh[d] > 0
      <3>1. fresh[d] - 1 \in Nat /\ fresh' = [fresh EXCEPT ![d] = fresh[d] - 1] /\ cache' = cache
        BY <1>20, <2>1, <2>6 DEF Ack, HandleSuccessfulWrite
      <3>2. fresh' \in [Device -> Nat]
        BY <3>1
      <3> QED
        BY <1>20, <2>3, <2>5, <3>1, <3>2
        DEF Ack, HandleSuccessfulWrite, appVars, bounds, Contents, Answer
    <2>7. CASE ~(fresh[d] > 0)
      <3> DEFINE m == Head(queue[d])
      <3>1. fresh' = fresh /\ cache' = [cache EXCEPT ![d][m.key] = m.doc]
        BY <1>20, <2>7 DEF Ack, HandleSuccessfulWrite
      <3>2. [cache[d] EXCEPT ![m.key] = m.doc] \in Contents
        BY <2>2 DEF Mutation, Contents
      <3> HIDE DEF m
      <3>3. cache' \in [Device -> Contents]
        BY <3>1, <3>2
      <3> QED
        BY <1>20, <2>3, <2>5, <3>1, <3>3
        DEF Ack, HandleSuccessfulWrite, appVars, bounds, Contents, Answer
    <2> QED  BY <2>6, <2>7
  <1>21. ASSUME NEW d \in Device, Reject(d) PROVE TypeOK'
    <2>1. Tail(queue[d]) \in Seq(Mutation)
      BY <1>21, HeadTailProperties DEF Reject, HandleRejectedWrite
    <2>2. queue' \in [Device -> Seq(Mutation)]
      BY <1>21, <2>1 DEF Reject, HandleRejectedWrite
    <2>3. refusals' \in 0..MaxRefusals
      BY <1>21, BoardAssumption DEF Reject, Refusal
    <2> QED  BY <1>21, <2>2, <2>3 DEF Reject, HandleRejectedWrite, appVars, Contents, Answer
  <1>22. ASSUME NEW d \in Device, Break(d) PROVE TypeOK'
    <2>1. faults' \in 0..MaxFaults
      BY <1>22, BoardAssumption DEF Break, Fault
    <2> QED  BY <1>22, <2>1 DEF Break, OnWriteStreamClose, Resend, appVars, Contents, Mutation, Answer
  <1> QED
    BY <1>1, <1>2, <1>3, <1>4, <1>5, <1>6, <1>7, <1>8, <1>9, <1>10, <1>11, <1>12,
       <1>13, <1>14, <1>15, <1>16, <1>17, <1>18, <1>19, <1>20, <1>21, <1>22
    DEF Next, HandleAnswer

--------------------------------------------------------------------------------
(* The write stream and the queue.                                         *)

\* Writes are added at the end of the queue.
LEMMA WriteMutationsGrows ==
    ASSUME StoreTypeOK, NEW d \in Device, NEW m \in Mutation, NEW n \in Nat,
           WriteMutations(d, m, n)
    PROVE  /\ \A e \in Device \ {d} : queue'[e] = queue[e]
           /\ Len(queue'[d]) = Len(queue[d]) + n
           /\ \A i \in 1..Len(queue'[d]) :
                  queue'[d][i] = IF i <= Len(queue[d]) THEN queue[d][i] ELSE m
  <1> DEFINE new == [i \in 1..n |-> m]
  <1>1. new \in Seq(Mutation) /\ Len(new) = n /\ \A i \in 1..n : new[i] = m
    BY FunctionIsSequence
  <1>2. /\ Len(queue[d]) \in Nat
        /\ Len(queue[d] \o new) = Len(queue[d]) + n
        /\ \A i \in 1..(Len(queue[d]) + n) :
               (queue[d] \o new)[i] = IF i <= Len(queue[d]) THEN queue[d][i]
                                      ELSE new[i - Len(queue[d])]
    BY <1>1, ConcatProperties, LenProperties DEF StoreTypeOK
  <1>3. queue' = [queue EXCEPT ![d] = queue[d] \o new]
    BY DEF WriteMutations
  <1> HIDE DEF new
  <1>4. queue'[d] = queue[d] \o new /\ \A e \in Device \ {d} : queue'[e] = queue[e]
    BY <1>3 DEF StoreTypeOK
  <1>5. \A i \in 1..(Len(queue[d]) + n) : i > Len(queue[d]) => i - Len(queue[d]) \in 1..n
    BY <1>2
  <1> QED  BY <1>1, <1>2, <1>4, <1>5

LEMMA PipelineInit == Init => PipelineOK
  BY EmptySeq DEF Init, StoreInit, PipelineOK

LEMMA PipelineNext == TypeOK /\ PipelineOK /\ [Next]_vars => PipelineOK'
  <1> SUFFICES ASSUME TypeOK, PipelineOK, [Next]_vars PROVE PipelineOK'
    OBVIOUS
  <1>1. \A d \in Device : sent[d] \in Nat /\ fresh[d] \in Nat /\ Len(queue[d]) \in Nat
    BY LenProperties DEF TypeOK, StoreTypeOK
  <1>2. CASE UNCHANGED <<queue, sent, fresh>>
    BY <1>2 DEF PipelineOK
  <1>3. ASSUME NEW d \in Device, NEW m \in Mutation, NEW n \in Nat,
               WriteMutations(d, m, n), UNCHANGED <<sent, fresh>>
        PROVE  PipelineOK'
    <2>1. StoreTypeOK
      BY DEF TypeOK
    <2>2. /\ \A e \in Device \ {d} : queue'[e] = queue[e]
          /\ Len(queue'[d]) = Len(queue[d]) + n
      BY <1>3, <2>1, WriteMutationsGrows
    <2>3. \A e \in Device : Len(queue[e]) <= Len(queue'[e]) /\ Len(queue'[e]) \in Nat
      BY <1>1, <2>2
    <2> QED  BY <1>1, <1>3, <2>3 DEF PipelineOK
  <1>4. ASSUME NEW d \in Device, Resend(d), UNCHANGED queue PROVE PipelineOK'
    BY <1>1, <1>4 DEF Resend, PipelineOK, TypeOK, StoreTypeOK
  <1>5. ASSUME NEW d \in Device, Synced(d) PROVE PipelineOK'
    BY <1>1, <1>5 DEF Synced, ApplyRemoteEvent, PipelineOK, TypeOK, StoreTypeOK
  <1>6. ASSUME NEW d \in Device, Commit(d) PROVE PipelineOK'
    BY <1>1, <1>6 DEF Commit, CommitNext, PipelineOK, TypeOK, StoreTypeOK
  <1>7. ASSUME NEW d \in Device, Ack(d) PROVE PipelineOK'
    <2>1. sent[d] > 0 /\ queue[d] \in Seq(Mutation) /\ queue[d] # <<>>
      BY <1>1, <1>7, EmptySeq DEF Ack, HandleSuccessfulWrite, PipelineOK, TypeOK, StoreTypeOK
    <2>2. Len(Tail(queue[d])) = Len(queue[d]) - 1
      BY <2>1, HeadTailProperties
    <2>3. /\ queue' = [queue EXCEPT ![d] = Tail(queue[d])]
          /\ sent' = [sent EXCEPT ![d] = sent[d] - 1]
          /\ fresh' = [fresh EXCEPT ![d] = IF fresh[d] > 0 THEN fresh[d] - 1 ELSE fresh[d]]
      BY <1>7 DEF Ack, HandleSuccessfulWrite, TypeOK, StoreTypeOK
    <2> QED  BY <1>1, <2>1, <2>2, <2>3 DEF PipelineOK, TypeOK, StoreTypeOK
  <1>8. ASSUME NEW d \in Device, Reject(d) PROVE PipelineOK'
    <2>1. queue[d] \in Seq(Mutation) /\ queue[d] # <<>> /\ sent[d] = 0
      BY <1>8 DEF Reject, HandleRejectedWrite, TypeOK, StoreTypeOK
    <2>2. Len(Tail(queue[d])) = Len(queue[d]) - 1 /\ Len(queue[d]) # 0
      BY <2>1, HeadTailProperties, EmptySeq
    <2> QED  BY <1>1, <1>8, <2>1, <2>2
             DEF Reject, HandleRejectedWrite, PipelineOK, TypeOK, StoreTypeOK
  <1>9. ASSUME NEW d \in Device, SaveTask(d) PROVE PipelineOK'
    <2>1. /\ inbox[d] # <<>> /\ NamesDocument(Typed(d).name)
          /\ WriteMutations(d, NewPost(d), Writes(d)) /\ UNCHANGED <<sent, fresh>>
      BY <1>9 DEF SaveTask, NextAnswer
    <2>2. NewPost(d) \in Mutation
      BY <2>1, NextAnswerType DEF NewPost, NamesDocument, Draft, Mutation, Post
    <2> QED  BY <1>3, <2>1, <2>2, WritesType
  <1>10. ASSUME NEW d \in Device, Delete(d) PROVE PipelineOK'
    <2>1. [key |-> nameLabel[d], doc |-> NoDoc] \in Mutation
      BY DEF Mutation, TypeOK
    <2> QED  BY <1>3, <1>10, <2>1 DEF Delete
  <1>11. ASSUME NEW d \in Device, Kill(d) \/ SaveCrash(d) \/ Break(d) PROVE PipelineOK'
    BY <1>4, <1>11 DEF Kill, SaveCrash, Relaunch, LoseMemory, Break, OnWriteStreamClose
  <1>12. ASSUME NEW d \in Device,
                \/ UpdateTimer(d) \/ NewPostButton(d) \/ EditName(d) \/ EditText(d)
                \/ SaveButPress(d) \/ DidSelectRow(d) \/ Back(d)
                \/ Update(d) \/ ShowPost(d) \/ SaveNothing(d)
                \/ Offline(d) \/ Refused(d)
         PROVE  PipelineOK'
    <2>1. UNCHANGED <<queue, sent, fresh>>
      BY <1>12
      DEF UpdateTimer, NewPostButton, EditName, EditText, SaveButPress, DidSelectRow, Back,
          Update, ShowPost, SaveNothing, Offline, AnswerOffline, Refused,
          HandleRejectedListen, clientVars
    <2> QED  BY <1>2, <2>1
  <1>13. CASE UNCHANGED vars
    BY <1>2, <1>13 DEF vars
  <1> QED
    BY <1>5, <1>6, <1>7, <1>8, <1>9, <1>10, <1>11, <1>12, <1>13 DEF Next, HandleAnswer

(***************************************************************************)
(* Types and the pipeline depend on each other: the queue stays a sequence *)
(* when the head is removed because what is acknowledged is pending.       *)
(***************************************************************************)
LEMMA StoreInvariant == Spec => [](TypeOK /\ PipelineOK)
  <1>1. Init => TypeOK /\ PipelineOK
    BY TypeInit, PipelineInit
  <1>2. TypeOK /\ PipelineOK /\ [Next]_vars => (TypeOK /\ PipelineOK)'
    BY TypeNext, PipelineNext
  <1> QED  BY <1>1, <1>2, PTL DEF Spec

\* Every variable keeps its type.
THEOREM TypeCorrect == Spec => []TypeOK
  BY StoreInvariant, PTL

--------------------------------------------------------------------------------
(* The helpers.                                                            *)

\* A local view shows posts of the cache and of the queue.
LEMMA OverlayHolds ==
    ASSUME NEW G, NEW docs \in Contents, NEW q \in Seq(Mutation),
           Holds(docs, G), HoldsWrites(q, G)
    PROVE  Holds(Overlay(docs, q), G)
  <1> SUFFICES ASSUME NEW k \in Name, Overlay(docs, q)[k] # NoDoc
               PROVE  Overlay(docs, q)[k] \in G[k]
    BY DEF Holds
  <1>1. CASE \E i \in DOMAIN q : IsLastWrite(q, k, i)
    <2> DEFINE i == CHOOSE i \in DOMAIN q : IsLastWrite(q, k, i)
    <2>1. i \in DOMAIN q /\ IsLastWrite(q, k, i)
      BY <1>1
    <2>2. Overlay(docs, q)[k] = q[i].doc
      BY <1>1 DEF Overlay
    <2> HIDE DEF i
    <2>3. q[i].key = k
      BY <2>1 DEF IsLastWrite
    <2> QED  BY <2>1, <2>2, <2>3 DEF HoldsWrites
  <1>2. CASE ~\E i \in DOMAIN q : IsLastWrite(q, k, i)
    BY <1>2 DEF Overlay, Holds
  <1> QED  BY <1>1, <1>2

\* A snapshot adds one and the same result to the answers.
LEMMA RaiseSnapshotHolds ==
    ASSUME NEW G, StoreTypeOK, NEW d \in Device, NEW result \in Contents \cup {Failed},
           RaiseSnapshot(d, result), result # Failed => Holds(result, G),
           \A e \in Device : HoldsAnswers(inbox[e], G)
    PROVE  \A e \in Device : HoldsAnswers(inbox'[e], G)
  <1> DEFINE answers == [i \in DOMAIN gets[d] |-> [req |-> gets[d][i], result |-> result]]
  <1>1. PICK n \in Nat : n = Len(gets[d])
    BY LenProperties DEF StoreTypeOK
  <1>2. gets[d] \in [1..n -> Request]
    BY <1>1, LenProperties DEF StoreTypeOK
  <1>3. answers \in [1..n -> Answer] /\ \A i \in 1..n : answers[i].result = result
    BY <1>2 DEF Answer
  <1>4. inbox' = [inbox EXCEPT ![d] = inbox[d] \o answers]
    BY DEF RaiseSnapshot
  <1> HIDE DEF answers
  <1>5. answers \in Seq(Answer) /\ Len(answers) = n
    BY <1>3, FunctionIsSequence
  <1>6. PICK k \in Nat : k = Len(inbox[d])
    BY LenProperties DEF StoreTypeOK
  <1>7. inbox[d] \in Seq(Answer) /\ DOMAIN inbox[d] = 1..k
    BY <1>6, LenProperties DEF StoreTypeOK
  <1>10. /\ inbox[d] \o answers \in Seq(Answer)
         /\ Len(inbox[d] \o answers) = k + n
         /\ \A i \in 1..(k + n) : (inbox[d] \o answers)[i] =
                                  IF i <= k THEN inbox[d][i] ELSE answers[i - k]
    BY <1>5, <1>6, <1>7, ConcatProperties
  <1>11. DOMAIN (inbox[d] \o answers) = 1..(k + n)
    BY <1>10, LenProperties
  <1>8. ASSUME NEW i \in 1..(k + n)
        PROVE  (inbox[d] \o answers)[i].result # Failed =>
                   Holds((inbox[d] \o answers)[i].result, G)
    <2>1. CASE i <= k
      <3>1. i \in 1..k /\ (inbox[d] \o answers)[i] = inbox[d][i]
        BY <1>10, <2>1
      <3> QED  BY <1>7, <3>1 DEF HoldsAnswers
    <2>2. CASE ~(i <= k)
      <3>1. i - k \in 1..n
        BY <2>2
      <3>2. (inbox[d] \o answers)[i] = answers[i - k]
        BY <1>10, <2>2
      <3>3. answers[i - k].result = result
        BY <1>3, <3>1
      <3> QED  BY <3>2, <3>3
    <2> QED  BY <2>1, <2>2
  <1>9. HoldsAnswers(inbox[d] \o answers, G)
    BY <1>8, <1>11 DEF HoldsAnswers
  <1> QED  BY <1>4, <1>9 DEF StoreTypeOK

\* Handling an answer removes it.
LEMMA TailHolds ==
    ASSUME NEW G, NEW as \in Seq(Answer), as # <<>>, HoldsAnswers(as, G)
    PROVE  /\ HoldsAnswers(Tail(as), G)
           /\ Head(as).result # Failed => Holds(Head(as).result, G)
  <1>1. PICK n \in Nat \ {0} : n = Len(as)
    BY LenProperties, EmptySeq
  <1>2. /\ Tail(as) \in Seq(Answer) /\ Len(Tail(as)) = n - 1
        /\ \A i \in 1..(n - 1) : Tail(as)[i] = as[i + 1]
    BY <1>1, HeadTailProperties
  <1>3. DOMAIN Tail(as) = 1..(n - 1) /\ DOMAIN as = 1..n
    BY <1>1, <1>2, LenProperties
  <1>4. Head(as) = as[1] /\ 1 \in DOMAIN as
    <2>1. Head(as) = as[1]
      OBVIOUS
    <2>2. 1 \in 1..n
      OBVIOUS
    <2> QED  BY <1>3, <2>1, <2>2
  <1>5. \A i \in DOMAIN Tail(as) : i + 1 \in DOMAIN as /\ Tail(as)[i] = as[i + 1]
    <2>1. \A i \in 1..(n - 1) : i + 1 \in 1..n
      OBVIOUS
    <2> QED  BY <1>2, <1>3, <2>1
  <1> QED  BY <1>4, <1>5 DEF HoldsAnswers

\* Leaving a page changes what the answers are for, not what they say.
LEMMA CloseWindowHolds ==
    ASSUME NEW G, TypeOK, NEW d \in Device, NEW left \in Seq(Answer),
           CloseWindow(d, left), HoldsAnswers(left, G),
           \A e \in Device : HoldsAnswers(inbox[e], G)
    PROVE  \A e \in Device : HoldsAnswers(inbox'[e], G)
  <1>1. fields[d] \in Draft
    BY DEF TypeOK
  <1>2. /\ DetachedAnswers(left, fields[d]) \in Seq(Answer)
        /\ Len(DetachedAnswers(left, fields[d])) = Len(left)
        /\ \A i \in 1..Len(left) :
               DetachedAnswers(left, fields[d])[i].result = left[i].result
    BY <1>1, DetachedAnswersType
  <1>3. DOMAIN DetachedAnswers(left, fields[d]) = 1..Len(left) /\ DOMAIN left = 1..Len(left)
    BY <1>2, LenProperties
  <1>4. HoldsAnswers(DetachedAnswers(left, fields[d]), G)
    BY <1>2, <1>3 DEF HoldsAnswers
  <1> QED  BY <1>4 DEF CloseWindow, TypeOK, StoreTypeOK

\* Writing an allowed post, or deleting one, leaves the queues allowed.
LEMMA WriteMutationsHolds ==
    ASSUME NEW G, StoreTypeOK, NEW d \in Device, NEW m \in Mutation, NEW n \in Nat,
           WriteMutations(d, m, n), m.doc # NoDoc => m.doc \in G[m.key],
           queue' \in [Device -> Seq(Mutation)],
           \A e \in Device : HoldsWrites(queue[e], G)
    PROVE  \A e \in Device : HoldsWrites(queue'[e], G)
  <1>1. /\ \A e \in Device \ {d} : queue'[e] = queue[e]
        /\ \A i \in 1..Len(queue'[d]) :
               queue'[d][i] = IF i <= Len(queue[d]) THEN queue[d][i] ELSE m
    BY WriteMutationsGrows
  <1>2. /\ DOMAIN queue[d] = 1..Len(queue[d]) /\ Len(queue[d]) \in Nat
        /\ DOMAIN queue'[d] = 1..Len(queue'[d]) /\ Len(queue'[d]) \in Nat
    BY LenProperties DEF StoreTypeOK
  <1>3. HoldsWrites(queue'[d], G)
    BY <1>1, <1>2 DEF HoldsWrites
  <1> QED  BY <1>1, <1>3

\* Removing the oldest write.
LEMMA TailWritesHold ==
    ASSUME NEW G, NEW q \in Seq(Mutation), q # <<>>, HoldsWrites(q, G)
    PROVE  /\ HoldsWrites(Tail(q), G)
           /\ Head(q).doc # NoDoc => Head(q).doc \in G[Head(q).key]
  <1>1. PICK n \in Nat \ {0} : n = Len(q)
    BY LenProperties, EmptySeq
  <1>2. /\ Tail(q) \in Seq(Mutation) /\ Len(Tail(q)) = n - 1
        /\ \A i \in 1..(n - 1) : Tail(q)[i] = q[i + 1]
    BY <1>1, HeadTailProperties
  <1>3. DOMAIN Tail(q) = 1..(n - 1) /\ DOMAIN q = 1..n
    BY <1>1, <1>2, LenProperties
  <1>4. Head(q) = q[1] /\ 1 \in DOMAIN q
    <2>1. Head(q) = q[1]
      OBVIOUS
    <2>2. 1 \in 1..n
      OBVIOUS
    <2> QED  BY <1>3, <2>1, <2>2
  <1>5. \A i \in DOMAIN Tail(q) : i + 1 \in DOMAIN q /\ Tail(q)[i] = q[i + 1]
    <2>1. \A i \in 1..(n - 1) : i + 1 \in 1..n
      OBVIOUS
    <2> QED  BY <1>2, <1>3, <2>1
  <1> QED  BY <1>4, <1>5 DEF HoldsWrites

--------------------------------------------------------------------------------
(* The steps.                                                              *)

\* What a device may save.
LEMMA SavedMutation ==
    ASSUME TypeOK, NEW d \in Device, SaveTask(d)
    PROVE  /\ NewPost(d) \in Mutation /\ NewPost(d).doc \in Post
           /\ NewPost(d).doc.name = NewPost(d).key
           /\ Writes(d) \in Nat
           /\ Tail(inbox[d]) \in Seq(Answer)
  <1>1. inbox[d] # <<>> /\ NamesDocument(Typed(d).name)
    BY DEF SaveTask, NextAnswer
  <1>2. Typed(d) \in Draft /\ Tail(inbox[d]) \in Seq(Answer) /\ Writes(d) \in Nat
    BY <1>1, NextAnswerType, WritesType
  <1> QED  BY <1>1, <1>2 DEF NewPost, NamesDocument, Draft, Mutation, Post

(***************************************************************************)
(* Posts that are not allowed appear nowhere in the stores, as long as     *)
(* nobody saves one.                                                       *)
(***************************************************************************)
LEMMA StoredNext ==
    ASSUME NEW G, TypeOK, PipelineOK, Stored(G), [Next]_vars,
           \A d \in Device : SaveTask(d) => NewPost(d).doc \in G[NewPost(d).key]
    PROVE  Stored(G)'
  <1>1. TypeOK' /\ StoreTypeOK /\ StoreTypeOK'
    BY TypeNext DEF TypeOK
  <1>2. CASE UNCHANGED <<server, cache, queue, inbox>>
    BY <1>2 DEF Stored, Holds, HoldsWrites, HoldsAnswers
  <1>3. ASSUME NEW d \in Device, inbox[d] # <<>>, Handled(d)
        PROVE  \A e \in Device : HoldsAnswers(inbox'[e], G)
    <2>1. inbox[d] \in Seq(Answer)
      BY <1>1 DEF StoreTypeOK
    <2>2. HoldsAnswers(Tail(inbox[d]), G)
      BY <1>3, <2>1, TailHolds DEF Stored
    <2> QED  BY <1>1, <1>3, <2>2 DEF Handled, Stored, StoreTypeOK
  <1>4. ASSUME NEW d \in Device, NEW left \in Seq(Answer), CloseWindow(d, left),
               HoldsAnswers(left, G)
        PROVE  \A e \in Device : HoldsAnswers(inbox'[e], G)
    BY <1>4, CloseWindowHolds DEF Stored
  <1>5. ASSUME NEW d \in Device, NEW result \in Contents \cup {Failed},
               RaiseSnapshot(d, result), result # Failed => Holds(result, G)
        PROVE  \A e \in Device : HoldsAnswers(inbox'[e], G)
    BY <1>1, <1>5, RaiseSnapshotHolds DEF Stored
  <1>6. ASSUME NEW d \in Device, SaveTask(d) PROVE Stored(G)'
    <2>1. /\ NewPost(d) \in Mutation /\ NewPost(d).doc \in G[NewPost(d).key]
          /\ Writes(d) \in Nat /\ Tail(inbox[d]) \in Seq(Answer)
          /\ WriteMutations(d, NewPost(d), Writes(d)) /\ inbox[d] # <<>>
      BY <1>6, SavedMutation DEF SaveTask, NextAnswer
    <2>2. \A e \in Device : HoldsWrites(queue'[e], G)
      BY <1>1, <2>1, WriteMutationsHolds DEF Stored, StoreTypeOK
    <2>3. \A e \in Device : HoldsAnswers(inbox'[e], G)
      <3>1. CASE Head(inbox[d]).req.page = Open
        <4>1. CloseWindow(d, Tail(inbox[d]))
          BY <1>6, <3>1 DEF SaveTask
        <4>2. HoldsAnswers(Tail(inbox[d]), G)
          BY <1>1, <2>1, TailHolds DEF Stored, StoreTypeOK
        <4> QED  BY <1>4, <2>1, <4>1, <4>2
      <3>2. CASE Head(inbox[d]).req.page # Open
        BY <1>3, <1>6, <2>1, <3>2 DEF SaveTask
      <3> QED  BY <3>1, <3>2
    <2> QED  BY <1>6, <2>2, <2>3 DEF SaveTask, Stored
  <1>7. ASSUME NEW d \in Device, Delete(d) PROVE Stored(G)'
    <2> DEFINE m == [key |-> nameLabel[d], doc |-> NoDoc]
    <2>1. m \in Mutation /\ m.doc = NoDoc
      BY DEF Mutation, TypeOK
    <2>2. WriteMutations(d, m, 1) /\ CloseWindow(d, inbox[d]) /\ UNCHANGED <<server, cache>>
      BY <1>7 DEF Delete
    <2> HIDE DEF m
    <2>3. \A e \in Device : HoldsWrites(queue'[e], G)
      BY <1>1, <2>1, <2>2, WriteMutationsHolds DEF Stored, StoreTypeOK
    <2>4. \A e \in Device : HoldsAnswers(inbox'[e], G)
      BY <1>1, <1>4, <2>2 DEF Stored, StoreTypeOK
    <2> QED  BY <2>2, <2>3, <2>4 DEF Stored
  <1>8. ASSUME NEW d \in Device, Back(d) PROVE Stored(G)'
    <2>1. \A e \in Device : HoldsAnswers(inbox'[e], G)
      BY <1>1, <1>4, <1>8 DEF Back, Stored, StoreTypeOK
    <2> QED  BY <1>8, <2>1 DEF Back, Stored
  <1>9. ASSUME NEW d \in Device, Update(d) \/ ShowPost(d) \/ SaveNothing(d) PROVE Stored(G)'
    <2>1. /\ inbox[d] # <<>> /\ Handled(d)
          /\ UNCHANGED <<server, cache, queue>>
      BY <1>9 DEF Update, ShowPost, SaveNothing, NextAnswer
    <2> QED  BY <1>3, <2>1 DEF Stored
  <1>10. ASSUME NEW d \in Device, Kill(d) \/ SaveCrash(d) PROVE Stored(G)'
    <2>1. inbox' = [inbox EXCEPT ![d] = <<>>] /\ UNCHANGED <<server, cache, queue>>
      BY <1>10 DEF Kill, SaveCrash, Relaunch, LoseMemory
    <2>2. HoldsAnswers(<<>>, G)
      BY DEF HoldsAnswers
    <2>3. \A e \in Device : HoldsAnswers(inbox'[e], G)
      BY <1>1, <2>1, <2>2 DEF Stored, StoreTypeOK
    <2> QED  BY <2>1, <2>3 DEF Stored
  <1>11. ASSUME NEW d \in Device, Synced(d) PROVE Stored(G)'
    <2>1. /\ cache' = [cache EXCEPT ![d] = server]
          /\ RaiseSnapshot(d, Overlay(server, queue[d]))
          /\ UNCHANGED <<server, queue>>
      BY <1>11 DEF Synced, ApplyRemoteEvent
    <2>2. Overlay(server, queue[d]) \in Contents /\ Holds(Overlay(server, queue[d]), G)
      BY <1>1, OverlayType, OverlayHolds DEF StoreTypeOK, Stored
    <2>3. \A e \in Device : HoldsAnswers(inbox'[e], G)
      BY <1>5, <2>1, <2>2
    <2>4. \A e \in Device : Holds(cache'[e], G)
      BY <1>1, <2>1 DEF Stored, StoreTypeOK
    <2> QED  BY <2>1, <2>3, <2>4 DEF Stored
  <1>12. ASSUME NEW d \in Device, Offline(d) PROVE Stored(G)'
    <2>1. RaiseSnapshot(d, LocalView(d)) /\ UNCHANGED <<server, cache, queue>>
      BY <1>12 DEF Offline, AnswerOffline
    <2>2. LocalView(d) \in Contents /\ Holds(LocalView(d), G)
      BY <1>1, OverlayType, OverlayHolds DEF StoreTypeOK, Stored, LocalView
    <2>3. \A e \in Device : HoldsAnswers(inbox'[e], G)
      BY <1>5, <2>1, <2>2
    <2> QED  BY <2>1, <2>3 DEF Stored
  <1>13. ASSUME NEW d \in Device, Refused(d) PROVE Stored(G)'
    <2>1. RaiseSnapshot(d, Failed) /\ UNCHANGED <<server, cache, queue>>
      BY <1>13 DEF Refused, HandleRejectedListen
    <2>2. \A e \in Device : HoldsAnswers(inbox'[e], G)
      BY <1>5, <2>1
    <2> QED  BY <2>1, <2>2 DEF Stored
  <1>14. ASSUME NEW d \in Device, Commit(d) PROVE Stored(G)'
    <2> DEFINE m == queue[d][sent[d] + 1]
    <2>1. sent[d] + 1 \in 1..Len(queue[d]) /\ DOMAIN queue[d] = 1..Len(queue[d])
      BY <1>1, <1>14, LenProperties DEF Commit, CommitNext, StoreTypeOK
    <2>2. m.doc # NoDoc => m.doc \in G[m.key]
      BY <2>1 DEF Stored, HoldsWrites
    <2>3. server' = [server EXCEPT ![m.key] = m.doc] /\ UNCHANGED <<cache, queue, inbox>>
      BY <1>14 DEF Commit, CommitNext
    <2> HIDE DEF m
    <2>4. Holds(server', G)
      BY <1>1, <2>2, <2>3 DEF Stored, Holds, StoreTypeOK, Contents
    <2> QED  BY <2>3, <2>4 DEF Stored
  <1>15. ASSUME NEW d \in Device, Ack(d) PROVE Stored(G)'
    <2> DEFINE m == Head(queue[d])
    <2>1. queue[d] \in Seq(Mutation) /\ queue[d] # <<>>
      BY <1>1, <1>15, EmptySeq DEF Ack, HandleSuccessfulWrite, PipelineOK, StoreTypeOK
    <2>2. HoldsWrites(Tail(queue[d]), G) /\ (m.doc # NoDoc => m.doc \in G[m.key])
      BY <2>1, TailWritesHold DEF Stored
    <2>3. \A e \in Device : HoldsWrites(queue'[e], G)
      BY <1>1, <1>15, <2>2 DEF Ack, HandleSuccessfulWrite, Stored, StoreTypeOK
    <2>4. cache' = cache \/ cache' = [cache EXCEPT ![d][m.key] = m.doc]
      BY <1>15 DEF Ack, HandleSuccessfulWrite
    <2>5. m \in Mutation /\ cache[d] \in Contents
      BY <1>1, <2>1, HeadTailProperties DEF StoreTypeOK
    <2> HIDE DEF m
    <2>6. Holds([cache[d] EXCEPT ![m.key] = m.doc], G)
      BY <2>2, <2>5 DEF Stored, Holds, Contents, Mutation
    <2>7. \A e \in Device : Holds(cache'[e], G)
      BY <1>1, <2>4, <2>6 DEF Stored, StoreTypeOK
    <2>8. UNCHANGED <<server, inbox>>
      BY <1>15 DEF Ack, HandleSuccessfulWrite
    <2> QED  BY <2>3, <2>7, <2>8 DEF Stored
  <1>16. ASSUME NEW d \in Device, Reject(d) PROVE Stored(G)'
    <2>1. queue[d] \in Seq(Mutation) /\ queue[d] # <<>>
      BY <1>1, <1>16 DEF Reject, HandleRejectedWrite, StoreTypeOK
    <2>2. HoldsWrites(Tail(queue[d]), G)
      BY <2>1, TailWritesHold DEF Stored
    <2>3. \A e \in Device : HoldsWrites(queue'[e], G)
      BY <1>1, <1>16, <2>2 DEF Reject, HandleRejectedWrite, Stored, StoreTypeOK
    <2>4. UNCHANGED <<server, cache, inbox>>
      BY <1>16 DEF Reject, HandleRejectedWrite
    <2> QED  BY <2>3, <2>4 DEF Stored
  <1>17. ASSUME NEW d \in Device,
                \/ UpdateTimer(d) \/ NewPostButton(d) \/ EditName(d) \/ EditText(d)
                \/ SaveButPress(d) \/ DidSelectRow(d) \/ Break(d)
         PROVE  Stored(G)'
    <2>1. UNCHANGED <<server, cache, queue, inbox>>
      BY <1>17
      DEF UpdateTimer, NewPostButton, EditName, EditText, SaveButPress, DidSelectRow,
          Break, OnWriteStreamClose, clientVars
    <2> QED  BY <1>2, <2>1
  <1>18. CASE UNCHANGED vars
    BY <1>2, <1>18 DEF vars
  <1> QED
    BY <1>6, <1>7, <1>8, <1>9, <1>10, <1>11, <1>12, <1>13, <1>14, <1>15, <1>16, <1>17, <1>18
    DEF Next, HandleAnswer

\* A feed shows what an answer says, or nothing new.
LEMMA ShownNext ==
    ASSUME NEW G, TypeOK, Stored(G), Shown(G), [Next]_vars
    PROVE  Shown(G)'
  <1>1. StoreTypeOK
    BY DEF TypeOK
  <1>2. CASE UNCHANGED taskArray
    BY <1>2 DEF Shown, Holds
  <1>3. ASSUME NEW d \in Device, Update(d) PROVE Shown(G)'
    <2> DEFINE result == Head(inbox[d]).result
    <2>1. inbox[d] # <<>> /\ inbox[d] \in Seq(Answer)
      BY <1>1, <1>3 DEF Update, NextAnswer, StoreTypeOK
    <2>2. result # Failed => Holds(result, G)
      BY <2>1, TailHolds DEF Stored
    <2>3. taskArray' = [taskArray EXCEPT ![d] = IF result = Failed THEN taskArray[d] ELSE result]
      BY <1>3 DEF Update
    <2> HIDE DEF result
    <2> QED  BY <2>2, <2>3 DEF Shown, TypeOK
  <1>4. ASSUME NEW d \in Device, Kill(d) \/ SaveCrash(d) PROVE Shown(G)'
    <2>1. taskArray' = [taskArray EXCEPT ![d] = Empty]
      BY <1>4 DEF Kill, SaveCrash, Relaunch
    <2>2. Holds(Empty, G)
      BY DEF Holds, Empty
    <2> QED  BY <2>1, <2>2 DEF Shown, TypeOK
  <1>5. ASSUME NEW d \in Device,
               \/ UpdateTimer(d) \/ NewPostButton(d) \/ EditName(d) \/ EditText(d)
               \/ SaveButPress(d) \/ DidSelectRow(d) \/ Delete(d) \/ Back(d)
               \/ ShowPost(d) \/ SaveNothing(d) \/ SaveTask(d)
               \/ Synced(d) \/ Offline(d) \/ Refused(d)
               \/ Commit(d) \/ Ack(d) \/ Reject(d) \/ Break(d)
        PROVE  Shown(G)'
    <2>1. UNCHANGED taskArray
      BY <1>5
      DEF UpdateTimer, NewPostButton, EditName, EditText, SaveButPress, DidSelectRow,
          Delete, Back, CloseWindow, ShowPost, SaveNothing, SaveTask,
          Synced, Offline, Refused, Commit, Ack, Reject, Break, appVars
    <2> QED  BY <1>2, <2>1
  <1>6. CASE UNCHANGED vars
    BY <1>2, <1>6 DEF vars
  <1> QED  BY <1>3, <1>4, <1>5, <1>6 DEF Next, HandleAnswer

--------------------------------------------------------------------------------
(* The theorems.                                                           *)

LEMMA KeyedInit == Init => KeyedByName
  <1> SUFFICES ASSUME Init PROVE KeyedByName
    OBVIOUS
  <1>1. Holds(Empty, Named)
    BY DEF Holds, Empty
  <1>2. Holds(server, Named)
    BY MarksAssumption DEF Init, StoreInit, Holds, Named
  <1>3. /\ cache = [d \in Device |-> Empty] /\ taskArray = [d \in Device |-> Empty]
        /\ queue = [d \in Device |-> <<>>] /\ inbox = [d \in Device |-> <<>>]
    BY DEF Init, StoreInit, Empty
  <1> QED  BY <1>1, <1>2, <1>3 DEF KeyedByName, Stored, Shown, HoldsWrites, HoldsAnswers

LEMMA KeyedNext == TypeOK /\ PipelineOK /\ KeyedByName /\ [Next]_vars => KeyedByName'
  <1> SUFFICES ASSUME TypeOK, PipelineOK, KeyedByName, [Next]_vars PROVE KeyedByName'
    OBVIOUS
  <1>1. ASSUME NEW d \in Device, SaveTask(d)
        PROVE  NewPost(d).doc \in Named[NewPost(d).key]
    BY <1>1, SavedMutation DEF Named, Mutation
  <1>2. Stored(Named)'
    BY <1>1, StoredNext DEF KeyedByName
  <1>3. Shown(Named)'
    BY ShownNext DEF KeyedByName
  <1> QED  BY <1>2, <1>3 DEF KeyedByName, Named

(***************************************************************************)
(* Posts are stored and shown under their own names: what Delete takes     *)
(* from the label is the document the shown post is stored in, on every    *)
(* device, whatever pages were left or edited while a save was waiting.    *)
(***************************************************************************)
THEOREM KeyedCorrect == Spec => []KeyedByName
  <1>1. TypeOK /\ PipelineOK /\ KeyedByName /\ [Next]_vars => KeyedByName'
    BY KeyedNext
  <1> QED  BY <1>1, KeyedInit, StoreInvariant, PTL DEF Spec

LEMMA EmptyNext ==
    TypeOK /\ PipelineOK /\ [Next]_vars => (NoPostAnywhere => NoPostAnywhere')
  <1> DEFINE None == [k \in Name |-> {}]
  <1> SUFFICES ASSUME TypeOK, PipelineOK, [Next]_vars, Stored(None) PROVE Stored(None)'
    BY DEF NoPostAnywhere
  <1>1. ASSUME NEW d \in Device, SaveTask(d) PROVE FALSE
    <2> DEFINE result == Head(inbox[d]).result
    <2>1. inbox[d] # <<>> /\ inbox[d] \in Seq(Answer) /\ Writes(d) > 0
      BY <1>1 DEF SaveTask, NextAnswer, TypeOK, StoreTypeOK
    <2>2. result # Failed => Holds(result, None)
      BY <2>1, TailHolds DEF Stored
    <2>3. CASE result = Failed
      <3>1. Writes(d) = 0
        BY <2>3 DEF Writes
      <3> QED  BY <2>1, <3>1
    <2>4. CASE result # Failed
      <3>1. OtherPosts(result, Typed(d).name) = {}
        BY <2>2, <2>4 DEF Holds, OtherPosts, Present
      <3>2. Writes(d) = 0
        BY <2>4, <3>1, FS_EmptySet DEF Writes
      <3> QED  BY <2>1, <3>2
    <2> QED  BY <2>3, <2>4
  <1> HIDE DEF None
  <1> QED  BY <1>1, StoredNext

(***************************************************************************)
(* However many masters press Save however often: a board that is empty in *)
(* the backend and on every device stays empty.                            *)
(***************************************************************************)
THEOREM EmptyBoardCorrect == Spec => EmptyBoardStaysEmpty
  <1>1. TypeOK /\ PipelineOK /\ [Next]_vars => [NoPostAnywhere => NoPostAnywhere']_vars
    BY EmptyNext
  <1> QED  BY <1>1, StoreInvariant, PTL DEF Spec, EmptyBoardStaysEmpty

--------------------------------------------------------------------------------
(* The last of the pending writes to a name.                               *)

\* A nonempty set of positions has a last one.
LEMMA LastOfSet ==
    ASSUME NEW n \in Nat, NEW I \in SUBSET (1..n), I # {}
    PROVE  \E i \in I : \A j \in I : j <= i
  <1> DEFINE R == OpToRel(<, Nat)
             T == {n - i : i \in I}
  <1>1. T \subseteq Nat /\ T # {}
    <2>1. \A i \in I : n - i \in Nat
      <3> TAKE i \in I
      <3>1. i \in 1..n
        OBVIOUS
      <3> QED  BY <3>1
    <2> QED  BY <2>1
  <1>2. IsWellFoundedOn(R, Nat)
    BY NatLessThanWellFounded
  <1> HIDE DEF T, R
  <1>3. PICK x \in T : \A y \in T : ~(<<y, x>> \in R)
    BY <1>1, <1>2, WFMin, Zenon
  <1>4. \A y \in T : ~(y < x)
    BY <1>1, <1>3 DEF OpToRel, R
  <1>5. PICK i \in I : x = n - i
    BY DEF T
  <1>6. ASSUME NEW j \in I PROVE j <= i
    <2>1. n - j \in T
      BY DEF T
    <2>2. ~(n - j < n - i)
      BY <1>4, <1>5, <2>1
    <2> QED  BY <2>2
  <1> QED  BY <1>6

\* A name somebody has written to has a last write.
LEMMA LastWriteExists ==
    ASSUME NEW q \in Seq(Mutation), NEW k, NEW i \in DOMAIN q, q[i].key = k
    PROVE  \E l \in DOMAIN q : IsLastWrite(q, k, l)
  <1> DEFINE I == {j \in DOMAIN q : q[j].key = k}
  <1>1. PICK n \in Nat : n = Len(q)
    BY LenProperties
  <1>2. DOMAIN q = 1..n
    BY <1>1, LenProperties
  <1>3. I \in SUBSET (1..n) /\ I # {}
    BY <1>2
  <1>4. PICK l \in I : \A j \in I : j <= l
    BY <1>3, LastOfSet
  <1>5. \A j \in DOMAIN q : j > l => q[j].key # k
    BY <1>2, <1>4
  <1> QED  BY <1>4, <1>5 DEF IsLastWrite

\* The last write decides what the name shows, and the cached document does
\* where there is no write.
LEMMA OverlayWritten ==
    ASSUME NEW q \in Seq(Mutation), NEW docs, NEW k \in Name, NEW l, IsLastWrite(q, k, l)
    PROVE  Overlay(docs, q)[k] = q[l].doc
  <1> DEFINE c == CHOOSE i \in DOMAIN q : IsLastWrite(q, k, i)
  <1>1. l \in DOMAIN q
    BY DEF IsLastWrite
  <1>2. c \in DOMAIN q /\ IsLastWrite(q, k, c)
    BY <1>1
  <1>3. Overlay(docs, q)[k] = q[c].doc
    BY <1>1 DEF Overlay
  <1> HIDE DEF c
  <1>4. PICK n \in Nat : DOMAIN q = 1..n
    BY LenProperties
  <1>5. ~(l > c) /\ ~(c > l)
    BY <1>1, <1>2 DEF IsLastWrite
  <1>6. l = c
    BY <1>1, <1>2, <1>4, <1>5
  <1> QED  BY <1>3, <1>6

LEMMA OverlayUnwritten ==
    ASSUME NEW q, NEW docs, NEW k \in Name, \A i \in DOMAIN q : q[i].key # k
    PROVE  Overlay(docs, q)[k] = docs[k]
  BY DEF Overlay, IsLastWrite

--------------------------------------------------------------------------------
(* Acknowledging the oldest write.                                         *)

\* What is left of a queue without its oldest write.
LEMMA TailOfQueue ==
    ASSUME NEW q \in Seq(Mutation), q # <<>>
    PROVE  \E n \in Nat \ {0} :
              /\ DOMAIN q = 1..n /\ Len(q) = n /\ Head(q) = q[1]
              /\ Tail(q) \in Seq(Mutation) /\ DOMAIN Tail(q) = 1..(n - 1)
              /\ Len(Tail(q)) = n - 1
              /\ \A i \in 1..(n - 1) : Tail(q)[i] = q[i + 1]
  <1>1. PICK n \in Nat \ {0} : n = Len(q)
    BY LenProperties, EmptySeq
  <1>2. /\ Tail(q) \in Seq(Mutation) /\ Len(Tail(q)) = n - 1
        /\ \A i \in 1..(n - 1) : Tail(q)[i] = q[i + 1]
    BY <1>1, HeadTailProperties
  <1>3. DOMAIN Tail(q) = 1..(n - 1) /\ DOMAIN q = 1..n
    BY <1>1, <1>2, LenProperties
  <1>4. Head(q) = q[1]
    OBVIOUS
  <1> QED  BY <1>1, <1>2, <1>3, <1>4

\* The last write to a name stays the last one when the oldest is removed.
LEMMA LastWriteOfTail ==
    ASSUME NEW q \in Seq(Mutation), q # <<>>, NEW k, NEW l, IsLastWrite(q, k, l), l # 1
    PROVE  /\ IsLastWrite(Tail(q), k, l - 1)
           /\ Tail(q)[l - 1] = q[l]
  <1>1. PICK n \in Nat \ {0} :
              /\ DOMAIN q = 1..n /\ DOMAIN Tail(q) = 1..(n - 1)
              /\ \A i \in 1..(n - 1) : Tail(q)[i] = q[i + 1]
    BY TailOfQueue
  <1>2. l \in 1..n /\ q[l].key = k /\ \A j \in 1..n : j > l => q[j].key # k
    BY <1>1 DEF IsLastWrite
  <1>3. l - 1 \in 1..(n - 1) /\ (l - 1) + 1 = l
    BY <1>2
  <1>4. \A j \in 1..(n - 1) : j > l - 1 => j + 1 \in 1..n /\ j + 1 > l
    BY <1>2
  <1>5. Tail(q)[l - 1] = q[l]
    BY <1>1, <1>3
  <1>6. \A j \in 1..(n - 1) : j > l - 1 => Tail(q)[j].key # k
    BY <1>1, <1>2, <1>4
  <1> QED  BY <1>1, <1>2, <1>3, <1>5, <1>6 DEF IsLastWrite

\* The acknowledged write shows through the cache what it showed before.
LEMMA OverlayAcknowledged ==
    ASSUME NEW docs \in Contents, NEW q \in Seq(Mutation), q # <<>>
    PROVE  Overlay([docs EXCEPT ![Head(q).key] = Head(q).doc], Tail(q)) = Overlay(docs, q)
  <1> DEFINE m == Head(q)
             new == [docs EXCEPT ![m.key] = m.doc]
  <1>1. PICK n \in Nat \ {0} :
              /\ DOMAIN q = 1..n /\ m = q[1] /\ DOMAIN Tail(q) = 1..(n - 1)
              /\ Tail(q) \in Seq(Mutation)
              /\ \A i \in 1..(n - 1) : Tail(q)[i] = q[i + 1]
    BY TailOfQueue
  <1>2. m \in Mutation
    BY HeadTailProperties
  <1>3. \A k \in Name : new[k] = IF k = m.key THEN m.doc ELSE docs[k]
    BY <1>2 DEF Contents
  <1> HIDE DEF new, m
  <1>4. ASSUME NEW k \in Name PROVE Overlay(new, Tail(q))[k] = Overlay(docs, q)[k]
    <2>1. CASE \E l \in DOMAIN q : IsLastWrite(q, k, l) /\ l # 1
      <3>1. PICK l \in DOMAIN q : IsLastWrite(q, k, l) /\ l # 1
        BY <2>1
      <3>2. PICK p : IsLastWrite(Tail(q), k, p) /\ Tail(q)[p] = q[l]
        BY <3>1, LastWriteOfTail
      <3>3. Overlay(new, Tail(q))[k] = Tail(q)[p].doc
        <4>1. ASSUME NEW rest \in Seq(Mutation), IsLastWrite(rest, k, p)
              PROVE  Overlay(new, rest)[k] = rest[p].doc
          BY <4>1, OverlayWritten
        <4> QED  BY <1>1, <3>2, <4>1, Zenon
      <3>4. Overlay(docs, q)[k] = q[l].doc
        BY <3>1, OverlayWritten
      <3> QED  BY <3>2, <3>3, <3>4
    <2>2. CASE IsLastWrite(q, k, 1)
      <3>1. q[1].key = k /\ \A j \in 1..n : j > 1 => q[j].key # k
        BY <1>1, <2>2 DEF IsLastWrite
      <3>2. \A i \in 1..(n - 1) : i + 1 \in 1..n /\ i + 1 > 1
        OBVIOUS
      <3>3. \A i \in DOMAIN Tail(q) : Tail(q)[i].key # k
        BY <1>1, <3>1, <3>2
      <3>4. Overlay(new, Tail(q))[k] = new[k]
        BY <3>3, OverlayUnwritten
      <3>5. Overlay(docs, q)[k] = q[1].doc
        BY <2>2, OverlayWritten
      <3> QED  BY <1>1, <1>3, <3>1, <3>4, <3>5
    <2>3. CASE \A l \in DOMAIN q : ~IsLastWrite(q, k, l)
      <3>1. \A i \in DOMAIN q : q[i].key # k
        BY <2>3, LastWriteExists
      <3>2. \A i \in 1..(n - 1) : i + 1 \in 1..n
        OBVIOUS
      <3>3. \A i \in DOMAIN Tail(q) : Tail(q)[i].key # k
        BY <1>1, <3>1, <3>2
      <3>4. 1 \in 1..n
        OBVIOUS
      <3>5. new[k] = docs[k]
        BY <1>1, <1>3, <3>1, <3>4
      <3>6. Overlay(new, Tail(q))[k] = new[k]
        BY <3>3, OverlayUnwritten
      <3>7. Overlay(docs, q)[k] = docs[k]
        BY <3>1, OverlayUnwritten
      <3> QED  BY <3>5, <3>6, <3>7
    <2> QED  BY <2>1, <2>2, <2>3
  <1> QED  BY <1>4 DEF Overlay, new, m

LEMMA AckNext ==
    ASSUME TypeOK, PipelineOK, [Next]_vars, NEW d \in Device,
           sent'[d] = sent[d] - 1, fresh[d] = 0
    PROVE  LocalView(d)' = LocalView(d)
  <1>1. StoreTypeOK /\ sent[d] \in Nat
    BY DEF TypeOK, StoreTypeOK
  <1>2. CASE UNCHANGED <<cache, queue>>
    BY <1>2 DEF LocalView, Overlay, IsLastWrite
  <1>3. CASE UNCHANGED sent
    BY <1>1, <1>3
  <1>4. ASSUME NEW e \in Device, Ack(e) PROVE LocalView(d)' = LocalView(d)
    <2>1. sent' = [sent EXCEPT ![e] = sent[e] - 1]
      BY <1>4 DEF Ack, HandleSuccessfulWrite
    <2>2. CASE e # d
      <3>1. sent'[d] = sent[d]
        BY <1>1, <2>1, <2>2 DEF StoreTypeOK
      <3> QED  BY <1>1, <3>1
    <2>3. CASE e = d
      <3> DEFINE m == Head(queue[d])
      <3>1. cache' = [cache EXCEPT ![d][m.key] = m.doc] /\ queue' = [queue EXCEPT ![d] = Tail(queue[d])]
        BY <1>4, <2>3 DEF Ack, HandleSuccessfulWrite
      <3>2. queue[d] \in Seq(Mutation) /\ queue[d] # <<>> /\ cache[d] \in Contents
        BY <1>1, <1>4, <2>3, EmptySeq DEF Ack, HandleSuccessfulWrite, PipelineOK, StoreTypeOK
      <3>3. cache'[d] = [cache[d] EXCEPT ![m.key] = m.doc] /\ queue'[d] = Tail(queue[d])
        BY <1>1, <3>1 DEF StoreTypeOK
      <3>4. Overlay(cache'[d], queue'[d]) = Overlay(cache[d], queue[d])
        BY <3>2, <3>3, OverlayAcknowledged
      <3>5. LocalView(d)' = Overlay(cache'[d], queue'[d])
        BY DEF LocalView, Overlay, IsLastWrite
      <3> QED  BY <3>4, <3>5 DEF LocalView
    <2> QED  BY <2>2, <2>3
  <1>5. ASSUME NEW e \in Device, Commit(e) PROVE LocalView(d)' = LocalView(d)
    <2>1. sent' = [sent EXCEPT ![e] = sent[e] + 1]
      BY <1>5 DEF Commit, CommitNext
    <2>2. sent'[d] = sent[d] \/ sent'[d] = sent[d] + 1
      BY <1>1, <2>1 DEF StoreTypeOK
    <2> QED  BY <1>1, <2>2
  <1>6. ASSUME NEW e \in Device,
               \/ UpdateTimer(e) \/ NewPostButton(e) \/ EditName(e) \/ EditText(e)
               \/ SaveButPress(e) \/ DidSelectRow(e) \/ Delete(e) \/ Back(e)
               \/ Update(e) \/ ShowPost(e) \/ SaveNothing(e) \/ SaveTask(e)
               \/ Synced(e) \/ Offline(e) \/ Refused(e) \/ Reject(e)
        PROVE  LocalView(d)' = LocalView(d)
    <2>1. UNCHANGED sent
      BY <1>6
      DEF UpdateTimer, NewPostButton, EditName, EditText, SaveButPress, DidSelectRow,
          Delete, Back, Update, ShowPost, SaveNothing, SaveTask,
          Synced, ApplyRemoteEvent, Offline, AnswerOffline, Refused, HandleRejectedListen,
          Reject, HandleRejectedWrite, clientVars
    <2> QED  BY <1>3, <2>1
  <1>7. ASSUME NEW e \in Device, SaveCrash(e) \/ Kill(e) \/ Break(e)
        PROVE  LocalView(d)' = LocalView(d)
    <2>1. UNCHANGED <<cache, queue>>
      BY <1>7 DEF SaveCrash, Kill, Break, OnWriteStreamClose
    <2> QED  BY <1>2, <2>1
  <1>8. CASE UNCHANGED vars
    BY <1>3, <1>8 DEF vars
  <1> QED  BY <1>4, <1>5, <1>6, <1>7, <1>8 DEF Next, HandleAnswer

(***************************************************************************)
(* An acknowledgement is invisible on the device it is for, for every      *)
(* queue of writes, repeated or overtaken by later ones: what the user has *)
(* published stays in view on its way from the queue to the cache.         *)
(***************************************************************************)
THEOREM AckCorrect == Spec => AckIsInvisible
  <1>1. TypeOK /\ PipelineOK /\ [Next]_vars => [AckUnseen]_vars
    BY AckNext DEF AckUnseen
  <1> QED  BY <1>1, StoreInvariant, PTL DEF Spec, AckIsInvisible

================================================================================
