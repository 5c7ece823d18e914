------------------------------- MODULE PostBoard -------------------------------
(***************************************************************************)
(* The school's notice board: the collection "Post", the news feed that    *)
(* shows it, the page that publishes a post and the page that shows one    *)
(* and may delete it, on several devices.                                  *)
(*                                                                         *)
(* A device shows one page: its feed, or a page pushed over the feed.      *)
(* Every handler runs on the main queue, so a step is one handler, one     *)
(* tap, or one step of the Firestore client or backend.                    *)
(***************************************************************************)
EXTENDS Naturals, Sequences, FiniteSets

CONSTANTS
    Device,
    Master,         \* devices whose user has the role Master
    Name,           \* post names, numbered in document-ID order
    NoName,         \* the name field left empty
    Placeholder,    \* the storyboard's text of a label nobody has set
    Text,           \* post texts
    NoText,         \* the text field as the page opens
    NoDoc, Failed,  \* see Firestore
    Open,           \* mark of a read whose page is still on the screen
    Boards,         \* the collections the app may find at first
    MaxPresses,     \* bound: presses of Save and of Delete, in all
    MaxFaults,      \* bound: crashes of the app and broken streams, in all
    MaxRefusals,    \* bound: reads and writes the backend refuses, in all
    MaxReads        \* bound: reads of a device in flight

ASSUME BoardAssumption ==
    /\ Name \subseteq Nat
    /\ IsFiniteSet(Name)
    /\ NoName \notin Name
    /\ Placeholder \in Name
    /\ NoText \in Text
    /\ Master \subseteq Device
    /\ {MaxPresses, MaxFaults, MaxRefusals, MaxReads} \subseteq Nat

Post  == [name: Name, text: Text]
Draft == [name: Name \cup {NoName}, text: Text]
Blank == [name |-> NoName, text |-> NoText]

ASSUME MarksAssumption ==
    /\ NoDoc \notin Post
    /\ Open \notin Draft
    /\ Failed \notin [Name -> Post \cup {NoDoc}]
    /\ \A b \in Boards : /\ b \in [Name -> Post \cup {NoDoc}]
                         /\ \A k \in Name : b[k] # NoDoc => b[k].name = k

\* What a read is for.  "page" is Open while the page that asked is on the
\* screen; of a page that was left it keeps the fields.
Request == [for: {"feed", "save", "detail"}, page: Draft \cup {Open}]

VARIABLES
    server, cache, queue, sent, fresh, gets, inbox,     \* see Firestore
    screen,         \* screen[d]: the page on top
    taskArray,      \* taskArray[d]: the posts the feed of d holds, by name
    fields,         \* fields[d]: the name and the text typed into "new post"
    currentPost,    \* currentPost[d]: the text the page of a post looks for
    nameLabel,      \* nameLabel[d]: the name that page shows
    presses, faults, refusals       \* how much of the bounds is used up

INSTANCE Firestore WITH Key <- Name, Doc <- Post

bounds == <<presses, faults, refusals>>
clientVars == <<server, cache, queue, sent, fresh, gets, inbox>>
appVars == <<screen, taskArray, fields, currentPost, nameLabel>>
vars == <<server, cache, queue, sent, fresh, gets, inbox,
          screen, taskArray, fields, currentPost, nameLabel, presses, faults, refusals>>

TypeOK ==
    /\ StoreTypeOK
    /\ screen \in [Device -> {"feed", "new", "detail"}]
    /\ taskArray \in [Device -> Contents]
    /\ fields \in [Device -> Draft]
    /\ currentPost \in [Device -> Text]
    /\ nameLabel \in [Device -> Name]
    /\ presses \in 0..MaxPresses
    /\ faults \in 0..MaxFaults
    /\ refusals \in 0..MaxRefusals

Empty == [k \in Name |-> NoDoc]

Init ==
    /\ \E b \in Boards : StoreInit(b)
    /\ screen = [d \in Device |-> "feed"]
    /\ taskArray = [d \in Device |-> Empty]
    /\ fields = [d \in Device |-> Blank]
    /\ currentPost = [d \in Device |-> NoText]
    /\ nameLabel = [d \in Device |-> Placeholder]
    /\ presses = 0
    /\ faults = 0
    /\ refusals = 0

Press == presses < MaxPresses /\ presses' = presses + 1
Fault == faults < MaxFaults /\ faults' = faults + 1
Refusal == refusals < MaxRefusals /\ refusals' = refusals + 1
HasRoom(d) == Len(gets[d]) + Len(inbox[d]) < MaxReads

--------------------------------------------------------------------------------
(* Leaving a page.  The callbacks it has pending keep the page alive, but   *)
(* it has no navigation controller any more, and nobody edits its fields.   *)

Detached(r, content) ==
    IF r.for # "feed" /\ r.page = Open THEN [r EXCEPT !.page = content] ELSE r

DetachedReads(rs, content) == [i \in DOMAIN rs |-> Detached(rs[i], content)]

DetachedAnswers(as, content) ==
    [i \in DOMAIN as |-> [as[i] EXCEPT !.req = Detached(@, content)]]

\* d goes back to its feed, and "left" are the answers not handled yet.
CloseWindow(d, left) ==
    /\ screen' = [screen EXCEPT ![d] = "feed"]
    /\ gets' = [gets EXCEPT ![d] = DetachedReads(@, fields[d])]
    /\ inbox' = [inbox EXCEPT ![d] = DetachedAnswers(left, fields[d])]
    /\ fields' = [fields EXCEPT ![d] = Blank]
    /\ currentPost' = [currentPost EXCEPT ![d] = NoText]
    /\ nameLabel' = [nameLabel EXCEPT ![d] = Placeholder]
    /\ UNCHANGED taskArray

--------------------------------------------------------------------------------
(* Taps and the timer.                                                     *)

\* The feed's timer: it runs only while the feed is on the screen.
UpdateTimer(d) ==
    /\ screen[d] = "feed"
    /\ HasRoom(d)
    /\ GetDocuments(d, [for |-> "feed", page |-> Open])
    /\ UNCHANGED <<server, cache, queue, sent, fresh, inbox, appVars, bounds>>

\* The button is enabled for a master only.
NewPostButton(d) ==
    /\ screen[d] = "feed"
    /\ d \in Master
    /\ screen' = [screen EXCEPT ![d] = "new"]
    /\ UNCHANGED <<clientVars, taskArray, fields, currentPost, nameLabel, bounds>>

EditName(d) ==
    /\ screen[d] = "new"
    /\ \E n \in Name \cup {NoName} : fields' = [fields EXCEPT ![d].name = n]
    /\ UNCHANGED <<clientVars, screen, taskArray, currentPost, nameLabel, bounds>>

EditText(d) ==
    /\ screen[d] = "new"
    /\ \E t \in Text : fields' = [fields EXCEPT ![d].text = t]
    /\ UNCHANGED <<clientVars, screen, taskArray, currentPost, nameLabel, bounds>>

SaveButPress(d) ==
    /\ screen[d] = "new"
    /\ HasRoom(d)
    /\ Press
    /\ GetDocuments(d, [for |-> "save", page |-> Open])
    /\ UNCHANGED <<server, cache, queue, sent, fresh, inbox, appVars, faults, refusals>>

\* A tap on a row opens the page of the post the array holds there now; the
\* page looks for the post by its text.
DidSelectRow(d) ==
    /\ screen[d] = "feed"
    /\ HasRoom(d)
    /\ \E k \in Present(taskArray[d]) :
           currentPost' = [currentPost EXCEPT ![d] = taskArray[d][k].text]
    /\ screen' = [screen EXCEPT ![d] = "detail"]
    /\ GetDocuments(d, [for |-> "detail", page |-> Open])
    /\ UNCHANGED <<server, cache, queue, sent, fresh, inbox,
                   taskArray, fields, nameLabel, bounds>>

\* The delete button is hidden unless the user is a master.
Delete(d) ==
    /\ screen[d] = "detail"
    /\ d \in Master
    /\ Press
    /\ WriteMutations(d, [key |-> nameLabel[d], doc |-> NoDoc], 1)
    /\ CloseWindow(d, inbox[d])
    /\ UNCHANGED <<server, cache, sent, fresh, faults, refusals>>

Back(d) ==
    /\ screen[d] # "feed"
    /\ CloseWindow(d, inbox[d])
    /\ UNCHANGED <<server, cache, queue, sent, fresh, bounds>>

--------------------------------------------------------------------------------
(* Answers, handled on the main queue in the order they were raised.       *)

Relaunch(d) ==
    /\ LoseMemory(d)
    /\ screen' = [screen EXCEPT ![d] = "feed"]
    /\ taskArray' = [taskArray EXCEPT ![d] = Empty]
    /\ fields' = [fields EXCEPT ![d] = Blank]
    /\ currentPost' = [currentPost EXCEPT ![d] = NoText]
    /\ nameLabel' = [nameLabel EXCEPT ![d] = Placeholder]

NextAnswer(d, purpose) ==
    /\ inbox[d] # <<>>
    /\ Head(inbox[d]).req.for = purpose

Handled(d) == inbox' = [inbox EXCEPT ![d] = Tail(@)]

\* mutant: an empty answer is taken for no answer
UpdateUnlessEmpty(d) ==
    /\ NextAnswer(d, "feed")
    /\ Handled(d)
    /\ LET result == Head(inbox[d]).result
       IN  taskArray' = [taskArray EXCEPT ![d] =
                            IF result = Failed \/ Present(result) = {} THEN @ ELSE result]
    /\ UNCHANGED <<server, cache, queue, sent, fresh, gets,
                   screen, fields, currentPost, nameLabel, bounds>>

Update(d) ==
    /\ NextAnswer(d, "feed")
    /\ Handled(d)
    /\ LET result == Head(inbox[d]).result
       IN  taskArray' = [taskArray EXCEPT ![d] =
                            IF result = Failed THEN @ ELSE result]
    /\ UNCHANGED <<server, cache, queue, sent, fresh, gets,
                   screen, fields, currentPost, nameLabel, bounds>>

\* mutant: the text of the post is not compared
MatchingAny(docs, text) == Present(docs)
Matching(docs, text) == {k \in Present(docs) : docs[k].text = text}

IsLast(S, k) == k \in S /\ \A j \in S : j <= k

\* Of the posts with the text, the last in document order is shown.
ShowPost(d) ==
    /\ NextAnswer(d, "detail")
    /\ Handled(d)
    /\ LET a == Head(inbox[d])
           found == IF a.result = Failed \/ a.req.page # Open
                    THEN {} ELSE Matching(a.result, currentPost[d])
       IN  nameLabel' = [nameLabel EXCEPT ![d] =
               IF \E k \in found : IsLast(found, k)
               THEN a.result[CHOOSE k \in found : IsLast(found, k)].name
               ELSE @]
    /\ UNCHANGED <<server, cache, queue, sent, fresh, gets,
                   screen, taskArray, fields, currentPost, bounds>>

\* The fields as they are when the answer comes, not when Save was pressed.
Typed(d) ==
    LET r == Head(inbox[d]).req IN IF r.page = Open THEN fields[d] ELSE r.page

\* mutant: a name typed on the page now on the screen names the document
NewPostOfScreen(d) ==
    [key |-> IF fields[d].name = NoName THEN Typed(d).name ELSE fields[d].name,
     doc |-> Typed(d)]
NewPost(d) == [key |-> Typed(d).name, doc |-> Typed(d)]

OtherPosts(docs, name) == {k \in Present(docs) : docs[k].name # name}

\* mutant: the loop only looks for the name, and the write comes after it
WritesAfterLoop(d) ==
    LET result == Head(inbox[d]).result
    IN  IF result = Failed \/ Typed(d).name \in Present(result) THEN 0 ELSE 1

\* How many times the loop of saveTask writes the post.
Writes(d) ==
    LET result == Head(inbox[d]).result
    IN  IF result = Failed THEN 0 ELSE Cardinality(OtherPosts(result, Typed(d).name))

\* document(name) takes any name but the empty one.
AnyName(name) == TRUE   \* mutant: the empty name makes a document too
NamesDocument(name) == name # NoName

\* Nothing to write: an error, or no post under another name.
SaveNothing(d) ==
    /\ NextAnswer(d, "save")
    /\ Writes(d) = 0
    /\ Handled(d)
    /\ UNCHANGED <<server, cache, queue, sent, fresh, gets, appVars, bounds>>

\* The post is written, and its page closed if it is still there.
SaveTask(d) ==
    /\ NextAnswer(d, "save")
    /\ Writes(d) > 0
    /\ NamesDocument(Typed(d).name)
    /\ WriteMutations(d, NewPost(d), Writes(d))
    /\ IF Head(inbox[d]).req.page = Open
       THEN CloseWindow(d, Tail(inbox[d]))
       ELSE Handled(d) /\ UNCHANGED <<gets, appVars>>
    /\ UNCHANGED <<server, cache, sent, fresh, bounds>>

\* document("") is no document reference: the process ends.
SaveCrash(d) ==
    /\ NextAnswer(d, "save")
    /\ Writes(d) > 0
    /\ ~NamesDocument(Typed(d).name)
    /\ Relaunch(d)
    /\ UNCHANGED <<server, cache, queue, bounds>>

\* One block of the main queue
HandleAnswer(d) ==
    Update(d) \/ ShowPost(d) \/ SaveNothing(d) \/ SaveTask(d) \/ SaveCrash(d)

--------------------------------------------------------------------------------
(* The environment: the system ends the app, and the Firestore client.     *)

Kill(d) ==
    /\ Fault
    /\ Relaunch(d)
    /\ UNCHANGED <<server, cache, queue, presses, refusals>>

Synced(d)   == ApplyRemoteEvent(d) /\ UNCHANGED <<appVars, bounds>>
Offline(d)  == AnswerOffline(d) /\ UNCHANGED <<appVars, bounds>>
Refused(d)  == HandleRejectedListen(d) /\ Refusal /\ UNCHANGED <<appVars, presses, faults>>
Commit(d)   == CommitNext(d) /\ UNCHANGED <<appVars, bounds>>
Ack(d)      == HandleSuccessfulWrite(d) /\ UNCHANGED <<appVars, bounds>>
Reject(d)   == HandleRejectedWrite(d) /\ Refusal /\ UNCHANGED <<appVars, presses, faults>>
Break(d)    == OnWriteStreamClose(d) /\ Fault /\ UNCHANGED <<appVars, presses, refusals>>

Next ==
    \E d \in Device :
        \/ UpdateTimer(d) \/ NewPostButton(d) \/ EditName(d) \/ EditText(d)
        \/ SaveButPress(d) \/ DidSelectRow(d) \/ Delete(d) \/ Back(d)
        \/ HandleAnswer(d)
        \/ Kill(d) \/ Synced(d) \/ Offline(d) \/ Refused(d)
        \/ Commit(d) \/ Ack(d) \/ Reject(d) \/ Break(d)

Spec == Init /\ [][Next]_vars

--------------------------------------------------------------------------------
(* Safety.                                                                 *)

\* Every post on the board, in a cache, in a pending write or in an answer
\* is one of those that G allows under its document's name.
Holds(docs, G) == \A k \in Name : docs[k] # NoDoc => docs[k] \in G[k]
HoldsWrites(q, G) == \A i \in DOMAIN q : q[i].doc # NoDoc => q[i].doc \in G[q[i].key]
HoldsAnswers(as, G) ==
    \A i \in DOMAIN as : as[i].result # Failed => Holds(as[i].result, G)

Stored(G) ==
    /\ Holds(server, G)
    /\ \A d \in Device : /\ Holds(cache[d], G)
                         /\ HoldsWrites(queue[d], G)
                         /\ HoldsAnswers(inbox[d], G)

Shown(G) == \A d \in Device : Holds(taskArray[d], G)

(***************************************************************************)
(* A post is stored everywhere, and shown in every feed, under its own     *)
(* name.  Delete relies on it: it takes the name that the page shows for   *)
(* the document to delete.                                                 *)
(***************************************************************************)
Named == [k \in Name |-> {p \in Post : p.name = k}]

KeyedByName == Stored(Named) /\ Shown(Named)

\* No post at all: not on the board, and in no cache, write or answer.
NoPostAnywhere == Stored([k \in Name |-> {}])

(***************************************************************************)
(* saveTask writes from inside its loop over the posts it has read, so a   *)
(* board without posts stays without posts, whatever the masters save: the *)
(* first post cannot come from the app.                                    *)
(***************************************************************************)
EmptyBoardStaysEmpty == [][NoPostAnywhere => NoPostAnywhere']_vars

(***************************************************************************)
(* A device sees no change when its own write is acknowledged, unless the  *)
(* cache was already ahead of it: a post its author has published does not *)
(* disappear from the author's feed on its way from the queue to the       *)
(* cache.                                                                  *)
(***************************************************************************)
AckUnseen ==
    \A d \in Device :
        sent'[d] = sent[d] - 1 /\ fresh[d] = 0 => LocalView(d)' = LocalView(d)

AckIsInvisible == [][AckUnseen]_vars

--------------------------------------------------------------------------------
(* Liveness.  The main queue runs its timer and its callbacks; a device is *)
(* online again and again, and then its listens and writes get through.    *)

Fairness ==
    \A d \in Device :
        /\ WF_vars(UpdateTimer(d))
        /\ WF_vars(HandleAnswer(d))
        /\ SF_vars(Synced(d))
        /\ WF_vars(Commit(d)) /\ WF_vars(Ack(d))

FairSpec == Spec /\ Fairness

(***************************************************************************)
(* A feed that stays on the screen comes to hold the backend's posts and   *)
(* to hold on to them, although reads are answered from a stale cache,     *)
(* fail, or are lost with the process on the way (the users' presses and   *)
(* the faults are bounded, so both end).                                   *)
(***************************************************************************)
FeedConverges ==
    \A d \in Device :
        <>[](screen[d] = "feed") => <>[](taskArray[d] = server)

(***************************************************************************)
(* A press of Save is answered: the page does not wait for ever, even when *)
(* the device is offline or the process ends before the answer.            *)
(***************************************************************************)
SavesWaiting(d) ==
    \/ \E i \in DOMAIN gets[d] : gets[d][i].for = "save"
    \/ \E i \in DOMAIN inbox[d] : inbox[d][i].req.for = "save"

SaveIsAnswered == \A d \in Device : SavesWaiting(d) ~> ~SavesWaiting(d)
================================================================================
