------------------------------ MODULE BoardHistory ------------------------------
(***************************************************************************)
(* The notice board with a record of what its users have asked for, to     *)
(* state what becomes of their posts.  The record follows the steps of     *)
(* PostBoard and never restricts them.                                     *)
(***************************************************************************)
EXTENDS PostBoard

CONSTANT Silent     \* a device has not written to a name

ASSUME SilentAssumption == Silent \notin Post \cup {NoDoc}

VARIABLES
    latest,     \* latest[d][k]: d's last word on name k
    refused,    \* names for which the backend has refused a write
    published   \* the posts there were at first, and those saved since

historyVars == <<latest, refused, published>>
allVars == <<vars, historyVars>>

Posts(docs) == {docs[k] : k \in Present(docs)}

HistoryInit ==
    /\ Init
    /\ latest = [d \in Device |-> [k \in Name |-> Silent]]
    /\ refused = {}
    /\ published = Posts(server)

\* d has appended writes to its queue, all of them the same
Wrote(d) == Len(queue'[d]) > Len(queue[d])
Written(d) == queue'[d][Len(queue'[d])]

Record ==
    /\ latest' = [d \in Device |-> [k \in Name |->
                    IF Wrote(d) /\ Written(d).key = k THEN Written(d).doc
                    ELSE latest[d][k]]]
    /\ refused' = refused \cup
                    {Head(queue[d]).key : d \in {e \in Device :
                        Len(queue'[e]) < Len(queue[e]) /\ sent'[e] = sent[e]}}
    /\ published' = published \cup
                    ({Written(d).doc : d \in {e \in Device : Wrote(e)}} \ {NoDoc})

HistoryNext == Next /\ Record

HistorySpec == HistoryInit /\ [][HistoryNext]_allVars

--------------------------------------------------------------------------------

\* The backend has applied every pending write to k.
Settled(k) ==
    \A d \in Device : \A i \in DOMAIN queue[d] : queue[d][i].key = k => i <= sent[d]

(***************************************************************************)
(* When every pending write to a name has reached the backend, the name    *)
(* holds some device's last word on it, never an earlier one: the repeated *)
(* writes of saveTask's loop, writes sent again after a broken stream, and *)
(* a restart of the app never bring back what their author has replaced or *)
(* deleted since.  (A refused write may leave the name as it was.)         *)
(***************************************************************************)
LastWordStands ==
    \A k \in Name :
        Settled(k) /\ k \notin refused /\ (\E d \in Device : latest[d][k] # Silent)
        => \E d \in Device : latest[d][k] = server[k]

(***************************************************************************)
(* A feed holds only posts that were there at first or that a user has     *)
(* saved with this name and this text together, and the page of a post     *)
(* shows the name of a post that had the text the user tapped.             *)
(***************************************************************************)
ShownWasPublished ==
    \A d \in Device :
        /\ Posts(taskArray[d]) \subseteq published
        /\ screen[d] = "detail" /\ nameLabel[d] # Placeholder
           => [name |-> nameLabel[d], text |-> currentPost[d]] \in published
================================================================================
