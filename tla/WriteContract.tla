----------------------------- MODULE WriteContract -----------------------------
(***************************************************************************)
(* What the Firestore client promises about a user's writes: they leave    *)
(* the device in the order they were made, the backend applies none before *)
(* the earlier ones of that user are settled there, none once its answer   *)
(* is in, and the client settles each exactly once, oldest first, as the   *)
(* backend answered - or as refused when it was applied and the answer got *)
(* lost or could not be decoded.                                           *)
(***************************************************************************)
EXTENDS Naturals, Sequences

CONSTANTS User, Write

VARIABLES
    pending,            \* pending[u]: writes of u, oldest first
    applied, refused,   \* by the backend
    acked, rejected     \* by the client

vars == <<pending, applied, refused, acked, rejected>>

Init == /\ pending = [u \in User |-> <<>>]
        /\ applied = {} /\ refused = {} /\ acked = {} /\ rejected = {}

Issue(u) ==
    /\ \E w \in Write :
          /\ \A v \in User : w \notin {pending[v][i] : i \in DOMAIN pending[v]}
          /\ w \notin applied \cup refused
          /\ pending' = [pending EXCEPT ![u] = Append(@, w)]
    /\ UNCHANGED <<applied, refused, acked, rejected>>

\* u's write number i gets its answer: everything before it has had one
Due(u, i) == \A j \in 1 .. i - 1 : pending[u][j] \in applied \cup refused

Apply(u, i) ==
    /\ Due(u, i)
    /\ applied' = applied \cup {pending[u][i]}
    /\ UNCHANGED <<pending, refused, acked, rejected>>

Refuse(u, i) ==
    /\ Due(u, i)
    /\ refused' = refused \cup {pending[u][i]}
    /\ UNCHANGED <<pending, applied, acked, rejected>>

Acknowledge(u) ==
    /\ pending[u] # <<>> /\ Head(pending[u]) \in applied
    /\ acked' = acked \cup {Head(pending[u])}
    /\ pending' = [pending EXCEPT ![u] = Tail(@)]
    /\ UNCHANGED <<applied, refused, rejected>>

Reject(u) ==
    /\ pending[u] # <<>> /\ Head(pending[u]) \in applied \cup refused
    /\ rejected' = rejected \cup {Head(pending[u])}
    /\ pending' = [pending EXCEPT ![u] = Tail(@)]
    /\ UNCHANGED <<applied, refused, acked>>

Next == \E u \in User :
    \/ Issue(u) \/ Acknowledge(u) \/ Reject(u)
    \/ \E i \in DOMAIN pending[u] : Apply(u, i) \/ Refuse(u, i)

Spec == Init /\ [][Next]_vars
================================================================================
