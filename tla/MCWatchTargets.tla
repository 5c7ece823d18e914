---------------------------- MODULE MCWatchTargets ----------------------------
(* Small instances of WatchTargets: the queries q1 and q2 about documents d1 and d2 *)
EXTENDS WatchTargets

CONSTANTS q1, q2, d1, d2

OneQuery == q1 :> {d1, d2}
SharedQueries == q1 :> {d1, d2} @@ q2 :> {d2}
================================================================================
