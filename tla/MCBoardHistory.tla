---------------------------- MODULE MCBoardHistory -----------------------------
(* An instance of the notice board with its record for TLC.                *)
EXTENDS BoardHistory

CONSTANT p1     \* a phone

BoardOf(names) == [k \in Name |-> IF k \in names THEN [name |-> k, text |-> NoText] ELSE NoDoc]

TwoPosts == {BoardOf({1, 2})}
================================================================================
