------------------------------ MODULE MCPostBoard ------------------------------
(***************************************************************************)
(* Instances of the notice board for TLC.  Posts are named 1, 2, ... in    *)
(* document order; the storyboard's placeholder is a legal name too.       *)
(***************************************************************************)
EXTENDS PostBoard

CONSTANT p1     \* a phone

BoardOf(names) == [k \in Name |-> IF k \in names THEN [name |-> k, text |-> NoText] ELSE NoDoc]

NoneOrOne == {BoardOf({}), BoardOf({1})}
================================================================================
