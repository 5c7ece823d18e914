------------------------------- MODULE MCAccount -------------------------------
(* Instances of the accounts for TLC. *)
EXTENDS Account, TLC
CONSTANTS ann, bob      \* addresses

\* The addresses are interchangeable
Addresses == Permutations({ann, bob})
================================================================================
