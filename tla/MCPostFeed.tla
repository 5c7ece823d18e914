------------------------------- MODULE MCPostFeed -------------------------------
(* Instances of the news feed for TLC. *)
EXTENDS PostFeed
CONSTANTS a, b
================================================================================
