---------------------------- MODULE MCWritePipeline ----------------------------
(***************************************************************************)
(* Instances of the write pipeline for TLC.                                *)
(***************************************************************************)
EXTENDS WritePipeline

CONSTANTS alice, bob

================================================================================
