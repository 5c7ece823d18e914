----------------------------- MODULE MCGrpcStreams -----------------------------
(* A small instance of GrpcStreams: the watch and the write stream *)
EXTENDS GrpcStreams

CONSTANTS watch, write
================================================================================
