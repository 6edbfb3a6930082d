------------------------------ MODULE MCChunkUpload ------------------------------
(* Constants for TLC are plain values; see the configurations. *)
EXTENDS ChunkUpload
================================================================================
