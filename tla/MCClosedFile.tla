------------------------------ MODULE MCClosedFile ------------------------------
(* Constants for TLC are plain values; see the configuration. *)
EXTENDS ClosedFile
================================================================================
