------------------------------- MODULE MCDownloads -------------------------------
(* Constants for TLC are plain values; see the configurations. *)
EXTENDS Downloads
================================================================================
