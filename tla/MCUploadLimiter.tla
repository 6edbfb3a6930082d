----------------------------- MODULE MCUploadLimiter -----------------------------
(* Constants for TLC: two IPs over a ceiling of one tracked, so sweeps run.   *)
EXTENDS UploadLimiter

IPsAlike == Permutations(IPs)
================================================================================
