------------------------------ MODULE MCGatekeeper ------------------------------
(* Constants for TLC: with two tracked IPs allowed and three missing, the     *)
(* sweep runs; six misses fill a budget of two and a threshold of four.       *)
EXTENDS Gatekeeper

IPsAlike == Permutations(IPs)
================================================================================
