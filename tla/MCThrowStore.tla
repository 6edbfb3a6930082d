------------------------------ MODULE MCThrowStore ------------------------------
(* Constants for TLC: two open throws of a byte and a closed one of two,      *)
(* so that the byte ceiling and a code in use each refuse a put.              *)
EXTENDS ThrowStore, TLC

CONSTANTS t1, t2, t3

AllThrows == {t1, t2, t3}
OneClosed == {t3}
SizeOfAll == (t1 :> 1) @@ (t2 :> 1) @@ (t3 :> 2)
================================================================================
