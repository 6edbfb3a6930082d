------------------------------- MODULE MCFileStore -------------------------------
(* Constants for TLC: f1 is two chunks of a byte, f2 one chunk of two, f3 one *)
(* of one.  Two are allowed at once; where bytes are the limit, f1 and f2     *)
(* do not fit together.  In a run of its own, f1 is a full chunk and a byte.  *)
EXTENDS FileStore, TLC

CONSTANTS f1, f2, f3

OneFile == {f1}
TwoFiles == {f1, f2}
ThreeFiles == {f1, f2, f3}
OneClosed == {f2}
DeclaredOdd == (f1 :> 3)
DeclaredTwo == (f1 :> 2) @@ (f2 :> 2)
DeclaredThree == DeclaredTwo @@ (f3 :> 1)
ChunksOne == (f1 :> 2)
ChunksTwo == ChunksOne @@ (f2 :> 1)
ChunksThree == ChunksTwo @@ (f3 :> 1)

Alike == Permutations(Writers) \cup Permutations(Tickets)
================================================================================
