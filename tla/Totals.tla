--------------------------------- MODULE Totals ---------------------------------
(***************************************************************************)
(* The sum of the values of a function into Nat, for the byte counters of  *)
(* the stores.  It is defined without recursion, as the number of pairs    *)
(* <<c, i>> with i among the first f[c] positive numbers, because facts    *)
(* about it then follow from the theorems on finite sets.                  *)
(***************************************************************************)
EXTENDS Integers, FiniteSets

Units(f) == UNION {{c} \X (1 .. f[c]) : c \in DOMAIN f}

Total(f) == Cardinality(Units(f))

\* A map with an entry added or replaced, and a map with some keys dropped.
With(f, c, e) == [d \in DOMAIN f \cup {c} |-> IF d = c THEN e ELSE f[d]]
Only(f, keys) == [d \in DOMAIN f \cap keys |-> f[d]]
Without(f, keys) == [d \in DOMAIN f \ keys |-> f[d]]
================================================================================
