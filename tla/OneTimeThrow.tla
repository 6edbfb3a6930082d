------------------------------ MODULE OneTimeThrow ------------------------------
(***************************************************************************)
(* What throw.dog promises about one throw, whatever store it lives in: it *)
(* is born live, and from there it is handed out once, to one receiver, or *)
(* it lapses unread; nothing brings it back.  The stores implement this    *)
(* specification; nothing here mentions codes, clocks, locks or bytes.     *)
(*                                                                         *)
(* One step may resolve several throws, because every call on a store      *)
(* sweeps what has expired on its way in.                                  *)
(***************************************************************************)
EXTENDS Naturals

CONSTANT Throws

VARIABLES
    fate,       \* what became of each throw
    handed      \* how often it was handed to a receiver

vars == <<fate, handed>>

Live == {x \in Throws : fate[x] = "live"}

Init ==
    /\ fate = [x \in Throws |-> "unborn"]
    /\ handed = [x \in Throws |-> 0]

\* x moves from one fate to another while the throws of `lapsing` lapse.
Move(x, from, to, lapsing) ==
    /\ fate[x] = from
    /\ fate' = [y \in Throws |-> IF y = x THEN to
                                 ELSE IF y \in lapsing THEN "lapsed" ELSE fate[y]]

Born(x, lapsing) ==
    /\ Move(x, "unborn", "live", lapsing)
    /\ UNCHANGED handed

Read(x, lapsing) ==
    /\ Move(x, "live", "read", lapsing)
    /\ handed' = [handed EXCEPT ![x] = @ + 1]

Lapse(lapsing) ==
    /\ fate' = [y \in Throws |-> IF y \in lapsing THEN "lapsed" ELSE fate[y]]
    /\ UNCHANGED handed

Next ==
    \E lapsing \in SUBSET Live :
        \/ Lapse(lapsing)
        \/ \E x \in Throws : Born(x, lapsing) \/ Read(x, lapsing)

\* Nobody has to come for a throw, but the house must not keep it either.
Resolve(x) == Next /\ fate[x] = "live" /\ fate'[x] # "live"

Safety == Init /\ [][Next]_vars

Spec == Safety /\ \A x \in Throws : WF_vars(Resolve(x))

TypeOK ==
    /\ fate \in [Throws -> {"unborn", "live", "read", "lapsed"}]
    /\ handed \in [Throws -> Nat]

\* The promise on the front page: one receiver, once.
HandedOnce == \A x \in Throws : handed[x] = IF fate[x] = "read" THEN 1 ELSE 0
================================================================================
