--------------------------------- MODULE Ranges ---------------------------------
(***************************************************************************)
(* parse_range: what a Range header asks of a file of a given size.        *)
(*                                                                         *)
(* A header is what its text amounts to.  "nothing" is no header, and one  *)
(* in other units, with a list, without a dash or with no number where one *)
(* must be; "suffix" is -n, "from" is n-, "span" is n-m.  The part before  *)
(* the first dash holds no sign, so only what follows it can be negative.  *)
(***************************************************************************)
EXTENDS Integers

Nothing == [kind |-> "nothing"]

Header ==
    {Nothing}
        \union [kind : {"suffix"}, last : Int]
        \union [kind : {"from"}, first : Nat]
        \union [kind : {"span"}, first : Nat, last : Int]

WholeFile == [kind |-> "whole"]
Unsatisfiable == [kind |-> "unsatisfiable"]
Span(start, end) == [kind |-> "span", start |-> start, end |-> end]

AtLeast0(n) == IF n < 0 THEN 0 ELSE n
Smaller(m, n) == IF m < n THEN m ELSE n

\* What the header names, before the checks.
FirstByte(header, size) ==
    IF header.kind = "suffix" THEN AtLeast0(size - header.last) ELSE header.first

\* mutant: the last byte is clipped to the size
LastByte_OneTooFar(header, size) ==
    IF header.kind = "span" THEN Smaller(header.last, size) ELSE size - 1

LastByte(header, size) ==
    IF header.kind = "span" THEN Smaller(header.last, size - 1) ELSE size - 1

Impossible(header, size) ==
    \/ header.kind = "suffix" /\ header.last <= 0
    \/ header.kind # "suffix" /\ header.first >= size
    \/ header.kind = "span" /\ header.last < header.first

ParseRange(header, size) ==
    CASE header.kind = "nothing" -> WholeFile
      [] header.kind # "nothing" /\ Impossible(header, size) -> Unsatisfiable
      [] OTHER -> Span(FirstByte(header, size), LastByte(header, size))

\* The bytes of a file of this size that the header asks for.
Asked(header, size) ==
    {b \in 0 .. size - 1 :
        CASE header.kind = "suffix" -> b >= size - header.last
          [] header.kind = "from" -> b >= header.first
          [] header.kind = "span" -> header.first <= b /\ b <= header.last
          [] OTHER -> TRUE}
================================================================================
