--------------------------------- MODULE MCRelay ---------------------------------
(* Constants for TLC: an open and a closed text, an open and a closed file,    *)
(* two codes and one closed address, so that throws of a kind compete for it.  *)
EXTENDS Relay, TLC

CONSTANTS t1, t2, f1, f2, h1, h2, i1, i2

SmallLetters == {"a", "b"}
SmallAlphabet == {"2"}
Spaces == {" ", "-"}
Lowercase == [c \in SmallLetters \union SmallAlphabet \union Spaces \union {"A"} |->
                  IF c = "A" THEN "a" ELSE c]
TwoAdjectives == {<<"a">>, <<"b", "a">>}
OneNoun == {<<"b">>}

TwoTexts == {t1, t2}
TwoFiles == {f1, f2}
Sealed == {t2, f2}
TwoHandlers == {h1, h2}
TwoIPs == {i1, i2}
Permuted == Permutations(TwoHandlers) \union Permutations(TwoIPs)

Capital(w) == [i \in DOMAIN w |-> IF w[i] = "a" THEN "A" ELSE w[i]]

\* How people write a code, and what nobody means a code by.
SpellingsOf(c) ==
    {c[1] \o c[2], c[1] \o <<"-">> \o c[2], Capital(c[1] \o <<" ", "-">> \o c[2]) \o <<" ">>}

SmallSpelled ==
    UNION {[raw : SpellingsOf(c), meant : {c}] : c \in Codes}
        \union [raw : ClosedAddresses, meant : ClosedAddresses]
        \union [raw : {<<"a", "2", "b">>, <<"b", "-", "a">>, <<" ">>}, meant : {NoCode}]

\* What the page sends for a text of so many bytes.  Escaping makes at most six bytes
\* of one, and there is a handful around the text.
Honest(n, enc) ==
    [honest |-> TRUE, typed |-> n, enc |-> enc, json |-> TRUE, base64 |-> enc # "absent",
     blank |-> FALSE, raw |-> IF enc = "known" THEN IvBytes + n + TagBytes ELSE n,
     body |-> IF enc = "known" THEN EncryptedCeiling(n) + 2 ELSE 6 * n + 2]

\* What any client may say.
Claim(raw) == [Honest(raw, "known") EXCEPT !.honest = FALSE, !.raw = raw]

SmallTextRequests ==
    {Honest(n, enc) : n \in 1 .. MaxText + 1, enc \in {"absent", "known"}}
        \union {Claim(raw) : raw \in {1, MaxText + IvBytes + TagBytes, MaxText + IvBytes + TagBytes + 1}}
        \union {[Claim(1) EXCEPT !.base64 = FALSE], [Claim(1) EXCEPT !.enc = "unknown"],
                [Claim(1) EXCEPT !.json = FALSE], [Claim(1) EXCEPT !.blank = TRUE],
                [Claim(1) EXCEPT !.body = MaxBody + 1]}

\* The page's plans for an open file at the limit and over it, for a closed one around
\* the multiples of a chunk there, and plans that lie.
SmallPlans ==
    {OpenPlan(n) : n \in {OpenMax, OpenMax + 1}}
        \union {ClosedPlan(n, MaxHeader - TagBytes) : n \in {ClosedMax, ClosedMax + 1}}
        \union {ClosedPlan(ClosedMax - 1, 0)}
        \union {[OpenPlan(2) EXCEPT !.chunks = 2], [ClosedPlan(2, 0) EXCEPT !.plain = 1, !.size = 20],
                [OpenPlan(2) EXCEPT !.size = 0], [ClosedPlan(2, 0) EXCEPT !.size = 1]}

SmallHeaders ==
    {Nothing} \union [kind : {"suffix"}, last : {-1, 0, 2, 9}] \union [kind : {"from"}, first : {0, 1, 4}]
        \union [kind : {"span"}, first : {0, 2}, last : {-1, 1, 2, 9}]
================================================================================
