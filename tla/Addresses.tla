------------------------------- MODULE Addresses -------------------------------
(***************************************************************************)
(* The two address spaces: two-word codes, which people retype in many     *)
(* spellings, and closed addresses, which are matched exactly.             *)
(*                                                                         *)
(* A spelling is a sequence of characters; a code is the pair of its words.*)
(***************************************************************************)
EXTENDS Integers, Sequences, FiniteSets

CONSTANTS
    Letters,            \* a to z
    LEADING_DIGITS,     \* _LEADING_DIGITS
    ALPHABET,
    LENGTH,
    SEPARATORS,         \* the six of normalize, and whitespace
    lower,              \* what lowercasing does to each character
    ADJECTIVES,         \* sequences of letters
    NOUNS

Begins(w, v) == Len(w) <= Len(v) /\ \A i \in 1 .. Len(w) : w[i] = v[i]

ASSUME AddressesAssumption ==
    /\ LEADING_DIGITS \subseteq ALPHABET
    /\ Letters \intersect LEADING_DIGITS = {}
    /\ SEPARATORS \intersect (ALPHABET \union Letters) = {}
    /\ LENGTH \in Nat \ {0}
    /\ \A c \in ALPHABET \union Letters : lower[c] = c
    /\ ADJECTIVES \subseteq Seq(Letters) \ {<< >>}
    /\ NOUNS \subseteq Seq(Letters) \ {<< >>}

\* What codewords says of its first list, and its tests check.
ASSUME PrefixFree == \A w, v \in ADJECTIVES : Begins(w, v) => w = v

--------------------------------------------------------------------------------
(* Closed addresses.                                                       *)

IsClosedAddress(raw) ==
    /\ Len(raw) = LENGTH
    /\ raw[1] \in LEADING_DIGITS
    /\ \A i \in 1 .. Len(raw) : raw[i] \in ALPHABET

\* JS_PATTERN, by which the receiver page and tdClosedTarget tell one.
MatchesPattern(raw) ==
    /\ Len(raw) = 1 + (LENGTH - 1)
    /\ \A i \in 1 .. Len(raw) : raw[i] \in (IF i = 1 THEN LEADING_DIGITS ELSE ALPHABET)

\* generate of closedaddress.
ClosedAddresses ==
    {s \in [1 .. LENGTH -> ALPHABET] : s[1] \in LEADING_DIGITS}

--------------------------------------------------------------------------------
(* Codes.                                                                  *)

Codes == ADJECTIVES \X NOUNS

NoCode == << >>

Lowered(raw) == [i \in 1 .. Len(raw) |-> lower[raw[i]]]

\* Where the runs of other characters between separators begin and end.
Tokens(s) ==
    {t \in (1 .. Len(s)) \X (1 .. Len(s)) :
        /\ t[1] <= t[2]
        /\ \A i \in t[1] .. t[2] : s[i] \notin SEPARATORS
        /\ t[1] = 1 \/ s[t[1] - 1] \in SEPARATORS
        /\ t[2] = Len(s) \/ s[t[2] + 1] \in SEPARATORS}

Word(s, t) == SubSeq(s, t[1], t[2])

Cuts(word) ==
    {cut \in 1 .. Len(word) - 1 :
        SubSeq(word, 1, cut) \in ADJECTIVES /\ SubSeq(word, cut + 1, Len(word)) \in NOUNS}

SplitJoined(word) ==
    IF \E cut \in Cuts(word) : Cuts(word) = {cut}
    THEN LET cut == CHOOSE cut \in Cuts(word) : TRUE
         IN  <<SubSeq(word, 1, cut), SubSeq(word, cut + 1, Len(word))>>
    ELSE NoCode

TwoWords(first, second) ==
    IF <<first, second>> \in Codes THEN <<first, second>> ELSE NoCode

\* mutant: only codes with a separator are understood
Normalize_Separated(raw) ==
    LET s == Lowered(raw)
        tokens == Tokens(s)
    IN  IF Cardinality(tokens) # 2 \/ \E i \in 1 .. Len(s) : s[i] \notin Letters \union SEPARATORS
        THEN NoCode
        ELSE LET t == CHOOSE t \in tokens : \A u \in tokens : t[1] <= u[1]
                 u == CHOOSE u \in tokens : u # t
             IN  TwoWords(Word(s, t), Word(s, u))

Normalize(raw) ==
    LET s == Lowered(raw)
        tokens == Tokens(s)
        first == CHOOSE t \in tokens : \A u \in tokens : t[1] <= u[1]
        second == CHOOSE t \in tokens : t # first
    IN  IF \E i \in 1 .. Len(s) : s[i] \notin Letters \union SEPARATORS THEN NoCode
        ELSE IF Cardinality(tokens) = 2 THEN TwoWords(Word(s, first), Word(s, second))
        ELSE IF Cardinality(tokens) = 1 THEN SplitJoined(Word(s, first))
        ELSE NoCode

\* take_throw: where the stores are asked for what stands in the path.
Canonical(raw) == IF IsClosedAddress(raw) THEN raw ELSE Normalize(raw)
================================================================================
