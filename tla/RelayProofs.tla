------------------------------ MODULE RelayProofs ------------------------------
(***************************************************************************)
(* What a request is taken to ask for, and what the handlers do with it.   *)
(*                                                                         *)
(* A range that is served lies inside the file and is exactly the bytes    *)
(* the header asked for, whatever the header and the size.                 *)
(*                                                                         *)
(* The two address spaces do not meet, the page tells a closed address as  *)
(* the server does, and a code typed without a separator is understood,    *)
(* for every vocabulary that is prefix-free in its first list.             *)
(*                                                                         *)
(* No code is in both stores, slots belong to who started the upload,      *)
(* whoever asks for a throw by its code gets it, whatever runs beside, and *)
(* the page and the server agree on what is too big.                       *)
(***************************************************************************)
EXTENDS Relay, TotalsProofs

\* download_file promises end - start + 1 bytes: a span parse_range returns is never
\* empty and never leaves the file, so the promise can be kept.
THEOREM SpanIsInside ==
    ASSUME NEW size \in Nat \ {0}, NEW header \in Header,
           NEW start, NEW end, ParseRange(header, size) = Span(start, end)
    PROVE  0 <= start /\ start <= end /\ end < size
<1>1. header.kind # "nothing" /\ ~Impossible(header, size)
  BY DEF ParseRange, WholeFile, Unsatisfiable, Span
<1>2. start = FirstByte(header, size) /\ end = LastByte(header, size)
  BY <1>1 DEF ParseRange, Span
<1>3. CASE header.kind = "suffix"
  <2>1. header.last \in Int /\ header.last > 0
    BY <1>1, <1>3 DEF Header, Nothing, Impossible
  <2>. QED  BY <1>2, <1>3, <2>1 DEF FirstByte, LastByte, AtLeast0
<1>4. CASE header.kind = "from"
  <2>1. header.first \in Nat /\ header.first < size
    BY <1>1, <1>4 DEF Header, Nothing, Impossible
  <2>. QED  BY <1>2, <1>4, <2>1 DEF FirstByte, LastByte
<1>5. CASE header.kind = "span"
  <2>1. header.first \in Nat /\ header.last \in Int
    BY <1>5 DEF Header, Nothing
  <2>2. header.first < size /\ header.first <= header.last
    BY <1>1, <1>5, <2>1 DEF Impossible
  <2>. QED  BY <1>2, <1>5, <2>1, <2>2 DEF FirstByte, LastByte, Smaller
<1>. QED  BY <1>1, <1>3, <1>4, <1>5 DEF Header, Nothing

\* A resumed download gets the bytes it named and no others (parse_range): the span
\* holds every byte of the file the header asks for, and nothing else.
THEOREM SpanIsWhatWasAsked ==
    ASSUME NEW size \in Nat \ {0}, NEW header \in Header,
           NEW start, NEW end, ParseRange(header, size) = Span(start, end)
    PROVE  start .. end = Asked(header, size)
<1>1. header.kind # "nothing" /\ ~Impossible(header, size)
  BY DEF ParseRange, WholeFile, Unsatisfiable, Span
<1>2. start = FirstByte(header, size) /\ end = LastByte(header, size)
  BY <1>1 DEF ParseRange, Span
<1>3. CASE header.kind = "suffix"
  <2>1. header.last \in Int /\ header.last > 0
    BY <1>1, <1>3 DEF Header, Nothing, Impossible
  <2>. QED  BY <1>2, <1>3, <2>1 DEF FirstByte, LastByte, AtLeast0, Asked
<1>4. CASE header.kind = "from"
  <2>1. header.first \in Nat /\ header.first < size
    BY <1>1, <1>4 DEF Header, Nothing, Impossible
  <2>. QED  BY <1>2, <1>4, <2>1 DEF FirstByte, LastByte, Asked
<1>5. CASE header.kind = "span"
  <2>1. header.first \in Nat /\ header.last \in Int
    BY <1>5 DEF Header, Nothing
  <2>2. header.first < size /\ header.first <= header.last
    BY <1>1, <1>5, <2>1 DEF Impossible
  <2>. QED  BY <1>2, <1>5, <2>1, <2>2 DEF FirstByte, LastByte, Smaller, Asked
<1>. QED  BY <1>1, <1>3, <1>4, <1>5 DEF Header, Nothing

\* A 416 is only for a header that asks for no byte of the file.
THEOREM UnsatisfiableAsksForNothing ==
    ASSUME NEW size \in Nat \ {0}, NEW header \in Header,
           ParseRange(header, size) = Unsatisfiable
    PROVE  Asked(header, size) = {}
<1>1. header.kind # "nothing" /\ Impossible(header, size)
  BY DEF ParseRange, WholeFile, Unsatisfiable, Span
<1>2. CASE header.kind = "suffix"
  <2>1. header.last \in Int /\ header.last <= 0
    BY <1>1, <1>2 DEF Header, Nothing, Impossible
  <2>. QED  BY <1>2, <2>1 DEF Asked
<1>3. CASE header.kind = "from"
  <2>1. header.first \in Nat /\ header.first >= size
    BY <1>1, <1>3 DEF Header, Nothing, Impossible
  <2>. QED  BY <1>3, <2>1 DEF Asked
<1>4. CASE header.kind = "span"
  <2>1. header.first \in Nat /\ header.last \in Int
    BY <1>4 DEF Header, Nothing
  <2>2. header.first >= size \/ header.last < header.first
    BY <1>1, <1>4, <2>1 DEF Impossible
  <2>. QED  BY <1>4, <2>1, <2>2 DEF Asked
<1>. QED  BY <1>1, <1>2, <1>3, <1>4 DEF Header, Nothing

--------------------------------------------------------------------------------
\* A closed address starts with a digit, which no code holds: take_throw never looks
\* one up as the other, so a link is never spent under the wrong rules.
THEOREM SpacesAreDisjoint ==
    ASSUME NEW raw, IsClosedAddress(raw)
    PROVE  Normalize(raw) = NoCode
<1> DEFINE s == Lowered(raw)
<1>1. raw[1] \in LEADING_DIGITS /\ Len(raw) = LENGTH /\ LENGTH \in Nat \ {0}
  BY AddressesAssumption DEF IsClosedAddress
<1>2. s[1] = lower[raw[1]]
  BY <1>1 DEF Lowered
<1>3. s[1] = raw[1]
  BY <1>1, <1>2, AddressesAssumption
<1>4. s[1] \notin Letters \union SEPARATORS
  BY <1>1, <1>3, AddressesAssumption
<1>5. 1 \in 1 .. Len(s)
  <2>1. s \in [1 .. Len(raw) -> {lower[raw[i]] : i \in 1 .. Len(raw)}]
    BY DEF Lowered
  <2>2. Len(s) = Len(raw)
    BY <1>1, <2>1
  <2>. QED  BY <1>1, <2>2
<1>. QED  BY <1>4, <1>5 DEF Normalize, NoCode

\* The receiver page decides from the address alone whether a key is needed, by a
\* pattern; the server decides by is_closed_address. They never differ.
THEOREM PageTellsAsServer ==
    ASSUME NEW raw
    PROVE  MatchesPattern(raw) <=> IsClosedAddress(raw)
<1>1. LENGTH \in Nat \ {0} /\ LEADING_DIGITS \subseteq ALPHABET
  BY AddressesAssumption
<1>2. 1 + (LENGTH - 1) = LENGTH
  BY <1>1
<1>3. ASSUME MatchesPattern(raw) PROVE IsClosedAddress(raw)
  BY <1>1, <1>2, <1>3 DEF MatchesPattern, IsClosedAddress
<1>4. ASSUME IsClosedAddress(raw) PROVE MatchesPattern(raw)
  BY <1>1, <1>2, <1>4 DEF MatchesPattern, IsClosedAddress
<1>. QED  BY <1>3, <1>4

\* At most one cut of a run-together code leaves two words of the lists, which is why
\* the first list must be prefix-free (_split_joined).
THEOREM OneSplit ==
    ASSUME NEW word \in Seq(Letters), NEW c \in Cuts(word), NEW d \in Cuts(word)
    PROVE  c = d
<1>. SUFFICES ASSUME NEW m \in Cuts(word), NEW n \in Cuts(word), m <= n
              PROVE  m = n
  BY DEF Cuts
<1>1. m \in Nat /\ n \in Nat /\ m < Len(word) /\ n < Len(word) /\ Len(word) \in Nat
  BY DEF Cuts
<1>2. /\ SubSeq(word, 1, m) \in ADJECTIVES
      /\ SubSeq(word, 1, n) \in ADJECTIVES
  BY DEF Cuts
<1>3. \A i \in 1 .. n : word[i] \in Letters
  BY <1>1
<1>4. /\ Len(SubSeq(word, 1, m)) = m
      /\ Len(SubSeq(word, 1, n)) = n
      /\ \A i \in 1 .. m : SubSeq(word, 1, m)[i] = word[i]
      /\ \A i \in 1 .. n : SubSeq(word, 1, n)[i] = word[i]
  <2>1. \A i \in 1 .. m : word[i] \in Letters
    BY <1>1, <1>3
  <2>. QED  BY <1>1, <1>3, <2>1, SubSeqProperties
<1>5. Begins(SubSeq(word, 1, m), SubSeq(word, 1, n))
  BY <1>1, <1>4 DEF Begins
<1>6. SubSeq(word, 1, m) = SubSeq(word, 1, n)
  BY <1>2, <1>5, PrefixFree
<1>. QED  BY <1>4, <1>6

\* What is where in a word run together from two.
LEMMA JoinedWord ==
    ASSUME NEW a \in ADJECTIVES, NEW n \in NOUNS
    PROVE  /\ a \o n \in Seq(Letters)
           /\ Len(a \o n) = Len(a) + Len(n)
           /\ SubSeq(a \o n, 1, Len(a)) = a
           /\ SubSeq(a \o n, Len(a) + 1, Len(a \o n)) = n
           /\ Len(a) \in Nat \ {0} /\ Len(n) \in Nat \ {0}
<1>1. a \in Seq(Letters) /\ n \in Seq(Letters) /\ a # << >> /\ n # << >>
  BY AddressesAssumption
<1>2. Len(a) \in Nat \ {0} /\ Len(n) \in Nat \ {0}
  BY <1>1, EmptySeq
<1>3. /\ a \o n \in Seq(Letters)
      /\ Len(a \o n) = Len(a) + Len(n)
      /\ \A i \in 1 .. Len(a) : (a \o n)[i] = a[i]
      /\ \A i \in 1 .. Len(n) : (a \o n)[i + Len(a)] = n[i]
  BY <1>1, <1>2
<1>4. SubSeq(a \o n, 1, Len(a)) = a
  <2>1. SubSeq(a \o n, 1, Len(a)) \in Seq(Letters)
    BY <1>2, <1>3, SubSeqProperties
  <2>2. Len(SubSeq(a \o n, 1, Len(a))) = Len(a)
    BY <1>2, <1>3, SubSeqProperties
  <2>3. \A i \in 1 .. Len(a) : SubSeq(a \o n, 1, Len(a))[i] = a[i]
    BY <1>2, <1>3, SubSeqProperties
  <2>. QED  BY <1>1, <2>1, <2>2, <2>3, SeqEqual
<1>5. SubSeq(a \o n, Len(a) + 1, Len(a \o n)) = n
  <2> DEFINE tail == SubSeq(a \o n, Len(a) + 1, Len(a \o n))
  <2>0. \A i \in Len(a) + 1 .. Len(a \o n) : (a \o n)[i] \in Letters
    BY <1>2, <1>3
  <2>1. tail \in Seq(Letters)
    BY <1>2, <1>3, <2>0, SubSeqProperties
  <2>2. Len(tail) = Len(n)
    BY <1>2, <1>3, <2>0, SubSeqProperties
  <2>3. \A i \in 1 .. Len(n) : tail[i] = (a \o n)[Len(a) + 1 + i - 1]
    BY <1>2, <1>3, <2>0, SubSeqProperties
  <2>4. \A i \in 1 .. Len(n) : tail[i] = n[i]
    BY <1>2, <1>3, <2>3
  <2>. QED  BY <1>1, <2>1, <2>2, <2>4, SeqEqual
<1>. QED  BY <1>1, <1>2, <1>3, <1>4, <1>5

\* A code typed with nothing between its words is read as that code and no other, however
\* it is capitalised.
THEOREM JoinedCodeIsRead ==
    ASSUME NEW a \in ADJECTIVES, NEW n \in NOUNS, NEW raw, Lowered(raw) = a \o n
    PROVE  Normalize(raw) = <<a, n>>
<1> DEFINE w == a \o n
           s == Lowered(raw)
           all == <<1, Len(w)>>
<1>1. w \in Seq(Letters) /\ Len(w) \in Nat \ {0} /\ Len(a) \in 1 .. Len(w) - 1
  BY JoinedWord
<1>2. s = w
  OBVIOUS
<1>3. \A i \in 1 .. Len(s) : s[i] \in Letters /\ s[i] \notin SEPARATORS
  BY <1>1, <1>2, AddressesAssumption
<1>4. Tokens(s) = {all}
  <2>1. Len(s) \in Nat \ {0}
    BY <1>1, <1>2
  <2>. HIDE DEF s
  <2>2. <<1, Len(s)>> \in Tokens(s)
    BY <1>3, <2>1 DEF Tokens
  <2>3. ASSUME NEW t \in Tokens(s) PROVE t = <<1, Len(s)>>
    <3>1. t \in (1 .. Len(s)) \X (1 .. Len(s))
      BY DEF Tokens
    <3>2. t = <<t[1], t[2]>> /\ t[1] \in 1 .. Len(s) /\ t[2] \in 1 .. Len(s)
      BY <3>1
    <3>3. t[1] = 1
      <4>1. t[1] # 1 => t[1] - 1 \in 1 .. Len(s)
        BY <2>1, <3>2
      <4>. QED  BY <1>3, <4>1 DEF Tokens
    <3>4. t[2] = Len(s)
      <4>1. t[2] # Len(s) => t[2] + 1 \in 1 .. Len(s)
        BY <2>1, <3>2
      <4>. QED  BY <1>3, <4>1 DEF Tokens
    <3>. QED  BY <3>2, <3>3, <3>4
  <2>4. Tokens(s) = {<<1, Len(s)>>}
    BY <2>2, <2>3
  <2>5. Len(s) = Len(w)
    BY <1>2
  <2>. QED  BY <2>4, <2>5
<1>5. Cardinality(Tokens(s)) = 1
  BY <1>4, FS_Singleton
<1>6. Normalize(raw) = SplitJoined(Word(s, all))
  BY <1>3, <1>4, <1>5 DEF Normalize
<1>7. Word(s, all) = w
  <2>1. SubSeq(w, 1, Len(w)) = w
    BY <1>1, SubSeqFull
  <2>. QED  BY <1>2, <2>1 DEF Word
<1>8. Len(a) \in Cuts(w)
  BY <1>1, JoinedWord DEF Cuts
<1>9. Cuts(w) = {Len(a)}
  <2>1. \A c \in Cuts(w) : c = Len(a)
    BY <1>1, <1>8, OneSplit
  <2>. HIDE DEF w
  <2>. QED  BY <1>8, <2>1
<1>10. SplitJoined(w) = <<SubSeq(w, 1, Len(a)), SubSeq(w, Len(a) + 1, Len(w))>>
  BY <1>9 DEF SplitJoined
<1>. QED  BY <1>6, <1>7, <1>10, JoinedWord

\* raw is, but for capitals, a and n with something between them and perhaps around them,
\* which may be any of the separators.
Separates(raw, a, n, p, q) ==
    /\ p + Len(a) < q /\ q + Len(n) <= Len(raw)
    /\ \A i \in 1 .. Len(raw) :
           /\ i \in p + 1 .. p + Len(a) => Lowered(raw)[i] = a[i - p]
           /\ i \in q + 1 .. q + Len(n) => Lowered(raw)[i] = n[i - q]
           /\ i \notin (p + 1 .. p + Len(a)) \union (q + 1 .. q + Len(n)) => Lowered(raw)[i] \in SEPARATORS

\* A code is read as that code however it is capitalised and separated (normalize).
THEOREM SeparatedCodeIsRead ==
    ASSUME NEW a \in ADJECTIVES, NEW n \in NOUNS, NEW raw \in Seq(DOMAIN lower),
           NEW p \in Nat, NEW q \in Nat, Separates(raw, a, n, p, q)
    PROVE  Normalize(raw) = <<a, n>>
<1>1. PICK s : s = Lowered(raw)
  OBVIOUS
<1>2. PICK x, y, size : x = Len(a) /\ y = Len(n) /\ size = Len(raw)
  OBVIOUS
<1>3. a \in Seq(Letters) /\ n \in Seq(Letters) /\ x \in Nat \ {0} /\ y \in Nat \ {0} /\ size \in Nat
  <2>1. a \in Seq(Letters) /\ n \in Seq(Letters) /\ a # << >> /\ n # << >>
    BY AddressesAssumption
  <2> QED
    BY <1>2, <2>1, EmptySeq
<1>4. /\ \A i \in 1 .. x : a[i] \in Letters
      /\ \A i \in 1 .. y : n[i] \in Letters
      /\ \A l \in Letters : l \notin SEPARATORS
  BY <1>2, <1>3, AddressesAssumption
<1>5. Len(s) = size /\ DOMAIN s = 1 .. size
  <2>1. s = [i \in 1 .. size |-> lower[raw[i]]]
    BY <1>1, <1>2 DEF Lowered
  <2> QED
    BY <1>3, <2>1
<1>6. p + x < q /\ q + y <= size
  BY <1>2 DEF Separates
<1>7. ASSUME NEW i \in 1 .. size
      PROVE  /\ i \in p + 1 .. p + x => s[i] = a[i - p] /\ s[i] \in Letters /\ s[i] \notin SEPARATORS
             /\ i \in q + 1 .. q + y => s[i] = n[i - q] /\ s[i] \in Letters /\ s[i] \notin SEPARATORS
             /\ i \notin (p + 1 .. p + x) \union (q + 1 .. q + y) => s[i] \in SEPARATORS
  <2>1. /\ i \in p + 1 .. p + x => s[i] = a[i - p]
        /\ i \in q + 1 .. q + y => s[i] = n[i - q]
        /\ i \notin (p + 1 .. p + x) \union (q + 1 .. q + y) => s[i] \in SEPARATORS
    BY <1>1, <1>2 DEF Separates
  <2>2. i \in p + 1 .. p + x => i - p \in 1 .. x
    BY <1>3
  <2>3. i \in q + 1 .. q + y => i - q \in 1 .. y
    BY <1>3
  <2> QED
    BY <1>4, <2>1, <2>2, <2>3
<1>8. ~\E i \in 1 .. Len(s) : s[i] \notin Letters \union SEPARATORS
  BY <1>5, <1>7
<1>9. PICK first, second : first = <<p + 1, p + x>> /\ second = <<q + 1, q + y>>
  OBVIOUS
<1>10. first \in Tokens(s) /\ second \in Tokens(s)
  <2>1. first \in Tokens(s)
    <3>1. \A i \in p + 1 .. p + x : i \in 1 .. size /\ s[i] \notin SEPARATORS
      BY <1>3, <1>6, <1>7
    <3>2. p + x + 1 \in 1 .. size /\ s[p + x + 1] \in SEPARATORS
      BY <1>3, <1>6, <1>7
    <3>3. p + 1 = 1 \/ s[p] \in SEPARATORS
      BY <1>3, <1>6, <1>7
    <3>4. first \in (1 .. size) \X (1 .. size) /\ first[1] = p + 1 /\ first[2] = p + x
      BY <1>3, <1>6, <1>9
    <3>5. first[1] <= first[2] /\ first[1] - 1 = p /\ first[2] + 1 = p + x + 1
      BY <1>3, <3>4
    <3> QED
      BY <1>5, <3>1, <3>2, <3>3, <3>4, <3>5 DEF Tokens
  <2>2. second \in Tokens(s)
    <3>1. \A i \in q + 1 .. q + y : i \in 1 .. size /\ s[i] \notin SEPARATORS
      BY <1>3, <1>6, <1>7
    <3>2. q + y = size \/ s[q + y + 1] \in SEPARATORS
      BY <1>3, <1>6, <1>7
    <3>3. q \in 1 .. size /\ s[q] \in SEPARATORS
      BY <1>3, <1>6, <1>7
    <3>4. second \in (1 .. size) \X (1 .. size) /\ second[1] = q + 1 /\ second[2] = q + y
      BY <1>3, <1>6, <1>9
    <3>5. second[1] <= second[2] /\ second[1] - 1 = q /\ second[2] + 1 = q + y + 1
      BY <1>3, <3>4
    <3> QED
      BY <1>5, <3>1, <3>2, <3>3, <3>4, <3>5 DEF Tokens
  <2> QED
    BY <2>1, <2>2
<1>11. ASSUME NEW t \in Tokens(s) PROVE t = first \/ t = second
  <2>1. PICK i, j : t = <<i, j>> /\ i \in 1 .. size /\ j \in 1 .. size
    BY <1>5 DEF Tokens
  <2>2. /\ i <= j
        /\ \A k \in i .. j : s[k] \notin SEPARATORS
        /\ i = 1 \/ s[i - 1] \in SEPARATORS
        /\ j = size \/ s[j + 1] \in SEPARATORS
    BY <1>5, <2>1 DEF Tokens
  <2>3. i \in (p + 1 .. p + x) \union (q + 1 .. q + y)
    BY <1>7, <2>1, <2>2
  <2>4. CASE i \in p + 1 .. p + x
    <3>1. i = p + 1
      BY <1>3, <1>6, <1>7, <2>1, <2>2, <2>4
    <3>2. j <= p + x
      <4>1. p + x + 1 \in 1 .. size /\ s[p + x + 1] \in SEPARATORS
        BY <1>3, <1>6, <1>7
      <4>2. j > p + x => p + x + 1 \in i .. j
        BY <1>3, <2>1, <2>4
      <4> QED
        BY <1>3, <2>1, <2>2, <4>1, <4>2
    <3>3. j = p + x
      <4>1. j < p + x => j + 1 \in 1 .. size /\ j + 1 \in p + 1 .. p + x /\ j # size
        BY <1>3, <1>6, <2>1, <2>2, <3>1
      <4> QED
        BY <1>3, <1>7, <2>1, <2>2, <3>2, <4>1
    <3> QED
      BY <1>9, <2>1, <3>1, <3>3
  <2>5. CASE i \in q + 1 .. q + y
    <3>1. i = q + 1
      BY <1>3, <1>6, <1>7, <2>1, <2>2, <2>5
    <3>2. j <= q + y
      <4>1. j > q + y => q + y + 1 \in 1 .. size /\ q + y + 1 \in i .. j /\ s[q + y + 1] \in SEPARATORS
        BY <1>3, <1>6, <1>7, <2>1, <2>5
      <4> QED
        BY <1>3, <2>1, <2>2, <4>1
    <3>3. j = q + y
      <4>1. j < q + y => j + 1 \in 1 .. size /\ j + 1 \in q + 1 .. q + y /\ j # size
        BY <1>3, <1>6, <2>1, <2>2, <3>1
      <4> QED
        BY <1>3, <1>7, <2>1, <2>2, <3>2, <4>1
    <3> QED
      BY <1>9, <2>1, <3>1, <3>3
  <2> QED
    BY <2>3, <2>4, <2>5
<1>12. first[1] = p + 1 /\ second[1] = q + 1 /\ first # second /\ p + 1 < q + 1
  BY <1>3, <1>6, <1>9
<1>13. Tokens(s) = {first, second} /\ Cardinality(Tokens(s)) = 2
  <2>1. Tokens(s) = {first, second}
    BY <1>10, <1>11
  <2>2. IsFiniteSet({first}) /\ Cardinality({first}) = 1 /\ second \notin {first}
    BY <1>12, FS_Singleton
  <2>3. Tokens(s) = {first} \union {second}
    BY <2>1
  <2>4. Cardinality({first} \union {second}) = 1 + 1
    BY ONLY <2>2, FS_AddElement
  <2>5. Cardinality(Tokens(s)) = 1 + 1
    BY <2>3, <2>4, Zenon
  <2> QED
    BY <2>1, <2>5
<1>14. first = CHOOSE t \in Tokens(s) : \A u \in Tokens(s) : t[1] <= u[1]
  <2>1. \A u \in Tokens(s) : first[1] <= u[1]
    BY <1>11, <1>12
  <2>2. ASSUME NEW t \in Tokens(s), \A u \in Tokens(s) : t[1] <= u[1] PROVE t = first
    BY <1>10, <1>11, <1>12, <2>2
  <2> QED
    BY <1>10, <2>1, <2>2
<1>15. second = CHOOSE t \in Tokens(s) : t # first
  BY <1>10, <1>11, <1>12
<1>16. Word(s, first) = a /\ Word(s, second) = n
  <2>0. \A i \in 1 .. size : s[i] \in Letters \union SEPARATORS
    BY <1>5, <1>8
  <2>1. first[2] = p + x /\ second[2] = q + y
    BY <1>9
  <2>2. s \in Seq(Letters \union SEPARATORS)
    BY <1>1, <1>2, <1>3, <1>5, <2>0, LenProperties DEF Lowered
  <2>3. SubSeq(s, p + 1, p + x) = a
    <3>1. /\ SubSeq(s, p + 1, p + x) \in Seq(Letters \union SEPARATORS)
          /\ Len(SubSeq(s, p + 1, p + x)) = x
          /\ \A i \in 1 .. x : SubSeq(s, p + 1, p + x)[i] = s[p + i]
      BY <1>3, <1>5, <1>6, <2>2, SubSeqProperties
    <3>2. \A i \in 1 .. x : s[p + i] = a[i]
      BY <1>3, <1>6, <1>7
    <3>3. a \in Seq(Letters \union SEPARATORS)
      BY <1>3
    <3> QED
      BY <1>2, <3>1, <3>2, <3>3, SeqEqual
  <2>4. SubSeq(s, q + 1, q + y) = n
    <3>1. /\ SubSeq(s, q + 1, q + y) \in Seq(Letters \union SEPARATORS)
          /\ Len(SubSeq(s, q + 1, q + y)) = y
          /\ \A i \in 1 .. y : SubSeq(s, q + 1, q + y)[i] = s[q + i]
      BY <1>3, <1>5, <1>6, <2>2, SubSeqProperties
    <3>2. \A i \in 1 .. y : s[q + i] = n[i]
      BY <1>3, <1>6, <1>7
    <3>3. n \in Seq(Letters \union SEPARATORS)
      BY <1>3
    <3> QED
      BY <1>2, <3>1, <3>2, <3>3, SeqEqual
  <2> QED
    BY <1>12, <2>1, <2>3, <2>4 DEF Word
<1>17. Normalize(raw) = TwoWords(Word(s, first), Word(s, second))
  BY <1>1, <1>8, <1>13, <1>14, <1>15 DEF Normalize
<1>18. <<a, n>> \in Codes
  BY DEF Codes
<1> QED
  BY <1>16, <1>17, <1>18 DEF TwoWords

\* How people write what they mean, and what means nothing.
Spells(raw, meant) ==
    \/ IsClosedAddress(raw) /\ meant = raw
    \/ \E a \in ADJECTIVES, n \in NOUNS :
           /\ meant = <<a, n>>
           /\ Lowered(raw) = a \o n \/ \E p, q \in Nat : Separates(raw, a, n, p, q)
    \/ Canonical(raw) = NoCode /\ meant = NoCode

\* Whatever is spelled in one of these ways is looked for under what it means (take_throw).
THEOREM SpellingsAreUnderstood ==
    ASSUME NEW raw \in Seq(DOMAIN lower), NEW meant, Spells(raw, meant)
    PROVE  Canonical(raw) = meant
<1>1. CASE IsClosedAddress(raw) /\ meant = raw
  BY <1>1 DEF Canonical
<1>2. ASSUME NEW a \in ADJECTIVES, NEW n \in NOUNS, meant = <<a, n>>,
             Lowered(raw) = a \o n \/ \E p, q \in Nat : Separates(raw, a, n, p, q)
      PROVE  Canonical(raw) = meant
  <2>1. Normalize(raw) = meant
    BY <1>2, JoinedCodeIsRead, SeparatedCodeIsRead
  <2>2. meant # NoCode
    BY <1>2 DEF NoCode
  <2> QED
    BY <2>1, <2>2, SpacesAreDisjoint DEF Canonical
<1> QED
  BY <1>1, <1>2 DEF Spells

\* A spelling, whatever it is, amounts to an address of the one kind or the other, or to
\* nothing: the stores are only ever asked for what could be there.
LEMMA CanonicalIsAPlace ==
    ASSUME NEW raw \in Seq(DOMAIN lower)
    PROVE  Canonical(raw) \in Places \union {NoCode}
<1>1. CASE IsClosedAddress(raw)
  <2>1. Len(raw) = LENGTH /\ raw \in [1 .. Len(raw) -> DOMAIN lower]
    BY <1>1, LenProperties DEF IsClosedAddress
  <2>2. raw \in [1 .. LENGTH -> ALPHABET]
    BY <1>1, <2>1 DEF IsClosedAddress
  <2> QED
    BY <1>1, <2>2 DEF IsClosedAddress, ClosedAddresses, Canonical, Places
<1>2. ASSUME NEW word PROVE SplitJoined(word) \in Codes \union {NoCode}
  <2>1. CASE \E cut \in Cuts(word) : Cuts(word) = {cut}
    <3>1. PICK cut \in Cuts(word) : cut = CHOOSE d \in Cuts(word) : TRUE
      BY <2>1
    <3>2. SplitJoined(word) = <<SubSeq(word, 1, cut), SubSeq(word, cut + 1, Len(word))>>
      BY <2>1, <3>1 DEF SplitJoined
    <3>3. SubSeq(word, 1, cut) \in ADJECTIVES /\ SubSeq(word, cut + 1, Len(word)) \in NOUNS
      BY DEF Cuts
    <3>4. ASSUME NEW a \in ADJECTIVES, NEW n \in NOUNS PROVE <<a, n>> \in Codes
      BY DEF Codes
    <3> QED
      BY <3>2, <3>3, <3>4, Zenon
  <2> QED
    BY <2>1 DEF SplitJoined
<1>3. ASSUME NEW v, NEW w PROVE TwoWords(v, w) \in Codes \union {NoCode}
  BY DEF TwoWords, Codes
<1>4. Normalize(raw) \in Codes \union {NoCode}
  BY <1>2, <1>3 DEF Normalize
<1> QED
  BY <1>1, <1>4 DEF Canonical, Places

--------------------------------------------------------------------------------
(* The handlers over both stores.                                          *)

OneStretch == \A g, h \in Handlers : stretch[g] # Idle /\ stretch[h] # Idle => g = h

FoundUnderItsCode ==
    \A c \in Places :
        /\ texts[c] # Nobody => code[texts[c]] = c
        /\ files[c] # Nobody => code[files[c]] = c

\* An upload is begun once, and has no code while it is in flight.
UploadsAreNew ==
    \A x \in Files :
        /\ plan[x] = None => uploads[x] = Nobody /\ code[x] = NoCode
        /\ uploads[x] # Nobody => code[x] = NoCode
        /\ plan[x] # None => plan[x].size > 0

\* What was picked in a handler's first step is free still in its second.
PickedCodeIsFree(s) ==
    s.at \in {"putting", "filing"} =>
        s.code \notin Live(texts) \union Live(files) /\ code[s.throw] = NoCode

FiledIsKnown(s) == s.at = "filing" => s.throw \in Known

StretchesHold ==
    \A h \in Handlers : PickedCodeIsFree(stretch[h]) /\ FiledIsKnown(stretch[h])

RelayInv ==
    /\ TypeOK /\ OneStretch /\ FoundUnderItsCode /\ UploadsAreNew /\ StretchesHold
    /\ OneSpace /\ SlotsAreOwned

\* A code is never nothing.
LEMMA NoCodeIsNoPlace == NoCode \notin Places
<1>1. ASSUME NEW c \in Codes PROVE c # NoCode
  BY DEF Codes, NoCode
<1>2. ASSUME NEW c \in ClosedAddresses PROVE c # NoCode
  <2>1. 1 \in DOMAIN c
    BY AddressesAssumption DEF ClosedAddresses
  <2> QED
    BY <2>1 DEF NoCode
<1> QED
  BY <1>1, <1>2 DEF Places

\* The four ways a handler can be.
LEMMA StretchFields ==
    ASSUME NEW s \in Stretch
    PROVE  /\ s.at \in {"idle", "putting", "not a text", "filing"}
           /\ s.at = "idle" <=> s = Idle
           /\ s.at = "putting" => s.throw \in Texts /\ s.code \in Places
           /\ s.at = "not a text" => s.code \in Places \union {NoCode} /\ s.due \in Throws \union {Nobody}
           /\ s.at = "filing" => s.throw \in Files /\ s.code \in Places /\ s.from \in IPs
<1>0. Idle.at = "idle"
  BY DEF Idle
<1>1. CASE s = Idle
  BY <1>0, <1>1
<1>2. CASE s \in [at : {"putting"}, throw : Texts, code : Places]
  <2>1. s.at = "putting" /\ s.throw \in Texts /\ s.code \in Places
    BY <1>2
  <2> QED
    BY <1>0, <2>1
<1>3. CASE s \in [at : {"not a text"}, code : Places \union {NoCode}, due : Throws \union {Nobody}]
  <2>1. s.at = "not a text" /\ s.code \in Places \union {NoCode} /\ s.due \in Throws \union {Nobody}
    BY <1>3
  <2> QED
    BY <1>0, <2>1
<1>4. CASE s \in [at : {"filing"}, throw : Files, code : Places, from : IPs]
  <2>1. s.at = "filing" /\ s.throw \in Files /\ s.code \in Places /\ s.from \in IPs
    BY <1>4
  <2> QED
    BY <1>0, <2>1
<1> QED
  BY <1>1, <1>2, <1>3, <1>4 DEF Stretch

Dwindles(later, store) == \A c \in Places : later[c] \in {store[c], Nobody}

\* A purge takes out what is over and nothing else.
LEMMA PurgeDwindles ==
    ASSUME NEW S, NEW store \in [Places -> S \union {Nobody}], Nobody \notin over
    PROVE  /\ Purged(store) \in [Places -> S \union {Nobody}]
           /\ Dwindles(Purged(store), store)
           /\ \A c \in Places : Purged(store)[c] \notin over
           /\ \A c \in Places : store[c] \notin over => Purged(store)[c] = store[c]
BY DEF Purged, Dwindles

\* Losing throws moves none to another code and puts none in two stores.
LEMMA DwindlingKeepsPlaces ==
    ASSUME FoundUnderItsCode, OneSpace, UNCHANGED code,
           Dwindles(texts', texts), Dwindles(files', files)
    PROVE  FoundUnderItsCode' /\ OneSpace'
<1>1. ASSUME NEW c \in Places
      PROVE  /\ texts'[c] # Nobody => code'[texts'[c]] = c
             /\ files'[c] # Nobody => code'[files'[c]] = c
  BY <1>1 DEF FoundUnderItsCode, Dwindles
<1>2. Live(texts)' \subseteq Live(texts) /\ Live(files)' \subseteq Live(files)
  BY DEF Live, Dwindles
<1> QED
  BY <1>1, <1>2 DEF FoundUnderItsCode, OneSpace

\* Between stretches there is nothing to hold.
LEMMA NobodyIsInAStretch ==
    ASSUME \A h \in Handlers : stretch'[h] = Idle
    PROVE  OneStretch' /\ StretchesHold'
<1>1. Idle.at = "idle"
  BY DEF Idle
<1> QED
  BY <1>1 DEF OneStretch, StretchesHold, PickedCodeIsFree, FiledIsKnown

\* The one handler in a stretch leaves it.
LEMMA LastOneOut ==
    ASSUME RelayInv, NEW h \in Handlers, stretch[h] # Idle,
           stretch' = [stretch EXCEPT ![h] = Idle]
    PROVE  \A g \in Handlers : stretch'[g] = Idle
BY DEF RelayInv, TypeOK, OneStretch

\* One handler enters a stretch.
LEMMA FirstOneIn ==
    ASSUME TypeOK, LoopIsFree, NEW h \in Handlers, NEW s \in Stretch,
           stretch' = [stretch EXCEPT ![h] = s],
           PickedCodeIsFree(s)', FiledIsKnown(s)'
    PROVE  OneStretch' /\ StretchesHold'
<1>1. \A g \in Handlers : stretch'[g] = IF g = h THEN s ELSE Idle
  BY DEF TypeOK, LoopIsFree
<1>2. OneStretch'
  BY <1>1 DEF OneStretch
<1>3. Idle.at = "idle"
  BY DEF Idle
<1>4. ASSUME NEW g \in Handlers
      PROVE  (PickedCodeIsFree(stretch[g]) /\ FiledIsKnown(stretch[g]))'
  <2>1. CASE g = h
    BY <1>1, <2>1 DEF PickedCodeIsFree, FiledIsKnown
  <2>2. CASE g # h
    BY <1>1, <1>3, <2>2 DEF PickedCodeIsFree, FiledIsKnown
  <2> QED
    BY <2>1, <2>2
<1> QED
  BY <1>2, <1>4 DEF StretchesHold

LEMMA SlotsStay ==
    ASSUME SlotsAreOwned, UNCHANGED <<uploads, slots, aged, dropped>>
    PROVE  SlotsAreOwned'
BY DEF SlotsAreOwned

LEMMA InitHolds == Init => RelayInv
<1> SUFFICES ASSUME Init PROVE RelayInv
  OBVIOUS
<1>1. TypeOK
  BY DEF Init, TypeOK, Stretch
<1>2. FoundUnderItsCode /\ OneSpace /\ UploadsAreNew
  BY NoCodeIsNoPlace DEF Init, FoundUnderItsCode, OneSpace, Live, UploadsAreNew, Throws
<1>3. OneStretch /\ StretchesHold
  BY DEF Init, OneStretch, StretchesHold, PickedCodeIsFree, FiledIsKnown, Idle
<1>4. SlotsAreOwned
  <2>1. ASSUME NEW ip \in IPs PROVE {x \in Files : uploads[x] = ip} = {}
    BY RelayAssumption DEF Init
  <2> QED
    <3>1. ASSUME NEW ip \in IPs
          PROVE  /\ Cardinality({x \in Files : uploads[x] = ip}) = 0
                 /\ slots[ip] = 0 /\ aged[ip] = 0 /\ dropped[ip] = 0
      BY <2>1, FS_EmptySet DEF Init
    <3> QED
      BY <3>1 DEF SlotsAreOwned
<1> QED
  BY <1>1, <1>2, <1>3, <1>4 DEF RelayInv

--------------------------------------------------------------------------------
(* Steps that put nothing under a code.                                    *)

LEMMA DwindlingKeepsTheInvariant ==
    ASSUME RelayInv, LoopIsFree, TypeOK',
           UNCHANGED <<stretch, code, uploads, plan, slots, aged, dropped>>,
           Dwindles(texts', texts), Dwindles(files', files)
    PROVE  RelayInv'
<1>1. FoundUnderItsCode' /\ OneSpace'
  BY DwindlingKeepsPlaces DEF RelayInv
<1>2. OneStretch' /\ StretchesHold'
  BY NobodyIsInAStretch DEF LoopIsFree
<1>3. SlotsAreOwned'
  BY SlotsStay DEF RelayInv
<1>4. UploadsAreNew'
  BY DEF RelayInv, UploadsAreNew
<1> QED
  BY <1>1, <1>2, <1>3, <1>4 DEF RelayInv

\* What runs in threads, and time, touch nothing a handler in a stretch looked at.
LEMMA ThreadsKeepTheInvariant ==
    ASSUME RelayInv, TypeOK',
           UNCHANGED <<stretch, texts, files, code, uploads, plan, slots, aged, dropped>>
    PROVE  RelayInv'
<1> USE DEF RelayInv
<1>1. FoundUnderItsCode' /\ OneSpace' /\ UploadsAreNew' /\ OneStretch'
  BY DEF FoundUnderItsCode, OneSpace, Live, UploadsAreNew, OneStretch
<1>2. SlotsAreOwned'
  BY SlotsStay
<1>3. ASSUME NEW h \in Handlers
      PROVE  (PickedCodeIsFree(stretch[h]) /\ FiledIsKnown(stretch[h]))'
  BY DEF StretchesHold, PickedCodeIsFree, FiledIsKnown, Live, Known
<1> QED
  BY <1>1, <1>2, <1>3 DEF StretchesHold

--------------------------------------------------------------------------------
(* Texts.                                                                  *)

LEMMA PickForTextHolds ==
    ASSUME RelayInv, NEW h \in Handlers, NEW x \in Texts, NEW r, PickForText(h, x, r)
    PROVE  RelayInv'
<1> USE DEF RelayInv
<1>1. PICK c \in FreeCodes(x, Purged(texts), files) :
        stretch' = [stretch EXCEPT ![h] = [at |-> "putting", throw |-> x, code |-> c]]
  BY DEF PickForText
<1>2. LoopIsFree /\ texts' = Purged(texts) /\ code[x] = NoCode
      /\ UNCHANGED <<files, over, code, uploads, whole, plan, tickets, slots, aged, dropped>>
  BY DEF PickForText
<1> DEFINE s == [at |-> "putting", throw |-> x, code |-> c]
<1>3. c \in Places /\ c \notin Live(texts') \union Live(files')
  BY <1>2 DEF FreeCodes, Pool, Places
<1>4. s \in Stretch
  BY <1>3 DEF Stretch
<1>5. texts' \in [Places -> Texts \union {Nobody}] /\ Dwindles(texts', texts) /\ Dwindles(files', files)
  BY <1>2, PurgeDwindles, RelayAssumption DEF TypeOK, Dwindles, Throws
<1>6. TypeOK'
  BY <1>1, <1>2, <1>4, <1>5 DEF TypeOK
<1>7. FoundUnderItsCode' /\ OneSpace'
  BY <1>2, <1>5, DwindlingKeepsPlaces
<1>8. UploadsAreNew' /\ SlotsAreOwned'
  BY <1>2, SlotsStay DEF UploadsAreNew
<1>9. PickedCodeIsFree(s)' /\ FiledIsKnown(s)'
  BY <1>2, <1>3 DEF PickedCodeIsFree, FiledIsKnown
<1>10. OneStretch' /\ StretchesHold'
  BY <1>1, <1>2, <1>4, <1>9, FirstOneIn
<1> QED
  BY <1>6, <1>7, <1>8, <1>10

LEMMA PutTextHolds ==
    ASSUME RelayInv, NEW h \in Handlers, PutText(h)
    PROVE  RelayInv'
<1> USE DEF RelayInv
<1>1. PICK x, c : x = stretch[h].throw /\ c = stretch[h].code
  OBVIOUS
<1>2. x \in Texts /\ c \in Places /\ stretch[h] # Idle
  BY <1>1, StretchFields DEF PutText, TypeOK
<1>3. c \notin Live(texts) \union Live(files) /\ code[x] = NoCode
  BY <1>1 DEF PutText, StretchesHold, PickedCodeIsFree
<1>4. /\ texts' = [texts EXCEPT ![c] = x] /\ code' = [code EXCEPT ![x] = c]
      /\ stretch' = [stretch EXCEPT ![h] = Idle]
      /\ UNCHANGED <<files, over, uploads, whole, plan, tickets, slots, aged, dropped>>
  BY <1>1 DEF PutText
<1>5. x \in Throws /\ x \notin Files /\ x # Nobody
  BY <1>2, RelayAssumption DEF Throws
<1>6. TypeOK'
  BY <1>2, <1>4, <1>5 DEF TypeOK, Stretch
<1>7. OneStretch' /\ StretchesHold'
  BY <1>2, <1>4, LastOneOut, NobodyIsInAStretch
<1>8. ASSUME NEW d \in Places
      PROVE  /\ texts'[d] # Nobody => code'[texts'[d]] = d
             /\ files'[d] # Nobody => code'[files'[d]] = d
  <2>1. texts[d] # x /\ files[d] # x
    BY <1>3, <1>5, NoCodeIsNoPlace DEF FoundUnderItsCode
  <2>2. texts[d] # Nobody => texts[d] \in Throws
    BY DEF TypeOK, Throws
  <2>3. files[d] # Nobody => files[d] \in Throws
    BY DEF TypeOK, Throws
  <2> QED
    BY <1>2, <1>4, <1>5, <2>1, <2>2, <2>3 DEF FoundUnderItsCode, TypeOK
<1>9. OneSpace'
  <2>1. Live(texts)' \subseteq Live(texts) \union {c} /\ Live(files)' = Live(files)
    BY <1>2, <1>4 DEF Live, TypeOK
  <2> QED
    BY <1>3, <2>1 DEF OneSpace
<1>10. UploadsAreNew'
  <2>1. \A y \in Files : code'[y] = code[y]
    BY <1>4, <1>5 DEF TypeOK, Throws
  <2> QED
    BY <1>4, <2>1 DEF UploadsAreNew
<1>11. SlotsAreOwned'
  BY <1>4, SlotsStay
<1> QED
  BY <1>6, <1>7, <1>8, <1>9, <1>10, <1>11 DEF FoundUnderItsCode

\* Steps that leave every upload, slot and code as it was, and every handler idle.
LEMMA QuietKeepsTheInvariant ==
    ASSUME RelayInv, LoopIsFree,
           texts' \in [Places -> Texts \union {Nobody}], Dwindles(texts', texts),
           files' \in [Places -> Files \union {Nobody}], Dwindles(files', files),
           UNCHANGED <<stretch, over, code, uploads, whole, plan, tickets, slots, aged, dropped>>
    PROVE  RelayInv'
<1>1. TypeOK'
  BY DEF RelayInv, TypeOK, Stretch
<1> QED
  BY <1>1, DwindlingKeepsTheInvariant

\* Each store as it is, and as its purge leaves it.
LEMMA StoresAndPurges ==
    ASSUME TypeOK
    PROVE  /\ texts \in [Places -> Texts \union {Nobody}] /\ Dwindles(texts, texts)
           /\ files \in [Places -> Files \union {Nobody}] /\ Dwindles(files, files)
           /\ Purged(texts) \in [Places -> Texts \union {Nobody}] /\ Dwindles(Purged(texts), texts)
           /\ Purged(files) \in [Places -> Files \union {Nobody}] /\ Dwindles(Purged(files), files)
           /\ \A c \in Places : Purged(texts)[c] \notin over /\ Purged(files)[c] \notin over
           /\ \A c \in Places :
                  /\ texts[c] \notin over => Purged(texts)[c] = texts[c]
                  /\ files[c] \notin over => Purged(files)[c] = files[c]
           /\ Nobody \notin over
<1>1. Nobody \notin over
  BY RelayAssumption DEF TypeOK
<1> QED
  BY <1>1, PurgeDwindles DEF TypeOK, Dwindles

--------------------------------------------------------------------------------
(* Takes.                                                                  *)

\* What somebody who means a code has coming is what one of the stores holds under it.
LEMMA DueIsUnderTheCode ==
    ASSUME RelayInv, NEW c
    PROVE  /\ Due(c) # Nobody =>
                  /\ Due(c) \in Throws \ over
                  /\ c \in Places /\ (Due(c) = texts[c] \/ Due(c) = files[c])
           /\ c \in Places /\ texts[c] \notin over \union {Nobody} => Due(c) = texts[c]
           /\ c \in Places /\ files[c] \notin over \union {Nobody} => Due(c) = files[c]
<1> USE DEF RelayInv
<1> DEFINE waiting == {x \in Throws \ over :
                code[x] = c /\ \E d \in Places : x \in {texts[d], files[d]}}
<1>1. Due(c) = IF waiting = {} THEN Nobody ELSE CHOOSE x \in waiting : TRUE
  BY DEF Due
<1>2. ASSUME NEW x \in waiting
      PROVE  c \in Places /\ (x = texts[c] \/ x = files[c]) /\ x # Nobody
  <2>1. x # Nobody
    BY RelayAssumption
  <2>2. PICK d \in Places : x \in {texts[d], files[d]}
    OBVIOUS
  <2> QED
    BY <2>1, <2>2 DEF FoundUnderItsCode
<1>3. ASSUME c \in Places
      PROVE  ~(texts[c] # Nobody /\ files[c] # Nobody)
  BY <1>3 DEF OneSpace, Live
<1>4. ASSUME NEW x \in waiting, NEW y \in waiting PROVE x = y
  <2>1. c \in Places /\ (x = texts[c] \/ x = files[c]) /\ x # Nobody
    BY <1>2
  <2>2. (y = texts[c] \/ y = files[c]) /\ y # Nobody
    BY <1>2
  <2> QED
    BY <1>3, <2>1, <2>2
<1>5. ASSUME NEW x \in waiting PROVE Due(c) = x
  BY <1>1, <1>4
<1>6. ASSUME Due(c) # Nobody PROVE Due(c) \in waiting
  BY <1>1, <1>6
<1>7. ASSUME c \in Places, texts[c] \notin over \union {Nobody} PROVE texts[c] \in waiting
  BY <1>7 DEF TypeOK, Throws, FoundUnderItsCode
<1>8. ASSUME c \in Places, files[c] \notin over \union {Nobody} PROVE files[c] \in waiting
  BY <1>8 DEF TypeOK, Throws, FoundUnderItsCode
<1>9. waiting \subseteq Throws \ over
  OBVIOUS
<1> HIDE DEF waiting
<1> QED
  BY <1>2, <1>5, <1>6, <1>7, <1>8, <1>9

LEMMA TakeTextHolds ==
    ASSUME RelayInv, NEW h \in Handlers, NEW s \in Spelled, TakeText(h, s)
    PROVE  RelayInv'
<1> USE DEF RelayInv
<1>1. PICK c : c = Canonical(s.raw) /\ c \in Places \union {NoCode}
  BY CanonicalIsAPlace, RelayAssumption
<1>2. LoopIsFree /\ UNCHANGED <<files, over, code, uploads, whole, plan, tickets, slots, aged, dropped>>
  BY DEF TakeText
<1>3. CASE c # NoCode /\ Purged(texts)[c] # Nobody
  <2>1. texts' = [Purged(texts) EXCEPT ![c] = Nobody] /\ UNCHANGED stretch
    BY <1>1, <1>3 DEF TakeText
  <2>2. texts' \in [Places -> Texts \union {Nobody}] /\ Dwindles(texts', texts)
    BY <2>1, StoresAndPurges DEF Dwindles
  <2> QED
    BY <1>2, <2>1, <2>2, StoresAndPurges, QuietKeepsTheInvariant
<1>4. CASE ~(c # NoCode /\ Purged(texts)[c] # Nobody)
  <2>0. PICK t : t = [at |-> "not a text", code |-> c, due |-> Due(s.meant)]
    OBVIOUS
  <2>1. /\ texts' = IF c = NoCode THEN texts ELSE Purged(texts)
        /\ stretch' = [stretch EXCEPT ![h] = t]
    BY <1>1, <1>4, <2>0 DEF TakeText
  <2>2. texts' \in [Places -> Texts \union {Nobody}] /\ Dwindles(texts', texts) /\ Dwindles(files', files)
    BY <1>2, <2>1, StoresAndPurges
  <2>3. Due(s.meant) \in Throws \union {Nobody}
    BY DueIsUnderTheCode
  <2>4. t \in Stretch
    BY <1>1, <2>0, <2>3 DEF Stretch
  <2>5. TypeOK'
    BY <1>2, <2>1, <2>2, <2>4 DEF TypeOK
  <2>6. FoundUnderItsCode' /\ OneSpace' /\ UploadsAreNew' /\ SlotsAreOwned'
    BY <1>2, <2>2, DwindlingKeepsPlaces, SlotsStay DEF UploadsAreNew
  <2>7. PickedCodeIsFree(t)' /\ FiledIsKnown(t)'
    BY <2>0 DEF PickedCodeIsFree, FiledIsKnown
  <2>8. OneStretch' /\ StretchesHold'
    BY <1>2, <2>1, <2>4, <2>7, FirstOneIn
  <2> QED
    BY <2>5, <2>6, <2>8
<1> QED
  BY <1>3, <1>4

LEMMA TakeFileHolds ==
    ASSUME RelayInv, NEW h \in Handlers, TakeFile(h)
    PROVE  RelayInv'
<1> USE DEF RelayInv
<1>1. PICK c : c = stretch[h].code
  OBVIOUS
<1>2. c \in Places \union {NoCode} /\ stretch[h] # Idle
  BY <1>1, StretchFields DEF TakeFile, TypeOK
<1>3. stretch' = [stretch EXCEPT ![h] = Idle]
      /\ UNCHANGED <<texts, over, code, uploads, whole, plan, slots, aged, dropped>>
  BY DEF TakeFile
<1>4. /\ files' \in [Places -> Files \union {Nobody}] /\ Dwindles(files', files)
      /\ tickets' \subseteq Files
  <2>1. CASE c # NoCode /\ Purged(files)[c] # Nobody
    <3>1. files' = [Purged(files) EXCEPT ![c] = Nobody] /\ tickets' = tickets \union {Purged(files)[c]}
      BY <1>1, <2>1 DEF TakeFile
    <3> QED
      BY <1>2, <2>1, <3>1, StoresAndPurges DEF Dwindles, TypeOK
  <2>2. CASE ~(c # NoCode /\ Purged(files)[c] # Nobody)
    <3>1. files' = (IF c = NoCode THEN files ELSE Purged(files)) /\ tickets' = tickets
      BY <1>1, <2>2 DEF TakeFile
    <3> QED
      BY <3>1, StoresAndPurges DEF TypeOK
  <2> QED
    BY <2>1, <2>2
<1>5. TypeOK'
  BY <1>3, <1>4 DEF TypeOK, Stretch
<1>6. OneStretch' /\ StretchesHold'
  BY <1>2, <1>3, LastOneOut, NobodyIsInAStretch
<1>7. FoundUnderItsCode' /\ OneSpace' /\ UploadsAreNew' /\ SlotsAreOwned'
  BY <1>3, <1>4, DwindlingKeepsPlaces, SlotsStay DEF UploadsAreNew, Dwindles
<1> QED
  BY <1>5, <1>6, <1>7

--------------------------------------------------------------------------------
(* Files.                                                                  *)

\* The uploads charged to an address, and what one upload more or less makes of them.
UploadsOf(ip) == {x \in Files : uploads[x] = ip}

LEMMA OneUploadMore ==
    ASSUME TypeOK, NEW x \in Files, NEW ip, uploads[x] = Nobody,
           uploads' = [uploads EXCEPT ![x] = ip]
    PROVE  \A j \in IPs :
               /\ Cardinality(UploadsOf(j)) \in Nat
               /\ Cardinality(UploadsOf(j)') = Cardinality(UploadsOf(j)) + (IF j = ip THEN 1 ELSE 0)
<1> SUFFICES ASSUME NEW j \in IPs
             PROVE  /\ Cardinality(UploadsOf(j)) \in Nat
                    /\ Cardinality(UploadsOf(j)') = Cardinality(UploadsOf(j)) + (IF j = ip THEN 1 ELSE 0)
  OBVIOUS
<1>1. IsFiniteSet(UploadsOf(j))
  BY RelayAssumption, FS_Subset DEF UploadsOf
<1>2. Nobody \notin IPs
  BY RelayAssumption
<1>3. CASE j = ip
  <2>1. UploadsOf(j)' = UploadsOf(j) \union {x} /\ x \notin UploadsOf(j)
    BY <1>2, <1>3 DEF UploadsOf, TypeOK
  <2> QED
    BY <1>1, <1>3, <2>1, FS_AddElement, FS_CardinalityType
<1>4. CASE j # ip
  <2>1. UploadsOf(j)' = UploadsOf(j)
    BY <1>2, <1>4 DEF UploadsOf, TypeOK
  <2> QED
    BY <1>1, <1>4, <2>1, FS_CardinalityType
<1> QED
  BY <1>3, <1>4

LEMMA OneUploadLess ==
    ASSUME TypeOK, NEW x \in InFlight, NEW ip, ip = uploads[x],
           uploads' = [uploads EXCEPT ![x] = Nobody]
    PROVE  \A j \in IPs :
               /\ Cardinality(UploadsOf(j)') \in Nat
               /\ Cardinality(UploadsOf(j)) = Cardinality(UploadsOf(j)') + (IF j = ip THEN 1 ELSE 0)
<1> SUFFICES ASSUME NEW j \in IPs
             PROVE  /\ Cardinality(UploadsOf(j)') \in Nat
                    /\ Cardinality(UploadsOf(j)) = Cardinality(UploadsOf(j)') + (IF j = ip THEN 1 ELSE 0)
  OBVIOUS
<1>1. IsFiniteSet(UploadsOf(j)) /\ IsFiniteSet(UploadsOf(j)')
  BY RelayAssumption, FS_Subset DEF UploadsOf
<1>2. Nobody \notin IPs
  BY RelayAssumption
<1>3. CASE j = ip
  <2>1. UploadsOf(j) = UploadsOf(j)' \union {x} /\ x \notin UploadsOf(j)'
    BY <1>2, <1>3 DEF UploadsOf, TypeOK, InFlight
  <2> QED
    BY <1>1, <1>3, <2>1, FS_AddElement, FS_CardinalityType
<1>4. CASE j # ip
  <2>1. UploadsOf(j)' = UploadsOf(j)
    BY <1>2, <1>4 DEF UploadsOf, TypeOK, InFlight
  <2> QED
    BY <1>1, <1>4, <2>1, FS_CardinalityType
<1> QED
  BY <1>3, <1>4

\* No plan looks like the absence of one.
LEMMA PlansAreSomething ==
    ASSUME NEW p \in Plans
    PROVE  p # None /\ (PlanVerdict(p) = "ok" => p.size > 0)
<1>1. p \in [enc : BOOLEAN, plain : Int, size : Int, chunks : Int]
  BY RelayAssumption
<1>2. DOMAIN p = {"enc", "plain", "size", "chunks"} /\ p.size \in Int
  BY <1>1
<1>3. DOMAIN None = {"at"}
  BY DEF None
<1>4. p # None
  <2>1. "size" \in DOMAIN p /\ "size" \notin DOMAIN None
    BY <1>2, <1>3
  <2> QED
    BY <2>1
<1>5. ASSUME PlanVerdict(p) = "ok" PROVE p.size > 0
  <2>1. ~(p.size < 1)
    BY <1>5 DEF PlanVerdict
  <2> QED
    BY <1>2, <2>1
<1> QED
  BY <1>4, <1>5

\* What an address has begun, and what the limiter holds of it.
Owned(j) ==
    /\ Cardinality(UploadsOf(j)) + dropped[j] <= slots[j] + aged[j]
    /\ slots[j] <= Cardinality(UploadsOf(j)) + dropped[j]

LEMMA OwnedSlots == SlotsAreOwned <=> \A j \in IPs : Owned(j)
BY DEF SlotsAreOwned, Owned, UploadsOf

\* An upload is begun for the address that gets its id, with a slot, or for nobody.
LEMMA ReservesHolds ==
    ASSUME RelayInv, NEW x \in Files, NEW p \in Plans, NEW ip \in IPs, Reserves(x, p, ip),
           NEW to \in IPs \union {Untold},
           uploads' = [uploads EXCEPT ![x] = to],
           slots' = [j \in IPs |-> slots[j] + (IF j = to THEN 1 ELSE 0)]
    PROVE  RelayInv'
<1> USE DEF RelayInv
<1>1. /\ LoopIsFree /\ plan[x] = None /\ PlanVerdict(p) = "ok"
      /\ plan' = [plan EXCEPT ![x] = p]
      /\ files' = Purged(files)
      /\ UNCHANGED <<stretch, texts, over, code, whole, tickets, aged, dropped>>
  BY DEF Reserves
<1>2. TypeOK'
  <2>1. files' \in [Places -> Files \union {Nobody}]
    BY <1>1, StoresAndPurges
  <2>2. slots' \in [IPs -> Nat] /\ uploads' \in [Files -> IPs \union {Nobody, Untold}]
        /\ plan' \in [Files -> Plans \union {None}]
    BY <1>1 DEF TypeOK
  <2> QED
    BY <1>1, <2>1, <2>2 DEF TypeOK, Stretch
<1>3. FoundUnderItsCode' /\ OneSpace'
  <2>1. Dwindles(files', files) /\ Dwindles(texts', texts)
    BY <1>1, StoresAndPurges
  <2> QED
    BY <1>1, <2>1, DwindlingKeepsPlaces
<1>4. OneStretch' /\ StretchesHold'
  BY <1>1, NobodyIsInAStretch DEF LoopIsFree
<1>5. UploadsAreNew'
  <2>1. p # None /\ p.size > 0 /\ code[x] = NoCode
    BY <1>1, PlansAreSomething DEF UploadsAreNew
  <2> QED
    BY <1>1, <2>1 DEF UploadsAreNew, TypeOK
<1>6. uploads[x] = Nobody
  BY <1>1 DEF UploadsAreNew
<1>7. ASSUME NEW j \in IPs PROVE Owned(j)'
  <2>1. Owned(j)
    BY OwnedSlots
  <2>2. slots'[j] = slots[j] + (IF j = to THEN 1 ELSE 0) /\ dropped'[j] = dropped[j] /\ aged'[j] = aged[j]
    BY <1>1
  <2>3. /\ Cardinality(UploadsOf(j)) \in Nat
        /\ Cardinality(UploadsOf(j)') = Cardinality(UploadsOf(j)) + (IF j = to THEN 1 ELSE 0)
    BY <1>6, OneUploadMore
  <2>4. dropped[j] \in Nat /\ aged[j] \in Nat /\ slots[j] \in Nat
    BY DEF TypeOK
  <2> QED
    BY <2>1, <2>2, <2>3, <2>4 DEF Owned
<1>8. SlotsAreOwned'
  BY <1>7 DEF SlotsAreOwned, Owned, UploadsOf
<1> QED
  BY <1>2, <1>3, <1>4, <1>5, <1>8

LEMMA StartUploadHolds ==
    ASSUME RelayInv, NEW x \in Files, NEW p \in Plans, NEW ip \in IPs, StartUpload(x, p, ip)
    PROVE  RelayInv'
<1>1. slots' = [j \in IPs |-> slots[j] + (IF j = ip THEN 1 ELSE 0)]
  <2>1. slots \in [IPs -> Nat] /\ slots' = [slots EXCEPT ![ip] = @ + 1]
    BY DEF StartUpload, RelayInv, TypeOK
  <2>2. ASSUME NEW j \in IPs PROVE slots'[j] = slots[j] + (IF j = ip THEN 1 ELSE 0)
    BY <2>1
  <2> QED
    BY <2>1, <2>2
<1>2. Reserves(x, p, ip) /\ uploads' = [uploads EXCEPT ![x] = ip] /\ ip \in IPs \union {Untold}
  BY DEF StartUpload
<1> QED
  BY ZenonT(30), <1>1, <1>2, ReservesHolds

LEMMA UploadTouchRaisesHolds ==
    ASSUME RelayInv, NEW x \in Files, NEW p \in Plans, NEW ip \in IPs, UploadTouchRaises(x, p, ip)
    PROVE  RelayInv'
<1>1. slots' = [j \in IPs |-> slots[j] + (IF j = Untold THEN 1 ELSE 0)]
  BY RelayAssumption DEF UploadTouchRaises, RelayInv, TypeOK
<1>2. Reserves(x, p, ip) /\ uploads' = [uploads EXCEPT ![x] = Untold]
  BY DEF UploadTouchRaises
<1> QED
  BY ZenonT(30), <1>1, <1>2, ReservesHolds

LEMMA PickForFileHolds ==
    ASSUME RelayInv, NEW h \in Handlers, NEW x \in Files, NEW from \in IPs, PickForFile(h, x, from)
    PROVE  RelayInv'
<1> USE DEF RelayInv
<1>1. PICK c \in FreeCodes(x, files, texts) :
        stretch' = [stretch EXCEPT ![h] = [at |-> "filing", throw |-> x, code |-> c, from |-> from]]
  BY DEF PickForFile
<1>2. LoopIsFree /\ x \in Known
      /\ UNCHANGED <<texts, files, over, code, uploads, whole, plan, tickets, slots, aged, dropped>>
  BY DEF PickForFile
<1> DEFINE s == [at |-> "filing", throw |-> x, code |-> c, from |-> from]
<1>3. c \in Places /\ c \notin Live(texts) \union Live(files)
  BY <1>2 DEF FreeCodes, Pool, Places
<1>4. s \in Stretch
  BY <1>3 DEF Stretch
<1>5. TypeOK'
  BY <1>1, <1>2, <1>4 DEF TypeOK
<1>6. FoundUnderItsCode' /\ OneSpace' /\ UploadsAreNew' /\ SlotsAreOwned'
  BY <1>2, SlotsStay DEF FoundUnderItsCode, OneSpace, Live, UploadsAreNew
<1>7. PickedCodeIsFree(s)' /\ FiledIsKnown(s)'
  <2>1. code[x] = NoCode
    BY <1>2, RelayAssumption DEF UploadsAreNew, Known
  <2>2. x \in Known' /\ Live(texts)' = Live(texts) /\ Live(files)' = Live(files)
    BY <1>2 DEF Known, Live
  <2> QED
    BY <1>2, <1>3, <2>1, <2>2 DEF PickedCodeIsFree, FiledIsKnown
<1>8. OneStretch' /\ StretchesHold'
  BY <1>1, <1>2, <1>4, <1>7, FirstOneIn
<1> QED
  BY <1>5, <1>6, <1>8

LEMMA FinishUploadHolds ==
    ASSUME RelayInv, NEW h \in Handlers, FinishUpload(h)
    PROVE  RelayInv'
<1> USE DEF RelayInv
<1>1. PICK x, c, ip : x = stretch[h].throw /\ c = stretch[h].code /\ ip = uploads[x]
  OBVIOUS
<1>2. x \in Files /\ c \in Places /\ stretch[h] # Idle
  BY <1>1, StretchFields DEF FinishUpload, TypeOK
<1>3. c \notin Live(texts) \union Live(files) /\ code[x] = NoCode /\ x \in Known
  BY <1>1 DEF FinishUpload, StretchesHold, PickedCodeIsFree, FiledIsKnown
<1>4. /\ files' = [files EXCEPT ![c] = x] /\ code' = [code EXCEPT ![x] = c]
      /\ uploads' = [uploads EXCEPT ![x] = Nobody]
      /\ slots' = [slots EXCEPT ![ip] = IF @ = 0 THEN 0 ELSE @ - 1]
      /\ stretch' = [stretch EXCEPT ![h] = Idle]
      /\ whole' = whole \ {x}
      /\ UNCHANGED <<texts, over, plan, tickets, aged, dropped>>
  BY <1>1 DEF FinishUpload, Releases
<1>5. x \in Throws /\ x # Nobody /\ ip \in IPs /\ x \in InFlight
  BY <1>1, <1>2, <1>3, RelayAssumption DEF Throws, InFlight, Known, TypeOK
<1>6. TypeOK'
  <2>1. files' \in [Places -> Files \union {Nobody}] /\ code' \in [Throws -> Places \union {NoCode}]
        /\ uploads' \in [Files -> IPs \union {Nobody, Untold}] /\ whole' \subseteq Files
    BY <1>2, <1>4, <1>5 DEF TypeOK
  <2>2. slots' \in [IPs -> Nat]
    BY <1>4, <1>5 DEF TypeOK
  <2>3. stretch' \in [Handlers -> Stretch]
    BY <1>4 DEF TypeOK, Stretch
  <2> QED
    BY <1>4, <2>1, <2>2, <2>3 DEF TypeOK
<1>7. OneStretch' /\ StretchesHold'
  BY <1>2, <1>4, LastOneOut, NobodyIsInAStretch
<1>8. ASSUME NEW d \in Places
      PROVE  /\ texts'[d] # Nobody => code'[texts'[d]] = d
             /\ files'[d] # Nobody => code'[files'[d]] = d
  <2>1. texts[d] # x /\ files[d] # x
    BY <1>3, <1>5, NoCodeIsNoPlace DEF FoundUnderItsCode
  <2>2. texts[d] # Nobody => texts[d] \in Throws
    BY DEF TypeOK, Throws
  <2>3. files[d] # Nobody => files[d] \in Throws
    BY DEF TypeOK, Throws
  <2> QED
    BY <1>2, <1>4, <1>5, <2>1, <2>2, <2>3 DEF FoundUnderItsCode, TypeOK
<1>9. OneSpace'
  <2>1. Live(files)' \subseteq Live(files) \union {c} /\ Live(texts)' = Live(texts)
    BY <1>2, <1>4 DEF Live, TypeOK
  <2> QED
    BY <1>3, <2>1 DEF OneSpace
<1>10. UploadsAreNew'
  <2>1. plan[x] # None
    BY <1>2, <1>5 DEF UploadsAreNew, InFlight
  <2>2. ASSUME NEW y \in Files, y # x PROVE code'[y] = code[y] /\ uploads'[y] = uploads[y]
    BY <1>4, <2>2 DEF TypeOK, Throws
  <2>3. uploads'[x] = Nobody
    BY <1>2, <1>4 DEF TypeOK
  <2> QED
    BY <1>4, <2>1, <2>2, <2>3 DEF UploadsAreNew
<1>11. ASSUME NEW j \in IPs PROVE Owned(j)'
  <2>1. Owned(j)
    BY OwnedSlots
  <2>2. /\ Cardinality(UploadsOf(j)') \in Nat
        /\ Cardinality(UploadsOf(j)) = Cardinality(UploadsOf(j)') + (IF j = ip THEN 1 ELSE 0)
    BY <1>1, <1>4, <1>5, OneUploadLess
  <2>3. /\ slots[j] \in Nat /\ dropped[j] \in Nat /\ aged[j] \in Nat
        /\ dropped'[j] = dropped[j] /\ aged'[j] = aged[j]
    BY <1>4 DEF TypeOK
  <2>4. slots'[j] = IF j # ip \/ slots[j] = 0 THEN slots[j] ELSE slots[j] - 1
    BY <1>4 DEF TypeOK
  <2> QED
    BY <2>1, <2>2, <2>3, <2>4 DEF Owned
<1>12. SlotsAreOwned'
  BY <1>11 DEF SlotsAreOwned, Owned, UploadsOf
<1> QED
  BY <1>6, <1>7, <1>8, <1>9, <1>10, <1>12 DEF FoundUnderItsCode

LEMMA DropUploadHolds ==
    ASSUME RelayInv, NEW x \in Files, DropUpload(x)
    PROVE  RelayInv'
<1> USE DEF RelayInv
<1>1. PICK ip : ip = uploads[x]
  OBVIOUS
<1>2. /\ LoopIsFree /\ x \in InFlight
      /\ dropped' = IF x \in Known THEN [dropped EXCEPT ![ip] = @ + 1] ELSE dropped
      /\ uploads' = [uploads EXCEPT ![x] = Nobody] /\ whole' = whole \ {x}
      /\ UNCHANGED <<stretch, texts, files, over, code, plan, tickets, slots, aged>>
  BY <1>1 DEF DropUpload
<1>3. x \in Known <=> ip \in IPs
  BY <1>1 DEF Known
<1>4. TypeOK'
  <2>1. dropped' \in [IPs -> Nat] /\ uploads' \in [Files -> IPs \union {Nobody, Untold}]
        /\ whole' \subseteq Files
    BY <1>2, <1>3 DEF TypeOK
  <2> QED
    BY <1>2, <2>1 DEF TypeOK, Stretch
<1>5. OneStretch' /\ StretchesHold'
  BY <1>2, NobodyIsInAStretch DEF LoopIsFree
<1>6. FoundUnderItsCode' /\ OneSpace'
  BY <1>2 DEF FoundUnderItsCode, OneSpace, Live
<1>7. UploadsAreNew'
  BY <1>2 DEF UploadsAreNew, TypeOK
<1>8. ASSUME NEW j \in IPs PROVE Owned(j)'
  <2>1. Owned(j)
    BY OwnedSlots
  <2>2. /\ Cardinality(UploadsOf(j)') \in Nat
        /\ Cardinality(UploadsOf(j)) = Cardinality(UploadsOf(j)') + (IF j = ip THEN 1 ELSE 0)
    BY <1>1, <1>2, OneUploadLess
  <2>3. /\ dropped[j] \in Nat /\ slots[j] \in Nat /\ aged[j] \in Nat
        /\ slots'[j] = slots[j] /\ aged'[j] = aged[j]
        /\ dropped'[j] = dropped[j] + (IF j = ip THEN 1 ELSE 0)
    BY <1>2, <1>3 DEF TypeOK
  <2> QED
    BY <2>1, <2>2, <2>3 DEF Owned
<1>9. SlotsAreOwned'
  BY <1>8 DEF SlotsAreOwned, Owned, UploadsOf
<1> QED
  BY <1>4, <1>5, <1>6, <1>7, <1>9

LEMMA SlotAgesHolds ==
    ASSUME RelayInv, NEW ip \in IPs, SlotAges(ip)
    PROVE  RelayInv'
<1> USE DEF RelayInv
<1>1. /\ LoopIsFree /\ slots[ip] > 0
      /\ aged' = [aged EXCEPT ![ip] = @ + 1]
      /\ slots' = [slots EXCEPT ![ip] = @ - 1]
      /\ UNCHANGED <<stretch, texts, files, over, code, uploads, whole, plan, tickets, dropped>>
  BY DEF SlotAges
<1>2. ASSUME NEW j \in IPs PROVE slots'[j] \in Nat /\ aged'[j] \in Nat /\ Owned(j)'
  <2>1. Owned(j) /\ UploadsOf(j)' = UploadsOf(j)
    BY <1>1, OwnedSlots DEF UploadsOf
  <2>2. Cardinality(UploadsOf(j)) \in Nat
    BY RelayAssumption, FS_Subset, FS_CardinalityType DEF UploadsOf
  <2>3. /\ slots[j] \in Nat /\ dropped[j] \in Nat /\ aged[j] \in Nat
        /\ slots'[j] = slots[j] - (IF j = ip THEN 1 ELSE 0)
        /\ aged'[j] = aged[j] + (IF j = ip THEN 1 ELSE 0) /\ dropped'[j] = dropped[j]
    BY <1>1 DEF TypeOK
  <2> QED
    BY <1>1, <2>1, <2>2, <2>3 DEF Owned
<1>3. TypeOK'
  <2>1. slots' \in [IPs -> Nat] /\ aged' \in [IPs -> Nat]
    BY <1>1, <1>2 DEF TypeOK
  <2> QED
    BY <1>1, <2>1 DEF TypeOK, Stretch
<1>4. OneStretch' /\ StretchesHold'
  BY <1>1, NobodyIsInAStretch DEF LoopIsFree
<1>5. FoundUnderItsCode' /\ OneSpace' /\ UploadsAreNew'
  BY <1>1 DEF FoundUnderItsCode, OneSpace, Live, UploadsAreNew
<1>6. SlotsAreOwned'
  BY <1>2 DEF SlotsAreOwned, Owned, UploadsOf
<1> QED
  BY <1>3, <1>4, <1>5, <1>6

--------------------------------------------------------------------------------
(* Every step.                                                             *)

LEMMA NextKeepsTheInvariant == RelayInv /\ [Next]_vars => RelayInv'
<1> SUFFICES ASSUME RelayInv, [Next]_vars PROVE RelayInv'
  OBVIOUS
<1> DEFINE quiet == <<stretch, over, code, uploads, whole, plan, tickets, slots, aged, dropped>>
<1>1. TypeOK
  BY DEF RelayInv
<1>2. CASE UNCHANGED vars
  <2>1. TypeOK'
    BY <1>1, <1>2 DEF vars, TypeOK, Stretch
  <2> QED
    BY <1>2, <2>1, ThreadsKeepTheInvariant DEF vars
<1>3. CASE HandleText
  <2>1. ASSUME NEW r \in TextRequests, RefuseText(r) PROVE RelayInv'
    <3>1. LoopIsFree /\ UNCHANGED <<texts, files>> /\ UNCHANGED quiet
      BY <2>1 DEF RefuseText
    <3> QED
      BY <1>1, <3>1, StoresAndPurges, QuietKeepsTheInvariant
  <2>2. ASSUME NEW r \in TextRequests, NEW x \in Texts, PutRefused(x, r) PROVE RelayInv'
    <3>1. LoopIsFree /\ texts' = Purged(texts) /\ UNCHANGED files /\ UNCHANGED quiet
      BY <2>2 DEF PutRefused
    <3> QED
      BY <1>1, <3>1, StoresAndPurges, QuietKeepsTheInvariant
  <2> QED
    BY <1>3, <2>1, <2>2, PickForTextHolds, PutTextHolds DEF HandleText
<1>4. CASE HandleTake
  BY <1>4, TakeTextHolds, TakeFileHolds DEF HandleTake
<1>5. CASE HandleUpload
  <2>1. ASSUME NEW p \in Plans, RefuseUpload(p) PROVE RelayInv'
    <3>1. LoopIsFree /\ UNCHANGED <<texts, files>> /\ UNCHANGED quiet
      BY <2>1 DEF RefuseUpload
    <3> QED
      BY <1>1, <3>1, StoresAndPurges, QuietKeepsTheInvariant
  <2>2. ASSUME NEW p \in Plans, NEW ip \in IPs, UploadBusy(p, ip) PROVE RelayInv'
    <3>1. /\ LoopIsFree /\ UNCHANGED texts /\ UNCHANGED quiet
          /\ files' = files \/ files' = Purged(files)
      BY <2>2 DEF UploadBusy
    <3> QED
      BY <1>1, <3>1, StoresAndPurges, QuietKeepsTheInvariant
  <2>3. ASSUME NEW x \in Files, RefuseDone(x) PROVE RelayInv'
    <3>1. LoopIsFree /\ UNCHANGED <<texts, files>> /\ UNCHANGED quiet
      BY <2>3 DEF RefuseDone
    <3> QED
      BY <1>1, <3>1, StoresAndPurges, QuietKeepsTheInvariant
  <2>4. ASSUME NEW x \in Files, WriteChunks(x) PROVE RelayInv'
    <3>1. /\ UNCHANGED <<stretch, texts, files, over, code, uploads, plan, tickets, slots, aged, dropped>>
          /\ whole' \subseteq Files
      BY <1>1, <2>4 DEF WriteChunks, TypeOK
    <3>2. TypeOK'
      BY <1>1, <3>1 DEF TypeOK, Stretch
    <3> QED
      BY <3>1, <3>2, ThreadsKeepTheInvariant
  <2> QED
    BY <1>5, <2>1, <2>2, <2>3, <2>4, StartUploadHolds, UploadTouchRaisesHolds, PickForFileHolds, FinishUploadHolds
    DEF HandleUpload
<1>6. CASE HandleDownload
  <2>1. ASSUME NEW x \in Files, NEW header \in Headers, DownloadFile(x, header) PROVE RelayInv'
    <3>1. LoopIsFree /\ UNCHANGED texts /\ files' = Purged(files) /\ UNCHANGED quiet
      BY <2>1 DEF DownloadFile
    <3> QED
      BY <1>1, <3>1, StoresAndPurges, QuietKeepsTheInvariant
  <2>2. ASSUME NEW x \in Files, CompleteDownload(x) PROVE RelayInv'
    <3>1. /\ UNCHANGED <<stretch, texts, files, over, code, uploads, whole, plan, slots, aged, dropped>>
          /\ tickets' \subseteq Files
      BY <1>1, <2>2 DEF CompleteDownload, TypeOK
    <3>2. TypeOK'
      BY <1>1, <3>1 DEF TypeOK, Stretch
    <3> QED
      BY <3>1, <3>2, ThreadsKeepTheInvariant
  <2>3. ASSUME RefuseDownload PROVE RelayInv'
    <3>1. LoopIsFree /\ UNCHANGED texts /\ files' = Purged(files) /\ UNCHANGED quiet
      BY <2>3 DEF RefuseDownload
    <3> QED
      BY <1>1, <3>1, StoresAndPurges, QuietKeepsTheInvariant
  <2> QED
    BY <1>6, <2>1, <2>2, <2>3 DEF HandleDownload
<1>7. CASE Time
  <2>1. ASSUME Sweep PROVE RelayInv'
    <3>1. LoopIsFree /\ texts' = Purged(texts) /\ files' = Purged(files) /\ UNCHANGED quiet
      BY <2>1 DEF Sweep
    <3> QED
      BY <1>1, <3>1, StoresAndPurges, QuietKeepsTheInvariant
  <2>2. ASSUME NEW x \in Throws, Expire(x) PROVE RelayInv'
    <3>1. /\ UNCHANGED <<stretch, texts, files, code, uploads, whole, plan, tickets, slots, aged, dropped>>
          /\ over' \subseteq Throws
      BY <1>1, <2>2 DEF Expire, TypeOK
    <3>2. TypeOK'
      BY <1>1, <3>1 DEF TypeOK, Stretch
    <3> QED
      BY <3>1, <3>2, ThreadsKeepTheInvariant
  <2> QED
    BY <1>7, <2>1, <2>2, DropUploadHolds, SlotAgesHolds DEF Time
<1> QED
  BY <1>2, <1>3, <1>4, <1>5, <1>6, <1>7 DEF Next

\* Everything the handlers keep between their steps, in every reachable state.
THEOREM RelayInvariance == Spec => []RelayInv
BY InitHolds, NextKeepsTheInvariant, PTL DEF Spec

\* A receiver types words and cannot know what is behind them: whatever threads and sweeps
\* do beside the handlers, no code is ever in both stores (holds, create_app).
THEOREM SpacesNeverMeet == Spec => []OneSpace
<1>1. RelayInv => OneSpace
  BY DEF RelayInv
<1> QED
  BY <1>1, RelayInvariance, PTL

\* Nobody frees the slot of another, and none is lost before its time: an address holds one
\* for each upload that it has in flight or that was dropped, but for those of its slots
\* that aged out, and never more (start_upload, finish_upload).
THEOREM SlotsStayOwned == Spec => []SlotsAreOwned
<1>1. RelayInv => SlotsAreOwned
  BY DEF RelayInv
<1> QED
  BY <1>1, RelayInvariance, PTL

--------------------------------------------------------------------------------
(* What requests are answered.                                             *)

ServedRight == last.at = "download" => Serves(last.size, last.header, last.span)

\* A file that has a ticket was begun with a plan, whose size is what it serves.
TicketsArePlanned == \A x \in tickets : plan[x] # None

LEMMA TicketsStayPlanned ==
    RelayInv /\ TicketsArePlanned /\ [Next]_vars => TicketsArePlanned'
<1> SUFFICES ASSUME RelayInv, TicketsArePlanned, [Next]_vars PROVE TicketsArePlanned'
  OBVIOUS
<1> USE DEF RelayInv
<1>1. CASE tickets' \subseteq tickets /\ UNCHANGED plan
  BY <1>1 DEF TicketsArePlanned
<1>2. ASSUME NEW h \in Handlers, TakeFile(h) PROVE TicketsArePlanned'
  <2>1. PICK c : c = stretch[h].code
    OBVIOUS
  <2>2. c \in Places \union {NoCode} /\ UNCHANGED plan
    BY <1>2, <2>1, StretchFields DEF TakeFile, TypeOK
  <2>3. CASE c # NoCode /\ Purged(files)[c] # Nobody
    <3>1. tickets' = tickets \union {Purged(files)[c]}
      BY <1>2, <2>1, <2>3 DEF TakeFile
    <3>2. c \in Places /\ files[c] = Purged(files)[c] /\ files[c] \in Files
      BY <2>2, <2>3 DEF Purged, TypeOK
    <3>3. code[files[c]] # NoCode
      BY <2>3, <3>2, NoCodeIsNoPlace DEF FoundUnderItsCode
    <3> QED
      BY <2>2, <3>1, <3>2, <3>3 DEF TicketsArePlanned, UploadsAreNew
  <2>4. CASE ~(c # NoCode /\ Purged(files)[c] # Nobody)
    BY <1>2, <2>1, <2>2, <2>4 DEF TakeFile, TicketsArePlanned
  <2> QED
    BY <2>3, <2>4
<1>3. ASSUME NEW p \in Plans, NEW ip \in IPs, NEW x \in Files, Reserves(x, p, ip)
      PROVE  TicketsArePlanned'
  <2>1. tickets' = tickets /\ plan' = [plan EXCEPT ![x] = p] /\ p # None
    BY <1>3, PlansAreSomething DEF Reserves
  <2> QED
    BY <2>1 DEF TicketsArePlanned, TypeOK
<1>4. CASE UNCHANGED vars
  BY <1>1, <1>4 DEF vars
<1>5. CASE HandleText
  BY <1>1, <1>5 DEF HandleText, RefuseText, PutRefused, PickForText, PutText
<1>6. CASE HandleTake
  BY <1>1, <1>2, <1>6 DEF HandleTake, TakeText
<1>7. CASE HandleUpload
  <2>1. ASSUME NEW p \in Plans, NEW ip \in IPs, UploadBusy(p, ip) PROVE TicketsArePlanned'
    BY <1>1, <2>1 DEF UploadBusy
  <2>2. ASSUME NEW x \in Files,
               RefuseDone(x) \/ \E h \in Handlers, ip \in IPs : PickForFile(h, x, ip)
        PROVE  TicketsArePlanned'
    BY <1>1, <2>2 DEF RefuseDone, PickForFile
  <2>3. ASSUME NEW h \in Handlers, FinishUpload(h) PROVE TicketsArePlanned'
    BY <1>1, <2>3 DEF FinishUpload
  <2> QED
    BY ZenonT(30), <1>1, <1>3, <1>7, <2>1, <2>2, <2>3
    DEF HandleUpload, RefuseUpload, WriteChunks, StartUpload, UploadTouchRaises
<1>8. CASE HandleDownload
  BY <1>1, <1>8 DEF HandleDownload, CompleteDownload, DownloadFile, RefuseDownload
<1>9. CASE Time
  BY <1>1, <1>9 DEF Time, Sweep, Expire, DropUpload, SlotAges
<1> QED
  BY <1>4, <1>5, <1>6, <1>7, <1>8, <1>9 DEF Next

\* What parse_range makes of a header is what the header asks for.
LEMMA ParsedIsServed ==
    ASSUME NEW size \in Nat \ {0}, NEW header \in Header
    PROVE  Serves(size, header, ParseRange(header, size))
<1>1. CASE header.kind = "nothing"
  <2>1. header = Nothing
    BY <1>1 DEF Header, Nothing
  <2>2. ParseRange(header, size) = WholeFile
    BY <1>1 DEF ParseRange
  <2> QED
    BY <2>1, <2>2 DEF Serves, WholeFile
<1>2. CASE header.kind # "nothing" /\ Impossible(header, size)
  <2>1. ParseRange(header, size) = Unsatisfiable
    BY <1>2 DEF ParseRange
  <2>2. Asked(header, size) = {}
    BY <2>1, UnsatisfiableAsksForNothing
  <2> QED
    BY <2>1, <2>2 DEF Serves, Unsatisfiable
<1>3. CASE header.kind # "nothing" /\ ~Impossible(header, size)
  <2>1. PICK start, end : start = FirstByte(header, size) /\ end = LastByte(header, size)
    OBVIOUS
  <2>2. ParseRange(header, size) = Span(start, end)
    BY <1>3, <2>1 DEF ParseRange
  <2>3. start .. end = Asked(header, size) /\ 0 <= start /\ start <= end /\ end < size
    BY <2>2, SpanIsInside, SpanIsWhatWasAsked
  <2>4. start \in Asked(header, size)
    <3>1. start \in Int
      BY <1>3, <2>1 DEF Header, Nothing, FirstByte, AtLeast0
    <3>2. end \in Int
      BY <1>3, <2>1 DEF Header, Nothing, LastByte, Smaller
    <3> QED
      BY <2>3, <3>1, <3>2
  <2>5. Span(start, end).kind = "span" /\ Span(start, end).start = start /\ Span(start, end).end = end
    BY DEF Span
  <2> QED
    BY <2>2, <2>3, <2>4, <2>5 DEF Serves
<1> QED
  BY <1>1, <1>2, <1>3

LEMMA DownloadsAreServedRight ==
    RelayInv /\ TicketsArePlanned /\ ServedRight /\ [Next]_vars => ServedRight'
<1> SUFFICES ASSUME RelayInv, TicketsArePlanned, ServedRight, [Next]_vars PROVE ServedRight'
  OBVIOUS
<1> USE DEF RelayInv
<1>1. CASE UNCHANGED last
  BY <1>1 DEF ServedRight
<1>2. CASE last'.at # "download"
  BY <1>2 DEF ServedRight
<1>3. ASSUME NEW x \in Files, NEW header \in Headers, DownloadFile(x, header) PROVE ServedRight'
  <2>1. PICK size, span : size = plan[x].size /\ span = ParseRange(header, size)
    OBVIOUS
  <2>2. size \in Nat \ {0}
    <3>1. plan[x] \in Plans /\ plan[x].size > 0
      BY <1>3 DEF DownloadFile, TicketsArePlanned, UploadsAreNew, TypeOK
    <3>2. plan[x].size \in Int
      BY <3>1, RelayAssumption
    <3> QED
      BY <2>1, <3>1, <3>2
  <2>3. last' = [at |-> "download", size |-> size, header |-> header, span |-> span]
    BY <1>3, <2>1 DEF DownloadFile
  <2>4. last'.size = size /\ last'.header = header /\ last'.span = span
    BY <2>3
  <2>5. Serves(size, header, span)
    BY <2>1, <2>2, ParsedIsServed, RelayAssumption
  <2> QED
    BY <2>4, <2>5 DEF ServedRight
<1>4. CASE UNCHANGED vars
  BY <1>1, <1>4 DEF vars
<1>5. CASE HandleText
  BY <1>1, <1>2, <1>5 DEF HandleText, RefuseText, PutRefused, PickForText, PutText
<1>6. CASE HandleTake
  <2>0. ASSUME NEW due, NEW found, NEW status, TakeAnswer(due, found, status) PROVE last'.at = "take"
    BY <2>0 DEF TakeAnswer
  <2>1. ASSUME NEW h \in Handlers, TakeFile(h) PROVE last'.at = "take"
    BY ZenonT(30), <2>0, <2>1 DEF TakeFile
  <2>2. ASSUME NEW h \in Handlers, NEW s \in Spelled, TakeText(h, s)
        PROVE  last'.at = "take" \/ UNCHANGED last
    BY <2>0, <2>2 DEF TakeText
  <2> QED
    BY <1>1, <1>2, <1>6, <2>1, <2>2 DEF HandleTake
<1>7. CASE HandleUpload
  <2>0. ASSUME NEW p, NEW status, UploadAnswer(p, status) \/ DiskError(p)
        PROVE  last'.at # "download"
    <3>1. CASE UploadAnswer(p, status)
      BY <3>1 DEF UploadAnswer
    <3>2. CASE DiskError(p)
      BY <3>2 DEF DiskError
    <3> QED
      BY <2>0, <3>1, <3>2
  <2>1. ASSUME NEW p \in Plans, RefuseUpload(p) \/ \E ip \in IPs : UploadBusy(p, ip)
        PROVE  last'.at # "download"
    <3>1. CASE RefuseUpload(p)
      BY ZenonT(30), <2>0, <3>1 DEF RefuseUpload
    <3>2. ASSUME NEW ip \in IPs, UploadBusy(p, ip) PROVE last'.at # "download"
      BY ZenonT(30), <2>0, <3>2 DEF UploadBusy
    <3> QED
      BY <2>1, <3>1, <3>2
  <2>2. ASSUME NEW p \in Plans, NEW ip \in IPs, NEW x \in Files,
               StartUpload(x, p, ip) \/ UploadTouchRaises(x, p, ip)
        PROVE  last'.at # "download"
    BY <2>0, <2>2 DEF StartUpload, UploadTouchRaises
  <2>3. ASSUME NEW x \in Files, RefuseDone(x) PROVE last'.at = "done"
    BY <2>3 DEF RefuseDone, DoneAnswer
  <2>4. ASSUME NEW h \in Handlers, FinishUpload(h) PROVE last'.at = "done"
    BY <2>4 DEF FinishUpload, DoneAnswer
  <2>5. ASSUME NEW x \in Files,
               WriteChunks(x) \/ \E h \in Handlers, ip \in IPs : PickForFile(h, x, ip)
        PROVE  UNCHANGED last
    BY <2>5 DEF WriteChunks, PickForFile
  <2> QED
    BY <1>1, <1>2, <1>7, <2>1, <2>2, <2>3, <2>4, <2>5 DEF HandleUpload
<1>8. CASE HandleDownload
  <2>1. None.at # "download"
    BY DEF None
  <2>2. RefuseDownload => last'.at # "download"
    BY <2>1 DEF RefuseDownload
  <2> QED
    BY <1>1, <1>2, <1>3, <1>8, <2>2 DEF HandleDownload, CompleteDownload
<1>9. CASE Time
  BY <1>1, <1>9 DEF Time, Sweep, Expire, DropUpload, SlotAges
<1> QED
  BY <1>4, <1>5, <1>6, <1>7, <1>8, <1>9 DEF Next

\* A download serves exactly the bytes its Range header names, for every file and header
\* (parse_range, download_file): a ticket always has a size to read the header by.
THEOREM DownloadsServeWhatWasAsked == Spec => ServesWhatWasAsked
<1>1. Init => TicketsArePlanned /\ ServedRight
  BY DEF Init, TicketsArePlanned, ServedRight, None
<1>2. Spec => [](RelayInv /\ TicketsArePlanned /\ ServedRight)
  BY <1>1, InitHolds, NextKeepsTheInvariant, TicketsStayPlanned, DownloadsAreServedRight,
     PTL DEF Spec
<1>3. ServedRight' => (last'.at = "download" => Serves(last'.size, last'.header, last'.span))
  BY DEF ServedRight
<1> QED
  BY <1>2, <1>3, PTL DEF ServesWhatWasAsked

--------------------------------------------------------------------------------
(* The limits.                                                             *)

LimitsHold ==
    /\ last.at = "text" => TextsWithinLimit(last.request, last.status)
    /\ last.at = "upload" => FilesWithinLimit(last.plan, last.status)

LEMMA SizesAreThere ==
    /\ MaxText \in Nat \ {0} /\ OpenMax \in Nat \ {0} /\ ClosedMax \in Nat \ {0}
    /\ ChunkBytes \in Nat \ {0} /\ TagBytes \in Nat \ {0}
    /\ ChunkSlack \in Nat /\ IvBytes \in Nat /\ PreambleBytes \in Nat /\ MaxHeader \in Nat
    /\ BodySlackFactor \in Nat /\ BodySlackBytes \in Nat
    /\ TagBytes <= ChunkSlack /\ PreambleBytes + MaxHeader <= ChunkBytes + ChunkSlack
BY SizesAssumption

LEMMA Thirds ==
    ASSUME NEW m \in Nat, NEW n \in Nat, m <= n
    PROVE  /\ m \div 3 \in Nat /\ m \div 3 <= n \div 3
           /\ m <= 3 * (m \div 3) + 2
OBVIOUS

LEMMA CeilingGrows ==
    ASSUME NEW m \in Nat, NEW n \in Nat, m <= n
    PROVE  /\ EncryptedCeiling(m) \in Nat /\ EncryptedCeiling(m) <= EncryptedCeiling(n)
           /\ m <= EncryptedCeiling(m)
<1>1. PICK x \in Nat, y \in Nat : /\ x = IvBytes + m + TagBytes + 2 /\ y = IvBytes + n + TagBytes + 2
                                  /\ x <= y /\ m + 2 <= x
  BY SizesAreThere
<1>2. EncryptedCeiling(m) = 4 * (x \div 3) /\ EncryptedCeiling(n) = 4 * (y \div 3)
  BY <1>1 DEF EncryptedCeiling
<1> QED
  BY <1>1, <1>2, Thirds

\* A body within the limit is within the slack, whichever way it is written.
LEMMA SlackIsEnough ==
    ASSUME NEW n \in Nat, n <= MaxText, 6 <= BodySlackFactor
    PROVE  /\ 6 * n + BodySlackBytes <= MaxBody
           /\ EncryptedCeiling(n) + BodySlackBytes <= MaxBody
<1>1. PICK e \in Nat : e = EncryptedCeiling(MaxText) /\ EncryptedCeiling(n) \in Nat
                       /\ EncryptedCeiling(n) <= e /\ n <= e
  BY SizesAreThere, CeilingGrows
<1>2. 6 * e \in Nat /\ 6 * e <= BodySlackFactor * e
  BY <1>1, SizesAreThere, TimesGrows
<1>3. BodySlackFactor * e = e * BodySlackFactor
  BY <1>1, SizesAreThere
<1>4. PICK f \in Nat : f = e * BodySlackFactor
  BY <1>1, SizesAreThere
<1>5. MaxBody = f + BodySlackBytes
  BY <1>1, <1>4 DEF MaxBody
<1> QED
  BY <1>1, <1>2, <1>3, <1>4, <1>5, SizesAreThere

LEMMA TextsAreStored ==
    ASSUME NEW r
    PROVE  TextStatus(r) = 201 <=>
               /\ ~(r.body > MaxBody)
               /\ ~(~r.json \/ r.enc = "unknown" \/ r.blank \/ (r.enc = "known" /\ ~r.base64))
               /\ ~(Carried(r) > MaxText)
<1>1. 413 # 201 /\ 400 # 201
  OBVIOUS
<1> QED
  BY <1>1, Zenon DEF TextStatus

LEMMA TextsAreWithin ==
    ASSUME NEW r \in TextRequests, NEW status,
           \/ TextStatus(r) # 201 /\ status = TextStatus(r)
           \/ TextStatus(r) = 201 /\ status \in {201, 503}
    PROVE  TextsWithinLimit(r, status)
<1>1. /\ r.honest \in BOOLEAN /\ r.typed \in Nat /\ r.raw \in Nat /\ r.body \in Nat
      /\ r.enc \in {"absent", "known", "unknown"}
  BY RelayAssumption
<1>2. status \in {201, 503} <=> TextStatus(r) = 201
  BY DEF TextStatus
<1>3. EncryptedPlaintextBytes(r.raw) =
          IF r.raw >= IvBytes + TagBytes THEN r.raw - IvBytes - TagBytes ELSE 0
  BY <1>1, SizesAreThere DEF EncryptedPlaintextBytes, Max
<1>4. ASSUME r.honest PROVE TextStatus(r) = 201 <=> r.typed <= MaxText
  <2>1. /\ r.json /\ ~r.blank
        /\ \/ /\ r.enc = "absent" /\ r.raw = r.typed
              /\ r.body <= 6 * r.typed + BodySlackBytes
           \/ /\ r.enc = "known" /\ r.base64 /\ r.raw = IvBytes + r.typed + TagBytes
              /\ r.body <= EncryptedCeiling(r.typed) + BodySlackBytes
    BY <1>4, HonestTexts
  <2>2. Carried(r) = r.typed
    BY <1>1, <1>3, <2>1, SizesAreThere DEF Carried
  <2>3. TextStatus(r) = 201 <=> r.body <= MaxBody /\ r.typed <= MaxText
    <3>1. TextStatus(r) = 201 <=> ~(r.body > MaxBody) /\ ~(Carried(r) > MaxText)
      <4>1. r.enc # "unknown" /\ (r.enc = "known" => r.base64)
        BY <2>1
      <4> QED
        BY <2>1, <4>1, TextsAreStored, Zenon
    <3>2. MaxBody \in Nat
      BY SizesAreThere, CeilingGrows DEF MaxBody
    <3>3. (~(r.body > MaxBody) <=> r.body <= MaxBody) /\ (~(Carried(r) > MaxText) <=> r.typed <= MaxText)
      BY <1>1, <2>2, <3>2, SizesAreThere
    <3> QED
      BY ZenonT(30), <3>1, <3>3
  <2>4. ASSUME r.typed <= MaxText PROVE r.body <= MaxBody
    <3>1. /\ 6 * r.typed + BodySlackBytes <= MaxBody
          /\ EncryptedCeiling(r.typed) + BodySlackBytes <= MaxBody
      BY <1>1, <2>4, SlackIsEnough, HonestTexts
    <3>2. EncryptedCeiling(r.typed) \in Nat /\ MaxBody \in Nat
      BY <1>1, SizesAreThere, CeilingGrows DEF MaxBody
    <3> QED
      BY <1>1, <2>1, <3>1, <3>2, SizesAreThere
  <2> QED
    BY <2>3, <2>4
<1>5. ASSUME status = 201, r.enc = "known"
      PROVE  4 * ((r.raw + 2) \div 3) <= EncryptedCeiling(MaxText)
  <2>1. EncryptedPlaintextBytes(r.raw) <= MaxText
    <3>1. ~(Carried(r) > MaxText)
      BY <1>2, <1>5, TextsAreStored
    <3> QED
      BY <1>1, <1>3, <1>5, <3>1, SizesAreThere DEF Carried
  <2>2. PICK x \in Nat, y \in Nat : x = r.raw + 2 /\ y = IvBytes + MaxText + TagBytes + 2 /\ x <= y
    BY <1>1, <1>3, <2>1, SizesAreThere
  <2> QED
    BY <2>2, Thirds DEF EncryptedCeiling
<1> QED
  BY <1>2, <1>4, <1>5 DEF TextsWithinLimit

\* As many chunks as the server counts are as many as the page cuts.
LEMMA ChunksCounted ==
    ASSUME NEW n \in Nat \ {0}, NEW k, k = CutsOf(n, ChunkBytes)
    PROVE  /\ k = ChunksFor(n) /\ k \in Nat \ {0} /\ k <= n
           /\ (k - 1) * ChunkBytes < n /\ n <= k * ChunkBytes
<1>1. k \in Nat \ {0} /\ (k - 1) * ChunkBytes < n /\ n <= k * ChunkBytes
  BY SizesAreThere, CutsNeeded DEF CutsOf
<1>2. k = ChunksFor(n)
  <2>1. ChunksFor(n) = Max({1, k})
    BY DEF ChunksFor, CutsOf
  <2>2. Max({1, k}) = k
    BY <1>1 DEF Max
  <2> QED
    BY <2>1, <2>2
<1>3. k <= n
  <2>1. k - 1 \in Nat /\ 1 * (k - 1) <= ChunkBytes * (k - 1)
    BY <1>1, SizesAreThere, TimesGrows
  <2>2. PICK q \in Nat : q = (k - 1) * ChunkBytes /\ q = ChunkBytes * (k - 1)
    BY <1>1, <2>1, SizesAreThere
  <2>3. k - 1 <= q /\ q < n
    BY <1>1, <2>1, <2>2
  <2> QED
    BY <1>1, <2>2, <2>3
<1> QED
  BY <1>1, <1>2, <1>3

LEMMA ChunksGrow ==
    ASSUME NEW m \in Nat \ {0}, NEW n \in Nat \ {0}, m <= n
    PROVE  ChunksFor(m) \in Nat /\ ChunksFor(n) \in Nat /\ ChunksFor(m) <= ChunksFor(n)
<1>1. PICK j, k : j = CutsOf(m, ChunkBytes) /\ k = CutsOf(n, ChunkBytes)
  OBVIOUS
<1>2. /\ j = ChunksFor(m) /\ j \in Nat \ {0} /\ (j - 1) * ChunkBytes < m
      /\ k = ChunksFor(n) /\ k \in Nat \ {0} /\ n <= k * ChunkBytes
  BY <1>1, ChunksCounted
<1>3. ASSUME j > k PROVE FALSE
  <2>1. k \in Nat /\ j - 1 \in Nat /\ k <= j - 1
    BY <1>2, <1>3
  <2>2. k * ChunkBytes \in Nat /\ k * ChunkBytes <= (j - 1) * ChunkBytes
    BY <2>1, SizesAreThere, TimesGrows
  <2>3. (j - 1) * ChunkBytes \in Nat
    BY <2>1, SizesAreThere
  <2> QED
    BY <1>2, <2>2, <2>3
<1> QED
  BY <1>2, <1>3

LEMMA SlicesAreCuts == ASSUME NEW n PROVE Slices(n) = Cut(n, ChunkBytes)
BY DEF Slices, Cut, Slice

\* What the page plans for a file, as a number of slices.
LEMMA OpenPlanned ==
    ASSUME NEW n \in Nat \ {0}
    PROVE  \E k : /\ k = CutsOf(n, ChunkBytes)
                  /\ OpenPlan(n) = [enc |-> FALSE, plain |-> n, size |-> n, chunks |-> k]
<1>1. PICK k, slices, sealed : IsCut(n, ChunkBytes, 0, 0, k, slices, sealed)
  BY SizesAreThere, CutFile
<1>2. k = CutsOf(n, ChunkBytes) /\ slices = Slices(n) /\ Len(slices) = k
  BY <1>1, SlicesAreCuts DEF IsCut
<1> QED
  BY <1>2 DEF OpenPlan, OpenPieces

LEMMA ClosedPlanned ==
    ASSUME NEW n \in Nat \ {0}, NEW header \in Nat
    PROVE  \E k : /\ k = CutsOf(n, ChunkBytes)
                  /\ ClosedPlan(n, header) =
                         [enc |-> TRUE, plain |-> n, chunks |-> k + 1,
                          size |-> PreambleBytes + header + TagBytes + n + k * TagBytes]
<1>1. PICK first \in Nat : first = PreambleBytes + header + TagBytes
  BY SizesAreThere
<1>2. PICK k, slices, sealed : IsCut(n, ChunkBytes, TagBytes, first, k, slices, sealed)
  BY SizesAreThere, CutFile
<1>3. /\ k = CutsOf(n, ChunkBytes) /\ slices = Slices(n) /\ sealed = Tagged(first, slices, TagBytes)
      /\ Len(sealed) = k + 1 /\ Total(sealed) = first + n + k * TagBytes
  BY <1>2, SlicesAreCuts DEF IsCut
<1>4. ClosedPieces(n, header) = sealed
  BY <1>1, <1>3 DEF ClosedPieces, Tagged
<1> QED
  BY <1>1, <1>3, <1>4 DEF ClosedPlan

\* An open file's plan is refused for its size or not at all.
LEMMA OpenPlansAreRead ==
    ASSUME NEW n \in Nat \ {0}
    PROVE  LET p == OpenPlan(n)
           IN  /\ ~p.enc /\ p.plain = n
               /\ PlanVerdict(p) \in {"ok", "too big"} /\ (PlanVerdict(p) = "ok" <=> n <= OpenMax)
               /\ BeginAccepts(p)
<1>1. PICK k : /\ k = CutsOf(n, ChunkBytes)
               /\ OpenPlan(n) = [enc |-> FALSE, plain |-> n, size |-> n, chunks |-> k]
  BY OpenPlanned
<1>2. k = ChunksFor(n) /\ k \in Nat \ {0} /\ k <= n /\ n <= k * ChunkBytes
  BY <1>1, ChunksCounted
<1>3. PICK p : p = OpenPlan(n) /\ p.enc = FALSE /\ p.plain = n /\ p.size = n /\ p.chunks = k
  BY <1>1
<1>4. BeginAccepts(p)
  <2>1. ChunkBytes * k \in Nat /\ ChunkBytes * k <= MaxChunkBytes * k
    BY <1>2, SizesAreThere, TimesGrows DEF MaxChunkBytes
  <2>2. ChunkBytes * k = k * ChunkBytes /\ MaxChunkBytes * k = k * MaxChunkBytes
    BY <1>2, SizesAreThere DEF MaxChunkBytes
  <2>3. PICK a \in Nat, b \in Nat : a = k * ChunkBytes /\ b = k * MaxChunkBytes
    BY <1>2, SizesAreThere DEF MaxChunkBytes
  <2>4. n <= a /\ a <= b
    BY <1>2, <2>1, <2>2, <2>3
  <2> QED
    BY <1>2, <1>3, <2>3, <2>4 DEF BeginAccepts
<1>5. PlanVerdict(p) = IF n > OpenMax THEN "too big" ELSE "ok"
  <2>1. ~(p.size < 1) /\ ~(p.chunks < 1) /\ ~(n < 1) /\ p.chunks = ChunksFor(n) + 0
    BY <1>2, <1>3
  <2> QED
    BY <1>3, <2>1 DEF PlanVerdict
<1>6. PlanVerdict(p) \in {"ok", "too big"} /\ (PlanVerdict(p) = "ok" <=> n <= OpenMax)
  <2>1. n > OpenMax <=> ~(n <= OpenMax)
    BY SizesAreThere
  <2> QED
    BY <1>5, <2>1, Zenon
<1> QED
  BY <1>3, <1>4, <1>6

\* Nor is a closed file's, whose header fits in what the server allows for one.
LEMMA ClosedPlansAreRead ==
    ASSUME NEW n \in Nat \ {0}, NEW header \in Nat, header + TagBytes <= MaxHeader
    PROVE  LET p == ClosedPlan(n, header)
           IN  /\ p.enc /\ p.plain = n
               /\ PlanVerdict(p) \in {"ok", "too big"} /\ (PlanVerdict(p) = "ok" <=> n <= ClosedMax)
               /\ BeginAccepts(p)
<1>1. PICK k : /\ k = CutsOf(n, ChunkBytes)
               /\ ClosedPlan(n, header) =
                      [enc |-> TRUE, plain |-> n, chunks |-> k + 1,
                       size |-> PreambleBytes + header + TagBytes + n + k * TagBytes]
  BY ClosedPlanned
<1>2. k = ChunksFor(n) /\ k \in Nat \ {0} /\ k <= n /\ n <= k * ChunkBytes
  BY <1>1, ChunksCounted
<1>3. PICK t \in Nat : t = k * TagBytes
  BY <1>2, SizesAreThere
<1>4. PICK p : /\ p = ClosedPlan(n, header) /\ p.enc = TRUE /\ p.plain = n /\ p.chunks = k + 1
               /\ p.size = PreambleBytes + header + TagBytes + n + t
  BY <1>1, <1>3
<1>5. p.size \in Nat /\ p.size > n
  BY <1>4, SizesAreThere
<1>6. BeginAccepts(p)
  <2>1. PICK c \in Nat : c = ChunkBytes + ChunkSlack /\ c = MaxChunkBytes
    BY SizesAreThere DEF MaxChunkBytes
  <2>2. PICK a \in Nat, s \in Nat : /\ a = k * ChunkBytes /\ s = k * ChunkSlack
                                    /\ (k + 1) * c = a + s + c
    BY <1>2, <2>1, SizesAreThere
  <2>3. TagBytes * k <= ChunkSlack * k
    BY <1>2, SizesAreThere, TimesGrows
  <2>4. t <= s
    <3>1. TagBytes * k = t /\ ChunkSlack * k = s
      BY <1>2, <1>3, <2>2, SizesAreThere
    <3> QED
      BY <2>3, <3>1
  <2>5. p.size <= a + s + c
    BY <1>2, <1>4, <2>1, <2>2, <2>4, SizesAreThere
  <2>6. p.chunks * MaxChunkBytes = a + s + c
    BY <1>4, <2>1, <2>2
  <2> QED
    BY <1>2, <1>4, <1>5, <2>1, <2>2, <2>5, <2>6 DEF BeginAccepts
<1>7. p.size <= ClosedFileCeiling(n, ChunksFor(n))
  BY <1>2, <1>3, <1>4, SizesAreThere DEF ClosedFileCeiling
<1>8. PlanVerdict(p) = IF n > ClosedMax THEN "too big" ELSE "ok"
  <2>1. /\ ~(p.size < 1) /\ ~(p.chunks < 1) /\ ~(n < 1)
        /\ ~(p.size > ClosedFileCeiling(n, ChunksFor(n)))
    <3>1. ClosedFileCeiling(n, ChunksFor(n)) \in Nat
      BY <1>2, <1>3, SizesAreThere DEF ClosedFileCeiling
    <3> QED
      BY <1>2, <1>4, <1>5, <1>7, <3>1
  <2>2. p.chunks = ChunksFor(n) + 1
    BY <1>2, <1>4
  <2> QED
    BY <1>4, <2>1, <2>2 DEF PlanVerdict
<1>9. PlanVerdict(p) \in {"ok", "too big"} /\ (PlanVerdict(p) = "ok" <=> n <= ClosedMax)
  <2>1. n > ClosedMax <=> ~(n <= ClosedMax)
    BY SizesAreThere
  <2> QED
    BY <1>8, <2>1, Zenon
<1> QED
  BY <1>4, <1>6, <1>9

\* What gets in fits under the ceiling of the largest file.
LEMMA AcceptedPlansFit ==
    ASSUME NEW p \in Plans, PlanVerdict(p) = "ok"
    PROVE  LET limit == IF p.enc THEN ClosedMax ELSE OpenMax
           IN  p.size <= ClosedFileCeiling(limit, ChunksFor(limit))
<1>1. p.enc \in BOOLEAN /\ p.plain \in Int /\ p.size \in Int /\ p.chunks \in Int
  BY RelayAssumption
<1>2. PICK data, limit :
          /\ data = IF p.enc THEN p.plain ELSE p.size
          /\ limit = IF p.enc THEN ClosedMax ELSE OpenMax
  OBVIOUS
<1>3. /\ ~(data < 1) /\ ~(data > limit)
      /\ p.enc => ~(p.size > ClosedFileCeiling(data, ChunksFor(data)))
  BY <1>2 DEF PlanVerdict
<1>4. data \in Nat \ {0} /\ limit \in Nat \ {0} /\ data <= limit
  BY <1>1, <1>2, <1>3, SizesAreThere
<1>5. PICK j \in Nat, k \in Nat : j = ChunksFor(data) /\ k = ChunksFor(limit) /\ j <= k
  BY <1>4, ChunksGrow
<1>6. PICK s \in Nat, t \in Nat : s = j * TagBytes /\ t = k * TagBytes /\ s <= t
  BY <1>5, SizesAreThere, TimesGrows
<1>7. /\ ClosedFileCeiling(data, ChunksFor(data)) = PreambleBytes + MaxHeader + data + s
      /\ ClosedFileCeiling(limit, ChunksFor(limit)) = PreambleBytes + MaxHeader + limit + t
  BY <1>5, <1>6 DEF ClosedFileCeiling
<1>8. p.size <= PreambleBytes + MaxHeader + limit + t
  <2>1. CASE p.enc
    BY <1>1, <1>3, <1>4, <1>6, <1>7, <2>1, SizesAreThere
  <2>2. CASE ~p.enc
    BY <1>1, <1>2, <1>4, <1>6, <2>2, SizesAreThere
  <2> QED
    BY <2>1, <2>2
<1> QED
  BY <1>2, <1>7, <1>8

\* What start_upload answers a plan.
Answers(p, status) ==
    \/ PlanVerdict(p) = "too big" /\ status = 413
    \/ PlanVerdict(p) \notin {"ok", "too big"} /\ status = 400
    \/ PlanVerdict(p) = "ok" /\ status \in {201, 429, 503}
    \/ PlanVerdict(p) = "ok" /\ ~BeginAccepts(p) /\ status = 400

LEMMA SmallNumbers ==
    ASSUME NEW limit \in Nat, NEW n \in 1 .. limit + 1
    PROVE  n \in Nat \ {0}
OBVIOUS

LEMMA HeadersFit ==
    ASSUME NEW header \in 0 .. MaxHeader - TagBytes
    PROVE  header \in Nat /\ header + TagBytes <= MaxHeader
BY SizesAreThere

LEMMA TooBigIsNoOther == 413 \notin {201, 429, 503}
OBVIOUS

LEMMA TheVerdictDecides ==
    ASSUME NEW p, NEW status, Answers(p, status), BeginAccepts(p),
           PlanVerdict(p) \in {"ok", "too big"}
    PROVE  status \in {201, 429, 503} <=> PlanVerdict(p) = "ok"
<1>1. CASE PlanVerdict(p) = "too big"
  <2>1. status = 413
    BY <1>1 DEF Answers
  <2> QED
    BY <1>1, <2>1, TooBigIsNoOther
<1>2. CASE PlanVerdict(p) = "ok"
  BY <1>2 DEF Answers
<1> QED
  BY <1>1, <1>2

LEMMA PlansAreWithin ==
    ASSUME NEW p \in Plans, NEW status, Answers(p, status)
    PROVE  FilesWithinLimit(p, status)
<1>1. status = 201 => PlanVerdict(p) = "ok"
  BY DEF Answers
<1>2. ASSUME BeginAccepts(p), PlanVerdict(p) \in {"ok", "too big"}
      PROVE  status \in {201, 429, 503} <=> PlanVerdict(p) = "ok"
  BY ZenonT(20), <1>2, TheVerdictDecides
<1>3. ASSUME p \in PagePlans
      PROVE  status \in {201, 429, 503} <=> p.plain <= IF p.enc THEN ClosedMax ELSE OpenMax
  <2>1. ASSUME NEW n \in 1 .. OpenMax + 1, p = OpenPlan(n)
        PROVE  status \in {201, 429, 503} <=> p.plain <= IF p.enc THEN ClosedMax ELSE OpenMax
    <3>1. n \in Nat \ {0}
      BY SizesAreThere, SmallNumbers
    <3>2. /\ ~p.enc /\ p.plain = n /\ BeginAccepts(p)
          /\ PlanVerdict(p) \in {"ok", "too big"} /\ (PlanVerdict(p) = "ok" <=> n <= OpenMax)
      BY <2>1, <3>1, OpenPlansAreRead
    <3> QED
      BY ZenonT(20), <1>2, <3>2
  <2>2. ASSUME NEW n \in 1 .. ClosedMax + 1, NEW header \in 0 .. MaxHeader - TagBytes,
               p = ClosedPlan(n, header)
        PROVE  status \in {201, 429, 503} <=> p.plain <= IF p.enc THEN ClosedMax ELSE OpenMax
    <3>1. n \in Nat \ {0} /\ header \in Nat /\ header + TagBytes <= MaxHeader
      BY SizesAreThere, SmallNumbers, HeadersFit
    <3>2. /\ p.enc /\ p.plain = n /\ BeginAccepts(p)
          /\ PlanVerdict(p) \in {"ok", "too big"} /\ (PlanVerdict(p) = "ok" <=> n <= ClosedMax)
      BY <2>2, <3>1, ClosedPlansAreRead
    <3> QED
      BY ZenonT(20), <1>2, <3>2
  <2> QED
    BY <1>3, <2>1, <2>2 DEF PagePlans
<1> QED
  BY <1>1, <1>3, AcceptedPlansFit DEF FilesWithinLimit

LEMMA LimitsStay == LimitsHold /\ [Next]_vars => LimitsHold'
<1> SUFFICES ASSUME LimitsHold, [Next]_vars PROVE LimitsHold'
  OBVIOUS
<1>1. CASE UNCHANGED last
  BY <1>1 DEF LimitsHold
<1>2. CASE last'.at \notin {"text", "upload"}
  BY <1>2 DEF LimitsHold
<1>3. ASSUME NEW r \in TextRequests, NEW status, TextsWithinLimit(r, status),
             last' = [at |-> "text", request |-> r, status |-> status]
      PROVE  LimitsHold'
  BY <1>3 DEF LimitsHold
<1>4. ASSUME NEW p \in Plans, NEW status, FilesWithinLimit(p, status), UploadAnswer(p, status)
      PROVE  LimitsHold'
  BY <1>4 DEF LimitsHold, UploadAnswer
<1>5. CASE UNCHANGED vars
  BY <1>1, <1>5 DEF vars
<1>6. CASE HandleText
  <2>1. ASSUME NEW r \in TextRequests, RefuseText(r) PROVE LimitsHold'
    BY <1>3, <2>1, TextsAreWithin DEF RefuseText
  <2>2. ASSUME NEW r \in TextRequests, NEW x \in Texts,
               PutRefused(x, r) \/ \E h \in Handlers : PickForText(h, x, r)
        PROVE  LimitsHold'
    <3>1. PICK status \in {201, 503} :
              TextStatus(r) = 201 /\ last' = [at |-> "text", request |-> r, status |-> status]
      BY <2>2 DEF PutRefused, PickForText
    <3> QED
      BY <1>3, <3>1, TextsAreWithin
  <2>3. ASSUME NEW h \in Handlers, PutText(h) PROVE LimitsHold'
    BY <1>1, <2>3 DEF PutText
  <2> QED
    BY <1>6, <2>1, <2>2, <2>3 DEF HandleText
<1>7. CASE HandleTake
  <2>0. ASSUME NEW due, NEW found, NEW status, TakeAnswer(due, found, status)
        PROVE  last'.at \notin {"text", "upload"}
    BY <2>0 DEF TakeAnswer
  <2>1. ASSUME NEW h \in Handlers, TakeFile(h) PROVE last'.at \notin {"text", "upload"}
    <3>1. \E due, found, status : TakeAnswer(due, found, status)
      BY ZenonT(30), <2>1 DEF TakeFile
    <3> QED
      BY <2>0, <3>1
  <2>2. ASSUME NEW h \in Handlers, NEW s \in Spelled, TakeText(h, s)
        PROVE  last'.at \notin {"text", "upload"} \/ UNCHANGED last
    BY <2>0, <2>2 DEF TakeText
  <2> QED
    BY <1>1, <1>2, <1>7, <2>1, <2>2 DEF HandleTake
<1>8. CASE HandleUpload
  <2>1. ASSUME NEW p \in Plans, RefuseUpload(p) PROVE LimitsHold'
    <3>1. PICK status : /\ status = IF PlanVerdict(p) = "too big" THEN 413 ELSE 400
                        /\ UploadAnswer(p, status) /\ PlanVerdict(p) # "ok"
      BY ZenonT(30), <2>1 DEF RefuseUpload
    <3>2. Answers(p, status)
      <4>1. CASE PlanVerdict(p) = "too big"
        <5>1. status = 413
          BY <3>1, <4>1
        <5> QED
          BY <4>1, <5>1 DEF Answers
      <4>2. CASE PlanVerdict(p) # "too big"
        <5>1. status = 400 /\ PlanVerdict(p) \notin {"ok", "too big"}
          BY <3>1, <4>2
        <5> QED
          BY <5>1 DEF Answers
      <4> QED
        BY <4>1, <4>2
    <3> QED
      <4>1. FilesWithinLimit(p, status)
        BY ZenonT(30), <3>2, PlansAreWithin
      <4> QED
        BY ZenonT(30), <1>4, <3>1, <4>1
  <2>2. ASSUME NEW p \in Plans, NEW ip \in IPs, UploadBusy(p, ip) PROVE LimitsHold'
    <3>1. DiskError(p) \/ \E status : UploadAnswer(p, status) /\ Answers(p, status)
      BY <2>2 DEF UploadBusy, Answers
    <3>2. CASE DiskError(p)
      BY <1>2, <3>2 DEF DiskError
    <3> QED
      BY <1>4, <3>1, <3>2, PlansAreWithin
  <2>3. ASSUME NEW p \in Plans, NEW ip \in IPs, NEW x \in Files, StartUpload(x, p, ip)
        PROVE  LimitsHold'
    <3>1. UploadAnswer(p, 201) /\ Answers(p, 201)
      BY <2>3 DEF StartUpload, Reserves, Answers
    <3> QED
      BY <1>4, <3>1, PlansAreWithin
  <2>4. ASSUME NEW x \in Files, RefuseDone(x) PROVE last'.at = "done"
    BY <2>4 DEF RefuseDone, DoneAnswer
  <2>5. ASSUME NEW h \in Handlers, FinishUpload(h) PROVE last'.at = "done"
    BY <2>5 DEF FinishUpload, DoneAnswer
  <2>6. ASSUME NEW x \in Files,
               WriteChunks(x) \/ \E h \in Handlers, ip \in IPs : PickForFile(h, x, ip)
        PROVE  UNCHANGED last
    BY <2>6 DEF WriteChunks, PickForFile
  <2>7. ASSUME NEW p \in Plans, NEW ip \in IPs, NEW x \in Files, UploadTouchRaises(x, p, ip)
        PROVE  LimitsHold'
    BY <1>2, <2>7 DEF UploadTouchRaises, DiskError
  <2> QED
    BY <1>1, <1>2, <1>8, <2>1, <2>2, <2>3, <2>4, <2>5, <2>6, <2>7 DEF HandleUpload
<1>9. CASE HandleDownload
  <2>1. ASSUME NEW x \in Files, NEW header \in Headers, DownloadFile(x, header)
        PROVE  last'.at \notin {"text", "upload"}
    BY <2>1 DEF DownloadFile
  <2>2. RefuseDownload => last'.at \notin {"text", "upload"}
    BY DEF RefuseDownload, None
  <2> QED
    BY <1>1, <1>2, <1>9, <2>1, <2>2 DEF HandleDownload, CompleteDownload
<1>10. CASE Time
  BY <1>1, <1>10 DEF Time, Sweep, Expire, DropUpload, SlotAges
<1> QED
  BY <1>5, <1>6, <1>7, <1>8, <1>9, <1>10 DEF Next

\* The visible limit is the limit in both modes, for every limit and every size of chunk:
\* what the page sends of a text or a file within it is never refused for its size or its
\* shape, what is over it never gets in, and nothing gets in that is over the ceiling of
\* the largest (create_throw, start_upload, begin, tdSlice, plan).
THEOREM OneLimitHolds == Spec => OneLimit
<1>1. Init => LimitsHold
  BY DEF Init, LimitsHold, None
<1>2. Spec => []LimitsHold
  BY <1>1, LimitsStay, PTL DEF Spec
<1>3. LimitsHold' =>
          /\ last'.at = "text" => TextsWithinLimit(last'.request, last'.status)
          /\ last'.at = "upload" => FilesWithinLimit(last'.plan, last'.status)
  BY DEF LimitsHold
<1> QED
  BY <1>2, <1>3, PTL DEF OneLimit

--------------------------------------------------------------------------------
(* Takes find what they are meant for.                                     *)

\* take_throw looks for what the author of a spelling meant.
Understood == \A s \in Spelled : Canonical(s.raw) = s.meant

\* Between the two steps of a take nothing joins or leaves its file's code, but it may lapse.
DueIsAFile(s) ==
    s.at = "not a text" =>
        /\ s.code \in Places /\ files[s.code] \notin over \union {Nobody} => s.due = files[s.code]
        /\ s.due \notin over \union {Nobody} => s.code \in Places /\ files[s.code] = s.due

DueIsGiven ==
    last.at = "take" =>
        \/ last.status = 200 /\ last.found = last.due
        \/ last.status = 404 /\ last.due \in over \union {Nobody}

TakesHold == (\A h \in Handlers : DueIsAFile(stretch[h])) /\ DueIsGiven

\* A step of something else leaves a take that is under way as it is.
LEMMA TakesAreLeftAlone ==
    ASSUME RelayInv, TakesHold, over \subseteq over',
           \A h \in Handlers : stretch'[h] # stretch[h] => stretch'[h].at # "not a text",
           LoopIsFree \/ UNCHANGED files \/ \A h \in Handlers : stretch'[h].at # "not a text",
           UNCHANGED last \/ last'.at # "take"
    PROVE  TakesHold'
<1>1. DueIsGiven'
  BY ZenonT(30) DEF TakesHold, DueIsGiven
<1>2. Idle.at = "idle"
  BY DEF Idle
<1>3. ASSUME NEW h \in Handlers PROVE DueIsAFile(stretch[h])'
  <2>1. CASE stretch'[h].at # "not a text"
    BY <2>1 DEF DueIsAFile
  <2>2. CASE stretch'[h].at = "not a text"
    <3>1. stretch'[h] = stretch[h] /\ UNCHANGED files
      BY <1>2, <2>2 DEF LoopIsFree
    <3>2. DueIsAFile(stretch[h])
      BY DEF TakesHold
    <3> QED
      BY <3>1, <3>2 DEF DueIsAFile
  <2> QED
    BY <2>1, <2>2
<1> QED
  BY <1>1, <1>3 DEF TakesHold

LEMMA TakeTextAnswers ==
    ASSUME RelayInv, TakesHold, Understood,
           NEW h \in Handlers, NEW s \in Spelled, TakeText(h, s)
    PROVE  TakesHold'
<1> USE DEF RelayInv
<1>1. PICK c, due : c = Canonical(s.raw) /\ c = s.meant /\ due = Due(c)
  BY DEF Understood
<1>2. c \in Places \union {NoCode}
  BY <1>1, RelayAssumption
<1>3. LoopIsFree /\ UNCHANGED <<files, over>>
  BY DEF TakeText
<1>4. /\ due # Nobody =>
             due \in Throws \ over /\ c \in Places /\ (due = texts[c] \/ due = files[c])
      /\ c \in Places /\ texts[c] \notin over \union {Nobody} => due = texts[c]
      /\ c \in Places /\ files[c] \notin over \union {Nobody} => due = files[c]
  BY <1>1, DueIsUnderTheCode
<1>5. CASE c # NoCode /\ Purged(texts)[c] # Nobody
  <2>1. PICK found : found = Purged(texts)[c]
    OBVIOUS
  <2>2. last' = [at |-> "take", due |-> due, found |-> found, status |-> 200] /\ UNCHANGED stretch
    BY <1>1, <1>5, <2>1 DEF TakeText, TakeAnswer
  <2>3. found = due
    BY <1>2, <1>4, <1>5, <2>1 DEF Purged
  <2>4. last'.due = due /\ last'.found = found /\ last'.status = 200
    BY <2>2
  <2>5. \A g \in Handlers : stretch'[g] = Idle
    BY <1>3, <2>2 DEF LoopIsFree
  <2>6. Idle.at = "idle"
    BY DEF Idle
  <2> QED
    BY ZenonT(30), <2>3, <2>4, <2>5, <2>6 DEF TakesHold, DueIsGiven, DueIsAFile
<1>6. CASE ~(c # NoCode /\ Purged(texts)[c] # Nobody)
  <2>1. PICK t : t = [at |-> "not a text", code |-> c, due |-> due]
    OBVIOUS
  <2>2. stretch' = [stretch EXCEPT ![h] = t] /\ UNCHANGED last
    BY <1>1, <1>6, <2>1 DEF TakeText
  <2>3. c \in Places => texts[c] \in over \union {Nobody}
    BY <1>6, NoCodeIsNoPlace DEF Purged
  <2>4. t.code = c /\ t.due = due
    BY <2>1
  <2>5. DueIsAFile(t)'
    BY <1>3, <1>4, <2>3, <2>4 DEF DueIsAFile
  <2>6. \A g \in Handlers : stretch'[g] = IF g = h THEN t ELSE Idle
    BY <1>3, <2>2 DEF TypeOK, LoopIsFree
  <2>7. ASSUME NEW g \in Handlers PROVE DueIsAFile(stretch[g])'
    <3>1. Idle.at = "idle"
      BY DEF Idle
    <3> QED
      BY <2>5, <2>6, <3>1 DEF DueIsAFile
  <2> QED
    BY <1>3, <2>2, <2>7 DEF TakesHold, DueIsGiven
<1> QED
  BY <1>5, <1>6

LEMMA TakeFileAnswers ==
    ASSUME RelayInv, TakesHold, NEW h \in Handlers, TakeFile(h)
    PROVE  TakesHold'
<1> USE DEF RelayInv
<1>1. PICK c, due : c = stretch[h].code /\ due = stretch[h].due
  OBVIOUS
<1>2. c \in Places \union {NoCode} /\ stretch[h] # Idle /\ due \in Throws \union {Nobody}
  BY <1>1, StretchFields DEF TakeFile, TypeOK
<1>3. /\ c \in Places /\ files[c] \notin over \union {Nobody} => due = files[c]
      /\ due \notin over \union {Nobody} => c \in Places /\ files[c] = due
  BY <1>1 DEF TakeFile, TakesHold, DueIsAFile
<1>4. \A g \in Handlers : stretch'[g] = Idle
  BY <1>2, LastOneOut DEF TakeFile
<1>5. DueIsGiven'
  <2>1. CASE c # NoCode /\ Purged(files)[c] # Nobody
    <3>1. PICK found : found = Purged(files)[c]
      OBVIOUS
    <3>2. last' = [at |-> "take", due |-> due, found |-> found, status |-> 200]
      BY <1>1, <2>1, <3>1 DEF TakeFile, TakeAnswer
    <3>3. found = due
      BY <1>2, <1>3, <2>1, <3>1 DEF Purged
    <3>4. last'.due = due /\ last'.found = found /\ last'.status = 200
      BY <3>2
    <3> QED
      BY <3>3, <3>4 DEF DueIsGiven
  <2>2. CASE ~(c # NoCode /\ Purged(files)[c] # Nobody)
    <3>1. last' = [at |-> "take", due |-> due, found |-> Nobody, status |-> 404] /\ UNCHANGED over
      BY <1>1, <2>2 DEF TakeFile, TakeAnswer
    <3>2. due \in over \union {Nobody}
      BY <1>3, <2>2, NoCodeIsNoPlace DEF Purged
    <3>3. last'.due = due /\ last'.status = 404
      BY <3>1
    <3> QED
      BY <3>1, <3>2, <3>3 DEF DueIsGiven
  <2> QED
    BY <2>1, <2>2
<1>6. Idle.at = "idle"
  BY DEF Idle
<1> QED
  BY <1>4, <1>5, <1>6 DEF TakesHold, DueIsAFile

LEMMA EveryTakeAnswers ==
    ASSUME RelayInv, TakesHold, Understood, [Next]_vars
    PROVE  TakesHold'
<1> USE DEF RelayInv
<1> DEFINE Same == UNCHANGED <<stretch, over>>
<1>1. Idle.at = "idle"
  BY DEF Idle
<1>2. ASSUME Same, LoopIsFree \/ UNCHANGED files, UNCHANGED last \/ last'.at # "take"
      PROVE  TakesHold'
  BY <1>2, TakesAreLeftAlone
<1>3. ASSUME Same, UNCHANGED files, UNCHANGED last PROVE TakesHold'
  BY <1>2, <1>3
<1>4. CASE UNCHANGED vars
  BY <1>3, <1>4 DEF vars
<1>5. CASE HandleText
  <2>1. ASSUME NEW r, RefuseText(r) \/ \E x \in Texts : PutRefused(x, r)
        PROVE  LoopIsFree /\ Same /\ last'.at = "text"
    BY <2>1 DEF RefuseText, PutRefused
  <2>2. ASSUME NEW r, NEW h \in Handlers, NEW x \in Texts, PickForText(h, x, r) PROVE TakesHold'
    <3>1. LoopIsFree /\ UNCHANGED over /\ last'.at = "text"
      BY <2>2 DEF PickForText
    <3>2. PICK s : s.at = "putting" /\ stretch' = [stretch EXCEPT ![h] = s]
      <4>1. PICK c : stretch' = [stretch EXCEPT ![h] = [at |-> "putting", throw |-> x, code |-> c]]
        BY <2>2 DEF PickForText
      <4>2. [at |-> "putting", throw |-> x, code |-> c].at = "putting"
        OBVIOUS
      <4> QED
        BY <4>1, <4>2
    <3>3. \A g \in Handlers : stretch'[g] # stretch[g] => stretch'[g].at = "putting"
      BY <3>2 DEF TypeOK
    <3> QED
      BY <3>1, <3>3, TakesAreLeftAlone
  <2>3. ASSUME NEW h \in Handlers, PutText(h) PROVE TakesHold'
    <3>1. UNCHANGED <<files, over, last>> /\ stretch' = [stretch EXCEPT ![h] = Idle]
      BY <2>3 DEF PutText
    <3>2. \A g \in Handlers : stretch'[g] # stretch[g] => stretch'[g].at = "idle"
      BY <1>1, <3>1 DEF TypeOK
    <3> QED
      BY <3>1, <3>2, TakesAreLeftAlone
  <2> QED
    BY <1>2, <1>5, <2>1, <2>2, <2>3 DEF HandleText
<1>6. CASE HandleTake
  BY <1>6, TakeTextAnswers, TakeFileAnswers DEF HandleTake
<1>7. CASE HandleUpload
  <2>0. ASSUME NEW p, NEW status, UploadAnswer(p, status) \/ DiskError(p)
        PROVE  last'.at # "take"
    <3>1. CASE UploadAnswer(p, status)
      BY <3>1 DEF UploadAnswer
    <3>2. CASE DiskError(p)
      BY <3>2 DEF DiskError
    <3> QED
      BY <2>0, <3>1, <3>2
  <2>1. ASSUME NEW p, RefuseUpload(p) \/ \E ip \in IPs : UploadBusy(p, ip) PROVE TakesHold'
    <3>1. LoopIsFree /\ Same
      BY <2>1 DEF RefuseUpload, UploadBusy
    <3>2. last'.at # "take"
      <4>1. CASE RefuseUpload(p)
        BY ZenonT(30), <2>0, <4>1 DEF RefuseUpload
      <4>2. ASSUME NEW ip \in IPs, UploadBusy(p, ip) PROVE last'.at # "take"
        BY ZenonT(30), <2>0, <4>2 DEF UploadBusy
      <4> QED
        BY <2>1, <4>1, <4>2
    <3> QED
      BY <1>2, <3>1, <3>2
  <2>2. ASSUME NEW p, NEW ip, NEW x, StartUpload(x, p, ip) \/ UploadTouchRaises(x, p, ip)
        PROVE  TakesHold'
    <3>1. LoopIsFree /\ Same /\ last'.at # "take"
      BY <2>0, <2>2 DEF StartUpload, UploadTouchRaises, Reserves
    <3> QED
      BY <1>2, <3>1
  <2>3. ASSUME NEW x, WriteChunks(x) PROVE TakesHold'
    BY <1>3, <2>3 DEF WriteChunks
  <2>4. ASSUME NEW x, RefuseDone(x) PROVE TakesHold'
    <3>1. LoopIsFree /\ Same /\ last'.at = "done"
      BY <2>4 DEF RefuseDone, DoneAnswer
    <3> QED
      BY <1>2, <3>1
  <2>5. ASSUME NEW h \in Handlers, NEW x, NEW from, PickForFile(h, x, from) PROVE TakesHold'
    <3>1. LoopIsFree /\ UNCHANGED <<over, last>>
      BY <2>5 DEF PickForFile
    <3>2. PICK s : s.at = "filing" /\ stretch' = [stretch EXCEPT ![h] = s]
      <4>1. PICK c : stretch' = [stretch EXCEPT ![h] =
                        [at |-> "filing", throw |-> x, code |-> c, from |-> from]]
        BY <2>5 DEF PickForFile
      <4>2. [at |-> "filing", throw |-> x, code |-> c, from |-> from].at = "filing"
        OBVIOUS
      <4> QED
        BY <4>1, <4>2
    <3>3. \A g \in Handlers : stretch'[g] # stretch[g] => stretch'[g].at = "filing"
      BY <3>2 DEF TypeOK
    <3> QED
      BY <3>1, <3>3, TakesAreLeftAlone
  <2>6. ASSUME NEW h \in Handlers, FinishUpload(h) PROVE TakesHold'
    <3>1. /\ UNCHANGED over /\ last'.at = "done" /\ stretch[h] # Idle
          /\ stretch' = [stretch EXCEPT ![h] = Idle]
      BY <1>1, <2>6 DEF FinishUpload, DoneAnswer
    <3>2. \A g \in Handlers : stretch'[g] = Idle
      BY <3>1, LastOneOut
    <3> QED
      BY <1>1, <3>1, <3>2, TakesAreLeftAlone
  <2> QED
    BY <1>7, <2>1, <2>2, <2>3, <2>4, <2>5, <2>6 DEF HandleUpload
<1>8. CASE HandleDownload
  <2>1. ASSUME NEW x, CompleteDownload(x) PROVE TakesHold'
    BY <1>3, <2>1 DEF CompleteDownload
  <2>2. ASSUME NEW x, NEW header, DownloadFile(x, header) PROVE TakesHold'
    <3>1. LoopIsFree /\ Same /\ last'.at = "download"
      BY <2>2 DEF DownloadFile
    <3> QED
      BY <1>2, <3>1
  <2>3. ASSUME RefuseDownload PROVE TakesHold'
    <3>1. LoopIsFree /\ Same /\ last'.at = "nothing"
      BY <2>3 DEF RefuseDownload, None
    <3> QED
      BY <1>2, <3>1
  <2> QED
    BY <1>8, <2>1, <2>2, <2>3 DEF HandleDownload
<1>9. CASE Time
  <2>1. ASSUME Sweep PROVE TakesHold'
    BY <1>2, <2>1 DEF Sweep
  <2>2. ASSUME NEW x, Expire(x) PROVE TakesHold'
    <3>1. over \subseteq over' /\ UNCHANGED <<stretch, files, last>>
      BY <2>2 DEF Expire
    <3> QED
      BY <3>1, TakesAreLeftAlone
  <2>3. ASSUME NEW x, DropUpload(x) PROVE TakesHold'
    BY <1>3, <2>3 DEF DropUpload
  <2>4. ASSUME NEW ip, SlotAges(ip) PROVE TakesHold'
    BY <1>3, <2>4 DEF SlotAges
  <2> QED
    BY <1>9, <2>1, <2>2, <2>3, <2>4 DEF Time
<1> QED
  BY <1>4, <1>5, <1>6, <1>7, <1>8, <1>9 DEF Next

\* Whoever asks for a throw gets that throw, in any spelling of its code and from whichever
\* store it is in, whatever runs between the looks into the two; a miss means that it is
\* read, over, or never was (take_throw, normalize).
THEOREM ThrowsAreFoundAsMeant ==
    ASSUME \A s \in Spelled : Spells(s.raw, s.meant)
    PROVE  Spec => FoundAsMeant
<1>0. Understood
  BY SpellingsAreUnderstood, RelayAssumption DEF Understood
<1>1. Init => TakesHold
  <2>1. Idle.at = "idle" /\ None.at = "nothing"
    BY DEF Idle, None
  <2> QED
    BY <2>1 DEF Init, TakesHold, DueIsAFile, DueIsGiven
<1>2. RelayInv /\ TakesHold /\ [Next]_vars => TakesHold'
  BY <1>0, EveryTakeAnswers
<1>3. Spec => [](RelayInv /\ TakesHold)
  BY <1>1, <1>2, InitHolds, NextKeepsTheInvariant, PTL DEF Spec
<1>4. TakesHold' => (last'.at = "take" =>
          \/ last'.status = 200 /\ last'.found = last'.due
          \/ last'.status = 404 /\ last'.due \in over' \union {Nobody})
  BY DEF TakesHold, DueIsGiven
<1> QED
  BY <1>3, <1>4, PTL DEF FoundAsMeant
================================================================================
