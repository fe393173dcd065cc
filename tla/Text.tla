-------------------------------- MODULE Text --------------------------------
(***************************************************************************)
(* The text algorithms of the indices, as operators on sequences of        *)
(* characters: the tokenizer (index/bm25.rs), the fuzzy matcher            *)
(* (index/fuzzy.rs) and the planner's test for symbols (query/planner.rs). *)
(* Four characters stand for their kinds: a small letter, its capital, a   *)
(* separator, and a letter outside ASCII, which takes two bytes.           *)
(***************************************************************************)
EXTENDS Integers, SequencesExt

Char == {"a", "A", "_", "w"}

is_ascii_uppercase(c) == c = "A"

is_ascii_lowercase(c) == c = "a"

is_ascii_alphanumeric(c) == c \in {"a", "A"}

to_ascii_lowercase(c) == IF c = "A" THEN "a" ELSE c

as_bytes(s) == FlattenSeq([i \in DOMAIN s |-> IF s[i] = "w" THEN << "w1", "w2" >> ELSE << s[i] >>])

ByteLen(s) == Len(as_bytes(s))

-----------------------------------------------------------------------------
(***************************************************************************)
(* tokenize, and the loop of add_document_direct.  buf is the token being  *)
(* read; prev the character before.                                        *)
(***************************************************************************)
Emit(s) == IF s.buf = << >> THEN s ELSE [s EXCEPT !.tokens = Append(@, s.buf), !.buf = << >>]

\* Faulty: no new token at a capital.
ScanPlain(s, c) ==
    [(IF is_ascii_alphanumeric(c)
      THEN [s EXCEPT !.buf = Append(@, to_ascii_lowercase(c)), !.in_token = TRUE]
      ELSE [(IF s.in_token THEN Emit(s) ELSE s) EXCEPT !.in_token = FALSE])
     EXCEPT !.prev = c]

Scan(s, c) ==
    LET t == IF is_ascii_uppercase(c) /\ s.in_token /\ is_ascii_lowercase(s.prev) THEN Emit(s) ELSE s
    IN  [(IF is_ascii_alphanumeric(c)
          THEN [t EXCEPT !.buf = Append(@, to_ascii_lowercase(c)), !.in_token = TRUE]
          ELSE [(IF t.in_token THEN Emit(t) ELSE t) EXCEPT !.in_token = FALSE])
         EXCEPT !.prev = c]

Scanner == [tokens |-> << >>, buf |-> << >>, in_token |-> FALSE, prev |-> "_"]

tokenize(text) == Emit(FoldLeft(Scan, Scanner, text)).tokens

\* add_document_direct: one list of tokens for the key and the value
DirectTokens(key_text, value_text) ==
    LET k == Emit(FoldLeft(Scan, Scanner, key_text))
        v == [k EXCEPT !.in_token = FALSE, !.prev = "_"]
    IN  Emit(FoldLeft(Scan, v, value_text)).tokens

-----------------------------------------------------------------------------
normalize(s) ==
    LET kept == SelectSeq(s, LAMBDA c : c # "_")
    IN  [i \in DOMAIN kept |-> to_ascii_lowercase(kept[i])]

trigrams(s) ==
    LET padded == << "#", "#" >> \o as_bytes(s) \o << "#", "#" >>
    IN  IF s = << >> THEN {} ELSE {SubSeq(padded, i, i + 2) : i \in 1 .. Len(padded) - 2}

(***************************************************************************)
(* levenshtein: row by row; lengths are compared in bytes, letters as      *)
(* characters.  The result is more than max if the distance is.            *)
(***************************************************************************)
Row(b, prev, c) ==
    LET curr[j \in 0 .. Len(b)] ==
            IF j = 0 THEN prev[0] + 1
            ELSE Min({prev[j] + 1, curr[j - 1] + 1, prev[j - 1] + (IF b[j] = c THEN 0 ELSE 1)})
    IN  curr

\* Faulty: gives up when the first column, not the whole row, is beyond max.
RowsHasty(a, b, max) ==
    FoldLeft(LAMBDA prev, c : IF prev[0] < 0 THEN prev
                              ELSE LET curr == Row(b, prev, c)
                                   IN  IF curr[0] > max THEN [j \in 0 .. Len(b) |-> -1] ELSE curr,
             [j \in 0 .. Len(b) |-> j], a)

Rows(a, b, max) ==
    FoldLeft(LAMBDA prev, c : IF prev[0] < 0 THEN prev
                              ELSE LET curr == Row(b, prev, c)
                                   IN  IF \A j \in 0 .. Len(b) : curr[j] > max
                                       THEN [j \in 0 .. Len(b) |-> -1] ELSE curr,
             [j \in 0 .. Len(b) |-> j], a)

levenshtein(s, t, max) ==
    LET a == IF ByteLen(s) > ByteLen(t) THEN t ELSE s
        b == IF ByteLen(s) > ByteLen(t) THEN s ELSE t
    IN  IF ByteLen(b) - ByteLen(a) > max THEN max + 1
        ELSE LET last == Rows(a, b, max) IN IF last[0] < 0 THEN max + 1 ELSE last[Len(b)]

(***************************************************************************)
(* query_with_max: the symbols that share a trigram with the query, best   *)
(* similarity first, at most limit of them; of these the ones within max,  *)
(* nearest first.  The similarity hits / union is compared by cross        *)
(* multiplication.                                                         *)
(***************************************************************************)
Similar(symbols, q, i) ==
    LET mine  == trigrams(normalize(symbols[i]))
        query == trigrams(normalize(q))
    IN  [hits |-> Cardinality(mine \cap query), union |-> Cardinality(mine \cup query)]

MoreSimilar(x, y) == x.hits * y.union > y.hits * x.union

Candidates(symbols, q, limit) ==
    LET hit    == {i \in DOMAIN symbols : Similar(symbols, q, i).hits > 0}
        Better(i, j) == \/ MoreSimilar(Similar(symbols, q, i), Similar(symbols, q, j))
                        \/ ~MoreSimilar(Similar(symbols, q, j), Similar(symbols, q, i)) /\ i < j
        sorted == SetToSortSeq(hit, Better)
    IN  SubSeq(sorted, 1, Min({limit, Len(sorted)}))

query_with_max(symbols, q, top_k, max, limit) ==
    LET Dist(i)  == levenshtein(normalize(q), normalize(symbols[i]), max)
        Exact(i) == symbols[i] = q
        Before(i, j) ==
            \/ Dist(i) < Dist(j)
            \/ Dist(i) = Dist(j) /\ Exact(i) /\ ~Exact(j)
            \/ /\ Dist(i) = Dist(j) /\ (Exact(i) <=> Exact(j))
               /\ \/ MoreSimilar(Similar(symbols, q, i), Similar(symbols, q, j))
                  \/ ~MoreSimilar(Similar(symbols, q, j), Similar(symbols, q, i)) /\ i < j
        near   == {i \in ToSet(Candidates(symbols, q, limit)) : Dist(i) <= max}
        sorted == SetToSortSeq(near, Before)
    IN  SubSeq(sorted, 1, Min({top_k, Len(sorted)}))

looks_symbol_like(text) ==
    \/ "_" \in ToSet(text)
    \/ /\ \A i \in DOMAIN text : is_ascii_alphanumeric(text[i])
       /\ \E i \in 2 .. Len(text) : is_ascii_uppercase(text[i]) /\ is_ascii_lowercase(text[i - 1])

-----------------------------------------------------------------------------
(***************************************************************************)
(* Tokens by positions: a token is a longest run of ASCII letters with no  *)
(* capital after a small letter inside.                                    *)
(***************************************************************************)
Run(text, i, j) ==
    /\ \A n \in i .. j : is_ascii_alphanumeric(text[n])
    /\ \A n \in i + 1 .. j : ~(is_ascii_uppercase(text[n]) /\ is_ascii_lowercase(text[n - 1]))

TokenStarts(text) ==
    {i \in DOMAIN text : is_ascii_alphanumeric(text[i]) /\ (i > 1 => ~Run(text, i - 1, i))}

TokenAt(text, i) ==
    LET end == Max({j \in i .. Len(text) : Run(text, i, j)})
    IN  [n \in 1 .. end - i + 1 |-> to_ascii_lowercase(text[i + n - 1])]

ReferenceTokens(text) ==
    LET starts == SetToSortSeq(TokenStarts(text), <)
    IN  [n \in DOMAIN starts |-> TokenAt(text, starts[n])]

(***************************************************************************)
(* The edit distance by its recursive definition.                          *)
(***************************************************************************)
Distance(a, b) ==
    LET d[i \in 0 .. Len(a), j \in 0 .. Len(b)] ==
            IF i = 0 THEN j ELSE IF j = 0 THEN i
            ELSE Min({d[i - 1, j] + 1, d[i, j - 1] + 1,
                      d[i - 1, j - 1] + (IF a[i] = b[j] THEN 0 ELSE 1)})
    IN  d[Len(a), Len(b)]

-----------------------------------------------------------------------------
(***************************************************************************)
(* TokensExact: tokenize cuts a text into its tokens, and what a document  *)
(* is indexed under are the tokens of its key and of its value, the ones   *)
(* that a search for either text looks up.                                 *)
(***************************************************************************)
TokensExact(s, t) ==
    /\ tokenize(s) = ReferenceTokens(s)
    /\ DirectTokens(s, t) = tokenize(s) \o tokenize(t)

(***************************************************************************)
(* DistanceExact: levenshtein is within max only if the edit distance is,  *)
(* and then is the edit distance; for ASCII texts it then always is.  (The *)
(* lengths are compared in bytes, so a letter outside ASCII can put a near *)
(* text out of reach.)                                                     *)
(***************************************************************************)
DistanceExact(s, t) ==
    \A max \in 0 .. 3 :
        LET d == levenshtein(s, t, max)
        IN  /\ d <= max => d = Distance(s, t)
            /\ Distance(s, t) <= max /\ "w" \notin ToSet(s \o t) => d <= max

(***************************************************************************)
(* SameNameFirst: if some symbol is the query but for case and separators, *)
(* the first answer is such a symbol, however few answers are kept, as long*)
(* as the candidates that are kept include all with the query's trigrams   *)
(* (repeated letters can give different names the same trigrams); and no   *)
(* answer is beyond the distance asked for.                                *)
(***************************************************************************)
SameNameFirst(s, t) ==
    \A q \in {s, t}, top_k, limit \in 1 .. 2, max \in 0 .. 1 :
        LET symbols == << s, t >>
            found   == query_with_max(symbols, q, top_k, max, limit)
            Same(i) == normalize(symbols[i]) = normalize(q)
            alike   == {i \in 1 .. 2 : trigrams(normalize(symbols[i])) = trigrams(normalize(q))}
        IN  /\ normalize(q) # << >> /\ Cardinality(alike) <= limit => found # << >> /\ Same(found[1])
            /\ \A i \in ToSet(found) : Distance(normalize(symbols[i]), normalize(q)) <= max
=============================================================================
