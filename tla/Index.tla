------------------------------- MODULE Index --------------------------------
(***************************************************************************)
(* The text indices behind Engine (index/bm25.rs, index/fuzzy.rs and the   *)
(* manager of both, index/manager.rs), fed by writes and, after a restart, *)
(* by the replay of the log (Engine::open).  The tokens of a document are  *)
(* its key and the words of its value; module Text models the tokenizer,   *)
(* so a term is its own number here.  BM25 scores are not modelled: what   *)
(* depends on them is the order of the hits, which is left open.           *)
(***************************************************************************)
EXTENDS Integers, SequencesExt

CONSTANTS
    Key,      \* keys, which are terms as well
    Word,     \* words of values
    MaxLog    \* bound: records of the log

VARIABLES
    docs,          \* document number -> key, or Removed
    key_to_doc,    \* key -> document number
    postings,      \* term -> sequence of [doc, tf]
    df,            \* term -> number of documents counted
    doc_len,       \* document number -> tokens
    total_doc_len, active_docs,
    symbols,       \* the fuzzy index
    live,          \* the live records: key -> value
    log,           \* records of the write-ahead log
    replayed       \* the first documents, made by the last replay

bm25Vars == << docs, key_to_doc, postings, df, doc_len, total_doc_len, active_docs >>
indexVars == << bm25Vars, symbols, live, log, replayed >>

Term == Key \cup Word

Value == {<< >>} \cup {<< w >> : w \in Word} \cup {<< w, w >> : w \in Word}

Removed == "removed"

Plan == INSTANCE Planner

-----------------------------------------------------------------------------
(***************************************************************************)
(* The keyword index as a record, so that writes can follow one another.   *)
(***************************************************************************)
Bm25 == [docs |-> docs, key_to_doc |-> key_to_doc, postings |-> postings, df |-> df,
         doc_len |-> doc_len, total |-> total_doc_len, active |-> active_docs]

EmptyBm25 == [docs |-> << >>, key_to_doc |-> << >>, postings |-> [t \in Term |-> << >>],
              df |-> [t \in Term |-> 0], doc_len |-> << >>, total |-> 0, active |-> 0]

Install(b) ==
    /\ docs' = b.docs /\ key_to_doc' = b.key_to_doc /\ postings' = b.postings /\ df' = b.df
    /\ doc_len' = b.doc_len /\ total_doc_len' = b.total /\ active_docs' = b.active

Tokens(k, v) == << k >> \o v

Tf(tokens, t) == Len(SelectSeq(tokens, LAMBDA x : x = t))

add_document_direct(b, k, v) ==
    LET tokens == Tokens(k, v)
        id     == Len(b.docs) + 1
    IN  [docs       |-> Append(b.docs, k),
         key_to_doc |-> [x \in DOMAIN b.key_to_doc \cup {k} |-> IF x = k THEN id ELSE b.key_to_doc[x]],
         postings   |-> [t \in Term |-> IF Tf(tokens, t) = 0 THEN b.postings[t]
                                        ELSE Append(b.postings[t], [doc |-> id, tf |-> Tf(tokens, t)])],
         df         |-> [t \in Term |-> b.df[t] + (IF Tf(tokens, t) = 0 THEN 0 ELSE 1)],
         doc_len    |-> Append(b.doc_len, Len(tokens)),
         total      |-> b.total + Len(tokens),
         active     |-> b.active + 1]

saturating_sub(x, y) == Max({0, x - y})

\* Faulty: forgets to take the length of the document off the total.
remove_documentLong(b, k) ==
    IF k \notin DOMAIN b.key_to_doc THEN b
    ELSE LET id == b.key_to_doc[k]
         IN  [b EXCEPT !.key_to_doc = [x \in DOMAIN @ \ {k} |-> @[x]],
                       !.docs[id] = Removed, !.doc_len[id] = 0,
                       !.active = saturating_sub(@, 1)]

\* The postings and their counts stay.
remove_document(b, k) ==
    IF k \notin DOMAIN b.key_to_doc THEN b
    ELSE LET id == b.key_to_doc[k]
         IN  [b EXCEPT !.key_to_doc = [x \in DOMAIN @ \ {k} |-> @[x]],
                       !.docs[id] = Removed, !.doc_len[id] = 0,
                       !.total = saturating_sub(@, b.doc_len[id]),
                       !.active = saturating_sub(@, 1)]

on_put_bm25(b, k, v) ==
    add_document_direct(IF k \in DOMAIN b.key_to_doc THEN remove_document(b, k) ELSE b, k, v)

-----------------------------------------------------------------------------
Record(k, v, deleted) == [key |-> k, value |-> v, deleted |-> deleted]

(***************************************************************************)
(* Engine::put (and what every other write does per record) and            *)
(* Engine::delete, as far as the indices are concerned.                    *)
(***************************************************************************)
put(k, v) ==
    /\ Len(log) < MaxLog
    /\ log' = Append(log, Record(k, v, FALSE))
    /\ live' = [x \in DOMAIN live \cup {k} |-> IF x = k THEN v ELSE live[x]]
    /\ Install(on_put_bm25(Bm25, k, v))
    /\ symbols' = Append(symbols, k)
    /\ UNCHANGED replayed

delete(k) ==
    /\ Len(log) < MaxLog
    /\ log' = Append(log, Record(k, << >>, TRUE))
    /\ live' = [x \in DOMAIN live \ {k} |-> live[x]]
    /\ Install(remove_document(Bm25, k))
    /\ UNCHANGED << symbols, replayed >>

(***************************************************************************)
(* Engine::open after a crash or a close: every record with a value adds a *)
(* document; a record without one, a tombstone or an empty value, touches  *)
(* no index.                                                               *)
(***************************************************************************)
Replayed(records) == SelectSeq(records, LAMBDA r : r.value # << >>)

After(records) ==
    FoldLeft(LAMBDA m, r : IF r.value = << >> THEN [x \in DOMAIN m \ {r.key} |-> m[x]]
                           ELSE [x \in DOMAIN m \cup {r.key} |-> IF x = r.key THEN r.value ELSE m[x]],
             << >>, records)

open ==
    LET records == Replayed(log)
    IN  /\ Install(FoldLeft(LAMBDA b, r : add_document_direct(b, r.key, r.value), EmptyBm25, records))
        /\ symbols' = [i \in DOMAIN records |-> records[i].key]
        /\ live' = After(log)
        /\ replayed' = Len(records)
        /\ UNCHANGED log

-----------------------------------------------------------------------------
(***************************************************************************)
(* Bm25Index::search: the documents that a search for terms touches.       *)
(***************************************************************************)
\* Faulty: does not skip removed documents.
TouchedRemoved(terms) ==
    {p.doc : p \in UNION {ToSet(postings[t]) : t \in terms}}

Touched(terms) ==
    {d \in {p.doc : p \in UNION {ToSet(postings[t]) : t \in terms}} : docs[d] # Removed}

search(terms) == {docs[d] : d \in Touched(terms)}

(***************************************************************************)
(* IndexManager::query for the name of a key: the keyword hits and, as the *)
(* name is a symbol, the fuzzy ones, with every symbol taken for near.     *)
(***************************************************************************)
ByName == [text |-> TRUE, symbol |-> TRUE, short |-> TRUE, vector |-> FALSE, relations |-> FALSE]

Listed(step, k) ==
    IF step = "Bm25" THEN [i \in 1 .. Cardinality(Touched({k})) |-> docs[SetToSeq(Touched({k}))[i]]]
    ELSE SelectSeq(symbols, LAMBDA s : s = k) \o SelectSeq(symbols, LAMBDA s : s # k)

query(k, top_k) ==
    LET steps == Plan!plan(ByName)
        lists == [n \in DOMAIN steps |-> SubSeq(Listed(steps[n], k), 1, Min({2 * top_k, Len(Listed(steps[n], k))}))]
    IN  {SubSeq(m, 1, Min({top_k, Len(m)})) : m \in Plan!merge_rrf(SelectSeq(lists, LAMBDA l : l # << >>))}

(***************************************************************************)
(* UmpHandler::handle_query: the hits in the namespace of the query (those *)
(* of members) with their present values, or no value if they have none.   *)
(***************************************************************************)
handle_query(members, k, top_k) ==
    {[i \in DOMAIN hits |-> [key |-> hits[i],
                             value |-> IF hits[i] \in DOMAIN live THEN live[hits[i]] ELSE << >>]] :
        hits \in {SelectSeq(answer, LAMBDA x : x \in members) : answer \in query(k, top_k)}}

Init ==
    /\ docs = << >> /\ key_to_doc = << >> /\ postings = [t \in Term |-> << >>]
    /\ df = [t \in Term |-> 0] /\ doc_len = << >> /\ total_doc_len = 0 /\ active_docs = 0
    /\ symbols = << >> /\ live = << >> /\ log = << >> /\ replayed = 0

Next ==
    \/ \E k \in Key : delete(k) \/ \E v \in Value : put(k, v)
    \/ open

Spec == Init /\ [][Next]_indexVars

-----------------------------------------------------------------------------
(***************************************************************************)
(* CountersExact: the numbers that scores are computed from agree with the *)
(* documents after any mixture of writes and restarts: active_docs and     *)
(* total_doc_len count the documents that are not removed, so that neither *)
(* saturating subtraction ever saturates; a term is counted in df once per *)
(* posting and at most once per document, so that the logarithm in the     *)
(* score is positive; and a key that is indexed has a document of its own. *)
(***************************************************************************)
CountersExact ==
    LET kept == {d \in DOMAIN docs : docs[d] # Removed}
    IN  /\ active_docs = Cardinality(kept)
        /\ total_doc_len = FoldLeft(LAMBDA sum, n : sum + n, 0, doc_len)
        /\ \A t \in Term : /\ df[t] = Len(postings[t])
                           /\ IsInjective([i \in DOMAIN postings[t] |-> postings[t][i].doc])
                           /\ df[t] <= Len(docs)
        /\ \A k \in DOMAIN key_to_doc : docs[key_to_doc[k]] = k

(***************************************************************************)
(* SearchFollowsWrites: a search for any token of a live record finds its  *)
(* key, before and after restarts; what else it finds comes from documents *)
(* that the last replay made: a document of a later write is found only    *)
(* while it is its key's record.                                           *)
(***************************************************************************)
SearchFollowsWrites ==
    /\ \A k \in DOMAIN live : \A t \in ToSet(Tokens(k, live[k])) : k \in search({t})
    /\ \A t \in Term : \A d \in Touched({t}) :
        d > replayed => docs[d] \in DOMAIN live /\ t \in ToSet(Tokens(docs[d], live[docs[d]]))

(***************************************************************************)
(* QueryFindsName: a query for the name of a live record has it among the  *)
(* answers, whatever the order of equal scores and however often it and    *)
(* others were written, if top_k has room for all different keys, those of *)
(* other namespaces too: they are dropped after the cut.                   *)
(***************************************************************************)
QueryFindsName ==
    \A k \in DOMAIN live, members \in SUBSET Key, top_k \in 1 .. Cardinality(Key) :
        k \in members /\ top_k >= Cardinality(ToSet(symbols)) =>
            \A answer \in handle_query(members, k, top_k) : Contains(answer, [key |-> k, value |-> live[k]])
=============================================================================
