------------------------------ MODULE Planner -------------------------------
(***************************************************************************)
(* The query planner (query/planner.rs): which indices a query consults,   *)
(* and how their answers are merged (reciprocal rank fusion).  A query is  *)
(* described by what it has; module Text models the test for symbols.      *)
(***************************************************************************)
EXTENDS Integers, SequencesExt

QuerySpec == [text : BOOLEAN, symbol : BOOLEAN, short : BOOLEAN, vector : BOOLEAN, relations : BOOLEAN]

If(condition, step) == IF condition THEN << step >> ELSE << >>

plan(q) ==
    LET first == If(q.relations, "Graph")
                 \o (IF q.text /\ q.symbol /\ q.short THEN << "Fuzzy", "Bm25" >>
                     ELSE If(q.text, "Bm25") \o If(q.vector, "Hnsw") \o If(q.text /\ q.symbol, "Fuzzy"))
    IN  first \o If(q.vector /\ ~Contains(first, "Hnsw"), "Hnsw")

(***************************************************************************)
(* The score 1 / (60 + rank) of a hit, as a multiple of 1 / Unit, which is *)
(* exact for lists of up to 5 hits.                                        *)
(***************************************************************************)
Unit == 61 * 62 * 63 * 32 * 65

Hits(lists) == FlattenSeq([n \in DOMAIN lists |->
                   [i \in DOMAIN lists[n] |-> [key |-> lists[n][i], score |-> Unit \div (60 + i)]]])

\* Faulty: a hit replaces the score of an earlier one.
ScoreLast(lists, key) ==
    FoldLeft(LAMBDA sum, hit : IF hit.key = key THEN hit.score ELSE sum, 0, Hits(lists))

Score(lists, key) ==
    FoldLeft(LAMBDA sum, hit : IF hit.key = key THEN sum + hit.score ELSE sum, 0, Hits(lists))

(***************************************************************************)
(* merge_rrf: the possible results.  Keys of the same score come in the    *)
(* order of a hash map.                                                    *)
(***************************************************************************)
merge_rrf(lists) ==
    LET keys == UNION {ToSet(lists[n]) : n \in DOMAIN lists}
    IN  {m \in SetToSeqs(keys) :
            \A i, j \in DOMAIN m : i < j => Score(lists, m[i]) >= Score(lists, m[j])}

-----------------------------------------------------------------------------
(***************************************************************************)
(* MergeFair: whatever the lists, a key that is ranked before another in   *)
(* every list that has the other comes first in the merged list too; every *)
(* key comes once.  A key that one list has several times (the fuzzy index *)
(* has a symbol as often as it was put) is an exception, but no list with  *)
(* distinct keys can make it worse.                                        *)
(***************************************************************************)
Place(list, key) == SelectInSeq(list, LAMBDA x : x = key)

MergeFair(lists) ==
    /\ merge_rrf(lists) # {}
    /\ \A m \in merge_rrf(lists), a, b \in UNION {ToSet(lists[n]) : n \in DOMAIN lists} :
        /\ IsInjective(m)
        /\ (/\ a # b
            /\ \A n \in DOMAIN lists :
                /\ IsInjective(lists[n])
                /\ Contains(lists[n], b) => Place(lists[n], a) \in 1 .. Place(lists[n], b))
           => Place(m, a) < Place(m, b)

(***************************************************************************)
(* PlanComplete: a plan consults no index twice; the graph, the vectors and*)
(* the keyword index exactly if the query has relations, a vector or text; *)
(* the fuzzy index if its text is also a symbol, however long.             *)
(***************************************************************************)
PlanComplete ==
    \A q \in QuerySpec :
        /\ IsInjective(plan(q))
        /\ ToSet(plan(q)) = {step \in {"Graph", "Hnsw", "Bm25", "Fuzzy"} :
                                CASE step = "Graph" -> q.relations
                                  [] step = "Hnsw"  -> q.vector
                                  [] step = "Bm25"  -> q.text
                                  [] step = "Fuzzy" -> q.text /\ q.symbol}
=============================================================================
