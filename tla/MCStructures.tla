---------------------------- MODULE MCStructures ----------------------------
(***************************************************************************)
(* The data structures and pure algorithms that TLC checks side by side: a *)
(* behaviour is one of the structure that kind names, and the variables of *)
(* the others stay as they were initially.                                 *)
(***************************************************************************)
EXTENDS Integers, SequencesExt, TLC

CONSTANTS n1, n2, n3, r1, r2

VARIABLES
    kind,
    root, len, snapRoot, snapLen,           \* Hamt
    entries, generation, call,              \* LruCache
    idx_to_key, adj, csr, built,            \* Graph
    nodes, entry_point, entry_level,        \* Hnsw
    data, watches,                          \* Records
    texts,                                  \* Text: two texts
    pageRecords                             \* Format: records to be written

hamtVars   == << root, len, snapRoot, snapLen >>
cacheVars  == << entries, generation, call >>
graphVars  == << idx_to_key, adj, csr, built >>
hnswVars   == << nodes, entry_point, entry_level >>
recordVars == << data, watches >>
inputVars  == << texts, pageRecords >>

-----------------------------------------------------------------------------
HashKeys == {0, 2, 4}

H == INSTANCE Hamt WITH
        Key <- HashKeys, Value <- {1, 2}, None <- 0, Hash <- [k \in HashKeys |-> k], BRANCHING <- 2

C == INSTANCE LruCache WITH
        Key <- {1, 2, 3}, Value <- {1, 2}, CAPACITY <- 2, MaxGeneration <- 4

G == INSTANCE Graph WITH Node <- {n1, n2, n3}, Relation <- {r1, r2}, MaxEdges <- 3

V == INSTANCE Hnsw WITH
        Turn <- 4, m <- 2, ef_build <- 2, ef_search <- 2, MaxLevel <- 1, MaxNodes <- 4

R == INSTANCE Records WITH
        LastByte <- 2, Registry <- 1, ClientKey <- {<< >>, << 0 >>, << 1 >>, << 1, 1 >>},
        Repo <- {<< 1 >>}, WatchId <- {1}, MaxCredit <- 2

T == INSTANCE Text

F == INSTANCE Format WITH KEY_LEN <- 2

Texts == BoundedSeq(T!Char, 3) \X BoundedSeq(T!Char, 2)

PageRecord == [key : {<< >>, << 0 >>, << 1 >>, << 0, 1 >>}, value : {<< >>, << 1 >>}, tombstone : BOOLEAN]

-----------------------------------------------------------------------------
Init ==
    /\ kind \in {"hamt", "cache", "graph", "hnsw", "records", "text", "format"}
    /\ H!Init /\ C!Init /\ G!Init /\ V!Init /\ R!Init
    /\ texts \in IF kind = "text" THEN Texts ELSE {<< << >>, << >> >>}
    /\ pageRecords \in IF kind = "format" THEN BoundedSeq(PageRecord, 3) ELSE {<< >>}

Next ==
    \/ /\ kind = "hamt" /\ H!Next
       /\ UNCHANGED << kind, cacheVars, graphVars, hnswVars, recordVars, inputVars >>
    \/ /\ kind = "cache" /\ C!Next
       /\ UNCHANGED << kind, hamtVars, graphVars, hnswVars, recordVars, inputVars >>
    \/ /\ kind = "graph" /\ G!Next
       /\ UNCHANGED << kind, hamtVars, cacheVars, hnswVars, recordVars, inputVars >>
    \/ /\ kind = "hnsw" /\ V!Next
       /\ UNCHANGED << kind, hamtVars, cacheVars, graphVars, recordVars, inputVars >>
    \/ /\ kind = "records" /\ R!Next
       /\ UNCHANGED << kind, hamtVars, cacheVars, graphVars, hnswVars, inputVars >>

vars == << kind, hamtVars, cacheVars, graphVars, hnswVars, recordVars, inputVars >>

Spec == Init /\ [][Next]_vars

(***************************************************************************)
(* The nodes and relations of the graph are only compared with each other. *)
(***************************************************************************)
Sym == Permutations({n1, n2, n3}) \cup Permutations({r1, r2})

-----------------------------------------------------------------------------
(***************************************************************************)
(* HamtIsMap: module Hamt implements module PersistentMap (Hamt!IsMap).    *)
(***************************************************************************)
HamtIsMap == H!IsMap

(***************************************************************************)
(* HamtWellFormed: bitmaps, paths and the length of the trie agree         *)
(* (Hamt!WellFormed).                                                      *)
(***************************************************************************)
HamtWellFormed == H!WellFormed

(***************************************************************************)
(* CacheIsLru: module LruCache implements module Recency (LruCache!IsLru). *)
(***************************************************************************)
CacheIsLru == C!IsLru

(***************************************************************************)
(* TraversalsExact: bfs finds shortest distances, dfs nothing else, and    *)
(* the edges are the same from both ends (Graph!TraversalsExact,           *)
(* Graph!DirectionsAgree).                                                 *)
(***************************************************************************)
TraversalsExact == G!TraversalsExact /\ G!DirectionsAgree

(***************************************************************************)
(* IndexFilesExact: the files that close writes for the graph and for the  *)
(* vectors are read back whole by open, and refused when a crash in close  *)
(* cut them short (Graph!CloseKeepsGraph, Hnsw!FileExact).                 *)
(***************************************************************************)
IndexFilesExact == G!CloseKeepsGraph /\ V!FileExact

(***************************************************************************)
(* Layered: the links of the vector index stay on their layer and within   *)
(* their limit (Hnsw!Layered).                                             *)
(***************************************************************************)
Layered == V!Layered

(***************************************************************************)
(* SearchExact: a small vector index is searched exactly                   *)
(* (Hnsw!SearchExact).                                                     *)
(***************************************************************************)
SearchExact == V!SearchExact

(***************************************************************************)
(* DeletesExact: a range delete that reports success is complete, and      *)
(* neither it nor the deletion of a namespace touches another namespace    *)
(* (Records!DeletesExact).                                                 *)
(***************************************************************************)
DeletesExact == R!DeletesExact

(***************************************************************************)
(* ScanPages: paging through a scan loses no record (Records!ScanPages).   *)
(***************************************************************************)
ScanPages == R!ScanPages

(***************************************************************************)
(* TokensExact: tokens by the loop are tokens by definition                *)
(* (Text!TokensExact).                                                     *)
(***************************************************************************)
TokensExact == T!TokensExact(texts[1], texts[2])

(***************************************************************************)
(* FuzzyExact: the bounded edit distance is the edit distance, and a symbol*)
(* of the same name is found first (Text!DistanceExact,                    *)
(* Text!SameNameFirst).                                                    *)
(***************************************************************************)
FuzzyExact == T!DistanceExact(texts[1], texts[2]) /\ T!SameNameFirst(texts[1], texts[2])

(***************************************************************************)
(* FormatsExact: a log is read back up to the first damage, a page whole or*)
(* not at all (Format!LogExact, Format!PageExact).                         *)
(***************************************************************************)
FormatsExact == F!LogExact(pageRecords) /\ F!PageExact(pageRecords)
=============================================================================
