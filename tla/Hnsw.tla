-------------------------------- MODULE Hnsw --------------------------------
(***************************************************************************)
(* The vector index (index/hnsw.rs): a graph with layers, searched by beam *)
(* search from an entry point on its top layer.  A vector is a direction   *)
(* in the plane, one of Turn equally spaced angles; the angle between two  *)
(* directions orders pairs as the cosine distance does.  A vector of       *)
(* another dimension or of length zero is rejected: NoDirection.  The      *)
(* random level of a node is chosen freely; the code stops at 16.  Nodes   *)
(* are numbered from 1, layers from 0.                                     *)
(***************************************************************************)
EXTENDS Integers, SequencesExt

CONSTANTS
    Turn,       \* number of directions
    m,          \* connections per node and layer
    ef_build, ef_search,
    MaxLevel,   \* bound: level of a node; 16 in the code
    MaxNodes    \* bound: vectors added

VARIABLES
    nodes,        \* sequence of [vector, neighbours]
    entry_point,  \* 0 if there is none
    entry_level

hnswVars == << nodes, entry_point, entry_level >>

-----------------------------------------------------------------------------
Direction == 0 .. Turn - 1

NoDirection == Turn

m0 == 2 * m

m_max(lyr) == IF lyr = 0 THEN m0 ELSE m

cosine_dist(a, b) == Min({(a - b) % Turn, (b - a) % Turn})

Level(g, n) == Len(g[n].neighbours) - 1

get_layer_neighbours(g, n, lyr) ==
    IF lyr <= Level(g, n) THEN g[n].neighbours[lyr + 1] ELSE << >>

(***************************************************************************)
(* Candidates are pairs of a distance and a node; heaps order them by both,*)
(* sort_by by the distance alone.                                          *)
(***************************************************************************)
Candidate(g, q, n) == << cosine_dist(g[n].vector, q), n >>

Smaller(a, b) == a[1] < b[1] \/ (a[1] = b[1] /\ a[2] < b[2])

Nearest(cands) == CHOOSE c \in cands : \A d \in cands : d = c \/ Smaller(c, d)

Worst(cands) == CHOOSE c \in cands : \A d \in cands : d = c \/ Smaller(d, c)

(***************************************************************************)
(* The order of equal distances is that of a heap's array: either way.     *)
(***************************************************************************)
Sorted(cands, upward) ==
    SetToSortSeq(cands, LAMBDA a, b : a[1] < b[1] \/ (a[1] = b[1] /\ (a[2] < b[2] <=> upward)))

-----------------------------------------------------------------------------
(***************************************************************************)
(* search_layer_node and search_layer_vec: the best ef nodes that the beam *)
(* search meets.  s holds the visited nodes and the two heaps.             *)
(***************************************************************************)
Visit(g, q, ef, s, nb) ==
    LET c    == Candidate(g, q, nb)
        seen == s.visited \cup {nb}
        more == s.results \cup {c}
    IN  IF nb \in s.visited THEN s
        ELSE IF c[1] < Worst(s.results)[1] \/ Cardinality(s.results) < ef
        THEN [visited |-> seen, cands |-> s.cands \cup {c},
              results |-> IF Cardinality(more) > ef THEN more \ {Worst(more)} ELSE more]
        ELSE [s EXCEPT !.visited = seen]

RECURSIVE Expand(_, _, _, _, _)
Expand(g, q, ef, lyr, s) ==
    IF s.cands = {} THEN s.results
    ELSE LET c == Nearest(s.cands)
         IN  IF c[1] > Worst(s.results)[1] /\ Cardinality(s.results) >= ef THEN s.results
             ELSE Expand(g, q, ef, lyr,
                         FoldLeft(LAMBDA t, nb : Visit(g, q, ef, t, nb),
                                  [s EXCEPT !.cands = @ \ {c}],
                                  get_layer_neighbours(g, c[2], lyr)))

search_layer(g, q, ep, ef, lyr) ==
    LET first == {Candidate(g, q, ep)}
    IN  Expand(g, q, ef, lyr, [visited |-> {ep}, cands |-> first, results |-> first])

\* From layer high down to layer low with a beam of one.
RECURSIVE Descend(_, _, _, _, _)
Descend(g, q, ep, high, low) ==
    IF high < low THEN ep
    ELSE Descend(g, q, Nearest(search_layer(g, q, ep, 1, high))[2], high - 1, low)

(***************************************************************************)
(* A candidate is selected if no selected one is nearer to it than the     *)
(* query is.                                                               *)
(***************************************************************************)
select_neighbours_heuristic(g, query, cands, max) ==
    FoldLeft(LAMBDA selected, c :
                IF /\ c[2] # query /\ Len(selected) < max
                   /\ \A sv \in ToSet(selected) : cosine_dist(g[c[2]].vector, g[sv].vector) >= c[1]
                THEN Append(selected, c[2]) ELSE selected,
             << >>, cands)

prune(g, n, lyr, upward) ==
    select_neighbours_heuristic(g, n,
        Sorted({Candidate(g, g[n].vector, nb) : nb \in ToSet(get_layer_neighbours(g, n, lyr))}, upward),
        m_max(lyr))

\* Faulty: the link leads only one way.
LinkOneWay(g, nb, new, lyr, upward) == g

\* Faulty: the list of the other node is never pruned.
LinkUnpruned(g, nb, new, lyr, upward) ==
    [g EXCEPT ![nb].neighbours[lyr + 1] = Append(@, new)]

\* The link back from nb, which is on that layer itself.
Link(g, nb, new, lyr, upward) ==
    LET linked == [g EXCEPT ![nb].neighbours[lyr + 1] = Append(@, new)]
    IN  IF Len(linked[nb].neighbours[lyr + 1]) <= m_max(lyr) THEN linked
        ELSE [linked EXCEPT ![nb].neighbours[lyr + 1] = prune(linked, nb, lyr, upward)]

RECURSIVE InsertFrom(_, _, _, _, _)
InsertFrom(g, new, ep, lyr, upward) ==
    IF lyr < 0 THEN g
    ELSE LET cands    == Sorted(search_layer(g, g[new].vector, ep, ef_build, lyr), upward)
             selected == select_neighbours_heuristic(g, new, cands, m_max(lyr))
             chosen   == [g EXCEPT ![new].neighbours[lyr + 1] = selected]
         IN  InsertFrom(FoldLeft(LAMBDA h, nb : Link(h, nb, new, lyr, upward), chosen, selected),
                        new, cands[1][2], lyr - 1, upward)

-----------------------------------------------------------------------------
WithNode(v, level) ==
    Append(nodes, [vector |-> v, neighbours |-> << << >> >> \o [l \in 1 .. level |-> << >>]])

add_first(v, level) ==
    /\ entry_point = 0 /\ v # NoDirection
    /\ nodes' = WithNode(v, level)
    /\ entry_point' = 1 /\ entry_level' = level

add(v, level, upward) ==
    LET g   == WithNode(v, level)
        ep  == Descend(g, v, entry_point, entry_level, level + 1)
    IN  /\ entry_point # 0 /\ v # NoDirection
        /\ Len(nodes) < MaxNodes
        /\ nodes' = InsertFrom(g, Len(g), ep, Min({level, entry_level}), upward)
        /\ entry_point' = IF level > entry_level THEN Len(g) ELSE entry_point
        /\ entry_level' = Max({level, entry_level})

(***************************************************************************)
(* search and search_with_ef: the nodes of the answer, nearest first.      *)
(***************************************************************************)
search_with_ef(q, k, ef, upward) ==
    IF nodes = << >> \/ k = 0 \/ q = NoDirection THEN << >>
    ELSE LET ep    == Descend(nodes, q, entry_point, entry_level, 1)
             cands == Sorted(search_layer(nodes, q, ep, Max({ef, k}), 0), upward)
         IN  SubSeq(cands, 1, Min({k, Len(cands)}))

search(q, k, upward) == search_with_ef(q, k, ef_search, upward)

-----------------------------------------------------------------------------
(***************************************************************************)
(* serialize: the file as a sequence of words, each list after its length. *)
(***************************************************************************)
Footer == (IF entry_point = 0 THEN << 0 >> ELSE << 1, entry_point >>) \o << entry_level >>

serialize ==
    << "HNSW", m, ef_build, ef_search, Len(nodes) >>
    \o FlattenSeq([n \in DOMAIN nodes |->
         << nodes[n].vector, Len(nodes[n].neighbours) >>
         \o FlattenSeq([l \in DOMAIN nodes[n].neighbours |->
              << Len(nodes[n].neighbours[l]) >> \o nodes[n].neighbours[l]])])
    \o Footer

Eof == [at |-> 0]

RECURSIVE ReadLayers(_, _, _, _)
ReadLayers(words, at, left, layers) ==
    IF left = 0 THEN [at |-> at, read |-> layers]
    ELSE IF at > Len(words) THEN Eof
    ELSE IF at + words[at] > Len(words) THEN Eof
    ELSE ReadLayers(words, at + 1 + words[at], left - 1,
                    Append(layers, SubSeq(words, at + 1, at + words[at])))

RECURSIVE ReadNodes(_, _, _, _)
ReadNodes(words, at, left, read) ==
    IF left = 0 THEN [at |-> at, read |-> read]
    ELSE IF at + 1 > Len(words) THEN Eof
    ELSE LET layers == ReadLayers(words, at + 2, words[at + 1], << >>)
         IN  IF layers = Eof THEN Eof
             ELSE ReadNodes(words, layers.at, left - 1,
                            Append(read, [vector |-> words[at], neighbours |-> layers.read]))

deserialize(words) ==
    LET g  == IF Len(words) < 5 THEN Eof ELSE ReadNodes(words, 6, words[5], << >>)
        ep == IF g = Eof \/ g.at > Len(words) THEN Eof
              ELSE IF words[g.at] # 1 THEN [at |-> g.at + 1, read |-> 0]
              ELSE IF g.at + 1 > Len(words) THEN Eof
              ELSE [at |-> g.at + 2, read |-> words[g.at + 1]]
    IN  IF ep = Eof \/ ep.at > Len(words) THEN Eof
        ELSE [nodes |-> g.read, entry_point |-> ep.read, entry_level |-> words[ep.at]]

-----------------------------------------------------------------------------
Init == nodes = << >> /\ entry_point = 0 /\ entry_level = 0

Next ==
    \E v \in Direction, level \in 0 .. MaxLevel :
        \/ add_first(v, level)
        \/ \E upward \in BOOLEAN : add(v, level, upward)

Spec == Init /\ [][Next]_hnswVars

-----------------------------------------------------------------------------
(***************************************************************************)
(* Layered: a link of a layer leads to another node of that layer, once; a *)
(* list is never longer than m (2m on layer 0), however often it was linked*)
(* back to; the entry point is on the top layer and no node is higher.     *)
(***************************************************************************)
Layered ==
    /\ \A n \in DOMAIN nodes, l \in 0 .. MaxLevel :
        LET list == get_layer_neighbours(nodes, n, l)
        IN  /\ Len(list) <= m_max(l) /\ IsInjective(list)
            /\ \A nb \in ToSet(list) : nb \in DOMAIN nodes \ {n} /\ Level(nodes, nb) >= l
    /\ \A n \in DOMAIN nodes : Level(nodes, n) <= Level(nodes, entry_point)
    /\ nodes # << >> => Level(nodes, entry_point) = entry_level

(***************************************************************************)
(* SearchExact: as long as no list of layer 0 can have been pruned, that is*)
(* up to 2m + 1 vectors, a search whose beam is as wide as the index       *)
(* returns the k nearest vectors, nearest first.                           *)
(***************************************************************************)
SearchExact ==
    (nodes # << >> /\ Len(nodes) <= m0 + 1) =>
        \A q \in Direction, k \in 1 .. Len(nodes) :
            LET found == search_with_ef(q, k, Len(nodes), TRUE)
                dists == [i \in DOMAIN found |-> found[i][1]]
                all   == SetToSortSeq({Candidate(nodes, q, n) : n \in DOMAIN nodes}, Smaller)
            IN  /\ IsInjective(found)
                /\ dists = [i \in 1 .. k |-> all[i][1]]

(***************************************************************************)
(* FileExact: the file is read back as it was, and a file that is cut short*)
(* anywhere is refused as a whole.                                         *)
(***************************************************************************)
FileExact ==
    /\ deserialize(serialize) = [nodes |-> nodes, entry_point |-> entry_point, entry_level |-> entry_level]
    /\ \A n \in 0 .. Len(serialize) - 1 : deserialize(SubSeq(serialize, 1, n)) = Eof
=============================================================================
