------------------------------- MODULE Graph --------------------------------
(***************************************************************************)
(* The relation graph (index/graph.rs): growing adjacency lists, the packed*)
(* (CSR) arrays that queries read and that are rebuilt when a flag says so,*)
(* the traversals, and the file in which Engine::close keeps the graph and *)
(* from which Engine::open loads it.  Indices count from 1.                *)
(***************************************************************************)
EXTENDS Integers, SequencesExt

CONSTANTS
    Node,      \* node keys
    Relation,
    MaxEdges   \* bound: edges of the graph

VARIABLES
    idx_to_key, \* the keys in the order in which they were registered
    adj,        \* fwd_adj and bwd_adj: per node, its edges
    csr,        \* the packed arrays of both directions
    built

graphVars == << idx_to_key, adj, csr, built >>

Direction == {"forward", "backward"}

AnyRelation == "any"

-----------------------------------------------------------------------------
Edges(lists) == FlattenSeq(lists)

idx(keys, k) == CHOOSE i \in DOMAIN keys : keys[i] = k

WithNode(g, k) ==
    IF k \in ToSet(g.keys) THEN g
    ELSE [keys |-> Append(g.keys, k), adj |-> [d \in Direction |-> Append(g.adj[d], << >>)]]

WithEdge(g, src, dst, rel) ==
    LET h == WithNode(WithNode(g, src), dst)
        s == idx(h.keys, src)
        t == idx(h.keys, dst)
    IN  [h EXCEPT !.adj["forward"][s]  = Append(@, [dst |-> t, relation |-> rel]),
                  !.adj["backward"][t] = Append(@, [dst |-> s, relation |-> rel])]

Graph == [keys |-> idx_to_key, adj |-> adj]

EmptyGraph == [keys |-> << >>, adj |-> [d \in Direction |-> << >>]]

Install(g) == idx_to_key' = g.keys /\ adj' = g.adj

add_node(k) ==
    /\ k \notin ToSet(idx_to_key)
    /\ Install(WithNode(Graph, k))
    /\ built' = FALSE
    /\ UNCHANGED csr

add_edge(src, dst, rel) ==
    /\ Len(Edges(adj["forward"])) < MaxEdges
    /\ Install(WithEdge(Graph, src, dst, rel))
    /\ built' = FALSE
    /\ UNCHANGED csr

(***************************************************************************)
(* build: the row of node i is dst[ptr[i] + 1 .. ptr[i + 1]].              *)
(***************************************************************************)
Pack(lists) ==
    [ptr  |-> [i \in 1 .. Len(lists) + 1 |-> Len(Edges(SubSeq(lists, 1, i - 1)))],
     edge |-> Edges(lists)]

Row(packed, i) == SubSeq(packed.edge, packed.ptr[i] + 1, packed.ptr[i + 1])

build ==
    /\ ~built
    /\ csr' = [d \in Direction |-> Pack(adj[d])]
    /\ built' = TRUE
    /\ UNCHANGED << idx_to_key, adj >>

(***************************************************************************)
(* neighbours, bfs and dfs read the packed arrays.                         *)
(***************************************************************************)
Followed(packed, i, filter) ==
    SelectSeq(Row(packed, i), LAMBDA e : filter \in {AnyRelation, e.relation})

Visited(results) == {results[j].node : j \in DOMAIN results}

Discover(packed, at, filter, seen) ==
    FoldLeft(LAMBDA found, e :
                IF e.dst \in seen \cup Visited(found) THEN found
                ELSE Append(found, [node |-> e.dst, depth |-> at.depth + 1]),
             << >>, Followed(packed, at.node, filter))

\* Faulty: expands the nodes at the depth limit too.
RECURSIVE bfs_loopDeeper(_, _, _, _, _)
bfs_loopDeeper(packed, max_depth, filter, queue, results) ==
    IF queue = << >> THEN results
    ELSE LET found == IF Head(queue).depth > max_depth THEN << >>
                      ELSE Discover(packed, Head(queue), filter, Visited(results))
         IN  bfs_loopDeeper(packed, max_depth, filter, Tail(queue) \o found, results \o found)

RECURSIVE bfs_loop(_, _, _, _, _)
bfs_loop(packed, max_depth, filter, queue, results) ==
    IF queue = << >> THEN results
    ELSE LET found == IF Head(queue).depth >= max_depth THEN << >>
                      ELSE Discover(packed, Head(queue), filter, Visited(results))
         IN  bfs_loop(packed, max_depth, filter, Tail(queue) \o found, results \o found)

bfs(packed, start, max_depth, filter) ==
    LET first == << [node |-> start, depth |-> 0] >>
    IN  bfs_loop(packed, max_depth, filter, first, first)

RECURSIVE dfs_loop(_, _, _, _, _)
dfs_loop(packed, max_depth, filter, stack, results) ==
    IF stack = << >> THEN results
    ELSE LET at     == Last(stack)
             seen   == Visited(results) \cup {at.node}
             onward == IF at.depth >= max_depth THEN << >>
                       ELSE SelectSeq(Followed(packed, at.node, filter), LAMBDA e : e.dst \notin seen)
             pushed == [j \in DOMAIN onward |-> [node |-> onward[j].dst, depth |-> at.depth + 1]]
         IN  IF at.node \in Visited(results)
             THEN dfs_loop(packed, max_depth, filter, Front(stack), results)
             ELSE dfs_loop(packed, max_depth, filter, Front(stack) \o pushed, Append(results, at))

dfs(packed, start, max_depth, filter) ==
    dfs_loop(packed, max_depth, filter, << [node |-> start, depth |-> 0] >>, << >>)

-----------------------------------------------------------------------------
(***************************************************************************)
(* serialize writes the keys and the forward edges, source by source, each *)
(* list after its length; deserialize reads everything before it adds it   *)
(* again in that order, and fails at the end of the data.                  *)
(***************************************************************************)
Triples(g) ==
    FlattenSeq(FlattenSeq([s \in DOMAIN g.keys |->
        [j \in DOMAIN g.adj["forward"][s] |->
            << s, g.adj["forward"][s][j].dst, g.adj["forward"][s][j].relation >>]]))

serialize(g) ==
    << "GRPH", Len(g.keys) >> \o g.keys \o << Len(Edges(g.adj["forward"])) >> \o Triples(g)

\* Faulty: does not look for the end of the edges.
CompleteKeys(words) == Len(words) >= 2 /\ Len(words) >= 3 + words[2]

Complete(words) ==
    /\ Len(words) >= 2
    /\ Len(words) >= 3 + words[2]
    /\ Len(words) >= 3 + words[2] + 3 * words[3 + words[2]]

deserialize(words) ==
    LET keys  == SubSeq(words, 3, 2 + words[2])
        at    == 3 + words[2]
        nodes == FoldLeft(WithNode, EmptyGraph, keys)
    IN  FoldLeft(LAMBDA g, i : WithEdge(g, keys[words[at + 3 * i - 2]], keys[words[at + 3 * i - 1]],
                                        words[at + 3 * i]),
                 nodes, [i \in 1 .. words[at] |-> i])

(***************************************************************************)
(* open starts with an empty graph if the file is missing or damaged.      *)
(***************************************************************************)
Opened(words) ==
    /\ Install(IF Complete(words) THEN deserialize(words) ELSE EmptyGraph)
    /\ csr' = [d \in Direction |-> Pack(<< >>)]
    /\ built' = FALSE

(***************************************************************************)
(* A close that ends and an open; and a close that a crash cuts short: it  *)
(* overwrites the file in place.  (A crash at another time brings back the *)
(* graph of the last close, which close_and_open reaches as well; so the   *)
(* file needs no variable.)                                                *)
(***************************************************************************)
close_and_open == Opened(serialize(Graph))

crash_in_close ==
    LET words == serialize(Graph)
    IN  \E n \in 0 .. Len(words) - 1 : idx_to_key # << >> /\ Opened(SubSeq(words, 1, n))

Init ==
    /\ idx_to_key = << >> /\ adj = [d \in Direction |-> << >>]
    /\ csr = [d \in Direction |-> Pack(<< >>)] /\ built = FALSE

Next ==
    \/ \E k \in Node : add_node(k)
    \/ \E src, dst \in Node, rel \in Relation : add_edge(src, dst, rel)
    \/ build \/ close_and_open \/ crash_in_close

Spec == Init /\ [][Next]_graphVars

-----------------------------------------------------------------------------
(***************************************************************************)
(* The nodes at most n edges away, by repeated steps along the adjacency   *)
(* lists.                                                                  *)
(***************************************************************************)
Successors(lists, nodes, filter) ==
    {e.dst : e \in {x \in ToSet(Edges([j \in DOMAIN lists |->
                            IF j \in nodes THEN lists[j] ELSE << >>])) :
                        filter \in {AnyRelation, x.relation}}}

Within(lists, start, filter) ==
    LET ball[n \in 0 .. Len(lists)] ==
            IF n = 0 THEN {start}
            ELSE ball[n - 1] \cup Successors(lists, ball[n - 1], filter)
    IN  ball

(***************************************************************************)
(* TraversalsExact: as soon as the built flag is set, bfs returns each node*)
(* within the depth limit exactly once and with its distance, in either    *)
(* direction and with any filter; dfs returns some of these nodes, never   *)
(* at a smaller depth, and all of them when the limit does not cut.        *)
(***************************************************************************)
Exact(lists, packed, start, max_depth, filter) ==
    LET ball == Within(lists, start, filter)
        b    == bfs(packed, start, max_depth, filter)
        d    == dfs(packed, start, max_depth, filter)
    IN  /\ Len(b) = Cardinality(Visited(b))
        /\ Len(d) = Cardinality(Visited(d))
        /\ Visited(b) = ball[max_depth]
        /\ \A j \in DOMAIN b : b[j].depth > 0 => b[j].node \notin ball[b[j].depth - 1]
        /\ \A j \in DOMAIN d : d[j].depth <= max_depth /\ d[j].node \in ball[d[j].depth]
        /\ max_depth = Len(lists) => Visited(d) = Visited(b)

TraversalsExact ==
    built => \A d \in Direction, start \in DOMAIN idx_to_key, filter \in Relation \cup {AnyRelation} :
                \A max_depth \in 0 .. Len(idx_to_key) :
                    Exact(adj[d], csr[d], start, max_depth, filter)

(***************************************************************************)
(* DirectionsAgree: what neighbours finds backward is what it finds        *)
(* forward from the other end, edge by edge, also after the graph was      *)
(* loaded from its file.                                                   *)
(***************************************************************************)
Count(lists, from, to, rel) ==
    Cardinality({j \in DOMAIN lists[from] : lists[from][j] = [dst |-> to, relation |-> rel]})

DirectionsAgree ==
    \A s, t \in DOMAIN idx_to_key, rel \in Relation :
        Count(adj["forward"], s, t, rel) = Count(adj["backward"], t, s, rel)

(***************************************************************************)
(* CloseKeepsGraph: close and open give back the same nodes and, node by   *)
(* node, the same edges in the same order; a close that is cut short       *)
(* leaves no graph, never a part of one.                                   *)
(***************************************************************************)
CloseKeepsGraph ==
    LET words == serialize(Graph)
    IN  /\ deserialize(words).keys = idx_to_key
        /\ deserialize(words).adj["forward"] = adj["forward"]
        /\ \A n \in 0 .. Len(words) - 1 : ~Complete(SubSeq(words, 1, n))
=============================================================================
