-------------------------------- MODULE Hamt --------------------------------
(***************************************************************************)
(* The hash array mapped trie (tx/hamt.rs).  A branch has a bitmap, here   *)
(* the set of its bits, and the dense sequence of its children.  A key     *)
(* follows the digits of its hash, the lowest first.  The hash is a        *)
(* parameter; different keys have different hashes (two keys with the same *)
(* 64-bit hash would make insert_node descend without end).                *)
(***************************************************************************)
EXTENDS Integers, SequencesExt

CONSTANTS
    Key, Value,
    None,      \* no value
    Hash,      \* the hash of every key
    BRANCHING  \* children of a branch (32 in the code)

VARIABLES
    root, len,          \* the map
    snapRoot, snapLen   \* a snapshot of it

hamtVars == << root, len, snapRoot, snapLen >>

-----------------------------------------------------------------------------
Nil == [kind |-> "nil"]

Leaf(k, v) == [kind |-> "leaf", key |-> k, value |-> v]

Branch(bitmap, children) == [kind |-> "branch", bitmap |-> bitmap, children |-> children]

bit_index(k, level) == (Hash[k] \div BRANCHING ^ level) % BRANCHING

(***************************************************************************)
(* The position of a bit in the dense sequence, counted from 1.            *)
(***************************************************************************)
\* Faulty: counts the bit itself.
sparse_indexShifted(bitmap, bit) ==
    LET n == Cardinality({b \in bitmap : b <= bit}) IN IF n = 0 THEN 1 ELSE n

sparse_index(bitmap, bit) == Cardinality({b \in bitmap : b < bit}) + 1

RECURSIVE get_node(_, _, _)
get_node(node, k, level) ==
    IF node = Nil THEN None
    ELSE IF node.kind = "leaf" THEN IF node.key = k THEN node.value ELSE None
    ELSE LET bit == bit_index(k, level)
         IN  IF bit \notin node.bitmap THEN None
             ELSE get_node(node.children[sparse_index(node.bitmap, bit)], k, level + 1)

RECURSIVE insert_node(_, _, _, _)
insert_node(node, k, v, level) ==
    LET bit == bit_index(k, level)
    IN  IF node = Nil \/ (node.kind = "leaf" /\ node.key = k) THEN Leaf(k, v)
        ELSE IF node.kind = "leaf" THEN
            LET old == bit_index(node.key, level)
            IN  IF old = bit THEN Branch({bit}, << insert_node(node, k, v, level + 1) >>)
                ELSE Branch({old, bit}, IF old < bit THEN << node, Leaf(k, v) >>
                                        ELSE << Leaf(k, v), node >>)
        ELSE LET idx == sparse_index(node.bitmap, bit)
             IN  IF bit \notin node.bitmap
                 THEN Branch(node.bitmap \cup {bit}, InsertAt(node.children, idx, Leaf(k, v)))
                 ELSE Branch(node.bitmap,
                             [node.children EXCEPT ![idx] = insert_node(@, k, v, level + 1)])

(***************************************************************************)
(* A branch that loses its only child disappears; a branch that keeps one  *)
(* child stays a branch.                                                   *)
(***************************************************************************)
RECURSIVE remove_node(_, _, _)
remove_node(node, k, level) ==
    IF node = Nil THEN Nil
    ELSE IF node.kind = "leaf" THEN IF node.key = k THEN Nil ELSE node
    ELSE LET bit   == bit_index(k, level)
             idx   == sparse_index(node.bitmap, bit)
             child == remove_node(node.children[idx], k, level + 1)
         IN  IF bit \notin node.bitmap THEN node
             ELSE IF child # Nil THEN Branch(node.bitmap, [node.children EXCEPT ![idx] = child])
             ELSE IF Len(node.children) = 1 THEN Nil
             ELSE Branch(node.bitmap \ {bit}, RemoveAt(node.children, idx))

RECURSIVE collect_leaves(_)
collect_leaves(node) ==
    IF node = Nil THEN << >>
    ELSE IF node.kind = "leaf" THEN << node >>
    ELSE FlattenSeq([i \in DOMAIN node.children |-> collect_leaves(node.children[i])])

-----------------------------------------------------------------------------
NewLen(k) == IF get_node(root, k, 0) # None THEN len ELSE len + 1

\* Faulty: changes the nodes that it shares with the snapshot in place.
putInPlace(k, v) ==
    /\ root' = insert_node(root, k, v, 0)
    /\ len' = NewLen(k)
    /\ snapRoot' = IF snapRoot = root /\ root # Nil THEN root' ELSE snapRoot
    /\ UNCHANGED snapLen

put(k, v) ==
    /\ root' = insert_node(root, k, v, 0)
    /\ len' = NewLen(k)
    /\ UNCHANGED << snapRoot, snapLen >>

delete(k) ==
    /\ get_node(root, k, 0) # None
    /\ root' = remove_node(root, k, 0)
    /\ len' = len - 1
    /\ UNCHANGED << snapRoot, snapLen >>

snapshot ==
    /\ snapRoot' = root /\ snapLen' = len
    /\ UNCHANGED << root, len >>

\* Engine::snapshot_restore
restore ==
    /\ root' = snapRoot /\ len' = snapLen
    /\ UNCHANGED << snapRoot, snapLen >>

(***************************************************************************)
(* merge_from puts the leaves of the other map, one after the other.       *)
(***************************************************************************)
PutLeaf(h, leaf) ==
    [root |-> insert_node(h.root, leaf.key, leaf.value, 0),
     len  |-> IF get_node(h.root, leaf.key, 0) # None THEN h.len ELSE h.len + 1]

merge_from ==
    LET merged == FoldLeft(PutLeaf, [root |-> root, len |-> len], collect_leaves(snapRoot))
    IN  /\ root' = merged.root /\ len' = merged.len
        /\ UNCHANGED << snapRoot, snapLen >>

Init == root = Nil /\ len = 0 /\ snapRoot = Nil /\ snapLen = 0

Next ==
    \/ \E k \in Key : delete(k) \/ \E v \in Value : put(k, v)
    \/ snapshot \/ restore \/ merge_from

Spec == Init /\ [][Next]_hamtVars

-----------------------------------------------------------------------------
View(node) == [k \in Key |-> get_node(node, k, 0)]

Abstract ==
    INSTANCE PersistentMap WITH map <- View(root), size <- len,
                                saved <- View(snapRoot), savedSize <- snapLen

(***************************************************************************)
(* IsMap: puts, deletes, snapshots, restores and merges of the trie are    *)
(* those of a map, its length included, and none of them changes the       *)
(* snapshot that shares its nodes.                                         *)
(***************************************************************************)
IsMap == Abstract!Spec

(***************************************************************************)
(* WellFormed: after any sequence of operations a bitmap names as many bits*)
(* as there are children, no branch is empty, every leaf lies on the path  *)
(* of its hash, and iter returns every entry of the map exactly once.      *)
(***************************************************************************)
RECURSIVE Sound(_, _)
Sound(node, level) ==
    node.kind = "branch" =>
        /\ node.bitmap # {}
        /\ Len(node.children) = Cardinality(node.bitmap)
        /\ \A bit \in node.bitmap :
            LET child == node.children[sparse_index(node.bitmap, bit)]
            IN  /\ \A leaf \in ToSet(collect_leaves(child)) : bit_index(leaf.key, level) = bit
                /\ Sound(child, level + 1)

WellFormed ==
    /\ Sound(root, 0)
    /\ Len(collect_leaves(root)) = len
    /\ {leaf.key : leaf \in ToSet(collect_leaves(root))} = {k \in Key : View(root)[k] # None}
=============================================================================
