------------------------------ MODULE Recency -------------------------------
(***************************************************************************)
(* What an LRU cache promises: its entries in the order of their last use, *)
(* the least recent one first, and at most CAPACITY of them.  LruCache,    *)
(* which models storage/cache.rs, implements it; module Store has such a   *)
(* queue as the engine's cache.                                            *)
(***************************************************************************)
EXTENDS Integers, Sequences

CONSTANTS Key, Value, CAPACITY

VARIABLES
    queue,
    call    \* the last call

recencyVars == << queue, call >>

Entry == [key : Key, value : Value]

Holds(q, k) == \E i \in DOMAIN q : q[i].key = k

Slot(q, k) == CHOOSE i \in DOMAIN q : q[i].key = k

Cached(k) == Holds(queue, k)

CachedValue(k) == queue[Slot(queue, k)].value

Without(q, k) ==
    IF Holds(q, k) THEN [i \in 1 .. Len(q) - 1 |-> IF i < Slot(q, k) THEN q[i] ELSE q[i + 1]] ELSE q

(***************************************************************************)
(* A use moves the entry to the recent end.  An insertion into a full      *)
(* cache takes the place of the least recent entry, unless it updates one. *)
(***************************************************************************)
Used(q, k, v) == Append(Without(q, k), [key |-> k, value |-> v])

Room(q) == IF Len(q) >= CAPACITY THEN Tail(q) ELSE q

get(k) ==
    /\ Cached(k) /\ queue' = Used(queue, k, CachedValue(k))
    /\ call' = << "get", k >>

insert(k, v) ==
    /\ queue' = IF Cached(k) THEN Used(queue, k, v) ELSE Used(Room(queue), k, v)
    /\ call' = << "insert", k, v >>

invalidate(k) ==
    /\ queue' = Without(queue, k)
    /\ call' = << "invalidate", k >>

clear ==
    /\ queue' = << >>
    /\ call' = << "clear" >>

Init == queue = << >> /\ call = << "new" >>

Next ==
    \/ \E k \in Key : get(k) \/ invalidate(k) \/ \E v \in Value : insert(k, v)
    \/ clear

Spec == Init /\ [][Next]_recencyVars
=============================================================================
