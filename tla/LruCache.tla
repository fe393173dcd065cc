------------------------------ MODULE LruCache ------------------------------
(***************************************************************************)
(* The LRU cache (storage/cache.rs): a map whose entries carry the number  *)
(* of their last use, drawn from a counter.                                *)
(***************************************************************************)
EXTENDS Integers, Sequences, FiniteSets

CONSTANTS
    Key, Value,
    CAPACITY,      \* entries the cache may hold
    MaxGeneration  \* bound: uses in a behaviour

VARIABLES
    entries,    \* a function from the cached keys to [value, generation]
    generation, \* the number of the last use
    call        \* the last call

cacheVars == << entries, generation, call >>

-----------------------------------------------------------------------------
Remove(k) == [x \in DOMAIN entries \ {k} |-> entries[x]]

Set(m, k, v) ==
    [x \in DOMAIN m \cup {k} |-> IF x = k THEN [value |-> v, generation |-> generation'] ELSE m[x]]

Tick == generation < MaxGeneration /\ generation' = generation + 1

\* Faulty: a hit keeps its generation.
getUntouched(k) ==
    /\ k \in DOMAIN entries
    /\ Tick
    /\ UNCHANGED entries
    /\ call' = << "get", k >>

get(k) ==
    /\ k \in DOMAIN entries
    /\ Tick
    /\ entries' = Set(entries, k, entries[k].value)
    /\ call' = << "get", k >>

(***************************************************************************)
(* The entry that insert evicts: the lowest generation.                    *)
(***************************************************************************)
Oldest ==
    CHOOSE k \in DOMAIN entries :
        \A x \in DOMAIN entries : entries[k].generation <= entries[x].generation

insert(k, v) ==
    /\ Tick
    /\ entries' = IF k \notin DOMAIN entries /\ Cardinality(DOMAIN entries) >= CAPACITY
                  THEN Set(Remove(Oldest), k, v) ELSE Set(entries, k, v)
    /\ call' = << "insert", k, v >>

invalidate(k) ==
    /\ entries' = Remove(k) /\ UNCHANGED generation
    /\ call' = << "invalidate", k >>

clear ==
    /\ entries' = << >> /\ UNCHANGED generation
    /\ call' = << "clear" >>

Init == entries = << >> /\ generation = 0 /\ call = << "new" >>

Next ==
    \/ \E k \in Key : get(k) \/ invalidate(k) \/ \E v \in Value : insert(k, v)
    \/ clear

Spec == Init /\ [][Next]_cacheVars

-----------------------------------------------------------------------------
(***************************************************************************)
(* The entries in the order of their generations.                          *)
(***************************************************************************)
Rank(m, k) == Cardinality({x \in DOMAIN m : m[x].generation <= m[k].generation})

Ordered(m) ==
    [i \in 1 .. Cardinality(DOMAIN m) |->
        LET k == CHOOSE x \in DOMAIN m : Rank(m, x) = i
        IN  [key |-> k, value |-> m[k].value]]

ByUse == Ordered(entries)

Abstract == INSTANCE Recency WITH queue <- ByUse

(***************************************************************************)
(* IsLru: the cache behaves as the queue of module Recency: what is evicted*)
(* is the entry that was not used for longest, and an update, a hit or an  *)
(* invalidation never evicts another entry.                                *)
(***************************************************************************)
IsLru == Abstract!Spec
=============================================================================
