--------------------------- MODULE PersistentMap ----------------------------
(***************************************************************************)
(* What a persistent map with a snapshot promises: the map that module Hamt*)
(* is shown to implement, and that the other modules take for a HAMT.      *)
(***************************************************************************)
EXTENDS FiniteSetsExt

CONSTANTS Key, Value, None

VARIABLES map, size, saved, savedSize

mapVars == << map, size, saved, savedSize >>

Keys(m) == {k \in Key : m[k] # None}

Become(m) == map' = m /\ size' = Cardinality(Keys(m)) /\ UNCHANGED << saved, savedSize >>

put(k, v) == Become([map EXCEPT ![k] = v])

delete(k) == Become([map EXCEPT ![k] = None])

merge_from == Become([k \in Key |-> IF saved[k] # None THEN saved[k] ELSE map[k]])

restore == map' = saved /\ size' = savedSize /\ UNCHANGED << saved, savedSize >>

snapshot == saved' = map /\ savedSize' = size /\ UNCHANGED << map, size >>

Init ==
    /\ map = [k \in Key |-> None] /\ size = 0
    /\ saved = map /\ savedSize = 0

Next ==
    \/ \E k \in Key : delete(k) \/ \E v \in Value : put(k, v)
    \/ snapshot \/ restore \/ merge_from

Spec == Init /\ [][Next]_mapVars
=============================================================================
