------------------------------ MODULE Records -------------------------------
(***************************************************************************)
(* The record and namespace handlers of the server (server.rs) and the key *)
(* prefixes they work with (namespace.rs), one call at a time: the handlers*)
(* hold the engine's write lock from beginning to end.  A key is a sequence*)
(* of letters 0 .. LastByte in lexicographic order; a namespace number, 8  *)
(* bytes in the code, is one letter, and LastByte stands for 0xFF.  The    *)
(* registry prefix "__ns__::" is 8 bytes long and so reads as a namespace  *)
(* number as well.  Keys that clients send are UTF-8, which has no 0xFF.   *)
(***************************************************************************)
EXTENDS Integers, Sequences, FiniteSets

CONSTANTS
    LastByte,
    Registry,   \* the letter for "__ns__::"
    ClientKey,  \* keys that clients send
    Repo,       \* repo_url of a namespace
    WatchId,
    MaxCredit   \* u32::MAX

VARIABLES
    data,       \* the live records: stored key -> value
    watches     \* watch_id -> credit

recordVars == << data, watches >>

-----------------------------------------------------------------------------
Byte == 0 .. LastByte

NS_PREFIX_LEN == 1

Value == {"empty", "full"}

scope_key(ns, key) == << ns >> \o key

unscope_key(stored) == SubSeq(stored, NS_PREFIX_LEN + 1, Len(stored))

namespace_id_of(stored) == stored[1]

ns_scan_range(ns) == [start |-> << ns, 0 >>, end |-> << ns, LastByte >>]

key_in_namespace(stored, ns) == namespace_id_of(stored) = ns

StoredKey == {scope_key(0, k) : k \in ClientKey} \cup {scope_key(Registry, r) : r \in Repo}

Agree(a, b, n) == \A j \in 1 .. n : a[j] = b[j]

Before(a, b) ==
    \/ \E i \in 1 .. Len(a) : i <= Len(b) /\ Agree(a, b, i - 1) /\ a[i] < b[i]
    \/ Len(a) < Len(b) /\ Agree(a, b, Len(a))

Between(start, k, end) == ~Before(k, start) /\ Before(k, end)

(***************************************************************************)
(* Engine::scan: from start up to but not including end, in key order.     *)
(***************************************************************************)
Rank(k, keys) == Cardinality({x \in keys : Before(x, k)})

InOrder(keys) == [i \in 1 .. Cardinality(keys) |-> CHOOSE k \in keys : Rank(k, keys) = i - 1]

scan(start, end) == InOrder({k \in DOMAIN data : Between(start, k, end)})

Elements(keys) == {keys[i] : i \in 1 .. Len(keys)}

First(n, keys) == IF n < Len(keys) THEN SubSeq(keys, 1, n) ELSE keys

Without(keys) == [k \in DOMAIN data \ keys |-> data[k]]

Record(key, value) == [k \in {key} |-> value]

With(new) == [k \in DOMAIN data \cup DOMAIN new |-> IF k \in DOMAIN new THEN new[k] ELSE data[k]]

(***************************************************************************)
(* A handler's outcome: the records it leaves and its response.            *)
(***************************************************************************)
Done(records, count) == [data |-> records, ok |-> TRUE, count |-> count]

Error(records) == [data |-> records, ok |-> FALSE, count |-> 0]

-----------------------------------------------------------------------------
(***************************************************************************)
(* A write of the engine fails when the log cannot be written.  done is    *)
(* TRUE if it succeeds.                                                    *)
(***************************************************************************)
handle_put(key, value, done) ==
    IF done THEN Done(With(Record(scope_key(0, key), value)), 1) ELSE Error(data)

handle_delete(key, done) ==
    IF done THEN Done(Without({scope_key(0, key)}), 1) ELSE Error(data)

\* Two records; the later one wins for the same key.
handle_put_batch(key1, value1, key2, value2, done) ==
    IF done
    THEN Done(With([k \in {scope_key(0, key1), scope_key(0, key2)} |->
                      IF k = scope_key(0, key2) THEN value2 ELSE value1]), 2)
    ELSE Error(data)

\* Faulty: an error of one delete does not end the call.
handle_range_deleteOn(start, end, done) ==
    LET keys == scan(scope_key(0, start), scope_key(0, end))
    IN  Done(Without(Elements(First(done, keys))), Len(keys))

\* The first done deletes succeed; an error ends the call.
handle_range_delete(start, end, done) ==
    LET keys == scan(scope_key(0, start), scope_key(0, end))
    IN  IF done < Len(keys) THEN Error(Without(Elements(First(done, keys))))
        ELSE Done(Without(Elements(keys)), Len(keys))

handle_ns_create(repo, done) ==
    IF done THEN Done(With(Record(scope_key(Registry, repo), "full")), 1) ELSE Error(data)

\* The result of each delete is ignored.
handle_ns_delete(ns, failed) ==
    LET keys == scan(ns_scan_range(ns).start, ns_scan_range(ns).end)
    IN  Done(Without(Elements(keys) \ failed), Len(keys))

-----------------------------------------------------------------------------
(***************************************************************************)
(* Watches are kept with their credit; nothing else reads them.  A watch   *)
(* that does not exist is an error.                                        *)
(***************************************************************************)
handle_watch(id, initial_credit) ==
    [w \in DOMAIN watches \cup {id} |-> IF w = id THEN initial_credit ELSE watches[w]]

handle_unwatch(id) == [w \in DOMAIN watches \ {id} |-> watches[w]]

handle_watch_window(id, credit) ==
    [w \in DOMAIN watches |-> IF w = id THEN (IF watches[w] + credit < MaxCredit THEN watches[w] + credit ELSE MaxCredit) ELSE watches[w]]

-----------------------------------------------------------------------------
(***************************************************************************)
(* Reads: the rows of the response.                                        *)
(***************************************************************************)
handle_get(key) == IF scope_key(0, key) \in DOMAIN data THEN << key >> ELSE << >>

\* A row per key that was asked for; a record without bytes counts as not found.
handle_get_batch(keys) ==
    [rows  |-> keys,
     found |-> Cardinality({i \in DOMAIN keys :
                 scope_key(0, keys[i]) \in DOMAIN data /\ data[scope_key(0, keys[i])] # "empty"})]

\* Faulty: does not strip the prefix.
handle_scanScoped(start, end, limit) ==
    First(limit, scan(scope_key(0, start), scope_key(0, end)))

\* A range whose start is after its end panics (see module Server).
handle_scan(start, end, limit) ==
    LET results == First(limit, scan(scope_key(0, start), scope_key(0, end)))
    IN  [i \in 1 .. Len(results) |-> unscope_key(results[i])]

handle_ns_list == scan(<< Registry >>, << Registry, LastByte >>)

-----------------------------------------------------------------------------
Becomes(outcome) == data' = outcome.data /\ UNCHANGED watches

Watching(new) == watches' = new /\ UNCHANGED data

Init == data = << >> /\ watches = << >>

Next ==
    \/ \E k \in ClientKey, done \in BOOLEAN :
        \/ \E v \in Value : Becomes(handle_put(k, v, done))
        \/ Becomes(handle_delete(k, done))
        \/ \E k2 \in ClientKey, v, v2 \in Value : Becomes(handle_put_batch(k, v, k2, v2, done))
    \/ \E k, k2 \in ClientKey, done \in 0 .. Cardinality(ClientKey) :
        ~Before(k2, k) /\ Becomes(handle_range_delete(k, k2, done))
    \/ \E r \in Repo, done \in BOOLEAN : Becomes(handle_ns_create(r, done))
    \/ \E ns \in Byte \ {LastByte} : \E failed \in SUBSET DOMAIN data : Becomes(handle_ns_delete(ns, failed))
    \/ \E id \in WatchId, credit \in 0 .. MaxCredit :
        Watching(handle_watch(id, credit)) \/ Watching(handle_watch_window(id, credit))
    \/ \E id \in WatchId : Watching(handle_unwatch(id))

Spec == Init /\ [][Next]_recordVars

-----------------------------------------------------------------------------
(***************************************************************************)
(* NsDeleteExact: handle_ns_delete removes, of the keys that               *)
(* key_in_namespace accepts, all but the bare prefix (the record with the  *)
(* empty key) and the ones whose delete failed; and no key of another      *)
(* namespace, whatever bytes follow the prefix.                            *)
(***************************************************************************)
NsDeleteExact ==
    \A ns \in Byte \ {LastByte} : \A failed \in SUBSET DOMAIN data :
        DOMAIN handle_ns_delete(ns, failed).data =
            {s \in DOMAIN data : ~key_in_namespace(s, ns) \/ s = << ns >> \/ s \in failed}

(***************************************************************************)
(* RangeDeleteReported: when handle_range_delete reports success, no record*)
(* of its range is left; whatever it reports, it has touched no record     *)
(* outside the range and no namespace entry.                               *)
(***************************************************************************)
RangeDeleteReported ==
    \A start, end \in ClientKey, done \in 0 .. Cardinality(ClientKey) :
        ~Before(end, start) =>
            LET ranged  == {scope_key(0, k) : k \in {c \in ClientKey : Between(start, c, end)}}
                outcome == handle_range_delete(start, end, done)
            IN  /\ DOMAIN data \ ranged \subseteq DOMAIN outcome.data
                /\ outcome.ok => DOMAIN outcome.data \cap ranged = {}

(***************************************************************************)
(* DeletesExact: both hold: a range delete that reports success is         *)
(* complete, and neither it nor handle_ns_delete removes anything else.    *)
(***************************************************************************)
DeletesExact == RangeDeleteReported /\ NsDeleteExact

(***************************************************************************)
(* ScanPages: handle_scan answers with the clients' own keys, in order, and*)
(* a client that asks for the rest from the last key it got loses none and *)
(* never meets a namespace entry; handle_ns_list meets nothing else.       *)
(***************************************************************************)
ScanPages ==
    /\ \A start, end \in ClientKey, limit \in 1 .. Cardinality(ClientKey) :
        ~Before(end, start) =>
            LET page == handle_scan(start, end, limit)
                rest == handle_scan(page[Len(page)], end, Cardinality(ClientKey))
                all  == {k \in ClientKey : Between(start, k, end) /\ handle_get(k) # << >>}
            IN  /\ page = << >> => all = {}
                /\ page # << >> => /\ Elements(page) \cup Elements(rest) = all
                                  /\ \A i \in 2 .. Len(page) : Before(page[i - 1], page[i])
    /\ \A s \in Elements(handle_ns_list) : key_in_namespace(s, Registry)
    /\ DOMAIN data = Elements(handle_ns_list) \cup {scope_key(0, k) : k \in {c \in ClientKey : handle_get(c) # << >>}}
=============================================================================
