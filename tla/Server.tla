------------------------------- MODULE Server -------------------------------
(***************************************************************************)
(* The transactions of the server (UmpHandler in server.rs, TxManager and  *)
(* TxSession in tx/session.rs).  Threads call the handler; they share the  *)
(* engine behind a RwLock and the transaction manager behind a Mutex.  A   *)
(* step is what a thread does while it holds a lock, up to the point where *)
(* it waits for the next one.                                              *)
(*                                                                         *)
(* The engine is reduced to what get answers (live) and to its HAMT state  *)
(* (tree); module Store shows when the two agree.  The value of a write is *)
(* abstracted to who wrote it: a transaction, or a direct put.  ulmp's     *)
(* router and codec are outside the repository.                            *)
(***************************************************************************)
EXTENDS Integers, Sequences, FiniteSetsExt

CONSTANTS
    Key,     \* keys, already scoped with namespace 0
    Thread,  \* threads that call the handler
    MaxTx,   \* bound: transactions begun
    MaxOps   \* bound: operations buffered by one transaction

ASSUME ServerAssumption == MaxTx \in Nat /\ MaxOps \in Nat

VARIABLES
    live,     \* per key, the value that Engine::get returns
    tree,     \* Engine.state
    saved,    \* the contents of one snapshot
    poisoned, \* a thread panicked while it held the engine's write lock
    readers,  \* threads that hold the engine's read lock
    mgr,      \* the thread that holds the transaction manager
    sessions, \* TxManager.sessions
    next_id,  \* TxManager.next_id
    pc,       \* per thread, where it is in its call
    local,    \* per thread, the session or snapshot it has in hand
    \* history variables, read by no guard of the program
    results,  \* per transaction, what its commit or rollback reported
    raced     \* per thread, keys written since it validated its read set

engineVars == << live, tree, saved, poisoned >>
lockVars   == << readers, mgr >>
txVars     == << sessions, next_id >>
threadVars == << pc, local >>
history    == << results, raced >>
vars       == << engineVars, lockVars, txVars, threadVars, history >>

-----------------------------------------------------------------------------
Tx == 1 .. MaxTx

None == 0

Value == {None, MaxTx + 1} \cup Tx

Direct == MaxTx + 1

Data == [Key -> Value]

Free == "free"

(***************************************************************************)
(* TxIsolation::from_byte: an unknown byte means Snapshot.                 *)
(***************************************************************************)
Isolation == {"ReadCommitted", "Snapshot", "Serializable"}

\* Faulty: takes the byte as it comes.
from_byteUnchecked(b) ==
    IF b = 1 THEN "ReadCommitted" ELSE IF b = 2 THEN "Snapshot"
    ELSE IF b = 3 THEN "Serializable" ELSE "unknown"

from_byte(b) ==
    IF b = 1 THEN "ReadCommitted" ELSE IF b = 3 THEN "Serializable" ELSE "Snapshot"

TxOp == [key : Key, value : Value]

TxSession == [id : Tx, isolation : Isolation,
              snapshot : Data, write_buffer : Seq(TxOp), read_set : SUBSET Key]

Buffered(session, k) == \E i \in DOMAIN session.write_buffer : session.write_buffer[i].key = k

(***************************************************************************)
(* The first n operations of a write buffer, applied in their order.       *)
(***************************************************************************)
Ops(buffer, k) == {i \in DOMAIN buffer : buffer[i].key = k}

Applied(data, buffer) ==
    [k \in Key |-> IF Ops(buffer, k) = {} THEN data[k] ELSE buffer[Max(Ops(buffer, k))].value]

Written(buffer) == {buffer[i].key : i \in DOMAIN buffer}

-----------------------------------------------------------------------------
(***************************************************************************)
(* The engine is written.  Threads that have validated a read set and wait *)
(* for the write lock do not see it.                                       *)
(***************************************************************************)
Overtaken(keys) ==
    [c \in Thread |-> IF pc[c] = "applying" THEN raced[c] \cup keys ELSE raced[c]]

Write(buffer) ==
    /\ live' = Applied(live, buffer)
    /\ tree' = Applied(tree, buffer)

(***************************************************************************)
(* A handler that needs the engine for itself: every one of them but       *)
(* handle_stats and the listings, and get and scan too.  It panics if the  *)
(* lock is poisoned.                                                       *)
(***************************************************************************)
CanWrite(c) == pc[c] = "idle" /\ readers = {} /\ ~poisoned

panics(c) ==
    /\ poisoned
    /\ pc[c] \in {"idle", "fallback", "validating", "applying"}
    /\ pc' = [pc EXCEPT ![c] = "dead"]
    /\ UNCHANGED << engineVars, lockVars, txVars, local, history >>

\* handle_put, handle_delete, handle_put_batch, handle_range_delete
handle_put(c, k, v) ==
    /\ CanWrite(c)
    /\ Write(<< [key |-> k, value |-> v] >>)
    /\ raced' = Overtaken({k})
    /\ UNCHANGED << saved, poisoned, lockVars, txVars, threadVars, results >>

\* A scan from a key to a smaller one panics inside BTreeMap::range.
handle_scan_inverted(c) ==
    /\ CanWrite(c)
    /\ poisoned' = TRUE
    /\ pc' = [pc EXCEPT ![c] = "dead"]
    /\ UNCHANGED << live, tree, saved, lockVars, txVars, local, history >>

handle_snap_create(c) ==
    /\ CanWrite(c)
    /\ saved' = tree
    /\ UNCHANGED << live, tree, poisoned, lockVars, txVars, threadVars, history >>

handle_snap_restore(c) ==
    /\ CanWrite(c)
    /\ tree' = saved
    /\ raced' = Overtaken({k \in Key : tree[k] # saved[k]})
    /\ UNCHANGED << live, saved, poisoned, lockVars, txVars, threadVars, results >>

-----------------------------------------------------------------------------
(***************************************************************************)
(* begin_tx takes the read lock and the HAMT root, then, still holding it, *)
(* the manager.                                                            *)
(***************************************************************************)
NoSession == [id |-> 0]

Begun == [id : {0}, isolation : Isolation, snapshot : Data]

\* Faulty: gives the engine back before it has the manager.
begin_txReleased(c, isolation) ==
    /\ pc[c] = "idle" /\ ~poisoned
    /\ local' = [local EXCEPT ![c] = [id |-> 0, isolation |-> from_byte(isolation), snapshot |-> tree]]
    /\ pc' = [pc EXCEPT ![c] = "beginning"]
    /\ UNCHANGED << engineVars, lockVars, txVars, history >>

begin_tx(c, isolation) ==
    /\ pc[c] = "idle" /\ ~poisoned
    /\ readers' = readers \cup {c}
    /\ local' = [local EXCEPT ![c] = [id |-> 0, isolation |-> from_byte(isolation), snapshot |-> tree]]
    /\ pc' = [pc EXCEPT ![c] = "beginning"]
    /\ UNCHANGED << engineVars, mgr, txVars, history >>

tx_mgr_begin(c) ==
    /\ pc[c] = "beginning" /\ mgr = Free
    /\ next_id <= MaxTx
    /\ sessions' = sessions \cup
            {[id |-> next_id, isolation |-> local[c].isolation, snapshot |-> local[c].snapshot,
              write_buffer |-> << >>, read_set |-> {}]}
    /\ next_id' = next_id + 1
    /\ readers' = readers \ {c}
    /\ pc' = [pc EXCEPT ![c] = "idle"]
    /\ local' = [local EXCEPT ![c] = NoSession]
    /\ UNCHANGED << engineVars, mgr, history >>

(***************************************************************************)
(* Reads and writes in a transaction, under the manager's lock.  A read of *)
(* a key the transaction has not written joins the read set at the         *)
(* serializable level.  Any thread may use any transaction's number.       *)
(***************************************************************************)
Replace(old, new) == sessions' = (sessions \ {old}) \cup {new}

tx_get(c, s, k) ==
    /\ pc[c] = "idle" /\ mgr = Free
    /\ s.isolation = "Serializable" /\ ~Buffered(s, k)
    /\ Replace(s, [s EXCEPT !.read_set = @ \cup {k}])
    /\ UNCHANGED << engineVars, lockVars, next_id, threadVars, history >>

\* tx_put, and tx_delete with the value None
tx_put(c, s, k, v) ==
    /\ pc[c] = "idle" /\ mgr = Free
    /\ Len(s.write_buffer) < MaxOps
    /\ Replace(s, [s EXCEPT !.write_buffer = Append(@, [key |-> k, value |-> v])])
    /\ UNCHANGED << engineVars, lockVars, next_id, threadVars, history >>

(***************************************************************************)
(* tx_get of a number without a session finds nothing, gives the manager   *)
(* back and reads the live engine under the write lock.                    *)
(***************************************************************************)
tx_get_misses(c) ==
    /\ pc[c] = "idle" /\ mgr = Free
    /\ {s.id : s \in sessions} # Tx
    /\ mgr' = c
    /\ pc' = [pc EXCEPT ![c] = "missed"]
    /\ UNCHANGED << engineVars, readers, txVars, local, history >>

\* Faulty: keeps the manager while it waits for the engine.
drop_mgrLate(c) ==
    /\ pc[c] = "missed"
    /\ readers = {} /\ ~poisoned
    /\ mgr' = Free
    /\ pc' = [pc EXCEPT ![c] = "fallback"]
    /\ UNCHANGED << engineVars, readers, txVars, local, history >>

drop_mgr(c) ==
    /\ pc[c] = "missed"
    /\ mgr' = Free
    /\ pc' = [pc EXCEPT ![c] = "fallback"]
    /\ UNCHANGED << engineVars, readers, txVars, local, history >>

live_get(c) ==
    /\ pc[c] = "fallback" /\ readers = {} /\ ~poisoned
    /\ pc' = [pc EXCEPT ![c] = "idle"]
    /\ UNCHANGED << engineVars, lockVars, txVars, local, history >>

-----------------------------------------------------------------------------
(***************************************************************************)
(* commit_tx takes the session out of the manager, compares its read set   *)
(* with the HAMT state under the read lock, and applies the buffer under   *)
(* the write lock.  An operation that fails ends the commit; the ones      *)
(* before it stay.                                                         *)
(***************************************************************************)
Report(t, what) == results' = [results EXCEPT ![t] = @ \cup {what}]

\* Faulty: leaves the session in the manager until the commit is done.
commit_txShared(c, s) ==
    /\ pc[c] = "idle" /\ mgr = Free
    /\ local' = [local EXCEPT ![c] = s]
    /\ pc' = [pc EXCEPT ![c] = IF s.isolation = "Serializable" THEN "validating" ELSE "applying"]
    /\ raced' = [raced EXCEPT ![c] = {}]
    /\ UNCHANGED << engineVars, lockVars, txVars, results >>

commit_tx(c, s) ==
    /\ pc[c] = "idle" /\ mgr = Free
    /\ sessions' = sessions \ {s}
    /\ local' = [local EXCEPT ![c] = s]
    /\ pc' = [pc EXCEPT ![c] = IF s.isolation = "Serializable" THEN "validating" ELSE "applying"]
    /\ raced' = [raced EXCEPT ![c] = {}]
    /\ UNCHANGED << engineVars, lockVars, next_id, results >>

Unchanged(s, k) == tree[k] = s.snapshot[k]

\* Faulty: looks only at the keys that the transaction also writes.
validateWritten(c) ==
    /\ pc[c] = "validating" /\ ~poisoned
    /\ IF \A k \in local[c].read_set \cap Written(local[c].write_buffer) : Unchanged(local[c], k)
       THEN pc' = [pc EXCEPT ![c] = "applying"] /\ UNCHANGED << local, results >>
       ELSE /\ pc' = [pc EXCEPT ![c] = "idle"]
            /\ Report(local[c].id, "conflict")
            /\ local' = [local EXCEPT ![c] = NoSession]
    /\ UNCHANGED << engineVars, lockVars, txVars, raced >>

validate(c) ==
    /\ pc[c] = "validating" /\ ~poisoned
    /\ IF \A k \in local[c].read_set : Unchanged(local[c], k)
       THEN pc' = [pc EXCEPT ![c] = "applying"] /\ UNCHANGED << local, results >>
       ELSE /\ pc' = [pc EXCEPT ![c] = "idle"]
            /\ Report(local[c].id, "conflict")
            /\ local' = [local EXCEPT ![c] = NoSession]
    /\ UNCHANGED << engineVars, lockVars, txVars, raced >>

apply(c) ==
    /\ pc[c] = "applying" /\ readers = {} /\ ~poisoned
    /\ \E n \in 0 .. Len(local[c].write_buffer) :
        LET done == SubSeq(local[c].write_buffer, 1, n)
        IN  /\ Write(done)
            /\ raced' = Overtaken(Written(done))
            /\ Report(local[c].id, IF n = Len(local[c].write_buffer) THEN "committed" ELSE "failed")
    /\ pc' = [pc EXCEPT ![c] = "idle"]
    /\ local' = [local EXCEPT ![c] = NoSession]
    /\ UNCHANGED << saved, poisoned, lockVars, txVars >>

rollback_tx(c, s) ==
    /\ pc[c] = "idle" /\ mgr = Free
    /\ sessions' = sessions \ {s}
    /\ Report(s.id, "rolled back")
    /\ UNCHANGED << engineVars, lockVars, next_id, threadVars, raced >>

handle_tx_status(t) == IF \E s \in sessions : s.id = t THEN "active" ELSE "unknown"

-----------------------------------------------------------------------------
Init ==
    /\ live = [k \in Key |-> None] /\ tree = live /\ saved = live /\ poisoned = FALSE
    /\ readers = {} /\ mgr = Free
    /\ sessions = {} /\ next_id = 1
    /\ pc = [c \in Thread |-> "idle"]
    /\ local = [c \in Thread |-> NoSession]
    /\ results = [t \in Tx |-> {}]
    /\ raced = [c \in Thread |-> {}]

(***************************************************************************)
(* The steps of a thread inside a call.                                    *)
(***************************************************************************)
Step(c) ==
    \/ tx_mgr_begin(c) \/ drop_mgr(c) \/ live_get(c) \/ validate(c) \/ apply(c)
    \/ pc[c] # "idle" /\ panics(c)

Next ==
    \E c \in Thread :
        \/ \E k \in Key, v \in {None, Direct} : handle_put(c, k, v)
        \/ handle_scan_inverted(c)
        \/ handle_snap_create(c) \/ handle_snap_restore(c)
        \/ \E b \in 0 .. 3 : next_id + Cardinality(readers) <= MaxTx /\ begin_tx(c, b)
        \/ \E s \in sessions :
            \/ \E k \in Key : tx_get(c, s, k) \/ \E v \in {None, s.id} : tx_put(c, s, k, v)
            \/ commit_tx(c, s)
            \/ rollback_tx(c, s)
        \/ tx_get_misses(c)
        \/ Step(c)
        \/ pc[c] = "idle" /\ panics(c)

Spec == Init /\ [][Next]_vars

-----------------------------------------------------------------------------
TypeOK ==
    /\ live \in Data /\ tree \in Data /\ saved \in Data /\ poisoned \in BOOLEAN
    /\ readers \subseteq Thread /\ mgr \in Thread \cup {Free}
    /\ sessions \subseteq TxSession /\ next_id \in 1 .. MaxTx + 1
    /\ pc \in [Thread -> {"idle", "beginning", "missed", "fallback", "validating", "applying", "dead"}]
    /\ local \in [Thread -> TxSession \cup Begun \cup {NoSession}]
    /\ results \in [Tx -> SUBSET {"committed", "failed", "conflict", "rolled back"}]
    /\ raced \in [Thread -> SUBSET Key]

(***************************************************************************)
(* NoDeadlock: as long as some thread is inside a call, the locks that one *)
(* of the threads inside a call waits for are free, and such a thread can  *)
(* go on.  begin_tx waits for the manager while it holds the engine; tx_get*)
(* needs them in the other order and must let go first.  (A thread whose   *)
(* engine is poisoned goes on too: it panics.)                             *)
(***************************************************************************)
Ready(c) ==
    \/ pc[c] = "beginning" /\ mgr = Free /\ next_id <= MaxTx
    \/ pc[c] \in {"missed", "validating"}
    \/ pc[c] \in {"fallback", "applying"} /\ (readers = {} \/ poisoned)

SomeoneReady ==
    (\E c \in Thread : pc[c] \notin {"idle", "dead"}) => \E c \in Thread : Ready(c)

NoDeadlock == SomeoneReady /\ \A c \in Thread : Ready(c) <=> ENABLED Step(c)

(***************************************************************************)
(* OneOutcome: threads may commit and roll back the same transaction at    *)
(* once, but only one of them is told that it did, and from then on its    *)
(* status is unknown; and a value of a transaction is in the engine only  *)
(* if its commit reported success or a failure half-way.                   *)
(***************************************************************************)
OneOutcome ==
    /\ \A t \in Tx : /\ Cardinality(results[t]) <= 1
                     /\ results[t] # {} => handle_tx_status(t) = "unknown"
    /\ \A k \in Key : live[k] \in Tx => results[live[k]] \subseteq {"committed", "failed"}
                                       /\ results[live[k]] # {}

(***************************************************************************)
(* StaleOnlyRaced: a serializable transaction commits although a key it    *)
(* read has another value than in its snapshot only if that key was        *)
(* written between the check of the read set and the write lock.           *)
(***************************************************************************)
StaleOnlyRaced ==
    [][\A c \in Thread : apply(c) =>
            \A k \in local[c].read_set \ raced[c] : Unchanged(local[c], k)]_vars

(***************************************************************************)
(* SnapshotCurrent: the snapshot with which a transaction is registered is *)
(* the HAMT state of that moment, whatever the other threads do while      *)
(* begin_tx waits for the manager.                                         *)
(***************************************************************************)
SnapshotCurrent ==
    [][\A s \in sessions' : s.id = next_id => s.snapshot = tree]_vars
=============================================================================
