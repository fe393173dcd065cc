-------------------------------- MODULE Mvcc --------------------------------
(***************************************************************************)
(* The multi-version store and its transactions (tx/mvcc.rs).  Threads     *)
(* share the store, and every call on it takes one of its locks for itself:*)
(* so each call is a step, and a commit is a sequence of steps that other  *)
(* transactions and the garbage collector interleave with.                 *)
(*                                                                         *)
(* A transaction buffers one value per key, so the value of a version is   *)
(* abstracted to the transaction that wrote it.  A HashMap is iterated in  *)
(* any order, and the read set is checked in any order.                    *)
(***************************************************************************)
EXTENDS Integers, Sequences, FiniteSetsExt

CONSTANTS
    Key,    \* the keys the model uses
    Txn     \* the transactions: each is begun at most once

Isolation == {"ReadCommitted", "Snapshot", "Serializable"}

VARIABLES
    chains,   \* MvccStore.chains: per key the versions, newest first
    ts,       \* MvccStore.ts
    pc,       \* per transaction, the call it is in
    isolation,
    snapshot, \* snapshot_ts
    writes,   \* the keys in the write buffer
    reads,    \* the keys in the read set
    todo,     \* the keys the running loop of commit() has still to visit
    cts,      \* commit_ts, 0 before it is drawn
    \* history variables, read by no guard of the program
    stamps,   \* per key, the commit timestamps its versions ever got
    earlier   \* the transactions committed when this one called commit()

txnVars == << pc, isolation, snapshot, writes, reads, todo, cts >>
history == << stamps, earlier >>
vars    == << chains, ts, txnVars, history >>

-----------------------------------------------------------------------------
(***************************************************************************)
(* A version, without its prev link; commit_ts = 0 stands for None.        *)
(***************************************************************************)
Version == [txn_id : Txn, commit_ts : Nat]

Committed(chain) == {i \in DOMAIN chain : chain[i].commit_ts # 0}

(***************************************************************************)
(* MvccStore::read walks the chain from its head to the first version that *)
(* is committed and not after the snapshot.  The commit timestamp stands   *)
(* for the version; 0 for None.                                            *)
(***************************************************************************)
Visible(chain, s) == {i \in Committed(chain) : chain[i].commit_ts <= s}

read(chain, s) == IF Visible(chain, s) = {} THEN 0 ELSE chain[Min(Visible(chain, s))].commit_ts

\* Faulty: looks at the head of the chain only.
has_committed_sinceHead(chain, s) == chain # << >> /\ Head(chain).commit_ts > s

has_committed_since(chain, s) == \E i \in Committed(chain) : chain[i].commit_ts > s

(***************************************************************************)
(* MvccStore::gc on one chain.  The newest committed version stays; behind *)
(* the next one that is older than every active snapshot, the chain is cut.*)
(***************************************************************************)
Expendable(chain, oldest) ==
    {i \in Committed(chain) : /\ \E j \in Committed(chain) : j < i
                              /\ chain[i].commit_ts < oldest}

\* Faulty: cuts the version itself off as well.
CollectTooMuch(chain, oldest) ==
    IF Expendable(chain, oldest) = {} THEN chain
    ELSE SubSeq(chain, 1, Min(Expendable(chain, oldest)) - 1)

Collect(chain, oldest) ==
    IF Expendable(chain, oldest) = {} THEN chain
    ELSE SubSeq(chain, 1, Min(Expendable(chain, oldest)))

Active == {t \in Txn : pc[t] \notin {"unborn", "done", "failed"}}

-----------------------------------------------------------------------------
\* Faulty: takes the snapshot one tick too early.
beginEarly(t, level) ==
    /\ pc[t] = "unborn"
    /\ pc' = [pc EXCEPT ![t] = "active"]
    /\ isolation' = [isolation EXCEPT ![t] = level]
    /\ snapshot' = [snapshot EXCEPT ![t] = ts - 1]
    /\ UNCHANGED << chains, ts, writes, reads, todo, cts, history >>

(***************************************************************************)
(* TxManager::begin takes the snapshot under the lock of the id counter.   *)
(***************************************************************************)
begin(t, level) ==
    /\ pc[t] = "unborn"
    /\ pc' = [pc EXCEPT ![t] = "active"]
    /\ isolation' = [isolation EXCEPT ![t] = level]
    /\ snapshot' = [snapshot EXCEPT ![t] = ts]
    /\ UNCHANGED << chains, ts, writes, reads, todo, cts, history >>

(***************************************************************************)
(* Transaction::get leaves the key in the read set of a serializable       *)
(* transaction, unless it finds it in the write buffer; at the other levels*)
(* it changes nothing.  put fills the write buffer.                        *)
(***************************************************************************)
get(t, k) ==
    /\ pc[t] = "active"
    /\ k \notin writes[t]
    /\ isolation[t] = "Serializable"
    /\ reads' = [reads EXCEPT ![t] = @ \cup {k}]
    /\ UNCHANGED << chains, ts, pc, isolation, snapshot, writes, todo, cts, history >>

put(t, k) ==
    /\ pc[t] = "active"
    /\ writes' = [writes EXCEPT ![t] = @ \cup {k}]
    /\ UNCHANGED << chains, ts, pc, isolation, snapshot, reads, todo, cts, history >>

abort(t) ==
    /\ pc[t] = "active"
    /\ pc' = [pc EXCEPT ![t] = "failed"]
    /\ UNCHANGED << chains, ts, isolation, snapshot, writes, reads, todo, cts, history >>

(***************************************************************************)
(* Transaction::commit: check the read set, install the intents, draw the  *)
(* commit timestamp, stamp the intents.  Enter starts the loop of a phase. *)
(***************************************************************************)
Enter(t, phase, keys) ==
    /\ pc' = [pc EXCEPT ![t] = phase]
    /\ todo' = [todo EXCEPT ![t] = keys]

commit(t) ==
    /\ pc[t] = "active"
    /\ IF isolation[t] = "Serializable" THEN Enter(t, "checking", reads[t])
       ELSE Enter(t, "installing", writes[t])
    /\ earlier' = [earlier EXCEPT ![t] = {u \in Txn : pc[u] = "done"}]
    /\ UNCHANGED << chains, ts, isolation, snapshot, writes, reads, cts, stamps >>

check(t, k) ==
    /\ pc[t] = "checking"
    /\ k \in todo[t]
    /\ IF has_committed_since(chains[k], snapshot[t])
       THEN Enter(t, "failed", {})
       ELSE Enter(t, "checking", todo[t] \ {k})
    /\ UNCHANGED << chains, ts, isolation, snapshot, writes, reads, cts, history >>

checked(t) ==
    /\ pc[t] = "checking"
    /\ todo[t] = {}
    /\ Enter(t, "installing", writes[t])
    /\ UNCHANGED << chains, ts, isolation, snapshot, writes, reads, cts, history >>

write_intent(t, k) ==
    /\ pc[t] = "installing"
    /\ k \in todo[t]
    /\ chains' = [chains EXCEPT ![k] = << [txn_id |-> t, commit_ts |-> 0] >> \o @]
    /\ Enter(t, "installing", todo[t] \ {k})
    /\ UNCHANGED << ts, isolation, snapshot, writes, reads, cts, history >>

\* Faulty: draws the timestamp before the intents are installed.
next_tsEarly(t) ==
    /\ pc[t] = "installing"
    /\ cts[t] = 0 \/ todo[t] = {}
    /\ ts' = IF cts[t] = 0 THEN ts + 1 ELSE ts
    /\ cts' = [cts EXCEPT ![t] = ts']
    /\ IF todo[t] = {} THEN Enter(t, "stamping", writes[t]) ELSE UNCHANGED << pc, todo >>
    /\ UNCHANGED << chains, isolation, snapshot, writes, reads, history >>

next_ts(t) ==
    /\ pc[t] = "installing"
    /\ todo[t] = {}
    /\ ts' = ts + 1
    /\ cts' = [cts EXCEPT ![t] = ts + 1]
    /\ Enter(t, "stamping", writes[t])
    /\ UNCHANGED << chains, isolation, snapshot, writes, reads, history >>

(***************************************************************************)
(* commit_key stamps the head of the chain if it is the transaction's own  *)
(* intent, and otherwise returns false, which commit() does not look at.   *)
(***************************************************************************)
commit_key(t, k) ==
    /\ pc[t] = "stamping"
    /\ k \in todo[t]
    /\ IF chains[k] # << >> /\ Head(chains[k]) = [txn_id |-> t, commit_ts |-> 0]
       THEN /\ chains' = [chains EXCEPT ![k][1].commit_ts = cts[t]]
            /\ stamps' = [stamps EXCEPT ![k] = @ \cup {cts[t]}]
       ELSE UNCHANGED << chains, stamps >>
    /\ Enter(t, "stamping", todo[t] \ {k})
    /\ UNCHANGED << ts, isolation, snapshot, writes, reads, cts, earlier >>

committed(t) ==
    /\ pc[t] = "stamping"
    /\ todo[t] = {}
    /\ pc' = [pc EXCEPT ![t] = "done"]
    /\ UNCHANGED << chains, ts, isolation, snapshot, writes, reads, todo, cts, history >>

(***************************************************************************)
(* MvccStore::gc, for a caller that passes a timestamp that no active      *)
(* snapshot is older than, as the parameter's name asks.                   *)
(***************************************************************************)
gc(oldest_active_ts) ==
    /\ oldest_active_ts <= ts
    /\ \A t \in Active : oldest_active_ts <= snapshot[t]
    /\ chains' = [k \in Key |-> Collect(chains[k], oldest_active_ts)]
    /\ UNCHANGED << ts, txnVars, history >>

-----------------------------------------------------------------------------
Init ==
    /\ chains = [k \in Key |-> << >>]
    /\ ts = 0
    /\ pc = [t \in Txn |-> "unborn"]
    /\ isolation = [t \in Txn |-> "Snapshot"]
    /\ snapshot = [t \in Txn |-> 0]
    /\ writes = [t \in Txn |-> {}]
    /\ reads = [t \in Txn |-> {}]
    /\ todo = [t \in Txn |-> {}]
    /\ cts = [t \in Txn |-> 0]
    /\ stamps = [k \in Key |-> {}]
    /\ earlier = [t \in Txn |-> {}]

Step(t) ==
    \/ \E k \in Key : check(t, k) \/ write_intent(t, k) \/ commit_key(t, k)
    \/ checked(t) \/ next_ts(t) \/ committed(t)

Next ==
    \/ \E t \in Txn :
        \/ \E level \in Isolation : begin(t, level)
        \/ \E k \in Key : get(t, k) \/ put(t, k)
        \/ abort(t) \/ commit(t) \/ Step(t)
    \/ \E oldest \in 0 .. ts : gc(oldest)

(***************************************************************************)
(* A call of commit() keeps running.                                       *)
(***************************************************************************)
Spec == Init /\ [][Next]_vars /\ \A t \in Txn : WF_vars(Step(t))

-----------------------------------------------------------------------------
TypeOK ==
    /\ chains \in [Key -> Seq(Version)]
    /\ ts \in Nat
    /\ pc \in [Txn -> {"unborn", "active", "checking", "installing", "stamping", "done", "failed"}]
    /\ isolation \in [Txn -> Isolation]
    /\ snapshot \in [Txn -> Nat]
    /\ writes \in [Txn -> SUBSET Key]
    /\ reads \in [Txn -> SUBSET Key]
    /\ todo \in [Txn -> SUBSET Key]
    /\ cts \in [Txn -> Nat]
    /\ stamps \in [Key -> SUBSET Nat]
    /\ earlier \in [Txn -> SUBSET Txn]

(***************************************************************************)
(* ChainsInOrder: the committed versions of a chain are in the order of    *)
(* their timestamps, although intents are installed and timestamps drawn   *)
(* by separate calls.  read() relies on it when it stops at the first      *)
(* version that is old enough, and so does gc().                           *)
(***************************************************************************)
ChainsInOrder ==
    \A k \in Key : \A i, j \in Committed(chains[k]) :
        i < j => chains[k][i].commit_ts > chains[k][j].commit_ts

(***************************************************************************)
(* ReadsNewestStamped: at the snapshot of an active transaction, and at    *)
(* the snapshot a transaction would get now, read() returns the newest of  *)
(* all the versions that were ever stamped for the key up to then.  gc()   *)
(* takes none of them away.                                                *)
(***************************************************************************)
Newest(k, s) == Max({0} \cup {c \in stamps[k] : c <= s})

ReadsNewestStamped ==
    \A k \in Key : /\ \A t \in Active : read(chains[k], snapshot[t]) = Newest(k, snapshot[t])
                   /\ read(chains[k], ts) = Newest(k, ts)

(***************************************************************************)
(* FinishedCommitsRespected: a serializable transaction that passes its    *)
(* check has read nothing that a transaction overwrote after its snapshot, *)
(* if that transaction's commit() had returned before its own was called.  *)
(***************************************************************************)
FinishedCommitsRespected ==
    \A t \in Txn : isolation[t] = "Serializable" /\ pc[t] \in {"installing", "stamping", "done"} =>
        \A u \in earlier[t], k \in reads[t] :
            cts[u] \in stamps[k] => cts[u] <= snapshot[t]

-----------------------------------------------------------------------------
(***************************************************************************)
(* What the module's header says, and the code does not do.                *)
(*                                                                         *)
(* AllOrNothing: of the writes of a transaction whose commit() returned    *)
(* Ok, either all were stamped or none was.                                *)
(***************************************************************************)
AllOrNothing ==
    \A t \in Txn : pc[t] = "done" =>
        \/ \A k \in writes[t] : cts[t] \in stamps[k]
        \/ \A k \in writes[t] : cts[t] \notin stamps[k]
=============================================================================
