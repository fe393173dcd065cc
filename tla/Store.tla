------------------------------- MODULE Store --------------------------------
(***************************************************************************)
(* The rest of the engine (engine.rs) around the log and the pages of      *)
(* module Engine: the LRU cache that get fills from the levels, the HAMT   *)
(* state that is kept beside the memtable, the snapshots and branches taken*)
(* of it, and the backup that the server makes (handle_backup, server.rs). *)
(*                                                                         *)
(* The cache is the sequence of its entries, the least recently used one   *)
(* first (module LruCache shows that the code keeps that order).  A HAMT is*)
(* the map it represents (module Hamt).                                    *)
(***************************************************************************)
EXTENDS Engine

CONSTANTS
    CACHE_CAPACITY, \* entries of the LRU cache (1024 in the code)
    Name,           \* names that callers give to snapshots and branches
    MaxAuto         \* bound: snapshots that are named by the counter

(***************************************************************************)
(* Keys are byte strings whose length the log stores in two bytes.         *)
(***************************************************************************)
ASSUME StoreAssumption ==
    /\ CACHE_CAPACITY \in Nat \ {0}
    /\ MaxAuto \in Nat
    /\ IsFiniteSet(Key)

VARIABLES
    cache,     \* LruCache: [key, ver], least recently used first
    state,     \* Engine.state
    snapshots, \* Engine.snapshots
    counter,   \* Engine.snapshot_counter
    backup,    \* the backup in progress or just made
    \* history variables, read by no guard of the program
    stale,     \* keys whose cache entry missed a write
    detached   \* keys of which the HAMT state is not the newest record

treeVars   == << state, snapshots, counter >>
storeOnly  == << cache, treeVars, backup, stale, detached >>
storeVars  == << vars, storeOnly >>

-----------------------------------------------------------------------------
(***************************************************************************)
(* LruCache::get moves a hit to the recent end, insert does the same and   *)
(* evicts the least recently used entry of a full cache.                   *)
(***************************************************************************)
Holds(c, k) == \E i \in DOMAIN c : c[i].key = k

Slot(c, k) == CHOOSE i \in DOMAIN c : c[i].key = k

Cached(k) == Holds(cache, k)

CachedVer(k) == cache[Slot(cache, k)].ver

Without(c, k) ==
    IF Holds(c, k) THEN SubSeq(c, 1, Slot(c, k) - 1) \o SubSeq(c, Slot(c, k) + 1, Len(c)) ELSE c

\* Faulty: never evicts.
lru_insertUnbounded(c, k, ver) == Append(Without(c, k), [key |-> k, ver |-> ver])

lru_insert(c, k, ver) ==
    LET rest == Without(c, k)
        room == IF Len(rest) >= CACHE_CAPACITY THEN Tail(rest) ELSE rest
    IN  Append(room, [key |-> k, ver |-> ver])

(***************************************************************************)
(* A HAMT maps a key to the write whose value it holds.  A put of an empty *)
(* value is an entry like any other.                                       *)
(***************************************************************************)
Leaf == [ver : Nat, empty : BOOLEAN]

NoLeaf == [ver |-> 0, empty |-> FALSE]

Tree == [Key -> Leaf]

EmptyTree == [k \in Key |-> NoLeaf]

tree_put(tree, recs) ==
    [k \in Key |-> IF Writes(recs, k) = {} THEN tree[k]
                   ELSE [ver |-> LastWrite(recs, k).ver, empty |-> LastWrite(recs, k).empty]]

KeysOf(recs) == {recs[i].key : i \in DOMAIN recs}

-----------------------------------------------------------------------------
(***************************************************************************)
(* What put, put_batch, bulk_ingest and delete do besides module Engine.   *)
(* put and delete invalidate their key, batches clear the cache, and       *)
(* put_profiled leaves the cache alone.  While a backup is made, its       *)
(* caller holds the engine for itself.                                     *)
(***************************************************************************)
Free == backup.at = "none"

Written(recs) ==
    /\ state' = tree_put(state, recs)
    /\ detached' = detached \ KeysOf(recs)
    /\ UNCHANGED << snapshots, counter, backup >>

Invalidate(k) ==
    /\ cache' = Without(cache, k)
    /\ stale' = stale \ {k}

Clear ==
    /\ cache' = << >>
    /\ stale' = {}

Overlook(ks) ==
    /\ UNCHANGED cache
    /\ stale' = stale \cup {k \in ks : Cached(k)}

\* Faulty: updates memtable and state without invalidating the cache.
store_putUncached(item) ==
    /\ Free
    /\ put(item)
    /\ UNCHANGED << cache, stale >>
    /\ Written(Numbered(<< item >>))

store_put(item) ==
    /\ Free
    /\ put(item)
    /\ Invalidate(item.key)
    /\ Written(Numbered(<< item >>))

put_profiled(item) ==
    /\ Free
    /\ put(item)
    /\ Overlook({item.key})
    /\ Written(Numbered(<< item >>))

bulk_ingest(items) ==
    /\ Free
    /\ put_batch(items)
    /\ Clear
    /\ Written(Numbered(items))

store_delete(k) ==
    /\ Free
    /\ delete(k)
    /\ Invalidate(k)
    /\ state' = [state EXCEPT ![k] = NoLeaf]
    /\ detached' = detached \ {k}
    /\ UNCHANGED << snapshots, counter, backup >>

(***************************************************************************)
(* Engine::get and get_profiled: the memtables, then the cache, then the   *)
(* levels, whose lock the compaction thread holds until its files are      *)
(* saved.  A live record is put into the cache.  The reads that change     *)
(* nothing are not steps.                                                  *)
(***************************************************************************)
InMemory(k) == Has(mem, k) \/ Holders(frozen, k) # {}

Got(k) ==
    IF ~InMemory(k) /\ Cached(k) THEN [ver |-> CachedVer(k), tombstone |-> FALSE]
    ELSE Lookup(k)

get(k) ==
    /\ Free
    /\ phase = "open"
    /\ ~InMemory(k)
    /\ \/ /\ Cached(k)
          /\ cache' = lru_insert(cache, k, CachedVer(k))
          /\ UNCHANGED stale
       \/ /\ ~Cached(k)
          /\ saver = "idle"
          /\ Answer(LevelsEntry(levels, k)) # NoEntry
          /\ cache' = lru_insert(cache, k, LevelsEntry(levels, k).ver)
          /\ stale' = IF Holders(queue, k) # {} THEN stale \cup {k} ELSE stale \ {k}
    /\ UNCHANGED << vars, treeVars, backup, detached >>

-----------------------------------------------------------------------------
(***************************************************************************)
(* Snapshots and branches: both live in Engine.snapshots.  An unnamed      *)
(* snapshot takes its name from the counter; any caller may use that name. *)
(***************************************************************************)
SnapName == Name \cup 1 .. MaxAuto

Put(m, name, tree) == [n \in DOMAIN m \cup {name} |-> IF n = name THEN tree ELSE m[n]]

Drop(m, name) == [n \in DOMAIN m \ {name} |-> m[n]]

snapshot_create(name) ==
    /\ Free /\ phase = "open"
    /\ snapshots' = Put(snapshots, name, state)
    /\ UNCHANGED << vars, cache, state, counter, backup, stale, detached >>

snapshot_create_auto ==
    /\ Free /\ phase = "open"
    /\ counter < MaxAuto
    /\ counter' = counter + 1
    /\ snapshots' = Put(snapshots, counter', state)
    /\ UNCHANGED << vars, cache, state, backup, stale, detached >>

snapshot_restore(name) ==
    /\ Free /\ phase = "open"
    /\ name \in DOMAIN snapshots
    /\ state' = snapshots[name]
    /\ detached' = detached \cup {k \in Key : state[k] # state'[k]}
    /\ UNCHANGED << vars, cache, snapshots, counter, backup, stale >>

\* snapshot_delete and branch_rollback
snapshot_delete(name) ==
    /\ Free /\ phase = "open"
    /\ name \in DOMAIN snapshots
    /\ snapshots' = Drop(snapshots, name)
    /\ UNCHANGED << vars, cache, state, counter, backup, stale, detached >>

branch_create(branch, from) ==
    /\ Free /\ phase = "open"
    /\ from \in DOMAIN snapshots
    /\ snapshots' = Put(snapshots, branch, snapshots[from])
    /\ UNCHANGED << vars, cache, state, counter, backup, stale, detached >>

(***************************************************************************)
(* branch_merge writes every entry of the branch, in the order of the HAMT *)
(* (any order here), and forgets the branch.  The cache is left alone.     *)
(***************************************************************************)
Entries(tree) == {[key |-> k, empty |-> tree[k].empty] : k \in {x \in Key : tree[x] # NoLeaf}}

Orders(set) ==
    {s \in [1 .. Cardinality(set) -> set] : \A i, j \in DOMAIN s : s[i] = s[j] => i = j}

store_merge(branch) ==
    /\ Free /\ phase = "open"
    /\ branch \in DOMAIN snapshots
    /\ \E items \in Orders(Entries(snapshots[branch])) :
        /\ IF items = << >> THEN UNCHANGED vars ELSE branch_merge(items)
        /\ Overlook(KeysOf(items))
        /\ state' = tree_put(state, Numbered(items))
        /\ detached' = detached \ KeysOf(items)
    /\ snapshots' = Drop(snapshots, branch)
    /\ UNCHANGED << counter, backup >>

-----------------------------------------------------------------------------
(***************************************************************************)
(* handle_backup holds the engine, flushes the memtable and copies the     *)
(* directory while the compaction thread may go on rewriting page files.   *)
(* The log file is copied as the operating system has it.  A page file     *)
(* that is gone when it is opened ends the backup with an error.           *)
(***************************************************************************)
NoBackup == [at |-> "none", log |-> << >>, files |-> {}]

handle_backup ==
    /\ Free /\ phase = "open"
    /\ IF mem # EmptyPage THEN flush_memtable(mem) ELSE UNCHANGED memVars
    /\ backup' = [at |-> "copying", log |-> << >>, files |-> {}]
    /\ UNCHANGED << phase, walVars, diskVars, history, cache, treeVars, stale, detached >>

copy_file ==
    /\ backup.at = "copying"
    /\ \E f \in disk \ backup.files :
        /\ \A g \in backup.files : g.level # f.level \/ g.index # f.index
        /\ backup' = [backup EXCEPT !.files = @ \cup {f}]
    /\ UNCHANGED << vars, cache, treeVars, stale, detached >>

\* Faulty: the log is left out of the copy.
copy_endUnlogged ==
    /\ backup.at = "copying"
    /\ backup' \in {[backup EXCEPT !.at = "made"], NoBackup}
    /\ UNCHANGED << vars, cache, treeVars, stale, detached >>

copy_end ==
    /\ backup.at = "copying"
    /\ backup' \in {[backup EXCEPT !.at = "made", !.log = SubSeq(wal, 1, flushed)], NoBackup}
    /\ UNCHANGED << vars, cache, treeVars, stale, detached >>

backup_returns ==
    /\ backup.at = "made"
    /\ backup' = NoBackup
    /\ UNCHANGED << vars, cache, treeVars, stale, detached >>

-----------------------------------------------------------------------------
(***************************************************************************)
(* open starts with an empty cache and without snapshots, and rebuilds the *)
(* state from the memtable, which is empty if the replay filled it enough  *)
(* to be flushed.                                                          *)
(***************************************************************************)
Forget ==
    /\ cache' = << >> /\ state' = EmptyTree /\ snapshots' = << >> /\ counter' = 0
    /\ backup' = NoBackup /\ stale' = {} /\ detached' = {}

\* Faulty: keeps the tombstones of the memtable as entries.
StateOfDead(m) ==
    [k \in Key |-> IF m[k] = NoEntry THEN NoLeaf ELSE [ver |-> m[k].ver, empty |-> FALSE]]

StateOf(m) ==
    [k \in Key |-> IF Answer(m[k]) = NoEntry THEN NoLeaf ELSE [ver |-> m[k].ver, empty |-> FALSE]]

store_open ==
    /\ open
    /\ cache' = << >> /\ snapshots' = << >> /\ counter' = 0
    /\ backup' = NoBackup /\ stale' = {}
    /\ state' = StateOf(mem')
    /\ detached' = {k \in Key : Holders(queue', k) # {}}

Unaffected == UNCHANGED storeOnly

StoreInit ==
    /\ Init
    /\ cache = << >> /\ state = EmptyTree /\ snapshots = << >> /\ counter = 0
    /\ backup = NoBackup /\ stale = {} /\ detached = {}

StoreNext ==
    \/ store_open
    \/ \E item \in Item : store_put(item) \/ put_profiled(item)
    \/ \E items \in Batches(MaxBatch) : bulk_ingest(items)
    \/ \E k \in Key : store_delete(k) \/ get(k)
    \/ \E name \in SnapName :
        \/ snapshot_create(name) \/ snapshot_restore(name) \/ snapshot_delete(name)
        \/ \E from \in SnapName : branch_create(name, from)
        \/ store_merge(name)
    \/ snapshot_create_auto
    \/ handle_backup \/ copy_file \/ copy_end \/ backup_returns
    \/ Free /\ (flush \/ sync) /\ Unaffected
    \/ Free /\ close /\ Unaffected
    \/ join /\ Forget
    \/ worker /\ Unaffected
    \/ crash /\ Forget

(***************************************************************************)
(* Fairness as in Engine.                                                  *)
(***************************************************************************)
StoreSpec ==
    /\ StoreInit /\ [][StoreNext]_storeVars
    /\ WF_storeVars(worker /\ Unaffected) /\ WF_storeVars(join /\ Forget)

-----------------------------------------------------------------------------
StoreTypeOK ==
    /\ TypeOK
    /\ cache \in Seq([key : Key, ver : Nat \ {0}])
    /\ Len(cache) <= CACHE_CAPACITY
    /\ state \in Tree
    /\ DOMAIN snapshots \subseteq SnapName
    /\ \A n \in DOMAIN snapshots : snapshots[n] \in Tree
    /\ counter \in 0 .. MaxAuto
    /\ stale \subseteq Key /\ detached \subseteq Key

(***************************************************************************)
(* CachedReads: what get returns, from the cache or not, reflects the last *)
(* acknowledged write of the key once no queued page holds it, unless its  *)
(* cache entry was filled while a newer page was queued or was overlooked  *)
(* by put_profiled or branch_merge.                                        *)
(***************************************************************************)
CachedReads ==
    ~hole /\ phase = "open" =>
        \A k \in Key \ (clobbered \cup stale) :
            Holders(queue, k) = {} => Fresh(wal, k, acked[k], Got(k))

(***************************************************************************)
(* ScannedReads: the same for scan, which does not use the cache, once the *)
(* memtable has been flushed since open, or for a key that no level holds. *)
(***************************************************************************)
ScannedReads ==
    ~hole /\ phase = "open" =>
        \A k \in Key \ clobbered :
            /\ Holders(queue, k) = {}
            /\ frozen # << >> \/ LevelsEntry(levels, k) = NoEntry
            => Fresh(wal, k, acked[k], ScanEntry(k))

(***************************************************************************)
(* StateAgrees: the HAMT state, from which snapshots, branches and server  *)
(* transactions start, holds the newest record of every key, as the        *)
(* memtable, the queued pages and the levels hold it; except for keys that *)
(* a restore changed or that open had flushed before it built the state,   *)
(* until they are written again.                                           *)
(***************************************************************************)
StateAgrees ==
    ~hole /\ phase = "open" =>
        \A k \in Key \ (clobbered \cup detached) :
            state[k].ver = Answer(LastEntry(Stack, k)).ver

(***************************************************************************)
(* BackupComplete: an engine opened on a backup holds the last             *)
(* acknowledged write of every key, although the page files were copied    *)
(* while the compaction thread rewrote them, some before and some after;   *)
(* each copied page is covered by the copied log.  This needs a log without*)
(* buffered records.                                                       *)
(***************************************************************************)
BackupComplete ==
    backup.at = "made" /\ ~hole /\ phase = "open" /\ flushed = Len(wal) =>
        /\ \A k \in Key : Fresh(backup.log, k, acked[k], Replayed(backup.log)[k])
        /\ \A f \in backup.files : LogCovers(backup.log, f.page)
=============================================================================
