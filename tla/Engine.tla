------------------------------- MODULE Engine -------------------------------
(***************************************************************************)
(* The storage engine (engine.rs) with the components it wires together:   *)
(* the write-ahead log (storage/wal.rs), the memtable (storage/memtable.rs)*)
(* the channel to the compaction thread and that thread                    *)
(* (storage/bg_compaction.rs), the page levels (module Compaction) and the *)
(* page files (storage/page_store.rs), with process crashes and restarts.  *)
(*                                                                         *)
(* Engine methods that write take &mut self, and callers share the engine  *)
(* behind a RwLock, so each one is a single step; only the compaction      *)
(* thread and a crash interleave with them.  A crash in the middle of a    *)
(* method is a crash that finds some of the method's log bytes written.    *)
(***************************************************************************)
EXTENDS Compaction

CONSTANTS
    FLUSH_THRESHOLD, \* memtable size that triggers a flush
    MaxWrites,       \* bound: number of writes in a behaviour
    MaxBatch,        \* bound: records in one batch
    MaxBranch        \* bound: entries in one merged branch

ASSUME BoundsAssumption ==
    /\ FLUSH_THRESHOLD \in Nat \ {0}
    /\ MaxWrites \in Nat
    /\ MaxBatch \in Nat
    /\ MaxBranch \in Nat

VARIABLES
    phase,     \* "open", "closing" (inside Engine::close) or "down"
    wal,       \* the log: the records a replay reaches, then the buffered ones
    flushed,   \* how many of them have left the BufWriter for the file
    torn,      \* the file ends in, or continues after, a partial record
    mem,       \* the active memtable
    frozen,    \* the frozen memtables, newest last
    queue,     \* pages sent to the compaction thread and not yet received
    levels,    \* L0, L1 and L2
    disk,      \* the page files
    saver,     \* the compaction thread in save_all: "idle", "clearing", "writing"
    \* history variables, read by no guard of the program
    clock,     \* number of writes so far
    acked,     \* per key, the last write whose call has returned
    clobbered, \* keys that lost a record to the order of merge_pages
    hole       \* the log lacks a record of a call that has returned

walVars  == << wal, flushed, torn >>
memVars  == << mem, frozen, queue >>
diskVars == << levels, disk, saver >>
history  == << clock, acked, clobbered, hole >>
vars     == << phase, walVars, memVars, diskVars, history >>

-----------------------------------------------------------------------------
(***************************************************************************)
(* WalRecord: a put of an empty value and a delete are the same record.    *)
(***************************************************************************)
Record == [key : Key, ver : Nat, empty : BOOLEAN]

Item == [key : Key, empty : BOOLEAN]

Batches(max) == UNION {[1 .. n -> Item] : n \in 1 .. max}

Numbered(items) ==
    [i \in DOMAIN items |->
        [key |-> items[i].key, ver |-> clock + i, empty |-> items[i].empty]]

Writes(recs, k) == {i \in DOMAIN recs : recs[i].key = k}

LastWrite(recs, k) == recs[Max(Writes(recs, k))]

(***************************************************************************)
(* Memtable::put and Memtable::delete, for each record in turn: the last   *)
(* record of a key is what remains.  A put of an empty value is live in    *)
(* memory.  With sizes in records, a memtable that reaches the threshold   *)
(* in the middle of a batch is still there at its end.                     *)
(***************************************************************************)
PutAll(page, recs) ==
    [k \in Key |->
        IF Writes(recs, k) = {} THEN page[k]
        ELSE [ver |-> LastWrite(recs, k).ver, tombstone |-> FALSE]]

DeleteAll(page, recs) ==
    [k \in Key |->
        IF Writes(recs, k) = {} THEN page[k]
        ELSE [ver |-> LastWrite(recs, k).ver, tombstone |-> TRUE]]

(***************************************************************************)
(* The replay of a log into an empty memtable: an empty value is read back *)
(* as a tombstone.                                                         *)
(***************************************************************************)
Replayed(recs) ==
    [k \in Key |->
        IF Writes(recs, k) = {} THEN NoEntry
        ELSE [ver |-> LastWrite(recs, k).ver, tombstone |-> LastWrite(recs, k).empty]]

should_flush(m) == PageSize(m) >= FLUSH_THRESHOLD

(***************************************************************************)
(* WalWriter::append of all the records, then flush() or not.  A replay    *)
(* stops at the first partial record, so what is appended behind one is    *)
(* never read again: the model does not keep it and notes the hole.        *)
(***************************************************************************)
\* Faulty: counts the records appended behind a partial one.
AppendToLogMiscounted(recs, flush) ==
    /\ clock + Len(recs) <= MaxWrites
    /\ clock' = clock + Len(recs)
    /\ wal' = IF torn THEN wal ELSE wal \o recs
    /\ flushed' = IF flush THEN flushed + Len(recs) ELSE flushed
    /\ hole' = (hole \/ torn)
    /\ UNCHANGED torn

AppendToLog(recs, flush) ==
    /\ clock + Len(recs) <= MaxWrites
    /\ clock' = clock + Len(recs)
    /\ wal' = IF torn THEN wal ELSE wal \o recs
    /\ flushed' = IF flush THEN Len(wal') ELSE flushed
    /\ hole' = (hole \/ torn)
    /\ UNCHANGED torn

Acknowledge(recs) ==
    /\ acked' = [k \in Key |-> IF Writes(recs, k) = {} THEN acked[k]
                               ELSE LastWrite(recs, k).ver]
    /\ clobbered' = {k \in clobbered : Writes(recs, k) = {}}

(***************************************************************************)
(* flush_memtable: m becomes a page for the compaction thread.  Building   *)
(* the page drains the memtable, and it is the drained one that is kept as *)
(* frozen; at most two are.                                                *)
(***************************************************************************)
drain(m) == EmptyPage

KeepTwo(s) == IF Len(s) > 2 THEN Tail(s) ELSE s

\* Faulty: the page is not sent to the compaction thread.
flush_memtableUnsent(m) ==
    /\ frozen' = KeepTwo(Append(frozen, drain(m)))
    /\ mem' = EmptyPage
    /\ UNCHANGED queue

flush_memtable(m) ==
    /\ queue' = Append(queue, m)
    /\ frozen' = KeepTwo(Append(frozen, drain(m)))
    /\ mem' = EmptyPage

InsertThenFlush(m) ==
    IF should_flush(m) THEN flush_memtable(m)
    ELSE mem' = m /\ UNCHANGED << frozen, queue >>

-----------------------------------------------------------------------------
(***************************************************************************)
(* Engine::put and put_profiled; put_batch and bulk_ingest; delete.        *)
(***************************************************************************)
PutRecords(items) ==
    LET recs == Numbered(items)
    IN  /\ phase = "open"
        /\ AppendToLog(recs, TRUE)
        /\ InsertThenFlush(PutAll(mem, recs))
        /\ Acknowledge(recs)
        /\ UNCHANGED << phase, diskVars >>

put(item) == PutRecords(<< item >>)

put_batch(items) == PutRecords(items)

delete(k) ==
    LET recs == Numbered(<< [key |-> k, empty |-> TRUE] >>)
    IN  /\ phase = "open"
        /\ AppendToLog(recs, TRUE)
        /\ InsertThenFlush(DeleteAll(mem, recs))
        /\ Acknowledge(recs)
        /\ UNCHANGED << phase, diskVars >>

(***************************************************************************)
(* branch_merge writes every entry of a branch, each key once, without     *)
(* flushing the log and without looking at the flush threshold.  Which     *)
(* entries the branch holds is left open here.                             *)
(***************************************************************************)
branch_merge(items) ==
    LET recs == Numbered(items)
    IN  /\ phase = "open"
        /\ \A i, j \in DOMAIN items : items[i].key = items[j].key => i = j
        /\ AppendToLog(recs, FALSE)
        /\ mem' = PutAll(mem, recs)
        /\ Acknowledge(recs)
        /\ UNCHANGED << phase, frozen, queue, diskVars >>

flush ==
    /\ phase = "open"
    /\ mem # EmptyPage
    /\ flush_memtable(mem)
    /\ UNCHANGED << phase, walVars, diskVars, history >>

sync ==
    /\ phase = "open"
    /\ flushed' = Len(wal)
    /\ UNCHANGED << phase, wal, torn, memVars, diskVars, history >>

(***************************************************************************)
(* Engine::close flushes the memtable, syncs the log, sends Shutdown and   *)
(* joins the thread, which receives the queued pages first.                *)
(***************************************************************************)
close ==
    /\ phase = "open"
    /\ phase' = "closing"
    /\ flushed' = Len(wal)
    /\ IF mem # EmptyPage THEN flush_memtable(mem) ELSE UNCHANGED memVars
    /\ UNCHANGED << wal, torn, diskVars, history >>

NoLevels == [l \in 0 .. 2 |-> << >>]

LoseMemory ==
    /\ phase' = "down"
    /\ mem' = EmptyPage
    /\ frozen' = << >>
    /\ queue' = << >>
    /\ levels' = NoLevels
    /\ saver' = "idle"
    /\ UNCHANGED disk

join ==
    /\ phase = "closing"
    /\ queue = << >>
    /\ saver = "idle"
    /\ LoseMemory
    /\ UNCHANGED << walVars, history >>

-----------------------------------------------------------------------------
(***************************************************************************)
(* The compaction thread.  add_page receives a page and puts it into the   *)
(* levels; save_all then rewrites the page files one file at a time, under *)
(* the lock of the levels: it deletes every file, in directory order, and  *)
(* writes the pages by level and index.  An I/O error ends save_all where  *)
(* it stands and is only logged.                                           *)
(***************************************************************************)
add_page ==
    /\ phase # "down"
    /\ saver = "idle"
    /\ queue # << >>
    /\ queue' = Tail(queue)
    /\ levels' = add_l0_page(levels, Head(queue))
    /\ clobbered' = IF Len(levels[0]) + 1 >= L0_LIMIT
                    THEN clobbered \cup Overlapping(Append(levels[0], Head(queue)))
                    ELSE clobbered
    /\ saver' = "clearing"
    /\ UNCHANGED << phase, walVars, mem, frozen, disk, clock, acked, hole >>

File == [level : 0 .. 2, index : Nat, page : Page]

FilesOf(lv) ==
    UNION {{[level |-> l, index |-> i, page |-> lv[l][i]] : i \in DOMAIN lv[l]}
            : l \in 0 .. 2}

Before(f, g) ==
    \/ f.level < g.level
    \/ f.level = g.level /\ f.index < g.index

remove_file ==
    /\ saver = "clearing"
    /\ \E f \in disk : disk' = disk \ {f}
    /\ UNCHANGED << phase, walVars, memVars, levels, saver, history >>

write_file ==
    /\ saver = "writing" \/ (saver = "clearing" /\ disk = {})
    /\ \E f \in FilesOf(levels) \ disk :
        /\ \A g \in FilesOf(levels) : Before(g, f) => g \in disk
        /\ disk' = disk \cup {f}
    /\ saver' = IF disk' = FilesOf(levels) THEN "idle" ELSE "writing"
    /\ UNCHANGED << phase, walVars, memVars, levels, history >>

\* Faulty: starts over after every I/O error.
save_failsRetried ==
    /\ saver # "idle"
    /\ saver' = "clearing"
    /\ UNCHANGED << phase, walVars, memVars, levels, disk, history >>

save_fails ==
    /\ saver # "idle"
    /\ saver' = "idle"
    /\ UNCHANGED << phase, walVars, memVars, levels, disk, history >>

-----------------------------------------------------------------------------
(***************************************************************************)
(* A process crash.  The memory is gone, the page files stay as they are.  *)
(* A write call may be in progress (inflight): of its records, and of the  *)
(* records that were only buffered, the file has received a prefix, and    *)
(* possibly a part of the next record.                                     *)
(***************************************************************************)
crash ==
    /\ phase # "down"
    /\ \E inflight \in {<< >>} \cup (IF phase = "open" /\ ~torn THEN Batches(MaxBatch) ELSE {}) :
        LET all == wal \o Numbered(inflight)
        IN  /\ clock + Len(inflight) <= MaxWrites
            /\ clock' = clock + Len(inflight)
            /\ \E n \in flushed .. Len(all) :
                /\ wal' = SubSeq(all, 1, n)
                /\ flushed' = n
                /\ torn' \in (IF torn THEN {TRUE} ELSE IF n < Len(all) THEN BOOLEAN ELSE {FALSE})
                /\ hole' = (hole \/ n < Len(wal))
    /\ LoseMemory
    /\ UNCHANGED << acked, clobbered >>

(***************************************************************************)
(* PageStore::load_all: the files of a level, sorted by index.             *)
(***************************************************************************)
SortedFiles(l) ==
    LET files == {f \in disk : f.level = l}
        n     == Cardinality(files)
    IN  {s \in [1 .. n -> files] : \A i, j \in 1 .. n : i < j => s[i].index < s[j].index}

PagesOf(s) == [i \in DOMAIN s |-> s[i].page]

(***************************************************************************)
(* Engine::open: load the pages, replay the log, and flush the memtable if *)
(* the replay filled it.  The log is kept and appended to.                 *)
(***************************************************************************)
\* Faulty: truncates the log after the replay.
openTruncating ==
    /\ phase = "down"
    /\ phase' = "open"
    /\ \E l0 \in SortedFiles(0), l1 \in SortedFiles(1), l2 \in SortedFiles(2) :
        levels' = [l \in 0 .. 2 |-> IF l = 0 THEN PagesOf(l0)
                                    ELSE IF l = 1 THEN PagesOf(l1) ELSE PagesOf(l2)]
    /\ LET m == Replayed(wal)
       IN  IF should_flush(m) THEN mem' = drain(m) /\ queue' = << m >>
           ELSE mem' = m /\ queue' = << >>
    /\ wal' = << >> /\ flushed' = 0 /\ torn' = FALSE
    /\ frozen' = << >>
    /\ clobbered' = {}
    /\ UNCHANGED << disk, saver, clock, acked, hole >>

open ==
    /\ phase = "down"
    /\ phase' = "open"
    /\ \E l0 \in SortedFiles(0), l1 \in SortedFiles(1), l2 \in SortedFiles(2) :
        levels' = [l \in 0 .. 2 |-> IF l = 0 THEN PagesOf(l0)
                                    ELSE IF l = 1 THEN PagesOf(l1) ELSE PagesOf(l2)]
    /\ LET m == Replayed(wal)
       IN  IF should_flush(m) THEN mem' = drain(m) /\ queue' = << m >>
           ELSE mem' = m /\ queue' = << >>
    /\ frozen' = << >>
    /\ clobbered' = {}
    /\ UNCHANGED << walVars, disk, saver, clock, acked, hole >>

-----------------------------------------------------------------------------
Init ==
    /\ phase = "down"
    /\ wal = << >> /\ flushed = 0 /\ torn = FALSE
    /\ mem = EmptyPage /\ frozen = << >> /\ queue = << >>
    /\ levels = NoLevels /\ disk = {} /\ saver = "idle"
    /\ clock = 0 /\ acked = [k \in Key |-> 0] /\ clobbered = {} /\ hole = FALSE

worker == add_page \/ remove_file \/ write_file \/ save_fails

Next ==
    \/ open
    \/ \E item \in Item : put(item)
    \/ \E items \in Batches(MaxBatch) : put_batch(items)
    \/ \E items \in Batches(MaxBranch) : branch_merge(items)
    \/ \E k \in Key : delete(k)
    \/ flush \/ sync \/ close \/ join
    \/ worker
    \/ crash

(***************************************************************************)
(* The compaction thread keeps running as long as the process does, and    *)
(* close() returns once the thread has been joined.                        *)
(***************************************************************************)
Spec == Init /\ [][Next]_vars /\ WF_vars(worker) /\ WF_vars(join)

-----------------------------------------------------------------------------
TypeOK ==
    /\ phase \in {"open", "closing", "down"}
    /\ wal \in Seq(Record)
    /\ flushed \in 0 .. Len(wal)
    /\ torn \in BOOLEAN
    /\ mem \in Page
    /\ frozen \in Seq(Page)
    /\ queue \in Seq(Page)
    /\ levels \in [0 .. 2 -> Seq(Page)]
    /\ disk \in SUBSET File
    /\ IsFiniteSet(disk)
    /\ saver \in {"idle", "clearing", "writing"}
    /\ clock \in Nat
    /\ acked \in [Key -> Nat]
    /\ clobbered \in SUBSET Key
    /\ hole \in BOOLEAN

(***************************************************************************)
(* Every page the engine holds in memory, oldest first in the order that   *)
(* reads assume.                                                           *)
(***************************************************************************)
Stack == levels[2] \o levels[1] \o levels[0] \o queue \o << mem >>

(***************************************************************************)
(* PagesInOrder: of two pages that hold a key, the one that is read first  *)
(* is at least as recent: the memtable before the queued pages, later L0   *)
(* pages before earlier ones, L0 before L1 before L2.  Flushes, merges,    *)
(* partly saved page files, crashes and replays keep it so, as long as the *)
(* log has no hole.                                                        *)
(***************************************************************************)
PagesInOrder == ~hole => Ascending(Stack)

(***************************************************************************)
(* LogCoversPages: each record of a page in memory or in a file is also a  *)
(* record of the log, and a tombstone is a record with an empty value.     *)
(* This is why load_all may skip files and save_all may be interrupted at  *)
(* any file.                                                               *)
(***************************************************************************)
InLog(log, k, e) ==
    \E i \in DOMAIN log : /\ log[i].key = k
                          /\ log[i].ver = e.ver
                          /\ e.tombstone => log[i].empty

LogCovers(log, p) == \A k \in Key : Has(p, k) => InLog(log, k, p[k])

LogCoversPages ==
    ~hole => /\ \A i \in DOMAIN Stack : LogCovers(wal, Stack[i])
             /\ \A f \in disk : LogCovers(wal, f.page)

(***************************************************************************)
(* The entry Engine::get finds for k when the LRU cache, which it consults *)
(* between the frozen memtables and the levels, holds no value for k.  The *)
(* cache is not part of this module.                                       *)
(***************************************************************************)
Lookup(k) ==
    IF Has(mem, k) THEN mem[k]
    ELSE IF Holders(frozen, k) # {} THEN LastEntry(frozen, k)
    ELSE LevelsEntry(levels, k)

(***************************************************************************)
(* The entry Engine::scan finds for k.  Its fast path, which reads the     *)
(* memtable only, is taken until the first flush; from then on there are   *)
(* frozen memtables.                                                       *)
(***************************************************************************)
\* Faulty: never reads the levels.
ScanEntryMemory(k) ==
    IF Has(mem, k) THEN mem[k]
    ELSE IF Holders(frozen, k) # {} THEN LastEntry(frozen, k)
    ELSE NoEntry

ScanEntry(k) ==
    IF frozen = << >> THEN mem[k]
    ELSE IF Has(mem, k) THEN mem[k]
    ELSE IF Holders(frozen, k) # {} THEN LastEntry(frozen, k)
    ELSE LevelsEntry(levels, k)

(***************************************************************************)
(* An entry e for k reflects the write v, or a later one (which a crash    *)
(* interrupted).  If a delete of that age is in the log, there may be no   *)
(* entry left.                                                             *)
(***************************************************************************)
Deleted(log, k, v) == \E i \in Writes(log, k) : log[i].ver >= v /\ log[i].empty

Fresh(log, k, v, e) == e.ver >= v \/ (e = NoEntry /\ Deleted(log, k, v))

(***************************************************************************)
(* NothingLost: while the engine is up, the newest record it holds of a    *)
(* key reflects the last acknowledged write, whatever was flushed,         *)
(* compacted, saved in part or recovered from a crash; except for keys of  *)
(* which merge_pages kept the older of two L0 records.                     *)
(***************************************************************************)
NothingLost ==
    ~hole /\ phase # "down" =>
        \A k \in Key \ clobbered : Fresh(wal, k, acked[k], LastEntry(Stack, k))

(***************************************************************************)
(* SettledReads: a get that misses the LRU cache returns the last          *)
(* acknowledged write of a key once no queued page holds the key.          *)
(***************************************************************************)
SettledReads ==
    ~hole /\ phase = "open" =>
        \A k \in Key \ clobbered :
            Holders(queue, k) = {} => Fresh(wal, k, acked[k], Lookup(k))

(***************************************************************************)
(* CompactionKeepsAnswers: adding a page, with the merges it triggers,     *)
(* changes nothing that the levels answer for a key the page does not hold *)
(* and of which L0 holds no two records.                                   *)
(***************************************************************************)
Answer(e) == IF e.tombstone THEN NoEntry ELSE e

CompactionKeepsAnswers ==
    [][add_page =>
        \A k \in Key \ Overlapping(levels[0]) :
            ~Has(Head(queue), k) =>
                Answer(LevelsEntry(levels, k)') = Answer(LevelsEntry(levels, k))]_vars

(***************************************************************************)
(* CloseReturns: close() comes to an end, also when page files cannot be   *)
(* written.                                                                *)
(***************************************************************************)
CloseReturns == phase = "closing" ~> phase = "down"

-----------------------------------------------------------------------------
(***************************************************************************)
(* What comments of the code say, and the code does not do.                *)
(*                                                                         *)
(* ReadYourWrites: get always finds the last acknowledged write.  The      *)
(* comment in flush_memtable keeps the frozen memtable "for reads until    *)
(* compactor processes it", but it has been drained.                       *)
(***************************************************************************)
ReadYourWrites ==
    ~hole /\ phase = "open" =>
        \A k \in Key \ clobbered : Fresh(wal, k, acked[k], Lookup(k))

(***************************************************************************)
(* MergeKeepsNewest: NothingLost for every key.  merge_pages says that its *)
(* input is newest first, but compact_l0_to_l1 passes the L0 pages in the  *)
(* order in which they were flushed.                                       *)
(***************************************************************************)
MergeKeepsNewest ==
    ~hole /\ phase # "down" =>
        \A k \in Key : Fresh(wal, k, acked[k], LastEntry(Stack, k))

(***************************************************************************)
(* LogKeepsAcknowledged: after a crash or a close, the records that a      *)
(* replay reads include the last acknowledged write of each key, or a      *)
(* later one.                                                              *)
(***************************************************************************)
LogKeepsAcknowledged ==
    phase = "down" =>
        \A k \in Key : acked[k] # 0 => \E i \in Writes(wal, k) : wal[i].ver >= acked[k]
=============================================================================
