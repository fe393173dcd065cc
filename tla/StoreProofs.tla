---------------------------- MODULE StoreProofs -----------------------------
(***************************************************************************)
(* Proofs about module Store, second part: the HAMT state holds what the   *)
(* pages hold, and the theorems about reads, scans, the state and backups. *)
(***************************************************************************)
EXTENDS StoreCacheProofs

-----------------------------------------------------------------------------
(***************************************************************************)
(* The HAMT state and the pages.  A call that writes the keys ks to the    *)
(* top of the stack, and flushes it or not.                                *)
(***************************************************************************)
LEMMA AgreeWritten ==
    ASSUME TypeOK, StateAgrees, NEW m \in Page, OnTop(Stack', Base, m), NEW ks \in SUBSET Key,
           phase' = phase, ~hole' => ~hole,
           \A k \in Key \ ks : /\ m[k] = mem[k] /\ state'[k] = state[k]
                               /\ k \in clobbered' <=> k \in clobbered
                               /\ k \in detached' <=> k \in detached,
           \A k \in ks : Has(m, k) /\ state'[k].ver = Answer(m[k]).ver
    PROVE  StateAgrees'
<1>1. SUFFICES ASSUME ~hole', phase = "open", NEW k \in Key \ (clobbered' \cup detached')
               PROVE  state'[k].ver = Answer(LastEntry(Stack', k)).ver
  BY DEF StateAgrees
<1>2. Base \in Seq(Page) /\ Stack = Base \o << mem >> /\ mem \in Page
  BY StackView DEF TypeOK
<1>3. LastEntry(Stack', k) = IF Has(m, k) THEN m[k] ELSE LastEntry(Base, k)
  BY <1>2, OnTopFacts
<1>4. LastEntry(Stack, k) = IF Has(mem, k) THEN mem[k] ELSE LastEntry(Base, k)
  BY <1>2, Top
<1>5. CASE k \in ks
  BY <1>3, <1>5
<1>6. CASE k \notin ks
  <2>1. k \in Key \ (clobbered \cup detached) /\ m[k] = mem[k] /\ state'[k] = state[k]
    BY <1>1, <1>6
  <2>2. LastEntry(Stack', k) = LastEntry(Stack, k)
    BY <1>3, <1>4, <2>1 DEF Has
  <2> QED
    BY <1>1, <2>1, <2>2 DEF StateAgrees
<1> QED
  BY <1>5, <1>6

(***************************************************************************)
(* The records of one call carry the versions after the clock, none of     *)
(* them 0; an entry with such a version is there, and answers with it      *)
(* unless it is a tombstone.                                               *)
(***************************************************************************)
LEMMA NewVersion ==
    ASSUME clock \in Nat, NEW items \in Seq(Item), NEW k \in Key, Writes(Numbered(items), k) # {}
    PROVE  LastWrite(Numbered(items), k).ver \in Nat \ {0}
<1> DEFINE recs == Numbered(items)
<1>1. /\ recs \in Seq(Record) /\ DOMAIN recs = 1 .. Len(items)
      /\ \A i \in 1 .. Len(items) : recs[i].ver = clock + i
  BY NumberedType
<1>2. Len(items) \in Nat
  BY LenProperties
<1>3. Writes(recs, k) # {}
  OBVIOUS
<1> HIDE DEF recs
<1>4. PICK i \in Writes(recs, k) : LastWrite(recs, k) = recs[i]
  BY <1>1, <1>3, LastWriteProperty
<1>5. i \in 1 .. Len(items)
  BY <1>1 DEF Writes
<1>6. i \in Nat /\ i >= 1 /\ recs[i].ver = clock + i
  BY <1>1, <1>2, <1>5
<1>7. LastWrite(recs, k).ver \in Nat \ {0}
  BY <1>4, <1>6
<1> QED
  BY <1>7 DEF recs

LEMMA LiveEntry ==
    ASSUME NEW m, NEW k, NEW v \in Nat \ {0}, m[k] = [ver |-> v, tombstone |-> FALSE]
    PROVE  Has(m, k) /\ Answer(m[k]).ver = v
<1>1. m[k].ver = v /\ m[k].tombstone = FALSE
  OBVIOUS
<1> QED
  BY <1>1 DEF Has, Answer

LEMMA DeadEntry ==
    ASSUME NEW m, NEW k, NEW v \in Nat \ {0}, m[k] = [ver |-> v, tombstone |-> TRUE]
    PROVE  Has(m, k) /\ Answer(m[k]).ver = 0
<1>1. m[k].ver = v /\ m[k].tombstone = TRUE
  OBVIOUS
<1> QED
  BY <1>1 DEF Has, Answer, NoEntry

LEMMA AgreePut ==
    ASSUME TypeOK, TreeTypes, StateAgrees, NEW items \in Seq(Item), NEW fl \in BOOLEAN,
           AppendToLog(Numbered(items), fl), Acknowledge(Numbered(items)),
           \/ InsertThenFlush(PutAll(mem, Numbered(items)))
           \/ mem' = PutAll(mem, Numbered(items)) /\ UNCHANGED << frozen, queue >>,
           phase' = phase, levels' = levels,
           state' = tree_put(state, Numbered(items)), detached' = detached \ KeysOf(items)
    PROVE  StateAgrees'
<1> DEFINE recs == Numbered(items)
           m    == PutAll(mem, recs)
<1>1. clock \in Nat /\ mem \in Page
  BY DEF TypeOK
<1>2. recs \in Seq(Record)
  BY <1>1, NumberedType
<1>3. m \in Page
  BY <1>1, <1>2, MemtableTypes
<1>4. /\ KeysOf(items) \subseteq Key
      /\ \A k \in Key : Writes(recs, k) = {} <=> k \notin KeysOf(items)
      /\ \A k \in Key \ KeysOf(items) : k \in clobbered' <=> k \in clobbered
      /\ ~hole' => ~hole
  BY OthersKept, Zenon
<1>5. OnTop(Stack', Base, m)
  BY <1>3, InsertStack
<1>6. ASSUME NEW k \in Key \ KeysOf(items)
      PROVE  m[k] = mem[k] /\ state'[k] = state[k] /\ (k \in detached' <=> k \in detached)
  <2>1. k \in Key /\ Writes(recs, k) = {} /\ state' = tree_put(state, recs)
    BY <1>4
  <2>2. m[k] = mem[k] /\ state'[k] = state[k]
    BY <2>1 DEF PutAll, tree_put
  <2> QED
    BY <2>2
<1>7. ASSUME NEW k \in KeysOf(items) PROVE Has(m, k) /\ state'[k].ver = Answer(m[k]).ver
  <2>1. k \in Key /\ Writes(recs, k) # {}
    BY <1>4
  <2>2. LastWrite(recs, k).ver \in Nat \ {0}
    BY <1>1, <2>1, NewVersion
  <2>3. state' = tree_put(state, recs) /\ m = PutAll(mem, recs)
    OBVIOUS
  <2> HIDE DEF m, recs
  <2>4. m[k] = [ver |-> LastWrite(recs, k).ver, tombstone |-> FALSE]
    BY <2>1, <2>3 DEF PutAll
  <2>5. state'[k] = [ver |-> LastWrite(recs, k).ver, empty |-> LastWrite(recs, k).empty]
    BY <2>1, <2>3 DEF tree_put
  <2>6. Has(m, k) /\ Answer(m[k]).ver = LastWrite(recs, k).ver
    <3>1. PICK v \in Nat \ {0} : v = LastWrite(recs, k).ver
      BY <2>2
    <3>2. m[k] = [ver |-> v, tombstone |-> FALSE]
      BY <2>4, <3>1
    <3>3. Has(m, k) /\ Answer(m[k]).ver = v
      BY <3>2, LiveEntry, Zenon
    <3> QED
      BY <3>1, <3>3
  <2>7. state'[k].ver = LastWrite(recs, k).ver
    BY <2>5
  <2> QED
    BY <2>6, <2>7
<1> HIDE DEF m, recs
<1> QED
  BY <1>3, <1>4, <1>5, <1>6, <1>7, AgreeWritten, Zenon

LEMMA AgreeDelete ==
    ASSUME TypeOK, TreeTypes, StateAgrees, NEW k \in Key, store_delete(k)
    PROVE  StateAgrees'
<1> DEFINE item  == [key |-> k, empty |-> TRUE]
           items == << item >>
           recs  == Numbered(items)
           m     == DeleteAll(mem, recs)
<1>1. clock \in Nat /\ mem \in Page /\ state \in Tree
  BY DEF TypeOK, TreeTypes
<1>2. item \in Item /\ item.key = k
  BY DEF Item
<1>3. items \in Seq(Item) /\ KeysOf(items) = {k}
  BY <1>2, OneItem, Zenon
<1>4. /\ AppendToLog(recs, TRUE) /\ Acknowledge(recs) /\ InsertThenFlush(m)
      /\ phase' = phase /\ levels' = levels
      /\ state' = [state EXCEPT ![k] = NoLeaf] /\ detached' = detached \ {k}
  <2>1. delete(k) /\ state' = [state EXCEPT ![k] = NoLeaf] /\ detached' = detached \ {k}
    BY DEF store_delete
  <2> QED
    BY <2>1, Zenon DEF delete, diskVars
<1> HIDE DEF items
<1>5. recs \in Seq(Record)
  BY <1>1, <1>3, NumberedType
<1>6. m \in Page
  BY <1>1, <1>5, MemtableTypes
<1>7. /\ \A h \in Key : Writes(recs, h) = {} <=> h \notin {k}
      /\ \A h \in Key \ {k} : h \in clobbered' <=> h \in clobbered
      /\ ~hole' => ~hole
  BY <1>3, <1>4, OthersKept, Zenon
<1>8. OnTop(Stack', Base, m)
  BY <1>4, <1>6, InsertStack
<1>9. ASSUME NEW h \in Key \ {k}
      PROVE  m[h] = mem[h] /\ state'[h] = state[h] /\ (h \in detached' <=> h \in detached)
  BY <1>1, <1>4, <1>7, Zenon DEF DeleteAll, Tree
<1>10. Has(m, k) /\ state'[k].ver = Answer(m[k]).ver
  <2>1. Writes(recs, k) # {}
    BY <1>7
  <2>2. LastWrite(recs, k).ver \in Nat \ {0}
    BY <1>1, <1>3, <2>1, NewVersion
  <2>3. m[k] = [ver |-> LastWrite(recs, k).ver, tombstone |-> TRUE]
    BY <2>1 DEF DeleteAll
  <2>4. state'[k].ver = 0
    BY <1>1, <1>4 DEF Tree, NoLeaf
  <2> HIDE DEF m, recs
  <2>5. PICK v \in Nat \ {0} : v = LastWrite(recs, k).ver
    BY <2>2
  <2>6. m[k] = [ver |-> v, tombstone |-> TRUE]
    BY <2>3, <2>5
  <2>7. Has(m, k) /\ Answer(m[k]).ver = 0
    BY <2>6, DeadEntry, Zenon
  <2> QED
    BY <2>4, <2>7
<1> HIDE DEF m, recs
<1>11. {k} \in SUBSET Key /\ phase' = phase /\ (~hole' => ~hole)
  BY <1>4, <1>7
<1>12. \A h \in Key \ {k} : /\ m[h] = mem[h] /\ state'[h] = state[h]
                            /\ h \in clobbered' <=> h \in clobbered
                            /\ h \in detached' <=> h \in detached
  BY <1>7, <1>9, Zenon
<1>13. \A h \in {k} : Has(m, h) /\ state'[h].ver = Answer(m[h]).ver
  BY <1>10, Zenon
<1> QED
  BY <1>6, <1>8, <1>11, <1>12, <1>13, AgreeWritten, ZenonT(40)

(***************************************************************************)
(* Steps that leave the stack alone, and a flush.                          *)
(***************************************************************************)
LEMMA AgreeSame ==
    ASSUME StateAgrees, Quiet, UNCHANGED << mem, queue, levels, state, detached >>
    PROVE  StateAgrees'
<1>1. Stack' = Stack
  BY DEF Stack
<1> QED
  BY <1>1 DEF StateAgrees, Quiet

LEMMA AgreeFlush ==
    ASSUME TypeOK, StateAgrees, flush_memtable(mem), phase' = phase,
           UNCHANGED << levels, clobbered, hole, state, detached >>
    PROVE  StateAgrees'
<1>1. mem \in Page
  BY DEF TypeOK
<1>2. OnTop(Stack', Base, mem)
  BY <1>1, FlushStack
<1>3. {} \in SUBSET Key
  OBVIOUS
<1> QED
  BY <1>1, <1>2, <1>3, AgreeWritten, Zenon

(***************************************************************************)
(* The compaction thread takes a page into the levels.                     *)
(***************************************************************************)
LEMMA AgreeAddPage ==
    ASSUME IndInv, StateAgrees, add_page, UNCHANGED << state, detached >>
    PROVE  StateAgrees'
<1> DEFINE p   == Head(queue)
           r   == Tail(queue) \o << mem >>
           all == Low(levels) \o << p >>
           new == Low(levels')
<1>1. /\ p \in Page /\ r \in Seq(Page) /\ all \in Seq(Page)
      /\ levels' = add_l0_page(levels, p) /\ levels' \in Levels
      /\ new \in Seq(Page) /\ Stack = all \o r /\ Stack' = new \o r
  BY AddPageStack, Zenon
<1>2. levels \in Levels /\ Merged(levels)
  BY DEF IndInv, Sound, Shape, TypeOK, Levels
<1>3. \A k \in Key :
        (Len(levels[0]) + 1 >= L0_LIMIT => k \notin Overlapping(Append(levels[0], p)))
          => SameAnswer(LastEntry(all, k), LastEntry(new, k))
  BY <1>1, <1>2, AddPage
<1>4. \A k \in Key \ clobbered' :
        /\ k \in Key \ clobbered
        /\ Len(levels[0]) + 1 >= L0_LIMIT => k \notin Overlapping(Append(levels[0], p))
  BY DEF add_page
<1>5. UNCHANGED << phase, hole >>
  BY DEF add_page
<1> HIDE DEF p, r, all, new
<1>6. SUFFICES ASSUME ~hole, phase = "open", NEW k \in Key \ (clobbered' \cup detached)
               PROVE  state[k].ver = Answer(LastEntry(Stack', k)).ver
  BY <1>5 DEF StateAgrees
<1>7. state[k].ver = Answer(LastEntry(Stack, k)).ver
  BY <1>4, <1>6 DEF StateAgrees
<1>8. /\ LastEntry(Stack, k) = IF Holders(r, k) # {} THEN LastEntry(r, k) ELSE LastEntry(all, k)
      /\ LastEntry(Stack', k) = IF Holders(r, k) # {} THEN LastEntry(r, k) ELSE LastEntry(new, k)
  BY <1>1, <1>6, LastConcat
<1>9. CASE Holders(r, k) # {}
  BY <1>7, <1>8, <1>9
<1>10. CASE Holders(r, k) = {}
  <2>1. SameAnswer(LastEntry(all, k), LastEntry(new, k))
    BY <1>3, <1>4, <1>6
  <2>2. Answer(LastEntry(all, k)) = Answer(LastEntry(new, k))
    BY <2>1, Zenon DEF SameAnswer, Answer, NoEntry
  <2> QED
    BY <1>7, <1>8, <1>10, <2>2
<1> QED
  BY <1>9, <1>10

(***************************************************************************)
(* Engine::open.  The log covers the loaded pages, so a key that is not in *)
(* the replayed memtable is in no page.                                    *)
(***************************************************************************)
LEMMA AgreeOpen ==
    ASSUME IndInv, open, state' = StateOf(mem'), detached' = {k \in Key : Holders(queue', k) # {}}
    PROVE  StateAgrees'
<1> DEFINE m == Replayed(wal)
           w == Low(levels')
<1>1. hole' = hole
  BY DEF open
<1>2. SUFFICES ASSUME ~hole, NEW k \in Key, Holders(queue', k) = {}
               PROVE  state'[k].ver = Answer(LastEntry(Stack', k)).ver
  BY <1>1 DEF StateAgrees
<1>3. /\ m \in Page
      /\ \A i \in Writes(wal, k) : wal[i].ver <= m[k].ver
      /\ \A p \in Page : LogCovers(wal, p) => Older(p, m)
  BY ReplayNewest DEF IndInv, Sound, Safe
<1>4. w \in Seq(Page) /\ \A p \in PageSet(w) : p \in Page /\ LogCovers(wal, p)
  BY <1>2, LoadedLevels
<1>5. Stack' = (w \o queue') \o << mem' >>
  BY DEF Stack, Low
<1>6. \/ queue' = << m >> /\ mem' = EmptyPage
      \/ queue' = << >> /\ mem' = m
  BY DEF open, drain
<1>7. wal \in Seq(Record) /\ LogInOrder
  BY DEF IndInv, Sound, Safe, TypeOK
<1> HIDE DEF m, w
<1>8. OnTop(Stack', w, m)
  <2>1. w \o << >> = w
    BY <1>4, ConcatEmptySeq
  <2> QED
    BY <1>5, <1>6, <2>1, Zenon DEF OnTop
<1>9. LastEntry(Stack', k) = IF Has(m, k) THEN m[k] ELSE LastEntry(w, k)
  BY <1>3, <1>4, <1>8, OnTopFacts, Zenon
<1>10. ASSUME ~Has(m, k) PROVE LastEntry(w, k) = NoEntry
  <2>1. ASSUME NEW i \in Holders(w, k) PROVE FALSE
    <3>1. w[i] \in PageSet(w) /\ Has(w[i], k)
      BY DEF Holders, PageSet
    <3>2. PICK j \in Writes(wal, k) : wal[j].ver = w[i][k].ver
      BY <1>4, <3>1 DEF LogCovers, InLog, Writes
    <3>3. w[i][k].ver \in Nat /\ m[k].ver \in Nat
      BY <1>3, <1>4, <3>1 DEF Page, Entry
    <3> QED
      BY <1>3, <1>10, <3>1, <3>2, <3>3 DEF Has
  <2> QED
    BY <1>4, <2>1, NoHolder
<1>11. ASSUME Has(m, k) PROVE mem' = m
  <2>1. DOMAIN << m >> = {1} /\ << m >>[1] = m
    OBVIOUS
  <2> QED
    BY <1>2, <1>6, <1>11, <2>1 DEF Holders
<1>12. CASE Has(m, k)
  <2>1. LastEntry(Stack', k) = m[k] /\ m[k] \in Entry
    BY <1>3, <1>9, <1>12, Zenon DEF Page
  <2>2. state'[k] = IF Answer(m[k]) = NoEntry THEN NoLeaf ELSE [ver |-> m[k].ver, empty |-> FALSE]
    BY <1>11, <1>12 DEF StateOf
  <2> QED
    BY <2>1, <2>2 DEF Answer, NoEntry, NoLeaf, Entry
<1>13. CASE ~Has(m, k)
  <2>1. LastEntry(Stack', k) = NoEntry
    BY <1>9, <1>10, <1>13
  <2>2. mem'[k] = NoEntry \/ mem'[k] = m[k]
    BY <1>6 DEF EmptyPage
  <2>3. Answer(mem'[k]).ver = 0 /\ mem'[k].ver = 0
    BY <1>13, <2>2 DEF Has, Answer, NoEntry
  <2>4. state'[k].ver = 0
    BY <2>3 DEF StateOf, NoLeaf
  <2> QED
    BY <2>1, <2>4 DEF Answer, NoEntry
<1> QED
  BY <1>12, <1>13

LEMMA AgreeNext == IndInv /\ TreeTypes /\ StateAgrees /\ [StoreNext]_storeVars => StateAgrees'
<1>1. SUFFICES ASSUME IndInv, TreeTypes, StateAgrees, [StoreNext]_storeVars PROVE StateAgrees'
  OBVIOUS
<1>2. TypeOK /\ mem \in Page /\ state \in Tree
  BY <1>1 DEF IndInv, Sound, TypeOK, TreeTypes
<1>3. CASE store_open
  BY <1>1, <1>3, AgreeOpen, SMTT(30) DEF store_open
<1>4. CASE join \/ crash \/ close
  BY <1>4 DEF join, crash, close, LoseMemory, StateAgrees
<1>5. ASSUME NEW items \in Seq(Item), PutRecords(items), Written(Numbered(items)) PROVE StateAgrees'
  <2>1. /\ AppendToLog(Numbered(items), TRUE) /\ Acknowledge(Numbered(items))
        /\ InsertThenFlush(PutAll(mem, Numbered(items)))
        /\ phase' = phase /\ levels' = levels
    BY <1>5, Zenon DEF PutRecords, diskVars
  <2>2. state' = tree_put(state, Numbered(items)) /\ detached' = detached \ KeysOf(items)
    BY <1>2, <1>5, <2>1, OthersKept, Zenon DEF Written
  <2> QED
    BY <1>1, <1>2, <2>1, <2>2, AgreePut, Zenon
<1>6. ASSUME NEW item \in Item, store_put(item) \/ put_profiled(item) PROVE StateAgrees'
  <2> DEFINE items == << item >>
  <2>1. items \in Seq(Item) /\ PutRecords(items) /\ Written(Numbered(items))
    BY <1>6 DEF store_put, put_profiled, put
  <2> HIDE DEF items
  <2> QED
    BY <1>5, <2>1
<1>7. ASSUME NEW items \in Batches(MaxBatch), bulk_ingest(items) PROVE StateAgrees'
  BY <1>5, <1>7, BatchType DEF bulk_ingest, put_batch
<1>8. ASSUME NEW k \in Key, store_delete(k) PROVE StateAgrees'
  BY <1>1, <1>2, <1>8, AgreeDelete
<1>9. ASSUME NEW name \in SnapName, store_merge(name) PROVE StateAgrees'
  <2>1. PICK items \in Orders(Entries(snapshots[name])) :
            /\ IF items = << >> THEN UNCHANGED vars ELSE branch_merge(items)
            /\ state' = tree_put(state, Numbered(items))
            /\ detached' = detached \ KeysOf(items)
    BY <1>9 DEF store_merge
  <2>2. items \in Seq(Item)
    BY <1>1, <1>9, OrdersType DEF store_merge, TreeTypes, Trees
  <2>3. CASE items = << >>
    <3>1. UNCHANGED vars /\ KeysOf(items) = {} /\ \A k \in Key : Writes(Numbered(items), k) = {}
      BY <2>1, <2>3 DEF KeysOf, Writes, Numbered
    <3>2. state' = state /\ detached' = detached
      BY <1>2, <2>1, <3>1 DEF tree_put, Tree
    <3> QED
      BY <1>1, <3>1, <3>2, QuietSteps, AgreeSame DEF vars, memVars, diskVars
  <2>4. CASE items # << >>
    <3>1. /\ AppendToLog(Numbered(items), FALSE) /\ Acknowledge(Numbered(items))
          /\ mem' = PutAll(mem, Numbered(items)) /\ UNCHANGED << frozen, queue >>
          /\ phase' = phase /\ levels' = levels
      BY <2>1, <2>4, Zenon DEF branch_merge, diskVars
    <3> QED
      BY <1>1, <1>2, <2>1, <2>2, <3>1, AgreePut, ZenonT(40)
  <2> QED
    BY <2>3, <2>4
<1>10. ASSUME NEW name \in SnapName, snapshot_restore(name) PROVE StateAgrees'
  <2>1. UNCHANGED vars /\ detached' = detached \cup {k \in Key : state[k] # state'[k]}
    BY <1>10 DEF snapshot_restore
  <2>2. Stack' = Stack /\ UNCHANGED << phase, hole, clobbered >>
    BY <2>1 DEF vars, memVars, diskVars, history, Stack
  <2>3. \A k \in Key \ (clobbered \cup detached') : state'[k] = state[k] /\ k \notin detached
    BY <2>1
  <2> QED
    BY <1>1, <2>2, <2>3 DEF StateAgrees
<1>11. ASSUME UNCHANGED vars, UNCHANGED << state, detached >> PROVE StateAgrees'
  BY <1>1, <1>11, QuietSteps, AgreeSame DEF vars, memVars, diskVars
<1>12. ASSUME NEW k \in Key, get(k) PROVE StateAgrees'
  BY <1>11, <1>12 DEF get, treeVars
<1>13. ASSUME NEW name \in SnapName,
              \/ snapshot_create(name) \/ snapshot_delete(name)
              \/ \E from \in SnapName : branch_create(name, from)
       PROVE  StateAgrees'
  BY <1>11, <1>13 DEF snapshot_create, snapshot_delete, branch_create
<1>14. CASE snapshot_create_auto \/ copy_file \/ copy_end \/ backup_returns
  BY <1>11, <1>14 DEF snapshot_create_auto, copy_file, copy_end, backup_returns, treeVars
<1>15. CASE handle_backup
  <2>1. UNCHANGED << phase, levels, clobbered, hole, state, detached >>
    BY <1>15 DEF handle_backup, diskVars, history, treeVars
  <2>2. CASE mem # EmptyPage
    BY <1>1, <1>2, <1>15, <2>1, <2>2, AgreeFlush DEF handle_backup
  <2>3. CASE mem = EmptyPage
    BY <1>1, <1>15, <2>1, <2>3, QuietSteps, AgreeSame DEF handle_backup, memVars
  <2> QED
    BY <2>2, <2>3
<1>16. CASE flush /\ Unaffected
  <2>1. UNCHANGED << phase, levels, clobbered, hole, state, detached >> /\ flush_memtable(mem)
    BY <1>16 DEF flush, diskVars, history, Unaffected, storeOnly, treeVars
  <2> QED
    BY <1>1, <1>2, <2>1, AgreeFlush
<1>17. CASE sync /\ Unaffected
  <2>1. UNCHANGED << mem, queue, levels, state, detached >>
    BY <1>17 DEF sync, memVars, diskVars, Unaffected, storeOnly, treeVars
  <2> QED
    BY <1>1, <1>17, <2>1, QuietSteps, AgreeSame
<1>18. CASE worker /\ Unaffected
  <2>1. UNCHANGED << state, detached >>
    BY <1>18 DEF Unaffected, storeOnly, treeVars
  <2>2. CASE add_page
    BY <1>1, <2>1, <2>2, AgreeAddPage
  <2>3. CASE remove_file \/ write_file \/ save_fails
    <3>1. UNCHANGED << mem, queue, levels >>
      BY <2>3 DEF remove_file, write_file, save_fails, memVars
    <3> QED
      BY <1>1, <1>18, <2>1, <3>1, QuietSteps, AgreeSame
  <2> QED
    BY <1>18, <2>2, <2>3 DEF worker
<1>19. CASE UNCHANGED storeVars
  BY <1>11, <1>19 DEF storeVars, storeOnly, treeVars
<1> QED
  BY <1>1, <1>3, <1>4, <1>6, <1>7, <1>8, <1>9, <1>10, <1>12, <1>13, <1>14, <1>15, <1>16, <1>17,
     <1>18, <1>19 DEF StoreNext

-----------------------------------------------------------------------------
(***************************************************************************)
(* The memtable has no tombstone without a record, so that a scan which    *)
(* reads the memtable alone finds nothing there for the other keys.        *)
(***************************************************************************)
MemClean == \A k \in Key : ~Has(mem, k) => mem[k] = NoEntry

LEMMA CleanWritten ==
    ASSUME IndInv, MemClean, NEW items \in Seq(Item), NEW m,
           m = PutAll(mem, Numbered(items)) \/ m = DeleteAll(mem, Numbered(items)),
           mem' = m \/ mem' = EmptyPage
    PROVE  MemClean'
<1> DEFINE recs == Numbered(items)
<1>1. clock \in Nat
  BY DEF IndInv, Sound, TypeOK
<1>2. m = PutAll(mem, recs) \/ m = DeleteAll(mem, recs)
  OBVIOUS
<1>3. ASSUME NEW k \in Key, Writes(recs, k) # {} PROVE LastWrite(recs, k).ver # 0
  BY <1>1, <1>3, NewVersion
<1> HIDE DEF recs
<1>4. ASSUME NEW k \in Key, m[k].ver = 0 PROVE m[k] = NoEntry
  <2>1. CASE Writes(recs, k) = {}
    <3>1. m[k] = mem[k]
      BY <1>2, <2>1, Zenon DEF PutAll, DeleteAll
    <3> QED
      BY <1>4, <3>1 DEF MemClean, Has
  <2>2. CASE Writes(recs, k) # {}
    <3>1. m[k].ver = LastWrite(recs, k).ver
      <4>1. CASE m = PutAll(mem, recs)
        BY <2>2, <4>1 DEF PutAll
      <4>2. CASE m = DeleteAll(mem, recs)
        BY <2>2, <4>2 DEF DeleteAll
      <4> QED
        BY <1>2, <4>1, <4>2
    <3> QED
      BY <1>3, <1>4, <2>2, <3>1
  <2> QED
    BY <2>1, <2>2
<1> QED
  BY <1>4 DEF MemClean, Has, EmptyPage

LEMMA CleanNext == IndInv /\ Trees /\ MemClean /\ [StoreNext]_storeVars => MemClean'
<1>1. SUFFICES ASSUME IndInv, Trees, MemClean, [StoreNext]_storeVars PROVE MemClean'
  OBVIOUS
<1>2. [Next]_vars \/ \E items \in Seq(Item) : branch_merge(items)
  BY <1>1, EngineStep
<1>3. ASSUME mem' = mem \/ mem' = EmptyPage PROVE MemClean'
  BY <1>1, <1>3 DEF MemClean, EmptyPage, Has
<1>4. ASSUME NEW items \in Seq(Item), branch_merge(items) PROVE MemClean'
  BY <1>1, <1>4, CleanWritten DEF branch_merge
<1>5. ASSUME NEW items \in Seq(Item), PutRecords(items) PROVE MemClean'
  <2>1. mem' = PutAll(mem, Numbered(items)) \/ mem' = EmptyPage
    BY <1>5 DEF PutRecords, InsertThenFlush, flush_memtable
  <2> QED
    BY <1>1, <2>1, CleanWritten
<1>6. ASSUME NEW item \in Item, put(item) PROVE MemClean'
  <2> DEFINE items == << item >>
  <2>1. items \in Seq(Item) /\ PutRecords(items)
    BY <1>6 DEF put
  <2> HIDE DEF items
  <2> QED
    BY <1>5, <2>1
<1>7. ASSUME NEW items \in Batches(MaxBatch), put_batch(items) PROVE MemClean'
  BY <1>5, <1>7, BatchType DEF put_batch
<1>8. ASSUME NEW items \in Batches(MaxBranch), branch_merge(items) PROVE MemClean'
  BY <1>4, <1>8, BatchType
<1>9. ASSUME NEW k \in Key, delete(k) PROVE MemClean'
  <2> DEFINE items == << [key |-> k, empty |-> TRUE] >>
  <2>1. items \in Seq(Item)
    BY DEF Item
  <2>2. mem' = DeleteAll(mem, Numbered(items)) \/ mem' = EmptyPage
    BY <1>9 DEF delete, InsertThenFlush, flush_memtable
  <2> HIDE DEF items
  <2> QED
    BY <1>1, <2>1, <2>2, CleanWritten
<1>10. CASE open
  <2>1. mem' = EmptyPage \/ mem' = Replayed(wal)
    BY <1>10 DEF open, drain
  <2>2. wal \in Seq(Record) /\ LogInOrder
    BY <1>1 DEF IndInv, Sound, Safe, TypeOK
  <2>3. ASSUME NEW k \in Key, Replayed(wal)[k].ver = 0 PROVE Replayed(wal)[k] = NoEntry
    <3>1. CASE Writes(wal, k) = {}
      BY <3>1 DEF Replayed
    <3>2. CASE Writes(wal, k) # {}
      <4>1. PICK i \in Writes(wal, k) : LastWrite(wal, k) = wal[i]
        BY <2>2, <3>2, LastWriteProperty
      <4>2. wal[i].ver >= 1
        BY <2>2 DEF LogInOrder, Writes
      <4>3. Replayed(wal)[k].ver = wal[i].ver
        BY <3>2, <4>1 DEF Replayed
      <4> QED
        BY <2>3, <4>2, <4>3
    <3> QED
      BY <3>1, <3>2
  <2> QED
    BY <1>3, <2>1, <2>3 DEF MemClean, Has
<1>11. CASE flush \/ close
  BY <1>3, <1>11 DEF flush, close, flush_memtable, memVars
<1>12. CASE sync \/ join \/ crash
  BY <1>3, <1>12, Zenon DEF sync, join, crash, LoseMemory, memVars
<1>13. CASE worker
  BY <1>3, <1>13 DEF worker, add_page, remove_file, write_file, save_fails, memVars
<1>14. CASE UNCHANGED vars
  BY <1>3, <1>14 DEF vars, memVars
<1> QED
  BY <1>2, <1>4, <1>6, <1>7, <1>8, <1>9, <1>10, <1>11, <1>12, <1>13, <1>14 DEF Next

-----------------------------------------------------------------------------
(***************************************************************************)
(* The inductive invariant.                                                *)
(***************************************************************************)
StoreInv == IndInv /\ CacheInv /\ TreeTypes /\ BackupHeld /\ StateAgrees /\ MemClean

LEMMA StoreInvInit == StoreInit => StoreInv
<1>1. SUFFICES ASSUME StoreInit PROVE StoreInv
  OBVIOUS
<1>2. IndInv /\ phase = "down"
  BY <1>1, SafeInit DEF StoreInit, Init
<1>3. << >> \in Seq(CacheEntry) /\ Len(<< >>) = 0 /\ DOMAIN << >> = {}
  OBVIOUS
<1>4. 0 <= CACHE_CAPACITY /\ 0 \in 0 .. MaxAuto
  BY StoreAssumption
<1>5. CacheInv
  BY <1>1, <1>3, <1>4 DEF StoreInit, CacheInv, CacheTypes, CacheFresh, OneEach
<1>6. TreeTypes
  <2>1. EmptyTree \in Tree
    BY DEF EmptyTree, Tree, NoLeaf, Leaf
  <2> QED
    BY <1>1, <1>3, <1>4, <2>1 DEF StoreInit, TreeTypes, Trees
<1>7. BackupHeld /\ StateAgrees
  <2>1. backup = NoBackup /\ << >> \in Seq(Record) /\ {} \in SUBSET File
    BY <1>1 DEF StoreInit
  <2>2. BackupHeld
    BY <2>1 DEF BackupHeld, NoBackup
  <2>3. StateAgrees
    BY <1>2 DEF StateAgrees
  <2> QED
    BY <2>2, <2>3
<1>8. MemClean
  BY <1>1 DEF StoreInit, Init, MemClean, EmptyPage
<1> QED
  BY <1>2, <1>5, <1>6, <1>7, <1>8 DEF StoreInv

LEMMA StoreInvNext == StoreInv /\ [StoreNext]_storeVars => StoreInv'
<1>1. SUFFICES ASSUME StoreInv, [StoreNext]_storeVars PROVE StoreInv'
  OBVIOUS
<1>2. IndInv /\ CacheInv /\ TreeTypes /\ Trees /\ BackupHeld /\ StateAgrees /\ MemClean
  BY <1>1 DEF StoreInv, TreeTypes
<1>3. IndInv' /\ CacheInv' /\ TreeTypes' /\ BackupHeld' /\ StateAgrees' /\ MemClean'
  BY <1>1, <1>2, EngineKept, CacheNext, TreeNext, BackupNext, AgreeNext, CleanNext
<1> QED
  BY <1>3 DEF StoreInv

LEMMA StoreInvariance == StoreSpec => []StoreInv
BY StoreInvInit, StoreInvNext, PTL DEF StoreSpec

(***************************************************************************)
(* The cache never exceeds its capacity, and state and snapshots stay trees*)
(* over the keys, under every call of the engine, every crash and restart. *)
(***************************************************************************)
THEOREM StoreTypeCorrect == StoreSpec => []StoreTypeOK
<1>1. StoreInv => StoreTypeOK
  BY DEF StoreInv, IndInv, Sound, CacheInv, CacheTypes, CacheEntry, TreeTypes, Trees, StoreTypeOK
<1> QED
  BY <1>1, StoreInvariance, PTL

(***************************************************************************)
(* What Engine proves of the pages and the log holds for the whole engine: *)
(* with merges of branches of any size, backups and restores among the     *)
(* calls, pages stay in order, the log covers them, nothing acknowledged is*)
(* lost, and a get that misses the cache is right once the queue has been  *)
(* drained of the key.                                                     *)
(***************************************************************************)
THEOREM EngineCorrect ==
    StoreSpec => [](PagesInOrder /\ LogCoversPages /\ NothingLost /\ SettledReads)
<1>1. StoreInv => PagesInOrder /\ LogCoversPages /\ NothingLost /\ SettledReads
  BY SettledLookup DEF StoreInv, IndInv, Safe
<1> QED
  BY <1>1, StoreInvariance, PTL

(***************************************************************************)
(* Engine::get, through the cache or not, returns the last acknowledged    *)
(* write once no queued page holds the key, unless the cached entry was    *)
(* overlooked by put_profiled or branch_merge, or was filled too early.    *)
(***************************************************************************)
THEOREM CachedReadsCorrect == StoreSpec => []CachedReads
<1>1. ASSUME StoreInv PROVE CachedReads
  <2>1. SUFFICES ASSUME ~hole, phase = "open", NEW k \in Key \ (clobbered \cup stale),
                        Holders(queue, k) = {}
                 PROVE  Fresh(wal, k, acked[k], Got(k))
    BY DEF CachedReads
  <2>2. IndInv /\ CacheInv
    BY <1>1 DEF StoreInv
  <2>3. CASE ~InMemory(k) /\ Cached(k)
    <3>1. PICK i \in DOMAIN cache : cache[i].key = k /\ CachedVer(k) = cache[i].ver
      BY <2>3, Zenon DEF Cached, Holds, CachedVer, Slot
    <3>2. CachedVer(k) >= acked[k]
      BY <2>1, <2>2, <3>1 DEF CacheInv, CacheFresh
    <3>3. Got(k).ver = CachedVer(k)
      BY <2>3 DEF Got
    <3> QED
      BY <3>2, <3>3 DEF Fresh
  <2>4. CASE ~(~InMemory(k) /\ Cached(k))
    <3>1. Fresh(wal, k, acked[k], Lookup(k))
      BY <2>1, <2>2, SettledLookup DEF SettledReads
    <3> QED
      BY <2>4, <3>1 DEF Got
  <2> QED
    BY <2>3, <2>4
<1> QED
  BY <1>1, StoreInvariance, PTL

(***************************************************************************)
(* Engine::scan sees the last acknowledged write of a key under the        *)
(* conditions of ScannedReads; its fast path is wrong only about the keys  *)
(* that a level holds.                                                     *)
(***************************************************************************)
THEOREM ScansCorrect == StoreSpec => []ScannedReads
<1>1. ASSUME StoreInv PROVE ScannedReads
  <2>1. SUFFICES ASSUME ~hole, phase = "open", NEW k \in Key \ clobbered, Holders(queue, k) = {},
                        frozen # << >> \/ LevelsEntry(levels, k) = NoEntry
                 PROVE  Fresh(wal, k, acked[k], ScanEntry(k))
    BY DEF ScannedReads
  <2>2. IndInv /\ MemClean
    BY <1>1 DEF StoreInv
  <2>3. Fresh(wal, k, acked[k], Lookup(k))
    BY <2>1, <2>2, SettledLookup, SMTT(30) DEF SettledReads
  <2>4. CASE frozen # << >>
    BY <2>3, <2>4 DEF ScanEntry, Lookup
  <2>5. CASE frozen = << >> /\ Has(mem, k)
    <3>1. Lookup(k) = mem[k] /\ ScanEntry(k) = mem[k]
      BY <2>5, Zenon DEF ScanEntry, Lookup
    <3> QED
      BY <2>3, <3>1
  <2>6. CASE frozen = << >> /\ ~Has(mem, k)
    <3>1. Holders(frozen, k) = {}
      BY <2>6 DEF Holders
    <3>2. Lookup(k) = NoEntry /\ ScanEntry(k) = mem[k]
      BY <2>1, <2>6, <3>1 DEF Lookup, ScanEntry
    <3>3. mem[k] = NoEntry
      BY <2>2, <2>6 DEF MemClean
    <3> QED
      BY <2>3, <3>2, <3>3
  <2> QED
    BY <2>4, <2>5, <2>6, SMTT(30)
<1> QED
  BY <1>1, StoreInvariance, PTL

(***************************************************************************)
(* The HAMT state from which snapshots, branches and transactions start    *)
(* holds what the pages hold, but for restored and early flushed keys.     *)
(***************************************************************************)
THEOREM StateCorrect == StoreSpec => []StateAgrees
<1>1. StoreInv => StateAgrees
  BY DEF StoreInv
<1> QED
  BY <1>1, StoreInvariance, PTL

(***************************************************************************)
(* A backup made by handle_backup, of a log that has been flushed, restores*)
(* every acknowledged write, whichever page files the compaction thread    *)
(* replaced while they were copied.                                        *)
(***************************************************************************)
THEOREM BackupCorrect == StoreSpec => []BackupComplete
<1>1. ASSUME StoreInv PROVE BackupComplete
  <2>1. SUFFICES ASSUME backup.at = "made", ~hole, flushed = Len(wal)
                 PROVE  /\ \A k \in Key : Fresh(backup.log, k, acked[k], Replayed(backup.log)[k])
                        /\ \A f \in backup.files : LogCovers(backup.log, f.page)
    BY DEF BackupComplete
  <2>2. TypeOK /\ LogInOrder /\ AckedInLog /\ BackupHeld
    BY <1>1 DEF StoreInv, IndInv, Sound, Safe
  <2>3. wal \in Seq(Record) /\ acked \in [Key -> Nat]
    BY <2>2 DEF TypeOK
  <2>4. backup.log = wal
    <3>1. SubSeq(wal, 1, Len(wal)) = wal
      BY <2>3, SubSeqFull
    <3> QED
      BY <2>1, <2>2, <3>1 DEF BackupHeld
  <2>5. \A f \in backup.files : LogCovers(backup.log, f.page)
    BY <2>1, <2>2, <2>4 DEF BackupHeld
  <2>6. /\ Replayed(wal) \in Page
        /\ \A k \in Key : \A i \in Writes(wal, k) : wal[i].ver <= Replayed(wal)[k].ver
    BY <2>2, ReplayNewest
  <2>7. ASSUME NEW k \in Key PROVE Replayed(wal)[k].ver >= acked[k]
    <3>1. Replayed(wal)[k].ver \in Nat /\ acked[k] \in Nat
      BY <2>3, <2>6 DEF Page, Entry
    <3>2. CASE acked[k] = 0
      BY <3>1, <3>2
    <3>3. CASE acked[k] # 0
      <4>1. PICK i \in Writes(wal, k) : wal[i].ver >= acked[k]
        BY <2>1, <2>2, <3>3 DEF AckedInLog
      <4>2. wal[i].ver \in Nat
        <5>1. wal[i] \in Record
          BY <2>3, LenProperties, ElementOfSeq DEF Writes
        <5> QED
          BY <5>1 DEF Record
      <4>3. wal[i].ver <= Replayed(wal)[k].ver
        BY <2>6
      <4> QED
        BY <3>1, <4>1, <4>2, <4>3
    <3> QED
      BY <3>2, <3>3
  <2> QED
    BY <2>4, <2>5, <2>7, Zenon DEF Fresh
<1> QED
  BY <1>1, StoreInvariance, PTL
=============================================================================
