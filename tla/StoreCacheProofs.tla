-------------------------- MODULE StoreCacheProofs --------------------------
(***************************************************************************)
(* Proofs about module Store, first part: whatever the cache, the HAMT     *)
(* state, the snapshots, the branches and the backup do, the invariant of  *)
(* the engine holds on; the invariants of the cache, of the trees and of   *)
(* the backup.                                                             *)
(***************************************************************************)
EXTENDS Store, EngineProofs

-----------------------------------------------------------------------------
(***************************************************************************)
(* Merging a branch.  Its entries, in whatever order, are items to write.  *)
(***************************************************************************)
LEMMA OrdersType ==
    ASSUME NEW tree \in Tree, NEW items \in Orders(Entries(tree))
    PROVE  items \in Seq(Item)
<1> DEFINE keys == {x \in Key : tree[x] # NoLeaf}
           f    == [k \in keys |-> [key |-> k, empty |-> tree[k].empty]]
<1>1. IsFiniteSet(keys)
  BY StoreAssumption, FS_Subset
<1>2. f \in Surjection(keys, Entries(tree))
  BY DEF Entries, Surjection
<1> HIDE DEF f
<1>3. IsFiniteSet(Entries(tree))
  BY <1>1, <1>2, FS_Surjection
<1>4. Cardinality(Entries(tree)) \in Nat
  BY <1>3, FS_CardinalityType
<1>5. Entries(tree) \subseteq Item
  BY DEF Entries, Item, Tree, Leaf
<1>6. items \in [1 .. Cardinality(Entries(tree)) -> Item]
  BY <1>5 DEF Orders
<1> QED
  BY <1>4, <1>6, SeqDef

LEMMA MergeKeeps ==
    ASSUME IndInv, NEW items \in Seq(Item), branch_merge(items)
    PROVE  IndInv'
<1>1. /\ AppendToLog(Numbered(items), FALSE) /\ Acknowledge(Numbered(items))
      /\ mem' = PutAll(mem, Numbered(items))
      /\ UNCHANGED << frozen, queue >> /\ UNCHANGED << phase, diskVars >>
  BY Zenon DEF branch_merge
<1>2. Safe'
  BY <1>1, SafePut, Zenon
<1>3. Sound /\ clock \in Nat /\ mem \in Page
  BY DEF IndInv, Sound, TypeOK
<1>4. Numbered(items) \in Seq(Record)
  BY <1>3, NumberedType
<1>5. PutAll(mem, Numbered(items)) \in Page
  BY <1>3, <1>4, MemtableTypes
<1>6. Sound'
  BY <1>1, <1>3, <1>4, <1>5, SoundWrite, Zenon
<1> QED
  BY <1>2, <1>6 DEF IndInv

(***************************************************************************)
(* Every step of Store is a step of Engine, leaves the engine alone, or    *)
(* merges a branch, of any size.                                           *)
(***************************************************************************)
Trees == \A n \in DOMAIN snapshots : snapshots[n] \in Tree

LEMMA EngineStep ==
    ASSUME Trees, [StoreNext]_storeVars
    PROVE  [Next]_vars \/ \E items \in Seq(Item) : branch_merge(items)
<1>1. CASE store_open
  BY <1>1 DEF store_open, Next
<1>2. ASSUME NEW item \in Item, store_put(item) \/ put_profiled(item) PROVE Next
  BY <1>2 DEF store_put, put_profiled, Next
<1>3. ASSUME NEW items \in Batches(MaxBatch), bulk_ingest(items) PROVE Next
  BY <1>3 DEF bulk_ingest, Next
<1>4. ASSUME NEW k \in Key, store_delete(k) PROVE Next
  BY <1>4 DEF store_delete, Next
<1>5. ASSUME NEW k \in Key, get(k) PROVE UNCHANGED vars
  BY <1>5 DEF get
<1>6. ASSUME NEW name \in SnapName,
             \/ snapshot_create(name) \/ snapshot_restore(name) \/ snapshot_delete(name)
             \/ \E from \in SnapName : branch_create(name, from)
      PROVE  UNCHANGED vars
  BY <1>6 DEF snapshot_create, snapshot_restore, snapshot_delete, branch_create
<1>7. ASSUME NEW name \in SnapName, store_merge(name)
      PROVE  UNCHANGED vars \/ \E items \in Seq(Item) : branch_merge(items)
  <2>1. PICK items \in Orders(Entries(snapshots[name])) :
            IF items = << >> THEN UNCHANGED vars ELSE branch_merge(items)
    BY <1>7 DEF store_merge
  <2>2. snapshots[name] \in Tree
    BY <1>7 DEF store_merge, Trees
  <2>3. items \in Seq(Item)
    BY <2>2, OrdersType
  <2> QED
    BY <2>1, <2>3
<1>8. CASE snapshot_create_auto \/ copy_file \/ copy_end \/ backup_returns
  BY <1>8 DEF snapshot_create_auto, copy_file, copy_end, backup_returns
<1>9. CASE handle_backup
  <2>1. CASE mem # EmptyPage
    <3>1. flush
      BY <1>9, <2>1 DEF handle_backup, flush
    <3> QED
      BY <3>1 DEF Next
  <2>2. CASE mem = EmptyPage
    BY <1>9, <2>2 DEF handle_backup, vars
  <2> QED
    BY <2>1, <2>2
<1>10. CASE flush \/ sync \/ close \/ join \/ worker \/ crash
  BY <1>10 DEF Next
<1>11. CASE UNCHANGED storeVars
  BY <1>11 DEF storeVars
<1> QED
  BY <1>1, <1>2, <1>3, <1>4, <1>5, <1>6, <1>7, <1>8, <1>9, <1>10, <1>11 DEF StoreNext

LEMMA EngineKept == IndInv /\ Trees /\ [StoreNext]_storeVars => IndInv'
<1>1. SUFFICES ASSUME IndInv, Trees, [StoreNext]_storeVars PROVE IndInv'
  OBVIOUS
<1>2. [Next]_vars \/ \E items \in Seq(Item) : branch_merge(items)
  BY <1>1, EngineStep
<1> QED
  BY <1>1, <1>2, SafeNext, MergeKeeps

-----------------------------------------------------------------------------
(***************************************************************************)
(* The cache.  LruCache::invalidate and insert keep one entry per key.     *)
(***************************************************************************)
CacheEntry == [key : Key, ver : Nat \ {0}]

OneEach(c) == \A i, j \in DOMAIN c : c[i].key = c[j].key => i = j

LEMMA WithoutFacts ==
    ASSUME NEW c \in Seq(CacheEntry), OneEach(c), NEW k \in Key
    PROVE  /\ Without(c, k) \in Seq(CacheEntry)
           /\ Len(Without(c, k)) <= Len(c)
           /\ OneEach(Without(c, k))
           /\ \A i \in DOMAIN Without(c, k) : \E j \in DOMAIN c :
                Without(c, k)[i] = c[j] /\ c[j].key # k
<1>1. DOMAIN c = 1 .. Len(c) /\ Len(c) \in Nat /\ \A i \in 1 .. Len(c) : c[i] \in CacheEntry
  BY LenProperties, ElementOfSeq
<1>2. CASE ~Holds(c, k)
  BY <1>1, <1>2 DEF Without, Holds
<1>3. CASE Holds(c, k)
  <2> DEFINE n == Slot(c, k)
             m == Len(c)
             a == SubSeq(c, 1, n - 1)
             b == SubSeq(c, n + 1, m)
             w == a \o b
  <2>1. n \in 1 .. m /\ c[n].key = k
    BY <1>1, <1>3 DEF Holds, Slot
  <2>2. m \in Nat /\ n \in Nat
    BY <1>1, <2>1
  <2> HIDE DEF n, m
  <2>3. /\ a \in Seq(CacheEntry) /\ Len(a) = n - 1
        /\ \A i \in 1 .. n - 1 : a[i] = c[i]
    <3>1. 1 \in Int /\ n - 1 \in Int /\ \A i \in 1 .. n - 1 : c[i] \in CacheEntry
      BY <1>1, <2>1, <2>2 DEF m
    <3>2. /\ a \in Seq(CacheEntry) /\ Len(a) = IF 1 <= n - 1 THEN n - 1 - 1 + 1 ELSE 0
          /\ \A i \in 1 .. n - 1 - 1 + 1 : a[i] = c[1 + i - 1]
      BY <3>1, SubSeqProperties
    <3> HIDE DEF a
    <3> QED
      BY <2>1, <2>2, <3>2
  <2>4. /\ b \in Seq(CacheEntry) /\ Len(b) = m - n
        /\ \A i \in 1 .. m - n : b[i] = c[n + i]
    <3>1. n + 1 \in Int /\ m \in Int /\ \A i \in n + 1 .. m : c[i] \in CacheEntry
      BY <1>1, <2>1, <2>2 DEF m
    <3>2. /\ b \in Seq(CacheEntry) /\ Len(b) = IF n + 1 <= m THEN m - (n + 1) + 1 ELSE 0
          /\ \A i \in 1 .. m - (n + 1) + 1 : b[i] = c[n + 1 + i - 1]
      BY <3>1, SubSeqProperties
    <3> HIDE DEF b
    <3>3. (IF n + 1 <= m THEN m - (n + 1) + 1 ELSE 0) = m - n /\ 1 .. m - (n + 1) + 1 = 1 .. m - n
      BY <2>1, <2>2
    <3>4. \A i \in 1 .. m - n : n + 1 + i - 1 = n + i
      BY <2>1, <2>2
    <3> QED
      BY <3>2, <3>3, <3>4
  <2> HIDE DEF a, b
  <2>5. /\ w \in Seq(CacheEntry) /\ Len(w) = m - 1
        /\ \A i \in 1 .. m - 1 : w[i] = IF i < n THEN c[i] ELSE c[i + 1]
    <3>1. /\ w \in Seq(CacheEntry) /\ Len(w) = Len(a) + Len(b)
          /\ \A i \in 1 .. Len(a) + Len(b) : w[i] = IF i <= Len(a) THEN a[i] ELSE b[i - Len(a)]
      BY <2>3, <2>4, ConcatProperties, Zenon
    <3> HIDE DEF w
    <3>2. Len(a) + Len(b) = m - 1
      BY <2>1, <2>2, <2>3, <2>4
    <3>3. ASSUME NEW i \in 1 .. m - 1, i < n PROVE w[i] = c[i]
      BY <2>2, <2>3, <3>1, <3>2, <3>3
    <3>4. ASSUME NEW i \in 1 .. m - 1, ~(i < n) PROVE w[i] = c[i + 1]
      <4>a. i - (n - 1) \in 1 .. m - n /\ ~(i <= n - 1)
        BY <2>1, <2>2, <3>4
      <4>b. w[i] = IF i <= Len(a) THEN a[i] ELSE b[i - Len(a)]
        BY <3>1, <3>2
      <4>1. w[i] = b[i - (n - 1)] /\ i - (n - 1) \in 1 .. m - n
        BY <2>3, <4>a, <4>b
      <4>2. b[i - (n - 1)] = c[n + (i - (n - 1))] /\ n + (i - (n - 1)) = i + 1
        BY <2>2, <2>4, <4>1
      <4> QED
        BY <4>1, <4>2
    <3> QED
      BY <3>1, <3>2, <3>3, <3>4
  <2>6. w = Without(c, k)
    BY <1>3, Zenon DEF Without, w, a, b, n, m
  <2> HIDE DEF w
  <2>7. DOMAIN w = 1 .. m - 1
    BY <2>5, LenProperties
  <2>8. ASSUME NEW i \in 1 .. m - 1
        PROVE  \E j \in 1 .. m : j # n /\ w[i] = c[j] /\ j = IF i < n THEN i ELSE i + 1
    BY <2>1, <2>2, <2>5
  <2>9. ASSUME NEW i \in 1 .. m - 1, NEW j \in 1 .. m - 1, w[i].key = w[j].key PROVE i = j
    <3>1. PICK x \in 1 .. m : w[i] = c[x] /\ x = IF i < n THEN i ELSE i + 1
      BY <2>8
    <3>2. PICK y \in 1 .. m : w[j] = c[y] /\ y = IF j < n THEN j ELSE j + 1
      BY <2>8
    <3>3. x = y
      BY <1>1, <2>9, <3>1, <3>2 DEF OneEach, m
    <3> QED
      BY <2>2, <3>1, <3>2, <3>3
  <2>10. ASSUME NEW i \in 1 .. m - 1 PROVE \E j \in DOMAIN c : w[i] = c[j] /\ c[j].key # k
    BY <1>1, <2>1, <2>8 DEF OneEach, m
  <2>11. OneEach(w)
    BY <2>7, <2>9 DEF OneEach
  <2>12. Len(w) <= Len(c)
    BY <2>2, <2>5 DEF m
  <2> QED
    BY <2>5, <2>6, <2>7, <2>10, <2>11, <2>12
<1> QED
  BY <1>2, <1>3

LEMMA InsertFacts ==
    ASSUME NEW c \in Seq(CacheEntry), OneEach(c), Len(c) <= CACHE_CAPACITY,
           NEW k \in Key, NEW v \in Nat \ {0}
    PROVE  LET n == lru_insert(c, k, v)
           IN  /\ n \in Seq(CacheEntry) /\ Len(n) <= CACHE_CAPACITY /\ OneEach(n)
               /\ \A i \in DOMAIN n : \/ n[i] = [key |-> k, ver |-> v]
                                      \/ \E j \in DOMAIN c : n[i] = c[j] /\ c[j].key # k
<1> DEFINE rest == Without(c, k)
           room == IF Len(rest) >= CACHE_CAPACITY THEN Tail(rest) ELSE rest
           new  == [key |-> k, ver |-> v]
           n    == Append(room, new)
<1>1. /\ rest \in Seq(CacheEntry) /\ Len(rest) <= Len(c) /\ OneEach(rest)
      /\ \A i \in DOMAIN rest : \E j \in DOMAIN c : rest[i] = c[j] /\ c[j].key # k
  BY WithoutFacts
<1> HIDE DEF rest
<1>2. Len(rest) \in Nat /\ Len(c) \in Nat /\ DOMAIN rest = 1 .. Len(rest)
  BY <1>1, LenProperties
<1>3. CACHE_CAPACITY \in Nat /\ CACHE_CAPACITY >= 1
  BY StoreAssumption
<1>4. /\ room \in Seq(CacheEntry) /\ Len(room) + 1 <= CACHE_CAPACITY /\ OneEach(room)
      /\ \A i \in DOMAIN room : \E j \in DOMAIN rest : room[i] = rest[j]
  <2>1. CASE Len(rest) >= CACHE_CAPACITY
    <3> DEFINE t == Tail(rest)
    <3>1. rest # << >>
      BY <1>2, <1>3, <2>1
    <3>2. t \in Seq(CacheEntry) /\ Len(t) = Len(rest) - 1 /\ \A i \in 1 .. Len(t) : t[i] = rest[i + 1]
      BY <1>1, <3>1, HeadTailProperties
    <3>3. room = t
      BY <2>1
    <3> HIDE DEF t, room
    <3>4. DOMAIN t = 1 .. Len(rest) - 1
      BY <3>2, LenProperties
    <3>5. \A i \in DOMAIN t : i + 1 \in DOMAIN rest /\ t[i] = rest[i + 1] /\ i \in Nat
      BY <1>2, <3>2, <3>4
    <3>6. ASSUME NEW i \in DOMAIN t, NEW j \in DOMAIN t, t[i].key = t[j].key PROVE i = j
      <4>1. i + 1 = j + 1
        BY <1>1, <3>5, <3>6 DEF OneEach
      <4> QED
        BY <3>5, <4>1
    <3>7. Len(room) + 1 <= CACHE_CAPACITY
      BY <1>1, <1>2, <1>3, <3>2, <3>3
    <3> QED
      BY <3>2, <3>3, <3>5, <3>6, <3>7 DEF OneEach
  <2>2. CASE ~(Len(rest) >= CACHE_CAPACITY)
    BY <1>1, <1>2, <1>3, <2>2
  <2> QED
    BY <2>1, <2>2
<1> HIDE DEF room
<1>5. new \in CacheEntry
  BY DEF CacheEntry
<1>6. \A i \in DOMAIN room : \E j \in DOMAIN c : room[i] = c[j] /\ c[j].key # k
  BY <1>1, <1>4
<1>a. new.key = k
  OBVIOUS
<1> HIDE DEF new
<1>7. /\ n \in Seq(CacheEntry) /\ Len(n) = Len(room) + 1
      /\ \A i \in 1 .. Len(room) : n[i] = room[i]
      /\ n[Len(room) + 1] = new
  BY <1>4, <1>5, AppendProperties
<1>8. Len(room) \in Nat /\ DOMAIN room = 1 .. Len(room)
  BY <1>4, LenProperties
<1> HIDE DEF n
<1>9. DOMAIN n = 1 .. Len(room) + 1
  BY <1>7, LenProperties
<1>10. ASSUME NEW i \in DOMAIN n
       PROVE  \/ i \in DOMAIN room /\ n[i] = room[i]
              \/ i = Len(room) + 1 /\ n[i] = new
  BY <1>7, <1>8, <1>9
<1>11. ASSUME NEW i \in DOMAIN n, NEW j \in DOMAIN n, n[i].key = n[j].key PROVE i = j
  <2>1. \A x \in DOMAIN room : room[x].key # new.key
    BY <1>6, <1>a
  <2> QED
    BY <1>4, <1>10, <1>11, <2>1 DEF OneEach
<1>12. \A i \in DOMAIN n : n[i] = new \/ \E j \in DOMAIN c : n[i] = c[j] /\ c[j].key # k
  BY <1>6, <1>10
<1>13. lru_insert(c, k, v) = n
  BY DEF lru_insert, n, room, rest, new
<1>14. n \in Seq(CacheEntry) /\ Len(n) <= CACHE_CAPACITY /\ OneEach(n)
  BY <1>4, <1>7, <1>11 DEF OneEach
<1> QED
  BY <1>12, <1>13, <1>14 DEF new

-----------------------------------------------------------------------------
(***************************************************************************)
(* What a call that writes items leaves alone.                             *)
(***************************************************************************)
LEMMA OthersKept ==
    ASSUME TypeOK, NEW items \in Seq(Item), NEW fl \in BOOLEAN,
           AppendToLog(Numbered(items), fl), Acknowledge(Numbered(items))
    PROVE  /\ KeysOf(items) \subseteq Key
           /\ KeysOf(Numbered(items)) = KeysOf(items)
           /\ \A k \in Key : Writes(Numbered(items), k) = {} <=> k \notin KeysOf(items)
           /\ \A k \in Key \ KeysOf(items) : /\ acked'[k] = acked[k]
                                             /\ k \in clobbered' <=> k \in clobbered
           /\ ~hole' => ~hole
<1>1. clock \in Nat /\ clobbered \subseteq Key /\ DOMAIN items = 1 .. Len(items)
  BY LenProperties DEF TypeOK
<1>2. /\ DOMAIN Numbered(items) = 1 .. Len(items)
      /\ \A i \in 1 .. Len(items) : Numbered(items)[i].key = items[i].key
  BY <1>1, NumberedType
<1>3. \A i \in 1 .. Len(items) : items[i] \in Item
  BY ElementOfSeq
<1>4. KeysOf(items) \subseteq Key
  BY <1>1, <1>3 DEF KeysOf, Item
<1>5. KeysOf(Numbered(items)) = KeysOf(items)
  BY <1>1, <1>2 DEF KeysOf
<1>6. \A k \in Key : Writes(Numbered(items), k) = {} <=> k \notin KeysOf(items)
  BY <1>1, <1>2 DEF KeysOf, Writes
<1>7. \A k \in Key \ KeysOf(items) : acked'[k] = acked[k] /\ (k \in clobbered' <=> k \in clobbered)
  BY <1>6 DEF Acknowledge
<1>8. ~hole' => ~hole
  BY Zenon DEF AppendToLog
<1> QED
  BY <1>4, <1>5, <1>6, <1>7, <1>8

(***************************************************************************)
(* Single items.                                                           *)
(***************************************************************************)
LEMMA OneItem ==
    ASSUME NEW item \in Item
    PROVE  << item >> \in Seq(Item) /\ KeysOf(<< item >>) = {item.key} /\ item.key \in Key
BY DEF KeysOf, Item

(***************************************************************************)
(* Steps of Store that are no writes do not touch the acknowledged writes, *)
(* and only open brings the engine up.                                     *)
(***************************************************************************)
Quiet ==
    /\ acked' = acked /\ clobbered \subseteq clobbered' /\ (~hole' => ~hole)
    /\ phase' = "open" => phase = "open"

LEMMA QuietSteps ==
    ASSUME \/ UNCHANGED vars
           \/ handle_backup
           \/ flush \/ sync \/ close \/ worker
    PROVE  Quiet
<1>1. CASE UNCHANGED vars
  BY <1>1 DEF Quiet, vars, history
<1>2. CASE handle_backup
  BY <1>2 DEF Quiet, handle_backup, history
<1>3. CASE flush \/ sync \/ close
  BY <1>3 DEF Quiet, flush, sync, close, history
<1>4. CASE add_page
  <2>1. clobbered \subseteq clobbered'
    BY <1>4 DEF add_page
  <2> QED
    BY <1>4, <2>1 DEF Quiet, add_page
<1>5. CASE remove_file \/ write_file \/ save_fails
  BY <1>5 DEF Quiet, remove_file, write_file, save_fails, history
<1> QED
  BY <1>1, <1>2, <1>3, <1>4, <1>5 DEF worker

-----------------------------------------------------------------------------
(***************************************************************************)
(* The cache holds at most CACHE_CAPACITY entries, one per key, and an     *)
(* entry that no write has overlooked holds the last acknowledged write.   *)
(***************************************************************************)
CacheTypes ==
    /\ cache \in Seq(CacheEntry) /\ Len(cache) <= CACHE_CAPACITY /\ OneEach(cache)
    /\ stale \subseteq Key

CacheFresh ==
    ~hole /\ phase = "open" =>
        \A i \in DOMAIN cache :
            cache[i].key \notin clobbered \cup stale => cache[i].ver >= acked[cache[i].key]

CacheInv == CacheTypes /\ CacheFresh

LEMMA CacheElements ==
    ASSUME CacheTypes
    PROVE  \A i \in DOMAIN cache : /\ cache[i].key \in Key /\ cache[i].ver \in Nat \ {0}
                                  /\ Cached(cache[i].key)
<1>1. \A i \in DOMAIN cache : cache[i] \in CacheEntry
  BY LenProperties, ElementOfSeq DEF CacheTypes
<1> QED
  BY <1>1 DEF CacheEntry, Cached, Holds

LEMMA CacheCleared == cache' = << >> /\ stale' = {} => CacheInv'
<1>1. << >> \in Seq(CacheEntry) /\ Len(<< >>) = 0 /\ DOMAIN << >> = {}
  OBVIOUS
<1>2. 0 <= CACHE_CAPACITY
  BY StoreAssumption
<1> QED
  BY <1>1, <1>2 DEF CacheInv, CacheTypes, CacheFresh, OneEach

LEMMA CacheQuiet ==
    ASSUME CacheInv, Quiet, UNCHANGED << cache, stale >>
    PROVE  CacheInv'
BY DEF CacheInv, CacheTypes, CacheFresh, Quiet

LEMMA CacheInvalidated ==
    ASSUME CacheInv, NEW k \in Key, Invalidate(k), phase' = phase, ~hole' => ~hole,
           \A h \in Key \ {k} : acked'[h] = acked[h] /\ (h \in clobbered' <=> h \in clobbered)
    PROVE  CacheInv'
<1>1. /\ cache' \in Seq(CacheEntry) /\ Len(cache') <= Len(cache) /\ OneEach(cache')
      /\ \A i \in DOMAIN cache' : \E j \in DOMAIN cache : cache'[i] = cache[j] /\ cache[j].key # k
  BY WithoutFacts DEF CacheInv, CacheTypes, Invalidate
<1>2. Len(cache') <= CACHE_CAPACITY
  BY <1>1, LenProperties, StoreAssumption DEF CacheInv, CacheTypes
<1>3. stale' = stale \ {k}
  BY DEF Invalidate
<1>4. CacheTypes'
  BY <1>1, <1>2, <1>3 DEF CacheInv, CacheTypes
<1>5. \A j \in DOMAIN cache : cache[j].key \in Key
  BY CacheElements DEF CacheInv
<1>6. CacheFresh'
  <2>1. SUFFICES ASSUME ~hole', phase = "open", NEW i \in DOMAIN cache',
                        cache'[i].key \notin clobbered' \cup stale'
                 PROVE  cache'[i].ver >= acked'[cache'[i].key]
    BY DEF CacheFresh
  <2>2. PICK j \in DOMAIN cache : cache'[i] = cache[j] /\ cache[j].key # k
    BY <1>1
  <2>3. cache[j].key \notin clobbered \cup stale /\ acked'[cache[j].key] = acked[cache[j].key]
    BY <1>3, <1>5, <2>1, <2>2, SMTT(30)
  <2> QED
    BY <2>1, <2>2, <2>3 DEF CacheInv, CacheFresh
<1> QED
  BY <1>4, <1>6 DEF CacheInv

LEMMA CacheOverlooked ==
    ASSUME CacheInv, NEW ks \in SUBSET Key, Overlook(ks), phase' = phase, ~hole' => ~hole,
           \A h \in Key \ ks : acked'[h] = acked[h] /\ (h \in clobbered' <=> h \in clobbered)
    PROVE  CacheInv'
<1>1. cache' = cache /\ stale' = stale \cup {k \in ks : Cached(k)}
  BY DEF Overlook
<1>2. CacheTypes'
  BY <1>1 DEF CacheInv, CacheTypes
<1>3. \A j \in DOMAIN cache : cache[j].key \in Key /\ Cached(cache[j].key)
  BY CacheElements DEF CacheInv
<1>4. CacheFresh'
  <2>1. SUFFICES ASSUME ~hole', phase = "open", NEW i \in DOMAIN cache,
                        cache[i].key \notin clobbered' \cup stale'
                 PROVE  cache[i].ver >= acked'[cache[i].key]
    BY <1>1 DEF CacheFresh
  <2>2. cache[i].key \notin ks /\ cache[i].key \in Key
    BY <1>1, <1>3, <2>1
  <2>3. cache[i].key \notin clobbered \cup stale /\ acked'[cache[i].key] = acked[cache[i].key]
    BY <1>1, <2>1, <2>2
  <2> QED
    BY <2>1, <2>3 DEF CacheInv, CacheFresh
<1> QED
  BY <1>2, <1>4 DEF CacheInv

LEMMA CacheRead ==
    ASSUME IndInv, CacheInv, NEW k \in Key, get(k)
    PROVE  CacheInv'
<1>1. UNCHANGED << phase, wal, mem, frozen, queue, levels, acked, clobbered, hole >>
  BY DEF get, vars, walVars, memVars, diskVars, history
<1>2. \A i \in DOMAIN cache : cache[i].key \in Key
  BY CacheElements DEF CacheInv
<1>3. ASSUME NEW v \in Nat \ {0}, cache' = lru_insert(cache, k, v), stale' \subseteq Key,
             \A h \in Key \ {k} : h \in stale' <=> h \in stale,
             ~hole /\ phase = "open" /\ k \notin clobbered \cup stale' => v >= acked[k]
      PROVE  CacheInv'
  <2> DEFINE new == [key |-> k, ver |-> v]
  <2>1. /\ cache' \in Seq(CacheEntry) /\ Len(cache') <= CACHE_CAPACITY /\ OneEach(cache')
        /\ \A i \in DOMAIN cache' : \/ cache'[i] = new
                                    \/ \E j \in DOMAIN cache : cache'[i] = cache[j] /\ cache[j].key # k
    BY <1>3, InsertFacts DEF CacheInv, CacheTypes
  <2>2. new.key = k /\ new.ver = v
    OBVIOUS
  <2> HIDE DEF new
  <2>3. CacheFresh'
    <3>1. SUFFICES ASSUME ~hole, phase = "open", NEW i \in DOMAIN cache',
                          cache'[i].key \notin clobbered \cup stale'
                   PROVE  cache'[i].ver >= acked[cache'[i].key]
      BY <1>1 DEF CacheFresh
    <3>2. CASE cache'[i] = new
      BY <1>3, <2>2, <3>1, <3>2
    <3>3. ASSUME NEW j \in DOMAIN cache, cache'[i] = cache[j], cache[j].key # k
          PROVE  cache'[i].ver >= acked[cache'[i].key]
      <4>1. cache[j].key \notin clobbered \cup stale
        BY <1>2, <1>3, <3>1, <3>3
      <4> QED
        BY <3>1, <3>3, <4>1 DEF CacheInv, CacheFresh
    <3> QED
      BY <2>1, <3>2, <3>3
  <2> QED
    BY <1>3, <2>1, <2>3 DEF CacheInv, CacheTypes
<1>4. CASE /\ Cached(k) /\ cache' = lru_insert(cache, k, CachedVer(k)) /\ UNCHANGED stale
  <2>1. PICK i \in DOMAIN cache : cache[i].key = k /\ CachedVer(k) = cache[i].ver
    BY <1>4, Zenon DEF Cached, Holds, CachedVer, Slot
  <2>2. CachedVer(k) \in Nat \ {0}
    BY <2>1, CacheElements DEF CacheInv
  <2>3. ~hole /\ phase = "open" /\ k \notin clobbered \cup stale' => CachedVer(k) >= acked[k]
    BY <1>4, <2>1 DEF CacheInv, CacheFresh
  <2>4. stale' \subseteq Key /\ \A h \in Key \ {k} : h \in stale' <=> h \in stale
    BY <1>4 DEF CacheInv, CacheTypes
  <2> QED
    BY <1>3, <1>4, <2>2, <2>3, <2>4
<1>5. CASE /\ Answer(LevelsEntry(levels, k)) # NoEntry
           /\ cache' = lru_insert(cache, k, LevelsEntry(levels, k).ver)
           /\ stale' = IF Holders(queue, k) # {} THEN stale \cup {k} ELSE stale \ {k}
  <2> DEFINE e == LevelsEntry(levels, k)
  <2>1. levels \in Levels /\ Low(levels) \in Seq(Page)
    BY StackView DEF IndInv, Sound
  <2>2. e = LastEntry(Low(levels), k)
    BY <2>1, LevelsLookup
  <2>3. e \in Entry
    BY <2>1, <2>2, EntryTypes
  <2>4. Answer(e) # NoEntry /\ ~InMemory(k)
    BY <1>5 DEF get
  <2> HIDE DEF e
  <2>5. e.ver \in Nat \ {0} /\ e # NoEntry
    BY <2>3, <2>4, Zenon DEF Answer, Entry, NoEntry
  <2>6. ASSUME ~hole, phase = "open", k \notin clobbered \cup stale' PROVE e.ver >= acked[k]
    <3>1. Holders(queue, k) = {}
      BY <1>5, <2>6
    <3>2. Fresh(wal, k, acked[k], Lookup(k))
      BY <2>6, <3>1, SettledLookup DEF SettledReads
    <3>3. Lookup(k) = e
      BY <2>4 DEF Lookup, InMemory, e
    <3> QED
      BY <2>5, <3>2, <3>3 DEF Fresh
  <2>7. stale' \subseteq Key /\ \A h \in Key \ {k} : h \in stale' <=> h \in stale
    BY <1>5 DEF CacheInv, CacheTypes
  <2>8. cache' = lru_insert(cache, k, e.ver)
    BY <1>5 DEF e
  <2> QED
    BY <1>3, <2>5, <2>6, <2>7, <2>8
<1> QED
  BY <1>4, <1>5 DEF get

LEMMA CacheNext == IndInv /\ Trees /\ CacheInv /\ [StoreNext]_storeVars => CacheInv'
<1>1. SUFFICES ASSUME IndInv, Trees, CacheInv, [StoreNext]_storeVars PROVE CacheInv'
  OBVIOUS
<1>2. TypeOK
  BY <1>1 DEF IndInv, Sound
<1>3. CASE store_open \/ (join /\ Forget) \/ (crash /\ Forget)
  BY <1>3, CacheCleared DEF store_open, Forget
<1>4. ASSUME NEW item \in Item, store_put(item) PROVE CacheInv'
  <2> DEFINE items == << item >>
  <2>1. items \in Seq(Item) /\ KeysOf(items) = {item.key} /\ item.key \in Key
    BY OneItem
  <2>2. /\ AppendToLog(Numbered(items), TRUE) /\ Acknowledge(Numbered(items)) /\ phase' = phase
        /\ Invalidate(item.key)
    BY <1>4, Zenon DEF store_put, put, PutRecords
  <2> HIDE DEF items
  <2> QED
    BY <1>1, <1>2, <2>1, <2>2, OthersKept, CacheInvalidated, Zenon
<1>5. ASSUME NEW item \in Item, put_profiled(item) PROVE CacheInv'
  <2> DEFINE items == << item >>
  <2>1. items \in Seq(Item) /\ KeysOf(items) = {item.key} /\ item.key \in Key
    BY OneItem
  <2>2. /\ AppendToLog(Numbered(items), TRUE) /\ Acknowledge(Numbered(items)) /\ phase' = phase
        /\ Overlook(KeysOf(items))
    BY <1>5, <2>1, Zenon DEF put_profiled, put, PutRecords
  <2> HIDE DEF items
  <2> QED
    BY <1>1, <1>2, <2>1, <2>2, OthersKept, CacheOverlooked, ZenonT(40)
<1>6. ASSUME NEW items \in Batches(MaxBatch), bulk_ingest(items) PROVE CacheInv'
  BY <1>6, CacheCleared DEF bulk_ingest, Clear
<1>7. ASSUME NEW k \in Key, store_delete(k) PROVE CacheInv'
  <2> DEFINE item  == [key |-> k, empty |-> TRUE]
             items == << item >>
  <2>a. item \in Item /\ item.key = k
    BY DEF Item
  <2>1. items \in Seq(Item) /\ KeysOf(items) = {k}
    BY <2>a, OneItem, Zenon
  <2>2. /\ AppendToLog(Numbered(items), TRUE) /\ Acknowledge(Numbered(items)) /\ phase' = phase
        /\ Invalidate(k)
    BY <1>7, Zenon DEF store_delete, delete
  <2> HIDE DEF items
  <2> QED
    BY <1>1, <1>2, <2>1, <2>2, OthersKept, CacheInvalidated, Zenon
<1>8. ASSUME NEW k \in Key, get(k) PROVE CacheInv'
  BY <1>1, <1>8, CacheRead
<1>9. ASSUME NEW name \in SnapName, store_merge(name) PROVE CacheInv'
  <2>1. PICK items \in Orders(Entries(snapshots[name])) :
            /\ IF items = << >> THEN UNCHANGED vars ELSE branch_merge(items)
            /\ Overlook(KeysOf(items))
    BY <1>9 DEF store_merge
  <2>2. items \in Seq(Item)
    BY <1>1, <1>9, OrdersType DEF store_merge, Trees
  <2>3. CASE items = << >>
    <3>1. KeysOf(items) = {}
      BY <2>3 DEF KeysOf
    <3>2. cache' = cache /\ stale' = stale
      BY <2>1, <3>1, SMTT(30) DEF Overlook
    <3> QED
      BY <1>1, <2>1, <2>3, <3>2, QuietSteps, CacheQuiet
  <2>4. CASE items # << >>
    <3>1. AppendToLog(Numbered(items), FALSE) /\ Acknowledge(Numbered(items)) /\ phase' = phase
      BY <2>1, <2>4, Zenon DEF branch_merge
    <3> QED
      BY <1>1, <1>2, <2>1, <2>2, <3>1, OthersKept, CacheOverlooked, Zenon
  <2> QED
    BY <2>3, <2>4
<1>10. ASSUME NEW name \in SnapName,
              \/ snapshot_create(name) \/ snapshot_restore(name) \/ snapshot_delete(name)
              \/ \E from \in SnapName : branch_create(name, from)
       PROVE  CacheInv'
  <2>1. UNCHANGED vars /\ UNCHANGED << cache, stale >>
    BY <1>10 DEF snapshot_create, snapshot_restore, snapshot_delete, branch_create
  <2> QED
    BY <1>1, <2>1, QuietSteps, CacheQuiet
<1>11. CASE snapshot_create_auto \/ copy_file \/ copy_end \/ backup_returns
  <2>1. UNCHANGED vars /\ UNCHANGED << cache, stale >>
    BY <1>11, SMTT(30) DEF snapshot_create_auto, copy_file, copy_end, backup_returns
  <2> QED
    BY <1>1, <2>1, QuietSteps, CacheQuiet
<1>12. CASE handle_backup
  BY <1>1, <1>12, QuietSteps, CacheQuiet, Zenon DEF handle_backup
<1>13. CASE (flush \/ sync \/ close \/ worker) /\ Unaffected
  BY <1>1, <1>13, QuietSteps, CacheQuiet DEF Unaffected, storeOnly
<1>14. CASE UNCHANGED storeVars
  BY <1>1, <1>14, QuietSteps, CacheQuiet DEF storeVars, storeOnly
<1> QED
  BY <1>1, <1>3, <1>4, <1>5, <1>6, <1>7, <1>8, <1>9, <1>10, <1>11, <1>12, <1>13, <1>14 DEF StoreNext

-----------------------------------------------------------------------------
(***************************************************************************)
(* The HAMT state and the snapshots are trees over the keys.               *)
(***************************************************************************)
TreeTypes ==
    /\ state \in Tree
    /\ DOMAIN snapshots \subseteq SnapName /\ Trees
    /\ counter \in 0 .. MaxAuto
    /\ detached \subseteq Key

LEMMA TreeFacts ==
    ASSUME NEW tree \in Tree, NEW recs \in Seq(Record), NEW m \in Page
    PROVE  /\ EmptyTree \in Tree /\ NoLeaf \in Leaf
           /\ tree_put(tree, recs) \in Tree
           /\ StateOf(m) \in Tree
<1>1. \A k \in Key : Writes(recs, k) # {} => LastWrite(recs, k) \in Record
  BY LastWriteProperty
<1>2. NoLeaf \in Leaf
  BY DEF NoLeaf, Leaf
<1>3. EmptyTree \in Tree
  BY <1>2 DEF EmptyTree, Tree
<1>4. tree_put(tree, recs) \in Tree
  BY <1>1 DEF tree_put, Tree, Leaf, Record
<1>5. StateOf(m) \in Tree
  BY <1>2 DEF StateOf, Tree, Leaf, Page, Entry
<1> QED
  BY <1>2, <1>3, <1>4, <1>5

LEMMA TreeForgotten ==
    ASSUME snapshots' = << >>, counter' = 0, state' \in Tree, detached' \subseteq Key
    PROVE  TreeTypes'
<1>1. DOMAIN << >> = {}
  OBVIOUS
<1>2. 0 \in 0 .. MaxAuto
  BY StoreAssumption
<1> QED
  BY <1>1, <1>2 DEF TreeTypes, Trees

LEMMA TreeWritten ==
    ASSUME TypeOK, TreeTypes, NEW items \in Seq(Item), state' = tree_put(state, Numbered(items)),
           detached' \subseteq detached
    PROVE  state' \in Tree /\ detached' \subseteq Key
<1>1. clock \in Nat /\ mem \in Page
  BY DEF TypeOK
<1>2. Numbered(items) \in Seq(Record)
  BY <1>1, NumberedType
<1> QED
  BY <1>1, <1>2, TreeFacts DEF TreeTypes

LEMMA TreeNext == IndInv /\ TreeTypes /\ [StoreNext]_storeVars => TreeTypes'
<1>1. SUFFICES ASSUME IndInv, TreeTypes, [StoreNext]_storeVars PROVE TreeTypes'
  OBVIOUS
<1>2. TypeOK /\ wal \in Seq(Record) /\ mem \in Page /\ state \in Tree
  BY <1>1 DEF IndInv, Sound, TypeOK, TreeTypes
<1>3. CASE store_open
  <2>1. mem' \in Page
    BY <1>1, EngineKept DEF TreeTypes, IndInv, Sound, TypeOK
  <2>2. state' \in Tree
    BY <1>2, <1>3, <2>1, TreeFacts DEF store_open
  <2> QED
    BY <1>3, <2>2, TreeForgotten DEF store_open
<1>4. CASE Forget
  BY <1>2, <1>4, TreeFacts, TreeForgotten DEF Forget
<1>5. ASSUME NEW items \in Seq(Item), Written(Numbered(items)) PROVE TreeTypes'
  <2>1. state' \in Tree /\ detached' \subseteq Key
    BY <1>1, <1>2, <1>5, TreeWritten DEF Written
  <2> QED
    BY <1>1, <1>5, <2>1 DEF Written, TreeTypes, Trees
<1>6. ASSUME NEW item \in Item, store_put(item) \/ put_profiled(item) PROVE TreeTypes'
  <2> DEFINE items == << item >>
  <2>1. items \in Seq(Item) /\ Written(Numbered(items))
    BY <1>6 DEF store_put, put_profiled
  <2> HIDE DEF items
  <2> QED
    BY <1>5, <2>1
<1>7. ASSUME NEW items \in Batches(MaxBatch), bulk_ingest(items) PROVE TreeTypes'
  BY <1>5, <1>7, BatchType DEF bulk_ingest
<1>8. ASSUME NEW k \in Key, store_delete(k) PROVE TreeTypes'
  <2>1. state' = [state EXCEPT ![k] = NoLeaf] /\ detached' = detached \ {k}
        /\ UNCHANGED << snapshots, counter >>
    BY <1>8 DEF store_delete
  <2>2. state' \in Tree
    BY <1>2, <2>1, TreeFacts DEF Tree
  <2> QED
    BY <1>1, <2>1, <2>2 DEF TreeTypes, Trees
<1>9. ASSUME NEW name \in SnapName, NEW tree \in Tree, snapshots' = Put(snapshots, name, tree)
      PROVE  DOMAIN snapshots' \subseteq SnapName /\ Trees'
  BY <1>1, <1>9 DEF Put, TreeTypes, Trees
<1>10. ASSUME NEW name \in SnapName, snapshots' = Drop(snapshots, name)
       PROVE  DOMAIN snapshots' \subseteq SnapName /\ Trees'
  BY <1>1, <1>10 DEF Drop, TreeTypes, Trees
<1>11. ASSUME NEW name \in SnapName, snapshot_create(name) PROVE TreeTypes'
  BY <1>1, <1>2, <1>9, <1>11 DEF snapshot_create, TreeTypes
<1>12. ASSUME NEW name \in SnapName, snapshot_restore(name) PROVE TreeTypes'
  <2>1. state' \in Tree /\ detached' \subseteq Key /\ UNCHANGED << snapshots, counter >>
    BY <1>1, <1>12 DEF snapshot_restore, TreeTypes, Trees
  <2> QED
    BY <1>1, <2>1 DEF TreeTypes, Trees
<1>13. ASSUME NEW name \in SnapName, snapshot_delete(name) PROVE TreeTypes'
  BY <1>1, <1>10, <1>13 DEF snapshot_delete, TreeTypes
<1>14. ASSUME NEW name \in SnapName, NEW from \in SnapName, branch_create(name, from)
       PROVE  TreeTypes'
  <2>1. snapshots[from] \in Tree
    BY <1>1, <1>14 DEF branch_create, TreeTypes, Trees
  <2> QED
    BY <1>1, <1>9, <1>14, <2>1 DEF branch_create, TreeTypes
<1>15. CASE snapshot_create_auto
  <2>1. counter + 1 \in 1 .. MaxAuto /\ counter + 1 \in SnapName /\ counter' = counter + 1
        /\ counter' \in 0 .. MaxAuto
    BY <1>1, <1>15, StoreAssumption DEF snapshot_create_auto, TreeTypes, SnapName
  <2>2. snapshots' = Put(snapshots, counter + 1, state) /\ UNCHANGED << state, detached >>
    BY <1>15, <2>1 DEF snapshot_create_auto
  <2>3. DOMAIN snapshots' \subseteq SnapName /\ Trees'
    BY <1>2, <1>9, <2>1, <2>2
  <2> QED
    BY <1>1, <2>1, <2>2, <2>3 DEF TreeTypes
<1>16. ASSUME NEW name \in SnapName, store_merge(name) PROVE TreeTypes'
  <2>1. PICK items \in Orders(Entries(snapshots[name])) :
            state' = tree_put(state, Numbered(items)) /\ detached' = detached \ KeysOf(items)
    BY <1>16 DEF store_merge
  <2>2. items \in Seq(Item)
    BY <1>1, <1>16, OrdersType DEF store_merge, TreeTypes, Trees
  <2>3. state' \in Tree /\ detached' \subseteq Key
    BY <1>1, <1>2, <2>1, <2>2, TreeWritten
  <2>4. snapshots' = Drop(snapshots, name) /\ counter' = counter
    BY <1>16 DEF store_merge
  <2> QED
    BY <1>1, <1>10, <2>3, <2>4 DEF TreeTypes
<1>17. ASSUME UNCHANGED << treeVars, detached >> PROVE TreeTypes'
  BY <1>1, <1>17 DEF TreeTypes, Trees, treeVars
<1>18. ASSUME NEW k \in Key, get(k) PROVE TreeTypes'
  BY <1>17, <1>18 DEF get
<1>19. CASE handle_backup \/ copy_file \/ copy_end \/ backup_returns
  BY <1>17, <1>19 DEF handle_backup, copy_file, copy_end, backup_returns
<1>20. CASE Unaffected \/ UNCHANGED storeVars
  BY <1>17, <1>20 DEF Unaffected, storeVars, storeOnly
<1> QED
  BY <1>1, <1>3, <1>4, <1>6, <1>7, <1>8, <1>11, <1>12, <1>13, <1>14, <1>15, <1>16, <1>18,
     <1>19, <1>20 DEF StoreNext

-----------------------------------------------------------------------------
(***************************************************************************)
(* The backup.  Its caller holds the engine, so the log stays as it is     *)
(* until the copy has been returned; the log covers every page that was in *)
(* a file at some time.                                                    *)
(***************************************************************************)
BackupHeld ==
    /\ backup \in [at : {"none", "copying", "made"}, log : Seq(Record), files : SUBSET File]
    /\ backup.at # "none" => phase = "open"
    /\ backup.at = "made" => backup.log = SubSeq(wal, 1, flushed)
    /\ backup.at # "none" /\ ~hole => \A f \in backup.files : LogCovers(wal, f.page)

LEMMA NoneHeld == backup' = NoBackup => BackupHeld'
BY DEF BackupHeld, NoBackup

LEMMA FreeHeld == BackupHeld /\ Free /\ backup' = backup => BackupHeld'
BY DEF BackupHeld, Free

LEMMA SameHeld ==
    ASSUME BackupHeld, backup' = backup, UNCHANGED << wal, flushed, phase, hole >>
    PROVE  BackupHeld'
BY DEF BackupHeld

LEMMA BackupNext == IndInv /\ BackupHeld /\ [StoreNext]_storeVars => BackupHeld'
<1>1. SUFFICES ASSUME IndInv, BackupHeld, [StoreNext]_storeVars PROVE BackupHeld'
  OBVIOUS
<1>2. CASE store_open \/ Forget \/ backup_returns
  BY <1>2, NoneHeld DEF store_open, Forget, backup_returns
<1>3. ASSUME NEW item \in Item, store_put(item) \/ put_profiled(item) PROVE BackupHeld'
  BY <1>1, <1>3, FreeHeld DEF store_put, put_profiled, Written
<1>4. ASSUME NEW items \in Batches(MaxBatch), bulk_ingest(items) PROVE BackupHeld'
  BY <1>1, <1>4, FreeHeld DEF bulk_ingest, Written
<1>5. ASSUME NEW k \in Key, store_delete(k) \/ get(k) PROVE BackupHeld'
  BY <1>1, <1>5, FreeHeld DEF store_delete, get
<1>6. ASSUME NEW name \in SnapName,
             \/ snapshot_create(name) \/ snapshot_restore(name) \/ snapshot_delete(name)
             \/ \E from \in SnapName : branch_create(name, from)
      PROVE  BackupHeld'
  BY <1>1, <1>6, FreeHeld
     DEF snapshot_create, snapshot_restore, snapshot_delete, branch_create
<1>7. ASSUME NEW name \in SnapName, store_merge(name) PROVE BackupHeld'
  BY <1>1, <1>7, FreeHeld DEF store_merge
<1>8. CASE snapshot_create_auto
  BY <1>1, <1>8, FreeHeld DEF snapshot_create_auto
<1>9. CASE Free /\ (flush \/ sync \/ close) /\ Unaffected
  BY <1>1, <1>9, FreeHeld DEF Unaffected, storeOnly
<1>10. CASE handle_backup
  <2>1. /\ backup' = [at |-> "copying", log |-> << >>, files |-> {}]
        /\ phase = "open" /\ phase' = phase
    BY <1>10 DEF handle_backup
  <2>2. << >> \in Seq(Record)
    OBVIOUS
  <2> QED
    BY <2>1, <2>2 DEF BackupHeld
<1>11. CASE copy_file
  <2>1. PICK f \in disk : backup' = [backup EXCEPT !.files = @ \cup {f}]
    BY <1>11, Zenon DEF copy_file
  <2>2. backup.at = "copying" /\ UNCHANGED << wal, flushed, phase, hole >>
    BY <1>11 DEF copy_file, vars, walVars, history
  <2>3. f \in File /\ (~hole => LogCovers(wal, f.page))
    BY <1>1 DEF IndInv, Sound, TypeOK, Safe, LogCoversPages
  <2>4. /\ backup' \in [at : {"none", "copying", "made"}, log : Seq(Record), files : SUBSET File]
        /\ backup'.at = "copying" /\ backup'.files = backup.files \cup {f}
    BY <1>1, <2>1, <2>2, <2>3 DEF BackupHeld
  <2> QED
    BY <1>1, <2>2, <2>3, <2>4 DEF BackupHeld
<1>12. CASE copy_end
  <2>1. backup.at = "copying" /\ UNCHANGED << wal, flushed, phase, hole >>
    BY <1>12 DEF copy_end, vars, walVars, history
  <2>2. CASE backup' = NoBackup
    BY <2>2, NoneHeld, SMTT(30)
  <2>3. CASE backup' = [backup EXCEPT !.at = "made", !.log = SubSeq(wal, 1, flushed)]
    <3>1. SubSeq(wal, 1, flushed) \in Seq(Record)
      <4>1. wal \in Seq(Record) /\ flushed \in 0 .. Len(wal)
        BY <1>1 DEF IndInv, Sound, TypeOK
      <4>2. Len(wal) \in Nat
        BY <4>1, LenProperties
      <4>3. flushed \in Int /\ 1 \in Int /\ \A i \in 1 .. flushed : i \in 1 .. Len(wal)
        BY <4>1, <4>2
      <4>4. \A i \in 1 .. flushed : wal[i] \in Record
        BY <4>1, <4>3, ElementOfSeq
      <4> QED
        BY <4>3, <4>4, SubSeqProperties
    <3>2. /\ backup' \in [at : {"none", "copying", "made"}, log : Seq(Record), files : SUBSET File]
          /\ backup'.at = "made" /\ backup'.files = backup.files
          /\ backup'.log = SubSeq(wal, 1, flushed)
      BY <1>1, <2>3, <3>1, Zenon DEF BackupHeld
    <3> QED
      BY <1>1, <2>1, <3>2, Zenon DEF BackupHeld
  <2> QED
    BY <1>12, <2>2, <2>3 DEF copy_end
<1>13. CASE worker /\ Unaffected
  <2>1. backup' = backup /\ UNCHANGED << wal, flushed, phase, hole >>
    BY <1>13 DEF worker, add_page, remove_file, write_file, save_fails, walVars, history,
                 Unaffected, storeOnly
  <2> QED
    BY <1>1, <2>1, SameHeld, SMTT(30)
<1>14. CASE UNCHANGED storeVars
  <2>1. backup' = backup /\ UNCHANGED << wal, flushed, phase, hole >>
    BY <1>14 DEF storeVars, storeOnly, vars, walVars, history
  <2> QED
    BY <1>1, <2>1, SameHeld, SMTT(30)
<1> QED
  BY <1>1, <1>2, <1>3, <1>4, <1>5, <1>6, <1>7, <1>8, <1>9, <1>10, <1>11, <1>12, <1>13, <1>14
     DEF StoreNext
=============================================================================
