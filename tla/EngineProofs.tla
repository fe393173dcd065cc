---------------------------- MODULE EngineProofs ----------------------------
(***************************************************************************)
(* The safety properties of the engine, for every set of keys and all      *)
(* limits, thresholds and bounds: the inductive invariant (order of the    *)
(* pages, coverage by the log, no acknowledged write lost) is preserved by *)
(* writes, flushes, crashes, the page files, a restart and the compaction  *)
(* thread; and the theorems that follow.                                   *)
(***************************************************************************)
EXTENDS EngineTypeProofs

-----------------------------------------------------------------------------
(***************************************************************************)
(* What a write call does to the memtable.                                 *)
(***************************************************************************)
Updated(m, recs) ==
    \A k \in Key : IF Writes(recs, k) = {} THEN m[k] = mem[k]
                   ELSE /\ m[k].ver = LastWrite(recs, k).ver
                        /\ m[k].tombstone => LastWrite(recs, k).empty

LEMMA SafeWrite ==
    ASSUME IndInv, NEW recs \in Seq(Record), NEW fl \in BOOLEAN, NEW m \in Page,
           \A i \in DOMAIN recs : recs[i].ver = clock + i,
           AppendToLog(recs, fl), Acknowledge(recs), Updated(m, recs),
           InsertThenFlush(m) \/ (mem' = m /\ UNCHANGED << frozen, queue >>),
           UNCHANGED << phase, diskVars >>
    PROVE  Safe'
<1>1. TypeOK /\ LogInOrder /\ wal \in Seq(Record) /\ clock \in Nat /\ Len(recs) \in Nat
  BY LenProperties DEF IndInv, Sound, Safe, TypeOK
<1> DEFINE all == wal \o recs
<1>2. /\ \A i, j \in DOMAIN all : i < j => all[i].ver < all[j].ver
      /\ \A i \in DOMAIN all : all[i].ver >= 1 /\ all[i].ver <= clock + Len(recs)
      /\ \A i \in DOMAIN wal : i \in DOMAIN all /\ all[i] = wal[i]
      /\ \A i \in DOMAIN recs : Len(wal) + i \in DOMAIN all /\ all[Len(wal) + i] = recs[i]
  BY <1>1, LogExtended, ZenonT(40)
<1>3. /\ wal' = IF torn THEN wal ELSE all
      /\ hole' = (hole \/ torn) /\ clock' = clock + Len(recs)
  BY DEF AppendToLog
<1> HIDE DEF all
<1>4. LogInOrder'
  <2>1. CASE torn
    <3>1. \A i \in DOMAIN wal : wal[i].ver \in Nat
      <4>1. \A i \in DOMAIN wal : wal[i] \in Record
        BY <1>1, LenProperties, ElementOfSeq, SMTT(30)
      <4> QED
        BY <4>1 DEF Record
    <3> QED
      BY <1>1, <1>3, <2>1, <3>1 DEF LogInOrder
  <2>2. CASE ~torn
    BY <1>2, <1>3, <2>2, SMTT(30) DEF LogInOrder
  <2> QED
    BY <2>1, <2>2
<1>5. CASE hole'
  BY <1>4, <1>5 DEF Safe, AckedInLog, FilesInOrder, PagesInOrder, LogCoversPages, NothingLost
<1>6. CASE ~hole'
  <2>1. ~hole /\ ~torn /\ wal' = all
    BY <1>3, <1>6, Zenon
  <2>2. LogGrows
    BY <1>2, <2>1 DEF LogGrows
  <2>3. Base \in Seq(Page) /\ Stack = Base \o << mem >> /\ mem \in Page
    BY <1>1, StackView, ZenonT(40) DEF TypeOK
  <2>4. PageSet(Base) \subseteq Page
    BY <2>3, PageSetType
  <2>5. PageSet(Stack) = PageSet(Base) \cup {mem}
    BY <2>3, Top, ZenonT(40)
  <2>6. \A p \in PageSet(Base) \cup {mem} : LogCovers(wal, p)
    BY <2>1, <2>5, SMTT(30) DEF IndInv, Safe, LogCoversPages, PageSet
  <2>7. Ascending(Base) /\ \A p \in PageSet(Base) : Older(p, mem)
    BY <2>1, <2>3, Top, SMTT(30) DEF IndInv, Safe, PagesInOrder
  <2>8. /\ PageSet(Stack') \subseteq PageSet(Base) \cup {m, EmptyPage}
        /\ Ascending(Base) /\ (\A p \in PageSet(Base) : Older(p, m)) => Ascending(Stack')
        /\ \A k \in Key : LastEntry(Stack', k) = IF Has(m, k) THEN m[k] ELSE LastEntry(Base, k)
    <3>1. OnTop(Stack', Base, m)
      BY <1>1, InsertStack DEF diskVars
    <3> QED
      BY <2>3, <3>1, OnTopFacts, ZenonT(40)
  <2>9. \A p \in Page : LogCovers(wal, p) => LogCovers(wal', p)
    BY <2>2, CoverageGrows
  <2>10. ASSUME NEW k \in Key, Writes(recs, k) # {}
         PROVE  \E i \in DOMAIN recs : /\ LastWrite(recs, k) = recs[i]
                                       /\ recs[i].key = k
                                       /\ i >= 1 /\ m[k].ver = clock + i
    <3>1. PICK i \in Writes(recs, k) : LastWrite(recs, k) = recs[i]
      BY <2>10, LastWriteProperty
    <3>2. i \in DOMAIN recs /\ recs[i].key = k /\ i >= 1
      BY LenProperties DEF Writes
    <3> QED
      BY <2>10, <3>1, <3>2 DEF Updated
  <2>11. LogCovers(wal', m)
    <3>1. SUFFICES ASSUME NEW k \in Key, Has(m, k) PROVE InLog(wal', k, m[k])
      BY DEF LogCovers
    <3>2. CASE Writes(recs, k) = {}
      <4>1. m[k] = mem[k]
        BY <3>2 DEF Updated
      <4>2. LogCovers(wal, mem)
        BY <2>6
      <4>3. InLog(wal, k, mem[k])
        BY <3>1, <4>1, <4>2 DEF LogCovers, Has
      <4>4. PICK i \in DOMAIN wal : /\ wal[i].key = k /\ wal[i].ver = mem[k].ver
                                    /\ mem[k].tombstone => wal[i].empty
        BY <4>3 DEF InLog
      <4> QED
        BY <2>2, <4>1, <4>4 DEF InLog, LogGrows
    <3>3. CASE Writes(recs, k) # {}
      <4>1. PICK i \in DOMAIN recs : LastWrite(recs, k) = recs[i] /\ recs[i].key = k
        BY <2>10, <3>3
      <4>2. m[k].ver = recs[i].ver /\ (m[k].tombstone => recs[i].empty)
        BY <3>3, <4>1 DEF Updated
      <4> QED
        BY <1>2, <2>1, <4>1, <4>2, SMTT(30) DEF InLog
    <3> QED
      BY <3>2, <3>3
  <2>12. LogCoversPages'
    <3>1. \A p \in PageSet(Base) : LogCovers(wal', p)
      BY <2>4, <2>6, <2>9
    <3>2. LogCovers(wal', EmptyPage)
      BY DEF LogCovers, EmptyPage, Has, NoEntry
    <3>3. \A p \in PageSet(Stack') : LogCovers(wal', p)
      BY <2>8, <2>11, <3>1, <3>2, SMTT(30)
    <3>4. \A f \in disk' : LogCovers(wal', f.page)
      <4>1. disk' = disk /\ \A f \in disk : LogCovers(wal, f.page) /\ f.page \in Page
        BY <1>1, <2>1 DEF IndInv, Safe, LogCoversPages, diskVars, TypeOK, File
      <4> QED
        BY <2>9, <4>1
    <3>5. \A i \in DOMAIN Stack' : LogCovers(wal', Stack'[i])
      BY <3>3, SMTT(30) DEF PageSet
    <3> QED
      BY <3>4, <3>5, SMTT(30) DEF LogCoversPages
  <2>13. PagesInOrder'
    <3>1. ASSUME NEW p \in PageSet(Base), NEW k \in Key, Has(p, k), Has(m, k)
          PROVE  p[k].ver <= m[k].ver
      <4>1. CASE Writes(recs, k) = {}
        BY <2>7, <3>1, <4>1 DEF Updated, Older, Has
      <4>2. CASE Writes(recs, k) # {}
        <5>1. p \in Page /\ p[k].ver <= clock
          BY <1>1, <2>4, <2>6, <3>1, CoveredVersions
        <5>2. p[k].ver \in Nat
          BY <5>1 DEF Page, Entry
        <5> QED
          BY <1>1, <2>10, <4>2, <5>1, <5>2, LenProperties, SMTT(30)
      <4> QED
        BY <4>1, <4>2, SMTT(30)
    <3> QED
      BY <2>7, <2>8, <3>1 DEF PagesInOrder, Older
  <2>14. AckedInLog'
    <3>1. SUFFICES ASSUME NEW k \in Key, acked'[k] # 0
                   PROVE  \E i \in DOMAIN all : all[i].key = k /\ all[i].ver >= acked'[k]
      BY <2>1 DEF AckedInLog, Writes
    <3>2. CASE Writes(recs, k) = {}
      <4>1. acked'[k] = acked[k]
        BY <3>2, ZenonT(40) DEF Acknowledge
      <4>2. PICK i \in DOMAIN wal : wal[i].key = k /\ wal[i].ver >= acked[k]
        BY <2>1, <3>1, <4>1, ZenonT(40) DEF IndInv, Safe, AckedInLog, Writes
      <4> QED
        BY <1>2, <4>1, <4>2, SMTT(30)
    <3>3. CASE Writes(recs, k) # {}
      <4>1. PICK i \in DOMAIN recs : LastWrite(recs, k) = recs[i] /\ recs[i].key = k
        BY <2>10, <3>3
      <4>2. acked'[k] = recs[i].ver
        BY <3>3, <4>1 DEF Acknowledge
      <4>3. recs[i].ver \in Nat
        <5>1. recs[i] \in Record
          BY LenProperties, ElementOfSeq
        <5> QED
          BY <5>1 DEF Record
      <4> QED
        BY <1>2, <4>1, <4>2, <4>3, SMTT(30)
    <3> QED
      BY <3>2, <3>3
  <2>15. FilesInOrder'
    BY <2>1, SMTT(30) DEF IndInv, Safe, FilesInOrder, diskVars
  <2>16. NothingLost'
    <3>1. SUFFICES ASSUME phase # "down", NEW k \in Key, k \notin clobbered'
                   PROVE  Fresh(wal', k, acked'[k], LastEntry(Stack', k))
      BY DEF NothingLost
    <3>2. CASE Writes(recs, k) # {}
      <4>1. PICK i \in DOMAIN recs : i >= 1 /\ m[k].ver = clock + i /\ LastWrite(recs, k) = recs[i]
        BY <2>10, <3>2
      <4>2. acked'[k] = recs[i].ver /\ recs[i].ver = clock + i
        BY <3>2, <4>1, SMTT(30) DEF Acknowledge
      <4>3. clock + i \in Nat /\ clock + i # 0
        BY <1>1, <4>1, LenProperties
      <4>4. Has(m, k)
        BY <4>1, <4>3, SMTT(30) DEF Has
      <4>5. LastEntry(Stack', k).ver >= acked'[k]
        <5>1. LastEntry(Stack', k) = m[k]
          BY <2>8, <4>4
        <5>2. acked'[k] = clock + i /\ m[k].ver = clock + i
          BY <4>1, <4>2, SMTT(30)
        <5> QED
          BY <4>3, <5>1, <5>2, SMTT(30)
      <4> QED
        BY <4>5 DEF Fresh
    <3>3. CASE Writes(recs, k) = {}
      <4>1. acked'[k] = acked[k] /\ k \notin clobbered
        BY <3>1, <3>3, ZenonT(40) DEF Acknowledge
      <4>2. m[k] = mem[k]
        BY <3>3 DEF Updated
      <4>3. LastEntry(Stack, k) = IF Has(mem, k) THEN mem[k] ELSE LastEntry(Base, k)
        BY <2>3, Top, ZenonT(40)
      <4>4. LastEntry(Stack', k) = LastEntry(Stack, k)
        BY <2>8, <4>2, <4>3, SMTT(30) DEF Has
      <4>5. Fresh(wal, k, acked[k], LastEntry(Stack, k))
        BY <2>1, <3>1, <4>1 DEF IndInv, Safe, NothingLost
      <4>6. LastEntry(Stack, k) \in Entry
        BY <1>1, StackView, EntryTypes
      <4>7. acked[k] \in Nat
        BY <1>1 DEF TypeOK
      <4> QED
        BY <2>2, <4>1, <4>4, <4>5, <4>6, <4>7, CoverageGrows, Zenon
    <3> QED
      BY <3>2, <3>3
  <2> QED
    BY <1>4, <2>12, <2>13, <2>14, <2>15, <2>16 DEF Safe
<1> QED
  BY <1>5, <1>6

-----------------------------------------------------------------------------
(***************************************************************************)
(* Steps that leave the log, the stack and the history alone.              *)
(***************************************************************************)
LEMMA SafeSame ==
    ASSUME Safe, UNCHANGED << wal, mem, queue, levels, clock, acked, clobbered, hole >>,
           disk' \subseteq disk, phase' = "down" \/ phase # "down" \/ phase' = phase
    PROVE  Safe'
<1>1. LogInOrder' /\ AckedInLog'
  BY DEF Safe, LogInOrder, AckedInLog
<1>2. FilesInOrder'
  BY DEF Safe, FilesInOrder
<1>3. Stack' = Stack
  BY DEF Stack
<1>4. PagesInOrder' /\ LogCoversPages' /\ NothingLost'
  BY <1>3 DEF Safe, PagesInOrder, LogCoversPages, NothingLost
<1> QED
  BY <1>1, <1>2, <1>4 DEF Safe

(***************************************************************************)
(* Flushing the memtable moves it under a new, empty one.                  *)
(***************************************************************************)
LEMMA SafeFlush ==
    ASSUME IndInv, flush_memtable(mem), UNCHANGED << wal, levels, disk, history >>,
           phase = "open"
    PROVE  Safe'
<1>1. /\ TypeOK /\ mem \in Page /\ Base \in Seq(Page) /\ Stack = Base \o << mem >>
  BY StackView, Zenon DEF IndInv, Sound, TypeOK
<1>2. UNCHANGED << clock, acked, clobbered, hole >>
  BY DEF history
<1>3. OnTop(Stack', Base, mem)
  BY <1>1, FlushStack
<1>4. /\ Ascending(Base) /\ (\A p \in PageSet(Base) : Older(p, mem)) => Ascending(Stack')
      /\ PageSet(Stack') \subseteq PageSet(Base) \cup {mem, EmptyPage}
      /\ \A k \in Key : LastEntry(Stack', k) = IF Has(mem, k) THEN mem[k] ELSE LastEntry(Base, k)
  BY <1>1, <1>3, OnTopFacts
<1>5. /\ Ascending(Stack) <=> Ascending(Base) /\ \A p \in PageSet(Base) : Older(p, mem)
      /\ PageSet(Stack) = PageSet(Base) \cup {mem}
      /\ \A k \in Key : LastEntry(Stack, k) = IF Has(mem, k) THEN mem[k] ELSE LastEntry(Base, k)
  BY <1>1, Top
<1>6. LogInOrder' /\ AckedInLog' /\ FilesInOrder'
  BY <1>2 DEF IndInv, Safe, LogInOrder, AckedInLog, FilesInOrder
<1>7. PagesInOrder'
  BY <1>2, <1>4, <1>5 DEF IndInv, Safe, PagesInOrder
<1>8. LogCoversPages'
  <2>1. CASE hole
    BY <1>2, <2>1 DEF LogCoversPages
  <2>2. CASE ~hole
    <3>1. \A p \in PageSet(Stack) : LogCovers(wal, p)
      BY <2>2 DEF IndInv, Safe, LogCoversPages, PageSet
    <3>2. LogCovers(wal, EmptyPage)
      BY DEF LogCovers, EmptyPage, Has, NoEntry
    <3>3. \A p \in PageSet(Stack') : LogCovers(wal, p)
      BY <1>4, <1>5, <3>1, <3>2
    <3>4. \A j \in DOMAIN Stack' : LogCovers(wal, Stack'[j])
      BY <3>3, SMTT(30) DEF PageSet
    <3> QED
      BY <2>2, <3>4 DEF IndInv, Safe, LogCoversPages
  <2> QED
    BY <2>1, <2>2
<1>9. NothingLost'
  BY <1>2, <1>4, <1>5, Zenon DEF IndInv, Safe, NothingLost
<1> QED
  BY <1>6, <1>7, <1>8, <1>9 DEF Safe

(***************************************************************************)
(* After the memory is gone only the log and the files matter.             *)
(***************************************************************************)
LEMMA SafeLoseMemory ==
    ASSUME IndInv, LoseMemory, UNCHANGED << acked, clobbered >>, LogInOrder',
           ~hole' => ~hole /\ LogGrows
    PROVE  Safe'
<1>1. Stack' = << EmptyPage >>
  <2>1. /\ levels'[0] = << >> /\ levels'[1] = << >> /\ levels'[2] = << >>
        /\ queue' = << >> /\ mem' = EmptyPage
    BY DEF LoseMemory, NoLevels
  <2>2. EmptyPage \in Page
    BY DEF EmptyPage, Page, NoEntry, Entry
  <2>3. << >> \o << >> = << >> /\ << >> \o << EmptyPage >> = << EmptyPage >>
    BY <2>2, Singleton, ConcatEmptySeq, EmptySeq
  <2> QED
    BY <2>1, <2>3 DEF Stack
<1>2. DOMAIN << EmptyPage >> = {1} /\ << EmptyPage >>[1] = EmptyPage
  OBVIOUS
<1>3. PagesInOrder'
  BY <1>1, <1>2 DEF PagesInOrder, Ascending
<1>4. NothingLost'
  BY DEF LoseMemory, NothingLost
<1>5. disk' = disk
  BY DEF LoseMemory
<1>6. FilesInOrder'
  BY <1>5 DEF IndInv, Safe, FilesInOrder
<1>7. LogCoversPages'
  <2>1. SUFFICES ASSUME ~hole'
                 PROVE  /\ \A j \in DOMAIN Stack' : LogCovers(wal', Stack'[j])
                        /\ \A f \in disk' : LogCovers(wal', f.page)
    BY DEF LogCoversPages
  <2>2. LogCovers(wal', EmptyPage)
    BY DEF LogCovers, EmptyPage, Has, NoEntry
  <2>3. \A f \in disk : LogCovers(wal, f.page) /\ f.page \in Page
    BY <2>1 DEF IndInv, Sound, Safe, LogCoversPages, TypeOK, File
  <2> QED
    BY <1>1, <1>2, <1>5, <2>1, <2>2, <2>3, CoverageGrows
<1>8. AckedInLog'
  <2>1. SUFFICES ASSUME ~hole', NEW k \in Key, acked[k] # 0
                 PROVE  \E j \in Writes(wal', k) : wal'[j].ver >= acked[k]
    BY DEF AckedInLog
  <2>2. PICK j \in Writes(wal, k) : wal[j].ver >= acked[k]
    BY <2>1 DEF IndInv, Safe, AckedInLog
  <2> QED
    BY <2>1, <2>2 DEF LogGrows, Writes
<1> QED
  BY <1>3, <1>4, <1>6, <1>7, <1>8 DEF Safe

LEMMA SafeCrash == IndInv /\ crash => Safe'
<1>1. SUFFICES ASSUME IndInv, crash PROVE Safe'
  OBVIOUS
<1>2. TypeOK /\ LogInOrder
  BY <1>1 DEF IndInv, Sound, Safe
<1>3. PICK recs \in Seq(Record), n \in Nat :
        /\ \A i \in DOMAIN recs : recs[i].ver = clock + i
        /\ clock' = clock + Len(recs)
        /\ n \in flushed .. Len(wal) + Len(recs)
        /\ wal' \in Seq(Record) /\ Len(wal') = n
        /\ \A i \in 1 .. n : wal'[i] = (wal \o recs)[i]
        /\ hole' = (hole \/ n < Len(wal))
  BY <1>1, <1>2, CrashLog, Zenon
<1> DEFINE all == wal \o recs
<1>4. /\ \A i, j \in DOMAIN all : i < j => all[i].ver < all[j].ver
      /\ \A i \in DOMAIN all : all[i].ver >= 1 /\ all[i].ver <= clock + Len(recs)
      /\ \A i \in DOMAIN wal : i \in DOMAIN all /\ all[i] = wal[i]
  BY <1>2, <1>3, LogExtended
<1>5. /\ DOMAIN all = 1 .. Len(wal) + Len(recs) /\ DOMAIN wal = 1 .. Len(wal)
      /\ Len(wal) \in Nat /\ Len(recs) \in Nat
  BY <1>2, RecordConcat DEF TypeOK
<1> HIDE DEF all
<1>6. DOMAIN wal' = 1 .. n /\ \A i \in 1 .. n : i \in DOMAIN all /\ wal'[i] = all[i]
  <2>1. DOMAIN wal' = 1 .. n
    BY <1>3, LenProperties
  <2>2. \A i \in 1 .. n : wal'[i] = all[i]
    BY <1>3 DEF all
  <2>3. n <= Len(wal) + Len(recs)
    BY <1>2, <1>3, <1>5 DEF TypeOK
  <2> QED
    BY <1>5, <2>1, <2>2, <2>3
<1>7. LogInOrder'
  BY <1>3, <1>4, <1>6 DEF LogInOrder
<1>8. ~hole' => ~hole /\ LogGrows
  <2>1. SUFFICES ASSUME ~hole' PROVE ~hole /\ LogGrows
    OBVIOUS
  <2>2. ~hole /\ ~(n < Len(wal))
    BY <1>3, <2>1, Zenon
  <2>3. \A i \in DOMAIN wal : i \in 1 .. n
    BY <1>5, <2>2
  <2> QED
    BY <1>4, <1>6, <2>2, <2>3 DEF LogGrows
<1>9. LoseMemory /\ UNCHANGED << acked, clobbered >>
  BY <1>1 DEF crash
<1> QED
  BY <1>1, <1>7, <1>8, <1>9, SafeLoseMemory

-----------------------------------------------------------------------------
(***************************************************************************)
(* Once the engine holds the levels in order, so are the files they give.  *)
(***************************************************************************)
LEMMA SavedInOrder ==
    ASSUME NEW lv \in Levels, Ascending(Low(lv)),
           NEW f \in FilesOf(lv), NEW g \in FilesOf(lv), Under(f, g)
    PROVE  Older(f.page, g.page)
<1>1. /\ f \in File /\ f.index \in DOMAIN lv[f.level] /\ f.page = lv[f.level][f.index]
      /\ g \in File /\ g.index \in DOMAIN lv[g.level] /\ g.page = lv[g.level][g.index]
  BY FilesOfProperty
<1>2. f.level \in {0, 1, 2} /\ g.level \in {0, 1, 2}
  BY <1>1 DEF File
<1>3. /\ Ascending(lv[2]) /\ Ascending(lv[1]) /\ Ascending(lv[0])
      /\ Beneath(lv[2], lv[1]) /\ Beneath(lv[2], lv[0]) /\ Beneath(lv[1], lv[0])
  BY LowPages, SMTT(30)
<1>4. CASE f.level = g.level /\ f.index < g.index
  <2>1. Ascending(lv[f.level])
    BY <1>2, <1>3
  <2> QED
    BY <1>1, <1>4, <2>1 DEF Ascending
<1>5. CASE f.level > g.level
  <2>1. Beneath(lv[f.level], lv[g.level])
    BY <1>2, <1>3, <1>5
  <2> QED
    BY <1>1, <2>1 DEF Beneath
<1> QED
  BY <1>4, <1>5 DEF Under

LEMMA SafeWriteFile == IndInv /\ write_file => Safe'
<1>1. SUFFICES ASSUME IndInv, write_file PROVE Safe'
  OBVIOUS
<1>2. PICK f \in FilesOf(levels) \ disk : disk' = disk \cup {f}
  BY <1>1 DEF write_file
<1>3. /\ UNCHANGED << phase, wal, mem, queue, levels, clock, acked, clobbered, hole >>
      /\ disk' \subseteq FilesOf(levels)
  BY <1>1, <1>2 DEF write_file, walVars, memVars, history, IndInv, Sound, Shape
<1>4. TypeOK /\ levels \in Levels /\ Low(levels) \in Seq(Page) /\ queue \in Seq(Page)
      /\ mem \in Page /\ Base \in Seq(Page) /\ Stack = Base \o << mem >>
  BY <1>1, StackView, SMTT(30) DEF IndInv, Sound, TypeOK
<1>5. Stack' = Stack
  BY <1>3 DEF Stack
<1>6. LogInOrder' /\ AckedInLog' /\ PagesInOrder' /\ NothingLost'
  BY <1>1, <1>3, <1>5 DEF IndInv, Safe, LogInOrder, AckedInLog, PagesInOrder, NothingLost
<1>7. ~hole => Ascending(Low(levels))
  <2>1. Ascending(Stack) => Ascending(Base)
    BY <1>4, Top
  <2>2. Ascending(Base) => Ascending(Low(levels))
    BY <1>4, AscendingConcat DEF Base
  <2> QED
    BY <1>1, <2>1, <2>2 DEF IndInv, Safe, PagesInOrder
<1>8. FilesInOrder'
  BY <1>3, <1>4, <1>7, SavedInOrder DEF FilesInOrder
<1>9. LogCoversPages'
  <2>1. SUFFICES ASSUME ~hole PROVE LogCovers(wal, f.page)
    BY <1>1, <1>2, <1>3, <1>5 DEF IndInv, Safe, LogCoversPages
  <2>2. f.level \in 0 .. 2 /\ f.page \in PageSet(levels[f.level])
    BY <1>2, <1>4, FilesOfProperty DEF PageSet, File
  <2>3. f.page \in PageSet(Low(levels))
    BY <1>4, <2>2, LowPages
  <2>4. Low(levels) \in Seq(Page) /\ queue \in Seq(Page)
    BY <1>4
  <2>5. PageSet(Base) = PageSet(Low(levels)) \cup PageSet(queue)
    BY <2>4, PageSetConcat, Zenon DEF Base
  <2>6. f.page \in PageSet(Base)
    BY <2>3, <2>5, Zenon
  <2>7. f.page \in PageSet(Stack)
    BY <1>4, <2>6, Top
  <2> QED
    BY <1>1, <2>1, <2>7, SMTT(30) DEF IndInv, Safe, LogCoversPages, PageSet
<1> QED
  BY <1>6, <1>8, <1>9 DEF Safe

-----------------------------------------------------------------------------
(***************************************************************************)
(* Engine::open.  The loaded levels are in order and covered by the log.   *)
(***************************************************************************)
LEMMA LoadedLevels ==
    ASSUME IndInv, open, ~hole
    PROVE  /\ levels' \in Levels /\ Low(levels') \in Seq(Page)
           /\ Ascending(Low(levels'))
           /\ \A p \in PageSet(Low(levels')) : p \in Page /\ LogCovers(wal, p)
<1>1. TypeOK
  BY DEF IndInv, Sound
<1>2. PICK l0 \in SortedFiles(0), l1 \in SortedFiles(1), l2 \in SortedFiles(2) :
        levels' = [l \in 0 .. 2 |-> IF l = 0 THEN PagesOf(l0)
                                    ELSE IF l = 1 THEN PagesOf(l1) ELSE PagesOf(l2)]
  BY DEF open
<1>3. levels'[0] = PagesOf(l0) /\ levels'[1] = PagesOf(l1) /\ levels'[2] = PagesOf(l2)
  BY <1>2
<1> DEFINE s == [l \in 0 .. 2 |-> IF l = 0 THEN l0 ELSE IF l = 1 THEN l1 ELSE l2]
<1>4. ASSUME NEW l \in 0 .. 2
      PROVE  /\ s[l] \in SortedFiles(l)
             /\ levels'[l] = PagesOf(s[l])
  BY <1>3
<1> HIDE DEF s
<1>5. ASSUME NEW l \in 0 .. 2
      PROVE  /\ levels'[l] \in Seq(Page)
             /\ DOMAIN levels'[l] \in SUBSET Nat
             /\ \A i \in DOMAIN levels'[l] :
                  s[l][i] \in disk /\ s[l][i].level = l /\ levels'[l][i] = s[l][i].page
             /\ \A i, j \in DOMAIN levels'[l] : i < j => s[l][i].index < s[l][j].index
  <2> DEFINE t == s[l]
             q == PagesOf(t)
  <2>1. t \in SortedFiles(l) /\ levels'[l] = q
    BY <1>4
  <2> HIDE DEF t
  <2>2. q \in Seq(Page) /\ DOMAIN q \in SUBSET Nat
    BY <1>1, <2>1, SortedProperty
  <2>3. \A i \in DOMAIN q : t[i] \in disk /\ t[i].level = l /\ q[i] = t[i].page
    BY <1>1, <2>1, SortedProperty
  <2>4. \A i, j \in DOMAIN q : i < j => t[i].index < t[j].index
    BY <1>1, <2>1, SortedProperty
  <2> HIDE DEF q
  <2> QED
    BY <2>1, <2>2, <2>3, <2>4 DEF t
<1>6. levels' \in Levels
  BY <1>2, <1>5 DEF Levels
<1>7. ASSUME NEW l \in 0 .. 2 PROVE Ascending(levels'[l])
  <2>1. SUFFICES ASSUME NEW i \in DOMAIN levels'[l], NEW j \in DOMAIN levels'[l], i < j
                 PROVE  Older(levels'[l][i], levels'[l][j])
    BY DEF Ascending
  <2>2. Under(s[l][i], s[l][j])
    BY <1>5, <2>1, Zenon DEF Under
  <2> QED
    BY <1>5, <2>2, Zenon DEF IndInv, Safe, FilesInOrder
<1>8. ASSUME NEW l \in 0 .. 2, NEW m \in 0 .. 2, l > m PROVE Beneath(levels'[l], levels'[m])
  <2>1. SUFFICES ASSUME NEW i \in DOMAIN levels'[l], NEW j \in DOMAIN levels'[m]
                 PROVE  Older(levels'[l][i], levels'[m][j])
    BY DEF Beneath
  <2>2. Under(s[l][i], s[m][j])
    BY <1>5, <1>8, SMTT(30) DEF Under
  <2> QED
    BY <1>5, <2>2, Zenon DEF IndInv, Safe, FilesInOrder
<1>9. ASSUME NEW l \in 0 .. 2, NEW p \in PageSet(levels'[l]) PROVE p \in Page /\ LogCovers(wal, p)
  <2>1. PICK i \in DOMAIN levels'[l] : p = levels'[l][i]
    BY DEF PageSet
  <2>2. s[l][i] \in disk /\ p = s[l][i].page
    BY <1>5, <2>1
  <2> QED
    BY <1>1, <2>2, Zenon DEF IndInv, Safe, LogCoversPages, TypeOK, File
<1>10. Ascending(Low(levels'))
  BY <1>6, <1>7, <1>8, LowPages
<1>11. \A p \in PageSet(Low(levels')) : p \in Page /\ LogCovers(wal, p)
  BY <1>6, <1>9, LowPages
<1> QED
  BY <1>6, <1>10, <1>11, LowPages

(***************************************************************************)
(* The replayed memtable holds the newest record of each key in the log.   *)
(***************************************************************************)
LEMMA ReplayNewest ==
    ASSUME TypeOK, LogInOrder
    PROVE  /\ Replayed(wal) \in Page
           /\ LogCovers(wal, Replayed(wal))
           /\ \A k \in Key : \A i \in Writes(wal, k) : wal[i].ver <= Replayed(wal)[k].ver
           /\ \A p \in Page : LogCovers(wal, p) => Older(p, Replayed(wal))
<1> DEFINE m == Replayed(wal)
<1>1. wal \in Seq(Record) /\ mem \in Page
  BY DEF TypeOK
<1>2. m \in Page
  BY <1>1, MemtableTypes
<1>3. ASSUME NEW k \in Key, Writes(wal, k) # {}
      PROVE  \E i \in Writes(wal, k) : /\ m[k].ver = wal[i].ver
                                       /\ m[k].tombstone = wal[i].empty
                                       /\ \A j \in Writes(wal, k) : j <= i
  <2>1. PICK i \in Writes(wal, k) : LastWrite(wal, k) = wal[i] /\ \A j \in Writes(wal, k) : j <= i
    BY <1>1, <1>3, LastWriteProperty
  <2>2. m[k] = [ver |-> wal[i].ver, tombstone |-> wal[i].empty]
    BY <1>3, <2>1 DEF Replayed
  <2> QED
    BY <2>1, <2>2
<1>4. ASSUME NEW k \in Key, Writes(wal, k) = {} PROVE ~Has(m, k)
  BY <1>4 DEF Replayed, Has, NoEntry
<1> HIDE DEF m
<1>5. ASSUME NEW k \in Key, NEW j \in Writes(wal, k) PROVE wal[j].ver <= m[k].ver
  <2>1. PICK i \in Writes(wal, k) : m[k].ver = wal[i].ver /\ \A h \in Writes(wal, k) : h <= i
    BY <1>3, <1>5
  <2>2. j \in DOMAIN wal /\ i \in DOMAIN wal /\ j <= i
    BY <2>1 DEF Writes
  <2>3. DOMAIN wal = 1 .. Len(wal) /\ Len(wal) \in Nat
    BY <1>1, LenProperties
  <2>4. \A h \in DOMAIN wal : wal[h].ver \in Nat
    <3>1. \A h \in DOMAIN wal : wal[h] \in Record
      BY <1>1, <2>3, ElementOfSeq
    <3> QED
      BY <3>1 DEF Record
  <2>5. j = i \/ j < i
    BY <2>2, <2>3
  <2> QED
    BY <2>1, <2>2, <2>4, <2>5 DEF LogInOrder
<1>6. LogCovers(wal, m)
  <2>1. SUFFICES ASSUME NEW k \in Key, Has(m, k) PROVE InLog(wal, k, m[k])
    BY DEF LogCovers
  <2> QED
    BY <1>3, <1>4, <2>1 DEF InLog, Writes
<1>7. ASSUME NEW p \in Page, LogCovers(wal, p) PROVE Older(p, m)
  <2>1. SUFFICES ASSUME NEW k \in Key, Has(p, k) PROVE p[k].ver <= m[k].ver
    BY DEF Older
  <2>2. PICK i \in DOMAIN wal : wal[i].key = k /\ wal[i].ver = p[k].ver
    BY <1>7, <2>1 DEF LogCovers, InLog
  <2> QED
    BY <1>5, <2>2 DEF Writes
<1> QED
  BY <1>2, <1>5, <1>6, <1>7 DEF m

LEMMA SafeOpen == IndInv /\ open => Safe'
<1>1. SUFFICES ASSUME IndInv, open PROVE Safe'
  OBVIOUS
<1>2. UNCHANGED << wal, disk, clock, acked, hole >>
  BY <1>1 DEF open, walVars
<1>3. LogInOrder' /\ AckedInLog' /\ FilesInOrder'
  BY <1>1, <1>2, SMTT(30) DEF IndInv, Safe, LogInOrder, AckedInLog, FilesInOrder
<1>4. CASE hole
  BY <1>2, <1>3, <1>4, Zenon DEF Safe, PagesInOrder, LogCoversPages, NothingLost
<1>5. CASE ~hole
  <2> DEFINE m == Replayed(wal)
             w == Low(levels')
  <2>1. TypeOK /\ LogInOrder /\ acked \in [Key -> Nat]
    BY <1>1, SMTT(30) DEF IndInv, Sound, Safe, TypeOK
  <2>2. /\ m \in Page /\ LogCovers(wal, m)
        /\ \A k \in Key : \A i \in Writes(wal, k) : wal[i].ver <= m[k].ver
        /\ \A p \in Page : LogCovers(wal, p) => Older(p, m)
    BY <2>1, ReplayNewest
  <2>3. /\ w \in Seq(Page) /\ Ascending(w)
        /\ \A p \in PageSet(w) : p \in Page /\ LogCovers(wal, p)
    BY <1>1, <1>5, LoadedLevels
  <2>4. Stack' = (w \o queue') \o << mem' >>
    BY DEF Stack, Low
  <2>5. \/ queue' = << m >> /\ mem' = EmptyPage
        \/ queue' = << >> /\ mem' = m
    BY <1>1 DEF open, drain
  <2> HIDE DEF m, w
  <2>6. OnTop(Stack', w, m)
    <3>1. w \o << >> = w
      BY <2>3, ConcatEmptySeq, SMTT(30)
    <3> QED
      BY <2>4, <2>5, <3>1, Zenon DEF OnTop
  <2>7. /\ Ascending(w) /\ (\A p \in PageSet(w) : Older(p, m)) => Ascending(Stack')
        /\ PageSet(Stack') \subseteq PageSet(w) \cup {m, EmptyPage}
        /\ \A k \in Key : LastEntry(Stack', k) = IF Has(m, k) THEN m[k] ELSE LastEntry(w, k)
    BY <2>2, <2>3, <2>6, OnTopFacts, ZenonT(40)
  <2>8. PagesInOrder'
    BY <2>2, <2>3, <2>7 DEF PagesInOrder
  <2>9. LogCoversPages'
    <3>1. LogCovers(wal, EmptyPage)
      BY DEF LogCovers, EmptyPage, Has, NoEntry
    <3>2. \A p \in PageSet(Stack') : LogCovers(wal, p)
      BY <2>2, <2>3, <2>7, <3>1
    <3>3. \A j \in DOMAIN Stack' : LogCovers(wal, Stack'[j])
      BY <3>2 DEF PageSet
    <3> QED
      BY <1>1, <1>2, <1>5, <3>3 DEF IndInv, Safe, LogCoversPages
  <2>10. NothingLost'
    <3>1. SUFFICES ASSUME NEW k \in Key PROVE LastEntry(Stack', k).ver >= acked[k]
      BY <1>2 DEF NothingLost, Fresh
    <3>2. CASE acked[k] # 0
      <4>1. PICK i \in Writes(wal, k) : wal[i].ver >= acked[k]
        BY <1>1, <1>5, <3>2, SMTT(30) DEF IndInv, Safe, AckedInLog
      <4>2. m[k].ver \in Nat /\ acked[k] \in Nat /\ wal[i].ver \in Nat
        <5>1. wal[i] \in Record
          BY <2>1, LenProperties, ElementOfSeq DEF Writes, TypeOK
        <5> QED
          BY <2>1, <2>2, <5>1 DEF Record, Page, Entry
      <4>3. m[k].ver >= acked[k]
        BY <2>2, <4>1, <4>2
      <4>4. Has(m, k)
        BY <3>2, <4>2, <4>3 DEF Has
      <4> QED
        BY <2>7, <4>3, <4>4
    <3>3. CASE acked[k] = 0
      <4>1. Stack' \in Seq(Page)
        BY <2>2, <2>3, <2>6, OnTopFacts
      <4>2. LastEntry(Stack', k) \in Entry
        BY <4>1, EntryTypes
      <4> QED
        BY <3>3, <4>2, SMTT(30) DEF Entry
    <3> QED
      BY <3>2, <3>3
  <2> QED
    BY <1>3, <2>8, <2>9, <2>10 DEF Safe
<1> QED
  BY <1>4, <1>5

-----------------------------------------------------------------------------
(***************************************************************************)
(* The compaction thread takes the oldest queued page into the levels: the *)
(* part r of the stack above it stays.                                     *)
(***************************************************************************)
LEMMA AddPageStack ==
    ASSUME IndInv, add_page
    PROVE  LET p   == Head(queue)
               r   == Tail(queue) \o << mem >>
               all == Low(levels) \o << p >>
           IN  /\ p \in Page /\ r \in Seq(Page) /\ all \in Seq(Page)
               /\ levels' = add_l0_page(levels, p) /\ levels' \in Levels
               /\ Low(levels') \in Seq(Page)
               /\ Stack = all \o r
               /\ Stack' = Low(levels') \o r
<1> DEFINE p   == Head(queue)
           q   == Tail(queue)
           one == << p >>
           top == << mem >>
           all == Low(levels) \o one
<1>1. TypeOK /\ levels \in Levels /\ Merged(levels) /\ Low(levels) \in Seq(Page) /\ mem \in Page
      /\ queue \in Seq(Page) /\ queue # << >>
  BY StackView, Zenon DEF IndInv, Sound, Shape, TypeOK, add_page
<1>2. p \in Page /\ q \in Seq(Page)
  BY <1>1, HeadTailProperties
<1>3. queue = one \o q
  BY <1>1, HeadTailProperties
<1>4. one \in Seq(Page) /\ top \in Seq(Page)
  BY <1>1, <1>2, Singleton
<1>5. levels' = add_l0_page(levels, p) /\ queue' = q /\ mem' = mem
  BY DEF add_page
<1>6. levels' \in Levels /\ all \in Seq(Page)
  BY <1>1, <1>2, <1>5, AddPage, Zenon
<1>7. Low(levels') \in Seq(Page)
  BY <1>6, LowPages
<1>8. Stack = (Low(levels) \o queue) \o top /\ Stack' = (Low(levels') \o q) \o top
  BY <1>5 DEF Stack, Low
<1> HIDE DEF one, top, p, q
<1>9. q \o top \in Seq(Page)
  BY <1>2, <1>4, ConcatParts
<1>10. (Low(levels') \o q) \o top = Low(levels') \o (q \o top)
  BY <1>2, <1>4, <1>7, Assoc, Zenon
<1>11. (Low(levels) \o (one \o q)) \o top = all \o (q \o top)
  <2>1. Low(levels) \o (one \o q) = all \o q
    BY <1>1, <1>2, <1>4, Assoc, Zenon
  <2>2. (all \o q) \o top = all \o (q \o top)
    BY <1>2, <1>4, <1>6, Assoc, ZenonT(40)
  <2> QED
    BY <2>1, <2>2
<1> QED
  BY <1>2, <1>3, <1>5, <1>6, <1>7, <1>8, <1>9, <1>10, <1>11, Zenon DEF one, top, p, q

LEMMA SafeAddPage == IndInv /\ add_page => Safe'
<1>1. SUFFICES ASSUME IndInv, add_page PROVE Safe'
  OBVIOUS
<1> DEFINE p   == Head(queue)
           r   == Tail(queue) \o << mem >>
           all == Low(levels) \o << p >>
           new == Low(levels')
<1>2. /\ p \in Page /\ r \in Seq(Page) /\ all \in Seq(Page)
      /\ levels' = add_l0_page(levels, p) /\ levels' \in Levels
      /\ new \in Seq(Page) /\ Stack = all \o r /\ Stack' = new \o r
  BY <1>1, AddPageStack, Zenon
<1>3. TypeOK /\ levels \in Levels /\ Merged(levels) /\ acked \in [Key -> Nat]
  BY <1>1 DEF IndInv, Sound, Shape, TypeOK, Levels
<1>4. UNCHANGED << phase, wal, disk, clock, acked, hole >>
  BY <1>1 DEF add_page, walVars
<1>5. Ascending(all \o r) => Ascending(new \o r)
  BY <1>2, <1>3, AddPage, Zenon
<1>6. DrawnLevels(levels', all)
  BY <1>2, <1>3, AddPage
<1>7. \A k \in Key :
        (Len(levels[0]) + 1 >= L0_LIMIT => k \notin Overlapping(Append(levels[0], p)))
          => SameAnswer(LastEntry(all, k), LastEntry(new, k))
  BY <1>2, <1>3, AddPage
<1>8. \A k \in Key \ clobbered' :
        /\ k \in Key \ clobbered
        /\ Len(levels[0]) + 1 >= L0_LIMIT => k \notin Overlapping(Append(levels[0], p))
  BY <1>1 DEF add_page
<1> HIDE DEF p, r, all, new
<1>9. LogInOrder' /\ AckedInLog' /\ FilesInOrder'
  BY <1>1, <1>4 DEF IndInv, Safe, LogInOrder, AckedInLog, FilesInOrder
<1>10. PagesInOrder'
  BY <1>1, <1>2, <1>4, <1>5 DEF IndInv, Safe, PagesInOrder
<1>11. ~hole => /\ \A x \in PageSet(all) : LogCovers(wal, x)
                /\ \A x \in PageSet(r) : LogCovers(wal, x)
  <2>1. ~hole => \A x \in PageSet(Stack) : LogCovers(wal, x)
    BY <1>1 DEF IndInv, Safe, LogCoversPages, PageSet
  <2>2. PageSet(Stack) = PageSet(all) \cup PageSet(r)
    BY <1>2, PageSetConcat
  <2> QED
    BY <2>1, <2>2
<1>12. LogCoversPages'
  <2>1. SUFFICES ASSUME ~hole PROVE \A x \in PageSet(Stack') : LogCovers(wal, x)
    BY <1>1, <1>4 DEF IndInv, Safe, LogCoversPages, PageSet
  <2>2. ASSUME NEW l \in 0 .. 2, NEW x \in PageSet(levels'[l]) PROVE LogCovers(wal, x)
    <3>1. Drawn(x, all)
      BY <1>6 DEF DrawnLevels, PageSet
    <3>2. SUFFICES ASSUME NEW k \in Key, Has(x, k) PROVE InLog(wal, k, x[k])
      BY DEF LogCovers
    <3>3. PICK i \in DOMAIN all : x[k] = all[i][k]
      BY <3>1, <3>2 DEF Drawn
    <3>4. LogCovers(wal, all[i]) /\ Has(all[i], k)
      BY <1>11, <2>1, <3>2, <3>3 DEF PageSet, Has
    <3> QED
      BY <3>3, <3>4 DEF LogCovers
  <2>3. PageSet(new) = PageSet(levels'[2]) \cup PageSet(levels'[1]) \cup PageSet(levels'[0])
    BY <1>2, LowPages DEF new
  <2>4. PageSet(Stack') = PageSet(new) \cup PageSet(r)
    BY <1>2, PageSetConcat
  <2> QED
    BY <1>11, <2>1, <2>2, <2>3, <2>4, SMTT(30)
<1>13. NothingLost'
  <2>1. SUFFICES ASSUME ~hole, phase # "down", NEW k \in Key \ clobbered'
                 PROVE  Fresh(wal, k, acked[k], LastEntry(Stack', k))
    BY <1>4 DEF NothingLost
  <2>2. Fresh(wal, k, acked[k], LastEntry(Stack, k))
    BY <1>1, <1>8, <2>1 DEF IndInv, Safe, NothingLost
  <2>3. /\ LastEntry(Stack, k) = IF Holders(r, k) # {} THEN LastEntry(r, k) ELSE LastEntry(all, k)
        /\ LastEntry(Stack', k) = IF Holders(r, k) # {} THEN LastEntry(r, k) ELSE LastEntry(new, k)
    BY <1>2, LastConcat
  <2>4. CASE Holders(r, k) # {}
    BY <2>2, <2>3, <2>4
  <2>5. CASE Holders(r, k) = {}
    <3> DEFINE e == LastEntry(all, k)
               f == LastEntry(new, k)
    <3>1. SameAnswer(e, f) /\ Fresh(wal, k, acked[k], e)
      BY <1>7, <1>8, <2>2, <2>3, <2>5
    <3>2. SUFFICES ASSUME e.tombstone, f = NoEntry PROVE Fresh(wal, k, acked[k], f)
      BY <2>3, <2>5, <3>1 DEF SameAnswer
    <3>3. e # NoEntry
      BY <3>2 DEF NoEntry
    <3>a. Holders(all, k) # {}
      BY <1>2, <3>3, NoHolder
    <3>4. PICK i \in Holders(all, k) : e = all[i][k]
      BY <1>2, <3>a, LastEntryProperty, SMTT(30)
    <3>5. LogCovers(wal, all[i]) /\ Has(all[i], k)
      BY <1>11, <2>1 DEF Holders, PageSet
    <3>6. PICK j \in DOMAIN wal : wal[j].key = k /\ wal[j].ver = e.ver /\ wal[j].empty
      BY <3>2, <3>4, <3>5 DEF LogCovers, InLog
    <3>7. e.ver >= acked[k]
      BY <3>1, <3>3 DEF Fresh
    <3>8. Deleted(wal, k, acked[k])
      BY <3>6, <3>7 DEF Deleted, Writes
    <3> QED
      BY <3>2, <3>8 DEF Fresh
  <2> QED
    BY <2>4, <2>5
<1> QED
  BY <1>9, <1>10, <1>12, <1>13 DEF Safe

-----------------------------------------------------------------------------
LEMMA SafeInit == Init => IndInv
<1>1. SUFFICES ASSUME Init PROVE Safe
  BY SoundInit DEF IndInv
<1>2. wal = << >> /\ disk = {} /\ phase = "down" /\ acked = [k \in Key |-> 0]
  BY <1>1 DEF Init
<1>3. LogInOrder /\ AckedInLog /\ FilesInOrder /\ NothingLost
  BY <1>2 DEF LogInOrder, AckedInLog, FilesInOrder, NothingLost
<1>4. Stack = << EmptyPage >>
  <2>1. /\ levels[0] = << >> /\ levels[1] = << >> /\ levels[2] = << >>
        /\ queue = << >> /\ mem = EmptyPage
    BY <1>1 DEF Init, NoLevels
  <2>2. EmptyPage \in Page
    BY DEF EmptyPage, Page, NoEntry, Entry
  <2>3. << >> \o << >> = << >> /\ << >> \o << EmptyPage >> = << EmptyPage >>
    BY <2>2, Singleton, ConcatEmptySeq, EmptySeq
  <2> QED
    BY <2>1, <2>3 DEF Stack
<1>5. DOMAIN << EmptyPage >> = {1} /\ << EmptyPage >>[1] = EmptyPage
  OBVIOUS
<1>6. PagesInOrder
  BY <1>4, <1>5 DEF PagesInOrder, Ascending
<1>7. LogCovers(wal, EmptyPage)
  BY DEF LogCovers, EmptyPage, Has, NoEntry
<1>8. LogCoversPages
  BY <1>2, <1>4, <1>5, <1>7, SMTT(30) DEF LogCoversPages
<1> QED
  BY <1>3, <1>6, <1>8 DEF Safe

(***************************************************************************)
(* The calls that write.                                                   *)
(***************************************************************************)
LEMMA SafePut ==
    ASSUME IndInv, NEW items \in Seq(Item), NEW fl \in BOOLEAN,
           AppendToLog(Numbered(items), fl), Acknowledge(Numbered(items)),
           \/ InsertThenFlush(PutAll(mem, Numbered(items)))
           \/ mem' = PutAll(mem, Numbered(items)) /\ UNCHANGED << frozen, queue >>,
           UNCHANGED << phase, diskVars >>
    PROVE  Safe'
<1> DEFINE recs == Numbered(items)
           m    == PutAll(mem, recs)
<1>1. clock \in Nat /\ mem \in Page
  BY DEF IndInv, Sound, TypeOK
<1>2. recs \in Seq(Record) /\ \A i \in DOMAIN recs : recs[i].ver = clock + i
  BY <1>1, NumberedType, SMTT(30)
<1>3. m \in Page
  BY <1>1, <1>2, MemtableTypes, SMTT(30)
<1>4. Updated(m, recs)
  BY Zenon DEF Updated, PutAll
<1> HIDE DEF recs, m
<1>5. /\ AppendToLog(recs, fl) /\ Acknowledge(recs)
      /\ InsertThenFlush(m) \/ (mem' = m /\ UNCHANGED << frozen, queue >>)
  BY DEF recs, m
<1> QED
  BY <1>2, <1>3, <1>4, <1>5, SafeWrite

LEMMA SafeDelete ==
    ASSUME IndInv, NEW k \in Key, delete(k)
    PROVE  Safe'
<1> DEFINE items == << [key |-> k, empty |-> TRUE] >>
           recs  == Numbered(items)
           m     == DeleteAll(mem, recs)
<1>1. clock \in Nat /\ mem \in Page
  BY DEF IndInv, Sound, TypeOK
<1>2. items \in Seq(Item) /\ Len(items) = 1 /\ items[1].empty = TRUE
  BY DEF Item
<1> HIDE DEF items
<1>3. /\ recs \in Seq(Record) /\ DOMAIN recs = 1 .. 1
      /\ \A i \in DOMAIN recs : recs[i].ver = clock + i
      /\ \A i \in DOMAIN recs : recs[i].empty = items[i].empty
  BY <1>1, <1>2, NumberedType
<1>4. \A i \in DOMAIN recs : recs[i].empty = TRUE
  BY <1>2, <1>3
<1>5. m \in Page
  BY <1>1, <1>3, MemtableTypes, SMTT(30)
<1> HIDE DEF recs
<1>6. Updated(m, recs)
  <2>1. \A h \in Key : Writes(recs, h) # {} => LastWrite(recs, h).empty
    BY <1>3, <1>4, LastWriteProperty DEF Writes
  <2> QED
    BY <2>1 DEF Updated, DeleteAll
<1>7. /\ AppendToLog(recs, TRUE) /\ Acknowledge(recs) /\ InsertThenFlush(m)
      /\ UNCHANGED << phase, diskVars >>
  BY Zenon DEF delete, recs, items
<1> HIDE DEF m
<1> QED
  BY <1>3, <1>5, <1>6, <1>7, SafeWrite, Zenon

LEMMA SafeNext == IndInv /\ [Next]_vars => IndInv'
<1>1. SUFFICES ASSUME IndInv, [Next]_vars PROVE Safe'
  BY SoundNext DEF IndInv
<1>2. CASE open
  BY <1>1, <1>2, SafeOpen
<1>3. ASSUME NEW items \in Seq(Item), PutRecords(items) PROVE Safe'
  BY <1>1, <1>3, SafePut, Zenon DEF PutRecords
<1>4. ASSUME NEW item \in Item, put(item) PROVE Safe'
  <2> DEFINE items == << item >>
  <2>1. items \in Seq(Item) /\ PutRecords(items)
    BY <1>4 DEF put
  <2> HIDE DEF items
  <2> QED
    BY <1>3, <2>1
<1>5. ASSUME NEW items \in Batches(MaxBatch), put_batch(items) PROVE Safe'
  BY <1>3, <1>5, BatchType DEF put_batch
<1>6. ASSUME NEW items \in Batches(MaxBranch), branch_merge(items) PROVE Safe'
  <2>1. items \in Seq(Item)
    BY BatchType
  <2>2. /\ AppendToLog(Numbered(items), FALSE) /\ Acknowledge(Numbered(items))
        /\ mem' = PutAll(mem, Numbered(items))
        /\ UNCHANGED << frozen, queue >> /\ UNCHANGED << phase, diskVars >>
    BY <1>6, Zenon DEF branch_merge
  <2> QED
    BY <1>1, <2>1, <2>2, SafePut, Zenon
<1>7. ASSUME NEW k \in Key, delete(k) PROVE Safe'
  BY <1>1, <1>7, SafeDelete
<1>8. CASE flush
  BY <1>1, <1>8, SafeFlush DEF flush, walVars, diskVars
<1>9. CASE sync
  BY <1>1, <1>9, SafeSame DEF IndInv, sync, memVars, diskVars, history
<1>10. CASE close
  <2>1. CASE mem # EmptyPage
    BY <1>1, <1>10, <2>1, SafeFlush DEF close, diskVars
  <2>2. CASE mem = EmptyPage
    BY <1>1, <1>10, <2>2, SafeSame DEF IndInv, close, memVars, diskVars, history
  <2> QED
    BY <2>1, <2>2
<1>11. CASE join
  <2>1. LoseMemory /\ UNCHANGED << wal, clock, acked, clobbered, hole >>
    BY <1>11 DEF join, walVars, history
  <2>2. LogInOrder' /\ LogGrows
    BY <1>1, <2>1 DEF IndInv, Safe, LogInOrder, LogGrows
  <2> QED
    BY <1>1, <2>1, <2>2, SafeLoseMemory
<1>12. CASE add_page
  BY <1>1, <1>12, SafeAddPage
<1>13. CASE remove_file
  BY <1>1, <1>13, SafeSame DEF IndInv, remove_file, walVars, memVars, history
<1>14. CASE write_file
  BY <1>1, <1>14, SafeWriteFile
<1>15. CASE save_fails
  BY <1>1, <1>15, SafeSame DEF IndInv, save_fails, walVars, memVars, history
<1>16. CASE crash
  BY <1>1, <1>16, SafeCrash
<1>17. CASE UNCHANGED vars
  BY <1>1, <1>17, SafeSame DEF IndInv, vars, walVars, memVars, diskVars, history
<1> QED
  BY <1>1, <1>2, <1>4, <1>5, <1>6, <1>7, <1>8, <1>9, <1>10, <1>11, <1>12, <1>13,
     <1>14, <1>15, <1>16, <1>17 DEF Next, worker

LEMMA Invariance == Spec => []IndInv
BY SafeInit, SafeNext, PTL DEF Spec

-----------------------------------------------------------------------------
(***************************************************************************)
(* The pages are always in the order Engine::get and CompactionManager::get*)
(* rely on, unless the log has lost a record of a finished call.           *)
(***************************************************************************)
THEOREM OrderCorrect == Spec => []PagesInOrder
<1>1. IndInv => PagesInOrder
  BY DEF IndInv, Safe
<1> QED
  BY <1>1, Invariance, PTL

(***************************************************************************)
(* Whatever save_all has left in the directory, and whatever load_all      *)
(* skips, the log has every record of every page.                          *)
(***************************************************************************)
THEOREM LogCorrect == Spec => []LogCoversPages
<1>1. IndInv => LogCoversPages
  BY DEF IndInv, Safe
<1> QED
  BY <1>1, Invariance, PTL

(***************************************************************************)
(* No flush, merge, save, crash or replay loses the newest record of a     *)
(* key, other than the merge of two L0 records of it and a hole in the log.*)
(***************************************************************************)
THEOREM DataCorrect == Spec => []NothingLost
<1>1. IndInv => NothingLost
  BY SMTT(30) DEF IndInv, Safe
<1> QED
  BY <1>1, Invariance, PTL

(***************************************************************************)
(* A get searches the stack from its top, but for the queued pages.        *)
(***************************************************************************)
LEMMA SettledLookup == IndInv => SettledReads
<1>1. SUFFICES ASSUME IndInv, ~hole, phase = "open", NEW k \in Key \ clobbered,
                      Holders(queue, k) = {}
               PROVE  Fresh(wal, k, acked[k], Lookup(k))
  BY DEF SettledReads
<1>2. Fresh(wal, k, acked[k], LastEntry(Stack, k))
  BY <1>1 DEF IndInv, Safe, NothingLost
<1>3. /\ TypeOK /\ Drained /\ mem \in Page /\ queue \in Seq(Page) /\ levels \in Levels
      /\ Low(levels) \in Seq(Page) /\ Base \in Seq(Page) /\ Stack = Base \o << mem >>
  BY <1>1, StackView, Zenon DEF IndInv, Sound, Shape, TypeOK
<1>4. LastEntry(Stack, k) = IF Has(mem, k) THEN mem[k] ELSE LastEntry(Base, k)
  BY <1>3, Top
<1>5. LastEntry(Base, k) = LastEntry(Low(levels), k)
  BY <1>1, <1>3, LastConcat DEF Base
<1>6. LevelsEntry(levels, k) = LastEntry(Low(levels), k)
  BY <1>3, LevelsLookup
<1>7. Holders(frozen, k) = {}
  BY <1>3 DEF Drained, Holders, Has, EmptyPage, NoEntry
<1> QED
  BY <1>2, <1>4, <1>5, <1>6, <1>7 DEF Lookup

(***************************************************************************)
(* Once the compaction thread has received the pages of a key, an          *)
(* Engine::get that misses the cache finds its last acknowledged write.    *)
(***************************************************************************)
THEOREM ReadsCorrect == Spec => []SettledReads
BY SettledLookup, Invariance, PTL

(***************************************************************************)
(* CompactionManager::add_l0_page, with every merge it may trigger, keeps  *)
(* what the levels answer for the keys it has nothing new about.           *)
(***************************************************************************)
THEOREM CompactionCorrect == Spec => CompactionKeepsAnswers
<1>1. ASSUME IndInv, add_page, NEW k \in Key \ Overlapping(levels[0]), ~Has(Head(queue), k)
      PROVE  Answer(LevelsEntry(levels, k)') = Answer(LevelsEntry(levels, k))
  <2> DEFINE p == Head(queue)
  <2>1. p \in Page /\ levels' = add_l0_page(levels, p) /\ levels' \in Levels
    BY <1>1, AddPageStack
  <2>2. levels \in Levels /\ Merged(levels) /\ Low(levels) \in Seq(Page)
    BY <1>1, StackView DEF IndInv, Sound, Shape
  <2> HIDE DEF p
  <2>3. k \notin Overlapping(Append(levels[0], p))
    <3>1. levels[0] \in Seq(Page)
      BY <2>2 DEF Levels
    <3>2. Len(levels[0]) \in Nat /\ DOMAIN levels[0] = 1 .. Len(levels[0])
      BY <3>1, LenProperties
    <3> DEFINE n == Len(levels[0])
               s == Append(levels[0], p)
    <3>3. ~Has(p, k)
      BY <1>1 DEF p
    <3>4. \A i, j \in Holders(levels[0], k) : levels[0][i][k] = levels[0][j][k]
      BY <1>1 DEF Overlapping
    <3>5. \A i \in Holders(s, k) : i \in Holders(levels[0], k) /\ s[i] = levels[0][i]
      <4>1. /\ n \in Nat /\ DOMAIN levels[0] = 1 .. n /\ DOMAIN s = 1 .. n + 1
            /\ \A i \in 1 .. n : s[i] = levels[0][i]
            /\ s[n + 1] = p
        <5>1. Len(s) = n + 1 /\ s \in Seq(Page)
          BY <2>1, <3>1, AppendProperties
        <5>2. DOMAIN s = 1 .. n + 1
          BY <5>1, LenProperties
        <5>3. \A i \in 1 .. n : s[i] = levels[0][i]
          BY <2>1, <3>1, AppendProperties
        <5>4. s[n + 1] = p
          BY <2>1, <3>1, AppendProperties
        <5> HIDE DEF s, n
        <5> QED
          BY <3>2, <5>2, <5>3, <5>4 DEF n
      <4> HIDE DEF s, n
      <4> SUFFICES ASSUME NEW i \in Holders(s, k)
                   PROVE  i \in Holders(levels[0], k) /\ s[i] = levels[0][i]
        OBVIOUS
      <4>2. i \in 1 .. n + 1 /\ Has(s[i], k)
        BY <4>1 DEF Holders
      <4>3. i # n + 1
        BY <3>3, <4>1, <4>2
      <4>4. i \in 1 .. n
        BY <4>1, <4>2, <4>3
      <4> QED
        BY <4>1, <4>2, <4>4 DEF Holders
    <3> HIDE DEF s
    <3>6. \A i, j \in Holders(s, k) : s[i][k] = s[j][k]
      BY <3>4, <3>5
    <3>7. k \notin Overlapping(s)
      BY <3>6 DEF Overlapping
    <3> QED
      BY <3>7 DEF s
  <2>4. SameAnswer(LastEntry(Low(levels) \o << p >>, k), LastEntry(Low(levels'), k))
    BY <2>1, <2>2, <2>3, AddPage
  <2>5. LastEntry(Low(levels) \o << p >>, k) = LastEntry(Low(levels), k)
    BY <1>1, <2>1, <2>2, Top DEF p
  <2>6. /\ LevelsEntry(levels, k) = LastEntry(Low(levels), k)
        /\ LevelsEntry(levels', k) = LastEntry(Low(levels'), k)
    BY <2>1, <2>2, LevelsLookup
  <2> QED
    BY <2>4, <2>5, <2>6, Zenon DEF SameAnswer, Answer, NoEntry
<1>2. IndInv => [add_page => \A k \in Key \ Overlapping(levels[0]) :
                    ~Has(Head(queue), k) =>
                        Answer(LevelsEntry(levels, k)') = Answer(LevelsEntry(levels, k))]_vars
  BY <1>1
<1> QED
  BY <1>2, Invariance, PTL DEF CompactionKeepsAnswers
=============================================================================
