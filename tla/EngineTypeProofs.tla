-------------------------- MODULE EngineTypeProofs --------------------------
(***************************************************************************)
(* Facts about sequences of pages, the merge of pages and the lookup of a  *)
(* key in the levels (module Compaction); the types of the engine's state  *)
(* and the shape of its levels and files; the engine's inductive invariant,*)
(* and what it says of the pages as one stack and of a log that grows.  For*)
(* every set of keys and all limits, thresholds and bounds.                *)
(***************************************************************************)
EXTENDS Engine, SequenceTheorems, FiniteSetTheorems, TLAPS

-----------------------------------------------------------------------------
(***************************************************************************)
(* A non-empty set of naturals has a smallest element, and a largest one   *)
(* if it is bounded.                                                       *)
(***************************************************************************)
LEMMA MinProperty ==
    ASSUME NEW T \in SUBSET Nat, T # {}
    PROVE  Min(T) \in T /\ \A j \in T : Min(T) <= j
<1>1. \E x \in T : \A y \in T : ~ (<<y, x>> \in OpToRel(<, Nat))
  BY NatLessThanWellFounded, WFMin
<1>2. PICK x \in T : \A y \in T : ~ (<<y, x>> \in OpToRel(<, Nat))
  BY <1>1
<1>3. \A y \in T : x <= y
  <2>1. SUFFICES ASSUME NEW y \in T PROVE x <= y
    OBVIOUS
  <2>2. ~(y < x)
    BY <1>2, Zenon DEF OpToRel
  <2> QED
    BY <2>2
<1> QED
  BY <1>3, Zenon DEF Min

LEMMA MaxProperty ==
    ASSUME NEW n \in Nat, NEW T \in SUBSET (1 .. n), T # {}
    PROVE  Max(T) \in T /\ \A j \in T : j <= Max(T)
<1> DEFINE U == {n - j : j \in T}
<1>1. \A j \in T : j \in Nat /\ n - j \in Nat
  OBVIOUS
<1>2. U \in SUBSET Nat
  BY <1>1
<1>3. U # {}
  BY Zenon
<1>4. Min(U) \in U /\ \A j \in U : Min(U) <= j
  BY <1>2, <1>3, MinProperty, Zenon
<1>5. PICK m \in T : Min(U) = n - m
  BY <1>4, Zenon
<1>6. ASSUME NEW j \in T PROVE j <= m
  <2>1. n - j \in U
    OBVIOUS
  <2>2. n - m <= n - j
    BY <2>1, <1>4, <1>5
  <2> QED
    BY <2>2, <1>1
<1>7. \A j \in T : m >= j
  BY <1>1, <1>6
<1>8. Max(T) \in T /\ \A j \in T : Max(T) >= j
  BY <1>7, Zenon DEF Max
<1> QED
  BY <1>8, <1>1

-----------------------------------------------------------------------------
(***************************************************************************)
(* The elements of a concatenation are those of its two parts, in order.   *)
(***************************************************************************)
LEMMA ConcatPartsOf ==
    ASSUME NEW S, NEW s \in Seq(S), NEW t \in Seq(S)
    PROVE  /\ s \o t \in Seq(S)
           /\ DOMAIN s = 1 .. Len(s) /\ DOMAIN t = 1 .. Len(t)
           /\ Len(s) \in Nat /\ Len(t) \in Nat
           /\ DOMAIN (s \o t) = 1 .. Len(s) + Len(t)
           /\ \A i \in DOMAIN s : i \in DOMAIN (s \o t) /\ (s \o t)[i] = s[i]
           /\ \A i \in DOMAIN t : Len(s) + i \in DOMAIN (s \o t) /\ (s \o t)[Len(s) + i] = t[i]
           /\ \A i \in DOMAIN (s \o t) :
                i \in DOMAIN s \/ \E j \in DOMAIN t : i = Len(s) + j
<1>1. /\ s \o t \in Seq(S)
      /\ Len(s \o t) = Len(s) + Len(t)
      /\ \A i \in 1 .. Len(s) + Len(t) :
            (s \o t)[i] = IF i <= Len(s) THEN s[i] ELSE t[i - Len(s)]
  BY ConcatProperties
<1>2. /\ DOMAIN s = 1 .. Len(s) /\ DOMAIN t = 1 .. Len(t)
      /\ Len(s) \in Nat /\ Len(t) \in Nat
      /\ DOMAIN (s \o t) = 1 .. Len(s \o t)
  BY <1>1, LenProperties
<1>3. \A i \in DOMAIN s : i \in DOMAIN (s \o t) /\ (s \o t)[i] = s[i]
  BY <1>1, <1>2
<1>4. ASSUME NEW i \in DOMAIN t
      PROVE  Len(s) + i \in DOMAIN (s \o t) /\ (s \o t)[Len(s) + i] = t[i]
  <2>1. Len(s) + i \in 1 .. Len(s) + Len(t) /\ ~(Len(s) + i <= Len(s)) /\ (Len(s) + i) - Len(s) = i
    BY <1>2
  <2> QED
    BY <1>1, <1>2, <2>1
<1>5. ASSUME NEW i \in DOMAIN (s \o t)
      PROVE  i \in DOMAIN s \/ \E j \in DOMAIN t : i = Len(s) + j
  <2>1. CASE i <= Len(s)
    BY <2>1, <1>1, <1>2
  <2>2. CASE ~(i <= Len(s))
    <3>1. i - Len(s) \in DOMAIN t /\ i = Len(s) + (i - Len(s))
      BY <2>2, <1>1, <1>2
    <3> QED
      BY <3>1
  <2> QED
    BY <2>1, <2>2
<1> QED
  BY <1>1, <1>2, <1>3, <1>4, <1>5

LEMMA ConcatParts ==
    ASSUME NEW s \in Seq(Page), NEW t \in Seq(Page)
    PROVE  /\ s \o t \in Seq(Page)
           /\ DOMAIN s = 1 .. Len(s) /\ DOMAIN t = 1 .. Len(t)
           /\ Len(s) \in Nat /\ Len(t) \in Nat
           /\ DOMAIN (s \o t) = 1 .. Len(s) + Len(t)
           /\ \A i \in DOMAIN s : i \in DOMAIN (s \o t) /\ (s \o t)[i] = s[i]
           /\ \A i \in DOMAIN t : Len(s) + i \in DOMAIN (s \o t) /\ (s \o t)[Len(s) + i] = t[i]
           /\ \A i \in DOMAIN (s \o t) :
                i \in DOMAIN s \/ \E j \in DOMAIN t : i = Len(s) + j
BY ConcatPartsOf

(***************************************************************************)
(* Every page of s is older than every page of t.                          *)
(***************************************************************************)
Beneath(s, t) == \A i \in DOMAIN s, j \in DOMAIN t : Older(s[i], t[j])

LEMMA AscendingConcat ==
    ASSUME NEW s \in Seq(Page), NEW t \in Seq(Page)
    PROVE  Ascending(s \o t) <=> Ascending(s) /\ Ascending(t) /\ Beneath(s, t)
<1>1. ASSUME Ascending(s \o t)
      PROVE  Ascending(s) /\ Ascending(t) /\ Beneath(s, t)
  <2>1. Ascending(s)
    BY <1>1, ConcatParts DEF Ascending
  <2>2. ASSUME NEW i \in DOMAIN t, NEW j \in DOMAIN t, i < j
        PROVE  Older(t[i], t[j])
    <3>1. Len(s) + i < Len(s) + j
      BY <2>2, ConcatParts
    <3> QED
      BY <3>1, <1>1, ConcatParts DEF Ascending
  <2>3. ASSUME NEW i \in DOMAIN s, NEW j \in DOMAIN t
        PROVE  Older(s[i], t[j])
    <3>1. i < Len(s) + j
      BY ConcatParts
    <3> QED
      BY <3>1, <1>1, ConcatParts DEF Ascending
  <2> QED
    BY <2>1, <2>2, <2>3 DEF Ascending, Beneath
<1>2. ASSUME Ascending(s), Ascending(t), Beneath(s, t)
      PROVE  Ascending(s \o t)
  <2>1. SUFFICES ASSUME NEW i \in DOMAIN (s \o t), NEW j \in DOMAIN (s \o t), i < j
                 PROVE  Older((s \o t)[i], (s \o t)[j])
    BY DEF Ascending
  <2>2. CASE i \in DOMAIN s /\ j \in DOMAIN s
    BY <1>2, <2>1, <2>2, ConcatParts DEF Ascending
  <2>3. CASE i \in DOMAIN s /\ \E b \in DOMAIN t : j = Len(s) + b
    BY <1>2, <2>3, ConcatParts DEF Beneath
  <2>4. CASE \E a \in DOMAIN t, b \in DOMAIN t : i = Len(s) + a /\ j = Len(s) + b
    <3>1. PICK a \in DOMAIN t, b \in DOMAIN t : i = Len(s) + a /\ j = Len(s) + b
      BY <2>4
    <3>2. a < b
      BY <2>1, <3>1, ConcatParts
    <3> QED
      BY <1>2, <3>1, <3>2, ConcatParts DEF Ascending
  <2>5. CASE j \in DOMAIN s /\ \E a \in DOMAIN t : i = Len(s) + a
    BY <2>1, <2>5, ConcatParts
  <2> QED
    BY <2>2, <2>3, <2>4, <2>5, ConcatParts
<1> QED
  BY <1>1, <1>2

LEMMA BeneathConcat ==
    ASSUME NEW s \in Seq(Page), NEW t \in Seq(Page), NEW u \in Seq(Page)
    PROVE  /\ Beneath(s \o t, u) <=> Beneath(s, u) /\ Beneath(t, u)
           /\ Beneath(u, s \o t) <=> Beneath(u, s) /\ Beneath(u, t)
<1>1. ASSUME Beneath(s \o t, u) PROVE Beneath(s, u) /\ Beneath(t, u)
  <2>1. ASSUME NEW i \in DOMAIN s, NEW j \in DOMAIN u PROVE Older(s[i], u[j])
    BY <1>1, ConcatParts DEF Beneath
  <2>2. ASSUME NEW i \in DOMAIN t, NEW j \in DOMAIN u PROVE Older(t[i], u[j])
    <3>1. Len(s) + i \in DOMAIN (s \o t) /\ (s \o t)[Len(s) + i] = t[i]
      BY ConcatParts
    <3> QED
      BY <3>1, <1>1 DEF Beneath
  <2> QED
    BY <2>1, <2>2 DEF Beneath
<1>2. ASSUME Beneath(s, u), Beneath(t, u) PROVE Beneath(s \o t, u)
  <2>1. SUFFICES ASSUME NEW i \in DOMAIN (s \o t), NEW j \in DOMAIN u
                 PROVE  Older((s \o t)[i], u[j])
    BY DEF Beneath
  <2> QED
    BY <1>2, ConcatParts DEF Beneath
<1>3. ASSUME Beneath(u, s \o t) PROVE Beneath(u, s) /\ Beneath(u, t)
  <2>1. ASSUME NEW i \in DOMAIN s, NEW j \in DOMAIN u PROVE Older(u[j], s[i])
    BY <1>3, ConcatParts DEF Beneath
  <2>2. ASSUME NEW i \in DOMAIN t, NEW j \in DOMAIN u PROVE Older(u[j], t[i])
    <3>1. Len(s) + i \in DOMAIN (s \o t) /\ (s \o t)[Len(s) + i] = t[i]
      BY ConcatParts
    <3> QED
      BY <3>1, <1>3 DEF Beneath
  <2> QED
    BY <2>1, <2>2 DEF Beneath
<1>4. ASSUME Beneath(u, s), Beneath(u, t) PROVE Beneath(u, s \o t)
  <2>1. SUFFICES ASSUME NEW i \in DOMAIN (s \o t), NEW j \in DOMAIN u
                 PROVE  Older(u[j], (s \o t)[i])
    BY DEF Beneath
  <2> QED
    BY <1>4, ConcatParts DEF Beneath
<1> QED
  BY <1>1, <1>2, <1>3, <1>4

LEMMA Singleton ==
    ASSUME NEW p \in Page
    PROVE  /\ << p >> \in Seq(Page)
           /\ DOMAIN << p >> = {1}
           /\ << p >>[1] = p
           /\ Ascending(<< p >>)
<1>1. << p >> \in Seq(Page) /\ DOMAIN << p >> = {1} /\ << p >>[1] = p
  OBVIOUS
<1> QED
  BY <1>1 DEF Ascending

-----------------------------------------------------------------------------
(***************************************************************************)
(* Each record of p is a record of some page of s.                         *)
(***************************************************************************)
Drawn(p, s) == \A k \in Key : Has(p, k) => \E i \in DOMAIN s : p[k] = s[i][k]

LEMMA HoldersType ==
    ASSUME NEW s \in Seq(Page), NEW k \in Key
    PROVE  Holders(s, k) \in SUBSET (1 .. Len(s)) /\ Holders(s, k) \in SUBSET Nat
BY LenProperties DEF Holders

(***************************************************************************)
(* FirstEntry and LastEntry return a record of a page that holds the key,  *)
(* the first and the last such page.                                       *)
(***************************************************************************)
LEMMA FirstEntryProperty ==
    ASSUME NEW s \in Seq(Page), NEW k \in Key, Holders(s, k) # {}
    PROVE  \E i \in Holders(s, k) : /\ FirstEntry(s, k) = s[i][k]
                                    /\ \A j \in Holders(s, k) : i <= j
<1>1. Min(Holders(s, k)) \in Holders(s, k) /\ \A j \in Holders(s, k) : Min(Holders(s, k)) <= j
  BY HoldersType, MinProperty
<1> QED
  BY <1>1 DEF FirstEntry

LEMMA LastEntryProperty ==
    ASSUME NEW s \in Seq(Page), NEW k \in Key, Holders(s, k) # {}
    PROVE  \E i \in Holders(s, k) : /\ LastEntry(s, k) = s[i][k]
                                    /\ \A j \in Holders(s, k) : j <= i
<1>1. Len(s) \in Nat
  BY LenProperties
<1>2. Max(Holders(s, k)) \in Holders(s, k) /\ \A j \in Holders(s, k) : j <= Max(Holders(s, k))
  BY <1>1, HoldersType, MaxProperty, Zenon
<1> QED
  BY <1>2 DEF LastEntry

LEMMA HoldersConcat ==
    ASSUME NEW s \in Seq(Page), NEW t \in Seq(Page), NEW k \in Key
    PROVE  /\ \A i \in Holders(s, k) : i \in Holders(s \o t, k)
           /\ \A i \in Holders(t, k) : Len(s) + i \in Holders(s \o t, k)
           /\ \A i \in Holders(s \o t, k) :
                i \in Holders(s, k) \/ \E j \in Holders(t, k) : i = Len(s) + j
BY ConcatParts DEF Holders

LEMMA LastConcat ==
    ASSUME NEW s \in Seq(Page), NEW t \in Seq(Page), NEW k \in Key
    PROVE  LastEntry(s \o t, k) = IF Holders(t, k) # {} THEN LastEntry(t, k) ELSE LastEntry(s, k)
<1>1. CASE Holders(t, k) # {}
  <2>1. PICK i \in Holders(t, k) : LastEntry(t, k) = t[i][k] /\ \A j \in Holders(t, k) : j <= i
    BY <1>1, LastEntryProperty
  <2>2. Len(s) + i \in Holders(s \o t, k)
    BY HoldersConcat
  <2>3. s \o t \in Seq(Page)
    BY ConcatParts
  <2>4. PICK m \in Holders(s \o t, k) : /\ LastEntry(s \o t, k) = (s \o t)[m][k]
                                        /\ \A j \in Holders(s \o t, k) : j <= m
    BY <2>2, <2>3, LastEntryProperty, Zenon
  <2>5. Len(s) + i <= m
    BY <2>2, <2>4
  <2>6. m \notin Holders(s, k)
    BY <2>5, ConcatParts DEF Holders
  <2>7. PICK j \in Holders(t, k) : m = Len(s) + j
    BY <2>6, HoldersConcat
  <2>8. j = i
    BY <2>1, <2>5, <2>7, ConcatParts DEF Holders
  <2> QED
    BY <1>1, <2>1, <2>4, <2>7, <2>8, ConcatParts DEF Holders
<1>2. CASE Holders(t, k) = {} /\ Holders(s, k) # {}
  <2>1. PICK i \in Holders(s, k) : LastEntry(s, k) = s[i][k] /\ \A j \in Holders(s, k) : j <= i
    BY <1>2, LastEntryProperty
  <2>2. i \in Holders(s \o t, k) /\ s \o t \in Seq(Page)
    BY HoldersConcat, ConcatParts
  <2>3. PICK m \in Holders(s \o t, k) : /\ LastEntry(s \o t, k) = (s \o t)[m][k]
                                        /\ \A j \in Holders(s \o t, k) : j <= m
    BY <2>2, LastEntryProperty, Zenon
  <2>4. m \in Holders(s, k) /\ i <= m
    BY <1>2, <2>2, <2>3, HoldersConcat
  <2>5. m = i
    BY <2>1, <2>4, ConcatParts DEF Holders
  <2> QED
    BY <1>2, <2>1, <2>3, <2>5, ConcatParts DEF Holders
<1>3. CASE Holders(t, k) = {} /\ Holders(s, k) = {}
  BY <1>3, HoldersConcat DEF LastEntry
<1> QED
  BY <1>1, <1>2, <1>3

LEMMA FirstConcat ==
    ASSUME NEW s \in Seq(Page), NEW t \in Seq(Page), NEW k \in Key
    PROVE  FirstEntry(s \o t, k) = IF Holders(s, k) # {} THEN FirstEntry(s, k) ELSE FirstEntry(t, k)
<1>1. CASE Holders(s, k) # {}
  <2>1. PICK i \in Holders(s, k) : FirstEntry(s, k) = s[i][k] /\ \A j \in Holders(s, k) : i <= j
    BY <1>1, FirstEntryProperty
  <2>2. i \in Holders(s \o t, k) /\ s \o t \in Seq(Page)
    BY HoldersConcat, ConcatParts
  <2>3. PICK m \in Holders(s \o t, k) : /\ FirstEntry(s \o t, k) = (s \o t)[m][k]
                                        /\ \A j \in Holders(s \o t, k) : m <= j
    BY <2>2, FirstEntryProperty, Zenon
  <2>4. m <= i
    BY <2>2, <2>3
  <2>5. m \in Holders(s, k)
    BY <2>4, HoldersConcat, ConcatParts DEF Holders
  <2>6. m = i
    BY <2>1, <2>4, <2>5, ConcatParts DEF Holders
  <2> QED
    BY <1>1, <2>1, <2>3, <2>6, ConcatParts DEF Holders
<1>2. CASE Holders(s, k) = {} /\ Holders(t, k) # {}
  <2>1. PICK i \in Holders(t, k) : FirstEntry(t, k) = t[i][k] /\ \A j \in Holders(t, k) : i <= j
    BY <1>2, FirstEntryProperty
  <2>2. Len(s) + i \in Holders(s \o t, k) /\ s \o t \in Seq(Page)
    BY HoldersConcat, ConcatParts
  <2>3. PICK m \in Holders(s \o t, k) : /\ FirstEntry(s \o t, k) = (s \o t)[m][k]
                                        /\ \A j \in Holders(s \o t, k) : m <= j
    BY <2>2, FirstEntryProperty, Zenon
  <2>4. PICK j \in Holders(t, k) : m = Len(s) + j
    BY <1>2, HoldersConcat
  <2>5. i \in Nat /\ j \in Nat /\ Len(s) \in Nat
    BY ConcatParts DEF Holders
  <2>6. i <= j /\ Len(s) + j <= Len(s) + i
    BY <2>1, <2>2, <2>3, <2>4, Zenon
  <2>7. j = i
    BY <2>5, <2>6
  <2> QED
    BY <1>2, <2>1, <2>3, <2>4, <2>7, ConcatParts DEF Holders
<1>3. CASE Holders(s, k) = {} /\ Holders(t, k) = {}
  BY <1>3, HoldersConcat DEF FirstEntry
<1> QED
  BY <1>1, <1>2, <1>3

(***************************************************************************)
(* With one page, or when all the pages that hold the key hold the same    *)
(* record of it, the first record is the last one.                         *)
(***************************************************************************)
LEMMA FirstIsLast ==
    ASSUME NEW s \in Seq(Page), NEW k \in Key, Len(s) <= 1 \/ k \notin Overlapping(s)
    PROVE  FirstEntry(s, k) = LastEntry(s, k)
<1>1. CASE Holders(s, k) = {}
  BY <1>1 DEF FirstEntry, LastEntry
<1>2. CASE Holders(s, k) # {}
  <2>1. PICK i \in Holders(s, k) : FirstEntry(s, k) = s[i][k]
    BY <1>2, FirstEntryProperty
  <2>2. PICK j \in Holders(s, k) : LastEntry(s, k) = s[j][k]
    BY <1>2, LastEntryProperty
  <2>3. CASE Len(s) <= 1
    <3>1. i = j
      BY <2>3, HoldersType, LenProperties
    <3> QED
      BY <3>1, <2>1, <2>2
  <2>4. CASE k \notin Overlapping(s)
    BY <2>1, <2>2, <2>4 DEF Overlapping
  <2> QED
    BY <2>3, <2>4
<1> QED
  BY <1>1, <1>2

LEMMA EntryTypes ==
    ASSUME NEW s \in Seq(Page), NEW k \in Key
    PROVE  FirstEntry(s, k) \in Entry /\ LastEntry(s, k) \in Entry
<1>1. NoEntry \in Entry
  BY DEF NoEntry, Entry
<1>2. \A i \in Holders(s, k) : s[i][k] \in Entry
  BY HoldersType, ElementOfSeq DEF Page
<1>3. FirstEntry(s, k) \in Entry
  BY <1>1, <1>2, FirstEntryProperty DEF FirstEntry
<1>4. LastEntry(s, k) \in Entry
  BY <1>1, <1>2, LastEntryProperty DEF LastEntry
<1> QED
  BY <1>3, <1>4

(***************************************************************************)
(* A merged page is a page, and invents no record.                         *)
(***************************************************************************)
LEMMA MergeDrawn ==
    ASSUME NEW s \in Seq(Page), NEW d \in BOOLEAN
    PROVE  merge_pages(s, d) \in Page /\ Drawn(merge_pages(s, d), s)
<1>1. merge_pages(s, d) \in Page
  <2>1. NoEntry \in Entry
    BY DEF NoEntry, Entry
  <2> QED
    BY <2>1, EntryTypes, Zenon DEF merge_pages, Page
<1>2. ASSUME NEW k \in Key, Has(merge_pages(s, d), k)
      PROVE  \E i \in DOMAIN s : merge_pages(s, d)[k] = s[i][k]
  <2>1. merge_pages(s, d)[k] = FirstEntry(s, k) /\ FirstEntry(s, k) # NoEntry
    BY <1>2 DEF merge_pages, Has, NoEntry
  <2>2. Holders(s, k) # {}
    BY <2>1 DEF FirstEntry
  <2> QED
    BY <2>1, <2>2, FirstEntryProperty DEF Holders
<1> QED
  BY <1>1, <1>2 DEF Drawn

(***************************************************************************)
(* Concatenations with the empty sequence, and lookups in short ones.      *)
(***************************************************************************)
LEMMA Nothing ==
    ASSUME NEW s \in Seq(Page), NEW k \in Key
    PROVE  /\ << >> \in Seq(Page)
           /\ s \o << >> = s /\ << >> \o s = s
           /\ LastEntry(<< >>, k) = NoEntry
<1>1. << >> \in Seq(Page) /\ s \o << >> = s /\ << >> \o s = s
  BY ConcatEmptySeq, EmptySeq
<1>2. Holders(<< >>, k) = {}
  BY DEF Holders
<1> QED
  BY <1>1, <1>2 DEF LastEntry

LEMMA LastOfOne ==
    ASSUME NEW p \in Page, NEW k \in Key
    PROVE  /\ Has(p, k) <=> Holders(<< p >>, k) # {}
           /\ LastEntry(<< p >>, k) = IF Has(p, k) THEN p[k] ELSE NoEntry
<1>1. CASE Has(p, k)
  <2>1. 1 \in Holders(<< p >>, k) /\ \A j \in Holders(<< p >>, k) : j = 1
    BY <1>1, Singleton DEF Holders
  <2>2. << p >> \in Seq(Page) /\ << p >>[1] = p
    BY Singleton
  <2>3. PICK i \in Holders(<< p >>, k) : LastEntry(<< p >>, k) = << p >>[i][k]
    BY <2>1, <2>2, LastEntryProperty, Zenon
  <2>4. LastEntry(<< p >>, k) = p[k]
    BY <2>1, <2>2, <2>3
  <2> QED
    BY <1>1, <2>1, <2>4
<1>2. CASE ~Has(p, k)
  BY <1>2, Singleton DEF Holders, LastEntry
<1> QED
  BY <1>1, <1>2

LEMMA NoHolder ==
    ASSUME NEW s \in Seq(Page), NEW k \in Key
    PROVE  /\ Holders(s, k) = {} <=> LastEntry(s, k) = NoEntry
           /\ Holders(s, k) = {} <=> LastEntry(s, k).ver = 0
<1>1. CASE Holders(s, k) = {}
  BY <1>1 DEF LastEntry, NoEntry
<1>2. CASE Holders(s, k) # {}
  <2>1. PICK i \in Holders(s, k) : LastEntry(s, k) = s[i][k]
    BY <1>2, LastEntryProperty
  <2>2. s[i][k].ver # 0
    BY DEF Holders, Has
  <2> QED
    BY <1>2, <2>1, <2>2 DEF NoEntry
<1> QED
  BY <1>1, <1>2

-----------------------------------------------------------------------------
(***************************************************************************)
(* Replacing a block of pages by one page drawn from it keeps the order.   *)
(***************************************************************************)
LEMMA Collapse ==
    ASSUME NEW u \in Seq(Page), NEW s \in Seq(Page), NEW t \in Seq(Page),
           NEW p \in Page, Drawn(p, s), Ascending((u \o s) \o t)
    PROVE  Ascending((u \o << p >>) \o t)
<1>1. << p >> \in Seq(Page) /\ u \o s \in Seq(Page) /\ u \o << p >> \in Seq(Page)
  BY Singleton, ConcatParts
<1>2. /\ Ascending(u) /\ Ascending(t)
      /\ Beneath(u, s) /\ Beneath(u, t) /\ Beneath(s, t)
  BY <1>1, AscendingConcat, BeneathConcat, Zenon
<1>3. Beneath(u, << p >>)
  <2>1. SUFFICES ASSUME NEW i \in DOMAIN u, NEW k \in Key, Has(u[i], k), Has(p, k)
                 PROVE  u[i][k].ver <= p[k].ver
    BY Singleton DEF Beneath, Older
  <2>2. PICK j \in DOMAIN s : p[k] = s[j][k]
    BY <2>1 DEF Drawn
  <2> QED
    BY <1>2, <2>1, <2>2 DEF Beneath, Older, Has
<1>4. Beneath(<< p >>, t)
  <2>1. SUFFICES ASSUME NEW i \in DOMAIN t, NEW k \in Key, Has(t[i], k), Has(p, k)
                 PROVE  p[k].ver <= t[i][k].ver
    BY Singleton DEF Beneath, Older
  <2>2. PICK j \in DOMAIN s : p[k] = s[j][k]
    BY <2>1 DEF Drawn
  <2> QED
    BY <1>2, <2>1, <2>2 DEF Beneath, Older, Has
<1>5. Ascending(u \o << p >>)
  BY <1>1, <1>2, <1>3, Singleton, AscendingConcat, Zenon
<1>6. Beneath(u \o << p >>, t)
  BY <1>1, <1>2, <1>4, BeneathConcat, Zenon
<1> QED
  BY <1>1, <1>2, <1>5, <1>6, AscendingConcat, Zenon

(***************************************************************************)
(* What is drawn from a sequence is drawn from any that has its pages, and *)
(* drawing from drawn pages is drawing.                                    *)
(***************************************************************************)
LEMMA DrawnSwap ==
    ASSUME NEW p \in Page, NEW s \in Seq(Page), NEW t \in Seq(Page), Drawn(p, s \o t)
    PROVE  Drawn(p, t \o s)
<1>1. SUFFICES ASSUME NEW k \in Key, Has(p, k)
               PROVE  \E i \in DOMAIN (t \o s) : p[k] = (t \o s)[i][k]
  BY DEF Drawn
<1>2. PICK i \in DOMAIN (s \o t) : p[k] = (s \o t)[i][k]
  BY <1>1 DEF Drawn
<1>3. CASE i \in DOMAIN s
  <2>1. Len(t) + i \in DOMAIN (t \o s) /\ (t \o s)[Len(t) + i] = s[i] /\ (s \o t)[i] = s[i]
    BY <1>3, ConcatParts
  <2> QED
    BY <1>2, <2>1
<1>4. CASE \E j \in DOMAIN t : i = Len(s) + j
  <2>1. PICK j \in DOMAIN t : i = Len(s) + j
    BY <1>4
  <2>2. j \in DOMAIN (t \o s) /\ (t \o s)[j] = t[j] /\ (s \o t)[i] = t[j]
    BY <2>1, ConcatParts
  <2> QED
    BY <1>2, <2>2
<1> QED
  BY <1>3, <1>4, ConcatParts

(***************************************************************************)
(* The last record of a concatenation depends on its parts only through    *)
(* their last records.                                                     *)
(***************************************************************************)
LEMMA LastCongruence ==
    ASSUME NEW u \in Seq(Page), NEW v \in Seq(Page), NEW s \in Seq(Page), NEW t \in Seq(Page),
           NEW k \in Key,
           LastEntry(u, k) = LastEntry(v, k), LastEntry(s, k) = LastEntry(t, k)
    PROVE  LastEntry(u \o s, k) = LastEntry(v \o t, k)
<1>1. Holders(s, k) = {} <=> Holders(t, k) = {}
  BY NoHolder
<1> QED
  BY <1>1, LastConcat

LEMMA LastRight ==
    ASSUME NEW u \in Seq(Page), NEW p \in Page, NEW t \in Seq(Page), NEW k \in Key,
           LastEntry(<< p >>, k) = LastEntry(t, k)
    PROVE  LastEntry(u \o << p >>, k) = LastEntry(u \o t, k)
<1> DEFINE one == << p >>
<1>1. one \in Seq(Page) /\ LastEntry(one, k) = LastEntry(t, k)
  OBVIOUS
<1> HIDE DEF one
<1>2. LastEntry(u \o one, k) = LastEntry(u \o t, k)
  BY <1>1, LastCongruence
<1> QED
  BY <1>2 DEF one

LEMMA Assoc ==
    ASSUME NEW s \in Seq(Page), NEW t \in Seq(Page), NEW u \in Seq(Page)
    PROVE  (s \o t) \o u = s \o (t \o u)
BY ConcatAssociative

(***************************************************************************)
(* merge_pages(a \o b) answers what a read of b \o a answers, if neither   *)
(* part holds two different records of the key.                            *)
(***************************************************************************)
LEMMA MergeAnswer ==
    ASSUME NEW a \in Seq(Page), NEW b \in Seq(Page), NEW k \in Key, NEW d \in BOOLEAN,
           Len(a) <= 1 \/ k \notin Overlapping(a),
           Len(b) <= 1 \/ k \notin Overlapping(b)
    PROVE  LastEntry(<< merge_pages(a \o b, d) >>, k) =
             IF d /\ LastEntry(b \o a, k).tombstone THEN NoEntry ELSE LastEntry(b \o a, k)
<1>1. FirstEntry(a, k) = LastEntry(a, k) /\ FirstEntry(b, k) = LastEntry(b, k)
  BY FirstIsLast
<1>2. FirstEntry(a \o b, k) = LastEntry(b \o a, k)
  BY <1>1, FirstConcat, LastConcat
<1>3. a \o b \in Seq(Page) /\ b \o a \in Seq(Page)
  BY ConcatParts
<1>4. merge_pages(a \o b, d) \in Page
  BY <1>3, MergeDrawn, Zenon
<1>5. merge_pages(a \o b, d)[k] =
        IF d /\ LastEntry(b \o a, k).tombstone THEN NoEntry ELSE LastEntry(b \o a, k)
  BY <1>2 DEF merge_pages
<1>6. LastEntry(b \o a, k).ver = 0 => LastEntry(b \o a, k) = NoEntry
  BY <1>3, NoHolder, Zenon
<1>7. ~Has(merge_pages(a \o b, d), k) => merge_pages(a \o b, d)[k] = NoEntry
  BY <1>5, <1>6 DEF Has
<1> QED
  BY <1>4, <1>5, <1>7, LastOfOne

-----------------------------------------------------------------------------
Levels == [0 .. 2 -> Seq(Page)]

(***************************************************************************)
(* The pages of the levels, oldest first.                                  *)
(***************************************************************************)
Low(lv) == (lv[2] \o lv[1]) \o lv[0]

(***************************************************************************)
(* L1 and L2 hold at most one page: each merge leaves one.                 *)
(***************************************************************************)
Merged(lv) == Len(lv[1]) <= 1 /\ Len(lv[2]) <= 1

(***************************************************************************)
(* e replaced by f: the same record, or a tombstone that was dropped.      *)
(***************************************************************************)
SameAnswer(e, f) == f = e \/ (e.tombstone /\ f = NoEntry)

(***************************************************************************)
(* Each page of the levels is a page of s, or drawn from s.                *)
(***************************************************************************)
DrawnLevels(lv, s) == \A l \in 0 .. 2 : \A i \in DOMAIN lv[l] : Drawn(lv[l][i], s)

(***************************************************************************)
(* compact_l1_to_l2 leaves one page in L2, drawn from L2 and L1; it keeps  *)
(* the order of the pages and, but for tombstones, the answers.            *)
(***************************************************************************)
LEMMA CompactL1 ==
    ASSUME NEW lv \in Levels
    PROVE  LET new == compact_l1_to_l2(lv)
               m   == merge_pages(lv[1] \o lv[2], TRUE)
           IN  /\ new \in Levels /\ Merged(new)
               /\ new[0] = lv[0] /\ new[1] = << >> /\ new[2] = << m >>
               /\ m \in Page /\ Drawn(m, lv[2] \o lv[1])
               /\ Merged(lv) => \A k \in Key :
                    SameAnswer(LastEntry(lv[2] \o lv[1], k), LastEntry(new[2], k))
<1> DEFINE m   == merge_pages(lv[1] \o lv[2], TRUE)
           new == compact_l1_to_l2(lv)
<1>1. lv[0] \in Seq(Page) /\ lv[1] \in Seq(Page) /\ lv[2] \in Seq(Page)
  BY DEF Levels
<1>2. lv[1] \o lv[2] \in Seq(Page)
  BY <1>1, ConcatParts
<1>3. m \in Page /\ Drawn(m, lv[1] \o lv[2])
  BY <1>2, MergeDrawn, Zenon
<1>4. Drawn(m, lv[2] \o lv[1])
  BY <1>1, <1>3, DrawnSwap, Zenon
<1>5. << >> \in Seq(Page) /\ << m >> \in Seq(Page)
  BY <1>3, EmptySeq, Singleton, Zenon
<1>6. new \in Levels /\ new[0] = lv[0] /\ new[1] = << >> /\ new[2] = << m >>
  <2>1. new = [lv EXCEPT ![1] = << >>, ![2] = << m >>]
    BY DEF compact_l1_to_l2
  <2> HIDE DEF m, new
  <2>2. new \in Levels
    BY <1>5, <2>1, Zenon DEF Levels
  <2>3. new[0] = lv[0] /\ new[1] = << >> /\ new[2] = << m >>
    BY <2>1 DEF Levels
  <2> QED
    BY <2>2, <2>3
<1>7. Merged(new)
  BY <1>6 DEF Merged
<1>8. ASSUME Merged(lv), NEW k \in Key
      PROVE  SameAnswer(LastEntry(lv[2] \o lv[1], k), LastEntry(<< m >>, k))
  BY <1>1, <1>8, MergeAnswer, Zenon DEF Merged, SameAnswer
<1> QED
  BY <1>3, <1>4, <1>6, <1>7, <1>8, Zenon

LEMMA DrawnConcat ==
    ASSUME NEW p \in Page, NEW s \in Seq(Page), NEW t \in Seq(Page)
    PROVE  /\ Drawn(p, s) => Drawn(p, s \o t)
           /\ Drawn(p, t) => Drawn(p, s \o t)
<1>1. ASSUME Drawn(p, s) PROVE Drawn(p, s \o t)
  BY <1>1, ConcatParts DEF Drawn
<1>2. ASSUME Drawn(p, t) PROVE Drawn(p, s \o t)
  <2>1. SUFFICES ASSUME NEW k \in Key, Has(p, k)
                 PROVE  \E i \in DOMAIN (s \o t) : p[k] = (s \o t)[i][k]
    BY DEF Drawn
  <2>2. PICK j \in DOMAIN t : p[k] = t[j][k]
    BY <1>2, <2>1 DEF Drawn
  <2>3. Len(s) + j \in DOMAIN (s \o t) /\ (s \o t)[Len(s) + j] = t[j]
    BY ConcatParts
  <2> QED
    BY <2>2, <2>3
<1> QED
  BY <1>1, <1>2

LEMMA DrawnSelf ==
    ASSUME NEW s \in Seq(Page), NEW i \in DOMAIN s
    PROVE  Drawn(s[i], s)
BY DEF Drawn

LEMMA DrawnTwice ==
    ASSUME NEW p \in Page, NEW q \in Page, NEW u \in Seq(Page), NEW s \in Seq(Page),
           Drawn(p, u \o << q >>), Drawn(q, s)
    PROVE  Drawn(p, u \o s)
<1>1. SUFFICES ASSUME NEW k \in Key, Has(p, k)
               PROVE  \E i \in DOMAIN (u \o s) : p[k] = (u \o s)[i][k]
  BY DEF Drawn
<1>2. PICK i \in DOMAIN (u \o << q >>) : p[k] = (u \o << q >>)[i][k]
  BY <1>1 DEF Drawn
<1>3. CASE i \in DOMAIN u
  BY <1>2, <1>3, Singleton, ConcatParts
<1>4. CASE i \notin DOMAIN u
  <2>1. p[k] = q[k]
    BY <1>2, <1>4, Singleton, ConcatParts
  <2>2. PICK j \in DOMAIN s : q[k] = s[j][k]
    BY <1>1, <2>1 DEF Drawn, Has
  <2>3. Len(u) + j \in DOMAIN (u \o s) /\ (u \o s)[Len(u) + j] = s[j]
    BY ConcatParts
  <2> QED
    BY <2>1, <2>2, <2>3
<1> QED
  BY <1>3, <1>4

(***************************************************************************)
(* compact_l0_to_l1, with the promotion to L2 that may follow at once.     *)
(***************************************************************************)
LEMMA CompactL0 ==
    ASSUME NEW lv \in Levels, Merged(lv)
    PROVE  LET new == compact_l0_to_l1(lv)
           IN  /\ new \in Levels /\ Merged(new)
               /\ \A r \in Seq(Page) : Ascending(Low(lv) \o r) => Ascending(Low(new) \o r)
               /\ DrawnLevels(new, Low(lv))
               /\ \A k \in Key \ Overlapping(lv[0]) :
                    SameAnswer(LastEntry(Low(lv), k), LastEntry(Low(new), k))
<1> DEFINE m    == merge_pages(lv[0] \o lv[1], FALSE)
           next == [lv EXCEPT ![0] = << >>, ![1] = << m >>]
           both == lv[1] \o lv[0]
<1>1. lv[0] \in Seq(Page) /\ lv[1] \in Seq(Page) /\ lv[2] \in Seq(Page)
  BY DEF Levels
<1>2. lv[0] \o lv[1] \in Seq(Page) /\ both \in Seq(Page) /\ lv[2] \o lv[1] \in Seq(Page)
  BY <1>1, ConcatParts
<1>3. m \in Page /\ Drawn(m, both)
  BY <1>1, <1>2, MergeDrawn, DrawnSwap, Zenon
<1>4. ASSUME NEW k \in Key \ Overlapping(lv[0])
      PROVE  LastEntry(<< m >>, k) = LastEntry(both, k)
  BY <1>1, MergeAnswer, Zenon DEF Merged
<1>5. Low(lv) = lv[2] \o both /\ Low(lv) \in Seq(Page)
  <2>1. Low(lv) = lv[2] \o both
    BY <1>1, Assoc, Zenon DEF Low
  <2>2. lv[2] \o both \in Seq(Page)
    BY <1>1, <1>2, ConcatParts
  <2> QED
    BY <2>1, <2>2
<1>6. CASE ~(PageSize(m) > L1_SIZE_LIMIT)
  <2>1. compact_l0_to_l1(lv) = next
    BY <1>6 DEF compact_l0_to_l1
  <2> HIDE DEF m, both
  <2>2. << >> \in Seq(Page) /\ << m >> \in Seq(Page)
    BY <1>3, EmptySeq, Singleton
  <2>3. next \in Levels /\ next[0] = << >> /\ next[1] = << m >> /\ next[2] = lv[2]
    <3>1. next \in Levels
      BY <2>2, Zenon DEF Levels
    <3>2. next[0] = << >> /\ next[1] = << m >> /\ next[2] = lv[2]
      BY DEF Levels
    <3> QED
      BY <3>1, <3>2, Zenon
  <2> HIDE DEF next
  <2>4. Merged(next)
    BY <2>3 DEF Merged
  <2>5. lv[2] \o << m >> \in Seq(Page)
    BY <1>1, <2>2, ConcatParts
  <2>6. Low(next) = lv[2] \o << m >>
    BY <2>3, <2>5, ConcatEmptySeq DEF Low
  <2>7. ASSUME NEW r \in Seq(Page), Ascending(Low(lv) \o r)
        PROVE  Ascending(Low(next) \o r)
    BY <1>1, <1>2, <1>3, <1>5, <2>6, <2>7, Collapse
  <2>8. ASSUME NEW l \in 0 .. 2, NEW i \in DOMAIN next[l]
        PROVE  Drawn(next[l][i], Low(lv))
    <3>1. CASE l = 0
      BY <2>3, <3>1
    <3>2. CASE l = 1
      <4>1. next[l][i] = m
        BY <2>3, <3>2
      <4> QED
        BY <4>1, <1>1, <1>2, <1>3, <1>5, DrawnConcat
    <3>3. CASE l = 2
      <4>1. Drawn(lv[2][i], lv[2]) /\ next[l][i] = lv[2][i] /\ lv[2][i] \in Page
        BY <1>1, <2>3, <3>3, DrawnSelf, ElementOfSeq, LenProperties
      <4> QED
        BY <4>1, <1>1, <1>2, <1>5, DrawnConcat
    <3> QED
      BY <3>1, <3>2, <3>3
  <2>9. ASSUME NEW k \in Key \ Overlapping(lv[0])
        PROVE  LastEntry(Low(next), k) = LastEntry(Low(lv), k)
    <3>1. LastEntry(<< m >>, k) = LastEntry(both, k)
      BY <1>4
    <3> QED
      BY <3>1, <1>1, <1>2, <1>3, <1>5, <2>6, LastRight
  <2> QED
    BY <2>1, <2>3, <2>4, <2>7, <2>8, <2>9 DEF DrawnLevels, SameAnswer
<1>7. CASE PageSize(m) > L1_SIZE_LIMIT
  <2> DEFINE n   == merge_pages(next[1] \o next[2], TRUE)
             new == compact_l1_to_l2(next)
  <2>1. compact_l0_to_l1(lv) = new
    BY <1>7 DEF compact_l0_to_l1
  <2> HIDE DEF m, both
  <2>2. << >> \in Seq(Page) /\ << m >> \in Seq(Page)
    BY <1>3, EmptySeq, Singleton
  <2>3. next \in Levels /\ next[0] = << >> /\ next[1] = << m >> /\ next[2] = lv[2]
    <3>1. next \in Levels
      BY <2>2, Zenon DEF Levels
    <3>2. next[0] = << >> /\ next[1] = << m >> /\ next[2] = lv[2]
      BY DEF Levels
    <3> QED
      BY <3>1, <3>2, Zenon
  <2> HIDE DEF next
  <2>4. Merged(next)
    BY <2>3 DEF Merged
  <2>5. /\ new \in Levels /\ Merged(new)
        /\ new[0] = << >> /\ new[1] = << >> /\ new[2] = << n >>
        /\ n \in Page /\ Drawn(n, lv[2] \o << m >>)
        /\ \A k \in Key : SameAnswer(LastEntry(lv[2] \o << m >>, k), LastEntry(<< n >>, k))
    BY <2>3, <2>4, CompactL1, Zenon
  <2> HIDE DEF n, new
  <2>6. Low(new) = << n >> /\ << n >> \in Seq(Page)
    BY <2>5, Singleton, ConcatEmptySeq DEF Low
  <2>7. Drawn(n, Low(lv))
    BY <1>1, <1>2, <1>3, <1>5, <2>5, DrawnTwice
  <2>8. ASSUME NEW r \in Seq(Page), Ascending(Low(lv) \o r)
        PROVE  Ascending(Low(new) \o r)
    <3>1. << >> \o Low(lv) = Low(lv) /\ << >> \o << n >> = << n >>
      BY <1>5, <2>6, ConcatEmptySeq
    <3> QED
      BY <1>5, <2>2, <2>5, <2>6, <2>7, <2>8, <3>1, Collapse, Zenon
  <2>9. DrawnLevels(new, Low(lv))
    <3>1. SUFFICES ASSUME NEW l \in 0 .. 2, NEW i \in DOMAIN new[l]
                   PROVE  new[l][i] = n
      BY <2>7 DEF DrawnLevels
    <3> QED
      BY <2>5
  <2>10. ASSUME NEW k \in Key \ Overlapping(lv[0])
         PROVE  SameAnswer(LastEntry(Low(lv), k), LastEntry(Low(new), k))
    <3>1. LastEntry(lv[2] \o << m >>, k) = LastEntry(Low(lv), k)
      <4>1. LastEntry(<< m >>, k) = LastEntry(both, k)
        BY <1>4
      <4> QED
        BY <4>1, <1>1, <1>2, <1>3, <1>5, LastRight
    <3> QED
      BY <2>5, <2>6, <3>1
  <2> QED
    BY <2>1, <2>5, <2>8, <2>9, <2>10
<1> QED
  BY <1>6, <1>7, Zenon

(***************************************************************************)
(* A page added to L0, with the compaction it may trigger.                 *)
(***************************************************************************)
LEMMA AddPage ==
    ASSUME NEW lv \in Levels, Merged(lv), NEW p \in Page
    PROVE  LET new == add_l0_page(lv, p)
               all == Low(lv) \o << p >>
           IN  /\ new \in Levels /\ Merged(new)
               /\ all \in Seq(Page)
               /\ \A r \in Seq(Page) : Ascending(all \o r) => Ascending(Low(new) \o r)
               /\ DrawnLevels(new, all)
               /\ \A k \in Key :
                    (Len(lv[0]) + 1 >= L0_LIMIT => k \notin Overlapping(Append(lv[0], p)))
                      => SameAnswer(LastEntry(all, k), LastEntry(Low(new), k))
<1> DEFINE one  == << p >>
           next == [lv EXCEPT ![0] = Append(@, p)]
           all  == Low(lv) \o one
           new  == add_l0_page(lv, p)
<1>1. lv[0] \in Seq(Page) /\ lv[1] \in Seq(Page) /\ lv[2] \in Seq(Page)
  BY DEF Levels
<1>2. one \in Seq(Page) /\ Append(lv[0], p) = lv[0] \o one /\ Append(lv[0], p) \in Seq(Page)
  BY <1>1, Singleton, AppendIsConcat, AppendProperties
<1>3. Len(Append(lv[0], p)) = Len(lv[0]) + 1
  BY <1>1, AppendProperties
<1>4. next \in Levels /\ next[0] = Append(lv[0], p) /\ next[1] = lv[1] /\ next[2] = lv[2]
  BY <1>2 DEF Levels
<1>5. new = IF Len(lv[0]) + 1 >= L0_LIMIT THEN compact_l0_to_l1(next) ELSE next
  BY <1>3, <1>4 DEF add_l0_page
<1> HIDE DEF one, next, new
<1>6. Merged(next)
  BY <1>4 DEF Merged
<1>7. Low(next) = all /\ all \in Seq(Page)
  <2>1. lv[2] \o lv[1] \in Seq(Page) /\ Low(lv) \in Seq(Page)
    BY <1>1, ConcatParts DEF Low
  <2>2. Low(next) = (lv[2] \o lv[1]) \o (lv[0] \o one)
    BY <1>2, <1>4 DEF Low
  <2>3. (lv[2] \o lv[1]) \o (lv[0] \o one) = ((lv[2] \o lv[1]) \o lv[0]) \o one
    <3> DEFINE w == lv[2] \o lv[1]
    <3>1. w \in Seq(Page)
      BY <2>1
    <3> HIDE DEF w
    <3>2. (w \o lv[0]) \o one = w \o (lv[0] \o one)
      BY <1>1, <1>2, <3>1, Assoc, ZenonT(40)
    <3> QED
      BY <3>2 DEF w
  <2>4. Low(next) = all
    BY <2>2, <2>3 DEF Low
  <2> QED
    BY <1>2, <2>1, <2>4, ConcatParts
<1> HIDE DEF all
<1>8. CASE Len(lv[0]) + 1 >= L0_LIMIT
  <2>1. new = compact_l0_to_l1(next)
    BY <1>5, <1>8
  <2> QED
    BY <1>4, <1>6, <1>7, <1>8, <2>1, CompactL0, Zenon DEF one, all, new
<1>9. CASE ~(Len(lv[0]) + 1 >= L0_LIMIT)
  <2>1. new = next
    BY <1>5, <1>9
  <2>2. DrawnLevels(next, all)
    <3>1. SUFFICES ASSUME NEW l \in 0 .. 2, NEW i \in DOMAIN next[l]
                   PROVE  Drawn(next[l][i], all)
      BY DEF DrawnLevels
    <3>2. next[l] \in Seq(Page)
      BY <1>4 DEF Levels
    <3>3. Drawn(next[l][i], next[l]) /\ next[l][i] \in Page
      BY <3>2, DrawnSelf, ElementOfSeq, LenProperties
    <3>4. /\ next[0] \in Seq(Page) /\ next[1] \in Seq(Page) /\ next[2] \in Seq(Page)
          /\ next[2] \o next[1] \in Seq(Page)
      BY <1>4, ConcatParts DEF Levels
    <3>5. Drawn(next[l][i], (next[2] \o next[1]) \o next[0])
      <4>1. CASE l = 0
        BY <4>1, <3>3, <3>4, DrawnConcat, Zenon
      <4>2. CASE l = 1 \/ l = 2
        <5>1. Drawn(next[l][i], next[2] \o next[1])
          BY <4>2, <3>3, <3>4, DrawnConcat
        <5> QED
          BY <5>1, <3>3, <3>4, DrawnConcat, Zenon
      <4> QED
        BY <4>1, <4>2
    <3> QED
      BY <1>7, <3>5 DEF Low
  <2> QED
    BY <1>4, <1>6, <1>7, <2>1, <2>2, Zenon DEF SameAnswer, one, all, new
<1> QED
  BY <1>8, <1>9

(***************************************************************************)
(* CompactionManager::get is a lookup in all the pages, oldest first.      *)
(***************************************************************************)
LEMMA LevelsLookup ==
    ASSUME NEW lv \in Levels, NEW k \in Key
    PROVE  LevelsEntry(lv, k) = LastEntry(Low(lv), k)
<1>1. lv[0] \in Seq(Page) /\ lv[1] \in Seq(Page) /\ lv[2] \in Seq(Page)
  BY DEF Levels
<1>2. lv[2] \o lv[1] \in Seq(Page)
  BY <1>1, ConcatParts
<1>3. LastEntry(lv[2] \o lv[1], k) = IF Holders(lv[1], k) # {} THEN LastEntry(lv[1], k)
                                     ELSE LastEntry(lv[2], k)
  BY <1>1, LastConcat
<1>4. LastEntry((lv[2] \o lv[1]) \o lv[0], k) =
        IF Holders(lv[0], k) # {} THEN LastEntry(lv[0], k) ELSE LastEntry(lv[2] \o lv[1], k)
  BY <1>1, <1>2, LastConcat, Zenon
<1> QED
  BY <1>3, <1>4 DEF LevelsEntry, Low

-----------------------------------------------------------------------------
(***************************************************************************)
(* A sequence of pages with one more on top.                               *)
(***************************************************************************)
PageSet(s) == {s[i] : i \in DOMAIN s}

LEMMA PageSetType == ASSUME NEW s \in Seq(Page) PROVE PageSet(s) \subseteq Page
<1>1. \A i \in DOMAIN s : s[i] \in Page
  BY LenProperties, ElementOfSeq
<1> QED
  BY <1>1 DEF PageSet

LEMMA Top ==
    ASSUME NEW w \in Seq(Page), NEW m \in Page
    PROVE  /\ w \o << m >> \in Seq(Page)
           /\ Ascending(w \o << m >>) <=> Ascending(w) /\ \A p \in PageSet(w) : Older(p, m)
           /\ PageSet(w \o << m >>) = PageSet(w) \cup {m}
           /\ \A k \in Key : LastEntry(w \o << m >>, k) =
                                IF Has(m, k) THEN m[k] ELSE LastEntry(w, k)
<1> DEFINE one == << m >>
<1>1. one \in Seq(Page) /\ Ascending(one) /\ DOMAIN one = {1} /\ one[1] = m
  BY Singleton
<1>2. \A k \in Key : /\ Has(m, k) <=> Holders(one, k) # {}
                     /\ LastEntry(one, k) = IF Has(m, k) THEN m[k] ELSE NoEntry
  BY LastOfOne
<1> HIDE DEF one
<1>3. w \o one \in Seq(Page)
  BY <1>1, ConcatParts
<1>4. Ascending(w \o one) <=> Ascending(w) /\ \A p \in PageSet(w) : Older(p, m)
  <2>1. Beneath(w, one) <=> \A p \in PageSet(w) : Older(p, m)
    BY <1>1 DEF Beneath, PageSet
  <2> QED
    BY <1>1, <2>1, AscendingConcat
<1>5. PageSet(w \o one) = PageSet(w) \cup {m}
  <2>1. ASSUME NEW p \in PageSet(w \o one) PROVE p \in PageSet(w) \cup {m}
    <3>1. PICK i \in DOMAIN (w \o one) : p = (w \o one)[i]
      BY DEF PageSet
    <3>2. CASE i \in DOMAIN w
      BY <1>1, <3>1, <3>2, ConcatParts DEF PageSet
    <3>3. CASE \E j \in DOMAIN one : i = Len(w) + j
      BY <1>1, <3>1, <3>3, ConcatParts
    <3> QED
      BY <1>1, <3>2, <3>3, ConcatParts
  <2>2. ASSUME NEW p \in PageSet(w) PROVE p \in PageSet(w \o one)
    <3>1. PICK i \in DOMAIN w : p = w[i]
      BY DEF PageSet
    <3>2. i \in DOMAIN (w \o one) /\ (w \o one)[i] = w[i]
      BY <1>1, ConcatParts
    <3> QED
      BY <3>1, <3>2 DEF PageSet
  <2>3. m \in PageSet(w \o one)
    <3>1. Len(w) + 1 \in DOMAIN (w \o one) /\ (w \o one)[Len(w) + 1] = m
      BY <1>1, ConcatParts
    <3> QED
      BY <3>1 DEF PageSet
  <2> QED
    BY <2>1, <2>2, <2>3
<1>6. ASSUME NEW k \in Key
      PROVE  LastEntry(w \o one, k) = IF Has(m, k) THEN m[k] ELSE LastEntry(w, k)
  BY <1>1, <1>2, LastConcat
<1> QED
  BY <1>3, <1>4, <1>5, <1>6 DEF one

\* The pages of two sequences, and of the levels.
LEMMA PageSetConcat ==
    ASSUME NEW u \in Seq(Page), NEW v \in Seq(Page)
    PROVE  PageSet(u \o v) = PageSet(u) \cup PageSet(v)
<1>1. ASSUME NEW p \in PageSet(u \o v) PROVE p \in PageSet(u) \cup PageSet(v)
  <2>1. PICK i \in DOMAIN (u \o v) : p = (u \o v)[i]
    BY DEF PageSet
  <2>2. CASE i \in DOMAIN u
    BY <2>1, <2>2, ConcatParts DEF PageSet
  <2>3. CASE \E j \in DOMAIN v : i = Len(u) + j
    BY <2>1, <2>3, ConcatParts DEF PageSet
  <2> QED
    BY <2>2, <2>3, ConcatParts
<1>2. ASSUME NEW p \in PageSet(u) PROVE p \in PageSet(u \o v)
  <2>1. PICK i \in DOMAIN u : p = u[i]
    BY DEF PageSet
  <2>2. i \in DOMAIN (u \o v) /\ (u \o v)[i] = u[i]
    BY ConcatParts
  <2> QED
    BY <2>1, <2>2 DEF PageSet
<1>3. ASSUME NEW p \in PageSet(v) PROVE p \in PageSet(u \o v)
  <2>1. PICK i \in DOMAIN v : p = v[i]
    BY DEF PageSet
  <2>2. Len(u) + i \in DOMAIN (u \o v) /\ (u \o v)[Len(u) + i] = v[i]
    BY ConcatParts
  <2> QED
    BY <2>1, <2>2 DEF PageSet
<1> QED
  BY <1>1, <1>2, <1>3

LEMMA LowPages ==
    ASSUME NEW lv \in Levels
    PROVE  /\ Low(lv) \in Seq(Page)
           /\ PageSet(Low(lv)) = PageSet(lv[2]) \cup PageSet(lv[1]) \cup PageSet(lv[0])
           /\ Ascending(Low(lv)) <=>
                /\ Ascending(lv[2]) /\ Ascending(lv[1]) /\ Ascending(lv[0])
                /\ Beneath(lv[2], lv[1]) /\ Beneath(lv[2], lv[0]) /\ Beneath(lv[1], lv[0])
<1>1. lv[0] \in Seq(Page) /\ lv[1] \in Seq(Page) /\ lv[2] \in Seq(Page)
  BY SMTT(30) DEF Levels
<1>2. lv[2] \o lv[1] \in Seq(Page)
  BY <1>1, ConcatParts, Zenon
<1>3. Low(lv) \in Seq(Page)
  BY <1>1, <1>2, ConcatParts DEF Low
<1>5. PageSet(lv[2] \o lv[1]) = PageSet(lv[2]) \cup PageSet(lv[1])
  BY <1>1, PageSetConcat
<1>6. PageSet(Low(lv)) = PageSet(lv[2] \o lv[1]) \cup PageSet(lv[0])
  BY <1>1, <1>2, PageSetConcat, Zenon DEF Low
<1>7. Ascending(lv[2] \o lv[1]) <=> Ascending(lv[2]) /\ Ascending(lv[1]) /\ Beneath(lv[2], lv[1])
  BY <1>1, AscendingConcat
<1>8. Ascending(Low(lv)) <=>
        Ascending(lv[2] \o lv[1]) /\ Ascending(lv[0]) /\ Beneath(lv[2] \o lv[1], lv[0])
  BY <1>1, <1>2, AscendingConcat, Zenon DEF Low
<1>9. Beneath(lv[2] \o lv[1], lv[0]) <=> Beneath(lv[2], lv[0]) /\ Beneath(lv[1], lv[0])
  BY <1>1, BeneathConcat
<1> QED
  BY <1>3, <1>5, <1>6, <1>7, <1>8, <1>9

-----------------------------------------------------------------------------
(***************************************************************************)
(* Records, batches and memtables.                                         *)
(***************************************************************************)
LEMMA BatchType ==
    ASSUME NEW max, NEW items \in Batches(max)
    PROVE  items \in Seq(Item) /\ items # << >>
<1>1. PICK n \in 1 .. max : items \in [1 .. n -> Item]
  BY DEF Batches
<1>2. n \in Nat
  OBVIOUS
<1>3. items \in Seq(Item)
  BY <1>1, <1>2, SeqDef
<1>4. 1 \in DOMAIN items
  BY <1>1, <1>2
<1> QED
  BY <1>3, <1>4

LEMMA NumberedType ==
    ASSUME NEW items \in Seq(Item), clock \in Nat
    PROVE  /\ Numbered(items) \in Seq(Record)
           /\ Len(Numbered(items)) = Len(items)
           /\ DOMAIN Numbered(items) = 1 .. Len(items)
           /\ \A i \in 1 .. Len(items) : /\ Numbered(items)[i].ver = clock + i
                                         /\ Numbered(items)[i].key = items[i].key
                                         /\ Numbered(items)[i].empty = items[i].empty
<1>1. DOMAIN items = 1 .. Len(items) /\ Len(items) \in Nat
  BY LenProperties
<1>2. \A i \in 1 .. Len(items) : items[i] \in Item
  BY ElementOfSeq
<1>3. Numbered(items) \in [1 .. Len(items) -> Record]
  BY <1>1, <1>2 DEF Numbered, Item, Record
<1>4. Numbered(items) \in Seq(Record)
  BY <1>1, <1>3, SeqDef
<1>5. DOMAIN Numbered(items) = 1 .. Len(items)
  BY <1>1 DEF Numbered
<1>6. Len(Numbered(items)) = Len(items)
  BY <1>1, <1>4, <1>5, LenProperties
<1>7. \A i \in 1 .. Len(items) : /\ Numbered(items)[i].ver = clock + i
                                 /\ Numbered(items)[i].key = items[i].key
                                 /\ Numbered(items)[i].empty = items[i].empty
  BY <1>1 DEF Numbered
<1> QED
  BY <1>4, <1>5, <1>6, <1>7

LEMMA LastWriteProperty ==
    ASSUME NEW recs \in Seq(Record), NEW k \in Key, Writes(recs, k) # {}
    PROVE  \E i \in Writes(recs, k) : /\ LastWrite(recs, k) = recs[i]
                                      /\ recs[i] \in Record
                                      /\ \A j \in Writes(recs, k) : j <= i
<1>1. DOMAIN recs = 1 .. Len(recs) /\ Len(recs) \in Nat
  BY LenProperties
<1>2. Writes(recs, k) \in SUBSET (1 .. Len(recs))
  BY <1>1 DEF Writes
<1>3. /\ Max(Writes(recs, k)) \in Writes(recs, k)
      /\ \A j \in Writes(recs, k) : j <= Max(Writes(recs, k))
  BY <1>1, <1>2, MaxProperty, Zenon
<1>4. \A i \in 1 .. Len(recs) : recs[i] \in Record
  BY ElementOfSeq
<1> QED
  BY <1>2, <1>3, <1>4 DEF LastWrite

LEMMA MemtableTypes ==
    ASSUME NEW recs \in Seq(Record), NEW page \in Page
    PROVE  /\ EmptyPage \in Page
           /\ PutAll(page, recs) \in Page
           /\ DeleteAll(page, recs) \in Page
           /\ Replayed(recs) \in Page
<1>1. \A k \in Key : Writes(recs, k) # {} => LastWrite(recs, k) \in Record
  BY LastWriteProperty
<1>2. \A k \in Key : page[k] \in Entry
  BY DEF Page
<1>3. NoEntry \in Entry
  BY DEF NoEntry, Entry
<1>4. EmptyPage \in Page
  BY <1>3 DEF EmptyPage, Page
<1>5. PutAll(page, recs) \in Page
  BY <1>1, <1>2 DEF PutAll, Page, Entry, Record
<1>6. DeleteAll(page, recs) \in Page
  BY <1>1, <1>2 DEF DeleteAll, Page, Entry, Record
<1>7. Replayed(recs) \in Page
  BY <1>1, <1>3 DEF Replayed, Page, Entry, Record
<1> QED
  BY <1>4, <1>5, <1>6, <1>7

-----------------------------------------------------------------------------
(***************************************************************************)
(* What the steps of the memtable, the log and the page files do to the    *)
(* types of their variables.                                               *)
(***************************************************************************)
LEMMA LogTypes ==
    ASSUME TypeOK, NEW recs \in Seq(Record), NEW fl \in BOOLEAN,
           AppendToLog(recs, fl), Acknowledge(recs)
    PROVE  /\ wal' \in Seq(Record) /\ flushed' \in 0 .. Len(wal') /\ torn' \in BOOLEAN
           /\ clock' \in Nat /\ acked' \in [Key -> Nat]
           /\ clobbered' \in SUBSET Key /\ hole' \in BOOLEAN
<1>1. wal \o recs \in Seq(Record) /\ Len(wal \o recs) = Len(wal) + Len(recs)
  BY ConcatProperties DEF TypeOK
<1>2. Len(wal) \in Nat /\ Len(recs) \in Nat
  BY LenProperties DEF TypeOK
<1>3. wal' \in Seq(Record) /\ flushed' \in 0 .. Len(wal')
  BY <1>1, <1>2 DEF AppendToLog, TypeOK
<1>4. torn' \in BOOLEAN /\ clock' \in Nat
  BY <1>2 DEF AppendToLog, TypeOK
<1>5. hole' \in BOOLEAN
  BY DEF AppendToLog, TypeOK
<1>6. acked' \in [Key -> Nat]
  <2>1. \A k \in Key : Writes(recs, k) # {} => LastWrite(recs, k).ver \in Nat
    BY LastWriteProperty, Zenon DEF Record
  <2> QED
    BY <2>1 DEF Acknowledge, TypeOK
<1>7. clobbered' \in SUBSET Key
  BY DEF Acknowledge, TypeOK
<1> QED
  BY <1>3, <1>4, <1>5, <1>6, <1>7

Drained == \A i \in DOMAIN frozen : frozen[i] = EmptyPage

LEMMA FlushTypes ==
    ASSUME TypeOK, Drained, NEW m \in Page, flush_memtable(m)
    PROVE  mem' \in Page /\ frozen' \in Seq(Page) /\ queue' \in Seq(Page) /\ Drained'
<1>1. EmptyPage \in Page
  BY DEF EmptyPage, Page, NoEntry, Entry
<1>2. queue' \in Seq(Page) /\ mem' \in Page
  BY <1>1, AppendProperties DEF flush_memtable, TypeOK
<1> DEFINE f == Append(frozen, EmptyPage)
<1>3. /\ f \in Seq(Page) /\ Len(f) = Len(frozen) + 1
      /\ \A i \in 1 .. Len(frozen) : f[i] = frozen[i]
      /\ f[Len(frozen) + 1] = EmptyPage
      /\ f # << >>
  BY <1>1, AppendProperties DEF TypeOK
<1>4. DOMAIN frozen = 1 .. Len(frozen) /\ Len(frozen) \in Nat
  BY LenProperties DEF TypeOK
<1>5. frozen' = KeepTwo(f)
  BY DEF flush_memtable, drain
<1> HIDE DEF f
<1>6. \A i \in 1 .. Len(f) : f[i] = EmptyPage
  BY <1>3, <1>4 DEF Drained
<1>7. /\ Tail(f) \in Seq(Page) /\ Len(Tail(f)) = Len(f) - 1
      /\ \A i \in 1 .. Len(Tail(f)) : Tail(f)[i] = f[i + 1]
  BY <1>3, HeadTailProperties
<1>8. frozen' \in Seq(Page)
  BY <1>3, <1>5, <1>7 DEF KeepTwo
<1>9. ASSUME NEW i \in 1 .. Len(frozen') PROVE frozen'[i] = EmptyPage
  <2>1. CASE Len(f) > 2
    <3>1. frozen' = Tail(f)
      BY <1>5, <2>1 DEF KeepTwo
    <3>2. frozen'[i] = f[i + 1] /\ i + 1 \in 1 .. Len(f)
      BY <1>3, <1>4, <1>7, <3>1
    <3> QED
      BY <1>6, <3>2
  <2>2. CASE ~(Len(f) > 2)
    BY <1>5, <1>6, <2>2 DEF KeepTwo
  <2> QED
    BY <2>1, <2>2
<1>10. DOMAIN frozen' = 1 .. Len(frozen')
  BY <1>8, LenProperties
<1>11. Drained'
  BY <1>9, <1>10 DEF Drained
<1> QED
  BY <1>2, <1>8, <1>11

LEMMA InsertTypes ==
    ASSUME TypeOK, Drained, NEW m \in Page, InsertThenFlush(m)
    PROVE  mem' \in Page /\ frozen' \in Seq(Page) /\ queue' \in Seq(Page) /\ Drained'
<1>1. CASE should_flush(m)
  BY <1>1, FlushTypes DEF InsertThenFlush
<1>2. CASE ~should_flush(m)
  BY <1>2 DEF InsertThenFlush, TypeOK, Drained
<1> QED
  BY <1>1, <1>2

-----------------------------------------------------------------------------
(***************************************************************************)
(* The page files: one for each page when saved, and loaded in the order   *)
(* of their indices.                                                       *)
(***************************************************************************)
LEMMA FilesOfProperty ==
    ASSUME NEW lv \in Levels, NEW f \in FilesOf(lv)
    PROVE  /\ f \in File
           /\ f.index \in DOMAIN lv[f.level]
           /\ f.page = lv[f.level][f.index]
<1>a. PICK l \in 0 .. 2 :
        f \in {[level |-> l, index |-> i, page |-> lv[l][i]] : i \in DOMAIN lv[l]}
  BY DEF FilesOf
<1>1. PICK i \in DOMAIN lv[l] : f = [level |-> l, index |-> i, page |-> lv[l][i]]
  BY <1>a
<1>2. lv[l] \in Seq(Page)
  BY DEF Levels
<1>3. i \in Nat /\ lv[l][i] \in Page
  BY <1>2, LenProperties, ElementOfSeq
<1> QED
  BY <1>1, <1>3 DEF File

(***************************************************************************)
(* At most one file for L1 and for L2.                                     *)
(***************************************************************************)
OneFile == \A f, g \in disk : f.level = g.level /\ f.level # 0 => f = g

LEMMA SortedProperty ==
    ASSUME TypeOK, NEW l \in 0 .. 2, NEW s \in SortedFiles(l)
    PROVE  /\ PagesOf(s) \in Seq(Page)
           /\ DOMAIN PagesOf(s) \in SUBSET Nat
           /\ \A i \in DOMAIN PagesOf(s) :
                s[i] \in disk /\ s[i].level = l /\ PagesOf(s)[i] = s[i].page
           /\ \A i, j \in DOMAIN PagesOf(s) : i < j => s[i].index < s[j].index
           /\ OneFile /\ l # 0 => Len(PagesOf(s)) <= 1
<1> DEFINE files == {f \in disk : f.level = l}
           n     == Cardinality(files)
<1>1. n \in Nat
  <2>1. IsFiniteSet(files)
    BY FS_Subset DEF TypeOK
  <2> QED
    BY <2>1, FS_CardinalityType
<1>2. s \in [1 .. n -> files] /\ \A i, j \in 1 .. n : i < j => s[i].index < s[j].index
  BY DEF SortedFiles
<1> HIDE DEF n
<1>3. DOMAIN PagesOf(s) = 1 .. n /\ \A i \in 1 .. n : PagesOf(s)[i] = s[i].page
  BY <1>2 DEF PagesOf
<1>4. \A i \in 1 .. n : s[i] \in disk /\ s[i].level = l /\ s[i].page \in Page /\ s[i].index \in Nat
  <2>1. SUFFICES ASSUME NEW i \in 1 .. n
                 PROVE  s[i] \in disk /\ s[i].level = l /\ s[i].page \in Page /\ s[i].index \in Nat
    OBVIOUS
  <2>2. s[i] \in files
    BY <1>2
  <2>3. s[i] \in disk /\ s[i].level = l
    BY <2>2
  <2>4. s[i] \in File
    BY <2>3 DEF TypeOK
  <2> QED
    BY <2>3, <2>4 DEF File
<1>5. PagesOf(s) \in Seq(Page)
  <2>1. PagesOf(s) \in [1 .. n -> Page]
    BY <1>2, <1>4 DEF PagesOf
  <2> QED
    BY <1>1, <2>1, SeqDef
<1>6. Len(PagesOf(s)) = n
  BY <1>1, <1>3, <1>5, LenProperties
<1>7. ASSUME OneFile, l # 0, n > 1 PROVE FALSE
  <2>1. 1 \in 1 .. n /\ 2 \in 1 .. n
    BY <1>1, <1>7
  <2>2. s[1] = s[2]
    BY <1>4, <1>7, <2>1 DEF OneFile
  <2>3. s[1].index < s[2].index
    BY <1>2, <2>1
  <2> QED
    BY <1>4, <2>1, <2>2, <2>3
<1>8. OneFile /\ l # 0 => n <= 1
  BY <1>1, <1>7
<1> QED
  BY <1>1, <1>2, <1>3, <1>4, <1>5, <1>6, <1>8

-----------------------------------------------------------------------------
(***************************************************************************)
(* The shape of the state: L1 and L2 hold at most one page and have at     *)
(* most one file, a partly written directory is a part of the levels, the  *)
(* thread does not outlive the process, frozen memtables are empty.        *)
(***************************************************************************)
Shape ==
    /\ Merged(levels)
    /\ OneFile
    /\ saver = "writing" => disk \subseteq FilesOf(levels)
    /\ phase = "down" => saver = "idle"
    /\ Drained

Sound == TypeOK /\ Shape

LEMMA SoundInit == Init => Sound
<1>1. SUFFICES ASSUME Init PROVE Sound
  OBVIOUS
<1>2. EmptyPage \in Page
  BY DEF EmptyPage, Page, NoEntry, Entry
<1>3. NoLevels \in [0 .. 2 -> Seq(Page)] /\ Merged(NoLevels)
  BY EmptySeq DEF NoLevels, Merged
<1>4. TypeOK
  <2>1. IsFiniteSet(disk) /\ disk \in SUBSET File
    BY <1>1, FS_EmptySet DEF Init
  <2>2. wal \in Seq(Record) /\ flushed \in 0 .. Len(wal)
    BY <1>1 DEF Init
  <2>3. mem \in Page /\ frozen \in Seq(Page) /\ queue \in Seq(Page) /\ levels \in [0 .. 2 -> Seq(Page)]
    BY <1>1, <1>2, <1>3 DEF Init
  <2>4. acked \in [Key -> Nat] /\ clobbered \in SUBSET Key /\ clock \in Nat
    BY <1>1 DEF Init
  <2>5. /\ torn \in BOOLEAN /\ hole \in BOOLEAN
        /\ phase \in {"open", "closing", "down"} /\ saver \in {"idle", "clearing", "writing"}
    BY <1>1, Zenon DEF Init
  <2> QED
    BY <2>1, <2>2, <2>3, <2>4, <2>5 DEF TypeOK
<1>5. Shape
  BY <1>1, <1>3 DEF Init, Shape, OneFile, Drained
<1> QED
  BY <1>4, <1>5 DEF Sound

LEMMA SoundWrite ==
    ASSUME Sound, NEW recs \in Seq(Record), NEW fl \in BOOLEAN, NEW m \in Page,
           AppendToLog(recs, fl), Acknowledge(recs),
           InsertThenFlush(m) \/ (mem' = m /\ UNCHANGED << frozen, queue >>),
           UNCHANGED << phase, diskVars >>
    PROVE  Sound'
<1>1. /\ wal' \in Seq(Record) /\ flushed' \in 0 .. Len(wal') /\ torn' \in BOOLEAN
      /\ clock' \in Nat /\ acked' \in [Key -> Nat]
      /\ clobbered' \in SUBSET Key /\ hole' \in BOOLEAN
  BY LogTypes DEF Sound
<1>2. mem' \in Page /\ frozen' \in Seq(Page) /\ queue' \in Seq(Page) /\ Drained'
  <2>1. CASE InsertThenFlush(m)
    BY <2>1, InsertTypes DEF Sound, Shape
  <2>2. CASE mem' = m /\ UNCHANGED << frozen, queue >>
    BY <2>2 DEF Sound, Shape, TypeOK, Drained
  <2> QED
    BY <2>1, <2>2
<1>3. TypeOK'
  BY <1>1, <1>2 DEF Sound, TypeOK, diskVars
<1>4. Shape'
  BY <1>2 DEF Sound, Shape, OneFile, diskVars
<1> QED
  BY <1>3, <1>4 DEF Sound

LEMMA SoundOpen == Sound /\ open => Sound'
<1>1. SUFFICES ASSUME Sound, open PROVE Sound'
  OBVIOUS
<1>2. PICK l0 \in SortedFiles(0), l1 \in SortedFiles(1), l2 \in SortedFiles(2) :
        levels' = [l \in 0 .. 2 |-> IF l = 0 THEN PagesOf(l0)
                                    ELSE IF l = 1 THEN PagesOf(l1) ELSE PagesOf(l2)]
  BY <1>1 DEF open
<1>3. /\ PagesOf(l0) \in Seq(Page) /\ PagesOf(l1) \in Seq(Page) /\ PagesOf(l2) \in Seq(Page)
      /\ Len(PagesOf(l1)) <= 1 /\ Len(PagesOf(l2)) <= 1
  BY <1>1, SortedProperty DEF Sound, Shape
<1>4. levels' \in [0 .. 2 -> Seq(Page)] /\ Merged(levels')
  BY <1>2, <1>3 DEF Merged
<1>5. Replayed(wal) \in Page /\ EmptyPage \in Page
  BY <1>1, MemtableTypes, Zenon DEF Sound, TypeOK
<1>6. mem' \in Page /\ queue' \in Seq(Page)
  <2>1. CASE should_flush(Replayed(wal))
    <3>1. mem' = EmptyPage /\ queue' = << Replayed(wal) >>
      BY <1>1, <2>1 DEF open, drain
    <3> QED
      BY <1>5, <3>1, Singleton
  <2>2. CASE ~should_flush(Replayed(wal))
    <3>1. mem' = Replayed(wal) /\ queue' = << >>
      BY <1>1, <2>2 DEF open
    <3> QED
      BY <1>5, <3>1
  <2> QED
    BY <2>1, <2>2
<1>7. TypeOK'
  <2>1. frozen' \in Seq(Page) /\ clobbered' \in SUBSET Key /\ phase' = "open"
    BY <1>1 DEF open
  <2> QED
    BY <1>1, <1>4, <1>6, <2>1 DEF Sound, TypeOK, open, walVars
<1>8. Shape'
  BY <1>1, <1>4 DEF Sound, Shape, TypeOK, open, OneFile, Drained
<1> QED
  BY <1>7, <1>8 DEF Sound

LEMMA SoundAddPage == Sound /\ add_page => Sound'
<1>1. SUFFICES ASSUME Sound, add_page PROVE Sound'
  OBVIOUS
<1>2. Head(queue) \in Page /\ Tail(queue) \in Seq(Page)
  BY <1>1, HeadTailProperties DEF Sound, TypeOK, add_page
<1>3. levels' \in [0 .. 2 -> Seq(Page)] /\ Merged(levels')
  BY <1>1, <1>2, AddPage, Zenon DEF Sound, TypeOK, Shape, Levels, add_page
<1>4. clobbered' \in SUBSET Key
  BY <1>1 DEF Sound, TypeOK, add_page, Overlapping
<1>5. TypeOK'
  BY <1>1, <1>2, <1>3, <1>4 DEF Sound, TypeOK, add_page, walVars
<1>6. Shape'
  BY <1>1, <1>3 DEF Sound, Shape, add_page, OneFile, Drained
<1> QED
  BY <1>5, <1>6 DEF Sound

LEMMA SoundWriteFile == Sound /\ write_file => Sound'
<1>1. SUFFICES ASSUME Sound, write_file PROVE Sound'
  OBVIOUS
<1>2. PICK f \in FilesOf(levels) \ disk : disk' = disk \cup {f}
  BY <1>1 DEF write_file
<1>3. levels \in Levels /\ Merged(levels)
  BY <1>1 DEF Sound, Shape, TypeOK, Levels
<1>4. f \in File /\ IsFiniteSet(disk')
  BY <1>1, <1>2, <1>3, FilesOfProperty, FS_AddElement DEF Sound, TypeOK
<1>5. disk' \subseteq FilesOf(levels)
  BY <1>1, <1>2 DEF Sound, Shape, write_file
<1>6. OneFile'
  <2>1. SUFFICES ASSUME NEW g \in disk', NEW h \in disk', g.level = h.level, g.level # 0
                 PROVE  g = h
    BY DEF OneFile
  <2>2. /\ g \in File /\ g.index \in DOMAIN levels[g.level] /\ g.page = levels[g.level][g.index]
        /\ h \in File /\ h.index \in DOMAIN levels[h.level] /\ h.page = levels[h.level][h.index]
    BY <1>3, <1>5, FilesOfProperty
  <2>3. g.level \in {1, 2}
    BY <2>1, <2>2 DEF File
  <2>4. levels[g.level] \in Seq(Page) /\ Len(levels[g.level]) <= 1
    BY <1>3, <2>3 DEF Levels, Merged
  <2>5. g.index = 1 /\ h.index = 1
    BY <2>1, <2>2, <2>4, LenProperties
  <2> QED
    BY <2>1, <2>2, <2>5 DEF File
<1>7. TypeOK'
  BY <1>1, <1>2, <1>4 DEF Sound, TypeOK, write_file, walVars, memVars, history
<1>8. Shape'
  BY <1>1, <1>5, <1>6 DEF Sound, Shape, TypeOK, write_file, memVars, Drained
<1> QED
  BY <1>7, <1>8 DEF Sound

LEMMA SoundLoseMemory ==
    ASSUME Sound, LoseMemory,
           wal' \in Seq(Record), flushed' \in 0 .. Len(wal'), torn' \in BOOLEAN,
           clock' \in Nat, hole' \in BOOLEAN, UNCHANGED << acked, clobbered >>
    PROVE  Sound'
<1>1. EmptyPage \in Page /\ << >> \in Seq(Page)
  BY EmptySeq DEF EmptyPage, Page, NoEntry, Entry
<1>2. NoLevels \in [0 .. 2 -> Seq(Page)] /\ Merged(NoLevels)
  BY EmptySeq DEF NoLevels, Merged
<1>3. TypeOK'
  BY <1>1, <1>2 DEF Sound, TypeOK, LoseMemory
<1>4. Shape'
  BY <1>2 DEF Sound, Shape, LoseMemory, OneFile, Drained
<1> QED
  BY <1>3, <1>4 DEF Sound

(***************************************************************************)
(* The records a crash leaves in the log: a prefix of the log extended by  *)
(* the records of the interrupted call.                                    *)
(***************************************************************************)
LEMMA CrashLog ==
    ASSUME TypeOK, crash
    PROVE  \E recs \in Seq(Record), n \in Nat :
              /\ \A i \in DOMAIN recs : recs[i].ver = clock + i
              /\ clock' = clock + Len(recs)
              /\ n \in flushed .. Len(wal) + Len(recs)
              /\ wal' = SubSeq(wal \o recs, 1, n)
              /\ wal' \in Seq(Record) /\ Len(wal') = n /\ flushed' = n
              /\ \A i \in 1 .. n : wal'[i] = (wal \o recs)[i]
              /\ torn' \in BOOLEAN
              /\ hole' = (hole \/ n < Len(wal))
<1>1. PICK inflight \in {<< >>} \cup (IF phase = "open" /\ ~torn THEN Batches(MaxBatch) ELSE {}) :
        LET all == wal \o Numbered(inflight)
        IN  /\ clock' = clock + Len(inflight)
            /\ \E n \in flushed .. Len(all) :
                /\ wal' = SubSeq(all, 1, n)
                /\ flushed' = n
                /\ torn' \in (IF torn THEN {TRUE} ELSE IF n < Len(all) THEN BOOLEAN ELSE {FALSE})
                /\ hole' = (hole \/ n < Len(wal))
  BY Zenon DEF crash
<1>2. inflight \in Seq(Item)
  BY BatchType, EmptySeq, Zenon
<1> DEFINE recs == Numbered(inflight)
<1>3. /\ recs \in Seq(Record) /\ Len(recs) = Len(inflight)
      /\ \A i \in DOMAIN recs : recs[i].ver = clock + i
  BY <1>2, NumberedType, Zenon DEF TypeOK
<1> HIDE DEF recs
<1>4. /\ wal \o recs \in Seq(Record) /\ Len(wal \o recs) = Len(wal) + Len(recs)
      /\ Len(wal) \in Nat /\ Len(recs) \in Nat /\ flushed \in Nat
  <2>1. wal \o recs \in Seq(Record) /\ Len(wal \o recs) = Len(wal) + Len(recs)
    BY <1>3, ConcatProperties, Zenon DEF TypeOK
  <2>2. Len(wal) \in Nat /\ Len(recs) \in Nat
    BY <1>3, LenProperties DEF TypeOK
  <2>3. flushed \in Nat
    BY <2>2 DEF TypeOK
  <2> QED
    BY <2>1, <2>2, <2>3
<1>5. PICK n \in flushed .. Len(wal \o recs) :
        /\ wal' = SubSeq(wal \o recs, 1, n)
        /\ flushed' = n
        /\ torn' \in (IF torn THEN {TRUE} ELSE IF n < Len(wal \o recs) THEN BOOLEAN ELSE {FALSE})
        /\ hole' = (hole \/ n < Len(wal))
  BY <1>1, Zenon DEF recs
<1>6. n \in Nat /\ n \in 1 - 1 .. Len(wal \o recs) /\ 1 \in 1 .. Len(wal \o recs) + 1
  BY <1>4
<1> DEFINE all == wal \o recs
<1>7. all \in Seq(Record)
  BY <1>4
<1> HIDE DEF all
<1>8. /\ SubSeq(all, 1, n) \in Seq(Record)
      /\ Len(SubSeq(all, 1, n)) = n
      /\ \A i \in 1 .. n : SubSeq(all, 1, n)[i] = all[i]
  <2>1. 1 \in 1 .. Len(all) + 1 /\ n \in 1 - 1 .. Len(all) /\ n \in Nat
    BY <1>6 DEF all
  <2>2. /\ SubSeq(all, 1, n) \in Seq(Record)
        /\ Len(SubSeq(all, 1, n)) = IF 1 <= n THEN n - 1 + 1 ELSE 0
        /\ \A i \in 1 .. n - 1 + 1 : SubSeq(all, 1, n)[i] = all[1 + i - 1]
    BY <1>7, <2>1, SubSeqProperties
  <2>3. Len(SubSeq(all, 1, n)) = n
    BY <2>1, <2>2
  <2>4. ASSUME NEW i \in 1 .. n PROVE SubSeq(all, 1, n)[i] = all[i]
    <3>1. i \in 1 .. n - 1 + 1 /\ 1 + i - 1 = i
      BY <2>1
    <3> QED
      BY <2>2, <3>1
  <2> QED
    BY <2>2, <2>3, <2>4
<1>9. torn' \in BOOLEAN
  BY <1>5, Zenon
<1>10. clock' = clock + Len(recs)
  BY <1>1, <1>3
<1>11. n \in flushed .. Len(wal) + Len(recs)
  BY <1>4, <1>6
<1> QED
  BY <1>3, <1>5, <1>6, <1>8, <1>9, <1>10, <1>11 DEF all

LEMMA SoundCrash == Sound /\ crash => Sound'
<1>1. SUFFICES ASSUME Sound, crash PROVE Sound'
  OBVIOUS
<1>2. PICK recs \in Seq(Record), n \in Nat :
        /\ clock' = clock + Len(recs)
        /\ wal' \in Seq(Record) /\ Len(wal') = n /\ flushed' = n
        /\ torn' \in BOOLEAN
        /\ hole' = (hole \/ n < Len(wal))
  BY <1>1, CrashLog DEF Sound
<1>3. clock' \in Nat /\ flushed' \in 0 .. Len(wal')
  BY <1>1, <1>2, LenProperties DEF Sound, TypeOK
<1>4. hole' \in BOOLEAN
  BY <1>1, <1>2 DEF Sound, TypeOK
<1>5. LoseMemory /\ UNCHANGED << acked, clobbered >>
  BY <1>1 DEF crash
<1> QED
  BY <1>1, <1>2, <1>3, <1>4, <1>5, SoundLoseMemory

LEMMA SoundFlush ==
    ASSUME Sound, flush_memtable(mem), UNCHANGED << wal, torn, diskVars, history >>,
           phase' \in {"open", "closing"}, flushed' \in 0 .. Len(wal), phase = "open"
    PROVE  Sound'
<1>1. mem' \in Page /\ frozen' \in Seq(Page) /\ queue' \in Seq(Page) /\ Drained'
  BY FlushTypes DEF Sound, Shape, TypeOK
<1>2. TypeOK'
  BY <1>1 DEF Sound, TypeOK, diskVars, history
<1>3. Shape'
  BY <1>1 DEF Sound, Shape, OneFile, diskVars
<1> QED
  BY <1>2, <1>3 DEF Sound

LEMMA SoundNext == Sound /\ [Next]_vars => Sound'
<1>1. SUFFICES ASSUME Sound, [Next]_vars PROVE Sound'
  OBVIOUS
<1>2. wal \in Seq(Record) /\ mem \in Page /\ clock \in Nat /\ Len(wal) \in Nat
  BY <1>1, LenProperties DEF Sound, TypeOK
<1>3. CASE open
  BY <1>1, <1>3, SoundOpen
<1>4. ASSUME NEW items \in Seq(Item), PutRecords(items) PROVE Sound'
  <2>1. Numbered(items) \in Seq(Record)
    BY <1>2, NumberedType
  <2>2. PutAll(mem, Numbered(items)) \in Page
    BY <1>2, <2>1, MemtableTypes
  <2> QED
    BY <1>1, <1>4, <2>1, <2>2, SoundWrite, Zenon DEF PutRecords
<1>5. ASSUME NEW item \in Item, put(item) PROVE Sound'
  <2> DEFINE one == << item >>
  <2>1. one \in Seq(Item) /\ PutRecords(one)
    BY <1>5 DEF put
  <2> HIDE DEF one
  <2> QED
    BY <1>4, <2>1
<1>6. ASSUME NEW items \in Batches(MaxBatch), put_batch(items) PROVE Sound'
  BY <1>4, <1>6, BatchType DEF put_batch
<1>7. ASSUME NEW items \in Batches(MaxBranch), branch_merge(items) PROVE Sound'
  <2>1. Numbered(items) \in Seq(Record)
    BY <1>2, BatchType, NumberedType
  <2>2. PutAll(mem, Numbered(items)) \in Page
    BY <1>2, <2>1, MemtableTypes
  <2> QED
    BY <1>1, <1>7, <2>1, <2>2, SoundWrite, Zenon DEF branch_merge
<1>8. ASSUME NEW k \in Key, delete(k) PROVE Sound'
  <2> DEFINE items == << [key |-> k, empty |-> TRUE] >>
  <2>1. items \in Seq(Item)
    BY DEF Item
  <2> HIDE DEF items
  <2>2. Numbered(items) \in Seq(Record)
    BY <1>2, <2>1, NumberedType
  <2>3. DeleteAll(mem, Numbered(items)) \in Page
    BY <1>2, <2>2, MemtableTypes
  <2>4. /\ AppendToLog(Numbered(items), TRUE) /\ Acknowledge(Numbered(items))
        /\ InsertThenFlush(DeleteAll(mem, Numbered(items)))
        /\ UNCHANGED << phase, diskVars >>
    BY <1>8, Zenon DEF delete, items
  <2> QED
    BY <1>1, <2>2, <2>3, <2>4, SoundWrite, Zenon
<1>9. CASE flush
  BY <1>1, <1>9, SoundFlush DEF flush, walVars, Sound, TypeOK
<1>10. CASE sync
  <2>1. TypeOK'
    BY <1>1, <1>2, <1>10 DEF Sound, TypeOK, sync, memVars, diskVars, history
  <2>2. Shape'
    BY <1>1, <1>10 DEF Sound, Shape, sync, memVars, diskVars, OneFile, Drained
  <2> QED
    BY <2>1, <2>2 DEF Sound
<1>11. CASE close
  <2>1. CASE mem # EmptyPage
    <3>1. flushed' \in 0 .. Len(wal) /\ phase' = "closing"
      BY <1>2, <1>11 DEF close
    <3> QED
      BY <1>1, <1>11, <2>1, <3>1, SoundFlush DEF close
  <2>2. CASE mem = EmptyPage
    <3>1. TypeOK'
      BY <1>1, <1>2, <1>11, <2>2 DEF Sound, TypeOK, close, memVars, diskVars, history
    <3>2. Shape'
      BY <1>1, <1>11, <2>2 DEF Sound, Shape, close, memVars, diskVars, OneFile, Drained
    <3> QED
      BY <3>1, <3>2 DEF Sound
  <2> QED
    BY <2>1, <2>2
<1>12. CASE join
  <2>1. /\ wal' = wal /\ flushed' = flushed /\ torn' = torn /\ clock' = clock /\ hole' = hole
        /\ UNCHANGED << acked, clobbered >> /\ LoseMemory
    BY <1>12 DEF join, walVars, history
  <2>2. flushed \in 0 .. Len(wal) /\ torn \in BOOLEAN /\ hole \in BOOLEAN
    BY <1>1 DEF Sound, TypeOK
  <2> QED
    BY <1>1, <1>2, <2>1, <2>2, SoundLoseMemory
<1>13. CASE add_page
  BY <1>1, <1>13, SoundAddPage
<1>14. CASE remove_file
  <2>1. PICK f \in disk : disk' = disk \ {f}
    BY <1>14 DEF remove_file
  <2>2. IsFiniteSet(disk')
    BY <1>1, <2>1, FS_RemoveElement DEF Sound, TypeOK
  <2>3. TypeOK'
    BY <1>1, <1>14, <2>1, <2>2 DEF Sound, TypeOK, remove_file, walVars, memVars, history
  <2>4. Shape'
    BY <1>1, <1>14, <2>1 DEF Sound, Shape, remove_file, memVars, OneFile, Drained
  <2> QED
    BY <2>3, <2>4 DEF Sound
<1>15. CASE write_file
  BY <1>1, <1>15, SoundWriteFile
<1>16. CASE save_fails
  <2>1. TypeOK'
    BY <1>1, <1>16 DEF Sound, TypeOK, save_fails, walVars, memVars, history
  <2>2. Shape'
    BY <1>1, <1>16 DEF Sound, Shape, save_fails, memVars, OneFile, Drained
  <2> QED
    BY <2>1, <2>2 DEF Sound
<1>17. CASE crash
  BY <1>1, <1>17, SoundCrash
<1>18. CASE UNCHANGED vars
  <2>1. TypeOK'
    BY <1>1, <1>18 DEF Sound, TypeOK, vars, walVars, memVars, diskVars, history
  <2>2. Shape'
    BY <1>1, <1>18 DEF Sound, Shape, vars, memVars, diskVars, OneFile, Drained
  <2> QED
    BY <2>1, <2>2 DEF Sound
<1> QED
  BY <1>1, <1>3, <1>5, <1>6, <1>7, <1>8, <1>9, <1>10, <1>11, <1>12, <1>13, <1>14, <1>15,
     <1>16, <1>17, <1>18 DEF Next, worker

(***************************************************************************)
(* TypeCorrect: every variable of the engine keeps its type: the log is a  *)
(* sequence of records of which at most all are flushed, and what merges,  *)
(* saves, loads and replays build are pages.                               *)
(***************************************************************************)
THEOREM TypeCorrect == Spec => []TypeOK
<1>1. Sound => TypeOK
  BY DEF Sound
<1> QED
  BY <1>1, SoundInit, SoundNext, PTL DEF Spec

-----------------------------------------------------------------------------
(***************************************************************************)
(* The log is in the order of the writes.                                  *)
(***************************************************************************)
LogInOrder ==
    /\ \A i, j \in DOMAIN wal : i < j => wal[i].ver < wal[j].ver
    /\ \A i \in DOMAIN wal : wal[i].ver >= 1 /\ wal[i].ver <= clock

(***************************************************************************)
(* The last acknowledged write of each key, or a later one, is in the log. *)
(***************************************************************************)
AckedInLog ==
    ~hole => \A k \in Key : acked[k] # 0 => \E i \in Writes(wal, k) : wal[i].ver >= acked[k]

(***************************************************************************)
(* Loaded as they are, the files give pages in order.                      *)
(***************************************************************************)
Under(f, g) == f.level > g.level \/ (f.level = g.level /\ f.index < g.index)

FilesInOrder == ~hole => \A f, g \in disk : Under(f, g) => Older(f.page, g.page)

Safe ==
    /\ LogInOrder /\ AckedInLog /\ FilesInOrder
    /\ PagesInOrder /\ LogCoversPages /\ NothingLost

IndInv == Sound /\ Safe

-----------------------------------------------------------------------------
(***************************************************************************)
(* An empty page on top changes nothing.                                   *)
(***************************************************************************)
LEMMA EmptyTop ==
    ASSUME NEW w \in Seq(Page)
    PROVE  /\ EmptyPage \in Page
           /\ \A p \in Page : Older(p, EmptyPage)
           /\ \A k \in Key : ~Has(EmptyPage, k)
           /\ \A log : LogCovers(log, EmptyPage)
<1>1. EmptyPage \in Page
  BY DEF EmptyPage, Page, NoEntry, Entry
<1>2. \A k \in Key : ~Has(EmptyPage, k)
  BY DEF EmptyPage, Has, NoEntry
<1> QED
  BY <1>1, <1>2 DEF Older, LogCovers

Base == Low(levels) \o queue

LEMMA StackView ==
    ASSUME TypeOK
    PROVE  /\ levels \in Levels /\ Low(levels) \in Seq(Page)
           /\ Base \in Seq(Page)
           /\ Stack = Base \o << mem >>
           /\ Stack \in Seq(Page)
<1>1. levels \in Levels /\ queue \in Seq(Page) /\ mem \in Page
  BY DEF TypeOK, Levels
<1>2. levels[0] \in Seq(Page) /\ levels[1] \in Seq(Page) /\ levels[2] \in Seq(Page)
  BY <1>1 DEF Levels
<1>3. levels[2] \o levels[1] \in Seq(Page)
  BY <1>2, ConcatParts
<1>4. Low(levels) \in Seq(Page)
  BY <1>2, <1>3, ConcatParts DEF Low
<1>5. Base \in Seq(Page)
  BY <1>1, <1>4, ConcatParts DEF Base
<1>6. Stack = Base \o << mem >>
  BY DEF Stack, Base, Low
<1> QED
  BY <1>1, <1>4, <1>5, <1>6, Top

-----------------------------------------------------------------------------
(***************************************************************************)
(* The log only grows while it has no hole, and what it covered it covers. *)
(***************************************************************************)
LogGrows == \A i \in DOMAIN wal : i \in DOMAIN wal' /\ wal'[i] = wal[i]

LEMMA CoverageGrows ==
    ASSUME LogGrows
    PROVE  /\ \A p \in Page : LogCovers(wal, p) => LogCovers(wal', p)
           /\ \A k \in Key, v \in Nat, e \in Entry : Fresh(wal, k, v, e) => Fresh(wal', k, v, e)
<1>1. ASSUME NEW k \in Key, NEW e \in Entry, InLog(wal, k, e) PROVE InLog(wal', k, e)
  BY <1>1 DEF InLog, LogGrows
<1>2. ASSUME NEW p \in Page, LogCovers(wal, p) PROVE LogCovers(wal', p)
  BY <1>1, <1>2 DEF LogCovers, Page
<1>3. ASSUME NEW k \in Key, NEW v \in Nat, Deleted(wal, k, v) PROVE Deleted(wal', k, v)
  BY <1>3 DEF Deleted, LogGrows, Writes
<1>4. ASSUME NEW k \in Key, NEW v \in Nat, NEW e \in Entry, Fresh(wal, k, v, e)
      PROVE  Fresh(wal', k, v, e)
  BY <1>3, <1>4 DEF Fresh
<1> QED
  BY <1>2, <1>4

LEMMA RecordConcat ==
    ASSUME NEW s \in Seq(Record), NEW t \in Seq(Record)
    PROVE  /\ s \o t \in Seq(Record)
           /\ DOMAIN s = 1 .. Len(s) /\ DOMAIN t = 1 .. Len(t)
           /\ Len(s) \in Nat /\ Len(t) \in Nat
           /\ DOMAIN (s \o t) = 1 .. Len(s) + Len(t)
           /\ \A i \in DOMAIN s : i \in DOMAIN (s \o t) /\ (s \o t)[i] = s[i]
           /\ \A i \in DOMAIN t : Len(s) + i \in DOMAIN (s \o t) /\ (s \o t)[Len(s) + i] = t[i]
           /\ \A i \in DOMAIN (s \o t) :
                i \in DOMAIN s \/ \E j \in DOMAIN t : i = Len(s) + j
BY ConcatPartsOf

(***************************************************************************)
(* Appending numbered records keeps the log in order.                      *)
(***************************************************************************)
LEMMA LogExtended ==
    ASSUME TypeOK, LogInOrder, NEW recs \in Seq(Record),
           \A i \in DOMAIN recs : recs[i].ver = clock + i
    PROVE  LET all == wal \o recs
           IN  /\ \A i, j \in DOMAIN all : i < j => all[i].ver < all[j].ver
               /\ \A i \in DOMAIN all : all[i].ver >= 1 /\ all[i].ver <= clock + Len(recs)
               /\ \A i \in DOMAIN wal : i \in DOMAIN all /\ all[i] = wal[i]
               /\ \A i \in DOMAIN recs : Len(wal) + i \in DOMAIN all /\ all[Len(wal) + i] = recs[i]
<1> DEFINE all == wal \o recs
<1>1. wal \in Seq(Record) /\ clock \in Nat
  BY DEF TypeOK
<1>2. /\ DOMAIN wal = 1 .. Len(wal) /\ DOMAIN recs = 1 .. Len(recs)
      /\ Len(wal) \in Nat /\ Len(recs) \in Nat
      /\ DOMAIN all = 1 .. Len(wal) + Len(recs)
      /\ \A i \in DOMAIN wal : i \in DOMAIN all /\ all[i] = wal[i]
      /\ \A i \in DOMAIN recs : Len(wal) + i \in DOMAIN all /\ all[Len(wal) + i] = recs[i]
      /\ \A i \in DOMAIN all : i \in DOMAIN wal \/ \E j \in DOMAIN recs : i = Len(wal) + j
  BY <1>1, RecordConcat, Zenon
<1> HIDE DEF all
<1>3. \A i \in DOMAIN wal : wal[i].ver \in Nat
  <2>1. \A i \in DOMAIN wal : wal[i] \in Record
    BY <1>1, <1>2, ElementOfSeq
  <2> QED
    BY <2>1 DEF Record
<1>4. ASSUME NEW i \in DOMAIN all
      PROVE  \/ i \in DOMAIN wal /\ all[i].ver = wal[i].ver
             \/ \E a \in DOMAIN recs : i = Len(wal) + a /\ all[i].ver = clock + a
  BY <1>2
<1>5. ASSUME NEW i \in DOMAIN all
      PROVE  all[i].ver >= 1 /\ all[i].ver <= clock + Len(recs)
  BY <1>1, <1>2, <1>3, <1>4 DEF LogInOrder
<1>6. ASSUME NEW i \in DOMAIN all, NEW j \in DOMAIN all, i < j
      PROVE  all[i].ver < all[j].ver
  <2>1. CASE i \in DOMAIN wal /\ j \in DOMAIN wal
    BY <1>2, <1>6, <2>1 DEF LogInOrder
  <2>2. CASE i \in DOMAIN wal /\ j \notin DOMAIN wal
    <3>1. PICK b \in DOMAIN recs : j = Len(wal) + b /\ all[j].ver = clock + b
      BY <1>4, <2>2
    <3>2. wal[i].ver <= clock /\ b >= 1
      BY <1>2, <2>2 DEF LogInOrder
    <3> QED
      BY <1>1, <1>2, <1>3, <2>2, <3>1, <3>2
  <2>3. CASE i \notin DOMAIN wal
    <3>1. PICK a \in DOMAIN recs : i = Len(wal) + a /\ all[i].ver = clock + a
      BY <1>4, <2>3
    <3>2. j \notin DOMAIN wal
      BY <1>2, <1>6, <2>3
    <3>3. PICK b \in DOMAIN recs : j = Len(wal) + b /\ all[j].ver = clock + b
      BY <1>4, <3>2
    <3> QED
      BY <1>1, <1>2, <1>6, <3>1, <3>3
  <2> QED
    BY <2>1, <2>2, <2>3
<1> QED
  BY <1>2, <1>5, <1>6, SMTT(30) DEF all

(***************************************************************************)
(* The pages of the stack and of the files are no newer than the clock.    *)
(***************************************************************************)
LEMMA CoveredVersions ==
    ASSUME TypeOK, LogInOrder, NEW p \in Page, LogCovers(wal, p), NEW k \in Key, Has(p, k)
    PROVE  p[k].ver <= clock
BY DEF LogCovers, InLog, LogInOrder

-----------------------------------------------------------------------------
(***************************************************************************)
(* A stack s with the pages of w below m, and possibly an empty memtable   *)
(* on top.                                                                 *)
(***************************************************************************)
OnTop(s, w, m) == s = w \o << m >> \/ s = (w \o << m >>) \o << EmptyPage >>

LEMMA OnTopFacts ==
    ASSUME NEW w \in Seq(Page), NEW m \in Page, NEW s, OnTop(s, w, m)
    PROVE  /\ s \in Seq(Page)
           /\ Ascending(w) /\ (\A p \in PageSet(w) : Older(p, m)) => Ascending(s)
           /\ PageSet(s) \subseteq PageSet(w) \cup {m, EmptyPage}
           /\ \A k \in Key : LastEntry(s, k) = IF Has(m, k) THEN m[k] ELSE LastEntry(w, k)
<1> DEFINE t == w \o << m >>
<1>1. /\ t \in Seq(Page)
      /\ Ascending(t) <=> Ascending(w) /\ \A p \in PageSet(w) : Older(p, m)
      /\ PageSet(t) = PageSet(w) \cup {m}
      /\ \A k \in Key : LastEntry(t, k) = IF Has(m, k) THEN m[k] ELSE LastEntry(w, k)
  BY Top
<1>2. s = t \/ s = t \o << EmptyPage >>
  BY DEF OnTop
<1> HIDE DEF t
<1>3. CASE s = t
  BY <1>1, <1>3
<1>4. CASE s = t \o << EmptyPage >>
  <2>1. PageSet(t) \subseteq Page
    BY <1>1, PageSetType
  <2>2. /\ EmptyPage \in Page /\ \A p \in PageSet(t) : Older(p, EmptyPage)
        /\ \A k \in Key : ~Has(EmptyPage, k)
    BY <1>1, <2>1, EmptyTop
  <2>3. /\ s \in Seq(Page)
        /\ Ascending(s) <=> Ascending(t) /\ \A p \in PageSet(t) : Older(p, EmptyPage)
        /\ PageSet(s) = PageSet(t) \cup {EmptyPage}
        /\ \A k \in Key : LastEntry(s, k) = IF Has(EmptyPage, k) THEN EmptyPage[k] ELSE LastEntry(t, k)
    BY <1>1, <1>4, <2>2, Top
  <2> QED
    BY <1>1, <2>2, <2>3, SMTT(30)
<1> QED
  BY <1>2, <1>3, <1>4

LEMMA FlushStack ==
    ASSUME TypeOK, NEW m \in Page, flush_memtable(m), levels' = levels
    PROVE  OnTop(Stack', Base, m)
<1> DEFINE one == << m >>
<1>1. one \in Seq(Page) /\ queue \in Seq(Page) /\ Low(levels) \in Seq(Page)
  BY StackView, Singleton DEF TypeOK
<1>2. queue' = queue \o one /\ mem' = EmptyPage
  BY AppendIsConcat DEF flush_memtable, TypeOK
<1> HIDE DEF one
<1>3. Stack' = (Low(levels) \o (queue \o one)) \o << EmptyPage >>
  BY <1>2 DEF Stack, Low
<1>4. (Low(levels) \o queue) \o one = Low(levels) \o (queue \o one)
  BY <1>1, Assoc
<1> QED
  BY <1>3, <1>4 DEF OnTop, Base, one

LEMMA InsertStack ==
    ASSUME TypeOK, NEW m \in Page, levels' = levels,
           InsertThenFlush(m) \/ (mem' = m /\ UNCHANGED << frozen, queue >>)
    PROVE  OnTop(Stack', Base, m)
<1>1. CASE should_flush(m) /\ InsertThenFlush(m)
  BY <1>1, FlushStack DEF InsertThenFlush
<1>2. CASE mem' = m /\ queue' = queue
  BY <1>2 DEF OnTop, Stack, Base, Low
<1> QED
  BY <1>1, <1>2 DEF InsertThenFlush
=============================================================================
