----------------------------- MODULE Compaction -----------------------------
(***************************************************************************)
(* The page levels of the LSM tree (storage/compaction.rs, storage/page.rs)*)
(* as operators: what a page answers, how pages are merged, what adding a  *)
(* flushed page does to the three levels, and how a key is read from them. *)
(*                                                                         *)
(* The value of a write is abstracted to the identity of the write: an     *)
(* entry carries the number (ver) of the put or delete that made it, and   *)
(* whether it is a tombstone.  No code in these files compares values, so  *)
(* nothing is lost, and "older" and "newer" can be told apart exactly.  A  *)
(* page is a function from keys to entries; ver = 0 means that the page    *)
(* has no record of the key.  Sizes are counted in records, not in bytes.  *)
(***************************************************************************)
EXTENDS Integers, Sequences, FiniteSetsExt

CONSTANTS
    Key,            \* the keys the model uses
    L0_LIMIT,       \* pages in L0 that trigger a compaction (4 in the code)
    L1_SIZE_LIMIT   \* size above which L1 is promoted to L2

ASSUME LimitsAssumption ==
    /\ L0_LIMIT \in Nat \ {0}
    /\ L1_SIZE_LIMIT \in Nat

(***************************************************************************)
(* PageRecord, with the page's level and bloom filter left out: neither is *)
(* consulted by a read.                                                    *)
(***************************************************************************)
Entry == [ver : Nat, tombstone : BOOLEAN]

NoEntry == [ver |-> 0, tombstone |-> FALSE]

Page == [Key -> Entry]

EmptyPage == [k \in Key |-> NoEntry]

Has(page, k) == page[k].ver # 0

PageSize(page) == Cardinality({k \in Key : Has(page, k)})

(***************************************************************************)
(* The pages of a sequence that hold a record of k.                        *)
(***************************************************************************)
Holders(pages, k) == {i \in DOMAIN pages : Has(pages[i], k)}

(***************************************************************************)
(* merge_pages: the first page of the sequence that holds a key decides,   *)
(* whatever the age of the pages; tombstones are dropped on request.       *)
(***************************************************************************)
FirstEntry(pages, k) ==
    IF Holders(pages, k) = {} THEN NoEntry ELSE pages[Min(Holders(pages, k))][k]

merge_pages(pages, drop_tombstones) ==
    [k \in Key |->
        LET rec == FirstEntry(pages, k)
        IN  IF drop_tombstones /\ rec.tombstone THEN NoEntry ELSE rec]

(***************************************************************************)
(* compact_l1_to_l2: L1 before L2, tombstones dropped.                     *)
(***************************************************************************)
compact_l1_to_l2(lv) ==
    [lv EXCEPT ![1] = << >>,
               ![2] = << merge_pages(lv[1] \o lv[2], TRUE) >>]

(***************************************************************************)
(* compact_l0_to_l1: the L0 pages in the order they were flushed, then L1; *)
(* the result is promoted at once when it is too large.                    *)
(***************************************************************************)
\* Faulty: drops tombstones although L2 may hold older records.
compact_l0_to_l1Dropping(lv) ==
    LET merged == merge_pages(lv[0] \o lv[1], TRUE)
        next   == [lv EXCEPT ![0] = << >>, ![1] = << merged >>]
    IN  IF PageSize(merged) > L1_SIZE_LIMIT THEN compact_l1_to_l2(next) ELSE next

compact_l0_to_l1(lv) ==
    LET merged == merge_pages(lv[0] \o lv[1], FALSE)
        next   == [lv EXCEPT ![0] = << >>, ![1] = << merged >>]
    IN  IF PageSize(merged) > L1_SIZE_LIMIT THEN compact_l1_to_l2(next) ELSE next

\* Faulty: keeps L0 newest first.
add_l0_pageInFront(lv, page) ==
    LET next == [lv EXCEPT ![0] = << page >> \o @]
    IN  IF Len(next[0]) >= L0_LIMIT THEN compact_l0_to_l1(next) ELSE next

add_l0_page(lv, page) ==
    LET next == [lv EXCEPT ![0] = Append(@, page)]
    IN  IF Len(next[0]) >= L0_LIMIT THEN compact_l0_to_l1(next) ELSE next

(***************************************************************************)
(* CompactionManager::get searches L0, L1 and L2, each from its last page  *)
(* to its first, and stops at the first record, live or tombstone.         *)
(***************************************************************************)
LastEntry(pages, k) ==
    IF Holders(pages, k) = {} THEN NoEntry ELSE pages[Max(Holders(pages, k))][k]

\* Faulty: searches the levels from L2 to L0.
LevelsEntryOldest(lv, k) ==
    IF Holders(lv[2], k) # {} THEN LastEntry(lv[2], k)
    ELSE IF Holders(lv[1], k) # {} THEN LastEntry(lv[1], k)
    ELSE LastEntry(lv[0], k)

LevelsEntry(lv, k) ==
    IF Holders(lv[0], k) # {} THEN LastEntry(lv[0], k)
    ELSE IF Holders(lv[1], k) # {} THEN LastEntry(lv[1], k)
    ELSE LastEntry(lv[2], k)

(***************************************************************************)
(* The keys of which the L0 pages hold different records.  merge_pages     *)
(* keeps the one that was flushed first.                                   *)
(***************************************************************************)
Overlapping(pages) ==
    {k \in Key : \E i, j \in Holders(pages, k) : pages[i][k] # pages[j][k]}

(***************************************************************************)
(* A sequence of pages from the oldest to the newest.                      *)
(***************************************************************************)
Older(p, q) == \A k \in Key : Has(p, k) /\ Has(q, k) => p[k].ver <= q[k].ver

Ascending(pages) ==
    \A i, j \in DOMAIN pages : i < j => Older(pages[i], pages[j])
=============================================================================
