----------------------------- MODULE MvccProofs -----------------------------
(***************************************************************************)
(* The safety properties of the multi-version store, for every set of keys *)
(* and of transactions.                                                    *)
(***************************************************************************)
EXTENDS Mvcc, FiniteSetsExt, SequenceTheorems, FiniteSetTheorems, TLAPS

-----------------------------------------------------------------------------
(***************************************************************************)
(* The smallest element of a set of naturals, and its largest.             *)
(***************************************************************************)
LEMMA MinProperty ==
    ASSUME NEW T \in SUBSET Nat, T # {}
    PROVE  Min(T) \in T /\ \A j \in T : Min(T) <= j
<1>1. \E x \in T : \A y \in T : ~ (<<y, x>> \in OpToRel(<, Nat))
  BY NatLessThanWellFounded, WFMin
<1>2. PICK x \in T : \A y \in T : ~ (<<y, x>> \in OpToRel(<, Nat))
  BY <1>1
<1>3. \A y \in T : x <= y
  <2>1. SUFFICES ASSUME NEW y \in T PROVE x <= y
    OBVIOUS
  <2>2. ~(y < x)
    BY <1>2 DEF OpToRel
  <2> QED
    BY <2>2
<1> QED
  BY <1>3 DEF Min

LEMMA MaxIs ==
    ASSUME NEW S \in SUBSET Nat, NEW m \in S, \A n \in S : n <= m
    PROVE  Max(S) = m
<1>1. \A x \in S : (\A y \in S : x >= y) => x = m
  OBVIOUS
<1>2. \A y \in S : m >= y
  OBVIOUS
<1> QED
  BY <1>1, <1>2 DEF Max

-----------------------------------------------------------------------------
(***************************************************************************)
(* What the operations do to one chain.                                    *)
(***************************************************************************)
LEMMA ChainFacts ==
    ASSUME NEW chain \in Seq(Version)
    PROVE  /\ DOMAIN chain = 1 .. Len(chain) /\ Len(chain) \in Nat
           /\ \A i \in DOMAIN chain : chain[i] \in Version /\ chain[i].commit_ts \in Nat
           /\ Committed(chain) \in SUBSET DOMAIN chain
           /\ Committed(chain) \in SUBSET Nat
<1>1. DOMAIN chain = 1 .. Len(chain) /\ Len(chain) \in Nat
  BY LenProperties
<1>2. \A i \in DOMAIN chain : chain[i] \in Version
  BY <1>1, ElementOfSeq
<1> QED
  BY <1>1, <1>2 DEF Version, Committed

\* write_intent puts a version in front and moves the others back.
LEMMA Prepended ==
    ASSUME NEW chain \in Seq(Version), NEW v \in Version
    PROVE  /\ << v >> \o chain \in Seq(Version)
           /\ DOMAIN (<< v >> \o chain) = 1 .. Len(chain) + 1
           /\ (<< v >> \o chain)[1] = v
           /\ \A i \in 2 .. Len(chain) + 1 : i - 1 \in DOMAIN chain /\ (<< v >> \o chain)[i] = chain[i - 1]
<1>1. << v >> \in Seq(Version) /\ Len(<< v >>) = 1 /\ << v >>[1] = v
  OBVIOUS
<1>2. DOMAIN chain = 1 .. Len(chain) /\ Len(chain) \in Nat
  BY LenProperties
<1> DEFINE one == << v >>
           new == one \o chain
<1> HIDE DEF one
<1>3. /\ new \in Seq(Version) /\ Len(new) = 1 + Len(chain)
      /\ \A i \in 1 .. 1 + Len(chain) : new[i] = IF i <= 1 THEN one[i] ELSE chain[i - 1]
  BY <1>1, ConcatProperties DEF one
<1>4. DOMAIN new = 1 .. Len(chain) + 1
  BY <1>2, <1>3, LenProperties
<1>5. new[1] = one[1]
  BY <1>2, <1>3
<1> HIDE DEF new
<1>6. \A i \in 2 .. Len(chain) + 1 : i - 1 \in DOMAIN chain /\ new[i] = chain[i - 1]
  BY <1>2, <1>3
<1> QED
  BY <1>1, <1>3, <1>4, <1>5, <1>6 DEF new, one

\* commit_key stamps the first version and leaves the others alone.
LEMMA Stamped ==
    ASSUME NEW chain \in Seq(Version), chain # << >>, NEW c \in Nat
    PROVE  /\ [chain EXCEPT ![1].commit_ts = c] \in Seq(Version)
           /\ DOMAIN [chain EXCEPT ![1].commit_ts = c] = DOMAIN chain
           /\ 1 \in DOMAIN chain
           /\ [chain EXCEPT ![1].commit_ts = c][1] = [chain[1] EXCEPT !.commit_ts = c]
           /\ [chain EXCEPT ![1].commit_ts = c][1].commit_ts = c
           /\ \A i \in DOMAIN chain : i # 1 => [chain EXCEPT ![1].commit_ts = c][i] = chain[i]
<1>1. DOMAIN chain = 1 .. Len(chain) /\ Len(chain) \in Nat /\ Len(chain) # 0
  BY LenProperties, EmptySeq
<1>2. 1 \in 1 .. Len(chain) /\ chain[1] \in Version
  BY <1>1, ElementOfSeq
<1>3. [chain[1] EXCEPT !.commit_ts = c] \in Version
  BY <1>2 DEF Version
<1>4. [chain EXCEPT ![1] = [chain[1] EXCEPT !.commit_ts = c]] \in Seq(Version)
  BY <1>2, <1>3, ExceptSeq
<1> QED
  BY <1>1, <1>2, <1>4 DEF Version

\* gc cuts a chain behind a committed version that every snapshot includes.
LEMMA Collected ==
    ASSUME NEW chain \in Seq(Version), NEW oldest \in Nat
    PROVE  LET new == Collect(chain, oldest) IN
           /\ new \in Seq(Version)
           /\ DOMAIN new \in SUBSET DOMAIN chain
           /\ \A i \in DOMAIN new : new[i] = chain[i]
           /\ \A i \in DOMAIN chain \ DOMAIN new :
                \E e \in Committed(new) : e < i /\ new[e].commit_ts < oldest
<1> DEFINE E == Expendable(chain, oldest)
           new == Collect(chain, oldest)
<1>1. DOMAIN chain = 1 .. Len(chain) /\ Len(chain) \in Nat
  BY LenProperties
<1>2. CASE E = {}
  BY <1>2 DEF Collect
<1>3. CASE E # {}
  <2> DEFINE e == Min(E)
  <2>1. E \in SUBSET Nat
    BY ChainFacts DEF Expendable
  <2>2. e \in E
    BY <1>3, <2>1, MinProperty
  <2>3. new = SubSeq(chain, 1, e)
    BY <1>3 DEF Collect
  <2> HIDE DEF E
  <2>4. e \in 1 .. Len(chain) /\ chain[e].commit_ts # 0 /\ chain[e].commit_ts < oldest
    BY <1>1, <2>2 DEF Expendable, Committed, E
  <2> HIDE DEF e, new
  <2>5. \A i \in 1 .. e : chain[i] \in Version
    BY <1>1, <2>4, ChainFacts
  <2>6. new \in Seq(Version) /\ Len(new) = e /\ \A i \in 1 .. e : new[i] = chain[i]
    BY <2>3, <2>4, <2>5, SubSeqProperties
  <2>7. DOMAIN new = 1 .. e
    BY <2>6, LenProperties
  <2>8. e \in Committed(new)
    BY <2>4, <2>6, <2>7 DEF Committed
  <2>9. \A i \in DOMAIN chain \ DOMAIN new : e < i
    BY <1>1, <2>4, <2>7
  <2> QED
    BY <1>1, <2>4, <2>6, <2>7, <2>8, <2>9 DEF new
<1> QED
  BY <1>2, <1>3
-----------------------------------------------------------------------------
LEMMA TypeInit == Init => TypeOK
BY EmptySeq DEF Init, TypeOK, Isolation

LEMMA TypeNext == TypeOK /\ [Next]_vars => TypeOK'
<1> SUFFICES ASSUME TypeOK, [Next]_vars PROVE TypeOK'
  OBVIOUS
<1> USE DEF TypeOK
<1>1. ASSUME NEW t \in Txn, NEW level \in Isolation, begin(t, level) PROVE TypeOK'
  BY <1>1 DEF begin, history
<1>2. ASSUME NEW t \in Txn, NEW k \in Key, get(t, k) PROVE TypeOK'
  BY <1>2 DEF get, history
<1>3. ASSUME NEW t \in Txn, NEW k \in Key, put(t, k) PROVE TypeOK'
  BY <1>3 DEF put, history
<1>4. ASSUME NEW t \in Txn, abort(t) PROVE TypeOK'
  BY <1>4 DEF abort, history
<1>5. ASSUME NEW t \in Txn, commit(t) PROVE TypeOK'
  BY <1>5 DEF commit, Enter
<1>6. ASSUME NEW t \in Txn, NEW k \in Key, check(t, k) PROVE TypeOK'
  <2>1. \/ Enter(t, "failed", {})
        \/ Enter(t, "checking", todo[t] \ {k})
    BY <1>6 DEF check
  <2>2. UNCHANGED << chains, ts, isolation, snapshot, writes, reads, cts, stamps, earlier >>
    BY <1>6 DEF check, history
  <2>3. CASE Enter(t, "failed", {})
    BY <2>2, <2>3 DEF Enter
  <2>4. CASE Enter(t, "checking", todo[t] \ {k})
    BY <2>2, <2>4 DEF Enter
  <2> QED
    BY <2>1, <2>3, <2>4
<1>7. ASSUME NEW t \in Txn, checked(t) PROVE TypeOK'
  BY <1>7 DEF checked, Enter, history
<1>8. ASSUME NEW t \in Txn, NEW k \in Key, write_intent(t, k) PROVE TypeOK'
  <2>1. [txn_id |-> t, commit_ts |-> 0] \in Version
    BY DEF Version
  <2>2. << [txn_id |-> t, commit_ts |-> 0] >> \o chains[k] \in Seq(Version)
    BY <2>1, Prepended
  <2>3. chains' \in [Key -> Seq(Version)]
    BY <1>8, <2>2 DEF write_intent
  <2> QED
    BY <1>8, <2>3 DEF write_intent, Enter, history
<1>9. ASSUME NEW t \in Txn, next_ts(t) PROVE TypeOK'
  BY <1>9 DEF next_ts, Enter, history
<1>10. ASSUME NEW t \in Txn, NEW k \in Key, commit_key(t, k) PROVE TypeOK'
  <2> DEFINE new == [chains[k] EXCEPT ![1].commit_ts = cts[t]]
  <2>1. chains[k] # << >> => new \in Seq(Version)
    BY Stamped
  <2>2. \/ UNCHANGED << chains, stamps >>
        \/ /\ chains[k] # << >>
           /\ chains' = [chains EXCEPT ![k] = new]
           /\ stamps' = [stamps EXCEPT ![k] = @ \cup {cts[t]}]
    BY <1>10 DEF commit_key
  <2> HIDE DEF new
  <2>3. chains' \in [Key -> Seq(Version)] /\ stamps' \in [Key -> SUBSET Nat]
    <3>1. CASE UNCHANGED << chains, stamps >>
      BY <3>1
    <3>2. CASE /\ chains[k] # << >>
               /\ chains' = [chains EXCEPT ![k] = new]
               /\ stamps' = [stamps EXCEPT ![k] = @ \cup {cts[t]}]
      BY <2>1, <3>2
    <3> QED
      BY <2>2, <3>1, <3>2
  <2> QED
    BY <1>10, <2>3 DEF commit_key, Enter
<1>11. ASSUME NEW t \in Txn, committed(t) PROVE TypeOK'
  BY <1>11 DEF committed, history
<1>12. ASSUME NEW oldest \in 0 .. ts, gc(oldest) PROVE TypeOK'
  <2>1. oldest \in Nat
    OBVIOUS
  <2>2. \A k \in Key : Collect(chains[k], oldest) \in Seq(Version)
    BY <2>1, Collected
  <2> QED
    BY <1>12, <2>2 DEF gc, txnVars, history
<1>13. CASE UNCHANGED vars
  BY <1>13 DEF vars, txnVars, history
<1> QED
  BY <1>1, <1>2, <1>3, <1>4, <1>5, <1>6, <1>7, <1>8, <1>9, <1>10, <1>11, <1>12, <1>13 DEF Next, Step

(***************************************************************************)
(* The variables of the multi-version store keep their types.              *)
(***************************************************************************)
THEOREM MvccTypeCorrect == Spec => []TypeOK
BY TypeInit, TypeNext, PTL DEF Spec
-----------------------------------------------------------------------------
(***************************************************************************)
(* The inductive invariant.                                                *)
(*                                                                         *)
(* Drawn: timestamps come from the counter, and no two commits share one.  *)
(***************************************************************************)
Drawn ==
    /\ \A k \in Key : \A i \in DOMAIN chains[k] : chains[k][i].commit_ts <= ts
    /\ \A t \in Txn : cts[t] <= ts /\ snapshot[t] <= ts
    /\ \A t \in Txn : pc[t] = "stamping" => cts[t] # 0
    /\ \A t, u \in Txn : t # u /\ cts[t] # 0 => cts[t] # cts[u]

(***************************************************************************)
(* IntentsLate: the timestamp that a transaction is about to put on its    *)
(* intent is later than every one behind the intent.  A version is stamped *)
(* while it is the head; so what is behind an intent had its timestamp     *)
(* when the intent was installed, and the timestamp was drawn after that.  *)
(***************************************************************************)
IntentsLate ==
    \A k \in Key : \A i, j \in DOMAIN chains[k] :
        /\ i < j
        /\ chains[k][i].commit_ts = 0
        /\ pc[chains[k][i].txn_id] = "stamping"
        => chains[k][j].commit_ts < cts[chains[k][i].txn_id]

(***************************************************************************)
(* Kept: a version that was ever stamped is still in its chain, or a later *)
(* one is that every active snapshot includes.                             *)
(***************************************************************************)
Replaces(d, c) == d = c \/ (c < d /\ \A t \in Active : d <= snapshot[t])

Kept ==
    \A k \in Key :
        /\ \A i \in Committed(chains[k]) : chains[k][i].commit_ts \in stamps[k]
        /\ \A c \in stamps[k] : /\ c # 0 /\ c <= ts
                                /\ \E i \in Committed(chains[k]) : Replaces(chains[k][i].commit_ts, c)

(***************************************************************************)
(* ChecksHeld: what FinishedCommitsRespected says at the end of the check, *)
(* the check has established for the keys it has visited.                  *)
(***************************************************************************)
Phases == {"checking", "installing", "stamping", "done"}

Visited(t) == IF pc[t] = "checking" THEN reads[t] \ todo[t] ELSE reads[t]

ChecksHeld ==
    /\ \A t \in Txn : \A u \in earlier[t] : pc[u] = "done"
    /\ \A t \in Txn :
        isolation[t] = "Serializable" /\ pc[t] \in Phases =>
            \A u \in earlier[t], k \in Visited(t) : cts[u] \in stamps[k] => cts[u] <= snapshot[t]

Inv == TypeOK /\ Drawn /\ ChainsInOrder /\ IntentsLate /\ Kept /\ ChecksHeld

-----------------------------------------------------------------------------
(***************************************************************************)
(* The steps, seen from the chains.  Most leave them and the timestamps    *)
(* alone.                                                                  *)
(***************************************************************************)
Quiet(t) ==
    \/ \E level \in Isolation : begin(t, level)
    \/ \E k \in Key : get(t, k) \/ put(t, k) \/ check(t, k)
    \/ abort(t) \/ commit(t) \/ checked(t) \/ committed(t)

Undisturbed ==
    /\ UNCHANGED << chains, ts, cts, stamps >>
    /\ \A u \in Txn : /\ pc'[u] = "stamping" => pc[u] = "stamping"
                      /\ pc[u] = "done" => pc'[u] = "done"
                      /\ snapshot'[u] = snapshot[u] \/ snapshot'[u] = ts
    /\ \A u \in Active' : (u \in Active /\ snapshot'[u] = snapshot[u]) \/ snapshot'[u] = ts

LEMMA QuietStep ==
    ASSUME TypeOK, NEW t \in Txn, Quiet(t)
    PROVE  Undisturbed
<1> USE DEF TypeOK, Active, Undisturbed
<1>1. ASSUME NEW level \in Isolation, begin(t, level) PROVE Undisturbed
  BY <1>1 DEF begin, history
<1>2. ASSUME NEW k \in Key, get(t, k) \/ put(t, k) PROVE Undisturbed
  BY <1>2 DEF get, put, history
<1>3. ASSUME NEW k \in Key, check(t, k) PROVE Undisturbed
  <2>1. \/ Enter(t, "failed", {})
        \/ Enter(t, "checking", todo[t] \ {k})
    BY <1>3 DEF check
  <2>2. UNCHANGED << chains, ts, isolation, snapshot, writes, reads, cts, stamps, earlier >>
    BY <1>3 DEF check, history
  <2>3. CASE Enter(t, "failed", {})
    BY <1>3, <2>2, <2>3 DEF Enter, check
  <2>4. CASE Enter(t, "checking", todo[t] \ {k})
    BY <1>3, <2>2, <2>4 DEF Enter, check
  <2> QED
    BY <2>1, <2>3, <2>4
<1>4. CASE abort(t)
  BY <1>4 DEF abort, history
<1>5. CASE commit(t)
  BY <1>5 DEF commit, Enter
<1>6. CASE checked(t)
  BY <1>6 DEF checked, Enter, history
<1>7. CASE committed(t)
  BY <1>7 DEF committed, history
<1> QED
  BY <1>1, <1>2, <1>3, <1>4, <1>5, <1>6, <1>7 DEF Quiet

\* commit_key stamps the head of the chain, or leaves all chains alone.
StampsHead(t, k) ==
    /\ 1 \in DOMAIN chains[k]
    /\ chains[k][1] = [txn_id |-> t, commit_ts |-> 0]
    /\ stamps' = [stamps EXCEPT ![k] = @ \cup {cts[t]}]
    /\ \A q \in Key : /\ q # k => chains'[q] = chains[q]
                      /\ DOMAIN chains'[q] = DOMAIN chains[q]
    /\ chains'[k][1].commit_ts = cts[t]
    /\ \A i \in DOMAIN chains[k] : i # 1 => chains'[k][i] = chains[k][i]

LEMMA StampStep ==
    ASSUME TypeOK, NEW t \in Txn, NEW k \in Key, commit_key(t, k)
    PROVE  /\ UNCHANGED << chains, stamps >> \/ StampsHead(t, k)
           /\ UNCHANGED << ts, pc, isolation, snapshot, writes, reads, cts, earlier >>
           /\ pc[t] = "stamping"
<1> USE DEF TypeOK
<1> DEFINE new == [chains[k] EXCEPT ![1].commit_ts = cts[t]]
<1>1. \/ UNCHANGED << chains, stamps >>
      \/ /\ chains[k] # << >>
         /\ Head(chains[k]) = [txn_id |-> t, commit_ts |-> 0]
         /\ chains' = [chains EXCEPT ![k] = new]
         /\ stamps' = [stamps EXCEPT ![k] = @ \cup {cts[t]}]
  BY DEF commit_key
<1>2. UNCHANGED << ts, pc, isolation, snapshot, writes, reads, cts, earlier >> /\ pc[t] = "stamping"
  BY DEF commit_key, Enter
<1>3. CASE /\ chains[k] # << >>
           /\ Head(chains[k]) = [txn_id |-> t, commit_ts |-> 0]
           /\ chains' = [chains EXCEPT ![k] = new]
           /\ stamps' = [stamps EXCEPT ![k] = @ \cup {cts[t]}]
  <2>1. /\ DOMAIN new = DOMAIN chains[k] /\ 1 \in DOMAIN chains[k]
        /\ new[1].commit_ts = cts[t]
        /\ \A i \in DOMAIN chains[k] : i # 1 => new[i] = chains[k][i]
    BY <1>3, Stamped
  <2>2. Head(chains[k]) = chains[k][1]
    BY <1>3
  <2> HIDE DEF new
  <2> QED
    BY <1>2, <1>3, <2>1, <2>2 DEF StampsHead
<1> QED
  BY <1>1, <1>2, <1>3
\* write_intent puts an intent in front.
PutsInFront(t, k) ==
    /\ \A q \in Key : q # k => chains'[q] = chains[q]
    /\ DOMAIN chains[k] = 1 .. Len(chains[k]) /\ Len(chains[k]) \in Nat
    /\ DOMAIN chains'[k] = 1 .. Len(chains[k]) + 1
    /\ chains'[k][1] = [txn_id |-> t, commit_ts |-> 0]
    /\ \A i \in 2 .. Len(chains[k]) + 1 : i - 1 \in DOMAIN chains[k] /\ chains'[k][i] = chains[k][i - 1]

LEMMA IntentStep ==
    ASSUME TypeOK, NEW t \in Txn, NEW k \in Key, write_intent(t, k)
    PROVE  /\ PutsInFront(t, k)
           /\ UNCHANGED << ts, pc, isolation, snapshot, writes, reads, cts, stamps, earlier >>
           /\ pc[t] = "installing"
<1> USE DEF TypeOK
<1> DEFINE v == [txn_id |-> t, commit_ts |-> 0]
           new == << v >> \o chains[k]
<1>1. v \in Version
  BY DEF Version
<1>2. /\ DOMAIN new = 1 .. Len(chains[k]) + 1 /\ new[1] = v
      /\ \A i \in 2 .. Len(chains[k]) + 1 : i - 1 \in DOMAIN chains[k] /\ new[i] = chains[k][i - 1]
  BY <1>1, Prepended
<1>3. chains' = [chains EXCEPT ![k] = new]
  BY DEF write_intent
<1>4. UNCHANGED << ts, pc, isolation, snapshot, writes, reads, cts, stamps, earlier >> /\ pc[t] = "installing"
  BY DEF write_intent, Enter, history
<1>5. DOMAIN chains[k] = 1 .. Len(chains[k]) /\ Len(chains[k]) \in Nat
  BY ChainFacts
<1> HIDE DEF new
<1>6. chains'[k] = new /\ \A q \in Key : q # k => chains'[q] = chains[q]
  BY <1>3
<1> QED
  BY <1>2, <1>4, <1>5, <1>6 DEF PutsInFront

\* gc leaves a prefix of every chain.
LEMMA GcStep ==
    ASSUME TypeOK, NEW oldest \in 0 .. ts, gc(oldest)
    PROVE  /\ \A q \in Key :
                /\ DOMAIN chains'[q] \in SUBSET DOMAIN chains[q]
                /\ \A i \in DOMAIN chains'[q] : chains'[q][i] = chains[q][i]
                /\ \A i \in DOMAIN chains[q] \ DOMAIN chains'[q] :
                     \E e \in Committed(chains'[q]) : e < i /\ chains'[q][e].commit_ts < oldest
           /\ \A t \in Active : oldest <= snapshot[t]
           /\ UNCHANGED << ts, pc, isolation, snapshot, writes, reads, todo, cts, stamps, earlier >>
<1> USE DEF TypeOK
<1>1. oldest \in Nat
  OBVIOUS
<1>2. \A q \in Key : chains'[q] = Collect(chains[q], oldest)
  BY DEF gc
<1>3. \A t \in Active : oldest <= snapshot[t]
  BY DEF gc
<1>4. UNCHANGED << ts, pc, isolation, snapshot, writes, reads, todo, cts, stamps, earlier >>
  BY DEF gc, txnVars, history
<1>5. ASSUME NEW q \in Key
      PROVE  /\ DOMAIN chains'[q] \in SUBSET DOMAIN chains[q]
             /\ \A i \in DOMAIN chains'[q] : chains'[q][i] = chains[q][i]
             /\ \A i \in DOMAIN chains[q] \ DOMAIN chains'[q] :
                  \E e \in Committed(chains'[q]) : e < i /\ chains'[q][e].commit_ts < oldest
  <2> DEFINE new == Collect(chains[q], oldest)
  <2>1. chains[q] \in Seq(Version)
    OBVIOUS
  <2>2. /\ DOMAIN new \in SUBSET DOMAIN chains[q]
        /\ \A i \in DOMAIN new : new[i] = chains[q][i]
        /\ \A i \in DOMAIN chains[q] \ DOMAIN new :
             \E e \in Committed(new) : e < i /\ new[e].commit_ts < oldest
    BY <1>1, <2>1, Collected
  <2>3. chains'[q] = new
    BY <1>2
  <2> HIDE DEF new
  <2> QED
    BY <2>2, <2>3
<1> QED
  BY <1>3, <1>4, <1>5

-----------------------------------------------------------------------------
LEMMA DrawnInv == Inv /\ [Next]_vars => Drawn'
<1> SUFFICES ASSUME Inv, [Next]_vars PROVE Drawn'
  OBVIOUS
<1>0. TypeOK /\ Drawn
  BY DEF Inv
<1>a. \A k \in Key : \A i \in DOMAIN chains[k] : chains[k][i].commit_ts \in Nat
  BY <1>0, ChainFacts DEF TypeOK
<1>1. ASSUME NEW t \in Txn, Quiet(t) PROVE Drawn'
  <2>1. Undisturbed
    BY <1>0, <1>1, QuietStep
  <2> QED
    BY <1>0, <2>1 DEF Undisturbed, Drawn, TypeOK
<1>2. ASSUME NEW t \in Txn, NEW k \in Key, write_intent(t, k) PROVE Drawn'
  <2>0. PutsInFront(t, k) /\ ts \in Nat
    BY <1>0, <1>2, IntentStep DEF TypeOK
  <2>1. \A q \in Key : \A i \in DOMAIN chains'[q] : chains'[q][i].commit_ts <= ts
    <3> TAKE q \in Key
    <3> TAKE i \in DOMAIN chains'[q]
    <3>1. CASE q # k
      BY <1>0, <2>0, <3>1 DEF Drawn, PutsInFront
    <3>2. CASE q = k /\ i = 1
      BY <2>0, <3>2 DEF PutsInFront
    <3>3. CASE q = k /\ i # 1
      <4>1. i \in 2 .. Len(chains[k]) + 1
        BY <2>0, <3>3 DEF PutsInFront
      <4> QED
        BY <1>0, <2>0, <3>3, <4>1 DEF Drawn, PutsInFront
    <3> QED
      BY <3>1, <3>2, <3>3
  <2>2. UNCHANGED << ts, pc, snapshot, cts >>
    BY <1>0, <1>2, IntentStep
  <2> QED
    BY <1>0, <2>1, <2>2 DEF Drawn
<1>3. ASSUME NEW t \in Txn, next_ts(t) PROVE Drawn'
  <2>1. UNCHANGED << chains, snapshot >> /\ ts' = ts + 1 /\ ts \in Nat
        /\ cts' = [cts EXCEPT ![t] = ts + 1] /\ pc' = [pc EXCEPT ![t] = "stamping"]
    BY <1>0, <1>3 DEF next_ts, Enter, TypeOK
  <2> QED
    BY <1>0, <1>a, <2>1 DEF Drawn, TypeOK
<1>4. ASSUME NEW t \in Txn, NEW k \in Key, commit_key(t, k) PROVE Drawn'
  <2>1. UNCHANGED << ts, pc, snapshot, cts >>
    BY <1>0, <1>4, StampStep
  <2>2. CASE UNCHANGED << chains, stamps >>
    BY <1>0, <2>1, <2>2 DEF Drawn
  <2>3. CASE StampsHead(t, k)
    <3>1. \A q \in Key : \A i \in DOMAIN chains'[q] : chains'[q][i].commit_ts <= ts
      BY <1>0, <2>3 DEF StampsHead, Drawn
    <3> QED
      BY <1>0, <2>1, <3>1 DEF Drawn
  <2> QED
    BY <1>0, <1>4, <2>2, <2>3, StampStep
<1>5. ASSUME NEW oldest \in 0 .. ts, gc(oldest) PROVE Drawn'
  <2>1. UNCHANGED << ts, pc, snapshot, cts >>
    BY <1>0, <1>5, GcStep
  <2>2. \A q \in Key : \A i \in DOMAIN chains'[q] : i \in DOMAIN chains[q] /\ chains'[q][i] = chains[q][i]
    BY <1>0, <1>5, GcStep
  <2> QED
    BY <1>0, <2>1, <2>2 DEF Drawn
<1>6. CASE UNCHANGED vars
  BY <1>0, <1>6 DEF Drawn, vars, txnVars
<1> QED
  BY <1>1, <1>2, <1>3, <1>4, <1>5, <1>6 DEF Next, Step, Quiet

LEMMA OrderInv == Inv /\ [Next]_vars => ChainsInOrder' /\ IntentsLate'
<1> SUFFICES ASSUME Inv, [Next]_vars PROVE ChainsInOrder' /\ IntentsLate'
  OBVIOUS
<1>0. TypeOK /\ Drawn /\ ChainsInOrder /\ IntentsLate
  BY DEF Inv
<1>a. \A k \in Key : /\ DOMAIN chains[k] \in SUBSET Nat
                     /\ \A i \in DOMAIN chains[k] : chains[k][i].commit_ts \in Nat /\ chains[k][i].txn_id \in Txn
  <2>1. SUFFICES ASSUME NEW k \in Key
                 PROVE  /\ DOMAIN chains[k] \in SUBSET Nat
                        /\ \A i \in DOMAIN chains[k] : /\ chains[k][i].commit_ts \in Nat
                                                     /\ chains[k][i].txn_id \in Txn
    OBVIOUS
  <2>2. chains[k] \in Seq(Version)
    BY <1>0 DEF TypeOK
  <2>3. /\ DOMAIN chains[k] = 1 .. Len(chains[k]) /\ Len(chains[k]) \in Nat
        /\ \A i \in DOMAIN chains[k] : chains[k][i] \in Version
    BY <2>2, ChainFacts
  <2> QED
    BY <2>3 DEF Version
<1>1. ASSUME NEW t \in Txn, Quiet(t) PROVE ChainsInOrder' /\ IntentsLate'
  <2>1. Undisturbed
    BY <1>0, <1>1, QuietStep
  <2>2. ChainsInOrder'
    BY <1>0, <2>1 DEF Undisturbed, ChainsInOrder
  <2>3. IntentsLate'
    BY <1>0, <1>a, <2>1 DEF Undisturbed, IntentsLate
  <2> QED
    BY <2>2, <2>3
<1>2. ASSUME NEW t \in Txn, NEW k \in Key, write_intent(t, k) PROVE ChainsInOrder' /\ IntentsLate'
  <2>0. PutsInFront(t, k) /\ UNCHANGED << pc, cts >> /\ pc[t] = "installing"
    BY <1>0, <1>2, IntentStep
  <2>1. ASSUME NEW q \in Key, NEW i \in DOMAIN chains'[q], NEW j \in DOMAIN chains'[q], i < j, q # k \/ i # 1
        PROVE  \E a, b \in DOMAIN chains[q] : a < b /\ chains'[q][i] = chains[q][a] /\ chains'[q][j] = chains[q][b]
    <3>1. CASE q # k
      BY <2>0, <2>1, <3>1 DEF PutsInFront
    <3>2. CASE q = k /\ i # 1
      <4>1. i \in 2 .. Len(chains[k]) + 1 /\ j \in 2 .. Len(chains[k]) + 1
        BY <2>0, <2>1, <3>2 DEF PutsInFront
      <4>2. i - 1 \in DOMAIN chains[k] /\ j - 1 \in DOMAIN chains[k] /\ i - 1 < j - 1
        BY <2>0, <2>1, <4>1 DEF PutsInFront
      <4>3. chains'[k][i] = chains[k][i - 1] /\ chains'[k][j] = chains[k][j - 1]
        BY <2>0, <4>1 DEF PutsInFront
      <4> QED
        BY <3>2, <4>2, <4>3
    <3> QED
      BY <2>1, <3>1, <3>2
  <2>2. chains'[k][1].commit_ts = 0 /\ chains'[k][1].txn_id = t
    BY <2>0 DEF PutsInFront
  <2>3. ChainsInOrder'
    BY <1>0, <2>1, <2>2 DEF ChainsInOrder, Committed
  <2>4. IntentsLate'
    <3> SUFFICES ASSUME NEW q \in Key, NEW i \in DOMAIN chains'[q], NEW j \in DOMAIN chains'[q], i < j,
                        chains'[q][i].commit_ts = 0, pc[chains'[q][i].txn_id] = "stamping"
                 PROVE  chains'[q][j].commit_ts < cts[chains'[q][i].txn_id]
      BY <2>0 DEF IntentsLate
    <3>1. q # k \/ i # 1
      BY <2>0, <2>2
    <3> QED
      BY <1>0, <2>1, <3>1 DEF IntentsLate
  <2> QED
    BY <2>3, <2>4
<1>3. ASSUME NEW t \in Txn, next_ts(t) PROVE ChainsInOrder' /\ IntentsLate'
  <2>1. UNCHANGED chains /\ ts' = ts + 1 /\ ts \in Nat
        /\ cts' = [cts EXCEPT ![t] = ts + 1] /\ pc' = [pc EXCEPT ![t] = "stamping"]
    BY <1>0, <1>3 DEF next_ts, Enter, TypeOK
  <2>2. ChainsInOrder'
    BY <1>0, <2>1 DEF ChainsInOrder
  <2>3. IntentsLate'
    <3> SUFFICES ASSUME NEW q \in Key, NEW i \in DOMAIN chains[q], NEW j \in DOMAIN chains[q], i < j,
                        chains[q][i].commit_ts = 0, pc'[chains[q][i].txn_id] = "stamping"
                 PROVE  chains[q][j].commit_ts < cts'[chains[q][i].txn_id]
      BY <2>1 DEF IntentsLate
    <3>1. CASE chains[q][i].txn_id = t
      <4>1. chains[q][j].commit_ts <= ts /\ chains[q][j].commit_ts \in Nat
        BY <1>0, <1>a DEF Drawn
      <4>2. cts'[t] = ts + 1
        BY <1>0, <2>1 DEF TypeOK
      <4> QED
        BY <2>1, <3>1, <4>1, <4>2
    <3>2. CASE chains[q][i].txn_id # t
      <4>1. chains[q][i].txn_id \in Txn
        BY <1>a
      <4>2. pc[chains[q][i].txn_id] = "stamping" /\ cts'[chains[q][i].txn_id] = cts[chains[q][i].txn_id]
        BY <1>0, <2>1, <3>2, <4>1 DEF TypeOK
      <4> QED
        BY <1>0, <4>2 DEF IntentsLate
    <3> QED
      BY <3>1, <3>2
  <2> QED
    BY <2>2, <2>3
<1>4. ASSUME NEW t \in Txn, NEW k \in Key, commit_key(t, k) PROVE ChainsInOrder' /\ IntentsLate'
  <2>1. UNCHANGED << pc, cts >> /\ pc[t] = "stamping"
    BY <1>0, <1>4, StampStep
  <2>2. CASE UNCHANGED << chains, stamps >>
    BY <1>0, <2>1, <2>2 DEF ChainsInOrder, IntentsLate
  <2>3. CASE StampsHead(t, k)
    <3>1. cts[t] # 0 /\ cts[t] \in Nat
      BY <1>0, <2>1 DEF Drawn, TypeOK
    <3>2. \A j \in DOMAIN chains[k] : 1 < j => chains[k][j].commit_ts < cts[t]
      BY <1>0, <2>1, <2>3 DEF StampsHead, IntentsLate
    <3>3. ChainsInOrder'
      <4> SUFFICES ASSUME NEW q \in Key, NEW i \in DOMAIN chains'[q], NEW j \in DOMAIN chains'[q], i < j,
                          chains'[q][i].commit_ts # 0, chains'[q][j].commit_ts # 0
                   PROVE  chains'[q][i].commit_ts > chains'[q][j].commit_ts
        BY DEF ChainsInOrder, Committed
      <4>0. DOMAIN chains'[q] = DOMAIN chains[q] /\ i \in Nat /\ j \in Nat /\ j # 1
        <5>1. DOMAIN chains'[q] = DOMAIN chains[q]
          BY <2>3 DEF StampsHead
        <5>2. DOMAIN chains[q] = 1 .. Len(chains[q]) /\ Len(chains[q]) \in Nat
          BY <1>0, ChainFacts DEF TypeOK
        <5> QED
          BY <5>1, <5>2
      <4>1. CASE q # k
        BY <1>0, <2>3, <4>0, <4>1 DEF StampsHead, ChainsInOrder, Committed
      <4>2. CASE q = k /\ i = 1
        <5>1. chains'[q][i].commit_ts = cts[t] /\ chains'[q][j] = chains[q][j]
          BY <2>3, <4>0, <4>2 DEF StampsHead
        <5>2. chains[q][j].commit_ts < cts[t] /\ chains[q][j].commit_ts \in Nat
          BY <1>a, <3>2, <4>0, <4>2
        <5> QED
          BY <3>1, <5>1, <5>2
      <4>3. CASE q = k /\ i # 1
        <5>1. chains'[q][i] = chains[q][i] /\ chains'[q][j] = chains[q][j]
          BY <2>3, <4>0, <4>3 DEF StampsHead
        <5> QED
          BY <1>0, <4>0, <5>1 DEF ChainsInOrder, Committed
      <4> QED
        BY <4>1, <4>2, <4>3
    <3>4. IntentsLate'
      <4> SUFFICES ASSUME NEW q \in Key, NEW i \in DOMAIN chains'[q], NEW j \in DOMAIN chains'[q], i < j,
                          chains'[q][i].commit_ts = 0, pc[chains'[q][i].txn_id] = "stamping"
                   PROVE  chains'[q][j].commit_ts < cts[chains'[q][i].txn_id]
        BY <2>1 DEF IntentsLate
      <4>1. DOMAIN chains'[q] = DOMAIN chains[q]
        BY <2>3 DEF StampsHead
      <4>2. DOMAIN chains[q] = 1 .. Len(chains[q]) /\ Len(chains[q]) \in Nat
        BY <1>0, ChainFacts DEF TypeOK
      <4>3. q # k \/ (i # 1 /\ j # 1)
        BY <2>3, <3>1, <4>1, <4>2 DEF StampsHead
      <4>4. chains'[q][i] = chains[q][i] /\ chains'[q][j] = chains[q][j]
        BY <2>3, <4>1, <4>3 DEF StampsHead
      <4> QED
        BY <1>0, <4>1, <4>4 DEF IntentsLate
    <3> QED
      BY <3>3, <3>4
  <2> QED
    BY <1>0, <1>4, <2>2, <2>3, StampStep
<1>5. ASSUME NEW oldest \in 0 .. ts, gc(oldest) PROVE ChainsInOrder' /\ IntentsLate'
  <2>1. UNCHANGED << pc, cts >>
    BY <1>0, <1>5, GcStep
  <2>2. \A q \in Key : \A i \in DOMAIN chains'[q] : i \in DOMAIN chains[q] /\ chains'[q][i] = chains[q][i]
    BY <1>0, <1>5, GcStep
  <2>3. ChainsInOrder'
    BY <1>0, <2>2 DEF ChainsInOrder, Committed
  <2>4. IntentsLate'
    BY <1>0, <2>1, <2>2 DEF IntentsLate
  <2> QED
    BY <2>3, <2>4
<1>6. CASE UNCHANGED vars
  BY <1>0, <1>6 DEF ChainsInOrder, IntentsLate, vars, txnVars
<1> QED
  BY <1>1, <1>2, <1>3, <1>4, <1>5, <1>6 DEF Next, Step, Quiet

LEMMA KeptInv == Inv /\ [Next]_vars => Kept'
<1> SUFFICES ASSUME Inv, [Next]_vars PROVE Kept'
  OBVIOUS
<1>0. TypeOK /\ Drawn /\ ChainsInOrder /\ Kept
  BY DEF Inv
<1>a. \A k \in Key : \A i \in DOMAIN chains[k] : chains[k][i].commit_ts \in Nat /\ chains[k][i].commit_ts <= ts
  BY <1>0, ChainFacts DEF TypeOK, Drawn
<1>b. \A k \in Key : \A c \in stamps[k] : c \in Nat
  BY <1>0 DEF TypeOK
\* A step that stamps and drops nothing.
<1>d. ASSUME UNCHANGED stamps, ts \in Nat, ts' \in Nat, ts <= ts',
             \A u \in Active' : (u \in Active /\ snapshot'[u] = snapshot[u]) \/ snapshot'[u] = ts,
             \A k \in Key : \A i \in Committed(chains[k]) :
                \E j \in Committed(chains'[k]) : chains'[k][j].commit_ts = chains[k][i].commit_ts,
             \A k \in Key : \A j \in Committed(chains'[k]) :
                \E i \in Committed(chains[k]) : chains'[k][j].commit_ts = chains[k][i].commit_ts
      PROVE  Kept'
  <2> SUFFICES ASSUME NEW k \in Key
               PROVE  /\ \A j \in Committed(chains'[k]) : chains'[k][j].commit_ts \in stamps[k]
                      /\ \A c \in stamps[k] :
                           c # 0 /\ c <= ts' /\ \E j \in Committed(chains'[k]) : Replaces(chains[k][j].commit_ts, c)'
    BY <1>d DEF Kept
  <2>1. \A j \in Committed(chains'[k]) : chains'[k][j].commit_ts \in stamps[k]
    BY <1>0, <1>d DEF Kept
  <2>2. ASSUME NEW c \in stamps[k]
        PROVE  c # 0 /\ c <= ts' /\ \E j \in Committed(chains'[k]) : Replaces(chains[k][j].commit_ts, c)'
    <3>1. c \in Nat /\ c # 0 /\ c <= ts
      BY <1>0, <1>b DEF Kept
    <3>2. PICK i \in Committed(chains[k]) : Replaces(chains[k][i].commit_ts, c)
      BY <1>0 DEF Kept
    <3>3. PICK j \in Committed(chains'[k]) : chains'[k][j].commit_ts = chains[k][i].commit_ts
      BY <1>d
    <3>4. chains[k][i].commit_ts \in Nat /\ chains[k][i].commit_ts <= ts
      BY <1>a DEF Committed
    <3>5. Replaces(chains[k][j].commit_ts, c)'
      BY <1>d, <3>1, <3>2, <3>3, <3>4 DEF Replaces
    <3> QED
      BY <1>d, <3>1, <3>5
  <2> QED
    BY <2>1, <2>2
<1>1. ASSUME NEW t \in Txn, Quiet(t) PROVE Kept'
  <2>1. Undisturbed /\ ts \in Nat
    BY <1>0, <1>1, QuietStep DEF TypeOK
  <2> QED
    BY <1>d, <2>1 DEF Undisturbed
<1>2. ASSUME NEW t \in Txn, NEW k \in Key, write_intent(t, k) PROVE Kept'
  <2>1. PutsInFront(t, k) /\ UNCHANGED << ts, pc, snapshot, stamps >> /\ ts \in Nat
    BY <1>0, <1>2, IntentStep DEF TypeOK
  <2>2. ASSUME NEW q \in Key, NEW i \in Committed(chains[q])
        PROVE  \E j \in Committed(chains'[q]) : chains'[q][j].commit_ts = chains[q][i].commit_ts
    <3>1. CASE q # k
      BY <2>1, <2>2, <3>1 DEF PutsInFront
    <3>2. CASE q = k
      <4>1. i \in 1 .. Len(chains[k]) /\ Len(chains[k]) \in Nat /\ chains[k][i].commit_ts # 0
        BY <2>1, <2>2, <3>2 DEF PutsInFront, Committed
      <4>2. i + 1 \in 2 .. Len(chains[k]) + 1 /\ (i + 1) - 1 = i
        BY <4>1
      <4>3. chains'[k][i + 1] = chains[k][i]
        BY <2>1, <4>2 DEF PutsInFront
      <4>4. i + 1 \in DOMAIN chains'[k]
        BY <2>1, <4>2 DEF PutsInFront
      <4> QED
        BY <3>2, <4>1, <4>3, <4>4 DEF Committed
    <3> QED
      BY <3>1, <3>2
  <2>3. ASSUME NEW q \in Key, NEW j \in Committed(chains'[q])
        PROVE  \E i \in Committed(chains[q]) : chains'[q][j].commit_ts = chains[q][i].commit_ts
    <3>1. CASE q # k
      BY <2>1, <2>3, <3>1 DEF PutsInFront
    <3>2. CASE q = k
      <4>1. j \in 2 .. Len(chains[k]) + 1 /\ chains'[k][j].commit_ts # 0
        BY <2>1, <2>3, <3>2 DEF PutsInFront, Committed
      <4>2. chains'[k][j] = chains[k][j - 1] /\ j - 1 \in DOMAIN chains[k]
        BY <2>1, <4>1 DEF PutsInFront
      <4> QED
        BY <3>2, <4>1, <4>2 DEF Committed
    <3> QED
      BY <3>1, <3>2
  <2> QED
    BY <1>d, <2>1, <2>2, <2>3 DEF Active
<1>3. ASSUME NEW t \in Txn, next_ts(t) PROVE Kept'
  <2>1. UNCHANGED << chains, snapshot, stamps >> /\ ts \in Nat /\ ts' = ts + 1
        /\ pc' = [pc EXCEPT ![t] = "stamping"] /\ pc[t] = "installing"
    BY <1>0, <1>3 DEF next_ts, Enter, TypeOK, history
  <2>2. \A u \in Active' : u \in Active
    BY <1>0, <2>1 DEF Active, TypeOK
  <2> QED
    BY <1>d, <2>1, <2>2
<1>4. ASSUME NEW t \in Txn, NEW k \in Key, commit_key(t, k) PROVE Kept'
  <2>1. UNCHANGED << ts, pc, snapshot, cts >> /\ pc[t] = "stamping" /\ ts \in Nat
    BY <1>0, <1>4, StampStep DEF TypeOK
  <2>3. CASE UNCHANGED << chains, stamps >>
    BY <1>d, <2>1, <2>3 DEF Active
  <2>4. CASE StampsHead(t, k)
    <3>1. cts[t] \in Nat /\ cts[t] # 0 /\ cts[t] <= ts
      BY <1>0, <2>1 DEF Drawn, TypeOK
    <3>2. 1 \in Committed(chains'[k]) /\ chains'[k][1].commit_ts = cts[t] /\ 1 \notin Committed(chains[k])
      BY <2>4, <3>1 DEF StampsHead, Committed
    <3>3. stamps'[k] = stamps[k] \cup {cts[t]} /\ \A q \in Key : q # k => stamps'[q] = stamps[q]
      BY <1>0, <2>4 DEF StampsHead, TypeOK
    <3>4. \A q \in Key : \A i \in Committed(chains[q]) :
            i \in Committed(chains'[q]) /\ chains'[q][i].commit_ts = chains[q][i].commit_ts
      BY <2>4, <3>2 DEF StampsHead, Committed
    <3>5. \A q \in Key : \A i \in Committed(chains'[q]) :
            \/ q = k /\ i = 1
            \/ i \in Committed(chains[q]) /\ chains'[q][i].commit_ts = chains[q][i].commit_ts
      BY <2>4 DEF StampsHead, Committed
    <3>6. ASSUME NEW q \in Key, NEW i \in Committed(chains'[q]) PROVE chains'[q][i].commit_ts \in stamps'[q]
      BY <1>0, <3>2, <3>3, <3>5 DEF Kept
    <3>7. ASSUME NEW q \in Key, NEW c \in stamps'[q]
          PROVE  c # 0 /\ c <= ts' /\ \E i \in Committed(chains'[q]) : Replaces(chains[q][i].commit_ts, c)'
      <4>1. CASE c \in stamps[q]
        <5>1. c # 0 /\ c <= ts
          BY <1>0, <4>1 DEF Kept
        <5>2. PICK i \in Committed(chains[q]) : Replaces(chains[q][i].commit_ts, c)
          BY <1>0, <4>1 DEF Kept
        <5>3. Replaces(chains[q][i].commit_ts, c)'
          BY <2>1, <3>4, <5>2 DEF Replaces, Active
        <5> QED
          BY <2>1, <3>4, <5>1, <5>3
      <4>2. CASE q = k /\ c = cts[t]
        <5>1. Replaces(chains[q][1].commit_ts, c)'
          BY <3>2, <4>2 DEF Replaces
        <5> QED
          BY <2>1, <3>1, <3>2, <4>2, <5>1
      <4> QED
        BY <3>3, <4>1, <4>2
    <3> QED
      BY <3>6, <3>7 DEF Kept
  <2> QED
    BY <1>0, <1>4, <2>3, <2>4, StampStep
<1>5. ASSUME NEW oldest \in 0 .. ts, gc(oldest) PROVE Kept'
  <2>1. UNCHANGED << ts, pc, snapshot, stamps >> /\ (\A u \in Active : oldest <= snapshot[u]) /\ ts \in Nat
    BY <1>0, <1>5, GcStep DEF TypeOK
  <2>2. \A q \in Key : \A i \in DOMAIN chains'[q] : i \in DOMAIN chains[q] /\ chains'[q][i] = chains[q][i]
    BY <1>0, <1>5, GcStep
  <2>3. ASSUME NEW q \in Key, NEW i \in Committed(chains'[q]) PROVE chains'[q][i].commit_ts \in stamps'[q]
    BY <1>0, <2>1, <2>2 DEF Kept, Committed
  <2>4. ASSUME NEW q \in Key, NEW c \in stamps'[q]
        PROVE  c # 0 /\ c <= ts' /\ \E i \in Committed(chains'[q]) : Replaces(chains[q][i].commit_ts, c)'
    <3>1. c # 0 /\ c <= ts /\ c \in Nat
      BY <1>0, <1>b, <2>1, <2>4 DEF Kept
    <3>2. PICK i \in Committed(chains[q]) : Replaces(chains[q][i].commit_ts, c)
      BY <1>0, <2>1 DEF Kept
    <3>3. CASE i \in DOMAIN chains'[q]
      <4>1. i \in Committed(chains'[q]) /\ chains'[q][i] = chains[q][i]
        BY <2>2, <3>2, <3>3 DEF Committed
      <4>2. Replaces(chains[q][i].commit_ts, c)'
        BY <2>1, <3>2, <4>1 DEF Replaces, Active
      <4> QED
        BY <2>1, <3>1, <4>1, <4>2
    <3>4. CASE i \notin DOMAIN chains'[q]
      <4>1. PICK e \in Committed(chains'[q]) : e < i /\ chains'[q][e].commit_ts < oldest
        BY <1>0, <1>5, <3>2, <3>4, GcStep DEF Committed
      <4>2. e \in Committed(chains[q]) /\ chains'[q][e] = chains[q][e]
        BY <2>2, <4>1 DEF Committed
      <4>3. chains[q][e].commit_ts > chains[q][i].commit_ts
        BY <1>0, <3>2, <4>1, <4>2 DEF ChainsInOrder
      <4>4. chains[q][e].commit_ts \in Nat /\ chains[q][i].commit_ts \in Nat
        BY <1>a, <3>2, <4>2 DEF Committed
      <4>5. c < chains[q][e].commit_ts
        BY <3>1, <3>2, <4>3, <4>4 DEF Replaces
      <4>6. \A u \in Active : chains[q][e].commit_ts <= snapshot[u]
        BY <1>0, <2>1, <4>1, <4>2, <4>4 DEF TypeOK, Active
      <4>7. Replaces(chains[q][e].commit_ts, c)'
        BY <2>1, <4>2, <4>5, <4>6 DEF Replaces, Active
      <4> QED
        BY <2>1, <3>1, <4>1, <4>7
    <3> QED
      BY <3>3, <3>4
  <2> QED
    BY <2>3, <2>4 DEF Kept
<1>6. CASE UNCHANGED vars
  BY <1>0, <1>6 DEF Kept, Replaces, Active, vars, txnVars, history
<1> QED
  BY <1>1, <1>2, <1>3, <1>4, <1>5, <1>6 DEF Next, Step, Quiet

LEMMA ChecksInv == Inv /\ [Next]_vars => ChecksHeld'
<1> SUFFICES ASSUME Inv, [Next]_vars PROVE ChecksHeld'
  OBVIOUS
<1>0. TypeOK /\ Drawn /\ Kept /\ ChecksHeld
  BY DEF Inv
<1> DEFINE Held(x) == isolation[x] = "Serializable" /\ pc[x] \in Phases =>
                        \A u \in earlier[x], k \in Visited(x) : cts[u] \in stamps[k] => cts[u] <= snapshot[x]
\* What a step leaves alone for a transaction stays as it was.
<1>a. ASSUME NEW x \in Txn,
             isolation'[x] = isolation[x], pc'[x] = pc[x], earlier'[x] = earlier[x], snapshot'[x] = snapshot[x],
             reads'[x] = reads[x], todo'[x] = todo[x] \/ pc[x] # "checking",
             \A u \in earlier[x], k \in Key : cts'[u] \in stamps'[k] => cts'[u] = cts[u] /\ cts[u] \in stamps[k]
      PROVE  Held(x)'
  <2>1. Visited(x)' = Visited(x) /\ Visited(x) \in SUBSET Key
    BY <1>0, <1>a DEF Visited, TypeOK
  <2> QED
    BY <1>0, <1>a, <2>1 DEF ChecksHeld, Phases
<1>b. \A x, u \in Txn : u \in earlier[x] => pc[u] = "done"
  BY <1>0 DEF ChecksHeld
<1>c. (\A x \in Txn : Held(x)') /\ (\A x \in Txn : \A u \in earlier'[x] : pc'[u] = "done") => ChecksHeld'
  BY DEF ChecksHeld, Phases
<1> USE <1>0 DEF TypeOK
<1> HIDE DEF Held
<1>1. ASSUME NEW t \in Txn, NEW level \in Isolation, begin(t, level) PROVE ChecksHeld'
  <2>1. UNCHANGED << writes, reads, todo, cts, stamps, earlier >>
        /\ pc' = [pc EXCEPT ![t] = "active"] /\ pc[t] = "unborn"
        /\ isolation' = [isolation EXCEPT ![t] = level] /\ snapshot' = [snapshot EXCEPT ![t] = ts]
    BY <1>1 DEF begin, history
  <2>2. Held(t)'
    BY <2>1 DEF Held, Phases
  <2>3. ASSUME NEW x \in Txn, x # t PROVE Held(x)'
    BY <1>a, <2>1, <2>3
  <2>4. \A x \in Txn : \A u \in earlier'[x] : pc'[u] = "done"
    BY <1>b, <2>1
  <2> QED
    BY <1>c, <2>2, <2>3, <2>4
<1>2. ASSUME NEW t \in Txn, NEW k \in Key, get(t, k) PROVE ChecksHeld'
  <2>1. UNCHANGED << pc, isolation, snapshot, todo, cts, stamps, earlier >>
        /\ pc[t] = "active" /\ reads' = [reads EXCEPT ![t] = @ \cup {k}]
    BY <1>2 DEF get, history
  <2>2. Held(t)'
    BY <2>1 DEF Held, Phases
  <2>3. ASSUME NEW x \in Txn, x # t PROVE Held(x)'
    BY <1>a, <2>1, <2>3
  <2>4. \A x \in Txn : \A u \in earlier'[x] : pc'[u] = "done"
    BY <1>b, <2>1
  <2> QED
    BY <1>c, <2>2, <2>3, <2>4
<1>3. ASSUME NEW t \in Txn, NEW k \in Key, put(t, k) PROVE ChecksHeld'
  <2>1. UNCHANGED << pc, isolation, snapshot, reads, todo, cts, stamps, earlier >>
    BY <1>3 DEF put, history
  <2> QED
    BY <1>a, <1>b, <1>c, <2>1
<1>4. ASSUME NEW t \in Txn, abort(t) PROVE ChecksHeld'
  <2>1. UNCHANGED << isolation, snapshot, reads, todo, cts, stamps, earlier >>
        /\ pc[t] = "active" /\ pc' = [pc EXCEPT ![t] = "failed"]
    BY <1>4 DEF abort, history
  <2>2. Held(t)'
    BY <2>1 DEF Held, Phases
  <2>3. ASSUME NEW x \in Txn, x # t PROVE Held(x)'
    BY <1>a, <2>1, <2>3
  <2>4. \A x \in Txn : \A u \in earlier'[x] : pc'[u] = "done"
    BY <1>b, <2>1
  <2> QED
    BY <1>c, <2>2, <2>3, <2>4
<1>5. ASSUME NEW t \in Txn, commit(t) PROVE ChecksHeld'
  <2>1. UNCHANGED << isolation, snapshot, reads, cts, stamps >> /\ pc[t] = "active"
        /\ earlier' = [earlier EXCEPT ![t] = {u \in Txn : pc[u] = "done"}]
    BY <1>5 DEF commit
  <2>2. \/ isolation[t] = "Serializable" /\ Enter(t, "checking", reads[t])
        \/ isolation[t] # "Serializable" /\ Enter(t, "installing", writes[t])
    BY <1>5 DEF commit
  <2>3. Held(t)' /\ \A x \in Txn : x # t => pc'[x] = pc[x] /\ todo'[x] = todo[x]
    <3>1. CASE isolation[t] = "Serializable" /\ Enter(t, "checking", reads[t])
      BY <2>1, <3>1 DEF Enter, Held, Visited
    <3>2. CASE isolation[t] # "Serializable" /\ Enter(t, "installing", writes[t])
      BY <2>1, <3>2 DEF Enter, Held
    <3> QED
      BY <2>2, <3>1, <3>2
  <2>4. ASSUME NEW x \in Txn, x # t PROVE Held(x)'
    BY <1>a, <2>1, <2>3, <2>4
  <2>5. \A x \in Txn : \A u \in earlier'[x] : pc'[u] = "done"
    BY <1>b, <2>1, <2>3
  <2> QED
    BY <1>c, <2>3, <2>4, <2>5
<1>6. ASSUME NEW t \in Txn, NEW k \in Key, check(t, k) PROVE ChecksHeld'
  <2>1. UNCHANGED << isolation, snapshot, reads, cts, stamps, earlier >> /\ pc[t] = "checking"
    BY <1>6 DEF check, history
  <2>2. \/ Enter(t, "failed", {})
        \/ ~has_committed_since(chains[k], snapshot[t]) /\ Enter(t, "checking", todo[t] \ {k})
    BY <1>6 DEF check
  <2>3. Held(t)' /\ \A x \in Txn : x # t => pc'[x] = pc[x] /\ todo'[x] = todo[x]
    <3>1. CASE Enter(t, "failed", {})
      BY <2>1, <3>1 DEF Enter, Held, Phases
    <3>2. CASE ~has_committed_since(chains[k], snapshot[t]) /\ Enter(t, "checking", todo[t] \ {k})
      <4>1. pc' = pc /\ todo' = [todo EXCEPT ![t] = todo[t] \ {k}]
        BY <2>1, <3>2 DEF Enter
      <4>2. \A c \in stamps[k] : c <= snapshot[t]
        <5> TAKE c \in stamps[k]
        <5>1. PICK i \in Committed(chains[k]) : Replaces(chains[k][i].commit_ts, c)
          BY DEF Kept
        <5>2. chains[k][i].commit_ts \in Nat /\ c \in Nat /\ snapshot[t] \in Nat
          BY ChainFacts DEF Committed
        <5>3. chains[k][i].commit_ts <= snapshot[t]
          BY <3>2, <5>2 DEF has_committed_since
        <5> QED
          BY <5>1, <5>2, <5>3 DEF Replaces
      <4>3. \A q \in Visited(t)' : q = k \/ q \in Visited(t)
        BY <2>1, <4>1 DEF Visited
      <4>4. isolation[t] = "Serializable" =>
              \A u \in earlier[t], q \in Visited(t) : cts[u] \in stamps[q] => cts[u] <= snapshot[t]
        BY <2>1 DEF ChecksHeld, Phases
      <4> QED
        BY <2>1, <4>1, <4>2, <4>3, <4>4 DEF Held
    <3> QED
      BY <2>2, <3>1, <3>2
  <2>4. ASSUME NEW x \in Txn, x # t PROVE Held(x)'
    BY <1>a, <2>1, <2>3, <2>4
  <2>5. \A x \in Txn : \A u \in earlier'[x] : pc'[u] = "done"
    BY <1>b, <2>1, <2>3
  <2> QED
    BY <1>c, <2>3, <2>4, <2>5
<1>7. ASSUME NEW t \in Txn, checked(t) PROVE ChecksHeld'
  <2>1. UNCHANGED << isolation, snapshot, reads, cts, stamps, earlier >> /\ pc[t] = "checking" /\ todo[t] = {}
        /\ pc' = [pc EXCEPT ![t] = "installing"] /\ todo' = [todo EXCEPT ![t] = writes[t]]
    BY <1>7 DEF checked, Enter, history
  <2>2. Visited(t)' = Visited(t)
    BY <2>1 DEF Visited
  <2>3. Held(t)'
    BY <2>1, <2>2 DEF ChecksHeld, Held, Phases
  <2>4. ASSUME NEW x \in Txn, x # t PROVE Held(x)'
    BY <1>a, <2>1, <2>4
  <2>5. \A x \in Txn : \A u \in earlier'[x] : pc'[u] = "done"
    BY <1>b, <2>1
  <2> QED
    BY <1>c, <2>3, <2>4, <2>5
<1>8. ASSUME NEW t \in Txn, NEW k \in Key, write_intent(t, k) PROVE ChecksHeld'
  <2>1. UNCHANGED << pc, isolation, snapshot, reads, cts, stamps, earlier >> /\ pc[t] = "installing"
        /\ todo' = [todo EXCEPT ![t] = todo[t] \ {k}]
    BY <1>8, IntentStep DEF write_intent, Enter
  <2> QED
    BY <1>a, <1>b, <1>c, <2>1
<1>9. ASSUME NEW t \in Txn, next_ts(t) PROVE ChecksHeld'
  <2>1. UNCHANGED << isolation, snapshot, reads, stamps, earlier >> /\ pc[t] = "installing"
        /\ pc' = [pc EXCEPT ![t] = "stamping"] /\ todo' = [todo EXCEPT ![t] = writes[t]]
        /\ cts' = [cts EXCEPT ![t] = ts + 1]
    BY <1>9 DEF next_ts, Enter, history
  <2>2. \A x \in Txn : \A u \in earlier[x] : u # t /\ cts'[u] = cts[u] /\ pc'[u] = "done"
    BY <1>b, <2>1
  <2>3. Visited(t)' = Visited(t)
    BY <2>1 DEF Visited
  <2>4. Held(t)'
    BY <2>1, <2>2, <2>3 DEF ChecksHeld, Held, Phases
  <2>5. ASSUME NEW x \in Txn, x # t PROVE Held(x)'
    BY <1>a, <2>1, <2>2, <2>5
  <2> QED
    BY <1>c, <2>1, <2>2, <2>4, <2>5
\* The timestamp that commit_key stamps is that of a commit still running.
<1>10. ASSUME NEW t \in Txn, NEW k \in Key, commit_key(t, k) PROVE ChecksHeld'
  <2>1. UNCHANGED << pc, isolation, snapshot, reads, cts, earlier >> /\ pc[t] = "stamping"
    BY <1>10, StampStep
  <2>2. todo' = [todo EXCEPT ![t] = todo[t] \ {k}]
    BY <1>10 DEF commit_key, Enter
  <2>3. \A x \in Txn : \A u \in earlier[x] : u \in Txn /\ u # t /\ cts[u] # cts[t]
    BY <1>b, <2>1 DEF Drawn
  <2>4. \A q \in Key : \A c \in stamps'[q] : c \in stamps[q] \/ c = cts[t]
    <3>1. CASE UNCHANGED << chains, stamps >>
      BY <3>1
    <3>2. CASE StampsHead(t, k)
      BY <3>2 DEF StampsHead
    <3> QED
      BY <1>10, <3>1, <3>2, StampStep
  <2> QED
    BY <1>a, <1>b, <1>c, <2>1, <2>2, <2>3, <2>4
<1>11. ASSUME NEW t \in Txn, committed(t) PROVE ChecksHeld'
  <2>1. UNCHANGED << isolation, snapshot, reads, todo, cts, stamps, earlier >> /\ pc[t] = "stamping"
        /\ pc' = [pc EXCEPT ![t] = "done"]
    BY <1>11 DEF committed, history
  <2>2. Visited(t)' = Visited(t)
    BY <2>1 DEF Visited
  <2>3. Held(t)'
    BY <2>1, <2>2 DEF ChecksHeld, Held, Phases
  <2>4. ASSUME NEW x \in Txn, x # t PROVE Held(x)'
    BY <1>a, <2>1, <2>4
  <2>5. \A x \in Txn : \A u \in earlier'[x] : pc'[u] = "done"
    BY <1>b, <2>1
  <2> QED
    BY <1>c, <2>3, <2>4, <2>5
<1>12. ASSUME NEW oldest \in 0 .. ts, gc(oldest) PROVE ChecksHeld'
  BY <1>12, GcStep, <1>a, <1>b, <1>c
<1>13. CASE UNCHANGED vars
  BY <1>13, <1>a, <1>b, <1>c DEF vars, txnVars, history
<1> QED
  BY <1>1, <1>2, <1>3, <1>4, <1>5, <1>6, <1>7, <1>8, <1>9, <1>10, <1>11, <1>12, <1>13 DEF Next, Step

-----------------------------------------------------------------------------
LEMMA InvInit == Init => Inv
<1> SUFFICES ASSUME Init PROVE Inv
  OBVIOUS
<1>1. TypeOK
  BY TypeInit
<1>2. \A k \in Key : DOMAIN chains[k] = {}
  BY DEF Init
<1>3. Drawn
  BY <1>2 DEF Init, Drawn
<1>4. ChainsInOrder /\ IntentsLate /\ Kept
  BY <1>2 DEF Init, ChainsInOrder, IntentsLate, Kept, Committed
<1>5. ChecksHeld
  BY DEF Init, ChecksHeld
<1> QED
  BY <1>1, <1>3, <1>4, <1>5 DEF Inv

LEMMA InvNext == Inv /\ [Next]_vars => Inv'
BY TypeNext, DrawnInv, OrderInv, KeptInv, ChecksInv DEF Inv

LEMMA MvccInvariance == Spec => []Inv
BY InvInit, InvNext, PTL DEF Spec

(***************************************************************************)
(* The committed versions of every chain are in the order of their commit  *)
(* timestamps, whatever order commit() installs intents and draws          *)
(* timestamps in.                                                          *)
(***************************************************************************)
THEOREM ChainsOrdered == Spec => []ChainsInOrder
<1>1. Inv => ChainsInOrder
  BY DEF Inv
<1> QED
  BY <1>1, MvccInvariance, PTL

\* Every version stamped up to a snapshot in use has one in the chain that is
\* no older and still visible to the snapshot; read() finds the newest of those.
LEMMA ReadNewest ==
    ASSUME Inv, NEW k \in Key, NEW s \in Nat, s = ts \/ \E t \in Active : s = snapshot[t]
    PROVE  read(chains[k], s) = Newest(k, s)
<1> DEFINE chain == chains[k]
           V == Visible(chain, s)
           S == {0} \cup {c \in stamps[k] : c <= s}
<1>0. TypeOK /\ Drawn /\ ChainsInOrder /\ Kept
  BY DEF Inv
<1>1. /\ V \in SUBSET Nat /\ V \in SUBSET Committed(chain) /\ V \in SUBSET DOMAIN chain
      /\ \A i \in V : chain[i].commit_ts \in Nat /\ chain[i].commit_ts <= s
  BY <1>0, ChainFacts DEF TypeOK, Visible, Committed
<1>2. S \in SUBSET Nat
  BY <1>0 DEF TypeOK
<1>3. ASSUME NEW c \in stamps[k], c <= s
      PROVE  \E i \in V : c <= chain[i].commit_ts
  <2>1. PICK i \in Committed(chain) : Replaces(chain[i].commit_ts, c)
    BY <1>0 DEF Kept
  <2>2. chain[i].commit_ts \in Nat /\ chain[i].commit_ts <= ts /\ c \in Nat
    BY <1>0, ChainFacts DEF TypeOK, Drawn, Committed
  <2>3. c <= chain[i].commit_ts /\ chain[i].commit_ts <= s
    BY <1>3, <2>1, <2>2 DEF Replaces
  <2> QED
    BY <2>3 DEF Visible
<1>4. CASE V = {}
  <2>1. S = {0}
    BY <1>3, <1>4
  <2>2. Max(S) = 0
    BY <2>1, MaxIs
  <2> QED
    BY <1>4, <2>2 DEF read, Newest
<1>5. CASE V # {}
  <2> DEFINE m == Min(V)
             r == chain[m].commit_ts
  <2>1. m \in V /\ \A i \in V : m <= i
    BY <1>1, <1>5, MinProperty
  <2>2. read(chain, s) = r
    BY <1>5 DEF read
  <2> HIDE DEF m
  <2>3. r \in S /\ r \in Nat
    BY <1>0, <1>1, <2>1 DEF Kept
  <2>4. \A i \in V : chain[i].commit_ts <= r
    <3> TAKE i \in V
    <3>1. m = i \/ m < i
      BY <1>1, <2>1
    <3>2. CASE m < i
      BY <1>0, <1>1, <2>1, <3>2 DEF ChainsInOrder
    <3> QED
      BY <1>1, <3>1, <3>2
  <2>5. \A c \in S : c <= r
    <3> SUFFICES ASSUME NEW c \in stamps[k], c <= s PROVE c <= r
      BY <2>3
    <3>1. PICK i \in V : c <= chain[i].commit_ts
      BY <1>3
    <3> QED
      BY <1>1, <1>2, <2>3, <2>4, <3>1
  <2>6. Max(S) = r
    <3> HIDE DEF S, r
    <3> QED
      BY <1>2, <2>3, <2>5, MaxIs
  <2> QED
    BY <2>2, <2>6 DEF Newest
<1> QED
  BY <1>4, <1>5

(***************************************************************************)
(* read() returns the newest version that was ever stamped up to the       *)
(* snapshot: none is hidden by an intent or by the order of the chain, and *)
(* none is taken away by gc().                                             *)
(***************************************************************************)
THEOREM ReadsCurrent == Spec => []ReadsNewestStamped
<1>1. Inv => ReadsNewestStamped
  <2> SUFFICES ASSUME Inv PROVE ReadsNewestStamped
    OBVIOUS
  <2>1. ts \in Nat /\ \A t \in Active : snapshot[t] \in Nat
    BY DEF Inv, TypeOK, Active
  <2> QED
    BY <2>1, ReadNewest DEF ReadsNewestStamped
<1> QED
  BY <1>1, MvccInvariance, PTL

(***************************************************************************)
(* A serializable transaction that passes check has read nothing that an   *)
(* earlier finished commit overwrote after its snapshot.                   *)
(***************************************************************************)
THEOREM ChecksComplete == Spec => []FinishedCommitsRespected
<1>1. Inv => FinishedCommitsRespected
  BY DEF Inv, ChecksHeld, FinishedCommitsRespected, Visited, Phases
<1> QED
  BY <1>1, MvccInvariance, PTL
=============================================================================
