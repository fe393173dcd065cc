---------------------------- MODULE ServerProofs ----------------------------
(***************************************************************************)
(* The safety properties of the server's transactions, for every set of    *)
(* keys and of threads, and any number of transactions.                    *)
(***************************************************************************)
EXTENDS Server, FiniteSetsExt, SequenceTheorems, FiniteSetTheorems, TLAPS

-----------------------------------------------------------------------------
(***************************************************************************)
(* The smallest element of a set of naturals, and the largest one of a     *)
(* bounded set.                                                            *)
(***************************************************************************)
LEMMA MinProperty ==
    ASSUME NEW T \in SUBSET Nat, T # {}
    PROVE  Min(T) \in T /\ \A j \in T : Min(T) <= j
<1>1. \E x \in T : \A y \in T : ~ (<<y, x>> \in OpToRel(<, Nat))
  BY NatLessThanWellFounded, WFMin
<1>2. PICK x \in T : \A y \in T : ~ (<<y, x>> \in OpToRel(<, Nat))
  BY <1>1
<1>3. \A y \in T : x <= y
  <2>1. SUFFICES ASSUME NEW y \in T PROVE x <= y
    OBVIOUS
  <2>2. ~(y < x)
    BY <1>2, Zenon DEF OpToRel
  <2> QED
    BY <2>2
<1> QED
  BY <1>3, Zenon DEF Min

LEMMA MaxProperty ==
    ASSUME NEW n \in Nat, NEW T \in SUBSET (1 .. n), T # {}
    PROVE  Max(T) \in T /\ \A j \in T : j <= Max(T)
<1> DEFINE U == {n - j : j \in T}
<1>1. \A j \in T : j \in Nat /\ n - j \in Nat
  OBVIOUS
<1>2. U \in SUBSET Nat
  BY <1>1
<1>3. U # {}
  BY Zenon
<1>4. Min(U) \in U /\ \A j \in U : Min(U) <= j
  BY <1>2, <1>3, MinProperty, Zenon
<1>5. PICK m \in T : Min(U) = n - m
  BY <1>4, Zenon
<1>6. ASSUME NEW j \in T PROVE j <= m
  <2>1. n - j \in U
    OBVIOUS
  <2>2. n - m <= n - j
    BY <2>1, <1>4, <1>5
  <2> QED
    BY <2>2, <1>1
<1>7. \A j \in T : m >= j
  BY <1>1, <1>6
<1>8. Max(T) \in T /\ \A j \in T : Max(T) >= j
  BY <1>7, Zenon DEF Max
<1> QED
  BY <1>8, <1>1

-----------------------------------------------------------------------------
(***************************************************************************)
(* The inductive invariant.                                                *)
(*                                                                         *)
(* BeginHolds: while begin_tx waits for the manager, its thread has the    *)
(* read lock, and the root it has taken is the current one.                *)
(***************************************************************************)
BeginHolds ==
    \A c \in Thread : pc[c] = "beginning" =>
        c \in readers /\ local[c] \in Begun /\ local[c].snapshot = tree

(***************************************************************************)
(* OneOwner: a session is in the manager, or in the hand of one thread that*)
(* commits it, and as long as it is, nothing has been reported for it.     *)
(***************************************************************************)
Committing(c) == pc[c] \in {"validating", "applying"}

Open(s) ==
    /\ s \in TxSession /\ s.id < next_id /\ results[s.id] = {}
    /\ \A i \in DOMAIN s.write_buffer : s.write_buffer[i].value \in {None, s.id}
    /\ s.isolation # "Serializable" => s.read_set = {}

OneOwner ==
    /\ \A s \in sessions : Open(s)
    /\ \A c \in Thread : Committing(c) => Open(local[c])
    /\ \A s, r \in sessions : s.id = r.id => s = r
    /\ \A s \in sessions, c \in Thread : Committing(c) => s.id # local[c].id
    /\ \A c, d \in Thread : Committing(c) /\ Committing(d) /\ c # d => local[c].id # local[d].id

(***************************************************************************)
(* Reported: what was reported is one outcome of a transaction that was    *)
(* begun, and the engine has the values of the ones that were applied.     *)
(***************************************************************************)
Outcome == {"committed", "failed", "conflict", "rolled back"}

Reported ==
    /\ \A t \in Tx : results[t] = {} \/ (t < next_id /\ \E what \in Outcome : results[t] = {what})
    /\ \A k \in Key : live[k] \in Tx => results[live[k]] = {"committed"} \/ results[live[k]] = {"failed"}

(***************************************************************************)
(* Validated: what a thread that waits for the write lock has validated    *)
(* still holds for the keys that nobody has written since.                 *)
(***************************************************************************)
Validated ==
    \A c \in Thread : pc[c] = "applying" =>
        \A k \in local[c].read_set \ raced[c] : Unchanged(local[c], k)

Inv == TypeOK /\ BeginHolds /\ OneOwner /\ Reported /\ Validated

-----------------------------------------------------------------------------
(***************************************************************************)
(* LocksHeld: the threads that hold the engine's read lock between two     *)
(* steps are the ones in begin_tx; the manager is held between two steps   *)
(* only by a tx_get that has missed; and there are numbers left for the    *)
(* transactions that are being begun.                                      *)
(***************************************************************************)
LocksHeld ==
    /\ readers = {c \in Thread : pc[c] = "beginning"}
    /\ mgr = Free \/ (mgr \in Thread /\ pc[mgr] = "missed")
    /\ IsFiniteSet(readers)
    /\ readers = {} \/ next_id + Cardinality(readers) <= MaxTx + 1

LEMMA LocksInit == Init => LocksHeld
<1> SUFFICES ASSUME Init PROVE LocksHeld
  OBVIOUS
<1>1. readers = {} /\ mgr = Free /\ \A c \in Thread : pc[c] = "idle"
  BY DEF Init
<1>2. IsFiniteSet(readers)
  BY <1>1, FS_EmptySet
<1> QED
  BY <1>1, <1>2 DEF LocksHeld

LEMMA LocksNext == TypeOK /\ LocksHeld /\ [Next]_vars => LocksHeld'
<1> SUFFICES ASSUME TypeOK, LocksHeld, [Next]_vars PROVE LocksHeld'
  OBVIOUS
<1> DEFINE Place == {"idle", "beginning", "missed", "fallback", "validating", "applying", "dead"}
<1>0. /\ pc \in [Thread -> Place] /\ readers \in SUBSET Thread /\ next_id \in Nat /\ MaxTx \in Nat
      /\ readers = {c \in Thread : pc[c] = "beginning"} /\ IsFiniteSet(readers)
      /\ mgr = Free \/ (mgr \in Thread /\ pc[mgr] = "missed")
      /\ readers = {} \/ next_id + Cardinality(readers) <= MaxTx + 1
  <2>1. next_id \in 1 .. MaxTx + 1 /\ MaxTx \in Nat
    BY ServerAssumption DEF TypeOK
  <2>2. pc \in [Thread -> Place] /\ readers \in SUBSET Thread
    BY DEF TypeOK
  <2> HIDE DEF Place
  <2> QED
    BY <2>1, <2>2 DEF LocksHeld
<1>a. ASSUME NEW c \in Thread, NEW to \in Place \ {"beginning"},
             pc[c] # "beginning", mgr = c => pc[c] # "missed",
             pc' = [pc EXCEPT ![c] = to], UNCHANGED << lockVars, next_id >>
      PROVE  LocksHeld'
  <2>1. readers' = readers /\ mgr' = mgr /\ next_id' = next_id
    BY <1>a DEF lockVars
  <2>2. {d \in Thread : pc'[d] = "beginning"} = {d \in Thread : pc[d] = "beginning"}
    BY <1>0, <1>a
  <2>3. mgr = Free \/ (mgr \in Thread /\ pc'[mgr] = "missed")
    BY <1>0, <1>a
  <2> QED
    BY <1>0, <2>1, <2>2, <2>3 DEF LocksHeld
<1>b. ASSUME UNCHANGED << pc, lockVars, next_id >> PROVE LocksHeld'
  BY <1>b DEF LocksHeld, lockVars
<1>1. ASSUME NEW c \in Thread, NEW b \in 0 .. 3, next_id + Cardinality(readers) <= MaxTx, begin_tx(c, b)
      PROVE  LocksHeld'
  <2>1. /\ readers' = readers \cup {c} /\ pc[c] = "idle" /\ pc' = [pc EXCEPT ![c] = "beginning"]
        /\ mgr' = mgr /\ next_id' = next_id
    BY <1>1 DEF begin_tx, txVars
  <2>2. c \notin readers
    BY <1>0, <2>1
  <2>3. IsFiniteSet(readers') /\ Cardinality(readers') = Cardinality(readers) + 1
    BY <1>0, <2>1, <2>2, FS_AddElement
  <2>4. readers' = {d \in Thread : pc'[d] = "beginning"}
    BY <1>0, <2>1
  <2>5. Cardinality(readers) \in Nat
    BY <1>0, FS_CardinalityType
  <2>6. next_id' + Cardinality(readers') <= MaxTx + 1
    BY <1>0, <1>1, <2>1, <2>3, <2>5
  <2>7. mgr' = Free \/ (mgr' \in Thread /\ pc'[mgr'] = "missed")
    BY <1>0, <2>1
  <2> QED
    BY <2>3, <2>4, <2>6, <2>7 DEF LocksHeld
<1>2. ASSUME NEW c \in Thread, tx_mgr_begin(c) PROVE LocksHeld'
  <2>1. /\ readers' = readers \ {c} /\ pc[c] = "beginning" /\ pc' = [pc EXCEPT ![c] = "idle"]
        /\ mgr' = mgr /\ mgr = Free /\ next_id' = next_id + 1
    BY <1>2 DEF tx_mgr_begin
  <2>2. c \in readers
    BY <1>0, <2>1
  <2>3. IsFiniteSet(readers') /\ Cardinality(readers') = Cardinality(readers) - 1
    BY <1>0, <2>1, <2>2, FS_RemoveElement
  <2>4. readers' = {d \in Thread : pc'[d] = "beginning"}
    BY <1>0, <2>1
  <2>5. Cardinality(readers) \in Nat
    BY <1>0, FS_CardinalityType
  <2>6. next_id' + Cardinality(readers') <= MaxTx + 1
    BY <1>0, <2>1, <2>2, <2>3, <2>5
  <2> QED
    BY <2>1, <2>3, <2>4, <2>6 DEF LocksHeld
<1>3. ASSUME NEW c \in Thread, tx_get_misses(c) PROVE LocksHeld'
  <2>1. /\ readers' = readers /\ pc[c] = "idle" /\ pc' = [pc EXCEPT ![c] = "missed"]
        /\ mgr' = c /\ next_id' = next_id
    BY <1>3 DEF tx_get_misses, txVars
  <2>2. readers' = {d \in Thread : pc'[d] = "beginning"}
    BY <1>0, <2>1
  <2> QED
    BY <1>0, <2>1, <2>2 DEF LocksHeld
<1>4. ASSUME NEW c \in Thread, drop_mgr(c) PROVE LocksHeld'
  <2>1. /\ readers' = readers /\ pc[c] = "missed" /\ pc' = [pc EXCEPT ![c] = "fallback"]
        /\ mgr' = Free /\ next_id' = next_id
    BY <1>4 DEF drop_mgr, txVars
  <2>2. readers' = {d \in Thread : pc'[d] = "beginning"}
    BY <1>0, <2>1
  <2> QED
    BY <1>0, <2>1, <2>2 DEF LocksHeld
<1>5. ASSUME NEW c \in Thread, panics(c) \/ handle_scan_inverted(c) PROVE LocksHeld'
  <2>1. /\ pc[c] \in {"idle", "fallback", "validating", "applying"}
        /\ pc' = [pc EXCEPT ![c] = "dead"] /\ UNCHANGED << lockVars, next_id >>
    BY <1>5 DEF panics, handle_scan_inverted, CanWrite, txVars
  <2> QED
    BY <1>a, <2>1, Zenon
<1>6. ASSUME NEW c \in Thread, live_get(c) \/ apply(c) PROVE LocksHeld'
  <2>1. /\ pc[c] \in {"fallback", "applying"}
        /\ pc' = [pc EXCEPT ![c] = "idle"] /\ UNCHANGED << lockVars, next_id >>
    BY <1>6 DEF live_get, apply, txVars
  <2> QED
    BY <1>a, <2>1, Zenon
<1>7. ASSUME NEW c \in Thread, NEW s \in sessions, commit_tx(c, s) PROVE LocksHeld'
  <2>1. /\ pc[c] = "idle" /\ UNCHANGED << lockVars, next_id >>
        /\ \E to \in {"validating", "applying"} : pc' = [pc EXCEPT ![c] = to]
    BY <1>7, Zenon DEF commit_tx
  <2> QED
    BY <1>a, <2>1, Zenon
<1>8. ASSUME NEW c \in Thread, validate(c) PROVE LocksHeld'
  <2>1. /\ pc[c] = "validating" /\ UNCHANGED << lockVars, next_id >>
        /\ \E to \in {"applying", "idle"} : pc' = [pc EXCEPT ![c] = to]
    BY <1>8 DEF validate, txVars
  <2> QED
    BY <1>a, <2>1, Zenon
<1>9. ASSUME NEW c \in Thread,
             \/ \E k \in Key, v \in {None, Direct} : handle_put(c, k, v)
             \/ handle_snap_create(c) \/ handle_snap_restore(c)
      PROVE  LocksHeld'
  BY <1>b, <1>9, Zenon DEF handle_put, handle_snap_create, handle_snap_restore, threadVars, txVars
<1>10. ASSUME NEW c \in Thread, NEW s \in sessions,
              \/ \E k \in Key : tx_get(c, s, k) \/ \E v \in {None, s.id} : tx_put(c, s, k, v)
              \/ rollback_tx(c, s)
       PROVE  LocksHeld'
  BY <1>b, <1>10 DEF tx_get, tx_put, rollback_tx, threadVars
<1>11. CASE UNCHANGED vars
  BY <1>b, <1>11 DEF vars, threadVars, txVars
<1> QED
  BY <1>1, <1>2, <1>3, <1>4, <1>5, <1>6, <1>7, <1>8, <1>9, <1>10, <1>11 DEF Next, Step

\* Why someone can go on: a tx_get that has missed holds the manager and waits for
\* nothing; without one the manager is free, and so begin_tx can go on; without
\* one of these nobody holds the engine.
LEMMA LocksSuffice == TypeOK /\ LocksHeld => SomeoneReady
<1> SUFFICES ASSUME TypeOK, LocksHeld, NEW c \in Thread, pc[c] \notin {"idle", "dead"}
             PROVE  \E d \in Thread : Ready(d)
  BY DEF SomeoneReady
<1>0. pc[c] \in {"beginning", "missed", "fallback", "validating", "applying"} /\ next_id \in Nat /\ MaxTx \in Nat
  <2>1. next_id \in 1 .. MaxTx + 1 /\ MaxTx \in Nat
    BY ServerAssumption DEF TypeOK
  <2>2. pc[c] \in {"idle", "beginning", "missed", "fallback", "validating", "applying", "dead"}
    BY DEF TypeOK
  <2> QED
    BY <2>1, <2>2
<1>1. CASE \E d \in Thread : pc[d] = "missed"
  BY <1>1 DEF Ready
<1>2. ASSUME ~ \E d \in Thread : pc[d] = "missed", NEW d \in Thread, pc[d] = "beginning"
      PROVE  Ready(d)
  <2>1. mgr = Free /\ d \in readers
    BY <1>2 DEF LocksHeld
  <2>2. IsFiniteSet(readers) /\ next_id + Cardinality(readers) <= MaxTx + 1
    BY <2>1 DEF LocksHeld
  <2>3. Cardinality(readers) \in Nat /\ Cardinality(readers) # 0
    BY <2>1, <2>2, FS_CardinalityType, FS_EmptySet
  <2>4. next_id <= MaxTx
    BY <1>0, <2>2, <2>3
  <2> QED
    BY <1>2, <2>1, <2>4 DEF Ready
<1>3. CASE ~ \E d \in Thread : pc[d] \in {"missed", "beginning"}
  <2>1. readers = {}
    BY <1>3 DEF LocksHeld
  <2>2. pc[c] \in {"fallback", "validating", "applying"}
    BY <1>0, <1>3
  <2>3. Ready(c)
    BY <2>1, <2>2 DEF Ready
  <2> QED
    BY <2>3
<1> QED
  BY <1>1, <1>2, <1>3

-----------------------------------------------------------------------------
(***************************************************************************)
(* What applying a buffer does to a key.                                   *)
(***************************************************************************)
LEMMA AppliedFacts ==
    ASSUME NEW data \in Data, NEW buffer \in Seq(TxOp)
    PROVE  /\ Applied(data, buffer) \in Data
           /\ \A k \in Key :
                \/ k \notin Written(buffer) /\ Applied(data, buffer)[k] = data[k]
                \/ \E i \in DOMAIN buffer : buffer[i].key = k /\ Applied(data, buffer)[k] = buffer[i].value
           /\ Written(buffer) \in SUBSET Key
<1>1. DOMAIN buffer = 1 .. Len(buffer) /\ Len(buffer) \in Nat
  BY LenProperties
<1>2. \A i \in DOMAIN buffer : buffer[i] \in TxOp
  BY <1>1, ElementOfSeq
<1>3. \A k \in Key : Ops(buffer, k) # {} => Max(Ops(buffer, k)) \in Ops(buffer, k)
  <2> TAKE k \in Key
  <2> HAVE Ops(buffer, k) # {}
  <2>1. Ops(buffer, k) \in SUBSET (1 .. Len(buffer))
    BY <1>1 DEF Ops
  <2> QED
    BY <1>1, <2>1, MaxProperty, Zenon
<1>4. ASSUME NEW k \in Key
      PROVE  /\ Applied(data, buffer)[k] \in Value
             /\ \/ k \notin Written(buffer) /\ Applied(data, buffer)[k] = data[k]
                \/ \E i \in DOMAIN buffer : buffer[i].key = k /\ Applied(data, buffer)[k] = buffer[i].value
  <2>1. CASE Ops(buffer, k) = {}
    <3>1. Applied(data, buffer)[k] = data[k]
      BY <2>1 DEF Applied
    <3>2. k \notin Written(buffer)
      BY <2>1 DEF Ops, Written
    <3> QED
      BY <3>1, <3>2 DEF Data
  <2>2. CASE Ops(buffer, k) # {}
    <3> DEFINE m == Max(Ops(buffer, k))
    <3>1. Applied(data, buffer)[k] = buffer[m].value
      BY <2>2 DEF Applied
    <3>2. m \in Ops(buffer, k)
      BY <1>3, <2>2
    <3> HIDE DEF m
    <3>3. m \in DOMAIN buffer /\ buffer[m].key = k
      BY <3>2 DEF Ops
    <3> QED
      BY <1>2, <3>1, <3>3 DEF TxOp
  <2> QED
    BY <2>1, <2>2
<1>5. Written(buffer) \in SUBSET Key
  BY <1>2 DEF Written, TxOp
<1>6. Applied(data, buffer) \in Data
  <2>1. Applied(data, buffer) = [k \in Key |-> Applied(data, buffer)[k]]
    BY DEF Applied
  <2> QED
    BY <1>4, <2>1 DEF Data
<1> QED
  BY <1>4, <1>5, <1>6

\* What a commit has applied when it stops are operations of its buffer.
LEMMA PrefixFacts ==
    ASSUME NEW buffer \in Seq(TxOp), NEW n \in 0 .. Len(buffer)
    PROVE  /\ SubSeq(buffer, 1, n) \in Seq(TxOp)
           /\ \A i \in DOMAIN SubSeq(buffer, 1, n) : i \in DOMAIN buffer /\ SubSeq(buffer, 1, n)[i] = buffer[i]
<1>1. DOMAIN buffer = 1 .. Len(buffer) /\ Len(buffer) \in Nat
  BY LenProperties
<1>2. \A i \in 1 .. n : buffer[i] \in TxOp
  BY <1>1, ElementOfSeq
<1> DEFINE done == SubSeq(buffer, 1, n)
<1>3. done \in Seq(TxOp) /\ Len(done) = n /\ \A i \in 1 .. n : done[i] = buffer[i]
  BY <1>1, <1>2, SubSeqProperties
<1> HIDE DEF done
<1>4. DOMAIN done = 1 .. n
  BY <1>3, LenProperties
<1> QED
  BY <1>1, <1>3, <1>4 DEF done

\* What a call in a transaction does to its session.
LEMMA SessionFacts ==
    ASSUME NEW s \in TxSession, NEW k \in Key, NEW v \in Value
    PROVE  /\ [s EXCEPT !.read_set = @ \cup {k}] \in TxSession
           /\ [s EXCEPT !.write_buffer = Append(@, [key |-> k, value |-> v])] \in TxSession
           /\ \A i \in DOMAIN Append(s.write_buffer, [key |-> k, value |-> v]) :
                \/ i \in DOMAIN s.write_buffer
                   /\ Append(s.write_buffer, [key |-> k, value |-> v])[i] = s.write_buffer[i]
                \/ Append(s.write_buffer, [key |-> k, value |-> v])[i].value = v
<1> DEFINE op == [key |-> k, value |-> v]
           b == s.write_buffer
<1>1. op \in TxOp /\ op.value = v
  BY DEF TxOp
<1>2. b \in Seq(TxOp)
  BY DEF TxSession
<1> HIDE DEF op, b
<1>3. /\ Append(b, op) \in Seq(TxOp) /\ Len(Append(b, op)) = Len(b) + 1
      /\ \A i \in 1 .. Len(b) : Append(b, op)[i] = b[i]
      /\ Append(b, op)[Len(b) + 1] = op
  BY <1>1, <1>2, AppendProperties
<1>4. DOMAIN b = 1 .. Len(b) /\ Len(b) \in Nat /\ DOMAIN Append(b, op) = 1 .. Len(b) + 1
  BY <1>2, <1>3, LenProperties
<1>5. \A i \in DOMAIN Append(b, op) : (i \in DOMAIN b /\ Append(b, op)[i] = b[i]) \/ Append(b, op)[i].value = v
  BY <1>1, <1>3, <1>4
<1> HIDE DEF TxOp
<1>6. [s EXCEPT !.write_buffer = Append(b, op)] \in TxSession
  BY <1>3, Zenon DEF TxSession
<1>7. [s EXCEPT !.read_set = @ \cup {k}] \in TxSession
  BY DEF TxSession
<1> QED
  BY <1>5, <1>6, <1>7 DEF b, op

-----------------------------------------------------------------------------
LEMMA TypeInit == Init => TypeOK
<1> SUFFICES ASSUME Init PROVE TypeOK
  OBVIOUS
<1>1. live \in Data /\ tree \in Data /\ saved \in Data
  BY DEF Init, Data, Value
<1>2. next_id \in 1 .. MaxTx + 1 /\ results \in [Tx -> SUBSET {"committed", "failed", "conflict", "rolled back"}]
  BY ServerAssumption DEF Init
<1>3. local \in [Thread -> TxSession \cup Begun \cup {NoSession}]
  BY DEF Init
<1> QED
  BY <1>1, <1>2, <1>3, Zenon DEF Init, TypeOK

LEMMA TypeNext == Inv /\ [Next]_vars => TypeOK'
<1> SUFFICES ASSUME Inv, [Next]_vars PROVE TypeOK'
  OBVIOUS
<1>0. TypeOK /\ BeginHolds /\ OneOwner
  BY DEF Inv
<1> USE <1>0, ServerAssumption
<1>1. ASSUME NEW c \in Thread, NEW k \in Key, NEW v \in {None, Direct}, handle_put(c, k, v) PROVE TypeOK'
  <2> DEFINE b == << [key |-> k, value |-> v] >>
  <2>1. b \in Seq(TxOp)
    BY DEF TxOp, Value, Direct
  <2> HIDE DEF b
  <2>2. live' = Applied(live, b) /\ tree' = Applied(tree, b)
    BY <1>1 DEF handle_put, Write, b
  <2>3. live' \in Data /\ tree' \in Data
    BY <2>1, <2>2, AppliedFacts DEF TypeOK
  <2>4. raced' \in [Thread -> SUBSET Key]
    BY <1>1 DEF handle_put, Overtaken, TypeOK
  <2>5. UNCHANGED << saved, poisoned, readers, mgr, sessions, next_id, pc, local, results >>
    BY <1>1 DEF handle_put, lockVars, txVars, threadVars
  <2> QED
    BY <2>3, <2>4, <2>5 DEF TypeOK
<1>2. ASSUME NEW c \in Thread, handle_scan_inverted(c) PROVE TypeOK'
  BY <1>2 DEF handle_scan_inverted, lockVars, txVars, history, TypeOK
<1>3. ASSUME NEW c \in Thread, handle_snap_create(c) PROVE TypeOK'
  BY <1>3 DEF handle_snap_create, lockVars, txVars, threadVars, history, TypeOK
<1>4. ASSUME NEW c \in Thread, handle_snap_restore(c) PROVE TypeOK'
  BY <1>4 DEF handle_snap_restore, Overtaken, lockVars, txVars, threadVars, TypeOK
<1>5. ASSUME NEW c \in Thread, NEW b \in 0 .. 3, begin_tx(c, b) PROVE TypeOK'
  <2>1. from_byte(b) \in Isolation
    BY DEF from_byte, Isolation
  <2>2. [id |-> 0, isolation |-> from_byte(b), snapshot |-> tree] \in Begun
    BY <2>1 DEF Begun, TypeOK
  <2>3. local' \in [Thread -> TxSession \cup Begun \cup {NoSession}]
    BY <1>5, <2>2 DEF begin_tx, TypeOK
  <2> QED
    BY <1>5, <2>3 DEF begin_tx, engineVars, txVars, history, TypeOK
<1>6. ASSUME NEW c \in Thread, tx_mgr_begin(c) PROVE TypeOK'
  <2> DEFINE s == [id |-> next_id, isolation |-> local[c].isolation, snapshot |-> local[c].snapshot,
                   write_buffer |-> << >>, read_set |-> {}]
  <2>0. pc[c] = "beginning" /\ next_id <= MaxTx /\ next_id' = next_id + 1
        /\ readers' = readers \ {c} /\ pc' = [pc EXCEPT ![c] = "idle"] /\ local' = [local EXCEPT ![c] = NoSession]
        /\ UNCHANGED << live, tree, saved, poisoned, mgr, results, raced >>
    BY <1>6 DEF tx_mgr_begin, engineVars, history
  <2>1. local[c] \in Begun /\ next_id \in Tx
    <3>1. local[c] \in Begun
      BY <2>0 DEF BeginHolds
    <3>2. next_id \in 1 .. MaxTx + 1
      BY DEF TypeOK
    <3> QED
      BY <2>0, <3>1, <3>2 DEF Tx
  <2>2. << >> \in Seq(TxOp)
    OBVIOUS
  <2>3. s \in TxSession
    BY <2>1, <2>2 DEF TxSession, Begun
  <2>4. sessions' = sessions \cup {s}
    BY <1>6 DEF tx_mgr_begin
  <2> HIDE DEF s
  <2>5. sessions' \subseteq TxSession
    BY <2>3, <2>4 DEF TypeOK
  <2>6. next_id' \in 1 .. MaxTx + 1
    <3>1. next_id \in 1 .. MaxTx + 1 /\ next_id <= MaxTx /\ next_id' = next_id + 1
      BY <2>0 DEF TypeOK
    <3> QED
      BY <3>1, ServerAssumption
  <2>7. local' \in [Thread -> TxSession \cup Begun \cup {NoSession}]
    BY <2>0 DEF TypeOK
  <2> QED
    BY <2>0, <2>5, <2>6, <2>7 DEF TypeOK
<1>7. ASSUME NEW c \in Thread, NEW s \in sessions, NEW k \in Key, tx_get(c, s, k) PROVE TypeOK'
  <2>1. [s EXCEPT !.read_set = @ \cup {k}] \in TxSession
    BY SessionFacts DEF TypeOK, Value
  <2> QED
    BY <1>7, <2>1 DEF tx_get, Replace, engineVars, lockVars, threadVars, history, TypeOK
<1>8. ASSUME NEW c \in Thread, NEW s \in sessions, NEW k \in Key, NEW v \in {None, s.id}, tx_put(c, s, k, v) PROVE TypeOK'
  <2> DEFINE r == [s EXCEPT !.write_buffer = Append(@, [key |-> k, value |-> v])]
  <2>1. s \in TxSession /\ v \in Value
    BY DEF TypeOK, TxSession, Value
  <2>2. r \in TxSession
    BY <2>1, SessionFacts, Zenon
  <2>3. sessions' = (sessions \ {s}) \cup {r}
    BY <1>8 DEF tx_put, Replace
  <2> HIDE DEF r
  <2> QED
    BY <1>8, <2>2, <2>3 DEF tx_put, engineVars, lockVars, threadVars, history, TypeOK
<1>9. ASSUME NEW c \in Thread, tx_get_misses(c) PROVE TypeOK'
  BY <1>9 DEF tx_get_misses, engineVars, txVars, history, TypeOK
<1>10. ASSUME NEW c \in Thread, drop_mgr(c) PROVE TypeOK'
  BY <1>10 DEF drop_mgr, engineVars, txVars, history, TypeOK
<1>11. ASSUME NEW c \in Thread, live_get(c) PROVE TypeOK'
  BY <1>11 DEF live_get, engineVars, lockVars, txVars, history, TypeOK
<1>12. ASSUME NEW c \in Thread, panics(c) PROVE TypeOK'
  BY <1>12 DEF panics, engineVars, lockVars, txVars, history, TypeOK
<1>13. ASSUME NEW c \in Thread, NEW s \in sessions, commit_tx(c, s) PROVE TypeOK'
  BY <1>13 DEF commit_tx, engineVars, lockVars, TypeOK
<1>14. ASSUME NEW c \in Thread, validate(c) PROVE TypeOK'
  <2>1. UNCHANGED << live, tree, saved, poisoned, readers, mgr, sessions, next_id, raced >> /\ Committing(c)
    BY <1>14 DEF validate, engineVars, lockVars, txVars, Committing
  <2>2. local[c].id \in Tx
    BY <2>1 DEF OneOwner, Open, TxSession
  <2>3. \/ pc' = [pc EXCEPT ![c] = "applying"] /\ UNCHANGED << local, results >>
        \/ /\ pc' = [pc EXCEPT ![c] = "idle"]
           /\ Report(local[c].id, "conflict")
           /\ local' = [local EXCEPT ![c] = NoSession]
    BY <1>14 DEF validate
  <2>4. CASE pc' = [pc EXCEPT ![c] = "applying"] /\ UNCHANGED << local, results >>
    BY <2>1, <2>4 DEF TypeOK
  <2>5. CASE /\ pc' = [pc EXCEPT ![c] = "idle"]
             /\ Report(local[c].id, "conflict")
             /\ local' = [local EXCEPT ![c] = NoSession]
    BY <2>1, <2>2, <2>5 DEF Report, TypeOK
  <2> QED
    BY <2>3, <2>4, <2>5
<1>15. ASSUME NEW c \in Thread, apply(c) PROVE TypeOK'
  <2>1. UNCHANGED << saved, poisoned, readers, mgr, sessions, next_id >>
        /\ pc' = [pc EXCEPT ![c] = "idle"] /\ local' = [local EXCEPT ![c] = NoSession] /\ Committing(c)
    BY <1>15 DEF apply, lockVars, txVars, Committing
  <2>2. local[c].id \in Tx /\ local[c].write_buffer \in Seq(TxOp)
    BY <2>1 DEF OneOwner, Open, TxSession
  <2>3. PICK n \in 0 .. Len(local[c].write_buffer) :
          /\ Write(SubSeq(local[c].write_buffer, 1, n))
          /\ raced' = Overtaken(Written(SubSeq(local[c].write_buffer, 1, n)))
          /\ Report(local[c].id, IF n = Len(local[c].write_buffer) THEN "committed" ELSE "failed")
    BY <1>15 DEF apply
  <2> DEFINE done == SubSeq(local[c].write_buffer, 1, n)
  <2>4. done \in Seq(TxOp)
    BY <2>2, PrefixFacts
  <2> HIDE DEF done
  <2>5. live' = Applied(live, done) /\ tree' = Applied(tree, done) /\ raced' = Overtaken(Written(done))
    BY <2>3 DEF Write, done
  <2>6. live' \in Data /\ tree' \in Data /\ Written(done) \in SUBSET Key
    BY <2>4, <2>5, AppliedFacts DEF TypeOK
  <2>7. raced' \in [Thread -> SUBSET Key]
    BY <2>5, <2>6 DEF Overtaken, TypeOK
  <2>8. results' \in [Tx -> SUBSET {"committed", "failed", "conflict", "rolled back"}]
    BY <2>2, <2>3 DEF Report, TypeOK
  <2> QED
    BY <2>1, <2>6, <2>7, <2>8 DEF TypeOK
<1>16. ASSUME NEW c \in Thread, NEW s \in sessions, rollback_tx(c, s) PROVE TypeOK'
  <2>1. s.id \in Tx
    BY DEF TypeOK, TxSession
  <2> QED
    BY <1>16, <2>1 DEF rollback_tx, Report, engineVars, lockVars, threadVars, TypeOK
<1>17. CASE UNCHANGED vars
  BY <1>17 DEF vars, engineVars, lockVars, txVars, threadVars, history, TypeOK
<1> QED
  BY <1>1, <1>2, <1>3, <1>4, <1>5, <1>6, <1>7, <1>8, <1>9, <1>10, <1>11, <1>12, <1>13, <1>14,
     <1>15, <1>16, <1>17 DEF Next, Step

LEMMA BeginNext == Inv /\ [Next]_vars => BeginHolds'
<1> SUFFICES ASSUME Inv, [Next]_vars PROVE BeginHolds'
  OBVIOUS
<1>0. TypeOK /\ BeginHolds
  BY DEF Inv
<1>a. ASSUME readers \subseteq readers', tree' = tree \/ readers = {},
             \A d \in Thread : pc'[d] = "beginning" => pc[d] = "beginning" /\ local'[d] = local[d]
      PROVE  BeginHolds'
  BY <1>0, <1>a DEF BeginHolds
<1> USE <1>0 DEF TypeOK
<1>1. ASSUME NEW c \in Thread, NEW k \in Key, NEW v \in {None, Direct}, handle_put(c, k, v) PROVE BeginHolds'
  BY <1>1, <1>a DEF handle_put, CanWrite, lockVars, threadVars
<1>2. ASSUME NEW c \in Thread, handle_scan_inverted(c) PROVE BeginHolds'
  BY <1>2, <1>a DEF handle_scan_inverted, lockVars
<1>3. ASSUME NEW c \in Thread, handle_snap_create(c) PROVE BeginHolds'
  BY <1>3, <1>a DEF handle_snap_create, lockVars, threadVars
<1>4. ASSUME NEW c \in Thread, handle_snap_restore(c) PROVE BeginHolds'
  BY <1>4, <1>a DEF handle_snap_restore, CanWrite, lockVars, threadVars
<1>5. ASSUME NEW c \in Thread, NEW b \in 0 .. 3, begin_tx(c, b) PROVE BeginHolds'
  <2>1. readers' = readers \cup {c} /\ pc' = [pc EXCEPT ![c] = "beginning"] /\ UNCHANGED tree
        /\ local' = [local EXCEPT ![c] = [id |-> 0, isolation |-> from_byte(b), snapshot |-> tree]]
    BY <1>5 DEF begin_tx, engineVars
  <2>2. from_byte(b) \in Isolation
    BY DEF from_byte, Isolation
  <2>3. local'[c] \in Begun /\ local'[c].snapshot = tree
    BY <2>1, <2>2 DEF Begun
  <2>4. \A d \in Thread : d # c => pc'[d] = pc[d] /\ local'[d] = local[d]
    BY <2>1
  <2> QED
    BY <2>1, <2>3, <2>4 DEF BeginHolds
<1>6. ASSUME NEW c \in Thread, tx_mgr_begin(c) PROVE BeginHolds'
  <2>1. readers' = readers \ {c} /\ pc' = [pc EXCEPT ![c] = "idle"] /\ UNCHANGED tree
        /\ local' = [local EXCEPT ![c] = NoSession]
    BY <1>6 DEF tx_mgr_begin, engineVars
  <2>2. \A d \in Thread : d # c => pc'[d] = pc[d] /\ local'[d] = local[d]
    BY <2>1
  <2> QED
    BY <2>1, <2>2 DEF BeginHolds
<1>7. ASSUME NEW c \in Thread, NEW s \in sessions, NEW k \in Key, tx_get(c, s, k) PROVE BeginHolds'
  BY <1>7, <1>a DEF tx_get, engineVars, lockVars, threadVars
<1>8. ASSUME NEW c \in Thread, NEW s \in sessions, NEW k \in Key, NEW v \in {None, s.id}, tx_put(c, s, k, v) PROVE BeginHolds'
  BY <1>8, <1>a DEF tx_put, engineVars, lockVars, threadVars
<1>9. ASSUME NEW c \in Thread, tx_get_misses(c) PROVE BeginHolds'
  BY <1>9, <1>a DEF tx_get_misses, engineVars
<1>10. ASSUME NEW c \in Thread, drop_mgr(c) PROVE BeginHolds'
  BY <1>10, <1>a DEF drop_mgr, engineVars
<1>11. ASSUME NEW c \in Thread, live_get(c) PROVE BeginHolds'
  BY <1>11, <1>a DEF live_get, engineVars, lockVars
<1>12. ASSUME NEW c \in Thread, panics(c) PROVE BeginHolds'
  BY <1>12, <1>a DEF panics, engineVars, lockVars
<1>13. ASSUME NEW c \in Thread, NEW s \in sessions, commit_tx(c, s) PROVE BeginHolds'
  <2>1. pc' = [pc EXCEPT ![c] = "validating"] \/ pc' = [pc EXCEPT ![c] = "applying"]
    BY <1>13 DEF commit_tx
  <2>2. UNCHANGED << tree, readers >> /\ local' = [local EXCEPT ![c] = s]
    BY <1>13 DEF commit_tx, engineVars, lockVars
  <2>3. \A d \in Thread : pc'[d] = "beginning" => pc[d] = "beginning" /\ local'[d] = local[d]
    <3>1. CASE pc' = [pc EXCEPT ![c] = "validating"]
      BY <2>2, <3>1
    <3>2. CASE pc' = [pc EXCEPT ![c] = "applying"]
      BY <2>2, <3>2
    <3> QED
      BY <2>1, <3>1, <3>2
  <2> QED
    BY <1>a, <2>2, <2>3
<1>14. ASSUME NEW c \in Thread, validate(c) PROVE BeginHolds'
  <2>1. \/ pc' = [pc EXCEPT ![c] = "applying"] /\ UNCHANGED local
        \/ pc' = [pc EXCEPT ![c] = "idle"] /\ local' = [local EXCEPT ![c] = NoSession]
    BY <1>14 DEF validate
  <2>2. UNCHANGED << tree, readers >>
    BY <1>14 DEF validate, engineVars, lockVars
  <2>3. CASE pc' = [pc EXCEPT ![c] = "applying"] /\ UNCHANGED local
    BY <1>a, <2>2, <2>3
  <2>4. CASE pc' = [pc EXCEPT ![c] = "idle"] /\ local' = [local EXCEPT ![c] = NoSession]
    BY <1>a, <2>2, <2>4
  <2> QED
    BY <2>1, <2>3, <2>4
<1>15. ASSUME NEW c \in Thread, apply(c) PROVE BeginHolds'
  <2>1. readers = {} /\ UNCHANGED readers
        /\ pc' = [pc EXCEPT ![c] = "idle"] /\ local' = [local EXCEPT ![c] = NoSession]
    BY <1>15 DEF apply, lockVars
  <2> QED
    BY <1>a, <2>1
<1>16. ASSUME NEW c \in Thread, NEW s \in sessions, rollback_tx(c, s) PROVE BeginHolds'
  BY <1>16, <1>a DEF rollback_tx, engineVars, lockVars, threadVars
<1>17. CASE UNCHANGED vars
  BY <1>17, <1>a DEF vars, engineVars, lockVars, threadVars
<1> HIDE <1>0 DEF TypeOK
<1> QED
  BY <1>1, <1>2, <1>3, <1>4, <1>5, <1>6, <1>7, <1>8, <1>9, <1>10, <1>11, <1>12, <1>13, <1>14,
     <1>15, <1>16, <1>17 DEF Next, Step

LEMMA OwnerNext == Inv /\ [Next]_vars => OneOwner'
<1> SUFFICES ASSUME Inv, [Next]_vars PROVE OneOwner'
  OBVIOUS
<1>0. TypeOK /\ BeginHolds /\ OneOwner /\ Reported
  BY DEF Inv
<1>i. /\ \A s \in sessions : s \in TxSession /\ s.id \in Tx
      /\ \A d \in Thread : Committing(d) => local[d] \in TxSession /\ local[d].id \in Tx
  BY <1>0 DEF OneOwner, Open, TxSession
\* At most the transaction t is closed.
<1>a. ASSUME NEW t, UNCHANGED next_id,
             \A s \in sessions' : s \in sessions /\ s.id # t,
             \A d \in Thread : Committing(d)' => Committing(d) /\ local'[d] = local[d] /\ local[d].id # t,
             \A u \in Tx : u # t => results'[u] = results[u]
      PROVE  OneOwner'
  <2>1. \A s \in sessions' : Open(s)'
    BY <1>0, <1>i, <1>a DEF OneOwner, Open
  <2>2. \A d \in Thread : Committing(d)' => Open(local[d])'
    BY <1>0, <1>i, <1>a DEF OneOwner, Open
  <2>3. /\ \A s, r \in sessions' : s.id = r.id => s = r
        /\ \A s \in sessions', d \in Thread : Committing(d)' => s.id # local'[d].id
        /\ \A d, e \in Thread : Committing(d)' /\ Committing(e)' /\ d # e => local'[d].id # local'[e].id
    BY <1>0, <1>a DEF OneOwner
  <2> QED
    BY <2>1, <2>2, <2>3 DEF OneOwner
\* No transaction is closed.
<1>b. ASSUME UNCHANGED << sessions, next_id, results >>,
             \A d \in Thread : Committing(d)' => Committing(d) /\ local'[d] = local[d]
      PROVE  OneOwner'
  <2>1. 0 \notin Tx
    BY DEF Tx
  <2> QED
    BY <1>a, <1>b, <1>i, <2>1
<1>1. ASSUME NEW c \in Thread, NEW k \in Key, NEW v \in {None, Direct}, handle_put(c, k, v) PROVE OneOwner'
  BY <1>1, <1>b DEF handle_put, txVars, threadVars, Committing
<1>2. ASSUME NEW c \in Thread, handle_scan_inverted(c) PROVE OneOwner'
  BY <1>0, <1>2, <1>b DEF handle_scan_inverted, txVars, history, Committing, TypeOK
<1>3. ASSUME NEW c \in Thread, handle_snap_create(c) \/ handle_snap_restore(c) PROVE OneOwner'
  BY <1>3, <1>b DEF handle_snap_create, handle_snap_restore, txVars, threadVars, history, Committing
<1>4. ASSUME NEW c \in Thread, NEW b \in 0 .. 3, begin_tx(c, b) PROVE OneOwner'
  <2>1. UNCHANGED << sessions, next_id, results >> /\ pc' = [pc EXCEPT ![c] = "beginning"]
        /\ local' = [local EXCEPT ![c] = [id |-> 0, isolation |-> from_byte(b), snapshot |-> tree]]
    BY <1>4 DEF begin_tx, txVars, history
  <2> QED
    BY <1>0, <1>b, <2>1 DEF TypeOK, Committing
<1>5. ASSUME NEW c \in Thread, tx_get_misses(c) \/ drop_mgr(c) \/ live_get(c) \/ panics(c) PROVE OneOwner'
  <2>1. UNCHANGED << sessions, next_id, results, local >>
    BY <1>5 DEF tx_get_misses, drop_mgr, live_get, panics, txVars, history
  <2>2. \E where \in {"missed", "fallback", "idle", "dead"} : pc' = [pc EXCEPT ![c] = where]
    BY <1>5 DEF tx_get_misses, drop_mgr, live_get, panics
  <2> QED
    BY <1>0, <1>b, <2>1, <2>2 DEF TypeOK, Committing
<1>6. ASSUME NEW c \in Thread, validate(c) PROVE OneOwner'
  <2>1. \/ pc' = [pc EXCEPT ![c] = "applying"] /\ UNCHANGED << local, results >>
        \/ /\ pc' = [pc EXCEPT ![c] = "idle"]
           /\ Report(local[c].id, "conflict")
           /\ local' = [local EXCEPT ![c] = NoSession]
    BY <1>6 DEF validate
  <2>2. UNCHANGED << sessions, next_id >> /\ Committing(c)
    BY <1>6 DEF validate, txVars, Committing
  <2>3. CASE pc' = [pc EXCEPT ![c] = "applying"] /\ UNCHANGED << local, results >>
    BY <1>0, <1>b, <2>2, <2>3 DEF TypeOK, Committing
  <2>4. CASE /\ pc' = [pc EXCEPT ![c] = "idle"]
             /\ Report(local[c].id, "conflict")
             /\ local' = [local EXCEPT ![c] = NoSession]
    <3>1. \A u \in Tx : u # local[c].id => results'[u] = results[u]
      BY <1>0, <2>4 DEF Report, TypeOK
    <3>2. \A d \in Thread : Committing(d)' => d # c /\ Committing(d) /\ local'[d] = local[d]
      BY <1>0, <2>4 DEF TypeOK, Committing
    <3>3. /\ \A s \in sessions' : s \in sessions /\ s.id # local[c].id
          /\ \A d \in Thread : Committing(d)' => local[d].id # local[c].id
      BY <1>0, <2>2, <3>2 DEF OneOwner
    <3> QED
      BY <1>a, <2>2, <3>1, <3>2, <3>3
  <2> QED
    BY <2>1, <2>3, <2>4
<1>7. ASSUME NEW c \in Thread, apply(c) PROVE OneOwner'
  <2>1. UNCHANGED << sessions, next_id >> /\ Committing(c)
        /\ pc' = [pc EXCEPT ![c] = "idle"] /\ local' = [local EXCEPT ![c] = NoSession]
    BY <1>7 DEF apply, txVars, Committing
  <2>2. \E what : Report(local[c].id, what)
    BY <1>7 DEF apply
  <2>3. \A u \in Tx : u # local[c].id => results'[u] = results[u]
    BY <1>0, <2>2 DEF Report, TypeOK
  <2>4. \A d \in Thread : Committing(d)' => d # c /\ Committing(d) /\ local'[d] = local[d]
    BY <1>0, <2>1 DEF TypeOK, Committing
  <2>5. /\ \A s \in sessions' : s \in sessions /\ s.id # local[c].id
        /\ \A d \in Thread : Committing(d)' => local[d].id # local[c].id
    BY <1>0, <2>1, <2>4 DEF OneOwner
  <2> QED
    BY <1>a, <2>1, <2>3, <2>4, <2>5
<1>8. ASSUME NEW c \in Thread, NEW s \in sessions, rollback_tx(c, s) PROVE OneOwner'
  <2>1. sessions' = sessions \ {s} /\ UNCHANGED << next_id, pc, local >>
    BY <1>8 DEF rollback_tx, threadVars
  <2>2. \A u \in Tx : u # s.id => results'[u] = results[u]
    BY <1>0, <1>8 DEF rollback_tx, Report, TypeOK
  <2>3. \A d \in Thread : Committing(d)' => Committing(d) /\ local'[d] = local[d] /\ local[d].id # s.id
    BY <1>0, <2>1 DEF OneOwner, Committing
  <2>4. \A r \in sessions' : r \in sessions /\ r.id # s.id
    BY <1>0, <2>1 DEF OneOwner
  <2> QED
    BY <1>a, <2>1, <2>2, <2>3, <2>4
<1>9. ASSUME NEW c \in Thread, tx_mgr_begin(c) PROVE OneOwner'
  <2>0. PICK s : s = [id |-> next_id, isolation |-> local[c].isolation, snapshot |-> local[c].snapshot,
                      write_buffer |-> << >>, read_set |-> {}]
    BY Zenon
  <2>1. UNCHANGED results /\ next_id' = next_id + 1 /\ pc' = [pc EXCEPT ![c] = "idle"]
        /\ local' = [local EXCEPT ![c] = NoSession] /\ sessions' = sessions \cup {s} /\ next_id <= MaxTx
    BY <1>9, <2>0 DEF tx_mgr_begin, history
  <2>2. s \in TxSession
    <3>1. sessions' \subseteq TxSession
      BY TypeNext DEF TypeOK
    <3> QED
      BY <2>1, <3>1
  <2>3. s.id = next_id /\ s.write_buffer = << >> /\ s.read_set = {}
    BY <2>0
  <2>4. next_id \in Nat /\ next_id \in Tx
    <3>1. next_id \in 1 .. MaxTx + 1
      BY <1>0 DEF TypeOK
    <3> QED
      BY <2>1, <3>1, ServerAssumption DEF Tx
  <2>5. results[next_id] = {}
    BY <1>0, <2>4 DEF Reported
  <2>6. \A d \in Thread : Committing(d)' => Committing(d) /\ local'[d] = local[d]
    BY <1>0, <2>1 DEF TypeOK, Committing
  <2>7. /\ \A r \in sessions : r.id # next_id
        /\ \A d \in Thread : Committing(d) => local[d].id # next_id
    BY <1>0, <1>i, <2>4 DEF OneOwner, Open, Tx
  <2>8. \A r \in sessions' : Open(r)'
    <3>1. Open(s)'
      BY <2>1, <2>2, <2>3, <2>4, <2>5 DEF Open
    <3>2. \A r \in sessions : Open(r)'
      BY <1>0, <1>i, <2>1, <2>4 DEF OneOwner, Open, Tx
    <3> QED
      BY <2>1, <3>1, <3>2
  <2>9. \A d \in Thread : Committing(d)' => Open(local[d])'
    BY <1>0, <1>i, <2>1, <2>4, <2>6 DEF OneOwner, Open, Tx
  <2> QED
    BY <1>0, <2>1, <2>3, <2>6, <2>7, <2>8, <2>9 DEF OneOwner
\* A session is exchanged for one with the same number.
<1>c. ASSUME NEW s \in sessions, NEW r, Replace(s, r), Open(r), r.id = s.id, UNCHANGED << next_id, results, pc, local >>
      PROVE  OneOwner'
  <2>1. \A q \in sessions' : (q \in sessions /\ q # s) \/ q = r
    BY <1>c DEF Replace
  <2>2. \A q \in sessions' : Open(q)'
    BY <1>0, <1>c, <2>1 DEF OneOwner, Open
  <2>3. \A d \in Thread : Committing(d)' => Open(local[d])'
    BY <1>0, <1>c DEF OneOwner, Open, Committing
  <2>4. /\ \A q, p \in sessions' : q.id = p.id => q = p
        /\ \A q \in sessions', d \in Thread : Committing(d) => q.id # local[d].id
    BY <1>0, <1>c, <2>1 DEF OneOwner
  <2>5. \A d \in Thread : Committing(d)' = Committing(d) /\ local'[d] = local[d]
    BY <1>c DEF Committing
  <2> QED
    BY <1>0, <2>2, <2>3, <2>4, <2>5 DEF OneOwner
<1>10. ASSUME NEW c \in Thread, NEW s \in sessions, NEW k \in Key, tx_get(c, s, k) PROVE OneOwner'
  <2> DEFINE r == [s EXCEPT !.read_set = @ \cup {k}]
  <2>1. UNCHANGED << next_id, results, pc, local >> /\ Replace(s, r) /\ s.isolation = "Serializable"
    BY <1>10 DEF tx_get, threadVars, history
  <2>2. Open(s) /\ s \in TxSession
    BY <1>0, <1>i DEF OneOwner
  <2>3. r \in TxSession
    BY <2>2, SessionFacts, Zenon DEF Value
  <2>4. r.id = s.id /\ r.write_buffer = s.write_buffer /\ r.isolation = s.isolation
    BY <2>2 DEF TxSession
  <2> HIDE DEF r
  <2>5. Open(r)
    BY <2>1, <2>2, <2>3, <2>4 DEF Open
  <2> QED
    BY <1>c, <2>1, <2>4, <2>5
<1>11. ASSUME NEW c \in Thread, NEW s \in sessions, NEW k \in Key, NEW v \in {None, s.id}, tx_put(c, s, k, v) PROVE OneOwner'
  <2> DEFINE b == Append(s.write_buffer, [key |-> k, value |-> v])
             r == [s EXCEPT !.write_buffer = b]
  <2>1. UNCHANGED << next_id, results, pc, local >> /\ Replace(s, r)
    BY <1>11 DEF tx_put, threadVars, history
  <2>2. Open(s) /\ s \in TxSession /\ v \in Value
    BY <1>0, <1>i DEF OneOwner, Value
  <2>3. r \in TxSession /\ \A i \in DOMAIN b : (i \in DOMAIN s.write_buffer /\ b[i] = s.write_buffer[i]) \/ b[i].value = v
    BY <2>2, SessionFacts, Zenon
  <2> HIDE DEF b
  <2>4. r.id = s.id /\ r.write_buffer = b /\ r.isolation = s.isolation /\ r.read_set = s.read_set
    BY <2>2 DEF TxSession
  <2> HIDE DEF r
  <2>5. Open(r)
    BY <2>2, <2>3, <2>4 DEF Open
  <2> QED
    BY <1>c, <2>1, <2>4, <2>5
<1>12. ASSUME NEW c \in Thread, NEW s \in sessions, commit_tx(c, s) PROVE OneOwner'
  <2>1. UNCHANGED << next_id, results >> /\ sessions' = sessions \ {s} /\ local' = [local EXCEPT ![c] = s]
        /\ pc[c] = "idle" /\ \A d \in Thread : d # c => pc'[d] = pc[d]
    BY <1>0, <1>12 DEF commit_tx, TypeOK
  <2>2. local'[c] = s /\ \A d \in Thread : d # c => Committing(d)' = Committing(d) /\ local'[d] = local[d]
    BY <1>0, <2>1 DEF TypeOK, Committing
  <2>3. \A q \in sessions' : Open(q)' /\ q \in sessions /\ q # s
    BY <1>0, <2>1 DEF OneOwner, Open
  <2>4. ASSUME NEW d \in Thread, Committing(d)' PROVE Open(local[d])'
    <3>1. Open(local'[d])
      BY <1>0, <2>2, <2>4 DEF OneOwner
    <3> QED
      BY <2>1, <3>1 DEF Open
  <2>5. \A q \in sessions', d \in Thread : Committing(d)' => q.id # local'[d].id
    BY <1>0, <2>2, <2>3 DEF OneOwner
  <2>6. \A d, e \in Thread : Committing(d)' /\ Committing(e)' /\ d # e => local'[d].id # local'[e].id
    BY <1>0, <2>2 DEF OneOwner
  <2> QED
    BY <1>0, <2>3, <2>4, <2>5, <2>6 DEF OneOwner
<1>13. CASE UNCHANGED vars
  BY <1>13, <1>b DEF vars, txVars, threadVars, history, Committing
<1> QED
  BY <1>1, <1>2, <1>3, <1>4, <1>5, <1>6, <1>7, <1>8, <1>9, <1>10,
     <1>11, <1>12, <1>13 DEF Next, Step

\* What a write does to the engine.
LEMMA WriteFacts ==
    ASSUME TypeOK, NEW b \in Seq(TxOp), Write(b)
    PROVE  /\ \A k \in Key : live'[k] = live[k] \/ \E i \in DOMAIN b : live'[k] = b[i].value
           /\ \A k \in Key \ Written(b) : tree'[k] = tree[k]
<1>1. live \in Data /\ tree \in Data
  BY DEF TypeOK
<1>2. live' = Applied(live, b) /\ tree' = Applied(tree, b)
  BY DEF Write
<1>3. \A k \in Key : \/ Applied(live, b)[k] = live[k]
                     \/ \E i \in DOMAIN b : Applied(live, b)[k] = b[i].value
  BY <1>1, AppliedFacts
<1>4. \A k \in Key : \/ Applied(tree, b)[k] = tree[k]
                     \/ \E i \in DOMAIN b : b[i].key = k
  BY <1>1, AppliedFacts
<1> QED
  BY <1>2, <1>3, <1>4 DEF Written

LEMMA ReportedNext == Inv /\ [Next]_vars => Reported'
<1> SUFFICES ASSUME Inv, [Next]_vars PROVE Reported'
  OBVIOUS
<1>0. TypeOK /\ OneOwner /\ Reported
  BY DEF Inv
<1>n. next_id \in Nat /\ next_id' \in Nat /\ \A t \in Tx : t \in Nat
  <2>1. next_id \in 1 .. MaxTx + 1
    BY <1>0 DEF TypeOK
  <2>2. next_id' \in 1 .. MaxTx + 1
    BY TypeNext DEF TypeOK
  <2> QED
    BY <2>1, <2>2, ServerAssumption DEF Tx
<1>a. ASSUME UNCHANGED << live, results >>, next_id <= next_id' PROVE Reported'
  BY <1>0, <1>n, <1>a DEF Reported
\* The first report of a transaction that was open.
<1>b. ASSUME NEW t \in Tx, NEW what \in Outcome, Report(t, what), UNCHANGED next_id, results[t] = {}, t < next_id,
             \A k \in Key : live'[k] = live[k] \/ live'[k] \notin Tx \/ (live'[k] = t /\ what \in {"committed", "failed"})
      PROVE  Reported'
  <2>1. results'[t] = {what} /\ \A u \in Tx : u # t => results'[u] = results[u]
    BY <1>0, <1>b DEF Report, TypeOK
  <2>2. \A k \in Key : live[k] # t
    BY <1>0, <1>b DEF Reported
  <2>3. \A u \in Tx : results'[u] = {} \/ (u < next_id' /\ \E w \in Outcome : results'[u] = {w})
    BY <1>0, <1>b, <2>1 DEF Reported
  <2>4. \A k \in Key : live'[k] \in Tx => results'[live'[k]] = {"committed"} \/ results'[live'[k]] = {"failed"}
    BY <1>0, <1>b, <2>1, <2>2 DEF Reported
  <2> QED
    BY <2>3, <2>4 DEF Reported
<1>1. ASSUME NEW c \in Thread, NEW k \in Key, NEW v \in {None, Direct}, handle_put(c, k, v) PROVE Reported'
  <2> DEFINE b == << [key |-> k, value |-> v] >>
  <2>1. b \in Seq(TxOp) /\ DOMAIN b = {1} /\ b[1].value = v
    BY DEF TxOp, Value, Direct
  <2> HIDE DEF b
  <2>2. Write(b)
    BY <1>1 DEF handle_put, b
  <2>3. v \notin Tx
    BY ServerAssumption DEF Tx, None, Direct
  <2>4. \A q \in Key : live'[q] = live[q] \/ live'[q] \notin Tx
    BY <1>0, <2>1, <2>2, <2>3, WriteFacts
  <2>5. UNCHANGED << results, next_id >>
    BY <1>1 DEF handle_put, txVars
  <2> QED
    BY <1>0, <2>4, <2>5 DEF Reported
<1>2. ASSUME NEW c \in Thread, NEW s \in sessions, rollback_tx(c, s) PROVE Reported'
  <2>1. Report(s.id, "rolled back") /\ UNCHANGED << next_id, live >>
    BY <1>2 DEF rollback_tx, engineVars
  <2>2. s.id \in Tx /\ results[s.id] = {} /\ s.id < next_id
    BY <1>0 DEF OneOwner, Open, TxSession
  <2> QED
    BY <1>b, <2>1, <2>2 DEF Outcome
<1>3. ASSUME NEW c \in Thread, validate(c) PROVE Reported'
  <2>1. UNCHANGED << next_id, live >> /\ Committing(c)
    BY <1>3 DEF validate, engineVars, txVars, Committing
  <2>2. local[c].id \in Tx /\ results[local[c].id] = {} /\ local[c].id < next_id
    BY <1>0, <2>1 DEF OneOwner, Open, TxSession
  <2>3. UNCHANGED results \/ Report(local[c].id, "conflict")
    BY <1>3 DEF validate
  <2>4. CASE UNCHANGED results
    BY <1>a, <1>n, <2>1, <2>4
  <2>5. CASE Report(local[c].id, "conflict")
    BY <1>b, <2>1, <2>2, <2>5 DEF Outcome
  <2> QED
    BY <2>3, <2>4, <2>5
<1>4. ASSUME NEW c \in Thread, apply(c) PROVE Reported'
  <2>1. UNCHANGED next_id /\ Committing(c)
    BY <1>4 DEF apply, txVars, Committing
  <2>2. Open(local[c])
    BY <1>0, <2>1 DEF OneOwner
  <2>3. local[c].id \in Tx /\ results[local[c].id] = {} /\ local[c].id < next_id
        /\ local[c].write_buffer \in Seq(TxOp)
    BY <2>2 DEF Open, TxSession
  <2>4. PICK n \in 0 .. Len(local[c].write_buffer) :
          /\ Write(SubSeq(local[c].write_buffer, 1, n))
          /\ Report(local[c].id, IF n = Len(local[c].write_buffer) THEN "committed" ELSE "failed")
    BY <1>4 DEF apply
  <2> DEFINE done == SubSeq(local[c].write_buffer, 1, n)
  <2>5. done \in Seq(TxOp)
        /\ \A i \in DOMAIN done : i \in DOMAIN local[c].write_buffer /\ done[i] = local[c].write_buffer[i]
    BY <2>3, PrefixFacts
  <2> HIDE DEF done
  <2>6. Write(done)
    BY <2>4 DEF done
  <2>7. \A i \in DOMAIN done : done[i].value \in {None, local[c].id}
    BY <2>2, <2>5 DEF Open
  <2>8. None \notin Tx
    BY DEF None, Tx
  <2>9. \A k \in Key : live'[k] = live[k] \/ live'[k] \notin Tx \/ live'[k] = local[c].id
    BY <1>0, <2>5, <2>6, <2>7, <2>8, WriteFacts
  <2>10. \E what \in {"committed", "failed"} : Report(local[c].id, what)
    BY <2>4
  <2> QED
    BY <1>b, <2>1, <2>3, <2>9, <2>10 DEF Outcome
<1>5. ASSUME NEW c \in Thread, tx_mgr_begin(c) PROVE Reported'
  BY <1>5, <1>a, <1>n DEF tx_mgr_begin, engineVars, history
<1>6. ASSUME NEW c \in Thread, NEW s \in sessions, NEW k \in Key, tx_get(c, s, k) PROVE Reported'
  BY <1>6, <1>a, <1>n DEF tx_get, engineVars, history
<1>7. ASSUME NEW c \in Thread, NEW s \in sessions, NEW k \in Key, NEW v \in {None, s.id}, tx_put(c, s, k, v) PROVE Reported'
  BY <1>7, <1>a, <1>n DEF tx_put, engineVars, history
<1>8. ASSUME NEW c \in Thread, NEW s \in sessions, commit_tx(c, s) PROVE Reported'
  BY <1>8, <1>a, <1>n DEF commit_tx, engineVars
<1>9. ASSUME NEW c \in Thread, NEW b \in 0 .. 3, begin_tx(c, b) PROVE Reported'
  BY <1>9, <1>a, <1>n DEF begin_tx, engineVars, txVars, history
<1>10. ASSUME NEW c \in Thread, handle_scan_inverted(c) \/ handle_snap_create(c) \/ handle_snap_restore(c) PROVE Reported'
  BY <1>10, <1>a, <1>n DEF handle_scan_inverted, handle_snap_create, handle_snap_restore, txVars, history
<1>11. ASSUME NEW c \in Thread, tx_get_misses(c) \/ drop_mgr(c) \/ live_get(c) \/ panics(c) PROVE Reported'
  BY <1>11, <1>a, <1>n DEF tx_get_misses, drop_mgr, live_get, panics, engineVars, txVars, history
<1>12. CASE UNCHANGED vars
  BY <1>12, <1>a, <1>n DEF vars, engineVars, txVars, history
<1> QED
  BY <1>1, <1>2, <1>3, <1>4, <1>5, <1>6, <1>7, <1>8, <1>9, <1>10, <1>11, <1>12 DEF Next, Step

LEMMA ValidatedNext == Inv /\ [Next]_vars => Validated'
<1> SUFFICES ASSUME Inv, [Next]_vars PROVE Validated'
  OBVIOUS
<1>0. TypeOK /\ OneOwner /\ Validated
  BY DEF Inv
<1>r. \A d \in Thread : pc[d] = "applying" => local[d].read_set \in SUBSET Key
  BY <1>0 DEF OneOwner, Committing, Open, TxSession
\* Threads that go on waiting, and what is written meanwhile.
<1>a. ASSUME NEW d \in Thread, pc[d] = "applying", local'[d] = local[d], raced[d] \subseteq raced'[d],
             \A k \in Key \ raced'[d] : tree'[k] = tree[k]
      PROVE  \A k \in local'[d].read_set \ raced'[d] : Unchanged(local[d], k)'
  BY <1>0, <1>r, <1>a DEF Validated, Unchanged
<1>b. ASSUME UNCHANGED << tree, raced >>,
             \A d \in Thread : pc'[d] = "applying" => pc[d] = "applying" /\ local'[d] = local[d]
      PROVE  Validated'
  BY <1>a, <1>b DEF Validated
<1>c. ASSUME NEW keys \in SUBSET Key, raced' = Overtaken(keys), \A k \in Key \ keys : tree'[k] = tree[k],
             \A d \in Thread : pc'[d] = "applying" => pc[d] = "applying" /\ local'[d] = local[d]
      PROVE  Validated'
  <2>1. \A d \in Thread : pc[d] = "applying" => raced'[d] = raced[d] \cup keys
    BY <1>c DEF Overtaken
  <2> QED
    BY <1>a, <1>c, <2>1 DEF Validated
<1>1. ASSUME NEW c \in Thread, NEW k \in Key, NEW v \in {None, Direct}, handle_put(c, k, v) PROVE Validated'
  <2> DEFINE b == << [key |-> k, value |-> v] >>
  <2>1. b \in Seq(TxOp) /\ DOMAIN b = {1} /\ b[1].key = k
    BY DEF TxOp, Value, Direct
  <2> HIDE DEF b
  <2>2. Write(b) /\ raced' = Overtaken({k}) /\ UNCHANGED << pc, local >>
    BY <1>1 DEF handle_put, threadVars, b
  <2>3. Written(b) = {k}
    BY <2>1 DEF Written
  <2> QED
    BY <1>0, <1>c, <2>1, <2>2, <2>3, WriteFacts
<1>2. ASSUME NEW c \in Thread, handle_snap_restore(c) PROVE Validated'
  <2>1. tree' = saved /\ raced' = Overtaken({k \in Key : tree[k] # saved[k]}) /\ UNCHANGED << pc, local >>
    BY <1>2 DEF handle_snap_restore, threadVars
  <2> QED
    BY <1>c, <2>1
<1>3. ASSUME NEW c \in Thread, apply(c) PROVE Validated'
  <2>1. pc' = [pc EXCEPT ![c] = "idle"] /\ local' = [local EXCEPT ![c] = NoSession] /\ Committing(c)
    BY <1>3 DEF apply, Committing
  <2>2. local[c].write_buffer \in Seq(TxOp)
    BY <1>0, <2>1 DEF OneOwner, Open, TxSession
  <2>3. PICK n \in 0 .. Len(local[c].write_buffer) :
          /\ Write(SubSeq(local[c].write_buffer, 1, n))
          /\ raced' = Overtaken(Written(SubSeq(local[c].write_buffer, 1, n)))
    BY <1>3 DEF apply
  <2> DEFINE done == SubSeq(local[c].write_buffer, 1, n)
  <2>4. done \in Seq(TxOp)
    BY <2>2, PrefixFacts
  <2> HIDE DEF done
  <2>5. Write(done) /\ raced' = Overtaken(Written(done))
    BY <2>3 DEF done
  <2>6. tree \in Data
    BY <1>0 DEF TypeOK
  <2>7. Written(done) \in SUBSET Key
    BY <2>4, <2>6, AppliedFacts
  <2>8. \A k \in Key \ Written(done) : tree'[k] = tree[k]
    BY <1>0, <2>4, <2>5, WriteFacts
  <2>9. \A d \in Thread : pc'[d] = "applying" => pc[d] = "applying" /\ local'[d] = local[d]
    BY <1>0, <2>1 DEF TypeOK
  <2> QED
    BY <1>c, <2>5, <2>7, <2>8, <2>9
<1>4. ASSUME NEW c \in Thread, NEW s \in sessions, commit_tx(c, s) PROVE Validated'
  <2>1. local' = [local EXCEPT ![c] = s] /\ UNCHANGED tree /\ raced' = [raced EXCEPT ![c] = {}]
        /\ \A d \in Thread : d # c => pc'[d] = pc[d]
    BY <1>0, <1>4 DEF commit_tx, engineVars, TypeOK
  <2>2. pc'[c] = "applying" => s.isolation # "Serializable"
    BY <1>0, <1>4 DEF commit_tx, TypeOK
  <2>3. local'[c] = s /\ (s.isolation # "Serializable" => s.read_set = {})
    BY <1>0, <2>1 DEF TypeOK, OneOwner, Open
  <2>4. ASSUME NEW d \in Thread, d # c, pc'[d] = "applying"
        PROVE  \A k \in local'[d].read_set \ raced'[d] : Unchanged(local[d], k)'
    BY <1>0, <1>a, <2>1, <2>4 DEF TypeOK
  <2> QED
    BY <2>2, <2>3, <2>4 DEF Validated
<1>5. ASSUME NEW c \in Thread, validate(c) PROVE Validated'
  <2>1. UNCHANGED << tree, raced >> /\ pc[c] = "validating"
    BY <1>5 DEF validate, engineVars
  <2>2. \/ pc' = [pc EXCEPT ![c] = "applying"] /\ UNCHANGED local /\ \A k \in local[c].read_set : Unchanged(local[c], k)
        \/ pc' = [pc EXCEPT ![c] = "idle"] /\ local' = [local EXCEPT ![c] = NoSession]
    BY <1>5 DEF validate
  <2>3. CASE pc' = [pc EXCEPT ![c] = "idle"] /\ local' = [local EXCEPT ![c] = NoSession]
    BY <1>0, <1>b, <2>1, <2>3 DEF TypeOK
  <2>4. CASE pc' = [pc EXCEPT ![c] = "applying"] /\ UNCHANGED local /\ \A k \in local[c].read_set : Unchanged(local[c], k)
    <3>1. \A d \in Thread : d # c => pc'[d] = pc[d]
      BY <1>0, <2>4 DEF TypeOK
    <3>2. \A k \in local[c].read_set : tree[k] = local[c].snapshot[k]
      BY <2>4 DEF Unchanged
    <3> QED
      BY <1>0, <2>1, <2>4, <3>1, <3>2 DEF Validated, Unchanged
  <2> QED
    BY <2>2, <2>3, <2>4
<1> USE DEF TypeOK
<1>6. ASSUME NEW c \in Thread, tx_mgr_begin(c) PROVE Validated'
  BY <1>0, <1>6, <1>b DEF tx_mgr_begin, engineVars, history
<1>7. ASSUME NEW c \in Thread, NEW s \in sessions, NEW k \in Key, tx_get(c, s, k) PROVE Validated'
  BY <1>7, <1>b DEF tx_get, engineVars, threadVars, history
<1>8. ASSUME NEW c \in Thread, NEW s \in sessions, NEW k \in Key, NEW v \in {None, s.id}, tx_put(c, s, k, v) PROVE Validated'
  BY <1>8, <1>b DEF tx_put, engineVars, threadVars, history
<1>9. ASSUME NEW c \in Thread, NEW b \in 0 .. 3, begin_tx(c, b) PROVE Validated'
  BY <1>0, <1>9, <1>b DEF begin_tx, engineVars, history
<1>10. ASSUME NEW c \in Thread, handle_scan_inverted(c) PROVE Validated'
  BY <1>0, <1>10, <1>b DEF handle_scan_inverted, history
<1>11. ASSUME NEW c \in Thread, tx_get_misses(c) \/ drop_mgr(c) \/ live_get(c) \/ panics(c) PROVE Validated'
  <2>1. UNCHANGED << tree, raced, local >>
    BY <1>11 DEF tx_get_misses, drop_mgr, live_get, panics, engineVars, history
  <2>2. \E where \in {"missed", "fallback", "idle", "dead"} : pc' = [pc EXCEPT ![c] = where]
    BY <1>11 DEF tx_get_misses, drop_mgr, live_get, panics
  <2> QED
    BY <1>0, <1>b, <2>1, <2>2
<1>12. ASSUME NEW c \in Thread, handle_snap_create(c) PROVE Validated'
  BY <1>12, <1>b DEF handle_snap_create, threadVars, history
<1>13. ASSUME NEW c \in Thread, NEW s \in sessions, rollback_tx(c, s) PROVE Validated'
  BY <1>13, <1>b DEF rollback_tx, engineVars, threadVars
<1>14. CASE UNCHANGED vars
  BY <1>14, <1>b DEF vars, engineVars, threadVars, history
<1> HIDE DEF TypeOK
<1> QED
  BY <1>1, <1>2, <1>3, <1>4, <1>5, <1>6, <1>7, <1>8, <1>9, <1>10, <1>11, <1>12, <1>13, <1>14 DEF Next, Step

-----------------------------------------------------------------------------
LEMMA InvInit == Init => Inv
<1> SUFFICES ASSUME Init PROVE Inv
  OBVIOUS
<1>1. TypeOK
  BY TypeInit
<1>2. BeginHolds /\ OneOwner /\ Validated
  BY DEF Init, BeginHolds, OneOwner, Committing, Validated
<1>3. Reported
  BY DEF Init, Reported, Tx, None
<1> QED
  BY <1>1, <1>2, <1>3 DEF Inv

LEMMA InvNext == Inv /\ [Next]_vars => Inv'
BY TypeNext, BeginNext, OwnerNext, ReportedNext, ValidatedNext DEF Inv

LEMMA ServerInvariance == Spec => []Inv
BY InvInit, InvNext, PTL DEF Spec

(***************************************************************************)
(* The variables of the server keep their types: begin_tx registers only   *)
(* isolation levels there are, and a commit applies only operations that   *)
(* the transaction buffered.                                               *)
(***************************************************************************)
THEOREM ServerTypeCorrect == Spec => []TypeOK
<1>1. Inv => TypeOK
  BY DEF Inv
<1> QED
  BY <1>1, ServerInvariance, PTL

(***************************************************************************)
(* Of the threads that commit_tx and rollback_tx one transaction, one is   *)
(* told an outcome; and the engine has a value of the transaction only if  *)
(* that outcome is a commit, complete or not.                              *)
(***************************************************************************)
THEOREM OneOutcomeEach == Spec => []OneOutcome
<1>1. Inv => OneOutcome
  <2> SUFFICES ASSUME Inv PROVE OneOutcome
    OBVIOUS
  <2>0. OneOwner /\ Reported
    BY DEF Inv
  <2>1. ASSUME NEW t \in Tx
        PROVE  Cardinality(results[t]) <= 1 /\ (results[t] # {} => handle_tx_status(t) = "unknown")
    <3>1. results[t] = {} \/ \E what \in Outcome : results[t] = {what}
      BY <2>0 DEF Reported
    <3>2. CASE results[t] = {}
      BY <3>2, FS_EmptySet
    <3>3. ASSUME NEW what \in Outcome, results[t] = {what}
          PROVE  Cardinality(results[t]) <= 1 /\ handle_tx_status(t) = "unknown"
      <4>1. Cardinality({what}) = 1
        BY FS_Singleton, Zenon
      <4>2. \A s \in sessions : s.id # t
        BY <2>0, <3>3 DEF OneOwner, Open
      <4> QED
        BY <3>3, <4>1, <4>2 DEF handle_tx_status
    <3> QED
      BY <3>1, <3>2, <3>3
  <2>2. \A k \in Key : live[k] \in Tx => results[live[k]] \subseteq {"committed", "failed"} /\ results[live[k]] # {}
    BY <2>0 DEF Reported
  <2> QED
    BY <2>1, <2>2 DEF OneOutcome
<1> QED
  BY <1>1, ServerInvariance, PTL

(***************************************************************************)
(* A serializable commit applies over a read that is no longer current     *)
(* only if the key was written between its check and the write lock.       *)
(***************************************************************************)
THEOREM OnlyRacedAreStale == Spec => StaleOnlyRaced
<1>1. Inv => \A c \in Thread : apply(c) => \A k \in local[c].read_set \ raced[c] : Unchanged(local[c], k)
  BY DEF Inv, Validated, apply
<1> QED
  BY <1>1, ServerInvariance, PTL DEF StaleOnlyRaced

(***************************************************************************)
(* begin_tx registers a transaction with the HAMT state of the moment of   *)
(* the registration.                                                       *)
(***************************************************************************)
THEOREM SnapshotsCurrent == Spec => SnapshotCurrent
<1>1. Inv /\ [Next]_vars => \A s \in sessions' : s.id = next_id => s.snapshot = tree
  <2> SUFFICES ASSUME Inv, [Next]_vars PROVE \A s \in sessions' : s.id = next_id => s.snapshot = tree
    OBVIOUS
  <2>0. \A r \in sessions : r.id # next_id /\ r \in TxSession
    <3>1. next_id \in 1 .. MaxTx + 1
      BY DEF Inv, TypeOK
    <3> QED
      BY <3>1, ServerAssumption DEF Inv, OneOwner, Open, TxSession, Tx
  <2>a. ASSUME \A s \in sessions' : \E r \in sessions : s.id = r.id
        PROVE  \A s \in sessions' : s.id = next_id => s.snapshot = tree
    BY <2>0, <2>a
  <2>1. ASSUME NEW c \in Thread, tx_mgr_begin(c) PROVE \A s \in sessions' : s.id = next_id => s.snapshot = tree
    <3>1. local[c].snapshot = tree
      BY <2>1 DEF Inv, BeginHolds, tx_mgr_begin
    <3> QED
      BY <2>0, <2>1, <3>1 DEF tx_mgr_begin
  <2>2. ASSUME NEW c \in Thread, NEW r \in sessions, NEW k \in Key, tx_get(c, r, k)
        PROVE  \A s \in sessions' : \E q \in sessions : s.id = q.id
    BY <2>0, <2>2 DEF tx_get, Replace, TxSession
  <2>3. ASSUME NEW c \in Thread, NEW r \in sessions, NEW k \in Key, NEW v \in {None, r.id}, tx_put(c, r, k, v)
        PROVE  \A s \in sessions' : \E q \in sessions : s.id = q.id
    BY <2>0, <2>3 DEF tx_put, Replace, TxSession
  <2>4. ASSUME NEW c \in Thread, NEW r \in sessions, commit_tx(c, r) \/ rollback_tx(c, r)
        PROVE  \A s \in sessions' : \E q \in sessions : s.id = q.id
    BY <2>4 DEF commit_tx, rollback_tx
  <2>5. ASSUME NEW c \in Thread,
               \/ \E k \in Key, v \in {None, Direct} : handle_put(c, k, v)
               \/ handle_scan_inverted(c) \/ handle_snap_create(c) \/ handle_snap_restore(c)
               \/ \E b \in 0 .. 3 : begin_tx(c, b)
               \/ tx_get_misses(c) \/ drop_mgr(c) \/ live_get(c) \/ validate(c) \/ apply(c) \/ panics(c)
        PROVE  \A s \in sessions' : \E q \in sessions : s.id = q.id
    <3>1. UNCHANGED sessions
      BY <2>5, Zenon DEF handle_put, handle_scan_inverted, handle_snap_create, handle_snap_restore, begin_tx,
                  tx_get_misses, drop_mgr, live_get, validate, apply, panics, txVars
    <3> QED
      BY <3>1
  <2>6. CASE UNCHANGED vars
    BY <2>a, <2>6 DEF vars, txVars
  <2> QED
    BY <2>a, <2>1, <2>2, <2>3, <2>4, <2>5, <2>6 DEF Next, Step
<1> QED
  BY <1>1, ServerInvariance, PTL DEF Spec, SnapshotCurrent

(***************************************************************************)
(* The threads of the server never wait for each other in a circle: while  *)
(* some thread is inside a call, the locks that one of them waits for are  *)
(* free (begin_tx takes the engine and then the manager, tx_get the manager*)
(* and then the engine).                                                   *)
(***************************************************************************)
THEOREM SomeoneCanGoOn == Spec => []SomeoneReady
<1>1. TypeOK /\ TypeOK' /\ LocksHeld /\ [Next]_vars => LocksHeld'
  BY LocksNext
<1> QED
  BY LocksInit, <1>1, LocksSuffice, ServerTypeCorrect, PTL DEF Spec
=============================================================================
