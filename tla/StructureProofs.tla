-------------------------- MODULE StructureProofs ---------------------------
(***************************************************************************)
(* Theorems about two of the structures, for any sets of keys and values:  *)
(*   LruCache  the cache implements Recency (LruCorrect);                  *)
(*   Records   scans, range deletes and namespace deletes (ScansPage,      *)
(*             DeletesAreExact).                                           *)
(***************************************************************************)
EXTENDS LruCache, SequenceTheorems, FiniteSetTheorems, NaturalsInduction, TLAPS

-----------------------------------------------------------------------------
(***************************************************************************)
(* The cache.                                                              *)
(***************************************************************************)
(***************************************************************************)
(* The inductive invariant.  No two entries of the map have the same       *)
(* generation, so the order of use is total, and none has a generation     *)
(* that was not drawn yet.                                                 *)
(***************************************************************************)
Uses(m) ==
    /\ m = [k \in DOMAIN m |-> m[k]]
    /\ IsFiniteSet(DOMAIN m) /\ DOMAIN m \subseteq Key
    /\ \A k \in DOMAIN m : m[k].value \in Value /\ m[k].generation \in Nat
    /\ \A k, x \in DOMAIN m : m[k].generation = m[x].generation => k = x

Inv ==
    /\ Uses(entries) /\ generation \in Nat
    /\ \A k \in DOMAIN entries : entries[k].generation <= generation

-----------------------------------------------------------------------------
(***************************************************************************)
(* The ranks number the entries from 1, in the order of their generations. *)
(***************************************************************************)
LEMMA RankFacts ==
    ASSUME NEW m, Uses(m)
    PROVE  /\ Cardinality(DOMAIN m) \in Nat
           /\ \A x \in DOMAIN m : Rank(m, x) \in 1 .. Cardinality(DOMAIN m)
           /\ \A x, y \in DOMAIN m : m[x].generation < m[y].generation => Rank(m, x) < Rank(m, y)
           /\ \A i \in 1 .. Cardinality(DOMAIN m) : \E x \in DOMAIN m : Rank(m, x) = i
<1> DEFINE D    == DOMAIN m
           n    == Cardinality(D)
           S(x) == {y \in D : m[y].generation <= m[x].generation}
<1>1. IsFiniteSet(D) /\ n \in Nat
  BY FS_CardinalityType DEF Uses
<1>2. \A x \in D : m[x].generation \in Nat
  BY DEF Uses
<1>3. ASSUME NEW x \in D
      PROVE  /\ S(x) \subseteq D /\ x \in S(x) /\ IsFiniteSet(S(x))
             /\ Cardinality(S(x)) \in 1 .. n /\ Rank(m, x) = Cardinality(S(x))
  <2>1. S(x) \in SUBSET D /\ x \in S(x)
    BY <1>2
  <2>2. IsFiniteSet(S(x)) /\ Cardinality(S(x)) <= n
    BY <1>1, <2>1, FS_Subset
  <2>3. Cardinality(S(x)) \in Nat /\ Cardinality(S(x)) # 0
    <3>1. S(x) # {}
      BY <2>1
    <3> HIDE DEF S
    <3> QED
      BY <2>2, <3>1, FS_EmptySet, FS_CardinalityType
  <2>4. Rank(m, x) = Cardinality(S(x))
    BY DEF Rank
  <2> QED
    BY <1>1, <2>1, <2>2, <2>3, <2>4
<1>4. ASSUME NEW x \in D, NEW y \in D, m[x].generation < m[y].generation
      PROVE  Rank(m, x) < Rank(m, y)
  <2>1. S(x) \in SUBSET S(y) /\ y \in S(y) /\ y \notin S(x)
    BY <1>2, <1>4
  <2>2. S(x) # S(y)
    BY <2>1
  <2> HIDE DEF S
  <2>3. Cardinality(S(x)) <= Cardinality(S(y)) /\ Cardinality(S(x)) # Cardinality(S(y))
    BY <1>3, <2>1, <2>2, FS_Subset
  <2>4. /\ Rank(m, x) = Cardinality(S(x)) /\ Rank(m, x) \in Nat
        /\ Rank(m, y) = Cardinality(S(y)) /\ Rank(m, y) \in Nat
    BY <1>1, <1>3
  <2> QED
    BY <2>3, <2>4
<1>5. \A x \in D : Rank(m, x) \in 1 .. n
  BY <1>3, Zenon
<1>6. \A i \in 1 .. n : \E x \in D : Rank(m, x) = i
  <2> DEFINE f == [x \in D |-> Rank(m, x)]
  <2>1. f \in [D -> 1 .. n]
    BY <1>5
  <2>2. ASSUME NEW x \in D, NEW y \in D, f[x] = f[y] PROVE x = y
    <3>1. Rank(m, x) = Rank(m, y) /\ Rank(m, x) \in Int
      BY <1>1, <1>5, <2>2
    <3>2. ~(m[x].generation < m[y].generation) /\ ~(m[y].generation < m[x].generation)
      BY <1>4, <3>1
    <3>3. m[x].generation = m[y].generation
      BY <1>2, <3>2
    <3> QED
      BY <3>3 DEF Uses
  <2>3. f \in Injection(D, 1 .. n)
    BY <2>1, <2>2 DEF Injection, IsInjective
  <2>4. IsFiniteSet(1 .. n) /\ Cardinality(1 .. n) = n
    BY <1>1, FS_Interval
  <2>5. f \in Surjection(D, 1 .. n)
    BY <2>3, <2>4, FS_Injection
  <2> QED
    BY <2>5, Zenon DEF Surjection
<1> QED
  BY <1>1, <1>4, <1>5, <1>6

(***************************************************************************)
(* The queue has each entry at its rank.                                   *)
(***************************************************************************)
LEMMA OrderedFacts ==
    ASSUME NEW m, Uses(m)
    PROVE  /\ Ordered(m) \in Seq([key : Key, value : Value])
           /\ Len(Ordered(m)) = Cardinality(DOMAIN m)
           /\ DOMAIN Ordered(m) = 1 .. Cardinality(DOMAIN m)
           /\ \A x \in DOMAIN m : Ordered(m)[Rank(m, x)] = [key |-> x, value |-> m[x].value]
<1> DEFINE n    == Cardinality(DOMAIN m)
           q    == Ordered(m)
           P(i) == CHOOSE x \in DOMAIN m : Rank(m, x) = i
<1>1. /\ n \in Nat
      /\ \A x \in DOMAIN m : Rank(m, x) \in 1 .. n
      /\ \A x, y \in DOMAIN m : m[x].generation < m[y].generation => Rank(m, x) < Rank(m, y)
      /\ \A i \in 1 .. n : \E x \in DOMAIN m : Rank(m, x) = i
  BY RankFacts
<1>2. q = [i \in 1 .. n |-> [key |-> P(i), value |-> m[P(i)].value]]
  BY DEF Ordered
<1>3. \A i \in 1 .. n : P(i) \in DOMAIN m /\ Rank(m, P(i)) = i
  BY <1>1
<1>4. ASSUME NEW x \in DOMAIN m PROVE P(Rank(m, x)) = x
  <2> DEFINE y == P(Rank(m, x))
  <2>1. y \in DOMAIN m /\ Rank(m, y) = Rank(m, x) /\ Rank(m, x) \in Int
    BY <1>1, <1>3
  <2> HIDE DEF y
  <2>2. m[x].generation \in Nat /\ m[y].generation \in Nat
    BY <2>1 DEF Uses
  <2>3. ~(m[x].generation < m[y].generation) /\ ~(m[y].generation < m[x].generation)
    BY <1>1, <2>1
  <2>4. m[x].generation = m[y].generation
    BY <2>2, <2>3
  <2>5. y = x
    BY <2>1, <2>4 DEF Uses
  <2> QED
    BY <2>5 DEF y
<1> HIDE DEF P
<1>5. \A i \in 1 .. n : [key |-> P(i), value |-> m[P(i)].value] \in [key : Key, value : Value]
  BY <1>3 DEF Uses
<1> HIDE DEF n, q
<1>6. q \in [1 .. n -> [key : Key, value : Value]]
  BY <1>2, <1>5
<1>7. q \in Seq([key : Key, value : Value])
  <2> DEFINE E == [key : Key, value : Value]
  <2>1. n \in Nat /\ q \in [1 .. n -> E]
    BY <1>1, <1>6
  <2> HIDE DEF E
  <2>2. q \in Seq(E)
    BY <2>1, SeqDef
  <2> QED
    BY <2>2 DEF E
<1>8. DOMAIN q = 1 .. n /\ Len(q) = n
  BY <1>1, <1>6, <1>7, LenProperties
<1>9. ASSUME NEW x \in DOMAIN m PROVE q[Rank(m, x)] = [key |-> x, value |-> m[x].value]
  BY <1>1, <1>2, <1>4
<1> QED
  BY <1>7, <1>8, <1>9 DEF n, q

LEMMA Found ==
    ASSUME NEW m, Uses(m), NEW k
    PROVE  /\ Abstract!Holds(Ordered(m), k) <=> k \in DOMAIN m
           /\ k \in DOMAIN m => /\ Abstract!Slot(Ordered(m), k) = Rank(m, k)
                                /\ Ordered(m)[Rank(m, k)].value = m[k].value
<1> DEFINE n == Cardinality(DOMAIN m)
           q == Ordered(m)
<1>1. /\ n \in Nat
      /\ \A x \in DOMAIN m : Rank(m, x) \in 1 .. n
      /\ \A i \in 1 .. n : \E x \in DOMAIN m : Rank(m, x) = i
  BY RankFacts
<1>2. /\ DOMAIN q = 1 .. n
      /\ \A x \in DOMAIN m : q[Rank(m, x)] = [key |-> x, value |-> m[x].value]
  BY OrderedFacts
<1> HIDE DEF n, q
<1>3. ASSUME NEW x \in DOMAIN m PROVE q[Rank(m, x)].key = x /\ q[Rank(m, x)].value = m[x].value
  <2>1. q[Rank(m, x)] = [key |-> x, value |-> m[x].value]
    BY <1>2
  <2> QED
    BY <2>1
<1>4. ASSUME NEW i \in DOMAIN q PROVE q[i].key \in DOMAIN m /\ Rank(m, q[i].key) = i
  <2>1. PICK x \in DOMAIN m : Rank(m, x) = i
    BY <1>1, <1>2
  <2> QED
    BY <1>3, <2>1
<1>5. Abstract!Holds(q, k) <=> k \in DOMAIN m
  BY <1>1, <1>2, <1>3, <1>4 DEF Abstract!Holds
<1>6. ASSUME k \in DOMAIN m PROVE Abstract!Slot(q, k) = Rank(m, k)
  <2>1. Rank(m, k) \in DOMAIN q /\ q[Rank(m, k)].key = k
    BY <1>1, <1>2, <1>3, <1>6
  <2>2. \A i \in DOMAIN q : q[i].key = k => i = Rank(m, k)
    BY <1>4
  <2> QED
    BY <2>1, <2>2 DEF Abstract!Slot
<1> QED
  BY <1>3, <1>5, <1>6 DEF q

-----------------------------------------------------------------------------
(***************************************************************************)
(* An entry leaves the map and the queue.                                  *)
(***************************************************************************)
Cut(m, k) == [x \in DOMAIN m \ {k} |-> m[x]]

LEMMA CutRanks ==
    ASSUME NEW m, Uses(m), NEW k \in DOMAIN m
    PROVE  /\ Uses(Cut(m, k))
           /\ DOMAIN Cut(m, k) = DOMAIN m \ {k}
           /\ Cardinality(DOMAIN Cut(m, k)) = Cardinality(DOMAIN m) - 1
           /\ \A x \in DOMAIN m \ {k} :
                Rank(Cut(m, k), x) = IF m[x].generation < m[k].generation
                                     THEN Rank(m, x) ELSE Rank(m, x) - 1
<1> DEFINE w    == Cut(m, k)
           S(x) == {y \in DOMAIN m : m[y].generation <= m[x].generation}
           T(x) == {y \in DOMAIN w : w[y].generation <= w[x].generation}
<1>1. /\ DOMAIN w = DOMAIN m \ {k} /\ \A x \in DOMAIN w : w[x] = m[x]
      /\ w = [x \in DOMAIN w |-> w[x]]
  BY DEF Cut
<1> HIDE DEF w
<1>2. IsFiniteSet(DOMAIN m) /\ \A x \in DOMAIN m : m[x].generation \in Nat
  BY DEF Uses
<1>3. IsFiniteSet(DOMAIN w) /\ Cardinality(DOMAIN w) = Cardinality(DOMAIN m) - 1
  BY <1>1, <1>2, FS_RemoveElement
<1>4. Uses(w)
  <2>1. \A x \in DOMAIN w : x \in DOMAIN m /\ w[x] = m[x]
    BY <1>1
  <2>2. /\ DOMAIN w \subseteq Key
        /\ \A x \in DOMAIN w : w[x].value \in Value /\ w[x].generation \in Nat
        /\ \A x, y \in DOMAIN w : w[x].generation = w[y].generation => x = y
    BY <2>1 DEF Uses
  <2> QED
    BY <1>1, <1>3, <2>2 DEF Uses
<1>5. ASSUME NEW x \in DOMAIN m \ {k}
      PROVE  Rank(w, x) = IF m[x].generation < m[k].generation THEN Rank(m, x) ELSE Rank(m, x) - 1
  <2>1. T(x) = S(x) \ {k}
    BY <1>1
  <2>2. k \in S(x) <=> ~(m[x].generation < m[k].generation)
    BY <1>2
  <2>3. S(x) \in SUBSET DOMAIN m
    OBVIOUS
  <2>4. Rank(w, x) = Cardinality(T(x)) /\ Rank(m, x) = Cardinality(S(x))
    BY DEF Rank
  <2> HIDE DEF S, T
  <2>5. IsFiniteSet(S(x))
    BY <1>2, <2>3, FS_Subset
  <2>6. Cardinality(T(x)) = IF k \in S(x) THEN Cardinality(S(x)) - 1 ELSE Cardinality(S(x))
    BY <2>1, <2>5, FS_RemoveElement, Zenon
  <2> QED
    BY <2>2, <2>4, <2>6
<1> QED
  BY <1>1, <1>3, <1>4, <1>5 DEF w

LEMMA CutQueue ==
    ASSUME NEW m, Uses(m), NEW k \in DOMAIN m
    PROVE  Ordered(Cut(m, k)) = Abstract!Without(Ordered(m), k)
<1> DEFINE w == Cut(m, k)
           n == Cardinality(DOMAIN m)
           q == Ordered(m)
           p == Ordered(w)
           r == Rank(m, k)
<1>1. /\ Uses(w) /\ DOMAIN w = DOMAIN m \ {k} /\ Cardinality(DOMAIN w) = n - 1
      /\ \A x \in DOMAIN m \ {k} :
            Rank(w, x) = IF m[x].generation < m[k].generation THEN Rank(m, x) ELSE Rank(m, x) - 1
  BY CutRanks, Zenon
<1>2. \A x \in DOMAIN w : w[x] = m[x]
  BY DEF Cut
<1> HIDE DEF w
<1>3. /\ n \in Nat
      /\ \A x \in DOMAIN m : Rank(m, x) \in 1 .. n
      /\ \A x, y \in DOMAIN m : m[x].generation < m[y].generation => Rank(m, x) < Rank(m, y)
  BY RankFacts
<1>4. \A i \in 1 .. n - 1 : \E x \in DOMAIN w : Rank(w, x) = i
  BY <1>1, RankFacts
<1>5. /\ Len(q) = n
      /\ \A x \in DOMAIN m : q[Rank(m, x)] = [key |-> x, value |-> m[x].value]
  BY OrderedFacts
<1>6. /\ p \in Seq([key : Key, value : Value]) /\ DOMAIN p = 1 .. n - 1
      /\ \A x \in DOMAIN w : p[Rank(w, x)] = [key |-> x, value |-> w[x].value]
  BY <1>1, OrderedFacts, Zenon
<1>7. Abstract!Without(q, k) = [i \in 1 .. n - 1 |-> IF i < r THEN q[i] ELSE q[i + 1]]
  <2>1. Abstract!Holds(q, k) /\ Abstract!Slot(q, k) = r
    BY Found
  <2> QED
    BY <1>5, <2>1 DEF Abstract!Without
<1> HIDE DEF n, q, p, r
<1>8. ASSUME NEW i \in 1 .. n - 1 PROVE p[i] = IF i < r THEN q[i] ELSE q[i + 1]
  <2>1. PICK x \in DOMAIN w : Rank(w, x) = i
    BY <1>4
  <2>2. x \in DOMAIN m /\ x # k /\ p[i] = [key |-> x, value |-> m[x].value]
    BY <1>1, <1>2, <1>6, <2>1, Zenon
  <2>3. /\ Rank(m, x) \in Int /\ r \in Int /\ i \in Int
        /\ m[x].generation \in Nat /\ m[k].generation \in Nat
        /\ m[x].generation # m[k].generation
    BY <1>3, <2>2 DEF Uses, r
  <2>4. CASE m[x].generation < m[k].generation
    <3>1. Rank(m, x) = i /\ i < r
      BY <1>1, <1>3, <2>1, <2>2, <2>4 DEF r
    <3> QED
      BY <1>5, <2>2, <3>1
  <2>5. CASE m[k].generation < m[x].generation
    <3>1. Rank(m, x) = i + 1
      BY <1>1, <2>1, <2>2, <2>3, <2>5
    <3>2. ~(i < r)
      <4>1. r < Rank(m, x)
        BY <1>3, <2>2, <2>5 DEF r
      <4> QED
        BY <2>3, <3>1, <4>1
    <3> QED
      BY <1>5, <2>2, <3>1, <3>2
  <2> QED
    BY <2>3, <2>4, <2>5
<1>9. p = [i \in 1 .. n - 1 |-> p[i]]
  BY <1>6
<1>10. p = [i \in 1 .. n - 1 |-> IF i < r THEN q[i] ELSE q[i + 1]]
  BY <1>8, <1>9
<1> QED
  BY <1>7, <1>10 DEF p, q, w

(***************************************************************************)
(* The entry with the lowest generation is the first of the queue.         *)
(***************************************************************************)
LEMMA OldestFirst ==
    ASSUME Uses(entries), DOMAIN entries # {}
    PROVE  /\ Oldest \in DOMAIN entries
           /\ Abstract!Without(ByUse, Oldest) = Tail(ByUse)
<1> DEFINE D == DOMAIN entries
           n == Cardinality(D)
           q == ByUse
<1>1. /\ n \in Nat
      /\ \A x \in D : Rank(entries, x) \in 1 .. n
      /\ \A x, y \in D : entries[x].generation < entries[y].generation
                           => Rank(entries, x) < Rank(entries, y)
      /\ \A i \in 1 .. n : \E x \in D : Rank(entries, x) = i
  BY RankFacts
<1>2. \A x \in D : entries[x].generation \in Nat
  BY DEF Uses
<1>3. 1 \in 1 .. n
  <2>1. PICK x \in D : TRUE
    OBVIOUS
  <2> QED
    BY <1>1, <2>1
<1>4. Oldest \in D /\ \A x \in D : entries[Oldest].generation <= entries[x].generation
  <2>1. PICK x \in D : Rank(entries, x) = 1
    BY <1>1, <1>3
  <2>2. ASSUME NEW y \in D PROVE entries[x].generation <= entries[y].generation
    <3>1. Rank(entries, y) \in 1 .. n
      BY <1>1
    <3>2. ~(Rank(entries, y) < Rank(entries, x))
      BY <1>1, <2>1, <3>1
    <3>3. ~(entries[y].generation < entries[x].generation)
      BY <1>1, <3>2
    <3> QED
      BY <1>2, <3>3
  <2> QED
    BY <2>1, <2>2 DEF Oldest
<1>5. PICK o \in D : o = Oldest
  BY <1>4
<1>6. Rank(entries, o) = 1
  <2>1. PICK x \in D : Rank(entries, x) = 1
    BY <1>1, <1>3
  <2>2. entries[o].generation <= entries[x].generation
    BY <1>4, <1>5
  <2>3. CASE entries[o].generation < entries[x].generation
    BY <1>1, <2>1, <2>3
  <2>4. CASE entries[o].generation = entries[x].generation
    BY <2>1, <2>4 DEF Uses
  <2> QED
    BY <1>2, <2>2, <2>3, <2>4
<1>7. q \in Seq([key : Key, value : Value]) /\ Len(q) = n
  BY OrderedFacts, Zenon DEF ByUse
<1>8. Abstract!Holds(q, o) /\ Abstract!Slot(q, o) = 1
  BY <1>6, Found DEF ByUse
<1> HIDE DEF q, n
<1>9. Abstract!Without(q, o) = [i \in 1 .. n - 1 |-> IF i < 1 THEN q[i] ELSE q[i + 1]]
  BY <1>7, <1>8 DEF Abstract!Without
<1>10. Tail(q) = [i \in 1 .. n - 1 |-> q[i + 1]]
  <2>1. /\ Tail(q) \in Seq([key : Key, value : Value]) /\ Len(Tail(q)) = n - 1
        /\ \A i \in 1 .. n - 1 : Tail(q)[i] = q[i + 1]
    <3>1. q # << >>
      BY <1>3, <1>7
    <3> QED
      BY <1>7, <3>1, HeadTailProperties
  <2>2. DOMAIN Tail(q) = 1 .. n - 1 /\ Tail(q) = [i \in DOMAIN Tail(q) |-> Tail(q)[i]]
    BY <2>1, LenProperties, Zenon
  <2> QED
    BY <2>1, <2>2
<1>11. \A i \in 1 .. n - 1 : (IF i < 1 THEN q[i] ELSE q[i + 1]) = q[i + 1]
  BY <1>1
<1>12. Abstract!Without(q, o) = Tail(q)
  BY <1>9, <1>10, <1>11
<1> QED
  BY <1>5, <1>12 DEF q

(***************************************************************************)
(* An entry with a generation above all others enters at the recent end.   *)
(***************************************************************************)
Newer(g, m) == \A x \in DOMAIN m : m[x].generation < g

Put(m, k, v, g) ==
    [x \in DOMAIN m \cup {k} |-> IF x = k THEN [value |-> v, generation |-> g] ELSE m[x]]

LEMMA PutRanks ==
    ASSUME NEW m, Uses(m), NEW k \in Key, k \notin DOMAIN m, NEW v \in Value, NEW g \in Nat,
           Newer(g, m),
           NEW w, w = Put(m, k, v, g)
    PROVE  /\ Uses(w) /\ DOMAIN w = DOMAIN m \cup {k} /\ w[k].value = v
           /\ Cardinality(DOMAIN w) = Cardinality(DOMAIN m) + 1
           /\ \A x \in DOMAIN m : w[x] = m[x] /\ Rank(w, x) = Rank(m, x)
           /\ Rank(w, k) = Cardinality(DOMAIN m) + 1
<1> DEFINE D    == DOMAIN m
           T(x) == {y \in DOMAIN w : w[y].generation <= w[x].generation}
<1>1. DOMAIN w = D \cup {k} /\ (\A x \in D : w[x] = m[x]) /\ w = [x \in DOMAIN w |-> w[x]]
  BY DEF Put
<1>2. w[k] = [value |-> v, generation |-> g]
  BY DEF Put
<1>3. w[k].value = v /\ w[k].generation = g
  BY <1>2
<1>4. IsFiniteSet(D) /\ \A x \in D : m[x].generation \in Nat /\ m[x].generation < g
  BY DEF Uses, Newer
<1>5. IsFiniteSet(DOMAIN w) /\ Cardinality(DOMAIN w) = Cardinality(D) + 1
  BY <1>1, <1>4, FS_AddElement
<1>6. Uses(w)
  <2>1. ASSUME NEW x \in DOMAIN w, NEW y \in DOMAIN w, w[x].generation = w[y].generation PROVE x = y
    BY <1>1, <1>3, <1>4, <2>1 DEF Uses
  <2>2. \A x \in DOMAIN w : w[x].value \in Value /\ w[x].generation \in Nat
    BY <1>1, <1>3 DEF Uses
  <2>3. DOMAIN w \subseteq Key
    BY <1>1 DEF Uses
  <2> QED
    BY <1>1, <1>5, <2>1, <2>2, <2>3 DEF Uses
<1>7. ASSUME NEW x \in D PROVE Rank(w, x) = Rank(m, x)
  <2>1. T(x) = {y \in D : m[y].generation <= m[x].generation}
    BY <1>1, <1>3, <1>4
  <2> QED
    BY <2>1, Zenon DEF Rank
<1>8. T(k) = DOMAIN w
  BY <1>1, <1>3, <1>4
<1>9. Rank(w, k) = Cardinality(D) + 1
  BY <1>5, <1>8 DEF Rank
<1> QED
  BY <1>1, <1>3, <1>5, <1>6, <1>7, <1>9

LEMMA PutQueue ==
    ASSUME NEW m, Uses(m), NEW k \in Key, k \notin DOMAIN m, NEW v \in Value, NEW g \in Nat,
           Newer(g, m)
    PROVE  /\ Uses(Put(m, k, v, g))
           /\ Ordered(Put(m, k, v, g)) = Append(Ordered(m), [key |-> k, value |-> v])
<1> PICK w : w = Put(m, k, v, g)
  OBVIOUS
<1> DEFINE n == Cardinality(DOMAIN m)
           q == Ordered(m)
           p == Ordered(w)
           e == [key |-> k, value |-> v]
<1>1. /\ Uses(w) /\ DOMAIN w = DOMAIN m \cup {k} /\ w[k].value = v /\ Cardinality(DOMAIN w) = n + 1
      /\ \A x \in DOMAIN m : w[x] = m[x] /\ Rank(w, x) = Rank(m, x)
      /\ Rank(w, k) = n + 1
  BY PutRanks
<1>2. n \in Nat /\ \A i \in 1 .. n : \E x \in DOMAIN m : Rank(m, x) = i
  BY RankFacts
<1>3. /\ q \in Seq([key : Key, value : Value]) /\ Len(q) = n
      /\ \A x \in DOMAIN m : q[Rank(m, x)] = [key |-> x, value |-> m[x].value]
  BY OrderedFacts, Zenon
<1>4. /\ p \in Seq([key : Key, value : Value]) /\ DOMAIN p = 1 .. n + 1 /\ Len(p) = n + 1
      /\ \A x \in DOMAIN w : p[Rank(w, x)] = [key |-> x, value |-> w[x].value]
  BY <1>1, OrderedFacts, Zenon
<1> HIDE DEF n, q, p
<1>5. ASSUME NEW i \in 1 .. n PROVE p[i] = q[i]
  <2>1. PICK x \in DOMAIN m : Rank(m, x) = i
    BY <1>2
  <2>2. x \in DOMAIN w /\ Rank(w, x) = i /\ w[x] = m[x]
    BY <1>1, <2>1
  <2> QED
    BY <1>3, <1>4, <2>1, <2>2, Zenon
<1>6. p[n + 1] = e
  BY <1>1, <1>4
<1>7. e \in [key : Key, value : Value]
  OBVIOUS
<1> HIDE DEF e
<1>8. /\ Append(q, e) \in Seq([key : Key, value : Value]) /\ Len(Append(q, e)) = n + 1
      /\ \A i \in 1 .. n : Append(q, e)[i] = q[i]
      /\ Append(q, e)[n + 1] = e
  BY <1>3, <1>7, AppendProperties
<1>9. \A i \in 1 .. n + 1 : p[i] = Append(q, e)[i]
  <2>1. \A i \in 1 .. n + 1 : i \in 1 .. n \/ i = n + 1
    BY <1>2
  <2> QED
    BY <1>5, <1>6, <1>8, <2>1
<1>10. p = Append(q, e)
  BY <1>4, <1>8, <1>9, SeqEqual
<1> QED
  BY <1>1, <1>10 DEF p, q, e

(***************************************************************************)
(* A use, of an entry that is there or of a new one; a removal, of an entry*)
(* that is there or not.                                                   *)
(***************************************************************************)
LEMMA UseQueue ==
    ASSUME NEW m, Uses(m), NEW k \in Key, NEW v \in Value, NEW g \in Nat, Newer(g, m)
    PROVE  /\ Uses(Put(m, k, v, g))
           /\ Ordered(Put(m, k, v, g)) = Abstract!Used(Ordered(m), k, v)
           /\ \A x \in DOMAIN Put(m, k, v, g) : Put(m, k, v, g)[x].generation <= g
<1>1. \A x \in DOMAIN Put(m, k, v, g) : Put(m, k, v, g)[x].generation <= g
  <2>1. DOMAIN Put(m, k, v, g) = DOMAIN m \cup {k}
    BY DEF Put
  <2>2. Put(m, k, v, g)[k].generation = g
    BY DEF Put
  <2>3. ASSUME NEW x \in DOMAIN m, x # k PROVE Put(m, k, v, g)[x].generation <= g
    <3>1. Put(m, k, v, g)[x] = m[x] /\ m[x].generation \in Nat /\ m[x].generation < g
      BY <2>3 DEF Put, Uses, Newer
    <3> QED
      BY <3>1
  <2> HIDE DEF Put
  <2> QED
    BY <2>1, <2>2, <2>3
<1>2. CASE k \notin DOMAIN m
  <2>1. Abstract!Without(Ordered(m), k) = Ordered(m)
    BY <1>2, Found DEF Abstract!Without
  <2>2. Uses(Put(m, k, v, g))
    BY <1>2, PutQueue, Zenon
  <2>3. Ordered(Put(m, k, v, g)) = Append(Ordered(m), [key |-> k, value |-> v])
    BY <1>2, PutQueue
  <2> QED
    BY <1>1, <2>1, <2>2, <2>3 DEF Abstract!Used
<1>3. CASE k \in DOMAIN m
  <2>1. PICK w : w = Cut(m, k)
    OBVIOUS
  <2>2. Uses(w) /\ DOMAIN w = DOMAIN m \ {k}
    BY <1>3, <2>1, CutRanks, Zenon
  <2>3. Ordered(w) = Abstract!Without(Ordered(m), k)
    BY <1>3, <2>1, CutQueue
  <2>4. \A x \in DOMAIN w : w[x] = m[x]
    BY <2>1 DEF Cut
  <2>5. Put(m, k, v, g) = Put(w, k, v, g)
    BY <1>3, <2>2, <2>4 DEF Put
  <2>6. k \notin DOMAIN w /\ Newer(g, w)
    BY <2>2, <2>4 DEF Newer
  <2>7. Uses(Put(w, k, v, g))
    BY <2>2, <2>6, PutQueue, Zenon
  <2>8. Ordered(Put(w, k, v, g)) = Append(Ordered(w), [key |-> k, value |-> v])
    BY <2>2, <2>6, PutQueue
  <2> QED
    BY <1>1, <2>3, <2>5, <2>7, <2>8 DEF Abstract!Used
<1> QED
  BY <1>2, <1>3

LEMMA RemoveQueue ==
    ASSUME NEW m, Uses(m), NEW k, NEW w, w = Cut(m, k)
    PROVE  /\ Uses(w) /\ Ordered(w) = Abstract!Without(Ordered(m), k)
           /\ \A x \in DOMAIN w : x \in DOMAIN m /\ w[x] = m[x]
<1>1. \A x \in DOMAIN w : x \in DOMAIN m /\ w[x] = m[x]
  BY DEF Cut
<1>2. CASE k \in DOMAIN m
  BY <1>1, <1>2, CutRanks, CutQueue, Zenon
<1>3. CASE k \notin DOMAIN m
  <2>1. w = m
    BY <1>3 DEF Cut, Uses
  <2>2. Abstract!Without(Ordered(m), k) = Ordered(m)
    BY <1>3, Found DEF Abstract!Without
  <2> QED
    BY <1>1, <2>1, <2>2
<1> QED
  BY <1>2, <1>3

LEMMA EmptyQueue == Uses(<< >>) /\ Ordered(<< >>) = << >>
<1>1. DOMAIN << >> = {} /\ << >> = [k \in {} |-> << >>[k]]
  OBVIOUS
<1>2. Uses(<< >>)
  BY <1>1, FS_EmptySet DEF Uses
<1>3. Len(Ordered(<< >>)) = 0 /\ Ordered(<< >>) \in Seq([key : Key, value : Value])
  BY <1>1, <1>2, OrderedFacts, FS_EmptySet
<1> QED
  BY <1>2, <1>3, EmptySeq

-----------------------------------------------------------------------------
(***************************************************************************)
(* Every step keeps the invariant and is the same step of Recency.         *)
(***************************************************************************)
LEMMA LruInit == Init => Inv /\ Abstract!Init
<1>1. SUFFICES ASSUME Init PROVE Inv /\ Abstract!Init
  OBVIOUS
<1>2. entries = << >> /\ generation = 0 /\ call = << "new" >> /\ DOMAIN entries = {}
  BY <1>1 DEF Init
<1>3. Uses(entries) /\ ByUse = << >>
  BY <1>2, EmptyQueue DEF ByUse
<1> QED
  BY <1>2, <1>3 DEF Inv, Abstract!Init

LEMMA LruGet ==
    ASSUME Inv, NEW k \in Key, get(k)
    PROVE  Inv' /\ Abstract!get(k)
<1> DEFINE g == generation + 1
           v == entries[k].value
<1>1. k \in DOMAIN entries /\ generation' = g /\ entries' = Put(entries, k, v, g) /\ call' = << "get", k >>
  BY DEF get, Tick, Set, Put
<1>2. Uses(entries) /\ v \in Value /\ g \in Nat /\ Newer(g, entries)
  BY <1>1 DEF Inv, Uses, Newer
<1> HIDE DEF g, v
<1>3. /\ Uses(entries') /\ ByUse' = Abstract!Used(ByUse, k, v)
      /\ \A x \in DOMAIN entries' : entries'[x].generation <= g
  BY <1>1, <1>2, UseQueue DEF ByUse
<1>4. Inv'
  BY <1>1, <1>2, <1>3 DEF Inv
<1>5. Abstract!Cached(k) /\ Abstract!CachedValue(k) = v
  BY <1>1, <1>2, Found DEF Abstract!Cached, Abstract!CachedValue, ByUse, v
<1> QED
  BY <1>1, <1>3, <1>4, <1>5 DEF Abstract!get

LEMMA LruInsert ==
    ASSUME CAPACITY \in Nat \ {0}, Inv, NEW k \in Key, NEW v \in Value, insert(k, v)
    PROVE  Inv' /\ Abstract!insert(k, v)
<1> DEFINE g == generation + 1
<1>1. generation' = g /\ call' = << "insert", k, v >>
  BY DEF insert, Tick
<1>2. Uses(entries) /\ g \in Nat /\ Newer(g, entries)
  BY DEF Inv, Uses, Newer
<1>3. Abstract!Cached(k) <=> k \in DOMAIN entries
  BY <1>2, Found DEF Abstract!Cached, ByUse
<1>4. Len(ByUse) = Cardinality(DOMAIN entries) /\ Cardinality(DOMAIN entries) \in Nat
  BY <1>2, OrderedFacts, RankFacts DEF ByUse
<1> HIDE DEF g
<1>5. ASSUME NEW m, Uses(m), Newer(g, m), entries' = Put(m, k, v, g)
      PROVE  Inv' /\ ByUse' = Abstract!Used(Ordered(m), k, v)
  <2>1. /\ Uses(entries') /\ ByUse' = Abstract!Used(Ordered(m), k, v)
        /\ \A x \in DOMAIN entries' : entries'[x].generation <= g
    BY <1>2, <1>5, UseQueue DEF ByUse
  <2> QED
    BY <1>1, <1>2, <2>1 DEF Inv
<1>6. CASE k \notin DOMAIN entries /\ Cardinality(DOMAIN entries) >= CAPACITY
  <2>1. Oldest \in DOMAIN entries /\ Abstract!Without(ByUse, Oldest) = Tail(ByUse)
    <3>1. DOMAIN entries # {}
      BY <1>6, FS_EmptySet
    <3> QED
      BY <1>2, <3>1, OldestFirst
  <2>2. PICK m : m = Cut(entries, Oldest)
    OBVIOUS
  <2>3. Uses(m) /\ Ordered(m) = Tail(ByUse) /\ Newer(g, m)
    <3>1. /\ Uses(m) /\ Ordered(m) = Abstract!Without(Ordered(entries), Oldest)
          /\ \A x \in DOMAIN m : x \in DOMAIN entries /\ m[x] = entries[x]
      BY <1>2, <2>2, RemoveQueue
    <3> QED
      BY <1>2, <2>1, <3>1 DEF ByUse, Newer
  <2>4. entries' = Put(m, k, v, g)
    BY <1>1, <1>6, <2>2 DEF insert, Set, Remove, Put, Cut
  <2>5. Inv' /\ ByUse' = Abstract!Used(Tail(ByUse), k, v)
    BY <1>2, <1>5, <2>3, <2>4, Zenon
  <2> QED
    BY <1>1, <1>3, <1>4, <1>6, <2>5 DEF Abstract!insert, Abstract!Room
<1>7. CASE ~(k \notin DOMAIN entries /\ Cardinality(DOMAIN entries) >= CAPACITY)
  <2>1. entries' = Put(entries, k, v, g)
    BY <1>1, <1>7 DEF insert, Set, Put
  <2>2. Inv' /\ ByUse' = Abstract!Used(ByUse, k, v)
    BY <1>2, <1>5, <2>1 DEF ByUse
  <2> QED
    BY <1>1, <1>3, <1>4, <1>7, <2>2 DEF Abstract!insert, Abstract!Room
<1> QED
  BY <1>6, <1>7

LEMMA LruInvalidate ==
    ASSUME Inv, NEW k \in Key, invalidate(k)
    PROVE  Inv' /\ Abstract!invalidate(k)
<1>1. entries' = Cut(entries, k) /\ generation' = generation /\ call' = << "invalidate", k >>
  BY DEF invalidate, Remove, Cut
<1>2. Uses(entries)
  BY DEF Inv
<1>3. /\ Uses(entries') /\ ByUse' = Abstract!Without(ByUse, k)
      /\ \A x \in DOMAIN entries' : x \in DOMAIN entries /\ entries'[x] = entries[x]
  BY <1>1, <1>2, RemoveQueue DEF ByUse
<1> QED
  BY <1>1, <1>3 DEF Inv, Abstract!invalidate

LEMMA LruClear ==
    ASSUME Inv, clear
    PROVE  Inv' /\ Abstract!clear
<1>1. entries' = << >> /\ generation' = generation /\ call' = << "clear" >> /\ DOMAIN entries' = {}
  BY DEF clear
<1>2. Uses(entries') /\ ByUse' = << >>
  BY <1>1, EmptyQueue DEF ByUse
<1> QED
  BY <1>1, <1>2 DEF Inv, Abstract!clear

LEMMA LruNext ==
    ASSUME CAPACITY \in Nat \ {0}, Inv, [Next]_cacheVars
    PROVE  Inv' /\ [Abstract!Next]_Abstract!recencyVars
<1>1. CASE UNCHANGED cacheVars
  BY <1>1 DEF cacheVars, Inv, Uses, ByUse, Ordered, Rank, Abstract!recencyVars
<1>2. ASSUME NEW k \in Key, get(k) PROVE Inv' /\ Abstract!Next
  BY <1>2, LruGet DEF Abstract!Next
<1>3. ASSUME NEW k \in Key, NEW v \in Value, insert(k, v) PROVE Inv' /\ Abstract!Next
  BY <1>3, LruInsert DEF Abstract!Next
<1>4. ASSUME NEW k \in Key, invalidate(k) PROVE Inv' /\ Abstract!Next
  BY <1>4, LruInvalidate DEF Abstract!Next
<1>5. CASE clear
  BY <1>5, LruClear DEF Abstract!Next
<1> QED
  BY <1>1, <1>2, <1>3, <1>4, <1>5 DEF Next

(***************************************************************************)
(* The map with its generations, as storage/cache.rs keeps it, behaves as  *)
(* a queue in the order of use: LruCache::insert evicts the entry that was *)
(* not used for longest, and only when the cache is full and the key new.  *)
(***************************************************************************)
THEOREM LruCorrect ==
    ASSUME CAPACITY \in Nat \ {0}
    PROVE  Spec => IsLru
<1>1. Init => Inv /\ Abstract!Init
  BY LruInit
<1>2. Inv /\ [Next]_cacheVars => Inv' /\ [Abstract!Next]_Abstract!recencyVars
  BY LruNext
<1> QED
  BY <1>1, <1>2, PTL DEF Spec, IsLru, Abstract!Spec

-----------------------------------------------------------------------------
CONSTANTS LastByte, Registry, ClientKey, Repo, WatchId, MaxCredit
VARIABLES data, watches

R == INSTANCE Records

-----------------------------------------------------------------------------
(***************************************************************************)
(* The record and namespace handlers.                                      *)
(*                                                                         *)
(* Keys and repositories are UTF-8, which has no byte 0xFF; the registry's *)
(* prefix is neither the number of the default namespace nor 0xFF.         *)
(***************************************************************************)
RecordConstants ==
    /\ LastByte \in Nat /\ Registry \in 1 .. LastByte - 1
    /\ ClientKey \subseteq Seq(0 .. LastByte - 1) /\ Repo \subseteq Seq(0 .. LastByte - 1)
    /\ IsFiniteSet(ClientKey) /\ IsFiniteSet(Repo)

Stored == DOMAIN data \subseteq R!StoredKey

-----------------------------------------------------------------------------
\* The order of keys, letter by letter, is a strict total order.
LEMMA BeforeIrreflexive ==
    ASSUME NEW a \in Seq(Nat)
    PROVE  ~R!Before(a, a)
<1>1. Len(a) \in Nat /\ \A i \in 1 .. Len(a) : a[i] \in Nat
  BY LenProperties, ElementOfSeq
<1> QED
  BY <1>1 DEF R!Before

LEMMA BeforeTransitive ==
    ASSUME NEW a \in Seq(Nat), NEW b \in Seq(Nat), NEW c \in Seq(Nat), R!Before(a, b), R!Before(b, c)
    PROVE  R!Before(a, c)
<1>1. /\ Len(a) \in Nat /\ Len(b) \in Nat /\ Len(c) \in Nat
      /\ \A i \in 1 .. Len(a) : a[i] \in Nat
      /\ \A i \in 1 .. Len(b) : b[i] \in Nat
      /\ \A i \in 1 .. Len(c) : c[i] \in Nat
  BY LenProperties, ElementOfSeq
<1>2. ASSUME NEW i \in 1 .. Len(a), i <= Len(b), R!Agree(a, b, i - 1), a[i] < b[i],
             NEW j \in 1 .. Len(b), j <= Len(c), R!Agree(b, c, j - 1), b[j] < c[j]
      PROVE  R!Before(a, c)
  <2>1. CASE i < j
    <3>1. b[i] = c[i] /\ i <= Len(c)
      BY <1>1, <1>2, <2>1 DEF R!Agree
    <3>2. R!Agree(a, c, i - 1)
      BY <1>1, <1>2, <2>1 DEF R!Agree
    <3> QED
      BY <1>2, <3>1, <3>2 DEF R!Before
  <2>2. CASE i = j
    <3>1. R!Agree(a, c, i - 1)
      BY <1>1, <1>2, <2>2 DEF R!Agree
    <3>2. a[i] < c[i] /\ i <= Len(c)
      <4>1. i \in 1 .. Len(b) /\ i \in 1 .. Len(c) /\ b[i] < c[i] /\ i <= Len(c)
        BY <1>1, <1>2, <2>2
      <4>2. a[i] \in Nat /\ b[i] \in Nat /\ c[i] \in Nat
        BY <1>1, <1>2, <4>1
      <4>3. \A p, q, r \in Nat : p < q /\ q < r => p < r
        OBVIOUS
      <4> QED
        BY <1>2, <4>1, <4>2, <4>3, Zenon
    <3> QED
      BY <1>2, <3>1, <3>2 DEF R!Before
  <2>3. CASE j < i
    <3>1. a[j] = b[j] /\ j \in 1 .. Len(a)
      BY <1>1, <1>2, <2>3 DEF R!Agree
    <3>2. R!Agree(a, c, j - 1)
      BY <1>1, <1>2, <2>3 DEF R!Agree
    <3> QED
      BY <1>2, <3>1, <3>2 DEF R!Before
  <2> QED
    BY <1>1, <2>1, <2>2, <2>3
<1>3. ASSUME NEW i \in 1 .. Len(a), i <= Len(b), R!Agree(a, b, i - 1), a[i] < b[i],
             Len(b) < Len(c), R!Agree(b, c, Len(b))
      PROVE  R!Before(a, c)
  <2>1. b[i] = c[i] /\ i <= Len(c)
    BY <1>1, <1>3 DEF R!Agree
  <2>2. R!Agree(a, c, i - 1)
    BY <1>1, <1>3 DEF R!Agree
  <2> QED
    BY <1>3, <2>1, <2>2 DEF R!Before
<1>4. ASSUME Len(a) < Len(b), R!Agree(a, b, Len(a)),
             NEW j \in 1 .. Len(b), j <= Len(c), R!Agree(b, c, j - 1), b[j] < c[j]
      PROVE  R!Before(a, c)
  <2>1. CASE j <= Len(a)
    <3>1. a[j] = b[j] /\ j \in 1 .. Len(a)
      BY <1>1, <1>4, <2>1 DEF R!Agree
    <3>2. R!Agree(a, c, j - 1)
      BY <1>1, <1>4, <2>1 DEF R!Agree
    <3> QED
      BY <1>4, <3>1, <3>2 DEF R!Before
  <2>2. CASE Len(a) < j
    <3>1. Len(a) < Len(c)
      BY <1>1, <1>4, <2>2
    <3>2. R!Agree(a, c, Len(a))
      BY <1>1, <1>4, <2>2 DEF R!Agree
    <3> QED
      BY <3>1, <3>2 DEF R!Before
  <2> QED
    BY <1>1, <2>1, <2>2
<1>5. ASSUME Len(a) < Len(b), R!Agree(a, b, Len(a)), Len(b) < Len(c), R!Agree(b, c, Len(b))
      PROVE  R!Before(a, c)
  <2>1. Len(a) < Len(c) /\ R!Agree(a, c, Len(a))
    BY <1>1, <1>5 DEF R!Agree
  <2> QED
    BY <2>1 DEF R!Before
<1> QED
  BY <1>2, <1>3, <1>4, <1>5, SMTT(30) DEF R!Before

\* The least of a set of numbers.
LEMMA Least ==
    ASSUME NEW X \in SUBSET Nat, X # {}
    PROVE  \E n \in X : \A m \in X : n <= m
<1>1. PICK n \in X : \A m \in X : ~(<< m, n >> \in OpToRel(<, Nat))
  BY NatLessThanWellFounded, WFMin
<1>2. \A m \in X : ~(m < n)
  BY <1>1, Zenon DEF OpToRel
<1> QED
  BY <1>2

LEMMA BeforeTotal ==
    ASSUME NEW a \in Seq(Nat), NEW b \in Seq(Nat)
    PROVE  a = b \/ R!Before(a, b) \/ R!Before(b, a)
<1> DEFINE X == {i \in Nat : i \in 1 .. Len(a) /\ i <= Len(b) /\ a[i] # b[i]}
<1>1. /\ Len(a) \in Nat /\ Len(b) \in Nat
      /\ \A i \in 1 .. Len(a) : a[i] \in Nat
      /\ \A i \in 1 .. Len(b) : b[i] \in Nat
  BY LenProperties, ElementOfSeq
<1>2. CASE X = {}
  <2>1. ASSUME NEW i \in 1 .. Len(a), i <= Len(b) PROVE a[i] = b[i]
    <3>1. i \in Nat
      BY <1>1
    <3> QED
      BY <1>2, <2>1, <3>1
  <2> HIDE DEF X
  <2>2. CASE Len(a) = Len(b)
    <3>1. \A i \in 1 .. Len(a) : a[i] = b[i]
      BY <1>1, <2>1, <2>2
    <3> QED
      BY <2>2, <3>1, SeqEqual
  <2>3. CASE Len(a) < Len(b)
    <3>1. R!Agree(a, b, Len(a))
      BY <1>1, <2>1, <2>3 DEF R!Agree
    <3> QED
      BY <2>3, <3>1 DEF R!Before
  <2>4. CASE Len(b) < Len(a)
    <3>1. R!Agree(b, a, Len(b))
      BY <1>1, <2>1, <2>4 DEF R!Agree
    <3> QED
      BY <2>4, <3>1 DEF R!Before
  <2> QED
    BY <1>1, <2>2, <2>3, <2>4
<1>3. CASE X # {}
  <2>1. PICK i \in X : \A j \in X : i <= j
    BY <1>3, Least, Zenon
  <2>2. i \in 1 .. Len(a) /\ i \in 1 .. Len(b) /\ a[i] # b[i] /\ i <= Len(a) /\ i <= Len(b)
    BY <1>1
  <2>3. R!Agree(a, b, i - 1) /\ R!Agree(b, a, i - 1)
    <3>1. ASSUME NEW j \in 1 .. i - 1 PROVE a[j] = b[j]
      <4>1. j \in Nat /\ j \in 1 .. Len(a) /\ j <= Len(b) /\ ~(i <= j)
        BY <1>1, <2>2
      <4>2. j \notin X
        BY <2>1, <4>1
      <4> QED
        BY <4>1, <4>2
    <3> QED
      BY <3>1 DEF R!Agree
  <2>4. a[i] < b[i] \/ b[i] < a[i]
    BY <1>1, <2>2
  <2> QED
    BY <2>2, <2>3, <2>4 DEF R!Before
<1> QED
  BY <1>2, <1>3

-----------------------------------------------------------------------------
\* A key in a namespace.
LEMMA ScopeLetters ==
    ASSUME NEW m \in Nat, NEW x \in Seq(Nat)
    PROVE  /\ R!scope_key(m, x) \in Seq(Nat) /\ Len(x) \in Nat /\ Len(R!scope_key(m, x)) = Len(x) + 1
           /\ R!scope_key(m, x)[1] = m /\ \A i \in 1 .. Len(x) : R!scope_key(m, x)[i + 1] = x[i]
<1> DEFINE k == << m >> \o x
<1>1. << m >> \in Seq(Nat) /\ Len(<< m >>) = 1 /\ << m >>[1] = m /\ Len(x) \in Nat
  BY LenProperties
<1>2. /\ k \in Seq(Nat) /\ Len(k) = Len(<< m >>) + Len(x)
      /\ \A i \in 1 .. Len(<< m >>) + Len(x) : k[i] = IF i <= Len(<< m >>) THEN << m >>[i] ELSE x[i - Len(<< m >>)]
  BY <1>1, ConcatProperties, Zenon
<1>3. \A i \in 1 .. 1 + Len(x) : k[i] = IF i <= 1 THEN << m >>[i] ELSE x[i - 1]
  BY <1>1, <1>2
<1> HIDE DEF k
<1>4. k[1] = m /\ \A i \in 1 .. Len(x) : k[i + 1] = x[i]
  <2>1. 1 \in 1 .. 1 + Len(x)
    BY <1>1
  <2>2. ASSUME NEW i \in 1 .. Len(x) PROVE i + 1 \in 1 .. 1 + Len(x) /\ ~(i + 1 <= 1) /\ (i + 1) - 1 = i
    BY <1>1
  <2> QED
    BY <1>1, <1>3, <2>1, <2>2
<1>5. Len(k) = Len(x) + 1
  BY <1>1, <1>2
<1> QED
  BY <1>1, <1>2, <1>4, <1>5 DEF R!scope_key, k

LEMMA Unscoped ==
    ASSUME NEW m \in Nat, NEW x \in Seq(Nat)
    PROVE  R!unscope_key(R!scope_key(m, x)) = x
<1> DEFINE k == R!scope_key(m, x)
           q == SubSeq(k, 2, Len(k))
<1>1. k \in Seq(Nat) /\ Len(x) \in Nat /\ Len(k) = Len(x) + 1 /\ \A i \in 1 .. Len(x) : k[i + 1] = x[i]
  BY ScopeLetters, Zenon
<1> HIDE DEF k
<1>2. q \in Seq(Nat) /\ Len(q) = Len(x) /\ \A i \in 1 .. Len(x) : q[i] = k[i + 1]
  BY <1>1
<1> HIDE DEF q
<1>3. q = x
  <2>1. \A i \in 1 .. Len(x) : q[i] = x[i]
    BY <1>1, <1>2
  <2> QED
    BY <1>2, <2>1, SeqEqual
<1>4. R!unscope_key(k) = q
  BY DEF R!unscope_key, R!NS_PREFIX_LEN, q
<1> QED
  BY <1>3, <1>4 DEF k

\* Keys are ordered by namespace first, and in one namespace as they are.
LEMMA ScopeOrder ==
    ASSUME NEW m \in Nat, NEW n \in Nat, NEW x \in Seq(Nat), NEW y \in Seq(Nat)
    PROVE  R!Before(R!scope_key(m, x), R!scope_key(n, y)) <=> m < n \/ (m = n /\ R!Before(x, y))
<1> DEFINE a == R!scope_key(m, x)
           b == R!scope_key(n, y)
<1>1. /\ Len(x) \in Nat /\ Len(a) = Len(x) + 1 /\ a[1] = m /\ \A i \in 1 .. Len(x) : a[i + 1] = x[i]
      /\ Len(y) \in Nat /\ Len(b) = Len(y) + 1 /\ b[1] = n /\ \A i \in 1 .. Len(y) : b[i + 1] = y[i]
  BY ScopeLetters, Zenon
<1> HIDE DEF a, b
<1>2. CASE m < n
  <2>1. 1 \in 1 .. Len(a) /\ 1 <= Len(b) /\ R!Agree(a, b, 1 - 1) /\ a[1] < b[1]
    BY <1>1, <1>2 DEF R!Agree
  <2> QED
    BY <1>2, <2>1 DEF R!Before, a, b
<1>3. CASE n < m
  <2>1. ASSUME NEW i \in 1 .. Len(a), R!Agree(a, b, i - 1), a[i] < b[i] PROVE FALSE
    <3>1. CASE i = 1
      BY <1>1, <1>3, <2>1, <3>1
    <3>2. CASE i # 1
      <4>1. 1 \in 1 .. i - 1
        BY <1>1, <3>2
      <4> QED
        BY <1>1, <1>3, <2>1, <4>1 DEF R!Agree
    <3> QED
      BY <3>1, <3>2
  <2>2. ASSUME R!Agree(a, b, Len(a)) PROVE FALSE
    <3>1. 1 \in 1 .. Len(a)
      BY <1>1
    <3> QED
      BY <1>1, <1>3, <2>2, <3>1 DEF R!Agree
  <2>3. ~R!Before(a, b)
    BY <2>1, <2>2 DEF R!Before
  <2> QED
    BY <1>3, <2>3 DEF a, b
<1>4. CASE m = n
  <2>0. ASSUME NEW j \in Nat, j <= Len(x), j <= Len(y)
        PROVE  R!Agree(a, b, j + 1) <=> R!Agree(x, y, j)
    <3>1. ASSUME R!Agree(a, b, j + 1), NEW i \in 1 .. j PROVE x[i] = y[i]
      <4>1. i + 1 \in 1 .. j + 1 /\ i \in 1 .. Len(x) /\ i \in 1 .. Len(y)
        BY <1>1, <2>0
      <4> QED
        BY <1>1, <3>1, <4>1 DEF R!Agree
    <3>2. ASSUME R!Agree(x, y, j), NEW i \in 1 .. j + 1 PROVE a[i] = b[i]
      <4>1. CASE i = 1
        BY <1>1, <1>4, <4>1
      <4>2. CASE i # 1
        <5>1. PICK l \in 1 .. j : i = l + 1 /\ l \in 1 .. Len(x) /\ l \in 1 .. Len(y)
          <6>1. i - 1 \in 1 .. j /\ i = (i - 1) + 1 /\ i - 1 \in 1 .. Len(x) /\ i - 1 \in 1 .. Len(y)
            BY <1>1, <2>0, <4>2
          <6> QED
            BY <6>1
        <5> QED
          BY <1>1, <3>2, <5>1 DEF R!Agree
      <4> QED
        BY <4>1, <4>2
    <3> QED
      BY <3>1, <3>2 DEF R!Agree
  <2>1. ASSUME R!Before(x, y) PROVE R!Before(a, b)
    <3>1. CASE \E i \in 1 .. Len(x) : i <= Len(y) /\ R!Agree(x, y, i - 1) /\ x[i] < y[i]
      <4>1. PICK i \in 1 .. Len(x) : i <= Len(y) /\ R!Agree(x, y, i - 1) /\ x[i] < y[i]
        BY <3>1
      <4>2. i - 1 \in Nat /\ i - 1 <= Len(x) /\ i - 1 <= Len(y) /\ (i - 1) + 1 = (i + 1) - 1
            /\ i \in 1 .. Len(y) /\ i + 1 \in 1 .. Len(a) /\ i + 1 <= Len(b)
        <5>1. Len(x) \in Nat /\ Len(y) \in Nat /\ Len(a) = Len(x) + 1 /\ Len(b) = Len(y) + 1
          BY <1>1
        <5>2. i \in Nat /\ 1 <= i /\ i <= Len(x) /\ i <= Len(y)
          BY <4>1, <5>1
        <5> QED
          BY <5>1, <5>2
      <4>3. R!Agree(a, b, (i + 1) - 1) /\ a[i + 1] < b[i + 1]
        BY <1>1, <2>0, <4>1, <4>2, Zenon
      <4> QED
        BY <4>2, <4>3 DEF R!Before
    <3>2. CASE Len(x) < Len(y) /\ R!Agree(x, y, Len(x))
      <4>1. Len(a) < Len(b) /\ R!Agree(a, b, Len(a))
        BY <1>1, <2>0, <3>2
      <4> QED
        BY <4>1 DEF R!Before
    <3> QED
      BY <2>1, <3>1, <3>2 DEF R!Before
  <2>2. ASSUME R!Before(a, b) PROVE R!Before(x, y)
    <3>1. CASE \E i \in 1 .. Len(a) : i <= Len(b) /\ R!Agree(a, b, i - 1) /\ a[i] < b[i]
      <4>1. PICK i \in 1 .. Len(a) : i <= Len(b) /\ R!Agree(a, b, i - 1) /\ a[i] < b[i]
        BY <3>1
      <4>2. i # 1
        BY <1>1, <1>4, <4>1
      <4>3. PICK l \in 1 .. Len(x) : i = l + 1 /\ l <= Len(y) /\ l \in 1 .. Len(y) /\ l - 1 \in Nat
                                     /\ l - 1 <= Len(x) /\ l - 1 <= Len(y) /\ (l - 1) + 1 = i - 1
        <5>1. i - 1 \in 1 .. Len(x) /\ i = (i - 1) + 1 /\ i - 1 <= Len(y) /\ i - 1 \in 1 .. Len(y)
              /\ (i - 1) - 1 \in Nat /\ (i - 1) - 1 <= Len(x) /\ (i - 1) - 1 <= Len(y)
              /\ ((i - 1) - 1) + 1 = i - 1
          BY <1>1, <4>1, <4>2
        <5> QED
          BY <5>1
      <4>4. R!Agree(x, y, l - 1) /\ x[l] < y[l]
        BY <1>1, <2>0, <4>1, <4>3, Zenon
      <4> QED
        BY <4>3, <4>4 DEF R!Before
    <3>2. CASE Len(a) < Len(b) /\ R!Agree(a, b, Len(a))
      <4>1. Len(x) < Len(y) /\ Len(x) <= Len(x) /\ Len(x) <= Len(y)
        BY <1>1, <3>2
      <4>2. R!Agree(a, b, Len(x) + 1)
        BY <1>1, <3>2
      <4>3. R!Agree(x, y, Len(x))
        BY <1>1, <2>0, <4>1, <4>2
      <4> QED
        BY <4>1, <4>3 DEF R!Before
    <3> QED
      BY <2>2, <3>1, <3>2 DEF R!Before
  <2> QED
    BY <1>4, <2>1, <2>2 DEF a, b
<1> QED
  BY <1>2, <1>3, <1>4

-----------------------------------------------------------------------------
\* Module Records has its own instance of the cardinality of sets.
LEMMA SameCardinality == ASSUME NEW X PROVE R!Cardinality(X) = Cardinality(X)
  BY DEF R!Cardinality, R!IsFiniteSet, Cardinality, IsFiniteSet

\* The ranks of a finite set of keys number it in the order of the keys.
LEMMA KeyRanks ==
    ASSUME NEW keys \in SUBSET Seq(Nat), IsFiniteSet(keys)
    PROVE  /\ Cardinality(keys) \in Nat
           /\ \A k \in keys : R!Rank(k, keys) \in 0 .. Cardinality(keys) - 1
           /\ \A k, l \in keys : R!Before(k, l) => R!Rank(k, keys) < R!Rank(l, keys)
           /\ \A k, l \in keys : R!Rank(k, keys) = R!Rank(l, keys) => k = l
           /\ \A i \in 0 .. Cardinality(keys) - 1 : \E k \in keys : R!Rank(k, keys) = i
<1> DEFINE n    == Cardinality(keys)
           B(k) == {x \in keys : R!Before(x, k)}
<1>1. n \in Nat
  BY FS_CardinalityType
<1>2. ASSUME NEW k \in keys
      PROVE  /\ IsFiniteSet(B(k)) /\ Cardinality(B(k)) \in Nat /\ Cardinality(B(k)) < n
             /\ R!Rank(k, keys) = Cardinality(B(k))
  <2>1. B(k) \in SUBSET keys /\ k \notin B(k)
    BY BeforeIrreflexive
  <2>2. R!Rank(k, keys) = Cardinality(B(k))
    BY SameCardinality DEF R!Rank
  <2> HIDE DEF B
  <2>3. IsFiniteSet(B(k)) /\ Cardinality(B(k)) <= n /\ (n = Cardinality(B(k)) => keys = B(k))
    BY <2>1, FS_Subset
  <2>4. Cardinality(B(k)) \in Nat /\ n # Cardinality(B(k))
    BY <2>1, <2>3, FS_CardinalityType
  <2> QED
    BY <1>1, <2>2, <2>3, <2>4
<1>3. ASSUME NEW k \in keys, NEW l \in keys, R!Before(k, l) PROVE R!Rank(k, keys) < R!Rank(l, keys)
  <2>1. B(k) \in SUBSET B(l) /\ k \in B(l) /\ k \notin B(k)
    BY <1>3, BeforeTransitive, BeforeIrreflexive
  <2> HIDE DEF B
  <2>2. Cardinality(B(k)) <= Cardinality(B(l)) /\ Cardinality(B(k)) # Cardinality(B(l))
    BY <1>2, <2>1, FS_Subset
  <2>3. Cardinality(B(k)) \in Nat /\ Cardinality(B(l)) \in Nat
    BY <1>2
  <2> QED
    BY <1>2, <2>2, <2>3
<1> HIDE DEF B
<1>4. ASSUME NEW k \in keys PROVE R!Rank(k, keys) \in 0 .. n - 1
  BY <1>1, <1>2
<1>5. ASSUME NEW k \in keys, NEW l \in keys, R!Rank(k, keys) = R!Rank(l, keys) PROVE k = l
  <2>1. R!Rank(k, keys) \in Int /\ R!Rank(l, keys) \in Int
    BY <1>1, <1>4
  <2>2. ~R!Before(k, l) /\ ~R!Before(l, k)
    BY <1>3, <1>5, <2>1
  <2> QED
    BY <2>2, BeforeTotal
<1>6. \A i \in 0 .. n - 1 : \E k \in keys : R!Rank(k, keys) = i
  <2> DEFINE f == [k \in keys |-> R!Rank(k, keys)]
  <2>1. f \in Injection(keys, 0 .. n - 1)
    BY <1>4, <1>5 DEF Injection, IsInjective
  <2>2. IsFiniteSet(0 .. n - 1) /\ Cardinality(0 .. n - 1) = n
    BY <1>1, FS_Interval
  <2>3. f \in Surjection(keys, 0 .. n - 1)
    <3> HIDE DEF f
    <3> QED
      BY <2>1, <2>2, FS_Injection
  <2> QED
    BY <2>3, Zenon DEF Surjection
<1> QED
  BY <1>1, <1>3, <1>4, <1>5, <1>6

\* A finite set of keys in order.
LEMMA InOrderFacts ==
    ASSUME NEW keys \in SUBSET Seq(Nat), IsFiniteSet(keys)
    PROVE  LET q == R!InOrder(keys)
           IN  /\ q \in Seq(keys) /\ Len(q) \in Nat /\ Len(q) = Cardinality(keys) /\ R!Elements(q) = keys
               /\ \A i, j \in 1 .. Len(q) : i < j => R!Before(q[i], q[j])
<1> DEFINE n    == Cardinality(keys)
           q    == R!InOrder(keys)
           K(i) == CHOOSE k \in keys : R!Rank(k, keys) = i - 1
<1>1. n \in Nat
  BY KeyRanks
<1>2. q = [i \in 1 .. n |-> K(i)]
  BY SameCardinality DEF R!InOrder
<1>3. ASSUME NEW i \in 1 .. n PROVE K(i) \in keys /\ R!Rank(K(i), keys) = i - 1
  <2>1. i - 1 \in 0 .. n - 1
    BY <1>1
  <2> QED
    BY <2>1, KeyRanks
<1> HIDE DEF K, n, q
<1>4. q \in [1 .. n -> keys] /\ \A i \in 1 .. n : q[i] \in keys /\ R!Rank(q[i], keys) = i - 1
  BY <1>2, <1>3
<1>5. q \in Seq(keys)
  <2>1. n \in Nat /\ q \in [1 .. n -> keys]
    BY <1>1, <1>4
  <2> QED
    BY <2>1, SeqDef
<1>6. Len(q) = n
  <2>1. 1 .. Len(q) = 1 .. n /\ Len(q) \in Nat
    BY <1>4, <1>5, LenProperties
  <2>2. \A l \in Nat : 1 .. l = 1 .. n => ~(l < n) /\ ~(n < l)
    <3> SUFFICES ASSUME NEW l \in Nat, l < n \/ n < l PROVE 1 .. l # 1 .. n
      OBVIOUS
    <3>1. (l \in 1 .. l) # (l \in 1 .. n) \/ (n \in 1 .. l) # (n \in 1 .. n)
      BY <1>1
    <3> QED
      BY <3>1, Zenon
  <2> QED
    BY <1>1, <2>1, <2>2
<1>7. R!Elements(q) = keys
  <2>1. ASSUME NEW k \in keys PROVE \E i \in 1 .. n : q[i] = k
    <3>1. R!Rank(k, keys) \in 0 .. n - 1
      BY KeyRanks DEF n
    <3>2. R!Rank(k, keys) + 1 \in 1 .. n /\ (R!Rank(k, keys) + 1) - 1 = R!Rank(k, keys)
      BY <1>1, <3>1
    <3>3. q[R!Rank(k, keys) + 1] \in keys /\ R!Rank(q[R!Rank(k, keys) + 1], keys) = R!Rank(k, keys)
      BY <1>4, <3>2
    <3>4. q[R!Rank(k, keys) + 1] = k
      BY <3>3, KeyRanks
    <3> QED
      BY <3>2, <3>4
  <2> QED
    BY <1>4, <1>6, <2>1 DEF R!Elements
<1>8. ASSUME NEW i \in 1 .. n, NEW j \in 1 .. n, i < j PROVE R!Before(q[i], q[j])
  <2>1. q[i] \in keys /\ q[j] \in keys /\ R!Rank(q[i], keys) = i - 1 /\ R!Rank(q[j], keys) = j - 1
    BY <1>4
  <2>2. R!Rank(q[i], keys) # R!Rank(q[j], keys) /\ ~(R!Rank(q[j], keys) < R!Rank(q[i], keys))
    BY <1>1, <1>8, <2>1
  <2>3. q[i] # q[j] /\ ~R!Before(q[j], q[i])
    BY <2>1, <2>2, KeyRanks, Zenon
  <2>4. q[i] \in Seq(Nat) /\ q[j] \in Seq(Nat)
    BY <2>1
  <2> QED
    BY <2>3, <2>4, BeforeTotal
<1> QED
  BY <1>1, <1>5, <1>6, <1>7, <1>8 DEF n, q

-----------------------------------------------------------------------------
\* The letters of the keys and repositories that clients send.
LEMMA ClientLetters ==
    ASSUME RecordConstants, NEW x \in ClientKey \cup Repo
    PROVE  x \in Seq(Nat) /\ Len(x) \in Nat /\ \A i \in 1 .. Len(x) : x[i] \in Nat /\ x[i] < LastByte
<1> DEFINE L == 0 .. LastByte - 1
<1>1. x \in Seq(L) /\ LastByte \in Nat
  BY DEF RecordConstants
<1>2. \A l \in L : l \in Nat /\ l < LastByte
  BY <1>1
<1> HIDE DEF L
<1>3. Len(x) \in Nat /\ x \in [1 .. Len(x) -> L]
  BY <1>1, LenProperties
<1>4. x \in [1 .. Len(x) -> Nat] /\ \A i \in 1 .. Len(x) : x[i] \in Nat /\ x[i] < LastByte
  BY <1>2, <1>3
<1>5. x \in Seq(Nat)
  BY <1>3, <1>4, SeqDef
<1> QED
  BY <1>3, <1>4, <1>5

\* What a stored key is.
LEMMA StoredShape ==
    ASSUME RecordConstants, Stored, NEW s \in DOMAIN data
    PROVE  \E m \in Nat, x \in ClientKey \cup Repo :
             /\ s = R!scope_key(m, x)
             /\ (m = 0 /\ x \in ClientKey) \/ (m = Registry /\ m # 0)
<1>1. Registry \in Nat /\ Registry # 0 /\ 0 \in Nat
  BY DEF RecordConstants
<1>2. CASE \E k \in ClientKey : s = R!scope_key(0, k)
  BY <1>1, <1>2, Zenon
<1>3. CASE \E r \in Repo : s = R!scope_key(Registry, r)
  BY <1>1, <1>3, Zenon
<1> QED
  BY <1>2, <1>3 DEF Stored, R!StoredKey

\* A key tells its namespace and the client's key.
LEMMA ScopeInjective ==
    ASSUME NEW m \in Nat, NEW n \in Nat, NEW x \in Seq(Nat), NEW y \in Seq(Nat),
           R!scope_key(m, x) = R!scope_key(n, y)
    PROVE  m = n /\ x = y
<1>1. R!scope_key(m, x)[1] = m /\ R!scope_key(n, y)[1] = n
  BY ScopeLetters, Zenon
<1>2. R!unscope_key(R!scope_key(m, x)) = x /\ R!unscope_key(R!scope_key(n, y)) = y
  BY Unscoped
<1> QED
  BY <1>1, <1>2

LEMMA StoredFinite ==
    ASSUME RecordConstants, Stored
    PROVE  IsFiniteSet(DOMAIN data) /\ DOMAIN data \subseteq Seq(Nat)
<1>1. DOMAIN data \subseteq Seq(Nat)
  BY StoredShape, ClientLetters, ScopeLetters
<1>2. ASSUME NEW X, IsFiniteSet(X), NEW m PROVE IsFiniteSet({R!scope_key(m, k) : k \in X})
  <2> DEFINE Y == {R!scope_key(m, k) : k \in X}
             f == [k \in X |-> R!scope_key(m, k)]
  <2>1. f \in Surjection(X, Y)
    BY DEF Surjection
  <2> HIDE DEF f, Y
  <2>2. IsFiniteSet(Y)
    BY <1>2, <2>1, FS_Surjection
  <2> QED
    BY <2>2 DEF Y
<1>3. IsFiniteSet(R!StoredKey)
  <2> DEFINE Y == {R!scope_key(0, k) : k \in ClientKey}
             Z == {R!scope_key(Registry, r) : r \in Repo}
  <2>1. IsFiniteSet(Y) /\ IsFiniteSet(Z)
    BY <1>2, Zenon DEF RecordConstants
  <2>2. R!StoredKey = Y \cup Z
    BY DEF R!StoredKey
  <2> HIDE DEF Y, Z
  <2> QED
    BY <2>1, <2>2, FS_Union, Zenon
<1>4. IsFiniteSet(DOMAIN data)
  BY <1>3, FS_Subset DEF Stored
<1> QED
  BY <1>1, <1>4

\* What a scan finds.
LEMMA ScanFinds ==
    ASSUME RecordConstants, Stored, NEW start, NEW end
    PROVE  LET q == R!scan(start, end)
               X == {k \in DOMAIN data : R!Between(start, k, end)}
           IN  /\ q \in Seq(X) /\ Len(q) \in Nat /\ Len(q) = Cardinality(X) /\ R!Elements(q) = X
               /\ \A i, j \in 1 .. Len(q) : i < j => R!Before(q[i], q[j])
<1> DEFINE X == {k \in DOMAIN data : R!Between(start, k, end)}
<1>1. X \in SUBSET Seq(Nat) /\ IsFiniteSet(X)
  BY StoredFinite, FS_Subset
<1>2. R!scan(start, end) = R!InOrder(X)
  BY DEF R!scan
<1> HIDE DEF X
<1>3. /\ R!InOrder(X) \in Seq(X) /\ Len(R!InOrder(X)) \in Nat /\ Len(R!InOrder(X)) = Cardinality(X)
      /\ R!Elements(R!InOrder(X)) = X
      /\ \A i, j \in 1 .. Len(R!InOrder(X)) : i < j => R!Before(R!InOrder(X)[i], R!InOrder(X)[j])
  BY <1>1, InOrderFacts, Zenon
<1> QED
  BY <1>2, <1>3 DEF X

-----------------------------------------------------------------------------
LEMMA RecordsInit == R!Init => Stored
  BY DEF R!Init, Stored

LEMMA RecordsNext ==
    ASSUME Stored, [R!Next]_R!recordVars
    PROVE  Stored'
<1>1. ASSUME NEW keys PROVE DOMAIN R!Without(keys) \subseteq R!StoredKey
  BY DEF R!Without, Stored
<1>2. ASSUME NEW new, DOMAIN new \subseteq R!StoredKey PROVE DOMAIN R!With(new) \subseteq R!StoredKey
  BY <1>2 DEF R!With, Stored
<1>3. ASSUME NEW k \in ClientKey PROVE R!scope_key(0, k) \in R!StoredKey
  BY DEF R!StoredKey
<1>4. ASSUME NEW outcome, R!Becomes(outcome), DOMAIN outcome.data \subseteq R!StoredKey PROVE Stored'
  BY <1>4 DEF R!Becomes, Stored, R!StoredKey
<1>5. \A records, count : R!Done(records, count).data = records /\ R!Error(records).data = records
  BY DEF R!Done, R!Error
<1>6. ASSUME NEW k \in ClientKey, NEW done \in BOOLEAN, NEW v, R!Becomes(R!handle_put(k, v, done)) PROVE Stored'
  <2>1. DOMAIN R!Record(R!scope_key(0, k), v) \subseteq R!StoredKey
    BY <1>3 DEF R!Record
  <2>2. DOMAIN R!handle_put(k, v, done).data \subseteq R!StoredKey
    BY <1>2, <1>5, <2>1 DEF R!handle_put, Stored
  <2> QED
    BY <1>4, <1>6, <2>2
<1>7. ASSUME NEW k \in ClientKey, NEW done \in BOOLEAN, R!Becomes(R!handle_delete(k, done)) PROVE Stored'
  <2>1. DOMAIN R!handle_delete(k, done).data \subseteq R!StoredKey
    BY <1>1, <1>5 DEF R!handle_delete, Stored
  <2> QED
    BY <1>4, <1>7, <2>1
<1>8. ASSUME NEW k \in ClientKey, NEW k2 \in ClientKey, NEW v, NEW v2, NEW done \in BOOLEAN,
             R!Becomes(R!handle_put_batch(k, v, k2, v2, done))
      PROVE  Stored'
  <2> DEFINE new == [x \in {R!scope_key(0, k), R!scope_key(0, k2)} |-> IF x = R!scope_key(0, k2) THEN v2 ELSE v]
  <2>1. DOMAIN new \subseteq R!StoredKey
    BY <1>3
  <2>2. R!handle_put_batch(k, v, k2, v2, done) = IF done THEN R!Done(R!With(new), 2) ELSE R!Error(data)
    BY DEF R!handle_put_batch
  <2> HIDE DEF new
  <2>3. DOMAIN R!handle_put_batch(k, v, k2, v2, done).data \subseteq R!StoredKey
    BY <1>2, <1>5, <2>1, <2>2 DEF Stored
  <2> QED
    BY <1>4, <1>8, <2>3
<1>9. ASSUME NEW k, NEW k2, NEW done, R!Becomes(R!handle_range_delete(k, k2, done)) PROVE Stored'
  <2>1. DOMAIN R!handle_range_delete(k, k2, done).data \subseteq R!StoredKey
    BY <1>1, <1>5 DEF R!handle_range_delete
  <2> QED
    BY <1>4, <1>9, <2>1
<1>10. ASSUME NEW r \in Repo, NEW done \in BOOLEAN, R!Becomes(R!handle_ns_create(r, done)) PROVE Stored'
  <2>1. DOMAIN R!Record(R!scope_key(Registry, r), "full") \subseteq R!StoredKey
    BY DEF R!Record, R!StoredKey
  <2>2. DOMAIN R!handle_ns_create(r, done).data \subseteq R!StoredKey
    BY <1>2, <1>5, <2>1 DEF R!handle_ns_create, Stored
  <2> QED
    BY <1>4, <1>10, <2>2
<1>11. ASSUME NEW ns, NEW failed, R!Becomes(R!handle_ns_delete(ns, failed)) PROVE Stored'
  <2>1. DOMAIN R!handle_ns_delete(ns, failed).data \subseteq R!StoredKey
    BY <1>1, <1>5 DEF R!handle_ns_delete
  <2> QED
    BY <1>4, <1>11, <2>1
<1>12. ASSUME data' = data PROVE Stored'
  BY <1>12 DEF Stored, R!StoredKey
<1> QED
  BY <1>6, <1>7, <1>8, <1>9, <1>10, <1>11, <1>12 DEF R!Next, R!recordVars, R!Watching

-----------------------------------------------------------------------------
\* Which keys are in the range of a namespace, and in a range of the default one.
LEMMA NsRange ==
    ASSUME RecordConstants, NEW ns \in 0 .. LastByte - 1, NEW m \in Nat, NEW x \in ClientKey \cup Repo
    PROVE  /\ R!Between(R!ns_scan_range(ns).start, R!scope_key(m, x), R!ns_scan_range(ns).end) <=> m = ns /\ x # << >>
           /\ R!Between(<< ns >>, R!scope_key(m, x), << ns, LastByte >>) <=> m = ns
           /\ R!scope_key(m, x) = << ns >> <=> m = ns /\ x = << >>
           /\ R!key_in_namespace(R!scope_key(m, x), ns) <=> m = ns
<1>1. LastByte \in Nat /\ ns \in Nat /\ 0 \in Nat
  BY DEF RecordConstants
<1>2. x \in Seq(Nat) /\ Len(x) \in Nat /\ \A i \in 1 .. Len(x) : x[i] \in Nat /\ x[i] < LastByte
  BY ClientLetters
<1>3. << >> \in Seq(Nat) /\ << 0 >> \in Seq(Nat) /\ << LastByte >> \in Seq(Nat)
  BY <1>1
<1>4. << ns >> = R!scope_key(ns, << >>) /\ << ns, 0 >> = R!scope_key(ns, << 0 >>)
      /\ << ns, LastByte >> = R!scope_key(ns, << LastByte >>)
  BY <1>1 DEF R!scope_key
<1>5. x = << >> <=> Len(x) = 0
  BY <1>2
<1>6. R!Before(x, << 0 >>) <=> x = << >>
  <2>1. Len(<< 0 >>) = 1 /\ << 0 >>[1] = 0
    OBVIOUS
  <2>2. ASSUME NEW i \in 1 .. Len(x), i <= 1 PROVE ~(x[i] < << 0 >>[i])
    BY <1>2, <2>1, <2>2
  <2>3. Len(x) < 1 <=> Len(x) = 0
    BY <1>2
  <2>4. Len(x) = 0 => R!Agree(x, << 0 >>, Len(x))
    BY DEF R!Agree
  <2> QED
    BY <1>5, <2>1, <2>2, <2>3, <2>4 DEF R!Before
<1>7. R!Before(x, << LastByte >>)
  <2>1. Len(<< LastByte >>) = 1 /\ << LastByte >>[1] = LastByte
    OBVIOUS
  <2>2. CASE Len(x) = 0
    BY <2>1, <2>2 DEF R!Before, R!Agree
  <2>3. CASE Len(x) # 0
    <3>1. 1 \in 1 .. Len(x) /\ 1 <= 1
      BY <1>2, <2>3
    <3>2. x[1] < << LastByte >>[1] /\ R!Agree(x, << LastByte >>, 1 - 1)
      BY <1>2, <2>1, <3>1 DEF R!Agree
    <3> QED
      BY <2>1, <3>1, <3>2 DEF R!Before
  <2> QED
    BY <2>2, <2>3
<1>8. ~R!Before(x, << >>)
  BY <1>2 DEF R!Before
<1>9. /\ R!Before(R!scope_key(m, x), << ns, 0 >>) <=> m < ns \/ (m = ns /\ x = << >>)
      /\ R!Before(R!scope_key(m, x), << ns >>) <=> m < ns
      /\ R!Before(R!scope_key(m, x), << ns, LastByte >>) <=> m < ns \/ m = ns
  <2>1. ASSUME NEW y \in Seq(Nat)
        PROVE  R!Before(R!scope_key(m, x), R!scope_key(ns, y)) <=> m < ns \/ (m = ns /\ R!Before(x, y))
    BY <1>1, <1>2, ScopeOrder
  <2>2. /\ R!Before(R!scope_key(m, x), R!scope_key(ns, << 0 >>)) <=> m < ns \/ (m = ns /\ R!Before(x, << 0 >>))
        /\ R!Before(R!scope_key(m, x), R!scope_key(ns, << >>)) <=> m < ns \/ (m = ns /\ R!Before(x, << >>))
        /\ R!Before(R!scope_key(m, x), R!scope_key(ns, << LastByte >>)) <=> m < ns \/ (m = ns /\ R!Before(x, << LastByte >>))
    BY <1>3, <2>1, Zenon
  <2> QED
    BY <1>4, <1>6, <1>7, <1>8, <2>2
<1>10. ~(m < ns) /\ (m < ns \/ m = ns) <=> m = ns
  BY <1>1
<1>11. /\ R!Between(<< ns, 0 >>, R!scope_key(m, x), << ns, LastByte >>) <=> m = ns /\ x # << >>
       /\ R!Between(<< ns >>, R!scope_key(m, x), << ns, LastByte >>) <=> m = ns
  BY <1>9, <1>10, Zenon DEF R!Between
<1>12. R!ns_scan_range(ns).start = << ns, 0 >> /\ R!ns_scan_range(ns).end = << ns, LastByte >>
  BY DEF R!ns_scan_range
<1>13. R!scope_key(m, x) = << ns >> <=> m = ns /\ x = << >>
  <2>1. ASSUME NEW y \in Seq(Nat) PROVE R!scope_key(m, x) = R!scope_key(ns, y) <=> m = ns /\ x = y
    BY <1>1, <1>2, ScopeInjective
  <2>2. R!scope_key(m, x) = R!scope_key(ns, << >>) <=> m = ns /\ x = << >>
    BY <1>3, <2>1, Zenon
  <2> QED
    BY <1>4, <2>2
<1>14. R!key_in_namespace(R!scope_key(m, x), ns) <=> m = ns
  BY <1>2, ScopeLetters, Zenon DEF R!key_in_namespace, R!namespace_id_of
<1> QED
  BY <1>11, <1>12, <1>13, <1>14

LEMMA DefaultRange ==
    ASSUME NEW start \in Seq(Nat), NEW end \in Seq(Nat), NEW m \in Nat, NEW x \in Seq(Nat)
    PROVE  R!Between(R!scope_key(0, start), R!scope_key(m, x), R!scope_key(0, end)) <=> m = 0 /\ R!Between(start, x, end)
<1>1. R!Before(R!scope_key(m, x), R!scope_key(0, start)) <=> m < 0 \/ (m = 0 /\ R!Before(x, start))
  BY ScopeOrder
<1>2. R!Before(R!scope_key(m, x), R!scope_key(0, end)) <=> m < 0 \/ (m = 0 /\ R!Before(x, end))
  BY ScopeOrder
<1>3. ~(m < 0)
  OBVIOUS
<1> QED
  BY <1>1, <1>2, <1>3, Zenon DEF R!Between

(***************************************************************************)
(* For any keys and bytes: deleting a namespace removes its records but for*)
(* the one with the empty key and those whose delete failed, and nothing of*)
(* another namespace (handle_ns_delete, ns_scan_range).                    *)
(***************************************************************************)
LEMMA NsDeletes ==
    ASSUME RecordConstants
    PROVE  R!Spec => []R!NsDeleteExact
<1>1. Stored => R!NsDeleteExact
  <2> SUFFICES ASSUME Stored, NEW ns \in R!Byte \ {LastByte}, NEW failed \in SUBSET DOMAIN data
               PROVE  DOMAIN R!handle_ns_delete(ns, failed).data =
                        {s \in DOMAIN data : ~R!key_in_namespace(s, ns) \/ s = << ns >> \/ s \in failed}
    BY DEF R!NsDeleteExact
  <2> DEFINE from == R!ns_scan_range(ns).start
             to   == R!ns_scan_range(ns).end
             X    == {k \in DOMAIN data : R!Between(from, k, to)}
  <2>1. ns \in 0 .. LastByte - 1
    BY DEF RecordConstants, R!Byte
  <2>2. R!Elements(R!scan(from, to)) = X
    BY ScanFinds, Zenon
  <2>3. DOMAIN R!handle_ns_delete(ns, failed).data = DOMAIN data \ (X \ failed)
    BY <2>2 DEF R!handle_ns_delete, R!Done, R!Without
  <2>4. ASSUME NEW s \in DOMAIN data PROVE s \in X <=> R!key_in_namespace(s, ns) /\ s # << ns >>
    <3>1. PICK m \in Nat, x \in ClientKey \cup Repo : s = R!scope_key(m, x)
      BY StoredShape
    <3>2. /\ R!Between(from, R!scope_key(m, x), to) <=> m = ns /\ x # << >>
          /\ R!scope_key(m, x) = << ns >> <=> m = ns /\ x = << >>
          /\ R!key_in_namespace(R!scope_key(m, x), ns) <=> m = ns
      BY <2>1, NsRange, Zenon
    <3> QED
      BY <3>1, <3>2
  <2> HIDE DEF X
  <2> QED
    BY <2>3, <2>4
<1> QED
  BY <1>1, RecordsInit, RecordsNext, PTL DEF R!Spec

(***************************************************************************)
(* For any keys: a range delete that reports success has removed every     *)
(* record of its range, and whatever it reports it has touched nothing     *)
(* outside the range and no namespace entry (handle_range_delete).         *)
(***************************************************************************)
LEMMA RangeDeletes ==
    ASSUME RecordConstants
    PROVE  R!Spec => []R!RangeDeleteReported
<1>1. Stored => R!RangeDeleteReported
  <2> SUFFICES ASSUME Stored, NEW start \in ClientKey, NEW end \in ClientKey,
                      NEW done \in 0 .. R!Cardinality(ClientKey)
               PROVE  LET ranged  == {R!scope_key(0, k) : k \in {c \in ClientKey : R!Between(start, c, end)}}
                          outcome == R!handle_range_delete(start, end, done)
                      IN  /\ DOMAIN data \ ranged \subseteq DOMAIN outcome.data
                          /\ outcome.ok => DOMAIN outcome.data \cap ranged = {}
    BY DEF R!RangeDeleteReported
  <2> DEFINE ranged  == {R!scope_key(0, k) : k \in {c \in ClientKey : R!Between(start, c, end)}}
             outcome == R!handle_range_delete(start, end, done)
             from    == R!scope_key(0, start)
             to      == R!scope_key(0, end)
             q       == R!scan(from, to)
             X       == {k \in DOMAIN data : R!Between(from, k, to)}
  <2>1. q \in Seq(X) /\ Len(q) \in Nat /\ R!Elements(q) = X
    BY ScanFinds
  <2>2. X = DOMAIN data \cap ranged
    <3>1. ASSUME NEW s \in DOMAIN data, R!Between(from, s, to) PROVE s \in ranged
      <4>1. PICK m \in Nat, x \in ClientKey \cup Repo :
              /\ s = R!scope_key(m, x)
              /\ (m = 0 /\ x \in ClientKey) \/ (m = Registry /\ m # 0)
        BY StoredShape
      <4>2. start \in Seq(Nat) /\ end \in Seq(Nat) /\ x \in Seq(Nat)
        BY ClientLetters
      <4>3. m = 0 /\ R!Between(start, x, end)
        BY <3>1, <4>1, <4>2, DefaultRange
      <4> QED
        BY <4>1, <4>3
    <3>2. ASSUME NEW k \in ClientKey, R!Between(start, k, end) PROVE R!Between(from, R!scope_key(0, k), to)
      <4>1. start \in Seq(Nat) /\ end \in Seq(Nat) /\ k \in Seq(Nat) /\ 0 \in Nat
        BY ClientLetters
      <4> QED
        BY <3>2, <4>1, DefaultRange
    <3> HIDE DEF from, to
    <3> QED
      BY <3>1, <3>2
  <2>3. R!Elements(R!First(done, q)) \subseteq X
    <3>1. CASE done < Len(q)
      <4>1. done \in Nat
        BY FS_CardinalityType, SameCardinality DEF RecordConstants
      <4>2. Len(SubSeq(q, 1, done)) = done /\ \A i \in 1 .. done : SubSeq(q, 1, done)[i] = q[i]
        <5> HIDE DEF X, q
        <5> QED
          BY <2>1, <3>1, <4>1
      <4>3. \A i \in 1 .. done : i \in 1 .. Len(q)
        BY <2>1, <3>1, <4>1
      <4> QED
        BY <2>1, <3>1, <4>2, <4>3 DEF R!First, R!Elements
    <3>2. CASE ~(done < Len(q))
      BY <2>1, <3>2 DEF R!First
    <3> QED
      BY <3>1, <3>2
  <2>4. outcome = IF done < Len(q) THEN R!Error(R!Without(R!Elements(R!First(done, q))))
                  ELSE R!Done(R!Without(X), Len(q))
    BY <2>1, Zenon DEF R!handle_range_delete
  <2>5. /\ done < Len(q) => ~outcome.ok /\ DOMAIN outcome.data = DOMAIN data \ R!Elements(R!First(done, q))
        /\ ~(done < Len(q)) => DOMAIN outcome.data = DOMAIN data \ X
    BY <2>4 DEF R!Error, R!Done, R!Without
  <2> HIDE DEF X, ranged, q, outcome
  <2>6. DOMAIN data \ ranged \subseteq DOMAIN outcome.data /\ (outcome.ok => DOMAIN outcome.data \cap ranged = {})
    BY <2>2, <2>3, <2>5
  <2> QED
    BY <2>6 DEF ranged, outcome
<1> QED
  BY <1>1, RecordsInit, RecordsNext, PTL DEF R!Spec

(***************************************************************************)
(* Deletes are exact in every state of the handlers.  Rests on Stored: the *)
(* engine's keys are scoped client keys and namespace entries.             *)
(***************************************************************************)
THEOREM DeletesAreExact ==
    ASSUME RecordConstants
    PROVE  R!Spec => []R!DeletesExact
BY NsDeletes, RangeDeletes, PTL DEF R!DeletesExact

-----------------------------------------------------------------------------
\* The live records of a range, by the clients' keys.
Live(start, end) == {k \in ClientKey : R!Between(start, k, end) /\ R!handle_get(k) # << >>}

LEMMA GetFinds ==
    ASSUME NEW k
    PROVE  R!handle_get(k) # << >> <=> R!scope_key(0, k) \in DOMAIN data
<1>1. << k >> # << >>
  OBVIOUS
<1> QED
  BY <1>1 DEF R!handle_get

\* What a scan of the default namespace finds, by the clients' keys.
LEMMA ScanRows ==
    ASSUME RecordConstants, Stored, NEW start \in ClientKey, NEW end \in ClientKey
    PROVE  LET q == R!scan(R!scope_key(0, start), R!scope_key(0, end))
           IN  /\ Len(q) \in Nat /\ Len(q) <= Cardinality(ClientKey) /\ q \in Seq(Seq(Nat))
               /\ \A i \in 1 .. Len(q) :
                    R!unscope_key(q[i]) \in Live(start, end) /\ q[i] = R!scope_key(0, R!unscope_key(q[i]))
               /\ \A k \in Live(start, end) : \E i \in 1 .. Len(q) : R!unscope_key(q[i]) = k
               /\ \A i, j \in 1 .. Len(q) : i < j => R!Before(R!unscope_key(q[i]), R!unscope_key(q[j]))
<1> DEFINE from == R!scope_key(0, start)
           to   == R!scope_key(0, end)
           q    == R!scan(from, to)
           X    == {k \in DOMAIN data : R!Between(from, k, to)}
<1>1. /\ q \in Seq(X) /\ Len(q) \in Nat /\ Len(q) = Cardinality(X) /\ R!Elements(q) = X
      /\ \A i, j \in 1 .. Len(q) : i < j => R!Before(q[i], q[j])
  BY ScanFinds, Zenon
<1>2. start \in Seq(Nat) /\ end \in Seq(Nat) /\ 0 \in Nat
  BY ClientLetters
<1>3. ASSUME NEW s \in X
      PROVE  R!unscope_key(s) \in Live(start, end) /\ s = R!scope_key(0, R!unscope_key(s)) /\ s \in Seq(Nat)
  <2>1. PICK m \in Nat, x \in ClientKey \cup Repo :
          /\ s = R!scope_key(m, x)
          /\ (m = 0 /\ x \in ClientKey) \/ (m = Registry /\ m # 0)
    BY StoredShape
  <2>2. x \in Seq(Nat)
    BY ClientLetters
  <2>3. m = 0 /\ R!Between(start, x, end)
    BY <1>2, <2>1, <2>2, DefaultRange
  <2>4. R!unscope_key(s) = x /\ s \in Seq(Nat)
    BY <2>1, <2>2, Unscoped, ScopeLetters
  <2> QED
    BY <2>1, <2>3, <2>4, GetFinds DEF Live
<1>4. ASSUME NEW k \in Live(start, end) PROVE R!scope_key(0, k) \in X /\ R!unscope_key(R!scope_key(0, k)) = k
  <2>1. k \in ClientKey /\ R!Between(start, k, end) /\ R!scope_key(0, k) \in DOMAIN data
    BY GetFinds DEF Live
  <2>2. k \in Seq(Nat)
    BY <2>1, ClientLetters
  <2> QED
    BY <1>2, <2>1, <2>2, DefaultRange, Unscoped
<1> HIDE DEF X, q, from, to
<1>5. \A i \in 1 .. Len(q) : q[i] \in X
  BY <1>1 DEF R!Elements
<1>6. ASSUME NEW k \in Live(start, end) PROVE \E i \in 1 .. Len(q) : R!unscope_key(q[i]) = k
  BY <1>1, <1>4 DEF R!Elements
<1>7. ASSUME NEW i \in 1 .. Len(q), NEW j \in 1 .. Len(q), i < j
      PROVE  R!Before(R!unscope_key(q[i]), R!unscope_key(q[j]))
  <2> DEFINE x == R!unscope_key(q[i])
             y == R!unscope_key(q[j])
  <2>1. R!Before(q[i], q[j])
    BY <1>1, <1>7
  <2>2. x \in Live(start, end) /\ y \in Live(start, end) /\ q[i] = R!scope_key(0, x) /\ q[j] = R!scope_key(0, y)
    BY <1>3, <1>5
  <2> HIDE DEF x, y
  <2>3. x \in Seq(Nat) /\ y \in Seq(Nat)
    BY <2>2, ClientLetters DEF Live
  <2>4. R!Before(R!scope_key(0, x), R!scope_key(0, y)) => R!Before(x, y)
    BY <1>2, <2>3, ScopeOrder
  <2> QED
    BY <2>1, <2>2, <2>4 DEF x, y
<1>8. Len(q) <= Cardinality(ClientKey)
  <2> DEFINE f == [s \in X |-> R!unscope_key(s)]
  <2>1. \A s \in X : R!unscope_key(s) \in ClientKey
    BY <1>3 DEF Live
  <2>2. \A s, t \in X : R!unscope_key(s) = R!unscope_key(t) => s = t
    BY <1>3
  <2>3. f \in Injection(X, ClientKey)
    BY <2>1, <2>2 DEF Injection, IsInjective
  <2> HIDE DEF f
  <2> QED
    BY <1>1, <2>3, FS_Injection DEF RecordConstants
<1>9. q \in Seq(Seq(Nat))
  <2>1. q \in [1 .. Len(q) -> Seq(Nat)]
    BY <1>1, <1>3, <1>5, LenProperties
  <2> DEFINE Y == Seq(Nat)
  <2> HIDE DEF Y
  <2>2. q \in [1 .. Len(q) -> Y] /\ Len(q) \in Nat
    BY <1>1, <2>1 DEF Y
  <2>3. q \in Seq(Y)
    BY <2>2, SeqDef
  <2> QED
    BY <2>3 DEF Y
<1> QED
  BY <1>1, <1>3, <1>5, <1>6, <1>7, <1>8, <1>9 DEF q, from, to

\* The first rows of an answer.
LEMMA FirstRows ==
    ASSUME NEW X, NEW q \in Seq(X), NEW n \in Nat
    PROVE  LET p == R!First(n, q)
           IN  /\ Len(q) \in Nat /\ Len(p) \in Nat /\ Len(p) = (IF n < Len(q) THEN n ELSE Len(q)) /\ Len(p) <= Len(q)
               /\ \A i \in 1 .. Len(p) : i \in 1 .. Len(q) /\ p[i] = q[i]
<1>1. Len(q) \in Nat
  BY LenProperties
<1>2. CASE n < Len(q)
  <2>1. Len(SubSeq(q, 1, n)) = n /\ \A i \in 1 .. n : SubSeq(q, 1, n)[i] = q[i]
    BY <1>1, <1>2
  <2>2. R!First(n, q) = SubSeq(q, 1, n)
    BY <1>2 DEF R!First
  <2> QED
    BY <1>1, <1>2, <2>1, <2>2
<1>3. CASE ~(n < Len(q))
  <2>1. R!First(n, q) = q
    BY <1>3 DEF R!First
  <2> QED
    BY <1>1, <1>3, <2>1
<1> QED
  BY <1>2, <1>3

\* The page that a scan answers with: the first live records of the range, in order.
LEMMA PageRows ==
    ASSUME RecordConstants, Stored, NEW start \in ClientKey, NEW end \in ClientKey, NEW limit \in Nat
    PROVE  LET page == R!handle_scan(start, end, limit)
           IN  /\ Len(page) \in Nat /\ (page = << >> <=> Len(page) = 0)
               /\ limit # 0 /\ Len(page) = 0 => Live(start, end) = {}
               /\ \A i \in 1 .. Len(page) : page[i] \in Live(start, end)
               /\ \A i, j \in 1 .. Len(page) : i < j => R!Before(page[i], page[j])
               /\ \A k \in Live(start, end) :
                    \/ \E i \in 1 .. Len(page) : page[i] = k
                    \/ limit < Cardinality(ClientKey) /\ \A i \in 1 .. Len(page) : R!Before(page[i], k)
<1> DEFINE q    == R!scan(R!scope_key(0, start), R!scope_key(0, end))
           p    == R!First(limit, q)
           page == R!handle_scan(start, end, limit)
           U(i) == R!unscope_key(q[i])
<1>1. /\ Len(q) \in Nat /\ Len(q) <= Cardinality(ClientKey) /\ q \in Seq(Seq(Nat))
      /\ \A i \in 1 .. Len(q) : U(i) \in Live(start, end)
      /\ \A k \in Live(start, end) : \E i \in 1 .. Len(q) : U(i) = k
      /\ \A i, j \in 1 .. Len(q) : i < j => R!Before(U(i), U(j))
  BY ScanRows
<1>2. page = [i \in 1 .. Len(p) |-> R!unscope_key(p[i])]
  BY DEF R!handle_scan
<1> HIDE DEF q, page
<1>3. /\ Len(p) \in Nat /\ Len(p) = (IF limit < Len(q) THEN limit ELSE Len(q)) /\ Len(p) <= Len(q)
      /\ \A i \in 1 .. Len(p) : i \in 1 .. Len(q) /\ p[i] = q[i]
  BY <1>1, FirstRows, Zenon
<1> DEFINE n == Len(p)
<1>4. page = [i \in 1 .. n |-> U(i)] /\ n \in Nat
  BY <1>2, <1>3
<1> HIDE DEF p, U
<1>5. Len(page) = n /\ \A i \in 1 .. n : page[i] = U(i)
  <2> HIDE DEF n
  <2> QED
    BY <1>4
<1>6. page = << >> <=> n = 0
  <2>1. ASSUME n = 0 PROVE page = << >>
    BY <1>4, <2>1
  <2>2. ASSUME page = << >> PROVE n = 0
    BY <1>5, <2>2
  <2> QED
    BY <2>1, <2>2
<1>7. ASSUME limit # 0, n = 0 PROVE Live(start, end) = {}
  <2>1. Len(q) = 0
    BY <1>1, <1>3, <1>7, Zenon
  <2>2. 1 .. Len(q) = {}
    BY <2>1
  <2> QED
    BY <1>1, <2>2, Zenon
<1>8. ASSUME NEW k \in Live(start, end)
      PROVE  \/ \E i \in 1 .. n : page[i] = k
             \/ limit < Cardinality(ClientKey) /\ \A i \in 1 .. n : R!Before(page[i], k)
  <2>1. PICK j \in 1 .. Len(q) : U(j) = k
    BY <1>1
  <2>2. CASE j <= n
    <3>1. j \in 1 .. n
      BY <1>1, <1>4, <2>2
    <3> QED
      BY <1>5, <2>1, <3>1
  <2>3. CASE ~(j <= n)
    <3>0. Cardinality(ClientKey) \in Nat
      BY FS_CardinalityType DEF RecordConstants
    <3>1. limit < Cardinality(ClientKey) /\ \A i \in 1 .. n : i < j /\ i \in 1 .. Len(q)
      BY <1>1, <1>3, <2>3, <3>0
    <3> QED
      BY <1>1, <1>5, <2>1, <3>1
  <2> QED
    BY <2>2, <2>3
<1>9. \A i \in 1 .. n : page[i] \in Live(start, end)
  BY <1>1, <1>3, <1>5
<1>10. \A i, j \in 1 .. n : i < j => R!Before(page[i], page[j])
  BY <1>1, <1>3, <1>5, Zenon
<1> QED
  BY <1>4, <1>5, <1>6, <1>7, <1>8, <1>9, <1>10 DEF page

\* A page and the rest from its last key are all live records of the range.
LEMMA PagesComplete ==
    ASSUME RecordConstants, Stored, NEW start \in ClientKey, NEW end \in ClientKey,
           NEW limit \in 1 .. Cardinality(ClientKey), R!handle_scan(start, end, limit) # << >>
    PROVE  LET page == R!handle_scan(start, end, limit)
               rest == R!handle_scan(page[Len(page)], end, Cardinality(ClientKey))
           IN  R!Elements(page) \cup R!Elements(rest) = Live(start, end)
<1> DEFINE page == R!handle_scan(start, end, limit)
           n    == Len(page)
           z    == page[n]
           N    == Cardinality(ClientKey)
           rest == R!handle_scan(z, end, N)
<1>1. N \in Nat /\ limit \in Nat
  BY FS_CardinalityType DEF RecordConstants
<1>2. /\ n \in Nat /\ n # 0
      /\ \A i \in 1 .. n : page[i] \in Live(start, end)
      /\ \A k \in Live(start, end) : (\E i \in 1 .. n : page[i] = k) \/ \A i \in 1 .. n : R!Before(page[i], k)
  BY <1>1, PageRows, Zenon
<1> HIDE DEF page, N
<1>3. n \in 1 .. n
  BY <1>2
<1>4. z \in Live(start, end) /\ z \in ClientKey
  BY <1>2, <1>3 DEF Live
<1> HIDE DEF n, z
<1>5. /\ \A i \in 1 .. Len(rest) : rest[i] \in Live(z, end)
      /\ \A k \in Live(z, end) : \E i \in 1 .. Len(rest) : rest[i] = k
  <2>1. /\ \A i \in 1 .. Len(rest) : rest[i] \in Live(z, end)
        /\ \A k \in Live(z, end) :
             \/ \E i \in 1 .. Len(rest) : rest[i] = k
             \/ N < N /\ \A i \in 1 .. Len(rest) : R!Before(rest[i], k)
    BY <1>1, <1>4, PageRows, Zenon DEF N
  <2>2. ~(N < N)
    BY <1>1
  <2> QED
    BY <2>1, <2>2, Zenon
<1> HIDE DEF rest
<1>6. R!Elements(rest) = Live(z, end)
  BY <1>5 DEF R!Elements
<1>7. \A k \in ClientKey : k \in Seq(Nat)
  BY ClientLetters
<1>8. Live(z, end) \subseteq Live(start, end)
  <2> SUFFICES ASSUME NEW k \in Live(z, end), R!Before(k, start) PROVE FALSE
    BY DEF Live, R!Between
  <2>1. ~R!Before(k, z) /\ ~R!Before(z, start) /\ k \in ClientKey
    BY <1>4 DEF Live, R!Between
  <2>2. z = start \/ R!Before(start, z)
    BY <1>4, <1>7, <2>1, BeforeTotal
  <2> QED
    BY <1>4, <1>7, <2>1, <2>2, BeforeTransitive
<1>9. ASSUME NEW k \in Live(start, end), ~\E i \in 1 .. n : page[i] = k PROVE k \in Live(z, end)
  <2>1. R!Before(z, k)
    BY <1>2, <1>3, <1>9 DEF n, z
  <2>2. k \in Seq(Nat) /\ z \in Seq(Nat)
    BY <1>4, <1>7 DEF Live
  <2>3. ~R!Before(k, z)
    BY <2>1, <2>2, BeforeTransitive, BeforeIrreflexive
  <2> QED
    BY <2>3 DEF Live, R!Between
<1>10. R!Elements(page) = {page[i] : i \in 1 .. n}
  BY DEF R!Elements, n
<1>11. R!Elements(page) \cup R!Elements(rest) = Live(start, end)
  BY <1>2, <1>6, <1>8, <1>9, <1>10 DEF n
<1> QED
  BY <1>11 DEF page, n, z, N, rest

(***************************************************************************)
(* For any keys and limits: a scan answers with the clients' own keys in   *)
(* order, the page and the rest from its last key are all records of the   *)
(* range, and neither scans nor namespace listings meet a key of the other *)
(* kind (handle_scan, handle_get, handle_ns_list).                         *)
(***************************************************************************)
THEOREM ScansPage ==
    ASSUME RecordConstants
    PROVE  R!Spec => []R!ScanPages
<1>1. Stored => R!ScanPages
  <2> SUFFICES ASSUME Stored PROVE R!ScanPages
    OBVIOUS
  <2>0. R!Cardinality(ClientKey) = Cardinality(ClientKey) /\ Cardinality(ClientKey) \in Nat
    BY SameCardinality, FS_CardinalityType DEF RecordConstants
  <2>1. ASSUME NEW start \in ClientKey, NEW end \in ClientKey, NEW limit \in 1 .. R!Cardinality(ClientKey)
        PROVE  LET page == R!handle_scan(start, end, limit)
                   rest == R!handle_scan(page[Len(page)], end, R!Cardinality(ClientKey))
                   all  == {k \in ClientKey : R!Between(start, k, end) /\ R!handle_get(k) # << >>}
               IN  /\ page = << >> => all = {}
                   /\ page # << >> => /\ R!Elements(page) \cup R!Elements(rest) = all
                                      /\ \A i \in 2 .. Len(page) : R!Before(page[i - 1], page[i])
    <3> DEFINE page == R!handle_scan(start, end, limit)
               rest == R!handle_scan(page[Len(page)], end, R!Cardinality(ClientKey))
    <3>1. limit \in Nat /\ limit # 0
      BY <2>0
    <3>2. /\ Len(page) \in Nat /\ (page = << >> => Live(start, end) = {})
          /\ \A i, j \in 1 .. Len(page) : i < j => R!Before(page[i], page[j])
      BY <3>1, PageRows, Zenon
    <3>3. page # << >> => R!Elements(page) \cup R!Elements(rest) = Live(start, end)
      BY <2>0, PagesComplete
    <3> HIDE DEF page, rest
    <3>4. ASSUME NEW i \in 2 .. Len(page) PROVE R!Before(page[i - 1], page[i])
      <4>1. i - 1 \in 1 .. Len(page) /\ i \in 1 .. Len(page) /\ i - 1 < i
        BY <3>2
      <4> QED
        BY <3>2, <4>1
    <3>5. /\ page = << >> => Live(start, end) = {}
          /\ page # << >> => /\ R!Elements(page) \cup R!Elements(rest) = Live(start, end)
                             /\ \A i \in 2 .. Len(page) : R!Before(page[i - 1], page[i])
      BY <3>2, <3>3, <3>4
    <3> QED
      BY <3>5 DEF page, rest, Live
  <2> DEFINE X == {k \in DOMAIN data : R!Between(<< Registry >>, k, << Registry, LastByte >>)}
  <2>2. R!Elements(R!handle_ns_list) = X
    BY ScanFinds, Zenon DEF R!handle_ns_list
  <2>3. ASSUME NEW s \in DOMAIN data
        PROVE  \/ s \in X /\ R!key_in_namespace(s, Registry) /\ ~\E k \in ClientKey : s = R!scope_key(0, k)
               \/ s \notin X /\ \E k \in ClientKey : s = R!scope_key(0, k)
    <3>1. PICK m \in Nat, x \in ClientKey \cup Repo :
            /\ s = R!scope_key(m, x)
            /\ (m = 0 /\ x \in ClientKey) \/ (m = Registry /\ m # 0)
      BY StoredShape
    <3>2. Registry \in 0 .. LastByte - 1 /\ Registry # 0 /\ 0 \in Nat
      BY DEF RecordConstants
    <3>3. /\ R!Between(<< Registry >>, R!scope_key(m, x), << Registry, LastByte >>) <=> m = Registry
          /\ R!key_in_namespace(R!scope_key(m, x), Registry) <=> m = Registry
      BY <3>2, NsRange
    <3>4. m # 0 => ~\E k \in ClientKey : s = R!scope_key(0, k)
      BY <3>1, <3>2, ClientLetters, ScopeInjective
    <3> QED
      BY <3>1, <3>2, <3>3, <3>4
  <2>4. \A k \in ClientKey : R!handle_get(k) # << >> <=> R!scope_key(0, k) \in DOMAIN data
    BY GetFinds
  <2> HIDE DEF X
  <2>5. /\ \A s \in X : R!key_in_namespace(s, Registry)
        /\ DOMAIN data = X \cup {R!scope_key(0, k) : k \in {c \in ClientKey : R!handle_get(c) # << >>}}
    <3>1. X \subseteq DOMAIN data
      BY DEF X
    <3> QED
      BY <2>3, <2>4, <3>1, Zenon
  <2> QED
    BY <2>1, <2>2, <2>5, Zenon DEF R!ScanPages
<1> QED
  BY <1>1, RecordsInit, RecordsNext, PTL DEF R!Spec
=============================================================================
