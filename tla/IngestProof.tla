---------------------------- MODULE IngestProof ----------------------------
(***************************************************************************)
(* Proofs about Ingest, for all assets, classes, signals, templates,       *)
(* batches and bounds: what the memory of the engine holds, however batches*)
(* overlap, are replayed, break off or are cut short by a crash.           *)
(***************************************************************************)
EXTENDS Ingest, WindowProof

-----------------------------------------------------------------------------
(* How a batch is sorted.                                                  *)

Before(key, i, j) == key[i] < key[j] \/ (key[i] = key[j] /\ i < j)

UpTo(positions, key, i) ==
  {j \in positions : key[j] < key[i] \/ (key[j] = key[i] /\ j <= i)}

\* The place of a position counts those up to it: it is one of 1..n, and of two
\* positions the one that comes first has the lower place.
LEMMA Places ==
  ASSUME NEW n \in Nat, NEW S \in SUBSET (1..n), NEW key, \A i \in S : key[i] \in Nat
  PROVE  /\ IsFiniteSet(S) /\ Cardinality(S) \in Nat
         /\ \A i \in S : Place(S, key, i) \in 1..Cardinality(S)
         /\ \A i, j \in S : Before(key, i, j) => Place(S, key, i) < Place(S, key, j)
<1>1. IsFiniteSet(1..n)
  <2>1. 1 \in Int /\ n \in Int
    OBVIOUS
  <2> QED
    BY <2>1, FS_Interval, Zenon
<1>2. IsFiniteSet(S)
  BY <1>1, FS_Subset, Zenon
<1>3. Cardinality(S) \in Nat
  BY <1>2, FS_CardinalityType, Zenon
<1>4. ASSUME NEW i \in S
      PROVE  /\ UpTo(S, key, i) \in SUBSET S /\ i \in UpTo(S, key, i)
             /\ Place(S, key, i) = Cardinality(UpTo(S, key, i))
  <2>1. i \in Nat
    OBVIOUS
  <2> QED
    BY <2>1 DEF UpTo, Place
<1>5. ASSUME NEW i \in S
      PROVE  /\ IsFiniteSet(UpTo(S, key, i)) /\ Cardinality(UpTo(S, key, i)) \in Nat
             /\ Cardinality(UpTo(S, key, i)) <= Cardinality(S)
             /\ Cardinality(UpTo(S, key, i)) # 0
  <2>1. UpTo(S, key, i) \in SUBSET S /\ UpTo(S, key, i) # {}
    BY <1>4
  <2>2. /\ IsFiniteSet(UpTo(S, key, i))
        /\ Cardinality(UpTo(S, key, i)) <= Cardinality(S)
    BY <1>2, <2>1, FS_Subset, Zenon
  <2>3. Cardinality(UpTo(S, key, i)) \in Nat
    BY <2>2, FS_CardinalityType, Zenon
  <2>4. Cardinality(UpTo(S, key, i)) # 0
    BY <2>1, <2>2, FS_EmptySet, Zenon
  <2> QED
    BY <2>2, <2>3, <2>4
<1>6. ASSUME NEW i \in S
      PROVE  Place(S, key, i) \in 1..Cardinality(S)
  <2>1. Place(S, key, i) = Cardinality(UpTo(S, key, i))
    BY <1>4
  <2> QED
    BY <1>3, <1>5, <2>1
<1>7. ASSUME NEW i \in S, NEW j \in S, Before(key, i, j)
      PROVE  Place(S, key, i) < Place(S, key, j)
  <2>1. i \in Nat /\ j \in Nat /\ key[i] \in Nat /\ key[j] \in Nat
    OBVIOUS
  <2>2. UpTo(S, key, i) \in SUBSET UpTo(S, key, j)
    <3> SUFFICES ASSUME NEW k \in S,
                        key[k] < key[i] \/ (key[k] = key[i] /\ k <= i)
                 PROVE  key[k] < key[j] \/ (key[k] = key[j] /\ k <= j)
      BY DEF UpTo
    <3>1. k \in Nat /\ key[k] \in Nat
      OBVIOUS
    <3> QED
      BY <1>7, <2>1, <3>1 DEF Before
  <2>3. j \notin UpTo(S, key, i) /\ j \in UpTo(S, key, j)
    BY <1>7, <2>1 DEF UpTo, Before
  <2>4. /\ Cardinality(UpTo(S, key, i)) <= Cardinality(UpTo(S, key, j))
        /\ Cardinality(UpTo(S, key, j)) = Cardinality(UpTo(S, key, i))
             => UpTo(S, key, j) = UpTo(S, key, i)
    BY <1>5, <2>2, FS_Subset, Zenon
  <2>5. Cardinality(UpTo(S, key, j)) # Cardinality(UpTo(S, key, i))
    BY <2>3, <2>4
  <2>6. Cardinality(UpTo(S, key, i)) \in Nat /\ Cardinality(UpTo(S, key, j)) \in Nat
    BY <1>5
  <2>7. Place(S, key, i) = Cardinality(UpTo(S, key, i)) /\ Place(S, key, j) = Cardinality(UpTo(S, key, j))
    BY <1>4
  <2> QED
    BY <2>4, <2>5, <2>6, <2>7
<1> QED
  BY <1>2, <1>3, <1>6, <1>7

\* What a sorted list of positions is: each position once, in increasing order.
Sorted(list, S, key) ==
  /\ Cardinality(S) \in Nat
  /\ list \in [1..Cardinality(S) -> S]
  /\ \A i \in S : \E k \in 1..Cardinality(S) : list[k] = i
  /\ \A k, l \in 1..Cardinality(S) : k < l => Before(key, list[k], list[l])

\* Positions that have different places have all the places there are.
LEMMA ArrangedIsSorted ==
  ASSUME NEW n \in Nat, NEW S \in SUBSET (1..n), NEW key, \A i \in S : key[i] \in Nat
  PROVE  Sorted(Arranged(S, key), S, key)
<1> DEFINE size == Cardinality(S)
           place == [i \in S |-> Place(S, key, i)]
           list == Arranged(S, key)
<1>1. /\ IsFiniteSet(S) /\ size \in Nat
      /\ \A i \in S : Place(S, key, i) \in 1..size
      /\ \A i, j \in S : Before(key, i, j) => Place(S, key, i) < Place(S, key, j)
  BY Places
<1>2. \A i, j \in S : i # j => Before(key, i, j) \/ Before(key, j, i)
  <2> TAKE i, j \in S
  <2>1. i \in Nat /\ j \in Nat /\ key[i] \in Nat /\ key[j] \in Nat
    OBVIOUS
  <2> QED
    BY <2>1 DEF Before
<1>3. \A i, j \in S : place[i] = place[j] => i = j
  <2> SUFFICES ASSUME NEW i \in S, NEW j \in S, place[i] = place[j], i # j PROVE FALSE
    OBVIOUS
  <2>1. Place(S, key, i) = Place(S, key, j) /\ Place(S, key, i) \in Nat
    BY <1>1
  <2>2. Place(S, key, i) < Place(S, key, j) \/ Place(S, key, j) < Place(S, key, i)
    BY <1>1, <1>2
  <2> QED
    BY <2>1, <2>2
<1>4. place \in Injection(S, 1..size)
  <2>1. place \in [S -> 1..size]
    BY <1>1
  <2> QED
    BY <1>3, <2>1 DEF Injection, IsInjective
<1>5. IsFiniteSet(1..size) /\ Cardinality(1..size) = size
  <2>1. 1 \in Int /\ size \in Int
    BY <1>1
  <2>2. IsFiniteSet(1..size) /\ Cardinality(1..size) = IF 1 > size THEN 0 ELSE size - 1 + 1
    BY <2>1, FS_Interval, Zenon
  <2> QED
    BY <1>1, <2>2
<1>6. place \in Surjection(S, 1..size)
  BY <1>4, <1>5, FS_Injection
<1>7. \A k \in 1..size : \E i \in S : Place(S, key, i) = k
  BY <1>6 DEF Surjection
<1>8. list = [k \in 1..size |-> CHOOSE i \in S : Place(S, key, i) = k]
  BY DEF Arranged
<1>9. \A k \in 1..size : list[k] \in S /\ Place(S, key, list[k]) = k
  BY <1>7, <1>8
<1>10. \A i \in S : \E k \in 1..size : list[k] = i
  <2> TAKE i \in S
  <2>1. Place(S, key, i) \in 1..size
    BY <1>1
  <2>2. list[Place(S, key, i)] \in S /\ Place(S, key, list[Place(S, key, i)]) = Place(S, key, i)
    BY <1>9, <2>1
  <2>3. list[Place(S, key, i)] = i
    BY <1>3, <2>2
  <2> QED
    BY <2>1, <2>3
<1>11. ASSUME NEW k \in 1..size, NEW l \in 1..size, k < l
       PROVE  Before(key, list[k], list[l])
  <2>1. list[k] \in S /\ list[l] \in S /\ Place(S, key, list[k]) = k /\ Place(S, key, list[l]) = l
    BY <1>9
  <2>2. list[k] # list[l]
    BY <1>11, <2>1
  <2>3. Before(key, list[k], list[l]) \/ Before(key, list[l], list[k])
    BY <1>2, <2>1, <2>2
  <2>4. Before(key, list[l], list[k]) => l < k
    BY <1>1, <2>1
  <2> QED
    BY <1>11, <2>3, <2>4
<1>12. list \in [1..size -> S]
  BY <1>8, <1>9
<1> QED
  BY <1>1, <1>10, <1>11, <1>12 DEF Sorted

\* The positions of an asset's metrics, and the times of all.
PositionsOf(metrics, x) == {i \in Valid(metrics) : metrics[i].asset = x}
TimesOf(metrics) == [i \in DOMAIN metrics |-> metrics[i].ts]
Turns(metrics, x) == Arranged(PositionsOf(metrics, x), TimesOf(metrics))
QueueOf(metrics, x) == MetricsOf(metrics, x, TimesOf(metrics))

InTimeOrder(q) == \A k, l \in DOMAIN q : k < l => q[k].ts <= q[l].ts

\* The queue of an asset has each of its metrics once, by time.
Queued(metrics, x) ==
  /\ Sorted(Turns(metrics, x), PositionsOf(metrics, x), TimesOf(metrics))
  /\ DOMAIN QueueOf(metrics, x) = 1..Cardinality(PositionsOf(metrics, x))
  /\ \A k \in DOMAIN QueueOf(metrics, x) :
       QueueOf(metrics, x)[k] = metrics[Turns(metrics, x)[k]]
  /\ QueueOf(metrics, x) \in Seq(Metric)
  /\ InTimeOrder(QueueOf(metrics, x))

LEMMA QueueIsSorted ==
  ASSUME NEW metrics \in Seq(Metric), NEW x
  PROVE  Queued(metrics, x)
<1> DEFINE S == PositionsOf(metrics, x)
           key == TimesOf(metrics)
           turns == Turns(metrics, x)
           q == QueueOf(metrics, x)
<1>1. DOMAIN metrics = 1..Len(metrics) /\ Len(metrics) \in Nat
      /\ \A i \in DOMAIN metrics : metrics[i] \in Metric
  OBVIOUS
<1>2. S \in SUBSET (1..Len(metrics)) /\ \A i \in S : key[i] = metrics[i].ts /\ key[i] \in Nat
  BY <1>1, IngestAssumption DEF PositionsOf, Valid, TimesOf, Metric
<1>3. Sorted(turns, S, key)
  BY <1>1, <1>2, ArrangedIsSorted DEF Turns
<1>4. Cardinality(S) \in Nat /\ turns \in [1..Cardinality(S) -> S]
      /\ \A k, l \in 1..Cardinality(S) : k < l => Before(key, turns[k], turns[l])
  BY <1>3 DEF Sorted
<1>5. q = [k \in DOMAIN turns |-> metrics[turns[k]]]
  BY DEF QueueOf, MetricsOf, Turns, PositionsOf
<1>6. DOMAIN turns = 1..Cardinality(S)
  BY <1>4
<1>7. q = [k \in 1..Cardinality(S) |-> metrics[turns[k]]]
  BY <1>5, <1>6
<1>8. \A k \in 1..Cardinality(S) : q[k] = metrics[turns[k]] /\ turns[k] \in S
  BY <1>4, <1>7
<1>9. q \in Seq(Metric)
  <2>1. \A k \in 1..Cardinality(S) : metrics[turns[k]] \in Metric
    BY <1>1, <1>2, <1>8
  <2> QED
    BY <1>4, <1>7, <2>1
<1>10. InTimeOrder(q)
  <2> SUFFICES ASSUME NEW k \in 1..Cardinality(S), NEW l \in 1..Cardinality(S), k < l
               PROVE  q[k].ts <= q[l].ts
    BY <1>7 DEF InTimeOrder
  <2>1. Before(key, turns[k], turns[l])
    BY <1>4
  <2>2. key[turns[k]] = q[k].ts /\ key[turns[l]] = q[l].ts
        /\ key[turns[k]] \in Nat /\ key[turns[l]] \in Nat
    BY <1>2, <1>8
  <2> QED
    BY <2>1, <2>2 DEF Before
<1> QED
  BY <1>3, <1>7, <1>8, <1>9, <1>10 DEF Queued

\* Where an asset first appears.
FirstOf(metrics) ==
  {i \in Valid(metrics) :
     \A j \in Valid(metrics) : j < i => metrics[j].asset # metrics[i].asset}

\* Every asset of the batch appears once among the first positions.
LEMMA FirstsAreSorted ==
  ASSUME NEW metrics \in Seq(Metric)
  PROVE  /\ Sorted(Firsts(metrics), FirstOf(metrics), [i \in DOMAIN metrics |-> i])
         /\ \A i \in Valid(metrics) :
              \E j \in FirstOf(metrics) : metrics[j].asset = metrics[i].asset
         /\ \A i, j \in FirstOf(metrics) : metrics[i].asset = metrics[j].asset => i = j
<1>1. DOMAIN metrics = 1..Len(metrics) /\ Len(metrics) \in Nat
  OBVIOUS
<1>2. Valid(metrics) \in SUBSET Nat /\ FirstOf(metrics) \in SUBSET (1..Len(metrics))
      /\ FirstOf(metrics) \subseteq Valid(metrics)
  BY <1>1 DEF Valid, FirstOf
<1>3. Sorted(Firsts(metrics), FirstOf(metrics), [i \in DOMAIN metrics |-> i])
  <2> DEFINE key == [i \in DOMAIN metrics |-> i]
  <2>1. \A i \in FirstOf(metrics) : key[i] \in Nat
    BY <1>1, <1>2
  <2>2. Firsts(metrics) = Arranged(FirstOf(metrics), key)
    BY DEF Firsts, FirstOf
  <2> HIDE DEF key
  <2>3. Sorted(Arranged(FirstOf(metrics), key), FirstOf(metrics), key)
    BY <1>1, <1>2, <2>1, ArrangedIsSorted
  <2> QED
    BY <2>2, <2>3 DEF key
<1>4. ASSUME NEW i \in Valid(metrics)
      PROVE  \E j \in FirstOf(metrics) : metrics[j].asset = metrics[i].asset
  <2> DEFINE T == {j \in Valid(metrics) : metrics[j].asset = metrics[i].asset}
  <2>1. T \in SUBSET Nat /\ T # {}
    BY <1>2
  <2>2. PICK j \in T : \A k \in T : j <= k
    BY <2>1, Least
  <2>3. \A k \in Valid(metrics) : k < j => metrics[k].asset # metrics[j].asset
    BY <1>2, <2>2
  <2> QED
    BY <2>2, <2>3 DEF FirstOf
<1>5. ASSUME NEW i \in FirstOf(metrics), NEW j \in FirstOf(metrics),
             metrics[i].asset = metrics[j].asset
      PROVE  i = j
  <2>1. i \in Nat /\ j \in Nat /\ i \in Valid(metrics) /\ j \in Valid(metrics)
    BY <1>2
  <2>2. ~ (i < j) /\ ~ (j < i)
    BY <1>5, <2>1 DEF FirstOf
  <2> QED
    BY <2>1, <2>2
<1> QED
  BY <1>3, <1>4, <1>5

\* A batch that is sorted: one queue for each asset, with its metrics by time.
Groups(todo, metrics) ==
  /\ todo \in Seq([asset : Assets, metrics : Seq(Metric)])
  /\ \A i, j \in DOMAIN todo : todo[i].asset = todo[j].asset => i = j
  /\ \A i \in DOMAIN todo :
       /\ InTimeOrder(todo[i].metrics)
       /\ \A m \in Range(todo[i].metrics) :
            m \in Range(metrics) /\ m.check # "invalid" /\ m.asset = todo[i].asset
  /\ \A m \in Range(metrics) : m.check # "invalid" =>
       \E i \in DOMAIN todo : todo[i].asset = m.asset /\ m \in Range(todo[i].metrics)

LEMMA IsSequence ==
  ASSUME NEW T, NEW n \in Nat, NEW s, s = [k \in 1..n |-> s[k]], \A k \in 1..n : s[k] \in T
  PROVE  s \in Seq(T)
  OBVIOUS

LEMMA GroupedIsGroups ==
  ASSUME NEW metrics \in Seq(Metric)
  PROVE  Groups(Grouped(metrics), metrics)
<1> DEFINE todo == Grouped(metrics)
           firsts == Firsts(metrics)
           size == Cardinality(FirstOf(metrics))
<1>1. DOMAIN metrics = 1..Len(metrics) /\ Len(metrics) \in Nat
      /\ \A i \in DOMAIN metrics : metrics[i] \in Metric
  OBVIOUS
<1>2. /\ size \in Nat /\ firsts \in [1..size -> FirstOf(metrics)]
      /\ \A i \in FirstOf(metrics) : \E k \in 1..size : firsts[k] = i
      /\ \A k, l \in 1..size : k < l => firsts[k] # firsts[l]
  <2>1. Sorted(firsts, FirstOf(metrics), [i \in DOMAIN metrics |-> i])
    BY FirstsAreSorted
  <2>2. FirstOf(metrics) \subseteq 1..Len(metrics)
    BY <1>1 DEF FirstOf, Valid
  <2>3. /\ size \in Nat /\ firsts \in [1..size -> FirstOf(metrics)]
        /\ \A i \in FirstOf(metrics) : \E k \in 1..size : firsts[k] = i
        /\ \A k, l \in 1..size : k < l =>
             Before([i \in DOMAIN metrics |-> i], firsts[k], firsts[l])
    BY <2>1 DEF Sorted
  <2>4. \A i, j \in 1..Len(metrics) : Before([k \in DOMAIN metrics |-> k], i, j) => i # j
    BY <1>1 DEF Before
  <2> QED
    BY <2>2, <2>3, <2>4
<1>3. DOMAIN todo = 1..size
      /\ \A k \in 1..size : todo[k] = [asset |-> metrics[firsts[k]].asset,
                                       metrics |-> QueueOf(metrics, metrics[firsts[k]].asset)]
  <2>1. DOMAIN firsts = 1..size
    BY <1>2
  <2>2. todo = [k \in DOMAIN firsts |->
                 [asset |-> metrics[firsts[k]].asset,
                  metrics |-> QueueOf(metrics, metrics[firsts[k]].asset)]]
    BY DEF Grouped, QueueOf, TimesOf
  <2> QED
    BY <2>1, <2>2
<1>4. \A k \in 1..size : firsts[k] \in FirstOf(metrics) /\ firsts[k] \in DOMAIN metrics
                        /\ metrics[firsts[k]].asset \in Assets
  BY <1>1, <1>2 DEF FirstOf, Valid, Metric
<1>5. \A k \in 1..size : /\ todo[k].asset = metrics[firsts[k]].asset
                         /\ todo[k].metrics = QueueOf(metrics, todo[k].asset)
                         /\ todo[k].asset \in Assets
  BY <1>3, <1>4
<1>6. \A x : Queued(metrics, x)
  BY QueueIsSorted
<1>7. todo \in Seq([asset : Assets, metrics : Seq(Metric)])
  <2>1. \A k \in 1..size : QueueOf(metrics, metrics[firsts[k]].asset) \in Seq(Metric)
    BY <1>6 DEF Queued
  <2>2. \A k \in 1..size : todo[k] \in [asset : Assets, metrics : Seq(Metric)]
    BY <1>3, <1>4, <2>1
  <2>3. todo = [k \in 1..size |-> todo[k]]
    BY <1>3 DEF Grouped
  <2> HIDE DEF todo
  <2> QED
    BY <1>2, <2>2, <2>3, IsSequence, Zenon
<1>8. ASSUME NEW i \in 1..size, NEW j \in 1..size, todo[i].asset = todo[j].asset
      PROVE  i = j
  <2>1. firsts[i] = firsts[j]
    <3>1. firsts[i] \in FirstOf(metrics) /\ firsts[j] \in FirstOf(metrics)
          /\ metrics[firsts[i]].asset = metrics[firsts[j]].asset
      BY <1>4, <1>5, <1>8
    <3>2. \A p, r \in FirstOf(metrics) : metrics[p].asset = metrics[r].asset => p = r
      BY FirstsAreSorted
    <3> QED
      BY <3>1, <3>2
  <2> QED
    BY <1>2, <2>1
<1>9. ASSUME NEW i \in 1..size
      PROVE  InTimeOrder(todo[i].metrics)
  BY <1>5, <1>6 DEF Queued
<1>10. ASSUME NEW i \in 1..size, NEW m \in Range(todo[i].metrics)
       PROVE  m \in Range(metrics) /\ m.check # "invalid" /\ m.asset = todo[i].asset
  <2> DEFINE x == todo[i].asset
  <2>1. PICK k \in DOMAIN QueueOf(metrics, x) : m = QueueOf(metrics, x)[k]
    BY <1>5 DEF Range
  <2>2. m = metrics[Turns(metrics, x)[k]] /\ k \in 1..Cardinality(PositionsOf(metrics, x))
        /\ Sorted(Turns(metrics, x), PositionsOf(metrics, x), TimesOf(metrics))
    BY <1>6, <2>1 DEF Queued
  <2>3. Turns(metrics, x)[k] \in PositionsOf(metrics, x)
    BY <2>2 DEF Sorted
  <2> QED
    BY <2>2, <2>3 DEF PositionsOf, Valid, Range
<1>11. ASSUME NEW m \in Range(metrics), m.check # "invalid"
       PROVE  \E i \in 1..size : todo[i].asset = m.asset /\ m \in Range(todo[i].metrics)
  <2>1. PICK p \in Valid(metrics) : metrics[p] = m
    BY <1>11 DEF Range, Valid
  <2>2. PICK f \in FirstOf(metrics) : metrics[f].asset = m.asset
    BY <2>1, FirstsAreSorted
  <2>3. PICK i \in 1..size : firsts[i] = f
    BY <1>2
  <2>4. todo[i].asset = m.asset /\ todo[i].metrics = QueueOf(metrics, m.asset)
    BY <1>5, <2>2, <2>3
  <2>5. Queued(metrics, m.asset) /\ p \in PositionsOf(metrics, m.asset)
    BY <1>6, <2>1 DEF PositionsOf
  <2>6. PICK k \in 1..Cardinality(PositionsOf(metrics, m.asset)) : Turns(metrics, m.asset)[k] = p
    BY <2>5 DEF Queued, Sorted
  <2>7. k \in DOMAIN QueueOf(metrics, m.asset) /\ QueueOf(metrics, m.asset)[k] = m
    BY <2>1, <2>5, <2>6 DEF Queued
  <2> QED
    BY <2>4, <2>7 DEF Range
<1> QED
  BY <1>3, <1>7, <1>8, <1>9, <1>10, <1>11 DEF Groups

\* The places of the queues are as many as the metrics that are valid.
LEMMA GroupedCounts ==
  ASSUME NEW metrics \in Seq(Metric)
  PROVE  /\ IsFiniteSet(Remaining(Grouped(metrics)))
         /\ Cardinality(Remaining(Grouped(metrics))) = Cardinality(Valid(metrics))
         /\ Cardinality(Valid(metrics)) \in 0..Len(metrics)
<1> DEFINE todo == Grouped(metrics)
           places == Remaining(todo)
           valid == Valid(metrics)
           position == [p \in places |-> Turns(metrics, todo[p[1]].asset)[p[2]]]
<1>1. DOMAIN metrics = 1..Len(metrics) /\ Len(metrics) \in Nat
      /\ \A i \in DOMAIN metrics : metrics[i] \in Metric
  OBVIOUS
<1>2. IsFiniteSet(valid) /\ Cardinality(valid) \in 0..Len(metrics)
  <2>1. 1 \in Int /\ Len(metrics) \in Int
    BY <1>1
  <2>2. IsFiniteSet(1..Len(metrics))
        /\ Cardinality(1..Len(metrics)) = IF 1 > Len(metrics) THEN 0 ELSE Len(metrics) - 1 + 1
    BY <2>1, FS_Interval, Zenon
  <2>3. valid \in SUBSET (1..Len(metrics))
    BY <1>1 DEF Valid
  <2>4. IsFiniteSet(valid) /\ Cardinality(valid) <= Cardinality(1..Len(metrics))
    BY <2>2, <2>3, FS_Subset, Zenon
  <2>5. Cardinality(valid) \in Nat
    BY <2>4, FS_CardinalityType, Zenon
  <2> QED
    BY <1>1, <2>2, <2>4, <2>5
<1>3. /\ \A i, j \in DOMAIN todo : todo[i].asset = todo[j].asset => i = j
      /\ \A i \in DOMAIN todo : todo[i].metrics = QueueOf(metrics, todo[i].asset)
      /\ \A i \in DOMAIN todo : Queued(metrics, todo[i].asset)
  <2>1. \A i \in DOMAIN todo : todo[i].metrics = QueueOf(metrics, todo[i].asset)
    BY DEF Grouped, QueueOf, TimesOf
  <2> QED
    BY <2>1, GroupedIsGroups, QueueIsSorted DEF Groups
<1>4. ASSUME NEW p \in places
      PROVE  /\ p[1] \in DOMAIN todo
             /\ p[2] \in 1..Cardinality(PositionsOf(metrics, todo[p[1]].asset))
             /\ position[p] \in valid
             /\ metrics[position[p]].asset = todo[p[1]].asset
             /\ p = <<p[1], p[2]>>
  <2>1. PICK i \in DOMAIN todo : p \in {i} \X DOMAIN todo[i].metrics
    BY DEF Remaining
  <2>2. p[1] = i /\ p[2] \in DOMAIN todo[i].metrics /\ p = <<p[1], p[2]>>
    BY <2>1
  <2> DEFINE x == todo[i].asset
  <2>3. Queued(metrics, x) /\ p[2] \in DOMAIN QueueOf(metrics, x)
    BY <1>3, <2>2
  <2>4. p[2] \in 1..Cardinality(PositionsOf(metrics, x))
        /\ Turns(metrics, x)[p[2]] \in PositionsOf(metrics, x)
    BY <2>3 DEF Queued, Sorted
  <2>5. position[p] = Turns(metrics, x)[p[2]]
    BY <2>2
  <2> QED
    BY <2>2, <2>4, <2>5 DEF PositionsOf
<1>5. ASSUME NEW p \in places, NEW r \in places, position[p] = position[r]
      PROVE  p = r
  <2> DEFINE x == todo[p[1]].asset
  <2>1. p[1] = r[1]
    BY <1>3, <1>4, <1>5
  <2>2. Sorted(Turns(metrics, x), PositionsOf(metrics, x), TimesOf(metrics))
    BY <1>3, <1>4 DEF Queued
  <2>3. Turns(metrics, x)[p[2]] = Turns(metrics, x)[r[2]]
    BY <1>5, <2>1
  <2>4. p[2] \in 1..Cardinality(PositionsOf(metrics, x))
        /\ r[2] \in 1..Cardinality(PositionsOf(metrics, x))
    BY <1>4, <2>1
  <2>5. \A i \in PositionsOf(metrics, x) : ~ Before(TimesOf(metrics), i, i)
    <3> TAKE i \in PositionsOf(metrics, x)
    <3>1. i \in Nat /\ TimesOf(metrics)[i] \in Nat
      BY <1>1, IngestAssumption DEF PositionsOf, Valid, TimesOf, Metric
    <3> QED
      BY <3>1 DEF Before
  <2>6. p[2] = r[2]
    BY <2>2, <2>3, <2>4, <2>5 DEF Sorted
  <2> QED
    BY <1>4, <2>1, <2>6
<1>6. ASSUME NEW v \in valid
      PROVE  \E p \in places : position[p] = v
  <2>1. metrics[v] \in Range(metrics) /\ metrics[v].check # "invalid"
    BY DEF Valid, Range
  <2>2. PICK i \in DOMAIN todo : todo[i].asset = metrics[v].asset
    BY <2>1, GroupedIsGroups DEF Groups
  <2> DEFINE x == todo[i].asset
  <2>3. Queued(metrics, x) /\ v \in PositionsOf(metrics, x)
    BY <1>3, <2>2 DEF PositionsOf
  <2>4. PICK k \in 1..Cardinality(PositionsOf(metrics, x)) : Turns(metrics, x)[k] = v
    BY <2>3 DEF Queued, Sorted
  <2>5. k \in DOMAIN todo[i].metrics
    BY <1>3, <2>3, <2>4 DEF Queued
  <2>6. <<i, k>> \in places
    BY <2>5 DEF Remaining
  <2>7. position[<<i, k>>] = v
    BY <2>4, <2>6
  <2> QED
    BY <2>6, <2>7
<1> HIDE DEF position
<1>7. DOMAIN position = places /\ position = [p \in places |-> position[p]]
  BY DEF position
<1>8. position \in Injection(places, valid) /\ position \in Surjection(places, valid)
  BY <1>4, <1>5, <1>6, <1>7 DEF Injection, IsInjective, Surjection
<1>9. IsFiniteSet(places)
      /\ (Cardinality(places) = Cardinality(valid) <=> position \in Surjection(places, valid))
  BY <1>2, <1>8, FS_Injection, Zenon
<1> QED
  BY <1>2, <1>8, <1>9

-----------------------------------------------------------------------------
(* The fields of an asset in memory.                                       *)

IsAsset(a) ==
  a = [class |-> a.class, base |-> a.base, src |-> a.src, seen |-> a.seen,
       lastEval |-> a.lastEval, win |-> a.win, hst |-> a.hst, cusum |-> a.cusum,
       marks |-> a.marks, phase |-> a.phase, open |-> a.open]

IsForest(h) ==
  h = [latest |-> h.latest, reference |-> h.reference, seen |-> h.seen, ready |-> h.ready]

LEMMA RebuiltFields ==
  ASSUME NEW a, IsAsset(a), NEW learned, NEW names, NEW r, r = Rebuilt(a, learned, names)
  PROVE  /\ IsAsset(r)
         /\ r.class = a.class /\ r.base = Merged(learned, names)
         /\ r.src = SourceOf(learned, names) /\ r.seen = 0 /\ r.lastEval = 0
         /\ r.win = NewExtractor /\ r.hst = NewHST /\ r.cusum = NewCUSUM
         /\ r.marks = a.marks /\ r.phase = a.phase /\ r.open = a.open
  BY DEF IsAsset, Rebuilt

LEMMA NewAssetFields ==
  ASSUME NEW class, NEW learned, NEW names, NEW r, r = NewAsset(class, learned, names)
  PROVE  /\ IsAsset(r)
         /\ r.class = class /\ r.base = Merged(learned, names)
         /\ r.src = SourceOf(learned, names) /\ r.seen = 0 /\ r.lastEval = 0
         /\ r.win = NewExtractor /\ r.hst = NewHST /\ r.cusum = NewCUSUM
         /\ r.marks = [s \in Streams |-> 0] /\ r.phase = "quiet" /\ r.open = NoAlert
<1> DEFINE a == [class |-> class, base |-> <<>>, src |-> "class", seen |-> 0, lastEval |-> 0,
                 win |-> NewExtractor, hst |-> NewHST, cusum |-> NewCUSUM,
                 marks |-> [s \in Streams |-> 0], phase |-> "quiet", open |-> NoAlert]
<1>1. /\ IsAsset(a) /\ a.class = class /\ a.marks = [s \in Streams |-> 0]
      /\ a.phase = "quiet" /\ a.open = NoAlert
  BY DEF IsAsset
<1>2. r = Rebuilt(a, learned, names)
  BY DEF NewAsset
<1> HIDE DEF a
<1> QED
  BY <1>1, <1>2, RebuiltFields

\* An asset after push has taken a metric in.
LEMMA PushedFields ==
  ASSUME NEW a, IsAsset(a), NEW m, NEW r, r = Pushed(a, m)
  PROVE  /\ IsAsset(r) /\ r.win = Extended(a.win, m)
         /\ r.marks = [a.marks EXCEPT ![m.signal] = m.ts]
         /\ r.class = a.class /\ r.base = a.base /\ r.src = a.src /\ r.seen = a.seen
         /\ r.lastEval = a.lastEval /\ r.hst = a.hst /\ r.cusum = a.cusum
         /\ r.phase = a.phase /\ r.open = a.open
<1> DEFINE w == Extended(a.win, m)
           marks == [a.marks EXCEPT ![m.signal] = m.ts]
<1>1. r = [a EXCEPT !.win = w, !.marks = marks]
  BY DEF Pushed
<1> HIDE DEF w, marks
<1>2. /\ IsAsset(r) /\ r.win = w /\ r.marks = marks
      /\ r.class = a.class /\ r.base = a.base /\ r.src = a.src /\ r.seen = a.seen
      /\ r.lastEval = a.lastEval /\ r.hst = a.hst /\ r.cusum = a.cusum
      /\ r.phase = a.phase /\ r.open = a.open
  BY <1>1 DEF IsAsset
<1> QED
  BY <1>2 DEF w, marks

LEMMA PushedKeeps ==
  ASSUME NEW a, IsAsset(a), NEW m
  PROVE  Pushed(a, m).base = a.base /\ Pushed(a, m).lastEval = a.lastEval
<1>1. PICK r : r = Pushed(a, m)
  OBVIOUS
<1>2. /\ IsAsset(r) /\ r.win = Extended(a.win, m)
      /\ r.marks = [a.marks EXCEPT ![m.signal] = m.ts]
      /\ r.class = a.class /\ r.base = a.base /\ r.src = a.src /\ r.seen = a.seen
      /\ r.lastEval = a.lastEval /\ r.hst = a.hst /\ r.cusum = a.cusum
      /\ r.phase = a.phase /\ r.open = a.open
  BY <1>1, PushedFields
<1>3. r.base = a.base /\ r.lastEval = a.lastEval
  BY <1>2
<1> QED
  BY <1>1, <1>3

\* The forest's masses are of points standardised with the baselines in force,
\* and make up as much of its windows as it says.
ForestOK(h, base) ==
  /\ IsForest(h) /\ h.seen \in 0..HstWindow - 1 /\ h.ready \in BOOLEAN
  /\ h.latest \in Seq({base}) /\ h.reference \in Seq({base})
  /\ Len(h.latest) = h.seen
  /\ Len(h.reference) = IF h.ready THEN HstWindow ELSE 0

\* What an asset in memory is like, under the features of its template.  Beyond
\* its type: class baselines are not learned ones, the warm-up is over when its
\* last evaluation has been seen, and what the detectors hold is of the baselines
\* in force.
AssetOK(a, names) ==
  /\ IsAsset(a)
  /\ a.class \in Classes /\ a.src \in {"class", "asset"}
  /\ DOMAIN a.base \subseteq names
  /\ a.src = "class" => Own(a.base) = {} /\ a.seen < Warmup
  /\ a.seen \in 0..Warmup /\ a.lastEval \in 0..Horizon
  /\ \A s \in Signals : IsWindow(a.win[s], Specs[s].window)
  /\ ForestOK(a.hst, a.base)
  /\ a.cusum \subseteq {a.base}
  /\ a.marks \in [Streams -> 0..Horizon]
  /\ a.phase \in {"quiet", "alerted", "withheld"} /\ a.open \in 0..Horizon

LEMMA MergedBase ==
  ASSUME NEW learned, NEW names
  PROVE  /\ DOMAIN Merged(learned, names) \subseteq names
         /\ SourceOf(learned, names) \in {"class", "asset"}
         /\ SourceOf(learned, names) = "class" => Own(Merged(learned, names)) = {}
         /\ Own(Merged(learned, names)) \subseteq Own(learned)
<1>1. /\ DOMAIN Merged(learned, names) = names \cap (Defaults \cup DOMAIN learned)
      /\ \A f \in DOMAIN Merged(learned, names) :
           Merged(learned, names)[f] = IF f \in DOMAIN learned THEN learned[f] ELSE "class"
  BY DEF Merged
<1> HIDE DEF Merged
<1>2. SourceOf(learned, names) \in {"class", "asset"}
      /\ (SourceOf(learned, names) = "class" => names \cap DOMAIN learned = {})
  BY DEF SourceOf
<1> QED
  BY <1>1, <1>2 DEF Own

LEMMA NewExtractorWindows ==
  \A s \in Signals : /\ IsWindow(NewExtractor[s], Specs[s].window)
                     /\ Values(NewExtractor[s]) = Latest(<<>>, Specs[s].window)
<1> TAKE s \in Signals
<1>1. Specs[s].window \in Nat \ {0}
  BY IngestAssumption
<1>2. NewExtractor[s] = NewWindow(Specs[s].window, Zero)
  BY DEF NewExtractor
<1> QED
  BY <1>1, <1>2, NewWindowIsEmpty

LEMMA EmptySequence ==
  ASSUME NEW T
  PROVE  <<>> \in Seq(T) /\ Len(<<>>) = 0
  OBVIOUS

LEMMA EmptyForest ==
  ASSUME NEW base
  PROVE  ForestOK(NewHST, base)
<1>1. PICK h : h = NewHST
  OBVIOUS
<1>2. /\ IsForest(h) /\ h.latest = <<>> /\ h.reference = <<>>
      /\ h.seen = 0 /\ h.ready = FALSE
  BY <1>1 DEF NewHST, IsForest
<1>3. 0 \in 0..HstWindow - 1
  BY DetectorsAssumption
<1>4. h.latest \in Seq({base}) /\ h.reference \in Seq({base})
  BY <1>2, EmptySequence, Zenon
<1>5. Len(h.latest) = 0 /\ Len(h.reference) = 0
  BY <1>2, EmptySequence, Zenon
<1>6. ForestOK(h, base)
  BY <1>2, <1>3, <1>4, <1>5 DEF ForestOK
<1> QED
  BY <1>1, <1>6

LEMMA ClearedForest ==
  ASSUME NEW h, IsForest(h)
  PROVE  SetBaselines(h) = NewHST
<1>1. PICK r : r = SetBaselines(h)
  OBVIOUS
<1>2. h = [latest |-> h.latest, reference |-> h.reference, seen |-> h.seen, ready |-> h.ready]
  BY DEF IsForest
<1>3. r = [latest |-> <<>>, reference |-> <<>>, seen |-> 0, ready |-> FALSE]
  BY <1>1, <1>2 DEF SetBaselines
<1> QED
  BY <1>1, <1>3 DEF NewHST

LEMMA AppendSame ==
  ASSUME NEW base, NEW q \in Seq({base})
  PROVE  Append(q, base) \in Seq({base}) /\ Len(Append(q, base)) = Len(q) + 1
  OBVIOUS

\* A point of the same baselines goes to the latest window, which becomes the
\* reference when it is whole.
LEMMA ObservedForest ==
  ASSUME NEW h, NEW base, ForestOK(h, base)
  PROVE  ForestOK(Observe(h, base), base)
<1> DEFINE added == [h EXCEPT !.latest = Append(h.latest, base), !.seen = h.seen + 1]
<1>1. IsForest(h) /\ h.seen \in 0..HstWindow - 1 /\ h.ready \in BOOLEAN
      /\ h.latest \in Seq({base}) /\ h.reference \in Seq({base})
      /\ Len(h.latest) = h.seen /\ Len(h.reference) = IF h.ready THEN HstWindow ELSE 0
  BY DEF ForestOK
<1>2. Observe(h, base) = IF added.seen >= HstWindow THEN Rollover(added) ELSE added
  BY DEF Observe
<1>3. /\ IsForest(added) /\ added.latest = Append(h.latest, base) /\ added.seen = h.seen + 1
      /\ added.reference = h.reference /\ added.ready = h.ready
  <2> DEFINE more == Append(h.latest, base)
             count == h.seen + 1
  <2>1. added = [h EXCEPT !.latest = more, !.seen = count]
    OBVIOUS
  <2> HIDE DEF more, count, added
  <2>2. IsForest(added) /\ added.latest = more /\ added.seen = count
        /\ added.reference = h.reference /\ added.ready = h.ready
    BY <1>1, <2>1 DEF IsForest
  <2> QED
    BY <2>2 DEF more, count
<1> HIDE DEF added
<1>4. added.latest \in Seq({base}) /\ Len(added.latest) = h.seen + 1
  BY <1>1, <1>3, AppendSame
<1>5. CASE added.seen >= HstWindow
  <2>1. PICK r : r = Rollover(added)
    OBVIOUS
  <2>2. r = [latest |-> <<>>, reference |-> added.latest, seen |-> 0, ready |-> TRUE]
    BY <1>3, <2>1 DEF Rollover, IsForest
  <2>3. IsForest(r) /\ r.latest = <<>> /\ r.reference = added.latest /\ r.seen = 0 /\ r.ready = TRUE
    BY <2>2 DEF IsForest
  <2>4. r.latest \in Seq({base}) /\ Len(r.latest) = 0
    BY <2>3, EmptySequence, Zenon
  <2>5. Len(r.reference) = HstWindow
    BY <1>1, <1>3, <1>4, <1>5, <2>3, DetectorsAssumption
  <2>6. 0 \in 0..HstWindow - 1
    BY DetectorsAssumption
  <2>7. ForestOK(r, base)
    BY <1>4, <2>3, <2>4, <2>5, <2>6 DEF ForestOK
  <2> QED
    BY <1>2, <1>5, <2>1, <2>7
<1>6. CASE ~ (added.seen >= HstWindow)
  <2>1. added.seen \in 0..HstWindow - 1
    BY <1>1, <1>3, <1>6, DetectorsAssumption
  <2>2. ForestOK(added, base)
    BY <1>1, <1>3, <1>4, <2>1 DEF ForestOK
  <2> QED
    BY <1>2, <1>6, <2>2
<1> QED
  BY <1>5, <1>6

\* Starting again gives an asset without points, whatever there was.
LEMMA RestartedOK ==
  ASSUME NEW r, IsAsset(r), NEW learned, NEW names,
         r.class \in Classes, r.base = Merged(learned, names), r.src = SourceOf(learned, names),
         r.seen = 0, r.lastEval = 0, r.win = NewExtractor, r.hst = NewHST, r.cusum = NewCUSUM,
         r.marks \in [Streams -> 0..Horizon],
         r.phase \in {"quiet", "alerted", "withheld"}, r.open \in 0..Horizon
  PROVE  AssetOK(r, names)
<1>1. /\ DOMAIN r.base \subseteq names /\ r.src \in {"class", "asset"}
      /\ r.src = "class" => Own(r.base) = {}
  BY MergedBase
<1>2. r.seen < Warmup /\ r.seen \in 0..Warmup /\ r.lastEval \in 0..Horizon
  BY DetectorsAssumption, IngestAssumption
<1>3. \A s \in Signals : IsWindow(r.win[s], Specs[s].window)
  BY NewExtractorWindows
<1>4. ForestOK(r.hst, r.base)
  BY EmptyForest
<1>5. r.cusum \subseteq {r.base}
  BY DEF NewCUSUM
<1> QED
  BY <1>1, <1>2, <1>3, <1>4, <1>5 DEF AssetOK

LEMMA RebuiltOK ==
  ASSUME NEW a, NEW given, AssetOK(a, given), NEW learned, NEW names
  PROVE  AssetOK(Rebuilt(a, learned, names), names)
<1>1. PICK r : r = Rebuilt(a, learned, names)
  OBVIOUS
<1>2. /\ IsAsset(a) /\ a.class \in Classes /\ a.marks \in [Streams -> 0..Horizon]
      /\ a.phase \in {"quiet", "alerted", "withheld"} /\ a.open \in 0..Horizon
  BY DEF AssetOK
<1>3. /\ IsAsset(r)
      /\ r.class = a.class /\ r.base = Merged(learned, names)
      /\ r.src = SourceOf(learned, names) /\ r.seen = 0 /\ r.lastEval = 0
      /\ r.win = NewExtractor /\ r.hst = NewHST /\ r.cusum = NewCUSUM
      /\ r.marks = a.marks /\ r.phase = a.phase /\ r.open = a.open
  BY <1>1, <1>2, RebuiltFields
<1>4. AssetOK(r, names)
  BY <1>2, <1>3, RestartedOK
<1> QED
  BY <1>1, <1>4

LEMMA NewAssetOK ==
  ASSUME NEW class \in Classes, NEW learned, NEW names
  PROVE  AssetOK(NewAsset(class, learned, names), names)
<1>1. PICK r : r = NewAsset(class, learned, names)
  OBVIOUS
<1>2. /\ IsAsset(r)
      /\ r.class = class /\ r.base = Merged(learned, names)
      /\ r.src = SourceOf(learned, names) /\ r.seen = 0 /\ r.lastEval = 0
      /\ r.win = NewExtractor /\ r.hst = NewHST /\ r.cusum = NewCUSUM
      /\ r.marks = [s \in Streams |-> 0] /\ r.phase = "quiet" /\ r.open = NoAlert
  BY <1>1, NewAssetFields
<1>3. r.marks \in [Streams -> 0..Horizon] /\ r.open \in 0..Horizon
  BY <1>2, IngestAssumption DEF NoAlert
<1>4. AssetOK(r, names)
  BY <1>2, <1>3, RestartedOK
<1> QED
  BY <1>1, <1>4

\* The samples a metric carries.
Sample == Nat \X Nat

LEMMA BurstIsSamples ==
  ASSUME NEW m \in Metric
  PROVE  Burst(m) \in Seq(Sample)
  BY IngestAssumption DEF Burst, Sample, Metric

\* A push leaves every window the latest samples of its signal.
LEMMA PushedWindows ==
  ASSUME NEW a, NEW names, AssetOK(a, names), NEW m \in Metric,
         NEW before, \A s \in Signals : before[s] \in Seq(Sample),
         \A s \in Signals : Values(a.win[s]) = Latest(before[s], Specs[s].window)
  PROVE  \A s \in Signals :
           /\ IsWindow(Extended(a.win, m)[s], Specs[s].window)
           /\ Values(Extended(a.win, m)[s])
                = Latest(IF s = m.signal THEN before[s] \o Burst(m) ELSE before[s],
                         Specs[s].window)
<1> TAKE s \in Signals
<1>1. Specs[s].window \in Nat \ {0}
  BY IngestAssumption
<1>2. IsWindow(a.win[s], Specs[s].window)
  BY DEF AssetOK
<1>3. Extended(a.win, m)[s] = IF s = m.signal THEN PushAll(a.win[s], Burst(m)) ELSE a.win[s]
  BY DEF Extended
<1>4. CASE s = m.signal
  <2> DEFINE w == a.win[s]
             given == before[s]
             burst == Burst(m)
             capacity == Specs[s].window
  <2>1. given \in Seq(Sample) /\ burst \in Seq(Sample) /\ capacity \in Nat \ {0}
        /\ IsWindow(w, capacity) /\ Values(w) = Latest(given, capacity)
    BY <1>1, <1>2, BurstIsSamples
  <2> HIDE DEF w, given, burst, capacity
  <2>2. IsWindow(PushAll(w, burst), capacity)
        /\ Values(PushAll(w, burst)) = Latest(given \o burst, capacity)
    BY <2>1, PushAllKeepsLatest
  <2> QED
    BY <1>3, <1>4, <2>2 DEF w, given, burst, capacity
<1>5. CASE s # m.signal
  BY <1>2, <1>3, <1>5
<1> QED
  BY <1>4, <1>5

LEMMA PushedOK ==
  ASSUME NEW a, NEW names, AssetOK(a, names), NEW m \in Metric,
         NEW before, \A s \in Signals : before[s] \in Seq(Sample),
         \A s \in Signals : Values(a.win[s]) = Latest(before[s], Specs[s].window)
  PROVE  AssetOK(Pushed(a, m), names)
<1>1. PICK r : r = Pushed(a, m)
  OBVIOUS
<1>2. IsAsset(a) /\ a.marks \in [Streams -> 0..Horizon]
  BY DEF AssetOK
<1>3. /\ IsAsset(r) /\ r.win = Extended(a.win, m)
      /\ r.marks = [a.marks EXCEPT ![m.signal] = m.ts]
      /\ r.class = a.class /\ r.base = a.base /\ r.src = a.src /\ r.seen = a.seen
      /\ r.lastEval = a.lastEval /\ r.hst = a.hst /\ r.cusum = a.cusum
      /\ r.phase = a.phase /\ r.open = a.open
  BY <1>1, <1>2, PushedFields
<1>4. \A s \in Signals : IsWindow(r.win[s], Specs[s].window)
  BY <1>3, PushedWindows
<1>5. m.ts \in 0..Horizon
  BY IngestAssumption DEF Metric
<1>6. r.marks \in [Streams -> 0..Horizon]
  BY <1>2, <1>3, <1>5
<1>7. AssetOK(r, names)
  BY <1>3, <1>4, <1>6 DEF AssetOK
<1> QED
  BY <1>1, <1>7

-----------------------------------------------------------------------------
(* Evaluation.                                                             *)

\* MinSamples is at least one: the windows hold that many.
LEMMA NeededIsPositive ==
  ASSUME NEW s \in Signals
  PROVE  Needed(s) \in Nat \ {0}
  BY IngestAssumption DEF Needed

\* What the evaluation at a time makes of an asset: the time is noted, and if the
\* warm-up ends with it the baselines are those of the features of its template,
\* each of which has been seen; else they are what they were.
Evaluation(a, r, at, names) ==
  /\ AssetOK(r, names)
  /\ r.lastEval = at /\ r.class = a.class /\ r.win = a.win /\ r.marks = a.marks
  /\ IF a.src = "class" /\ LearnerDone(a.seen)
     THEN r.src = "asset" /\ Own(r.base) = names
     ELSE r.src = a.src /\ r.base = a.base

LEMMA NotedIsEvaluation ==
  ASSUME NEW x \in DOMAIN mem, NEW names, names = recipe[mem[x].class], names \in Recipes,
         AssetOK(mem[x], names), Ready(x), job.pending \in 0..Horizon
  PROVE  /\ Evaluation(mem[x], Noted(x), job.pending, names)
         /\ Noted(x).phase = mem[x].phase /\ Noted(x).open = mem[x].open
<1> DEFINE a == mem[x]
           at == job.pending
           count == Counted(a)
           counted == [a EXCEPT !.lastEval = at, !.seen = count]
<1>1. PICK r : r = Noted(x)
  OBVIOUS
<1>2. r = IF Learns(x) THEN Fitted(counted) ELSE counted
  BY <1>1 DEF Noted
<1>3. IsAsset(a) /\ a.seen \in 0..Warmup /\ (a.src = "class" => a.seen < Warmup)
      /\ a.src \in {"class", "asset"}
  BY DEF AssetOK
<1>4. /\ IsAsset(counted) /\ counted.lastEval = at /\ counted.seen = count
      /\ counted.class = a.class /\ counted.base = a.base /\ counted.src = a.src
      /\ counted.win = a.win
      /\ counted.hst = a.hst /\ counted.cusum = a.cusum /\ counted.marks = a.marks
      /\ counted.phase = a.phase /\ counted.open = a.open
  <2>1. counted = [a EXCEPT !.lastEval = at, !.seen = count]
    OBVIOUS
  <2> HIDE DEF count, at, a, counted
  <2> QED
    BY <1>3, <2>1 DEF IsAsset
<1> HIDE DEF counted
<1>5. count \in 0..Warmup
  BY <1>3, DetectorsAssumption DEF Counted
<1>6. CASE Learns(x)
  <2> DEFINE learned == Fit(Extract(counted))
             base == Merged(learned, names)
             src == SourceOf(learned, names)
  <2>1. Learns(x) <=> a.src = "class" /\ LearnerDone(a.seen)
    BY DEF Learns
  <2>2. Extract(counted) = names
    <3>1. \A f \in names : Source[f] \in Signals
      BY IngestAssumption DEF ValidTemplate
    <3>2. \A s \in Signals : Held(counted.win[s]) > 0
      <4> TAKE s \in Signals
      <4>1. Held(a.win[s]) >= Needed(s) /\ Needed(s) \in Nat \ {0}
        BY NeededIsPositive DEF Ready
      <4>2. Held(a.win[s]) \in Nat
        <5>1. IsWindow(a.win[s], Specs[s].window) /\ Specs[s].window \in Nat
          BY IngestAssumption DEF AssetOK
        <5> QED
          BY <5>1 DEF IsWindow, Held
      <4> QED
        BY <1>4, <4>1, <4>2
    <3>3. recipe[counted.class] = names
      BY <1>4
    <3> QED
      BY <3>1, <3>2, <3>3 DEF Extract
  <2>3. learned = [f \in names |-> "own"]
    BY <2>2 DEF Fit
  <2>4. names # {}
    BY IngestAssumption DEF ValidTemplate
  <2>5. src = "asset" /\ base = [f \in names |-> "own"]
    <3>1. DOMAIN learned = names /\ \A f \in names : learned[f] = "own"
      BY <2>3
    <3> HIDE DEF learned
    <3>2. names \cap DOMAIN learned # {}
      BY <2>4, <3>1
    <3>3. src = "asset"
      BY <3>2 DEF SourceOf
    <3>4. base = [f \in names \cap (Defaults \cup DOMAIN learned) |->
                   IF f \in DOMAIN learned THEN learned[f] ELSE "class"]
      BY DEF Merged
    <3>5. names \cap (Defaults \cup DOMAIN learned) = names
      BY <3>1
    <3>6. base = [f \in names |-> IF f \in DOMAIN learned THEN learned[f] ELSE "class"]
      BY <3>4, <3>5
    <3> QED
      BY <3>1, <3>3, <3>6
  <2>6. r = [counted EXCEPT !.base = base, !.src = src,
                            !.hst = SetBaselines(counted.hst), !.cusum = Reset(counted.cusum)]
    <3>1. recipe[counted.class] = names
      BY <1>4
    <3> QED
      BY <1>2, <1>6, <3>1, Zenon DEF Fitted
  <2> DEFINE h == SetBaselines(counted.hst)
             g == Reset(counted.cusum)
  <2>7. h = NewHST
    BY <1>4, ClearedForest DEF AssetOK, ForestOK
  <2>8. g = {}
    BY DEF Reset
  <2>9. r = [counted EXCEPT !.base = base, !.src = src, !.hst = h, !.cusum = g]
    BY <2>6, Zenon
  <2> HIDE DEF base, src, h, g
  <2>10. /\ IsAsset(r) /\ r.base = base /\ r.src = src /\ r.hst = h /\ r.cusum = g
        /\ r.class = counted.class /\ r.seen = counted.seen /\ r.lastEval = counted.lastEval
        /\ r.win = counted.win /\ r.marks = counted.marks
        /\ r.phase = counted.phase /\ r.open = counted.open
    BY <1>4, <2>9 DEF IsAsset
  <2>11. Own(r.base) = names /\ DOMAIN r.base = names
    BY <2>5, <2>10 DEF Own
  <2>12. ForestOK(r.hst, r.base) /\ r.cusum \subseteq {r.base}
    BY <2>7, <2>8, <2>10, EmptyForest
  <2>13. AssetOK(r, names)
    BY <1>4, <1>5, <2>5, <2>10, <2>11, <2>12 DEF AssetOK
  <2> QED
    BY <1>1, <1>4, <1>6, <2>1, <2>5, <2>10, <2>11, <2>13 DEF Evaluation
<1>7. CASE ~ Learns(x)
  <2>1. r = counted
    BY <1>2, <1>7
  <2>2. ~ (a.src = "class" /\ LearnerDone(a.seen))
    BY <1>7 DEF Learns
  <2>3. count \in 0..Warmup /\ (a.src = "class" => count < Warmup)
    BY <1>3, <1>5, <2>2, DetectorsAssumption DEF Counted, LearnerDone
  <2>4. AssetOK(counted, names)
    BY <1>4, <2>3 DEF AssetOK
  <2> QED
    BY <1>1, <1>4, <2>1, <2>2, <2>4 DEF Evaluation
<1> QED
  BY <1>6, <1>7

\* The asset when the policy has decided: the point has gone to the detectors.
DecidedAsset(x, phase, open) == [Evaluated(x) EXCEPT !.phase = phase, !.open = open]

LEMMA DecidedIsEvaluation ==
  ASSUME NEW x \in DOMAIN mem, NEW names, names = recipe[mem[x].class], names \in Recipes,
         AssetOK(mem[x], names), Ready(x), job.pending \in 0..Horizon,
         NEW phase \in {"quiet", "alerted", "withheld"}, NEW open \in 0..Horizon
  PROVE  /\ Evaluation(mem[x], DecidedAsset(x, phase, open), job.pending, names)
         /\ DecidedAsset(x, phase, open).phase = phase
         /\ DecidedAsset(x, phase, open).open = open
         /\ DecidedAsset(x, phase, open).base = Noted(x).base
         /\ DecidedAsset(x, phase, open).src = Noted(x).src
<1>1. PICK n : n = Noted(x)
  OBVIOUS
<1>2. Evaluation(mem[x], n, job.pending, names)
  BY <1>1, NotedIsEvaluation
<1>3. IsAsset(n) /\ ForestOK(n.hst, n.base) /\ n.cusum \subseteq {n.base}
  BY <1>2 DEF Evaluation, AssetOK
<1> DEFINE h == Observe(n.hst, n.base)
           g == Update(n.cusum, n.base)
<1>4. PICK e : e = Evaluated(x)
  OBVIOUS
<1>5. ForestOK(h, n.base) /\ g \subseteq {n.base}
  BY <1>3, ObservedForest DEF Update
<1>6. e = [n EXCEPT !.hst = h, !.cusum = g]
  BY <1>1, <1>4, Zenon DEF Evaluated
<1> HIDE DEF h, g
<1>7. /\ IsAsset(e) /\ e.hst = h /\ e.cusum = g
      /\ e.class = n.class /\ e.base = n.base /\ e.src = n.src
      /\ e.seen = n.seen /\ e.lastEval = n.lastEval /\ e.win = n.win /\ e.marks = n.marks
  BY <1>3, <1>6 DEF IsAsset
<1>8. PICK r : r = DecidedAsset(x, phase, open)
  OBVIOUS
<1>9. r = [e EXCEPT !.phase = phase, !.open = open]
  BY <1>4, <1>8, Zenon DEF DecidedAsset
<1>10. /\ IsAsset(r) /\ r.phase = phase /\ r.open = open
       /\ r.class = e.class /\ r.base = e.base /\ r.src = e.src
       /\ r.seen = e.seen /\ r.lastEval = e.lastEval /\ r.win = e.win /\ r.marks = e.marks
       /\ r.hst = e.hst /\ r.cusum = e.cusum
  BY <1>7, <1>9 DEF IsAsset
<1> DEFINE a == mem[x]
<1>11. /\ n.lastEval = job.pending /\ n.class = a.class /\ n.win = a.win /\ n.marks = a.marks
       /\ IF a.src = "class" /\ LearnerDone(a.seen)
          THEN n.src = "asset" /\ Own(n.base) = names
          ELSE n.src = a.src /\ n.base = a.base
       /\ AssetOK(n, names)
  BY <1>2 DEF Evaluation
<1>12. ForestOK(r.hst, r.base) /\ r.cusum \subseteq {r.base}
  BY <1>5, <1>7, <1>10
<1>13. AssetOK(r, names)
  BY <1>7, <1>10, <1>11, <1>12 DEF AssetOK
<1>14. Evaluation(a, r, job.pending, names)
  BY <1>7, <1>10, <1>11, <1>13 DEF Evaluation
<1> QED
  BY <1>1, <1>7, <1>8, <1>10, <1>14

-----------------------------------------------------------------------------
(* The inductive invariant.                                                *)

StoreOK ==
  /\ recipe \in [Classes -> Recipes] /\ stored \in [Classes -> Recipes]
  /\ DOMAIN snaps \subseteq Assets
  /\ \A x \in DOMAIN snaps : snaps[x].class \in Classes /\ DOMAIN snaps[x].base \subseteq Features
  /\ alerts \subseteq Assets \X (1..Horizon) \X BOOLEAN
  /\ answers \in [Batches -> {"none", "ok", "refused", "error"}]
  /\ rejected \subseteq Metric
  /\ updates \in [Classes -> 0..MaxUpdates] /\ faults \in 0..MaxFaults

MemoryOK ==
  /\ DOMAIN mem \subseteq Assets /\ mem = [x \in DOMAIN mem |-> mem[x]]
  /\ \A x \in DOMAIN mem : AssetOK(mem[x], recipe[mem[x].class])

\* An asset that is not known has no samples, and of one that is known none is
\* later than the mark of its signal.
HistoryOK ==
  /\ accepted \in [Assets -> [Streams -> Seq(1..Horizon)]]
  /\ taken \in [Assets -> [Streams -> Seq(Sample)]]
  /\ \A x \in Assets, s \in Streams :
       IF x \in DOMAIN mem
       THEN \A i \in DOMAIN accepted[x][s] : accepted[x][s][i] <= mem[x].marks[s]
       ELSE accepted[x][s] = <<>> /\ taken[x][s] = <<>>

JobType ==
  [batch : SUBSET Batches, todo : Seq([asset : Assets, metrics : Seq(Metric)]),
   pending : 0..Horizon, res : [accepted : Nat, rejected : Nat, duplicates : Nat]]

InQueue(m) ==
  \E i \in DOMAIN job.todo : job.todo[i].asset = m.asset /\ m \in Range(job.todo[i].metrics)

IsMarked(m) == m.asset \in DOMAIN mem /\ Seen(m.asset, m)

\* The queues of the batch in progress: one for each asset, in order of time, and
\* in the first only metrics that are not earlier than the last one pushed.
QueuesOK(metrics) ==
  /\ \A i, j \in DOMAIN job.todo : job.todo[i].asset = job.todo[j].asset => i = j
  /\ \A i \in DOMAIN job.todo :
       /\ InTimeOrder(job.todo[i].metrics)
       /\ \A m \in Range(job.todo[i].metrics) :
            /\ m \in Range(metrics) /\ m.check # "invalid" /\ m.asset = job.todo[i].asset
            /\ i = 1 => job.pending <= m.ts

\* Each metric of the batch has been seen to or is in its queue; while nothing
\* has been accepted or skipped, those that have been seen to were rejected.
MetricsOK(metrics) ==
  \A m \in Range(metrics) :
    /\ InQueue(m) \/ m \in rejected \/ IsMarked(m)
    /\ job.res.accepted = 0 /\ job.res.duplicates = 0 => InQueue(m) \/ m \in rejected

\* Of an asset whose turn has not passed, the metrics that are not in its queue
\* are those up to the last one pushed.
TurnsOK(metrics) ==
  \A i \in DOMAIN job.todo : \A m \in Range(metrics) :
    m.asset = job.todo[i].asset /\ m.check # "invalid" =>
      m \in Range(job.todo[i].metrics) \/ (i = 1 /\ m.ts <= job.pending)

CountOK(metrics) ==
  /\ IsFiniteSet(Remaining(job.todo))
  /\ job.res.accepted + job.res.rejected + job.res.duplicates + Cardinality(Remaining(job.todo))
       = Len(metrics)

BatchOK ==
  /\ job \in JobType
  /\ job = Idle \/ \E b \in Batches :
       /\ job.batch = {b} /\ Requested(b)
       /\ QueuesOK(Content[b]) /\ MetricsOK(Content[b]) /\ TurnsOK(Content[b])
       /\ CountOK(Content[b])

-----------------------------------------------------------------------------
(* What a step does to the memory.                                         *)

Registers(x, c) ==
  /\ x \in Assets \ DOMAIN mem /\ c \in Classes
  /\ mem' = With(mem, x, NewAsset(c, <<>>, recipe[c]))
  /\ recipe' = recipe /\ accepted' = accepted /\ taken' = taken

Takes(x, m) ==
  /\ x \in DOMAIN mem /\ m \in Metric /\ ~ Seen(x, m)
  /\ mem' = [mem EXCEPT ![x] = Pushed(mem[x], m)]
  /\ Taken(x, m) /\ recipe' = recipe

Evaluates(x, r) ==
  /\ x \in DOMAIN mem /\ Due(x) /\ x \in Assets /\ Evaluate(x)
  /\ mem' = [mem EXCEPT ![x] = r]
  /\ Evaluation(mem[x], r, job.pending, recipe[mem[x].class])
  /\ recipe' = recipe /\ accepted' = accepted /\ taken' = taken

Retemplates(c, names) ==
  /\ c \in Classes /\ names \in Recipes /\ job = Idle
  /\ recipe' = [recipe EXCEPT ![c] = names]
  /\ mem' = [x \in DOMAIN mem |->
              IF mem[x].class = c THEN Rebuilt(mem[x], Kept(mem[x]), names) ELSE mem[x]]
  /\ StartAgain(c) /\ accepted' = accepted

Restarts ==
  /\ recipe' = stored
  /\ mem' = [x \in DOMAIN snaps |->
              NewAsset(snaps[x].class, snaps[x].base, stored[snaps[x].class])]
  /\ accepted' = NoSamples /\ taken' = NoSamples
  /\ job' = Idle /\ answers' = [b \in Batches |-> "none"] /\ faults' = faults + 1

Remembers == mem' = mem /\ recipe' = recipe /\ accepted' = accepted /\ taken' = taken

LEMMA HeadOfQueue ==
  ASSUME NEW x, job \in JobType, Working(x)
  PROVE  /\ x \in Assets /\ Len(job.todo) \in Nat \ {0} /\ 1 \in DOMAIN job.todo
         /\ Head(job.todo) = job.todo[1] /\ job.todo[1].asset = x
         /\ Queue = job.todo[1].metrics /\ Queue \in Seq(Metric)
         /\ Queue # <<>> => /\ Head(Queue) = Queue[1] /\ Head(Queue) \in Metric
                            /\ 1 \in DOMAIN Queue /\ Head(Queue) \in Range(Queue)
<1> DEFINE T == [asset : Assets, metrics : Seq(Metric)]
<1>1. job.todo \in Seq(T) /\ job.todo # <<>> /\ Head(job.todo).asset = x
  BY DEF JobType, Working
<1> HIDE DEF T
<1>2. Len(job.todo) \in Nat \ {0} /\ 1 \in DOMAIN job.todo
      /\ Head(job.todo) = job.todo[1] /\ job.todo[1] \in T
  BY <1>1
<1>3. job.todo[1].asset \in Assets /\ job.todo[1].metrics \in Seq(Metric)
  BY <1>2 DEF T
<1>4. Queue = job.todo[1].metrics
  BY <1>2 DEF Queue
<1>5. Queue # <<>> => /\ Head(Queue) = Queue[1] /\ Head(Queue) \in Metric
                      /\ 1 \in DOMAIN Queue
  BY <1>3, <1>4
<1> QED
  BY <1>1, <1>2, <1>3, <1>4, <1>5 DEF Range

LEMMA EvaluateEffects ==
  ASSUME StoreOK, MemoryOK, job \in JobType, NEW x \in Assets, Evaluate(x)
  PROVE  \E r : Evaluates(x, r)
<1> DEFINE names == recipe[mem[x].class]
<1>1. Due(x)
  BY DEF Evaluate, LearnUnsaved, NoChange, Withhold, Fire, FireUnsaved, HoldUnread, Clear,
     ClearUnsaved, Decided
<1>2. /\ x \in DOMAIN mem /\ Ready(x) /\ job.pending \in 0..Horizon /\ AssetOK(mem[x], names)
      /\ names \in Recipes
  <2>1. x \in DOMAIN mem /\ Ready(x)
    BY <1>1 DEF Due
  <2>2. job.pending \in 0..Horizon
    BY DEF JobType
  <2>3. AssetOK(mem[x], names)
    BY <2>1 DEF MemoryOK
  <2>4. names \in Recipes
    BY <2>3 DEF AssetOK, StoreOK
  <2> QED
    BY <2>1, <2>2, <2>3, <2>4
<1>3. CASE LearnUnsaved(x)
  <2>1. mem' = [mem EXCEPT ![x] = Noted(x)] /\ recipe' = recipe /\ accepted' = accepted
        /\ taken' = taken
    BY <1>3 DEF LearnUnsaved, templates, samples
  <2>2. Evaluation(mem[x], Noted(x), job.pending, names)
    BY <1>2, NotedIsEvaluation
  <2>3. Evaluates(x, Noted(x))
    BY <1>1, <1>2, <2>1, <2>2 DEF Evaluates
  <2> QED
    BY <2>3
<1>4. ASSUME NEW phase \in {"quiet", "alerted", "withheld"}, NEW open \in 0..Horizon,
             Decided(x, phase, open)
      PROVE  \E r : Evaluates(x, r)
  <2>1. mem' = [mem EXCEPT ![x] = DecidedAsset(x, phase, open)] /\ recipe' = recipe
        /\ accepted' = accepted /\ taken' = taken
    BY <1>4, Zenon DEF Decided, templates, samples, DecidedAsset
  <2>2. Evaluation(mem[x], DecidedAsset(x, phase, open), job.pending, names)
    BY <1>2, DecidedIsEvaluation
  <2>3. Evaluates(x, DecidedAsset(x, phase, open))
    BY <1>1, <1>2, <2>1, <2>2 DEF Evaluates
  <2> QED
    BY <2>3
<1>5. mem[x].phase \in {"quiet", "alerted", "withheld"} /\ mem[x].open \in 0..Horizon
      /\ NoAlert \in 0..Horizon
  BY <1>2, IngestAssumption DEF AssetOK, NoAlert
<1> QED
  BY <1>2, <1>3, <1>4, <1>5 DEF Evaluate, NoChange, Withhold, Fire, FireUnsaved, HoldUnread,
     Clear, ClearUnsaved

LEMMA Effects ==
  ASSUME StoreOK, MemoryOK, job \in JobType, [Next]_vars
  PROVE  \/ Remembers \/ Restarts
         \/ \E x, c : Registers(x, c)
         \/ \E x, m : Takes(x, m)
         \/ \E x, r : Evaluates(x, r)
         \/ \E c, names : Retemplates(c, names)
<1>1. CASE Turn
  <2>1. CASE Finish
    BY <2>1 DEF Finish, Remembers, templates, samples
  <2>2. ASSUME NEW x \in Assets,
               \/ Register(x) \/ Refuse(x) \/ Leave(x)
               \/ Accept(x) \/ Duplicate(x) \/ Reject(x)
               \/ Evaluate(x)
        PROVE  \/ Remembers
               \/ \E y, c : Registers(y, c)
               \/ \E y, m : Takes(y, m)
               \/ \E y, r : Evaluates(y, r)
    <3>1. CASE Register(x)
      <4>1. Registers(x, Head(Queue).class)
        BY <3>1 DEF Register, Registers, templates, history, samples
      <4> QED
        BY <4>1
    <3>2. CASE Refuse(x)
      BY <3>2 DEF Refuse, Remembers, templates, samples
    <3>3. CASE Leave(x)
      BY <3>3 DEF Leave, Remembers, templates, history, samples
    <3>4. CASE Accept(x)
      <4>1. Working(x) /\ Queue # <<>> /\ x \in DOMAIN mem /\ recipe' = recipe
            /\ ~ Seen(x, Head(Queue))
            /\ mem' = [mem EXCEPT ![x] = Pushed(mem[x], Head(Queue))] /\ Taken(x, Head(Queue))
        BY <3>4 DEF Accept, Pushing, templates
      <4>2. Head(Queue) \in Metric
        BY <4>1, HeadOfQueue
      <4>3. Takes(x, Head(Queue))
        BY <4>1, <4>2 DEF Takes
      <4> QED
        BY <4>3
    <3>5. CASE Duplicate(x)
      BY <3>5 DEF Duplicate, Pushing, Remembers, templates, samples
    <3>6. CASE Reject(x)
      BY <3>6 DEF Reject, Pushing, Remembers, templates, samples
    <3>7. CASE Evaluate(x)
      BY <3>7, EvaluateEffects
    <3> QED
      BY <2>2, <3>1, <3>2, <3>3, <3>4, <3>5, <3>6, <3>7
  <2> QED
    BY <1>1, <2>1, <2>2 DEF Turn
<1>2. ASSUME NEW b \in Batches, Begin(b)
      PROVE  Remembers
  BY <1>2 DEF Begin, Remembers, templates, samples
<1>3. ASSUME NEW c \in Classes, NEW names \in Recipes, PutTemplate(c, names)
      PROVE  Retemplates(c, names)
  BY <1>3 DEF PutTemplate, Retemplates
<1>4. ASSUME NEW c \in Classes, NEW names \in Recipes, PutTemplateUnsaved(c, names)
      PROVE  Remembers
  BY <1>4 DEF PutTemplateUnsaved, Remembers, history, samples
<1>5. ASSUME NEW x \in Assets, Feedback(x)
      PROVE  Remembers
  BY <1>5 DEF Feedback, Remembers, templates, history, samples
<1>6. CASE Crash
  BY <1>6 DEF Crash, Restarts, Fault
<1>7. CASE UNCHANGED vars
  BY <1>7 DEF vars, Remembers, templates, history, samples
<1> QED
  BY <1>1, <1>2, <1>3, <1>4, <1>5, <1>6, <1>7 DEF Next

\* What holds of the memory and of the samples together.
Memory == MemoryOK /\ HistoryOK /\ SamplesInOrder /\ WindowsHoldLatest

LEMMA NoSamplesType ==
  /\ NoSamples \in [Assets -> [Streams -> Seq(1..Horizon)]]
  /\ NoSamples \in [Assets -> [Streams -> Seq(Sample)]]
  /\ \A x \in Assets, s \in Streams : NoSamples[x][s] = <<>>
<1>1. <<>> \in Seq(1..Horizon) /\ <<>> \in Seq(Sample)
  BY EmptySequence
<1> QED
  BY <1>1 DEF NoSamples

LEMMA RegistersKeeps ==
  ASSUME StoreOK, Memory, NEW x, NEW c, Registers(x, c)
  PROVE  Memory'
<1> DEFINE new == NewAsset(c, <<>>, recipe[c])
<1>1. /\ x \in Assets /\ x \notin DOMAIN mem /\ c \in Classes
      /\ recipe' = recipe /\ accepted' = accepted /\ taken' = taken
      /\ mem' = [y \in DOMAIN mem \cup {x} |-> IF y = x THEN new ELSE mem[y]]
  BY DEF Registers, With
<1>2. /\ AssetOK(new, recipe[c]) /\ new.class = c /\ new.win = NewExtractor
      /\ new.marks = [s \in Streams |-> 0]
  BY <1>1, NewAssetOK, NewAssetFields
<1> HIDE DEF new
<1>3. /\ DOMAIN mem' = DOMAIN mem \cup {x} /\ mem'[x] = new
      /\ \A y \in DOMAIN mem : mem'[y] = mem[y]
  BY <1>1
<1>4. MemoryOK'
  <2>1. DOMAIN mem' \subseteq Assets /\ mem' = [y \in DOMAIN mem' |-> mem'[y]]
    BY <1>1, <1>3 DEF Memory, MemoryOK
  <2>2. \A y \in DOMAIN mem' : AssetOK(mem'[y], recipe'[mem'[y].class])
    BY <1>1, <1>2, <1>3 DEF Memory, MemoryOK
  <2> QED
    BY <2>1, <2>2 DEF MemoryOK, AssetOK, IsAsset
<1>5. HistoryOK'
  <2>1. /\ accepted \in [Assets -> [Streams -> Seq(1..Horizon)]]
        /\ taken \in [Assets -> [Streams -> Seq(Sample)]]
        /\ \A y \in Assets, s \in Streams :
             IF y \in DOMAIN mem
             THEN \A i \in DOMAIN accepted[y][s] : accepted[y][s][i] <= mem[y].marks[s]
             ELSE accepted[y][s] = <<>> /\ taken[y][s] = <<>>
    BY DEF Memory, HistoryOK
  <2>2. ASSUME NEW y \in Assets, NEW s \in Streams
        PROVE  IF y \in DOMAIN mem'
               THEN \A i \in DOMAIN accepted'[y][s] : accepted'[y][s][i] <= mem'[y].marks[s]
               ELSE accepted'[y][s] = <<>> /\ taken'[y][s] = <<>>
    <3>1. CASE y = x
      <4>1. accepted[y][s] = <<>>
        BY <1>1, <2>1, <3>1
      <4>2. DOMAIN accepted'[y][s] = {}
        BY <1>1, <4>1
      <4> QED
        BY <1>3, <3>1, <4>2
    <3>2. CASE y # x
      BY <1>1, <1>3, <2>1, <3>2
    <3> QED
      BY <3>1, <3>2
  <2> QED
    BY <1>1, <2>1, <2>2 DEF HistoryOK
<1>6. SamplesInOrder'
  BY <1>1 DEF Memory, SamplesInOrder
<1>7. WindowsHoldLatest'
  <2> SUFFICES ASSUME NEW y \in DOMAIN mem', NEW s \in Signals
               PROVE  Values(mem'[y].win[s]) = Latest(taken'[y][s], Specs[s].window)
    BY DEF WindowsHoldLatest
  <2>1. CASE y = x
    <3>1. taken[x][s] = <<>>
      BY <1>1 DEF Memory, HistoryOK, Streams
    <3>2. Values(NewExtractor[s]) = Latest(<<>>, Specs[s].window)
      BY NewExtractorWindows
    <3> QED
      BY <1>1, <1>2, <1>3, <2>1, <3>1, <3>2
  <2>2. CASE y # x
    BY <1>1, <1>3, <2>2 DEF Memory, WindowsHoldLatest
  <2> QED
    BY <2>1, <2>2
<1> QED
  BY <1>4, <1>5, <1>6, <1>7 DEF Memory

LEMMA ElementsType ==
  ASSUME NEW T, NEW q \in Seq(T), NEW i \in DOMAIN q
  PROVE  q[i] \in T
  OBVIOUS

LEMMA Replaced ==
  ASSUME NEW X, NEW S, NEW V, NEW f \in [X -> [S -> V]], NEW x \in X, NEW t \in S, NEW v \in V,
         NEW g, g = [f EXCEPT ![x] = [f[x] EXCEPT ![t] = v]]
  PROVE  /\ g \in [X -> [S -> V]] /\ g[x][t] = v
         /\ \A y \in X, s \in S : y # x \/ s # t => g[y][s] = f[y][s]
  OBVIOUS

\* An appended time that is later than all the others keeps them in order.
LEMMA AppendInOrder ==
  ASSUME NEW q \in Seq(1..Horizon), NEW mark \in 0..Horizon, NEW t \in 1..Horizon, mark < t,
         \A i, j \in DOMAIN q : i < j => q[i] < q[j],
         \A i \in DOMAIN q : q[i] <= mark,
         NEW r, r = Append(q, t)
  PROVE  /\ r \in Seq(1..Horizon)
         /\ \A i, j \in DOMAIN r : i < j => r[i] < r[j]
         /\ \A i \in DOMAIN r : r[i] <= t
<1>1. /\ r \in Seq(1..Horizon) /\ Len(q) \in Nat /\ DOMAIN q = 1..Len(q)
      /\ DOMAIN r = 1..Len(q) + 1 /\ r[Len(q) + 1] = t
      /\ \A i \in 1..Len(q) : r[i] = q[i]
  OBVIOUS
<1>2. \A i \in 1..Len(q) : r[i] < t /\ q[i] \in Nat
  <2> TAKE i \in 1..Len(q)
  <2>1. i \in DOMAIN q /\ q[i] <= mark
    BY <1>1
  <2>2. q[i] \in 1..Horizon
    BY <2>1, ElementsType, Zenon
  <2> QED
    BY <1>1, <2>1, <2>2, IngestAssumption
<1>3. \A i \in DOMAIN r : i \in 1..Len(q) \/ i = Len(q) + 1
  BY <1>1
<1>4. ASSUME NEW i \in DOMAIN r, NEW j \in DOMAIN r, i < j
      PROVE  r[i] < r[j]
  <2>1. i \in 1..Len(q)
    BY <1>1, <1>3, <1>4
  <2>2. CASE j = Len(q) + 1
    BY <1>1, <1>2, <2>1, <2>2
  <2>3. CASE j \in 1..Len(q)
    BY <1>1, <1>4, <2>1, <2>3
  <2> QED
    BY <1>3, <2>2, <2>3
<1>5. ASSUME NEW i \in DOMAIN r
      PROVE  r[i] <= t
  <2>1. t \in Nat
    BY IngestAssumption
  <2>2. CASE i \in 1..Len(q)
    <3>1. r[i] < t /\ r[i] = q[i] /\ q[i] \in Nat
      BY <1>1, <1>2, <2>2
    <3> QED
      BY <2>1, <3>1
  <2>3. CASE i = Len(q) + 1
    BY <1>1, <2>1, <2>3
  <2> QED
    BY <1>3, <2>2, <2>3
<1> QED
  BY <1>1, <1>4, <1>5

LEMMA TakesKeeps ==
  ASSUME StoreOK, Memory, NEW x, NEW m, Takes(x, m)
  PROVE  Memory'
<1> DEFINE a == mem[x]
           new == Pushed(a, m)
           t == m.signal
<1>1. /\ x \in DOMAIN mem /\ x \in Assets /\ m \in Metric /\ t \in Streams /\ m.ts \in 1..Horizon
      /\ recipe' = recipe /\ mem' = [mem EXCEPT ![x] = new]
      /\ accepted' = [accepted EXCEPT ![x] = [accepted[x] EXCEPT ![t] = Append(accepted[x][t], m.ts)]]
      /\ taken' = [taken EXCEPT ![x] = [taken[x] EXCEPT ![t] = taken[x][t] \o Burst(m)]]
  <2>1. x \in DOMAIN mem /\ m \in Metric /\ mem' = [mem EXCEPT ![x] = new] /\ recipe' = recipe
    BY DEF Takes
  <2>2. accepted' = [accepted EXCEPT ![x] = [accepted[x] EXCEPT ![t] = Append(accepted[x][t], m.ts)]]
        /\ taken' = [taken EXCEPT ![x] = [taken[x] EXCEPT ![t] = taken[x][t] \o Burst(m)]]
    BY DEF Takes, Taken
  <2>3. x \in Assets
    BY <2>1 DEF Memory, MemoryOK
  <2> QED
    BY <2>1, <2>2, <2>3 DEF Metric
<1>2. /\ AssetOK(a, recipe[a.class]) /\ IsAsset(a) /\ a.marks \in [Streams -> 0..Horizon]
      /\ \A s \in Streams : taken[x][s] \in Seq(Sample) /\ accepted[x][s] \in Seq(1..Horizon)
      /\ \A s \in Signals : Values(a.win[s]) = Latest(taken[x][s], Specs[s].window)
      /\ \A s \in Signals : s \in Streams
  <2>1. AssetOK(a, recipe[a.class])
    BY <1>1 DEF Memory, MemoryOK
  <2>2. IsAsset(a) /\ a.marks \in [Streams -> 0..Horizon]
    BY <2>1 DEF AssetOK
  <2>3. \A s \in Streams : taken[x][s] \in Seq(Sample) /\ accepted[x][s] \in Seq(1..Horizon)
    BY <1>1 DEF Memory, HistoryOK
  <2>4. \A s \in Signals : Values(a.win[s]) = Latest(taken[x][s], Specs[s].window)
    BY <1>1 DEF Memory, WindowsHoldLatest
  <2> QED
    BY <2>1, <2>2, <2>3, <2>4 DEF Streams
<1>3. AssetOK(new, recipe[a.class])
  <2> DEFINE before == taken[x]
  <2>1. \A s \in Signals : before[s] \in Seq(Sample)
    BY <1>2
  <2>2. \A s \in Signals : Values(a.win[s]) = Latest(before[s], Specs[s].window)
    BY <1>2
  <2> DEFINE names == recipe[a.class]
  <2>3. AssetOK(a, names) /\ m \in Metric
    BY <1>1, <1>2
  <2> HIDE DEF before, a, names
  <2>4. AssetOK(Pushed(a, m), names)
    BY <2>1, <2>2, <2>3, PushedOK
  <2> QED
    BY <2>4 DEF names
<1>4. /\ new.win = Extended(a.win, m) /\ new.class = a.class
      /\ new.marks = [a.marks EXCEPT ![t] = m.ts]
  <2>1. IsAsset(a)
    BY <1>2
  <2> HIDE DEF a
  <2> QED
    BY <2>1, PushedFields
<1>5. a.marks[t] \in 0..Horizon /\ a.marks[t] < m.ts
  <2>1. a.marks[t] \in 0..Horizon
    BY <1>1, <1>2
  <2>2. ~ (m.ts <= a.marks[t])
    BY DEF Takes, Seen
  <2> QED
    BY <1>1, <2>1, <2>2, IngestAssumption
<1> HIDE DEF new
<1>6. /\ DOMAIN mem' = DOMAIN mem /\ mem'[x] = new
      /\ \A y \in DOMAIN mem : y # x => mem'[y] = mem[y]
  BY <1>1
<1>7. MemoryOK'
  <2>1. DOMAIN mem' \subseteq Assets /\ mem' = [y \in DOMAIN mem' |-> mem'[y]]
    BY <1>1, <1>6 DEF Memory, MemoryOK
  <2>2. \A y \in DOMAIN mem' : AssetOK(mem'[y], recipe'[mem'[y].class])
    BY <1>1, <1>3, <1>4, <1>6 DEF Memory, MemoryOK
  <2> QED
    BY <2>1, <2>2 DEF MemoryOK, AssetOK, IsAsset
<1> DEFINE q == accepted[x][t]
           longer == Append(q, m.ts)
           given == taken[x][t]
           burst == Burst(m)
<1>8. /\ longer \in Seq(1..Horizon)
      /\ \A i, j \in DOMAIN longer : i < j => longer[i] < longer[j]
      /\ \A i \in DOMAIN longer : longer[i] <= m.ts
  <2>1. q \in Seq(1..Horizon)
    BY <1>1, <1>2
  <2>2. \A i, j \in DOMAIN q : i < j => q[i] < q[j]
    BY <1>1 DEF Memory, SamplesInOrder
  <2>3. \A i \in DOMAIN q : q[i] <= a.marks[t]
    BY <1>1 DEF Memory, HistoryOK
  <2> HIDE DEF q, a, t
  <2> QED
    BY <1>1, <1>5, <2>1, <2>2, <2>3, AppendInOrder
<1>9. given \o burst \in Seq(Sample)
  <2>1. given \in Seq(Sample) /\ burst \in Seq(Sample)
    BY <1>1, <1>2, BurstIsSamples
  <2> HIDE DEF given, burst
  <2> QED
    BY <2>1
<1>10. /\ accepted \in [Assets -> [Streams -> Seq(1..Horizon)]]
       /\ taken \in [Assets -> [Streams -> Seq(Sample)]]
       /\ \A y \in Assets, s \in Streams :
            IF y \in DOMAIN mem
            THEN \A i \in DOMAIN accepted[y][s] : accepted[y][s][i] <= mem[y].marks[s]
            ELSE accepted[y][s] = <<>> /\ taken[y][s] = <<>>
  BY DEF Memory, HistoryOK
<1> DEFINE more == given \o burst
<1>11. /\ accepted' = [accepted EXCEPT ![x] = [accepted[x] EXCEPT ![t] = longer]]
       /\ taken' = [taken EXCEPT ![x] = [taken[x] EXCEPT ![t] = more]]
  BY <1>1
<1> HIDE DEF longer, more, q, given, burst
<1>12. /\ accepted' \in [Assets -> [Streams -> Seq(1..Horizon)]]
       /\ taken' \in [Assets -> [Streams -> Seq(Sample)]]
       /\ accepted'[x][t] = longer /\ taken'[x][t] = more
       /\ \A y \in Assets, s \in Streams : y # x \/ s # t =>
            accepted'[y][s] = accepted[y][s] /\ taken'[y][s] = taken[y][s]
  <2>1. more \in Seq(Sample) /\ longer \in Seq(1..Horizon)
    BY <1>8, <1>9 DEF more
  <2> DEFINE A == Seq(1..Horizon)
             S == Seq(Sample)
  <2>2. more \in S /\ longer \in A /\ accepted \in [Assets -> [Streams -> A]]
        /\ taken \in [Assets -> [Streams -> S]]
    BY <1>10, <2>1
  <2> HIDE DEF A, S, t
  <2>3. /\ accepted' \in [Assets -> [Streams -> A]] /\ accepted'[x][t] = longer
        /\ \A y \in Assets, s \in Streams : y # x \/ s # t => accepted'[y][s] = accepted[y][s]
    <3>1. x \in Assets /\ t \in Streams /\ longer \in A /\ accepted \in [Assets -> [Streams -> A]]
      BY <1>1, <2>2
    <3>2. PICK g : g = accepted'
      OBVIOUS
    <3>3. g = [accepted EXCEPT ![x] = [accepted[x] EXCEPT ![t] = longer]]
      BY <1>11, <3>2
    <3>4. /\ g \in [Assets -> [Streams -> A]] /\ g[x][t] = longer
          /\ \A y \in Assets, s \in Streams : y # x \/ s # t => g[y][s] = accepted[y][s]
      BY <3>1, <3>3, Replaced
    <3> QED
      BY <3>2, <3>4
  <2>4. /\ taken' \in [Assets -> [Streams -> S]] /\ taken'[x][t] = more
        /\ \A y \in Assets, s \in Streams : y # x \/ s # t => taken'[y][s] = taken[y][s]
    <3>1. x \in Assets /\ t \in Streams /\ more \in S /\ taken \in [Assets -> [Streams -> S]]
      BY <1>1, <2>2
    <3>2. PICK g : g = taken'
      OBVIOUS
    <3>3. g = [taken EXCEPT ![x] = [taken[x] EXCEPT ![t] = more]]
      BY <1>11, <3>2
    <3>4. /\ g \in [Assets -> [Streams -> S]] /\ g[x][t] = more
          /\ \A y \in Assets, s \in Streams : y # x \/ s # t => g[y][s] = taken[y][s]
      BY <3>1, <3>3, Replaced
    <3> QED
      BY <3>2, <3>4
  <2> QED
    BY <2>3, <2>4 DEF A, S
<1>13. HistoryOK'
  <2>1. ASSUME NEW y \in Assets, NEW s \in Streams
        PROVE  IF y \in DOMAIN mem'
               THEN \A i \in DOMAIN accepted'[y][s] : accepted'[y][s][i] <= mem'[y].marks[s]
               ELSE accepted'[y][s] = <<>> /\ taken'[y][s] = <<>>
    <3>1. CASE y = x /\ s = t
      <4>1. mem'[y].marks[s] = m.ts
        BY <1>1, <1>2, <1>4, <1>6, <3>1
      <4> QED
        BY <1>1, <1>6, <1>8, <1>12, <3>1, <4>1
    <3>2. CASE y = x /\ s # t
      <4>1. mem'[y].marks[s] = a.marks[s]
        BY <1>2, <1>4, <1>6, <3>2
      <4> QED
        BY <1>1, <1>6, <1>10, <1>12, <3>2, <4>1
    <3>3. CASE y # x
      BY <1>6, <1>10, <1>12, <3>3
    <3> QED
      BY <3>1, <3>2, <3>3
  <2> QED
    BY <1>12, <2>1 DEF HistoryOK
<1>14. SamplesInOrder'
  <2> SUFFICES ASSUME NEW y \in Assets, NEW s \in Streams
               PROVE  \A i, j \in DOMAIN accepted'[y][s] :
                        i < j => accepted'[y][s][i] < accepted'[y][s][j]
    BY DEF SamplesInOrder
  <2>1. CASE y = x /\ s = t
    BY <1>8, <1>12, <2>1
  <2>2. CASE ~ (y = x /\ s = t)
    <3>1. accepted'[y][s] = accepted[y][s]
      BY <1>12, <2>2
    <3> QED
      BY <3>1 DEF Memory, SamplesInOrder
  <2> QED
    BY <2>1, <2>2
<1>15. WindowsHoldLatest'
  <2> SUFFICES ASSUME NEW y \in DOMAIN mem', NEW s \in Signals
               PROVE  Values(mem'[y].win[s]) = Latest(taken'[y][s], Specs[s].window)
    BY DEF WindowsHoldLatest
  <2>1. CASE y = x
    <3> DEFINE before == taken[x]
    <3>1. /\ \A r \in Signals : before[r] \in Seq(Sample)
          /\ \A r \in Signals : Values(a.win[r]) = Latest(before[r], Specs[r].window)
      BY <1>2
    <3>2. Values(Extended(a.win, m)[s])
            = Latest(IF s = m.signal THEN before[s] \o Burst(m) ELSE before[s], Specs[s].window)
      <4> HIDE DEF before, a
      <4> QED
        BY <1>1, <1>2, <3>1, PushedWindows
    <3>3. taken'[y][s] = IF s = m.signal THEN before[s] \o Burst(m) ELSE before[s]
      BY <1>1, <1>2, <1>12, <2>1 DEF more, given, burst
    <3> QED
      BY <1>4, <1>6, <2>1, <3>2, <3>3
  <2>2. CASE y # x
    <3>1. mem'[y] = mem[y] /\ taken'[y][s] = taken[y][s] /\ y \in DOMAIN mem
      BY <1>2, <1>6, <1>7, <1>12, <2>2 DEF MemoryOK
    <3> QED
      BY <3>1 DEF Memory, WindowsHoldLatest
  <2> QED
    BY <2>1, <2>2
<1> QED
  BY <1>7, <1>13, <1>14, <1>15 DEF Memory

LEMMA EvaluatesKeeps ==
  ASSUME StoreOK, Memory, NEW x, NEW r, Evaluates(x, r)
  PROVE  Memory'
<1>1. /\ x \in DOMAIN mem /\ mem' = [mem EXCEPT ![x] = r]
      /\ recipe' = recipe /\ accepted' = accepted /\ taken' = taken
      /\ Evaluation(mem[x], r, job.pending, recipe[mem[x].class])
  BY DEF Evaluates
<1>2. /\ AssetOK(r, recipe[mem[x].class]) /\ r.class = mem[x].class
      /\ r.win = mem[x].win /\ r.marks = mem[x].marks
  BY <1>1 DEF Evaluation
<1>3. /\ DOMAIN mem' = DOMAIN mem /\ mem'[x] = r
      /\ \A y \in DOMAIN mem : y # x => mem'[y] = mem[y]
  BY <1>1
<1>4. MemoryOK'
  <2>1. DOMAIN mem' \subseteq Assets /\ mem' = [y \in DOMAIN mem' |-> mem'[y]]
    BY <1>1, <1>3 DEF Memory, MemoryOK
  <2>2. \A y \in DOMAIN mem' : AssetOK(mem'[y], recipe'[mem'[y].class])
    BY <1>1, <1>2, <1>3 DEF Memory, MemoryOK
  <2> QED
    BY <2>1, <2>2 DEF MemoryOK, AssetOK, IsAsset
<1>5. HistoryOK'
  <2>1. \A y \in DOMAIN mem : mem'[y].marks = mem[y].marks
    BY <1>2, <1>3
  <2> QED
    BY <1>1, <1>3, <2>1 DEF Memory, HistoryOK
<1>6. SamplesInOrder'
  BY <1>1 DEF Memory, SamplesInOrder
<1>7. WindowsHoldLatest'
  <2>1. \A y \in DOMAIN mem : mem'[y].win = mem[y].win
    BY <1>2, <1>3
  <2> QED
    BY <1>1, <1>3, <2>1 DEF Memory, WindowsHoldLatest
<1> QED
  BY <1>4, <1>5, <1>6, <1>7 DEF Memory

LEMMA RetemplatesKeeps ==
  ASSUME StoreOK, Memory, NEW c, NEW names, Retemplates(c, names)
  PROVE  Memory'
<1>1. /\ c \in Classes /\ names \in Recipes /\ recipe' = [recipe EXCEPT ![c] = names]
      /\ mem' = [x \in DOMAIN mem |->
                  IF mem[x].class = c THEN Rebuilt(mem[x], Kept(mem[x]), names) ELSE mem[x]]
      /\ taken' = [x \in Assets |-> IF x \in DOMAIN mem /\ mem[x].class = c
                                    THEN [s \in Streams |-> <<>>] ELSE taken[x]]
      /\ accepted' = accepted
  BY DEF Retemplates, StartAgain
<1>2. /\ DOMAIN mem' = DOMAIN mem /\ mem' = [x \in DOMAIN mem' |-> mem'[x]]
      /\ DOMAIN mem \subseteq Assets
      /\ \A x \in DOMAIN mem :
           AssetOK(mem[x], recipe[mem[x].class]) /\ IsAsset(mem[x]) /\ mem[x].class \in Classes
  BY <1>1 DEF Memory, MemoryOK, AssetOK
<1>3. ASSUME NEW x \in DOMAIN mem, mem[x].class = c
      PROVE  /\ AssetOK(mem'[x], names) /\ mem'[x].class = c
             /\ mem'[x].win = NewExtractor /\ mem'[x].marks = mem[x].marks
  <2>1. mem'[x] = Rebuilt(mem[x], Kept(mem[x]), names)
    BY <1>1, <1>3
  <2>2. AssetOK(Rebuilt(mem[x], Kept(mem[x]), names), names)
    BY <1>2, RebuiltOK
  <2>3. IsAsset(mem[x])
    BY <1>2
  <2>4. /\ Rebuilt(mem[x], Kept(mem[x]), names).class = mem[x].class
        /\ Rebuilt(mem[x], Kept(mem[x]), names).win = NewExtractor
        /\ Rebuilt(mem[x], Kept(mem[x]), names).marks = mem[x].marks
    BY <2>3, RebuiltFields
  <2> QED
    BY <1>3, <2>1, <2>2, <2>4
<1>4. ASSUME NEW x \in DOMAIN mem, mem[x].class # c
      PROVE  mem'[x] = mem[x]
  BY <1>1, <1>4
<1>5. /\ recipe \in [Classes -> Recipes] /\ recipe'[c] = names
      /\ \A d \in Classes : d # c => recipe'[d] = recipe[d]
  BY <1>1 DEF StoreOK
<1>6. \A x \in DOMAIN mem : AssetOK(mem'[x], recipe'[mem'[x].class])
                            /\ mem'[x].marks = mem[x].marks
  <2> TAKE x \in DOMAIN mem
  <2>1. CASE mem[x].class = c
    <3>1. AssetOK(mem'[x], names) /\ mem'[x].class = c /\ mem'[x].marks = mem[x].marks
      BY <1>3, <2>1
    <3> QED
      BY <1>5, <3>1
  <2>2. CASE mem[x].class # c
    <3>1. mem'[x] = mem[x] /\ mem[x].class \in Classes
      BY <1>2, <1>4, <2>2
    <3>2. recipe'[mem'[x].class] = recipe[mem[x].class]
      BY <1>5, <2>2, <3>1
    <3> QED
      BY <1>2, <3>1, <3>2
  <2> QED
    BY <2>1, <2>2
<1>7. MemoryOK'
  BY <1>2, <1>6 DEF MemoryOK, AssetOK, IsAsset
<1>8. \A x \in Assets, s \in Streams :
        taken'[x][s] = IF x \in DOMAIN mem /\ mem[x].class = c THEN <<>> ELSE taken[x][s]
  BY <1>1
<1>9. HistoryOK'
  <2>1. taken' \in [Assets -> [Streams -> Seq(Sample)]]
    <3> DEFINE S == Seq(Sample)
    <3>1. <<>> \in S /\ taken \in [Assets -> [Streams -> S]]
      BY EmptySequence DEF Memory, HistoryOK
    <3> HIDE DEF S
    <3>2. taken' \in [Assets -> [Streams -> S]]
      BY <1>1, <3>1
    <3> QED
      BY <3>2 DEF S
  <2>2. /\ accepted \in [Assets -> [Streams -> Seq(1..Horizon)]]
        /\ \A x \in Assets, s \in Streams :
             IF x \in DOMAIN mem
             THEN \A i \in DOMAIN accepted[x][s] : accepted[x][s][i] <= mem[x].marks[s]
             ELSE accepted[x][s] = <<>> /\ taken[x][s] = <<>>
    BY DEF Memory, HistoryOK
  <2>3. \A x \in Assets, s \in Streams :
          IF x \in DOMAIN mem'
          THEN \A i \in DOMAIN accepted'[x][s] : accepted'[x][s][i] <= mem'[x].marks[s]
          ELSE accepted'[x][s] = <<>> /\ taken'[x][s] = <<>>
    BY <1>1, <1>2, <1>6, <1>8, <2>2
  <2> QED
    BY <1>1, <2>1, <2>2, <2>3 DEF HistoryOK
<1>10. SamplesInOrder'
  BY <1>1 DEF Memory, SamplesInOrder
<1>11. WindowsHoldLatest'
  <2> SUFFICES ASSUME NEW x \in DOMAIN mem, NEW s \in Signals
               PROVE  Values(mem'[x].win[s]) = Latest(taken'[x][s], Specs[s].window)
    BY <1>2 DEF WindowsHoldLatest
  <2>1. x \in Assets /\ s \in Streams
    BY <1>2 DEF Streams
  <2>2. CASE mem[x].class = c
    <3>1. taken'[x][s] = <<>> /\ mem'[x].win = NewExtractor
      BY <1>3, <1>8, <2>1, <2>2
    <3>2. Values(NewExtractor[s]) = Latest(<<>>, Specs[s].window)
      BY NewExtractorWindows
    <3> QED
      BY <3>1, <3>2
  <2>3. CASE mem[x].class # c
    <3>1. taken'[x][s] = taken[x][s] /\ mem'[x] = mem[x]
      BY <1>4, <1>8, <2>1, <2>3
    <3> QED
      BY <3>1 DEF Memory, WindowsHoldLatest
  <2> QED
    BY <2>2, <2>3
<1> QED
  BY <1>7, <1>9, <1>10, <1>11 DEF Memory

LEMMA RestartsKeeps ==
  ASSUME StoreOK, Memory, Restarts
  PROVE  Memory'
<1>1. /\ recipe' = stored /\ accepted' = NoSamples /\ taken' = NoSamples
      /\ mem' = [x \in DOMAIN snaps |->
                  NewAsset(snaps[x].class, snaps[x].base, stored[snaps[x].class])]
  BY DEF Restarts
<1>2. DOMAIN mem' = DOMAIN snaps /\ DOMAIN snaps \subseteq Assets
      /\ mem' = [x \in DOMAIN mem' |-> mem'[x]]
  BY <1>1 DEF StoreOK
<1>3. ASSUME NEW x \in DOMAIN snaps
      PROVE  /\ AssetOK(mem'[x], recipe'[mem'[x].class])
             /\ mem'[x].win = NewExtractor
  <2> DEFINE class == snaps[x].class
             learned == snaps[x].base
             names == stored[class]
  <2>1. class \in Classes /\ mem'[x] = NewAsset(class, learned, names)
    BY <1>1 DEF StoreOK
  <2> HIDE DEF class, learned
  <2>2. AssetOK(NewAsset(class, learned, names), names)
    BY <2>1, NewAssetOK
  <2>3. NewAsset(class, learned, names).class = class
        /\ NewAsset(class, learned, names).win = NewExtractor
    BY NewAssetFields
  <2> QED
    BY <1>1, <2>1, <2>2, <2>3
<1>4. MemoryOK'
  BY <1>2, <1>3 DEF MemoryOK, AssetOK, IsAsset
<1>5. \A x \in Assets, s \in Streams : accepted'[x][s] = <<>> /\ taken'[x][s] = <<>>
                                       /\ DOMAIN accepted'[x][s] = {}
  <2>1. DOMAIN <<>> = {}
    OBVIOUS
  <2> QED
    BY <1>1, <2>1, NoSamplesType
<1>6. HistoryOK'
  <2>1. accepted' \in [Assets -> [Streams -> Seq(1..Horizon)]]
        /\ taken' \in [Assets -> [Streams -> Seq(Sample)]]
    BY <1>1, NoSamplesType
  <2> QED
    BY <1>5, <2>1 DEF HistoryOK
<1>7. SamplesInOrder'
  BY <1>5 DEF SamplesInOrder
<1>8. WindowsHoldLatest'
  <2> SUFFICES ASSUME NEW x \in DOMAIN snaps, NEW s \in Signals
               PROVE  Values(mem'[x].win[s]) = Latest(taken'[x][s], Specs[s].window)
    BY <1>2 DEF WindowsHoldLatest
  <2>1. taken'[x][s] = <<>>
    BY <1>2, <1>5 DEF Streams
  <2>2. Values(NewExtractor[s]) = Latest(<<>>, Specs[s].window)
    BY NewExtractorWindows
  <2> QED
    BY <1>3, <2>1, <2>2
<1> QED
  BY <1>4, <1>6, <1>7, <1>8 DEF Memory

LEMMA NextMemory ==
  ASSUME StoreOK, Memory, job \in JobType, [Next]_vars
  PROVE  Memory'
<1>1. \/ Remembers \/ Restarts
      \/ \E x, c : Registers(x, c)
      \/ \E x, m : Takes(x, m)
      \/ \E x, r : Evaluates(x, r)
      \/ \E c, names : Retemplates(c, names)
  BY Effects DEF Memory
<1>2. CASE Remembers
  <2>1. mem' = mem /\ recipe' = recipe /\ accepted' = accepted /\ taken' = taken
    BY <1>2 DEF Remembers
  <2>2. MemoryOK'
    BY <2>1 DEF Memory, MemoryOK
  <2>3. HistoryOK'
    BY <2>1 DEF Memory, HistoryOK
  <2>4. SamplesInOrder' /\ WindowsHoldLatest'
    BY <2>1 DEF Memory, SamplesInOrder, WindowsHoldLatest
  <2> QED
    BY <2>2, <2>3, <2>4 DEF Memory
<1> QED
  BY <1>1, <1>2, RegistersKeeps, TakesKeeps, EvaluatesKeeps, RetemplatesKeeps, RestartsKeeps

-----------------------------------------------------------------------------
(* What a step does to the store, the answers and the batch.               *)

SnapsOK(s) ==
  /\ DOMAIN s \subseteq Assets
  /\ \A x \in DOMAIN s : s[x].class \in Classes /\ DOMAIN s[x].base \subseteq Features

LEMMA SavingKeeps ==
  ASSUME SnapsOK(snaps), NEW x \in Assets, NEW a, a.class \in Classes,
         DOMAIN a.base \subseteq Features
  PROVE  SnapsOK(With(snaps, x, Snapshot(a)))
<1> DEFINE new == Snapshot(a)
           s == With(snaps, x, new)
<1>1. new.class \in Classes /\ DOMAIN new.base \subseteq Features
  <2>1. new.class = a.class /\ new.base = Kept(a)
    BY DEF Snapshot
  <2>2. DOMAIN <<>> = {}
    OBVIOUS
  <2> QED
    BY <2>1, <2>2 DEF Kept
<1> HIDE DEF new
<1>2. DOMAIN s = DOMAIN snaps \cup {x} /\ s[x] = new
      /\ \A y \in DOMAIN snaps : y # x => s[y] = snaps[y]
  BY DEF With
<1> HIDE DEF s
<1>3. SnapsOK(s)
  BY <1>1, <1>2 DEF SnapsOK
<1> QED
  BY <1>3 DEF s, new

LEMMA AssetCanBeSaved ==
  ASSUME NEW a, NEW names \in Recipes, AssetOK(a, names)
  PROVE  a.class \in Classes /\ DOMAIN a.base \subseteq Features
  BY IngestAssumption DEF AssetOK, ValidTemplate

AlertsOK(s) == s \subseteq Assets \X (1..Horizon) \X BOOLEAN

AnswersOK(s) == s \in [Batches -> {"none", "ok", "refused", "error"}]

LEMMA AnswerKeeps ==
  ASSUME AnswersOK(answers), NEW answer \in {"ok", "refused", "error"}, Answer(answer)
  PROVE  AnswersOK(answers') /\ job' = Idle
  BY DEF AnswersOK, Answer

\* What an evaluation saves: a snapshot of an asset, an alert.
LEMMA EvaluateStore ==
  ASSUME StoreOK, MemoryOK, job \in JobType, NEW x \in Assets, Evaluate(x)
  PROVE  /\ SnapsOK(snaps') /\ AlertsOK(alerts')
         /\ recipe' = recipe /\ stored' = stored /\ rejected' = rejected /\ updates' = updates
         /\ faults' \in 0..MaxFaults
         /\ \/ job' = job /\ answers' = answers
            \/ Answer("error")
<1> DEFINE names == recipe[mem[x].class]
<1>1. Due(x)
  BY DEF Evaluate, LearnUnsaved, NoChange, Withhold, Fire, FireUnsaved, HoldUnread, Clear,
     ClearUnsaved, Decided
<1>2. /\ x \in DOMAIN mem /\ Ready(x) /\ job.pending \in 1..Horizon /\ AssetOK(mem[x], names)
      /\ names \in Recipes
  <2>1. x \in DOMAIN mem /\ Ready(x) /\ job.pending > 0
    BY <1>1 DEF Due
  <2>2. job.pending \in 0..Horizon
    BY DEF JobType
  <2>3. AssetOK(mem[x], names)
    BY <2>1 DEF MemoryOK
  <2>4. names \in Recipes
    BY <2>3 DEF AssetOK, StoreOK
  <2>5. job.pending \in 1..Horizon
    BY <2>1, <2>2, IngestAssumption
  <2> QED
    BY <2>1, <2>3, <2>4, <2>5
<1>3. AssetOK(Noted(x), names)
  <2>1. job.pending \in 0..Horizon
    BY DEF JobType
  <2>2. Evaluation(mem[x], Noted(x), job.pending, names)
    BY <1>2, <2>1, NotedIsEvaluation
  <2> QED
    BY <2>2 DEF Evaluation
<1>4. SnapsOK(snaps)
  BY DEF StoreOK, SnapsOK
<1>5. SnapsOK(With(snaps, x, Snapshot(Noted(x))))
  <2>1. Noted(x).class \in Classes /\ DOMAIN Noted(x).base \subseteq Features
    BY <1>2, <1>3, AssetCanBeSaved
  <2> QED
    BY <1>4, <2>1, SavingKeeps
<1>6. SnapsOK(snaps')
  BY <1>4, <1>5 DEF Evaluate, LearnUnsaved, NoChange, Withhold, Fire, FireUnsaved, HoldUnread,
     Clear, ClearUnsaved, Decided, SavesLearned
<1>7. AlertsOK(alerts)
  BY DEF StoreOK, AlertsOK
<1>8. AlertsOK(alerts \cup {<<x, job.pending, FALSE>>})
  <2>1. <<x, job.pending, FALSE>> \in Assets \X (1..Horizon) \X BOOLEAN
    BY <1>2
  <2> QED
    BY <1>7, <2>1 DEF AlertsOK
<1>9. AlertsOK(Cleared(x))
  <2>1. ASSUME NEW e \in alerts
        PROVE  (IF e = <<x, mem[x].open, FALSE>> THEN <<x, mem[x].open, TRUE>> ELSE e)
                 \in Assets \X (1..Horizon) \X BOOLEAN
    <3>1. e \in Assets \X (1..Horizon) \X BOOLEAN
      BY <1>7 DEF AlertsOK
    <3>2. CASE e = <<x, mem[x].open, FALSE>>
      <4>1. mem[x].open \in 1..Horizon
        BY <3>1, <3>2
      <4> QED
        BY <3>2, <4>1
    <3>3. CASE e # <<x, mem[x].open, FALSE>>
      BY <3>1, <3>3
    <3> QED
      BY <3>2, <3>3
  <2> QED
    BY <2>1 DEF AlertsOK, Cleared
<1>10. AlertsOK(alerts')
  BY <1>7, <1>8, <1>9 DEF Evaluate, LearnUnsaved, NoChange, Withhold, Fire, FireUnsaved,
     HoldUnread, Clear, ClearUnsaved
<1>11. recipe' = recipe /\ stored' = stored /\ rejected' = rejected /\ updates' = updates
  BY DEF Evaluate, LearnUnsaved, NoChange, Withhold, Fire, FireUnsaved, HoldUnread, Clear,
     ClearUnsaved, Decided, templates
<1>12. \/ job' = job /\ answers' = answers /\ faults' = faults
       \/ Answer("error") /\ Fault
  BY DEF Evaluate, LearnUnsaved, NoChange, Withhold, Fire, FireUnsaved, HoldUnread, Clear,
     ClearUnsaved, GoesOn, Fails
<1>13. faults' \in 0..MaxFaults
  <2>1. faults \in 0..MaxFaults
    BY DEF StoreOK
  <2> QED
    BY <1>12, <2>1, IngestAssumption DEF Fault
<1> QED
  BY <1>6, <1>10, <1>11, <1>12, <1>13

LEMMA BeginStore ==
  ASSUME StoreOK, NEW b \in Batches, Begin(b)
  PROVE  rejected' \subseteq Metric
<1>1. Content[b] \in Seq(Metric)
  BY IngestAssumption
<1>2. Range(Content[b]) \subseteq Metric
  BY <1>1 DEF Range
<1> QED
  BY <1>2 DEF Begin, StoreOK

LEMMA TurnStore ==
  ASSUME StoreOK, MemoryOK, job \in JobType, Turn
  PROVE  StoreOK'
<1>1. CASE Finish
  <2>1. Answer(Status(job.res)) /\ Status(job.res) \in {"ok", "refused", "error"}
    BY <1>1 DEF Finish, Status
  <2>2. AnswersOK(answers')
    BY <2>1, AnswerKeeps DEF StoreOK, AnswersOK
  <2>3. /\ recipe' = recipe /\ stored' = stored /\ snaps' = snaps /\ alerts' = alerts
        /\ rejected' = rejected /\ updates' = updates /\ faults' = faults
    BY <1>1 DEF Finish, templates
  <2> QED
    BY <2>2, <2>3 DEF StoreOK, AnswersOK
<1>2. ASSUME NEW x \in Assets,
             \/ Register(x) \/ Refuse(x) \/ Leave(x)
             \/ Accept(x) \/ Duplicate(x) \/ Reject(x)
      PROVE  StoreOK'
  <2>1. /\ recipe' = recipe /\ stored' = stored /\ snaps' = snaps /\ alerts' = alerts
        /\ answers' = answers /\ updates' = updates /\ faults' = faults
    BY <1>2 DEF Register, Refuse, Leave, Accept, Duplicate, Reject, Pushing, templates, history
  <2>2. \/ rejected' = rejected
        \/ Working(x) /\ rejected' = rejected \cup Range(Queue)
        \/ Working(x) /\ Queue # <<>> /\ rejected' = rejected \cup {Head(Queue)}
    BY <1>2 DEF Register, Refuse, Leave, Accept, Duplicate, Reject, Pushing, history
  <2>3. rejected' \subseteq Metric
    <3>1. rejected \subseteq Metric
      BY DEF StoreOK
    <3>2. Working(x) => Range(Queue) \subseteq Metric
      <4>1. Working(x) => Queue \in Seq(Metric)
        BY HeadOfQueue
      <4> QED
        BY <4>1 DEF Range
    <3>3. Working(x) /\ Queue # <<>> => Head(Queue) \in Metric
      BY HeadOfQueue
    <3> QED
      BY <2>2, <3>1, <3>2, <3>3
  <2> QED
    BY <2>1, <2>3 DEF StoreOK
<1>3. ASSUME NEW x \in Assets, Evaluate(x)
      PROVE  StoreOK'
  <2>1. /\ SnapsOK(snaps') /\ AlertsOK(alerts')
        /\ recipe' = recipe /\ stored' = stored /\ rejected' = rejected /\ updates' = updates
        /\ faults' \in 0..MaxFaults
        /\ \/ job' = job /\ answers' = answers
           \/ Answer("error")
    BY <1>3, EvaluateStore
  <2>2. AnswersOK(answers')
    BY <2>1, AnswerKeeps DEF StoreOK, AnswersOK
  <2> QED
    BY <2>1, <2>2 DEF StoreOK, AnswersOK, SnapsOK, AlertsOK
<1> QED
  BY <1>1, <1>2, <1>3 DEF Turn

LEMMA NextStore ==
  ASSUME StoreOK, MemoryOK, job \in JobType, [Next]_vars
  PROVE  StoreOK'
<1>1. ASSUME NEW b \in Batches, Begin(b)
      PROVE  StoreOK'
  BY <1>1, BeginStore DEF Begin, StoreOK, templates
<1>2. ASSUME NEW c \in Classes, NEW names \in Recipes, PutTemplate(c, names)
      PROVE  StoreOK'
  <2>1. recipe' \in [Classes -> Recipes] /\ stored' \in [Classes -> Recipes]
    BY <1>2 DEF PutTemplate, StoreOK
  <2>2. updates' \in [Classes -> 0..MaxUpdates]
    <3>1. updates \in [Classes -> 0..MaxUpdates] /\ updates[c] < MaxUpdates
          /\ updates' = [updates EXCEPT ![c] = updates[c] + 1]
      BY <1>2 DEF PutTemplate, StoreOK
    <3>2. updates[c] + 1 \in 0..MaxUpdates
      BY <3>1, IngestAssumption
    <3> QED
      BY <3>1, <3>2
  <2>3. /\ snaps' = snaps /\ alerts' = alerts /\ answers' = answers /\ rejected' = rejected
        /\ faults' = faults
    BY <1>2 DEF PutTemplate
  <2> QED
    BY <2>1, <2>2, <2>3 DEF StoreOK
<1>3. ASSUME NEW c \in Classes, NEW names \in Recipes, PutTemplateUnsaved(c, names)
      PROVE  StoreOK'
  <2>1. recipe' \in [Classes -> Recipes] /\ stored' \in [Classes -> Recipes]
    BY <1>3 DEF PutTemplateUnsaved, StoreOK
  <2>2. faults' \in 0..MaxFaults
    BY <1>3, IngestAssumption DEF PutTemplateUnsaved, Fault, StoreOK
  <2>3. /\ snaps' = snaps /\ alerts' = alerts /\ answers' = answers /\ rejected' = rejected
        /\ updates' = updates
    BY <1>3 DEF PutTemplateUnsaved, history
  <2> QED
    BY <2>1, <2>2, <2>3 DEF StoreOK
<1>4. ASSUME NEW x \in Assets, Feedback(x)
      PROVE  StoreOK'
  <2>1. x \in DOMAIN mem /\ snaps' = With(snaps, x, Snapshot(mem[x]))
    BY <1>4 DEF Feedback
  <2>2. AssetOK(mem[x], recipe[mem[x].class]) /\ recipe[mem[x].class] \in Recipes
    BY <2>1 DEF MemoryOK, AssetOK, StoreOK
  <2>3. mem[x].class \in Classes /\ DOMAIN mem[x].base \subseteq Features
    BY <2>2, AssetCanBeSaved
  <2>4. SnapsOK(snaps')
    BY <2>1, <2>3, SavingKeeps DEF StoreOK, SnapsOK
  <2>5. /\ recipe' = recipe /\ stored' = stored /\ alerts' = alerts /\ answers' = answers
        /\ rejected' = rejected /\ updates' = updates /\ faults' = faults
    BY <1>4 DEF Feedback, templates, history
  <2> QED
    BY <2>4, <2>5 DEF StoreOK, SnapsOK
<1>5. CASE Crash
  <2>1. /\ recipe' = stored /\ stored' = stored /\ snaps' = snaps /\ alerts' = alerts
        /\ answers' = [b \in Batches |-> "none"] /\ rejected' = {} /\ updates' = updates
    BY <1>5 DEF Crash
  <2>2. faults' \in 0..MaxFaults
    BY <1>5, IngestAssumption DEF Crash, Fault, StoreOK
  <2> QED
    BY <2>1, <2>2 DEF StoreOK
<1>6. CASE UNCHANGED vars
  <2>1. /\ recipe' = recipe /\ stored' = stored /\ snaps' = snaps /\ alerts' = alerts
        /\ answers' = answers /\ rejected' = rejected /\ updates' = updates /\ faults' = faults
    BY <1>6 DEF vars, templates, history
  <2> QED
    BY <2>1 DEF StoreOK
<1> QED
  BY <1>1, <1>2, <1>3, <1>4, <1>5, <1>6, TurnStore DEF Next

-----------------------------------------------------------------------------
(* The batch in progress: what its turns do to the places of its queues.   *)

Todo == Seq([asset : Assets, metrics : Seq(Metric)])

LEMMA TailOfQueue ==
  ASSUME NEW T, NEW q \in Seq(T), q # <<>>
  PROVE  /\ Tail(q) \in Seq(T) /\ Len(q) \in Nat \ {0}
         /\ DOMAIN q = 1..Len(q) /\ DOMAIN Tail(q) = 1..Len(q) - 1
         /\ Head(q) = q[1] /\ \A k \in 1..Len(q) - 1 : Tail(q)[k] = q[k + 1]
         /\ \A k \in 1..Len(q) : q[k] \in T
         /\ Range(q) = Range(Tail(q)) \cup {Head(q)}
<1>1. /\ Tail(q) \in Seq(T) /\ Len(q) \in Nat \ {0}
      /\ DOMAIN q = 1..Len(q) /\ DOMAIN Tail(q) = 1..Len(q) - 1
      /\ Head(q) = q[1] /\ \A k \in 1..Len(q) - 1 : Tail(q)[k] = q[k + 1]
      /\ \A k \in 1..Len(q) : q[k] \in T
  OBVIOUS
<1>2. ASSUME NEW v \in Range(q)
      PROVE  v \in Range(Tail(q)) \cup {Head(q)}
  <2>1. PICK k \in 1..Len(q) : v = q[k]
    BY <1>1 DEF Range
  <2>2. CASE k = 1
    BY <1>1, <2>1, <2>2
  <2>3. CASE k # 1
    <3>1. k - 1 \in 1..Len(q) - 1 /\ (k - 1) + 1 = k
      BY <1>1, <2>3
    <3>2. Tail(q)[k - 1] = v
      BY <1>1, <2>1, <3>1
    <3> QED
      BY <1>1, <3>1, <3>2 DEF Range
  <2> QED
    BY <2>2, <2>3
<1>3. ASSUME NEW v \in Range(Tail(q)) \cup {Head(q)}
      PROVE  v \in Range(q)
  <2>1. CASE v = Head(q)
    <3>1. 1 \in DOMAIN q
      BY <1>1
    <3> QED
      BY <1>1, <2>1, <3>1 DEF Range
  <2>2. CASE v \in Range(Tail(q))
    <3>1. PICK k \in 1..Len(q) - 1 : v = Tail(q)[k]
      BY <1>1, <2>2 DEF Range
    <3>2. v = q[k + 1] /\ k + 1 \in DOMAIN q
      BY <1>1, <3>1
    <3> QED
      BY <3>2 DEF Range
  <2> QED
    BY <1>3, <2>1, <2>2
<1> QED
  BY <1>1, <1>2, <1>3

\* The queue without its first metric has one place less: the last.
LEMMA PlacesOfTail ==
  ASSUME NEW todo \in Todo, NEW next \in Todo, DOMAIN next = DOMAIN todo, 1 \in DOMAIN todo,
         NEW n \in Nat \ {0}, DOMAIN todo[1].metrics = 1..n, DOMAIN next[1].metrics = 1..n - 1,
         \A i \in DOMAIN todo : i # 1 => next[i] = todo[i],
         IsFiniteSet(Remaining(todo))
  PROVE  /\ IsFiniteSet(Remaining(next))
         /\ Cardinality(Remaining(todo)) = Cardinality(Remaining(next)) + 1
<1>1. ASSUME NEW p \in Remaining(next)
      PROVE  p \in Remaining(todo) \ {<<1, n>>}
  <2>1. PICK i \in DOMAIN todo : p \in {i} \X DOMAIN next[i].metrics
    BY DEF Remaining
  <2>2. CASE i = 1
    <3>1. PICK k \in 1..n - 1 : p = <<1, k>>
      BY <2>1, <2>2
    <3>2. k \in 1..n /\ k # n
      BY <3>1
    <3>3. p \in {1} \X DOMAIN todo[1].metrics
      BY <3>1, <3>2
    <3>4. p # <<1, n>>
      BY <3>1, <3>2
    <3>5. p \in Remaining(todo)
      BY <3>3 DEF Remaining
    <3> QED
      BY <3>4, <3>5
  <2>3. CASE i # 1
    <3>1. p \in {i} \X DOMAIN todo[i].metrics
      BY <2>1, <2>3
    <3>2. p # <<1, n>>
      BY <2>1, <2>3
    <3> QED
      BY <3>1, <3>2 DEF Remaining
  <2> QED
    BY <2>2, <2>3
<1>2. ASSUME NEW p \in Remaining(todo) \ {<<1, n>>}
      PROVE  p \in Remaining(next)
  <2>1. PICK i \in DOMAIN todo : p \in {i} \X DOMAIN todo[i].metrics
    BY DEF Remaining
  <2>2. CASE i = 1
    <3>1. PICK k \in 1..n : p = <<1, k>>
      BY <2>1, <2>2
    <3>2. k \in 1..n - 1
      BY <1>2, <3>1
    <3>3. p \in {1} \X DOMAIN next[1].metrics
      BY <3>1, <3>2
    <3> QED
      BY <3>3 DEF Remaining
  <2>3. CASE i # 1
    <3>1. p \in {i} \X DOMAIN next[i].metrics
      BY <2>1, <2>3
    <3> QED
      BY <3>1 DEF Remaining
  <2> QED
    BY <2>2, <2>3
<1>3. Remaining(next) = Remaining(todo) \ {<<1, n>>}
  BY <1>1, <1>2
<1>4. <<1, n>> \in Remaining(todo)
  <2>1. <<1, n>> \in {1} \X DOMAIN todo[1].metrics
    OBVIOUS
  <2> QED
    BY <2>1 DEF Remaining
<1>5. /\ IsFiniteSet(Remaining(next))
      /\ Cardinality(Remaining(next)) = Cardinality(Remaining(todo)) - 1
  <2>1. /\ IsFiniteSet(Remaining(todo) \ {<<1, n>>})
        /\ Cardinality(Remaining(todo) \ {<<1, n>>})
             = IF <<1, n>> \in Remaining(todo) THEN Cardinality(Remaining(todo)) - 1
                                              ELSE Cardinality(Remaining(todo))
    BY FS_RemoveElement, Zenon
  <2> QED
    BY <1>3, <1>4, <2>1, Zenon
<1>6. Cardinality(Remaining(todo)) \in Nat
  BY FS_CardinalityType, Zenon
<1> QED
  BY <1>5, <1>6

\* The queues without the first of them have its places less.
LEMMA PlacesOfRest ==
  ASSUME NEW todo \in Todo, todo # <<>>, NEW n \in Nat, DOMAIN todo[1].metrics = 1..n,
         IsFiniteSet(Remaining(todo))
  PROVE  /\ IsFiniteSet(Remaining(Tail(todo)))
         /\ Cardinality(Remaining(todo)) = Cardinality(Remaining(Tail(todo))) + n
<1> DEFINE rest == Tail(todo)
           first == {1} \X (1..n)
           places == Remaining(rest)
           others == Remaining(todo) \ first
           back == [p \in places |-> <<p[1] + 1, p[2]>>]
<1>1. /\ rest \in Todo /\ Len(todo) \in Nat \ {0}
      /\ DOMAIN todo = 1..Len(todo) /\ DOMAIN rest = 1..Len(todo) - 1
      /\ \A k \in 1..Len(todo) - 1 : rest[k] = todo[k + 1]
  BY TailOfQueue DEF Todo
<1> HIDE DEF rest
<1>2. ASSUME NEW p \in places
      PROVE  p[1] \in 1..Len(todo) - 1 /\ back[p] \in others /\ p = <<p[1], p[2]>>
  <2>1. PICK i \in DOMAIN rest : p \in {i} \X DOMAIN rest[i].metrics
    BY DEF Remaining
  <2>2. i \in 1..Len(todo) - 1 /\ i + 1 \in DOMAIN todo /\ i + 1 # 1
    BY <1>1
  <2>3. p[1] = i /\ p[2] \in DOMAIN todo[i + 1].metrics /\ p = <<p[1], p[2]>>
    BY <1>1, <2>1, <2>2
  <2>4. <<i + 1, p[2]>> \in Remaining(todo)
    BY <2>2, <2>3 DEF Remaining
  <2>5. <<i + 1, p[2]>> \notin first
    BY <2>2
  <2> QED
    BY <2>2, <2>3, <2>4, <2>5
<1>3. ASSUME NEW p \in places, NEW r \in places, back[p] = back[r]
      PROVE  p = r
  <2>1. <<p[1] + 1, p[2]>> = <<r[1] + 1, r[2]>>
    BY <1>3
  <2>2. p[1] + 1 = r[1] + 1 /\ p[2] = r[2]
    BY <2>1, Zenon
  <2>3. p[1] \in Nat /\ r[1] \in Nat
    <3>1. p[1] \in 1..Len(todo) - 1 /\ r[1] \in 1..Len(todo) - 1
      BY <1>2, Zenon
    <3> QED
      BY <1>1, <3>1
  <2>4. p[1] = r[1]
    BY <2>2, <2>3
  <2>5. p = <<p[1], p[2]>> /\ r = <<r[1], r[2]>>
    BY <1>2
  <2> QED
    BY <2>2, <2>4, <2>5, Zenon
<1>4. ASSUME NEW o \in others
      PROVE  \E p \in places : back[p] = o
  <2>1. PICK i \in DOMAIN todo : o \in {i} \X DOMAIN todo[i].metrics
    BY DEF Remaining
  <2>2. PICK k \in DOMAIN todo[i].metrics : o = <<i, k>>
    BY <2>1
  <2>3. i # 1
    BY <2>2
  <2>4. i - 1 \in DOMAIN rest /\ rest[i - 1] = todo[i] /\ (i - 1) + 1 = i
    <3>1. i - 1 \in 1..Len(todo) - 1 /\ (i - 1) + 1 = i
      BY <1>1, <2>3
    <3> QED
      BY <1>1, <3>1
  <2>5. <<i - 1, k>> \in places
    BY <2>2, <2>4 DEF Remaining
  <2>6. back[<<i - 1, k>>] = o
    BY <2>2, <2>4, <2>5
  <2> QED
    BY <2>5, <2>6
<1> HIDE DEF back
<1>5. DOMAIN back = places /\ back = [p \in places |-> back[p]]
  BY DEF back
<1>6. back \in Injection(places, others) /\ back \in Surjection(places, others)
  BY <1>2, <1>3, <1>4, <1>5 DEF Injection, IsInjective, Surjection
<1>7. first \subseteq Remaining(todo)
  <2>1. 1 \in DOMAIN todo
    BY <1>1
  <2> QED
    BY <2>1 DEF Remaining
<1>8. IsFiniteSet(first) /\ Cardinality(first) = n
  <2>1. 1 \in Int /\ n \in Int
    OBVIOUS
  <2>2. IsFiniteSet(1..n) /\ Cardinality(1..n) = IF 1 > n THEN 0 ELSE n - 1 + 1
    BY <2>1, FS_Interval, Zenon
  <2>3. Cardinality(1..n) = n
    BY <2>2
  <2>4. IsFiniteSet({1}) /\ Cardinality({1}) = 1
    BY FS_Singleton, Zenon
  <2>5. IsFiniteSet(first) /\ Cardinality(first) = Cardinality({1}) * Cardinality(1..n)
    BY <2>2, <2>4, FS_Product, Zenon
  <2> QED
    BY <2>3, <2>4, <2>5
<1>9. /\ IsFiniteSet(others)
      /\ Cardinality(others) = Cardinality(Remaining(todo)) - Cardinality(Remaining(todo) \cap first)
  BY FS_Difference, Zenon
<1>10. Remaining(todo) \cap first = first
  BY <1>7
<1>11. /\ IsFiniteSet(places)
       /\ Cardinality(places) = Cardinality(others)
  <2>1. IsFiniteSet(others) /\ back \in Injection(places, others)
    BY <1>6, <1>9
  <2> HIDE DEF places, others
  <2>2. /\ IsFiniteSet(places)
        /\ Cardinality(places) = Cardinality(others) <=> back \in Surjection(places, others)
    BY <2>1, FS_Injection, Zenon
  <2> QED
    BY <1>6, <2>2
<1>12. Cardinality(Remaining(todo)) \in Nat
  BY FS_CardinalityType, Zenon
<1>13. Cardinality(places) = Cardinality(Remaining(todo)) - n
  BY <1>8, <1>9, <1>10, <1>11, Zenon
<1>14. Cardinality(Remaining(todo)) = Cardinality(places) + n
  BY <1>12, <1>13
<1> QED
  BY <1>11, <1>14 DEF rest

-----------------------------------------------------------------------------
(* What a step does to the batch in progress.                              *)

Batch(j, b, todo, pending, res) ==
  j = [batch |-> b, todo |-> todo, pending |-> pending, res |-> res]

Results == [accepted : Nat, rejected : Nat, duplicates : Nat]

\* The step leaves the metric at or below its mark.
Marks(m) == m.asset \in DOMAIN mem' /\ m.ts <= mem'[m.asset].marks[m.signal]

\* push: the first metric of the first queue has been seen to.
Handles(x, res) ==
  /\ Working(x) /\ Queue # <<>>
  /\ Batch(job', job.batch, [job.todo EXCEPT ![1] = [asset |-> x, metrics |-> Tail(Queue)]],
           Head(Queue).ts, res)
  /\ rejected \subseteq rejected'
  /\ res \in Results
  /\ res.accepted + res.rejected + res.duplicates
       = job.res.accepted + job.res.rejected + job.res.duplicates + 1
  /\ Head(Queue) \in rejected' \/ Marks(Head(Queue))
  /\ res.accepted = 0 /\ res.duplicates = 0 =>
       Head(Queue) \in rejected' /\ job.res.accepted = 0 /\ job.res.duplicates = 0

\* The first queue is left, empty or rejected.
Passes(x, res) ==
  /\ Working(x)
  /\ Batch(job', job.batch, Tail(job.todo), 0, res)
  /\ rejected \cup Range(Queue) \subseteq rejected'
  /\ res \in Results
  /\ res.accepted = job.res.accepted /\ res.duplicates = job.res.duplicates
  /\ res.rejected = job.res.rejected + Len(Queue)

LEMMA JobIsRecord ==
  ASSUME job \in JobType
  PROVE  /\ Batch(job, job.batch, job.todo, job.pending, job.res)
         /\ job.batch \subseteq Batches /\ job.todo \in Todo /\ job.pending \in 0..Horizon
         /\ job.res \in Results
  BY DEF JobType, Batch, Todo, Results

LEMMA ResultIsRecord ==
  ASSUME NEW res \in Results
  PROVE  /\ res = [accepted |-> res.accepted, rejected |-> res.rejected,
                   duplicates |-> res.duplicates]
         /\ res.accepted \in Nat /\ res.rejected \in Nat /\ res.duplicates \in Nat
  BY DEF Results

\* Counting what became of a metric.
LEMMA CountedOne ==
  ASSUME NEW old \in Results, NEW n \in Nat
  PROVE  /\ [old EXCEPT !.accepted = @ + 1] \in Results
         /\ [old EXCEPT !.accepted = @ + 1].accepted = old.accepted + 1
         /\ [old EXCEPT !.accepted = @ + 1].rejected = old.rejected
         /\ [old EXCEPT !.accepted = @ + 1].duplicates = old.duplicates
         /\ [old EXCEPT !.duplicates = @ + 1] \in Results
         /\ [old EXCEPT !.duplicates = @ + 1].accepted = old.accepted
         /\ [old EXCEPT !.duplicates = @ + 1].rejected = old.rejected
         /\ [old EXCEPT !.duplicates = @ + 1].duplicates = old.duplicates + 1
         /\ [old EXCEPT !.rejected = @ + n] \in Results
         /\ [old EXCEPT !.rejected = @ + n].accepted = old.accepted
         /\ [old EXCEPT !.rejected = @ + n].rejected = old.rejected + n
         /\ [old EXCEPT !.rejected = @ + n].duplicates = old.duplicates
<1>1. old = [accepted |-> old.accepted, rejected |-> old.rejected,
             duplicates |-> old.duplicates]
      /\ old.accepted \in Nat /\ old.rejected \in Nat /\ old.duplicates \in Nat
  BY ResultIsRecord
<1>2. [old EXCEPT !.accepted = @ + 1] = [accepted |-> old.accepted + 1, rejected |-> old.rejected,
                                          duplicates |-> old.duplicates]
  BY <1>1
<1>3. [old EXCEPT !.duplicates = @ + 1] = [accepted |-> old.accepted, rejected |-> old.rejected,
                                            duplicates |-> old.duplicates + 1]
  BY <1>1
<1>4. [old EXCEPT !.rejected = @ + n] = [accepted |-> old.accepted, rejected |-> old.rejected + n,
                                          duplicates |-> old.duplicates]
  BY <1>1
<1> QED
  BY <1>1, <1>2, <1>3, <1>4 DEF Results

LEMMA PushingIsBatch ==
  ASSUME job \in JobType, NEW x, NEW res, Pushing(x, res)
  PROVE  /\ Working(x) /\ Queue # <<>>
         /\ Batch(job', job.batch, [job.todo EXCEPT ![1] = [asset |-> x, metrics |-> Tail(Queue)]],
                  Head(Queue).ts, res)
<1> DEFINE todo == [job.todo EXCEPT ![1] = [asset |-> x, metrics |-> Tail(Queue)]]
           at == Head(Queue).ts
<1>1. Working(x) /\ Queue # <<>>
  BY DEF Pushing
<1>2. job' = [job EXCEPT !.todo = todo, !.pending = at, !.res = res]
  BY Zenon DEF Pushing
<1> HIDE DEF todo, at
<1>3. Batch(job, job.batch, job.todo, job.pending, job.res)
  BY JobIsRecord
<1>4. Batch(job', job.batch, todo, at, res)
  BY <1>2, <1>3 DEF Batch
<1> QED
  BY <1>1, <1>4 DEF todo, at

LEMMA NextAssetIsBatch ==
  ASSUME job \in JobType, NEW n \in Nat, NextAsset(n)
  PROVE  /\ Batch(job', job.batch, Tail(job.todo), 0, [job.res EXCEPT !.rejected = @ + n])
<1> DEFINE todo == Tail(job.todo)
           res == [job.res EXCEPT !.rejected = @ + n]
<1>1. job' = [job EXCEPT !.todo = todo, !.pending = 0, !.res = res]
  BY Zenon DEF NextAsset
<1> HIDE DEF todo, res
<1>2. Batch(job, job.batch, job.todo, job.pending, job.res)
  BY JobIsRecord
<1>3. Batch(job', job.batch, todo, 0, res)
  BY <1>1, <1>2 DEF Batch
<1> QED
  BY <1>3 DEF todo, res

\* The batch has a name while there is something to do.
LEMMA HeadOfBatch ==
  ASSUME BatchOK, NEW x, Working(x), Queue # <<>>
  PROVE  Head(Queue) \in Metric /\ Head(Queue).asset = x
<1>1. job \in JobType /\ job.todo # <<>>
  BY DEF BatchOK, Working
<1>2. job # Idle
  BY <1>1 DEF Idle
<1>3. PICK b \in Batches : QueuesOK(Content[b])
  BY <1>2 DEF BatchOK
<1>4. /\ 1 \in DOMAIN job.todo /\ job.todo[1].asset = x /\ Queue = job.todo[1].metrics
      /\ Head(Queue) \in Metric /\ Head(Queue) \in Range(Queue)
  BY <1>1, HeadOfQueue
<1>5. Head(Queue) \in Range(job.todo[1].metrics)
  BY <1>4
<1> QED
  BY <1>3, <1>4, <1>5 DEF QueuesOK

LEMMA AcceptHandles ==
  ASSUME StoreOK, Memory, BatchOK, NEW x \in Assets, Accept(x)
  PROVE  \E res : Handles(x, res)
<1> DEFINE m == Head(Queue)
           res == [job.res EXCEPT !.accepted = @ + 1]
           new == Pushed(mem[x], m)
<1>1. Pushing(x, res) /\ mem' = [mem EXCEPT ![x] = new] /\ rejected' = rejected
      /\ x \in DOMAIN mem
  BY Zenon DEF Accept, Pushing
<1>2. job \in JobType /\ job.res \in Results /\ 0 \in Nat
  BY JobIsRecord DEF BatchOK
<1>3. /\ res \in Results /\ res.accepted = job.res.accepted + 1
      /\ res.rejected = job.res.rejected /\ res.duplicates = job.res.duplicates
  BY <1>2, CountedOne
<1> HIDE DEF res
<1>4. /\ Working(x) /\ Queue # <<>>
      /\ Batch(job', job.batch, [job.todo EXCEPT ![1] = [asset |-> x, metrics |-> Tail(Queue)]],
               m.ts, res)
  BY <1>1, <1>2, PushingIsBatch
<1>5. m \in Metric /\ m.asset = x
  BY <1>4, HeadOfBatch
<1>6. mem[x].marks \in [Streams -> 0..Horizon] /\ IsAsset(mem[x])
  BY <1>1 DEF Memory, MemoryOK, AssetOK
<1>7. new.marks = [mem[x].marks EXCEPT ![m.signal] = m.ts]
  BY <1>6, PushedFields
<1> HIDE DEF new, m
<1>8. Marks(m)
  <2>1. m.signal \in Streams /\ m.ts \in Nat
    BY <1>5, IngestAssumption DEF Metric
  <2>2. new.marks[m.signal] = m.ts
    BY <1>6, <1>7, <2>1
  <2>3. mem'[x] = new /\ x \in DOMAIN mem'
    BY <1>1
  <2> QED
    BY <1>5, <2>1, <2>2, <2>3 DEF Marks
<1>9. res.accepted + res.rejected + res.duplicates
        = job.res.accepted + job.res.rejected + job.res.duplicates + 1
      /\ res.accepted # 0
  BY <1>2, <1>3, ResultIsRecord
<1>10. Handles(x, res)
  BY <1>1, <1>3, <1>4, <1>8, <1>9 DEF Handles, m
<1> QED
  BY <1>10

LEMMA DuplicateHandles ==
  ASSUME StoreOK, Memory, BatchOK, NEW x \in Assets, Duplicate(x)
  PROVE  \E res : Handles(x, res)
<1> DEFINE m == Head(Queue)
           res == [job.res EXCEPT !.duplicates = @ + 1]
<1>1. Pushing(x, res) /\ mem' = mem /\ rejected' = rejected
      /\ x \in DOMAIN mem /\ Seen(x, m)
  BY Zenon DEF Duplicate, Pushing
<1>2. job \in JobType /\ job.res \in Results /\ 0 \in Nat
  BY JobIsRecord DEF BatchOK
<1>3. /\ res \in Results /\ res.accepted = job.res.accepted
      /\ res.rejected = job.res.rejected /\ res.duplicates = job.res.duplicates + 1
  BY <1>2, CountedOne
<1> HIDE DEF res
<1>4. /\ Working(x) /\ Queue # <<>>
      /\ Batch(job', job.batch, [job.todo EXCEPT ![1] = [asset |-> x, metrics |-> Tail(Queue)]],
               m.ts, res)
  BY <1>1, <1>2, PushingIsBatch
<1>5. m \in Metric /\ m.asset = x
  BY <1>4, HeadOfBatch
<1> HIDE DEF m
<1>6. Marks(m)
  BY <1>1, <1>5 DEF Marks, Seen
<1>7. res.accepted + res.rejected + res.duplicates
        = job.res.accepted + job.res.rejected + job.res.duplicates + 1
      /\ res.duplicates # 0
  BY <1>2, <1>3, ResultIsRecord
<1>8. Handles(x, res)
  BY <1>1, <1>3, <1>4, <1>6, <1>7 DEF Handles, m
<1> QED
  BY <1>8

LEMMA RejectHandles ==
  ASSUME BatchOK, NEW x \in Assets, Reject(x)
  PROVE  \E res : Handles(x, res)
<1> DEFINE m == Head(Queue)
           res == [job.res EXCEPT !.rejected = @ + 1]
<1>1. Pushing(x, res) /\ rejected' = rejected \cup {m}
  BY Zenon DEF Reject
<1>2. job \in JobType /\ job.res \in Results /\ 1 \in Nat
  BY JobIsRecord DEF BatchOK
<1>3. /\ res \in Results /\ res.accepted = job.res.accepted
      /\ res.rejected = job.res.rejected + 1 /\ res.duplicates = job.res.duplicates
  BY <1>2, CountedOne
<1> HIDE DEF res
<1>4. /\ Working(x) /\ Queue # <<>>
      /\ Batch(job', job.batch, [job.todo EXCEPT ![1] = [asset |-> x, metrics |-> Tail(Queue)]],
               m.ts, res)
  BY <1>1, <1>2, PushingIsBatch
<1>5. res.accepted + res.rejected + res.duplicates
        = job.res.accepted + job.res.rejected + job.res.duplicates + 1
  BY <1>2, <1>3, ResultIsRecord
<1>6. rejected \subseteq rejected' /\ m \in rejected'
  BY <1>1
<1>7. Handles(x, res)
  BY <1>3, <1>4, <1>5, <1>6 DEF Handles, m
<1> QED
  BY <1>7

LEMMA PassingPasses ==
  ASSUME BatchOK, NEW x \in Assets, Refuse(x) \/ Leave(x)
  PROVE  \E res : Passes(x, res)
<1> DEFINE n == Len(Queue)
           res == [job.res EXCEPT !.rejected = @ + n]
<1>1. Working(x) /\ job \in JobType
  BY DEF Refuse, Leave, BatchOK
<1>2. n \in Nat /\ job.res \in Results
  BY <1>1, HeadOfQueue, JobIsRecord
<1>3. NextAsset(n) /\ rejected \cup Range(Queue) \subseteq rejected'
  <2>1. CASE Refuse(x)
    BY <2>1 DEF Refuse
  <2>2. CASE Leave(x)
    <3>1. Queue = <<>> /\ NextAsset(0) /\ rejected' = rejected
      BY <2>2 DEF Leave, history
    <3>2. n = 0 /\ Range(Queue) = {}
      BY <3>1 DEF Range
    <3> QED
      BY <3>1, <3>2
  <2> QED
    BY <2>1, <2>2
<1>4. Batch(job', job.batch, Tail(job.todo), 0, res)
  BY <1>1, <1>2, <1>3, NextAssetIsBatch
<1>5. /\ res \in Results /\ res.accepted = job.res.accepted
      /\ res.rejected = job.res.rejected + n /\ res.duplicates = job.res.duplicates
  BY <1>2, CountedOne
<1> HIDE DEF res
<1>6. Passes(x, res)
  BY <1>1, <1>3, <1>4, <1>5 DEF Passes
<1> QED
  BY <1>6

\* Every step but a restart keeps what was rejected and the marks.
LEMMA RejectedStays ==
  ASSUME [Next]_vars
  PROVE  Restarts \/ rejected \subseteq rejected'
<1>1. ASSUME NEW x \in Assets,
             \/ Register(x) \/ Refuse(x) \/ Leave(x)
             \/ Accept(x) \/ Duplicate(x) \/ Reject(x)
      PROVE  rejected \subseteq rejected'
  BY <1>1 DEF Register, Refuse, Leave, Accept, Duplicate, Reject, history
<1>2. ASSUME NEW x \in Assets, Evaluate(x)
      PROVE  rejected \subseteq rejected'
  BY <1>2 DEF Evaluate, LearnUnsaved, NoChange, Withhold, Fire, FireUnsaved, HoldUnread, Clear,
     ClearUnsaved, Decided
<1>3. CASE Crash
  BY <1>3 DEF Crash, Restarts, Fault
<1>4. ASSUME \/ \E b \in Batches : Begin(b)
             \/ \E c \in Classes, names \in Recipes :
                  PutTemplate(c, names) \/ PutTemplateUnsaved(c, names)
             \/ \E x \in Assets : Feedback(x)
             \/ Finish \/ UNCHANGED vars
      PROVE  rejected \subseteq rejected'
  BY <1>4 DEF Begin, PutTemplate, PutTemplateUnsaved, Feedback, Finish, vars, history
<1> QED
  BY <1>1, <1>2, <1>3, <1>4 DEF Next, Turn

MarksKept == \A m \in Metric : IsMarked(m) => Marks(m)

LEMMA MarksStay ==
  ASSUME StoreOK, Memory, job \in JobType, [Next]_vars
  PROVE  Restarts \/ MarksKept
<1>1. /\ \A x \in DOMAIN mem : mem[x].marks \in [Streams -> 0..Horizon] /\ IsAsset(mem[x])
      /\ \A m \in Metric : m.signal \in Streams /\ m.ts \in Nat
      /\ mem = [x \in DOMAIN mem |-> mem[x]]
  BY IngestAssumption DEF Memory, MemoryOK, AssetOK, Metric
<1>2. ASSUME Remembers
      PROVE  MarksKept
  BY <1>2 DEF Remembers, MarksKept, IsMarked, Seen, Marks
<1>3. ASSUME NEW x, NEW c, Registers(x, c)
      PROVE  MarksKept
  <2> DEFINE new == NewAsset(c, <<>>, recipe[c])
  <2>1. /\ x \notin DOMAIN mem
        /\ mem' = [y \in DOMAIN mem \cup {x} |-> IF y = x THEN new ELSE mem[y]]
    BY <1>3 DEF Registers, With
  <2> HIDE DEF new
  <2>2. \A y \in DOMAIN mem : y \in DOMAIN mem' /\ mem'[y] = mem[y]
    BY <2>1
  <2> QED
    BY <2>2 DEF MarksKept, IsMarked, Seen, Marks
<1>4. ASSUME NEW x, NEW m, Takes(x, m)
      PROVE  MarksKept
  <2> DEFINE new == Pushed(mem[x], m)
  <2>1. /\ x \in DOMAIN mem /\ m \in Metric /\ ~ Seen(x, m)
        /\ mem' = [mem EXCEPT ![x] = new]
    BY <1>4 DEF Takes
  <2>2. new.marks = [mem[x].marks EXCEPT ![m.signal] = m.ts]
    BY <1>1, <2>1, PushedFields
  <2> HIDE DEF new
  <2>3. /\ DOMAIN mem' = DOMAIN mem /\ mem'[x] = new
        /\ \A y \in DOMAIN mem : y # x => mem'[y] = mem[y]
    BY <2>1
  <2>4. \A s \in Streams : mem[x].marks[s] \in Nat
    BY <1>1, <2>1, IngestAssumption
  <2>5. /\ m.signal \in Streams /\ m.ts \in Nat /\ mem[x].marks[m.signal] < m.ts
    BY <1>1, <2>1, <2>4 DEF Seen
  <2>6. new.marks[m.signal] = m.ts
        /\ \A s \in Streams : s # m.signal => new.marks[s] = mem[x].marks[s]
    BY <1>1, <2>1, <2>2, <2>5
  <2>7. ASSUME NEW o \in Metric, IsMarked(o)
        PROVE  Marks(o)
    <3>1. o.asset \in DOMAIN mem /\ o.ts <= mem[o.asset].marks[o.signal]
          /\ o.signal \in Streams /\ o.ts \in Nat
      BY <1>1, <2>7 DEF IsMarked, Seen
    <3>2. CASE o.asset # x
      BY <2>3, <3>1, <3>2 DEF Marks
    <3>3. CASE o.asset = x /\ o.signal = m.signal
      <4>1. o.ts <= m.ts
        BY <2>4, <2>5, <3>1, <3>3
      <4> QED
        BY <2>3, <2>6, <3>1, <3>3, <4>1 DEF Marks
    <3>4. CASE o.asset = x /\ o.signal # m.signal
      BY <2>3, <2>6, <3>1, <3>4 DEF Marks
    <3> QED
      BY <3>2, <3>3, <3>4
  <2> QED
    BY <2>7 DEF MarksKept
<1>5. ASSUME NEW x, NEW r, Evaluates(x, r)
      PROVE  MarksKept
  <2>1. /\ x \in DOMAIN mem /\ mem' = [mem EXCEPT ![x] = r] /\ r.marks = mem[x].marks
    BY <1>5 DEF Evaluates, Evaluation
  <2>2. DOMAIN mem' = DOMAIN mem /\ \A y \in DOMAIN mem : mem'[y].marks = mem[y].marks
    BY <2>1
  <2> QED
    BY <2>2 DEF MarksKept, IsMarked, Seen, Marks
<1>6. ASSUME NEW c, NEW names, Retemplates(c, names)
      PROVE  MarksKept
  <2>1. mem' = [x \in DOMAIN mem |->
                 IF mem[x].class = c THEN Rebuilt(mem[x], Kept(mem[x]), names) ELSE mem[x]]
    BY <1>6 DEF Retemplates
  <2>2. \A x \in DOMAIN mem : Rebuilt(mem[x], Kept(mem[x]), names).marks = mem[x].marks
    BY <1>1, RebuiltFields
  <2>3. DOMAIN mem' = DOMAIN mem /\ \A x \in DOMAIN mem : mem'[x].marks = mem[x].marks
    BY <2>1, <2>2
  <2> QED
    BY <2>3 DEF MarksKept, IsMarked, Seen, Marks
<1> QED
  BY <1>2, <1>3, <1>4, <1>5, <1>6, Effects DEF Memory

\* What a step can make of the batch in progress.
LEMMA JobSteps ==
  ASSUME StoreOK, Memory, BatchOK, [Next]_vars
  PROVE  \/ job' = job \/ job' = Idle
         \/ \E b \in Batches : Begin(b)
         \/ \E x, res : Handles(x, res)
         \/ \E x, res : Passes(x, res)
<1>1. ASSUME NEW x \in Assets, Evaluate(x)
      PROVE  job' = job \/ job' = Idle
  BY <1>1 DEF Evaluate, LearnUnsaved, NoChange, Withhold, Fire, FireUnsaved, HoldUnread, Clear,
     ClearUnsaved, GoesOn, Fails, Answer
<1>2. ASSUME NEW x \in Assets, Register(x)
      PROVE  job' = job
  BY <1>2 DEF Register
<1>3. ASSUME \/ \E c \in Classes, names \in Recipes :
                  PutTemplate(c, names) \/ PutTemplateUnsaved(c, names)
             \/ \E x \in Assets : Feedback(x)
             \/ Finish \/ Crash \/ UNCHANGED vars
      PROVE  job' = job \/ job' = Idle
  BY <1>3 DEF PutTemplate, PutTemplateUnsaved, Feedback, Finish, Answer, Crash, vars
<1>4. ASSUME NEW x \in Assets, Accept(x) \/ Duplicate(x) \/ Reject(x)
      PROVE  \E y, res : Handles(y, res)
  <2>1. \E res : Handles(x, res)
    BY <1>4, AcceptHandles, DuplicateHandles, RejectHandles
  <2> QED
    BY <2>1
<1>5. ASSUME NEW x \in Assets, Refuse(x) \/ Leave(x)
      PROVE  \E y, res : Passes(y, res)
  <2>1. \E res : Passes(x, res)
    BY <1>5, PassingPasses
  <2> QED
    BY <2>1
<1> QED
  BY <1>1, <1>2, <1>3, <1>4, <1>5 DEF Next, Turn

-----------------------------------------------------------------------------
(* The batch in progress is accounted for after every step.                *)

LEMMA BatchFields ==
  ASSUME NEW j, NEW b, NEW todo, NEW pending, NEW res, Batch(j, b, todo, pending, res)
  PROVE  j.batch = b /\ j.todo = todo /\ j.pending = pending /\ j.res = res
  BY DEF Batch

LEMMA IdleIsJob ==
  Idle \in JobType
<1>1. <<>> \in Seq([asset : Assets, metrics : Seq(Metric)])
  BY EmptySequence
<1>2. NoResult \in [accepted : Nat, rejected : Nat, duplicates : Nat]
  BY DEF NoResult
<1> QED
  BY <1>1, <1>2, IngestAssumption DEF Idle, JobType

LEMMA BatchIsJob ==
  ASSUME NEW j, NEW b \in SUBSET Batches, NEW todo \in Todo, NEW pending \in 0..Horizon,
         NEW res \in Results, Batch(j, b, todo, pending, res)
  PROVE  j \in JobType
  BY DEF Batch, JobType, Todo, Results

\* Of a batch that has just been sorted everything is in its queues.
LEMMA BeginBatch ==
  ASSUME StoreOK, NEW b \in Batches, Begin(b)
  PROVE  BatchOK'
<1> DEFINE metrics == Content[b]
           todo == Grouped(metrics)
           invalid == Len(metrics) - Cardinality(Valid(metrics))
           res == [NoResult EXCEPT !.rejected = invalid]
<1>1. metrics \in Seq(Metric) /\ Requested(b)
  BY IngestAssumption DEF Begin
<1>2. /\ Batch(job', {b}, todo, 0, res)
      /\ rejected' = rejected \cup {m \in Range(metrics) : m.check = "invalid"}
  BY Zenon DEF Begin, Batch
<1>3. /\ IsFiniteSet(Remaining(todo)) /\ Cardinality(Remaining(todo)) = Cardinality(Valid(metrics))
      /\ Cardinality(Valid(metrics)) \in 0..Len(metrics) /\ Len(metrics) \in Nat
  BY <1>1, GroupedCounts
<1>4. Groups(todo, metrics)
  BY <1>1, GroupedIsGroups
<1>5. invalid \in Nat
  BY <1>3
<1> HIDE DEF invalid
<1>6. res = [accepted |-> 0, rejected |-> invalid, duplicates |-> 0]
  BY DEF NoResult
<1>7. res \in Results /\ res.accepted = 0 /\ res.duplicates = 0 /\ res.rejected = invalid
  BY <1>5, <1>6 DEF Results
<1> HIDE DEF res, todo
<1>8. job'.batch = {b} /\ job'.todo = todo /\ job'.pending = 0 /\ job'.res = res
  BY <1>2, BatchFields
<1>9. job' \in JobType
  <2>1. todo \in Todo /\ 0 \in 0..Horizon /\ {b} \in SUBSET Batches
    BY <1>4, IngestAssumption DEF Groups, Todo
  <2> QED
    BY <1>2, <1>7, <2>1, BatchIsJob
<1>10. \A m \in Range(metrics) : m \in Metric /\ m.ts \in Nat
  <2>1. \A m \in Metric : m.ts \in Nat
    BY IngestAssumption DEF Metric
  <2>2. Range(metrics) \subseteq Metric
    BY <1>1 DEF Range
  <2> QED
    BY <2>1, <2>2
<1>11. QueuesOK(metrics)'
  <2>1. \A i, j \in DOMAIN todo : todo[i].asset = todo[j].asset => i = j
    BY <1>4 DEF Groups
  <2>2. \A i \in DOMAIN todo :
          /\ InTimeOrder(todo[i].metrics)
          /\ \A m \in Range(todo[i].metrics) :
               /\ m \in Range(metrics) /\ m.check # "invalid" /\ m.asset = todo[i].asset
               /\ 0 <= m.ts
    BY <1>4, <1>10 DEF Groups
  <2> QED
    BY <1>8, <2>1, <2>2 DEF QueuesOK
<1>12. ASSUME NEW m \in Range(metrics), m.check # "invalid"
       PROVE  \E i \in DOMAIN todo : todo[i].asset = m.asset /\ m \in Range(todo[i].metrics)
  BY <1>4, <1>12 DEF Groups
<1>13. MetricsOK(metrics)'
  <2>1. \A m \in Range(metrics) : m.check # "invalid" => InQueue(m)'
    BY <1>8, <1>12 DEF InQueue
  <2>2. \A m \in Range(metrics) : m.check = "invalid" => m \in rejected'
    BY <1>2
  <2> QED
    BY <2>1, <2>2 DEF MetricsOK
<1>14. TurnsOK(metrics)'
  <2>1. ASSUME NEW i \in DOMAIN todo, NEW m \in Range(metrics),
               m.asset = todo[i].asset, m.check # "invalid"
        PROVE  m \in Range(todo[i].metrics)
    <3>1. PICK k \in DOMAIN todo : todo[k].asset = m.asset /\ m \in Range(todo[k].metrics)
      BY <1>12, <2>1
    <3>2. k = i
      BY <1>4, <2>1, <3>1 DEF Groups
    <3> QED
      BY <3>1, <3>2
  <2> QED
    BY <1>8, <2>1 DEF TurnsOK
<1>15. CountOK(metrics)'
  <2>1. 0 + invalid + 0 + Cardinality(Valid(metrics)) = Len(metrics)
    BY <1>3 DEF invalid
  <2> QED
    BY <1>3, <1>7, <1>8, <2>1 DEF CountOK
<1>16. \E c \in Batches : /\ job'.batch = {c} /\ Requested(c)
                          /\ QueuesOK(Content[c])' /\ MetricsOK(Content[c])'
                          /\ TurnsOK(Content[c])' /\ CountOK(Content[c])'
  BY <1>1, <1>8, <1>11, <1>13, <1>14, <1>15
<1> QED
  BY <1>9, <1>16 DEF BatchOK

\* A step that leaves the batch alone.
LEMMA SameBatch ==
  ASSUME StoreOK, BatchOK, rejected \subseteq rejected', MarksKept, job' = job
  PROVE  BatchOK'
<1>1. job \in JobType
  BY DEF BatchOK
<1>2. ASSUME NEW b \in Batches, MetricsOK(Content[b])
      PROVE  MetricsOK(Content[b])'
  <2>1. \A m \in Range(Content[b]) : m \in Metric
    BY IngestAssumption DEF Range
  <2>2. \A m \in Metric : IsMarked(m) => IsMarked(m)'
    BY DEF MarksKept, IsMarked, Seen, Marks
  <2>3. \A m \in Metric : InQueue(m) => InQueue(m)'
    BY DEF InQueue
  <2>4. \A m \in Range(Content[b]) :
          /\ InQueue(m) \/ m \in rejected \/ IsMarked(m)
          /\ job.res.accepted = 0 /\ job.res.duplicates = 0 => InQueue(m) \/ m \in rejected
    BY <1>2 DEF MetricsOK
  <2> QED
    BY <2>1, <2>2, <2>3, <2>4 DEF MetricsOK
<1>3. ASSUME NEW b \in Batches, QueuesOK(Content[b]), TurnsOK(Content[b]), CountOK(Content[b])
      PROVE  QueuesOK(Content[b])' /\ TurnsOK(Content[b])' /\ CountOK(Content[b])'
  BY <1>3 DEF QueuesOK, TurnsOK, CountOK
<1> QED
  BY <1>1, <1>2, <1>3 DEF BatchOK

\* The metrics of a queue without its first are in order, and none of them is
\* earlier than that.
LEMMA TailInOrder ==
  ASSUME NEW q \in Seq(Metric), q # <<>>, InTimeOrder(q)
  PROVE  /\ InTimeOrder(Tail(q))
         /\ \A m \in Range(q) : Head(q).ts <= m.ts
<1>1. /\ Tail(q) \in Seq(Metric) /\ Len(q) \in Nat \ {0}
      /\ DOMAIN q = 1..Len(q) /\ DOMAIN Tail(q) = 1..Len(q) - 1
      /\ Head(q) = q[1] /\ \A k \in 1..Len(q) - 1 : Tail(q)[k] = q[k + 1]
      /\ \A k \in 1..Len(q) : q[k] \in Metric
  BY TailOfQueue
<1>2. \A k, l \in 1..Len(q) : k < l => q[k].ts <= q[l].ts
  BY <1>1 DEF InTimeOrder
<1>3. ASSUME NEW k \in 1..Len(q) - 1, NEW l \in 1..Len(q) - 1, k < l
      PROVE  Tail(q)[k].ts <= Tail(q)[l].ts
  <2>1. k + 1 \in 1..Len(q) /\ l + 1 \in 1..Len(q) /\ k + 1 < l + 1
    BY <1>1, <1>3
  <2>2. q[k + 1].ts <= q[l + 1].ts
    BY <1>2, <2>1
  <2> QED
    BY <1>1, <2>2
<1>4. ASSUME NEW m \in Range(q)
      PROVE  Head(q).ts <= m.ts
  <2>1. PICK k \in 1..Len(q) : m = q[k]
    BY <1>1 DEF Range
  <2>2. CASE k = 1
    <3>1. q[1] \in Metric
      BY <1>1
    <3>2. q[1].ts \in Nat
      BY <3>1, IngestAssumption DEF Metric
    <3> QED
      BY <1>1, <2>1, <2>2, <3>2
  <2>3. CASE k # 1
    <3>1. 1 \in 1..Len(q) /\ 1 < k
      BY <1>1, <2>3
    <3> QED
      BY <1>1, <1>2, <2>1, <3>1
  <2> QED
    BY <2>2, <2>3
<1> QED
  BY <1>1, <1>3, <1>4 DEF InTimeOrder

\* What leaves the queues is counted.
LEMMA SameTotal ==
  ASSUME NEW counted \in Nat, NEW left \in Nat, NEW n \in Nat,
         NEW total, NEW places, NEW sum,
         total = counted + n, places = left + n, counted + places = sum
  PROVE  total + left = sum
  OBVIOUS

LEMMA HandlesBatch ==
  ASSUME StoreOK, BatchOK, MarksKept, NEW x, NEW res, Handles(x, res)
  PROVE  BatchOK'
<1> DEFINE todo == job.todo
           q == Queue
           m == Head(Queue)
           first == [asset |-> x, metrics |-> Tail(Queue)]
           next == [todo EXCEPT ![1] = first]
<1>1. job \in JobType /\ Working(x) /\ q # <<>>
  BY DEF BatchOK, Handles
<1>2. /\ x \in Assets /\ 1 \in DOMAIN todo /\ todo[1].asset = x
      /\ q = todo[1].metrics /\ q \in Seq(Metric) /\ m \in Metric /\ m \in Range(q)
  BY <1>1, HeadOfQueue
<1>3. job # Idle
  <2>1. todo # <<>>
    BY <1>1 DEF Working
  <2> QED
    BY <2>1 DEF Idle
<1>4. PICK b \in Batches :
        /\ job.batch = {b} /\ Requested(b)
        /\ QueuesOK(Content[b]) /\ MetricsOK(Content[b]) /\ TurnsOK(Content[b])
        /\ CountOK(Content[b])
  BY <1>3 DEF BatchOK
<1> DEFINE metrics == Content[b]
<1>5. /\ Batch(job', {b}, next, m.ts, res) /\ res \in Results
      /\ rejected \subseteq rejected'
      /\ res.accepted + res.rejected + res.duplicates
           = job.res.accepted + job.res.rejected + job.res.duplicates + 1
      /\ m \in rejected' \/ Marks(m)
      /\ res.accepted = 0 /\ res.duplicates = 0 =>
           m \in rejected' /\ job.res.accepted = 0 /\ job.res.duplicates = 0
  BY <1>4 DEF Handles
<1>6. /\ Tail(q) \in Seq(Metric) /\ Len(q) \in Nat \ {0}
      /\ DOMAIN q = 1..Len(q) /\ DOMAIN Tail(q) = 1..Len(q) - 1
      /\ Range(q) = Range(Tail(q)) \cup {m}
  BY <1>1, <1>2, TailOfQueue
<1> HIDE DEF q, m
<1>7. first.asset = x /\ first.metrics = Tail(q)
      /\ first \in [asset : Assets, metrics : Seq(Metric)]
  BY <1>2, <1>6 DEF q
<1> HIDE DEF first
<1>8. todo \in Todo
  BY <1>1 DEF JobType, Todo
<1>9. /\ next \in Todo /\ DOMAIN next = DOMAIN todo /\ next[1] = first
      /\ \A i \in DOMAIN todo : i # 1 => next[i] = todo[i]
  BY <1>2, <1>7, <1>8 DEF Todo
<1> HIDE DEF todo, next
<1>10. job'.batch = {b} /\ job'.todo = next /\ job'.pending = m.ts /\ job'.res = res
  BY <1>5, BatchFields
<1>11. m.ts \in 0..Horizon /\ m.ts \in Nat
  BY <1>2, IngestAssumption DEF Metric
<1>12. job' \in JobType
  <2>1. {b} \in SUBSET Batches
    OBVIOUS
  <2> QED
    BY <1>5, <1>9, <1>11, <2>1, BatchIsJob
<1>13. /\ \A i, j \in DOMAIN todo : todo[i].asset = todo[j].asset => i = j
       /\ \A i \in DOMAIN todo :
            /\ InTimeOrder(todo[i].metrics)
            /\ \A o \in Range(todo[i].metrics) :
                 /\ o \in Range(metrics) /\ o.check # "invalid" /\ o.asset = todo[i].asset
                 /\ i = 1 => job.pending <= o.ts
  BY <1>4 DEF QueuesOK, todo
<1>14. m.asset = x /\ job.pending <= m.ts
  BY <1>2, <1>13 DEF todo, q
<1>15. InTimeOrder(Tail(q)) /\ \A o \in Range(q) : m.ts <= o.ts
  <2>1. InTimeOrder(q) /\ q \in Seq(Metric) /\ q # <<>>
    BY <1>1, <1>2, <1>13 DEF todo
  <2> QED
    BY <2>1, TailInOrder DEF q, m
<1>16. \A i \in DOMAIN todo : next[i].asset = todo[i].asset
  BY <1>2, <1>7, <1>9 DEF todo
<1>17. QueuesOK(metrics)'
  <2>1. \A i, j \in DOMAIN next : next[i].asset = next[j].asset => i = j
    BY <1>9, <1>13, <1>16
  <2>2. ASSUME NEW i \in DOMAIN next
        PROVE  /\ InTimeOrder(next[i].metrics)
               /\ \A o \in Range(next[i].metrics) :
                    /\ o \in Range(metrics) /\ o.check # "invalid" /\ o.asset = next[i].asset
                    /\ i = 1 => m.ts <= o.ts
    <3>1. CASE i = 1
      <4>1. next[i].metrics = Tail(q) /\ next[i].asset = x
        BY <1>7, <1>9, <3>1
      <4>2. \A o \in Range(Tail(q)) : o \in Range(q)
        BY <1>6
      <4>3. \A o \in Range(q) : o \in Range(metrics) /\ o.check # "invalid" /\ o.asset = x
        BY <1>2, <1>13 DEF todo
      <4> QED
        BY <1>15, <4>1, <4>2, <4>3
    <3>2. CASE i # 1
      BY <1>9, <1>13, <3>2
    <3> QED
      BY <3>1, <3>2
  <2> QED
    BY <1>10, <2>1, <2>2 DEF QueuesOK
<1>18. MetricsOK(metrics)'
  <2>1. ASSUME NEW o \in Range(metrics)
        PROVE  /\ InQueue(o)' \/ o \in rejected' \/ IsMarked(o)'
               /\ res.accepted = 0 /\ res.duplicates = 0 => InQueue(o)' \/ o \in rejected'
    <3>1. o \in Metric
      BY IngestAssumption DEF Range
    <3>2. /\ InQueue(o) \/ o \in rejected \/ IsMarked(o)
          /\ job.res.accepted = 0 /\ job.res.duplicates = 0 => InQueue(o) \/ o \in rejected
      BY <1>4 DEF MetricsOK
    <3>3. IsMarked(o) \/ Marks(o) => IsMarked(o)'
      BY <3>1 DEF MarksKept, IsMarked, Seen, Marks
    <3>4. InQueue(o) => InQueue(o)' \/ o = m
      <4>1. SUFFICES ASSUME InQueue(o), o # m
                     PROVE  InQueue(o)'
        OBVIOUS
      <4>2. PICK i \in DOMAIN todo : todo[i].asset = o.asset /\ o \in Range(todo[i].metrics)
        BY <4>1 DEF InQueue, todo
      <4>3. CASE i = 1
        <5>1. o \in Range(Tail(q))
          BY <1>2, <1>6, <4>1, <4>2, <4>3 DEF todo
        <5>2. next[1].asset = o.asset /\ o \in Range(next[1].metrics) /\ 1 \in DOMAIN next
          BY <1>2, <1>7, <1>9, <4>2, <4>3, <5>1 DEF todo
        <5> QED
          BY <1>10, <5>2 DEF InQueue
      <4>4. CASE i # 1
        <5>1. i \in DOMAIN next /\ next[i].asset = o.asset /\ o \in Range(next[i].metrics)
          BY <1>9, <4>2, <4>4
        <5> QED
          BY <1>10, <5>1 DEF InQueue
      <4> QED
        BY <4>3, <4>4
    <3> QED
      BY <1>5, <3>2, <3>3, <3>4
  <2> QED
    BY <1>10, <2>1 DEF MetricsOK
<1>19. TurnsOK(metrics)'
  <2>1. ASSUME NEW i \in DOMAIN next, NEW o \in Range(metrics),
               o.asset = next[i].asset, o.check # "invalid"
        PROVE  o \in Range(next[i].metrics) \/ (i = 1 /\ o.ts <= m.ts)
    <3>1. o \in Range(todo[i].metrics) \/ (i = 1 /\ o.ts <= job.pending)
      BY <1>4, <1>9, <1>16, <2>1 DEF TurnsOK, todo
    <3>2. CASE i = 1
      <4>1. next[i].metrics = Tail(q)
        BY <1>7, <1>9, <3>2
      <4>2. CASE o \in Range(q)
        BY <1>6, <1>11, <3>2, <4>1, <4>2
      <4>3. CASE o.ts <= job.pending
        <5>1. o.ts \in Nat /\ job.pending \in Nat
          <6>1. o \in Metric
            BY IngestAssumption DEF Range
          <6> QED
            BY <1>1, <6>1, IngestAssumption DEF Metric, JobType
        <5> QED
          BY <1>11, <1>14, <3>2, <4>3, <5>1
      <4> QED
        BY <1>2, <3>1, <3>2, <4>2, <4>3 DEF todo
    <3>3. CASE i # 1
      BY <1>9, <3>1, <3>3
    <3> QED
      BY <3>2, <3>3
  <2> QED
    BY <1>10, <2>1 DEF TurnsOK
<1>20. CountOK(metrics)'
  <2>1. /\ IsFiniteSet(Remaining(todo))
        /\ job.res.accepted + job.res.rejected + job.res.duplicates
             + Cardinality(Remaining(todo)) = Len(metrics)
    BY <1>4 DEF CountOK, todo
  <2>2. DOMAIN todo[1].metrics = 1..Len(q) /\ DOMAIN next[1].metrics = 1..Len(q) - 1
    BY <1>2, <1>6, <1>7, <1>9 DEF todo
  <2>3. /\ IsFiniteSet(Remaining(next))
        /\ Cardinality(Remaining(todo)) = Cardinality(Remaining(next)) + 1
    <3>1. 1 \in DOMAIN todo
      BY <1>2 DEF todo
    <3> QED
      BY <1>6, <1>8, <1>9, <2>1, <2>2, <3>1, PlacesOfTail
  <2>4. Cardinality(Remaining(next)) \in Nat
    BY <2>3, FS_CardinalityType, Zenon
  <2>5. res.accepted \in Nat /\ res.rejected \in Nat /\ res.duplicates \in Nat
        /\ job.res.accepted \in Nat /\ job.res.rejected \in Nat /\ job.res.duplicates \in Nat
    BY <1>1, <1>5, JobIsRecord, ResultIsRecord
  <2>6. res.accepted + res.rejected + res.duplicates + Cardinality(Remaining(next)) = Len(metrics)
    <3> DEFINE counted == job.res.accepted + job.res.rejected + job.res.duplicates
               total == res.accepted + res.rejected + res.duplicates
               places == Cardinality(Remaining(todo))
               left == Cardinality(Remaining(next))
    <3>1. counted \in Nat /\ left \in Nat /\ 1 \in Nat
      BY <2>4, <2>5
    <3>2. total = counted + 1
      BY <1>5
    <3>3. places = left + 1 /\ counted + places = Len(metrics)
      BY <2>1, <2>3
    <3> HIDE DEF counted, total, places, left
    <3>4. total + left = Len(metrics)
      BY <3>1, <3>2, <3>3, SameTotal
    <3> QED
      BY <3>4 DEF total, left
  <2> QED
    BY <1>10, <2>3, <2>6 DEF CountOK
<1>21. \E c \in Batches : /\ job'.batch = {c} /\ Requested(c)
                          /\ QueuesOK(Content[c])' /\ MetricsOK(Content[c])'
                          /\ TurnsOK(Content[c])' /\ CountOK(Content[c])'
  BY <1>4, <1>10, <1>17, <1>18, <1>19, <1>20
<1> QED
  BY <1>12, <1>21 DEF BatchOK

LEMMA PassesBatch ==
  ASSUME StoreOK, BatchOK, MarksKept, NEW x, NEW res, Passes(x, res)
  PROVE  BatchOK'
<1> DEFINE todo == job.todo
           q == Queue
           next == Tail(todo)
<1>1. job \in JobType /\ Working(x)
  BY DEF BatchOK, Passes
<1>2. /\ 1 \in DOMAIN todo /\ todo[1].asset = x /\ q = todo[1].metrics /\ q \in Seq(Metric)
      /\ todo # <<>>
  BY <1>1, HeadOfQueue DEF Working
<1>3. job # Idle
  BY <1>2 DEF Idle
<1>4. PICK b \in Batches :
        /\ job.batch = {b} /\ Requested(b)
        /\ QueuesOK(Content[b]) /\ MetricsOK(Content[b]) /\ TurnsOK(Content[b])
        /\ CountOK(Content[b])
  BY <1>3 DEF BatchOK
<1> DEFINE metrics == Content[b]
<1>5. /\ Batch(job', {b}, next, 0, res) /\ res \in Results
      /\ rejected \cup Range(q) \subseteq rejected'
      /\ res.accepted = job.res.accepted /\ res.duplicates = job.res.duplicates
      /\ res.rejected = job.res.rejected + Len(q)
  BY <1>4 DEF Passes
<1> HIDE DEF q
<1>6. Len(q) \in Nat /\ DOMAIN q = 1..Len(q)
  BY <1>2
<1>7. todo \in Todo
  BY <1>1 DEF JobType, Todo
<1>8. /\ next \in Todo /\ Len(todo) \in Nat \ {0}
      /\ DOMAIN todo = 1..Len(todo) /\ DOMAIN next = 1..Len(todo) - 1
      /\ \A k \in 1..Len(todo) - 1 : next[k] = todo[k + 1]
  BY <1>2, <1>7, TailOfQueue DEF Todo
<1> HIDE DEF todo, next
<1>9. job'.batch = {b} /\ job'.todo = next /\ job'.pending = 0 /\ job'.res = res
  BY <1>5, BatchFields
<1>10. \A k \in DOMAIN next : k + 1 \in DOMAIN todo /\ next[k] = todo[k + 1] /\ k + 1 # 1
                              /\ k \in Nat
  BY <1>8
<1>11. \A i \in DOMAIN todo : i # 1 => i - 1 \in DOMAIN next /\ next[i - 1] = todo[i]
  <2> TAKE i \in DOMAIN todo
  <2> HAVE i # 1
  <2>1. i - 1 \in 1..Len(todo) - 1 /\ (i - 1) + 1 = i
    BY <1>8
  <2> QED
    BY <1>8, <2>1
<1>12. job' \in JobType
  <2>1. {b} \in SUBSET Batches /\ 0 \in 0..Horizon
    BY IngestAssumption
  <2> QED
    BY <1>5, <1>8, <2>1, BatchIsJob
<1>13. /\ \A i, j \in DOMAIN todo : todo[i].asset = todo[j].asset => i = j
       /\ \A i \in DOMAIN todo :
            /\ InTimeOrder(todo[i].metrics)
            /\ \A o \in Range(todo[i].metrics) :
                 o \in Range(metrics) /\ o.check # "invalid" /\ o.asset = todo[i].asset
  BY <1>4 DEF QueuesOK, todo
<1>14. \A o \in Range(metrics) : o \in Metric /\ o.ts \in Nat
  <2>1. \A o \in Metric : o.ts \in Nat
    BY IngestAssumption DEF Metric
  <2>2. Range(metrics) \subseteq Metric
    BY IngestAssumption DEF Range
  <2> QED
    BY <2>1, <2>2
<1>15. QueuesOK(metrics)'
  <2>1. ASSUME NEW i \in DOMAIN next, NEW j \in DOMAIN next, next[i].asset = next[j].asset
        PROVE  i = j
    <3>1. i + 1 = j + 1
      BY <1>10, <1>13, <2>1
    <3>2. i \in Nat /\ j \in Nat
      BY <1>10
    <3> QED
      BY <3>1, <3>2
  <2>2. ASSUME NEW i \in DOMAIN next
        PROVE  /\ InTimeOrder(next[i].metrics)
               /\ \A o \in Range(next[i].metrics) :
                    /\ o \in Range(metrics) /\ o.check # "invalid" /\ o.asset = next[i].asset
                    /\ i = 1 => 0 <= o.ts
    <3>1. i + 1 \in DOMAIN todo /\ next[i] = todo[i + 1]
      BY <1>10
    <3>2. InTimeOrder(next[i].metrics)
      BY <1>13, <3>1
    <3>3. \A o \in Range(next[i].metrics) :
            o \in Range(metrics) /\ o.check # "invalid" /\ o.asset = next[i].asset
      BY <1>13, <3>1
    <3> QED
      BY <1>14, <3>2, <3>3
  <2> QED
    BY <1>9, <2>1, <2>2 DEF QueuesOK
<1>16. MetricsOK(metrics)'
  <2>1. ASSUME NEW o \in Range(metrics)
        PROVE  /\ InQueue(o)' \/ o \in rejected' \/ IsMarked(o)'
               /\ res.accepted = 0 /\ res.duplicates = 0 => InQueue(o)' \/ o \in rejected'
    <3>1. o \in Metric
      BY <1>14
    <3>2. /\ InQueue(o) \/ o \in rejected \/ IsMarked(o)
          /\ job.res.accepted = 0 /\ job.res.duplicates = 0 => InQueue(o) \/ o \in rejected
      BY <1>4 DEF MetricsOK
    <3>3. IsMarked(o) => IsMarked(o)'
      BY <3>1 DEF MarksKept, IsMarked, Seen, Marks
    <3>4. InQueue(o) => InQueue(o)' \/ o \in Range(q)
      <4>1. SUFFICES ASSUME InQueue(o), o \notin Range(q)
                     PROVE  InQueue(o)'
        OBVIOUS
      <4>2. PICK i \in DOMAIN todo : todo[i].asset = o.asset /\ o \in Range(todo[i].metrics)
        BY <4>1 DEF InQueue, todo
      <4>3. i # 1
        BY <1>2, <4>1, <4>2 DEF todo
      <4>4. i - 1 \in DOMAIN next /\ next[i - 1] = todo[i]
        BY <1>11, <4>3
      <4>5. \E k \in DOMAIN next : next[k].asset = o.asset /\ o \in Range(next[k].metrics)
        BY <4>2, <4>4
      <4> QED
        BY <1>9, <4>5 DEF InQueue
    <3> QED
      BY <1>5, <3>2, <3>3, <3>4
  <2> QED
    BY <1>9, <2>1 DEF MetricsOK
<1>17. TurnsOK(metrics)'
  <2>1. ASSUME NEW i \in DOMAIN next, NEW o \in Range(metrics),
               o.asset = next[i].asset, o.check # "invalid"
        PROVE  o \in Range(next[i].metrics)
    <3>1. i + 1 \in DOMAIN todo /\ next[i] = todo[i + 1] /\ i + 1 # 1
      BY <1>10
    <3> QED
      BY <1>4, <2>1, <3>1 DEF TurnsOK, todo
  <2> QED
    BY <1>9, <2>1 DEF TurnsOK
<1>18. CountOK(metrics)'
  <2>1. /\ IsFiniteSet(Remaining(todo))
        /\ job.res.accepted + job.res.rejected + job.res.duplicates
             + Cardinality(Remaining(todo)) = Len(metrics)
    BY <1>4 DEF CountOK, todo
  <2>2. DOMAIN todo[1].metrics = 1..Len(q)
    BY <1>2, <1>6 DEF todo
  <2>3. /\ IsFiniteSet(Remaining(next))
        /\ Cardinality(Remaining(todo)) = Cardinality(Remaining(next)) + Len(q)
    <3>1. todo # <<>>
      BY <1>2 DEF todo
    <3> QED
      BY <1>6, <1>7, <2>1, <2>2, <3>1, PlacesOfRest DEF next
  <2>4. Cardinality(Remaining(next)) \in Nat
    BY <2>3, FS_CardinalityType, Zenon
  <2>5. res.accepted \in Nat /\ res.rejected \in Nat /\ res.duplicates \in Nat
        /\ job.res.accepted \in Nat /\ job.res.rejected \in Nat /\ job.res.duplicates \in Nat
    BY <1>1, <1>5, JobIsRecord, ResultIsRecord
  <2>6. res.accepted + res.rejected + res.duplicates + Cardinality(Remaining(next)) = Len(metrics)
    <3> DEFINE counted == job.res.accepted + job.res.rejected + job.res.duplicates
               total == res.accepted + res.rejected + res.duplicates
               places == Cardinality(Remaining(todo))
               left == Cardinality(Remaining(next))
               n == Len(q)
    <3>1. /\ counted \in Nat /\ left \in Nat
          /\ n \in Nat
      <4>1. counted \in Nat /\ left \in Nat
        BY <2>4, <2>5
      <4>2. n \in Nat
        BY <1>6, Zenon
      <4> QED
        BY <4>1, <4>2, Zenon
    <3>2. total = counted + n
      BY <1>5, <1>6, <2>5
    <3>3. places = left + n /\ counted + places = Len(metrics)
      BY <2>1, <2>3
    <3> HIDE DEF counted, total, places, left, n
    <3>4. total + left = Len(metrics)
      BY <3>1, <3>2, <3>3, SameTotal
    <3> QED
      BY <3>4 DEF total, left
  <2> QED
    BY <1>9, <2>3, <2>6 DEF CountOK
<1>19. \E c \in Batches : /\ job'.batch = {c} /\ Requested(c)
                          /\ QueuesOK(Content[c])' /\ MetricsOK(Content[c])'
                          /\ TurnsOK(Content[c])' /\ CountOK(Content[c])'
  BY <1>4, <1>9, <1>15, <1>16, <1>17, <1>18
<1> QED
  BY <1>12, <1>19 DEF BatchOK

LEMMA NextBatch ==
  ASSUME StoreOK, Memory, BatchOK, [Next]_vars
  PROVE  BatchOK'
<1>1. CASE job' = Idle
  BY <1>1, IdleIsJob DEF BatchOK
<1>2. CASE job' # Idle
  <2>1. ~ Restarts
    BY <1>2 DEF Restarts
  <2>2. rejected \subseteq rejected' /\ MarksKept
    BY <2>1, RejectedStays, MarksStay DEF BatchOK
  <2> QED
    BY <1>2, <2>2, JobSteps, SameBatch, BeginBatch, HandlesBatch, PassesBatch
<1> QED
  BY <1>1, <1>2

-----------------------------------------------------------------------------
(* Answers.                                                                *)

LEMMA AnswerSteps ==
  ASSUME [Next]_vars
  PROVE  answers' = answers \/ Answer("error") \/ Finish \/ Restarts
<1>1. ASSUME NEW x \in Assets,
             \/ Register(x) \/ Refuse(x) \/ Leave(x)
             \/ Accept(x) \/ Duplicate(x) \/ Reject(x)
      PROVE  answers' = answers
  BY <1>1 DEF Register, Refuse, Leave, Accept, Duplicate, Reject, Pushing, history
<1>2. ASSUME NEW x \in Assets, Evaluate(x)
      PROVE  answers' = answers \/ Answer("error")
  BY <1>2 DEF Evaluate, LearnUnsaved, NoChange, Withhold, Fire, FireUnsaved, HoldUnread, Clear,
     ClearUnsaved, GoesOn, Fails
<1>3. CASE Crash
  BY <1>3 DEF Crash, Restarts, Fault
<1>4. ASSUME \/ \E b \in Batches : Begin(b)
             \/ \E c \in Classes, names \in Recipes :
                  PutTemplate(c, names) \/ PutTemplateUnsaved(c, names)
             \/ \E x \in Assets : Feedback(x)
             \/ UNCHANGED vars
      PROVE  answers' = answers
  BY <1>4 DEF Begin, PutTemplate, PutTemplateUnsaved, Feedback, vars, history
<1> QED
  BY <1>1, <1>2, <1>3, <1>4 DEF Next, Turn

\* What an answer says of a metric of its batch.
Honest(answer, m) ==
  /\ answer = "ok" => m \in rejected \/ IsMarked(m)
  /\ answer = "refused" => m \in rejected

\* The same, after the step.
StaysHonest(answer, m) ==
  /\ answer = "ok" => m \in rejected' \/ Marks(m)
  /\ answer = "refused" => m \in rejected'

LEMMA AnsweredIsHonest ==
  AnsweredMeansTaken <=> \A b \in Batches : \A m \in Range(Content[b]) : Honest(answers[b], m)
  BY DEF AnsweredMeansTaken, Honest, IsMarked

LEMMA NextAnswer ==
  ASSUME StoreOK, Memory, BatchOK, AnsweredMeansTaken, [Next]_vars
  PROVE  AnsweredMeansTaken'
<1>1. CASE Restarts
  <2>1. answers' = [b \in Batches |-> "none"]
    BY <1>1 DEF Restarts
  <2> QED
    BY <2>1 DEF AnsweredMeansTaken
<1>2. CASE ~ Restarts
  <2>1. rejected \subseteq rejected' /\ MarksKept
    BY <1>2, RejectedStays, MarksStay DEF BatchOK
  <2>2. ASSUME NEW b \in Batches, NEW m \in Range(Content[b])
        PROVE  StaysHonest(answers'[b], m)
    <3>1. m \in Metric
      BY IngestAssumption DEF Range
    <3>2. /\ m \in rejected => m \in rejected'
          /\ IsMarked(m) => Marks(m)
      BY <2>1, <3>1 DEF MarksKept
    <3>3. Honest(answers[b], m)
      BY AnsweredIsHonest
    <3>4. CASE answers'[b] = answers[b]
      BY <3>2, <3>3, <3>4 DEF Honest, StaysHonest
    <3>5. CASE answers'[b] = "error"
      BY <3>5 DEF StaysHonest
    <3>6. CASE Finish /\ b \in job.batch
      <4>1. /\ job # Idle /\ job.todo = <<>> /\ answers'[b] = Status(job.res)
        BY <3>6 DEF Finish, Answer
      <4>2. PICK c \in Batches : job.batch = {c} /\ MetricsOK(Content[c])
        BY <4>1 DEF BatchOK
      <4>3. MetricsOK(Content[b])
        BY <3>6, <4>2
      <4>4. ~ InQueue(m)
        <5>1. DOMAIN <<>> = {}
          OBVIOUS
        <5> QED
          BY <4>1, <5>1 DEF InQueue
      <4>5. /\ m \in rejected \/ IsMarked(m)
            /\ job.res.accepted = 0 /\ job.res.duplicates = 0 => m \in rejected
        BY <4>3, <4>4 DEF MetricsOK
      <4>6. /\ Status(job.res) = "refused" => m \in rejected
        BY <4>5 DEF Status
      <4> QED
        BY <3>2, <4>1, <4>5, <4>6 DEF StaysHonest
    <3>7. Answer("error") => answers'[b] = "error" \/ answers'[b] = answers[b]
      BY DEF Answer
    <3>8. Finish => b \in job.batch \/ answers'[b] = answers[b]
      BY DEF Finish, Answer
    <3> QED
      BY <1>2, <3>4, <3>5, <3>6, <3>7, <3>8, AnswerSteps
  <2>3. \A b \in Batches : \A m \in Range(Content[b]) :
          /\ answers'[b] = "ok" =>
               m \in rejected' \/ (m.asset \in DOMAIN mem' /\ m.ts <= mem'[m.asset].marks[m.signal])
          /\ answers'[b] = "refused" => m \in rejected'
    BY <2>2 DEF StaysHonest, Marks
  <2> QED
    BY <2>3 DEF AnsweredMeansTaken, Seen
<1> QED
  BY <1>1, <1>2

-----------------------------------------------------------------------------
(* What has been learned is saved.                                         *)

\* What the store has of an asset's own baselines.
Saved(s, x, base) == Own(base) # {} => x \in DOMAIN s /\ Own(base) \subseteq Own(s[x].base)

LEMMA KeptIsOwn ==
  ASSUME NEW a
  PROVE  Own(Kept(a)) \subseteq Own(a.base)
<1>1. CASE a.src = "asset"
  BY <1>1 DEF Kept
<1>2. CASE a.src # "asset"
  <2>1. Kept(a) = <<>>
    BY <1>2 DEF Kept
  <2>2. DOMAIN <<>> = {}
    OBVIOUS
  <2> QED
    BY <2>1, <2>2 DEF Own
<1> QED
  BY <1>1, <1>2

\* A snapshot of an asset has all that is its own.
LEMMA SnapshotSaves ==
  ASSUME NEW s, NEW x, NEW a, a.src = "asset" \/ Own(a.base) = {}
  PROVE  /\ Saved(With(s, x, Snapshot(a)), x, a.base)
         /\ \A y \in DOMAIN s : \A base : y # x /\ Saved(s, y, base) =>
              Saved(With(s, x, Snapshot(a)), y, base)
         /\ \A y, base : Own(base) = {} => Saved(With(s, x, Snapshot(a)), y, base)
<1> DEFINE new == Snapshot(a)
           t == With(s, x, new)
<1>1. a.src = "asset" => new.base = a.base
  BY DEF Snapshot, Kept
<1> HIDE DEF new
<1>2. DOMAIN t = DOMAIN s \cup {x} /\ t[x] = new
      /\ \A y \in DOMAIN s : y # x => t[y] = s[y]
  BY DEF With
<1> HIDE DEF t
<1>3. Saved(t, x, a.base)
  BY <1>1, <1>2 DEF Saved
<1>4. \A y \in DOMAIN s : \A base : y # x /\ Saved(s, y, base) => Saved(t, y, base)
  BY <1>2 DEF Saved
<1>5. \A y, base : Own(base) = {} => Saved(t, y, base)
  BY DEF Saved
<1> QED
  BY <1>3, <1>4, <1>5 DEF t, new

LEMMA EvaluateSaves ==
  ASSUME StoreOK, MemoryOK, job \in JobType, NEW x \in Assets, Evaluate(x), ~ Fault
  PROVE  \E r, n :
           /\ x \in DOMAIN mem /\ mem' = [mem EXCEPT ![x] = r] /\ r.base = n.base
           /\ \/ snaps' = snaps /\ n.base = mem[x].base
              \/ snaps' = With(snaps, x, Snapshot(n)) /\ n.src = "asset"
<1> DEFINE names == recipe[mem[x].class]
<1>1. Due(x)
  BY DEF Evaluate, LearnUnsaved, NoChange, Withhold, Fire, FireUnsaved, HoldUnread, Clear,
     ClearUnsaved, Decided
<1>2. /\ x \in DOMAIN mem /\ Ready(x) /\ job.pending \in 0..Horizon /\ AssetOK(mem[x], names)
      /\ names \in Recipes
  <2>1. x \in DOMAIN mem /\ Ready(x)
    BY <1>1 DEF Due
  <2>2. job.pending \in 0..Horizon
    BY DEF JobType
  <2>3. AssetOK(mem[x], names)
    BY <2>1 DEF MemoryOK
  <2>4. names \in Recipes
    BY <2>3 DEF AssetOK, StoreOK
  <2> QED
    BY <2>1, <2>2, <2>3, <2>4
<1>3. ASSUME NEW phase \in {"quiet", "alerted", "withheld"}, NEW open \in 0..Horizon,
             Decided(x, phase, open)
      PROVE  \E r, n :
           /\ x \in DOMAIN mem /\ mem' = [mem EXCEPT ![x] = r] /\ r.base = n.base
           /\ \/ snaps' = snaps /\ n.base = mem[x].base
              \/ snaps' = With(snaps, x, Snapshot(n)) /\ n.src = "asset"
  <2>1. mem' = [mem EXCEPT ![x] = DecidedAsset(x, phase, open)] /\ SavesLearned(x)
    BY <1>3, Zenon DEF Decided, DecidedAsset
  <2>2. DecidedAsset(x, phase, open).base = Noted(x).base
    BY <1>2, DecidedIsEvaluation
  <2>3. Evaluation(mem[x], Noted(x), job.pending, names)
    BY <1>2, NotedIsEvaluation
  <2>4. IF Learns(x) THEN Noted(x).src = "asset" ELSE Noted(x).base = mem[x].base
    BY <2>3 DEF Evaluation, Learns
  <2>5. \/ snaps' = snaps /\ Noted(x).base = mem[x].base
        \/ snaps' = With(snaps, x, Snapshot(Noted(x))) /\ Noted(x).src = "asset"
    BY <2>1, <2>4 DEF SavesLearned
  <2> QED
    BY <1>2, <2>1, <2>2, <2>5
<1>4. mem[x].phase \in {"quiet", "alerted", "withheld"} /\ mem[x].open \in 0..Horizon
      /\ NoAlert \in 0..Horizon
  BY <1>2, IngestAssumption DEF AssetOK, NoAlert
<1>5. \E phase \in {"quiet", "alerted", "withheld"}, open \in 0..Horizon :
        Decided(x, phase, open)
  <2>1. ~ LearnUnsaved(x) /\ ~ FireUnsaved(x) /\ ~ HoldUnread(x) /\ ~ ClearUnsaved(x)
    BY Zenon DEF LearnUnsaved, FireUnsaved, HoldUnread, ClearUnsaved, Fails
  <2>2. NoChange(x) \/ Withhold(x) \/ Fire(x) \/ Clear(x)
    BY <2>1 DEF Evaluate
  <2>3. job.pending \in 0..Horizon
    BY <1>2
  <2>4. \/ Decided(x, mem[x].phase, mem[x].open) \/ Decided(x, "withheld", mem[x].open)
        \/ Decided(x, "alerted", job.pending) \/ Decided(x, "quiet", NoAlert)
    BY <2>2, Zenon DEF NoChange, Withhold, Fire, Clear
  <2> QED
    BY <1>4, <2>3, <2>4, Zenon
<1> QED
  BY <1>3, <1>5

LEMMA SavedIsAll ==
  LearnedIsSaved <=> (faults = 0 => \A x \in DOMAIN mem : Saved(snaps, x, mem[x].base))
  BY DEF LearnedIsSaved, Saved

LEMMA SnapsSteps ==
  ASSUME [Next]_vars
  PROVE  \/ snaps' = snaps
         \/ \E x \in Assets : Evaluate(x) \/ Feedback(x)
<1>1. ASSUME NEW x \in Assets,
             \/ Register(x) \/ Refuse(x) \/ Leave(x)
             \/ Accept(x) \/ Duplicate(x) \/ Reject(x)
      PROVE  snaps' = snaps
  BY <1>1 DEF Register, Refuse, Leave, Accept, Duplicate, Reject, Pushing
<1>2. ASSUME \/ \E b \in Batches : Begin(b)
             \/ \E c \in Classes, names \in Recipes :
                  PutTemplate(c, names) \/ PutTemplateUnsaved(c, names)
             \/ Finish \/ Crash \/ UNCHANGED vars
      PROVE  snaps' = snaps
  BY <1>2 DEF Begin, PutTemplate, PutTemplateUnsaved, Finish, Crash, vars
<1> QED
  BY <1>1, <1>2 DEF Next, Turn

LEMMA NextSaved ==
  ASSUME StoreOK, Memory, BatchOK, LearnedIsSaved, [Next]_vars
  PROVE  LearnedIsSaved'
<1> SUFFICES ASSUME faults' = 0
             PROVE  \A x \in DOMAIN mem' : Saved(snaps', x, mem'[x].base)
  BY DEF LearnedIsSaved, Saved
<1>1. faults \in Nat /\ job \in JobType /\ MemoryOK
  BY IngestAssumption DEF StoreOK, BatchOK, Memory
<1>2. ~ Fault /\ ~ Restarts
  BY <1>1 DEF Fault, Restarts
<1>3. faults = 0
  <2>1. faults' = faults \/ Fault
    <3>1. ASSUME NEW x \in Assets,
                 \/ Register(x) \/ Refuse(x) \/ Leave(x)
                 \/ Accept(x) \/ Duplicate(x) \/ Reject(x)
          PROVE  faults' = faults
      BY <3>1 DEF Register, Refuse, Leave, Accept, Duplicate, Reject, Pushing
    <3>2. ASSUME NEW x \in Assets, Evaluate(x)
          PROVE  faults' = faults \/ Fault
      BY <3>2 DEF Evaluate, LearnUnsaved, NoChange, Withhold, Fire, FireUnsaved, HoldUnread,
         Clear, ClearUnsaved, GoesOn, Fails
    <3>3. ASSUME \/ \E b \in Batches : Begin(b)
                 \/ \E c \in Classes, names \in Recipes :
                      PutTemplate(c, names) \/ PutTemplateUnsaved(c, names)
                 \/ \E x \in Assets : Feedback(x)
                 \/ Finish \/ Crash \/ UNCHANGED vars
          PROVE  faults' = faults \/ Fault
      BY <3>3 DEF Begin, PutTemplate, PutTemplateUnsaved, Feedback, Finish, Crash, vars
    <3> QED
      BY <3>1, <3>2, <3>3 DEF Next, Turn
  <2> QED
    BY <1>2, <2>1
<1>4. \A x \in DOMAIN mem : Saved(snaps, x, mem[x].base)
  BY <1>3, SavedIsAll
<1>5. \A x \in DOMAIN mem : /\ mem[x].src = "asset" \/ Own(mem[x].base) = {}
                            /\ IsAsset(mem[x])
  BY <1>1 DEF MemoryOK, AssetOK
<1>6. ASSUME NEW x \in Assets, Evaluate(x)
      PROVE  \A y \in DOMAIN mem' : Saved(snaps', y, mem'[y].base)
  <2>1. PICK r, n :
           /\ x \in DOMAIN mem /\ mem' = [mem EXCEPT ![x] = r] /\ r.base = n.base
           /\ \/ snaps' = snaps /\ n.base = mem[x].base
              \/ snaps' = With(snaps, x, Snapshot(n)) /\ n.src = "asset"
    BY <1>1, <1>2, <1>6, EvaluateSaves
  <2>2. /\ DOMAIN mem' = DOMAIN mem /\ mem'[x].base = n.base
        /\ \A y \in DOMAIN mem : y # x => mem'[y] = mem[y]
    BY <2>1
  <2>3. CASE snaps' = snaps /\ n.base = mem[x].base
    BY <1>4, <2>1, <2>2, <2>3
  <2>4. CASE snaps' = With(snaps, x, Snapshot(n)) /\ n.src = "asset"
    <3>1. /\ Saved(snaps', x, n.base)
          /\ \A y \in DOMAIN snaps : \A base : y # x /\ Saved(snaps, y, base) => Saved(snaps', y, base)
          /\ \A y, base : Own(base) = {} => Saved(snaps', y, base)
      BY <2>4, SnapshotSaves
    <3>2. ASSUME NEW y \in DOMAIN mem, y # x
          PROVE  Saved(snaps', y, mem[y].base)
      <4>1. y \in DOMAIN snaps \/ Own(mem[y].base) = {}
        BY <1>4 DEF Saved
      <4> QED
        BY <1>4, <3>1, <3>2, <4>1
    <3> QED
      BY <2>2, <3>1, <3>2
  <2> QED
    BY <2>1, <2>3, <2>4
<1>7. ASSUME NEW x \in Assets, Feedback(x)
      PROVE  \A y \in DOMAIN mem' : Saved(snaps', y, mem'[y].base)
  <2>1. x \in DOMAIN mem /\ mem' = mem /\ snaps' = With(snaps, x, Snapshot(mem[x]))
    BY <1>7 DEF Feedback
  <2>2. /\ Saved(snaps', x, mem[x].base)
        /\ \A y \in DOMAIN snaps : \A base : y # x /\ Saved(snaps, y, base) => Saved(snaps', y, base)
        /\ \A y, base : Own(base) = {} => Saved(snaps', y, base)
    BY <1>5, <2>1, SnapshotSaves
  <2>3. ASSUME NEW y \in DOMAIN mem, y # x
        PROVE  Saved(snaps', y, mem[y].base)
    <3>1. y \in DOMAIN snaps \/ Own(mem[y].base) = {}
      BY <1>4 DEF Saved
    <3> QED
      BY <1>4, <2>2, <2>3, <3>1
  <2> QED
    BY <2>1, <2>2, <2>3
<1>8. ASSUME snaps' = snaps, Remembers
      PROVE  \A y \in DOMAIN mem' : Saved(snaps', y, mem'[y].base)
  BY <1>4, <1>8 DEF Remembers
<1>9. ASSUME snaps' = snaps, NEW x, NEW c, Registers(x, c)
      PROVE  \A y \in DOMAIN mem' : Saved(snaps', y, mem'[y].base)
  <2> DEFINE new == NewAsset(c, <<>>, recipe[c])
  <2>1. mem' = [y \in DOMAIN mem \cup {x} |-> IF y = x THEN new ELSE mem[y]] /\ x \notin DOMAIN mem
    BY <1>9 DEF Registers, With
  <2>2. Own(new.base) = {}
    <3>1. new.base = Merged(<<>>, recipe[c])
      BY NewAssetFields
    <3>2. Own(Merged(<<>>, recipe[c])) \subseteq Own(<<>>)
      BY MergedBase
    <3>3. DOMAIN <<>> = {}
      OBVIOUS
    <3> QED
      BY <3>1, <3>2, <3>3 DEF Own
  <2> HIDE DEF new
  <2>3. Saved(snaps', x, new.base)
    BY <2>2 DEF Saved
  <2> QED
    BY <1>4, <1>9, <2>1, <2>3
<1>10. ASSUME snaps' = snaps, NEW x, NEW m, Takes(x, m)
       PROVE  \A y \in DOMAIN mem' : Saved(snaps', y, mem'[y].base)
  <2> DEFINE new == Pushed(mem[x], m)
  <2>1. x \in DOMAIN mem /\ mem' = [mem EXCEPT ![x] = new]
    BY <1>10 DEF Takes
  <2>2. new.base = mem[x].base
    <3>1. IsAsset(mem[x])
      BY <1>5, <2>1
    <3> QED
      BY <3>1, PushedKeeps
  <2> HIDE DEF new
  <2>3. DOMAIN mem' = DOMAIN mem /\ \A y \in DOMAIN mem : mem'[y].base = mem[y].base
    BY <2>1, <2>2
  <2> QED
    BY <1>4, <1>10, <2>3
<1>11. ASSUME snaps' = snaps, NEW c, NEW names, Retemplates(c, names)
       PROVE  \A y \in DOMAIN mem' : Saved(snaps', y, mem'[y].base)
  <2>1. mem' = [x \in DOMAIN mem |->
                 IF mem[x].class = c THEN Rebuilt(mem[x], Kept(mem[x]), names) ELSE mem[x]]
    BY <1>11 DEF Retemplates
  <2>2. ASSUME NEW x \in DOMAIN mem
        PROVE  Own(mem'[x].base) \subseteq Own(mem[x].base)
    <3>1. Rebuilt(mem[x], Kept(mem[x]), names).base = Merged(Kept(mem[x]), names)
      BY <1>5, RebuiltFields
    <3>2. Own(Merged(Kept(mem[x]), names)) \subseteq Own(mem[x].base)
      BY MergedBase, KeptIsOwn
    <3> QED
      BY <2>1, <3>1, <3>2
  <2>3. ASSUME NEW x \in DOMAIN mem
        PROVE  Saved(snaps, x, mem'[x].base)
    <3>1. Saved(snaps, x, mem[x].base) /\ Own(mem'[x].base) \subseteq Own(mem[x].base)
      BY <1>4, <2>2
    <3> QED
      BY <3>1 DEF Saved
  <2>4. DOMAIN mem' = DOMAIN mem
    BY <2>1
  <2> QED
    BY <1>11, <2>3, <2>4
<1>12. CASE \E x \in Assets : Evaluate(x) \/ Feedback(x)
  BY <1>6, <1>7, <1>12
<1>13. CASE ~ \E x \in Assets : Evaluate(x) \/ Feedback(x)
  <2>1. snaps' = snaps
    BY <1>13, SnapsSteps
  <2>2. ~ \E x, r : Evaluates(x, r)
    BY <1>13 DEF Evaluates
  <2> QED
    BY <1>1, <1>2, <1>8, <1>9, <1>10, <1>11, <2>1, <2>2, Effects
<1> QED
  BY <1>12, <1>13

-----------------------------------------------------------------------------
(* The invariant and what follows from it.                                 *)

Core == StoreOK /\ Memory /\ BatchOK /\ AnsweredMeansTaken /\ LearnedIsSaved

LEMMA InitCore ==
  Init => Core
<1> SUFFICES ASSUME Init
             PROVE  Core
  OBVIOUS
<1>1. DOMAIN <<>> = {} /\ <<>> = [x \in {} |-> x]
  OBVIOUS
<1>2. mem = <<>> /\ snaps = <<>> /\ alerts = {} /\ rejected = {} /\ job = Idle
      /\ accepted = NoSamples /\ taken = NoSamples
      /\ recipe \in [Classes -> Recipes] /\ stored = recipe
      /\ answers = [b \in Batches |-> "none"]
      /\ updates = [c \in Classes |-> 0] /\ faults = 0
  BY DEF Init
<1>3. StoreOK
  BY <1>1, <1>2, IngestAssumption DEF StoreOK
<1>4. DOMAIN mem = {}
  BY <1>1, <1>2
<1>5. mem = [x \in DOMAIN mem |-> mem[x]]
  BY <1>1, <1>2
<1>6. MemoryOK
  BY <1>4, <1>5 DEF MemoryOK
<1>7. HistoryOK
  BY <1>2, <1>4, NoSamplesType DEF HistoryOK
<1>8. SamplesInOrder
  BY <1>1, <1>2, NoSamplesType DEF SamplesInOrder
<1>9. WindowsHoldLatest
  BY <1>4 DEF WindowsHoldLatest
<1>10. BatchOK
  BY <1>2, IdleIsJob DEF BatchOK
<1>11. AnsweredMeansTaken
  BY <1>2 DEF AnsweredMeansTaken
<1>12. LearnedIsSaved
  BY <1>4 DEF LearnedIsSaved
<1> QED
  BY <1>3, <1>6, <1>7, <1>8, <1>9, <1>10, <1>11, <1>12 DEF Core, Memory

\* What Core says of the engine's memory, of the store and of the batch is kept by
\* every step: by each of its actions, and by a crash between any two of them.
THEOREM CoreInvariant == Spec => []Core
<1>1. Core /\ [Next]_vars => Core'
  <2> SUFFICES ASSUME Core, [Next]_vars
               PROVE  Core'
    OBVIOUS
  <2>1. StoreOK /\ Memory /\ BatchOK /\ AnsweredMeansTaken /\ LearnedIsSaved /\ MemoryOK
        /\ job \in JobType
    BY DEF Core, Memory, BatchOK
  <2>2. StoreOK'
    BY <2>1, NextStore
  <2>3. Memory'
    BY <2>1, NextMemory
  <2>4. BatchOK'
    BY <2>1, NextBatch
  <2>5. AnsweredMeansTaken'
    BY <2>1, NextAnswer
  <2>6. LearnedIsSaved'
    BY <2>1, NextSaved
  <2> QED
    BY <2>2, <2>3, <2>4, <2>5, <2>6 DEF Core
<1> QED
  BY <1>1, InitCore, PTL DEF Spec

LEMMA CoreTypeOK ==
  Core => TypeOK
<1> SUFFICES ASSUME Core
             PROVE  TypeOK
  OBVIOUS
<1>1. StoreOK /\ MemoryOK /\ job \in JobType
  BY DEF Core, Memory, BatchOK
<1>2. ASSUME NEW x \in DOMAIN mem
      PROVE  /\ mem[x].class \in Classes /\ mem[x].src \in {"class", "asset"}
             /\ DOMAIN mem[x].base \subseteq recipe[mem[x].class]
             /\ mem[x].seen \in 0..Warmup /\ mem[x].lastEval \in 0..Horizon
             /\ \A s \in Signals : IsWindow(mem[x].win[s], Specs[s].window)
             /\ mem[x].hst.seen \in 0..HstWindow - 1 /\ mem[x].hst.ready \in BOOLEAN
             /\ mem[x].marks \in [Streams -> 0..Horizon]
             /\ mem[x].phase \in {"quiet", "alerted", "withheld"} /\ mem[x].open \in 0..Horizon
  <2>1. AssetOK(mem[x], recipe[mem[x].class])
    BY <1>1 DEF MemoryOK
  <2> QED
    BY <2>1 DEF AssetOK, ForestOK
<1>3. /\ job.batch \subseteq Batches /\ job.pending \in 0..Horizon
      /\ job.res \in [accepted : Nat, rejected : Nat, duplicates : Nat]
      /\ job.todo \in Seq([asset : Assets, metrics : Seq(Metric)])
  BY <1>1 DEF JobType
<1>4. DOMAIN mem \subseteq Assets
  BY <1>1 DEF MemoryOK
<1> QED
  BY <1>1, <1>2, <1>3, <1>4 DEF TypeOK, StoreOK

\* The engine's memory, the store and the batch in progress have their types,
\* whatever arrives, fails or crashes.
THEOREM TypeCorrect == Spec => []TypeOK
  BY CoreInvariant, CoreTypeOK, PTL

\* What the engine accepts of an asset's signal between two restarts is in order
\* of time and nothing is accepted twice: the high-water marks see to it, although
\* batches overlap, are replayed and break off in the middle.
THEOREM AcceptsInOrder == Spec => []SamplesInOrder
<1>1. Core => SamplesInOrder
  BY DEF Core, Memory
<1> QED
  BY <1>1, CoreInvariant, PTL

\* What the features are computed from is the latest samples that were accepted
\* under the template in force, oldest first.
THEOREM WindowsAreLatest == Spec => []WindowsHoldLatest
<1>1. Core => WindowsHoldLatest
  BY DEF Core, Memory
<1> QED
  BY <1>1, CoreInvariant, PTL

\* The detectors hold nothing that was standardised with other baselines than
\* those in force, and the forest's windows are as full as it says.
THEOREM DetectorsMatch == Spec => []DetectorsMatchBaselines
<1>1. Core => DetectorsMatchBaselines
  <2> SUFFICES ASSUME Core, NEW x \in DOMAIN mem
               PROVE  /\ Range(mem[x].hst.latest) \cup Range(mem[x].hst.reference)
                           \cup mem[x].cusum \subseteq {mem[x].base}
                      /\ Len(mem[x].hst.latest) = mem[x].hst.seen
                      /\ Len(mem[x].hst.reference)
                           = IF mem[x].hst.ready THEN HstWindow ELSE 0
    BY DEF DetectorsMatchBaselines
  <2>1. AssetOK(mem[x], recipe[mem[x].class])
    BY DEF Core, Memory, MemoryOK
  <2>2. ForestOK(mem[x].hst, mem[x].base) /\ mem[x].cusum \subseteq {mem[x].base}
    BY <2>1 DEF AssetOK
  <2>3. \A base : \A q \in Seq({base}) : Range(q) \subseteq {base}
    BY DEF Range
  <2>4. /\ Range(mem[x].hst.latest) \subseteq {mem[x].base}
        /\ Range(mem[x].hst.reference) \subseteq {mem[x].base}
    BY <2>2, <2>3 DEF ForestOK
  <2> QED
    BY <2>2, <2>4 DEF ForestOK
<1> QED
  BY <1>1, CoreInvariant, PTL

\* A batch that was answered without an error has been taken in whole, and one that
\* was answered as a bad request has been rejected whole.
THEOREM AnswersAreHonest == Spec => []AnsweredMeansTaken
<1>1. Core => AnsweredMeansTaken
  BY DEF Core
<1> QED
  BY <1>1, CoreInvariant, PTL

\* While no store call has failed, everything an asset has learned is in its
\* snapshot.
THEOREM LearnedSurvives == Spec => []LearnedIsSaved
<1>1. Core => LearnedIsSaved
  BY DEF Core
<1> QED
  BY <1>1, CoreInvariant, PTL

\* The result of a batch accounts for each of its metrics.
THEOREM MetricsAreCounted == Spec => []EveryMetricCounted
<1>1. Core => EveryMetricCounted
  <2> SUFFICES ASSUME Core
               PROVE  EveryMetricCounted
    OBVIOUS
  <2>1. BatchOK
    BY DEF Core
  <2>2. CASE job = Idle
    BY <2>2 DEF EveryMetricCounted, Idle
  <2>3. CASE job # Idle
    <3>1. PICK b \in Batches : job.batch = {b} /\ CountOK(Content[b])
      BY <2>1, <2>3 DEF BatchOK
    <3> QED
      BY <3>1 DEF EveryMetricCounted, CountOK
  <2> QED
    BY <2>2, <2>3
<1> QED
  BY <1>1, CoreInvariant, PTL

-----------------------------------------------------------------------------
(* Evaluations.                                                            *)

\* The time of an asset's last evaluation moves forward in an evaluation only.
LEMMA LaterIsEvaluation ==
  ASSUME StoreOK, MemoryOK, job \in JobType, [Next]_vars,
         NEW x \in DOMAIN mem, x \in DOMAIN mem', mem'[x].lastEval > mem[x].lastEval
  PROVE  Evaluates(x, mem'[x])
<1>1. /\ \A y \in DOMAIN mem : IsAsset(mem[y]) /\ mem[y].lastEval \in Nat
      /\ \A y \in DOMAIN snaps : snaps[y].class \in Classes
  BY IngestAssumption DEF MemoryOK, AssetOK, StoreOK
<1>2. mem'[x].lastEval # mem[x].lastEval /\ mem'[x].lastEval # 0
  BY <1>1
<1>3. ~ Remembers
  BY <1>2 DEF Remembers
<1>4. ~ Restarts
  <2> SUFFICES ASSUME Restarts
               PROVE  FALSE
    OBVIOUS
  <2>1. mem' = [y \in DOMAIN snaps |->
                 NewAsset(snaps[y].class, snaps[y].base, stored[snaps[y].class])]
    BY DEF Restarts
  <2>2. NewAsset(snaps[x].class, snaps[x].base, stored[snaps[x].class]).lastEval = 0
    BY NewAssetFields
  <2> QED
    BY <1>2, <2>1, <2>2
<1>5. ~ \E y, c : Registers(y, c)
  <2> SUFFICES ASSUME NEW y, NEW c, Registers(y, c)
               PROVE  FALSE
    OBVIOUS
  <2> DEFINE new == NewAsset(c, <<>>, recipe[c])
  <2>1. y \notin DOMAIN mem
        /\ mem' = [z \in DOMAIN mem \cup {y} |-> IF z = y THEN new ELSE mem[z]]
    BY DEF Registers, With
  <2> HIDE DEF new
  <2> QED
    BY <1>2, <2>1
<1>6. ~ \E y, m : Takes(y, m)
  <2> SUFFICES ASSUME NEW y, NEW m, Takes(y, m)
               PROVE  FALSE
    OBVIOUS
  <2> DEFINE new == Pushed(mem[y], m)
  <2>1. y \in DOMAIN mem /\ mem' = [mem EXCEPT ![y] = new]
    BY DEF Takes
  <2>2. new.lastEval = mem[y].lastEval
    <3>1. IsAsset(mem[y])
      BY <1>1, <2>1
    <3> QED
      BY <3>1, PushedKeeps
  <2> HIDE DEF new
  <2> QED
    BY <1>2, <2>1, <2>2
<1>7. ~ \E c, names : Retemplates(c, names)
  <2> SUFFICES ASSUME NEW c, NEW names, Retemplates(c, names)
               PROVE  FALSE
    OBVIOUS
  <2>1. mem' = [y \in DOMAIN mem |->
                 IF mem[y].class = c THEN Rebuilt(mem[y], Kept(mem[y]), names) ELSE mem[y]]
    BY DEF Retemplates
  <2>2. Rebuilt(mem[x], Kept(mem[x]), names).lastEval = 0
    BY <1>1, RebuiltFields
  <2> QED
    BY <1>2, <2>1, <2>2
<1>8. PICK y, r : Evaluates(y, r)
  BY <1>3, <1>4, <1>5, <1>6, <1>7, Effects
<1>9. y \in DOMAIN mem /\ mem' = [mem EXCEPT ![y] = r]
  BY <1>8 DEF Evaluates
<1>10. y = x /\ mem'[x] = r
  BY <1>2, <1>9
<1> QED
  BY <1>8, <1>10

\* No asset is evaluated before each of its windows has as many samples as it
\* needs, taken in under the template in force.
THEOREM ReadyToEvaluate == Spec => EvaluationsAreReady
<1>1. ASSUME Core, [Next]_vars, NEW x \in DOMAIN mem, x \in DOMAIN mem',
             mem'[x].lastEval > mem[x].lastEval, NEW s \in Signals
      PROVE  Len(taken[x][s]) >= Needed(s)
  <2>1. StoreOK /\ MemoryOK /\ HistoryOK /\ WindowsHoldLatest /\ job \in JobType
    BY <1>1 DEF Core, Memory, BatchOK
  <2>2. Ready(x)
    BY <1>1, <2>1, LaterIsEvaluation DEF Evaluates, Due
  <2>3. Held(mem[x].win[s]) >= Needed(s) /\ Needed(s) \in Nat
    BY <2>2, NeededIsPositive DEF Ready
  <2>4. /\ IsWindow(mem[x].win[s], Specs[s].window) /\ Specs[s].window \in Nat \ {0}
        /\ Values(mem[x].win[s]) = Latest(taken[x][s], Specs[s].window)
        /\ taken[x][s] \in Seq(Sample)
    BY <1>1, <2>1, IngestAssumption DEF MemoryOK, AssetOK, WindowsHoldLatest, HistoryOK, Streams
  <2>5. Held(mem[x].win[s]) <= Len(taken[x][s]) /\ Len(taken[x][s]) \in Nat
    BY <2>4, HeldIsLength
  <2>6. Held(mem[x].win[s]) \in Nat
    BY <2>4 DEF IsWindow, Held
  <2> QED
    BY <2>3, <2>5, <2>6
<1>2. Core /\ [Next]_vars =>
        [\A x \in DOMAIN mem : x \in DOMAIN mem' /\ mem'[x].lastEval > mem[x].lastEval =>
           \A s \in Signals : Len(taken[x][s]) >= Needed(s)]_vars
  BY <1>1
<1> QED
  BY <1>2, CoreInvariant, PTL DEF Spec, EvaluationsAreReady

\* An evaluation has before it the metrics of the batch up to its time and none of
\* the later ones, whatever order they came in.
THEOREM SnapshotsOfTheBatch == Spec => EvaluationsAreSnapshots
<1>1. ASSUME Core, [Next]_vars, NEW x \in DOMAIN mem, x \in DOMAIN mem',
             mem'[x].lastEval > mem[x].lastEval,
             NEW b \in job.batch, NEW m \in Range(Content[b]),
             m.asset = x, m.check # "invalid"
      PROVE  m \in Range(Queue) <=> m.ts > mem'[x].lastEval
  <2>1. StoreOK /\ MemoryOK /\ BatchOK /\ job \in JobType
    BY <1>1 DEF Core, Memory, BatchOK
  <2>2. /\ Working(x) /\ (Queue # <<>> => Head(Queue).ts > job.pending)
        /\ mem'[x].lastEval = job.pending
    <3>1. Evaluates(x, mem'[x])
      BY <1>1, <2>1, LaterIsEvaluation
    <3> QED
      BY <3>1 DEF Evaluates, Evaluation, Due
  <2>3. job # Idle
    BY <2>2 DEF Working, Idle
  <2>4. PICK c \in Batches : job.batch = {c} /\ QueuesOK(Content[c]) /\ TurnsOK(Content[c])
    BY <2>1, <2>3 DEF BatchOK
  <2>5. b = c
    BY <2>4
  <2>6. /\ 1 \in DOMAIN job.todo /\ job.todo[1].asset = x
        /\ Queue = job.todo[1].metrics /\ Queue \in Seq(Metric)
        /\ Queue # <<>> => Head(Queue) \in Metric
    BY <2>1, <2>2, HeadOfQueue
  <2>7. m \in Range(Queue) \/ m.ts <= job.pending
    BY <1>1, <2>4, <2>5, <2>6 DEF TurnsOK
  <2>8. m.ts \in Nat /\ job.pending \in Nat
    <3>1. m \in Metric
      BY <2>4, <2>5, IngestAssumption DEF Range
    <3> QED
      BY <2>1, <3>1, IngestAssumption DEF Metric, JobType
  <2>9. m \in Range(Queue) => m.ts > job.pending
    <3> SUFFICES ASSUME m \in Range(Queue)
                 PROVE  m.ts > job.pending
      OBVIOUS
    <3>1. Queue # <<>>
      BY DEF Range
    <3>2. InTimeOrder(Queue)
      BY <2>4, <2>6 DEF QueuesOK
    <3>3. Head(Queue).ts <= m.ts
      BY <2>6, <3>1, <3>2, TailInOrder
    <3>4. Head(Queue).ts \in Nat
      BY <2>6, <3>1, IngestAssumption DEF Metric
    <3> QED
      BY <2>2, <2>8, <3>1, <3>3, <3>4
  <2> QED
    BY <2>2, <2>7, <2>8, <2>9
<1>2. Core /\ [Next]_vars =>
        [\A x \in DOMAIN mem : x \in DOMAIN mem' /\ mem'[x].lastEval > mem[x].lastEval =>
           \A m \in UNION {Range(Content[b]) : b \in job.batch} :
             m.asset = x /\ m.check # "invalid" =>
               (m \in Range(Queue) <=> m.ts > mem'[x].lastEval)]_vars
  BY <1>1
<1> QED
  BY <1>2, CoreInvariant, PTL DEF Spec, EvaluationsAreSnapshots

\* The evaluation that ends an asset's warm-up learns a baseline for every feature
\* of its template.
THEOREM LearnsWholeTemplate == Spec => LearnsEveryFeature
<1>1. ASSUME Core, [Next]_vars, NEW x \in DOMAIN mem \cap DOMAIN mem',
             mem[x].src = "class", mem'[x].src = "asset",
             mem'[x].lastEval > mem[x].lastEval
      PROVE  Own(mem'[x].base) = recipe[mem[x].class]
  <2>1. StoreOK /\ MemoryOK /\ job \in JobType
    BY <1>1 DEF Core, Memory, BatchOK
  <2>2. Evaluates(x, mem'[x])
    BY <1>1, <2>1, LaterIsEvaluation
  <2>3. Evaluation(mem[x], mem'[x], job.pending, recipe[mem[x].class])
    BY <2>2 DEF Evaluates
  <2> QED
    BY <1>1, <2>3 DEF Evaluation
<1>2. Core /\ [Next]_vars =>
        [\A x \in DOMAIN mem \cap DOMAIN mem' :
           mem[x].src = "class" /\ mem'[x].src = "asset" /\ mem'[x].lastEval > mem[x].lastEval =>
              Own(mem'[x].base) = recipe[mem[x].class]]_vars
  BY <1>1
<1> QED
  BY <1>2, CoreInvariant, PTL DEF Spec, LearnsEveryFeature

=============================================================================
