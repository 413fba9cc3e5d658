---------------------------- MODULE WindowProof ----------------------------
(***************************************************************************)
(* What the ring buffer of Window holds, for every capacity and all samples*)
(* ever pushed: the latest of them, oldest first.                          *)
(***************************************************************************)
EXTENDS Window, FiniteSetTheorems, WellFoundedInduction, TLAPS

\* The slots of a window are as many as it can hold.
LEMMA CapacityOf ==
  ASSUME NEW w, NEW capacity \in Nat \ {0}, IsWindow(w, capacity)
  PROVE  Capacity(w) = capacity
<1>1. 0 \in Int /\ capacity - 1 \in Int
  OBVIOUS
<1>2. Cardinality(0..capacity - 1) = capacity
  BY <1>1, FS_Interval
<1> QED
  BY <1>2 DEF IsWindow, Capacity

\* A new window has no samples in it, whatever its slots hold.
THEOREM NewWindowIsEmpty ==
  ASSUME NEW capacity \in Nat \ {0}, NEW zero
  PROVE  /\ IsWindow(NewWindow(capacity, zero), capacity)
         /\ Values(NewWindow(capacity, zero)) = Latest(<<>>, capacity)
<1> DEFINE w == NewWindow(capacity, zero)
<1>1. IsWindow(w, capacity) /\ w.n = 0
  BY DEF NewWindow, IsWindow
<1>2. Capacity(w) = capacity
  BY <1>1, CapacityOf
<1>3. Values(w) = <<>>
  BY <1>1, <1>2 DEF Values
<1> QED
  BY <1>1, <1>3 DEF Latest

\* The head of a window wraps when it leaves the last slot.
LEMMA PushIsWindow ==
  ASSUME NEW w, NEW capacity \in Nat \ {0}, IsWindow(w, capacity), NEW v
  PROVE  /\ IsWindow(Push(w, v), capacity)
         /\ Push(w, v).head = IF w.head + 1 = capacity THEN 0 ELSE w.head + 1
         /\ Push(w, v).n = IF w.n < capacity THEN w.n + 1 ELSE capacity
         /\ Push(w, v).buf = [w.buf EXCEPT ![w.head] = v]
<1>1. Capacity(w) = capacity
  BY CapacityOf
<1>2. w.head \in 0..capacity - 1 /\ w.n \in 0..capacity /\ DOMAIN w.buf = 0..capacity - 1
      /\ (w.n < capacity => w.head = w.n)
  BY DEF IsWindow
<1>3. (w.head + 1) % capacity = IF w.head + 1 = capacity THEN 0 ELSE w.head + 1
  <2>1. capacity % capacity = 0
    OBVIOUS
  <2>2. \A i \in 0..capacity - 1 : i % capacity = i
    OBVIOUS
  <2> QED
    BY <1>2, <2>1, <2>2
<1>4. /\ Push(w, v).head = IF w.head + 1 = capacity THEN 0 ELSE w.head + 1
      /\ Push(w, v).n = IF w.n < capacity THEN w.n + 1 ELSE capacity
      /\ Push(w, v).buf = [w.buf EXCEPT ![w.head] = v]
  BY <1>1, <1>2, <1>3 DEF Push
<1>5. DOMAIN Push(w, v).buf = 0..capacity - 1
  BY <1>2, <1>4
<1>6. /\ Push(w, v).head \in 0..capacity - 1 /\ Push(w, v).n \in 0..capacity
      /\ (Push(w, v).n < capacity => Push(w, v).head = Push(w, v).n)
  BY <1>2, <1>4
<1> QED
  BY <1>4, <1>5, <1>6 DEF IsWindow

\* The slot of the i-th oldest sample, in a full window and in one that is not.
Slot(head, capacity, i) ==
  IF head + i <= capacity THEN head + i - 1 ELSE head + i - capacity - 1

LEMMA ValuesOfPartial ==
  ASSUME NEW w, NEW capacity \in Nat \ {0}, IsWindow(w, capacity), w.n < capacity
  PROVE  Values(w) = [i \in 1..w.n |-> w.buf[i - 1]]
  BY CapacityOf DEF Values

LEMMA ValuesOfFull ==
  ASSUME NEW w, NEW capacity \in Nat \ {0}, IsWindow(w, capacity), w.n = capacity
  PROVE  Values(w) = [i \in 1..capacity |-> w.buf[Slot(w.head, capacity, i)]]
<1>1. Capacity(w) = capacity
  BY CapacityOf
<1>2. Values(w) = [i \in 1..w.n |-> IF w.head + i <= Capacity(w) THEN w.buf[w.head + i - 1]
                                  ELSE w.buf[w.head + i - Capacity(w) - 1]]
  BY <1>1 DEF Values
<1> QED
  BY <1>1, <1>2 DEF Slot

\* When the head moves on, every sample is one older, and the newest is where
\* the head was.
LEMMA SlotMoves ==
  ASSUME NEW capacity \in Nat \ {0}, NEW head \in 0..capacity - 1, NEW moved,
         moved = IF head + 1 = capacity THEN 0 ELSE head + 1
  PROVE  /\ Slot(moved, capacity, capacity) = head
         /\ \A i \in 1..capacity - 1 :
              /\ Slot(moved, capacity, i) = Slot(head, capacity, i + 1)
              /\ Slot(moved, capacity, i) \in 0..capacity - 1
              /\ Slot(moved, capacity, i) # head
<1>1. CASE head + 1 = capacity
  <2>1. moved = 0
    BY <1>1
  <2> QED
    BY <1>1, <2>1 DEF Slot
<1>2. CASE head + 1 < capacity
  <2>1. moved = head + 1
    BY <1>2
  <2> QED
    BY <1>2, <2>1 DEF Slot
<1> QED
  BY <1>1, <1>2

LEMMA LatestOfFew ==
  ASSUME NEW S, NEW samples \in Seq(S), NEW capacity \in Nat \ {0}, Len(samples) <= capacity
  PROVE  Latest(samples, capacity) = samples
  BY DEF Latest

LEMMA LatestOfMany ==
  ASSUME NEW S, NEW samples \in Seq(S), NEW capacity \in Nat \ {0}, Len(samples) >= capacity
  PROVE  Latest(samples, capacity)
           = [i \in 1..capacity |-> samples[Len(samples) - capacity + i]]
<1> DEFINE n == Len(samples)
<1>1. n \in Nat
  OBVIOUS
<1>2. CASE n = capacity
  <2>1. Latest(samples, capacity) = samples
    BY <1>2 DEF Latest
  <2>2. samples = [i \in 1..capacity |-> samples[i]]
    BY <1>2
  <2>3. \A i \in 1..capacity : n - capacity + i = i
    BY <1>1, <1>2
  <2> QED
    BY <2>1, <2>2, <2>3
<1>3. CASE n > capacity
  <2>1. Latest(samples, capacity) = SubSeq(samples, n - capacity + 1, n)
    BY <1>3 DEF Latest
  <2>2. SubSeq(samples, n - capacity + 1, n)
          = [i \in 1..(n - (n - capacity + 1) + 1) |-> samples[i + (n - capacity + 1) - 1]]
    OBVIOUS
  <2>3. n - (n - capacity + 1) + 1 = capacity
    BY <1>1
  <2>4. \A i \in 1..capacity : i + (n - capacity + 1) - 1 = n - capacity + i
    BY <1>1
  <2> QED
    BY <2>1, <2>2, <2>3, <2>4
<1> QED
  BY <1>1, <1>2, <1>3

\* A buffer that stands for the latest of the samples stands, after Push, for the
\* latest of them and the new one: in order, none skipped and none held twice,
\* before the buffer is full, as it fills, and however often it has wrapped.
THEOREM PushKeepsLatest ==
  ASSUME NEW S, NEW samples \in Seq(S), NEW v \in S, NEW capacity \in Nat \ {0}, NEW w,
         IsWindow(w, capacity), Values(w) = Latest(samples, capacity)
  PROVE  /\ IsWindow(Push(w, v), capacity)
         /\ Values(Push(w, v)) = Latest(Append(samples, v), capacity)
<1> DEFINE u == Push(w, v)
           more == Append(samples, v)
           len == Len(samples)
<1>1. /\ w.head \in 0..capacity - 1 /\ w.n \in 0..capacity /\ DOMAIN w.buf = 0..capacity - 1
      /\ (w.n < capacity => w.head = w.n) /\ len \in Nat
  BY DEF IsWindow
<1>2. /\ IsWindow(u, capacity)
      /\ u.head = IF w.head + 1 = capacity THEN 0 ELSE w.head + 1
      /\ u.n = IF w.n < capacity THEN w.n + 1 ELSE capacity
      /\ u.buf = [w.buf EXCEPT ![w.head] = v]
  BY PushIsWindow
<1>3. more \in Seq(S) /\ Len(more) = len + 1 /\ more[len + 1] = v
      /\ \A i \in 1..len : more[i] = samples[i]
  OBVIOUS
<1>4. u.buf[w.head] = v /\ \A j \in 0..capacity - 1 : j # w.head => u.buf[j] = w.buf[j]
  BY <1>1, <1>2
<1> HIDE DEF u, more
<1>5. w.n < capacity => w.n = len /\ len < capacity
  <2> SUFFICES ASSUME w.n < capacity PROVE w.n = len /\ len < capacity
    OBVIOUS
  <2>1. DOMAIN Latest(samples, capacity) = 1..w.n
    BY <1>1, ValuesOfPartial
  <2>2. CASE len <= capacity
    <3>1. DOMAIN samples = 1..w.n
      BY <2>1, <2>2, LatestOfFew
    <3> QED
      BY <1>1, <3>1
  <2>3. CASE len > capacity
    <3>1. 1..w.n = 1..capacity
      BY <1>1, <2>1, <2>3, LatestOfMany
    <3> QED
      BY <1>1, <3>1
  <2> QED
    BY <1>1, <2>2, <2>3
<1>6. w.n = capacity => len >= capacity
  <2> SUFFICES ASSUME w.n = capacity, len < capacity PROVE FALSE
    BY <1>1
  <2>1. DOMAIN Latest(samples, capacity) = 1..capacity
    BY ValuesOfFull
  <2>2. DOMAIN samples = 1..capacity
    BY <1>1, <2>1, LatestOfFew
  <2> QED
    BY <1>1, <2>2
<1>7. CASE w.n < capacity
  <2>1. w.n = len /\ w.head = len /\ u.n = len + 1 /\ len < capacity
    BY <1>1, <1>2, <1>5, <1>7
  <2>2. Latest(samples, capacity) = samples /\ Latest(more, capacity) = more
    BY <1>1, <1>3, <2>1, LatestOfFew
  <2>3. Values(w) = [i \in 1..len |-> w.buf[i - 1]]
    BY <1>7, <2>1, ValuesOfPartial
  <2>4. \A i \in 1..len : w.buf[i - 1] = samples[i]
    BY <2>2, <2>3
  <2>5. ASSUME NEW i \in 1..len + 1
        PROVE  u.buf[i - 1] = more[i]
    <3>1. CASE i = len + 1
      BY <1>1, <1>3, <1>4, <2>1, <3>1
    <3>2. CASE i \in 1..len
      <4>1. i - 1 \in 0..capacity - 1 /\ i - 1 # w.head
        BY <1>1, <2>1, <3>2
      <4> QED
        BY <1>3, <1>4, <2>4, <3>2, <4>1
    <3> QED
      BY <1>1, <3>1, <3>2
  <2>6. more = [i \in 1..len + 1 |-> more[i]]
    BY <1>3
  <2>7. CASE len + 1 < capacity
    <3>1. Values(u) = [i \in 1..len + 1 |-> u.buf[i - 1]]
      BY <1>2, <2>1, <2>7, ValuesOfPartial
    <3> QED
      BY <1>2, <2>2, <2>5, <2>6, <3>1 DEF u, more
  <2>8. CASE len + 1 = capacity
    <3>1. u.head = 0 /\ u.n = capacity
      BY <1>2, <2>1, <2>8
    <3>2. Values(u) = [i \in 1..capacity |-> u.buf[Slot(u.head, capacity, i)]]
      <4>1. IsWindow(u, capacity)
        BY <1>2
      <4> QED
        BY <3>1, <4>1, ValuesOfFull
    <3>3. \A i \in 1..capacity : Slot(u.head, capacity, i) = i - 1
      BY <3>1 DEF Slot
    <3> QED
      BY <1>2, <2>2, <2>5, <2>6, <2>8, <3>2, <3>3 DEF u, more
  <2> QED
    BY <1>1, <2>1, <2>7, <2>8
<1>8. CASE w.n = capacity
  <2>1. len >= capacity /\ u.n = capacity
    BY <1>1, <1>2, <1>6, <1>8
  <2>2. Values(w) = [i \in 1..capacity |-> w.buf[Slot(w.head, capacity, i)]]
    BY <1>8, ValuesOfFull
  <2>3. Latest(samples, capacity) = [i \in 1..capacity |-> samples[len - capacity + i]]
    BY <2>1, LatestOfMany
  <2>4. Values(u) = [i \in 1..capacity |-> u.buf[Slot(u.head, capacity, i)]]
    BY <1>2, <2>1, ValuesOfFull
  <2>5. Latest(more, capacity) = [i \in 1..capacity |-> more[len + 1 - capacity + i]]
    <3>1. Len(more) >= capacity
      BY <1>1, <1>3, <2>1
    <3> QED
      BY <1>3, <3>1, LatestOfMany
  <2>6. /\ Slot(u.head, capacity, capacity) = w.head
        /\ \A i \in 1..capacity - 1 :
             /\ Slot(u.head, capacity, i) = Slot(w.head, capacity, i + 1)
             /\ Slot(u.head, capacity, i) \in 0..capacity - 1
             /\ Slot(u.head, capacity, i) # w.head
    BY <1>1, <1>2, SlotMoves
  <2>7. ASSUME NEW i \in 1..capacity
        PROVE  u.buf[Slot(u.head, capacity, i)] = more[len + 1 - capacity + i]
    <3>1. CASE i = capacity
      <4>1. len + 1 - capacity + i = len + 1
        BY <1>1, <3>1
      <4> QED
        BY <1>3, <1>4, <2>6, <3>1, <4>1
    <3>2. CASE i \in 1..capacity - 1
      <4>1. u.buf[Slot(u.head, capacity, i)] = w.buf[Slot(w.head, capacity, i + 1)]
        BY <1>4, <2>6, <3>2
      <4>2. i + 1 \in 1..capacity /\ len - capacity + (i + 1) = len + 1 - capacity + i
            /\ len + 1 - capacity + i \in 1..len
        <5>1. \A n \in Nat : n >= capacity => /\ n - capacity + (i + 1) = n + 1 - capacity + i
                                             /\ n + 1 - capacity + i \in 1..n
          BY <3>2
        <5>2. len \in Nat /\ len >= capacity
          BY <1>1, <2>1
        <5>3. i + 1 \in 1..capacity
          BY <3>2
        <5> QED
          BY <5>1, <5>2, <5>3
      <4>3. w.buf[Slot(w.head, capacity, i + 1)] = samples[len - capacity + (i + 1)]
        BY <2>2, <2>3, <4>2
      <4> QED
        BY <1>3, <4>1, <4>2, <4>3
    <3> QED
      BY <3>1, <3>2
  <2> QED
    BY <1>2, <2>4, <2>5, <2>7 DEF u, more
<1> QED
  BY <1>1, <1>7, <1>8

-----------------------------------------------------------------------------
\* A set of naturals that is not empty has a least element: what the inductions
\* below use, each on the set of the numbers that its claim fails for.
LEMMA Least ==
  ASSUME NEW T \in SUBSET Nat, T # {}
  PROVE  \E n \in T : \A m \in T : n <= m
<1>1. IsWellFoundedOn(OpToRel(<,Nat), Nat)
  BY NatLessThanWellFounded
<1>2. PICK n \in T : \A m \in T : ~ (<<m, n>> \in OpToRel(<,Nat))
  BY <1>1, WFMin
<1>3. \A m \in T : ~ (m < n)
  BY <1>2 DEF OpToRel
<1> QED
  BY <1>3

\* The windows that PushAll goes through.
Pushes(f, w, samples, n) ==
  f = [k \in 0..n |-> IF k = 0 THEN w ELSE Push(f[k - 1], samples[k])]

LEMMA PushesExist ==
  ASSUME NEW w, NEW S, NEW samples \in Seq(S)
  PROVE  \A n \in Nat : \E f : Pushes(f, w, samples, n)
<1> DEFINE T == {n \in Nat : ~ \E f : Pushes(f, w, samples, n)}
<1> SUFFICES ASSUME T # {} PROVE FALSE
  OBVIOUS
<1>1. PICK n \in T : \A m \in T : n <= m
  BY Least
<1>2. n # 0
  <2> DEFINE f == [k \in 0..0 |-> w]
  <2>1. f = [k \in 0..0 |-> IF k = 0 THEN w ELSE Push(f[k - 1], samples[k])]
    OBVIOUS
  <2> QED
    BY <1>1, <2>1 DEF Pushes
<1>3. n - 1 \in Nat /\ n - 1 \notin T
  BY <1>1, <1>2
<1>4. PICK f : Pushes(f, w, samples, n - 1)
  BY <1>3
<1> DEFINE g == [k \in 0..n |-> IF k = 0 THEN w ELSE Push(f[k - 1], samples[k])]
<1>5. \A k \in 1..n : g[k - 1] = f[k - 1]
  <2> TAKE k \in 1..n
  <2>1. n \in Nat /\ k - 1 \in 0..n /\ k - 1 \in 0..n - 1
    BY <1>1
  <2> QED
    BY <1>4, <2>1 DEF Pushes
<1> HIDE DEF T
<1>6. n \in Nat /\ ~ \E h : Pushes(h, w, samples, n)
  BY <1>1 DEF T
<1>7. g = [k \in 0..n |-> IF k = 0 THEN w ELSE Push(g[k - 1], samples[k])]
  <2>1. \A k \in 0..n : k = 0 \/ k \in 1..n
    BY <1>6
  <2> QED
    BY <1>5, <2>1
<1> QED
  BY <1>6, <1>7 DEF Pushes

LEMMA PushAllIsLast ==
  ASSUME NEW w, NEW S, NEW samples \in Seq(S)
  PROVE  \E f : Pushes(f, w, samples, Len(samples)) /\ PushAll(w, samples) = f[Len(samples)]
<1> DEFINE into == CHOOSE f : Pushes(f, w, samples, Len(samples))
<1>1. PushAll(w, samples) = into[Len(samples)]
  BY DEF PushAll, Pushes
<1>2. Len(samples) \in Nat
  OBVIOUS
<1>3. \E f : Pushes(f, w, samples, Len(samples))
  BY <1>2, PushesExist
<1> QED
  BY <1>1, <1>3

\* A buffer that stands for the latest of the samples stands for the latest of
\* them and of a burst, after every value of the burst, which may be longer than
\* the buffer, has been pushed.
THEOREM PushAllKeepsLatest ==
  ASSUME NEW S, NEW before \in Seq(S), NEW samples \in Seq(S), NEW capacity \in Nat \ {0},
         NEW w, IsWindow(w, capacity), Values(w) = Latest(before, capacity)
  PROVE  /\ IsWindow(PushAll(w, samples), capacity)
         /\ Values(PushAll(w, samples)) = Latest(before \o samples, capacity)
<1> DEFINE len == Len(samples)
           upTo(k) == before \o SubSeq(samples, 1, k)
<1>1. PICK f : Pushes(f, w, samples, len) /\ PushAll(w, samples) = f[len]
  BY PushAllIsLast
<1>2. len \in Nat
  OBVIOUS
<1>3. f[0] = w /\ \A k \in 1..len : f[k] = Push(f[k - 1], samples[k])
  BY <1>1, <1>2 DEF Pushes
<1>4. upTo(0) = before /\ upTo(len) = before \o samples
  OBVIOUS
<1>5. \A k \in 1..len : upTo(k - 1) \in Seq(S) /\ samples[k] \in S
                        /\ upTo(k) = Append(upTo(k - 1), samples[k])
  OBVIOUS
<1> DEFINE holds(k) == IsWindow(f[k], capacity) /\ Values(f[k]) = Latest(upTo(k), capacity)
           T == {k \in 0..len : ~ holds(k)}
<1>6. holds(0)
  BY <1>3, <1>4
<1>7. ASSUME NEW k \in 1..len, holds(k - 1)
      PROVE  holds(k)
  <2> DEFINE v == samples[k]
             given == upTo(k - 1)
             u == f[k - 1]
  <2>1. given \in Seq(S) /\ v \in S /\ upTo(k) = Append(given, v) /\ f[k] = Push(u, v)
    BY <1>3, <1>5
  <2>2. IsWindow(u, capacity) /\ Values(u) = Latest(given, capacity)
    BY <1>7
  <2> HIDE DEF v, given, u
  <2>3. IsWindow(Push(u, v), capacity) /\ Values(Push(u, v)) = Latest(Append(given, v), capacity)
    BY <2>1, <2>2, PushKeepsLatest
  <2> QED
    BY <2>1, <2>3
<1> HIDE DEF holds
<1>8. T = {}
  <2> SUFFICES ASSUME T # {} PROVE FALSE
    OBVIOUS
  <2>1. T \in SUBSET Nat
    BY <1>2
  <2>2. PICK k \in T : \A m \in T : k <= m
    BY <2>1, Least
  <2>3. k \in 1..len /\ ~ holds(k)
    BY <1>2, <1>6, <2>2
  <2>4. k - 1 \notin T /\ k - 1 \in 0..len
    BY <1>2, <2>2, <2>3
  <2> QED
    BY <1>7, <2>3, <2>4
<1>9. holds(len)
  BY <1>2, <1>8
<1> QED
  BY <1>1, <1>4, <1>9 DEF holds

\* A window holds as many of the samples pushed as it has room for.
LEMMA HeldIsLength ==
  ASSUME NEW S, NEW samples \in Seq(S), NEW capacity \in Nat \ {0}, NEW w,
         IsWindow(w, capacity), Values(w) = Latest(samples, capacity)
  PROVE  Held(w) <= Len(samples)
<1>1. w.n \in 0..capacity /\ Len(samples) \in Nat
  BY DEF IsWindow
<1>2. CASE Len(samples) >= capacity
  BY <1>1, <1>2 DEF Held
<1>3. CASE Len(samples) < capacity
  <2>1. Values(w) = samples
    BY <1>3, LatestOfFew
  <2>2. CASE w.n < capacity
    <3>1. DOMAIN samples = 1..w.n
      BY <2>1, <2>2, ValuesOfPartial
    <3> QED
      BY <1>1, <3>1 DEF Held
  <2>3. CASE w.n = capacity
    <3>1. DOMAIN samples = 1..capacity
      BY <2>1, <2>3, ValuesOfFull
    <3> QED
      BY <1>1, <2>3, <3>1 DEF Held
  <2> QED
    BY <1>1, <2>2, <2>3
<1> QED
  BY <1>1, <1>2, <1>3
=============================================================================
