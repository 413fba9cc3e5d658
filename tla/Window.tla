------------------------------- MODULE Window -------------------------------
(***************************************************************************)
(* features.Window: the ring buffer that holds the latest samples of one   *)
(* signal.  A window is a record of its slots, the slot that is written    *)
(* next and the number of samples it holds.                                *)
(***************************************************************************)
EXTENDS Naturals, Sequences, FiniteSets

\* NewWindow.  The slots of a Go slice start as zeroes.
NewWindow(capacity, zero) ==
  LET size == IF capacity < 1 THEN 1 ELSE capacity
  IN [buf |-> [i \in 0..size - 1 |-> zero], head |-> 0, n |-> 0]

Capacity(w) == Cardinality(DOMAIN w.buf)
Held(w) == w.n

\* Mutant: the head stays in the last slot.
PushClamped(w, v) ==
  [buf  |-> [w.buf EXCEPT ![w.head] = v],
   head |-> IF w.head + 1 < Capacity(w) THEN w.head + 1 ELSE w.head,
   n    |-> IF w.n < Capacity(w) THEN w.n + 1 ELSE w.n]

Push(w, v) ==
  [buf  |-> [w.buf EXCEPT ![w.head] = v],
   head |-> (w.head + 1) % Capacity(w),
   n    |-> IF w.n < Capacity(w) THEN w.n + 1 ELSE w.n]

\* What a series of samples leaves of a window.
PushAll(w, samples) ==
  LET into[k \in 0..Len(samples)] == IF k = 0 THEN w ELSE Push(into[k - 1], samples[k])
  IN into[Len(samples)]

\* Oldest first: in a window that is not full the oldest is in the first slot,
\* in a full one at the head.
Values(w) ==
  IF w.n < Capacity(w)
  THEN [i \in 1..w.n |-> w.buf[i - 1]]
  ELSE [i \in 1..w.n |->
         IF w.head + i <= Capacity(w) THEN w.buf[w.head + i - 1]
                                      ELSE w.buf[w.head + i - Capacity(w) - 1]]

\* The shape of a window of some capacity.
IsWindow(w, capacity) ==
  /\ DOMAIN w.buf = 0..capacity - 1
  /\ w.head \in 0..capacity - 1 /\ w.n \in 0..capacity
  /\ w.n < capacity => w.head = w.n

\* What a window stands for: the last samples of all that were pushed.
Latest(samples, capacity) ==
  IF Len(samples) <= capacity THEN samples
  ELSE SubSeq(samples, Len(samples) - capacity + 1, Len(samples))
=============================================================================
