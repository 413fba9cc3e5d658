------------------------- MODULE SlidingWindowProof -------------------------
(***************************************************************************)
(* What prune computes, for every list of events: lemmas for the proofs    *)
(* about the limiters of a site and of an asset.                           *)
(***************************************************************************)
EXTENDS SlidingWindow, WellFoundedInduction, SequenceTheorems, TLAPS

\* A nonempty set of natural numbers has a least element.
LEMMA LeastElement ==
  ASSUME NEW T, T \subseteq Nat, T # {}
  PROVE  \E m \in T : \A n \in T : m <= n
<1>1. IsWellFoundedOn(OpToRel(<, Nat), Nat)
  BY NatLessThanWellFounded, Zenon
<1>2. \E m \in T : \A n \in T : ~ (<<n, m>> \in OpToRel(<, Nat))
  BY <1>1, WFMin, Zenon
<1>3. OpToRel(<, Nat) = {ss \in Nat \X Nat : ss[1] < ss[2]}
  BY Zenon DEF OpToRel
<1>4. PICK m \in T : \A n \in T : ~ (<<n, m>> \in {ss \in Nat \X Nat : ss[1] < ss[2]})
  BY <1>2, <1>3, Zenon
<1>5. ASSUME NEW n \in T PROVE m <= n
  <2>1. ~ (<<n, m>> \in {ss \in Nat \X Nat : ss[1] < ss[2]}) /\ m \in Nat /\ n \in Nat
    BY <1>4
  <2> QED
    BY <2>1
<1> QED
  BY <1>5

\* prune's loop stops at the first event inside the window.
LEMMA FirstLiveIsFirst ==
  ASSUME NEW evs \in Seq(Nat), NEW now \in Nat, NEW w \in Nat
  PROVE  /\ FirstLive(evs, now, w) \in 1..Len(evs) + 1
         /\ \A j \in 1..FirstLive(evs, now, w) - 1 : ~ InWindow(evs[j], now, w)
         /\ FirstLive(evs, now, w) <= Len(evs)
              => InWindow(evs[FirstLive(evs, now, w)], now, w)
<1> DEFINE Stop == {i \in 1..Len(evs) + 1 : i <= Len(evs) => InWindow(evs[i], now, w)}
<1>1. Stop \subseteq Nat /\ Len(evs) + 1 \in Stop
  OBVIOUS
<1>2. PICK m \in Stop : \A n \in Stop : m <= n
  <2> HIDE DEF Stop
  <2> QED
    BY <1>1, LeastElement
<1>3. \A j \in 1..m - 1 : ~ InWindow(evs[j], now, w)
  BY <1>2
<1> QED
  BY <1>2, <1>3 DEF FirstLive

\* Pruning drops a run of k expired events from the front, and nothing else.
LEMMA PruneDropsExpired ==
  ASSUME NEW S, S \subseteq Nat, NEW evs \in Seq(S), NEW now \in Nat, NEW w \in Nat
  PROVE  \E k \in 0..Len(evs) :
           /\ Prune(evs, now, w) \in Seq(S)
           /\ Len(Prune(evs, now, w)) = Len(evs) - k
           /\ \A i \in 1..Len(evs) - k : Prune(evs, now, w)[i] = evs[k + i]
           /\ \A i \in 1..k : evs[i] + w <= now
           /\ k < Len(evs) => evs[k + 1] + w > now
<1> DEFINE f == FirstLive(evs, now, w)
<1>0. evs \in Seq(Nat)
  BY SeqMonotonic
<1>1. /\ f \in 1..Len(evs) + 1
      /\ \A j \in 1..f - 1 : ~ InWindow(evs[j], now, w)
      /\ f <= Len(evs) => InWindow(evs[f], now, w)
  BY <1>0, FirstLiveIsFirst
<1>2. Prune(evs, now, w) = SubSeq(evs, f, Len(evs))
  BY DEF Prune
<1> HIDE DEF f
<1>3. f - 1 \in 0..Len(evs)
  BY <1>0, <1>1
<1>4. /\ SubSeq(evs, f, Len(evs)) \in Seq(S)
      /\ Len(SubSeq(evs, f, Len(evs))) = Len(evs) - (f - 1)
      /\ \A i \in 1..Len(evs) - (f - 1) : SubSeq(evs, f, Len(evs))[i] = evs[f - 1 + i]
  BY <1>0, <1>1
<1>5. \A i \in 1..f - 1 : evs[i] + w <= now
  BY <1>0, <1>1 DEF InWindow
<1>6. f - 1 < Len(evs) => evs[f - 1 + 1] + w > now
  BY <1>0, <1>1 DEF InWindow
<1> QED
  BY <1>2, <1>3, <1>4, <1>5, <1>6
=============================================================================
