------------------------- MODULE RateLimiterProof --------------------------
(***************************************************************************)
(* Theorems about RateLimiter, for every limit, window, slack and horizon. *)
(***************************************************************************)
EXTENDS RateLimiter, SlidingWindowProof, FiniteSetTheorems, TLAPS

\* The limiter's list is the tail of the grant history ...
Recorded ==
  /\ Len(events) <= Len(granted)
  /\ \A i \in 1..Len(events) :
       events[i] = granted[Len(granted) - Len(events) + i]

\* ... and every grant that has left it was out of the window of some call.
Expired ==
  \A i \in 1..Len(granted) - Len(events) : granted[i] + Window <= newest

\* Grants are never ahead of the newest call, nor far behind an earlier grant.
Tracked ==
  /\ \A i \in 1..Len(granted) : granted[i] <= newest
  /\ \A i, j \in 1..Len(granted) : i < j => granted[j] + Slack >= granted[i]

\* The inductive invariant.
IInv == TypeOK /\ Recorded /\ Expired /\ Tracked /\ SpacedGrants /\ DenialJustified

-----------------------------------------------------------------------------
\* What one call leaves in the list, when the list is the tail of the grants:
\* again such a tail, and what it drops is out of the window of that call.
LEMMA PrunedTail ==
  ASSUME LimiterAssumption, IInv, NEW now \in Time, MayCall(now),
         NEW kept, kept = Prune(events, now, Window),
         NEW n \in Time, n = Later(newest, now)
  PROVE  /\ kept \in Seq(Time)
         /\ Len(kept) <= Len(events)
         /\ \A i \in 1..Len(kept) : kept[i] = granted[Len(granted) - Len(kept) + i]
         /\ \A i \in 1..Len(granted) - Len(kept) : granted[i] + Window <= n
         /\ Len(kept) > 0 => kept[1] + Window > now
<1> USE DEF LimiterAssumption, Time
<1>1. /\ events \in Seq(Nat) /\ now \in Nat /\ Window \in Nat /\ Len(events) <= Limit
      /\ events \in Seq(Time) /\ granted \in Seq(Time) /\ newest \in Time
  BY DEF IInv, TypeOK
<1>2. PICK k \in 0..Len(events) :
         /\ Prune(events, now, Window) \in Seq(Time)
         /\ Len(Prune(events, now, Window)) = Len(events) - k
         /\ \A i \in 1..Len(events) - k : Prune(events, now, Window)[i] = events[k + i]
         /\ \A i \in 1..k : events[i] + Window <= now
         /\ k < Len(events) => events[k + 1] + Window > now
  BY <1>1, Time \subseteq Nat, PruneDropsExpired
<1>3. Recorded /\ Expired
  BY DEF IInv
<1>4. /\ kept \in Seq(Time) /\ Len(kept) = Len(events) - k
      /\ \A i \in 1..Len(kept) : kept[i] = events[k + i]
  BY <1>2
<1>5. /\ newest <= n /\ now <= n
      /\ n \in Nat /\ now \in Nat /\ newest \in Nat /\ Window \in Nat
  BY <1>1 DEF Later
<1>6. kept \in Seq(Time)
  BY <1>4
<1>0. Len(events) \in Nat /\ Len(granted) \in Nat /\ Len(kept) \in Nat
  BY <1>1, <1>6
<1>7. ASSUME NEW i \in 1..Len(kept)
      PROVE  kept[i] = granted[Len(granted) - Len(kept) + i]
  <2>1. k + i \in 1..Len(events)
    BY <1>0, <1>4
  <2>2. events[k + i] = granted[Len(granted) - Len(events) + (k + i)]
    BY <1>3, <2>1 DEF Recorded
  <2>3. Len(granted) - Len(events) + (k + i) = Len(granted) - Len(kept) + i
    BY <1>0, <1>4
  <2> QED
    BY <1>4, <2>2, <2>3
<1>8. ASSUME NEW i \in 1..Len(granted) - Len(kept)
      PROVE  granted[i] + Window <= n
  <2>1. granted[i] \in Nat
    <3>1. Len(granted) - Len(kept) <= Len(granted)
      BY <1>0
    <3>2. i \in 1..Len(granted)
      BY <1>0, <3>1
    <3> QED
      BY <1>1, <3>2
  <2>2. CASE i <= Len(granted) - Len(events)
    <3>1. i \in 1..Len(granted) - Len(events)
      BY <1>0, <2>2
    <3>2. granted[i] + Window <= newest
      BY <1>3, <3>1 DEF Expired
    <3> QED
      BY <1>5, <2>1, <3>2
  <2>3. CASE i > Len(granted) - Len(events)
    <3>1. PICK d \in 1..k : i = Len(granted) - Len(events) + d
      <4>1. i - (Len(granted) - Len(events)) \in 1..k
        BY <1>0, <1>4, <2>3
      <4> QED
        BY <1>0, <4>1
    <3>2. events[d] = granted[i]
      BY <1>0, <1>3, <3>1 DEF Recorded
    <3>3. events[d] + Window <= now
      BY <1>2, <3>1
    <3>4. granted[i] + Window <= now
      BY <3>2, <3>3
    <3> QED
      BY <1>5, <2>1, <3>4
  <2> QED
    BY <1>1, <2>2, <2>3
<1>9. Len(kept) \in Nat /\ Len(events) \in Nat /\ Len(kept) <= Len(events)
  BY <1>1, <1>4
<1>10. Len(kept) > 0 => kept[1] + Window > now
  <2> SUFFICES ASSUME Len(kept) > 0 PROVE kept[1] + Window > now
    OBVIOUS
  <2>1. k < Len(events) /\ 1 \in 1..Len(kept)
    BY <1>4, <1>9
  <2>2. kept[1] = events[k + 1]
    BY <1>4, <2>1
  <2> QED
    BY <1>2, <2>1, <2>2
<1> QED
  BY <1>6, <1>7, <1>8, <1>9, <1>10

-----------------------------------------------------------------------------
LEMMA InitEstablishesIInv == LimiterAssumption /\ Init => IInv
  BY DEF LimiterAssumption, Init, IInv, TypeOK, Time, Recorded, Expired, Tracked,
         SpacedGrants, DenialJustified

LEMMA GrantKeepsIInv ==
  ASSUME LimiterAssumption, IInv, NEW now \in Time, Grant(now)
  PROVE  IInv'
<1> USE DEF LimiterAssumption, Time
<1> DEFINE kept == Prune(events, now, Window)
           g == Len(granted)
           c == Len(kept)
<1>1. /\ newest \in Nat /\ newest \in Time /\ now \in Nat /\ Window \in Nat /\ Slack \in Nat
      /\ Limit \in Nat /\ granted \in Seq(Time) /\ g \in Nat /\ DOMAIN granted = 1..g
      /\ Len(events) <= Limit /\ MayCall(now)
  BY DEF IInv, TypeOK, Grant
<1>2. newest' = Later(newest, now) /\ newest' \in Time /\ newest <= newest' /\ now <= newest'
      /\ newest' \in Nat /\ now + Slack >= newest
  BY <1>1 DEF Grant, Later, MayCall
<1>3. /\ kept \in Seq(Time)
      /\ c <= Len(events)
      /\ \A i \in 1..c : kept[i] = granted[g - c + i]
      /\ \A i \in 1..g - c : granted[i] + Window <= newest'
  BY <1>1, <1>2, PrunedTail
<1>4. c < Limit /\ events' = Append(kept, now)
  BY DEF Grant, AfterAllow, Permits
<1>5. granted' = Append(granted, now) /\ call' = [now |-> now, allowed |-> TRUE]
  BY DEF Grant
<1> HIDE DEF kept
<1>6. /\ c \in Nat
      /\ Len(events') = c + 1 /\ events' \in Seq(Time)
      /\ \A i \in 1..c : events'[i] = kept[i]
      /\ events'[c + 1] = now
  BY <1>3, <1>4
<1>7. /\ Len(granted') = g + 1 /\ granted' \in Seq(Time)
      /\ \A i \in 1..g : granted'[i] = granted[i] /\ granted[i] \in Nat
      /\ granted'[g + 1] = now
  BY <1>1, <1>5
<1>8. c <= g
  BY <1>1, <1>3, <1>6 DEF IInv, Recorded, TypeOK
<1> HIDE DEF g, c
<1>9. TypeOK'
  BY <1>1, <1>2, <1>4, <1>5, <1>6, <1>7 DEF TypeOK
<1>10. Recorded'
  <2>1. Len(events') <= Len(granted')
    BY <1>1, <1>6, <1>7, <1>8
  <2>2. ASSUME NEW i \in 1..Len(events')
        PROVE  events'[i] = granted'[Len(granted') - Len(events') + i]
    <3>1. CASE i = c + 1
      BY <1>1, <1>6, <1>7, <3>1
    <3>2. CASE i \in 1..c
      BY <1>1, <1>3, <1>6, <1>7, <1>8, <3>2
    <3> QED
      BY <1>6, <3>1, <3>2
  <2> QED
    BY <2>1, <2>2 DEF Recorded
<1>11. Expired'
  <2> SUFFICES ASSUME NEW i \in 1..g - c PROVE granted'[i] + Window <= newest'
    BY <1>1, <1>6, <1>7 DEF Expired
  <2>1. i \in 1..g /\ granted'[i] = granted[i]
    BY <1>1, <1>6, <1>7, <1>8
  <2> QED
    BY <1>3, <2>1
<1>12. Tracked'
  <2>1. ASSUME NEW i \in 1..g + 1 PROVE granted'[i] <= newest'
    <3>1. CASE i \in 1..g
      <4>1. granted'[i] = granted[i] /\ granted[i] \in Nat /\ granted[i] <= newest
        BY <1>7, <3>1 DEF IInv, Tracked, g
      <4> QED
        BY <1>1, <1>2, <4>1
    <3> QED
      BY <1>1, <1>2, <1>7, <3>1
  <2>2. ASSUME NEW i \in 1..g + 1, NEW j \in 1..g + 1, i < j
        PROVE  granted'[j] + Slack >= granted'[i]
    <3>1. i \in 1..g /\ granted'[i] = granted[i] /\ granted[i] \in Nat
      BY <1>1, <1>7, <2>2
    <3>2. CASE j \in 1..g
      BY <1>7, <2>2, <3>1, <3>2 DEF IInv, Tracked, g
    <3>3. CASE j = g + 1
      <4>1. granted[i] <= newest /\ granted'[j] = now
        BY <1>7, <3>1, <3>3 DEF IInv, Tracked, g
      <4> QED
        BY <1>1, <1>2, <3>1, <4>1
    <3> QED
      BY <1>1, <3>2, <3>3
  <2> QED
    BY <1>7, <2>1, <2>2 DEF Tracked
<1>13. SpacedGrants'
  <2> SUFFICES ASSUME NEW i \in 1..g + 1, NEW j \in 1..g + 1, j >= i + Limit
               PROVE  granted'[j] + Slack >= granted'[i] + Window
    BY <1>1, <1>7 DEF SpacedGrants
  <2>1. CASE j \in 1..g
    <3>1. i \in 1..g
      BY <1>1, <2>1
    <3>2. granted[j] + Slack >= granted[i] + Window
      BY <1>1, <2>1, <3>1 DEF IInv, SpacedGrants, g
    <3> QED
      BY <1>7, <2>1, <3>1, <3>2
  <2>2. CASE j = g + 1
    <3>1. i \in 1..g - c /\ i \in 1..g
      BY <1>1, <1>4, <1>6, <2>2
    <3>2. granted[i] + Window <= newest' /\ granted'[i] = granted[i] /\ granted[i] \in Nat
      BY <1>3, <1>7, <3>1
    <3>3. granted'[j] = now /\ newest' <= now + Slack
      BY <1>1, <1>2, <1>7, <2>2 DEF Later
    <3> QED
      BY <1>1, <1>2, <3>2, <3>3
  <2> QED
    BY <1>1, <2>1, <2>2
<1>14. DenialJustified'
  BY <1>5 DEF DenialJustified
<1> QED
  BY <1>9, <1>10, <1>11, <1>12, <1>13, <1>14 DEF IInv

\* Deny and Count prune the list, and grant nothing.
LEMMA PruningKeepsIInv ==
  ASSUME LimiterAssumption, IInv, NEW now \in Time, MayCall(now),
         events' = Prune(events, now, Window), newest' = Later(newest, now),
         granted' = granted
  PROVE  /\ events' \in Seq(Time) /\ Len(events') <= Limit /\ newest' \in Time
         /\ Recorded' /\ Expired' /\ Tracked' /\ SpacedGrants'
<1> USE DEF LimiterAssumption, Time
<1>1. /\ newest \in Nat /\ newest \in Time /\ now \in Nat /\ Limit \in Nat
      /\ granted \in Seq(Time) /\ events \in Seq(Time) /\ Len(events) <= Limit
  BY DEF IInv, TypeOK
<1>2. newest' \in Time /\ newest <= newest' /\ newest' \in Nat
  BY <1>1 DEF Later
<1>3. /\ events' \in Seq(Time)
      /\ Len(events') <= Len(events)
      /\ \A i \in 1..Len(events') : events'[i] = granted[Len(granted) - Len(events') + i]
      /\ \A i \in 1..Len(granted) - Len(events') : granted[i] + Window <= newest'
  BY <1>2, PrunedTail
<1>4. Len(events') <= Limit /\ Len(events') <= Len(granted)
  BY <1>1, <1>3 DEF IInv, Recorded
<1>5. Recorded' /\ Expired'
  BY <1>3, <1>4 DEF Recorded, Expired
<1>6. Tracked'
  <2>1. \A i \in 1..Len(granted) : granted[i] \in Nat
    BY <1>1
  <2> QED
    BY <1>1, <1>2, <2>1 DEF IInv, Tracked
<1>7. SpacedGrants'
  BY DEF IInv, SpacedGrants
<1> QED
  BY <1>2, <1>3, <1>4, <1>5, <1>6, <1>7

LEMMA CountKeepsIInv ==
  ASSUME LimiterAssumption, IInv, NEW now \in Time, Count(now)
  PROVE  IInv'
<1>1. /\ events' \in Seq(Time) /\ Len(events') <= Limit /\ newest' \in Time
      /\ Recorded' /\ Expired' /\ Tracked' /\ SpacedGrants'
  BY PruningKeepsIInv DEF Count
<1>2. granted' = granted /\ call' = call
  BY DEF Count
<1>3. TypeOK'
  BY <1>1, <1>2 DEF IInv, TypeOK
<1>4. DenialJustified'
  BY <1>2 DEF IInv, DenialJustified
<1> QED
  BY <1>1, <1>3, <1>4 DEF IInv

LEMMA DenyKeepsIInv ==
  ASSUME LimiterAssumption, IInv, NEW now \in Time, Deny(now)
  PROVE  IInv'
<1> USE DEF LimiterAssumption, Time
<1> DEFINE kept == Prune(events, now, Window)
           g == Len(granted)
<1>1. /\ granted' = granted /\ call' = [now |-> now, allowed |-> FALSE]
      /\ events' = kept /\ newest' = Later(newest, now) /\ MayCall(now)
      /\ ~ (Len(kept) < Limit)
  BY DEF Deny, AfterAllow, Permits
<1>2. /\ events' \in Seq(Time) /\ Len(events') <= Limit /\ newest' \in Time
      /\ Recorded' /\ Expired' /\ Tracked' /\ SpacedGrants'
  BY <1>1, PruningKeepsIInv
<1>3. TypeOK'
  BY <1>1, <1>2 DEF IInv, TypeOK
<1>4. /\ granted \in Seq(Time) /\ g \in Nat /\ now \in Nat /\ Limit \in Nat \ {0}
      /\ Window \in Nat /\ Slack \in Nat /\ newest \in Time
  BY DEF IInv, TypeOK
<1>5. Later(newest, now) \in Time
  BY <1>4 DEF Later
<1>6. Len(kept) > 0 => kept[1] + Window > now
  BY <1>1, <1>5, PrunedTail
<1>7. kept = events' /\ Len(kept) = Limit
  BY <1>1, <1>2, <1>4
<1> HIDE DEF kept
<1>8. Limit <= g /\ kept[1] = granted[g - Limit + 1] /\ kept[1] + Window > now
  BY <1>1, <1>2, <1>4, <1>6, <1>7 DEF Recorded
<1>9. ASSUME NEW i \in g - Limit + 1..g
      PROVE  granted[i] + (Window + Slack) > now
  <2> DEFINE o == g - Limit + 1
  <2>1. o \in 1..g /\ i \in 1..g /\ o <= i
    BY <1>4, <1>8
  <2>2. granted[o] \in Nat /\ granted[i] \in Nat
    BY <1>4, <2>1
  <2>3. granted[o] + Window > now
    BY <1>8
  <2> HIDE DEF o
  <2>4. granted[i] + Slack >= granted[o]
    <3>1. CASE o < i
      BY <2>1, <3>1 DEF IInv, Tracked
    <3>2. CASE o = i
      BY <1>4, <2>2, <3>2
    <3> QED
      BY <1>4, <2>1, <3>1, <3>2
  <2>5. \A a, b, w, s, n \in Nat : a + w > n /\ b + s >= a => b + (w + s) > n
    OBVIOUS
  <2>6. Window \in Nat /\ Slack \in Nat /\ now \in Nat
    BY <1>4
  <2> QED
    BY <2>2, <2>3, <2>4, <2>5, <2>6, Zenon
<1>10. DenialJustified'
  BY <1>1, <1>4, <1>8, <1>9 DEF DenialJustified, InWindow
<1> QED
  BY <1>2, <1>3, <1>10 DEF IInv

-----------------------------------------------------------------------------
\* The invariant is inductive.
THEOREM LimiterInvariant == Spec => []IInv
<1> USE LimiterAssumption
<1>1. Init => IInv
  BY InitEstablishesIInv
<1>2. IInv /\ [Next]_vars => IInv'
  <2> SUFFICES ASSUME IInv, [Next]_vars PROVE IInv'
    OBVIOUS
  <2>1. CASE \E now \in Time : Grant(now)
    BY <2>1, GrantKeepsIInv
  <2>2. CASE \E now \in Time : Deny(now)
    BY <2>2, DenyKeepsIInv
  <2>3. CASE \E now \in Time : Count(now)
    BY <2>3, CountKeepsIInv
  <2>4. CASE UNCHANGED vars
    BY <2>4 DEF vars, IInv, TypeOK, Recorded, Expired, Tracked, SpacedGrants,
                DenialJustified
  <2> QED
    BY <2>1, <2>2, <2>3, <2>4 DEF Next
<1> QED
  BY <1>1, <1>2, PTL DEF Spec

\* The list never holds more than Limit times, and has its type.
THEOREM LimiterTypeOK == Spec => []TypeOK
<1>1. IInv => TypeOK
  BY DEF IInv
<1> QED
  BY <1>1, LimiterInvariant, PTL

\* Whatever the order of the calls, within Slack: Limit grants and one more
\* spread over at least Window - Slack of event time.
THEOREM GrantsAreSpaced == Spec => []SpacedGrants
<1>1. IInv => SpacedGrants
  BY DEF IInv
<1> QED
  BY <1>1, LimiterInvariant, PTL

\* No call is denied unless Limit grants lie within Window + Slack of it.
THEOREM DenialsAreJustified == Spec => []DenialJustified
<1>1. IInv => DenialJustified
  BY DEF IInv
<1> QED
  BY <1>1, LimiterInvariant, PTL

\* Callers in order, as those of an asset's own limiter are, get what the code says
\* of the limiter: no window of event time has more than Limit grants.  The run
\* limit_per_window shows that callers out of order do not.
THEOREM LimitInOrder ==
  ASSUME Slack = 0
  PROVE  Spec => []AtMostLimitPerWindow
<1>1. IInv => AtMostLimitPerWindow
  <2> SUFFICES ASSUME IInv, NEW t \in Time
               PROVE  Cardinality({i \in DOMAIN granted :
                        granted[i] <= t /\ InWindow(granted[i], t, Window)}) <= Limit
    BY DEF AtMostLimitPerWindow
  <2> DEFINE In == {i \in DOMAIN granted : granted[i] <= t /\ InWindow(granted[i], t, Window)}
  <2>1. /\ granted \in Seq(Nat) /\ Len(granted) \in Nat /\ DOMAIN granted = 1..Len(granted)
        /\ t \in Nat /\ Limit \in Nat \ {0} /\ Window \in Nat /\ Slack = 0
        /\ SpacedGrants
    BY LimiterAssumption DEF LimiterAssumption, IInv, TypeOK, Time
  <2>2. CASE In = {}
    <3>1. Cardinality(In) = 0
      BY <2>2, FS_EmptySet, Zenon
    <3> QED
      BY <2>1, <3>1
  <2>3. CASE In # {}
    <3>1. In \subseteq Nat
      BY <2>1
    <3>2. PICK a \in In : \A i \in In : a <= i
      <4> HIDE DEF In
      <4> QED
        BY <2>3, <3>1, LeastElement
    <3>3. ASSUME NEW i \in In PROVE i \in a..a + Limit - 1
      <4>1. /\ i \in Nat /\ a \in Nat /\ a <= i
            /\ granted[i] \in Nat /\ granted[a] \in Nat
            /\ granted[i] <= t /\ granted[a] + Window > t
        BY <2>1, <3>1, <3>2 DEF InWindow
      <4>2. ~ (i >= a + Limit)
        <5> SUFFICES ASSUME i >= a + Limit PROVE FALSE
          OBVIOUS
        <5>1. granted[i] + Slack >= granted[a] + Window
          BY <2>1 DEF SpacedGrants
        <5> QED
          BY <2>1, <4>1, <5>1
      <4> QED
        BY <2>1, <4>1, <4>2
    <3>4. IsFiniteSet(a..a + Limit - 1) /\ Cardinality(a..a + Limit - 1) = Limit
      <4>1. a \in Int /\ a + Limit - 1 \in Int /\ ~ (a > a + Limit - 1)
            /\ (a + Limit - 1) - a + 1 = Limit
        BY <2>1, <3>1
      <4> QED
        BY <4>1, FS_Interval
    <3>5. In \in SUBSET (a..a + Limit - 1)
      BY <3>3
    <3>6. Cardinality(In) <= Limit
      <4> HIDE DEF In
      <4>1. Cardinality(In) <= Cardinality(a..a + Limit - 1)
        BY <3>4, <3>5, FS_Subset, Zenon
      <4> QED
        BY <3>4, <4>1
    <3> QED
      BY <3>6
  <2> QED
    BY <2>2, <2>3
<1> QED
  BY <1>1, LimiterInvariant, PTL
=============================================================================
