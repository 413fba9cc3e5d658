-------------------------- MODULE AlertPolicyProof --------------------------
(***************************************************************************)
(* Theorems about AlertPolicy, for every set of valid parameters, saved    *)
(* offsets and risks, and any number of evaluations: the guardrails of the *)
(* threshold, the persistence of an episode's start and end, the asset's   *)
(* limit of alerts, their distance, and the contract of an episode.        *)
(***************************************************************************)
EXTENDS AlertPolicy, SlidingWindowProof, TLAPS

\* The streaks the policy counts are no longer than those there were.
Streaks ==
  IF Active THEN a.below < MaxStreak /\ a.below <= down
            ELSE a.above < MaxStreak /\ a.above <= up

\* An episode that is open was alerted once or never, as the policy remembers.
Raised == alerts = IF Active /\ a.alerted THEN 1 ELSE 0

\* An alert that is inside the hour is in the limiter's list, at least as far
\* from its end as from the end of the history: the list also has events that
\* the site refused.
Listed(history, t, list) ==
  \A i \in DOMAIN history : history[i] + Hour > t =>
    \E m \in DOMAIN list :
      m <= Len(list) - (Len(history) - i) /\ list[m] = history[i]

Recalled == p.assetLimit > 0 => Listed(fires, lastEval, a.limiter)

\* How long ago the last alert was: in an episode as many evaluations as were
\* counted to clear it; after it those, and as many as were counted to open the
\* next, which may not fire in the quiet period.
LastFire == fires[Len(fires)]

Since ==
  fires # <<>> =>
    IF Active
    THEN lastEval >= LastFire + a.below
    ELSE /\ lastEval >= LastFire + p.clearPersistence + a.above
         /\ a.until >= LastFire + p.clearPersistence + p.suppression

IInv ==
  /\ TypeOK /\ ThresholdGuardrails /\ Streaks /\ Raised
  /\ Recalled /\ AssetLimitKept /\ Since /\ AlertsApart

-----------------------------------------------------------------------------
\* What Params.Validate grants.
LEMMA ParamFacts ==
  ASSUME NEW q \in ParamSet
  PROVE  /\ q.on \in 1..Unit /\ q.off \in Nat /\ q.off < q.on
         /\ q.minPersistence \in 1..MaxStreak /\ q.clearPersistence \in 1..MaxStreak
         /\ q.suppression \in Nat /\ q.assetLimit \in Nat
         /\ q.dismissStep \in Nat /\ q.confirmStep \in Nat /\ q.maxOffset \in Nat
         /\ q.maxThreshold \in Nat
<1>1. ValidParams(q) /\ q.minPersistence <= MaxStreak /\ q.clearPersistence <= MaxStreak
  BY PolicyAssumption
<1>2. MaxStreak \in Nat
  BY PolicyAssumption
<1>3. /\ q.on \in 1..Unit /\ q.off \in 0..q.on - 1
      /\ q.maxThreshold = 0 \/ q.maxThreshold \in q.on + 1..Unit
  BY <1>1 DEF ValidParams
<1>4. q.off \in Nat /\ q.off < q.on /\ q.maxThreshold \in Nat
  BY <1>3 DEF Unit
<1>5. /\ q.suppression \in Nat /\ q.assetLimit \in Nat
      /\ q.dismissStep \in Nat /\ q.confirmStep \in Nat /\ q.maxOffset \in Nat
      /\ q.minPersistence \in Nat \ {0} /\ q.clearPersistence \in Nat \ {0}
  BY <1>1 DEF ValidParams
<1>6. q.minPersistence \in 1..MaxStreak /\ q.clearPersistence \in 1..MaxStreak
  BY <1>1, <1>2, <1>5
<1> QED
  BY <1>3, <1>4, <1>5, <1>6

\* The clamp keeps any offset inside the guardrails.
LEMMA ClampBounds ==
  ASSUME NEW q \in ParamSet, NEW x \in Int
  PROVE  ClampOffset(q, x) \in Int /\ ClampOffset(q, x) \in -q.maxOffset..q.maxOffset
<1>1. q.maxOffset \in Nat
  BY ParamFacts
<1> QED
  BY <1>1 DEF ClampOffset, Larger, Smaller

\* The threshold keeps its band whatever the offset.
LEMMA ThresholdBounds ==
  ASSUME NEW q \in ParamSet, NEW x \in Int
  PROVE  /\ EffectiveThreshold(q, x) \in Int
         /\ EffectiveThreshold(q, x) >= q.off + MinBand
         /\ EffectiveThreshold(q, x) <= Larger(ThresholdCap(q), q.off + MinBand)
<1>1. q.on \in Int /\ q.off \in Nat /\ ThresholdCap(q) \in Nat
  BY ParamFacts DEF ThresholdCap, Unit
<1> QED
  BY <1>1 DEF EffectiveThreshold, Larger, Smaller, MinBand

LEMMA GuardrailsHold ==
  ASSUME NEW q \in ParamSet, NEW x \in Int, p' = q, a'.offset = ClampOffset(q, x)
  PROVE  ThresholdGuardrails'
<1>1. ClampOffset(q, x) \in Int /\ ClampOffset(q, x) \in -q.maxOffset..q.maxOffset
  BY ClampBounds
<1> QED
  BY <1>1, ThresholdBounds DEF ThresholdGuardrails, Threshold

\* The fields of the state.
LEMMA StateFacts ==
  ASSUME TypeOK
  PROVE  /\ p \in ParamSet
         /\ a.state \in {"normal", "pending", "active"} /\ a.above \in 0..MaxStreak
         /\ a.below \in 0..MaxStreak /\ a.until \in Nat /\ a.offset \in Int
         /\ a.alerted \in BOOLEAN /\ a.limiter \in Seq(Time)
         /\ lastEval \in Nat /\ up \in Nat /\ down \in Nat
         /\ fires \in Seq(Time) /\ alerts \in Nat
         /\ Hour \in Nat \ {0} /\ Horizon \in Nat /\ MaxStreak \in Nat
         /\ Threshold \in Int
  BY PolicyAssumption, ThresholdBounds DEF TypeOK, Threshold

LEMMA TimeFacts ==
  ASSUME TypeOK
  PROVE  /\ Time \subseteq Nat
         /\ \A i \in DOMAIN fires : i \in 1..Len(fires) /\ fires[i] \in Nat
         /\ Len(fires) \in Nat
<1>1. fires \in Seq(Time) /\ Horizon \in Nat
  BY StateFacts
<1>2. Time \subseteq Nat
  BY <1>1 DEF Time
<1>3. Len(fires) \in Nat /\ DOMAIN fires = 1..Len(fires)
  BY <1>1
<1>4. \A i \in 1..Len(fires) : fires[i] \in Time
  BY <1>1
<1> QED
  BY <1>2, <1>3, <1>4

LEMMA LastFireType ==
  ASSUME TypeOK, fires # <<>>
  PROVE  LastFire \in Nat /\ Len(fires) \in 1..Len(fires) /\ DOMAIN fires = 1..Len(fires)
<1>1. fires \in Seq(Time) /\ Time \subseteq Nat
  BY StateFacts, TimeFacts
<1>2. Len(fires) \in 1..Len(fires) /\ DOMAIN fires = 1..Len(fires)
  BY <1>1
<1>3. fires[Len(fires)] \in Time
  BY <1>1, <1>2
<1> QED
  BY <1>1, <1>2, <1>3 DEF LastFire

LEMMA EpisodeFacts ==
  ASSUME TypeOK
  PROVE  /\ p.assetLimit \in Nat /\ p.suppression \in Nat
         /\ p.clearPersistence \in Nat /\ p.clearPersistence > 0
         /\ p.minPersistence \in Nat /\ p.minPersistence > 0
         /\ a.above \in Nat /\ a.below \in Nat /\ a.until \in Nat
         /\ Hour \in Nat /\ alerts \in Nat
<1>1. p \in ParamSet /\ MaxStreak \in Nat
  BY StateFacts
<1>2. /\ p.assetLimit \in Nat /\ p.suppression \in Nat
      /\ p.clearPersistence \in 1..MaxStreak /\ p.minPersistence \in 1..MaxStreak
  BY <1>1, ParamFacts
<1>3. /\ a.above \in 0..MaxStreak /\ a.below \in 0..MaxStreak /\ a.until \in Nat
      /\ Hour \in Nat /\ alerts \in Nat
  BY StateFacts
<1> QED
  BY <1>1, <1>2, <1>3

-----------------------------------------------------------------------------
LEMMA InitInv == Init => IInv
<1> SUFFICES ASSUME Init PROVE IInv
  OBVIOUS
<1>1. PICK x \in SavedOffsets : a = Fresh(p, x)
  BY DEF Init
<1>2. p \in ParamSet /\ x \in Int /\ a.offset = ClampOffset(p, x) /\ a.state = "normal"
      /\ a.above = 0 /\ a.limiter = <<>> /\ MaxStreak \in Nat /\ Horizon \in Nat
  BY <1>1, PolicyAssumption DEF Init, Fresh
<1>3. ClampOffset(p, x) \in Int /\ ClampOffset(p, x) \in -p.maxOffset..p.maxOffset
  BY <1>2, ClampBounds
<1>4. TypeOK
  BY <1>1, <1>2, <1>3 DEF Init, Fresh, TypeOK
<1>5. ThresholdGuardrails
  BY <1>2, <1>3, ThresholdBounds DEF ThresholdGuardrails, Threshold
<1>6. MaxStreak > 0
  BY <1>2, ParamFacts
<1>7. Streaks /\ Raised
  BY <1>2, <1>6 DEF Init, Streaks, Raised, Active
<1>8. Recalled /\ AssetLimitKept /\ Since /\ AlertsApart
  BY DEF Init, Recalled, Listed, AssetLimitKept, Since, AlertsApart
<1> QED
  BY <1>4, <1>5, <1>7, <1>8 DEF IInv

-----------------------------------------------------------------------------
\* What asking the limiter leaves in its list: every alert still inside the
\* hour, and, when it permits, the new event behind them.
LEMMA Asked ==
  ASSUME IInv, NEW now \in Time, now > lastEval, p.assetLimit > 0,
         NEW left, left = AfterAllow(a.limiter, now, p.assetLimit, Hour),
         NEW more \in {0, 1},
         more = IF Permits(a.limiter, now, p.assetLimit, Hour) THEN 1 ELSE 0
  PROVE  /\ left \in Seq(Time)
         /\ more = 1 => Len(left) <= p.assetLimit /\ Len(left) > 0 /\ left[Len(left)] = now
         /\ \A i \in DOMAIN fires : fires[i] + Hour > now =>
              \E m \in DOMAIN left :
                m <= Len(left) - more - (Len(fires) - i) /\ left[m] = fires[i]
<1> DEFINE kept == Prune(a.limiter, now, Hour)
<1>1. /\ a.limiter \in Seq(Time) /\ Hour \in Nat /\ now \in Nat /\ Time \subseteq Nat
      /\ lastEval \in Nat /\ p.assetLimit \in Nat
      /\ Len(fires) \in Nat /\ Len(a.limiter) \in Nat
      /\ \A i \in DOMAIN fires : i \in 1..Len(fires) /\ fires[i] \in Nat
  BY StateFacts, TimeFacts, ParamFacts DEF IInv
<1>2. PICK k \in 0..Len(a.limiter) :
         /\ kept \in Seq(Time)
         /\ Len(kept) = Len(a.limiter) - k
         /\ \A i \in 1..Len(a.limiter) - k : kept[i] = a.limiter[k + i]
         /\ \A i \in 1..k : a.limiter[i] + Hour <= now
  BY <1>1, PruneDropsExpired
<1>3. /\ more = 1 => left = Append(kept, now) /\ Len(kept) < p.assetLimit
      /\ more = 0 => left = kept
  BY DEF AfterAllow, Permits
<1> HIDE DEF kept
<1>4. /\ left \in Seq(Time) /\ Len(left) = Len(kept) + more
      /\ \A m \in 1..Len(kept) : left[m] = kept[m]
      /\ more = 1 => left[Len(left)] = now
  <2>0. kept \in Seq(Time) /\ Len(kept) \in Nat /\ now \in Time
    BY <1>2
  <2>1. CASE more = 0
    <3>1. left = kept
      BY <1>3, <2>1
    <3>2. Len(left) = Len(kept) + more
      BY <2>0, <2>1, <3>1
    <3> QED
      BY <2>0, <2>1, <3>1, <3>2
  <2>2. CASE more = 1
    <3>1. left = Append(kept, now)
      BY <1>3, <2>2
    <3>2. /\ left \in Seq(Time) /\ Len(left) = Len(kept) + 1 /\ left[Len(kept) + 1] = now
          /\ \A m \in 1..Len(kept) : left[m] = kept[m]
      BY <2>0, <3>1
    <3> QED
      BY <2>2, <3>2
  <2> QED
    BY <2>1, <2>2
<1>0. Len(kept) \in Nat
  BY <1>2
<1>5. more = 1 => Len(left) <= p.assetLimit /\ Len(left) > 0 /\ left[Len(left)] = now
  BY <1>0, <1>1, <1>3, <1>4
<1>6. ASSUME NEW i \in DOMAIN fires, fires[i] + Hour > now
      PROVE  \E m \in DOMAIN left :
               m <= Len(left) - more - (Len(fires) - i) /\ left[m] = fires[i]
  <2>1. fires[i] + Hour > lastEval
    BY <1>1, <1>6
  <2>2. PICK m \in DOMAIN a.limiter :
           m <= Len(a.limiter) - (Len(fires) - i) /\ a.limiter[m] = fires[i]
    BY <2>1 DEF IInv, Recalled, Listed
  <2>3. m \in 1..Len(a.limiter) /\ i \in 1..Len(fires)
    BY <1>1, <2>2
  <2>4. ~ (m \in 1..k)
    <3>1. fires[i] \in Nat /\ Hour \in Nat /\ now \in Nat
      BY <1>1
    <3>2. m \in 1..k => fires[i] + Hour <= now
      BY <1>2, <2>2
    <3> QED
      BY <1>6, <3>1, <3>2
  <2>0. /\ k \in Nat /\ m \in Nat /\ i \in Nat /\ more \in Nat /\ m >= 1
        /\ Len(kept) \in Nat /\ Len(fires) \in Nat /\ Len(a.limiter) \in Nat
        /\ m <= Len(a.limiter) /\ Len(kept) = Len(a.limiter) - k
    BY <1>0, <1>1, <1>2, <2>3
  <2>5. m - k \in 1..Len(kept) /\ k + (m - k) = m
    BY <2>0, <2>4
  <2>6. left[m - k] = fires[i]
    BY <1>2, <1>4, <2>2, <2>5
  <2>7. m - k \in DOMAIN left
    <3>1. DOMAIN left = 1..Len(left)
      BY <1>4
    <3> QED
      BY <1>0, <1>4, <2>5, <3>1
  <2>8. m - k <= Len(left) - more - (Len(fires) - i)
    <3>1. Len(kept) = Len(a.limiter) - k /\ Len(left) = Len(kept) + more
      BY <1>2, <1>4
    <3>2. m <= Len(a.limiter) - (Len(fires) - i)
      BY <2>2
    <3>3. Len(left) - more = Len(kept)
      BY <2>0, <3>1
    <3>4. m - k <= Len(kept) - (Len(fires) - i)
      BY <2>0, <3>2
    <3> QED
      BY <3>3, <3>4
  <2> QED
    BY <2>6, <2>7, <2>8
<1> QED
  BY <1>4, <1>5, <1>6

-----------------------------------------------------------------------------
\* What an evaluation does to the clock and the streaks.
LEMMA Observed ==
  ASSUME IInv, NEW now \in Time, NEW risk \in Risks, Observe(now, risk)
  PROVE  /\ now \in Nat /\ risk \in Nat /\ lastEval \in Nat /\ now >= lastEval + 1
         /\ lastEval' = now /\ lastEval' \in 0..Horizon /\ p' = p /\ p \in ParamSet
         /\ up' \in 0..MaxStreak /\ down' \in 0..MaxStreak
         /\ risk >= Threshold => up' = Smaller(up + 1, MaxStreak)
         /\ risk < p.off => down' = Smaller(down + 1, MaxStreak)
<1>1. /\ up \in 0..MaxStreak /\ down \in 0..MaxStreak /\ lastEval \in Nat
      /\ MaxStreak \in Nat /\ Horizon \in Nat /\ Risks \subseteq Nat /\ p \in ParamSet
  BY PolicyAssumption DEF IInv, TypeOK
<1>2. now \in Nat /\ now \in 0..Horizon
  BY <1>1 DEF Time
<1> QED
  BY <1>1, <1>2 DEF Observe, Smaller

LEMMA GuardrailsStay ==
  ASSUME IInv, p' = p, a'.offset = a.offset
  PROVE  ThresholdGuardrails'
  BY DEF IInv, ThresholdGuardrails, Threshold

\* An evaluation that fires nothing keeps what is known of the alerts.
LEMMA NoFireKept ==
  ASSUME IInv, NEW now \in Time, NEW risk \in Risks, Observe(now, risk),
         fires' = fires, a'.limiter \in {a.limiter, AfterAsking(now)}
  PROVE  /\ a'.limiter \in Seq(Time)
         /\ Recalled' /\ AssetLimitKept' /\ AlertsApart'
<1>1. /\ now > lastEval /\ lastEval' = now /\ p' = p /\ now \in Nat /\ lastEval \in Nat
      /\ p.assetLimit \in Nat
  BY Observed, ParamFacts
<1>2. AssetLimitKept' /\ AlertsApart'
  BY <1>1 DEF IInv, AssetLimitKept, AlertsApart
<1>3. /\ a.limiter \in Seq(Time) /\ Hour \in Nat
      /\ \A i \in DOMAIN fires : fires[i] \in Nat
  BY StateFacts, TimeFacts DEF IInv
<1>4. CASE a'.limiter = a.limiter
  <2>1. Recalled'
    <3>1. \A i \in DOMAIN fires : fires[i] + Hour > now => fires[i] + Hour > lastEval
      BY <1>1, <1>3
    <3>2. p.assetLimit > 0 => Listed(fires, now, a.limiter)
      BY <3>1 DEF IInv, Recalled, Listed
    <3> QED
      BY <1>1, <1>4, <3>2 DEF Recalled
  <2> QED
    BY <1>2, <1>3, <1>4, <2>1
<1>5. CASE p.assetLimit > 0 /\ a'.limiter = AfterAsking(now)
  <2> DEFINE left == AfterAllow(a.limiter, now, p.assetLimit, Hour)
             more == IF Permits(a.limiter, now, p.assetLimit, Hour) THEN 1 ELSE 0
  <2>1. a'.limiter = left
    BY <1>5 DEF AfterAsking
  <2>2. more \in {0, 1}
    OBVIOUS
  <2>3. /\ left \in Seq(Time)
        /\ \A i \in DOMAIN fires : fires[i] + Hour > now =>
             \E m \in DOMAIN left :
               m <= Len(left) - more - (Len(fires) - i) /\ left[m] = fires[i]
    BY <1>1, <1>5, <2>2, Asked
  <2> HIDE DEF left, more
  <2>4. ASSUME NEW i \in DOMAIN fires, fires[i] + Hour > now
        PROVE  \E m \in DOMAIN left :
                 m <= Len(left) - (Len(fires) - i) /\ left[m] = fires[i]
    <3>1. PICK m \in DOMAIN left :
             m <= Len(left) - more - (Len(fires) - i) /\ left[m] = fires[i]
      BY <2>3, <2>4
    <3>2. m \in Nat /\ i \in Nat /\ Len(left) \in Nat /\ Len(fires) \in Nat /\ more \in Nat
      BY <2>2, <2>3, TimeFacts DEF IInv
    <3>3. m <= Len(left) - (Len(fires) - i)
      BY <3>1, <3>2
    <3> QED
      BY <3>1, <3>3
  <2>5. Listed(fires, now, left)
    BY <2>4 DEF Listed
  <2>6. Recalled'
    BY <1>1, <2>1, <2>5 DEF Recalled
  <2> QED
    BY <1>2, <2>1, <2>3, <2>6
<1>6. ~ (p.assetLimit > 0) => AfterAsking(now) = a.limiter
  BY DEF AfterAsking
<1> QED
  BY <1>4, <1>5, <1>6

\* While there is no episode: below the threshold, or above it and counted.
LEMMA QuietStep ==
  ASSUME IInv, NEW now \in Time, NEW risk \in Risks,
         BelowThreshold(now, risk) \/ Pend(now, risk)
  PROVE  IInv'
<1>1. /\ Observe(now, risk) /\ fires' = fires /\ alerts' = alerts /\ ~ Active
  BY DEF BelowThreshold, Pend
<1>2. /\ now \in Nat /\ risk \in Nat /\ lastEval \in Nat /\ now >= lastEval + 1
      /\ lastEval' = now /\ lastEval' \in 0..Horizon /\ p' = p /\ p \in ParamSet
      /\ up' \in 0..MaxStreak /\ down' \in 0..MaxStreak
      /\ risk >= Threshold => up' = Smaller(up + 1, MaxStreak)
  BY <1>1, Observed
<1>3. /\ a.above \in 0..MaxStreak /\ up \in Nat /\ MaxStreak \in Nat
      /\ p.minPersistence \in 1..MaxStreak /\ p.clearPersistence \in 1..MaxStreak
      /\ a.until \in Nat /\ p.suppression \in Nat
  BY <1>2, StateFacts, ParamFacts DEF IInv
<1>4. \E s \in {"normal", "pending"}, n \in {0, a.above + 1} :
        /\ a' = [a EXCEPT !.state = s, !.above = n]
        /\ n = 0 \/ (n < p.minPersistence /\ risk >= Threshold)
  BY DEF BelowThreshold, Pend
<1>5. PICK s \in {"normal", "pending"}, n \in {0, a.above + 1} :
        /\ a' = [a EXCEPT !.state = s, !.above = n]
        /\ n = 0 \/ (n < p.minPersistence /\ risk >= Threshold)
  BY <1>4
<1>6. n \in 0..MaxStreak /\ n < MaxStreak /\ n <= a.above + 1
  BY <1>3, <1>5
<1>7. /\ a'.state = s /\ a'.above = n /\ a'.offset = a.offset /\ a'.limiter = a.limiter
      /\ a'.until = a.until /\ a'.below = a.below /\ a'.alerted = a.alerted
  BY <1>5 DEF IInv, TypeOK
<1>8. TypeOK'
  BY <1>1, <1>2, <1>5, <1>6 DEF IInv, TypeOK
<1>9. ~ Active'
  BY <1>7 DEF Active
<1>10. Streaks'
  <2>1. n <= up'
    <3>1. CASE n = 0
      BY <1>2, <3>1
    <3>2. CASE n # 0
      <4>1. n = a.above + 1 /\ n < MaxStreak /\ a.above <= up /\ up' = Smaller(up + 1, MaxStreak)
        BY <1>1, <1>2, <1>5, <1>6, <3>2 DEF IInv, Streaks
      <4> QED
        BY <1>3, <4>1 DEF Smaller
    <3> QED
      BY <3>1, <3>2
  <2> QED
    BY <1>6, <1>7, <1>9, <2>1 DEF Streaks
<1>11. Raised'
  BY <1>1, <1>9 DEF IInv, Raised
<1>12. Since'
  <2> SUFFICES ASSUME fires # <<>>
               PROVE  /\ now >= LastFire + p.clearPersistence + n
                      /\ a.until >= LastFire + p.clearPersistence + p.suppression
    BY <1>1, <1>2, <1>7, <1>9 DEF Since, LastFire
  <2>1. /\ lastEval >= LastFire + p.clearPersistence + a.above
        /\ a.until >= LastFire + p.clearPersistence + p.suppression
    BY <1>1 DEF IInv, Since
  <2>2. LastFire \in Nat
    BY LastFireType DEF IInv
  <2>3. /\ now \in Nat /\ lastEval \in Nat /\ now >= lastEval + 1 /\ n \in Nat
        /\ a.above \in Nat /\ p.clearPersistence \in Nat /\ n <= a.above + 1
    BY <1>2, <1>3, <1>6
  <2>4. now >= LastFire + p.clearPersistence + n
    BY <2>1, <2>2, <2>3
  <2> QED
    BY <2>1, <2>4
<1>13. ThresholdGuardrails'
  BY <1>2, <1>7, GuardrailsStay
<1>14. Recalled' /\ AssetLimitKept' /\ AlertsApart'
  BY <1>1, <1>7, NoFireKept
<1> QED
  BY <1>8, <1>10, <1>11, <1>12, <1>13, <1>14 DEF IInv

\* The state an episode opens in.
LEMMA OpenEffect ==
  ASSUME IInv, NEW now \in Time, NEW risk \in Risks, Opens(risk), Observe(now, risk),
         NEW alerted \in BOOLEAN, NEW limiter \in Seq(Time), a' = Opened(alerted, limiter)
  PROVE  /\ a' \in [state : {"normal", "pending", "active"}, above : 0..MaxStreak,
                    below : 0..MaxStreak, until : Nat, offset : Int,
                    alerted : BOOLEAN, limiter : Seq(Time)]
         /\ Active' /\ a'.below = 0 /\ a'.alerted = alerted /\ a'.limiter = limiter
         /\ ThresholdGuardrails' /\ Streaks'
<1>1. /\ p' = p /\ p \in ParamSet /\ down' \in 0..MaxStreak
  BY Observed
<1>2. /\ a.above \in 0..MaxStreak /\ MaxStreak \in Nat /\ p.minPersistence \in 1..MaxStreak
      /\ a.above < MaxStreak
  BY <1>1, StateFacts, ParamFacts DEF IInv, Streaks, Opens
<1>3. a.above + 1 \in 0..MaxStreak /\ 0 \in 0..MaxStreak /\ 0 < MaxStreak
  BY <1>2
<1>4. a' = [a EXCEPT !.state = "active", !.above = a.above + 1, !.below = 0,
                     !.alerted = alerted, !.limiter = limiter]
  BY DEF Opened
<1>5. /\ a'.state = "active" /\ a'.below = 0 /\ a'.alerted = alerted
      /\ a'.limiter = limiter /\ a'.offset = a.offset
  BY <1>4 DEF IInv, TypeOK
<1>6. ThresholdGuardrails'
  BY <1>1, <1>5, GuardrailsStay
<1>7. Active' /\ Streaks'
  BY <1>1, <1>3, <1>5 DEF Active, Streaks
<1> QED
  BY <1>3, <1>4, <1>5, <1>6, <1>7 DEF IInv, TypeOK

LEMMA AskingType ==
  ASSUME IInv, NEW now \in Time, now > lastEval
  PROVE  AfterAsking(now) \in Seq(Time)
<1>1. CASE p.assetLimit > 0
  <2> DEFINE more == IF Permits(a.limiter, now, p.assetLimit, Hour) THEN 1 ELSE 0
  <2>1. more \in {0, 1}
    OBVIOUS
  <2>2. AfterAllow(a.limiter, now, p.assetLimit, Hour) \in Seq(Time)
    BY <1>1, <2>1, Asked
  <2> QED
    BY <1>1, <2>2 DEF AfterAsking
<1>2. CASE ~ (p.assetLimit > 0)
  BY <1>2, StateFacts DEF IInv, AfterAsking
<1> QED
  BY <1>1, <1>2

\* An episode opens without an alert.
LEMMA WithheldStep ==
  ASSUME IInv, NEW now \in Time, NEW risk \in Risks,
         \/ Suppress(now, risk) \/ AssetLimited(now, risk) \/ SiteLimited(now, risk)
  PROVE  IInv'
<1>1. /\ Observe(now, risk) /\ Opens(risk) /\ fires' = fires /\ alerts' = alerts
      /\ \E l \in {a.limiter, AfterAsking(now)} : a' = Opened(FALSE, l)
  BY DEF Suppress, AssetLimited, SiteLimited
<1>2. /\ now \in Nat /\ lastEval \in Nat /\ now >= lastEval + 1
      /\ lastEval' = now /\ lastEval' \in 0..Horizon /\ p' = p /\ p \in ParamSet
      /\ up' \in 0..MaxStreak /\ down' \in 0..MaxStreak
  BY <1>1, Observed
<1>3. PICK l \in {a.limiter, AfterAsking(now)} : a' = Opened(FALSE, l)
  BY <1>1
<1>4. l \in Seq(Time)
  BY <1>2, AskingType, StateFacts DEF IInv
<1>5. /\ a' \in [state : {"normal", "pending", "active"}, above : 0..MaxStreak,
                 below : 0..MaxStreak, until : Nat, offset : Int,
                 alerted : BOOLEAN, limiter : Seq(Time)]
      /\ Active' /\ a'.below = 0 /\ a'.alerted = FALSE /\ a'.limiter = l
      /\ ThresholdGuardrails' /\ Streaks'
  BY <1>1, <1>3, <1>4, OpenEffect
<1>6. TypeOK'
  BY <1>1, <1>2, <1>5 DEF IInv, TypeOK
<1>7. Raised'
  BY <1>1, <1>5 DEF IInv, Raised, Opens
<1>8. Since'
  <2> SUFFICES ASSUME fires # <<>> PROVE now >= LastFire + 0
    BY <1>1, <1>2, <1>5 DEF Since, LastFire
  <2>1. lastEval >= LastFire + p.clearPersistence + a.above
    BY <1>1 DEF IInv, Since, Opens
  <2>2. LastFire \in Nat
    BY LastFireType DEF IInv
  <2>3. p.clearPersistence \in Nat /\ a.above \in Nat
    BY <1>2, StateFacts, ParamFacts DEF IInv
  <2> QED
    BY <1>2, <2>1, <2>2, <2>3
<1>9. Recalled' /\ AssetLimitKept' /\ AlertsApart'
  BY <1>1, <1>5, NoFireKept
<1> QED
  BY <1>5, <1>6, <1>7, <1>8, <1>9 DEF IInv

\* An episode opens with an alert.
LEMMA FireStep ==
  ASSUME IInv, NEW now \in Time, NEW risk \in Risks, Fire(now, risk)
  PROVE  IInv'
<1> DEFINE n == Len(fires)
           left == AfterAsking(now)
<1>1. /\ Observe(now, risk) /\ Opens(risk) /\ fires' = Append(fires, now)
      /\ alerts' = alerts + 1 /\ a' = Opened(TRUE, left) /\ now >= a.until
      /\ p.assetLimit > 0 => Permits(a.limiter, now, p.assetLimit, Hour)
  BY DEF Fire, AssetAllows
<1>2. /\ now \in Nat /\ lastEval \in Nat /\ now >= lastEval + 1
      /\ lastEval' = now /\ lastEval' \in 0..Horizon /\ p' = p /\ p \in ParamSet
      /\ up' \in 0..MaxStreak /\ down' \in 0..MaxStreak
  BY <1>1, Observed
<1>3. left \in Seq(Time)
  BY <1>2, AskingType
<1>4. /\ a' \in [state : {"normal", "pending", "active"}, above : 0..MaxStreak,
                 below : 0..MaxStreak, until : Nat, offset : Int,
                 alerted : BOOLEAN, limiter : Seq(Time)]
      /\ Active' /\ a'.below = 0 /\ a'.alerted = TRUE /\ a'.limiter = left
      /\ ThresholdGuardrails' /\ Streaks'
  BY <1>1, <1>3, OpenEffect
<1>0. fires \in Seq(Time) /\ alerts \in Nat
  BY DEF IInv, TypeOK
<1>5. /\ n \in Nat /\ \A i \in DOMAIN fires : i \in 1..n /\ fires[i] \in Nat
      /\ Hour \in Nat /\ p.assetLimit \in Nat /\ p.suppression \in Nat
      /\ p.clearPersistence \in Nat /\ p.minPersistence \in Nat /\ p.minPersistence > 0
      /\ a.above \in Nat /\ a.until \in Nat
  <2>1. TypeOK
    BY DEF IInv
  <2> QED
    BY <2>1, TimeFacts, EpisodeFacts
<1>6. /\ fires' \in Seq(Time) /\ DOMAIN fires = 1..n /\ DOMAIN fires' = 1..n + 1
      /\ Len(fires') = n + 1
      /\ \A i \in 1..n : fires'[i] = fires[i]
      /\ fires'[n + 1] = now
  BY <1>0, <1>1
<1>7. p.assetLimit > 0 =>
        /\ Len(left) <= p.assetLimit /\ Len(left) > 0 /\ left[Len(left)] = now
        /\ \A i \in DOMAIN fires : fires[i] + Hour > now =>
             \E m \in DOMAIN left :
               m <= Len(left) - 1 - (n - i) /\ left[m] = fires[i]
  BY <1>1, <1>2, Asked DEF AfterAsking
<1> HIDE DEF n, left
<1>8. TypeOK'
  <2>1. alerts' \in Nat
    BY <1>0, <1>1
  <2> QED
    BY <1>2, <1>4, <1>6, <2>1 DEF TypeOK
<1>9. Raised'
  <2>1. alerts = 0
    BY <1>1 DEF IInv, Raised, Opens
  <2>2. alerts' = 1
    BY <1>1, <2>1
  <2> QED
    BY <1>4, <2>2 DEF Raised
<1>10. Since'
  BY <1>2, <1>4, <1>6 DEF Since, LastFire
<1>11. ASSUME p.assetLimit > 0, NEW i \in 1..n, fires[i] + Hour > now
       PROVE  /\ n + 1 < i + p.assetLimit
              /\ \E m \in DOMAIN left : m <= Len(left) - (n + 1 - i) /\ left[m] = fires[i]
  <2>1. PICK m \in DOMAIN left : m <= Len(left) - 1 - (n - i) /\ left[m] = fires[i]
    BY <1>6, <1>7, <1>11
  <2>2. /\ m \in Nat /\ m >= 1 /\ i \in Nat /\ n \in Nat /\ p.assetLimit \in Nat
        /\ Len(left) \in Nat /\ Len(left) <= p.assetLimit
    <3>1. m \in 1..Len(left) /\ Len(left) \in Nat
      BY <1>3
    <3> QED
      BY <1>5, <1>7, <1>11, <3>1
  <2>3. m <= Len(left) - (n + 1 - i)
    BY <2>1, <2>2
  <2>4. n + 1 < i + p.assetLimit
    BY <2>2, <2>3
  <2> QED
    BY <2>1, <2>3, <2>4
<1>12. Recalled'
  <2>1. ASSUME p.assetLimit > 0, NEW i \in 1..n + 1, fires'[i] + Hour > now
        PROVE  \E m \in DOMAIN left :
                 m <= Len(left) - (n + 1 - i) /\ left[m] = fires'[i]
    <3>1. CASE i = n + 1
      <4>1. Len(left) \in DOMAIN left /\ Len(left) \in Nat
        BY <1>3, <1>7, <2>1
      <4>2. Len(left) <= Len(left) - (n + 1 - i)
        BY <1>5, <3>1, <4>1
      <4> QED
        BY <1>6, <1>7, <2>1, <3>1, <4>1, <4>2
    <3>2. CASE i \in 1..n
      BY <1>6, <1>11, <2>1, <3>2
    <3> QED
      BY <1>5, <3>1, <3>2
  <2>2. p.assetLimit > 0 => Listed(fires', now, left)
    <3>1. DOMAIN fires' = 1..n + 1 /\ Len(fires') = n + 1
      BY <1>6
    <3>2. ASSUME p.assetLimit > 0, NEW i \in DOMAIN fires', fires'[i] + Hour > now
          PROVE  \E m \in DOMAIN left :
                   m <= Len(left) - (Len(fires') - i) /\ left[m] = fires'[i]
      <4>1. PICK m \in DOMAIN left :
               m <= Len(left) - (n + 1 - i) /\ left[m] = fires'[i]
        BY <2>1, <3>1, <3>2
      <4>2. /\ n \in Nat /\ i \in Nat /\ m \in Nat /\ Len(left) \in Nat
            /\ Len(fires') = n + 1
        BY <1>3, <1>5, <3>1
      <4>3. m <= Len(left) - (Len(fires') - i)
        BY <4>1, <4>2
      <4> QED
        BY <4>1, <4>3
    <3> QED
      BY <3>2, Zenon DEF Listed
  <2> QED
    BY <1>2, <1>4, <2>2 DEF Recalled
<1>13. AssetLimitKept'
  <2>1. ASSUME p.assetLimit > 0, NEW i \in 1..n + 1, NEW j \in 1..n + 1,
               j >= i + p.assetLimit
        PROVE  fires'[j] >= fires'[i] + Hour
    <3>1. i \in 1..n
      BY <1>5, <2>1
    <3>2. fires'[i] = fires[i] /\ fires[i] \in Nat
      BY <1>5, <1>6, <3>1
    <3>3. CASE j \in 1..n
      <4>1. fires[j] >= fires[i] + Hour
        BY <1>6, <2>1, <3>1, <3>3 DEF IInv, AssetLimitKept
      <4> QED
        BY <1>6, <3>2, <3>3, <4>1
    <3>4. CASE j = n + 1
      <4>1. ~ (fires[i] + Hour > now)
        BY <1>5, <1>11, <2>1, <3>1, <3>4
      <4>2. now >= fires[i] + Hour
        BY <1>2, <1>5, <3>2, <4>1
      <4> QED
        BY <1>6, <3>2, <3>4, <4>2
    <3> QED
      BY <1>5, <3>3, <3>4
  <2> QED
    BY <1>2, <1>6, <2>1 DEF AssetLimitKept
<1>14. AlertsApart'
  <2> DEFINE c == p.clearPersistence
             g == Larger(p.suppression, p.minPersistence)
  <2>1. c \in Nat /\ g \in Nat /\ g \in {p.suppression, p.minPersistence}
    BY <1>5 DEF Larger
  <2>2. \A i, j \in 1..n : i < j => fires[j] >= fires[i] + c + g
    BY <1>6 DEF IInv, AlertsApart
  <2>3. ASSUME n > 0 PROVE fires[n] \in Nat /\ n \in 1..n /\ now >= fires[n] + c + g
    <3>1. fires # <<>> /\ LastFire = fires[n]
      BY <1>0, <2>3 DEF LastFire, n
    <3>2. fires[n] \in Nat /\ n \in 1..n
      BY <1>5, <1>6, <2>3
    <3>3. /\ lastEval >= fires[n] + c + a.above
          /\ a.until >= fires[n] + c + p.suppression
          /\ a.above + 1 >= p.minPersistence
      BY <1>1, <3>1 DEF IInv, Since, Opens
    <3> HIDE DEF c, g
    <3>4. now >= fires[n] + c + p.minPersistence
      BY <1>2, <1>5, <2>1, <3>2, <3>3
    <3>5. now >= fires[n] + c + p.suppression
      <4>1. now >= a.until
        BY <1>1
      <4> QED
        BY <1>2, <1>5, <2>1, <3>2, <3>3, <4>1
    <3> QED
      BY <2>1, <3>2, <3>4, <3>5
  <2> HIDE DEF c, g
  <2>4. ASSUME NEW i \in 1..n + 1, NEW j \in 1..n + 1, i < j
        PROVE  fires'[j] >= fires'[i] + c + g
    <3>1. i \in 1..n /\ n > 0
      BY <1>5, <2>4
    <3>2. fires'[i] = fires[i] /\ fires[i] \in Nat
      BY <1>5, <1>6, <3>1
    <3>3. CASE j \in 1..n
      <4>1. fires[j] >= fires[i] + c + g
        BY <2>2, <2>4, <3>1, <3>3
      <4> QED
        BY <1>6, <3>2, <3>3, <4>1
    <3>4. CASE j = n + 1
      <4>1. fires[n] >= fires[i]
        <5>1. CASE i = n
          BY <3>2, <5>1
        <5>2. CASE i < n
          <6>1. fires[n] >= fires[i] + c + g
            BY <2>2, <2>3, <3>1, <5>2
          <6> QED
            BY <2>1, <2>3, <3>1, <3>2, <6>1
        <5> QED
          BY <1>5, <3>1, <5>1, <5>2
      <4>2. now >= fires[i] + c + g
        BY <1>2, <2>1, <2>3, <3>1, <3>2, <4>1
      <4> QED
        BY <1>6, <3>2, <3>4, <4>2
    <3> QED
      BY <1>5, <3>3, <3>4
  <2> QED
    BY <1>2, <1>6, <2>4 DEF AlertsApart, c, g
<1> QED
  BY <1>4, <1>8, <1>9, <1>10, <1>12, <1>13, <1>14 DEF IInv

\* An episode goes on.
LEMMA HoldStep ==
  ASSUME IInv, NEW now \in Time, NEW risk \in Risks, Hold(now, risk)
  PROVE  IInv'
<1> DEFINE n == IF risk >= p.off THEN 0 ELSE a.below + 1
<1>1. /\ Observe(now, risk) /\ fires' = fires /\ alerts' = alerts /\ Active
      /\ a' = [a EXCEPT !.below = n]
      /\ risk >= p.off \/ a.below + 1 < p.clearPersistence
  BY DEF Hold
<1>2. /\ now \in Nat /\ risk \in Nat /\ lastEval \in Nat /\ now >= lastEval + 1
      /\ lastEval' = now /\ lastEval' \in 0..Horizon /\ p' = p /\ p \in ParamSet
      /\ up' \in 0..MaxStreak /\ down' \in 0..MaxStreak
      /\ risk < p.off => down' = Smaller(down + 1, MaxStreak)
  BY <1>1, Observed
<1>3. /\ MaxStreak \in Nat /\ MaxStreak > 0 /\ down \in Nat /\ a.below \in Nat
      /\ p.clearPersistence \in 1..MaxStreak /\ p.off \in Nat
  <2>1. p.clearPersistence \in 1..MaxStreak /\ p.off \in Nat
    BY <1>2, ParamFacts
  <2>2. MaxStreak \in Nat /\ down \in Nat /\ a.below \in Nat
    BY StateFacts, EpisodeFacts DEF IInv
  <2> QED
    BY <2>1, <2>2
<1>4. n \in 0..MaxStreak /\ n < MaxStreak /\ n <= a.below + 1
  BY <1>1, <1>2, <1>3
<1>5. n <= down'
  <2>1. CASE risk >= p.off
    BY <1>2, <2>1
  <2>2. CASE ~ (risk >= p.off)
    <3>1. n = a.below + 1 /\ down' = Smaller(down + 1, MaxStreak)
      BY <1>2, <1>3, <2>2
    <3>2. a.below <= down
      BY <1>1 DEF IInv, Streaks
    <3> QED
      BY <1>3, <1>4, <3>1, <3>2 DEF Smaller
  <2> QED
    BY <2>1, <2>2
<1> HIDE DEF n
<1>6. /\ a'.state = a.state /\ a'.below = n /\ a'.offset = a.offset
      /\ a'.limiter = a.limiter /\ a'.alerted = a.alerted
  BY <1>1 DEF IInv, TypeOK
<1>7. TypeOK'
  BY <1>1, <1>2, <1>4 DEF IInv, TypeOK
<1>8. Active'
  BY <1>1, <1>6 DEF Active
<1>9. Streaks'
  BY <1>4, <1>5, <1>6, <1>8 DEF Streaks
<1>10. Raised'
  BY <1>1, <1>6, <1>8 DEF IInv, Raised
<1>11. Since'
  <2> SUFFICES ASSUME fires # <<>> PROVE now >= LastFire + n
    BY <1>1, <1>2, <1>6, <1>8 DEF Since, LastFire
  <2>1. lastEval >= LastFire + a.below
    BY <1>1 DEF IInv, Since
  <2>2. LastFire \in Nat
    BY LastFireType DEF IInv
  <2>3. /\ now \in Nat /\ lastEval \in Nat /\ now >= lastEval + 1 /\ n \in Nat
        /\ a.below \in Nat /\ n <= a.below + 1
    BY <1>2, <1>3, <1>4
  <2> QED
    BY <2>1, <2>2, <2>3
<1>12. ThresholdGuardrails'
  BY <1>2, <1>6, GuardrailsStay
<1>13. Recalled' /\ AssetLimitKept' /\ AlertsApart'
  BY <1>1, <1>6, NoFireKept
<1> QED
  BY <1>7, <1>9, <1>10, <1>11, <1>12, <1>13 DEF IInv

\* An episode ends, and its quiet period starts.
LEMMA ClearStep ==
  ASSUME IInv, NEW now \in Time, NEW risk \in Risks, Clear(now, risk)
  PROVE  IInv'
<1>1. /\ Observe(now, risk) /\ fires' = fires /\ alerts' = 0 /\ Active
      /\ a' = [a EXCEPT !.state = "normal", !.above = 0, !.below = 0,
                        !.until = now + p.suppression, !.alerted = FALSE]
      /\ a.below + 1 >= p.clearPersistence
  BY DEF Clear
<1>2. /\ now \in Nat /\ lastEval \in Nat /\ now >= lastEval + 1
      /\ lastEval' = now /\ lastEval' \in 0..Horizon /\ p' = p /\ p \in ParamSet
      /\ up' \in 0..MaxStreak /\ down' \in 0..MaxStreak
  BY <1>1, Observed
<1>3. /\ MaxStreak \in Nat /\ MaxStreak > 0 /\ p.suppression \in Nat
      /\ p.clearPersistence \in Nat /\ a.below \in Nat
  <2>1. p.clearPersistence \in 1..MaxStreak
    BY <1>2, ParamFacts
  <2>2. /\ MaxStreak \in Nat /\ p.suppression \in Nat /\ p.clearPersistence \in Nat
        /\ a.below \in Nat
    BY StateFacts, EpisodeFacts DEF IInv
  <2> QED
    BY <2>1, <2>2
<1>4. now + p.suppression \in Nat /\ 0 \in 0..MaxStreak
  BY <1>2, <1>3
<1>5. /\ a'.state = "normal" /\ a'.above = 0 /\ a'.until = now + p.suppression
      /\ a'.offset = a.offset /\ a'.limiter = a.limiter
  BY <1>1 DEF IInv, TypeOK
<1>6. a' \in [state : {"normal", "pending", "active"}, above : 0..MaxStreak,
              below : 0..MaxStreak, until : Nat, offset : Int,
              alerted : BOOLEAN, limiter : Seq(Time)]
  BY <1>1, <1>4 DEF IInv, TypeOK
<1>7. TypeOK'
  BY <1>1, <1>2, <1>6 DEF IInv, TypeOK
<1>8. ~ Active'
  BY <1>5 DEF Active
<1>9. Streaks' /\ Raised'
  BY <1>1, <1>2, <1>3, <1>5, <1>8 DEF Streaks, Raised
<1>10. Since'
  <2> SUFFICES ASSUME fires # <<>>
               PROVE  /\ now >= LastFire + p.clearPersistence + 0
                      /\ now + p.suppression >= LastFire + p.clearPersistence + p.suppression
    BY <1>1, <1>2, <1>5, <1>8 DEF Since, LastFire
  <2>1. lastEval >= LastFire + a.below
    BY <1>1 DEF IInv, Since
  <2>2. LastFire \in Nat
    BY LastFireType DEF IInv
  <2>3. a.below + 1 >= p.clearPersistence
    BY <1>1
  <2> QED
    BY <1>2, <1>3, <2>1, <2>2, <2>3
<1>11. ThresholdGuardrails'
  BY <1>2, <1>5, GuardrailsStay
<1>12. Recalled' /\ AssetLimitKept' /\ AlertsApart'
  BY <1>1, <1>5, NoFireKept
<1> QED
  BY <1>7, <1>9, <1>10, <1>11, <1>12 DEF IInv

LEMMA EvaluateStep ==
  ASSUME IInv, NEW now \in Time, NEW risk \in Risks, Evaluate(now, risk)
  PROVE  IInv'
  BY QuietStep, WithheldStep, FireStep, HoldStep, ClearStep DEF Evaluate

-----------------------------------------------------------------------------
\* A verdict moves the offset, inside the guardrails.
LEMMA FeedbackStep ==
  ASSUME IInv, NEW verdict \in Verdicts, ApplyFeedback(verdict)
  PROVE  IInv'
<1> DEFINE x == ClampOffset(p, Wanted(verdict))
<1>1. /\ a' = [a EXCEPT !.offset = x]
      /\ UNCHANGED <<p, lastEval, up, down, fires, alerts>>
  BY DEF ApplyFeedback
<1>2. p \in ParamSet /\ a.offset \in Int
  BY DEF IInv, TypeOK
<1>3. Wanted(verdict) \in Int
  BY <1>2, ParamFacts DEF Wanted
<1>4. x \in Int
  BY <1>2, <1>3, ClampBounds
<1>5. a'.offset = x
  BY <1>1 DEF IInv, TypeOK
<1>6. ThresholdGuardrails'
  BY <1>1, <1>2, <1>3, <1>5, GuardrailsHold
<1> HIDE DEF x
<1>7. /\ a'.state = a.state /\ a'.above = a.above /\ a'.below = a.below
      /\ a'.until = a.until /\ a'.alerted = a.alerted /\ a'.limiter = a.limiter
  BY <1>1 DEF IInv, TypeOK
<1>8. TypeOK'
  BY <1>1, <1>4 DEF IInv, TypeOK
<1>9. Streaks' /\ Raised' /\ Since'
  BY <1>1, <1>7 DEF IInv, Streaks, Raised, Since, LastFire, Active
<1>10. Recalled' /\ AssetLimitKept' /\ AlertsApart'
  BY <1>1, <1>7 DEF IInv, Recalled, AssetLimitKept, AlertsApart
<1> QED
  BY <1>6, <1>8, <1>9, <1>10 DEF IInv

\* A template update starts the histories again, and keeps the episode.
LEMMA SetParamsStep ==
  ASSUME IInv, NEW q \in ParamSet, SetParams(q)
  PROVE  IInv'
<1> DEFINE x == ClampOffset(q, a.offset)
<1>1. /\ p' = q /\ a' = [a EXCEPT !.limiter = <<>>, !.offset = x]
      /\ lastEval' = 0 /\ fires' = <<>> /\ UNCHANGED <<up, down, alerts>>
  BY DEF SetParams
<1>2. a.offset \in Int
  BY DEF IInv, TypeOK
<1>3. x \in Int
  BY <1>2, ClampBounds
<1>4. a'.offset = x
  BY <1>1 DEF IInv, TypeOK
<1>5. ThresholdGuardrails'
  BY <1>1, <1>2, <1>4, GuardrailsHold
<1> HIDE DEF x
<1>6. /\ a'.state = a.state /\ a'.above = a.above /\ a'.below = a.below
      /\ a'.alerted = a.alerted
  BY <1>1 DEF IInv, TypeOK
<1>7. TypeOK'
  <2>1. 0 \in 0..Horizon
    BY PolicyAssumption
  <2>2. <<>> \in Seq(Time)
    OBVIOUS
  <2> QED
    BY <1>1, <1>3, <2>1, <2>2 DEF IInv, TypeOK
<1>8. Streaks' /\ Raised'
  BY <1>1, <1>6 DEF IInv, Streaks, Raised, Active
<1>9. Since' /\ Recalled' /\ AssetLimitKept' /\ AlertsApart'
  BY <1>1 DEF Since, Recalled, Listed, AssetLimitKept, AlertsApart
<1> QED
  BY <1>5, <1>7, <1>8, <1>9 DEF IInv

LEMMA NextInv == IInv /\ [Next]_vars => IInv'
<1> SUFFICES ASSUME IInv, [Next]_vars PROVE IInv'
  OBVIOUS
<1>1. CASE UNCHANGED vars
  BY <1>1 DEF vars, IInv, TypeOK, ThresholdGuardrails, Threshold, Streaks, Raised, Active,
              Recalled, AssetLimitKept, Since, LastFire, AlertsApart
<1>2. CASE Next
  BY <1>2, EvaluateStep, FeedbackStep, SetParamsStep DEF Next
<1> QED
  BY <1>1, <1>2

\* The inductive invariant of one asset's alerting.
THEOREM Invariance == Spec => []IInv
  BY InitInv, NextInv, PTL DEF Spec

\* The counters and the offset stay in their ranges.
THEOREM PolicyTypeOK == Spec => []TypeOK
<1>1. IInv => TypeOK
  BY DEF IInv
<1> QED
  BY <1>1, Invariance, PTL

\* Whatever verdicts and template updates come, the offset and the hysteresis
\* band stay within the guardrails of rule ADAPT-1.
THEOREM Guardrails == Spec => []ThresholdGuardrails
<1>1. IInv => ThresholdGuardrails
  BY DEF IInv
<1> QED
  BY <1>1, Invariance, PTL

\* No window of the limiter's length has more alerts than the asset's limit.
THEOREM LimitKept == Spec => []AssetLimitKept
<1>1. IInv => AssetLimitKept
  BY DEF IInv
<1> QED
  BY <1>1, Invariance, PTL

\* Persistence and the quiet period keep two alerts apart.
THEOREM Distance == Spec => []AlertsApart
<1>1. IInv => AlertsApart
  BY DEF IInv
<1> QED
  BY <1>1, Invariance, PTL

\* An episode opens after MinPersistence evaluations in a row at or above the
\* threshold in force at each of them.
THEOREM Opening == Spec => OpeningNeedsPersistence
<1>1. ASSUME IInv, [Next]_vars
      PROVE  [~ Active /\ Active' => up' >= p.minPersistence]_vars
  <2> SUFFICES ASSUME ~ Active, Active', Next PROVE up' >= p.minPersistence
    BY <1>1 DEF vars, Active
  <2>1. PICK now \in Time, risk \in Risks : Evaluate(now, risk)
    <3>1. ASSUME NEW verdict \in Verdicts, ApplyFeedback(verdict) PROVE FALSE
      BY <1>1, <3>1 DEF ApplyFeedback, Active, IInv, TypeOK
    <3>2. ASSUME NEW q \in ParamSet, SetParams(q) PROVE FALSE
      BY <1>1, <3>2 DEF SetParams, Active, IInv, TypeOK
    <3> QED
      BY <3>1, <3>2 DEF Next
  <2>2. Opens(risk) /\ Observe(now, risk)
    <3>1. ~ (BelowThreshold(now, risk) \/ Pend(now, risk))
      BY <1>1 DEF BelowThreshold, Pend, Active, IInv, TypeOK
    <3>2. ~ (Hold(now, risk) \/ Clear(now, risk))
      BY DEF Hold, Clear
    <3> QED
      BY <2>1, <3>1, <3>2 DEF Evaluate, Suppress, AssetLimited, SiteLimited, Fire
  <2>3. up' = Smaller(up + 1, MaxStreak)
    BY <1>1, <2>2, Observed DEF Opens
  <2>4. a.above <= up /\ a.above + 1 >= p.minPersistence
    BY <1>1, <2>2 DEF IInv, Streaks, Opens
  <2>5. /\ up \in Nat /\ a.above \in 0..MaxStreak /\ MaxStreak \in Nat
        /\ p.minPersistence \in 1..MaxStreak
    BY <1>1, StateFacts, ParamFacts DEF IInv
  <2> QED
    BY <2>3, <2>4, <2>5 DEF Smaller
<1> QED
  BY <1>1, Invariance, PTL DEF Spec, OpeningNeedsPersistence

\* An episode ends after ClearPersistence evaluations in a row below
\* OffThreshold.
THEOREM Clearing == Spec => ClearingNeedsPersistence
<1>1. ASSUME IInv, [Next]_vars
      PROVE  [Active /\ ~ Active' => down' >= p.clearPersistence]_vars
  <2> SUFFICES ASSUME Active, ~ Active', Next PROVE down' >= p.clearPersistence
    BY <1>1 DEF vars, Active
  <2>1. PICK now \in Time, risk \in Risks : Evaluate(now, risk)
    <3>1. ASSUME NEW verdict \in Verdicts, ApplyFeedback(verdict) PROVE FALSE
      BY <1>1, <3>1 DEF ApplyFeedback, Active, IInv, TypeOK
    <3>2. ASSUME NEW q \in ParamSet, SetParams(q) PROVE FALSE
      BY <1>1, <3>2 DEF SetParams, Active, IInv, TypeOK
    <3> QED
      BY <3>1, <3>2 DEF Next
  <2>2. Clear(now, risk)
    <3>1. ~ Hold(now, risk)
      BY <1>1 DEF Hold, Active, IInv, TypeOK
    <3> QED
      BY <2>1, <3>1 DEF Evaluate, BelowThreshold, Pend, Suppress, AssetLimited,
                        SiteLimited, Fire, Opens
  <2>3. down' = Smaller(down + 1, MaxStreak) /\ a.below + 1 >= p.clearPersistence
    BY <1>1, <2>2, Observed DEF Clear
  <2>4. a.below <= down
    BY <1>1 DEF IInv, Streaks
  <2>5. /\ down \in Nat /\ a.below \in 0..MaxStreak /\ MaxStreak \in Nat
        /\ p.clearPersistence \in 1..MaxStreak
    BY <1>1, StateFacts, ParamFacts DEF IInv
  <2> QED
    BY <2>3, <2>4, <2>5 DEF Smaller
<1> QED
  BY <1>1, Invariance, PTL DEF Spec, ClearingNeedsPersistence

-----------------------------------------------------------------------------
\* What an evaluation is to the contract of an episode: a start, an end, or nothing.
Phase == IF ~ Active THEN "quiet" ELSE IF a.alerted THEN "alerted" ELSE "withheld"

LEMMA EvaluationKeepsContract ==
  ASSUME IInv, NEW now \in Time, NEW risk \in Risks, Evaluate(now, risk)
  PROVE  \/ Phase = "quiet" /\ Phase' = "alerted" /\ alerts' = 1
         \/ Phase = "quiet" /\ Phase' = "withheld" /\ alerts' = 0
         \/ Phase # "quiet" /\ Phase' = "quiet" /\ alerts' = 0
         \/ Phase' = Phase /\ alerts' = alerts
<1>1. CASE BelowThreshold(now, risk) \/ Pend(now, risk)
  <2>1. ~ Active /\ ~ Active' /\ alerts' = alerts
    BY <1>1 DEF BelowThreshold, Pend, Active, IInv, TypeOK
  <2> QED
    BY <2>1 DEF Phase
<1>2. CASE Suppress(now, risk) \/ AssetLimited(now, risk) \/ SiteLimited(now, risk)
  <2>1. /\ Opens(risk) /\ alerts' = alerts
        /\ \E l \in {a.limiter, AfterAsking(now)} : a' = Opened(FALSE, l)
    BY <1>2 DEF Suppress, AssetLimited, SiteLimited
  <2>2. a'.state = "active" /\ a'.alerted = FALSE
    BY <2>1 DEF Opened, IInv, TypeOK
  <2>3. ~ Active /\ alerts = 0
    BY <2>1 DEF Opens, IInv, Raised
  <2> QED
    BY <2>1, <2>2, <2>3 DEF Phase, Active
<1>3. CASE Fire(now, risk)
  <2>1. /\ Opens(risk) /\ alerts' = alerts + 1 /\ a' = Opened(TRUE, AfterAsking(now))
    BY <1>3 DEF Fire
  <2>2. a'.state = "active" /\ a'.alerted = TRUE
    BY <2>1 DEF Opened, IInv, TypeOK
  <2>3. ~ Active /\ alerts = 0
    BY <2>1 DEF Opens, IInv, Raised
  <2>4. alerts' = 1
    BY <2>1, <2>3
  <2> QED
    BY <2>2, <2>3, <2>4 DEF Phase, Active
<1>4. CASE Hold(now, risk)
  <2>1. a'.state = a.state /\ a'.alerted = a.alerted /\ alerts' = alerts
    BY <1>4 DEF Hold, IInv, TypeOK
  <2> QED
    BY <2>1 DEF Phase, Active
<1>5. CASE Clear(now, risk)
  <2>1. Active /\ a'.state = "normal" /\ alerts' = 0
    BY <1>5 DEF Clear, IInv, TypeOK
  <2> QED
    BY <2>1 DEF Phase, Active
<1> QED
  BY <1>1, <1>2, <1>3, <1>4, <1>5 DEF Evaluate

LEMMA StepKeepsContract ==
  ASSUME IInv, [Next]_vars
  PROVE  \/ EpisodeContract!Next
         \/ Phase' = Phase /\ alerts' = alerts
<1>1. CASE UNCHANGED vars
  BY <1>1 DEF vars, Phase, Active
<1>2. CASE \E now \in Time, risk \in Risks : Evaluate(now, risk)
  BY <1>2, EvaluationKeepsContract
     DEF Phase, EpisodeContract!Next, EpisodeContract!Alert, EpisodeContract!Withhold,
         EpisodeContract!End
<1>3. CASE \E verdict \in Verdicts : ApplyFeedback(verdict)
  <2>1. a'.state = a.state /\ a'.alerted = a.alerted /\ alerts' = alerts
    BY <1>3 DEF ApplyFeedback, IInv, TypeOK
  <2> QED
    BY <2>1 DEF Phase, Active
<1>4. CASE \E q \in ParamSet : SetParams(q)
  <2>1. a'.state = a.state /\ a'.alerted = a.alerted /\ alerts' = alerts
    BY <1>4 DEF SetParams, IInv, TypeOK
  <2> QED
    BY <2>1 DEF Phase, Active
<1> QED
  BY <1>1, <1>2, <1>3, <1>4 DEF Next

\* The policy implements Episode: an episode is alerted when it opens or never,
\* and ends before the next one opens (docs/adr/0003).
THEOREM Contract == Spec => ImplementsEpisode
<1>1. Init => EpisodeContract!Init
  BY DEF Init, Fresh, Active, EpisodeContract!Init
<1>2. ASSUME IInv, [Next]_vars
      PROVE  [EpisodeContract!Next]_<<IF ~ Active THEN "quiet"
                                      ELSE IF a.alerted THEN "alerted" ELSE "withheld", alerts>>
  BY <1>2, StepKeepsContract DEF Phase
<1> QED
  BY <1>1, <1>2, Invariance, PTL DEF Spec, ImplementsEpisode, EpisodeContract!Spec
=============================================================================
