---------------------------- MODULE AlertPolicy ----------------------------
(***************************************************************************)
(* alerting.AssetPolicy (policy.go): the alerting state machine of one     *)
(* asset, as the engine drives it.  Risks, thresholds and offsets are in   *)
(* thousandths (Unit = 1.0); times and durations are natural numbers.      *)
(* The engine evaluates at increasing event times, until a template update *)
(* (SetParams) resets its high-water mark.  The site limiter is shared     *)
(* with the other assets of the site, so what it answers is arbitrary here.*)
(***************************************************************************)
EXTENDS SlidingWindow, FiniteSets

CONSTANTS
  ParamSet,      \* the alerting.Params the asset's class may be given
  SavedOffsets,  \* offsets a snapshot may hold (engine.applyTemplate)
  Risks,         \* fused risks an evaluation may bring
  Hour,          \* the limiter's window
  Horizon,       \* bound: event times are 1..Horizon
  MaxStreak      \* bound: where the histories up and down stop counting

Unit == 1000
MinBand == 10    \* the 0.01 that EffectiveThreshold keeps above OffThreshold

\* Params.Validate.
ValidParams(q) ==
  /\ q.on \in 1..Unit /\ q.off \in 0..q.on - 1
  /\ q.minPersistence \in Nat \ {0} /\ q.clearPersistence \in Nat \ {0}
  /\ q.suppression \in Nat /\ q.assetLimit \in Nat
  /\ q.dismissStep \in Nat /\ q.confirmStep \in Nat /\ q.maxOffset \in Nat
  /\ q.maxThreshold = 0 \/ q.maxThreshold \in q.on + 1..Unit

ASSUME PolicyAssumption ==
  /\ \A q \in ParamSet :
       /\ ValidParams(q)
       /\ q.minPersistence <= MaxStreak /\ q.clearPersistence <= MaxStreak
  /\ SavedOffsets \subseteq Int
  /\ Risks \subseteq Nat
  /\ Hour \in Nat \ {0}
  /\ Horizon \in Nat
  /\ MaxStreak \in Nat

VARIABLES
  p,          \* a.p
  a,          \* the rest of AssetPolicy's state
  lastEval,   \* engine: event time of the asset's last evaluation
  up,         \* history: evaluations in a row with risk at or above the threshold in force
  down,       \* history: evaluations in a row with risk below OffThreshold
  fires,      \* history: event times of the alerts fired since the last SetParams
  alerts      \* history: alerts fired since the last clear

vars == <<p, a, lastEval, up, down, fires, alerts>>

Time == 1..Horizon
Verdicts == {"confirm", "dismiss"}

Smaller(x, y) == IF x < y THEN x ELSE y
Larger(x, y) == IF x < y THEN y ELSE x

-----------------------------------------------------------------------------
\* EffectiveThreshold and clampOffset.  A MaxThreshold of 0 stands for 1.
ThresholdCap(q) == IF q.maxThreshold = 0 THEN Unit ELSE q.maxThreshold

EffectiveThreshold(q, offset) ==
  Larger(Smaller(q.on + offset, ThresholdCap(q)), q.off + MinBand)

ClampOffset(q, offset) == Larger(Smaller(offset, q.maxOffset), -q.maxOffset)

\* NewAssetPolicy followed by SetOffset, for a new asset or a restored one.
Fresh(q, offset) ==
  [state |-> "normal", above |-> 0, below |-> 0, until |-> 0,
   offset |-> ClampOffset(q, offset), alerted |-> FALSE, limiter |-> <<>>]

Init ==
  /\ p \in ParamSet
  /\ \E offset \in SavedOffsets : a = Fresh(p, offset)
  /\ lastEval = 0
  /\ up = 0 /\ down = 0
  /\ fires = <<>> /\ alerts = 0

-----------------------------------------------------------------------------
Threshold == EffectiveThreshold(p, a.offset)
Active == a.state = "active"

\* What every evaluation does: engine.evaluate moves lastEval first.
Observe(now, risk) ==
  /\ now > lastEval
  /\ lastEval' = now
  /\ up' = IF risk >= Threshold THEN Smaller(up + 1, MaxStreak) ELSE 0
  /\ down' = IF risk < p.off THEN Smaller(down + 1, MaxStreak) ELSE 0
  /\ p' = p

\* Mutant: a dip below the threshold does not start the count again.
BelowThresholdKeepsCount(now, risk) ==
  /\ ~ Active /\ risk < Threshold
  /\ Observe(now, risk)
  /\ a' = [a EXCEPT !.state = "normal"]
  /\ UNCHANGED <<fires, alerts>>

BelowThreshold(now, risk) ==
  /\ ~ Active /\ risk < Threshold
  /\ Observe(now, risk)
  /\ a' = [a EXCEPT !.state = "normal", !.above = 0]
  /\ UNCHANGED <<fires, alerts>>

Pend(now, risk) ==
  /\ ~ Active /\ risk >= Threshold
  /\ a.above + 1 < p.minPersistence
  /\ Observe(now, risk)
  /\ a' = [a EXCEPT !.state = "pending", !.above = @ + 1]
  /\ UNCHANGED <<fires, alerts>>

\* Mutant: an active episode opens again.
OpensAgain(risk) == risk >= Threshold /\ a.above + 1 >= p.minPersistence

\* The evaluation that meets the persistence opens an episode.
Opens(risk) == ~ Active /\ risk >= Threshold /\ a.above + 1 >= p.minPersistence

Opened(alerted, limiter) ==
  [a EXCEPT !.state = "active", !.above = @ + 1, !.below = 0,
            !.alerted = alerted, !.limiter = limiter]

\* The asset's limiter, absent when the limit is 0.
AssetAllows(now) == p.assetLimit > 0 => Permits(a.limiter, now, p.assetLimit, Hour)

\* Mutant: the limiter is asked and not told.
AfterAskingForgets(now) == a.limiter

AfterAsking(now) ==
  IF p.assetLimit > 0 THEN AfterAllow(a.limiter, now, p.assetLimit, Hour) ELSE a.limiter

Suppress(now, risk) ==
  /\ Opens(risk) /\ now < a.until
  /\ Observe(now, risk)
  /\ a' = Opened(FALSE, a.limiter)
  /\ UNCHANGED <<fires, alerts>>

AssetLimited(now, risk) ==
  /\ Opens(risk) /\ now >= a.until /\ ~ AssetAllows(now)
  /\ Observe(now, risk)
  /\ a' = Opened(FALSE, AfterAsking(now))
  /\ UNCHANGED <<fires, alerts>>

\* The site's refusal comes after the asset's limiter recorded the event.
SiteLimited(now, risk) ==
  /\ Opens(risk) /\ now >= a.until /\ AssetAllows(now)
  /\ Observe(now, risk)
  /\ a' = Opened(FALSE, AfterAsking(now))
  /\ UNCHANGED <<fires, alerts>>

Fire(now, risk) ==
  /\ Opens(risk) /\ now >= a.until /\ AssetAllows(now)
  /\ Observe(now, risk)
  /\ a' = Opened(TRUE, AfterAsking(now))
  /\ fires' = Append(fires, now)
  /\ alerts' = alerts + 1

\* Mutants of Hold: a bounce does not start the clear count again; the count
\* is never compared with ClearPersistence.
HoldKeepsCount(now, risk) ==
  /\ Active
  /\ risk >= p.off \/ a.below + 1 < p.clearPersistence
  /\ Observe(now, risk)
  /\ a' = [a EXCEPT !.below = IF risk >= p.off THEN @ ELSE @ + 1]
  /\ UNCHANGED <<fires, alerts>>
HoldCounts(now, risk) ==
  /\ Active
  /\ Observe(now, risk)
  /\ a' = [a EXCEPT !.below = IF risk >= p.off THEN 0 ELSE @ + 1]
  /\ UNCHANGED <<fires, alerts>>

Hold(now, risk) ==
  /\ Active
  /\ risk >= p.off \/ a.below + 1 < p.clearPersistence
  /\ Observe(now, risk)
  /\ a' = [a EXCEPT !.below = IF risk >= p.off THEN 0 ELSE @ + 1]
  /\ UNCHANGED <<fires, alerts>>

\* Mutant: no quiet period after an episode.
ClearUnsuppressed(now, risk) ==
  /\ Active /\ risk < p.off /\ a.below + 1 >= p.clearPersistence
  /\ Observe(now, risk)
  /\ a' = [a EXCEPT !.state = "normal", !.above = 0, !.below = 0, !.alerted = FALSE]
  /\ alerts' = 0
  /\ UNCHANGED fires

Clear(now, risk) ==
  /\ Active /\ risk < p.off /\ a.below + 1 >= p.clearPersistence
  /\ Observe(now, risk)
  /\ a' = [a EXCEPT !.state = "normal", !.above = 0, !.below = 0,
                    !.until = now + p.suppression, !.alerted = FALSE]
  /\ alerts' = 0
  /\ UNCHANGED fires

Evaluate(now, risk) ==
  \/ BelowThreshold(now, risk) \/ Pend(now, risk)
  \/ Suppress(now, risk) \/ AssetLimited(now, risk) \/ SiteLimited(now, risk)
  \/ Fire(now, risk) \/ Hold(now, risk) \/ Clear(now, risk)

\* Rule ADAPT-1.
Wanted(verdict) ==
  IF verdict = "dismiss" THEN a.offset + p.dismissStep ELSE a.offset - p.confirmStep

ApplyFeedback(verdict) ==
  /\ a' = [a EXCEPT !.offset = ClampOffset(p, Wanted(verdict))]
  /\ UNCHANGED <<p, lastEval, up, down, fires, alerts>>

\* Mutant: the offset is not clamped to the new MaxOffset.
SetParamsUnclamped(q) ==
  /\ p' = q
  /\ a' = [a EXCEPT !.limiter = <<>>]
  /\ lastEval' = 0
  /\ fires' = <<>>
  /\ UNCHANGED <<up, down, alerts>>

\* A template update: new parameters and an empty limiter, the same episode;
\* engine.applyTemplate also forgets when the asset was last evaluated.
SetParams(q) ==
  /\ p' = q
  /\ a' = [a EXCEPT !.limiter = <<>>, !.offset = ClampOffset(q, @)]
  /\ lastEval' = 0
  /\ fires' = <<>>
  /\ UNCHANGED <<up, down, alerts>>

Next ==
  \/ \E now \in Time, risk \in Risks : Evaluate(now, risk)
  \/ \E verdict \in Verdicts : ApplyFeedback(verdict)
  \/ \E q \in ParamSet : SetParams(q)

Spec == Init /\ [][Next]_vars

-----------------------------------------------------------------------------
TypeOK ==
  /\ p \in ParamSet
  /\ a \in [state : {"normal", "pending", "active"}, above : 0..MaxStreak,
            below : 0..MaxStreak, until : Nat, offset : Int,
            alerted : BOOLEAN, limiter : Seq(Time)]
  /\ lastEval \in 0..Horizon
  /\ up \in 0..MaxStreak /\ down \in 0..MaxStreak
  /\ fires \in Seq(Time) /\ alerts \in Nat

\* The guardrails of rule ADAPT-1 that hold after any feedback and any
\* template update: the offset stays within the class's current MaxOffset, and
\* the hysteresis band keeps its width, so an episode that has just opened is
\* never already on its way to clearing.
ThresholdGuardrails ==
  /\ a.offset \in -p.maxOffset..p.maxOffset
  /\ Threshold >= p.off + MinBand
  /\ Threshold <= Larger(ThresholdCap(p), p.off + MinBand)

\* What policy.go:42-45 says: "the effective threshold never leaves
\* (OffThreshold, MaxThreshold]", where an unset MaxThreshold stands for 1.
ThresholdWithinDocumentedRange ==
  p.off < Threshold /\ Threshold <= ThresholdCap(p)

\* Between two template updates no hour of event time sees more alerts than the
\* asset's limit.
AssetLimitKept ==
  p.assetLimit > 0 =>
    \A i, j \in DOMAIN fires :
      j >= i + p.assetLimit => fires[j] >= fires[i] + Hour

\* Between two template updates two alerts are apart by the evaluations it
\* takes to clear the first episode and then by the quiet period that follows
\* it, or by the evaluations it takes to open the second, whichever is longer.
AlertsApart ==
  \A i, j \in DOMAIN fires :
    i < j => fires[j] >= fires[i] + p.clearPersistence
                                  + Larger(p.suppression, p.minPersistence)

\* No episode opens before MinPersistence evaluations in a row reached the
\* threshold that was in force at each of them.
OpeningNeedsPersistence ==
  [][~ Active /\ Active' => up' >= p.minPersistence]_vars

\* No episode ends before ClearPersistence evaluations in a row were below
\* OffThreshold, a bounce inside the band starting the count again.
ClearingNeedsPersistence ==
  [][Active /\ ~ Active' => down' >= p.clearPersistence]_vars

\* The policy implements the contract of an episode.
EpisodeContract ==
  INSTANCE Episode
    WITH phase <- IF ~ Active THEN "quiet" ELSE IF a.alerted THEN "alerted" ELSE "withheld"

ImplementsEpisode == EpisodeContract!Spec
=============================================================================
