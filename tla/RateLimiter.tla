---------------------------- MODULE RateLimiter ----------------------------
(***************************************************************************)
(* One alerting.RateLimiter and its callers.  The limiter is not told the  *)
(* wall clock: every call brings its own event time.  An asset's own       *)
(* limiter is called at increasing event times (Slack = 0).  A site's      *)
(* limiter is shared by assets whose streams are not aligned, so a call    *)
(* may be up to Slack older than the newest call before it.                *)
(***************************************************************************)
EXTENDS SlidingWindow, FiniteSets

CONSTANTS
  Limit,      \* events allowed per window; the engine builds no limiter for <= 0
  Window,     \* length of the window
  Slack,      \* how far behind the newest call a call's event time may lie
  Horizon,    \* bound: event times are 0..Horizon
  MaxGrants   \* bound: length of the history kept in granted

ASSUME LimiterAssumption ==
  /\ Limit \in Nat \ {0}
  /\ Window \in Nat \ {0}
  /\ Slack \in Nat
  /\ Horizon \in Nat
  /\ MaxGrants \in Nat

VARIABLES
  events,     \* r.events
  newest,     \* history: the latest time any call has brought
  granted,    \* history: the times of the calls answered true, in call order
  call        \* history: the last call of Allow and its answer

vars == <<events, newest, granted, call>>

Time == 0..Horizon

Later(a, b) == IF a < b THEN b ELSE a

Init ==
  /\ events = <<>>
  /\ newest = 0
  /\ granted = <<>>
  /\ call = [now |-> 0, allowed |-> TRUE]

\* A caller whose event time is at most Slack behind the newest one.
MayCall(now) == now + Slack >= newest

Grant(now) ==
  /\ MayCall(now)
  /\ Len(granted) < MaxGrants
  /\ Permits(events, now, Limit, Window)
  /\ events' = AfterAllow(events, now, Limit, Window)
  /\ newest' = Later(newest, now)
  /\ granted' = Append(granted, now)
  /\ call' = [now |-> now, allowed |-> TRUE]

Deny(now) ==
  /\ MayCall(now)
  /\ ~ Permits(events, now, Limit, Window)
  /\ events' = AfterAllow(events, now, Limit, Window)
  /\ newest' = Later(newest, now)
  /\ call' = [now |-> now, allowed |-> FALSE]
  /\ UNCHANGED granted

\* Count answers a number, and prunes as a side effect.
Count(now) ==
  /\ MayCall(now)
  /\ events' = Prune(events, now, Window)
  /\ newest' = Later(newest, now)
  /\ UNCHANGED <<granted, call>>

Next == \E now \in Time : Grant(now) \/ Deny(now) \/ Count(now)

Spec == Init /\ [][Next]_vars

-----------------------------------------------------------------------------
\* The recorded events are times, never more than the limit.
TypeOK ==
  /\ events \in Seq(Time) /\ Len(events) <= Limit
  /\ newest \in Time
  /\ granted \in Seq(Time)
  /\ call \in [now : Time, allowed : BOOLEAN]

\* What ratelimit.go:5 says of the limiter, "at most `limit` events per
\* `window`": no window of event time holds more than Limit grants.
AtMostLimitPerWindow ==
  \A t \in Time :
    Cardinality({i \in DOMAIN granted :
                   granted[i] <= t /\ InWindow(granted[i], t, Window)}) <= Limit

\* What the limiter guarantees to callers that are out of order by at most
\* Slack: two grants with Limit - 1 grants or more between them are at least
\* Window - Slack apart, the later call being the later in time.
SpacedGrants ==
  \A i, j \in DOMAIN granted :
    j >= i + Limit => granted[j] + Slack >= granted[i] + Window

\* A call is denied for cause only: the last Limit grants all lie within
\* Window + Slack of the time it asks for.  With Slack = 0 they lie in the
\* window itself, so no alert is withheld below the limit.
DenialJustified ==
  ~ call.allowed =>
    /\ Len(granted) >= Limit
    /\ \A i \in Len(granted) - Limit + 1..Len(granted) :
         InWindow(granted[i], call.now, Window + Slack)
=============================================================================
