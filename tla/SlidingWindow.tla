--------------------------- MODULE SlidingWindow ---------------------------
(***************************************************************************)
(* The pure part of alerting.RateLimiter (ratelimit.go): what prune and    *)
(* Allow compute from the list of recorded event times.  A limiter is the  *)
(* sequence of the times it recorded, in the order it recorded them; the   *)
(* code never sorts that list.  Times are natural numbers.                 *)
(***************************************************************************)
EXTENDS Integers, Sequences

\* An event at time t is inside the window that ends at now: t.After(now - window).
InWindow(t, now, window) == t + window > now

\* Where prune's loop stops: the first event still inside the window, one
\* past the end when there is none.  What lies behind it is not looked at.
FirstLive(events, now, window) ==
  CHOOSE i \in 1..Len(events) + 1 :
    /\ \A j \in 1..i - 1 : ~ InWindow(events[j], now, window)
    /\ i <= Len(events) => InWindow(events[i], now, window)

Prune(events, now, window) ==
  SubSeq(events, FirstLive(events, now, window), Len(events))

\* Mutants of Permits: one event too many; the list is not pruned first.
PermitsOneMore(events, now, limit, window) == Len(Prune(events, now, window)) <= limit
PermitsUnpruned(events, now, limit, window) == Len(events) < limit

\* Mutant of AfterAllow: a denied event is recorded too.
AfterAllowRecordsAll(events, now, limit, window) ==
  Append(Prune(events, now, window), now)

\* Allow's decision, and the events it leaves behind.
Permits(events, now, limit, window) == Len(Prune(events, now, window)) < limit

AfterAllow(events, now, limit, window) ==
  IF Permits(events, now, limit, window)
  THEN Append(Prune(events, now, window), now)
  ELSE Prune(events, now, window)
=============================================================================
