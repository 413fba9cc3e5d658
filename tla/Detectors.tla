----------------------------- MODULE Detectors -----------------------------
(***************************************************************************)
(* The detectors' state, as far as it depends on baselines.  A point is    *)
(* standardised with the baselines in force when it comes in, and what is  *)
(* kept of it is which those were: the forest's masses are the points of   *)
(* its latest and of its reference window, the CUSUM's sums the set of     *)
(* baselines that went into them.  Scores are left out.                    *)
(***************************************************************************)
EXTENDS Naturals, Sequences

CONSTANTS
  Warmup,     \* evaluations it takes to learn baselines (WarmupEvaluations)
  HstWindow   \* points of a window of the forest (WindowSize)

\* A template asks for at least three, as the learner does.
ASSUME DetectorsAssumption == Warmup \in Nat \ 0..2 /\ HstWindow \in Nat \ {0}

\* BaselineLearner.Observe: is the one that comes in the last it needs?
LearnerDone(count) == count + 1 >= Warmup

\* BaselineLearner.Fit: a baseline for each feature that was observed.
Fit(observed) == [f \in observed |-> "own"]

NewHST == [latest |-> <<>>, reference |-> <<>>, seen |-> 0, ready |-> FALSE]

\* Mutant: the masses are kept.
SetBaselinesOnly(h) == [h EXCEPT !.seen = 0, !.ready = FALSE]

\* The cube's coordinates change: all masses are discarded.
SetBaselines(h) == [h EXCEPT !.latest = <<>>, !.reference = <<>>, !.seen = 0, !.ready = FALSE]

\* Mutant: the count of the latest window goes on.
RolloverUncounted(h) == [h EXCEPT !.reference = h.latest, !.latest = <<>>, !.ready = TRUE]

Rollover(h) == [h EXCEPT !.reference = h.latest, !.latest = <<>>, !.seen = 0, !.ready = TRUE]

\* The point joins the latest window, which becomes the reference when full.
Observe(h, base) ==
  LET added == [h EXCEPT !.latest = Append(@, base), !.seen = @ + 1]
  IN IF added.seen >= HstWindow THEN Rollover(added) ELSE added

NewCUSUM == {}
Reset(g) == {}
Update(g, base) == g \cup {base}
=============================================================================
