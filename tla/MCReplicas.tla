----------------------------- MODULE MCReplicas -----------------------------
(***************************************************************************)
(* Two replicas.                                                           *)
(***************************************************************************)
EXTENDS Replicas

CONSTANTS r1, r2

\* An update drops one feature, keeps one and adds one that has a class baseline;
\* another has nothing of what was learned.
MCRecipe == [builtin |-> {"rms", "peak"}, tuned |-> {"peak", "temp"}, other |-> {"temp"}]

\* Two alerts, whose work orders can race, between two processes that stay; one
\* alert, judged either way, and a process that ends; and one alert with all that
\* is learned, an update and a process that ends.
MCScenarios ==
  {[alerts |-> 2, verdicts |-> {"dismiss"}, learning |-> FALSE, puts |-> 0, exits |-> 0],
   [alerts |-> 1, verdicts |-> {"confirm", "dismiss"}, learning |-> FALSE, puts |-> 0, exits |-> 1],
   [alerts |-> 1, verdicts |-> {"confirm"}, learning |-> TRUE, puts |-> 1, exits |-> 1]}
=============================================================================
