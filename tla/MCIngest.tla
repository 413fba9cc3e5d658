----------------------------- MODULE MCIngest ------------------------------
(***************************************************************************)
(* Small batches for Ingest.                                               *)
(***************************************************************************)
EXTENDS Ingest, TLC

CONSTANTS x1, x2, c1, c2, s1, s2, g1, g2, g3

\* Two that share a feature, and one that has nothing of the first.
MCRecipes == {{g1, g2}, {g2, g3}, {g3}}

MCSource == (g1 :> s1) @@ (g2 :> s1) @@ (g3 :> s2)

\* Ready with one sample; ready with a full window.
MCSpecs == (s1 :> [window |-> 2, min |-> 1]) @@ (s2 :> [window |-> 2, min |-> 0])

B(x, c, s, t, n, check) ==
  [asset |-> x, class |-> c, signal |-> s, ts |-> t, n |-> n, check |-> check]
M(x, c, s, t, check) == B(x, c, s, t, 1, check)

MCBatches == {"scrambled", "overlap", "mixed"}

\* One asset's metrics out of order, with a burst longer than its window; the
\* same again with later ones; metrics that are rejected for every reason, of
\* two assets, one of which comes to know its class only in its second metric.
MCContent ==
  [scrambled |-> <<M(x1, c1, s1, 2, "pass"), B(x1, c1, s2, 1, 3, "pass"),
                   M(x1, NoClass, s1, 1, "pass")>>,
   overlap |-> <<M(x1, c1, s1, 2, "pass"), M(x1, c1, Runtime, 2, "pass"),
                 M(x1, NoClass, s2, 2, "pass"), M(x1, c1, s1, 3, "pass")>>,
   mixed |-> <<M(x2, NoClass, s1, 1, "pass"), M(x1, c2, s2, 3, "pass"),
               M(x2, c1, s1, 2, "pass"), M(x1, c1, Runtime, 3, "unusable"),
               M(x1, c1, s2, 1, "invalid")>>]

MCTwoBatches == {"scrambled", "overlap"}
MCTwoContents == [b \in MCTwoBatches |-> MCContent[b]]
=============================================================================
