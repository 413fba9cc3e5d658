--------------------------- MODULE MCAlertPolicy ---------------------------
(***************************************************************************)
(* Small classes of assets for AlertPolicy.                                *)
(***************************************************************************)
EXTENDS AlertPolicy

\* A guarded class: a quiet period, a limit of one alert an hour.
Guarded ==
  [on |-> 600, off |-> 350, minPersistence |-> 2, clearPersistence |-> 2,
   suppression |-> 2, assetLimit |-> 1, dismissStep |-> 50, confirmStep |-> 50,
   maxOffset |-> 100, maxThreshold |-> 660]

\* Its update: two alerts an hour, no persistence, the same quiet period, narrower
\* adaptation and a threshold that was inside the old band.
Relaxed ==
  [Guarded EXCEPT !.on = 400, !.off = 345, !.minPersistence = 1,
                  !.clearPersistence = 1, !.assetLimit = 2,
                  !.maxOffset = 50, !.maxThreshold = 0]

MCParamSet == {Guarded, Relaxed}
MCSavedOffsets == {0, 200}

\* Below both bands, inside the first band, between the thresholds, above all.
MCRisks == {300, 360, 610, 700}

\* A class whose band reaches the threshold's cap (a valid one).
Narrow ==
  [Guarded EXCEPT !.off = 599, !.maxThreshold = 605]

MCNarrowSet == {Narrow}
=============================================================================
