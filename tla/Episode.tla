------------------------------ MODULE Episode ------------------------------
(***************************************************************************)
(* What one asset's alerting promises, whatever the detectors say: the     *)
(* risk is quiet, or an episode is open; an episode is alerted when it     *)
(* opens or never ("an alert is emitted at most once per episode",         *)
(* docs/adr/0003); and it ends before the next one opens.                  *)
(* AlertPolicy implements this contract, WorkOrders builds on it.          *)
(***************************************************************************)
EXTENDS Naturals

VARIABLES
  phase,      \* "quiet", or the open episode's kind
  alerts      \* alerts raised by the open episode

Phases == {"quiet", "alerted", "withheld"}

Init == phase = "quiet" /\ alerts = 0

Alert == phase = "quiet" /\ phase' = "alerted" /\ alerts' = 1

Withhold == phase = "quiet" /\ phase' = "withheld" /\ alerts' = 0

End == phase # "quiet" /\ phase' = "quiet" /\ alerts' = 0

Next == Alert \/ Withhold \/ End

Spec == Init /\ [][Next]_<<phase, alerts>>
=============================================================================
