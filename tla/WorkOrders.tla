---------------------------- MODULE WorkOrders -----------------------------
(***************************************************************************)
(* engine.Engine between an alert and its work order: what evaluate does   *)
(* with the policy's decision, the retries of a work order that could not  *)
(* be raised, technician feedback, and a restart.  The engine's mutex makes*)
(* every handler atomic, but a handler is a chain of calls to the store    *)
(* and to the CMMS and any of them may fail.  A call that reports a failure*)
(* may have taken effect (a commit whose answer is lost, a context         *)
(* cancelled too late).  A crash in the middle of a handler leaves what a  *)
(* failed call and a crash after the handler leave.                        *)
(* When the policy fires, holds or clears is left open here: the asset is  *)
(* in one of Episode's phases.                                             *)
(***************************************************************************)
EXTENDS Naturals, Sequences, FiniteSets

CONSTANTS
  Assets,
  Tops,        \* names of top contributing features
  NoTop,       \* the empty name: no feature contributed
  ModeMaps,    \* what ResolveFailureMode may be, per version of the template
  AutoCancel,  \* WorkOrder.AutoCancelOnDismiss of the class
  MaxRetry,    \* WORKORDER_RETRIES; Engine.New turns 0 into 5
  MaxAlerts,   \* bound: alerts in the store
  MaxFaults    \* bound: failed calls and crashes

ASSUME WorkOrdersAssumption ==
  /\ NoTop \notin Tops
  /\ \A m \in ModeMaps : DOMAIN m = Tops \cup {NoTop}
  /\ AutoCancel \in BOOLEAN
  /\ MaxRetry \in Nat \ {0}
  /\ MaxAlerts \in Nat /\ MaxFaults \in Nat

VARIABLES
  mem,       \* the engine's memory of each asset
  mode,      \* ResolveFailureMode of the active template
  alerts,    \* store: alerts, an alert's id is its index
  orders,    \* store: work orders, likewise
  snaps,     \* store: the snapshots, of the assets that have one
  records,   \* CMMS: the orders it holds, an external reference is an index
  attempts,  \* history: calls of CreateWorkOrder per alert
  unheard,   \* history: alerts judged while their asset was not in memory
  faults     \* history: failed calls and crashes

vars == <<mem, mode, alerts, orders, snaps, records, attempts, unheard, faults>>

None == 0
AlertIds == 1..MaxAlerts
Modes == UNION {{m[t] : t \in DOMAIN m} : m \in ModeMaps}

\* A threshold offset is the verdicts it was moved by: how often for each alert.
NoMoves == [i \in AlertIds |-> 0]

\* An asset before its first evaluation, new or restored from a snapshot.
Idle(known, moves) ==
  [known |-> known, phase |-> "quiet", open |-> None, top |-> NoTop, retry |-> 0,
   moves |-> moves]

Init ==
  /\ mem = [x \in Assets |-> Idle(FALSE, NoMoves)]
  /\ mode \in ModeMaps
  /\ alerts = <<>> /\ orders = <<>> /\ records = <<>>
  /\ snaps = <<>>
  /\ attempts = [i \in AlertIds |-> 0]
  /\ unheard = {}
  /\ faults = 0

\* What a store holds after a write: a failed write may have been applied.
AfterWrite(old, new, failed) == IF failed THEN {old, new} ELSE {new}

Faults(n) == faults + n <= MaxFaults /\ faults' = faults + n
FaultIf(failed) == Faults(IF failed THEN 1 ELSE 0)

-----------------------------------------------------------------------------
\* raiseWorkOrder.

OpenOrders(x, fm) ==
  {w \in DOMAIN orders : /\ orders[w].asset = x /\ orders[w].fm = fm
                         /\ orders[w].status = "open"}

\* Mutant: the open order is not looked at.
DecidesBlindly(alert, open) == alert.confident

\* Rule WO-1, Policy.Decide.
Decides(alert, open) == alert.confident /\ open = {}

NewOrder(x, fm, id, ref) ==
  [asset |-> x, fm |-> fm, alert |-> id, status |-> "open", ref |-> ref]

\* The CMMS side of CreateWorkOrder, idempotent on asset|failure mode|alert.
WithKey(x, fm, id) ==
  {r \in DOMAIN records : records[r].key = <<x, fm, id>>}

Created(x, fm, id) ==
  IF WithKey(x, fm, id) # {} THEN records
  ELSE Append(records, [key |-> <<x, fm, id>>, cancelled |-> FALSE])

RefOf(x, fm, id) ==
  IF WithKey(x, fm, id) # {} THEN CHOOSE r \in WithKey(x, fm, id) : TRUE
  ELSE Len(records) + 1

Link(stored, id, w) == [stored EXCEPT ![id].order = w]

\* The order exists already, or the confidence is too low.
SkipOrder(id, stored, open, failed) ==
  /\ UNCHANGED <<orders, records, attempts>>
  /\ IF open # {} /\ stored[id].order = None
     THEN \E w \in open : alerts' \in AfterWrite(stored, Link(stored, id, w), failed)
     ELSE alerts' = stored /\ ~ failed

\* Mutant: the alert is linked before the order is saved.
CreateOrderLinkedFirst(x, id, stored, fm, failed) ==
  /\ attempts' = [attempts EXCEPT ![id] = @ + 1]
  /\ records' = Created(x, fm, id)
  /\ alerts' = Link(stored, id, Len(orders) + 1)
  /\ orders' \in AfterWrite(orders, Append(orders, NewOrder(x, fm, id, RefOf(x, fm, id))),
                           failed)

\* CMMS, then store, then the link: a failure ends the chain where it happens.
CreateOrder(x, id, stored, fm, failed) ==
  LET saved == Append(orders, NewOrder(x, fm, id, RefOf(x, fm, id))) IN
  /\ attempts' = [attempts EXCEPT ![id] = @ + 1]
  /\ \/ /\ failed
        /\ records' \in AfterWrite(records, Created(x, fm, id), TRUE)
        /\ alerts' = stored /\ UNCHANGED orders
     \/ /\ failed
        /\ records' = Created(x, fm, id)
        /\ orders' \in AfterWrite(orders, saved, TRUE)
        /\ alerts' = stored
     \/ /\ records' = Created(x, fm, id)
        /\ orders' = saved
        /\ alerts' \in AfterWrite(stored, Link(stored, id, Len(saved)), failed)

\* stored: the alerts as the caller left them in the store.
RaiseWorkOrder(x, id, stored, top, failed) ==
  LET fm == mode[top]
      open == OpenOrders(x, fm)
  IN \/ /\ failed       \* FindOpenWorkOrder
        /\ alerts' = stored /\ UNCHANGED <<orders, records, attempts>>
     \/ ~ Decides(stored[id], open) /\ SkipOrder(id, stored, open, failed)
     \/ Decides(stored[id], open) /\ CreateOrder(x, id, stored, fm, failed)

-----------------------------------------------------------------------------
\* Engine.evaluate, by the outcome of the policy.

\* assetFor: the first metric of an asset registers it.
Register(x) ==
  /\ ~ mem[x].known
  /\ mem' = [mem EXCEPT ![x] = Idle(TRUE, NoMoves)]
  /\ UNCHANGED <<mode, alerts, orders, snaps, records, attempts, unheard, faults>>

NewAlert(x, confident) ==
  [asset |-> x, status |-> "open", confident |-> confident, order |-> None,
   cleared |-> FALSE]

CanFire(x) == mem[x].known /\ mem[x].phase = "quiet" /\ Len(alerts) < MaxAlerts

\* The alert cannot be saved: the policy has opened the episode all the same.
FireUnsaved(x, confident) ==
  /\ CanFire(x)
  /\ alerts' \in AfterWrite(alerts, Append(alerts, NewAlert(x, confident)), TRUE)
  /\ mem' = [mem EXCEPT ![x].phase = "alerted"]
  /\ Faults(1)
  /\ UNCHANGED <<mode, orders, snaps, records, attempts, unheard>>

Fire(x, top, confident) ==
  LET id == Len(alerts) + 1 IN
  /\ CanFire(x)
  /\ \E failed \in BOOLEAN :
       /\ RaiseWorkOrder(x, id, Append(alerts, NewAlert(x, confident)), top, failed)
       /\ mem' = [mem EXCEPT ![x] =
                    [@ EXCEPT !.phase = "alerted", !.open = id,
                              !.top = IF failed THEN top ELSE mem[x].top,
                              !.retry = IF failed THEN 0 ELSE mem[x].retry]]
       /\ FaultIf(failed)
  /\ UNCHANGED <<mode, snaps, unheard>>

\* Suppressed or rate limited: the episode is only logged.
Withhold(x) ==
  /\ mem[x].known /\ mem[x].phase = "quiet"
  /\ mem' = [mem EXCEPT ![x].phase = "withheld"]
  /\ UNCHANGED <<mode, alerts, orders, snaps, records, attempts, unheard, faults>>

\* Mutant of MayRetry: one retry too many.
MayRetryOnceMore(x) ==
  /\ mem[x].phase # "quiet"
  /\ mem[x].top # NoTop /\ mem[x].open # None /\ mem[x].retry <= MaxRetry

MayRetry(x) ==
  /\ mem[x].phase # "quiet"
  /\ mem[x].top # NoTop /\ mem[x].open # None /\ mem[x].retry < MaxRetry

\* A retry is spent before the alert is read.
RetryUnread(x) ==
  /\ MayRetry(x)
  /\ mem' = [mem EXCEPT ![x].retry = @ + 1]
  /\ Faults(1)
  /\ UNCHANGED <<mode, alerts, orders, snaps, records, attempts, unheard>>

\* Mutants of Retry: the retry is not counted; nor is its success noted.
RetryUncounted(x) ==
  /\ MayRetry(x)
  /\ \E failed \in BOOLEAN :
       /\ RaiseWorkOrder(x, mem[x].open, alerts, mem[x].top, failed)
       /\ mem' = [mem EXCEPT ![x].top = IF failed THEN @ ELSE NoTop]
       /\ FaultIf(failed)
  /\ UNCHANGED <<mode, snaps, unheard>>
RetryForever(x) ==
  /\ MayRetry(x)
  /\ \E failed \in BOOLEAN :
       /\ RaiseWorkOrder(x, mem[x].open, alerts, mem[x].top, failed)
       /\ FaultIf(failed)
  /\ UNCHANGED <<mem, mode, snaps, unheard>>

Retry(x) ==
  /\ MayRetry(x)
  /\ \E failed \in BOOLEAN :
       /\ RaiseWorkOrder(x, mem[x].open, alerts, mem[x].top, failed)
       /\ mem' = [mem EXCEPT ![x] =
                    [@ EXCEPT !.retry = mem[x].retry + 1,
                              !.top = IF failed THEN mem[x].top ELSE NoTop]]
       /\ FaultIf(failed)
  /\ UNCHANGED <<mode, snaps, unheard>>

\* The alert cannot be read or written: the episode is over all the same.
ClearUnsaved(x) ==
  /\ mem[x].phase # "quiet" /\ mem[x].open # None
  /\ alerts' \in AfterWrite(alerts, [alerts EXCEPT ![mem[x].open].cleared = TRUE], TRUE)
  /\ mem' = [mem EXCEPT ![x] = [@ EXCEPT !.phase = "quiet", !.top = NoTop]]
  /\ Faults(1)
  /\ UNCHANGED <<mode, orders, snaps, records, attempts, unheard>>

\* Mutant: the alert is saved as it was when it fired.
ClearFromCopy(x) ==
  /\ mem[x].phase # "quiet"
  /\ alerts' = IF mem[x].open = None THEN alerts
               ELSE [alerts EXCEPT ![mem[x].open] =
                       [@ EXCEPT !.cleared = TRUE, !.status = "open"]]
  /\ mem' = [mem EXCEPT ![x] =
               [@ EXCEPT !.phase = "quiet", !.top = NoTop, !.open = None]]
  /\ UNCHANGED <<mode, orders, snaps, records, attempts, unheard, faults>>

Clear(x) ==
  /\ mem[x].phase # "quiet"
  /\ alerts' = IF mem[x].open = None THEN alerts
               ELSE [alerts EXCEPT ![mem[x].open].cleared = TRUE]
  /\ mem' = [mem EXCEPT ![x] =
               [@ EXCEPT !.phase = "quiet", !.top = NoTop, !.open = None]]
  /\ UNCHANGED <<mode, orders, snaps, records, attempts, unheard, faults>>

-----------------------------------------------------------------------------
\* Engine.Feedback.  A verdict on an alert that is already judged is answered
\* without a change, so only an open alert is looked at.

Judgement == [confirm |-> "confirmed", dismiss |-> "dismissed"]

Judged(id, verdict) == [alerts EXCEPT ![id].status = Judgement[verdict]]

\* Mutant: the CMMS is not told.
CancelOrderLocally(w, failed) ==
  /\ orders' \in AfterWrite(orders, [orders EXCEPT ![w].status = "cancelled"], failed)
  /\ UNCHANGED records

\* cancelWorkOrder: CMMS first, then the store.
CancelOrder(w, failed) ==
  LET closed == [orders EXCEPT ![w].status = "cancelled"]
      void == [records EXCEPT ![orders[w].ref].cancelled = TRUE]
  IN \/ /\ failed       \* GetWorkOrder
        /\ UNCHANGED <<orders, records>>
     \/ /\ orders[w].status # "open" /\ ~ failed
        /\ UNCHANGED <<orders, records>>
     \/ /\ orders[w].status = "open" /\ failed
        /\ records' \in AfterWrite(records, void, TRUE)
        /\ UNCHANGED orders
     \/ /\ orders[w].status = "open"
        /\ records' = void
        /\ orders' \in AfterWrite(orders, closed, failed)

Cancels(id, verdict) ==
  AutoCancel /\ verdict = "dismiss" /\ alerts[id].order # None

\* ApplyFeedback: the offset in memory moves, whatever happens next.
Adapt(id) == mem' = [mem EXCEPT ![alerts[id].asset].moves[id] = @ + 1]

\* snapshot: SaveAssetSnapshot with what the memory holds now.
WithSnapshot(x, moves) ==
  [y \in DOMAIN snaps \cup {x} |-> IF y = x THEN moves ELSE snaps[y]]

\* Mutant: the snapshot is taken before the offset moves.
FeedbackSnapshotFirst(id, verdict) ==
  /\ alerts[id].status = "open" /\ mem[alerts[id].asset].known
  /\ Adapt(id)
  /\ snaps' = WithSnapshot(alerts[id].asset, mem[alerts[id].asset].moves)
  /\ alerts' = Judged(id, verdict)
  /\ UNCHANGED <<mode, orders, records, attempts, unheard, faults>>

\* The asset is in memory.  A failed cancellation is logged and forgotten.
Feedback(id, verdict) ==
  /\ alerts[id].status = "open" /\ mem[alerts[id].asset].known
  /\ Adapt(id)
  /\ snaps' = WithSnapshot(alerts[id].asset, mem'[alerts[id].asset].moves)
  /\ \E failed, lost \in BOOLEAN :
       /\ IF Cancels(id, verdict) THEN CancelOrder(alerts[id].order, failed)
          ELSE ~ failed /\ UNCHANGED <<orders, records>>
       /\ alerts' \in AfterWrite(alerts, Judged(id, verdict), lost)
       /\ Faults(Cardinality({c \in {1, 2} : <<failed, lost>>[c]}))
  /\ UNCHANGED <<mode, attempts, unheard>>

\* The snapshot cannot be saved.
FeedbackUnsaved(id) ==
  /\ alerts[id].status = "open" /\ mem[alerts[id].asset].known
  /\ Adapt(id)
  /\ snaps' \in AfterWrite(snaps, WithSnapshot(alerts[id].asset,
                                               mem'[alerts[id].asset].moves), TRUE)
  /\ Faults(1)
  /\ UNCHANGED <<mode, alerts, orders, records, attempts, unheard>>

\* The asset is not in memory: neither adapted nor cancelled.
FeedbackUnknown(id, verdict) ==
  /\ alerts[id].status = "open" /\ ~ mem[alerts[id].asset].known
  /\ \E lost \in BOOLEAN :
       /\ alerts' \in AfterWrite(alerts, Judged(id, verdict), lost)
       /\ FaultIf(lost)
  /\ unheard' = unheard \cup {id}
  /\ UNCHANGED <<mem, mode, orders, snaps, records, attempts>>

-----------------------------------------------------------------------------
\* PutTemplate: a class may map features to failure modes in another way.
PutTemplate(m) ==
  /\ mode' = m
  /\ UNCHANGED <<mem, alerts, orders, snaps, records, attempts, unheard, faults>>

\* Warm-up ends: the learned baselines are saved.
Warm(x) ==
  /\ mem[x].known
  /\ snaps' = WithSnapshot(x, mem[x].moves)
  /\ UNCHANGED <<mem, mode, alerts, orders, records, attempts, unheard, faults>>

\* Episodes live in memory only; New restores the assets that have a snapshot.
Crash ==
  /\ mem' = [x \in Assets |-> IF x \in DOMAIN snaps THEN Idle(TRUE, snaps[x])
                             ELSE Idle(FALSE, NoMoves)]
  /\ Faults(1)
  /\ UNCHANGED <<mode, alerts, orders, snaps, records, attempts, unheard>>

Evaluate(x) ==
  \/ Register(x) \/ Withhold(x)
  \/ \E confident \in BOOLEAN :
       \/ FireUnsaved(x, confident)
       \/ \E top \in Tops \cup {NoTop} : Fire(x, top, confident)
  \/ RetryUnread(x) \/ Retry(x)
  \/ ClearUnsaved(x) \/ Clear(x)

Judge(id) ==
  \/ \E verdict \in {"confirm", "dismiss"} :
       Feedback(id, verdict) \/ FeedbackUnknown(id, verdict)
  \/ FeedbackUnsaved(id)

Next ==
  \/ \E x \in Assets : Evaluate(x) \/ Warm(x)
  \/ \E id \in DOMAIN alerts : Judge(id)
  \/ \E m \in ModeMaps : PutTemplate(m)
  \/ Crash

Spec == Init /\ [][Next]_vars

\* Assets keep reporting, so an episode that is open is evaluated again.
FairSpec == Spec /\ \A x \in Assets : WF_vars(Retry(x) \/ RetryUnread(x))

-----------------------------------------------------------------------------
Memory ==
  [known : BOOLEAN, phase : {"quiet", "alerted", "withheld"}, open : 0..MaxAlerts,
   top : Tops \cup {NoTop}, retry : 0..MaxRetry, moves : [AlertIds -> Nat]]
Alert ==
  [asset : Assets, status : {"open", "confirmed", "dismissed"}, confident : BOOLEAN,
   order : Nat, cleared : BOOLEAN]
Order ==
  [asset : Assets, fm : Modes, alert : AlertIds, status : {"open", "cancelled"},
   ref : Nat \ {0}]
Record == [key : Assets \X Modes \X AlertIds, cancelled : BOOLEAN]

TypeOK ==
  /\ mem \in [Assets -> Memory] /\ mode \in ModeMaps
  /\ alerts \in Seq(Alert) /\ orders \in Seq(Order) /\ records \in Seq(Record)
  /\ DOMAIN snaps \subseteq Assets
  /\ \A x \in DOMAIN snaps : snaps[x] \in [AlertIds -> Nat]
  /\ attempts \in [AlertIds -> Nat] /\ unheard \subseteq AlertIds
  /\ faults \in Nat

Live == {r \in DOMAIN records : ~ records[r].cancelled}

\* The links lead somewhere, at every moment a reader may look and after any
\* failure: an alert's order is stored and is one of its asset, and a stored
\* order names the CMMS record that was created for it.
ReferencesResolve ==
  /\ \A i \in DOMAIN alerts : alerts[i].order # None =>
       alerts[i].order \in DOMAIN orders /\ orders[alerts[i].order].asset = alerts[i].asset
  /\ \A w \in DOMAIN orders :
       /\ orders[w].alert \in DOMAIN alerts
       /\ orders[w].ref \in DOMAIN records
       /\ records[orders[w].ref].key = <<orders[w].asset, orders[w].fm, orders[w].alert>>

\* An asset has at most one open work order per failure mode, whatever failed
\* (the rule the database backs with a partial unique index).
OneOpenOrder ==
  \A x \in Assets, fm \in Modes : Cardinality(OpenOrders(x, fm)) <= 1

\* The CMMS is asked at most once plus MaxRetry times for one alert
\* (engine_test.go, TestWorkOrderRetriesAreBounded), whatever else fails.
AttemptsBounded == \A i \in AlertIds : attempts[i] <= 1 + MaxRetry

\* As long as no call fails and nothing crashes, store, CMMS and memory agree.
FaultFree ==
  faults = 0 =>
    /\ \A i \in DOMAIN alerts :
         /\ alerts[i].confident => alerts[i].order # None
         /\ alerts[i].cleared \/ mem[alerts[i].asset].open = i
         /\ AutoCancel /\ alerts[i].status = "dismissed" /\ alerts[i].order # None
              => orders[alerts[i].order].status = "cancelled"
    /\ \A r \in DOMAIN records : \E w \in DOMAIN orders :
         orders[w].ref = r /\ (orders[w].status = "open" <=> r \in Live)

\* What is known of an alert stays known: no later write, of whatever handler,
\* takes back a technician's verdict or the end of the episode.
FactsStay ==
  [][\A i \in DOMAIN alerts :
       /\ alerts[i].status # "open" => alerts'[i].status = alerts[i].status
       /\ alerts[i].cleared => alerts'[i].cleared]_vars

\* A work order that could not be raised is tried again until it is raised, the
\* retries are spent or the episode is over: docs/adr/0003, "automatic and
\* bounded".
RetriesEnd ==
  \A x \in Assets : MayRetry(x) ~> ~ MayRetry(x)

\* docs/adr/0003, "Duplicate alerts or work orders require two independent
\* failures": with one failure at most, the CMMS never holds two live orders
\* for the same asset and failure mode.
DuplicatesNeedTwoFaults ==
  faults <= 1 =>
    \A r, s \in Live :
      records[r].key[1] = records[s].key[1] /\ records[r].key[2] = records[s].key[2]
        => r = s

\* A verdict that was answered is never lost: when the alert says confirmed or
\* dismissed, the threshold has moved, in memory and in what a restart reads.
VerdictSurvives ==
  \A i \in DOMAIN alerts \ unheard :
    alerts[i].status # "open" =>
      LET x == alerts[i].asset IN
      /\ x \in DOMAIN snaps /\ snaps[x][i] >= 1
      /\ mem[x].known /\ mem[x].moves[i] >= 1

\* engine.go:540, "Repeating the same verdict is a no-op": one alert moves its
\* asset's threshold once.
VerdictAdaptsOnce == \A x \in Assets, i \in AlertIds : mem[x].moves[i] <= 1
=============================================================================
