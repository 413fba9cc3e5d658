------------------------------ MODULE Replicas ------------------------------
(***************************************************************************)
(* Several processes of the service on one PostgreSQL database, from the   *)
(* start of a process (migrations, templates, snapshots) to its end, and   *)
(* what their handlers do to one asset.  A process's engine has one handler*)
(* at a time (its mutex); between processes there is no lock, so one action*)
(* is one call of the store, with what the handler does before the next.   *)
(* Every process has a simulated CMMS of its own, that ends with it.       *)
(* Store calls do not fail here, except for the constraints the schema     *)
(* states; alerts are confident, have a top feature and the same failure   *)
(* mode, in a class that cancels on dismissal: WorkOrders and Ingest have  *)
(* the rest.                                                               *)
(***************************************************************************)
EXTENDS Naturals, Sequences, FiniteSets

CONSTANTS
  Replicas,
  Templates,   \* the templates of the asset's class
  Builtin,     \* the one that comes with the program
  NoTemplate,
  Recipe,      \* the features of each
  Defaults,    \* the features that templates have class baselines for
  MaxRetry,    \* WORKORDER_RETRIES
  Scenarios    \* bounds, a record of them for each part of the behaviour looked at

Scenario ==
  [alerts : Nat,        \* alerts in the store
   verdicts : SUBSET {"confirm", "dismiss"},
   learning : BOOLEAN,  \* do warm-ups end?
   puts : Nat,          \* templates put by operators
   exits : Nat]         \* processes stopped or killed

ASSUME ReplicasAssumption ==
  /\ Builtin \in Templates /\ NoTemplate \notin Templates
  /\ MaxRetry \in Nat \ {0} /\ Scenarios \subseteq Scenario

VARIABLES
  bound,      \* the scenario, which does not change
  schema,     \* database: how often the migration was applied
  tpl,        \* database: the template of the asset's class
  snap,       \* database: the asset's snapshots, one or none
  alerts,     \* database: alerts, an alert's id is its index
  orders,     \* database: work orders, likewise
  proc,       \* of each replica: where it is, and its engine's memory
  cmms,       \* of each replica: the orders in its simulated CMMS
  exits,      \* history: processes stopped or killed
  puts,       \* history: templates put
  stale,      \* history: processes with a template or a snapshot that another has replaced
  clobbered,  \* history: one of them has written what it had
  overlap,    \* history: an alert was written while another handler held a copy
  promised    \* history: what operators put, assets learned, technicians were answered

database == <<schema, tpl, snap, alerts, orders>>
updates == <<stale, clobbered>>
history == <<bound, exits, puts, updates, overlap, promised>>
vars == <<database, proc, cmms, history>>

None == 0
AlertIds == 1..bound.alerts

NewAlert == [status |-> "open", order |-> None, cleared |-> FALSE]

\* The baselines that count as an asset's own: of the features it has learned,
\* and the class's that an earlier merge has put among them.
Unlearned == [own |-> {}, lent |-> {}]
Fitted(names) == [own |-> names, lent |-> {}]

\* applyTemplate, mergeBaselines: those of features the template lacks are dropped;
\* those it has and the asset lacks are the class's, where the class has them;
\* and when none is left, the asset is on the class's and learns again.
Merged(base, names) ==
  IF (base.own \cup base.lent) \cap names = {} THEN Unlearned
  ELSE [own |-> base.own \cap names,
        lent |-> (names \cap (base.lent \cup Defaults)) \ base.own]

\* A process that has just been started: its memory is empty.
Fresh(at) ==
  [at |-> at, tpl |-> NoTemplate, known |-> FALSE, base |-> Unlearned, moves |-> {},
   open |-> None, owed |-> FALSE, tries |-> 0, id |-> None, copy |-> NewAlert]

Init ==
  /\ bound \in Scenarios
  /\ schema = 0 /\ tpl = NoTemplate /\ snap = {} /\ alerts = <<>> /\ orders = <<>>
  /\ proc = [r \in Replicas |-> Fresh("down")]
  /\ cmms = [r \in Replicas |-> <<>>]
  /\ exits = 0 /\ puts = 0 /\ stale = {} /\ clobbered = FALSE /\ overlap = FALSE
  /\ promised = [tpl |-> NoTemplate, learned |-> {}, moves |-> {}]

At(r, step) == proc[r].at = step
Running(r) == ~ At(r, "down")

Becomes(r, p) == proc' = [proc EXCEPT ![r] = p]

\* The handler, or the start, goes on with another step.
Goes(r, step) == Becomes(r, [proc[r] EXCEPT !.at = step])

\* The handler ends and lets go of the alert it had in hand.
Done(p) == [p EXCEPT !.at = "serving", !.id = None, !.copy = NewAlert]

-----------------------------------------------------------------------------
\* The calls of the store.  Every write is an upsert of the whole document.

\* The templates of the class: one or none.
ListTemplates == {tpl} \ {NoTemplate}
UpsertTemplate(t) == tpl' = t

ListAssetSnapshots == snap

\* The processes that have read the templates, and the snapshots.
HasTemplates(q) == proc[q].at \notin {"down", "migrating", "applying", "loading"}
HasSnapshots(q) == HasTemplates(q) /\ proc[q].at \notin {"seeding", "restoring"}

\* The write outdates what the others have, and may itself be of what is outdated.
SaveAssetSnapshot(r, s) ==
  /\ snap' = {s}
  /\ stale' = stale \cup {q \in Replicas \ {r} : HasSnapshots(q)}
  /\ clobbered' = (clobbered \/ r \in stale)

GetAlert(id) == alerts[id]

\* A handler of another process may have a copy of the alert in hand.
SaveAlert(r, id, alert) ==
  /\ alerts' = [alerts EXCEPT ![id] = alert]
  /\ overlap' = (overlap \/ \E q \in Replicas \ {r} : proc[q].id = id)

GetWorkOrder(w) == orders[w]
OpenOrders == {w \in DOMAIN orders : orders[w].status = "open"}

\* Mutant: a new order is inserted without a constraint.
InsertsAnything(order) == TRUE

\* work_orders_open_unique: is a new order accepted?
Inserts(order) == order.status = "open" => OpenOrders = {}

-----------------------------------------------------------------------------
\* The start of a process: run, Migrate and New.

Start(r) ==
  /\ At(r, "down") /\ Goes(r, "migrating")
  /\ UNCHANGED <<database, cmms, history>>

\* The table of the applied migrations is created if it does not exist; of two
\* processes that do so at once PostgreSQL may fail one, which exits.
CreateTableRaced(r) ==
  /\ At(r, "migrating") /\ schema = 0 /\ \E q \in Replicas : At(q, "applying")
  /\ Goes(r, "down")
  /\ UNCHANGED <<database, cmms, history>>

\* Mutant: every process means to apply the file.
CheckMigrationNever(r) ==
  /\ At(r, "migrating") /\ Goes(r, "applying")
  /\ UNCHANGED <<database, cmms, history>>

\* Is the file in schema_migrations?
CheckMigration(r) ==
  /\ At(r, "migrating")
  /\ Goes(r, IF schema > 0 THEN "loading" ELSE "applying")
  /\ UNCHANGED <<database, cmms, history>>

\* Mutant: the version is recorded without a constraint.
ApplyUnrecorded(r) ==
  /\ At(r, "applying") /\ schema' = schema + 1 /\ Goes(r, "loading")
  /\ UNCHANGED <<tpl, snap, alerts, orders, cmms, history>>

\* The file and its version are one transaction.  When another process has
\* recorded it in the meantime nothing is applied, and the process gives up.
Apply(r) ==
  /\ At(r, "applying")
  /\ IF schema = 0 THEN schema' = 1 /\ Goes(r, "loading")
     ELSE Goes(r, "down") /\ UNCHANGED schema
  /\ UNCHANGED <<tpl, snap, alerts, orders, cmms, history>>

LoadTemplates(r) ==
  /\ At(r, "loading")
  /\ \/ ListTemplates = {} /\ Goes(r, "seeding")
     \/ \E t \in ListTemplates :
          Becomes(r, [proc[r] EXCEPT !.at = "restoring", !.tpl = t])
  /\ UNCHANGED <<database, cmms, history>>

\* The built-in template is put like any other.
Seed(r) ==
  /\ At(r, "seeding")
  /\ UpsertTemplate(Builtin)
  /\ clobbered' = (clobbered \/ r \in stale)
  /\ Becomes(r, [proc[r] EXCEPT !.at = "restoring", !.tpl = Builtin])
  /\ UNCHANGED <<schema, snap, alerts, orders, cmms, bound, exits, puts, stale, overlap, promised>>

\* What is kept of an asset is what its snapshot holds, as far as the template
\* has its features.
Restore(r) ==
  /\ At(r, "restoring")
  /\ \/ ListAssetSnapshots = {} /\ Goes(r, "serving")
     \/ \E s \in ListAssetSnapshots :
          Becomes(r, [proc[r] EXCEPT !.at = "serving", !.known = TRUE,
                                     !.base = Merged(s.base, Recipe[proc[r].tpl]),
                                     !.moves = s.moves])
  /\ UNCHANGED <<database, cmms, history>>

-----------------------------------------------------------------------------
\* Ingest, on the replica the asset's metrics come to: its first metric, the
\* end of its warm-up, and what evaluate does with the policy's decision.

Register(r) ==
  /\ At(r, "serving") /\ ~ proc[r].known
  /\ Becomes(r, [proc[r] EXCEPT !.known = TRUE])
  /\ UNCHANGED <<database, cmms, history>>

Snapshot(p) == [base |-> p.base, moves |-> p.moves]

\* While the class's baselines are in use; the warm-up has samples of every feature.
Learn(r) ==
  LET base == Fitted(Recipe[proc[r].tpl]) IN
  /\ At(r, "serving") /\ proc[r].known /\ proc[r].base = Unlearned /\ bound.learning
  /\ Becomes(r, [proc[r] EXCEPT !.base = base])
  /\ SaveAssetSnapshot(r, [base |-> base, moves |-> proc[r].moves])
  /\ promised' = [promised EXCEPT !.learned = base.own]
  /\ UNCHANGED <<schema, tpl, alerts, orders, cmms, bound, exits, puts, overlap>>

Fire(r) ==
  /\ At(r, "serving") /\ proc[r].known /\ proc[r].open = None
  /\ Len(alerts) < bound.alerts
  /\ alerts' = Append(alerts, NewAlert)
  /\ LET id == Len(alerts) + 1
     IN Becomes(r, [proc[r] EXCEPT !.at = "finding", !.open = id, !.id = id])
  /\ UNCHANGED <<schema, tpl, snap, orders, cmms, history>>

\* Mutant: the retry goes on with the alert as it was when it fired.
HoldFromCopy(r) ==
  /\ At(r, "serving") /\ proc[r].owed /\ proc[r].open # None /\ proc[r].tries < MaxRetry
  /\ Becomes(r, [proc[r] EXCEPT !.at = "finding", !.tries = @ + 1,
                                !.id = proc[r].open, !.copy = NewAlert])
  /\ UNCHANGED <<database, cmms, history>>

\* The episode goes on and its work order is owed: the alert is read again.
Hold(r) ==
  /\ At(r, "serving") /\ proc[r].owed /\ proc[r].open # None /\ proc[r].tries < MaxRetry
  /\ Becomes(r, [proc[r] EXCEPT !.at = "finding", !.tries = @ + 1,
                                !.id = proc[r].open, !.copy = GetAlert(proc[r].open)])
  /\ UNCHANGED <<database, cmms, history>>

\* raiseWorkOrder: FindOpenWorkOrder and Policy.Decide.
FindOrder(r) ==
  /\ At(r, "finding")
  /\ \/ OpenOrders = {} /\ Goes(r, "saving")
     \/ \E w \in OpenOrders :
          Becomes(r, IF proc[r].copy.order = None
                     THEN [proc[r] EXCEPT !.at = "linking", !.copy.order = w]
                     ELSE [Done(proc[r]) EXCEPT !.owed = FALSE])
  /\ UNCHANGED <<database, cmms, history>>

\* The simulated CMMS creates one order per key; a reference is an index.
WithKey(r, id) == {n \in DOMAIN cmms[r] : cmms[r][n].alert = id}

CreateInCmms(r, id) ==
  IF WithKey(r, id) # {} THEN UNCHANGED cmms
  ELSE cmms' = [cmms EXCEPT ![r] = Append(@, [alert |-> id, cancelled |-> FALSE])]

RefOf(r, id) ==
  IF WithKey(r, id) # {} THEN CHOOSE n \in WithKey(r, id) : TRUE ELSE Len(cmms[r]) + 1

\* Mutant: that the store has refused the order goes unnoticed.
CreateOrderUnchecked(r) ==
  LET order == [alert |-> proc[r].id, status |-> "open", ref |-> RefOf(r, proc[r].id)] IN
  /\ At(r, "saving")
  /\ CreateInCmms(r, proc[r].id)
  /\ orders' = IF Inserts(order) THEN Append(orders, order) ELSE orders
  /\ Becomes(r, [proc[r] EXCEPT !.at = "linking", !.copy.order = Len(orders) + 1])
  /\ UNCHANGED <<schema, tpl, snap, alerts, history>>

\* Mutant: the refused order is not owed.
CreateOrderForgotten(r) ==
  LET order == [alert |-> proc[r].id, status |-> "open", ref |-> RefOf(r, proc[r].id)] IN
  /\ At(r, "saving")
  /\ CreateInCmms(r, proc[r].id)
  /\ IF Inserts(order)
     THEN /\ orders' = Append(orders, order)
          /\ Becomes(r, [proc[r] EXCEPT !.at = "linking", !.copy.order = Len(orders')])
     ELSE Becomes(r, Done(proc[r])) /\ UNCHANGED orders
  /\ UNCHANGED <<schema, tpl, snap, alerts, history>>

\* The order goes to the CMMS and to the store, which may refuse it: then it is
\* owed, and a first refusal starts the count of the retries.
CreateOrder(r) ==
  LET order == [alert |-> proc[r].id, status |-> "open", ref |-> RefOf(r, proc[r].id)] IN
  /\ At(r, "saving")
  /\ CreateInCmms(r, proc[r].id)
  /\ IF Inserts(order)
     THEN /\ orders' = Append(orders, order)
          /\ Becomes(r, [proc[r] EXCEPT !.at = "linking", !.copy.order = Len(orders')])
     ELSE /\ Becomes(r, [Done(proc[r]) EXCEPT !.owed = TRUE,
                                              !.tries = IF proc[r].owed THEN @ ELSE 0])
          /\ UNCHANGED orders
  /\ UNCHANGED <<schema, tpl, snap, alerts, history>>

Link(r) ==
  /\ At(r, "linking")
  /\ SaveAlert(r, proc[r].id, proc[r].copy)
  /\ Becomes(r, [Done(proc[r]) EXCEPT !.owed = FALSE])
  /\ UNCHANGED <<schema, tpl, snap, orders, cmms, bound, exits, puts, updates, promised>>

Clear(r) ==
  /\ At(r, "serving") /\ proc[r].open # None
  /\ Becomes(r, [proc[r] EXCEPT !.at = "clearing", !.owed = FALSE, !.id = proc[r].open,
                                !.copy = [GetAlert(proc[r].open) EXCEPT !.cleared = TRUE]])
  /\ UNCHANGED <<database, cmms, history>>

SaveCleared(r) ==
  /\ At(r, "clearing")
  /\ SaveAlert(r, proc[r].id, proc[r].copy)
  /\ Becomes(r, [Done(proc[r]) EXCEPT !.open = None])
  /\ UNCHANGED <<schema, tpl, snap, orders, cmms, bound, exits, puts, updates, promised>>

-----------------------------------------------------------------------------
\* Feedback, on any replica: the verdict, the threshold in memory and in the
\* snapshot, the work order, the alert.

Judgement == [confirm |-> "confirmed", dismiss |-> "dismissed"]

Feedback(r, id, verdict) ==
  /\ At(r, "serving") /\ GetAlert(id).status = "open"
  /\ Becomes(r, [proc[r] EXCEPT
       !.at = IF proc[r].known THEN "adapting" ELSE "judging",
       !.moves = IF proc[r].known THEN @ \cup {id} ELSE @,
       !.id = id,
       !.copy = [GetAlert(id) EXCEPT !.status = Judgement[verdict]]])
  /\ UNCHANGED <<database, cmms, history>>

Adapt(r) ==
  /\ At(r, "adapting")
  /\ SaveAssetSnapshot(r, Snapshot(proc[r]))
  /\ Goes(r, IF proc[r].copy.status = "dismissed" /\ proc[r].copy.order # None
             THEN "cancelling" ELSE "judging")
  /\ UNCHANGED <<schema, tpl, alerts, orders, cmms, bound, exits, puts, overlap, promised>>

\* The reference is looked up in this process's CMMS.
CancelsInCmms(r, ref) == ref \in DOMAIN cmms[r]

\* cancelWorkOrder.  A failure is logged and the verdict goes on.
CancelOrder(r) ==
  LET w == proc[r].copy.order IN
  /\ At(r, "cancelling")
  /\ IF GetWorkOrder(w).status = "open" /\ CancelsInCmms(r, GetWorkOrder(w).ref)
     THEN /\ cmms' = [cmms EXCEPT ![r][GetWorkOrder(w).ref].cancelled = TRUE]
          /\ Goes(r, "voiding")
     ELSE Goes(r, "judging") /\ UNCHANGED cmms
  /\ UNCHANGED <<database, history>>

\* The order is written as it was read, cancelled.
VoidOrder(r) ==
  /\ At(r, "voiding") /\ Goes(r, "judging")
  /\ orders' = [orders EXCEPT ![proc[r].copy.order].status = "cancelled"]
  /\ UNCHANGED <<schema, tpl, snap, alerts, cmms, history>>

SaveVerdict(r) ==
  /\ At(r, "judging")
  /\ SaveAlert(r, proc[r].id, proc[r].copy)
  /\ Becomes(r, Done(proc[r]))
  /\ promised' = [promised EXCEPT !.moves = @ \cup (proc[r].moves \cap {proc[r].id})]
  /\ UNCHANGED <<schema, tpl, snap, orders, cmms, bound, exits, puts, updates>>

\* Mutant: the assets are rebuilt without what they have learned.
PutTemplateForgets(r, t) ==
  /\ At(r, "serving") /\ puts < bound.puts
  /\ UpsertTemplate(t)
  /\ Becomes(r, [proc[r] EXCEPT !.tpl = t, !.base = Unlearned])
  /\ puts' = puts + 1
  /\ stale' = stale \cup {q \in Replicas \ {r} : HasTemplates(q)}
  /\ promised' = [promised EXCEPT !.tpl = t, !.learned = @ \cap Recipe[t]]
  /\ UNCHANGED <<schema, snap, alerts, orders, cmms, bound, exits, clobbered, overlap>>

\* The assets in memory are rebuilt; their snapshots stay as they are.
PutTemplate(r, t) ==
  /\ At(r, "serving") /\ puts < bound.puts
  /\ UpsertTemplate(t)
  /\ Becomes(r, [proc[r] EXCEPT !.tpl = t, !.base = Merged(proc[r].base, Recipe[t])])
  /\ puts' = puts + 1
  /\ stale' = stale \cup {q \in Replicas \ {r} : HasTemplates(q)}
  /\ promised' = [promised EXCEPT !.tpl = t, !.learned = @ \cap Recipe[t]]
  /\ UNCHANGED <<schema, snap, alerts, orders, cmms, bound, exits, clobbered, overlap>>

\* A verdict on an alert that is not stored, or already judged, changes nothing.
HandleFeedback(r) ==
  \E id \in DOMAIN alerts, verdict \in bound.verdicts : Feedback(r, id, verdict)

-----------------------------------------------------------------------------
\* The end of a process: its memory and its CMMS are gone.
Ends(r) ==
  /\ exits < bound.exits /\ exits' = exits + 1
  /\ Becomes(r, Fresh("down"))
  /\ cmms' = [cmms EXCEPT ![r] = <<>>]
  /\ stale' = stale \ {r}
  /\ UNCHANGED <<database, bound, puts, clobbered, overlap, promised>>

\* SIGTERM, and the handlers drain in time.
Stop(r) == At(r, "serving") /\ Ends(r)

\* Killed, or stopped with a handler that the deadline cuts.
Crash(r) == Running(r) /\ ~ At(r, "serving") /\ Ends(r)

Starting(r) ==
  \/ Start(r) \/ CreateTableRaced(r) \/ CheckMigration(r) \/ Apply(r)
  \/ LoadTemplates(r) \/ Seed(r) \/ Restore(r)

Working(r) ==
  \/ FindOrder(r) \/ CreateOrder(r) \/ Link(r) \/ SaveCleared(r)
  \/ Adapt(r) \/ CancelOrder(r) \/ VoidOrder(r) \/ SaveVerdict(r)

\* The handlers that begin: batches of metrics, and requests.
Ingest(r) == Register(r) \/ Learn(r) \/ Fire(r) \/ Hold(r) \/ Clear(r)
Requests(r) == HandleFeedback(r) \/ \E t \in Templates : PutTemplate(r, t)

Next == \E r \in Replicas :
  \/ Starting(r) \/ Working(r)
  \/ Ingest(r) \/ Requests(r)
  \/ Stop(r) \/ Crash(r)

Spec == Init /\ [][Next]_vars

\* A process that is down is started again, and its goroutines go on.
FairSpec == Spec /\ \A r \in Replicas : WF_vars(Starting(r) \/ Working(r))

-----------------------------------------------------------------------------
Base == [own : SUBSET UNION {Recipe[t] : t \in Templates},
         lent : SUBSET UNION {Recipe[t] : t \in Templates}]

TypeOK ==
  /\ bound \in Scenarios /\ schema \in Nat /\ tpl \in Templates \cup {NoTemplate}
  /\ snap \subseteq [base : Base, moves : SUBSET AlertIds] /\ Cardinality(snap) <= 1
  /\ alerts \in Seq([status : {"open", "confirmed", "dismissed"}, order : 0..Len(orders),
                     cleared : BOOLEAN])
  /\ orders \in Seq([alert : AlertIds, status : {"open", "cancelled"}, ref : AlertIds])
  /\ \A r \in Replicas :
       /\ proc[r].open \in 0..bound.alerts /\ proc[r].id \in 0..bound.alerts
       /\ proc[r].tries \in 0..MaxRetry /\ proc[r].moves \subseteq AlertIds
       /\ proc[r].copy.order \in 0..Len(orders) /\ proc[r].base \in Base
  /\ cmms \in [Replicas -> Seq([alert : AlertIds, cancelled : BOOLEAN])]
  /\ exits \in 0..bound.exits /\ puts \in 0..bound.puts /\ stale \subseteq Replicas

\* Processes that start at the same time apply a migration once between them,
\* and none reads or serves before it is applied.
MigratedOnce ==
  /\ schema <= 1
  /\ \A r \in Replicas :
       proc[r].at \notin {"down", "migrating", "applying"} => schema = 1

\* The asset has at most one open work order, whichever processes raise it at
\* the same time.
OneOpenOrder == Cardinality(OpenOrders) <= 1

\* An order that the store has refused, because another process was first, stays
\* owed until the alert is linked to an order: unless a handler of another
\* process has written the alert in between, no alert of a running episode is
\* left without one.
NoOrderForgotten ==
  ~ overlap => \A r \in Replicas :
    At(r, "serving") /\ proc[r].open # None /\ ~ proc[r].owed =>
      alerts[proc[r].open].order # None

\* What an operator has put, what an asset has learned, of the features that every
\* template since has had, and the thresholds that answered verdicts have moved
\* are stored, whatever processes run, start, stop and are killed.  They get
\* lost in one way only: a process writes what it has of a template or a snapshot
\* that another has replaced since it was read.  And as long as what a process
\* has was not replaced, it serves from the stored template, with the thresholds
\* a restart would restore, and with no learned baseline that one would not.
OnlyStaleWritesLose ==
  ~ clobbered =>
    /\ promised.tpl # NoTemplate => tpl = promised.tpl
    /\ promised.learned # {} => \E s \in snap : promised.learned \subseteq s.base.own
    /\ promised.moves # {} => \E s \in snap : promised.moves \subseteq s.moves
    /\ \A r \in Replicas \ stale : At(r, "serving") =>
         /\ proc[r].tpl = tpl
         /\ promised.learned \subseteq proc[r].base.own
         /\ \A s \in snap : proc[r].base.own \subseteq s.base.own /\ proc[r].moves = s.moves
         /\ snap = {} => proc[r].base.own = {} /\ proc[r].moves = {}

\* A process may be behind; but its handlers take back what another has written
\* of an alert, its verdict, its work order or its end, only if they overlapped.
FactsStay ==
  [][~ overlap' => \A i \in DOMAIN alerts :
       /\ alerts[i].status # "open" => alerts'[i].status = alerts[i].status
       /\ alerts[i].order # None => alerts'[i].order = alerts[i].order
       /\ alerts[i].cleared => alerts'[i].cleared]_vars

\* A process that gave up on a migration starts again and succeeds, and no
\* handler is ever stuck.
ReplicasServe == \A r \in Replicas : []<>At(r, "serving")
=============================================================================
