# predictmaint in TLA+

A verification development for predictmaint, the predictive-maintenance engine
in `src/`: TLA+ modules of its state machines, the TLC configurations that check
them on small instances, and theorems checked by TLAPS. `PROJECT.json` maps every
definition to the lines of Go it models, and every property to the hazard it is
about and to a mutant of the code it must catch.

## The system

Metrics of assets arrive in batches, over Kafka or HTTP. `Engine.Ingest` sorts
them by asset and time, pushes each sample into its asset's windows and, whenever
the windows are full and the time has advanced, evaluates the asset: features,
detectors, one fused risk, and the alerting policy's decision on it. A fired alert
is saved and may raise a work order in a CMMS; a technician's verdict on the alert
moves the asset's threshold.

| Component | State | Operations | What makes it correct |
|---|---|---|---|
| Rate limiter `alerting/ratelimit.go` | event times still inside the window | `Allow`, `Count` | no more than the limit per window; no denial below it |
| Alert policy `alerting/policy.go` | state, two counters, quiet period, offset, "alerted", limiter | `Evaluate`, `ApplyFeedback`, `SetParams`, `SetOffset` | persistence, hysteresis, quiet period, one alert per episode, guardrails of the threshold |
| Engine, alerts and orders `engine/engine.go` | per asset: open alert, pending order, retries; store; CMMS | outcomes of `evaluate`, `raiseWorkOrder`, `Feedback`, `cancelWorkOrder`, `PutTemplate`, `New` | no dangling links, one open order per failure mode, bounded retries, durable verdicts |
| Engine, ingest | per asset and signal: high-water mark, window; last evaluation, learner, baselines and where they come from | `Ingest`, `assetFor`, `push`, `evaluateIfReady`, `applyTemplate` | no sample twice or skipped, evaluation on full and consistent windows, every metric accounted for, replays are safe, learned baselines are kept |
| Features `features/` | ring buffers of the latest samples | push, values, extract | windows hold the latest samples, oldest first |
| Detectors `detect/` | CUSUM sums, the forest's two windows of masses, the learner | observe, update, reset, fit | nothing accumulated against old baselines is used with new ones |
| Templates `template/` | the active template of each class, stored and in memory | validate, seed, put, reload | what validation admits is what the engine relies on |
| Store `adapters/memory`, `adapters/postgres` | alerts, work orders, snapshots, templates, applied migrations | migrate, save, get, find open order | a failed write may or may not have been applied; one open order per asset and mode; a migration is applied once |
| CMMS `cmms/` | orders by idempotency key | create, cancel | the same key gives the same order |
| HTTP API `api/http` | | ingest, feedback, put template, lists | the answer says what became of the batch |
| Process `cmd/predictmaint`, `config/` | | start: migrate, load or seed, restore, serve; drain; be killed | a start meets any state that a stop, a crash or another process left |
| Kafka consumer `adapters/kafka` | offsets | poll, handle, commit | offsets are committed only after a batch that was taken |
| CMMS payload mappers, observability, simulator, deployment | none the alerting depends on | | |

How they interact. One mutex in the engine covers `Ingest`, `Feedback`,
`PutTemplate` and the reads, so these handlers do not interleave in memory. What
does interleave: the calls a handler makes to the store and to the CMMS, each of
which may fail, or fail *after* taking effect; a crash between any two of them; the
batches' arrival, in any order and any number of times; assets of one site whose
event times are not aligned and which share a site limiter; several replicas on
one database. Failure is where this code is hard: the policy moves before the alert
is saved, the CMMS is asked before the order is saved, the offset moves before
the snapshot is saved, and what was done in memory is not undone.

## Modules

| Module | Models | Builds on |
|---|---|---|
| `SlidingWindow` | what `prune` and `Allow` compute, as pure operators | |
| `RateLimiter` | one limiter and its callers, who may be out of order | `SlidingWindow` |
| `SlidingWindowProof` | lemmas about `SlidingWindow` | `SlidingWindow`, TLAPS |
| `RateLimiterProof` | theorems about `RateLimiter` | `RateLimiter`, `SlidingWindowProof` |
| `Episode` | abstract: what one asset's alerting promises | |
| `AlertPolicy`, `MCAlertPolicy` | `AssetPolicy`, every branch | `SlidingWindow`, refines `Episode` |
| `AlertPolicyProof` | theorems about `AlertPolicy` | `AlertPolicy`, `SlidingWindowProof` |
| `WorkOrders`, `MCWorkOrders` | the engine between an alert, its order and its verdict | the phases of `Episode` |
| `Window` | the ring buffer of a signal's samples, as pure operators | |
| `Detectors` | the forest's and the CUSUM's state, as far as it depends on baselines, as pure operators | |
| `Ingest`, `MCIngest` | the batch loop, registration, high-water marks, windows, readiness, learning, detectors, the answer | `Window`, `Detectors`, the phases of `Episode` |
| `KafkaConsumer`, `MCKafkaConsumer` | the poll loops of a group of replicas | |
| `Replicas`, `MCReplicas` | processes on one database: start, handlers call by call, stop, crash | the phases of a handler as in `WorkOrders` |
| `WorkOrdersProof` | theorems about `WorkOrders` | `WorkOrders`, TLAPS |
| `ReplicasProof` | theorems about `Replicas` | `Replicas`, TLAPS |
| `KafkaConsumerProof` | theorems about `KafkaConsumer` | `KafkaConsumer`, TLAPS |
| `WindowProof` | theorems about `Window` | `Window`, TLAPS |
| `IngestProof` | theorems about `Ingest` | `Ingest`, `WindowProof` |

The split follows the code's own seams. `AlertPolicy` leaves open what the
detectors and the site limiter say; `WorkOrders` and `Ingest` leave open what the
policy says, within the phases of `Episode` that `AlertPolicy` is shown to
implement. So each is checked against every behaviour of the others. `WorkOrders` has
one process, whose handlers are atomic but for failures and crashes; `Replicas` has several,
whose handlers interleave at every store call, and no failures.

### RateLimiter

A call brings its own event time; there is no clock. `events` is `r.events`, in
recording order: the code never sorts it and stops pruning at the first live
event, and `FirstLive` does the same. `Slack` bounds how far behind the newest
call a caller may be: 0 for an asset's own limiter, the misalignment of the streams
for a site's. `granted` is the history of the calls that were answered true.

### AlertPolicy

`p` is the parameters, `a` the rest of the struct. `Evaluate` is split into an
action per branch: `BelowThreshold`, `Pend`, `Suppress`, `AssetLimited`, `SiteLimited`,
`Fire`, `Hold`, `Clear`. Risks, thresholds and offsets are integers in
thousandths, so that the 0.01 of `EffectiveThreshold` is exact. `SetParams` is what
`engine.applyTemplate` does to the policy, which includes forgetting the time of the
last evaluation: after an update event times may go back. `up`, `down`, `fires` and
`alerts` are histories for the properties; they do not depend on the
policy's own counters.

### WorkOrders

Handlers are atomic in memory, and each is a disjunction over where its chain of
calls breaks off. A failed write leaves the store either as it was or as the
write made it (`AfterWrite`); a failed creation leaves the CMMS either way. A
crash inside a handler leaves what a failed call followed by `Crash` leaves, so
`Crash` is an action of its own. An offset is modelled as which verdicts moved it
and how often, so that "adapted twice" shows. The CMMS is the service the port
stands for: durable, idempotent by key. The simulated CMMS lives in the process
and restarts empty; it is for demonstrations. `Warm` is the evaluation that ends
the warm-up; a decision of the same evaluation follows it as a step of its own,
since a crash may come between the two.

### Ingest

An action is one turn of the batch loop: `Begin` validates and groups, `Register` or
`Refuse` is `assetFor`, `Accept`, `Duplicate` and `Reject` are the ways out of `push`,
`Evaluate` is `evaluateIfReady` with each outcome, `Leave` ends an asset, `Finish`
the batch. While `job` is a batch no other handler runs (the mutex); the process
may crash between any two turns. A metric carries what the loop looks at, and
whether its validation and its unit are in order, and how many samples it brings: one, or
a burst. `job.res` is the result the batch is answered with, and `Status` what `handleIngest`
makes of it. Runtime is the signal that has a high-water mark and no window.

`Grouped` is the grouping and sorting: an asset's place is where it first appears (`Firsts`), and
`Arranged` is what `sort.SliceStable` leaves, said of positions: each goes to the place that the number
of those up to it gives. The code leaves out invalid metrics before it sorts, and so does `Valid`.

Windows are the ring buffers of `Window`: slots, head and count, and a sample is the time
of its metric and its place in the burst. Two histories since the last restart say what was
accepted: `accepted` has the times, `taken` the samples under the template in force.
Baselines are functions from features to "own" (learned) or "class" (the template's default),
with `src` the code's `baseline_source`; `Merged` is `mergeBaselines`, `Fitted` is
`fitBaselines`, `Rebuilt` is `applyTemplate`. `Detectors` keeps, in place of masses and sums, the
baselines that the points in them were standardised with, since that is what makes a mass or a sum
worth anything; the forest's two windows, its rollover and the resets are the code's. Scores
are left out, and what the policy decides is open.

`PutTemplate` varies the features only. An update may also change signals, window sizes, minimum samples
and the runtime signal; the windows are built anew either way (`NewExtractor`), so what the properties say of
refilling does not depend on it, but an update that changes their sizes is not checked. `Due` is what `Ingest`'s
loop and `evaluateIfReady` test before an evaluation. The code tests it once at each boundary; the
model has it as a guard, which comes to the same, since an evaluation notes its time (`lastEval`) and thereby ends
it. That the loop ends is no question for the model: it ranges over finite slices.

### KafkaConsumer

`con` is the consumers of the group, each at a place in `Run`'s loop: `Poll`, then `Skip` when
nothing can be decoded, else `HandlerTakes` or `HandlerFails`, then `Commit` or `CommitFails`. `Stop`
ends a process at any of them, by a crash or a shutdown. The library and the broker are external and
modelled as the code configures them (`New`): commits by hand, and
`BlockRebalanceOnPoll`, so that a partition moves (`Revoke`, then `Assign` from the
committed offset) only between `AllowRebalance` and the next poll. `CommitUncommittedOffsets` commits what the
client has read of the partitions it owns, which is its position. `Evict` is the group's
timeout: the consumer goes on with its batch, and its commit counts for nothing.

### Replicas

What the other modules leave to one process, for several of them on one PostgreSQL database. `proc[r]` is
where a process is and what its engine remembers of one asset; `copy` is the alert a handler
has read and will write back whole. An action is one call of the store and what the handler does
until the next one, so that other processes act between any two calls. `CheckMigration` and
`Apply` are `Migrate`: the file and its row of `schema_migrations` are one transaction, and the
second of two processes fails on the row's key and exits; `CreateTableRaced` is the other way to lose that race, in
`CREATE TABLE IF NOT EXISTS`. `LoadTemplates`, `Seed` and `Restore` are `New`. `FindOrder`, `CreateOrder` and `Link` are `raiseWorkOrder`, with `Inserts` the partial
unique index; `Hold` is its retry, which reads the alert again. `Feedback`, `Adapt`, `CancelOrder`, `VoidOrder`, `SaveVerdict`
are one verdict, the order read and cancelled in the CMMS in one and written in the next. Each process has its own simulated CMMS, as `run` builds it, and loses
it when it ends. `Stop` is a drained shutdown, `Crash` a kill or the drain's deadline. One asset
and one failure mode: rows of different assets do not meet.

`base` is the baselines that count as the asset's own, by feature: those it has learned (`own`), and the class's
that a merge has put among them (`lent`); with neither, the asset is on the class's. `Merged` is what `applyTemplate`
and `mergeBaselines` make of them, at an update (`PutTemplate`, which leaves the snapshot as it is) and at a restart
(`Restore`, with the template stored by then). `moves` is the offset, as the verdicts that moved it.

`overlap`, `stale`, `clobbered` and `promised` are histories. Has an alert been written while another process's
handler held a copy of it? Which processes have read a template or a snapshot that another has since replaced, and
has one of them written what it had? `FactsStay` and `NoOrderForgotten` are what holds without the first,
`OnlyStaleWritesLose` what holds without the last. They are statements about which writes do the harm; the
harm itself is listed under "Divergences". What is promised of an asset's baselines is what it has learned, less the
features that a template put since has lacked.

## Runs

| Run | Shows |
|---|---|
| `rate_limiter` | For callers up to 2 behind, limit 2 in 3: grants are spaced as `SpacedGrants` says, and a denial has its cause |
| `limit_per_window` (violation) | The comment's "at most `limit` events per `window`" does not hold for callers out of order |
| `alert_policy` | Persistence to open and to clear, spacing of alerts, hourly limit, guardrails, and the refinement of `Episode`, through feedback and template updates |
| `threshold_range` (violation) | A valid class whose threshold is above its documented cap |
| `work_orders` | Links resolve, one open order, bounded attempts, verdicts survive, facts stay, retries end, with up to two failures anywhere |
| `duplicate_orders` (violation) | One failure is enough for a second live order in the CMMS |
| `verdict_once` (violation) | A repeated verdict adapts twice after a failed save |
| `ingest` | No sample counts twice, an answered batch was taken in whole and its counts add up, evaluations see exactly their moment's metrics on refilled windows, windows hold the latest samples, detectors have only seen the baselines in force, the warm-up learns every feature, learned baselines are saved |
| `kafka_consumer` | Only a handler's failure can lose a record; no two members have one at hand; rebalances end; undecodable records hold up none |
| `replicas` | Two processes that start at once migrate once and both come to serve; they have one open order between them, and the one whose order is refused stays in its debt; facts of an alert are lost only to an overlap; templates, baselines and offsets are lost only to the write of a process that is behind, whatever is updated, stopped and killed |
| `commit_over_failure` (violation) | The commit after a successful batch covers a failed one before it |
| `lost_alert` (violation) | A batch that failed in `SaveAlert` is replayed without an error and the alert is lost |

Bounds, and why they are enough:

- `rate_limiter`: `Horizon` 8 and 6 grants let the window of length 3 pass more
  than twice, with calls behind the newest one; the theorems remove the bounds.
- `alert_policy`: two classes that differ in thresholds, persistence, limit and
  `MaxOffset`, so that an update moves every one of them under a running
  episode; four risks, one for each side of each threshold; 9 time units with an hour
  of 7: two episodes of the guarded class, or more alerts of the relaxed class than
  its hourly limit. `MaxStreak` 3 is above both persistences.
- `work_orders`: one asset, one contributing feature besides the empty one, two template
  versions that disagree on its failure mode, two alerts (the second meets the
  first one's order), one retry, two faults. Assets share nothing here but the
  stores, keyed by asset, so a second asset adds interleavings and no interaction. Every
  violation found needs at most one fault.
- `ingest`: two assets, two windowed signals and the runtime counter, three batches:
  one out of order with a burst longer than its window, one overlapping it, one of metrics to be
  rejected for every reason, for an asset that is first refused. Event times 1..3. Windows of
  two samples wrap, in the middle of the burst too; one signal is ready with one sample, the
  other with a full window. A warm-up of three (the least a template may ask for) and a forest
  window of two: the forest rolls over before the refit and fills again after it. Three
  recipes: two share a feature, the third has nothing of the first; two of the three features have class
  defaults. One template update, one fault.
- `replicas`: two processes. Three scenarios, because their product is too large: two alerts, whose
  orders race, between two processes that stay (an order refused, owed, retried, linked to
  the other's, dismissed and cancelled at either process); one alert judged either way, and one exit at any
  step; and one alert with learning, a template put, and one exit at any step. Three templates: one keeps a
  feature of the built-in one, drops another and adds one that has a class baseline; one has none of them. One retry.
  The theorems remove the bounds from all but liveness.
- `kafka_consumer`: two replicas and two partitions are the least in which a rebalance
  moves one partition and not the other; two records in one, so that a batch can fail and
  the next succeed; polls of one or two records, from one partition or both; two
  faults. The topic is finite: what is checked is what becomes of records once published.

Deadlock is checked everywhere but in `replicas`, where a service that nobody calls, its bounds used
up, has nothing to do; that no handler is ever stuck is `ReplicasServe` there. In the passing
runs every action fires.

Fairness, used by four properties. `RetriesEnd` assumes weak fairness of `Retry(x)
\/ RetryUnread(x)`: assets report at a cadence, so an open episode is evaluated
again; nothing is assumed of whether the calls succeed, nor of the arrival of batches, verdicts
or updates. `RebalancesEnd` and
`EveryRecordDelivered` assume that the poll loops run, that a stopped replica is started
again (`Join`; the deployment restarts its pods) and that the coordinator carries out its
assignment. A partition moves between two batches; weak fairness is enough for that, since
the topic runs dry and the loop then holds nothing. `ReplicasServe` assumes that a process that is down is
started again (the orchestrator) and that the goroutines of a start and of a begun handler go
on; nothing of requests.

Mutants. A definition above its original, named for its flaw and marked "Mutant", is
the same definition with a plausible bug. `PROJECT.json` pairs each property with
one: with the mutant in place of the original, the run must find the property
violated. No specification uses them otherwise.

## Findings

1. `limit_per_window`, `ratelimit.go:18`. The window is pruned relative to the call, not,
   as lines 29-31 say, to the newest time seen. After a late call has dropped the old
   events, an earlier call finds room in a window that is full. The most that holds is
   `SpacedGrants`: the guarantee weakens by the misalignment of the callers.
2. `threshold_range`, `policy.go:199`. The floor `OffThreshold + 0.01` is applied after
   the cap, and `Validate` allows an `OffThreshold` within 0.01 of `MaxThreshold`. What holds is
   `ThresholdGuardrails`.
3. `duplicate_orders`, `engine.go:493`. An order that was created but not saved is
   known to no one but its idempotency key, and the key contains the alert: the next
   alert creates another. In the store, `OneOpenOrder` still holds.
4. `verdict_once`, `engine.go:567`. The offset moves before the snapshot and the alert
   are saved; repeating a verdict after an error moves it again.
5. `lost_alert`, `engine.go:342`. The policy opens the episode before `SaveAlert`; after a
   failure the replay's metrics are duplicates and the episode is already open.

6. `commit_over_failure`, `consumer.go:137`. The loop goes on polling after a failed batch, and
   the next successful one commits past it. What holds is `LostOnlyByFailure`. Together with
   finding 5: a store that fails once loses the alert and what was left of the batch.

## Divergences

Behaviour that differs from what a document says or a reader expects, met while modelling, that
no run is devoted to:

- `WORKORDER_RETRIES=0` passes `config.go:137` but `engine.go:106-108` turns it into 5.
- A template update merges what is in use as if it were all learned (`asset.go:99`): baselines that an
  earlier merge took from the class count as the asset's own from then on. After two updates that
  drop every feature it had learned, an asset may have nothing but class defaults, report them as its
  own, and learn no more. README line 125 says that learned baselines survive. (`Ingest` with `MaxUpdates = 2` shows it.)
- An update drops the baselines of features its template lacks from memory only; the snapshot keeps them
  (`engine.go:762-774`). If a later update brings such a feature back, the process has the class's baseline or none for it
  until a restart finds the learned one in the snapshot, unless a verdict has stored the smaller baselines in between
  (`engine.go:521-523`): then it is gone. An asset whose learned features are all dropped is on the class's
  baselines and learns again, while its snapshot still has the old ones.
- Feedback for an asset that another replica ingests adapts the threshold of this replica's stale copy
  (`engine.go:567`), and its snapshot overwrites the other's learned baselines and offset.
  ADR-0004 lines 52-53 count on an asset's metrics going to one replica; feedback does not.
- A rebalance without a restart moves an asset to a replica that restored it when it started, or never
  (ADR-0004 line 66).
- Two processes on an empty database both seed; the second's built-in template overwrites one that an
  operator has put in between (`engine.go:130`, against ADR-0002 line 23: operator tuning is authoritative).
- `Clear`, `Link` and `Feedback` write an alert whole: of two processes that hold it, the later write
  takes back the earlier's facts. `FactsStay` says that nothing else does.
- The Kafka handler's context is the one SIGTERM cancels, so that a batch in progress ends with an
  error, after which the offset is not committed: safe, but not the drain that HTTP requests get.
- Each replica has its own site limiters and its own simulated CMMS. A verdict judged at another
  replica, or after a restart, does not find the order's reference, or finds a stranger's; the stored
  order then stays open and its failure mode gets no other.
- Replicas that race for an order leave the loser's order in the CMMS: the effect of
  finding 3, without any failure.

## Proofs

`RateLimiterProof` proves, for every limit, window, slack and horizon that
`LimiterAssumption` admits (a positive limit and window, which is when the engine
builds a limiter):

- `LimiterTypeOK`: never more events recorded than the limit;
- `GrantsAreSpaced` and `DenialsAreJustified`: the two properties of the run;
- `LimitInOrder`: with `Slack` 0, which is how an asset's own limiter is called, `[]AtMostLimitPerWindow`:
  what finding 1 refutes of a site's limiter;
- `LimiterInvariant`: the inductive invariant behind them.

`SpacedGrants` is not inductive: a grant looks at the recorded events, the property at all
the grants of the past. `IInv` adds what connects them. `Recorded`: the list is the tail
of the history of grants, since `prune` only drops from the front and `Allow` only
appends. `Expired`: the grants no longer in the list had left the window of the newest
call, or of an earlier one. `Tracked`: no grant is ahead of the newest call, and none is
more than `Slack` behind an earlier one. A grant that finds fewer than `Limit`
events live then has the grant `Limit` before it among the expired ones, at least
`Window` before the newest call, which the granted call is at most `Slack` behind. A denial finds a
full list whose first event is live, and the rest are at most `Slack` before it.

The lemmas below it, in `SlidingWindowProof`: a nonempty set of naturals has a least element (from the
library's well-foundedness theorems); hence `FirstLive`, a `CHOOSE`, is what prune's
loop computes; hence `Prune` drops a prefix of expired events and nothing else.

`AlertPolicyProof` proves every property of the run `alert_policy`, for all valid parameters
(`ValidParams`), saved offsets and risks, and any number of evaluations, verdicts and template updates:

- `LimitKept`: `[]AssetLimitKept`; `Distance`: `[]AlertsApart`;
- `Guardrails`: `[]ThresholdGuardrails`;
- `Opening` and `Clearing`: `OpeningNeedsPersistence` and `ClearingNeedsPersistence`;
- `Contract`: `ImplementsEpisode`, the refinement; `PolicyTypeOK`: `[]TypeOK`.

`IInv` adds four facts. `Streaks`: what the policy counts is no longer than the streak there was, and its
counters stay below `MaxStreak` also when an update lowers what they are compared with. `Raised`: the alerts of an open
episode are those it remembers. `Recalled`: an alert still inside the hour is in the limiter's list, at
least as far from the list's end as from the history's end; the list has more than the history, since
the asset's limiter records an event that the site's then refuses, and therefore the limit cannot be had from
the list's length alone. `Since`: how far the last evaluation and the quiet period are past the last alert, in
terms of the counters. The assumption is that the engine evaluates at increasing event times, which is `Observe`'s
guard and the engine's high-water mark.

`WorkOrdersProof` proves every property of the run `work_orders` but its liveness, for any assets, features, failure
modes and template versions, alerts, retries and faults:

- `LinksResolve`, `NoSecondOpenOrder`, `AttemptsAreBounded`, `AgreementWithoutFaults`, `VerdictsSurvive`:
  the invariants `ReferencesResolve`, `OneOpenOrder`, `AttemptsBounded`, `FaultFree`, `VerdictSurvives`;
- `FactsNeverRetracted`: `FactsStay`; `TypeCorrect`: `[]TypeOK`;
- `Invariance`: the inductive invariant behind them.

None of the five is inductive alone. `Remembered` is what the memory of an asset says of the store: its open alert
is stored and its own, a quiet asset has nothing to retry. `RecordsResolve`: the CMMS was asked for stored
alerts only, also by a creation whose answer was lost. `AttemptsCounted`: an alert that may be tried again has had the
first attempt and one for each retry spent, or fewer, since a retry that cannot read the alert is spent without
asking; a restart forgets the count and the alert with it. `MemoryAgrees`: as long as nothing failed, nothing is owed
and a quiet asset has no alert. `AtMostOneOpen` says `OneOpenOrder` of pairs, so that adding an order needs
no arithmetic of cardinalities.

`ReplicasProof` proves, for every set of replicas, bound on retries and set of scenarios, so for any
number of processes, templates, updates, alerts, stops and crashes:

- `Migrations`: `[]MigratedOnce`;
- `OpenOrderUnique`: `[]OneOpenOrder`;
- `Facts`: `FactsStay`;
- `OrdersRemembered`: `[]NoOrderForgotten`;
- `LostByStaleWritesOnly`: `[]OnlyStaleWritesLose`; `TypeCorrect`: `[]TypeOK`;
- `Invariance`: the inductive invariant behind them, in six parts.

`Types` is as much of the types as the rest needs, `Migrated` and `Unique` are the first two
properties, inductive by the row's key and the index. `FactsStay` needs the other three. `Episodes`: an alert
is the open one of one process at most, whose handler alone raises and ends what is of it, and between handlers
nothing is in hand. `Unlinked`: while an order is owed or being raised, neither the
stored alert nor any copy of it knows of one, but for the copy about to be saved; without it `Link`
might overwrite a link that a verdict had written. `UpToDate`: as long as there was no overlap, a copy in hand knows
all that the stored alert does. It is in this last one that the order of the calls counts: a
retry that went on with the alert as it was when it fired would break it, which is its mutant.

The proof first states, for each action, its effect on what the invariant looks at (`...Effect`), then
what such an effect keeps (`...Kept`), and puts the two together (`...Step`).

The other three theorems rest on `IInv` and one more invariant each. For `NoOrderForgotten`, `Linked` says of every
process with an open alert that it is raising its order, owes it, is ending the episode, or finds it in the stored alert; and that a copy about to
be linked has it. A copy that is written keeps the link because it was not behind (`UpToDate`).

For `OnlyStaleWritesLose`, `Safe` says three things as long as no write was of what another had replaced. `Promises`:
what is promised is stored, and a learned feature is one the stored template has. `Backed`: no process, up to date or not,
has moved a threshold by more than the snapshot says, but for the verdict it is at; without it the answer of a
process that is behind would promise what is not stored. `Current`: what a process that is not behind has of the
database, step by step of its start, is what is stored, except that its learned baselines may be fewer, after an update. It
is not inductive without the second part of `Promises`: a process that seeds the built-in template does no harm only because,
nothing having been put, the stored template is that one or none. That an update keeps what it should is
`MergedOwn`, and it is the order of the calls, snapshot before answer, that keeps `Promises`.

For `TypeOK`, `Bounded`: the references a simulated CMMS gives out are bounded although its orders
are a list that grows, since each order of it is of another alert (`Keyed`, by the idempotency key); the pigeonhole
principle then bounds the list.

`KafkaConsumerProof` proves, for every group, topic and number of failures:

- `NothingSlipsThrough`: `[]LostOnlyByFailure`;
- `OneHandlerAtATime`: `[]OneHandler`; `GroupTypeCorrect`: `[]TypeOK`;
- `Invariance`: the inductive invariant behind them.

`Types` is the types; `Grouped`: partitions belong to members, also those about to move;
`Blocking`: a consumer with a batch at hand blocks rebalances; `Holds`: a member's batch is of its own
partitions, which is what `Blocking` keeps while partitions move. `Delivered` says of a record that the broker
was told of that it was handed to a handler, and of one that a client has read, on a partition it owns, the same
but for the batch at hand: a commit covers positions, not batches, so the first half is not
inductive without the second. It is false of a loop that commits before the handler has answered. `Ranges`, for
the types, keeps every position and every committed offset within its partition.

`WindowProof` proves, for every capacity and any samples, that `Push` turns a ring buffer that
stands for the latest of the samples into one that stands for the latest of them and one more
(`PushKeepsLatest`), from an empty one (`NewWindowIsEmpty`), and that `PushAll` does so for a burst of any
length (`PushAllKeepsLatest`), which may wrap the ring several times.

`IngestProof` proves every property of the run `ingest`, for any assets, classes, signals, windows,
templates, batches, faults and updates that `IngestAssumption` admits (windows of two samples or more,
templates as `Validate` leaves them):

- `AcceptsInOrder`, `AnswersAreHonest`, `MetricsAreCounted`, `WindowsAreLatest`, `DetectorsMatch`, `LearnedSurvives`:
  the invariants `SamplesInOrder`, `AnsweredMeansTaken`, `EveryMetricCounted`, `WindowsHoldLatest`,
  `DetectorsMatchBaselines`, `LearnedIsSaved`;
- `ReadyToEvaluate`, `SnapshotsOfTheBatch`, `LearnsWholeTemplate`: the action properties
  `EvaluationsAreReady`, `EvaluationsAreSnapshots`, `LearnsEveryFeature`;
- `TypeCorrect`: `[]TypeOK`; `CoreInvariant`: the inductive invariant behind them.

`Core` has three parts besides the properties in it. `StoreOK` is types. `Memory` is the memory of the assets and
its histories: `HistoryOK` says that no accepted time is later than its signal's high-water mark, without which
`SamplesInOrder` is not inductive, and that an asset that is not known has no history, without which
a registration would start with one. `MemoryOK` says of an asset (`AssetOK`) what its window, its
detectors and its baselines are under the template in force: those of an asset that has learned nothing are the class's, so that
the source the code keeps (`baseline_source`) says whether anything is lost with them.

`BatchOK` is the batch half way through. `QueuesOK`: one queue an asset, each in order of time, the first
with nothing earlier than the last metric pushed. `TurnsOK`: of an asset whose turn has not
passed, what is not in its queue is not later than the last one pushed; the two are what makes an evaluation a snapshot of
its moment. `MetricsOK`: each metric of the batch is in a queue, was rejected, or is at or below its mark; and as long as
nothing was accepted or skipped, it is in a queue or was rejected. When the queues are empty the first
line is what "ok" claims and the second what "refused" claims; neither answer could be justified from the counts.
`CountOK`: the counts and what is still to do add up. The marks must never fall while the batch is in progress, nor an asset be
forgotten (a crash ends the batch).

All of it starts with `Begin`, so with the sort: `Place` numbers the positions from 1 to their number and no two alike, hence
`Arranged` is a bijection in increasing order (`Places`, `Sorted`), hence the queues hold the valid metrics, each once,
and the places in them are as many as those. That is the proof's largest part; the rest
goes action by action, first what the step does to the memory (`Registers`, `Takes`, `Evaluates`, `Retemplates`, `Restarts`), then
what such a step keeps.

Two proofs need induction over the length of a sequence, of a burst and of a sorted list. The library's induction theorems
are out of the provers' reach, and are replaced by their contrapositive: the set of places at which the claim
fails has a least element, and that one leads to a contradiction (`Least`, from the well-foundedness of the naturals).

Only model-checked: liveness (`RetriesEnd`, `RebalancesEnd`, `EveryRecordDelivered`, `ReplicasServe`), fairness
being out of the prover's reach. Every other property of a passing run is proved. The violations are TLC's: a
counterexample needs no proof.

## Not modelled

- Statistics, Goertzel filter, unit factors, robust z-scores, the trees of the forest, Weibull
  prior, fusion: floating-point formulas. The policy is checked for every risk.
- The mean risk of an alert, reasons, rule texts, logs, counters, traces: only reported.
- Read-only HTTP handlers, list filters and paging, request decoding, middleware, environment
  parsing, CMMS payload mappers, deployment, simulator: no state of their own.
- The built-in templates: data. What is assumed of a template is what `Validate` checks.
- The memory store's cloning of documents: copies are what the models have anyway.
- Failing store calls between several processes: `WorkOrders` and `Ingest` have the failures of one process,
  `Replicas` the interleavings of several; their product is beyond TLC.

## Plan

Done, in order of importance: limiter, policy, alerts and orders, ingest with its windows and
detectors, the Kafka consumer, replicas with start and end of a process; and the proofs of every invariant,
action property and refinement of them. What is left:

1. The site limiter as it is shared by classes of different limits.
2. The two stores as implementations of one abstract store, of which `WorkOrders`, `Ingest` and
   `Replicas` each state what they use.

Theorems worth having next: an abstract specification of a batch (each metric accepted, skipped or rejected at once)
that `Ingest` implements; that `Replicas` with one process, which never stops, implements `WorkOrders` without its faults.

## Running

    tlc -workers 2 -config <run>.cfg <module>     # pairs in PROJECT.json, "runs"
    tlapm RateLimiterProof.tla                   # likewise the other *Proof modules

`IngestProof` takes some two minutes from nothing, the others less
