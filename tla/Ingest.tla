------------------------------- MODULE Ingest -------------------------------
(***************************************************************************)
(* Engine.Ingest: what becomes of a batch of metrics.  Ingest holds the    *)
(* engine's mutex from the first asset of the batch to the last, so no     *)
(* other handler runs in between; but the process may crash at any point,  *)
(* and a store call that fails ends the batch where it happens.  One action*)
(* is one turn of the loop.  Any batch may arrive any number of times, in  *)
(* any order: Kafka redelivers, HTTP clients retry.                        *)
(* What an evaluation finds is open: the asset moves between the phases of *)
(* Episode, and what follows an alert (its work order, its retries) is left*)
(* to WorkOrders.  A baseline is "own" (learned) or "class" (the template's *)
(* default); a sample is the time of its metric and its place in the burst.*)
(***************************************************************************)
EXTENDS Naturals, Sequences, FiniteSets, Functions, Window, Detectors

CONSTANTS
  Assets, Classes,
  Strangers,    \* asset classes without a template
  NoClass,      \* what a metric without an asset class carries
  Signals,      \* the signals that have a window
  Runtime,      \* the runtime counter's signal, which has none
  Specs,        \* of each signal: its window and MinSamples
  Source,       \* of each feature, the signal it is computed from
  Recipes,      \* the sets of features a template may define
  Defaults,     \* the features that templates have class baselines for
  Batches,      \* names of the batches that may arrive
  Content,      \* their metrics
  Horizon,      \* bound: event times are 1..Horizon
  MaxUpdates,   \* bound: template updates of a class
  MaxFaults     \* bound: failed store calls and crashes

Streams == Signals \cup {Runtime}
Metric == [asset : Assets, class : Classes \cup Strangers \cup {NoClass}, signal : Streams,
           ts : 1..Horizon, n : Nat \ {0}, check : {"pass", "invalid", "unusable"}]

Features == DOMAIN Source

\* What Template.Validate lets in: features of its signals, which the runtime
\* counter is not one of.
ValidTemplate(names) ==
  names # {} /\ \A f \in names : f \in Features /\ Source[f] \in Signals \ {Runtime}

ASSUME IngestAssumption ==
  /\ NoClass \notin Classes \cup Strangers /\ Classes \cap Strangers = {}
  /\ Runtime \notin Signals
  /\ Specs \in [Signals -> [window : Nat \ {0, 1}, min : Nat]]
  /\ \A names \in Recipes : ValidTemplate(names)
  /\ Defaults \subseteq Features
  /\ Content \in [Batches -> Seq(Metric)]
  /\ Horizon \in Nat /\ MaxUpdates \in Nat /\ MaxFaults \in Nat

VARIABLES
  mem,        \* the engine's memory of the assets it knows
  recipe,     \* features of the active template of each class
  stored,     \* store: the same
  snaps,      \* store: class and learned baselines of the assets with a snapshot
  alerts,     \* store: alerts, as <<asset, time, cleared>>
  job,        \* the batch in progress
  answers,    \* history: the last answer to each batch since the restart
  accepted,   \* history: times of the metrics accepted since the restart, in order
  taken,      \* history: samples taken in since then under the template in force
  rejected,   \* history: metrics rejected since the restart
  updates,    \* history: template updates of each class
  faults      \* history: failed store calls and crashes

templates == <<recipe, stored>>
samples == <<accepted, taken>>
history == <<answers, samples, rejected, updates>>
vars == <<mem, templates, snaps, alerts, job, history, faults>>

NoAlert == 0
NoResult == [accepted |-> 0, rejected |-> 0, duplicates |-> 0]
Idle == [batch |-> {}, todo |-> <<>>, pending |-> 0, res |-> NoResult]

-----------------------------------------------------------------------------
Zero == <<0, 0>>
NewExtractor == [s \in Signals |-> NewWindow(Specs[s].window, Zero)]

\* Mutant: the class's baselines win.
MergedClassFirst(learned, names) ==
  [f \in names \cap (Defaults \cup DOMAIN learned) |->
     IF f \in Defaults THEN "class" ELSE learned[f]]

\* mergeBaselines: the class's baselines, and over them those that were in use
\* (or saved) as the asset's own, which may hold defaults of an earlier merge.
Merged(learned, names) ==
  [f \in names \cap (Defaults \cup DOMAIN learned) |->
     IF f \in DOMAIN learned THEN learned[f] ELSE "class"]

SourceOf(learned, names) == IF names \cap DOMAIN learned # {} THEN "asset" ELSE "class"

\* What snapshots and template updates keep of an asset's baselines.
Kept(asset) == IF asset.src = "asset" THEN asset.base ELSE <<>>

\* An asset as applyTemplate leaves it: the windows, the warm-up and the
\* detectors start again.
Rebuilt(asset, learned, names) ==
  [asset EXCEPT !.base = Merged(learned, names), !.src = SourceOf(learned, names),
                !.seen = 0, !.lastEval = 0,
                !.win = NewExtractor, !.hst = NewHST, !.cusum = NewCUSUM]

NewAsset(class, learned, names) ==
  Rebuilt([class |-> class, base |-> <<>>, src |-> "class", seen |-> 0, lastEval |-> 0,
           win |-> NewExtractor, hst |-> NewHST, cusum |-> NewCUSUM,
           marks |-> [s \in Streams |-> 0],
           phase |-> "quiet", open |-> NoAlert], learned, names)

NoSamples == [x \in Assets |-> [s \in Streams |-> <<>>]]

With(f, x, value) == [y \in DOMAIN f \cup {x} |-> IF y = x THEN value ELSE f[y]]

Init ==
  /\ mem = <<>>
  /\ recipe \in [Classes -> Recipes]
  /\ stored = recipe
  /\ snaps = <<>>
  /\ alerts = {}
  /\ job = Idle
  /\ answers = [b \in Batches |-> "none"]
  /\ accepted = NoSamples /\ taken = NoSamples
  /\ rejected = {}
  /\ updates = [c \in Classes |-> 0] /\ faults = 0

Fault == faults < MaxFaults /\ faults' = faults + 1

-----------------------------------------------------------------------------
\* Those that pass Validate, by their position in the batch.
Valid(metrics) == {i \in DOMAIN metrics : metrics[i].check # "invalid"}

\* sort.SliceStable: positions in increasing order of their key, and those of
\* equal keys in the order they came in.
Place(positions, key, i) ==
  Cardinality({j \in positions : key[j] < key[i] \/ (key[j] = key[i] /\ j <= i)})

Arranged(positions, key) ==
  [k \in 1..Cardinality(positions) |-> CHOOSE i \in positions : Place(positions, key, i) = k]

\* Where the assets of the batch first appear, in that order.
Firsts(metrics) ==
  Arranged({i \in Valid(metrics) :
              \A j \in Valid(metrics) : j < i => metrics[j].asset # metrics[i].asset},
           [i \in DOMAIN metrics |-> i])

\* The metrics of one asset, in the order of the key.
MetricsOf(metrics, x, key) ==
  LET turns == Arranged({i \in Valid(metrics) : metrics[i].asset = x}, key)
  IN [k \in DOMAIN turns |-> metrics[turns[k]]]

\* Mutant: each asset's metrics as they arrived.
GroupedUnsorted(metrics) ==
  LET firsts == Firsts(metrics)
  IN [k \in DOMAIN firsts |-> LET x == metrics[firsts[k]].asset IN
       [asset |-> x, metrics |-> MetricsOf(metrics, x, [i \in DOMAIN metrics |-> i])]]

\* The batch by asset, in order of first appearance, each asset's metrics
\* sorted by time.
Grouped(metrics) ==
  LET firsts == Firsts(metrics)
  IN [k \in DOMAIN firsts |-> LET x == metrics[firsts[k]].asset IN
       [asset |-> x,
        metrics |-> MetricsOf(metrics, x, [i \in DOMAIN metrics |-> metrics[i].ts])]]

\* A request whose body is no list of metrics, or an empty one, goes no further.
Requested(b) == Content[b] # <<>>

Begin(b) ==
  /\ job = Idle /\ Requested(b)
  /\ job' = [batch |-> {b}, pending |-> 0, todo |-> Grouped(Content[b]),
             res |-> [NoResult EXCEPT
                       !.rejected = Len(Content[b]) - Cardinality(Valid(Content[b]))]]
  /\ rejected' = rejected \cup {m \in Range(Content[b]) : m.check = "invalid"}
  /\ UNCHANGED <<mem, templates, snaps, alerts, answers, samples, updates, faults>>

Working(x) == job.todo # <<>> /\ Head(job.todo).asset = x
Queue == Head(job.todo).metrics
NextAsset(rejects) ==
  job' = [job EXCEPT !.todo = Tail(job.todo), !.pending = 0,
                     !.res = [job.res EXCEPT !.rejected = @ + rejects]]

\* assetFor, for an asset the engine does not know: the earliest metric says
\* of what class it is, or all of them are rejected.
Register(x) ==
  /\ Working(x) /\ x \notin DOMAIN mem
  /\ Head(Queue).class \in Classes
  /\ mem' = With(mem, x, NewAsset(Head(Queue).class, <<>>, recipe[Head(Queue).class]))
  /\ UNCHANGED <<templates, snaps, alerts, job, history, faults>>

\* Mutants of Refuse: the metrics of an asset that cannot be registered are
\* skipped; they count as one.
RefuseSilently(x) ==
  /\ Working(x) /\ x \notin DOMAIN mem
  /\ Head(Queue).class \notin Classes
  /\ NextAsset(0)
  /\ UNCHANGED <<mem, templates, snaps, alerts, history, faults>>
RefuseOnce(x) ==
  /\ Working(x) /\ x \notin DOMAIN mem
  /\ Head(Queue).class \notin Classes
  /\ rejected' = rejected \cup Range(Queue)
  /\ NextAsset(1)
  /\ UNCHANGED <<mem, templates, snaps, alerts, answers, samples, updates, faults>>

Refuse(x) ==
  /\ Working(x) /\ x \notin DOMAIN mem
  /\ Head(Queue).class \notin Classes
  /\ rejected' = rejected \cup Range(Queue)
  /\ NextAsset(Len(Queue))
  /\ UNCHANGED <<mem, templates, snaps, alerts, answers, samples, updates, faults>>

-----------------------------------------------------------------------------
\* MinSamples, unless it is none or more than the window holds.
Needed(s) ==
  IF Specs[s].min <= 0 \/ Specs[s].min > Specs[s].window THEN Specs[s].window ELSE Specs[s].min

Ready(x) == \A s \in Signals : Held(mem[x].win[s]) >= Needed(s)

\* The metrics of a moment are in when a later one comes or none is left; and
\* evaluateIfReady lets the evaluation happen.
Due(x) ==
  /\ Working(x) /\ x \in DOMAIN mem
  /\ job.pending > 0
  /\ Queue # <<>> => Head(Queue).ts > job.pending
  /\ Ready(x) /\ job.pending > mem[x].lastEval

\* push.  Whatever becomes of the metric, its time is the one to evaluate at.
Pushing(x, res) ==
  /\ Working(x) /\ x \in DOMAIN mem /\ ~ Due(x) /\ Queue # <<>>
  /\ job' = [job EXCEPT !.todo = [job.todo EXCEPT ![1] = [asset |-> x, metrics |-> Tail(Queue)]],
                        !.pending = Head(Queue).ts, !.res = res]
  /\ UNCHANGED <<templates, snaps, alerts, answers, updates, faults>>

OtherClass(x, m) == m.class # NoClass /\ m.class # mem[x].class
Seen(x, m) == m.ts <= mem[x].marks[m.signal]

\* The samples a metric carries: one value, or a burst of them.
Burst(m) == [k \in 1..m.n |-> <<m.ts, k>>]

Taken(x, m) ==
  LET s == m.signal IN
  /\ accepted' = [accepted EXCEPT ![x] = [accepted[x] EXCEPT ![s] = Append(@, m.ts)]]
  /\ taken' = [taken EXCEPT ![x] = [taken[x] EXCEPT ![s] = @ \o Burst(m)]]

\* Extractor.Push for every value; the runtime counter has no window.
Extended(win, m) ==
  [s \in Signals |-> IF s = m.signal THEN PushAll(win[s], Burst(m)) ELSE win[s]]

Pushed(asset, m) == [asset EXCEPT !.win = Extended(asset.win, m),
                                  !.marks = [asset.marks EXCEPT ![m.signal] = m.ts]]

\* Mutant: the high-water mark is moved by samples of windows only.
AcceptUnmarked(x) ==
  LET m == Head(Queue) IN
  /\ Pushing(x, [job.res EXCEPT !.accepted = @ + 1])
  /\ ~ OtherClass(x, m) /\ ~ Seen(x, m) /\ m.check = "pass"
  /\ mem' = [mem EXCEPT ![x] = IF m.signal = Runtime THEN mem[x] ELSE Pushed(mem[x], m)]
  /\ Taken(x, m) /\ UNCHANGED rejected

Accept(x) ==
  LET m == Head(Queue) IN
  /\ Pushing(x, [job.res EXCEPT !.accepted = @ + 1])
  /\ ~ OtherClass(x, m) /\ ~ Seen(x, m) /\ m.check = "pass"
  /\ mem' = [mem EXCEPT ![x] = Pushed(mem[x], m)]
  /\ Taken(x, m) /\ UNCHANGED rejected

Duplicate(x) ==
  /\ Pushing(x, [job.res EXCEPT !.duplicates = @ + 1])
  /\ ~ OtherClass(x, Head(Queue)) /\ Seen(x, Head(Queue))
  /\ UNCHANGED <<mem, samples, rejected>>

\* Of another class, of no signal of the template, or in a unit that does not
\* convert.
Reject(x) ==
  LET m == Head(Queue) IN
  /\ Pushing(x, [job.res EXCEPT !.rejected = @ + 1])
  /\ OtherClass(x, m) \/ (~ Seen(x, m) /\ m.check = "unusable")
  /\ rejected' = rejected \cup {m}
  /\ UNCHANGED <<mem, samples>>

\* The asset is done, or the whole batch.
Leave(x) ==
  /\ Working(x) /\ x \in DOMAIN mem /\ ~ Due(x) /\ Queue = <<>>
  /\ NextAsset(0)
  /\ UNCHANGED <<mem, templates, snaps, alerts, history, faults>>

Answer(answer) ==
  /\ job' = Idle
  /\ answers' = [b \in Batches |-> IF b \in job.batch THEN answer ELSE answers[b]]

\* handleIngest refuses a batch that brought nothing but rejections.  (The
\* Kafka consumer commits it: to it every answer but an error is the same.)
Status(res) ==
  IF res.accepted = 0 /\ res.duplicates = 0 /\ res.rejected > 0 THEN "refused" ELSE "ok"

Finish ==
  /\ job # Idle /\ job.todo = <<>>
  /\ Answer(Status(job.res))
  /\ UNCHANGED <<mem, templates, snaps, alerts, samples, rejected, updates, faults>>

-----------------------------------------------------------------------------
\* evaluate.  The time is noted first.  While class baselines are in use the
\* learner counts; the evaluation that ends the warm-up fits them and saves a
\* snapshot.

Learns(x) == mem[x].src = "class" /\ LearnerDone(mem[x].seen)

\* Extractor.Extract: the features whose signal has samples.
Extract(asset) == {f \in recipe[asset.class] : Held(asset.win[Source[f]]) > 0}

\* fitBaselines.  The vectors of a warm-up only gain features, so those of the
\* last are those of all; the detectors have accumulated against the old ones.
Fitted(asset) ==
  LET learned == Fit(Extract(asset))
  IN [asset EXCEPT !.base = Merged(learned, recipe[asset.class]),
                   !.src = SourceOf(learned, recipe[asset.class]),
                   !.hst = SetBaselines(asset.hst), !.cusum = Reset(asset.cusum)]

Counted(asset) == IF asset.src = "class" THEN asset.seen + 1 ELSE asset.seen

Noted(x) ==
  LET asset == [mem[x] EXCEPT !.lastEval = job.pending, !.seen = Counted(mem[x])]
  IN IF Learns(x) THEN Fitted(asset) ELSE asset

\* The point goes to the forest and to the CUSUM, standardised with the
\* baselines in force.
Evaluated(x) ==
  LET asset == Noted(x)
  IN [asset EXCEPT !.hst = Observe(asset.hst, asset.base),
                   !.cusum = Update(asset.cusum, asset.base)]

Snapshot(asset) == [class |-> asset.class, base |-> Kept(asset)]

\* Mutant: the snapshot is taken before the baselines are fitted.
SavesLearnedEarly(x) ==
  snaps' = IF Learns(x) THEN With(snaps, x, Snapshot(mem[x])) ELSE snaps

SavesLearned(x) ==
  snaps' = IF Learns(x) THEN With(snaps, x, Snapshot(Noted(x))) ELSE snaps

\* The snapshot cannot be saved: nothing is scored, the policy is not asked.
LearnUnsaved(x) ==
  /\ Due(x) /\ Learns(x)
  /\ mem' = [mem EXCEPT ![x] = Noted(x)]
  /\ snaps' \in {snaps, With(snaps, x, Snapshot(Noted(x)))}
  /\ Fault /\ Answer("error")
  /\ UNCHANGED <<templates, alerts, samples, rejected, updates>>

\* The policy's decision, and what comes of it.
Decided(x, phase, open) ==
  /\ Due(x)
  /\ mem' = [mem EXCEPT ![x] = [Evaluated(x) EXCEPT !.phase = phase, !.open = open]]
  /\ SavesLearned(x)
  /\ UNCHANGED <<templates, samples, rejected, updates>>

GoesOn == UNCHANGED <<job, answers, faults>>
Fails == Fault /\ Answer("error")

\* Below the threshold or pending; held; suppressed or rate limited.
NoChange(x) ==
  /\ Decided(x, mem[x].phase, mem[x].open)
  /\ GoesOn /\ UNCHANGED alerts

Withhold(x) ==
  /\ Decided(x, "withheld", mem[x].open) /\ mem[x].phase = "quiet"
  /\ GoesOn /\ UNCHANGED alerts

Fire(x) ==
  /\ Decided(x, "alerted", job.pending) /\ mem[x].phase = "quiet"
  /\ alerts' = alerts \cup {<<x, job.pending, FALSE>>}
  /\ GoesOn

\* The alert cannot be saved: the policy has opened the episode all the same.
FireUnsaved(x) ==
  /\ Decided(x, "alerted", mem[x].open) /\ mem[x].phase = "quiet"
  /\ alerts' \in {alerts, alerts \cup {<<x, job.pending, FALSE>>}}
  /\ Fails

\* The alert cannot be read, in order to retry its work order; whether there
\* is one to be retried is WorkOrders's business.
HoldUnread(x) ==
  /\ Decided(x, mem[x].phase, mem[x].open) /\ mem[x].phase # "quiet"
  /\ mem[x].open # NoAlert
  /\ Fails /\ UNCHANGED alerts

Cleared(x) ==
  {IF a = <<x, mem[x].open, FALSE>> THEN <<x, mem[x].open, TRUE>> ELSE a : a \in alerts}

Clear(x) ==
  /\ Decided(x, "quiet", NoAlert) /\ mem[x].phase # "quiet"
  /\ alerts' = Cleared(x)
  /\ GoesOn

ClearUnsaved(x) ==
  /\ Decided(x, "quiet", mem[x].open) /\ mem[x].phase # "quiet"
  /\ mem[x].open # NoAlert
  /\ alerts' \in {alerts, Cleared(x)}
  /\ Fails

Evaluate(x) ==
  \/ LearnUnsaved(x) \/ NoChange(x) \/ Withhold(x)
  \/ Fire(x) \/ FireUnsaved(x) \/ HoldUnread(x) \/ Clear(x) \/ ClearUnsaved(x)

-----------------------------------------------------------------------------
\* The samples of the assets of a class belong to the template that was in force.
StartAgain(c) ==
  taken' = [x \in Assets |-> IF x \in DOMAIN mem /\ mem[x].class = c
                            THEN [s \in Streams |-> <<>>] ELSE taken[x]]

\* Mutant: the windows are kept.
PutTemplateKeepsWindows(c, names) ==
  /\ job = Idle /\ updates[c] < MaxUpdates
  /\ recipe' = [recipe EXCEPT ![c] = names]
  /\ stored' = [stored EXCEPT ![c] = names]
  /\ mem' = [x \in DOMAIN mem |->
              IF mem[x].class = c
              THEN [Rebuilt(mem[x], Kept(mem[x]), names) EXCEPT !.win = mem[x].win] ELSE mem[x]]
  /\ updates' = [updates EXCEPT ![c] = @ + 1]
  /\ StartAgain(c)
  /\ UNCHANGED <<snaps, alerts, job, answers, accepted, rejected, faults>>

\* PutTemplate: store first, then every asset of the class is rebuilt.
PutTemplate(c, names) ==
  /\ job = Idle /\ updates[c] < MaxUpdates
  /\ recipe' = [recipe EXCEPT ![c] = names]
  /\ stored' = [stored EXCEPT ![c] = names]
  /\ mem' = [x \in DOMAIN mem |->
              IF mem[x].class = c THEN Rebuilt(mem[x], Kept(mem[x]), names) ELSE mem[x]]
  /\ updates' = [updates EXCEPT ![c] = @ + 1]
  /\ StartAgain(c)
  /\ UNCHANGED <<snaps, alerts, job, answers, accepted, rejected, faults>>

PutTemplateUnsaved(c, names) ==
  /\ job = Idle /\ Fault
  /\ stored' \in {stored, [stored EXCEPT ![c] = names]}
  /\ UNCHANGED <<mem, recipe, snaps, alerts, job, history>>

\* A verdict on an alert of x saves a snapshot, whatever it says.
Feedback(x) ==
  /\ job = Idle /\ x \in DOMAIN mem /\ \E a \in alerts : a[1] = x
  /\ snaps' = With(snaps, x, Snapshot(mem[x]))
  /\ UNCHANGED <<mem, templates, alerts, job, history, faults>>

\* New restores the assets that have a snapshot; nothing else is kept.
Crash ==
  /\ Fault
  /\ recipe' = stored
  /\ mem' = [x \in DOMAIN snaps |->
              NewAsset(snaps[x].class, snaps[x].base, stored[snaps[x].class])]
  /\ job' = Idle
  /\ answers' = [b \in Batches |-> "none"]
  /\ accepted' = NoSamples /\ taken' = NoSamples
  /\ rejected' = {}
  /\ UNCHANGED <<stored, snaps, alerts, updates>>

Turn ==
  \/ \E x \in Assets :
       \/ Register(x) \/ Refuse(x) \/ Leave(x)
       \/ Accept(x) \/ Duplicate(x) \/ Reject(x)
       \/ Evaluate(x)
  \/ Finish

Next ==
  \/ \E b \in Batches : Begin(b)
  \/ Turn
  \/ \E c \in Classes, names \in Recipes :
       PutTemplate(c, names) \/ PutTemplateUnsaved(c, names)
  \/ \E x \in Assets : Feedback(x)
  \/ Crash

Spec == Init /\ [][Next]_vars

-----------------------------------------------------------------------------
TypeOK ==
  /\ DOMAIN mem \subseteq Assets
  /\ \A x \in DOMAIN mem :
       /\ mem[x].class \in Classes /\ mem[x].src \in {"class", "asset"}
       /\ DOMAIN mem[x].base \subseteq recipe[mem[x].class]
       /\ mem[x].seen \in 0..Warmup /\ mem[x].lastEval \in 0..Horizon
       /\ \A s \in Signals : IsWindow(mem[x].win[s], Specs[s].window)
       /\ mem[x].hst.seen \in 0..HstWindow - 1 /\ mem[x].hst.ready \in BOOLEAN
       /\ mem[x].marks \in [Streams -> 0..Horizon]
       /\ mem[x].phase \in {"quiet", "alerted", "withheld"} /\ mem[x].open \in 0..Horizon
  /\ recipe \in [Classes -> Recipes] /\ stored \in [Classes -> Recipes]
  /\ DOMAIN snaps \subseteq Assets
  /\ \A x \in DOMAIN snaps : snaps[x].class \in Classes /\ DOMAIN snaps[x].base \subseteq Features
  /\ alerts \subseteq Assets \X (1..Horizon) \X BOOLEAN
  /\ job.batch \subseteq Batches /\ job.pending \in 0..Horizon
  /\ job.res \in [accepted : Nat, rejected : Nat, duplicates : Nat]
  /\ job.todo \in Seq([asset : Assets, metrics : Seq(Metric)])
  /\ answers \in [Batches -> {"none", "ok", "refused", "error"}]
  /\ rejected \subseteq Metric
  /\ updates \in [Classes -> 0..MaxUpdates] /\ faults \in 0..MaxFaults

\* However batches overlap, are replayed or break off, the samples an asset's
\* signal takes in between two restarts are in order and none counts twice.
SamplesInOrder ==
  \A x \in Assets, s \in Streams :
    \A i, j \in DOMAIN accepted[x][s] :
      i < j => accepted[x][s][i] < accepted[x][s][j]

\* A batch that is answered without an error has been taken in whole: each of
\* its metrics is at or below the high-water mark, or was reported as rejected,
\* as every one was of a batch that is answered as a bad request.
AnsweredMeansTaken ==
  \A b \in Batches : \A m \in Range(Content[b]) :
    /\ answers[b] = "ok" => m \in rejected \/ (m.asset \in DOMAIN mem /\ Seen(m.asset, m))
    /\ answers[b] = "refused" => m \in rejected

\* The metrics of the batch that are still to be looked at.
Remaining(todo) == UNION {{i} \X DOMAIN todo[i].metrics : i \in DOMAIN todo}

\* The result accounts for every metric of the batch, whatever became of it and
\* of its asset: what is counted and what is still to do make up the batch.
EveryMetricCounted ==
  \A b \in job.batch :
    job.res.accepted + job.res.rejected + job.res.duplicates + Cardinality(Remaining(job.todo))
      = Len(Content[b])

\* An evaluation at a time has before it the batch's metrics up to that time,
\* whatever order they came in, and none of the later ones.
EvaluationsAreSnapshots ==
  [][\A x \in DOMAIN mem : x \in DOMAIN mem' /\ mem'[x].lastEval > mem[x].lastEval =>
       \A m \in UNION {Range(Content[b]) : b \in job.batch} :
         m.asset = x /\ m.check # "invalid" =>
           (m \in Range(Queue) <=> m.ts > mem'[x].lastEval)]_vars

\* No evaluation before every window holds enough samples that were taken in
\* under the template in force.
EvaluationsAreReady ==
  [][\A x \in DOMAIN mem : x \in DOMAIN mem' /\ mem'[x].lastEval > mem[x].lastEval =>
       \A s \in Signals : Len(taken[x][s]) >= Needed(s)]_vars

\* What the features are computed from is the latest samples, oldest first:
\* however often the ring has wrapped, in the middle of a burst too, and
\* whatever was rejected, skipped as a duplicate or dropped with an old
\* template in between.
WindowsHoldLatest ==
  \A x \in DOMAIN mem, s \in Signals :
    Values(mem[x].win[s]) = Latest(taken[x][s], Specs[s].window)

\* The forest's masses and the CUSUM's sums are of points standardised with the
\* baselines in force, and the forest votes only on a whole window of them: a
\* refit, a template update and a restart leave none of the old ones behind.
DetectorsMatchBaselines ==
  \A x \in DOMAIN mem : LET a == mem[x] IN
    /\ Range(a.hst.latest) \cup Range(a.hst.reference) \cup a.cusum \subseteq {a.base}
    /\ Len(a.hst.latest) = a.hst.seen
    /\ Len(a.hst.reference) = IF a.hst.ready THEN HstWindow ELSE 0

Own(base) == {f \in DOMAIN base : base[f] = "own"}

\* The evaluation that ends the warm-up leaves no feature of the template on
\* the class's baselines: none is missing from the vectors it has seen.
LearnsEveryFeature ==
  [][\A x \in DOMAIN mem \cap DOMAIN mem' :
       mem[x].src = "class" /\ mem'[x].src = "asset" /\ mem'[x].lastEval > mem[x].lastEval =>
          Own(mem'[x].base) = recipe[mem[x].class]]_vars

\* Learned baselines survive a restart (docs/adr/0002), as far as the template
\* has their features, when no store call has failed.
LearnedIsSaved ==
  faults = 0 => \A x \in DOMAIN mem :
    Own(mem[x].base) # {} => x \in DOMAIN snaps /\ Own(mem[x].base) \subseteq Own(snaps[x].base)

\* docs/adr/0003, "Only store errors fail a batch, and those are safe to
\* replay": when every batch that failed has been replayed, an asset in an
\* alerted episode has an open alert in the store.
ReplayLosesNoAlert ==
  (job = Idle /\ \A b \in Batches : answers[b] # "error") =>
    \A x \in DOMAIN mem :
      mem[x].phase = "alerted" => \E t \in 1..Horizon : <<x, t, FALSE>> \in alerts
=============================================================================
