---------------------------- MODULE ReplicasProof ----------------------------
(***************************************************************************)
(* Theorems about Replicas, for every number of processes, templates,      *)
(* alerts, retries, stops and crashes: the types; a migration is applied   *)
(* once; an asset has at most one open work order, and one that was        *)
(* refused stays owed; a handler takes back what another has written of an *)
(* alert only if the two overlapped; and what was put, learned and         *)
(* answered is lost only when a process writes what it has of something    *)
(* that another has replaced.                                              *)
(***************************************************************************)
EXTENDS Replicas, FiniteSetTheorems, TLAPS

Steps == {"down", "migrating", "applying", "loading", "seeding", "restoring", "serving",
          "finding", "saving", "linking", "clearing", "adapting", "cancelling", "voiding",
          "judging"}

\* The steps before a process has its template.
Early == {"down", "migrating", "applying", "loading", "seeding"}

Alert == [status : {"open", "confirmed", "dismissed"}, order : Nat, cleared : BOOLEAN]
Order == [alert : Nat, status : {"open", "cancelled"}, ref : Nat]
CmmsOrder == [alert : Nat, cancelled : BOOLEAN]
Proc ==
  {p \in [at : Steps, tpl : Templates \cup {NoTemplate}, known : BOOLEAN, base : Base,
          moves : SUBSET Nat, open : Nat, owed : BOOLEAN, tries : Nat, id : Nat, copy : Alert] :
     p.at \in Early \/ p.tpl \in Templates}

\* The template and the snapshots, which other parts of the invariant do not name.
Kept ==
  /\ tpl \in Templates \cup {NoTemplate}
  /\ snap \subseteq [base : Base, moves : SUBSET Nat]

\* As much of the types as the invariants need.
Types ==
  /\ Kept
  /\ bound \in Scenarios /\ schema \in Nat
  /\ alerts \in Seq(Alert) /\ orders \in Seq(Order)
  /\ proc \in [Replicas -> Proc]
  /\ cmms \in [Replicas -> Seq(CmmsOrder)]
  /\ \A r \in Replicas : proc[r].open <= Len(alerts) /\ proc[r].id <= Len(alerts)

\* The steps of a handler that raises a work order.
Raising == {"finding", "saving", "linking"}

\* A process serves from a migrated schema only.
Migrated == schema <= 1 /\ \A r \in Replicas :
  proc[r].at \notin {"down", "migrating", "applying"} => schema = 1

Unique == \A v, w \in OpenOrders : v = w

\* An episode is of one process, which alone raises and ends what is of it; and
\* between two handlers nothing is in hand.
Episodes ==
  /\ \A r, q \in Replicas : proc[r].open # None /\ proc[r].open = proc[q].open => r = q
  /\ \A r \in Replicas :
       /\ proc[r].at \in Raising \cup {"clearing"} =>
            proc[r].id = proc[r].open /\ proc[r].id # None
       /\ proc[r].at \in {"adapting", "cancelling", "voiding", "judging"} => proc[r].id # None
       /\ proc[r].at \notin Raising \cup {"clearing", "adapting", "cancelling", "voiding", "judging"} =>
            proc[r].id = None /\ proc[r].copy = NewAlert

\* While the work order of an alert is owed or being raised, neither the
\* database knows of one nor any copy in hand, but for the one about to be saved.
Unlinked == \A r \in Replicas :
  proc[r].open # None /\ (proc[r].owed \/ proc[r].at \in Raising) =>
    /\ alerts[proc[r].open].order = None
    /\ \A q \in Replicas :
         (q # r \/ proc[q].at # "linking") /\ proc[q].id = proc[r].open =>
            proc[q].copy.order = None

\* What new knows is at least what old knows.
Keeps(old, new) ==
  /\ old.status # "open" => new.status = old.status
  /\ old.order # None => new.order = old.order
  /\ old.cleared => new.cleared

\* A copy in hand is behind the database only after an overlap.
UpToDate == ~ overlap =>
  \A r \in Replicas : proc[r].id # None => Keeps(alerts[proc[r].id], proc[r].copy)

IInv == Types /\ Migrated /\ Unique /\ Episodes /\ Unlinked /\ UpToDate

-----------------------------------------------------------------------------
\* Judgement names a status for each verdict.
LEMMA JudgementType == \A v \in {"confirm", "dismiss"} : Judgement[v] \in {"confirmed", "dismissed"}
  BY DEF Judgement

LEMMA NewAlertType == NewAlert \in Alert /\ NewAlert.order = None /\ NewAlert.status = "open"
                      /\ NewAlert.cleared = FALSE
  BY DEF NewAlert, Alert, None

\* What is made of baselines is baselines.
LEMMA BaseType ==
  /\ Unlearned \in Base
  /\ \A t \in Templates : Fitted(Recipe[t]) \in Base
  /\ \A b \in Base, t \in Templates : Merged(b, Recipe[t]) \in Base
<1> DEFINE All == UNION {Recipe[t] : t \in Templates}
<1>1. \A t \in Templates : Recipe[t] \subseteq All
  OBVIOUS
<1>2. Base = [own : SUBSET All, lent : SUBSET All]
  BY DEF Base
<1> HIDE DEF All
<1>3. Unlearned \in Base /\ \A t \in Templates : Fitted(Recipe[t]) \in Base
  BY <1>1, <1>2 DEF Unlearned, Fitted
<1>4. ASSUME NEW b \in Base, NEW t \in Templates PROVE Merged(b, Recipe[t]) \in Base
  BY <1>1, <1>2, <1>3 DEF Merged
<1> QED
  BY <1>3, <1>4

\* An element of a sequence may be replaced by another of its kind.
LEMMA ReplaceType ==
  ASSUME NEW S, NEW s \in Seq(S), NEW i \in DOMAIN s, NEW x \in S
  PROVE  [s EXCEPT ![i] = x] \in Seq(S)
  OBVIOUS

\* What an action does to the process: the part of it that the invariants look at.
Effect(r, at, open, owed, id, copy) ==
  /\ proc' \in [Replicas -> Proc]
  /\ \A q \in Replicas \ {r} : proc'[q] = proc[q]
  /\ proc'[r].at = at /\ proc'[r].open = open /\ proc'[r].owed = owed
  /\ proc'[r].id = id /\ proc'[r].copy = copy

LEMMA BecomesEffect ==
  ASSUME proc \in [Replicas -> Proc], NEW r \in Replicas, NEW p \in Proc, Becomes(r, p)
  PROVE  Effect(r, p.at, p.open, p.owed, p.id, p.copy)
  BY DEF Becomes, Effect

\* The steps at which a process has no alert in hand.
Between == {"down", "migrating", "applying", "loading", "seeding", "restoring", "serving"}

\* The steps of a start and the short handlers.
Quiet(r) ==
  \/ Start(r) \/ CreateTableRaced(r) \/ CheckMigration(r) \/ LoadTemplates(r)
  \/ Seed(r) \/ Restore(r)
  \/ Register(r) \/ Learn(r) \/ \E t \in Templates : PutTemplate(r, t)

LEMMA QuietEffect ==
  ASSUME Types, NEW r \in Replicas, Quiet(r)
  PROVE  /\ proc[r].at \in Between
         /\ \E at \in Between :
              /\ Effect(r, at, proc[r].open, proc[r].owed, proc[r].id, proc[r].copy)
              /\ at \notin {"down", "migrating", "applying"} =>
                   schema > 0 \/ proc[r].at \notin {"down", "migrating", "applying"}
         /\ UNCHANGED <<bound, schema, alerts, orders, cmms, overlap>>
<1>1. proc[r] \in Proc /\ proc \in [Replicas -> Proc]
  BY DEF Types
<1> USE DEF At, Goes, Between
<1>2. CASE Start(r)
  <2>1. [proc[r] EXCEPT !.at = "migrating"] \in Proc
    BY <1>1 DEF Proc, Steps, Early
  <2>2. Effect(r, "migrating", proc[r].open, proc[r].owed, proc[r].id, proc[r].copy)
    BY <1>1, <1>2, <2>1, BecomesEffect DEF Start, Proc
  <2> QED
    BY <1>2, <2>2 DEF Start, database, history
<1>10. CASE CreateTableRaced(r)
  <2>1. [proc[r] EXCEPT !.at = "down"] \in Proc
    BY <1>1 DEF Proc, Steps, Early
  <2>2. Effect(r, "down", proc[r].open, proc[r].owed, proc[r].id, proc[r].copy)
    BY <1>1, <1>10, <2>1, BecomesEffect DEF CreateTableRaced, Proc
  <2> QED
    BY <1>10, <2>2 DEF CreateTableRaced, database, history
<1>3. CASE CheckMigration(r)
  <2> DEFINE at == IF schema > 0 THEN "loading" ELSE "applying"
  <2>1. [proc[r] EXCEPT !.at = at] \in Proc /\ at \in Between
    BY <1>1 DEF Proc, Steps, Early
  <2>2. Effect(r, at, proc[r].open, proc[r].owed, proc[r].id, proc[r].copy)
    BY <1>1, <1>3, <2>1, BecomesEffect DEF CheckMigration, Proc
  <2> QED
    BY <1>3, <2>1, <2>2 DEF CheckMigration, database, history
<1>4. CASE LoadTemplates(r)
  <2>1. CASE Goes(r, "seeding")
    <3>1. [proc[r] EXCEPT !.at = "seeding"] \in Proc
      BY <1>1 DEF Proc, Steps, Early
    <3>2. Effect(r, "seeding", proc[r].open, proc[r].owed, proc[r].id, proc[r].copy)
      BY <1>1, <2>1, <3>1, BecomesEffect DEF Proc
    <3> QED
      BY <1>4, <3>2 DEF LoadTemplates, database, history
  <2>2. CASE \E t \in ListTemplates :
               Becomes(r, [proc[r] EXCEPT !.at = "restoring", !.tpl = t])
    <3>1. PICK t \in ListTemplates : Becomes(r, [proc[r] EXCEPT !.at = "restoring", !.tpl = t])
      BY <2>2
    <3>2. [proc[r] EXCEPT !.at = "restoring", !.tpl = t] \in Proc
      BY <1>1 DEF Proc, Steps, Early, ListTemplates, Types, Kept
    <3>3. Effect(r, "restoring", proc[r].open, proc[r].owed, proc[r].id, proc[r].copy)
      BY <1>1, <3>1, <3>2, BecomesEffect DEF Proc
    <3> QED
      BY <1>4, <3>3 DEF LoadTemplates, database, history
  <2> QED
    BY <1>4, <2>1, <2>2 DEF LoadTemplates
<1>5. CASE Seed(r)
  <2>1. [proc[r] EXCEPT !.at = "restoring", !.tpl = Builtin] \in Proc
    BY <1>1, ReplicasAssumption DEF Proc, Steps, Early
  <2>2. Effect(r, "restoring", proc[r].open, proc[r].owed, proc[r].id, proc[r].copy)
    BY <1>1, <1>5, <2>1, BecomesEffect DEF Seed, Proc
  <2> QED
    BY <1>5, <2>2 DEF Seed, history
<1>6. CASE Restore(r)
  <2>3. proc[r].tpl \in Templates /\ proc[r].at \notin Early
    BY <1>1, <1>6 DEF Restore, Early, Proc
  <2>1. CASE Goes(r, "serving")
    <3>1. [proc[r] EXCEPT !.at = "serving"] \in Proc
      BY <1>1, <2>3 DEF Proc, Steps
    <3>2. Effect(r, "serving", proc[r].open, proc[r].owed, proc[r].id, proc[r].copy)
      BY <1>1, <2>1, <3>1, BecomesEffect DEF Proc
    <3> QED
      BY <1>6, <3>2 DEF Restore, database, history
  <2>2. CASE \E s \in ListAssetSnapshots :
               Becomes(r, [proc[r] EXCEPT !.at = "serving", !.known = TRUE,
                                          !.base = Merged(s.base, Recipe[proc[r].tpl]),
                                          !.moves = s.moves])
    <3>1. PICK s \in ListAssetSnapshots :
            Becomes(r, [proc[r] EXCEPT !.at = "serving", !.known = TRUE,
                                       !.base = Merged(s.base, Recipe[proc[r].tpl]),
                                       !.moves = s.moves])
      BY <2>2
    <3>2. s.base \in Base /\ s.moves \in SUBSET Nat
      BY DEF ListAssetSnapshots, Types, Kept
    <3>4. Merged(s.base, Recipe[proc[r].tpl]) \in Base
      BY <2>3, <3>2, BaseType
    <3>5. ASSUME NEW b \in Base, NEW m \in SUBSET Nat
          PROVE  [proc[r] EXCEPT !.at = "serving", !.known = TRUE, !.base = b, !.moves = m]
                   \in Proc
      BY <1>1, <2>3 DEF Proc, Steps
    <3>6. ASSUME NEW b \in Base, NEW m \in SUBSET Nat,
                 Becomes(r, [proc[r] EXCEPT !.at = "serving", !.known = TRUE, !.base = b,
                                            !.moves = m])
          PROVE  Effect(r, "serving", proc[r].open, proc[r].owed, proc[r].id, proc[r].copy)
      BY <1>1, <3>5, <3>6, BecomesEffect DEF Proc
    <3>3. Effect(r, "serving", proc[r].open, proc[r].owed, proc[r].id, proc[r].copy)
      BY <3>1, <3>2, <3>4, <3>6
    <3> QED
      BY <1>6, <3>3 DEF Restore, database, history
  <2> QED
    BY <1>6, <2>1, <2>2 DEF Restore
<1>7. CASE Register(r)
  <2>1. [proc[r] EXCEPT !.known = TRUE] \in Proc
    BY <1>1 DEF Proc
  <2>2. Effect(r, "serving", proc[r].open, proc[r].owed, proc[r].id, proc[r].copy)
    BY <1>1, <1>7, <2>1, BecomesEffect DEF Register, Proc
  <2> QED
    BY <1>7, <2>2 DEF Register, database, history
<1>8. CASE Learn(r)
  <2>1. proc[r].tpl \in Templates
    BY <1>1, <1>8 DEF Learn, Early, Proc
  <2>2. ASSUME NEW b \in Base PROVE [proc[r] EXCEPT !.base = b] \in Proc
    BY <1>1 DEF Proc
  <2>3. ASSUME NEW b \in Base, Becomes(r, [proc[r] EXCEPT !.base = b]), proc[r].at = "serving"
        PROVE  Effect(r, "serving", proc[r].open, proc[r].owed, proc[r].id, proc[r].copy)
    BY <1>1, <2>2, <2>3, BecomesEffect DEF Proc
  <2>4. Effect(r, "serving", proc[r].open, proc[r].owed, proc[r].id, proc[r].copy)
    BY <1>8, <2>1, <2>3, BaseType DEF Learn
  <2> QED
    BY <1>8, <2>4 DEF Learn
<1>9. CASE \E t \in Templates : PutTemplate(r, t)
  <2>1. PICK t \in Templates : PutTemplate(r, t)
    BY <1>9
  <2>2. Merged(proc[r].base, Recipe[t]) \in Base
    BY <1>1, BaseType DEF Proc
  <2>6. proc[r].at = "serving"
    BY <2>1 DEF PutTemplate
  <2>3. ASSUME NEW b \in Base PROVE [proc[r] EXCEPT !.tpl = t, !.base = b] \in Proc
    BY <1>1 DEF Proc
  <2>4. ASSUME NEW b \in Base, Becomes(r, [proc[r] EXCEPT !.tpl = t, !.base = b])
        PROVE  Effect(r, "serving", proc[r].open, proc[r].owed, proc[r].id, proc[r].copy)
    <3> DEFINE p == [proc[r] EXCEPT !.tpl = t, !.base = b]
    <3>1. p \in Proc /\ Becomes(r, p)
      BY <2>3, <2>4
    <3>2. p.at = "serving" /\ p.open = proc[r].open /\ p.owed = proc[r].owed
          /\ p.id = proc[r].id /\ p.copy = proc[r].copy
      BY <1>1, <2>6 DEF Proc
    <3> HIDE DEF p
    <3> QED
      BY <1>1, <3>1, <3>2, BecomesEffect
  <2>5. Effect(r, "serving", proc[r].open, proc[r].owed, proc[r].id, proc[r].copy)
    BY <2>1, <2>2, <2>4 DEF PutTemplate
  <2> QED
    BY <2>1, <2>5 DEF PutTemplate
<1> QED
  BY <1>2, <1>3, <1>4, <1>5, <1>6, <1>7, <1>8, <1>9, <1>10 DEF Quiet

\* Apply either takes effect or sends the process back.
LEMMA ApplyEffect ==
  ASSUME Types, NEW r \in Replicas, Apply(r)
  PROVE  /\ proc[r].at = "applying"
         /\ \/ /\ Effect(r, "loading", proc[r].open, proc[r].owed, proc[r].id, proc[r].copy)
               /\ schema' = 1
            \/ /\ Effect(r, "down", proc[r].open, proc[r].owed, proc[r].id, proc[r].copy)
               /\ UNCHANGED schema
         /\ UNCHANGED <<tpl, snap, bound, alerts, orders, cmms, overlap>>
<1>1. proc[r] \in Proc /\ proc \in [Replicas -> Proc]
  BY DEF Types
<1>2. \A at \in {"loading", "down"} : [proc[r] EXCEPT !.at = at] \in Proc
  BY <1>1 DEF Proc, Steps, Early
<1>3. ASSUME NEW at \in {"loading", "down"}, Goes(r, at)
      PROVE  Effect(r, at, proc[r].open, proc[r].owed, proc[r].id, proc[r].copy)
  BY <1>1, <1>2, <1>3, BecomesEffect DEF Goes, Proc
<1> QED
  BY <1>3 DEF Apply, At, history

LEMMA FireEffect ==
  ASSUME Types, NEW r \in Replicas, Fire(r)
  PROVE  /\ proc[r].at = "serving" /\ proc[r].open = None
         /\ Effect(r, "finding", Len(alerts) + 1, proc[r].owed, Len(alerts) + 1, proc[r].copy)
         /\ alerts' = Append(alerts, NewAlert)
         /\ UNCHANGED <<schema, tpl, snap, bound, orders, cmms, overlap>>
<1> DEFINE n == Len(alerts) + 1
<1>1. /\ proc[r] \in Proc
      /\ proc \in [Replicas -> Proc]
      /\ n \in Nat
      /\ proc[r].tpl \in Templates
  <2>1. proc[r].at = "serving"
    BY DEF Fire, At
  <2>2. proc[r] \in Proc /\ proc \in [Replicas -> Proc] /\ n \in Nat
    BY DEF Types
  <2>3. proc[r].tpl \in Templates
    BY <2>1, <2>2 DEF Proc, Early
  <2> QED
    BY <2>2, <2>3
<1>2. [proc[r] EXCEPT !.at = "finding", !.open = n, !.id = n] \in Proc
  BY <1>1 DEF Proc, Steps
<1>3. Becomes(r, [proc[r] EXCEPT !.at = "finding", !.open = n, !.id = n])
  BY DEF Fire
<1>4. Effect(r, "finding", n, proc[r].owed, n, proc[r].copy)
  BY <1>1, <1>2, <1>3, BecomesEffect DEF Proc
<1> QED
  BY <1>4 DEF Fire, At, history

LEMMA HoldEffect ==
  ASSUME Types, NEW r \in Replicas, Hold(r)
  PROVE  /\ proc[r].at = "serving" /\ proc[r].open # None /\ proc[r].owed
         /\ Effect(r, "finding", proc[r].open, proc[r].owed, proc[r].open, alerts[proc[r].open])
         /\ UNCHANGED <<schema, tpl, snap, bound, alerts, orders, cmms, overlap>>
<1> DEFINE p == [proc[r] EXCEPT !.at = "finding", !.tries = proc[r].tries + 1,
                                !.id = proc[r].open, !.copy = alerts[proc[r].open]]
<1>1. /\ proc[r] \in Proc
      /\ proc \in [Replicas -> Proc]
      /\ proc[r].open \in Nat
      /\ proc[r].tpl \in Templates
  BY DEF Types, Proc, Early, At, Hold
<1>2. proc[r].open \in DOMAIN alerts
  BY <1>1 DEF Hold, Types, None
<1>3. alerts[proc[r].open] \in Alert
  BY <1>2 DEF Types
<1>4. p \in Proc
  <2>1. proc[r].tries + 1 \in Nat
    BY <1>1 DEF Proc
  <2>2. \A n, i \in Nat, a \in Alert :
          [proc[r] EXCEPT !.at = "finding", !.tries = n, !.id = i, !.copy = a] \in Proc
    BY <1>1 DEF Proc, Steps
  <2> QED
    BY <1>1, <1>3, <2>1, <2>2
<1>5. Becomes(r, p)
  BY DEF Hold, GetAlert
<1>6. Effect(r, "finding", proc[r].open, proc[r].owed, proc[r].open, alerts[proc[r].open])
  BY <1>1, <1>4, <1>5, BecomesEffect DEF Proc
<1> QED
  BY <1>6 DEF Hold, At, history, database

\* An order is found, or there is none.
LEMMA FindOrderEffect ==
  ASSUME Types, NEW r \in Replicas, FindOrder(r)
  PROVE  /\ proc[r].at = "finding"
         /\ \/ Effect(r, "saving", proc[r].open, proc[r].owed, proc[r].id, proc[r].copy)
            \/ \E w \in Nat \ {None} :
                 Effect(r, "linking", proc[r].open, proc[r].owed, proc[r].id,
                        [proc[r].copy EXCEPT !.order = w])
            \/ /\ proc[r].copy.order # None
               /\ Effect(r, "serving", proc[r].open, FALSE, None, NewAlert)
         /\ UNCHANGED <<schema, tpl, snap, bound, alerts, orders, cmms, overlap>>
<1>1. /\ proc[r] \in Proc
      /\ proc \in [Replicas -> Proc]
      /\ proc[r].copy \in Alert
      /\ proc[r].tpl \in Templates
  BY DEF Types, Proc, Early, At, FindOrder
<1>2. CASE Goes(r, "saving")
  <2>1. [proc[r] EXCEPT !.at = "saving"] \in Proc
    BY <1>1 DEF Proc, Steps
  <2>2. Effect(r, "saving", proc[r].open, proc[r].owed, proc[r].id, proc[r].copy)
    BY <1>1, <1>2, <2>1, BecomesEffect DEF Goes, Proc
  <2> QED
    BY <2>2 DEF FindOrder, At, history, database
<1>3. ASSUME NEW w \in OpenOrders, proc[r].copy.order = None,
             Becomes(r, [proc[r] EXCEPT !.at = "linking", !.copy.order = w])
      PROVE  w \in Nat \ {None} /\ Effect(r, "linking", proc[r].open, proc[r].owed, proc[r].id,
                                 [proc[r].copy EXCEPT !.order = w])
  <2>1. w \in Nat \ {None}
    BY DEF OpenOrders, Types, None
  <2>2. [proc[r].copy EXCEPT !.order = w] \in Alert
    BY <1>1, <2>1 DEF Alert
  <2>3. [proc[r] EXCEPT !.at = "linking", !.copy.order = w]
          = [proc[r] EXCEPT !.at = "linking", !.copy = [proc[r].copy EXCEPT !.order = w]]
    BY <1>1 DEF Proc
  <2>4. ASSUME NEW a \in Alert, Becomes(r, [proc[r] EXCEPT !.at = "linking", !.copy = a])
        PROVE  Effect(r, "linking", proc[r].open, proc[r].owed, proc[r].id, a)
    <3>1. [proc[r] EXCEPT !.at = "linking", !.copy = a] \in Proc
      BY <1>1 DEF Proc, Steps
    <3> QED
      BY <1>1, <2>4, <3>1, BecomesEffect DEF Proc
  <2> QED
    BY <1>3, <2>1, <2>2, <2>3, <2>4
<1>4. ASSUME Becomes(r, [Done(proc[r]) EXCEPT !.owed = FALSE])
      PROVE  Effect(r, "serving", proc[r].open, FALSE, None, NewAlert)
  <2>1. [Done(proc[r]) EXCEPT !.owed = FALSE] \in Proc
    BY <1>1, NewAlertType DEF Done, Proc, Steps, None
  <2> QED
    BY <1>1, <1>4, <2>1, BecomesEffect DEF Done, Proc
<1> QED
  BY <1>2, <1>3, <1>4 DEF FindOrder, At, history, database

\* The CMMS of a process grows by at most an order, and the reference is a number.
LEMMA CreateInCmmsType ==
  ASSUME Types, NEW r \in Replicas, NEW id \in Nat, CreateInCmms(r, id)
  PROVE  cmms' \in [Replicas -> Seq(CmmsOrder)] /\ RefOf(r, id) \in Nat
<1> DEFINE o == [alert |-> id, cancelled |-> FALSE]
<1>1. cmms \in [Replicas -> Seq(CmmsOrder)] /\ cmms[r] \in Seq(CmmsOrder)
  BY DEF Types
<1>2. Append(cmms[r], o) \in Seq(CmmsOrder)
  BY <1>1 DEF CmmsOrder
<1>3. cmms' = cmms \/ cmms' = [cmms EXCEPT ![r] = Append(cmms[r], o)]
  BY DEF CreateInCmms
<1>4. cmms' \in [Replicas -> Seq(CmmsOrder)]
  BY <1>1, <1>2, <1>3
<1>5. WithKey(r, id) \subseteq Nat
  BY <1>1 DEF WithKey
<1>6. RefOf(r, id) \in Nat
  <2>1. CASE WithKey(r, id) # {}
    BY <1>5, <2>1 DEF RefOf
  <2>2. CASE WithKey(r, id) = {}
    BY <1>1, <2>2 DEF RefOf
  <2> QED
    BY <2>1, <2>2
<1> QED
  BY <1>4, <1>6

LEMMA CreateOrderEffect ==
  ASSUME Types, NEW r \in Replicas, CreateOrder(r)
  PROVE  /\ proc[r].at = "saving"
         /\ cmms' \in [Replicas -> Seq(CmmsOrder)]
         /\ \/ /\ OpenOrders = {}
               /\ \E o \in Order : orders' = Append(orders, o)
               /\ \E w \in Nat \ {None} :
                    Effect(r, "linking", proc[r].open, proc[r].owed, proc[r].id,
                           [proc[r].copy EXCEPT !.order = w])
            \/ /\ Effect(r, "serving", proc[r].open, TRUE, None, NewAlert)
               /\ UNCHANGED orders
         /\ UNCHANGED <<schema, tpl, snap, bound, alerts, overlap>>
<1> DEFINE o == [alert |-> proc[r].id, status |-> "open", ref |-> RefOf(r, proc[r].id)]
           w == Len(orders) + 1
<1>1. /\ proc[r] \in Proc /\ proc \in [Replicas -> Proc] /\ proc[r].copy \in Alert
      /\ proc[r].id \in Nat /\ proc[r].tries \in Nat /\ orders \in Seq(Order)
      /\ proc[r].tpl \in Templates
  BY DEF Types, Proc, Early, At, CreateOrder
<1>2. cmms' \in [Replicas -> Seq(CmmsOrder)] /\ RefOf(r, proc[r].id) \in Nat
  BY <1>1, CreateInCmmsType DEF CreateOrder
<1>3. o \in Order /\ o.status = "open"
  BY <1>1, <1>2 DEF Order
<1>4. CASE Inserts(o)
  <2>1. OpenOrders = {}
    BY <1>3, <1>4 DEF Inserts
  <2>2. orders' = Append(orders, o) /\ w \in Nat \ {None} /\ Len(orders') = w
    BY <1>1, <1>3, <1>4 DEF CreateOrder, None
  <2>3. Becomes(r, [proc[r] EXCEPT !.at = "linking", !.copy.order = w])
    BY <1>4, <2>2 DEF CreateOrder
  <2>4. [proc[r] EXCEPT !.at = "linking", !.copy.order = w]
          = [proc[r] EXCEPT !.at = "linking", !.copy = [proc[r].copy EXCEPT !.order = w]]
    BY <1>1 DEF Proc
  <2>5. [proc[r].copy EXCEPT !.order = w] \in Alert
    BY <1>1, <2>2 DEF Alert
  <2>6. ASSUME NEW a \in Alert,
               Becomes(r, [proc[r] EXCEPT !.at = "linking", !.copy = a])
        PROVE  Effect(r, "linking", proc[r].open, proc[r].owed, proc[r].id, a)
    <3>1. [proc[r] EXCEPT !.at = "linking", !.copy = a] \in Proc
      BY <1>1 DEF Proc, Steps
    <3> QED
      BY <1>1, <2>6, <3>1, BecomesEffect DEF Proc
  <2>7. Effect(r, "linking", proc[r].open, proc[r].owed, proc[r].id,
               [proc[r].copy EXCEPT !.order = w])
    BY <2>3, <2>4, <2>5, <2>6
  <2> QED
    BY <1>2, <1>3, <2>1, <2>2, <2>7 DEF CreateOrder, At, history
<1>5. CASE ~ Inserts(o)
  <2> DEFINE tries == IF proc[r].owed THEN proc[r].tries ELSE 0
             p == [Done(proc[r]) EXCEPT !.owed = TRUE, !.tries = tries]
  <2>1. Becomes(r, p) /\ UNCHANGED orders
    BY <1>1, <1>5 DEF CreateOrder, Done, Proc
  <2>2. tries \in Nat
    BY <1>1
  <2>3. \A n \in Nat : [Done(proc[r]) EXCEPT !.owed = TRUE, !.tries = n] \in Proc
    BY <1>1, NewAlertType DEF Done, Proc, Steps, None
  <2>4. p.at = "serving" /\ p.open = proc[r].open /\ p.owed = TRUE /\ p.id = None
        /\ p.copy = NewAlert
    BY <1>1 DEF Done, Proc
  <2>5. Effect(r, "serving", proc[r].open, TRUE, None, NewAlert)
    BY <1>1, <2>1, <2>2, <2>3, <2>4, BecomesEffect
  <2> QED
    BY <1>2, <2>1, <2>5 DEF CreateOrder, At, history
<1> QED
  BY <1>4, <1>5

\* What SaveAlert does: the alert in hand is stored over the one there.
Saved(r) ==
  /\ proc[r].id # None
  /\ alerts' = [alerts EXCEPT ![proc[r].id] = proc[r].copy]
  /\ overlap' = (overlap \/ \E q \in Replicas \ {r} : proc[q].id = proc[r].id)

LEMMA SaveEffect ==
  ASSUME Types, Episodes, NEW r \in Replicas, Link(r) \/ SaveCleared(r) \/ SaveVerdict(r)
  PROVE  /\ Saved(r)
         /\ \/ /\ proc[r].at = "linking" /\ proc[r].open = proc[r].id
               /\ Effect(r, "serving", proc[r].open, FALSE, None, NewAlert)
            \/ /\ proc[r].at = "clearing"
               /\ Effect(r, "serving", None, proc[r].owed, None, NewAlert)
            \/ /\ proc[r].at = "judging"
               /\ Effect(r, "serving", proc[r].open, proc[r].owed, None, NewAlert)
         /\ UNCHANGED <<schema, tpl, snap, bound, orders, cmms>>
<1>1. /\ proc[r] \in Proc
      /\ proc \in [Replicas -> Proc]
      /\ proc[r].tpl \in Templates
  BY DEF Types, Proc, Early, At, Link, SaveCleared, SaveVerdict
<1>2. CASE Link(r)
  <2>1. proc[r].at = "linking" /\ proc[r].id = proc[r].open /\ proc[r].id # None
    BY <1>2 DEF Link, At, Episodes, Raising
  <2>2. [Done(proc[r]) EXCEPT !.owed = FALSE] \in Proc
    BY <1>1, NewAlertType DEF Done, Proc, Steps, None
  <2>3. Effect(r, "serving", proc[r].open, FALSE, None, NewAlert)
    BY <1>1, <1>2, <2>2, BecomesEffect DEF Link, Done, Proc
  <2> QED
    BY <1>2, <2>1, <2>3 DEF Link, SaveAlert, Saved
<1>3. CASE SaveCleared(r)
  <2>1. proc[r].at = "clearing" /\ proc[r].id # None
    BY <1>3 DEF SaveCleared, At, Episodes
  <2>2. [Done(proc[r]) EXCEPT !.open = None] \in Proc
    BY <1>1, NewAlertType DEF Done, Proc, Steps, None
  <2>3. Effect(r, "serving", None, proc[r].owed, None, NewAlert)
    BY <1>1, <1>3, <2>2, BecomesEffect DEF SaveCleared, Done, Proc
  <2> QED
    BY <1>3, <2>1, <2>3 DEF SaveCleared, SaveAlert, Saved
<1>4. CASE SaveVerdict(r)
  <2>1. proc[r].at = "judging" /\ proc[r].id # None
    BY <1>4 DEF SaveVerdict, At, Episodes
  <2>2. Done(proc[r]) \in Proc
    BY <1>1, NewAlertType DEF Done, Proc, Steps, None
  <2>3. Effect(r, "serving", proc[r].open, proc[r].owed, None, NewAlert)
    BY <1>1, <1>4, <2>2, BecomesEffect DEF SaveVerdict, Done, Proc
  <2> QED
    BY <1>4, <2>1, <2>3 DEF SaveVerdict, SaveAlert, Saved
<1> QED
  BY <1>2, <1>3, <1>4

LEMMA ClearEffect ==
  ASSUME Types, NEW r \in Replicas, Clear(r)
  PROVE  /\ proc[r].at = "serving" /\ proc[r].open # None
         /\ \E copy \in Alert :
              /\ Keeps(alerts[proc[r].open], copy) /\ copy.order = alerts[proc[r].open].order
              /\ Effect(r, "clearing", proc[r].open, FALSE, proc[r].open, copy)
         /\ UNCHANGED <<schema, tpl, snap, bound, alerts, orders, cmms, overlap>>
<1> DEFINE c == [alerts[proc[r].open] EXCEPT !.cleared = TRUE]
<1>1. /\ proc[r] \in Proc
      /\ proc \in [Replicas -> Proc]
      /\ proc[r].open \in Nat
      /\ proc[r].tpl \in Templates
  BY DEF Types, Proc, Early, At, Clear
<1>2. proc[r].open \in DOMAIN alerts
  BY <1>1 DEF Clear, Types, None
<1>3. alerts[proc[r].open] \in Alert
  BY <1>2 DEF Types
<1>4. c \in Alert /\ Keeps(alerts[proc[r].open], c) /\ c.order = alerts[proc[r].open].order
  BY <1>3 DEF Alert, Keeps
<1>5. ASSUME NEW a \in Alert, NEW i \in Nat,
             Becomes(r, [proc[r] EXCEPT !.at = "clearing", !.owed = FALSE, !.id = i, !.copy = a])
      PROVE  Effect(r, "clearing", proc[r].open, FALSE, i, a)
  <2>1. [proc[r] EXCEPT !.at = "clearing", !.owed = FALSE, !.id = i, !.copy = a] \in Proc
    BY <1>1 DEF Proc, Steps
  <2> QED
    BY <1>1, <1>5, <2>1, BecomesEffect DEF Proc
<1>6. Becomes(r, [proc[r] EXCEPT !.at = "clearing", !.owed = FALSE,
                                 !.id = proc[r].open, !.copy = c])
  BY DEF Clear, GetAlert
<1>7. Effect(r, "clearing", proc[r].open, FALSE, proc[r].open, c)
  BY <1>1, <1>4, <1>5, <1>6
<1> QED
  BY <1>4, <1>7 DEF Clear, At, history, database

LEMMA FeedbackEffect ==
  ASSUME Types, NEW r \in Replicas, HandleFeedback(r)
  PROVE  /\ proc[r].at = "serving"
         /\ \E id \in DOMAIN alerts, at \in {"adapting", "judging"}, copy \in Alert :
              /\ Keeps(alerts[id], copy) /\ copy.order = alerts[id].order
              /\ Effect(r, at, proc[r].open, proc[r].owed, id, copy)
         /\ UNCHANGED <<schema, tpl, snap, bound, alerts, orders, cmms, overlap>>
<1>1. /\ proc[r] \in Proc
      /\ proc \in [Replicas -> Proc]
      /\ proc[r].tpl \in Templates
  BY DEF Types, Proc, Early, At, HandleFeedback, Feedback
<1>2. PICK id \in DOMAIN alerts, verdict \in bound.verdicts : Feedback(r, id, verdict)
  BY DEF HandleFeedback
<1> DEFINE at == IF proc[r].known THEN "adapting" ELSE "judging"
           moves == IF proc[r].known THEN proc[r].moves \cup {id} ELSE proc[r].moves
           c == [alerts[id] EXCEPT !.status = Judgement[verdict]]
<1>3. alerts[id] \in Alert /\ id \in Nat /\ alerts[id].status = "open"
  BY <1>2 DEF Types, Feedback, GetAlert
<1>4. Judgement[verdict] \in {"confirmed", "dismissed"}
  <2>1. bound.verdicts \subseteq {"confirm", "dismiss"}
    BY ReplicasAssumption DEF Types, Scenario
  <2> QED
    BY <2>1, JudgementType
<1>5. c \in Alert /\ Keeps(alerts[id], c) /\ c.order = alerts[id].order
  BY <1>3, <1>4 DEF Alert, Keeps
<1>6. at \in {"adapting", "judging"} /\ moves \in SUBSET Nat
  BY <1>1, <1>3 DEF Proc
<1>7. ASSUME NEW a \in Alert, NEW s \in {"adapting", "judging"}, NEW m \in SUBSET Nat,
             Becomes(r, [proc[r] EXCEPT !.at = s, !.moves = m, !.id = id, !.copy = a])
      PROVE  Effect(r, s, proc[r].open, proc[r].owed, id, a)
  <2>1. [proc[r] EXCEPT !.at = s, !.moves = m, !.id = id, !.copy = a] \in Proc
    BY <1>1, <1>3 DEF Proc, Steps
  <2> QED
    BY <1>1, <1>7, <2>1, BecomesEffect DEF Proc
<1>8. Becomes(r, [proc[r] EXCEPT !.at = at, !.moves = moves, !.id = id, !.copy = c])
  BY <1>1, <1>2 DEF Feedback, GetAlert, Proc
<1>9. Effect(r, at, proc[r].open, proc[r].owed, id, c)
  BY <1>5, <1>6, <1>7, <1>8
<1> QED
  BY <1>2, <1>5, <1>6, <1>9 DEF Feedback, At, history, database

LEMMA AdaptEffect ==
  ASSUME Types, NEW r \in Replicas, Adapt(r)
  PROVE  /\ proc[r].at = "adapting"
         /\ \E at \in {"cancelling", "judging"} :
              Effect(r, at, proc[r].open, proc[r].owed, proc[r].id, proc[r].copy)
         /\ UNCHANGED <<schema, bound, alerts, orders, cmms, overlap>>
         /\ Kept'
<1>1. proc[r] \in Proc /\ proc \in [Replicas -> Proc] /\ proc[r].tpl \in Templates
  BY DEF Types, Proc, Early, At, Adapt
<1>2. ASSUME NEW s \in {"cancelling", "judging"}, Goes(r, s)
      PROVE  Effect(r, s, proc[r].open, proc[r].owed, proc[r].id, proc[r].copy)
  <2>1. [proc[r] EXCEPT !.at = s] \in Proc
    BY <1>1 DEF Proc, Steps
  <2> QED
    BY <1>1, <1>2, <2>1, BecomesEffect DEF Goes, Proc
<1>3. \E s \in {"cancelling", "judging"} : Goes(r, s)
  BY DEF Adapt
<1>4. Snapshot(proc[r]) \in [base : Base, moves : SUBSET Nat]
  BY <1>1 DEF Proc, Snapshot
<1>5. Kept'
  BY <1>4 DEF Adapt, SaveAssetSnapshot, Kept, Types
<1> QED
  BY <1>2, <1>3, <1>5 DEF Adapt, At

\* The order is cancelled in the CMMS, or cannot be.
LEMMA CancelOrderEffect ==
  ASSUME Types, NEW r \in Replicas, CancelOrder(r)
  PROVE  /\ proc[r].at = "cancelling"
         /\ \E at \in {"voiding", "judging"} :
              Effect(r, at, proc[r].open, proc[r].owed, proc[r].id, proc[r].copy)
         /\ cmms' \in [Replicas -> Seq(CmmsOrder)]
         /\ UNCHANGED <<schema, tpl, snap, bound, alerts, orders, overlap>>
<1> DEFINE n == orders[proc[r].copy.order].ref
<1>1. proc[r] \in Proc /\ proc \in [Replicas -> Proc] /\ proc[r].tpl \in Templates
  BY DEF Types, Proc, Early, At, CancelOrder
<1>2. ASSUME NEW s \in {"voiding", "judging"}, Goes(r, s)
      PROVE  Effect(r, s, proc[r].open, proc[r].owed, proc[r].id, proc[r].copy)
  <2>1. [proc[r] EXCEPT !.at = s] \in Proc
    BY <1>1 DEF Proc, Steps
  <2> QED
    BY <1>1, <1>2, <2>1, BecomesEffect DEF Goes, Proc
<1>3. \E s \in {"voiding", "judging"} : Goes(r, s)
  BY DEF CancelOrder
<1>4. CASE UNCHANGED cmms
  BY <1>2, <1>3, <1>4 DEF CancelOrder, At, history, database, Types
<1>5. CASE n \in DOMAIN cmms[r] /\ cmms' = [cmms EXCEPT ![r][n].cancelled = TRUE]
  <2>1. cmms[r] \in Seq(CmmsOrder) /\ cmms[r][n] \in CmmsOrder
    BY <1>5 DEF Types
  <2>2. [cmms[r][n] EXCEPT !.cancelled = TRUE] \in CmmsOrder
    BY <2>1 DEF CmmsOrder
  <2>3. [cmms[r] EXCEPT ![n] = [cmms[r][n] EXCEPT !.cancelled = TRUE]] \in Seq(CmmsOrder)
    BY <1>5, <2>1, <2>2, ReplaceType
  <2>4. cmms' \in [Replicas -> Seq(CmmsOrder)]
    BY <1>5, <2>3 DEF Types
  <2> QED
    BY <1>2, <1>3, <2>4 DEF CancelOrder, At, history, database
<1> QED
  BY <1>4, <1>5 DEF CancelOrder, CancelsInCmms, GetWorkOrder

LEMMA VoidOrderEffect ==
  ASSUME Types, NEW r \in Replicas, VoidOrder(r)
  PROVE  /\ proc[r].at = "voiding"
         /\ Effect(r, "judging", proc[r].open, proc[r].owed, proc[r].id, proc[r].copy)
         /\ orders' \in Seq(Order) /\ OpenOrders' \subseteq OpenOrders
         /\ UNCHANGED <<schema, tpl, snap, bound, alerts, cmms, overlap>>
<1> DEFINE w == proc[r].copy.order
<1>1. proc[r] \in Proc /\ proc \in [Replicas -> Proc] /\ proc[r].tpl \in Templates
  BY DEF Types, Proc, Early, At, VoidOrder
<1>2. [proc[r] EXCEPT !.at = "judging"] \in Proc
  BY <1>1 DEF Proc, Steps
<1>3. Effect(r, "judging", proc[r].open, proc[r].owed, proc[r].id, proc[r].copy)
  BY <1>1, <1>2, BecomesEffect DEF VoidOrder, Goes, Proc
<1>4. orders' = [orders EXCEPT ![w].status = "cancelled"]
  BY DEF VoidOrder
<1>5. CASE w \in DOMAIN orders
  <2>1. orders \in Seq(Order) /\ orders[w] \in Order
    BY <1>5 DEF Types
  <2>2. [orders[w] EXCEPT !.status = "cancelled"] \in Order
    BY <2>1 DEF Order
  <2>3. orders' \in Seq(Order)
    BY <1>4, <1>5, <2>1, <2>2, ReplaceType
  <2>4. DOMAIN orders' = DOMAIN orders /\ orders'[w].status = "cancelled"
        /\ \A v \in DOMAIN orders \ {w} : orders'[v] = orders[v]
    BY <1>4, <1>5, <2>1, <2>2 DEF Order
  <2> QED
    BY <1>3, <2>3, <2>4 DEF VoidOrder, At, history, OpenOrders
<1>6. CASE w \notin DOMAIN orders
  <2>1. orders' = orders
    BY <1>4, <1>6 DEF Types
  <2> QED
    BY <1>3, <2>1 DEF VoidOrder, At, history, OpenOrders, Types
<1> QED
  BY <1>5, <1>6

LEMMA EndsEffect ==
  ASSUME Types, NEW r \in Replicas, Ends(r)
  PROVE  /\ Effect(r, "down", None, FALSE, None, NewAlert)
         /\ cmms' \in [Replicas -> Seq(CmmsOrder)]
         /\ UNCHANGED <<schema, tpl, snap, bound, alerts, orders, overlap>>
<1>1. Fresh("down") \in Proc
  BY NewAlertType, BaseType DEF Fresh, Proc, Steps, Early, None
<1>2. Effect(r, "down", None, FALSE, None, NewAlert)
  BY <1>1, BecomesEffect DEF Ends, Fresh, Types
<1>3. cmms' \in [Replicas -> Seq(CmmsOrder)]
  BY DEF Ends, Types
<1> QED
  BY <1>2, <1>3 DEF Ends, database

-----------------------------------------------------------------------------
\* What the steps keep.
LEMMA TypesKept ==
  ASSUME Types, Kept', bound' = bound, schema' \in Nat,
         alerts' \in Seq(Alert), Len(alerts') >= Len(alerts), orders' \in Seq(Order),
         cmms' \in [Replicas -> Seq(CmmsOrder)],
         NEW r \in Replicas, NEW at, NEW open \in Nat, NEW owed, NEW id \in Nat, NEW copy,
         Effect(r, at, open, owed, id, copy), open <= Len(alerts'), id <= Len(alerts')
  PROVE  Types'
<1>1. proc' \in [Replicas -> Proc] /\ Len(alerts) \in Nat /\ Len(alerts') \in Nat
  BY DEF Effect, Types
<1>2. ASSUME NEW q \in Replicas
      PROVE  proc'[q].open <= Len(alerts') /\ proc'[q].id <= Len(alerts')
  <2>1. CASE q = r
    BY <2>1 DEF Effect
  <2>2. CASE q # r
    <3>1. proc[q].open \in Nat /\ proc[q].id \in Nat
      BY DEF Types, Proc
    <3> QED
      BY <1>1, <2>2, <3>1 DEF Effect, Types
  <2> QED
    BY <2>1, <2>2
<1> QED
  BY <1>1, <1>2 DEF Types

LEMMA MigratedKept ==
  ASSUME Migrated, NEW r \in Replicas, NEW at, NEW open, NEW owed, NEW id, NEW copy,
         Effect(r, at, open, owed, id, copy), schema' = schema,
         at \in {"down", "migrating", "applying"} \/ schema = 1
  PROVE  Migrated'
  BY DEF Migrated, Effect

LEMMA QuietKept ==
  ASSUME Types, NEW r \in Replicas, Quiet(r)
  PROVE  Kept'
<1>1. CASE \/ Start(r) \/ CreateTableRaced(r) \/ CheckMigration(r) \/ LoadTemplates(r)
           \/ Restore(r) \/ Register(r)
  BY <1>1 DEF Types, Kept, Start, CreateTableRaced, CheckMigration, LoadTemplates, Restore,
              Register, database
<1>2. CASE Seed(r) \/ \E t \in Templates : PutTemplate(r, t)
  BY <1>2, ReplicasAssumption DEF Types, Kept, Seed, PutTemplate, UpsertTemplate
<1>3. CASE Learn(r)
  <2>1. proc[r] \in Proc /\ proc[r].tpl \in Templates
    BY <1>3 DEF Learn, At, Types, Proc, Early
  <2>2. [base |-> Fitted(Recipe[proc[r].tpl]), moves |-> proc[r].moves]
          \in [base : Base, moves : SUBSET Nat]
    BY <2>1, BaseType DEF Proc
  <2>3. snap' = {[base |-> Fitted(Recipe[proc[r].tpl]), moves |-> proc[r].moves]} /\ tpl' = tpl
    BY <1>3 DEF Learn, SaveAssetSnapshot
  <2> QED
    BY <2>2, <2>3 DEF Kept, Types
<1> QED
  BY <1>1, <1>2, <1>3 DEF Quiet

\* The fields of a process, as the steps below need them.
LEMMA ProcType ==
  ASSUME Types, NEW r \in Replicas
  PROVE  /\ proc[r].open \in Nat /\ proc[r].id \in Nat /\ proc[r].copy \in Alert
         /\ proc[r].open <= Len(alerts) /\ proc[r].id <= Len(alerts)
         /\ Len(alerts) \in Nat /\ alerts \in Seq(Alert)
         /\ proc[r].open # None => alerts[proc[r].open] \in Alert
  BY DEF Types, Proc, None

\* A step that leaves the alerts alone and takes nothing in hand.
LEMMA StillKept ==
  ASSUME Types, Episodes, Unlinked, UpToDate, NEW r \in Replicas, NEW at,
         \/ proc[r].at \in Between /\ at \in Between
         \/ proc[r].at = "finding" /\ at = "saving"
         \/ proc[r].at = "adapting" /\ at \in {"cancelling", "judging"}
         \/ proc[r].at = "cancelling" /\ at \in {"voiding", "judging"}
         \/ proc[r].at = "voiding" /\ at = "judging",
         Effect(r, at, proc[r].open, proc[r].owed, proc[r].id, proc[r].copy),
         UNCHANGED <<alerts, overlap>>
  PROVE  Episodes' /\ Unlinked' /\ UpToDate'
<1>1. /\ \A q \in Replicas : proc'[q].open = proc[q].open /\ proc'[q].owed = proc[q].owed
                             /\ proc'[q].id = proc[q].id /\ proc'[q].copy = proc[q].copy
      /\ \A q \in Replicas \ {r} : proc'[q].at = proc[q].at
      /\ proc'[r].at = at
  BY DEF Effect
<1>2. Episodes'
  BY <1>1 DEF Episodes, Between, Raising
<1>3. Unlinked'
  BY <1>1 DEF Unlinked, Between, Raising
<1>4. UpToDate'
  BY <1>1 DEF UpToDate, Keeps
<1> QED
  BY <1>2, <1>3, <1>4

LEMMA QuietStep ==
  ASSUME IInv, NEW r \in Replicas, Quiet(r)
  PROVE  IInv'
<1>1. PICK at \in Between :
        /\ Effect(r, at, proc[r].open, proc[r].owed, proc[r].id, proc[r].copy)
        /\ at \notin {"down", "migrating", "applying"} =>
             schema > 0 \/ proc[r].at \notin {"down", "migrating", "applying"}
  BY QuietEffect DEF IInv
<1>2. proc[r].at \in Between /\ UNCHANGED <<bound, schema, alerts, orders, cmms, overlap>>
  BY QuietEffect DEF IInv
<1>3. Types'
  <2>1. bound' = bound /\ schema' \in Nat /\ alerts' \in Seq(Alert)
        /\ Len(alerts') >= Len(alerts) /\ orders' \in Seq(Order)
        /\ cmms' \in [Replicas -> Seq(CmmsOrder)]
    BY <1>2 DEF IInv, Types
  <2> QED
    BY <1>1, <1>2, <2>1, QuietKept, ProcType, TypesKept DEF IInv
<1>4. Migrated'
  <2>1. at \in {"down", "migrating", "applying"} \/ schema = 1
    BY <1>1 DEF IInv, Migrated, Types
  <2> QED
    BY <1>1, <1>2, <2>1, MigratedKept DEF IInv
<1>5. Unique'
  BY <1>2 DEF IInv, Unique, OpenOrders
<1>6. Episodes' /\ Unlinked' /\ UpToDate'
  BY <1>1, <1>2, StillKept DEF IInv
<1> QED
  BY <1>3, <1>4, <1>5, <1>6 DEF IInv

LEMMA ApplyStep ==
  ASSUME IInv, NEW r \in Replicas, Apply(r)
  PROVE  IInv'
<1>1. /\ proc[r].at = "applying"
      /\ UNCHANGED <<tpl, snap, bound, alerts, orders, cmms, overlap>>
  BY ApplyEffect DEF IInv
<1>2. PICK at \in {"loading", "down"} :
        /\ Effect(r, at, proc[r].open, proc[r].owed, proc[r].id, proc[r].copy)
        /\ \/ at = "loading" /\ schema' = 1
           \/ at = "down" /\ schema' = schema
  <2>1. CASE /\ Effect(r, "loading", proc[r].open, proc[r].owed, proc[r].id, proc[r].copy)
             /\ schema' = 1
    <3> WITNESS "loading" \in {"loading", "down"}
    <3> QED
      BY <2>1
  <2>2. CASE /\ Effect(r, "down", proc[r].open, proc[r].owed, proc[r].id, proc[r].copy)
             /\ schema' = schema
    <3> WITNESS "down" \in {"loading", "down"}
    <3> QED
      BY <2>2
  <2> QED
    BY <2>1, <2>2, ApplyEffect DEF IInv
<1>3. Types'
  <2>1. Kept' /\ bound' = bound /\ schema' \in Nat /\ alerts' \in Seq(Alert)
        /\ Len(alerts') >= Len(alerts) /\ orders' \in Seq(Order)
        /\ cmms' \in [Replicas -> Seq(CmmsOrder)]
    BY <1>1, <1>2 DEF IInv, Types, Kept
  <2> QED
    BY <1>1, <1>2, <2>1, ProcType, TypesKept DEF IInv
<1>4. Migrated'
  <2>1. CASE schema' = schema /\ at = "down"
    BY <1>2, <2>1, MigratedKept DEF IInv
  <2>2. CASE schema' = 1
    BY <2>2 DEF Migrated
  <2> QED
    BY <1>2, <2>1, <2>2
<1>5. Unique'
  BY <1>1 DEF IInv, Unique, OpenOrders
<1>6. Episodes' /\ Unlinked' /\ UpToDate'
  BY <1>1, <1>2, StillKept DEF IInv, Between
<1> QED
  BY <1>3, <1>4, <1>5, <1>6 DEF IInv

\* The schema is the one of a process that serves, and of its handlers.
LEMMA HandlerMigrated ==
  ASSUME Migrated, NEW r \in Replicas, NEW at, NEW open, NEW owed, NEW id, NEW copy,
         Effect(r, at, open, owed, id, copy), schema' = schema,
         proc[r].at \notin {"down", "migrating", "applying"}
  PROVE  Migrated'
  BY MigratedKept DEF Migrated

LEMMA FireStep ==
  ASSUME IInv, NEW r \in Replicas, Fire(r)
  PROVE  IInv'
<1> DEFINE n == Len(alerts) + 1
<1>1. /\ proc[r].at = "serving" /\ proc[r].open = None
      /\ Effect(r, "finding", n, proc[r].owed, n, proc[r].copy)
      /\ alerts' = Append(alerts, NewAlert)
      /\ UNCHANGED <<schema, tpl, snap, bound, orders, cmms, overlap>>
  BY FireEffect DEF IInv
<1>2. n \in Nat /\ n # None /\ alerts' \in Seq(Alert) /\ Len(alerts') = n
      /\ alerts'[n] = NewAlert /\ \A i \in 1..Len(alerts) : alerts'[i] = alerts[i]
  BY <1>1, NewAlertType DEF IInv, Types, None
<1>3. \A q \in Replicas : proc[q].open \in 0..Len(alerts) /\ proc[q].id \in 0..Len(alerts)
                        /\ proc[q].open # n /\ proc[q].id # n
  BY ProcType DEF IInv
<1>4. proc[r].copy = NewAlert /\ proc[r].id = None
  BY <1>1 DEF IInv, Episodes, Raising
<1> HIDE DEF n
<1>5. Types'
  <2>1. Kept' /\ bound' = bound /\ schema' \in Nat
        /\ Len(alerts') >= Len(alerts) /\ orders' \in Seq(Order)
        /\ cmms' \in [Replicas -> Seq(CmmsOrder)]
    BY <1>1, <1>2 DEF IInv, Types, Kept, n
  <2> QED
    BY <1>1, <1>2, <2>1, TypesKept DEF IInv
<1>6. Migrated'
  BY <1>1, HandlerMigrated DEF IInv
<1>7. Unique'
  BY <1>1 DEF IInv, Unique, OpenOrders
<1>8. Episodes'
  <2>1. /\ proc'[r].at = "finding" /\ proc'[r].open = n /\ proc'[r].id = n
        /\ \A q \in Replicas \ {r} : proc'[q] = proc[q]
    BY <1>1 DEF Effect
  <2>2. \A p, q \in Replicas : proc'[p].open # None /\ proc'[p].open = proc'[q].open => p = q
    BY <1>3, <2>1 DEF IInv, Episodes
  <2>3. "finding" \in Raising
    BY DEF Raising
  <2> QED
    BY <1>2, <2>1, <2>2, <2>3 DEF IInv, Episodes
<1>9. Unlinked'
  <2>1. ASSUME NEW q \in Replicas, proc'[q].open # None, proc'[q].owed \/ proc'[q].at \in Raising
        PROVE  /\ alerts'[proc'[q].open].order = None
               /\ \A p \in Replicas :
                    (p # q \/ proc'[p].at # "linking") /\ proc'[p].id = proc'[q].open =>
                       proc'[p].copy.order = None
    <3>1. CASE q = r
      <4>1. proc'[r].open = n /\ proc'[r].copy.order = None
        BY <1>1, <1>4, NewAlertType DEF Effect
      <4>2. \A p \in Replicas : p # r => proc'[p].id # n
        BY <1>1, <1>3 DEF Effect
      <4> QED
        BY <1>2, <3>1, <4>1, <4>2, NewAlertType
    <3>2. CASE q # r
      <4>1. proc'[q] = proc[q] /\ proc[q].open # None /\ proc[q].open \in 1..Len(alerts)
        BY <1>1, <1>3, <2>1, <3>2 DEF Effect, None
      <4>2. alerts[proc[q].open].order = None
        BY <2>1, <4>1 DEF IInv, Unlinked
      <4>3. ASSUME NEW p \in Replicas, proc'[p].id = proc[q].open
            PROVE  p # r /\ proc'[p] = proc[p]
        BY <1>1, <1>3, <4>3 DEF Effect
      <4>4. ASSUME NEW p \in Replicas, p # q \/ proc'[p].at # "linking",
                   proc'[p].id = proc[q].open
            PROVE  proc'[p].copy.order = None
        BY <2>1, <4>1, <4>3, <4>4 DEF IInv, Unlinked
      <4> QED
        BY <1>2, <4>1, <4>2, <4>4
    <3> QED
      BY <3>1, <3>2
  <2> QED
    BY <2>1 DEF Unlinked
<1>10. UpToDate'
  <2>1. ASSUME ~ overlap, NEW q \in Replicas, proc'[q].id # None
        PROVE  Keeps(alerts'[proc'[q].id], proc'[q].copy)
    <3>1. CASE q = r
      BY <1>1, <1>2, <1>4, <3>1 DEF Effect, Keeps
    <3>2. CASE q # r
      <4>1. proc'[q] = proc[q] /\ proc[q].id \in 1..Len(alerts)
        BY <1>1, <1>3, <2>1, <3>2 DEF Effect, None
      <4> QED
        BY <1>2, <2>1, <4>1 DEF IInv, UpToDate
    <3> QED
      BY <3>1, <3>2
  <2> QED
    BY <1>1, <2>1 DEF UpToDate
<1> QED
  BY <1>5, <1>6, <1>7, <1>8, <1>9, <1>10 DEF IInv

\* A handler takes in hand a copy that is up to date, of an alert that has no
\* other owner and, where one is owed, no work order.
LEMMA TakenKept ==
  ASSUME Types, Episodes, Unlinked, UpToDate, NEW r \in Replicas,
         NEW at, NEW owed, NEW id, NEW copy \in Alert,
         proc[r].at = "serving", id \in DOMAIN alerts, Keeps(alerts[id], copy),
         copy.order = alerts[id].order,
         Effect(r, at, proc[r].open, owed, id, copy),
         \/ at = "finding" /\ id = proc[r].open /\ owed /\ proc[r].owed
         \/ at = "clearing" /\ id = proc[r].open /\ ~ owed
         \/ at \in {"adapting", "judging"} /\ owed = proc[r].owed,
         UNCHANGED <<alerts, overlap>>
  PROVE  Episodes' /\ Unlinked' /\ UpToDate'
<1>1. /\ \A q \in Replicas : proc'[q].open = proc[q].open
      /\ \A q \in Replicas \ {r} : proc'[q] = proc[q]
      /\ proc'[r].at = at /\ proc'[r].owed = owed /\ proc'[r].id = id /\ proc'[r].copy = copy
  BY DEF Effect
<1>2. id # None
  BY DEF Types, None
<1>3. Episodes'
  BY <1>1, <1>2 DEF Episodes, Raising
<1>4. Unlinked'
  <2>1. ASSUME NEW q \in Replicas, proc'[q].open # None, proc'[q].owed \/ proc'[q].at \in Raising
        PROVE  /\ alerts'[proc'[q].open].order = None
               /\ \A p \in Replicas :
                    (p # q \/ proc'[p].at # "linking") /\ proc'[p].id = proc'[q].open =>
                       proc'[p].copy.order = None
    <3>1. proc[q].open # None /\ (proc[q].owed \/ proc[q].at \in Raising)
          /\ proc'[q].open = proc[q].open
      BY <1>1, <2>1 DEF Raising
    <3>2. alerts[proc[q].open].order = None
      BY <3>1 DEF Unlinked
    <3>3. ASSUME NEW p \in Replicas, p # q \/ proc'[p].at # "linking", proc'[p].id = proc[q].open
          PROVE  proc'[p].copy.order = None
      <4>1. CASE p = r
        BY <1>1, <3>2, <3>3, <4>1
      <4>2. CASE p # r
        BY <1>1, <3>1, <3>3, <4>2 DEF Unlinked
      <4> QED
        BY <4>1, <4>2
    <3> QED
      BY <3>1, <3>2, <3>3
  <2> QED
    BY <2>1 DEF Unlinked
<1>5. UpToDate'
  BY <1>1 DEF UpToDate
<1> QED
  BY <1>3, <1>4, <1>5

LEMMA TakenStep ==
  ASSUME IInv, NEW r \in Replicas,
         NEW at, NEW owed, NEW id, NEW copy \in Alert,
         proc[r].at = "serving", id \in DOMAIN alerts, Keeps(alerts[id], copy),
         copy.order = alerts[id].order,
         Effect(r, at, proc[r].open, owed, id, copy),
         \/ at = "finding" /\ id = proc[r].open /\ owed /\ proc[r].owed
         \/ at = "clearing" /\ id = proc[r].open /\ ~ owed
         \/ at \in {"adapting", "judging"} /\ owed = proc[r].owed,
         UNCHANGED <<schema, tpl, snap, bound, alerts, orders, cmms, overlap>>
  PROVE  IInv'
<1>1. Types'
  <2>1. Kept' /\ bound' = bound /\ schema' \in Nat /\ alerts' \in Seq(Alert)
        /\ Len(alerts') >= Len(alerts) /\ orders' \in Seq(Order)
        /\ cmms' \in [Replicas -> Seq(CmmsOrder)]
    BY DEF IInv, Types, Kept
  <2>2. id \in Nat /\ id <= Len(alerts')
    BY DEF IInv, Types
  <2> QED
    BY <2>1, <2>2, ProcType, TypesKept DEF IInv
<1>2. Migrated'
  BY HandlerMigrated DEF IInv
<1>3. Unique'
  BY DEF IInv, Unique, OpenOrders
<1>4. Episodes' /\ Unlinked' /\ UpToDate'
  BY TakenKept DEF IInv
<1> QED
  BY <1>1, <1>2, <1>3, <1>4 DEF IInv

LEMMA TakingStep ==
  ASSUME IInv, NEW r \in Replicas, Hold(r) \/ Clear(r) \/ HandleFeedback(r)
  PROVE  IInv'
<1>1. proc[r].open # None => /\ proc[r].open \in DOMAIN alerts
                           /\ alerts[proc[r].open] \in Alert
  BY ProcType DEF IInv, None
<1>2. CASE Hold(r)
  <2>1. Keeps(alerts[proc[r].open], alerts[proc[r].open])
    BY DEF Keeps
  <2> QED
    BY <1>1, <1>2, <2>1, HoldEffect, TakenStep DEF IInv
<1>3. CASE Clear(r)
  <2>1. /\ proc[r].at = "serving" /\ proc[r].open # None
        /\ UNCHANGED <<schema, tpl, snap, bound, alerts, orders, cmms, overlap>>
    BY <1>3, ClearEffect DEF IInv
  <2>2. PICK copy \in Alert :
          /\ Keeps(alerts[proc[r].open], copy) /\ copy.order = alerts[proc[r].open].order
          /\ Effect(r, "clearing", proc[r].open, FALSE, proc[r].open, copy)
    BY <1>3, ClearEffect DEF IInv
  <2> QED
    BY <1>1, <2>1, <2>2, TakenStep
<1>4. CASE HandleFeedback(r)
  <2>1. /\ proc[r].at = "serving"
        /\ UNCHANGED <<schema, tpl, snap, bound, alerts, orders, cmms, overlap>>
    BY <1>4, FeedbackEffect DEF IInv
  <2>2. PICK id \in DOMAIN alerts, at \in {"adapting", "judging"}, copy \in Alert :
          /\ Keeps(alerts[id], copy) /\ copy.order = alerts[id].order
          /\ Effect(r, at, proc[r].open, proc[r].owed, id, copy)
    BY <1>4, FeedbackEffect DEF IInv
  <2> QED
    BY <2>1, <2>2, TakenStep
<1> QED
  BY <1>2, <1>3, <1>4

\* The copy that is about to be saved is given a work order.
LEMMA LinkingKept ==
  ASSUME Types, Episodes, Unlinked, UpToDate, NEW r \in Replicas, NEW w \in Nat,
         proc[r].at \in {"finding", "saving"},
         Effect(r, "linking", proc[r].open, proc[r].owed, proc[r].id,
                [proc[r].copy EXCEPT !.order = w]),
         UNCHANGED <<alerts, overlap>>
  PROVE  Episodes' /\ Unlinked' /\ UpToDate'
<1>1. /\ \A q \in Replicas : /\ proc'[q].open = proc[q].open /\ proc'[q].id = proc[q].id
                             /\ proc'[q].owed = proc[q].owed
      /\ \A q \in Replicas \ {r} : proc'[q] = proc[q]
      /\ proc'[r].at = "linking" /\ proc'[r].copy = [proc[r].copy EXCEPT !.order = w]
  BY DEF Effect
<1>2. proc[r].id = proc[r].open /\ proc[r].id # None
  BY DEF Episodes, Raising
<1>3. alerts[proc[r].id].order = None
  BY <1>2 DEF Unlinked, Raising
<1>4. Episodes'
  BY <1>1, <1>2 DEF Episodes, Raising
<1>5. Unlinked'
  <2>1. ASSUME NEW q \in Replicas, proc'[q].open # None, proc'[q].owed \/ proc'[q].at \in Raising
        PROVE  /\ alerts'[proc'[q].open].order = None
               /\ \A p \in Replicas :
                    (p # q \/ proc'[p].at # "linking") /\ proc'[p].id = proc'[q].open =>
                       proc'[p].copy.order = None
    <3>1. proc[q].open # None /\ (proc[q].owed \/ proc[q].at \in Raising)
          /\ proc'[q].open = proc[q].open
      BY <1>1, <2>1 DEF Raising
    <3>2. alerts[proc[q].open].order = None
      BY <3>1 DEF Unlinked
    <3>3. ASSUME NEW p \in Replicas, p # q \/ proc'[p].at # "linking", proc'[p].id = proc[q].open
          PROVE  proc'[p].copy.order = None
      <4>1. CASE p = r
        BY <1>1, <1>2, <3>1, <3>3, <4>1 DEF Episodes
      <4>2. CASE p # r
        BY <1>1, <3>1, <3>3, <4>2 DEF Unlinked
      <4> QED
        BY <4>1, <4>2
    <3> QED
      BY <3>1, <3>2, <3>3
  <2> QED
    BY <2>1 DEF Unlinked
<1>6. UpToDate'
  <2>1. ASSUME ~ overlap, NEW q \in Replicas, proc[q].id # None
        PROVE  Keeps(alerts[proc[q].id], proc'[q].copy)
    <3>1. Keeps(alerts[proc[q].id], proc[q].copy)
      BY <2>1 DEF UpToDate
    <3>2. CASE q = r
      <4>1. proc'[r].copy.status = proc[r].copy.status
            /\ proc'[r].copy.cleared = proc[r].copy.cleared
        BY <1>1, ProcType DEF Alert
      <4> QED
        BY <1>3, <3>1, <3>2, <4>1 DEF Keeps
    <3> QED
      BY <1>1, <3>1, <3>2
  <2> QED
    BY <1>1, <2>1 DEF UpToDate
<1> QED
  BY <1>4, <1>5, <1>6

\* A handler lets go of an alert, or a process ends, and writes nothing.
LEMMA DroppedKept ==
  ASSUME Types, Episodes, Unlinked, UpToDate, NEW r \in Replicas, NEW at, NEW open, NEW owed,
         Effect(r, at, open, owed, None, NewAlert), at \in {"down", "serving"},
         \/ open = None
         \/ open = proc[r].open /\ proc[r].at = "saving",
         UNCHANGED <<alerts, overlap>>
  PROVE  Episodes' /\ Unlinked' /\ UpToDate'
<1>1. /\ \A q \in Replicas \ {r} : proc'[q] = proc[q]
      /\ proc'[r].at = at /\ proc'[r].open = open /\ proc'[r].id = None
      /\ proc'[r].copy = NewAlert
  BY DEF Effect
<1>2. Episodes'
  BY <1>1 DEF Episodes, Raising
<1>3. Unlinked'
  <2>1. ASSUME NEW q \in Replicas, proc'[q].open # None, proc'[q].owed \/ proc'[q].at \in Raising
        PROVE  /\ alerts'[proc'[q].open].order = None
               /\ \A p \in Replicas :
                    (p # q \/ proc'[p].at # "linking") /\ proc'[p].id = proc'[q].open =>
                       proc'[p].copy.order = None
    <3>1. proc[q].open # None /\ (proc[q].owed \/ proc[q].at \in Raising)
          /\ proc'[q].open = proc[q].open
      BY <1>1, <2>1 DEF Raising
    <3>2. alerts[proc[q].open].order = None
      BY <3>1 DEF Unlinked
    <3>3. ASSUME NEW p \in Replicas, p # q \/ proc'[p].at # "linking", proc'[p].id = proc[q].open
          PROVE  proc'[p].copy.order = None
      <4>1. p # r
        BY <1>1, <3>1, <3>3
      <4> QED
        BY <1>1, <3>1, <3>3, <4>1 DEF Unlinked
    <3> QED
      BY <3>1, <3>2, <3>3
  <2> QED
    BY <2>1 DEF Unlinked
<1>4. UpToDate'
  BY <1>1 DEF UpToDate
<1> QED
  BY <1>2, <1>3, <1>4

\* The alert in hand is stored, and the handler ends.
LEMMA SavedKept ==
  ASSUME Types, Episodes, Unlinked, UpToDate, NEW r \in Replicas, NEW open, NEW owed,
         Saved(r), Effect(r, "serving", open, owed, None, NewAlert),
         \/ proc[r].at = "linking" /\ proc[r].open = proc[r].id
            /\ open = proc[r].open /\ ~ owed
         \/ proc[r].at = "clearing" /\ open = None
         \/ proc[r].at = "judging" /\ open = proc[r].open /\ owed = proc[r].owed
  PROVE  Episodes' /\ Unlinked' /\ UpToDate'
<1>1. /\ \A q \in Replicas \ {r} : proc'[q] = proc[q]
      /\ proc'[r].at = "serving" /\ proc'[r].open = open /\ proc'[r].owed = owed
      /\ proc'[r].id = None /\ proc'[r].copy = NewAlert
  BY DEF Effect
<1> DEFINE id == proc[r].id
<1>2. /\ alerts' = [alerts EXCEPT ![id] = proc[r].copy] /\ id \in DOMAIN alerts
      /\ alerts'[id] = proc[r].copy
      /\ \A i \in DOMAIN alerts : i # id => alerts'[i] = alerts[i]
  BY ProcType DEF Saved, Types, None
<1>3. Episodes'
  BY <1>1 DEF Episodes, Raising
<1>4. Unlinked'
  <2>1. ASSUME NEW q \in Replicas, proc'[q].open # None, proc'[q].owed \/ proc'[q].at \in Raising
        PROVE  /\ alerts'[proc'[q].open].order = None
               /\ \A p \in Replicas :
                    (p # q \/ proc'[p].at # "linking") /\ proc'[p].id = proc'[q].open =>
                       proc'[p].copy.order = None
    <3>1. /\ proc[q].open # None /\ (proc[q].owed \/ proc[q].at \in Raising)
          /\ proc'[q].open = proc[q].open
          /\ q # r \/ proc[r].at = "judging"
      BY <1>1, <2>1 DEF Raising
    <3>2. alerts[proc[q].open].order = None /\ proc[q].open \in DOMAIN alerts
      BY <3>1, ProcType DEF Unlinked, None
    <3>3. proc[q].open = id => proc[r].copy.order = None
      BY <3>1 DEF Unlinked
    <3>4. ASSUME NEW p \in Replicas, p # q \/ proc'[p].at # "linking", proc'[p].id = proc[q].open
          PROVE  proc'[p].copy.order = None
      <4>1. p # r
        BY <1>1, <3>1, <3>4
      <4> QED
        BY <1>1, <3>1, <3>4, <4>1 DEF Unlinked
    <3> QED
      BY <1>2, <3>1, <3>2, <3>3, <3>4
  <2> QED
    BY <2>1 DEF Unlinked
<1>5. UpToDate'
  <2>1. ASSUME ~ overlap', NEW q \in Replicas, proc'[q].id # None
        PROVE  Keeps(alerts'[proc'[q].id], proc'[q].copy)
    <3>1. q # r /\ proc'[q] = proc[q]
      BY <1>1, <2>1
    <3>2. ~ overlap /\ proc[q].id # id
      BY <2>1, <3>1 DEF Saved
    <3>3. proc[q].id \in DOMAIN alerts
      BY <2>1, <3>1, ProcType DEF None
    <3> QED
      BY <1>2, <2>1, <3>1, <3>2, <3>3 DEF UpToDate
  <2> QED
    BY <2>1 DEF UpToDate
<1> QED
  BY <1>3, <1>4, <1>5

\* A step of a handler: what is left to show is about the alerts in hand.
LEMMA HandlerStep ==
  ASSUME IInv, NEW r \in Replicas, NEW at, NEW open \in Nat, NEW owed, NEW id \in Nat, NEW copy,
         Effect(r, at, open, owed, id, copy),
         proc[r].at \notin {"down", "migrating", "applying"} \/ at = "down",
         open <= Len(alerts), id <= Len(alerts),
         UNCHANGED <<bound, schema, overlap>>, Kept', alerts' = alerts,
         orders' \in Seq(Order), cmms' \in [Replicas -> Seq(CmmsOrder)], Unique',
         Episodes', Unlinked', UpToDate'
  PROVE  IInv'
<1>1. schema' \in Nat /\ alerts' \in Seq(Alert) /\ Len(alerts') >= Len(alerts)
  BY DEF IInv, Types
<1>2. Types'
  BY <1>1, TypesKept DEF IInv
<1>3. Migrated'
  BY MigratedKept DEF IInv, Migrated
<1> QED
  BY <1>2, <1>3 DEF IInv

LEMMA FindOrderStep ==
  ASSUME IInv, NEW r \in Replicas, FindOrder(r)
  PROVE  IInv'
<1>1. /\ proc[r].at = "finding"
      /\ UNCHANGED <<schema, tpl, snap, bound, alerts, orders, cmms, overlap>>
  BY FindOrderEffect DEF IInv
<1>2. Kept' /\ Unique' /\ orders' \in Seq(Order) /\ cmms' \in [Replicas -> Seq(CmmsOrder)]
  BY <1>1 DEF IInv, Types, Kept, Unique, OpenOrders
<1>3. CASE Effect(r, "saving", proc[r].open, proc[r].owed, proc[r].id, proc[r].copy)
  <2>1. Episodes' /\ Unlinked' /\ UpToDate'
    BY <1>1, <1>3, StillKept DEF IInv
  <2> QED
    BY <1>1, <1>2, <1>3, <2>1, ProcType, HandlerStep DEF IInv
<1>4. ASSUME NEW w \in Nat,
             Effect(r, "linking", proc[r].open, proc[r].owed, proc[r].id,
                    [proc[r].copy EXCEPT !.order = w])
      PROVE  IInv'
  <2>1. Episodes' /\ Unlinked' /\ UpToDate'
    BY <1>1, <1>4, LinkingKept DEF IInv
  <2> QED
    BY <1>1, <1>2, <1>4, <2>1, ProcType, HandlerStep DEF IInv
<1>5. proc[r].copy.order = None
  <2>1. proc[r].at \in Raising /\ proc[r].id = proc[r].open /\ proc[r].open # None
    BY <1>1 DEF IInv, Episodes, Raising
  <2> QED
    BY <1>1, <2>1 DEF IInv, Unlinked
<1> QED
  BY <1>3, <1>4, <1>5, FindOrderEffect DEF IInv

LEMMA CreateOrderStep ==
  ASSUME IInv, NEW r \in Replicas, CreateOrder(r)
  PROVE  IInv'
<1>1. /\ proc[r].at = "saving" /\ cmms' \in [Replicas -> Seq(CmmsOrder)]
      /\ UNCHANGED <<schema, tpl, snap, bound, alerts, overlap>>
  BY CreateOrderEffect DEF IInv
<1>2. Kept'
  BY <1>1 DEF IInv, Types, Kept
<1>3. ASSUME OpenOrders = {}, NEW o \in Order, orders' = Append(orders, o), NEW w \in Nat,
             Effect(r, "linking", proc[r].open, proc[r].owed, proc[r].id,
                    [proc[r].copy EXCEPT !.order = w])
      PROVE  IInv'
  <2>1. orders' \in Seq(Order) /\ orders \in Seq(Order)
    BY <1>3 DEF IInv, Types
  <2>2. OpenOrders' \subseteq {Len(orders) + 1}
    BY <1>3, <2>1 DEF OpenOrders
  <2>3. Unique'
    BY <2>2 DEF Unique
  <2>4. Episodes' /\ Unlinked' /\ UpToDate'
    BY <1>1, <1>3, LinkingKept DEF IInv
  <2> QED
    BY <1>1, <1>2, <1>3, <2>1, <2>3, <2>4, ProcType, HandlerStep DEF IInv
<1>4. CASE Effect(r, "serving", proc[r].open, TRUE, None, NewAlert) /\ orders' = orders
  <2>1. orders' \in Seq(Order) /\ Unique'
    BY <1>4 DEF IInv, Types, Unique, OpenOrders
  <2>2. Episodes' /\ Unlinked' /\ UpToDate'
    BY <1>1, <1>4, DroppedKept DEF IInv
  <2>3. None \in Nat /\ None <= Len(alerts)
    BY ProcType DEF IInv, None
  <2> QED
    BY <1>1, <1>2, <1>4, <2>1, <2>2, <2>3, ProcType, HandlerStep DEF IInv
<1> QED
  BY <1>3, <1>4, CreateOrderEffect DEF IInv

LEMMA SaveStep ==
  ASSUME IInv, NEW r \in Replicas, Link(r) \/ SaveCleared(r) \/ SaveVerdict(r)
  PROVE  IInv'
<1>1. Saved(r) /\ UNCHANGED <<schema, tpl, snap, bound, orders, cmms>>
  BY SaveEffect DEF IInv
<1>2. alerts' \in Seq(Alert) /\ Len(alerts') = Len(alerts)
  <2>1. proc[r].id \in DOMAIN alerts
    BY <1>1, ProcType DEF IInv, Saved, None
  <2> QED
    BY <1>1, <2>1, ProcType, ReplaceType DEF IInv, Saved
<1>3. PICK open \in {proc[r].open, None}, owed \in {proc[r].owed, FALSE} :
        /\ Effect(r, "serving", open, owed, None, NewAlert)
        /\ \/ proc[r].at = "linking" /\ proc[r].open = proc[r].id
              /\ open = proc[r].open /\ ~ owed
           \/ proc[r].at = "clearing" /\ open = None
           \/ proc[r].at = "judging" /\ open = proc[r].open /\ owed = proc[r].owed
  <2>1. CASE /\ proc[r].at = "linking" /\ proc[r].open = proc[r].id
             /\ Effect(r, "serving", proc[r].open, FALSE, None, NewAlert)
    <3> WITNESS proc[r].open \in {proc[r].open, None}, FALSE \in {proc[r].owed, FALSE}
    <3> QED
      BY <2>1
  <2>2. CASE /\ proc[r].at = "clearing"
             /\ Effect(r, "serving", None, proc[r].owed, None, NewAlert)
    <3> WITNESS None \in {proc[r].open, None}, proc[r].owed \in {proc[r].owed, FALSE}
    <3> QED
      BY <2>2
  <2>3. CASE /\ proc[r].at = "judging"
             /\ Effect(r, "serving", proc[r].open, proc[r].owed, None, NewAlert)
    <3> WITNESS proc[r].open \in {proc[r].open, None}, proc[r].owed \in {proc[r].owed, FALSE}
    <3> QED
      BY <2>3
  <2> QED
    BY <2>1, <2>2, <2>3, SaveEffect DEF IInv
<1>4. Types'
  <2>1. Kept' /\ bound' = bound /\ schema' \in Nat /\ orders' \in Seq(Order)
        /\ cmms' \in [Replicas -> Seq(CmmsOrder)]
    BY <1>1 DEF IInv, Types, Kept
  <2>2. open \in Nat /\ None \in Nat /\ open <= Len(alerts') /\ None <= Len(alerts')
        /\ Len(alerts') >= Len(alerts)
    BY <1>2, ProcType DEF IInv, None
  <2> QED
    BY <1>2, <1>3, <2>1, <2>2, TypesKept DEF IInv
<1>5. Migrated'
  BY <1>1, <1>3, HandlerMigrated DEF IInv
<1>6. Unique'
  BY <1>1 DEF IInv, Unique, OpenOrders
<1>7. Episodes' /\ Unlinked' /\ UpToDate'
  BY <1>1, <1>3, SavedKept DEF IInv
<1> QED
  BY <1>4, <1>5, <1>6, <1>7 DEF IInv

LEMMA VerdictStep ==
  ASSUME IInv, NEW r \in Replicas, Adapt(r) \/ CancelOrder(r) \/ VoidOrder(r)
  PROVE  IInv'
<1>1. CASE Adapt(r)
  <2>1. /\ proc[r].at = "adapting" /\ Kept'
        /\ UNCHANGED <<schema, bound, alerts, orders, cmms, overlap>>
    BY <1>1, AdaptEffect DEF IInv
  <2>2. PICK at \in {"cancelling", "judging"} :
          Effect(r, at, proc[r].open, proc[r].owed, proc[r].id, proc[r].copy)
    BY <1>1, AdaptEffect DEF IInv
  <2>3. Unique' /\ orders' \in Seq(Order) /\ cmms' \in [Replicas -> Seq(CmmsOrder)]
    BY <2>1 DEF IInv, Types, Unique, OpenOrders
  <2>4. Episodes' /\ Unlinked' /\ UpToDate'
    BY <2>1, <2>2, StillKept DEF IInv
  <2> QED
    BY <2>1, <2>2, <2>3, <2>4, ProcType, HandlerStep DEF IInv
<1>2. CASE CancelOrder(r)
  <2>1. /\ proc[r].at = "cancelling" /\ cmms' \in [Replicas -> Seq(CmmsOrder)]
        /\ UNCHANGED <<schema, tpl, snap, bound, alerts, orders, overlap>>
    BY <1>2, CancelOrderEffect DEF IInv
  <2>2. PICK at \in {"voiding", "judging"} :
          Effect(r, at, proc[r].open, proc[r].owed, proc[r].id, proc[r].copy)
    BY <1>2, CancelOrderEffect DEF IInv
  <2>3. Kept' /\ Unique' /\ orders' \in Seq(Order)
    BY <2>1 DEF IInv, Types, Kept, Unique, OpenOrders
  <2>4. Episodes' /\ Unlinked' /\ UpToDate'
    BY <2>1, <2>2, StillKept DEF IInv
  <2> QED
    BY <2>1, <2>2, <2>3, <2>4, ProcType, HandlerStep DEF IInv
<1>3. CASE VoidOrder(r)
  <2>1. /\ proc[r].at = "voiding"
        /\ Effect(r, "judging", proc[r].open, proc[r].owed, proc[r].id, proc[r].copy)
        /\ orders' \in Seq(Order) /\ OpenOrders' \subseteq OpenOrders
        /\ UNCHANGED <<schema, tpl, snap, bound, alerts, cmms, overlap>>
    BY <1>3, VoidOrderEffect DEF IInv
  <2>2. Kept' /\ Unique' /\ cmms' \in [Replicas -> Seq(CmmsOrder)]
    BY <2>1 DEF IInv, Types, Kept, Unique
  <2>3. Episodes' /\ Unlinked' /\ UpToDate'
    BY <2>1, StillKept DEF IInv
  <2> QED
    BY <2>1, <2>2, <2>3, ProcType, HandlerStep DEF IInv
<1> QED
  BY <1>1, <1>2, <1>3

LEMMA EndsStep ==
  ASSUME IInv, NEW r \in Replicas, Ends(r)
  PROVE  IInv'
<1>1. /\ Effect(r, "down", None, FALSE, None, NewAlert)
      /\ cmms' \in [Replicas -> Seq(CmmsOrder)]
      /\ UNCHANGED <<schema, tpl, snap, bound, alerts, orders, overlap>>
  BY EndsEffect DEF IInv
<1>2. Kept' /\ Unique' /\ orders' \in Seq(Order)
  BY <1>1 DEF IInv, Types, Kept, Unique, OpenOrders
<1>3. Episodes' /\ Unlinked' /\ UpToDate'
  BY <1>1, DroppedKept DEF IInv
<1>4. None \in Nat /\ None <= Len(alerts)
  BY ProcType DEF IInv, None
<1> QED
  BY <1>1, <1>2, <1>3, <1>4, HandlerStep DEF IInv

-----------------------------------------------------------------------------
LEMMA InitInv == Init => IInv
<1> SUFFICES ASSUME Init PROVE IInv
  OBVIOUS
<1>1. Fresh("down") \in Proc
  BY NewAlertType, BaseType DEF Fresh, Proc, Steps, Early, None
<1>2. proc \in [Replicas -> Proc] /\ \A r \in Replicas : proc[r] = Fresh("down")
  BY <1>1 DEF Init
<1>3. \A r \in Replicas : /\ proc[r].at = "down" /\ proc[r].open = None /\ proc[r].id = None
                          /\ proc[r].copy = NewAlert
  BY <1>2 DEF Fresh
<1>4. alerts = <<>> /\ orders = <<>> /\ schema = 0 /\ Len(alerts) = 0
  BY DEF Init
<1>5. Types
  <2>1. bound \in Scenarios /\ Kept /\ cmms \in [Replicas -> Seq(CmmsOrder)]
    BY DEF Init, Kept
  <2>2. alerts \in Seq(Alert) /\ orders \in Seq(Order) /\ schema \in Nat
    BY <1>4
  <2>3. \A r \in Replicas : proc[r].open <= Len(alerts) /\ proc[r].id <= Len(alerts)
    BY <1>3, <1>4 DEF None
  <2> QED
    BY <1>2, <2>1, <2>2, <2>3 DEF Types
<1>6. Migrated
  BY <1>3, <1>4 DEF Migrated
<1>7. Unique
  BY <1>4 DEF Unique, OpenOrders
<1>8. Episodes
  BY <1>3 DEF Episodes, Raising
<1>9. Unlinked /\ UpToDate
  BY <1>3 DEF Unlinked, UpToDate
<1> QED
  BY <1>5, <1>6, <1>7, <1>8, <1>9 DEF IInv

\* The actions, grouped as they are above.
LEMMA NextCases ==
  ASSUME Next
  PROVE  \E r \in Replicas :
           \/ Quiet(r) \/ Apply(r) \/ Fire(r)
           \/ Hold(r) \/ Clear(r) \/ HandleFeedback(r)
           \/ FindOrder(r) \/ CreateOrder(r)
           \/ Link(r) \/ SaveCleared(r) \/ SaveVerdict(r)
           \/ Adapt(r) \/ CancelOrder(r) \/ VoidOrder(r)
           \/ Ends(r)
  BY DEF Next, Starting, Working, Ingest, Requests, Stop, Crash, Quiet

LEMMA NextInv == IInv /\ [Next]_vars => IInv'
<1> SUFFICES ASSUME IInv, [Next]_vars PROVE IInv'
  OBVIOUS
<1>1. CASE Next
  BY <1>1, NextCases, QuietStep, ApplyStep, FireStep, TakingStep, FindOrderStep,
     CreateOrderStep, SaveStep, VerdictStep, EndsStep
<1>2. CASE UNCHANGED vars
  <2>1. UNCHANGED <<bound, schema, tpl, snap, alerts, orders, proc, cmms, overlap>>
    BY <1>2 DEF vars, database, history
  <2>2. Types' /\ Migrated' /\ Unique'
    BY <2>1 DEF IInv, Types, Kept, Migrated, Unique, OpenOrders
  <2>3. Episodes' /\ Unlinked' /\ UpToDate'
    BY <2>1 DEF IInv, Episodes, Unlinked, UpToDate
  <2> QED
    BY <2>2, <2>3 DEF IInv
<1> QED
  BY <1>1, <1>2

THEOREM Invariance == Spec => []IInv
  BY InitInv, NextInv, PTL DEF Spec

\* However many processes start on an empty database, in whatever order, a
\* migration is applied once, and none serves before it is (Migrate, New).
THEOREM Migrations == Spec => []MigratedOnce
<1>1. IInv => MigratedOnce
  BY DEF IInv, Migrated, MigratedOnce
<1> QED
  BY <1>1, Invariance, PTL

\* However many processes raise work orders of the asset, the store has at most
\* one open order of it (raiseWorkOrder, work_orders_open_unique).
THEOREM OpenOrderUnique == Spec => []OneOpenOrder
<1>1. IInv => OneOpenOrder
  <2> SUFFICES ASSUME IInv PROVE OneOpenOrder
    OBVIOUS
  <2>1. CASE OpenOrders = {}
    BY <2>1, FS_EmptySet DEF OneOpenOrder
  <2>2. CASE OpenOrders # {}
    <3>1. PICK w \in OpenOrders : TRUE
      BY <2>2
    <3>2. OpenOrders = {w}
      BY <3>1 DEF IInv, Unique
    <3>3. Cardinality({w}) = 1
      BY FS_Singleton
    <3> QED
      BY <3>2, <3>3 DEF OneOpenOrder
  <2> QED
    BY <2>1, <2>2
<1> QED
  BY <1>1, Invariance, PTL

\* How a step changes the alerts.
LEMMA AlertsStep ==
  ASSUME IInv, Next
  PROVE  \/ alerts' = alerts \/ alerts' = Append(alerts, NewAlert)
         \/ \E r \in Replicas : Saved(r)
<1>1. PICK r \in Replicas :
           \/ Quiet(r) \/ Apply(r) \/ Fire(r)
           \/ Hold(r) \/ Clear(r) \/ HandleFeedback(r)
           \/ FindOrder(r) \/ CreateOrder(r)
           \/ Link(r) \/ SaveCleared(r) \/ SaveVerdict(r)
           \/ Adapt(r) \/ CancelOrder(r) \/ VoidOrder(r)
           \/ Ends(r)
  BY NextCases
<1>2. Types /\ Episodes
  BY DEF IInv
<1> QED
  BY <1>1, <1>2, QuietEffect, ApplyEffect, FireEffect, HoldEffect, ClearEffect, FeedbackEffect,
     FindOrderEffect, CreateOrderEffect, SaveEffect, AdaptEffect, CancelOrderEffect, VoidOrderEffect,
     EndsEffect

\* Whatever processes do to an alert, as long as no two handlers had it in hand
\* at the same time a verdict, a work order and an end stay (UpsertAlert).
THEOREM Facts == Spec => FactsStay
<1> DEFINE Stay == ~ overlap' => \A i \in DOMAIN alerts :
             /\ alerts[i].status # "open" => alerts'[i].status = alerts[i].status
             /\ alerts[i].order # None => alerts'[i].order = alerts[i].order
             /\ alerts[i].cleared => alerts'[i].cleared
<1>1. IInv /\ [Next]_vars => [Stay]_vars
  <2> SUFFICES ASSUME IInv, Next, ~ overlap', NEW i \in DOMAIN alerts
               PROVE  /\ alerts[i].status # "open" => alerts'[i].status = alerts[i].status
                      /\ alerts[i].order # None => alerts'[i].order = alerts[i].order
                      /\ alerts[i].cleared => alerts'[i].cleared
    OBVIOUS
  <2>1. CASE alerts' = alerts
    BY <2>1
  <2>2. CASE alerts' = Append(alerts, NewAlert)
    <3>1. alerts'[i] = alerts[i]
      BY <2>2 DEF IInv, Types
    <3> QED
      BY <3>1
  <2>3. ASSUME NEW r \in Replicas, Saved(r)
        PROVE  alerts'[i] = alerts[i] \/ Keeps(alerts[i], alerts'[i])
    <3>1. ~ overlap /\ proc[r].id # None
      BY <2>3 DEF Saved
    <3>2. Keeps(alerts[proc[r].id], proc[r].copy)
      BY <3>1 DEF IInv, UpToDate
    <3> QED
      BY <2>3, <3>2 DEF Saved, IInv, Types
  <2> QED
    BY <2>1, <2>2, <2>3, AlertsStep DEF Keeps
<1> QED
  BY <1>1, Invariance, PTL DEF Spec, FactsStay

-----------------------------------------------------------------------------
\* An alert that is nobody's to raise or to end has its order, unless the order is
\* owed; and so has a copy that is about to be linked.
HasLink(p, stored) ==
  /\ p.open # None /\ ~ p.owed /\ p.at \notin Raising \cup {"clearing"} =>
       stored[p.open].order # None
  /\ p.at = "linking" => p.copy.order # None

Linked == ~ overlap => \A r \in Replicas : HasLink(proc[r], alerts)

\* A step that leaves the alerts alone.
LEMMA LinkedStill ==
  ASSUME Linked, NEW r \in Replicas, NEW at, NEW open, NEW owed, NEW id, NEW copy,
         Effect(r, at, open, owed, id, copy), UNCHANGED <<alerts, overlap>>,
         \/ at \in Raising \cup {"clearing"} /\ (at = "linking" => copy.order # None)
         \/ open = None /\ at \notin Raising
         \/ owed /\ at \notin Raising
         \/ /\ open = proc[r].open /\ owed = proc[r].owed
            /\ at \notin Raising \cup {"clearing"} /\ proc[r].at \notin Raising \cup {"clearing"}
  PROVE  Linked'
<1> SUFFICES ASSUME ~ overlap, NEW q \in Replicas PROVE HasLink(proc'[q], alerts)
  BY DEF Linked
<1>1. CASE q = r
  BY <1>1 DEF Linked, HasLink, Effect, Raising
<1>2. CASE q # r
  BY <1>2 DEF Linked, Effect
<1> QED
  BY <1>1, <1>2

\* The steps between handlers, and those of a verdict.
LEMMA SettledLinked ==
  ASSUME IInv, Linked, NEW r \in Replicas,
         Quiet(r) \/ Apply(r) \/ Adapt(r) \/ CancelOrder(r) \/ VoidOrder(r)
  PROVE  Linked'
<1>1. Types /\ Episodes
  BY DEF IInv
<1>2. PICK at :
        /\ Effect(r, at, proc[r].open, proc[r].owed, proc[r].id, proc[r].copy)
        /\ at \notin Raising \cup {"clearing"} /\ proc[r].at \notin Raising \cup {"clearing"}
        /\ UNCHANGED <<alerts, overlap>>
  <2> USE DEF Raising
  <2>1. CASE Quiet(r)
    BY <1>1, <2>1, QuietEffect DEF Between
  <2>2. CASE Apply(r)
    BY <1>1, <2>2, ApplyEffect
  <2>3. CASE Adapt(r)
    BY <1>1, <2>3, AdaptEffect
  <2>4. CASE CancelOrder(r)
    BY <1>1, <2>4, CancelOrderEffect
  <2>5. CASE VoidOrder(r)
    BY <1>1, <2>5, VoidOrderEffect
  <2> QED
    BY <2>1, <2>2, <2>3, <2>4, <2>5
<1> QED
  BY <1>2, LinkedStill

\* An episode begins with an alert that is being raised.
LEMMA FireLinked ==
  ASSUME IInv, Linked, NEW r \in Replicas, Fire(r)
  PROVE  Linked'
<1> SUFFICES ASSUME ~ overlap', NEW q \in Replicas PROVE HasLink(proc'[q], alerts')
  BY DEF Linked
<1>1. /\ Effect(r, "finding", Len(alerts) + 1, proc[r].owed, Len(alerts) + 1, proc[r].copy)
      /\ alerts' = Append(alerts, NewAlert) /\ overlap' = overlap
  BY FireEffect DEF IInv
<1>2. CASE q = r
  BY <1>1, <1>2 DEF HasLink, Effect, Raising
<1>3. CASE q # r
  <2>1. proc'[q] = proc[q] /\ HasLink(proc[q], alerts)
    BY <1>1, <1>3 DEF Effect, Linked
  <2>2. proc[q].open # None => alerts'[proc[q].open] = alerts[proc[q].open]
    BY <1>1, ProcType DEF IInv, None
  <2> QED
    BY <2>1, <2>2 DEF HasLink
<1> QED
  BY <1>2, <1>3

\* A handler takes an alert in hand.
LEMMA TakingLinked ==
  ASSUME IInv, Linked, NEW r \in Replicas, Hold(r) \/ Clear(r) \/ HandleFeedback(r)
  PROVE  Linked'
<1>1. Types
  BY DEF IInv
<1>2. CASE Hold(r)
  BY <1>1, <1>2, HoldEffect, LinkedStill DEF Raising
<1>3. CASE Clear(r)
  <2>1. PICK copy : Effect(r, "clearing", proc[r].open, FALSE, proc[r].open, copy)
    BY <1>1, <1>3, ClearEffect
  <2> QED
    BY <1>1, <1>3, <2>1, ClearEffect, LinkedStill
<1>4. CASE HandleFeedback(r)
  <2>1. PICK id \in DOMAIN alerts, at \in {"adapting", "judging"}, copy \in Alert :
          Effect(r, at, proc[r].open, proc[r].owed, id, copy)
    BY <1>1, <1>4, FeedbackEffect
  <2>2. proc[r].at = "serving" /\ UNCHANGED <<alerts, overlap>>
    BY <1>1, <1>4, FeedbackEffect
  <2> QED
    BY <2>1, <2>2, LinkedStill DEF Raising
<1> QED
  BY <1>2, <1>3, <1>4

\* An order is found or created for the alert in hand, or is owed.
LEMMA RaisingLinked ==
  ASSUME IInv, Linked, NEW r \in Replicas, FindOrder(r) \/ CreateOrder(r)
  PROVE  Linked'
<1>1. Types /\ proc[r].copy \in Alert
  BY ProcType DEF IInv
<1>2. ASSUME NEW w \in Nat \ {None},
             Effect(r, "linking", proc[r].open, proc[r].owed, proc[r].id,
                    [proc[r].copy EXCEPT !.order = w]),
             UNCHANGED <<alerts, overlap>>
      PROVE  Linked'
  <2> DEFINE copy == [proc[r].copy EXCEPT !.order = w]
  <2>1. copy.order # None
    BY <1>1 DEF Alert
  <2>2. Effect(r, "linking", proc[r].open, proc[r].owed, proc[r].id, copy)
    BY <1>2
  <2> HIDE DEF copy
  <2> QED
    BY <1>2, <2>1, <2>2, LinkedStill DEF Raising
<1>3. CASE FindOrder(r)
  <2>1. proc[r].copy.order = None /\ UNCHANGED <<alerts, overlap>>
    <3>1. proc[r].at = "finding" /\ UNCHANGED <<alerts, overlap>>
      BY <1>1, <1>3, FindOrderEffect
    <3>2. proc[r].at \in Raising /\ proc[r].id = proc[r].open /\ proc[r].open # None
      BY <3>1 DEF IInv, Episodes, Raising
    <3> QED
      BY <3>1, <3>2 DEF IInv, Unlinked
  <2>2. CASE Effect(r, "saving", proc[r].open, proc[r].owed, proc[r].id, proc[r].copy)
    BY <2>1, <2>2, LinkedStill DEF Raising
  <2> QED
    BY <1>1, <1>2, <1>3, <2>1, <2>2, FindOrderEffect
<1>4. CASE CreateOrder(r)
  <2>1. UNCHANGED <<alerts, overlap>>
    BY <1>1, <1>4, CreateOrderEffect
  <2>2. CASE Effect(r, "serving", proc[r].open, TRUE, None, NewAlert)
    BY <2>1, <2>2, LinkedStill DEF Raising
  <2> QED
    BY <1>1, <1>2, <1>4, <2>1, <2>2, CreateOrderEffect
<1> QED
  BY <1>3, <1>4

\* An alert is written by the handler of its episode, or with the order it has.
LEMMA SavingLinked ==
  ASSUME IInv, Linked, NEW r \in Replicas, Link(r) \/ SaveCleared(r) \/ SaveVerdict(r)
  PROVE  Linked'
<1> SUFFICES ASSUME ~ overlap', NEW q \in Replicas PROVE HasLink(proc'[q], alerts')
  BY DEF Linked
<1>1. Types /\ Episodes
  BY DEF IInv
<1>2. Saved(r)
  BY <1>1, SaveEffect
<1> DEFINE id == proc[r].id
<1>3. /\ ~ overlap /\ id \in DOMAIN alerts /\ alerts'[id] = proc[r].copy
      /\ \A i \in DOMAIN alerts : i # id => alerts'[i] = alerts[i]
  <2>1. id \in DOMAIN alerts /\ alerts \in Seq(Alert)
    BY <1>1, <1>2, ProcType DEF Saved, None
  <2> QED
    BY <1>2, <2>1 DEF Saved
<1>4. /\ HasLink(proc[q], alerts) /\ HasLink(proc[r], alerts)
      /\ proc[q].open # None => proc[q].open \in DOMAIN alerts
  BY <1>1, <1>3, ProcType DEF Linked, None
<1>5. alerts[id].order # None => alerts'[id].order = alerts[id].order
  BY <1>2, <1>3 DEF IInv, UpToDate, Keeps, Saved
<1>6. HasLink(proc[q], alerts')
  BY <1>3, <1>4, <1>5 DEF HasLink
<1>7. CASE /\ proc[r].at = "linking" /\ proc[r].open = id
           /\ Effect(r, "serving", proc[r].open, FALSE, None, NewAlert)
  <2>1. alerts'[id].order # None
    BY <1>3, <1>4, <1>7 DEF HasLink
  <2>2. q # r => proc'[q] = proc[q]
    BY <1>7 DEF Effect
  <2>3. proc'[r].at = "serving" /\ proc'[r].open = id
    BY <1>7 DEF Effect
  <2> QED
    BY <1>3, <1>4, <2>1, <2>2, <2>3 DEF HasLink
<1>8. CASE /\ proc[r].at = "clearing"
           /\ Effect(r, "serving", None, proc[r].owed, None, NewAlert)
  <2>2. q # r => proc'[q] = proc[q]
    BY <1>8 DEF Effect
  <2>3. proc'[r].at = "serving" /\ proc'[r].open = None
    BY <1>8 DEF Effect
  <2> QED
    BY <1>6, <2>2, <2>3 DEF HasLink
<1>9. CASE /\ proc[r].at = "judging"
           /\ Effect(r, "serving", proc[r].open, proc[r].owed, None, NewAlert)
  <2>1. q # r => proc'[q] = proc[q]
    BY <1>9 DEF Effect
  <2>2. /\ proc'[r].at = "serving" /\ proc'[r].open = proc[r].open
        /\ proc'[r].owed = proc[r].owed
    BY <1>9 DEF Effect
  <2> QED
    BY <1>6, <1>9, <2>1, <2>2 DEF HasLink, Raising
<1> QED
  BY <1>1, <1>7, <1>8, <1>9, SaveEffect

LEMMA NextLinked == IInv /\ Linked /\ [Next]_vars => Linked'
<1> SUFFICES ASSUME IInv, Linked, [Next]_vars PROVE Linked'
  OBVIOUS
<1>1. ASSUME NEW r \in Replicas, Ends(r) PROVE Linked'
  BY <1>1, EndsEffect, LinkedStill DEF IInv, Raising
<1>2. CASE UNCHANGED vars
  <2>1. UNCHANGED <<proc, alerts, overlap>>
    BY <1>2 DEF vars, database, history
  <2> QED
    BY <2>1 DEF Linked
<1> QED
  BY <1>1, <1>2, NextCases, SettledLinked, FireLinked, TakingLinked, RaisingLinked, SavingLinked

\* Whatever other processes do with orders of the asset: unless the handlers of two
\* had an alert in hand at the same time, an alert of a running episode has an
\* order, or its process knows that it owes one (raiseWorkOrder, pendingWOTop).
THEOREM OrdersRemembered == Spec => []NoOrderForgotten
<1>1. Init => Linked
  BY DEF Init, Fresh, Linked, HasLink, None
<1>2. Linked => NoOrderForgotten
  BY DEF Linked, HasLink, NoOrderForgotten, At, Raising
<1> QED
  BY <1>1, <1>2, Invariance, NextLinked, PTL DEF Spec

-----------------------------------------------------------------------------
\* Where the values that TypeOK bounds come from: every alert, order and key is
\* one of the store's, and a simulated CMMS has one order per alert.
OneSnapshot == \A s, t \in snap : s = t

Keyed == \A r \in Replicas : \A n, m \in DOMAIN cmms[r] :
  /\ cmms[r][n].alert \in AlertIds
  /\ cmms[r][n].alert = cmms[r][m].alert => n = m

Numbered ==
  /\ Len(alerts) <= bound.alerts
  /\ \A i \in DOMAIN alerts : alerts[i].order <= Len(orders)
  /\ \A w \in DOMAIN orders : orders[w].alert \in AlertIds /\ orders[w].ref \in AlertIds
  /\ \A r \in Replicas : proc[r].copy.order <= Len(orders)

Limited ==
  /\ \A s \in snap : s.moves \subseteq AlertIds
  /\ \A r \in Replicas : proc[r].moves \subseteq AlertIds /\ proc[r].tries <= MaxRetry
  /\ exits \in 0..bound.exits /\ puts \in 0..bound.puts
  /\ stale \subseteq Replicas

Bounded == OneSnapshot /\ Keyed /\ Numbered /\ Limited

-----------------------------------------------------------------------------
\* What an action leaves of what a process has in memory besides.
Recalls(r, t, b, m, n) ==
  proc'[r].tpl = t /\ proc'[r].base = b /\ proc'[r].moves = m /\ proc'[r].tries = n

Unaltered(r) == Recalls(r, proc[r].tpl, proc[r].base, proc[r].moves, proc[r].tries)

\* The actions that do not touch it.
LEMMA UnalteredCases ==
  ASSUME Types, NEW r \in Replicas,
         \/ Start(r) \/ CreateTableRaced(r) \/ CheckMigration(r) \/ Apply(r) \/ Register(r)
         \/ Fire(r) \/ Clear(r) \/ FindOrder(r) \/ Link(r) \/ SaveCleared(r)
         \/ Adapt(r) \/ CancelOrder(r) \/ VoidOrder(r) \/ SaveVerdict(r)
  PROVE  Unaltered(r)
<1>1. proc[r] \in Proc /\ proc \in [Replicas -> Proc]
  BY DEF Types
<1>2. \A p : Becomes(r, p) => proc'[r] = p
  BY <1>1 DEF Becomes
<1>3. ASSUME NEW at, Goes(r, at) PROVE Unaltered(r)
  BY <1>1, <1>3, <1>2 DEF Goes, Proc, Unaltered, Recalls
<1>4. CASE \/ Start(r) \/ CreateTableRaced(r) \/ CheckMigration(r) \/ Apply(r)
           \/ Adapt(r) \/ CancelOrder(r) \/ VoidOrder(r)
  BY <1>3, <1>4 DEF Start, CreateTableRaced, CheckMigration, Apply, Adapt, CancelOrder, VoidOrder
<1>5. CASE Register(r)
  BY <1>1, <1>5, <1>2 DEF Register, Proc, Unaltered, Recalls
<1>6. CASE Fire(r)
  <2>1. PICK n : Becomes(r, [proc[r] EXCEPT !.at = "finding", !.open = n, !.id = n])
    BY <1>6 DEF Fire
  <2> QED
    BY <1>1, <2>1, <1>2 DEF Proc, Unaltered, Recalls
<1>7. CASE Clear(r)
  <2>1. PICK n, a : Becomes(r, [proc[r] EXCEPT !.at = "clearing", !.owed = FALSE, !.id = n,
                                               !.copy = a])
    BY <1>7 DEF Clear
  <2> QED
    BY <1>1, <2>1, <1>2 DEF Proc, Unaltered, Recalls
<1>8. CASE FindOrder(r)
  <2>1. CASE Goes(r, "saving")
    BY <1>3, <2>1
  <2>2. ASSUME NEW w, Becomes(r, [proc[r] EXCEPT !.at = "linking", !.copy.order = w])
        PROVE  Unaltered(r)
    BY <1>1, <2>2, <1>2 DEF Proc, Unaltered, Recalls
  <2>3. CASE Becomes(r, [Done(proc[r]) EXCEPT !.owed = FALSE])
    BY <1>1, <2>3, <1>2 DEF Done, Proc, Unaltered, Recalls
  <2> QED
    BY <1>8, <2>1, <2>2, <2>3 DEF FindOrder
<1>9. CASE Link(r)
  BY <1>1, <1>9, <1>2 DEF Link, Done, Proc, Unaltered, Recalls
<1>10. CASE SaveCleared(r)
  BY <1>1, <1>10, <1>2 DEF SaveCleared, Done, Proc, Unaltered, Recalls
<1>11. CASE SaveVerdict(r)
  BY <1>1, <1>11, <1>2 DEF SaveVerdict, Done, Proc, Unaltered, Recalls
<1> QED
  BY <1>4, <1>5, <1>6, <1>7, <1>8, <1>9, <1>10, <1>11

\* The actions that do.
LEMMA AlteredCases ==
  ASSUME Types, NEW r \in Replicas
  PROVE  /\ LoadTemplates(r) =>
              \/ proc'[r].at = "seeding" /\ tpl = NoTemplate /\ Unaltered(r)
              \/ proc'[r].at = "restoring"
                 /\ Recalls(r, tpl, proc[r].base, proc[r].moves, proc[r].tries)
         /\ Seed(r) =>
              /\ proc[r].at = "seeding" /\ proc'[r].at = "restoring" /\ tpl' = Builtin
              /\ Recalls(r, Builtin, proc[r].base, proc[r].moves, proc[r].tries)
         /\ Restore(r) =>
              /\ proc[r].at = "restoring" /\ proc'[r].at = "serving"
              /\ \/ snap = {} /\ Unaltered(r)
                 \/ \E s \in snap : Recalls(r, proc[r].tpl, Merged(s.base, Recipe[proc[r].tpl]),
                                         s.moves, proc[r].tries)
         /\ Learn(r) =>
              /\ proc[r].at = "serving" /\ proc'[r].at = "serving" /\ proc[r].base = Unlearned
              /\ Recalls(r, proc[r].tpl, Fitted(Recipe[proc[r].tpl]), proc[r].moves,
                         proc[r].tries)
              /\ snap' = {[base |-> Fitted(Recipe[proc[r].tpl]), moves |-> proc[r].moves]}
         /\ \A t \in Templates : PutTemplate(r, t) =>
              /\ proc[r].at = "serving" /\ proc'[r].at = "serving" /\ tpl' = t
              /\ Recalls(r, t, Merged(proc[r].base, Recipe[t]), proc[r].moves, proc[r].tries)
         /\ Hold(r) =>
              /\ proc[r].tries < MaxRetry
              /\ Recalls(r, proc[r].tpl, proc[r].base, proc[r].moves, proc[r].tries + 1)
         /\ CreateOrder(r) =>
              \E n \in {proc[r].tries, 0} :
                Recalls(r, proc[r].tpl, proc[r].base, proc[r].moves, n)
         /\ HandleFeedback(r) =>
              \/ Unaltered(r) /\ proc'[r].at = "judging"
              \/ /\ proc'[r].at = "adapting"
                 /\ \E id \in DOMAIN alerts :
                      Recalls(r, proc[r].tpl, proc[r].base, proc[r].moves \cup {id},
                              proc[r].tries)
         /\ Ends(r) =>
              proc'[r].at = "down" /\ Recalls(r, NoTemplate, Unlearned, {}, 0)
<1>1. proc[r] \in Proc /\ proc \in [Replicas -> Proc]
  BY DEF Types
<1>2. \A p : Becomes(r, p) => proc'[r] = p
  BY <1>1 DEF Becomes
<1>3. ASSUME LoadTemplates(r)
      PROVE  \/ proc'[r].at = "seeding" /\ tpl = NoTemplate /\ Unaltered(r)
             \/ proc'[r].at = "restoring"
                /\ Recalls(r, tpl, proc[r].base, proc[r].moves, proc[r].tries)
  <2>1. CASE ListTemplates = {} /\ Goes(r, "seeding")
    BY <1>1, <1>2, <2>1 DEF ListTemplates, Goes, Proc, Unaltered, Recalls
  <2>2. ASSUME NEW t \in ListTemplates, Becomes(r, [proc[r] EXCEPT !.at = "restoring", !.tpl = t])
        PROVE  proc'[r].at = "restoring"
               /\ Recalls(r, tpl, proc[r].base, proc[r].moves, proc[r].tries)
    <3>1. t = tpl
      BY DEF ListTemplates
    <3> QED
      BY <1>1, <1>2, <2>2, <3>1 DEF Proc, Recalls
  <2> QED
    BY <1>3, <2>1, <2>2 DEF LoadTemplates
<1>4. ASSUME Seed(r)
      PROVE  /\ proc[r].at = "seeding" /\ proc'[r].at = "restoring" /\ tpl' = Builtin
             /\ Recalls(r, Builtin, proc[r].base, proc[r].moves, proc[r].tries)
  BY <1>1, <1>2, <1>4 DEF Seed, At, UpsertTemplate, Proc, Recalls
<1>5. ASSUME Restore(r)
      PROVE  /\ proc[r].at = "restoring" /\ proc'[r].at = "serving"
             /\ \/ snap = {} /\ Unaltered(r)
                \/ \E s \in snap : Recalls(r, proc[r].tpl, Merged(s.base, Recipe[proc[r].tpl]),
                                        s.moves, proc[r].tries)
  <2>1. CASE ListAssetSnapshots = {} /\ Goes(r, "serving")
    BY <1>1, <1>2, <1>5, <2>1 DEF Restore, At, ListAssetSnapshots, Goes, Proc, Unaltered, Recalls
  <2>2. ASSUME NEW b, NEW m, Becomes(r, [proc[r] EXCEPT !.at = "serving", !.known = TRUE,
                                                        !.base = b, !.moves = m])
        PROVE  proc'[r].at = "serving" /\ Recalls(r, proc[r].tpl, b, m, proc[r].tries)
    BY <1>1, <1>2, <2>2 DEF Proc, Recalls
  <2>3. proc[r].at = "restoring"
    BY <1>5 DEF Restore, At
  <2> QED
    BY <1>5, <2>1, <2>2, <2>3 DEF Restore, ListAssetSnapshots
<1>6. ASSUME Learn(r)
      PROVE  /\ proc[r].at = "serving" /\ proc'[r].at = "serving" /\ proc[r].base = Unlearned
             /\ Recalls(r, proc[r].tpl, Fitted(Recipe[proc[r].tpl]), proc[r].moves,
                        proc[r].tries)
             /\ snap' = {[base |-> Fitted(Recipe[proc[r].tpl]), moves |-> proc[r].moves]}
  <2>1. ASSUME NEW b, Becomes(r, [proc[r] EXCEPT !.base = b])
        PROVE  proc'[r].at = proc[r].at
               /\ Recalls(r, proc[r].tpl, b, proc[r].moves, proc[r].tries)
    BY <1>1, <1>2, <2>1 DEF Proc, Recalls
  <2> QED
    BY <1>6, <2>1 DEF Learn, At, SaveAssetSnapshot
<1>7. ASSUME NEW t \in Templates, PutTemplate(r, t)
      PROVE  /\ proc[r].at = "serving" /\ proc'[r].at = "serving" /\ tpl' = t
             /\ Recalls(r, t, Merged(proc[r].base, Recipe[t]), proc[r].moves, proc[r].tries)
  <2>1. ASSUME NEW b, Becomes(r, [proc[r] EXCEPT !.tpl = t, !.base = b])
        PROVE  proc'[r].at = proc[r].at /\ Recalls(r, t, b, proc[r].moves, proc[r].tries)
    BY <1>1, <1>2, <2>1 DEF Proc, Recalls
  <2> QED
    BY <1>7, <2>1 DEF PutTemplate, At, UpsertTemplate
<1>8. ASSUME Hold(r)
      PROVE  /\ proc[r].tries < MaxRetry
             /\ Recalls(r, proc[r].tpl, proc[r].base, proc[r].moves, proc[r].tries + 1)
  <2>1. PICK a : Becomes(r, [proc[r] EXCEPT !.at = "finding", !.tries = @ + 1,
                                            !.id = proc[r].open, !.copy = a])
    BY <1>8 DEF Hold
  <2> QED
    BY <1>1, <1>2, <1>8, <2>1 DEF Hold, Proc, Recalls
<1>9. ASSUME CreateOrder(r)
      PROVE  \E n \in {proc[r].tries, 0} :
               Recalls(r, proc[r].tpl, proc[r].base, proc[r].moves, n)
  <2>1. ASSUME NEW w, Becomes(r, [proc[r] EXCEPT !.at = "linking", !.copy.order = w])
        PROVE  Unaltered(r)
    BY <1>1, <1>2, <2>1 DEF Proc, Unaltered, Recalls
  <2>2. ASSUME Becomes(r, [Done(proc[r]) EXCEPT !.owed = TRUE,
                                                !.tries = IF proc[r].owed THEN @ ELSE 0])
        PROVE  Recalls(r, proc[r].tpl, proc[r].base, proc[r].moves,
                       IF proc[r].owed THEN proc[r].tries ELSE 0)
    BY <1>1, <1>2, <2>2 DEF Done, Proc, Recalls
  <2>3. Unaltered(r) \/ Recalls(r, proc[r].tpl, proc[r].base, proc[r].moves,
                                IF proc[r].owed THEN proc[r].tries ELSE 0)
    BY <1>9, <2>1, <2>2 DEF CreateOrder
  <2> QED
    BY <2>3 DEF Unaltered
<1>10. ASSUME HandleFeedback(r)
       PROVE  \/ Unaltered(r) /\ proc'[r].at = "judging"
              \/ /\ proc'[r].at = "adapting"
                 /\ \E id \in DOMAIN alerts :
                      Recalls(r, proc[r].tpl, proc[r].base, proc[r].moves \cup {id},
                              proc[r].tries)
  <2>1. PICK id \in DOMAIN alerts, verdict \in bound.verdicts : Feedback(r, id, verdict)
    BY <1>10 DEF HandleFeedback
  <2> DEFINE at == IF proc[r].known THEN "adapting" ELSE "judging"
             moves == IF proc[r].known THEN proc[r].moves \cup {id} ELSE proc[r].moves
  <2>2. PICK a : Becomes(r, [proc[r] EXCEPT !.at = at, !.moves = moves, !.id = id, !.copy = a])
    BY <2>1 DEF Feedback
  <2>3. ASSUME NEW s, NEW m, NEW c,
               Becomes(r, [proc[r] EXCEPT !.at = s, !.moves = m, !.id = id, !.copy = c])
        PROVE  proc'[r].at = s /\ Recalls(r, proc[r].tpl, proc[r].base, m, proc[r].tries)
    BY <1>1, <1>2, <2>3 DEF Proc, Recalls
  <2>4. proc'[r].at = at /\ Recalls(r, proc[r].tpl, proc[r].base, moves, proc[r].tries)
    <3> HIDE DEF at, moves
    <3> QED
      BY <2>2, <2>3, Zenon
  <2> QED
    BY <2>4 DEF Unaltered
<1>11. ASSUME Ends(r)
       PROVE  proc'[r].at = "down" /\ Recalls(r, NoTemplate, Unlearned, {}, 0)
  BY <1>2, <1>11 DEF Ends, Fresh, Recalls
<1> QED
  BY <1>3, <1>4, <1>5, <1>6, <1>7, <1>8, <1>9, <1>10, <1>11

LEMMA NextSnapshot == OneSnapshot /\ [Next]_vars => OneSnapshot'
<1>1. ASSUME Next PROVE snap' = snap \/ \E s : snap' = {s}
  BY <1>1, NextCases DEF Quiet, Start, CreateTableRaced, CheckMigration, LoadTemplates, Seed, Restore, Register, Learn,
     PutTemplate, Apply, Fire, Hold, Clear, HandleFeedback, Feedback, FindOrder, CreateOrder,
     Link, SaveCleared, SaveVerdict, Adapt, CancelOrder, VoidOrder,
         Ends, SaveAssetSnapshot, database
<1>2. UNCHANGED vars => snap' = snap
  BY DEF vars, database
<1> QED
  BY <1>1, <1>2 DEF OneSnapshot

-----------------------------------------------------------------------------
\* The types in full.
LEMMA BoundType ==
  ASSUME bound \in Scenarios
  PROVE  bound.alerts \in Nat /\ bound.exits \in Nat /\ bound.puts \in Nat /\ MaxRetry \in Nat
  BY ReplicasAssumption DEF Scenario

\* A sequence with distinct keys is no longer than there are keys.
LEMMA KeysBoundLength ==
  ASSUME NEW s \in Seq(CmmsOrder), NEW k \in Nat,
         \A n \in DOMAIN s : s[n].alert \in 1..k,
         \A n, m \in DOMAIN s : s[n].alert = s[m].alert => n = m
  PROVE  Len(s) <= k
<1> DEFINE f == [n \in 1..Len(s) |-> s[n].alert]
<1>1. DOMAIN s = 1..Len(s) /\ Len(s) \in Nat
  OBVIOUS
<1>2. f \in [1..Len(s) -> 1..k]
  BY <1>1
<1>3. \A n, m \in 1..Len(s) : f[n] = f[m] => n = m
  BY <1>1
<1>4. f \in Injection(1..Len(s), 1..k)
  BY <1>2, <1>3 DEF Injection, IsInjective
<1>5. 1 \in Int /\ k \in Int /\ Len(s) \in Int
  BY <1>1
<1>6. IsFiniteSet(1..k) /\ Cardinality(1..k) = IF 1 > k THEN 0 ELSE k - 1 + 1
  BY <1>5, FS_Interval, Zenon
<1>7. Cardinality(1..Len(s)) = IF 1 > Len(s) THEN 0 ELSE Len(s) - 1 + 1
  BY <1>5, FS_Interval, Zenon
<1>8. Cardinality(1..Len(s)) <= Cardinality(1..k)
  <2> HIDE DEF f
  <2> QED
    BY <1>4, <1>6, FS_Injection, Zenon
<1> QED
  BY <1>1, <1>6, <1>7, <1>8

\* The order that goes to the CMMS has the alert as its key, and a reference is
\* no larger than the number of alerts.
LEMMA CreateKeyed ==
  ASSUME IInv, Keyed, Numbered, NEW r \in Replicas, CreateOrder(r)
  PROVE  Keyed' /\ proc[r].id \in AlertIds /\ RefOf(r, proc[r].id) \in AlertIds
<1> DEFINE id == proc[r].id
           o == [alert |-> id, cancelled |-> FALSE]
<1>1. /\ proc[r] \in Proc /\ cmms \in [Replicas -> Seq(CmmsOrder)] /\ cmms[r] \in Seq(CmmsOrder)
      /\ bound' = bound /\ bound.alerts \in Nat /\ cmms' \in [Replicas -> Seq(CmmsOrder)]
  BY BoundType, CreateOrderEffect DEF IInv, Types
<1>2. id \in AlertIds
  <2>1. proc[r].at = "saving"
    BY DEF CreateOrder, At
  <2>2. id # None /\ id <= Len(alerts) /\ id \in Nat /\ Len(alerts) \in Nat
    BY <1>1, <2>1 DEF IInv, Episodes, Raising, Types, Proc
  <2> QED
    BY <1>1, <2>2 DEF Numbered, AlertIds, None
<1>3. CASE WithKey(r, id) # {}
  <2>1. cmms' = cmms
    BY <1>3 DEF CreateOrder, CreateInCmms
  <2>2. RefOf(r, id) \in DOMAIN cmms[r]
    BY <1>3 DEF RefOf, WithKey
  <2>3. Len(cmms[r]) <= bound.alerts
    BY <1>1, KeysBoundLength DEF Keyed, AlertIds
  <2>4. Keyed'
    BY <1>1, <2>1 DEF Keyed, AlertIds
  <2>5. RefOf(r, id) \in 1..Len(cmms[r]) /\ Len(cmms[r]) \in Nat
    BY <1>1, <2>2
  <2>6. RefOf(r, id) \in AlertIds
    <3> HIDE DEF id
    <3> QED
      BY <1>1, <2>3, <2>5 DEF AlertIds
  <2> QED
    BY <1>2, <2>4, <2>6
<1>4. CASE WithKey(r, id) = {}
  <2>1. cmms' = [cmms EXCEPT ![r] = Append(cmms[r], o)]
    BY <1>4 DEF CreateOrder, CreateInCmms
  <2>2. /\ cmms'[r] = Append(cmms[r], o)
        /\ \A q \in Replicas \ {r} : cmms'[q] = cmms[q]
    BY <1>1, <2>1
  <2>3. /\ DOMAIN cmms'[r] = 1..Len(cmms[r]) + 1 /\ Len(cmms'[r]) = Len(cmms[r]) + 1
        /\ cmms'[r][Len(cmms[r]) + 1].alert = id
        /\ \A n \in 1..Len(cmms[r]) : cmms'[r][n] = cmms[r][n]
    BY <1>1, <2>2
  <2>4. \A n \in 1..Len(cmms[r]) : cmms[r][n].alert \in AlertIds /\ cmms[r][n].alert # id
    BY <1>1, <1>4 DEF Keyed, WithKey
  <2>5. \A n \in DOMAIN cmms'[r] : cmms'[r][n].alert \in AlertIds
    BY <1>1, <1>2, <2>3, <2>4
  <2>6. \A n, m \in DOMAIN cmms'[r] : cmms'[r][n].alert = cmms'[r][m].alert => n = m
    <3>1. \A n, m \in 1..Len(cmms[r]) : cmms[r][n].alert = cmms[r][m].alert => n = m
      BY <1>1 DEF Keyed
    <3>2. \A n \in DOMAIN cmms'[r] : n \in 1..Len(cmms[r]) \/ n = Len(cmms[r]) + 1
      BY <1>1, <2>3
    <3> HIDE DEF id
    <3> QED
      BY <2>3, <2>4, <3>1, <3>2
  <2>7. Keyed'
    <3>1. AlertIds' = AlertIds
      BY <1>1 DEF AlertIds
    <3>2. ASSUME NEW q \in Replicas, NEW n \in DOMAIN cmms'[q], NEW m \in DOMAIN cmms'[q]
          PROVE  /\ cmms'[q][n].alert \in AlertIds
                 /\ cmms'[q][n].alert = cmms'[q][m].alert => n = m
      <4>1. CASE q = r
        BY <2>5, <2>6, <4>1
      <4>2. CASE q # r
        <5>1. cmms'[q] = cmms[q]
          BY <2>2, <4>2
        <5> QED
          BY <5>1 DEF Keyed
      <4> QED
        BY <4>1, <4>2
    <3> QED
      BY <3>1, <3>2 DEF Keyed
  <2>8. RefOf(r, id) = Len(cmms[r]) + 1
    BY <1>4 DEF RefOf
  <2>9. Len(cmms'[r]) <= bound.alerts
    <3>1. cmms'[r] \in Seq(CmmsOrder)
      BY <1>1
    <3>2. \A n \in DOMAIN cmms'[r] : cmms'[r][n].alert \in 1..bound.alerts
      BY <2>5 DEF AlertIds
    <3> QED
      BY <1>1, <2>6, <3>1, <3>2, KeysBoundLength
  <2>10. Len(cmms[r]) + 1 \in AlertIds
    BY <1>1, <2>3, <2>9 DEF AlertIds
  <2> QED
    BY <1>2, <2>7, <2>8, <2>10
<1> QED
  BY <1>3, <1>4

LEMMA NextKeyed == IInv /\ Keyed /\ Numbered /\ [Next]_vars => Keyed'
<1> SUFFICES ASSUME IInv, Keyed, Numbered, [Next]_vars PROVE Keyed'
  OBVIOUS
<1>1. cmms \in [Replicas -> Seq(CmmsOrder)]
  BY DEF IInv, Types
<1>2. ASSUME cmms' = cmms, bound' = bound PROVE Keyed'
  BY <1>2 DEF Keyed, AlertIds
<1>3. ASSUME NEW r \in Replicas, CancelOrder(r) PROVE Keyed'
  <2> DEFINE n == orders[proc[r].copy.order].ref
  <2>1. bound' = bound
    BY <1>3 DEF CancelOrder, history
  <2>2. CASE cmms' = cmms
    BY <1>2, <2>1, <2>2
  <2>3. CASE n \in DOMAIN cmms[r] /\ cmms' = [cmms EXCEPT ![r][n].cancelled = TRUE]
    <3>1. cmms[r] \in Seq(CmmsOrder) /\ cmms[r][n] \in CmmsOrder
      BY <1>1, <2>3
    <3>2. /\ cmms'[r] = [cmms[r] EXCEPT ![n] = [cmms[r][n] EXCEPT !.cancelled = TRUE]]
          /\ \A q \in Replicas \ {r} : cmms'[q] = cmms[q]
      BY <1>1, <2>3
    <3>3. [cmms[r][n] EXCEPT !.cancelled = TRUE].alert = cmms[r][n].alert
      BY <3>1 DEF CmmsOrder
    <3>4. DOMAIN cmms'[r] = DOMAIN cmms[r]
          /\ \A m \in DOMAIN cmms[r] : cmms'[r][m].alert = cmms[r][m].alert
      BY <3>1, <3>2, <3>3
    <3>5. \A q \in Replicas : DOMAIN cmms'[q] = DOMAIN cmms[q]
            /\ \A m \in DOMAIN cmms[q] : cmms'[q][m].alert = cmms[q][m].alert
      BY <3>2, <3>4
    <3>6. AlertIds' = AlertIds
      BY <2>1 DEF AlertIds
    <3> HIDE DEF n
    <3> QED
      BY <3>5, <3>6 DEF Keyed
  <2> QED
    BY <1>3, <2>2, <2>3 DEF CancelOrder, CancelsInCmms, GetWorkOrder
<1>4. ASSUME NEW r \in Replicas, Ends(r) PROVE Keyed'
  <2>1. cmms'[r] = <<>> /\ bound' = bound /\ \A q \in Replicas \ {r} : cmms'[q] = cmms[q]
    BY <1>1, <1>4 DEF Ends
  <2> QED
    BY <2>1 DEF Keyed, AlertIds
<1>5. CASE Next
  <2>1. PICK r \in Replicas :
           \/ Quiet(r) \/ Apply(r) \/ Fire(r)
           \/ Hold(r) \/ Clear(r) \/ HandleFeedback(r)
           \/ FindOrder(r) \/ CreateOrder(r)
           \/ Link(r) \/ SaveCleared(r) \/ SaveVerdict(r)
           \/ Adapt(r) \/ CancelOrder(r) \/ VoidOrder(r)
           \/ Ends(r)
    BY <1>5, NextCases
  <2>2. (cmms' = cmms /\ bound' = bound) \/ CreateOrder(r) \/ CancelOrder(r) \/ Ends(r)
    BY <2>1 DEF Quiet, Start, CreateTableRaced, CheckMigration, LoadTemplates, Seed, Restore, Register, Learn,
       PutTemplate, Apply, Fire, Hold, Clear, HandleFeedback, Feedback, FindOrder,
       Link, SaveCleared, SaveVerdict, Adapt, VoidOrder, history
  <2> QED
    BY <1>2, <1>3, <1>4, <2>2, CreateKeyed
<1>6. CASE UNCHANGED vars
  BY <1>2, <1>6 DEF vars, history
<1> QED
  BY <1>5, <1>6

-----------------------------------------------------------------------------
\* No alert, stored or in hand, names an order beyond those stored.
LEMMA NumberedKept ==
  ASSUME Types, Numbered, bound' = bound, NEW r \in Replicas,
         \A q \in Replicas \ {r} : proc'[q] = proc[q], proc'[r].copy.order <= Len(orders'),
         orders' \in Seq(Order), Len(orders) <= Len(orders'),
         \A w \in DOMAIN orders' : orders'[w].alert \in AlertIds /\ orders'[w].ref \in AlertIds,
         alerts' \in Seq(Alert), Len(alerts') <= bound.alerts,
         \A i \in DOMAIN alerts' : alerts'[i].order <= Len(orders)
  PROVE  Numbered'
<1>1. orders \in Seq(Order) /\ Len(orders) \in Nat /\ Len(orders') \in Nat
  BY DEF Types
<1>2. AlertIds' = AlertIds
  BY DEF AlertIds
<1>3. ASSUME NEW q \in Replicas PROVE proc'[q].copy.order <= Len(orders')
  <2>1. CASE q = r
    BY <2>1
  <2>2. CASE q # r
    <3>1. proc'[q] = proc[q] /\ proc[q].copy.order \in Nat
      BY <2>2 DEF Types, Proc, Alert
    <3>2. proc[q].copy.order <= Len(orders)
      BY DEF Numbered
    <3> QED
      BY <1>1, <1>2, <3>1, <3>2
  <2> QED
    BY <2>1, <2>2
<1>4. ASSUME NEW i \in DOMAIN alerts'
      PROVE  alerts'[i].order <= Len(orders')
  <2>1. alerts'[i] \in Alert
    OBVIOUS
  <2>2. alerts'[i].order \in Nat
    BY <2>1 DEF Alert
  <2> QED
    BY <1>1, <2>2
<1>5. Len(alerts') <= bound'.alerts
  OBVIOUS
<1> QED
  BY <1>1, <1>2, <1>3, <1>4, <1>5 DEF Numbered

LEMMA NextNumbered == IInv /\ Keyed /\ Numbered /\ [Next]_vars => Numbered'
<1> SUFFICES ASSUME IInv, Keyed, Numbered, [Next]_vars PROVE Numbered'
  OBVIOUS
<1>1. /\ Types /\ Episodes /\ proc \in [Replicas -> Proc] /\ orders \in Seq(Order)
      /\ alerts \in Seq(Alert) /\ Len(alerts) <= bound.alerts
      /\ \A i \in DOMAIN alerts : alerts[i].order <= Len(orders)
      /\ \A r \in Replicas : proc[r].copy.order <= Len(orders)
      /\ \A w \in DOMAIN orders : orders[w].alert \in AlertIds /\ orders[w].ref \in AlertIds
  BY DEF IInv, Types, Numbered
<1>2. NewAlert.order = 0 /\ 0 <= Len(orders) /\ Len(orders) \in Nat
  BY <1>1, NewAlertType DEF None
\* An order is not created, and the alert in hand names one that is stored.
<1>3. ASSUME NEW r \in Replicas, UNCHANGED <<bound, alerts, orders>>,
             NEW at, NEW open, NEW owed, NEW id, NEW copy, Effect(r, at, open, owed, id, copy),
             copy.order <= Len(orders)
      PROVE  Numbered'
  BY <1>1, <1>3, NumberedKept DEF Effect
<1>4. ASSUME NEW r \in Replicas,
             Quiet(r)
      PROVE  Numbered'
  BY <1>1, <1>3, <1>4, QuietEffect
<1>5. ASSUME NEW r \in Replicas, Apply(r) PROVE Numbered'
  BY <1>1, <1>3, <1>5, ApplyEffect
<1>6. ASSUME NEW r \in Replicas, Fire(r) PROVE Numbered'
  <2>1. /\ Effect(r, "finding", Len(alerts) + 1, proc[r].owed, Len(alerts) + 1, proc[r].copy)
        /\ alerts' = Append(alerts, NewAlert) /\ UNCHANGED <<bound, orders>>
    BY <1>1, <1>6, FireEffect
  <2>2. alerts' \in Seq(Alert) /\ Len(alerts') <= bound.alerts
    <3>1. bound.alerts \in Nat /\ Len(alerts) < bound.alerts
      BY <1>1, <1>6, BoundType DEF Fire, Types
    <3> QED
      BY <1>1, <2>1, <3>1, NewAlertType
  <2>3. \A i \in DOMAIN alerts' :
          alerts'[i] = NewAlert \/ (i \in DOMAIN alerts /\ alerts'[i] = alerts[i])
    <3>1. /\ DOMAIN alerts' = 1..Len(alerts) + 1 /\ Len(alerts) \in Nat
          /\ DOMAIN alerts = 1..Len(alerts) /\ alerts'[Len(alerts) + 1] = NewAlert
          /\ \A i \in 1..Len(alerts) : alerts'[i] = alerts[i]
      BY <1>1, <2>1, NewAlertType
    <3> QED
      BY <3>1
  <2>4. \A i \in DOMAIN alerts' : alerts'[i].order <= Len(orders)
    BY <1>1, <1>2, <2>3
  <2> QED
    BY <1>1, <2>1, <2>2, <2>4, NumberedKept DEF Effect
<1>7. ASSUME NEW r \in Replicas, Hold(r) \/ Clear(r) PROVE Numbered'
  <2>1. proc[r].open \in DOMAIN alerts
    <3>1. proc[r].open \in Nat /\ proc[r].open # 0 /\ proc[r].open <= Len(alerts)
      BY <1>1, <1>7 DEF Hold, Clear, None, Types, Proc
    <3> QED
      BY <1>1, <3>1
  <2>2. CASE Hold(r)
    <3>1. /\ Effect(r, "finding", proc[r].open, proc[r].owed, proc[r].open, alerts[proc[r].open])
          /\ UNCHANGED <<bound, alerts, orders>>
      BY <1>1, <2>2, HoldEffect
    <3> QED
      BY <1>1, <1>3, <2>1, <3>1
  <2>3. CASE Clear(r)
    <3>1. UNCHANGED <<bound, alerts, orders>>
      BY <1>1, <2>3, ClearEffect
    <3>2. PICK copy : /\ copy.order = alerts[proc[r].open].order
                      /\ Effect(r, "clearing", proc[r].open, FALSE, proc[r].open, copy)
      BY <1>1, <2>3, ClearEffect
    <3> QED
      BY <1>1, <1>3, <2>1, <3>1, <3>2
  <2> QED
    BY <1>7, <2>2, <2>3
<1>8. ASSUME NEW r \in Replicas, HandleFeedback(r) PROVE Numbered'
  <2>1. UNCHANGED <<bound, alerts, orders>>
    BY <1>1, <1>8, FeedbackEffect
  <2>2. PICK id \in DOMAIN alerts, at \in {"adapting", "judging"}, copy \in Alert :
             /\ copy.order = alerts[id].order
             /\ Effect(r, at, proc[r].open, proc[r].owed, id, copy)
    BY <1>1, <1>8, FeedbackEffect
  <2> QED
    BY <1>1, <1>3, <2>1, <2>2
<1>9. ASSUME NEW r \in Replicas, FindOrder(r) PROVE Numbered'
  <2>1. UNCHANGED <<bound, alerts, orders>>
    BY <1>1, <1>9, FindOrderEffect
  <2>2. \A q \in Replicas \ {r} : proc'[q] = proc[q]
    BY <1>1, <1>9, FindOrderEffect DEF Effect
  <2>3. proc[r] \in Proc /\ \A p : Becomes(r, p) => proc'[r] = p
    BY <1>1 DEF Becomes
  <2>4. Goes(r, "saving") => proc'[r].copy.order <= Len(orders)
    BY <1>1, <2>3 DEF Goes, Proc
  <2>5. ASSUME NEW w \in OpenOrders,
               Becomes(r, [proc[r] EXCEPT !.at = "linking", !.copy.order = w])
        PROVE  proc'[r].copy.order <= Len(orders)
    <3>1. w \in DOMAIN orders
      BY DEF OpenOrders
    <3>2. proc'[r].copy.order = w
      <4>1. [proc[r].copy EXCEPT !.order = w].order = w
        BY <2>3 DEF Proc, Alert
      <4>2. [proc[r] EXCEPT !.at = "linking", !.copy.order = w].copy
              = [proc[r].copy EXCEPT !.order = w]
        BY <2>3 DEF Proc
      <4> QED
        BY <2>3, <2>5, <4>1, <4>2
    <3> QED
      BY <1>1, <3>1, <3>2
  <2>6. Becomes(r, [Done(proc[r]) EXCEPT !.owed = FALSE]) =>
          proc'[r].copy.order <= Len(orders)
    BY <1>2, <2>3 DEF Done, Proc
  <2>7. proc'[r].copy.order <= Len(orders)
    BY <1>9, <2>4, <2>5, <2>6 DEF FindOrder
  <2> QED
    BY <1>1, <2>1, <2>2, <2>7, NumberedKept
<1>10. ASSUME NEW r \in Replicas, CreateOrder(r) PROVE Numbered'
  <2> DEFINE o == [alert |-> proc[r].id, status |-> "open", ref |-> RefOf(r, proc[r].id)]
  <2>1. UNCHANGED <<bound, alerts>> /\ \A q \in Replicas \ {r} : proc'[q] = proc[q]
    BY <1>1, <1>10, CreateOrderEffect DEF Effect
  <2>2. proc[r] \in Proc /\ \A p : Becomes(r, p) => proc'[r] = p
    BY <1>1 DEF Becomes
  <2>3. o.alert \in AlertIds /\ o.ref \in AlertIds /\ o \in Order
    <3>1. proc[r].id \in AlertIds /\ RefOf(r, proc[r].id) \in AlertIds /\ AlertIds \subseteq Nat
      BY <1>10, CreateKeyed DEF AlertIds
    <3> QED
      BY <3>1 DEF Order
  <2>4. CASE Inserts(o)
    <3>1. /\ orders' = Append(orders, o)
          /\ Becomes(r, [proc[r] EXCEPT !.at = "linking", !.copy.order = Len(orders')])
      BY <1>10, <2>4 DEF CreateOrder
    <3>2. proc'[r].copy.order = Len(orders')
      <4>1. \A n : [proc[r].copy EXCEPT !.order = n].order = n
        BY <2>2 DEF Proc, Alert
      <4>2. \A n : [proc[r] EXCEPT !.at = "linking", !.copy.order = n].copy
                    = [proc[r].copy EXCEPT !.order = n]
        BY <2>2 DEF Proc
      <4> QED
        BY <2>2, <3>1, <4>1, <4>2
    <3>3. proc'[r].copy.order <= Len(orders')
      BY <1>1, <2>3, <3>1, <3>2
    <3>4. /\ Len(orders') = Len(orders) + 1 /\ DOMAIN orders' = 1..Len(orders) + 1
          /\ orders'[Len(orders) + 1] = o /\ orders' \in Seq(Order)
          /\ \A w \in 1..Len(orders) : orders'[w] = orders[w]
      BY <1>1, <2>3, <3>1
    <3>5. \A w \in DOMAIN orders' : w \in 1..Len(orders) \/ w = Len(orders) + 1
      BY <1>2, <3>4
    <3> HIDE DEF o
    <3>6. \A w \in DOMAIN orders' :
            orders'[w].alert \in AlertIds /\ orders'[w].ref \in AlertIds
      BY <1>1, <2>3, <3>4, <3>5
    <3>7. Len(orders) <= Len(orders')
      BY <1>2, <3>4
    <3> QED
      BY <1>1, <2>1, <3>3, <3>4, <3>6, <3>7, NumberedKept
  <2>5. CASE ~ Inserts(o)
    <3>1. /\ orders' = orders
          /\ Becomes(r, [Done(proc[r]) EXCEPT !.owed = TRUE,
                                              !.tries = IF proc[r].owed THEN @ ELSE 0])
      BY <1>10, <2>5 DEF CreateOrder
    <3>2. proc'[r].copy = NewAlert
      <4>1. PICK n : Becomes(r, [Done(proc[r]) EXCEPT !.owed = TRUE, !.tries = n])
        BY <2>2, <3>1 DEF Done, Proc
      <4> QED
        BY <2>2, <4>1 DEF Done, Proc
    <3> QED
      BY <1>1, <1>2, <2>1, <3>1, <3>2, NumberedKept
  <2> QED
    BY <2>4, <2>5
<1>11. ASSUME NEW r \in Replicas, Link(r) \/ SaveCleared(r) \/ SaveVerdict(r) PROVE Numbered'
  <2>1. Saved(r) /\ UNCHANGED <<bound, orders>>
    BY <1>1, <1>11, SaveEffect
  <2>2. /\ \A q \in Replicas \ {r} : proc'[q] = proc[q]
        /\ proc'[r].copy = NewAlert
    BY <1>1, <1>11, SaveEffect DEF Effect
  <2>3. proc[r].id \in DOMAIN alerts /\ proc[r].copy \in Alert
    <3>1. proc[r].id \in Nat /\ proc[r].id # 0 /\ proc[r].id <= Len(alerts)
      BY <1>1, <2>1 DEF Saved, None, Types, Proc
    <3> QED
      BY <1>1, <3>1 DEF Proc
  <2>4. /\ alerts' = [alerts EXCEPT ![proc[r].id] = proc[r].copy]
        /\ alerts' \in Seq(Alert) /\ Len(alerts') = Len(alerts)
    BY <1>1, <2>1, <2>3, ReplaceType DEF Saved
  <2>5. \A i \in DOMAIN alerts' : alerts'[i].order <= Len(orders)
    BY <1>1, <2>4
  <2>6. Len(alerts') <= bound.alerts /\ proc'[r].copy.order <= Len(orders')
    BY <1>1, <1>2, <2>1, <2>2, <2>4
  <2> QED
    BY <1>1, <2>1, <2>2, <2>4, <2>5, <2>6, NumberedKept
<1>12. ASSUME NEW r \in Replicas, Adapt(r) PROVE Numbered'
  BY <1>1, <1>3, <1>12, AdaptEffect
<1>13. ASSUME NEW r \in Replicas, Ends(r) PROVE Numbered'
  <2>1. /\ Effect(r, "down", None, FALSE, None, NewAlert)
        /\ UNCHANGED <<bound, alerts, orders>>
    BY <1>1, <1>13, EndsEffect
  <2> QED
    BY <1>2, <1>3, <2>1
<1>14. ASSUME NEW r \in Replicas, CancelOrder(r) PROVE Numbered'
  BY <1>1, <1>3, <1>14, CancelOrderEffect
<1>16. ASSUME NEW r \in Replicas, VoidOrder(r) PROVE Numbered'
  <2> DEFINE w == proc[r].copy.order
  <2>1. /\ Effect(r, "judging", proc[r].open, proc[r].owed, proc[r].id, proc[r].copy)
        /\ UNCHANGED <<bound, alerts>> /\ orders' \in Seq(Order)
    BY <1>1, <1>16, VoidOrderEffect
  <2>2. orders' = [orders EXCEPT ![w].status = "cancelled"]
    BY <1>16 DEF VoidOrder
  <2>3. DOMAIN orders' = DOMAIN orders /\ Len(orders') = Len(orders)
    BY <1>1, <2>1, <2>2
  <2>4. \A v \in DOMAIN orders :
          orders'[v].alert = orders[v].alert /\ orders'[v].ref = orders[v].ref
    <3> SUFFICES ASSUME NEW v \in DOMAIN orders
                 PROVE  orders'[v].alert = orders[v].alert /\ orders'[v].ref = orders[v].ref
      OBVIOUS
    <3>1. orders[v] \in Order
      BY <1>1
    <3>2. orders'[v] = orders[v] \/ orders'[v] = [orders[v] EXCEPT !.status = "cancelled"]
      BY <1>1, <2>2
    <3> QED
      BY <3>1, <3>2 DEF Order
  <2>5. \A v \in DOMAIN orders' :
          orders'[v].alert \in AlertIds /\ orders'[v].ref \in AlertIds
    BY <1>1, <2>3, <2>4
  <2>6. proc'[r].copy.order <= Len(orders') /\ Len(orders) <= Len(orders')
    BY <1>1, <1>2, <2>1, <2>3 DEF Effect
  <2> QED
    BY <1>1, <2>1, <2>5, <2>6, NumberedKept DEF Effect
<1>15. CASE UNCHANGED vars
  <2>1. UNCHANGED <<bound, alerts, orders, proc>>
    BY <1>15 DEF vars, database, history
  <2> QED
    BY <2>1 DEF Numbered, AlertIds
<1> QED
  BY <1>4, <1>5, <1>6, <1>7, <1>8, <1>9, <1>10, <1>11, <1>12, <1>13, <1>14, <1>15, <1>16, NextCases

-----------------------------------------------------------------------------
\* The retries, the moves of thresholds and the bounded counters.
LEMMA LimitedKept ==
  ASSUME Types, Limited, bound' = bound, NEW r \in Replicas,
         \A q \in Replicas \ {r} : proc'[q] = proc[q],
         proc'[r].moves \subseteq AlertIds, proc'[r].tries <= MaxRetry,
         \A s \in snap' : s.moves \subseteq AlertIds,
         exits' \in 0..bound.exits, puts' \in 0..bound.puts, stale' \subseteq Replicas
  PROVE  Limited'
<1>1. AlertIds' = AlertIds
  BY DEF AlertIds
<1>2. \A q \in Replicas : proc'[q].moves \subseteq AlertIds /\ proc'[q].tries <= MaxRetry
  BY DEF Limited
<1> QED
  BY <1>1, <1>2 DEF Limited

LEMMA NextLimited == IInv /\ Numbered /\ Limited /\ [Next]_vars => Limited'
<1> SUFFICES ASSUME IInv, Numbered, Limited, [Next]_vars PROVE Limited'
  OBVIOUS
<1>1. /\ Types /\ proc \in [Replicas -> Proc] /\ MaxRetry \in Nat /\ bound.exits \in Nat
      /\ bound.puts \in Nat /\ bound.alerts \in Nat /\ alerts \in Seq(Alert)
  BY BoundType DEF IInv, Types
<1>2. /\ \A s \in snap : s.moves \subseteq AlertIds
      /\ \A r \in Replicas : proc[r].moves \subseteq AlertIds /\ proc[r].tries <= MaxRetry
      /\ exits \in 0..bound.exits /\ puts \in 0..bound.puts /\ stale \subseteq Replicas
  BY DEF Limited
<1>3. \A id \in DOMAIN alerts : id \in AlertIds
  BY <1>1 DEF Numbered, AlertIds
<1>4. ASSUME Next PROVE Limited'
  <2>1. PICK r \in Replicas :
           \/ Quiet(r) \/ Apply(r) \/ Fire(r)
           \/ Hold(r) \/ Clear(r) \/ HandleFeedback(r)
           \/ FindOrder(r) \/ CreateOrder(r)
           \/ Link(r) \/ SaveCleared(r) \/ SaveVerdict(r)
           \/ Adapt(r) \/ CancelOrder(r) \/ VoidOrder(r)
           \/ Ends(r)
    BY <1>4, NextCases
  <2>2. bound' = bound /\ \A q \in Replicas \ {r} : proc'[q] = proc[q]
    <3>1. \A p : Becomes(r, p) => \A q \in Replicas \ {r} : proc'[q] = proc[q]
      BY <1>1 DEF Becomes
    <3>2. \E p : Becomes(r, p)
      BY <2>1 DEF Goes, Quiet, Start, CreateTableRaced, CheckMigration, LoadTemplates, Seed, Restore, Register, Learn,
         PutTemplate, Apply, Fire, Hold, Clear, HandleFeedback, Feedback, FindOrder,
         CreateOrder, Link, SaveCleared, SaveVerdict, Adapt, CancelOrder, VoidOrder,
         Ends
    <3>3. bound' = bound
      BY <2>1 DEF Quiet, Start, CreateTableRaced, CheckMigration, LoadTemplates, Seed, Restore, Register, Learn,
         PutTemplate, Apply, Fire, Hold, Clear, HandleFeedback, Feedback, FindOrder,
         CreateOrder, Link, SaveCleared, SaveVerdict, Adapt, CancelOrder, VoidOrder,
         Ends, history
    <3> QED
      BY <3>1, <3>2, <3>3
  <2>3. exits' \in 0..bound.exits /\ puts' \in 0..bound.puts
    <3>1. UNCHANGED <<exits, puts>> \/ (\E t \in Templates : PutTemplate(r, t)) \/ Ends(r)
      BY <2>1 DEF Quiet, Start, CreateTableRaced, CheckMigration, LoadTemplates, Seed, Restore, Register, Learn,
         Apply, Fire, Hold, Clear, HandleFeedback, Feedback, FindOrder,
         CreateOrder, Link, SaveCleared, SaveVerdict, Adapt, CancelOrder, VoidOrder,
         history
    <3>2. (\E t \in Templates : PutTemplate(r, t)) => exits' = exits /\ puts' = puts + 1 /\ puts < bound.puts
      BY DEF PutTemplate
    <3>3. Ends(r) => puts' = puts /\ exits' = exits + 1 /\ exits < bound.exits
      BY DEF Ends
    <3> QED
      BY <1>1, <1>2, <3>1, <3>2, <3>3
  <2>6. stale' \subseteq Replicas
    <3>1. \/ stale' = stale \/ stale' = stale \ {r}
          \/ \E q \in SUBSET Replicas : stale' = stale \cup q
      BY <2>1 DEF Goes, Quiet, Start, CreateTableRaced, CheckMigration, LoadTemplates, Seed,
         Restore, Register, Learn, PutTemplate, Apply, Fire, Hold, Clear, HandleFeedback,
         Feedback, FindOrder, CreateOrder, Link, SaveCleared, SaveVerdict, Adapt, CancelOrder,
         VoidOrder, Ends, SaveAssetSnapshot, history, updates
    <3> QED
      BY <1>2, <3>1
  <2>4. proc'[r].moves \subseteq AlertIds /\ proc'[r].tries <= MaxRetry
    <3>1. CASE \/ Start(r) \/ CreateTableRaced(r) \/ CheckMigration(r) \/ Apply(r) \/ Register(r)
               \/ Fire(r) \/ Clear(r) \/ FindOrder(r) \/ Link(r) \/ SaveCleared(r)
               \/ Adapt(r) \/ CancelOrder(r) \/ VoidOrder(r) \/ SaveVerdict(r)
      BY <1>1, <1>2, <3>1, UnalteredCases DEF Unaltered, Recalls
    <3>2. CASE LoadTemplates(r) \/ Seed(r) \/ Learn(r) \/ \E t \in Templates : PutTemplate(r, t)
      <4>1. proc'[r].moves = proc[r].moves /\ proc'[r].tries = proc[r].tries
        <5>1. CASE LoadTemplates(r)
          BY <1>1, <5>1, AlteredCases DEF Unaltered, Recalls
        <5>2. CASE Seed(r)
          BY <1>1, <5>2, AlteredCases DEF Recalls
        <5>3. CASE Learn(r)
          BY <1>1, <5>3, AlteredCases DEF Recalls
        <5>4. CASE \E t \in Templates : PutTemplate(r, t)
          BY <1>1, <5>4, AlteredCases DEF Recalls
        <5> QED
          BY <3>2, <5>1, <5>2, <5>3, <5>4
      <4> QED
        BY <1>2, <4>1
    <3>3. CASE Restore(r)
      BY <1>1, <1>2, <3>3, AlteredCases DEF Unaltered, Recalls
    <3>4. CASE Hold(r)
      <4>1. proc[r].tries < MaxRetry /\ proc'[r].tries = proc[r].tries + 1
            /\ proc'[r].moves = proc[r].moves /\ proc[r].tries \in Nat
        BY <1>1, <3>4, AlteredCases DEF Recalls, Proc
      <4> QED
        BY <1>1, <1>2, <4>1
    <3>5. CASE CreateOrder(r)
      <4>1. proc'[r].tries \in {proc[r].tries, 0} /\ proc'[r].moves = proc[r].moves
        BY <1>1, <3>5, AlteredCases DEF Recalls
      <4> QED
        BY <1>1, <1>2, <4>1
    <3>6. CASE HandleFeedback(r)
      <4>1. /\ proc'[r].tries = proc[r].tries
            /\ \/ proc'[r].moves = proc[r].moves
               \/ \E id \in DOMAIN alerts : proc'[r].moves = proc[r].moves \cup {id}
        BY <1>1, <3>6, AlteredCases DEF Unaltered, Recalls
      <4> QED
        BY <1>1, <1>2, <1>3, <4>1
    <3>7. CASE Ends(r)
      <4>1. proc'[r].moves = {} /\ proc'[r].tries = 0
        BY <1>1, <3>7, AlteredCases DEF Recalls
      <4> QED
        BY <1>1, <4>1
    <3> QED
      BY <2>1, <3>1, <3>2, <3>3, <3>4, <3>5, <3>6, <3>7 DEF Quiet
  <2>5. \A s \in snap' : s.moves \subseteq AlertIds
    <3>1. snap' = snap \/ Learn(r) \/ Adapt(r)
      BY <2>1 DEF Quiet, Start, CreateTableRaced, CheckMigration, LoadTemplates, Seed, Restore, Register,
         PutTemplate, Apply, Fire, Hold, Clear, HandleFeedback, Feedback, FindOrder,
         CreateOrder, Link, SaveCleared, SaveVerdict, CancelOrder,
         VoidOrder, Ends, database
    <3>2. Learn(r) => snap' = {[base |-> Fitted(Recipe[proc[r].tpl]), moves |-> proc[r].moves]}
      BY <1>1, AlteredCases
    <3>3. Adapt(r) => snap' = {[base |-> proc[r].base, moves |-> proc[r].moves]}
      BY DEF Adapt, SaveAssetSnapshot, Snapshot
    <3> QED
      BY <1>2, <3>1, <3>2, <3>3
  <2> QED
    BY <1>1, <2>2, <2>3, <2>4, <2>5, <2>6, LimitedKept
<1>5. CASE UNCHANGED vars
  <2>1. UNCHANGED <<bound, snap, proc, exits, puts, stale>>
    BY <1>5 DEF vars, database, history, updates
  <2> QED
    BY <2>1 DEF Limited, AlertIds
<1> QED
  BY <1>4, <1>5

\* A sequence is of what its elements are of.
LEMMA ElementsType ==
  ASSUME NEW S, NEW T, NEW s \in Seq(S), \A i \in 1..Len(s) : s[i] \in T
  PROVE  s \in Seq(T)
  OBVIOUS

LEMMA InitBounded == Init => Bounded
<1> SUFFICES ASSUME Init PROVE Bounded
  OBVIOUS
<1>1. bound.alerts \in Nat /\ bound.exits \in Nat /\ bound.puts \in Nat /\ MaxRetry \in Nat
  BY BoundType DEF Init
<1>2. \A r \in Replicas : /\ proc[r].moves = {} /\ proc[r].tries = 0 /\ proc[r].copy = NewAlert
                          /\ cmms[r] = <<>>
  BY DEF Init, Fresh
<1>3. snap = {} /\ alerts = <<>> /\ orders = <<>> /\ exits = 0 /\ puts = 0 /\ stale = {}
  BY DEF Init
<1>4. OneSnapshot /\ Keyed
  BY <1>2, <1>3 DEF OneSnapshot, Keyed
<1>5. Numbered
  BY <1>1, <1>2, <1>3, NewAlertType DEF Numbered, None
<1>6. Limited
  BY <1>1, <1>2, <1>3 DEF Limited
<1> QED
  BY <1>4, <1>5, <1>6 DEF Bounded

\* Everything a process or the database refers to is of the store: alerts, orders,
\* the references of a CMMS, of which there are no more than alerts, and retries
\* that end with WORKORDER_RETRIES.
THEOREM TypeCorrect == Spec => []TypeOK
<1>1. Init => IInv /\ Bounded
  BY InitInv, InitBounded
<1>2. IInv /\ Bounded /\ [Next]_vars => (IInv /\ Bounded)'
  BY NextInv, NextSnapshot, NextKeyed, NextNumbered, NextLimited DEF Bounded
<1>3. IInv /\ Bounded => TypeOK
  <2> SUFFICES ASSUME IInv, Bounded PROVE TypeOK
    OBVIOUS
  <2>1. Types /\ OneSnapshot /\ Keyed /\ Numbered /\ Limited /\ bound.alerts \in Nat
    BY BoundType DEF IInv, Types, Bounded
  <2>2. snap \subseteq [base : Base, moves : SUBSET AlertIds]
    <3>1. \A s \in snap : s \in [base : Base, moves : SUBSET Nat]
          /\ s.moves \subseteq AlertIds
      BY <2>1 DEF Types, Kept, Limited
    <3>2. \A s \in snap : s = [base |-> s.base, moves |-> s.moves]
      BY <3>1
    <3> QED
      BY <3>1, <3>2
  <2>3. Cardinality(snap) <= 1
    <3>1. CASE snap = {}
      BY <3>1, FS_EmptySet
    <3>2. CASE snap # {}
      <4>1. PICK s \in snap : TRUE
        BY <3>2
      <4>2. snap = {s}
        BY <2>1, <4>1 DEF OneSnapshot
      <4>3. Cardinality({s}) = 1
        BY FS_Singleton, Zenon
      <4> QED
        BY <4>2, <4>3
    <3> QED
      BY <3>1, <3>2
  <2>4. alerts \in Seq([status : {"open", "confirmed", "dismissed"}, order : 0..Len(orders),
                        cleared : BOOLEAN])
    <3>1. alerts \in Seq(Alert) /\ orders \in Seq(Order)
      BY <2>1 DEF Types
    <3>2. \A i \in 1..Len(alerts) : alerts[i] \in Alert /\ alerts[i].order \in 0..Len(orders)
      <4> SUFFICES ASSUME NEW i \in 1..Len(alerts)
                   PROVE  alerts[i] \in Alert /\ alerts[i].order \in 0..Len(orders)
        OBVIOUS
      <4>1. alerts[i] \in Alert /\ i \in DOMAIN alerts /\ Len(orders) \in Nat
        BY <3>1
      <4>2. alerts[i].order \in Nat /\ alerts[i].order <= Len(orders)
        BY <2>1, <4>1 DEF Numbered, Alert
      <4> QED
        BY <4>1, <4>2
    <3>3. \A i \in 1..Len(alerts) :
            alerts[i] \in [status : {"open", "confirmed", "dismissed"}, order : 0..Len(orders),
                           cleared : BOOLEAN]
      BY <3>2 DEF Alert
    <3> QED
      BY <3>1, <3>3, ElementsType
  <2>5. orders \in Seq([alert : AlertIds, status : {"open", "cancelled"}, ref : AlertIds])
    <3>1. orders \in Seq(Order)
      BY <2>1 DEF Types
    <3>2. \A w \in 1..Len(orders) :
            /\ orders[w] \in Order
            /\ orders[w].alert \in AlertIds /\ orders[w].ref \in AlertIds
      BY <2>1, <3>1 DEF Numbered
    <3>3. \A w \in 1..Len(orders) :
            orders[w] \in [alert : AlertIds, status : {"open", "cancelled"}, ref : AlertIds]
      BY <3>2 DEF Order
    <3> QED
      BY <3>1, <3>3, ElementsType
  <2>6. ASSUME NEW r \in Replicas
        PROVE  /\ proc[r].open \in 0..bound.alerts /\ proc[r].id \in 0..bound.alerts
               /\ proc[r].tries \in 0..MaxRetry /\ proc[r].moves \subseteq AlertIds
               /\ proc[r].copy.order \in 0..Len(orders) /\ proc[r].base \in Base
    <3>1. /\ proc[r].open \in Nat /\ proc[r].id \in Nat /\ proc[r].tries \in Nat
          /\ proc[r].copy.order \in Nat /\ proc[r].base \in Base
      BY <2>1 DEF Types, Proc, Alert
    <3>2. /\ proc[r].open <= Len(alerts) /\ proc[r].id <= Len(alerts)
          /\ Len(alerts) \in Nat /\ Len(orders) \in Nat /\ MaxRetry \in Nat
      BY <2>1, ReplicasAssumption DEF Types
    <3>3. /\ Len(alerts) <= bound.alerts /\ proc[r].tries <= MaxRetry
          /\ proc[r].moves \subseteq AlertIds /\ proc[r].copy.order <= Len(orders)
      BY <2>1 DEF Numbered, Limited
    <3> QED
      BY <2>1, <3>1, <3>2, <3>3
  <2>7. cmms \in [Replicas -> Seq([alert : AlertIds, cancelled : BOOLEAN])]
    <3>1. cmms \in [Replicas -> Seq(CmmsOrder)]
      BY <2>1 DEF Types
    <3>2. ASSUME NEW r \in Replicas
          PROVE  cmms[r] \in Seq([alert : AlertIds, cancelled : BOOLEAN])
      <4>1. cmms[r] \in Seq(CmmsOrder)
        BY <3>1
      <4>2. \A n \in 1..Len(cmms[r]) : cmms[r][n] \in CmmsOrder /\ cmms[r][n].alert \in AlertIds
        BY <2>1, <4>1 DEF Keyed
      <4>3. \A n \in 1..Len(cmms[r]) : cmms[r][n] \in [alert : AlertIds, cancelled : BOOLEAN]
        BY <4>2 DEF CmmsOrder
      <4> QED
        BY <4>1, <4>3, ElementsType
    <3> QED
      BY <3>1, <3>2
  <2>8. /\ bound \in Scenarios /\ schema \in Nat /\ tpl \in Templates \cup {NoTemplate}
        /\ exits \in 0..bound.exits /\ puts \in 0..bound.puts /\ stale \subseteq Replicas
    BY <2>1 DEF Types, Kept, Limited
  <2> QED
    BY <2>2, <2>3, <2>4, <2>5, <2>6, <2>7, <2>8 DEF TypeOK
<1> QED
  BY <1>1, <1>2, <1>3, PTL DEF Spec

-----------------------------------------------------------------------------
\* What was promised is stored, as long as only what is stored is written back.
\* The steps of a process that has its snapshots.
Ready == Steps \ (Early \cup {"restoring"})

Promises ==
  /\ promised = [tpl |-> promised.tpl, learned |-> promised.learned, moves |-> promised.moves]
  /\ promised.tpl # NoTemplate => tpl = promised.tpl
  /\ tpl \in {NoTemplate, Builtin} \/ tpl = promised.tpl
  /\ promised.learned # {} =>
       /\ tpl \in Templates /\ promised.learned \subseteq Recipe[tpl]
       /\ \E s \in snap : promised.learned \subseteq s.base.own
  /\ promised.moves # {} => \E s \in snap : promised.moves \subseteq s.moves

\* A process, up to date or not, has moved no threshold by more than is stored, but
\* for the verdict it is at.
Backed(p, stored) ==
  /\ p.at \notin Ready => p.moves = {}
  /\ p.at \in Ready \ {"adapting"} /\ p.moves # {} => \E s \in stored : p.moves \subseteq s.moves

\* A process whose template t and snapshots nobody has replaced: it goes by them.
Current(p, t, stored, made) ==
  /\ p.at = "seeding" => made.tpl = NoTemplate
  /\ p.at \notin Early => p.tpl = t
  /\ p.at \notin Ready => p.base = Unlearned
  /\ p.at \in Ready =>
       /\ made.learned \subseteq p.base.own
       /\ \A s \in stored : p.base.own \subseteq s.base.own /\ s.moves \subseteq p.moves
       /\ stored = {} => p.base.own = {}
  /\ p.at \in Ready \ {"adapting"} =>
       /\ \A s \in stored : s.moves = p.moves
       /\ stored = {} => p.moves = {}

Safe == ~ clobbered =>
  /\ Promises
  /\ \A r \in Replicas : Backed(proc[r], snap)
  /\ \A r \in Replicas \ stale : Current(proc[r], tpl, snap, promised)

\* A merge keeps what is learned of the features that a template has, and adds none.
LEMMA MergedOwn ==
  ASSUME NEW b \in Base, NEW names
  PROVE  Merged(b, names).own = b.own \cap names
<1>1. CASE (b.own \cup b.lent) \cap names = {}
  BY <1>1 DEF Merged, Unlearned
<1>2. CASE (b.own \cup b.lent) \cap names # {}
  BY <1>2 DEF Merged
<1> QED
  BY <1>1, <1>2

\* A step that stores and promises nothing: what it leaves of its process is all
\* there is to show.
LEMMA SafeKept ==
  ASSUME Safe, NEW r \in Replicas, \A q \in Replicas \ {r} : proc'[q] = proc[q],
         UNCHANGED <<tpl, snap, clobbered, promised>>, stale \subseteq stale' \cup {r},
         ~ clobbered => /\ Backed(proc'[r], snap)
                        /\ r \notin stale' => Current(proc'[r], tpl, snap, promised)
  PROVE  Safe'
<1> SUFFICES ASSUME ~ clobbered
             PROVE  /\ Promises'
                    /\ \A q \in Replicas : Backed(proc'[q], snap)
                    /\ \A q \in Replicas \ stale' : Current(proc'[q], tpl, snap, promised)
  BY DEF Safe
<1>1. Promises'
  BY DEF Safe, Promises
<1>2. \A q \in Replicas : Backed(proc'[q], snap)
  BY DEF Safe
<1>3. \A q \in Replicas \ stale' : Current(proc'[q], tpl, snap, promised)
  BY DEF Safe
<1> QED
  BY <1>1, <1>2, <1>3

\* A handler that goes on leaves what its process has.
LEMMA HandlerSafe ==
  ASSUME Safe, NEW r \in Replicas, NEW n,
         proc[r].at \in Ready \ {"adapting"}, proc'[r].at \in Ready \ {"adapting"},
         \A q \in Replicas \ {r} : proc'[q] = proc[q],
         Recalls(r, proc[r].tpl, proc[r].base, proc[r].moves, n),
         UNCHANGED <<tpl, snap, stale, clobbered, promised>>
  PROVE  Safe'
<1>1. proc[r].at # "seeding" /\ proc'[r].at # "seeding" /\ proc[r].at \notin Early
  BY DEF Ready, Early
<1>2. ~ clobbered => Backed(proc'[r], snap)
  BY DEF Safe, Backed, Recalls
<1>3. ASSUME ~ clobbered, r \notin stale PROVE Current(proc'[r], tpl, snap, promised)
  <2>1. Current(proc[r], tpl, snap, promised)
    BY <1>3 DEF Safe
  <2> QED
    BY <1>1, <2>1 DEF Current, Recalls
<1> QED
  BY <1>2, <1>3, SafeKept

LEMMA HandlersSafe ==
  ASSUME IInv, Safe, NEW r \in Replicas,
         \/ Register(r) \/ Fire(r) \/ Hold(r) \/ Clear(r) \/ FindOrder(r) \/ CreateOrder(r)
         \/ Link(r) \/ SaveCleared(r) \/ CancelOrder(r) \/ VoidOrder(r)
         \/ HandleFeedback(r) /\ proc'[r].at = "judging"
  PROVE  Safe'
<1>1. Types /\ Episodes
  BY DEF IInv
<1>2. \E n : Recalls(r, proc[r].tpl, proc[r].base, proc[r].moves, n)
  <2>1. Unaltered(r) => \E n : Recalls(r, proc[r].tpl, proc[r].base, proc[r].moves, n)
    BY DEF Unaltered
  <2>2. CASE Register(r) \/ Fire(r) \/ Clear(r) \/ FindOrder(r) \/ Link(r) \/ SaveCleared(r)
             \/ CancelOrder(r) \/ VoidOrder(r)
    BY <1>1, <2>1, <2>2, UnalteredCases
  <2>3. CASE Hold(r)
    BY <1>1, <2>3, AlteredCases
  <2>4. CASE CreateOrder(r)
    BY <1>1, <2>4, AlteredCases
  <2>5. CASE HandleFeedback(r) /\ proc'[r].at = "judging"
    BY <1>1, <2>1, <2>5, AlteredCases
  <2> QED
    BY <2>2, <2>3, <2>4, <2>5
<1>3. /\ proc[r].at \in Ready \ {"adapting"} /\ proc'[r].at \in Ready \ {"adapting"}
      /\ \A q \in Replicas \ {r} : proc'[q] = proc[q]
  <2> USE DEF Ready, Early, Steps
  <2>1. CASE Register(r)
    <3>1. proc[r].at = "serving" /\ proc'[r].at = "serving"
      BY <1>1, <2>1 DEF Register, At, Becomes, Types, Proc
    <3>2. \A q \in Replicas \ {r} : proc'[q] = proc[q]
      BY <1>1, <2>1 DEF Register, Becomes, Types
    <3> QED
      BY <3>1, <3>2
  <2>2. CASE Fire(r)
    BY <1>1, <2>2, FireEffect DEF Effect
  <2>3. CASE Hold(r)
    BY <1>1, <2>3, HoldEffect DEF Effect
  <2>4. CASE Clear(r)
    BY <1>1, <2>4, ClearEffect DEF Effect
  <2>5. CASE FindOrder(r)
    BY <1>1, <2>5, FindOrderEffect DEF Effect
  <2>6. CASE CreateOrder(r)
    BY <1>1, <2>6, CreateOrderEffect DEF Effect
  <2>7. CASE Link(r) \/ SaveCleared(r)
    BY <1>1, <2>7, SaveEffect DEF Effect
  <2>8. CASE CancelOrder(r)
    BY <1>1, <2>8, CancelOrderEffect DEF Effect
  <2>9. CASE VoidOrder(r)
    BY <1>1, <2>9, VoidOrderEffect DEF Effect
  <2>10. CASE HandleFeedback(r) /\ proc'[r].at = "judging"
    BY <1>1, <2>10, FeedbackEffect DEF Effect
  <2> QED
    BY <2>1, <2>2, <2>3, <2>4, <2>5, <2>6, <2>7, <2>8, <2>9, <2>10
<1>4. UNCHANGED <<tpl, snap, stale, clobbered, promised>>
  BY DEF Register, Fire, Hold, Clear, FindOrder, CreateOrder, Link, SaveCleared, CancelOrder,
         VoidOrder, HandleFeedback, Feedback, database, history, updates
<1> QED
  BY <1>1, <1>2, <1>3, <1>4, HandlerSafe

\* A start, but for the built-in template, reads only.
LEMMA StartingSafe ==
  ASSUME IInv, OneSnapshot, Safe, NEW r \in Replicas,
         \/ Start(r) \/ CreateTableRaced(r) \/ CheckMigration(r) \/ Apply(r)
         \/ LoadTemplates(r) \/ Restore(r)
  PROVE  Safe'
<1>1. Types /\ proc[r] \in Proc /\ proc \in [Replicas -> Proc]
  BY DEF IInv, Types
<1>2. /\ \A q \in Replicas \ {r} : proc'[q] = proc[q]
      /\ UNCHANGED <<tpl, snap, stale, clobbered, promised>>
  BY <1>1, QuietEffect, ApplyEffect DEF Quiet, Effect, Start, CreateTableRaced, CheckMigration, Apply,
     LoadTemplates, Restore, database, history, updates
<1>3. SUFFICES ASSUME ~ clobbered
               PROVE  /\ Backed(proc'[r], snap)
                      /\ r \notin stale => Current(proc'[r], tpl, snap, promised)
  BY <1>2, SafeKept
<1>4. Promises /\ Backed(proc[r], snap) /\ (r \notin stale => Current(proc[r], tpl, snap, promised))
  BY <1>3 DEF Safe
<1>5. CASE Start(r) \/ CreateTableRaced(r) \/ CheckMigration(r) \/ Apply(r)
  <2>1. ASSUME NEW at, Goes(r, at) PROVE proc'[r].at = at
    BY <1>1, <2>1 DEF Goes, Becomes, Proc
  <2>2. proc'[r].at \in {"down", "migrating", "applying", "loading"}
        /\ proc[r].at \in {"down", "migrating", "applying", "loading"}
    BY <1>5, <2>1 DEF Start, CreateTableRaced, CheckMigration, Apply, At
  <2>3. Unaltered(r)
    BY <1>1, <1>5, UnalteredCases
  <2> QED
    BY <1>4, <2>2, <2>3 DEF Unaltered, Recalls, Backed, Current, Ready, Early
<1>6. CASE LoadTemplates(r)
  <2>1. proc[r].at = "loading"
    BY <1>6 DEF LoadTemplates, At
  <2>2. \/ proc'[r].at = "seeding" /\ tpl = NoTemplate /\ Unaltered(r)
        \/ proc'[r].at = "restoring"
           /\ Recalls(r, tpl, proc[r].base, proc[r].moves, proc[r].tries)
    BY <1>1, <1>6, AlteredCases
  <2>3. tpl = NoTemplate => promised.tpl = NoTemplate
    BY <1>4 DEF Promises
  <2> QED
    BY <1>4, <2>1, <2>2, <2>3 DEF Unaltered, Recalls, Backed, Current, Ready, Early
<1>7. CASE Restore(r)
  <2>1. /\ proc[r].at = "restoring" /\ proc'[r].at = "serving"
        /\ \/ snap = {} /\ Unaltered(r)
           \/ \E s \in snap : Recalls(r, proc[r].tpl, Merged(s.base, Recipe[proc[r].tpl]),
                                   s.moves, proc[r].tries)
    BY <1>1, <1>7, AlteredCases
  <2> USE DEF Ready, Early, Steps
  <2>2. CASE snap = {} /\ Unaltered(r)
    <3>1. promised.learned = {}
      BY <1>4, <2>2 DEF Promises
    <3>2. Unlearned.own = {}
      BY DEF Unlearned
    <3> QED
      BY <1>4, <2>1, <2>2, <3>1, <3>2 DEF Unaltered, Recalls, Backed, Current
  <2>3. CASE \E s \in snap : Recalls(r, proc[r].tpl, Merged(s.base, Recipe[proc[r].tpl]),
                                   s.moves, proc[r].tries)
    <3>1. PICK s \in snap : Recalls(r, proc[r].tpl, Merged(s.base, Recipe[proc[r].tpl]),
                                   s.moves, proc[r].tries)
      BY <2>3
    <3>2. snap = {s} /\ s.base \in Base
      BY <1>1 DEF OneSnapshot, Types, Kept
    <3>3. Merged(s.base, Recipe[proc[r].tpl]).own = s.base.own \cap Recipe[proc[r].tpl]
      BY <3>2, MergedOwn
    <3>4. proc'[r].moves = s.moves /\ proc'[r].tpl = proc[r].tpl
          /\ proc'[r].base.own = s.base.own \cap Recipe[proc[r].tpl]
      BY <3>1, <3>3 DEF Recalls
    <3>5. Backed(proc'[r], snap)
      BY <2>1, <3>2, <3>4 DEF Backed
    <3>6. ASSUME r \notin stale PROVE Current(proc'[r], tpl, snap, promised)
      <4>1. proc[r].tpl = tpl
        BY <1>4, <2>1, <3>6 DEF Current
      <4>2. promised.learned \subseteq s.base.own \cap Recipe[tpl]
        BY <1>4, <3>2 DEF Promises
      <4> QED
        BY <2>1, <3>2, <3>4, <4>1, <4>2 DEF Current
    <3> QED
      BY <3>5, <3>6
  <2> QED
    BY <2>1, <2>2, <2>3
<1> QED
  BY <1>5, <1>6, <1>7

\* As long as the built-in template is put by processes that have seen no other,
\* nothing has been promised of templates.
LEMMA SeedSafe ==
  ASSUME IInv, Safe, NEW r \in Replicas, Seed(r)
  PROVE  Safe'
<1>1. Types /\ proc[r] \in Proc /\ proc \in [Replicas -> Proc] /\ tpl \in Templates \cup {NoTemplate}
  BY DEF IInv, Types, Kept
<1>2. /\ \A q \in Replicas \ {r} : proc'[q] = proc[q]
      /\ UNCHANGED <<snap, stale, promised>> /\ clobbered' = (clobbered \/ r \in stale)
  BY <1>1, QuietEffect DEF Quiet, Effect, Seed
<1>3. /\ proc[r].at = "seeding" /\ proc'[r].at = "restoring" /\ tpl' = Builtin
      /\ Recalls(r, Builtin, proc[r].base, proc[r].moves, proc[r].tries)
  BY <1>1, AlteredCases
<1>4. SUFFICES ASSUME ~ clobbered, r \notin stale
               PROVE  /\ Promises'
                      /\ \A q \in Replicas : Backed(proc'[q], snap)
                      /\ \A q \in Replicas \ stale : Current(proc'[q], Builtin, snap, promised)
  BY <1>2, <1>3 DEF Safe
<1>5. /\ Promises /\ (\A q \in Replicas : Backed(proc[q], snap))
      /\ \A q \in Replicas \ stale : Current(proc[q], tpl, snap, promised)
  BY <1>4 DEF Safe
<1>6. promised.tpl = NoTemplate
  BY <1>3, <1>4, <1>5 DEF Current
<1>7. tpl \in Templates => tpl = Builtin
  BY <1>5, <1>6, ReplicasAssumption DEF Promises
<1>8. Promises'
  BY <1>2, <1>3, <1>5, <1>6, <1>7 DEF Promises
<1>9. \A q \in Replicas : Backed(proc'[q], snap)
  BY <1>2, <1>3, <1>5 DEF Backed, Recalls, Ready, Early
<1>10. ASSUME NEW q \in Replicas \ stale PROVE Current(proc'[q], Builtin, snap, promised)
  <2>1. CASE q = r
    BY <1>3, <1>4, <1>5, <2>1 DEF Current, Recalls, Ready, Early
  <2>2. CASE q # r
    <3>1. proc'[q] = proc[q] /\ proc[q] \in Proc
      BY <1>1, <1>2, <2>2
    <3>2. proc[q].at \notin Early => proc[q].tpl = tpl /\ proc[q].tpl \in Templates
      BY <1>5, <3>1 DEF Current, Proc
    <3> QED
      BY <1>5, <1>7, <3>1, <3>2 DEF Current
  <2> QED
    BY <2>1, <2>2
<1> QED
  BY <1>8, <1>9, <1>10

\* What is made of promises is promises.
LEMMA PromisedFields ==
  ASSUME promised = [tpl |-> promised.tpl, learned |-> promised.learned, moves |-> promised.moves],
         NEW t, NEW l, NEW m
  PROVE  /\ [promised EXCEPT !.learned = l] =
              [tpl |-> promised.tpl, learned |-> l, moves |-> promised.moves]
         /\ [promised EXCEPT !.tpl = t, !.learned = l] =
              [tpl |-> t, learned |-> l, moves |-> promised.moves]
         /\ [promised EXCEPT !.moves = m] =
              [tpl |-> promised.tpl, learned |-> promised.learned, moves |-> m]
<1> DEFINE S == [tpl : {promised.tpl, t}, learned : {promised.learned, l},
                 moves : {promised.moves, m}]
<1>1. promised \in S
  BY Zenon
<1>2. /\ [promised EXCEPT !.learned = l] \in S
      /\ [promised EXCEPT !.moves = m] \in S
      /\ [promised EXCEPT !.tpl = t, !.learned = l] \in S
  BY <1>1
<1>3. [promised EXCEPT !.learned = l] =
        [tpl |-> promised.tpl, learned |-> l, moves |-> promised.moves]
  BY <1>1, <1>2
<1>4. [promised EXCEPT !.moves = m] =
        [tpl |-> promised.tpl, learned |-> promised.learned, moves |-> m]
  BY <1>1, <1>2
<1>5. [promised EXCEPT !.tpl = t, !.learned = l] =
        [tpl |-> t, learned |-> l, moves |-> promised.moves]
  <2> DEFINE e == [promised EXCEPT !.tpl = t, !.learned = l]
  <2>1. e \in S
    BY <1>2
  <2>2. e.tpl = t /\ e.learned = l /\ e.moves = promised.moves
    BY <1>1
  <2> HIDE DEF e
  <2>3. e = [tpl |-> t, learned |-> l, moves |-> promised.moves]
    BY <2>1, <2>2
  <2> QED
    BY <2>3 DEF e
<1> QED
  BY <1>3, <1>4, <1>5, Zenon

\* A snapshot by a process that is up to date: the others are from then on behind,
\* unless they have read none yet.
LEMMA SnapshotSafe ==
  ASSUME IInv, Safe, NEW r \in Replicas, NEW b, NEW n, NEW learned,
         proc[r].at \in Ready, proc'[r].at \in Ready \ {"adapting"},
         \A q \in Replicas \ {r} : proc'[q] = proc[q],
         Recalls(r, proc[r].tpl, b, proc[r].moves, n),
         SaveAssetSnapshot(r, [base |-> b, moves |-> proc[r].moves]), tpl' = tpl,
         ~ clobbered =>
           promised' = [tpl |-> promised.tpl, learned |-> learned, moves |-> promised.moves],
         ~ clobbered /\ r \notin stale =>
           learned \subseteq b.own /\ learned \subseteq Recipe[tpl]
  PROVE  Safe'
<1> DEFINE s == [base |-> b, moves |-> proc[r].moves]
<1>1. snap' = {s} /\ s.base = b /\ s.moves = proc[r].moves
      /\ clobbered' = (clobbered \/ r \in stale)
      /\ stale' = stale \cup {q \in Replicas \ {r} : HasSnapshots(q)}
  BY DEF SaveAssetSnapshot
<1> HIDE DEF s
<1>2. SUFFICES ASSUME ~ clobbered, r \notin stale
               PROVE  /\ Promises'
                      /\ \A q \in Replicas : Backed(proc'[q], snap')
                      /\ \A q \in Replicas \ stale' : Current(proc'[q], tpl, snap', promised')
  BY <1>1 DEF Safe
<1>3. /\ Promises /\ (\A q \in Replicas : Backed(proc[q], snap))
      /\ \A q \in Replicas \ stale : Current(proc[q], tpl, snap, promised)
  BY <1>2 DEF Safe
<1>4. /\ promised'.tpl = promised.tpl /\ promised'.learned = learned
      /\ promised'.moves = promised.moves
      /\ promised' = [tpl |-> promised.tpl, learned |-> learned, moves |-> promised.moves]
  BY <1>2
<1>5. proc[r].tpl = tpl /\ tpl \in Templates
  <2>1. proc[r] \in Proc /\ proc[r].at \notin Early
    BY DEF IInv, Types, Ready
  <2>2. proc[r].tpl = tpl
    BY <1>2, <1>3, <2>1 DEF Current
  <2> QED
    BY <2>1, <2>2 DEF Proc
<1>6. \A z \in snap : z.moves \subseteq proc[r].moves
  BY <1>2, <1>3 DEF Current
<1>7. Promises'
  <2>1. promised' = [tpl |-> promised'.tpl, learned |-> promised'.learned,
                     moves |-> promised'.moves]
    BY <1>4
  <2>2. /\ promised'.tpl # NoTemplate => tpl' = promised'.tpl
        /\ tpl' \in {NoTemplate, Builtin} \/ tpl' = promised'.tpl
    BY <1>3, <1>4 DEF Promises
  <2>3. promised'.learned # {} =>
          /\ tpl' \in Templates /\ promised'.learned \subseteq Recipe[tpl']
          /\ \E z \in snap' : promised'.learned \subseteq z.base.own
    BY <1>1, <1>2, <1>4, <1>5
  <2>4. promised'.moves # {} => \E z \in snap' : promised'.moves \subseteq z.moves
    BY <1>1, <1>3, <1>4, <1>6 DEF Promises
  <2> QED
    BY <2>1, <2>2, <2>3, <2>4 DEF Promises
<1>8. ASSUME NEW q \in Replicas PROVE Backed(proc'[q], snap')
  <2>1. CASE q = r
    BY <1>1, <2>1 DEF Backed, Recalls
  <2>2. CASE q # r
    BY <1>1, <1>3, <1>6, <2>2 DEF Backed
  <2> QED
    BY <2>1, <2>2
<1>9. ASSUME NEW q \in Replicas \ stale' PROVE Current(proc'[q], tpl, snap', promised')
  <2>1. CASE q = r
    <3>1. proc'[r].at # "seeding" /\ proc'[r].at \in Ready
      BY DEF Ready, Early
    <3>2. proc'[r].tpl = tpl /\ proc'[r].base = b /\ proc'[r].moves = proc[r].moves
      BY <1>5 DEF Recalls
    <3> QED
      BY <1>1, <1>2, <1>4, <1>5, <2>1, <3>1, <3>2 DEF Current
  <2>2. CASE q # r
    <3>1. q \notin stale /\ ~ HasSnapshots(q) /\ proc'[q] = proc[q] /\ proc[q] \in Proc
      BY <1>1, <2>2 DEF IInv, Types
    <3>2. proc[q].at \notin Ready
      BY <3>1 DEF HasSnapshots, HasTemplates, Ready, Early
    <3> QED
      BY <1>3, <1>4, <3>1, <3>2 DEF Current
  <2> QED
    BY <2>1, <2>2
<1> QED
  BY <1>7, <1>8, <1>9

LEMMA StoringSafe ==
  ASSUME IInv, Safe, NEW r \in Replicas, Learn(r) \/ Adapt(r)
  PROVE  Safe'
<1>1. Types /\ proc[r] \in Proc /\ proc \in [Replicas -> Proc]
  BY DEF IInv, Types
<1>2. CASE Learn(r)
  <2> DEFINE b == Fitted(Recipe[proc[r].tpl])
  <2>1. /\ proc[r].at = "serving" /\ proc'[r].at = "serving"
        /\ Recalls(r, proc[r].tpl, b, proc[r].moves, proc[r].tries)
    BY <1>1, <1>2, AlteredCases
  <2>2. b.own = Recipe[proc[r].tpl]
    BY DEF Fitted
  <2>3. \A q \in Replicas \ {r} : proc'[q] = proc[q]
    BY <1>1, <1>2, QuietEffect DEF Quiet, Effect
  <2>4. /\ SaveAssetSnapshot(r, [base |-> b, moves |-> proc[r].moves]) /\ tpl' = tpl
        /\ promised' = [promised EXCEPT !.learned = b.own]
    BY <1>2 DEF Learn
  <2> HIDE DEF b
  <2>5. ~ clobbered =>
          promised' = [tpl |-> promised.tpl, learned |-> b.own, moves |-> promised.moves]
    BY <2>4, PromisedFields DEF Safe, Promises
  <2>6. ~ clobbered /\ r \notin stale => b.own \subseteq b.own /\ b.own \subseteq Recipe[tpl]
    BY <2>1, <2>2 DEF Safe, Current, Early
  <2>7. proc[r].at \in Ready /\ proc'[r].at \in Ready \ {"adapting"}
    BY <2>1 DEF Ready, Early, Steps
  <2> QED
    BY <2>1, <2>3, <2>4, <2>5, <2>6, <2>7, SnapshotSafe
<1>3. CASE Adapt(r)
  <2> DEFINE b == proc[r].base
  <2>1. proc[r].at = "adapting" /\ proc'[r].at \in {"cancelling", "judging"}
        /\ \A q \in Replicas \ {r} : proc'[q] = proc[q]
    BY <1>1, <1>3, AdaptEffect DEF Effect
  <2>2. Recalls(r, proc[r].tpl, b, proc[r].moves, proc[r].tries)
    BY <1>1, <1>3, UnalteredCases DEF Unaltered
  <2>3. /\ SaveAssetSnapshot(r, [base |-> b, moves |-> proc[r].moves]) /\ tpl' = tpl
        /\ promised' = promised
    BY <1>3 DEF Adapt, Snapshot
  <2>4. proc[r].at \in Ready /\ proc'[r].at \in Ready \ {"adapting"}
    BY <2>1 DEF Ready, Early, Steps
  <2>5. ~ clobbered =>
          promised' = [tpl |-> promised.tpl, learned |-> promised.learned,
                       moves |-> promised.moves]
    BY <2>3 DEF Safe, Promises
  <2>6. ~ clobbered /\ r \notin stale =>
          promised.learned \subseteq b.own /\ promised.learned \subseteq Recipe[tpl]
    BY <2>4 DEF Safe, Promises, Current
  <2> HIDE DEF b
  <2> QED
    BY <2>1, <2>2, <2>3, <2>4, <2>5, <2>6, SnapshotSafe
<1> QED
  BY <1>2, <1>3

\* A template is promised from then on, and no more baselines than it has features.
LEMMA PutTemplateSafe ==
  ASSUME IInv, Safe, NEW r \in Replicas, NEW t \in Templates, PutTemplate(r, t)
  PROVE  Safe'
<1>1. Types /\ proc[r] \in Proc /\ proc \in [Replicas -> Proc] /\ proc[r].base \in Base
  BY DEF IInv, Types, Proc
<1>2. /\ \A q \in Replicas \ {r} : proc'[q] = proc[q]
      /\ UNCHANGED <<snap, clobbered>>
      /\ stale' = stale \cup {q \in Replicas \ {r} : HasTemplates(q)}
      /\ promised' = [promised EXCEPT !.tpl = t, !.learned = promised.learned \cap Recipe[t]]
  BY <1>1, QuietEffect DEF Quiet, Effect, PutTemplate
<1>3. /\ proc[r].at = "serving" /\ proc'[r].at = "serving" /\ tpl' = t
      /\ Recalls(r, t, Merged(proc[r].base, Recipe[t]), proc[r].moves, proc[r].tries)
  BY <1>1, AlteredCases
<1>4. SUFFICES ASSUME ~ clobbered
               PROVE  /\ Promises'
                      /\ \A q \in Replicas : Backed(proc'[q], snap)
                      /\ \A q \in Replicas \ stale' : Current(proc'[q], t, snap, promised')
  BY <1>2, <1>3 DEF Safe
<1>5. /\ Promises /\ (\A q \in Replicas : Backed(proc[q], snap))
      /\ \A q \in Replicas \ stale : Current(proc[q], tpl, snap, promised)
  BY <1>4 DEF Safe
<1>6. promised' = [tpl |-> t, learned |-> promised.learned \cap Recipe[t],
                   moves |-> promised.moves]
  BY <1>2, <1>5, PromisedFields DEF Promises
<1>7. /\ promised'.tpl = t /\ promised'.learned = promised.learned \cap Recipe[t]
      /\ promised'.moves = promised.moves
  BY <1>6
<1>8. Promises'
  BY <1>2, <1>3, <1>5, <1>6, <1>7 DEF Promises
<1>9. \A q \in Replicas : Backed(proc'[q], snap)
  BY <1>2, <1>3, <1>5 DEF Backed, Recalls, Ready, Early, Steps
<1>10. ASSUME NEW q \in Replicas \ stale' PROVE Current(proc'[q], t, snap, promised')
  <2>1. CASE q = r
    <3>1. Current(proc[r], tpl, snap, promised)
      BY <1>2, <1>5, <2>1
    <3>2. proc[r].at \in Ready \ {"adapting"} /\ proc'[r].at \in Ready \ {"adapting"}
          /\ proc'[r].at # "seeding"
      BY <1>3 DEF Ready, Early, Steps
    <3>3. proc'[r].tpl = t /\ proc'[r].moves = proc[r].moves
          /\ proc'[r].base.own = proc[r].base.own \cap Recipe[t]
      BY <1>1, <1>3, MergedOwn DEF Recalls
    <3> QED
      BY <1>7, <2>1, <3>1, <3>2, <3>3 DEF Current
  <2>2. CASE q # r
    <3>1. q \notin stale /\ ~ HasTemplates(q) /\ proc'[q] = proc[q]
      BY <1>2, <2>2
    <3>2. proc[q].at \in Early \ {"seeding"}
      BY <3>1 DEF HasTemplates, Early
    <3> QED
      BY <1>5, <3>1, <3>2 DEF Current, Ready
  <2> QED
    BY <2>1, <2>2
<1> QED
  BY <1>8, <1>9, <1>10

\* The answer to a verdict promises what is stored by then.
LEMMA SaveVerdictSafe ==
  ASSUME IInv, OneSnapshot, Safe, NEW r \in Replicas, SaveVerdict(r)
  PROVE  Safe'
<1>1. Types /\ Episodes /\ proc[r] \in Proc
  BY DEF IInv, Types
<1>2. /\ proc[r].at = "judging" /\ proc'[r].at = "serving"
      /\ \A q \in Replicas \ {r} : proc'[q] = proc[q]
  <2>1. proc[r].at = "judging"
    BY DEF SaveVerdict, At
  <2> QED
    BY <1>1, <2>1, SaveEffect DEF Effect
<1>3. Recalls(r, proc[r].tpl, proc[r].base, proc[r].moves, proc[r].tries)
  BY <1>1, UnalteredCases DEF Unaltered
<1>4. /\ UNCHANGED <<tpl, snap, stale, clobbered>>
      /\ promised' = [promised EXCEPT !.moves =
                        promised.moves \cup (proc[r].moves \cap {proc[r].id})]
  BY DEF SaveVerdict, updates
<1>5. SUFFICES ASSUME ~ clobbered
               PROVE  /\ Promises'
                      /\ \A q \in Replicas : Backed(proc'[q], snap)
                      /\ \A q \in Replicas \ stale : Current(proc'[q], tpl, snap, promised')
  BY <1>4 DEF Safe
<1>6. /\ Promises /\ (\A q \in Replicas : Backed(proc[q], snap))
      /\ \A q \in Replicas \ stale : Current(proc[q], tpl, snap, promised)
  BY <1>5 DEF Safe
<1>7. promised' = [tpl |-> promised.tpl, learned |-> promised.learned,
                   moves |-> promised.moves \cup (proc[r].moves \cap {proc[r].id})]
  BY <1>4, <1>6, PromisedFields DEF Promises
<1>8. /\ promised'.tpl = promised.tpl /\ promised'.learned = promised.learned
      /\ promised'.moves = promised.moves \cup (proc[r].moves \cap {proc[r].id})
  BY <1>7
<1>9. proc[r].at \in Ready \ {"adapting"} /\ proc'[r].at \in Ready \ {"adapting"}
  BY <1>2 DEF Ready, Early, Steps
<1>10. promised'.moves # {} => \E s \in snap : promised'.moves \subseteq s.moves
  <2>1. promised.moves # {} => \E s \in snap : promised.moves \subseteq s.moves
    BY <1>6 DEF Promises
  <2>2. proc[r].moves # {} => \E s \in snap : proc[r].moves \subseteq s.moves
    BY <1>6, <1>9 DEF Backed
  <2> QED
    BY <1>8, <2>1, <2>2 DEF OneSnapshot
<1>11. Promises'
  BY <1>4, <1>6, <1>7, <1>8, <1>10 DEF Promises
<1>12. \A q \in Replicas : Backed(proc'[q], snap)
  BY <1>2, <1>3, <1>6, <1>9 DEF Backed, Recalls
<1>13. ASSUME NEW q \in Replicas \ stale PROVE Current(proc'[q], tpl, snap, promised')
  <2>1. Current(proc[q], tpl, snap, promised)
    BY <1>6
  <2>2. CASE q = r
    BY <1>2, <1>3, <1>8, <1>9, <2>1, <2>2 DEF Current, Recalls, Early
  <2>3. CASE q # r
    BY <1>2, <1>8, <2>1, <2>3 DEF Current
  <2> QED
    BY <2>2, <2>3
<1> QED
  BY <1>11, <1>12, <1>13

\* A verdict that moves a threshold has yet to store it.
LEMMA VerdictSafe ==
  ASSUME IInv, Safe, NEW r \in Replicas, HandleFeedback(r), proc'[r].at = "adapting"
  PROVE  Safe'
<1>1. Types
  BY DEF IInv
<1>2. /\ proc[r].at = "serving" /\ \A q \in Replicas \ {r} : proc'[q] = proc[q]
      /\ UNCHANGED <<tpl, snap, stale, clobbered, promised>>
  BY <1>1, FeedbackEffect DEF Effect, HandleFeedback, Feedback, database, history, updates
<1>3. \E m : Recalls(r, proc[r].tpl, proc[r].base, m, proc[r].tries)
             /\ proc[r].moves \subseteq m
  BY <1>1, AlteredCases
<1>4. ~ clobbered => Backed(proc'[r], snap)
  BY DEF Backed, Ready, Early, Steps
<1>5. ASSUME ~ clobbered, r \notin stale PROVE Current(proc'[r], tpl, snap, promised)
  <2>1. Current(proc[r], tpl, snap, promised)
    BY <1>5 DEF Safe
  <2> QED
    BY <1>2, <1>3, <2>1 DEF Current, Recalls, Ready, Early, Steps
<1> QED
  BY <1>2, <1>4, <1>5, SafeKept

LEMMA EndsSafe ==
  ASSUME IInv, Safe, NEW r \in Replicas, Ends(r)
  PROVE  Safe'
<1>1. Types
  BY DEF IInv
<1>2. /\ \A q \in Replicas \ {r} : proc'[q] = proc[q]
      /\ UNCHANGED <<tpl, snap, clobbered, promised>> /\ stale' = stale \ {r}
  BY <1>1, EndsEffect DEF Effect, Ends, database
<1>3. proc'[r].at = "down" /\ Recalls(r, NoTemplate, Unlearned, {}, 0)
  BY <1>1, AlteredCases
<1>4. Backed(proc'[r], snap) /\ Current(proc'[r], tpl, snap, promised)
  BY <1>3 DEF Backed, Current, Recalls, Ready, Early
<1> QED
  BY <1>2, <1>4, SafeKept

LEMMA InitSafe == Init => Safe
<1> SUFFICES ASSUME Init PROVE Safe
  OBVIOUS
<1>1. \A r \in Replicas : proc[r].at = "down" /\ proc[r].moves = {} /\ proc[r].base = Unlearned
  BY DEF Init, Fresh
<1>2. Promises
  BY DEF Init, Promises
<1>3. \A r \in Replicas : Backed(proc[r], snap) /\ Current(proc[r], tpl, snap, promised)
  BY <1>1 DEF Backed, Current, Ready, Early
<1> QED
  BY <1>2, <1>3 DEF Safe

LEMMA NextSafe == IInv /\ OneSnapshot /\ Safe /\ [Next]_vars => Safe'
<1> SUFFICES ASSUME IInv, OneSnapshot, Safe, [Next]_vars PROVE Safe'
  OBVIOUS
<1>1. CASE Next
  <2>1. PICK r \in Replicas :
           \/ Quiet(r) \/ Apply(r) \/ Fire(r)
           \/ Hold(r) \/ Clear(r) \/ HandleFeedback(r)
           \/ FindOrder(r) \/ CreateOrder(r)
           \/ Link(r) \/ SaveCleared(r) \/ SaveVerdict(r)
           \/ Adapt(r) \/ CancelOrder(r) \/ VoidOrder(r)
           \/ Ends(r)
    BY <1>1, NextCases
  <2>2. Quiet(r) =>
          \/ Start(r) \/ CreateTableRaced(r) \/ CheckMigration(r) \/ LoadTemplates(r)
          \/ Seed(r) \/ Restore(r)
          \/ Register(r) \/ Learn(r) \/ \E t \in Templates : PutTemplate(r, t)
    BY DEF Quiet
  <2>3. HandleFeedback(r) => proc'[r].at \in {"judging", "adapting"}
    BY FeedbackEffect DEF Effect, IInv
  <2> QED
    BY <2>1, <2>2, <2>3, StartingSafe, SeedSafe, HandlersSafe, StoringSafe, PutTemplateSafe,
       SaveVerdictSafe, VerdictSafe, EndsSafe
<1>2. CASE UNCHANGED vars
  <2>1. UNCHANGED <<proc, tpl, snap, stale, clobbered, promised>>
    BY <1>2 DEF vars, database, history, updates
  <2> QED
    BY <2>1 DEF Safe, Promises
<1> QED
  BY <1>1, <1>2

\* Templates that were put, baselines that were learned (of the features that
\* every template since has had) and thresholds that were moved are lost only when
\* a process writes over what it has not read, however many processes run at the
\* same time or one after the other (UpsertTemplate, SaveAssetSnapshot, New,
\* mergeBaselines); and one that has read it all serves by it.
THEOREM LostByStaleWritesOnly == Spec => []OnlyStaleWritesLose
<1>1. Init => OneSnapshot
  BY DEF Init, OneSnapshot
<1>2. Safe => OnlyStaleWritesLose
  BY DEF Safe, Promises, Current, Backed, OnlyStaleWritesLose, At, Ready, Early, Steps
<1> QED
  BY <1>1, <1>2, Invariance, InitSafe, NextSafe, NextSnapshot, PTL DEF Spec
=============================================================================
