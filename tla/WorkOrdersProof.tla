-------------------------- MODULE WorkOrdersProof --------------------------
(***************************************************************************)
(* Theorems about WorkOrders, for any assets, template versions and        *)
(* retries, any number of alerts and any number of failed calls and        *)
(* crashes: the links between alerts, orders and CMMS records, one open    *)
(* order per failure mode, the bound on the attempts, what holds as long   *)
(* as nothing fails, and the verdicts of the technicians.                  *)
(***************************************************************************)
EXTENDS WorkOrders, FiniteSetTheorems, TLAPS

Bounded == Len(alerts) <= MaxAlerts

\* What memory m of asset x says is true of the store.
Consistent(m, x) ==
  /\ ~ m.known => m.phase = "quiet" /\ m.open = None
  /\ m.phase = "quiet" => m.top = NoTop
  /\ m.open # None => m.open \in DOMAIN alerts /\ alerts[m.open].asset = x

Remembered == \A x \in Assets : Consistent(mem[x], x)

\* The CMMS was asked for stored alerts only.
RecordsResolve == \A r \in DOMAIN records : records[r].key[3] \in DOMAIN alerts

\* OneOpenOrder, by the orders instead of their number.
AtMostOneOpen ==
  \A v, w \in DOMAIN orders :
    /\ orders[v].status = "open" /\ orders[w].status = "open"
    /\ orders[v].asset = orders[w].asset /\ orders[v].fm = orders[w].fm
    => v = w

\* The attempts of an alert that may be tried again are the first and one for
\* each retry that was spent, or fewer.
Counted(m) == m.top # NoTop /\ m.open # None => attempts[m.open] <= 1 + m.retry

AttemptsCounted ==
  /\ \A i \in AlertIds \ DOMAIN alerts : attempts[i] = 0
  /\ \A x \in Assets : Counted(mem[x])

\* Without a failure nothing is left to retry, an episode that is over has no
\* alert, and the asset of an alert is in memory.
Calm(m) == m.top = NoTop /\ (m.phase = "quiet" => m.open = None)

MemoryAgrees ==
  faults = 0 =>
    /\ \A x \in Assets : Calm(mem[x])
    /\ \A i \in DOMAIN alerts : mem[alerts[i].asset].known

IInv ==
  /\ TypeOK /\ Bounded /\ Remembered
  /\ ReferencesResolve /\ RecordsResolve /\ AtMostOneOpen
  /\ AttemptsBounded /\ AttemptsCounted
  /\ VerdictSurvives
  /\ MemoryAgrees /\ FaultFree

-----------------------------------------------------------------------------
\* Sequences: a new last element, and another element at one place.
LEMMA AppendFacts ==
  ASSUME NEW S, NEW s \in Seq(S), NEW e \in S
  PROVE  /\ Append(s, e) \in Seq(S) /\ Len(s) \in Nat
         /\ Len(Append(s, e)) = Len(s) + 1
         /\ DOMAIN s = 1..Len(s) /\ DOMAIN Append(s, e) = 1..Len(s) + 1
         /\ DOMAIN s \subseteq DOMAIN Append(s, e) /\ Len(s) + 1 \notin DOMAIN s
         /\ DOMAIN Append(s, e) = DOMAIN s \cup {Len(s) + 1}
         /\ \A i \in DOMAIN s : Append(s, e)[i] = s[i]
         /\ Append(s, e)[Len(s) + 1] = e
  OBVIOUS

LEMMA UpdateFacts ==
  ASSUME NEW S, NEW s \in Seq(S), NEW i \in DOMAIN s, NEW e \in S
  PROVE  /\ [s EXCEPT ![i] = e] \in Seq(S)
         /\ Len([s EXCEPT ![i] = e]) = Len(s)
         /\ DOMAIN [s EXCEPT ![i] = e] = DOMAIN s
         /\ [s EXCEPT ![i] = e][i] = e
         /\ \A j \in DOMAIN s \ {i} : [s EXCEPT ![i] = e][j] = s[j]
  OBVIOUS

LEMMA ModeType ==
  ASSUME mode \in ModeMaps, NEW top \in Tops \cup {NoTop}
  PROVE  mode[top] \in Modes
  BY WorkOrdersAssumption DEF Modes

\* The fields of the state.
LEMMA StateFacts ==
  ASSUME TypeOK
  PROVE  /\ mem \in [Assets -> Memory] /\ mode \in ModeMaps
         /\ alerts \in Seq(Alert) /\ orders \in Seq(Order) /\ records \in Seq(Record)
         /\ attempts \in [AlertIds -> Nat] /\ faults \in Nat
         /\ Len(alerts) \in Nat /\ DOMAIN alerts = 1..Len(alerts)
         /\ Len(orders) \in Nat /\ DOMAIN orders = 1..Len(orders)
         /\ Len(records) \in Nat /\ DOMAIN records = 1..Len(records)
         /\ \A i \in DOMAIN alerts : alerts[i] \in Alert
         /\ \A w \in DOMAIN orders : orders[w] \in Order
         /\ \A r \in DOMAIN records : records[r] \in Record
         /\ MaxAlerts \in Nat /\ MaxRetry \in Nat
<1>1. /\ mem \in [Assets -> Memory] /\ mode \in ModeMaps
      /\ alerts \in Seq(Alert) /\ orders \in Seq(Order) /\ records \in Seq(Record)
      /\ attempts \in [AlertIds -> Nat] /\ faults \in Nat
  BY DEF TypeOK
<1> QED
  BY <1>1, WorkOrdersAssumption

LEMMA IdFacts ==
  ASSUME TypeOK, Bounded
  PROVE  /\ DOMAIN alerts \subseteq AlertIds
         /\ Len(alerts) < MaxAlerts => Len(alerts) + 1 \in AlertIds
         /\ None \notin DOMAIN alerts /\ None \notin DOMAIN orders
  BY StateFacts DEF Bounded, AlertIds, None

LEMMA InitMeetsIInv == Init => IInv
<1> SUFFICES ASSUME Init PROVE IInv
  OBVIOUS
<1> USE WorkOrdersAssumption DEF Init
<1>1. NoMoves \in [AlertIds -> Nat]
  BY DEF NoMoves
<1>2. \A x \in Assets : mem[x] = Idle(FALSE, NoMoves)
  OBVIOUS
<1>3. TypeOK
  <2>1. Idle(FALSE, NoMoves) \in Memory
    BY <1>1 DEF Idle, Memory, None
  <2>2. mem \in [Assets -> Memory]
    BY <2>1
  <2>3. alerts \in Seq(Alert) /\ orders \in Seq(Order) /\ records \in Seq(Record)
    OBVIOUS
  <2>4. snaps = <<>> /\ DOMAIN snaps = {}
    OBVIOUS
  <2>5. attempts \in [AlertIds -> Nat] /\ unheard \subseteq AlertIds /\ faults \in Nat
    OBVIOUS
  <2>6. mode \in ModeMaps
    OBVIOUS
  <2> QED
    BY ONLY <2>2, <2>3, <2>4, <2>5, <2>6 DEF TypeOK
<1>4. alerts = <<>> /\ orders = <<>> /\ records = <<>> /\ Len(alerts) = 0
      /\ DOMAIN alerts = {} /\ DOMAIN orders = {} /\ DOMAIN records = {}
  OBVIOUS
<1>5. \A x \in Assets : /\ mem[x].phase = "quiet" /\ mem[x].open = None
                        /\ mem[x].top = NoTop
  BY <1>2 DEF Idle
<1>6. Bounded
  BY <1>4 DEF Bounded
<1>13. Remembered
  BY ONLY <1>5 DEF Remembered, Consistent
<1>7. ReferencesResolve /\ RecordsResolve /\ AtMostOneOpen
  BY <1>4 DEF ReferencesResolve, RecordsResolve, AtMostOneOpen
<1>8. AttemptsBounded
  BY DEF AttemptsBounded
<1>9. AttemptsCounted
  BY <1>5 DEF AttemptsCounted, Counted
<1>10. VerdictSurvives
  BY <1>4 DEF VerdictSurvives
<1>11. MemoryAgrees
  BY <1>4, <1>5 DEF MemoryAgrees, Calm
<1>12. FaultFree
  BY <1>4 DEF FaultFree
<1> QED
  BY <1>3, <1>6, <1>13, <1>7, <1>8, <1>9, <1>10, <1>11, <1>12 DEF IInv

-----------------------------------------------------------------------------
\* The memory of one asset changes.
LEMMA MemoryUpdate ==
  ASSUME mem \in [Assets -> Memory], NEW x \in Assets, NEW m \in Memory,
         mem' = [mem EXCEPT ![x] = m]
  PROVE  /\ mem' \in [Assets -> Memory] /\ mem'[x] = m
         /\ \A y \in Assets \ {x} : mem'[y] = mem[y]
  OBVIOUS

\* Alerts are never removed and never move to another asset.
AlertsKept ==
  /\ DOMAIN alerts \subseteq DOMAIN alerts'
  /\ \A i \in DOMAIN alerts : alerts'[i].asset = alerts[i].asset

LEMMA RememberedKept ==
  ASSUME mem \in [Assets -> Memory], Remembered, AlertsKept,
         NEW x \in Assets, NEW m \in Memory, mem' = [mem EXCEPT ![x] = m],
         Consistent(m, x)'
  PROVE  Remembered'
<1>1. mem'[x] = m /\ \A y \in Assets \ {x} : mem'[y] = mem[y]
  BY MemoryUpdate
<1>2. ASSUME NEW y \in Assets PROVE Consistent(mem[y], y)'
  <2>1. CASE y = x
    BY <2>1, <1>1
  <2>2. CASE y # x
    <3>1. Consistent(mem[y], y) /\ mem'[y] = mem[y]
      BY <2>2, <1>1 DEF Remembered
    <3> QED
      BY <3>1 DEF Consistent, AlertsKept
  <2> QED
    BY <2>1, <2>2
<1> QED
  BY <1>2 DEF Remembered

\* What a step that leaves the store, the CMMS and the attempts alone keeps.
LEMMA StoreKept ==
  ASSUME IInv, UNCHANGED <<alerts, orders, records, attempts>>
  PROVE  /\ Bounded' /\ ReferencesResolve' /\ RecordsResolve' /\ AtMostOneOpen'
         /\ AttemptsBounded' /\ AlertsKept
<1>1. Bounded'
  BY DEF IInv, Bounded
<1>2. ReferencesResolve'
  BY DEF IInv, ReferencesResolve
<1>3. RecordsResolve' /\ AtMostOneOpen'
  BY DEF IInv, RecordsResolve, AtMostOneOpen
<1>4. AttemptsBounded' /\ AlertsKept
  BY DEF IInv, AttemptsBounded, AlertsKept
<1> QED
  BY <1>1, <1>2, <1>3, <1>4

-----------------------------------------------------------------------------
\* raiseWorkOrder.

NewRecord(x, fm, id) == [key |-> <<x, fm, id>>, cancelled |-> FALSE]

\* CreateWorkOrder is idempotent: the CMMS has one more record or none, and the
\* reference it answers with is a record of the key it was asked for.
LEMMA CreatedFacts ==
  ASSUME TypeOK, NEW x \in Assets, NEW fm \in Modes, NEW id \in AlertIds
  PROVE  /\ Created(x, fm, id) \in Seq(Record)
         /\ DOMAIN records \subseteq DOMAIN Created(x, fm, id)
         /\ \A r \in DOMAIN records : Created(x, fm, id)[r] = records[r]
         /\ \A r \in DOMAIN Created(x, fm, id) \ DOMAIN records :
              Created(x, fm, id)[r].key = <<x, fm, id>>
         /\ RefOf(x, fm, id) \in DOMAIN Created(x, fm, id)
         /\ RefOf(x, fm, id) \in Nat \ {0}
         /\ Created(x, fm, id)[RefOf(x, fm, id)].key = <<x, fm, id>>
<1>1. records \in Seq(Record) /\ DOMAIN records = 1..Len(records) /\ Len(records) \in Nat
  BY StateFacts
<1>2. CASE WithKey(x, fm, id) # {}
  <2>1. Created(x, fm, id) = records
    BY <1>2 DEF Created
  <2>2. RefOf(x, fm, id) \in WithKey(x, fm, id)
    BY <1>2 DEF RefOf
  <2>3. RefOf(x, fm, id) \in DOMAIN records /\ records[RefOf(x, fm, id)].key = <<x, fm, id>>
    BY <2>2 DEF WithKey
  <2>4. RefOf(x, fm, id) \in Nat \ {0}
    BY <2>3, <1>1
  <2> QED
    BY <1>1, <2>1, <2>3, <2>4
<1>3. CASE WithKey(x, fm, id) = {}
  <2> DEFINE e == NewRecord(x, fm, id)
  <2>1. e \in Record /\ e.key = <<x, fm, id>>
    BY DEF NewRecord, Record
  <2>2. Created(x, fm, id) = Append(records, e) /\ RefOf(x, fm, id) = Len(records) + 1
    BY <1>3 DEF Created, RefOf, NewRecord
  <2> HIDE DEF e
  <2>3. /\ Append(records, e) \in Seq(Record)
        /\ DOMAIN records \subseteq DOMAIN Append(records, e)
        /\ \A r \in DOMAIN records : Append(records, e)[r] = records[r]
        /\ Append(records, e)[Len(records) + 1] = e
        /\ DOMAIN Append(records, e) = DOMAIN records \cup {Len(records) + 1}
    BY <1>1, <2>1, AppendFacts
  <2>4. Len(records) + 1 \in Nat \ {0}
    BY <1>1
  <2> QED
    BY <2>1, <2>2, <2>3, <2>4
<1> QED
  BY <1>2, <1>3

\* What raiseWorkOrder does to the store and to the CMMS, whether it succeeds or
\* fails: an order is stored after its record was created and when no other was
\* open, and the alert is linked to a stored order of its asset.
Raised(x, id, stored, fm) ==
  /\ records' \in {records, Created(x, fm, id)}
  /\ attempts' \in {attempts, [attempts EXCEPT ![id] = @ + 1]}
  /\ \/ orders' = orders
     \/ /\ orders' = Append(orders, NewOrder(x, fm, id, RefOf(x, fm, id)))
        /\ records' = Created(x, fm, id) /\ OpenOrders(x, fm) = {}
  /\ \/ alerts' = stored
     \/ \E w \in DOMAIN orders' :
          orders'[w].asset = x /\ alerts' = Link(stored, id, w)

LEMMA NewOrderType ==
  ASSUME TypeOK, NEW x \in Assets, NEW fm \in Modes, NEW id \in AlertIds
  PROVE  NewOrder(x, fm, id, RefOf(x, fm, id)) \in Order
<1>1. RefOf(x, fm, id) \in Nat \ {0}
  BY CreatedFacts
<1> QED
  BY <1>1 DEF NewOrder, Order

LEMMA RaiseEffect ==
  ASSUME TypeOK, NEW x \in Assets, NEW id \in AlertIds, NEW stored,
         NEW top \in Tops \cup {NoTop}, NEW failed \in BOOLEAN,
         RaiseWorkOrder(x, id, stored, top, failed)
  PROVE  Raised(x, id, stored, mode[top])
<1> DEFINE fm == mode[top]
           open == OpenOrders(x, fm)
           e == NewOrder(x, fm, id, RefOf(x, fm, id))
<1>1. fm \in Modes
  BY StateFacts, ModeType
<1>2. CASE alerts' = stored /\ UNCHANGED <<orders, records, attempts>>
  BY <1>2 DEF Raised
<1>3. CASE SkipOrder(id, stored, open, failed)
  <2>1. UNCHANGED <<orders, records, attempts>>
    BY <1>3 DEF SkipOrder
  <2>2. alerts' = stored \/ \E w \in open : alerts' = Link(stored, id, w)
    BY <1>3 DEF SkipOrder, AfterWrite
  <2>3. \A w \in open : w \in DOMAIN orders' /\ orders'[w].asset = x
    BY <2>1 DEF OpenOrders
  <2> QED
    BY <2>1, <2>2, <2>3 DEF Raised
<1>4. CASE Decides(stored[id], open) /\ CreateOrder(x, id, stored, fm, failed)
  <2>1. open = {} /\ attempts' = [attempts EXCEPT ![id] = @ + 1]
    BY <1>4 DEF Decides, CreateOrder
  <2>2. records' \in {records, Created(x, fm, id)}
    BY <1>4 DEF CreateOrder, AfterWrite
  <2>3. orders' = orders \/ (orders' = Append(orders, e) /\ records' = Created(x, fm, id))
    BY <1>4 DEF CreateOrder, AfterWrite
  <2>4. alerts' = stored
        \/ (orders' = Append(orders, e) /\ alerts' = Link(stored, id, Len(Append(orders, e))))
    BY <1>4 DEF CreateOrder, AfterWrite
  <2>5. /\ Len(Append(orders, e)) \in DOMAIN Append(orders, e)
        /\ Append(orders, e)[Len(Append(orders, e))].asset = x
    <3>1. e \in Order
      BY <1>1, NewOrderType
    <3>2. e.asset = x
      BY DEF NewOrder
    <3> HIDE DEF e
    <3>3. orders \in Seq(Order)
      BY StateFacts
    <3>4. /\ Len(Append(orders, e)) = Len(orders) + 1
          /\ Len(orders) + 1 \in DOMAIN Append(orders, e)
          /\ Append(orders, e)[Len(orders) + 1] = e
      BY <3>1, <3>3, AppendFacts
    <3> QED
      BY <3>2, <3>4
  <2> HIDE DEF e, fm, open
  <2>6. alerts' = stored
        \/ \E w \in DOMAIN orders' : orders'[w].asset = x /\ alerts' = Link(stored, id, w)
    BY <2>4, <2>5
  <2> QED
    BY <2>1, <2>2, <2>3, <2>6 DEF Raised, e, fm, open
<1> QED
  BY <1>2, <1>3, <1>4 DEF RaiseWorkOrder

\* Linking an alert changes nothing else of it, and of the others nothing.
LinkOnly(linked, stored, id, w) ==
  /\ linked \in Seq(Alert) /\ DOMAIN linked = DOMAIN stored /\ Len(linked) = Len(stored)
  /\ linked[id].order = w
  /\ linked[id].asset = stored[id].asset /\ linked[id].status = stored[id].status
  /\ linked[id].confident = stored[id].confident
  /\ linked[id].cleared = stored[id].cleared
  /\ \A j \in DOMAIN stored \ {id} : linked[j] = stored[j]

LEMMA LinkFacts ==
  ASSUME NEW stored \in Seq(Alert), NEW id \in DOMAIN stored, NEW w \in Nat
  PROVE  LinkOnly(Link(stored, id, w), stored, id, w)
<1> DEFINE e == [stored[id] EXCEPT !.order = w]
<1>1. stored[id] \in Alert
  OBVIOUS
<1>2. /\ e \in Alert /\ e.order = w /\ e.asset = stored[id].asset
      /\ e.status = stored[id].status /\ e.confident = stored[id].confident
      /\ e.cleared = stored[id].cleared
  BY <1>1 DEF Alert
<1>3. Link(stored, id, w) = [stored EXCEPT ![id] = e]
  BY DEF Link
<1> HIDE DEF e
<1>4. /\ [stored EXCEPT ![id] = e] \in Seq(Alert)
      /\ Len([stored EXCEPT ![id] = e]) = Len(stored)
      /\ DOMAIN [stored EXCEPT ![id] = e] = DOMAIN stored
      /\ [stored EXCEPT ![id] = e][id] = e
      /\ \A j \in DOMAIN stored \ {id} : [stored EXCEPT ![id] = e][j] = stored[j]
  BY <1>2, UpdateFacts
<1> QED
  BY <1>2, <1>3, <1>4 DEF LinkOnly

\* The alerts after raiseWorkOrder are those before it but for one link.
SameButOrder(stored) ==
  /\ DOMAIN alerts' = DOMAIN stored /\ Len(alerts') = Len(stored)
  /\ \A j \in DOMAIN stored :
       /\ alerts'[j].asset = stored[j].asset /\ alerts'[j].status = stored[j].status
       /\ alerts'[j].confident = stored[j].confident
       /\ alerts'[j].cleared = stored[j].cleared

LEMMA RaiseType ==
  ASSUME TypeOK, NEW x \in Assets, NEW fm \in Modes, NEW id \in AlertIds,
         NEW stored \in Seq(Alert), id \in DOMAIN stored, Raised(x, id, stored, fm)
  PROVE  /\ alerts' \in Seq(Alert) /\ SameButOrder(stored)
         /\ orders' \in Seq(Order) /\ records' \in Seq(Record)
         /\ attempts' \in [AlertIds -> Nat]
         /\ DOMAIN orders \subseteq DOMAIN orders' /\ DOMAIN records \subseteq DOMAIN records'
         /\ \A w \in DOMAIN orders : orders'[w] = orders[w]
         /\ \A r \in DOMAIN records : records'[r] = records[r]
<1> DEFINE e == NewOrder(x, fm, id, RefOf(x, fm, id))
<1>1. e \in Order
  BY NewOrderType
<1>2. /\ orders \in Seq(Order) /\ records \in Seq(Record)
      /\ attempts \in [AlertIds -> Nat]
  BY StateFacts
<1>3. orders' = orders \/ orders' = Append(orders, e)
  BY DEF Raised
<1> HIDE DEF e
<1>4. /\ orders' \in Seq(Order) /\ DOMAIN orders \subseteq DOMAIN orders'
      /\ \A w \in DOMAIN orders : orders'[w] = orders[w]
  <2>1. CASE orders' = orders
    BY <1>2, <2>1
  <2>2. CASE orders' = Append(orders, e)
    <3>1. /\ Append(orders, e) \in Seq(Order)
          /\ DOMAIN orders \subseteq DOMAIN Append(orders, e)
          /\ \A w \in DOMAIN orders : Append(orders, e)[w] = orders[w]
      BY <1>1, <1>2, AppendFacts
    <3> QED
      BY <2>2, <3>1
  <2> QED
    BY <1>3, <2>1, <2>2
<1>5. /\ records' \in Seq(Record) /\ DOMAIN records \subseteq DOMAIN records'
      /\ \A r \in DOMAIN records : records'[r] = records[r]
  BY <1>2, CreatedFacts DEF Raised
<1>6. attempts' \in [AlertIds -> Nat]
  <2>1. attempts' \in {attempts, [attempts EXCEPT ![id] = @ + 1]}
    BY DEF Raised
  <2>2. attempts[id] + 1 \in Nat
    BY <1>2
  <2> QED
    BY <1>2, <2>1, <2>2
<1>7. alerts' \in Seq(Alert) /\ SameButOrder(stored)
  <2>1. CASE alerts' = stored
    BY <2>1 DEF SameButOrder
  <2>2. CASE \E w \in DOMAIN orders' : alerts' = Link(stored, id, w)
    <3>1. PICK w \in DOMAIN orders' : alerts' = Link(stored, id, w)
      BY <2>2
    <3>2. w \in Nat
      BY <1>4
    <3>3. LinkOnly(Link(stored, id, w), stored, id, w)
      BY <3>2, LinkFacts
    <3>4. LinkOnly(alerts', stored, id, w)
      BY <3>1, <3>3
    <3>5. alerts' \in Seq(Alert) /\ DOMAIN alerts' = DOMAIN stored /\ Len(alerts') = Len(stored)
      BY <3>4 DEF LinkOnly
    <3>6. ASSUME NEW j \in DOMAIN stored
          PROVE  /\ alerts'[j].asset = stored[j].asset
                 /\ alerts'[j].status = stored[j].status
                 /\ alerts'[j].confident = stored[j].confident
                 /\ alerts'[j].cleared = stored[j].cleared
      <4>1. CASE j = id
        BY <3>4, <4>1 DEF LinkOnly
      <4>2. CASE j # id
        BY <3>4, <4>2 DEF LinkOnly
      <4> QED
        BY <4>1, <4>2
    <3> QED
      BY <3>5, <3>6 DEF SameButOrder
  <2> QED
    BY <2>1, <2>2 DEF Raised
<1> QED
  BY <1>4, <1>5, <1>6, <1>7

\* The stored alerts lead to orders of their asset, and are at least the alerts.
Linked(stored) ==
  /\ DOMAIN alerts \subseteq DOMAIN stored
  /\ \A i \in DOMAIN stored : stored[i].order # None =>
       stored[i].order \in DOMAIN orders /\ orders[stored[i].order].asset = stored[i].asset

LEMMA RaiseReferences ==
  ASSUME TypeOK, ReferencesResolve, RecordsResolve,
         NEW x \in Assets, NEW fm \in Modes, NEW id \in AlertIds,
         NEW stored \in Seq(Alert), id \in DOMAIN stored, stored[id].asset = x,
         Linked(stored), Raised(x, id, stored, fm)
  PROVE  ReferencesResolve' /\ RecordsResolve'
<1> DEFINE e == NewOrder(x, fm, id, RefOf(x, fm, id))
<1>1. /\ SameButOrder(stored) /\ orders' \in Seq(Order) /\ records' \in Seq(Record)
      /\ DOMAIN orders \subseteq DOMAIN orders' /\ DOMAIN records \subseteq DOMAIN records'
      /\ \A w \in DOMAIN orders : orders'[w] = orders[w]
      /\ \A r \in DOMAIN records : records'[r] = records[r]
  BY RaiseType
<1>2. DOMAIN alerts' = DOMAIN stored /\ DOMAIN alerts \subseteq DOMAIN alerts'
  BY <1>1 DEF SameButOrder, Linked
<1>3. ASSUME NEW i \in DOMAIN alerts', alerts'[i].order # None
      PROVE  /\ alerts'[i].order \in DOMAIN orders'
             /\ orders'[alerts'[i].order].asset = alerts'[i].asset
  <2>1. alerts'[i].asset = stored[i].asset /\ i \in DOMAIN stored
    BY <1>1, <1>2 DEF SameButOrder
  <2>2. CASE alerts'[i].order = stored[i].order
    <3>1. /\ stored[i].order \in DOMAIN orders
          /\ orders[stored[i].order].asset = stored[i].asset
      BY <1>3, <2>1, <2>2 DEF Linked
    <3> QED
      BY <3>1, <2>1, <2>2, <1>1
  <2>3. CASE alerts'[i].order # stored[i].order
    <3>1. PICK w \in DOMAIN orders' :
            orders'[w].asset = x /\ alerts' = Link(stored, id, w)
      BY <2>3 DEF Raised
    <3>2. w \in Nat
      BY <1>1
    <3>3. LinkOnly(Link(stored, id, w), stored, id, w)
      BY <3>2, LinkFacts
    <3>5. LinkOnly(alerts', stored, id, w)
      BY <3>1, <3>3
    <3>4. i = id
      BY <2>1, <2>3, <3>5 DEF LinkOnly
    <3>6. alerts'[i].order = w
      BY <3>4, <3>5 DEF LinkOnly
    <3> QED
      BY <2>1, <3>1, <3>4, <3>6
  <2> QED
    BY <2>2, <2>3
<1>4. ASSUME NEW w \in DOMAIN orders'
      PROVE  /\ orders'[w].alert \in DOMAIN alerts' /\ orders'[w].ref \in DOMAIN records'
             /\ records'[orders'[w].ref].key
                  = <<orders'[w].asset, orders'[w].fm, orders'[w].alert>>
  <2>1. CASE w \in DOMAIN orders
    <3>1. /\ orders[w].alert \in DOMAIN alerts /\ orders[w].ref \in DOMAIN records
          /\ records[orders[w].ref].key = <<orders[w].asset, orders[w].fm, orders[w].alert>>
      BY <2>1 DEF ReferencesResolve
    <3>2. orders'[w] = orders[w]
      BY <1>1, <2>1
    <3> QED
      BY <1>1, <1>2, <3>1, <3>2
  <2>2. CASE w \notin DOMAIN orders
    <3>1. orders' = Append(orders, e) /\ records' = Created(x, fm, id)
      BY <2>2 DEF Raised
    <3>2. e \in Order /\ orders \in Seq(Order)
      BY NewOrderType, StateFacts
    <3>3. /\ e.asset = x /\ e.fm = fm /\ e.alert = id /\ e.ref = RefOf(x, fm, id)
      BY DEF NewOrder
    <3> HIDE DEF e
    <3>4. orders'[w] = e
      BY <2>2, <3>1, <3>2, AppendFacts
    <3>5. /\ RefOf(x, fm, id) \in DOMAIN Created(x, fm, id)
          /\ Created(x, fm, id)[RefOf(x, fm, id)].key = <<x, fm, id>>
      BY CreatedFacts
    <3> QED
      BY <1>2, <3>1, <3>3, <3>4, <3>5
  <2> QED
    BY <2>1, <2>2
<1>5. ASSUME NEW r \in DOMAIN records' PROVE records'[r].key[3] \in DOMAIN alerts'
  <2>1. CASE r \in DOMAIN records
    <3>1. records[r].key[3] \in DOMAIN alerts /\ records'[r] = records[r]
      BY <2>1, <1>1 DEF RecordsResolve
    <3> QED
      BY <3>1, <1>2
  <2>2. CASE r \notin DOMAIN records
    <3>1. records' = Created(x, fm, id)
      BY <2>2 DEF Raised
    <3>2. records'[r].key = <<x, fm, id>>
      BY <2>2, <3>1, CreatedFacts
    <3> QED
      BY <3>2, <1>2
  <2> QED
    BY <2>1, <2>2
<1> QED
  BY <1>3, <1>4, <1>5 DEF ReferencesResolve, RecordsResolve

LEMMA RaiseOneOpen ==
  ASSUME TypeOK, AtMostOneOpen, NEW x \in Assets, NEW fm \in Modes, NEW id \in AlertIds,
         NEW stored, Raised(x, id, stored, fm)
  PROVE  AtMostOneOpen'
<1> DEFINE e == NewOrder(x, fm, id, RefOf(x, fm, id))
<1>1. CASE orders' = orders
  BY <1>1 DEF AtMostOneOpen
<1>2. CASE orders' = Append(orders, e) /\ OpenOrders(x, fm) = {}
  <2>1. e \in Order /\ orders \in Seq(Order)
    BY NewOrderType, StateFacts
  <2>2. e.asset = x /\ e.fm = fm
    BY DEF NewOrder
  <2>3. \A w \in DOMAIN orders :
          ~ (orders[w].asset = x /\ orders[w].fm = fm /\ orders[w].status = "open")
    BY <1>2 DEF OpenOrders
  <2>4. orders' = Append(orders, e)
    BY <1>2
  <2> HIDE DEF e
  <2>5. /\ DOMAIN orders' = DOMAIN orders \cup {Len(orders) + 1}
        /\ orders'[Len(orders) + 1] = e
        /\ \A w \in DOMAIN orders : orders'[w] = orders[w]
    BY <2>1, <2>4, AppendFacts
  <2> QED
    BY <2>2, <2>3, <2>5 DEF AtMostOneOpen
<1> QED
  BY <1>1, <1>2 DEF Raised

-----------------------------------------------------------------------------
\* What a change of one asset's memory keeps.

LEMMA AttemptsKept ==
  ASSUME mem \in [Assets -> Memory], AttemptsCounted, attempts' = attempts,
         DOMAIN alerts \subseteq DOMAIN alerts',
         NEW x \in Assets, NEW m \in Memory, mem' = [mem EXCEPT ![x] = m], Counted(m)
  PROVE  AttemptsCounted'
<1>1. mem'[x] = m /\ \A y \in Assets \ {x} : mem'[y] = mem[y]
  BY MemoryUpdate
<1>2. \A y \in Assets : Counted(mem[y])'
  BY <1>1 DEF AttemptsCounted, Counted
<1>3. \A i \in AlertIds \ DOMAIN alerts' : attempts'[i] = 0
  BY DEF AttemptsCounted
<1> QED
  BY <1>2, <1>3 DEF AttemptsCounted

\* An attempt for alert id of asset x, which m remembers as open.
LEMMA RaiseAttempts ==
  ASSUME TypeOK, Bounded, AttemptsBounded, AttemptsCounted, Remembered,
         NEW x \in Assets, NEW fm \in Modes, NEW id \in AlertIds, NEW stored,
         Raised(x, id, stored, fm),
         DOMAIN alerts \subseteq DOMAIN alerts', id \in DOMAIN alerts',
         id \in DOMAIN alerts => alerts[id].asset = x,
         attempts[id] <= MaxRetry,
         NEW m \in Memory, mem' = [mem EXCEPT ![x] = m], m.open = id,
         m.top # NoTop => attempts[id] <= m.retry
  PROVE  AttemptsBounded' /\ AttemptsCounted'
<1>1. /\ mem \in [Assets -> Memory] /\ attempts \in [AlertIds -> Nat] /\ MaxRetry \in Nat
      /\ attempts[id] \in Nat
  BY StateFacts
<1>2. mem'[x] = m /\ \A y \in Assets \ {x} : mem'[y] = mem[y]
  BY <1>1, MemoryUpdate
<1>3. /\ attempts'[id] \in {attempts[id], attempts[id] + 1}
      /\ \A i \in AlertIds \ {id} : attempts'[i] = attempts[i]
  <2>1. CASE attempts' = attempts
    BY <2>1
  <2>2. CASE attempts' = [attempts EXCEPT ![id] = @ + 1]
    BY <1>1, <2>2
  <2> QED
    BY <2>1, <2>2 DEF Raised
<1>4. AttemptsBounded'
  <2>1. attempts'[id] <= 1 + MaxRetry
    BY <1>1, <1>3
  <2> QED
    BY <1>3, <2>1 DEF AttemptsBounded
<1>5. ASSUME NEW i \in AlertIds \ DOMAIN alerts' PROVE attempts'[i] = 0
  <2>1. i # id /\ attempts[i] = 0
    BY DEF AttemptsCounted
  <2> QED
    BY <1>3, <2>1
<1>6. ASSUME NEW y \in Assets PROVE Counted(mem[y])'
  <2>1. CASE y = x
    <3>1. m.retry \in Nat
      BY DEF Memory
    <3>2. m.top # NoTop => attempts'[id] <= 1 + m.retry
      BY <1>1, <1>3, <3>1
    <3> QED
      BY <2>1, <1>2, <3>2 DEF Counted
  <2>2. CASE y # x
    <3>1. mem'[y] = mem[y] /\ Consistent(mem[y], y) /\ Counted(mem[y])
      BY <2>2, <1>2 DEF Remembered, AttemptsCounted
    <3>2. CASE mem[y].open # None
      <4>1. mem[y].open # id /\ mem[y].open \in DOMAIN alerts
        BY <2>2, <3>1, <3>2 DEF Consistent
      <4>2. mem[y].open \in AlertIds
        BY <4>1, IdFacts
      <4>3. attempts'[mem[y].open] = attempts[mem[y].open]
        BY <1>3, <4>1, <4>2
      <4> QED
        BY <3>1, <4>3 DEF Counted
    <3>3. CASE mem[y].open = None
      BY <3>1, <3>3 DEF Counted
    <3> QED
      BY <3>2, <3>3
  <2> QED
    BY <2>1, <2>2
<1> QED
  BY <1>4, <1>5, <1>6 DEF AttemptsCounted

\* No alert is judged in the step, and memory and snapshots keep the verdicts.
LEMMA VerdictKept ==
  ASSUME VerdictSurvives, unheard' = unheard, snaps' = snaps,
         \A i \in DOMAIN alerts' : alerts'[i].status # "open" =>
           /\ i \in DOMAIN alerts /\ alerts[i].status # "open"
           /\ alerts'[i].asset = alerts[i].asset
           /\ mem[alerts[i].asset].known =>
                /\ mem'[alerts[i].asset].known
                /\ mem'[alerts[i].asset].moves = mem[alerts[i].asset].moves
  PROVE  VerdictSurvives'
  BY DEF VerdictSurvives

\* A step that may have failed leaves nothing to say of what never fails.
LEMMA AfterFault ==
  ASSUME faults' # 0
  PROVE  MemoryAgrees' /\ FaultFree'
  BY DEF MemoryAgrees, FaultFree

LEMMA FaultFacts ==
  ASSUME TypeOK, NEW n \in Nat, Faults(n)
  PROVE  faults' \in Nat /\ (faults' = 0 => faults = 0 /\ n = 0)
  BY StateFacts DEF Faults

\* A step that changes the memory of one asset only, and its verdicts not.
LEMMA MemoryStep ==
  ASSUME IInv, NEW x \in Assets, NEW m \in Memory, mem' = [mem EXCEPT ![x] = m],
         UNCHANGED <<mode, alerts, orders, snaps, records, attempts, unheard>>,
         Consistent(m, x), Counted(m),
         m.known /\ (mem[x].known => m.moves = mem[x].moves),
         faults' \in Nat,
         faults' = 0 => /\ faults = 0 /\ Calm(m)
                        /\ mem[x].known => m.open = mem[x].open
  PROVE  IInv'
<1>1. TypeOK /\ mem \in [Assets -> Memory]
  BY StateFacts DEF IInv
<1>2. /\ mem' \in [Assets -> Memory] /\ mem'[x] = m
      /\ \A y \in Assets \ {x} : mem'[y] = mem[y]
  BY <1>1, MemoryUpdate
<1>3. TypeOK'
  BY <1>1, <1>2 DEF TypeOK
<1>4. /\ Bounded' /\ ReferencesResolve' /\ RecordsResolve' /\ AtMostOneOpen'
      /\ AttemptsBounded' /\ AlertsKept
  BY StoreKept
<1>5. Remembered'
  <2>1. Consistent(m, x)'
    BY DEF Consistent
  <2> QED
    BY <1>1, <1>4, <2>1, RememberedKept DEF IInv
<1>6. AttemptsCounted'
  BY <1>1, AttemptsKept DEF IInv
<1>7. \A y \in Assets :
        mem[y].known => mem'[y].known /\ mem'[y].moves = mem[y].moves
  BY <1>2
<1>8. \A i \in DOMAIN alerts : alerts[i].asset \in Assets
  BY <1>1, StateFacts DEF Alert
<1>9. VerdictSurvives'
  BY <1>7, <1>8, VerdictKept DEF IInv
<1>10. CASE faults' # 0
  BY <1>3, <1>4, <1>5, <1>6, <1>9, <1>10, AfterFault DEF IInv
<1>11. CASE faults' = 0
  <2>1. faults = 0 /\ Calm(m) /\ (mem[x].known => m.open = mem[x].open)
    BY <1>11
  <2>2. /\ \A y \in Assets : Calm(mem[y])
        /\ \A i \in DOMAIN alerts : mem[alerts[i].asset].known
    BY <2>1 DEF IInv, MemoryAgrees
  <2>3. MemoryAgrees'
    <3>1. \A y \in Assets : Calm(mem[y])'
      BY <1>2, <2>1, <2>2 DEF Calm
    <3>2. \A i \in DOMAIN alerts' : mem'[alerts'[i].asset].known
      BY <1>7, <1>8, <2>2
    <3> QED
      BY <3>1, <3>2 DEF MemoryAgrees
  <2>4. \A i \in DOMAIN alerts : mem'[alerts[i].asset].open = mem[alerts[i].asset].open
    BY <1>2, <1>8, <2>1, <2>2
  <2>5. FaultFree'
    BY <2>1, <2>4 DEF IInv, FaultFree, Live
  <2> QED
    BY <1>3, <1>4, <1>5, <1>6, <1>9, <2>3, <2>5 DEF IInv
<1> QED
  BY <1>10, <1>11

LEMMA MemoryFields ==
  ASSUME TypeOK, NEW x \in Assets
  PROVE  /\ mem[x] \in Memory /\ mem[x].known \in BOOLEAN /\ mem[x].open \in 0..MaxAlerts
         /\ mem[x].phase \in {"quiet", "alerted", "withheld"}
         /\ mem[x].top \in Tops \cup {NoTop} /\ mem[x].retry \in 0..MaxRetry
         /\ mem[x].moves \in [AlertIds -> Nat] /\ mem[x].retry \in Nat
<1>1. mem[x] \in Memory /\ MaxRetry \in Nat
  BY StateFacts
<1> QED
  BY <1>1 DEF Memory

LEMMA IdleFacts ==
  ASSUME NEW known \in BOOLEAN, NEW moves \in [AlertIds -> Nat]
  PROVE  /\ Idle(known, moves) \in Memory
         /\ Idle(known, moves).known = known /\ Idle(known, moves).phase = "quiet"
         /\ Idle(known, moves).open = None /\ Idle(known, moves).top = NoTop
         /\ Idle(known, moves).moves = moves
  BY WorkOrdersAssumption DEF Idle, Memory, None

-----------------------------------------------------------------------------
\* The steps that leave the store alone.

LEMMA RegisterStep ==
  ASSUME IInv, NEW x \in Assets, Register(x)
  PROVE  IInv'
<1> DEFINE m == Idle(TRUE, NoMoves)
<1>1. NoMoves \in [AlertIds -> Nat]
  BY DEF NoMoves
<1>2. /\ m \in Memory /\ m.known /\ m.phase = "quiet" /\ m.open = None /\ m.top = NoTop
  BY <1>1, IdleFacts
<1>3. /\ ~ mem[x].known /\ mem' = [mem EXCEPT ![x] = m] /\ faults' = faults
      /\ UNCHANGED <<mode, alerts, orders, snaps, records, attempts, unheard>>
  BY DEF Register
<1> HIDE DEF m
<1>4. Consistent(m, x) /\ Counted(m) /\ Calm(m)
  BY <1>2 DEF Consistent, Counted, Calm
<1>5. faults' \in Nat
  BY <1>3, StateFacts DEF IInv
<1> QED
  BY <1>2, <1>3, <1>4, <1>5, MemoryStep

LEMMA WithholdStep ==
  ASSUME IInv, NEW x \in Assets, Withhold(x)
  PROVE  IInv'
<1> DEFINE m == [mem[x] EXCEPT !.phase = "withheld"]
<1>1. TypeOK /\ mem[x] \in Memory
  BY MemoryFields DEF IInv
<1>2. /\ mem[x].known /\ mem[x].phase = "quiet" /\ mem' = [mem EXCEPT ![x] = m]
      /\ faults' = faults
      /\ UNCHANGED <<mode, alerts, orders, snaps, records, attempts, unheard>>
  BY DEF Withhold
<1>3. /\ m \in Memory /\ m.known = mem[x].known /\ m.phase = "withheld"
      /\ m.open = mem[x].open /\ m.top = mem[x].top /\ m.moves = mem[x].moves
  BY <1>1 DEF Memory
<1> HIDE DEF m
<1>4. Consistent(mem[x], x)
  BY DEF IInv, Remembered
<1>5. Consistent(m, x)
  BY <1>2, <1>3, <1>4 DEF Consistent
<1>6. Counted(m)
  BY <1>2, <1>3, <1>4 DEF Consistent, Counted
<1>7. faults = 0 => Calm(m)
  BY <1>3 DEF IInv, MemoryAgrees, Calm
<1>8. faults' \in Nat
  BY <1>1, <1>2, StateFacts
<1> QED
  BY <1>2, <1>3, <1>5, <1>6, <1>7, <1>8, MemoryStep

LEMMA RetryUnreadStep ==
  ASSUME IInv, NEW x \in Assets, RetryUnread(x)
  PROVE  IInv'
<1> DEFINE m == [mem[x] EXCEPT !.retry = @ + 1]
<1>1. /\ TypeOK /\ mem[x] \in Memory /\ mem[x].retry \in Nat /\ MaxRetry \in Nat
      /\ faults \in Nat
  BY MemoryFields, StateFacts DEF IInv
<1>2. /\ mem[x].phase # "quiet" /\ mem[x].top # NoTop /\ mem[x].open # None
      /\ mem[x].retry < MaxRetry
  BY DEF RetryUnread, MayRetry
<1>3. /\ mem' = [mem EXCEPT ![x] = m] /\ faults' = faults + 1
      /\ UNCHANGED <<mode, alerts, orders, snaps, records, attempts, unheard>>
  BY DEF RetryUnread, Faults
<1>4. mem[x].retry + 1 \in 0..MaxRetry
  BY <1>1, <1>2
<1>5. /\ m \in Memory /\ m.known = mem[x].known /\ m.phase = mem[x].phase
      /\ m.open = mem[x].open /\ m.top = mem[x].top /\ m.moves = mem[x].moves
      /\ m.retry = mem[x].retry + 1
  BY <1>1, <1>4 DEF Memory
<1> HIDE DEF m
<1>6. Consistent(mem[x], x) /\ Counted(mem[x])
  BY DEF IInv, Remembered, AttemptsCounted
<1>7. Consistent(m, x) /\ m.known
  BY <1>2, <1>5, <1>6, MemoryFields, <1>1 DEF Consistent
<1>8. Counted(m)
  <2>1. attempts[m.open] <= 1 + mem[x].retry /\ m.open \in DOMAIN alerts
    BY <1>2, <1>5, <1>6 DEF Counted, Consistent
  <2>2. attempts[m.open] \in Nat
    BY <1>1, <2>1, IdFacts, StateFacts DEF IInv
  <2> QED
    BY <1>1, <1>5, <2>1, <2>2 DEF Counted
<1>9. faults' \in Nat /\ faults' # 0
  BY <1>1, <1>3
<1> QED
  BY <1>3, <1>5, <1>7, <1>8, <1>9, MemoryStep

LEMMA PutTemplateStep ==
  ASSUME IInv, NEW t \in ModeMaps, PutTemplate(t)
  PROVE  IInv'
<1>1. /\ mode' = t
      /\ UNCHANGED <<mem, alerts, orders, snaps, records, attempts, unheard, faults>>
  BY DEF PutTemplate
<1>2. /\ Bounded' /\ ReferencesResolve' /\ RecordsResolve' /\ AtMostOneOpen'
      /\ AttemptsBounded'
  BY <1>1, StoreKept
<1>3. TypeOK'
  BY <1>1 DEF IInv, TypeOK
<1>4. Remembered' /\ AttemptsCounted'
  BY <1>1 DEF IInv, Remembered, Consistent, AttemptsCounted, Counted
<1>5. VerdictSurvives'
  BY <1>1 DEF IInv, VerdictSurvives
<1>6. MemoryAgrees'
  BY <1>1 DEF IInv, MemoryAgrees, Calm
<1>7. FaultFree'
  BY <1>1 DEF IInv, FaultFree, Live
<1> QED
  BY <1>2, <1>3, <1>4, <1>5, <1>6, <1>7 DEF IInv

\* The snapshot of one asset is written, or stays as it was.
Snapped(x, moves, saved) ==
  /\ DOMAIN saved = DOMAIN snaps \cup {x} /\ DOMAIN saved \subseteq Assets
  /\ saved[x] = moves
  /\ \A y \in DOMAIN snaps \ {x} : saved[y] = snaps[y]
  /\ \A y \in DOMAIN saved : saved[y] \in [AlertIds -> Nat]

LEMMA SnapshotFacts ==
  ASSUME TypeOK, NEW x \in Assets, NEW moves \in [AlertIds -> Nat]
  PROVE  Snapped(x, moves, WithSnapshot(x, moves))
<1>1. /\ DOMAIN snaps \subseteq Assets
      /\ \A y \in DOMAIN snaps : snaps[y] \in [AlertIds -> Nat]
  BY DEF TypeOK
<1> QED
  BY <1>1 DEF WithSnapshot, Snapped

LEMMA WarmStep ==
  ASSUME IInv, NEW x \in Assets, Warm(x)
  PROVE  IInv'
<1>1. /\ snaps' = WithSnapshot(x, mem[x].moves)
      /\ UNCHANGED <<mem, mode, alerts, orders, records, attempts, unheard, faults>>
  BY DEF Warm
<1>2. TypeOK /\ mem[x].moves \in [AlertIds -> Nat]
  BY MemoryFields DEF IInv
<1>3. Snapped(x, mem[x].moves, snaps')
  BY <1>1, <1>2, SnapshotFacts
<1>4. /\ Bounded' /\ ReferencesResolve' /\ RecordsResolve' /\ AtMostOneOpen'
      /\ AttemptsBounded'
  BY <1>1, StoreKept
<1>5. TypeOK'
  BY <1>1, <1>2, <1>3 DEF TypeOK, Snapped
<1>6. Remembered' /\ AttemptsCounted'
  BY <1>1 DEF IInv, Remembered, Consistent, AttemptsCounted, Counted
<1>7. VerdictSurvives'
  BY <1>1, <1>3 DEF IInv, VerdictSurvives, Snapped
<1>8. MemoryAgrees'
  BY <1>1 DEF IInv, MemoryAgrees, Calm
<1>9. FaultFree'
  BY <1>1 DEF IInv, FaultFree, Live
<1> QED
  BY <1>4, <1>5, <1>6, <1>7, <1>8, <1>9 DEF IInv

\* After a restart the episodes are forgotten and the snapshots are in memory.
LEMMA CrashStep ==
  ASSUME IInv, Crash
  PROVE  IInv'
<1>1. /\ mem' = [x \in Assets |-> IF x \in DOMAIN snaps THEN Idle(TRUE, snaps[x])
                                  ELSE Idle(FALSE, NoMoves)]
      /\ faults' = faults + 1
      /\ UNCHANGED <<mode, alerts, orders, snaps, records, attempts, unheard>>
  BY DEF Crash, Faults
<1>2. TypeOK /\ faults \in Nat
  BY StateFacts DEF IInv
<1>3. /\ NoMoves \in [AlertIds -> Nat]
      /\ \A x \in DOMAIN snaps : snaps[x] \in [AlertIds -> Nat]
  BY <1>2 DEF TypeOK, NoMoves
<1>4. ASSUME NEW x \in Assets
      PROVE  /\ mem'[x] \in Memory /\ mem'[x].phase = "quiet"
             /\ mem'[x].open = None /\ mem'[x].top = NoTop
             /\ x \in DOMAIN snaps => mem'[x].known /\ mem'[x].moves = snaps[x]
  <2>1. CASE x \in DOMAIN snaps
    <3>1. mem'[x] = Idle(TRUE, snaps[x])
      BY <1>1, <2>1
    <3>2. snaps[x] \in [AlertIds -> Nat]
      BY <1>3, <2>1
    <3>3. /\ Idle(TRUE, snaps[x]) \in Memory
          /\ Idle(TRUE, snaps[x]).phase = "quiet" /\ Idle(TRUE, snaps[x]).known
          /\ Idle(TRUE, snaps[x]).open = None /\ Idle(TRUE, snaps[x]).top = NoTop
          /\ Idle(TRUE, snaps[x]).moves = snaps[x]
      BY <3>2, IdleFacts
    <3> QED
      BY <3>1, <3>3
  <2>2. CASE x \notin DOMAIN snaps
    <3>1. mem'[x] = Idle(FALSE, NoMoves)
      BY <1>1, <2>2
    <3>2. /\ Idle(FALSE, NoMoves) \in Memory /\ Idle(FALSE, NoMoves).phase = "quiet"
          /\ Idle(FALSE, NoMoves).open = None /\ Idle(FALSE, NoMoves).top = NoTop
      BY <1>3, IdleFacts
    <3> QED
      BY <2>2, <3>1, <3>2
  <2> QED
    BY <2>1, <2>2
<1>5. TypeOK'
  <2>1. mem' \in [Assets -> Memory]
    <3>1. \A x \in Assets : mem'[x] \in Memory
      BY <1>4
    <3>2. mem' = [x \in Assets |-> mem'[x]]
      BY <1>1
    <3> QED
      BY <3>1, <3>2
  <2>2. faults' \in Nat
    BY <1>1, <1>2
  <2> QED
    BY <1>1, <1>2, <2>1, <2>2 DEF TypeOK
<1>6. /\ Bounded' /\ ReferencesResolve' /\ RecordsResolve' /\ AtMostOneOpen'
      /\ AttemptsBounded'
  BY <1>1, StoreKept
<1>7. Remembered'
  BY <1>4 DEF Remembered, Consistent
<1>8. AttemptsCounted'
  BY <1>1, <1>4 DEF IInv, AttemptsCounted, Counted
<1>9. VerdictSurvives'
  <2>1. \A i \in DOMAIN alerts : alerts[i].asset \in Assets
    BY <1>2, StateFacts DEF Alert
  <2> QED
    BY <1>1, <1>4, <2>1 DEF IInv, VerdictSurvives
<1>10. faults' # 0
  BY <1>1, <1>2
<1> QED
  BY <1>5, <1>6, <1>7, <1>8, <1>9, <1>10, AfterFault DEF IInv

-----------------------------------------------------------------------------
\* Steps that mark an alert: judged, or cleared.

\* The alerts are those there were, for the same assets, with the same links.
AlertsMarked ==
  /\ alerts' \in Seq(Alert) /\ DOMAIN alerts' = DOMAIN alerts
  /\ Len(alerts') = Len(alerts)
  /\ \A i \in DOMAIN alerts :
       /\ alerts'[i].asset = alerts[i].asset /\ alerts'[i].order = alerts[i].order
       /\ alerts'[i].confident = alerts[i].confident

\* The end of an episode is noted, the verdicts stay.
AlertCleared(id) ==
  /\ AlertsMarked
  /\ \A i \in DOMAIN alerts : alerts'[i].status = alerts[i].status
  /\ alerts'[id].cleared
  /\ \A i \in DOMAIN alerts : alerts[i].cleared => alerts'[i].cleared

LEMMA ClearedFacts ==
  ASSUME TypeOK, NEW id \in DOMAIN alerts,
         alerts' = [alerts EXCEPT ![id].cleared = TRUE]
  PROVE  AlertCleared(id)
<1> DEFINE e == [alerts[id] EXCEPT !.cleared = TRUE]
<1>1. alerts \in Seq(Alert) /\ alerts[id] \in Alert
  BY StateFacts
<1>2. /\ e \in Alert /\ e.asset = alerts[id].asset /\ e.order = alerts[id].order
      /\ e.confident = alerts[id].confident /\ e.status = alerts[id].status
      /\ e.cleared
  BY <1>1 DEF Alert
<1>3. alerts' = [alerts EXCEPT ![id] = e]
  OBVIOUS
<1> HIDE DEF e
<1>4. /\ alerts' \in Seq(Alert) /\ Len(alerts') = Len(alerts)
      /\ DOMAIN alerts' = DOMAIN alerts /\ alerts'[id] = e
      /\ \A j \in DOMAIN alerts \ {id} : alerts'[j] = alerts[j]
  <2> DEFINE new == [alerts EXCEPT ![id] = e]
  <2>1. /\ new \in Seq(Alert) /\ Len(new) = Len(alerts)
        /\ DOMAIN new = DOMAIN alerts /\ new[id] = e
        /\ \A j \in DOMAIN alerts \ {id} : new[j] = alerts[j]
    BY <1>1, <1>2, UpdateFacts
  <2>2. alerts' = new
    BY <1>3
  <2> HIDE DEF new
  <2> QED
    BY <2>1, <2>2
<1> QED
  BY <1>2, <1>4 DEF AlertCleared, AlertsMarked

\* A verdict is noted, the cleared episodes stay cleared.
AlertJudged(id) ==
  /\ AlertsMarked
  /\ alerts'[id].status # "open"
  /\ \A i \in DOMAIN alerts \ {id} : alerts'[i].status = alerts[i].status
  /\ \A i \in DOMAIN alerts : alerts'[i].cleared = alerts[i].cleared

LEMMA JudgedFacts ==
  ASSUME TypeOK, NEW id \in DOMAIN alerts, NEW verdict \in {"confirm", "dismiss"},
         alerts' = Judged(id, verdict)
  PROVE  /\ AlertJudged(id)
         /\ alerts'[id].status = "dismissed" => verdict = "dismiss"
<1> DEFINE e == [alerts[id] EXCEPT !.status = Judgement[verdict]]
<1>1. alerts \in Seq(Alert) /\ alerts[id] \in Alert
  BY StateFacts
<1>2. /\ Judgement[verdict] \in {"confirmed", "dismissed"}
      /\ Judgement[verdict] = "dismissed" => verdict = "dismiss"
  BY DEF Judgement
<1>3. /\ e \in Alert /\ e.asset = alerts[id].asset /\ e.order = alerts[id].order
      /\ e.confident = alerts[id].confident /\ e.cleared = alerts[id].cleared
      /\ e.status = Judgement[verdict]
  BY <1>1, <1>2 DEF Alert
<1>4. alerts' = [alerts EXCEPT ![id] = e]
  BY DEF Judged
<1> HIDE DEF e
<1>5. /\ alerts' \in Seq(Alert) /\ Len(alerts') = Len(alerts)
      /\ DOMAIN alerts' = DOMAIN alerts /\ alerts'[id] = e
      /\ \A j \in DOMAIN alerts \ {id} : alerts'[j] = alerts[j]
  <2> DEFINE new == [alerts EXCEPT ![id] = e]
  <2>1. /\ new \in Seq(Alert) /\ Len(new) = Len(alerts)
        /\ DOMAIN new = DOMAIN alerts /\ new[id] = e
        /\ \A j \in DOMAIN alerts \ {id} : new[j] = alerts[j]
    BY <1>1, <1>3, UpdateFacts
  <2>2. alerts' = new
    BY <1>4
  <2> HIDE DEF new
  <2> QED
    BY <2>1, <2>2
<1> QED
  BY <1>2, <1>3, <1>5 DEF AlertJudged, AlertsMarked

LEMMA NothingMarked ==
  ASSUME TypeOK, alerts' = alerts
  PROVE  AlertsMarked
  BY StateFacts DEF AlertsMarked

LEMMA MarkedKept ==
  ASSUME IInv, AlertsMarked, UNCHANGED <<orders, records>>
  PROVE  /\ Bounded' /\ ReferencesResolve' /\ RecordsResolve' /\ AtMostOneOpen'
         /\ AlertsKept
<1>1. Bounded' /\ AlertsKept
  BY DEF IInv, Bounded, AlertsMarked, AlertsKept
<1>2. ReferencesResolve'
  BY DEF IInv, ReferencesResolve, AlertsMarked
<1>3. RecordsResolve' /\ AtMostOneOpen'
  BY DEF IInv, RecordsResolve, AtMostOneOpen, AlertsMarked
<1> QED
  BY <1>1, <1>2, <1>3

\* What memory m of x is after its episode is over; open is kept when the alert
\* could not be written.
LEMMA ClearMemory ==
  ASSUME IInv, NEW x \in Assets, mem[x].phase # "quiet",
         NEW open \in {None, mem[x].open}, NEW m,
         m = [mem[x] EXCEPT !.phase = "quiet", !.top = NoTop, !.open = open]
  PROVE  /\ m \in Memory /\ Consistent(m, x) /\ Counted(m) /\ m.known
         /\ m.moves = mem[x].moves /\ m.open = open /\ m.top = NoTop
<1>1. TypeOK /\ mem[x] \in Memory /\ None \in 0..MaxAlerts /\ open \in 0..MaxAlerts
  BY MemoryFields, StateFacts DEF IInv, None
<1>2. Consistent(mem[x], x)
  BY DEF IInv, Remembered
<1>3. /\ m \in Memory /\ m.known = mem[x].known /\ m.phase = "quiet" /\ m.open = open
      /\ m.top = NoTop /\ m.moves = mem[x].moves
  BY <1>1 DEF Memory
<1>4. mem[x].known
  BY <1>1, <1>2, MemoryFields DEF Consistent
<1> QED
  BY <1>2, <1>3, <1>4 DEF Consistent, Counted

LEMMA ClearUnsavedStep ==
  ASSUME IInv, NEW x \in Assets, ClearUnsaved(x)
  PROVE  IInv'
<1> PICK m : m = [mem[x] EXCEPT !.phase = "quiet", !.top = NoTop, !.open = mem[x].open]
  OBVIOUS
<1>1. /\ mem[x].phase # "quiet" /\ mem[x].open # None
      /\ alerts' \in {alerts, [alerts EXCEPT ![mem[x].open].cleared = TRUE]}
      /\ mem' = [mem EXCEPT ![x] = [mem[x] EXCEPT !.phase = "quiet", !.top = NoTop]]
      /\ faults' = faults + 1
      /\ UNCHANGED <<mode, orders, snaps, records, attempts, unheard>>
  BY DEF ClearUnsaved, AfterWrite, Faults
<1>2. /\ TypeOK /\ mem \in [Assets -> Memory] /\ faults \in Nat /\ mem[x] \in Memory
      /\ Consistent(mem[x], x)
  BY StateFacts DEF IInv, Remembered
<1>3. mem' = [mem EXCEPT ![x] = m]
  <2>1. [mem[x] EXCEPT !.phase = "quiet", !.top = NoTop] = m
    BY <1>2 DEF Memory
  <2> QED
    BY <1>1, <2>1
<1>4. /\ m \in Memory /\ Consistent(m, x) /\ Counted(m) /\ m.known
      /\ m.moves = mem[x].moves /\ m.open = mem[x].open
  BY <1>1, ClearMemory
<1>5. AlertsMarked /\ \A i \in DOMAIN alerts : alerts'[i].status = alerts[i].status
  <2>1. mem[x].open \in DOMAIN alerts
    BY <1>1, <1>2 DEF Consistent
  <2> QED
    BY <1>1, <1>2, <2>1, NothingMarked, ClearedFacts DEF AlertCleared
<1>6. /\ Bounded' /\ ReferencesResolve' /\ RecordsResolve' /\ AtMostOneOpen'
      /\ AlertsKept
  BY <1>1, <1>5, MarkedKept
<1>7. /\ mem' \in [Assets -> Memory] /\ mem'[x] = m
      /\ \A y \in Assets \ {x} : mem'[y] = mem[y]
  BY <1>2, <1>3, <1>4, MemoryUpdate
<1>8. TypeOK'
  <2>1. faults' \in Nat /\ alerts' \in Seq(Alert)
    BY <1>1, <1>2, <1>5 DEF AlertsMarked
  <2> QED
    BY <1>1, <1>2, <1>7, <2>1 DEF TypeOK
<1>9. Remembered'
  <2>1. Consistent(m, x)'
    BY <1>4, <1>6 DEF Consistent, AlertsKept
  <2> QED
    BY <1>2, <1>3, <1>4, <1>6, <2>1, RememberedKept DEF IInv
<1>10. AttemptsBounded' /\ AttemptsCounted'
  <2>1. DOMAIN alerts \subseteq DOMAIN alerts' /\ attempts' = attempts
    BY <1>1, <1>6 DEF AlertsKept
  <2> QED
    BY <1>2, <1>3, <1>4, <2>1, AttemptsKept DEF IInv, AttemptsBounded
<1>11. VerdictSurvives'
  <2>1. \A y \in Assets : mem[y].known => mem'[y].known /\ mem'[y].moves = mem[y].moves
    BY <1>4, <1>7
  <2>2. \A i \in DOMAIN alerts : alerts[i].asset \in Assets
    BY <1>2, StateFacts DEF Alert
  <2> QED
    BY <1>1, <1>5, <2>1, <2>2, VerdictKept DEF IInv, AlertsMarked
<1>12. faults' # 0
  BY <1>1, <1>2
<1> QED
  BY <1>6, <1>8, <1>9, <1>10, <1>11, <1>12, AfterFault DEF IInv

LEMMA ClearStep ==
  ASSUME IInv, NEW x \in Assets, Clear(x)
  PROVE  IInv'
<1> PICK m : m = [mem[x] EXCEPT !.phase = "quiet", !.top = NoTop, !.open = None]
  OBVIOUS
<1>1. /\ mem[x].phase # "quiet" /\ mem' = [mem EXCEPT ![x] = m]
      /\ alerts' = IF mem[x].open = None THEN alerts
                   ELSE [alerts EXCEPT ![mem[x].open].cleared = TRUE]
      /\ UNCHANGED <<mode, orders, snaps, records, attempts, unheard, faults>>
  BY DEF Clear
<1>2. /\ TypeOK /\ mem \in [Assets -> Memory] /\ faults \in Nat
      /\ Consistent(mem[x], x)
  BY StateFacts DEF IInv, Remembered
<1>3. /\ m \in Memory /\ Consistent(m, x) /\ Counted(m) /\ m.known
      /\ m.moves = mem[x].moves /\ m.open = None /\ m.top = NoTop
  BY <1>1, ClearMemory
<1>4. /\ AlertsMarked /\ \A i \in DOMAIN alerts : alerts'[i].status = alerts[i].status
      /\ \A i \in DOMAIN alerts : alerts[i].cleared => alerts'[i].cleared
      /\ mem[x].open # None => alerts'[mem[x].open].cleared
  <2>1. CASE mem[x].open = None
    BY <1>1, <1>2, <2>1, NothingMarked
  <2>2. CASE mem[x].open # None
    <3>1. mem[x].open \in DOMAIN alerts
      BY <1>2, <2>2 DEF Consistent
    <3> QED
      BY <1>1, <1>2, <2>2, <3>1, ClearedFacts DEF AlertCleared
  <2> QED
    BY <2>1, <2>2
<1>5. /\ Bounded' /\ ReferencesResolve' /\ RecordsResolve' /\ AtMostOneOpen'
      /\ AlertsKept
  BY <1>1, <1>4, MarkedKept
<1>6. /\ mem' \in [Assets -> Memory] /\ mem'[x] = m
      /\ \A y \in Assets \ {x} : mem'[y] = mem[y]
  BY <1>1, <1>2, <1>3, MemoryUpdate
<1>7. TypeOK'
  <2>1. alerts' \in Seq(Alert)
    BY <1>4 DEF AlertsMarked
  <2> QED
    BY <1>1, <1>2, <1>6, <2>1 DEF TypeOK
<1>8. Remembered'
  <2>1. Consistent(m, x)'
    BY <1>3, <1>5 DEF Consistent, AlertsKept
  <2> QED
    BY <1>1, <1>2, <1>3, <1>5, <2>1, RememberedKept DEF IInv
<1>9. AttemptsBounded' /\ AttemptsCounted'
  <2>1. DOMAIN alerts \subseteq DOMAIN alerts' /\ attempts' = attempts
    BY <1>1, <1>5 DEF AlertsKept
  <2> QED
    BY <1>1, <1>2, <1>3, <2>1, AttemptsKept DEF IInv, AttemptsBounded
<1>10. \A i \in DOMAIN alerts : alerts[i].asset \in Assets
  BY <1>2, StateFacts DEF Alert
<1>11. \A y \in Assets : mem[y].known => mem'[y].known /\ mem'[y].moves = mem[y].moves
  BY <1>3, <1>6
<1>12. VerdictSurvives'
  BY <1>1, <1>4, <1>10, <1>11, VerdictKept DEF IInv, AlertsMarked
<1>13. MemoryAgrees'
  <2>1. ASSUME faults = 0 PROVE \A y \in Assets : Calm(mem[y])'
    <3>1. \A y \in Assets : Calm(mem[y])
      BY <2>1 DEF IInv, MemoryAgrees
    <3> QED
      BY <1>3, <1>6, <3>1 DEF Calm
  <2>2. ASSUME faults = 0 PROVE \A i \in DOMAIN alerts' : mem'[alerts'[i].asset].known
    <3>1. \A i \in DOMAIN alerts : mem[alerts[i].asset].known
      BY <2>2 DEF IInv, MemoryAgrees
    <3> QED
      BY <1>4, <1>10, <1>11, <3>1 DEF AlertsMarked
  <2> QED
    BY <1>1, <2>1, <2>2 DEF MemoryAgrees
<1>14. FaultFree'
  <2> SUFFICES ASSUME faults' = 0 PROVE FaultFree'
    BY DEF FaultFree
  <2>1. /\ \A i \in DOMAIN alerts :
             /\ alerts[i].confident => alerts[i].order # None
             /\ alerts[i].cleared \/ mem[alerts[i].asset].open = i
             /\ AutoCancel /\ alerts[i].status = "dismissed" /\ alerts[i].order # None
                  => orders[alerts[i].order].status = "cancelled"
        /\ \A r \in DOMAIN records : \E w \in DOMAIN orders :
             orders[w].ref = r /\ (orders[w].status = "open" <=> r \in Live)
    BY <1>1 DEF IInv, FaultFree
  <2>2. ASSUME NEW i \in DOMAIN alerts'
        PROVE  alerts'[i].cleared \/ mem'[alerts'[i].asset].open = i
    <3>1. /\ i \in DOMAIN alerts /\ alerts'[i].asset = alerts[i].asset
          /\ alerts[i].cleared => alerts'[i].cleared
      BY <1>4 DEF AlertsMarked
    <3>2. CASE alerts[i].cleared
      BY <3>1, <3>2
    <3>3. CASE ~ alerts[i].cleared /\ alerts[i].asset = x
      <4>1. mem[x].open = i /\ i # None
        BY <1>2, <2>1, <3>1, <3>3, IdFacts DEF IInv
      <4> QED
        BY <1>4, <4>1
    <3>4. CASE ~ alerts[i].cleared /\ alerts[i].asset # x
      BY <1>6, <1>10, <2>1, <3>1, <3>4
    <3> QED
      BY <3>2, <3>3, <3>4
  <2>3. ASSUME NEW i \in DOMAIN alerts'
        PROVE  /\ alerts'[i].confident => alerts'[i].order # None
               /\ AutoCancel /\ alerts'[i].status = "dismissed" /\ alerts'[i].order # None
                    => orders'[alerts'[i].order].status = "cancelled"
    BY <1>1, <1>4, <2>1 DEF AlertsMarked
  <2>4. \A r \in DOMAIN records' : \E w \in DOMAIN orders' :
          orders'[w].ref = r /\ (orders'[w].status = "open" <=> r \in Live')
    BY <1>1, <2>1 DEF Live
  <2> QED
    BY <2>2, <2>3, <2>4 DEF FaultFree
<1> QED
  BY <1>5, <1>7, <1>8, <1>9, <1>12, <1>13, <1>14 DEF IInv

-----------------------------------------------------------------------------
\* A new alert.

\* The alerts are one more, that nothing refers to.
AlertAdded(x, confident, new) ==
  /\ new \in Seq(Alert) /\ Len(new) = Len(alerts) + 1
  /\ DOMAIN new = DOMAIN alerts \cup {Len(alerts) + 1}
  /\ Len(alerts) + 1 \notin DOMAIN alerts /\ Len(alerts) + 1 \in AlertIds
  /\ \A i \in DOMAIN alerts : new[i] = alerts[i]
  /\ new[Len(alerts) + 1] = NewAlert(x, confident)

LEMMA AddedFacts ==
  ASSUME TypeOK, Bounded, NEW x \in Assets, NEW confident \in BOOLEAN,
         Len(alerts) < MaxAlerts
  PROVE  AlertAdded(x, confident, Append(alerts, NewAlert(x, confident)))
<1> DEFINE e == NewAlert(x, confident)
<1>1. e \in Alert
  BY DEF NewAlert, Alert, None
<1>2. alerts \in Seq(Alert) /\ Len(alerts) + 1 \in AlertIds
  BY StateFacts, IdFacts
<1> HIDE DEF e
<1>3. /\ Append(alerts, e) \in Seq(Alert) /\ Len(Append(alerts, e)) = Len(alerts) + 1
      /\ DOMAIN Append(alerts, e) = DOMAIN alerts \cup {Len(alerts) + 1}
      /\ Len(alerts) + 1 \notin DOMAIN alerts
      /\ \A i \in DOMAIN alerts : Append(alerts, e)[i] = alerts[i]
      /\ Append(alerts, e)[Len(alerts) + 1] = e
  BY <1>1, <1>2, AppendFacts
<1> QED
  BY <1>2, <1>3 DEF AlertAdded, e

LEMMA NewAlertFacts ==
  ASSUME NEW x \in Assets, NEW confident \in BOOLEAN
  PROVE  /\ NewAlert(x, confident).asset = x /\ NewAlert(x, confident).order = None
         /\ NewAlert(x, confident).status = "open"
         /\ NewAlert(x, confident).confident = confident
         /\ ~ NewAlert(x, confident).cleared
  BY DEF NewAlert

\* The alert may or may not be stored; the episode is open without it.
LEMMA FireUnsavedStep ==
  ASSUME IInv, NEW x \in Assets, NEW confident \in BOOLEAN, FireUnsaved(x, confident)
  PROVE  IInv'
<1> PICK m : m = [mem[x] EXCEPT !.phase = "alerted"]
  OBVIOUS
<1>1. /\ mem[x].known /\ mem[x].phase = "quiet" /\ Len(alerts) < MaxAlerts
      /\ alerts' \in {alerts, Append(alerts, NewAlert(x, confident))}
      /\ mem' = [mem EXCEPT ![x] = m] /\ faults' = faults + 1
      /\ UNCHANGED <<mode, orders, snaps, records, attempts, unheard>>
  BY DEF FireUnsaved, CanFire, AfterWrite, Faults
<1>2. /\ TypeOK /\ Bounded /\ mem \in [Assets -> Memory] /\ faults \in Nat
      /\ mem[x] \in Memory /\ Consistent(mem[x], x) /\ alerts \in Seq(Alert)
      /\ Len(alerts) \in Nat /\ MaxAlerts \in Nat
  BY StateFacts DEF IInv, Remembered
<1>3. /\ m \in Memory /\ m.known = mem[x].known /\ m.phase = "alerted"
      /\ m.open = mem[x].open /\ m.top = mem[x].top /\ m.moves = mem[x].moves
  BY <1>2 DEF Memory
<1>4. m.top = NoTop
  BY <1>1, <1>2, <1>3 DEF Consistent
<1>5. /\ mem' \in [Assets -> Memory] /\ mem'[x] = m
      /\ \A y \in Assets \ {x} : mem'[y] = mem[y]
  BY <1>1, <1>2, <1>3, MemoryUpdate
<1>6. alerts' = alerts \/ AlertAdded(x, confident, alerts')
  BY <1>1, <1>2, AddedFacts
<1>7. /\ alerts' \in Seq(Alert) /\ Len(alerts') <= MaxAlerts
      /\ DOMAIN alerts \subseteq DOMAIN alerts'
      /\ \A i \in DOMAIN alerts : alerts'[i] = alerts[i]
  BY <1>1, <1>2, <1>6 DEF AlertAdded, Bounded
<1>8. \A i \in DOMAIN alerts' \ DOMAIN alerts :
        alerts'[i].order = None /\ alerts'[i].status = "open"
  BY <1>6, NewAlertFacts DEF AlertAdded
<1>9. TypeOK'
  <2>1. faults' \in Nat
    BY <1>1, <1>2
  <2> QED
    BY <1>1, <1>2, <1>5, <1>7, <2>1 DEF TypeOK
<1>10. Bounded' /\ AlertsKept
  BY <1>7 DEF Bounded, AlertsKept
<1>11. Remembered'
  <2>1. Consistent(m, x)'
    BY <1>1, <1>2, <1>3, <1>4, <1>10 DEF Consistent, AlertsKept
  <2> QED
    BY <1>1, <1>2, <1>3, <1>10, <2>1, RememberedKept DEF IInv
<1>12. ReferencesResolve'
  <2>1. \A i \in DOMAIN alerts' : alerts'[i].order # None =>
          /\ alerts'[i].order \in DOMAIN orders
          /\ orders[alerts'[i].order].asset = alerts'[i].asset
    BY <1>7, <1>8 DEF IInv, ReferencesResolve
  <2>2. \A w \in DOMAIN orders : orders[w].alert \in DOMAIN alerts'
    BY <1>7 DEF IInv, ReferencesResolve
  <2> QED
    BY <1>1, <2>1, <2>2 DEF IInv, ReferencesResolve
<1>13. RecordsResolve' /\ AtMostOneOpen'
  BY <1>1, <1>7 DEF IInv, RecordsResolve, AtMostOneOpen
<1>14. AttemptsBounded' /\ AttemptsCounted'
  <2>1. Counted(m)
    BY <1>4 DEF Counted
  <2> QED
    BY <1>1, <1>2, <1>3, <1>7, <2>1, AttemptsKept DEF IInv, AttemptsBounded
<1>15. VerdictSurvives'
  <2>1. \A y \in Assets : mem[y].known => mem'[y].known /\ mem'[y].moves = mem[y].moves
    BY <1>3, <1>5
  <2>2. \A i \in DOMAIN alerts : alerts[i].asset \in Assets
    BY <1>2, StateFacts DEF Alert
  <2> QED
    BY <1>1, <1>7, <1>8, <2>1, <2>2, VerdictKept DEF IInv
<1>16. faults' # 0
  BY <1>1, <1>2
<1> QED
  BY <1>9, <1>10, <1>11, <1>12, <1>13, <1>14, <1>15, <1>16, AfterFault DEF IInv

-----------------------------------------------------------------------------
\* Feedback.

\* A cancellation that may fail: orders and records keep what they are for, and
\* an order is cancelled only after its record was.
OrderCancelled(w) ==
  /\ orders' \in Seq(Order) /\ DOMAIN orders' = DOMAIN orders
  /\ \A v \in DOMAIN orders :
       /\ orders'[v].asset = orders[v].asset /\ orders'[v].fm = orders[v].fm
       /\ orders'[v].alert = orders[v].alert /\ orders'[v].ref = orders[v].ref
       /\ orders'[v].status # orders[v].status => orders'[v].status = "cancelled"
  /\ \A v \in DOMAIN orders \ {w} : orders'[v] = orders[v]
  /\ records' \in Seq(Record) /\ DOMAIN records' = DOMAIN records
  /\ \A r \in DOMAIN records : records'[r].key = records[r].key
  /\ \A r \in DOMAIN records \ {orders[w].ref} : records'[r] = records[r]

\* One that did not fail.
OrderClosed(w) ==
  /\ orders'[w].status = "cancelled"
  /\ orders[w].status = "open" => records'[orders[w].ref].cancelled
  /\ orders[w].status # "open" => UNCHANGED <<orders, records>>

LEMMA CancelFacts ==
  ASSUME TypeOK, ReferencesResolve, NEW w \in DOMAIN orders, NEW failed \in BOOLEAN,
         CancelOrder(w, failed)
  PROVE  OrderCancelled(w) /\ (~ failed => OrderClosed(w))
<1> DEFINE e == [orders[w] EXCEPT !.status = "cancelled"]
           r == orders[w].ref
           c == [records[r] EXCEPT !.cancelled = TRUE]
           closed == [orders EXCEPT ![w] = e]
           void == [records EXCEPT ![r] = c]
<1>1. /\ orders \in Seq(Order) /\ orders[w] \in Order /\ records \in Seq(Record)
      /\ r \in DOMAIN records /\ records[r] \in Record
  BY StateFacts DEF ReferencesResolve
<1>2. /\ e \in Order /\ e.asset = orders[w].asset /\ e.fm = orders[w].fm
      /\ e.alert = orders[w].alert /\ e.ref = orders[w].ref /\ e.status = "cancelled"
      /\ orders[w].status \in {"open", "cancelled"}
  BY <1>1 DEF Order
<1>3. c \in Record /\ c.key = records[r].key /\ c.cancelled
  BY <1>1 DEF Record
<1>4. /\ closed = [orders EXCEPT ![w].status = "cancelled"]
      /\ void = [records EXCEPT ![orders[w].ref].cancelled = TRUE]
  OBVIOUS
<1>5. \/ UNCHANGED <<orders, records>> /\ (~ failed => orders[w].status # "open")
      \/ /\ records' \in {records, void} /\ orders' = orders /\ failed
      \/ /\ records' = void /\ orders' \in {orders, closed}
         /\ ~ failed => orders' = closed
         /\ orders[w].status = "open"
  BY <1>4 DEF CancelOrder, AfterWrite
<1> HIDE DEF e, c
<1>6. /\ closed \in Seq(Order) /\ DOMAIN closed = DOMAIN orders /\ closed[w] = e
      /\ \A v \in DOMAIN orders \ {w} : closed[v] = orders[v]
  BY <1>1, <1>2, UpdateFacts
<1>7. /\ void \in Seq(Record) /\ DOMAIN void = DOMAIN records /\ void[r] = c
      /\ \A q \in DOMAIN records \ {r} : void[q] = records[q]
  BY <1>1, <1>3, UpdateFacts
<1> HIDE DEF closed, void
<1>8. orders' \in {orders, closed} /\ records' \in {records, void}
  BY <1>5
<1>9. /\ orders' \in Seq(Order) /\ DOMAIN orders' = DOMAIN orders
      /\ orders'[w] \in {orders[w], e}
      /\ \A v \in DOMAIN orders \ {w} : orders'[v] = orders[v]
  BY <1>1, <1>6, <1>8
<1>10. /\ records' \in Seq(Record) /\ DOMAIN records' = DOMAIN records
       /\ records'[r] \in {records[r], c}
       /\ \A q \in DOMAIN records \ {r} : records'[q] = records[q]
  BY <1>1, <1>7, <1>8
<1>11. OrderCancelled(w)
  BY <1>2, <1>3, <1>9, <1>10 DEF OrderCancelled
<1>12. ASSUME ~ failed PROVE OrderClosed(w)
  BY <1>2, <1>3, <1>5, <1>6, <1>7, <1>12 DEF OrderClosed
<1> QED
  BY <1>11, <1>12

LEMMA CancelledKept ==
  ASSUME IInv, AlertsMarked, NEW w, OrderCancelled(w)
  PROVE  /\ Bounded' /\ ReferencesResolve' /\ RecordsResolve' /\ AtMostOneOpen'
         /\ AlertsKept
<1>1. Bounded' /\ AlertsKept
  BY DEF IInv, Bounded, AlertsMarked, AlertsKept
<1>2. ReferencesResolve'
  <2>1. ASSUME NEW i \in DOMAIN alerts', alerts'[i].order # None
        PROVE  /\ alerts'[i].order \in DOMAIN orders'
               /\ orders'[alerts'[i].order].asset = alerts'[i].asset
    BY <2>1 DEF IInv, ReferencesResolve, AlertsMarked, OrderCancelled
  <2>2. ASSUME NEW v \in DOMAIN orders'
        PROVE  /\ orders'[v].alert \in DOMAIN alerts' /\ orders'[v].ref \in DOMAIN records'
               /\ records'[orders'[v].ref].key
                    = <<orders'[v].asset, orders'[v].fm, orders'[v].alert>>
    <3>1. /\ orders'[v].asset = orders[v].asset /\ orders'[v].fm = orders[v].fm
          /\ orders'[v].alert = orders[v].alert /\ orders'[v].ref = orders[v].ref
          /\ v \in DOMAIN orders
      BY DEF OrderCancelled
    <3>2. /\ orders[v].alert \in DOMAIN alerts /\ orders[v].ref \in DOMAIN records
          /\ records[orders[v].ref].key = <<orders[v].asset, orders[v].fm, orders[v].alert>>
      BY <3>1 DEF IInv, ReferencesResolve
    <3>3. DOMAIN alerts' = DOMAIN alerts
      BY DEF AlertsMarked
    <3>4. /\ DOMAIN records' = DOMAIN records
          /\ records'[orders[v].ref].key = records[orders[v].ref].key
      BY <3>2 DEF OrderCancelled
    <3> QED
      BY <3>1, <3>2, <3>3, <3>4
  <2> QED
    BY <2>1, <2>2 DEF ReferencesResolve
<1>3. RecordsResolve'
  BY DEF IInv, RecordsResolve, AlertsMarked, OrderCancelled
<1>4. AtMostOneOpen'
  <2>1. ASSUME NEW v \in DOMAIN orders', orders'[v].status = "open"
        PROVE  /\ v \in DOMAIN orders /\ orders[v].status = "open"
               /\ orders'[v].asset = orders[v].asset /\ orders'[v].fm = orders[v].fm
    BY <2>1 DEF OrderCancelled
  <2> QED
    BY <2>1 DEF IInv, AtMostOneOpen
<1> QED
  BY <1>1, <1>2, <1>3, <1>4

\* ApplyFeedback moves the offset by one verdict.
Adapted(x, id, m) ==
  /\ m \in Memory /\ m.known = mem[x].known /\ m.phase = mem[x].phase
  /\ m.open = mem[x].open /\ m.top = mem[x].top /\ m.retry = mem[x].retry
  /\ m.moves[id] >= 1
  /\ \A i \in AlertIds \ {id} : m.moves[i] = mem[x].moves[i]
  /\ \A i \in AlertIds : m.moves[i] >= mem[x].moves[i]
  /\ mem' = [mem EXCEPT ![x] = m]
  /\ mem' \in [Assets -> Memory] /\ mem'[x] = m
  /\ \A y \in Assets \ {x} : mem'[y] = mem[y]

LEMMA AdaptFacts ==
  ASSUME TypeOK, Bounded, NEW id \in DOMAIN alerts, Adapt(id)
  PROVE  \E m \in Memory : Adapted(alerts[id].asset, id, m)
<1> DEFINE x == alerts[id].asset
<1>1. x \in Assets /\ id \in AlertIds
  <2>1. alerts[id] \in Alert
    BY StateFacts
  <2> QED
    BY <2>1, IdFacts DEF Alert
<1>2. mem[x] \in Memory /\ mem[x].moves \in [AlertIds -> Nat] /\ mem \in [Assets -> Memory]
  BY <1>1, MemoryFields, StateFacts
<1> DEFINE moves == [mem[x].moves EXCEPT ![id] = @ + 1]
           m == [mem[x] EXCEPT !.moves = moves]
<1>3. /\ moves \in [AlertIds -> Nat] /\ moves[id] >= 1
      /\ \A i \in AlertIds \ {id} : moves[i] = mem[x].moves[i]
      /\ \A i \in AlertIds : moves[i] >= mem[x].moves[i]
  <2>1. mem[x].moves[id] \in Nat /\ \A i \in AlertIds : mem[x].moves[i] \in Nat
    BY <1>1, <1>2
  <2>2. /\ moves \in [AlertIds -> Nat] /\ moves[id] = mem[x].moves[id] + 1
        /\ \A i \in AlertIds \ {id} : moves[i] = mem[x].moves[i]
    BY <1>1, <1>2, <2>1
  <2>3. moves[id] >= 1 /\ moves[id] >= mem[x].moves[id]
    BY <2>1, <2>2
  <2>4. ASSUME NEW i \in AlertIds PROVE moves[i] >= mem[x].moves[i]
    <3>1. CASE i = id
      BY <2>3, <3>1
    <3>2. CASE i # id
      BY <2>1, <2>2, <3>2
    <3> QED
      BY <3>1, <3>2
  <2> QED
    BY <2>2, <2>3, <2>4
<1>4. mem' = [mem EXCEPT ![x] = m]
  BY DEF Adapt
<1> HIDE DEF moves
<1>5. /\ m \in Memory /\ m.known = mem[x].known /\ m.phase = mem[x].phase
      /\ m.open = mem[x].open /\ m.top = mem[x].top /\ m.retry = mem[x].retry
      /\ m.moves = moves
  BY <1>2, <1>3 DEF Memory
<1> HIDE DEF m
<1>6. /\ mem' \in [Assets -> Memory] /\ mem'[x] = m
      /\ \A y \in Assets \ {x} : mem'[y] = mem[y]
  BY <1>1, <1>2, <1>4, <1>5, MemoryUpdate
<1>7. Adapted(x, id, m)
  BY <1>3, <1>4, <1>5, <1>6 DEF Adapted
<1> QED
  BY <1>5, <1>7

\* What holds of the adapted memory, whatever became of the alert.
LEMMA AdaptedKept ==
  ASSUME IInv, NEW x \in Assets, NEW id, NEW m, Adapted(x, id, m),
         AlertsMarked, attempts' = attempts
  PROVE  Remembered' /\ AttemptsCounted' /\ AttemptsBounded'
<1>1. /\ mem \in [Assets -> Memory] /\ Consistent(mem[x], x) /\ Counted(mem[x])
  BY StateFacts DEF IInv, Remembered, AttemptsCounted
<1>2. AlertsKept /\ DOMAIN alerts \subseteq DOMAIN alerts'
  BY DEF AlertsMarked, AlertsKept
<1>3. Consistent(m, x)'
  BY <1>1, <1>2 DEF Consistent, Adapted, AlertsKept
<1>4. Counted(m)
  BY <1>1 DEF Counted, Adapted
<1>5. m \in Memory /\ mem' = [mem EXCEPT ![x] = m]
  BY DEF Adapted
<1>6. Remembered'
  BY <1>1, <1>2, <1>3, <1>5, RememberedKept DEF IInv
<1>7. AttemptsCounted'
  BY <1>1, <1>2, <1>4, <1>5, AttemptsKept DEF IInv
<1> QED
  BY <1>6, <1>7 DEF IInv, AttemptsBounded

LEMMA FailureCount ==
  ASSUME NEW failed \in BOOLEAN, NEW lost \in BOOLEAN
  PROVE  LET n == Cardinality({c \in {1, 2} : <<failed, lost>>[c]})
         IN n \in Nat /\ (n = 0 => ~ failed /\ ~ lost)
<1> DEFINE S == {c \in {1, 2} : <<failed, lost>>[c]}
<1>1. {1, 2} = 1..2 /\ S \in SUBSET (1..2)
  OBVIOUS
<1>2. IsFiniteSet(1..2)
  <2>1. 1 \in Int /\ 2 \in Int
    OBVIOUS
  <2> QED
    BY <2>1, FS_Interval, Zenon
<1>3. IsFiniteSet(S)
  BY <1>1, <1>2, FS_Subset
<1>4. Cardinality(S) \in Nat /\ (Cardinality(S) = 0 => S = {})
  BY <1>3, FS_CardinalityType, FS_EmptySet
<1>5. failed => 1 \in S
  OBVIOUS
<1>6. lost => 2 \in S
  OBVIOUS
<1> QED
  BY <1>4, <1>5, <1>6

LEMMA FeedbackStep ==
  ASSUME IInv, NEW id \in DOMAIN alerts, NEW verdict \in {"confirm", "dismiss"},
         Feedback(id, verdict)
  PROVE  IInv'
<1>0. TypeOK /\ Bounded /\ ReferencesResolve /\ faults \in Nat
  BY StateFacts DEF IInv
<1>1. PICK x : x = alerts[id].asset
  OBVIOUS
<1>2. x \in Assets /\ id \in AlertIds /\ alerts[id] \in Alert
  <2>1. alerts[id] \in Alert
    BY <1>0, StateFacts
  <2> QED
    BY <1>0, <1>1, <2>1, IdFacts DEF Alert
<1>3. PICK m \in Memory : Adapted(x, id, m)
  BY <1>0, <1>1, AdaptFacts DEF Feedback
<1>4. /\ alerts[id].status = "open" /\ mem[x].known
      /\ snaps' = WithSnapshot(x, m.moves)
      /\ UNCHANGED <<mode, attempts, unheard>>
  BY <1>1, <1>3 DEF Feedback, Adapted
<1>5. PICK failed \in BOOLEAN, lost \in BOOLEAN :
        /\ IF Cancels(id, verdict) THEN CancelOrder(alerts[id].order, failed)
           ELSE ~ failed /\ UNCHANGED <<orders, records>>
        /\ alerts' \in AfterWrite(alerts, Judged(id, verdict), lost)
        /\ Faults(Cardinality({c \in {1, 2} : <<failed, lost>>[c]}))
  BY DEF Feedback
<1>6. faults' \in Nat /\ (faults' = 0 => faults = 0 /\ ~ failed /\ ~ lost)
  <2> DEFINE n == Cardinality({c \in {1, 2} : <<failed, lost>>[c]})
  <2>1. n \in Nat /\ (n = 0 => ~ failed /\ ~ lost)
    BY FailureCount
  <2>2. Faults(n)
    BY <1>5
  <2> HIDE DEF n
  <2> QED
    BY <1>0, <2>1, <2>2, FaultFacts
<1>7. (lost /\ alerts' = alerts) \/ alerts' = Judged(id, verdict)
  BY <1>5 DEF AfterWrite
<1>8. alerts' = alerts \/ AlertJudged(id)
  BY <1>0, <1>7, JudgedFacts
<1>9. AlertsMarked
  BY <1>0, <1>8, NothingMarked DEF AlertJudged
<1>10. ASSUME Cancels(id, verdict)
       PROVE  /\ alerts[id].order \in DOMAIN orders
              /\ OrderCancelled(alerts[id].order)
              /\ ~ failed => OrderClosed(alerts[id].order)
  <2>1. alerts[id].order \in DOMAIN orders
    BY <1>0, <1>10 DEF Cancels, ReferencesResolve
  <2> QED
    BY <1>0, <1>5, <1>10, <2>1, CancelFacts
<1>11. ~ Cancels(id, verdict) => UNCHANGED <<orders, records>>
  BY <1>5
<1>12. /\ Bounded' /\ ReferencesResolve' /\ RecordsResolve' /\ AtMostOneOpen'
       /\ AlertsKept
  BY <1>9, <1>10, <1>11, CancelledKept, MarkedKept
<1>13. Remembered' /\ AttemptsCounted' /\ AttemptsBounded'
  BY <1>2, <1>3, <1>4, <1>9, AdaptedKept
<1>14. m.moves \in [AlertIds -> Nat]
  BY DEF Memory
<1>15. Snapped(x, m.moves, snaps')
  BY <1>0, <1>2, <1>4, <1>14, SnapshotFacts
<1>16. TypeOK'
  <2>1. orders' \in Seq(Order) /\ records' \in Seq(Record)
    BY <1>0, <1>10, <1>11, StateFacts DEF OrderCancelled
  <2>2. mem' \in [Assets -> Memory] /\ alerts' \in Seq(Alert)
    BY <1>3, <1>9 DEF Adapted, AlertsMarked
  <2>3. /\ DOMAIN snaps' \subseteq Assets
        /\ \A y \in DOMAIN snaps' : snaps'[y] \in [AlertIds -> Nat]
    BY <1>15 DEF Snapped
  <2> QED
    BY <1>0, <1>4, <1>6, <2>1, <2>2, <2>3 DEF TypeOK
<1>17. VerdictSurvives'
  <2>1. ASSUME NEW i \in DOMAIN alerts' \ unheard', alerts'[i].status # "open"
        PROVE  LET y == alerts'[i].asset IN
               /\ y \in DOMAIN snaps' /\ snaps'[y][i] >= 1
               /\ mem'[y].known /\ mem'[y].moves[i] >= 1
    <3>1. i \in DOMAIN alerts \ unheard /\ alerts'[i].asset = alerts[i].asset /\ i \in AlertIds
      BY <1>0, <1>4, <1>9, IdFacts DEF AlertsMarked
    <3>2. PICK y : y = alerts'[i].asset
      OBVIOUS
    <3>3. CASE i = id
      <4>1. y = x /\ m.moves[i] >= 1 /\ mem'[x] = m /\ m.known
        BY <1>1, <1>3, <1>4, <3>1, <3>2, <3>3 DEF Adapted
      <4> QED
        BY <1>15, <3>2, <4>1 DEF Snapped
    <3>4. CASE i # id
      <4>1. alerts[i].status # "open"
        BY <1>8, <2>1, <3>1, <3>4 DEF AlertJudged
      <4>2. /\ y \in DOMAIN snaps /\ snaps[y][i] >= 1 /\ mem[y].known
            /\ mem[y].moves[i] >= 1
        BY <3>1, <3>2, <4>1 DEF IInv, VerdictSurvives
      <4>3. CASE y = x
        <5>1. m.moves[i] = mem[y].moves[i] /\ mem'[y] = m /\ m.known
          BY <1>3, <1>4, <3>1, <3>4, <4>3 DEF Adapted
        <5> QED
          BY <1>15, <3>2, <4>2, <4>3, <5>1 DEF Snapped
      <4>4. CASE y # x
        <5>1. y \in Assets
          BY <1>0, <4>2 DEF TypeOK
        <5>2. mem'[y] = mem[y] /\ snaps'[y] = snaps[y] /\ y \in DOMAIN snaps'
          BY <1>3, <1>15, <4>2, <4>4, <5>1 DEF Adapted, Snapped
        <5> QED
          BY <3>2, <4>2, <5>2
      <4> QED
        BY <4>3, <4>4
    <3> QED
      BY <3>3, <3>4
  <2> QED
    BY <2>1 DEF VerdictSurvives
<1>18. ASSUME faults' = 0 PROVE MemoryAgrees' /\ FaultFree'
  <2>1. faults = 0 /\ ~ failed /\ ~ lost
    BY <1>6, <1>18
  <2>2. alerts' = Judged(id, verdict)
    BY <1>7, <2>1
  <2>3. AlertJudged(id) /\ (alerts'[id].status = "dismissed" => verdict = "dismiss")
    BY <1>0, <2>2, JudgedFacts
  <2>4. /\ \A y \in Assets : Calm(mem[y])
        /\ \A i \in DOMAIN alerts : mem[alerts[i].asset].known
    BY <2>1 DEF IInv, MemoryAgrees
  <2>5. /\ \A i \in DOMAIN alerts :
             /\ alerts[i].confident => alerts[i].order # None
             /\ alerts[i].cleared \/ mem[alerts[i].asset].open = i
             /\ AutoCancel /\ alerts[i].status = "dismissed" /\ alerts[i].order # None
                  => orders[alerts[i].order].status = "cancelled"
        /\ \A r \in DOMAIN records : \E w \in DOMAIN orders :
             orders[w].ref = r /\ (orders[w].status = "open" <=> r \in Live)
    BY <2>1 DEF IInv, FaultFree
  <2>6. \A y \in Assets : /\ mem'[y].known = mem[y].known /\ mem'[y].open = mem[y].open
                          /\ mem'[y].top = mem[y].top /\ mem'[y].phase = mem[y].phase
    BY <1>2, <1>3 DEF Adapted
  <2>7. \A i \in DOMAIN alerts : alerts[i].asset \in Assets
    BY <1>0, StateFacts DEF Alert
  <2>8. MemoryAgrees'
    <3>1. \A y \in Assets : Calm(mem[y])'
      BY <2>4, <2>6 DEF Calm
    <3>2. \A i \in DOMAIN alerts' : mem'[alerts'[i].asset].known
      BY <1>9, <2>4, <2>6, <2>7 DEF AlertsMarked
    <3> QED
      BY <3>1, <3>2 DEF MemoryAgrees
  <2>9. ASSUME NEW i \in DOMAIN alerts'
        PROVE  /\ alerts'[i].confident => alerts'[i].order # None
               /\ alerts'[i].cleared \/ mem'[alerts'[i].asset].open = i
    BY <1>9, <2>3, <2>5, <2>6, <2>7 DEF AlertsMarked, AlertJudged
  <2>10. ASSUME NEW i \in DOMAIN alerts', AutoCancel, alerts'[i].status = "dismissed",
                alerts'[i].order # None
         PROVE  orders'[alerts'[i].order].status = "cancelled"
    <3>1. i \in DOMAIN alerts /\ alerts'[i].order = alerts[i].order
      BY <1>9 DEF AlertsMarked
    <3>2. alerts[i].order \in DOMAIN orders
      BY <1>0, <2>10, <3>1 DEF ReferencesResolve
    <3>3. CASE i = id
      <4>1. Cancels(id, verdict)
        BY <2>3, <2>10, <3>1, <3>3 DEF Cancels
      <4> QED
        BY <1>10, <2>1, <3>1, <3>3, <4>1 DEF OrderClosed
    <3>4. CASE i # id
      <4>1. orders[alerts[i].order].status = "cancelled"
        BY <2>3, <2>5, <2>10, <3>1, <3>4 DEF AlertJudged
      <4> QED
        BY <1>10, <1>11, <3>1, <3>2, <4>1 DEF OrderCancelled
    <3> QED
      BY <3>3, <3>4
  <2>11. ASSUME NEW r \in DOMAIN records'
         PROVE  \E w \in DOMAIN orders' :
                  orders'[w].ref = r /\ (orders'[w].status = "open" <=> r \in Live')
    <3>1. CASE UNCHANGED <<orders, records>>
      BY <2>5, <3>1 DEF Live
    <3>2. CASE ~ UNCHANGED <<orders, records>>
      <4>1. PICK w : w = alerts[id].order
        OBVIOUS
      <4>2. /\ w \in DOMAIN orders /\ OrderCancelled(w) /\ OrderClosed(w)
            /\ orders[w].status = "open"
        <5>1. w \in DOMAIN orders /\ OrderCancelled(w) /\ OrderClosed(w)
          BY <1>10, <1>11, <2>1, <3>2, <4>1
        <5> QED
          BY <3>2, <5>1 DEF OrderClosed
      <4>3. r \in DOMAIN records
        BY <4>2 DEF OrderCancelled
      <4>4. CASE r = orders[w].ref
        <5>1. /\ w \in DOMAIN orders' /\ orders'[w].ref = r
              /\ orders'[w].status = "cancelled" /\ records'[r].cancelled
          BY <4>2, <4>4 DEF OrderCancelled, OrderClosed
        <5> QED
          BY <5>1 DEF Live
      <4>5. CASE r # orders[w].ref
        <5>1. PICK v \in DOMAIN orders :
                orders[v].ref = r /\ (orders[v].status = "open" <=> r \in Live)
          BY <2>5, <4>3
        <5>2. v # w
          BY <4>5, <5>1
        <5>3. /\ v \in DOMAIN orders' /\ orders'[v] = orders[v]
              /\ records'[r] = records[r] /\ DOMAIN records' = DOMAIN records
          BY <4>2, <4>3, <4>5, <5>2 DEF OrderCancelled
        <5>4. r \in Live' <=> r \in Live
          BY <5>3 DEF Live
        <5> QED
          BY <5>1, <5>3, <5>4
      <4> QED
        BY <4>4, <4>5
    <3> QED
      BY <3>1, <3>2
  <2> QED
    BY <2>8, <2>9, <2>10, <2>11 DEF FaultFree
<1>19. MemoryAgrees' /\ FaultFree'
  BY <1>18, AfterFault
<1> QED
  BY <1>12, <1>13, <1>16, <1>17, <1>19 DEF IInv

\* The offset has moved in memory, the verdict is not stored.
LEMMA FeedbackUnsavedStep ==
  ASSUME IInv, NEW id \in DOMAIN alerts, FeedbackUnsaved(id)
  PROVE  IInv'
<1>0. TypeOK /\ Bounded /\ faults \in Nat
  BY StateFacts DEF IInv
<1>1. PICK x : x = alerts[id].asset
  OBVIOUS
<1>2. x \in Assets
  <2>1. alerts[id] \in Alert
    BY <1>0, StateFacts
  <2> QED
    BY <1>1, <2>1 DEF Alert
<1>3. PICK m \in Memory : Adapted(x, id, m)
  BY <1>0, <1>1, AdaptFacts DEF FeedbackUnsaved
<1>4. /\ mem[x].known /\ snaps' \in {snaps, WithSnapshot(x, m.moves)}
      /\ faults' = faults + 1
      /\ UNCHANGED <<mode, alerts, orders, records, attempts, unheard>>
  BY <1>1, <1>3 DEF FeedbackUnsaved, Adapted, AfterWrite, Faults
<1>5. AlertsMarked
  BY <1>0, <1>4, NothingMarked
<1>6. /\ Bounded' /\ ReferencesResolve' /\ RecordsResolve' /\ AtMostOneOpen'
  BY <1>4, StoreKept
<1>7. Remembered' /\ AttemptsCounted' /\ AttemptsBounded'
  BY <1>2, <1>3, <1>4, <1>5, AdaptedKept
<1>8. snaps' = snaps \/ Snapped(x, m.moves, snaps')
  <2>1. m.moves \in [AlertIds -> Nat]
    BY DEF Memory
  <2> QED
    BY <1>0, <1>2, <1>4, <2>1, SnapshotFacts
<1>9. TypeOK'
  <2>1. mem' \in [Assets -> Memory] /\ faults' \in Nat
    BY <1>0, <1>3, <1>4 DEF Adapted
  <2>2. /\ DOMAIN snaps' \subseteq Assets
        /\ \A y \in DOMAIN snaps' : snaps'[y] \in [AlertIds -> Nat]
    BY <1>0, <1>8 DEF Snapped, TypeOK
  <2> QED
    BY <1>0, <1>4, <2>1, <2>2 DEF TypeOK
<1>10. VerdictSurvives'
  <2>1. ASSUME NEW i \in DOMAIN alerts' \ unheard', alerts'[i].status # "open"
        PROVE  LET y == alerts'[i].asset IN
               /\ y \in DOMAIN snaps' /\ snaps'[y][i] >= 1
               /\ mem'[y].known /\ mem'[y].moves[i] >= 1
    <3>1. i \in DOMAIN alerts \ unheard /\ alerts'[i] = alerts[i] /\ i \in AlertIds
      BY <1>0, <1>4, IdFacts
    <3>2. PICK y : y = alerts[i].asset
      OBVIOUS
    <3>3. /\ y \in DOMAIN snaps /\ snaps[y][i] >= 1 /\ mem[y].known
          /\ mem[y].moves[i] >= 1
      BY <2>1, <3>1, <3>2 DEF IInv, VerdictSurvives
    <3>4. y \in Assets
      BY <1>0, <3>3 DEF TypeOK
    <3>5. mem'[y].known /\ mem'[y].moves[i] >= 1
      <4>1. CASE y = x
        <5>1. mem'[y] = m /\ m.known /\ m.moves[i] \in Nat /\ mem[y].moves[i] \in Nat
          BY <1>0, <1>3, <1>4, <3>1, <3>4, <4>1, MemoryFields DEF Adapted, Memory
        <5>2. m.moves[i] >= mem[y].moves[i]
          BY <1>3, <3>1, <4>1 DEF Adapted
        <5> QED
          BY <3>3, <5>1, <5>2
      <4>2. CASE y # x
        BY <1>3, <3>3, <3>4, <4>2 DEF Adapted
      <4> QED
        BY <4>1, <4>2
    <3>6. y \in DOMAIN snaps' /\ snaps'[y][i] >= 1
      <4>1. CASE snaps' = snaps
        BY <3>3, <4>1
      <4>2. CASE Snapped(x, m.moves, snaps') /\ y = x
        <5>1. snaps'[y] = m.moves /\ y \in DOMAIN snaps' /\ mem'[y] = m
          BY <1>3, <4>2 DEF Snapped, Adapted
        <5> QED
          BY <3>5, <5>1
      <4>3. CASE Snapped(x, m.moves, snaps') /\ y # x
        BY <3>3, <4>3 DEF Snapped
      <4> QED
        BY <1>8, <4>1, <4>2, <4>3
    <3> QED
      BY <3>1, <3>2, <3>5, <3>6
  <2> QED
    BY <2>1 DEF VerdictSurvives
<1>11. faults' # 0
  BY <1>0, <1>4
<1> QED
  BY <1>6, <1>7, <1>9, <1>10, <1>11, AfterFault DEF IInv

\* After a restart: the asset of the alert is not in memory.
LEMMA FeedbackUnknownStep ==
  ASSUME IInv, NEW id \in DOMAIN alerts, NEW verdict \in {"confirm", "dismiss"},
         FeedbackUnknown(id, verdict)
  PROVE  IInv'
<1>0. TypeOK /\ Bounded /\ faults \in Nat /\ id \in AlertIds
  BY StateFacts, IdFacts DEF IInv
<1>1. PICK lost \in BOOLEAN :
        alerts' \in AfterWrite(alerts, Judged(id, verdict), lost) /\ FaultIf(lost)
  BY DEF FeedbackUnknown
<1>2. /\ ~ mem[alerts[id].asset].known /\ unheard' = unheard \cup {id}
      /\ UNCHANGED <<mem, mode, orders, snaps, records, attempts>>
  BY DEF FeedbackUnknown
<1>3. faults' \in Nat /\ (faults' = 0 => faults = 0)
  <2>1. Faults(IF lost THEN 1 ELSE 0)
    BY <1>1 DEF FaultIf
  <2>2. (IF lost THEN 1 ELSE 0) \in Nat
    OBVIOUS
  <2> QED
    BY <1>0, <2>1, <2>2, FaultFacts
<1>4. alerts' = alerts \/ AlertJudged(id)
  <2>1. alerts' = alerts \/ alerts' = Judged(id, verdict)
    BY <1>1 DEF AfterWrite
  <2> QED
    BY <1>0, <2>1, JudgedFacts
<1>5. AlertsMarked
  BY <1>0, <1>4, NothingMarked DEF AlertJudged
<1>6. /\ Bounded' /\ ReferencesResolve' /\ RecordsResolve' /\ AtMostOneOpen'
      /\ AlertsKept
  BY <1>2, <1>5, MarkedKept
<1>7. TypeOK'
  <2>1. alerts' \in Seq(Alert) /\ unheard' \subseteq AlertIds
    BY <1>0, <1>2, <1>5 DEF AlertsMarked, TypeOK
  <2> QED
    BY <1>0, <1>2, <1>3, <2>1 DEF TypeOK
<1>8. Remembered'
  BY <1>2, <1>6 DEF IInv, Remembered, Consistent, AlertsKept
<1>9. AttemptsCounted' /\ AttemptsBounded'
  BY <1>2, <1>6 DEF IInv, AttemptsCounted, Counted, AttemptsBounded, AlertsKept
<1>10. VerdictSurvives'
  <2>1. \A i \in DOMAIN alerts' \ unheard' :
          /\ i \in DOMAIN alerts \ unheard /\ alerts'[i].asset = alerts[i].asset
          /\ alerts'[i].status = alerts[i].status
    BY <1>2, <1>4, <1>5 DEF AlertsMarked, AlertJudged
  <2> QED
    BY <1>2, <2>1 DEF IInv, VerdictSurvives
<1>11. faults' # 0
  BY <1>2, <1>3 DEF IInv, MemoryAgrees
<1> QED
  BY <1>6, <1>7, <1>8, <1>9, <1>10, <1>11, AfterFault DEF IInv

-----------------------------------------------------------------------------
\* The steps that raise a work order.

\* What the first attempt does when nothing fails: the alert stays unlinked only
\* below the confidence, is linked to an order that is open, or to a new one.
RaisedCleanly(x, id, stored, fm) ==
  \/ UNCHANGED <<orders, records>> /\ alerts' = stored /\ ~ stored[id].confident
  \/ /\ UNCHANGED <<orders, records>>
     /\ \E w \in DOMAIN orders : alerts' = Link(stored, id, w)
  \/ /\ records' = Created(x, fm, id)
     /\ orders' = Append(orders, NewOrder(x, fm, id, RefOf(x, fm, id)))
     /\ alerts' = Link(stored, id, Len(orders'))

LEMMA RaiseCleanly ==
  ASSUME NEW x, NEW id, NEW stored, NEW top, stored[id].order = None,
         RaiseWorkOrder(x, id, stored, top, FALSE)
  PROVE  RaisedCleanly(x, id, stored, mode[top])
<1> DEFINE open == OpenOrders(x, mode[top])
<1>1. \A w \in open : w \in DOMAIN orders
  BY DEF OpenOrders
<1>2. CASE ~ Decides(stored[id], open) /\ SkipOrder(id, stored, open, FALSE)
  BY <1>1, <1>2 DEF Decides, SkipOrder, AfterWrite, RaisedCleanly
<1>3. CASE CreateOrder(x, id, stored, mode[top], FALSE)
  BY <1>3 DEF CreateOrder, AfterWrite, RaisedCleanly
<1> QED
  BY <1>2, <1>3 DEF RaiseWorkOrder

\* A new alert's order is created under a key the CMMS has not seen.
LEMMA FreshRecord ==
  ASSUME TypeOK, RecordsResolve, NEW x \in Assets, NEW fm \in Modes,
         NEW id \in AlertIds \ DOMAIN alerts
  PROVE  /\ Created(x, fm, id) = Append(records, NewRecord(x, fm, id))
         /\ RefOf(x, fm, id) = Len(records) + 1
<1>1. WithKey(x, fm, id) = {}
  <2>1. ASSUME NEW r \in DOMAIN records PROVE records[r].key # <<x, fm, id>>
    <3>1. records[r].key[3] # id
      BY DEF RecordsResolve
    <3> QED
      BY <3>1
  <2> QED
    BY <2>1 DEF WithKey
<1> QED
  BY <1>1 DEF Created, RefOf, NewRecord

LEMMA FireFaultFree ==
  ASSUME IInv, NEW x \in Assets, NEW top \in Tops \cup {NoTop}, NEW confident \in BOOLEAN,
         NEW id, id = Len(alerts) + 1, NEW stored, AlertAdded(x, confident, stored),
         RaiseWorkOrder(x, id, stored, top, FALSE), mem[x].phase = "quiet",
         NEW m \in Memory, m.open = id, mem' = [mem EXCEPT ![x] = m],
         faults = 0
  PROVE  FaultFree'
<1> PICK fm : fm = mode[top]
  OBVIOUS
<1> PICK e : e = NewOrder(x, fm, id, RefOf(x, fm, id))
  OBVIOUS
<1>1. TypeOK /\ Bounded /\ RecordsResolve /\ ReferencesResolve
  BY DEF IInv
<1>16. mem'[x] = m /\ \A y \in Assets \ {x} : mem'[y] = mem[y]
  BY <1>1, MemoryUpdate, StateFacts
<1>2. /\ fm \in Modes /\ id \in AlertIds \ DOMAIN alerts /\ stored \in Seq(Alert)
      /\ id \in DOMAIN stored /\ DOMAIN stored = DOMAIN alerts \cup {id}
      /\ \A i \in DOMAIN alerts : stored[i] = alerts[i]
  BY <1>1, StateFacts, ModeType DEF AlertAdded
<1>3. /\ stored[id].asset = x /\ stored[id].order = None /\ stored[id].status = "open"
      /\ stored[id].confident = confident
  BY NewAlertFacts DEF AlertAdded
<1>4. /\ Created(x, fm, id) = Append(records, NewRecord(x, fm, id))
      /\ RefOf(x, fm, id) = Len(records) + 1
  BY <1>1, <1>2, FreshRecord
<1>5. Raised(x, id, stored, fm)
  BY <1>1, <1>2, RaiseEffect
<1>6. /\ SameButOrder(stored) /\ \A w \in DOMAIN orders : orders'[w] = orders[w]
      /\ \A r \in DOMAIN records : records'[r] = records[r]
      /\ DOMAIN orders \subseteq DOMAIN orders' /\ DOMAIN records \subseteq DOMAIN records'
      /\ orders' \in Seq(Order)
  BY <1>1, <1>2, <1>5, RaiseType
<1>7. /\ \A y \in Assets : Calm(mem[y])
      /\ \A i \in DOMAIN alerts :
             /\ alerts[i].confident => alerts[i].order # None
             /\ alerts[i].cleared \/ mem[alerts[i].asset].open = i
             /\ AutoCancel /\ alerts[i].status = "dismissed" /\ alerts[i].order # None
                  => orders[alerts[i].order].status = "cancelled"
      /\ \A r \in DOMAIN records : \E w \in DOMAIN orders :
             orders[w].ref = r /\ (orders[w].status = "open" <=> r \in Live)
  BY DEF IInv, MemoryAgrees, FaultFree
<1>8. \/ UNCHANGED <<orders, records>> /\ alerts' = stored /\ ~ confident
      \/ /\ UNCHANGED <<orders, records>>
         /\ \E w \in DOMAIN orders : alerts' = Link(stored, id, w)
      \/ /\ records' = Append(records, NewRecord(x, fm, id))
         /\ orders' = Append(orders, e) /\ alerts' = Link(stored, id, Len(orders'))
  <2>1. RaisedCleanly(x, id, stored, fm)
    BY <1>3, RaiseCleanly
  <2> QED
    BY <1>3, <1>4, <2>1 DEF RaisedCleanly
<1>9. /\ alerts' = stored /\ ~ confident
      \/ \E w \in Nat \ {0} : LinkOnly(alerts', stored, id, w)
  <2>1. CASE alerts' = stored /\ ~ confident
    BY <2>1
  <2>2. ASSUME NEW w \in Nat \ {0}, alerts' = Link(stored, id, w)
        PROVE  LinkOnly(alerts', stored, id, w)
    BY <1>2, <2>2, LinkFacts
  <2>3. CASE \E w \in DOMAIN orders : alerts' = Link(stored, id, w)
    <3>1. DOMAIN orders \subseteq Nat \ {0}
      BY <1>1, StateFacts
    <3> QED
      BY <2>2, <2>3, <3>1
  <2>4. CASE orders' = Append(orders, e) /\ alerts' = Link(stored, id, Len(orders'))
    <3>1. e \in Order /\ orders \in Seq(Order)
      BY <1>1, <1>2, NewOrderType, StateFacts
    <3>2. Len(Append(orders, e)) \in Nat \ {0}
      BY <3>1
    <3>3. Len(orders') \in Nat \ {0}
      BY <2>4, <3>2
    <3> QED
      BY <2>2, <2>4, <3>3
  <2> QED
    BY <1>8, <2>1, <2>3, <2>4
<1>10. \A i \in DOMAIN alerts : alerts'[i] = alerts[i]
  BY <1>2, <1>9 DEF LinkOnly
<1>11. confident => alerts'[id].order # None
  BY <1>9 DEF LinkOnly, None
<1>12. DOMAIN alerts' = DOMAIN alerts \cup {id}
  BY <1>2, <1>6 DEF SameButOrder
<1>13. /\ alerts'[id].asset = x /\ alerts'[id].status = "open"
       /\ alerts'[id].confident = confident
  BY <1>2, <1>3, <1>6 DEF SameButOrder
<1>14. ASSUME NEW i \in DOMAIN alerts'
       PROVE  /\ alerts'[i].confident => alerts'[i].order # None
              /\ alerts'[i].cleared \/ mem'[alerts'[i].asset].open = i
              /\ AutoCancel /\ alerts'[i].status = "dismissed" /\ alerts'[i].order # None
                   => orders'[alerts'[i].order].status = "cancelled"
  <2>1. CASE i = id
    BY <1>11, <1>13, <1>16, <2>1
  <2>2. CASE i # id
    <3>1. i \in DOMAIN alerts /\ alerts'[i] = alerts[i]
      BY <1>10, <1>12, <2>2
    <3>2. alerts'[i].cleared \/ mem'[alerts'[i].asset].open = i
      <4>1. CASE alerts[i].asset = x
        <5>1. mem[x].open = None /\ i # None
          BY <1>1, <1>7, <3>1, IdFacts DEF Calm
        <5> QED
          BY <1>7, <3>1, <4>1, <5>1
      <4>2. CASE alerts[i].asset # x
        <5>1. alerts[i].asset \in Assets
          BY <1>1, <3>1, StateFacts DEF Alert
        <5> QED
          BY <1>7, <1>16, <3>1, <4>2, <5>1
      <4> QED
        BY <4>1, <4>2
    <3>3. alerts[i].order # None => orders'[alerts[i].order] = orders[alerts[i].order]
      BY <1>1, <1>6, <3>1 DEF ReferencesResolve
    <3> QED
      BY <1>7, <3>1, <3>2, <3>3
  <2> QED
    BY <2>1, <2>2
<1>15. ASSUME NEW r \in DOMAIN records'
       PROVE  \E w \in DOMAIN orders' :
                orders'[w].ref = r /\ (orders'[w].status = "open" <=> r \in Live')
  <2>1. CASE r \in DOMAIN records
    <3>1. PICK w \in DOMAIN orders :
            orders[w].ref = r /\ (orders[w].status = "open" <=> r \in Live)
      BY <1>7, <2>1
    <3>2. r \in Live' <=> r \in Live
      BY <1>6, <2>1 DEF Live
    <3>3. w \in DOMAIN orders' /\ orders'[w] = orders[w]
      BY <1>6
    <3> QED
      BY <3>1, <3>2, <3>3
  <2>2. CASE r \notin DOMAIN records
    <3>1. records' = Append(records, NewRecord(x, fm, id)) /\ orders' = Append(orders, e)
      BY <1>8, <2>2
    <3>2. NewRecord(x, fm, id) \in Record /\ ~ NewRecord(x, fm, id).cancelled
      BY <1>2 DEF NewRecord, Record
    <3>3. e \in Order /\ orders \in Seq(Order) /\ records \in Seq(Record)
      BY <1>1, <1>2, NewOrderType, StateFacts
    <3>4. e.ref = Len(records) + 1 /\ e.status = "open"
      BY <1>4 DEF NewOrder
    <3>5. /\ Len(orders) + 1 \in DOMAIN orders' /\ orders'[Len(orders) + 1] = e
      <4>1. /\ DOMAIN Append(orders, e) = DOMAIN orders \cup {Len(orders) + 1}
            /\ Append(orders, e)[Len(orders) + 1] = e
        BY <3>3, AppendFacts
      <4> QED
        BY <3>1, <4>1
    <3>6. r = Len(records) + 1 /\ ~ records'[r].cancelled
      <4> PICK n : n = NewRecord(x, fm, id)
        OBVIOUS
      <4>1. /\ DOMAIN Append(records, n) = DOMAIN records \cup {Len(records) + 1}
            /\ Append(records, n)[Len(records) + 1] = n
        BY <3>2, <3>3, AppendFacts
      <4> QED
        BY <2>2, <3>1, <3>2, <4>1
    <3>7. r \in Live'
      BY <3>6 DEF Live
    <3> QED
      BY <3>4, <3>5, <3>6, <3>7
  <2> QED
    BY <2>1, <2>2
<1> QED
  BY <1>14, <1>15 DEF FaultFree

LEMMA FireStep ==
  ASSUME IInv, NEW x \in Assets, NEW top \in Tops \cup {NoTop}, NEW confident \in BOOLEAN,
         Fire(x, top, confident)
  PROVE  IInv'
<1>0. /\ TypeOK /\ Bounded /\ Remembered /\ mem \in [Assets -> Memory] /\ faults \in Nat
      /\ mem[x] \in Memory /\ Consistent(mem[x], x) /\ Counted(mem[x])
      /\ MaxRetry \in Nat /\ attempts \in [AlertIds -> Nat]
  BY StateFacts, MemoryFields DEF IInv, Remembered, AttemptsCounted
<1>1. PICK id, stored :
        id = Len(alerts) + 1 /\ stored = Append(alerts, NewAlert(x, confident))
  OBVIOUS
<1>2. PICK failed \in BOOLEAN :
        /\ RaiseWorkOrder(x, Len(alerts) + 1, Append(alerts, NewAlert(x, confident)), top,
                          failed)
        /\ mem' = [mem EXCEPT ![x] =
                     [@ EXCEPT !.phase = "alerted", !.open = Len(alerts) + 1,
                               !.top = IF failed THEN top ELSE mem[x].top,
                               !.retry = IF failed THEN 0 ELSE mem[x].retry]]
        /\ FaultIf(failed)
  BY DEF Fire
<1>24. RaiseWorkOrder(x, id, stored, top, failed)
  BY <1>1, <1>2
<1>3. PICK m : m = [mem[x] EXCEPT !.phase = "alerted", !.open = Len(alerts) + 1,
                                  !.top = IF failed THEN top ELSE mem[x].top,
                                  !.retry = IF failed THEN 0 ELSE mem[x].retry]
  OBVIOUS
<1>4. /\ mem[x].known /\ mem[x].phase = "quiet" /\ Len(alerts) < MaxAlerts
      /\ UNCHANGED <<mode, snaps, unheard>>
  BY DEF Fire, CanFire
<1>5. AlertAdded(x, confident, stored)
  BY <1>0, <1>1, <1>4, AddedFacts
<1>6. /\ id \in AlertIds \ DOMAIN alerts /\ stored \in Seq(Alert) /\ id \in DOMAIN stored
      /\ DOMAIN stored = DOMAIN alerts \cup {id} /\ Len(stored) = id
      /\ \A i \in DOMAIN alerts : stored[i] = alerts[i]
  BY <1>1, <1>5 DEF AlertAdded
<1>7. /\ stored[id].asset = x /\ stored[id].order = None /\ stored[id].status = "open"
  BY <1>1, <1>5, NewAlertFacts DEF AlertAdded
<1>8. /\ m \in Memory /\ m.known = mem[x].known /\ m.phase = "alerted" /\ m.open = id
      /\ m.moves = mem[x].moves
      /\ m.top = IF failed THEN top ELSE NoTop
      /\ m.top # NoTop => m.retry = 0
  <2>1. mem[x].top = NoTop
    BY <1>0, <1>4 DEF Consistent
  <2>2. id \in 0..MaxAlerts /\ 0 \in 0..MaxRetry
    BY <1>0, <1>6 DEF AlertIds
  <2>3. /\ m \in Memory /\ m.known = mem[x].known /\ m.phase = "alerted" /\ m.open = id
        /\ m.moves = mem[x].moves
    BY <1>0, <1>1, <1>3, <2>2 DEF Memory
  <2>4. /\ m.top = (IF failed THEN top ELSE mem[x].top)
        /\ m.retry = (IF failed THEN 0 ELSE mem[x].retry)
    BY <1>0, <1>3 DEF Memory
  <2> QED
    BY <2>1, <2>3, <2>4
<1>9. mem' = [mem EXCEPT ![x] = m]
  BY <1>2, <1>3
<1>10. /\ mem' \in [Assets -> Memory] /\ mem'[x] = m
       /\ \A y \in Assets \ {x} : mem'[y] = mem[y]
  BY <1>0, <1>8, <1>9, MemoryUpdate
<1>11. PICK fm \in Modes : Raised(x, id, stored, fm)
  <2>1. mode[top] \in Modes
    BY <1>0, StateFacts, ModeType
  <2> QED
    BY <1>0, <1>6, <1>24, <2>1, RaiseEffect
<1>12. /\ alerts' \in Seq(Alert) /\ SameButOrder(stored)
       /\ orders' \in Seq(Order) /\ records' \in Seq(Record)
       /\ attempts' \in [AlertIds -> Nat]
  BY <1>0, <1>6, <1>11, RaiseType
<1>13. faults' \in Nat /\ (faults' = 0 => faults = 0 /\ ~ failed)
  <2>1. (IF failed THEN 1 ELSE 0) \in Nat /\ Faults(IF failed THEN 1 ELSE 0)
    BY <1>2 DEF FaultIf
  <2> QED
    BY <1>0, <2>1, FaultFacts
<1>14. TypeOK'
  BY <1>0, <1>4, <1>10, <1>12, <1>13 DEF TypeOK
<1>15. /\ DOMAIN alerts' = DOMAIN alerts \cup {id} /\ Len(alerts') = id
       /\ alerts'[id].asset = x /\ alerts'[id].status = "open"
       /\ \A i \in DOMAIN alerts : /\ alerts'[i].asset = alerts[i].asset
                                   /\ alerts'[i].status = alerts[i].status
  BY <1>6, <1>7, <1>12 DEF SameButOrder
<1>16. Bounded' /\ AlertsKept
  BY <1>6, <1>15 DEF Bounded, AlertsKept, AlertIds
<1>17. Remembered'
  <2>1. Consistent(m, x)'
    BY <1>4, <1>8, <1>15 DEF Consistent
  <2> QED
    BY <1>0, <1>8, <1>9, <1>16, <2>1, RememberedKept
<1>18. ReferencesResolve' /\ RecordsResolve'
  <2>1. Linked(stored)
    BY <1>6, <1>7 DEF IInv, ReferencesResolve, Linked
  <2> QED
    BY <1>0, <1>6, <1>7, <1>11, <2>1, RaiseReferences DEF IInv
<1>19. AtMostOneOpen'
  BY <1>0, <1>6, <1>11, RaiseOneOpen DEF IInv
<1>20. AttemptsBounded' /\ AttemptsCounted'
  <2>1. attempts[id] = 0
    BY <1>6 DEF IInv, AttemptsCounted
  <2>2. attempts[id] <= MaxRetry /\ (m.top # NoTop => attempts[id] <= m.retry)
    BY <1>0, <1>8, <2>1
  <2>3. DOMAIN alerts \subseteq DOMAIN alerts' /\ id \in DOMAIN alerts' /\ id \notin DOMAIN alerts
    BY <1>6, <1>15
  <2> QED
    BY <1>0, <1>6, <1>8, <1>9, <1>11, <2>2, <2>3, RaiseAttempts DEF IInv
<1>21. VerdictSurvives'
  <2>1. \A y \in Assets : mem[y].known => mem'[y].known /\ mem'[y].moves = mem[y].moves
    BY <1>8, <1>10
  <2>2. \A i \in DOMAIN alerts : alerts[i].asset \in Assets
    BY <1>0, StateFacts DEF Alert
  <2>3. \A i \in DOMAIN alerts' : alerts'[i].status # "open" =>
          /\ i \in DOMAIN alerts /\ alerts[i].status # "open"
          /\ alerts'[i].asset = alerts[i].asset
    BY <1>15
  <2> QED
    BY <1>4, <2>1, <2>2, <2>3, VerdictKept DEF IInv
<1>22. ASSUME faults' = 0 PROVE MemoryAgrees' /\ FaultFree'
  <2>1. faults = 0 /\ failed = FALSE
    BY <1>13, <1>22
  <2>2. /\ \A y \in Assets : Calm(mem[y])
        /\ \A i \in DOMAIN alerts : mem[alerts[i].asset].known
    BY <2>1 DEF IInv, MemoryAgrees
  <2>3. \A y \in Assets : Calm(mem[y])'
    BY <1>8, <1>10, <2>1, <2>2 DEF Calm
  <2>4. ASSUME NEW i \in DOMAIN alerts' PROVE mem'[alerts'[i].asset].known
    <3>1. CASE i = id
      BY <1>4, <1>8, <1>10, <1>15, <3>1
    <3>2. CASE i # id
      <4>1. i \in DOMAIN alerts /\ alerts'[i].asset = alerts[i].asset
        BY <1>15, <3>2
      <4>2. alerts[i].asset \in Assets /\ mem[alerts[i].asset].known
        BY <1>0, <2>2, <4>1, StateFacts DEF Alert
      <4> QED
        BY <1>8, <1>10, <4>1, <4>2
    <3> QED
      BY <3>1, <3>2
  <2>5. MemoryAgrees'
    BY <2>3, <2>4 DEF MemoryAgrees
  <2>6. RaiseWorkOrder(x, id, stored, top, FALSE)
    BY <1>24, <2>1
  <2>7. FaultFree'
    BY <1>1, <1>4, <1>5, <1>8, <1>9, <2>1, <2>6, FireFaultFree
  <2> QED
    BY <2>5, <2>7
<1>23. MemoryAgrees' /\ FaultFree'
  BY <1>22, AfterFault
<1> QED
  BY <1>14, <1>16, <1>17, <1>18, <1>19, <1>20, <1>21, <1>23 DEF IInv

LEMMA RetryStep ==
  ASSUME IInv, NEW x \in Assets, Retry(x)
  PROVE  IInv'
<1>0. /\ TypeOK /\ Bounded /\ Remembered /\ mem \in [Assets -> Memory] /\ faults \in Nat
      /\ mem[x] \in Memory /\ Consistent(mem[x], x) /\ Counted(mem[x])
      /\ MaxRetry \in Nat /\ attempts \in [AlertIds -> Nat] /\ alerts \in Seq(Alert)
      /\ mem[x].retry \in Nat /\ mem[x].top \in Tops \cup {NoTop}
  BY StateFacts, MemoryFields DEF IInv, Remembered, AttemptsCounted
<1>1. /\ mem[x].phase # "quiet" /\ mem[x].top # NoTop /\ mem[x].open # None
      /\ mem[x].retry < MaxRetry /\ UNCHANGED <<mode, snaps, unheard>>
  BY DEF Retry, MayRetry
<1>2. PICK id : id = mem[x].open
  OBVIOUS
<1>3. PICK failed \in BOOLEAN :
        /\ RaiseWorkOrder(x, mem[x].open, alerts, mem[x].top, failed)
        /\ mem' = [mem EXCEPT ![x] =
                     [@ EXCEPT !.retry = mem[x].retry + 1,
                               !.top = IF failed THEN mem[x].top ELSE NoTop]]
        /\ FaultIf(failed)
  BY DEF Retry
<1>4. PICK m : m = [mem[x] EXCEPT !.retry = mem[x].retry + 1,
                                  !.top = IF failed THEN mem[x].top ELSE NoTop]
  OBVIOUS
<1>5. id \in DOMAIN alerts /\ alerts[id].asset = x /\ id \in AlertIds /\ mem[x].known
  BY <1>0, <1>1, <1>2, IdFacts, MemoryFields DEF Consistent
<1>6. /\ m \in Memory /\ m.known = mem[x].known /\ m.phase = mem[x].phase /\ m.open = id
      /\ m.moves = mem[x].moves /\ m.retry = mem[x].retry + 1
  <2>1. mem[x].retry + 1 \in 0..MaxRetry
    BY <1>0, <1>1
  <2>2. (IF failed THEN mem[x].top ELSE NoTop) \in Tops \cup {NoTop}
    BY <1>0
  <2> QED
    BY <1>0, <1>2, <1>4, <2>1, <2>2 DEF Memory
<1>7. mem' = [mem EXCEPT ![x] = m]
  BY <1>3, <1>4
<1>8. /\ mem' \in [Assets -> Memory] /\ mem'[x] = m
      /\ \A y \in Assets \ {x} : mem'[y] = mem[y]
  BY <1>0, <1>6, <1>7, MemoryUpdate
<1>9. PICK fm \in Modes : Raised(x, id, alerts, fm)
  <2>1. mode[mem[x].top] \in Modes
    BY <1>0, StateFacts, ModeType
  <2> QED
    BY <1>0, <1>2, <1>3, <1>5, <2>1, RaiseEffect
<1>10. /\ alerts' \in Seq(Alert) /\ SameButOrder(alerts)
       /\ orders' \in Seq(Order) /\ records' \in Seq(Record)
       /\ attempts' \in [AlertIds -> Nat]
  BY <1>0, <1>5, <1>9, RaiseType
<1>11. faults' \in Nat /\ (faults' = 0 => faults = 0)
  <2>1. (IF failed THEN 1 ELSE 0) \in Nat /\ Faults(IF failed THEN 1 ELSE 0)
    BY <1>3 DEF FaultIf
  <2> QED
    BY <1>0, <2>1, FaultFacts
<1>12. TypeOK'
  BY <1>0, <1>1, <1>8, <1>10, <1>11 DEF TypeOK
<1>13. /\ DOMAIN alerts' = DOMAIN alerts /\ Len(alerts') = Len(alerts)
       /\ \A i \in DOMAIN alerts : /\ alerts'[i].asset = alerts[i].asset
                                   /\ alerts'[i].status = alerts[i].status
  BY <1>10 DEF SameButOrder
<1>14. Bounded' /\ AlertsKept
  BY <1>0, <1>13 DEF Bounded, AlertsKept
<1>15. Remembered'
  <2>1. Consistent(m, x)'
    BY <1>1, <1>5, <1>6, <1>13 DEF Consistent
  <2> QED
    BY <1>0, <1>6, <1>7, <1>14, <2>1, RememberedKept
<1>16. ReferencesResolve' /\ RecordsResolve'
  <2>1. Linked(alerts)
    BY DEF IInv, ReferencesResolve, Linked
  <2> QED
    BY <1>0, <1>5, <1>9, <2>1, RaiseReferences DEF IInv
<1>17. AtMostOneOpen'
  BY <1>0, <1>5, <1>9, RaiseOneOpen DEF IInv
<1>18. AttemptsBounded' /\ AttemptsCounted'
  <2>1. attempts[id] <= 1 + mem[x].retry /\ attempts[id] \in Nat
    BY <1>0, <1>1, <1>2, <1>5 DEF Counted
  <2>2. attempts[id] <= MaxRetry
    BY <1>0, <1>1, <2>1
  <2>3. attempts[id] <= m.retry
    BY <1>0, <1>6, <2>1
  <2>4. DOMAIN alerts \subseteq DOMAIN alerts' /\ id \in DOMAIN alerts'
    BY <1>5, <1>13
  <2> QED
    BY <1>0, <1>5, <1>6, <1>7, <1>9, <2>2, <2>3, <2>4, RaiseAttempts DEF IInv
<1>19. VerdictSurvives'
  <2>1. \A y \in Assets : mem[y].known => mem'[y].known /\ mem'[y].moves = mem[y].moves
    BY <1>6, <1>8
  <2>2. \A i \in DOMAIN alerts : alerts[i].asset \in Assets
    BY <1>0, StateFacts DEF Alert
  <2> QED
    BY <1>1, <1>13, <2>1, <2>2, VerdictKept DEF IInv
<1>20. faults' # 0
  BY <1>1, <1>11 DEF IInv, MemoryAgrees, Calm
<1> QED
  BY <1>12, <1>14, <1>15, <1>16, <1>17, <1>18, <1>19, <1>20, AfterFault DEF IInv

-----------------------------------------------------------------------------
\* Evaluations keep the invariant.
LEMMA EvaluateStep ==
  ASSUME IInv, NEW x \in Assets, Evaluate(x)
  PROVE  IInv'
<1>1. CASE Register(x) \/ Withhold(x)
  BY <1>1, RegisterStep, WithholdStep
<1>2. ASSUME NEW confident \in BOOLEAN, FireUnsaved(x, confident) PROVE IInv'
  BY <1>2, FireUnsavedStep
<1>3. ASSUME NEW confident \in BOOLEAN, NEW top \in Tops \cup {NoTop},
             Fire(x, top, confident)
      PROVE  IInv'
  BY <1>3, FireStep
<1>4. CASE RetryUnread(x) \/ Retry(x)
  BY <1>4, RetryUnreadStep, RetryStep
<1>5. CASE ClearUnsaved(x) \/ Clear(x)
  BY <1>5, ClearUnsavedStep, ClearStep
<1> QED
  BY <1>1, <1>2, <1>3, <1>4, <1>5 DEF Evaluate

\* Verdicts keep the invariant.
LEMMA JudgeStep ==
  ASSUME IInv, NEW id \in DOMAIN alerts, Judge(id)
  PROVE  IInv'
<1>1. ASSUME NEW verdict \in {"confirm", "dismiss"}, Feedback(id, verdict) PROVE IInv'
  BY <1>1, FeedbackStep
<1>2. ASSUME NEW verdict \in {"confirm", "dismiss"}, FeedbackUnknown(id, verdict)
      PROVE  IInv'
  BY <1>2, FeedbackUnknownStep
<1>3. CASE FeedbackUnsaved(id)
  BY <1>3, FeedbackUnsavedStep
<1> QED
  BY <1>1, <1>2, <1>3 DEF Judge

LEMMA StutterStep ==
  ASSUME IInv, UNCHANGED vars
  PROVE  IInv'
<1> USE DEF vars
<1>1. TypeOK'
  BY DEF IInv, TypeOK
<1>2. /\ Bounded' /\ ReferencesResolve' /\ RecordsResolve' /\ AtMostOneOpen'
      /\ AttemptsBounded'
  BY StoreKept
<1>3. Remembered' /\ AttemptsCounted'
  BY DEF IInv, Remembered, Consistent, AttemptsCounted, Counted
<1>4. VerdictSurvives'
  BY DEF IInv, VerdictSurvives
<1>5. MemoryAgrees'
  BY DEF IInv, MemoryAgrees, Calm
<1>6. FaultFree'
  BY DEF IInv, FaultFree, Live
<1> QED
  BY <1>1, <1>2, <1>3, <1>4, <1>5, <1>6 DEF IInv

LEMMA InvariantStep == IInv /\ [Next]_vars => IInv'
<1> SUFFICES ASSUME IInv, [Next]_vars PROVE IInv'
  OBVIOUS
<1>1. ASSUME NEW x \in Assets, Evaluate(x) \/ Warm(x) PROVE IInv'
  BY <1>1, EvaluateStep, WarmStep
<1>2. ASSUME NEW id \in DOMAIN alerts, Judge(id) PROVE IInv'
  BY <1>2, JudgeStep
<1>3. ASSUME NEW t \in ModeMaps, PutTemplate(t) PROVE IInv'
  BY <1>3, PutTemplateStep
<1>4. CASE Crash
  BY <1>4, CrashStep
<1>5. CASE UNCHANGED vars
  BY <1>5, StutterStep
<1> QED
  BY <1>1, <1>2, <1>3, <1>4, <1>5 DEF Next

-----------------------------------------------------------------------------
\* The inductive invariant: what an asset's memory says of the store is true of
\* it, and what the store says of itself and of the CMMS stays true, through
\* every handler of engine.go that alerts, raises orders or takes verdicts, with
\* every failure it may meet, and through a restart.
THEOREM Invariance == Spec => []IInv
<1>1. Init => IInv
  BY InitMeetsIInv
<1>2. IInv /\ [Next]_vars => IInv'
  BY InvariantStep
<1> QED
  BY <1>1, <1>2, PTL DEF Spec

\* The memory, the store and the CMMS hold what their types say; no more than
\* MaxRetry retries are counted.
THEOREM TypeCorrect == Spec => []TypeOK
<1>1. IInv => TypeOK
  BY DEF IInv
<1> QED
  BY <1>1, Invariance, PTL

\* Whatever fails and whenever the process restarts, the order of an alert is
\* stored and of its asset, and a stored order names the CMMS record that was
\* created for its asset, failure mode and alert (raiseWorkOrder).
THEOREM LinksResolve == Spec => []ReferencesResolve
<1>1. IInv => ReferencesResolve
  BY DEF IInv
<1> QED
  BY <1>1, Invariance, PTL

LEMMA FewOpenOrders == TypeOK /\ AtMostOneOpen => OneOpenOrder
<1> SUFFICES ASSUME TypeOK, AtMostOneOpen, NEW x \in Assets, NEW fm \in Modes
             PROVE  Cardinality(OpenOrders(x, fm)) <= 1
  BY DEF OneOpenOrder
<1>1. \A v, w \in OpenOrders(x, fm) : v = w
  BY DEF AtMostOneOpen, OpenOrders
<1>2. CASE OpenOrders(x, fm) = {}
  BY <1>2, FS_EmptySet
<1>3. CASE OpenOrders(x, fm) # {}
  <2>1. PICK w : OpenOrders(x, fm) = {w}
    BY <1>1, <1>3
  <2>2. Cardinality({w}) = 1
    BY FS_Singleton, Zenon
  <2> QED
    BY <2>1, <2>2
<1> QED
  BY <1>2, <1>3

\* The rule the database backs with a partial unique index: at most one open
\* work order per asset and failure mode, whatever failed (Policy.Decide, WO-1).
THEOREM NoSecondOpenOrder == Spec => []OneOpenOrder
<1>1. IInv => OneOpenOrder
  BY FewOpenOrders DEF IInv
<1> QED
  BY <1>1, Invariance, PTL

\* The CMMS is asked for one alert's order once and once more for every retry,
\* for any number of retries, failures and restarts.
THEOREM AttemptsAreBounded == Spec => []AttemptsBounded
<1>1. IInv => AttemptsBounded
  BY DEF IInv
<1> QED
  BY <1>1, Invariance, PTL

\* As long as nothing fails, a confident alert has its order, an alert that is
\* not cleared is the one its asset remembers, a dismissed alert's order is
\* cancelled, and the CMMS holds the orders of the store with the same status.
THEOREM AgreementWithoutFaults == Spec => []FaultFree
<1>1. IInv => FaultFree
  BY DEF IInv
<1> QED
  BY <1>1, Invariance, PTL

\* A stored verdict that reached the asset has moved its threshold, in memory
\* and in the snapshot a restart reads (Engine.Feedback).
THEOREM VerdictsSurvive == Spec => []VerdictSurvives
<1>1. IInv => VerdictSurvives
  BY DEF IInv
<1> QED
  BY <1>1, Invariance, PTL

-----------------------------------------------------------------------------
\* What a step may not take back.

KnownFactsStay ==
  \A i \in DOMAIN alerts :
    /\ alerts[i].status # "open" => alerts'[i].status = alerts[i].status
    /\ alerts[i].cleared => alerts'[i].cleared

LEMMA RaiseKeepsFacts ==
  ASSUME IInv, NEW x \in Assets, NEW id \in AlertIds, NEW stored \in Seq(Alert),
         id \in DOMAIN stored, NEW top \in Tops \cup {NoTop}, NEW failed \in BOOLEAN,
         RaiseWorkOrder(x, id, stored, top, failed),
         DOMAIN alerts \subseteq DOMAIN stored,
         \A i \in DOMAIN alerts : stored[i] = alerts[i]
  PROVE  KnownFactsStay
<1>1. TypeOK /\ mode[top] \in Modes
  BY StateFacts, ModeType DEF IInv
<1>2. SameButOrder(stored)
  BY <1>1, RaiseEffect, RaiseType
<1> QED
  BY <1>2 DEF KnownFactsStay, SameButOrder

LEMMA EvaluateKeepsFacts ==
  ASSUME IInv, NEW x \in Assets, Evaluate(x)
  PROVE  KnownFactsStay
<1>1. TypeOK /\ Bounded /\ Consistent(mem[x], x)
  BY DEF IInv, Remembered
<1>2. CASE alerts' = alerts
  BY <1>2 DEF KnownFactsStay
<1>3. CASE Register(x) \/ Withhold(x) \/ RetryUnread(x)
  BY <1>2, <1>3 DEF Register, Withhold, RetryUnread
<1>4. ASSUME NEW confident \in BOOLEAN, CanFire(x)
      PROVE  AlertAdded(x, confident, Append(alerts, NewAlert(x, confident)))
  BY <1>1, <1>4, AddedFacts DEF CanFire
<1>5. ASSUME NEW confident \in BOOLEAN, FireUnsaved(x, confident)
      PROVE  KnownFactsStay
  <2>1. alerts' = alerts \/ AlertAdded(x, confident, alerts')
    BY <1>4, <1>5 DEF FireUnsaved, AfterWrite
  <2> QED
    BY <1>2, <2>1 DEF AlertAdded, KnownFactsStay
<1>6. ASSUME NEW confident \in BOOLEAN, NEW top \in Tops \cup {NoTop},
             Fire(x, top, confident)
      PROVE  KnownFactsStay
  <2>1. PICK id, stored :
          id = Len(alerts) + 1 /\ stored = Append(alerts, NewAlert(x, confident))
    OBVIOUS
  <2>2. PICK failed \in BOOLEAN :
          RaiseWorkOrder(x, Len(alerts) + 1, Append(alerts, NewAlert(x, confident)), top,
                         failed)
    BY <1>6 DEF Fire
  <2>3. AlertAdded(x, confident, stored)
    BY <1>4, <1>6, <2>1 DEF Fire
  <2>4. /\ id \in AlertIds /\ stored \in Seq(Alert) /\ id \in DOMAIN stored
        /\ DOMAIN alerts \subseteq DOMAIN stored
        /\ \A i \in DOMAIN alerts : stored[i] = alerts[i]
    BY <2>1, <2>3 DEF AlertAdded
  <2>5. RaiseWorkOrder(x, id, stored, top, failed)
    BY <2>1, <2>2
  <2> QED
    BY <2>4, <2>5, RaiseKeepsFacts
<1>7. CASE Retry(x)
  <2>1. PICK failed \in BOOLEAN : RaiseWorkOrder(x, mem[x].open, alerts, mem[x].top, failed)
    BY <1>7 DEF Retry
  <2>2. mem[x].open \in DOMAIN alerts /\ mem[x].open \in AlertIds
    BY <1>1, <1>7, IdFacts DEF Retry, MayRetry, Consistent
  <2>3. mem[x].top \in Tops \cup {NoTop} /\ alerts \in Seq(Alert)
    BY <1>1, MemoryFields, StateFacts
  <2> QED
    BY <2>1, <2>2, <2>3, RaiseKeepsFacts
<1>8. CASE ClearUnsaved(x) \/ Clear(x)
  <2>1. \/ alerts' = alerts
        \/ /\ mem[x].open # None
           /\ alerts' = [alerts EXCEPT ![mem[x].open].cleared = TRUE]
    BY <1>8 DEF ClearUnsaved, Clear, AfterWrite
  <2>2. ASSUME mem[x].open # None,
               alerts' = [alerts EXCEPT ![mem[x].open].cleared = TRUE]
        PROVE  KnownFactsStay
    <3>1. mem[x].open \in DOMAIN alerts
      BY <1>1, <2>2 DEF Consistent
    <3>2. AlertCleared(mem[x].open)
      BY <1>1, <2>2, <3>1, ClearedFacts
    <3> QED
      BY <3>2 DEF AlertCleared, KnownFactsStay
  <2> QED
    BY <1>2, <2>1, <2>2
<1> QED
  BY <1>3, <1>5, <1>6, <1>7, <1>8 DEF Evaluate

LEMMA JudgeKeepsFacts ==
  ASSUME IInv, NEW id \in DOMAIN alerts, Judge(id)
  PROVE  KnownFactsStay
<1>1. TypeOK
  BY DEF IInv
<1>2. alerts[id].status = "open"
  BY DEF Judge, Feedback, FeedbackUnknown, FeedbackUnsaved
<1>3. \/ alerts' = alerts
      \/ \E verdict \in {"confirm", "dismiss"} : alerts' = Judged(id, verdict)
  BY DEF Judge, Feedback, FeedbackUnknown, FeedbackUnsaved, AfterWrite
<1>4. alerts' = alerts \/ AlertJudged(id)
  BY <1>1, <1>3, JudgedFacts
<1> QED
  BY <1>2, <1>4 DEF AlertJudged, KnownFactsStay

\* No handler takes back a verdict or the end of an episode: each reads the
\* alert it writes again, or finds it open.
THEOREM FactsNeverRetracted == Spec => FactsStay
<1>1. IInv /\ [Next]_vars => [KnownFactsStay]_vars
  <2> SUFFICES ASSUME IInv, Next PROVE KnownFactsStay
    OBVIOUS
  <2>1. ASSUME NEW x \in Assets, Evaluate(x) \/ Warm(x) PROVE KnownFactsStay
    <3>1. CASE Warm(x)
      BY <3>1 DEF Warm, KnownFactsStay
    <3> QED
      BY <2>1, <3>1, EvaluateKeepsFacts
  <2>2. ASSUME NEW id \in DOMAIN alerts, Judge(id) PROVE KnownFactsStay
    BY <2>2, JudgeKeepsFacts
  <2>3. CASE Crash \/ \E t \in ModeMaps : PutTemplate(t)
    BY <2>3 DEF Crash, PutTemplate, KnownFactsStay
  <2> QED
    BY <2>1, <2>2, <2>3 DEF Next
<1>2. Spec => [][KnownFactsStay]_vars
  BY <1>1, Invariance, PTL DEF Spec
<1> QED
  BY <1>2 DEF FactsStay, KnownFactsStay
=============================================================================
