------------------------- MODULE KafkaConsumerProof -------------------------
(***************************************************************************)
(* Theorems about KafkaConsumer, for every group, topic and number of      *)
(* failures: a record that is committed was taken or handed to a handler   *)
(* that failed, and no two members have the same record at hand.           *)
(***************************************************************************)
EXTENDS KafkaConsumer, TLAPS

Consumer ==
  [phase : {"down", "idle", "polled", "taken"}, member : BOOLEAN, blocked : BOOLEAN,
   batch : SUBSET Records, pos : [Partitions -> Nat]]

Types ==
  /\ committed \in [Partitions -> Nat]
  /\ owner \in [Partitions -> Consumers \cup {None}]
  /\ target \in [Partitions -> Consumers \cup {None}]
  /\ con \in [Consumers -> Consumer]

\* Partitions belong to members.
Grouped == \A p \in Partitions :
  /\ owner[p] # None => con[owner[p]].member
  /\ target[p] # None => con[target[p]].member

\* A consumer that has a batch at hand blocks rebalances.
Blocking == \A c \in Consumers :
  IF con[c].phase \in {"polled", "taken"} THEN con[c].blocked ELSE con[c].batch = {}

\* A member has records of its own partitions at hand.
Holds ==
  \A c \in Consumers : con[c].member => \A r \in con[c].batch : owner[r[1]] = c

\* What the broker was told of, and what a client has read of the partitions it
\* owns, was handed to a handler, but for the batch at hand.
Delivered ==
  /\ \A r \in Good : r[2] <= committed[r[1]] => r \in handled \cup failed
  /\ \A c \in Consumers :
       /\ con[c].phase = "taken" => Batch(c) \subseteq handled
       /\ \A r \in Good : owner[r[1]] = c /\ r[2] <= con[c].pos[r[1]] =>
            r \in handled \cup failed \cup con[c].batch

IInv == Types /\ Grouped /\ Blocking /\ Holds /\ Delivered

-----------------------------------------------------------------------------
\* A record is of a partition, at an offset.
LEMMA RecordType == \A r \in Records : r[1] \in Partitions /\ r[2] \in Nat
  BY KafkaAssumption DEF Records

\* What becomes of the consumers when one of them changes.
Turns(c, d) == con' \in [Consumers -> Consumer] /\ con'[c] = d
               /\ \A e \in Consumers \ {c} : con'[e] = con[e]

LEMMA TurnsTo ==
  ASSUME con \in [Consumers -> Consumer], NEW c \in Consumers, NEW d \in Consumer,
         con' = [con EXCEPT ![c] = d]
  PROVE  Turns(c, d)
  BY DEF Turns

LEMMA DownType == Down \in Consumer
  BY DEF Down, Consumer

LEMMA InitInv == Init => IInv
<1> SUFFICES ASSUME Init PROVE IInv
  OBVIOUS
<1>1. Types
  BY DownType DEF Init, Types
<1>2. Grouped /\ Blocking
  BY DEF Init, Grouped, Blocking, Down
<1>3. Holds
  BY DEF Init, Holds, Down
<1>4. Delivered
  <2>1. \A r \in Good : r[1] \in Partitions /\ r[2] > 0
    BY KafkaAssumption DEF Good, Records
  <2>2. \A c \in Consumers : con[c].phase = "down" /\ \A p \in Partitions : con[c].pos[p] = 0
    BY DEF Init, Down
  <2>3. \A p \in Partitions : committed[p] = 0
    BY DEF Init
  <2>4. \A r \in Good : r[2] \in Nat
    BY RecordType DEF Good
  <2> QED
    BY <2>1, <2>2, <2>3, <2>4 DEF Delivered
<1> QED
  BY <1>1, <1>2, <1>3, <1>4 DEF IInv

-----------------------------------------------------------------------------
\* The group.
LEMMA JoinStep ==
  ASSUME IInv, NEW c \in Consumers, Join(c)
  PROVE  IInv'
<1> DEFINE d == [Down EXCEPT !.phase = "idle", !.member = TRUE]
<1>1. Turns(c, d) /\ d.phase = "idle" /\ d.member /\ d.batch = {}
  <2>1. d \in Consumer
    BY DownType DEF Down, Consumer
  <2> QED
    BY <2>1, TurnsTo DEF Join, IInv, Types, Down
<1>2. UNCHANGED <<committed, owner, handled, failed>> /\ ~ con[c].member
  BY DEF Join, history
<1>3. target' \in [Partitions -> Members \cup {c}]
  BY DEF Join, Retarget
<1>4. \A p \in Partitions : owner[p] # c
  BY <1>2, KafkaAssumption DEF IInv, Grouped
<1>5. Types'
  BY <1>1, <1>2, <1>3 DEF IInv, Types, Turns, Members
<1>6. Grouped' /\ Blocking'
  <2>1. ASSUME NEW p \in Partitions
        PROVE  /\ owner'[p] # None => con'[owner'[p]].member
               /\ target'[p] # None => con'[target'[p]].member
    <3>1. owner[p] # None => owner[p] \in Consumers \ {c} /\ con[owner[p]].member
      BY <1>4 DEF IInv, Types, Grouped
    <3>2. target'[p] = c \/ target'[p] \in Members \ {c}
      BY <1>3
    <3> QED
      BY <1>1, <1>2, <3>1, <3>2 DEF Turns, Members
  <2>2. Blocking'
    BY <1>1 DEF IInv, Blocking, Turns
  <2> QED
    BY <2>1, <2>2 DEF Grouped
<1>7. Holds'
  BY <1>1, <1>2 DEF IInv, Holds, Turns
<1>8. Delivered'
  <2>1. \A r \in Good : owner[r[1]] # c
    BY <1>4, RecordType DEF Good
  <2> QED
    BY <1>1, <1>2, <2>1 DEF IInv, Delivered, Turns, Batch
<1> QED
  BY <1>5, <1>6, <1>7, <1>8 DEF IInv

\* What a client has read of a partition changes: nobody has its records at hand.
LEMMA MovedStep ==
  ASSUME IInv, NEW p \in Partitions, NEW c \in Consumers, NEW n \in Nat,
         con' = [con EXCEPT ![c] = [@ EXCEPT !.pos[p] = n]], ~ con[c].blocked,
         NEW o \in {c, None}, owner' = [owner EXCEPT ![p] = o], owner[p] \in {c, None},
         o = c => con[c].member /\ n = committed[p],
         UNCHANGED <<committed, target, handled, failed>>
  PROVE  IInv'
<1> DEFINE d == [con[c] EXCEPT !.pos = [con[c].pos EXCEPT ![p] = n]]
<1>1. /\ Turns(c, d) /\ d.phase = con[c].phase /\ d.member = con[c].member
      /\ d.blocked = con[c].blocked /\ d.batch = con[c].batch
      /\ d.pos = [con[c].pos EXCEPT ![p] = n]
  <2>1. con[c] \in Consumer
    BY DEF IInv, Types
  <2>2. [con[c].pos EXCEPT ![p] = n] \in [Partitions -> Nat]
    BY <2>1 DEF Consumer
  <2>3. d \in Consumer
    BY <2>1, <2>2 DEF Consumer
  <2>4. con' = [con EXCEPT ![c] = d]
    BY <2>1 DEF IInv, Types, Consumer
  <2>5. Turns(c, d)
    BY <2>3, <2>4, TurnsTo DEF IInv, Types
  <2> QED
    BY <2>1, <2>5 DEF Consumer
<1> HIDE DEF d
<1>2. con[c].batch = {} /\ con[c].phase \notin {"polled", "taken"}
  BY DEF IInv, Blocking
<1>3. Types'
  BY <1>1 DEF IInv, Types, Turns
<1>4. Grouped'
  <2>1. ASSUME NEW q \in Partitions
        PROVE  /\ owner'[q] # None => con'[owner'[q]].member
               /\ target'[q] # None => con'[target'[q]].member
    <3>1. \A e \in Consumers : con'[e].member = con[e].member
      BY <1>1 DEF Turns
    <3>2. owner'[q] = owner[q] \/ owner'[q] = None \/ (owner'[q] = c /\ con[c].member)
      BY DEF IInv, Types
    <3> QED
      BY <3>1, <3>2 DEF IInv, Grouped, Types
  <2> QED
    BY <2>1 DEF Grouped
<1>5. Blocking'
  BY <1>1 DEF IInv, Blocking, Turns
<1>6. Holds'
  <2>1. ASSUME NEW e \in Consumers, con'[e].member, NEW r \in con'[e].batch
        PROVE  owner'[r[1]] = e
    <3>1. e # c /\ con'[e] = con[e]
      BY <1>1, <1>2, <2>1 DEF Turns
    <3>2. owner[r[1]] = e
      BY <2>1, <3>1 DEF IInv, Holds
    <3>3. e # None
      BY KafkaAssumption
    <3>4. r \in Records
      BY <2>1, <3>1 DEF IInv, Types, Consumer
    <3> QED
      BY <3>1, <3>2, <3>3, <3>4, RecordType DEF IInv, Types
  <2> QED
    BY <2>1 DEF Holds
<1>7. Delivered'
  <2>1. ASSUME NEW e \in Consumers, NEW r \in Good,
               owner'[r[1]] = e, r[2] <= con'[e].pos[r[1]]
        PROVE  r \in handled \cup failed \cup con'[e].batch
    <3>1. r[1] \in Partitions /\ e # None
      BY RecordType, KafkaAssumption DEF Good
    <3>2. CASE r[1] = p
      <4>1. e = c /\ o = c
        BY <2>1, <3>1, <3>2 DEF IInv, Types
      <4>2. con'[e].pos[r[1]] = committed[p]
        BY <1>1, <3>2, <4>1 DEF Turns, IInv, Types, Consumer
      <4> QED
        BY <2>1, <3>2, <4>2 DEF IInv, Delivered
    <3>3. CASE r[1] # p
      <4>1. owner[r[1]] = e /\ con'[e].batch = con[e].batch
            /\ con'[e].pos[r[1]] = con[e].pos[r[1]]
        BY <1>1, <2>1, <3>1, <3>3 DEF Turns, IInv, Types, Consumer
      <4> QED
        BY <2>1, <4>1 DEF IInv, Delivered
    <3> QED
      BY <3>2, <3>3
  <2>2. \A e \in Consumers : con'[e].phase = "taken" => Batch(e)' \subseteq handled'
    BY <1>1 DEF Turns, IInv, Delivered, Batch
  <2> QED
    BY <2>1, <2>2 DEF IInv, Delivered
<1> QED
  BY <1>3, <1>4, <1>5, <1>6, <1>7 DEF IInv

LEMMA RebalanceStep ==
  ASSUME IInv, NEW p \in Partitions, Revoke(p) \/ Assign(p)
  PROVE  IInv'
<1>1. CASE Revoke(p)
  <2>1. owner[p] \in Consumers
    BY <1>1 DEF Revoke, IInv, Types
  <2> QED
    BY <1>1, <2>1, MovedStep DEF Revoke, history
<1>2. CASE Assign(p)
  <2>1. target[p] \in Consumers /\ con[target[p]].member
    BY <1>2 DEF Assign, IInv, Types, Grouped
  <2>2. committed[p] \in Nat
    BY DEF IInv, Types
  <2> QED
    BY <1>2, <2>1, <2>2, MovedStep DEF Assign, history
<1> QED
  BY <1>1, <1>2

\* A member leaves the group, by itself or not: nothing of it counts any more.
LEMMA GoneStep ==
  ASSUME IInv, NEW c \in Consumers, NEW d \in Consumer, Turns(c, d), ~ d.member,
         /\ owner' = [p \in Partitions |-> IF owner[p] = c THEN None ELSE owner[p]]
         /\ target' \in [Partitions -> (Members \ {c}) \cup {None}],
         \/ d = Down
         \/ d.phase = con[c].phase /\ d.blocked = con[c].blocked /\ d.batch = con[c].batch,
         UNCHANGED <<committed, handled, failed>>
  PROVE  IInv'
<1>1. Types'
  BY DEF IInv, Types, Turns, Members
<1>2. Grouped'
  <2>1. ASSUME NEW p \in Partitions
        PROVE  /\ owner'[p] # None => con'[owner'[p]].member
               /\ target'[p] # None => con'[target'[p]].member
    <3>1. owner'[p] # None => /\ owner'[p] \in Consumers \ {c} /\ con[owner'[p]].member
      BY DEF IInv, Types, Grouped
    <3>2. target'[p] # None => target'[p] \in Members \ {c}
      OBVIOUS
    <3> QED
      BY <3>1, <3>2 DEF Turns, Members
  <2> QED
    BY <2>1 DEF Grouped
<1>3. Blocking'
  BY DEF IInv, Blocking, Turns, Down
<1>4. Holds'
  <2>1. ASSUME NEW e \in Consumers, con'[e].member, NEW r \in con'[e].batch
        PROVE  owner'[r[1]] = e
    <3>1. e # c /\ con'[e] = con[e]
      BY <2>1 DEF Turns
    <3>2. owner[r[1]] = e /\ r \in Records
      BY <2>1, <3>1 DEF IInv, Holds, Types, Consumer
    <3> QED
      BY <3>1, <3>2, RecordType
  <2> QED
    BY <2>1 DEF Holds
<1>5. Delivered'
  <2>1. ASSUME NEW e \in Consumers, NEW r \in Good,
               owner'[r[1]] = e, r[2] <= con'[e].pos[r[1]]
        PROVE  r \in handled \cup failed \cup con'[e].batch
    <3>1. r[1] \in Partitions /\ e # None
      BY RecordType, KafkaAssumption DEF Good
    <3>2. owner[r[1]] = e /\ e # c /\ con'[e] = con[e]
      BY <2>1, <3>1 DEF Turns
    <3> QED
      BY <2>1, <3>2 DEF IInv, Delivered
  <2>2. \A e \in Consumers : con'[e].phase = "taken" => Batch(e)' \subseteq handled'
    BY DEF Turns, IInv, Delivered, Batch, Down
  <2> QED
    BY <2>1, <2>2 DEF IInv, Delivered
<1> QED
  BY <1>1, <1>2, <1>3, <1>4, <1>5 DEF IInv

LEMMA LeaveStep ==
  ASSUME IInv, NEW c \in Consumers, Stop(c) \/ Evict(c)
  PROVE  IInv'
<1>1. UNCHANGED <<committed, handled, failed>>
  BY DEF Stop, Evict, history
<1>2. \A members \in SUBSET Consumers : Retarget(members) =>
        target' \in [Partitions -> members \cup {None}]
  BY DEF Retarget
<1>3. ASSUME Gone(c)
      PROVE  /\ owner' = [p \in Partitions |-> IF owner[p] = c THEN None ELSE owner[p]]
             /\ target' \in [Partitions -> (Members \ {c}) \cup {None}]
  BY <1>2, <1>3 DEF Gone, Members
<1>4. CASE Stop(c)
  <2>1. Turns(c, Down) /\ ~ Down.member
    BY <1>4, DownType, TurnsTo DEF Stop, IInv, Types, Down
  <2>2. CASE con[c].member
    BY <1>1, <1>3, <1>4, <2>1, <2>2, DownType, GoneStep DEF Stop
  <2>3. CASE ~ con[c].member
    <3>1. owner' = [p \in Partitions |-> IF owner[p] = c THEN None ELSE owner[p]]
      BY <1>4, <2>3, KafkaAssumption DEF Stop, group, IInv, Grouped, Types
    <3>2. target' \in [Partitions -> (Members \ {c}) \cup {None}]
      <4>1. \A p \in Partitions : target[p] \in (Members \ {c}) \cup {None}
        BY <2>3 DEF IInv, Grouped, Types, Members
      <4> QED
        BY <1>4, <2>3, <4>1 DEF Stop, group, IInv, Types
    <3> QED
      BY <1>1, <2>1, <3>1, <3>2, DownType, GoneStep
  <2> QED
    BY <2>2, <2>3
<1>5. CASE Evict(c)
  <2> DEFINE d == [con[c] EXCEPT !.member = FALSE, !.pos = Down.pos]
  <2>1. con[c] \in Consumer /\ Down.pos \in [Partitions -> Nat]
    BY DownType DEF IInv, Types, Consumer
  <2>2. d \in Consumer /\ ~ d.member /\ d.phase = con[c].phase /\ d.blocked = con[c].blocked
        /\ d.batch = con[c].batch
    BY <2>1 DEF Consumer
  <2>3. Turns(c, d)
    BY <1>5, <2>2, TurnsTo DEF Evict, IInv, Types
  <2> HIDE DEF d
  <2> QED
    BY <1>1, <1>3, <1>5, <2>2, <2>3, GoneStep DEF Evict
<1> QED
  BY <1>4, <1>5

-----------------------------------------------------------------------------
\* The loop.
LEMMA PollStep ==
  ASSUME IInv, NEW c \in Consumers, Poll(c)
  PROVE  IInv'
<1>1. PICK upto \in Polls(c) :
        con' = [con EXCEPT ![c] = [@ EXCEPT !.phase = "polled", !.blocked = TRUE,
                                            !.batch = Reads(c, upto), !.pos = upto]]
  BY DEF Poll
<1> DEFINE d == [con[c] EXCEPT !.phase = "polled", !.blocked = TRUE,
                               !.batch = Reads(c, upto), !.pos = upto]
<1>2. con[c] \in Consumer
  BY DEF IInv, Types
<1>3. upto \in [Partitions -> Nat] /\ Reads(c, upto) \subseteq Records
  <2>1. \A p \in Partitions : upto[p] \in Nat
    <3> SUFFICES ASSUME NEW p \in Partitions PROVE upto[p] \in Nat
      OBVIOUS
    <3>1. con[c].pos[p] \in Nat /\ Len(Log[p]) \in Nat
      BY <1>2, KafkaAssumption DEF Consumer
    <3>2. IF owner[p] = c THEN upto[p] \in con[c].pos[p]..Len(Log[p])
          ELSE upto[p] = con[c].pos[p]
      BY DEF Polls
    <3> QED
      BY <3>1, <3>2
  <2>2. upto = [p \in Partitions |-> upto[p]]
    BY DEF Polls
  <2> QED
    BY <2>1, <2>2 DEF Reads
<1>4. /\ d \in Consumer /\ d.phase = "polled" /\ d.blocked = TRUE /\ d.member = con[c].member
      /\ d.batch = Reads(c, upto) /\ d.pos = upto
  BY <1>2, <1>3 DEF Consumer
<1>5. Turns(c, d)
  BY <1>1, <1>4, TurnsTo DEF IInv, Types
<1> HIDE DEF d
<1>6. UNCHANGED <<committed, owner, target, handled, failed>> /\ con[c].batch = {}
  BY DEF Poll, group, history, IInv, Blocking
<1>7. \A p \in Partitions : owner[p] # c => upto[p] = con[c].pos[p]
  BY DEF Polls
<1>8. Types' /\ Grouped' /\ Blocking'
  BY <1>4, <1>5, <1>6 DEF IInv, Types, Grouped, Blocking, Turns
<1>9. Holds'
  <2>1. ASSUME NEW r \in Reads(c, upto)
        PROVE  owner[r[1]] = c
    <3>1. r[1] \in Partitions /\ r[2] \in Nat /\ con[c].pos[r[1]] \in Nat
      BY <1>2, RecordType DEF Reads, Consumer
    <3>2. r[2] > con[c].pos[r[1]] /\ r[2] <= upto[r[1]]
      BY DEF Reads
    <3> QED
      BY <1>7, <3>1, <3>2
  <2> QED
    BY <1>4, <1>5, <1>6, <2>1 DEF IInv, Holds, Turns
<1>10. Delivered'
  <2>1. ASSUME NEW e \in Consumers, NEW r \in Good,
               owner[r[1]] = e, r[2] <= con'[e].pos[r[1]]
        PROVE  r \in handled \cup failed \cup con'[e].batch
    <3>1. CASE e # c
      BY <1>5, <2>1, <3>1 DEF Turns, IInv, Delivered
    <3>2. CASE e = c
      <4>1. r \in Records /\ r[2] \in Nat /\ con[c].pos[r[1]] \in Nat /\ r[2] <= upto[r[1]]
        BY <1>2, <1>4, <1>5, <2>1, <3>2, RecordType DEF Turns, Good, Consumer
      <4>2. CASE r[2] <= con[c].pos[r[1]]
        BY <1>6, <2>1, <3>2, <4>2 DEF IInv, Delivered
      <4>3. CASE r[2] > con[c].pos[r[1]]
        BY <1>4, <1>5, <3>2, <4>1, <4>3 DEF Turns, Reads
      <4> QED
        BY <4>1, <4>2, <4>3
    <3> QED
      BY <3>1, <3>2
  <2>2. \A e \in Consumers : con'[e].phase = "taken" => Batch(e)' \subseteq handled'
    BY <1>4, <1>5, <1>6 DEF Turns, IInv, Delivered, Batch
  <2> QED
    BY <1>6, <2>1, <2>2 DEF IInv, Delivered
<1> QED
  BY <1>8, <1>9, <1>10 DEF IInv

\* The loop comes round, with what it had at hand handed to a handler, and with
\* or without a commit.
LEMMA AgainStep ==
  ASSUME IInv, NEW c \in Consumers, con' = Again(c),
         Batch(c) \subseteq handled' \cup failed',
         handled \subseteq handled', failed \subseteq failed', UNCHANGED group,
         \/ committed' = committed
         \/ committed' = Uncommitted(c) /\ Batch(c) \subseteq handled,
         \A e \in Consumers : e # c /\ con[e].phase = "taken" => Batch(e) \subseteq handled'
  PROVE  IInv'
<1> DEFINE d == [con[c] EXCEPT !.phase = "idle", !.blocked = FALSE, !.batch = {}]
<1>1. con[c] \in Consumer
  BY DEF IInv, Types
<1>2. /\ d \in Consumer /\ d.phase = "idle" /\ d.blocked = FALSE /\ d.member = con[c].member
      /\ d.batch = {} /\ d.pos = con[c].pos
  BY <1>1 DEF Consumer
<1>3. Turns(c, d)
  BY <1>2, TurnsTo DEF Again, IInv, Types
<1> HIDE DEF d
<1>4. owner' = owner /\ target' = target
  BY DEF group
<1>5. committed' \in [Partitions -> Nat]
  BY <1>1 DEF Uncommitted, IInv, Types, Consumer
<1>6. Types' /\ Grouped' /\ Blocking'
  BY <1>2, <1>3, <1>4, <1>5 DEF IInv, Types, Grouped, Blocking, Turns
<1>7. Holds'
  BY <1>2, <1>3, <1>4 DEF IInv, Holds, Turns
<1>8. Delivered'
  <2>1. ASSUME NEW e \in Consumers, NEW r \in Good,
               owner[r[1]] = e, r[2] <= con[e].pos[r[1]]
        PROVE  r \in handled' \cup failed' \cup con'[e].batch
    <3>1. r \in handled \cup failed \cup con[e].batch
      BY <2>1 DEF IInv, Delivered
    <3>2. CASE e = c
      BY <3>1, <3>2 DEF Batch
    <3>3. CASE e # c
      BY <1>3, <3>1, <3>3 DEF Turns
    <3> QED
      BY <3>2, <3>3
  <2>2. ASSUME NEW r \in Good, r[2] <= committed'[r[1]]
        PROVE  r \in handled' \cup failed'
    <3>1. CASE r[2] <= committed[r[1]]
      BY <3>1 DEF IInv, Delivered
    <3>2. CASE ~ (r[2] <= committed[r[1]])
      <4>1. r[1] \in Partitions /\ committed' = Uncommitted(c)
        BY <2>2, <3>2, RecordType DEF Good
      <4>2. owner[r[1]] = c /\ r[2] <= con[c].pos[r[1]]
        BY <2>2, <3>2, <4>1 DEF Uncommitted
      <4>3. con'[c].batch = {}
        BY <1>2, <1>3 DEF Turns
      <4> QED
        BY <2>1, <4>2, <4>3
    <3> QED
      BY <3>1, <3>2
  <2>3. \A e \in Consumers : con'[e].phase = "taken" => Batch(e)' \subseteq handled'
    BY <1>2, <1>3 DEF Turns, Batch
  <2>4. \A e \in Consumers : con'[e].pos = con[e].pos
    BY <1>2, <1>3 DEF Turns
  <2> QED
    BY <1>4, <2>1, <2>2, <2>3, <2>4 DEF Delivered
<1> QED
  BY <1>6, <1>7, <1>8 DEF IInv

LEMMA TakesStep ==
  ASSUME IInv, NEW c \in Consumers, HandlerTakes(c)
  PROVE  IInv'
<1> DEFINE d == [con[c] EXCEPT !.phase = "taken"]
<1>1. con[c] \in Consumer
  BY DEF IInv, Types
<1>2. /\ d \in Consumer /\ d.phase = "taken" /\ d.blocked = con[c].blocked
      /\ d.member = con[c].member /\ d.batch = con[c].batch /\ d.pos = con[c].pos
  BY <1>1 DEF Consumer
<1>3. con' = [con EXCEPT ![c] = d]
  BY <1>1 DEF HandlerTakes, IInv, Types
<1>4. Turns(c, d)
  BY <1>2, <1>3, TurnsTo DEF IInv, Types
<1> HIDE DEF d
<1>5. /\ UNCHANGED <<committed, owner, target, failed>> /\ con[c].phase = "polled"
      /\ handled' = handled \cup Batch(c)
  BY DEF HandlerTakes, group
<1>6. Types' /\ Grouped' /\ Blocking'
  BY <1>2, <1>4, <1>5 DEF IInv, Types, Grouped, Blocking, Turns
<1>7. Holds'
  BY <1>2, <1>4, <1>5 DEF IInv, Holds, Turns
<1>8. Delivered'
  BY <1>2, <1>4, <1>5 DEF IInv, Delivered, Turns, Batch
<1> QED
  BY <1>6, <1>7, <1>8 DEF IInv

LEMMA RunStep ==
  ASSUME IInv, NEW c \in Consumers, Run(c)
  PROVE  IInv'
<1>1. \A e \in Consumers : con[e].phase = "taken" => Batch(e) \subseteq handled
  BY DEF IInv, Delivered
<1>2. CASE Skip(c)
  BY <1>1, <1>2, AgainStep DEF Skip, history
<1>3. CASE HandlerFails(c)
  BY <1>1, <1>3, AgainStep DEF HandlerFails
<1>4. CASE Commit(c)
  BY <1>1, <1>4, AgainStep DEF Commit, history
<1>5. CASE CommitFails(c)
  BY <1>1, <1>5, AgainStep DEF CommitFails, history
<1> QED
  BY <1>2, <1>3, <1>4, <1>5, PollStep, TakesStep DEF Run

LEMMA NextInv == IInv /\ [Next]_vars => IInv'
<1> SUFFICES ASSUME IInv, [Next]_vars PROVE IInv'
  OBVIOUS
<1>1. CASE UNCHANGED vars
  <2>1. UNCHANGED <<committed, owner, target, con, handled, failed>>
    BY <1>1 DEF vars, group, history
  <2> QED
    BY <2>1 DEF IInv, Types, Grouped, Blocking, Holds, Delivered, Batch
<1>2. ASSUME NEW c \in Consumers, PollEmpty(c)
      PROVE  IInv'
  BY <1>1, <1>2 DEF PollEmpty
<1> QED
  BY <1>1, <1>2, RunStep, JoinStep, LeaveStep, RebalanceStep DEF Next

\* The inductive invariant of the group: who owns what, who blocks a rebalance,
\* and what was delivered of what was read or committed.
THEOREM Invariance == Spec => []IInv
  BY InitInv, NextInv, PTL DEF Spec

\* Whatever crashes, shutdowns, rebalances and lost commits there are, a record
\* that is committed was handed to a handler (Run, CommitUncommittedOffsets).
THEOREM NothingSlipsThrough == Spec => []LostOnlyByFailure
<1>1. IInv => LostOnlyByFailure
  BY DEF IInv, Delivered, LostOnlyByFailure, Committed
<1> QED
  BY <1>1, Invariance, PTL

\* However partitions move, two members never have the same record at hand
\* (BlockRebalanceOnPoll, AllowRebalance).
THEOREM OneHandlerAtATime == Spec => []OneHandler
<1>1. IInv => OneHandler
  BY DEF IInv, Holds, OneHandler, Members
<1> QED
  BY <1>1, Invariance, PTL
-----------------------------------------------------------------------------
\* No client reads and no commit goes past the end of a partition, and what is
\* handed to a handler can be decoded.
InLog(offsets) == \A p \in Partitions : offsets[p] \in 0..Len(Log[p])

Ranges ==
  /\ InLog(committed)
  /\ \A c \in Consumers : InLog(con[c].pos)
  /\ handled \subseteq Good /\ failed \subseteq Good
  /\ faults \in 0..MaxFaults

\* A step of one consumer, which may commit or hand over its batch.
LEMMA RangesKept ==
  ASSUME Types, Ranges, NEW c \in Consumers, NEW d,
         con' = [con EXCEPT ![c] = d], InLog(d.pos), InLog(committed'),
         handled' \subseteq handled \cup Good, failed' \subseteq failed \cup Good,
         UNCHANGED faults \/ Fault
  PROVE  Ranges'
<1>1. faults' \in 0..MaxFaults
  BY KafkaAssumption DEF Ranges, Fault
<1>2. ASSUME NEW e \in Consumers PROVE InLog(con'[e].pos)
  <2>1. con'[e] = IF e = c THEN d ELSE con[e]
    BY DEF Types
  <2> QED
    BY <2>1 DEF Ranges
<1>3. \A e \in Consumers : InLog(con'[e].pos)
  BY <1>2
<1>4. handled' \subseteq Good /\ failed' \subseteq Good
  BY DEF Ranges
<1> QED
  BY <1>1, <1>3, <1>4 DEF Ranges, InLog

LEMMA DownInLog == InLog(Down.pos)
  BY KafkaAssumption DEF InLog, Down

LEMMA InitRanges == Init => Ranges
  BY KafkaAssumption DEF Init, Ranges, InLog, Down

\* One partition of what a client has read is set to what is committed or to 0.
LEMMA InLogSet ==
  ASSUME NEW pos \in [Partitions -> Nat], InLog(pos), NEW p \in Partitions,
         NEW n \in 0..Len(Log[p])
  PROVE  InLog([pos EXCEPT ![p] = n])
  BY DEF InLog

LEMMA GroupRanges ==
  ASSUME IInv, Ranges, NEW c \in Consumers, Join(c) \/ Stop(c) \/ Evict(c)
  PROVE  Ranges'
<1>1. Types /\ InLog(committed)
  BY DEF IInv, Ranges
<1>2. CASE Join(c)
  <2> DEFINE d == [Down EXCEPT !.phase = "idle", !.member = TRUE]
  <2>1. d.pos = Down.pos
    BY DEF Down
  <2>2. InLog(d.pos)
    BY <2>1, DownInLog
  <2>3. con' = [con EXCEPT ![c] = d] /\ UNCHANGED <<committed, handled, failed, faults>>
    BY <1>2 DEF Join, history
  <2> HIDE DEF d
  <2> QED
    BY <1>1, <2>2, <2>3, RangesKept
<1>3. CASE Stop(c)
  BY <1>1, <1>3, DownInLog, RangesKept DEF Stop, history
<1>4. CASE Evict(c)
  <2> DEFINE d == [con[c] EXCEPT !.member = FALSE, !.pos = Down.pos]
  <2>1. con[c] \in Consumer
    BY <1>1 DEF Types
  <2>2. d.pos = Down.pos
    BY <2>1 DEF Consumer
  <2>3. InLog(d.pos)
    BY <2>2, DownInLog
  <2>4. con' = [con EXCEPT ![c] = d] /\ UNCHANGED <<committed, handled, failed>> /\ Fault
    BY <1>1, <1>4 DEF Evict, history, Types
  <2> HIDE DEF d
  <2> QED
    BY <1>1, <2>3, <2>4, RangesKept
<1> QED
  BY <1>2, <1>3, <1>4

LEMMA RebalanceRanges ==
  ASSUME IInv, Ranges, NEW p \in Partitions, Revoke(p) \/ Assign(p)
  PROVE  Ranges'
<1>1. Types /\ InLog(committed)
  BY DEF IInv, Ranges
<1>2. PICK c \in Consumers, n \in 0..Len(Log[p]) :
        con' = [con EXCEPT ![c] = [@ EXCEPT !.pos[p] = n]]
  <2>1. CASE Revoke(p)
    <3>1. owner[p] \in Consumers /\ 0 \in 0..Len(Log[p])
      BY <1>1, <2>1, KafkaAssumption DEF Revoke, Types
    <3> QED
      BY <2>1, <3>1 DEF Revoke
  <2>2. CASE Assign(p)
    <3>1. target[p] \in Consumers /\ committed[p] \in 0..Len(Log[p])
      BY <1>1, <2>2 DEF Assign, Types, InLog
    <3> QED
      BY <2>2, <3>1 DEF Assign
  <2> QED
    BY <2>1, <2>2
<1> DEFINE d == [con[c] EXCEPT !.pos = [con[c].pos EXCEPT ![p] = n]]
<1>3. con[c] \in Consumer /\ InLog(con[c].pos)
  BY <1>1 DEF Types, Ranges
<1>4. d.pos = [con[c].pos EXCEPT ![p] = n] /\ con[c].pos \in [Partitions -> Nat]
  BY <1>3 DEF Consumer
<1>5. InLog(d.pos)
  BY <1>3, <1>4, InLogSet
<1>6. con' = [con EXCEPT ![c] = d]
  BY <1>1, <1>2 DEF Types, Consumer
<1>7. UNCHANGED <<committed, handled, failed, faults>>
  BY DEF Revoke, Assign, history
<1> HIDE DEF d
<1> QED
  BY <1>1, <1>5, <1>6, <1>7, RangesKept

LEMMA PollRanges ==
  ASSUME IInv, Ranges, NEW c \in Consumers, Poll(c)
  PROVE  Ranges'
<1>1. Types /\ InLog(committed) /\ con[c] \in Consumer /\ InLog(con[c].pos)
  BY DEF IInv, Types, Ranges
<1>2. PICK upto \in Polls(c) :
        con' = [con EXCEPT ![c] = [@ EXCEPT !.phase = "polled", !.blocked = TRUE,
                                            !.batch = Reads(c, upto), !.pos = upto]]
  BY DEF Poll
<1>3. InLog(upto)
  <2> SUFFICES ASSUME NEW p \in Partitions PROVE upto[p] \in 0..Len(Log[p])
    BY DEF InLog
  <2>1. con[c].pos[p] \in 0..Len(Log[p]) /\ Len(Log[p]) \in Nat
    BY <1>1, KafkaAssumption DEF InLog
  <2>2. IF owner[p] = c THEN upto[p] \in con[c].pos[p]..Len(Log[p])
        ELSE upto[p] = con[c].pos[p]
    BY DEF Polls
  <2> QED
    BY <2>1, <2>2
<1> DEFINE d == [con[c] EXCEPT !.phase = "polled", !.blocked = TRUE,
                               !.batch = Reads(c, upto), !.pos = upto]
<1>4. con' = [con EXCEPT ![c] = d] /\ d.pos = upto
  BY <1>1, <1>2 DEF Types, Consumer
<1>5. UNCHANGED <<committed, handled, failed, faults>>
  BY DEF Poll, history
<1> HIDE DEF d
<1> QED
  BY <1>1, <1>3, <1>4, <1>5, RangesKept

LEMMA LoopRanges ==
  ASSUME IInv, Ranges, NEW c \in Consumers,
         Skip(c) \/ HandlerTakes(c) \/ HandlerFails(c) \/ Commit(c) \/ CommitFails(c)
  PROVE  Ranges'
<1>1. Types /\ InLog(committed) /\ con[c] \in Consumer /\ InLog(con[c].pos)
  BY DEF IInv, Types, Ranges
<1>2. InLog(Uncommitted(c))
  BY <1>1 DEF InLog, Uncommitted
<1>3. PICK d : con' = [con EXCEPT ![c] = d] /\ d.pos = con[c].pos
  <2>1. CASE HandlerTakes(c)
    <3>1. [con[c] EXCEPT !.phase = "taken"].pos = con[c].pos
      BY <1>1 DEF Consumer
    <3>2. con' = [con EXCEPT ![c] = [con[c] EXCEPT !.phase = "taken"]]
      BY <1>1, <2>1 DEF HandlerTakes, Types
    <3> QED
      BY <3>1, <3>2
  <2>2. CASE con' = Again(c)
    <3>1. [con[c] EXCEPT !.phase = "idle", !.blocked = FALSE, !.batch = {}].pos = con[c].pos
      BY <1>1 DEF Consumer
    <3>2. con' = [con EXCEPT ![c] = [con[c] EXCEPT !.phase = "idle", !.blocked = FALSE,
                                                   !.batch = {}]]
      BY <1>1, <2>2 DEF Again, Types
    <3> QED
      BY <3>1, <3>2
  <2> QED
    BY <2>1, <2>2 DEF Skip, HandlerFails, Commit, CommitFails
<1>4. InLog(committed')
  BY <1>1, <1>2 DEF Skip, HandlerTakes, HandlerFails, Commit, CommitFails
<1>5. handled' \subseteq handled \cup Good /\ failed' \subseteq failed \cup Good
  BY DEF Skip, HandlerTakes, HandlerFails, Commit, CommitFails, Batch, history
<1>6. UNCHANGED faults \/ Fault
  BY DEF Skip, HandlerTakes, HandlerFails, Commit, CommitFails
<1>7. InLog(d.pos)
  BY <1>1, <1>3
<1> QED
  BY <1>1, <1>3, <1>4, <1>5, <1>6, <1>7, RangesKept

LEMMA NextRanges == IInv /\ Ranges /\ [Next]_vars => Ranges'
<1> SUFFICES ASSUME IInv, Ranges, [Next]_vars PROVE Ranges'
  OBVIOUS
<1>1. CASE UNCHANGED vars
  BY <1>1 DEF vars, group, history, Ranges, InLog
<1>2. ASSUME NEW c \in Consumers, PollEmpty(c)
      PROVE  Ranges'
  BY <1>1, <1>2 DEF PollEmpty
<1> QED
  BY <1>1, <1>2, GroupRanges, RebalanceRanges, PollRanges, LoopRanges DEF Next, Run

\* The types of the group's state: no offset, read or committed, is past the end
\* of its partition, and only decodable records come to a handler.
THEOREM GroupTypeCorrect == Spec => []TypeOK
<1>1. Init => IInv /\ Ranges
  BY InitInv, InitRanges
<1>2. IInv /\ Ranges /\ [Next]_vars => (IInv /\ Ranges)'
  BY NextInv, NextRanges
<1>3. IInv /\ Ranges => TypeOK
  <2> SUFFICES ASSUME IInv, Ranges PROVE TypeOK
    OBVIOUS
  <2>1. ASSUME NEW c \in Consumers
        PROVE  /\ con[c].phase \in {"down", "idle", "polled", "taken"}
               /\ con[c].member \in BOOLEAN /\ con[c].blocked \in BOOLEAN
               /\ con[c].batch \subseteq Records
               /\ \A p \in Partitions : con[c].pos[p] \in 0..Len(Log[p])
    <3>1. con[c] \in Consumer
      BY DEF IInv, Types
    <3> QED
      BY <3>1 DEF Ranges, InLog, Consumer
  <2> QED
    BY <2>1 DEF IInv, Types, Ranges, InLog, TypeOK
<1> QED
  BY <1>1, <1>2, <1>3, PTL DEF Spec
=============================================================================
