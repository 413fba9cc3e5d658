--------------------------- MODULE KafkaConsumer ---------------------------
(***************************************************************************)
(* kafka.Consumer.Run (consumer.go): the poll loops of the replicas that   *)
(* consume one topic as a group.  The client library, franz-go, is outside *)
(* the repository; it is modelled as Run configures and calls it: commits  *)
(* by hand, partitions that move one by one, no partition taken away       *)
(* between a poll that returned records and AllowRebalance.  What a handler*)
(* does with a batch is Ingest's business; here it takes it or fails.      *)
(***************************************************************************)
EXTENDS Naturals, Sequences, FiniteSets

CONSTANTS
  Consumers, Partitions,
  None,        \* no consumer
  Log,         \* the records of each partition: decodable ("good") or not
  MaxBatch,    \* records a poll may return
  MaxFaults    \* bound: failed calls, crashes, shutdowns, evictions

ASSUME KafkaAssumption ==
  /\ None \notin Consumers
  /\ Log \in [Partitions -> Seq({"good", "poison"})]
  /\ MaxBatch \in Nat \ {0} /\ MaxFaults \in Nat

VARIABLES
  committed,   \* broker: the offset committed for each partition
  owner,       \* the consumer each partition is assigned to
  target,      \* group coordinator: the one it shall be assigned to
  con,         \* the consumers
  handled,     \* history: records of batches a handler took
  failed,      \* history: records of batches a handler failed on
  faults       \* history: failed calls, crashes, shutdowns, evictions

group == <<owner, target>>
history == <<handled, failed>>
vars == <<committed, group, con, history, faults>>

Records == UNION {{<<p, o>> : o \in DOMAIN Log[p]} : p \in Partitions}
Good == {r \in Records : Log[r[1]][r[2]] = "good"}

Members == {c \in Consumers : con[c].member}

\* pos: how far the client has read each partition, which is also what
\* CommitUncommittedOffsets commits.
Down == [phase |-> "down", member |-> FALSE, blocked |-> FALSE, batch |-> {},
         pos |-> [p \in Partitions |-> 0]]

Init ==
  /\ committed = [p \in Partitions |-> 0]
  /\ owner = [p \in Partitions |-> None] /\ target = owner
  /\ con = [c \in Consumers |-> Down]
  /\ handled = {} /\ failed = {}
  /\ faults = 0

Fault == faults < MaxFaults /\ faults' = faults + 1

-----------------------------------------------------------------------------
\* The group.  A change of members gives every partition a new target; a
\* partition moves when neither its old nor its new owner blocks rebalances.

Retarget(members) ==
  target' \in IF members = {} THEN {[p \in Partitions |-> None]}
              ELSE [Partitions -> members]

Join(c) ==
  /\ con[c].phase \in {"down", "idle"} /\ ~ con[c].member
  /\ con' = [con EXCEPT ![c] = [Down EXCEPT !.phase = "idle", !.member = TRUE]]
  /\ Retarget(Members \cup {c})
  /\ UNCHANGED <<committed, owner, history, faults>>

Revoke(p) ==
  /\ owner[p] # None /\ target[p] # owner[p] /\ ~ con[owner[p]].blocked
  /\ owner' = [owner EXCEPT ![p] = None]
  /\ con' = [con EXCEPT ![owner[p]] = [@ EXCEPT !.pos[p] = 0]]
  /\ UNCHANGED <<committed, target, history, faults>>

\* A partition is read from the offset that was committed.
Assign(p) ==
  /\ owner[p] = None /\ target[p] # None /\ ~ con[target[p]].blocked
  /\ owner' = [owner EXCEPT ![p] = target[p]]
  /\ con' = [con EXCEPT ![target[p]] = [@ EXCEPT !.pos[p] = committed[p]]]
  /\ UNCHANGED <<committed, target, history, faults>>

Gone(c) ==
  /\ owner' = [p \in Partitions |-> IF owner[p] = c THEN None ELSE owner[p]]
  /\ Retarget(Members \ {c})

\* The process ends, at any point of the loop; Run's deferred Close leaves the
\* group and commits nothing.
Stop(c) ==
  /\ con[c].phase # "down" /\ Fault
  /\ con' = [con EXCEPT ![c] = Down]
  /\ IF con[c].member THEN Gone(c) ELSE UNCHANGED group
  /\ UNCHANGED <<committed, history>>

\* The group gives up on a consumer that goes on with its batch.
Evict(c) ==
  /\ con[c].member /\ Fault
  /\ con' = [con EXCEPT ![c] = [@ EXCEPT !.member = FALSE, !.pos = Down.pos]]
  /\ Gone(c)
  /\ UNCHANGED <<committed, history>>

-----------------------------------------------------------------------------
\* The loop of Run.

\* What a poll of c may read, up to which offset of each partition.
Reads(c, upto) ==
  {r \in Records : r[2] > con[c].pos[r[1]] /\ r[2] <= upto[r[1]]}

Polls(c) ==
  {upto \in [Partitions -> 0..Cardinality(Records)] :
     /\ \A p \in Partitions :
          IF owner[p] = c THEN upto[p] \in con[c].pos[p]..Len(Log[p])
          ELSE upto[p] = con[c].pos[p]
     /\ Cardinality(Reads(c, upto)) \in 1..MaxBatch}

\* Mutants of Poll: rebalances are not blocked; offsets are committed as they
\* are read.
PollUnblocked(c) ==
  /\ con[c].phase = "idle"
  /\ \E upto \in Polls(c) :
       con' = [con EXCEPT ![c] = [@ EXCEPT !.phase = "polled",
                                           !.batch = Reads(c, upto), !.pos = upto]]
  /\ UNCHANGED <<committed, group, history, faults>>
PollCommits(c) ==
  /\ con[c].phase = "idle"
  /\ \E upto \in Polls(c) :
       /\ con' = [con EXCEPT ![c] = [@ EXCEPT !.phase = "polled", !.blocked = TRUE,
                                              !.batch = Reads(c, upto), !.pos = upto]]
       /\ committed' = [p \in Partitions |-> IF owner[p] = c THEN upto[p] ELSE committed[p]]
  /\ UNCHANGED <<group, history, faults>>

Poll(c) ==
  /\ con[c].phase = "idle"
  /\ \E upto \in Polls(c) :
       con' = [con EXCEPT ![c] = [@ EXCEPT !.phase = "polled", !.blocked = TRUE,
                                           !.batch = Reads(c, upto), !.pos = upto]]
  /\ UNCHANGED <<committed, group, history, faults>>

\* Nothing to read before the timeout.
PollEmpty(c) ==
  /\ con[c].phase = "idle" /\ Polls(c) = {}
  /\ UNCHANGED vars

Batch(c) == con[c].batch \cap Good

\* Back to the top of the loop; AllowRebalance was called.
Again(c) ==
  [con EXCEPT ![c] = [@ EXCEPT !.phase = "idle", !.blocked = FALSE, !.batch = {}]]

\* Mutants of Skip: rebalances stay blocked; the loop ends with an error.
SkipKeepsBlock(c) ==
  /\ con[c].phase = "polled" /\ Batch(c) = {}
  /\ con' = [con EXCEPT ![c] = [@ EXCEPT !.phase = "idle", !.batch = {}]]
  /\ UNCHANGED <<committed, group, history, faults>>
SkipDies(c) ==
  /\ con[c].phase = "polled" /\ Batch(c) = {}
  /\ con' = [con EXCEPT ![c] = Down]
  /\ IF con[c].member THEN Gone(c) ELSE UNCHANGED group
  /\ UNCHANGED <<committed, history, faults>>

\* Nothing in the batch can be decoded.
Skip(c) ==
  /\ con[c].phase = "polled" /\ Batch(c) = {}
  /\ con' = Again(c)
  /\ UNCHANGED <<committed, group, history, faults>>

HandlerTakes(c) ==
  /\ con[c].phase = "polled" /\ Batch(c) # {}
  /\ con' = [con EXCEPT ![c].phase = "taken"]
  /\ handled' = handled \cup Batch(c)
  /\ UNCHANGED <<committed, group, failed, faults>>

HandlerFails(c) ==
  /\ con[c].phase = "polled" /\ Batch(c) # {}
  /\ con' = Again(c)
  /\ failed' = failed \cup Batch(c)
  /\ Fault
  /\ UNCHANGED <<committed, group, handled>>

\* Everything the client has read, of the partitions it still owns.
Uncommitted(c) ==
  [p \in Partitions |-> IF owner[p] = c THEN con[c].pos[p] ELSE committed[p]]

\* Mutant: the offset after the next record is committed.
CommitOneMore(c) ==
  /\ con[c].phase = "taken"
  /\ committed' = [p \in Partitions |-> IF owner[p] = c THEN con[c].pos[p] + 1 ELSE committed[p]]
  /\ con' = Again(c)
  /\ UNCHANGED <<group, history, faults>>

Commit(c) ==
  /\ con[c].phase = "taken"
  /\ committed' = Uncommitted(c)
  /\ con' = Again(c)
  /\ UNCHANGED <<group, history, faults>>

\* A commit that fails is logged; it may have reached the broker.
CommitFails(c) ==
  /\ con[c].phase = "taken" /\ Fault
  /\ committed' \in {committed, Uncommitted(c)}
  /\ con' = Again(c)
  /\ UNCHANGED <<group, history>>

Run(c) ==
  \/ Poll(c) \/ Skip(c)
  \/ HandlerTakes(c) \/ HandlerFails(c)
  \/ Commit(c) \/ CommitFails(c)

Next ==
  \/ \E c \in Consumers : Run(c) \/ PollEmpty(c) \/ Join(c) \/ Stop(c) \/ Evict(c)
  \/ \E p \in Partitions : Revoke(p) \/ Assign(p)

Spec == Init /\ [][Next]_vars

\* The loops run, stopped replicas are started again, and the coordinator
\* carries out the assignment it has decided on.
FairSpec ==
  /\ Spec
  /\ \A c \in Consumers : WF_vars(Run(c)) /\ WF_vars(Join(c))
  /\ \A p \in Partitions : WF_vars(Revoke(p)) /\ WF_vars(Assign(p))

-----------------------------------------------------------------------------
TypeOK ==
  /\ \A p \in Partitions : committed[p] \in 0..Len(Log[p])
  /\ owner \in [Partitions -> Consumers \cup {None}]
  /\ target \in [Partitions -> Consumers \cup {None}]
  /\ \A c \in Consumers :
       /\ con[c].phase \in {"down", "idle", "polled", "taken"}
       /\ con[c].member \in BOOLEAN /\ con[c].blocked \in BOOLEAN
       /\ con[c].batch \subseteq Records
       /\ \A p \in Partitions : con[c].pos[p] \in 0..Len(Log[p])
  /\ handled \subseteq Good /\ failed \subseteq Good
  /\ faults \in 0..MaxFaults

Committed == {r \in Good : r[2] <= committed[r[1]]}

\* docs/adr/0003, "offsets are committed only after Engine.Ingest returns
\* without a persistence error": no record is committed that no handler took.
CommittedMeansHandled == Committed \subseteq handled

\* No crash, shutdown, rebalance or lost commit makes a record slip through:
\* one that is committed was taken, or handed to a handler that failed on it.
LostOnlyByFailure == Committed \subseteq handled \cup failed

\* Two members of the group never have the same record at hand, so that no
\* asset is evaluated by two engines; a partition moves only between batches.
OneHandler ==
  \A c, d \in Members : c # d => con[c].batch \cap con[d].batch = {}

\* A rebalance is not held up for good, whatever the loop meets.
RebalancesEnd == owner # target ~> owner = target

\* docs/adr/0003, "a poison pill cannot wedge a partition": every record that
\* can be decoded comes to a handler some day.
EveryRecordDelivered == \A r \in Good : <>(r \in handled \cup failed)
=============================================================================
