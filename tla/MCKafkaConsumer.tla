-------------------------- MODULE MCKafkaConsumer --------------------------
(***************************************************************************)
(* Two replicas, two partitions.                                           *)
(***************************************************************************)
EXTENDS KafkaConsumer, TLC

CONSTANTS k1, k2, p1, p2

\* Two records of one partition, so that one can fail and the next succeed; in
\* the other an undecodable record that nothing follows.
MCLog == p1 :> <<"good", "good">> @@ p2 :> <<"good", "poison">>
=============================================================================
