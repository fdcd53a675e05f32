--------------------------- MODULE MCKafkaConsumer ---------------------------
(* A partition of two records, and one of a single record that cannot be     *)
(* decoded.  Two consumers: one that commits and gives a record two          *)
(* attempts, and one that leaves commits to its handler and never gives up.  *)
EXTENDS KafkaConsumer, TLC

CONSTANTS p1, p2

MCPartitions == {p1, p2}
MCEndOffset == p1 :> 2 @@ p2 :> 1
MCUndecodable == {<<p2, 0>>}

Auto(attempts_, policy) ==
    [autoCommit |-> TRUE, maxAttempts |-> attempts_, decodeHandler |-> TRUE,
     failedHandler |-> TRUE, retryPolicy |-> policy, userCommits |-> FALSE]
Manual ==
    [autoCommit |-> FALSE, maxAttempts |-> 0, decodeHandler |-> TRUE,
     failedHandler |-> TRUE, retryPolicy |-> TRUE, userCommits |-> TRUE]

MCConfigs == {Auto(2, FALSE), Manual}
MCOneAttempt == {Auto(1, TRUE)}
=============================================================================
