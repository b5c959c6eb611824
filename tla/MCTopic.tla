------------------------------ MODULE MCTopic -------------------------------
(* Instances of Topic for TLC.                                             *)
EXTENDS Topic, TLC

CONSTANTS orders, t1, t2, k1

\* A key whose crc32 is 3: partition 1 of two, 0 of three.
MCHash == [k \in Keys |-> 3]

\* Partition 2 belongs to another broker.
MCOwned == Topics \X {0, 1}

MCSymmetric == Permutations({t1, t2})
=============================================================================
