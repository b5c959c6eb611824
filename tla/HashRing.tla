------------------------------ MODULE HashRing ------------------------------
(***************************************************************************)
(* Who owns a partition: HashRing of cluster/ring.py, and what becomes of  *)
(* the owners when the cluster is started anew with another number of      *)
(* brokers.                                                                *)
(*                                                                         *)
(* The digests are any numbers at all, collisions included; they depend on *)
(* the names only, so they are chosen once and stay.                       *)
(***************************************************************************)
EXTENDS Naturals, FiniteSets

CONSTANTS
    Partitions,   \* the topic:partition names
    VNodes,       \* range(vnodes)
    Digests,      \* values of digest
    MaxBrokers    \* bound: size of the cluster

ASSUME VNodesAssumption  == IsFiniteSet(VNodes) /\ VNodes # {} /\ VNodes \subseteq Nat
ASSUME DigestsAssumption == Digests \subseteq Nat
ASSUME BrokersAssumption == MaxBrokers \in Nat \ {0}

VARIABLES
    point,     \* <<broker, vnode>> -> digest("broker-<broker>#<vnode>")
    place,     \* partition -> digest("<topic>:<partition>")
    brokers    \* Ring.brokers

vars == <<point, place, brokers>>

Names == (0 .. MaxBrokers - 1) \X VNodes

\* The circle of a cluster of n.
Points(n) == {<<point[<<b, v>>], b, v>> : b \in 0 .. n - 1, v \in VNodes}

\* The order of sorted(): by digest, then by broker; two points of one broker
\* with one digest are alike to the code.
Less(p, q) ==
    \/ p[1] < q[1]
    \/ p[1] = q[1] /\ p[2] < q[2]
    \/ p[1] = q[1] /\ p[2] = q[2] /\ p[3] < q[3]

\* The index of a point in _points.
Rank(P, p) == Cardinality({q \in P : Less(q, p)})

\* bisect_right(_keys, d).  (Variant: bisect_left.)
Bisect_Left(P, d) == Cardinality({q \in P : q[1] < d})
Bisect(P, d) == Cardinality({q \in P : q[1] <= d})

\* _points[index % len(_points)], for a partition whose digest is d.
\* (Variant: modulo the brokers.)
At_ModBrokers(P, d) == CHOOSE p \in P : Rank(P, p) = Bisect(P, d) % Cardinality({q[2] : q \in P})
At(P, d) == CHOOSE p \in P : Rank(P, p) = Bisect(P, d) % Cardinality(P)

\* (Variant: the key of the point, not its broker.)
broker_for_Key(n, d) == At(Points(n), d)[1]
broker_for(n, d) == At(Points(n), d)[2]

Init ==
    /\ point \in [Names -> Digests]
    /\ place \in [Partitions -> Digests]
    /\ brokers \in 1 .. MaxBrokers

\* The StatefulSet is scaled by one, with all brokers down.
Grow ==
    /\ brokers < MaxBrokers
    /\ brokers' = brokers + 1
    /\ UNCHANGED <<point, place>>

Shrink ==
    /\ brokers > 1
    /\ brokers' = brokers - 1
    /\ UNCHANGED <<point, place>>

Next == Grow \/ Shrink

Spec == Init /\ [][Next]_vars

-----------------------------------------------------------------------------
(* Properties.                                                             *)

\* p is where one arrives on the circle P first, going clockwise from d: at the
\* next digest beyond d or, past the top, at the least one; of the brokers that
\* share it, at the lowest.
Clockwise(P, d, p) ==
    LET beyond == {q \in P : q[1] > d}
        from   == IF beyond = {} THEN P ELSE beyond
    IN  p \in from /\ \A q \in from : p[1] < q[1] \/ (p[1] = q[1] /\ p[2] <= q[2])

\* Sorting, bisecting and wrapping around finds it ("a partition hashes to a
\* point and belongs to the first broker position clockwise").
FirstClockwise ==
    \A t \in Partitions : Clockwise(Points(brokers), place[t], At(Points(brokers), place[t]))

\* When the cluster grows a partition stays or goes to the new broker, and when
\* it shrinks only those of the broker that left move ("every other partition
\* keeps its owner").
MovesLittle ==
    [][\A t \in Partitions :
        LET was == broker_for(brokers, place[t])
            now == broker_for(brokers', place[t])
        IN  was = now \/ IF brokers' > brokers THEN now = brokers ELSE was = brokers']_vars
=============================================================================
