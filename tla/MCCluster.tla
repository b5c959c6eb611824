----------------------------- MODULE MCCluster -----------------------------
(* Instances of Cluster for TLC.                                           *)
EXTENDS Cluster, TLC

CONSTANTS c1, g1, k1, k2

\* Of two brokers, 1 owns partition 0 and 0 owns partition 1, which broker 2
\* takes over when it joins them.
MCPoint == <<0, 0>> :> 3 @@ <<1, 0>> :> 1 @@ <<2, 0>> :> 2
MCPlace == [p \in Parts |-> IF p = 0 THEN 0 ELSE 1]

MCHash == k1 :> 1 @@ k2 :> 2
\* Metadata comes from broker 2 where there is one that answers, else from 0.
MCBootstrap == [c \in Clients |-> <<2, 0>>]
\* A record, then a batch for both partitions, with two records of one key.
MCSends == c1 :> <<k1, k1, k2, k1>>
MCUpto  == c1 :> <<0, 4, 0, 0>>
MCWatch == g1 :> 1

Scene(who, faults, resizes, careful) ==
    [who |-> who, faults |-> faults, resizes |-> resizes, careful |-> careful]
MCScenes == {
    Scene({c1}, 2, 1, TRUE),
    Scene({c1}, 0, 2, TRUE),
    Scene({c1, g1}, 0, 1, TRUE),
    Scene({c1, g1}, 1, 0, TRUE),
    Scene({c1}, 0, 2, FALSE)}
MCResize == {Scene({c1}, 0, 1, TRUE)}
=============================================================================
