------------------------------- MODULE MCLog -------------------------------
(* Instances of Log for TLC.                                               *)
EXTENDS Log, TLC

CONSTANTS t1, t2, r1, v1, v2

MCThreads   == {t1, t2}
MCReaders   == {r1}
MCValues    == {v1, v2}
MCSize      == v1 :> 1 @@ v2 :> 2
Symmetric   == Permutations(MCThreads)
=============================================================================
