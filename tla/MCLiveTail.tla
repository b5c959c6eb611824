----------------------------- MODULE MCLiveTail -----------------------------
(* Instances of LiveTail for TLC.                                          *)
EXTENDS LiveTail, TLC

CONSTANTS pa, pb, q1, q2, c1

\* A follower, one that starts ahead of the log, a bounded and an unbounded
\* read, and a follower of a partition that is not here.
MCRequests ==
    {[part |-> pa, from |-> 0, follow |-> TRUE, max |-> 1],
     [part |-> pa, from |-> 1, follow |-> TRUE, max |-> 0],
     [part |-> pa, from |-> 0, follow |-> FALSE, max |-> 3],
     [part |-> pa, from |-> 0, follow |-> FALSE, max |-> 0],
     [part |-> Elsewhere, from |-> 0, follow |-> TRUE, max |-> 0]}

MCFollow == {[part |-> pa, from |-> 0, follow |-> TRUE, max |-> 0]}
=============================================================================
