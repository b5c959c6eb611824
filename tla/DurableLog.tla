----------------------------- MODULE DurableLog -----------------------------
(***************************************************************************)
(* What a partition promises to those who use it, with no files, segments, *)
(* locks or recovery: one growing run of records numbered from 0.  An      *)
(* append is acknowledged after its record is written; a sync vouches for  *)
(* everything acknowledged; losing power takes only records from the end   *)
(* that nothing vouched for.  A process crash takes nothing at all.        *)
(***************************************************************************)
EXTENDS Naturals

CONSTANTS Values, MaxOffset

VARIABLES
    written,   \* records that are in the log, as [off, val]
    acked,     \* those whose append has returned
    promised   \* those a sync or a close has vouched for

vars == <<written, acked, promised>>

OffsetsOf(S) == {x.off : x \in S}

Init == written = {} /\ acked = {} /\ promised = {}

\* The next record is written at the offset after the last one.
Write ==
    \E n \in 0 .. MaxOffset - 1, v \in Values :
        /\ OffsetsOf(written) = 0 .. n - 1
        /\ written' = written \cup {[off |-> n, val |-> v]}
        /\ UNCHANGED <<acked, promised>>

\* The newest record is acknowledged.
Ack ==
    \E x \in written \ acked :
        /\ \A y \in written : y.off <= x.off
        /\ acked' = acked \cup {x}
        /\ UNCHANGED <<written, promised>>

\* Everything acknowledged is vouched for.
Promise ==
    /\ promised' = acked
    /\ UNCHANGED <<written, acked>>

\* The end of the log is lost, down to some length n; nothing vouched for is.
Lose ==
    \E n \in 0 .. MaxOffset :
        /\ written' = {x \in written : x.off < n}
        /\ promised \subseteq written'
        /\ acked' = acked \cap written'
        /\ UNCHANGED promised

Next == Write \/ Ack \/ Promise \/ Lose

Spec == Init /\ [][Next]_vars
=============================================================================
