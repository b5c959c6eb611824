---------------------------- MODULE SegmentFile ----------------------------
(***************************************************************************)
(* What one segment of pyka is made of, below its state machine: the       *)
(* records of a .log file (storage/segment.py) and the sparse index beside *)
(* it (storage/index.py).                                                  *)
(*                                                                         *)
(* A record on disk is [off, val, pos]: its offset, its payload and the    *)
(* byte where it starts.  The payload stands for the whole frame of        *)
(* storage/record.py; all that is kept of it is its length Size[val], and  *)
(* that a frame cut short is recognised as such (Record.read_one returns   *)
(* None), which the modules below keep as a "torn" flag of the file.       *)
(***************************************************************************)
EXTENDS Integers, Sequences, FiniteSets

CONSTANTS
    Values,           \* payloads (a key and a value, as one thing)
    Size,             \* length in bytes of the encoded record of a payload
    MaxSegmentBytes,  \* Segment's max_bytes: a soft limit on the file
    IndexInterval     \* Index's interval_bytes

ASSUME SizeAssumption     == Size \in [Values -> Nat \ {0}]
ASSUME LimitsAssumption   == /\ MaxSegmentBytes \in Nat \ {0}
                             /\ IndexInterval \in Nat

\* bisect.bisect_right on a sorted sequence of numbers s: how many are <= x.
BisectRight(s, x) == Cardinality({i \in DOMAIN s : s[i] <= x})

-----------------------------------------------------------------------------
(* The file.                                                               *)

\* First byte after a record: what f.tell() says once it has been read.
RecordEnd(rec) == rec.pos + Size[rec.val]

\* End of the whole records of a file.
FileEnd(recs) == IF recs = <<>> THEN 0 ELSE RecordEnd(recs[Len(recs)])

\* The record as it lands when written at the end of recs.
LandAt(recs, off, val) == [off |-> off, val |-> val, pos |-> FileEnd(recs)]

\* Segment.has_room_for: an empty segment takes anything.
HasRoomFor(bytes, val) ==
    \/ bytes = 0
    \/ bytes + Size[val] <= MaxSegmentBytes

-----------------------------------------------------------------------------
(* The index: a sequence of entries, sparse and increasing.                *)

LastIndexed(entries) ==
    IF entries = <<>> THEN 0 ELSE entries[Len(entries)].pos

\* Index.maybe_append: an entry every IndexInterval bytes.  Its u32 checks
\* cannot fail for a segment that respects the limit Segment enforces.
MaybeAppend(entries, off, pos) ==
    IF pos - LastIndexed(entries) < IndexInterval
    THEN entries
    ELSE Append(entries, [off |-> off, pos |-> pos])

\* (variant of Lookup: bisect's result used as it is, one entry too far on)
Lookup_After(entries, base, off) ==
    LET n == Cardinality({i \in DOMAIN entries : entries[i].off <= off})
    IN  IF n >= Len(entries) THEN [off |-> base, pos |-> 0] ELSE entries[n + 1]

\* Index.lookup: the last entry at or before off, or the segment's start.
\* (bisect_right over the entries' offsets, which increase)
Lookup(entries, base, off) ==
    LET n == Cardinality({i \in DOMAIN entries : entries[i].off <= off})
    IN  IF n = 0 THEN [off |-> base, pos |-> 0] ELSE entries[n]

\* The seek of Segment._iter_from: the hint is used only if the record found
\* there carries the offset it promised; otherwise the scan starts at byte 0.
StartScan(recs, hint) ==
    LET Hit(i) == recs[i].pos = hint.pos /\ recs[i].off = hint.off
    IN  IF \E i \in DOMAIN recs : Hit(i) THEN CHOOSE i \in DOMAIN recs : Hit(i) ELSE 1
=============================================================================
