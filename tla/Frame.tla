------------------------------- MODULE Frame -------------------------------
(***************************************************************************)
(* The record frame of pyka (storage/record.py) in a file that a crash may *)
(* cut short anywhere and that may rot, and the scan by which a segment    *)
(* is opened (Segment._recover): below the whole records of SegmentFile.   *)
(*                                                                         *)
(* A file is a sequence of words, one for each field of the header and one *)
(* for each unit of the key and the value.  Lengths and positions count    *)
(* words; a position is the number of words before it, as f.tell() is.     *)
(***************************************************************************)
EXTENDS Integers, Sequences, FiniteSets

CONSTANTS
    Keys, None,   \* keys and values, sequences of words, and their absence
    Timestamps,
    MAX_SIZE,
    SignBit,      \* 2^31: a signed field with this bit set is negative
    Crc(_),       \* zlib.crc32
    Garbage,      \* what a damaged word may become
    MaxRecords,   \* bound: records in the file
    MaxDamage     \* bound: damaged words in the file

PREFIX_SIZE == 2   \* offset, size
HEADER_SIZE == 6   \* and crc, timestamp, klen, vlen
NULL == -1

ASSUME KeysAssumption  == Keys \subseteq Seq(Nat) \cup {None} /\ None \notin Seq(Nat)
ASSUME SizesAssumption == MAX_SIZE \in Nat /\ SignBit \in Nat /\ MAX_SIZE < SignBit
ASSUME WordsAssumption == Timestamps \subseteq Nat /\ Garbage \subseteq Nat
ASSUME FrameBounds     == MaxRecords \in Nat /\ MaxDamage \in Nat

Records == [offset : Nat, timestamp : Timestamps, key : Keys, value : Keys]

VARIABLES
    file,      \* the words of the .log file
    phase,     \* "open", "closed", "scanning", or "refused" to open
    at,        \* _position: where the next record starts
    found,     \* the records up to there; there are _next_offset of them
    written,   \* history: the records that were appended, and not dropped since,
    ends,      \*          and where each of them ended
    damaged    \* history: positions of the words in the file that were damaged

vars == <<file, phase, at, found, written, ends, damaged>>

-----------------------------------------------------------------------------
(* Record.encode and Record.read_one, which ends in Record.decode.         *)

\* A signed field and its word.
Unsigned(n) == IF n < 0 THEN n + 2 * SignBit ELSE n
Signed(w)   == IF w < SignBit THEN w ELSE w - 2 * SignBit

Bytes(field)  == IF field = None THEN <<>> ELSE field
Length(field) == IF field = None THEN NULL ELSE Len(field)
Present(len)  == IF len < 0 THEN 0 ELSE len

SizeOf(r) == 4 + Len(Bytes(r.key)) + Len(Bytes(r.value))
BodyOf(r) ==
    <<r.timestamp, Unsigned(Length(r.key)), Unsigned(Length(r.value))>>
        \o Bytes(r.key) \o Bytes(r.value)
Encode(r) == <<r.offset, SizeOf(r), Crc(BodyOf(r))>> \o BodyOf(r)

SizeAt(f, pos)  == f[pos + 2]
KlenAt(f, pos)  == Signed(f[pos + 5])
VlenAt(f, pos)  == Signed(f[pos + 6])
KeyEnd(f, pos)  == pos + HEADER_SIZE + Present(KlenAt(f, pos))
FrameEnd(f, pos) == pos + PREFIX_SIZE + SizeAt(f, pos)

\* The frame is one that encode makes: lengths and checksum agree.
Sound(f, pos) ==
    /\ KlenAt(f, pos) >= NULL /\ VlenAt(f, pos) >= NULL
    /\ 4 + Present(KlenAt(f, pos)) + Present(VlenAt(f, pos)) = SizeAt(f, pos)
    /\ Crc(SubSeq(f, pos + 4, FrameEnd(f, pos))) = f[pos + 3]

\* None: the file ends before the frame does.  (Variant: or with it.)
Torn_Early(f, pos) ==
    Len(f) >= pos + PREFIX_SIZE => SizeAt(f, pos) <= MAX_SIZE /\ Len(f) <= FrameEnd(f, pos)
Torn(f, pos) ==
    Len(f) >= pos + PREFIX_SIZE => SizeAt(f, pos) <= MAX_SIZE /\ Len(f) < FrameEnd(f, pos)

\* A record comes out, or an error: CorruptRecord, or struct.error where the
\* size does not even cover the fixed fields.
Decodes(f, pos) ==
    /\ ~ Torn(f, pos)
    /\ SizeAt(f, pos) \in 4 .. MAX_SIZE
    /\ Sound(f, pos)

\* Absent or empty, the declared length says.  (Variant: the bytes say.)
Field_Bytes(len, bytes) == IF bytes = <<>> THEN None ELSE bytes
Field(len, bytes) == IF len = NULL THEN None ELSE bytes

Decoded(f, pos) ==
    [offset    |-> f[pos + 1],
     timestamp |-> f[pos + 4],
     key       |-> Field(KlenAt(f, pos), SubSeq(f, pos + HEADER_SIZE + 1, KeyEnd(f, pos))),
     value     |-> Field(VlenAt(f, pos), SubSeq(f, KeyEnd(f, pos) + 1, FrameEnd(f, pos)))]

-----------------------------------------------------------------------------
Init ==
    /\ file = <<>> /\ phase = "closed" /\ at = 0 /\ found = <<>>
    /\ written = <<>> /\ ends = <<>> /\ damaged = {}

\* Segment.append; encode refuses a record over the limit.
AppendRecord ==
    /\ phase = "open" /\ Len(written) < MaxRecords
    /\ \E time \in Timestamps, key, value \in Keys :
        LET r == [offset |-> Len(found), timestamp |-> time, key |-> key, value |-> value] IN
        /\ SizeOf(r) <= MAX_SIZE
        /\ file' = file \o Encode(r) /\ at' = Len(file')
        /\ found' = Append(found, r) /\ written' = Append(written, r)
        /\ ends' = Append(ends, at')
    /\ UNCHANGED <<phase, damaged>>

\* The process dies, or the machine loses the end of the file.
Crash ==
    /\ phase \in {"open", "scanning"}
    /\ phase' = "closed"
    /\ \E n \in 0 .. Len(file) :
        file' = SubSeq(file, 1, n) /\ damaged' = damaged \cap 1 .. n
    /\ UNCHANGED <<at, found, written, ends>>

\* A word rots while nobody scans the file.
Damage ==
    /\ phase # "scanning" /\ Cardinality(damaged) < MaxDamage
    /\ \E i \in DOMAIN file, w \in Garbage :
        /\ w # file[i] /\ file' = [file EXCEPT ![i] = w]
        /\ damaged' = damaged \cup {i}
    /\ UNCHANGED <<phase, at, found, written, ends>>

\* Segment._recover: from the first byte,
Open ==
    /\ phase \in {"closed", "refused"}
    /\ phase' = "scanning" /\ at' = 0 /\ found' = <<>>
    /\ UNCHANGED <<file, written, ends, damaged>>

\* one record after the other, (variant: whatever its offset,)
Scan_AnyOffset ==
    /\ phase = "scanning" /\ Decodes(file, at)
    /\ found' = Append(found, Decoded(file, at)) /\ at' = FrameEnd(file, at)
    /\ UNCHANGED <<file, phase, written, ends, damaged>>
Scan ==
    /\ phase = "scanning" /\ Decodes(file, at)
    /\ Decoded(file, at).offset = Len(found)
    /\ found' = Append(found, Decoded(file, at)) /\ at' = FrameEnd(file, at)
    /\ UNCHANGED <<file, phase, written, ends, damaged>>

\* until there is none, where the file is cut:
Finish ==
    /\ phase = "scanning" /\ Torn(file, at)
    /\ phase' = "open" /\ file' = SubSeq(file, 1, at) /\ damaged' = damaged \cap 1 .. at
    /\ written' = SubSeq(written, 1, Len(found)) /\ ends' = SubSeq(ends, 1, Len(found))
    /\ UNCHANGED <<at, found>>

\* or the segment is refused.
Refuse ==
    /\ phase = "scanning" /\ ~ Torn(file, at)
    /\ Decodes(file, at) => Decoded(file, at).offset # Len(found)
    /\ phase' = "refused"
    /\ UNCHANGED <<file, at, found, written, ends, damaged>>

Next == AppendRecord \/ Crash \/ Damage \/ Open \/ Scan \/ Finish \/ Refuse

Spec == Init /\ [][Next]_vars

-----------------------------------------------------------------------------
(* Properties.                                                             *)

\* What a scan finds is what was appended, from the first record on, with no
\* record forged and none whose key or value went from empty to absent,
\* wherever the file was cut or a word of it damaged ("-1 means absent, not
\* empty"; "continuity is the check that catches it").
Genuine ==
    phase \in {"scanning", "open"} =>
        \A i \in DOMAIN found : i \in DOMAIN written /\ found[i] = written[i]

Opens == phase = "scanning" /\ phase' = "open"

\* No damaged word is left in a file that a segment is opened on: damage makes
\* the segment unopenable, or is cut off with the rest of the file.
NoDamageKept == [][Opens => damaged' = {}]_vars

\* A file is refused only if it was damaged, and a record that is still whole
\* is dropped only if the size field of that record, or of one before it, was
\* ("None is clean EOF or a torn tail", and a torn tail is cut at its start).
StartIn(stops, i) == IF i = 1 THEN 0 ELSE stops[i - 1]
SizeDamaged(i) == StartIn(ends, i) + PREFIX_SIZE \in damaged
OnlyDamageHurts ==
    [][/\ phase = "scanning" /\ phase' = "refused" => damaged # {}
       /\ Opens => \A i \in DOMAIN written :
            ends[i] <= Len(file) /\ i > Len(found) => \E j \in 1 .. i : SizeDamaged(j)]_vars
=============================================================================
